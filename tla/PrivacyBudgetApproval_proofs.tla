---------------------- MODULE PrivacyBudgetApproval_proofs ----------------------
(***************************************************************************)
(* Proofs about PrivacyBudgetRelease: what the store says of the ledger    *)
(* file, how approvals are granted, used and closed, and that the charges  *)
(* keep the promise of PrivacyBudget.                                      *)
(*                                                                         *)
(* Inv, from PrivacyBudgetCharge_proofs, knows what the rows say of the    *)
(* budget.  IInv adds what they say of their lines and of the reports      *)
(* (RowInv, VerdictInv, DoneInv), what the approval rows say of the        *)
(* decisions file, which outlives the transactions that wrote it           *)
(* (HistoryInv, RequestInv, ReadInv), and that a decided release is still  *)
(* entitled to its charge when its ledger line is appended (AnswerInv).    *)
(* The steps are grouped by what they do to the rows and to the requests,  *)
(* so that each part is shown to be kept by a few kinds of step.           *)
(***************************************************************************)
EXTENDS PrivacyBudgetCharge_proofs

-----------------------------------------------------------------------------
(* Rows and lines.                                                          *)

\* No two rows name one ledger line.
OneRowPerLine(ev) ==
  \A i, k \in DOMAIN ev : ev[i].src = ev[k].src /\ ev[i].src # 0 => i = k

\* A row that names its line stays as it is; the release being written is
\* not among them, and its line is named by no row.
RowInv ==
  /\ OneRowPerLine(events) /\ OneRowPerLine(wEvents)
  /\ \A i \in DOMAIN events : events[i].src # 0 => i \in DOMAIN wEvents /\ wEvents[i] = events[i]
  /\ \A r \in Runs : pc[r] \in Logged /\ verdict[r].event # 0 =>
       \A i \in DOMAIN wEvents : wEvents[i].src # Len(ledger)

\* What a run reports is what its row says.
VerdictInv ==
  \A r \in Runs :
    /\ pc[r] \in Before => ~verdict[r].allow
    /\ pc[r] \in Writing /\ verdict[r].allow => verdict[r].event # 0
    /\ pc[r] \in Writing /\ verdict[r].event # 0 =>
         /\ wEvents[verdict[r].event].job = job[r]
         /\ wEvents[verdict[r].event].consumed = verdict[r].allow

\* The charge of a finished release is in the store.
DoneInv ==
  \A r \in Runs : pc[r] = "done" /\ verdict[r].allow =>
    \E i \in DOMAIN events : events[i].src # 0 /\ events[i].job = job[r] /\ events[i].consumed

-----------------------------------------------------------------------------
(* Requests and decisions.                                                  *)

\* The lines on a request before line n.
Untouched(req, n) == \A k \in DOMAIN decisions : k < n => decisions[k].request # req

OnlyApproved(req, n) ==
  \A k \in DOMAIN decisions : k < n /\ decisions[k].request = req => decisions[k].action = "approve"

Granted(req) ==
  \E k \in DOMAIN decisions : decisions[k].request = req /\ decisions[k].action = "approve"

GrantedBefore(req, n) ==
  \E k \in DOMAIN decisions :
    k < n /\ decisions[k].request = req /\ decisions[k].action = "approve"

\* A line may stand at n.
Proper(d, n) ==
  /\ d.action \in {"approve", "reject"} => Untouched(d.request, n)
  /\ d.action = "consume" => GrantedBefore(d.request, n) /\ OnlyApproved(d.request, n)

Known(req) == approvals[req].status # "absent" \/ \E k \in DOMAIN queue : queue[k] = req

Undecided == {"publish", "ledger", "queue", "audit", "decision"}

HistoryInv ==
  /\ \A i \in DOMAIN decisions : Proper(decisions[i], i) /\ Known(decisions[i].request)
  /\ \A r \in Runs : pc[r] \in Before => decision[r] = NoDecision
  /\ \A p \in Procs : pc[p] \in Undecided /\ decision[p] # NoDecision =>
       Proper(decision[p], Len(decisions) + 1) /\ Known(decision[p].request)

Closed == {"rejected", "expired", "consumed"}

BeingGranted(req) ==
  \E o \in Operators :
    pc[o] = "decision" /\ decision[o].request = req /\ decision[o].action = "approve"

RequestInv ==
  /\ lock = NoOne => wApprovals = approvals
  /\ \A req \in Requests :
       /\ approvals[req].status # "absent" => wApprovals[req].status # "absent"
       /\ approvals[req].status \in Closed => wApprovals[req] = approvals[req]
       /\ approvals[req].status = "approved" => Granted(req)
       /\ wApprovals[req].status = "approved" => Granted(req) \/ BeingGranted(req)

Replays == {"replayLedger", "replayQueue", "replayDecisions", "evaluate", "transition"}
QueueRead == {"replayDecisions", "evaluate", "transition"}
DecisionsRead == {"evaluate", "transition"}

Listed(n) == \A k \in DOMAIN queue : k < n => wApprovals[queue[k]].status # "absent"

\* The rows reflect the decision lines before line n.
Reflects(n) ==
  \A req \in Requests :
    /\ wApprovals[req].status \in {"absent", "pending_approval"} => Untouched(req, n)
    /\ wApprovals[req].status = "approved" /\ ~Expired(wApprovals[req]) => OnlyApproved(req, n)

ReadInv ==
  \A p \in Procs :
    /\ pc[p] \in Replays =>
         \A req \in Requests : wApprovals[req].status # "absent" => Known(req)
    /\ pc[p] = "replayQueue" => Listed(cursor)
    /\ pc[p] \in QueueRead => Listed(Len(queue) + 1)
    /\ pc[p] = "replayDecisions" => Reflects(cursor)
    /\ pc[p] \in DecisionsRead => Reflects(Len(decisions) + 1)

-----------------------------------------------------------------------------
(* The releases that are about to be charged.                               *)

Asked(j) ==
  \E k \in DOMAIN decisions :
    /\ decisions[k].action = "approve"
    /\ Fingerprint(QueryOf[decisions[k].request[1]]) = Fingerprint(QueryOf[j])

Answered(j, n) == Signal(QueryOf[j], QueryOf[ledger[n].job])

AnswerInv ==
  \A r \in Runs, j \in Jobs : AboutToCharge(r, j) =>
    /\ ScopeReason(Scope(j)) = "ok"
    /\ ~wEvents[verdict[r].event].flagged =>
         \A n \in ChargesOf(Scope(j)) : Answered(j, n) = "ok"
    /\ wEvents[verdict[r].event].flagged =>
         /\ \E n \in ChargesOf(Scope(j)) : Answered(j, n) = "near_duplicate"
         /\ Asked(j)

IInv ==
  /\ Inv /\ RowInv /\ VerdictInv /\ DoneInv
  /\ HistoryInv /\ RequestInv /\ ReadInv /\ AnswerInv /\ FlaggedWasApproved

-----------------------------------------------------------------------------
(* What a step does to the rows.                                            *)

\* It leaves them alone: a process goes on, or fails before it has the lock.
RowsQuiet(p) ==
  /\ UNCHANGED <<events, wEvents, ledger, verdict, job>>
  /\ pc' = [pc EXCEPT ![p] = pc'[p]]
  /\ pc'[p] # "done"
  /\ pc'[p] \in Before => pc[p] \in Before
  /\ p \in Runs /\ pc'[p] \in Writing => verdict[p].event = 0 \/ pc[p] \in Writing
  /\ p \in Runs /\ pc'[p] \in Writing => pc[p] \in Writing \/ ~verdict[p].allow
  /\ p \in Runs /\ pc'[p] \in Logged => verdict[p].event = 0 \/ pc[p] \in Logged
  /\ p \in Runs /\ pc'[p] \in {"publish", "ledger"} => verdict[p].event = 0 \/ pc[p] = "publish"

RowsRolledBack(p) ==
  /\ UNCHANGED <<events, ledger, verdict, job>>
  /\ wEvents' = events
  /\ pc[p] \in InTransaction
  /\ pc' = [pc EXCEPT ![p] = pc'[p]] /\ pc'[p] \in {"failed", "crashed"}

RowFailed(r) ==
  /\ UNCHANGED <<ledger, verdict, job>>
  /\ verdict[r].event # 0
  /\ events' = [wEvents EXCEPT ![verdict[r].event].status = "failed_after_reserve"]
  /\ wEvents' = events'
  /\ pc[r] \in Writing
  /\ pc' = [pc EXCEPT ![r] = "failed"]

\* Both kinds of decision add a row, the one the verdict names.
RowAdded(r) ==
  /\ pc[r] = "evaluate" /\ pc' = [pc EXCEPT ![r] = "publish"]
  /\ \E flagged \in BOOLEAN : InsertEvent(r, verdict'[r].allow, flagged)
  /\ verdict'[r].allow \in BOOLEAN
  /\ verdict' = [verdict EXCEPT ![r] = verdict'[r]]
  /\ verdict'[r].event = Len(wEvents) + 1
  /\ UNCHANGED <<events, ledger, job>>

Decides(r) == Decide(r) \/ \E req \in Requests : DecideApproved(r, req)

LEMMA FailEffect ==
  ASSUME TypeOK, NEW r \in Runs, FailAfterReserve(r), pc[r] \in Writing,
         UNCHANGED <<files, local>>
  PROVE  RowsRolledBack(r) \/ RowFailed(r)
BY DEF TypeOK, Procs, FailAfterReserve, Rollback, Publishes, Goto, store, files, local,
       RowsRolledBack, RowFailed, Writing, InTransaction

LEMMA DecideAdds ==
  ASSUME TypeOK, NEW r \in Runs, Decide(r)
  PROVE  RowAdded(r)
<1>. DEFINE allow == BudgetReason(r) = "ok" /\ job[r] \in Passing
            flagged == BudgetReason(r) \notin {"ok", "missing_scope"}
<1>1. /\ pc[r] = "evaluate" /\ pc' = [pc EXCEPT ![r] = "publish"]
      /\ InsertEvent(r, allow, flagged)
      /\ verdict' = [verdict EXCEPT ![r] = verdict'[r]]
      /\ verdict'[r].event = Len(wEvents) + 1 /\ verdict'[r].allow = allow
      /\ UNCHANGED <<events, ledger, job>>
  BY DEF Decide, TypeOK, Goto, store, files
<1>2. allow \in BOOLEAN /\ flagged \in BOOLEAN
  OBVIOUS
<1>. HIDE DEF allow, flagged
<1>. QED  BY <1>1, <1>2 DEF RowAdded

LEMMA DecideApprovedAdds ==
  ASSUME TypeOK, NEW r \in Runs, NEW req \in Requests, DecideApproved(r, req)
  PROVE  RowAdded(r)
<1>. DEFINE allow == job[r] \in Passing
<1>1. /\ pc[r] = "evaluate" /\ pc' = [pc EXCEPT ![r] = "publish"]
      /\ InsertEvent(r, allow, TRUE)
      /\ verdict' = [verdict EXCEPT ![r] = verdict'[r]]
      /\ verdict'[r].event = Len(wEvents) + 1 /\ verdict'[r].allow = allow
      /\ UNCHANGED <<events, ledger, job>>
  BY DEF DecideApproved, TypeOK, Goto, store, files
<1>2. allow \in BOOLEAN
  OBVIOUS
<1>. HIDE DEF allow
<1>. QED  BY <1>1, <1>2 DEF RowAdded

\* Every step is of one of these kinds.
LEMMA RowEffects ==
  ASSUME TypeInv, VerdictInv, Next
  PROVE  \/ UNCHANGED <<events, wEvents, ledger, verdict, job, pc>>
         \/ \E p \in Procs : RowsQuiet(p) \/ RowsRolledBack(p) \/ Commit(p)
         \/ \E r \in Runs : \/ ReplayLedger(r) \/ AppendLedger(r) \/ RowFailed(r)
                            \/ Decides(r) /\ RowAdded(r)
<1>. DEFINE Goal ==
       \/ UNCHANGED <<events, wEvents, ledger, verdict, job, pc>>
       \/ \E p \in Procs : RowsQuiet(p) \/ RowsRolledBack(p) \/ Commit(p)
       \/ \E r \in Runs : \/ ReplayLedger(r) \/ AppendLedger(r) \/ RowFailed(r)
                          \/ Decides(r) /\ RowAdded(r)
<1>. SUFFICES Goal
  OBVIOUS
<1>0. TypeOK /\ LockInv /\ PendingInv /\ \A r \in Runs : r \in Procs
  BY DEF TypeInv, Procs
<1>1. ASSUME NEW p \in Procs, RowsQuiet(p) PROVE Goal
  BY <1>1
<1>2. ASSUME NEW p \in Procs, RowsRolledBack(p) PROVE Goal
  BY <1>2
<1>3. ASSUME NEW r \in Runs, Admit(r) \/ DenyUnauthenticated(r) PROVE Goal
  <2>1. RowsQuiet(r)
    BY <1>0, <1>3
       DEF Admit, DenyUnauthenticated, TypeOK, Goto, store, work, files, local, RowsQuiet,
           Before, Writing, Logged
  <2>. QED  BY <1>0, <1>1, <2>1
<1>4. ASSUME NEW r \in Runs, AuditDenial(r) \/ DenyEarly(r) PROVE Goal
  <2>1. RowsQuiet(r)
    BY <1>0, <1>4
       DEF AuditDenial, DenyEarly, TypeOK, Goto, store, work, files, local, RowsQuiet,
           Before, Writing, Logged, PendingInv, VerdictInv
  <2>. QED  BY <1>0, <1>1, <2>1
<1>5. ASSUME NEW r \in Runs, Decide(r) PROVE Goal
  BY <1>0, <1>5, DecideAdds DEF Decides
<1>6. ASSUME NEW r \in Runs, NEW req \in Requests, DecideApproved(r, req) PROVE Goal
  BY <1>0, <1>6, DecideApprovedAdds DEF Decides
<1>7. ASSUME NEW r \in Runs, DecisionRaises(r) PROVE Goal
  <2>1. RowsRolledBack(r)
    BY <1>0, <1>7
       DEF DecisionRaises, Rollback, TypeOK, Goto, store, files, local, RowsRolledBack, InTransaction
  <2>. QED  BY <1>0, <1>2, <2>1
<1>8. ASSUME NEW r \in Runs, Publish(r) \/ AppendQueue(r) \/ AppendAudit(r) PROVE Goal
  <2>1. RowsQuiet(r)
    BY <1>0, <1>8
       DEF Publish, AppendQueue, AppendAudit, TypeOK, Goto, store, work, files, local,
           RowsQuiet, Before, Writing, Logged
  <2>. QED  BY <1>0, <1>1, <2>1
<1>9. ASSUME NEW r \in Runs, Consume(r) PROVE Goal
  <2>1. RowsQuiet(r) \/ RowsRolledBack(r) \/ RowFailed(r)
    <3>1. CASE FailAfterReserve(r)
      BY <1>0, <1>9, <3>1, FailEffect DEF Consume, Writing
    <3>2. CASE Goto(r, "commit") /\ UNCHANGED <<store, wEvents, lock>>
      BY <1>0, <1>9, <3>2
         DEF Consume, TypeOK, Goto, store, files, local, RowsQuiet, Before, Writing, Logged
    <3>. QED  BY <1>9, <3>1, <3>2 DEF Consume
  <2>. QED  BY <1>0, <2>1
<1>10. ASSUME NEW o \in Operators, Transition(o) PROVE Goal
  <2>1. RowsQuiet(o) /\ o \in Procs
    BY <1>0, <1>10, ReleaseAssumption
       DEF Transition, TypeOK, Goto, store, files, local, RowsQuiet, Before, Procs
  <2>. QED  BY <1>1, <2>1
<1>11. ASSUME NEW o \in Operators, TransitionRaises(o) PROVE Goal
  <2>1. RowsRolledBack(o) /\ o \in Procs
    BY <1>0, <1>11
       DEF TransitionRaises, Rollback, TypeOK, Goto, store, files, local, RowsRolledBack,
           InTransaction, Procs
  <2>. QED  BY <1>2, <2>1
<1>12. ASSUME NEW p \in Procs, BeginImmediate(p) \/ BusyTimeout(p) PROVE Goal
  <2>1. RowsQuiet(p)
    BY <1>0, <1>12
       DEF BeginImmediate, BusyTimeout, TypeOK, Goto, store, work, files, local, RowsQuiet,
           Before, Writing, Logged
  <2>. QED  BY <1>1, <2>1
<1>13. ASSUME NEW p \in Procs, ReplayQueue(p) \/ ReplayDecisions(p) PROVE Goal
  <2>1. RowsQuiet(p)
    BY <1>0, <1>13
       DEF ReplayQueue, ReplayDecisions, TypeOK, Goto, store, files, local, RowsQuiet,
           Before, Writing, Logged
  <2>. QED  BY <1>1, <2>1
<1>14. ASSUME NEW p \in Procs, AppendDecision(p) PROVE Goal
  <2>1. RowsQuiet(p)
    BY <1>0, <1>14
       DEF AppendDecision, TypeOK, Goto, store, work, files, local, RowsQuiet, Before,
           Writing, Logged
  <2>. QED  BY <1>1, <2>1
<1>15. ASSUME NEW p \in Procs, WriteFails(p) PROVE Goal
  <2>1. CASE p \in Runs
    BY <1>0, <1>15, <2>1, FailEffect DEF WriteFails, Writing, files, local, Procs
  <2>2. CASE p \notin Runs
    BY <1>0, <1>2, <1>15, <2>2
       DEF WriteFails, Rollback, TypeOK, Goto, store, files, local, RowsRolledBack, InTransaction
  <2>. QED  BY <2>1, <2>2
<1>16. ASSUME NEW p \in Procs, Crash(p) PROVE Goal
  <2>1. RowsQuiet(p) \/ RowsRolledBack(p)
    BY <1>0, <1>16
       DEF Crash, Rollback, TypeOK, LockInv, Goto, store, work, files, local, RowsQuiet,
           RowsRolledBack, Before, Writing, Logged, InTransaction
  <2>. QED  BY <1>1, <1>2, <2>1
<1>17. ASSUME Tick PROVE Goal
  BY <1>17 DEF Tick, store, work, files, local
<1>. HIDE DEF Goal
<1>18. (\E r \in Runs : ReplayLedger(r) \/ AppendLedger(r)) \/ (\E p \in Procs : Commit(p)) => Goal
  BY DEF Goal
<1>. QED  BY <1>3, <1>4, <1>5, <1>6, <1>7, <1>8, <1>9, <1>10, <1>11, <1>12, <1>13, <1>14, <1>15,
             <1>16, <1>17, <1>18
          DEF Next, RunStep, OperatorStep, ProcStep

-----------------------------------------------------------------------------
(* The rows are kept.                                                       *)

\* While one process is inside a transaction, no other is.
LEMMA Alone ==
  ASSUME TypeOK, LockInv, NEW p \in Procs, pc[p] \in InTransaction
  PROVE  /\ lock = p
         /\ \A x \in Procs : x # p => pc[x] \notin InTransaction
BY DEF LockInv

LEMMA MarkedRow ==
  ASSUME TypeOK, NEW r \in Runs, verdict[r].event \in DOMAIN wEvents
  PROVE  LET e == verdict[r].event
             ev == MarkCommitted(r) IN
         /\ DOMAIN ev = DOMAIN wEvents
         /\ \A i \in DOMAIN wEvents : i # e => ev[i] = wEvents[i]
         /\ ev[e].src = Len(ledger)
         /\ ev[e].job = wEvents[e].job /\ ev[e].consumed = wEvents[e].consumed
<1>. DEFINE e == verdict[r].event
            ev == MarkCommitted(r)
<1>1. e # 0 /\ wEvents[e] \in Event
  BY DEF TypeOK
<1>2. DOMAIN ev = DOMAIN wEvents /\ \A i \in DOMAIN wEvents : i # e => ev[i] = wEvents[i]
  BY <1>1 DEF TypeOK, MarkCommitted
<1>3. ev[e] = [wEvents[e] EXCEPT !.status = "committed", !.src = Len(ledger)]
  BY <1>1 DEF TypeOK, MarkCommitted
<1>. HIDE DEF e, ev
<1>4. /\ ev[e].src = Len(ledger)
      /\ ev[e].job = wEvents[e].job /\ ev[e].consumed = wEvents[e].consumed
  BY <1>1, <1>3 DEF Event
<1>. QED  BY <1>2, <1>4 DEF e, ev

LEMMA FailedRow ==
  ASSUME TypeOK, NEW r \in Runs, RowFailed(r), verdict[r].event \in DOMAIN wEvents
  PROVE  LET e == verdict[r].event IN
         /\ DOMAIN wEvents' = DOMAIN wEvents
         /\ \A i \in DOMAIN wEvents : i # e => wEvents'[i] = wEvents[i]
         /\ wEvents'[e].src = wEvents[e].src
<1>. DEFINE e == verdict[r].event
<1>1. wEvents[e] \in Event
  BY DEF TypeOK
<1>2. wEvents'[e] = [wEvents[e] EXCEPT !.status = "failed_after_reserve"]
      /\ DOMAIN wEvents' = DOMAIN wEvents
      /\ \A i \in DOMAIN wEvents : i # e => wEvents'[i] = wEvents[i]
  BY DEF RowFailed, TypeOK
<1>. HIDE DEF e
<1>. QED  BY <1>1, <1>2 DEF Event, e

\* The row a release writes names no line yet.
LEMMA WrittenRow ==
  ASSUME TypeInv, WriteInv, NEW r \in Runs, pc[r] \in Writing, verdict[r].event # 0
  PROVE  verdict[r].event \in DOMAIN wEvents /\ wEvents[verdict[r].event].src = 0
BY DEF TypeInv, PendingInv, WriteInv

\* An imported line had no row.
LEMMA ImportedOnce ==
  ASSUME TypeOK, StoreInv, OneRowPerLine(wEvents), NEW n \in DOMAIN ledger
  PROVE  OneRowPerLine(ImportLine(wEvents, n))
<1>1. CASE ImportLine(wEvents, n) = wEvents
  BY <1>1
<1>2. CASE ImportLine(wEvents, n) # wEvents
  <2>. DEFINE row == [job |-> ledger[n].job, consumed |-> ledger[n].consumed,
                      flagged |-> ledger[n].flagged, status |-> "committed", src |-> n]
  <2>1. ImportLine(wEvents, n) = Append(wEvents, row) /\ \A i \in DOMAIN wEvents : wEvents[i].src # n
    BY <1>2 DEF ImportLine
  <2>2. row.src = n
    OBVIOUS
  <2>. HIDE DEF row
  <2>3. /\ DOMAIN Append(wEvents, row) = DOMAIN wEvents \cup {Len(wEvents) + 1}
        /\ \A i \in DOMAIN wEvents : Append(wEvents, row)[i] = wEvents[i]
        /\ Append(wEvents, row)[Len(wEvents) + 1] = row
    BY DEF TypeOK
  <2>. QED  BY <2>1, <2>2, <2>3 DEF OneRowPerLine
<1>. QED  BY <1>1, <1>2

LEMMA RowStep ==
  ASSUME Inv, RowInv, VerdictInv, Next
  PROVE  RowInv'
<1>0. TypeOK /\ LockInv /\ PendingInv /\ StoreInv /\ WriteInv /\ TypeInv /\ \A r \in Runs : r \in Procs
  BY DEF Inv, TypeInv, Procs
<1>1. CASE UNCHANGED <<events, wEvents, ledger, verdict, job, pc>>
  BY <1>1 DEF RowInv, OneRowPerLine
<1>2. ASSUME NEW p \in Procs, RowsQuiet(p) PROVE RowInv'
  BY <1>0, <1>2 DEF RowsQuiet, TypeOK, RowInv, OneRowPerLine
<1>3. ASSUME NEW p \in Procs, RowsRolledBack(p) PROVE RowInv'
  <2>1. \A x \in Runs : pc'[x] \notin Logged
    BY <1>0, <1>3, Alone DEF RowsRolledBack, TypeOK, InTransaction, Logged
  <2>. QED  BY <1>3, <2>1 DEF RowsRolledBack, RowInv, OneRowPerLine
<1>4. ASSUME NEW p \in Procs, Commit(p) PROVE RowInv'
  <2>1. \A x \in Runs : pc'[x] \notin Logged
    BY <1>0, <1>4, Alone DEF Commit, Goto, TypeOK, InTransaction, Logged
  <2>2. pc[p] = "commit" /\ events' = wEvents'
        /\ events' = IF p \in Runs THEN MarkCommitted(p) ELSE wEvents
    BY <1>4 DEF Commit, Publishes
  <2>3. CASE p \in Runs /\ verdict[p].event # 0
    <3>. DEFINE e == verdict[p].event
                ev == MarkCommitted(p)
    <3>1. e \in DOMAIN wEvents /\ wEvents[e].src = 0
      BY <1>0, <2>2, <2>3, WrittenRow DEF Writing
    <3>2. /\ DOMAIN ev = DOMAIN wEvents
          /\ \A i \in DOMAIN wEvents : i # e => ev[i] = wEvents[i]
          /\ ev[e].src = Len(ledger)
      BY <1>0, <2>3, <3>1, MarkedRow
    <3>3. \A i \in DOMAIN wEvents : wEvents[i].src # Len(ledger)
      BY <2>2, <2>3 DEF RowInv, Logged
    <3>4. events' = ev
      BY <2>2, <2>3
    <3>. HIDE DEF e, ev
    <3>5. OneRowPerLine(ev)
      BY <3>1, <3>2, <3>3 DEF RowInv, OneRowPerLine
    <3>. QED  BY <2>1, <2>2, <3>4, <3>5 DEF RowInv, OneRowPerLine
  <2>4. CASE ~(p \in Runs /\ verdict[p].event # 0)
    BY <2>1, <2>2, <2>4 DEF RowInv, OneRowPerLine, MarkCommitted
  <2>. QED  BY <2>3, <2>4
<1>5. ASSUME NEW r \in Runs, ReplayLedger(r) PROVE RowInv'
  <2>1. \A x \in Runs : pc'[x] \notin Logged
    BY <1>0, <1>5, Alone DEF ReplayLedger, Goto, TypeOK, InTransaction, Logged
  <2>2. CASE cursor \in DOMAIN ledger
    <3>1. wEvents' = ImportLine(wEvents, cursor) /\ UNCHANGED events
      BY <1>5, <2>2 DEF ReplayLedger, store
    <3>2. OneRowPerLine(ImportLine(wEvents, cursor))
      BY <1>0, <2>2, ImportedOnce DEF RowInv
    <3>3. \A i \in DOMAIN wEvents : i \in DOMAIN wEvents' /\ wEvents'[i] = wEvents[i]
      BY <1>0, <2>2, <3>1, ImportKeeps
    <3>. QED  BY <2>1, <3>1, <3>2, <3>3 DEF RowInv, OneRowPerLine
  <2>3. CASE cursor \notin DOMAIN ledger
    BY <1>5, <2>1, <2>3 DEF ReplayLedger, store, RowInv, OneRowPerLine
  <2>. QED  BY <2>2, <2>3
<1>6. ASSUME NEW r \in Runs, RowAdded(r) PROVE RowInv'
  <2>1. \A x \in Runs : pc'[x] \notin Logged
    BY <1>0, <1>6, Alone DEF RowAdded, TypeOK, InTransaction, Logged
  <2>2. PICK flagged \in BOOLEAN : InsertEvent(r, verdict'[r].allow, flagged)
    BY <1>6 DEF RowAdded
  <2>. DEFINE e == Len(wEvents) + 1
  <2>3. /\ DOMAIN wEvents' = DOMAIN wEvents \cup {e}
        /\ \A i \in DOMAIN wEvents : i # e /\ wEvents'[i] = wEvents[i]
        /\ wEvents'[e].src = 0
    BY <1>0, <1>6, <2>2, InsertedRow DEF RowAdded
  <2>. HIDE DEF e
  <2>. QED  BY <1>6, <2>1, <2>3 DEF RowAdded, RowInv, OneRowPerLine
<1>7. ASSUME NEW r \in Runs, AppendLedger(r) PROVE RowInv'
  <2>1. UNCHANGED <<events, wEvents, verdict>> /\ Len(ledger') \notin DOMAIN ledger /\ Len(ledger') # 0
    BY <1>0, <1>7, LedgerGrows DEF AppendLedger, store, work, local, TypeOK
  <2>2. \A i \in DOMAIN wEvents : wEvents[i].src # Len(ledger')
    BY <1>0, <2>1 DEF StoreInv, Linked
  <2>. QED  BY <2>1, <2>2 DEF RowInv, OneRowPerLine
<1>8. ASSUME NEW r \in Runs, RowFailed(r) PROVE RowInv'
  <2>. DEFINE e == verdict[r].event
  <2>1. \A x \in Runs : pc'[x] \notin Logged
    BY <1>0, <1>8, Alone DEF RowFailed, TypeOK, Writing, InTransaction, Logged
  <2>2. e \in DOMAIN wEvents /\ wEvents[e].src = 0
    BY <1>0, <1>8, WrittenRow DEF RowFailed
  <2>3. /\ DOMAIN wEvents' = DOMAIN wEvents
        /\ \A i \in DOMAIN wEvents : i # e => wEvents'[i] = wEvents[i]
        /\ wEvents'[e].src = wEvents[e].src
    BY <1>0, <1>8, <2>2, FailedRow
  <2>4. events' = wEvents'
    BY <1>8 DEF RowFailed
  <2>. HIDE DEF e
  <2>. QED  BY <2>1, <2>2, <2>3, <2>4 DEF RowInv, OneRowPerLine
<1>. QED  BY <1>0, <1>1, <1>2, <1>3, <1>4, <1>5, <1>6, <1>7, <1>8, RowEffects

LEMMA VerdictStep ==
  ASSUME Inv, VerdictInv, Next
  PROVE  VerdictInv'
<1>0. TypeOK /\ LockInv /\ PendingInv /\ TypeInv /\ \A r \in Runs : r \in Procs
  BY DEF Inv, TypeInv, Procs
<1>1. CASE UNCHANGED <<events, wEvents, ledger, verdict, job, pc>>
  BY <1>1 DEF VerdictInv
<1>2. ASSUME NEW p \in Procs, RowsQuiet(p) PROVE VerdictInv'
  BY <1>0, <1>2 DEF RowsQuiet, TypeOK, VerdictInv
<1>3. ASSUME NEW p \in Procs, RowsRolledBack(p) PROVE VerdictInv'
  <2>1. \A x \in Runs : pc'[x] \notin Writing
    BY <1>0, <1>3, Alone DEF RowsRolledBack, TypeOK, InTransaction, Writing
  <2>. QED  BY <1>0, <1>3, <2>1 DEF RowsRolledBack, TypeOK, VerdictInv, Before
<1>4. ASSUME NEW p \in Procs, Commit(p) PROVE VerdictInv'
  <2>1. \A x \in Runs : pc'[x] \notin Writing
    BY <1>0, <1>4, Alone DEF Commit, Goto, TypeOK, InTransaction, Writing
  <2>. QED  BY <1>0, <1>4, <2>1 DEF Commit, Goto, local, TypeOK, VerdictInv, Before
<1>5. ASSUME NEW r \in Runs, ReplayLedger(r) PROVE VerdictInv'
  <2>1. \A x \in Runs : pc'[x] \notin Writing
    BY <1>0, <1>5, Alone DEF ReplayLedger, Goto, TypeOK, InTransaction, Writing
  <2>. QED  BY <1>0, <1>5, <2>1 DEF ReplayLedger, Goto, local, TypeOK, VerdictInv, Before
<1>6. ASSUME NEW r \in Runs, RowAdded(r) PROVE VerdictInv'
  <2>1. \A x \in Runs : x # r => pc'[x] = pc[x] /\ pc[x] \notin Writing /\ verdict'[x] = verdict[x]
    BY <1>0, <1>6, Alone DEF RowAdded, TypeOK, InTransaction, Writing
  <2>2. PICK flagged \in BOOLEAN : InsertEvent(r, verdict'[r].allow, flagged)
    BY <1>6 DEF RowAdded
  <2>3. LET e == Len(wEvents) + 1 IN
        wEvents'[e].job = job[r] /\ wEvents'[e].consumed = verdict'[r].allow
    BY <1>0, <1>6, <2>2, InsertedRow DEF RowAdded
  <2>. QED  BY <1>0, <1>6, <2>1, <2>3 DEF RowAdded, TypeOK, VerdictInv, Before
<1>7. ASSUME NEW r \in Runs, AppendLedger(r) PROVE VerdictInv'
  BY <1>0, <1>7
     DEF AppendLedger, Goto, store, work, local, TypeOK, VerdictInv, Before, Writing
<1>8. ASSUME NEW r \in Runs, RowFailed(r) PROVE VerdictInv'
  <2>1. \A x \in Runs : pc'[x] \notin Writing
    BY <1>0, <1>8, Alone DEF RowFailed, TypeOK, InTransaction, Writing
  <2>. QED  BY <1>0, <1>8, <2>1 DEF RowFailed, TypeOK, VerdictInv, Before
<1>. QED  BY <1>0, <1>1, <1>2, <1>3, <1>4, <1>5, <1>6, <1>7, <1>8, RowEffects

\* A row that names its line is never lost.
LEMMA LinkedRowStays ==
  ASSUME Inv, RowInv, VerdictInv, Next, NEW i \in DOMAIN events, events[i].src # 0
  PROVE  i \in DOMAIN events' /\ events'[i] = events[i]
<1>0. /\ TypeOK /\ LockInv /\ PendingInv /\ WriteInv /\ TypeInv
      /\ i \in DOMAIN wEvents /\ wEvents[i] = events[i]
      /\ \A r \in Runs : r \in Procs
  BY DEF Inv, TypeInv, Procs, RowInv
<1>1. CASE UNCHANGED events
  BY <1>1
<1>2. ASSUME NEW p \in Procs, Commit(p) PROVE i \in DOMAIN events' /\ events'[i] = events[i]
  <2>1. pc[p] = "commit" /\ events' = IF p \in Runs THEN MarkCommitted(p) ELSE wEvents
    BY <1>2 DEF Commit, Publishes
  <2>2. CASE p \in Runs /\ verdict[p].event # 0
    <3>1. verdict[p].event \in DOMAIN wEvents /\ wEvents[verdict[p].event].src = 0
      BY <1>0, <2>1, <2>2, WrittenRow DEF Writing
    <3>. QED  BY <1>0, <2>1, <2>2, <3>1, MarkedRow
  <2>3. CASE ~(p \in Runs /\ verdict[p].event # 0)
    BY <1>0, <2>1, <2>3 DEF MarkCommitted
  <2>. QED  BY <2>2, <2>3
<1>3. ASSUME NEW r \in Runs, RowFailed(r) PROVE i \in DOMAIN events' /\ events'[i] = events[i]
  <2>1. verdict[r].event \in DOMAIN wEvents /\ wEvents[verdict[r].event].src = 0
    BY <1>0, <1>3, WrittenRow DEF RowFailed
  <2>2. events' = wEvents'
    BY <1>3 DEF RowFailed
  <2>. QED  BY <1>0, <1>3, <2>1, <2>2, FailedRow
<1>. QED  BY <1>0, <1>1, <1>2, <1>3, RowEffects
          DEF RowsQuiet, RowsRolledBack, ReplayLedger, RowAdded, AppendLedger, store

LEMMA DoneStep ==
  ASSUME Inv, RowInv, VerdictInv, DoneInv, Next
  PROVE  DoneInv'
<1>0. TypeOK /\ LockInv /\ PendingInv /\ WriteInv /\ TypeInv /\ \A r \in Runs : r \in Procs
  BY DEF Inv, TypeInv, Procs
<1>1. ASSUME NEW r \in Runs, pc[r] = "done", verdict[r].allow, job'[r] = job[r]
      PROVE  \E i \in DOMAIN events' :
               events'[i].src # 0 /\ events'[i].job = job'[r] /\ events'[i].consumed
  BY <1>1, LinkedRowStays DEF DoneInv
<1>2. ASSUME NEW r \in Runs, pc'[r] = "done", verdict'[r].allow
      PROVE  \/ pc[r] = "done" /\ verdict[r].allow
             \/ Commit(r) /\ verdict[r].allow
  <2>1. CASE UNCHANGED <<events, wEvents, ledger, verdict, job, pc>>
    BY <1>2, <2>1
  <2>2. ASSUME NEW p \in Procs, RowsQuiet(p) \/ RowsRolledBack(p)
        PROVE pc[r] = "done" /\ verdict[r].allow
    BY <1>0, <1>2, <2>2 DEF RowsQuiet, RowsRolledBack, TypeOK
  <2>3. ASSUME NEW p \in Procs, Commit(p)
        PROVE \/ pc[r] = "done" /\ verdict[r].allow
              \/ Commit(r) /\ verdict[r].allow
    BY <1>0, <1>2, <2>3 DEF Commit, Goto, local, TypeOK
  <2>4. ASSUME NEW x \in Runs, ReplayLedger(x) \/ RowAdded(x) \/ AppendLedger(x) \/ RowFailed(x)
        PROVE pc[r] = "done" /\ verdict[r].allow
    <3>1. CASE RowAdded(x)
      BY <1>0, <1>2, <3>1 DEF RowAdded, TypeOK
    <3>2. CASE ReplayLedger(x) \/ AppendLedger(x) \/ RowFailed(x)
      BY <1>0, <1>2, <3>2 DEF ReplayLedger, AppendLedger, RowFailed, Goto, local, TypeOK
    <3>. QED  BY <2>4, <3>1, <3>2
  <2>. QED  BY <1>0, <2>1, <2>2, <2>3, <2>4, RowEffects
<1>3. ASSUME NEW r \in Runs, Commit(r), verdict[r].allow
      PROVE  \E i \in DOMAIN events' :
               events'[i].src # 0 /\ events'[i].job = job'[r] /\ events'[i].consumed
  <2>. DEFINE e == verdict[r].event
              ev == MarkCommitted(r)
  <2>1. pc[r] = "commit" /\ events' = ev /\ job' = job
    BY <1>3 DEF Commit, Publishes, local
  <2>2. e # 0 /\ wEvents[e].job = job[r] /\ wEvents[e].consumed
    BY <1>3, <2>1 DEF VerdictInv, Writing
  <2>3. e \in DOMAIN wEvents /\ Len(ledger) # 0
    BY <1>0, <2>1, <2>2, WrittenRow DEF Writing, Logged, WriteInv
  <2>4. e \in DOMAIN ev /\ ev[e].src = Len(ledger)
        /\ ev[e].job = wEvents[e].job /\ ev[e].consumed = wEvents[e].consumed
    BY <1>0, <2>3, MarkedRow
  <2>. HIDE DEF e, ev
  <2>. QED  BY <2>1, <2>2, <2>3, <2>4
<1>4. job' = job
  BY DEF Next, RunStep, OperatorStep, ProcStep, local, Admit, DenyUnauthenticated, AuditDenial,
         ReplayLedger, DenyEarly, Decide, DecideApproved, DecisionRaises, Publish, AppendLedger,
         AppendQueue, AppendAudit, Consume, Transition, TransitionRaises, BeginImmediate,
         BusyTimeout, ReplayQueue, ReplayDecisions, AppendDecision, Commit, WriteFails, Crash,
         Tick
<1>. QED  BY <1>1, <1>2, <1>3, <1>4 DEF DoneInv

LEMMA StoreMatches ==
  ASSUME Inv, RowInv, DoneInv
  PROVE  StoreMatchesLedger
<1>0. events \in Seq(Event) /\ Linked(events) /\ Settled(events)
  BY DEF Inv, TypeInv, TypeOK, StoreInv
<1>1. ASSUME NEW i \in DOMAIN events, events[i].consumed, events[i].src # 0
      PROVE  HasCharge(events[i])
  BY <1>0, <1>1 DEF Linked, HasCharge, Charges
<1>2. \A i \in DOMAIN events : Counted(events[i]) => HasCharge(events[i]) /\ events[i].src # 0
  BY <1>0, <1>1 DEF Settled, Counted
<1>3. ASSUME NEW r \in Runs, pc[r] = "done", verdict[r].allow
      PROVE  \E e \in Range(events) : e.job = job[r] /\ e.consumed /\ HasCharge(e)
  BY <1>1, <1>3 DEF DoneInv, Range
<1>. QED  BY <1>2, <1>3 DEF StoreMatchesLedger, RowInv, OneRowPerLine

-----------------------------------------------------------------------------
(* What the helpers do to a request.                                        *)

LEMMA MovedRow ==
  ASSUME NEW row \in Row, NEW action \in {"approve", "reject", "expire", "consume"},
         NEW expires \in Expiries, CanTransition(row, action)
  PROVE  /\ row.status \in {"pending_approval", "approved"}
         /\ Transitioned(row, action, expires).status \in {"approved"} \cup Closed
         /\ Transitioned(row, action, expires).status = "approved" <=> action = "approve"
         /\ action = "approve" => row.status = "pending_approval"
BY DEF CanTransition, Transitioned, StatusAfter, Closed

\* A request that is inserted was absent, and the others stay as they are.
LEMMA InsertedRequest ==
  ASSUME NEW rows \in [Requests -> Row], NEW req \in Requests \cup {NoRequest}, NEW q \in Requests
  PROVE  /\ InsertRequest(rows, req)[q].status # "absent" <=> rows[q].status # "absent" \/ q = req
         /\ \/ InsertRequest(rows, req)[q] = rows[q]
            \/ /\ q = req /\ rows[q].status = "absent"
               /\ InsertRequest(rows, req)[q].status = "pending_approval"
<1>0. req \in Requests => req # NoRequest
  BY ReleaseAssumption DEF Requests
<1>1. CASE req \in Requests /\ rows[req].status = "absent"
  <2>1. InsertRequest(rows, req) = [rows EXCEPT ![req].status = "pending_approval"]
    BY <1>0, <1>1 DEF InsertRequest
  <2>2. CASE q = req
    <3>1. InsertRequest(rows, req)[q] = [rows[q] EXCEPT !.status = "pending_approval"] /\ rows[q] \in Row
      BY <2>1, <2>2
    <3>2. InsertRequest(rows, req)[q].status = "pending_approval"
      BY <3>1 DEF Row
    <3>. QED  BY <1>1, <2>2, <3>2
  <2>3. CASE q # req
    BY <2>1, <2>3
  <2>. QED  BY <2>2, <2>3
<1>2. CASE ~(req \in Requests /\ rows[req].status = "absent")
  <2>1. InsertRequest(rows, req) = rows
    BY <1>2 DEF InsertRequest
  <2>2. q = req => rows[q].status # "absent"
    BY <1>2
  <2>. QED  BY <2>1, <2>2
<1>. QED  BY <1>1, <1>2

LEMMA ReplayedRequest ==
  ASSUME NEW rows \in [Requests -> Row], NEW d \in Decision, NEW q \in Requests
  PROVE  \/ /\ ReplayDecision(rows, d)[q] = rows[q]
            /\ q = d.request =>
                 rows[q].status \in {"absent", StatusAfter[d.action]} \/ ~CanTransition(rows[q], d.action)
         \/ /\ q = d.request
            /\ CanTransition(rows[q], d.action)
            /\ ReplayDecision(rows, d)[q] = Transitioned(rows[q], d.action, d.expires)
<1>1. d.request \in Requests
  BY DEF Decision
<1>. QED  BY <1>1 DEF ReplayDecision

LEMMA DecisionFields ==
  ASSUME NEW d \in Decision
  PROVE  /\ d.request \in Requests /\ d.expires \in Expiries
         /\ d.action \in {"approve", "reject", "expire", "consume"}
BY DEF Decision

-----------------------------------------------------------------------------
(* What a step does to the requests.                                        *)

\* It leaves requests and decisions alone.
RequestsQuiet(p) ==
  /\ UNCHANGED <<approvals, wApprovals, queue, decisions, decision, now, lock, cursor>>
  /\ pc' = [pc EXCEPT ![p] = pc'[p]]
  /\ pc'[p] \in Before => pc[p] \in Before
  /\ pc'[p] \in Undecided => pc[p] \in Undecided \/ decision[p] = NoDecision
  /\ pc'[p] \notin Replays
  /\ p \in Operators => pc[p] # "decision" /\ pc'[p] # "decision"

\* It ends a transaction, with or without what it did to the requests; an
\* operator's transition is never kept without its decision line.
RequestsEnd(p) ==
  /\ UNCHANGED <<queue, decisions, decision, now>>
  /\ lock' = NoOne
  /\ wApprovals' = approvals'
  /\ \/ approvals' = approvals
     \/ approvals' = wApprovals /\ ~(p \in Operators /\ pc[p] = "decision")
  /\ pc[p] \in InTransaction
  /\ pc' = [pc EXCEPT ![p] = pc'[p]] /\ pc'[p] \in Ended

ConsumeGranted(r) ==
  LET req == decision[r].request IN
  /\ UNCHANGED <<approvals, queue, decisions, decision, now, lock>>
  /\ pc[r] = "consume" /\ pc' = [pc EXCEPT ![r] = "commit"]
  /\ CanTransition(wApprovals[req], "consume")
  /\ wApprovals' = [wApprovals EXCEPT ![req] = Transitioned(wApprovals[req], "consume", NoExpiry)]

RequestsChange ==
  \/ \E p \in Procs : BeginImmediate(p) \/ ReplayQueue(p) \/ ReplayDecisions(p) \/ AppendDecision(p)
  \/ \E r \in Runs : ReplayLedger(r) \/ Decide(r) \/ AppendQueue(r) \/ ConsumeGranted(r)
  \/ \E r \in Runs, req \in Requests : DecideApproved(r, req)
  \/ \E o \in Operators : Transition(o)
  \/ Tick

LEMMA FailEnds ==
  ASSUME TypeOK, NEW r \in Runs, FailAfterReserve(r), pc[r] \in Writing,
         UNCHANGED <<files, now, local>>
  PROVE  RequestsEnd(r)
BY ReleaseAssumption
   DEF TypeOK, Procs, FailAfterReserve, Rollback, Publishes, Goto, store, files, local,
       RequestsEnd, Writing, InTransaction, Ended

\* Every step is of one of these kinds.
LEMMA RequestEffects ==
  ASSUME TypeInv, HistoryInv, Next
  PROVE  RequestsChange \/ \E p \in Procs : RequestsQuiet(p) \/ RequestsEnd(p)
<1>. DEFINE Goal == RequestsChange \/ \E p \in Procs : RequestsQuiet(p) \/ RequestsEnd(p)
<1>. SUFFICES Goal
  OBVIOUS
<1>0. /\ TypeOK /\ LockInv /\ PendingInv
      /\ \A r \in Runs : r \in Procs /\ r \notin Operators
      /\ \A o \in Operators : o \in Procs /\ o \notin Runs
  BY ReleaseAssumption DEF TypeInv, Procs
<1>1. ASSUME NEW p \in Procs, RequestsQuiet(p) PROVE Goal
  BY <1>1
<1>2. ASSUME NEW p \in Procs, RequestsEnd(p) PROVE Goal
  BY <1>2
<1>3. ASSUME NEW r \in Runs,
             Admit(r) \/ DenyUnauthenticated(r) \/ AuditDenial(r) \/ DenyEarly(r)
      PROVE  Goal
  <2>1. RequestsQuiet(r)
    BY <1>0, <1>3
       DEF Admit, DenyUnauthenticated, AuditDenial, DenyEarly, TypeOK, Goto, store, work, files,
           local, RequestsQuiet, Before, Undecided, Replays, HistoryInv
  <2>. QED  BY <1>0, <1>1, <2>1
<1>4. ASSUME NEW r \in Runs, Publish(r) \/ AppendLedger(r) \/ AppendAudit(r) PROVE Goal
  <2>1. RequestsQuiet(r)
    BY <1>0, <1>4
       DEF Publish, AppendLedger, AppendAudit, TypeOK, Goto, store, work, files, local,
           RequestsQuiet, Before, Undecided, Replays
  <2>. QED  BY <1>0, <1>1, <2>1
<1>5. ASSUME NEW r \in Runs, DecisionRaises(r) PROVE Goal
  <2>1. RequestsEnd(r)
    BY <1>0, <1>5
       DEF DecisionRaises, Rollback, TypeOK, Goto, store, files, local, RequestsEnd,
           InTransaction, Ended
  <2>. QED  BY <1>0, <1>2, <2>1
<1>6. ASSUME NEW r \in Runs, Consume(r) PROVE Goal
  <2>1. CASE FailAfterReserve(r)
    <3>1. RequestsEnd(r)
      BY <1>0, <1>6, <2>1, FailEnds DEF Consume, Writing
    <3>. QED  BY <1>0, <1>2, <3>1
  <2>2. CASE CanTransition(wApprovals[decision[r].request], "consume")
    <3>1. ConsumeGranted(r)
      BY <1>6, <2>2 DEF Consume, Goto, store, files, local, ConsumeGranted
    <3>. QED  BY <3>1 DEF RequestsChange
  <2>. QED  BY <1>6, <2>1, <2>2 DEF Consume
<1>7. ASSUME NEW o \in Operators, TransitionRaises(o) PROVE Goal
  <2>1. RequestsEnd(o)
    BY <1>0, <1>7
       DEF TransitionRaises, Rollback, TypeOK, Goto, store, files, local, RequestsEnd,
           InTransaction, Ended
  <2>. QED  BY <1>0, <1>2, <2>1
<1>8. ASSUME NEW p \in Procs, BusyTimeout(p) PROVE Goal
  <2>1. RequestsQuiet(p)
    BY <1>0, <1>8
       DEF BusyTimeout, TypeOK, Goto, store, work, files, local, RequestsQuiet, Before,
           Undecided, Replays
  <2>. QED  BY <1>1, <2>1
<1>9. ASSUME NEW p \in Procs, Commit(p) PROVE Goal
  <2>1. RequestsEnd(p)
    BY <1>0, <1>9
       DEF Commit, Publishes, TypeOK, Goto, files, local, RequestsEnd, InTransaction, Ended
  <2>. QED  BY <1>2, <2>1
<1>10. ASSUME NEW p \in Procs, WriteFails(p) PROVE Goal
  <2>1. CASE p \in Runs
    <3>1. RequestsEnd(p)
      BY <1>0, <1>10, <2>1, FailEnds DEF WriteFails, Writing
    <3>. QED  BY <1>2, <3>1
  <2>2. CASE p \notin Runs
    <3>1. RequestsEnd(p)
      BY <1>0, <1>10, <2>2
         DEF WriteFails, Rollback, TypeOK, Goto, store, files, local, RequestsEnd,
             InTransaction, Ended
    <3>. QED  BY <1>2, <3>1
  <2>. QED  BY <2>1, <2>2
<1>11. ASSUME NEW p \in Procs, Crash(p) PROVE Goal
  <2>1. CASE lock = p
    <3>1. RequestsEnd(p)
      BY <1>0, <1>11, <2>1
         DEF Crash, Rollback, TypeOK, LockInv, Goto, store, files, local, RequestsEnd, Ended
    <3>. QED  BY <1>2, <3>1
  <2>2. CASE lock # p
    <3>1. RequestsQuiet(p)
      BY <1>0, <1>11, <2>2
         DEF Crash, TypeOK, LockInv, Goto, store, work, files, local, RequestsQuiet,
             InTransaction, Before, Undecided, Replays
    <3>. QED  BY <1>1, <3>1
  <2>. QED  BY <2>1, <2>2
<1>12. RequestsChange => Goal
  OBVIOUS
<1>. HIDE DEF Goal
<1>. QED  BY <1>3, <1>4, <1>5, <1>6, <1>7, <1>8, <1>9, <1>10, <1>11, <1>12
          DEF Next, RunStep, OperatorStep, ProcStep, RequestsChange

-----------------------------------------------------------------------------
(* The requests.                                                            *)

\* A decision line is appended behind the others.
LEMMA AppendedLine ==
  ASSUME TypeInv, NEW p \in Procs, AppendDecision(p)
  PROVE  /\ decision[p] \in Decision
         /\ Len(decisions') = Len(decisions) + 1 /\ Len(decisions) \in Nat
         /\ DOMAIN decisions' = DOMAIN decisions \cup {Len(decisions) + 1}
         /\ decisions'[Len(decisions) + 1] = decision[p]
         /\ \A k \in DOMAIN decisions : k < Len(decisions) + 1 /\ decisions'[k] = decisions[k]
<1>1. decision[p] \in Decision /\ decisions \in Seq(Decision)
  BY DEF TypeInv, TypeOK, PendingInv, AppendDecision
<1>2. decisions' = Append(decisions, decision[p])
  BY DEF AppendDecision
<1>. QED  BY <1>1, <1>2

LEMMA GrantedStays ==
  ASSUME TypeInv, NEW p \in Procs, AppendDecision(p), NEW req, Granted(req)
  PROVE  Granted(req)'
BY AppendedLine DEF Granted

\* What the operator at work has granted is in the file, or about to be.
LEMMA NobodyGranting ==
  ASSUME TypeOK, LockInv, NEW p \in Procs, pc[p] \in InTransaction,
         ~(p \in Operators /\ pc[p] = "decision"), NEW req
  PROVE  ~BeingGranted(req)
BY Alone DEF BeingGranted, InTransaction, Procs

LEMMA RequestStep ==
  ASSUME TypeInv, HistoryInv, RequestInv, Next
  PROVE  RequestInv'
<1>0. /\ TypeOK /\ LockInv /\ PendingInv
      /\ \A r \in Runs : r \in Procs /\ r \notin Operators
      /\ \A o \in Operators : o \in Procs /\ o \notin Runs
      /\ NoOne \notin Procs
      /\ wApprovals \in [Requests -> Row] /\ approvals \in [Requests -> Row]
  BY ReleaseAssumption DEF TypeInv, TypeOK, Procs
<1>1. ASSUME NEW p \in Procs, RequestsQuiet(p) PROVE RequestInv'
  <2>1. \A req : Granted(req)' <=> Granted(req)
    BY <1>1 DEF RequestsQuiet, Granted
  <2>2. \A req : BeingGranted(req)' <=> BeingGranted(req)
    BY <1>0, <1>1 DEF RequestsQuiet, BeingGranted, TypeOK
  <2>. QED  BY <1>1, <2>1, <2>2 DEF RequestsQuiet, RequestInv
<1>2. ASSUME NEW p \in Procs, RequestsEnd(p) PROVE RequestInv'
  <2>1. \A req : Granted(req)' <=> Granted(req)
    BY <1>2 DEF RequestsEnd, Granted
  <2>2. CASE approvals' = approvals
    BY <1>2, <2>1, <2>2 DEF RequestsEnd, RequestInv
  <2>3. CASE approvals' = wApprovals /\ ~(p \in Operators /\ pc[p] = "decision")
    <3>1. \A req : ~BeingGranted(req)
      BY <1>0, <1>2, <2>3, NobodyGranting DEF RequestsEnd
    <3>. QED  BY <1>2, <2>1, <2>3, <3>1 DEF RequestsEnd, RequestInv
  <2>. QED  BY <1>2, <2>2, <2>3 DEF RequestsEnd
\* Steps that change neither rows nor decision lines.
<1>3. ASSUME UNCHANGED <<approvals, wApprovals, decisions>>, lock' = NoOne => lock = NoOne,
             \A req : BeingGranted(req) => BeingGranted(req)'
      PROVE  RequestInv'
  <2>1. \A req : Granted(req)' <=> Granted(req)
    BY <1>3 DEF Granted
  <2>. QED  BY <1>3, <2>1 DEF RequestInv
<1>4. ASSUME NEW p \in Procs, BeginImmediate(p) PROVE RequestInv'
  BY <1>0, <1>3, <1>4
     DEF BeginImmediate, Goto, store, work, files, local, TypeOK, BeingGranted
<1>5. ASSUME NEW r \in Runs, ReplayLedger(r) PROVE RequestInv'
  BY <1>0, <1>3, <1>5
     DEF ReplayLedger, Goto, store, files, local, TypeOK, BeingGranted
<1>6. ASSUME NEW r \in Runs, AppendQueue(r) PROVE RequestInv'
  BY <1>0, <1>3, <1>6
     DEF AppendQueue, Goto, store, work, local, TypeOK, BeingGranted
<1>7. ASSUME NEW r \in Runs, NEW req \in Requests, DecideApproved(r, req) PROVE RequestInv'
  BY <1>0, <1>3, <1>7
     DEF DecideApproved, Goto, store, files, TypeOK, BeingGranted
<1>8. ASSUME Tick PROVE RequestInv'
  BY <1>0, <1>3, <1>8 DEF Tick, store, work, files, local, BeingGranted
\* Steps that insert a request.
<1>9. ASSUME NEW p \in Procs, lock = p, pc[p] \in InTransaction \ {"decision"},
             NEW req \in Requests \cup {NoRequest},
             wApprovals' = InsertRequest(wApprovals, req), UNCHANGED <<approvals, decisions, lock>>
      PROVE  RequestInv'
  <2>1. \A q : Granted(q)' <=> Granted(q)
    BY <1>9 DEF Granted
  <2>2. \A q : ~BeingGranted(q)
    BY <1>0, <1>9, NobodyGranting
  <2>3. ASSUME NEW q \in Requests
        PROVE  /\ approvals'[q].status # "absent" => wApprovals'[q].status # "absent"
               /\ approvals'[q].status \in Closed => wApprovals'[q] = approvals'[q]
               /\ approvals'[q].status = "approved" => Granted(q)'
               /\ wApprovals'[q].status = "approved" => Granted(q)'
    BY <1>0, <1>9, <2>1, <2>2, InsertedRequest DEF RequestInv, Closed
  <2>. QED  BY <1>0, <1>9, <2>3 DEF RequestInv
<1>10. ASSUME NEW p \in Procs, ReplayQueue(p) PROVE RequestInv'
  <2>1. CASE cursor \in DOMAIN queue
    <3>1. /\ lock = p /\ pc[p] \in InTransaction \ {"decision"}
          /\ wApprovals' = InsertRequest(wApprovals, queue[cursor])
          /\ UNCHANGED <<approvals, decisions, lock>>
      BY <1>10, <2>1 DEF ReplayQueue, store, files, InTransaction
    <3>2. queue[cursor] \in Requests
      BY <1>0, <2>1 DEF TypeOK
    <3>. QED  BY <1>9, <3>1, <3>2
  <2>2. CASE cursor \notin DOMAIN queue
    BY <1>0, <1>3, <1>10, <2>2
       DEF ReplayQueue, Goto, store, files, local, TypeOK, BeingGranted
  <2>. QED  BY <2>1, <2>2
<1>11. ASSUME NEW r \in Runs, Decide(r) PROVE RequestInv'
  <2>1. PICK opens \in Requests \cup {NoRequest} : wApprovals' = InsertRequest(wApprovals, opens)
    BY <1>0, <1>11, OpensType DEF Decide, TypeOK
  <2>2. pc[r] \in InTransaction \ {"decision"} /\ UNCHANGED <<approvals, decisions, lock>>
    BY <1>11 DEF Decide, store, files, InTransaction
  <2>3. lock = r
    BY <1>0, <2>2 DEF LockInv
  <2>. QED  BY <1>0, <1>9, <2>1, <2>2, <2>3
<1>12. ASSUME NEW p \in Procs, ReplayDecisions(p) PROVE RequestInv'
  <2>1. CASE cursor \in DOMAIN decisions
    <3>. DEFINE d == decisions[cursor]
    <3>1. /\ lock = p /\ pc[p] \in InTransaction \ {"decision"}
          /\ wApprovals' = ReplayDecision(wApprovals, d)
          /\ UNCHANGED <<approvals, decisions, lock>>
      BY <1>12, <2>1 DEF ReplayDecisions, store, files, InTransaction
    <3>2. d \in Decision
      BY <1>0, <2>1 DEF TypeOK
    <3>3. d.action = "approve" => Granted(d.request)
      BY <2>1 DEF Granted
    <3>. HIDE DEF d
    <3>4. \A q : Granted(q)' <=> Granted(q)
      BY <3>1 DEF Granted
    <3>5. \A q : ~BeingGranted(q)
      BY <1>0, <3>1, NobodyGranting
    <3>6. ASSUME NEW q \in Requests
          PROVE  /\ approvals'[q].status # "absent" => wApprovals'[q].status # "absent"
                 /\ approvals'[q].status \in Closed => wApprovals'[q] = approvals'[q]
                 /\ approvals'[q].status = "approved" => Granted(q)'
                 /\ wApprovals'[q].status = "approved" => Granted(q)'
      <4>1. CASE wApprovals'[q] = wApprovals[q]
        BY <3>1, <3>4, <3>5, <4>1 DEF RequestInv
      <4>2. CASE /\ q = d.request /\ CanTransition(wApprovals[q], d.action)
                 /\ wApprovals'[q] = Transitioned(wApprovals[q], d.action, d.expires)
        <5>1. /\ wApprovals[q].status \in {"pending_approval", "approved"}
              /\ wApprovals'[q].status \in {"approved"} \cup Closed
              /\ wApprovals'[q].status = "approved" <=> d.action = "approve"
          BY <1>0, <3>2, <4>2, DecisionFields, MovedRow
        <5>. QED  BY <3>1, <3>3, <3>4, <4>2, <5>1 DEF RequestInv, Closed
      <4>. QED  BY <1>0, <3>1, <3>2, <4>1, <4>2, ReplayedRequest
    <3>. QED  BY <1>0, <3>1, <3>6 DEF RequestInv
  <2>2. CASE cursor \notin DOMAIN decisions
    BY <1>0, <1>3, <1>12, <2>2
       DEF ReplayDecisions, Goto, store, files, local, TypeOK, BeingGranted
  <2>. QED  BY <2>1, <2>2
<1>13. ASSUME NEW p \in Procs, AppendDecision(p) PROVE RequestInv'
  <2>1. \A req : Granted(req) => Granted(req)'
    BY <1>13, GrantedStays
  <2>2. ASSUME NEW req, BeingGranted(req) PROVE Granted(req)'
    <3>1. PICK o \in Operators :
            pc[o] = "decision" /\ decision[o].request = req /\ decision[o].action = "approve"
      BY <2>2 DEF BeingGranted
    <3>2. o = p
      BY <1>0, <1>13, <3>1, Alone DEF AppendDecision, InTransaction
    <3>. QED  BY <1>13, <3>1, <3>2, AppendedLine DEF Granted
  <2>3. UNCHANGED <<approvals, wApprovals, lock>>
    BY <1>13 DEF AppendDecision, store, work
  <2>. QED  BY <2>1, <2>2, <2>3 DEF RequestInv
<1>14. ASSUME NEW r \in Runs, ConsumeGranted(r) PROVE RequestInv'
  <2>. DEFINE req == decision[r].request
  <2>1. /\ pc[r] = "consume" /\ UNCHANGED <<approvals, decisions, lock>>
        /\ CanTransition(wApprovals[req], "consume")
        /\ wApprovals' = [wApprovals EXCEPT ![req] = Transitioned(wApprovals[req], "consume", NoExpiry)]
    BY <1>14 DEF ConsumeGranted
  <2>. HIDE DEF req
  <2>2. \A q : Granted(q)' <=> Granted(q)
    BY <2>1 DEF Granted
  <2>3. \A q : ~BeingGranted(q)
    BY <1>0, <2>1, NobodyGranting DEF InTransaction
  <2>4. lock # NoOne
    BY <1>0, <2>1, Alone DEF InTransaction
  <2>5. ASSUME NEW q \in Requests
        PROVE  /\ approvals'[q].status # "absent" => wApprovals'[q].status # "absent"
               /\ approvals'[q].status \in Closed => wApprovals'[q] = approvals'[q]
               /\ approvals'[q].status = "approved" => Granted(q)'
               /\ wApprovals'[q].status = "approved" => Granted(q)'
    <3>1. CASE q # req
      BY <1>0, <2>1, <2>2, <2>3, <3>1 DEF RequestInv
    <3>2. CASE q = req
      <4>1. wApprovals'[q] = Transitioned(wApprovals[q], "consume", NoExpiry)
        BY <1>0, <2>1, <3>2
      <4>2. wApprovals[q].status = "approved" /\ wApprovals'[q].status = "consumed"
        BY <2>1, <3>2, <4>1 DEF CanTransition, Transitioned, StatusAfter
      <4>. QED  BY <2>1, <2>2, <3>2, <4>2 DEF RequestInv, Closed
    <3>. QED  BY <3>1, <3>2
  <2>. QED  BY <2>1, <2>4, <2>5 DEF RequestInv
<1>15. ASSUME NEW o \in Operators, Transition(o) PROVE RequestInv'
  <2>1. PICK req \in Requests, action \in {"approve", "reject", "expire"} :
          \E expires \in IF action = "approve" THEN Expiries ELSE {NoExpiry} :
            /\ CanTransition(wApprovals[req], action)
            /\ wApprovals' = [wApprovals EXCEPT
                 ![req] = Transitioned(wApprovals[req], action, expires)]
            /\ decision' = [decision EXCEPT
                 ![o] = [request |-> req, action |-> action, expires |-> expires]]
    BY <1>15 DEF Transition
  <2>2. PICK expires \in Expiries :
            /\ CanTransition(wApprovals[req], action)
            /\ wApprovals' = [wApprovals EXCEPT
                 ![req] = Transitioned(wApprovals[req], action, expires)]
            /\ decision' = [decision EXCEPT
                 ![o] = [request |-> req, action |-> action, expires |-> expires]]
    BY <2>1 DEF Expiries
  <2>3. /\ pc[o] = "transition" /\ pc' = [pc EXCEPT ![o] = "decision"]
        /\ UNCHANGED <<approvals, decisions, lock>>
    BY <1>15 DEF Transition, Goto, store, files
  <2>4. \A q : Granted(q)' <=> Granted(q)
    BY <2>3 DEF Granted
  <2>5. \A q : ~BeingGranted(q)
    BY <1>0, <2>3, NobodyGranting DEF InTransaction
  <2>6. lock # NoOne
    BY <1>0, <2>3, Alone DEF InTransaction
  <2>7. decision'[o].request = req /\ decision'[o].action = action /\ pc'[o] = "decision"
    BY <1>0, <2>2, <2>3 DEF TypeOK
  <2>8. action = "approve" => BeingGranted(req)'
    BY <2>7 DEF BeingGranted
  <2>9. ASSUME NEW q \in Requests
        PROVE  /\ approvals'[q].status # "absent" => wApprovals'[q].status # "absent"
               /\ approvals'[q].status \in Closed => wApprovals'[q] = approvals'[q]
               /\ approvals'[q].status = "approved" => Granted(q)'
               /\ wApprovals'[q].status = "approved" => Granted(q)' \/ BeingGranted(q)'
    <3>1. CASE q # req
      BY <1>0, <2>2, <2>3, <2>4, <2>5, <3>1 DEF RequestInv
    <3>2. CASE q = req
      <4>1. wApprovals'[q] = Transitioned(wApprovals[q], action, expires)
        BY <1>0, <2>2, <3>2
      <4>2. /\ wApprovals[q].status \in {"pending_approval", "approved"}
            /\ wApprovals'[q].status \in {"approved"} \cup Closed
            /\ wApprovals'[q].status = "approved" <=> action = "approve"
        BY <1>0, <2>2, <3>2, <4>1, MovedRow
      <4>. QED  BY <2>3, <2>4, <2>8, <3>2, <4>2 DEF RequestInv, Closed
    <3>. QED  BY <3>1, <3>2
  <2>. QED  BY <2>3, <2>6, <2>9 DEF RequestInv
<1>. QED  BY <1>1, <1>2, <1>4, <1>5, <1>6, <1>7, <1>8, <1>10, <1>11, <1>12, <1>13, <1>14, <1>15,
             RequestEffects DEF RequestsChange

-----------------------------------------------------------------------------
(* The decision lines.                                                      *)

\* A request that is known stays known.
LEMMA KnownStays ==
  ASSUME TypeInv, HistoryInv, RequestInv, Next, NEW req \in Requests, Known(req)
  PROVE  Known(req)'
<1>1. approvals'[req] = approvals[req] \/ approvals'[req] = wApprovals[req]
  BY RequestEffects
     DEF RequestsChange, RequestsQuiet, RequestsEnd, BeginImmediate, ReplayQueue, ReplayDecisions,
         AppendDecision, ReplayLedger, Decide, AppendQueue, ConsumeGranted, DecideApproved,
         Transition, Tick, store
<1>2. approvals[req].status # "absent" => approvals'[req].status # "absent"
  BY <1>1 DEF RequestInv
<1>3. CASE \E r \in Runs : AppendQueue(r)
  <2>1. PICK r \in Runs : queue' = Append(queue, verdict[r].opens)
    BY <1>3 DEF AppendQueue
  <2>2. \A k \in DOMAIN queue : k \in DOMAIN queue' /\ queue'[k] = queue[k]
    BY <2>1 DEF TypeInv, TypeOK
  <2>. QED  BY <1>2, <2>2 DEF Known
<1>4. CASE queue' = queue
  BY <1>2, <1>4 DEF Known
<1>. QED  BY <1>3, <1>4, RequestEffects
          DEF RequestsChange, RequestsQuiet, RequestsEnd, BeginImmediate, ReplayQueue,
              ReplayDecisions, AppendDecision, ReplayLedger, Decide, ConsumeGranted,
              DecideApproved, Transition, Tick, files

\* What a run may consume an operator has granted, and done nothing else to.
LEMMA UsableProper ==
  ASSUME TypeOK, LockInv, RequestInv, ReadInv, NEW r \in Runs, NEW req \in Requests,
         pc[r] = "evaluate", Usable(r, req)
  PROVE  /\ GrantedBefore(req, Len(decisions) + 1) /\ OnlyApproved(req, Len(decisions) + 1)
         /\ Known(req)
<1>1. wApprovals[req].status = "approved" /\ ~Expired(wApprovals[req])
  BY DEF Usable, ApprovalGranted
<1>2. r \in Procs /\ r \notin Operators
  BY ReleaseAssumption DEF Procs
<1>3. Granted(req)
  BY <1>1, <1>2, NobodyGranting DEF RequestInv, InTransaction
<1>4. \A k \in DOMAIN decisions : k < Len(decisions) + 1
  BY DEF TypeOK
<1>5. Reflects(Len(decisions) + 1)
  BY <1>2 DEF ReadInv, DecisionsRead
<1>. QED  BY <1>1, <1>2, <1>3, <1>4, <1>5
          DEF Granted, GrantedBefore, Reflects, ReadInv, Replays

\* Nothing was decided on a request that is pending.
LEMMA TransitionProper ==
  ASSUME ReadInv, NEW o \in Operators, pc[o] = "transition", NEW req \in Requests,
         NEW action \in {"approve", "reject", "expire"}, CanTransition(wApprovals[req], action)
  PROVE  /\ action \in {"approve", "reject"} => Untouched(req, Len(decisions) + 1)
         /\ Known(req)
<1>1. o \in Procs
  BY DEF Procs
<1>2. Reflects(Len(decisions) + 1)
  BY <1>1 DEF ReadInv, DecisionsRead
<1>3. wApprovals[req].status # "absent"
      /\ (action \in {"approve", "reject"} => wApprovals[req].status = "pending_approval")
  BY DEF CanTransition
<1>. QED  BY <1>1, <1>2, <1>3 DEF Reflects, ReadInv, Replays

LEMMA HistoryStep ==
  ASSUME TypeInv, HistoryInv, RequestInv, ReadInv, Next
  PROVE  HistoryInv'
<1>0. /\ TypeOK /\ LockInv /\ PendingInv
      /\ \A r \in Runs : r \in Procs /\ r \notin Operators
      /\ \A o \in Operators : o \in Procs /\ o \notin Runs
  BY ReleaseAssumption DEF TypeInv, TypeOK, Procs
<1>1. \A req \in Requests : Known(req) => Known(req)'
  BY KnownStays
\* Steps that append no decision line: what is waiting was waiting, or is proper.
<1>2. ASSUME UNCHANGED decisions,
             \A r \in Runs : pc'[r] \in Before => decision'[r] = NoDecision,
             \A p \in Procs : pc'[p] \in Undecided /\ decision'[p] # NoDecision =>
               \/ pc[p] \in Undecided /\ decision'[p] = decision[p]
               \/ /\ Proper(decision'[p], Len(decisions) + 1)
                  /\ decision'[p].request \in Requests /\ Known(decision'[p].request)
      PROVE  HistoryInv'
  <2>1. ASSUME NEW i \in DOMAIN decisions
        PROVE  Proper(decisions[i], i)' /\ Known(decisions[i].request)'
    <3>1. decisions[i] \in Decision
      BY <1>0 DEF TypeOK
    <3>2. Proper(decisions[i], i) /\ Known(decisions[i].request)
      BY DEF HistoryInv
    <3>3. Proper(decisions[i], i)'
      BY <1>2, <3>2 DEF Proper, Untouched, OnlyApproved, GrantedBefore
    <3>4. Known(decisions[i].request)'
      BY <1>1, <1>2, <3>1, <3>2, DecisionFields DEF Known
    <3>. QED  BY <3>3, <3>4
  <2>2. ASSUME NEW p \in Procs, pc'[p] \in Undecided, decision'[p] # NoDecision
        PROVE  Proper(decision[p], Len(decisions) + 1)' /\ Known(decision[p].request)'
    <3>1. /\ Proper(decision'[p], Len(decisions) + 1)
          /\ decision'[p].request \in Requests /\ Known(decision'[p].request)
      <4>1. CASE pc[p] \in Undecided /\ decision'[p] = decision[p]
        <5>1. decision[p] \in Decision
          BY <1>0, <2>2, <4>1 DEF TypeOK
        <5>. QED  BY <2>2, <4>1, <5>1, DecisionFields DEF HistoryInv
      <4>. QED  BY <1>2, <2>2, <4>1
    <3>2. Proper(decision[p], Len(decisions) + 1)'
      BY <1>2, <3>1 DEF Proper, Untouched, OnlyApproved, GrantedBefore
    <3>3. Known(decision[p].request)'
      BY <1>1, <3>1 DEF Known
    <3>. QED  BY <3>2, <3>3
  <2>. QED  BY <1>2, <2>1, <2>2 DEF HistoryInv
<1>3. ASSUME NEW p \in Procs, RequestsQuiet(p) PROVE HistoryInv'
  BY <1>0, <1>2, <1>3 DEF RequestsQuiet, TypeOK, HistoryInv
<1>4. ASSUME NEW p \in Procs, RequestsEnd(p) PROVE HistoryInv'
  BY <1>0, <1>2, <1>4 DEF RequestsEnd, TypeOK, HistoryInv, Ended, Before, Undecided
<1>5. ASSUME NEW p \in Procs, BeginImmediate(p) \/ ReplayQueue(p) \/ ReplayDecisions(p) PROVE HistoryInv'
  BY <1>0, <1>2, <1>5
     DEF BeginImmediate, ReplayQueue, ReplayDecisions, Goto, store, work, files, local, TypeOK,
         HistoryInv, Before, Undecided
<1>6. ASSUME NEW r \in Runs, ReplayLedger(r) \/ Decide(r) \/ AppendQueue(r) PROVE HistoryInv'
  BY <1>0, <1>2, <1>6
     DEF ReplayLedger, Decide, AppendQueue, Goto, store, work, files, local, TypeOK,
         HistoryInv, Before, Undecided
<1>7. ASSUME NEW r \in Runs, ConsumeGranted(r) PROVE HistoryInv'
  BY <1>0, <1>2, <1>7 DEF ConsumeGranted, TypeOK, HistoryInv, Before, Undecided
<1>8. ASSUME Tick PROVE HistoryInv'
  BY <1>0, <1>2, <1>8 DEF Tick, files, local, HistoryInv
<1>9. ASSUME NEW r \in Runs, NEW req \in Requests, DecideApproved(r, req) PROVE HistoryInv'
  <2>1. /\ pc[r] = "evaluate" /\ pc' = [pc EXCEPT ![r] = "publish"] /\ Usable(r, req)
        /\ UNCHANGED decisions
        /\ decision' = [decision EXCEPT
             ![r] = [request |-> req, action |-> "consume", expires |-> wApprovals[req].expires]]
    BY <1>9 DEF DecideApproved, Goto, files
  <2>2. decision'[r].request = req /\ decision'[r].action = "consume"
    <3>1. decision'[r] = [request |-> req, action |-> "consume", expires |-> wApprovals[req].expires]
      BY <1>0, <2>1 DEF TypeOK
    <3>. QED  BY <3>1
  <2>3. Proper(decision'[r], Len(decisions) + 1) /\ Known(decision'[r].request)
    BY <1>0, <2>1, <2>2, UsableProper DEF Proper
  <2>. QED  BY <1>0, <1>2, <2>1, <2>2, <2>3 DEF TypeOK, HistoryInv, Before
<1>10. ASSUME NEW o \in Operators, Transition(o) PROVE HistoryInv'
  <2>1. PICK req \in Requests, action \in {"approve", "reject", "expire"} :
          \E expires \in IF action = "approve" THEN Expiries ELSE {NoExpiry} :
            /\ CanTransition(wApprovals[req], action)
            /\ decision' = [decision EXCEPT
                 ![o] = [request |-> req, action |-> action, expires |-> expires]]
    BY <1>10 DEF Transition
  <2>2. /\ CanTransition(wApprovals[req], action)
        /\ decision' = [decision EXCEPT ![o] = decision'[o]]
        /\ decision'[o].request = req /\ decision'[o].action = action
    <3>1. PICK expires : /\ CanTransition(wApprovals[req], action)
                         /\ decision' = [decision EXCEPT
                              ![o] = [request |-> req, action |-> action, expires |-> expires]]
      BY <2>1
    <3>2. decision'[o] = [request |-> req, action |-> action, expires |-> expires]
      BY <1>0, <3>1 DEF TypeOK
    <3>3. decision'[o].request = req /\ decision'[o].action = action
      BY <3>2
    <3>. QED  BY <3>1, <3>2, <3>3, Zenon
  <2>3. /\ pc[o] = "transition" /\ pc' = [pc EXCEPT ![o] = "decision"] /\ UNCHANGED decisions
    BY <1>10 DEF Transition, Goto, files
  <2>4. Proper(decision'[o], Len(decisions) + 1) /\ Known(decision'[o].request)
    <3>1. /\ action \in {"approve", "reject"} => Untouched(req, Len(decisions) + 1)
          /\ Known(req)
      BY <2>2, <2>3, TransitionProper
    <3>. QED  BY <2>2, <3>1 DEF Proper
  <2>. QED  BY <1>0, <1>2, <2>2, <2>3, <2>4 DEF TypeOK, HistoryInv
<1>11. ASSUME NEW p \in Procs, AppendDecision(p) PROVE HistoryInv'
  <2>. DEFINE d == decision[p]
              n == Len(decisions) + 1
  <2>1. /\ pc[p] = "decision" /\ pc' = [pc EXCEPT ![p] = pc'[p]]
        /\ pc'[p] \in {"consume", "commit"} /\ decision' = decision
    BY <1>0, <1>11 DEF AppendDecision, Goto, local, TypeOK
  <2>2. /\ d \in Decision /\ d # NoDecision /\ n \in Nat
        /\ DOMAIN decisions' = DOMAIN decisions \cup {n} /\ decisions'[n] = d
        /\ \A k \in DOMAIN decisions : k < n /\ decisions'[k] = decisions[k]
    <3>1. d \in Decision /\ d # NoDecision
      BY <1>0, <1>11, <2>1, AppendedLine DEF PendingInv
    <3>2. /\ Len(decisions) \in Nat
          /\ DOMAIN decisions' = DOMAIN decisions \cup {Len(decisions) + 1}
          /\ decisions'[Len(decisions) + 1] = decision[p]
          /\ \A k \in DOMAIN decisions : k < Len(decisions) + 1 /\ decisions'[k] = decisions[k]
      BY <1>11, AppendedLine
    <3>3. n \in Nat
      BY <3>2
    <3>. QED  BY <3>1, <3>2, <3>3, Zenon
  <2>3. \A k \in DOMAIN decisions : k \in Nat /\ ~(n < k)
    BY <1>0, <2>2 DEF TypeOK
  <2>4. Proper(d, n) /\ Known(d.request)
    BY <2>1, <2>2 DEF HistoryInv, Undecided
  <2>5. \A x \in Runs : pc'[x] \in Before => decision'[x] = NoDecision
    BY <1>0, <2>1 DEF TypeOK, HistoryInv, Before
  <2>6. \A x \in Procs : pc'[x] \notin Undecided
    BY <1>0, <2>1, Alone DEF TypeOK, InTransaction, Undecided
  <2>. HIDE DEF d, n
  <2>7. ASSUME NEW i \in DOMAIN decisions'
        PROVE  Proper(decisions[i], i)' /\ Known(decisions[i].request)'
    <3>1. /\ decisions'[i] \in Decision
          /\ Proper(decisions'[i], i) /\ Known(decisions'[i].request)
      <4>1. CASE i = n
        BY <2>2, <2>4, <4>1
      <4>2. CASE i \in DOMAIN decisions
        <5>1. decisions[i] \in Decision /\ decisions'[i] = decisions[i]
          BY <1>0, <2>2, <4>2 DEF TypeOK
        <5>. QED  BY <4>2, <5>1 DEF HistoryInv
      <4>. QED  BY <2>2, <4>1, <4>2
    <3>2. ~(n < i)
      BY <2>2, <2>3
    <3>3. Proper(decisions[i], i)'
      BY <2>2, <3>1, <3>2 DEF Proper, Untouched, OnlyApproved, GrantedBefore
    <3>4. Known(decisions[i].request)'
      BY <1>1, <3>1, DecisionFields DEF Known
    <3>. QED  BY <3>3, <3>4
  <2>. QED  BY <2>5, <2>6, <2>7 DEF HistoryInv
<1>. QED  BY <1>3, <1>4, <1>5, <1>6, <1>7, <1>8, <1>9, <1>10, <1>11, RequestEffects
          DEF RequestsChange

-----------------------------------------------------------------------------
(* The replay of requests and decisions.                                    *)

\* Replaying line d leaves a request pending only if d is about another one,
\* and granted only if d granted it: a line that rejects it would be the first
\* on it, like the one that granted it, and one that consumes or expires it
\* would have done so.
LEMMA ReflectsNext ==
  ASSUME TypeOK, HistoryInv, RequestInv, NEW p \in Procs,
         LockInv, pc[p] = "replayDecisions", ReadInv, cursor \in DOMAIN decisions,
         wApprovals' = ReplayDecision(wApprovals, decisions[cursor]),
         UNCHANGED <<decisions, now>>
  PROVE  \A req \in Requests :
           /\ wApprovals'[req].status \in {"absent", "pending_approval"} =>
                Untouched(req, cursor + 1)
           /\ wApprovals'[req].status = "approved" /\ ~Expired(wApprovals'[req]) =>
                OnlyApproved(req, cursor + 1)
<1>. DEFINE d == decisions[cursor]
<1>0. /\ wApprovals \in [Requests -> Row] /\ d \in Decision /\ cursor \in Nat
      /\ wApprovals' = ReplayDecision(wApprovals, d)
      /\ \A k \in DOMAIN decisions : k \in Nat
  BY DEF TypeOK
<1>1. Proper(d, cursor) /\ Known(d.request)
  BY DEF HistoryInv
<1>2. Reflects(cursor) /\ Listed(Len(queue) + 1)
  BY DEF ReadInv, QueueRead
<1>3. wApprovals[d.request].status # "absent"
  <2>1. \A k \in DOMAIN queue : k < Len(queue) + 1
    BY DEF TypeOK
  <2>. QED  BY <1>0, <1>1, <1>2, <2>1, DecisionFields DEF Known, Listed, RequestInv
<1>4. \A req : Untouched(req, cursor) /\ req # d.request => Untouched(req, cursor + 1)
  BY <1>0 DEF Untouched
<1>5. \A req : OnlyApproved(req, cursor) /\ (req # d.request \/ d.action = "approve") =>
        OnlyApproved(req, cursor + 1)
  BY <1>0 DEF OnlyApproved
<1>6. ASSUME NEW req \in Requests, req = d.request, wApprovals[req].status = "approved"
      PROVE  d.action # "reject"
  <2>1. PICK k \in DOMAIN decisions : decisions[k].request = req /\ decisions[k].action = "approve"
    BY <1>6, NobodyGranting DEF RequestInv, Granted, InTransaction
  <2>2. Proper(decisions[k], k)
    BY DEF HistoryInv
  <2>3. d.action = "reject" => k # cursor
    BY <2>1
  <2>4. k \in Nat /\ (k < cursor \/ cursor < k \/ k = cursor)
    BY <1>0
  <2>. QED  BY <1>1, <1>6, <2>1, <2>2, <2>3, <2>4 DEF Proper, Untouched
<1>7. ASSUME NEW req \in Requests, req = d.request, wApprovals[req].status = "pending_approval"
      PROVE  d.action # "consume"
  <2>1. Untouched(req, cursor)
    BY <1>2, <1>7 DEF Reflects
  <2>. QED  BY <1>1, <1>7, <2>1 DEF Proper, Untouched, GrantedBefore
<1>. HIDE DEF d
<1>8. ASSUME NEW req \in Requests
      PROVE  /\ wApprovals'[req].status \in {"absent", "pending_approval"} =>
                  Untouched(req, cursor + 1)
             /\ wApprovals'[req].status = "approved" /\ ~Expired(wApprovals'[req]) =>
                  OnlyApproved(req, cursor + 1)
  <2>1. CASE req # d.request
    <3>1. wApprovals'[req] = wApprovals[req]
      BY <1>0, <2>1, ReplayedRequest
    <3>. QED  BY <1>2, <1>4, <1>5, <2>1, <3>1 DEF Reflects
  <2>2. CASE /\ req = d.request /\ CanTransition(wApprovals[req], d.action)
             /\ wApprovals'[req] = Transitioned(wApprovals[req], d.action, d.expires)
    <3>1. /\ wApprovals'[req].status \in {"approved"} \cup Closed
          /\ wApprovals'[req].status = "approved" <=> d.action = "approve"
          /\ d.action = "approve" => wApprovals[req].status = "pending_approval"
      BY <1>0, <2>2, DecisionFields, MovedRow
    <3>2. d.action = "approve" => Untouched(req, cursor)
      BY <1>2, <3>1 DEF Reflects
    <3>3. d.action = "approve" => OnlyApproved(req, cursor + 1)
      BY <1>5, <3>2 DEF Untouched, OnlyApproved
    <3>. QED  BY <3>1, <3>3 DEF Closed
  <2>3. CASE /\ req = d.request /\ wApprovals'[req] = wApprovals[req]
             /\ wApprovals[req].status \in {"absent", StatusAfter[d.action]}
                  \/ ~CanTransition(wApprovals[req], d.action)
    <3>0. d.action \in {"approve", "reject", "expire", "consume"} /\ wApprovals[req] \in Row
      BY <1>0, DecisionFields
    <3>1. wApprovals[req].status # "pending_approval"
      <4>. SUFFICES ASSUME wApprovals[req].status = "pending_approval" PROVE FALSE
        OBVIOUS
      <4>1. d.action \in {"approve", "reject", "expire"}
        BY <1>7, <2>3, <3>0
      <4>. QED  BY <2>3, <4>1 DEF CanTransition, StatusAfter
    <3>2. ASSUME wApprovals[req].status = "approved", ~Expired(wApprovals[req])
          PROVE  OnlyApproved(req, cursor + 1)
      <4>1. d.action \in {"approve", "expire", "consume"}
        BY <1>6, <2>3, <3>0, <3>2
      <4>2. d.action = "approve"
        BY <2>3, <3>2, <4>1 DEF CanTransition, StatusAfter
      <4>. QED  BY <1>2, <1>5, <3>2, <4>2 DEF Reflects
    <3>3. Expired(wApprovals'[req]) <=> Expired(wApprovals[req])
      BY <2>3 DEF Expired
    <3>. QED  BY <1>3, <2>3, <3>1, <3>2, <3>3
  <2>. QED  BY <1>0, <2>1, <2>2, <2>3, ReplayedRequest
<1>. QED  BY <1>8

LEMMA ReadStep ==
  ASSUME TypeInv, HistoryInv, RequestInv, ReadInv, Next
  PROVE  ReadInv'
<1>0. /\ TypeOK /\ LockInv /\ PendingInv
      /\ \A r \in Runs : r \in Procs /\ r \notin Operators
      /\ \A o \in Operators : o \in Procs /\ o \notin Runs
      /\ NoOne \notin Procs
      /\ wApprovals \in [Requests -> Row] /\ approvals \in [Requests -> Row]
      /\ \A k \in DOMAIN queue : queue[k] \in Requests /\ k \in Nat
      /\ \A k \in DOMAIN decisions : k \in Nat
      /\ cursor \in Nat \ {0} /\ Len(queue) \in Nat /\ Len(decisions) \in Nat
      /\ DOMAIN queue = 1..Len(queue) /\ DOMAIN decisions = 1..Len(decisions)
  BY ReleaseAssumption DEF TypeInv, TypeOK, Procs
<1>. USE DEF QueueRead, DecisionsRead
\* Steps of a process inside a transaction that is past the replay.
<1>1. ASSUME NEW p \in Procs, pc[p] \in InTransaction, pc' = [pc EXCEPT ![p] = pc'[p]],
             pc'[p] \notin Replays
      PROVE  ReadInv'
  <2>1. \A x \in Procs : pc'[x] \notin Replays
    BY <1>0, <1>1, Alone DEF TypeOK, InTransaction, Replays
  <2>. QED  BY <2>1 DEF ReadInv, Replays
<1>2. ASSUME NEW p \in Procs, RequestsQuiet(p) PROVE ReadInv'
  <2>1. /\ UNCHANGED <<approvals, wApprovals, queue, decisions, now, cursor>>
        /\ pc' = [pc EXCEPT ![p] = pc'[p]] /\ pc'[p] \notin Replays
    BY <1>2 DEF RequestsQuiet
  <2>2. \A n : Reflects(n)' <=> Reflects(n)
    BY <2>1 DEF Reflects, Untouched, OnlyApproved, Expired
  <2>3. \A n : Listed(n)' <=> Listed(n)
    BY <2>1 DEF Listed
  <2>4. \A req : Known(req)' <=> Known(req)
    BY <2>1 DEF Known
  <2>5. \A x \in Procs : pc'[x] = pc[x] \/ pc'[x] \notin Replays
    BY <1>0, <2>1 DEF TypeOK
  <2>. QED  BY <2>1, <2>2, <2>3, <2>4, <2>5 DEF ReadInv, Replays
<1>3. ASSUME NEW p \in Procs, RequestsEnd(p) PROVE ReadInv'
  <2>1. pc[p] \in InTransaction /\ pc' = [pc EXCEPT ![p] = pc'[p]] /\ pc'[p] \notin Replays
    BY <1>3 DEF RequestsEnd, Ended, Replays
  <2>. QED  BY <1>1, <2>1
<1>4. ASSUME NEW p \in Procs, AppendDecision(p) PROVE ReadInv'
  <2>1. pc[p] \in InTransaction /\ pc' = [pc EXCEPT ![p] = pc'[p]] /\ pc'[p] \notin Replays
    BY <1>0, <1>4 DEF AppendDecision, Goto, TypeOK, InTransaction, Replays
  <2>. QED  BY <1>1, <2>1
<1>5. ASSUME NEW r \in Runs, Decide(r) \/ AppendQueue(r) \/ ConsumeGranted(r) PROVE ReadInv'
  <2>1. pc[r] \in InTransaction /\ pc' = [pc EXCEPT ![r] = pc'[r]] /\ pc'[r] \notin Replays
    BY <1>0, <1>5 DEF Decide, AppendQueue, ConsumeGranted, Goto, TypeOK, InTransaction, Replays
  <2>. QED  BY <1>0, <1>1, <2>1
<1>6. ASSUME NEW r \in Runs, NEW req \in Requests, DecideApproved(r, req) PROVE ReadInv'
  <2>1. pc[r] \in InTransaction /\ pc' = [pc EXCEPT ![r] = pc'[r]] /\ pc'[r] \notin Replays
    BY <1>0, <1>6 DEF DecideApproved, Goto, TypeOK, InTransaction, Replays
  <2>. QED  BY <1>0, <1>1, <2>1
<1>7. ASSUME NEW o \in Operators, Transition(o) PROVE ReadInv'
  <2>1. pc[o] \in InTransaction /\ pc' = [pc EXCEPT ![o] = pc'[o]] /\ pc'[o] \notin Replays
    BY <1>0, <1>7 DEF Transition, Goto, TypeOK, InTransaction, Replays
  <2>. QED  BY <1>0, <1>1, <2>1
<1>8. ASSUME Tick PROVE ReadInv'
  <2>1. UNCHANGED <<approvals, wApprovals, queue, decisions, pc, cursor>>
        /\ now \in Nat /\ now' = now + 1
    BY <1>0, <1>8, ReleaseAssumption DEF Tick, store, work, files, TypeOK
  <2>2. ASSUME NEW row \in Row, Expired(row) PROVE Expired(row)'
    <3>1. row.expires \in Nat
      BY ReleaseAssumption DEF Row, Expiries, NoExpiry
    <3>. QED  BY <2>1, <2>2, <3>1 DEF Expired
  <2>3. ASSUME NEW n, Reflects(n) PROVE Reflects(n)'
    <3>. SUFFICES ASSUME NEW req \in Requests
                  PROVE  /\ wApprovals[req].status \in {"absent", "pending_approval"} =>
                              Untouched(req, n)
                         /\ wApprovals[req].status = "approved" /\ ~Expired(wApprovals[req])' =>
                              OnlyApproved(req, n)
      BY <2>1 DEF Reflects, Untouched, OnlyApproved
    <3>1. wApprovals[req] \in Row
      BY <1>0
    <3>2. Expired(wApprovals[req]) => Expired(wApprovals[req])'
      BY <2>1, <2>2, <3>1 DEF Expired
    <3>. QED  BY <2>3, <3>2 DEF Reflects
  <2>4. \A req : Known(req)' <=> Known(req)
    BY <2>1 DEF Known
  <2>5. \A n : Listed(n)' <=> Listed(n)
    BY <2>1 DEF Listed
  <2>. QED  BY <2>1, <2>3, <2>4, <2>5 DEF ReadInv
\* Steps of the process that replays: nobody else is inside a transaction.
<1>9. ASSUME NEW p \in Procs, lock \in {p, NoOne}, pc' = [pc EXCEPT ![p] = pc'[p]],
             \A req \in Requests : wApprovals'[req].status # "absent" => Known(req)',
             pc'[p] = "replayQueue" => Listed(cursor)',
             pc'[p] \in QueueRead => Listed(Len(queue) + 1)',
             pc'[p] = "replayDecisions" => Reflects(cursor)',
             pc'[p] \in DecisionsRead => Reflects(Len(decisions) + 1)'
      PROVE  ReadInv'
  <2>1. \A x \in Procs : x # p => pc'[x] = pc[x] /\ pc[x] \notin InTransaction
    BY <1>0, <1>9 DEF TypeOK, LockInv
  <2>2. \A x \in Procs : x # p =>
          pc'[x] \notin Replays \cup QueueRead \cup DecisionsRead \cup {"replayQueue", "replayDecisions"}
    BY <2>1 DEF InTransaction, Replays
  <2>. HIDE DEF QueueRead, DecisionsRead
  <2>. QED  BY <1>9, <2>2 DEF ReadInv
<1>10. ASSUME NEW p \in Procs, BeginImmediate(p) PROVE ReadInv'
  <2>1. /\ lock = NoOne /\ cursor' = 1 /\ pc' = [pc EXCEPT ![p] = pc'[p]]
        /\ pc'[p] \in {"replayLedger", "replayQueue"}
        /\ UNCHANGED <<approvals, wApprovals, queue, decisions>>
    BY <1>0, <1>10 DEF BeginImmediate, WriteLockFree, Goto, store, work, files, TypeOK
  <2>2. \A req \in Requests : wApprovals'[req].status # "absent" => Known(req)'
    BY <2>1 DEF RequestInv, Known
  <2>3. Listed(cursor)'
    BY <1>0, <2>1 DEF Listed
  <2>. QED  BY <1>9, <2>1, <2>2, <2>3
<1>11. ASSUME NEW r \in Runs, ReplayLedger(r) PROVE ReadInv'
  <2>1. /\ lock = r /\ pc[r] = "replayLedger" /\ pc' = [pc EXCEPT ![r] = pc'[r]]
        /\ pc'[r] \in {"replayLedger", "replayQueue"}
        /\ pc'[r] = "replayQueue" => cursor' = 1
        /\ UNCHANGED <<approvals, wApprovals, queue, decisions>>
    BY <1>0, <1>11 DEF ReplayLedger, Goto, store, files, TypeOK
  <2>2. \A req \in Requests : wApprovals'[req].status # "absent" => Known(req)'
    BY <1>0, <2>1 DEF ReadInv, Replays, Known
  <2>3. pc'[r] = "replayQueue" => Listed(cursor)'
    BY <1>0, <2>1 DEF Listed
  <2>. QED  BY <1>0, <1>9, <2>1, <2>2, <2>3
<1>12. ASSUME NEW p \in Procs, ReplayQueue(p) PROVE ReadInv'
  <2>0. /\ lock = p /\ pc[p] = "replayQueue" /\ UNCHANGED <<approvals, queue, decisions>>
        /\ Listed(cursor) /\ \A req \in Requests : wApprovals[req].status # "absent" => Known(req)
    BY <1>12 DEF ReplayQueue, store, files, ReadInv, Replays
  <2>1. CASE cursor \in DOMAIN queue
    <3>1. /\ wApprovals' = InsertRequest(wApprovals, queue[cursor]) /\ cursor' = cursor + 1
          /\ pc' = [pc EXCEPT ![p] = pc'[p]] /\ pc'[p] = "replayQueue"
      BY <1>0, <1>12, <2>1 DEF ReplayQueue, TypeOK
    <3>2. \A req \in Requests :
            wApprovals'[req].status # "absent" <=> wApprovals[req].status # "absent" \/ req = queue[cursor]
      BY <1>0, <2>1, <3>1, InsertedRequest
    <3>3. \A req \in Requests : wApprovals'[req].status # "absent" => Known(req)'
      BY <2>0, <2>1, <3>2 DEF Known
    <3>4. Listed(cursor)'
      <4>1. ASSUME NEW k \in DOMAIN queue, k < cursor + 1 PROVE wApprovals'[queue[k]].status # "absent"
        <5>1. k < cursor \/ k = cursor
          BY <1>0, <4>1
        <5>. QED  BY <1>0, <2>0, <3>2, <5>1 DEF Listed
      <4>. QED  BY <2>0, <3>1, <4>1 DEF Listed
    <3>. QED  BY <1>9, <2>0, <3>1, <3>3, <3>4
  <2>2. CASE cursor \notin DOMAIN queue
    <3>1. /\ cursor' = 1 /\ wApprovals' = wApprovals
          /\ pc' = [pc EXCEPT ![p] = pc'[p]] /\ pc'[p] = "replayDecisions"
      BY <1>0, <1>12, <2>2 DEF ReplayQueue, Goto, TypeOK
    <3>2. \A req \in Requests : wApprovals'[req].status # "absent" => Known(req)'
      BY <2>0, <3>1 DEF Known
    <3>3. Listed(Len(queue) + 1)'
      BY <1>0, <2>0, <2>2, <3>1 DEF Listed
    <3>4. Reflects(cursor)'
      BY <1>0, <2>0, <3>1 DEF Reflects, Untouched, OnlyApproved
    <3>. QED  BY <1>9, <2>0, <3>1, <3>2, <3>3, <3>4
  <2>. QED  BY <2>1, <2>2
<1>13. ASSUME NEW p \in Procs, ReplayDecisions(p) PROVE ReadInv'
  <2>0. /\ lock = p /\ pc[p] = "replayDecisions" /\ UNCHANGED <<approvals, queue, decisions, now>>
        /\ Listed(Len(queue) + 1) /\ Reflects(cursor)
        /\ \A req \in Requests : wApprovals[req].status # "absent" => Known(req)
    BY <1>13 DEF ReplayDecisions, store, files, ReadInv, Replays
  <2>1. CASE cursor \in DOMAIN decisions
    <3>. DEFINE d == decisions[cursor]
    <3>1. /\ wApprovals' = ReplayDecision(wApprovals, d) /\ cursor' = cursor + 1
          /\ pc' = [pc EXCEPT ![p] = pc'[p]] /\ pc'[p] = "replayDecisions"
      BY <1>0, <1>13, <2>1 DEF ReplayDecisions, TypeOK
    <3>2. d \in Decision
      BY <1>0, <2>1 DEF TypeOK
    <3>3. \A req \in Requests :
            /\ wApprovals'[req].status \in {"absent", "pending_approval"} =>
                 Untouched(req, cursor + 1)
            /\ wApprovals'[req].status = "approved" /\ ~Expired(wApprovals'[req]) =>
                 OnlyApproved(req, cursor + 1)
      BY <1>0, <2>0, <2>1, <3>1, ReflectsNext
    <3>. HIDE DEF d
    <3>4. ASSUME NEW req \in Requests
          PROVE  wApprovals'[req].status # "absent" <=> wApprovals[req].status # "absent"
      <4>1. CASE wApprovals'[req] = wApprovals[req]
        BY <4>1
      <4>2. CASE /\ CanTransition(wApprovals[req], d.action)
                 /\ wApprovals'[req] = Transitioned(wApprovals[req], d.action, d.expires)
        BY <1>0, <3>2, <4>2, DecisionFields, MovedRow DEF Closed
      <4>. QED  BY <1>0, <3>1, <3>2, <4>1, <4>2, ReplayedRequest
    <3>5. \A req \in Requests : wApprovals'[req].status # "absent" => Known(req)'
      BY <2>0, <3>4 DEF Known
    <3>6. Listed(Len(queue) + 1)'
      BY <1>0, <2>0, <3>4 DEF Listed
    <3>7. Reflects(cursor)'
      BY <2>0, <3>1, <3>3 DEF Reflects, Untouched, OnlyApproved, Expired
    <3>. QED  BY <1>9, <2>0, <3>1, <3>5, <3>6, <3>7
  <2>2. CASE cursor \notin DOMAIN decisions
    <3>1. /\ wApprovals' = wApprovals
          /\ pc' = [pc EXCEPT ![p] = pc'[p]] /\ pc'[p] \in {"evaluate", "transition"}
      BY <1>0, <1>13, <2>2 DEF ReplayDecisions, Goto, TypeOK
    <3>2. \A req \in Requests : wApprovals'[req].status # "absent" => Known(req)'
      BY <2>0, <3>1 DEF Known
    <3>3. Listed(Len(queue) + 1)'
      BY <2>0, <3>1 DEF Listed
    <3>4. \A k \in DOMAIN decisions : k < cursor
      BY <1>0, <2>2
    <3>5. Reflects(Len(decisions) + 1)'
      BY <2>0, <3>1, <3>4 DEF Reflects, Untouched, OnlyApproved, Expired
    <3>. QED  BY <1>9, <2>0, <3>1, <3>2, <3>3, <3>5
  <2>. QED  BY <2>1, <2>2
<1>. QED  BY <1>2, <1>3, <1>4, <1>5, <1>6, <1>7, <1>8, <1>10, <1>11, <1>12, <1>13, RequestEffects
          DEF RequestsChange

-----------------------------------------------------------------------------
(* The answer a release was decided on.                                     *)

LEMMA OkAnswers ==
  ASSUME NEW q, NEW prior, DOMAIN prior \subseteq Nat, Evaluate(q, prior) = "ok"
  PROVE  /\ ScopeReason(q.scope) = "ok"
         /\ \A i \in DOMAIN prior : Signal(q, prior[i]) = "ok"
<1>1. ScopeReason(q.scope) = "ok"
  BY DEF Evaluate, ScopeReason
<1>2. FlaggedIds(q, prior) = {}
  <2>. SUFFICES ASSUME FlaggedIds(q, prior) # {} PROVE FALSE
    OBVIOUS
  <2>1. MatchedId(q, prior) \in FlaggedIds(q, prior)
    BY MinIsMember DEF MatchedId, FlaggedIds
  <2>2. Signal(q, prior[MatchedId(q, prior)]) # "ok"
    BY <2>1 DEF FlaggedIds
  <2>. QED  BY <2>2 DEF Evaluate
<1>. QED  BY <1>1, <1>2 DEF FlaggedIds

LEMMA NearAnswers ==
  ASSUME NEW q, NEW prior, DOMAIN prior \subseteq Nat, Evaluate(q, prior) = "near_duplicate"
  PROVE  /\ ScopeReason(q.scope) = "ok"
         /\ \E i \in DOMAIN prior : Signal(q, prior[i]) = "near_duplicate"
<1>1. ScopeReason(q.scope) = "ok"
  BY DEF Evaluate, ScopeReason
<1>2. FlaggedIds(q, prior) # {}
  BY <1>1 DEF Evaluate
<1>3. MatchedId(q, prior) \in DOMAIN prior
  BY <1>2, MinIsMember DEF MatchedId, FlaggedIds
<1>4. Signal(q, prior[MatchedId(q, prior)]) = "near_duplicate"
  BY <1>1, <1>2 DEF Evaluate
<1>. QED  BY <1>1, <1>3, <1>4

LEMMA PriorOf ==
  ASSUME TypeOK, NEW r \in Runs
  PROVE  /\ DOMAIN BudgetPrior(r) = CountedIds(wEvents, Scope(job[r]))
         /\ DOMAIN BudgetPrior(r) \subseteq Nat
         /\ \A i \in DOMAIN BudgetPrior(r) : BudgetPrior(r)[i] = QueryOf[wEvents[i].job]
BY DEF BudgetPrior, Prior, Query, Scope, CountedIds, TypeOK

\* No charge of the scope resembles a query that is "ok".
LEMMA DecideAnswers ==
  ASSUME TypeOK, StoreInv, ReplayInv, NEW r \in Runs, Decide(r), BudgetReason(r) = "ok"
  PROVE  /\ ScopeReason(Scope(job[r])) = "ok"
         /\ \A n \in ChargesOf(Scope(job[r])) : Answered(job[r], n) = "ok"
<1>1. /\ ScopeReason(Scope(job[r])) = "ok"
      /\ \A i \in DOMAIN BudgetPrior(r) : Signal(QueryOf[job[r]], BudgetPrior(r)[i]) = "ok"
  BY PriorOf, OkAnswers DEF BudgetReason, Query, Scope
<1>2. \A n \in Charges : Found(n)
  BY DEF Decide, ReplayInv, Replayed
<1>3. ASSUME NEW n \in ChargesOf(Scope(job[r])) PROVE Answered(job[r], n) = "ok"
  <2>1. n \in Charges /\ Scope(ledger[n].job) = Scope(job[r])
    BY DEF ChargesOf
  <2>2. PICK i \in DOMAIN wEvents : Counted(wEvents[i]) /\ wEvents[i].job = ledger[n].job
    BY <1>2, <2>1, FoundCounts
  <2>3. i \in DOMAIN BudgetPrior(r)
    BY <2>1, <2>2, PriorOf DEF CountedIds
  <2>. QED  BY <1>1, <2>2, <2>3, PriorOf DEF Answered
<1>. QED  BY <1>1, <1>3

\* A usable approval is for a query a charge of the scope resembles, and an
\* operator granted it for exactly this one.
LEMMA UsableAnswers ==
  ASSUME TypeOK, LockInv, StoreInv, ReplayInv, RequestInv, ReadInv,
         NEW r \in Runs, NEW req \in Requests, pc[r] = "evaluate", Usable(r, req)
  PROVE  /\ ScopeReason(Scope(job[r])) = "ok"
         /\ \E n \in ChargesOf(Scope(job[r])) : Answered(job[r], n) = "near_duplicate"
         /\ Asked(job[r])
<1>1. /\ ScopeReason(Scope(job[r])) = "ok"
      /\ \E i \in DOMAIN BudgetPrior(r) :
           Signal(QueryOf[job[r]], BudgetPrior(r)[i]) = "near_duplicate"
  BY PriorOf, NearAnswers DEF Usable, BudgetReason, Query, Scope
<1>2. PICK i \in DOMAIN wEvents :
        /\ Counted(wEvents[i]) /\ Scope(wEvents[i].job) = Scope(job[r])
        /\ Signal(QueryOf[job[r]], QueryOf[wEvents[i].job]) = "near_duplicate"
  BY <1>1, PriorOf DEF CountedIds
<1>3. wEvents[i].src # 0
  BY <1>2 DEF ReplayInv, Replaying, Settled
<1>4. wEvents[i].src \in Charges /\ ledger[wEvents[i].src].job = wEvents[i].job
  BY <1>2, <1>3 DEF StoreInv, Linked, Charges, Counted
<1>5. \E n \in ChargesOf(Scope(job[r])) : Answered(job[r], n) = "near_duplicate"
  BY <1>2, <1>4 DEF ChargesOf, Answered
<1>6. Asked(job[r])
  BY UsableProper DEF GrantedBefore, Asked, Usable, Query
<1>. QED  BY <1>1, <1>5, <1>6

LEMMA InsertedFlag ==
  ASSUME TypeOK, NEW r \in Runs, NEW consumed \in BOOLEAN, NEW flagged \in BOOLEAN,
         InsertEvent(r, consumed, flagged)
  PROVE  wEvents'[Len(wEvents) + 1].flagged = flagged
<1>. DEFINE row == [job |-> job[r], consumed |-> consumed, flagged |-> flagged,
                    status |-> IF consumed THEN "reserved" ELSE "committed", src |-> 0]
<1>1. row \in Event /\ row.flagged = flagged
  BY DEF TypeOK, Event
<1>2. wEvents' = Append(wEvents, row)
  BY DEF InsertEvent
<1>. HIDE DEF row
<1>. QED  BY <1>1, <1>2 DEF TypeOK

LEMMA AskedStays ==
  ASSUME TypeInv, HistoryInv, Next, NEW j, Asked(j)
  PROVE  Asked(j)'
<1>1. CASE \E p \in Procs : AppendDecision(p)
  BY <1>1, AppendedLine DEF Asked
<1>2. CASE UNCHANGED decisions
  BY <1>2 DEF Asked
<1>. QED  BY <1>1, <1>2, RequestEffects
          DEF RequestsChange, RequestsQuiet, RequestsEnd, BeginImmediate, ReplayQueue,
              ReplayDecisions, ReplayLedger, Decide, AppendQueue, ConsumeGranted, DecideApproved,
              Transition, Tick, files

\* The answer stands until the line is appended.
LEMMA AnswerStep ==
  ASSUME Inv, VerdictInv, HistoryInv, RequestInv, ReadInv, AnswerInv, Next
  PROVE  AnswerInv'
<1>0. /\ TypeOK /\ LockInv /\ PendingInv /\ TypeInv /\ StoreInv /\ ReplayInv
      /\ \A r \in Runs : r \in Procs
  BY DEF Inv, TypeInv, Procs
<1>. SUFFICES ASSUME NEW x \in Runs, NEW j \in Jobs, AboutToCharge(x, j)'
              PROVE  /\ ScopeReason(Scope(j)) = "ok"
                     /\ ~wEvents'[verdict'[x].event].flagged =>
                          \A n \in ChargesOf(Scope(j))' : Answered(j, n)' = "ok"
                     /\ wEvents'[verdict'[x].event].flagged =>
                          /\ \E n \in ChargesOf(Scope(j))' : Answered(j, n)' = "near_duplicate"
                          /\ Asked(j)'
  BY DEF AnswerInv
\* What stands: the row, its verdict and the ledger file are as they were.
<1>. DEFINE Answer(k) ==
       /\ ScopeReason(Scope(j)) = "ok"
       /\ ~k => \A n \in ChargesOf(Scope(j)) : Answered(j, n) = "ok"
       /\ k => /\ \E n \in ChargesOf(Scope(j)) : Answered(j, n) = "near_duplicate"
               /\ Asked(j)
<1>1. ASSUME UNCHANGED ledger, Answer(wEvents'[verdict'[x].event].flagged)
      PROVE  /\ ScopeReason(Scope(j)) = "ok"
             /\ ~wEvents'[verdict'[x].event].flagged =>
                  \A n \in ChargesOf(Scope(j))' : Answered(j, n)' = "ok"
             /\ wEvents'[verdict'[x].event].flagged =>
                  /\ \E n \in ChargesOf(Scope(j))' : Answered(j, n)' = "near_duplicate"
                  /\ Asked(j)'
  <2>1. ChargesOf(Scope(j))' = ChargesOf(Scope(j))
    BY <1>1 DEF ChargesOf, Charges
  <2>2. \A n : Answered(j, n)' = Answered(j, n)
    BY <1>1 DEF Answered
  <2>3. Asked(j) => Asked(j)'
    BY <1>0, AskedStays
  <2>. QED  BY <1>1, <2>1, <2>2, <2>3
<1>2. ASSUME AboutToCharge(x, j), UNCHANGED <<wEvents, verdict>>
      PROVE  Answer(wEvents'[verdict'[x].event].flagged)
  BY <1>2 DEF AnswerInv
<1>. HIDE DEF Answer
<1>3. CASE UNCHANGED <<events, wEvents, ledger, verdict, job, pc>>
  BY <1>1, <1>2, <1>3 DEF AboutToCharge
<1>4. ASSUME NEW p \in Procs, RowsQuiet(p)
      PROVE  AboutToCharge(x, j) /\ UNCHANGED <<wEvents, verdict, ledger>>
  BY <1>0, <1>4 DEF RowsQuiet, AboutToCharge, TypeOK
<1>5. ASSUME NEW p \in Procs, pc[p] \in InTransaction, pc' = [pc EXCEPT ![p] = pc'[p]],
             pc'[p] \notin {"publish", "ledger"}
      PROVE  FALSE
  BY <1>0, <1>5, Alone DEF AboutToCharge, TypeOK, InTransaction
<1>6. ASSUME NEW p \in Procs, RowsRolledBack(p) \/ Commit(p) PROVE FALSE
  <2>1. pc[p] \in InTransaction /\ pc' = [pc EXCEPT ![p] = pc'[p]]
        /\ pc'[p] \notin {"publish", "ledger"}
    BY <1>0, <1>6 DEF RowsRolledBack, Commit, Goto, TypeOK, InTransaction
  <2>. QED  BY <1>5, <2>1
<1>7. ASSUME NEW r \in Runs, ReplayLedger(r) \/ AppendLedger(r) \/ RowFailed(r) PROVE FALSE
  <2>1. pc[r] \in InTransaction /\ pc' = [pc EXCEPT ![r] = pc'[r]]
        /\ pc'[r] \notin {"publish", "ledger"}
    BY <1>0, <1>7
       DEF ReplayLedger, AppendLedger, RowFailed, Goto, TypeOK, Writing, InTransaction
  <2>. QED  BY <1>0, <1>5, <2>1
<1>8. ASSUME NEW r \in Runs, RowAdded(r) PROVE x = r
  BY <1>0, <1>8, Alone DEF RowAdded, AboutToCharge, TypeOK, InTransaction
<1>9. ASSUME NEW r \in Runs, RowAdded(r), Decide(r)
      PROVE  UNCHANGED ledger /\ Answer(wEvents'[verdict'[x].event].flagged)
  <2>. DEFINE allow == BudgetReason(r) = "ok" /\ job[r] \in Passing
              flagged == BudgetReason(r) \notin {"ok", "missing_scope"}
  <2>1. InsertEvent(r, allow, flagged) /\ verdict'[r].event = Len(wEvents) + 1 /\ UNCHANGED ledger
    BY <1>0, <1>9 DEF Decide, RowAdded
  <2>2. allow \in BOOLEAN /\ flagged \in BOOLEAN
    OBVIOUS
  <2>3. allow => BudgetReason(r) = "ok" /\ ~flagged
    OBVIOUS
  <2>. HIDE DEF allow, flagged
  <2>4. /\ wEvents'[verdict'[r].event].flagged = flagged
        /\ wEvents'[verdict'[r].event].consumed = allow
        /\ wEvents'[verdict'[r].event].job = job[r]
    BY <1>0, <2>1, <2>2, InsertedRow, InsertedFlag
  <2>5. allow /\ j = job[r] /\ x = r
    BY <1>8, <1>9, <2>4 DEF AboutToCharge
  <2>. QED  BY <1>0, <1>9, <2>1, <2>3, <2>4, <2>5, DecideAnswers DEF Answer
<1>10. ASSUME NEW r \in Runs, RowAdded(r), NEW req \in Requests, DecideApproved(r, req)
       PROVE  UNCHANGED ledger /\ Answer(wEvents'[verdict'[x].event].flagged)
  <2>. DEFINE allow == job[r] \in Passing
  <2>1. InsertEvent(r, allow, TRUE) /\ verdict'[r].event = Len(wEvents) + 1 /\ UNCHANGED ledger
        /\ pc[r] = "evaluate" /\ Usable(r, req)
    BY <1>0, <1>10 DEF DecideApproved, RowAdded
  <2>2. allow \in BOOLEAN
    OBVIOUS
  <2>. HIDE DEF allow
  <2>3. /\ wEvents'[verdict'[r].event].flagged = TRUE
        /\ wEvents'[verdict'[r].event].job = job[r]
    BY <1>0, <2>1, <2>2, InsertedRow, InsertedFlag
  <2>4. j = job[r] /\ x = r
    BY <1>8, <1>10, <2>3 DEF AboutToCharge
  <2>. QED  BY <1>0, <2>1, <2>3, <2>4, UsableAnswers DEF Answer
<1>. QED  BY <1>0, <1>1, <1>2, <1>3, <1>4, <1>6, <1>7, <1>9, <1>10, RowEffects DEF Decides

-----------------------------------------------------------------------------
(* What the file of charges says.                                           *)

LEMMA LineFlagged ==
  ASSUME TypeInv, NEW r \in Runs, AppendLedger(r)
  PROVE  ledger'[Len(ledger) + 1].flagged = wEvents[verdict[r].event].flagged
<1>. DEFINE e == wEvents[verdict[r].event]
            line == [job |-> e.job, consumed |-> e.consumed, flagged |-> e.flagged]
<1>1. line.flagged = e.flagged
  OBVIOUS
<1>2. ledger' = Append(ledger, line) /\ ledger \in Seq(Line)
  BY DEF AppendLedger, TypeInv, TypeOK
<1>. HIDE DEF line
<1>3. ledger'[Len(ledger) + 1] = line
  BY <1>2
<1>. QED  BY <1>1, <1>3

\* A release at its ledger line is charged if its row is.
LEMMA ChargedNow ==
  ASSUME Inv, NEW r \in Runs, AppendLedger(r), wEvents[verdict[r].event].consumed
  PROVE  /\ wEvents[verdict[r].event].job \in Jobs
         /\ AboutToCharge(r, wEvents[verdict[r].event].job)
<1>1. wEvents[verdict[r].event] \in Event
  BY LedgerGrows DEF Inv
<1>. QED  BY <1>1 DEF Event, AboutToCharge, AppendLedger, Inv, TypeInv, PendingInv

LEMMA FlaggedAsked ==
  FlaggedWasApproved <=> \A n \in Charges : ledger[n].flagged => Asked(ledger[n].job)
BY DEF FlaggedWasApproved, Asked, Range

LEMMA FlaggedStep ==
  ASSUME Inv, HistoryInv, AnswerInv, FlaggedWasApproved, Next
  PROVE  FlaggedWasApproved'
<1>0. TypeInv /\ \A n \in Charges : ledger[n].flagged => Asked(ledger[n].job)
  BY FlaggedAsked DEF Inv
<1>. DEFINE Approved(j) ==
       \E k \in DOMAIN decisions' :
         /\ decisions'[k].action = "approve"
         /\ Fingerprint(QueryOf[decisions'[k].request[1]]) = Fingerprint(QueryOf[j])
<1>1. ASSUME NEW j, Asked(j) PROVE Approved(j)
  BY <1>0, <1>1, AskedStays DEF Asked
<1>2. ASSUME NEW n \in Charges', ledger'[n].flagged PROVE Approved(ledger'[n].job)
  <2>1. Asked(ledger'[n].job)
    <3>1. CASE \A r \in Runs : ~AppendLedger(r)
      BY <1>0, <1>2, <3>1, LedgerFrame DEF Charges
    <3>2. ASSUME NEW r \in Runs, AppendLedger(r) PROVE Asked(ledger'[n].job)
      <4>. DEFINE e == wEvents[verdict[r].event]
                  new == Len(ledger) + 1
      <4>1. /\ Charges' = IF e.consumed THEN Charges \cup {new} ELSE Charges
            /\ \A k \in Charges : ledger'[k] = ledger[k]
            /\ ledger'[new].job = e.job /\ ledger'[new].flagged = e.flagged
        BY <1>0, <3>2, ChargesGrow, LedgerGrows, LineFlagged
      <4>2. e.consumed /\ e.flagged => Asked(e.job)
        BY <3>2, ChargedNow DEF AnswerInv
      <4>. HIDE DEF e, new
      <4>. QED  BY <1>0, <1>2, <4>1, <4>2
    <3>. QED  BY <3>1, <3>2
  <2>. QED  BY <1>1, <2>1
<1>. QED  BY <1>2 DEF FlaggedWasApproved, Range

-----------------------------------------------------------------------------
(* The invariant holds in every state.                                      *)

LEMMA InitIInv == Init => IInv
<1>. SUFFICES ASSUME Init PROVE IInv
  OBVIOUS
<1>1. Inv
  BY InvInit
<1>2. /\ events = <<>> /\ wEvents = <<>> /\ ledger = <<>> /\ decisions = <<>> /\ queue = <<>>
      /\ lock = NoOne /\ wApprovals = approvals
      /\ \A r \in Runs : verdict[r] = NoVerdict
      /\ \A p \in Procs : decision[p] = NoDecision /\ pc[p] \in {"start", "begin"}
  BY DEF Init
<1>3. \A r \in Runs : pc[r] \in {"start", "begin"} /\ decision[r] = NoDecision /\ ~verdict[r].allow
  BY <1>2 DEF NoVerdict, Procs
<1>4. \A req \in Requests : approvals[req].status = "absent"
  BY DEF Init, AbsentRow
<1>5. RowInv /\ VerdictInv /\ DoneInv
  BY <1>2, <1>3 DEF RowInv, OneRowPerLine, VerdictInv, DoneInv, Logged, Writing
<1>6. HistoryInv
  BY <1>2, <1>3 DEF HistoryInv
<1>7. RequestInv
  BY <1>2, <1>4 DEF RequestInv, Closed
<1>8. ReadInv
  BY <1>2 DEF ReadInv, Replays, QueueRead, DecisionsRead
<1>9. AnswerInv
  BY <1>3 DEF AnswerInv, AboutToCharge
<1>10. FlaggedWasApproved
  BY <1>2 DEF FlaggedWasApproved, Charges
<1>. QED  BY <1>1, <1>5, <1>6, <1>7, <1>8, <1>9, <1>10 DEF IInv

LEMMA StepIInv == IInv /\ [Next]_vars => IInv'
<1>1. ASSUME IInv, Next PROVE IInv'
  <2>1. TypeInv
    BY <1>1 DEF IInv, Inv
  <2>. QED  BY <1>1, <2>1, InvStep, RowStep, VerdictStep, DoneStep, HistoryStep, RequestStep,
               ReadStep, AnswerStep, FlaggedStep DEF IInv
<1>2. ASSUME IInv, UNCHANGED vars PROVE IInv'
  <2>1. Inv'
    BY <1>2, InvStep DEF IInv
  <2>. USE DEF vars, store, work, files, local
  <2>2. RowInv' /\ VerdictInv' /\ DoneInv'
    BY <1>2 DEF IInv, RowInv, OneRowPerLine, VerdictInv, DoneInv
  <2>3. HistoryInv'
    BY <1>2 DEF IInv, HistoryInv, Proper, Untouched, OnlyApproved, GrantedBefore, Known
  <2>4. RequestInv'
    BY <1>2 DEF IInv, RequestInv, Granted, BeingGranted
  <2>5. ReadInv'
    BY <1>2 DEF IInv, ReadInv, Known, Listed, Reflects, Untouched, OnlyApproved, Expired
  <2>6. AnswerInv'
    BY <1>2 DEF IInv, AnswerInv, AboutToCharge, ChargesOf, Charges, Answered, Asked
  <2>7. FlaggedWasApproved'
    BY <1>2 DEF IInv, FlaggedWasApproved, Charges
  <2>. QED  BY <2>1, <2>2, <2>3, <2>4, <2>5, <2>6, <2>7 DEF IInv
<1>. QED  BY <1>1, <1>2

LEMMA Invariance == Spec => []IInv
BY InitIInv, StepIInv, PTL DEF Spec

-----------------------------------------------------------------------------
(* What it says of the store and of the approvals.                          *)

\* A row that counts, and a release that reported its charge, has a charging
\* line of its own in the ledger file (write_report_and_commit links the two by
\* record hash): the row that names a line is the one COMMIT made, or the one a
\* later replay imported for a crashed writer, never both.
THEOREM StoreMatchesLedgerHolds == Spec => []StoreMatchesLedger
<1>1. IInv => StoreMatchesLedger
  BY StoreMatches DEF IInv
<1>. QED  BY <1>1, Invariance, PTL

LEMMA ConsumeAfterGrant ==
  ASSUME IInv
  PROVE  ConsumeFollowsApproval
<1>. SUFFICES ASSUME NEW i \in DOMAIN decisions, decisions[i].action = "consume"
              PROVE  {decisions[k].action :
                        k \in {k \in 1..(i - 1) : decisions[k].request = decisions[i].request}}
                     = {"approve"}
  BY DEF ConsumeFollowsApproval
<1>. DEFINE req == decisions[i].request
<1>1. decisions \in Seq(Decision)
  BY DEF IInv, Inv, TypeInv, TypeOK
<1>2. GrantedBefore(req, i) /\ OnlyApproved(req, i)
  BY DEF IInv, HistoryInv, Proper
<1>3. \A k : k \in 1..(i - 1) <=> k \in DOMAIN decisions /\ k < i
  BY <1>1
<1>4. PICK k \in 1..(i - 1) : decisions[k].request = req /\ decisions[k].action = "approve"
  BY <1>2, <1>3 DEF GrantedBefore
<1>5. \A n \in 1..(i - 1) : decisions[n].request = req => decisions[n].action = "approve"
  BY <1>2, <1>3 DEF OnlyApproved
<1>. QED  BY <1>4, <1>5

\* An approval pays for one release and only once granted: a consume line comes
\* after an approval of its request and no other decision on it, since whoever
\* writes it has replayed the decisions file (bootstrap_approval_decisions)
\* under the lock it still holds, whatever became of the commands before it.
THEOREM ConsumeFollowsApprovalHolds == Spec => []ConsumeFollowsApproval
BY ConsumeAfterGrant, Invariance, PTL

\* A charge that was too close to an earlier one is in the ledger file only if
\* the decisions file holds an approval of a request for the same query
\* (the checks of --privacy-budget-approval-id).
THEOREM FlaggedWasApprovedHolds == Spec => []FlaggedWasApproved
<1>1. IInv => FlaggedWasApproved
  BY DEF IInv
<1>. QED  BY <1>1, Invariance, PTL

\* COMMIT is the only statement that changes the committed requests, and it
\* installs those of the transaction.
LEMMA ApprovalsCommit ==
  ASSUME TypeInv, HistoryInv, Next
  PROVE  approvals' = approvals \/ approvals' = wApprovals
BY RequestEffects
   DEF RequestsChange, RequestsQuiet, RequestsEnd, BeginImmediate, ReplayQueue, ReplayDecisions,
       AppendDecision, ReplayLedger, Decide, AppendQueue, ConsumeGranted, DecideApproved,
       Transition, Tick, store

\* A request that is rejected, expired or consumed stays so in the store: no
\* command, replay or rollback gives it another status or expiry
\* (insert_approval_request, transition_approval_request).
THEOREM ClosedRequestsStayClosedHolds == Spec => ClosedRequestsStayClosed
<1>1. ASSUME IInv, [Next]_vars, NEW req \in Requests,
             approvals[req].status \in {"rejected", "expired", "consumed"}
      PROVE  approvals'[req] = approvals[req]
  <2>1. CASE UNCHANGED vars
    BY <2>1 DEF vars, store
  <2>2. CASE Next
    <3>1. approvals' = approvals \/ approvals' = wApprovals
      BY <1>1, <2>2, ApprovalsCommit DEF IInv, Inv
    <3>2. wApprovals[req] = approvals[req]
      BY <1>1 DEF IInv, RequestInv, Closed
    <3>. QED  BY <3>1, <3>2
  <2>. QED  BY <1>1, <2>1, <2>2
<1>2. IInv /\ [Next]_vars =>
        [\A req \in Requests :
           approvals[req].status \in {"rejected", "expired", "consumed"} =>
             approvals'[req] = approvals[req]]_vars
  BY <1>1
<1>. QED  BY <1>2, Invariance, PTL DEF Spec, ClosedRequestsStayClosed

-----------------------------------------------------------------------------
(* The promise of PrivacyBudget is kept.                                    *)

Charged == {[job |-> ledger[n].job, approved |-> ledger[n].flagged] : n \in Charges}

\* The abstract specification decides by the same policy.
LEMMA SamePolicy ==
  ASSUME NEW s, NEW q, NEW p, NEW n
  PROVE  /\ PB!ScopeReason(s) = ScopeReason(s)
         /\ PB!Fits(s, n) <=> Fits(s, n)
         /\ PB!Signal(q, p) = Signal(q, p)
<1>1. PB!MatchingRules(s) = MatchingRules(s)
  BY DEF PB!MatchingRules, MatchingRules, PB!BudgetScopeMatch, BudgetScopeMatch,
         PB!Wildcard, Wildcard
<1>2. PB!ScopeReason(s) = ScopeReason(s)
  BY <1>1 DEF PB!ScopeReason, ScopeReason
<1>3. PB!ScopeLimit(s) = ScopeLimit(s)
  BY <1>1 DEF PB!ScopeLimit, ScopeLimit, PB!Min, Min
<1>4. PB!Fits(s, n) <=> Fits(s, n)
  BY <1>3 DEF PB!Fits, Fits
<1>5. PB!Fingerprint(q) = Fingerprint(q) /\ PB!Fingerprint(p) = Fingerprint(p)
  BY DEF PB!Fingerprint, Fingerprint
<1>6. PB!WindowRelation(q, p) = WindowRelation(q, p) /\ PB!WindowGap(q, p) = WindowGap(q, p)
  BY DEF PB!WindowRelation, WindowRelation, PB!WindowGap, WindowGap, PB!NoTime, NoTime
<1>7. PB!RoundedMatch(q, p) <=> RoundedMatch(q, p)
  BY DEF PB!RoundedMatch, RoundedMatch, PB!BucketlessSignature, BucketlessSignature,
         PB!RoundWindowValue, RoundWindowValue, PB!ThresholdBucket, ThresholdBucket,
         PB!NoTime, NoTime
<1>8. PB!SuspiciousWindow(q, p) <=> SuspiciousWindow(q, p)
  BY <1>6 DEF PB!SuspiciousWindow, SuspiciousWindow, PB!CloseDisjoint, CloseDisjoint
<1>9. PB!NearSignal(q, p) = NearSignal(q, p)
  BY <1>7, <1>8 DEF PB!NearSignal, NearSignal, PB!SameBucket, SameBucket
<1>10. PB!Signal(q, p) = Signal(q, p)
  BY <1>5, <1>9 DEF PB!Signal, Signal
<1>. QED  BY <1>2, <1>4, <1>10

\* The charged releases of a scope are the images of its ledger lines.
LEMMA ChargedLines ==
  ASSUME NEW s
  PROVE  PB!ChargedIn(s) =
           {[job |-> ledger[n].job, approved |-> ledger[n].flagged] : n \in ChargesOf(s)}
BY DEF PB!ChargedIn, PB!ScopeOf, ChargesOf, Scope

\* ... so there are no more of them than lines.
LEMMA ChargedRoom ==
  ASSUME TypeOK, NEW j, MayCharge(j)
  PROVE  PB!HasRoom(QueryOf[j])
<1>. DEFINE s == Scope(j)
            C == ChargesOf(s)
            D == PB!ChargedIn(s)
<1>1. IsFiniteSet(C)
  <2>1. C \in SUBSET (1..Len(ledger)) /\ IsFiniteSet(1..Len(ledger))
    BY FS_Interval DEF TypeOK, ChargesOf, Charges
  <2>. HIDE DEF C
  <2>. QED  BY <2>1, FS_Subset
<1>2. IsFiniteSet(D) /\ Cardinality(D) <= Cardinality(C)
  <2>. DEFINE f == [n \in C |-> [job |-> ledger[n].job, approved |-> ledger[n].flagged]]
  <2>1. f \in Surjection(C, D)
    <3>1. D = {f[n] : n \in C}
      BY ChargedLines
    <3>. HIDE DEF D
    <3>2. f \in [C -> D] /\ \A d \in D : \E n \in C : f[n] = d
      BY <3>1
    <3>. QED  BY <3>2 DEF Surjection
  <2>. HIDE DEF C, D, f
  <2>. QED  BY <1>1, <2>1, FS_Surjection
<1>3. Cardinality(C) \in Nat /\ Cardinality(D) \in Nat
  BY <1>1, <1>2, FS_CardinalityType
<1>4. Fits(s, Cardinality(C) + 1)
  BY DEF MayCharge
<1>5. Fits(s, Cardinality(D) + 1)
  <2>. DEFINE m == Cardinality(D) + 1
              n == Cardinality(C) + 1
  <2>1. m \in Nat /\ n \in Nat /\ m <= n /\ Fits(s, n)
    BY <1>2, <1>3, <1>4
  <2>. HIDE DEF m, n, s
  <2>2. Fits(s, m)
    BY <2>1, FitsDownwards
  <2>. QED  BY <2>2 DEF m
<1>6. PB!Cardinality(D) = Cardinality(D)
  BY DEF PB!Cardinality, Cardinality
<1>7. PB!Fits(s, Cardinality(D) + 1)
  BY <1>5, SamePolicy
<1>. QED  BY <1>6, <1>7 DEF PB!HasRoom, Scope

LEMMA ChargedAnswers ==
  ASSUME NEW j
  PROVE  PB!Answers(QueryOf[j]) = {Answered(j, n) : n \in ChargesOf(Scope(j))}
<1>1. \A c : PB!Signal(QueryOf[j], QueryOf[c]) = Signal(QueryOf[j], QueryOf[c])
  BY SamePolicy
<1>2. PB!ChargedIn(QueryOf[j].scope) =
        {[job |-> ledger[n].job, approved |-> ledger[n].flagged] : n \in ChargesOf(Scope(j))}
  BY ChargedLines DEF Scope
<1>3. PB!Answers(QueryOf[j]) =
        {Signal(QueryOf[j], QueryOf[c.job]) : c \in PB!ChargedIn(QueryOf[j].scope)}
  BY <1>1 DEF PB!Answers
<1>. DEFINE C == ChargesOf(Scope(j))
            F(n) == [job |-> ledger[n].job, approved |-> ledger[n].flagged]
<1>4. \A n : F(n).job = ledger[n].job
  OBVIOUS
<1>5. PB!ChargedIn(QueryOf[j].scope) = {F(n) : n \in C}
  BY <1>2
<1>. HIDE DEF C, F
<1>6. {Signal(QueryOf[j], QueryOf[c.job]) : c \in {F(n) : n \in C}} =
        {Signal(QueryOf[j], QueryOf[ledger[n].job]) : n \in C}
  BY <1>4
<1>. QED  BY <1>3, <1>5, <1>6 DEF Answered, C

\* Appending a charging line is the step of the abstract specification.
LEMMA ChargeReleases ==
  ASSUME IInv, NEW r \in Runs, AppendLedger(r), wEvents[verdict[r].event].consumed
  PROVE  \E j \in Jobs : PB!Release(j) \/ PB!ReleaseApproved(j)
<1>. DEFINE e == wEvents[verdict[r].event]
            new == Len(ledger) + 1
<1>0. TypeInv /\ TypeOK /\ Inv /\ AnswerInv /\ ChargeInv
  BY DEF IInv, Inv, TypeInv
<1>1. PICK j \in Jobs : j = e.job /\ AboutToCharge(r, j)
  BY <1>0, ChargedNow
<1>2. MayCharge(j)
  BY <1>0, <1>1 DEF ChargeInv
<1>3. PB!ScopeReason(QueryOf[j].scope) = "ok"
  BY <1>0, <1>1, SamePolicy DEF AnswerInv, Scope
<1>4. PB!HasRoom(QueryOf[j])
  BY <1>0, <1>2, ChargedRoom
<1>5. e.flagged \in BOOLEAN
  BY <1>0, LedgerGrows DEF Event
<1>6. Charged' = Charged \cup {[job |-> j, approved |-> e.flagged]}
  <2>1. /\ Charges' = Charges \cup {new}
        /\ \A n \in Charges : ledger'[n] = ledger[n]
        /\ ledger'[new].job = j /\ ledger'[new].flagged = e.flagged
    BY <1>0, <1>1, ChargesGrow, LedgerGrows, LineFlagged
  <2>. HIDE DEF e, new
  <2>. QED  BY <2>1 DEF Charged
<1>7. CASE ~e.flagged
  <2>1. PB!Answers(QueryOf[j]) \subseteq {"ok"}
    BY <1>0, <1>1, <1>7, ChargedAnswers DEF AnswerInv
  <2>2. [job |-> j, approved |-> e.flagged] = [job |-> j, approved |-> FALSE]
    BY <1>5, <1>7
  <2>3. PB!Release(j)
    BY <1>3, <1>4, <1>6, <2>1, <2>2 DEF PB!Release, Charged
  <2>. QED  BY <1>1, <2>3
<1>8. CASE e.flagged
  <2>1. "near_duplicate" \in PB!Answers(QueryOf[j])
    BY <1>0, <1>1, <1>8, ChargedAnswers DEF AnswerInv
  <2>2. "duplicate" \notin PB!Answers(QueryOf[j])
    <3>1. \A n \in ChargesOf(Scope(j)) : Answered(j, n) = NearSignal(QueryOf[j], QueryOf[ledger[n].job])
      BY <1>2 DEF MayCharge, Answered, Signal, ChargesOf
    <3>2. \A n \in ChargesOf(Scope(j)) : Answered(j, n) # "duplicate"
      BY <3>1 DEF NearSignal
    <3>. QED  BY <3>2, ChargedAnswers
  <2>3. [job |-> j, approved |-> e.flagged] = [job |-> j, approved |-> TRUE]
    BY <1>5, <1>8
  <2>4. PB!ReleaseApproved(j)
    BY <1>3, <1>4, <1>6, <2>1, <2>2, <2>3 DEF PB!ReleaseApproved, Charged
  <2>. QED  BY <1>1, <2>4
<1>. QED  BY <1>7, <1>8

LEMMA StepKeepsBudget ==
  ASSUME IInv, [Next]_vars
  PROVE  PB!Next \/ UNCHANGED Charged
<1>1. CASE UNCHANGED vars
  BY <1>1 DEF vars, files, Charged, Charges
<1>2. CASE Next /\ \A r \in Runs : ~AppendLedger(r)
  BY <1>2, LedgerFrame DEF Charged, Charges
<1>3. ASSUME NEW r \in Runs, AppendLedger(r) PROVE PB!Next \/ UNCHANGED Charged
  <2>1. CASE wEvents[verdict[r].event].consumed
    BY <1>3, <2>1, ChargeReleases DEF PB!Next
  <2>2. CASE ~wEvents[verdict[r].event].consumed
    <3>1. Charges' = Charges /\ \A n \in Charges : ledger'[n] = ledger[n]
      BY <1>3, <2>2, ChargesGrow, LedgerGrows DEF IInv, Inv
    <3>. QED  BY <3>1 DEF Charged
  <2>. QED  BY <2>1, <2>2
<1>. QED  BY <1>1, <1>2, <1>3

\* The concurrent, crashing releases keep the promise of the abstract budget:
\* the charges grow one line at a time, and each is one evaluate_privacy_budget
\* admits against all the lines before it, or an operator's approval excepts,
\* although it was decided earlier, from rows of the store.
THEOREM KeepsBudgetHolds == Spec => KeepsBudget
<1>1. Init => PB!Init
  BY DEF Init, PB!Init, Charges
<1>2. IInv /\ [Next]_vars => [PB!Next]_Charged
  BY StepKeepsBudget
<1>. QED  BY <1>1, <1>2, Invariance, PTL DEF Spec, KeepsBudget, PB!Spec, Charged
=============================================================================
