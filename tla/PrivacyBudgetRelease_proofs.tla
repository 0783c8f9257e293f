---------------------- MODULE PrivacyBudgetRelease_proofs ----------------------
(***************************************************************************)
(* Proofs about PrivacyBudgetRelease for any number of releases, operators,*)
(* jobs, lines and faults: the state has its type, the write lock is held  *)
(* by exactly the process inside a transaction, and what that process is   *)
(* about to write exists.  PrivacyBudgetCharge_proofs builds on them.      *)
(***************************************************************************)
EXTENDS PrivacyBudgetRelease, FiniteSetTheorems, TLAPS

-----------------------------------------------------------------------------
(* The least of a set of row ids.                                           *)

Less == {ss \in Nat \X Nat : ss[1] < ss[2]}

LEMMA NotLess ==
  ASSUME NEW x \in Nat, NEW y \in Nat, ~(<<y, x>> \in Less)
  PROVE  x <= y
<1>1. <<y, x>> \in Nat \X Nat
  OBVIOUS
<1>2. ~(<<y, x>>[1] < <<y, x>>[2])
  BY <1>1, Zenon DEF Less
<1>. QED  BY <1>2

\* The least of a nonempty set of naturals belongs to it.
LEMMA MinIsMember ==
  ASSUME NEW T, T \subseteq Nat, T # {}
  PROVE  Min(T) \in T /\ \A y \in T : Min(T) <= y
<1>1. IsWellFoundedOn(Less, Nat)
  BY NatLessThanWellFounded DEF OpToRel, Less
<1>2. PICK x \in T : \A y \in T : ~(<<y, x>> \in Less)
  BY <1>1, WFMin
<1>3. \A y \in T : x <= y
  BY <1>2, NotLess
<1>. QED  BY <1>3, Zenon DEF Min

-----------------------------------------------------------------------------
(* The inductive part of the type invariant.                                *)

InTransaction ==
  {"replayLedger", "replayQueue", "replayDecisions", "evaluate", "transition",
   "publish", "ledger", "queue", "audit", "decision", "consume", "commit"}
Before == {"start", "begin", "replayLedger", "replayQueue", "replayDecisions", "evaluate"}
Writing == {"publish", "ledger", "queue", "audit", "decision", "consume", "commit"}

\* The lock is held by whoever is inside a transaction.
LockInv == \A p \in Procs : pc[p] \in InTransaction <=> lock = p

\* What a process is about to write exists, from its decision on.
PendingInv ==
  /\ \A p \in Procs : pc[p] = "decision" => decision[p] # NoDecision
  /\ \A r \in Runs : pc[r] \in Before => verdict[r].event = 0
  /\ \A r \in Runs : pc[r] = "queue" => verdict[r].opens # NoRequest
  /\ \A r \in Runs : pc[r] = "ledger" => verdict[r].event # 0
  /\ \A r \in Runs : pc[r] \in Writing /\ verdict[r].event # 0 =>
       verdict[r].event \in DOMAIN wEvents

TypeInv == TypeOK /\ LockInv /\ PendingInv

-----------------------------------------------------------------------------
(* Types of what the helpers return.                                        *)

LEMMA TransitionedType ==
  ASSUME NEW row \in Row, NEW action \in {"approve", "reject", "expire", "consume"},
         NEW expires \in Expiries
  PROVE  Transitioned(row, action, expires) \in Row
<1>1. StatusAfter[action] \in ApprovalStatus
  BY DEF StatusAfter, ApprovalStatus
<1>2. row.expires \in Expiries
  BY DEF Row
<1>. QED  BY <1>1, <1>2 DEF Transitioned, Row

LEMMA InsertRequestType ==
  ASSUME NEW rows \in [Requests -> Row], NEW req
  PROVE  InsertRequest(rows, req) \in [Requests -> Row]
<1>1. \A q \in Requests : [rows[q] EXCEPT !.status = "pending_approval"] \in Row
  BY DEF Row, ApprovalStatus
<1>. QED  BY <1>1 DEF InsertRequest

LEMMA ReplayDecisionType ==
  ASSUME NEW rows \in [Requests -> Row], NEW d \in Decision
  PROVE  ReplayDecision(rows, d) \in [Requests -> Row]
<1>1. d.request \in Requests /\ d.expires \in Expiries
      /\ d.action \in {"approve", "reject", "expire", "consume"}
  BY DEF Decision
<1>2. Transitioned(rows[d.request], d.action, d.expires) \in Row
  BY <1>1, TransitionedType
<1>. QED  BY <1>1, <1>2 DEF ReplayDecision

LEMMA ImportLineType ==
  ASSUME ledger \in Seq(Line), NEW ev \in Seq(Event), NEW n \in DOMAIN ledger
  PROVE  ImportLine(ev, n) \in Seq(Event)
<1>1. n \in Nat /\ ledger[n] \in Line
  OBVIOUS
<1>2. [job |-> ledger[n].job, consumed |-> ledger[n].consumed, flagged |-> ledger[n].flagged,
       status |-> "committed", src |-> n] \in Event
  BY <1>1 DEF Line, Event
<1>. QED  BY <1>2 DEF ImportLine

-----------------------------------------------------------------------------
(* Type correctness, one step per action.                                   *)

StoreType ==
  /\ events \in Seq(Event) /\ wEvents \in Seq(Event)
  /\ approvals \in [Requests -> Row] /\ wApprovals \in [Requests -> Row]
  /\ ledger \in Seq(Line) /\ queue \in Seq(Requests) /\ decisions \in Seq(Decision)
  /\ verdict \in [Runs -> Verdict]
  /\ decision \in [Procs -> Decision \cup {NoDecision}]

ControlType ==
  /\ lock \in Procs \cup {NoOne}
  /\ pc \in [Procs -> Labels]

CounterType ==
  /\ cursor \in Nat \ {0}
  /\ audited \subseteq Runs
  /\ report \in [Jobs -> {"none", "allow", "deny"}]
  /\ now \in 0..MaxTime /\ faults \in 0..MaxFaults
  /\ job \in [Runs -> Jobs]
  /\ admitted \in [Runs -> BOOLEAN]

LEMMA TypeInit == Init => TypeInv
<1>. SUFFICES ASSUME Init PROVE TypeInv
  OBVIOUS
<1>1. AbsentRow \in Row
  BY DEF AbsentRow, Row, ApprovalStatus, Expiries
<1>2. NoVerdict \in Verdict /\ NoVerdict.event = 0
  BY DEF NoVerdict, Verdict
<1>3. TypeOK
  BY <1>1, <1>2, ReleaseAssumption DEF Init, TypeOK, Labels, Procs
<1>4. LockInv
  BY ReleaseAssumption DEF Init, LockInv, InTransaction, Procs
<1>5. PendingInv
  BY <1>2, ReleaseAssumption DEF Init, PendingInv, Writing, Procs
<1>. QED  BY <1>3, <1>4, <1>5 DEF TypeInv

\* The request a denial opens names two jobs: only a query some earlier record
\* resembles is near_duplicate or bucket_probe.
LEMMA OpensType ==
  ASSUME wEvents \in Seq(Event), job \in [Runs -> Jobs], NEW r \in Runs
  PROVE  (IF BudgetReason(r) \in ApprovalEligible
          THEN <<job[r], wEvents[MatchedId(Query(r), BudgetPrior(r))].job>>
          ELSE NoRequest) \in Requests \cup {NoRequest}
<1>. SUFFICES ASSUME BudgetReason(r) \in ApprovalEligible
              PROVE  <<job[r], wEvents[MatchedId(Query(r), BudgetPrior(r))].job>> \in Requests
  OBVIOUS
<1>. DEFINE T == FlaggedIds(Query(r), BudgetPrior(r))
<1>1. T # {}
  BY DEF BudgetReason, Evaluate, ApprovalEligible, ScopeReason
<1>2. T \subseteq DOMAIN wEvents /\ DOMAIN wEvents \subseteq Nat
  BY DEF FlaggedIds, BudgetPrior, Prior, CountedIds
<1>. HIDE DEF T
<1>3. Min(T) \in DOMAIN wEvents
  BY <1>1, <1>2, MinIsMember
<1>4. wEvents[Min(T)] \in Event
  BY <1>3
<1>5. wEvents[Min(T)].job \in Jobs
  BY <1>4 DEF Event
<1>. QED  BY <1>5 DEF T, MatchedId, Requests

LEMMA InsertEventType ==
  ASSUME TypeOK, NEW r \in Runs, NEW consumed \in BOOLEAN, NEW flagged \in BOOLEAN,
         InsertEvent(r, consumed, flagged)
  PROVE  wEvents' \in Seq(Event)
<1>1. [job |-> job[r], consumed |-> consumed, flagged |-> flagged,
       status |-> IF consumed THEN "reserved" ELSE "committed", src |-> 0] \in Event
  BY DEF TypeOK, Event
<1>. QED  BY <1>1 DEF InsertEvent, TypeOK

\* Marking a row of a sequence of events leaves a sequence of events.
LEMMA MarkType ==
  ASSUME NEW ev \in Seq(Event), NEW e \in DOMAIN ev,
         NEW status \in {"committed", "failed_after_reserve"}, NEW src \in Nat
  PROVE  /\ [ev EXCEPT ![e].status = status] \in Seq(Event)
         /\ [ev EXCEPT ![e].status = status, ![e].src = src] \in Seq(Event)
<1>1. ev[e] \in Event
  OBVIOUS
<1>2. [ev[e] EXCEPT !.status = status] \in Event
  BY <1>1 DEF Event
<1>3. [ev[e] EXCEPT !.status = status, !.src = src] \in Event
  BY <1>1 DEF Event
<1>4. [ev EXCEPT ![e] = [ev[e] EXCEPT !.status = status]] \in Seq(Event)
  BY <1>2
<1>5. [ev EXCEPT ![e] = [ev[e] EXCEPT !.status = status, !.src = src]] \in Seq(Event)
  BY <1>3
<1>6. [ev EXCEPT ![e] = [ev[e] EXCEPT !.status = status]] = [ev EXCEPT ![e].status = status]
  OBVIOUS
<1>7. [ev EXCEPT ![e] = [ev[e] EXCEPT !.status = status, !.src = src]]
        = [ev EXCEPT ![e].status = status, ![e].src = src]
  OBVIOUS
<1>. QED  BY <1>4, <1>5, <1>6, <1>7

LEMMA MarkCommittedType ==
  ASSUME TypeInv, NEW r \in Runs, pc[r] \in Writing
  PROVE  MarkCommitted(r) \in Seq(Event)
<1>1. CASE verdict[r].event = 0
  BY <1>1 DEF TypeInv, TypeOK, MarkCommitted
<1>2. CASE verdict[r].event # 0
  <2>1. verdict[r].event \in DOMAIN wEvents /\ wEvents \in Seq(Event) /\ Len(ledger) \in Nat
    BY <1>2 DEF TypeInv, PendingInv, TypeOK
  <2>2. [wEvents EXCEPT ![verdict[r].event].status = "committed",
                        ![verdict[r].event].src = Len(ledger)] \in Seq(Event)
    BY <2>1, MarkType
  <2>. QED  BY <1>2, <2>2, Zenon DEF MarkCommitted
<1>. QED  BY <1>1, <1>2

LEMMA FailAfterReserveType ==
  ASSUME TypeInv, NEW r \in Runs, pc[r] \in Writing, FailAfterReserve(r)
  PROVE  /\ events' \in Seq(Event) /\ wEvents' \in Seq(Event)
         /\ approvals' \in [Requests -> Row] /\ wApprovals' \in [Requests -> Row]
<1>. DEFINE e == verdict[r].event
<1>0. TypeOK
  BY DEF TypeInv
<1>1. CASE e = 0
  BY <1>0, <1>1 DEF FailAfterReserve, Rollback, store, TypeOK
<1>2. CASE e # 0
  <2>1. e \in DOMAIN wEvents /\ wEvents \in Seq(Event)
    BY <1>2 DEF TypeInv, PendingInv, TypeOK
  <2>2. [wEvents EXCEPT ![e].status = "failed_after_reserve"] \in Seq(Event)
    <3>. HIDE DEF e
    <3>. QED  BY <2>1, MarkType
  <2>3. Publishes(r, [wEvents EXCEPT ![e].status = "failed_after_reserve"])
    BY <1>2 DEF FailAfterReserve
  <2>. HIDE DEF e
  <2>. QED  BY <1>0, <2>2, <2>3 DEF Publishes, TypeOK
<1>. QED  BY <1>1, <1>2

\* Whoever enters a transaction takes the lock, whoever leaves it gives it back.
LEMMA LockStep == TypeInv /\ Next => LockInv'
<1>. SUFFICES ASSUME TypeInv, Next PROVE LockInv'
  OBVIOUS
<1>. USE DEF store, work, files, local, Goto
<1>0. TypeOK /\ LockInv /\ PendingInv
  BY DEF TypeInv
<1>1. ASSUME NEW r \in Runs, Admit(r) PROVE LockInv'
  BY <1>0, <1>1 DEF Admit, TypeOK, LockInv, InTransaction, Procs
<1>2. ASSUME NEW r \in Runs, DenyUnauthenticated(r) PROVE LockInv'
  BY <1>0, <1>2 DEF DenyUnauthenticated, TypeOK, LockInv, InTransaction, Procs
<1>3. ASSUME NEW r \in Runs, AuditDenial(r) PROVE LockInv'
  BY <1>0, <1>3 DEF AuditDenial, TypeOK, LockInv, InTransaction, Procs
<1>4. ASSUME NEW r \in Runs, ReplayLedger(r) PROVE LockInv'
  BY <1>0, <1>4 DEF ReplayLedger, TypeOK, LockInv, InTransaction, Procs
<1>5. ASSUME NEW r \in Runs, DenyEarly(r) PROVE LockInv'
  BY <1>0, <1>5 DEF DenyEarly, TypeOK, LockInv, InTransaction, Procs
<1>6. ASSUME NEW r \in Runs, Decide(r) PROVE LockInv'
  BY <1>0, <1>6 DEF Decide, InsertEvent, TypeOK, LockInv, InTransaction, Procs
<1>7. ASSUME NEW r \in Runs, NEW req \in Requests, DecideApproved(r, req) PROVE LockInv'
  BY <1>0, <1>7 DEF DecideApproved, InsertEvent, TypeOK, LockInv, InTransaction, Procs
<1>8. ASSUME NEW r \in Runs, DecisionRaises(r) PROVE LockInv'
  BY <1>0, <1>8, ReleaseAssumption
    DEF DecisionRaises, Rollback, TypeOK, LockInv, InTransaction, Procs
<1>9. ASSUME NEW r \in Runs, Publish(r) PROVE LockInv'
  BY <1>0, <1>9 DEF Publish, TypeOK, LockInv, InTransaction, Procs
<1>10. ASSUME NEW r \in Runs, AppendLedger(r) PROVE LockInv'
  BY <1>0, <1>10 DEF AppendLedger, TypeOK, LockInv, InTransaction, Procs
<1>11. ASSUME NEW r \in Runs, AppendQueue(r) PROVE LockInv'
  BY <1>0, <1>11 DEF AppendQueue, TypeOK, LockInv, InTransaction, Procs
<1>12. ASSUME NEW r \in Runs, AppendAudit(r) PROVE LockInv'
  BY <1>0, <1>12 DEF AppendAudit, TypeOK, LockInv, InTransaction, Procs
<1>13. ASSUME NEW r \in Runs, Consume(r) PROVE LockInv'
  <2>1. CASE lock' = lock /\ pc' = [pc EXCEPT ![r] = "commit"]
    BY <1>0, <1>13, <2>1 DEF Consume, TypeOK, LockInv, InTransaction, Procs
  <2>2. CASE lock' = NoOne /\ pc' = [pc EXCEPT ![r] = "failed"]
    BY <1>0, <1>13, <2>2, ReleaseAssumption DEF Consume, TypeOK, LockInv, InTransaction, Procs
  <2>. QED  BY <1>13, <2>1, <2>2 DEF Consume, FailAfterReserve, Rollback, Publishes
<1>14. ASSUME NEW o \in Operators, Transition(o) PROVE LockInv'
  BY <1>0, <1>14 DEF Transition, TypeOK, LockInv, InTransaction, Procs
<1>15. ASSUME NEW o \in Operators, TransitionRaises(o) PROVE LockInv'
  BY <1>0, <1>15, ReleaseAssumption
    DEF TransitionRaises, Rollback, TypeOK, LockInv, InTransaction, Procs
<1>16. ASSUME NEW p \in Procs, BeginImmediate(p) PROVE LockInv'
  BY <1>0, <1>16, ReleaseAssumption
    DEF BeginImmediate, WriteLockFree, TypeOK, LockInv, InTransaction, Procs
<1>17. ASSUME NEW p \in Procs, BusyTimeout(p) PROVE LockInv'
  BY <1>0, <1>17 DEF BusyTimeout, TypeOK, LockInv, InTransaction, Procs
<1>18. ASSUME NEW p \in Procs, ReplayQueue(p) PROVE LockInv'
  BY <1>0, <1>18 DEF ReplayQueue, TypeOK, LockInv, InTransaction, Procs
<1>19. ASSUME NEW p \in Procs, ReplayDecisions(p) PROVE LockInv'
  BY <1>0, <1>19 DEF ReplayDecisions, TypeOK, LockInv, InTransaction, Procs
<1>20. ASSUME NEW p \in Procs, AppendDecision(p) PROVE LockInv'
  BY <1>0, <1>20 DEF AppendDecision, TypeOK, LockInv, InTransaction, Procs
<1>21. ASSUME NEW p \in Procs, Commit(p) PROVE LockInv'
  BY <1>0, <1>21, ReleaseAssumption
    DEF Commit, Publishes, MarkCommitted, TypeOK, LockInv, InTransaction, Procs
<1>22. ASSUME NEW p \in Procs, WriteFails(p) PROVE LockInv'
  <2>1. pc' = [pc EXCEPT ![p] = "failed"] /\ lock' = NoOne /\ pc[p] \in InTransaction
    BY <1>22 DEF WriteFails, FailAfterReserve, Rollback, Publishes, InTransaction
  <2>. QED  BY <1>0, <2>1, ReleaseAssumption DEF TypeOK, LockInv, InTransaction, Procs
<1>23. ASSUME NEW p \in Procs, Crash(p) PROVE LockInv'
  BY <1>0, <1>23, ReleaseAssumption
    DEF Crash, Fault, Rollback, TypeOK, LockInv, InTransaction, Procs
<1>24. ASSUME Tick PROVE LockInv'
  BY <1>0, <1>24 DEF Tick, TypeOK, LockInv, InTransaction, Procs
<1>. QED  BY <1>1, <1>2, <1>3, <1>4, <1>5, <1>6, <1>7, <1>8, <1>9, <1>10, <1>11, <1>12,
             <1>13, <1>14, <1>15, <1>16, <1>17, <1>18, <1>19, <1>20, <1>21, <1>22, <1>23, <1>24
          DEF Next, RunStep, OperatorStep, ProcStep

\* No step takes away what a process is about to write.
LEMMA PendingStep == TypeInv /\ Next => PendingInv'
<1>. SUFFICES ASSUME TypeInv, Next PROVE PendingInv'
  OBVIOUS
<1>. USE DEF store, work, files, local, Goto
<1>0. TypeOK /\ LockInv /\ PendingInv
  BY DEF TypeInv
<1>1. ASSUME NEW r \in Runs, Admit(r) PROVE PendingInv'
  BY <1>0, <1>1 DEF Admit, TypeOK, LockInv, PendingInv, InTransaction, Before, Writing, Procs
<1>2. ASSUME NEW r \in Runs, DenyUnauthenticated(r) PROVE PendingInv'
  BY <1>0, <1>2
    DEF DenyUnauthenticated, TypeOK, LockInv, PendingInv, InTransaction, Before, Writing,
        Procs
<1>3. ASSUME NEW r \in Runs, AuditDenial(r) PROVE PendingInv'
  BY <1>0, <1>3 DEF AuditDenial, TypeOK, LockInv, PendingInv, InTransaction, Before, Writing, Procs
<1>4. ASSUME NEW r \in Runs, ReplayLedger(r) PROVE PendingInv'
  BY <1>0, <1>4 DEF ReplayLedger, TypeOK, LockInv, PendingInv, InTransaction, Before, Writing, Procs
<1>5. ASSUME NEW r \in Runs, DenyEarly(r) PROVE PendingInv'
  BY <1>0, <1>5 DEF DenyEarly, TypeOK, LockInv, PendingInv, InTransaction, Before, Writing, Procs
<1>6. ASSUME NEW r \in Runs, Decide(r) PROVE PendingInv'
  BY <1>0, <1>6
    DEF Decide, InsertEvent, TypeOK, LockInv, PendingInv, InTransaction, Before, Writing,
        Procs
<1>7. ASSUME NEW r \in Runs, NEW req \in Requests, DecideApproved(r, req) PROVE PendingInv'
  BY <1>0, <1>7
    DEF DecideApproved, InsertEvent, TypeOK, LockInv, PendingInv, InTransaction, Before,
        Writing, Procs
<1>8. ASSUME NEW r \in Runs, DecisionRaises(r) PROVE PendingInv'
  BY <1>0, <1>8
    DEF DecisionRaises, Rollback, TypeOK, LockInv, PendingInv, InTransaction, Before,
        Writing, Procs
<1>9. ASSUME NEW r \in Runs, Publish(r) PROVE PendingInv'
  BY <1>0, <1>9 DEF Publish, TypeOK, LockInv, PendingInv, InTransaction, Before, Writing, Procs
<1>10. ASSUME NEW r \in Runs, AppendLedger(r) PROVE PendingInv'
  BY <1>0, <1>10
    DEF AppendLedger, TypeOK, LockInv, PendingInv, InTransaction, Before, Writing, Procs
<1>11. ASSUME NEW r \in Runs, AppendQueue(r) PROVE PendingInv'
  BY <1>0, <1>11 DEF AppendQueue, TypeOK, LockInv, PendingInv, InTransaction, Before, Writing, Procs
<1>12. ASSUME NEW r \in Runs, AppendAudit(r) PROVE PendingInv'
  BY <1>0, <1>12 DEF AppendAudit, TypeOK, LockInv, PendingInv, InTransaction, Before, Writing, Procs
<1>13. ASSUME NEW r \in Runs, Consume(r) PROVE PendingInv'
  BY <1>0, <1>13
    DEF Consume, FailAfterReserve, Rollback, Publishes, TypeOK, LockInv, PendingInv,
        InTransaction, Before, Writing, Procs
<1>14. ASSUME NEW o \in Operators, Transition(o) PROVE PendingInv'
  <2>1. PICK d : decision' = [decision EXCEPT ![o] = d] /\ d # NoDecision
    <3>1. PICK req \in Requests, action \in {"approve", "reject", "expire"} :
            \E expires : decision' = [decision EXCEPT
              ![o] = [request |-> req, action |-> action, expires |-> expires]]
      BY <1>14 DEF Transition
    <3>2. PICK expires : decision' = [decision EXCEPT
              ![o] = [request |-> req, action |-> action, expires |-> expires]]
      BY <3>1
    <3>3. [request |-> req, action |-> action, expires |-> expires].action # NoDecision.action
      BY DEF NoDecision
    <3>. QED  BY <3>2, <3>3
  <2>2. /\ pc' = [pc EXCEPT ![o] = "decision"]
        /\ UNCHANGED <<verdict, wEvents>>
    BY <1>14 DEF Transition
  <2>. QED  BY <1>0, <2>1, <2>2, ReleaseAssumption DEF TypeOK, PendingInv, Before, Writing, Procs
<1>15. ASSUME NEW o \in Operators, TransitionRaises(o) PROVE PendingInv'
  BY <1>0, <1>15
    DEF TransitionRaises, Rollback, TypeOK, LockInv, PendingInv, InTransaction, Before,
        Writing, Procs
<1>16. ASSUME NEW p \in Procs, BeginImmediate(p) PROVE PendingInv'
  BY <1>0, <1>16
    DEF BeginImmediate, WriteLockFree, TypeOK, LockInv, PendingInv, InTransaction,
        Before, Writing, Procs
<1>17. ASSUME NEW p \in Procs, BusyTimeout(p) PROVE PendingInv'
  BY <1>0, <1>17 DEF BusyTimeout, TypeOK, LockInv, PendingInv, InTransaction, Before, Writing, Procs
<1>18. ASSUME NEW p \in Procs, ReplayQueue(p) PROVE PendingInv'
  BY <1>0, <1>18 DEF ReplayQueue, TypeOK, LockInv, PendingInv, InTransaction, Before, Writing, Procs
<1>19. ASSUME NEW p \in Procs, ReplayDecisions(p) PROVE PendingInv'
  BY <1>0, <1>19
    DEF ReplayDecisions, TypeOK, LockInv, PendingInv, InTransaction, Before, Writing,
        Procs
<1>20. ASSUME NEW p \in Procs, AppendDecision(p) PROVE PendingInv'
  BY <1>0, <1>20
    DEF AppendDecision, TypeOK, LockInv, PendingInv, InTransaction, Before, Writing,
        Procs
<1>21. ASSUME NEW p \in Procs, Commit(p) PROVE PendingInv'
  BY <1>0, <1>21
    DEF Commit, Publishes, MarkCommitted, TypeOK, LockInv, PendingInv, InTransaction,
        Before, Writing, Procs
<1>22. ASSUME NEW p \in Procs, WriteFails(p) PROVE PendingInv'
  <2>1. pc' = [pc EXCEPT ![p] = "failed"] /\ pc[p] \in InTransaction
    BY <1>22 DEF WriteFails, FailAfterReserve, Rollback, InTransaction
  <2>2. \A x \in Procs : pc'[x] \notin InTransaction
    BY <1>0, <2>1 DEF TypeOK, LockInv, InTransaction
  <2>3. UNCHANGED <<verdict, decision>>
    BY <1>22 DEF WriteFails
  <2>. QED  BY <1>0, <2>1, <2>2, <2>3 DEF TypeOK, PendingInv, InTransaction, Before, Writing, Procs
<1>23. ASSUME NEW p \in Procs, Crash(p) PROVE PendingInv'
  BY <1>0, <1>23, ReleaseAssumption
    DEF Crash, Fault, Rollback, TypeOK, LockInv, PendingInv, InTransaction, Before,
        Writing, Procs
<1>24. ASSUME Tick PROVE PendingInv'
  BY <1>0, <1>24 DEF Tick, TypeOK, LockInv, PendingInv, InTransaction, Before, Writing, Procs
<1>. QED  BY <1>1, <1>2, <1>3, <1>4, <1>5, <1>6, <1>7, <1>8, <1>9, <1>10, <1>11, <1>12,
             <1>13, <1>14, <1>15, <1>16, <1>17, <1>18, <1>19, <1>20, <1>21, <1>22, <1>23, <1>24
          DEF Next, RunStep, OperatorStep, ProcStep

\* The lock and the labels keep their types.
LEMMA ControlTypeStep == TypeInv /\ Next => ControlType'
<1>. SUFFICES ASSUME TypeInv, Next PROVE ControlType'
  OBVIOUS
<1>. USE DEF store, work, files, local, Goto
<1>0. TypeOK /\ LockInv /\ PendingInv
  BY DEF TypeInv
<1>1. ASSUME NEW r \in Runs, Admit(r) PROVE ControlType'
  BY <1>0, <1>1 DEF Admit, TypeOK, ControlType, Labels, Ended
<1>2. ASSUME NEW r \in Runs, DenyUnauthenticated(r) PROVE ControlType'
  BY <1>0, <1>2 DEF DenyUnauthenticated, TypeOK, ControlType, Labels, Ended
<1>3. ASSUME NEW r \in Runs, AuditDenial(r) PROVE ControlType'
  BY <1>0, <1>3 DEF AuditDenial, TypeOK, ControlType, Labels, Ended
<1>4. ASSUME NEW r \in Runs, ReplayLedger(r) PROVE ControlType'
  BY <1>0, <1>4 DEF ReplayLedger, TypeOK, ControlType, Labels, Ended
<1>5. ASSUME NEW r \in Runs, DenyEarly(r) PROVE ControlType'
  BY <1>0, <1>5 DEF DenyEarly, TypeOK, ControlType, Labels, Ended
<1>6. ASSUME NEW r \in Runs, Decide(r) PROVE ControlType'
  BY <1>0, <1>6 DEF Decide, InsertEvent, TypeOK, ControlType, Labels, Ended
<1>7. ASSUME NEW r \in Runs, NEW req \in Requests, DecideApproved(r, req) PROVE ControlType'
  BY <1>0, <1>7 DEF DecideApproved, InsertEvent, TypeOK, ControlType, Labels, Ended
<1>8. ASSUME NEW r \in Runs, DecisionRaises(r) PROVE ControlType'
  BY <1>0, <1>8 DEF DecisionRaises, Rollback, TypeOK, ControlType, Labels, Ended
<1>9. ASSUME NEW r \in Runs, Publish(r) PROVE ControlType'
  BY <1>0, <1>9 DEF Publish, TypeOK, ControlType, Labels, Ended
<1>10. ASSUME NEW r \in Runs, AppendLedger(r) PROVE ControlType'
  BY <1>0, <1>10 DEF AppendLedger, TypeOK, ControlType, Labels, Ended
<1>11. ASSUME NEW r \in Runs, AppendQueue(r) PROVE ControlType'
  BY <1>0, <1>11 DEF AppendQueue, TypeOK, ControlType, Labels, Ended
<1>12. ASSUME NEW r \in Runs, AppendAudit(r) PROVE ControlType'
  BY <1>0, <1>12 DEF AppendAudit, TypeOK, ControlType, Labels, Ended
<1>13. ASSUME NEW r \in Runs, Consume(r) PROVE ControlType'
  BY <1>0, <1>13
    DEF Consume, FailAfterReserve, Rollback, Publishes, TypeOK, ControlType, Labels,
        Ended
<1>14. ASSUME NEW o \in Operators, Transition(o) PROVE ControlType'
  BY <1>0, <1>14 DEF Transition, TypeOK, ControlType, Labels, Ended
<1>15. ASSUME NEW o \in Operators, TransitionRaises(o) PROVE ControlType'
  BY <1>0, <1>15 DEF TransitionRaises, Rollback, TypeOK, ControlType, Labels, Ended
<1>16. ASSUME NEW p \in Procs, BeginImmediate(p) PROVE ControlType'
  BY <1>0, <1>16 DEF BeginImmediate, WriteLockFree, TypeOK, ControlType, Labels, Ended
<1>17. ASSUME NEW p \in Procs, BusyTimeout(p) PROVE ControlType'
  BY <1>0, <1>17 DEF BusyTimeout, TypeOK, ControlType, Labels, Ended
<1>18. ASSUME NEW p \in Procs, ReplayQueue(p) PROVE ControlType'
  BY <1>0, <1>18 DEF ReplayQueue, TypeOK, ControlType, Labels, Ended
<1>19. ASSUME NEW p \in Procs, ReplayDecisions(p) PROVE ControlType'
  BY <1>0, <1>19 DEF ReplayDecisions, TypeOK, ControlType, Labels, Ended
<1>20. ASSUME NEW p \in Procs, AppendDecision(p) PROVE ControlType'
  BY <1>0, <1>20 DEF AppendDecision, TypeOK, ControlType, Labels, Ended
<1>21. ASSUME NEW p \in Procs, Commit(p) PROVE ControlType'
  BY <1>0, <1>21 DEF Commit, Publishes, MarkCommitted, TypeOK, ControlType, Labels, Ended
<1>22. ASSUME NEW p \in Procs, WriteFails(p) PROVE ControlType'
  BY <1>0, <1>22
    DEF WriteFails, Fault, FailAfterReserve, Rollback, Publishes, TypeOK, ControlType,
        Labels, Ended
<1>23. ASSUME NEW p \in Procs, Crash(p) PROVE ControlType'
  BY <1>0, <1>23 DEF Crash, Fault, Rollback, TypeOK, ControlType, Labels, Ended
<1>24. ASSUME Tick PROVE ControlType'
  BY <1>0, <1>24 DEF Tick, TypeOK, ControlType, Labels, Ended
<1>. QED  BY <1>1, <1>2, <1>3, <1>4, <1>5, <1>6, <1>7, <1>8, <1>9, <1>10, <1>11, <1>12,
             <1>13, <1>14, <1>15, <1>16, <1>17, <1>18, <1>19, <1>20, <1>21, <1>22, <1>23, <1>24
          DEF Next, RunStep, OperatorStep, ProcStep

\* So do the cursor, the clock and the other counters and flags.
LEMMA CounterTypeStep == TypeInv /\ Next => CounterType'
<1>. SUFFICES ASSUME TypeInv, Next PROVE CounterType'
  OBVIOUS
<1>. USE DEF store, work, files, local, Goto
<1>0. TypeOK /\ LockInv /\ PendingInv
  BY DEF TypeInv
<1>1. ASSUME NEW r \in Runs, Admit(r) PROVE CounterType'
  BY <1>0, <1>1 DEF Admit, TypeOK, CounterType
<1>2. ASSUME NEW r \in Runs, DenyUnauthenticated(r) PROVE CounterType'
  BY <1>0, <1>2 DEF DenyUnauthenticated, TypeOK, CounterType
<1>3. ASSUME NEW r \in Runs, AuditDenial(r) PROVE CounterType'
  BY <1>0, <1>3 DEF AuditDenial, TypeOK, CounterType
<1>4. ASSUME NEW r \in Runs, ReplayLedger(r) PROVE CounterType'
  BY <1>0, <1>4 DEF ReplayLedger, TypeOK, CounterType
<1>5. ASSUME NEW r \in Runs, DenyEarly(r) PROVE CounterType'
  BY <1>0, <1>5 DEF DenyEarly, TypeOK, CounterType
<1>6. ASSUME NEW r \in Runs, Decide(r) PROVE CounterType'
  BY <1>0, <1>6 DEF Decide, InsertEvent, TypeOK, CounterType
<1>7. ASSUME NEW r \in Runs, NEW req \in Requests, DecideApproved(r, req) PROVE CounterType'
  BY <1>0, <1>7 DEF DecideApproved, InsertEvent, TypeOK, CounterType
<1>8. ASSUME NEW r \in Runs, DecisionRaises(r) PROVE CounterType'
  BY <1>0, <1>8 DEF DecisionRaises, Rollback, TypeOK, CounterType
<1>9. ASSUME NEW r \in Runs, Publish(r) PROVE CounterType'
  BY <1>0, <1>9 DEF Publish, TypeOK, CounterType
<1>10. ASSUME NEW r \in Runs, AppendLedger(r) PROVE CounterType'
  BY <1>0, <1>10 DEF AppendLedger, TypeOK, CounterType
<1>11. ASSUME NEW r \in Runs, AppendQueue(r) PROVE CounterType'
  BY <1>0, <1>11 DEF AppendQueue, TypeOK, CounterType
<1>12. ASSUME NEW r \in Runs, AppendAudit(r) PROVE CounterType'
  BY <1>0, <1>12 DEF AppendAudit, TypeOK, CounterType
<1>13. ASSUME NEW r \in Runs, Consume(r) PROVE CounterType'
  BY <1>0, <1>13 DEF Consume, FailAfterReserve, Rollback, Publishes, TypeOK, CounterType
<1>14. ASSUME NEW o \in Operators, Transition(o) PROVE CounterType'
  BY <1>0, <1>14 DEF Transition, TypeOK, CounterType
<1>15. ASSUME NEW o \in Operators, TransitionRaises(o) PROVE CounterType'
  BY <1>0, <1>15 DEF TransitionRaises, Rollback, TypeOK, CounterType
<1>16. ASSUME NEW p \in Procs, BeginImmediate(p) PROVE CounterType'
  BY <1>0, <1>16 DEF BeginImmediate, WriteLockFree, TypeOK, CounterType
<1>17. ASSUME NEW p \in Procs, BusyTimeout(p) PROVE CounterType'
  BY <1>0, <1>17 DEF BusyTimeout, TypeOK, CounterType
<1>18. ASSUME NEW p \in Procs, ReplayQueue(p) PROVE CounterType'
  BY <1>0, <1>18 DEF ReplayQueue, TypeOK, CounterType
<1>19. ASSUME NEW p \in Procs, ReplayDecisions(p) PROVE CounterType'
  BY <1>0, <1>19 DEF ReplayDecisions, TypeOK, CounterType
<1>20. ASSUME NEW p \in Procs, AppendDecision(p) PROVE CounterType'
  BY <1>0, <1>20 DEF AppendDecision, TypeOK, CounterType
<1>21. ASSUME NEW p \in Procs, Commit(p) PROVE CounterType'
  BY <1>0, <1>21 DEF Commit, Publishes, MarkCommitted, TypeOK, CounterType
<1>22. ASSUME NEW p \in Procs, WriteFails(p) PROVE CounterType'
  BY <1>0, <1>22, ReleaseAssumption
    DEF WriteFails, Fault, FailAfterReserve, Rollback, Publishes, TypeOK, CounterType
<1>23. ASSUME NEW p \in Procs, Crash(p) PROVE CounterType'
  BY <1>0, <1>23, ReleaseAssumption DEF Crash, Fault, Rollback, TypeOK, CounterType
<1>24. ASSUME Tick PROVE CounterType'
  BY <1>0, <1>24, ReleaseAssumption DEF Tick, TypeOK, CounterType
<1>. QED  BY <1>1, <1>2, <1>3, <1>4, <1>5, <1>6, <1>7, <1>8, <1>9, <1>10, <1>11, <1>12,
             <1>13, <1>14, <1>15, <1>16, <1>17, <1>18, <1>19, <1>20, <1>21, <1>22, <1>23, <1>24
          DEF Next, RunStep, OperatorStep, ProcStep

\* So do the tables, the files and what is on its way into them.
LEMMA StoreTypeStep == TypeInv /\ Next => StoreType'
<1>. SUFFICES ASSUME TypeInv, Next PROVE StoreType'
  OBVIOUS
<1>. USE DEF store, work, files, local, Goto
<1>0. TypeOK /\ LockInv /\ PendingInv
  BY DEF TypeInv
<1>1. ASSUME NEW r \in Runs, Admit(r) PROVE StoreType'
  BY <1>0, <1>1 DEF Admit, TypeOK, StoreType
<1>2. ASSUME NEW r \in Runs, DenyUnauthenticated(r) PROVE StoreType'
  BY <1>0, <1>2 DEF DenyUnauthenticated, TypeOK, StoreType
<1>3. ASSUME NEW r \in Runs, AuditDenial(r) PROVE StoreType'
  BY <1>0, <1>3 DEF AuditDenial, TypeOK, StoreType
<1>4. ASSUME NEW r \in Runs, ReplayLedger(r) PROVE StoreType'
  <2>1. wEvents' \in Seq(Event)
    BY <1>0, <1>4, ImportLineType DEF ReplayLedger, TypeOK
  <2>. QED  BY <1>0, <1>4, <2>1 DEF ReplayLedger, TypeOK, StoreType
<1>5. ASSUME NEW r \in Runs, DenyEarly(r) PROVE StoreType'
  BY <1>0, <1>5 DEF DenyEarly, TypeOK, StoreType
<1>6. ASSUME NEW r \in Runs, Decide(r) PROVE StoreType'
  <2>. DEFINE reason == BudgetReason(r)
              opens == IF reason \in ApprovalEligible
                       THEN <<job[r], wEvents[MatchedId(Query(r), BudgetPrior(r))].job>>
                       ELSE NoRequest
              allow == reason = "ok" /\ job[r] \in Passing
  <2>1. opens \in Requests \cup {NoRequest}
    BY <1>0, OpensType DEF TypeOK
  <2>2. /\ wApprovals' = InsertRequest(wApprovals, opens)
        /\ InsertEvent(r, allow, reason \notin {"ok", "missing_scope"})
        /\ verdict' = [verdict EXCEPT
             ![r] = [allow |-> allow, event |-> Len(wEvents) + 1, opens |-> opens]]
        /\ UNCHANGED <<events, approvals, ledger, queue, decisions, decision>>
    BY <1>6 DEF Decide
  <2>3. allow \in BOOLEAN /\ (reason \notin {"ok", "missing_scope"}) \in BOOLEAN
    OBVIOUS
  <2>. HIDE DEF reason, opens, allow
  <2>4. wApprovals' \in [Requests -> Row]
    BY <1>0, <2>2, InsertRequestType DEF TypeOK
  <2>5. wEvents' \in Seq(Event)
    BY <1>0, <2>2, <2>3, InsertEventType
  <2>6. [allow |-> allow, event |-> Len(wEvents) + 1, opens |-> opens] \in Verdict
    BY <1>0, <2>1, <2>3 DEF TypeOK, Verdict
  <2>7. verdict' \in [Runs -> Verdict]
    BY <1>0, <2>2, <2>6 DEF TypeOK
  <2>. QED  BY <1>0, <2>2, <2>4, <2>5, <2>7 DEF TypeOK, StoreType
<1>7. ASSUME NEW r \in Runs, NEW req \in Requests, DecideApproved(r, req) PROVE StoreType'
  <2>. DEFINE allow == job[r] \in Passing
              line == [request |-> req, action |-> "consume", expires |-> wApprovals[req].expires]
  <2>1. /\ InsertEvent(r, allow, TRUE)
        /\ verdict' = [verdict EXCEPT
             ![r] = [allow |-> allow, event |-> Len(wEvents) + 1, opens |-> NoRequest]]
        /\ decision' = [decision EXCEPT ![r] = line]
        /\ UNCHANGED <<events, approvals, wApprovals, ledger, queue, decisions>>
    BY <1>7 DEF DecideApproved
  <2>2. allow \in BOOLEAN
    OBVIOUS
  <2>3. line \in Decision
    <3>1. wApprovals[req] \in Row
      BY <1>0, <1>7 DEF TypeOK
    <3>. QED  BY <3>1, <1>7 DEF Row, Decision
  <2>. HIDE DEF allow, line
  <2>4. wEvents' \in Seq(Event)
    BY <1>0, <2>1, <2>2, InsertEventType
  <2>5. [allow |-> allow, event |-> Len(wEvents) + 1, opens |-> NoRequest] \in Verdict
    BY <1>0, <2>2 DEF TypeOK, Verdict
  <2>. QED  BY <1>0, <2>1, <2>3, <2>4, <2>5 DEF TypeOK, StoreType
<1>8. ASSUME NEW r \in Runs, DecisionRaises(r) PROVE StoreType'
  BY <1>0, <1>8 DEF DecisionRaises, Rollback, TypeOK, StoreType
<1>9. ASSUME NEW r \in Runs, Publish(r) PROVE StoreType'
  BY <1>0, <1>9 DEF Publish, TypeOK, StoreType
<1>10. ASSUME NEW r \in Runs, AppendLedger(r) PROVE StoreType'
  <2>. DEFINE e == wEvents[verdict[r].event]
              line == [job |-> e.job, consumed |-> e.consumed, flagged |-> e.flagged]
  <2>1. e \in Event
    BY <1>0, <1>10 DEF AppendLedger, PendingInv, Writing, TypeOK
  <2>2. line \in Line
    BY <2>1 DEF Event, Line
  <2>3. ledger' = Append(ledger, line)
        /\ UNCHANGED <<events, wEvents, approvals, wApprovals, queue, decisions, verdict, decision>>
    BY <1>10 DEF AppendLedger
  <2>. HIDE DEF line, e
  <2>. QED  BY <1>0, <2>2, <2>3 DEF TypeOK, StoreType
<1>11. ASSUME NEW r \in Runs, AppendQueue(r) PROVE StoreType'
  <2>1. verdict[r].opens \in Requests
    <3>1. verdict[r] \in Verdict
      BY <1>0 DEF TypeOK
    <3>. QED  BY <3>1, <1>0, <1>11 DEF Verdict, AppendQueue, PendingInv
  <2>. QED  BY <1>0, <1>11, <2>1 DEF AppendQueue, TypeOK, StoreType
<1>12. ASSUME NEW r \in Runs, AppendAudit(r) PROVE StoreType'
  BY <1>0, <1>12 DEF AppendAudit, TypeOK, StoreType
<1>13. ASSUME NEW r \in Runs, Consume(r) PROVE StoreType'
  <2>. DEFINE req == decision[r].request
  <2>1. UNCHANGED <<ledger, queue, decisions, verdict, decision>>
    BY <1>13 DEF Consume
  <2>2. CASE CanTransition(wApprovals[req], "consume")
    <3>1. wApprovals' = [wApprovals EXCEPT ![req] = Transitioned(wApprovals[req], "consume", NoExpiry)]
          /\ UNCHANGED <<events, approvals, wEvents>>
      BY <1>13, <2>2 DEF Consume
    <3>2. req \in Requests => Transitioned(wApprovals[req], "consume", NoExpiry) \in Row
      BY <1>0, TransitionedType DEF TypeOK, Expiries
    <3>. HIDE DEF req
    <3>3. wApprovals' \in [Requests -> Row]
      BY <1>0, <3>1, <3>2 DEF TypeOK
    <3>. QED  BY <1>0, <2>1, <3>1, <3>3 DEF TypeOK, StoreType
  <2>3. CASE ~CanTransition(wApprovals[req], "consume")
    <3>1. FailAfterReserve(r) /\ pc[r] \in Writing
      BY <1>13, <2>3 DEF Consume, Writing
    <3>. QED  BY <1>0, <2>1, <3>1, FailAfterReserveType DEF TypeOK, StoreType
  <2>. QED  BY <2>2, <2>3
<1>14. ASSUME NEW o \in Operators, Transition(o) PROVE StoreType'
  <2>1. PICK req \in Requests, action \in {"approve", "reject", "expire"} :
          \E expires \in IF action = "approve" THEN Expiries ELSE {NoExpiry} :
            /\ wApprovals' = [wApprovals EXCEPT
                 ![req] = Transitioned(wApprovals[req], action, expires)]
            /\ decision' = [decision EXCEPT
                 ![o] = [request |-> req, action |-> action, expires |-> expires]]
    BY <1>14 DEF Transition
  <2>2. PICK expires \in Expiries :
            /\ wApprovals' = [wApprovals EXCEPT
                 ![req] = Transitioned(wApprovals[req], action, expires)]
            /\ decision' = [decision EXCEPT
                 ![o] = [request |-> req, action |-> action, expires |-> expires]]
    BY <2>1 DEF Expiries
  <2>3. Transitioned(wApprovals[req], action, expires) \in Row
    BY <1>0, TransitionedType DEF TypeOK
  <2>4. [request |-> req, action |-> action, expires |-> expires] \in Decision
    BY DEF Decision
  <2>5. UNCHANGED <<events, approvals, wEvents, ledger, queue, decisions, verdict>>
    BY <1>14 DEF Transition
  <2>. QED  BY <1>0, <2>2, <2>3, <2>4, <2>5 DEF TypeOK, StoreType
<1>15. ASSUME NEW o \in Operators, TransitionRaises(o) PROVE StoreType'
  BY <1>0, <1>15 DEF TransitionRaises, Rollback, TypeOK, StoreType
<1>16. ASSUME NEW p \in Procs, BeginImmediate(p) PROVE StoreType'
  BY <1>0, <1>16 DEF BeginImmediate, WriteLockFree, TypeOK, StoreType
<1>17. ASSUME NEW p \in Procs, BusyTimeout(p) PROVE StoreType'
  BY <1>0, <1>17 DEF BusyTimeout, TypeOK, StoreType
<1>18. ASSUME NEW p \in Procs, ReplayQueue(p) PROVE StoreType'
  <2>1. wApprovals' \in [Requests -> Row]
    <3>1. CASE cursor \in DOMAIN queue
      <4>1. wApprovals' = InsertRequest(wApprovals, queue[cursor])
        BY <1>18, <3>1 DEF ReplayQueue
      <4>2. queue[cursor] \in Requests /\ wApprovals \in [Requests -> Row]
        BY <1>0, <3>1 DEF TypeOK
      <4>. QED  BY <4>1, <4>2, InsertRequestType
    <3>2. CASE cursor \notin DOMAIN queue
      BY <1>0, <1>18, <3>2 DEF ReplayQueue, TypeOK
    <3>. QED  BY <3>1, <3>2
  <2>. QED  BY <1>0, <1>18, <2>1 DEF ReplayQueue, TypeOK, StoreType
<1>19. ASSUME NEW p \in Procs, ReplayDecisions(p) PROVE StoreType'
  <2>1. wApprovals' \in [Requests -> Row]
    <3>1. CASE cursor \in DOMAIN decisions
      <4>1. wApprovals' = ReplayDecision(wApprovals, decisions[cursor])
        BY <1>19, <3>1 DEF ReplayDecisions
      <4>2. decisions[cursor] \in Decision /\ wApprovals \in [Requests -> Row]
        BY <1>0, <3>1 DEF TypeOK
      <4>. QED  BY <4>1, <4>2, ReplayDecisionType
    <3>2. CASE cursor \notin DOMAIN decisions
      BY <1>0, <1>19, <3>2 DEF ReplayDecisions, TypeOK
    <3>. QED  BY <3>1, <3>2
  <2>. QED  BY <1>0, <1>19, <2>1 DEF ReplayDecisions, TypeOK, StoreType
<1>20. ASSUME NEW p \in Procs, AppendDecision(p) PROVE StoreType'
  <2>1. decision[p] \in Decision
    BY <1>0, <1>20 DEF AppendDecision, PendingInv, TypeOK
  <2>. QED  BY <1>0, <1>20, <2>1 DEF AppendDecision, TypeOK, StoreType
<1>21. ASSUME NEW p \in Procs, Commit(p) PROVE StoreType'
  <2>1. pc[p] \in Writing /\ Publishes(p, IF p \in Runs THEN MarkCommitted(p) ELSE wEvents)
    BY <1>21 DEF Commit, Writing
  <2>2. (IF p \in Runs THEN MarkCommitted(p) ELSE wEvents) \in Seq(Event)
    BY <1>0, <2>1, MarkCommittedType DEF TypeOK
  <2>. QED  BY <1>0, <1>21, <2>1, <2>2 DEF Commit, Publishes, TypeOK, StoreType
<1>22. ASSUME NEW p \in Procs, WriteFails(p) PROVE StoreType'
  <2>1. /\ pc[p] \in Writing
        /\ (p \in Runs /\ FailAfterReserve(p)) \/ Rollback(p, "failed")
        /\ UNCHANGED <<ledger, queue, decisions, verdict, decision>>
    BY <1>22 DEF WriteFails, Writing
  <2>2. CASE p \in Runs /\ FailAfterReserve(p)
    <3>1. /\ events' \in Seq(Event) /\ wEvents' \in Seq(Event)
          /\ approvals' \in [Requests -> Row] /\ wApprovals' \in [Requests -> Row]
      <4>1. p \in Runs /\ pc[p] \in Writing /\ FailAfterReserve(p) /\ TypeInv
        BY <2>1, <2>2
      <4>. HIDE DEF store, work, files, local, Goto
      <4>. QED  BY <4>1, FailAfterReserveType, Zenon
    <3>. QED  BY <1>0, <2>1, <3>1 DEF TypeOK, StoreType
  <2>3. CASE Rollback(p, "failed")
    BY <1>0, <2>1, <2>3 DEF Rollback, TypeOK, StoreType
  <2>. QED  BY <2>1, <2>2, <2>3
<1>23. ASSUME NEW p \in Procs, Crash(p) PROVE StoreType'
  BY <1>0, <1>23 DEF Crash, Fault, Rollback, TypeOK, StoreType
<1>24. ASSUME Tick PROVE StoreType'
  BY <1>0, <1>24 DEF Tick, TypeOK, StoreType
<1>. QED  BY <1>1, <1>2, <1>3, <1>4, <1>5, <1>6, <1>7, <1>8, <1>9, <1>10, <1>11, <1>12,
             <1>13, <1>14, <1>15, <1>16, <1>17, <1>18, <1>19, <1>20, <1>21, <1>22, <1>23, <1>24
          DEF Next, RunStep, OperatorStep, ProcStep

LEMMA TypeStep == TypeInv /\ [Next]_vars => TypeInv'
<1>1. ASSUME TypeInv, Next PROVE TypeInv'
  <2>1. StoreType' /\ ControlType' /\ CounterType'
    BY <1>1, StoreTypeStep, ControlTypeStep, CounterTypeStep
  <2>2. TypeOK'
    BY <2>1, Zenon DEF TypeOK, StoreType, ControlType, CounterType
  <2>. QED  BY <1>1, <2>2, LockStep, PendingStep DEF TypeInv
<1>2. ASSUME TypeInv, UNCHANGED vars PROVE TypeInv'
  BY <1>2 DEF TypeInv, TypeOK, LockInv, PendingInv, vars, store, work, files, local
<1>. QED  BY <1>1, <1>2

\* Every reachable state has its type, whatever the numbers of releases,
\* operators, jobs, lines and faults: in particular the row a release is about
\* to log or mark exists, and so does the prior release an approval request
\* names.
THEOREM TypeCorrect == Spec => []TypeOK
<1>1. TypeInv => TypeOK
  BY DEF TypeInv
<1>. QED  BY <1>1, TypeInit, TypeStep, PTL DEF Spec
=============================================================================
