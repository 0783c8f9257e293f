---------------------- MODULE PrivacyBudgetCharge_proofs ----------------------
(***************************************************************************)
(* Proofs about what PrivacyBudgetRelease charges, for any number of       *)
(* releases, operators, jobs, lines and faults: no query is charged twice  *)
(* and no scope beyond its limit.                                          *)
(*                                                                         *)
(* The argument: every transaction replays the ledger file before it       *)
(* decides, so a charging line has a row of its own (ReplayInv); a         *)
(* decision that allows therefore sees all charges (MayCharge), and the    *)
(* lock keeps others from charging until its line is appended (ChargeInv). *)
(***************************************************************************)
EXTENDS PrivacyBudgetRelease_proofs

-----------------------------------------------------------------------------
(* The policy.                                                              *)

\* Every scope has a limit, the one of its first rule or the default.
LEMMA ScopeLimitIsNat ==
  ASSUME NEW s
  PROVE  ScopeLimit(s) \in Nat
<1>1. MatchingRules(s) \subseteq DOMAIN Rules /\ DOMAIN Rules \subseteq Nat
  BY PolicyAssumption DEF MatchingRules
<1>2. CASE MatchingRules(s) = {}
  BY <1>2, PolicyAssumption DEF ScopeLimit
<1>3. CASE MatchingRules(s) # {}
  <2>1. Min(MatchingRules(s)) \in DOMAIN Rules
    BY <1>1, <1>3, MinIsMember
  <2>2. ASSUME NEW i \in DOMAIN Rules
        PROVE  Rules[i].max_queries \in Nat
    <3>. DEFINE Rule == [caller: STRING, purpose: STRING, max_queries: Nat]
    <3>1. Rules \in Seq(Rule)
      BY PolicyAssumption
    <3>. HIDE DEF Rule
    <3>2. Rules[i] \in Rule
      BY <3>1
    <3>. QED  BY <3>2 DEF Rule
  <2>. QED  BY <2>1, <2>2, <1>3, Zenon DEF ScopeLimit
<1>. QED  BY <1>2, <1>3

\* A smaller number of charges fits where a larger one does.
LEMMA FitsDownwards ==
  ASSUME NEW s, NEW m \in Nat, NEW n \in Nat, m <= n, Fits(s, n)
  PROVE  Fits(s, m)
<1>1. Cost * m <= Cost * n /\ Cost * m \in Int /\ Cost * n \in Int
  BY PolicyAssumption
<1>. QED  BY <1>1, ScopeLimitIsNat, PolicyAssumption DEF Fits

\* Only a query that no earlier record resembles is "ok", and only if the
\* scope can still pay for it.
LEMMA OkFits ==
  ASSUME NEW q, NEW prior, DOMAIN prior \subseteq Nat, Evaluate(q, prior) = "ok"
  PROVE  Fits(q.scope, Cardinality(DOMAIN prior) + 1)
<1>1. FlaggedIds(q, prior) = {}
  <2>. SUFFICES ASSUME FlaggedIds(q, prior) # {} PROVE FALSE
    OBVIOUS
  <2>1. MatchedId(q, prior) \in FlaggedIds(q, prior)
    BY MinIsMember DEF MatchedId, FlaggedIds
  <2>2. Signal(q, prior[MatchedId(q, prior)]) # "ok"
    BY <2>1 DEF FlaggedIds
  <2>. QED  BY <2>2 DEF Evaluate
<1>. QED  BY <1>1 DEF Evaluate

-----------------------------------------------------------------------------
(* The inductive invariant.                                                 *)

Replaying == {"replayLedger", "replayQueue", "replayDecisions", "evaluate"}
Replayed == {"replayQueue", "replayDecisions", "evaluate"}
Logged == {"queue", "audit", "decision", "consume", "commit"}

\* Rows that name a ledger line agree with it.
Linked(ev) ==
  \A i \in DOMAIN ev : ev[i].src # 0 =>
    /\ ev[i].src \in DOMAIN ledger
    /\ ledger[ev[i].src].job = ev[i].job
    /\ ledger[ev[i].src].consumed = ev[i].consumed
    /\ ev[i].status = "committed"

\* Rows that count name one.
Settled(ev) == \A i \in DOMAIN ev : Counted(ev[i]) => ev[i].src # 0

StoreInv ==
  /\ Linked(events) /\ Settled(events) /\ Linked(wEvents)
  /\ lock \notin Runs => wEvents = events

\* The replay has put the lines before the cursor into the store.
Found(n) == \E i \in DOMAIN wEvents : wEvents[i].src = n

ReplayInv ==
  \A r \in Runs :
    /\ pc[r] \in Replaying => Settled(wEvents)
    /\ pc[r] = "replayLedger" => \A n \in Charges : n < cursor => Found(n)
    /\ pc[r] \in Replayed => \A n \in Charges : Found(n)

\* The only unsettled row is that of the release being written; once its
\* ledger line is appended that line is the last one, and no row names it yet.
WriteInv ==
  \A r \in Runs : pc[r] \in Writing =>
    /\ \A i \in DOMAIN wEvents :
         Counted(wEvents[i]) /\ wEvents[i].src = 0 => i = verdict[r].event
    /\ verdict[r].event # 0 =>
         /\ wEvents[verdict[r].event].src = 0
         /\ pc[r] \in Logged =>
              /\ Len(ledger) # 0
              /\ ledger[Len(ledger)].job = wEvents[verdict[r].event].job
              /\ ledger[Len(ledger)].consumed = wEvents[verdict[r].event].consumed

\* Charging job j would break neither of the properties below.
MayCharge(j) ==
  /\ \A n \in Charges : Fingerprint(QueryOf[ledger[n].job]) # Fingerprint(QueryOf[j])
  /\ Fits(Scope(j), Cardinality(ChargesOf(Scope(j))) + 1)

\* A decided release may be charged until its ledger line is appended.
AboutToCharge(r, j) ==
  /\ pc[r] \in {"publish", "ledger"}
  /\ verdict[r].event # 0
  /\ wEvents[verdict[r].event].consumed
  /\ wEvents[verdict[r].event].job = j

ChargeInv == \A r \in Runs, j \in Jobs : AboutToCharge(r, j) => MayCharge(j)

Inv ==
  /\ TypeInv /\ StoreInv /\ ReplayInv /\ WriteInv /\ ChargeInv
  /\ ChargedOnce /\ BudgetWithinLimit

-----------------------------------------------------------------------------
(* What the replay finds.                                                   *)

\* A charging line the replay has found is a row that counts, of its job.
LEMMA FoundCounts ==
  ASSUME TypeOK, StoreInv, NEW n \in Charges, Found(n)
  PROVE  \E i \in DOMAIN wEvents :
           wEvents[i].src = n /\ Counted(wEvents[i]) /\ wEvents[i].job = ledger[n].job
<1>1. PICK i \in DOMAIN wEvents : wEvents[i].src = n
  BY DEF Found
<1>2. n # 0
  BY DEF Charges, TypeOK
<1>. QED  BY <1>1, <1>2 DEF StoreInv, Linked, Charges, Counted

\* After the replay the store counts at least as many releases of a scope as
\* the ledger charges it for.
LEMMA ChargesAreCounted ==
  ASSUME TypeOK, StoreInv, \A n \in Charges : Found(n), NEW s
  PROVE  /\ IsFiniteSet(ChargesOf(s)) /\ IsFiniteSet(CountedIds(wEvents, s))
         /\ Cardinality(ChargesOf(s)) <= Cardinality(CountedIds(wEvents, s))
<1>. DEFINE S == ChargesOf(s)
            T == CountedIds(wEvents, s)
            Names(i, n) == i \in T /\ wEvents[i].src = n
            f == [n \in S |-> CHOOSE i : Names(i, n)]
<1>1. IsFiniteSet(S)
  <2>1. S \in SUBSET (1..Len(ledger)) /\ IsFiniteSet(1..Len(ledger))
    BY FS_Interval DEF TypeOK, ChargesOf, Charges
  <2>. HIDE DEF S, T
  <2>. QED  BY <2>1, FS_Subset
<1>2. IsFiniteSet(T)
  <2>1. T \in SUBSET (1..Len(wEvents)) /\ IsFiniteSet(1..Len(wEvents))
    BY FS_Interval DEF TypeOK, CountedIds
  <2>. HIDE DEF S, T
  <2>. QED  BY <2>1, FS_Subset
<1>3. ASSUME NEW n \in S PROVE f[n] \in T /\ wEvents[f[n]].src = n
  <2>1. \E i : Names(i, n)
    <3>1. n \in Charges /\ Scope(ledger[n].job) = s
      BY DEF ChargesOf
    <3>. QED  BY <3>1, FoundCounts DEF CountedIds
  <2>. QED  BY <2>1
<1>4. ASSUME NEW m \in S, NEW n \in S, f[m] = f[n] PROVE m = n
  BY <1>3, <1>4
<1>5. f \in [S -> T]
  BY <1>3
<1>6. Cardinality(S) \in Nat /\ Cardinality(T) \in Nat
  BY <1>1, <1>2, FS_CardinalityType
<1>7. ~(Cardinality(T) < Cardinality(S))
  <2>. HIDE DEF S, T, f
  <2>. QED  BY <1>1, <1>2, <1>4, <1>5, FS_PigeonHole
<1>. QED  BY <1>1, <1>2, <1>6, <1>7

\* A decision made after the replay sees all charges: what the unique index
\* admits and the budget has room for may be charged.
LEMMA RoomToCharge ==
  ASSUME TypeOK, StoreInv, \A n \in Charges : Found(n), NEW j \in Jobs,
         ~UniqueConflict(wEvents, j),
         Fits(Scope(j), Cardinality(CountedIds(wEvents, Scope(j))) + 1)
  PROVE  MayCharge(j)
<1>1. ASSUME NEW n \in Charges
      PROVE  Fingerprint(QueryOf[ledger[n].job]) # Fingerprint(QueryOf[j])
  BY FoundCounts DEF UniqueConflict
<1>2. Fits(Scope(j), Cardinality(ChargesOf(Scope(j))) + 1)
  <2>. DEFINE m == Cardinality(ChargesOf(Scope(j))) 
              n == Cardinality(CountedIds(wEvents, Scope(j)))
  <2>1. m \in Nat /\ n \in Nat /\ m <= n
    BY ChargesAreCounted, FS_CardinalityType
  <2>. HIDE DEF m, n
  <2>2. m + 1 \in Nat /\ n + 1 \in Nat /\ m + 1 <= n + 1
    BY <2>1
  <2>3. Fits(Scope(j), n + 1)
    BY DEF n
  <2>4. Fits(Scope(j), m + 1)
    BY <2>2, <2>3, FitsDownwards
  <2>. QED  BY <2>4 DEF m
<1>. QED  BY <1>1, <1>2 DEF MayCharge

\* Both kinds of decision leave that room.
LEMMA DecideHasRoom ==
  ASSUME TypeOK, NEW r \in Runs, BudgetReason(r) = "ok"
  PROVE  Fits(Scope(job[r]), Cardinality(CountedIds(wEvents, Scope(job[r]))) + 1)
<1>1. DOMAIN BudgetPrior(r) = CountedIds(wEvents, Scope(job[r]))
  BY DEF BudgetPrior, Prior, Query, Scope
<1>2. CountedIds(wEvents, Scope(job[r])) \subseteq Nat
  BY DEF CountedIds, TypeOK
<1>. QED  BY <1>1, <1>2, OkFits DEF BudgetReason, Query, Scope

LEMMA UsableHasRoom ==
  ASSUME NEW r \in Runs, NEW req, Usable(r, req)
  PROVE  Fits(Scope(job[r]), Cardinality(CountedIds(wEvents, Scope(job[r]))) + 1)
BY DEF Usable, BudgetPrior, Prior, Query, Scope

-----------------------------------------------------------------------------
(* What one step does to the rows.                                          *)

\* Importing a line keeps the rows there are, with their numbers.
LEMMA ImportKeeps ==
  ASSUME TypeOK, NEW n \in DOMAIN ledger, NEW i \in DOMAIN wEvents
  PROVE  i \in DOMAIN ImportLine(wEvents, n) /\ ImportLine(wEvents, n)[i] = wEvents[i]
BY DEF TypeOK, ImportLine

\* ... adds at most a row that agrees with the line ...
LEMMA ImportLinked ==
  ASSUME TypeOK, Linked(wEvents), NEW n \in DOMAIN ledger
  PROVE  Linked(ImportLine(wEvents, n))
BY DEF TypeOK, ImportLine, Linked

LEMMA ImportSettled ==
  ASSUME TypeOK, Settled(wEvents), NEW n \in DOMAIN ledger
  PROVE  Settled(ImportLine(wEvents, n))
<1>1. n # 0
  BY DEF TypeOK
<1>. QED  BY <1>1 DEF TypeOK, ImportLine, Settled, Counted

\* ... and if it adds none for a charging line, that line has one already.
LEMMA ImportFinds ==
  ASSUME TypeOK, StoreInv, Settled(wEvents), ChargedOnce, NEW n \in Charges
  PROVE  \E i \in DOMAIN ImportLine(wEvents, n) : ImportLine(wEvents, n)[i].src = n
<1>0. n \in DOMAIN ledger /\ ledger[n].consumed
  BY DEF Charges
<1>1. CASE \E i \in DOMAIN wEvents : wEvents[i].src = n
  BY <1>0, <1>1, ImportKeeps
<1>2. CASE UniqueConflict(wEvents, ledger[n].job)
  <2>1. PICK i \in DOMAIN wEvents :
          /\ Counted(wEvents[i])
          /\ Fingerprint(QueryOf[wEvents[i].job]) = Fingerprint(QueryOf[ledger[n].job])
    BY <1>2 DEF UniqueConflict
  <2>2. wEvents[i].src # 0
    BY <2>1 DEF Settled
  <2>3. wEvents[i].src \in Charges /\ ledger[wEvents[i].src].job = wEvents[i].job
    BY <2>1, <2>2 DEF StoreInv, Linked, Charges, Counted
  <2>4. wEvents[i].src = n
    BY <2>1, <2>3 DEF ChargedOnce
  <2>. QED  BY <1>1, <2>4
<1>3. CASE /\ ~(\E i \in DOMAIN wEvents : wEvents[i].src = n)
           /\ ~UniqueConflict(wEvents, ledger[n].job)
  <2>. DEFINE row == [job |-> ledger[n].job, consumed |-> ledger[n].consumed,
                      flagged |-> ledger[n].flagged, status |-> "committed", src |-> n]
  <2>1. ImportLine(wEvents, n) = Append(wEvents, row)
    BY <1>3 DEF ImportLine
  <2>2. row.src = n
    OBVIOUS
  <2>3. row \in Event
    <3>1. ledger[n] \in Line /\ n \in Nat
      BY <1>0 DEF TypeOK
    <3>. QED  BY <3>1 DEF Line, Event
  <2>. HIDE DEF row
  <2>4. /\ Len(wEvents) + 1 \in DOMAIN Append(wEvents, row)
        /\ Append(wEvents, row)[Len(wEvents) + 1] = row
    BY <2>3 DEF TypeOK
  <2>. QED  BY <2>1, <2>2, <2>4
<1>. QED  BY <1>1, <1>2, <1>3

LEMMA FoundLater ==
  ASSUME NEW n, \E i \in DOMAIN wEvents' : wEvents'[i].src = n
  PROVE  Found(n)'
BY DEF Found

\* Recording a failure leaves no row that counts without its line.
LEMMA FailStore ==
  ASSUME TypeOK, StoreInv, WriteInv, NEW r \in Runs, pc[r] \in Writing,
         FailAfterReserve(r), UNCHANGED ledger
  PROVE  StoreInv'
<1>. DEFINE e == verdict[r].event
<1>1. CASE e = 0
  BY <1>1 DEF FailAfterReserve, Rollback, store, StoreInv, Linked, Settled
<1>2. CASE e # 0
  <2>. DEFINE ev == [wEvents EXCEPT ![e].status = "failed_after_reserve"]
  <2>1. events' = ev /\ wEvents' = ev
    BY <1>2 DEF FailAfterReserve, Publishes
  <2>2. \A i \in DOMAIN wEvents : Counted(wEvents[i]) /\ wEvents[i].src = 0 => i = e
    BY DEF WriteInv
  <2>3. wEvents[e].src = 0
    BY <1>2 DEF WriteInv
  <2>4. DOMAIN ev = DOMAIN wEvents /\ \A i \in DOMAIN wEvents : i # e => ev[i] = wEvents[i]
    BY DEF TypeOK
  <2>5. e \in DOMAIN wEvents => ev[e].src = 0 /\ ~Counted(ev[e])
    <3>1. \A i \in DOMAIN wEvents : wEvents[i] \in Event
      BY DEF TypeOK
    <3>. QED  BY <2>3, <3>1 DEF TypeOK, Counted, Event
  <2>. HIDE DEF ev, e
  <2>6. Linked(ev)
    BY <2>4, <2>5 DEF StoreInv, Linked
  <2>7. Settled(ev)
    BY <2>2, <2>4, <2>5 DEF Settled
  <2>. QED  BY <2>1, <2>6, <2>7 DEF StoreInv, Linked, Settled
<1>. QED  BY <1>1, <1>2

\* Committing names the line in the one row that had none.
LEMMA MarkSettles ==
  ASSUME TypeOK, StoreInv, WriteInv, NEW r \in Runs, pc[r] = "commit"
  PROVE  Linked(MarkCommitted(r)) /\ Settled(MarkCommitted(r))
<1>. DEFINE e == verdict[r].event
            ev == MarkCommitted(r)
<1>0. \A i \in DOMAIN wEvents : Counted(wEvents[i]) /\ wEvents[i].src = 0 => i = e
  BY DEF WriteInv, Writing
<1>1. CASE e = 0
  BY <1>0, <1>1 DEF TypeOK, StoreInv, Linked, Settled, MarkCommitted
<1>2. CASE e # 0
  <2>1. /\ Len(ledger) # 0
        /\ ledger[Len(ledger)].job = wEvents[e].job
        /\ ledger[Len(ledger)].consumed = wEvents[e].consumed
    BY <1>2 DEF WriteInv, Writing, Logged
  <2>2. Len(ledger) \in DOMAIN ledger
    BY <2>1 DEF TypeOK
  <2>3. DOMAIN ev = DOMAIN wEvents /\ \A i \in DOMAIN wEvents : i # e => ev[i] = wEvents[i]
    BY <1>2 DEF TypeOK, MarkCommitted
  <2>4. e \in DOMAIN wEvents =>
          /\ ev[e].src = Len(ledger) /\ ev[e].status = "committed"
          /\ ev[e].job = wEvents[e].job /\ ev[e].consumed = wEvents[e].consumed
    <3>. SUFFICES ASSUME e \in DOMAIN wEvents
                  PROVE  /\ ev[e].src = Len(ledger) /\ ev[e].status = "committed"
                         /\ ev[e].job = wEvents[e].job /\ ev[e].consumed = wEvents[e].consumed
      OBVIOUS
    <3>1. wEvents[e] \in Event
      BY DEF TypeOK
    <3>2. ev[e] = [wEvents[e] EXCEPT !.status = "committed", !.src = Len(ledger)]
      BY <1>2 DEF TypeOK, MarkCommitted
    <3>. HIDE DEF ev, e
    <3>. QED  BY <3>1, <3>2 DEF Event
  <2>. HIDE DEF ev, e
  <2>5. Linked(ev)
    BY <2>1, <2>2, <2>3, <2>4 DEF StoreInv, Linked
  <2>6. Settled(ev)
    BY <1>0, <2>1, <2>3, <2>4 DEF Settled
  <2>. QED  BY <2>5, <2>6 DEF ev
<1>. QED  BY <1>1, <1>2

\* Once the transaction has ended nobody is inside one.
LEMMA Leaving ==
  ASSUME TypeOK, LockInv, NEW p \in Procs, pc[p] \in InTransaction, NEW l \in Ended,
         pc' = [pc EXCEPT ![p] = l]
  PROVE  ReplayInv' /\ WriteInv' /\ ChargeInv'
<1>1. \A x \in Runs : pc'[x] \notin InTransaction
  BY DEF TypeOK, LockInv, InTransaction, Ended, Procs
<1>. QED  BY <1>1
          DEF ReplayInv, WriteInv, ChargeInv, AboutToCharge, InTransaction, Replaying,
              Replayed, Writing

-----------------------------------------------------------------------------
(* The decision, and the release it leaves about to be charged.             *)

LEMMA DecideMayCharge ==
  ASSUME TypeOK, StoreInv, ReplayInv, NEW r \in Runs, Decide(r),
         BudgetReason(r) = "ok" /\ job[r] \in Passing
  PROVE  MayCharge(job[r])
<1>1. \A n \in Charges : Found(n)
  BY DEF Decide, ReplayInv, Replayed
<1>2. ~UniqueConflict(wEvents, job[r])
  BY DEF Decide
<1>3. job[r] \in Jobs
  BY DEF TypeOK
<1>. QED  BY <1>1, <1>2, <1>3, DecideHasRoom, RoomToCharge

LEMMA DecideApprovedMayCharge ==
  ASSUME TypeOK, StoreInv, ReplayInv, NEW r \in Runs, NEW req \in Requests,
         DecideApproved(r, req), job[r] \in Passing
  PROVE  MayCharge(job[r])
<1>1. \A n \in Charges : Found(n)
  BY DEF DecideApproved, ReplayInv, Replayed
<1>2. ~UniqueConflict(wEvents, job[r]) /\ Usable(r, req)
  BY DEF DecideApproved
<1>3. job[r] \in Jobs
  BY DEF TypeOK
<1>. QED  BY <1>1, <1>2, <1>3, UsableHasRoom, RoomToCharge

\* Whether a release may be charged depends on the ledger file alone.
LEMMA MayChargeFrame ==
  ASSUME NEW j, UNCHANGED ledger
  PROVE  MayCharge(j)' <=> MayCharge(j)
BY DEF MayCharge, Charges, ChargesOf

\* The new row is the last one.
LEMMA InsertedRow ==
  ASSUME TypeOK, NEW r \in Runs, NEW consumed \in BOOLEAN, NEW flagged \in BOOLEAN,
         InsertEvent(r, consumed, flagged)
  PROVE  LET e == Len(wEvents) + 1 IN
         /\ DOMAIN wEvents' = DOMAIN wEvents \cup {e}
         /\ \A i \in DOMAIN wEvents : i # e /\ wEvents'[i] = wEvents[i]
         /\ wEvents'[e].src = 0 /\ wEvents'[e].job = job[r]
         /\ wEvents'[e].consumed = consumed
<1>. DEFINE row == [job |-> job[r], consumed |-> consumed, flagged |-> flagged,
                    status |-> IF consumed THEN "reserved" ELSE "committed", src |-> 0]
<1>1. row \in Event
  BY DEF TypeOK, Event
<1>2. wEvents' = Append(wEvents, row)
  BY DEF InsertEvent
<1>3. row.src = 0 /\ row.job = job[r] /\ row.consumed = consumed
  OBVIOUS
<1>. HIDE DEF row
<1>. QED  BY <1>1, <1>2, <1>3 DEF TypeOK

\* It is the only unsettled one.
LEMMA DecidedWrites ==
  ASSUME TypeOK, LockInv, ReplayInv, WriteInv, NEW r \in Runs,
         NEW consumed \in BOOLEAN, NEW flagged \in BOOLEAN, InsertEvent(r, consumed, flagged),
         pc[r] = "evaluate", pc' = [pc EXCEPT ![r] = "publish"],
         verdict' = [verdict EXCEPT ![r] = verdict'[r]],
         verdict'[r].event = Len(wEvents) + 1, UNCHANGED ledger
  PROVE  WriteInv'
<1>1. \A x \in Runs : pc'[x] \in Writing => x = r
  BY DEF TypeOK, LockInv, InTransaction, Writing, Procs
<1>2. Settled(wEvents)
  BY DEF ReplayInv, Replaying
<1>3. pc'[r] \notin Logged
  BY DEF TypeOK, Logged, Procs
<1>. DEFINE e == Len(wEvents) + 1
<1>4. /\ DOMAIN wEvents' = DOMAIN wEvents \cup {e}
      /\ \A i \in DOMAIN wEvents : i # e /\ wEvents'[i] = wEvents[i]
      /\ wEvents'[e].src = 0
  BY InsertedRow
<1>. HIDE DEF e
<1>5. \A i \in DOMAIN wEvents' : Counted(wEvents'[i]) /\ wEvents'[i].src = 0 => i = e
  BY <1>2, <1>4 DEF Settled
<1>6. verdict'[r].event = e
  BY DEF e
<1>. QED  BY <1>1, <1>3, <1>4, <1>5, <1>6 DEF WriteInv

\* It is the only one about to be charged.
LEMMA DecidedCharges ==
  ASSUME TypeOK, LockInv, NEW r \in Runs,
         NEW consumed \in BOOLEAN, NEW flagged \in BOOLEAN, InsertEvent(r, consumed, flagged),
         consumed => MayCharge(job[r]),
         pc[r] = "evaluate", pc' = [pc EXCEPT ![r] = "publish"],
         verdict'[r].event = Len(wEvents) + 1, UNCHANGED ledger
  PROVE  ChargeInv'
<1>. SUFFICES ASSUME NEW x \in Runs, NEW j \in Jobs, AboutToCharge(x, j)'
              PROVE  MayCharge(j)
  BY MayChargeFrame DEF ChargeInv
<1>1. x = r
  BY DEF AboutToCharge, TypeOK, LockInv, InTransaction, Procs
<1>2. wEvents'[verdict'[r].event].consumed = consumed /\ wEvents'[verdict'[r].event].job = job[r]
  BY InsertedRow
<1>. QED  BY <1>1, <1>2 DEF AboutToCharge

\* A ledger line is appended only for the row being written.
LEMMA LedgerGrows ==
  ASSUME TypeInv, NEW r \in Runs, AppendLedger(r)
  PROVE  LET e == wEvents[verdict[r].event] IN
         /\ e \in Event /\ Len(ledger) + 1 \notin DOMAIN ledger
         /\ DOMAIN ledger' = DOMAIN ledger \cup {Len(ledger) + 1}
         /\ \A n \in DOMAIN ledger : ledger'[n] = ledger[n]
         /\ ledger'[Len(ledger) + 1].job = e.job
         /\ ledger'[Len(ledger) + 1].consumed = e.consumed
<1>. DEFINE e == wEvents[verdict[r].event]
            line == [job |-> e.job, consumed |-> e.consumed, flagged |-> e.flagged]
<1>1. e \in Event
  BY DEF TypeInv, TypeOK, PendingInv, AppendLedger, Writing
<1>2. line \in Line /\ line.job = e.job /\ line.consumed = e.consumed
  BY <1>1 DEF Event, Line
<1>3. ledger' = Append(ledger, line) /\ ledger \in Seq(Line)
  BY DEF AppendLedger, TypeInv, TypeOK
<1>. HIDE DEF line, e
<1>4. /\ Len(ledger) + 1 \notin DOMAIN ledger
      /\ DOMAIN ledger' = DOMAIN ledger \cup {Len(ledger) + 1}
      /\ \A n \in DOMAIN ledger : ledger'[n] = ledger[n]
      /\ ledger'[Len(ledger) + 1] = line
  BY <1>2, <1>3
<1>. QED  BY <1>1, <1>2, <1>4 DEF e

LEMMA ChargesGrow ==
  ASSUME TypeInv, NEW r \in Runs, AppendLedger(r)
  PROVE  LET e == wEvents[verdict[r].event] IN
         /\ Charges' = IF e.consumed THEN Charges \cup {Len(ledger) + 1} ELSE Charges
         /\ \A n \in Charges : ledger'[n] = ledger[n]
         /\ \A s : ChargesOf(s)' = IF e.consumed /\ Scope(e.job) = s
                                   THEN ChargesOf(s) \cup {Len(ledger) + 1} ELSE ChargesOf(s)
<1>1. Charges' = IF wEvents[verdict[r].event].consumed THEN Charges \cup {Len(ledger) + 1} ELSE Charges
  BY LedgerGrows DEF Charges
<1>2. \A n \in Charges : ledger'[n] = ledger[n]
  BY LedgerGrows DEF Charges
<1>. QED  BY <1>1, <1>2, LedgerGrows DEF ChargesOf

LEMMA LedgerFrame ==
  ASSUME Next, \A r \in Runs : ~AppendLedger(r)
  PROVE  UNCHANGED ledger
BY DEF Next, RunStep, OperatorStep, ProcStep, files, Admit, DenyUnauthenticated, AuditDenial,
       ReplayLedger, DenyEarly, Decide, DecideApproved, DecisionRaises, Publish, AppendQueue,
       AppendAudit, Consume, Transition, TransitionRaises, BeginImmediate, BusyTimeout,
       ReplayQueue, ReplayDecisions, AppendDecision, Commit, WriteFails, Crash, Tick

LEMMA ChargedOnceStep == Inv /\ Next => ChargedOnce'
<1>. SUFFICES ASSUME Inv, Next PROVE ChargedOnce'
  OBVIOUS
<1>1. CASE \A r \in Runs : ~AppendLedger(r)
  BY <1>1, LedgerFrame DEF Inv, ChargedOnce, Charges
<1>2. ASSUME NEW r \in Runs, AppendLedger(r) PROVE ChargedOnce'
  <2>. DEFINE e == wEvents[verdict[r].event]
              new == Len(ledger) + 1
  <2>1. /\ Charges' = IF e.consumed THEN Charges \cup {new} ELSE Charges
        /\ \A n \in Charges : ledger'[n] = ledger[n]
        /\ ledger'[new].job = e.job /\ e.job \in Jobs
    BY <1>2, ChargesGrow, LedgerGrows DEF Inv, Event
  <2>2. e.consumed => MayCharge(e.job)
    BY <1>2, <2>1 DEF Inv, ChargeInv, AboutToCharge, AppendLedger, TypeInv, PendingInv
  <2>3. e.consumed => \A n \in Charges :
          Fingerprint(QueryOf[ledger[n].job]) # Fingerprint(QueryOf[e.job])
    BY <2>2 DEF MayCharge
  <2>. HIDE DEF e, new
  <2>. QED  BY <2>1, <2>3 DEF Inv, ChargedOnce
<1>. QED  BY <1>1, <1>2

LEMMA BudgetStep == Inv /\ Next => BudgetWithinLimit'
<1>. SUFFICES ASSUME Inv, Next PROVE BudgetWithinLimit'
  OBVIOUS
<1>1. CASE \A r \in Runs : ~AppendLedger(r)
  BY <1>1, LedgerFrame DEF Inv, BudgetWithinLimit, ChargesOf, Charges
<1>2. ASSUME NEW r \in Runs, AppendLedger(r), NEW s \in Scopes
      PROVE  Cost * Cardinality(ChargesOf(s)') <= ScopeLimit(s)
  <2>. DEFINE e == wEvents[verdict[r].event]
              new == Len(ledger) + 1
  <2>1. CASE ~(e.consumed /\ Scope(e.job) = s)
    <3>1. ChargesOf(s)' = ChargesOf(s)
      BY <1>2, <2>1, ChargesGrow DEF Inv
    <3>. QED  BY <3>1 DEF Inv, BudgetWithinLimit
  <2>2. CASE e.consumed /\ Scope(e.job) = s
    <3>1. ChargesOf(s)' = ChargesOf(s) \cup {new} /\ e.job \in Jobs
      BY <1>2, <2>2, ChargesGrow, LedgerGrows DEF Inv, Event
    <3>2. new \notin ChargesOf(s)
      BY <1>2, LedgerGrows DEF Inv, ChargesOf, Charges
    <3>3. MayCharge(e.job)
      BY <1>2, <2>2, <3>1 DEF Inv, ChargeInv, AboutToCharge, AppendLedger, TypeInv, PendingInv
    <3>4. Cost * (Cardinality(ChargesOf(s)) + 1) <= ScopeLimit(s)
      BY <2>2, <3>3 DEF MayCharge, Fits
    <3>5. IsFiniteSet(ChargesOf(s))
      <4>1. ChargesOf(s) \in SUBSET (1..Len(ledger)) /\ IsFiniteSet(1..Len(ledger))
        BY FS_Interval DEF Inv, TypeInv, TypeOK, ChargesOf, Charges
      <4>. QED  BY <4>1, FS_Subset
    <3>6. Cardinality(ChargesOf(s) \cup {new}) = Cardinality(ChargesOf(s)) + 1
      BY <3>2, <3>5, FS_AddElement
    <3>. QED  BY <3>1, <3>4, <3>6
  <2>. QED  BY <2>1, <2>2
<1>. QED  BY <1>1, <1>2 DEF BudgetWithinLimit

-----------------------------------------------------------------------------
(* The invariant is kept, one step per action.                              *)

\* Rows keep agreeing with the lines they name.
LEMMA StoreStep == Inv /\ Next => StoreInv'
<1>. SUFFICES ASSUME Inv, Next PROVE StoreInv'
  OBVIOUS
<1>. USE DEF store, work, files, local, Goto
<1>0. TypeOK /\ LockInv /\ PendingInv /\ StoreInv /\ ReplayInv /\ WriteInv /\ ChargeInv
  BY DEF Inv, TypeInv
<1>1. ASSUME NEW r \in Runs, Admit(r) PROVE StoreInv'
  BY <1>0, <1>1
    DEF Admit, TypeOK, LockInv, InTransaction, Procs, StoreInv, Linked, Settled
<1>2. ASSUME NEW r \in Runs, DenyUnauthenticated(r) PROVE StoreInv'
  BY <1>0, <1>2
    DEF DenyUnauthenticated, TypeOK, LockInv, InTransaction, Procs, StoreInv, Linked,
        Settled
<1>3. ASSUME NEW r \in Runs, AuditDenial(r) PROVE StoreInv'
  BY <1>0, <1>3
    DEF AuditDenial, TypeOK, LockInv, InTransaction, Procs, StoreInv, Linked,
        Settled
<1>4. ASSUME NEW r \in Runs, ReplayLedger(r) PROVE StoreInv'
  <2>1. CASE cursor \in DOMAIN ledger
    <3>1. Linked(wEvents)'
      BY <1>0, <1>4, <2>1, ImportLinked DEF ReplayLedger, TypeOK, StoreInv, Linked
    <3>. QED  BY <1>0, <1>4, <3>1 DEF ReplayLedger, StoreInv, Linked, Settled
  <2>2. CASE cursor \notin DOMAIN ledger
    BY <1>0, <1>4, <2>2 DEF ReplayLedger, StoreInv, Linked, Settled
  <2>. QED  BY <2>1, <2>2
<1>5. ASSUME NEW r \in Runs, DenyEarly(r) PROVE StoreInv'
  BY <1>0, <1>5
    DEF DenyEarly, TypeOK, LockInv, InTransaction, Procs, StoreInv, Linked, Settled
<1>6. ASSUME NEW r \in Runs, Decide(r) PROVE StoreInv'
  BY <1>0, <1>6
    DEF Decide, InsertEvent, TypeOK, LockInv, InTransaction, Procs, StoreInv, Linked,
        Settled
<1>7. ASSUME NEW r \in Runs, NEW req \in Requests, DecideApproved(r, req) PROVE StoreInv'
  <2>1. lock = r
    BY <1>0, <1>7 DEF DecideApproved, LockInv, InTransaction, Procs
  <2>2. /\ InsertEvent(r, job[r] \in Passing, TRUE)
        /\ UNCHANGED <<events, ledger, lock>>
    BY <1>7 DEF DecideApproved
  <2>. QED  BY <1>0, <2>1, <2>2 DEF InsertEvent, TypeOK, StoreInv, Linked, Settled
<1>8. ASSUME NEW r \in Runs, DecisionRaises(r) PROVE StoreInv'
  BY <1>0, <1>8
    DEF DecisionRaises, Rollback, TypeOK, LockInv, InTransaction, Procs, StoreInv,
        Linked, Settled
<1>9. ASSUME NEW r \in Runs, Publish(r) PROVE StoreInv'
  BY <1>0, <1>9
    DEF Publish, TypeOK, LockInv, InTransaction, Procs, StoreInv, Linked, Settled
<1>10. ASSUME NEW r \in Runs, AppendLedger(r) PROVE StoreInv'
  BY <1>0, <1>10
    DEF AppendLedger, TypeOK, LockInv, InTransaction, Procs, StoreInv, Linked,
        Settled
<1>11. ASSUME NEW r \in Runs, AppendQueue(r) PROVE StoreInv'
  BY <1>0, <1>11
    DEF AppendQueue, TypeOK, LockInv, InTransaction, Procs, StoreInv, Linked,
        Settled
<1>12. ASSUME NEW r \in Runs, AppendAudit(r) PROVE StoreInv'
  BY <1>0, <1>12
    DEF AppendAudit, TypeOK, LockInv, InTransaction, Procs, StoreInv, Linked,
        Settled
<1>13. ASSUME NEW r \in Runs, Consume(r) PROVE StoreInv'
  <2>1. CASE UNCHANGED <<events, wEvents, lock, ledger>>
    BY <1>0, <2>1 DEF StoreInv, Linked, Settled
  <2>2. CASE FailAfterReserve(r)
    BY <1>0, <1>13, <2>2, FailStore DEF Consume, Writing, StoreInv, Linked, Settled
  <2>. QED  BY <1>13, <2>1, <2>2 DEF Consume
<1>14. ASSUME NEW o \in Operators, Transition(o) PROVE StoreInv'
  BY <1>0, <1>14
    DEF Transition, TypeOK, LockInv, InTransaction, Procs, StoreInv, Linked, Settled
<1>15. ASSUME NEW o \in Operators, TransitionRaises(o) PROVE StoreInv'
  BY <1>0, <1>15
    DEF TransitionRaises, Rollback, TypeOK, LockInv, InTransaction, Procs, StoreInv,
        Linked, Settled
<1>16. ASSUME NEW p \in Procs, BeginImmediate(p) PROVE StoreInv'
  BY <1>0, <1>16, ReleaseAssumption
    DEF BeginImmediate, WriteLockFree, TypeOK, LockInv, InTransaction, Procs,
        StoreInv, Linked, Settled
<1>17. ASSUME NEW p \in Procs, BusyTimeout(p) PROVE StoreInv'
  BY <1>0, <1>17
    DEF BusyTimeout, TypeOK, LockInv, InTransaction, Procs, StoreInv, Linked,
        Settled
<1>18. ASSUME NEW p \in Procs, ReplayQueue(p) PROVE StoreInv'
  BY <1>0, <1>18
    DEF ReplayQueue, TypeOK, LockInv, InTransaction, Procs, StoreInv, Linked,
        Settled
<1>19. ASSUME NEW p \in Procs, ReplayDecisions(p) PROVE StoreInv'
  BY <1>0, <1>19
    DEF ReplayDecisions, TypeOK, LockInv, InTransaction, Procs, StoreInv, Linked,
        Settled
<1>20. ASSUME NEW p \in Procs, AppendDecision(p) PROVE StoreInv'
  BY <1>0, <1>20
    DEF AppendDecision, TypeOK, LockInv, InTransaction, Procs, StoreInv, Linked,
        Settled
<1>21. ASSUME NEW p \in Procs, Commit(p) PROVE StoreInv'
  <2>1. /\ pc[p] = "commit" /\ UNCHANGED ledger
        /\ Publishes(p, IF p \in Runs THEN MarkCommitted(p) ELSE wEvents)
    BY <1>21 DEF Commit
  <2>2. CASE p \in Runs
    <3>1. Linked(MarkCommitted(p)) /\ Settled(MarkCommitted(p))
      BY <1>0, <2>1, <2>2, MarkSettles
    <3>2. events' = MarkCommitted(p) /\ wEvents' = MarkCommitted(p)
      BY <2>1, <2>2 DEF Publishes
    <3>. HIDE DEF MarkCommitted
    <3>. QED  BY <2>1, <3>1, <3>2 DEF StoreInv, Linked, Settled
  <2>3. CASE p \notin Runs
    <3>1. lock = p
      BY <1>0, <2>1 DEF LockInv, InTransaction
    <3>. QED  BY <1>0, <2>1, <2>3, <3>1 DEF Publishes, StoreInv, Linked, Settled
  <2>. QED  BY <2>2, <2>3
<1>22. ASSUME NEW p \in Procs, WriteFails(p) PROVE StoreInv'
  <2>1. CASE p \in Runs
    BY <1>0, <1>22, <2>1, FailStore DEF WriteFails, Writing
  <2>2. CASE p \notin Runs
    BY <1>0, <1>22, <2>2 DEF WriteFails, Rollback, StoreInv, Linked, Settled
  <2>. QED  BY <2>1, <2>2
<1>23. ASSUME NEW p \in Procs, Crash(p) PROVE StoreInv'
  BY <1>0, <1>23
    DEF Crash, Rollback, Ended, TypeOK, LockInv, InTransaction, Procs, StoreInv,
        Linked, Settled
<1>24. ASSUME Tick PROVE StoreInv'
  BY <1>0, <1>24
    DEF Tick, TypeOK, LockInv, InTransaction, Procs, StoreInv, Linked, Settled
<1>. QED  BY <1>1, <1>2, <1>3, <1>4, <1>5, <1>6, <1>7, <1>8, <1>9, <1>10, <1>11, <1>12,
             <1>13, <1>14, <1>15, <1>16, <1>17, <1>18, <1>19, <1>20, <1>21, <1>22, <1>23, <1>24
          DEF Next, RunStep, OperatorStep, ProcStep

\* The replay leaves no charging line behind.
LEMMA ReplayStep == Inv /\ Next => ReplayInv'
<1>. SUFFICES ASSUME Inv, Next PROVE ReplayInv'
  OBVIOUS
<1>. USE DEF store, work, files, local, Goto
<1>0. TypeOK /\ LockInv /\ PendingInv /\ StoreInv /\ ReplayInv /\ WriteInv /\ ChargeInv
  BY DEF Inv, TypeInv
<1>1. ASSUME NEW r \in Runs, Admit(r) PROVE ReplayInv'
  BY <1>0, <1>1
    DEF Admit, TypeOK, LockInv, InTransaction, Procs, StoreInv, ReplayInv, Settled,
        Found, Charges, Replaying, Replayed
<1>2. ASSUME NEW r \in Runs, DenyUnauthenticated(r) PROVE ReplayInv'
  BY <1>0, <1>2
    DEF DenyUnauthenticated, TypeOK, LockInv, InTransaction, Procs, StoreInv,
        ReplayInv, Settled, Found, Charges, Replaying, Replayed
<1>3. ASSUME NEW r \in Runs, AuditDenial(r) PROVE ReplayInv'
  BY <1>0, <1>3
    DEF AuditDenial, TypeOK, LockInv, InTransaction, Procs, StoreInv, ReplayInv,
        Settled, Found, Charges, Replaying, Replayed
<1>4. ASSUME NEW r \in Runs, ReplayLedger(r) PROVE ReplayInv'
  <2>. SUFFICES ASSUME NEW x \in Runs
                PROVE  /\ pc'[x] \in Replaying => Settled(wEvents)'
                       /\ pc'[x] = "replayLedger" => \A n \in Charges' : n < cursor' => Found(n)'
                       /\ pc'[x] \in Replayed => \A n \in Charges' : Found(n)'
    BY DEF ReplayInv
  <2>1. UNCHANGED ledger /\ Charges' = Charges
    BY <1>4 DEF ReplayLedger, Charges
  <2>2. CASE x # r
    BY <1>0, <1>4, <2>2, ReleaseAssumption
       DEF ReplayLedger, TypeOK, LockInv, InTransaction, Replaying, Replayed, Procs
  <2>3. CASE x = r /\ cursor \in DOMAIN ledger
    <3>1. /\ pc[r] = "replayLedger" /\ wEvents' = ImportLine(wEvents, cursor)
          /\ cursor' = cursor + 1 /\ pc' = pc
      BY <1>4, <2>3 DEF ReplayLedger
    <3>2. Settled(wEvents) /\ \A n \in Charges : n < cursor => Found(n)
      BY <1>0, <3>1 DEF ReplayInv, Replaying
    <3>3. Settled(wEvents)'
      BY <1>0, <2>3, <3>1, <3>2, ImportSettled DEF Settled
    <3>4. \A n : Found(n) => Found(n)'
      BY <1>0, <2>3, <3>1, ImportKeeps DEF Found
    <3>5. ASSUME NEW n \in Charges, n = cursor PROVE Found(n)'
      <4>1. \E i \in DOMAIN ImportLine(wEvents, n) : ImportLine(wEvents, n)[i].src = n
        BY <1>0, <3>2, ImportFinds DEF Inv
      <4>2. ImportLine(wEvents, n) = wEvents'
        BY <3>1, <3>5
      <4>3. \E i \in DOMAIN wEvents' : wEvents'[i].src = n
        BY <4>1, <4>2
      <4>. QED  BY <4>3, FoundLater
    <3>6. \A n \in Charges : n < cursor + 1 => n < cursor \/ n = cursor
      BY <1>0 DEF TypeOK, Charges
    <3>. QED  BY <2>1, <2>3, <3>1, <3>2, <3>3, <3>4, <3>5, <3>6 DEF Replayed
  <2>4. CASE x = r /\ cursor \notin DOMAIN ledger
    <3>1. /\ pc[r] = "replayLedger" /\ UNCHANGED wEvents
          /\ pc' = [pc EXCEPT ![r] = "replayQueue"]
      BY <1>4, <2>4 DEF ReplayLedger
    <3>2. Settled(wEvents) /\ \A n \in Charges : n < cursor => Found(n)
      BY <1>0, <3>1 DEF ReplayInv, Replaying
    <3>3. \A n \in Charges : n < cursor
      BY <1>0, <2>4 DEF TypeOK, Charges
    <3>4. pc'[r] = "replayQueue"
      BY <1>0, <3>1 DEF TypeOK, Procs
    <3>. QED  BY <2>1, <2>4, <3>1, <3>2, <3>3, <3>4 DEF Settled, Found
  <2>. QED  BY <2>2, <2>3, <2>4
<1>5. ASSUME NEW r \in Runs, DenyEarly(r) PROVE ReplayInv'
  BY <1>0, <1>5
    DEF DenyEarly, TypeOK, LockInv, InTransaction, Procs, StoreInv, ReplayInv,
        Settled, Found, Charges, Replaying, Replayed
<1>6. ASSUME NEW r \in Runs, Decide(r) PROVE ReplayInv'
  BY <1>0, <1>6
    DEF Decide, InsertEvent, TypeOK, LockInv, InTransaction, Procs, StoreInv,
        ReplayInv, Settled, Found, Charges, Replaying, Replayed
<1>7. ASSUME NEW r \in Runs, NEW req \in Requests, DecideApproved(r, req) PROVE ReplayInv'
  BY <1>0, <1>7
    DEF DecideApproved, InsertEvent, TypeOK, LockInv, InTransaction, Procs, StoreInv,
        ReplayInv, Settled, Found, Charges, Replaying, Replayed
<1>8. ASSUME NEW r \in Runs, DecisionRaises(r) PROVE ReplayInv'
  BY <1>0, <1>8
    DEF DecisionRaises, Rollback, TypeOK, LockInv, InTransaction, Procs, StoreInv,
        ReplayInv, Settled, Found, Charges, Replaying, Replayed
<1>9. ASSUME NEW r \in Runs, Publish(r) PROVE ReplayInv'
  BY <1>0, <1>9
    DEF Publish, TypeOK, LockInv, InTransaction, Procs, StoreInv, ReplayInv, Settled,
        Found, Charges, Replaying, Replayed
<1>10. ASSUME NEW r \in Runs, AppendLedger(r) PROVE ReplayInv'
  BY <1>0, <1>10
    DEF AppendLedger, TypeOK, LockInv, InTransaction, Procs, StoreInv, ReplayInv,
        Settled, Found, Charges, Replaying, Replayed
<1>11. ASSUME NEW r \in Runs, AppendQueue(r) PROVE ReplayInv'
  BY <1>0, <1>11
    DEF AppendQueue, TypeOK, LockInv, InTransaction, Procs, StoreInv, ReplayInv,
        Settled, Found, Charges, Replaying, Replayed
<1>12. ASSUME NEW r \in Runs, AppendAudit(r) PROVE ReplayInv'
  BY <1>0, <1>12
    DEF AppendAudit, TypeOK, LockInv, InTransaction, Procs, StoreInv, ReplayInv,
        Settled, Found, Charges, Replaying, Replayed
<1>13. ASSUME NEW r \in Runs, Consume(r) PROVE ReplayInv'
  <2>1. CASE pc' = [pc EXCEPT ![r] = "commit"] /\ UNCHANGED <<wEvents, ledger, cursor, verdict>>
    BY <1>0, <1>13, <2>1 DEF Consume, TypeOK, ReplayInv, Procs, Settled, Found, Charges, Replaying, Replayed
  <2>2. CASE FailAfterReserve(r)
    <3>1. pc' = [pc EXCEPT ![r] = "failed"] /\ r \in Procs /\ pc[r] \in InTransaction
      BY <1>13, <2>2 DEF Consume, FailAfterReserve, Rollback, InTransaction, Procs
    <3>. QED  BY <1>0, <3>1, Leaving DEF Ended
  <2>. QED  BY <1>13, <2>1, <2>2 DEF Consume
<1>14. ASSUME NEW o \in Operators, Transition(o) PROVE ReplayInv'
  BY <1>0, <1>14
    DEF Transition, TypeOK, LockInv, InTransaction, Procs, StoreInv, ReplayInv,
        Settled, Found, Charges, Replaying, Replayed
<1>15. ASSUME NEW o \in Operators, TransitionRaises(o) PROVE ReplayInv'
  BY <1>0, <1>15
    DEF TransitionRaises, Rollback, TypeOK, LockInv, InTransaction, Procs, StoreInv,
        ReplayInv, Settled, Found, Charges, Replaying, Replayed
<1>16. ASSUME NEW p \in Procs, BeginImmediate(p) PROVE ReplayInv'
  BY <1>0, <1>16, ReleaseAssumption
    DEF BeginImmediate, WriteLockFree, TypeOK, LockInv, InTransaction, Procs,
        StoreInv, ReplayInv, Settled, Found, Charges, Replaying, Replayed
<1>17. ASSUME NEW p \in Procs, BusyTimeout(p) PROVE ReplayInv'
  BY <1>0, <1>17
    DEF BusyTimeout, TypeOK, LockInv, InTransaction, Procs, StoreInv, ReplayInv,
        Settled, Found, Charges, Replaying, Replayed
<1>18. ASSUME NEW p \in Procs, ReplayQueue(p) PROVE ReplayInv'
  BY <1>0, <1>18
    DEF ReplayQueue, TypeOK, LockInv, InTransaction, Procs, StoreInv, ReplayInv,
        Settled, Found, Charges, Replaying, Replayed
<1>19. ASSUME NEW p \in Procs, ReplayDecisions(p) PROVE ReplayInv'
  BY <1>0, <1>19
    DEF ReplayDecisions, TypeOK, LockInv, InTransaction, Procs, StoreInv, ReplayInv,
        Settled, Found, Charges, Replaying, Replayed
<1>20. ASSUME NEW p \in Procs, AppendDecision(p) PROVE ReplayInv'
  BY <1>0, <1>20
    DEF AppendDecision, TypeOK, LockInv, InTransaction, Procs, StoreInv, ReplayInv,
        Settled, Found, Charges, Replaying, Replayed
<1>21. ASSUME NEW p \in Procs, Commit(p) PROVE ReplayInv'
  BY <1>0, <1>21
    DEF Commit, Publishes, MarkCommitted, TypeOK, LockInv, InTransaction, Procs,
        StoreInv, ReplayInv, Settled, Found, Charges, Replaying, Replayed
<1>22. ASSUME NEW p \in Procs, WriteFails(p) PROVE ReplayInv'
  <2>1. pc' = [pc EXCEPT ![p] = "failed"] /\ pc[p] \in InTransaction
    BY <1>22 DEF WriteFails, FailAfterReserve, Rollback, InTransaction
  <2>. QED  BY <1>0, <2>1, Leaving DEF Ended
<1>23. ASSUME NEW p \in Procs, Crash(p) PROVE ReplayInv'
  <2>1. CASE pc[p] \in InTransaction
    BY <1>0, <1>23, <2>1, Leaving DEF Crash, Rollback, LockInv, Ended
  <2>2. CASE pc[p] \notin InTransaction
    <3>1. /\ pc' = [pc EXCEPT ![p] = "crashed"]
          /\ UNCHANGED <<wEvents, ledger, cursor, verdict>>
      BY <1>0, <1>23, <2>2 DEF Crash, LockInv
    <3>. QED  BY <1>0, <3>1 DEF TypeOK, ReplayInv, Procs, Settled, Found, Charges, Replaying, Replayed
  <2>. QED  BY <2>1, <2>2
<1>24. ASSUME Tick PROVE ReplayInv'
  BY <1>0, <1>24
    DEF Tick, TypeOK, LockInv, InTransaction, Procs, StoreInv, ReplayInv, Settled,
        Found, Charges, Replaying, Replayed
<1>. QED  BY <1>1, <1>2, <1>3, <1>4, <1>5, <1>6, <1>7, <1>8, <1>9, <1>10, <1>11, <1>12,
             <1>13, <1>14, <1>15, <1>16, <1>17, <1>18, <1>19, <1>20, <1>21, <1>22, <1>23, <1>24
          DEF Next, RunStep, OperatorStep, ProcStep

\* The row being written stays the only unsettled one, and its line the last.
LEMMA WriteStep == Inv /\ Next => WriteInv'
<1>. SUFFICES ASSUME Inv, Next PROVE WriteInv'
  OBVIOUS
<1>. USE DEF store, work, files, local, Goto
<1>0. TypeOK /\ LockInv /\ PendingInv /\ StoreInv /\ ReplayInv /\ WriteInv /\ ChargeInv
  BY DEF Inv, TypeInv
<1>1. ASSUME NEW r \in Runs, Admit(r) PROVE WriteInv'
  BY <1>0, <1>1
    DEF Admit, TypeOK, LockInv, PendingInv, InTransaction, Procs, WriteInv,
        ReplayInv, Writing, Logged
<1>2. ASSUME NEW r \in Runs, DenyUnauthenticated(r) PROVE WriteInv'
  BY <1>0, <1>2
    DEF DenyUnauthenticated, TypeOK, LockInv, PendingInv, InTransaction, Procs,
        WriteInv, ReplayInv, Writing, Logged
<1>3. ASSUME NEW r \in Runs, AuditDenial(r) PROVE WriteInv'
  BY <1>0, <1>3
    DEF AuditDenial, TypeOK, LockInv, PendingInv, InTransaction, Procs, WriteInv,
        ReplayInv, Writing, Logged
<1>4. ASSUME NEW r \in Runs, ReplayLedger(r) PROVE WriteInv'
  BY <1>0, <1>4
    DEF ReplayLedger, TypeOK, LockInv, PendingInv, InTransaction, Procs, WriteInv,
        ReplayInv, Writing, Logged
<1>5. ASSUME NEW r \in Runs, DenyEarly(r) PROVE WriteInv'
  <2>1. /\ pc[r] = "evaluate" /\ pc' = [pc EXCEPT ![r] = "publish"]
        /\ UNCHANGED <<wEvents, ledger, verdict>>
    BY <1>5 DEF DenyEarly
  <2>2. verdict[r].event = 0 /\ Settled(wEvents)
    BY <1>0, <2>1 DEF PendingInv, Before, ReplayInv, Replaying
  <2>. QED  BY <1>0, <2>1, <2>2
            DEF TypeOK, LockInv, InTransaction, Procs, WriteInv, Writing, Logged, Settled
<1>6. ASSUME NEW r \in Runs, Decide(r) PROVE WriteInv'
  <2>. DEFINE allow == BudgetReason(r) = "ok" /\ job[r] \in Passing
              flagged == BudgetReason(r) \notin {"ok", "missing_scope"}
  <2>1. /\ pc[r] = "evaluate" /\ pc' = [pc EXCEPT ![r] = "publish"]
        /\ InsertEvent(r, allow, flagged)
        /\ verdict' = [verdict EXCEPT ![r] = verdict'[r]]
        /\ verdict'[r].event = Len(wEvents) + 1
        /\ UNCHANGED ledger
    BY <1>0, <1>6 DEF Decide, TypeOK
  <2>3. allow \in BOOLEAN /\ flagged \in BOOLEAN
    OBVIOUS
  <2>. HIDE DEF allow, flagged
  <2>. QED  BY <1>0, <2>1, <2>3, DecidedWrites
<1>7. ASSUME NEW r \in Runs, NEW req \in Requests, DecideApproved(r, req) PROVE WriteInv'
  <2>. DEFINE allow == job[r] \in Passing
              flagged == TRUE
  <2>1. /\ pc[r] = "evaluate" /\ pc' = [pc EXCEPT ![r] = "publish"]
        /\ InsertEvent(r, allow, flagged)
        /\ verdict' = [verdict EXCEPT ![r] = verdict'[r]]
        /\ verdict'[r].event = Len(wEvents) + 1
        /\ UNCHANGED ledger
    BY <1>0, <1>7 DEF DecideApproved, TypeOK
  <2>3. allow \in BOOLEAN /\ flagged \in BOOLEAN
    OBVIOUS
  <2>. HIDE DEF allow, flagged
  <2>. QED  BY <1>0, <2>1, <2>3, DecidedWrites
<1>8. ASSUME NEW r \in Runs, DecisionRaises(r) PROVE WriteInv'
  BY <1>0, <1>8
    DEF DecisionRaises, Rollback, TypeOK, LockInv, PendingInv, InTransaction, Procs,
        WriteInv, ReplayInv, Writing, Logged
<1>9. ASSUME NEW r \in Runs, Publish(r) PROVE WriteInv'
  BY <1>0, <1>9
    DEF Publish, TypeOK, LockInv, PendingInv, InTransaction, Procs, WriteInv,
        ReplayInv, Writing, Logged
<1>10. ASSUME NEW r \in Runs, AppendLedger(r) PROVE WriteInv'
  BY <1>0, <1>10
    DEF AppendLedger, TypeOK, LockInv, PendingInv, InTransaction, Procs, WriteInv,
        ReplayInv, Writing, Logged
<1>11. ASSUME NEW r \in Runs, AppendQueue(r) PROVE WriteInv'
  BY <1>0, <1>11
    DEF AppendQueue, TypeOK, LockInv, PendingInv, InTransaction, Procs, WriteInv,
        ReplayInv, Writing, Logged
<1>12. ASSUME NEW r \in Runs, AppendAudit(r) PROVE WriteInv'
  BY <1>0, <1>12
    DEF AppendAudit, TypeOK, LockInv, PendingInv, InTransaction, Procs, WriteInv,
        ReplayInv, Writing, Logged
<1>13. ASSUME NEW r \in Runs, Consume(r) PROVE WriteInv'
  <2>1. CASE pc' = [pc EXCEPT ![r] = "commit"] /\ UNCHANGED <<wEvents, ledger, cursor, verdict>>
    BY <1>0, <1>13, <2>1 DEF Consume, TypeOK, LockInv, InTransaction, Procs, WriteInv, Writing, Logged
  <2>2. CASE FailAfterReserve(r)
    <3>1. pc' = [pc EXCEPT ![r] = "failed"] /\ r \in Procs /\ pc[r] \in InTransaction
      BY <1>13, <2>2 DEF Consume, FailAfterReserve, Rollback, InTransaction, Procs
    <3>. QED  BY <1>0, <3>1, Leaving DEF Ended
  <2>. QED  BY <1>13, <2>1, <2>2 DEF Consume
<1>14. ASSUME NEW o \in Operators, Transition(o) PROVE WriteInv'
  BY <1>0, <1>14, ReleaseAssumption
    DEF Transition, TypeOK, LockInv, PendingInv, InTransaction, Procs, WriteInv,
        ReplayInv, Writing, Logged
<1>15. ASSUME NEW o \in Operators, TransitionRaises(o) PROVE WriteInv'
  BY <1>0, <1>15
    DEF TransitionRaises, Rollback, TypeOK, LockInv, PendingInv, InTransaction,
        Procs, WriteInv, ReplayInv, Writing, Logged
<1>16. ASSUME NEW p \in Procs, BeginImmediate(p) PROVE WriteInv'
  BY <1>0, <1>16
    DEF BeginImmediate, WriteLockFree, TypeOK, LockInv, PendingInv, InTransaction,
        Procs, WriteInv, ReplayInv, Writing, Logged
<1>17. ASSUME NEW p \in Procs, BusyTimeout(p) PROVE WriteInv'
  BY <1>0, <1>17
    DEF BusyTimeout, TypeOK, LockInv, PendingInv, InTransaction, Procs, WriteInv,
        ReplayInv, Writing, Logged
<1>18. ASSUME NEW p \in Procs, ReplayQueue(p) PROVE WriteInv'
  BY <1>0, <1>18
    DEF ReplayQueue, TypeOK, LockInv, PendingInv, InTransaction, Procs, WriteInv,
        ReplayInv, Writing, Logged
<1>19. ASSUME NEW p \in Procs, ReplayDecisions(p) PROVE WriteInv'
  BY <1>0, <1>19
    DEF ReplayDecisions, TypeOK, LockInv, PendingInv, InTransaction, Procs, WriteInv,
        ReplayInv, Writing, Logged
<1>20. ASSUME NEW p \in Procs, AppendDecision(p) PROVE WriteInv'
  BY <1>0, <1>20
    DEF AppendDecision, TypeOK, LockInv, PendingInv, InTransaction, Procs, WriteInv,
        ReplayInv, Writing, Logged
<1>21. ASSUME NEW p \in Procs, Commit(p) PROVE WriteInv'
  BY <1>0, <1>21
    DEF Commit, Publishes, MarkCommitted, TypeOK, LockInv, PendingInv, InTransaction,
        Procs, WriteInv, ReplayInv, Writing, Logged
<1>22. ASSUME NEW p \in Procs, WriteFails(p) PROVE WriteInv'
  <2>1. pc' = [pc EXCEPT ![p] = "failed"] /\ pc[p] \in InTransaction
    BY <1>22 DEF WriteFails, FailAfterReserve, Rollback, InTransaction
  <2>. QED  BY <1>0, <2>1, Leaving DEF Ended
<1>23. ASSUME NEW p \in Procs, Crash(p) PROVE WriteInv'
  <2>1. CASE pc[p] \in InTransaction
    BY <1>0, <1>23, <2>1, Leaving DEF Crash, Rollback, LockInv, Ended
  <2>2. CASE pc[p] \notin InTransaction
    <3>1. /\ pc' = [pc EXCEPT ![p] = "crashed"]
          /\ UNCHANGED <<wEvents, ledger, cursor, verdict>>
      BY <1>0, <1>23, <2>2 DEF Crash, LockInv
    <3>. QED  BY <1>0, <3>1 DEF TypeOK, Procs, WriteInv, Writing, Logged
  <2>. QED  BY <2>1, <2>2
<1>24. ASSUME Tick PROVE WriteInv'
  BY <1>0, <1>24
    DEF Tick, TypeOK, LockInv, PendingInv, InTransaction, Procs, WriteInv, ReplayInv,
        Writing, Logged
<1>. QED  BY <1>1, <1>2, <1>3, <1>4, <1>5, <1>6, <1>7, <1>8, <1>9, <1>10, <1>11, <1>12,
             <1>13, <1>14, <1>15, <1>16, <1>17, <1>18, <1>19, <1>20, <1>21, <1>22, <1>23, <1>24
          DEF Next, RunStep, OperatorStep, ProcStep

\* Nobody charges anything between a decision and the append of its line.
LEMMA ChargeStep == Inv /\ Next => ChargeInv'
<1>. SUFFICES ASSUME Inv, Next PROVE ChargeInv'
  OBVIOUS
<1>. USE DEF store, work, files, local, Goto
<1>0. TypeOK /\ LockInv /\ PendingInv /\ StoreInv /\ ReplayInv /\ WriteInv /\ ChargeInv
  BY DEF Inv, TypeInv
<1>1. ASSUME NEW r \in Runs, Admit(r) PROVE ChargeInv'
  BY <1>0, <1>1, MayChargeFrame
    DEF Admit, TypeOK, LockInv, PendingInv, InTransaction, Procs, ChargeInv,
        AboutToCharge, Writing
<1>2. ASSUME NEW r \in Runs, DenyUnauthenticated(r) PROVE ChargeInv'
  BY <1>0, <1>2, MayChargeFrame
    DEF DenyUnauthenticated, TypeOK, LockInv, PendingInv, InTransaction, Procs,
        ChargeInv, AboutToCharge, Writing
<1>3. ASSUME NEW r \in Runs, AuditDenial(r) PROVE ChargeInv'
  BY <1>0, <1>3, MayChargeFrame
    DEF AuditDenial, TypeOK, LockInv, PendingInv, InTransaction, Procs, ChargeInv,
        AboutToCharge, Writing
<1>4. ASSUME NEW r \in Runs, ReplayLedger(r) PROVE ChargeInv'
  BY <1>0, <1>4, MayChargeFrame
    DEF ReplayLedger, TypeOK, LockInv, PendingInv, InTransaction, Procs, ChargeInv,
        AboutToCharge, Writing
<1>5. ASSUME NEW r \in Runs, DenyEarly(r) PROVE ChargeInv'
  <2>1. /\ pc[r] = "evaluate" /\ pc' = [pc EXCEPT ![r] = "publish"]
        /\ UNCHANGED <<wEvents, ledger, verdict>>
    BY <1>5 DEF DenyEarly
  <2>2. verdict[r].event = 0
    BY <1>0, <2>1 DEF PendingInv, Before
  <2>. QED  BY <1>0, <2>1, <2>2, MayChargeFrame DEF TypeOK, Procs, ChargeInv, AboutToCharge
<1>6. ASSUME NEW r \in Runs, Decide(r) PROVE ChargeInv'
  <2>. DEFINE allow == BudgetReason(r) = "ok" /\ job[r] \in Passing
              flagged == BudgetReason(r) \notin {"ok", "missing_scope"}
  <2>1. /\ pc[r] = "evaluate" /\ pc' = [pc EXCEPT ![r] = "publish"]
        /\ InsertEvent(r, allow, flagged)
        /\ verdict' = [verdict EXCEPT ![r] = verdict'[r]]
        /\ verdict'[r].event = Len(wEvents) + 1
        /\ UNCHANGED ledger
    BY <1>0, <1>6 DEF Decide, TypeOK
  <2>2. allow => MayCharge(job[r])
    BY <1>0, <1>6, DecideMayCharge
  <2>3. allow \in BOOLEAN /\ flagged \in BOOLEAN
    OBVIOUS
  <2>. HIDE DEF allow, flagged
  <2>. QED  BY <1>0, <2>1, <2>2, <2>3, DecidedCharges
<1>7. ASSUME NEW r \in Runs, NEW req \in Requests, DecideApproved(r, req) PROVE ChargeInv'
  <2>. DEFINE allow == job[r] \in Passing
              flagged == TRUE
  <2>1. /\ pc[r] = "evaluate" /\ pc' = [pc EXCEPT ![r] = "publish"]
        /\ InsertEvent(r, allow, flagged)
        /\ verdict' = [verdict EXCEPT ![r] = verdict'[r]]
        /\ verdict'[r].event = Len(wEvents) + 1
        /\ UNCHANGED ledger
    BY <1>0, <1>7 DEF DecideApproved, TypeOK
  <2>2. allow => MayCharge(job[r])
    BY <1>0, <1>7, DecideApprovedMayCharge
  <2>3. allow \in BOOLEAN /\ flagged \in BOOLEAN
    OBVIOUS
  <2>. HIDE DEF allow, flagged
  <2>. QED  BY <1>0, <2>1, <2>2, <2>3, DecidedCharges
<1>8. ASSUME NEW r \in Runs, DecisionRaises(r) PROVE ChargeInv'
  BY <1>0, <1>8, MayChargeFrame
    DEF DecisionRaises, Rollback, TypeOK, LockInv, PendingInv, InTransaction, Procs,
        ChargeInv, AboutToCharge, Writing
<1>9. ASSUME NEW r \in Runs, Publish(r) PROVE ChargeInv'
  BY <1>0, <1>9, MayChargeFrame
    DEF Publish, TypeOK, LockInv, PendingInv, InTransaction, Procs, ChargeInv,
        AboutToCharge, Writing
<1>10. ASSUME NEW r \in Runs, AppendLedger(r) PROVE ChargeInv'
  BY <1>0, <1>10, MayChargeFrame
    DEF AppendLedger, TypeOK, LockInv, PendingInv, InTransaction, Procs, ChargeInv,
        AboutToCharge, Writing
<1>11. ASSUME NEW r \in Runs, AppendQueue(r) PROVE ChargeInv'
  BY <1>0, <1>11, MayChargeFrame
    DEF AppendQueue, TypeOK, LockInv, PendingInv, InTransaction, Procs, ChargeInv,
        AboutToCharge, Writing
<1>12. ASSUME NEW r \in Runs, AppendAudit(r) PROVE ChargeInv'
  BY <1>0, <1>12, MayChargeFrame
    DEF AppendAudit, TypeOK, LockInv, PendingInv, InTransaction, Procs, ChargeInv,
        AboutToCharge, Writing
<1>13. ASSUME NEW r \in Runs, Consume(r) PROVE ChargeInv'
  <2>1. CASE pc' = [pc EXCEPT ![r] = "commit"] /\ UNCHANGED <<wEvents, ledger, verdict>>
    BY <1>0, <1>13, <2>1, MayChargeFrame DEF Consume, TypeOK, Procs, ChargeInv, AboutToCharge
  <2>2. CASE FailAfterReserve(r)
    <3>1. pc' = [pc EXCEPT ![r] = "failed"] /\ r \in Procs /\ pc[r] \in InTransaction
      BY <1>13, <2>2 DEF Consume, FailAfterReserve, Rollback, InTransaction, Procs
    <3>. QED  BY <1>0, <3>1, Leaving DEF Ended
  <2>. QED  BY <1>13, <2>1, <2>2 DEF Consume
<1>14. ASSUME NEW o \in Operators, Transition(o) PROVE ChargeInv'
  BY <1>0, <1>14, MayChargeFrame
    DEF Transition, TypeOK, LockInv, PendingInv, InTransaction, Procs, ChargeInv,
        AboutToCharge, Writing
<1>15. ASSUME NEW o \in Operators, TransitionRaises(o) PROVE ChargeInv'
  BY <1>0, <1>15, MayChargeFrame
    DEF TransitionRaises, Rollback, TypeOK, LockInv, PendingInv, InTransaction,
        Procs, ChargeInv, AboutToCharge, Writing
<1>16. ASSUME NEW p \in Procs, BeginImmediate(p) PROVE ChargeInv'
  BY <1>0, <1>16, MayChargeFrame
    DEF BeginImmediate, WriteLockFree, TypeOK, LockInv, PendingInv, InTransaction,
        Procs, ChargeInv, AboutToCharge, Writing
<1>17. ASSUME NEW p \in Procs, BusyTimeout(p) PROVE ChargeInv'
  BY <1>0, <1>17, MayChargeFrame
    DEF BusyTimeout, TypeOK, LockInv, PendingInv, InTransaction, Procs, ChargeInv,
        AboutToCharge, Writing
<1>18. ASSUME NEW p \in Procs, ReplayQueue(p) PROVE ChargeInv'
  BY <1>0, <1>18, MayChargeFrame
    DEF ReplayQueue, TypeOK, LockInv, PendingInv, InTransaction, Procs, ChargeInv,
        AboutToCharge, Writing
<1>19. ASSUME NEW p \in Procs, ReplayDecisions(p) PROVE ChargeInv'
  BY <1>0, <1>19, MayChargeFrame
    DEF ReplayDecisions, TypeOK, LockInv, PendingInv, InTransaction, Procs,
        ChargeInv, AboutToCharge, Writing
<1>20. ASSUME NEW p \in Procs, AppendDecision(p) PROVE ChargeInv'
  BY <1>0, <1>20, MayChargeFrame
    DEF AppendDecision, TypeOK, LockInv, PendingInv, InTransaction, Procs, ChargeInv,
        AboutToCharge, Writing
<1>21. ASSUME NEW p \in Procs, Commit(p) PROVE ChargeInv'
  BY <1>0, <1>21, MayChargeFrame
    DEF Commit, Publishes, MarkCommitted, TypeOK, LockInv, PendingInv, InTransaction,
        Procs, ChargeInv, AboutToCharge, Writing
<1>22. ASSUME NEW p \in Procs, WriteFails(p) PROVE ChargeInv'
  <2>1. pc' = [pc EXCEPT ![p] = "failed"] /\ pc[p] \in InTransaction
    BY <1>22 DEF WriteFails, FailAfterReserve, Rollback, InTransaction
  <2>. QED  BY <1>0, <2>1, Leaving DEF Ended
<1>23. ASSUME NEW p \in Procs, Crash(p) PROVE ChargeInv'
  <2>1. CASE pc[p] \in InTransaction
    BY <1>0, <1>23, <2>1, Leaving DEF Crash, Rollback, LockInv, Ended
  <2>2. CASE pc[p] \notin InTransaction
    <3>1. /\ pc' = [pc EXCEPT ![p] = "crashed"]
          /\ UNCHANGED <<wEvents, ledger, verdict>>
      BY <1>0, <1>23, <2>2 DEF Crash, LockInv
    <3>. QED  BY <1>0, <3>1, MayChargeFrame DEF TypeOK, Procs, ChargeInv, AboutToCharge
  <2>. QED  BY <2>1, <2>2
<1>24. ASSUME Tick PROVE ChargeInv'
  BY <1>0, <1>24, MayChargeFrame
    DEF Tick, TypeOK, LockInv, PendingInv, InTransaction, Procs, ChargeInv,
        AboutToCharge, Writing
<1>. QED  BY <1>1, <1>2, <1>3, <1>4, <1>5, <1>6, <1>7, <1>8, <1>9, <1>10, <1>11, <1>12,
             <1>13, <1>14, <1>15, <1>16, <1>17, <1>18, <1>19, <1>20, <1>21, <1>22, <1>23, <1>24
          DEF Next, RunStep, OperatorStep, ProcStep

-----------------------------------------------------------------------------
(* The theorems.                                                            *)

LEMMA InvInit == Init => Inv
<1>. SUFFICES ASSUME Init PROVE Inv
  OBVIOUS
<1>1. TypeInv
  BY TypeInit
<1>2. events = <<>> /\ wEvents = <<>> /\ ledger = <<>>
  BY DEF Init
<1>3. \A r \in Runs : pc[r] = "start"
  BY DEF Init, Procs
<1>4. Charges = {} /\ \A s : ChargesOf(s) = {}
  BY <1>2 DEF Charges, ChargesOf
<1>5. BudgetWithinLimit
  <2>1. \A s : Cardinality(ChargesOf(s)) = 0
    BY <1>4, FS_EmptySet
  <2>2. Cost * 0 = 0
    BY PolicyAssumption
  <2>. QED  BY <2>1, <2>2, ScopeLimitIsNat DEF BudgetWithinLimit
<1>6. StoreInv /\ ChargedOnce
  BY <1>2, <1>4 DEF StoreInv, Linked, Settled, ChargedOnce
<1>7. ReplayInv /\ WriteInv /\ ChargeInv
  BY <1>3 DEF ReplayInv, Replaying, Replayed, WriteInv, Writing, ChargeInv, AboutToCharge
<1>. QED  BY <1>1, <1>5, <1>6, <1>7 DEF Inv

LEMMA InvStep == Inv /\ [Next]_vars => Inv'
<1>1. ASSUME Inv, Next PROVE Inv'
  <2>1. TypeInv'
    BY <1>1, TypeStep DEF Inv
  <2>. QED  BY <1>1, <2>1, StoreStep, ReplayStep, WriteStep, ChargeStep, ChargedOnceStep,
               BudgetStep
            DEF Inv
<1>2. ASSUME Inv, UNCHANGED vars PROVE Inv'
  <2>1. TypeInv'
    BY <1>2, TypeStep DEF Inv
  <2>2. StoreInv' /\ ReplayInv' /\ WriteInv'
    BY <1>2 DEF Inv, vars, store, work, files, local, StoreInv, Linked, Settled, ReplayInv,
                Found, Charges, WriteInv
  <2>3. ChargeInv'
    BY <1>2, MayChargeFrame DEF Inv, vars, work, files, local, ChargeInv, AboutToCharge
  <2>4. ChargedOnce' /\ BudgetWithinLimit'
    BY <1>2 DEF Inv, vars, files, ChargedOnce, BudgetWithinLimit, Charges, ChargesOf
  <2>. QED  BY <2>1, <2>2, <2>3, <2>4 DEF Inv
<1>. QED  BY <1>1, <1>2

\* No query is charged twice, by however many concurrent, crashed and repeated
\* releases: the unique index over the rows is a unique index over the ledger
\* file, because every transaction first imports the lines that have no row.
THEOREM ChargedOnceHolds == Spec => []ChargedOnce
<1>1. Inv => ChargedOnce
  BY DEF Inv
<1>. QED  BY <1>1, InvInit, InvStep, PTL DEF Spec

\* No scope is charged beyond the limit of the rule that governs it: the rows
\* evaluate_privacy_budget counts are never fewer than the charges in the ledger
\* file, and nobody else charges between the count and the append.
THEOREM BudgetWithinLimitHolds == Spec => []BudgetWithinLimit
<1>1. Inv => BudgetWithinLimit
  BY DEF Inv
<1>. QED  BY <1>1, InvInit, InvStep, PTL DEF Spec
=============================================================================
