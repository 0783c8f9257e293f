------------------------ MODULE MCPrivacyBudgetRelease ------------------------
(* Releases of four jobs of one scope that may pay for two.                  *)
EXTENDS PrivacyBudgetRelease, TLC

CONSTANTS r1, r2, r3, o1

MCQuery(purpose, start, end) ==
  [scope |-> [caller |-> "c1", purpose |-> purpose], start |-> start, end |-> end,
   bucket |-> "b1", mode |-> "sum", k |-> 10, columns |-> "email"]

\* far is far from base; near overlaps base; again asks what near asks, of
\* other data.
MCQueryOf == [base |-> MCQuery("p1", 0, 4), far |-> MCQuery("p1", 8, 9),
              near |-> MCQuery("p1", 2, 6), again |-> MCQuery("p1", 2, 6)]

\* One window asked for two purposes.
MCTwoPurposes == [base |-> MCQuery("p1", 0, 4), other |-> MCQuery("p2", 0, 4)]

MCRules == <<[caller |-> "c1", purpose |-> "p1", max_queries |-> 2],
             [caller |-> "c1", purpose |-> "*", max_queries |-> 1]>>

Symmetry == Permutations(Runs)

-----------------------------------------------------------------------------
(* What the documentation says and the code does not do.                    *)

\* "Allowed releases reserve/consume budget before final report publication"
\* (docs/REMAINING_WORK_IMPLEMENTATION_BACKLOG.md:242): once the transaction is
\* over, a job whose public report says allow has been charged.
ReportedIsCharged ==
  lock = NoOne =>
    \A j \in Jobs :
      report[j] = "allow" => \E n \in Charges : ledger[n].job = j

\* "Approved near-duplicate releases consume both budget and approval in one
\* transaction" (the same file, line 248): a consumed approval has paid for a
\* release of its query.
ConsumedApprovalPaid ==
  lock = NoOne =>
    \A req \in Requests :
      approvals[req].status = "consumed" =>
        \E n \in Charges :
          Fingerprint(QueryOf[ledger[n].job]) = Fingerprint(QueryOf[req[1]])

\* "If used >= max_queries, the request is denied"
\* (docs/CODE_REVIEW_03_APSI.md:68): a caller gets at most max_queries answers
\* for one window.
AnsweredFor(q) ==
  {r \in Runs : pc[r] = "done" /\ verdict[r].allow /\ SameCallerWindow(q, Query(r))}

RateLimitHolds ==
  \A j \in Jobs : Cardinality(AnsweredFor(QueryOf[j])) <= MaxQueries
=============================================================================
