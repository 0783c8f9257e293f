----------------------------- MODULE PrivacyBudget -----------------------------
(***************************************************************************)
(* What the privacy budget promises, with no process, file or crash in     *)
(* sight: a set of charged releases that grows one release at a time, each *)
(* admitted by the policy against all the releases charged before it.      *)
(***************************************************************************)
EXTENDS PrivacyBudgetPolicy

CONSTANTS Jobs,   \* job ids
          QueryOf \* [Jobs -> query]

\* Bounds are seconds, or missing.
ASSUME QueryAssumption ==
  \A j \in Jobs : {QueryOf[j].start, QueryOf[j].end} \subseteq Nat \cup {NoTime}

VARIABLE charged  \* the releases that have consumed budget

\* approved: the release needed, and used, an operator's approval.
Charge == [job: Jobs, approved: BOOLEAN]

ScopeOf(c) == QueryOf[c.job].scope
ChargedIn(scope) == {c \in charged : ScopeOf(c) = scope}

\* How the charged releases of its scope answer a query.
Answers(q) == {Signal(q, QueryOf[c.job]) : c \in ChargedIn(q.scope)}

HasRoom(q) == Fits(q.scope, Cardinality(ChargedIn(q.scope)) + 1)

Init == charged = {}

\* An unremarkable query: nothing charged before it signals.
Release(j) ==
  LET q == QueryOf[j] IN
  /\ charged' = charged \cup {[job |-> j, approved |-> FALSE]}
  /\ ScopeReason(q.scope) = "ok"
  /\ Answers(q) \subseteq {"ok"}
  /\ HasRoom(q)

\* A near duplicate an operator has approved: never the same query again.
ReleaseApproved(j) ==
  LET q == QueryOf[j] IN
  /\ charged' = charged \cup {[job |-> j, approved |-> TRUE]}
  /\ ScopeReason(q.scope) = "ok"
  /\ "near_duplicate" \in Answers(q)
  /\ "duplicate" \notin Answers(q)
  /\ HasRoom(q)

Next == \E j \in Jobs : Release(j) \/ ReleaseApproved(j)

Spec == Init /\ [][Next]_charged

-----------------------------------------------------------------------------
TypeOK == charged \subseteq Charge

\* No scope ever pays for more than its rule allows, whatever order its
\* releases come in (evaluate_privacy_budget, and main for approved ones).
WithinLimit ==
  \A c \in charged :
    Cost * Cardinality(ChargedIn(ScopeOf(c))) <= ScopeLimit(ScopeOf(c))

\* A query is paid for, hence released, at most once: two charges differ in
\* some field of their fingerprint (privacy_budget_query_fingerprint).
ChargedOnce ==
  \A c, d \in charged :
    Fingerprint(QueryOf[c.job]) = Fingerprint(QueryOf[d.job]) => c = d

\* A window with a missing bound covers every second.
Covers(q, t) == NoTime \in {q.start, q.end} \/ (q.start <= t /\ t < q.end)

\* Two windows that meet do so at the start of one of them.
Meet(q, p) == \E t \in {q.start, p.start} : Covers(q, t) /\ Covers(p, t)

Separate(q, p) ==
  /\ ~Meet(q, p)
  /\ CloseGap > 0 => q.start > p.end + CloseGap \/ p.start > q.end + CloseGap

\* Differencing protection: releases of one bucket whose windows share a
\* second, or come within CloseGap of one another, were not all released
\* without an operator.  Stated over seconds, not over the code's relations.
OverlapNeedsApproval ==
  \A c, d \in charged :
    \/ c = d \/ ScopeOf(c) # ScopeOf(d)
    \/ ~SameBucket(QueryOf[c.job], QueryOf[d.job])
    \/ Separate(QueryOf[c.job], QueryOf[d.job])
    \/ c.approved \/ d.approved

\* Whether two queries may both be released does not depend on which comes
\* first: comparing a query with a charged one answers the same both ways.
SignalSymmetric ==
  \A c \in charged, j \in Jobs :
    Signal(QueryOf[j], QueryOf[c.job]) = Signal(QueryOf[c.job], QueryOf[j])
=============================================================================
