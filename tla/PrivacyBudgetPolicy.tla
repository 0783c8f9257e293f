------------------------- MODULE PrivacyBudgetPolicy -------------------------
(***************************************************************************)
(* The decision procedure of the privacy budget: how policy_release.py     *)
(* compares a query with the releases its scope has already paid for, and  *)
(* what it answers.  Pure operators; the state machines that call them are *)
(* PrivacyBudget (abstract) and PrivacyBudgetRelease (detailed).           *)
(*                                                                         *)
(* Times are seconds, abstracted to naturals; a bound the job metadata     *)
(* does not give is NoTime.  A SHA-256 over canonical JSON is modelled as  *)
(* the tuple it hashes, which is what an injective digest distinguishes.   *)
(***************************************************************************)
EXTENDS Integers, Sequences, FiniteSetsExt

CONSTANTS
  Rules,        \* privacy_budget_config/v1 "scopes": <<[caller, purpose, max_queries]>>
  DefaultMax,   \* ... its "default": max_queries
  CloseGap,     \* near_duplicate_window_seconds, 0 turns the check off
  RoundSeconds, \* near_duplicate_window_round_seconds
  RoundStep,    \* near_duplicate_threshold_round_step
  Cost          \* --privacy-budget-cost, the same for every release

ASSUME PolicyAssumption ==
  /\ Rules \in Seq([caller: STRING, purpose: STRING, max_queries: Nat])
  /\ DefaultMax \in Nat
  /\ CloseGap \in Nat
  /\ RoundSeconds \in Nat \ {0}
  /\ RoundStep \in Nat \ {0}
  /\ Cost \in Nat \ {0}

NoTime == -1
Wildcard == "*"

-----------------------------------------------------------------------------
(* Scope resolution: the first rule that matches wins.                      *)

BudgetScopeMatch(rule, scope) ==
  rule.caller = scope.caller /\ rule.purpose \in {Wildcard, scope.purpose}

MatchingRules(scope) == {i \in DOMAIN Rules : BudgetScopeMatch(Rules[i], scope)}

ScopeLimit(scope) ==
  IF MatchingRules(scope) = {} THEN DefaultMax
                               ELSE Rules[Min(MatchingRules(scope))].max_queries

ScopeReason(scope) ==
  IF MatchingRules(scope) = {} /\ DefaultMax = 0 THEN "missing_scope" ELSE "ok"

-----------------------------------------------------------------------------
(* How two queries of one scope relate.                                     *)

WindowRelation(a, b) ==
  IF a.start = b.start /\ a.end = b.end THEN "same"
  ELSE IF NoTime \in {a.start, a.end, b.start, b.end} THEN "unknown"
  ELSE IF a.end <= b.start \/ b.end <= a.start THEN "disjoint"
  ELSE IF a.start <= b.start /\ a.end >= b.end THEN "contains"
  ELSE IF b.start <= a.start /\ b.end >= a.end THEN "contained_by"
  ELSE "overlaps"

\* Mutation: the gap of a window that lies before the other is not swapped.
WindowGapOneWay(a, b) == b.start - a.end

\* Only asked of windows that WindowRelation calls disjoint.
WindowGap(a, b) == IF a.end <= b.start THEN b.start - a.end ELSE a.start - b.end

RoundWindowValue(t) ==
  IF t = NoTime THEN t ELSE (t \div RoundSeconds) * RoundSeconds

ThresholdBucket(k) == IF RoundStep <= 1 THEN k ELSE k \div RoundStep

\* canonical_privacy_budget_payload: every field of the query.
Fingerprint(q) ==
  <<q.scope, q.start, q.end, q.bucket, q.mode, q.k, q.columns>>

\* _near_duplicate_signature with ignore_bucket=True; with False the bucket is
\* compared as well, which SameBucket does in the callers below.
BucketlessSignature(q) ==
  <<q.scope, RoundWindowValue(q.start), RoundWindowValue(q.end), q.mode,
    ThresholdBucket(q.k)>>

SameBucket(q, p) == q.bucket = p.bucket
RoundedMatch(q, p) == BucketlessSignature(q) = BucketlessSignature(p)

\* Mutation: a gap of exactly near_duplicate_window_seconds passes.
CloseDisjointStrict(q, p) ==
  /\ WindowRelation(q, p) = "disjoint"
  /\ CloseGap > 0
  /\ WindowGap(q, p) < CloseGap

CloseDisjoint(q, p) ==
  /\ WindowRelation(q, p) = "disjoint"
  /\ CloseGap > 0
  /\ WindowGap(q, p) <= CloseGap

SuspiciousWindow(q, p) ==
  WindowRelation(q, p) # "disjoint" \/ CloseDisjoint(q, p)

NearSignal(q, p) ==
  IF SameBucket(q, p) /\ (SuspiciousWindow(q, p) \/ RoundedMatch(q, p))
  THEN "near_duplicate"
  ELSE IF ~SameBucket(q, p) /\ RoundedMatch(q, p) /\ SuspiciousWindow(q, p)
  THEN "bucket_probe"
  ELSE "ok"

\* What the comparison with one prior release answers.
Signal(q, p) ==
  IF Fingerprint(q) = Fingerprint(p) THEN "duplicate" ELSE NearSignal(q, p)

-----------------------------------------------------------------------------
(* evaluate_privacy_budget.  prior maps the ids of the records that have    *)
(* consumed budget in the scope to their queries; the records are visited   *)
(* in the order of their ids and the first one that signals decides.        *)

\* Mutation: the cost of the release being decided is left out.
FitsWithoutThisOne(scope, n) == Cost * (n - 1) <= ScopeLimit(scope)

\* n releases, the one being decided included, stay within the scope's limit.
Fits(scope, n) == Cost * n <= ScopeLimit(scope)

FlaggedIds(q, prior) == {i \in DOMAIN prior : Signal(q, prior[i]) # "ok"}

MatchedId(q, prior) == Min(FlaggedIds(q, prior))

Evaluate(q, prior) ==
  IF ScopeReason(q.scope) # "ok" THEN ScopeReason(q.scope)
  ELSE IF FlaggedIds(q, prior) # {} THEN Signal(q, prior[MatchedId(q, prior)])
  ELSE IF ~Fits(q.scope, Cardinality(DOMAIN prior) + 1) THEN "exhausted"
  ELSE "ok"

\* Denials that open an approval request, build_privacy_budget_approval_request.
ApprovalEligible == {"near_duplicate", "bucket_probe"}
=============================================================================
