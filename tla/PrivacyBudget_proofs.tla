-------------------------- MODULE PrivacyBudget_proofs --------------------------
(***************************************************************************)
(* Proofs about the abstract budget, for every set of jobs, every rule and *)
(* every gap and rounding: what evaluate_privacy_budget admits, one        *)
(* release at a time, keeps within the limits, charges no query twice and  *)
(* leaves no two released windows together without an operator.            *)
(***************************************************************************)
EXTENDS PrivacyBudget, FiniteSetTheorems, TLAPS

IInv ==
  /\ TypeOK /\ IsFiniteSet(charged)
  /\ WithinLimit /\ ChargedOnce /\ OverlapNeedsApproval

\* A new charge was admitted by the policy.
Admitted(x) ==
  LET q == QueryOf[x.job] IN
  /\ HasRoom(q)
  /\ "duplicate" \notin Answers(q)
  /\ ~x.approved => Answers(q) \subseteq {"ok"}

LEMMA NextAdmits ==
  ASSUME Next
  PROVE  \E x \in Charge : charged' = charged \cup {x} /\ Admitted(x)
<1>1. ASSUME NEW j \in Jobs, Release(j)
      PROVE  \E x \in Charge : charged' = charged \cup {x} /\ Admitted(x)
  <2>. DEFINE x == [job |-> j, approved |-> FALSE]
  <2>1. x \in Charge /\ x.job = j /\ x.approved = FALSE /\ charged' = charged \cup {x}
    BY <1>1 DEF Release, Charge
  <2>2. Admitted(x)
    BY <1>1, <2>1 DEF Release, Admitted
  <2>. QED  BY <2>1, <2>2
<1>2. ASSUME NEW j \in Jobs, ReleaseApproved(j)
      PROVE  \E x \in Charge : charged' = charged \cup {x} /\ Admitted(x)
  <2>. DEFINE x == [job |-> j, approved |-> TRUE]
  <2>1. x \in Charge /\ x.job = j /\ x.approved = TRUE /\ charged' = charged \cup {x}
    BY <1>2 DEF ReleaseApproved, Charge
  <2>2. Admitted(x)
    BY <1>2, <2>1 DEF ReleaseApproved, Admitted
  <2>. QED  BY <2>1, <2>2
<1>. QED  BY <1>1, <1>2 DEF Next

\* The answers of the policy about a charged release of the scope.
LEMMA AdmittedSignal ==
  ASSUME NEW x, Admitted(x), NEW c \in charged, ScopeOf(c) = ScopeOf(x)
  PROVE  /\ Signal(QueryOf[x.job], QueryOf[c.job]) # "duplicate"
         /\ ~x.approved => Signal(QueryOf[x.job], QueryOf[c.job]) = "ok"
BY DEF Admitted, Answers, ChargedIn, ScopeOf

LEMMA WithinLimitStep ==
  ASSUME IsFiniteSet(charged), WithinLimit, NEW x, x \notin charged, Admitted(x)
  PROVE  \A c \in charged \cup {x} :
           Cost * Cardinality({d \in charged \cup {x} : ScopeOf(d) = ScopeOf(c)})
             <= ScopeLimit(ScopeOf(c))
<1>. SUFFICES ASSUME NEW c \in charged \cup {x}
              PROVE  Cost * Cardinality({d \in charged \cup {x} : ScopeOf(d) = ScopeOf(c)})
                       <= ScopeLimit(ScopeOf(c))
  OBVIOUS
<1>. DEFINE s == ScopeOf(c)
            C == ChargedIn(s)
            D == {d \in charged \cup {x} : ScopeOf(d) = s}
<1>1. CASE ScopeOf(x) # s
  <2>1. D = C /\ c \in charged
    BY <1>1 DEF ChargedIn
  <2>. QED  BY <2>1 DEF WithinLimit
<1>2. CASE ScopeOf(x) = s
  <2>1. D = C \cup {x} /\ x \notin C
    BY <1>2 DEF ChargedIn
  <2>2. IsFiniteSet(C)
    BY FS_Subset DEF ChargedIn
  <2>3. Cardinality(D) = Cardinality(C) + 1
    <3>. HIDE DEF C, D
    <3>. QED  BY <2>1, <2>2, FS_AddElement
  <2>4. Fits(s, Cardinality(C) + 1)
    BY <1>2 DEF Admitted, HasRoom, ScopeOf
  <2>. QED  BY <2>3, <2>4 DEF Fits
<1>. QED  BY <1>1, <1>2

LEMMA ChargedOnceStep ==
  ASSUME ChargedOnce, NEW x, Admitted(x), charged' = charged \cup {x}, x \notin charged
  PROVE  ChargedOnce'
<1>1. ASSUME NEW c \in charged, Fingerprint(QueryOf[c.job]) = Fingerprint(QueryOf[x.job])
      PROVE  FALSE
  <2>1. ScopeOf(c) = ScopeOf(x)
    BY <1>1 DEF Fingerprint, ScopeOf
  <2>2. Signal(QueryOf[x.job], QueryOf[c.job]) = "duplicate"
    BY <1>1 DEF Signal
  <2>. QED  BY <2>1, <2>2, AdmittedSignal
<1>. QED  BY <1>1 DEF ChargedOnce

-----------------------------------------------------------------------------
(* The relations of the code and seconds.                                   *)

\* Windows the code does not suspect have no second in common and are further
\* apart than the gap, on whichever side.
LEMMA NotSuspicious ==
  ASSUME NEW q, NEW p,
         {q.start, q.end, p.start, p.end} \subseteq Nat \cup {NoTime},
         ~SuspiciousWindow(q, p)
  PROVE  Separate(q, p)
<1>1. WindowRelation(q, p) = "disjoint" /\ ~CloseDisjoint(q, p)
  BY DEF SuspiciousWindow
<1>2. /\ NoTime \notin {q.start, q.end, p.start, p.end}
      /\ q.end <= p.start \/ p.end <= q.start
  BY <1>1 DEF WindowRelation
<1>3. {q.start, q.end, p.start, p.end} \subseteq Nat
  BY <1>2
<1>4. ~Meet(q, p)
  BY <1>2, <1>3 DEF Meet, Covers
<1>5. CloseGap > 0 => WindowGap(q, p) > CloseGap
  <2>1. WindowGap(q, p) \in Int
    BY <1>3 DEF WindowGap
  <2>. QED  BY <1>1, <2>1, PolicyAssumption DEF CloseDisjoint
<1>6. CloseGap > 0 => q.start > p.end + CloseGap \/ p.start > q.end + CloseGap
  BY <1>3, <1>5, PolicyAssumption DEF WindowGap
<1>. QED  BY <1>4, <1>6 DEF Separate

LEMMA SeparateSymmetric ==
  ASSUME NEW q, NEW p, Separate(q, p)
  PROVE  Separate(p, q)
BY DEF Separate, Meet

LEMMA OverlapStep ==
  ASSUME TypeOK, OverlapNeedsApproval, NEW x \in Charge, Admitted(x), charged' = charged \cup {x}
  PROVE  OverlapNeedsApproval'
<1>1. ASSUME NEW c \in charged, ScopeOf(c) = ScopeOf(x), ~x.approved,
             SameBucket(QueryOf[c.job], QueryOf[x.job])
      PROVE  /\ Separate(QueryOf[x.job], QueryOf[c.job])
             /\ Separate(QueryOf[c.job], QueryOf[x.job])
  <2>1. Signal(QueryOf[x.job], QueryOf[c.job]) = "ok"
    BY <1>1, AdmittedSignal
  <2>2. SameBucket(QueryOf[x.job], QueryOf[c.job])
    BY <1>1 DEF SameBucket
  <2>3. ~SuspiciousWindow(QueryOf[x.job], QueryOf[c.job])
    BY <2>1, <2>2 DEF Signal, NearSignal
  <2>4. {QueryOf[x.job].start, QueryOf[x.job].end, QueryOf[c.job].start, QueryOf[c.job].end}
          \subseteq Nat \cup {NoTime}
    BY QueryAssumption DEF TypeOK, Charge
  <2>. QED  BY <2>3, <2>4, NotSuspicious, SeparateSymmetric
<1>2. \A c, d : SameBucket(QueryOf[c.job], QueryOf[d.job]) <=> SameBucket(QueryOf[d.job], QueryOf[c.job])
  BY DEF SameBucket
<1>3. ASSUME NEW c \in charged, NEW d \in charged
      PROVE  \/ c = d \/ ScopeOf(c) # ScopeOf(d)
             \/ ~SameBucket(QueryOf[c.job], QueryOf[d.job])
             \/ Separate(QueryOf[c.job], QueryOf[d.job])
             \/ c.approved \/ d.approved
  BY DEF OverlapNeedsApproval
<1>. QED  BY <1>1, <1>2, <1>3 DEF OverlapNeedsApproval

-----------------------------------------------------------------------------
LEMMA InitIInv == Init => IInv
BY FS_EmptySet DEF Init, IInv, TypeOK, WithinLimit, ChargedOnce, OverlapNeedsApproval

LEMMA StepIInv == IInv /\ [Next]_charged => IInv'
<1>1. ASSUME IInv, charged' = charged PROVE IInv'
  BY <1>1 DEF IInv, TypeOK, WithinLimit, ChargedIn, ChargedOnce, OverlapNeedsApproval
<1>2. ASSUME IInv, Next PROVE IInv'
  <2>1. PICK x \in Charge : charged' = charged \cup {x} /\ Admitted(x)
    BY <1>2, NextAdmits
  <2>2. CASE x \in charged
    BY <1>1, <1>2, <2>1, <2>2
  <2>3. CASE x \notin charged
    <3>1. TypeOK' /\ IsFiniteSet(charged')
      BY <1>2, <2>1, FS_AddElement DEF IInv, TypeOK
    <3>2. WithinLimit'
      BY <1>2, <2>1, <2>3, WithinLimitStep DEF IInv, WithinLimit, ChargedIn
    <3>3. ChargedOnce'
      BY <1>2, <2>1, <2>3, ChargedOnceStep DEF IInv
    <3>4. OverlapNeedsApproval'
      BY <1>2, <2>1, OverlapStep DEF IInv
    <3>. QED  BY <3>1, <3>2, <3>3, <3>4 DEF IInv
  <2>. QED  BY <2>2, <2>3
<1>. QED  BY <1>1, <1>2

LEMMA Invariance == Spec => []IInv
BY InitIInv, StepIInv, PTL DEF Spec

\* No scope pays for more than its rule allows (evaluate_privacy_budget counts
\* the release being decided), for any rules, default and cost.
THEOREM WithinLimitHolds == Spec => []WithinLimit
<1>1. IInv => WithinLimit
  BY DEF IInv
<1>. QED  BY <1>1, Invariance, PTL

\* A query is paid for at most once: neither the budget nor an approval lets
\* through what answers "duplicate" to a charged release.
THEOREM ChargedOnceHolds == Spec => []ChargedOnce
<1>1. IInv => ChargedOnce
  BY DEF IInv
<1>. QED  BY <1>1, Invariance, PTL

\* Two releases of one bucket, neither approved, share no second and keep the
\* gap: what _window_relation and _window_gap_seconds let through is disjoint as
\* a set of seconds, windows with missing or inverted bounds included.
THEOREM OverlapNeedsApprovalHolds == Spec => []OverlapNeedsApproval
<1>1. IInv => OverlapNeedsApproval
  BY DEF IInv
<1>. QED  BY <1>1, Invariance, PTL

-----------------------------------------------------------------------------
(* The order of two releases does not matter.                               *)

\* Windows that select something: prep_inputs.py keeps the rows from start to
\* before end, so that a job with an inverted window has nothing to release.
WindowsInOrder ==
  \A j \in Jobs :
    NoTime \in {QueryOf[j].start, QueryOf[j].end} \/ QueryOf[j].start <= QueryOf[j].end

LEMMA RelationSymmetric ==
  ASSUME NEW q, NEW p,
         {q.start, q.end, p.start, p.end} \subseteq Nat \cup {NoTime},
         NoTime \in {q.start, q.end} \/ q.start <= q.end,
         NoTime \in {p.start, p.end} \/ p.start <= p.end
  PROVE  SuspiciousWindow(q, p) <=> SuspiciousWindow(p, q)
<1>1. WindowRelation(q, p) = "disjoint" <=> WindowRelation(p, q) = "disjoint"
  BY DEF WindowRelation
<1>2. CASE WindowRelation(q, p) = "disjoint"
  <2>1. /\ NoTime \notin {q.start, q.end, p.start, p.end}
        /\ q.end <= p.start \/ p.end <= q.start
    BY <1>2 DEF WindowRelation
  <2>2. {q.start, q.end, p.start, p.end} \subseteq Nat
    BY <2>1
  <2>3. WindowGap(q, p) = WindowGap(p, q)
    BY <2>1, <2>2 DEF WindowGap
  <2>. QED  BY <1>1, <2>3 DEF SuspiciousWindow, CloseDisjoint
<1>. QED  BY <1>1, <1>2 DEF SuspiciousWindow, CloseDisjoint

\* Which of two queries was released first makes no difference to what
\* evaluate_privacy_budget answers about the other, for windows in order.
THEOREM SignalSymmetricHolds ==
  ASSUME WindowsInOrder
  PROVE  Spec => []SignalSymmetric
<1>1. ASSUME IInv, NEW c \in charged, NEW j \in Jobs
      PROVE  Signal(QueryOf[j], QueryOf[c.job]) = Signal(QueryOf[c.job], QueryOf[j])
  <2>. DEFINE q == QueryOf[j]
              p == QueryOf[c.job]
  <2>1. c.job \in Jobs
    BY <1>1 DEF IInv, TypeOK, Charge
  <2>2. SuspiciousWindow(q, p) <=> SuspiciousWindow(p, q)
    <3>1. /\ {q.start, q.end, p.start, p.end} \subseteq Nat \cup {NoTime}
          /\ NoTime \in {q.start, q.end} \/ q.start <= q.end
          /\ NoTime \in {p.start, p.end} \/ p.start <= p.end
      BY <2>1, WindowsInOrder, QueryAssumption DEF WindowsInOrder
    <3>. HIDE DEF q, p
    <3>. QED  BY <3>1, RelationSymmetric
  <2>3. RoundedMatch(q, p) <=> RoundedMatch(p, q)
    BY DEF RoundedMatch
  <2>4. SameBucket(q, p) <=> SameBucket(p, q)
    BY DEF SameBucket
  <2>5. NearSignal(q, p) = NearSignal(p, q)
    BY <2>2, <2>3, <2>4 DEF NearSignal
  <2>. QED  BY <2>5 DEF Signal
<1>2. IInv => SignalSymmetric
  BY <1>1 DEF SignalSymmetric
<1>. QED  BY <1>2, Invariance, PTL
=============================================================================
