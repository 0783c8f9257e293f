---------------------------- MODULE MCQueryWorkflow ----------------------------
EXTENDS QueryWorkflow, TLC

CONSTANTS j1, j2, d1, d2, s1, s2, s3, w1, w2, c1

\* Everything that can be asked about one job; the second enqueue is another
\* request with the same job id, and only the inline execution steals.
MCAsk(mode, digest, steal) == [job |-> j1, digest |-> digest, mode |-> mode, steal |-> steal]

MCEveryAsk ==
  {MCAsk("dry_run", d1, FALSE), MCAsk("enqueue", d1, FALSE), MCAsk("enqueue", d2, FALSE),
   MCAsk("execute", d1, TRUE), MCAsk("console", d1, FALSE)}

\* Work for the queue only.
MCQueueAsks == {[job |-> j, digest |-> d1, mode |-> "enqueue", steal |-> FALSE] : j \in Jobs}

-----------------------------------------------------------------------------
(* What the documentation says and the code does not do.                    *)

\* "so duplicate launches and stale leases can be rejected or explicitly
\* stolen by policy" (migrations/metadata/015_add_query_workflow_executions.sql,
\* line 6): without stealing, an execution has one pipeline at a time.
OneRunPerExecution ==
  \A j \in Jobs : Cardinality(Running(j)) + Cardinality({j} \cap orphans) <= 1

-----------------------------------------------------------------------------
Symmetry == Permutations(Workers) \cup Permutations(Submitters)
=============================================================================
