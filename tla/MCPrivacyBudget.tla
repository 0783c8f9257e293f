--------------------------- MODULE MCPrivacyBudget ---------------------------
(* PrivacyBudget over every window of a short time line, in two buckets.    *)
EXTENDS PrivacyBudget

Narrow == [caller |-> "c1", purpose |-> "p1"]  \* matched by both rules
Wide   == [caller |-> "c1", purpose |-> "p2"]  \* matched by the wildcard alone
Lost   == [caller |-> "c2", purpose |-> "p1"]  \* matched by no rule

MCRules == <<[caller |-> "c1", purpose |-> "p1", max_queries |-> 3],
             [caller |-> "c1", purpose |-> "*",  max_queries |-> 1]>>

MCQuery(scope, window, bucket, k) ==
  [scope |-> scope, start |-> window[1], end |-> window[2], bucket |-> bucket,
   mode |-> "sum", k |-> k, columns |-> "email"]

\* Every window of four seconds, and two with a missing bound.
Windows ==
  <<<<0, 1>>, <<0, 2>>, <<0, 3>>, <<0, 4>>, <<1, 2>>, <<1, 3>>, <<1, 4>>,
    <<2, 3>>, <<2, 4>>, <<3, 4>>, <<NoTime, NoTime>>, <<0, NoTime>>>>

Probes == <<<<0, 1>>, <<0, 3>>, <<3, 4>>>>

\* Each window in one bucket, some in another; thresholds 10 and 11 round
\* alike, 20 does not.  A job is the position of its query.
MCQueryOf ==
  [i \in DOMAIN Windows |-> MCQuery(Narrow, Windows[i], "b1", 10)]
  \o [i \in DOMAIN Probes |-> MCQuery(Narrow, Probes[i], "b2", 10)]
  \o <<MCQuery(Narrow, <<0, 3>>, "b1", 11), MCQuery(Narrow, <<0, 3>>, "b1", 20),
       MCQuery(Wide, <<0, 3>>, "b1", 11), MCQuery(Wide, <<0, 3>>, "b1", 20),
       MCQuery(Lost, <<0, 3>>, "b1", 11)>>

MCJobs == DOMAIN MCQueryOf
=============================================================================
