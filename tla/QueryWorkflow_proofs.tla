-------------------------- MODULE QueryWorkflow_proofs --------------------------
(***************************************************************************)
(* Proofs about QueryWorkflow for every set of jobs, submissions, workers  *)
(* and cancellers: one admission per job, nothing recorded that did not    *)
(* happen, no lost cancellation, no lost payload, no launch of what was    *)
(* cancelled in the queue.                                                 *)
(***************************************************************************)
EXTENDS QueryWorkflow, FiniteSetTheorems, TLAPS
--------------------------------------------------------------------------------
(* The inductive invariant                                                 *)

Present(j) == rows[j].state # "absent"

\* Some worker or inline execution has owned j: no enqueue owns it any more.
Left(j) == rows[j].owner \notin Enqueuers \cup {NoOne}

\* What a recorded state claims has happened.
Justified(state, j) ==
  /\ state = "completed" => j \in ran
  /\ state \in {"cancelled", "cancel_requested"} => j \in asked

RowOK(j) ==
  /\ ~Present(j) => rows[j] = ES!Absent
  /\ rows[j].state \in ES!Finals => rows[j].terminal
  /\ Justified(rows[j].state, j)
  /\ Justified(status[j].state, j)
  /\ j \in asked => Present(j)
  /\ j \in orphans => Left(j)

\* The labels of each kind of process.
Ending == {"report", "finish", "finishWrite"}
Holding == {"beat", "beatWrite", "launch", "watch"} \cup Ending

LabelsOf(p) ==
  CASE p \in Workers    -> {"idle", "claim", "reload", "announce", "dead"} \cup Holding
    [] p \in Cancellers -> {"start", "cancel", "reread", "note", "done", "dead"}
    [] p \in Direct     -> {"check", "lookup", "insert", "overtake", "publish"} \cup Holding \cup Over
    [] p \in Enqueuers  -> {"check", "lookup", "insert", "publish", "publishAgain",
                            "finish", "finishWrite"} \cup Over
    [] OTHER            -> {"check", "publish", "publishAgain"} \cup Over

\* A worker or a canceller is at a job, which is in the table.
TaskOK(p) ==
  /\ p \in Submitters => task[p] = ask[p].job
  /\ p \notin Submitters /\ pc[p] \notin {"idle", "start"} \cup Over =>
       task[p] \in Jobs /\ Present(task[p])

\* What a process remembers of its row: true when read, and no reason to lose a
\* cancellation or the payload.
SeenOK(p) ==
  /\ Justified(seen[p].state, task[p])
  /\ pc[p] = "note" => seen[p].state # "absent"
  /\ pc[p] \in {"claim", "cancel"} => seen[p].payload \/ Taken(task[p])
  /\ pc[p] = "claim" /\ task[p] \in asked =>
       task[p] \in crossed \/ seen[p].state = "cancel_requested"

Admitted(p) == p \in Enqueuers /\ pc[p] \in {"publish", "publishAgain", "done"}

\* A final state is being recorded, or a pipeline runs, or neither.
HolderOK(p) ==
  /\ outcome[p] # "none" <=> pc[p] \in Ending
  /\ Justified(outcome[p], task[p])
  /\ child[p] # "none" => \/ p \in Workers /\ pc[p] \in {"beat", "beatWrite", "watch"}
                          \/ p \in Direct /\ pc[p] = "watch"
  /\ child[p] = "ok" => task[p] \in ran
  /\ child[p] # "none" \/ pc[p] \in {"beatWrite", "launch", "watch"} => Left(task[p])

ProcOK(p) ==
  /\ pc[p] \in LabelsOf(p)
  /\ TaskOK(p)
  /\ SeenOK(p)
  /\ Admitted(p) => Present(task[p])
  /\ p \in Holders => HolderOK(p)

\* ids are counts: the table has finitely many rows.
TableFinite == IsFiniteSet({j \in Jobs : rows[j] # ES!Absent})

IInv ==
  /\ TypeOK
  /\ ask \in [Submitters -> Asks]
  /\ TableFinite
  /\ \A j \in Jobs : RowOK(j)
  /\ \A p \in Procs : ProcOK(p)
  /\ AdmittedOnce
  /\ CancellationKept
  /\ PayloadKept
--------------------------------------------------------------------------------
(* Kinds of process                                                        *)

LEMMA Kinds ==
  ASSUME TypeOK
  PROVE  /\ Direct \subseteq Submitters /\ Enqueuers \subseteq Submitters
         /\ Direct \cap Enqueuers = {}
         /\ Holders = Workers \cup Submitters /\ Procs = Holders \cup Cancellers
         /\ Submitters \cap Workers = {} /\ Cancellers \cap Holders = {}
         /\ NoOne \notin Procs \cup Jobs \cup Digests
  BY WorkflowAssumption DEF Direct, Enqueuers, Holders, Procs

LEMMA SubmitterJob ==
  ASSUME TypeOK, NEW s \in Submitters
  PROVE  /\ ask[s] \in Ask /\ ask[s].job \in Jobs /\ ask[s].digest \in Digests
         /\ ask[s].mode \in Modes
  BY DEF TypeOK, Ask

--------------------------------------------------------------------------------
(* What the statements write                                               *)

\* Only the row of j may change.
Touches(j) ==
  /\ rows' \in [Jobs -> ES!Row]
  /\ \A k \in Jobs \ {j} : rows'[k] = rows[k]

LEMMA PutFacts ==
  ASSUME TypeOK, NEW j \in Jobs, NEW row \in ES!Row, ES!Put(j, row)
  PROVE  Touches(j) /\ rows'[j] = row
  BY DEF TypeOK, Touches, ES!Put

LEMMA RowFields ==
  ASSUME TypeOK, NEW j \in Jobs
  PROVE  /\ rows[j] \in ES!Row
         /\ rows[j].id \in Nat /\ rows[j].digest \in Digests \cup {NoOne}
         /\ rows[j].state \in States \cup {"absent"} /\ rows[j].terminal \in BOOLEAN
         /\ rows[j].owner \in Holders \cup {NoOne} /\ rows[j].expired \in BOOLEAN
         /\ rows[j].payload \in BOOLEAN
  BY DEF TypeOK, ES!Row, States

LEMMA AbsentFields ==
  /\ ES!Absent.state = "absent" /\ ES!Absent.owner = NoOne /\ ~ES!Absent.terminal
  BY DEF ES!Absent

\* The id of a new row is a number, because the table is finite.
LEMMA NextIdTyped ==
  ASSUME TableFinite
  PROVE  ES!NextId \in Nat
  <1>1. Cardinality({j \in Jobs : rows[j] # ES!Absent}) \in Nat
    BY FS_CardinalityType DEF TableFinite
  <1>2. \A S : ES!Cardinality(S) = Cardinality(S)
    BY DEF ES!Cardinality, Cardinality, ES!IsFiniteSet, IsFiniteSet
  <1> QED
    BY <1>1, <1>2 DEF ES!NextId

LEMMA InsertQueuedFacts ==
  ASSUME TypeOK, TableFinite, NEW j \in Jobs, NEW a \in Holders, NEW d \in Digests,
         ES!InsertQueued(j, a, d)
  PROVE  /\ Touches(j)
         /\ rows'[j].state = "queued" /\ ~rows'[j].terminal /\ rows'[j].owner = a
         /\ rows'[j].payload
  <1> DEFINE row == [id |-> ES!NextId, digest |-> d, state |-> "queued", terminal |-> FALSE,
                     owner |-> a, expired |-> TRUE, payload |-> TRUE]
  <1>1. row \in ES!Row
    BY NextIdTyped DEF ES!Row, ES!Live
  <1>2. Touches(j) /\ rows'[j] = row
    BY <1>1, PutFacts DEF ES!InsertQueued
  <1> QED
    BY <1>2

LEMMA InsertRunningFacts ==
  ASSUME TypeOK, TableFinite, NEW j \in Jobs, NEW a \in Holders, NEW d \in Digests,
         ES!InsertRunning(j, a, d)
  PROVE  /\ Touches(j)
         /\ rows'[j].state = "running" /\ ~rows'[j].terminal /\ rows'[j].owner = a
  <1> DEFINE row == [id |-> ES!NextId, digest |-> d, state |-> "running", terminal |-> FALSE,
                     owner |-> a, expired |-> FALSE, payload |-> FALSE]
  <1>1. row \in ES!Row
    BY NextIdTyped DEF ES!Row, ES!Live
  <1>2. Touches(j) /\ rows'[j] = row
    BY <1>1, PutFacts DEF ES!InsertRunning
  <1> QED
    BY <1>2

LEMMA OvertakeFacts ==
  ASSUME TypeOK, NEW j \in Jobs, NEW a \in Holders, ES!Overtake(j, a)
  PROVE  /\ Touches(j)
         /\ rows'[j].state = "running" /\ ~rows'[j].terminal /\ rows'[j].owner = a
  <1> DEFINE row == [rows[j] EXCEPT !.state = "running", !.terminal = FALSE, !.owner = a,
                                    !.expired = FALSE, !.payload = FALSE]
  <1>1. row \in ES!Row /\ row.state = "running" /\ ~row.terminal /\ row.owner = a
    BY RowFields DEF ES!Row, ES!Live
  <1> HIDE DEF row
  <1>2. Touches(j) /\ rows'[j] = row
    BY <1>1, PutFacts DEF ES!Overtake, row
  <1> QED
    BY <1>1, <1>2

LEMMA ClaimNextFacts ==
  ASSUME TypeOK, NEW j \in Jobs, NEW a \in Holders, NEW read,
         read.payload \in BOOLEAN, ES!ClaimNext(j, a, read)
  PROVE  /\ Touches(j)
         /\ rows[j].terminal => rows'[j] = rows[j]
         /\ ~rows[j].terminal =>
              /\ rows'[j].state = IF read.state = "cancel_requested"
                                  THEN "cancel_requested" ELSE "running"
              /\ ~rows'[j].terminal /\ rows'[j].owner = a
              /\ rows'[j].payload = read.payload
  <1>1. CASE rows[j].terminal
    BY <1>1 DEF ES!ClaimNext, Touches, TypeOK
  <1>2. CASE ~rows[j].terminal
    <2> DEFINE row == [rows[j] EXCEPT
                         !.state = IF read.state = "cancel_requested"
                                   THEN "cancel_requested" ELSE "running",
                         !.owner = a, !.expired = FALSE, !.payload = read.payload]
    <2>1. /\ row \in ES!Row /\ row.owner = a /\ row.payload = read.payload
          /\ row.terminal = rows[j].terminal
          /\ row.state = IF read.state = "cancel_requested" THEN "cancel_requested" ELSE "running"
      BY RowFields DEF ES!Row, ES!Live
    <2> HIDE DEF row
    <2>2. Touches(j) /\ rows'[j] = row
      BY <1>2, <2>1, PutFacts DEF ES!ClaimNext, row
    <2> QED
      BY <1>2, <2>1, <2>2
  <1> QED
    BY <1>1, <1>2, RowFields

LEMMA RequestCancelFacts ==
  ASSUME TypeOK, NEW j \in Jobs, NEW read, read.payload \in BOOLEAN, ES!RequestCancel(j, read)
  PROVE  /\ Touches(j)
         /\ rows'[j].owner = rows[j].owner /\ rows'[j].payload = read.payload
         /\ \/ rows'[j].state = "cancelled" /\ rows'[j].terminal
            \/ rows'[j].state = "cancel_requested" /\ rows'[j].terminal = rows[j].terminal
  <1>1. CASE read.state = "queued"
    <2> DEFINE row == [rows[j] EXCEPT !.state = "cancelled", !.terminal = TRUE,
                                      !.payload = read.payload]
    <2>1. /\ row \in ES!Row /\ row.owner = rows[j].owner /\ row.payload = read.payload
          /\ row.state = "cancelled" /\ row.terminal
      BY RowFields DEF ES!Row, ES!Finals
    <2> HIDE DEF row
    <2>2. Touches(j) /\ rows'[j] = row
      BY <1>1, <2>1, PutFacts DEF ES!RequestCancel, row
    <2> QED
      BY <2>1, <2>2
  <1>2. CASE read.state # "queued"
    <2> DEFINE row == [rows[j] EXCEPT !.state = "cancel_requested", !.payload = read.payload]
    <2>1. /\ row \in ES!Row /\ row.owner = rows[j].owner /\ row.payload = read.payload
          /\ row.state = "cancel_requested" /\ row.terminal = rows[j].terminal
      BY RowFields DEF ES!Row, ES!Live
    <2> HIDE DEF row
    <2>2. Touches(j) /\ rows'[j] = row
      BY <1>2, <2>1, PutFacts DEF ES!RequestCancel, row
    <2> QED
      BY <2>1, <2>2
  <1> QED
    BY <1>1, <1>2

\* A renewed or an expired lease changes nothing else.
SameButLease(j) ==
  /\ Touches(j)
  /\ rows'[j].state = rows[j].state /\ rows'[j].terminal = rows[j].terminal
  /\ rows'[j].owner = rows[j].owner /\ rows'[j].payload = rows[j].payload

LEMMA LeaseFacts ==
  ASSUME TypeOK, NEW j \in Jobs, ES!Heartbeat(j) \/ ES!Expire(j)
  PROVE  SameButLease(j)
  <1> PICK e \in BOOLEAN : ES!Put(j, [rows[j] EXCEPT !.expired = e])
    BY DEF ES!Heartbeat, ES!Expire
  <1> DEFINE row == [rows[j] EXCEPT !.expired = e]
  <1>1. /\ row \in ES!Row /\ row.state = rows[j].state /\ row.terminal = rows[j].terminal
        /\ row.owner = rows[j].owner /\ row.payload = rows[j].payload
    BY RowFields DEF ES!Row
  <1> HIDE DEF row
  <1>2. Touches(j) /\ rows'[j] = row
    BY <1>1, PutFacts DEF row
  <1> QED
    BY <1>1, <1>2 DEF SameButLease

LEMMA FinishFacts ==
  ASSUME TypeOK, NEW j \in Jobs, NEW final \in ES!Finals, ES!Finish(j, final)
  PROVE  /\ Touches(j)
         /\ rows'[j].state = final /\ rows'[j].terminal /\ rows'[j].owner = rows[j].owner
  <1> DEFINE row == [rows[j] EXCEPT !.state = final, !.terminal = TRUE, !.payload = FALSE]
  <1>1. /\ row \in ES!Row /\ row.state = final /\ row.terminal /\ row.owner = rows[j].owner
    BY RowFields DEF ES!Row
  <1> HIDE DEF row
  <1>2. Touches(j) /\ rows'[j] = row
    BY <1>1, PutFacts DEF ES!Finish, row
  <1> QED
    BY <1>1, <1>2
--------------------------------------------------------------------------------
(* The shape of a step: types are kept, one process moves, and a claim that *)
(* has had its turn stays that way                                          *)

Same(q) ==
  /\ pc'[q] = pc[q] /\ task'[q] = task[q] /\ seen'[q] = seen[q]
  /\ q \in Holders => outcome'[q] = outcome[q] /\ child'[q] = child[q]

Alone(p) == \A q \in Procs \ {p} : Same(q)

\* claim_execution of s has had its turn.
PastClaim(s) ==
  /\ pc[s] \notin {"lookup", "insert", "overtake"}
  /\ ask[s].mode = "execute" => pc[s] # "check"

Shape(p) ==
  /\ TypeOK' /\ ask' = ask
  /\ Alone(p)
  /\ p \in Direct /\ PastClaim(p) => PastClaim(p)'

LEMMA ProcFields ==
  ASSUME IInv, NEW p \in Procs
  PROVE  /\ ProcOK(p)
         /\ pc[p] \in LabelsOf(p) /\ task[p] \in Jobs \cup {NoOne}
         /\ seen[p].state \in States \cup {"absent"}
         /\ seen[p].terminal \in BOOLEAN /\ seen[p].payload \in BOOLEAN
         /\ p \in Holders => outcome[p] \in ES!Finals \cup {"none"}
         /\ p \in Submitters => task[p] = ask[p].job /\ task[p] \in Jobs
  BY SubmitterJob DEF IInv, TypeOK, ProcOK, TaskOK

\* A process that has a pipeline, or is past its idle state, is at a job.
LEMMA AtJob ==
  ASSUME IInv, NEW p \in Procs,
         pc[p] \notin {"idle", "start"} \cup Over \/ (p \in Holders /\ child[p] # "none")
  PROVE  task[p] \in Jobs
  <1>1. CASE p \in Submitters
    BY <1>1, ProcFields
  <1>2. CASE p \notin Submitters
    BY <1>2, ProcFields, Kinds DEF IInv, ProcOK, TaskOK, HolderOK, Over
  <1> QED
    BY <1>1, <1>2

LEMMA GoneFacts ==
  ASSUME IInv, NEW p \in Procs, NEW label \in Over \cup {"idle"}, Gone(p, label)
  PROVE  /\ pc' \in [Procs -> Labels] /\ task' \in [Procs -> Jobs \cup {NoOne}]
         /\ seen' \in [Procs -> [state: States \cup {"absent"}, terminal: BOOLEAN, payload: BOOLEAN]]
         /\ outcome' \in [Holders -> ES!Finals \cup {"none"}]
         /\ child' \in [Holders -> {"none", "running", "ok", "bad"}]
         /\ orphans' \subseteq Jobs /\ ran' = ran
         /\ Alone(p)
         /\ pc'[p] = label /\ seen'[p] = NoRead
         /\ task'[p] = IF p \in Submitters THEN task[p] ELSE NoOne
         /\ p \in Holders => outcome'[p] = "none" /\ child'[p] = "none"
         /\ \A j \in orphans' : j \in orphans \/ (p \in Holders /\ child[p] # "none" /\ j = task[p])
         /\ p \notin Holders => orphans' = orphans
  <1>1. NoRead \in [state: States \cup {"absent"}, terminal: BOOLEAN, payload: BOOLEAN]
    BY DEF NoRead
  <1>2. label \in Labels
    BY DEF Labels
  <1>3. pc' \in [Procs -> Labels] /\ pc'[p] = label /\ \A q \in Procs \ {p} : pc'[q] = pc[q]
    BY <1>2 DEF Gone, Goto, IInv, TypeOK
  <1>4. /\ task' \in [Procs -> Jobs \cup {NoOne}]
        /\ task'[p] = IF p \in Submitters THEN task[p] ELSE NoOne
        /\ \A q \in Procs \ {p} : task'[q] = task[q]
    BY DEF Gone, IInv, TypeOK
  <1>5. /\ seen' \in [Procs -> [state: States \cup {"absent"}, terminal: BOOLEAN, payload: BOOLEAN]]
        /\ seen'[p] = NoRead /\ \A q \in Procs \ {p} : seen'[q] = seen[q]
    BY <1>1 DEF Gone, IInv, TypeOK
  <1>6. CASE p \in Holders
    <2>1. /\ outcome' \in [Holders -> ES!Finals \cup {"none"}]
          /\ outcome'[p] = "none" /\ \A q \in Holders \ {p} : outcome'[q] = outcome[q]
      BY <1>6 DEF Gone, IInv, TypeOK
    <2>2. /\ child' \in [Holders -> {"none", "running", "ok", "bad"}]
          /\ child'[p] = "none" /\ \A q \in Holders \ {p} : child'[q] = child[q]
      BY <1>6 DEF Gone, IInv, TypeOK
    <2>3. orphans' = orphans \cup (IF child[p] = "running" THEN {task[p]} ELSE {})
      BY <1>6 DEF Gone
    <2>4. child[p] = "running" => task[p] \in Jobs
      BY <1>6, AtJob
    <2>5. orphans' \subseteq Jobs
      BY <2>3, <2>4 DEF IInv, TypeOK
    <2>6. \A j \in orphans' : j \in orphans \/ (child[p] # "none" /\ j = task[p])
      BY <2>3
    <2>7. ran' = ran
      BY DEF Gone
    <2> QED
      BY <1>3, <1>4, <1>5, <1>6, <2>1, <2>2, <2>5, <2>6, <2>7 DEF Alone, Same
  <1>7. CASE p \notin Holders
    <2>1. UNCHANGED <<orphans, child, outcome, ran>>
      BY <1>7 DEF Gone
    <2> QED
      BY <1>3, <1>4, <1>5, <1>7, <2>1 DEF Alone, Same, IInv, TypeOK
  <1> QED
    BY <1>6, <1>7

LEMMA WriteSidecarTyped ==
  ASSUME TypeOK, NEW j \in Jobs, NEW state \in States \cup {"none", "accepted"},
         NEW terminal \in BOOLEAN, NEW digest \in Digests \cup {NoOne},
         WriteSidecar(j, state, terminal, digest)
  PROVE  /\ status' \in [Jobs -> [state: States \cup {"none", "accepted"}, terminal: BOOLEAN]]
         /\ receipt' \in [Jobs -> Digests \cup {NoOne}]
         /\ status'[j].state = state
         /\ \A k \in Jobs \ {j} : status'[k] = status[k]
  BY DEF TypeOK, WriteSidecar

\* The ways a step changes the process that takes it, other than Gone.
LEMMA GotoShape ==
  ASSUME TypeOK, NEW p \in Procs, NEW label \in Labels, Goto(p, label)
  PROVE  /\ pc' \in [Procs -> Labels] /\ pc'[p] = label
         /\ \A q \in Procs \ {p} : pc'[q] = pc[q]
  BY DEF TypeOK, Goto

LEMMA OutcomeShape ==
  ASSUME TypeOK, NEW p \in Holders, NEW final \in ES!Finals,
         outcome' = [outcome EXCEPT ![p] = final]
  PROVE  /\ outcome' \in [Holders -> ES!Finals \cup {"none"}] /\ outcome'[p] = final
         /\ \A q \in Holders \ {p} : outcome'[q] = outcome[q]
  BY DEF TypeOK

LEMMA ChildShape ==
  ASSUME TypeOK, NEW p \in Holders, NEW c \in {"none", "running", "ok", "bad"},
         child' = [child EXCEPT ![p] = c]
  PROVE  /\ child' \in [Holders -> {"none", "running", "ok", "bad"}] /\ child'[p] = c
         /\ \A q \in Holders \ {p} : child'[q] = child[q]
  BY DEF TypeOK

LEMMA SeenShape ==
  ASSUME TypeOK, NEW p \in Procs,
         NEW r \in [state: States \cup {"absent"}, terminal: BOOLEAN, payload: BOOLEAN],
         seen' = [seen EXCEPT ![p] = r]
  PROVE  /\ seen' \in [Procs -> [state: States \cup {"absent"}, terminal: BOOLEAN, payload: BOOLEAN]]
         /\ seen'[p] = r /\ \A q \in Procs \ {p} : seen'[q] = seen[q]
  BY DEF TypeOK

LEMMA TaskShape ==
  ASSUME TypeOK, NEW p \in Procs, NEW j \in Jobs, task' = [task EXCEPT ![p] = j]
  PROVE  /\ task' \in [Procs -> Jobs \cup {NoOne}]
         /\ task'[p] = j /\ \A q \in Procs \ {p} : task'[q] = task[q]
  BY DEF TypeOK

LEMMA ReadTyped ==
  ASSUME TypeOK, NEW j \in Jobs
  PROVE  /\ ES!Read(j) \in [state: States \cup {"absent"}, terminal: BOOLEAN, payload: BOOLEAN]
         /\ ES!Read(j).state = rows[j].state /\ ES!Read(j).payload = rows[j].payload
  BY RowFields DEF ES!Read

LEMMA NoReadTyped ==
  /\ NoRead \in [state: States \cup {"absent"}, terminal: BOOLEAN, payload: BOOLEAN]
  /\ NoRead.state = "absent"
  BY DEF NoRead

LEMMA FaultTyped ==
  ASSUME TypeOK, Fault
  PROVE  faults' \in 0..MaxFaults
  BY WorkflowAssumption DEF TypeOK, Fault

\* What a worker and an inline execution do alike.
HolderActs(p) ==
  \/ p \in Workers \cup Direct /\ (Beat(p) \/ BeatWrite(p) \/ Launch(p) \/ Collect(p) \/ Report(p))
  \/ FinishRead(p) \/ FinishWrite(p) \/ ChildExits(p) \/ LaunchFails(p)

LEMMA GoneShape ==
  ASSUME IInv, NEW p \in Procs, NEW label \in Over \cup {"idle"}, Gone(p, label),
         label = "idle" => p \notin Direct,
         rows' \in [Jobs -> ES!Row],
         status' \in [Jobs -> [state: States \cup {"none", "accepted"}, terminal: BOOLEAN]],
         receipt' \in [Jobs -> Digests \cup {NoOne}],
         UNCHANGED ask, asked' \subseteq Jobs, crossed' \subseteq Jobs, faults' \in 0..MaxFaults
  PROVE  Shape(p)
  <1>1. TypeOK' /\ Alone(p) /\ ask' = ask
    BY GoneFacts DEF IInv, TypeOK
  <1>2. p \in Direct => PastClaim(p)'
    BY GoneFacts DEF PastClaim, Over
  <1> QED
    BY <1>1, <1>2 DEF Shape

LEMMA HolderShape ==
  ASSUME IInv, NEW p \in Holders, HolderActs(p)
  PROVE  Shape(p)
  <1> USE DEF files, local, pipelines, requests
  <1>a. TypeOK /\ p \in Procs /\ ProcOK(p)
    BY Kinds DEF IInv
  <1>1. ASSUME p \in Workers \cup Direct, Beat(p) PROVE Shape(p)
    <2>1. CASE ES!MayUse(task[p], p)
      BY <1>1, <1>a, <2>1, GotoShape DEF Beat, Labels, Shape, Alone, Same, PastClaim, TypeOK
    <2>2. CASE ~ES!MayUse(task[p], p) /\ p \in Workers
      BY <1>1, <1>a, <2>2, GoneShape DEF Beat, IInv, TypeOK, Over
    <2>3. CASE ~ES!MayUse(task[p], p) /\ p \notin Workers
      BY <1>1, <1>a, <2>3, GotoShape, OutcomeShape
      DEF Beat, Labels, ES!Finals, Shape, Alone, Same, PastClaim, TypeOK
    <2> QED
      BY <2>1, <2>2, <2>3
  <1>2. ASSUME p \in Workers \cup Direct, BeatWrite(p) PROVE Shape(p)
    <2>1. task[p] \in Jobs
      BY <1>2, <1>a, AtJob DEF BeatWrite, Over
    <2>2. rows' \in [Jobs -> ES!Row]
      BY <1>2, <1>a, <2>1, LeaseFacts DEF BeatWrite, SameButLease, Touches
    <2> QED
      BY <1>2, <1>a, <2>2, GotoShape DEF BeatWrite, Labels, Shape, Alone, Same, PastClaim, TypeOK
  <1>3. ASSUME p \in Workers \cup Direct, Launch(p) PROVE Shape(p)
    BY <1>3, <1>a, GotoShape, ChildShape DEF Launch, Labels, Shape, Alone, Same, PastClaim, TypeOK
  <1>4. ASSUME p \in Workers \cup Direct, Collect(p) PROVE Shape(p)
    BY <1>4, <1>a, GotoShape, OutcomeShape, ChildShape
    DEF Collect, Ends, FinalState, Labels, ES!Finals, Shape, Alone, Same, PastClaim, TypeOK
  <1>5. ASSUME p \in Workers \cup Direct, Report(p) PROVE Shape(p)
    <2>1. task[p] \in Jobs
      BY <1>5, <1>a, AtJob DEF Report, Over
    <2>2. outcome[p] \in States
      BY <1>5, <1>a DEF Report, ProcOK, HolderOK, Ending, TypeOK, States
    <2>3. (IF p \in Workers THEN rows[task[p]].digest ELSE ask[p].digest) \in Digests \cup {NoOne}
      BY <1>a, <2>1, RowFields, SubmitterJob, Kinds
    <2>4. /\ status' \in [Jobs -> [state: States \cup {"none", "accepted"}, terminal: BOOLEAN]]
          /\ receipt' \in [Jobs -> Digests \cup {NoOne}]
      BY <1>5, <1>a, <2>1, <2>2, <2>3, WriteSidecarTyped DEF Report
    <2> QED
      BY <1>5, <1>a, <2>4, GotoShape DEF Report, Labels, Shape, Alone, Same, PastClaim, TypeOK
  <1>6. ASSUME FinishRead(p) PROVE Shape(p)
    <2>1. CASE ES!MayUse(task[p], p)
      BY <1>6, <1>a, <2>1, GotoShape DEF FinishRead, Labels, Shape, Alone, Same, PastClaim, TypeOK
    <2>2. CASE ~ES!MayUse(task[p], p)
      BY <1>6, <1>a, <2>2, GoneShape DEF FinishRead, IInv, TypeOK, Over
    <2> QED
      BY <2>1, <2>2
  <1>7. ASSUME FinishWrite(p) PROVE Shape(p)
    <2>1. task[p] \in Jobs
      BY <1>7, <1>a, AtJob DEF FinishWrite, Over
    <2>2. outcome[p] \in ES!Finals
      BY <1>7, <1>a DEF FinishWrite, ProcOK, HolderOK, Ending, TypeOK
    <2>3. rows' \in [Jobs -> ES!Row]
      BY <1>7, <1>a, <2>1, <2>2, FinishFacts DEF FinishWrite, Touches
    <2> QED
      BY <1>7, <1>a, <2>3, GoneShape, Kinds DEF FinishWrite, IInv, TypeOK, Over
  <1>8. ASSUME ChildExits(p) PROVE Shape(p)
    <2>1. task[p] \in Jobs
      BY <1>8, <1>a, AtJob DEF ChildExits
    <2>2. child' = [child EXCEPT ![p] = "ok"] \/ child' = [child EXCEPT ![p] = "bad"]
      BY <1>8 DEF ChildExits
    <2> QED
      BY <1>8, <1>a, <2>1, <2>2, ChildShape DEF ChildExits, Shape, Alone, Same, PastClaim, TypeOK
  <1>9. ASSUME LaunchFails(p) PROVE Shape(p)
    BY <1>9, <1>a, GotoShape, OutcomeShape, FaultTyped
    DEF LaunchFails, Labels, ES!Finals, Shape, Alone, Same, PastClaim, TypeOK
  <1> QED
    BY <1>1, <1>2, <1>3, <1>4, <1>5, <1>6, <1>7, <1>8, <1>9 DEF HolderActs

\* What only a submission does.
SubmitterActs(s) ==
  CheckSidecar(s) \/ Lookup(s) \/ Insert(s) \/ Overtake(s) \/ Publish(s) \/ PublishFails(s)

LEMMA SubmitterShape ==
  ASSUME IInv, NEW s \in Submitters, SubmitterActs(s)
  PROVE  Shape(s)
  <1> USE DEF files, local, pipelines, requests
  <1>a. TypeOK /\ TableFinite /\ s \in Procs /\ s \in Holders /\ ProcOK(s)
    BY Kinds DEF IInv
  <1>b. ask[s].job \in Jobs /\ ask[s].digest \in Digests /\ ask[s].mode \in Modes
    BY <1>a, SubmitterJob
  <1>1. ASSUME CheckSidecar(s) PROVE Shape(s)
    <2>1. CASE StartAllowed(s)
      BY <1>1, <1>a, <2>1, GotoShape
      DEF CheckSidecar, Labels, Shape, Alone, Same, Direct, PastClaim, TypeOK
    <2>2. CASE ~StartAllowed(s) /\ ask[s].mode = "console"
      BY <1>1, <1>a, <2>2, GotoShape, OutcomeShape
      DEF CheckSidecar, Labels, ES!Finals, Shape, Alone, Same, PastClaim, TypeOK
    <2>3. CASE ~StartAllowed(s) /\ ask[s].mode # "console"
      BY <1>1, <1>a, <2>3, GotoShape
      DEF CheckSidecar, Labels, Over, Shape, Alone, Same, PastClaim, TypeOK
    <2> QED
      BY <2>1, <2>2, <2>3
  <1>2. ASSUME Lookup(s) PROVE Shape(s)
    BY <1>2, <1>a, GotoShape DEF Lookup, Labels, Over, Shape, Alone, Same, PastClaim, TypeOK
  <1>3. ASSUME Insert(s) PROVE Shape(s)
    <2>1. rows' \in [Jobs -> ES!Row]
      BY <1>3, <1>a, <1>b, InsertQueuedFacts, InsertRunningFacts DEF Insert, Touches, TypeOK
    <2>2. PICK label \in {"check", "publish", "refused"} : Goto(s, label)
      BY <1>3 DEF Insert, Claimed
    <2> QED
      BY <1>3, <1>a, <2>1, <2>2, GotoShape
      DEF Insert, Labels, Over, Shape, Alone, Same, PastClaim, TypeOK
  <1>4. ASSUME Overtake(s) PROVE Shape(s)
    <2>1. rows' \in [Jobs -> ES!Row]
      BY <1>4, <1>a, <1>b, OvertakeFacts DEF Overtake, Touches
    <2>2. PICK label \in {"check", "publish"} : Goto(s, label)
      BY <1>4 DEF Overtake, Claimed
    <2>3. crossed' \subseteq Jobs
      BY <1>4, <1>a, <1>b DEF Overtake, TypeOK
    <2> QED
      BY <1>4, <1>a, <2>1, <2>2, <2>3, GotoShape
      DEF Overtake, Labels, Shape, Alone, Same, PastClaim, TypeOK
  <1>5. ASSUME Publish(s) PROVE Shape(s)
    <2>1. FirstState(s) \in States \cup {"none", "accepted"}
      BY DEF FirstState, States, ES!Live
    <2>2. /\ status' \in [Jobs -> [state: States \cup {"none", "accepted"}, terminal: BOOLEAN]]
          /\ receipt' \in [Jobs -> Digests \cup {NoOne}]
      BY <1>5, <1>a, <1>b, <2>1, WriteSidecarTyped DEF Publish
    <2>3. PICK label \in {"beat", "publishAgain", "done"} : Goto(s, label)
      BY <1>5 DEF Publish
    <2> QED
      BY <1>5, <1>a, <2>2, <2>3, GotoShape
      DEF Publish, Labels, Over, Shape, Alone, Same, PastClaim, TypeOK
  <1>6. ASSUME PublishFails(s) PROVE Shape(s)
    <2>1. CASE s \in Direct \cup Enqueuers
      BY <1>6, <1>a, <2>1, GotoShape, OutcomeShape, FaultTyped
      DEF PublishFails, Labels, ES!Finals, Shape, Alone, Same, PastClaim, TypeOK
    <2>2. CASE s \notin Direct \cup Enqueuers
      BY <1>6, <1>a, <2>2, GotoShape, FaultTyped
      DEF PublishFails, Labels, Over, Shape, Alone, Same, PastClaim, TypeOK
    <2> QED
      BY <2>1, <2>2
  <1> QED
    BY <1>1, <1>2, <1>3, <1>4, <1>5, <1>6 DEF SubmitterActs

\* What only a worker does.
WorkerActs(w) ==
  \/ TakeNext(w) \/ Claim(w) \/ Reload(w) \/ ReloadInvalid(w) \/ Announce(w)
  \/ Terminate(w) \/ TimeOut(w) \/ StillRunning(w) \/ Restart(w)

LEMMA ClaimCandidateFacts ==
  ASSUME NEW w, NEW j \in ES!ClaimCandidates(w \in Stealing)
  PROVE  j \in Jobs /\ ~rows[j].terminal /\ rows[j].state \in ES!Live
  <1>1. j \in ES!Queued \/ j \in ES!Stealable
    BY DEF ES!ClaimCandidates
  <1> QED
    BY <1>1 DEF ES!Queued, ES!Stealable, ES!Live

LEMMA WorkerShape ==
  ASSUME IInv, NEW w \in Workers, WorkerActs(w)
  PROVE  Shape(w)
  <1> USE DEF files, local, pipelines, requests
  <1>a. TypeOK /\ w \in Procs /\ w \in Holders /\ w \notin Direct /\ ProcOK(w)
    BY Kinds DEF IInv
  <1>1. ASSUME TakeNext(w) PROVE Shape(w)
    <2>1. PICK j \in ES!ClaimCandidates(w \in Stealing) :
             task' = [task EXCEPT ![w] = j] /\ seen' = [seen EXCEPT ![w] = ES!Read(j)]
      BY <1>1 DEF TakeNext
    <2>2. j \in Jobs
      BY ClaimCandidateFacts
    <2> QED
      BY <1>1, <1>a, <2>1, <2>2, GotoShape, TaskShape, SeenShape, ReadTyped
      DEF TakeNext, Labels, Shape, Alone, Same, TypeOK
  <1>2. ASSUME Claim(w) PROVE Shape(w)
    <2>1. task[w] \in Jobs
      BY <1>2, <1>a, AtJob DEF Claim, Over
    <2>2. rows' \in [Jobs -> ES!Row]
      BY <1>2, <1>a, <2>1, ClaimNextFacts, ProcFields DEF Claim, Touches
    <2> QED
      BY <1>2, <1>a, <2>2, GotoShape, SeenShape, NoReadTyped
      DEF Claim, Labels, Shape, Alone, Same, TypeOK
  <1>3. ASSUME Reload(w) PROVE Shape(w)
    <2>1. CASE ~rows[task[w]].payload
      BY <1>3, <1>a, <2>1, GoneShape DEF Reload, IInv, TypeOK, Over
    <2>2. CASE rows[task[w]].payload /\ rows[task[w]].state = "cancel_requested"
      BY <1>3, <1>a, <2>2, GotoShape, OutcomeShape
      DEF Reload, Labels, ES!Finals, Shape, Alone, Same, TypeOK
    <2>3. CASE rows[task[w]].payload /\ rows[task[w]].state # "cancel_requested"
      BY <1>3, <1>a, <2>3, GotoShape DEF Reload, Labels, Shape, Alone, Same, TypeOK
    <2> QED
      BY <2>1, <2>2, <2>3
  <1>4. ASSUME ReloadInvalid(w) PROVE Shape(w)
    BY <1>4, <1>a, GotoShape, OutcomeShape, FaultTyped
    DEF ReloadInvalid, Labels, ES!Finals, Shape, Alone, Same, TypeOK
  <1>5. ASSUME Announce(w) PROVE Shape(w)
    <2>1. task[w] \in Jobs
      BY <1>5, <1>a, AtJob DEF Announce, Over
    <2>2. /\ status' \in [Jobs -> [state: States \cup {"none", "accepted"}, terminal: BOOLEAN]]
          /\ receipt' \in [Jobs -> Digests \cup {NoOne}]
      BY <1>5, <1>a, <2>1, WriteSidecarTyped, RowFields DEF Announce, States, ES!Live
    <2> QED
      BY <1>5, <1>a, <2>2, GotoShape DEF Announce, Labels, Shape, Alone, Same, TypeOK
  <1>6. ASSUME Terminate(w) \/ TimeOut(w) PROVE Shape(w)
    <2>1. PICK final \in ES!Finals : Ends(w, final)
      BY <1>6 DEF Terminate, TimeOut, ES!Finals
    <2> QED
      BY <1>a, <2>1, GotoShape, OutcomeShape, ChildShape
      DEF Ends, Labels, Shape, Alone, Same, TypeOK
  <1>7. ASSUME StillRunning(w) \/ Restart(w) PROVE Shape(w)
    <2>1. PICK label \in {"beat", "idle"} : Goto(w, label)
      BY <1>7 DEF StillRunning, Restart
    <2> QED
      BY <1>7, <1>a, <2>1, GotoShape
      DEF StillRunning, Restart, Labels, Shape, Alone, Same, TypeOK
  <1> QED
    BY <1>1, <1>2, <1>3, <1>4, <1>5, <1>6, <1>7 DEF WorkerActs

LEMMA CancellerShape ==
  ASSUME IInv, NEW c \in Cancellers, CancellerStep(c)
  PROVE  Shape(c)
  <1> USE DEF files, local, pipelines, requests
  <1>a. TypeOK /\ c \in Procs /\ c \notin Holders /\ c \notin Direct /\ c \notin Submitters /\ ProcOK(c)
    BY Kinds DEF IInv
  <1>1. ASSUME CancelRead(c) PROVE Shape(c)
    <2>1. PICK j \in Jobs :
             task' = [task EXCEPT ![c] = j] /\ seen' = [seen EXCEPT ![c] = ES!Read(j)]
      BY <1>1 DEF CancelRead
    <2> QED
      BY <1>1, <1>a, <2>1, GotoShape, TaskShape, SeenShape, ReadTyped
      DEF CancelRead, Labels, Shape, Alone, Same, TypeOK
  <1>2. ASSUME Cancel(c) PROVE Shape(c)
    <2>1. task[c] \in Jobs
      BY <1>2, <1>a, AtJob DEF Cancel, Over
    <2>2. rows' \in [Jobs -> ES!Row]
      BY <1>2, <1>a, <2>1, RequestCancelFacts, ProcFields DEF Cancel, Touches
    <2>3. asked' \subseteq Jobs /\ crossed' \subseteq Jobs
      BY <1>2, <1>a, <2>1 DEF Cancel, TypeOK
    <2> QED
      BY <1>2, <1>a, <2>2, <2>3, GotoShape, SeenShape, NoReadTyped
      DEF Cancel, Labels, Shape, Alone, Same, TypeOK
  <1>3. ASSUME CancelReread(c) PROVE Shape(c)
    <2>1. task[c] \in Jobs
      BY <1>3, <1>a, AtJob DEF CancelReread, Over
    <2>2. CASE rows[task[c]].payload
      BY <1>3, <1>a, <2>1, <2>2, GotoShape, SeenShape, ReadTyped
      DEF CancelReread, Labels, Shape, Alone, Same, TypeOK
    <2>3. CASE ~rows[task[c]].payload
      BY <1>3, <1>a, <2>3, GoneShape DEF CancelReread, IInv, TypeOK, Over
    <2> QED
      BY <2>2, <2>3
  <1>4. ASSUME CancelNote(c) PROVE Shape(c)
    <2>1. task[c] \in Jobs
      BY <1>4, <1>a, AtJob DEF CancelNote, Over
    <2>2. seen[c].state \in States /\ seen[c].terminal \in BOOLEAN
      BY <1>4, <1>a, ProcFields DEF CancelNote, ProcOK, SeenOK
    <2>3. /\ status' \in [Jobs -> [state: States \cup {"none", "accepted"}, terminal: BOOLEAN]]
          /\ receipt' \in [Jobs -> Digests \cup {NoOne}]
      BY <1>4, <1>a, <2>1, <2>2, WriteSidecarTyped, RowFields DEF CancelNote
    <2> QED
      BY <1>4, <1>a, <2>3, GoneShape DEF CancelNote, IInv, TypeOK, Over
  <1> QED
    BY <1>1, <1>2, <1>3, <1>4 DEF CancellerStep

LEMMA KillShape ==
  ASSUME IInv, NEW p \in Procs, Kill(p)
  PROVE  Shape(p)
  BY GoneShape, FaultTyped DEF Kill, IInv, TypeOK, Over, files, requests

\* What happens to a job without any process moving.
Outside(j) == OrphanExits(j) \/ ExpireUnattended(j) \/ ExpireStalled(j)

LEMMA OutsideShape ==
  ASSUME IInv, NEW j \in Jobs, Outside(j)
  PROVE  TypeOK' /\ ask' = ask /\ \A p \in Procs : Same(p)
  <1> USE DEF files, local, pipelines, requests
  <1>1. CASE OrphanExits(j)
    BY <1>1 DEF OrphanExits, IInv, TypeOK, Same
  <1>2. CASE ExpireUnattended(j) \/ ExpireStalled(j)
    <2>1. rows' \in [Jobs -> ES!Row]
      BY <1>2, LeaseFacts DEF ExpireUnattended, ExpireStalled, IInv, SameButLease, Touches
    <2>2. faults' \in 0..MaxFaults
      BY <1>2, FaultTyped DEF ExpireUnattended, ExpireStalled, IInv, TypeOK
    <2> QED
      BY <1>2, <2>1, <2>2 DEF ExpireUnattended, ExpireStalled, IInv, TypeOK, Same
  <1> QED
    BY <1>1, <1>2 DEF Outside

Acts ==
  \/ \E s \in Submitters : SubmitterActs(s)
  \/ \E w \in Workers : WorkerActs(w)
  \/ \E p \in Holders : HolderActs(p)
  \/ \E c \in Cancellers : CancellerStep(c)
  \/ \E p \in Procs : Kill(p)

LEMMA NextCases ==
  ASSUME TypeOK, Next
  PROVE  Acts \/ \E j \in Jobs : Outside(j)
  <1>1. ASSUME NEW s \in Submitters, SubmitterStep(s) \/ PublishFails(s) PROVE Acts
    BY <1>1, Kinds DEF SubmitterStep, HolderStep, SubmitterActs, HolderActs, Acts
  <1>2. ASSUME NEW w \in Workers, WorkerStep(w) \/ ReloadInvalid(w) \/ Restart(w) PROVE Acts
    BY <1>2, Kinds DEF WorkerStep, HolderStep, WorkerActs, HolderActs, Acts
  <1>3. ASSUME NEW p \in Holders, ChildExits(p) \/ LaunchFails(p) PROVE Acts
    BY <1>3 DEF HolderActs, Acts
  <1>4. ASSUME NEW c \in Cancellers, CancellerStep(c) PROVE Acts
    BY <1>4 DEF Acts
  <1>5. ASSUME NEW p \in Procs, Kill(p) PROVE Acts
    BY <1>5 DEF Acts
  <1> QED
    BY <1>1, <1>2, <1>3, <1>4, <1>5 DEF Next, Outside

LEMMA NextShape ==
  ASSUME IInv, Next
  PROVE  (\E p \in Procs : Shape(p)) \/ (TypeOK' /\ ask' = ask /\ \A p \in Procs : Same(p))
  <1>1. CASE Acts
    BY <1>1, SubmitterShape, WorkerShape, HolderShape, CancellerShape, KillShape, Kinds DEF Acts, IInv
  <1>2. CASE \E j \in Jobs : Outside(j)
    BY <1>2, OutsideShape
  <1> QED
    BY <1>1, <1>2, NextCases DEF IInv

--------------------------------------------------------------------------------
(* What never goes back                                                    *)

\* History grows, and a claim that had its turn keeps it.
Onward ==
  /\ TypeOK' /\ ask' = ask /\ Direct' = Direct /\ Enqueuers' = Enqueuers
  /\ ran \subseteq ran' /\ asked \subseteq asked' /\ crossed \subseteq crossed'
  /\ \A j \in Jobs : Taken(j) => Taken(j)'

LEMMA HistoryGrows ==
  ASSUME IInv, Next
  PROVE  /\ ran \subseteq ran' /\ asked \subseteq asked' /\ crossed \subseteq crossed'
         /\ \/ asked' = asked
            \/ \E c \in Cancellers : Cancel(c)
  <1> USE DEF files, local, pipelines, requests
  <1>0. \A p, label : Gone(p, label) => ran' = ran
    BY DEF Gone
  <1>1. ASSUME NEW s \in Submitters, SubmitterActs(s)
        PROVE  ran' = ran /\ asked' = asked /\ crossed \subseteq crossed'
    BY <1>1 DEF SubmitterActs, CheckSidecar, Lookup, Insert, Overtake, Publish, PublishFails
  <1>2. ASSUME NEW w \in Workers, WorkerActs(w)
        PROVE  ran' = ran /\ asked' = asked /\ crossed' = crossed
    BY <1>0, <1>2
    DEF WorkerActs, TakeNext, Claim, Reload, ReloadInvalid, Announce, Terminate, TimeOut, Ends,
        StillRunning, Restart
  <1>3. ASSUME NEW p \in Holders, HolderActs(p)
        PROVE  ran \subseteq ran' /\ asked' = asked /\ crossed' = crossed
    BY <1>0, <1>3
    DEF HolderActs, Beat, BeatWrite, Launch, LaunchFails, Collect, Ends, Report, FinishRead,
        FinishWrite, ChildExits
  <1>4. ASSUME NEW c \in Cancellers, CancellerStep(c)
        PROVE  /\ ran' = ran /\ asked \subseteq asked' /\ crossed \subseteq crossed'
               /\ asked' = asked \/ Cancel(c)
    BY <1>0, <1>4 DEF CancellerStep, CancelRead, Cancel, CancelReread, CancelNote
  <1>5. ASSUME NEW p \in Procs, Kill(p)
        PROVE  ran' = ran /\ asked' = asked /\ crossed' = crossed
    BY <1>0, <1>5 DEF Kill
  <1>6. ASSUME NEW j \in Jobs, Outside(j)
        PROVE  ran \subseteq ran' /\ asked' = asked /\ crossed' = crossed
    BY <1>6 DEF Outside, OrphanExits, ExpireUnattended, ExpireStalled
  <1> QED
    BY <1>1, <1>2, <1>3, <1>4, <1>5, <1>6, NextCases DEF Acts, IInv

LEMMA GoesOn ==
  ASSUME IInv, Next
  PROVE  Onward
  <1>1. TypeOK' /\ ask' = ask /\ \A s \in Direct : PastClaim(s) => PastClaim(s)'
    <2>1. CASE \E p \in Procs : Shape(p)
      BY <2>1, Kinds DEF Shape, Alone, Same, PastClaim, IInv
    <2>2. CASE TypeOK' /\ ask' = ask /\ \A p \in Procs : Same(p)
      BY <2>2, Kinds DEF Same, PastClaim, IInv
    <2> QED
      BY <2>1, <2>2, NextShape
  <1>2. Direct' = Direct /\ Enqueuers' = Enqueuers
    BY <1>1 DEF Direct, Enqueuers
  <1>3. ASSUME NEW j \in Jobs, Taken(j) PROVE Taken(j)'
    <2>1. PICK s \in Direct : ask[s].job = j /\ PastClaim(s)
      BY <1>3 DEF Taken, PastClaim
    <2>2. s \in Direct' /\ ask'[s].job = j /\ PastClaim(s)'
      BY <1>1, <1>2, <2>1
    <2> QED
      BY <2>2 DEF Taken, PastClaim
  <1> QED
    BY <1>1, <1>2, <1>3, HistoryGrows DEF Onward

--------------------------------------------------------------------------------
(* What a statement leaves in the row it writes                            *)

KeptAt(j) == j \in asked => rows[j].terminal \/ rows[j].state = "cancel_requested" \/ j \in crossed

PayloadAt(j) == rows[j].state \in ES!Live => rows[j].terminal \/ rows[j].payload \/ Taken(j)

FineAt(j) ==
  /\ Present(j) /\ Justified(rows[j].state, j) /\ KeptAt(j) /\ PayloadAt(j)
  /\ rows[j].state \in ES!Finals => rows[j].terminal

Writes(j) == Touches(j) /\ FineAt(j)' /\ (Left(j) => Left(j)')

LEMMA RowFacts ==
  ASSUME IInv, NEW j \in Jobs
  PROVE  /\ RowOK(j) /\ KeptAt(j) /\ PayloadAt(j)
         /\ Left(j) => Present(j)
  <1>1. RowOK(j)
    BY DEF IInv
  <1>2. KeptAt(j)
    BY DEF IInv, CancellationKept, KeptAt
  <1>3. PayloadAt(j)
    BY DEF IInv, PayloadKept, PayloadAt
  <1>4. Left(j) => Present(j)
    BY <1>1, AbsentFields DEF RowOK, Left
  <1> QED
    BY <1>1, <1>2, <1>3, <1>4 DEF RowOK

LEMMA InsertWrites ==
  ASSUME IInv, Onward, NEW s \in Submitters, Insert(s), rows' # rows,
         NEW j \in Jobs, j = ask[s].job
  PROVE  Writes(j)
  <1>a. TypeOK /\ TableFinite /\ s \in Holders /\ j \in Jobs /\ ask[s].digest \in Digests /\ s \in Procs
    BY SubmitterJob, Kinds DEF IInv
  <1>b. rows[j] = ES!Absent /\ asked' = asked /\ crossed' = crossed /\ ran' = ran
    BY DEF Insert, UniqueKeyFree, requests, pipelines
  <1>c. j \notin asked /\ ~Left(j)
    BY <1>a, <1>b, RowFacts, AbsentFields DEF RowOK, Left, Present
  <1>1. CASE s \in Enqueuers
    <2>1. ES!InsertQueued(j, s, ask[s].digest)
      BY <1>1 DEF Insert
    <2>2. Touches(j) /\ rows'[j].state = "queued" /\ rows'[j].payload
      BY <1>a, <2>1, InsertQueuedFacts
    <2> QED
      BY <1>b, <1>c, <2>2
      DEF Writes, FineAt, Present, Justified, KeptAt, PayloadAt, ES!Finals
  <1>2. CASE s \notin Enqueuers
    <2>1. ES!InsertRunning(j, s, ask[s].digest) /\ Claimed(s)
      BY <1>2 DEF Insert
    <2>2. Touches(j) /\ rows'[j].state = "running"
      BY <1>a, <2>1, InsertRunningFacts
    <2>3. s \in Direct
      BY <1>2, <1>a, Kinds DEF IInv, ProcOK, LabelsOf, Insert, Over
    <2>4. Taken(j)'
      BY <1>a, <2>1, <2>3, GotoShape DEF Claimed, Labels, Onward, Taken
    <2> QED
      BY <1>b, <1>c, <2>2, <2>4
      DEF Writes, FineAt, Present, Justified, KeptAt, PayloadAt, ES!Finals
  <1> QED
    BY <1>1, <1>2

LEMMA OvertakeWrites ==
  ASSUME IInv, Onward, NEW s \in Submitters, Overtake(s),
         NEW j \in Jobs, j = ask[s].job
  PROVE  Writes(j)
  <1>a. TypeOK /\ s \in Holders /\ j \in Jobs /\ s \in Procs
    BY SubmitterJob, Kinds DEF IInv
  <1>1. s \in Direct
    BY <1>a, Kinds DEF IInv, ProcOK, LabelsOf, Overtake, Over
  <1>2. Touches(j) /\ rows'[j].state = "running" /\ rows'[j].owner = s
    BY <1>a, OvertakeFacts DEF Overtake
  <1>3. Taken(j)'
    BY <1>a, <1>1, GotoShape DEF Overtake, Claimed, Labels, Onward, Taken
  <1>4. j \in asked' => j \in crossed'
    BY DEF Overtake
  <1>5. Left(j)'
    BY <1>a, <1>1, <1>2, Kinds DEF Left, Onward
  <1> QED
    BY <1>2, <1>3, <1>4, <1>5
    DEF Writes, FineAt, Present, Justified, KeptAt, PayloadAt, ES!Finals

LEMMA ClaimWrites ==
  ASSUME IInv, Onward, NEW w \in Workers, Claim(w),
         NEW j \in Jobs, j = task[w]
  PROVE  Writes(j)
  <1>a. TypeOK /\ w \in Holders /\ w \in Procs /\ pc[w] = "claim"
    BY Kinds DEF IInv, Claim
  <1>b. /\ j \in Jobs /\ Present(j) /\ SeenOK(w) /\ seen[w].payload \in BOOLEAN
        /\ asked' = asked /\ crossed' = crossed /\ ran' = ran
    BY <1>a, AtJob, ProcFields, Kinds DEF Claim, requests, pipelines, ProcOK, TaskOK, Over
  <1>1. /\ Touches(j)
        /\ rows[j].terminal => rows'[j] = rows[j]
        /\ ~rows[j].terminal =>
             /\ rows'[j].state = IF seen[w].state = "cancel_requested"
                                 THEN "cancel_requested" ELSE "running"
             /\ ~rows'[j].terminal /\ rows'[j].owner = w
             /\ rows'[j].payload = seen[w].payload
    BY <1>a, <1>b, ClaimNextFacts DEF Claim
  <1>2. CASE rows[j].terminal
    BY <1>b, <1>1, <1>2, RowFacts
    DEF Writes, FineAt, Present, Justified, KeptAt, PayloadAt, RowOK, Left, Onward
  <1>3. CASE ~rows[j].terminal
    <2>1. Justified(rows[j].state, j)'
      BY <1>a, <1>b, <1>1, <1>3 DEF SeenOK, Justified
    <2>2. KeptAt(j)'
      BY <1>a, <1>b, <1>1, <1>3 DEF SeenOK, KeptAt
    <2>3. PayloadAt(j)'
      BY <1>a, <1>b, <1>1, <1>3 DEF SeenOK, PayloadAt, Onward
    <2>4. Left(j)'
      BY <1>a, <1>1, <1>3, Kinds DEF Left, Onward
    <2> QED
      BY <1>1, <1>3, <2>1, <2>2, <2>3, <2>4 DEF Writes, FineAt, Present, Justified, ES!Finals
  <1> QED
    BY <1>2, <1>3

LEMMA CancelWrites ==
  ASSUME IInv, Onward, NEW c \in Cancellers, Cancel(c),
         NEW j \in Jobs, j = task[c]
  PROVE  Writes(j)
  <1>a. TypeOK /\ c \in Procs /\ pc[c] = "cancel"
    BY Kinds DEF IInv, Cancel
  <1>b. /\ j \in Jobs /\ SeenOK(c) /\ seen[c].payload \in BOOLEAN /\ j \in asked'
    BY <1>a, AtJob, ProcFields DEF Cancel, ProcOK, Over
  <1>1. /\ Touches(j)
        /\ rows'[j].owner = rows[j].owner /\ rows'[j].payload = seen[c].payload
        /\ \/ rows'[j].state = "cancelled" /\ rows'[j].terminal
           \/ rows'[j].state = "cancel_requested" /\ rows'[j].terminal = rows[j].terminal
    BY <1>a, <1>b, RequestCancelFacts DEF Cancel
  <1> QED
    BY <1>a, <1>b, <1>1
    DEF Writes, FineAt, Present, Justified, KeptAt, PayloadAt, SeenOK, Left, Onward, ES!Finals

LEMMA LeaseWrites ==
  ASSUME IInv, Onward, NEW j \in Jobs, Present(j), ES!Heartbeat(j) \/ ES!Expire(j),
         asked' = asked
  PROVE  Writes(j)
  <1>1. SameButLease(j)
    BY LeaseFacts DEF IInv
  <1>2. Touches(j)
    BY <1>1 DEF SameButLease
  <1> QED
    BY <1>1, <1>2, RowFacts
    DEF SameButLease, Writes, FineAt, Present, Justified, KeptAt, PayloadAt, RowOK, Left, Onward

LEMMA FinishWrites ==
  ASSUME IInv, Onward, NEW p \in Holders, FinishWrite(p),
         NEW j \in Jobs, j = task[p]
  PROVE  Writes(j)
  <1>a. TypeOK /\ p \in Procs /\ pc[p] = "finishWrite"
    BY Kinds DEF IInv, FinishWrite
  <1>b. j \in Jobs /\ HolderOK(p) /\ outcome[p] \in ES!Finals
    BY <1>a, AtJob, ProcFields DEF ProcOK, HolderOK, Ending, Over
  <1>1. /\ Touches(j)
        /\ rows'[j].state = outcome[p] /\ rows'[j].terminal /\ rows'[j].owner = rows[j].owner
    BY <1>a, <1>b, FinishFacts DEF FinishWrite
  <1> QED
    BY <1>a, <1>b, <1>1
    DEF Writes, FineAt, Present, Justified, KeptAt, PayloadAt, HolderOK, Left, Onward, ES!Finals

--------------------------------------------------------------------------------
(* The table and the sidecars after any step                               *)

\* At most one row is written, and only that job can have become asked for.
RowsMove ==
  \/ rows' = rows /\ asked' = asked
  \/ \E j \in Jobs : Writes(j) /\ asked' \subseteq asked \cup {j}

LEMMA RowsStep ==
  ASSUME IInv, Next
  PROVE  RowsMove
  <1> USE DEF files, local, pipelines, requests
  <1>a. Onward /\ TypeOK
    BY GoesOn DEF IInv
  <1>1. ASSUME NEW s \in Submitters, SubmitterActs(s) PROVE RowsMove
    <2>0. PICK j \in Jobs : j = ask[s].job
      BY <1>a, SubmitterJob
    <2>1. CASE Insert(s)
      <3>1. CASE rows' = rows
        BY <2>1, <3>1 DEF Insert, RowsMove
      <3>2. CASE rows' # rows
        BY <1>a, <2>0, <2>1, <3>2, InsertWrites DEF Insert, RowsMove
      <3> QED
        BY <3>1, <3>2
    <2>2. CASE Overtake(s)
      BY <1>a, <2>0, <2>2, OvertakeWrites DEF Overtake, RowsMove
    <2> QED
      BY <1>1, <2>1, <2>2 DEF SubmitterActs, CheckSidecar, Lookup, Publish, PublishFails, RowsMove
  <1>2. ASSUME NEW w \in Workers, WorkerActs(w) PROVE RowsMove
    <2>1. CASE Claim(w)
      <3>1. PICK j \in Jobs : j = task[w]
        BY <2>1, AtJob, Kinds DEF Claim, Over, IInv
      <3> QED
        BY <1>a, <2>1, <3>1, ClaimWrites DEF Claim, RowsMove
    <2> QED
      BY <1>2, <2>1
      DEF WorkerActs, TakeNext, Reload, ReloadInvalid, Announce, Terminate, TimeOut, Ends,
          StillRunning, Restart, RowsMove
  <1>3. ASSUME NEW p \in Holders, HolderActs(p) PROVE RowsMove
    <2>0. p \in Procs /\ ProcOK(p)
      BY Kinds DEF IInv
    <2>1. CASE BeatWrite(p)
      <3>1. PICK j \in Jobs : j = task[p]
        BY <2>0, <2>1, AtJob DEF BeatWrite, Over
      <3>2. Left(j)
        BY <2>0, <2>1, <3>1 DEF BeatWrite, ProcOK, HolderOK
      <3> QED
        BY <1>a, <2>1, <3>1, <3>2, RowFacts, LeaseWrites DEF BeatWrite, RowsMove
    <2>2. CASE FinishWrite(p)
      <3>1. PICK j \in Jobs : j = task[p]
        BY <2>0, <2>2, AtJob DEF FinishWrite, Over
      <3> QED
        BY <1>a, <2>2, <3>1, FinishWrites DEF FinishWrite, RowsMove
    <2> QED
      BY <1>3, <2>1, <2>2
      DEF HolderActs, Beat, Launch, LaunchFails, Collect, Ends, Report, FinishRead, ChildExits, RowsMove
  <1>4. ASSUME NEW c \in Cancellers, CancellerStep(c) PROVE RowsMove
    <2>1. CASE Cancel(c)
      <3>1. PICK j \in Jobs : j = task[c]
        BY <2>1, AtJob, Kinds DEF Cancel, Over, IInv
      <3> QED
        BY <1>a, <2>1, <3>1, CancelWrites DEF Cancel, RowsMove
    <2> QED
      BY <1>4, <2>1 DEF CancellerStep, CancelRead, CancelReread, CancelNote, RowsMove
  <1>5. ASSUME NEW p \in Procs, Kill(p) PROVE RowsMove
    BY <1>5 DEF Kill, RowsMove
  <1>6. ASSUME NEW j \in Jobs, Outside(j) PROVE RowsMove
    <2>1. CASE OrphanExits(j)
      BY <2>1 DEF OrphanExits, RowsMove
    <2>2. CASE ExpireUnattended(j) \/ ExpireStalled(j)
      BY <1>a, <2>2, LeaseWrites DEF ExpireUnattended, ExpireStalled, Present, RowsMove
    <2> QED
      BY <1>6, <2>1, <2>2 DEF Outside
  <1> QED
    BY <1>a, <1>1, <1>2, <1>3, <1>4, <1>5, <1>6, NextCases DEF Acts

\* A sidecar is only ever given a state that is true of its job.
StatusMove ==
  \A j \in Jobs : status'[j] = status[j] \/ Justified(status'[j].state, j)

LEMMA StatusStep ==
  ASSUME IInv, Next
  PROVE  StatusMove
  <1> USE DEF files, local, pipelines, requests
  <1>1. ASSUME NEW s \in Submitters, SubmitterActs(s) PROVE StatusMove
    <2>1. CASE Publish(s)
      BY <2>1, SubmitterJob DEF Publish, WriteSidecar, FirstState, Justified, StatusMove, IInv, TypeOK
    <2> QED
      BY <1>1, <2>1 DEF SubmitterActs, CheckSidecar, Lookup, Insert, Overtake, PublishFails, StatusMove
  <1>2. ASSUME NEW w \in Workers, WorkerActs(w) PROVE StatusMove
    <2>1. CASE Announce(w)
      BY <2>1 DEF Announce, WriteSidecar, Justified, StatusMove, IInv, TypeOK
    <2> QED
      BY <1>2, <2>1
      DEF WorkerActs, TakeNext, Claim, Reload, ReloadInvalid, Terminate, TimeOut, Ends,
          StillRunning, Restart, StatusMove
  <1>3. ASSUME NEW p \in Holders, HolderActs(p) PROVE StatusMove
    <2>1. CASE Report(p)
      <3>1. Justified(outcome[p], task[p])
        BY Kinds DEF IInv, ProcOK, HolderOK
      <3> QED
        BY <2>1, <3>1 DEF Report, WriteSidecar, StatusMove, IInv, TypeOK
    <2> QED
      BY <1>3, <2>1
      DEF HolderActs, Beat, BeatWrite, Launch, LaunchFails, Collect, Ends, FinishRead,
          FinishWrite, ChildExits, StatusMove
  <1>4. ASSUME NEW c \in Cancellers, CancellerStep(c) PROVE StatusMove
    <2>1. CASE CancelNote(c)
      <3>1. Justified(seen[c].state, task[c])
        BY Kinds DEF IInv, ProcOK, SeenOK
      <3> QED
        BY <2>1, <3>1 DEF CancelNote, WriteSidecar, StatusMove, IInv, TypeOK
    <2> QED
      BY <1>4, <2>1 DEF CancellerStep, CancelRead, Cancel, CancelReread, StatusMove
  <1>5. ASSUME NEW p \in Procs, Kill(p) PROVE StatusMove
    BY <1>5 DEF Kill, StatusMove
  <1>6. ASSUME NEW j \in Jobs, Outside(j) PROVE StatusMove
    BY <1>6 DEF Outside, OrphanExits, ExpireUnattended, ExpireStalled, StatusMove
  <1> QED
    BY <1>1, <1>2, <1>3, <1>4, <1>5, <1>6, NextCases DEF Acts, IInv

\* Only a pipeline somebody was running becomes an orphan.
OrphansMove == \A j \in orphans' : j \in orphans \/ Left(j)

LEMMA OrphansStep ==
  ASSUME IInv, Next
  PROVE  OrphansMove
  <1> USE DEF files, local, pipelines, requests
  <1>0. ASSUME NEW p \in Procs, NEW label \in Over \cup {"idle"}, Gone(p, label) PROVE OrphansMove
    BY <1>0, GoneFacts, Kinds DEF IInv, ProcOK, HolderOK, OrphansMove
  <1>1. ASSUME NEW s \in Submitters, SubmitterActs(s) PROVE OrphansMove
    BY <1>1
    DEF SubmitterActs, CheckSidecar, Lookup, Insert, Overtake, Publish, PublishFails, OrphansMove
  <1>2. ASSUME NEW w \in Workers, WorkerActs(w) PROVE OrphansMove
    BY <1>0, <1>2, Kinds
    DEF WorkerActs, TakeNext, Claim, Reload, ReloadInvalid, Announce, Terminate, TimeOut, Ends,
        StillRunning, Restart, OrphansMove, Over, IInv
  <1>3. ASSUME NEW p \in Holders, HolderActs(p) PROVE OrphansMove
    BY <1>0, <1>3, Kinds
    DEF HolderActs, Beat, BeatWrite, Launch, LaunchFails, Collect, Ends, Report, FinishRead,
        FinishWrite, ChildExits, OrphansMove, Over, IInv
  <1>4. ASSUME NEW c \in Cancellers, CancellerStep(c) PROVE OrphansMove
    BY <1>0, <1>4, Kinds
    DEF CancellerStep, CancelRead, Cancel, CancelReread, CancelNote, OrphansMove, Over, IInv
  <1>5. ASSUME NEW p \in Procs, Kill(p) PROVE OrphansMove
    BY <1>0, <1>5 DEF Kill, Over
  <1>6. ASSUME NEW j \in Jobs, Outside(j) PROVE OrphansMove
    BY <1>6 DEF Outside, OrphanExits, ExpireUnattended, ExpireStalled, OrphansMove
  <1> QED
    BY <1>1, <1>2, <1>3, <1>4, <1>5, <1>6, NextCases DEF Acts, IInv

\* What the table says after the step, and what it no longer takes back.
LEMMA TableKept ==
  ASSUME IInv, Next
  PROVE  /\ \A j \in Jobs : RowOK(j)' /\ KeptAt(j)' /\ PayloadAt(j)'
         /\ \A j \in Jobs : (Present(j) => Present(j)') /\ (Left(j) => Left(j)')
         /\ TableFinite'
  <1>a. Onward /\ RowsMove /\ StatusMove /\ OrphansMove
    BY GoesOn, RowsStep, StatusStep, OrphansStep
  <1>1. ASSUME NEW j \in Jobs
        PROVE  /\ KeptAt(j)' /\ PayloadAt(j)' /\ Justified(rows[j].state, j)'
               /\ (~Present(j) => rows[j] = ES!Absent)'
               /\ (rows[j].state \in ES!Finals => rows[j].terminal)'
               /\ (j \in asked => Present(j))'
               /\ (Present(j) => Present(j)') /\ (Left(j) => Left(j)')
    <2>1. CASE Writes(j)
      BY <2>1 DEF Writes, FineAt
    <2>2. CASE rows'[j] = rows[j] /\ (j \in asked' => j \in asked)
      BY <1>a, <2>2, RowFacts
      DEF Onward, RowOK, KeptAt, PayloadAt, Justified, Present, Left
    <2> QED
      BY <1>a, <2>1, <2>2 DEF RowsMove, Writes, Touches
  <1>2. ASSUME NEW j \in Jobs PROVE Justified(status[j].state, j)'
    BY <1>a, RowFacts DEF RowOK, StatusMove, Justified, Onward
  <1>3. ASSUME NEW j \in Jobs, j \in orphans' PROVE Left(j)'
    BY <1>a, <1>1, <1>3, RowFacts DEF RowOK, OrphansMove
  <1>4. TableFinite'
    <2> DEFINE InTable == {j \in Jobs : rows[j] # ES!Absent}
               InNext  == {j \in Jobs : rows'[j] # ES!Absent}
    <2>1. PICK k : InNext \subseteq InTable \cup {k}
      BY <1>a DEF RowsMove, Writes, Touches
    <2>2. IsFiniteSet(InTable \cup {k})
      BY FS_AddElement DEF IInv, TableFinite
    <2>3. IsFiniteSet(InNext)
      BY <2>1, <2>2, FS_Subset
    <2> QED
      BY <2>3 DEF TableFinite
  <1> QED
    BY <1>1, <1>2, <1>3, <1>4 DEF RowOK

--------------------------------------------------------------------------------
(* The processes after any step                                            *)

\* What the rest of the system leaves true for a process that remembers it.
Kept ==
  /\ Onward
  /\ \A j \in Jobs : (Present(j) => Present(j)') /\ (Left(j) => Left(j)')
  /\ \A p \in Procs : LabelsOf(p)' = LabelsOf(p)

LEMMA KeptStep ==
  ASSUME IInv, Next
  PROVE  Kept
  <1>1. Onward
    BY GoesOn
  <1>2. \A p \in Procs : LabelsOf(p)' = LabelsOf(p)
    BY <1>1 DEF Onward, LabelsOf
  <1> QED
    BY <1>1, <1>2, TableKept DEF Kept

\* A cancellation that arrives while a worker is claiming is marked as crossed.
LEMMA ClaimCrossed ==
  ASSUME IInv, Next, NEW w \in Workers, pc[w] = "claim", task[w] \in asked', task[w] \notin asked
  PROVE  task[w] \in crossed'
  <1>1. PICK c \in Cancellers : Cancel(c)
    BY HistoryGrows
  <1>2. task[w] = task[c]
    BY <1>1 DEF Cancel
  <1> QED
    BY <1>1, <1>2 DEF Cancel, Claiming

LEMMA SameKept ==
  ASSUME IInv, Next, NEW q \in Procs, Same(q)
  PROVE  ProcOK(q)'
  <1>a. Kept /\ Onward /\ ProcOK(q) /\ TypeOK
    BY KeptStep DEF Kept, IInv
  <1>1. TaskOK(q)'
    BY <1>a DEF ProcOK, TaskOK, Same, Kept, Onward
  <1>2. SeenOK(q)'
    <2>1. Justified(seen[q].state, task[q])'
      BY <1>a DEF ProcOK, SeenOK, Justified, Same, Onward
    <2>2. (pc[q] \in {"claim", "cancel"} => seen[q].payload \/ Taken(task[q]))'
      <3>1. pc[q] \in {"claim", "cancel"} => task[q] \in Jobs
        BY AtJob DEF Over
      <3> QED
        BY <1>a, <3>1 DEF ProcOK, SeenOK, Same, Onward, Taken
    <2>3. (pc[q] = "claim" /\ task[q] \in asked =>
             task[q] \in crossed \/ seen[q].state = "cancel_requested")'
      <3>1. pc[q] = "claim" => q \in Workers
        BY <1>a, Kinds DEF ProcOK, LabelsOf, Holding, Ending, Over
      <3> QED
        BY <1>a, <3>1, ClaimCrossed DEF ProcOK, SeenOK, Same, Onward
    <2> QED
      BY <1>a, <2>1, <2>2, <2>3 DEF ProcOK, SeenOK, Same
  <1>3. (Admitted(q) => Present(task[q]))'
    BY <1>a, ProcFields, Kinds DEF ProcOK, Admitted, Same, Kept, Onward, Present
  <1>4. (q \in Holders => HolderOK(q))'
    <2> SUFFICES ASSUME q \in Holders PROVE HolderOK(q)'
      OBVIOUS
    <2>1. Justified(outcome[q], task[q])'
      BY <1>a DEF ProcOK, HolderOK, Justified, Same, Onward
    <2>2. (child[q] # "none" \/ pc[q] \in {"beatWrite", "launch", "watch"} => Left(task[q]))'
      <3>1. child[q] # "none" \/ pc[q] \in {"beatWrite", "launch", "watch"} => task[q] \in Jobs
        BY AtJob DEF Over
      <3> QED
        BY <1>a, <3>1 DEF ProcOK, HolderOK, Same, Kept, Left
    <2> QED
      BY <1>a, <2>1, <2>2 DEF ProcOK, HolderOK, Same, Onward
  <1>5. pc'[q] \in LabelsOf(q)'
    BY <1>a DEF ProcOK, Same, Kept
  <1> QED
    BY <1>1, <1>2, <1>3, <1>4, <1>5 DEF ProcOK

\* A process that is gone remembers nothing and runs nothing.
LEMMA GoneKept ==
  ASSUME IInv, Kept, NEW p \in Procs, NEW label \in Over \cup {"idle"}, Gone(p, label),
         label \in LabelsOf(p), label # "done" \/ p \notin Enqueuers
  PROVE  ProcOK(p)'
  <1>a. /\ pc'[p] = label /\ seen'[p] = NoRead
        /\ task'[p] = IF p \in Submitters THEN task[p] ELSE NoOne
        /\ p \in Holders => outcome'[p] = "none" /\ child'[p] = "none"
    BY GoneFacts
  <1>b. ProcOK(p) /\ TypeOK
    BY DEF IInv
  <1>1. TaskOK(p)'
    BY <1>a, <1>b DEF ProcOK, TaskOK, Kept, Onward, Over
  <1>2. SeenOK(p)'
    BY <1>a, NoReadTyped DEF SeenOK, Justified, Over
  <1>3. ~Admitted(p)'
    BY <1>a DEF Admitted, Kept, Onward, Over
  <1>4. p \in Holders => HolderOK(p)'
    BY <1>a DEF HolderOK, Justified, Ending, Over
  <1> QED
    BY <1>a, <1>1, <1>2, <1>3, <1>4 DEF ProcOK, Kept

\* A process that goes on with the job it is at, and reads nothing of it.
Stays(p) == task'[p] = task[p] /\ seen'[p] = seen[p]

LEMMA StaysKept ==
  ASSUME IInv, Kept, NEW p \in Procs, Stays(p), pc'[p] \in LabelsOf(p),
         p \in Submitters \/ pc[p] \notin {"idle", "start"} \cup Over,
         pc'[p] \notin {"claim", "cancel", "note"},
         p \in Holders => HolderOK(p)',
         Admitted(p)' => Admitted(p) \/ Present(task[p])
  PROVE  ProcOK(p)'
  <1>a. ProcOK(p) /\ TypeOK
    BY DEF IInv
  <1>b. p \in Submitters \/ pc[p] \notin {"idle", "start"} \cup Over => task[p] \in Jobs
    BY <1>a, ProcFields, AtJob
  <1>1. TaskOK(p)'
    BY <1>a DEF ProcOK, TaskOK, Stays, Kept, Onward
  <1>2. SeenOK(p)'
    BY <1>a DEF ProcOK, SeenOK, Stays, Justified, Kept, Onward
  <1>3. Admitted(p)' => Present(task[p])'
    BY <1>a, <1>b DEF ProcOK, Stays, Kept, Present
  <1> QED
    BY <1>1, <1>2, <1>3 DEF ProcOK, Kept

LEMMA HolderKept ==
  ASSUME IInv, Kept, NEW p \in Holders, HolderActs(p)
  PROVE  ProcOK(p)'
  <1> USE DEF files, local, pipelines, requests
  <1>a. /\ TypeOK /\ p \in Procs /\ p \notin Cancellers /\ ProcOK(p) /\ HolderOK(p)
        /\ Onward /\ pc[p] \in LabelsOf(p)
    BY Kinds DEF IInv, ProcOK, Kept
  <1>b. p \in Workers \cup Direct => Holding \subseteq LabelsOf(p) /\ ~Admitted(p) /\ ~Admitted(p)'
    BY <1>a, Kinds DEF LabelsOf, Holding, Admitted, Onward
  <1>1. ASSUME p \in Workers \cup Direct, Beat(p) PROVE ProcOK(p)'
    <2>1. CASE ES!MayUse(task[p], p)
      <3>1. /\ pc'[p] = "beatWrite" /\ Stays(p)
            /\ outcome'[p] = outcome[p] /\ child'[p] = child[p]
        BY <1>1, <1>a, <2>1, GotoShape DEF Beat, Labels, Stays
      <3>2. task[p] \in Jobs /\ Left(task[p])
        BY <1>1, <1>a, <2>1, AtJob, Kinds DEF Beat, Over, ES!MayUse, Left
      <3>3. HolderOK(p)'
        BY <1>1, <1>a, <3>1, <3>2
        DEF Beat, HolderOK, Justified, Stays, Ending, Kept, Onward, Left
      <3> QED
        BY <1>1, <1>a, <1>b, <3>1, <3>3, StaysKept DEF Beat, Holding, Over
    <2>2. CASE ~ES!MayUse(task[p], p) /\ p \in Workers
      BY <1>1, <1>a, <2>2, GoneKept, Kinds DEF Beat, Over, LabelsOf
    <2>3. CASE ~ES!MayUse(task[p], p) /\ p \notin Workers
      <3>1. /\ pc'[p] = "finish" /\ Stays(p) /\ outcome'[p] = "failed" /\ child'[p] = "none"
        BY <1>1, <1>a, <2>3, GotoShape, OutcomeShape DEF Beat, Labels, Stays, HolderOK, ES!Finals
      <3>2. HolderOK(p)'
        BY <3>1 DEF HolderOK, Justified, Ending
      <3> QED
        BY <1>1, <1>a, <1>b, <3>1, <3>2, StaysKept DEF Beat, Holding, Ending, Over
    <2> QED
      BY <2>1, <2>2, <2>3
  <1>2. ASSUME p \in Workers \cup Direct, BeatWrite(p) PROVE ProcOK(p)'
    <2>1. /\ pc'[p] = (IF child[p] = "none" THEN "launch" ELSE "watch") /\ Stays(p)
          /\ outcome'[p] = outcome[p] /\ child'[p] = child[p]
      BY <1>2, <1>a, GotoShape DEF BeatWrite, Labels, Stays
    <2>2. task[p] \in Jobs /\ Left(task[p])
      BY <1>2, <1>a, AtJob DEF BeatWrite, Over, HolderOK
    <2>3. HolderOK(p)'
      BY <1>2, <1>a, <2>1, <2>2
      DEF BeatWrite, HolderOK, Justified, Stays, Ending, Kept, Onward, Left
    <2> QED
      BY <1>2, <1>a, <1>b, <2>1, <2>3, StaysKept DEF BeatWrite, Holding, Over
  <1>3. ASSUME p \in Workers \cup Direct, Launch(p) PROVE ProcOK(p)'
    <2>1. /\ pc'[p] = "watch" /\ Stays(p) /\ outcome'[p] = outcome[p] /\ child'[p] = "running"
      BY <1>3, <1>a, GotoShape, ChildShape DEF Launch, Labels, Stays
    <2>2. task[p] \in Jobs /\ Left(task[p])
      BY <1>3, <1>a, AtJob DEF Launch, Over, HolderOK
    <2>3. HolderOK(p)'
      BY <1>3, <1>a, <2>1, <2>2
      DEF Launch, HolderOK, Justified, Stays, Ending, Kept, Onward, Left
    <2> QED
      BY <1>3, <1>a, <1>b, <2>1, <2>3, StaysKept DEF Launch, Holding, Over
  <1>4. ASSUME p \in Workers \cup Direct, Collect(p) PROVE ProcOK(p)'
    <2>1. /\ pc'[p] = "report" /\ Stays(p) /\ child'[p] = "none"
          /\ outcome'[p] = FinalState(p)
      BY <1>4, <1>a DEF Collect, Ends, Goto, TypeOK, Stays
    <2>2. HolderOK(p)'
      BY <1>4, <1>a, <2>1 DEF Collect, FinalState, HolderOK, Justified, Stays, Ending, Onward
    <2> QED
      BY <1>4, <1>a, <1>b, <2>1, <2>2, StaysKept DEF Collect, Holding, Ending, Over
  <1>5. ASSUME p \in Workers \cup Direct, Report(p) PROVE ProcOK(p)'
    <2>1. /\ pc'[p] = "finish" /\ Stays(p) /\ child'[p] = child[p] /\ outcome'[p] = outcome[p]
      BY <1>5, <1>a, GotoShape DEF Report, Labels, Stays
    <2>2. HolderOK(p)'
      BY <1>5, <1>a, <2>1 DEF Report, HolderOK, Justified, Stays, Ending, Onward
    <2> QED
      BY <1>5, <1>a, <1>b, <2>1, <2>2, StaysKept DEF Report, Holding, Ending, Over
  <1>6. ASSUME FinishRead(p) PROVE ProcOK(p)'
    <2>1. CASE ES!MayUse(task[p], p)
      <3>1. /\ pc'[p] = "finishWrite" /\ Stays(p) /\ child'[p] = child[p] /\ outcome'[p] = outcome[p]
        BY <1>6, <1>a, <2>1, GotoShape DEF FinishRead, Labels, Stays
      <3>2. HolderOK(p)'
        BY <1>6, <1>a, <3>1 DEF FinishRead, HolderOK, Justified, Stays, Ending, Onward
      <3>3. "finishWrite" \in LabelsOf(p) /\ ~Admitted(p)'
        BY <1>6, <1>a, <3>1, Kinds DEF FinishRead, LabelsOf, Holding, Ending, Over, Admitted
      <3> QED
        BY <1>6, <1>a, <3>1, <3>2, <3>3, StaysKept DEF FinishRead, Over
    <2>2. CASE ~ES!MayUse(task[p], p)
      BY <1>6, <1>a, <2>2, GoneKept, Kinds DEF FinishRead, Over, LabelsOf
    <2> QED
      BY <2>1, <2>2
  <1>7. ASSUME FinishWrite(p) PROVE ProcOK(p)'
    BY <1>7, <1>a, GoneKept, Kinds DEF FinishWrite, Over, LabelsOf
  <1>8. ASSUME ChildExits(p) PROVE ProcOK(p)'
    <2>1. /\ pc'[p] = pc[p] /\ Stays(p) /\ outcome'[p] = outcome[p]
          /\ \/ child'[p] = "ok" /\ task[p] \in ran'
             \/ child'[p] = "bad"
      BY <1>8, <1>a DEF ChildExits, Stays, TypeOK
    <2>2. task[p] \in Jobs
      BY <1>8, <1>a, AtJob DEF ChildExits
    <2>3. HolderOK(p)'
      BY <1>8, <1>a, <2>1, <2>2
      DEF ChildExits, HolderOK, Justified, Stays, Kept, Onward, Left
    <2>4. pc[p] \in {"beat", "beatWrite", "watch"} /\ ~Admitted(p)'
      BY <1>8, <1>a, <2>1 DEF ChildExits, HolderOK, Admitted
    <2> QED
      BY <1>a, <2>1, <2>3, <2>4, StaysKept DEF Over
  <1>9. ASSUME LaunchFails(p) PROVE ProcOK(p)'
    <2>0. child[p] = "none"
      BY <1>9, <1>a DEF LaunchFails, HolderOK
    <2>1. pc'[p] = "report" /\ Stays(p) /\ outcome'[p] = "failed" /\ child'[p] = "none"
      BY <1>9, <1>a, <2>0 DEF LaunchFails, Goto, TypeOK, Stays
    <2>2. HolderOK(p)'
      BY <2>1 DEF HolderOK, Justified, Ending
    <2>3. p \in Workers \cup Direct
      BY <1>9, <1>a, Kinds DEF LaunchFails, LabelsOf, Over
    <2> QED
      BY <1>9, <1>a, <1>b, <2>1, <2>2, <2>3, StaysKept DEF LaunchFails, Holding, Ending, Over
  <1> QED
    BY <1>1, <1>2, <1>3, <1>4, <1>5, <1>6, <1>7, <1>8, <1>9 DEF HolderActs

LEMMA SubmitterKept ==
  ASSUME IInv, Kept, NEW s \in Submitters, SubmitterActs(s)
  PROVE  ProcOK(s)'
  <1> USE DEF files, local, pipelines, requests
  <1>a. /\ TypeOK /\ s \in Procs /\ s \in Holders /\ s \notin Cancellers /\ s \notin Workers
        /\ ProcOK(s) /\ HolderOK(s) /\ Onward /\ pc[s] \in LabelsOf(s)
        /\ task[s] = ask[s].job /\ task[s] \in Jobs
    BY Kinds, ProcFields DEF IInv, ProcOK, Kept
  <1>b. s \in Direct <=> ask[s].mode \in {"execute", "console"}
    BY <1>a DEF Direct
  <1>c. s \in Enqueuers <=> ask[s].mode = "enqueue"
    BY <1>a DEF Enqueuers
  <1>d. /\ s \in Direct => LabelsOf(s) = {"check", "lookup", "insert", "overtake", "publish"} \cup Holding \cup Over
        /\ s \in Enqueuers => LabelsOf(s) = {"check", "lookup", "insert", "publish", "publishAgain",
                                            "finish", "finishWrite"} \cup Over
        /\ s \notin Direct \cup Enqueuers => LabelsOf(s) = {"check", "publish", "publishAgain"} \cup Over
    BY <1>a, Kinds DEF LabelsOf
  <1>e. ask[s].mode \in Modes
    BY <1>a, SubmitterJob
  \* A step that neither claims the job nor fails.
  <1>f. ASSUME pc[s] \in {"check", "lookup", "insert", "overtake", "publish", "publishAgain"},
               NEW label \in LabelsOf(s) \ (Ending \cup {"beatWrite", "launch", "watch", "claim", "cancel", "note"}),
               pc'[s] = label, Stays(s), outcome'[s] = outcome[s], child'[s] = child[s],
               Admitted(s)' => Admitted(s) \/ Present(task[s])'
        PROVE  ProcOK(s)'
    <2>1. outcome[s] = "none" /\ child[s] = "none"
      BY <1>f, <1>a DEF HolderOK, Ending
    <2>2. HolderOK(s)'
      BY <1>f, <2>1 DEF HolderOK, Justified, Ending
    <2>3. TaskOK(s)' /\ SeenOK(s)'
      BY <1>f, <1>a DEF ProcOK, TaskOK, SeenOK, Stays, Justified, Onward
    <2>4. Admitted(s)' => Present(task[s])'
      BY <1>f, <1>a DEF ProcOK, Stays, Kept, Present
    <2> QED
      BY <1>f, <1>a, <2>2, <2>3, <2>4 DEF ProcOK, Kept
  \* A failure before the pipeline: it is recorded next.
  <1>g. ASSUME pc[s] \in {"check", "publish"}, s \in Direct \cup Enqueuers,
               pc'[s] = "finish", Stays(s), outcome'[s] = "failed", child'[s] = child[s]
        PROVE  ProcOK(s)'
    <2>1. child'[s] = "none"
      BY <1>g, <1>a DEF HolderOK
    <2>2. HolderOK(s)'
      BY <1>g, <2>1 DEF HolderOK, Justified, Ending
    <2>3. "finish" \in LabelsOf(s) /\ ~Admitted(s)'
      BY <1>g, <1>d DEF Holding, Ending, Admitted
    <2> QED
      BY <1>a, <1>g, <2>2, <2>3, StaysKept
  <1>1. ASSUME CheckSidecar(s) PROVE ProcOK(s)'
    <2>0. Stays(s) /\ child' = child
      BY <1>1 DEF CheckSidecar, Stays
    <2>1. CASE StartAllowed(s)
      <3>1. /\ pc'[s] = (IF ask[s].mode \in {"dry_run", "console"} THEN "publish" ELSE "lookup")
            /\ outcome' = outcome
        BY <1>1, <1>a, <2>1, GotoShape DEF CheckSidecar, Labels
      <3>2. pc'[s] \in LabelsOf(s)
        BY <1>b, <1>c, <1>d, <1>e, <3>1 DEF Modes
      <3>3. ~Admitted(s)'
        BY <1>a, <1>c, <3>1 DEF Admitted, Onward
      <3> QED
        BY <1>1, <1>f, <2>0, <3>1, <3>2, <3>3 DEF CheckSidecar, Ending
    <2>2. CASE ~StartAllowed(s) /\ ask[s].mode = "console"
      BY <1>1, <1>a, <1>b, <1>g, <2>0, <2>2, GotoShape, OutcomeShape
      DEF CheckSidecar, Labels, ES!Finals
    <2>3. CASE ~StartAllowed(s) /\ ask[s].mode # "console"
      <3>1. pc'[s] = "refused" /\ outcome' = outcome
        BY <1>1, <1>a, <2>3, GotoShape DEF CheckSidecar, Labels, Over
      <3> QED
        BY <1>1, <1>d, <1>f, <2>0, <3>1 DEF CheckSidecar, Ending, Over, Admitted
    <2> QED
      BY <2>1, <2>2, <2>3
  <1>2. ASSUME Lookup(s) PROVE ProcOK(s)'
    <2>1. PICK label \in {"insert", "overtake", "refused"} :
             Goto(s, label) /\ (label = "overtake" => s \in Direct)
      BY <1>2 DEF Lookup
    <2>2. pc'[s] = label /\ Stays(s) /\ outcome' = outcome /\ child' = child
      BY <1>2, <1>a, <2>1, GotoShape DEF Lookup, Labels, Over, Stays
    <2>3. label \in LabelsOf(s)
      BY <1>2, <1>a, <1>d, <2>1 DEF Lookup, Over
    <2> QED
      BY <1>2, <1>f, <2>2, <2>3 DEF Lookup, Ending, Admitted
  <1>3. ASSUME Insert(s) PROVE ProcOK(s)'
    <2>0. Stays(s) /\ outcome' = outcome /\ child' = child /\ s \in Direct \cup Enqueuers
      BY <1>3, <1>a, <1>d DEF Insert, Stays, Over
    <2>1. CASE UniqueKeyFree(ask[s].job)
      <3>1. pc'[s] = (IF ask[s].mode = "console" THEN "check" ELSE "publish")
        BY <1>3, <1>a, <2>1, GotoShape DEF Insert, Claimed, Labels
      <3>2. s \in Enqueuers => Present(task[s])'
        <4>1. ASSUME s \in Enqueuers PROVE rows'[ask[s].job].state = "queued"
          BY <1>3, <1>a, <2>1, <4>1, InsertQueuedFacts, SubmitterJob DEF Insert, IInv
        <4>2. task'[s] = ask[s].job
          BY <1>a, <2>0 DEF Stays
        <4> QED
          BY <4>1, <4>2 DEF Present
      <3>3. pc'[s] \in LabelsOf(s)
        BY <1>d, <2>0, <3>1
      <3> QED
        BY <1>3, <1>a, <1>f, <2>0, <3>1, <3>2, <3>3 DEF Insert, Ending, Admitted, Onward
    <2>2. CASE ~UniqueKeyFree(ask[s].job)
      <3>1. pc'[s] = "refused"
        BY <1>3, <1>a, <2>2, GotoShape DEF Insert, Labels, Over
      <3> QED
        BY <1>3, <1>d, <1>f, <2>0, <3>1 DEF Insert, Ending, Over, Admitted
    <2> QED
      BY <2>1, <2>2
  <1>4. ASSUME Overtake(s) PROVE ProcOK(s)'
    <2>0. Stays(s) /\ outcome' = outcome /\ child' = child /\ s \in Direct
      BY <1>4, <1>a, <1>d DEF Overtake, Stays, Over
    <2>1. pc'[s] \in {"check", "publish"}
      BY <1>4, <1>a, GotoShape DEF Overtake, Claimed, Labels
    <2>2. ~Admitted(s)'
      BY <1>a, <2>0, Kinds DEF Admitted, Onward
    <2> QED
      BY <1>4, <1>d, <1>f, <2>0, <2>1, <2>2 DEF Overtake, Ending
  <1>5. ASSUME Publish(s) PROVE ProcOK(s)'
    <2>0. Stays(s) /\ outcome' = outcome /\ child' = child
      BY <1>5 DEF Publish, Stays
    <2>1. pc'[s] = (IF s \in Direct THEN "beat"
                    ELSE IF pc[s] = "publish" THEN "publishAgain" ELSE "done")
      BY <1>5, <1>a, GotoShape DEF Publish, Labels, Over
    <2>2. pc'[s] \in LabelsOf(s)
      BY <1>d, <2>1 DEF Holding, Over
    <2>3. Admitted(s)' => Admitted(s)
      BY <1>5, <1>a DEF Publish, Admitted, Onward
    <2> QED
      BY <1>5, <1>f, <2>0, <2>1, <2>2, <2>3 DEF Publish, Ending
  <1>6. ASSUME PublishFails(s) PROVE ProcOK(s)'
    <2>0. Stays(s) /\ child' = child
      BY <1>6 DEF PublishFails, Stays
    <2>1. CASE s \in Direct \cup Enqueuers
      BY <1>6, <1>a, <1>g, <2>0, <2>1, GotoShape, OutcomeShape DEF PublishFails, Labels, ES!Finals
    <2>2. CASE s \notin Direct \cup Enqueuers
      <3>1. pc'[s] = "refused" /\ outcome' = outcome
        BY <1>6, <1>a, <2>2, GotoShape DEF PublishFails, Labels, Over
      <3> QED
        BY <1>6, <1>d, <1>f, <2>0, <3>1 DEF PublishFails, Ending, Over, Admitted
    <2> QED
      BY <2>1, <2>2
  <1> QED
    BY <1>1, <1>2, <1>3, <1>4, <1>5, <1>6 DEF SubmitterActs

LEMMA WorkerKept ==
  ASSUME IInv, Kept, NEW w \in Workers, WorkerActs(w)
  PROVE  ProcOK(w)'
  <1> USE DEF files, local, pipelines, requests
  <1>a. /\ TypeOK /\ w \in Procs /\ w \in Holders /\ w \notin Cancellers /\ w \notin Submitters
        /\ ProcOK(w) /\ HolderOK(w) /\ TaskOK(w) /\ Onward
    BY Kinds DEF IInv, ProcOK, Kept
  <1>b. LabelsOf(w) = {"idle", "claim", "reload", "announce", "dead"} \cup Holding
    BY <1>a, Kinds DEF LabelsOf
  <1>c. ~Admitted(w) /\ ~Admitted(w)'
    BY <1>a, Kinds DEF Admitted, Onward
  \* A step that leaves the job, the outcome and the pipeline alone.
  <1>d. ASSUME pc[w] \in LabelsOf(w) \ ({"idle", "dead", "beatWrite", "launch"} \cup Ending),
               NEW label \in {"reload", "announce", "beat"}, pc'[w] = label, Stays(w),
               outcome'[w] = outcome[w], child'[w] = child[w],
               label = "beat" \/ child[w] = "none"
        PROVE  ProcOK(w)'
    <2>1. outcome[w] = "none"
      BY <1>d, <1>a DEF HolderOK
    <2>2. task[w] \in Jobs
      BY <1>a, <1>b, <1>d, AtJob DEF Holding, Over
    <2>3. HolderOK(w)'
      BY <1>d, <1>a, <2>1, <2>2 DEF HolderOK, Justified, Ending, Kept, Onward, Left, Stays
    <2> QED
      BY <1>a, <1>b, <1>c, <1>d, <2>3, StaysKept DEF Holding, Over
  \* A step that knows how the execution ends.
  <1>e. ASSUME pc[w] \in {"reload", "watch"}, NEW final \in ES!Finals, final # "completed",
               final = "cancelled" => task[w] \in asked',
               pc'[w] = "report", Stays(w), outcome'[w] = final, child'[w] = "none"
        PROVE  ProcOK(w)'
    <2>1. HolderOK(w)'
      BY <1>e DEF HolderOK, Justified, Ending, Stays, ES!Finals
    <2> QED
      BY <1>a, <1>b, <1>c, <1>e, <2>1, StaysKept DEF Holding, Ending, Over
  <1>1. ASSUME TakeNext(w) PROVE ProcOK(w)'
    <2>1. PICK j \in ES!ClaimCandidates(w \in Stealing) :
             task' = [task EXCEPT ![w] = j] /\ seen' = [seen EXCEPT ![w] = ES!Read(j)]
      BY <1>1 DEF TakeNext
    <2>2. j \in Jobs /\ ~rows[j].terminal /\ rows[j].state \in ES!Live
      BY ClaimCandidateFacts
    <2>3. /\ pc'[w] = "claim" /\ task'[w] = j
          /\ seen'[w].state = rows[j].state /\ seen'[w].payload = rows[j].payload
          /\ outcome' = outcome /\ child' = child /\ asked' = asked /\ crossed' = crossed
          /\ ran' = ran /\ rows' = rows
      BY <1>1, <1>a, <2>1, <2>2 DEF TakeNext, Goto, TypeOK, ES!Read
    <2>4. Present(j) /\ KeptAt(j) /\ PayloadAt(j) /\ Justified(rows[j].state, j)
      BY <2>2, RowFacts DEF RowOK, Present, ES!Live
    <2>5. TaskOK(w)'
      BY <1>a, <2>2, <2>3, <2>4 DEF TaskOK, Present
    <2>6. SeenOK(w)'
      <3>1. Taken(j) => Taken(task[w])'
        BY <1>a, <2>2, <2>3 DEF Onward, Taken
      <3>2. Justified(seen[w].state, task[w])'
        BY <2>3, <2>4 DEF Justified
      <3>3. seen'[w].payload \/ Taken(task[w])'
        BY <2>2, <2>3, <2>4, <3>1 DEF PayloadAt
      <3>4. j \in asked' => j \in crossed' \/ seen'[w].state = "cancel_requested"
        BY <2>2, <2>3, <2>4 DEF KeptAt
      <3> QED
        BY <2>3, <3>2, <3>3, <3>4 DEF SeenOK
    <2>7. HolderOK(w)'
      <3>1. outcome[w] = "none" /\ child[w] = "none"
        BY <1>1, <1>a DEF TakeNext, HolderOK, Ending
      <3> QED
        BY <2>3, <3>1 DEF HolderOK, Justified, Ending
    <2> QED
      BY <1>a, <1>b, <1>c, <2>3, <2>5, <2>6, <2>7 DEF ProcOK, Kept
  <1>2. ASSUME Claim(w) PROVE ProcOK(w)'
    <2>1. /\ pc'[w] = "reload" /\ task' = task /\ seen'[w] = NoRead
          /\ outcome' = outcome /\ child' = child
      BY <1>2, <1>a, GotoShape, SeenShape, NoReadTyped DEF Claim, Labels
    <2>2. task[w] \in Jobs /\ Present(task[w])
      BY <1>2, <1>a DEF Claim, TaskOK, Over
    <2>3. TaskOK(w)'
      BY <1>a, <2>1, <2>2 DEF TaskOK, Kept, Present
    <2>4. SeenOK(w)'
      BY <2>1, NoReadTyped DEF SeenOK, Justified
    <2>5. HolderOK(w)'
      <3>1. outcome[w] = "none" /\ child[w] = "none"
        BY <1>2, <1>a DEF Claim, HolderOK, Ending
      <3> QED
        BY <2>1, <3>1 DEF HolderOK, Justified, Ending
    <2> QED
      BY <1>a, <1>b, <1>c, <2>1, <2>3, <2>4, <2>5 DEF ProcOK, Kept
  <1>3. ASSUME Reload(w) PROVE ProcOK(w)'
    <2>1. CASE ~rows[task[w]].payload
      BY <1>3, <1>a, <1>b, <2>1, GoneKept, Kinds DEF Reload, Over
    <2>2. CASE rows[task[w]].payload /\ rows[task[w]].state = "cancel_requested"
      <3>1. /\ pc'[w] = "report" /\ Stays(w) /\ outcome'[w] = "cancelled" /\ child'[w] = "none"
        BY <1>3, <1>a, <2>2, GotoShape, OutcomeShape DEF Reload, Labels, ES!Finals, Stays, HolderOK
      <3>2. task[w] \in asked'
        BY <1>3, <1>a, <2>2, RowFacts, AtJob DEF Reload, RowOK, Justified, Over
      <3> QED
        BY <1>3, <1>e, <3>1, <3>2 DEF Reload, ES!Finals
    <2>3. CASE rows[task[w]].payload /\ rows[task[w]].state # "cancel_requested"
      <3>1. /\ pc'[w] = "announce" /\ Stays(w) /\ outcome' = outcome /\ child' = child
            /\ child[w] = "none"
        BY <1>3, <1>a, <2>3, GotoShape DEF Reload, Labels, Stays, HolderOK
      <3> QED
        BY <1>3, <1>b, <1>d, <3>1 DEF Reload, Ending
    <2> QED
      BY <2>1, <2>2, <2>3
  <1>4. ASSUME ReloadInvalid(w) PROVE ProcOK(w)'
    <2>0. child[w] = "none"
      BY <1>4, <1>a DEF ReloadInvalid, HolderOK
    <2>1. pc'[w] = "report" /\ Stays(w) /\ outcome'[w] = "failed" /\ child'[w] = "none"
      BY <1>4, <1>a, <2>0 DEF ReloadInvalid, Goto, TypeOK, Stays
    <2> QED
      BY <1>4, <1>e, <2>1 DEF ReloadInvalid, ES!Finals
  <1>5. ASSUME Announce(w) PROVE ProcOK(w)'
    <2>1. pc'[w] = "beat" /\ Stays(w) /\ outcome' = outcome /\ child' = child
      BY <1>5, <1>a, GotoShape DEF Announce, Labels, Stays
    <2> QED
      BY <1>5, <1>b, <1>d, <2>1 DEF Announce, Ending
  <1>6. ASSUME Terminate(w) \/ TimeOut(w) PROVE ProcOK(w)'
    <2>1. PICK final \in {"cancelled", "timed_out"} :
             Ends(w, final) /\ (final = "cancelled" => rows[task[w]].state = "cancel_requested")
      BY <1>6 DEF Terminate, TimeOut, CancelSeen
    <2>2. pc'[w] = "report" /\ Stays(w) /\ outcome'[w] = final /\ child'[w] = "none"
      BY <1>a, <2>1 DEF Ends, Goto, TypeOK, Stays
    <2>3. pc[w] = "watch"
      BY <1>6 DEF Terminate, TimeOut
    <2>4. final = "cancelled" => task[w] \in asked'
      BY <1>a, <2>1, <2>3, RowFacts, AtJob DEF Ends, RowOK, Justified, Over
    <2> QED
      BY <1>e, <2>2, <2>3, <2>4 DEF ES!Finals
  <1>7. ASSUME StillRunning(w) PROVE ProcOK(w)'
    <2>1. pc'[w] = "beat" /\ Stays(w) /\ outcome' = outcome /\ child' = child
      BY <1>7, <1>a, GotoShape DEF StillRunning, Labels, Stays
    <2> QED
      BY <1>7, <1>b, <1>d, <2>1 DEF StillRunning, Holding, Ending
  <1>8. ASSUME Restart(w) PROVE ProcOK(w)'
    <2>1. pc'[w] = "idle" /\ Stays(w) /\ outcome' = outcome /\ child' = child
      BY <1>8, <1>a, GotoShape DEF Restart, Labels, Stays
    <2>2. outcome[w] = "none" /\ child[w] = "none"
      BY <1>8, <1>a DEF Restart, HolderOK, Ending
    <2>3. HolderOK(w)' /\ TaskOK(w)'
      BY <1>a, <2>1, <2>2 DEF HolderOK, TaskOK, Justified, Ending
    <2>4. SeenOK(w)'
      BY <1>a, <2>1 DEF ProcOK, SeenOK, Stays, Justified, Onward
    <2> QED
      BY <1>a, <1>b, <1>c, <2>1, <2>3, <2>4 DEF ProcOK, Kept
  <1> QED
    BY <1>1, <1>2, <1>3, <1>4, <1>5, <1>6, <1>7, <1>8 DEF WorkerActs

LEMMA CancellerKept ==
  ASSUME IInv, Kept, NEW c \in Cancellers, CancellerStep(c)
  PROVE  ProcOK(c)'
  <1> USE DEF files, local, pipelines, requests
  <1>a. /\ TypeOK /\ c \in Procs /\ c \notin Holders /\ c \notin Submitters /\ c \notin Workers
        /\ ProcOK(c) /\ TaskOK(c) /\ Onward
    BY Kinds DEF IInv, ProcOK, Kept
  <1>b. LabelsOf(c) = {"start", "cancel", "reread", "note", "done", "dead"}
    BY <1>a, Kinds DEF LabelsOf
  <1>c. ~Admitted(c) /\ ~Admitted(c)'
    BY <1>a, Kinds DEF Admitted, Onward
  <1>1. ASSUME CancelRead(c) PROVE ProcOK(c)'
    <2>1. PICK j \in Jobs :
             /\ ES!MayCancel(j)
             /\ task' = [task EXCEPT ![c] = j] /\ seen' = [seen EXCEPT ![c] = ES!Read(j)]
      BY <1>1 DEF CancelRead
    <2>2. /\ pc'[c] = "cancel" /\ task'[c] = j
          /\ seen'[c].state = rows[j].state /\ seen'[c].payload = rows[j].payload
          /\ asked' = asked /\ ran' = ran /\ rows' = rows
      BY <1>1, <1>a, <2>1 DEF CancelRead, Goto, TypeOK, ES!Read
    <2>3. Present(j) /\ rows[j].state \in ES!Live /\ PayloadAt(j) /\ Justified(rows[j].state, j)
      BY <1>a, <2>1, RowFacts, RowFields DEF ES!MayCancel, RowOK, Present, States
    <2>4. TaskOK(c)'
      BY <1>a, <2>2, <2>3 DEF TaskOK, Present
    <2>5. SeenOK(c)'
      <3>1. Taken(j) => Taken(task[c])'
        BY <1>a, <2>2 DEF Onward, Taken
      <3>2. seen'[c].payload \/ Taken(task[c])'
        BY <2>1, <2>2, <2>3, <3>1 DEF PayloadAt, ES!MayCancel
      <3>3. Justified(seen[c].state, task[c])'
        BY <2>2, <2>3 DEF Justified
      <3> QED
        BY <2>2, <3>2, <3>3 DEF SeenOK
    <2> QED
      BY <1>a, <1>b, <1>c, <2>2, <2>4, <2>5 DEF ProcOK, Kept
  <1>2. ASSUME Cancel(c) PROVE ProcOK(c)'
    <2>1. pc'[c] = "reread" /\ task' = task /\ seen'[c] = NoRead
      BY <1>2, <1>a, GotoShape, SeenShape, NoReadTyped DEF Cancel, Labels
    <2>2. TaskOK(c)'
      BY <1>2, <1>a, <2>1 DEF Cancel, TaskOK, Kept, Present, Over
    <2>3. SeenOK(c)'
      BY <2>1, NoReadTyped DEF SeenOK, Justified
    <2> QED
      BY <1>a, <1>b, <1>c, <2>1, <2>2, <2>3 DEF ProcOK, Kept
  <1>3. ASSUME CancelReread(c) PROVE ProcOK(c)'
    <2>0. task[c] \in Jobs /\ Present(task[c])
      BY <1>3, <1>a DEF CancelReread, TaskOK, Over
    <2>1. CASE rows[task[c]].payload
      <3>1. /\ pc'[c] = "note" /\ task' = task /\ seen'[c].state = rows[task[c]].state
            /\ asked' = asked /\ ran' = ran
        BY <1>3, <1>a, <2>0, <2>1, GotoShape, SeenShape, ReadTyped DEF CancelReread, Labels
      <3>2. TaskOK(c)'
        BY <1>a, <2>0, <3>1 DEF TaskOK, Kept, Present
      <3>3. SeenOK(c)'
        BY <2>0, <3>1, RowFacts DEF SeenOK, RowOK, Justified, Present
      <3> QED
        BY <1>a, <1>b, <1>c, <3>1, <3>2, <3>3 DEF ProcOK, Kept
    <2>2. CASE ~rows[task[c]].payload
      BY <1>3, <1>a, <1>b, <2>2, GoneKept, Kinds DEF CancelReread, Over
    <2> QED
      BY <2>1, <2>2
  <1>4. ASSUME CancelNote(c) PROVE ProcOK(c)'
    BY <1>4, <1>a, <1>b, GoneKept, Kinds DEF CancelNote, Over
  <1> QED
    BY <1>1, <1>2, <1>3, <1>4 DEF CancellerStep

LEMMA KillKept ==
  ASSUME IInv, Kept, NEW p \in Procs, Kill(p)
  PROVE  ProcOK(p)'
  <1>1. "dead" \in LabelsOf(p)
    BY DEF LabelsOf, Over
  <1> QED
    BY <1>1, GoneKept DEF Kill, Over

LEMMA ProcsStep ==
  ASSUME IInv, Next
  PROVE  \A p \in Procs : ProcOK(p)'
  <1>a. Kept
    BY KeptStep
  <1>b. Workers \subseteq Procs /\ Holders \subseteq Procs /\ Cancellers \subseteq Procs /\ Submitters \subseteq Procs
    BY Kinds DEF IInv
  <1>1. ASSUME NEW p \in Procs, Shape(p), ProcOK(p)', NEW q \in Procs PROVE ProcOK(q)'
    BY <1>1, SameKept DEF Shape, Alone
  <1>2. ASSUME NEW s \in Submitters, SubmitterActs(s) PROVE \A p \in Procs : ProcOK(p)'
    BY <1>a, <1>b, <1>1, <1>2, SubmitterShape, SubmitterKept
  <1>3. ASSUME NEW w \in Workers, WorkerActs(w) PROVE \A p \in Procs : ProcOK(p)'
    BY <1>a, <1>b, <1>1, <1>3, WorkerShape, WorkerKept
  <1>4. ASSUME NEW h \in Holders, HolderActs(h) PROVE \A p \in Procs : ProcOK(p)'
    BY <1>a, <1>b, <1>1, <1>4, HolderShape, HolderKept
  <1>5. ASSUME NEW c \in Cancellers, CancellerStep(c) PROVE \A p \in Procs : ProcOK(p)'
    BY <1>a, <1>b, <1>1, <1>5, CancellerShape, CancellerKept
  <1>6. ASSUME NEW k \in Procs, Kill(k) PROVE \A p \in Procs : ProcOK(p)'
    BY <1>a, <1>1, <1>6, KillShape, KillKept
  <1>7. ASSUME NEW j \in Jobs, Outside(j) PROVE \A p \in Procs : ProcOK(p)'
    BY <1>7, OutsideShape, SameKept
  <1> QED
    BY <1>2, <1>3, <1>4, <1>5, <1>6, <1>7, NextCases DEF Acts, IInv

\* A process that is not an enqueue already admitted becomes one only by inserting
\* into a table without its row.
LEMMA NewlyAdmitted ==
  ASSUME IInv, Next, NEW s \in Procs, Admitted(s)', ~Admitted(s)
  PROVE  rows[task[s]] = ES!Absent /\ Alone(s)
  <1> USE DEF files, local, pipelines, requests
  <1>a. /\ TypeOK /\ s \in Enqueuers /\ pc'[s] \in {"publish", "publishAgain", "done"}
        /\ s \in Submitters /\ s \in Holders /\ s \notin Workers /\ s \notin Cancellers /\ s \notin Direct
        /\ pc'[s] # pc[s] /\ ask[s].mode = "enqueue"
        /\ pc[s] \in LabelsOf(s) /\ task[s] = ask[s].job
    BY GoesOn, Kinds, ProcFields DEF Admitted, Onward, IInv, Enqueuers
  <1>b. ASSUME NEW p \in Procs, Shape(p) PROVE p = s
    BY <1>a, <1>b DEF Shape, Alone, Same
  <1>c. ASSUME NEW label \in Over \cup {"idle"}, Gone(s, label) PROVE label = "done"
    BY <1>a, <1>c, GoneFacts DEF Over
  <1>d. pc[s] \in {"check", "lookup", "insert", "finish", "finishWrite"} \cup Over
    BY <1>a, Kinds DEF LabelsOf, Admitted
  <1>e. \A label \in Labels : Goto(s, label) => label \in {"publish", "publishAgain", "done"}
    BY <1>a, GotoShape
  <1>1. ASSUME NEW t \in Submitters, SubmitterActs(t) PROVE rows[task[s]] = ES!Absent /\ Alone(s)
    <2>1. t = s /\ Shape(s)
      BY <1>1, <1>b, SubmitterShape, Kinds DEF IInv
    <2>2. ~CheckSidecar(s) /\ ~Lookup(s) /\ ~Overtake(s) /\ ~Publish(s) /\ ~PublishFails(s)
      BY <1>a, <1>d, <1>e DEF CheckSidecar, Lookup, Overtake, Publish, PublishFails, Labels, Over
    <2>3. Insert(s)
      BY <1>1, <2>1, <2>2 DEF SubmitterActs
    <2>4. UniqueKeyFree(ask[s].job)
      BY <1>e, <2>3 DEF Insert, Labels, Over
    <2> QED
      BY <1>a, <2>1, <2>4 DEF UniqueKeyFree, Shape
  <1>2. ASSUME NEW w \in Workers, WorkerActs(w) PROVE FALSE
    BY <1>2, <1>a, <1>b, WorkerShape, Kinds
  <1>3. ASSUME NEW p \in Holders, HolderActs(p) PROVE FALSE
    <2>1. p = s
      BY <1>3, <1>b, HolderShape, Kinds DEF IInv
    <2>2. pc'[s] \notin {"publish", "publishAgain", "done"}
      BY <1>3, <1>a, <1>c, <1>e, <2>1
      DEF HolderActs, FinishRead, FinishWrite, ChildExits, LaunchFails, Labels, Over
    <2> QED
      BY <1>a, <2>2
  <1>4. ASSUME NEW c \in Cancellers, CancellerStep(c) PROVE FALSE
    BY <1>4, <1>a, <1>b, CancellerShape, Kinds
  <1>5. ASSUME NEW p \in Procs, Kill(p) PROVE FALSE
    BY <1>5, <1>b, <1>c, KillShape DEF Kill, Over
  <1>6. ASSUME NEW j \in Jobs, Outside(j) PROVE FALSE
    BY <1>6, <1>a, OutsideShape DEF Same
  <1> QED
    BY <1>1, <1>2, <1>3, <1>4, <1>5, <1>6, NextCases DEF Acts, IInv

LEMMA AdmittedStep ==
  ASSUME IInv, Next
  PROVE  AdmittedOnce'
  <1> SUFFICES ASSUME NEW s \in Procs, NEW t \in Procs, Admitted(s)', Admitted(t)',
                      ask[s].job = ask[t].job, s # t
               PROVE  FALSE
    BY GoesOn, Kinds DEF AdmittedOnce, Admitted, Onward, IInv
  <1>1. ASSUME NEW p \in Procs, NEW q \in Procs, p # q, Admitted(p)', Admitted(q)',
               ask[p].job = ask[q].job, ~Admitted(p)
        PROVE  FALSE
    <2>1. rows[task[p]] = ES!Absent /\ Alone(p)
      BY <1>1, NewlyAdmitted
    <2>2. Same(q)
      BY <1>1, <2>1 DEF Alone
    <2>3. Admitted(q) /\ q \in Enqueuers /\ p \in Enqueuers
      BY <1>1, <2>2, GoesOn DEF Same, Admitted, Onward
    <2>4. Present(task[q])
      BY <2>3 DEF IInv, ProcOK
    <2>5. task[p] = task[q]
      BY <1>1, <2>3, ProcFields, Kinds DEF IInv
    <2> QED
      BY <2>1, <2>4, <2>5, AbsentFields DEF Present
  <1>2. Admitted(s) /\ Admitted(t)
    BY <1>1
  <1> QED
    BY <1>2 DEF IInv, AdmittedOnce, Admitted

--------------------------------------------------------------------------------
(* The theorems                                                            *)

LEMMA InitIInv ==
  ASSUME Init
  PROVE  IInv
  <1>a. ES!Absent \in ES!Row
    BY DEF ES!Absent, ES!Row
  <1>b. rows = [j \in Jobs |-> ES!Absent]
    BY DEF Init, ES!StoreInit
  <1>1. TypeOK
    <2>1. ask \in [Submitters -> Ask]
      BY WorkflowAssumption DEF Init
    <2>2. task \in [Procs -> Jobs \cup {NoOne}]
      BY <2>1 DEF Init, Ask
    <2>3. pc \in [Procs -> Labels]
      BY DEF Init, Labels
    <2>4. /\ status \in [Jobs -> [state: States \cup {"none", "accepted"}, terminal: BOOLEAN]]
          /\ receipt \in [Jobs -> Digests \cup {NoOne}]
      BY DEF Init, NoStatus
    <2>5. seen \in [Procs -> [state: States \cup {"absent"}, terminal: BOOLEAN, payload: BOOLEAN]]
      BY NoReadTyped DEF Init
    <2>6. rows \in [Jobs -> ES!Row]
      BY <1>a, <1>b
    <2>7. faults \in 0..MaxFaults
      BY WorkflowAssumption DEF Init
    <2>8. /\ outcome \in [Holders -> ES!Finals \cup {"none"}]
          /\ child \in [Holders -> {"none", "running", "ok", "bad"}]
          /\ orphans \subseteq Jobs /\ ran \subseteq Jobs /\ asked \subseteq Jobs /\ crossed \subseteq Jobs
      BY DEF Init
    <2> QED
      BY <2>1, <2>2, <2>3, <2>4, <2>5, <2>6, <2>7, <2>8 DEF TypeOK
  <1>2. TableFinite
    <2>1. {j \in Jobs : rows[j] # ES!Absent} = {}
      BY <1>b
    <2> QED
      BY <2>1, FS_EmptySet DEF TableFinite
  <1>3. \A j \in Jobs : RowOK(j)
    BY <1>b, AbsentFields DEF Init, RowOK, Justified, Present, NoStatus, ES!Finals
  <1>4. ASSUME NEW p \in Procs PROVE ProcOK(p)
    <2>1. pc[p] \in LabelsOf(p) /\ pc[p] \in {"idle", "start", "lookup", "check"}
      <3>1. pc[p] = (IF p \in Workers THEN "idle" ELSE IF p \in Cancellers THEN "start"
                     ELSE IF ask[p].mode = "console" THEN "lookup" ELSE "check")
        BY DEF Init
      <3>2. p \notin Workers /\ p \notin Cancellers /\ ask[p].mode = "console" => p \in Direct
        BY Kinds, <1>1 DEF Direct
      <3> QED
        BY <1>1, <3>1, <3>2, Kinds DEF LabelsOf
    <2>2. TaskOK(p)
      <3>1. p \in Submitters => task[p] = ask[p].job
        BY DEF Init
      <3>2. p \notin Submitters => pc[p] \in {"idle", "start"}
        BY <1>1, Kinds DEF Init
      <3> QED
        BY <3>1, <3>2 DEF TaskOK
    <2>3. SeenOK(p)
      BY <2>1, NoReadTyped DEF Init, SeenOK, Justified
    <2>4. p \in Holders => HolderOK(p)
      BY <2>1 DEF Init, HolderOK, Justified, Ending
    <2> QED
      BY <2>1, <2>2, <2>3, <2>4 DEF ProcOK, Admitted
  <1>5. AdmittedOnce
    BY <1>1, <1>4, Kinds DEF Init, AdmittedOnce
  <1>6. CancellationKept /\ PayloadKept
    BY <1>b, AbsentFields DEF Init, CancellationKept, PayloadKept, ES!Live
  <1>7. ask \in [Submitters -> Asks]
    BY DEF Init
  <1> QED
    BY <1>1, <1>2, <1>3, <1>4, <1>5, <1>6, <1>7 DEF IInv

LEMMA NextIInv ==
  ASSUME IInv, [Next]_vars
  PROVE  IInv'
  <1>1. CASE Next
    <2>1. TypeOK' /\ ask' = ask
      BY <1>1, GoesOn DEF Onward
    <2>2. TableFinite' /\ \A j \in Jobs : RowOK(j)' /\ KeptAt(j)' /\ PayloadAt(j)'
      BY <1>1, TableKept
    <2>3. CancellationKept'
      BY <2>1, <2>2 DEF CancellationKept, KeptAt, TypeOK
    <2>4. PayloadKept'
      BY <2>2 DEF PayloadKept, PayloadAt
    <2> QED
      BY <1>1, <2>1, <2>2, <2>3, <2>4, ProcsStep, AdmittedStep DEF IInv
  <1>2. CASE UNCHANGED vars
    BY <1>2
    DEF vars, files, local, pipelines, requests, IInv, TypeOK, TableFinite, RowOK, ProcOK, TaskOK,
        SeenOK, HolderOK, LabelsOf, Present, Left, Justified, Admitted, Taken, Direct, Enqueuers,
        AdmittedOnce, CancellationKept, PayloadKept
  <1> QED
    BY <1>1, <1>2

LEMMA Inductive == Spec => []IInv
  BY InitIInv, NextIInv, PTL DEF Spec

\* The table, the sidecars and every process hold values of the types the code gives
\* them, for any number of jobs: a finish writes a final state, a note a state it read.
THEOREM TypeCorrect == Spec => []TypeOK
  <1>1. IInv => TypeOK
    BY DEF IInv
  <1> QED
    BY <1>1, Inductive, PTL

\* Of several enqueues of one job one is admitted, however their SELECTs and INSERTs
\* interleave and whoever claims the row in between (enqueue_execution's unique keys).
THEOREM AdmittedOnceHolds == Spec => []AdmittedOnce
  <1>1. IInv => AdmittedOnce
    BY DEF IInv
  <1> QED
    BY <1>1, Inductive, PTL

\* Whatever is recorded as completed had a pipeline that exited 0, through stolen
\* leases, orphans, stale reads of cancellers and several owners (finish_execution).
THEOREM CompletedRanHolds == Spec => []CompletedRan
  <1>1. IInv => CompletedRan
    BY DEF IInv, RowOK, Justified, CompletedRan
  <1> QED
    BY <1>1, Inductive, PTL

\* Whatever is recorded as cancelled, or as being cancelled, was asked to be
\* (request_cancel_execution), for any number of workers and cancellers.
THEOREM CancelledWasAskedHolds == Spec => []CancelledWasAsked
  <1>1. IInv => CancelledWasAsked
    BY DEF IInv, RowOK, Justified, CancelledWasAsked
  <1> QED
    BY <1>1, Inductive, PTL

\* A row settled while an enqueue still owned it never has a pipeline: no worker's
\* heartbeat can have passed (claim_next_execution, heartbeat_execution).
THEOREM CancelledInQueueNeverRunsHolds == Spec => []CancelledInQueueNeverRuns
  <1>1. IInv => CancelledInQueueNeverRuns
    BY Kinds DEF IInv, RowOK, ProcOK, HolderOK, Left, Running, CancelledInQueueNeverRuns
  <1> QED
    BY <1>1, Inductive, PTL

\* An accepted cancellation stays on its row until the execution is settled, except
\* in the two places the property names (claim_next_execution, claim_execution).
THEOREM CancellationKeptHolds == Spec => []CancellationKept
  <1>1. IInv => CancellationKept
    BY DEF IInv
  <1> QED
    BY <1>1, Inductive, PTL

\* Stale copies of the metadata written back never lose the payload of an execution
\* that still has to run, unless claim_execution has taken it.
THEOREM PayloadKeptHolds == Spec => []PayloadKept
  <1>1. IInv => PayloadKept
    BY DEF IInv
  <1> QED
    BY <1>1, Inductive, PTL

\* Only claim_execution, for an inline execution, takes a terminal mark off a row.
LEMMA TerminalUnlessOvertaken ==
  ASSUME IInv, [Next]_vars, NEW j \in Jobs, rows[j].terminal,
         \A s \in Direct : ~Overtake(s)
  PROVE  rows'[j].terminal
  <1> USE DEF files, local, pipelines, requests
  <1>a. TypeOK /\ TableFinite
    BY DEF IInv
  <1>0. CASE rows' = rows
    BY <1>0
  <1>1. ASSUME NEW s \in Submitters, SubmitterActs(s), rows' # rows PROVE rows'[j].terminal
    <2>a. s \in Procs /\ s \in Holders /\ ask[s].job \in Jobs /\ ask[s].digest \in Digests
      BY <1>a, Kinds, SubmitterJob
    <2>1. ~Overtake(s)
      BY <2>a, Kinds, ProcFields DEF Overtake, LabelsOf, Over, IInv
    <2>2. Insert(s)
      BY <1>1, <2>1 DEF SubmitterActs, CheckSidecar, Lookup, Publish, PublishFails
    <2>3. rows[ask[s].job] = ES!Absent /\ Touches(ask[s].job)
      BY <1>a, <1>1, <2>a, <2>2, InsertQueuedFacts, InsertRunningFacts DEF Insert, UniqueKeyFree
    <2> QED
      BY <2>3, AbsentFields DEF Touches
  <1>2. ASSUME NEW w \in Workers, WorkerActs(w), rows' # rows PROVE rows'[j].terminal
    <2>1. Claim(w)
      BY <1>2
      DEF WorkerActs, TakeNext, Reload, ReloadInvalid, Announce, Terminate, TimeOut, Ends,
          StillRunning, Restart
    <2>2. w \in Procs /\ w \in Holders /\ task[w] \in Jobs /\ seen[w].payload \in BOOLEAN
      BY <1>a, <2>1, Kinds, AtJob, ProcFields DEF Claim, Over
    <2> QED
      BY <1>a, <2>1, <2>2, ClaimNextFacts DEF Claim, Touches
  <1>3. ASSUME NEW p \in Holders, HolderActs(p), rows' # rows PROVE rows'[j].terminal
    <2>a. p \in Procs /\ ProcOK(p)
      BY <1>a, Kinds DEF IInv
    <2>1. CASE BeatWrite(p)
      <3>1. task[p] \in Jobs
        BY <2>a, <2>1, AtJob DEF BeatWrite, Over
      <3> QED
        BY <1>a, <2>1, <3>1, LeaseFacts DEF BeatWrite, SameButLease, Touches
    <2>2. CASE FinishWrite(p)
      <3>1. task[p] \in Jobs /\ outcome[p] \in ES!Finals
        BY <2>a, <2>2, AtJob, ProcFields DEF FinishWrite, ProcOK, HolderOK, Ending, Over
      <3> QED
        BY <1>a, <2>2, <3>1, FinishFacts DEF FinishWrite, Touches
    <2> QED
      BY <1>3, <2>1, <2>2
      DEF HolderActs, Beat, Launch, LaunchFails, Collect, Ends, Report, FinishRead, ChildExits
  <1>4. ASSUME NEW c \in Cancellers, CancellerStep(c), rows' # rows PROVE rows'[j].terminal
    <2>1. Cancel(c)
      BY <1>4 DEF CancellerStep, CancelRead, CancelReread, CancelNote
    <2>2. c \in Procs /\ task[c] \in Jobs /\ seen[c].payload \in BOOLEAN
      BY <1>a, <2>1, Kinds, AtJob, ProcFields DEF Cancel, Over
    <2> QED
      BY <1>a, <2>1, <2>2, RequestCancelFacts DEF Cancel, Touches
  <1>5. ASSUME NEW p \in Procs, Kill(p) PROVE rows' = rows
    BY <1>5 DEF Kill
  <1>6. ASSUME NEW k \in Jobs, Outside(k), rows' # rows PROVE rows'[j].terminal
    BY <1>a, <1>6, LeaseFacts
    DEF Outside, OrphanExits, ExpireUnattended, ExpireStalled, SameButLease, Touches
  <1>7. UNCHANGED vars => rows' = rows
    BY DEF vars
  <1> QED
    BY <1>a, <1>0, <1>1, <1>2, <1>3, <1>4, <1>5, <1>6, <1>7, NextCases DEF Acts

\* Nobody submits an execution that claims its own row.
QueueOnly == \A a \in Asks : a.mode \notin {"execute", "console"}

\* A row marked terminal keeps the mark where all work goes through the queue: no
\* stale decision of a worker or a canceller is written over it.
THEOREM TerminalStaysInQueue ==
  ASSUME QueueOnly
  PROVE  Spec => TerminalStays
  <1>1. ASSUME IInv, [Next]_vars PROVE [\A j \in Jobs : rows[j].terminal => rows'[j].terminal]_vars
    <2>1. Direct = {}
      BY <1>1 DEF IInv, Direct, QueueOnly
    <2> QED
      BY <1>1, <2>1, TerminalUnlessOvertaken
  <1> QED
    BY <1>1, Inductive, PTL DEF Spec, TerminalStays

\* Whatever is submitted, only claim_execution takes a terminal mark off a row.
OnlyOvertakeReopens ==
  [][\A j \in Jobs : rows[j].terminal /\ ~rows'[j].terminal => \E s \in Direct : Overtake(s)]_vars

THEOREM OnlyOvertakeReopensHolds == Spec => OnlyOvertakeReopens
  <1>1. ASSUME IInv, [Next]_vars
        PROVE  [\A j \in Jobs : rows[j].terminal /\ ~rows'[j].terminal =>
                  \E s \in Direct : Overtake(s)]_vars
    BY <1>1, TerminalUnlessOvertaken
  <1> QED
    BY <1>1, Inductive, PTL DEF Spec, OnlyOvertakeReopens
================================================================================
