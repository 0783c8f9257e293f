--------------------------- MODULE AuditArchive_proofs ---------------------------
(***************************************************************************)
(* Proofs about AuditArchive for every set of jobs, revisions, archivers   *)
(* and publishers: the log chains unless two archivers link at once, a     *)
(* finished archive verifies, the external sinks hold one chain and keep   *)
(* what was reported as uploaded.                                          *)
(***************************************************************************)
EXTENDS AuditArchive, TLAPS
--------------------------------------------------------------------------------
(* The inductive invariant                                                 *)

Linking(p) == proc[p].phase \in {"linked", "indexed"}

\* Unless the window was shared, the one archiver in it holds the last entry.
LinkOK ==
  "link" \notin overlaps =>
    /\ Replays(anchor.lines)
    /\ \A p \in Archiver : Linking(p) => proc[p].prev = LastEntry(anchor.lines)
    /\ \A p, q \in Archiver : Linking(p) /\ Linking(q) => p = q

Copying(p)   == proc[p].phase \in {"open", "fill"}
SameFile(p, q) == proc[p].kind = proc[q].kind /\ PathOf(proc[p].bundle) = PathOf(proc[q].bundle)

\* The archiver has seen its own revision at the path of this kind.
HasFile(p, kind) ==
  \/ proc[p].phase \in {"stored", "linked", "indexed"}
  \/ kind = "chain" /\ proc[p].kind = "seal" /\ proc[p].phase \in {"look", "open", "fill", "check"}

\* Unless two copied to one path, a copy in progress is the only one of its path, and a file
\* some archiver or index record relies on is whole and stays.
CopyOK ==
  "copy" \notin overlaps =>
    /\ \A p, q \in Archiver : Copying(p) /\ Copying(q) /\ SameFile(p, q) => p = q
    /\ \A p \in Archiver : proc[p].phase = "open" => Archived(p) = Missing
    /\ \A p \in Archiver : proc[p].phase = "fill" => Archived(p) = Damaged
    /\ \A p \in Archiver, kind \in Kind :
         HasFile(p, kind) => store[kind][PathOf(proc[p].bundle)] = proc[p].bundle.rev
    /\ \A k \in 1..Len(index.lines), kind \in Kind :
         store[kind][PathOf(index.lines[k].bundle)] = index.lines[k].bundle.rev

\* A bundle is chosen from the first step to the last, and its chain is copied first.
BundlesOK ==
  \A p \in Archiver :
    /\ proc[p].phase \notin {"idle", "done", "failed"} => proc[p].bundle \in Bundle
    /\ proc[p].phase = "idle" => proc[p].kind = "chain"

\* An index record is followed by the anchor line of the entry it names, once its archiver is done.
RecordOK(record, procs, log) ==
  /\ procs[record.by].phase \in {"indexed", "done", "failed"}
  /\ procs[record.by].phase = "indexed" => record.entry = Append(procs[record.by].prev, record.by)
  /\ (procs[record.by].phase = "done" /\ ~log.torn) =>
       \E i \in 1..Len(log.lines) :
         log.lines[i].by = record.by /\ EntryOf(log.lines[i]) = record.entry

AnchoredOK == \A k \in 1..Len(index.lines) : RecordOK(index.lines[k], proc, anchor)

\* The entry of a line that replays lists the archivers of the lines up to it.
ByTo(lines, n) == [i \in 1..n |-> lines[i].by]

EntriesOK ==
  \A n \in 1..Len(anchor.lines) :
    ReplaysTo(anchor.lines, n) => EntryOf(anchor.lines[n]) = ByTo(anchor.lines, n)

\* The entries of the lines that replay.
Replayed == {EntryOf(anchor.lines[n]) :
               n \in {m \in 1..Len(anchor.lines) : ReplaysTo(anchor.lines, m)}}

\* Publishers load only lines that replay, and sinks hold nothing else.
PublishedOK ==
  /\ \A q \in Publisher : /\ pub[q].loaded <= Len(anchor.lines)
                          /\ ReplaysTo(anchor.lines, pub[q].loaded)
                          /\ pub[q].body \subseteq Replayed
                          /\ pub[q].phase \notin {"idle", "failed"} => pub[q].sink \in Sink
                          /\ pub[q].phase = "fetched" => pub[q].sink = "s3_worm"
  /\ \A s \in Sink : sink[s] \subseteq Replayed

\* Unless the window was shared, the one publisher in it holds what the object holds.
PutOK ==
  "put" \notin overlaps =>
    /\ \A q \in Publisher : pub[q].phase = "fetched" => pub[q].body = sink["s3_worm"]
    /\ \A q, r \in Publisher : pub[q].phase = "fetched" /\ pub[r].phase = "fetched" => q = r

IInv == /\ TypeOK /\ BundlesOK /\ LinkOK /\ CopyOK /\ AnchoredOK
        /\ EntriesOK /\ PublishedOK /\ PutOK /\ UploadedKept
--------------------------------------------------------------------------------
(* What the steps do to the record of the process that takes them          *)

Phases == {"idle", "look", "open", "fill", "check", "stored", "linked", "indexed", "done", "failed"}

\* One archiver's record becomes r.
Becomes(p, r) ==
  /\ proc' \in [Archiver -> ArchiverState]
  /\ proc'[p] = r
  /\ \A q \in Archiver \ {p} : proc'[q] = proc[q]

LEMMA SetProc ==
  ASSUME TypeOK, NEW p \in Archiver, NEW r \in ArchiverState, proc' = [proc EXCEPT ![p] = r]
  PROVE  Becomes(p, r)
  BY DEF TypeOK, Becomes

LEMMA ArchiverFields ==
  ASSUME TypeOK, NEW p \in Archiver
  PROVE  /\ proc[p] \in ArchiverState
         /\ proc[p].phase \in Phases /\ proc[p].bundle \in Bundle \cup {NoBundle}
         /\ proc[p].kind \in Kind /\ proc[p].prev \in Entry
         /\ Idle \in ArchiverState
  <1>1. proc[p] \in ArchiverState
    BY DEF TypeOK
  <1>2. Idle \in ArchiverState
    BY DEF Idle, ArchiverState, Entry, Kind
  <1> QED
    BY <1>1, <1>2 DEF ArchiverState, Phases

\* The four ways a record changes.
LEMMA GotoFacts ==
  ASSUME TypeOK, NEW p \in Archiver, NEW phase \in Phases, Goto(p, phase)
  PROVE  /\ Becomes(p, proc'[p])
         /\ proc'[p].phase = phase /\ proc'[p].bundle = proc[p].bundle
         /\ proc'[p].kind = proc[p].kind /\ proc'[p].prev = proc[p].prev
  <1> DEFINE r == [proc[p] EXCEPT !.phase = phase]
  <1>1. /\ r \in ArchiverState
        /\ r.phase = phase /\ r.bundle = proc[p].bundle
        /\ r.kind = proc[p].kind /\ r.prev = proc[p].prev
    BY ArchiverFields DEF ArchiverState, Phases
  <1>2. proc' = [proc EXCEPT ![p] = r]
    BY DEF Goto
  <1> HIDE DEF r
  <1>3. Becomes(p, r)
    BY <1>1, <1>2, SetProc
  <1> QED
    BY <1>1, <1>3 DEF Becomes

LEMMA StopFacts ==
  ASSUME TypeOK, NEW p \in Archiver, NEW phase \in Phases, Stop(p, phase)
  PROVE  /\ Becomes(p, proc'[p])
         /\ proc'[p].phase = phase /\ proc'[p].kind = "chain"
  <1>1. Stopped(phase) \in ArchiverState /\ Stopped(phase).phase = phase /\ Stopped(phase).kind = "chain"
    BY ArchiverFields DEF Stopped, Idle, ArchiverState, Phases
  <1>2. Becomes(p, Stopped(phase))
    BY <1>1, SetProc DEF Stop
  <1> QED
    BY <1>1, <1>2 DEF Becomes

LEMMA FileDoneFacts ==
  ASSUME TypeOK, NEW p \in Archiver, FileDone(p)
  PROVE  /\ Becomes(p, proc'[p])
         /\ proc'[p].bundle = proc[p].bundle /\ proc'[p].prev = proc[p].prev
         /\ \/ proc[p].kind = "chain" /\ proc'[p].phase = "look" /\ proc'[p].kind = "seal"
            \/ proc[p].kind = "seal" /\ proc'[p].phase = "stored" /\ proc'[p].kind = "seal"
  <1>1. CASE proc[p].kind = "chain"
    <2> DEFINE r == [proc[p] EXCEPT !.phase = "look", !.kind = "seal"]
    <2>1. /\ r \in ArchiverState /\ r.phase = "look" /\ r.kind = "seal"
          /\ r.bundle = proc[p].bundle /\ r.prev = proc[p].prev
      BY ArchiverFields DEF ArchiverState, Kind
    <2>2. proc' = [proc EXCEPT ![p] = r]
      BY <1>1 DEF FileDone, TypeOK
    <2> HIDE DEF r
    <2> QED
      BY <1>1, <2>1, <2>2, SetProc DEF Becomes
  <1>2. CASE proc[p].kind # "chain"
    <2>1. proc[p].kind = "seal" /\ Goto(p, "stored")
      BY <1>2, ArchiverFields DEF FileDone, Goto, Kind
    <2> QED
      BY <2>1, GotoFacts DEF Phases
  <1> QED
    BY <1>1, <1>2

LEMMA StartFacts ==
  ASSUME TypeOK, NEW p \in Archiver, StartArchive(p)
  PROVE  /\ Becomes(p, proc'[p])
         /\ proc'[p].phase = "look" /\ proc'[p].bundle \in Bundle
         /\ proc'[p].kind = proc[p].kind
  <1>1. PICK b \in Bundle : proc' = [proc EXCEPT ![p].phase = "look", ![p].bundle = b]
    BY DEF StartArchive
  <1> DEFINE r == [proc[p] EXCEPT !.phase = "look", !.bundle = b]
  <1>2. /\ r \in ArchiverState /\ r.phase = "look" /\ r.bundle = b /\ r.kind = proc[p].kind
    BY ArchiverFields DEF ArchiverState
  <1>3. proc' = [proc EXCEPT ![p] = r]
    BY <1>1 DEF TypeOK
  <1> HIDE DEF r
  <1> QED
    BY <1>2, <1>3, SetProc DEF Becomes

LEMMA LinkFacts ==
  ASSUME TypeOK, NEW p \in Archiver, LinkAnchor(p), ~anchor.torn
  PROVE  /\ Becomes(p, proc'[p])
         /\ proc'[p].phase = "linked" /\ proc'[p].prev = LastEntry(anchor.lines)
         /\ proc'[p].bundle = proc[p].bundle /\ proc'[p].kind = proc[p].kind
  <1> DEFINE e == LastEntry(anchor.lines)
             r == [proc[p] EXCEPT !.phase = "linked", !.prev = e]
  <1>1. e \in Entry
    <2>1. anchor.lines \in Seq(AnchorLine)
      BY DEF TypeOK, Log
    <2>2. CASE anchor.lines = <<>>
      BY <2>2 DEF LastEntry, Entry
    <2>3. CASE anchor.lines # <<>>
      <3>1. anchor.lines[Len(anchor.lines)] \in AnchorLine
        BY <2>1, <2>3
      <3> QED
        BY <2>3, <3>1 DEF LastEntry, EntryOf, AnchorLine, Entry
    <2> QED
      BY <2>2, <2>3
  <1>2. proc' = [proc EXCEPT ![p] = r]
    BY DEF LinkAnchor, TypeOK
  <1> HIDE DEF e
  <1>3. /\ r \in ArchiverState /\ r.phase = "linked" /\ r.prev = e
        /\ r.bundle = proc[p].bundle /\ r.kind = proc[p].kind
    BY <1>1, ArchiverFields DEF ArchiverState
  <1> HIDE DEF r
  <1>4. Becomes(p, r)
    BY <1>2, <1>3, SetProc
  <1> QED
    BY <1>3, <1>4 DEF Becomes, e
--------------------------------------------------------------------------------
(* Logs that grow by a line                                                *)

LEMMA AppendedFacts ==
  ASSUME NEW Line, NEW log \in Log(Line), NEW line \in Line
  PROVE  /\ Appended(log, line) \in Log(Line)
         /\ Appended(log, line).torn = log.torn
         /\ log.torn => Appended(log, line).lines = log.lines
         /\ ~log.torn => Appended(log, line).lines = Append(log.lines, line)
         /\ Torn(log) \in Log(Line) /\ Torn(log).torn /\ Torn(log).lines = log.lines
  <1>1. Append(log.lines, line) \in Seq(Line)
    BY DEF Log
  <1>2. [log EXCEPT !.lines = Append(@, line)] \in Log(Line)
    BY <1>1 DEF Log
  <1>3. [log EXCEPT !.lines = Append(@, line)].lines = Append(log.lines, line)
    BY DEF Log
  <1>4. [log EXCEPT !.lines = Append(@, line)].torn = log.torn
    BY DEF Log
  <1>5. log.torn \in BOOLEAN
    BY DEF Log
  <1>6. Torn(log) \in Log(Line) /\ Torn(log).torn /\ Torn(log).lines = log.lines
    BY DEF Torn, Log
  <1> QED
    BY <1>2, <1>3, <1>4, <1>5, <1>6 DEF Appended

LEMMA AppendFacts ==
  ASSUME NEW lines \in Seq(AnchorLine), NEW line \in AnchorLine
  PROVE  /\ Len(Append(lines, line)) = Len(lines) + 1 /\ Len(lines) \in Nat
         /\ \A i \in 1..Len(lines) : Append(lines, line)[i] = lines[i]
         /\ Append(lines, line)[Len(lines) + 1] = line
         /\ \A n \in 0..Len(lines) :
              ReplaysTo(Append(lines, line), n) <=> ReplaysTo(lines, n)
  <1>1. /\ Len(Append(lines, line)) = Len(lines) + 1 /\ Len(lines) \in Nat
        /\ \A i \in 1..Len(lines) : Append(lines, line)[i] = lines[i]
        /\ Append(lines, line)[Len(lines) + 1] = line
    OBVIOUS
  <1> DEFINE new == Append(lines, line)
  <1> HIDE DEF new
  <1>2. ASSUME NEW n \in 0..Len(lines)
        PROVE  ReplaysTo(new, n) <=> ReplaysTo(lines, n)
    BY <1>1, <1>2 DEF ReplaysTo, new
  <1> QED
    BY <1>1, <1>2 DEF new

LEMMA ReplaysToShorter ==
  ASSUME NEW lines, NEW n \in Nat, NEW m \in 0..n, ReplaysTo(lines, n)
  PROVE  ReplaysTo(lines, m)
  BY DEF ReplaysTo

LEMMA EntryOfType ==
  ASSUME NEW line \in AnchorLine
  PROVE  EntryOf(line) \in Entry /\ EntryOf(line) # <<>>
  BY DEF EntryOf, AnchorLine, Entry

\* A line that carries the last entry extends a log that replays.
LEMMA ChainExtends ==
  ASSUME NEW lines \in Seq(AnchorLine), NEW line \in AnchorLine,
         Replays(lines), line.prev = LastEntry(lines)
  PROVE  Replays(Append(lines, line))
  <1> DEFINE new == Append(lines, line)
  <1>1. /\ Len(new) = Len(lines) + 1 /\ Len(lines) \in Nat
        /\ \A i \in 1..Len(lines) : new[i] = lines[i]
        /\ new[Len(lines) + 1] = line
    BY AppendFacts
  <1> HIDE DEF new
  <1>2. lines = <<>> <=> Len(lines) = 0
    OBVIOUS
  <1>3. \A i \in 1..Len(lines) :
          new[i].prev = IF i = 1 THEN <<>> ELSE EntryOf(new[i - 1])
    BY <1>1 DEF Replays, ReplaysTo
  <1>4. new[Len(lines) + 1].prev =
          IF Len(lines) + 1 = 1 THEN <<>> ELSE EntryOf(new[(Len(lines) + 1) - 1])
    BY <1>1, <1>2 DEF LastEntry
  <1>5. ReplaysTo(new, Len(lines) + 1)
    BY <1>1, <1>3, <1>4 DEF ReplaysTo
  <1> QED
    BY <1>1, <1>5 DEF Replays, new
--------------------------------------------------------------------------------
(* What the steps do to the archived files and to a publisher's record     *)

LEMMA PathType ==
  ASSUME NEW b \in Bundle
  PROVE  PathOf(b) \in Path /\ b.job \in Job /\ b.rev \in Rev
  BY DEF PathOf, Path, Bundle

LEMMA SetArchivedFacts ==
  ASSUME TypeOK, NEW p \in Archiver, proc[p].bundle \in Bundle,
         NEW file \in Rev \cup {Missing, Damaged}, SetArchived(p, file)
  PROVE  /\ store' \in [Kind -> [Path -> Rev \cup {Missing, Damaged}]]
         /\ \A kind \in Kind, x \in Path :
              store'[kind][x] = IF kind = proc[p].kind /\ x = PathOf(proc[p].bundle)
                                THEN file ELSE store[kind][x]
  <1> DEFINE k == proc[p].kind
             x == PathOf(proc[p].bundle)
             files == [store[k] EXCEPT ![x] = file]
  <1>1. k \in Kind /\ x \in Path
    BY ArchiverFields, PathType
  <1>2. store' = [store EXCEPT ![k] = files]
    BY DEF SetArchived
  <1>3. /\ store[k] \in [Path -> Rev \cup {Missing, Damaged}]
        /\ store \in [Kind -> [Path -> Rev \cup {Missing, Damaged}]]
    BY <1>1 DEF TypeOK
  <1> HIDE DEF k, x
  <1>4. /\ files \in [Path -> Rev \cup {Missing, Damaged}]
        /\ \A y \in Path : files[y] = IF y = x THEN file ELSE store[k][y]
    BY <1>1, <1>3
  <1> HIDE DEF files
  <1>5. store' \in [Kind -> [Path -> Rev \cup {Missing, Damaged}]]
    BY <1>1, <1>2, <1>3, <1>4
  <1>6. \A kind \in Kind : store'[kind] = IF kind = k THEN files ELSE store[kind]
    BY <1>1, <1>2, <1>3
  <1>7. ASSUME NEW kind \in Kind, NEW y \in Path
        PROVE  store'[kind][y] = IF kind = k /\ y = x THEN file ELSE store[kind][y]
    BY <1>4, <1>6
  <1> QED
    BY <1>5, <1>7 DEF k, x

LEMMA PublisherFields ==
  ASSUME TypeOK, NEW q \in Publisher
  PROVE  /\ pub[q] \in PublisherState
         /\ pub[q].loaded \in Nat /\ pub[q].body \in SUBSET Entry
         /\ pub[q].sink \in Sink \cup {NoSink}
         /\ Unpublished \in PublisherState
  BY DEF TypeOK, PublisherState, Unpublished

LEMMA SetPub ==
  ASSUME TypeOK, NEW q \in Publisher, NEW r \in PublisherState, pub' = [pub EXCEPT ![q] = r]
  PROVE  /\ pub' \in [Publisher -> PublisherState]
         /\ pub'[q] = r
         /\ \A s \in Publisher \ {q} : pub'[s] = pub[s]
  BY DEF TypeOK

LEMMA EndPublishFacts ==
  ASSUME TypeOK, NEW q \in Publisher, NEW phase \in {"published", "failed"}, EndPublish(q, phase)
  PROVE  /\ pub' \in [Publisher -> PublisherState]
         /\ \A s \in Publisher \ {q} : pub'[s] = pub[s]
         /\ pub'[q].phase = phase /\ pub'[q].body = {}
         /\ phase = "published" => pub'[q].sink = pub[q].sink /\ pub'[q].loaded = pub[q].loaded
         /\ phase = "failed" => pub'[q].loaded = 0
  <1> DEFINE r == IF phase = "published" THEN [pub[q] EXCEPT !.phase = phase, !.body = {}]
                                         ELSE [Unpublished EXCEPT !.phase = phase]
  <1>1. pub' = [pub EXCEPT ![q] = r]
    BY DEF EndPublish
  <1>2. CASE phase = "published"
    <2>1. /\ r \in PublisherState /\ r.phase = phase /\ r.body = {}
          /\ r.sink = pub[q].sink /\ r.loaded = pub[q].loaded
      BY <1>2, PublisherFields DEF PublisherState
    <2> HIDE DEF r
    <2> QED
      BY <1>1, <1>2, <2>1, SetPub
  <1>3. CASE phase = "failed"
    <2>1. r \in PublisherState /\ r.phase = phase /\ r.body = {} /\ r.loaded = 0
      BY <1>3, PublisherFields DEF PublisherState, Unpublished
    <2> HIDE DEF r
    <2> QED
      BY <1>1, <1>3, <2>1, SetPub
  <1> QED
    BY <1>2, <1>3

LEMMA LoadFacts ==
  ASSUME TypeOK, NEW q \in Publisher, NEW s \in Sink,
         pub' = [pub EXCEPT ![q].phase = "loaded", ![q].sink = s, ![q].loaded = Len(anchor.lines)]
  PROVE  /\ pub' \in [Publisher -> PublisherState]
         /\ \A r \in Publisher \ {q} : pub'[r] = pub[r]
         /\ pub'[q].phase = "loaded" /\ pub'[q].sink = s
         /\ pub'[q].loaded = Len(anchor.lines) /\ pub'[q].body = pub[q].body
  <1> DEFINE n == Len(anchor.lines)
             x == [pub[q] EXCEPT !.phase = "loaded", !.sink = s, !.loaded = n]
  <1>1. n \in Nat
    BY DEF TypeOK, Log
  <1>2. pub' = [pub EXCEPT ![q] = x]
    BY DEF TypeOK
  <1> HIDE DEF n
  <1>3. /\ x \in PublisherState /\ x.phase = "loaded" /\ x.sink = s /\ x.loaded = n
        /\ x.body = pub[q].body
    BY <1>1, PublisherFields DEF PublisherState
  <1> HIDE DEF x
  <1> QED
    BY <1>2, <1>3, SetPub DEF n

LEMMA FetchFacts ==
  ASSUME TypeOK, NEW q \in Publisher, FetchObject(q)
  PROVE  /\ pub' \in [Publisher -> PublisherState]
         /\ \A r \in Publisher \ {q} : pub'[r] = pub[r]
         /\ pub'[q].phase = "fetched" /\ pub'[q].sink = "s3_worm"
         /\ pub'[q].loaded = pub[q].loaded /\ pub'[q].body = sink["s3_worm"]
  <1> DEFINE b == sink["s3_worm"]
             x == [pub[q] EXCEPT !.phase = "fetched", !.body = b]
  <1>1. b \in SUBSET Entry
    BY DEF TypeOK, Sink
  <1>2. pub' = [pub EXCEPT ![q] = x]
    BY DEF FetchObject, TypeOK
  <1> HIDE DEF b
  <1>3. /\ x \in PublisherState /\ x.phase = "fetched" /\ x.sink = pub[q].sink
        /\ x.loaded = pub[q].loaded /\ x.body = b
    BY <1>1, PublisherFields DEF PublisherState
  <1> HIDE DEF x
  <1> QED
    BY <1>2, <1>3, SetPub DEF b, FetchObject
--------------------------------------------------------------------------------
(* Types, and what the two scripts leave to each other                     *)

LEMMA OverlapFacts ==
  ASSUME TypeOK, NEW window \in {"copy", "link", "put"}, NEW other, Overlap(window, other)
  PROVE  /\ overlaps' \in SUBSET {"copy", "link", "put"}
         /\ overlaps \subseteq overlaps' /\ overlaps' \subseteq overlaps \cup {window}
         /\ other => window \in overlaps'
  BY DEF TypeOK, Overlap

LEMMA IndexFields ==
  ASSUME TypeOK
  PROVE  /\ index \in Log(IndexLine) /\ index.lines \in Seq(IndexLine) /\ Len(index.lines) \in Nat
         /\ \A n \in 1..Len(index.lines) :
              index.lines[n] \in IndexLine /\ index.lines[n].by \in Archiver
              /\ index.lines[n].bundle \in Bundle /\ index.lines[n].entry \in Entry
  <1>1. index \in Log(IndexLine) /\ index.lines \in Seq(IndexLine)
    BY DEF TypeOK, Log
  <1>2. \A n \in 1..Len(index.lines) : index.lines[n] \in IndexLine
    BY <1>1
  <1> QED
    BY <1>1, <1>2 DEF IndexLine

LEMMA AnchorFields ==
  ASSUME TypeOK
  PROVE  /\ anchor \in Log(AnchorLine) /\ anchor.lines \in Seq(AnchorLine)
         /\ Len(anchor.lines) \in Nat
         /\ \A n \in 1..Len(anchor.lines) : anchor.lines[n] \in AnchorLine
  BY DEF TypeOK, Log

\* An archiver appends at most one line to the anchor log, and touches no sink.
ArchiverFrame ==
  /\ pub' = pub /\ sink' = sink
  /\ overlaps \subseteq overlaps' /\ overlaps' \subseteq overlaps \cup {"copy", "link"}
  /\ \/ anchor'.lines = anchor.lines
     \/ \E line \in AnchorLine : anchor'.lines = Append(anchor.lines, line)

LEMMA RecordTypes ==
  ASSUME TypeOK, NEW p \in Archiver, proc[p].bundle \in Bundle
  PROVE  /\ AnchorRecord(p) \in AnchorLine /\ AnchorRecord(p).by = p
         /\ AnchorRecord(p).prev = proc[p].prev
         /\ IndexRecord(p) \in IndexLine /\ IndexRecord(p).by = p
         /\ IndexRecord(p).bundle = proc[p].bundle
         /\ IndexRecord(p).entry = EntryOf(AnchorRecord(p))
  <1>1. AnchorRecord(p) \in AnchorLine /\ AnchorRecord(p).by = p /\ AnchorRecord(p).prev = proc[p].prev
    BY ArchiverFields DEF AnchorRecord, AnchorLine
  <1>2. EntryOf(AnchorRecord(p)) \in Entry
    BY <1>1, EntryOfType
  <1> QED
    BY <1>1, <1>2 DEF IndexRecord, IndexLine

LEMMA ArchiverType ==
  ASSUME TypeOK, BundlesOK, NEW p \in Archiver, ArchiveStep(p)
  PROVE  TypeOK' /\ ArchiverFrame
  <1> DEFINE Others == /\ pub' = pub /\ sink' = sink
                       /\ overlaps' \in SUBSET {"copy", "link", "put"}
                       /\ overlaps \subseteq overlaps' /\ overlaps' \subseteq overlaps \cup {"copy", "link"}
             Stored == store' \in [Kind -> [Path -> Rev \cup {Missing, Damaged}]]
             Logs == /\ index' \in Log(IndexLine) /\ anchor' \in Log(AnchorLine)
                     /\ \/ anchor'.lines = anchor.lines
                        \/ \E line \in AnchorLine : anchor'.lines = Append(anchor.lines, line)
             Procs == proc' \in [Archiver -> ArchiverState]
  <1>0. /\ store' = store => Stored
        /\ overlaps' = overlaps => overlaps' \in SUBSET {"copy", "link", "put"}
        /\ index' = index /\ anchor' = anchor => Logs
    BY DEF TypeOK
  <1>00. /\ index \in Log(IndexLine) /\ anchor \in Log(AnchorLine)
    BY DEF TypeOK
  <1>1. CASE StartArchive(p)
    <2>1. Procs
      BY <1>1, StartFacts DEF Becomes
    <2>2. Others /\ Stored /\ Logs
      BY <1>1, <1>0 DEF StartArchive
    <2> QED
      BY <2>1, <2>2 DEF TypeOK, ArchiverFrame
  <1>2. CASE FindCopy(p)
    <2>1. Procs
      BY <1>2, FileDoneFacts, StopFacts DEF Becomes, FindCopy, Phases
    <2>2. Others /\ Stored /\ Logs
      BY <1>2, <1>0 DEF FindCopy
    <2> QED
      BY <2>1, <2>2 DEF TypeOK, ArchiverFrame
  <1>3. CASE FindNoCopy(p)
    <2>1. Procs
      BY <1>3, GotoFacts DEF Becomes, FindNoCopy, Phases
    <2>2. Stored /\ Logs
      BY <1>3, <1>0 DEF FindNoCopy
    <2>3. Others
      BY <1>3, OverlapFacts DEF FindNoCopy
    <2> QED
      BY <2>1, <2>2, <2>3 DEF TypeOK, ArchiverFrame
  <1>4. CASE OpenCopy(p)
    <2>1. Procs
      BY <1>4, GotoFacts DEF Becomes, OpenCopy, Phases
    <2>2. Others /\ Logs
      BY <1>4, <1>0 DEF OpenCopy
    <2>3. Stored
      BY <1>4, SetArchivedFacts DEF OpenCopy, BundlesOK
    <2> QED
      BY <2>1, <2>2, <2>3 DEF TypeOK, ArchiverFrame
  <1>5. CASE FillCopy(p)
    <2>1. Procs
      BY <1>5, GotoFacts DEF Becomes, FillCopy, Phases
    <2>2. Others /\ Logs
      BY <1>5, <1>0 DEF FillCopy
    <2>3. proc[p].bundle \in Bundle
      BY <1>5 DEF FillCopy, BundlesOK
    <2>4. Stored
      BY <1>5, <2>3, SetArchivedFacts, PathType DEF FillCopy
    <2> QED
      BY <2>1, <2>2, <2>4 DEF TypeOK, ArchiverFrame
  <1>6. CASE CheckCopy(p)
    <2>1. Procs
      BY <1>6, FileDoneFacts, StopFacts DEF Becomes, CheckCopy, Phases
    <2>2. Others /\ Stored /\ Logs
      BY <1>6, <1>0 DEF CheckCopy
    <2> QED
      BY <2>1, <2>2 DEF TypeOK, ArchiverFrame
  <1>7. CASE LinkAnchor(p)
    <2>1. Stored /\ Logs
      BY <1>7, <1>0 DEF LinkAnchor
    <2>2. Procs
      BY <1>7, LinkFacts, StopFacts DEF LinkAnchor, Becomes, Phases
    <2>3. Others
      BY <1>7, <1>0, OverlapFacts DEF LinkAnchor
    <2> QED
      BY <2>1, <2>2, <2>3 DEF TypeOK, ArchiverFrame
  <1>8. CASE AppendIndex(p)
    <2>1. Procs
      BY <1>8, GotoFacts, StopFacts DEF Becomes, AppendIndex, Phases
    <2>2. Others /\ Stored
      BY <1>8, <1>0 DEF AppendIndex
    <2>3. IndexRecord(p) \in IndexLine
      BY <1>8, RecordTypes DEF AppendIndex, BundlesOK
    <2>4. Logs
      <3>1. index' \in Log(IndexLine)
        BY <1>8, <2>3, <1>00, AppendedFacts DEF AppendIndex
      <3> QED
        BY <1>8, <3>1, <1>00 DEF AppendIndex
    <2> QED
      BY <2>1, <2>2, <2>4 DEF TypeOK, ArchiverFrame
  <1>9. CASE AppendAnchor(p)
    <2>1. Procs
      BY <1>9, StopFacts DEF Becomes, AppendAnchor, Phases
    <2>2. Others /\ Stored
      BY <1>9, <1>0 DEF AppendAnchor
    <2>3. AnchorRecord(p) \in AnchorLine
      BY <1>9, RecordTypes DEF AppendAnchor, BundlesOK
    <2>4. Logs
      <3>1. /\ anchor' \in Log(AnchorLine)
            /\ \/ anchor'.lines = anchor.lines
               \/ anchor'.lines = Append(anchor.lines, AnchorRecord(p))
        <4> DEFINE new == Appended(anchor, AnchorRecord(p))
        <4>1. /\ new \in Log(AnchorLine) /\ Torn(anchor) \in Log(AnchorLine)
              /\ new.lines = anchor.lines \/ new.lines = Append(anchor.lines, AnchorRecord(p))
              /\ Torn(anchor).lines = anchor.lines
          BY <2>3, <1>00, AppendedFacts
        <4>2. anchor' = new \/ anchor' = Torn(anchor)
          BY <1>9 DEF AppendAnchor
        <4> HIDE DEF new
        <4> QED
          BY <4>1, <4>2
      <3> QED
        BY <1>9, <2>3, <3>1, <1>00 DEF AppendAnchor
    <2> QED
      BY <2>1, <2>2, <2>4 DEF TypeOK, ArchiverFrame
  <1>10. CASE Abort(p)
    <2>1. Procs
      BY <1>10, StopFacts DEF Becomes, Abort, Phases
    <2>2. Others /\ Stored /\ Logs
      BY <1>10, <1>0 DEF Abort
    <2> QED
      BY <2>1, <2>2 DEF TypeOK, ArchiverFrame
  <1> QED
    BY <1>1, <1>2, <1>3, <1>4, <1>5, <1>6, <1>7, <1>8, <1>9, <1>10 DEF ArchiveStep

\* A publisher leaves the archive alone.
PublisherFrame ==
  /\ UNCHANGED <<store, index, anchor, proc>>
  /\ overlaps \subseteq overlaps' /\ overlaps' \subseteq overlaps \cup {"put"}

LEMMA LoadedType ==
  ASSUME TypeOK, PublishedOK, NEW q \in Publisher
  PROVE  /\ \A n \in 0..pub[q].loaded : {EntryOf(anchor.lines[i]) : i \in 1..n} \subseteq Replayed
         /\ Loaded(q) \subseteq Replayed /\ Replayed \subseteq Entry
  <1>1. /\ pub[q].loaded \in Nat /\ pub[q].loaded <= Len(anchor.lines)
        /\ ReplaysTo(anchor.lines, pub[q].loaded)
        /\ anchor.lines \in Seq(AnchorLine)
    BY PublisherFields DEF PublishedOK, TypeOK, Log
  <1>2. \A i \in 1..Len(anchor.lines) : EntryOf(anchor.lines[i]) \in Entry
    BY <1>1, EntryOfType
  <1>3. ASSUME NEW n \in 0..pub[q].loaded, NEW i \in 1..n
        PROVE  EntryOf(anchor.lines[i]) \in Replayed
    <2>1. ReplaysTo(anchor.lines, i) /\ i \in 1..Len(anchor.lines)
      BY <1>1, ReplaysToShorter
    <2> QED
      BY <2>1 DEF Replayed
  <1> QED
    BY <1>1, <1>2, <1>3 DEF Loaded, Replayed

LEMMA PublisherType ==
  ASSUME TypeOK, PublishedOK, NEW q \in Publisher, PublishStep(q)
  PROVE  TypeOK' /\ PublisherFrame
  <1> DEFINE Pubs == pub' \in [Publisher -> PublisherState]
             Sinks == sink' \in [Sink -> SUBSET Entry]
             Others == /\ UNCHANGED <<store, index, anchor, proc>>
                       /\ overlaps' \in SUBSET {"copy", "link", "put"}
                       /\ overlaps \subseteq overlaps' /\ overlaps' \subseteq overlaps \cup {"put"}
  <1>0. /\ sink' = sink => Sinks
        /\ overlaps \in SUBSET {"copy", "link", "put"}
        /\ sink \in [Sink -> SUBSET Entry]
    BY DEF TypeOK
  <1>p. ASSUME NEW s \in Sink, NEW S \in SUBSET Entry, NEW phase \in {"published", "failed"},
               Publish(q, s, S, phase)
        PROVE  Pubs /\ Sinks /\ Others
    BY <1>p, <1>0, EndPublishFacts DEF Publish
  <1>1. CASE LoadAnchors(q)
    BY <1>1, <1>0, LoadFacts, EndPublishFacts DEF LoadAnchors, TypeOK, PublisherFrame
  <1>2. CASE PublishToFile(q)
    <2>1. "file_ledger" \in Sink
      BY DEF Sink
    <2>2. ASSUME NEW n \in 0..pub[q].loaded
          PROVE  {EntryOf(anchor.lines[i]) : i \in 1..n} \in SUBSET Entry
      BY LoadedType
    <2>3. Loaded(q) \in SUBSET Entry
      BY LoadedType
    <2>4. Pubs /\ Sinks /\ Others
      BY <1>2, <1>p, <2>1, <2>2, <2>3 DEF PublishToFile
    <2> QED
      BY <2>4 DEF TypeOK, PublisherFrame
  <1>3. CASE PublishToRekor(q)
    <2>1. "rekor" \in Sink
      BY DEF Sink
    <2>2. \A S, T \in SUBSET Loaded(q) : S \cup T \in SUBSET Entry
      BY LoadedType
    <2>3. Pubs /\ Sinks /\ Others
      BY <1>3, <1>p, <2>1, <2>2 DEF PublishToRekor
    <2> QED
      BY <2>3 DEF TypeOK, PublisherFrame
  <1>4. CASE FetchObject(q)
    <2>1. Pubs /\ Sinks
      BY <1>4, <1>0, FetchFacts DEF FetchObject
    <2>2. Others
      BY <1>4, OverlapFacts DEF FetchObject
    <2> QED
      BY <2>1, <2>2 DEF TypeOK, PublisherFrame
  <1>5. CASE PutObject(q)
    <2>1. pub[q].body \cup Loaded(q) \in SUBSET Entry
      BY LoadedType, PublisherFields
    <2>2. Sinks
      BY <1>5, <1>0, <2>1 DEF PutObject
    <2>3. Pubs /\ Others
      BY <1>5, <1>0, EndPublishFacts DEF PutObject
    <2> QED
      BY <2>2, <2>3 DEF TypeOK, PublisherFrame
  <1>6. CASE AbortPublish(q)
    BY <1>6, <1>0, EndPublishFacts DEF AbortPublish, TypeOK, PublisherFrame
  <1> QED
    BY <1>1, <1>2, <1>3, <1>4, <1>5, <1>6 DEF PublishStep
--------------------------------------------------------------------------------
(* An archiver's step preserves each part of the invariant                 *)

\* The shapes of an archiver's step.
LEMMA StepShape ==
  ASSUME NEW p \in Archiver, ArchiveStep(p)
  PROVE  \/ StartArchive(p)
         \/ FileDone(p) /\ proc[p].phase \in {"look", "check"}
         \/ \E phase \in {"failed", "done"} : Stop(p, phase)
         \/ \E phase \in {"open", "fill", "check", "indexed"} :
              Goto(p, phase) /\ proc[p].phase \in {"look", "open", "fill", "linked"}
         \/ LinkAnchor(p) /\ ~anchor.torn /\ proc[p].phase = "stored"
  <1>1. CASE StartArchive(p) \/ Abort(p)
    BY <1>1 DEF Abort
  <1>2. CASE FindCopy(p) \/ CheckCopy(p)
    BY <1>2 DEF FindCopy, CheckCopy
  <1>3. CASE FindNoCopy(p) \/ OpenCopy(p) \/ FillCopy(p)
    BY <1>3 DEF FindNoCopy, OpenCopy, FillCopy
  <1>4. CASE LinkAnchor(p)
    BY <1>4 DEF LinkAnchor
  <1>5. CASE AppendIndex(p) \/ AppendAnchor(p)
    BY <1>5 DEF AppendIndex, AppendAnchor
  <1> QED
    BY <1>1, <1>2, <1>3, <1>4, <1>5 DEF ArchiveStep

LEMMA ArchiverBundles ==
  ASSUME TypeOK, BundlesOK, NEW p \in Archiver, ArchiveStep(p)
  PROVE  BundlesOK' /\ Becomes(p, proc'[p])
  <1> DEFINE Good(r) ==
        /\ proc'[r].phase \notin {"idle", "done", "failed"} => proc'[r].bundle \in Bundle
        /\ proc'[r].phase = "idle" => proc'[r].kind = "chain"
  <1>1. ASSUME NEW phase \in {"failed", "done"}, Stop(p, phase)
        PROVE  Good(p) /\ Becomes(p, proc'[p])
    BY <1>1, StopFacts DEF Phases
  <1>2. ASSUME NEW phase \in {"open", "fill", "check", "indexed"}, Goto(p, phase),
               proc[p].phase \in {"look", "open", "fill", "linked"}
        PROVE  Good(p) /\ Becomes(p, proc'[p])
    <2>1. phase \in Phases
      BY DEF Phases
    <2> QED
      BY <1>2, <2>1, GotoFacts DEF BundlesOK
  <1>3. Good(p) /\ Becomes(p, proc'[p])
    <2>1. CASE StartArchive(p)
      BY <2>1, StartFacts
    <2>2. CASE FileDone(p) /\ proc[p].phase \in {"look", "check"}
      BY <2>2, FileDoneFacts DEF BundlesOK
    <2>3. CASE LinkAnchor(p) /\ ~anchor.torn /\ proc[p].phase = "stored"
      BY <2>3, LinkFacts DEF BundlesOK
    <2> QED
      BY <2>1, <2>2, <2>3, <1>1, <1>2, StepShape
  <1>4. ASSUME NEW r \in Archiver \ {p}
        PROVE  Good(r)
    BY <1>3 DEF Becomes, BundlesOK
  <1> QED
    BY <1>3, <1>4 DEF BundlesOK

LEMMA ArchiverLink ==
  ASSUME TypeOK, BundlesOK, LinkOK, NEW p \in Archiver, ArchiveStep(p)
  PROVE  LinkOK'
  <1> SUFFICES ASSUME "link" \notin overlaps'
               PROVE  /\ Replays(anchor'.lines)
                      /\ \A r \in Archiver : Linking(r)' => proc'[r].prev = LastEntry(anchor'.lines)
                      /\ \A q, r \in Archiver : Linking(q)' /\ Linking(r)' => q = r
    BY DEF LinkOK
  <1>1. /\ "link" \notin overlaps /\ Replays(anchor.lines)
        /\ \A r \in Archiver : Linking(r) => proc[r].prev = LastEntry(anchor.lines)
        /\ \A q, r \in Archiver : Linking(q) /\ Linking(r) => q = r
    BY ArchiverType DEF ArchiverFrame, LinkOK
  <1>2. ASSUME anchor'.lines = anchor.lines,
               \A r \in Archiver : Linking(r)' => Linking(r) /\ proc'[r].prev = proc[r].prev
        PROVE  /\ Replays(anchor'.lines)
               /\ \A r \in Archiver : Linking(r)' => proc'[r].prev = LastEntry(anchor'.lines)
               /\ \A q, r \in Archiver : Linking(q)' /\ Linking(r)' => q = r
    BY <1>1, <1>2
  <1>s. ASSUME NEW phase \in {"failed", "done"}, Stop(p, phase)
        PROVE  \A r \in Archiver : Linking(r)' => Linking(r) /\ proc'[r].prev = proc[r].prev /\ r # p
    BY <1>s, StopFacts DEF Phases, Becomes, Linking
  <1>g. ASSUME NEW phase \in {"open", "fill", "check"}, Goto(p, phase)
        PROVE  \A r \in Archiver : Linking(r)' => Linking(r) /\ proc'[r].prev = proc[r].prev
    BY <1>g, GotoFacts DEF Phases, Becomes, Linking
  <1>f. ASSUME FileDone(p)
        PROVE  \A r \in Archiver : Linking(r)' => Linking(r) /\ proc'[r].prev = proc[r].prev
    BY <1>f, FileDoneFacts DEF Becomes, Linking
  <1>3. CASE StartArchive(p)
    <2>1. \A r \in Archiver : Linking(r)' => Linking(r) /\ proc'[r].prev = proc[r].prev
      BY <1>3, StartFacts DEF Becomes, Linking
    <2> QED
      BY <1>2, <1>3, <2>1 DEF StartArchive
  <1>4. CASE FindCopy(p) \/ FindNoCopy(p) \/ OpenCopy(p) \/ FillCopy(p) \/ CheckCopy(p) \/ Abort(p)
    <2>1. \A r \in Archiver : Linking(r)' => Linking(r) /\ proc'[r].prev = proc[r].prev
      BY <1>4, <1>s, <1>g, <1>f
         DEF FindCopy, FindNoCopy, OpenCopy, FillCopy, CheckCopy, Abort
    <2>2. anchor'.lines = anchor.lines
      BY <1>4 DEF FindCopy, FindNoCopy, OpenCopy, FillCopy, CheckCopy, Abort
    <2> QED
      BY <1>2, <2>1, <2>2
  <1>5. CASE LinkAnchor(p)
    <2>1. CASE anchor.torn
      BY <1>2, <1>5, <1>s, <2>1 DEF LinkAnchor
    <2>2. CASE ~anchor.torn
      <3>1. ASSUME NEW r \in Archiver \ {p}
            PROVE  ~Linking(r) /\ ~Linking(r)'
        <4>1. ~Linking(r)
          <5>1. Overlap("link", \E q \in Archiver \ {p} : proc[q].phase \in {"linked", "indexed"})
            BY <1>5, <2>2 DEF LinkAnchor
          <5> QED
            BY <5>1 DEF Overlap, Linking
        <4> QED
          BY <1>5, <2>2, <4>1, LinkFacts DEF Becomes, Linking
      <3>2. proc'[p].prev = LastEntry(anchor.lines) /\ anchor'.lines = anchor.lines
        BY <1>5, <2>2, LinkFacts DEF LinkAnchor
      <3> QED
        BY <1>1, <3>1, <3>2
    <2> QED
      BY <2>1, <2>2
  <1>6. CASE AppendIndex(p)
    <2>1. \A r \in Archiver : Linking(r)' => Linking(r) /\ proc'[r].prev = proc[r].prev
      <3>1. ASSUME Goto(p, "indexed")
            PROVE  \A r \in Archiver : Linking(r)' => Linking(r) /\ proc'[r].prev = proc[r].prev
        BY <1>6, <3>1, GotoFacts DEF Phases, Becomes, Linking, AppendIndex
      <3> QED
        BY <1>6, <1>s, <3>1 DEF AppendIndex
    <2> QED
      BY <1>2, <1>6, <2>1 DEF AppendIndex
  <1>7. CASE AppendAnchor(p)
    <2>1. \A r \in Archiver : ~Linking(r)'
      <3>1. \A r \in Archiver : Linking(r)' => Linking(r) /\ r # p
        BY <1>7, <1>s DEF AppendAnchor
      <3>2. Linking(p)
        BY <1>7 DEF AppendAnchor, Linking
      <3> QED
        BY <1>1, <3>1, <3>2
    <2>2. Replays(anchor'.lines)
      <3>1. /\ AnchorRecord(p) \in AnchorLine
            /\ AnchorRecord(p).prev = LastEntry(anchor.lines)
        BY <1>1, <1>7, RecordTypes DEF AppendAnchor, BundlesOK, Linking
      <3>2. anchor \in Log(AnchorLine) /\ anchor.lines \in Seq(AnchorLine)
        BY DEF TypeOK, Log
      <3>3. Replays(Append(anchor.lines, AnchorRecord(p)))
        BY <1>1, <3>1, <3>2, ChainExtends
      <3> DEFINE new == Appended(anchor, AnchorRecord(p))
      <3>4. /\ new.lines = anchor.lines \/ new.lines = Append(anchor.lines, AnchorRecord(p))
            /\ Torn(anchor).lines = anchor.lines
        BY <3>1, <3>2, AppendedFacts
      <3>5. anchor' = new \/ anchor' = Torn(anchor)
        BY <1>7 DEF AppendAnchor
      <3> HIDE DEF new
      <3> QED
        BY <1>1, <3>3, <3>4, <3>5
    <2> QED
      BY <2>1, <2>2
  <1> QED
    BY <1>3, <1>4, <1>5, <1>6, <1>7 DEF ArchiveStep

\* A step that leaves the files and the index alone, and by which nobody starts a copy
\* or comes to rely on a file that is not there.
LEMMA CopyKept ==
  ASSUME TypeOK, CopyOK, "copy" \notin overlaps, store' = store, index' = index,
         \A r \in Archiver : Copying(r)' =>
           Copying(r) /\ proc'[r].phase = proc[r].phase
           /\ proc'[r].bundle = proc[r].bundle /\ proc'[r].kind = proc[r].kind,
         \A r \in Archiver, kind \in Kind : HasFile(r, kind)' =>
           /\ proc'[r].bundle = proc[r].bundle
           /\ HasFile(r, kind) \/ store[kind][PathOf(proc[r].bundle)] = proc[r].bundle.rev
  PROVE  CopyOK'
  <1>1. \A q, r \in Archiver : Copying(q)' /\ Copying(r)' /\ SameFile(q, r)' => q = r
    BY DEF CopyOK, SameFile
  <1>2. \A r \in Archiver : proc'[r].phase = "open" => Archived(r)' = Missing
    BY DEF CopyOK, Copying, Archived
  <1>3. \A r \in Archiver : proc'[r].phase = "fill" => Archived(r)' = Damaged
    BY DEF CopyOK, Copying, Archived
  <1>4. \A r \in Archiver, kind \in Kind :
          HasFile(r, kind)' => store'[kind][PathOf(proc'[r].bundle)] = proc'[r].bundle.rev
    BY DEF CopyOK
  <1> QED
    BY <1>1, <1>2, <1>3, <1>4 DEF CopyOK

\* A copy that rewrites the file it alone has open disturbs nobody.
LEMMA CopyWrites ==
  ASSUME TypeOK, BundlesOK, CopyOK, "copy" \notin overlaps, NEW p \in Archiver, Copying(p),
         NEW file \in Rev \cup {Damaged}, SetArchived(p, file), index' = index,
         Becomes(p, proc'[p]), proc'[p].bundle = proc[p].bundle, proc'[p].kind = proc[p].kind,
         \/ proc'[p].phase = "fill" /\ file = Damaged
         \/ proc'[p].phase = "check"
  PROVE  CopyOK'
  <1> DEFINE k == proc[p].kind
             x == PathOf(proc[p].bundle)
  <1>0. /\ proc[p].bundle \in Bundle /\ k \in Kind /\ x \in Path
        /\ \A r \in Archiver \ {p} : proc'[r] = proc[r]
    BY ArchiverFields, PathType DEF BundlesOK, Copying, Becomes
  <1>1. \A kind \in Kind, y \in Path :
          store'[kind][y] = IF kind = k /\ y = x THEN file ELSE store[kind][y]
    BY <1>0, SetArchivedFacts
  <1>2. store[k][x] \notin Rev
    BY AuditArchiveAssumption DEF CopyOK, Copying, Archived
  <1>3. ASSUME NEW b \in Bundle, NEW kind \in Kind, store[kind][PathOf(b)] = b.rev
        PROVE  store'[kind][PathOf(b)] = b.rev
    BY <1>1, <1>2, <1>3, PathType
  <1>4. ASSUME NEW r \in Archiver \ {p}, Copying(r)
        PROVE  Archived(r)' = Archived(r)
    <2>1. ~SameFile(p, r)
      BY <1>4 DEF CopyOK
    <2>2. proc[r].bundle \in Bundle /\ proc[r].kind \in Kind
      BY <1>4, ArchiverFields DEF BundlesOK, Copying
    <2> QED
      BY <1>0, <1>1, <2>1, <2>2, PathType DEF SameFile, Archived
  <1>5. \A q, r \in Archiver : Copying(q)' /\ Copying(r)' /\ SameFile(q, r)' => q = r
    <2>1. \A r \in Archiver : Copying(r)' =>
            Copying(r) /\ proc'[r].bundle = proc[r].bundle /\ proc'[r].kind = proc[r].kind
      BY <1>0 DEF Copying
    <2> QED
      BY <2>1 DEF CopyOK, SameFile
  <1>6. \A r \in Archiver : proc'[r].phase = "open" => Archived(r)' = Missing
    BY <1>0, <1>4 DEF CopyOK, Copying
  <1>7. ASSUME NEW r \in Archiver, proc'[r].phase = "fill"
        PROVE  Archived(r)' = Damaged
    <2>1. CASE r = p
      BY <1>0, <1>1, <1>7, <2>1 DEF Archived
    <2>2. CASE r # p
      BY <1>0, <1>4, <1>7, <2>2 DEF CopyOK, Copying
    <2> QED
      BY <2>1, <2>2
  <1>8. ASSUME NEW r \in Archiver, NEW kind \in Kind, HasFile(r, kind)'
        PROVE  store'[kind][PathOf(proc'[r].bundle)] = proc'[r].bundle.rev
    <2>1. HasFile(r, kind) /\ proc'[r].bundle = proc[r].bundle
      BY <1>0, <1>8 DEF HasFile, Copying
    <2>2. proc[r].bundle \in Bundle
      BY <2>1 DEF HasFile, BundlesOK
    <2> QED
      BY <1>3, <2>1, <2>2 DEF CopyOK
  <1>9. ASSUME NEW n \in 1..Len(index.lines), NEW kind \in Kind
        PROVE  store'[kind][PathOf(index.lines[n].bundle)] = index.lines[n].bundle.rev
    <2>1. index.lines[n].bundle \in Bundle
      BY IndexFields
    <2> QED
      BY <1>3, <2>1 DEF CopyOK
  <1> QED
    BY <1>5, <1>6, <1>7, <1>8, <1>9 DEF CopyOK

LEMMA ArchiverCopy ==
  ASSUME TypeOK, BundlesOK, CopyOK, NEW p \in Archiver, ArchiveStep(p)
  PROVE  CopyOK'
  <1> DEFINE Keeps(r) ==
        /\ Copying(r)' => Copying(r) /\ proc'[r].phase = proc[r].phase
                          /\ proc'[r].bundle = proc[r].bundle /\ proc'[r].kind = proc[r].kind
        /\ \A kind \in Kind : HasFile(r, kind)' =>
             /\ proc'[r].bundle = proc[r].bundle
             /\ HasFile(r, kind) \/ store[kind][PathOf(proc[r].bundle)] = proc[r].bundle.rev
  <1>0. CASE "copy" \in overlaps'
    BY <1>0 DEF CopyOK
  <1> SUFFICES ASSUME "copy" \notin overlaps'
               PROVE  CopyOK'
    BY <1>0
  <1>1. "copy" \notin overlaps /\ Becomes(p, proc'[p])
    BY ArchiverType, ArchiverBundles DEF ArchiverFrame
  <1>2. \A r \in Archiver \ {p} : Keeps(r)
    BY <1>1 DEF Becomes, Copying, HasFile
  <1>k. ASSUME Keeps(p), store' = store, index' = index
        PROVE  CopyOK'
    BY <1>1, <1>2, <1>k, CopyKept
  <1>s. ASSUME NEW phase \in {"failed", "done"}, Stop(p, phase)
        PROVE  Keeps(p)
    BY <1>s, StopFacts DEF Phases, Copying, HasFile
  <1>f. ASSUME FileDone(p), Archived(p) = proc[p].bundle.rev, proc[p].phase \in {"look", "check"}
        PROVE  Keeps(p)
    BY <1>f, FileDoneFacts DEF Copying, HasFile, Archived, Kind
  <1>3. CASE StartArchive(p)
    <2>1. proc[p].kind = "chain"
      BY <1>3 DEF StartArchive, BundlesOK
    <2>2. Keeps(p)
      BY <1>3, <2>1, StartFacts DEF Copying, HasFile
    <2> QED
      BY <1>3, <1>k, <2>2 DEF StartArchive
  <1>4. CASE FindCopy(p) \/ CheckCopy(p)
    BY <1>4, <1>k, <1>s, <1>f DEF FindCopy, CheckCopy
  <1>5. CASE FindNoCopy(p)
    <2>1. /\ proc'[p].phase = "open" /\ proc'[p].bundle = proc[p].bundle
          /\ proc'[p].kind = proc[p].kind /\ store' = store /\ index' = index
          /\ proc[p].phase = "look" /\ Archived(p) = Missing
          /\ \A r \in Archiver \ {p} : proc'[r] = proc[r]
      BY <1>5, GotoFacts DEF FindNoCopy, Phases, Becomes
    <2>2. ASSUME NEW r \in Archiver \ {p}, Copying(r)
          PROVE  ~SameFile(r, p)
      <3>1. ~(proc[r].phase = "open" /\ SameFile(r, p))
        BY <1>5 DEF FindNoCopy, Overlap, SameFile
      <3>2. proc[r].phase = "fill" => Archived(r) = Damaged
        BY <1>1 DEF CopyOK
      <3> QED
        BY <2>1, <2>2, <3>1, <3>2, AuditArchiveAssumption DEF SameFile, Archived, Copying
    <2>3. \A q, r \in Archiver : Copying(q)' /\ Copying(r)' /\ SameFile(q, r)' => q = r
      <3>1. \A r \in Archiver : r # p => (Copying(r)' <=> Copying(r))
        BY <2>1 DEF Copying
      <3>2. \A q, r \in Archiver : SameFile(q, r)' <=> SameFile(q, r)
        BY <2>1 DEF SameFile
      <3>3. \A q, r \in Archiver : SameFile(q, r) <=> SameFile(r, q)
        BY DEF SameFile
      <3>4. \A q, r \in Archiver : Copying(q) /\ Copying(r) /\ SameFile(q, r) => q = r
        BY <1>1 DEF CopyOK
      <3> QED
        BY <2>2, <3>1, <3>2, <3>3, <3>4
    <2>4. \A r \in Archiver : proc'[r].phase = "open" => Archived(r)' = Missing
      BY <1>1, <2>1 DEF CopyOK, Archived
    <2>5. \A r \in Archiver : proc'[r].phase = "fill" => Archived(r)' = Damaged
      BY <1>1, <2>1 DEF CopyOK, Archived
    <2>6. \A r \in Archiver, kind \in Kind :
            HasFile(r, kind)' => store'[kind][PathOf(proc'[r].bundle)] = proc'[r].bundle.rev
      <3>1. \A r \in Archiver, kind \in Kind : HasFile(r, kind)' =>
              HasFile(r, kind) /\ proc'[r].bundle = proc[r].bundle
        BY <2>1 DEF HasFile
      <3> QED
        BY <1>1, <2>1, <3>1 DEF CopyOK
    <2> QED
      BY <1>1, <2>1, <2>3, <2>4, <2>5, <2>6 DEF CopyOK
  <1>6. CASE OpenCopy(p)
    <2>1. /\ proc'[p].phase = "fill" /\ proc'[p].bundle = proc[p].bundle
          /\ proc'[p].kind = proc[p].kind
      BY <1>6, GotoFacts DEF OpenCopy, Phases
    <2> QED
      BY <1>1, <1>6, <2>1, CopyWrites DEF OpenCopy, Copying
  <1>7. CASE FillCopy(p)
    <2>1. /\ proc'[p].phase = "check" /\ proc'[p].bundle = proc[p].bundle
          /\ proc'[p].kind = proc[p].kind
      BY <1>7, GotoFacts DEF FillCopy, Phases
    <2>2. proc[p].bundle.rev \in Rev /\ Copying(p)
      BY <1>7, PathType DEF FillCopy, BundlesOK, Copying
    <2>3. PICK file \in {proc[p].bundle.rev, Damaged} : SetArchived(p, file)
      BY <1>7 DEF FillCopy
    <2>4. file \in Rev \cup {Damaged} /\ index' = index
      BY <1>7, <2>2 DEF FillCopy
    <2> QED
      BY <1>1, <2>1, <2>2, <2>3, <2>4, CopyWrites
  <1>8. CASE LinkAnchor(p)
    <2>1. CASE anchor.torn
      BY <1>8, <1>k, <1>s, <2>1 DEF LinkAnchor
    <2>2. CASE ~anchor.torn
      <3>1. Keeps(p)
        BY <1>8, <2>2, LinkFacts DEF LinkAnchor, Copying, HasFile
      <3> QED
        BY <1>8, <1>k, <3>1 DEF LinkAnchor
    <2> QED
      BY <2>1, <2>2
  <1>9. CASE AppendIndex(p)
    <2>1. Keeps(p) /\ store' = store
      <3>1. ASSUME Goto(p, "indexed")
            PROVE  Keeps(p)
        BY <1>9, <3>1, GotoFacts DEF AppendIndex, Phases, Copying, HasFile
      <3> QED
        BY <1>9, <1>s, <3>1 DEF AppendIndex
    <2>2. ASSUME NEW n \in 1..Len(index'.lines), NEW kind \in Kind
          PROVE  store[kind][PathOf(index'.lines[n].bundle)] = index'.lines[n].bundle.rev
      <3> DEFINE line == IndexRecord(p)
                 new == Appended(index, line)
      <3>1. line \in IndexLine /\ line.bundle = proc[p].bundle
        BY <1>9, RecordTypes DEF AppendIndex, BundlesOK
      <3>2. index \in Log(IndexLine) /\ index.lines \in Seq(IndexLine)
        BY DEF TypeOK, Log
      <3> HIDE DEF line
      <3>3. /\ new.lines = index.lines \/ new.lines = Append(index.lines, line)
            /\ Torn(index).lines = index.lines
        BY <3>1, <3>2, AppendedFacts
      <3>4. index' = new \/ index' = Torn(index)
        BY <1>9 DEF AppendIndex, line
      <3> HIDE DEF new
      <3>5. \A i \in 1..Len(index.lines) :
              store[kind][PathOf(index.lines[i].bundle)] = index.lines[i].bundle.rev
        BY <1>1 DEF CopyOK
      <3>6. store[kind][PathOf(line.bundle)] = line.bundle.rev
        BY <1>1, <1>9, <3>1 DEF CopyOK, HasFile, AppendIndex
      <3>7. CASE index'.lines = index.lines
        BY <3>5, <3>7
      <3>8. CASE index'.lines = Append(index.lines, line)
        <4>1. index'.lines[n] = line \/ (n \in 1..Len(index.lines) /\ index'.lines[n] = index.lines[n])
          BY <3>2, <3>8
        <4> QED
          BY <3>5, <3>6, <4>1
      <3> QED
        BY <3>3, <3>4, <3>7, <3>8
    <2>3. /\ \A r \in Archiver : Keeps(r)
          /\ \A q, r \in Archiver : Copying(q)' /\ Copying(r)' /\ SameFile(q, r)' => q = r
      BY <1>1, <1>2, <2>1 DEF CopyOK, SameFile
    <2>4. /\ \A r \in Archiver : proc'[r].phase = "open" => Archived(r)' = Missing
          /\ \A r \in Archiver : proc'[r].phase = "fill" => Archived(r)' = Damaged
      BY <1>1, <2>1, <2>3 DEF CopyOK, Copying, Archived
    <2>5. \A r \in Archiver, kind \in Kind :
            HasFile(r, kind)' => store'[kind][PathOf(proc'[r].bundle)] = proc'[r].bundle.rev
      BY <1>1, <2>1, <2>3 DEF CopyOK
    <2> QED
      BY <2>1, <2>2, <2>3, <2>4, <2>5 DEF CopyOK
  <1>10. CASE AppendAnchor(p) \/ Abort(p)
    BY <1>10, <1>k, <1>s DEF AppendAnchor, Abort
  <1> QED
    BY <1>3, <1>4, <1>5, <1>6, <1>7, <1>8, <1>9, <1>10 DEF ArchiveStep

\* A step that leaves the logs alone, after which an archiver with an index record is where
\* it was, or has failed.
LEMMA AnchoredKept ==
  ASSUME TypeOK, AnchoredOK, index'.lines = index.lines, anchor' = anchor,
         \A r \in Archiver : proc[r].phase \in {"indexed", "done", "failed"} =>
           proc'[r] = proc[r] \/ proc'[r].phase = "failed"
  PROVE  AnchoredOK'
  <1>1. ASSUME NEW record \in IndexLine, RecordOK(record, proc, anchor)
        PROVE  RecordOK(record, proc', anchor)
    <2>1. record.by \in Archiver
      BY DEF IndexLine
    <2>2. proc'[record.by] = proc[record.by] \/ proc'[record.by].phase = "failed"
      BY <1>1, <2>1 DEF RecordOK
    <2> QED
      BY <1>1, <2>2 DEF RecordOK
  <1> QED
    BY <1>1, IndexFields DEF AnchoredOK

LEMMA ArchiverAnchored ==
  ASSUME TypeOK, BundlesOK, AnchoredOK, NEW p \in Archiver, ArchiveStep(p)
  PROVE  AnchoredOK'
  <1>1. \A r \in Archiver \ {p} : proc'[r] = proc[r]
    BY ArchiverBundles DEF Becomes
  <1>2. CASE \/ StartArchive(p) \/ FindCopy(p) \/ FindNoCopy(p) \/ OpenCopy(p) \/ FillCopy(p)
             \/ CheckCopy(p) \/ LinkAnchor(p)
    <2>1. /\ proc[p].phase \notin {"indexed", "done", "failed"}
          /\ index' = index /\ anchor' = anchor
      BY <1>2 DEF StartArchive, FindCopy, FindNoCopy, OpenCopy, FillCopy, CheckCopy, LinkAnchor
    <2> QED
      BY <1>1, <2>1, AnchoredKept
  <1>3. CASE Abort(p)
    <2>1. proc'[p].phase = "failed" /\ index' = index /\ anchor' = anchor
      BY <1>3, StopFacts DEF Abort, Phases
    <2> QED
      BY <1>1, <2>1, AnchoredKept
  <1>4. CASE AppendIndex(p)
    <2>1. /\ proc[p].phase = "linked" /\ anchor' = anchor /\ proc[p].bundle \in Bundle
      BY <1>4 DEF AppendIndex, BundlesOK
    <2>2. \A k \in 1..Len(index.lines) : index.lines[k].by # p
      BY <2>1 DEF AnchoredOK, RecordOK
    <2> DEFINE line == IndexRecord(p)
               new == Appended(index, line)
    <2>3. line \in IndexLine /\ line.by = p /\ line.entry = Append(proc[p].prev, p)
      BY <2>1, RecordTypes DEF EntryOf
    <2> HIDE DEF line
    <2>4. /\ new.lines = index.lines \/ new.lines = Append(index.lines, line)
          /\ Torn(index).lines = index.lines
      BY <2>3, IndexFields, AppendedFacts
    <2>5. \/ index' = new /\ Goto(p, "indexed")
          \/ index' = Torn(index) /\ proc'[p].phase = "failed"
      BY <1>4, StopFacts DEF AppendIndex, Phases, line
    <2> HIDE DEF new
    <2>6. CASE index'.lines = index.lines
      BY <1>1, <2>1, <2>6, AnchoredKept
    <2>7. CASE index'.lines = Append(index.lines, line) /\ Goto(p, "indexed")
      <3>1. proc'[p].phase = "indexed" /\ proc'[p].prev = proc[p].prev
        BY <2>7, GotoFacts DEF Phases
      <3>2. ASSUME NEW k \in 1..Len(index'.lines)
            PROVE  RecordOK(index'.lines[k], proc', anchor)
        <4>1. \/ index'.lines[k] = line
              \/ k \in 1..Len(index.lines) /\ index'.lines[k] = index.lines[k]
          BY <2>7, IndexFields
        <4>2. RecordOK(line, proc', anchor)
          BY <2>3, <3>1 DEF RecordOK
        <4>3. ASSUME NEW i \in 1..Len(index.lines)
              PROVE  RecordOK(index.lines[i], proc', anchor)
          <5>1. index.lines[i].by \in Archiver \ {p} /\ RecordOK(index.lines[i], proc, anchor)
            BY <2>2, IndexFields DEF AnchoredOK
          <5> QED
            BY <1>1, <5>1 DEF RecordOK
        <4> QED
          BY <4>1, <4>2, <4>3
      <3> QED
        BY <2>1, <3>2 DEF AnchoredOK
    <2> QED
      BY <2>4, <2>5, <2>6, <2>7
  <1>5. CASE AppendAnchor(p)
    <2>1. proc[p].phase = "indexed" /\ index' = index /\ proc[p].bundle \in Bundle
      BY <1>5 DEF AppendAnchor, BundlesOK
    <2> DEFINE line == AnchorRecord(p)
               new == Appended(anchor, line)
    <2>2. line \in AnchorLine /\ line.by = p /\ EntryOf(line) = Append(proc[p].prev, p)
      BY <2>1, RecordTypes DEF EntryOf
    <2> HIDE DEF line
    <2>3. /\ new.torn = anchor.torn
          /\ ~anchor.torn => new.lines = Append(anchor.lines, line)
          /\ Torn(anchor).torn
      BY <2>2, AnchorFields, AppendedFacts
    <2>4. \/ anchor' = new /\ proc'[p].phase = "done"
          \/ anchor' = Torn(anchor) /\ proc'[p].phase = "failed"
      <3>1. CASE anchor' = new /\ Stop(p, "done")
        BY <3>1, StopFacts DEF Phases
      <3>2. CASE anchor' = Torn(anchor) /\ Stop(p, "failed")
        BY <3>2, StopFacts DEF Phases
      <3> QED
        BY <1>5, <3>1, <3>2 DEF AppendAnchor, line
    <2> HIDE DEF new
    <2>5. ~anchor'.torn => ~anchor.torn /\ anchor'.lines = Append(anchor.lines, line)
      BY <2>3, <2>4
    <2>6. ~anchor'.torn =>
            /\ Len(anchor.lines) + 1 \in 1..Len(anchor'.lines)
            /\ anchor'.lines[Len(anchor.lines) + 1] = line
            /\ \A i \in 1..Len(anchor.lines) :
                 i \in 1..Len(anchor'.lines) /\ anchor'.lines[i] = anchor.lines[i]
      BY <2>2, <2>5, AnchorFields
    <2>7. ASSUME NEW record \in IndexLine, RecordOK(record, proc, anchor)
          PROVE  RecordOK(record, proc', anchor')
      <3>1. record.by \in Archiver
        BY DEF IndexLine
      <3>2. CASE record.by = p
        <4>1. record.entry = EntryOf(line)
          BY <2>1, <2>2, <2>7, <3>2 DEF RecordOK
        <4> QED
          BY <2>2, <2>4, <2>6, <3>2, <4>1 DEF RecordOK
      <3>3. CASE record.by # p
        <4>1. proc'[record.by] = proc[record.by]
          BY <1>1, <3>1, <3>3
        <4> QED
          BY <2>5, <2>6, <2>7, <4>1 DEF RecordOK
      <3> QED
        BY <3>2, <3>3
    <2> QED
      BY <2>1, <2>7, IndexFields DEF AnchoredOK
  <1> QED
    BY <1>2, <1>3, <1>4, <1>5 DEF ArchiveStep

\* The entry of the line that extends the log lists one archiver more.
LEMMA EntriesExtend ==
  ASSUME TypeOK, EntriesOK, NEW line \in AnchorLine, anchor'.lines = Append(anchor.lines, line)
  PROVE  EntriesOK'
  <1> DEFINE lines == anchor.lines
             new == anchor'.lines
  <1>1. /\ lines \in Seq(AnchorLine) /\ Len(lines) \in Nat /\ Len(new) = Len(lines) + 1
        /\ \A i \in 1..Len(lines) : new[i] = lines[i]
        /\ new[Len(lines) + 1] = line
        /\ \A n \in 0..Len(lines) : ReplaysTo(new, n) <=> ReplaysTo(lines, n)
    BY AnchorFields, AppendFacts
  <1>2. \A n \in 1..Len(lines) : ReplaysTo(lines, n) => EntryOf(lines[n]) = ByTo(lines, n)
    BY DEF EntriesOK
  <1> HIDE DEF lines, new
  <1>3. \A n \in 0..Len(lines) : ByTo(new, n) = ByTo(lines, n)
    BY <1>1 DEF ByTo
  <1>4. ASSUME NEW n \in 1..Len(lines), ReplaysTo(new, n)
        PROVE  EntryOf(new[n]) = ByTo(new, n)
    BY <1>1, <1>2, <1>3, <1>4
  <1>5. ASSUME ReplaysTo(new, Len(lines) + 1)
        PROVE  EntryOf(new[Len(lines) + 1]) = ByTo(new, Len(lines) + 1)
    <2> DEFINE m == Len(lines)
    <2>1. line.prev = IF m = 0 THEN <<>> ELSE EntryOf(lines[m])
      BY <1>1, <1>5 DEF ReplaysTo
    <2>2. line.prev = ByTo(lines, m)
      <3>1. CASE m = 0
        BY <2>1, <3>1 DEF ByTo
      <3>2. CASE m # 0
        <4>1. m \in 1..Len(lines) /\ m \in 0..Len(lines) /\ ReplaysTo(new, m)
          BY <1>1, <1>5, <3>2 DEF ReplaysTo
        <4>2. ReplaysTo(lines, m)
          BY <1>1, <4>1
        <4> QED
          BY <1>2, <2>1, <3>2, <4>1, <4>2
      <3> QED
        BY <3>1, <3>2
    <2>3. /\ line.by \in Archiver /\ line.prev \in Seq(Archiver) /\ Len(line.prev) = m
          /\ \A i \in 1..m : line.prev[i] = new[i].by
      <3>1. line.by \in Archiver /\ line.prev \in Seq(Archiver)
        BY DEF AnchorLine, Entry
      <3>2. DOMAIN line.prev = 1..m /\ \A i \in 1..m : line.prev[i] = new[i].by
        BY <1>1, <2>2 DEF ByTo
      <3> QED
        BY <1>1, <3>1, <3>2
    <2>4. /\ Append(line.prev, line.by) \in Seq(Archiver)
          /\ Len(Append(line.prev, line.by)) = m + 1
          /\ \A i \in 1..(m + 1) : Append(line.prev, line.by)[i] = new[i].by
      BY <1>1, <2>3
    <2>5. Append(line.prev, line.by) = [i \in 1..(m + 1) |-> new[i].by]
      BY <2>4
    <2> QED
      BY <1>1, <2>5 DEF EntryOf, ByTo
  <1>6. \A n \in 1..Len(new) : n \in 1..Len(lines) \/ n = Len(lines) + 1
    BY <1>1
  <1>7. \A n \in 1..Len(new) : ReplaysTo(new, n) => EntryOf(new[n]) = ByTo(new, n)
    BY <1>4, <1>5, <1>6
  <1> QED
    BY <1>7 DEF EntriesOK, new

\* What an archiver appends changes nothing a publisher loaded or published.
LEMMA ArchiverPublished ==
  ASSUME TypeOK, BundlesOK, EntriesOK, PublishedOK, PutOK, UploadedKept,
         NEW p \in Archiver, ArchiveStep(p)
  PROVE  EntriesOK' /\ PublishedOK' /\ PutOK' /\ UploadedKept'
  <1>1. /\ ArchiverFrame /\ TypeOK'
    BY ArchiverType
  <1>2. /\ Len(anchor.lines) \in Nat /\ Len(anchor'.lines) \in Nat
        /\ Len(anchor.lines) <= Len(anchor'.lines)
        /\ \A i \in 1..Len(anchor.lines) : anchor'.lines[i] = anchor.lines[i]
        /\ \A n \in 0..Len(anchor.lines) : ReplaysTo(anchor'.lines, n) <=> ReplaysTo(anchor.lines, n)
    <2>1. CASE anchor'.lines = anchor.lines
      BY <2>1, AnchorFields
    <2>2. CASE \E line \in AnchorLine : anchor'.lines = Append(anchor.lines, line)
      BY <2>2, AnchorFields, AppendFacts
    <2> QED
      BY <1>1, <2>1, <2>2 DEF ArchiverFrame
  <1>3. EntriesOK'
    <2>1. CASE anchor'.lines = anchor.lines
      BY <2>1 DEF EntriesOK
    <2>2. CASE \E line \in AnchorLine : anchor'.lines = Append(anchor.lines, line)
      BY <2>2, EntriesExtend
    <2> QED
      BY <1>1, <2>1, <2>2 DEF ArchiverFrame
  <1>4. Replayed \subseteq Replayed'
    <2>1. ASSUME NEW n \in 1..Len(anchor.lines), ReplaysTo(anchor.lines, n)
          PROVE  /\ n \in 1..Len(anchor'.lines) /\ ReplaysTo(anchor'.lines, n)
                 /\ EntryOf(anchor'.lines[n]) = EntryOf(anchor.lines[n])
      BY <1>2, <2>1
    <2> QED
      BY <2>1 DEF Replayed
  <1>5. ASSUME NEW q \in Publisher
        PROVE  Loaded(q)' = Loaded(q)
    <2>1. pub[q].loaded \in 0..Len(anchor.lines) /\ pub'[q] = pub[q]
      BY <1>1, <1>2, PublisherFields DEF PublishedOK, ArchiverFrame
    <2> QED
      BY <1>2, <2>1 DEF Loaded
  <1>6. PublishedOK'
    <2>1. ASSUME NEW q \in Publisher
          PROVE  /\ pub[q].loaded <= Len(anchor'.lines)
                 /\ ReplaysTo(anchor'.lines, pub[q].loaded)
      <3>1. /\ pub[q].loaded \in 0..Len(anchor.lines) /\ ReplaysTo(anchor.lines, pub[q].loaded)
        BY <1>2, PublisherFields DEF PublishedOK
      <3> QED
        BY <1>2, <3>1
    <2> QED
      BY <1>1, <1>4, <2>1 DEF PublishedOK, ArchiverFrame
  <1>7. "put" \in overlaps' <=> "put" \in overlaps
    BY <1>1 DEF ArchiverFrame
  <1>8. PutOK'
    BY <1>1, <1>7 DEF PutOK, ArchiverFrame
  <1>9. UploadedKept'
    BY <1>1, <1>5, <1>7 DEF UploadedKept, ArchiverFrame
  <1> QED
    BY <1>3, <1>6, <1>8, <1>9
--------------------------------------------------------------------------------
(* A publisher's step preserves each part of the invariant                 *)

LEMMA PublisherPublished ==
  ASSUME TypeOK, PublishedOK, NEW q \in Publisher, PublishStep(q)
  PROVE  PublishedOK'
  <1>0. /\ PublisherFrame /\ Replayed' = Replayed
    BY PublisherType DEF PublisherFrame, Replayed
  <1> DEFINE PubOK(r, state) ==
        /\ state.loaded <= Len(anchor.lines)
        /\ ReplaysTo(anchor.lines, state.loaded)
        /\ state.body \subseteq Replayed
        /\ state.phase \notin {"idle", "failed"} => state.sink \in Sink
        /\ state.phase = "fetched" => state.sink = "s3_worm"
  <1>1. /\ \A r \in Publisher : PubOK(r, pub[r])
        /\ \A s \in Sink : sink[s] \subseteq Replayed
    BY DEF PublishedOK
  <1>q. ASSUME \A r \in Publisher \ {q} : pub'[r] = pub[r], PubOK(q, pub'[q]),
               \A s \in Sink : sink'[s] \subseteq Replayed
        PROVE  PublishedOK'
    BY <1>0, <1>1, <1>q DEF PublishedOK, PublisherFrame
  <1>e. ASSUME NEW phase \in {"published", "failed"}, EndPublish(q, phase),
               phase = "published" => pub[q].phase \notin {"idle", "failed"}
        PROVE  PubOK(q, pub'[q]) /\ \A r \in Publisher \ {q} : pub'[r] = pub[r]
    <2>1. /\ pub'[q].phase = phase /\ pub'[q].body = {}
          /\ phase = "published" => pub'[q].sink = pub[q].sink /\ pub'[q].loaded = pub[q].loaded
          /\ phase = "failed" => pub'[q].loaded = 0
          /\ \A r \in Publisher \ {q} : pub'[r] = pub[r]
      BY <1>e, EndPublishFacts
    <2>2. ReplaysTo(anchor.lines, 0) /\ 0 <= Len(anchor.lines)
      BY AnchorFields DEF ReplaysTo
    <2> QED
      BY <1>1, <1>e, <2>1, <2>2
  <1>s. ASSUME NEW s \in Sink, NEW S \in SUBSET Replayed, sink' = [sink EXCEPT ![s] = @ \cup S]
        PROVE  \A t \in Sink : sink'[t] \subseteq Replayed
    BY <1>1, <1>s DEF TypeOK
  <1>2. CASE LoadAnchors(q)
    <2>1. CASE EndPublish(q, "failed")
      BY <1>1, <1>2, <1>e, <1>q, <2>1 DEF LoadAnchors
    <2>2. CASE Replays(anchor.lines) /\ \E s \in Sink :
            pub' = [pub EXCEPT ![q].phase = "loaded", ![q].sink = s, ![q].loaded = Len(anchor.lines)]
      <3>1. /\ pub'[q].phase = "loaded" /\ pub'[q].sink \in Sink
            /\ pub'[q].loaded = Len(anchor.lines) /\ pub'[q].body = pub[q].body
            /\ \A r \in Publisher \ {q} : pub'[r] = pub[r]
        BY <2>2, LoadFacts
      <3>2. ReplaysTo(anchor.lines, pub'[q].loaded) /\ pub'[q].loaded <= Len(anchor.lines)
        BY <2>2, <3>1, AnchorFields DEF Replays
      <3>3. pub[q].body \subseteq Replayed
        BY <1>1
      <3>4. PubOK(q, pub'[q])
        BY <3>1, <3>2, <3>3
      <3> QED
        BY <1>1, <1>2, <1>q, <3>1, <3>4 DEF LoadAnchors
    <2> QED
      BY <1>2, <2>1, <2>2 DEF LoadAnchors
  <1>3. ASSUME NEW s \in Sink, NEW S \in SUBSET Replayed, NEW phase \in {"published", "failed"},
               Publish(q, s, S, phase), pub[q].phase = "loaded"
        PROVE  PublishedOK'
    BY <1>3, <1>e, <1>q, <1>s DEF Publish
  <1>4. CASE PublishToFile(q)
    <2>1. "file_ledger" \in Sink /\ Loaded(q) \in SUBSET Replayed
      BY LoadedType DEF Sink
    <2>2. \A n \in 0..pub[q].loaded : {EntryOf(anchor.lines[i]) : i \in 1..n} \in SUBSET Replayed
      BY LoadedType
    <2> QED
      BY <1>3, <1>4, <2>1, <2>2 DEF PublishToFile
  <1>5. CASE PublishToRekor(q)
    <2>1. PICK S \in SUBSET Loaded(q), T \in SUBSET Loaded(q) :
            Publish(q, "rekor", S \cup T, IF S = Loaded(q) THEN "published" ELSE "failed")
      BY <1>5 DEF PublishToRekor
    <2>2. "rekor" \in Sink /\ S \cup T \in SUBSET Replayed
      BY LoadedType DEF Sink
    <2> QED
      BY <1>3, <1>5, <2>1, <2>2 DEF PublishToRekor
  <1>6. CASE FetchObject(q)
    <2>1. /\ pub'[q].phase = "fetched" /\ pub'[q].sink = "s3_worm"
          /\ pub'[q].loaded = pub[q].loaded /\ pub'[q].body = sink["s3_worm"]
          /\ \A r \in Publisher \ {q} : pub'[r] = pub[r]
      BY <1>6, FetchFacts
    <2>2. "s3_worm" \in Sink /\ sink' = sink
      BY <1>6 DEF Sink, FetchObject
    <2> QED
      BY <1>1, <1>q, <2>1, <2>2
  <1>7. CASE PutObject(q)
    <2>1. /\ pub[q].phase = "fetched" /\ Loaded(q) \in SUBSET Replayed
          /\ \E phase \in {"published", "failed"} : EndPublish(q, phase)
          /\ sink' = [sink EXCEPT !["s3_worm"] = pub[q].body \cup Loaded(q)]
      BY <1>7, LoadedType DEF PutObject
    <2>2. \A t \in Sink : sink'[t] \subseteq Replayed
      BY <1>1, <2>1 DEF TypeOK
    <2> QED
      BY <1>e, <1>q, <2>1, <2>2
  <1>8. CASE AbortPublish(q)
    BY <1>1, <1>8, <1>e, <1>q DEF AbortPublish
  <1> QED
    BY <1>2, <1>4, <1>5, <1>6, <1>7, <1>8 DEF PublishStep

LEMMA PublisherPut ==
  ASSUME TypeOK, PublishedOK, PutOK, NEW q \in Publisher, PublishStep(q)
  PROVE  PutOK'
  <1> SUFFICES ASSUME "put" \notin overlaps'
               PROVE  /\ \A r \in Publisher : pub'[r].phase = "fetched" => pub'[r].body = sink'["s3_worm"]
                      /\ \A r, t \in Publisher :
                           pub'[r].phase = "fetched" /\ pub'[t].phase = "fetched" => r = t
    BY DEF PutOK
  <1>1. /\ \A r \in Publisher : pub[r].phase = "fetched" => pub[r].body = sink["s3_worm"]
        /\ \A r, t \in Publisher : pub[r].phase = "fetched" /\ pub[t].phase = "fetched" => r = t
    BY PublisherType DEF PublisherFrame, PutOK
  <1>k. ASSUME sink'["s3_worm"] = sink["s3_worm"], pub'[q].phase # "fetched",
               \A r \in Publisher \ {q} : pub'[r] = pub[r]
        PROVE  /\ \A r \in Publisher : pub'[r].phase = "fetched" => pub'[r].body = sink'["s3_worm"]
               /\ \A r, t \in Publisher :
                    pub'[r].phase = "fetched" /\ pub'[t].phase = "fetched" => r = t
    BY <1>1, <1>k
  <1>e. ASSUME NEW phase \in {"published", "failed"}, EndPublish(q, phase)
        PROVE  pub'[q].phase # "fetched" /\ \A r \in Publisher \ {q} : pub'[r] = pub[r]
    BY <1>e, EndPublishFacts
  <1>2. CASE LoadAnchors(q)
    <2>1. pub'[q].phase # "fetched" /\ \A r \in Publisher \ {q} : pub'[r] = pub[r]
      BY <1>2, <1>e, LoadFacts DEF LoadAnchors
    <2> QED
      BY <1>2, <1>k, <2>1 DEF LoadAnchors
  <1>3. CASE PublishToFile(q) \/ PublishToRekor(q)
    <2>1. PICK s \in {"file_ledger", "rekor"}, phase \in {"published", "failed"} :
            \E S : Publish(q, s, S, phase)
      BY <1>3 DEF PublishToFile, PublishToRekor
    <2>2. sink'["s3_worm"] = sink["s3_worm"]
      BY <2>1 DEF Publish, TypeOK, Sink
    <2> QED
      BY <1>e, <1>k, <2>1, <2>2 DEF Publish
  <1>4. CASE FetchObject(q)
    <2>1. /\ pub'[q].body = sink["s3_worm"] /\ sink' = sink
          /\ \A r \in Publisher \ {q} : pub'[r] = pub[r]
      BY <1>4, FetchFacts DEF FetchObject
    <2>2. \A r \in Publisher \ {q} : pub[r].phase # "fetched"
      BY <1>4 DEF FetchObject, Overlap
    <2> QED
      BY <2>1, <2>2
  <1>5. CASE PutObject(q)
    <2>1. /\ \A r \in Publisher \ {q} : pub[r].phase # "fetched" /\ pub'[r] = pub[r]
          /\ pub'[q].phase # "fetched"
      BY <1>1, <1>5, <1>e DEF PutObject
    <2> QED
      BY <2>1
  <1>6. CASE AbortPublish(q)
    BY <1>6, <1>e, <1>k DEF AbortPublish
  <1> QED
    BY <1>2, <1>3, <1>4, <1>5, <1>6 DEF PublishStep

LEMMA PublisherUploaded ==
  ASSUME TypeOK, PublishedOK, PutOK, UploadedKept, NEW q \in Publisher, PublishStep(q)
  PROVE  UploadedKept'
  <1> DEFINE Raced(r) == pub[r].sink = "s3_worm" /\ "put" \in overlaps
  <1>0. /\ anchor' = anchor
        /\ "put" \in overlaps => "put" \in overlaps'
        /\ \A r \in Publisher : pub[r].phase = "published" => pub[r].sink \in Sink
    BY PublisherType DEF PublisherFrame, PublishedOK
  <1>1. \A r \in Publisher : (pub[r].phase = "published" /\ ~Raced(r)) => Loaded(r) \subseteq sink[pub[r].sink]
    BY DEF UploadedKept
  <1>2. ASSUME NEW r \in Publisher, pub'[r].loaded = pub[r].loaded
        PROVE  Loaded(r)' = Loaded(r)
    BY <1>0, <1>2 DEF Loaded
  <1>k. ASSUME \A r \in Publisher \ {q} : pub'[r] = pub[r],
               \A s \in Sink : (s = "s3_worm" => "put" \notin overlaps') => sink[s] \subseteq sink'[s],
               (pub'[q].phase = "published" /\ ~Raced(q)') => Loaded(q)' \subseteq sink'[pub'[q].sink]
        PROVE  UploadedKept'
    <2>1. ASSUME NEW r \in Publisher \ {q}, pub'[r].phase = "published", ~Raced(r)'
          PROVE  Loaded(r)' \subseteq sink'[pub'[r].sink]
      <3>1. pub'[r] = pub[r] /\ pub[r].sink \in Sink /\ Loaded(r)' = Loaded(r)
        BY <1>0, <1>2, <1>k, <2>1
      <3>2. pub[r].phase = "published" /\ ~Raced(r) /\ (pub[r].sink = "s3_worm" => "put" \notin overlaps')
        BY <1>0, <2>1, <3>1
      <3>3. Loaded(r) \subseteq sink[pub[r].sink] /\ sink[pub[r].sink] \subseteq sink'[pub[r].sink]
        BY <1>1, <1>k, <3>1, <3>2
      <3> QED
        BY <3>1, <3>3
    <2> QED
      BY <1>k, <2>1 DEF UploadedKept
  <1>e. ASSUME NEW phase \in {"published", "failed"}, EndPublish(q, phase)
        PROVE  /\ \A r \in Publisher \ {q} : pub'[r] = pub[r]
               /\ pub'[q].phase = phase
               /\ phase = "published" => pub'[q].sink = pub[q].sink /\ Loaded(q)' = Loaded(q)
    BY <1>2, <1>e, EndPublishFacts
  <1>p. ASSUME NEW s \in Sink, NEW S, NEW phase \in {"published", "failed"},
               Publish(q, s, S, phase), phase = "published" => pub[q].sink = s /\ Loaded(q) \subseteq S
        PROVE  UploadedKept'
    <2>1. /\ \A t \in Sink : sink[t] \subseteq sink'[t]
          /\ S \subseteq sink'[s]
      BY <1>p DEF Publish, TypeOK
    <2>2. /\ \A r \in Publisher \ {q} : pub'[r] = pub[r]
          /\ pub'[q].phase = phase
          /\ phase = "published" => pub'[q].sink = pub[q].sink /\ Loaded(q)' = Loaded(q)
      BY <1>e, <1>p DEF Publish
    <2>3. (pub'[q].phase = "published" /\ ~Raced(q)') => Loaded(q)' \subseteq sink'[pub'[q].sink]
      BY <1>p, <2>1, <2>2
    <2> QED
      BY <1>k, <2>1, <2>2, <2>3
  <1>3. CASE LoadAnchors(q)
    <2>1. pub'[q].phase # "published" /\ \A r \in Publisher \ {q} : pub'[r] = pub[r]
      BY <1>3, <1>e, LoadFacts DEF LoadAnchors
    <2> QED
      BY <1>3, <1>k, <2>1 DEF LoadAnchors
  <1>4. CASE PublishToFile(q)
    <2>1. "file_ledger" \in Sink
      BY DEF Sink
    <2> QED
      BY <1>4, <1>p, <2>1 DEF PublishToFile
  <1>5. CASE PublishToRekor(q)
    <2>1. PICK S \in SUBSET Loaded(q), T \in SUBSET Loaded(q) :
            Publish(q, "rekor", S \cup T, IF S = Loaded(q) THEN "published" ELSE "failed")
      BY <1>5 DEF PublishToRekor
    <2>2. "rekor" \in Sink /\ pub[q].sink = "rekor"
      BY <1>5 DEF Sink, PublishToRekor
    <2>3. CASE S = Loaded(q)
      BY <1>p, <2>1, <2>2, <2>3
    <2>4. CASE S # Loaded(q)
      BY <1>p, <2>1, <2>2, <2>4
    <2> QED
      BY <2>3, <2>4
  <1>6. CASE FetchObject(q)
    <2>1. /\ pub'[q].phase = "fetched" /\ sink' = sink
          /\ \A r \in Publisher \ {q} : pub'[r] = pub[r]
      BY <1>6, FetchFacts DEF FetchObject
    <2> QED
      BY <1>k, <2>1
  <1>7. CASE PutObject(q)
    <2>1. PICK phase \in {"published", "failed"} : EndPublish(q, phase)
      BY <1>7 DEF PutObject
    <2>2. /\ pub[q].sink = "s3_worm" /\ overlaps' = overlaps
          /\ "put" \notin overlaps => pub[q].body = sink["s3_worm"]
      BY <1>7 DEF PutObject, PublishedOK, PutOK
    <2>3. /\ sink'["s3_worm"] = pub[q].body \cup Loaded(q)
          /\ \A s \in Sink : s # "s3_worm" => sink'[s] = sink[s]
      BY <1>7 DEF PutObject, TypeOK, Sink
    <2> QED
      BY <1>e, <1>k, <2>1, <2>2, <2>3
  <1>8. CASE AbortPublish(q)
    BY <1>8, <1>e, <1>k DEF AbortPublish
  <1> QED
    BY <1>3, <1>4, <1>5, <1>6, <1>7, <1>8 DEF PublishStep
--------------------------------------------------------------------------------
(* The invariant holds, and implies the properties                         *)

LEMMA InitHolds == Init => IInv
  <1> SUFFICES ASSUME Init
               PROVE  IInv
    OBVIOUS
  <1> USE DEF Init
  <1>1. /\ anchor.lines = <<>> /\ index.lines = <<>>
        /\ Len(anchor.lines) = 0 /\ Len(index.lines) = 0
    OBVIOUS
  <1>2. /\ \A p \in Archiver : proc[p].phase = "idle" /\ proc[p].kind = "chain"
        /\ \A q \in Publisher : /\ pub[q].phase = "idle" /\ pub[q].loaded = 0 /\ pub[q].body = {}
        /\ \A s \in Sink : sink[s] = {}
        /\ Idle \in ArchiverState /\ Unpublished \in PublisherState
    BY DEF Idle, Unpublished, ArchiverState, PublisherState, Kind, Entry
  <1>3. TypeOK
    <2>1. index \in Log(IndexLine) /\ anchor \in Log(AnchorLine)
      BY DEF Log
    <2> QED
      BY <1>2, <2>1 DEF TypeOK
  <1>4. BundlesOK /\ LinkOK /\ CopyOK /\ AnchoredOK /\ EntriesOK
    BY <1>1, <1>2 DEF BundlesOK, LinkOK, Linking, Replays, ReplaysTo, CopyOK, Copying, HasFile,
                      AnchoredOK, EntriesOK
  <1>5. PublishedOK /\ PutOK /\ UploadedKept
    BY <1>1, <1>2 DEF PublishedOK, ReplaysTo, PutOK, UploadedKept
  <1> QED
    BY <1>3, <1>4, <1>5 DEF IInv

LEMMA StutterHolds ==
  ASSUME IInv, UNCHANGED vars
  PROVE  IInv'
  <1> USE DEF vars
  <1>1. TypeOK' /\ BundlesOK' /\ LinkOK'
    BY DEF IInv, TypeOK, BundlesOK, LinkOK, Linking
  <1>2. CopyOK'
    BY DEF IInv, CopyOK, Copying, SameFile, Archived, HasFile
  <1>3. AnchoredOK' /\ EntriesOK'
    BY DEF IInv, AnchoredOK, EntriesOK
  <1>4. PublishedOK' /\ PutOK' /\ UploadedKept'
    BY DEF IInv, PublishedOK, Replayed, PutOK, UploadedKept, Loaded
  <1> QED
    BY <1>1, <1>2, <1>3, <1>4 DEF IInv

LEMMA NextHolds ==
  ASSUME IInv, Next
  PROVE  IInv'
  <1>1. CASE \E p \in Archiver : ArchiveStep(p)
    <2>1. PICK p \in Archiver : ArchiveStep(p)
      BY <1>1
    <2> QED
      BY <2>1, ArchiverType, ArchiverBundles, ArchiverLink, ArchiverCopy, ArchiverAnchored,
         ArchiverPublished DEF IInv
  <1>2. CASE \E q \in Publisher : PublishStep(q)
    <2>1. PICK q \in Publisher : PublishStep(q)
      BY <1>2
    <2>2. /\ PublisherFrame /\ TypeOK'
          /\ "link" \in overlaps => "link" \in overlaps'
          /\ "copy" \in overlaps => "copy" \in overlaps'
      BY <2>1, PublisherType DEF IInv, PublisherFrame
    <2>3. BundlesOK' /\ LinkOK'
      BY <2>2 DEF IInv, PublisherFrame, BundlesOK, LinkOK, Linking
    <2>4. CopyOK'
      BY <2>2 DEF IInv, PublisherFrame, CopyOK, Copying, SameFile, Archived, HasFile
    <2>5. AnchoredOK' /\ EntriesOK'
      BY <2>2 DEF IInv, PublisherFrame, AnchoredOK, EntriesOK
    <2> QED
      BY <2>1, <2>2, <2>3, <2>4, <2>5, PublisherPublished, PublisherPut, PublisherUploaded DEF IInv
  <1> QED
    BY <1>1, <1>2 DEF Next

LEMMA Invariance == Spec => []IInv
  <1>1. IInv /\ [Next]_vars => IInv'
    BY NextHolds, StutterHolds
  <1> QED
    BY <1>1, InitHolds, PTL DEF Spec

\* Both logs, the archive and the sinks keep their shape.
THEOREM TypeCorrect == Spec => []TypeOK
  <1>1. IInv => TypeOK
    BY DEF IInv
  <1> QED
    BY <1>1, Invariance, PTL

\* However many archivers fail or are killed where, the anchor log replays as long as no two
\* were between reading the last entry and appending their own (archive_audit_bundle.py:461-493).
THEOREM LogChains == Spec => []ChainReplays
  <1>1. IInv => ChainReplays
    BY DEF IInv, LinkOK, ChainReplays
  <1> QED
    BY <1>1, Invariance, PTL

\* The last archive of a job that finished is one that verify_audit_bundle.py accepts.
THEOREM FinishedVerifies == Spec => []ArchivedVerifies
  <1>1. ASSUME IInv
        PROVE  ArchivedVerifies
    <2> SUFFICES ASSUME "copy" \notin overlaps, Readable(index), Readable(anchor), Replays(anchor.lines),
                        NEW p \in Archiver, NEW job \in Job, proc[p].phase = "done",
                        NEW k \in 1..Len(index.lines), IsSelected(k, job), index.lines[k].by = p
                 PROVE  Verifies(job)
      BY DEF ArchivedVerifies
    <2>1. \A kind \in Kind :
            store[kind][PathOf(index.lines[k].bundle)] = index.lines[k].bundle.rev
      BY <1>1 DEF IInv, CopyOK
    <2>2. \E i \in 1..Len(anchor.lines) :
            /\ anchor.lines[i].by = index.lines[k].by
            /\ EntryOf(anchor.lines[i]) = index.lines[k].entry
      BY <1>1 DEF IInv, AnchoredOK, RecordOK, Readable
    <2> QED
      BY <2>1, <2>2 DEF Verifies
  <1> QED
    BY <1>1, Invariance, PTL

\* No two entries that were published anywhere disagree about the log before them
\* (publish_external_audit_anchor.py:97-164).
THEOREM PublishedChain == Spec => []PublishedOneChain
  <1>1. ASSUME IInv
        PROVE  PublishedOneChain
    <2> SUFFICES ASSUME NEW e \in Replayed, NEW f \in Replayed
                 PROVE  Extends(e, f) \/ Extends(f, e)
      BY <1>1 DEF IInv, PublishedOK, PublishedOneChain
    <2> DEFINE lines == anchor.lines
    <2>1. PICK n \in 1..Len(lines), m \in 1..Len(lines) :
            e = ByTo(lines, n) /\ f = ByTo(lines, m)
      BY <1>1 DEF IInv, Replayed, EntriesOK
    <2>2. lines \in Seq(AnchorLine) /\ \A i \in 1..Len(lines) : lines[i].by \in Archiver
      BY <1>1, AnchorFields DEF IInv, AnchorLine
    <2> HIDE DEF lines
    <2>3. ASSUME NEW a \in 1..Len(lines), NEW b \in 1..Len(lines), a <= b
          PROVE  Extends(ByTo(lines, a), ByTo(lines, b))
      <3>1. /\ ByTo(lines, a) \in Seq(Archiver) /\ Len(ByTo(lines, a)) = a
            /\ \A i \in 1..a : ByTo(lines, a)[i] = lines[i].by
        BY <2>2 DEF ByTo
      <3>2. /\ ByTo(lines, b) \in Seq(Archiver) /\ Len(ByTo(lines, b)) = b
            /\ \A i \in 1..b : ByTo(lines, b)[i] = lines[i].by
        BY <2>2 DEF ByTo
      <3>3. SubSeq(ByTo(lines, b), 1, a) = ByTo(lines, a)
        BY <2>3, <3>1, <3>2
      <3> QED
        BY <2>3, <3>1, <3>2, <3>3 DEF Extends
    <2> QED
      BY <2>1, <2>2, <2>3
  <1> QED
    BY <1>1, Invariance, PTL

\* What a publisher reported as uploaded is in its sink for good, except that two writers of
\* the S3 object at once may lose one's (publish_external_audit_anchor.py:358-382).
THEOREM UploadedStays == Spec => []UploadedKept
  <1>1. IInv => UploadedKept
    BY DEF IInv
  <1> QED
    BY <1>1, Invariance, PTL
================================================================================
