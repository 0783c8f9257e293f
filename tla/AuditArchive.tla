------------------------------ MODULE AuditArchive ------------------------------
(***************************************************************************)
(* One audit archive directory: the archived bundles, the index, the       *)
(* hash-chained anchor log (archive_audit_bundle.py), what a verification  *)
(* of the archive accepts (verify_audit_bundle.py), and the publication of *)
(* the anchor log to an external sink (publish_external_audit_anchor.py).  *)
(* Pipelines that finish at the same time archive into the same directory; *)
(* nothing in these scripts takes a lock.                                  *)
(*                                                                         *)
(* A process is one invocation of a script and runs once.  Hashes do not   *)
(* collide: the entry_sha256 of an anchor line is the sequence of the      *)
(* archivers whose lines it chains, the last one its own, since its        *)
(* payload holds the hash of that archiver's index record.                 *)
(***************************************************************************)
EXTENDS Naturals, Sequences

CONSTANTS
  Job, Rev,             \* a bundle is a job and a revision of its audit chain and seal
  Archiver, Publisher,  \* invocations of the two scripts
  ByJob,                \* a tenant's archive (--tenant-id) names its files by job alone
  Missing, Damaged,     \* no file at a path; a file with other contents than a bundle's
  NoBundle, NoSink

ASSUME AuditArchiveAssumption ==
  /\ ByJob \in BOOLEAN
  /\ Missing \notin Rev /\ Damaged \notin Rev /\ Missing # Damaged

Kind   == {"chain", "seal"}
Bundle == [job : Job, rev : Rev]
Sink   == {"file_ledger", "s3_worm", "rekor"}
Entry  == Seq(Archiver)

Path    == IF ByJob THEN Job ELSE Bundle
PathOf(b) == IF ByJob THEN b.job ELSE b

VARIABLES
  store,     \* the archived files, by kind and path
  index,     \* audit_chain_index.jsonl
  anchor,    \* audit_chain_anchor.jsonl
  proc,      \* the archivers
  pub,       \* the publishers
  sink,      \* the entries in each external sink
  overlaps   \* which windows between a read and the write it decides were shared

vars == <<store, index, anchor, proc, pub, sink, overlaps>>

IndexLine  == [by : Archiver, bundle : Bundle, entry : Entry]
AnchorLine == [by : Archiver, prev : Entry]
Log(Line)  == [lines : Seq(Line), torn : BOOLEAN]

ArchiverState ==
  [phase  : {"idle", "look", "open", "fill", "check", "stored", "linked", "indexed", "done", "failed"},
   bundle : Bundle \cup {NoBundle}, kind : Kind, prev : Entry]

PublisherState ==
  [phase  : {"idle", "loaded", "fetched", "published", "failed"},
   sink   : Sink \cup {NoSink}, loaded : Nat, body : SUBSET Entry]

Idle == [phase |-> "idle", bundle |-> NoBundle, kind |-> "chain", prev |-> <<>>]
Stopped(phase) == [Idle EXCEPT !.phase = phase]

Unpublished == [phase |-> "idle", sink |-> NoSink, loaded |-> 0, body |-> {}]

Init ==
  /\ store = [k \in Kind |-> [x \in Path |-> Missing]]
  /\ index = [lines |-> <<>>, torn |-> FALSE]
  /\ anchor = [lines |-> <<>>, torn |-> FALSE]
  /\ proc = [p \in Archiver |-> Idle]
  /\ pub = [q \in Publisher |-> Unpublished]
  /\ sink = [s \in Sink |-> {}]
  /\ overlaps = {}
--------------------------------------------------------------------------------
(* The anchor log: each line carries the entry hash of the one before.     *)

EntryOf(line) == Append(line.prev, line.by)

\* Mutation: the hash the last line chains to, instead of its own.
LastLinked(lines) == IF lines = <<>> THEN <<>> ELSE lines[Len(lines)].prev

LastEntry(lines) == IF lines = <<>> THEN <<>> ELSE EntryOf(lines[Len(lines)])

\* The first n lines replay: each names the entry of its predecessor.
ReplaysTo(lines, n) ==
  \A i \in 1..n : lines[i].prev = IF i = 1 THEN <<>> ELSE EntryOf(lines[i - 1])

Replays(lines) == ReplaysTo(lines, Len(lines))

\* A line appended behind a partial one is lost with it; load_jsonl_objects refuses the file.
Appended(log, line) == IF log.torn THEN log ELSE [log EXCEPT !.lines = Append(@, line)]
Torn(log)           == [log EXCEPT !.torn = TRUE]
--------------------------------------------------------------------------------
(* One run of archive_audit_bundle.py.                                     *)

Goto(p, phase)       == proc' = [proc EXCEPT ![p].phase = phase]
Stop(p, phase)       == proc' = [proc EXCEPT ![p] = Stopped(phase)]
Archived(p)          == store[proc[p].kind][PathOf(proc[p].bundle)]
SetArchived(p, file) == store' = [store EXCEPT ![proc[p].kind][PathOf(proc[p].bundle)] = file]
Overlap(window, other) == overlaps' = IF other THEN overlaps \cup {window} ELSE overlaps

\* The file of this kind is in the archive: the seal follows the chain.
FileDone(p) ==
  proc' = IF proc[p].kind = "chain" THEN [proc EXCEPT ![p].phase = "look", ![p].kind = "seal"]
                                    ELSE [proc EXCEPT ![p].phase = "stored"]

\* The source bundle passed its checks: its seal covers its chain, its tenant is the archive's.
StartArchive(p) ==
  /\ proc[p].phase = "idle"
  /\ \E b \in Bundle : proc' = [proc EXCEPT ![p].phase = "look", ![p].bundle = b]
  /\ UNCHANGED <<store, index, anchor, pub, sink, overlaps>>

\* Mutation: a file that is there is taken for the copy.
FindAnyCopy(p) ==
  /\ proc[p].phase = "look"
  /\ Archived(p) # Missing
  /\ FileDone(p)
  /\ UNCHANGED <<store, index, anchor, pub, sink, overlaps>>

FindCopy(p) ==
  /\ proc[p].phase = "look"
  /\ Archived(p) # Missing
  /\ IF Archived(p) = proc[p].bundle.rev THEN FileDone(p) ELSE Stop(p, "failed")
  /\ UNCHANGED <<store, index, anchor, pub, sink, overlaps>>

FindNoCopy(p) ==
  /\ proc[p].phase = "look"
  /\ Archived(p) = Missing
  /\ Goto(p, "open")
  /\ Overlap("copy", \E q \in Archiver \ {p} :
                       /\ proc[q].phase = "open"
                       /\ proc[q].kind = proc[p].kind
                       /\ PathOf(proc[q].bundle) = PathOf(proc[p].bundle))
  /\ UNCHANGED <<store, index, anchor, pub, sink>>

\* shutil.copy2 truncates the destination, then fills it.
OpenCopy(p) ==
  /\ proc[p].phase = "open"
  /\ SetArchived(p, Damaged)
  /\ Goto(p, "fill")
  /\ UNCHANGED <<index, anchor, pub, sink, overlaps>>

\* Damaged when the source changed since it was hashed, or another copy wrote into this one.
FillCopy(p) ==
  /\ proc[p].phase = "fill"
  /\ \E file \in {proc[p].bundle.rev, Damaged} : SetArchived(p, file)
  /\ Goto(p, "check")
  /\ UNCHANGED <<index, anchor, pub, sink, overlaps>>

CheckCopy(p) ==
  /\ proc[p].phase = "check"
  /\ IF Archived(p) = proc[p].bundle.rev THEN FileDone(p) ELSE Stop(p, "failed")
  /\ UNCHANGED <<store, index, anchor, pub, sink, overlaps>>

\* The last anchor entry is read, and the records that chain to it are built.
LinkAnchor(p) ==
  /\ proc[p].phase = "stored"
  /\ IF anchor.torn
     THEN Stop(p, "failed") /\ UNCHANGED overlaps
     ELSE /\ proc' = [proc EXCEPT ![p].phase = "linked", ![p].prev = LastEntry(anchor.lines)]
          /\ Overlap("link", \E q \in Archiver \ {p} : proc[q].phase \in {"linked", "indexed"})
  /\ UNCHANGED <<store, index, anchor, pub, sink>>

AnchorRecord(p) == [by |-> p, prev |-> proc[p].prev]

IndexRecord(p) == [by |-> p, bundle |-> proc[p].bundle, entry |-> EntryOf(AnchorRecord(p))]

\* A write that fails may leave part of the line behind.
AppendIndex(p) ==
  /\ proc[p].phase = "linked"
  /\ \/ index' = Appended(index, IndexRecord(p)) /\ Goto(p, "indexed")
     \/ index' = Torn(index) /\ Stop(p, "failed")
  /\ UNCHANGED <<store, anchor, pub, sink, overlaps>>

AppendAnchor(p) ==
  /\ proc[p].phase = "indexed"
  /\ \/ anchor' = Appended(anchor, AnchorRecord(p)) /\ Stop(p, "done")
     \/ anchor' = Torn(anchor) /\ Stop(p, "failed")
  /\ UNCHANGED <<store, index, pub, sink, overlaps>>

\* Refused, failed without a trace in the archive (the source unsealed, the tenant another's,
\* a key not set), or killed.
Abort(p) ==
  /\ proc[p].phase \notin {"done", "failed"}
  /\ Stop(p, "failed")
  /\ UNCHANGED <<store, index, anchor, pub, sink, overlaps>>

ArchiveStep(p) ==
  \/ StartArchive(p) \/ FindCopy(p) \/ FindNoCopy(p) \/ OpenCopy(p) \/ FillCopy(p) \/ CheckCopy(p)
  \/ LinkAnchor(p) \/ AppendIndex(p) \/ AppendAnchor(p) \/ Abort(p)
--------------------------------------------------------------------------------
(* One run of publish_external_audit_anchor.py.  The log only grows, so    *)
(* what a publisher loaded is the number of lines it found.                *)

Loaded(q) == {EntryOf(anchor.lines[i]) : i \in 1..pub[q].loaded}

\* Only a publisher that reports its entries as uploaded is remembered with them.
EndPublish(q, phase) ==
  pub' = [pub EXCEPT ![q] = IF phase = "published" THEN [@ EXCEPT !.phase = phase, !.body = {}]
                                                   ELSE [Unpublished EXCEPT !.phase = phase]]

\* Mutation: the log is published as it is.
LoadUnverified(q) ==
  /\ pub[q].phase = "idle"
  /\ IF anchor.torn \/ anchor.lines = <<>>
     THEN EndPublish(q, "failed")
     ELSE \E s \in Sink :
            pub' = [pub EXCEPT ![q].phase = "loaded", ![q].sink = s, ![q].loaded = Len(anchor.lines)]
  /\ UNCHANGED <<store, index, anchor, proc, sink, overlaps>>

\* The whole log is replayed before anything is published.
LoadAnchors(q) ==
  /\ pub[q].phase = "idle"
  /\ IF anchor.torn \/ ~Replays(anchor.lines) \/ anchor.lines = <<>>
     THEN EndPublish(q, "failed")
     ELSE \E s \in Sink :
            pub' = [pub EXCEPT ![q].phase = "loaded", ![q].sink = s, ![q].loaded = Len(anchor.lines)]
  /\ UNCHANGED <<store, index, anchor, proc, sink, overlaps>>

\* The entries of S reach sink s; the publisher ends in the given phase.
Publish(q, s, S, phase) ==
  /\ sink' = [sink EXCEPT ![s] = @ \cup S]
  /\ EndPublish(q, phase)
  /\ UNCHANGED <<store, index, anchor, proc, overlaps>>

\* Lines are written in order; an error or a kill leaves the first few.
PublishToFile(q) ==
  /\ pub[q].phase = "loaded" /\ pub[q].sink = "file_ledger"
  /\ \/ Publish(q, "file_ledger", Loaded(q), "published")
     \/ \E n \in 0..pub[q].loaded :
          Publish(q, "file_ledger", {EntryOf(anchor.lines[i]) : i \in 1..n}, "failed")

\* One POST per entry: those of S succeeded, those of T reached the log with the answer lost.
PublishToRekor(q) ==
  /\ pub[q].phase = "loaded" /\ pub[q].sink = "rekor"
  /\ \E S, T \in SUBSET Loaded(q) :
       Publish(q, "rekor", S \cup T, IF S = Loaded(q) THEN "published" ELSE "failed")

FetchObject(q) ==
  /\ pub[q].phase = "loaded" /\ pub[q].sink = "s3_worm"
  /\ pub' = [pub EXCEPT ![q].phase = "fetched", ![q].body = sink["s3_worm"]]
  /\ Overlap("put", \E r \in Publisher \ {q} : pub[r].phase = "fetched")
  /\ UNCHANGED <<store, index, anchor, proc, sink>>

\* Mutation: the object is put without what it held.
PutEntriesOnly(q) ==
  /\ pub[q].phase = "fetched"
  /\ sink' = [sink EXCEPT !["s3_worm"] = Loaded(q)]
  /\ \E phase \in {"published", "failed"} : EndPublish(q, phase)
  /\ UNCHANGED <<store, index, anchor, proc, overlaps>>

\* put_object replaces the whole object; its answer may be lost after it took effect.
PutObject(q) ==
  /\ pub[q].phase = "fetched"
  /\ sink' = [sink EXCEPT !["s3_worm"] = pub[q].body \cup Loaded(q)]
  /\ \E phase \in {"published", "failed"} : EndPublish(q, phase)
  /\ UNCHANGED <<store, index, anchor, proc, overlaps>>

\* A dry run, an upload not asked for, an error before the write, or a kill.
AbortPublish(q) ==
  /\ pub[q].phase \notin {"published", "failed"}
  /\ EndPublish(q, "failed")
  /\ UNCHANGED <<store, index, anchor, proc, sink, overlaps>>

PublishStep(q) ==
  \/ LoadAnchors(q) \/ PublishToFile(q) \/ PublishToRekor(q)
  \/ FetchObject(q) \/ PutObject(q) \/ AbortPublish(q)

Next ==
  \/ \E p \in Archiver : ArchiveStep(p)
  \/ \E q \in Publisher : PublishStep(q)

Spec == Init /\ [][Next]_vars
--------------------------------------------------------------------------------
(* verify_audit_bundle.py --archive-index: what it accepts for a job.      *)

Readable(log) == ~log.torn

\* select_archive_record: the last line of the job.
IsSelected(k, job) ==
  /\ k \in 1..Len(index.lines)
  /\ index.lines[k].bundle.job = job
  /\ \A m \in (k + 1)..Len(index.lines) : index.lines[m].bundle.job # job

Verifies(job) ==
  /\ Readable(index) /\ Readable(anchor) /\ Replays(anchor.lines)
  /\ \E k \in 1..Len(index.lines) :
       LET record == index.lines[k] IN
       /\ IsSelected(k, job)
       /\ \A kind \in Kind : store[kind][PathOf(record.bundle)] = record.bundle.rev
       /\ \E i \in 1..Len(anchor.lines) :
            anchor.lines[i].by = record.by /\ EntryOf(anchor.lines[i]) = record.entry
--------------------------------------------------------------------------------
(* Properties                                                              *)

\* The logs hold well-formed lines, and every archiver and publisher is between two of its steps.
TypeOK ==
  /\ store \in [Kind -> [Path -> Rev \cup {Missing, Damaged}]]
  /\ index \in Log(IndexLine)
  /\ anchor \in Log(AnchorLine)
  /\ proc \in [Archiver -> ArchiverState]
  /\ pub \in [Publisher -> PublisherState]
  /\ sink \in [Sink -> SUBSET Entry]
  /\ overlaps \in SUBSET {"copy", "link", "put"}

\* The anchor log replays, through failed and killed archivers at any point, as long as no
\* two archivers were at once between reading the last entry and appending their own: two
\* that were chain to the same entry, and no bundle of the archive verifies any more.
ChainReplays == "link" \notin overlaps => Replays(anchor.lines)

\* An archiver that finished can rely on the archive: if its record is the last of its job, the
\* job verifies, whatever other archivers did before and after, unless a write was torn,
\* the chain forked, or two copied to one path at once.
ArchivedVerifies ==
  ("copy" \notin overlaps /\ Readable(index) /\ Readable(anchor) /\ Replays(anchor.lines)) =>
    \A p \in Archiver, job \in Job :
      (/\ proc[p].phase = "done"
       /\ \E k \in 1..Len(index.lines) : IsSelected(k, job) /\ index.lines[k].by = p)
      => Verifies(job)

\* The external sinks never hold the two sides of a fork: of any two published entries one
\* is in the other's chain, even when the local log forked since.
Extends(e, f) == Len(e) <= Len(f) /\ SubSeq(f, 1, Len(e)) = e

PublishedOneChain ==
  \A s, t \in Sink : \A e \in sink[s], f \in sink[t] : Extends(e, f) \/ Extends(f, e)

\* What a publisher reported as uploaded stays in its sink, unless two publishers wrote the
\* S3 object at once: put_object replaces what the other put after its get_object.
UploadedKept ==
  \A q \in Publisher :
    (pub[q].phase = "published" /\ ~(pub[q].sink = "s3_worm" /\ "put" \in overlaps)) =>
      Loaded(q) \subseteq sink[pub[q].sink]
================================================================================
