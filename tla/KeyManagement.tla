----------------------------- MODULE KeyManagement -----------------------------
(***************************************************************************)
(* The programs around one keyring file: the external KMS, whose request   *)
(* threads change and read it under the lock of their process, the         *)
(* manage_keyring.py command, which changes it without one, and the key    *)
(* agent, which reads it.  The example configuration points the KMS and    *)
(* the local commands at the same file.                                    *)
(*                                                                         *)
(* A process of the model handles one request: a thread of the KMS or of   *)
(* the agent, or one run of the command.                                   *)
(***************************************************************************)
EXTENDS Keyring

CONSTANTS
  Kms, Cli, Agent,     \* the requests each program can be given
  MaxRequests,         \* bound: the requests made in all
  NoProc,
  Changes, Resolves,   \* the requests that can be made
  InitialKeyring,      \* the keyring an operator wrote by hand
  Environment,         \* the environment the KMS and the agent were started with
  InitialVault         \* the vault's current_version of each name at first

Proc == Kms \cup Cli \cup Agent

ASSUME ProcAssumption ==
  /\ Kms \cap Cli = {} /\ Kms \cap Agent = {} /\ Cli \cap Agent = {}
  /\ NoProc \notin Proc
ASSUME RequestAssumption ==
  /\ Changes \subseteq RotateRequest \cup StatusRequest
  /\ Resolves \subseteq ResolveRequest
ASSUME KeyringAssumption == InitialKeyring \in KeyringType /\ Consistent(InitialKeyring)

ASSUME EnvironmentAssumption ==
  /\ Environment \in [{"kms", "agent"} -> [SecretName -> Secret \cup {NoSecret}]]
  /\ InitialVault \in [SecretName -> VaultVersion]

VARIABLES
  file,      \* the keyring file: its contents and whether they are whole, and, for
             \* the properties, which requests' changes they include and who wrote them
  proc,      \* per process: where it is, its request, the keyring it computed, the
             \* selected version and its secret, the digest it took, whether it
             \* replaced the file
  lock,      \* the KMS thread that holds state_lock
  log,       \* the records of the lifecycle and access audit logs
  answers,   \* what resolve requests were answered with
  raced,     \* a command worked on the file while another writer did
  vault      \* the vault's current_version of each name

vars == <<file, proc, lock, log, answers, raced, vault>>

NoRequest  == [op |-> "none"]
NoRing     == [k \in KeyName |-> Absent]
NoAnswer   == [version |-> NoVersion]
Answer     == [key : KeyName, version : Version, ref : SecretRef,
               secret : Secret \cup {NoSecret}]
Phases     == {"idle", "arrived", "loaded", "written", "saved", "hashed",
               "selected", "resolved", "denying", "answered", "refused", "killed"}
Record     == [by : Proc, event : {"key_lifecycle_change"}, keyring : KeyringType]
              \cup [by : Proc, event : {"key_access"}, decision : {"allow", "deny"}]

Process == [phase : Phases, req : Changes \cup Resolves \cup {NoRequest},
            audited : BOOLEAN, ring : KeyringType, applied : SUBSET Proc,
            selected : Answer \cup {NoAnswer}, digest : KeyringType, saved : BOOLEAN]

Idle == [phase |-> "idle", req |-> NoRequest, audited |-> TRUE, ring |-> NoRing,
         applied |-> {}, selected |-> NoAnswer, digest |-> NoRing, saved |-> FALSE]

\* Types of the file, the processes, the lock and the logs.
TypeOK ==
  /\ file \in [whole : BOOLEAN, ring : KeyringType, applied : SUBSET Proc,
               by : Proc \cup {NoProc}]
  /\ proc \in [Proc -> Process]
  /\ lock \in Kms \cup {NoProc}
  /\ log \subseteq Record
  /\ answers \subseteq Answer
  /\ raced \in BOOLEAN
  /\ vault \in [SecretName -> VaultVersion]

Init ==
  /\ file = [whole |-> TRUE, ring |-> InitialKeyring, applied |-> {}, by |-> NoProc]
  /\ proc = [p \in Proc |-> Idle]
  /\ lock = NoProc
  /\ log = {} /\ answers = {} /\ raced = FALSE
  /\ vault = InitialVault
--------------------------------------------------------------------------------
At(p, phase) == proc[p].phase = phase
Goto(p, phase) == proc' = [proc EXCEPT ![p].phase = phase]

\* The request is over; what the handler knew is gone.
Over(p, phase) == [Idle EXCEPT !.phase = phase, !.saved = proc[p].saved]
End(p, phase)  == proc' = [proc EXCEPT ![p] = Over(p, phase)]

\* From its load of the file to its replacement of it.
Writing(p) == proc[p].phase \in {"loaded", "written"}

\* An exception reaches the top of the handler; the agent's then writes a record.
Raise(p) == End(p, IF p \in Agent THEN "denying" ELSE "refused")

LockFree(p)   == p \in Kms => lock = NoProc
AfterLock(p)  == IF lock = p THEN NoProc ELSE lock

\* A request reaches its process.  A command may be run without an audit log.
Arrive(p) ==
  /\ At(p, "idle")
  /\ Cardinality({q \in Proc : ~At(q, "idle")}) < MaxRequests
  /\ \E r \in Changes \cup Resolves, audited \in BOOLEAN :
       /\ p \in Cli => r \in Changes
       /\ p \in Agent => r \in Resolves
       /\ p \notin Cli => audited
       /\ proc' = [proc EXCEPT ![p].phase = "arrived", ![p].req = r, ![p].audited = audited]
  /\ UNCHANGED <<file, lock, log, answers, raced, vault>>

Accepted(p) ==
  /\ proc' = [proc EXCEPT ![p].phase = "loaded", ![p].ring = Changed(file.ring, proc[p].req),
                          ![p].applied = file.applied \cup {p}]
  /\ raced' = (raced \/ \E q \in Proc : q # p /\ Writing(q) /\ {p, q} \cap Cli # {})

\* Mutations: the lock is not taken; a refusal leaves it taken.
LoadWithoutLock(p) ==
  /\ At(p, "arrived") /\ proc[p].req.op # "resolve"
  /\ IF file.whole /\ Permitted(file.ring, proc[p].req) THEN Accepted(p)
     ELSE End(p, "refused") /\ UNCHANGED raced
  /\ UNCHANGED <<file, lock, log, answers, vault>>

LoadKeepingLock(p) ==
  /\ At(p, "arrived") /\ proc[p].req.op # "resolve" /\ LockFree(p)
  /\ IF file.whole /\ Permitted(file.ring, proc[p].req) THEN Accepted(p)
     ELSE End(p, "refused") /\ UNCHANGED raced
  /\ lock' = IF p \in Kms THEN p ELSE lock
  /\ UNCHANGED <<file, log, answers, vault>>

\* The keyring is loaded and changed in memory, by a KMS thread under the lock,
\* which the "with" statement gives back if the change is refused.
Load(p) ==
  /\ At(p, "arrived") /\ proc[p].req.op # "resolve" /\ LockFree(p)
  /\ IF file.whole /\ Permitted(file.ring, proc[p].req)
     THEN Accepted(p) /\ lock' = IF p \in Kms THEN p ELSE lock
     ELSE End(p, "refused") /\ UNCHANGED <<lock, raced>>
  /\ UNCHANGED <<file, log, answers, vault>>

\* Mutation: the file itself is truncated and written.
WriteInPlace(p) ==
  /\ At(p, "loaded")
  /\ Goto(p, "written")
  /\ file' = [file EXCEPT !.whole = FALSE]
  /\ UNCHANGED <<lock, log, answers, raced, vault>>

\* save_json_object writes a temporary file next to the keyring.
WriteTemp(p) ==
  /\ At(p, "loaded")
  /\ Goto(p, "written")
  /\ UNCHANGED <<file, lock, log, answers, raced, vault>>

\* The write or the replacement fails: the temporary file is removed.
SaveFails(p) ==
  /\ Writing(p)
  /\ End(p, "refused")
  /\ lock' = AfterLock(p)
  /\ UNCHANGED <<file, log, answers, raced, vault>>

\* Mutation: the digest of the record is taken before the file is replaced.
ReplaceAfterDigest(p) ==
  /\ At(p, "written")
  /\ file' = [whole |-> TRUE, ring |-> proc[p].ring, applied |-> proc[p].applied, by |-> p]
  /\ proc' = [proc EXCEPT ![p] = [Over(p, IF proc[p].audited THEN "hashed" ELSE "answered")
                                    EXCEPT !.saved = TRUE, !.digest = file.ring]]
  /\ lock' = AfterLock(p)
  /\ UNCHANGED <<log, answers, raced, vault>>

\* os.replace; a KMS thread then gives the lock back.
Replace(p) ==
  /\ At(p, "written")
  /\ file' = [whole |-> TRUE, ring |-> proc[p].ring, applied |-> proc[p].applied, by |-> p]
  /\ proc' = [proc EXCEPT ![p] = [Over(p, IF proc[p].audited THEN "saved" ELSE "answered")
                                    EXCEPT !.saved = TRUE]]
  /\ lock' = AfterLock(p)
  /\ UNCHANGED <<log, answers, raced, vault>>

\* append_key_lifecycle_audit: the digest of the file as it is now, then the record.
TakeDigest(p) ==
  /\ At(p, "saved")
  /\ proc' = [proc EXCEPT ![p].phase = "hashed", ![p].digest = file.ring]
  /\ UNCHANGED <<file, lock, log, answers, raced, vault>>

AppendLifecycle(p) ==
  /\ At(p, "hashed")
  /\ log' = log \cup {[by |-> p, event |-> "key_lifecycle_change", keyring |-> proc[p].digest]}
  /\ End(p, "answered")
  /\ UNCHANGED <<file, lock, answers, raced, vault>>

\* The record cannot be written: the caller is told that the change failed.
AuditFails(p) ==
  /\ proc[p].phase \in {"saved", "hashed"}
  /\ End(p, "refused")
  /\ UNCHANGED <<file, lock, log, answers, raced, vault>>
--------------------------------------------------------------------------------
\* A resolve request reads the keyring, a KMS thread when it gets the lock.
LoadToResolve(p) ==
  /\ At(p, "arrived") /\ proc[p].req.op = "resolve" /\ LockFree(p)
  /\ IF file.whole /\ AccessAllowed(file.ring, proc[p].req)
     THEN proc' = [proc EXCEPT ![p].phase = "selected",
                               ![p].selected = Selected(file.ring, proc[p].req)]
     ELSE Raise(p)
  /\ UNCHANGED <<file, lock, log, answers, raced, vault>>

\* resolve_secret_ref follows the reference, after the lock was given back.  The
\* KMS then answers; the agent has its access record to write.
Resolved(p) ==
  [proc[p].selected EXCEPT
     !.secret = SecretOf(proc[p].selected.ref,
                         Environment[IF p \in Kms THEN "kms" ELSE "agent"], vault)]

ResolveSecret(p) ==
  /\ At(p, "selected") /\ Resolved(p).secret # NoSecret
  /\ IF p \in Kms THEN End(p, "answered") /\ answers' = answers \cup {Resolved(p)}
     ELSE /\ proc' = [proc EXCEPT ![p].phase = "resolved", ![p].selected = Resolved(p)]
          /\ UNCHANGED answers
  /\ UNCHANGED <<file, lock, log, raced, vault>>

\* The environment or the vault does not have the secret or cannot be read, or the
\* agent's record cannot be written.
ResolveFails(p) ==
  /\ proc[p].phase \in {"selected", "resolved"}
  /\ Raise(p)
  /\ UNCHANGED <<file, lock, log, answers, raced, vault>>

AppendAccess(p) ==
  /\ At(p, "resolved")
  /\ log' = log \cup {[by |-> p, event |-> "key_access", decision |-> "allow"]}
  /\ answers' = answers \cup {proc[p].selected}
  /\ End(p, "answered")
  /\ UNCHANGED <<file, lock, raced, vault>>

\* The agent answers with the error after a record of it, or drops the connection
\* if there can be none.
AppendDenial(p) ==
  /\ At(p, "denying")
  /\ \E written \in BOOLEAN :
       log' = IF written
              THEN log \cup {[by |-> p, event |-> "key_access", decision |-> "deny"]} ELSE log
  /\ End(p, "refused")
  /\ UNCHANGED <<file, lock, answers, raced, vault>>
--------------------------------------------------------------------------------
Busy(p) == proc[p].phase \notin {"idle", "answered", "refused", "killed"}

\* kill -9 of a program, with all its threads; it is started again.
Kill(program) ==
  /\ \E p \in program : Busy(p)
  /\ proc' = [p \in Proc |->
                IF p \in program /\ Busy(p) THEN Over(p, "killed") ELSE proc[p]]
  /\ lock' = IF lock \in program THEN NoProc ELSE lock
  /\ UNCHANGED <<file, log, answers, raced, vault>>

Crash == Kill(Kms) \/ Kill(Agent) \/ \E p \in Cli : Kill({p})

Change(p)  == Load(p) \/ WriteTemp(p) \/ SaveFails(p) \/ Replace(p)
              \/ TakeDigest(p) \/ AppendLifecycle(p) \/ AuditFails(p)
Resolve(p) == LoadToResolve(p) \/ ResolveSecret(p) \/ ResolveFails(p)
              \/ AppendAccess(p) \/ AppendDenial(p)

\* An operator makes another version of a secret the vault's current one.
MoveCurrent(n) ==
  /\ \E v \in VaultVersion \ {vault[n]} : vault' = [vault EXCEPT ![n] = v]
  /\ UNCHANGED <<file, proc, lock, log, answers, raced>>

Next == \/ \E p \in Proc : Arrive(p) \/ Change(p) \/ Resolve(p)
        \/ Crash
        \/ \E n \in SecretName : MoveCurrent(n)

\* A thread or a command that can go on does.
Fairness == \A p \in Proc : WF_vars(Change(p) \/ Resolve(p))

Spec     == Init /\ [][Next]_vars
FairSpec == Spec /\ Fairness
--------------------------------------------------------------------------------
(* Properties.                                                               *)

\* Whatever is killed or fails at whatever moment, and however writers race, the
\* keyring file can be read whole, and in it a key's active version is enabled and
\* is the only version with status active (keyring_lib.py:40-57, 265-283).
KeyringConsistent == file.whole /\ Consistent(file.ring)

\* As long as no manage_keyring.py command worked on the file while another writer
\* did, no change that once reached the file is lost from it: the lock of the KMS
\* makes the changes of its threads follow one another (external_kms_service.py:269).
SavedKept == ~raced => \A p \in Proc : proc[p].saved => p \in file.applied

\* Under the same condition, two resolve requests answered with the same version of
\* a key by a reference that names its secret were answered with the same secret,
\* whoever resolved it and whatever rotations, kills, failures and changes of the
\* vault lie between them: a version name is never bound again (keyring_lib.py:331)
\* and the version of a vault reference is followed (keyring_lib.py:182).  A
\* reference to the environment, or to the vault's current version, promises nothing.
SameVersionSameSecret ==
  ~raced => \A a, b \in answers :
    a.key = b.key /\ a.version = b.version /\ Pinned(a.ref) => a.secret = b.secret

\* When no record is outstanding, and none was lost to a kill, a failure or a
\* command run without a log, some lifecycle record has the digest of the keyring
\* as it is now, even if commands raced: the last writer took its digest last.
Recorded(p) == \E r \in log : r.by = p /\ r.event = "key_lifecycle_change"

CurrentKeyringAudited ==
  (file.by # NoProc /\ \A p \in Proc : proc[p].saved => Recorded(p)) =>
    \E r \in log : r.event = "key_lifecycle_change" /\ r.keyring = file.ring

\* Every request that arrives is answered, refused, or its process is killed: no
\* path through a handler leaves the lock taken.
EveryRequestSettles == \A p \in Proc : At(p, "arrived") ~> ~Busy(p)
================================================================================
