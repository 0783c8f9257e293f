-------------------------- MODULE KeyManagement_proofs --------------------------
(***************************************************************************)
(* Proofs about the keyring and the programs around it.  First what the    *)
(* operations of keyring_lib.py do to one entry and to a keyring; then an  *)
(* inductive invariant of the programs, from which the safety properties   *)
(* follow for any number of requests, keys and versions.                   *)
(***************************************************************************)
EXTENDS KeyManagement, TLAPS

\* promote_version keeps the type, the versions and their secrets, and leaves the
\* entry consistent whatever it was before (keyring_lib.py:265-283).
LEMMA PromoteFacts ==
  ASSUME NEW e \in Entry, NEW v \in Version, HasVersion(e, v)
  PROVE  /\ Promote(e, v) \in Entry
         /\ EntryConsistent(Promote(e, v))
         /\ \A w \in Version : HasVersion(e, w) =>
              /\ HasVersion(Promote(e, v), w)
              /\ Promote(e, v).versions[w].ref = e.versions[w].ref
  <1> DEFINE f == Promote(e, v)
             vs == [w \in Version |->
               IF w = v THEN [e.versions[w] EXCEPT !.enabled = TRUE, !.status = "active"]
               ELSE IF HasVersion(e, w) /\ e.versions[w].status = "active"
                    THEN [e.versions[w] EXCEPT !.status = "inactive"]
               ELSE e.versions[w]]
  <1>0. f = [e EXCEPT !.active = v, !.versions = vs]
    BY DEF Promote
  <1>1. /\ f.active = v /\ f.purpose = e.purpose /\ f.callers = e.callers
        /\ f = [purpose |-> f.purpose, active |-> f.active, callers |-> f.callers,
                versions |-> f.versions]
        /\ f.versions = vs
    <2> HIDE DEF f, vs
    <2> QED
      BY <1>0 DEF Entry
  <1>2. ASSUME NEW w \in Version, HasVersion(e, w)
        PROVE  /\ e.versions[w] \in VersionValue
               /\ f.versions[w] \in VersionValue
               /\ f.versions[w].ref = e.versions[w].ref
               /\ f.versions[w].status = "active" => w = v
               /\ w = v => f.versions[w].enabled /\ f.versions[w].status = "active"
    <2>1. e.versions[w] \in VersionValue
      BY <1>2 DEF Entry, HasVersion
    <2>2. f.versions[w] =
            IF w = v THEN [e.versions[w] EXCEPT !.enabled = TRUE, !.status = "active"]
            ELSE IF e.versions[w].status = "active"
                 THEN [e.versions[w] EXCEPT !.status = "inactive"]
            ELSE e.versions[w]
      BY <1>1, <1>2
    <2> HIDE DEF f
    <2> QED
      BY <2>1, <2>2 DEF VersionValue, Statuses
  <1>3. ASSUME NEW w \in Version, ~HasVersion(e, w)
        PROVE  f.versions[w] = Absent
    BY <1>1, <1>3 DEF HasVersion
  <1>4. f \in Entry
    <2>1. f.versions \in [Version -> VersionValue \cup {Absent}]
      BY <1>1, <1>2, <1>3
    <2> QED
      BY <1>1, <2>1 DEF Entry
  <1>5. \A w \in Version : HasVersion(e, w) <=> HasVersion(f, w)
    BY <1>2, <1>3, AbsentAssumption DEF HasVersion
  <1>6. EntryConsistent(f)
    <2> HIDE DEF f, vs
    <2> QED
      BY <1>1, <1>2, <1>5, AbsentAssumption DEF EntryConsistent
  <1> QED
    BY <1>2, <1>4, <1>5, <1>6

\* set_version_status keeps the type, the versions, their secrets and consistency.
LEMMA SetStatusFacts ==
  ASSUME NEW e \in Entry, NEW v \in Version, HasVersion(e, v), NEW status \in Statuses
  PROVE  /\ SetStatus(e, v, status) \in Entry
         /\ EntryConsistent(e) => EntryConsistent(SetStatus(e, v, status))
         /\ \A w \in Version : HasVersion(e, w) =>
              /\ HasVersion(SetStatus(e, v, status), w)
              /\ SetStatus(e, v, status).versions[w].ref = e.versions[w].ref
  <1>1. CASE status = "active"
    BY <1>1, PromoteFacts DEF SetStatus
  <1>2. CASE status # "active"
    <2> DEFINE f == SetStatus(e, v, status)
    <2>1. /\ f.purpose = e.purpose /\ f.callers = e.callers
          /\ f.active = IF e.active = v THEN NoVersion ELSE e.active
          /\ f.versions = [e.versions EXCEPT ![v] = [@ EXCEPT !.status = status]]
          /\ f = [purpose |-> f.purpose, active |-> f.active, callers |-> f.callers,
                  versions |-> f.versions]
      BY <1>2 DEF SetStatus, Entry
    <2>2. ASSUME NEW w \in Version, HasVersion(e, w)
          PROVE  /\ e.versions[w] \in VersionValue
                 /\ f.versions[w] \in VersionValue
                 /\ f.versions[w].ref = e.versions[w].ref
                 /\ f.versions[w].enabled = e.versions[w].enabled
                 /\ f.versions[w].status = IF w = v THEN status ELSE e.versions[w].status
      <3>1. e.versions[w] \in VersionValue /\ e.versions \in [Version -> VersionValue \cup {Absent}]
        BY <2>2 DEF Entry, HasVersion
      <3>2. f.versions[w] = IF w = v THEN [e.versions[w] EXCEPT !.status = status]
                            ELSE e.versions[w]
        BY <2>1, <3>1
      <3> QED
        BY <3>1, <3>2 DEF VersionValue
    <2>3. ASSUME NEW w \in Version, ~HasVersion(e, w)
          PROVE  f.versions[w] = Absent
      <3>1. w # v /\ e.versions \in [Version -> VersionValue \cup {Absent}]
        BY <2>3 DEF Entry
      <3> QED
        BY <2>1, <2>3, <3>1 DEF HasVersion
    <2>4. f \in Entry
      <3>1. f.versions \in [Version -> VersionValue \cup {Absent}]
        <4>1. e.versions \in [Version -> VersionValue \cup {Absent}]
          BY DEF Entry
        <4>2. \A w \in Version : f.versions[w] \in VersionValue \cup {Absent}
          BY <2>2, <2>3
        <4> HIDE DEF f
        <4> QED
          BY <2>1, <4>1, <4>2
      <3>2. f.active \in Version \cup {NoVersion} /\ f.purpose \in Purpose
            /\ f.callers \in (SUBSET Caller) \cup {AnyCaller}
        BY <2>1 DEF Entry
      <3> HIDE DEF f
      <3> QED
        BY <2>1, <3>1, <3>2 DEF Entry
    <2>5. \A w \in Version : HasVersion(e, w) <=> HasVersion(f, w)
      BY <2>2, <2>3, AbsentAssumption DEF HasVersion
    <2>6. EntryConsistent(e) => EntryConsistent(f)
      <3> SUFFICES ASSUME EntryConsistent(e) PROVE EntryConsistent(f)
        OBVIOUS
      <3>1. e.active \in Version \cup {NoVersion}
        BY DEF Entry
      <3> HIDE DEF f
      <3>2. ASSUME f.active # NoVersion
            PROVE  /\ HasVersion(f, f.active)
                   /\ f.versions[f.active].enabled /\ f.versions[f.active].status = "active"
        BY <2>1, <2>2, <2>5, <3>1, <3>2 DEF EntryConsistent
      <3>3. ASSUME NEW w \in Version, HasVersion(f, w), f.versions[w].status = "active"
            PROVE  f.active = w
        BY <1>2, <2>1, <2>2, <2>5, <3>3 DEF EntryConsistent
      <3> QED
        BY <3>2, <3>3 DEF EntryConsistent
    <2> QED
      BY <2>2, <2>4, <2>5, <2>6
  <1> QED
    BY <1>1, <1>2

\* rotate_key on an entry without the version: type, consistency, and the versions
\* it had with their secrets (keyring_lib.py:325-351).
LEMMA RotatedFacts ==
  ASSUME NEW e \in Entry, NEW r \in RotateRequest, ~HasVersion(e, r.version),
         EntryConsistent(e)
  PROVE  /\ Rotated(e, r) \in Entry
         /\ EntryConsistent(Rotated(e, r))
         /\ \A w \in Version : HasVersion(e, w) =>
              /\ HasVersion(Rotated(e, r), w)
              /\ Rotated(e, r).versions[w].ref = e.versions[w].ref
  <1> DEFINE f == WithVersion(e, r)
             x == [enabled |-> TRUE, ref |-> r.ref,
                   status |-> IF r.activate THEN "active" ELSE "inactive"]
  <1>1. /\ r.version \in Version /\ r.activate \in BOOLEAN /\ x \in VersionValue
        /\ x.status = "active" => r.activate
    BY DEF RotateRequest, VersionValue, Statuses
  <1>2. f = [e EXCEPT !.versions = [e.versions EXCEPT ![r.version] = x]]
    BY DEF WithVersion
  <1> HIDE DEF x
  <1>3. /\ f.purpose = e.purpose /\ f.callers = e.callers /\ f.active = e.active
        /\ f.versions = [e.versions EXCEPT ![r.version] = x]
        /\ f \in Entry
    BY <1>1, <1>2 DEF Entry
  <1> HIDE DEF f
  <1>4. \A w \in Version : f.versions[w] = IF w = r.version THEN x ELSE e.versions[w]
    BY <1>1, <1>3 DEF Entry
  <1>5. HasVersion(f, r.version)
    BY <1>1, <1>4, AbsentAssumption DEF HasVersion
  <1>6. \A w \in Version : HasVersion(e, w) =>
          HasVersion(f, w) /\ f.versions[w].ref = e.versions[w].ref
    BY <1>4 DEF HasVersion
  <1>7. CASE r.activate
    <2>1. Rotated(e, r) = Promote(f, r.version)
      BY <1>7 DEF Rotated, f
    <2>2. /\ Promote(f, r.version) \in Entry /\ EntryConsistent(Promote(f, r.version))
          /\ \A w \in Version : HasVersion(f, w) =>
               /\ HasVersion(Promote(f, r.version), w)
               /\ Promote(f, r.version).versions[w].ref = f.versions[w].ref
      BY <1>1, <1>3, <1>5, PromoteFacts
    <2> QED
      BY <2>1, <2>2, <1>6
  <1>8. CASE ~r.activate
    <2>1. Rotated(e, r) = f
      BY <1>8 DEF Rotated, f
    <2>2. e.active \in Version \cup {NoVersion}
      BY DEF Entry
    <2>3. EntryConsistent(f)
      BY <1>1, <1>3, <1>4, <1>8, <2>2 DEF EntryConsistent, HasVersion
    <2> QED
      BY <2>1, <2>3, <1>3, <1>6
  <1> QED
    BY <1>1, <1>7, <1>8

\* An entry that rotate_key creates.
LEMMA NewKeyFacts ==
  ASSUME NEW r \in RotateRequest
  PROVE  /\ NewKey(r) \in Entry /\ EntryConsistent(NewKey(r))
         /\ \A w \in Version : ~HasVersion(NewKey(r), w)
  BY DEF NewKey, RotateRequest, Entry, EntryConsistent, HasVersion

\* A permitted change of a keyring keeps its type, its consistency and every
\* binding of a version to a secret.
LEMMA ChangedFacts ==
  ASSUME NEW ring \in KeyringType, NEW r \in RotateRequest \cup StatusRequest,
         Permitted(ring, r), Consistent(ring)
  PROVE  /\ Changed(ring, r) \in KeyringType
         /\ Consistent(Changed(ring, r))
         /\ \A s \in Answer : Binds(ring, s) => Binds(Changed(ring, r), s)
  <1> DEFINE e == ring[r.key]
             f == EntryAfter(ring, r)
  <1>1. /\ r.key \in KeyName
        /\ r.op = "rotate" => r \in RotateRequest
        /\ r.op # "rotate" => r \in StatusRequest /\ r.op = "set_status"
        /\ HasKey(ring, r.key) => e \in Entry /\ EntryConsistent(e)
    BY DEF RotateRequest, StatusRequest, KeyringType, HasKey, Consistent
  <1>2. /\ f \in Entry /\ EntryConsistent(f)
        /\ HasKey(ring, r.key) =>
             \A w \in Version : HasVersion(e, w) =>
               HasVersion(f, w) /\ f.versions[w].ref = e.versions[w].ref
    <2>1. CASE r.op # "rotate"
      <3>1. /\ HasKey(ring, r.key) /\ r.status \in Statuses /\ r.version \in Version
            /\ HasVersion(e, r.version)
            /\ f = SetStatus(e, r.version, r.status)
        BY <1>1, <2>1 DEF Permitted, CanSetStatus, StatusRequest, EntryAfter
      <3> QED
        BY <3>1, <1>1, SetStatusFacts
    <2>2. CASE r.op = "rotate" /\ HasKey(ring, r.key)
      <3>1. /\ ~HasVersion(e, r.version)
            /\ f = Rotated(e, r)
        BY <2>2 DEF Permitted, CanRotate, EntryAfter
      <3> QED
        BY <3>1, <2>2, <1>1, RotatedFacts
    <2>3. CASE r.op = "rotate" /\ ~HasKey(ring, r.key)
      <3>1. f = Rotated(NewKey(r), r)
        BY <2>3 DEF EntryAfter
      <3>2. r.version \in Version
        BY <1>1, <2>3 DEF RotateRequest
      <3> QED
        BY <3>1, <3>2, <2>3, <1>1, NewKeyFacts, RotatedFacts
    <2> QED
      BY <2>1, <2>2, <2>3
  <1>3. f # Absent
    BY <1>2, AbsentAssumption
  <1> HIDE DEF f
  <1>4. /\ Changed(ring, r) \in KeyringType
        /\ \A k \in KeyName : Changed(ring, r)[k] = IF k = r.key THEN f ELSE ring[k]
    BY <1>1, <1>2 DEF Changed, KeyringType, f
  <1>5. Consistent(Changed(ring, r))
    BY <1>2, <1>4 DEF Consistent, HasKey
  <1>6. ASSUME NEW s \in Answer, Binds(ring, s)
        PROVE  Binds(Changed(ring, r), s)
    <2>1. s.key \in KeyName /\ s.version \in Version
      BY DEF Answer
    <2> QED
      BY <1>2, <1>3, <1>4, <1>6, <2>1 DEF Binds, HasKey
  <1> QED
    BY <1>4, <1>5, <1>6

\* What a resolve request is given is a binding of the keyring it read.
LEMMA SelectedFacts ==
  ASSUME NEW ring \in KeyringType, NEW r \in ResolveRequest, AccessAllowed(ring, r)
  PROVE  Selected(ring, r) \in Answer /\ Binds(ring, Selected(ring, r))
  <1>1. /\ r.key \in KeyName /\ HasKey(ring, r.key) /\ ring[r.key] \in Entry
        /\ ring[r.key].active \in Version
        /\ HasVersion(ring[r.key], ring[r.key].active)
    BY DEF ResolveRequest, AccessAllowed, KeyringType, HasKey, Entry
  <1>2. ring[r.key].versions[ring[r.key].active] \in VersionValue
    BY <1>1 DEF Entry, HasVersion
  <1> QED
    BY <1>1, <1>2 DEF Selected, Answer, Binds, VersionValue

\* What a pinned reference names.
PinnedSecret(ref) ==
  IF ref.kind = "aws_kms" THEN Decrypted[ref.ciphertext] ELSE Stored[ref.name][ref.version]

\* resolve_secret_ref gives a secret or none; of a pinned reference, always the one
\* it names, in any environment and whatever the vault's current version.
LEMMA SecretOfFacts ==
  ASSUME NEW ref \in SecretRef,
         NEW environment \in [SecretName -> Secret \cup {NoSecret}],
         NEW current \in [SecretName -> VaultVersion]
  PROVE  /\ SecretOf(ref, environment, current) \in Secret \cup {NoSecret}
         /\ Pinned(ref) => SecretOf(ref, environment, current) = PinnedSecret(ref)
  <1>1. CASE ref \in [kind : {"env"}, name : SecretName]
    <2>1. ref.kind = "env" /\ ref.name \in SecretName
      BY <1>1
    <2>2. SecretOf(ref, environment, current) = environment[ref.name]
      BY <2>1 DEF SecretOf
    <2> QED
      BY <2>1, <2>2 DEF Pinned
  <1>2. CASE ref \in [kind : {"vault"}, name : SecretName, version : VaultVersion \cup {NoVersion}]
    <2> DEFINE w == IF ref.version = NoVersion THEN current[ref.name] ELSE ref.version
    <2>1. /\ ref.kind = "vault" /\ ref.name \in SecretName
          /\ ref.version \in VaultVersion \cup {NoVersion}
      BY <1>2
    <2>2. w \in VaultVersion
      BY <2>1
    <2>3. SecretOf(ref, environment, current) = Stored[ref.name][w]
      BY <2>1 DEF SecretOf
    <2>4. Stored[ref.name][w] \in Secret \cup {NoSecret}
      <3> HIDE DEF w
      <3> QED
        BY <2>1, <2>2, SecretAssumption
    <2>5. Pinned(ref) => w = ref.version
      BY <2>1 DEF Pinned
    <2>6. PinnedSecret(ref) = Stored[ref.name][ref.version]
      BY <2>1 DEF PinnedSecret
    <2> HIDE DEF w
    <2> QED
      BY <2>3, <2>4, <2>5, <2>6
  <1>3. CASE ref \in [kind : {"aws_kms"}, ciphertext : Ciphertext]
    <2>1. ref.kind = "aws_kms" /\ ref.ciphertext \in Ciphertext
      BY <1>3
    <2>2. SecretOf(ref, environment, current) = Decrypted[ref.ciphertext]
      BY <2>1 DEF SecretOf
    <2>3. PinnedSecret(ref) = Decrypted[ref.ciphertext]
      BY <2>1 DEF PinnedSecret
    <2> QED
      BY <2>1, <2>2, <2>3, SecretAssumption
  <1> QED
    BY <1>1, <1>2, <1>3 DEF SecretRef
--------------------------------------------------------------------------------
(* The inductive invariant.                                                  *)

FileOK == file.whole /\ Consistent(file.ring)

\* A writer has a consistent keyring, and a KMS thread that writes has the lock.
WritersOK ==
  \A p \in Proc : Writing(p) =>
    p \notin Agent /\ Consistent(proc[p].ring) /\ (p \in Kms => lock = p)

RequestsOK ==
  \A p \in Proc :
    /\ At(p, "arrived") => /\ proc[p].req \in Changes \cup Resolves
                           /\ p \in Agent => proc[p].req \in Resolves
    /\ proc[p].phase \in {"selected", "resolved"} => proc[p].selected \in Answer

\* While no command raced: there is one writer, it works on what the file has now,
\* the file includes every saved change and binds everything that was handed out.
Kept ==
  ~raced =>
    /\ \A p, q \in Proc : Writing(p) /\ Writing(q) => p = q
    /\ \A p \in Proc : Writing(p) =>
         /\ proc[p].applied = file.applied \cup {p}
         /\ \A s \in Answer : Binds(file.ring, s) => Binds(proc[p].ring, s)
    /\ \A p \in Proc : proc[p].saved => p \in file.applied
    /\ \A a \in answers : Binds(file.ring, a)
    /\ \A p \in Proc : proc[p].phase \in {"selected", "resolved"} =>
         Binds(file.ring, proc[p].selected)

\* The writer of the file has it on record, or will.
Audited ==
  /\ \A p \in Proc : Recorded(p) => At(p, "answered")
  /\ file.by # NoProc =>
       /\ proc[file.by].saved
       /\ At(file.by, "hashed") => proc[file.by].digest = file.ring
       /\ \A r \in log : r.event = "key_lifecycle_change" /\ r.by = file.by =>
            r.keyring = file.ring

\* What was resolved by a pinned reference is the secret it names.
Named(s) == Pinned(s.ref) => s.secret = PinnedSecret(s.ref)

Resolutions ==
  /\ \A a \in answers : Named(a)
  /\ \A p \in Proc : At(p, "resolved") => Named(proc[p].selected)

IInv == TypeOK /\ FileOK /\ WritersOK /\ RequestsOK /\ Kept /\ Audited /\ Resolutions

\* The invariant gives the properties.
LEMMA IInvProperties ==
  IInv => KeyringConsistent /\ SavedKept /\ SameVersionSameSecret /\ CurrentKeyringAudited
  <1> SUFFICES ASSUME IInv
      PROVE KeyringConsistent /\ SavedKept /\ SameVersionSameSecret /\ CurrentKeyringAudited
    OBVIOUS
  <1>1. KeyringConsistent /\ SavedKept
    BY DEF IInv, FileOK, Kept, KeyringConsistent, SavedKept
  <1>2. SameVersionSameSecret
    <2> SUFFICES ASSUME ~raced, NEW a \in answers, NEW b \in answers,
                        a.key = b.key, a.version = b.version, Pinned(a.ref)
        PROVE a.secret = b.secret
      BY DEF SameVersionSameSecret
    <2>1. a.ref = b.ref
      BY DEF IInv, Kept, Binds
    <2>2. Named(a) /\ Named(b)
      BY DEF IInv, Resolutions
    <2> QED
      BY <2>1, <2>2 DEF Named
  <1>3. CurrentKeyringAudited
    <2> SUFFICES ASSUME file.by # NoProc, \A p \in Proc : proc[p].saved => Recorded(p)
        PROVE \E r \in log : r.event = "key_lifecycle_change" /\ r.keyring = file.ring
      BY DEF CurrentKeyringAudited
    <2>1. file.by \in Proc /\ proc[file.by].saved
      BY DEF IInv, TypeOK, Audited
    <2>2. Recorded(file.by)
      BY <2>1
    <2>3. PICK r \in log : r.by = file.by /\ r.event = "key_lifecycle_change"
      BY <2>2 DEF Recorded
    <2> QED
      BY <2>3 DEF IInv, Audited
  <1> QED
    BY <1>1, <1>2, <1>3

LEMMA IdleFacts ==
  /\ NoRing \in KeyringType
  /\ Idle \in Process
  BY DEF NoRing, KeyringType, Idle, Phases, Process

LEMMA InitIInv == Init => IInv
  <1> SUFFICES ASSUME Init PROVE IInv
    OBVIOUS
  <1>1. TypeOK
    BY IdleFacts, KeyringAssumption, EnvironmentAssumption DEF Init, TypeOK
  <1>2. \A p \in Proc : proc[p] = Idle
    BY DEF Init
  <1>3. FileOK /\ WritersOK /\ RequestsOK
    BY <1>2, KeyringAssumption DEF Init, FileOK, WritersOK, RequestsOK, Writing, At, Idle
  <1>4. Kept
    BY <1>2 DEF Init, Kept, Writing, Idle
  <1>5. Audited
    BY <1>2 DEF Init, Audited, Recorded
  <1>6. Resolutions
    BY <1>2 DEF Init, Resolutions, At, Idle
  <1> QED
    BY <1>1, <1>3, <1>4, <1>5, <1>6 DEF IInv

\* A step of one process that leaves the file and what was handed out alone, and
\* after which the process neither writes nor waits to record a digest, keeps the
\* invariant: the common part of most steps.
LEMMA QuietStep ==
  ASSUME IInv, TypeOK', NEW p \in Proc,
         UNCHANGED <<file, raced, answers>>,
         lock' = lock \/ lock' = AfterLock(p),
         \A r \in log' : r \in log \/ r.event = "key_access",
         log \subseteq log',
         \A q \in Proc : q # p => proc'[q] = proc[q],
         ~At(p, "answered"),
         proc'[p].saved = proc[p].saved,
         proc'[p].phase \notin {"loaded", "written", "hashed"},
         proc'[p].phase = "arrived" =>
           /\ proc'[p].req \in Changes \cup Resolves
           /\ p \in Agent => proc'[p].req \in Resolves,
         proc'[p].phase \in {"selected", "resolved"} =>
           proc'[p].selected \in Answer /\ (~raced => Binds(file.ring, proc'[p].selected)),
         proc'[p].phase = "resolved" => Named(proc'[p].selected)
  PROVE  IInv'
  <1> USE DEF IInv
  <1>1. FileOK' /\ RequestsOK'
    BY DEF FileOK, RequestsOK, At
  <1>2. WritersOK'
    <2> SUFFICES ASSUME NEW q \in Proc, Writing(q)'
        PROVE  q \notin Agent /\ Consistent(proc[q].ring)' /\ (q \in Kms => lock' = q)
      BY DEF WritersOK
    <2>1. q # p /\ Writing(q) /\ proc'[q] = proc[q]
      BY DEF Writing
    <2> QED
      BY <2>1 DEF WritersOK, AfterLock
  <1>3. Kept'
    <2>1. \A q \in Proc : Writing(q)' => q # p /\ Writing(q)
      BY DEF Writing
    <2> QED
      BY <2>1 DEF Kept
  <1>4. Audited'
    <2>1. \A q \in Proc : Recorded(q)' => Recorded(q)
      BY DEF Recorded
    <2>2. \A q \in Proc : Recorded(q)' => At(q, "answered")'
      BY <2>1 DEF Audited, At
    <2>3. file.by \in Proc \cup {NoProc}
      BY DEF TypeOK
    <2>4. ASSUME file.by # NoProc
          PROVE  proc'[file.by].saved /\ (proc'[file.by].phase = "hashed" =>
                   proc'[file.by].digest = file.ring)
      BY <2>3, <2>4 DEF Audited, At
    <2>5. \A r \in log' : r.event = "key_lifecycle_change" => r \in log
      OBVIOUS
    <2>6. ASSUME file.by # NoProc, NEW r \in log',
                 r.event = "key_lifecycle_change", r.by = file.by
          PROVE  r.keyring = file.ring
      BY <2>5, <2>6 DEF Audited
    <2>7. file' = file
      OBVIOUS
    <2>8. (file.by # NoProc =>
             /\ proc[file.by].saved
             /\ At(file.by, "hashed") => proc[file.by].digest = file.ring
             /\ \A r \in log : r.event = "key_lifecycle_change" /\ r.by = file.by =>
                  r.keyring = file.ring)'
      BY <2>4, <2>6, <2>7 DEF At
    <2> QED
      BY <2>2, <2>8 DEF Audited, Recorded, At
  <1>5. Resolutions'
    BY DEF Resolutions, At
  <1> QED
    BY <1>1, <1>2, <1>3, <1>4, <1>5

\* A request arrives.
LEMMA ArriveStep == ASSUME IInv, NEW p \in Proc, Arrive(p) PROVE IInv'
  <1>1. PICK r \in Changes \cup Resolves, audited \in BOOLEAN :
          /\ p \in Agent => r \in Resolves
          /\ proc' = [proc EXCEPT ![p].phase = "arrived", ![p].req = r, ![p].audited = audited]
    BY DEF Arrive
  <1>2. UNCHANGED <<file, lock, log, answers, raced, vault>> /\ At(p, "idle")
    BY DEF Arrive
  <1> DEFINE y == [proc[p] EXCEPT !.phase = "arrived"]
             z == [y EXCEPT !.req = r]
             x == [z EXCEPT !.audited = audited]
  <1>3. proc' = [proc EXCEPT ![p] = x]
    BY <1>1 DEF IInv, TypeOK
  <1>4. /\ x \in Process
        /\ x.phase = "arrived" /\ x.req = r /\ x.saved = proc[p].saved
    <2>1. y \in Process /\ y.phase = "arrived" /\ y.saved = proc[p].saved
      BY DEF IInv, TypeOK, Phases, Process
    <2> HIDE DEF y
    <2>2. z \in Process /\ z.phase = "arrived" /\ z.saved = proc[p].saved /\ z.req = r
      BY <2>1 DEF Process
    <2> HIDE DEF z
    <2> QED
      BY <2>2 DEF Process
  <1> HIDE DEF x
  <1>5. TypeOK'
    BY <1>2, <1>3, <1>4 DEF IInv, TypeOK
  <1>6. /\ proc'[p] = x
        /\ \A q \in Proc : q # p => proc'[q] = proc[q]
    BY <1>3 DEF IInv, TypeOK
  <1> QED
    BY <1>1, <1>2, <1>4, <1>5, <1>6, QuietStep DEF At

\* A request ends without an answer or a record.
LEMMA EndFacts ==
  ASSUME IInv, NEW p \in Proc, NEW phase \in Phases, End(p, phase)
  PROVE  /\ proc' \in [Proc -> Process]
         /\ proc'[p].phase = phase /\ proc'[p].saved = proc[p].saved
         /\ \A q \in Proc : q # p => proc'[q] = proc[q]
  <1>1. proc[p].saved \in BOOLEAN
    BY DEF IInv, TypeOK, Process
  <1>2. /\ Over(p, phase) \in Process
        /\ Over(p, phase).phase = phase /\ Over(p, phase).saved = proc[p].saved
    BY <1>1, IdleFacts DEF Over, Idle, Process
  <1> QED
    BY <1>2 DEF End, IInv, TypeOK

LEMMA SaveFailsStep == ASSUME IInv, NEW p \in Proc, SaveFails(p) PROVE IInv'
  <1>1. /\ UNCHANGED <<file, log, answers, raced, vault>> /\ lock' = AfterLock(p)
        /\ End(p, "refused") /\ ~At(p, "answered")
    BY DEF SaveFails, Writing, At
  <1>2. TypeOK'
    BY <1>1, EndFacts DEF IInv, TypeOK, Phases, AfterLock
  <1> QED
    BY <1>1, <1>2, EndFacts, QuietStep DEF Phases

LEMMA AuditFailsStep == ASSUME IInv, NEW p \in Proc, AuditFails(p) PROVE IInv'
  <1>1. /\ UNCHANGED <<file, lock, log, answers, raced, vault>>
        /\ End(p, "refused") /\ ~At(p, "answered")
    BY DEF AuditFails, At
  <1>2. TypeOK'
    BY <1>1, EndFacts DEF IInv, TypeOK, Phases
  <1> QED
    BY <1>1, <1>2, EndFacts, QuietStep DEF Phases

LEMMA ResolveFailsStep == ASSUME IInv, NEW p \in Proc, ResolveFails(p) PROVE IInv'
  <1>1. /\ UNCHANGED <<file, lock, log, answers, raced, vault>> /\ ~At(p, "answered")
        /\ End(p, "denying") \/ End(p, "refused")
    BY DEF ResolveFails, At, Raise
  <1>2. TypeOK'
    BY <1>1, EndFacts DEF IInv, TypeOK, Phases
  <1> QED
    BY <1>1, <1>2, EndFacts, QuietStep DEF Phases

LEMMA AppendDenialStep == ASSUME IInv, NEW p \in Proc, AppendDenial(p) PROVE IInv'
  <1> DEFINE rec == [by |-> p, event |-> "key_access", decision |-> "deny"]
  <1>1. /\ UNCHANGED <<file, lock, answers, raced, vault>> /\ ~At(p, "answered")
        /\ End(p, "refused") /\ (log' = log \cup {rec} \/ log' = log)
    BY DEF AppendDenial, At
  <1>2. rec \in Record /\ rec.event = "key_access"
    BY DEF Record
  <1> HIDE DEF rec
  <1>3. TypeOK'
    BY <1>1, <1>2, EndFacts DEF IInv, TypeOK, Phases
  <1> QED
    BY <1>1, <1>2, <1>3, EndFacts, QuietStep DEF Phases

\* A secret is looked up, or a resolve request read the keyring: the process has
\* a binding of the file in hand.
LEMMA LoadToResolveStep == ASSUME IInv, NEW p \in Proc, LoadToResolve(p) PROVE IInv'
  <1> DEFINE sel == Selected(file.ring, proc[p].req)
  <1>1. UNCHANGED <<file, lock, log, answers, raced, vault>> /\ At(p, "arrived")
        /\ ~At(p, "answered") /\ proc[p].req.op = "resolve"
    BY DEF LoadToResolve, At
  <1>2. CASE Raise(p)
    <2>1. End(p, "denying") \/ End(p, "refused")
      BY <1>2 DEF Raise
    <2>2. TypeOK'
      BY <1>1, <2>1, EndFacts DEF IInv, TypeOK, Phases
    <2> QED
      BY <1>1, <2>1, <2>2, EndFacts, QuietStep DEF Phases
  <1>3. CASE AccessAllowed(file.ring, proc[p].req)
             /\ proc' = [proc EXCEPT ![p].phase = "selected", ![p].selected = sel]
    <2>1. proc[p].req \in ResolveRequest /\ file.ring \in KeyringType
      <3>1. proc[p].req \in Changes \cup Resolves
        BY <1>1 DEF IInv, RequestsOK
      <3>2. \A r \in Changes : r.op # "resolve"
        BY RequestAssumption DEF RotateRequest, StatusRequest
      <3> QED
        BY <1>1, <3>1, <3>2, RequestAssumption DEF IInv, TypeOK
    <2>2. sel \in Answer /\ Binds(file.ring, sel)
      BY <1>3, <2>1, SelectedFacts
    <2> HIDE DEF sel
    <2> DEFINE y == [proc[p] EXCEPT !.phase = "selected"]
               x == [y EXCEPT !.selected = sel]
    <2>3. proc' = [proc EXCEPT ![p] = x]
      BY <1>3 DEF IInv, TypeOK
    <2>4. x \in Process /\ x.phase = "selected" /\ x.selected = sel /\ x.saved = proc[p].saved
      <3>1. y \in Process /\ y.phase = "selected" /\ y.saved = proc[p].saved
        BY DEF IInv, TypeOK, Phases, Process
      <3> HIDE DEF y
      <3> QED
        BY <2>2, <3>1 DEF Process
    <2> HIDE DEF x
    <2>5. TypeOK'
      BY <1>1, <2>3, <2>4 DEF IInv, TypeOK
    <2>6. proc'[p] = x /\ \A q \in Proc : q # p => proc'[q] = proc[q]
      BY <2>3 DEF IInv, TypeOK
    <2> QED
      BY <1>1, <2>2, <2>4, <2>5, <2>6, QuietStep
  <1> QED
    BY <1>2, <1>3 DEF LoadToResolve

\* Following the reference that a process selected leaves it what it selected, and
\* gives the secret that a pinned one names.
LEMMA ResolvedFacts ==
  ASSUME IInv, NEW p \in Proc, proc[p].selected \in Answer
  PROVE  /\ Resolved(p) \in Answer /\ Named(Resolved(p))
         /\ \A ring : Binds(ring, proc[p].selected) => Binds(ring, Resolved(p))
  <1> DEFINE s == proc[p].selected
             environment == Environment[IF p \in Kms THEN "kms" ELSE "agent"]
             x == SecretOf(s.ref, environment, vault)
  <1>1. Resolved(p) = [s EXCEPT !.secret = x]
    BY DEF Resolved
  <1>2. s.ref \in SecretRef
    BY DEF Answer
  <1>3. environment \in [SecretName -> Secret \cup {NoSecret}]
    BY EnvironmentAssumption
  <1>4. vault \in [SecretName -> VaultVersion]
    BY DEF IInv, TypeOK
  <1> HIDE DEF environment
  <1>5. x \in Secret \cup {NoSecret} /\ (Pinned(s.ref) => x = PinnedSecret(s.ref))
    BY <1>2, <1>3, <1>4, SecretOfFacts
  <1> HIDE DEF x
  <1>6. /\ Resolved(p) \in Answer /\ Resolved(p).key = s.key /\ Resolved(p).version = s.version
        /\ Resolved(p).ref = s.ref /\ Resolved(p).secret = x
    BY <1>1, <1>5 DEF Answer
  <1> QED
    BY <1>5, <1>6 DEF Named, Binds

\* What a process selected is handed out: it was bound when it was selected, and
\* is still.
LEMMA AnswerStep ==
  ASSUME IInv, NEW p \in Proc, UNCHANGED <<file, lock, raced, vault>>, TypeOK',
         proc[p].phase \in {"selected", "resolved"}, End(p, "answered"),
         NEW s, answers' = answers \cup {s},
         Named(s), \A ring : Binds(ring, proc[p].selected) => Binds(ring, s),
         \A r \in log' : r \in log \/ r.event = "key_access",
         log \subseteq log'
  PROVE  IInv'
  <1>1. proc'[p].phase = "answered" /\ proc'[p].saved = proc[p].saved
        /\ \A q \in Proc : q # p => proc'[q] = proc[q]
    BY EndFacts DEF Phases
  <1>2. FileOK' /\ RequestsOK' /\ WritersOK'
    BY <1>1 DEF IInv, FileOK, RequestsOK, WritersOK, At, Writing
  <1>3. Kept'
    <2>1. \A q \in Proc : Writing(q)' => q # p /\ Writing(q)
      BY <1>1 DEF Writing
    <2> QED
      BY <1>1, <2>1 DEF IInv, Kept
  <1>4. Audited'
    <2>1. \A q \in Proc : Recorded(q)' => Recorded(q)
      BY DEF Recorded
    <2>2. \A q \in Proc : Recorded(q)' => At(q, "answered")'
      BY <1>1, <2>1 DEF IInv, Audited, At
    <2>3. file.by \in Proc \cup {NoProc}
      BY DEF IInv, TypeOK
    <2>4. ASSUME file.by # NoProc
          PROVE  /\ proc'[file.by].saved
                 /\ proc'[file.by].phase = "hashed" => proc'[file.by].digest = file.ring
                 /\ \A r \in log' : r.event = "key_lifecycle_change" /\ r.by = file.by =>
                      r.keyring = file.ring
      BY <1>1, <2>3, <2>4 DEF IInv, Audited, At
    <2>5. (file.by # NoProc =>
             /\ proc[file.by].saved
             /\ At(file.by, "hashed") => proc[file.by].digest = file.ring
             /\ \A r \in log : r.event = "key_lifecycle_change" /\ r.by = file.by =>
                  r.keyring = file.ring)'
      BY <2>4 DEF At
    <2> QED
      BY <2>2, <2>5 DEF Audited
  <1>5. Resolutions'
    BY <1>1 DEF IInv, Resolutions, At
  <1> QED
    BY <1>2, <1>3, <1>4, <1>5 DEF IInv

LEMMA ResolveSecretStep == ASSUME IInv, NEW p \in Proc, ResolveSecret(p) PROVE IInv'
  <1>1. UNCHANGED <<file, lock, log, raced, vault>> /\ proc[p].phase = "selected"
        /\ proc[p].selected \in Answer
    BY DEF ResolveSecret, At, IInv, RequestsOK
  <1> DEFINE s == Resolved(p)
  <1>4. /\ s \in Answer /\ Named(s)
        /\ \A ring : Binds(ring, proc[p].selected) => Binds(ring, s)
    BY <1>1, ResolvedFacts
  <1>2. CASE End(p, "answered") /\ answers' = answers \cup {s}
    <2> HIDE DEF s
    <2>1. TypeOK'
      BY <1>1, <1>2, <1>4, EndFacts DEF IInv, TypeOK, Phases
    <2> QED
      BY <1>1, <1>2, <1>4, <2>1, AnswerStep
  <1>3. CASE /\ proc' = [proc EXCEPT ![p].phase = "resolved", ![p].selected = s]
             /\ UNCHANGED answers
    <2> HIDE DEF s
    <2> DEFINE y == [proc[p] EXCEPT !.phase = "resolved"]
               x == [y EXCEPT !.selected = s]
    <2>1. x \in Process /\ x.phase = "resolved" /\ x.saved = proc[p].saved
          /\ x.selected = s
      <3>1. y \in Process /\ y.phase = "resolved" /\ y.saved = proc[p].saved
        BY DEF IInv, TypeOK, Phases, Process
      <3> HIDE DEF y
      <3> QED
        BY <1>4, <3>1 DEF Process
    <2>2. proc' = [proc EXCEPT ![p] = x]
      BY <1>3 DEF IInv, TypeOK
    <2> HIDE DEF x
    <2>3. TypeOK'
      BY <1>1, <1>3, <2>1, <2>2 DEF IInv, TypeOK
    <2>4. proc'[p] = x /\ \A q \in Proc : q # p => proc'[q] = proc[q]
      BY <2>2 DEF IInv, TypeOK
    <2>5. ~raced => Binds(file.ring, s)
      BY <1>1, <1>4 DEF IInv, Kept
    <2> QED
      BY <1>1, <1>3, <1>4, <2>1, <2>3, <2>4, <2>5, QuietStep DEF At
  <1> QED
    BY <1>2, <1>3 DEF ResolveSecret

LEMMA AppendAccessStep == ASSUME IInv, NEW p \in Proc, AppendAccess(p) PROVE IInv'
  <1> DEFINE rec == [by |-> p, event |-> "key_access", decision |-> "allow"]
  <1>1. /\ UNCHANGED <<file, lock, raced, vault>> /\ proc[p].phase = "resolved"
        /\ proc[p].selected \in Answer /\ End(p, "answered") /\ log' = log \cup {rec}
        /\ answers' = answers \cup {proc[p].selected}
    BY DEF AppendAccess, At, IInv, RequestsOK
  <1>2. rec \in Record /\ rec.event = "key_access"
    BY DEF Record
  <1> HIDE DEF rec
  <1>3. TypeOK'
    BY <1>1, <1>2, EndFacts DEF IInv, TypeOK, Phases
  <1>4. Named(proc[p].selected)
    BY <1>1 DEF IInv, Resolutions, At
  <1> QED
    BY <1>1, <1>2, <1>3, <1>4, AnswerStep

\* A change is computed, by a KMS thread under the lock; or it is refused.
LEMMA LoadStep == ASSUME IInv, NEW p \in Proc, Load(p) PROVE IInv'
  <1> DEFINE ring == Changed(file.ring, proc[p].req)
  <1>1. /\ UNCHANGED <<file, log, answers, vault>> /\ At(p, "arrived") /\ LockFree(p)
        /\ proc[p].req.op # "resolve" /\ ~At(p, "answered")
    BY DEF Load, At
  <1>2. CASE End(p, "refused") /\ UNCHANGED <<lock, raced>>
    <2>1. TypeOK'
      BY <1>1, <1>2, EndFacts DEF IInv, TypeOK, Phases
    <2> QED
      BY <1>1, <1>2, <2>1, EndFacts, QuietStep DEF Phases
  <1>3. CASE Permitted(file.ring, proc[p].req) /\ Accepted(p)
             /\ lock' = IF p \in Kms THEN p ELSE lock
    <2>1. proc[p].req \in Changes /\ p \notin Agent
      <3>1. proc[p].req \in Changes \cup Resolves /\ (p \in Agent => proc[p].req \in Resolves)
        BY <1>1 DEF IInv, RequestsOK
      <3>2. \A r \in Resolves : r.op = "resolve"
        BY RequestAssumption DEF ResolveRequest
      <3> QED
        BY <1>1, <3>1, <3>2
    <2>2. /\ ring \in KeyringType /\ Consistent(ring)
          /\ \A s \in Answer : Binds(file.ring, s) => Binds(ring, s)
      BY <1>3, <2>1, ChangedFacts, RequestAssumption DEF IInv, TypeOK, FileOK
    <2> HIDE DEF ring
    <2> DEFINE y == [proc[p] EXCEPT !.phase = "loaded"]
               z == [y EXCEPT !.ring = ring]
               x == [z EXCEPT !.applied = file.applied \cup {p}]
    <2>3. proc' = [proc EXCEPT ![p] = x]
      BY <1>3 DEF Accepted, ring, IInv, TypeOK
    <2>4. /\ x \in Process /\ x.phase = "loaded" /\ x.saved = proc[p].saved
          /\ x.ring = ring /\ x.applied = file.applied \cup {p}
      <3>1. y \in Process /\ y.phase = "loaded" /\ y.saved = proc[p].saved
        BY DEF IInv, TypeOK, Phases, Process
      <3> HIDE DEF y
      <3>2. z \in Process /\ z.phase = "loaded" /\ z.saved = proc[p].saved /\ z.ring = ring
        BY <2>2, <3>1 DEF Process
      <3> HIDE DEF z
      <3>3. file.applied \cup {p} \in SUBSET Proc
        BY DEF IInv, TypeOK
      <3> QED
        BY <3>2, <3>3 DEF Process
    <2> HIDE DEF x
    <2>5. proc'[p] = x /\ \A q \in Proc : q # p => proc'[q] = proc[q]
      BY <2>3 DEF IInv, TypeOK
    <2>6. raced' = (raced \/ \E q \in Proc : q # p /\ Writing(q) /\ {p, q} \cap Cli # {})
      BY <1>3 DEF Accepted
    <2>7. TypeOK'
      BY <1>1, <1>3, <2>3, <2>4, <2>6 DEF IInv, TypeOK
    <2>8. FileOK' /\ RequestsOK'
      BY <1>1, <2>4, <2>5 DEF IInv, FileOK, RequestsOK, At
    \* No KMS thread writes when another gets the lock.
    <2>9. \A q \in Proc : Writing(q) /\ q \in Kms => p \notin Kms
      BY <1>1, ProcAssumption DEF IInv, WritersOK, LockFree
    <2>10. WritersOK'
      <3> SUFFICES ASSUME NEW q \in Proc, Writing(q)'
          PROVE  q \notin Agent /\ Consistent(proc'[q].ring) /\ (q \in Kms => lock' = q)
        BY DEF WritersOK
      <3>1. CASE q = p
        BY <3>1, <1>3, <2>1, <2>2, <2>4, <2>5
      <3>2. CASE q # p
        <4>1. Writing(q) /\ proc'[q] = proc[q]
          BY <3>2, <2>5 DEF Writing
        <4> QED
          BY <4>1, <1>3, <2>9 DEF IInv, WritersOK
      <3> QED
        BY <3>1, <3>2
    <2>11. Kept'
      <3> SUFFICES ASSUME ~raced' PROVE Kept'
        BY DEF Kept
      <3>1. ~raced
        BY <2>6
      <3>2. \A q \in Proc : q # p => ~Writing(q)
        <4> SUFFICES ASSUME NEW q \in Proc, q # p, Writing(q) PROVE FALSE
          OBVIOUS
        <4>1. p \notin Cli /\ q \notin Cli
          BY <2>6
        <4>2. q \notin Agent
          BY DEF IInv, WritersOK
        <4> QED
          BY <4>1, <4>2, <2>1, <2>9 DEF Proc
      <3>3. \A q \in Proc : Writing(q)' => q = p
        BY <3>2, <2>5 DEF Writing
      <3>4. /\ \A q, r \in Proc : Writing(q)' /\ Writing(r)' => q = r
            /\ \A q \in Proc : Writing(q)' =>
                 /\ proc'[q].applied = file.applied \cup {q}
                 /\ \A s \in Answer : Binds(file.ring, s) => Binds(proc'[q].ring, s)
        BY <3>3, <2>2, <2>4, <2>5
      <3>5. /\ \A q \in Proc : proc'[q].saved => q \in file.applied
            /\ \A a \in answers : Binds(file.ring, a)
            /\ \A q \in Proc : proc'[q].phase \in {"selected", "resolved"} =>
                 Binds(file.ring, proc'[q].selected)
        BY <3>1, <2>4, <2>5 DEF IInv, Kept
      <3> QED
        BY <3>4, <3>5, <1>1 DEF Kept, Writing
    <2>12. Audited'
      <3>1. \A q \in Proc : Recorded(q)' => Recorded(q)
        BY <1>1 DEF Recorded
      <3>2. \A q \in Proc : Recorded(q)' => At(q, "answered")'
        BY <3>1, <2>5, <1>1 DEF IInv, Audited, At
      <3>3. (file.by # NoProc =>
               /\ proc[file.by].saved
               /\ At(file.by, "hashed") => proc[file.by].digest = file.ring
               /\ \A r \in log : r.event = "key_lifecycle_change" /\ r.by = file.by =>
                    r.keyring = file.ring)'
        BY <1>1, <2>4, <2>5 DEF IInv, Audited, At, TypeOK
      <3> QED
        BY <3>2, <3>3 DEF Audited
    <2>13. Resolutions'
      BY <1>1, <2>4, <2>5 DEF IInv, Resolutions, At
    <2> QED
      BY <2>7, <2>8, <2>10, <2>11, <2>12, <2>13 DEF IInv
  <1> QED
    BY <1>2, <1>3 DEF Load

LEMMA WriteTempStep == ASSUME IInv, NEW p \in Proc, WriteTemp(p) PROVE IInv'
  <1> DEFINE x == [proc[p] EXCEPT !.phase = "written"]
  <1>1. UNCHANGED <<file, lock, log, answers, raced, vault>> /\ Writing(p) /\ ~At(p, "answered")
    BY DEF WriteTemp, At, Writing
  <1>2. /\ x \in Process /\ x.phase = "written" /\ x.saved = proc[p].saved
        /\ x.ring = proc[p].ring /\ x.applied = proc[p].applied
    BY DEF IInv, TypeOK, Phases, Process
  <1>3. proc' = [proc EXCEPT ![p] = x]
    BY DEF WriteTemp, Goto
  <1> HIDE DEF x
  <1>4. proc'[p] = x /\ \A q \in Proc : q # p => proc'[q] = proc[q]
    BY <1>3 DEF IInv, TypeOK
  <1>5. TypeOK'
    BY <1>1, <1>2, <1>3 DEF IInv, TypeOK
  <1>6. \A q \in Proc : /\ Writing(q)' <=> Writing(q)
                        /\ proc'[q].ring = proc[q].ring /\ proc'[q].applied = proc[q].applied
                        /\ proc'[q].saved = proc[q].saved
    BY <1>1, <1>2, <1>4 DEF Writing
  <1>7. FileOK' /\ RequestsOK' /\ WritersOK'
    BY <1>1, <1>2, <1>4, <1>6 DEF IInv, FileOK, RequestsOK, WritersOK, At
  <1>8. Kept'
    BY <1>1, <1>2, <1>4, <1>6 DEF IInv, Kept
  <1>9. Audited'
    BY <1>1, <1>2, <1>4 DEF IInv, Audited, Recorded, At, TypeOK
  <1>10. Resolutions'
    BY <1>1, <1>2, <1>4 DEF IInv, Resolutions, At
  <1> QED
    BY <1>5, <1>7, <1>8, <1>9, <1>10 DEF IInv

\* The file is replaced: the only step that changes it.
LEMMA ReplaceStep == ASSUME IInv, NEW p \in Proc, Replace(p) PROVE IInv'
  <1> DEFINE ph == IF proc[p].audited THEN "saved" ELSE "answered"
             y  == Over(p, ph)
             x  == [y EXCEPT !.saved = TRUE]
  <1>1. /\ UNCHANGED <<log, answers, raced, vault>> /\ lock' = AfterLock(p) /\ At(p, "written")
        /\ Writing(p) /\ proc' = [proc EXCEPT ![p] = x]
        /\ file' = [whole |-> TRUE, ring |-> proc[p].ring, applied |-> proc[p].applied, by |-> p]
    BY DEF Replace, Writing, At
  <1>2. ph \in {"saved", "answered"} /\ ph \in Phases
    BY DEF Phases
  <1> HIDE DEF ph
  <1>3. x \in Process /\ x.phase = ph /\ x.saved
    <2>1. y \in Process /\ y.phase = ph
      BY <1>2, IdleFacts DEF Over, Idle, Process, IInv, TypeOK
    <2> HIDE DEF y
    <2> QED
      BY <2>1 DEF Process
  <1> HIDE DEF x
  <1>4. proc'[p] = x /\ \A q \in Proc : q # p => proc'[q] = proc[q]
    BY <1>1 DEF IInv, TypeOK
  <1>5. /\ file'.whole /\ file'.ring = proc[p].ring /\ file'.applied = proc[p].applied
        /\ file'.by = p /\ Consistent(file'.ring)
    BY <1>1 DEF IInv, WritersOK
  <1>6. TypeOK'
    BY <1>1, <1>3 DEF IInv, TypeOK, AfterLock, Process
  <1>7. \A q \in Proc : Writing(q)' => q # p /\ Writing(q)
    BY <1>2, <1>3, <1>4 DEF Writing
  <1>8. FileOK' /\ RequestsOK'
    BY <1>2, <1>3, <1>4, <1>5 DEF IInv, FileOK, RequestsOK, At
  <1>9. WritersOK'
    BY <1>1, <1>4, <1>7 DEF IInv, WritersOK, AfterLock
  <1>10. Kept'
    <2> SUFFICES ASSUME ~raced PROVE Kept'
      BY <1>1 DEF Kept
    <2>1. \A q \in Proc : ~Writing(q)'
      BY <1>1, <1>7 DEF IInv, Kept
    <2>2. /\ file'.applied = file.applied \cup {p}
          /\ \A s \in Answer : Binds(file.ring, s) => Binds(file'.ring, s)
      BY <1>1, <1>5 DEF IInv, Kept
    <2>3. \A q \in Proc : proc'[q].saved => q \in file'.applied
      BY <1>4, <2>2 DEF IInv, Kept
    <2>4. \A a \in answers : Binds(file'.ring, a)
      BY <2>2 DEF IInv, Kept, TypeOK
    <2>5. \A q \in Proc : proc'[q].phase \in {"selected", "resolved"} =>
            Binds(file'.ring, proc'[q].selected)
      BY <1>2, <1>3, <1>4, <2>2 DEF IInv, Kept, RequestsOK
    <2> QED
      BY <1>1, <2>1, <2>3, <2>4, <2>5 DEF Kept
  <1>11. Audited'
    <2>1. \A q \in Proc : Recorded(q)' => q # p /\ Recorded(q)
      BY <1>1 DEF IInv, Audited, Recorded, At
    <2>2. \A q \in Proc : Recorded(q)' => At(q, "answered")'
      BY <2>1, <1>4 DEF IInv, Audited, At
    <2>3. \A r \in log : r.event = "key_lifecycle_change" => r.by # p
      BY <1>1 DEF IInv, Audited, Recorded, At
    <2>4. (file.by # NoProc =>
             /\ proc[file.by].saved
             /\ At(file.by, "hashed") => proc[file.by].digest = file.ring
             /\ \A r \in log : r.event = "key_lifecycle_change" /\ r.by = file.by =>
                  r.keyring = file.ring)'
      BY <1>1, <1>2, <1>3, <1>4, <1>5, <2>3 DEF At
    <2> QED
      BY <2>2, <2>4 DEF Audited
  <1>12. Resolutions'
    BY <1>1, <1>2, <1>3, <1>4 DEF IInv, Resolutions, At
  <1> QED
    BY <1>6, <1>8, <1>9, <1>10, <1>11, <1>12 DEF IInv

\* The digest is that of the file as it is now, whoever wrote it.
LEMMA TakeDigestStep == ASSUME IInv, NEW p \in Proc, TakeDigest(p) PROVE IInv'
  <1> DEFINE y == [proc[p] EXCEPT !.phase = "hashed"]
             x == [y EXCEPT !.digest = file.ring]
  <1>1. UNCHANGED <<file, lock, log, answers, raced, vault>> /\ ~Writing(p) /\ ~At(p, "answered")
    BY DEF TakeDigest, At, Writing
  <1>2. proc' = [proc EXCEPT ![p] = x]
    BY DEF TakeDigest, IInv, TypeOK
  <1>3. /\ x \in Process /\ x.phase = "hashed" /\ x.saved = proc[p].saved
        /\ x.digest = file.ring
    <2>1. y \in Process /\ y.phase = "hashed" /\ y.saved = proc[p].saved
      BY DEF IInv, TypeOK, Phases, Process
    <2> HIDE DEF y
    <2>2. file.ring \in KeyringType
      BY DEF IInv, TypeOK
    <2> QED
      BY <2>1, <2>2 DEF Process
  <1> HIDE DEF x
  <1>4. proc'[p] = x /\ \A q \in Proc : q # p => proc'[q] = proc[q]
    BY <1>2 DEF IInv, TypeOK
  <1>5. TypeOK'
    BY <1>1, <1>2, <1>3 DEF IInv, TypeOK
  <1>6. \A q \in Proc : Writing(q)' => q # p /\ Writing(q)
    BY <1>3, <1>4 DEF Writing
  <1>7. FileOK' /\ RequestsOK' /\ WritersOK'
    BY <1>1, <1>3, <1>4, <1>6 DEF IInv, FileOK, RequestsOK, WritersOK, At
  <1>8. Kept'
    BY <1>1, <1>3, <1>4, <1>6 DEF IInv, Kept
  <1>9. Audited'
    BY <1>1, <1>3, <1>4 DEF IInv, Audited, Recorded, At, TypeOK
  <1>10. Resolutions'
    BY <1>1, <1>3, <1>4 DEF IInv, Resolutions, At
  <1> QED
    BY <1>5, <1>7, <1>8, <1>9, <1>10 DEF IInv

\* The record is written with the digest the process took: if it is still the last
\* writer, that of the file.
LEMMA AppendLifecycleStep == ASSUME IInv, NEW p \in Proc, AppendLifecycle(p) PROVE IInv'
  <1> DEFINE rec == [by |-> p, event |-> "key_lifecycle_change", keyring |-> proc[p].digest]
  <1>1. /\ UNCHANGED <<file, lock, answers, raced, vault>> /\ At(p, "hashed") /\ ~At(p, "answered")
        /\ End(p, "answered") /\ log' = log \cup {rec}
    BY DEF AppendLifecycle, At
  <1>2. /\ rec \in Record /\ rec.by = p /\ rec.event = "key_lifecycle_change"
        /\ rec.keyring = proc[p].digest
    <2>1. proc[p].digest \in KeyringType
      BY DEF IInv, TypeOK, Process
    <2> QED
      BY <2>1 DEF Record
  <1> HIDE DEF rec
  <1>3. TypeOK'
    BY <1>1, <1>2, EndFacts DEF IInv, TypeOK, Phases
  <1>4. /\ proc'[p].phase = "answered" /\ proc'[p].saved = proc[p].saved
        /\ \A q \in Proc : q # p => proc'[q] = proc[q]
    BY <1>1, EndFacts DEF Phases
  <1>5. \A q \in Proc : Writing(q)' => q # p /\ Writing(q)
    BY <1>4 DEF Writing
  <1>6. FileOK' /\ RequestsOK' /\ WritersOK'
    BY <1>1, <1>4, <1>5 DEF IInv, FileOK, RequestsOK, WritersOK, At
  <1>7. Kept'
    BY <1>1, <1>4, <1>5 DEF IInv, Kept
  <1>8. Audited'
    <2>1. \A q \in Proc : Recorded(q)' => q = p \/ Recorded(q)
      BY <1>1, <1>2 DEF Recorded
    <2>2. \A q \in Proc : Recorded(q)' => At(q, "answered")'
      BY <2>1, <1>4 DEF IInv, Audited, At
    <2>3. file.by \in Proc \cup {NoProc} /\ file' = file
      BY <1>1 DEF IInv, TypeOK
    <2>4. ASSUME file.by # NoProc
          PROVE  /\ proc'[file.by].saved
                 /\ proc'[file.by].phase = "hashed" => proc'[file.by].digest = file.ring
      BY <1>4, <2>3, <2>4 DEF IInv, Audited, At
    <2>5. ASSUME file.by # NoProc, NEW r \in log',
                 r.event = "key_lifecycle_change", r.by = file.by
          PROVE  r.keyring = file.ring
      BY <1>1, <1>2, <2>5 DEF IInv, Audited
    <2>6. (file.by # NoProc =>
             /\ proc[file.by].saved
             /\ At(file.by, "hashed") => proc[file.by].digest = file.ring
             /\ \A r \in log : r.event = "key_lifecycle_change" /\ r.by = file.by =>
                  r.keyring = file.ring)'
      BY <2>3, <2>4, <2>5 DEF At
    <2> QED
      BY <2>2, <2>6 DEF Audited
  <1>9. Resolutions'
    BY <1>1, <1>4 DEF IInv, Resolutions, At
  <1> QED
    BY <1>3, <1>6, <1>7, <1>8, <1>9 DEF IInv

\* A program is killed with all its threads: what they had in hand is gone, what
\* they saved and recorded is not.
LEMMA KillStep == ASSUME IInv, NEW program \in SUBSET Proc, Kill(program) PROVE IInv'
  <1>1. /\ UNCHANGED <<file, log, answers, raced, vault>>
        /\ lock' = IF lock \in program THEN NoProc ELSE lock
        /\ proc' = [p \in Proc |->
                      IF p \in program /\ Busy(p) THEN Over(p, "killed") ELSE proc[p]]
    BY DEF Kill
  <1>2. ASSUME NEW p \in Proc
        PROVE  /\ Over(p, "killed") \in Process
               /\ Over(p, "killed").phase = "killed" /\ Over(p, "killed").saved = proc[p].saved
    <2>1. proc[p].saved \in BOOLEAN
      BY DEF IInv, TypeOK, Process
    <2> QED
      BY <2>1, IdleFacts DEF Over, Idle, Phases, Process
  <1>3. ASSUME NEW p \in Proc
        PROVE  \/ proc'[p] = proc[p] /\ (p \in program => ~Busy(p))
               \/ /\ p \in program /\ Busy(p) /\ proc'[p] \in Process
                  /\ proc'[p].phase = "killed" /\ proc'[p].saved = proc[p].saved
    BY <1>1, <1>2
  <1>4. TypeOK'
    <2>1. proc' \in [Proc -> Process]
      BY <1>1, <1>2 DEF IInv, TypeOK
    <2> QED
      BY <1>1, <2>1 DEF IInv, TypeOK
  <1>5. \A p \in Proc : Writing(p)' => Writing(p) /\ proc'[p] = proc[p] /\ p \notin program
    BY <1>3 DEF Writing, Busy
  <1>6. FileOK' /\ RequestsOK'
    BY <1>1, <1>3 DEF IInv, FileOK, RequestsOK, At
  <1>7. WritersOK'
    BY <1>1, <1>5 DEF IInv, WritersOK
  <1>8. \A p \in Proc : /\ proc'[p].saved = proc[p].saved
                        /\ At(p, "answered") => proc'[p] = proc[p]
                        /\ proc'[p].phase # "killed" => proc'[p] = proc[p]
    BY <1>3 DEF Busy, At
  <1>9. Kept'
    <2> SUFFICES ASSUME ~raced PROVE Kept'
      BY <1>1 DEF Kept
    <2>1. /\ \A p, q \in Proc : Writing(p)' /\ Writing(q)' => p = q
          /\ \A p \in Proc : Writing(p)' =>
               /\ proc'[p].applied = file.applied \cup {p}
               /\ \A s \in Answer : Binds(file.ring, s) => Binds(proc'[p].ring, s)
      BY <1>5 DEF IInv, Kept
    <2>2. /\ \A p \in Proc : proc'[p].saved => p \in file.applied
          /\ \A a \in answers : Binds(file.ring, a)
          /\ \A p \in Proc : proc'[p].phase \in {"selected", "resolved"} =>
               Binds(file.ring, proc'[p].selected)
      BY <1>8 DEF IInv, Kept
    <2> QED
      BY <1>1, <2>1, <2>2 DEF Kept, Writing
  <1>10. Audited'
    <2>1. \A p \in Proc : Recorded(p)' => Recorded(p)
      BY <1>1 DEF Recorded
    <2>2. \A p \in Proc : Recorded(p)' => At(p, "answered")'
      BY <1>8, <2>1 DEF IInv, Audited, At
    <2>3. file.by \in Proc \cup {NoProc}
      BY DEF IInv, TypeOK
    <2>4. (file.by # NoProc =>
             /\ proc[file.by].saved
             /\ At(file.by, "hashed") => proc[file.by].digest = file.ring
             /\ \A r \in log : r.event = "key_lifecycle_change" /\ r.by = file.by =>
                  r.keyring = file.ring)'
      BY <1>1, <1>8, <2>3 DEF IInv, Audited, At
    <2> QED
      BY <2>2, <2>4 DEF Audited
  <1>11. Resolutions'
    BY <1>1, <1>8 DEF IInv, Resolutions, At
  <1> QED
    BY <1>4, <1>6, <1>7, <1>9, <1>10, <1>11 DEF IInv

\* What the vault's current versions are is nothing the invariant speaks of.
LEMMA StutterStep ==
  ASSUME IInv, UNCHANGED <<file, proc, lock, log, answers, raced>>,
         vault' \in [SecretName -> VaultVersion]
  PROVE  IInv'
  <1>1. TypeOK' /\ FileOK' /\ RequestsOK'
    BY DEF IInv, TypeOK, FileOK, RequestsOK, At
  <1>2. WritersOK' /\ Kept'
    BY DEF IInv, WritersOK, Kept, Writing
  <1>3. Audited' /\ Resolutions'
    BY DEF IInv, Audited, Recorded, Resolutions, At
  <1> QED
    BY <1>1, <1>2, <1>3 DEF IInv

LEMMA NextStep == IInv /\ [Next]_vars => IInv'
  <1> SUFFICES ASSUME IInv, [Next]_vars PROVE IInv'
    OBVIOUS
  <1>1. ASSUME NEW p \in Proc, Arrive(p) PROVE IInv'
    BY <1>1, ArriveStep
  <1>2. ASSUME NEW p \in Proc, Change(p) PROVE IInv'
    BY <1>2, LoadStep, WriteTempStep, SaveFailsStep, ReplaceStep, TakeDigestStep,
       AppendLifecycleStep, AuditFailsStep DEF Change
  <1>3. ASSUME NEW p \in Proc, Resolve(p) PROVE IInv'
    BY <1>3, LoadToResolveStep, ResolveSecretStep, ResolveFailsStep, AppendAccessStep,
       AppendDenialStep DEF Resolve
  <1>4. ASSUME Crash PROVE IInv'
    <2>1. CASE Kill(Kms)
      BY <2>1, KillStep DEF Proc
    <2>2. CASE Kill(Agent)
      BY <2>2, KillStep DEF Proc
    <2>3. ASSUME NEW p \in Cli, Kill({p}) PROVE IInv'
      <3>1. {p} \in SUBSET Proc
        BY DEF Proc
      <3> QED
        BY <2>3, <3>1, KillStep
    <2> QED
      BY <1>4, <2>1, <2>2, <2>3 DEF Crash
  <1>5. vault \in [SecretName -> VaultVersion]
    BY DEF IInv, TypeOK
  <1>6. ASSUME NEW n \in SecretName, MoveCurrent(n) PROVE IInv'
    BY <1>5, <1>6, StutterStep DEF MoveCurrent
  <1>7. CASE UNCHANGED vars
    BY <1>5, <1>7, StutterStep DEF vars
  <1> QED
    BY <1>1, <1>2, <1>3, <1>4, <1>6, <1>7 DEF Next

LEMMA Invariance == Spec => []IInv
  BY InitIInv, NextStep, PTL DEF Spec
--------------------------------------------------------------------------------
(* The theorems, for any requests, keys, versions and callers.               *)

\* The type invariant of the programs and the file.
THEOREM TypeCorrect == Spec => []TypeOK
  <1>1. IInv => TypeOK
    BY DEF IInv
  <1> QED
    BY <1>1, Invariance, PTL

\* The keyring file is whole and consistent at every moment, under any number of
\* unsynchronised writers, kills and failing saves (keyring_lib.py:36-63).
THEOREM KeyringAlwaysConsistent == Spec => []KeyringConsistent
  BY IInvProperties, Invariance, PTL

\* Unless a command raced with another writer, no saved change is ever lost: the
\* lock of the KMS is enough for its threads (external_kms_service.py:269).
THEOREM SavedChangesKept == Spec => []SavedKept
  BY IInvProperties, Invariance, PTL

\* Unless a command raced with another writer, all parties that were served one
\* version of a key by a reference that names its secret were served one secret, in
\* any environments and whatever became of the vault's current versions
\* (keyring_lib.py:182, 331).
THEOREM OneSecretPerVersion == Spec => []SameVersionSameSecret
  BY IInvProperties, Invariance, PTL

\* When no lifecycle record is missing, the keyring as it is now is on record, even
\* if commands raced with the KMS (external_kms_service.py:291).
THEOREM CurrentKeyringOnRecord == Spec => []CurrentKeyringAudited
  BY IInvProperties, Invariance, PTL
================================================================================
