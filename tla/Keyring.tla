-------------------------------- MODULE Keyring --------------------------------
(***************************************************************************)
(* The keyring file and what keyring_lib.py does to it: which version of a *)
(* key a caller may use, how a version is added, promoted, retired.        *)
(*                                                                         *)
(* A keyring maps key names to entries.  An entry names its purpose, its   *)
(* active version, who may use it, and maps version names to their status  *)
(* and to a reference to the secret, which is kept elsewhere: in the       *)
(* environment of the program that resolves it, in a vault, or encrypted   *)
(* by AWS KMS in the reference itself.                                     *)
(***************************************************************************)
EXTENDS Naturals, FiniteSets

CONSTANTS
  KeyName, Version, Purpose, Caller,
  SecretName, VaultVersion, Ciphertext,
  Secret,
  NoSecret,     \* there is none under that name or version
  Stored,       \* the vault's secrets, by name and version
  Decrypted,    \* AWS KMS: the secret of a ciphertext
  NoVersion,    \* active_version: null; a vault reference that names no version
  AnyCaller,    \* allowed_callers is missing from the entry
  Absent        \* what a dictionary holds for a name it does not have

Statuses == {"active", "inactive", "retired"}
Roles    == {"token", "platform_admin", "service_operator", "other"}

\* vault_kv and vault_http without a client configuration read the same vault.
SecretRef ==
  [kind : {"env"}, name : SecretName]
  \cup [kind : {"vault"}, name : SecretName, version : VaultVersion \cup {NoVersion}]
  \cup [kind : {"aws_kms"}, ciphertext : Ciphertext]

VersionValue == [enabled : BOOLEAN, status : Statuses, ref : SecretRef]

Entry == [purpose : Purpose, active : Version \cup {NoVersion},
          callers : (SUBSET Caller) \cup {AnyCaller},
          versions : [Version -> VersionValue \cup {Absent}]]

KeyringType == [KeyName -> Entry \cup {Absent}]

ASSUME AbsentAssumption ==
  NoVersion \notin Version /\ Absent \notin VersionValue /\ Absent \notin Entry

ASSUME SecretAssumption ==
  /\ Stored \in [SecretName -> [VaultVersion -> Secret \cup {NoSecret}]]
  /\ Decrypted \in [Ciphertext -> Secret]

HasKey(ring, k)  == ring[k] # Absent
HasVersion(e, v) == e.versions[v] # Absent

\* Requests to change a keyring.  "role" is what the caller's identity was resolved
\* to; "token" stands for a caller without an identity, admitted by the shared
\* token or, at the command line, by nothing.
RotateRequest ==
  [op : {"rotate"}, key : KeyName, purpose : Purpose, version : Version, ref : SecretRef,
   caller : Caller, role : Roles, activate : BOOLEAN, create : BOOLEAN]
StatusRequest ==
  [op : {"set_status"}, key : KeyName, version : Version, status : STRING,
   caller : Caller, role : Roles]
ResolveRequest == [op : {"resolve"}, key : KeyName, purpose : Purpose, caller : Caller]
--------------------------------------------------------------------------------
\* authorize_keyring_admin_identity
Authorized(ring, r) ==
  \/ r.role \in {"token", "platform_admin"}
  \/ /\ r.role = "service_operator"
     /\ r.op = "rotate" => ~r.create
     /\ HasKey(ring, r.key)
     /\ ring[r.key].callers # AnyCaller
     /\ r.caller \in ring[r.key].callers

\* promote_version, of a version that exists
Promote(e, v) ==
  [e EXCEPT !.active = v,
            !.versions = [w \in Version |->
              IF w = v THEN [e.versions[w] EXCEPT !.enabled = TRUE, !.status = "active"]
              ELSE IF HasVersion(e, w) /\ e.versions[w].status = "active"
                   THEN [e.versions[w] EXCEPT !.status = "inactive"]
              ELSE e.versions[w]]]

\* set_version_status
CanSetStatus(ring, r) ==
  /\ r.status \in Statuses
  /\ HasKey(ring, r.key)
  /\ HasVersion(ring[r.key], r.version)

SetStatus(e, v, status) ==
  IF status = "active" THEN Promote(e, v)
  ELSE [e EXCEPT !.versions = [e.versions EXCEPT ![v] = [@ EXCEPT !.status = status]],
                 !.active = IF e.active = v THEN NoVersion ELSE e.active]

\* Mutation: a version that exists is replaced.
CanRotateAgain(ring, r) ==
  IF HasKey(ring, r.key) THEN ring[r.key].purpose = r.purpose ELSE r.create

\* rotate_key
CanRotate(ring, r) ==
  IF HasKey(ring, r.key)
  THEN /\ ring[r.key].purpose = r.purpose
       /\ ~HasVersion(ring[r.key], r.version)
  ELSE r.create

NewKey(r) == [purpose |-> r.purpose, active |-> NoVersion, callers |-> {r.caller},
              versions |-> [v \in Version |-> Absent]]

WithVersion(e, r) ==
  [e EXCEPT !.versions = [e.versions EXCEPT
     ![r.version] = [enabled |-> TRUE, ref |-> r.ref,
                     status |-> IF r.activate THEN "active" ELSE "inactive"]]]

Rotated(e, r) ==
  IF r.activate THEN Promote(WithVersion(e, r), r.version) ELSE WithVersion(e, r)

\* What the handlers compute of the keyring they loaded.
Permitted(ring, r) ==
  /\ Authorized(ring, r)
  /\ IF r.op = "rotate" THEN CanRotate(ring, r) ELSE CanSetStatus(ring, r)

EntryAfter(ring, r) ==
  IF r.op = "set_status" THEN SetStatus(ring[r.key], r.version, r.status)
  ELSE Rotated(IF HasKey(ring, r.key) THEN ring[r.key] ELSE NewKey(r), r)

Changed(ring, r) == [ring EXCEPT ![r.key] = EntryAfter(ring, r)]
--------------------------------------------------------------------------------
\* ensure_key_access_allowed, for a resolve request
AccessAllowed(ring, r) ==
  /\ HasKey(ring, r.key)
  /\ LET e == ring[r.key] IN
     /\ e.active # NoVersion /\ HasVersion(e, e.active)
     /\ e.purpose = r.purpose
     /\ e.versions[e.active].enabled
     /\ e.versions[e.active].status = "active"
     /\ e.callers # AnyCaller => r.caller \in e.callers

\* Its result: the version and the reference to its secret, not yet followed.
Selected(ring, r) ==
  LET e == ring[r.key] IN
  [key |-> r.key, version |-> e.active, ref |-> e.versions[e.active].ref,
   secret |-> NoSecret]

\* Mutation: the version that the reference names is not looked at.
SecretOfNow(ref, environment, current) ==
  CASE ref.kind = "env"     -> environment[ref.name]
    [] ref.kind = "vault"   -> Stored[ref.name][current[ref.name]]
    [] ref.kind = "aws_kms" -> Decrypted[ref.ciphertext]

\* resolve_secret_ref, in a program with that environment, while the vault's
\* current_version of each name is as given.
SecretOf(ref, environment, current) ==
  CASE ref.kind = "env"     -> environment[ref.name]
    [] ref.kind = "vault"   -> Stored[ref.name][IF ref.version = NoVersion
                                                THEN current[ref.name] ELSE ref.version]
    [] ref.kind = "aws_kms" -> Decrypted[ref.ciphertext]
--------------------------------------------------------------------------------
\* A key's active version is enabled and the only version with status active.
EntryConsistent(e) ==
  /\ e.active # NoVersion =>
       /\ HasVersion(e, e.active)
       /\ e.versions[e.active].enabled /\ e.versions[e.active].status = "active"
  /\ \A v \in Version :
       HasVersion(e, v) /\ e.versions[v].status = "active" => e.active = v

Consistent(ring) == \A k \in KeyName : HasKey(ring, k) => EntryConsistent(ring[k])

\* A reference that names its secret, whoever resolves it and whenever.
Pinned(ref) == ref.kind # "env" /\ (ref.kind = "vault" => ref.version # NoVersion)

\* A keyring binds a version of a key to a reference to a secret.
Binds(ring, s) ==
  /\ HasKey(ring, s.key)
  /\ HasVersion(ring[s.key], s.version)
  /\ ring[s.key].versions[s.version].ref = s.ref
================================================================================
