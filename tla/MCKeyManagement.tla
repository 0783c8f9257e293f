---------------------------- MODULE MCKeyManagement ----------------------------
(* An instance of KeyManagement for TLC: two keys, of which one has a version *)
(* kept in the vault and can get another one kept in the environment.         *)
EXTENDS KeyManagement

CONSTANTS k1, k2, v1, v2, n1, w1, w2, ct1, x1, x2, main, admin, t1, t2, c1, a1

MCKeyName   == {k1, k2}
MCVersion   == {v1, v2}
MCName      == {n1}
MCVaultVersion == {w1, w2}
MCCiphertext == {ct1}
MCSecret    == {x1, x2}
MCPurpose   == {main}
MCCaller    == {admin}
MCKms       == {t1, t2}
MCCli       == {c1}
MCAgent     == {a1}

\* One name holds another secret in each version of the vault and in each program.
MCStored      == [n \in {n1} |-> [w \in {w1, w2} |-> IF w = w1 THEN x1 ELSE x2]]
MCDecrypted   == [c \in {ct1} |-> x1]
MCEnvironment == [p \in {"kms", "agent"} |-> [n \in {n1} |-> IF p = "kms" THEN x1 ELSE x2]]
MCInitialVault == [n \in {n1} |-> w1]

InEnv       == [kind |-> "env", name |-> n1]
InVault(w)  == [kind |-> "vault", name |-> n1, version |-> w]
ByKms       == [kind |-> "aws_kms", ciphertext |-> ct1]

MCInitialKeyring ==
  [k \in {k1, k2} |->
    IF k = k1
    THEN [purpose |-> main, active |-> v1, callers |-> {admin},
          versions |-> [v \in {v1, v2} |->
            IF v = v1 THEN [enabled |-> TRUE, status |-> "active", ref |-> InVault(w1)]
            ELSE Absent]]
    ELSE Absent]

Rotate(key, v, ref, role, create) ==
  [op |-> "rotate", key |-> key, purpose |-> main, version |-> v, ref |-> ref,
   caller |-> admin, role |-> role, activate |-> TRUE, create |-> create]

\* A rotation by an operator, a new key, a retirement, and a rotation to refuse, to a
\* version that exists.
MCChanges ==
  {Rotate(k1, v2, InEnv, "service_operator", FALSE),
   Rotate(k2, v2, ByKms, "platform_admin", TRUE),
   [op |-> "set_status", key |-> k1, version |-> v1, status |-> "retired",
    caller |-> admin, role |-> "token"],
   Rotate(k1, v1, InVault(w2), "token", FALSE)}

MCResolves == {[op |-> "resolve", key |-> k1, purpose |-> main, caller |-> admin]}

\* Of the two threads of the KMS, which are alike, the first is the first to be used;
\* and the vault's current version moves once, after the first answer: before it, a
\* move is another initial vault.
Restricted ==
  /\ proc'[t2].phase # "idle" => proc[t1].phase # "idle"
  /\ vault' # vault => vault = InitialVault /\ answers # {}

MCSpec == Init /\ [][Next /\ Restricted]_vars /\ Fairness
================================================================================
