----------------------------- MODULE PiBasDatabase -----------------------------
(***************************************************************************)
(* The encrypted database of the PiBas scheme and what the server does to  *)
(* it: search by token, deletion by token or by position, update by token  *)
(* or by address.                                                          *)
(*                                                                         *)
(* The dictionary D of the code maps an address, a pseudo-random function  *)
(* of the key, the keyword and a counter, to a ciphertext.  An address is  *)
(* modelled by the keyword and the counter, and the key is kept once per   *)
(* database: a token under another key computes addresses that are not in  *)
(* D.  An address holds nothing ("absent"), a ciphertext the key decrypts  *)
(* ("cipher"), or bytes an update request put there ("raw").               *)
(***************************************************************************)
EXTENDS Naturals, FiniteSets

CONSTANTS
  Keyword,    \* the keywords of the plain database
  MaxIds      \* bound: the most identifiers under one keyword

ASSUME MaxIdsAssumption == MaxIds \in Nat

Counter == 0 .. MaxIds - 1
Addr    == Keyword \X Counter

\* A database: the key it was encrypted under, the number of the encryption
\* that produced it (an identity for the properties), and the contents of D.
EDB(Key, Gen) == [key : Key, gen : Gen, D : [Addr -> {"absent", "cipher", "raw"}]]

\* EDBSetup: one ciphertext per keyword and position of the plain database.
EDBSetup(key, gen, db) ==
  [key |-> key, gen |-> gen,
   D |-> [a \in Addr |-> IF a[2] < db[a[1]] THEN "cipher" ELSE "absent"]]

\* TokenGen
Token(key, w) == [key |-> key, keyword |-> w]

\* The counters a token reaches: both the search and _iter_token_addresses
\* count up from zero and stop at the first address that is not in D.
Reached(edb, tk) ==
  {c \in Counter : /\ edb.key = tk.key
                   /\ \A d \in 0 .. c : edb.D[<<tk.keyword, d>>] # "absent"}

TokenAddresses(edb, tk) == {<<tk.keyword, c>> : c \in Reached(edb, tk)}

\* A search decrypts what it reaches; bytes that are no ciphertext may fail.
MayFailToDecrypt(edb, tk) == \E a \in TokenAddresses(edb, tk) : edb.D[a] = "raw"

Set(edb, S, v) == [edb EXCEPT !.D = [a \in Addr |-> IF a \in S THEN v ELSE @[a]]]

\* Mutation: the loop stops after the first deletion.
DeleteFirstOnly(edb, tk, indices) ==
  Set(edb, {a \in TokenAddresses(edb, tk) : a[2] = 0}, "absent")

\* Deletion by token: everything the token reaches, or of that the positions
\* listed in the request when it lists some.
DeleteByToken(edb, tk, indices) ==
  Set(edb, {a \in TokenAddresses(edb, tk) : indices = {} \/ a[2] \in indices}, "absent")

\* Deletion without a token: the listed positions of D in insertion order.  The
\* request may list any, so it names any set of the addresses in D.
DeleteAt(edb, S) == Set(edb, S, "absent")
Present(edb)     == {a \in Addr : edb.D[a] # "absent"}

\* Update by token replaces what the token reaches by the bytes of the request;
\* update by entries stores the request's bytes at the addresses it names,
\* whether or not they are in D.
UpdateByToken(edb, tk)   == Set(edb, TokenAddresses(edb, tk), "raw")
UpdateEntries(edb, S)    == Set(edb, S, "raw")

\* Every ciphertext of the database is one a token can reach.
NoGap(edb) ==
  \A w \in Keyword, c \in Counter :
    edb.D[<<w, c>>] # "absent" => \A d \in 0 .. c : edb.D[<<w, d>>] # "absent"
================================================================================
