-------------------------- MODULE SSEService_proofs --------------------------
(***************************************************************************)
(* Proofs about the SSE services.                                          *)
(*                                                                         *)
(* Inv is inductive.  It is a conjunction of parts, one per theorem:       *)
(*                                                                         *)
(*   Typed         the types, and that a client that remembers creating a  *)
(*                 key has one                                             *)
(*   WaitInv       who waits for whom, and who is registered               *)
(*   MessageInv    what can be in flight on a connection, in each phase    *)
(*   FileInv       the files the announced states need                     *)
(*   SerialInv     while no two connections overlapped: nobody waits, one  *)
(*                 connection can still write, and it agrees with the disk *)
(*   GapInv        no database anywhere has a gap before a request named   *)
(*                 positions or addresses                                  *)
(*   DeliveryInv   which upload an answer belongs to                       *)
(*   MadeInv       databases are numbered in the order they are made       *)
(*                                                                         *)
(* A later part uses the earlier ones.  The writes of a handler are a      *)
(* FoldLeft in the model; the first section unfolds it for the up to three *)
(* files a handler writes.                                                 *)
(***************************************************************************)
EXTENDS SSEService, FiniteSetTheorems, TLAPS

Disk == [folder : BOOLEAN, config : {"none", "ok", "torn"},
         meta : States \cup {"none", "torn"}, edb : StoredEdb \cup {NoEdb, TornEdb}]

Connections ==
  [phase : {"none", "init", "waiting", "live"}, open : BOOLEAN, snap : States,
   prev : Conn \cup {NoConn}, inbox : Message, echo : States \cup {"none"},
   reply : {"none", "ok", "refused"}]

History ==
  [overlapped : BOOLEAN, crowded : BOOLEAN, gapped : BOOLEAN,
   cut : SUBSET Files, torn : SUBSET Files, stored : SUBSET Gens, reached : States]

Processes ==
  [phase : {"idle", "connecting", "awaiting", "closing"}, command : Commands \cup {"none"},
   bits : SUBSET Bits, conn : Conn \cup {NoConn}, sent : Gens \cup {0}]

Folder ==
  [key : Keys \cup {0}, edb : StoredEdb \cup {NoEdb}, bits : SUBSET Bits, made : Gens \cup {0}]

ServerTyped ==
  /\ disk \in Disk
  /\ conn \in [Conn -> Connections]
  /\ running \in Conn \cup {NoConn}
  /\ faults \in 0 .. MaxFaults
  /\ hist \in History

ClientTyped ==
  /\ local \in Folder
  /\ proc \in [Proc -> Processes]
  /\ commands \in 0 .. MaxCommands
  /\ "key_created" \in local.bits => local.key # 0
  /\ \A p \in Proc : "key_created" \in proc[p].bits => local.key # 0
  /\ \A p \in Proc : proc[p].phase # "idle" => proc[p].command # "none"

Typed == ServerTyped /\ ClientTyped

\* A connection that waits does so for one that is registered and live, and the
\* connection in the dictionary is live.  Until one came while another waited, the
\* one that waits waits for the one in the dictionary, and only that one serves.
WaitInv ==
  /\ running # NoConn => conn[running].phase = "live"
  /\ \A c \in Conn : conn[c].phase = "waiting" =>
       conn[c].prev \in Conn /\ conn[conn[c].prev].phase = "live"
  /\ ~hist.crowded =>
       /\ \A c, d \in Conn : conn[c].phase = "waiting" /\ conn[d].phase = "waiting" => c = d
       /\ \A c \in Conn : conn[c].phase = "waiting" => conn[c].prev = running
       /\ \A c \in Conn : Serving(c) => c = running

\* The message of a connection suits the state of its Service object.
Suits(c) ==
  CASE conn[c].inbox.type = "config"     -> TRUE
    [] conn[c].inbox.type = "upload_edb" -> conn[c].snap # "not_exists"
    [] OTHER                             -> conn[c].snap = "all_ready"

\* Until the INIT message was read nothing else is in flight; the echo of an open
\* connection is the state of its Service object, and comes before any message.
MessageAt(c) ==
  /\ conn[c].phase \in {"none", "init"} => ~Pending(c)
  /\ conn[c].phase = "init" => conn[c].echo = "none" /\ conn[c].reply = "none"
  /\ conn[c].open /\ conn[c].echo # "none" =>
       /\ conn[c].phase \in {"waiting", "live"} /\ conn[c].snap = conn[c].echo
       /\ ~Pending(c) /\ conn[c].reply = "none"
  /\ Pending(c) => Suits(c)

MessageInv == \A c \in Conn : MessageAt(c)

\* A Service object past "not_exists" has a folder under it; the rest is what the
\* two properties of the files say.
FileInv ==
  /\ hist.torn \subseteq hist.cut
  /\ \A c \in Conn : conn[c].phase # "none" /\ conn[c].snap # "not_exists" => disk.folder
  /\ ReadyHasDatabase
  /\ LoadableAgain

\* A connection that can still change the state: it will register, or will
\* handle a message.
Current(c) ==
  \/ conn[c].phase = "waiting"
  \/ conn[c].phase = "live" /\ (conn[c].open \/ Pending(c))

Serially == ~hist.overlapped /\ {"config", "meta"} \cap hist.cut = {}

OneCurrent == \A c, d \in Conn : Current(c) /\ Current(d) => c = d

Agreement ==
  /\ \A c \in Conn : conn[c].phase # "waiting"
  /\ \A c \in Conn : conn[c].phase = "live" /\ Current(c) => running = c
  /\ running # NoConn => conn[running].snap = hist.reached
  /\ Snapshot(disk) = hist.reached

SerialInv == Serially => OneCurrent /\ Agreement

GapInv ==
  /\ local.edb # NoEdb => NoGap(local.edb)
  /\ \A c \in Conn : conn[c].inbox.type = "upload_edb" => NoGap(conn[c].inbox.edb)
  /\ DatabaseWithoutGap

\* A command that runs has a connection of its own.  Its upload is the database it
\* remembers sending, and an answer to an upload means it is stored.
Uploads(p) ==
  proc[p].phase \in {"awaiting", "closing"} /\ proc[p].command = "upload_encrypted_database"

OwnConnections ==
  /\ \A p \in Proc : (proc[p].phase = "idle") = (proc[p].conn = NoConn)
  /\ \A p, q \in Proc : proc[p].conn = proc[q].conn /\ proc[p].conn # NoConn => p = q

DeliveredTo(p) ==
  LET c == proc[p].conn IN
  /\ proc[p].phase = "connecting" => conn[c].reply = "none" /\ ~Pending(c)
  /\ Uploads(p) =>
       /\ Pending(c) => conn[c].inbox.type = "upload_edb" /\ conn[c].inbox.edb.gen = proc[p].sent
       /\ conn[c].reply = "ok" => proc[p].sent \in hist.stored

DeliveryInv == OwnConnections /\ \A p \in Proc : DeliveredTo(p)

\* No command sent a later database than the one in the folder, or than any made.
MadeInv ==
  /\ local.edb # NoEdb => local.edb.gen <= local.made
  /\ \A p \in Proc : /\ proc[p].sent <= local.made
                     /\ local.edb # NoEdb => proc[p].sent <= local.edb.gen

Inv == /\ Typed /\ WaitInv /\ MessageInv /\ FileInv /\ SerialInv /\ GapInv /\ DeliveryInv
       /\ MadeInv
--------------------------------------------------------------------------------
LEMMA MaxIs ==
  ASSUME NEW S, NEW m \in S, S \subseteq Nat, \A x \in S : x <= m
  PROVE  Max(S) = m
<1>1. \A x \in S : m >= x
  OBVIOUS
<1>2. PICK z \in S : z = Max(S) /\ \A x \in S : z >= x
  BY <1>1 DEF Max
<1>. QED  BY <1>1, <1>2

Iterate(d, ws, iter) ==
  [s \in SUBSET (DOMAIN ws) |-> IF s = {} THEN d ELSE Put(iter[s \ {Max(s)}], ws[Max(s)])]

Iterated(d, ws) == CHOOSE iter : iter = Iterate(d, ws, iter)

LEMMA FoldLeftIs ==
  ASSUME NEW d, NEW ws
  PROVE  FoldLeft(Put, d, ws) = Iterated(d, ws)[DOMAIN ws]
BY DEF FoldLeft, MapThenFoldSet, Iterated, Iterate

\* What is left of up to three numbers when the largest is taken three times.
LEMMA ThreeTaken ==
  ASSUME NEW T \in SUBSET {1, 2, 3}
  PROVE  LET P(s) == s \ {Max(s)} IN P(P(P(T))) = {}
<1>. DEFINE P(s) == s \ {Max(s)}
<1>1. Max({1}) = 1 /\ Max({2}) = 2 /\ Max({3}) = 3
  BY MaxIs
<1>2. Max({1, 2}) = 2 /\ Max({1, 3}) = 3 /\ Max({2, 3}) = 3 /\ Max({1, 2, 3}) = 3
  BY MaxIs
<1>3. T \in {{}, {1}, {2}, {3}, {1, 2}, {1, 3}, {2, 3}, {1, 2, 3}}
  OBVIOUS
<1>4. P({1}) = {} /\ P({2}) = {} /\ P({3}) = {} /\ P({}) = {}
  BY <1>1
<1>5. P({1, 2}) = {1} /\ P({1, 3}) = {1} /\ P({2, 3}) = {2} /\ P({1, 2, 3}) = {1, 2}
  BY <1>2
<1>. HIDE DEF P
<1>6. P(P(P(T))) = {}
  BY <1>3, <1>4, <1>5
<1>. QED  BY <1>6 DEF P

\* The function FoldLeft iterates exists for up to three writes.
LEMMA IteratedIs ==
  ASSUME NEW d, NEW ws, DOMAIN ws \in SUBSET {1, 2, 3}
  PROVE  Iterated(d, ws) = Iterate(d, ws, Iterated(d, ws))
<1>. DEFINE P(s) == s \ {Max(s)}
            D == DOMAIN ws
            h1(s) == IF s = {} THEN d ELSE Put(d, ws[Max(s)])
            h2(s) == IF s = {} THEN d ELSE Put(h1(P(s)), ws[Max(s)])
            h3(s) == IF s = {} THEN d ELSE Put(h2(P(s)), ws[Max(s)])
            g == [s \in SUBSET D |-> h3(s)]
<1>1. \A s \in SUBSET D : P(P(P(s))) = {} /\ P(s) \in SUBSET D
  BY ThreeTaken
<1>2. ASSUME NEW s \in SUBSET D, s # {} PROVE h3(s) = Put(h3(P(s)), ws[Max(s)])
  <2>1. P(P(P(s))) = {}
    BY <1>1
  <2>. HIDE DEF P
  <2>. QED  BY <1>2, <2>1
<1>3. g = Iterate(d, ws, g)
  <2>1. \A s \in SUBSET D : s = {} => h3(s) = d
    OBVIOUS
  <2>. HIDE DEF h3
  <2>2. \A s \in SUBSET D : g[s] = h3(s) /\ P(s) \in SUBSET D
    BY <1>1
  <2>. HIDE DEF g
  <2>3. \A s \in SUBSET D : g[s] = IF s = {} THEN d ELSE Put(g[P(s)], ws[Max(s)])
    BY <1>2, <2>1, <2>2
  <2>4. g = [s \in SUBSET D |-> g[s]]
    BY DEF g
  <2>. QED  BY <2>3, <2>4 DEF Iterate
<1>. HIDE DEF g
<1>. QED  BY <1>3 DEF Iterated

Fold(d, ws) == FoldLeft(Put, d, ws)

LEMMA FoldIs ==
  ASSUME NEW d, NEW ws
  PROVE  Fold(d, ws) = Iterated(d, ws)[DOMAIN ws]
BY FoldLeftIs DEF Fold

LEMMA FoldOne ==
  ASSUME NEW d, NEW ws, DOMAIN ws \in SUBSET {1, 2, 3}, NEW s \in SUBSET (DOMAIN ws)
  PROVE  /\ s = {} => Iterated(d, ws)[s] = d
         /\ s # {} => Iterated(d, ws)[s] = Put(Iterated(d, ws)[s \ {Max(s)}], ws[Max(s)])
<1>. DEFINE It == Iterated(d, ws)
<1>1. It = Iterate(d, ws, It)
  BY IteratedIs
<1>. HIDE DEF It
<1>2. It[s] = IF s = {} THEN d ELSE Put(It[s \ {Max(s)}], ws[Max(s)])
  BY <1>1 DEF Iterate
<1>. QED  BY <1>2 DEF It

\* Three writes, in order.
LEMMA FoldThree ==
  ASSUME NEW d, NEW ws
  PROVE  /\ DOMAIN ws = {} => Fold(d, ws) = d
         /\ DOMAIN ws = {1} => Fold(d, ws) = Put(d, ws[1])
         /\ DOMAIN ws = {1, 2} => Fold(d, ws) = Put(Put(d, ws[1]), ws[2])
         /\ DOMAIN ws = {1, 2, 3} => Fold(d, ws) = Put(Put(Put(d, ws[1]), ws[2]), ws[3])
<1>. DEFINE D == DOMAIN ws
            It(s) == Iterated(d, ws)[s]
<1>1. Max({1}) = 1 /\ Max({1, 2}) = 2 /\ Max({1, 2, 3}) = 3
  BY MaxIs
<1>2. {1} \ {1} = {} /\ {1, 2} \ {2} = {1} /\ {1, 2, 3} \ {3} = {1, 2}
  OBVIOUS
<1>3. ASSUME D \in SUBSET {1, 2, 3} PROVE It({}) = d
  BY <1>3, FoldOne
<1>4. ASSUME D \in SUBSET {1, 2, 3}, 1 \in D PROVE It({1}) = Put(d, ws[1])
  <2>1. It({1}) = Put(It({1} \ {Max({1})}), ws[Max({1})])
    BY <1>4, FoldOne
  <2>. QED  BY <1>1, <1>2, <1>3, <1>4, <2>1
<1>5. ASSUME D \in SUBSET {1, 2, 3}, {1, 2} \subseteq D
      PROVE  It({1, 2}) = Put(Put(d, ws[1]), ws[2])
  <2>. DEFINE s == {1, 2}
  <2>0. s \in SUBSET (DOMAIN ws) /\ s # {}
    BY <1>5
  <2>. HIDE DEF s
  <2>1. Iterated(d, ws)[s] = Put(Iterated(d, ws)[s \ {Max(s)}], ws[Max(s)])
    BY <1>5, <2>0, FoldOne
  <2>2. It({1}) = Put(d, ws[1])
    BY <1>4, <1>5
  <2>3. Max(s) = 2 /\ s \ {2} = {1}
    BY <1>1, <1>2 DEF s
  <2>4. Iterated(d, ws)[s] = Put(Iterated(d, ws)[{1}], ws[2])
    BY <2>1, <2>3
  <2>5. Iterated(d, ws)[s] = Put(Put(d, ws[1]), ws[2])
    BY <2>2, <2>4
  <2>. QED  BY <2>5 DEF s
<1>6. ASSUME D = {1, 2, 3}
      PROVE  It({1, 2, 3}) = Put(Put(Put(d, ws[1]), ws[2]), ws[3])
  <2>1. It({1, 2, 3}) = Put(It({1, 2, 3} \ {Max({1, 2, 3})}), ws[Max({1, 2, 3})])
    BY <1>6, FoldOne
  <2>2. It({1, 2}) = Put(Put(d, ws[1]), ws[2])
    BY <1>5, <1>6
  <2>. QED  BY <1>1, <1>2, <2>1, <2>2
<1>7. Fold(d, ws) = It(D)
  BY FoldIs
<1>. HIDE DEF It
<1>8. CASE D = {}
  BY <1>3, <1>7, <1>8
<1>9. CASE D = {1}
  BY <1>4, <1>7, <1>9
<1>10. CASE D = {1, 2}
  BY <1>5, <1>7, <1>10
<1>11. CASE D = {1, 2, 3}
  BY <1>6, <1>7, <1>11
<1>. QED  BY <1>8, <1>9, <1>10, <1>11

\* What a handler has written after the first n of its files.
LEMMA WrittenIs ==
  ASSUME NEW d, NEW ws
  PROVE  /\ Written(d, ws, 0) = d
         /\ Written(d, ws, 1) = Put(d, ws[1])
         /\ Written(d, ws, 2) = Put(Put(d, ws[1]), ws[2])
         /\ Written(d, ws, 3) = Put(Put(Put(d, ws[1]), ws[2]), ws[3])
<1>1. \A n \in 0 .. 3 : Written(d, ws, n) = Fold(d, SubSeq(ws, 1, n))
  BY DEF Written, Fold
<1>. DEFINE s0 == SubSeq(ws, 1, 0)
            s1 == SubSeq(ws, 1, 1)
            s2 == SubSeq(ws, 1, 2)
            s3 == SubSeq(ws, 1, 3)
<1>3. DOMAIN s0 = {}
  OBVIOUS
<1>4. DOMAIN s1 = {1} /\ s1[1] = ws[1]
  OBVIOUS
<1>5. DOMAIN s2 = {1, 2} /\ s2[1] = ws[1] /\ s2[2] = ws[2]
  OBVIOUS
<1>6. DOMAIN s3 = {1, 2, 3} /\ s3[1] = ws[1] /\ s3[2] = ws[2] /\ s3[3] = ws[3]
  OBVIOUS
<1>7. /\ Written(d, ws, 0) = Fold(d, s0) /\ Written(d, ws, 1) = Fold(d, s1)
      /\ Written(d, ws, 2) = Fold(d, s2) /\ Written(d, ws, 3) = Fold(d, s3)
  BY <1>1
<1>. HIDE DEF s0, s1, s2, s3
<1>8. Fold(d, s0) = d
  BY <1>3, FoldThree
<1>9. Fold(d, s1) = Put(d, ws[1])
  BY <1>4, FoldThree
<1>10. Fold(d, s2) = Put(Put(d, ws[1]), ws[2])
  BY <1>5, FoldThree
<1>11. Fold(d, s3) = Put(Put(Put(d, ws[1]), ws[2]), ws[3])
  BY <1>6, FoldThree
<1>. QED  BY <1>7, <1>8, <1>9, <1>10, <1>11
--------------------------------------------------------------------------------
(* Messages, databases and the outcomes of a handler.                        *)

LEMMA MessageIs ==
  ASSUME NEW m \in Message
  PROVE  /\ m.type \in {"none", "config", "upload_edb", "token", "delete", "update"}
         /\ m.type = "none" => m = NoMsg
         /\ m.type = "upload_edb" => m.edb \in StoredEdb
         /\ m.type = "token" => m.tokens \in SUBSET Tokens
         /\ m.type \in {"delete", "update"} =>
              /\ m.tokens \in SUBSET Tokens
              /\ m.indices \in SUBSET Counter /\ m.cells \in SUBSET Addr
<1>1. CASE m \in [type : {"none", "config"}]
  BY <1>1 DEF NoMsg
<1>2. CASE m \in [type : {"upload_edb"}, edb : StoredEdb]
  BY <1>2
<1>3. CASE m \in [type : {"token"}, tokens : SUBSET Tokens]
  BY <1>3
<1>4. CASE m \in [type : {"delete", "update"}, tokens : SUBSET Tokens, indices : SUBSET Counter,
                  cells : SUBSET Addr]
  BY <1>4
<1>. QED  BY <1>1, <1>2, <1>3, <1>4 DEF Message

\* Every stored database is readable, and no other edb file is.
LEMMA ReadableIs ==
  ASSUME NEW edb \in StoredEdb \cup {NoEdb, TornEdb}
  PROVE  /\ Readable(edb) <=> edb \in StoredEdb
         /\ edb \in StoredEdb => edb # NoEdb /\ edb.gen \in Gens
<1>1. CASE edb \in StoredEdb
  BY <1>1, KeysAssumption DEF StoredEdb, EDB, Readable, NoEdb
<1>2. CASE edb \in {NoEdb, TornEdb}
  <2>1. edb.gen = 0
    BY <1>2 DEF NoEdb, TornEdb
  <2>2. edb \notin StoredEdb
    BY <2>1, KeysAssumption DEF StoredEdb, EDB
  <2>. QED  BY <2>1, <2>2 DEF Readable
<1>. QED  BY <1>1, <1>2

LEMMA SetIs ==
  ASSUME NEW edb \in StoredEdb, NEW S, NEW v \in {"absent", "cipher", "raw"}
  PROVE  /\ Set(edb, S, v) \in StoredEdb
         /\ \A a \in Addr : Set(edb, S, v).D[a] = IF a \in S THEN v ELSE edb.D[a]
BY DEF Set, StoredEdb, EDB

\* A new database has no gap: the counters of a keyword are filled from zero.
LEMMA SetupIs ==
  ASSUME NEW key \in Keys, NEW gen \in Gens
  PROVE  /\ EDBSetup(key, gen, PlainDB) \in StoredEdb
         /\ NoGap(EDBSetup(key, gen, PlainDB))
<1>. DEFINE E == EDBSetup(key, gen, PlainDB)
<1>1. E \in StoredEdb
  BY DEF EDBSetup, StoredEdb, EDB
<1>2. \A w \in Keyword, c \in Counter : E.D[<<w, c>>] # "absent" <=> c < PlainDB[w]
  BY DEF EDBSetup, Addr
<1>3. \A w \in Keyword, c \in Counter : PlainDB[w] \in Nat /\ c \in Nat /\ 0 .. c \subseteq Counter
  BY PlainDBAssumption, MaxIdsAssumption DEF Counter
<1>. HIDE DEF E
<1>4. ASSUME NEW w \in Keyword, NEW c \in Counter, E.D[<<w, c>>] # "absent", NEW d \in 0 .. c
      PROVE  E.D[<<w, d>>] # "absent"
  <2>1. c < PlainDB[w] /\ c \in Nat /\ PlainDB[w] \in Nat
    BY <1>2, <1>3, <1>4
  <2>2. d \in Counter /\ d < PlainDB[w]
    BY <1>3, <2>1
  <2>. QED  BY <1>2, <2>2
<1>5. NoGap(E)
  BY <1>4 DEF NoGap
<1>. QED  BY <1>1, <1>5 DEF E

\* Deleting all a token reaches, of a database without a gap, leaves none: the
\* token reached every ciphertext of its keyword.
LEMMA DeleteByTokenKeeps ==
  ASSUME NEW edb \in StoredEdb, NEW tk \in Tokens, NoGap(edb)
  PROVE  NoGap(DeleteByToken(edb, tk, {}))
<1>. DEFINE S == {a \in TokenAddresses(edb, tk) : {} = {} \/ a[2] \in {}}
            e == Set(edb, S, "absent")
<1>1. \A a \in Addr : e.D[a] = IF a \in S THEN "absent" ELSE edb.D[a]
  BY SetIs
<1>2. \A w \in Keyword, c \in Counter : <<w, c>> \in Addr
  BY DEF Addr
<1>3. \A c \in Counter : \A d \in 0 .. c : d \in Counter
  BY MaxIdsAssumption DEF Counter
<1>4. S = {<<tk.keyword, c>> : c \in Reached(edb, tk)}
  BY DEF TokenAddresses
<1>. HIDE DEF S, e
<1>5. ASSUME NEW w \in Keyword, NEW c \in Counter, e.D[<<w, c>>] # "absent", NEW d \in 0 .. c
      PROVE  e.D[<<w, d>>] # "absent"
  <2>1. edb.D[<<w, c>>] # "absent" /\ <<w, c>> \notin S
    BY <1>1, <1>2, <1>5
  <2>2. d \in Counter /\ edb.D[<<w, d>>] # "absent"
    BY <1>3, <2>1 DEF NoGap
  <2>3. \A x \in 0 .. c : edb.D[<<w, x>>] # "absent"
    BY <2>1 DEF NoGap
  <2>4. ~(w = tk.keyword /\ edb.key = tk.key)
    <3>1. SUFFICES ASSUME w = tk.keyword, edb.key = tk.key PROVE FALSE
      OBVIOUS
    <3>2. c \in Reached(edb, tk)
      BY <2>3, <3>1 DEF Reached
    <3>. QED  BY <1>4, <2>1, <3>1, <3>2
  <2>5. <<w, d>> \notin S
    BY <1>4, <2>4 DEF Reached
  <2>. QED  BY <1>1, <1>2, <2>2, <2>5
<1>6. NoGap(e)
  BY <1>5 DEF NoGap
<1>. QED  BY <1>6 DEF DeleteByToken, e, S

\* Replacing what is there, or nothing, makes no gap.
LEMMA ReplaceKeeps ==
  ASSUME NEW edb \in StoredEdb, NoGap(edb)
  PROVE  /\ \A tk \in Tokens : NoGap(UpdateByToken(edb, tk))
         /\ NoGap(DeleteAt(edb, {}))
<1>1. \A w \in Keyword, c \in Counter :
        <<w, c>> \in Addr /\ \A d \in 0 .. c : d \in Counter /\ <<w, d>> \in Addr
  BY MaxIdsAssumption DEF Counter, Addr
<1>2. ASSUME NEW tk \in Tokens PROVE NoGap(UpdateByToken(edb, tk))
  <2>. DEFINE S == TokenAddresses(edb, tk)
              e == Set(edb, S, "raw")
  <2>1. \A a \in Addr : e.D[a] = IF a \in S THEN "raw" ELSE edb.D[a]
    BY SetIs
  <2>2. \A a \in S : edb.D[a] # "absent"
    BY MaxIdsAssumption DEF TokenAddresses, Reached, Counter
  <2>. HIDE DEF S, e
  <2>3. \A a \in Addr : e.D[a] # "absent" <=> edb.D[a] # "absent"
    BY <2>1, <2>2
  <2>4. NoGap(e)
    BY <1>1, <2>3 DEF NoGap
  <2>. QED  BY <2>4 DEF UpdateByToken, e, S
<1>3. NoGap(DeleteAt(edb, {}))
  <2>. DEFINE e == Set(edb, {}, "absent")
  <2>1. \A a \in Addr : e.D[a] = edb.D[a]
    BY SetIs
  <2>. HIDE DEF e
  <2>2. NoGap(e)
    BY <1>1, <2>1 DEF NoGap
  <2>. QED  BY <2>2 DEF DeleteAt, e
<1>. QED  BY <1>2, <1>3

\* The kinds of outcome a handler has.
NothingDone(o, snap, m) ==
  o.writes = <<>> /\ o.state = snap /\ (o.reply = "ok" => m.type # "upload_edb")

ConfigDone(o, m) ==
  /\ m.type = "config" /\ o.state = "config_uploaded"
  /\ o.writes = <<W("folder", TRUE), W("config", "ok"), W("meta", "config_uploaded")>>

DatabaseDone(o, snap, m) ==
  /\ m.type = "upload_edb" /\ snap # "not_exists" /\ o.state = "all_ready"
  /\ o.writes = <<W("edb", m.edb), W("meta", "all_ready")>>

ChangeDone(o, snap, d, m) ==
  /\ m.type \in {"delete", "update"} /\ snap = "all_ready" /\ o.state = snap
  /\ \E e \in StoredEdb :
       /\ o.writes = <<W("edb", e)>>
       /\ Readable(d.edb) /\ (NoGap(d.edb) /\ ~ByPosition(m) => NoGap(e))

LEMMA OutcomeIs ==
  ASSUME NEW snap \in States, NEW d \in Disk, NEW m \in Message, m.type # "none",
         NEW o \in Outcomes(snap, d, m)
  PROVE  /\ o.state \in States /\ o.reply \in {"none", "ok", "refused"} /\ o.raises \in BOOLEAN
         /\ \/ NothingDone(o, snap, m)
            \/ ConfigDone(o, m)
            \/ DatabaseDone(o, snap, m)
            \/ ChangeDone(o, snap, d, m)
<1>. USE DEF Does
<1>1. CASE m.type = "config"
  <2>1. Outcomes(snap, d, m) = HandleUploadConfig
    BY <1>1 DEF Outcomes
  <2>2. o = Does("config_uploaded",
                 <<W("folder", TRUE), W("config", "ok"), W("meta", "config_uploaded")>>, "ok", FALSE)
    BY <2>1 DEF HandleUploadConfig
  <2>3. o.state = "config_uploaded" /\ o.reply = "ok" /\ o.raises = FALSE
    BY <2>2
  <2>4. o.writes = <<W("folder", TRUE), W("config", "ok"), W("meta", "config_uploaded")>>
    BY <2>2
  <2>. QED  BY <1>1, <2>3, <2>4 DEF ConfigDone, States
<1>. DEFINE nothing(reply, raises) == Does(snap, <<>>, reply, raises)
<1>2. ASSUME NEW reply \in {"none", "ok", "refused"}, NEW raises \in BOOLEAN,
             o = nothing(reply, raises), reply = "ok" => m.type # "upload_edb"
      PROVE  /\ o.state \in States /\ o.reply \in {"none", "ok", "refused"} /\ o.raises \in BOOLEAN
             /\ NothingDone(o, snap, m)
  BY <1>2 DEF NothingDone
<1>3. CASE m.type = "upload_edb"
  <2>1. Outcomes(snap, d, m) = HandleUploadEncryptedDatabase(snap, m)
    BY <1>3 DEF Outcomes
  <2>2. CASE snap = "not_exists"
    BY <1>2, <2>1, <2>2 DEF HandleUploadEncryptedDatabase, Refuse
  <2>3. CASE snap # "not_exists"
    <3>1. o = Does("all_ready", <<W("edb", m.edb), W("meta", "all_ready")>>, "ok", FALSE)
      BY <2>1, <2>3 DEF HandleUploadEncryptedDatabase
    <3>2. o.state = "all_ready" /\ o.reply = "ok" /\ o.raises = FALSE
      BY <3>1
    <3>3. o.writes = <<W("edb", m.edb), W("meta", "all_ready")>>
      BY <3>1
    <3>. QED  BY <1>3, <2>3, <3>2, <3>3 DEF DatabaseDone, States
  <2>. QED  BY <2>2, <2>3
<1>8. CASE m.type = "token"
  <2>1. Outcomes(snap, d, m) = HandleSearchToken(snap, d.edb, m)
    BY <1>8 DEF Outcomes
  <2>2. o \in {nothing("refused", TRUE), nothing("none", TRUE), nothing("ok", FALSE)}
    BY <2>1 DEF HandleSearchToken, Refuse, Raise
  <2>. HIDE DEF nothing
  <2>. QED  BY <1>2, <1>8, <2>2
<1>4. CASE m.type \in {"delete", "update"} /\ (snap # "all_ready" \/ ~Readable(d.edb))
  <2>1. \/ Outcomes(snap, d, m) = HandleDeleteData(snap, d.edb, m)
        \/ Outcomes(snap, d, m) = HandleUpdateData(snap, d.edb, m)
    BY <1>4 DEF Outcomes
  <2>2. o \in {nothing("refused", TRUE), nothing("none", TRUE)}
    BY <1>4, <2>1 DEF HandleDeleteData, HandleUpdateData, Refuse, Raise
  <2>. HIDE DEF nothing
  <2>. QED  BY <1>2, <2>2
<1>5. ASSUME snap = "all_ready", Readable(d.edb), NEW e \in StoredEdb, m.type \in {"delete", "update"},
             o = Does(snap, <<W("edb", e)>>, "ok", FALSE),
             NoGap(d.edb) /\ ~ByPosition(m) => NoGap(e)
      PROVE  /\ o.state \in States /\ o.reply \in {"none", "ok", "refused"} /\ o.raises \in BOOLEAN
             /\ ChangeDone(o, snap, d, m)
  BY <1>5 DEF ChangeDone, States
<1>6. CASE m.type = "delete" /\ snap = "all_ready" /\ Readable(d.edb)
  <2>1. d.edb \in StoredEdb /\ m.tokens \in SUBSET Tokens
    BY <1>6, ReadableIs, MessageIs DEF Disk
  <2>4. CASE o = nothing("refused", FALSE)
    BY <1>2, <2>4
  <2>2. CASE m.tokens # {} /\ o # nothing("refused", FALSE)
    <3>1. PICK tk \in m.tokens :
            o = Does(snap, <<W("edb", DeleteByToken(d.edb, tk, m.indices))>>, "ok", FALSE)
      BY <1>6, <2>2 DEF Outcomes, HandleDeleteData
    <3>2. DeleteByToken(d.edb, tk, m.indices) \in StoredEdb
      BY <2>1, SetIs DEF DeleteByToken
    <3>3. NoGap(d.edb) /\ ~ByPosition(m) => NoGap(DeleteByToken(d.edb, tk, m.indices))
      BY <1>6, <2>1, DeleteByTokenKeeps DEF ByPosition
    <3>. QED  BY <1>5, <1>6, <3>1, <3>2, <3>3
  <2>3. CASE m.tokens = {} /\ o # nothing("refused", FALSE)
    <3>1. o = Does(snap, <<W("edb", DeleteAt(d.edb, m.cells \cap Present(d.edb)))>>, "ok", FALSE)
      BY <1>6, <2>3 DEF Outcomes, HandleDeleteData
    <3>2. DeleteAt(d.edb, m.cells \cap Present(d.edb)) \in StoredEdb
      BY <2>1, SetIs DEF DeleteAt
    <3>3. ~ByPosition(m) => m.cells \cap Present(d.edb) = {}
      BY <1>6 DEF ByPosition
    <3>4. NoGap(d.edb) /\ ~ByPosition(m) => NoGap(DeleteAt(d.edb, m.cells \cap Present(d.edb)))
      BY <2>1, <3>3, ReplaceKeeps
    <3>. QED  BY <1>5, <1>6, <3>1, <3>2, <3>4
  <2>. QED  BY <2>2, <2>3, <2>4
<1>7. CASE m.type = "update" /\ snap = "all_ready" /\ Readable(d.edb)
  <2>1. d.edb \in StoredEdb /\ m.tokens \in SUBSET Tokens
    BY <1>7, ReadableIs, MessageIs DEF Disk
  <2>4. CASE o = nothing("refused", FALSE)
    BY <1>2, <2>4
  <2>2. CASE m.tokens # {} /\ o # nothing("refused", FALSE)
    <3>1. PICK e \in {d.edb} \cup {UpdateByToken(d.edb, tk) : tk \in m.tokens} :
            o = Does(snap, <<W("edb", e)>>, "ok", FALSE)
      BY <1>7, <2>2 DEF Outcomes, HandleUpdateData
    <3>2. e \in StoredEdb /\ (NoGap(d.edb) => NoGap(e))
      <4>1. CASE e = d.edb
        BY <2>1, <4>1
      <4>2. CASE \E tk \in m.tokens : e = UpdateByToken(d.edb, tk)
        <5>1. PICK tk \in m.tokens : e = UpdateByToken(d.edb, tk)
          BY <4>2
        <5>2. UpdateByToken(d.edb, tk) \in StoredEdb
          BY <2>1, SetIs DEF UpdateByToken
        <5>3. NoGap(d.edb) => NoGap(UpdateByToken(d.edb, tk))
          BY <2>1, ReplaceKeeps
        <5>. QED  BY <5>1, <5>2, <5>3
      <4>. QED  BY <3>1, <4>1, <4>2
    <3>. QED  BY <1>5, <1>7, <3>1, <3>2
  <2>3. CASE m.tokens = {} /\ m.cells # {} /\ o # nothing("refused", FALSE)
    <3>1. o = Does(snap, <<W("edb", UpdateEntries(d.edb, m.cells))>>, "ok", FALSE)
      BY <1>7, <2>3 DEF Outcomes, HandleUpdateData
    <3>2. UpdateEntries(d.edb, m.cells) \in StoredEdb
      BY <2>1, SetIs DEF UpdateEntries
    <3>3. ByPosition(m)
      BY <1>7, <2>3 DEF ByPosition
    <3>. QED  BY <1>5, <1>7, <3>1, <3>2, <3>3
  <2>5. CASE m.tokens = {} /\ m.cells = {}
    BY <1>7, <2>4, <2>5 DEF Outcomes, HandleUpdateData
  <2>. QED  BY <2>2, <2>3, <2>4, <2>5
<1>. QED  BY <1>1, <1>3, <1>4, <1>6, <1>7, <1>8, MessageIs

\* A handler writes at most three files.
LEMMA LengthIs ==
  ASSUME NEW snap \in States, NEW d \in Disk, NEW m \in Message, m.type # "none",
         NEW o \in Outcomes(snap, d, m)
  PROVE  Len(o.writes) \in Nat
<1>1. CASE NothingDone(o, snap, m)
  BY <1>1 DEF NothingDone
<1>2. CASE ConfigDone(o, m)
  <2>1. Len(o.writes) = 3
    BY <1>2 DEF ConfigDone
  <2>. QED  BY <2>1
<1>3. CASE DatabaseDone(o, snap, m)
  <2>1. Len(o.writes) = 2
    BY <1>3 DEF DatabaseDone
  <2>. QED  BY <2>1
<1>4. CASE ChangeDone(o, snap, d, m)
  <2>1. Len(o.writes) = 1
    BY <1>4 DEF ChangeDone
  <2>. QED  BY <2>1
<1>. QED  BY <1>1, <1>2, <1>3, <1>4, OutcomeIs
--------------------------------------------------------------------------------
(* What a handler does to the files and the history, whole or cut short.     *)

LEMMA PutFolder ==
  ASSUME NEW d \in Disk
  PROVE  Put(d, W("folder", TRUE)) = [d EXCEPT !.folder = TRUE]
BY DEF Put, W

LEMMA PutConfig ==
  ASSUME NEW d \in Disk, d.folder, NEW v
  PROVE  Put(d, W("config", v)) = [d EXCEPT !.config = v]
BY DEF Put, W

LEMMA PutMeta ==
  ASSUME NEW d \in Disk, NEW v
  PROVE  Put(d, W("meta", v)) = IF d.folder THEN [d EXCEPT !.meta = v] ELSE d
BY DEF Put, W

LEMMA PutEdb ==
  ASSUME NEW d \in Disk, d.folder, NEW v
  PROVE  Put(d, W("edb", v)) = [d EXCEPT !.edb = v]
BY DEF Put, W

LEMMA TearFolder ==
  ASSUME NEW d, NEW w, w = W("folder", TRUE)
  PROVE  Tear(d, w) = d
BY DEF Tear, W

LEMMA TearConfig ==
  ASSUME NEW d \in Disk, d.folder, NEW v
  PROVE  Tear(d, W("config", v)) = [d EXCEPT !.config = "torn"]
<1>1. W("config", v).file = "config"
  BY DEF W
<1>2. Tear(d, W("config", v)) = Put(d, W("config", "torn"))
  BY <1>1 DEF Tear
<1>. QED  BY <1>2, PutConfig

LEMMA TearMeta ==
  ASSUME NEW d \in Disk, NEW v
  PROVE  Tear(d, W("meta", v)) = IF d.folder THEN [d EXCEPT !.meta = "torn"] ELSE d
<1>1. W("meta", v).file = "meta"
  BY DEF W
<1>2. Tear(d, W("meta", v)) = Put(d, W("meta", "torn"))
  BY <1>1 DEF Tear
<1>. QED  BY <1>2, PutMeta

LEMMA TearEdb ==
  ASSUME NEW d \in Disk, d.folder, NEW v
  PROVE  Tear(d, W("edb", v)) = [d EXCEPT !.edb = TornEdb]
<1>1. W("edb", v).file = "edb"
  BY DEF W
<1>2. Tear(d, W("edb", v)) = Put(d, W("edb", TornEdb))
  BY <1>1 DEF Tear
<1>. QED  BY <1>2, PutEdb

\* The three ways a handler leaves the state file, d and h being the files and
\* the history after it: as it was, torn, or with a new state whose other file is
\* in place.
Unannounced(d, h) ==
  /\ d.meta = disk.meta /\ h.reached = hist.reached
  /\ \/ d.folder = disk.folder /\ d.config = disk.config
     \/ {"config", "meta"} \cap h.cut # {}

Lost(d, h) == d.meta = "torn" /\ "meta" \in h.cut

ConfigStored(d, h) ==
  /\ d.folder /\ d.config = "ok" /\ d.meta = "config_uploaded" /\ d.edb = disk.edb
  /\ h.reached = "config_uploaded"

Filled(d, edb)    == [d EXCEPT !.edb = edb]
MadeReady(d, edb) == [d EXCEPT !.edb = edb, !.meta = "all_ready"]

DatabaseStored(m, d, h) ==
  /\ m.type = "upload_edb" /\ d = MadeReady(disk, m.edb)
  /\ h.reached = "all_ready" /\ m.edb.gen \in h.stored

FileStep(m, d, h) ==
  /\ d \in Disk /\ h \in History
  /\ h.overlapped = hist.overlapped /\ h.crowded = hist.crowded
  /\ (h.gapped <=> hist.gapped \/ ByPosition(m))
  /\ hist.cut \subseteq h.cut /\ hist.torn \subseteq h.torn /\ hist.stored \subseteq h.stored
  /\ hist.torn \subseteq hist.cut => h.torn \subseteq h.cut
  /\ disk.folder => d.folder
  /\ d.config \in {disk.config, "ok"} \/ "config" \in h.torn
  /\ \/ d.edb = disk.edb
     \/ ~Readable(d.edb) /\ "edb" \in h.torn
     \/ m.type = "upload_edb" /\ d.edb = m.edb /\ Readable(d.edb)
     \/ Readable(d.edb) /\ Readable(disk.edb) /\ (NoGap(disk.edb) /\ ~ByPosition(m) => NoGap(d.edb))
  /\ Unannounced(d, h) \/ Lost(d, h) \/ ConfigStored(d, h) \/ DatabaseStored(m, d, h)

\* What a write of the state file that stopped left, when it was to store state s.
Prepared(s, m, d, h) ==
  /\ "meta" \in h.cut /\ d.folder
  /\ \/ s = "config_uploaded" /\ d.config = "ok"
     \/ s = "all_ready" /\ m.type = "upload_edb" /\ Readable(d.edb)

\* The history of a handler that wrote the first n of its files, of one stopped
\* before the next and of one stopped inside it.
Cut(h, file, tears) ==
  [h EXCEPT !.cut = @ \cup {file}, !.torn = IF tears THEN @ \cup {file} ELSE @]

Past(reached, stored, m) ==
  [hist EXCEPT !.reached = reached, !.stored = stored, !.gapped = @ \/ ByPosition(m)]

LEMMA PastIs ==
  ASSUME ServerTyped, NEW m, NEW r, NEW s
  PROVE  LET h == Past(r, s, m) IN
         /\ r \in States /\ s \in SUBSET Gens => h \in History
         /\ h.overlapped = hist.overlapped /\ h.crowded = hist.crowded
         /\ h.cut = hist.cut /\ h.torn = hist.torn
         /\ (h.gapped <=> hist.gapped \/ ByPosition(m))
         /\ h.reached = r /\ h.stored = s
<1>1. hist \in History
  BY DEF ServerTyped
<1>3. ByPosition(m) \in BOOLEAN
  BY DEF ByPosition
<1>. QED  BY <1>1, <1>3 DEF Past, History

LEMMA CutIs ==
  ASSUME NEW h \in History, NEW f \in Files, NEW t \in BOOLEAN
  PROVE  LET x == Cut(h, f, t) IN
         /\ x \in History
         /\ x.overlapped = h.overlapped /\ x.crowded = h.crowded /\ x.gapped = h.gapped
         /\ x.stored = h.stored /\ x.reached = h.reached
         /\ x.cut = h.cut \cup {f} /\ x.torn = IF t THEN h.torn \cup {f} ELSE h.torn
BY DEF Cut, History

\* The files after each number of writes, by the kind of outcome.
LEMMA ConfigWrites ==
  ASSUME NEW d \in Disk, NEW o, NEW m, ConfigDone(o, m)
  PROVE  LET d1 == [d EXCEPT !.folder = TRUE]
             d2 == [d EXCEPT !.folder = TRUE, !.config = "ok"]
             d3 == [d EXCEPT !.folder = TRUE, !.config = "ok", !.meta = "config_uploaded"]
         IN /\ Len(o.writes) = 3
            /\ o.writes[1].file = "folder" /\ o.writes[2].file = "config" /\ o.writes[3].file = "meta"
            /\ Written(d, o.writes, 0) = d /\ Written(d, o.writes, 1) = d1
            /\ Written(d, o.writes, 2) = d2 /\ Written(d, o.writes, 3) = d3
            /\ Tear(d, o.writes[1]) = d
            /\ Tear(d1, o.writes[2]) = [d1 EXCEPT !.config = "torn"]
            /\ Tear(d2, o.writes[3]) = [d2 EXCEPT !.meta = "torn"]
<1>. DEFINE ws == o.writes
            d1 == [d EXCEPT !.folder = TRUE]
            d2 == [d EXCEPT !.folder = TRUE, !.config = "ok"]
            d3 == [d EXCEPT !.folder = TRUE, !.config = "ok", !.meta = "config_uploaded"]
<1>1. ws = <<W("folder", TRUE), W("config", "ok"), W("meta", "config_uploaded")>>
  BY DEF ConfigDone
<1>2. /\ Len(ws) = 3 /\ ws[1] = W("folder", TRUE) /\ ws[2] = W("config", "ok")
      /\ ws[3] = W("meta", "config_uploaded")
  BY <1>1
<1>3. d1 \in Disk /\ d2 \in Disk /\ d1.folder /\ d2.folder
  BY DEF Disk
<1>4. d2 = [d1 EXCEPT !.config = "ok"] /\ d3 = [d2 EXCEPT !.meta = "config_uploaded"]
  BY DEF Disk
<1>. HIDE DEF ws
<1>5. /\ Written(d, ws, 0) = d /\ Written(d, ws, 1) = Put(d, ws[1])
      /\ Written(d, ws, 2) = Put(Put(d, ws[1]), ws[2])
      /\ Written(d, ws, 3) = Put(Put(Put(d, ws[1]), ws[2]), ws[3])
  BY WrittenIs
<1>6. Put(d, ws[1]) = d1
  BY <1>2, PutFolder
<1>. HIDE DEF d1, d2, d3
<1>7. Put(d1, ws[2]) = d2 /\ Put(d2, ws[3]) = d3
  <2>1. Put(d1, W("config", "ok")) = [d1 EXCEPT !.config = "ok"]
    BY <1>3, PutConfig
  <2>2. Put(d2, W("meta", "config_uploaded")) = [d2 EXCEPT !.meta = "config_uploaded"]
    BY <1>3, PutMeta
  <2>. QED  BY <1>2, <1>4, <2>1, <2>2
<1>8. /\ Tear(d, ws[1]) = d /\ Tear(d1, ws[2]) = [d1 EXCEPT !.config = "torn"]
      /\ Tear(d2, ws[3]) = [d2 EXCEPT !.meta = "torn"]
  <2>1. Tear(d1, W("config", "ok")) = [d1 EXCEPT !.config = "torn"]
    BY <1>3, TearConfig
  <2>2. Tear(d2, W("meta", "config_uploaded")) = [d2 EXCEPT !.meta = "torn"]
    BY <1>3, TearMeta
  <2>. QED  BY <1>2, <2>1, <2>2, TearFolder
<1>9. ws[1].file = "folder" /\ ws[2].file = "config" /\ ws[3].file = "meta"
  BY <1>2 DEF W
<1>. QED  BY <1>2, <1>5, <1>6, <1>7, <1>8, <1>9 DEF ws, d1, d2, d3

LEMMA DatabaseWrites ==
  ASSUME NEW d \in Disk, NEW o, NEW e \in StoredEdb, d.folder,
         o.writes = <<W("edb", e), W("meta", "all_ready")>>
  PROVE  /\ Len(o.writes) = 2 /\ o.writes[1].file = "edb" /\ o.writes[2].file = "meta"
         /\ Written(d, o.writes, 0) = d /\ Written(d, o.writes, 1) = Filled(d, e)
         /\ Written(d, o.writes, 2) = MadeReady(d, e)
<1>. DEFINE ws == o.writes
<1>2. Len(ws) = 2 /\ ws[1] = W("edb", e) /\ ws[2] = W("meta", "all_ready")
  OBVIOUS
<1>3. Filled(d, e) \in Disk /\ Filled(d, e).folder
  BY DEF Disk, Filled
<1>4. MadeReady(d, e) = [Filled(d, e) EXCEPT !.meta = "all_ready"]
  BY DEF Disk, Filled, MadeReady
<1>. HIDE DEF ws
<1>5. /\ Written(d, ws, 0) = d /\ Written(d, ws, 1) = Put(d, ws[1])
      /\ Written(d, ws, 2) = Put(Put(d, ws[1]), ws[2])
  BY WrittenIs
<1>6. Put(d, ws[1]) = Filled(d, e)
  BY <1>2, PutEdb DEF Filled
<1>7. Put(Filled(d, e), ws[2]) = MadeReady(d, e)
  BY <1>2, <1>3, <1>4, PutMeta
<1>9. ws[1].file = "edb" /\ ws[2].file = "meta"
  BY <1>2 DEF W
<1>. QED  BY <1>2, <1>5, <1>6, <1>7, <1>9 DEF ws

LEMMA ChangeWrites ==
  ASSUME NEW d \in Disk, NEW o, NEW e, o.writes = <<W("edb", e)>>, d.folder
  PROVE  /\ Len(o.writes) = 1 /\ o.writes[1].file = "edb"
         /\ Written(d, o.writes, 0) = d /\ Written(d, o.writes, 1) = [d EXCEPT !.edb = e]
         /\ Tear(d, o.writes[1]) = [d EXCEPT !.edb = TornEdb]
<1>1. Len(o.writes) = 1 /\ o.writes[1] = W("edb", e)
  OBVIOUS
<1>2. Written(d, o.writes, 0) = d /\ Written(d, o.writes, 1) = Put(d, o.writes[1])
  BY WrittenIs
<1>3. o.writes[1].file = "edb"
  BY <1>1 DEF W
<1>4. Written(d, o.writes, 1) = [d EXCEPT !.edb = e] /\ Tear(d, o.writes[1]) = [d EXCEPT !.edb = TornEdb]
  BY <1>1, <1>2, PutEdb, TearEdb
<1>. QED  BY <1>1, <1>2, <1>3, <1>4

FolderUnder(c) == conn[c].snap # "not_exists" => disk.folder

\* What a handler that ran to its end left, and with which state.
HandledTo(o, snap, m, d, h) ==
  /\ FileStep(m, d, h)
  /\ h.cut = hist.cut /\ h.torn = hist.torn
  /\ \/ /\ o.state = snap /\ h.reached = hist.reached
        /\ d = [disk EXCEPT !.edb = d.edb]
        /\ o.reply = "ok" => m.type # "upload_edb"
     \/ m.type = "config" /\ o.state = "config_uploaded" /\ ConfigStored(d, h)
     \/ o.state = "all_ready" /\ snap # "not_exists" /\ DatabaseStored(m, d, h)

LEMMA WholeIs ==
  ASSUME ServerTyped, NEW snap \in States, NEW m \in Message, m.type # "none",
         snap # "not_exists" => disk.folder, NEW o \in Outcomes(snap, disk, m),
         NEW d, d = Written(disk, o.writes, Len(o.writes)),
         NEW h, h = Noted(o, Len(o.writes), m)
  PROVE  /\ HandledTo(o, snap, m, d, h)
         /\ o.state \in States /\ o.reply \in {"none", "ok", "refused"} /\ o.raises \in BOOLEAN
<1>1. disk \in Disk /\ hist \in History
  BY DEF ServerTyped
<1>4. hist.reached \in States /\ hist.stored \in SUBSET Gens
  BY <1>1 DEF History
<1>5. LET x == Past(hist.reached, hist.stored, m) IN
      /\ x \in History /\ x.overlapped = hist.overlapped /\ x.crowded = hist.crowded
      /\ x.cut = hist.cut /\ x.torn = hist.torn
      /\ (x.gapped <=> hist.gapped \/ ByPosition(m))
      /\ x.reached = hist.reached /\ x.stored = hist.stored
  BY <1>4, PastIs
<1>3. d = Written(disk, o.writes, Len(o.writes)) /\ h = Noted(o, Len(o.writes), m)
  OBVIOUS
<1>2. /\ o.state \in States /\ o.reply \in {"none", "ok", "refused"} /\ o.raises \in BOOLEAN
      /\ \/ NothingDone(o, snap, m)
         \/ ConfigDone(o, m)
         \/ DatabaseDone(o, snap, m)
         \/ ChangeDone(o, snap, disk, m)
  BY <1>1, OutcomeIs
<1>6. CASE NothingDone(o, snap, m)
  <2>1. Len(o.writes) = 0 /\ o.state = snap /\ (o.reply = "ok" => m.type # "upload_edb")
    BY <1>6 DEF NothingDone
  <2>2. d = disk
    BY <1>3, <2>1, WrittenIs
  <2>5. h = Past(hist.reached, hist.stored, m)
    <3>1. {} = {o.writes[i].file : i \in 1 .. 0} /\ h = Noted(o, 0, m)
      BY <1>3, <2>1
    <3>. QED  BY <1>1, <3>1 DEF Noted, Past, History
  <2>3. /\ h \in History /\ h.overlapped = hist.overlapped /\ h.crowded = hist.crowded
        /\ h.cut = hist.cut /\ h.torn = hist.torn
        /\ (h.gapped <=> hist.gapped \/ ByPosition(m))
        /\ h.reached = hist.reached /\ h.stored = hist.stored
    BY <1>5, <2>5
  <2>4. FileStep(m, d, h)
    BY <1>1, <2>2, <2>3 DEF FileStep, Unannounced
  <2>. QED  BY <1>1, <1>2, <2>1, <2>2, <2>3, <2>4 DEF HandledTo, Disk
<1>7. CASE ConfigDone(o, m)
  <2>1. /\ Len(o.writes) = 3
        /\ o.writes[1].file = "folder" /\ o.writes[2].file = "config" /\ o.writes[3].file = "meta"
        /\ Written(disk, o.writes, 3)
           = [disk EXCEPT !.folder = TRUE, !.config = "ok", !.meta = "config_uploaded"]
    BY <1>1, <1>7, ConfigWrites
  <2>8. d = [disk EXCEPT !.folder = TRUE, !.config = "ok", !.meta = "config_uploaded"]
    BY <1>3, <2>1
  <2>3. m.type = "config" /\ o.state = "config_uploaded"
    BY <1>7 DEF ConfigDone
  <2>2. h = Past("config_uploaded", hist.stored, m)
    <3>1. {o.writes[i].file : i \in 1 .. 3} = {"folder", "config", "meta"} /\ h = Noted(o, 3, m)
      BY <1>3, <2>1
    <3>. QED  BY <1>1, <2>3, <3>1 DEF Noted, Past, History
  <2>4. /\ h \in History /\ h.overlapped = hist.overlapped /\ h.crowded = hist.crowded
        /\ h.cut = hist.cut /\ h.torn = hist.torn
        /\ (h.gapped <=> hist.gapped \/ ByPosition(m))
        /\ h.reached = "config_uploaded" /\ h.stored = hist.stored
    BY <1>1, <2>2, PastIs DEF History, States
  <2>5. /\ d \in Disk /\ d.folder /\ d.config = "ok" /\ d.meta = "config_uploaded"
        /\ d.edb = disk.edb
    BY <1>1, <2>8 DEF Disk, States
  <2>6. ConfigStored(d, h)
    BY <2>4, <2>5 DEF ConfigStored
  <2>7. FileStep(m, d, h)
    BY <2>4, <2>5, <2>6 DEF FileStep
  <2>. QED  BY <1>1, <1>2, <2>3, <2>4, <2>6, <2>7 DEF HandledTo
<1>8. CASE DatabaseDone(o, snap, m)
  <2>1. m.type = "upload_edb" /\ snap # "not_exists" /\ o.state = "all_ready" /\ m.edb \in StoredEdb
    BY <1>1, <1>8, MessageIs DEF DatabaseDone
  <2>2. /\ Len(o.writes) = 2 /\ o.writes[1].file = "edb" /\ o.writes[2].file = "meta"
        /\ Written(disk, o.writes, 2) = MadeReady(disk, m.edb)
    <3>1. disk.folder
      BY <2>1
    <3>2. PICK e \in StoredEdb : e = m.edb
      BY <2>1
    <3>3. o.writes = <<W("edb", e), W("meta", "all_ready")>>
      BY <1>8, <3>2 DEF DatabaseDone
    <3>4. /\ Len(o.writes) = 2 /\ o.writes[1].file = "edb" /\ o.writes[2].file = "meta"
          /\ Written(disk, o.writes, 2) = MadeReady(disk, e)
      BY <1>1, <3>1, <3>3, DatabaseWrites
    <3>. QED  BY <3>2, <3>4
  <2>9. d = MadeReady(disk, m.edb)
    BY <1>3, <2>2
  <2>3. h = Past("all_ready", hist.stored \cup {m.edb.gen}, m)
    <3>1. {o.writes[i].file : i \in 1 .. 2} = {"edb", "meta"} /\ h = Noted(o, 2, m)
      BY <1>3, <2>2
    <3>. QED  BY <1>1, <2>1, <3>1 DEF Noted, Past, History
  <2>4. /\ h \in History /\ h.overlapped = hist.overlapped /\ h.crowded = hist.crowded
        /\ h.cut = hist.cut /\ h.torn = hist.torn
        /\ (h.gapped <=> hist.gapped \/ ByPosition(m))
        /\ h.reached = "all_ready" /\ h.stored = hist.stored \cup {m.edb.gen}
    <3>1. hist.stored \cup {m.edb.gen} \in SUBSET Gens /\ "all_ready" \in States
      BY <1>4, <2>1, ReadableIs DEF States
    <3>. QED  BY <2>3, <3>1, PastIs
  <2>5. /\ d \in Disk /\ d.folder = disk.folder /\ d.config = disk.config
        /\ d.edb = m.edb
    BY <1>1, <2>1, <2>9 DEF Disk, States, MadeReady
  <2>6. DatabaseStored(m, d, h)
    BY <2>1, <2>4, <2>9 DEF DatabaseStored
  <2>7. Readable(d.edb)
    BY <2>1, <2>5, ReadableIs
  <2>8. FileStep(m, d, h)
    BY <2>1, <2>4, <2>5, <2>6, <2>7 DEF FileStep
  <2>. QED  BY <1>1, <1>2, <2>1, <2>4, <2>6, <2>8 DEF HandledTo
<1>9. CASE ChangeDone(o, snap, disk, m)
  <2>1. /\ m.type \in {"delete", "update"} /\ snap = "all_ready" /\ o.state = snap
    BY <1>9 DEF ChangeDone
  <2>2. PICK e \in StoredEdb :
          /\ o.writes = <<W("edb", e)>>
          /\ Readable(disk.edb) /\ (NoGap(disk.edb) /\ ~ByPosition(m) => NoGap(e))
    BY <1>9 DEF ChangeDone
  <2>3. Len(o.writes) = 1 /\ o.writes[1].file = "edb" /\ d = [disk EXCEPT !.edb = e]
    BY <1>1, <1>3, <2>1, <2>2, ChangeWrites
  <2>4. h = Past(hist.reached, hist.stored, m)
    <3>1. {o.writes[i].file : i \in 1 .. 1} = {"edb"} /\ h = Noted(o, 1, m)
      BY <1>3, <2>3
    <3>. QED  BY <1>1, <2>1, <3>1 DEF Noted, Past, History
  <2>5. /\ h \in History /\ h.overlapped = hist.overlapped /\ h.crowded = hist.crowded
        /\ h.cut = hist.cut /\ h.torn = hist.torn
        /\ (h.gapped <=> hist.gapped \/ ByPosition(m))
        /\ h.reached = hist.reached /\ h.stored = hist.stored
    BY <1>5, <2>4
  <2>6. /\ d \in Disk /\ d.folder = disk.folder /\ d.config = disk.config
        /\ d.meta = disk.meta /\ d.edb = e
    BY <1>1, <2>3 DEF Disk
  <2>7. Readable(e)
    BY ReadableIs
  <2>8. FileStep(m, d, h)
    BY <2>1, <2>2, <2>5, <2>6, <2>7 DEF FileStep, Unannounced
  <2>. QED  BY <1>1, <1>2, <2>1, <2>3, <2>5, <2>6, <2>8 DEF HandledTo
<1>. QED  BY <1>2, <1>6, <1>7, <1>8, <1>9

\* A handler stopped before its write n + 1, or inside it.
Kept(r, s) == r \in States /\ s \subseteq Gens /\ hist.stored \subseteq s

CutFrom(h, m, r, f, t) ==
  /\ h \in History
  /\ h.overlapped = hist.overlapped /\ h.crowded = hist.crowded
  /\ (h.gapped <=> hist.gapped \/ ByPosition(m))
  /\ h.reached = r /\ hist.stored \subseteq h.stored
  /\ hist.cut \subseteq h.cut /\ hist.torn \subseteq h.torn /\ f \in h.cut
  /\ t => f \in h.torn
  /\ hist.torn \subseteq hist.cut => h.torn \subseteq h.cut

LEMMA CutPastIs ==
  ASSUME ServerTyped, NEW m, NEW r, NEW s, Kept(r, s), NEW f \in Files, NEW t \in BOOLEAN
  PROVE  CutFrom(Cut(Past(r, s, m), f, t), m, r, f, t)
<1>1. hist \in History
  BY DEF ServerTyped
<1>2. ByPosition(m) \in BOOLEAN
  BY DEF ByPosition
<1>. DEFINE x == Past(r, s, m)
<1>3. /\ x \in History /\ x.overlapped = hist.overlapped /\ x.crowded = hist.crowded
      /\ x.cut = hist.cut /\ x.torn = hist.torn
      /\ (x.gapped <=> hist.gapped \/ ByPosition(m))
      /\ x.reached = r /\ x.stored = s
  BY <1>1, <1>2 DEF Past, History, Kept
<1>. HIDE DEF x
<1>. DEFINE h == Cut(x, f, t)
<1>4. /\ h \in History
      /\ h.overlapped = x.overlapped /\ h.crowded = x.crowded /\ h.gapped = x.gapped
      /\ h.stored = x.stored /\ h.reached = x.reached
      /\ h.cut = x.cut \cup {f} /\ h.torn = IF t THEN x.torn \cup {f} ELSE x.torn
  BY <1>3 DEF Cut, History
<1>. HIDE DEF h
<1>5. hist.torn \subseteq hist.cut => h.torn \subseteq h.cut
  BY <1>3, <1>4
<1>6. /\ h \in History
      /\ h.overlapped = hist.overlapped /\ h.crowded = hist.crowded
      /\ (h.gapped <=> hist.gapped \/ ByPosition(m))
      /\ h.reached = r /\ hist.stored \subseteq h.stored
      /\ hist.cut \subseteq h.cut /\ hist.torn \subseteq h.torn /\ f \in h.cut
      /\ t => f \in h.torn
  BY <1>3, <1>4 DEF Kept
<1>. QED  BY <1>5, <1>6 DEF h, x, CutFrom

LEMMA CutShortIs ==
  ASSUME ServerTyped, NEW snap \in States, NEW m \in Message, m.type # "none",
         snap # "not_exists" => disk.folder, NEW o \in Outcomes(snap, disk, m),
         NEW n \in 0 .. Len(o.writes), n # Len(o.writes), NEW tears \in BOOLEAN,
         NEW e, e = Written(disk, o.writes, n),
         NEW d, d = IF tears THEN Tear(e, o.writes[n + 1]) ELSE e,
         NEW h, h = Cut(Noted(o, n, m), o.writes[n + 1].file, tears)
  PROVE  /\ FileStep(m, d, h) /\ (Unannounced(d, h) \/ Lost(d, h))
         /\ o.writes[n + 1].file = "meta" => Prepared(o.state, m, d, h)
<1>1. disk \in Disk /\ hist \in History
  BY DEF ServerTyped
<1>2. \/ NothingDone(o, snap, m)
      \/ ConfigDone(o, m)
      \/ DatabaseDone(o, snap, m)
      \/ ChangeDone(o, snap, disk, m)
  BY <1>1, OutcomeIs
<1>3. Kept(hist.reached, hist.stored)
  BY <1>1 DEF History, Kept
\* Before a first write: the files are as they were, or the first is torn.
<1>4. ASSUME n = 0 PROVE h = Cut(Past(hist.reached, hist.stored, m), o.writes[1].file, tears)
  <2>1. {o.writes[i].file : i \in 1 .. 0} = {}
    OBVIOUS
  <2>2. Noted(o, 0, m) = Past(hist.reached, hist.stored, m)
    BY <1>1, <2>1 DEF Noted, Past, History
  <2>. QED  BY <1>4, <2>2
<1>5. ASSUME n = 0, o.writes[1].file = "edb", Written(disk, o.writes, 0) = disk,
             Tear(disk, o.writes[1]) = [disk EXCEPT !.edb = TornEdb]
      PROVE  FileStep(m, d, h) /\ Unannounced(d, h) /\ o.writes[n + 1].file # "meta"
  <2>1. h = Cut(Past(hist.reached, hist.stored, m), "edb", tears)
    BY <1>4, <1>5
  <2>2. CutFrom(h, m, hist.reached, "edb", tears)
    BY <1>3, <2>1, CutPastIs DEF Files
  <2>3. d = IF tears THEN [disk EXCEPT !.edb = TornEdb] ELSE disk
    BY <1>5
  <2>4. /\ d \in Disk /\ d.folder = disk.folder /\ d.config = disk.config /\ d.meta = disk.meta
        /\ (tears /\ d.edb = TornEdb) \/ d.edb = disk.edb
    BY <1>1, <2>3 DEF Disk
  <2>5. d.edb = disk.edb \/ (~Readable(d.edb) /\ "edb" \in h.torn)
    <3>1. ~Readable(TornEdb)
      BY DEF Readable, TornEdb
    <3>2. tears => "edb" \in h.torn
      BY <2>2 DEF CutFrom
    <3>. QED  BY <2>4, <3>1, <3>2
  <2>6. o.writes[n + 1].file # "meta"
    BY <1>5
  <2>. QED  BY <2>2, <2>4, <2>5, <2>6 DEF FileStep, Unannounced, CutFrom
<1>6. CASE NothingDone(o, snap, m)
  BY <1>6 DEF NothingDone
<1>7. CASE ConfigDone(o, m)
  <2>. DEFINE d1 == [disk EXCEPT !.folder = TRUE]
              d2 == [disk EXCEPT !.folder = TRUE, !.config = "ok"]
  <2>1. /\ Len(o.writes) = 3
        /\ o.writes[1].file = "folder" /\ o.writes[2].file = "config" /\ o.writes[3].file = "meta"
        /\ Written(disk, o.writes, 0) = disk /\ Written(disk, o.writes, 1) = d1
        /\ Written(disk, o.writes, 2) = d2
        /\ Tear(disk, o.writes[1]) = disk
        /\ Tear(d1, o.writes[2]) = [d1 EXCEPT !.config = "torn"]
        /\ Tear(d2, o.writes[3]) = [d2 EXCEPT !.meta = "torn"]
    BY <1>1, <1>7, ConfigWrites
  <2>2. n \in {0, 1, 2}
    BY <2>1
  <2>3. CASE n = 0
    <3>1. h = Cut(Past(hist.reached, hist.stored, m), "folder", tears) /\ d = disk
      BY <1>4, <2>1, <2>3
    <3>2. CutFrom(h, m, hist.reached, "folder", tears)
      BY <1>3, <3>1, CutPastIs DEF Files
    <3>3. o.writes[n + 1].file # "meta"
      BY <2>1, <2>3
    <3>. QED  BY <1>1, <3>1, <3>2, <3>3 DEF FileStep, Unannounced, CutFrom
  <2>4. CASE n = 1
    <3>1. {o.writes[i].file : i \in 1 .. 1} = {"folder"} /\ h = Cut(Noted(o, 1, m), "config", tears)
      BY <2>1, <2>4
    <3>2. Noted(o, 1, m) = Past(hist.reached, hist.stored, m)
      BY <1>1, <3>1 DEF Noted, Past, History
    <3>3. CutFrom(h, m, hist.reached, "config", tears)
      BY <1>3, <3>1, <3>2, CutPastIs DEF Files
    <3>4. d = IF tears THEN [d1 EXCEPT !.config = "torn"] ELSE d1
      BY <2>1, <2>4
    <3>5. /\ d \in Disk /\ d.folder /\ d.meta = disk.meta /\ d.edb = disk.edb
          /\ d.config = IF tears THEN "torn" ELSE disk.config
      BY <1>1, <3>4 DEF Disk
    <3>6. o.writes[n + 1].file # "meta"
      BY <2>1, <2>4
    <3>. QED  BY <3>3, <3>5, <3>6 DEF FileStep, Unannounced, CutFrom
  <2>5. CASE n = 2
    <3>1. {o.writes[i].file : i \in 1 .. 2} = {"folder", "config"}
          /\ h = Cut(Noted(o, 2, m), "meta", tears)
      BY <2>1, <2>5
    <3>2. Noted(o, 2, m) = Past(hist.reached, hist.stored, m)
      BY <1>1, <3>1 DEF Noted, Past, History
    <3>3. CutFrom(h, m, hist.reached, "meta", tears)
      BY <1>3, <3>1, <3>2, CutPastIs DEF Files
    <3>4. d = IF tears THEN [d2 EXCEPT !.meta = "torn"] ELSE d2
      BY <2>1, <2>5
    <3>5. /\ d \in Disk /\ d.folder /\ d.config = "ok" /\ d.edb = disk.edb
          /\ d.meta = IF tears THEN "torn" ELSE disk.meta
      BY <1>1, <3>4 DEF Disk
    <3>6. Unannounced(d, h) \/ Lost(d, h)
      BY <3>3, <3>5 DEF Unannounced, Lost, CutFrom
    <3>7. Prepared(o.state, m, d, h)
      BY <1>7, <3>3, <3>5 DEF Prepared, ConfigDone, CutFrom
    <3>. QED  BY <3>3, <3>5, <3>6, <3>7 DEF FileStep, CutFrom
  <2>. QED  BY <2>2, <2>3, <2>4, <2>5
<1>8. CASE DatabaseDone(o, snap, m)
  <2>1. PICK b \in StoredEdb : b = m.edb
    BY <1>8, MessageIs DEF DatabaseDone
  <2>2. m.type = "upload_edb" /\ disk.folder /\ o.writes = <<W("edb", b), W("meta", "all_ready")>>
    BY <1>8, <2>1 DEF DatabaseDone
  <2>3. /\ Len(o.writes) = 2 /\ o.writes[1].file = "edb" /\ o.writes[2].file = "meta"
        /\ Written(disk, o.writes, 0) = disk /\ Written(disk, o.writes, 1) = Filled(disk, b)
    BY <1>1, <2>2, DatabaseWrites
  <2>4. n \in {0, 1}
    BY <2>3
  <2>5. CASE n = 0
    <3>1. o.writes[1] = W("edb", b)
      BY <2>2
    <3>2. Tear(disk, o.writes[1]) = [disk EXCEPT !.edb = TornEdb]
      BY <1>1, <2>2, <3>1, TearEdb
    <3>. QED  BY <1>5, <2>3, <2>5, <3>2
  <2>6. CASE n = 1
    <3>1. Filled(disk, b) \in Disk /\ Filled(disk, b).folder /\ o.writes[2] = W("meta", "all_ready")
      BY <1>1, <2>2 DEF Filled, Disk
    <3>2. Tear(Filled(disk, b), o.writes[2]) = [Filled(disk, b) EXCEPT !.meta = "torn"]
      BY <3>1, TearMeta
    <3>3. {o.writes[i].file : i \in 1 .. 1} = {"edb"} /\ h = Cut(Noted(o, 1, m), "meta", tears)
      BY <2>3, <2>6
    <3>4. Noted(o, 1, m) = Past(hist.reached, hist.stored \cup {b.gen}, m)
      BY <1>1, <2>1, <2>2, <3>3 DEF Noted, Past, History
    <3>5. Kept(hist.reached, hist.stored \cup {b.gen})
      BY <1>3, ReadableIs DEF Kept
    <3>6. CutFrom(h, m, hist.reached, "meta", tears)
      BY <3>3, <3>4, <3>5, CutPastIs DEF Files
    <3>7. d = IF tears THEN [Filled(disk, b) EXCEPT !.meta = "torn"] ELSE Filled(disk, b)
      BY <2>3, <2>6, <3>2
    <3>8. /\ d \in Disk /\ d.folder = disk.folder /\ d.config = disk.config /\ d.edb = b
          /\ d.meta = IF tears THEN "torn" ELSE disk.meta
      BY <1>1, <3>7 DEF Disk, Filled
    <3>9. Unannounced(d, h) \/ Lost(d, h)
      BY <3>6, <3>8 DEF Unannounced, Lost, CutFrom
    <3>10. m.type = "upload_edb" /\ d.edb = m.edb /\ Readable(d.edb)
      BY <2>1, <2>2, <3>8, ReadableIs
    <3>11. Prepared(o.state, m, d, h)
      BY <1>8, <2>2, <3>6, <3>8, <3>10 DEF Prepared, DatabaseDone, CutFrom
    <3>. QED  BY <3>6, <3>8, <3>9, <3>10, <3>11 DEF FileStep, CutFrom
  <2>. QED  BY <2>4, <2>5, <2>6
<1>9. CASE ChangeDone(o, snap, disk, m)
  <2>1. disk.folder
    BY <1>9 DEF ChangeDone
  <2>2. PICK b \in StoredEdb : o.writes = <<W("edb", b)>>
    BY <1>9 DEF ChangeDone
  <2>3. /\ Len(o.writes) = 1 /\ o.writes[1].file = "edb" /\ Written(disk, o.writes, 0) = disk
        /\ Tear(disk, o.writes[1]) = [disk EXCEPT !.edb = TornEdb]
    BY <1>1, <2>1, <2>2, ChangeWrites
  <2>. QED  BY <1>5, <2>3
<1>. QED  BY <1>2, <1>6, <1>7, <1>8, <1>9
--------------------------------------------------------------------------------
(* The actions, by what they do to the connections and the files.            *)

FreshConn == [NewConn EXCEPT !.phase = "init", !.open = TRUE]
HungUp(r) == [r EXCEPT !.open = FALSE, !.echo = "none", !.reply = "none"]
EndedConn(r) == [NewConn EXCEPT !.echo = r.echo, !.reply = r.reply]

\* What the state of the Service object a message is sent to has to be.
Suited(m, snap) ==
  /\ m.type # "none" /\ m.type # "config" => snap # "not_exists"
  /\ m.type \notin {"none", "config", "upload_edb"} => snap = "all_ready"

\* A command sends a message over an open connection whose echo it has read.
Sends(c, m) ==
  /\ conn[c].open /\ conn[c].echo # "none" /\ m.type # "none" /\ Suited(m, conn[c].echo)
  /\ m.type = "upload_edb" => local.edb # NoEdb /\ m.edb = local.edb
  /\ conn' = [conn EXCEPT ![c].inbox = m, ![c].echo = "none"]

ClientConn ==
  \/ conn' = conn
  \/ \E c \in Conn : Unused(c) /\ conn' = [conn EXCEPT ![c] = FreshConn]
  \/ \E c \in Conn : conn' = [conn EXCEPT ![c] = HungUp(@)]
  \/ \E c \in Conn, m \in Message : Sends(c, m)

ClientStep == ClientConn /\ UNCHANGED <<disk, running, faults, hist>>

\* A handler that ran to its end, and the end of every connection in a crash.
HandleEffect(c, o) ==
  /\ conn[c].phase = "live" /\ Pending(c)
  /\ o.state \in States /\ o.reply \in {"none", "ok", "refused"} /\ o.raises \in BOOLEAN
  /\ HandledTo(o, conn[c].snap, conn[c].inbox, disk', hist')
  /\ conn' = [conn EXCEPT ![c].snap = o.state, ![c].inbox = NoMsg,
                ![c].reply = IF conn[c].open THEN o.reply ELSE "none",
                ![c].open  = @ /\ ~o.raises]
  /\ UNCHANGED <<running, faults>>

\* A handler whose write failed.
FailEffect(c, s, reply, open) ==
  /\ faults < MaxFaults /\ faults' = faults + 1
  /\ conn[c].phase = "live" /\ Pending(c)
  /\ s \in States /\ reply \in {"none", "refused"} /\ open \in BOOLEAN
  /\ open => conn[c].open
  /\ FileStep(conn[c].inbox, disk', hist') /\ (Unannounced(disk', hist') \/ Lost(disk', hist'))
  /\ s = conn[c].snap \/ Prepared(s, conn[c].inbox, disk', hist')
  /\ conn' = [conn EXCEPT ![c].snap = s, ![c].inbox = NoMsg, ![c].reply = reply, ![c].open = open]
  /\ UNCHANGED running

CrashEffect ==
  /\ faults < MaxFaults /\ faults' = faults + 1
  /\ conn' = [c \in Conn |-> EndedConn(conn[c])] /\ running' = NoConn

LEMMA ConnectionsIs ==
  ASSUME NEW r \in Connections
  PROVE  /\ EndedConn(r) \in Connections /\ HungUp(r) \in Connections
         /\ FreshConn \in Connections /\ NewConn \in Connections
         /\ EndedConn(r).phase = "none" /\ ~EndedConn(r).open /\ EndedConn(r).snap = "not_exists"
         /\ EndedConn(r).prev = NoConn /\ EndedConn(r).inbox = NoMsg
         /\ EndedConn(r).echo = r.echo /\ EndedConn(r).reply = r.reply
         /\ HungUp(r).phase = r.phase /\ ~HungUp(r).open /\ HungUp(r).snap = r.snap
         /\ HungUp(r).prev = r.prev /\ HungUp(r).inbox = r.inbox
         /\ HungUp(r).echo = "none" /\ HungUp(r).reply = "none"
         /\ FreshConn.phase = "init" /\ FreshConn.open /\ FreshConn.snap = "not_exists"
         /\ FreshConn.inbox = NoMsg /\ FreshConn.echo = "none" /\ FreshConn.reply = "none"
<1>1. NewConn \in Connections
  BY DEF NewConn, Connections, States, Message, NoMsg, NoConn
<1>2. /\ NewConn.phase = "none" /\ ~NewConn.open /\ NewConn.snap = "not_exists"
      /\ NewConn.prev = NoConn /\ NewConn.inbox = NoMsg /\ NewConn.echo = "none"
      /\ NewConn.reply = "none"
  BY DEF NewConn
<1>. QED  BY <1>1, <1>2 DEF EndedConn, HungUp, FreshConn, Connections, States

\* In the model's terms.
LEMMA EndedIs ==
  ASSUME NEW c
  PROVE  Ended(c) = EndedConn(conn[c])
BY DEF Ended, EndedConn

LEMMA HandleIs ==
  ASSUME Inv, NEW c \in Conn, Handle(c)
  PROVE  \E o : HandleEffect(c, o)
<1>1. PICK o \in Outcomes(conn[c].snap, disk, conn[c].inbox) :
        /\ disk' = Written(disk, o.writes, Len(o.writes))
        /\ conn' = [conn EXCEPT ![c].snap = o.state, ![c].inbox = NoMsg,
                      ![c].reply = IF conn[c].open THEN o.reply ELSE "none",
                      ![c].open  = @ /\ ~o.raises]
        /\ hist' = Noted(o, Len(o.writes), conn[c].inbox)
  BY DEF Handle
<1>2. ServerTyped /\ conn[c] \in Connections
  BY DEF Inv, Typed, ServerTyped
<1>3. PICK snap \in States, m \in Message : snap = conn[c].snap /\ m = conn[c].inbox
  BY <1>2 DEF Connections
<1>4. PICK d, h : d = disk' /\ h = hist'
  OBVIOUS
<1>5. m.type # "none" /\ conn[c].phase = "live" /\ (snap # "not_exists" => disk.folder)
  BY <1>3 DEF Handle, Pending, Inv, FileInv
<1>6. /\ HandledTo(o, snap, m, d, h)
      /\ o.state \in States /\ o.reply \in {"none", "ok", "refused"} /\ o.raises \in BOOLEAN
  BY <1>1, <1>2, <1>3, <1>4, <1>5, WholeIs
<1>7. HandledTo(o, conn[c].snap, conn[c].inbox, disk', hist')
  BY <1>3, <1>4, <1>6
<1>8. HandleEffect(c, o)
  BY <1>1, <1>3, <1>5, <1>6, <1>7 DEF HandleEffect, Handle, Pending
<1>. QED  BY <1>8

\* A handler stopped inside: what FileStep says, and which state it was to store.
LEMMA StoppedIs ==
  ASSUME Inv, NEW c \in Conn, conn[c].phase = "live", Pending(c),
         NEW o \in Outcomes(conn[c].snap, disk, conn[c].inbox),
         NEW n \in 0 .. Len(o.writes), n # Len(o.writes), NEW tears \in BOOLEAN,
         Stopped(o, n, conn[c].inbox, o.writes[n + 1].file, tears)
  PROVE  /\ FileStep(conn[c].inbox, disk', hist')
         /\ Unannounced(disk', hist') \/ Lost(disk', hist')
         /\ o.writes[n + 1].file = "meta" => Prepared(o.state, conn[c].inbox, disk', hist')
<1>1. ServerTyped /\ conn[c] \in Connections
  BY DEF Inv, Typed, ServerTyped
<1>2. PICK snap \in States, m \in Message : snap = conn[c].snap /\ m = conn[c].inbox
  BY <1>1 DEF Connections
<1>3. PICK d, h, e : d = disk' /\ h = hist' /\ e = Written(disk, o.writes, n)
  OBVIOUS
<1>4. m.type # "none" /\ (snap # "not_exists" => disk.folder)
  BY <1>2 DEF Pending, Inv, FileInv
<1>5. /\ d = IF tears THEN Tear(e, o.writes[n + 1]) ELSE e
      /\ h = Cut(Noted(o, n, m), o.writes[n + 1].file, tears)
  BY <1>2, <1>3 DEF Stopped, Cut
<1>6. /\ FileStep(m, d, h) /\ (Unannounced(d, h) \/ Lost(d, h))
      /\ o.writes[n + 1].file = "meta" => Prepared(o.state, m, d, h)
  BY <1>1, <1>2, <1>3, <1>4, <1>5, CutShortIs
<1>. QED  BY <1>2, <1>3, <1>6

LEMMA HandleFailsIs ==
  ASSUME Inv, NEW c \in Conn, HandleFails(c)
  PROVE  \E s, reply, open : FailEffect(c, s, reply, open)
<1>. DEFINE m == conn[c].inbox
            changes == m.type \in {"delete", "update"}
<1>0. PICK o \in Outcomes(conn[c].snap, disk, m) : \E n \in 0 .. Len(o.writes) - 1 :
        LET file == o.writes[n + 1].file IN
        /\ \E tears \in BOOLEAN : Stopped(o, n, m, file, tears)
        /\ conn' = [conn EXCEPT ![c].snap = IF file = "meta" THEN o.state ELSE @,
                      ![c].inbox = NoMsg,
                      ![c].reply = IF conn[c].open /\ changes THEN "refused" ELSE "none",
                      ![c].open  = @ /\ changes]
  BY DEF HandleFails
<1>1. PICK n \in 0 .. Len(o.writes) - 1 :
        LET file == o.writes[n + 1].file IN
        /\ \E tears \in BOOLEAN : Stopped(o, n, m, file, tears)
        /\ conn' = [conn EXCEPT ![c].snap = IF file = "meta" THEN o.state ELSE @,
                      ![c].inbox = NoMsg,
                      ![c].reply = IF conn[c].open /\ changes THEN "refused" ELSE "none",
                      ![c].open  = @ /\ changes]
  BY <1>0
<1>2. PICK tears \in BOOLEAN : Stopped(o, n, m, o.writes[n + 1].file, tears)
  BY <1>1
<1>3. ServerTyped /\ conn[c] \in Connections /\ disk \in Disk
  BY DEF Inv, Typed, ServerTyped
<1>4. conn[c].snap \in States /\ m \in Message /\ m.type # "none"
  BY <1>3 DEF Connections, HandleFails, Pending
<1>5. o.state \in States /\ Len(o.writes) \in Nat
  <2>1. PICK snap \in States, x \in Message : snap = conn[c].snap /\ x = m
    BY <1>4
  <2>2. o \in Outcomes(snap, disk, x) /\ x.type # "none"
    BY <1>4, <2>1
  <2>. QED  BY <1>3, <2>2, LengthIs, OutcomeIs
<1>6. n \in 0 .. Len(o.writes) /\ n # Len(o.writes)
  BY <1>5
<1>7. conn[c].phase = "live" /\ Pending(c)
  BY DEF HandleFails
<1>8. /\ FileStep(m, disk', hist') /\ (Unannounced(disk', hist') \/ Lost(disk', hist'))
      /\ o.writes[n + 1].file = "meta" => Prepared(o.state, m, disk', hist')
  BY <1>2, <1>6, <1>7, StoppedIs
<1>9. PICK s, reply, open :
        /\ s = IF o.writes[n + 1].file = "meta" THEN o.state ELSE conn[c].snap
        /\ reply = IF conn[c].open /\ changes THEN "refused" ELSE "none"
        /\ open = (conn[c].open /\ changes)
  OBVIOUS
<1>10. s \in States /\ reply \in {"none", "refused"} /\ open \in BOOLEAN /\ (open => conn[c].open)
  BY <1>4, <1>5, <1>9
<1>11. s = conn[c].snap \/ Prepared(s, m, disk', hist')
  BY <1>8, <1>9
<1>12. conn' = [conn EXCEPT ![c].snap = s, ![c].inbox = NoMsg, ![c].reply = reply, ![c].open = open]
  BY <1>1, <1>9
<1>13. FailEffect(c, s, reply, open)
  BY <1>7, <1>8, <1>10, <1>11, <1>12 DEF FailEffect, HandleFails
<1>. QED  BY <1>13

LEMMA CrashInHandlerIs ==
  ASSUME Inv, NEW c \in Conn, CrashInHandler(c)
  PROVE  CrashEffect /\ conn[c].phase = "live" /\ FileStep(conn[c].inbox, disk', hist')
         /\ (conn[c].inbox.type = "upload_edb" => conn[c].snap # "not_exists")
<1>9. PICK o \in Outcomes(conn[c].snap, disk, conn[c].inbox) : \E n \in 0 .. Len(o.writes) :
        IF n = Len(o.writes)
        THEN disk' = Written(disk, o.writes, n) /\ hist' = Noted(o, n, conn[c].inbox)
        ELSE \E tears \in BOOLEAN :
               Stopped(o, n, conn[c].inbox, o.writes[n + 1].file, tears)
  BY DEF CrashInHandler
<1>1. PICK n \in 0 .. Len(o.writes) :
        IF n = Len(o.writes)
        THEN disk' = Written(disk, o.writes, n) /\ hist' = Noted(o, n, conn[c].inbox)
        ELSE \E tears \in BOOLEAN :
               Stopped(o, n, conn[c].inbox, o.writes[n + 1].file, tears)
  BY <1>9
<1>2. ServerTyped /\ conn[c] \in Connections
  BY DEF Inv, Typed, ServerTyped
<1>3. PICK snap \in States, m \in Message : snap = conn[c].snap /\ m = conn[c].inbox
  BY <1>2 DEF Connections
<1>4. PICK d, h : d = disk' /\ h = hist'
  OBVIOUS
<1>5. m.type # "none" /\ conn[c].phase = "live" /\ (snap # "not_exists" => disk.folder)
  BY <1>3 DEF CrashInHandler, Pending, Inv, FileInv
<1>6. FileStep(m, d, h)
  <2>1. CASE n = Len(o.writes)
    <3>1. d = Written(disk, o.writes, Len(o.writes)) /\ h = Noted(o, Len(o.writes), m)
      BY <1>1, <1>3, <1>4, <2>1
    <3>2. HandledTo(o, snap, m, d, h)
      BY <1>2, <1>3, <1>5, <3>1, WholeIs
    <3>. QED  BY <3>2 DEF HandledTo
  <2>2. CASE n # Len(o.writes)
    <3>1. PICK tears \in BOOLEAN : Stopped(o, n, conn[c].inbox, o.writes[n + 1].file, tears)
      BY <1>1, <2>2
    <3>2. conn[c].phase = "live" /\ Pending(c)
      BY DEF CrashInHandler
    <3>3. FileStep(conn[c].inbox, disk', hist')
      BY <2>2, <3>1, <3>2, StoppedIs
    <3>. QED  BY <1>3, <1>4, <3>3
  <2>. QED  BY <2>1, <2>2
<1>7. CrashEffect
  BY EndedIs DEF CrashInHandler, MayCrash, CrashEffect
<1>8. m.type = "upload_edb" => snap # "not_exists"
  BY <1>3, <1>5 DEF Inv, MessageInv, MessageAt, Pending, Suits
<1>. QED  BY <1>3, <1>4, <1>5, <1>6, <1>7, <1>8
--------------------------------------------------------------------------------
(* The commands: what they send, and what they do to the connections.        *)

LEMMA NoConnIs == NoConn \notin Conn
BY ConnAssumption DEF NoConn

LEMMA MessagesAre ==
  ASSUME Typed, NEW cmd \in Commands, NEW bits, NEW state \in States,
         Allowed(cmd, Adopt(bits, state)), NEW m \in Messages(cmd)
  PROVE  /\ m \in Message /\ m.type # "none" /\ Suited(m, state)
         /\ (cmd = "upload_encrypted_database") = (m.type = "upload_edb")
         /\ m.type = "upload_edb" => local.edb # NoEdb /\ m.edb = local.edb
<1>1. local.key \in Keys \cup {0} /\ local.edb \in StoredEdb \cup {NoEdb}
  BY DEF Typed, ClientTyped, Folder
<1>2. /\ "config_uploaded" \in Adopt(bits, state) => state # "not_exists"
      /\ "db_uploaded" \in Adopt(bits, state) => state = "all_ready"
  BY DEF Adopt
<1>3. ASSUME local.key # 0, NEW w \in Keyword PROVE Tk(w) \in Tokens
  BY <1>1, <1>3 DEF Tk, Token, Tokens
<1>. HIDE DEF Tokens
<1>4. CASE cmd = "upload_config"
  <2>1. m = [type |-> "config"]
    BY <1>4 DEF Messages
  <2>2. m \in Message /\ m.type = "config"
    BY <2>1 DEF Message
  <2>. QED  BY <1>4, <2>2 DEF Suited
<1>5. CASE cmd = "upload_encrypted_database"
  <2>1. local.edb # NoEdb /\ "config_uploaded" \in Adopt(bits, state)
    BY <1>5 DEF Allowed
  <2>2. m = [type |-> "upload_edb", edb |-> local.edb]
    BY <1>5 DEF Messages
  <2>3. m \in Message /\ m.type = "upload_edb" /\ m.edb = local.edb
    BY <1>1, <2>1, <2>2 DEF Message
  <2>. QED  BY <1>2, <1>5, <2>1, <2>3 DEF Suited
<1>6. ASSUME cmd \in {"search", "delete_data", "update_data"}
      PROVE  local.key # 0 /\ state = "all_ready"
  BY <1>2, <1>6 DEF Allowed
<1>7. CASE cmd = "search"
  <2>1. PICK ws \in Searches : m = [type |-> "token", tokens |-> {Tk(w) : w \in ws}]
    BY <1>7 DEF Messages
  <2>2. {Tk(w) : w \in ws} \in SUBSET Tokens
    BY <1>3, <1>6, <1>7, InputAssumption
  <2>3. m \in Message /\ m.type = "token"
    BY <2>1, <2>2 DEF Message
  <2>. QED  BY <1>6, <1>7, <2>3 DEF Suited
<1>8. ASSUME NEW t \in {"delete", "update"}, NEW T \in SUBSET Tokens, NEW I \in SUBSET Counter,
             NEW S \in SUBSET Addr, m = Change(t, T, I, S), state = "all_ready",
             cmd \in {"delete_data", "update_data"}
      PROVE  /\ m \in Message /\ m.type # "none" /\ Suited(m, state)
             /\ (cmd = "upload_encrypted_database") = (m.type = "upload_edb")
             /\ m.type = "upload_edb" => local.edb # NoEdb /\ m.edb = local.edb
  <2>1. m \in Message /\ m.type = t
    BY <1>8 DEF Change, Message
  <2>. QED  BY <1>8, <2>1 DEF Suited
<1>9. CASE cmd = "delete_data"
  <2>1. \/ \E w \in Keyword, S \in IndexLists : m = Change("delete", {Tk(w)}, S, {})
        \/ \E S \in AddressLists : m = Change("delete", {}, {}, S)
    BY <1>9 DEF Messages
  <2>2. CASE \E w \in Keyword, S \in IndexLists : m = Change("delete", {Tk(w)}, S, {})
    <3>1. PICK w \in Keyword, S \in IndexLists : m = Change("delete", {Tk(w)}, S, {})
      BY <2>2
    <3>2. {Tk(w)} \in SUBSET Tokens /\ S \in SUBSET Counter /\ {} \in SUBSET Addr
      BY <1>3, <1>6, <1>9, InputAssumption
    <3>. QED  BY <1>6, <1>8, <1>9, <3>1, <3>2
  <2>3. CASE \E S \in AddressLists : m = Change("delete", {}, {}, S)
    <3>1. PICK S \in AddressLists : m = Change("delete", {}, {}, S)
      BY <2>3
    <3>2. S \in SUBSET Addr /\ {} \in SUBSET Counter /\ {} \in SUBSET Tokens
      BY InputAssumption
    <3>. QED  BY <1>6, <1>8, <1>9, <3>1, <3>2
  <2>. QED  BY <2>1, <2>2, <2>3
<1>10. CASE cmd = "update_data"
  <2>0. {} \in SUBSET Counter /\ {} \in SUBSET Tokens /\ {} \in SUBSET Addr
    OBVIOUS
  <2>1. \/ m = Change("update", {}, {}, {})
        \/ \E w \in Keyword : m = Change("update", {Tk(w)}, {}, {})
        \/ \E S \in AddressLists : m = Change("update", {}, {}, S)
    BY <1>10 DEF Messages
  <2>2. CASE m = Change("update", {}, {}, {})
    BY <1>6, <1>8, <1>10, <2>0, <2>2
  <2>3. CASE \E w \in Keyword : m = Change("update", {Tk(w)}, {}, {})
    <3>1. PICK w \in Keyword : m = Change("update", {Tk(w)}, {}, {})
      BY <2>3
    <3>2. {Tk(w)} \in SUBSET Tokens
      BY <1>3, <1>6, <1>10
    <3>. QED  BY <1>6, <1>8, <1>10, <2>0, <3>1, <3>2
  <2>4. CASE \E S \in AddressLists : m = Change("update", {}, {}, S)
    <3>1. PICK S \in AddressLists : m = Change("update", {}, {}, S)
      BY <2>4
    <3>2. S \in SUBSET Addr
      BY InputAssumption
    <3>. QED  BY <1>6, <1>8, <1>10, <2>0, <3>1, <3>2
  <2>. QED  BY <2>1, <2>2, <2>3, <2>4
<1>. QED  BY <1>4, <1>5, <1>7, <1>9, <1>10 DEF Commands

\* A command that runs has a connection and a name.
LEMMA RunsIs ==
  ASSUME Inv, NEW p \in Proc, proc[p].phase # "idle"
  PROVE  /\ proc[p].conn \in Conn /\ proc[p].command \in Commands
         /\ conn[proc[p].conn] \in Connections
BY DEF Inv, Typed, ClientTyped, ServerTyped, Processes, DeliveryInv, OwnConnections

LEMMA HangupIs ==
  ASSUME NEW p \in Proc, NEW c \in Conn, Hangup(p, c)
  PROVE  conn' = [conn EXCEPT ![c] = HungUp(@)] /\ proc' = [proc EXCEPT ![p] = Idle]
BY DEF Hangup, HungUp

\* A command that could send did so, and remembers which database it sent.
SentBy(p, m) ==
  LET c == proc[p].conn IN
  /\ m \in Message /\ Sends(c, m) /\ UNCHANGED local
  /\ (m.type = "upload_edb") = (proc[p].command = "upload_encrypted_database")
  /\ \E bits \in SUBSET Bits :
       /\ "key_created" \in bits => "key_created" \in proc[p].bits
       /\ proc' = [proc EXCEPT ![p].phase = "awaiting", ![p].bits = bits,
                     ![p].sent = IF m.type = "upload_edb" THEN local.edb.gen ELSE 0]

LEMMA BitsIs ==
  ASSUME NEW bits \in SUBSET Bits, NEW cmd, NEW state
  PROVE  /\ Adopt(bits, state) \in SUBSET Bits
         /\ "key_created" \in Adopt(bits, state) => "key_created" \in bits
         /\ Withdraw(cmd, Adopt(bits, state)) \in SUBSET Bits
         /\ "key_created" \in Withdraw(cmd, Adopt(bits, state)) => "key_created" \in bits
<1>1. Adopt(bits, state) \in SUBSET Bits
      /\ ("key_created" \in Adopt(bits, state) => "key_created" \in bits)
  BY DEF Adopt, Bits
<1>2. Withdraw(cmd, Adopt(bits, state)) \subseteq Adopt(bits, state)
  BY DEF Withdraw
<1>. QED  BY <1>1, <1>2

LEMMA SendIs ==
  ASSUME Inv, NEW p \in Proc, Send(p)
  PROVE  /\ proc[p].phase = "connecting"
         /\ UNCHANGED <<disk, running, faults, hist, commands>>
         /\ \/ \E m : SentBy(p, m)
            \/ /\ Hangup(p, proc[p].conn)
               /\ \E bits \in SUBSET Bits :
                    /\ "key_created" \in bits => "key_created" \in proc[p].bits
                    /\ local' = [local EXCEPT !.bits = bits]
<1>. DEFINE c == proc[p].conn
            bits == Adopt(proc[p].bits, conn[c].echo)
            cmd == proc[p].command
<1>1. proc[p].phase = "connecting" /\ conn[c].echo # "none"
      /\ UNCHANGED <<disk, running, faults, hist, commands>>
  BY DEF Send
<1>2. c \in Conn /\ cmd \in Commands /\ conn[c] \in Connections /\ proc[p].bits \in SUBSET Bits
  BY <1>1, RunsIs DEF Inv, Typed, ClientTyped, Processes
<1>3. conn[c].echo \in States
  BY <1>1, <1>2 DEF Connections
<1>4. PICK b0 \in SUBSET Bits, state \in States, x \in Commands :
        b0 = proc[p].bits /\ state = conn[c].echo /\ x = cmd
  BY <1>2, <1>3
<1>5. CASE Allowed(cmd, bits) /\ conn[c].open
  <2>1. PICK m \in Messages(cmd) : conn' = [conn EXCEPT ![c].inbox = m, ![c].echo = "none"]
    BY <1>5 DEF Send
  <2>2. Allowed(x, Adopt(b0, state)) /\ m \in Messages(x)
    BY <1>4, <1>5
  <2>3. /\ m \in Message /\ m.type # "none" /\ Suited(m, state)
        /\ (x = "upload_encrypted_database") = (m.type = "upload_edb")
        /\ m.type = "upload_edb" => local.edb # NoEdb /\ m.edb = local.edb
    BY <2>2, MessagesAre DEF Inv
  <2>4. Sends(c, m)
    BY <1>1, <1>4, <1>5, <2>1, <2>3 DEF Sends
  <2>5. /\ Withdraw(x, Adopt(b0, state)) \in SUBSET Bits
        /\ "key_created" \in Withdraw(x, Adopt(b0, state)) => "key_created" \in b0
    BY BitsIs
  <2>6. proc' = [proc EXCEPT ![p].phase = "awaiting", ![p].bits = Withdraw(cmd, bits),
                   ![p].sent = IF cmd = "upload_encrypted_database" THEN local.edb.gen ELSE 0]
        /\ UNCHANGED local
    BY <1>5 DEF Send
  <2>7. proc' = [proc EXCEPT ![p].phase = "awaiting", ![p].bits = Withdraw(x, Adopt(b0, state)),
                   ![p].sent = IF m.type = "upload_edb" THEN local.edb.gen ELSE 0]
    BY <1>4, <2>3, <2>6
  <2>8. \E b \in SUBSET Bits :
          /\ "key_created" \in b => "key_created" \in proc[p].bits
          /\ proc' = [proc EXCEPT ![p].phase = "awaiting", ![p].bits = b,
                        ![p].sent = IF m.type = "upload_edb" THEN local.edb.gen ELSE 0]
    <3>1. PICK b : b = Withdraw(x, Adopt(b0, state))
      OBVIOUS
    <3>. QED  BY <1>4, <2>5, <2>7, <3>1
  <2>9. SentBy(p, m)
    BY <1>4, <2>3, <2>4, <2>6, <2>8 DEF SentBy
  <2>. QED  BY <1>1, <2>9
<1>6. CASE ~(Allowed(cmd, bits) /\ conn[c].open)
  <2>1. local' = [local EXCEPT !.bits = Withdraw(cmd, bits)] /\ Hangup(p, c)
    BY <1>6 DEF Send
  <2>2. /\ Withdraw(x, Adopt(b0, state)) \in SUBSET Bits
        /\ "key_created" \in Withdraw(x, Adopt(b0, state)) => "key_created" \in b0
    BY BitsIs
  <2>3. \E b \in SUBSET Bits :
          /\ "key_created" \in b => "key_created" \in proc[p].bits
          /\ local' = [local EXCEPT !.bits = b]
    <3>1. PICK b : b = Withdraw(x, Adopt(b0, state))
      OBVIOUS
    <3>2. local' = [local EXCEPT !.bits = b]
      BY <1>4, <2>1, <3>1
    <3>. QED  BY <1>4, <2>2, <3>1, <3>2
  <2>. QED  BY <1>1, <2>1, <2>3
<1>. QED  BY <1>5, <1>6
--------------------------------------------------------------------------------
(* Every step is a step of a command, of the event loop, or a crash.         *)

ClientAction ==
  \/ GenerateKey \/ EncryptDatabase
  \/ \E p \in Proc : (\E cmd \in Commands : Connect(p, cmd)) \/ Step(p) \/ Kill(p)

LEMMA NextIs ==
  ASSUME Next
  PROVE  \/ ClientAction
         \/ UNCHANGED clientVars /\ \E c \in Conn : ServerStep(c)
         \/ UNCHANGED clientVars /\ Crash
BY DEF Next, ClientAction, Server, CrashServer

LEMMA ClientIs ==
  ASSUME Inv, ClientAction
  PROVE  ClientStep
<1>1. ASSUME NEW p \in Proc, proc[p].phase # "idle", Hangup(p, proc[p].conn),
             UNCHANGED <<disk, running, faults, hist>>
      PROVE  ClientStep
  BY <1>1, RunsIs, HangupIs DEF ClientStep, ClientConn
<1>2. CASE GenerateKey \/ EncryptDatabase
  BY <1>2 DEF GenerateKey, EncryptDatabase, ClientStep, ClientConn, serverVars
<1>3. ASSUME NEW p \in Proc, NEW cmd \in Commands, Connect(p, cmd) PROVE ClientStep
  BY <1>3 DEF Connect, ClientStep, ClientConn, FreshConn
<1>4. ASSUME NEW p \in Proc, ConnectFailed(p) PROVE ClientStep
  BY <1>1, <1>4 DEF ConnectFailed
<1>5. ASSUME NEW p \in Proc, Send(p) PROVE ClientStep
  <2>1. /\ proc[p].phase = "connecting"
        /\ UNCHANGED <<disk, running, faults, hist, commands>>
        /\ (\E m : SentBy(p, m)) \/ Hangup(p, proc[p].conn)
    BY <1>5, SendIs
  <2>2. CASE \E m : SentBy(p, m)
    <3>1. PICK m : SentBy(p, m)
      BY <2>2
    <3>2. m \in Message /\ proc[p].conn \in Conn /\ Sends(proc[p].conn, m)
      BY <2>1, <3>1, RunsIs DEF SentBy
    <3>3. ClientConn
      BY <3>2 DEF ClientConn
    <3>. QED  BY <2>1, <3>3 DEF ClientStep
  <2>3. CASE Hangup(p, proc[p].conn)
    BY <1>1, <2>1, <2>3
  <2>. QED  BY <2>1, <2>2, <2>3
<1>6. ASSUME NEW p \in Proc, Receive(p) PROVE ClientStep
  BY <1>1, <1>6 DEF Receive
<1>7. ASSUME NEW p \in Proc, Timeout(p) PROVE ClientStep
  BY <1>7 DEF Timeout, ClientStep, ClientConn, serverVars
<1>8. ASSUME NEW p \in Proc, Close(p) PROVE ClientStep
  BY <1>1, <1>8 DEF Close
<1>9. ASSUME NEW p \in Proc, Kill(p) PROVE ClientStep
  BY <1>1, <1>9 DEF Kill
<1>. QED  BY <1>2, <1>3, <1>4, <1>5, <1>6, <1>7, <1>8, <1>9 DEF ClientAction, Step

LEMMA ServerTypedByClient ==
  ASSUME Inv, ClientStep
  PROVE  ServerTyped'
<1>1. ServerTyped
  BY DEF Inv, Typed
<1>2. conn' \in [Conn -> Connections]
  <2>1. CASE conn' = conn
    BY <1>1, <2>1 DEF ServerTyped
  <2>2. CASE \E c \in Conn : Unused(c) /\ conn' = [conn EXCEPT ![c] = FreshConn]
    BY <1>1, <2>2, ConnectionsIs DEF ServerTyped
  <2>3. CASE \E c \in Conn : conn' = [conn EXCEPT ![c] = HungUp(@)]
    <3>1. PICK c \in Conn : conn' = [conn EXCEPT ![c] = HungUp(@)]
      BY <2>3
    <3>2. conn[c] \in Connections /\ HungUp(conn[c]) \in Connections
      BY <1>1, ConnectionsIs DEF ServerTyped
    <3>. QED  BY <1>1, <3>1, <3>2 DEF ServerTyped
  <2>4. CASE \E c \in Conn, m \in Message : Sends(c, m)
    <3>1. PICK c \in Conn, m \in Message : Sends(c, m)
      BY <2>4
    <3>2. [conn[c] EXCEPT !.inbox = m, !.echo = "none"] \in Connections
      BY <1>1 DEF ServerTyped, Connections
    <3>3. conn' = [conn EXCEPT ![c] = [conn[c] EXCEPT !.inbox = m, !.echo = "none"]]
      BY <1>1, <3>1 DEF Sends, ServerTyped, Connections
    <3>. QED  BY <1>1, <3>2, <3>3 DEF ServerTyped
  <2>. QED  BY <2>1, <2>2, <2>3, <2>4 DEF ClientStep, ClientConn
<1>. QED  BY <1>1, <1>2 DEF ServerTyped, ClientStep

LEMMA IdleIs == Idle \in Processes /\ Idle.bits = {} /\ Idle.phase = "idle" /\ Idle.conn = NoConn
BY DEF Idle, Processes, NoConn

LEMMA ClientTypedByClient ==
  ASSUME Inv, ClientAction
  PROVE  ClientTyped'
<1>1. ClientTyped
  BY DEF Inv, Typed
<1>2. /\ local \in Folder /\ proc \in [Proc -> Processes] /\ commands \in 0 .. MaxCommands
      /\ "key_created" \in local.bits => local.key # 0
      /\ \A p \in Proc : "key_created" \in proc[p].bits => local.key # 0
      /\ \A p \in Proc : proc[p].phase # "idle" => proc[p].command # "none"
  BY <1>1 DEF ClientTyped
<1>3. \A p \in Proc : proc[p] \in Processes /\ proc[p].bits \in SUBSET Bits
  BY <1>2 DEF Processes
\* The command ends; its folder may have got new bits.
<1>4. ASSUME NEW p \in Proc, NEW bits \in SUBSET Bits,
             "key_created" \in bits => "key_created" \in proc[p].bits \/ "key_created" \in local.bits,
             NEW edb \in StoredEdb \cup {NoEdb},
             local' = [local EXCEPT !.bits = bits, !.edb = edb],
             proc' = [proc EXCEPT ![p] = Idle] \/ proc' = [proc EXCEPT ![p].phase = "closing"],
             proc[p].phase # "idle", commands' = commands
      PROVE  ClientTyped'
  <2>1. local' \in Folder /\ local'.key = local.key /\ local'.bits = bits
    BY <1>2, <1>4 DEF Folder
  <2>2. proc' \in [Proc -> Processes]
    <3>1. CASE proc' = [proc EXCEPT ![p] = Idle]
      BY <1>2, <3>1, IdleIs
    <3>2. CASE proc' = [proc EXCEPT ![p].phase = "closing"]
      BY <1>2, <3>2 DEF Processes
    <3>. QED  BY <1>4, <3>1, <3>2
  <2>3. \A q \in Proc : /\ "key_created" \in proc'[q].bits => "key_created" \in proc[q].bits
                        /\ proc'[q].phase # "idle" =>
                             proc[q].phase # "idle" /\ proc'[q].command = proc[q].command
    <3>1. CASE proc' = [proc EXCEPT ![p] = Idle]
      BY <1>2, <3>1, IdleIs
    <3>2. CASE proc' = [proc EXCEPT ![p].phase = "closing"]
      BY <1>2, <1>4, <3>2 DEF Processes
    <3>. QED  BY <1>4, <3>1, <3>2
  <2>4. "key_created" \in local'.bits => local'.key # 0
    BY <1>2, <1>4, <2>1
  <2>5. \A q \in Proc : "key_created" \in proc'[q].bits => local'.key # 0
    BY <1>2, <2>1, <2>3
  <2>6. \A q \in Proc : proc'[q].phase # "idle" => proc'[q].command # "none"
    BY <1>2, <2>3
  <2>7. commands' \in 0 .. MaxCommands
    BY <1>2, <1>4
  <2>. QED  BY <2>1, <2>2, <2>4, <2>5, <2>6, <2>7 DEF ClientTyped
<1>5. local.bits \in SUBSET Bits /\ local.edb \in StoredEdb \cup {NoEdb}
      /\ local = [local EXCEPT !.bits = local.bits, !.edb = local.edb]
  BY <1>2 DEF Folder
<1>6. commands < MaxCommands => commands + 1 \in 0 .. MaxCommands
  BY <1>2, CommandsAssumption
<1>7. CASE GenerateKey
  <2>1. local' \in Folder /\ local'.key # 0 /\ proc' = proc
    BY <1>2, <1>7, KeysAssumption DEF GenerateKey, Folder, Bits
  <2>2. commands' \in 0 .. MaxCommands
    BY <1>6, <1>7 DEF GenerateKey
  <2>. QED  BY <1>2, <2>1, <2>2 DEF ClientTyped
<1>8. CASE EncryptDatabase
  <2>1. local.key \in Keys /\ local.made + 1 \in Gens
    BY <1>2, <1>8 DEF EncryptDatabase, Folder
  <2>2. EDBSetup(local.key, local.made + 1, PlainDB) \in StoredEdb
    <3>1. PICK k \in Keys, g \in Gens : k = local.key /\ g = local.made + 1
      BY <2>1
    <3>2. EDBSetup(k, g, PlainDB) \in StoredEdb
      BY SetupIs
    <3>. QED  BY <3>1, <3>2
  <2>3. local' = [local EXCEPT !.edb = EDBSetup(local.key, local.made + 1, PlainDB),
                               !.bits = @ \cup {"db_encrypted"}, !.made = @ + 1]
    BY <1>8 DEF EncryptDatabase
  <2>4. local' \in Folder /\ local'.key = local.key /\ local.key # 0 /\ proc' = proc
    <3>1. proc' = proc /\ local.key # 0
      BY <1>2, <1>8 DEF EncryptDatabase
    <3>2. local' \in Folder /\ local'.key = local.key
      BY <1>2, <2>1, <2>2, <2>3 DEF Folder, Bits
    <3>. QED  BY <3>1, <3>2
  <2>5. commands' \in 0 .. MaxCommands
    BY <1>6, <1>8 DEF EncryptDatabase
  <2>. QED  BY <1>2, <2>4, <2>5 DEF ClientTyped
<1>9. ASSUME NEW p \in Proc, NEW cmd \in Commands, Connect(p, cmd) PROVE ClientTyped'
  <2>1. PICK c \in Conn :
          proc' = [proc EXCEPT ![p] = [Idle EXCEPT !.phase = "connecting", !.conn = c,
                                                   !.command = cmd, !.bits = local.bits]]
    BY <1>9 DEF Connect
  <2>. DEFINE r == [Idle EXCEPT !.phase = "connecting", !.conn = c, !.command = cmd,
                                !.bits = local.bits]
  <2>2. r \in Processes /\ r.bits = local.bits /\ r.command = cmd
    BY <1>5 DEF Idle, Processes
  <2>3. cmd # "none"
    BY DEF Commands
  <2>. HIDE DEF r
  <2>4. proc' = [proc EXCEPT ![p] = r] /\ local' = local /\ commands' \in 0 .. MaxCommands
    BY <1>6, <1>9, <2>1 DEF Connect, r
  <2>. QED  BY <1>2, <2>2, <2>3, <2>4 DEF ClientTyped
<1>10. ASSUME NEW p \in Proc, ConnectFailed(p) PROVE ClientTyped'
  <2>1. /\ local' = [local EXCEPT !.bits = proc[p].bits, !.edb = local.edb]
        /\ proc' = [proc EXCEPT ![p] = Idle] /\ commands' = commands /\ proc[p].phase # "idle"
    BY <1>2, <1>10 DEF ConnectFailed, Hangup, Folder
  <2>. QED  BY <1>3, <1>4, <1>5, <2>1
<1>11. ASSUME NEW p \in Proc, Send(p) PROVE ClientTyped'
  <2>1. proc[p].phase = "connecting" /\ commands' = commands
    BY <1>11, SendIs
  <2>2. CASE \E m : SentBy(p, m)
    <3>1. PICK m : SentBy(p, m)
      BY <2>2
    <3>2. PICK bits \in SUBSET Bits :
            /\ "key_created" \in bits => "key_created" \in proc[p].bits
            /\ proc' = [proc EXCEPT ![p].phase = "awaiting", ![p].bits = bits,
                          ![p].sent = IF m.type = "upload_edb" THEN local.edb.gen ELSE 0]
      BY <3>1 DEF SentBy
    <3>3. local' = local /\ m \in Message /\ (m.type = "upload_edb" => local.edb # NoEdb)
      BY <3>1 DEF SentBy, Sends
    <3>4. (IF m.type = "upload_edb" THEN local.edb.gen ELSE 0) \in Gens \cup {0}
      BY <1>5, <3>3, ReadableIs
    <3>. DEFINE sent == IF m.type = "upload_edb" THEN local.edb.gen ELSE 0
    <3>5. PICK s \in Gens \cup {0} : s = sent
      BY <3>4
    <3>6. proc' = [proc EXCEPT ![p].phase = "awaiting", ![p].bits = bits, ![p].sent = s]
      BY <3>2, <3>5
    <3>7. proc' \in [Proc -> Processes]
      <4>1. [proc[p] EXCEPT !.phase = "awaiting", !.bits = bits, !.sent = s] \in Processes
        BY <1>3 DEF Processes
      <4>2. proc' = [proc EXCEPT ![p] = [proc[p] EXCEPT !.phase = "awaiting", !.bits = bits,
                                                       !.sent = s]]
        BY <1>2, <3>6 DEF Processes
      <4>. QED  BY <1>2, <4>1, <4>2
    <3>8. \A q \in Proc : /\ "key_created" \in proc'[q].bits => "key_created" \in proc[q].bits
                          /\ proc'[q].phase # "idle" =>
                               proc[q].phase # "idle" /\ proc'[q].command = proc[q].command
      BY <1>2, <2>1, <3>2, <3>6 DEF Processes
    <3>. QED  BY <1>2, <2>1, <3>3, <3>7, <3>8 DEF ClientTyped
  <2>3. CASE ~ \E m : SentBy(p, m)
    <3>1. PICK bits \in SUBSET Bits :
            /\ "key_created" \in bits => "key_created" \in proc[p].bits
            /\ local' = [local EXCEPT !.bits = bits]
            /\ Hangup(p, proc[p].conn)
      BY <1>11, <2>3, SendIs
    <3>2. local' = [local EXCEPT !.bits = bits, !.edb = local.edb]
      BY <1>2, <3>1 DEF Folder
    <3>3. proc' = [proc EXCEPT ![p] = Idle]
      BY <3>1 DEF Hangup
    <3>. QED  BY <1>4, <1>5, <2>1, <3>1, <3>2, <3>3
  <2>. QED  BY <2>2, <2>3
<1>12. ASSUME NEW p \in Proc, Receive(p) PROVE ClientTyped'
  <2>. DEFINE reply == conn[proc[p].conn].reply
  <2>1. /\ local' = [local EXCEPT !.bits = EchoBits(p, reply), !.edb = EchoEdb(p, reply)]
        /\ proc' = [proc EXCEPT ![p] = Idle] /\ commands' = commands /\ proc[p].phase # "idle"
    BY <1>12 DEF Receive, Hangup
  <2>2. EchoBits(p, reply) \in SUBSET Bits
        /\ ("key_created" \in EchoBits(p, reply) => "key_created" \in proc[p].bits)
    BY <1>3 DEF EchoBits, Bits
  <2>3. EchoEdb(p, reply) \in StoredEdb \cup {NoEdb}
    BY <1>5 DEF EchoEdb
  <2>4. PICK bits \in SUBSET Bits, edb \in StoredEdb \cup {NoEdb} :
          bits = EchoBits(p, reply) /\ edb = EchoEdb(p, reply)
    BY <2>2, <2>3
  <2>5. local' = [local EXCEPT !.bits = bits, !.edb = edb]
    BY <2>1, <2>4
  <2>. QED  BY <1>4, <2>1, <2>2, <2>4, <2>5
<1>13. ASSUME NEW p \in Proc, Timeout(p) PROVE ClientTyped'
  <2>1. /\ local' = [local EXCEPT !.bits = proc[p].bits, !.edb = local.edb]
        /\ proc' = [proc EXCEPT ![p].phase = "closing"] /\ commands' = commands
        /\ proc[p].phase # "idle"
    BY <1>2, <1>13 DEF Timeout, Folder
  <2>. QED  BY <1>3, <1>4, <1>5, <2>1
<1>14. ASSUME NEW p \in Proc, Close(p) \/ Kill(p) PROVE ClientTyped'
  <2>1. /\ local' = [local EXCEPT !.bits = local.bits, !.edb = local.edb]
        /\ proc' = [proc EXCEPT ![p] = Idle] /\ commands' = commands /\ proc[p].phase # "idle"
    BY <1>5, <1>14 DEF Close, Kill, Hangup
  <2>. QED  BY <1>4, <1>5, <2>1
<1>. QED  BY <1>7, <1>8, <1>9, <1>10, <1>11, <1>12, <1>13, <1>14 DEF ClientAction, Step
--------------------------------------------------------------------------------
(* Types, through the steps of the server.                                   *)

\* The cleanup stores a state, unless there is no folder or the object is no
\* longer registered.
CleanEffect(c) ==
  /\ Quiet /\ conn[c].phase = "live" /\ ~conn[c].open
  /\ \A d \in Conn : conn[d].phase = "waiting" => conn[d].prev # c
  /\ \/ disk' = disk
     \/ running = c /\ disk.folder /\ disk' = [disk EXCEPT !.meta = conn[c].snap]
  /\ running = c /\ disk.folder => disk'.meta = conn[c].snap
  /\ running' = IF running = c THEN NoConn ELSE running
  /\ conn' = [conn EXCEPT ![c] = EndedConn(conn[c])]
  /\ UNCHANGED <<faults, hist>>

LEMMA CleanIs ==
  ASSUME ServerTyped, NEW c \in Conn, Clean(c)
  PROVE  CleanEffect(c)
<1>1. disk \in Disk /\ conn[c].snap \in States
  BY DEF ServerTyped, Connections
<1>2. Put(disk, W("meta", conn[c].snap))
        = IF disk.folder THEN [disk EXCEPT !.meta = conn[c].snap] ELSE disk
  <2>1. PICK v : v = conn[c].snap
    OBVIOUS
  <2>. QED  BY <1>1, <2>1, PutMeta
<1>3. disk.folder => [disk EXCEPT !.meta = conn[c].snap].meta = conn[c].snap
  BY <1>1 DEF Disk
<1>. QED  BY <1>2, <1>3, EndedIs DEF Clean, CleanEffect, Over

CrashInCleanEffect ==
  /\ CrashEffect
  /\ disk' = disk \/ (disk.folder /\ disk' = [disk EXCEPT !.meta = "torn"])
  /\ hist' = Cut(hist, "meta", TRUE)

LEMMA CrashInCleanIs ==
  ASSUME ServerTyped, NEW c \in Conn, CrashInClean(c)
  PROVE  CrashInCleanEffect
<1>1. Tear(disk, W("meta", conn[c].snap))
        = IF disk.folder THEN [disk EXCEPT !.meta = "torn"] ELSE disk
  <2>1. PICK v : v = conn[c].snap
    OBVIOUS
  <2>. QED  BY <2>1, TearMeta DEF ServerTyped
<1>. QED  BY <1>1, EndedIs DEF CrashInClean, MayCrash, CrashEffect, CrashInCleanEffect, Cut

LEMMA CrashBetweenStepsIs ==
  ASSUME CrashBetweenSteps
  PROVE  CrashEffect /\ disk' = disk /\ hist' = hist
BY EndedIs DEF CrashBetweenSteps, MayCrash, CrashEffect

\* An accepted connection registers, or waits for the one that is registered.
AcceptEffect(c, waits) ==
  /\ Quiet /\ conn[c].phase = "init" /\ Loadable(disk) /\ waits \in BOOLEAN
  /\ waits => running # NoConn
  /\ ~waits => \A r \in Conn : running = r => ~conn[r].open
  /\ conn' = [conn EXCEPT ![c].phase = IF waits THEN "waiting" ELSE "live",
                ![c].snap = Snapshot(disk), ![c].echo = Snapshot(disk),
                ![c].prev = IF waits THEN running ELSE NoConn]
  /\ running' = IF waits THEN running ELSE c
  /\ hist' = [hist EXCEPT
       !.overlapped = @ \/ waits
                        \/ \E d \in Conn :
                             conn[d].phase \in {"waiting", "live"} /\ conn[d].open,
       !.crowded = @ \/ \E d \in Conn : conn[d].phase = "waiting"]
  /\ UNCHANGED <<disk, faults>>

DroppedEffect(c) ==
  /\ conn[c].phase = "init"
  /\ conn' = [conn EXCEPT ![c] = EndedConn(conn[c])]
  /\ UNCHANGED <<disk, running, faults, hist>>

LEMMA AcceptIs ==
  ASSUME NEW c \in Conn, Accept(c)
  PROVE  (\E waits : AcceptEffect(c, waits)) \/ DroppedEffect(c)
<1>1. CASE ~Loadable(disk)
  BY <1>1, EndedIs DEF Accept, DroppedEffect
<1>2. CASE Loadable(disk)
  <2>1. PICK waits \in BOOLEAN :
          /\ IF waits THEN running # NoConn ELSE \A r \in Conn : running = r => ~conn[r].open
          /\ conn' = [conn EXCEPT
               ![c].phase = IF waits THEN "waiting" ELSE "live",
               ![c].snap  = Snapshot(disk),
               ![c].echo  = Snapshot(disk),
               ![c].prev  = IF waits THEN running ELSE NoConn]
          /\ running' = IF waits THEN running ELSE c
          /\ hist' = [hist EXCEPT
               !.overlapped = @ \/ waits
                                \/ \E d \in Conn :
                                     conn[d].phase \in {"waiting", "live"} /\ conn[d].open,
               !.crowded = @ \/ \E d \in Conn : conn[d].phase = "waiting"]
    BY <1>2 DEF Accept
  <2>2. AcceptEffect(c, waits)
    BY <1>2, <2>1 DEF Accept, AcceptEffect
  <2>. QED  BY <2>2
<1>. QED  BY <1>1, <1>2

LEMMA SnapshotIs ==
  ASSUME ServerTyped, Loadable(disk)
  PROVE  Snapshot(disk) \in States
BY DEF Loadable, Snapshot, States

LEMMA ServerTypedByServer ==
  ASSUME Inv, (\E c \in Conn : ServerStep(c)) \/ Crash
  PROVE  ServerTyped'
<1>1. /\ disk \in Disk /\ conn \in [Conn -> Connections] /\ running \in Conn \cup {NoConn}
      /\ faults \in 0 .. MaxFaults /\ hist \in History /\ ServerTyped
  BY DEF Inv, Typed, ServerTyped
<1>2. ASSUME CrashEffect
      PROVE  /\ conn' \in [Conn -> Connections] /\ running' \in Conn \cup {NoConn}
             /\ faults' \in 0 .. MaxFaults
  <2>1. \A c \in Conn : EndedConn(conn[c]) \in Connections
    BY <1>1, ConnectionsIs
  <2>. QED  BY <1>1, <1>2, <2>1, FaultsAssumption DEF CrashEffect
<1>3. ASSUME NEW c \in Conn, NEW waits, AcceptEffect(c, waits) PROVE ServerTyped'
  <2>1. PICK s \in States : s = Snapshot(disk)
    BY <1>1, <1>3, SnapshotIs DEF AcceptEffect
  <2>2. PICK ph \in {"live", "waiting"}, r \in Conn \cup {NoConn} :
          /\ ph = IF waits THEN "waiting" ELSE "live"
          /\ r = IF waits THEN running ELSE NoConn
    BY <1>1
  <2>3. [conn[c] EXCEPT !.phase = ph, !.snap = s, !.echo = s, !.prev = r] \in Connections
    BY <1>1 DEF Connections
  <2>4. conn' = [conn EXCEPT ![c] = [conn[c] EXCEPT !.phase = ph, !.snap = s, !.echo = s,
                                                    !.prev = r]]
    BY <1>1, <1>3, <2>1, <2>2 DEF AcceptEffect, Connections
  <2>5. conn' \in [Conn -> Connections]
    BY <1>1, <2>3, <2>4
  <2>6. hist' \in History
    BY <1>1, <1>3 DEF AcceptEffect, History
  <2>. QED  BY <1>1, <1>3, <2>5, <2>6 DEF ServerTyped, AcceptEffect
<1>4. ASSUME NEW c \in Conn, DroppedEffect(c) PROVE ServerTyped'
  <2>1. conn[c] \in Connections /\ EndedConn(conn[c]) \in Connections
    BY <1>1, ConnectionsIs
  <2>. QED  BY <1>1, <1>4, <2>1 DEF ServerTyped, DroppedEffect
<1>5. ASSUME NEW c \in Conn, Wake(c) PROVE ServerTyped'
  <2>1. conn' \in [Conn -> Connections]
    <3>1. [conn[c] EXCEPT !.phase = "live", !.prev = NoConn] \in Connections
      BY <1>1 DEF Connections
    <3>2. conn' = [conn EXCEPT ![c] = [conn[c] EXCEPT !.phase = "live", !.prev = NoConn]]
      BY <1>1, <1>5 DEF Wake, Connections
    <3>. QED  BY <1>1, <3>1, <3>2
  <2>. QED  BY <1>1, <1>5, <2>1 DEF ServerTyped, Wake
<1>6. ASSUME NEW c \in Conn, Handle(c) PROVE ServerTyped'
  <2>1. PICK o : HandleEffect(c, o)
    BY <1>6, HandleIs
  <2>2. disk' \in Disk /\ hist' \in History
    BY <2>1 DEF HandleEffect, HandledTo, FileStep
  <2>3. PICK rep \in {"none", "ok", "refused"}, op \in BOOLEAN, s \in States :
          /\ rep = IF conn[c].open THEN o.reply ELSE "none"
          /\ op = (conn[c].open /\ ~o.raises)
          /\ s = o.state
    BY <2>1 DEF HandleEffect
  <2>4. [conn[c] EXCEPT !.snap = s, !.inbox = NoMsg, !.reply = rep, !.open = op]
          \in Connections
    <3>1. NoMsg \in Message
      BY DEF NoMsg, Message
    <3>. QED  BY <1>1, <3>1 DEF Connections
  <2>5. conn' = [conn EXCEPT ![c] = [conn[c] EXCEPT !.snap = s, !.inbox = NoMsg,
                                                    !.reply = rep, !.open = op]]
    BY <1>1, <2>1, <2>3 DEF HandleEffect, Connections
  <2>6. conn' \in [Conn -> Connections]
    BY <1>1, <2>4, <2>5
  <2>. QED  BY <1>1, <2>1, <2>2, <2>6 DEF ServerTyped, HandleEffect
<1>7. ASSUME NEW c \in Conn, Clean(c) PROVE ServerTyped'
  <2>1. CleanEffect(c)
    BY <1>1, <1>7, CleanIs
  <2>2. conn[c] \in Connections /\ EndedConn(conn[c]) \in Connections
    BY <1>1, ConnectionsIs
  <2>3. disk' \in Disk
    BY <1>1, <2>1, <2>2 DEF CleanEffect, Disk, Connections
  <2>. QED  BY <1>1, <2>1, <2>2, <2>3 DEF ServerTyped, CleanEffect
<1>11. ASSUME NEW c \in Conn, HandleFails(c) PROVE ServerTyped'
  <2>1. PICK s, reply, open : FailEffect(c, s, reply, open)
    BY <1>11, HandleFailsIs
  <2>2. disk' \in Disk /\ hist' \in History /\ faults' \in 0 .. MaxFaults
    BY <1>1, <2>1, FaultsAssumption DEF FailEffect, FileStep
  <2>3. [conn[c] EXCEPT !.snap = s, !.inbox = NoMsg, !.reply = reply, !.open = open]
          \in Connections
    <3>1. NoMsg \in Message
      BY DEF NoMsg, Message
    <3>. QED  BY <1>1, <2>1, <3>1 DEF Connections, FailEffect
  <2>4. conn' = [conn EXCEPT ![c] = [conn[c] EXCEPT !.snap = s, !.inbox = NoMsg,
                                                    !.reply = reply, !.open = open]]
    BY <1>1, <2>1 DEF FailEffect, Connections
  <2>5. conn' \in [Conn -> Connections]
    BY <1>1, <2>3, <2>4
  <2>. QED  BY <1>1, <2>1, <2>2, <2>5 DEF ServerTyped, FailEffect
<1>8. CASE CrashBetweenSteps
  BY <1>1, <1>2, <1>8, CrashBetweenStepsIs DEF ServerTyped
<1>9. ASSUME NEW c \in Conn, CrashInHandler(c) PROVE ServerTyped'
  BY <1>2, <1>9, CrashInHandlerIs DEF ServerTyped, FileStep
<1>10. ASSUME NEW c \in Conn, CrashInClean(c) PROVE ServerTyped'
  <2>1. CrashInCleanEffect
    BY <1>1, <1>10, CrashInCleanIs
  <2>2. disk' \in Disk
    BY <1>1, <2>1 DEF CrashInCleanEffect, Disk
  <2>3. hist' \in History
    BY <1>1, <2>1, CutIs DEF CrashInCleanEffect, Files
  <2>. QED  BY <1>2, <2>1, <2>2, <2>3 DEF ServerTyped, CrashInCleanEffect
<1>. QED  BY <1>3, <1>4, <1>5, <1>6, <1>7, <1>8, <1>9, <1>10, <1>11, AcceptIs DEF ServerStep, Crash

LEMMA TypedStep ==
  ASSUME Inv, [Next]_vars
  PROVE  Typed'
<1>1. CASE UNCHANGED vars
  BY <1>1 DEF Inv, Typed, ServerTyped, ClientTyped, vars, serverVars, clientVars
<1>2. CASE ClientAction
  BY <1>2, ClientIs, ServerTypedByClient, ClientTypedByClient DEF Typed
<1>3. CASE UNCHANGED clientVars /\ ((\E c \in Conn : ServerStep(c)) \/ Crash)
  BY <1>3, ServerTypedByServer DEF Inv, Typed, ClientTyped, clientVars
<1>. QED  BY <1>1, <1>2, <1>3, NextIs
--------------------------------------------------------------------------------
(* What each kind of step does to a connection, field by field.              *)

\* Through a step of a command: opened, or as before but for what the command
\* may close or send.
ClientPoint(d) ==
  \/ conn[d].phase = "none" /\ conn'[d] = FreshConn
  \/ /\ conn'[d].phase = conn[d].phase /\ conn'[d].snap = conn[d].snap
     /\ conn'[d].prev = conn[d].prev /\ (conn'[d].open => conn[d].open)
     /\ \/ conn'[d].inbox = conn[d].inbox /\ conn'[d].echo = conn[d].echo
           /\ conn'[d].reply = conn[d].reply /\ conn'[d].open = conn[d].open
        \/ conn'[d].inbox = conn[d].inbox /\ conn'[d].echo = "none"
           /\ conn'[d].reply = "none" /\ ~conn'[d].open
        \/ /\ conn[d].open /\ conn[d].echo # "none" /\ conn'[d].echo = "none"
           /\ conn'[d].inbox.type # "none" /\ Suited(conn'[d].inbox, conn[d].echo)
           /\ conn'[d].inbox.type = "upload_edb" =>
                local.edb # NoEdb /\ conn'[d].inbox.edb = local.edb
           /\ conn'[d].reply = conn[d].reply

LEMMA ClientPointIs ==
  ASSUME ServerTyped, ClientStep, NEW d \in Conn
  PROVE  ClientPoint(d)
<1>1. conn \in [Conn -> Connections] /\ conn[d] \in Connections
  BY DEF ServerTyped
<1>2. ASSUME conn'[d] = conn[d] PROVE ClientPoint(d)
  BY <1>2 DEF ClientPoint
<1>3. CASE conn' = conn
  BY <1>2, <1>3
<1>4. CASE \E c \in Conn : Unused(c) /\ conn' = [conn EXCEPT ![c] = FreshConn]
  BY <1>1, <1>2, <1>4 DEF ClientPoint, Unused
<1>5. CASE \E c \in Conn : conn' = [conn EXCEPT ![c] = HungUp(@)]
  <2>1. PICK c \in Conn : conn' = [conn EXCEPT ![c] = HungUp(@)]
    BY <1>5
  <2>2. CASE c = d
    <3>1. conn'[d] = HungUp(conn[d])
      BY <1>1, <2>1, <2>2
    <3>2. /\ HungUp(conn[d]).phase = conn[d].phase /\ ~HungUp(conn[d]).open
          /\ HungUp(conn[d]).snap = conn[d].snap /\ HungUp(conn[d]).prev = conn[d].prev
          /\ HungUp(conn[d]).inbox = conn[d].inbox
          /\ HungUp(conn[d]).echo = "none" /\ HungUp(conn[d]).reply = "none"
      BY <1>1, ConnectionsIs
    <3>. QED  BY <3>1, <3>2 DEF ClientPoint
  <2>3. CASE c # d
    BY <1>1, <1>2, <2>1, <2>3
  <2>. QED  BY <2>2, <2>3
<1>6. CASE \E c \in Conn, m \in Message : Sends(c, m)
  <2>1. PICK c \in Conn, m \in Message : Sends(c, m)
    BY <1>6
  <2>2. CASE c = d
    <3>1. /\ conn'[d].inbox = m /\ conn'[d].echo = "none" /\ conn'[d].phase = conn[d].phase
          /\ conn'[d].snap = conn[d].snap /\ conn'[d].prev = conn[d].prev
          /\ conn'[d].open = conn[d].open /\ conn'[d].reply = conn[d].reply
      BY <1>1, <2>1, <2>2 DEF Sends, Connections
    <3>. QED  BY <2>1, <2>2, <3>1 DEF ClientPoint, Sends
  <2>3. CASE c # d
    BY <1>1, <1>2, <2>1, <2>3 DEF Sends
  <2>. QED  BY <2>2, <2>3
<1>. QED  BY <1>3, <1>4, <1>5, <1>6 DEF ClientStep, ClientConn

\* Through a step of the server on connection c every other one is as it was.
LEMMA AcceptPoint ==
  ASSUME ServerTyped, NEW c \in Conn, NEW waits, AcceptEffect(c, waits)
  PROVE  /\ \A d \in Conn : d # c => conn'[d] = conn[d]
         /\ conn'[c].phase = IF waits THEN "waiting" ELSE "live"
         /\ conn'[c].snap = Snapshot(disk) /\ conn'[c].echo = Snapshot(disk)
         /\ conn'[c].prev = (IF waits THEN running ELSE NoConn) /\ conn'[c].open = conn[c].open
         /\ conn'[c].inbox = conn[c].inbox /\ conn'[c].reply = conn[c].reply
BY DEF ServerTyped, Connections, AcceptEffect

LEMMA DroppedPoint ==
  ASSUME ServerTyped, NEW c \in Conn,
         conn' = [conn EXCEPT ![c] = EndedConn(conn[c])]
  PROVE  /\ \A d \in Conn : d # c => conn'[d] = conn[d]
         /\ conn'[c].phase = "none" /\ ~conn'[c].open /\ conn'[c].inbox = NoMsg
         /\ conn'[c].snap = "not_exists" /\ conn'[c].prev = NoConn
         /\ conn'[c].echo = conn[c].echo /\ conn'[c].reply = conn[c].reply
<1>1. conn \in [Conn -> Connections] /\ conn[c] \in Connections
  BY DEF ServerTyped
<1>2. conn'[c] = EndedConn(conn[c]) /\ \A d \in Conn : d # c => conn'[d] = conn[d]
  BY <1>1
<1>. QED  BY <1>1, <1>2, ConnectionsIs

LEMMA WakePoint ==
  ASSUME ServerTyped, NEW c \in Conn, Wake(c)
  PROVE  /\ \A d \in Conn : d # c => conn'[d] = conn[d]
         /\ conn'[c].phase = "live" /\ conn'[c].prev = NoConn
         /\ conn'[c].snap = conn[c].snap /\ conn'[c].open = conn[c].open
         /\ conn'[c].inbox = conn[c].inbox /\ conn'[c].echo = conn[c].echo
         /\ conn'[c].reply = conn[c].reply
BY DEF ServerTyped, Connections, Wake

LEMMA HandlePoint ==
  ASSUME ServerTyped, NEW c \in Conn, NEW o, HandleEffect(c, o)
  PROVE  /\ \A d \in Conn : d # c => conn'[d] = conn[d]
         /\ conn'[c].phase = "live" /\ conn'[c].prev = conn[c].prev
         /\ conn'[c].snap = o.state /\ (conn'[c].open => conn[c].open)
         /\ conn'[c].inbox = NoMsg /\ conn'[c].echo = conn[c].echo
         /\ conn'[c].reply = IF conn[c].open THEN o.reply ELSE "none"
BY DEF ServerTyped, Connections, HandleEffect

LEMMA FailPoint ==
  ASSUME ServerTyped, NEW c \in Conn, NEW s, NEW reply, NEW open, FailEffect(c, s, reply, open)
  PROVE  /\ \A d \in Conn : d # c => conn'[d] = conn[d]
         /\ conn'[c].phase = "live" /\ conn'[c].prev = conn[c].prev
         /\ conn'[c].snap = s /\ (conn'[c].open => conn[c].open)
         /\ conn'[c].inbox = NoMsg /\ conn'[c].echo = conn[c].echo
         /\ conn'[c].reply = reply
BY DEF ServerTyped, Connections, FailEffect

LEMMA CrashPoint ==
  ASSUME ServerTyped, CrashEffect, NEW d \in Conn
  PROVE  /\ conn'[d].phase = "none" /\ ~conn'[d].open /\ conn'[d].inbox = NoMsg
         /\ conn'[d].snap = "not_exists"
         /\ conn'[d].echo = conn[d].echo /\ conn'[d].reply = conn[d].reply
<1>1. conn[d] \in Connections
  BY DEF ServerTyped
<1>2. conn'[d] = EndedConn(conn[d])
  BY DEF CrashEffect
<1>. QED  BY <1>1, <1>2, ConnectionsIs

\* Every crash ends every connection.
LEMMA CrashIs ==
  ASSUME Inv, Crash
  PROVE  CrashEffect
BY CrashBetweenStepsIs, CrashInHandlerIs, CrashInCleanIs
   DEF Crash, Inv, Typed, CrashInCleanEffect
--------------------------------------------------------------------------------
(* Waiting and serving.                                                      *)

\* Nothing changes who waits and who serves while the registered and waiting
\* connections keep their phase.
LEMMA WaitKept ==
  ASSUME Inv, running' = running, hist'.crowded = hist.crowded,
         \A d \in Conn :
           \/ conn[d].phase \in {"none", "init"} /\ conn'[d].phase \in {"none", "init"}
           \/ /\ conn'[d].phase = conn[d].phase /\ conn'[d].prev = conn[d].prev
              /\ conn'[d].open => conn[d].open
  PROVE  WaitInv'
<1>1. WaitInv /\ running \in Conn \cup {NoConn}
  BY DEF Inv, Typed, ServerTyped
<1>2. /\ running' # NoConn => conn'[running'].phase = "live"
      /\ \A c \in Conn : conn'[c].phase = "waiting" =>
           conn'[c].prev \in Conn /\ conn'[conn'[c].prev].phase = "live"
  BY <1>1 DEF WaitInv
<1>3. ~hist.crowded =>
        /\ \A c, d \in Conn : conn'[c].phase = "waiting" /\ conn'[d].phase = "waiting" => c = d
        /\ \A c \in Conn : conn'[c].phase = "waiting" => conn'[c].prev = running'
        /\ \A c \in Conn : Serving(c)' => c = running'
  BY <1>1 DEF WaitInv, Serving
<1>. QED  BY <1>2, <1>3 DEF WaitInv

LEMMA WaitByServer ==
  ASSUME Inv, NEW c \in Conn, ServerStep(c)
  PROVE  WaitInv'
<1>1. ServerTyped /\ WaitInv /\ \A d \in Conn : d # NoConn
  BY NoConnIs DEF Inv, Typed
<1>2. ASSUME NEW waits, AcceptEffect(c, waits) PROVE WaitInv'
  <2>1. /\ \A d \in Conn : d # c => conn'[d] = conn[d]
        /\ conn'[c].phase = IF waits THEN "waiting" ELSE "live"
        /\ conn'[c].prev = (IF waits THEN running ELSE NoConn)
        /\ conn'[c].open = conn[c].open /\ conn[c].phase = "init"
        /\ running' = (IF waits THEN running ELSE c)
        /\ waits => running # NoConn
        /\ ~waits => \A r \in Conn : running = r => ~conn[r].open
    <3>1. /\ \A d \in Conn : d # c => conn'[d] = conn[d]
          /\ conn'[c].phase = IF waits THEN "waiting" ELSE "live"
          /\ conn'[c].prev = (IF waits THEN running ELSE NoConn)
          /\ conn'[c].open = conn[c].open
      BY <1>1, <1>2, AcceptPoint
    <3>2. /\ conn[c].phase = "init" /\ running' = (IF waits THEN running ELSE c)
          /\ waits => running # NoConn
          /\ ~waits => \A r \in Conn : running = r => ~conn[r].open
      BY <1>2 DEF AcceptEffect
    <3>. QED  BY <3>1, <3>2
  <2>2. ~hist'.crowded => ~hist.crowded /\ \A d \in Conn : conn[d].phase # "waiting"
    BY <1>1, <1>2 DEF AcceptEffect, ServerTyped, History
  <2>3. running' # NoConn => conn'[running'].phase = "live"
    BY <1>1, <2>1 DEF WaitInv, ServerTyped
  <2>4. \A d \in Conn : conn'[d].phase = "waiting" =>
          conn'[d].prev \in Conn /\ conn'[conn'[d].prev].phase = "live"
    BY <1>1, <2>1 DEF WaitInv, ServerTyped
  <2>5. ~hist'.crowded => \A d \in Conn : conn'[d].phase = "waiting" => d = c /\ waits
    BY <2>1, <2>2
  <2>7. ~hist'.crowded => \A d \in Conn : Serving(d)' => d = running'
    BY <1>1, <2>1, <2>2 DEF WaitInv, Serving
  <2>8. ~hist'.crowded =>
          /\ \A a, b \in Conn : conn'[a].phase = "waiting" /\ conn'[b].phase = "waiting" => a = b
          /\ \A d \in Conn : conn'[d].phase = "waiting" => conn'[d].prev = running'
    BY <2>1, <2>5
  <2>. QED  BY <2>3, <2>4, <2>7, <2>8 DEF WaitInv
<1>3. CASE DroppedEffect(c)
  <2>1. /\ \A d \in Conn : d # c => conn'[d] = conn[d]
        /\ conn'[c].phase = "none" /\ conn[c].phase = "init"
        /\ running' = running /\ hist' = hist
    BY <1>1, <1>3, DroppedPoint DEF DroppedEffect
  <2>. QED  BY <2>1, WaitKept
<1>4. CASE Wake(c)
  <2>1. /\ \A d \in Conn : d # c => conn'[d] = conn[d]
        /\ conn'[c].phase = "live" /\ conn'[c].open = conn[c].open
        /\ running' = c /\ hist' = hist
        /\ conn[c].phase = "waiting" /\ ~conn[conn[c].prev].open
    BY <1>1, <1>4, WakePoint DEF Wake, MayWake
  <2>2. \A d \in Conn : conn'[d].phase = "waiting" => d # c /\ conn[d].phase = "waiting"
    BY <2>1
  <2>3. \A d \in Conn : conn'[d].phase = "waiting" =>
          conn'[d].prev \in Conn /\ conn'[conn'[d].prev].phase = "live"
    BY <1>1, <2>1, <2>2 DEF WaitInv
  <2>4. ~hist.crowded => \A d \in Conn : conn'[d].phase # "waiting"
    BY <1>1, <2>1, <2>2 DEF WaitInv
  <2>5. ~hist.crowded => \A d \in Conn : Serving(d)' => d = c
    BY <1>1, <2>1 DEF WaitInv, Serving
  <2>. QED  BY <2>1, <2>3, <2>4, <2>5 DEF WaitInv
<1>5. CASE Handle(c)
  <2>1. PICK o : HandleEffect(c, o)
    BY <1>5, HandleIs
  <2>2. /\ \A d \in Conn : d # c => conn'[d] = conn[d]
        /\ conn'[c].phase = "live" /\ conn[c].phase = "live" /\ (conn'[c].open => conn[c].open)
        /\ conn'[c].prev = conn[c].prev
        /\ running' = running /\ hist'.crowded = hist.crowded
    BY <1>1, <2>1, HandlePoint DEF HandleEffect, HandledTo, FileStep
  <2>. QED  BY <2>2, WaitKept
<1>7. CASE HandleFails(c)
  <2>1. PICK s, reply, open : FailEffect(c, s, reply, open)
    BY <1>7, HandleFailsIs
  <2>2. /\ \A d \in Conn : d # c => conn'[d] = conn[d]
        /\ conn'[c].phase = "live" /\ conn[c].phase = "live" /\ (conn'[c].open => conn[c].open)
        /\ conn'[c].prev = conn[c].prev
        /\ running' = running /\ hist'.crowded = hist.crowded
    BY <1>1, <2>1, FailPoint DEF FailEffect, FileStep
  <2>. QED  BY <2>2, WaitKept
<1>6. CASE Clean(c)
  <2>1. CleanEffect(c)
    BY <1>1, <1>6, CleanIs
  <2>2. /\ \A d \in Conn : d # c => conn'[d] = conn[d]
        /\ conn'[c].phase = "none" /\ ~conn[c].open /\ conn[c].phase = "live"
        /\ running' = IF running = c THEN NoConn ELSE running
        /\ hist' = hist /\ \A d \in Conn : conn[d].phase = "waiting" => conn[d].prev # c
    BY <1>1, <2>1, DroppedPoint DEF CleanEffect
  <2>3. \A d \in Conn : conn'[d].phase = "waiting" =>
          d # c /\ conn[d].phase = "waiting" /\ conn[d].prev # c
    BY <2>2
  <2>4. \A d \in Conn : Serving(d)' => d # c /\ Serving(d)
    BY <2>2 DEF Serving
  <2>5. running' # NoConn => conn'[running'].phase = "live"
    BY <1>1, <2>2 DEF WaitInv, ServerTyped
  <2>6. \A d \in Conn : conn'[d].phase = "waiting" =>
          conn'[d].prev \in Conn /\ conn'[conn'[d].prev].phase = "live"
    BY <1>1, <2>2, <2>3 DEF WaitInv
  <2>7. ~hist.crowded =>
          /\ \A a, b \in Conn : conn'[a].phase = "waiting" /\ conn'[b].phase = "waiting" => a = b
          /\ \A d \in Conn : conn'[d].phase = "waiting" => conn'[d].prev = running'
          /\ \A d \in Conn : Serving(d)' => d = running'
    BY <1>1, <2>2, <2>3, <2>4 DEF WaitInv
  <2>. QED  BY <2>2, <2>5, <2>6, <2>7 DEF WaitInv
<1>. QED  BY <1>2, <1>3, <1>4, <1>5, <1>6, <1>7, AcceptIs DEF ServerStep

LEMMA WaitByClient ==
  ASSUME Inv, ClientStep
  PROVE  WaitInv'
<1>1. ServerTyped /\ WaitInv /\ running' = running /\ hist' = hist
  BY DEF Inv, Typed, ClientStep
<1>2. \A d \in Conn : ClientPoint(d)
  BY <1>1, ClientPointIs
<1>3. \A d \in Conn :
        \/ conn[d].phase \in {"none", "init"} /\ conn'[d].phase \in {"none", "init"}
        \/ /\ conn'[d].phase = conn[d].phase /\ conn'[d].prev = conn[d].prev
           /\ conn'[d].open => conn[d].open
  <2>1. FreshConn.phase = "init"
    BY DEF FreshConn, NewConn
  <2>. QED  BY <1>2, <2>1 DEF ClientPoint
<1>. QED  BY <1>1, <1>3, WaitKept DEF Inv

LEMMA WaitStep ==
  ASSUME Inv, [Next]_vars
  PROVE  WaitInv'
<1>1. CASE UNCHANGED vars
  BY <1>1 DEF Inv, WaitInv, Serving, vars, serverVars
<1>2. CASE ClientAction
  BY <1>2, ClientIs, WaitByClient
<1>3. CASE \E c \in Conn : ServerStep(c)
  BY <1>3, WaitByServer
<1>4. CASE Crash
  <2>1. running' = NoConn /\ \A c \in Conn : conn'[c].phase = "none"
    BY <1>4, CrashIs, CrashPoint DEF CrashEffect, Inv, Typed
  <2>. QED  BY <2>1 DEF WaitInv, Serving
<1>. QED  BY <1>1, <1>2, <1>3, <1>4, NextIs
--------------------------------------------------------------------------------
(* Messages and echoes.                                                      *)

LEMMA MessageByClient ==
  ASSUME Inv, ClientStep, NEW d \in Conn
  PROVE  MessageAt(d)'
<1>1. ServerTyped /\ MessageAt(d)
  BY DEF Inv, Typed, MessageInv
<1>2. ClientPoint(d)
  BY <1>1, ClientPointIs
<1>3. CASE conn'[d] = FreshConn
  <2>1. FreshConn.phase = "init" /\ FreshConn.inbox.type = "none"
        /\ FreshConn.echo = "none" /\ FreshConn.reply = "none"
    BY DEF FreshConn, NewConn, NoMsg
  <2>. QED  BY <1>3, <2>1 DEF MessageAt, Pending
<1>4. CASE conn'[d] # FreshConn
  <2>1. CASE /\ conn'[d].inbox = conn[d].inbox /\ conn'[d].echo = conn[d].echo
             /\ conn'[d].reply = conn[d].reply /\ conn'[d].open = conn[d].open
             /\ conn'[d].phase = conn[d].phase /\ conn'[d].snap = conn[d].snap
    BY <1>1, <2>1 DEF MessageAt, Pending, Suits
  <2>2. CASE /\ conn'[d].inbox = conn[d].inbox /\ conn'[d].echo = "none"
             /\ conn'[d].reply = "none" /\ ~conn'[d].open
             /\ conn'[d].phase = conn[d].phase /\ conn'[d].snap = conn[d].snap
    BY <1>1, <2>2 DEF MessageAt, Pending, Suits
  <2>3. CASE /\ conn[d].open /\ conn[d].echo # "none" /\ conn'[d].echo = "none"
             /\ Suited(conn'[d].inbox, conn[d].echo) /\ conn'[d].inbox.type # "none"
             /\ conn'[d].phase = conn[d].phase /\ conn'[d].snap = conn[d].snap
    <3>1. conn[d].phase \in {"waiting", "live"} /\ conn'[d].snap = conn[d].echo
      BY <1>1, <2>3 DEF MessageAt
    <3>2. Suits(d)'
      BY <2>3, <3>1 DEF Suits, Suited
    <3>. QED  BY <2>3, <3>1, <3>2 DEF MessageAt
  <2>. QED  BY <1>2, <1>4, <2>1, <2>2, <2>3 DEF ClientPoint
<1>. QED  BY <1>3, <1>4

LEMMA MessageByServer ==
  ASSUME Inv, NEW c \in Conn, ServerStep(c), NEW d \in Conn
  PROVE  MessageAt(d)'
<1>1. ServerTyped /\ MessageAt(c) /\ MessageAt(d) /\ NoMsg.type = "none"
  BY DEF Inv, Typed, MessageInv, NoMsg
<1>2. ASSUME conn'[d] = conn[d] PROVE MessageAt(d)'
  BY <1>1, <1>2 DEF MessageAt, Pending, Suits
<1>3. ASSUME NEW waits, AcceptEffect(c, waits) PROVE MessageAt(d)'
  <2>1. d # c => conn'[d] = conn[d]
    BY <1>1, <1>3, AcceptPoint
  <2>2. /\ conn'[c].phase \in {"live", "waiting"} /\ conn'[c].snap = conn'[c].echo
        /\ conn'[c].inbox = conn[c].inbox /\ conn'[c].reply = conn[c].reply
        /\ conn[c].phase = "init"
    BY <1>1, <1>3, AcceptPoint DEF AcceptEffect
  <2>. QED  BY <1>1, <1>2, <2>1, <2>2 DEF MessageAt, Pending
<1>4. ASSUME conn' = [conn EXCEPT ![c] = EndedConn(conn[c])] PROVE MessageAt(d)'
  <2>1. /\ d # c => conn'[d] = conn[d]
        /\ conn'[c].phase = "none" /\ ~conn'[c].open /\ conn'[c].inbox = NoMsg
    BY <1>1, <1>4, DroppedPoint
  <2>. QED  BY <1>1, <1>2, <2>1 DEF MessageAt, Pending
<1>5. CASE Wake(c)
  <2>1. /\ d # c => conn'[d] = conn[d]
        /\ conn'[c].phase = "live" /\ conn[c].phase = "waiting" /\ conn'[c].open = conn[c].open
        /\ conn'[c].snap = conn[c].snap /\ conn'[c].inbox = conn[c].inbox
        /\ conn'[c].echo = conn[c].echo /\ conn'[c].reply = conn[c].reply
    BY <1>1, <1>5, WakePoint DEF Wake, MayWake
  <2>. QED  BY <1>1, <1>2, <2>1 DEF MessageAt, Pending, Suits
<1>6. CASE Handle(c)
  <2>1. PICK o : HandleEffect(c, o)
    BY <1>6, HandleIs
  <2>2. d # c => conn'[d] = conn[d]
    BY <1>1, <2>1, HandlePoint
  <2>3. /\ conn'[c].phase = "live" /\ (conn'[c].open => conn[c].open)
        /\ conn'[c].inbox = NoMsg /\ conn'[c].echo = conn[c].echo /\ Pending(c)
    BY <1>1, <2>1, HandlePoint DEF HandleEffect
  <2>. QED  BY <1>1, <1>2, <2>2, <2>3 DEF MessageAt, Pending
<1>7. CASE Clean(c)
  BY <1>1, <1>4, <1>7, CleanIs DEF CleanEffect
<1>8. CASE HandleFails(c)
  <2>1. PICK s, reply, open : FailEffect(c, s, reply, open)
    BY <1>8, HandleFailsIs
  <2>2. d # c => conn'[d] = conn[d]
    BY <1>1, <2>1, FailPoint
  <2>3. /\ conn'[c].phase = "live" /\ (conn'[c].open => conn[c].open)
        /\ conn'[c].inbox = NoMsg /\ conn'[c].echo = conn[c].echo /\ Pending(c)
    BY <1>1, <2>1, FailPoint DEF FailEffect
  <2>. QED  BY <1>1, <1>2, <2>2, <2>3 DEF MessageAt, Pending
<1>. QED  BY <1>3, <1>4, <1>5, <1>6, <1>7, <1>8, AcceptIs DEF ServerStep, DroppedEffect

LEMMA MessageStep ==
  ASSUME Inv, [Next]_vars
  PROVE  MessageInv'
<1>1. CASE UNCHANGED vars
  BY <1>1 DEF Inv, MessageInv, MessageAt, Pending, Suits, vars, serverVars
<1>2. CASE ClientAction
  BY <1>2, ClientIs, MessageByClient DEF MessageInv
<1>3. CASE \E c \in Conn : ServerStep(c)
  BY <1>3, MessageByServer DEF MessageInv
<1>4. CASE Crash
  <2>1. NoMsg.type = "none" /\ \A c \in Conn :
          conn'[c].phase = "none" /\ ~conn'[c].open /\ conn'[c].inbox = NoMsg
    BY <1>4, CrashIs, CrashPoint DEF Inv, Typed, NoMsg
  <2>. QED  BY <2>1 DEF MessageInv, MessageAt, Pending
<1>. QED  BY <1>1, <1>2, <1>3, <1>4, NextIs
--------------------------------------------------------------------------------
(* The files the announced states need.                                      *)

\* The files d and the history h are what the state s says they are.
ReadyFor(s, d, h) ==
  /\ s \in {"config_uploaded", "all_ready"} => d.config = "ok" \/ "config" \in h.torn
  /\ s = "all_ready" => Readable(d.edb) \/ "edb" \in h.torn

Fits(s, d, h) == ReadyFor(s, d, h) /\ (s # "not_exists" => d.folder)

LoadableFor(d, h) == {"config", "meta"} \cap h.cut = {} => Loadable(d)

FilesSound(d, h) == h.torn \subseteq h.cut /\ LoadableFor(d, h) /\ ReadyFor(d.meta, d, h)

FileParts ==
  /\ FilesSound(disk, hist)
  /\ \A c \in Conn : conn[c].phase # "none" => Fits(conn[c].snap, disk, hist)

LEMMA FilePartsIs == (FileInv <=> FileParts) /\ (FileInv' <=> FileParts')
<1>1. FileInv <=> FileParts
  <2>1. ReadyHasDatabase <=>
          /\ ReadyFor(disk.meta, disk, hist)
          /\ \A c \in Conn : conn[c].phase # "none" => ReadyFor(conn[c].snap, disk, hist)
    BY DEF ReadyHasDatabase, Announced, ReadyFor
  <2>. QED  BY <2>1 DEF FileInv, FileParts, FilesSound, LoadableAgain, LoadableFor, Fits
<1>2. FileInv' <=> FileParts'
  <2>1. ReadyHasDatabase' <=>
          /\ ReadyFor(disk'.meta, disk', hist')
          /\ \A c \in Conn : conn'[c].phase # "none" => ReadyFor(conn'[c].snap, disk', hist')
    BY DEF ReadyHasDatabase, Announced, ReadyFor
  <2>. QED  BY <2>1 DEF FileInv, FileParts, FilesSound, LoadableAgain, LoadableFor, Fits
<1>. QED  BY <1>1, <1>2

\* A handler, whole or stopped, leaves what each announced state needs.
LEMMA FilesKept ==
  ASSUME disk \in Disk, FilesSound(disk, hist), NEW m \in Message, NEW d, NEW h,
         FileStep(m, d, h), NEW snap \in States, Fits(snap, disk, hist),
         m.type = "upload_edb" => snap # "not_exists"
  PROVE  /\ FilesSound(d, h)
         /\ \A s \in States : Fits(s, disk, hist) => Fits(s, d, h)
<1>1. h.torn \subseteq h.cut /\ hist.torn \subseteq h.torn /\ hist.cut \subseteq h.cut
  BY DEF FileStep, FilesSound
<1>2. ASSUME NEW s, ReadyFor(s, disk, hist) PROVE ReadyFor(s, d, h)
  <2>1. disk.config = "ok" \/ "config" \in hist.torn => d.config = "ok" \/ "config" \in h.torn
    BY <1>1 DEF FileStep
  <2>2. Readable(disk.edb) \/ "edb" \in hist.torn => Readable(d.edb) \/ "edb" \in h.torn
    BY <1>1 DEF FileStep
  <2>. QED  BY <1>2, <2>1, <2>2 DEF ReadyFor
<1>3. disk.folder => d.folder
  BY DEF FileStep
<1>4. CASE Unannounced(d, h)
  <2>1. LoadableFor(d, h)
    BY <1>1, <1>4 DEF FilesSound, LoadableFor, Loadable, Unannounced
  <2>. QED  BY <1>1, <1>2, <1>3, <1>4, <2>1 DEF FilesSound, Fits, Unannounced
<1>5. CASE Lost(d, h)
  <2>1. LoadableFor(d, h) /\ ReadyFor(d.meta, d, h)
    BY <1>5 DEF Lost, LoadableFor, ReadyFor
  <2>. QED  BY <1>1, <1>2, <1>3, <2>1 DEF FilesSound, Fits
<1>6. CASE ConfigStored(d, h)
  <2>1. LoadableFor(d, h) /\ ReadyFor(d.meta, d, h)
    BY <1>6 DEF ConfigStored, LoadableFor, Loadable, ReadyFor, States
  <2>. QED  BY <1>1, <1>2, <1>3, <2>1 DEF FilesSound, Fits
<1>7. CASE DatabaseStored(m, d, h)
  <2>1. /\ d.meta = "all_ready" /\ d.folder = disk.folder /\ d.config = disk.config
        /\ d.edb = m.edb /\ m.edb \in StoredEdb /\ snap \in {"config_uploaded", "all_ready"}
    BY <1>7, MessageIs DEF DatabaseStored, MadeReady, Disk, States
  <2>2. Readable(d.edb)
    BY <2>1, ReadableIs
  <2>3. ReadyFor(d.meta, d, h)
    BY <1>1, <2>1, <2>2 DEF Fits, ReadyFor
  <2>4. LoadableFor(d, h)
    BY <1>1, <2>1 DEF FilesSound, LoadableFor, Loadable, States
  <2>. QED  BY <1>1, <1>2, <1>3, <2>3, <2>4 DEF FilesSound, Fits
<1>. QED  BY <1>4, <1>5, <1>6, <1>7 DEF FileStep

LEMMA FileByClient ==
  ASSUME Inv, ClientStep
  PROVE  FileParts'
<1>1. ServerTyped /\ FileParts /\ disk' = disk /\ hist' = hist
  BY FilePartsIs DEF Inv, Typed, ClientStep
<1>2. ASSUME NEW d \in Conn, conn'[d].phase # "none" PROVE Fits(conn'[d].snap, disk, hist)
  <2>1. ClientPoint(d)
    BY <1>1, ClientPointIs
  <2>2. CASE conn'[d] = FreshConn
    BY <2>2 DEF FreshConn, NewConn, Fits, ReadyFor
  <2>. QED  BY <1>1, <1>2, <2>1, <2>2 DEF ClientPoint, FileParts
<1>. QED  BY <1>1, <1>2 DEF FileParts

LEMMA FileByServer ==
  ASSUME Inv, NEW c \in Conn, ServerStep(c)
  PROVE  FileParts'
<1>1. ServerTyped /\ FileParts /\ disk \in Disk
  BY FilePartsIs DEF Inv, Typed, ServerTyped
<1>2. ASSUME NEW waits, AcceptEffect(c, waits) PROVE FileParts'
  <2>1. disk' = disk /\ hist'.torn = hist.torn /\ hist'.cut = hist.cut
    BY <1>1, <1>2 DEF AcceptEffect, ServerTyped, History
  <2>2. FilesSound(disk', hist') /\ \A s : Fits(s, disk, hist) => Fits(s, disk', hist')
    BY <1>1, <2>1 DEF FileParts, FilesSound, Fits, ReadyFor, LoadableFor
  <2>3. Fits(Snapshot(disk), disk, hist)
    BY <1>1 DEF FileParts, FilesSound, Fits, ReadyFor, Snapshot
  <2>4. conn'[c].snap = Snapshot(disk) /\ \A d \in Conn : d # c => conn'[d] = conn[d]
    BY <1>1, <1>2, AcceptPoint
  <2>. QED  BY <1>1, <2>2, <2>3, <2>4 DEF FileParts
<1>3. CASE DroppedEffect(c)
  <2>1. disk' = disk /\ hist' = hist /\ conn'[c].phase = "none"
        /\ \A d \in Conn : d # c => conn'[d] = conn[d]
    BY <1>1, <1>3, DroppedPoint DEF DroppedEffect
  <2>. QED  BY <1>1, <2>1 DEF FileParts
<1>4. CASE Wake(c)
  <2>1. disk' = disk /\ hist' = hist /\ conn'[c].snap = conn[c].snap /\ conn[c].phase = "waiting"
        /\ \A d \in Conn : d # c => conn'[d] = conn[d]
    BY <1>1, <1>4, WakePoint DEF Wake, MayWake
  <2>. QED  BY <1>1, <2>1 DEF FileParts
<1>5. CASE Handle(c)
  <2>1. PICK o : HandleEffect(c, o)
    BY <1>5, HandleIs
  <2>2. conn[c] \in Connections /\ conn[c].phase = "live" /\ Pending(c)
    BY <1>1, <2>1 DEF HandleEffect, ServerTyped
  <2>10. PICK m \in Message, snap \in States : m = conn[c].inbox /\ snap = conn[c].snap
    BY <2>2 DEF Connections
  <2>11. PICK d, h : d = disk' /\ h = hist'
    OBVIOUS
  <2>3. m = conn[c].inbox /\ snap = conn[c].snap /\ d = disk' /\ h = hist'
    BY <2>10, <2>11
  <2>4. Fits(snap, disk, hist) /\ HandledTo(o, snap, m, d, h)
    BY <1>1, <2>1, <2>2, <2>3 DEF FileParts, HandleEffect
  <2>5. m.type = "upload_edb" => snap # "not_exists"
    BY <2>2, <2>3 DEF Inv, MessageInv, MessageAt, Suits
  <2>6. FilesSound(d, h) /\ \A s \in States : Fits(s, disk, hist) => Fits(s, d, h)
    BY <1>1, <2>3, <2>4, <2>5, FilesKept DEF FileParts, HandledTo
  <2>7. Fits(o.state, d, h)
    <3>1. CASE o.state = snap
      BY <2>4, <2>6, <3>1
    <3>2. CASE o.state = "config_uploaded" /\ ConfigStored(d, h)
      BY <3>2 DEF ConfigStored, Fits, ReadyFor
    <3>3. CASE o.state = "all_ready" /\ snap # "not_exists" /\ DatabaseStored(m, d, h)
      <4>1. d.meta = "all_ready" /\ d.folder = disk.folder /\ disk.folder
        BY <1>1, <2>4, <3>3 DEF DatabaseStored, MadeReady, Disk, Fits
      <4>. QED  BY <2>6, <3>3, <4>1 DEF FilesSound, Fits
    <3>. QED  BY <2>4, <3>1, <3>2, <3>3 DEF HandledTo
  <2>8. conn'[c].snap = o.state /\ \A e \in Conn : e # c => conn'[e] = conn[e]
    BY <1>1, <2>1, HandlePoint
  <2>9. \A e \in Conn : conn[e].snap \in States
    BY <1>1 DEF ServerTyped, Connections
  <2>. QED  BY <1>1, <2>3, <2>6, <2>7, <2>8, <2>9 DEF FileParts
<1>6. CASE Clean(c)
  <2>1. CleanEffect(c)
    BY <1>1, <1>6, CleanIs
  <2>2. hist' = hist /\ conn'[c].phase = "none" /\ conn[c].phase = "live"
        /\ \A d \in Conn : d # c => conn'[d] = conn[d]
    BY <1>1, <2>1, DroppedPoint DEF CleanEffect
  <2>3. CASE disk' = disk
    BY <1>1, <2>2, <2>3 DEF FileParts
  <2>4. CASE disk' = [disk EXCEPT !.meta = conn[c].snap]
    <3>1. disk'.folder = disk.folder /\ disk'.config = disk.config /\ disk'.edb = disk.edb
          /\ disk'.meta = conn[c].snap /\ conn[c].snap \in States
      BY <1>1, <2>4 DEF Disk, ServerTyped, Connections
    <3>2. \A s : /\ Fits(s, disk, hist) => Fits(s, disk', hist)
                 /\ Fits(s, disk, hist) => ReadyFor(s, disk', hist)
      BY <3>1 DEF Fits, ReadyFor
    <3>3. FilesSound(disk', hist)
      BY <1>1, <2>2, <3>1, <3>2 DEF FileParts, FilesSound, LoadableFor, Loadable
    <3>. QED  BY <1>1, <2>2, <3>2, <3>3 DEF FileParts
  <2>. QED  BY <2>1, <2>3, <2>4 DEF CleanEffect
<1>7. CASE HandleFails(c)
  <2>1. PICK s, reply, open : FailEffect(c, s, reply, open)
    BY <1>7, HandleFailsIs
  <2>2. conn[c] \in Connections /\ conn[c].phase = "live" /\ Pending(c)
    BY <1>1, <2>1 DEF FailEffect, ServerTyped
  <2>3. PICK m, snap, d, h :
          /\ m \in Message /\ snap \in States
          /\ m = conn[c].inbox /\ snap = conn[c].snap /\ d = disk' /\ h = hist'
    BY <2>2 DEF Connections
  <2>4. /\ Fits(snap, disk, hist) /\ FileStep(m, d, h)
        /\ s = snap \/ Prepared(s, m, d, h)
    BY <1>1, <2>1, <2>2, <2>3 DEF FileParts, FailEffect
  <2>5. m.type = "upload_edb" => snap # "not_exists"
    BY <2>2, <2>3 DEF Inv, MessageInv, MessageAt, Suits
  <2>6. FilesSound(d, h) /\ \A x \in States : Fits(x, disk, hist) => Fits(x, d, h)
    BY <1>1, <2>3, <2>4, <2>5, FilesKept DEF FileParts
  <2>7. Fits(s, d, h)
    <3>1. CASE s = snap
      <4>1. snap \in States /\ Fits(snap, disk, hist)
        BY <2>3, <2>4
      <4>2. Fits(snap, d, h)
        BY <2>6, <4>1
      <4>. QED  BY <3>1, <4>2
    <3>2. CASE s = "config_uploaded" /\ d.folder /\ d.config = "ok"
      BY <3>2 DEF Fits, ReadyFor
    <3>3. CASE s = "all_ready" /\ d.folder /\ m.type = "upload_edb" /\ Readable(d.edb)
      <4>1. snap \in {"config_uploaded", "all_ready"} /\ Fits(snap, d, h)
        BY <2>3, <2>4, <2>5, <2>6, <3>3 DEF States
      <4>. QED  BY <3>3, <4>1 DEF Fits, ReadyFor
    <3>. QED  BY <2>4, <3>1, <3>2, <3>3 DEF Prepared
  <2>8. conn'[c].snap = s /\ \A e \in Conn : e # c => conn'[e] = conn[e]
    BY <1>1, <2>1, FailPoint
  <2>9. \A e \in Conn : conn[e].snap \in States
    BY <1>1 DEF ServerTyped, Connections
  <2>. QED  BY <1>1, <2>3, <2>6, <2>7, <2>8, <2>9 DEF FileParts
<1>. QED  BY <1>2, <1>3, <1>4, <1>5, <1>6, <1>7, AcceptIs DEF ServerStep

LEMMA FileByCrash ==
  ASSUME Inv, Crash
  PROVE  FileParts'
<1>1. ServerTyped /\ FileParts /\ disk \in Disk /\ hist \in History
  BY FilePartsIs DEF Inv, Typed, ServerTyped
<1>2. \A c \in Conn : conn'[c].phase = "none"
  BY <1>1, CrashIs, CrashPoint
<1>3. CASE CrashBetweenSteps
  BY <1>1, <1>2, <1>3, CrashBetweenStepsIs DEF FileParts
<1>4. ASSUME NEW c \in Conn, CrashInHandler(c) PROVE FileParts'
  <2>1. /\ conn[c].phase = "live" /\ FileStep(conn[c].inbox, disk', hist')
        /\ (conn[c].inbox.type = "upload_edb" => conn[c].snap # "not_exists")
    BY <1>4, CrashInHandlerIs
  <2>2. conn[c].inbox \in Message /\ conn[c].snap \in States
    BY <1>1 DEF ServerTyped, Connections
  <2>10. PICK m \in Message, snap \in States : m = conn[c].inbox /\ snap = conn[c].snap
    BY <2>2
  <2>11. PICK d, h : d = disk' /\ h = hist'
    OBVIOUS
  <2>3. m = conn[c].inbox /\ snap = conn[c].snap /\ d = disk' /\ h = hist'
    BY <2>10, <2>11
  <2>4. Fits(snap, disk, hist)
    BY <1>1, <2>1, <2>3 DEF FileParts
  <2>5. FilesSound(d, h)
    BY <1>1, <2>1, <2>3, <2>4, FilesKept DEF FileParts
  <2>. QED  BY <1>2, <2>3, <2>5 DEF FileParts
<1>5. ASSUME NEW c \in Conn, CrashInClean(c) PROVE FileParts'
  <2>1. disk' = disk \/ disk' = [disk EXCEPT !.meta = "torn"]
    BY <1>1, <1>5, CrashInCleanIs DEF CrashInCleanEffect
  <2>2. hist'.cut = hist.cut \cup {"meta"} /\ hist'.torn = hist.torn \cup {"meta"}
    <3>1. hist' = Cut(hist, "meta", TRUE)
      BY <1>1, <1>5, CrashInCleanIs DEF CrashInCleanEffect
    <3>. QED  BY <1>1, <3>1 DEF Cut, History
  <2>3. ReadyFor(disk'.meta, disk', hist')
    <3>1. CASE disk' = disk
      BY <1>1, <2>2, <3>1 DEF FileParts, FilesSound, ReadyFor
    <3>2. CASE disk' = [disk EXCEPT !.meta = "torn"]
      BY <1>1, <3>2 DEF Disk, ReadyFor
    <3>. QED  BY <2>1, <3>1, <3>2
  <2>4. FilesSound(disk', hist')
    BY <1>1, <2>2, <2>3 DEF FileParts, FilesSound, LoadableFor
  <2>. QED  BY <1>2, <2>4 DEF FileParts
<1>. QED  BY <1>3, <1>4, <1>5 DEF Crash

LEMMA FileStepKept ==
  ASSUME Inv, [Next]_vars
  PROVE  FileInv'
<1>1. CASE UNCHANGED vars
  BY <1>1, FilePartsIs DEF Inv, FileParts, vars, serverVars
<1>2. CASE ClientAction
  BY <1>2, ClientIs, FileByClient, FilePartsIs
<1>3. CASE \E c \in Conn : ServerStep(c)
  BY <1>3, FileByServer, FilePartsIs
<1>4. CASE Crash
  BY <1>4, FileByCrash, FilePartsIs
<1>. QED  BY <1>1, <1>2, <1>3, <1>4, NextIs
--------------------------------------------------------------------------------
(* One connection after the other.                                           *)

LEMMA SeriallyIs ==
  ASSUME Inv, Serially
  PROVE  /\ OneCurrent /\ Agreement /\ ServerTyped /\ WaitInv /\ FileParts
         /\ running # NoConn => running \in Conn
BY FilePartsIs DEF Inv, SerialInv, Typed, ServerTyped

LEMMA SerialByClient ==
  ASSUME Inv, ClientStep, Serially'
  PROVE  (OneCurrent /\ Agreement)'
<1>1. disk' = disk /\ hist' = hist /\ running' = running
  BY DEF ClientStep
<1>2. OneCurrent /\ Agreement /\ ServerTyped /\ WaitInv /\ (running # NoConn => running \in Conn)
  <2>1. Serially
    BY <1>1 DEF Serially
  <2>. QED  BY <2>1, SeriallyIs
<1>3. ASSUME NEW d \in Conn
      PROVE  /\ conn'[d].phase \in {"waiting", "live"} =>
                  /\ conn'[d].phase = conn[d].phase /\ conn'[d].prev = conn[d].prev
                  /\ conn'[d].snap = conn[d].snap
             /\ conn[d].phase = "live" =>
                  /\ conn'[d].snap = conn[d].snap /\ (conn'[d].open => conn[d].open)
             /\ Current(d)' => Current(d)
  <2>1. ClientPoint(d)
    BY <1>2, ClientPointIs
  <2>2. CASE conn[d].phase = "none" /\ conn'[d] = FreshConn
    <3>1. conn'[d].phase = "init"
      BY <2>2 DEF FreshConn, NewConn
    <3>. QED  BY <2>2, <3>1 DEF Current
  <2>. QED  BY <2>1, <2>2 DEF ClientPoint, Current, Pending
<1>4. OneCurrent'
  BY <1>2, <1>3 DEF OneCurrent
<1>5. \A c \in Conn : conn'[c].phase # "waiting"
  BY <1>2, <1>3 DEF Agreement
<1>6. \A c \in Conn : conn'[c].phase = "live" /\ Current(c)' => running = c
  BY <1>2, <1>3 DEF Agreement
<1>7. running # NoConn => conn'[running].snap = hist.reached
  BY <1>2, <1>3 DEF Agreement, WaitInv
<1>8. Snapshot(disk') = hist.reached
  BY <1>1, <1>2 DEF Agreement
<1>. QED  BY <1>1, <1>4, <1>5, <1>6, <1>7, <1>8 DEF Agreement

\* A connection that opens while no other is open finds none that could still
\* write.
LEMMA SerialByAccept ==
  ASSUME Inv, NEW c \in Conn, NEW waits, AcceptEffect(c, waits), Serially'
  PROVE  (OneCurrent /\ Agreement)'
<1>1. ServerTyped
  BY DEF Inv, Typed
<1>2. /\ disk' = disk /\ conn[c].phase = "init" /\ Quiet
      /\ running' = IF waits THEN running ELSE c
      /\ hist'.reached = hist.reached /\ hist'.cut = hist.cut
      /\ ~hist'.overlapped => ~hist.overlapped /\ ~waits /\
           ~(\E d \in Conn : conn[d].phase \in {"waiting", "live"} /\ conn[d].open)
  BY <1>1 DEF AcceptEffect, ServerTyped, History
<1>3. ~waits /\ \A d \in Conn : ~(conn[d].phase \in {"waiting", "live"} /\ conn[d].open)
  BY <1>2 DEF Serially
<1>4. OneCurrent /\ Agreement /\ WaitInv /\ (running # NoConn => running \in Conn)
  <2>1. Serially
    BY <1>2 DEF Serially
  <2>. QED  BY <2>1, SeriallyIs
<1>5. \A d \in Conn : ~Current(d)
  <2>1. \A d \in Conn : conn[d].phase # "waiting"
    BY <1>4 DEF Agreement
  <2>. QED  BY <1>2, <1>3, <2>1 DEF Quiet, Buffered, Current
<1>6. /\ \A d \in Conn : d # c => conn'[d] = conn[d]
      /\ conn'[c].phase = "live" /\ conn'[c].snap = Snapshot(disk)
  BY <1>1, <1>3, AcceptPoint
<1>7. \A d \in Conn : Current(d)' => d = c
  BY <1>5, <1>6 DEF Current, Pending
<1>8. \A d \in Conn : conn'[d].phase # "waiting"
  BY <1>4, <1>6 DEF Agreement
<1>9. \A d \in Conn : conn'[d].phase = "live" /\ Current(d)' => running' = d
  BY <1>2, <1>3, <1>7
<1>10. conn'[running'].snap = hist.reached /\ Snapshot(disk') = hist.reached
  BY <1>2, <1>3, <1>4, <1>6 DEF Agreement
<1>11. OneCurrent'
  BY <1>7 DEF OneCurrent
<1>. QED  BY <1>2, <1>8, <1>9, <1>10, <1>11 DEF Agreement

LEMMA SerialByHandle ==
  ASSUME Inv, NEW c \in Conn, Handle(c), Serially'
  PROVE  (OneCurrent /\ Agreement)'
<1>1. ServerTyped /\ disk \in Disk
  BY DEF Inv, Typed, ServerTyped
<1>2. PICK o : HandleEffect(c, o)
  BY HandleIs
<1>3. /\ conn[c].phase = "live" /\ Pending(c) /\ running' = running
      /\ HandledTo(o, conn[c].snap, conn[c].inbox, disk', hist')
  BY <1>2 DEF HandleEffect
<1>4. OneCurrent /\ Agreement /\ FileParts
  <2>1. Serially
    BY <1>3 DEF HandledTo, FileStep, Serially
  <2>. QED  BY <2>1, SeriallyIs
<1>5. Current(c) /\ running = c /\ \A d \in Conn : Current(d) => d = c
  BY <1>3, <1>4 DEF Current, OneCurrent, Agreement
<1>6. /\ \A d \in Conn : d # c => conn'[d] = conn[d]
      /\ conn'[c].phase = "live" /\ conn'[c].snap = o.state
  BY <1>1, <1>2, HandlePoint
<1>7. \A d \in Conn : Current(d)' => d = c
  BY <1>5, <1>6 DEF Current, Pending
<1>8. \A d \in Conn : conn'[d].phase # "waiting"
  <2>1. ASSUME NEW d \in Conn, conn'[d].phase = "waiting" PROVE FALSE
    <3>1. d = c
      BY <1>7, <2>1 DEF Current
    <3>. QED  BY <1>6, <2>1, <3>1
  <2>. QED  BY <2>1
<1>9. conn[c].snap # "not_exists" => disk.folder
  BY <1>3, <1>4 DEF FileParts, Fits
<1>10. o.state = hist'.reached /\ Snapshot(disk') = hist'.reached
  <2>1. CASE /\ o.state = conn[c].snap /\ hist'.reached = hist.reached
             /\ disk' = [disk EXCEPT !.edb = disk'.edb]
    <3>1. disk'.folder = disk.folder /\ disk'.meta = disk.meta
      BY <1>1, <2>1 DEF Disk
    <3>. QED  BY <1>4, <1>5, <2>1, <3>1, NoConnIs DEF Agreement, Snapshot
  <2>2. CASE o.state = "config_uploaded" /\ ConfigStored(disk', hist')
    BY <2>2 DEF ConfigStored, Snapshot
  <2>3. CASE /\ o.state = "all_ready" /\ conn[c].snap # "not_exists"
             /\ DatabaseStored(conn[c].inbox, disk', hist')
    <3>1. disk'.folder = disk.folder /\ disk'.meta = "all_ready" /\ hist'.reached = "all_ready"
      BY <1>1, <2>3 DEF DatabaseStored, MadeReady, Disk
    <3>. QED  BY <1>9, <2>3, <3>1 DEF Snapshot
  <2>. QED  BY <1>3, <2>1, <2>2, <2>3 DEF HandledTo
<1>11. OneCurrent'
  BY <1>7 DEF OneCurrent
<1>. QED  BY <1>3, <1>5, <1>6, <1>7, <1>8, <1>10, <1>11 DEF Agreement

\* A write that failed before the config and the state left both, and the object,
\* as they were.
LEMMA SerialByFail ==
  ASSUME Inv, NEW c \in Conn, HandleFails(c), Serially'
  PROVE  (OneCurrent /\ Agreement)'
<1>1. ServerTyped
  BY DEF Inv, Typed
<1>2. PICK s, reply, open : FailEffect(c, s, reply, open)
  BY HandleFailsIs
<1>3. /\ running' = running /\ FileStep(conn[c].inbox, disk', hist')
      /\ Unannounced(disk', hist') \/ Lost(disk', hist')
      /\ s = conn[c].snap \/ Prepared(s, conn[c].inbox, disk', hist')
  BY <1>2 DEF FailEffect
<1>4. OneCurrent /\ Agreement
  <2>1. Serially
    BY <1>3 DEF FileStep, Serially
  <2>. QED  BY <2>1, SeriallyIs
<1>5. /\ s = conn[c].snap /\ hist'.reached = hist.reached
      /\ disk'.meta = disk.meta /\ disk'.folder = disk.folder
  BY <1>3 DEF Serially, Lost, Prepared, Unannounced
<1>6. /\ \A d \in Conn : d # c => conn'[d] = conn[d]
      /\ conn[c].phase = "live" /\ conn'[c].phase = "live" /\ conn'[c].snap = conn[c].snap
      /\ conn'[c].open => conn[c].open
      /\ conn'[c].inbox.type = "none"
  <2>1. /\ \A d \in Conn : d # c => conn'[d] = conn[d]
        /\ conn'[c].phase = "live" /\ conn'[c].snap = s
        /\ conn'[c].open => conn[c].open
        /\ conn'[c].inbox = NoMsg
    BY <1>1, <1>2, FailPoint
  <2>2. conn[c].phase = "live"
    BY <1>2 DEF FailEffect
  <2>3. NoMsg.type = "none"
    BY DEF NoMsg
  <2>. QED  BY <1>5, <2>1, <2>2, <2>3
<1>7. \A d \in Conn : /\ conn'[d].phase = conn[d].phase /\ conn'[d].snap = conn[d].snap
                      /\ Current(d)' => Current(d)
  BY <1>6 DEF Current, Pending
<1>8. running # NoConn => running \in Conn
  BY <1>1 DEF ServerTyped
<1>9. OneCurrent'
  BY <1>4, <1>7 DEF OneCurrent
<1>10. Snapshot(disk') = hist'.reached
  BY <1>4, <1>5 DEF Agreement, Snapshot
<1>. QED  BY <1>3, <1>4, <1>5, <1>7, <1>8, <1>9, <1>10 DEF Agreement

LEMMA SerialByServer ==
  ASSUME Inv, NEW c \in Conn, ServerStep(c), Serially'
  PROVE  (OneCurrent /\ Agreement)'
<1>1. ServerTyped
  BY DEF Inv, Typed
<1>2. ASSUME hist' = hist
      PROVE  OneCurrent /\ Agreement /\ WaitInv /\ (running # NoConn => running \in Conn)
  <2>1. Serially
    BY <1>2 DEF Serially
  <2>. QED  BY <2>1, SeriallyIs
<1>3. CASE DroppedEffect(c)
  <2>1. /\ \A d \in Conn : d # c => conn'[d] = conn[d]
        /\ conn'[c].phase = "none" /\ conn[c].phase = "init"
        /\ disk' = disk /\ running' = running /\ hist' = hist
    BY <1>1, <1>3, DroppedPoint DEF DroppedEffect
  <2>2. \A d \in Conn : Current(d)' => d # c /\ Current(d)
    BY <2>1 DEF Current, Pending
  <2>3. running # NoConn => running # c
    BY <1>2, <2>1 DEF WaitInv
  <2>4. \A d \in Conn : conn'[d].phase # "waiting"
    BY <1>2, <2>1 DEF Agreement
  <2>5. OneCurrent'
    BY <1>2, <2>1, <2>2 DEF OneCurrent
  <2>6. Agreement'
    BY <1>2, <2>1, <2>2, <2>3, <2>4 DEF Agreement
  <2>. QED  BY <2>5, <2>6
\* Nobody waits.
<1>4. CASE Wake(c)
  BY <1>2, <1>4 DEF Wake, MayWake, Agreement
<1>5. CASE Clean(c)
  <2>1. CleanEffect(c) /\ disk \in Disk
    BY <1>1, <1>5, CleanIs DEF ServerTyped
  <2>2. /\ \A d \in Conn : d # c => conn'[d] = conn[d]
        /\ conn'[c].phase = "none" /\ conn[c].phase = "live" /\ ~conn[c].open
        /\ running' = IF running = c THEN NoConn ELSE running
        /\ hist' = hist
    BY <1>1, <2>1, DroppedPoint DEF CleanEffect
  <2>3. \A d \in Conn : Current(d)' => d # c /\ Current(d)
    BY <2>2 DEF Current, Pending
  <2>4. \A d \in Conn : conn'[d].phase # "waiting"
    BY <1>2, <2>2 DEF Agreement
  <2>5. Snapshot(disk') = hist.reached
    <3>1. CASE disk' = disk
      BY <1>2, <2>2, <3>1 DEF Agreement
    <3>2. CASE running = c /\ disk.folder /\ disk' = [disk EXCEPT !.meta = conn[c].snap]
      <4>1. disk'.folder /\ disk'.meta = conn[c].snap
        BY <2>1, <3>2 DEF Disk
      <4>. QED  BY <1>2, <2>2, <3>2, <4>1, NoConnIs DEF Agreement, Snapshot
    <3>. QED  BY <2>1, <3>1, <3>2 DEF CleanEffect
  <2>6. \A d \in Conn : conn'[d].phase = "live" /\ Current(d)' => running' = d
    BY <1>2, <2>2, <2>3 DEF Agreement
  <2>7. running' # NoConn => conn'[running'].snap = hist.reached
    BY <1>2, <2>2 DEF Agreement
  <2>9. OneCurrent'
    BY <1>2, <2>2, <2>3 DEF OneCurrent
  <2>. QED  BY <2>2, <2>4, <2>5, <2>6, <2>7, <2>9 DEF Agreement
<1>. QED  BY <1>3, <1>4, <1>5, AcceptIs, SerialByAccept, SerialByHandle, SerialByFail
          DEF ServerStep

LEMMA SerialByCrash ==
  ASSUME Inv, Crash, Serially'
  PROVE  (OneCurrent /\ Agreement)'
<1>1. ServerTyped /\ FileParts /\ disk \in Disk
  BY FilePartsIs DEF Inv, Typed, ServerTyped
<1>2. running' = NoConn /\ \A c \in Conn : conn'[c].phase = "none"
  BY <1>1, CrashIs, CrashPoint DEF CrashEffect
<1>3. Snapshot(disk') = hist'.reached
  <2>1. CASE CrashBetweenSteps
    <3>1. Serially /\ disk' = disk /\ hist' = hist
      BY <2>1, CrashBetweenStepsIs DEF Serially
    <3>. QED  BY <3>1, SeriallyIs DEF Agreement
  <2>2. ASSUME NEW c \in Conn, CrashInHandler(c) PROVE Snapshot(disk') = hist'.reached
    <3>1. /\ conn[c].phase = "live" /\ FileStep(conn[c].inbox, disk', hist')
          /\ (conn[c].inbox.type = "upload_edb" => conn[c].snap # "not_exists")
      BY <2>2, CrashInHandlerIs
    <3>2. Snapshot(disk) = hist.reached
      <4>1. Serially
        BY <3>1 DEF FileStep, Serially
      <4>. QED  BY <4>1, SeriallyIs DEF Agreement
    <3>3. CASE Unannounced(disk', hist')
      BY <3>2, <3>3 DEF Unannounced, Snapshot, Serially
    <3>4. CASE Lost(disk', hist')
      BY <3>4 DEF Lost, Serially
    <3>5. CASE ConfigStored(disk', hist')
      BY <3>5 DEF ConfigStored, Snapshot
    <3>6. CASE DatabaseStored(conn[c].inbox, disk', hist')
      <4>1. disk.folder
        BY <1>1, <3>1, <3>6 DEF DatabaseStored, FileParts, Fits
      <4>2. disk'.folder = disk.folder /\ disk'.meta = "all_ready" /\ hist'.reached = "all_ready"
        BY <1>1, <3>6 DEF DatabaseStored, MadeReady, Disk
      <4>. QED  BY <4>1, <4>2 DEF Snapshot
    <3>. QED  BY <3>1, <3>3, <3>4, <3>5, <3>6 DEF FileStep
  <2>3. ASSUME NEW c \in Conn, CrashInClean(c) PROVE Snapshot(disk') = hist'.reached
    <3>1. hist \in History /\ hist' = Cut(hist, "meta", TRUE)
      BY <1>1, <2>3, CrashInCleanIs DEF CrashInCleanEffect, ServerTyped
    <3>2. "meta" \in hist'.cut
      BY <3>1 DEF Cut, History
    <3>. QED  BY <3>2 DEF Serially
  <2>. QED  BY <2>1, <2>2, <2>3 DEF Crash
<1>. QED  BY <1>2, <1>3 DEF OneCurrent, Agreement, Current

LEMMA SerialStep ==
  ASSUME Inv, [Next]_vars
  PROVE  SerialInv'
<1>1. CASE UNCHANGED vars
  BY <1>1 DEF Inv, SerialInv, Serially, OneCurrent, Agreement, Current, Pending, vars, serverVars
<1>2. CASE ClientAction
  BY <1>2, ClientIs, SerialByClient DEF SerialInv
<1>3. CASE \E c \in Conn : ServerStep(c)
  BY <1>3, SerialByServer DEF SerialInv
<1>4. CASE Crash
  BY <1>4, SerialByCrash DEF SerialInv
<1>. QED  BY <1>1, <1>2, <1>3, <1>4, NextIs
--------------------------------------------------------------------------------
(* Databases without a gap.                                                  *)

\* The client's database is replaced by a new encryption, or deleted when an
\* upload was answered.
LEMMA LocalEdbIs ==
  ASSUME Inv, ClientAction
  PROVE  \/ local'.edb = local.edb
         \/ \E k \in Keys, g \in Gens : local'.edb = EDBSetup(k, g, PlainDB)
         \/ /\ local'.edb = NoEdb
            /\ \E p \in Proc : /\ Receive(p) /\ conn[proc[p].conn].reply = "ok"
                               /\ proc[p].command = "upload_encrypted_database"
<1>1. ClientTyped /\ local \in Folder
  BY DEF Inv, Typed, ClientTyped
<1>2. CASE GenerateKey
  BY <1>1, <1>2 DEF GenerateKey, Folder
<1>3. CASE EncryptDatabase
  <2>1. local.key \in Keys /\ local.made + 1 \in Gens
    BY <1>1, <1>3 DEF EncryptDatabase, ClientTyped, Folder
  <2>2. local'.edb = EDBSetup(local.key, local.made + 1, PlainDB)
    BY <1>1, <1>3 DEF EncryptDatabase, Folder
  <2>. QED  BY <2>1, <2>2
<1>4. ASSUME NEW p \in Proc, NEW cmd \in Commands, Connect(p, cmd) PROVE local'.edb = local.edb
  BY <1>4 DEF Connect
<1>5. ASSUME NEW p \in Proc, ConnectFailed(p) \/ Timeout(p) \/ Close(p) \/ Kill(p)
      PROVE  local'.edb = local.edb
  BY <1>1, <1>5 DEF ConnectFailed, Timeout, Close, Kill, Folder
<1>6. ASSUME NEW p \in Proc, Send(p) PROVE local'.edb = local.edb
  BY <1>1, <1>6, SendIs DEF SentBy, Folder
<1>7. ASSUME NEW p \in Proc, Receive(p)
      PROVE  \/ local'.edb = local.edb
             \/ /\ local'.edb = NoEdb /\ conn[proc[p].conn].reply = "ok"
                /\ proc[p].command = "upload_encrypted_database"
  <2>1. local'.edb = EchoEdb(p, conn[proc[p].conn].reply)
    BY <1>1, <1>7 DEF Receive, Folder
  <2>. QED  BY <2>1 DEF EchoEdb, Uploaded
<1>. QED  BY <1>2, <1>3, <1>4, <1>5, <1>6, <1>7 DEF ClientAction, Step

LEMMA GapByClient ==
  ASSUME Inv, ClientAction
  PROVE  GapInv'
<1>1. GapInv /\ ServerTyped /\ ClientStep /\ disk' = disk /\ hist' = hist
  BY ClientIs DEF Inv, Typed, ClientStep
<1>2. local'.edb # NoEdb => NoGap(local'.edb)
  <2>1. \A k \in Keys, g \in Gens : NoGap(EDBSetup(k, g, PlainDB))
    BY SetupIs
  <2>. QED  BY <1>1, <2>1, LocalEdbIs DEF GapInv
<1>3. ASSUME NEW c \in Conn, conn'[c].inbox.type = "upload_edb" PROVE NoGap(conn'[c].inbox.edb)
  <2>1. ClientPoint(c)
    BY <1>1, ClientPointIs
  <2>2. FreshConn.inbox.type = "none"
    BY DEF FreshConn, NewConn, NoMsg
  <2>. QED  BY <1>1, <1>3, <2>1, <2>2 DEF ClientPoint, GapInv
<1>. QED  BY <1>1, <1>2, <1>3 DEF GapInv, DatabaseWithoutGap

LEMMA GapOnDisk ==
  ASSUME GapInv, NEW c \in Conn, FileStep(conn[c].inbox, disk', hist')
  PROVE  DatabaseWithoutGap'
<1>1. ASSUME Readable(disk'.edb), ~hist'.gapped PROVE NoGap(disk'.edb)
  <2>1. ~hist.gapped /\ ~ByPosition(conn[c].inbox)
    BY <1>1 DEF FileStep
  <2>2. Readable(disk.edb) => NoGap(disk.edb)
    BY <2>1 DEF GapInv, DatabaseWithoutGap
  <2>3. conn[c].inbox.type = "upload_edb" => NoGap(conn[c].inbox.edb)
    BY DEF GapInv
  <2>4. \/ disk'.edb = disk.edb
        \/ conn[c].inbox.type = "upload_edb" /\ disk'.edb = conn[c].inbox.edb
        \/ Readable(disk.edb) /\ (NoGap(disk.edb) /\ ~ByPosition(conn[c].inbox) => NoGap(disk'.edb))
    BY <1>1 DEF FileStep
  <2>. QED  BY <1>1, <2>1, <2>2, <2>3, <2>4
<1>. QED  BY <1>1 DEF DatabaseWithoutGap

\* The other steps of the server leave the database, and bring no message.
LEMMA GapKept ==
  ASSUME Inv, UNCHANGED clientVars,
         \A d \in Conn : conn'[d].inbox = conn[d].inbox \/ conn'[d].inbox = NoMsg,
         \/ disk'.edb = disk.edb /\ (hist'.gapped <=> hist.gapped)
         \/ \E c \in Conn : FileStep(conn[c].inbox, disk', hist')
  PROVE  GapInv'
<1>1. GapInv /\ local' = local
  BY DEF Inv, clientVars
<1>2. DatabaseWithoutGap'
  BY <1>1, GapOnDisk DEF GapInv, DatabaseWithoutGap
<1>3. \A d \in Conn : conn'[d].inbox.type = "upload_edb" => NoGap(conn'[d].inbox.edb)
  BY <1>1 DEF GapInv, NoMsg
<1>. QED  BY <1>1, <1>2, <1>3 DEF GapInv

LEMMA GapByServer ==
  ASSUME Inv, UNCHANGED clientVars, NEW c \in Conn, ServerStep(c)
  PROVE  GapInv'
<1>1. ServerTyped /\ disk \in Disk
  BY DEF Inv, Typed, ServerTyped
<1>2. ASSUME NEW waits, AcceptEffect(c, waits) PROVE GapInv'
  <2>1. \A d \in Conn : conn'[d].inbox = conn[d].inbox
    BY <1>1, <1>2, AcceptPoint
  <2>2. disk' = disk /\ (hist'.gapped <=> hist.gapped)
    BY <1>1, <1>2 DEF AcceptEffect, ServerTyped, History
  <2>. QED  BY <2>1, <2>2, GapKept
<1>3. CASE DroppedEffect(c)
  <2>1. \A d \in Conn : conn'[d].inbox = conn[d].inbox \/ conn'[d].inbox = NoMsg
    BY <1>1, <1>3, DroppedPoint DEF DroppedEffect
  <2>. QED  BY <1>3, <2>1, GapKept DEF DroppedEffect
<1>4. CASE Wake(c)
  <2>1. \A d \in Conn : conn'[d].inbox = conn[d].inbox
    BY <1>1, <1>4, WakePoint
  <2>. QED  BY <1>4, <2>1, GapKept DEF Wake
<1>5. CASE Handle(c)
  <2>1. PICK o : HandleEffect(c, o)
    BY <1>5, HandleIs
  <2>2. \A d \in Conn : conn'[d].inbox = conn[d].inbox \/ conn'[d].inbox = NoMsg
    BY <1>1, <2>1, HandlePoint
  <2>. QED  BY <2>1, <2>2, GapKept DEF HandleEffect, HandledTo
<1>6. CASE Clean(c)
  <2>1. CleanEffect(c)
    BY <1>1, <1>6, CleanIs
  <2>2. \A d \in Conn : conn'[d].inbox = conn[d].inbox \/ conn'[d].inbox = NoMsg
    BY <1>1, <2>1, DroppedPoint DEF CleanEffect
  <2>3. disk'.edb = disk.edb /\ hist' = hist
    BY <1>1, <2>1 DEF CleanEffect, Disk
  <2>. QED  BY <2>2, <2>3, GapKept
<1>7. CASE HandleFails(c)
  <2>1. PICK s, reply, open : FailEffect(c, s, reply, open)
    BY <1>7, HandleFailsIs
  <2>2. \A d \in Conn : conn'[d].inbox = conn[d].inbox \/ conn'[d].inbox = NoMsg
    BY <1>1, <2>1, FailPoint
  <2>. QED  BY <2>1, <2>2, GapKept DEF FailEffect
<1>. QED  BY <1>2, <1>3, <1>4, <1>5, <1>6, <1>7, AcceptIs DEF ServerStep

LEMMA GapByCrash ==
  ASSUME Inv, UNCHANGED clientVars, Crash
  PROVE  GapInv'
<1>1. ServerTyped /\ disk \in Disk /\ hist \in History
  BY DEF Inv, Typed, ServerTyped
<1>2. \A d \in Conn : conn'[d].inbox = conn[d].inbox \/ conn'[d].inbox = NoMsg
  BY <1>1, CrashIs, CrashPoint
<1>3. CASE CrashBetweenSteps
  BY <1>2, <1>3, CrashBetweenStepsIs, GapKept
<1>4. ASSUME NEW c \in Conn, CrashInHandler(c) PROVE GapInv'
  BY <1>2, <1>4, CrashInHandlerIs, GapKept
<1>5. ASSUME NEW c \in Conn, CrashInClean(c) PROVE GapInv'
  <2>1. /\ disk' = disk \/ disk' = [disk EXCEPT !.meta = "torn"]
        /\ hist' = Cut(hist, "meta", TRUE)
    BY <1>1, <1>5, CrashInCleanIs DEF CrashInCleanEffect
  <2>2. disk'.edb = disk.edb /\ (hist'.gapped <=> hist.gapped)
    BY <1>1, <2>1 DEF Disk, Cut, History
  <2>. QED  BY <1>2, <2>2, GapKept
<1>. QED  BY <1>3, <1>4, <1>5 DEF Crash

LEMMA GapStep ==
  ASSUME Inv, [Next]_vars
  PROVE  GapInv'
<1>1. CASE UNCHANGED vars
  BY <1>1 DEF Inv, GapInv, DatabaseWithoutGap, vars, serverVars, clientVars
<1>. QED  BY <1>1, NextIs, GapByClient, GapByServer, GapByCrash
--------------------------------------------------------------------------------
(* Answers and the uploads they belong to.                                   *)

\* What a step of the server does to a connection's message and answer: an
\* upload is answered "ok" when its database is stored.
ServerPoint(d) ==
  /\ conn'[d].inbox.type # "none" => conn'[d].inbox = conn[d].inbox
  /\ \/ conn'[d].reply = conn[d].reply
     \/ /\ Pending(d)
        /\ conn'[d].reply = "ok" /\ conn[d].inbox.type = "upload_edb" =>
             conn[d].inbox.edb.gen \in hist'.stored

LEMMA DeliveryByServer ==
  ASSUME Inv, UNCHANGED clientVars, hist.stored \subseteq hist'.stored,
         \A d \in Conn : ServerPoint(d)
  PROVE  DeliveryInv'
<1>1. DeliveryInv /\ proc' = proc
  BY DEF Inv, clientVars
<1>2. OwnConnections'
  BY <1>1 DEF DeliveryInv, OwnConnections
<1>3. ASSUME NEW p \in Proc PROVE DeliveredTo(p)'
  <2>1. CASE proc[p].phase = "idle"
    BY <1>1, <2>1 DEF DeliveredTo, Uploads
  <2>2. CASE proc[p].phase # "idle"
    <3>1. proc[p].conn \in Conn
      BY <2>2, RunsIs
    <3>2. PICK c \in Conn : c = proc[p].conn /\ c = proc'[p].conn
      BY <1>1, <3>1
    <3>3. ServerPoint(c) /\ DeliveredTo(p) /\ (Uploads(p)' <=> Uploads(p))
      BY <1>1, <3>2 DEF DeliveryInv, Uploads
    <3>4. proc[p].phase = "connecting" => conn'[c].reply = "none" /\ ~Pending(c)'
      BY <3>2, <3>3 DEF ServerPoint, DeliveredTo, Pending
    <3>5. Uploads(p) => /\ conn'[c].inbox.type # "none" =>
                             /\ conn'[c].inbox.type = "upload_edb"
                             /\ conn'[c].inbox.edb.gen = proc[p].sent
                        /\ conn'[c].reply = "ok" => proc[p].sent \in hist'.stored
      BY <3>2, <3>3 DEF ServerPoint, DeliveredTo, Pending
    <3>. QED  BY <1>1, <3>2, <3>3, <3>4, <3>5 DEF DeliveredTo, Pending
  <2>. QED  BY <2>1, <2>2
<1>. QED  BY <1>2, <1>3 DEF DeliveryInv

LEMMA ServerPointIs ==
  ASSUME Inv, (\E c \in Conn : ServerStep(c)) \/ Crash
  PROVE  hist.stored \subseteq hist'.stored /\ \A d \in Conn : ServerPoint(d)
<1>1. ServerTyped /\ hist \in History /\ NoMsg.type = "none"
  BY DEF Inv, Typed, ServerTyped, NoMsg
<1>2. ASSUME NEW d \in Conn, conn'[d].inbox = conn[d].inbox \/ conn'[d].inbox = NoMsg,
             conn'[d].reply = conn[d].reply
      PROVE  ServerPoint(d)
  BY <1>1, <1>2 DEF ServerPoint
<1>3. ASSUME NEW c \in Conn, NEW waits, AcceptEffect(c, waits)
      PROVE  hist.stored \subseteq hist'.stored /\ \A d \in Conn : ServerPoint(d)
  <2>1. \A d \in Conn : conn'[d].inbox = conn[d].inbox /\ conn'[d].reply = conn[d].reply
    BY <1>1, <1>3, AcceptPoint
  <2>2. hist'.stored = hist.stored
    BY <1>1, <1>3 DEF AcceptEffect, History
  <2>. QED  BY <1>2, <2>1, <2>2
<1>4. ASSUME NEW c \in Conn, conn' = [conn EXCEPT ![c] = EndedConn(conn[c])], hist' = hist
      PROVE  hist.stored \subseteq hist'.stored /\ \A d \in Conn : ServerPoint(d)
  <2>1. \A d \in Conn : /\ conn'[d].inbox = conn[d].inbox \/ conn'[d].inbox = NoMsg
                        /\ conn'[d].reply = conn[d].reply
    BY <1>1, <1>4, DroppedPoint
  <2>. QED  BY <1>2, <1>4, <2>1
<1>5. ASSUME NEW c \in Conn, Wake(c)
      PROVE  hist.stored \subseteq hist'.stored /\ \A d \in Conn : ServerPoint(d)
  <2>1. \A d \in Conn : conn'[d].inbox = conn[d].inbox /\ conn'[d].reply = conn[d].reply
    BY <1>1, <1>5, WakePoint
  <2>. QED  BY <1>2, <1>5, <2>1 DEF Wake
<1>6. ASSUME NEW c \in Conn, Handle(c)
      PROVE  hist.stored \subseteq hist'.stored /\ \A d \in Conn : ServerPoint(d)
  <2>1. PICK o : HandleEffect(c, o)
    BY <1>6, HandleIs
  <2>2. /\ Pending(c) /\ HandledTo(o, conn[c].snap, conn[c].inbox, disk', hist')
        /\ hist.stored \subseteq hist'.stored
    BY <2>1 DEF HandleEffect, HandledTo, FileStep
  <2>3. /\ \A d \in Conn : d # c => conn'[d] = conn[d]
        /\ conn'[c].inbox = NoMsg
        /\ conn'[c].reply = IF conn[c].open THEN o.reply ELSE "none"
    BY <1>1, <2>1, HandlePoint
  <2>4. conn'[c].reply = "ok" /\ conn[c].inbox.type = "upload_edb" =>
          conn[c].inbox.edb.gen \in hist'.stored
    BY <2>2, <2>3 DEF HandledTo, DatabaseStored
  <2>5. ServerPoint(c)
    BY <1>1, <2>2, <2>3, <2>4 DEF ServerPoint
  <2>. QED  BY <1>2, <2>2, <2>3, <2>5
<1>7. ASSUME NEW c \in Conn, Clean(c)
      PROVE  hist.stored \subseteq hist'.stored /\ \A d \in Conn : ServerPoint(d)
  BY <1>1, <1>4, <1>7, CleanIs DEF CleanEffect
<1>9. ASSUME NEW c \in Conn, HandleFails(c)
      PROVE  hist.stored \subseteq hist'.stored /\ \A d \in Conn : ServerPoint(d)
  <2>1. PICK s, reply, open : FailEffect(c, s, reply, open)
    BY <1>9, HandleFailsIs
  <2>2. Pending(c) /\ hist.stored \subseteq hist'.stored /\ reply # "ok"
    BY <2>1 DEF FailEffect, FileStep
  <2>3. /\ \A d \in Conn : d # c => conn'[d] = conn[d]
        /\ conn'[c].inbox = NoMsg /\ conn'[c].reply = reply
    BY <1>1, <2>1, FailPoint
  <2>4. ServerPoint(c)
    BY <1>1, <2>2, <2>3 DEF ServerPoint
  <2>. QED  BY <1>2, <2>2, <2>3, <2>4
<1>8. CASE Crash
  <2>1. \A d \in Conn : ServerPoint(d)
    BY <1>1, <1>2, <1>8, CrashIs, CrashPoint
  <2>2. ASSUME NEW c \in Conn, CrashInClean(c) PROVE hist.stored \subseteq hist'.stored
    BY <1>1, <2>2, CrashInCleanIs DEF CrashInCleanEffect, Cut, History
  <2>3. hist.stored \subseteq hist'.stored
    BY <1>8, <2>2, CrashBetweenStepsIs, CrashInHandlerIs DEF Crash, FileStep
  <2>. QED  BY <2>1, <2>3
<1>. QED  BY <1>3, <1>4, <1>5, <1>6, <1>7, <1>8, <1>9, AcceptIs DEF ServerStep, DroppedEffect

\* A command that ends, or goes on, leaves the others alone.
LEMMA DeliveryByEnd ==
  ASSUME Inv, NEW p \in Proc, proc[p].phase # "idle", Hangup(p, proc[p].conn), hist' = hist
  PROVE  DeliveryInv'
<1>1. /\ DeliveryInv /\ proc \in [Proc -> Processes] /\ conn \in [Conn -> Connections]
      /\ proc[p].conn \in Conn
  BY RunsIs DEF Inv, Typed, ServerTyped, ClientTyped
<1>2. PICK c \in Conn : c = proc[p].conn
  BY <1>1
<1>3. /\ \A d \in Conn : d # c => conn'[d] = conn[d]
      /\ proc'[p] = Idle /\ \A q \in Proc : q # p => proc'[q] = proc[q]
  BY <1>1, <1>2, HangupIs
<1>4. \A q \in Proc : q # p => proc[q].conn # c
  BY <1>1, <1>2, NoConnIs DEF DeliveryInv, OwnConnections
<1>5. OwnConnections'
  BY <1>1, <1>3, IdleIs DEF DeliveryInv, OwnConnections
<1>6. ASSUME NEW q \in Proc PROVE DeliveredTo(q)'
  <2>1. CASE q = p
    BY <1>3, <2>1, IdleIs DEF DeliveredTo, Uploads
  <2>2. CASE q # p /\ proc[q].phase = "idle"
    BY <1>3, <2>2 DEF DeliveredTo, Uploads
  <2>3. CASE q # p /\ proc[q].phase # "idle"
    <3>1. proc[q].conn \in Conn
      BY <2>3, RunsIs
    <3>2. proc'[q] = proc[q] /\ conn'[proc[q].conn] = conn[proc[q].conn]
      BY <1>3, <1>4, <2>3, <3>1
    <3>. QED  BY <1>1, <3>2 DEF DeliveryInv, DeliveredTo, Uploads, Pending
  <2>. QED  BY <2>1, <2>2, <2>3
<1>. QED  BY <1>5, <1>6 DEF DeliveryInv

LEMMA DeliveryByConnect ==
  ASSUME Inv, NEW p \in Proc, NEW cmd \in Commands, Connect(p, cmd)
  PROVE  DeliveryInv'
<1>1. DeliveryInv /\ proc \in [Proc -> Processes] /\ conn \in [Conn -> Connections]
  BY DEF Inv, Typed, ServerTyped, ClientTyped
<1>2. PICK c \in Conn :
        /\ Unused(c)
        /\ conn' = [conn EXCEPT ![c] = FreshConn]
        /\ proc' = [proc EXCEPT ![p] = [Idle EXCEPT !.phase = "connecting", !.conn = c,
                                                    !.command = cmd, !.bits = local.bits]]
  BY DEF Connect, FreshConn
<1>3. /\ \A d \in Conn : d # c => conn'[d] = conn[d]
      /\ conn'[c].inbox.type = "none" /\ conn'[c].reply = "none"
      /\ proc'[p].phase = "connecting" /\ proc'[p].conn = c
      /\ \A q \in Proc : q # p => proc'[q] = proc[q]
      /\ hist' = hist
  BY <1>1, <1>2 DEF Connect, FreshConn, NewConn, NoMsg, Idle
<1>4. c # NoConn /\ \A q \in Proc : proc[q].conn # c
  BY <1>2, NoConnIs DEF Unused
<1>5. OwnConnections'
  BY <1>1, <1>3, <1>4 DEF DeliveryInv, OwnConnections
<1>6. ASSUME NEW q \in Proc PROVE DeliveredTo(q)'
  <2>1. CASE q = p
    BY <1>3, <2>1 DEF DeliveredTo, Uploads, Pending
  <2>2. CASE q # p /\ proc[q].phase = "idle"
    BY <1>3, <2>2 DEF DeliveredTo, Uploads
  <2>3. CASE q # p /\ proc[q].phase # "idle"
    <3>1. proc[q].conn \in Conn
      BY <2>3, RunsIs
    <3>2. proc'[q] = proc[q] /\ conn'[proc[q].conn] = conn[proc[q].conn]
      BY <1>3, <1>4, <2>3, <3>1
    <3>. QED  BY <1>1, <1>3, <3>2 DEF DeliveryInv, DeliveredTo, Uploads, Pending
  <2>. QED  BY <2>1, <2>2, <2>3
<1>. QED  BY <1>5, <1>6 DEF DeliveryInv

LEMMA DeliveryBySend ==
  ASSUME Inv, NEW p \in Proc, proc[p].phase = "connecting", NEW m, SentBy(p, m), hist' = hist
  PROVE  DeliveryInv'
<1>1. /\ DeliveryInv /\ proc \in [Proc -> Processes] /\ conn \in [Conn -> Connections]
      /\ proc[p].conn \in Conn
  BY RunsIs DEF Inv, Typed, ServerTyped, ClientTyped
<1>2. PICK c \in Conn : c = proc[p].conn
  BY <1>1
<1>3. /\ conn' = [conn EXCEPT ![c].inbox = m, ![c].echo = "none"]
      /\ (m.type = "upload_edb" => m.edb = local.edb)
      /\ (m.type = "upload_edb") = (proc[p].command = "upload_encrypted_database")
  BY <1>2 DEF SentBy, Sends
<1>10. PICK s : s = IF m.type = "upload_edb" THEN local.edb.gen ELSE 0
  OBVIOUS
<1>11. PICK bits \in SUBSET Bits :
         proc' = [proc EXCEPT ![p].phase = "awaiting", ![p].bits = bits,
                    ![p].sent = IF m.type = "upload_edb" THEN local.edb.gen ELSE 0]
  BY DEF SentBy
<1>4. proc' = [proc EXCEPT ![p].phase = "awaiting", ![p].bits = bits, ![p].sent = s]
  BY <1>10, <1>11
<1>5. /\ \A d \in Conn : d # c => conn'[d] = conn[d]
      /\ conn'[c].inbox = m /\ conn'[c].reply = conn[c].reply
  BY <1>1, <1>3 DEF Connections
<1>6. /\ proc'[p].phase = "awaiting" /\ proc'[p].conn = c /\ proc'[p].sent = s
      /\ proc'[p].command = proc[p].command
      /\ \A q \in Proc : q # p => proc'[q] = proc[q]
  BY <1>1, <1>2, <1>4 DEF Processes
<1>7. \A q \in Proc : q # p => proc[q].conn # c
  BY <1>1, <1>2, NoConnIs DEF DeliveryInv, OwnConnections
<1>8. OwnConnections'
  BY <1>1, <1>2, <1>6, <1>7, NoConnIs DEF DeliveryInv, OwnConnections
<1>9. ASSUME NEW q \in Proc PROVE DeliveredTo(q)'
  <2>1. CASE q = p
    <3>1. conn[c].reply = "none"
      BY <1>1, <1>2 DEF DeliveryInv, DeliveredTo
    <3>2. Uploads(p)' => m.type = "upload_edb" /\ m.edb.gen = s
      BY <1>3, <1>6, <1>10 DEF Uploads
    <3>. QED  BY <1>5, <1>6, <2>1, <3>1, <3>2 DEF DeliveredTo
  <2>2. CASE q # p /\ proc[q].phase = "idle"
    BY <1>6, <2>2 DEF DeliveredTo, Uploads
  <2>3. CASE q # p /\ proc[q].phase # "idle"
    <3>1. proc[q].conn \in Conn
      BY <2>3, RunsIs
    <3>2. proc'[q] = proc[q] /\ conn'[proc[q].conn] = conn[proc[q].conn]
      BY <1>5, <1>6, <1>7, <2>3, <3>1
    <3>. QED  BY <1>1, <3>2 DEF DeliveryInv, DeliveredTo, Uploads, Pending
  <2>. QED  BY <2>1, <2>2, <2>3
<1>. QED  BY <1>8, <1>9 DEF DeliveryInv

LEMMA DeliveryByClient ==
  ASSUME Inv, ClientAction
  PROVE  DeliveryInv'
<1>1. DeliveryInv /\ proc \in [Proc -> Processes] /\ hist' = hist
  BY ClientIs DEF Inv, Typed, ClientTyped, ClientStep
<1>2. CASE GenerateKey \/ EncryptDatabase
  BY <1>1, <1>2 DEF GenerateKey, EncryptDatabase, serverVars, DeliveryInv, OwnConnections,
                    DeliveredTo, Uploads, Pending
<1>3. ASSUME NEW p \in Proc, ConnectFailed(p) \/ Receive(p) \/ Close(p) \/ Kill(p)
      PROVE  DeliveryInv'
  <2>1. proc[p].phase # "idle" /\ Hangup(p, proc[p].conn)
    BY <1>3 DEF ConnectFailed, Receive, Close, Kill
  <2>. QED  BY <1>1, <2>1, DeliveryByEnd
<1>4. ASSUME NEW p \in Proc, Send(p) PROVE DeliveryInv'
  <2>1. proc[p].phase = "connecting" /\ ((\E m : SentBy(p, m)) \/ Hangup(p, proc[p].conn))
    BY <1>4, SendIs
  <2>. QED  BY <1>1, <2>1, DeliveryBySend, DeliveryByEnd
<1>5. ASSUME NEW p \in Proc, Timeout(p) PROVE DeliveryInv'
  <2>1. proc[p].phase = "awaiting" /\ conn' = conn
        /\ proc' = [proc EXCEPT ![p].phase = "closing"]
    BY <1>5 DEF Timeout, serverVars
  <2>2. /\ proc'[p].phase = "closing" /\ proc'[p].conn = proc[p].conn
        /\ proc'[p].sent = proc[p].sent /\ proc'[p].command = proc[p].command
        /\ \A q \in Proc : q # p => proc'[q] = proc[q]
    BY <1>1, <2>1 DEF Processes
  <2>3. OwnConnections'
    BY <1>1, <2>1, <2>2 DEF DeliveryInv, OwnConnections
  <2>4. ASSUME NEW q \in Proc PROVE DeliveredTo(q)'
    <3>1. DeliveredTo(q)
      BY <1>1 DEF DeliveryInv
    <3>2. CASE q = p
      BY <1>1, <2>1, <2>2, <3>1, <3>2 DEF DeliveredTo, Uploads, Pending
    <3>3. CASE q # p
      BY <1>1, <2>1, <2>2, <3>1, <3>3 DEF DeliveredTo, Uploads, Pending
    <3>. QED  BY <3>2, <3>3
  <2>. QED  BY <2>3, <2>4 DEF DeliveryInv
<1>. QED  BY <1>2, <1>3, <1>4, <1>5, DeliveryByConnect DEF ClientAction, Step

LEMMA DeliveryStep ==
  ASSUME Inv, [Next]_vars
  PROVE  DeliveryInv'
<1>1. CASE UNCHANGED vars
  BY <1>1 DEF Inv, DeliveryInv, OwnConnections, DeliveredTo, Uploads, Pending, vars,
              serverVars, clientVars
<1>2. CASE ClientAction
  BY <1>2, DeliveryByClient
<1>3. CASE UNCHANGED clientVars /\ ((\E c \in Conn : ServerStep(c)) \/ Crash)
  BY <1>3, ServerPointIs, DeliveryByServer
<1>. QED  BY <1>1, <1>2, <1>3, NextIs
--------------------------------------------------------------------------------
(* The numbers of the databases.                                             *)

LEMMA NumbersIs ==
  ASSUME ClientTyped
  PROVE  /\ local.made \in Nat /\ (local.edb # NoEdb => local.edb.gen \in Nat)
         /\ \A q \in Proc : proc[q].sent \in Nat
<1>1. local.made \in Gens \cup {0} /\ local.edb \in StoredEdb \cup {NoEdb}
  BY DEF ClientTyped, Folder
<1>2. \A q \in Proc : proc[q].sent \in Gens \cup {0}
  BY DEF ClientTyped, Processes
<1>3. local.edb # NoEdb => local.edb.gen \in Gens
  BY <1>1, ReadableIs
<1>4. \A g : g \in Gens \cup {0} => g \in Nat
  BY KeysAssumption
<1>5. local.made \in Nat /\ \A q \in Proc : proc[q].sent \in Nat
  BY <1>1, <1>2, <1>4
<1>6. local.edb # NoEdb => local.edb.gen \in Nat
  BY <1>3, <1>4
<1>. QED  BY <1>5, <1>6

\* Nothing is made or sent, and the folder's database is kept or deleted.
LEMMA MadeKept ==
  ASSUME Inv, local'.made = local.made, local'.edb \in {local.edb, NoEdb},
         \A q \in Proc : proc'[q].sent \in {proc[q].sent, 0}
  PROVE  MadeInv'
<1>1. MadeInv /\ ClientTyped
  BY DEF Inv, Typed
<1>2. local.made \in Nat /\ (local.edb # NoEdb => local.edb.gen \in Nat)
  BY <1>1, NumbersIs
<1>. QED  BY <1>1, <1>2 DEF MadeInv

LEMMA MadeByClient ==
  ASSUME Inv, ClientAction
  PROVE  MadeInv'
<1>1. /\ MadeInv /\ local \in Folder /\ proc \in [Proc -> Processes]
      /\ Idle.sent = 0
  BY DEF Inv, Typed, ClientTyped, Idle
<1>2. /\ local.made \in Nat /\ (local.edb # NoEdb => local.edb.gen \in Nat)
      /\ \A q \in Proc : proc[q].sent \in Nat
  BY NumbersIs DEF Inv, Typed
<1>3. CASE GenerateKey
  BY <1>1, <1>3, MadeKept DEF GenerateKey, Folder
<1>4. CASE EncryptDatabase
  <2>1. /\ local'.edb.gen = local.made + 1 /\ local'.made = local.made + 1 /\ proc' = proc
    BY <1>1, <1>4 DEF EncryptDatabase, Folder, EDBSetup
  <2>. QED  BY <1>1, <1>2, <2>1 DEF MadeInv
<1>5. ASSUME NEW p \in Proc, NEW cmd \in Commands, Connect(p, cmd) PROVE MadeInv'
  <2>1. PICK c : proc' = [proc EXCEPT ![p] = [Idle EXCEPT !.phase = "connecting", !.conn = c,
                                                !.command = cmd, !.bits = local.bits]]
    BY <1>5 DEF Connect
  <2>2. \A q \in Proc : proc'[q].sent \in {proc[q].sent, 0}
    BY <1>1, <2>1 DEF Idle
  <2>. QED  BY <1>5, <2>2, MadeKept DEF Connect
<1>6. ASSUME NEW p \in Proc, proc' = [proc EXCEPT ![p] = Idle], local'.made = local.made,
             local'.edb \in {local.edb, NoEdb}
      PROVE  MadeInv'
  <2>1. \A q \in Proc : proc'[q].sent \in {proc[q].sent, 0}
    BY <1>1, <1>6
  <2>. QED  BY <1>6, <2>1, MadeKept
<1>7. ASSUME NEW p \in Proc, ConnectFailed(p) \/ Close(p) \/ Kill(p) PROVE MadeInv'
  BY <1>1, <1>6, <1>7 DEF ConnectFailed, Close, Kill, Hangup, Folder
<1>8. ASSUME NEW p \in Proc, Receive(p) PROVE MadeInv'
  <2>1. /\ local'.made = local.made /\ local'.edb = EchoEdb(p, conn[proc[p].conn].reply)
        /\ proc' = [proc EXCEPT ![p] = Idle]
    BY <1>1, <1>8 DEF Receive, Hangup, Folder
  <2>2. local'.edb \in {local.edb, NoEdb}
    BY <2>1 DEF EchoEdb
  <2>. QED  BY <1>6, <2>1, <2>2
<1>9. ASSUME NEW p \in Proc, Timeout(p) PROVE MadeInv'
  <2>1. /\ local'.made = local.made /\ local'.edb = local.edb
        /\ proc' = [proc EXCEPT ![p].phase = "closing"]
    BY <1>1, <1>9 DEF Timeout, Folder
  <2>2. \A q \in Proc : proc'[q].sent = proc[q].sent
    BY <1>1, <2>1 DEF Processes
  <2>. QED  BY <2>1, <2>2, MadeKept
<1>10. ASSUME NEW p \in Proc, Send(p) PROVE MadeInv'
  <2>1. CASE \E m : SentBy(p, m)
    <3>1. PICK m : SentBy(p, m)
      BY <2>1
    <3>2. local' = local /\ (m.type = "upload_edb" => local.edb # NoEdb)
      BY <3>1 DEF SentBy, Sends
    <3>3. PICK s : s = IF m.type = "upload_edb" THEN local.edb.gen ELSE 0
      OBVIOUS
    <3>4. PICK bits \in SUBSET Bits :
            proc' = [proc EXCEPT ![p].phase = "awaiting", ![p].bits = bits, ![p].sent = s]
      BY <3>1, <3>3 DEF SentBy
    <3>5. proc'[p].sent = s /\ \A q \in Proc : q # p => proc'[q] = proc[q]
      BY <1>1, <3>4 DEF Processes
    <3>. QED  BY <1>1, <1>2, <3>2, <3>3, <3>5 DEF MadeInv
  <2>2. CASE ~ \E m : SentBy(p, m)
    <3>1. /\ Hangup(p, proc[p].conn)
          /\ \E bits \in SUBSET Bits : local' = [local EXCEPT !.bits = bits]
      BY <1>10, <2>2, SendIs
    <3>2. local'.made = local.made /\ local'.edb = local.edb
      BY <1>1, <3>1 DEF Folder
    <3>. QED  BY <1>6, <3>1, <3>2 DEF Hangup
  <2>. QED  BY <2>1, <2>2
<1>. QED  BY <1>3, <1>4, <1>5, <1>7, <1>8, <1>9, <1>10 DEF ClientAction, Step

LEMMA MadeStep ==
  ASSUME Inv, [Next]_vars
  PROVE  MadeInv'
<1>1. CASE UNCHANGED clientVars
  BY <1>1 DEF Inv, MadeInv, clientVars
<1>2. CASE ClientAction
  BY <1>2, MadeByClient
<1>. QED  BY <1>1, <1>2, NextIs DEF vars
--------------------------------------------------------------------------------
(* The inductive invariant.                                                  *)

LEMMA InitInv ==
  ASSUME Init
  PROVE  Inv
<1>1. /\ disk = [folder |-> FALSE, config |-> "none", meta |-> "none", edb |-> NoEdb]
      /\ conn = [c \in Conn |-> NewConn] /\ running = NoConn /\ faults = 0
      /\ hist = [overlapped |-> FALSE, crowded |-> FALSE, gapped |-> FALSE,
                 cut |-> {}, torn |-> {}, stored |-> {}, reached |-> "not_exists"]
      /\ local = [key |-> 0, edb |-> NoEdb, bits |-> {"config_created"}, made |-> 0]
      /\ proc = [p \in Proc |-> Idle] /\ commands = 0
  BY DEF Init, ServerInit
<1>2. /\ NewConn.phase = "none" /\ NewConn.snap = "not_exists" /\ NewConn.inbox.type = "none"
      /\ ~NewConn.open
  BY DEF NewConn, NoMsg
<1>3. \A c \in Conn : conn[c] = NewConn
  BY <1>1
<1>4. ServerTyped
  <2>1. NewConn \in Connections
    BY DEF NewConn, Connections, States, NoMsg, Message
  <2>2. disk \in Disk /\ hist \in History
    BY <1>1 DEF Disk, History, States
  <2>3. faults \in 0 .. MaxFaults
    BY <1>1, FaultsAssumption
  <2>. QED  BY <1>1, <2>1, <2>2, <2>3 DEF ServerTyped
<1>5. ClientTyped
  <2>1. local \in Folder /\ "key_created" \notin local.bits
    BY <1>1 DEF Folder, Bits
  <2>2. commands \in 0 .. MaxCommands
    BY <1>1, CommandsAssumption
  <2>. QED  BY <1>1, <2>1, <2>2, IdleIs DEF ClientTyped
<1>6. WaitInv /\ MessageInv
  BY <1>1, <1>2, <1>3 DEF WaitInv, Serving, MessageInv, MessageAt, Pending
<1>7. FileInv
  <2>1. FilesSound(disk, hist)
    BY <1>1 DEF FilesSound, LoadableFor, Loadable, ReadyFor
  <2>. QED  BY <1>2, <1>3, <2>1, FilePartsIs DEF FileParts
<1>8. SerialInv
  <2>1. \A c \in Conn : ~Current(c)
    BY <1>2, <1>3 DEF Current
  <2>2. Snapshot(disk) = hist.reached
    BY <1>1 DEF Snapshot
  <2>. QED  BY <1>1, <1>2, <1>3, <2>1, <2>2 DEF SerialInv, OneCurrent, Agreement
<1>9. GapInv
  BY <1>1, <1>2, <1>3 DEF GapInv, DatabaseWithoutGap, Readable, NoEdb
<1>10. DeliveryInv
  BY <1>1, IdleIs DEF DeliveryInv, OwnConnections, DeliveredTo, Uploads
<1>11. MadeInv
  BY <1>1 DEF MadeInv, Idle
<1>. QED  BY <1>4, <1>5, <1>6, <1>7, <1>8, <1>9, <1>10, <1>11 DEF Inv, Typed

LEMMA InvStep ==
  ASSUME Inv, [Next]_vars
  PROVE  Inv'
BY TypedStep, WaitStep, MessageStep, FileStepKept, SerialStep, GapStep, DeliveryStep, MadeStep
   DEF Inv

LEMMA Inductive == Spec => []Inv
<1>1. Inv /\ [Next]_vars => Inv'
  BY InvStep
<1>. QED  BY <1>1, InitInv, PTL DEF Spec
--------------------------------------------------------------------------------
(* The properties.                                                           *)

\* The files, the connections, the Service objects and the client's folder have
\* their types, through every interleaving of commands, handlers and faults.
THEOREM TypeCorrect == Spec => []TypeOK
<1>1. Inv => TypeOK
  BY DEF Inv, Typed, ServerTyped, ClientTyped, Disk, Connections, History, Processes, Folder,
         TypeOK, ServerTypeOK, ClientTypeOK
<1>. QED  BY <1>1, Inductive, PTL

\* A waiting connection waits for one that was registered and served: waiting
\* cannot form a chain that nobody ends, for any number of connections.
THEOREM WaitsForServedHolds == Spec => []WaitsForServed
<1>1. Inv => WaitsForServed
  BY DEF Inv, WaitInv, WaitsForServed
<1>. QED  BY <1>1, Inductive, PTL

\* Two open connections serve at once only after one came while another waited.
THEOREM OneServingHolds == Spec => []OneServing
<1>1. Inv => OneServing
  <2>1. ASSUME Inv, ~hist.crowded PROVE Cardinality({c \in Conn : Serving(c)}) <= 1
    <3>. DEFINE S == {c \in Conn : Serving(c)}
    <3>1. PICK r : r = running
      OBVIOUS
    <3>2. S \subseteq {r}
      BY <2>1, <3>1 DEF Inv, WaitInv
    <3>3. IsFiniteSet({r}) /\ Cardinality({r}) = 1
      BY FS_Singleton
    <3>4. Cardinality(S) <= Cardinality({r})
      BY <3>2, <3>3, FS_Subset
    <3>. QED  BY <3>3, <3>4
  <2>. QED  BY <2>1 DEF OneServing
<1>. QED  BY <1>1, Inductive, PTL

\* No command the client's own check lets through is refused by the server.
THEOREM NeverRefusedHolds == Spec => []NeverRefused
<1>1. Inv => NeverRefused
  BY DEF Inv, MessageInv, MessageAt, Suits, NeverRefused
<1>. QED  BY <1>1, Inductive, PTL

\* An announced config is readable, and so is an announced database, unless a
\* crash or a failure fell inside the write of the file itself.
THEOREM ReadyHasDatabaseHolds == Spec => []ReadyHasDatabase
<1>1. Inv => ReadyHasDatabase
  BY DEF Inv, FileInv
<1>. QED  BY <1>1, Inductive, PTL

\* The folder can be loaded again, unless a crash or a failing write stopped the
\* first config upload or the write of one of the two files the constructor reads.
THEOREM LoadableAgainHolds == Spec => []LoadableAgain
<1>1. Inv => LoadableAgain
  BY DEF Inv, FileInv
<1>. QED  BY <1>1, Inductive, PTL

\* While connections do not overlap, the state on disk is the one the last
\* completed upload left, whatever the late cleanups write.
THEOREM SerialStateExactHolds == Spec => []SerialStateExact
<1>1. Inv => SerialStateExact
  BY DEF Inv, SerialInv, Serially, Agreement, SerialStateExact
<1>. QED  BY <1>1, Inductive, PTL

\* A token reaches every ciphertext of its keyword, as long as no request named
\* positions or addresses.
THEOREM DatabaseWithoutGapHolds == Spec => []DatabaseWithoutGap
<1>1. Inv => DatabaseWithoutGap
  BY DEF Inv, GapInv
<1>. QED  BY <1>1, Inductive, PTL

\* The encrypted database the client deletes is one the server has stored in full,
\* unless it was encrypted after the upload whose echo deletes it was sent.
THEOREM DeletedAfterStoredHolds == Spec => DeletedAfterStored
<1>1. ASSUME Inv, [Next]_vars PROVE [DeletesStored]_vars
  <2>1. ASSUME local.edb # NoEdb, local'.edb = NoEdb
        PROVE  \/ local.edb.gen \in hist.stored
               \/ \E p \in Proc : /\ proc'[p] # proc[p] /\ proc[p].sent \in hist.stored
                                  /\ proc[p].sent < local.edb.gen
    <3>1. ClientAction
      BY <1>1, <2>1, NextIs DEF vars, clientVars
    <3>2. \A k \in Keys, g \in Gens : EDBSetup(k, g, PlainDB) # NoEdb
      BY SetupIs, ReadableIs
    <3>3. PICK q \in Proc : /\ Receive(q) /\ conn[proc[q].conn].reply = "ok"
                            /\ proc[q].command = "upload_encrypted_database"
      BY <1>1, <2>1, <3>1, <3>2, LocalEdbIs
    <3>4. proc \in [Proc -> Processes] /\ DeliveredTo(q)
      BY <1>1 DEF Inv, Typed, ClientTyped, DeliveryInv
    <3>5. proc' = [proc EXCEPT ![q] = Idle] /\ proc[q].phase \in {"awaiting", "closing"}
      BY <3>3 DEF Receive, Hangup
    <3>6. proc'[q] # proc[q]
      BY <3>4, <3>5, IdleIs
    <3>7. proc[q].sent \in hist.stored
      BY <3>3, <3>4, <3>5 DEF DeliveredTo, Uploads
    <3>8. proc[q].sent <= local.edb.gen
      BY <1>1, <2>1 DEF Inv, MadeInv
    <3>9. proc[q].sent \in Nat /\ local.edb.gen \in Nat
      BY <1>1, <2>1, NumbersIs DEF Inv, Typed
    <3>. QED  BY <3>6, <3>7, <3>8, <3>9
  <2>. QED  BY <2>1 DEF DeletesStored
<1>. QED  BY <1>1, Inductive, PTL DEF Spec, DeletedAfterStored
================================================================================
