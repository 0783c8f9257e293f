------------------------------- MODULE SSEServer -------------------------------
(***************************************************************************)
(* The SSE server for one service id: the files it keeps for the service,  *)
(* the Service object of each connection, and the manager that makes a     *)
(* connection wait for the one registered before it.                       *)
(*                                                                         *)
(* The server is one asyncio process.  A message handler runs without an   *)
(* await, so it is one step; between messages, connections interleave.  A  *)
(* Service object reads the state of the service once, when its connection *)
(* opens ("snap"), and keeps its own copy from then on.                    *)
(*                                                                         *)
(* Messages are put into a connection's inbox, and replies are taken from  *)
(* it, by the module that models the clients.                              *)
(***************************************************************************)
EXTENDS PiBasDatabase, SequencesExt

CONSTANTS
  Conn,         \* bound: the connections that can exist at once
  Keys,         \* the client's keys, numbered from 1
  Gens,         \* the encrypted databases, numbered from 1
  MaxFaults     \* bound: crashes of the server and writes that fail, together

ASSUME ConnAssumption == Conn \subseteq Nat \ {0}
ASSUME KeysAssumption == Keys \subseteq Nat \ {0} /\ Gens \subseteq Nat \ {0}
ASSUME FaultsAssumption == MaxFaults \in Nat

VARIABLES
  disk,       \* the service's folder: config.json, service_meta, edb
  conn,       \* per connection: its Service object and what is in flight on it
  running,    \* the service id's entry in _service_dict
  faults,     \* crashes and failed writes so far
  hist        \* what happened so far, for the properties (no step reads it): whether
              \* connections overlapped, whether one came while another waited, whether a request
              \* named positions or addresses, the files a crash or a failing write
              \* left unwritten ("cut") or half written ("torn"), the databases stored
              \* in full, and the state the last completed upload left

serverVars == <<disk, conn, running, faults, hist>>

States == {"not_exists", "config_uploaded", "all_ready"}
NoConn == 0
NoEdb  == [gen |-> 0]
\* An edb file whose write was cut short.
TornEdb == [gen |-> 0, torn |-> TRUE]
StoredEdb == EDB(Keys, Gens)
Readable(edb) == edb.gen # 0

\* What the handlers read of a message.  A request names a token, positions among
\* what the token reaches ("indices"), or addresses ("cells").
Tokens  == [key : Keys, keyword : Keyword]
NoMsg   == [type |-> "none"]
Message ==
  [type : {"none", "config"}]
  \cup [type : {"upload_edb"}, edb : StoredEdb]
  \cup [type : {"token"}, tokens : SUBSET Tokens]
  \cup [type : {"delete", "update"}, tokens : SUBSET Tokens, indices : SUBSET Counter,
        cells : SUBSET Addr]

Files == {"folder", "config", "meta", "edb"}

NewConn == [phase |-> "none", open |-> FALSE, snap |-> "not_exists", prev |-> NoConn,
            inbox |-> NoMsg, echo |-> "none", reply |-> "none"]

ServerTypeOK ==
  /\ disk \in [folder : BOOLEAN, config : {"none", "ok", "torn"},
               meta : States \cup {"none", "torn"}, edb : StoredEdb \cup {NoEdb, TornEdb}]
  /\ \A c \in Conn :
       /\ conn[c].phase \in {"none", "init", "waiting", "live"}
       /\ conn[c].open \in BOOLEAN
       /\ conn[c].snap \in States /\ conn[c].prev \in Conn \cup {NoConn}
       /\ conn[c].inbox \in Message
       /\ conn[c].echo \in States \cup {"none"}
       /\ conn[c].reply \in {"none", "ok", "refused"}
  /\ running \in Conn \cup {NoConn}
  /\ faults \in 0 .. MaxFaults
  /\ hist \in [overlapped : BOOLEAN, crowded : BOOLEAN, gapped : BOOLEAN,
               cut : SUBSET Files, torn : SUBSET Files, stored : SUBSET Gens, reached : States]
--------------------------------------------------------------------------------
(* Files.  A write truncates the file and then fills it, and is skipped when *)
(* the service has no folder.                                                *)

W(file, val) == [file |-> file, val |-> val]

\* Mutation: a write makes the folder it needs.
PutMakingFolder(d, w) == [d EXCEPT ![w.file] = w.val, !.folder = TRUE]

Put(d, w) == IF w.file = "folder" \/ d.folder THEN [d EXCEPT ![w.file] = w.val] ELSE d

Tear(d, w) ==
  CASE w.file = "folder" -> d
    [] w.file = "edb"    -> Put(d, W("edb", TornEdb))
    [] OTHER             -> Put(d, W(w.file, "torn"))

Written(d, ws, n) == FoldLeft(Put, d, SubSeq(ws, 1, n))

\* The constructor of Service reads the two files and raises if it cannot.
Loadable(d) == d.folder => d.config = "ok" /\ d.meta \in States

\* Mutation: the state is read without looking for the folder.
SnapshotUnchecked(d) == d.meta

\* What a new Service object takes for the state of the service.
Snapshot(d) == IF d.folder THEN d.meta ELSE "not_exists"
--------------------------------------------------------------------------------
(* Handlers.  What a handler does with a message: the files it writes, in    *)
(* order, the state the Service object is left in, the reply, and whether it *)
(* raises, which ends the connection.  There is a set of outcomes because    *)
(* decrypting bytes that are no ciphertext may or may not fail.              *)

Does(state, writes, reply, raises) ==
  [state |-> state, writes |-> writes, reply |-> reply, raises |-> raises]

Refuse(snap) == {Does(snap, <<>>, "refused", TRUE)}
Raise(snap)  == {Does(snap, <<>>, "none", TRUE)}

HandleUploadConfig ==
  {Does("config_uploaded",
        <<W("folder", TRUE), W("config", "ok"), W("meta", "config_uploaded")>>, "ok", FALSE)}

\* Mutation: the new state is stored before the database.
StateBeforeDatabase(snap, m) ==
  IF snap = "not_exists" THEN Refuse(snap)
  ELSE {Does("all_ready", <<W("meta", "all_ready"), W("edb", m.edb)>>, "ok", FALSE)}

HandleUploadEncryptedDatabase(snap, m) ==
  IF snap = "not_exists" THEN Refuse(snap)
  ELSE {Does("all_ready", <<W("edb", m.edb), W("meta", "all_ready")>>, "ok", FALSE)}

\* One token, or several in one message: any of them may fail to decrypt.
HandleSearchToken(snap, edb, m) ==
  IF snap # "all_ready" THEN Refuse(snap)
  ELSE IF ~Readable(edb) THEN Raise(snap)
  ELSE {Does(snap, <<>>, "ok", FALSE)}
       \cup (IF \E tk \in m.tokens : MayFailToDecrypt(edb, tk) THEN Raise(snap) ELSE {})

\* The request names a keyword's token, and then positions among what the token
\* reaches, or positions in D.  An exception is answered; nothing is saved then.
HandleDeleteData(snap, edb, m) ==
  IF snap # "all_ready" THEN Refuse(snap)
  ELSE IF ~Readable(edb) THEN Raise(snap)
  ELSE LET left == IF m.tokens # {} THEN {DeleteByToken(edb, tk, m.indices) : tk \in m.tokens}
                   ELSE {DeleteAt(edb, m.cells \cap Present(edb))}
       IN  {Does(snap, <<W("edb", e)>>, "ok", FALSE) : e \in left}
           \cup {Does(snap, <<>>, "refused", FALSE)}

\* A token without data saves the database as it was.  A request with neither a
\* token nor entries, and an exception, are answered, and nothing is saved.
HandleUpdateData(snap, edb, m) ==
  IF snap # "all_ready" THEN Refuse(snap)
  ELSE IF ~Readable(edb) THEN Raise(snap)
  ELSE LET changed == IF m.tokens # {} THEN {edb} \cup {UpdateByToken(edb, tk) : tk \in m.tokens}
                      ELSE IF m.cells # {} THEN {UpdateEntries(edb, m.cells)} ELSE {}
       IN  {Does(snap, <<W("edb", e)>>, "ok", FALSE) : e \in changed}
           \cup {Does(snap, <<>>, "refused", FALSE)}

\* recv_msg_handler
Outcomes(snap, d, m) ==
  CASE m.type = "config"     -> HandleUploadConfig
    [] m.type = "upload_edb" -> HandleUploadEncryptedDatabase(snap, m)
    [] m.type = "token"      -> HandleSearchToken(snap, d.edb, m)
    [] m.type = "delete"     -> HandleDeleteData(snap, d.edb, m)
    [] m.type = "update"     -> HandleUpdateData(snap, d.edb, m)
--------------------------------------------------------------------------------
(* The event loop.  A connection that registers handles what it has already   *)
(* received before the loop does anything else.  One that waits is resumed by *)
(* the end of the connection before it only after two more rounds of the loop *)
(* (wait_closed is shielded), so that other messages and connections may come *)
(* in between, but never the cleanup, which sleeps for a second first.        *)

Pending(c)  == conn[c].inbox.type # "none"
\* Mutation: the waiting connection does not wait.
WakeAtOnce(c) == conn[c].phase = "waiting"

MayWake(c)  == conn[c].phase = "waiting" /\ ~conn[conn[c].prev].open
Buffered(c) == conn[c].phase = "live" /\ ~conn[c].open /\ Pending(c)
Quiet       == \A c \in Conn : ~Buffered(c)

\* Nothing is left of a connection on the server; what was sent may still arrive.
Ended(c) == [NewConn EXCEPT !.echo = conn[c].echo, !.reply = conn[c].reply]

Serving(c) == conn[c].phase = "live" /\ conn[c].open

\* handler and create_service: the INIT message is read, the Service object is
\* made and its state echoed, and the connection registers, or waits for the one
\* registered before it, which may be open or only just closing.
Accept(c) ==
  /\ Quiet
  /\ conn[c].phase = "init"
  /\ IF ~Loadable(disk)
     THEN /\ conn' = [conn EXCEPT ![c] = Ended(c)]
          /\ UNCHANGED <<running, hist>>
     ELSE \E waits \in BOOLEAN :
          /\ IF waits THEN running # NoConn ELSE \A r \in Conn : running = r => ~conn[r].open
          /\ conn' = [conn EXCEPT
               ![c].phase = IF waits THEN "waiting" ELSE "live",
               ![c].snap  = Snapshot(disk),
               ![c].echo  = Snapshot(disk),
               ![c].prev  = IF waits THEN running ELSE NoConn]
          /\ running' = IF waits THEN running ELSE c
          /\ hist' = [hist EXCEPT
               !.overlapped = @ \/ waits
                                \/ \E d \in Conn :
                                     conn[d].phase \in {"waiting", "live"} /\ conn[d].open,
               !.crowded = @ \/ \E d \in Conn : conn[d].phase = "waiting"]
  /\ UNCHANGED <<disk, faults>>

\* create_service after prev_server.wait_closed(): it registers without looking
\* at the dictionary again.
Wake(c) ==
  /\ MayWake(c)
  /\ \A d \in Conn : ~Buffered(d)
  /\ running' = c
  /\ conn' = [conn EXCEPT ![c].phase = "live", ![c].prev = NoConn]
  /\ UNCHANGED <<disk, faults, hist>>

ByPosition(m) == m.type \in {"delete", "update"} /\ (m.indices # {} \/ m.cells # {})

\* The history of a handler that wrote the first n of its files.
Noted(o, n, m) ==
  LET done == {o.writes[i].file : i \in 1 .. n} IN
  [hist EXCEPT
     !.reached = IF "meta" \in done THEN o.state ELSE @,
     !.stored  = IF "edb" \in done /\ m.type = "upload_edb" THEN @ \cup {m.edb.gen} ELSE @,
     !.gapped  = @ \/ ByPosition(m)]

\* _recv_message: one message, handled to its end.
Handle(c) ==
  /\ conn[c].phase = "live" /\ Pending(c)
  /\ Quiet \/ Buffered(c)
  /\ \E o \in Outcomes(conn[c].snap, disk, conn[c].inbox) :
       /\ disk' = Written(disk, o.writes, Len(o.writes))
       /\ conn' = [conn EXCEPT ![c].snap = o.state, ![c].inbox = NoMsg,
                     ![c].reply = IF conn[c].open THEN o.reply ELSE "none",
                     ![c].open  = @ /\ ~o.raises]
       /\ hist' = Noted(o, Len(o.writes), conn[c].inbox)
  /\ UNCHANGED <<running, faults>>

\* The connection closed and nobody has to be resumed by its end.
Over(c) ==
  /\ Quiet
  /\ conn[c].phase = "live" /\ ~conn[c].open
  /\ \A d \in Conn : conn[d].phase = "waiting" => conn[d].prev # c

\* Mutations: the cleanup stores the state of an object that is no longer
\* registered; the cleanup leaves the entry in the dictionary.
CleanUnregistered(c) ==
  /\ Over(c)
  /\ disk' = Put(disk, W("meta", conn[c].snap))
  /\ running' = IF running = c THEN NoConn ELSE running
  /\ conn' = [conn EXCEPT ![c] = Ended(c)]
  /\ UNCHANGED <<faults, hist>>

CleanKeepingEntry(c) ==
  /\ Over(c)
  /\ disk' = IF running = c THEN Put(disk, W("meta", conn[c].snap)) ELSE disk
  /\ conn' = [conn EXCEPT ![c] = Ended(c)]
  /\ UNCHANGED <<running, faults, hist>>

\* clean_service_when_close_connection, a second after the connection closed:
\* the Service object stores its copy of the state if it is still registered.
Clean(c) ==
  /\ Over(c)
  /\ disk' = IF running = c THEN Put(disk, W("meta", conn[c].snap)) ELSE disk
  /\ running' = IF running = c THEN NoConn ELSE running
  /\ conn' = [conn EXCEPT ![c] = Ended(c)]
  /\ UNCHANGED <<faults, hist>>
--------------------------------------------------------------------------------
(* A write that fails, and the server process dying and starting again with  *)
(* no connection.                                                            *)

\* A handler stopped by a failing write or a crash: it wrote some of its files,
\* and perhaps truncated the next.
Stopped(o, n, m, file, tears) ==
  LET d == Written(disk, o.writes, n) IN
  /\ disk' = IF tears THEN Tear(d, o.writes[n + 1]) ELSE d
  /\ hist' = [Noted(o, n, m) EXCEPT !.cut = @ \cup {file},
                                     !.torn = IF tears THEN @ \cup {file} ELSE @]

\* The exception of a failing write.  An upload has set the state it was about to
\* store, and the exception ends the connection; a deletion or an update answers
\* it, and the connection goes on.
HandleFails(c) ==
  /\ faults < MaxFaults
  /\ faults' = faults + 1
  /\ conn[c].phase = "live" /\ Pending(c)
  /\ Quiet \/ Buffered(c)
  /\ LET m == conn[c].inbox
         changes == m.type \in {"delete", "update"}
     IN  \E o \in Outcomes(conn[c].snap, disk, m) : \E n \in 0 .. Len(o.writes) - 1 :
           LET file == o.writes[n + 1].file IN
           /\ \E tears \in BOOLEAN : Stopped(o, n, m, file, tears)
           /\ conn' = [conn EXCEPT ![c].snap = IF file = "meta" THEN o.state ELSE @,
                         ![c].inbox = NoMsg,
                         ![c].reply = IF conn[c].open /\ changes THEN "refused" ELSE "none",
                         ![c].open  = @ /\ changes]
  /\ UNCHANGED running

MayCrash ==
  /\ faults < MaxFaults
  /\ faults' = faults + 1
  /\ conn' = [c \in Conn |-> Ended(c)]
  /\ running' = NoConn

\* A step of the event loop had just ended.
CrashBetweenSteps ==
  /\ MayCrash
  /\ \E c \in Conn : conn[c].phase # "none"
  /\ UNCHANGED <<disk, hist>>

\* Inside a handler, or after all its files were written and before the reply.
CrashInHandler(c) ==
  /\ MayCrash
  /\ conn[c].phase = "live" /\ Pending(c)
  /\ LET m == conn[c].inbox IN
     \E o \in Outcomes(conn[c].snap, disk, m) : \E n \in 0 .. Len(o.writes) :
       /\ o.writes # <<>>
       /\ IF n = Len(o.writes) THEN disk' = Written(disk, o.writes, n) /\ hist' = Noted(o, n, m)
          ELSE \E tears \in BOOLEAN : Stopped(o, n, m, o.writes[n + 1].file, tears)

\* Inside the cleanup.
CrashInClean(c) ==
  /\ MayCrash
  /\ conn[c].phase = "live" /\ ~conn[c].open /\ running = c
  /\ disk' = Tear(disk, W("meta", conn[c].snap))
  /\ hist' = [hist EXCEPT !.cut = @ \cup {"meta"}, !.torn = @ \cup {"meta"}]

Crash ==
  \/ CrashBetweenSteps
  \/ \E c \in Conn : CrashInHandler(c) \/ CrashInClean(c)
--------------------------------------------------------------------------------
ServerStep(c) == Accept(c) \/ Wake(c) \/ Handle(c) \/ HandleFails(c) \/ Clean(c)

ServerInit ==
  /\ disk = [folder |-> FALSE, config |-> "none", meta |-> "none", edb |-> NoEdb]
  /\ conn = [c \in Conn |-> NewConn]
  /\ running = NoConn
  /\ faults = 0
  /\ hist = [overlapped |-> FALSE, crowded |-> FALSE, gapped |-> FALSE,
             cut |-> {}, torn |-> {}, stored |-> {}, reached |-> "not_exists"]
================================================================================
