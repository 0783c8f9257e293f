------------------------------ MODULE SSEService ------------------------------
(***************************************************************************)
(* The SSE client commands against the SSE server.                         *)
(*                                                                         *)
(* A command is a process of its own.  It loads the client's Service       *)
(* object from the local folder, connects, adopts the state the server     *)
(* announces, sends one message if that state allows it, waits for the     *)
(* reply up to a timeout, stores its copy of the client's state bits and   *)
(* closes the connection.  Several commands can run at once; they share    *)
(* the local folder without a lock.                                        *)
(***************************************************************************)
EXTENDS SSEServer

CONSTANTS
  Proc,           \* the command processes
  MaxCommands,    \* bound: commands run in all
  PlainDB,        \* the plain database: the number of identifiers per keyword
  Searches,       \* the sets of keywords searched for: one, or several in a multi-search
  IndexLists,     \* the position lists of deletion requests
  AddressLists    \* the addresses named by a deletion or an update without token

ASSUME CommandsAssumption == MaxCommands \in Nat
ASSUME PlainDBAssumption  == PlainDB \in [Keyword -> Nat]
ASSUME InputAssumption ==
  /\ Searches \subseteq SUBSET Keyword
  /\ IndexLists \subseteq SUBSET Counter
  /\ AddressLists \subseteq SUBSET Addr

VARIABLES
  local,      \* the client's folder: key, edb, service_meta (the state bits), and
              \* how many databases were encrypted so far, which numbers them
  proc,       \* per process: the command it runs and its Service object
  commands    \* commands started so far

clientVars == <<local, proc, commands>>
vars == <<serverVars, clientVars>>

Bits == {"config_created", "config_uploaded", "key_created", "db_encrypted", "db_uploaded"}

Commands == {"upload_config", "upload_encrypted_database", "search", "delete_data",
             "update_data"}

Idle == [phase |-> "idle", command |-> "none", bits |-> {}, conn |-> NoConn, sent |-> 0]

ClientTypeOK ==
  /\ local \in [key : Keys \cup {0}, edb : StoredEdb \cup {NoEdb}, bits : SUBSET Bits,
                made : Gens \cup {0}]
  /\ \A p \in Proc :
       proc[p] \in [phase : {"idle", "connecting", "awaiting", "closing"},
                    command : Commands \cup {"none"},
                    bits : SUBSET Bits, conn : Conn \cup {NoConn}, sent : Gens \cup {0}]
  /\ commands \in 0 .. MaxCommands

\* Types of the server's files and connections and of the client's.
TypeOK == ServerTypeOK /\ ClientTypeOK
--------------------------------------------------------------------------------
(* The state bits.                                                           *)

\* Mutation: the client trusts the bits it stored.
AdoptNothing(bits, state) == bits

\* update_current_client_service_state_by_server_service_state
Adopt(bits, state) ==
  (bits \ {"config_uploaded", "db_uploaded"})
    \cup (IF state = "not_exists" THEN {} ELSE {"config_uploaded"})
    \cup (IF state = "all_ready" THEN {"db_uploaded"} ELSE {})

\* What a command's handler checks before it sends, on the adopted bits, and
\* the local files it must be able to read.
Allowed(cmd, bits) ==
  CASE cmd = "upload_config" -> "config_created" \in bits
    [] cmd = "upload_encrypted_database" ->
         {"config_uploaded", "key_created"} \subseteq bits /\ local.edb # NoEdb
    [] OTHER -> "db_uploaded" \in bits /\ local.key # 0

\* An upload over an earlier one withdraws the bit until the echo.
Withdraw(cmd, bits) ==
  CASE cmd = "upload_config" -> bits \ {"config_uploaded"}
    [] cmd = "upload_encrypted_database" -> bits \ {"db_uploaded"}
    [] OTHER -> bits

\* The messages a command may send.  Keyword, positions and addresses are the
\* user's; the key and the database are those of the local folder.
Tk(w) == Token(local.key, w)
Change(type, tokens, indices, cells) ==
  [type |-> type, tokens |-> tokens, indices |-> indices, cells |-> cells]

Messages(cmd) ==
  CASE cmd = "upload_config" -> {[type |-> "config"]}
    [] cmd = "upload_encrypted_database" -> {[type |-> "upload_edb", edb |-> local.edb]}
    [] cmd = "search" -> {[type |-> "token", tokens |-> {Tk(w) : w \in ws}] : ws \in Searches}
    [] cmd = "delete_data" ->
         {Change("delete", {Tk(w)}, S, {}) : w \in Keyword, S \in IndexLists}
         \cup {Change("delete", {}, {}, S) : S \in AddressLists}
    [] cmd = "update_data" ->
         {Change("update", {}, {}, {})}
         \cup {Change("update", {Tk(w)}, {}, {}) : w \in Keyword}
         \cup {Change("update", {}, {}, S) : S \in AddressLists}
--------------------------------------------------------------------------------
(* Commands.                                                                 *)

\* handle_create_key: the key file is overwritten whatever it was used for.  The
\* local commands wait for nothing: each is one step.
GenerateKey ==
  /\ commands < MaxCommands /\ local.key + 1 \in Keys
  /\ commands' = commands + 1
  /\ local' = [local EXCEPT !.key = @ + 1, !.bits = @ \cup {"key_created"}]
  /\ UNCHANGED <<serverVars, proc>>

\* handle_encrypt_database, under the key of the key file; refused without the bit.
EncryptDatabase ==
  /\ commands < MaxCommands /\ local.made + 1 \in Gens
  /\ "key_created" \in local.bits
  /\ commands' = commands + 1
  /\ local' = [local EXCEPT !.edb = EDBSetup(local.key, local.made + 1, PlainDB),
                            !.bits = @ \cup {"db_encrypted"}, !.made = @ + 1]
  /\ UNCHANGED <<serverVars, proc>>

\* Service(sid) reads the bits, once; load_websocket opens the connection and
\* sends the INIT message.
Unused(c) == conn[c].phase = "none" /\ \A p \in Proc : proc[p].conn # c

Connect(p, cmd) ==
  /\ proc[p].phase = "idle" /\ commands < MaxCommands
  /\ commands' = commands + 1
  /\ \E c \in Conn :
       /\ Unused(c) /\ \A d \in Conn : d < c => ~Unused(d)
       /\ conn' = [conn EXCEPT ![c] = [NewConn EXCEPT !.phase = "init", !.open = TRUE]]
       /\ proc' = [proc EXCEPT ![p] = [Idle EXCEPT !.phase = "connecting", !.conn = c,
                                                   !.command = cmd, !.bits = local.bits]]
  /\ UNCHANGED <<disk, running, faults, hist, local>>

\* The command ends and its connection closes.
Hangup(p, c) ==
  /\ conn' = [conn EXCEPT ![c] = [@ EXCEPT !.open = FALSE, !.echo = "none", !.reply = "none"]]
  /\ proc' = [proc EXCEPT ![p] = Idle]

\* The server closed the connection before its INIT echo: close_service stores
\* the bits the command started with.
ConnectFailed(p) ==
  LET c == proc[p].conn IN
  /\ proc[p].phase = "connecting" /\ ~conn[c].open /\ conn[c].echo = "none"
  /\ local' = [local EXCEPT !.bits = proc[p].bits]
  /\ Hangup(p, c)
  /\ UNCHANGED <<disk, running, faults, hist, commands>>

\* The echo arrives; the rest of the command's handler runs to the send without
\* another await that yields.  An upload withdraws its bit before it checks the
\* others.  If they refuse the command, or the connection is gone, close_service
\* stores the bits and the command ends.
Send(p) ==
  LET c    == proc[p].conn
      bits == Adopt(proc[p].bits, conn[c].echo)
      cmd  == proc[p].command
  IN
  /\ proc[p].phase = "connecting" /\ conn[c].echo # "none"
  /\ IF Allowed(cmd, bits) /\ conn[c].open
     THEN /\ \E m \in Messages(cmd) : conn' = [conn EXCEPT ![c].inbox = m, ![c].echo = "none"]
          /\ proc' = [proc EXCEPT ![p].phase = "awaiting", ![p].bits = Withdraw(cmd, bits),
                ![p].sent = IF cmd = "upload_encrypted_database" THEN local.edb.gen ELSE 0]
          /\ UNCHANGED local
     ELSE /\ local' = [local EXCEPT !.bits = Withdraw(cmd, bits)]
          /\ Hangup(p, c)
  /\ UNCHANGED <<disk, running, faults, hist, commands>>

\* handle_upload_config_echo and handle_upload_encrypted_database_echo: the bit
\* is set and stored, and the local copy of an uploaded database is deleted.
Uploaded(p, reply, cmd) == reply = "ok" /\ proc[p].command = cmd

EchoBits(p, reply) ==
  proc[p].bits
    \cup (IF Uploaded(p, reply, "upload_config") THEN {"config_uploaded"} ELSE {})
    \cup (IF Uploaded(p, reply, "upload_encrypted_database") THEN {"db_uploaded"} ELSE {})

EchoEdb(p, reply) ==
  IF Uploaded(p, reply, "upload_encrypted_database") THEN NoEdb ELSE local.edb

\* _recv_message: the reply completes the future and the command closes; or the
\* command had given up, and the reply arrives while the connection is closing.
Receive(p) ==
  LET c == proc[p].conn IN
  /\ proc[p].phase \in {"awaiting", "closing"} /\ conn[c].reply # "none"
  /\ local' = [local EXCEPT !.bits = EchoBits(p, conn[c].reply), !.edb = EchoEdb(p, conn[c].reply)]
  /\ Hangup(p, c)
  /\ UNCHANGED <<disk, running, faults, hist, commands>>

\* Mutation: giving up also removes the local database, as the echo does.
TimeoutAsUploaded(p) ==
  /\ proc[p].phase = "awaiting"
  /\ local' = [local EXCEPT !.bits = proc[p].bits, !.edb = NoEdb]
  /\ proc' = [proc EXCEPT ![p].phase = "closing"]
  /\ UNCHANGED <<serverVars, commands>>

\* wait_for gives up: close_service stores the bits and starts to close.
Timeout(p) ==
  /\ proc[p].phase = "awaiting"
  /\ local' = [local EXCEPT !.bits = proc[p].bits]
  /\ proc' = [proc EXCEPT ![p].phase = "closing"]
  /\ UNCHANGED <<serverVars, commands>>

\* The frames sent before the close are read first: a message a serving
\* connection has received is handled before the connection closes.
MayHangup(c) == ~(Serving(c) /\ Pending(c))

Close(p) ==
  /\ proc[p].phase = "closing" /\ MayHangup(proc[p].conn)
  /\ Hangup(p, proc[p].conn)
  /\ UNCHANGED <<disk, running, faults, hist, local, commands>>

\* The process is interrupted: the connection drops, nothing is stored.
Kill(p) ==
  /\ proc[p].phase \in {"connecting", "awaiting"} /\ MayHangup(proc[p].conn)
  /\ Hangup(p, proc[p].conn)
  /\ UNCHANGED <<disk, running, faults, hist, local, commands>>
--------------------------------------------------------------------------------
Init ==
  /\ ServerInit
  /\ local = [key |-> 0, edb |-> NoEdb, bits |-> {"config_created"}, made |-> 0]
  /\ proc = [p \in Proc |-> Idle]
  /\ commands = 0

Step(p) == ConnectFailed(p) \/ Send(p) \/ Receive(p) \/ Timeout(p) \/ Close(p)

Server == /\ \E c \in Conn : ServerStep(c)
          /\ UNCHANGED clientVars

CrashServer == Crash /\ UNCHANGED clientVars

Next ==
  \/ GenerateKey \/ EncryptDatabase
  \/ \E p \in Proc : \/ \E cmd \in Commands : Connect(p, cmd)
                     \/ Step(p)
                     \/ Kill(p)
  \/ Server
  \/ CrashServer

Spec == Init /\ [][Next]_vars
--------------------------------------------------------------------------------
(* Properties.                                                               *)

\* A service whose files or whose Service objects say a config is stored has a
\* readable config, and one they say has a database has a readable edb file,
\* whatever old copies of the state were written back; only a crash or a failure
\* inside the write of the file itself takes it away (services/service.py:249-251 writes
\* the database before the state that announces it).
Announced == {disk.meta} \cup {conn[c].snap : c \in {d \in Conn : conn[d].phase # "none"}}

ReadyHasDatabase ==
  /\ {"config_uploaded", "all_ready"} \cap Announced # {} =>
       disk.config = "ok" \/ "config" \in hist.torn
  /\ "all_ready" \in Announced => Readable(disk.edb) \/ "edb" \in hist.torn

\* The folder of a service can always be loaded again, unless a crash or a
\* failing write stopped the first config upload or the write of one of the two
\* files the constructor reads (services/service.py:83-85).
LoadableAgain == {"config", "meta"} \cap hist.cut = {} => Loadable(disk)

\* No command the client's own check lets through is refused by the server: the
\* bits the client adopted agree with the Service object that will handle the
\* message, however long the connection waits and whatever others do meanwhile.
NeverRefused ==
  \A c \in Conn : Pending(c) =>
    CASE conn[c].inbox.type = "config"     -> TRUE
      [] conn[c].inbox.type = "upload_edb" -> conn[c].snap # "not_exists"
      [] OTHER                             -> conn[c].snap = "all_ready"

\* As long as no connection was opened while another was open or closing, the state on disk
\* is the one the last completed upload left: the cleanup that runs a second
\* after a connection closed, when the next one may already have uploaded,
\* writes nothing old (services_manager.py:71-74).
SerialStateExact ==
  ~hist.overlapped /\ {"config", "meta"} \cap hist.cut = {} => Snapshot(disk) = hist.reached

\* Two open connections serve the service id at the same time only after one was
\* opened while another waited: a single waiting connection does take over from
\* the previous one (services_manager.py:54-61).
OneServing == ~hist.crowded => Cardinality({c \in Conn : Serving(c)}) <= 1

\* A waiting connection waits for one that was registered and served, never for
\* one that itself waits or is already gone: waiting cannot form a chain that
\* nobody ends.
WaitsForServed ==
  \A c \in Conn : conn[c].phase = "waiting" => conn[conn[c].prev].phase = "live"

\* Every ciphertext of the stored database can be reached by its keyword's token
\* as long as nobody deleted or updated by position or address.
DatabaseWithoutGap == Readable(disk.edb) /\ ~hist.gapped => NoGap(disk.edb)

\* The encrypted database the client deletes, whatever is in the folder when the
\* echo arrives, is one the server has stored in full: no timeout, refusal, closed
\* connection or crash makes it drop a copy the server does not have.  The one
\* exception is a database encrypted after the upload whose echo deletes it was
\* sent (services/service.py:492 removes the file by its name); the one that was
\* sent is stored then.
DeletesStored ==
  local.edb # NoEdb /\ local'.edb = NoEdb =>
    \/ local.edb.gen \in hist.stored
    \/ \E p \in Proc : /\ proc'[p] # proc[p] /\ proc[p].sent \in hist.stored
                      /\ proc[p].sent < local.edb.gen

DeletedAfterStored == [][DeletesStored]_vars
================================================================================
