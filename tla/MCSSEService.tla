----------------------------- MODULE MCSSEService -----------------------------
(* An instance of SSEService for TLC. *)
EXTENDS SSEService

CONSTANTS w1, p1, p2

MCKeyword == {w1}
MCConn3   == 1 .. 3
MCKeys    == {1, 2}
MCGens    == {1, 2}
MCSearches      == {{w1}}
MCIndexLists    == {{}, {0}}
MCAddressLists  == {{<<w1, 1>>}}
MCPlainDB == [w \in {w1} |-> 2]

\* Besides a service just created, a service along its normal course: with its
\* config on the server and a database encrypted, and with the database uploaded
\* and the local copy gone (that upload counts as one of the commands).
Prepared ==
  /\ disk = [folder |-> TRUE, config |-> "ok", meta |-> "config_uploaded", edb |-> NoEdb]
  /\ conn = [c \in Conn |-> NewConn]
  /\ running = NoConn
  /\ faults = 0
  /\ hist = [overlapped |-> FALSE, crowded |-> FALSE, gapped |-> FALSE,
             cut |-> {}, torn |-> {}, stored |-> {}, reached |-> "config_uploaded"]
  /\ local = [key |-> 1, edb |-> EDBSetup(1, 1, PlainDB), made |-> 1,
              bits |-> Bits \ {"db_uploaded"}]
  /\ proc = [p \in Proc |-> Idle]
  /\ commands = 0

Deployed ==
  /\ disk = [folder |-> TRUE, config |-> "ok", meta |-> "all_ready",
             edb |-> EDBSetup(1, 1, PlainDB)]
  /\ conn = [c \in Conn |-> NewConn]
  /\ running = NoConn
  /\ faults = 0
  /\ hist = [overlapped |-> FALSE, crowded |-> FALSE, gapped |-> FALSE,
             cut |-> {}, torn |-> {}, stored |-> {1}, reached |-> "all_ready"]
  /\ local = [key |-> 1, edb |-> NoEdb, made |-> 1, bits |-> Bits]
  /\ proc = [p \in Proc |-> Idle]
  /\ commands = 1

MCSymmetry == Permutations(Proc)

\* A third connection is used in courses without a fault, and where nobody deletes or
\* updates at the time or has done so by position or address.
Restricted == conn'[3].phase # "none" =>
  /\ faults' = 0 /\ ~hist'.gapped
  /\ \A c \in Conn : conn'[c].inbox.type \notin {"delete", "update"}

MCSpec == (Init \/ Prepared \/ Deployed) /\ [][Next /\ Restricted]_vars
================================================================================
