-------------------------------- MODULE Startup --------------------------------
(***************************************************************************)
(* The start of the trader, over and over: docker starts it whenever it    *)
(* ended.                                                                  *)
(*                                                                         *)
(*   Trader::Trader      connects to the database and loads what the risk  *)
(*                       control needs and the resting orders              *)
(*   Server::Server      connects a second time, loads the users, reads    *)
(*                       its port and listens                              *)
(*   startTransaction    starts the trading threads, or lets main return   *)
(*                                                                         *)
(* A query on a handle that is not connected has no result, and the loader *)
(* asks it for its number of columns: the process ends.                    *)
(***************************************************************************)
EXTENDS Settings

CONSTANTS
  Files,       \* settings.ini as it may be
  Modes,       \* the command line: "test" or anything else
  Beyond,      \* what may lie behind the vector of the tag lines
  Null

ASSUME ModesAssumption == Modes # {} /\ Beyond \subseteq Nat

ASSUME FilesAssumption == Files \subseteq Seq(Seq(STRING) \ {<<>>})

VARIABLES
  \* chosen once
  file, mode,
  reading,     \* what a new parser may read of each section of the file
  rereading,   \* what a parser reads that has read the file before
  host,        \* where the database is
  db,          \* "up" or "down"
  port,        \* "free", or "held" by connections of a process that ended
  pcTrader,    \* "down", a point of the start, or "serving"
  tries,       \* i of the constructor of TradingDataHandler
  handles,     \* the handles connected: "trader", "server"
  connstatus,  \* of the handler last constructed
  loaded,      \* what this process has loaded
  listening    \* the port it listens on, or Null

startVars == <<pcTrader, tries, handles, connstatus, loaded, listening>>
world == <<file, mode, reading, rereading, host>>
serverVars == <<world, db, port, startVars>>

Serving == pcTrader = "serving"

Sections == {"socket", "TraderServer", "database", "Testdatabase"}
Section == IF mode = "test" THEN "Testdatabase" ELSE "database"

ServerInit ==
  /\ file \in Files /\ mode \in Modes
  /\ reading = [s \in Sections |-> {readLine(file, s, FALSE, b) : b \in Beyond}]
  /\ rereading = [s \in Sections |-> readLine(file, s, TRUE, 0)]
  /\ host = Configured(file, Section, "addr")
  /\ db = "down" /\ port = "free"
  /\ pcTrader = "down" /\ tries = 0 /\ handles = {} /\ connstatus = FALSE
  /\ loaded = {} /\ listening = Null

\* The process ends before it serves.
Fail == /\ pcTrader' = "down" /\ tries' = 0 /\ handles' = {} /\ connstatus' = FALSE
        /\ loaded' = {} /\ listening' = Null

-------------------------------------------------------------------------------
(* The world around it *)

DbUp ==
  /\ db = "down" /\ db' = "up"
  /\ UNCHANGED <<world, port, startVars>>

\* A handle does not survive its server.
DbDown ==
  /\ db = "up" /\ db' = "down"
  /\ handles' = {}
  /\ UNCHANGED <<world, port, pcTrader, tries, connstatus, loaded, listening>>

PortFreed ==
  /\ port = "held" /\ ~Serving /\ port' = "free"
  /\ UNCHANGED <<world, db, startVars>>

\* docker-compose.yml: restart always.
Launch ==
  /\ pcTrader = "down"
  /\ pcTrader' = "connect"
  /\ UNCHANGED <<world, db, port, tries, handles, connstatus, loaded, listening>>

\* A process that serves ends for one of the reasons the other modules have, and
\* its connections may keep the port for a while.
StopServing ==
  /\ Serving /\ Fail
  /\ port' \in {"free", "held"}
  /\ UNCHANGED <<world, db>>

-------------------------------------------------------------------------------
(* TradingDataHandler::TradingDataHandler *)

\* MariaDBHandler::initialise: the database answers where the parser read it is.
initialise(ini) == db = "up" /\ "addr" \in DOMAIN ini /\ ini["addr"] = host

\* One attempt after another, and after the sixth that fails the handler stays
\* without a connection.
Connect(here, next) ==
  /\ pcTrader = here
  /\ \E ini \in reading[Section] :
       IF initialise(ini)
       THEN /\ handles' = handles \cup {IF here = "connect" THEN "trader" ELSE "server"}
            /\ connstatus' = TRUE /\ tries' = 0 /\ pcTrader' = next
       ELSE /\ connstatus' = FALSE
            /\ tries' = IF tries = 5 THEN 0 ELSE tries + 1
            /\ pcTrader' = IF tries = 5 THEN next ELSE here
            /\ UNCHANGED handles
  /\ UNCHANGED <<world, db, port, loaded, listening>>

\* Mutant: a query that has no result loads nothing.
QueryLeniently(handle, what, next) ==
  /\ loaded' = IF handle \in handles THEN loaded \cup {what} ELSE loaded
  /\ pcTrader' = next
  /\ UNCHANGED <<tries, handles, connstatus, listening>>

\* A query on one of the handles.
Query(handle, what, next) ==
  IF handle \in handles
  THEN /\ loaded' = loaded \cup {what} /\ pcTrader' = next
       /\ UNCHANGED <<tries, handles, connstatus, listening>>
  ELSE Fail

-------------------------------------------------------------------------------
(* Trader::Trader *)

ConnectTrader == Connect("connect", "trading data")

\* Without a connection the two queries of the risk control are left out.
getTradingData ==
  /\ pcTrader = "trading data"
  /\ IF connstatus THEN Query("trader", "trading data", "products")
     ELSE pcTrader' = "orders" /\ UNCHANGED <<tries, handles, connstatus, loaded, listening>>
  /\ UNCHANGED <<world, db, port>>

getProductList ==
  /\ pcTrader = "products"
  /\ Query("trader", "products", "orders")
  /\ UNCHANGED <<world, db, port>>

\* loadExistOrder does not look at connstatus.
getExistOrder ==
  /\ pcTrader = "orders"
  /\ Query("trader", "orders", "server")
  /\ UNCHANGED <<world, db, port>>

-------------------------------------------------------------------------------
(* Server::Server and startTransaction *)

ConnectServer == Connect("server", "users")

\* Without a connection the server does not listen, and main returns.
getUserData ==
  /\ pcTrader = "users"
  /\ IF connstatus THEN Query("server", "users", "listen") ELSE Fail
  /\ UNCHANGED <<world, db, port>>

\* socketini: stoi of a port that was not read ends the process, and so does
\* main when bind fails.  In test mode main returns as well.
socketini ==
  /\ pcTrader = "listen"
  /\ \E ini \in reading["socket"] :
       IF "port" \in DOMAIN ini /\ port = "free" /\ mode # "test"
       THEN /\ pcTrader' = "serving" /\ listening' = ini["port"]
            /\ UNCHANGED <<tries, handles, connstatus, loaded>>
       ELSE Fail
  /\ UNCHANGED <<world, db, port>>

StartStep ==
  \/ Launch \/ ConnectTrader \/ getTradingData \/ getProductList \/ getExistOrder
  \/ ConnectServer \/ getUserData \/ socketini

\* The process is scheduled and started again; a port is not held for ever.
ServerFair == WF_serverVars(StartStep) /\ WF_serverVars(PortFreed)

-------------------------------------------------------------------------------
\* A server that serves has loaded all it needs, although a handler that gives up
\* and the loaders that follow do not agree on who tests the connection.
ServesInitialised ==
  Serving => loaded = {"trading data", "products", "orders", "users"}

\* The trader serves again and again, whatever ends it, unless the database goes
\* away again and again or a section can not be read.
Readable == \A s \in {Section, "socket"} : Max(TagLines(file)) # StartPos(file, s)
ServesAgain ==
  mode # "test" /\ Readable => []<>Serving \/ []<>(db = "down")
===============================================================================
