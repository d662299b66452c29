------------------------------- MODULE Command ------------------------------
(***************************************************************************)
(* The command "start" (cmd.go, handler/util.go, handler/index.go): the    *)
(* goroutine main opens the database, starts the indexer, gives it five    *)
(* seconds to report an error, and starts the deposit service.  After that *)
(* it waits on channels nobody writes to: it ends with the process only.   *)
(* The process is started again whenever it ends.                          *)
(***************************************************************************)
EXTENDS Naturals

VARIABLES
    main,       \* control state of the goroutine main
    attempt     \* NewDB: how often the database was tried

Attempts == 2   \* the loop of NewDB

MainStates == {"down",      \* no process
               "opening",   \* NewDB
               "probing",   \* startIndexProvider: BlockChainInfo, CheckDb
               "window",    \* its select, for five seconds
               "bridging",  \* startBridgeProvider: NewBridge
               "serving"}   \* its select

CommandTypeOK == main \in MainStates /\ attempt \in 0 .. Attempts

CommandInit == main = "down" /\ attempt = 0

Goto(from, to) == main = from /\ main' = to /\ UNCHANGED attempt

Launch == main = "down" /\ main' = "opening" /\ attempt' = 1

OpenDb == Goto("opening", "probing")

\* One try failed: the next one, or PreRunE returns the error.
OpenDbFail ==
    /\ main = "opening"
    /\ IF attempt < Attempts
       THEN attempt' = attempt + 1 /\ UNCHANGED main
       ELSE main' = "down" /\ UNCHANGED attempt

StartIndexer == Goto("probing", "window")
StartIndexerFail == Goto("probing", "down")

\* An error of the indexer comes through errCh: HandleIndexCmd returns it.
IndexerErrorSeen == Goto("window", "down")

\* Five seconds without one: "assume server started successfully".
WindowOver == Goto("window", "bridging")

StartBridge == Goto("bridging", "serving")
StartBridgeFail == Goto("bridging", "down")

\* WaitForQuitSignals is never reached: a signal ends the process at once.
Kill == main # "down" /\ main' = "down" /\ UNCHANGED attempt
=============================================================================
