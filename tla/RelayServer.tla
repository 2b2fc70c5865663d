----------------------------- MODULE RelayServer -----------------------------
(***************************************************************************)
(* The relay server (src/relayServer.js): its start and stop over the API, *)
(* the client sockets it accepts, and the connection of each, which        *)
(* MultiConnection ends with its socket.                                   *)
(*                                                                         *)
(* Node emits 'listening' right after the handler that called listen(),    *)
(* and the server's 'close' right after the one that destroyed its last    *)
(* socket, before any other event: both belong to the step that causes     *)
(* them.  A socket's own 'close' comes later, as an event of its own.      *)
(***************************************************************************)
EXTENDS Naturals, FiniteSets

CONSTANT Socket     \* the sockets that can be open at the same time

VARIABLES
  alive,            \* whether the process runs
  listening,        \* server.listening
  serverStatus,     \* config.serverStatus
  clientConnected,  \* config.clientConnected
  clients,          \* the sockets the server keeps track of
  conn,             \* what each socket is doing
  destroyTimeout,   \* the sockets whose 5 s timer is running
  remote,           \* whether the connection of a socket has its remote
  stopRequested     \* whether a GET /stop-server waits for its response

vars == <<alive, listening, serverStatus, clientConnected, clients, conn,
          destroyTimeout, remote, stopRequested>>

TypeOK ==
  /\ alive \in BOOLEAN
  /\ listening \in BOOLEAN
  /\ serverStatus \in {"stopped", "pending", "running"}
  /\ clientConnected \in BOOLEAN
  /\ clients \subseteq Socket
  /\ conn \in [Socket -> {"none", "paused", "flowing", "destroyed"}]
  /\ destroyTimeout \subseteq Socket
  /\ remote \in [Socket -> {"down", "up"}]
  /\ stopRequested \in BOOLEAN

Init ==
  /\ alive = TRUE
  /\ listening = FALSE
  /\ serverStatus = "stopped"
  /\ clientConnected = FALSE
  /\ clients = {}
  /\ conn = [s \in Socket |-> "none"]
  /\ destroyTimeout = {}
  /\ remote = [s \in Socket |-> "down"]
  /\ stopRequested = FALSE

\* Sockets that count as connections of the server.
Open(c) == {s \in Socket : c[s] \in {"paused", "flowing"}}

\* Variant with a defect: a status that nothing else knows.
CloseIfDrainedMisnamed(stillListening, status, requested, c) ==
  IF ~stillListening /\ status = "pending" /\ Open(c) = {}
    THEN serverStatus' = "closed" /\ stopRequested' = FALSE
    ELSE serverStatus' = status /\ stopRequested' = requested

\* The server's 'close', when it does not listen and the last of its
\* sockets is destroyed: the callbacks of close() run.
CloseIfDrained(stillListening, status, requested, c) ==
  IF ~stillListening /\ status = "pending" /\ Open(c) = {}
    THEN serverStatus' = "stopped" /\ stopRequested' = FALSE
    ELSE serverStatus' = status /\ stopRequested' = requested

-----------------------------------------------------------------------------
\* GET /start-server, and RelayServer.run().
StartServer ==
  /\ alive
  /\ serverStatus = "stopped"
  /\ ~listening
  /\ listening' = TRUE
  /\ serverStatus' = "running"
  /\ UNCHANGED <<alive, clientConnected, clients, conn, destroyTimeout, remote, stopRequested>>

\* A process begins with a server that does not listen and no sockets, and
\* with it go its sockets, its timers and what it kept in memory.
Process(runs) ==
  /\ alive' = runs
  /\ listening' = FALSE
  /\ serverStatus' = "stopped"
  /\ clientConnected' = FALSE
  /\ clients' = {}
  /\ conn' = [s \in Socket |-> "none"]
  /\ destroyTimeout' = {}
  /\ remote' = [s \in Socket |-> "down"]
  /\ stopRequested' = FALSE

\* The same when the port is taken: the status is pending, and nobody handles
\* the server's 'error', which ends the process.
StartServerFails ==
  /\ alive
  /\ serverStatus = "stopped"
  /\ ~listening
  /\ Process(FALSE)

\* The user ends the program, or it is killed.
Killed == alive /\ Process(FALSE)

\* The program is started again: index.js.
Start == ~alive /\ Process(TRUE)

\* Variants with a defect: the status does not wait for the sockets; no
\* timer is set.
StopServerAtOnce ==
  /\ alive
  /\ serverStatus = "running"
  /\ listening
  /\ listening' = FALSE
  /\ destroyTimeout' = destroyTimeout \cup clients
  /\ serverStatus' = "stopped"
  /\ stopRequested' = FALSE
  /\ UNCHANGED <<alive, clientConnected, clients, conn, remote>>
StopServerPolitely ==
  /\ alive
  /\ serverStatus = "running"
  /\ listening
  /\ listening' = FALSE
  /\ CloseIfDrained(FALSE, "pending", TRUE, conn)
  /\ UNCHANGED <<alive, clientConnected, clients, conn, destroyTimeout, remote>>

\* GET /stop-server, and RelayServer.close(): the sockets are ended, and
\* destroyed if that does not close them.
StopServer ==
  /\ alive
  /\ serverStatus = "running"
  /\ listening
  /\ listening' = FALSE
  /\ destroyTimeout' = destroyTimeout \cup clients
  /\ CloseIfDrained(FALSE, "pending", TRUE, conn)
  /\ UNCHANGED <<alive, clientConnected, clients, conn, remote>>

-----------------------------------------------------------------------------
\* Variant with a defect: the socket is not kept track of.
HandleClientUntracked(s) ==
  /\ alive
  /\ listening
  /\ conn[s] = "none"
  /\ conn' = [conn EXCEPT ![s] = "paused"]
  /\ UNCHANGED <<alive, listening, serverStatus, clientConnected, clients, destroyTimeout, remote,
                 stopRequested>>

\* handleClient: a socket is accepted, paused, and its connection runs.
HandleClient(s) ==
  /\ alive
  /\ listening
  /\ conn[s] = "none"
  /\ clients' = clients \cup {s}
  /\ conn' = [conn EXCEPT ![s] = "paused"]
  /\ UNCHANGED <<alive, listening, serverStatus, clientConnected, destroyTimeout, remote,
                 stopRequested>>

\* The handshake with the remote completes, perhaps while the client socket
\* is destroyed and not closed yet; the first time, run() resumes the socket.
CompletedHandshake(s) ==
  /\ alive
  /\ conn[s] # "none"
  /\ remote[s] = "down"
  /\ remote' = [remote EXCEPT ![s] = "up"]
  /\ conn' = [conn EXCEPT ![s] = IF @ = "paused" THEN "flowing" ELSE @]
  /\ UNCHANGED <<alive, listening, serverStatus, clientConnected, clients, destroyTimeout,
                 stopRequested>>

\* The remote is lost; RtmpClient will reconnect.
RemoteLost(s) ==
  /\ alive
  /\ remote[s] = "up"
  /\ remote' = [remote EXCEPT ![s] = "down"]
  /\ UNCHANGED <<alive, listening, serverStatus, clientConnected, clients, conn, destroyTimeout,
                 stopRequested>>

\* A socket that is open is destroyed.
Destroy(s) ==
  /\ conn[s] \in {"paused", "flowing"}
  /\ conn' = [conn EXCEPT ![s] = "destroyed"]
  /\ CloseIfDrained(listening, serverStatus, stopRequested, conn')

\* OBS closes its end, which only a socket that is read notices.
ObsCloses(s) ==
  /\ alive
  /\ conn[s] = "flowing"
  /\ Destroy(s)
  /\ UNCHANGED <<alive, listening, clientConnected, clients, destroyTimeout, remote>>

\* The socket did not close in 5 s.
DestroyTimeout(s) ==
  /\ alive
  /\ s \in destroyTimeout
  /\ destroyTimeout' = destroyTimeout \ {s}
  /\ IF conn[s] \in {"paused", "flowing"}
       THEN Destroy(s)
       ELSE UNCHANGED <<conn, serverStatus, stopRequested>>
  /\ UNCHANGED <<alive, listening, clientConnected, clients, remote>>

\* Variant with a defect: the connection is not closed with its socket.
SocketClosedOnly(s) ==
  /\ alive
  /\ conn[s] = "destroyed"
  /\ clients' = clients \ {s}
  /\ destroyTimeout' = destroyTimeout \ {s}
  /\ conn' = [conn EXCEPT ![s] = "none"]
  /\ UNCHANGED <<alive, listening, serverStatus, clientConnected, remote, stopRequested>>

\* A client socket's 'close': the listeners of RelayServer, and close() of
\* its connection.
SocketClosed(s) ==
  /\ alive
  /\ conn[s] = "destroyed"
  /\ clients' = clients \ {s}
  /\ destroyTimeout' = destroyTimeout \ {s}
  /\ clientConnected' = FALSE
  /\ remote' = [remote EXCEPT ![s] = "down"]
  /\ conn' = [conn EXCEPT ![s] = "none"]
  /\ UNCHANGED <<alive, listening, serverStatus, stopRequested>>

-----------------------------------------------------------------------------
Next ==
  \/ StartServer \/ StartServerFails \/ StopServer
  \/ Killed \/ Start
  \/ \E s \in Socket :
       \/ HandleClient(s) \/ CompletedHandshake(s) \/ RemoteLost(s)
       \/ ObsCloses(s) \/ DestroyTimeout(s) \/ SocketClosed(s)

Spec == Init /\ [][Next]_vars

\* The event loop gets round to every timer and event.
Fairness == \A s \in Socket : WF_vars(DestroyTimeout(s)) /\ WF_vars(SocketClosed(s))

FairSpec == Spec /\ Fairness

-----------------------------------------------------------------------------
\* The status that the API and the page show, and by which requests are
\* accepted, is that of the server: it is running while it listens, and it
\* is not called stopped while a socket is open.
StatusIsHonest ==
  alive => /\ serverStatus = "running" <=> listening
           /\ serverStatus = "stopped" => Open(conn) = {}

\* Every open socket is one that a stop will end, and no request to stop
\* waits unless there is one.
StopReachesEverySocket ==
  /\ Open(conn) \subseteq clients
  /\ serverStatus = "pending" /\ alive
       => stopRequested /\ Open(conn) # {} /\ Open(conn) \subseteq destroyTimeout

\* A connection to the remote does not outlive its client socket.
NoOrphanedRemote == \A s \in Socket : remote[s] = "up" => s \in clients

\* A stop ends, and is answered, even if OBS does not close or was never
\* read from.
StopEnds == (alive /\ stopRequested) ~> ~stopRequested

=============================================================================
