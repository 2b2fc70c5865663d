------------------------- MODULE ControlPlaneProofs -------------------------
(***************************************************************************)
(* The safety of starting and stopping the relay server, for any set of    *)
(* sockets; that the settings survive a restart, for all requests, edits   *)
(* and defaults; and that the relay server keeps its properties in a       *)
(* program that has them.                                                  *)
(***************************************************************************)
EXTENDS ControlPlane, TLAPS

-----------------------------------------------------------------------------
(* The relay server.                                                       *)

\* The inductive invariant.  The three properties need two facts more: a
\* socket is tracked as long as it exists, also when it is destroyed and its
\* handshake still completes; and who is open decides what a stop waits for.
Tracked == \A s \in Socket : conn[s] # "none" => s \in clients

IInv ==
  /\ TypeOK
  /\ Tracked
  /\ StatusIsHonest
  /\ StopReachesEverySocket
  /\ NoOrphanedRemote

\* What is open after the only ways in which a socket's state changes.
LEMMA OpenAfter ==
  ASSUME TypeOK, NEW s \in Socket, NEW v \in {"none", "paused", "flowing", "destroyed"}
  PROVE  /\ [conn EXCEPT ![s] = v] \in [Socket -> {"none", "paused", "flowing", "destroyed"}]
         /\ v \in {"paused", "flowing"} => Open([conn EXCEPT ![s] = v]) = Open(conn) \cup {s}
         /\ v \notin {"paused", "flowing"} => Open([conn EXCEPT ![s] = v]) = Open(conn) \ {s}
  BY DEF TypeOK, Open

LEMMA InitIInv == Init => IInv
  BY DEF Init, IInv, TypeOK, Tracked, StatusIsHonest, StopReachesEverySocket, NoOrphanedRemote, Open

\* A process begins and ends without sockets.
LEMMA ProcessStep ==
  ASSUME NEW runs \in BOOLEAN, Process(runs)
  PROVE  IInv'
  BY DEF Process, IInv, TypeOK, Tracked, StatusIsHonest, StopReachesEverySocket, NoOrphanedRemote,
         Open

\* A request to start is accepted when no socket is open any more.
LEMMA StartServerStep ==
  ASSUME IInv, StartServer
  PROVE  IInv'
<1>1. UNCHANGED <<clients, conn, remote, destroyTimeout, clientConnected, stopRequested>>
  BY DEF StartServer
<1>2. TypeOK' /\ Tracked' /\ NoOrphanedRemote'
  BY <1>1 DEF IInv, StartServer, TypeOK, Tracked, NoOrphanedRemote
<1>3. StatusIsHonest' /\ StopReachesEverySocket'
  BY <1>1 DEF IInv, StartServer, StatusIsHonest, StopReachesEverySocket, Open
<1>. QED
  BY <1>2, <1>3 DEF IInv

\* A stop sets a timer for every open socket, because every one is tracked.
LEMMA StopStep ==
  ASSUME IInv, StopServer
  PROVE  IInv'
<1>1. /\ UNCHANGED <<alive, clientConnected, clients, conn, remote>>
      /\ listening' = FALSE
      /\ destroyTimeout' = destroyTimeout \cup clients
      /\ CloseIfDrained(FALSE, "pending", TRUE, conn)
  BY DEF StopServer
<1>2. \/ Open(conn) = {} /\ serverStatus' = "stopped" /\ stopRequested' = FALSE
      \/ Open(conn) # {} /\ serverStatus' = "pending" /\ stopRequested' = TRUE
  BY <1>1 DEF CloseIfDrained
<1>3. TypeOK' /\ Tracked' /\ NoOrphanedRemote'
  BY <1>1, <1>2 DEF IInv, TypeOK, Tracked, NoOrphanedRemote
<1>4. StatusIsHonest' /\ StopReachesEverySocket'
  BY <1>1, <1>2 DEF IInv, StatusIsHonest, StopReachesEverySocket
<1>. QED
  BY <1>3, <1>4 DEF IInv

-----------------------------------------------------------------------------
\* A new socket is tracked, and comes only while the server runs.
LEMMA HandleClientStep ==
  ASSUME IInv, NEW s \in Socket, HandleClient(s)
  PROVE  IInv'
<1>1. /\ UNCHANGED <<alive, listening, serverStatus, clientConnected, destroyTimeout, remote,
                     stopRequested>>
      /\ alive /\ listening
      /\ clients' = clients \cup {s}
      /\ conn' = [conn EXCEPT ![s] = "paused"]
  BY DEF HandleClient
<1>2. /\ conn' \in [Socket -> {"none", "paused", "flowing", "destroyed"}]
      /\ Open(conn') = Open(conn) \cup {s}
  BY <1>1, OpenAfter DEF IInv
<1>3. TypeOK' /\ Tracked' /\ NoOrphanedRemote'
  BY <1>1, <1>2 DEF IInv, TypeOK, Tracked, NoOrphanedRemote
<1>4. serverStatus = "running"
  BY <1>1 DEF IInv, StatusIsHonest
<1>5. StatusIsHonest' /\ StopReachesEverySocket'
  BY <1>1, <1>2, <1>4 DEF IInv, StatusIsHonest, StopReachesEverySocket
<1>. QED
  BY <1>3, <1>5 DEF IInv

\* The remote comes and goes; an open socket stays open.
LEMMA RemoteStep ==
  ASSUME IInv, NEW s \in Socket, CompletedHandshake(s) \/ RemoteLost(s)
  PROVE  IInv'
<1>1. /\ UNCHANGED <<alive, listening, serverStatus, clientConnected, clients, destroyTimeout,
                     stopRequested>>
      /\ conn[s] # "none" \/ remote[s] = "up"
      /\ \/ remote' = [remote EXCEPT ![s] = "up"]
         \/ remote' = [remote EXCEPT ![s] = "down"]
      /\ conn' = [conn EXCEPT ![s] = IF @ = "paused" THEN "flowing" ELSE @] \/ conn' = conn
  BY DEF CompletedHandshake, RemoteLost
<1>2. /\ conn' \in [Socket -> {"none", "paused", "flowing", "destroyed"}]
      /\ Open(conn') = Open(conn)
      /\ \A t \in Socket : conn'[t] # "none" => conn[t] # "none"
  BY <1>1 DEF IInv, TypeOK, Open
<1>3. s \in clients
  BY <1>1 DEF IInv, Tracked, NoOrphanedRemote
<1>4. TypeOK' /\ Tracked' /\ NoOrphanedRemote'
  BY <1>1, <1>2, <1>3 DEF IInv, TypeOK, Tracked, NoOrphanedRemote
<1>5. StatusIsHonest' /\ StopReachesEverySocket'
  BY <1>1, <1>2 DEF IInv, StatusIsHonest, StopReachesEverySocket
<1>. QED
  BY <1>4, <1>5 DEF IInv

\* A socket is destroyed: by OBS, or by its timer, which is gone with it.
LEMMA DestroyStep ==
  ASSUME IInv, NEW s \in Socket, alive, Destroy(s),
         destroyTimeout' \in {destroyTimeout, destroyTimeout \ {s}},
         UNCHANGED <<alive, listening, clientConnected, clients, remote>>
  PROVE  IInv'
<1>1. /\ conn' \in [Socket -> {"none", "paused", "flowing", "destroyed"}]
      /\ Open(conn') = Open(conn) \ {s}
      /\ \A t \in Socket : conn'[t] # "none" => conn[t] # "none"
  BY OpenAfter DEF IInv, Destroy, TypeOK
<1>2. \/ /\ ~listening /\ serverStatus = "pending" /\ Open(conn') = {}
         /\ serverStatus' = "stopped" /\ stopRequested' = FALSE
      \/ /\ listening \/ serverStatus # "pending" \/ Open(conn') # {}
         /\ serverStatus' = serverStatus /\ stopRequested' = stopRequested
  BY DEF Destroy, CloseIfDrained
<1>3. TypeOK' /\ Tracked' /\ NoOrphanedRemote'
  BY <1>1, <1>2 DEF IInv, TypeOK, Tracked, NoOrphanedRemote
<1>4. StatusIsHonest'
  BY <1>1, <1>2 DEF IInv, StatusIsHonest
<1>5. serverStatus = "pending" => ~listening
  BY DEF IInv, StatusIsHonest
<1>6. StopReachesEverySocket'
  BY <1>1, <1>2, <1>5 DEF IInv, StopReachesEverySocket
<1>. QED
  BY <1>3, <1>4, <1>6 DEF IInv

LEMMA DestroyTimeoutStep ==
  ASSUME IInv, NEW s \in Socket, DestroyTimeout(s)
  PROVE  IInv'
<1>1. CASE conn[s] \in {"paused", "flowing"}
  BY <1>1, DestroyStep DEF DestroyTimeout
<1>2. CASE conn[s] \notin {"paused", "flowing"}
  <2>1. /\ destroyTimeout' = destroyTimeout \ {s}
        /\ UNCHANGED <<conn, serverStatus, stopRequested, alive, listening, clientConnected, clients,
                       remote>>
    BY <1>2 DEF DestroyTimeout
  <2>2. s \notin Open(conn)
    BY <1>2 DEF Open
  <2>3. TypeOK' /\ Tracked' /\ NoOrphanedRemote' /\ StatusIsHonest'
    BY <2>1 DEF IInv, TypeOK, Tracked, NoOrphanedRemote, StatusIsHonest
  <2>4. StopReachesEverySocket'
    BY <2>1, <2>2 DEF IInv, StopReachesEverySocket
  <2>. QED
    BY <2>3, <2>4 DEF IInv
<1>. QED
  BY <1>1, <1>2

\* A closed socket is forgotten with its timer, and its remote is given up.
LEMMA SocketClosedStep ==
  ASSUME IInv, NEW s \in Socket, SocketClosed(s)
  PROVE  IInv'
<1>1. /\ UNCHANGED <<alive, listening, serverStatus, stopRequested>>
      /\ clients' = clients \ {s}
      /\ destroyTimeout' = destroyTimeout \ {s}
      /\ clientConnected' = FALSE
      /\ remote' = [remote EXCEPT ![s] = "down"]
      /\ conn' = [conn EXCEPT ![s] = "none"]
      /\ conn[s] = "destroyed"
  BY DEF SocketClosed
<1>2. /\ conn' \in [Socket -> {"none", "paused", "flowing", "destroyed"}]
      /\ Open(conn') = Open(conn) \ {s}
      /\ s \notin Open(conn)
  BY <1>1, OpenAfter DEF IInv, Open
<1>3. TypeOK' /\ Tracked' /\ NoOrphanedRemote'
  BY <1>1, <1>2 DEF IInv, TypeOK, Tracked, NoOrphanedRemote
<1>4. StatusIsHonest' /\ StopReachesEverySocket'
  BY <1>1, <1>2 DEF IInv, StatusIsHonest, StopReachesEverySocket
<1>. QED
  BY <1>3, <1>4 DEF IInv

-----------------------------------------------------------------------------
LEMMA NextIInv == IInv /\ [Next]_vars => IInv'
<1>. SUFFICES ASSUME IInv, [Next]_vars PROVE IInv'
  OBVIOUS
<1>0. ASSUME NEW runs \in BOOLEAN, Process(runs) PROVE IInv'
  BY <1>0, ProcessStep
<1>1. CASE StartServer
  BY <1>1, StartServerStep
<1>2. CASE StopServer
  BY <1>2, StopStep
<1>3. ASSUME NEW s \in Socket, HandleClient(s) PROVE IInv'
  BY <1>3, HandleClientStep
<1>4. ASSUME NEW s \in Socket, CompletedHandshake(s) \/ RemoteLost(s) PROVE IInv'
  BY <1>4, RemoteStep
<1>5. ASSUME NEW s \in Socket, ObsCloses(s) PROVE IInv'
  BY <1>5, DestroyStep DEF ObsCloses
<1>6. ASSUME NEW s \in Socket, DestroyTimeout(s) PROVE IInv'
  BY <1>6, DestroyTimeoutStep
<1>7. ASSUME NEW s \in Socket, SocketClosed(s) PROVE IInv'
  BY <1>7, SocketClosedStep
<1>8. CASE UNCHANGED vars
  BY <1>8 DEF vars, IInv, TypeOK, Tracked, StatusIsHonest, StopReachesEverySocket, NoOrphanedRemote,
              Open
<1>. QED
  BY <1>0, <1>1, <1>2, <1>3, <1>4, <1>5, <1>6, <1>7, <1>8 DEF Next, StartServerFails, Killed, Start

LEMMA InvariantHolds == Spec => []IInv
  BY InitIInv, NextIInv, PTL DEF Spec

\* The status the API acts on is that of the server: running while it
\* listens, and not called stopped while a socket is open.
THEOREM StatusStaysHonest == Spec => []StatusIsHonest
<1>1. IInv => StatusIsHonest
  BY DEF IInv
<1>. QED
  BY <1>1, InvariantHolds, PTL

\* A stop sets the timer of every open socket, and none is open that it
\* does not know.
THEOREM StopMissesNoSocket == Spec => []StopReachesEverySocket
<1>1. IInv => StopReachesEverySocket
  BY DEF IInv
<1>. QED
  BY <1>1, InvariantHolds, PTL

\* Whatever order the handshake, losses and closing come in, a connection to
\* the remote does not outlive its client socket.
THEOREM NoRemoteIsOrphaned == Spec => []NoOrphanedRemote
<1>1. IInv => NoOrphanedRemote
  BY DEF IInv
<1>. QED
  BY <1>1, InvariantHolds, PTL

-----------------------------------------------------------------------------
(* The settings and their file.                                            *)

InRange(s) == \A k \in Setting : s[k] > 0 /\ (k \in PortSetting => s[k] < PortLimit)

\* The inductive invariant.  An intact file holds the settings, also when the
\* process is gone; and a file that only the program wrote, from which a
\* later start takes them, has them in their range.
FileIsSettings == intact => file = Json(settings)
FileInRange ==
  ~edited => \/ file \in {Absent, Broken}
             \/ \E s \in [Setting -> Int] : file = Json(s) /\ InRange(s)
ControlIInv == SettingsTypeOK /\ FileIsSettings /\ FileInRange /\ SettingsInRange

\* What can be in the file when it is loaded.
File == {Absent, Broken} \cup {Json(e) : e \in Edit} \cup {Json(s) : s \in [Setting -> Int]}

LEMMA FileType == SettingsTypeOK => file \in File
  BY DEF SettingsTypeOK, File

-----------------------------------------------------------------------------
\* Whatever is in the file, each setting gets an integer: that of the file, or
\* a default.
LEMMA LoadedType ==
  ASSUME NEW f \in File
  PROVE  Loaded(f) \in [Setting -> Int]
<1>1. \A k \in DOMAIN f.data : f.data[k] \in Int
  <2>1. CASE f \in {Absent, Broken}
    BY <2>1 DEF Absent, Broken, Nothing
  <2>2. ASSUME NEW e \in Edit, f = Json(e) PROVE \A k \in DOMAIN f.data : f.data[k] \in Int
    BY <2>2, ControlAssumption DEF Json
  <2>3. ASSUME NEW s \in [Setting -> Int], f = Json(s)
        PROVE  \A k \in DOMAIN f.data : f.data[k] \in Int
    BY <2>3 DEF Json
  <2>. QED
    BY <2>1, <2>2, <2>3 DEF File
<1>2. \A k \in Setting : Default[k] \in Int
  BY ControlAssumption
<1>3. "MAX_BUFFER_BYTES" \in Setting
  BY DEF Setting
<1>. QED
  BY <1>1, <1>2, <1>3 DEF Loaded

\* A file that was saved whole gives the settings that were saved.
LEMMA LoadedIsSaved ==
  ASSUME NEW s \in [Setting -> Int]
  PROVE  Loaded(Json(s)) = s
<1>1. Json(s).data = s /\ DOMAIN s = Setting
  BY DEF Json
<1>. QED
  BY <1>1 DEF Loaded

\* A file that says nothing gives the defaults, which are in their range.
LEMMA LoadedDefaults ==
  ASSUME NEW f \in {Absent, Broken}
  PROVE  InRange(Loaded(f))
<1>1. DOMAIN f.data = {}
  BY DEF Absent, Broken, Nothing
<1>2. \A k \in Setting : Default[k] > 0 /\ (k \in PortSetting => Default[k] < PortLimit)
  BY ControlAssumption DEF Accepts
<1>3. "MAX_BUFFER_BYTES" \in Setting /\ "MAX_BUFFER_CHUNKS" \notin PortSetting
  BY DEF Setting, PortSetting
<1>4. \A k \in Setting : \/ Loaded(f)[k] = Default[k]
                         \/ k = "MAX_BUFFER_CHUNKS" /\ Loaded(f)[k] = Default["MAX_BUFFER_BYTES"]
  BY <1>1 DEF Loaded
<1>. QED
  BY <1>2, <1>3, <1>4 DEF InRange

-----------------------------------------------------------------------------
\* A save of new settings, whether it succeeds or not, establishes what the
\* invariant says of the file.
LEMMA SaveStep ==
  ASSUME ControlIInv, NEW s \in [Setting -> Int], settings' = s, Save(s),
         ~edited => InRange(s), edited' = edited, apiPort' \in Int
  PROVE  ControlIInv'
<1>1. \/ file' = Json(s) /\ intact' = TRUE
      \/ file' \in {file, Broken} /\ intact' = FALSE
  BY DEF Save
<1>2. file' = Json(s) => file' = Json(file.data)' /\ file'.data = s
  BY DEF Json
<1>3. SettingsTypeOK'
  BY <1>1, <1>2 DEF ControlIInv, SettingsTypeOK
<1>4. FileIsSettings'
  BY <1>1 DEF FileIsSettings
<1>5. FileInRange'
  BY <1>1 DEF ControlIInv, FileInRange
<1>6. SettingsInRange'
  BY DEF SettingsInRange, InRange
<1>. QED
  BY <1>3, <1>4, <1>5, <1>6 DEF ControlIInv

LEMMA ControlInitIInv == ControlInit => ControlIInv
<1>. SUFFICES ASSUME ControlInit PROVE ControlIInv
  OBVIOUS
<1>1. settings = Loaded(Absent) /\ file \in {Absent, Json(settings)} /\ intact = (file # Absent)
      /\ apiPort = settings["API_PORT"] /\ edited = FALSE
  BY DEF ControlInit
<1>2. settings \in [Setting -> Int]
  BY <1>1, LoadedType DEF File
<1>3. InRange(settings)
  BY <1>1, LoadedDefaults
<1>4. apiPort \in Int
  BY <1>1, <1>2 DEF Setting
<1>5. file = Json(settings) => file = Json(file.data) /\ file.data = settings
  BY DEF Json
<1>6. SettingsTypeOK
  BY <1>1, <1>2, <1>4, <1>5 DEF SettingsTypeOK
<1>7. FileIsSettings /\ FileInRange /\ SettingsInRange
  BY <1>1, <1>2, <1>3 DEF FileIsSettings, FileInRange, SettingsInRange, InRange
<1>. QED
  BY <1>6, <1>7 DEF ControlIInv

LEMMA SetSettingStep ==
  ASSUME ControlIInv, NEW k \in Requested, NEW v \in Value, SetSetting(k, v)
  PROVE  ControlIInv'
<1>. DEFINE s == [settings EXCEPT ![k] = v]
<1>1. /\ Accepts(k, v) /\ settings' = s /\ Save(s) /\ apiPort' = apiPort /\ edited' = edited
  BY DEF SetSetting, Set
<1>2. k \in Setting /\ v \in Int
  BY ControlAssumption
<1>3. s \in [Setting -> Int] /\ apiPort' \in Int
  BY <1>1, <1>2 DEF ControlIInv, SettingsTypeOK
<1>4. ~edited => InRange(s)
  BY <1>1, <1>2 DEF ControlIInv, SettingsTypeOK, SettingsInRange, InRange, Accepts
<1>. QED
  BY <1>1, <1>3, <1>4, SaveStep

LEMMA BootStep ==
  ASSUME ControlIInv, Boot
  PROVE  ControlIInv'
<1>1. settings' = Loaded(file) /\ Save(settings') /\ apiPort' = settings'["API_PORT"]
      /\ edited' = edited
  BY DEF Boot
<1>2. Loaded(file) \in [Setting -> Int]
  BY FileType, LoadedType DEF ControlIInv
<1>3. ~edited => InRange(Loaded(file))
  BY LoadedDefaults, LoadedIsSaved DEF ControlIInv, FileInRange
<1>4. apiPort' \in Int
  BY <1>1, <1>2 DEF Setting
<1>. QED
  BY <1>1, <1>2, <1>3, <1>4, SaveStep

LEMMA EditFileStep ==
  ASSUME ControlIInv, EditFile
  PROVE  ControlIInv'
  BY DEF EditFile, ControlIInv, SettingsTypeOK, FileIsSettings, FileInRange, SettingsInRange

LEMMA ControlNextIInv == ControlIInv /\ [ControlNext]_controlVars => ControlIInv'
<1>. SUFFICES ASSUME ControlIInv, [ControlNext]_controlVars PROVE ControlIInv'
  OBVIOUS
<1>1. ASSUME NEW k \in Requested, NEW v \in Value, SetSetting(k, v) PROVE ControlIInv'
  BY <1>1, SetSettingStep
<1>2. CASE EditFile
  BY <1>2, EditFileStep
<1>3. CASE StartProcess \/ StartProcessFails
  BY <1>3, BootStep DEF StartProcess, StartProcessFails
<1>4. CASE UNCHANGED configVars
  BY <1>4 DEF configVars, ControlIInv, SettingsTypeOK, FileIsSettings, FileInRange, SettingsInRange
<1>. QED
  BY <1>1, <1>2, <1>3, <1>4 DEF ControlNext, ServerStep, controlVars

LEMMA ControlInvariantHolds == ControlSpec => []ControlIInv
  BY ControlInitIInv, ControlNextIInv, PTL DEF ControlSpec

-----------------------------------------------------------------------------
\* The settings do not disturb the relay server: the program implements its
\* specification, and all that is proved of it holds here.
THEOREM ControlPlaneKeepsServer == ControlSpec => Spec
<1>1. ControlInit => Init
  BY DEF ControlInit
<1>2. [ControlNext]_controlVars => [Next]_vars
  BY DEF ControlNext, SetSetting, EditFile, StartProcess, StartProcessFails, ServerStep, Next,
         controlVars
<1>. QED
  BY <1>1, <1>2, PTL DEF ControlSpec, Spec

\* Server, settings, file and histories have the types that the run checks.
THEOREM ControlTypeCorrect == ControlSpec => []ControlTypeOK
<1>1. IInv /\ ControlIInv => ControlTypeOK
  BY DEF IInv, ControlIInv, ControlTypeOK
<1>. QED
  BY <1>1, ControlInvariantHolds, ControlPlaneKeepsServer, InvariantHolds, PTL

\* A process that is started after any end has the settings that the last
\* one had, if the last save succeeded and nobody touched the file since.
THEOREM SettingsSurvive == ControlSpec => RestartKeepsSettings
<1>1. ControlIInv /\ [ControlNext]_controlVars
        => [~alive /\ intact => settings' = settings]_controlVars
  <2>. SUFFICES ASSUME ControlIInv, ControlNext, ~alive, intact PROVE settings' = settings
    BY DEF controlVars
  <2>1. Loaded(file) = settings
    BY LoadedIsSaved DEF ControlIInv, FileIsSettings, SettingsTypeOK
  <2>2. CASE StartProcess \/ StartProcessFails
    BY <2>1, <2>2 DEF StartProcess, StartProcessFails, Boot
  <2>3. CASE EditFile
    BY <2>3 DEF EditFile
  <2>. QED
    BY <2>2, <2>3 DEF ControlNext, SetSetting, ServerStep
<1>. QED
  BY <1>1, ControlInvariantHolds, PTL DEF ControlSpec, RestartKeepsSettings

\* A lost or half-written file never gives the program a setting that the
\* API would not accept.
THEOREM SettingsStayInRange == ControlSpec => []SettingsInRange
<1>1. ControlIInv => SettingsInRange
  BY DEF ControlIInv
<1>. QED
  BY <1>1, ControlInvariantHolds, PTL

=============================================================================
