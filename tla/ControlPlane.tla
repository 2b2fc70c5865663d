---------------------------- MODULE ControlPlane ----------------------------
(***************************************************************************)
(* The program as its API sees it: the settings (src/config.js) with the   *)
(* requests that change them (src/api/apiServer.js), the file they are     *)
(* kept in, and the relay server, whose process ends and is started again. *)
(*                                                                         *)
(* Every setter rewrites the whole file, in place; the constructor loads   *)
(* the file, fills in defaults and saves.  Errors of either are logged and *)
(* the program goes on.  The user may edit the file at any time.           *)
(*                                                                         *)
(* A value is an integer.  For REMOTE_RTMP_URL 0 stands for the empty      *)
(* string, and MAX_BUFFER_BYTES counts units of 6000 bytes.                *)
(***************************************************************************)
EXTENDS RelayServer, Integers

Setting == {"API_PORT", "LOCAL_PORT", "STREAM_DELAY_MS", "REMOTE_RTMP_URL", "REMOTE_RTMP_PORT",
            "LATENCY_INTERVAL", "MAX_BUFFER_BYTES", "MAX_BUFFER_CHUNKS"}
PortSetting == {"API_PORT", "LOCAL_PORT", "REMOTE_RTMP_PORT"}

CONSTANTS
  Requested,   \* the settings that requests are made for
  Value,       \* the values that they are made with
  Edit,        \* what users write in the file: objects with some of the settings
  Default,     \* the defaults, but for MAX_BUFFER_CHUNKS
  PortLimit    \* 65536

\* The endpoint answers 200, and not 400.  Variant with a defect: always.
AcceptsAll(k, v) == TRUE
Accepts(k, v) == v > 0 /\ (k \in PortSetting => v < PortLimit)

ASSUME ControlAssumption ==
  /\ Requested \subseteq Setting
  /\ Value \subseteq Int
  /\ \A e \in Edit : DOMAIN e \subseteq Setting /\ \A k \in DOMAIN e : e[k] \in Int
  /\ Default \in [Setting -> Int]
  /\ \A k \in Setting : Accepts(k, Default[k])
  /\ PortLimit \in Nat

VARIABLES
  settings,   \* the fields of config; after the end of the process, those it had
  file,       \* config.json: its kind, and the object if it holds one
  apiPort,    \* the port the API listens on, read when the process started
  intact,     \* history: the last save succeeded and nobody wrote to the file since
  edited      \* history: the user wrote to the file

configVars == <<settings, file, apiPort, intact, edited>>
controlVars == <<vars, configVars>>

Nothing == [k \in {} |-> 0]
Absent == [kind |-> "absent", data |-> Nothing]
Broken == [kind |-> "broken", data |-> Nothing]
Json(s) == [kind |-> "json", data |-> s]

SettingsTypeOK ==
  /\ settings \in [Setting -> Int]
  /\ \/ file \in {Absent, Broken} \cup {Json(e) : e \in Edit}
     \/ file = Json(file.data) /\ file.data \in [Setting -> Int]
  /\ apiPort \in Int
  /\ intact \in BOOLEAN
  /\ edited \in BOOLEAN

\* The values that the variables of server and settings can have.
ControlTypeOK == TypeOK /\ SettingsTypeOK

\* Variant with a defect: the default of MAX_BUFFER_CHUNKS comes before that
\* of MAX_BUFFER_BYTES, and is no number then, which is left out here.
LoadedTooEarly(f) ==
  LET Given(k) == IF k \in DOMAIN f.data THEN f.data[k] ELSE Default[k]
      NaN == IF {"MAX_BUFFER_BYTES", "MAX_BUFFER_CHUNKS"} \cap DOMAIN f.data = {}
               THEN {"MAX_BUFFER_CHUNKS"}
               ELSE {}
  IN [k \in Setting \ NaN |-> Given(k)]

\* The constructor: what the file says, and defaults for the rest.  A file
\* that cannot be parsed says nothing.
Loaded(f) ==
  LET Given(k) == IF k \in DOMAIN f.data THEN f.data[k] ELSE Default[k]
  IN [k \in Setting |-> IF k = "MAX_BUFFER_CHUNKS" /\ k \notin DOMAIN f.data
                           THEN Given("MAX_BUFFER_BYTES")
                           ELSE Given(k)]

\* Variant with a defect: what the file already holds wins.
SaveMissing(s) ==
  \/ /\ file' = Json([k \in Setting |-> IF k \in DOMAIN file.data THEN file.data[k] ELSE s[k]])
     /\ intact' = TRUE
  \/ file' \in {file, Broken} /\ intact' = FALSE

\* saveToDisk: the file cannot be opened, or not be written to its end, as
\* when the process is killed meanwhile, and a part is left of it.
Save(s) ==
  \/ file' = Json(s) /\ intact' = TRUE
  \/ file' \in {file, Broken} /\ intact' = FALSE

ControlInit ==
  /\ Init
  /\ settings = Loaded(Absent)
  /\ file \in {Absent, Json(settings)}
  /\ intact = (file # Absent)
  /\ apiPort = settings["API_PORT"]
  /\ edited = FALSE

-----------------------------------------------------------------------------
\* The setter of a setting.
Set(k, v) ==
  /\ settings' = [settings EXCEPT ![k] = v]
  /\ Save(settings')

\* A request that changes a setting.
SetSetting(k, v) ==
  /\ alive
  /\ Accepts(k, v)
  /\ Set(k, v)
  /\ UNCHANGED <<vars, apiPort, edited>>

\* The user writes the file, perhaps with a mistake, or deletes it.
EditFile ==
  /\ file' \in {Json(e) : e \in Edit} \cup {Absent, Broken}
  /\ intact' = FALSE
  /\ edited' = TRUE
  /\ UNCHANGED <<vars, settings, apiPort>>

\* The process starts: the settings are loaded and saved, and the API listens
\* on its port, which has to be one.
Boot ==
  /\ settings' = Loaded(file)
  /\ Save(settings')
  /\ apiPort' = settings'["API_PORT"]
  /\ UNCHANGED edited
StartProcess ==
  /\ Start
  /\ Boot
  /\ apiPort' \in 0 .. PortLimit - 1

\* The API cannot listen, as when the port is taken by another program.
StartProcessFails ==
  /\ ~alive
  /\ Boot
  /\ UNCHANGED vars

\* The relay server reads its port when it is started: not that of the API.
ServerStep ==
  /\ alive
  /\ Next
  /\ StartServer => settings["LOCAL_PORT"] \in 0 .. PortLimit - 1 /\ settings["LOCAL_PORT"] # apiPort
  /\ UNCHANGED configVars

ControlNext ==
  \/ \E k \in Requested, v \in Value : SetSetting(k, v)
  \/ EditFile
  \/ StartProcess \/ StartProcessFails
  \/ ServerStep

ControlSpec == ControlInit /\ [][ControlNext]_controlVars

ControlFairSpec == ControlSpec /\ Fairness

-----------------------------------------------------------------------------
\* A process that is started has the settings the last one ended with, after
\* any requests, failures and ends, unless the last save failed or the file
\* was touched: every accepted request is on the disk, whole.
RestartKeepsSettings == [][~alive /\ intact => settings' = settings]_controlVars

\* Whatever is lost, a part of the file or all of it, the program runs with
\* positive settings and possible ports, as long as only it wrote the file.
SettingsInRange ==
  ~edited => \A k \in Setting : settings[k] > 0 /\ (k \in PortSetting => settings[k] < PortLimit)

=============================================================================
