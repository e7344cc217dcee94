----------------------------- MODULE Deployment -----------------------------
(***************************************************************************)
(* The Go server as manage_gonexus runs it: each server process reads the  *)
(* environment and config.yaml once, before it listens, and somebody edits *)
(* config.yaml between and during the commands.  No two processes listen   *)
(* on one port.                                                            *)
(***************************************************************************)
EXTENDS ServiceControl, ServerConfig

CONSTANTS
  Environments,   \* environments the servers may be started in
  ConfigFiles,    \* contents of config.yaml, Unreadable among them
  MaxEdits        \* bound on the edits of config.yaml

VARIABLES
  environment,    \* of the shells and the servers they start
  configFile,     \* what is in config.yaml
  edits,          \* number of edits so far
  settings,       \* settings[p]: cfg of server p, None before it is loaded
  asked,          \* history: asked[c]: the command shell c ran last
  since           \* history: since[c]: what was in config.yaml since then

deployment == <<environment, configFile, edits, settings, asked, since>>
deploymentVars == <<vars, deployment>>

None == <<>>

DeploymentInit ==
  /\ Init
  /\ environment \in Environments
  /\ configFile \in ConfigFiles
  /\ edits = 0
  /\ settings = [p \in Pids |-> None]
  /\ asked = [c \in Calls |-> "none"]
  /\ since = [c \in Calls |-> {configFile}]

Edit(f) ==
  /\ edits < MaxEdits
  /\ configFile' = f
  /\ edits' = edits + 1
  /\ since' = [c \in Calls |-> since[c] \cup {f}]
  /\ UNCHANGED <<vars, environment, settings, asked>>

\* A command of the script is given.
Command(c, what) ==
  /\ IF what = "start" THEN Start(c) ELSE Stop(c, what = "restart")
  /\ asked' = [asked EXCEPT ![c] = what]
  /\ since' = [since EXCEPT ![c] = {configFile}]
  /\ UNCHANGED <<environment, configFile, edits, settings>>

Script(c) == ScriptStep(c) /\ UNCHANGED deployment

\* loadConfig; a server that cannot load its configuration exits.
LoadConfig(p) ==
  /\ server[p] = "starting"
  /\ settings[p] = None
  /\ Loads(environment, configFile)
  /\ settings' = [settings EXCEPT ![p] = Settings(environment, configFile)]
  /\ UNCHANGED <<vars, environment, configFile, edits, asked, since>>

\* ListenAndServe, which fails on a port that is taken.
ListenAndServe(p) ==
  /\ settings[p] # None
  /\ \A q \in Pids : server[q] = "listening" => settings[q].Port # settings[p].Port
  /\ Listen(p)
  /\ UNCHANGED deployment

Exits(p) == Die(p) /\ UNCHANGED deployment

DeploymentNext ==
  \/ \E f \in ConfigFiles : Edit(f)
  \/ \E c \in Calls :
       \/ \E what \in {"start", "stop", "restart"} : Command(c, what)
       \/ Script(c)
  \/ \E p \in Pids : LoadConfig(p) \/ ListenAndServe(p) \/ Exits(p)

DeploymentSpec ==
  /\ DeploymentInit
  /\ [][DeploymentNext]_deploymentVars
  /\ Fairness

-----------------------------------------------------------------------------
(* Properties.                                                             *)

\* A restart that succeeds has put the configuration in force: it never finds a
\* server that is still there, and whoever listens afterwards read config.yaml
\* after the restart was asked for.
RestartApplies ==
  \A c \in Calls :
    asked[c] = "restart" =>
      /\ outcome[c] # "running"
      /\ outcome[c] = "started" =>
           \A p \in Pids : server[p] = "listening" =>
             settings[p] \in {Settings(environment, f) :
                                f \in since[c] \ {Unreadable}}

\* Both servers read the same number in the text, or neither reads one.
SameNumber(t) ==
  IF t \in DOMAIN IntOf
  THEN t \in DOMAIN PyIntOf /\ PyIntOf[t] = IntOf[t]
  ELSE t \notin DOMAIN PyIntOf

\* Texts both servers read alike: booleans they both know, limits that both or
\* neither take for numbers, and a cache directory that is not set to nothing.
PlainEnvironment(env) ==
  /\ Getenv(env, "S3_FORCE_PATH_STYLE") \in
       {NoText} \cup (TrueTexts \cap PyTrueTexts) \cup (FalseTexts \ PyTrueTexts)
  /\ \A n \in {"FIELD_DEFAULT_LIMIT", "FIELD_MAX_LIMIT"} : SameNumber(Getenv(env, n))
  /\ "NEXUS_CACHE_DIR" \in DOMAIN env => env["NEXUS_CACHE_DIR"] # NoText

\* servers/README.md, "Both servers read the same environment variables": without
\* a config file they come to the same settings, or both refuse to start.
ServersAgree ==
  PlainEnvironment(environment) =>
    LET py == PySettings(environment)
        go == Settings(environment, <<>>)
    IN /\ \A s \in DOMAIN py : go[s] = py[s]
       /\ PyLoads(environment) <=> Loads(environment, <<>>)
=============================================================================
