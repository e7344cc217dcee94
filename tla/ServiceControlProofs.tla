------------------------ MODULE ServiceControlProofs ------------------------
(***************************************************************************)
(* Theorems about ServiceControl and Deployment, for any servers,          *)
(* environments and config files: of any number of shells what is true of  *)
(* each command, and of one shell at a time what the commands achieve.     *)
(***************************************************************************)
EXTENDS Deployment, TLAPS

OneShell == \E c \in Calls : Calls = {c}

-----------------------------------------------------------------------------
(* Any shells.                                                             *)

LEMMA TypeInit == Init => TypeOK
BY ServiceControlAssumption DEF Init, TypeOK, Steps

LEMMA TypeNext == TypeOK /\ [Next]_vars => TypeOK'
<1> SUFFICES ASSUME TypeOK, [Next]_vars
             PROVE  TypeOK'
    OBVIOUS
<1> USE ServiceControlAssumption
        DEF TypeOK, Steps, Goto, Exit, Stopped, Running, Alive, shells
<1>1. ASSUME NEW c \in Calls, ScriptStep(c)
      PROVE  TypeOK'
  <2>1. CASE AlreadyRunning(c)  BY <2>1 DEF AlreadyRunning
  <2>2. CASE NotRunning(c)      BY <2>2 DEF NotRunning
  <2>3. CASE Spawn(c)           BY <2>3 DEF Spawn
  <2>4. CASE Record(c)          BY <2>4 DEF Record
  <2>5. CASE Settled(c)         BY <2>5 DEF Settled
  <2>6. CASE Failed(c)          BY <2>6 DEF Failed
  <2>7. CASE NothingToStop(c)   BY <2>7 DEF NothingToStop
  <2>8. CASE SomethingToStop(c) BY <2>8 DEF SomethingToStop
  <2>9. CASE ReadPid(c)         BY <2>9 DEF ReadPid
  <2>10. CASE Terminate(c)      BY <2>10 DEF Terminate
  <2>11. CASE SeenDead(c)       BY <2>11 DEF SeenDead
  <2>12. CASE Wait(c)           BY <2>12 DEF Wait
  <2>13. CASE GiveUpWaiting(c)  BY <2>13 DEF GiveUpWaiting
  <2>14. CASE Kill(c)           BY <2>14 DEF Kill
  <2>15. QED
         BY <1>1, <2>1, <2>2, <2>3, <2>4, <2>5, <2>6, <2>7, <2>8, <2>9, <2>10,
            <2>11, <2>12, <2>13, <2>14 DEF ScriptStep
<1>2. ASSUME NEW c \in Calls, Start(c)
      PROVE  TypeOK'
      BY <1>2 DEF Start
<1>3. ASSUME NEW c \in Calls, NEW restart \in BOOLEAN, Stop(c, restart)
      PROVE  TypeOK'
      BY <1>3 DEF Stop
<1>4. ASSUME NEW p \in Pids, Listen(p) \/ Die(p)
      PROVE  TypeOK'
      BY <1>4 DEF Listen, Die
<1>5. CASE UNCHANGED vars
      BY <1>5 DEF vars
<1>6. QED
      BY <1>1, <1>2, <1>3, <1>4, <1>5 DEF Next

\* Types, of the script with its PID file, however many shells run it at once.
THEOREM TypeCorrect == Spec => []TypeOK
BY TypeInit, TypeNext, PTL DEF Spec

-----------------------------------------------------------------------------
(* Any shells: what CommandsEnd rests on.                                  *)

\* How many steps a command takes at most before it ends.
StepsLeft(c) ==
  CASE step[c] = "idle" -> 0
    [] step[c] = "settle" -> 1
    [] step[c] = "record" -> 2
    [] step[c] = "spawn" -> 3
    [] step[c] = "checkStart" -> 4
    [] step[c] = "kill" -> 5
    [] step[c] = "poll" -> 6 + timeout[c]
    [] step[c] = "term" -> 7 + MaxWait
    [] step[c] = "read" -> 8 + MaxWait
    [] step[c] = "checkStop" -> 9 + MaxWait

\* No step takes a command back, and each of its own takes it on.
CommandsGoOn ==
  [][\A c \in Calls :
       step[c] # "idle" =>
         /\ StepsLeft(c)' <= StepsLeft(c)
         /\ ScriptStep(c) => StepsLeft(c)' < StepsLeft(c)]_vars

LEMMA StepsGoOn ==
  ASSUME TypeOK, [Next]_vars, NEW c \in Calls, step[c] # "idle"
  PROVE  /\ StepsLeft(c)' <= StepsLeft(c)
         /\ ScriptStep(c) => StepsLeft(c)' < StepsLeft(c)
<1>1. /\ step \in [Calls -> Steps] /\ step' \in [Calls -> Steps]
      /\ timeout \in [Calls -> 0 .. MaxWait] /\ timeout' \in [Calls -> 0 .. MaxWait]
      /\ MaxWait \in Nat \ {0}
      BY TypeNext, ServiceControlAssumption DEF TypeOK
<1>2. StepsLeft(c) \in Nat /\ StepsLeft(c)' \in Nat
      BY <1>1 DEF StepsLeft, Steps
<1>3. ASSUME ScriptStep(c)
      PROVE  StepsLeft(c)' < StepsLeft(c)
  <2> USE <1>1 DEF StepsLeft, Steps, Goto, Exit
  <2>1. CASE AlreadyRunning(c) \/ NotRunning(c) \/ Spawn(c) \/ Record(c)
             \/ Settled(c) \/ Failed(c)
        BY <2>1 DEF AlreadyRunning, NotRunning, Spawn, Record, Settled, Failed
  <2>2. CASE NothingToStop(c) \/ SeenDead(c) \/ Kill(c)
    <3>1. step'[c] \in {"idle", "checkStart"}
          BY <2>2 DEF NothingToStop, SeenDead, Kill, Stopped
    <3>2. step[c] \in {"checkStop", "poll", "kill"}
          BY <2>2 DEF NothingToStop, SeenDead, Kill
    <3>3. QED
          BY <3>1, <3>2
  <2>3. CASE SomethingToStop(c) \/ ReadPid(c) \/ Terminate(c) \/ Wait(c)
             \/ GiveUpWaiting(c)
        BY <2>3 DEF SomethingToStop, ReadPid, Terminate, Wait, GiveUpWaiting
  <2>4. QED
        BY <1>3, <2>1, <2>2, <2>3 DEF ScriptStep
<1>4. ASSUME step'[c] = step[c], timeout'[c] = timeout[c]
      PROVE  StepsLeft(c)' <= StepsLeft(c)
      BY <1>1, <1>4 DEF StepsLeft, Steps
<1>5. ASSUME NEW d \in Calls,
             Start(d) \/ \E restart \in BOOLEAN : Stop(d, restart)
      PROVE  step'[c] = step[c] /\ timeout'[c] = timeout[c]
      BY <1>1, <1>5 DEF Start, Stop, Goto
<1>6. ASSUME NEW d \in Calls \ {c}, ScriptStep(d)
      PROVE  step'[c] = step[c] /\ timeout'[c] = timeout[c]
      BY <1>1, <1>6
      DEF ScriptStep, AlreadyRunning, NotRunning, Spawn, Record, Settled, Failed,
          NothingToStop, SomethingToStop, ReadPid, Terminate, SeenDead, Wait,
          GiveUpWaiting, Kill, Goto, Exit, Stopped
<1>7. ScriptStep(c) \/ (step'[c] = step[c] /\ timeout'[c] = timeout[c])
      BY <1>5, <1>6 DEF Next, Listen, Die, shells, vars
<1>8. QED
      BY <1>2, <1>3, <1>4, <1>7

\* A command has no loop but the wait for a graceful exit, which is bounded: in
\* MaxWait + 9 steps at most a stop or a restart is done, whatever servers and
\* other shells do.
THEOREM CommandsAlwaysGoOn == Spec => CommandsGoOn
<1>1. TypeOK /\ [Next]_vars
        => [\A c \in Calls :
              step[c] # "idle" =>
                /\ StepsLeft(c)' <= StepsLeft(c)
                /\ ScriptStep(c) => StepsLeft(c)' < StepsLeft(c)]_vars
      BY StepsGoOn
<1>2. QED
      BY <1>1, TypeCorrect, PTL DEF Spec, CommandsGoOn

-----------------------------------------------------------------------------
(* One shell: the inductive invariant.                                     *)

\* Where the servers that are alive may be: the one of the PID file, but for
\* the one just spawned, and none before that.
Known(c) ==
  /\ step[c] # "record" => Alive \subseteq {pidFile}
  /\ step[c] = "record" => Alive \subseteq {pid[c]}
  /\ step[c] = "spawn" => Alive = {}

\* The shell's own copy of the PID, once it has one, is that of the file.
CopyIsFile(c) ==
  step[c] \in {"settle", "term", "poll", "kill"} => pid[c] = pidFile

\* Nothing was started since a stop, or the outcome would be gone.
StillStopped(c) ==
  outcome[c] = "stopped" => step[c] = "idle" /\ Alive = {}

IInv ==
  /\ TypeOK
  /\ \A c \in Calls : Known(c) /\ CopyIsFile(c) /\ StillStopped(c)

-----------------------------------------------------------------------------
(* Every step of the script and of the servers keeps it.                   *)

LEMMA InvInit == Init => IInv
BY ServiceControlAssumption
   DEF Init, IInv, TypeOK, Known, CopyIsFile, StillStopped, Alive, Steps

LEMMA InvScript ==
  ASSUME NEW c, Calls = {c}, IInv, ScriptStep(c)
  PROVE  IInv'
<1> USE ServiceControlAssumption
        DEF IInv, TypeOK, Known, CopyIsFile, StillStopped, Alive, Steps, Goto,
            Exit, Stopped, Running, shells
<1>1. CASE AlreadyRunning(c)  BY <1>1 DEF AlreadyRunning
<1>2. CASE NotRunning(c)      BY <1>2 DEF NotRunning
<1>3. CASE Spawn(c)           BY <1>3 DEF Spawn
<1>4. CASE Record(c)          BY <1>4 DEF Record
<1>5. CASE Settled(c)         BY <1>5 DEF Settled
<1>6. CASE Failed(c)          BY <1>6 DEF Failed
<1>7. CASE NothingToStop(c)   BY <1>7 DEF NothingToStop
<1>8. CASE SomethingToStop(c) BY <1>8 DEF SomethingToStop
<1>9. CASE ReadPid(c)         BY <1>9 DEF ReadPid
<1>10. CASE Terminate(c)      BY <1>10 DEF Terminate
<1>11. CASE SeenDead(c)       BY <1>11 DEF SeenDead
<1>12. CASE Wait(c)           BY <1>12 DEF Wait
<1>13. CASE GiveUpWaiting(c)  BY <1>13 DEF GiveUpWaiting
<1>14. CASE Kill(c)           BY <1>14 DEF Kill
<1>15. QED
       BY <1>1, <1>2, <1>3, <1>4, <1>5, <1>6, <1>7, <1>8, <1>9, <1>10, <1>11,
          <1>12, <1>13, <1>14 DEF ScriptStep

LEMMA InvNext ==
  ASSUME OneShell, IInv, [Next]_vars
  PROVE  IInv'
<1>1. PICK c \in Calls : Calls = {c}
      BY DEF OneShell
<1> USE ServiceControlAssumption
        DEF IInv, TypeOK, Known, CopyIsFile, StillStopped, Alive, Steps, Goto, shells
<1>2. CASE Start(c)           BY <1>1, <1>2 DEF Start
<1>3. ASSUME NEW restart \in BOOLEAN, Stop(c, restart)
      PROVE  IInv'
      BY <1>1, <1>3 DEF Stop
<1>4. CASE ScriptStep(c)      BY <1>1, <1>4, InvScript
<1>5. ASSUME NEW p \in Pids, Listen(p) \/ Die(p)
      PROVE  IInv'
      BY <1>1, <1>5 DEF Listen, Die
<1>6. CASE UNCHANGED vars     BY <1>1, <1>6 DEF vars
<1>7. QED
      BY <1>1, <1>2, <1>3, <1>4, <1>5, <1>6 DEF Next

LEMMA Invariant == OneShell /\ Spec => []IInv
<1>1. Init => IInv
      BY InvInit
<1>2. OneShell /\ IInv /\ [Next]_vars => IInv'
      BY InvNext
<1>3. SUFFICES ASSUME OneShell
               PROVE  Spec => []IInv
      OBVIOUS
<1>4. IInv /\ [Next]_vars => IInv'
      BY <1>2, <1>3
<1>5. QED
      BY <1>1, <1>4, PTL DEF Spec

\* No server runs that the PID file does not lead to.
THEOREM NoOrphanEver == OneShell /\ Spec => []NoOrphan
<1>1. OneShell /\ IInv => NoOrphan
      BY DEF OneShell, IInv, Known, NoOrphan
<1>2. SUFFICES ASSUME OneShell
               PROVE  Spec => []NoOrphan
      OBVIOUS
<1>3. IInv => NoOrphan
      BY <1>1, <1>2
<1>4. QED
      BY <1>2, <1>3, Invariant, PTL

\* When stop is done no server runs.
THEOREM StopAlwaysStops == OneShell /\ Spec => []StopStops
<1>1. IInv => StopStops
      BY DEF IInv, StillStopped, StopStops
<1>2. QED
      BY <1>1, Invariant, PTL

-----------------------------------------------------------------------------
(* Deployment: what it adds does not concern the script.                   *)

LEMMA StepsAreOfService == [DeploymentNext]_deploymentVars => [Next]_vars
<1> SUFFICES ASSUME [DeploymentNext]_deploymentVars
             PROVE  [Next]_vars
    OBVIOUS
<1>1. ASSUME NEW f \in ConfigFiles, Edit(f)
      PROVE  UNCHANGED vars
      BY <1>1 DEF Edit, vars, shells
<1>2. ASSUME NEW c \in Calls, NEW what \in {"start", "stop", "restart"}, Command(c, what)
      PROVE  Next
      BY <1>2 DEF Command, Next
<1>3. ASSUME NEW c \in Calls, Script(c)
      PROVE  Next
      BY <1>3 DEF Script, Next
<1>4. ASSUME NEW p \in Pids, LoadConfig(p)
      PROVE  UNCHANGED vars
      BY <1>4 DEF LoadConfig, vars, shells
<1>5. ASSUME NEW p \in Pids, ListenAndServe(p) \/ Exits(p)
      PROVE  Next
      BY <1>5 DEF ListenAndServe, Exits, Next
<1>6. CASE UNCHANGED deploymentVars
      BY <1>6 DEF deploymentVars
<1>7. QED
      BY <1>1, <1>2, <1>3, <1>4, <1>5, <1>6 DEF DeploymentNext

\* The deployed script is the script: all of the above holds of it.
THEOREM DeploymentRunsService == DeploymentSpec => Spec
<1>1. DeploymentInit => Init
      BY DEF DeploymentInit
<1>2. QED
      BY <1>1, StepsAreOfService, PTL DEF DeploymentSpec, Spec

-----------------------------------------------------------------------------
(* A restart puts the configuration in force.                              *)

\* What config.yaml, as it was since the command, can make of the settings.
Recent(c) == {Settings(environment, f) : f \in since[c] \ {Unreadable}}

\* A server has loaded its settings before it listens, and after it was born.
LoadedInTime ==
  \A p \in Pids :
    /\ server[p] = "unborn" => settings[p] = None
    /\ server[p] = "listening" => settings[p] # None

\* A restart on its way knows that a start follows, and then that the PID file
\* is gone, so that nothing can be taken for a running server.
RestartGoesOn(c) ==
  asked[c] = "restart" =>
    /\ step[c] \in {"checkStop", "read", "term", "poll", "kill"} => again[c]
    /\ step[c] = "checkStart" => pidFile = NoPid
    /\ outcome[c] # "running"

\* From the moment it has stopped the old server, every server that is alive
\* has settings from after the restart was asked for, or none yet.
OnlyRecent(c) ==
  asked[c] = "restart" /\ (step[c] \in {"record", "settle"} \/ outcome[c] = "started") =>
    \A p \in Alive : settings[p] \in {None} \cup Recent(c)

DInv ==
  /\ settings \in [Pids -> {None} \cup {Settings(environment, f) : f \in ConfigFiles}]
  /\ asked \in [Calls -> {"none", "start", "stop", "restart"}]
  /\ DOMAIN since = Calls
  /\ configFile \in ConfigFiles
  /\ LoadedInTime
  /\ \A c \in Calls :
       /\ configFile \in since[c]
       /\ outcome[c] = "started" => step[c] = "idle"
       /\ RestartGoesOn(c)
       /\ OnlyRecent(c)

LEMMA DInvInit == DeploymentInit => DInv
BY DEF DeploymentInit, Init, DInv, LoadedInTime, RestartGoesOn, OnlyRecent, Alive

LEMMA DInvScript ==
  ASSUME NEW c, Calls = {c}, IInv, DInv, Script(c)
  PROVE  DInv'
<1> USE ServiceControlAssumption
        DEF DInv, LoadedInTime, RestartGoesOn, OnlyRecent, Recent, Alive, IInv,
            TypeOK, Known, CopyIsFile, StillStopped, Goto, Exit, Stopped, Running,
            shells, deployment, Script
<1>1. CASE AlreadyRunning(c)  BY <1>1 DEF AlreadyRunning
<1>2. CASE NotRunning(c)      BY <1>2 DEF NotRunning
<1>3. CASE Spawn(c)           BY <1>3 DEF Spawn
<1>4. CASE Record(c)          BY <1>4 DEF Record
<1>5. CASE Settled(c)         BY <1>5 DEF Settled
<1>6. CASE Failed(c)          BY <1>6 DEF Failed
<1>7. CASE NothingToStop(c)   BY <1>7 DEF NothingToStop
<1>8. CASE SomethingToStop(c) BY <1>8 DEF SomethingToStop
<1>9. CASE ReadPid(c)         BY <1>9 DEF ReadPid
<1>10. CASE Terminate(c)      BY <1>10 DEF Terminate
<1>11. CASE SeenDead(c)       BY <1>11 DEF SeenDead
<1>12. CASE Wait(c)           BY <1>12 DEF Wait
<1>13. CASE GiveUpWaiting(c)  BY <1>13 DEF GiveUpWaiting
<1>14. CASE Kill(c)           BY <1>14 DEF Kill
<1>15. QED
       BY <1>1, <1>2, <1>3, <1>4, <1>5, <1>6, <1>7, <1>8, <1>9, <1>10, <1>11,
          <1>12, <1>13, <1>14 DEF ScriptStep

LEMMA DInvNext ==
  ASSUME OneShell, IInv, DInv, [DeploymentNext]_deploymentVars
  PROVE  DInv'
<1>1. PICK c \in Calls : Calls = {c}
      BY DEF OneShell
<1> USE DEF DInv, LoadedInTime, RestartGoesOn, OnlyRecent, Recent, Alive
<1>2. ASSUME NEW f \in ConfigFiles, Edit(f)
      PROVE  DInv'
      BY <1>2 DEF Edit, vars, shells
<1>3. ASSUME NEW what \in {"start", "stop", "restart"}, Command(c, what)
      PROVE  DInv'
  <2>1. /\ step' = [step EXCEPT ![c] = IF what = "start" THEN "checkStart" ELSE "checkStop"]
        /\ outcome' = [outcome EXCEPT ![c] = "none"]
        /\ what # "start" => again' = [again EXCEPT ![c] = (what = "restart")]
        /\ UNCHANGED <<server, pidFile>>
        BY <1>3 DEF Command, Start, Stop, Goto
  <2>2. /\ asked' = [asked EXCEPT ![c] = what]
        /\ since' = [since EXCEPT ![c] = {configFile}]
        /\ UNCHANGED <<environment, configFile, settings>>
        BY <1>3 DEF Command
  <2>3. /\ step'[c] = IF what = "start" THEN "checkStart" ELSE "checkStop"
        /\ outcome'[c] = "none"
        /\ what = "restart" => again'[c]
        /\ asked'[c] = what
        /\ configFile' \in since'[c]
        BY <1>1, <2>1, <2>2 DEF IInv, TypeOK
  <2>4. QED
        BY <1>1, <2>1, <2>2, <2>3
<1>4. CASE Script(c)
      BY <1>1, <1>4, DInvScript
<1>5. ASSUME NEW p \in Pids, LoadConfig(p)
      PROVE  DInv'
  <2>1. /\ server[p] = "starting"
        /\ settings' = [settings EXCEPT ![p] = Settings(environment, configFile)]
        /\ UNCHANGED <<server, pidFile, step, again, outcome, asked, since, environment,
                       configFile>>
        BY <1>5 DEF LoadConfig, vars, shells
  <2>2. Settings(environment, configFile) \in Recent(c)
        BY <1>1, <1>5 DEF LoadConfig, Loads
  <2>3. \A q \in Pids : settings'[q] \in {settings[q], Settings(environment, configFile)}
        BY <2>1
  <2>4. LoadedInTime'
        BY <2>1
  <2>5. OnlyRecent(c)'
        BY <1>1, <2>1, <2>2, <2>3
  <2>6. QED
        BY <1>1, <2>1, <2>4, <2>5
<1>6. ASSUME NEW p \in Pids, ListenAndServe(p) \/ Exits(p)
      PROVE  DInv'
      BY <1>1, <1>6 DEF ListenAndServe, Exits, Listen, Die, deployment, shells, IInv, TypeOK
<1>7. CASE UNCHANGED deploymentVars
      BY <1>7 DEF deploymentVars, deployment, vars, shells
<1>8. QED
      BY <1>1, <1>2, <1>3, <1>4, <1>5, <1>6, <1>7 DEF DeploymentNext

\* A restart that succeeds has put the configuration in force, whichever servers
\* die, ignore SIGTERM or fail to start, and whenever config.yaml is edited.
THEOREM RestartAlwaysApplies == OneShell /\ DeploymentSpec => []RestartApplies
<1>1. DInv => RestartApplies
      BY DEF DInv, LoadedInTime, RestartGoesOn, OnlyRecent, Recent, Alive, RestartApplies
<1>2. OneShell /\ IInv /\ DInv /\ [DeploymentNext]_deploymentVars => DInv'
      BY DInvNext
<1>3. SUFFICES ASSUME OneShell
               PROVE  DeploymentSpec => []RestartApplies
      OBVIOUS
<1>4. IInv /\ DInv /\ [DeploymentNext]_deploymentVars => DInv'
      BY <1>2, <1>3
<1>5. DeploymentSpec => []IInv
      BY <1>3, DeploymentRunsService, Invariant, PTL
<1>6. QED
      BY <1>1, <1>4, <1>5, DInvInit, PTL DEF DeploymentSpec

-----------------------------------------------------------------------------
(* The two servers and their environment.                                  *)

\* The text of two that counts: the first if it is not empty.
LEMMA FirstOfTwo ==
  ASSUME NEW u, NEW v
  PROVE  FirstNonEmpty(<<u, v>>) = IF u # NoText THEN u ELSE v
<1> DEFINE vals == <<u, v>>
           set == {i \in DOMAIN vals : vals[i] # NoText}
           first == CHOOSE i \in set : \A j \in set : i <= j
<1>1. DOMAIN vals = {1, 2} /\ vals[1] = u /\ vals[2] = v
      OBVIOUS
<1>2. FirstNonEmpty(vals) = IF set = {} THEN NoText ELSE vals[first]
      BY DEF FirstNonEmpty
<1> HIDE DEF vals
<1>3. CASE u # NoText
  <2>1. 1 \in set /\ \A j \in set : 1 <= j
        BY <1>1, <1>3
  <2>2. \A i \in set : (\A j \in set : i <= j) => i = 1
        BY <1>1, <1>3
  <2>3. first = 1
        BY <2>1, <2>2
  <2> HIDE DEF first
  <2>4. QED BY <1>1, <1>2, <1>3, <2>1, <2>3 DEF vals
<1>4. CASE u = NoText /\ v # NoText
  <2>1. set = {2}
        BY <1>1, <1>4
  <2>2. first = 2
        BY <2>1
  <2> HIDE DEF first
  <2>3. QED BY <1>1, <1>2, <1>4, <2>1, <2>2 DEF vals
<1>5. CASE u = NoText /\ v = NoText
  <2>1. set = {}
        BY <1>1, <1>5
  <2>2. QED BY <1>2, <1>5, <2>1 DEF vals
<1>6. QED BY <1>3, <1>4, <1>5

\* Without a config file the Go server runs on its environment alone.
LEMMA NoFileNoChange ==
  ASSUME NEW env
  PROVE  Settings(env, <<>>) = FromEnvironment(env) /\ <<>> # Unreadable
<1> DEFINE cfg == FromEnvironment(env)
<1>1. cfg = [s \in DOMAIN cfg |-> cfg[s]]
      BY DEF FromEnvironment
<1> HIDE DEF cfg
<1>2. ApplyFileConfig(cfg, <<>>) = [s \in DOMAIN cfg |-> cfg[s]]
      BY DEF ApplyFileConfig
<1>3. DOMAIN <<>> = {} /\ DOMAIN Unreadable = {"file"}
      BY DEF Unreadable
<1>4. <<>> # Unreadable
      BY <1>3
<1>5. QED BY <1>1, <1>2, <1>4 DEF Settings, cfg

\* The two servers read a boolean that both know, and a number that both or
\* neither read, alike.
LEMMA TextsReadAlike ==
  ASSUME NEW env, PlainEnvironment(env)
  PROVE  /\ EnvBool(env, "S3_FORCE_PATH_STYLE", FALSE)
              = PyEnvBool(env, "S3_FORCE_PATH_STYLE", FALSE)
         /\ \A n \in {"FIELD_DEFAULT_LIMIT", "FIELD_MAX_LIMIT"} : \A default :
              EnvInt(env, n, default) = PyEnvInt(env, n, default)
         /\ FirstNonEmpty(<<Getenv(env, "NEXUS_CACHE_DIR"), TempDir>>)
              = IF "NEXUS_CACHE_DIR" \in DOMAIN env THEN env["NEXUS_CACHE_DIR"]
                ELSE TempDir
<1> USE ServerConfigAssumption
<1>1. EnvBool(env, "S3_FORCE_PATH_STYLE", FALSE)
        = PyEnvBool(env, "S3_FORCE_PATH_STYLE", FALSE)
  <2> DEFINE t == Getenv(env, "S3_FORCE_PATH_STYLE")
  <2>1. t \in {NoText} \cup (TrueTexts \cap PyTrueTexts) \cup (FalseTexts \ PyTrueTexts)
        BY DEF PlainEnvironment
  <2> HIDE DEF t
  <2>2. CASE t = NoText
    <3>1. t \notin TrueTexts /\ t \notin FalseTexts
          BY <2>2
    <3>2. QED BY <2>2, <3>1 DEF EnvBool, PyEnvBool, t
  <2>3. CASE t \in TrueTexts /\ t \in PyTrueTexts
    <3>1. t # NoText
          BY <2>3
    <3>2. QED BY <2>3, <3>1 DEF EnvBool, PyEnvBool, t
  <2>4. CASE t \in FalseTexts /\ t \notin PyTrueTexts
    <3>1. t # NoText /\ t \notin TrueTexts
          BY <2>4
    <3>2. QED BY <2>4, <3>1 DEF EnvBool, PyEnvBool, t
  <2>5. QED BY <2>1, <2>2, <2>3, <2>4
<1>2. \A n \in {"FIELD_DEFAULT_LIMIT", "FIELD_MAX_LIMIT"} : \A default :
        EnvInt(env, n, default) = PyEnvInt(env, n, default)
  <2>1. TAKE n \in {"FIELD_DEFAULT_LIMIT", "FIELD_MAX_LIMIT"}
  <2>2. TAKE default
  <2>3. SameNumber(Getenv(env, n))
        BY DEF PlainEnvironment
  <2>4. NoText \notin DOMAIN IntOf /\ NoText \notin DOMAIN PyIntOf
        OBVIOUS
  <2>5. QED BY <2>3, <2>4 DEF EnvInt, PyEnvInt, SameNumber
<1>3. FirstNonEmpty(<<Getenv(env, "NEXUS_CACHE_DIR"), TempDir>>)
        = IF "NEXUS_CACHE_DIR" \in DOMAIN env THEN env["NEXUS_CACHE_DIR"] ELSE TempDir
  <2> DEFINE t == Getenv(env, "NEXUS_CACHE_DIR")
  <2>1. t = IF "NEXUS_CACHE_DIR" \in DOMAIN env THEN env["NEXUS_CACHE_DIR"] ELSE NoText
        BY DEF Getenv
  <2>2. "NEXUS_CACHE_DIR" \in DOMAIN env => env["NEXUS_CACHE_DIR"] # NoText
        BY DEF PlainEnvironment
  <2> HIDE DEF t
  <2>3. FirstNonEmpty(<<t, TempDir>>) = IF t # NoText THEN t ELSE TempDir
        BY FirstOfTwo
  <2>4. QED BY <2>1, <2>2, <2>3 DEF t
<1>4. QED BY <1>1, <1>2, <1>3

\* In an environment of texts that both servers read alike they come to the same
\* settings without a config file, whatever else the environment says, and one
\* starts when the other does.
THEOREM ServersAlwaysAgree == DeploymentSpec => []ServersAgree
<1>1. ASSUME NEW env, PlainEnvironment(env)
      PROVE  LET py == PySettings(env)
                 go == Settings(env, <<>>)
             IN /\ \A s \in DOMAIN py : go[s] = py[s]
                /\ PyLoads(env) <=> Loads(env, <<>>)
  <2> DEFINE py == PySettings(env)
             go == Settings(env, <<>>)
  <2>1. go = FromEnvironment(env) /\ <<>> # Unreadable
        BY NoFileNoChange
  <2>2. DOMAIN py = {"Bucket", "Prefix", "Region", "Endpoint", "ForcePathStyle",
                     "CacheDir", "DefaultFieldLimit", "MaxFieldLimit"}
        BY DEF PySettings
  <2>3. /\ go.Bucket = py.Bucket /\ go.Prefix = py.Prefix
        /\ go.Region = py.Region /\ go.Endpoint = py.Endpoint
        BY <2>1 DEF FromEnvironment, PySettings
  <2>4. go.ForcePathStyle = py.ForcePathStyle
    <3> DEFINE e == EnvBool(env, "S3_FORCE_PATH_STYLE", FALSE)
               p == PyEnvBool(env, "S3_FORCE_PATH_STYLE", FALSE)
    <3>1. go.ForcePathStyle = e
      <4>1. FromEnvironment(env).ForcePathStyle = e
            BY SMTT(60) DEF FromEnvironment
      <4>2. QED BY <2>1, <4>1
    <3>2. py.ForcePathStyle = p
          BY DEF PySettings
    <3>3. e = p
          BY <1>1, TextsReadAlike
    <3> HIDE DEF py, go, e, p
    <3>4. QED BY <3>1, <3>2, <3>3
  <2>5. go.CacheDir = py.CacheDir
    <3>1. go.CacheDir = FirstNonEmpty(<<Getenv(env, "NEXUS_CACHE_DIR"), TempDir>>)
          BY <2>1 DEF FromEnvironment
    <3>2. py.CacheDir = IF "NEXUS_CACHE_DIR" \in DOMAIN env THEN env["NEXUS_CACHE_DIR"]
                        ELSE TempDir
          BY DEF PySettings
    <3> HIDE DEF py, go
    <3>3. QED BY <1>1, <3>1, <3>2, TextsReadAlike, Zenon
  <2>6. /\ go.DefaultFieldLimit = py.DefaultFieldLimit
        /\ go.MaxFieldLimit = py.MaxFieldLimit
    <3>1. /\ go.DefaultFieldLimit = EnvInt(env, "FIELD_DEFAULT_LIMIT", FieldLimit)
          /\ go.MaxFieldLimit = EnvInt(env, "FIELD_MAX_LIMIT", FieldCap)
          BY <2>1 DEF FromEnvironment
    <3>2. /\ py.DefaultFieldLimit = PyEnvInt(env, "FIELD_DEFAULT_LIMIT", FieldLimit)
          /\ py.MaxFieldLimit = PyEnvInt(env, "FIELD_MAX_LIMIT", FieldCap)
          BY DEF PySettings
    <3> HIDE DEF py, go
    <3>3. QED BY <1>1, <3>1, <3>2, TextsReadAlike, Zenon
  <2>7. PyLoads(env) <=> Loads(env, <<>>)
        BY <2>1, <2>3, <2>5 DEF PyLoads, Loads
  <2> HIDE DEF py, go
  <2>8. \A s \in DOMAIN py : go[s] = py[s]
        BY <2>2, <2>3, <2>4, <2>5, <2>6
  <2>9. QED BY <2>7, <2>8 DEF py, go
<1>2. ServersAgree
      BY <1>1 DEF ServersAgree
<1>3. QED BY <1>2, PTL
=============================================================================
