--------------------------- MODULE ServiceControl ---------------------------
(***************************************************************************)
(* servers/go/manage_gonexus: the script that starts, stops and restarts   *)
(* the Go server, with its PID file, beside the server processes it is     *)
(* about.  A server may die at any time, and it exits on SIGTERM if it is  *)
(* not stuck.  A process identifier is never given out twice.  Deployment  *)
(* adds the configuration of the servers and their ports.                  *)
(***************************************************************************)
EXTENDS Naturals

CONSTANTS
  Calls,        \* shells in which the script may run at the same time
  Pids,         \* process identifiers; their number bounds the starts
  NoPid,        \* no process; also the PID file that is missing or empty
  MaxWait       \* rounds of the wait for a graceful exit (10 in the script)

ASSUME ServiceControlAssumption ==
  /\ NoPid \notin Pids
  /\ MaxWait \in Nat \ {0}

VARIABLES
  server,       \* server[p]: "unborn", "starting", "listening", "dead"
  pidFile,      \* $PID_FILE
  step,         \* step[c]: what shell c does next
  again,        \* again[c]: does a start follow, as in restart?
  pid,          \* pid[c]: the local variable pid
  timeout,      \* timeout[c]: rounds left of the wait
  outcome       \* outcome[c]: what the last command of shell c came to

shells == <<step, again, pid, timeout, outcome>>
vars == <<server, pidFile, shells>>

Steps == {"idle", "checkStart", "spawn", "record", "settle",
          "checkStop", "read", "term", "poll", "kill"}

Alive == {p \in Pids : server[p] \in {"starting", "listening"}}

Init ==
  /\ server = [p \in Pids |-> "unborn"]
  /\ pidFile = NoPid
  /\ step = [c \in Calls |-> "idle"]
  /\ again = [c \in Calls |-> FALSE]
  /\ pid = [c \in Calls |-> NoPid]
  /\ timeout = [c \in Calls |-> 0]
  /\ outcome = [c \in Calls |-> "none"]

Goto(c, s) == step' = [step EXCEPT ![c] = s]

\* The script exits, and its variables are gone.
Exit(c, r) ==
  /\ Goto(c, "idle")
  /\ outcome' = [outcome EXCEPT ![c] = r]
  /\ pid' = [pid EXCEPT ![c] = NoPid]

MutRunning == pidFile \in {p \in Pids : server[p] = "listening"}

\* is_running: get_pid, and kill -0 of what it printed.
Running == pidFile \in Alive

-----------------------------------------------------------------------------
(* start_service.                                                          *)

Start(c) ==
  /\ step[c] = "idle"
  /\ Goto(c, "checkStart")
  /\ outcome' = [outcome EXCEPT ![c] = "none"]
  /\ UNCHANGED <<server, pidFile, again, pid, timeout>>

AlreadyRunning(c) ==
  /\ step[c] = "checkStart"
  /\ Running
  /\ Exit(c, "running")
  /\ UNCHANGED <<server, pidFile, again, timeout>>

NotRunning(c) ==
  /\ step[c] = "checkStart"
  /\ ~Running
  /\ Goto(c, "spawn")
  /\ UNCHANGED <<server, pidFile, again, pid, timeout, outcome>>

MutSpawn(c) ==
  /\ step[c] = "spawn"
  /\ \E p \in Pids :
       /\ server[p] = "unborn"
       /\ server' = [server EXCEPT ![p] = "starting"]
  /\ Goto(c, "record")
  /\ UNCHANGED <<pidFile, again, pid, timeout, outcome>>

\* nohup ... &
Spawn(c) ==
  /\ step[c] = "spawn"
  /\ \E p \in Pids :
       /\ server[p] = "unborn"
       /\ server' = [server EXCEPT ![p] = "starting"]
       /\ pid' = [pid EXCEPT ![c] = p]
  /\ Goto(c, "record")
  /\ UNCHANGED <<pidFile, again, timeout, outcome>>

Record(c) ==
  /\ step[c] = "record"
  /\ pidFile' = pid[c]
  /\ Goto(c, "settle")
  /\ UNCHANGED <<server, again, pid, timeout, outcome>>

\* After a second: the server runs, or it failed and its PID file goes.
Settled(c) ==
  /\ step[c] = "settle"
  /\ pid[c] \in Alive
  /\ Exit(c, "started")
  /\ UNCHANGED <<server, pidFile, again, timeout>>

Failed(c) ==
  /\ step[c] = "settle"
  /\ pid[c] \notin Alive
  /\ pidFile' = NoPid
  /\ Exit(c, "failed")
  /\ UNCHANGED <<server, again, timeout>>

-----------------------------------------------------------------------------
(* stop_service.                                                           *)

Stop(c, restart) ==
  /\ step[c] = "idle"
  /\ Goto(c, "checkStop")
  /\ again' = [again EXCEPT ![c] = restart]
  /\ outcome' = [outcome EXCEPT ![c] = "none"]
  /\ UNCHANGED <<server, pidFile, pid, timeout>>

\* rm -f "$PID_FILE" and return, to the start that follows in a restart.
Stopped(c) ==
  /\ pidFile' = NoPid
  /\ again' = [again EXCEPT ![c] = FALSE]
  /\ IF again[c]
     THEN Goto(c, "checkStart") /\ UNCHANGED <<pid, outcome>>
     ELSE Exit(c, "stopped")

NothingToStop(c) ==
  /\ step[c] = "checkStop"
  /\ ~Running
  /\ Stopped(c)
  /\ UNCHANGED <<server, timeout>>

SomethingToStop(c) ==
  /\ step[c] = "checkStop"
  /\ Running
  /\ Goto(c, "read")
  /\ UNCHANGED <<server, pidFile, again, pid, timeout, outcome>>

\* get_pid once more, after is_running.
ReadPid(c) ==
  /\ step[c] = "read"
  /\ pid' = [pid EXCEPT ![c] = pidFile]
  /\ Goto(c, "term")
  /\ UNCHANGED <<server, pidFile, again, timeout, outcome>>

\* kill: SIGTERM only makes a server do what it may do at any time, Die.
Terminate(c) ==
  /\ step[c] = "term"
  /\ timeout' = [timeout EXCEPT ![c] = MaxWait]
  /\ Goto(c, "poll")
  /\ UNCHANGED <<server, pidFile, again, pid, outcome>>

MutSeenDead(c) ==
  /\ step[c] = "poll"
  /\ Stopped(c)
  /\ UNCHANGED <<server, timeout>>

SeenDead(c) ==
  /\ step[c] = "poll"
  /\ timeout[c] > 0
  /\ pid[c] \notin Alive
  /\ Stopped(c)
  /\ UNCHANGED <<server, timeout>>

MutWait(c) ==
  /\ step[c] = "poll"
  /\ timeout[c] > 0
  /\ pid[c] \in Alive
  /\ UNCHANGED vars

Wait(c) ==
  /\ step[c] = "poll"
  /\ timeout[c] > 0
  /\ pid[c] \in Alive
  /\ timeout' = [timeout EXCEPT ![c] = @ - 1]
  /\ UNCHANGED <<server, pidFile, step, again, pid, outcome>>

GiveUpWaiting(c) ==
  /\ step[c] = "poll"
  /\ timeout[c] = 0
  /\ Goto(c, "kill")
  /\ UNCHANGED <<server, pidFile, again, pid, timeout, outcome>>

MutKill(c) ==
  /\ step[c] = "kill"
  /\ Stopped(c)
  /\ UNCHANGED <<server, timeout>>

\* kill -9
Kill(c) ==
  /\ step[c] = "kill"
  /\ server' = [p \in Pids |-> IF p = pid[c] THEN "dead" ELSE server[p]]
  /\ Stopped(c)
  /\ UNCHANGED <<timeout>>

ScriptStep(c) ==
  \/ AlreadyRunning(c) \/ NotRunning(c) \/ Spawn(c) \/ Record(c)
  \/ Settled(c) \/ Failed(c) \/ NothingToStop(c) \/ SomethingToStop(c)
  \/ ReadPid(c) \/ Terminate(c) \/ SeenDead(c) \/ Wait(c)
  \/ GiveUpWaiting(c) \/ Kill(c)

-----------------------------------------------------------------------------
(* The server processes.                                                   *)

Listen(p) ==
  /\ server[p] = "starting"
  /\ server' = [server EXCEPT ![p] = "listening"]
  /\ UNCHANGED <<pidFile, shells>>

\* main returns after SIGTERM, log.Fatalf ends it (a bad configuration, or a
\* port that is taken), or it crashes.
Die(p) ==
  /\ p \in Alive
  /\ server' = [server EXCEPT ![p] = "dead"]
  /\ UNCHANGED <<pidFile, shells>>

Next ==
  \/ \E c \in Calls :
       \/ Start(c)
       \/ \E restart \in BOOLEAN : Stop(c, restart)
       \/ ScriptStep(c)
  \/ \E p \in Pids : Listen(p) \/ Die(p)

Spec == Init /\ [][Next]_vars

\* A shell runs the script; nothing is assumed of the server, which need not
\* even exit on SIGTERM.
Fairness == \A c \in Calls : WF_vars(ScriptStep(c))

FairSpec == Spec /\ Fairness

-----------------------------------------------------------------------------
(* Properties, for a script that is run in one shell at a time.            *)

\* Types; a shell between the start of a server and its second of grace knows
\* which server that is.
TypeOK ==
  /\ server \in [Pids -> {"unborn", "starting", "listening", "dead"}]
  /\ pidFile \in Pids \cup {NoPid}
  /\ step \in [Calls -> Steps]
  /\ again \in [Calls -> BOOLEAN]
  /\ pid \in [Calls -> Pids \cup {NoPid}]
  /\ timeout \in [Calls -> 0 .. MaxWait]
  /\ outcome \in [Calls -> {"none", "running", "started", "failed", "stopped"}]
  /\ \A c \in Calls : step[c] \in {"record", "settle"} => pid[c] \in Pids

\* No server runs that the PID file does not lead to, so none is left that no
\* stop would find, wherever servers die in between.
NoOrphan ==
  (\A c \in Calls : step[c] # "record") => Alive \subseteq {pidFile}

\* When stop is done no server runs, one that ignores SIGTERM included.
StopStops ==
  \A c \in Calls : outcome[c] = "stopped" => Alive = {}

\* No command of the script waits for ever, whatever the server does.  (A start
\* that finds no process identifier left has reached the bound of the model.)
CommandsEnd ==
  \A c \in Calls : step[c] # "idle" ~> step[c] \in {"idle", "spawn"}
=============================================================================
