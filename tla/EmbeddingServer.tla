-------------------------- MODULE EmbeddingServer --------------------------
(***************************************************************************)
(* The embedding server and the processes that start, watch and kill it:   *)
(* the Web host and the CLI may run side by side, and kill_existing_llama  *)
(* kills by name, whoever started the process.                             *)
(*                                                                         *)
(* Code: core/embedding_server.py. The polls of ninety seconds are one     *)
(* step that finds the server ready or runs out.                           *)
(***************************************************************************)
EXTENDS Naturals

CONSTANTS
  Hosts,            \* processes of the application
  FailThreshold,    \* WATCHDOG_FAIL_THRESHOLD
  MaxRestarts       \* WATCHDOG_MAX_RESTARTS

ASSUME WatchdogAssumption ==
  FailThreshold \in Nat \ {0} /\ MaxRestarts \in Nat \ {0}

VARIABLES
  llama,    \* the server process
  host      \* each host: its watcher or watchdog

serverVars == <<llama, host>>

Llama == {"none", "loading", "ready", "hung"}
Off == [at |-> "off", fails |-> 0, restarts |-> 0, owns |-> FALSE]
HostStates ==
  {"off", "waiting", "guarding", "restarting", "unguarded", "gaveUp"}

ServerTypeOK ==
  /\ llama \in Llama
  /\ host \in [Hosts -> [at : HostStates, fails : 0..FailThreshold,
                         restarts : 0..(MaxRestarts + 1), owns : BOOLEAN]]
-----------------------------------------------------------------------------
Become(h, at) == host' = [host EXCEPT ![h].at = at]

(* kill_existing_llama, which may fail, and Popen, which may find no       *)
(* program; what was started may end at once, on a port that is taken. *)
Launch(started) ==
  \/ llama' \in {"none", llama}
  \/ started /\ llama' = "loading"

(* auto_start_embedding: a server that answers is somebody else's. *)
StartHost(h) ==
  /\ host[h].at = "off"
  /\ \/ llama = "ready" /\ Become(h, "unguarded") /\ UNCHANGED llama
     \/ /\ llama # "ready"
        /\ \E started \in BOOLEAN :
             /\ Launch(started)
             /\ host' = [host EXCEPT
                  ![h].at = IF started THEN "waiting" ELSE "unguarded",
                  ![h].owns = started]

(* The model is loaded, or the process ends; later it may crash or hang. *)
Load  == llama = "loading" /\ llama' \in {"ready", "none"} /\ UNCHANGED host
Crash == llama = "ready" /\ llama' \in {"none", "hung"} /\ UNCHANGED host

(* _wait_for_ready and _watch_then_guard: without an answer in time there  *)
(* is no watchdog, although a server that still loads is left to itself. *)
Watch(h) ==
  /\ host[h].at = "waiting"
  /\ Become(h, IF llama = "ready" THEN "guarding" ELSE "unguarded")
  /\ UNCHANGED llama

(* A probe that is answered, and one that is not. *)
ProbeOk(h) ==
  /\ host[h].at = "guarding" /\ llama = "ready"
  /\ host' = [host EXCEPT ![h].fails = 0]
  /\ UNCHANGED llama

ProbeFails(h) ==
  /\ host[h].at = "guarding" /\ llama # "ready"
  /\ host[h].fails + 1 < FailThreshold
  /\ host' = [host EXCEPT ![h].fails = @ + 1]
  /\ UNCHANGED llama

StubbornFault(h) ==
  /\ host[h].at = "guarding" /\ llama # "ready"
  /\ host[h].fails + 1 = FailThreshold
  /\ \E started \in BOOLEAN :
       /\ Launch(started)
       /\ host' = [host EXCEPT
            ![h].at = IF started THEN "restarting" ELSE "guarding",
            ![h].fails = 0]
(* The third probe in a row that fails. *)
Restart(h) ==
  /\ host[h].at = "guarding" /\ llama # "ready"
  /\ host[h].fails + 1 = FailThreshold
  /\ IF host[h].restarts = MaxRestarts
     THEN /\ host' = [host EXCEPT ![h].at = "gaveUp", ![h].fails = 0,
                                  ![h].restarts = @ + 1]
          /\ UNCHANGED llama
     ELSE \E started \in BOOLEAN :
            /\ Launch(started)
            /\ host' = [host EXCEPT
                 ![h].at = IF started THEN "restarting" ELSE "guarding",
                 ![h].fails = 0, ![h].restarts = @ + 1]

(* _wait_ready_quiet: only a restart that is ready in time resets their    *)
(* count; one that takes longer has failed, also when it succeeds after. *)
AfterRestart(h) ==
  /\ host[h].at = "restarting"
  /\ host' = [host EXCEPT ![h].at = "guarding",
                          ![h].restarts = IF llama = "ready" THEN 0 ELSE @]
  /\ UNCHANGED llama

(* The exit handler takes every server along; a killed process none. *)
StopHost(h) ==
  /\ host[h].at # "off"
  /\ host' = [host EXCEPT ![h] = Off]
  /\ \/ host[h].owns /\ llama' = "none"
     \/ UNCHANGED llama
-----------------------------------------------------------------------------
ServerInit == llama \in {"none", "ready"} /\ host = [h \in Hosts |-> Off]

ServerNext ==
  \/ Load \/ Crash
  \/ \E h \in Hosts :
       \/ StartHost(h) \/ Watch(h) \/ ProbeOk(h) \/ ProbeFails(h)
       \/ Restart(h) \/ AfterRestart(h) \/ StopHost(h)

(* Polls and probes are timed; a process that loads comes to an end. *)
ServerFairness ==
  /\ WF_serverVars(Load)
  /\ \A h \in Hosts : WF_serverVars(Watch(h) \/ ProbeOk(h) \/ ProbeFails(h)
                                    \/ Restart(h) \/ AfterRestart(h))
-----------------------------------------------------------------------------
(* Properties. *)

(* A server that is down under a watchdog is not left so for ever with the *)
(* watchdog at it: it answers, or the watchdog has said that it gives up,  *)
(* whatever the other host kills or starts meanwhile (_watchdog_loop).     *)
Recovers ==
  \A h \in Hosts : (host[h].at \in {"guarding", "restarting"} /\ llama # "ready")
    ~> (llama = "ready" \/ host[h].at \in {"gaveUp", "off"})
=============================================================================
