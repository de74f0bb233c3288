---------------------------- MODULE ServerProcess -----------------------------
(***************************************************************************)
(* The life of the server's process: main (test/main.cpp), init, start and *)
(* stop of SkipListServer, its persistence and monitor threads, and the    *)
(* signal handler, with the configuration (Config) and the logger (Logger) *)
(* they go through.                                                        *)
(*                                                                         *)
(* The signal handler runs on the main thread: "signal" is the frame of    *)
(* the handler, and "main" does not run until it returns.  A second signal *)
(* finds running_ cleared, or is the same one and blocked.  The data, the  *)
(* replication and the sockets are in RedisStore, ReplicationManager and   *)
(* TCPServer; here tcp_server_->stop() returns.  A thread that serves a    *)
(* client ("handler") is detached: nothing waits for it.                   *)
(*                                                                         *)
(* monitorLoop calls checkRotation without the message logger.h asks for;  *)
(* it is read as an empty message, which is what the call is for.          *)
(***************************************************************************)
EXTENDS Config, Logger

CONSTANTS
  EnvSets,        \* which environment variables may be set
  OptionSets,     \* which options main may be given
  Files,          \* which configuration files
  OldLogs,        \* how many log files there may have been before
  MaxStarts       \* how often the process is started

ASSUME ProcessAssumption ==
  /\ Threads = {"main", "signal", "persister", "monitor", "handler"}
  /\ \A f \in Files : f = <<>> \/ f = <<"missing">> \/ Len(f) = 2
  /\ OldLogs \subseteq Nat /\ MaxStarts \in Nat

VARIABLES
  pc,                    \* per thread
  settings,              \* where the value of each setting comes from
  persistence_enabled_,
  running_,
  early,                 \* history: the signal came before start() had made every thread
  saved,                 \* history: stop() has saved the data
  starts

process == <<pc, settings, persistence_enabled_, running_, early, saved>>
vars == <<active, logger, logfiles, process, starts>>

\* All but pc and lpc, and all but pc.
silent == <<active, current_level_, log_mutex_, opened, full, rot, logfiles, settings,
            persistence_enabled_, running_, early, saved, starts>>
others == <<silent, lpc>>

Ended == {"off", "failed", "exited", "terminated"}
Starting == {"load", "logging", "handler", "replication", "network", "initialized", "tcp"}
Serving == {"persister", "monitor", "started", "loop", "delete"}

\* The log is used by one thread at a time, and every thread is at a place of the code.
ProcessTypeOK ==
  /\ LoggerTypeOK
  /\ settings \in [Settings -> {"default", "env", "file"}]
  /\ {running_, persistence_enabled_, early, saved} \subseteq BOOLEAN
  /\ starts \in 0 .. MaxStarts
  /\ pc["main"] \in Ended \cup Starting \cup Serving \cup {"getString", "abandon"}
  /\ pc["signal"] \in {"none", "stopping", "clear", "tcp", "persister", "monitor",
                        "save", "stopped", "return"}
  /\ pc["persister"] \in {"none", "test", "sleep", "persisted", "ended"}
  /\ pc["monitor"] \in {"none", "test", "sleep", "ended"}
  /\ pc["handler"] = "none"

-------------------------------------------------------------------------------
\* A process that does not run.
NoProcess == [t \in Threads |-> IF t = "main" THEN "off" ELSE "none"]

\* What is left of n log files.
Init ==
  /\ \E n \in OldLogs :
       /\ log_file_ = n /\ newest = n
       /\ rotated = [i \in Slots |-> IF n - 1 - i > 0 THEN n - 1 - i ELSE 0]
  /\ active = Threads \ {"signal"} /\ pc = NoProcess
  /\ current_level_ = INFO /\ log_mutex_ = None /\ opened = FALSE /\ full = FALSE
  /\ lpc = [t \in Threads |-> "idle"] /\ rot = -1
  /\ settings = LoadFromEnvironment({})
  /\ running_ = FALSE /\ persistence_enabled_ = TRUE
  /\ early = FALSE /\ saved = FALSE /\ starts = 0

Ready(t, p) == t \in active /\ lpc[t] = "idle" /\ pc[t] = p
Goto(t, p) == pc' = [pc EXCEPT ![t] = p]

Launch ==
  /\ Ready("main", "off") /\ starts < MaxStarts
  /\ starts' = starts + 1
  /\ Goto("main", "load")
  /\ UNCHANGED <<active, logger, logfiles, settings, persistence_enabled_, running_, early, saved>>

\* The process is killed, or restarted after its end; the log files stay.
Crash ==
  /\ pc["main"] # "off"
  /\ pc' = NoProcess /\ active' = Threads \ {"signal"}
  /\ current_level_' = INFO /\ log_mutex_' = None /\ opened' = FALSE /\ full' = FALSE
  /\ lpc' = [t \in Threads |-> "idle"] /\ rot' = -1
  /\ settings' = LoadFromEnvironment({})
  /\ running_' = FALSE /\ persistence_enabled_' = TRUE
  /\ early' = FALSE /\ saved' = FALSE
  /\ UNCHANGED <<logfiles, starts>>

-------------------------------------------------------------------------------
(* The main thread. *)

\* loadConfiguration; init answers an exception with false.
Load ==
  /\ Ready("main", "load")
  /\ \E env \in EnvSets, options \in OptionSets, file \in Files :
       LET loaded == LoadConfiguration(env, options, file) IN
       /\ settings' = loaded.settings
       /\ Goto("main", CASE loaded.result = "loaded" -> "logging"
                         [] loaded.result = "throws" -> "failed"
                         [] loaded.result = "hangs" -> "getString")
  /\ persistence_enabled_' \in IF settings'["enable_persistence"] = "default" THEN {TRUE}
                                                                              ELSE BOOLEAN
  /\ UNCHANGED <<active, logger, logfiles, running_, early, saved, starts>>

\* initLogging, up to the first message.
InitLogging ==
  /\ Ready("main", "logging")
  /\ \E level \in IF settings["log_level"] = "default" THEN {INFO} ELSE 0 .. FATAL :
       /\ \E isopen, isfull \in BOOLEAN : LoggerInit(level, isopen, isfull)
       /\ lpc' = [lpc EXCEPT !["main"] = IF INFO < level THEN @ ELSE "lock"]
  /\ Goto("main", "handler")
  /\ UNCHANGED <<active, settings, persistence_enabled_, running_, early, saved, starts>>

\* Where main says something, and where it goes on: loadData, the end of
\* RedisHandler::init, of SkipListServer::init and of start.
Says == [handler |-> "replication", replication |-> "network", initialized |-> "tcp",
         started |-> "loop"]

MainSays ==
  /\ \E p \in DOMAIN Says : Ready("main", p) /\ Goto("main", Says[p])
  /\ Logs("main", INFO)
  /\ UNCHANGED silent

\* A directory, a line of the data file or the socket makes init throw.
InitFails ==
  /\ \E p \in {"logging", "handler", "network"} : Ready("main", p)
  /\ Goto("main", "failed")
  /\ UNCHANGED others

\* initNetworkServer and setupSignalHandlers.
InitNetwork ==
  /\ Ready("main", "network")
  /\ Goto("main", "initialized")
  /\ UNCHANGED others

StartTcp ==
  /\ Ready("main", "tcp")
  /\ running_' = TRUE
  /\ Goto("main", "persister")
  /\ UNCHANGED <<active, logger, logfiles, settings, persistence_enabled_, early, saved, starts>>

StartFails ==
  /\ Ready("main", "tcp")
  /\ Logs("main", ERROR)
  /\ Goto("main", "abandon")
  /\ UNCHANGED silent

StartPersister ==
  /\ Ready("main", "persister")
  /\ pc' = [pc EXCEPT !["main"] = "monitor",
                      !["persister"] = IF persistence_enabled_ THEN "test" ELSE "none"]
  /\ UNCHANGED others

StartMonitor ==
  /\ Ready("main", "monitor")
  /\ pc' = [pc EXCEPT !["main"] = "started", !["monitor"] = "test"]
  /\ UNCHANGED others

MainLoopEnds ==
  /\ Ready("main", "loop") /\ ~running_
  /\ Goto("main", "delete")
  /\ UNCHANGED others

Joinable(t) == pc[t] # "none"

\* delete g_server: stop() returns at once, and the destructor of a thread that was not
\* joined terminates the process.
DeleteServer ==
  /\ \E p \in {"delete", "abandon"} :
       /\ Ready("main", p)
       /\ Goto("main", CASE Joinable("persister") \/ Joinable("monitor") -> "terminated"
                         [] p = "delete" -> "exited"
                         [] OTHER -> "failed")
  /\ UNCHANGED others

-------------------------------------------------------------------------------
(* signalHandler and stop(); without running_ it returns at once. *)

\* A plausible slip: stop() runs on a thread of its own.
SignalElsewhere ==
  /\ pc["main"] \in Serving /\ "signal" \notin active /\ running_
  /\ active' = active \cup {"signal"}
  /\ Goto("signal", "stopping")
  /\ early' = (pc["main"] \in {"persister", "monitor"})
  /\ UNCHANGED <<logger, logfiles, settings, persistence_enabled_, running_, saved, starts>>

Signal ==
  /\ pc["main"] \in Serving /\ "main" \in active /\ running_
  /\ active' = (active \ {"main"}) \cup {"signal"}
  /\ Goto("signal", "stopping")
  /\ early' = (pc["main"] \in {"persister", "monitor"})
  /\ UNCHANGED <<logger, logfiles, settings, persistence_enabled_, running_, saved, starts>>

StopSays ==
  /\ \/ Ready("signal", "stopping") /\ Goto("signal", "clear") /\ UNCHANGED saved
     \/ Ready("signal", "save") /\ Goto("signal", "stopped") /\ saved' = TRUE
     \/ Ready("signal", "stopped") /\ Goto("signal", "return") /\ UNCHANGED saved
  /\ Logs("signal", INFO)
  /\ UNCHANGED <<active, current_level_, log_mutex_, opened, full, rot, logfiles, settings,
                 persistence_enabled_, running_, early, starts>>

ClearRunning ==
  /\ Ready("signal", "clear")
  /\ running_' = FALSE
  /\ Goto("signal", "tcp")
  /\ UNCHANGED <<active, logger, logfiles, settings, persistence_enabled_, early, saved, starts>>

TcpStops ==
  /\ Ready("signal", "tcp")
  /\ Goto("signal", "persister")
  /\ UNCHANGED others

\* A plausible slip: stop() joins the persistence thread only.
JoinPersisterOnly ==
  /\ Ready("signal", "persister") /\ pc["persister"] \in {"none", "ended"}
  /\ pc' = [pc EXCEPT !["signal"] = "save", !["persister"] = "none"]
  /\ UNCHANGED others

JoinThread ==
  /\ \E t \in {"persister", "monitor"} :
       /\ Ready("signal", t) /\ (Joinable(t) => pc[t] = "ended" /\ lpc[t] = "idle")
       /\ pc' = [pc EXCEPT !["signal"] = IF t = "persister" THEN "monitor" ELSE "save",
                           ![t] = "none"]
  /\ UNCHANGED others

SignalReturns ==
  /\ Ready("signal", "return")
  /\ Goto("signal", "none")
  /\ active' = (active \ {"signal"}) \cup {"main"}
  /\ UNCHANGED <<logger, logfiles, settings, persistence_enabled_, running_, early, saved, starts>>

-------------------------------------------------------------------------------
(* The other threads. *)

\* A plausible slip: the loops have no condition.
NeverTests(t) ==
  /\ Ready(t, "test")
  /\ Goto(t, "sleep")
  /\ UNCHANGED others

TestRunning(t) ==
  /\ Ready(t, "test")
  /\ Goto(t, IF running_ THEN "sleep" ELSE "ended")
  /\ UNCHANGED others

\* persistenceLoop after its sleep: saveData, and a message of level DEBUG.
Persist ==
  /\ \/ /\ Ready("persister", "sleep")
        /\ Goto("persister", IF running_ THEN "persisted" ELSE "test")
        /\ IF running_ THEN Logs("persister", INFO) ELSE UNCHANGED lpc
     \/ Ready("persister", "persisted") /\ Goto("persister", "test") /\ Logs("persister", 0)
  /\ UNCHANGED silent

\* monitorLoop after its sleep: checkRotation.
Monitor ==
  /\ Ready("monitor", "sleep")
  /\ Goto("monitor", "test")
  /\ IF running_ THEN LoggerGoto("monitor", "check") ELSE UNCHANGED lpc
  /\ UNCHANGED silent

\* A command that saves or loads says so; one that throws is an error.
HandlerSays ==
  /\ Ready("handler", "none") /\ pc["main"] \in Serving
  /\ \E level \in {INFO, ERROR} : level >= current_level_ /\ Logs("handler", level)
  /\ UNCHANGED <<silent, pc>>

-------------------------------------------------------------------------------
LogLocks(t) == LockLog(t) /\ UNCHANGED <<process, starts>>
LogWrites(t) == Write(t) /\ UNCHANGED <<process, starts>>
LogChecks(t) == CheckRotation(t) /\ UNCHANGED <<process, starts>>
LogRotates(t) == RotateLogFile(t) /\ UNCHANGED <<process, starts>>
LogReopens(t) == ReopenLogFile(t) /\ UNCHANGED <<process, starts>>
LogThrows(t) == RotationThrows(t) /\ UNCHANGED <<process, starts>>

MainStep ==
  \/ Load \/ InitLogging \/ MainSays \/ InitNetwork \/ StartTcp \/ StartPersister
  \/ StartMonitor \/ MainLoopEnds \/ DeleteServer
SignalStep == StopSays \/ ClearRunning \/ TcpStops \/ JoinThread \/ SignalReturns

PersisterStep == TestRunning("persister") \/ Persist
MonitorStep == TestRunning("monitor") \/ Monitor
LogStep(t) == LogLocks(t) \/ LogWrites(t) \/ LogChecks(t) \/ LogRotates(t) \/ LogReopens(t)

Next ==
  \/ Launch \/ Crash \/ InitFails \/ StartFails \/ Signal \/ HandlerSays
  \/ MainStep \/ SignalStep \/ PersisterStep \/ MonitorStep
  \/ \E t \in Threads : LogStep(t) \/ LogThrows(t)

Spec == Init /\ [][Next]_vars

\* The scheduler runs every thread and sleeps end.  A thread that waits for log_mutex_
\* gets it if it becomes free again and again.
FairSpec ==
  /\ Spec
  /\ WF_vars(MainStep) /\ WF_vars(SignalStep) /\ WF_vars(PersisterStep) /\ WF_vars(MonitorStep)
  /\ \A t \in {"main", "handler"} : WF_vars(LogStep(t))
  /\ \A t \in {"signal", "persister", "monitor"} : SF_vars(LogStep(t))

-------------------------------------------------------------------------------
(* Properties. *)

\* Once the configuration is loaded, no setting comes from the command line or from the
\* configuration file: a server that gets past loadFromFile has applied nothing of it.
EnvironmentOnly ==
  pc["main"] \notin {"load", "getString"} => \A k \in Settings : settings[k] # "file"

\* A server that runs writes no message of level INFO to a file: with such a log its
\* first message would never have returned.
RunsOnlyQuiet == running_ => ~opened \/ INFO < current_level_

\* The log files are always in order, the newest first, and without a hole: what is left
\* are the last generations, whatever rotation a crash or an exception has cut off.
Generations == ({log_file_} \cup {rotated[i] : i \in Slots}) \ {0}
RotationKeepsOrder ==
  /\ \A i, j \in Slots : i < j /\ rotated[i] # 0 => rotated[j] < rotated[i]
  /\ log_file_ # 0 => log_file_ = newest /\ \A i \in Slots : rotated[i] < newest
  /\ \A g \in Generations : g .. newest \subseteq Generations

\* The process dies of a thread nobody joined only if the signal came while start() was
\* making its threads.
TerminatesOnlyEarly == pc["main"] = "terminated" => early

\* A server that has run and exits in order has saved its data, and nothing of it runs.
ExitSaves ==
  pc["main"] = "exited" => saved /\ pc["signal"] = "none" /\ "signal" \notin active

\* A stop() that began returns, unless a thread waits for itself in the logger.
StopEnds == pc["signal"] # "none" ~> pc["signal"] = "none" \/ Stuck

\* A process that was started serves, or says that it failed.
StartFinishes == pc["main"] = "load" ~> pc["main"] \in Ended \cup {"loop"}
===============================================================================
