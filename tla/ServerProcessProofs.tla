-------------------------- MODULE ServerProcessProofs --------------------------
(***************************************************************************)
(* Proofs about ServerProcess.  The inductive invariant Inv has a part for *)
(* the logger alone (who is where in log and rotateLogFile, and what the   *)
(* log files then look like), one for main, its signal handler and the     *)
(* threads stop() joins, and one that relates the two: how far main can    *)
(* come with which log.                                                    *)
(***************************************************************************)
EXTENDS ServerProcess, TLAPS

\* The stages of main before it has made a thread, and those behind its first message.
Before == {"off", "load", "getString"} \cup Starting
Behind == {"replication", "network", "initialized", "tcp", "abandon"} \cup Serving

\* Only the monitor calls checkRotation without holding log_mutex_.
CheckHoldsMutex == \A t \in Threads \ {"monitor"} : lpc[t] = "check" => log_mutex_ = t

\* A rotation runs over a log that was full; the slot above the one it shifts next is free,
\* and the log has been renamed before the new one is opened.
Rotating ==
  \A t \in Threads :
    /\ lpc[t] \in {"shift", "reopen"} => full
    /\ lpc[t] = "shift" => rot \in -1 .. MaxFiles - 2 /\ rotated[rot + 1] = 0
    /\ lpc[t] = "reopen" => log_file_ = 0

LoggerInv == LoggerTypeOK /\ CheckHoldsMutex /\ Rotating /\ RotationKeepsOrder

Flags ==
  /\ settings \in [Settings -> {"default", "env"}]
  /\ {running_, persistence_enabled_, early, saved} \subseteq BOOLEAN
  /\ starts \in 0 .. MaxStarts

Places ==
  /\ pc = [t \in Threads |-> pc[t]]
  /\ pc["main"] \in Ended \cup Starting \cup Serving \cup {"getString", "abandon"}
  /\ pc["signal"] \in {"none", "stopping", "clear", "tcp", "persister", "monitor",
                        "save", "stopped", "return"}
  /\ pc["persister"] \in {"none", "test", "sleep", "persisted", "ended"}
  /\ pc["monitor"] \in {"none", "test", "sleep", "ended"}
  /\ pc["handler"] = "none"

\* Either main or the handler of a signal runs; the handler interrupts a server that serves.
Frames ==
  /\ "main" \in active <=> pc["signal"] = "none"
  /\ "signal" \in active <=> pc["signal"] # "none"
  /\ pc["signal"] # "none" => pc["main"] \in Serving \ {"delete"}
  /\ running_ => pc["main"] \in Serving \ {"delete"}

\* How far stop() has come.  A server that no longer runs has been through it.
Stopping ==
  /\ pc["signal"] \in {"stopping", "clear"} => running_
  /\ pc["signal"] \in {"tcp", "persister", "monitor", "save", "stopped", "return"} => ~running_
  /\ pc["signal"] # "none" /\ ~early => pc["main"] \in {"started", "loop"}
  /\ pc["signal"] \in {"stopped", "return"} => saved
  /\ pc["signal"] \in {"monitor", "save", "stopped", "return"} /\ ~early =>
       pc["persister"] = "none"
  /\ pc["signal"] \in {"save", "stopped", "return"} /\ ~early => pc["monitor"] = "none"
  /\ pc["signal"] = "none" /\ pc["main"] \in Serving /\ ~running_ =>
       /\ saved
       /\ ~early => /\ pc["main"] \in {"started", "loop", "delete"}
                    /\ pc["persister"] = "none" /\ pc["monitor"] = "none"
  /\ pc["main"] \in Before \cup {"abandon"} =>
       pc["persister"] = "none" /\ pc["monitor"] = "none"

ProcessInv == Flags /\ Places /\ Frames /\ Stopping /\ TerminatesOnlyEarly /\ ExitSaves

\* Before main serves, no other thread is in the logger, and before initLogging is done
\* main is not either and no file is open.
Undisturbed ==
  /\ pc["main"] \in Before => \A t \in Threads \ {"main"} : lpc[t] = "idle"
  /\ pc["main"] \in {"off", "load", "getString", "logging"} =>
       lpc["main"] = "idle" /\ ~opened /\ ~full /\ log_mutex_ = None

\* With a log that takes messages of level INFO, main waits for itself in its first one.
Quiet ==
  \/ INFO < current_level_
  \/ ~opened /\ ~full
  \/ pc["main"] \notin Behind \cup {"handler"}
  \/ pc["main"] = "handler" /\ opened /\ lpc["main"] \in {"lock", "print", "check"}

Inv == LoggerInv /\ ProcessInv /\ Undisturbed /\ Quiet

-------------------------------------------------------------------------------
(* The logger. *)

USE DEF INFO, ERROR, FATAL, Slots

\* The order of the log files, without the set of their generations.
Ordered(lf, rt, nw) ==
  /\ \A i, j \in Slots : i < j /\ rt[i] # 0 => rt[j] < rt[i]
  /\ lf # 0 => lf = nw /\ \A i \in Slots : rt[i] < nw
  /\ \A g, h \in 1 .. nw :
       g <= h /\ (g = lf \/ \E i \in Slots : rt[i] = g) => h = lf \/ \E i \in Slots : rt[i] = h

\* This is RotationKeepsOrder.
LEMMA OrderFacts ==
  LoggerTypeOK => (RotationKeepsOrder <=> Ordered(log_file_, rotated, newest))
  <1> SUFFICES ASSUME LoggerTypeOK
               PROVE  RotationKeepsOrder <=> Ordered(log_file_, rotated, newest)
    OBVIOUS
  <1>1. \A g : g \in Generations <=>
                 g # 0 /\ (g = log_file_ \/ \E i \in Slots : rotated[i] = g)
    BY DEF Generations
  <1>2. \A g \in Generations : g \in 1 .. newest
    BY <1>1 DEF LoggerTypeOK
  <1>3. newest \in Nat /\ log_file_ \in Nat
    BY DEF LoggerTypeOK
  <1>4. (\A g \in Generations : g .. newest \subseteq Generations) <=>
        \A g, h \in 1 .. newest : g <= h /\ g \in Generations => h \in Generations
    BY <1>2, <1>3
  <1>5. (\A g, h \in 1 .. newest : g <= h /\ g \in Generations => h \in Generations) <=>
        \A g, h \in 1 .. newest :
          g <= h /\ (g = log_file_ \/ \E i \in Slots : rotated[i] = g) =>
            h = log_file_ \/ \E i \in Slots : rotated[i] = h
    BY <1>1, <1>3
  <1> QED BY <1>4, <1>5 DEF RotationKeepsOrder, Ordered

\* The same in the next state.
LEMMA OrderFactsNext ==
  LoggerTypeOK' => (RotationKeepsOrder' <=> Ordered(log_file_, rotated, newest)')
  <1> SUFFICES ASSUME LoggerTypeOK'
               PROVE  RotationKeepsOrder' <=> Ordered(log_file_, rotated, newest)'
    OBVIOUS
  <1>1. \A g : g \in Generations' <=>
                 g # 0 /\ (g = log_file_' \/ \E i \in Slots : rotated'[i] = g)
    BY DEF Generations
  <1>2. \A g \in Generations' : g \in 1 .. newest'
    BY <1>1 DEF LoggerTypeOK
  <1>3. newest' \in Nat /\ log_file_' \in Nat
    BY DEF LoggerTypeOK
  <1>4. (\A g \in Generations' : g .. newest' \subseteq Generations') <=>
        \A g, h \in 1 .. newest' : g <= h /\ g \in Generations' => h \in Generations'
    BY <1>2, <1>3
  <1>5. (\A g, h \in 1 .. newest' : g <= h /\ g \in Generations' => h \in Generations') <=>
        \A g, h \in 1 .. newest' :
          g <= h /\ (g = log_file_' \/ \E i \in Slots : rotated'[i] = g) =>
            h = log_file_' \/ \E i \in Slots : rotated'[i] = h
    BY <1>1, <1>3
  <1> QED BY <1>4, <1>5 DEF RotationKeepsOrder, Ordered

\* A call of log or checkRotation, an end of one, and a change of the threads that run.
LEMMA LoggerCall ==
  ASSUME LoggerInv, active' \subseteq Threads,
         NEW t \in Threads, lpc[t] \in {"idle", "lock"},
         NEW l \in {"idle", "lock", "check"}, l = "check" => t = "monitor",
         lpc' = [lpc EXCEPT ![t] = l],
         UNCHANGED <<current_level_, log_mutex_, opened, full, rot, logfiles>>
  PROVE  LoggerInv'
  <1>1. LoggerTypeOK' BY DEF LoggerInv, LoggerTypeOK, logfiles
  <1>2. CheckHoldsMutex' /\ Rotating'
    BY DEF LoggerInv, LoggerTypeOK, CheckHoldsMutex, Rotating, logfiles
  <1>3. RotationKeepsOrder'
    BY DEF LoggerInv, RotationKeepsOrder, Generations, logfiles
  <1> QED BY <1>1, <1>2, <1>3 DEF LoggerInv

\* Nothing happens in the logger.
LEMMA LoggerStutter ==
  ASSUME LoggerInv, active' \subseteq Threads, UNCHANGED <<logger, logfiles>>
  PROVE  LoggerInv'
  <1>1. LoggerTypeOK' BY DEF LoggerInv, LoggerTypeOK, logger, logfiles
  <1>2. CheckHoldsMutex' /\ Rotating'
    BY DEF LoggerInv, CheckHoldsMutex, Rotating, logger, logfiles
  <1>3. RotationKeepsOrder'
    BY DEF LoggerInv, RotationKeepsOrder, Generations, logfiles
  <1> QED BY <1>1, <1>2, <1>3 DEF LoggerInv

\* A new log is newer than all that were there.
LEMMA NewLog ==
  ASSUME NEW nw \in Nat, NEW rt \in [Slots -> 0 .. nw], Ordered(0, rt, nw)
  PROVE  Ordered(nw + 1, rt, nw + 1)
  <1>1. \A i \in Slots : rt[i] \in 0 .. nw
    OBVIOUS
  <1>2. ASSUME NEW g \in 1 .. nw + 1, NEW h \in 1 .. nw + 1, g <= h, h # nw + 1,
               g = nw + 1 \/ \E i \in Slots : rt[i] = g
        PROVE  \E i \in Slots : rt[i] = h
    BY <1>1, <1>2 DEF Ordered
  <1> QED BY <1>1, <1>2 DEF Ordered

\* log takes log_mutex_ and prints.
LEMMA LockLogInv == ASSUME LoggerInv, NEW t \in Threads, LockLog(t) PROVE LoggerInv'
  <1> USE DEF LockLog, At, LoggerGoto
  <1>1. LoggerTypeOK' BY LoggerAssumption DEF LoggerInv, LoggerTypeOK, logfiles
  <1>2. CheckHoldsMutex' /\ Rotating'
    BY LoggerAssumption DEF LoggerInv, LoggerTypeOK, CheckHoldsMutex, Rotating, logfiles
  <1>3. RotationKeepsOrder'
    BY DEF LoggerInv, RotationKeepsOrder, Generations, logfiles
  <1> QED BY <1>1, <1>2, <1>3 DEF LoggerInv

\* log has printed; with an open file it goes on to checkRotation.
LEMMA WriteInv == ASSUME LoggerInv, NEW t \in Threads, Write(t) PROVE LoggerInv'
  <1> USE DEF Write, At, LoggerGoto
  <1>1. LoggerTypeOK' BY LoggerAssumption DEF LoggerInv, LoggerTypeOK, logfiles
  <1>2. CheckHoldsMutex' /\ Rotating'
    BY LoggerAssumption DEF LoggerInv, LoggerTypeOK, CheckHoldsMutex, Rotating, logfiles
  <1>3. RotationKeepsOrder'
    BY DEF LoggerInv, RotationKeepsOrder, Generations, logfiles
  <1> QED BY <1>1, <1>2, <1>3 DEF LoggerInv

\* A rotation is given up: the slot that was free stays free.
LEMMA ThrowsInv == ASSUME LoggerInv, NEW t \in Threads, RotationThrows(t) PROVE LoggerInv'
  <1> USE DEF RotationThrows, At, LoggerGoto
  <1>1. LoggerTypeOK' BY LoggerAssumption DEF LoggerInv, LoggerTypeOK, logfiles
  <1>2. CheckHoldsMutex' /\ Rotating'
    BY LoggerAssumption DEF LoggerInv, LoggerTypeOK, CheckHoldsMutex, Rotating, logfiles
  <1>3. RotationKeepsOrder'
    BY DEF LoggerInv, RotationKeepsOrder, Generations, logfiles
  <1> QED BY <1>1, <1>2, <1>3 DEF LoggerInv

\* checkRotation begins a rotation by removing the oldest file.
LEMMA CheckInv == ASSUME LoggerInv, NEW t \in Threads, CheckRotation(t) PROVE LoggerInv'
  <1> USE DEF CheckRotation, At, LoggerGoto
  <1>1. LoggerTypeOK'
    <2>1. {opened, full}' \subseteq BOOLEAN
      BY Zenon DEF LoggerInv, LoggerTypeOK
    <2>2. newest' \in Nat /\ log_file_' \in 0 .. newest' /\ rotated' \in [Slots -> 0 .. newest']
      BY LoggerAssumption DEF LoggerInv, LoggerTypeOK
    <2> QED BY <2>1, <2>2, LoggerAssumption DEF LoggerInv, LoggerTypeOK
  <1>2. CheckHoldsMutex' /\ Rotating'
    BY LoggerAssumption DEF LoggerInv, LoggerTypeOK, CheckHoldsMutex, Rotating
  <1>3. RotationKeepsOrder'
    <2>1. CASE ~full
      BY <2>1 DEF LoggerInv, RotationKeepsOrder, Generations
    <2>2. CASE full
      <3> DEFINE oldest == MaxFiles - 1
      <3>1. rotated' = [rotated EXCEPT ![oldest] = 0] /\ UNCHANGED <<log_file_, newest>>
        BY <2>2
      <3> USE LoggerAssumption
      <3> HIDE DEF CheckRotation
      <3>2. /\ oldest \in Slots /\ \A i \in Slots : i <= oldest
            /\ rotated \in [Slots -> Nat] /\ newest \in Nat /\ log_file_ \in Nat
        BY DEF LoggerInv, LoggerTypeOK
      <3>3. \A i \in Slots : rotated'[i] = IF i = oldest THEN 0 ELSE rotated[i]
        BY <3>1, <3>2
      <3>4. Ordered(log_file_, rotated, newest)
        BY OrderFacts DEF LoggerInv
      <3> HIDE DEF oldest
      <3>5. ASSUME NEW g \in 1 .. newest, NEW h \in 1 .. newest, g <= h,
                   g = log_file_ \/ \E i \in Slots : rotated'[i] = g
            PROVE  h = log_file_ \/ \E i \in Slots : rotated'[i] = h
        <4>1. CASE g = log_file_
          BY <3>2, <3>4, <3>5, <4>1 DEF Ordered
        <4>2. CASE \E i \in Slots : rotated'[i] = g
          <5>1. PICK i \in Slots : i < oldest /\ rotated[i] = g
            BY <3>2, <3>3, <4>2
          <5>2. rotated[oldest] < h
            BY <3>2, <3>4, <3>5, <5>1 DEF Ordered
          <5>3. h = log_file_ \/ \E k \in Slots : rotated[k] = h
            BY <3>4, <3>5, <5>1 DEF Ordered
          <5> QED BY <3>2, <3>3, <5>2, <5>3
        <4> QED BY <3>5, <4>1, <4>2
      <3>6. Ordered(log_file_, rotated, newest)'
        BY <3>1, <3>2, <3>3, <3>4, <3>5 DEF Ordered
      <3> QED BY <1>1, <3>6, OrderFactsNext
    <2> QED BY <2>1, <2>2
  <1> QED BY <1>1, <1>2, <1>3 DEF LoggerInv

\* What a step of rotateLogFile does to the files: a rename into the free slot.
LEMMA RotateFiles ==
  ASSUME LoggerInv, NEW t \in Threads, RotateLogFile(t)
  PROVE  /\ rot \in -1 .. MaxFiles - 2 /\ rot + 1 \in Slots /\ rotated[rot + 1] = 0
         /\ \A i \in Slots :
              rotated'[i] = IF i = rot + 1 THEN IF rot >= 0 THEN rotated[rot] ELSE log_file_
                            ELSE IF i = rot THEN 0 ELSE rotated[i]
         /\ rotated' \in [Slots -> 0 .. newest]
         /\ log_file_' = IF rot >= 0 THEN log_file_ ELSE 0
         /\ newest' = newest
  <1>1. rot \in -1 .. MaxFiles - 2 /\ rotated[rot + 1] = 0
    BY DEF LoggerInv, Rotating, RotateLogFile, At
  <1>2. rot + 1 \in Slots /\ (rot >= 0 => rot \in Slots)
    BY <1>1, LoggerAssumption
  <1>3. /\ newest \in Nat /\ log_file_ \in 0 .. newest
        /\ rotated \in [Slots -> 0 .. newest]
    BY DEF LoggerInv, LoggerTypeOK
  <1>4. CASE rot >= 0
    BY <1>1, <1>2, <1>3, <1>4, LoggerAssumption DEF RotateLogFile, Shift
  <1>5. CASE rot = -1
    BY <1>1, <1>2, <1>3, <1>5, LoggerAssumption DEF RotateLogFile
  <1> QED BY <1>1, <1>4, <1>5, LoggerAssumption

\* A rename loses no generation and keeps their order.
LEMMA RotateInv == ASSUME LoggerInv, NEW t \in Threads, RotateLogFile(t) PROVE LoggerInv'
  <1>0. /\ rot \in -1 .. MaxFiles - 2 /\ rot + 1 \in Slots /\ rotated[rot + 1] = 0
        /\ \A i \in Slots :
             rotated'[i] = IF i = rot + 1 THEN IF rot >= 0 THEN rotated[rot] ELSE log_file_
                           ELSE IF i = rot THEN 0 ELSE rotated[i]
        /\ rotated' \in [Slots -> 0 .. newest]
        /\ log_file_' = IF rot >= 0 THEN log_file_ ELSE 0
        /\ newest' = newest
    BY RotateFiles
  <1>1. LoggerTypeOK'
    <2>1. {opened, full}' \subseteq BOOLEAN
      BY Zenon DEF LoggerInv, LoggerTypeOK, RotateLogFile
    <2>2. rot' \in -1 .. MaxFiles
      BY <1>0, LoggerAssumption DEF RotateLogFile
    <2> QED
      BY <1>0, <2>1, <2>2 DEF LoggerInv, LoggerTypeOK, RotateLogFile, At, LoggerGoto
  <1>2. CheckHoldsMutex'
    BY DEF LoggerInv, LoggerTypeOK, CheckHoldsMutex, RotateLogFile, At, LoggerGoto
  <1>3. Rotating'
    <2>1. CASE rot >= 0
      <3>1. rot' = rot - 1 /\ lpc' = lpc /\ full' = full /\ log_file_' = log_file_
        BY <2>1 DEF RotateLogFile
      <3>2. rot' \in -1 .. MaxFiles - 2 /\ rotated'[rot' + 1] = 0
        BY <1>0, <2>1, <3>1, LoggerAssumption
      <3> QED BY <3>1, <3>2 DEF LoggerInv, Rotating
    <2>2. CASE rot = -1
      BY <1>0, <2>2 DEF LoggerInv, LoggerTypeOK, Rotating, RotateLogFile, At, LoggerGoto
    <2> QED BY <1>0, <2>1, <2>2, LoggerAssumption
  <1>4. Ordered(log_file_, rotated, newest)'
    <2>1. /\ rotated \in [Slots -> Nat] /\ newest \in Nat /\ log_file_ \in Nat
          /\ MaxFiles \in Nat
      BY LoggerAssumption DEF LoggerInv, LoggerTypeOK
    <2>2. Ordered(log_file_, rotated, newest)
      BY OrderFacts DEF LoggerInv
    <2>3. rot >= 0 => rot \in Slots
      BY <1>0, <2>1
    <2>4. \A g \in 1 .. newest : (g = log_file_ \/ \E i \in Slots : rotated[i] = g) <=>
                                 (g = log_file_' \/ \E i \in Slots : rotated'[i] = g)
      <3>1. CASE rot >= 0
        BY <1>0, <2>1, <2>3, <3>1
      <3>2. CASE rot = -1
        BY <1>0, <2>1, <3>2
      <3> QED BY <1>0, <2>1, <3>1, <3>2
    <2>5. \A i, j \in Slots : i < j /\ rotated'[i] # 0 => rotated'[j] < rotated'[i]
      BY <1>0, <2>1, <2>2, <2>3 DEF Ordered
    <2>6. log_file_' # 0 => log_file_' = newest' /\ \A i \in Slots : rotated'[i] < newest'
      BY <1>0, <2>1, <2>2, <2>3 DEF Ordered
    <2> QED BY <1>0, <2>2, <2>4, <2>5, <2>6 DEF Ordered
  <1> QED BY <1>1, <1>2, <1>3, <1>4, OrderFactsNext DEF LoggerInv

\* rotateLogFile opens the new log, or fails to.
LEMMA ReopenInv == ASSUME LoggerInv, NEW t \in Threads, ReopenLogFile(t) PROVE LoggerInv'
  <1> USE DEF ReopenLogFile, At, LoggerGoto
  <1>1. LoggerTypeOK'
    <2>1. {opened, full}' \subseteq BOOLEAN
      BY Zenon DEF LoggerInv, LoggerTypeOK
    <2>2. newest' \in Nat /\ log_file_' \in 0 .. newest' /\ rotated' \in [Slots -> 0 .. newest']
      BY LoggerAssumption DEF LoggerInv, LoggerTypeOK
    <2> QED BY <2>1, <2>2, LoggerAssumption DEF LoggerInv, LoggerTypeOK
  <1>2. CheckHoldsMutex' /\ Rotating'
    BY LoggerAssumption DEF LoggerInv, LoggerTypeOK, CheckHoldsMutex, Rotating
  <1>3. RotationKeepsOrder'
    BY <1>1, OrderFacts, OrderFactsNext, LoggerAssumption
      DEF LoggerInv, LoggerTypeOK, Ordered, Rotating
  <1> QED BY <1>1, <1>2, <1>3 DEF LoggerInv

\* initLogging runs before any message: it opens the log, or makes a new one.
LEMMA LoggerInitInv ==
  ASSUME LoggerInv, active' = active, \A t \in Threads : lpc[t] = "idle",
         NEW level \in 0 .. FATAL, NEW isopen \in BOOLEAN, NEW isfull \in BOOLEAN,
         LoggerInit(level, isopen, isfull),
         NEW t \in Threads, NEW l \in {"idle", "lock"}, lpc' = [lpc EXCEPT ![t] = l]
  PROVE  LoggerInv'
  <1>1. LoggerTypeOK'
    <2>1. {opened, full}' \subseteq BOOLEAN
      BY Zenon DEF LoggerInit
    <2> QED BY <2>1, LoggerAssumption DEF LoggerInv, LoggerTypeOK, LoggerInit
  <1>2. CheckHoldsMutex' /\ Rotating'
    BY DEF LoggerInv, LoggerTypeOK, CheckHoldsMutex, Rotating
  <1>3. Ordered(log_file_, rotated, newest)'
    <2>1. Ordered(log_file_, rotated, newest) /\ LoggerTypeOK
      BY OrderFacts DEF LoggerInv
    <2>2. CASE isopen /\ log_file_ = 0
      BY <2>1, <2>2, NewLog DEF LoggerInit, LoggerTypeOK
    <2>3. CASE ~(isopen /\ log_file_ = 0)
      BY <2>1, <2>3 DEF LoggerInit, Ordered
    <2> QED BY <2>2, <2>3
  <1> QED BY <1>1, <1>2, <1>3, OrderFactsNext DEF LoggerInv

-------------------------------------------------------------------------------
(* The process. *)

\* The steps that are not steps of the logger alone.
ProcessNext ==
  \/ Launch \/ Crash \/ InitFails \/ StartFails \/ Signal \/ HandlerSays
  \/ Load \/ InitLogging \/ MainSays \/ InitNetwork \/ StartTcp \/ StartPersister
  \/ StartMonitor \/ MainLoopEnds \/ DeleteServer
  \/ StopSays \/ ClearRunning \/ TcpStops \/ JoinThread \/ SignalReturns
  \/ TestRunning("persister") \/ TestRunning("monitor") \/ Persist \/ Monitor

\* The steps of the logger alone.
LoggerNext == \E t \in Threads : LogStep(t) \/ LogThrows(t)

\* The steps of Next, by what they touch.
LEMMA NextCases == Next <=> ProcessNext \/ LoggerNext
  BY DEF Next, ProcessNext, LoggerNext, MainStep, SignalStep, PersisterStep, MonitorStep

\* The settings never come from the configuration file.
LEMMA LoadedFromEnvironment ==
  ASSUME NEW env \in EnvSets, NEW options \in OptionSets, NEW file \in Files
  PROVE  /\ LoadConfiguration(env, options, file).settings \in [Settings -> {"default", "env"}]
         /\ LoadConfiguration(env, options, file).result \in {"loaded", "throws", "hangs"}
  <1> DEFINE s == LoadFromEnvironment(env)
  <1>1. s \in [Settings -> {"default", "env"}]
    BY DEF LoadFromEnvironment
  <1>2. file = <<>> \/ file = <<"missing">> \/ Len(file) = 2
    BY ProcessAssumption
  <1> HIDE DEF s
  <1>3. LoadConfiguration(env, options, file) \in
          {[settings |-> s, result |-> "loaded"], [settings |-> s, result |-> "throws"],
           [settings |-> s, result |-> "hangs"]}
    BY <1>2 DEF LoadConfiguration, ApplyCustomConfig, s
  <1> QED BY <1>1, <1>3

\* settings, the flags and the counter of starts.
LEMMA FlagsInv == ASSUME Inv, ProcessNext PROVE Flags'
  <1> USE DEF Inv, ProcessInv, Flags
  <1>1. settings' \in [Settings -> {"default", "env"}]
    <2>1. CASE Load BY <2>1, LoadedFromEnvironment DEF Load
    <2>2. CASE Crash BY <2>2 DEF Crash, LoadFromEnvironment
    <2>3. CASE UNCHANGED settings BY <2>3
    <2> QED
      BY <2>1, <2>2, <2>3
      DEF ProcessNext, Launch, InitFails, StartFails, Signal, HandlerSays, InitLogging,
          MainSays, InitNetwork, StartTcp, StartPersister, StartMonitor, MainLoopEnds,
          DeleteServer, StopSays, ClearRunning, TcpStops, JoinThread, SignalReturns,
          TestRunning, Persist, Monitor, others, silent
  <1>2. {running_, persistence_enabled_, early, saved}' \subseteq BOOLEAN
    <2>1. CASE Load BY <2>1, Zenon DEF Load
    <2>2. CASE Crash BY <2>2, Zenon DEF Crash
    <2>3. CASE Signal
      <3>1. early' \in BOOLEAN BY <2>3 DEF Signal
      <3> QED BY <2>3, <3>1, Zenon DEF Signal
    <2>4. CASE ~Load /\ ~Crash /\ ~Signal
      <3>1. /\ running_' \in {running_, TRUE, FALSE} /\ saved' \in {saved, TRUE}
            /\ UNCHANGED <<persistence_enabled_, early>>
        BY <2>4
        DEF ProcessNext, Launch, InitFails, StartFails, HandlerSays, InitLogging,
            MainSays, InitNetwork, StartTcp, StartPersister, StartMonitor, MainLoopEnds,
            DeleteServer, StopSays, ClearRunning, TcpStops, JoinThread, SignalReturns,
            TestRunning, Persist, Monitor, others, silent
      <3> QED BY <3>1, Zenon
    <2> QED BY <2>1, <2>2, <2>3, <2>4
  <1>3. starts' \in 0 .. MaxStarts
    <2>1. CASE Launch BY <2>1, ProcessAssumption DEF Launch
    <2>2. CASE UNCHANGED starts BY <2>2
    <2> QED
      BY <2>1, <2>2
      DEF ProcessNext, Crash, InitFails, StartFails, Signal, HandlerSays, Load, InitLogging,
          MainSays, InitNetwork, StartTcp, StartPersister, StartMonitor, MainLoopEnds,
          DeleteServer, StopSays, ClearRunning, TcpStops, JoinThread, SignalReturns,
          TestRunning, Persist, Monitor, others, silent
  <1> QED BY <1>1, <1>2, <1>3

\* Where the threads are, and how far stop() has come.
LEMMA PlacesInv ==
  ASSUME Inv, ProcessNext
  PROVE  Places' /\ Frames' /\ Stopping' /\ TerminatesOnlyEarly' /\ ExitSaves'
  <1> USE ProcessAssumption
      DEF Inv, ProcessInv, Places, Frames, Stopping, TerminatesOnlyEarly, ExitSaves, Ready, Goto,
          Ended, Starting, Serving, Before
  <1>1. CASE Launch BY <1>1 DEF Launch
  <1>2. CASE Crash BY <1>2 DEF Crash, NoProcess
  <1>3. CASE InitFails BY <1>3 DEF InitFails, others, silent
  <1>4. CASE StartFails BY <1>4 DEF StartFails, others, silent
  <1>5. CASE Signal BY <1>5 DEF Signal
  <1>6. CASE HandlerSays BY <1>6 DEF HandlerSays, others, silent
  <1>7. CASE Load BY <1>7, LoadedFromEnvironment DEF Load
  <1>8. CASE InitLogging BY <1>8 DEF InitLogging
  <1>9. CASE MainSays BY <1>9 DEF MainSays, Says, others, silent
  <1>10. CASE InitNetwork BY <1>10 DEF InitNetwork, others, silent
  <1>11. CASE StartTcp BY <1>11 DEF StartTcp
  <1>12. CASE StartPersister BY <1>12 DEF StartPersister, others, silent
  <1>13. CASE StartMonitor BY <1>13 DEF StartMonitor, others, silent
  <1>14. CASE MainLoopEnds BY <1>14 DEF MainLoopEnds, others, silent
  <1>15. CASE DeleteServer BY <1>15 DEF DeleteServer, Joinable, others, silent
  <1>16. CASE StopSays BY <1>16 DEF StopSays
  <1>17. CASE ClearRunning BY <1>17 DEF ClearRunning
  <1>18. CASE TcpStops BY <1>18 DEF TcpStops, others, silent
  <1>19. CASE JoinThread BY <1>19 DEF JoinThread, Joinable, others, silent
  <1>20. CASE SignalReturns BY <1>20 DEF SignalReturns
  <1>21. CASE Persist BY <1>21 DEF Persist, others, silent
  <1>22. CASE Monitor BY <1>22 DEF Monitor, others, silent
  <1>23. CASE TestRunning("persister") BY <1>23 DEF TestRunning, others, silent
  <1>24. CASE TestRunning("monitor") BY <1>24 DEF TestRunning, others, silent
  <1> QED
    BY <1>1, <1>2, <1>3, <1>4, <1>5, <1>6, <1>7, <1>8, <1>9, <1>10, <1>11, <1>12, <1>13, <1>14,
       <1>15, <1>16, <1>17, <1>18, <1>19, <1>20, <1>21, <1>22, <1>23, <1>24
    DEF ProcessNext

\* The logger, seen from the process: a thread calls it, or nothing happens there, or the
\* logger is initialised, or the process is gone.
LEMMA LoggerFromProcess == ASSUME Inv, ProcessNext PROVE LoggerInv'
  <1> USE ProcessAssumption DEF Ready
  <1>0. LoggerInv /\ LoggerTypeOK /\ active' \subseteq Threads
    <2>1. LoggerInv /\ active \subseteq Threads /\ LoggerTypeOK
      BY DEF Inv, LoggerInv, LoggerTypeOK
    <2>2. CASE Crash \/ Signal \/ SignalReturns
      BY <2>1, <2>2 DEF Crash, Signal, SignalReturns
    <2>3. CASE UNCHANGED active BY <2>1, <2>3
    <2> QED
      BY <2>1, <2>2, <2>3
      DEF ProcessNext, Launch, InitFails, StartFails, HandlerSays, Load, InitLogging,
          MainSays, InitNetwork, StartTcp, StartPersister, StartMonitor, MainLoopEnds,
          DeleteServer, StopSays, ClearRunning, TcpStops, JoinThread,
          TestRunning, Persist, Monitor, others, silent
  <1>1. CASE UNCHANGED <<logger, logfiles>>
    BY <1>0, <1>1, LoggerStutter
  <1>2. CASE Crash
    <2> USE <1>2 DEF Crash
    <2>1. LoggerTypeOK'
      <3>1. {opened, full}' \subseteq BOOLEAN BY Zenon
      <3> QED BY <1>0, <3>1, LoggerAssumption DEF LoggerTypeOK, logfiles
    <2>2. CheckHoldsMutex' /\ Rotating' BY DEF CheckHoldsMutex, Rotating
    <2>3. RotationKeepsOrder'
      BY <1>0 DEF LoggerInv, RotationKeepsOrder, Generations, logfiles
    <2> QED BY <2>1, <2>2, <2>3 DEF LoggerInv
  <1>3. CASE InitLogging
    <2>1. \A t \in Threads : lpc[t] = "idle"
      BY <1>3 DEF InitLogging, Inv, Undisturbed, Before, Starting
    <2>2. PICK level \in IF settings["log_level"] = "default" THEN {INFO} ELSE 0 .. FATAL :
            /\ \E isopen, isfull \in BOOLEAN : LoggerInit(level, isopen, isfull)
            /\ lpc' = [lpc EXCEPT !["main"] = IF INFO < level THEN @ ELSE "lock"]
      BY <1>3 DEF InitLogging
    <2>3. level \in 0 .. FATAL
      BY <2>2
    <2>4. PICK isopen \in BOOLEAN, isfull \in BOOLEAN : LoggerInit(level, isopen, isfull)
      BY <2>2, Zenon
    <2>5. PICK l \in {"idle", "lock"} : lpc' = [lpc EXCEPT !["main"] = l]
      BY <2>1, <2>2
    <2>6. active' = active /\ "main" \in Threads
      BY <1>3 DEF InitLogging
    <2> QED BY <1>0, <2>1, <2>3, <2>4, <2>5, <2>6, LoggerInitInv
  <1>4. CASE \/ StartFails \/ MainSays \/ StopSays \/ HandlerSays \/ Persist \/ Monitor
    <2>1. UNCHANGED <<current_level_, log_mutex_, opened, full, rot, logfiles>>
      BY <1>4 DEF StartFails, MainSays, StopSays, HandlerSays, Persist, Monitor, silent
    <2>2. \E t \in Threads : \E l \in {"idle", "lock", "check"} :
            /\ lpc[t] = "idle" /\ (l = "check" => t = "monitor")
            /\ lpc' = [lpc EXCEPT ![t] = l]
      <3>1. CASE StartFails
        <4>1. PICK l \in {"idle", "lock"} : lpc' = [lpc EXCEPT !["main"] = l]
          BY <3>1 DEF StartFails, Logs
        <4> QED BY <3>1, <4>1 DEF StartFails
      <3>2. CASE MainSays
        <4>1. PICK l \in {"idle", "lock"} : lpc' = [lpc EXCEPT !["main"] = l]
          BY <3>2 DEF MainSays, Logs
        <4> QED BY <3>2, <4>1 DEF MainSays
      <3>3. CASE StopSays
        <4>1. PICK l \in {"idle", "lock"} : lpc' = [lpc EXCEPT !["signal"] = l]
          BY <3>3 DEF StopSays, Logs
        <4> QED BY <3>3, <4>1 DEF StopSays
      <3>4. CASE HandlerSays
        <4>1. PICK l \in {"idle", "lock"} : lpc' = [lpc EXCEPT !["handler"] = l]
          BY <3>4 DEF HandlerSays, Logs
        <4> QED BY <3>4, <4>1 DEF HandlerSays
      <3>5. CASE Persist
        <4>1. PICK l \in {"idle", "lock"} : lpc' = [lpc EXCEPT !["persister"] = l]
          BY <1>0, <3>5 DEF Persist, Logs, LoggerTypeOK
        <4> QED BY <3>5, <4>1 DEF Persist
      <3>6. CASE Monitor
        <4>1. PICK l \in {"idle", "check"} : lpc' = [lpc EXCEPT !["monitor"] = l]
          BY <1>0, <3>6 DEF Monitor, LoggerGoto, LoggerTypeOK
        <4> QED BY <3>6, <4>1 DEF Monitor
      <3> QED BY <1>4, <3>1, <3>2, <3>3, <3>4, <3>5, <3>6
    <2> QED BY <1>0, <2>1, <2>2, LoggerCall
  <1> QED
    BY <1>1, <1>2, <1>3, <1>4
    DEF ProcessNext, Launch, InitFails, Signal, Load, InitNetwork, StartTcp, StartPersister,
        StartMonitor, MainLoopEnds, DeleteServer, ClearRunning, TcpStops, JoinThread,
        SignalReturns, TestRunning, others, silent, logger

\* How far main has come, with which log.
LEMMA QuietInv == ASSUME Inv, ProcessNext PROVE Undisturbed' /\ Quiet'
  <1>0. /\ lpc \in [Threads -> {"idle", "lock", "print", "check", "shift", "reopen"}]
        /\ current_level_ \in 0 .. FATAL
    BY DEF Inv, LoggerInv, LoggerTypeOK
  <1> USE <1>0, ProcessAssumption
      DEF Inv, ProcessInv, Places, Frames, Stopping, Undisturbed, Quiet, Ready, Goto,
          Ended, Starting, Serving, Before, Behind, logger, others, silent
  <1>1. CASE Launch BY <1>1 DEF Launch
  <1>2. CASE Crash BY <1>2 DEF Crash, NoProcess
  <1>3. CASE InitFails BY <1>3 DEF InitFails
  <1>4. CASE StartFails BY <1>4 DEF StartFails, Logs
  <1>5. CASE Signal BY <1>5 DEF Signal
  <1>6. CASE HandlerSays BY <1>6 DEF HandlerSays, Logs
  <1>7. CASE Load BY <1>7, LoadedFromEnvironment DEF Load
  <1>8. CASE InitLogging BY <1>8 DEF InitLogging, LoggerInit
  <1>9. CASE MainSays BY <1>9 DEF MainSays, Says, Logs
  <1>10. CASE InitNetwork BY <1>10 DEF InitNetwork
  <1>11. CASE StartTcp BY <1>11 DEF StartTcp
  <1>12. CASE StartPersister BY <1>12 DEF StartPersister
  <1>13. CASE StartMonitor BY <1>13 DEF StartMonitor
  <1>14. CASE MainLoopEnds BY <1>14 DEF MainLoopEnds
  <1>15. CASE DeleteServer BY <1>15 DEF DeleteServer, Joinable
  <1>16. CASE StopSays BY <1>16 DEF StopSays, Logs
  <1>17. CASE ClearRunning BY <1>17 DEF ClearRunning
  <1>18. CASE TcpStops BY <1>18 DEF TcpStops
  <1>19. CASE JoinThread BY <1>19 DEF JoinThread, Joinable
  <1>20. CASE SignalReturns BY <1>20 DEF SignalReturns
  <1>21. CASE Persist BY <1>21 DEF Persist, Logs
  <1>22. CASE Monitor BY <1>22 DEF Monitor, LoggerGoto
  <1>23. CASE TestRunning("persister") BY <1>23 DEF TestRunning
  <1>24. CASE TestRunning("monitor") BY <1>24 DEF TestRunning
  <1> QED
    BY <1>1, <1>2, <1>3, <1>4, <1>5, <1>6, <1>7, <1>8, <1>9, <1>10, <1>11, <1>12, <1>13, <1>14,
       <1>15, <1>16, <1>17, <1>18, <1>19, <1>20, <1>21, <1>22, <1>23, <1>24
    DEF ProcessNext

-------------------------------------------------------------------------------
\* A step of the logger leaves the process alone, and main where it waits.
LEMMA LoggerSteps == ASSUME Inv, LoggerNext PROVE Inv'
  <1>1. PICK t \in Threads : LogStep(t) \/ LogThrows(t)
    BY DEF LoggerNext
  <1> USE DEF LogStep, LogLocks, LogWrites, LogChecks, LogRotates, LogReopens, LogThrows
  <1>2. LoggerInv'
    BY <1>1, LockLogInv, WriteInv, CheckInv, RotateInv, ReopenInv, ThrowsInv DEF Inv
  <1>3. UNCHANGED <<process, starts, active, current_level_>>
    BY <1>1 DEF LockLog, Write, CheckRotation, RotateLogFile, ReopenLogFile, RotationThrows
  <1>4. ProcessInv'
    BY <1>3 DEF Inv, ProcessInv, Flags, Places, Frames, Stopping, TerminatesOnlyEarly,
                ExitSaves, process
  <1>5. /\ lpc \in [Threads -> {"idle", "lock", "print", "check", "shift", "reopen"}]
        /\ lpc[t] # "idle" /\ UNCHANGED pc
        /\ \A u \in Threads \ {t} : lpc'[u] = lpc[u]
    BY <1>1, <1>3
    DEF Inv, LoggerInv, LoggerTypeOK, LockLog, Write, CheckRotation, RotateLogFile,
        ReopenLogFile, RotationThrows, At, LoggerGoto, process
  <1>6. Undisturbed'
    BY <1>5, ProcessAssumption DEF Inv, Undisturbed, Before, Starting
  <1>7. Quiet'
    <2> USE DEF Inv, Quiet, Undisturbed, Before, Starting, At, LoggerGoto
    <2> USE <1>3, <1>5, ProcessAssumption, LoggerAssumption
    <2>1. CASE LockLog(t) BY <2>1 DEF LockLog
    <2>2. CASE Write(t) BY <2>2 DEF Write
    <2>3. CASE CheckRotation(t)
      BY <2>3 DEF CheckRotation, LoggerInv, CheckHoldsMutex
    <2>4. CASE RotateLogFile(t) BY <2>4 DEF RotateLogFile, LoggerInv, Rotating
    <2>5. CASE ReopenLogFile(t) BY <2>5 DEF ReopenLogFile, LoggerInv, Rotating
    <2>6. CASE RotationThrows(t) BY <2>6 DEF RotationThrows
    <2> QED BY <1>1, <2>1, <2>2, <2>3, <2>4, <2>5, <2>6
  <1> QED BY <1>2, <1>4, <1>6, <1>7 DEF Inv

\* Inv holds when nothing runs, over any number of old logs.
LEMMA InitInv == Init => Inv
  <1> SUFFICES ASSUME Init PROVE Inv
    OBVIOUS
  <1> USE ProcessAssumption, LoggerAssumption
  <1>1. PICK n \in OldLogs :
          /\ log_file_ = n /\ newest = n
          /\ rotated = [i \in Slots |-> IF n - 1 - i > 0 THEN n - 1 - i ELSE 0]
    BY DEF Init
  <1>2. n \in Nat BY <1>1
  <1>3. LoggerTypeOK
    <2>1. {opened, full} \subseteq BOOLEAN BY Zenon DEF Init
    <2>2. rotated \in [Slots -> 0 .. newest] BY <1>1, <1>2
    <2> QED BY <1>1, <1>2, <2>1, <2>2 DEF Init, LoggerTypeOK
  <1>4. RotationKeepsOrder
    <2>1. ASSUME NEW g \in 1 .. n, NEW h \in 1 .. n, g <= h,
                 g = n \/ \E i \in Slots : rotated[i] = g
          PROVE  h = n \/ \E i \in Slots : rotated[i] = h
      <3>1. CASE g = n BY <1>2, <2>1, <3>1
      <3>2. CASE \E i \in Slots : rotated[i] = g
        <4>1. PICK i \in Slots : rotated[i] = g BY <3>2
        <4>2. g = n - 1 - i BY <1>1, <1>2, <2>1, <4>1
        <4>3. h # n => n - 1 - h \in Slots /\ rotated[n - 1 - h] = h
          BY <1>1, <1>2, <2>1, <4>2
        <4> QED BY <4>3
      <3> QED BY <2>1, <3>1, <3>2
    <2>2. Ordered(log_file_, rotated, newest)
      BY <1>1, <1>2, <2>1 DEF Ordered
    <2> QED BY <1>3, <2>2, OrderFacts
  <1>5. LoggerInv
    BY <1>3, <1>4 DEF Init, LoggerInv, CheckHoldsMutex, Rotating
  <1>6. Flags
    <2>1. {running_, persistence_enabled_, early, saved} \subseteq BOOLEAN BY Zenon DEF Init
    <2> QED BY <2>1 DEF Init, Flags, LoadFromEnvironment
  <1>7. ProcessInv /\ Undisturbed /\ Quiet
    BY <1>6
    DEF Init, NoProcess, ProcessInv, Places, Frames, Stopping, TerminatesOnlyEarly, ExitSaves,
        Undisturbed, Quiet, Ended, Starting, Serving, Before, Behind
  <1> QED BY <1>5, <1>7 DEF Inv

\* Inv is inductive.
LEMMA StepInv == Inv /\ [Next]_vars => Inv'
  <1> SUFFICES ASSUME Inv, [Next]_vars PROVE Inv'
    OBVIOUS
  <1>1. CASE ProcessNext
    <2>1. ProcessInv' BY <1>1, FlagsInv, PlacesInv DEF ProcessInv
    <2> QED BY <1>1, <2>1, LoggerFromProcess, QuietInv DEF Inv
  <1>2. CASE LoggerNext BY <1>2, LoggerSteps
  <1>3. CASE UNCHANGED vars
    <2>1. LoggerInv'
      BY <1>3, LoggerStutter DEF vars, Inv, LoggerInv, LoggerTypeOK
    <2>2. ProcessInv' /\ Undisturbed' /\ Quiet'
      BY <1>3
      DEF vars, process, logger, Inv, ProcessInv, Flags, Places, Frames, Stopping,
          TerminatesOnlyEarly, ExitSaves, Undisturbed, Quiet
    <2> QED BY <2>1, <2>2 DEF Inv
  <1> QED BY <1>1, <1>2, <1>3, NextCases

\* Inv is an invariant.
LEMMA AlwaysInv == Spec => []Inv
  BY InitInv, StepInv, PTL DEF Spec

-------------------------------------------------------------------------------
(* The properties, for every number of rotated files, of old logs and of starts. *)

\* The log is used by one thread at a time and every thread is at a place of the code,
\* in any interleaving of main, the signal handler and the threads (logger.cpp, main.cpp).
THEOREM TypeCorrect == Spec => []ProcessTypeOK
  <1>1. Inv => ProcessTypeOK
    BY DEF Inv, LoggerInv, ProcessInv, Flags, Places, ProcessTypeOK
  <1> QED BY <1>1, AlwaysInv, PTL

\* A server that gets past loadFromFile has taken nothing from the command line or the
\* configuration file (applyCustomConfig).
THEOREM SettingsFromEnvironment == Spec => []EnvironmentOnly
  <1>1. Inv => EnvironmentOnly
    BY DEF Inv, ProcessInv, Flags, EnvironmentOnly
  <1> QED BY <1>1, AlwaysInv, PTL

\* A server runs only with a log that takes no message of level INFO: with another its
\* first message waits for log_mutex_, which it holds (log, checkRotation).
THEOREM RunningIsQuiet == Spec => []RunsOnlyQuiet
  <1>1. Inv => RunsOnlyQuiet
    BY DEF Inv, ProcessInv, Frames, Quiet, Behind, Serving, RunsOnlyQuiet
  <1> QED BY <1>1, AlwaysInv, PTL

\* The log files stay in order and without a hole, wherever a crash or an exception cuts
\* a rotation off (rotateLogFile).
THEOREM RotationInOrder == Spec => []RotationKeepsOrder
  <1>1. Inv => RotationKeepsOrder
    BY DEF Inv, LoggerInv
  <1> QED BY <1>1, AlwaysInv, PTL

\* The process dies of a thread nobody joined only if the signal came while start() was
\* making its threads (~SkipListServer).
THEOREM TerminationIsEarly == Spec => []TerminatesOnlyEarly
  <1>1. Inv => TerminatesOnlyEarly
    BY DEF Inv, ProcessInv
  <1> QED BY <1>1, AlwaysInv, PTL

\* A server that has run and exits in order has saved its data, and stop() is over.
THEOREM ExitHasSaved == Spec => []ExitSaves
  <1>1. Inv => ExitSaves
    BY DEF Inv, ProcessInv
  <1> QED BY <1>1, AlwaysInv, PTL
===============================================================================
