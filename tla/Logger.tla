-------------------------------- MODULE Logger --------------------------------
(***************************************************************************)
(* logger/logger.cpp: log, checkRotation and rotateLogFile, called by any  *)
(* thread, and the log files, which outlive the process.                   *)
(*                                                                         *)
(* Locking a std::mutex that the thread holds blocks it, as Linux does.    *)
(* What was written to a log file is a generation, a number that grows     *)
(* with every new file.  The server writes nothing to it (log never gets   *)
(* that far), but it may find a log file of any size when it starts.       *)
(***************************************************************************)
EXTENDS Integers

CONSTANTS
  Threads,
  None,
  MaxFiles        \* max_files_

ASSUME LoggerAssumption == MaxFiles \in Nat \ {0} /\ None \notin Threads

INFO == 1
ERROR == 3
FATAL == 4

VARIABLES
  active,         \* the threads that may run
  current_level_,
  log_mutex_,     \* its holder
  opened,         \* file_stream_ is open
  full,           \* current_file_size_ has reached max_file_size_
  lpc,            \* per thread: where it is in the logger
  rot,            \* the loop variable of rotateLogFile
  log_file_,      \* the generation of the log file, 0 if there is none
  rotated,        \* by number: the generation of a rotated file, 0 if there is none
  newest          \* the newest generation ever

logfiles == <<log_file_, rotated, newest>>
logger == <<current_level_, log_mutex_, opened, full, lpc, rot>>

Slots == 0 .. MaxFiles - 1

LoggerTypeOK ==
  /\ active \subseteq Threads
  /\ current_level_ \in 0 .. FATAL
  /\ log_mutex_ \in Threads \cup {None}
  /\ {opened, full} \subseteq BOOLEAN
  /\ lpc \in [Threads -> {"idle", "lock", "print", "check", "shift", "reopen"}]
  /\ rot \in -1 .. MaxFiles
  /\ newest \in Nat /\ log_file_ \in 0 .. newest
  /\ rotated \in [Slots -> 0 .. newest]
  /\ \A t \in Threads : lpc[t] \in {"print", "shift", "reopen"} => log_mutex_ = t

At(t, l) == t \in active /\ lpc[t] = l
LoggerGoto(t, l) == lpc' = [lpc EXCEPT ![t] = l]

\* A call of log, which returns at once for a level that is too low.
Logs(t, level) == lpc' = [lpc EXCEPT ![t] = IF level < current_level_ THEN @ ELSE "lock"]

\* Logger::init opens the file; level, size and whether it opens come from outside.
LoggerInit(level, isopen, isfull) ==
  /\ current_level_' = level
  /\ opened' = isopen
  /\ full' = (isopen /\ isfull /\ log_file_ # 0)
  /\ IF isopen /\ log_file_ = 0
     THEN newest' = newest + 1 /\ log_file_' = newest + 1
     ELSE UNCHANGED <<newest, log_file_>>
  /\ UNCHANGED <<rotated, log_mutex_, rot>>

\* A plausible slip: log prints without the lock_guard.
LogUnlocked(t) ==
  /\ At(t, "lock")
  /\ LoggerGoto(t, "print")
  /\ UNCHANGED <<active, current_level_, log_mutex_, opened, full, rot, logfiles>>

LockLog(t) ==
  /\ At(t, "lock") /\ log_mutex_ = None
  /\ log_mutex_' = t
  /\ LoggerGoto(t, "print")
  /\ UNCHANGED <<active, current_level_, opened, full, rot, logfiles>>

\* A plausible repair: checkRotation takes it that the mutex is locked.
WriteWithoutCheck(t) ==
  /\ At(t, "print")
  /\ log_mutex_' = None
  /\ LoggerGoto(t, "idle")
  /\ UNCHANGED <<active, current_level_, opened, full, rot, logfiles>>

\* The console, then writeToFile, which begins with checkRotation: with the mutex
\* still locked.
Write(t) ==
  /\ At(t, "print")
  /\ log_mutex_' = IF opened THEN log_mutex_ ELSE None
  /\ LoggerGoto(t, IF opened THEN "check" ELSE "idle")
  /\ UNCHANGED <<active, current_level_, opened, full, rot, logfiles>>

\* rotateLogFile first closes the file and removes the oldest one.
CheckRotation(t) ==
  /\ At(t, "check") /\ log_mutex_ = None
  /\ IF full
     THEN /\ log_mutex_' = t
          /\ opened' = FALSE
          /\ rotated' = [rotated EXCEPT ![MaxFiles - 1] = 0]
          /\ rot' = MaxFiles - 2
          /\ LoggerGoto(t, "shift")
     ELSE /\ LoggerGoto(t, "idle")
          /\ UNCHANGED <<log_mutex_, opened, rotated, rot>>
  /\ UNCHANGED <<active, current_level_, full, log_file_, newest>>

\* rename, if the file exists; it replaces what has the new name.
Shift ==
  rotated' = IF rotated[rot] = 0 THEN rotated
                                 ELSE [rotated EXCEPT ![rot + 1] = rotated[rot], ![rot] = 0]

\* A plausible slip: the log is renamed before the rotated files make room.
RotateLogFirst(t) ==
  /\ At(t, "shift")
  /\ IF log_file_ # 0
     THEN /\ rotated' = [rotated EXCEPT ![0] = log_file_]
          /\ log_file_' = 0
          /\ UNCHANGED <<rot, lpc>>
     ELSE /\ IF rot >= 0 THEN Shift /\ rot' = rot - 1 /\ UNCHANGED lpc
                         ELSE LoggerGoto(t, "reopen") /\ UNCHANGED <<rot, rotated>>
          /\ UNCHANGED log_file_
  /\ UNCHANGED <<active, current_level_, log_mutex_, opened, full, newest>>

RotateLogFile(t) ==
  /\ At(t, "shift")
  /\ IF rot >= 0
     THEN Shift /\ rot' = rot - 1 /\ UNCHANGED <<lpc, log_file_>>
     ELSE /\ LoggerGoto(t, "reopen")
          /\ IF log_file_ = 0 THEN UNCHANGED rotated ELSE rotated' = [rotated EXCEPT ![0] = log_file_]
          /\ log_file_' = 0
          /\ UNCHANGED rot
  /\ UNCHANGED <<active, current_level_, log_mutex_, opened, full, newest>>

\* The new file, which may fail to open, and info(), with the mutex still locked.
ReopenLogFile(t) ==
  /\ At(t, "reopen")
  /\ \/ opened' = TRUE /\ newest' = newest + 1 /\ log_file_' = newest + 1
     \/ opened' = FALSE /\ UNCHANGED <<newest, log_file_>>
  /\ full' = FALSE
  /\ log_mutex_' = IF INFO < current_level_ THEN None ELSE log_mutex_
  /\ LoggerGoto(t, IF INFO < current_level_ THEN "idle" ELSE "lock")
  /\ UNCHANGED <<active, current_level_, rot, rotated>>

\* remove or rename throws: the lock_guard unlocks, the file stays closed, and the
\* caller, monitorLoop, logs an error.
RotationThrows(t) ==
  /\ At(t, "shift")
  /\ log_mutex_' = None
  /\ LoggerGoto(t, IF ERROR < current_level_ THEN "idle" ELSE "lock")
  /\ UNCHANGED <<active, current_level_, opened, full, rot, logfiles>>

\* A thread that waits for a mutex which it, or the thread it interrupts, holds.
Stuck ==
  /\ log_mutex_ # None
  /\ lpc[log_mutex_] \in {"lock", "check"} \/ log_mutex_ \notin active
===============================================================================
