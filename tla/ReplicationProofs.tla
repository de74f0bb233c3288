-------------------------- MODULE ReplicationProofs ---------------------------
(***************************************************************************)
(* Proofs about ReplicationManager, for all sets of addresses and callers  *)
(* and all limits: its types, that threads do not wait in a circle,        *)
(* that replication_offset_ counts the commands, that no connected slave   *)
(* is ahead of its master and that no slave comes online.                  *)
(*                                                                         *)
(* All rest on one inductive invariant, Inv.  Its core is which thread     *)
(* holds which mutex where (HolderInv) and that every queued entry is      *)
(* older than replication_offset_ (QueueInv): this is what keeps           *)
(* processReplicationQueue from asking for its second mutex.               *)
(***************************************************************************)
EXTENDS ReplicationManager, FiniteSetTheorems, TLAPS

\* ReplicationTypeOK, part by part.
ControlOK ==
  /\ role_ \in Roles /\ state_ \in States
  /\ {running_, serving, torn, crashed} \subseteq BOOLEAN
  /\ starts \in 0 .. MaxStarts

SlavesOK == slaves_ \in [Ids -> SlaveInfo \cup {None}]

QueueOK ==
  /\ replication_log_ \in Seq(0 .. MaxCommands) /\ Len(replication_log_) <= MaxLog
  /\ replication_offset_ \in 0 .. MaxCommands /\ current_offset \in 0 .. MaxCommands

MutexOK ==
  {slaves_mutex_, replication_log_mutex_, stats_mutex_} \subseteq Threads \cup {None}

PcOK ==
  /\ pc = [t \in Threads |-> pc[t]]
  /\ pc["main"] \in {"init", "idle", "serve", "spawn", "state", "server", "join", "joinP"}
  /\ pc["master"] \in {"none", "test", "count", "queue", "pop", "send", "stats", "stats2",
                       "health", "cleanup", "exit"}
  /\ pc["ping"] \in {"none", "cleanup", "ping", "sleep", "exit"}
  /\ pc["slave"] \in {"none", "test", "dial", "ask", "heartbeat", "pause", "exit"}
  /\ \A c \in Callers : pc[c] \in {"idle", "send", "total"}
  /\ \A a \in Addrs : pc[a] \in {"idle", "connect", "sync"}

\* A mutex is held exactly where the code between its steps holds it.
HolderInv ==
  \A t \in Threads :
    /\ slaves_mutex_ = t <=> pc[t] \in {"stats2", "sleep", "sync"}
    /\ replication_log_mutex_ = t <=> pc[t] = "pop"
    /\ stats_mutex_ = t <=> pc[t] = "count"

\* Every entry is older than the offset, also than the one that the queue's run has read:
\* none is sent a second time.
QueueInv ==
  /\ \A i \in 1 .. Len(replication_log_) : replication_log_[i] < replication_offset_
  /\ pc["master"] = "pop" => current_offset = replication_offset_
  /\ pc["master"] # "send"

\* Commands that are logged and not yet counted.
InFlight == {c \in Callers : pc[c] \in {"send", "total"}}

CountInv ==
  /\ IsFiniteSet(InFlight)
  /\ total \in Nat
  /\ replication_offset_ = total + Cardinality(InFlight)

\* The slave whom a handler brings up to date is listed.
SyncInv == \A a \in Addrs : pc[a] = "sync" => slaves_[<<"connected", a>>] \in SlaveInfo

\* Where main is when the threads it spawns do not run; before init nothing is online.
ThreadsInv ==
  /\ pc["main"] \in {"init", "serve", "spawn"} \/ (pc["main"] = "idle" /\ ~running_) =>
       pc["master"] = "none" /\ pc["ping"] = "none" /\ pc["slave"] = "none"
  /\ pc["main"] \in {"serve", "spawn", "state"} => running_
  /\ pc["main"] = "joinP" => pc["master"] = "none" /\ pc["slave"] = "none"
  /\ pc["main"] = "init" => state_ = "DISCONNECTED"

Inv ==
  /\ ControlOK /\ SlavesOK /\ QueueOK /\ MutexOK /\ PcOK
  /\ HolderInv /\ QueueInv /\ CountInv /\ SyncInv /\ ThreadsInv
  /\ SlaveNotAhead /\ SlaveNeverOnline

\* The invariant holds initially.
LEMMA InitInv == Init => Inv
<1> SUFFICES ASSUME Init PROVE Inv
  OBVIOUS
<1> USE ReplicationAssumption DEF ReplicationAssumption, Init
<1>1. ControlOK
  <2>1. {running_, serving, torn, crashed} \subseteq BOOLEAN
    BY Zenon
  <2>2. QED
    BY <2>1 DEF ControlOK, Roles, States
<1>2. SlavesOK /\ QueueOK /\ MutexOK
  BY DEF SlavesOK, QueueOK, MutexOK
<1>3. PcOK
  <2>1. \A t \in Callers \cup Addrs : t \notin {"main", "master", "ping", "slave"}
    OBVIOUS
  <2>2. /\ pc["main"] = "init" /\ pc["master"] = "none" /\ pc["ping"] = "none"
        /\ pc["slave"] = "none" /\ \A t \in Callers \cup Addrs : pc[t] = "idle"
    BY <2>1 DEF Threads
  <2>3. pc = [t \in Threads |-> pc[t]]
    OBVIOUS
  <2>4. QED
    BY <2>2, <2>3 DEF PcOK
<1>4. HolderInv
  BY <1>3 DEF HolderInv, PcOK, Threads
<1>5. CountInv
  <2>1. InFlight = {}
    BY DEF InFlight, Threads
  <2>2. QED
    BY <2>1, FS_EmptySet DEF CountInv
<1>6. QueueInv /\ SyncInv /\ ThreadsInv
  BY <1>3 DEF QueueInv, SyncInv, ThreadsInv, PcOK, Threads
<1>7. SlaveNotAhead /\ SlaveNeverOnline
  BY DEF SlaveNotAhead, SlaveNeverOnline, Listed
<1>8. QED
  BY <1>1, <1>2, <1>3, <1>4, <1>5, <1>6, <1>7 DEF Inv

(***************************************************************************)
(* Frames: a part of the invariant speaks of few variables.                *)
(***************************************************************************)
\* Without a change of the callers' places, of total and of the offset, the count stays.
LEMMA CountFrame ==
  ASSUME CountInv, UNCHANGED <<total, replication_offset_>>,
         \A c \in Callers : pc'[c] = pc[c]
  PROVE  CountInv'
<1>1. InFlight' = InFlight
  BY DEF InFlight
<1>2. QED
  BY <1>1 DEF CountInv

\* Nor do the holders change with steps from and to places without a mutex.
LEMMA HolderFrame ==
  ASSUME HolderInv, MutexOK, UNCHANGED mutexes,
         \A t \in Threads : \/ pc'[t] = pc[t]
                           \/ {pc[t], pc'[t]} \cap {"stats2", "sleep", "sync", "pop", "count"} = {}
  PROVE  HolderInv' /\ MutexOK'
<1>1. UNCHANGED <<slaves_mutex_, replication_log_mutex_, stats_mutex_>>
  BY DEF mutexes
<1>2. ASSUME NEW t \in Threads
      PROVE  /\ pc'[t] \in {"stats2", "sleep", "sync"} <=> pc[t] \in {"stats2", "sleep", "sync"}
             /\ pc'[t] = "pop" <=> pc[t] = "pop"
             /\ pc'[t] = "count" <=> pc[t] = "count"
  OBVIOUS
<1>3. QED
  BY <1>1, <1>2 DEF HolderInv, MutexOK

\* What is said of the slaves stays when they and the offset do.
LEMMA SlavesFrame ==
  ASSUME SlavesOK, SlaveNotAhead, slaves_' = slaves_, replication_offset_' = replication_offset_
  PROVE  SlavesOK' /\ SlaveNotAhead'
BY DEF SlavesOK, SlaveNotAhead, Listed

\* What is said of the queue stays when it does and the master thread is not in its run.
LEMMA QueueFrame ==
  ASSUME QueueOK, QueueInv, UNCHANGED queue, pc'["master"] \notin {"pop", "send"}
  PROVE  QueueOK' /\ QueueInv'
BY DEF QueueOK, QueueInv, queue

(***************************************************************************)
(* init, startReplication and stopReplication touch neither the slaves,    *)
(* nor the queue, nor a mutex.                                             *)
(***************************************************************************)
LEMMA MainKeeps ==
  ASSUME Inv,
         \/ \E r \in {"MASTER", "SLAVE"} : InitRole(r)
         \/ StartReplication \/ StartStep \/ StopReplication \/ StopStep
  PROVE  Inv'
<1> USE ReplicationAssumption DEF ReplicationAssumption, Inv
<1>1. UNCHANGED <<slaves_, queue, total, mutexes, torn, crashed>>
  BY DEF InitRole, StartReplication, StartStep, ServerStarts, ServerFails, SpawnThreads,
       StartEnds, StopReplication, StopStep, StopServer, JoinLoop, JoinPing, control
<1>2. UNCHANGED <<total, replication_offset_>>
  BY <1>1 DEF queue
<1>3. ControlOK'
  <2>1. role_' \in Roles /\ state_' \in States /\ starts' \in 0 .. MaxStarts
    BY DEF ControlOK, Roles, States, InitRole, StartReplication, StartStep, ServerStarts,
         ServerFails, SpawnThreads, StartEnds, StopReplication, StopStep, StopServer, JoinLoop,
         JoinPing, control
  <2>2. {running_', serving', torn', crashed'} \subseteq BOOLEAN
    BY <1>1 DEF ControlOK, InitRole, StartReplication, StartStep, ServerStarts,
         ServerFails, SpawnThreads, StartEnds, StopReplication, StopStep, StopServer, JoinLoop,
         JoinPing, control
  <2>3. QED
    BY <2>1, <2>2 DEF ControlOK
<1>4. PcOK' /\ ThreadsInv' /\ \A t \in Callers \cup Addrs : pc'[t] = pc[t]
  <2> USE DEF PcOK, ThreadsInv, Threads, At, Goto
  <2>1. CASE \E r \in {"MASTER", "SLAVE"} : InitRole(r)
    BY <2>1 DEF InitRole
  <2>2. CASE StartReplication
    BY <2>2 DEF StartReplication
  <2>3. CASE ServerStarts \/ ServerFails
    BY <2>3 DEF ServerStarts, ServerFails, control
  <2>4. CASE SpawnThreads
    BY <2>4 DEF SpawnThreads, control
  <2>5. CASE StartEnds
    BY <2>5 DEF StartEnds
  <2>6. CASE StopReplication
    BY <2>6 DEF StopReplication
  <2>7. CASE StopServer
    BY <2>7 DEF StopServer
  <2>8. CASE JoinLoop
    BY <2>8 DEF JoinLoop, control
  <2>9. CASE JoinPing
    BY <2>9 DEF JoinPing
  <2>10. QED
    BY <2>1, <2>2, <2>3, <2>4, <2>5, <2>6, <2>7, <2>8, <2>9 DEF StartStep, StopStep
<1>5. \A t \in {"main", "master", "ping", "slave"} :
        pc'[t] = pc[t] \/ {pc[t], pc'[t]} \cap {"stats2", "sleep", "sync", "pop", "count", "send"} = {}
  BY DEF ThreadsInv, PcOK, Threads, At, Goto, InitRole, StartReplication, StartStep,
       ServerStarts, ServerFails, SpawnThreads, StartEnds, StopReplication, StopStep,
       StopServer, JoinLoop, JoinPing
<1>6. HolderInv' /\ MutexOK'
  BY <1>1, <1>4, <1>5, HolderFrame DEF Threads
<1>7. QueueOK' /\ QueueInv'
  BY <1>1, <1>5 DEF QueueOK, QueueInv, queue
<1>8. SlavesOK' /\ SlaveNotAhead' /\ CountInv'
  BY <1>1, <1>2, <1>4, SlavesFrame, CountFrame
<1>9. SyncInv'
  BY <1>1, <1>4 DEF SyncInv
<1>10. SlaveNeverOnline'
  BY DEF SlaveNeverOnline, ThreadsInv, PcOK, Threads, At, Goto, InitRole, StartReplication,
       StartStep, ServerStarts, ServerFails, SpawnThreads, StartEnds, StopReplication, StopStep,
       StopServer, JoinLoop, JoinPing, control
<1>11. QED
  BY <1>3, <1>4, <1>6, <1>7, <1>8, <1>9, <1>10

(***************************************************************************)
(* addSlave and removeSlave, and the passing of time.                      *)
(***************************************************************************)
\* torn stays a truth value.
LEMMA ChangesTorn ==
  ASSUME torn \in BOOLEAN, NEW new, Changes(new)
  PROVE  torn' \in BOOLEAN
<1>1. torn' = (torn \/ (pc["master"] = "count" /\ \E s \in Ids : (new[s] = None) # (slaves_[s] = None)))
  BY DEF Changes
<1>2. QED
  BY <1>1, Zenon

\* A step that changes the slaves, and torn, only.
LEMMA SlavesKept ==
  ASSUME Inv, UNCHANGED <<control, queue, total, mutexes, pc, crashed>>,
         torn' \in BOOLEAN, SlavesOK', SlaveNotAhead',
         \A a \in Addrs : slaves_mutex_ = a => slaves_'[<<"connected", a>>] \in SlaveInfo
  PROVE  Inv'
<1> USE DEF Inv
<1>1. ControlOK'
  BY DEF ControlOK, control
<1>2. QueueOK' /\ QueueInv' /\ MutexOK' /\ PcOK' /\ HolderInv' /\ ThreadsInv'
  BY DEF QueueOK, QueueInv, MutexOK, PcOK, HolderInv, ThreadsInv, queue, mutexes, control
<1>3. CountInv'
  BY CountFrame DEF queue
<1>4. SyncInv'
  BY DEF SyncInv, HolderInv, Threads
<1>5. SlaveNeverOnline'
  BY DEF SlaveNeverOnline, control
<1>6. QED
  BY <1>1, <1>2, <1>3, <1>4, <1>5

\* What Tick, checkSlaveHealth and pingSlaves do to each slave leaves its offset alone.
LEMMA OffsetsKept ==
  ASSUME SlavesOK, SlaveNotAhead, replication_offset_' = replication_offset_,
         slaves_' = [s \in Ids |-> slaves_'[s]],
         \A s \in Ids : slaves_[s] = None => slaves_'[s] = None,
         \A s \in Ids : slaves_[s] # None =>
           slaves_'[s] \in SlaveInfo /\ slaves_'[s].replication_offset = slaves_[s].replication_offset
  PROVE  /\ SlavesOK' /\ SlaveNotAhead'
         /\ \A s \in Ids : slaves_[s] \in SlaveInfo => slaves_'[s] \in SlaveInfo
<1>1. \A s \in Ids : slaves_'[s] \in SlaveInfo \cup {None}
  OBVIOUS
<1>2. SlavesOK'
  BY <1>1 DEF SlavesOK
<1>3. SlaveNotAhead'
  BY DEF SlaveNotAhead, Listed
<1>4. QED
  BY <1>2, <1>3

\* The steps that only change the list of slaves.
LEMMA ListKeeps ==
  ASSUME Inv,
         \/ \E a \in Addrs : AddSlave(a)
         \/ \E s \in Ids : RemoveSlave(s)
         \/ \E a \in Addrs : UpdateSlavePing(a)
         \/ \E a \in Addrs, n \in {MaxCommands} : UpdateSlaveOffset(a, n)
         \/ Tick
  PROVE  Inv'
<1> USE ReplicationAssumption DEF ReplicationAssumption, Inv
<1>1. UNCHANGED <<control, queue, total, mutexes, pc, crashed>>
  BY DEF AddSlave, RemoveSlave, UpdateSlavePing, UpdateSlaveOffset, Tick
<1>2. replication_offset_' = replication_offset_ /\ replication_offset_ \in 0 .. MaxCommands
  BY <1>1 DEF queue, QueueOK
<1>3. torn \in BOOLEAN
  BY DEF ControlOK
<1>4. CASE \E a \in Addrs : AddSlave(a)
  <2>1. PICK a \in Addrs : AddSlave(a)
    BY <1>4
  <2>2. slaves_' = [slaves_ EXCEPT ![<<"added", a>>] = NewSlave] /\ slaves_mutex_ = None
    BY <2>1 DEF AddSlave, Changes, Free
  <2>3. NewSlave \in SlaveInfo
    BY DEF NewSlave, SlaveInfo
  <2>4. SlavesOK' /\ SlaveNotAhead'
    BY <1>2, <2>2, <2>3 DEF SlavesOK, SlaveNotAhead, Listed, Ids
  <2>5. torn' \in BOOLEAN
    BY <1>3, <2>1, ChangesTorn DEF AddSlave
  <2>6. QED
    BY <1>1, <2>2, <2>4, <2>5, SlavesKept
<1>5. CASE \E s \in Ids : RemoveSlave(s)
  <2>1. PICK s \in Ids : RemoveSlave(s)
    BY <1>5
  <2>2. slaves_' = [slaves_ EXCEPT ![s] = None] /\ slaves_mutex_ = None
    BY <2>1 DEF RemoveSlave, Changes, Free
  <2>3. SlavesOK' /\ SlaveNotAhead'
    BY <1>2, <2>2 DEF SlavesOK, SlaveNotAhead, Listed
  <2>4. torn' \in BOOLEAN
    BY <1>3, <2>1, ChangesTorn DEF RemoveSlave
  <2>5. QED
    BY <1>1, <2>2, <2>3, <2>4, SlavesKept
<1>6. CASE \E a \in Addrs : UpdateSlavePing(a)
  <2>1. PICK a \in Addrs : UpdateSlavePing(a)
    BY <1>6
  <2>2. slaves_mutex_ = None /\ torn' = torn
    BY <2>1 DEF UpdateSlavePing, Free
  <2>3. slaves_[<<"added", a>>] \in SlaveInfo /\ <<"added", a>> \in Ids
    BY <2>1 DEF UpdateSlavePing, Listed, SlavesOK
  <2>4. \A s \in Ids : s # <<"added", a>> => slaves_'[s] = slaves_[s]
    BY <2>1 DEF UpdateSlavePing, SlavesOK
  <2>5. SlavesOK'
    BY <2>1, <2>3 DEF UpdateSlavePing, SlavesOK, SlaveInfo
  <2>6. SlaveNotAhead'
    BY <1>2, <2>4 DEF SlaveNotAhead, Listed
  <2>7. QED
    BY <1>1, <1>3, <2>2, <2>5, <2>6, SlavesKept
<1>7. CASE \E a \in Addrs, n \in {MaxCommands} : UpdateSlaveOffset(a, n)
  <2>1. PICK a \in Addrs : UpdateSlaveOffset(a, MaxCommands)
    BY <1>7
  <2>2. slaves_mutex_ = None /\ torn' = torn
    BY <2>1 DEF UpdateSlaveOffset, Free
  <2>3. slaves_[<<"added", a>>] \in SlaveInfo /\ <<"added", a>> \in Ids
    BY <2>1 DEF UpdateSlaveOffset, Listed, SlavesOK
  <2>4. \A s \in Ids : s # <<"added", a>> => slaves_'[s] = slaves_[s]
    BY <2>1 DEF UpdateSlaveOffset, SlavesOK
  <2>5. SlavesOK'
    BY <2>1, <2>3 DEF UpdateSlaveOffset, SlavesOK, SlaveInfo
  <2>6. SlaveNotAhead'
    BY <1>2, <2>4 DEF SlaveNotAhead, Listed
  <2>7. QED
    BY <1>1, <1>3, <2>2, <2>5, <2>6, SlavesKept
<1>8. CASE Tick
  <2>1. torn' = torn
    BY <1>8 DEF Tick
  <2>2. slaves_' = [s \in Ids |-> IF slaves_[s] = None THEN None
          ELSE [slaves_[s] EXCEPT !.last_ping = IF @ < 2 THEN @ + 1 ELSE 2]]
    BY <1>8 DEF Tick, Each
  <2>3. ASSUME NEW s \in Ids, slaves_[s] # None
        PROVE  slaves_'[s] \in SlaveInfo /\ slaves_'[s].replication_offset = slaves_[s].replication_offset
    BY <2>2, <2>3 DEF SlavesOK, SlaveInfo
  <2>4. SlavesOK' /\ SlaveNotAhead' /\ \A s \in Ids : slaves_[s] \in SlaveInfo => slaves_'[s] \in SlaveInfo
    BY <1>2, <2>2, <2>3, OffsetsKept
  <2>5. \A a \in Addrs : slaves_mutex_ = a => slaves_'[<<"connected", a>>] \in SlaveInfo
    BY <2>4 DEF SyncInv, HolderInv, PcOK, Threads, Ids
  <2>6. QED
    BY <1>1, <1>3, <2>1, <2>4, <2>5, SlavesKept
<1>9. QED
  BY <1>4, <1>5, <1>6, <1>7, <1>8

(***************************************************************************)
(* replicateCommand.                                                       *)
(***************************************************************************)
\* Steps of a thread that leave the slaves and main's variables alone.
LEMMA ControlFrame ==
  ASSUME ControlOK, ThreadsInv, SlaveNeverOnline, UNCHANGED <<control, torn, crashed>>,
         UNCHANGED <<pc["main"], pc["ping"], pc["slave"]>>,
         pc["master"] = "none" => pc'["master"] = "none"
  PROVE  ControlOK' /\ ThreadsInv' /\ SlaveNeverOnline'
BY DEF ControlOK, ThreadsInv, SlaveNeverOnline, control

\* What is left of a sequence without its first element.
LEMMA TailFacts ==
  ASSUME NEW S, NEW q \in Seq(S), Len(q) > 0
  PROVE  /\ Tail(q) \in Seq(S) /\ Len(Tail(q)) = Len(q) - 1
         /\ \A i \in 1 .. Len(Tail(q)) : Tail(q)[i] = q[i + 1]
<1>1. q # <<>> /\ Len(q) \in Nat
  OBVIOUS
<1>2. QED
  BY <1>1

\* logReplicationEntry: the new entry has the old offset, and one more command is under way.
LEMMA LogKeeps ==
  ASSUME Inv, NEW c \in Callers, LogReplicationEntry(c)
  PROVE  Inv'
<1> USE ReplicationAssumption DEF ReplicationAssumption, Inv
<1>1. /\ UNCHANGED <<control, slaves_, current_offset, total, mutexes, torn, crashed>>
      /\ pc' = [pc EXCEPT ![c] = "send"] /\ pc[c] = "idle"
      /\ replication_log_mutex_ = None /\ replication_offset_ < MaxCommands
      /\ replication_log_' = Limited(Append(replication_log_, replication_offset_))
      /\ replication_offset_' = replication_offset_ + 1
  BY DEF LogReplicationEntry, At, Goto, Free
<1>2. PcOK' /\ \A t \in Threads \ {c} : pc'[t] = pc[t]
  BY <1>1 DEF PcOK, Threads
<1>3. ControlOK' /\ ThreadsInv' /\ SlaveNeverOnline'
  BY <1>1, <1>2, ControlFrame DEF Threads
<1>4. HolderInv' /\ MutexOK'
  BY <1>1, <1>2, HolderFrame DEF PcOK, Threads
<1>5. pc["master"] # "pop" /\ pc'["master"] = pc["master"]
  BY <1>1, <1>2 DEF HolderInv, Threads
<1>6. DEFINE log == Append(replication_log_, replication_offset_)
<1>7. /\ log \in Seq(0 .. MaxCommands) /\ Len(log) = Len(replication_log_) + 1
      /\ \A i \in 1 .. Len(log) : log[i] < replication_offset_ + 1
  BY DEF QueueOK, QueueInv
<1>8. QueueOK' /\ QueueInv'
  <2>1. CASE Len(log) > MaxLog
    <3>1. replication_log_' = Tail(log)
      BY <1>1, <2>1 DEF Limited
    <3>2. /\ Tail(log) \in Seq(0 .. MaxCommands) /\ Len(Tail(log)) = Len(log) - 1
          /\ \A i \in 1 .. Len(Tail(log)) : Tail(log)[i] = log[i + 1]
      <4> HIDE DEF log
      <4>1. Len(log) > 0
        BY <1>7 DEF QueueOK
      <4>2. QED
        BY <1>7, <4>1, TailFacts
    <3>3. QED
      BY <1>1, <1>5, <1>7, <3>1, <3>2 DEF QueueOK, QueueInv
  <2>2. CASE ~(Len(log) > MaxLog)
    <3>1. replication_log_' = log
      BY <1>1, <2>2 DEF Limited
    <3>2. QED
      BY <1>1, <1>5, <1>7, <2>2, <3>1 DEF QueueOK, QueueInv
  <2>3. QED
    BY <2>1, <2>2
<1>9. CountInv'
  <2>1. InFlight' = InFlight \cup {c} /\ c \notin InFlight
    BY <1>1 DEF InFlight, PcOK, Threads
  <2>2. IsFiniteSet(InFlight') /\ Cardinality(InFlight') = Cardinality(InFlight) + 1
    BY <2>1, FS_AddElement DEF CountInv
  <2>3. Cardinality(InFlight) \in Nat
    BY FS_CardinalityType DEF CountInv
  <2>4. QED
    BY <1>1, <2>2, <2>3 DEF CountInv
<1>10. SlavesOK' /\ SyncInv'
  BY <1>1, <1>2 DEF SlavesOK, SyncInv, Threads
<1>11. SlaveNotAhead'
  <2>1. ASSUME NEW s \in Listed', s[1] = "connected"
        PROVE  slaves_'[s].replication_offset <= replication_offset_'
    <3>1. s \in Listed /\ slaves_'[s] = slaves_[s] /\ slaves_[s] \in SlaveInfo
      BY <1>1 DEF Listed, SlavesOK
    <3>2. slaves_[s].replication_offset <= replication_offset_
      BY <2>1, <3>1 DEF SlaveNotAhead
    <3>3. slaves_[s].replication_offset \in Nat /\ replication_offset_ \in Nat
      BY <3>1 DEF SlaveInfo, QueueOK
    <3>4. QED
      BY <1>1, <3>1, <3>2, <3>3
  <2>2. QED
    BY <2>1 DEF SlaveNotAhead
<1>12. QED
  BY <1>2, <1>3, <1>4, <1>8, <1>9, <1>10, <1>11

\* replicateToSlaves: only callers get there, never the master thread.
LEMMA SendKeeps ==
  ASSUME Inv, NEW t \in Callers \cup {"master"}, ReplicateToSlaves(t)
  PROVE  Inv'
<1> USE ReplicationAssumption DEF ReplicationAssumption, Inv
<1>1. t # "master" /\ t \in Callers
  BY DEF ReplicateToSlaves, At, QueueInv
<1>2. /\ UNCHANGED <<control, slaves_, queue, total, mutexes, torn, crashed>>
      /\ pc' = [pc EXCEPT ![t] = "total"] /\ pc[t] = "send"
  BY <1>1 DEF ReplicateToSlaves, At, Goto, queue
<1>3. PcOK' /\ \A u \in Threads \ {t} : pc'[u] = pc[u]
  BY <1>1, <1>2 DEF PcOK, Threads
<1>4. ControlOK' /\ ThreadsInv' /\ SlaveNeverOnline'
  BY <1>1, <1>2, <1>3, ControlFrame DEF Threads
<1>5. HolderInv' /\ MutexOK'
  BY <1>1, <1>2, <1>3, HolderFrame DEF PcOK, Threads
<1>6. QueueOK' /\ QueueInv'
  BY <1>1, <1>2, <1>3 DEF QueueOK, QueueInv, queue, Threads
<1>7. CountInv'
  <2>1. InFlight' = InFlight
    BY <1>1, <1>2, <1>3 DEF InFlight, PcOK, Threads
  <2>2. QED
    BY <1>2, <2>1 DEF CountInv, queue
<1>8. SlavesOK' /\ SlaveNotAhead' /\ SyncInv'
  BY <1>1, <1>2, <1>3, SlavesFrame DEF SyncInv, Threads, queue
<1>9. QED
  BY <1>3, <1>4, <1>5, <1>6, <1>7, <1>8

\* The end of replicateCommand: a command under way is counted.
LEMMA CountKeeps ==
  ASSUME Inv, NEW c \in Callers, CountCommand(c)
  PROVE  Inv'
<1> USE ReplicationAssumption DEF ReplicationAssumption, Inv
<1>1. /\ UNCHANGED <<control, slaves_, queue, mutexes, torn, crashed>>
      /\ pc' = [pc EXCEPT ![c] = "idle"] /\ pc[c] = "total" /\ total' = total + 1
  BY DEF CountCommand, At, Goto
<1>2. PcOK' /\ \A u \in Threads \ {c} : pc'[u] = pc[u]
  BY <1>1 DEF PcOK, Threads
<1>3. ControlOK' /\ ThreadsInv' /\ SlaveNeverOnline'
  BY <1>1, <1>2, ControlFrame DEF Threads
<1>4. HolderInv' /\ MutexOK'
  BY <1>1, <1>2, HolderFrame DEF PcOK, Threads
<1>5. QueueOK' /\ QueueInv'
  BY <1>1, <1>2 DEF QueueOK, QueueInv, queue, Threads
<1>6. CountInv'
  <2>1. InFlight' = InFlight \ {c} /\ c \in InFlight
    BY <1>1, <1>2 DEF InFlight, PcOK, Threads
  <2>2. IsFiniteSet(InFlight') /\ Cardinality(InFlight') = Cardinality(InFlight) - 1
    BY <2>1, FS_RemoveElement DEF CountInv
  <2>3. Cardinality(InFlight) \in Nat
    BY FS_CardinalityType DEF CountInv
  <2>4. QED
    BY <1>1, <2>2, <2>3 DEF CountInv, queue
<1>7. SlavesOK' /\ SlaveNotAhead' /\ SyncInv'
  BY <1>1, <1>2, SlavesFrame DEF SyncInv, Threads, queue
<1>8. QED
  BY <1>2, <1>3, <1>4, <1>5, <1>6, <1>7

(***************************************************************************)
(* masterLoop.                                                             *)
(***************************************************************************)
\* A step of the master thread that leaves the callers alone, from a place where it runs.
LEMMA MasterFrame ==
  ASSUME Inv, NEW l, pc' = [pc EXCEPT !["master"] = l], pc["master"] # "none",
         l \in {"test", "count", "queue", "pop", "stats", "stats2", "health", "cleanup", "exit"},
         UNCHANGED <<control, total, replication_offset_>>, torn' \in BOOLEAN, crashed' \in BOOLEAN
  PROVE  /\ ControlOK' /\ PcOK' /\ ThreadsInv' /\ CountInv' /\ SlaveNeverOnline'
         /\ \A t \in Threads \ {"master"} : pc'[t] = pc[t]
         /\ pc'["master"] = l
<1> USE ReplicationAssumption DEF ReplicationAssumption, Inv
<1>1. PcOK' /\ pc'["master"] = l /\ \A t \in Threads \ {"master"} : pc'[t] = pc[t]
  BY DEF PcOK, Threads
<1>2. ControlOK'
  BY DEF ControlOK, control
<1>3. ThreadsInv' /\ SlaveNeverOnline'
  BY <1>1 DEF ThreadsInv, SlaveNeverOnline, control, Threads
<1>4. CountInv'
  BY <1>1, CountFrame DEF Threads
<1>5. QED
  BY <1>1, <1>2, <1>3, <1>4

\* The test of running_ and handleNewSlaveConnections, under stats_mutex_.
LEMMA CountingKeeps ==
  ASSUME Inv, MasterTest \/ HandleNewSlaveConnections
  PROVE  Inv'
<1> USE ReplicationAssumption DEF ReplicationAssumption, Inv
<1>1. CASE MasterTest
  <2>1. PICK l \in {"count", "exit"} :
          /\ pc' = [pc EXCEPT !["master"] = l] /\ pc["master"] = "test"
          /\ l = "count" => stats_mutex_ = None /\ stats_mutex_' = "master"
          /\ l = "exit" => stats_mutex_' = stats_mutex_
    BY <1>1 DEF MasterTest, At, Goto, Free
  <2>2. UNCHANGED <<control, slaves_, queue, total, slaves_mutex_, replication_log_mutex_, crashed>>
        /\ torn' = FALSE
    BY <1>1 DEF MasterTest
  <2>3. /\ ControlOK' /\ PcOK' /\ ThreadsInv' /\ CountInv' /\ SlaveNeverOnline'
        /\ \A t \in Threads \ {"master"} : pc'[t] = pc[t]
        /\ pc'["master"] = l
    BY <2>1, <2>2, MasterFrame DEF queue, ControlOK
  <2>4. HolderInv' /\ MutexOK'
    BY <2>1, <2>2, <2>3 DEF HolderInv, MutexOK, Threads
  <2>5. QueueOK' /\ QueueInv'
    BY <2>1, <2>2, <2>3, QueueFrame
  <2>6. SlavesOK' /\ SlaveNotAhead' /\ SyncInv'
    BY <2>2, <2>3, SlavesFrame DEF SyncInv, Threads, queue
  <2>7. QED
    BY <2>3, <2>4, <2>5, <2>6
<1>2. CASE HandleNewSlaveConnections
  <2>1. /\ pc' = [pc EXCEPT !["master"] = "queue"] /\ pc["master"] = "count"
        /\ stats_mutex_' = None /\ torn' = FALSE /\ crashed' \in BOOLEAN
        /\ UNCHANGED <<control, slaves_, queue, total, slaves_mutex_, replication_log_mutex_>>
    BY <1>2 DEF HandleNewSlaveConnections, At, Goto
  <2>2. /\ ControlOK' /\ PcOK' /\ ThreadsInv' /\ CountInv' /\ SlaveNeverOnline'
        /\ \A t \in Threads \ {"master"} : pc'[t] = pc[t]
        /\ pc'["master"] = "queue"
    BY <2>1, MasterFrame DEF queue
  <2>3. HolderInv' /\ MutexOK'
    BY <2>1, <2>2 DEF HolderInv, MutexOK, Threads
  <2>4. QueueOK' /\ QueueInv'
    BY <2>1, <2>2, QueueFrame
  <2>5. SlavesOK' /\ SlaveNotAhead' /\ SyncInv'
    BY <2>1, <2>2, SlavesFrame DEF SyncInv, Threads, queue
  <2>6. QED
    BY <2>2, <2>3, <2>4, <2>5
<1>3. QED
  BY <1>1, <1>2

\* processReplicationQueue: with its mutex locked the offset stands still, and as every entry
\* is older, each is dropped.
LEMMA QueueKeeps ==
  ASSUME Inv, ProcessReplicationQueue \/ PopEntry \/ QueueEmptied
  PROVE  Inv'
<1> USE ReplicationAssumption DEF ReplicationAssumption, Inv
<1>1. torn \in BOOLEAN /\ crashed \in BOOLEAN
  BY DEF ControlOK
<1>2. CASE ProcessReplicationQueue
  <2>1. PICK l \in {"stats", "pop"} :
          /\ pc' = [pc EXCEPT !["master"] = l] /\ pc["master"] = "queue"
          /\ replication_log_mutex_ = None
          /\ l = "pop" => current_offset' = replication_offset_ /\ replication_log_mutex_' = "master"
          /\ l = "stats" => UNCHANGED <<current_offset, replication_log_mutex_>>
    BY <1>2 DEF ProcessReplicationQueue, At, Goto, Free
  <2>2. UNCHANGED <<control, slaves_, replication_log_, replication_offset_, total,
                    slaves_mutex_, stats_mutex_, torn, crashed>>
    BY <1>2 DEF ProcessReplicationQueue
  <2>3. /\ ControlOK' /\ PcOK' /\ ThreadsInv' /\ CountInv' /\ SlaveNeverOnline'
        /\ \A t \in Threads \ {"master"} : pc'[t] = pc[t]
        /\ pc'["master"] = l
    BY <1>1, <2>1, <2>2, MasterFrame
  <2>4. HolderInv' /\ MutexOK'
    BY <2>1, <2>2, <2>3 DEF HolderInv, MutexOK, Threads
  <2>5. QueueOK' /\ QueueInv'
    BY <2>1, <2>2, <2>3 DEF QueueOK, QueueInv
  <2>6. SlavesOK' /\ SlaveNotAhead' /\ SyncInv'
    BY <2>2, <2>3, SlavesFrame DEF SyncInv, Threads
  <2>7. QED
    BY <2>3, <2>4, <2>5, <2>6
<1>3. CASE PopEntry
  <2>1. /\ pc["master"] = "pop" /\ Len(replication_log_) > 0
        /\ current_offset = replication_offset_
    BY <1>3 DEF PopEntry, At, QueueInv, QueueOK
  <2>2. ~(Head(replication_log_) > current_offset)
    <3>1. Head(replication_log_) = replication_log_[1] /\ replication_log_[1] < replication_offset_
      BY <2>1 DEF QueueInv, QueueOK
    <3>2. replication_log_[1] \in Nat /\ current_offset \in Nat
      BY <2>1 DEF QueueOK
    <3>3. QED
      BY <2>1, <3>1, <3>2
  <2>3. /\ replication_log_' = Tail(replication_log_)
        /\ UNCHANGED <<control, slaves_, replication_offset_, current_offset, total, mutexes,
                       pc, torn, crashed>>
    BY <1>3, <2>2 DEF PopEntry
  <2>4. QueueOK' /\ QueueInv'
    <3>1. /\ Tail(replication_log_) \in Seq(0 .. MaxCommands)
          /\ Len(Tail(replication_log_)) = Len(replication_log_) - 1
          /\ \A i \in 1 .. Len(Tail(replication_log_)) : Tail(replication_log_)[i] = replication_log_[i + 1]
      BY <2>1, TailFacts DEF QueueOK
    <3>2. QED
      BY <2>3, <3>1 DEF QueueOK, QueueInv
  <2>5. CountInv' /\ SlavesOK' /\ SlaveNotAhead'
    BY <2>3, CountFrame, SlavesFrame
  <2>6. QED
    BY <2>3, <2>4, <2>5 DEF ControlOK, MutexOK, PcOK, HolderInv, ThreadsInv, SyncInv,
         SlaveNeverOnline, control, mutexes
<1>4. CASE QueueEmptied
  <2>1. /\ pc' = [pc EXCEPT !["master"] = "stats"] /\ pc["master"] = "pop"
        /\ replication_offset_' = replication_offset_ /\ current_offset' = 0
        /\ replication_log_mutex_' = None
        /\ UNCHANGED <<control, slaves_, replication_log_, total, slaves_mutex_, stats_mutex_,
                       torn, crashed>>
    BY <1>4 DEF QueueEmptied, At, Goto, QueueInv
  <2>2. /\ ControlOK' /\ PcOK' /\ ThreadsInv' /\ CountInv' /\ SlaveNeverOnline'
        /\ \A t \in Threads \ {"master"} : pc'[t] = pc[t]
        /\ pc'["master"] = "stats"
    BY <1>1, <2>1, MasterFrame
  <2>3. HolderInv' /\ MutexOK'
    BY <2>1, <2>2 DEF HolderInv, MutexOK, Threads
  <2>4. QueueOK' /\ QueueInv'
    BY <2>1, <2>2 DEF QueueOK, QueueInv
  <2>5. SlavesOK' /\ SlaveNotAhead' /\ SyncInv'
    BY <2>1, <2>2, SlavesFrame DEF SyncInv, Threads
  <2>6. QED
    BY <2>2, <2>3, <2>4, <2>5
<1>5. QED
  BY <1>2, <1>3, <1>4

\* updateSlaveStats, under slaves_mutex_ and stats_mutex_.
LEMMA StatsKeep ==
  ASSUME Inv, UpdateSlaveStats \/ StoreSlaveStats
  PROVE  Inv'
<1> USE ReplicationAssumption DEF ReplicationAssumption, Inv
<1>1. torn \in BOOLEAN /\ crashed \in BOOLEAN
  BY DEF ControlOK
<1>2. PICK l \in {"stats2", "health"} :
        /\ pc' = [pc EXCEPT !["master"] = l]
        /\ l = "stats2" => pc["master"] = "stats" /\ slaves_mutex_ = None /\ slaves_mutex_' = "master"
        /\ l = "health" => pc["master"] = "stats2" /\ slaves_mutex_' = None
  BY DEF UpdateSlaveStats, StoreSlaveStats, At, Goto, Free
<1>3. UNCHANGED <<control, slaves_, queue, total, replication_log_mutex_, stats_mutex_, torn, crashed>>
  BY DEF UpdateSlaveStats, StoreSlaveStats
<1>4. /\ ControlOK' /\ PcOK' /\ ThreadsInv' /\ CountInv' /\ SlaveNeverOnline'
      /\ \A t \in Threads \ {"master"} : pc'[t] = pc[t]
      /\ pc'["master"] = l
  BY <1>1, <1>2, <1>3, MasterFrame DEF queue
<1>5. HolderInv' /\ MutexOK'
  BY <1>2, <1>3, <1>4 DEF HolderInv, MutexOK, Threads
<1>6. QueueOK' /\ QueueInv'
  BY <1>2, <1>3, <1>4, QueueFrame
<1>7. SlavesOK' /\ SlaveNotAhead' /\ SyncInv'
  BY <1>3, <1>4, SlavesFrame DEF SyncInv, Threads, queue
<1>8. QED
  BY <1>4, <1>5, <1>6, <1>7

\* With slaves_mutex_ free no handler brings a slave up to date.
LEMMA NobodySyncs ==
  ASSUME HolderInv, slaves_mutex_ = None
  PROVE  \A t \in Threads : pc[t] \notin {"stats2", "sleep", "sync"}
BY ReplicationAssumption DEF ReplicationAssumption, HolderInv, Threads

\* cleanupDeadSlaves, of either thread, drops slaves and changes none.
LEMMA CleanupSlaves ==
  ASSUME Inv, NEW t, NEW l, CleanupDeadSlaves(t, l)
  PROVE  /\ SlavesOK' /\ SlaveNotAhead' /\ torn' \in BOOLEAN
         /\ slaves_mutex_ = None /\ pc[t] = "cleanup" /\ pc' = [pc EXCEPT ![t] = l]
         /\ UNCHANGED <<control, queue, total, mutexes, crashed>>
<1>1. /\ Changes([s \in Ids |-> IF Dead(s) THEN None ELSE slaves_[s]])
      /\ slaves_mutex_ = None /\ pc[t] = "cleanup" /\ pc' = [pc EXCEPT ![t] = l]
      /\ UNCHANGED <<control, queue, total, mutexes, crashed>>
  BY DEF CleanupDeadSlaves, At, Goto, Free
<1>2. slaves_' = [s \in Ids |-> IF Dead(s) THEN None ELSE slaves_[s]]
  BY <1>1 DEF Changes
<1>3. SlavesOK'
  BY <1>2 DEF Inv, SlavesOK
<1>4. \A s \in Listed' : s \in Listed /\ slaves_'[s] = slaves_[s]
  BY <1>2 DEF Listed
<1>5. SlaveNotAhead'
  BY <1>1, <1>4 DEF Inv, SlaveNotAhead, queue
<1>6. torn' \in BOOLEAN
  BY <1>1, ChangesTorn DEF Inv, ControlOK
<1>7. QED
  BY <1>1, <1>3, <1>5, <1>6

\* checkSlaveHealth may take a slave offline and leaves its offset alone.
LEMMA HealthKeeps ==
  ASSUME Inv, CheckSlaveHealth
  PROVE  Inv'
<1> USE ReplicationAssumption DEF ReplicationAssumption, Inv
<1>1. /\ pc' = [pc EXCEPT !["master"] = "cleanup"] /\ pc["master"] = "health"
      /\ slaves_mutex_ = None
      /\ UNCHANGED <<control, queue, total, mutexes, torn, crashed>>
  BY DEF CheckSlaveHealth, At, Goto, Free
<1>2. slaves_' = [s \in Ids |-> IF slaves_[s] = None THEN None
        ELSE [slaves_[s] EXCEPT !.is_online = @ /\ slaves_[s].last_ping = 0]]
  BY DEF CheckSlaveHealth, Each
<1>3. ASSUME NEW s \in Ids, slaves_[s] # None
      PROVE  slaves_'[s] \in SlaveInfo /\ slaves_'[s].replication_offset = slaves_[s].replication_offset
  <2>1. slaves_[s] \in SlaveInfo
    BY <1>3 DEF SlavesOK
  <2>2. (slaves_[s].is_online /\ slaves_[s].last_ping = 0) \in BOOLEAN
    BY Zenon
  <2>3. QED
    BY <1>2, <1>3, <2>1, <2>2 DEF SlaveInfo
<1>4. SlavesOK' /\ SlaveNotAhead'
  BY <1>1, <1>2, <1>3, OffsetsKept DEF queue
<1>5. /\ ControlOK' /\ PcOK' /\ ThreadsInv' /\ CountInv' /\ SlaveNeverOnline'
      /\ \A t \in Threads \ {"master"} : pc'[t] = pc[t]
      /\ pc'["master"] = "cleanup"
  BY <1>1, MasterFrame DEF queue, ControlOK
<1>6. HolderInv' /\ MutexOK' /\ SyncInv'
  BY <1>1, <1>5, HolderFrame, NobodySyncs DEF SyncInv, Threads
<1>7. QueueOK' /\ QueueInv'
  BY <1>1, <1>5, QueueFrame
<1>8. QED
  BY <1>4, <1>5, <1>6, <1>7

\* cleanupDeadSlaves on the master thread.
LEMMA MasterCleanupKeeps ==
  ASSUME Inv, CleanupDeadSlaves("master", "test")
  PROVE  Inv'
<1> USE ReplicationAssumption DEF ReplicationAssumption, Inv
<1>1. /\ SlavesOK' /\ SlaveNotAhead' /\ torn' \in BOOLEAN
      /\ slaves_mutex_ = None /\ pc["master"] = "cleanup" /\ pc' = [pc EXCEPT !["master"] = "test"]
      /\ UNCHANGED <<control, queue, total, mutexes, crashed>>
  BY CleanupSlaves
<1>2. /\ ControlOK' /\ PcOK' /\ ThreadsInv' /\ CountInv' /\ SlaveNeverOnline'
      /\ \A t \in Threads \ {"master"} : pc'[t] = pc[t]
      /\ pc'["master"] = "test"
  BY <1>1, MasterFrame DEF queue, ControlOK
<1>3. HolderInv' /\ MutexOK' /\ SyncInv'
  BY <1>1, <1>2, HolderFrame, NobodySyncs DEF SyncInv, Threads
<1>4. QueueOK' /\ QueueInv'
  BY <1>1, <1>2, QueueFrame
<1>5. QED
  BY <1>1, <1>2, <1>3, <1>4

(***************************************************************************)
(* pingSlaves.                                                             *)
(***************************************************************************)
\* A step of the ping thread leaves what is said of the other threads.
LEMMA PingFrame ==
  ASSUME Inv, NEW l, pc' = [pc EXCEPT !["ping"] = l], pc["ping"] # "none",
         l \in {"cleanup", "ping", "sleep", "exit"},
         UNCHANGED <<control, queue, total, crashed>>, torn' \in BOOLEAN
  PROVE  /\ ControlOK' /\ PcOK' /\ ThreadsInv' /\ CountInv' /\ SlaveNeverOnline'
         /\ QueueOK' /\ QueueInv'
         /\ \A t \in Threads \ {"ping"} : pc'[t] = pc[t]
         /\ pc'["ping"] = l
<1> USE ReplicationAssumption DEF ReplicationAssumption, Inv
<1>1. PcOK' /\ pc'["ping"] = l /\ \A t \in Threads \ {"ping"} : pc'[t] = pc[t]
  BY DEF PcOK, Threads
<1>2. ControlOK'
  BY DEF ControlOK, control
<1>3. ThreadsInv' /\ SlaveNeverOnline'
  BY <1>1 DEF ThreadsInv, SlaveNeverOnline, control, Threads
<1>4. CountInv'
  BY <1>1, CountFrame DEF Threads, queue
<1>5. QueueOK' /\ QueueInv'
  BY <1>1 DEF QueueOK, QueueInv, queue, Threads
<1>6. QED
  BY <1>1, <1>2, <1>3, <1>4, <1>5

\* The three steps of the ping thread.
LEMMA PingKeeps ==
  ASSUME Inv, PingStep
  PROVE  Inv'
<1> USE ReplicationAssumption DEF ReplicationAssumption, Inv
<1>1. torn \in BOOLEAN
  BY DEF ControlOK
<1>2. CASE CleanupDeadSlaves("ping", "ping")
  <2>1. /\ SlavesOK' /\ SlaveNotAhead' /\ torn' \in BOOLEAN
        /\ slaves_mutex_ = None /\ pc["ping"] = "cleanup" /\ pc' = [pc EXCEPT !["ping"] = "ping"]
        /\ UNCHANGED <<control, queue, total, mutexes, crashed>>
    BY <1>2, CleanupSlaves
  <2>2. /\ ControlOK' /\ PcOK' /\ ThreadsInv' /\ CountInv' /\ SlaveNeverOnline'
        /\ QueueOK' /\ QueueInv'
        /\ \A t \in Threads \ {"ping"} : pc'[t] = pc[t]
        /\ pc'["ping"] = "ping"
    BY <2>1, PingFrame
  <2>3. HolderInv' /\ MutexOK' /\ SyncInv'
    BY <2>1, <2>2, HolderFrame, NobodySyncs DEF SyncInv, Threads
  <2>4. QED
    BY <2>1, <2>2, <2>3
<1>3. CASE PingSlaves
  <2>1. /\ pc["ping"] = "ping" /\ pc' = [pc EXCEPT !["ping"] = "sleep"]
        /\ slaves_mutex_ = None /\ slaves_mutex_' = "ping"
        /\ UNCHANGED <<control, queue, total, replication_log_mutex_, stats_mutex_, torn, crashed>>
    BY <1>3 DEF PingSlaves, At, Goto, Free
  <2>2. slaves_' = [s \in Ids |-> IF slaves_[s] = None THEN None
          ELSE IF slaves_[s].is_online THEN [slaves_[s] EXCEPT !.last_ping = 0] ELSE slaves_[s]]
    BY <1>3 DEF PingSlaves, Each
  <2>3. ASSUME NEW s \in Ids, slaves_[s] # None
        PROVE  slaves_'[s] \in SlaveInfo /\ slaves_'[s].replication_offset = slaves_[s].replication_offset
    BY <2>2, <2>3 DEF SlavesOK, SlaveInfo
  <2>4. SlavesOK' /\ SlaveNotAhead'
    BY <2>1, <2>2, <2>3, OffsetsKept DEF queue
  <2>5. /\ ControlOK' /\ PcOK' /\ ThreadsInv' /\ CountInv' /\ SlaveNeverOnline'
        /\ QueueOK' /\ QueueInv'
        /\ \A t \in Threads \ {"ping"} : pc'[t] = pc[t]
        /\ pc'["ping"] = "sleep"
    BY <1>1, <2>1, PingFrame
  <2>6. HolderInv' /\ MutexOK' /\ SyncInv'
    BY <2>1, <2>5, NobodySyncs DEF HolderInv, MutexOK, SyncInv, Threads
  <2>7. QED
    BY <2>4, <2>5, <2>6
<1>4. CASE PingSlept
  <2>1. PICK l \in {"cleanup", "exit"} :
          /\ pc["ping"] = "sleep" /\ pc' = [pc EXCEPT !["ping"] = l] /\ slaves_mutex_' = None
          /\ UNCHANGED <<control, slaves_, queue, total, replication_log_mutex_, stats_mutex_,
                         torn, crashed>>
    BY <1>4 DEF PingSlept, At, Goto
  <2>2. /\ ControlOK' /\ PcOK' /\ ThreadsInv' /\ CountInv' /\ SlaveNeverOnline'
        /\ QueueOK' /\ QueueInv'
        /\ \A t \in Threads \ {"ping"} : pc'[t] = pc[t]
        /\ pc'["ping"] = l
    BY <1>1, <2>1, PingFrame
  <2>3. HolderInv' /\ MutexOK'
    BY <2>1, <2>2 DEF HolderInv, MutexOK, Threads
  <2>4. SlavesOK' /\ SlaveNotAhead' /\ SyncInv'
    BY <2>1, <2>2, SlavesFrame DEF SyncInv, Threads, queue
  <2>5. QED
    BY <2>2, <2>3, <2>4
<1>5. QED
  BY <1>2, <1>3, <1>4 DEF PingStep

(***************************************************************************)
(* The handler of a connected address, and slaveLoop.                      *)
(***************************************************************************)
\* A step of a handler leaves what is said of the other threads.
LEMMA HandlerFrame ==
  ASSUME Inv, NEW a \in Addrs, NEW l \in {"idle", "connect", "sync"}, pc' = [pc EXCEPT ![a] = l],
         UNCHANGED <<control, queue, total, crashed>>, torn' \in BOOLEAN
  PROVE  /\ ControlOK' /\ PcOK' /\ ThreadsInv' /\ CountInv' /\ SlaveNeverOnline'
         /\ QueueOK' /\ QueueInv'
         /\ \A t \in Threads \ {a} : pc'[t] = pc[t]
         /\ pc'[a] = l
<1> USE ReplicationAssumption DEF ReplicationAssumption, Inv
<1>1. PcOK' /\ pc'[a] = l /\ \A t \in Threads \ {a} : pc'[t] = pc[t]
  BY DEF PcOK, Threads
<1>2. ControlOK'
  BY DEF ControlOK, control
<1>3. ThreadsInv' /\ SlaveNeverOnline'
  BY <1>1 DEF ThreadsInv, SlaveNeverOnline, control, Threads
<1>4. CountInv'
  BY <1>1, CountFrame DEF Threads, queue
<1>5. QueueOK' /\ QueueInv'
  BY <1>1 DEF QueueOK, QueueInv, queue, Threads
<1>6. QED
  BY <1>1, <1>2, <1>3, <1>4, <1>5

\* A slave after its handshake has the offset it had.
LEMMA ShookHands ==
  ASSUME NEW i \in SlaveInfo, NEW sent \in BOOLEAN
  PROVE  /\ [i EXCEPT !.is_online = sent, !.last_ping = 0] \in SlaveInfo
         /\ [i EXCEPT !.is_online = sent, !.last_ping = 0].replication_offset = i.replication_offset
<1> DEFINE j == [i EXCEPT !.is_online = sent]
<1>1. j \in SlaveInfo /\ j.replication_offset = i.replication_offset
  BY DEF SlaveInfo
<1>2. [i EXCEPT !.is_online = sent, !.last_ping = 0] = [j EXCEPT !.last_ping = 0]
  OBVIOUS
<1>3. [j EXCEPT !.last_ping = 0] \in SlaveInfo
      /\ [j EXCEPT !.last_ping = 0].replication_offset = j.replication_offset
  <2> HIDE DEF j
  <2>1. QED
    BY <1>1 DEF SlaveInfo
<1>4. QED
  BY <1>1, <1>2, <1>3, Zenon

\* A handshake: the slave's offset is at most the master's, before it and after.
LEMMA HandlerKeeps ==
  ASSUME Inv, NEW a \in Addrs, SlaveConnect(a) \/ HandlerStep(a)
  PROVE  Inv'
<1> USE ReplicationAssumption DEF ReplicationAssumption, Inv
<1> DEFINE s == <<"connected", a>>
<1>1. torn \in BOOLEAN /\ s \in Ids /\ a \in Threads
  BY DEF ControlOK, Ids, Threads
<1>2. CASE SlaveConnect(a)
  <2>1. /\ pc[a] = "idle" /\ pc' = [pc EXCEPT ![a] = "connect"]
        /\ UNCHANGED <<control, slaves_, queue, total, mutexes, torn, crashed>>
    BY <1>2 DEF SlaveConnect, At, Goto
  <2>2. /\ ControlOK' /\ PcOK' /\ ThreadsInv' /\ CountInv' /\ SlaveNeverOnline'
        /\ QueueOK' /\ QueueInv'
        /\ \A t \in Threads \ {a} : pc'[t] = pc[t]
        /\ pc'[a] = "connect"
    BY <1>1, <2>1, HandlerFrame
  <2>3. HolderInv' /\ MutexOK'
    BY <2>1, <2>2, HolderFrame
  <2>4. SlavesOK' /\ SlaveNotAhead' /\ SyncInv'
    BY <2>1, <2>2, SlavesFrame DEF SyncInv, Threads, queue
  <2>5. QED
    BY <2>2, <2>3, <2>4
<1>3. CASE HandleSlaveConnection(a)
  <2> DEFINE old == IF s \in Listed THEN slaves_[s] ELSE NewSlave
  <2>1. old \in SlaveInfo /\ old.replication_offset <= replication_offset_
    <3>1. CASE s \in Listed
      BY <1>1, <3>1 DEF Listed, SlavesOK, SlaveNotAhead
    <3>2. CASE s \notin Listed
      BY <3>2 DEF NewSlave, SlaveInfo, QueueOK
    <3>3. QED
      BY <3>1, <3>2
  <2>2. PICK sent \in BOOLEAN :
          /\ Changes([slaves_ EXCEPT ![s] = [old EXCEPT !.is_online = sent, !.last_ping = 0]])
          /\ IF sent /\ old.replication_offset < replication_offset_
             THEN Goto(a, "sync") /\ slaves_mutex_' = a
             ELSE Goto(a, "idle") /\ UNCHANGED slaves_mutex_
    BY <1>3 DEF HandleSlaveConnection
  <2>3. PICK l \in {"sync", "idle"} :
          /\ pc' = [pc EXCEPT ![a] = l]
          /\ l = "sync" => slaves_mutex_' = a
          /\ l = "idle" => slaves_mutex_' = slaves_mutex_
    BY <2>2 DEF Goto
  <2>4. /\ pc[a] = "connect" /\ slaves_mutex_ = None
        /\ UNCHANGED <<control, queue, total, replication_log_mutex_, stats_mutex_, crashed>>
    BY <1>3 DEF HandleSlaveConnection, At, Free
  <2>5. [old EXCEPT !.is_online = sent, !.last_ping = 0] \in SlaveInfo
        /\ [old EXCEPT !.is_online = sent, !.last_ping = 0].replication_offset = old.replication_offset
    <3> HIDE DEF old
    <3>1. QED
      BY <2>1, ShookHands
  <2>6. slaves_' = [slaves_ EXCEPT ![s] = [old EXCEPT !.is_online = sent, !.last_ping = 0]]
    BY <2>2 DEF Changes
  <2>7. torn' \in BOOLEAN
    BY <1>1, <2>2, ChangesTorn
  <2>8. SlavesOK' /\ SlaveNotAhead' /\ slaves_'[s] \in SlaveInfo
    <3> HIDE DEF old, s
    <3>1. QED
      BY <1>1, <2>1, <2>4, <2>5, <2>6 DEF SlavesOK, SlaveNotAhead, Listed, queue
  <2>9. /\ ControlOK' /\ PcOK' /\ ThreadsInv' /\ CountInv' /\ SlaveNeverOnline'
        /\ QueueOK' /\ QueueInv'
        /\ \A t \in Threads \ {a} : pc'[t] = pc[t]
        /\ pc'[a] = l
    BY <2>3, <2>4, <2>7, HandlerFrame
  <2>10. HolderInv' /\ MutexOK'
    BY <1>1, <2>3, <2>4, <2>9, NobodySyncs DEF HolderInv, MutexOK, Threads
  <2>11. SyncInv'
    BY <2>4, <2>8, <2>9, NobodySyncs DEF SyncInv, Threads
  <2>12. QED
    BY <2>8, <2>9, <2>10, <2>11
<1>4. CASE SendSyncCommands(a)
  <2>1. /\ pc[a] = "sync" /\ pc' = [pc EXCEPT ![a] = "idle"] /\ slaves_mutex_' = None
        /\ slaves_' = [slaves_ EXCEPT ![s].replication_offset = replication_offset_]
        /\ UNCHANGED <<control, queue, total, replication_log_mutex_, stats_mutex_, torn, crashed>>
    BY <1>4 DEF SendSyncCommands, At, Goto
  <2>2. slaves_[s] \in SlaveInfo /\ slaves_mutex_ = a
    BY <1>1, <2>1 DEF SyncInv, HolderInv
  <2>3. /\ ControlOK' /\ PcOK' /\ ThreadsInv' /\ CountInv' /\ SlaveNeverOnline'
        /\ QueueOK' /\ QueueInv'
        /\ \A t \in Threads \ {a} : pc'[t] = pc[t]
        /\ pc'[a] = "idle"
    BY <1>1, <2>1, HandlerFrame
  <2>4. HolderInv' /\ MutexOK'
    BY <1>1, <2>1, <2>2, <2>3 DEF HolderInv, MutexOK, Threads
  <2>5. SlavesOK' /\ SlaveNotAhead'
    <3>1. /\ [slaves_[s] EXCEPT !.replication_offset = replication_offset_] \in SlaveInfo
          /\ [slaves_[s] EXCEPT !.replication_offset = replication_offset_].replication_offset
               = replication_offset_
      BY <2>2 DEF SlaveInfo, QueueOK
    <3>2. slaves_' = [slaves_ EXCEPT ![s] = [slaves_[s] EXCEPT !.replication_offset = replication_offset_]]
      BY <1>1, <2>1
    <3>3. QED
      <4> HIDE DEF s
      <4>1. QED
        BY <1>1, <2>1, <3>1, <3>2 DEF SlavesOK, SlaveNotAhead, Listed, queue, QueueOK
  <2>6. SyncInv'
    BY <2>2, <2>3 DEF SyncInv, HolderInv, Threads
  <2>7. QED
    BY <2>3, <2>4, <2>5, <2>6
<1>5. QED
  BY <1>2, <1>3, <1>4 DEF HandlerStep

\* slaveLoop leaves all but its own place and state_ alone.
LEMMA SlaveKeeps ==
  ASSUME Inv, SlaveStep
  PROVE  Inv'
<1> USE ReplicationAssumption DEF ReplicationAssumption, Inv
<1>1. /\ UNCHANGED <<role_, running_, serving, starts, slaves_, queue, total, mutexes, torn, crashed>>
      /\ state_' \in {state_, "ERROR", "CONNECTED"}
  BY DEF SlaveStep, SlaveTest, SlaveActs, Outcome, control
<1>2. PICK l \in {"test", "exit", "dial", "ask", "heartbeat", "pause"} :
        /\ pc' = [pc EXCEPT !["slave"] = l] /\ pc["slave"] \notin {"none", "exit"}
        /\ l = "heartbeat" => state_ = "ONLINE"
  BY DEF SlaveStep, SlaveTest, SlaveActs, At, Goto, ControlOK, States
<1>3. PcOK' /\ pc'["slave"] = l /\ \A t \in Threads \ {"slave"} : pc'[t] = pc[t]
  BY <1>2 DEF PcOK, Threads
<1>4. ControlOK'
  BY <1>1 DEF ControlOK, States
<1>5. ThreadsInv' /\ SlaveNeverOnline'
  BY <1>1, <1>2, <1>3 DEF ThreadsInv, SlaveNeverOnline, Threads
<1>6. CountInv'
  BY <1>1, <1>3, CountFrame DEF Threads, queue
<1>7. QueueOK' /\ QueueInv'
  BY <1>1, <1>3 DEF QueueOK, QueueInv, queue, Threads
<1>8. HolderInv' /\ MutexOK'
  BY <1>1, <1>2, <1>3, HolderFrame DEF PcOK, Threads
<1>9. SlavesOK' /\ SlaveNotAhead' /\ SyncInv'
  BY <1>1, <1>3, SlavesFrame DEF SyncInv, Threads, queue
<1>10. QED
  BY <1>3, <1>4, <1>5, <1>6, <1>7, <1>8, <1>9

(***************************************************************************)
(* The theorems.                                                           *)
(***************************************************************************)
\* Every step keeps the invariant.
LEMMA StepInv == Inv /\ [Next]_vars => Inv'
<1> SUFFICES ASSUME Inv, [Next]_vars PROVE Inv'
  OBVIOUS
<1>1. CASE UNCHANGED vars
  <2>1. UNCHANGED <<control, slaves_, queue, total, mutexes, pc, torn, crashed>>
    BY <1>1 DEF vars
  <2>2. CountInv' /\ SlavesOK' /\ SlaveNotAhead'
    BY <2>1, CountFrame, SlavesFrame DEF Inv, queue
  <2>3. QED
    BY <2>1, <2>2 DEF Inv, ControlOK, QueueOK, MutexOK, PcOK, HolderInv, QueueInv, SyncInv,
         ThreadsInv, SlaveNeverOnline, control, queue, mutexes
<1>2. CASE Next
  BY <1>2, MainKeeps, ListKeeps, LogKeeps, SendKeeps, CountKeeps, CountingKeeps, QueueKeeps,
     StatsKeep, HealthKeeps, MasterCleanupKeeps, PingKeeps, HandlerKeeps, SlaveKeeps
  DEF Next, MasterStep
<1>3. QED
  BY <1>1, <1>2

\* The invariant always holds.
LEMMA InvHolds == Spec => []Inv
BY InitInv, StepInv, PTL DEF Spec

\* ReplicationManager's state is always of its types: the queue never grows past its limit,
\* and no more commands are counted than were logged.
THEOREM TypeCorrect == Spec => []ReplicationTypeOK
<1>1. Inv => ReplicationTypeOK
  <2> SUFFICES ASSUME Inv PROVE ReplicationTypeOK
    OBVIOUS
  <2>1. Cardinality(InFlight) \in Nat
    BY FS_CardinalityType DEF Inv, CountInv
  <2>2. total \in 0 .. MaxCommands
    BY <2>1, ReplicationAssumption DEF ReplicationAssumption, Inv, CountInv, QueueOK
  <2>3. QED
    BY <2>2 DEF Inv, ReplicationTypeOK, ControlOK, SlavesOK, QueueOK, MutexOK, PcOK
<1>2. QED
  BY <1>1, InvHolds, PTL

\* Threads never wait for each other in a circle, of any length, although slaves_mutex_ and
\* replication_log_mutex_ are locked in both orders: the thread that has the log's mutex
\* asks for no other, because it never finds an entry it would send.
THEOREM NoneWaitInCircle == Spec => []NoCircularWait
<1>1. Inv => NoCircularWait
  <2> SUFFICES ASSUME Inv, NEW t \in Threads, NEW u \in Threads, NEW v \in Threads,
                      Awaited(t) = u, Awaited(u) = v
               PROVE  Awaited(v) = None
    BY DEF NoCircularWait
  <2> USE ReplicationAssumption DEF ReplicationAssumption, Inv
  <2>1. u # None /\ v # None
    BY DEF Threads
  <2>2. u = slaves_mutex_ \/ u = replication_log_mutex_ \/ u = stats_mutex_
    BY <2>1 DEF Awaited
  <2>3. pc[u] \in {"stats2", "sync"}
    BY <2>1, <2>2 DEF HolderInv, Awaited
  <2>4. v \in {replication_log_mutex_, stats_mutex_}
    BY <2>3 DEF Awaited
  <2>5. pc[v] \in {"pop", "count"}
    BY <2>4 DEF HolderInv
  <2>6. QED
    BY <2>5 DEF Awaited
<1>2. QED
  BY <1>1, InvHolds, PTL

\* replication_offset_ is the number of commands counted and under way, although
\* processReplicationQueue writes it back from a local copy.
THEOREM OffsetCounts == Spec => []CommandsCounted
<1>1. Inv => CommandsCounted
  BY DEF Inv, CountInv, InFlight, CommandsCounted
<1>2. QED
  BY <1>1, InvHolds, PTL

\* No slave that connected is ever taken to be ahead of the master.
THEOREM NoSlaveAhead == Spec => []SlaveNotAhead
<1>1. Inv => SlaveNotAhead
  BY DEF Inv
<1>2. QED
  BY <1>1, InvHolds, PTL

\* No slave ever comes online.
THEOREM NoSlaveOnline == Spec => []SlaveNeverOnline
<1>1. Inv => SlaveNeverOnline
  BY DEF Inv
<1>2. QED
  BY <1>1, InvHolds, PTL
===============================================================================
