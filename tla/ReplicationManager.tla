-------------------------- MODULE ReplicationManager --------------------------
(***************************************************************************)
(* replication/replication_manager.cpp: the thread that starts and stops   *)
(* replication, the master, ping and slave threads, the threads of         *)
(* RedisHandler that replicate commands, and the handlers that             *)
(* replication_server_ runs, one per connected address.                    *)
(*                                                                         *)
(* A critical section in which its thread waits for nothing is one step;   *)
(* one that takes a second mutex, sleeps, or is open to a thread that does *)
(* not take the mutex is several.  Commands are only ever printed, nothing *)
(* reads SlaveInfo::state, and of the statistics, which are only printed,  *)
(* the number of commands is kept.                                         *)
(***************************************************************************)
EXTENDS Integers, Sequences, FiniteSets

CONSTANTS
  Addrs,            \* "ip:port" of the peers
  Callers,          \* threads that call replicateCommand
  None,
  MaxLog,           \* max_replication_log_size_
  MaxCommands,      \* bound: commands replicated
  MaxStarts         \* bound: calls of startReplication

ASSUME ReplicationAssumption ==
  /\ {MaxLog, MaxCommands, MaxStarts} \subseteq Nat
  /\ None \notin Callers \cup Addrs
  /\ Callers \cap Addrs = {}
  /\ (Callers \cup Addrs \cup {None}) \cap {"main", "master", "ping", "slave"} = {}

\* What SlaveInfo::id tells apart.  addSlave(host, port) gives the id "host:port"; a
\* peer that connects is stored with host "ip:port" and port 0, so its id is its
\* address with ":0" behind it, and an id that is an address is always an added one.
Ids == {"added", "connected"} \X Addrs

Threads == {"main", "master", "ping", "slave"} \cup Callers \cup Addrs

VARIABLES
  role_, state_, running_,
  serving,               \* running_ of replication_server_
  slaves_,               \* by id: its SlaveInfo, or None where the vector has no such id
  replication_log_,      \* offsets of the queued entries
  replication_offset_,
  current_offset,        \* the local of processReplicationQueue
  slaves_mutex_, replication_log_mutex_, stats_mutex_,  \* their holders
  total,                 \* stats_.total_commands_replicated
  pc,
  torn,                  \* the vector changed under handleNewSlaveConnections
  crashed,
  starts

control == <<role_, state_, running_, serving, starts>>
queue == <<replication_log_, replication_offset_, current_offset>>
mutexes == <<slaves_mutex_, replication_log_mutex_, stats_mutex_>>
vars == <<control, slaves_, queue, total, mutexes, pc, torn, crashed>>

Roles == {"UNKNOWN", "MASTER", "SLAVE"}
States == {"CONNECTING", "CONNECTED", "ONLINE", "DISCONNECTED", "ERROR"}

\* last_ping is an age: 0, 1 (more than 2 ping intervals) or 2 (more than 3).
SlaveInfo == [is_online : BOOLEAN, last_ping : 0 .. 2, replication_offset : 0 .. MaxCommands]

\* The constructor leaves last_ping at the epoch: long ago.
NewSlave == [is_online |-> FALSE, last_ping |-> 2, replication_offset |-> 0]

Listed == {s \in Ids : slaves_[s] # None}

ReplicationTypeOK ==
  /\ role_ \in Roles /\ state_ \in States
  /\ {running_, serving, torn, crashed} \subseteq BOOLEAN
  /\ starts \in 0 .. MaxStarts
  /\ slaves_ \in [Ids -> SlaveInfo \cup {None}]
  /\ replication_log_ \in Seq(0 .. MaxCommands)
  /\ Len(replication_log_) <= MaxLog
  /\ {replication_offset_, current_offset, total} \subseteq 0 .. MaxCommands
  /\ {slaves_mutex_, replication_log_mutex_, stats_mutex_} \subseteq Threads \cup {None}
  /\ pc["main"] \in {"init", "idle", "serve", "spawn", "state", "server", "join", "joinP"}
  /\ pc["master"] \in {"none", "test", "count", "queue", "pop", "send", "stats", "stats2",
                       "health", "cleanup", "exit"}
  /\ pc["ping"] \in {"none", "cleanup", "ping", "sleep", "exit"}
  /\ pc["slave"] \in {"none", "test", "dial", "ask", "heartbeat", "pause", "exit"}
  /\ \A c \in Callers : pc[c] \in {"idle", "send", "total"}
  /\ \A a \in Addrs : pc[a] \in {"idle", "connect", "sync"}

Init ==
  /\ role_ = "UNKNOWN" /\ state_ = "DISCONNECTED" /\ running_ = FALSE /\ serving = FALSE
  /\ slaves_ = [s \in Ids |-> None]
  /\ replication_log_ = <<>> /\ replication_offset_ = 0 /\ current_offset = 0
  /\ slaves_mutex_ = None /\ replication_log_mutex_ = None /\ stats_mutex_ = None
  /\ total = 0
  /\ pc = [t \in Threads |-> CASE t = "main" -> "init"
                               [] t \in {"master", "ping", "slave"} -> "none"
                               [] OTHER -> "idle"]
  /\ torn = FALSE /\ crashed = FALSE /\ starts = 0

-------------------------------------------------------------------------------
At(t, l) == ~crashed /\ pc[t] = l
Goto(t, l) == pc' = [pc EXCEPT ![t] = l]
Free(m) == m = None

\* The vector is walked by handleNewSlaveConnections under another mutex: a change of
\* it meanwhile is a data race.
Changes(new) ==
  /\ slaves_' = new
  /\ torn' = (torn \/ (pc["master"] = "count" /\ \E s \in Ids : (new[s] = None) # (slaves_[s] = None)))

-------------------------------------------------------------------------------
(***************************************************************************)
(* init, startReplication and stopReplication.                             *)
(***************************************************************************)
InitRole(r) ==
  /\ At("main", "init") /\ Goto("main", "idle")
  /\ role_' = r
  /\ UNCHANGED <<state_, running_, serving, starts, slaves_, queue, total, mutexes, torn, crashed>>

\* With running_ set a further call returns true at once.
StartReplication ==
  /\ At("main", "idle") /\ ~running_ /\ starts < MaxStarts
  /\ running_' = TRUE /\ starts' = starts + 1
  /\ Goto("main", IF role_ = "MASTER" THEN "serve" ELSE "spawn")
  /\ UNCHANGED <<role_, state_, serving, slaves_, queue, total, mutexes, torn, crashed>>

ServerStarts ==
  /\ At("main", "serve") /\ Goto("main", "spawn")
  /\ serving' = TRUE
  /\ UNCHANGED <<role_, state_, running_, starts, slaves_, queue, total, mutexes, torn, crashed>>

\* init of the server throws, or start fails: running_ stays true.
ServerFails ==
  /\ At("main", "serve") /\ Goto("main", "idle")
  /\ UNCHANGED <<control, slaves_, queue, total, mutexes, torn, crashed>>

\* The master and ping threads run, or the slave thread, before the state is set.
SpawnThreads ==
  /\ At("main", "spawn")
  /\ pc' = IF role_ = "MASTER"
           THEN [pc EXCEPT !["main"] = "state", !["master"] = "test", !["ping"] = "cleanup"]
           ELSE [pc EXCEPT !["main"] = "state", !["slave"] = "test"]
  /\ UNCHANGED <<control, slaves_, queue, total, mutexes, torn, crashed>>

StartEnds ==
  /\ At("main", "state") /\ Goto("main", "idle")
  /\ state_' = IF role_ = "MASTER" THEN "ONLINE" ELSE "CONNECTING"
  /\ UNCHANGED <<role_, running_, serving, starts, slaves_, queue, total, mutexes, torn, crashed>>

StopReplication ==
  /\ At("main", "idle") /\ running_
  /\ running_' = FALSE
  /\ Goto("main", "server")
  /\ UNCHANGED <<role_, state_, serving, starts, slaves_, queue, total, mutexes, torn, crashed>>

\* replication_server_->stop(), taken to return here: module TCPServer has its part.
StopServer ==
  /\ At("main", "server") /\ Goto("main", "join")
  /\ serving' = FALSE
  /\ UNCHANGED <<role_, state_, running_, starts, slaves_, queue, total, mutexes, torn, crashed>>

\* A joinable thread is one that was spawned and not joined yet.
JoinLoop ==
  /\ At("main", "join")
  /\ {pc["master"], pc["slave"]} \subseteq {"none", "exit"}
  /\ pc' = [pc EXCEPT !["main"] = "joinP", !["master"] = "none", !["slave"] = "none"]
  /\ UNCHANGED <<control, slaves_, queue, total, mutexes, torn, crashed>>

JoinPing ==
  /\ At("main", "joinP") /\ pc["ping"] \in {"none", "exit"}
  /\ pc' = [pc EXCEPT !["main"] = "idle", !["ping"] = "none"]
  /\ state_' = "DISCONNECTED"
  /\ UNCHANGED <<role_, running_, serving, starts, slaves_, queue, total, mutexes, torn, crashed>>

-------------------------------------------------------------------------------
(***************************************************************************)
(* addSlave and removeSlave.                                               *)
(***************************************************************************)
AddSlave(a) ==
  /\ At("main", "idle") /\ role_ = "MASTER" /\ Free(slaves_mutex_)
  /\ <<"added", a>> \notin Listed
  /\ Changes([slaves_ EXCEPT ![<<"added", a>>] = NewSlave])
  /\ UNCHANGED <<control, queue, total, mutexes, pc, crashed>>

RemoveSlave(s) ==
  /\ At("main", "idle") /\ role_ = "MASTER" /\ Free(slaves_mutex_)
  /\ s \in Listed
  /\ Changes([slaves_ EXCEPT ![s] = None])
  /\ UNCHANGED <<control, queue, total, mutexes, pc, crashed>>

-------------------------------------------------------------------------------
(***************************************************************************)
(* replicateCommand: logReplicationEntry, replicateToSlaves, statistics.   *)
(***************************************************************************)

\* A plausible slip: the queue is not limited.
Unlimited(log) == log

\* The queue keeps its newest MaxLog entries.
Limited(log) == IF Len(log) > MaxLog THEN Tail(log) ELSE log

LogReplicationEntry(c) ==
  /\ At(c, "idle") /\ role_ = "MASTER" /\ replication_offset_ < MaxCommands
  /\ Free(replication_log_mutex_)
  /\ replication_log_' = Limited(Append(replication_log_, replication_offset_))
  /\ replication_offset_' = replication_offset_ + 1
  /\ Goto(c, "send")
  /\ UNCHANGED <<control, slaves_, current_offset, total, mutexes, torn, crashed>>

\* replicateToSlaves prints the command for every slave that is online.  The master
\* thread calls it from processReplicationQueue, with replication_log_mutex_ locked.
ReplicateToSlaves(t) ==
  /\ At(t, "send") /\ Free(slaves_mutex_)
  /\ IF t = "master"
     THEN /\ current_offset' = Head(replication_log_)
          /\ replication_log_' = Tail(replication_log_)
          /\ Goto(t, "pop")
     ELSE /\ Goto(t, "total")
          /\ UNCHANGED <<current_offset, replication_log_>>
  /\ UNCHANGED <<control, slaves_, replication_offset_, total, mutexes, torn, crashed>>

CountCommand(c) ==
  /\ At(c, "total") /\ Free(stats_mutex_)
  /\ total' = total + 1
  /\ Goto(c, "idle")
  /\ UNCHANGED <<control, slaves_, queue, mutexes, torn, crashed>>

-------------------------------------------------------------------------------
(***************************************************************************)
(* masterLoop.                                                             *)
(***************************************************************************)
MasterTest ==
  /\ At("master", "test") /\ (running_ => Free(stats_mutex_))
  /\ Goto("master", IF running_ THEN "count" ELSE "exit")
  /\ stats_mutex_' = IF running_ THEN "master" ELSE stats_mutex_
  /\ torn' = FALSE
  /\ UNCHANGED <<control, slaves_, queue, total, slaves_mutex_, replication_log_mutex_, crashed>>

\* Counts the slaves that are online; a vector that changes under the walk gives any
\* number, or a crash.
HandleNewSlaveConnections ==
  /\ At("master", "count")
  /\ crashed' \in IF torn THEN BOOLEAN ELSE {FALSE}
  /\ stats_mutex_' = None /\ torn' = FALSE
  /\ Goto("master", "queue")
  /\ UNCHANGED <<control, slaves_, queue, total, slaves_mutex_, replication_log_mutex_>>

\* A plausible slip: the queue is read without its mutex.
ReadsQueueUnlocked ==
  /\ At("master", "queue")
  /\ current_offset' = replication_offset_
  /\ Goto("master", IF replication_log_ = <<>> THEN "stats" ELSE "pop")
  /\ UNCHANGED <<control, slaves_, replication_log_, replication_offset_, total, mutexes, torn, crashed>>

ProcessReplicationQueue ==
  /\ At("master", "queue") /\ Free(replication_log_mutex_)
  /\ IF replication_log_ = <<>>
     THEN /\ Goto("master", "stats")
          /\ UNCHANGED <<current_offset, replication_log_mutex_>>
     ELSE /\ current_offset' = replication_offset_
          /\ replication_log_mutex_' = "master"
          /\ Goto("master", "pop")
  /\ UNCHANGED <<control, slaves_, replication_log_, replication_offset_, total,
                 slaves_mutex_, stats_mutex_, torn, crashed>>

\* A plausible slip: entries are sent whether or not they are new.
PopAlwaysSends ==
  /\ At("master", "pop") /\ replication_log_ # <<>>
  /\ Goto("master", "send")
  /\ UNCHANGED <<control, slaves_, queue, total, mutexes, torn, crashed>>

\* Only an entry past current_offset is sent, under slaves_mutex_.
PopEntry ==
  /\ At("master", "pop") /\ replication_log_ # <<>>
  /\ IF Head(replication_log_) > current_offset
     THEN Goto("master", "send") /\ UNCHANGED replication_log_
     ELSE replication_log_' = Tail(replication_log_) /\ UNCHANGED pc
  /\ UNCHANGED <<control, slaves_, replication_offset_, current_offset, total, mutexes, torn, crashed>>

QueueEmptied ==
  /\ At("master", "pop") /\ replication_log_ = <<>>
  /\ replication_offset_' = current_offset /\ current_offset' = 0
  /\ replication_log_mutex_' = None
  /\ Goto("master", "stats")
  /\ UNCHANGED <<control, slaves_, replication_log_, total,
                 slaves_mutex_, stats_mutex_, torn, crashed>>

\* updateSlaveStats: slaves_mutex_, then stats_mutex_ inside it.
UpdateSlaveStats ==
  /\ At("master", "stats") /\ Free(slaves_mutex_)
  /\ slaves_mutex_' = "master"
  /\ Goto("master", "stats2")
  /\ UNCHANGED <<control, slaves_, queue, total, replication_log_mutex_, stats_mutex_, torn, crashed>>

StoreSlaveStats ==
  /\ At("master", "stats2") /\ Free(stats_mutex_)
  /\ slaves_mutex_' = None
  /\ Goto("master", "health")
  /\ UNCHANGED <<control, slaves_, queue, total, replication_log_mutex_, stats_mutex_, torn, crashed>>

\* A new SlaveInfo for every listed one.
Each(f(_)) == [s \in Ids |-> IF slaves_[s] = None THEN None ELSE f(slaves_[s])]

CheckSlaveHealth ==
  /\ At("master", "health") /\ Free(slaves_mutex_)
  /\ LET checked(i) == [i EXCEPT !.is_online = @ /\ i.last_ping = 0]
     IN  slaves_' = Each(checked)
  /\ Goto("master", "cleanup")
  /\ UNCHANGED <<control, queue, total, mutexes, torn, crashed>>

Dead(s) == s \in Listed /\ slaves_[s].last_ping = 2

\* A plausible slip: only slaves that are still online are looked at.
CleanupOnline(t, to) ==
  /\ At(t, "cleanup") /\ Free(slaves_mutex_)
  /\ Changes([s \in Ids |-> IF Dead(s) /\ slaves_[s].is_online THEN None ELSE slaves_[s]])
  /\ Goto(t, to)
  /\ UNCHANGED <<control, queue, total, mutexes, crashed>>

\* cleanupDeadSlaves, of the master thread and of the ping thread.
CleanupDeadSlaves(t, to) ==
  /\ At(t, "cleanup") /\ Free(slaves_mutex_)
  /\ Changes([s \in Ids |-> IF Dead(s) THEN None ELSE slaves_[s]])
  /\ Goto(t, to)
  /\ UNCHANGED <<control, queue, total, mutexes, crashed>>

-------------------------------------------------------------------------------
(***************************************************************************)
(* pingSlaves.                                                             *)
(***************************************************************************)
\* The answer of every slave that is online is taken for granted; the mutex stays
\* locked for the ping interval.
PingSlaves ==
  /\ At("ping", "ping") /\ Free(slaves_mutex_)
  /\ slaves_mutex_' = "ping"
  /\ LET answered(i) == IF i.is_online THEN [i EXCEPT !.last_ping = 0] ELSE i
     IN  slaves_' = Each(answered)
  /\ Goto("ping", "sleep")
  /\ UNCHANGED <<control, queue, total, replication_log_mutex_, stats_mutex_, torn, crashed>>

\* A plausible slip: the mutex is left locked.
PingKeepsMutex ==
  /\ At("ping", "sleep")
  /\ Goto("ping", IF running_ THEN "cleanup" ELSE "exit")
  /\ UNCHANGED <<control, slaves_, queue, total, mutexes, torn, crashed>>

\* The sleep ends, the mutex is released and running_ tested.
PingSlept ==
  /\ At("ping", "sleep")
  /\ slaves_mutex_' = None
  /\ Goto("ping", IF running_ THEN "cleanup" ELSE "exit")
  /\ UNCHANGED <<control, slaves_, queue, total, replication_log_mutex_, stats_mutex_, torn, crashed>>

-------------------------------------------------------------------------------
(***************************************************************************)
(* handleReplicationMessage, for the connection of address a.  A message   *)
(* that is malformed, unknown, or a SYNC_REQUEST changes nothing.          *)
(***************************************************************************)
\* SLAVE_CONNECT.  handleSlaveConnection receives once more, without a mutex, and
\* returns if nothing comes.
SlaveConnect(a) ==
  /\ At(a, "idle") /\ serving
  /\ Goto(a, "connect")
  /\ UNCHANGED <<control, slaves_, queue, total, mutexes, torn, crashed>>

\* The peer is looked up by its address as host: an added slave is not found.  The
\* response may fail to be sent; a slave that is behind is then brought up to date
\* with slaves_mutex_ still locked.
HandleSlaveConnection(a) ==
  LET s == <<"connected", a>>
      old == IF s \in Listed THEN slaves_[s] ELSE NewSlave
  IN
  /\ At(a, "connect") /\ Free(slaves_mutex_)
  /\ \E sent \in BOOLEAN :
       /\ Changes([slaves_ EXCEPT ![s] = [old EXCEPT !.is_online = sent, !.last_ping = 0]])
       /\ IF sent /\ old.replication_offset < replication_offset_
          THEN Goto(a, "sync") /\ slaves_mutex_' = a
          ELSE Goto(a, "idle") /\ UNCHANGED slaves_mutex_
  /\ UNCHANGED <<control, queue, total, replication_log_mutex_, stats_mutex_, crashed>>

SendSyncCommands(a) ==
  /\ At(a, "sync") /\ Free(replication_log_mutex_)
  /\ slaves_' = [slaves_ EXCEPT ![<<"connected", a>>].replication_offset = replication_offset_]
  /\ slaves_mutex_' = None
  /\ Goto(a, "idle")
  /\ UNCHANGED <<control, queue, total, replication_log_mutex_, stats_mutex_, torn, crashed>>

UpdateSlavePing(a) ==
  /\ At(a, "idle") /\ serving /\ Free(slaves_mutex_)
  /\ <<"added", a>> \in Listed
  /\ slaves_' = [slaves_ EXCEPT ![<<"added", a>>].last_ping = 0, ![<<"added", a>>].is_online = TRUE]
  /\ UNCHANGED <<control, queue, total, mutexes, pc, torn, crashed>>

\* A plausible slip: the slave is looked up by its address, like in a handshake.
AckByHost(a, n) ==
  /\ At(a, "idle") /\ serving /\ Free(slaves_mutex_)
  /\ <<"connected", a>> \in Listed
  /\ slaves_' = [slaves_ EXCEPT ![<<"connected", a>>].replication_offset = n]
  /\ UNCHANGED <<control, queue, total, mutexes, pc, torn, crashed>>

\* COMMAND_ACK: any offset the peer likes, of which Next takes the largest: the one that
\* could be ahead of the master.
UpdateSlaveOffset(a, n) ==
  /\ At(a, "idle") /\ serving /\ Free(slaves_mutex_)
  /\ <<"added", a>> \in Listed
  /\ slaves_' = [slaves_ EXCEPT ![<<"added", a>>].replication_offset = n]
  /\ UNCHANGED <<control, queue, total, mutexes, pc, torn, crashed>>

-------------------------------------------------------------------------------
(***************************************************************************)
(* slaveLoop.  The connection is simulated: connectToMaster always         *)
(* succeeds, syncWithMaster reads the number of commands behind the first  *)
(* colon of "SYNC:START:0", which is no number and throws, and the         *)
(* heartbeat is always answered.                                           *)
(***************************************************************************)
SlaveTest ==
  /\ At("slave", "test")
  /\ Goto("slave", CASE ~running_ -> "exit"
                     [] running_ /\ state_ \in {"CONNECTING", "DISCONNECTED"} -> "dial"
                     [] running_ /\ state_ = "CONNECTED" -> "ask"
                     [] running_ /\ state_ = "ONLINE" -> "heartbeat"
                     [] running_ /\ state_ = "ERROR" -> "pause")
  /\ UNCHANGED <<control, slaves_, queue, total, mutexes, torn, crashed>>

\* A plausible repair: the number behind the second colon, 0, is read.
SyncSucceeds == IF pc["slave"] = "ask" THEN "ONLINE" ELSE "CONNECTED"

\* What a round of the loop leaves in state_, if it sets it.
Outcome == IF pc["slave"] = "ask" THEN "ERROR" ELSE "CONNECTED"

SlaveActs ==
  /\ At("slave", pc["slave"]) /\ pc["slave"] \in {"dial", "ask", "heartbeat", "pause"}
  /\ state_' = IF pc["slave"] \in {"dial", "ask"} THEN Outcome ELSE state_
  /\ Goto("slave", "test")
  /\ UNCHANGED <<role_, running_, serving, starts, slaves_, queue, total, mutexes, torn, crashed>>

-------------------------------------------------------------------------------
\* Time passes: every last_ping gets older.
Tick ==
  /\ ~crashed /\ \E s \in Listed : slaves_[s].last_ping < 2
  /\ LET older(i) == [i EXCEPT !.last_ping = IF @ < 2 THEN @ + 1 ELSE 2]
     IN  slaves_' = Each(older)
  /\ UNCHANGED <<control, queue, total, mutexes, pc, torn, crashed>>

StartStep == ServerStarts \/ ServerFails \/ SpawnThreads \/ StartEnds

StopStep == StopServer \/ JoinLoop \/ JoinPing

MasterStep ==
  \/ MasterTest \/ HandleNewSlaveConnections
  \/ ProcessReplicationQueue \/ PopEntry \/ QueueEmptied
  \/ UpdateSlaveStats \/ StoreSlaveStats \/ CheckSlaveHealth
  \/ CleanupDeadSlaves("master", "test")

PingStep == CleanupDeadSlaves("ping", "ping") \/ PingSlaves \/ PingSlept

HandlerStep(a) == HandleSlaveConnection(a) \/ SendSyncCommands(a)

SlaveStep == SlaveTest \/ SlaveActs

Next ==
  \/ \E r \in {"MASTER", "SLAVE"} : InitRole(r)
  \/ StartReplication \/ StartStep \/ StopReplication \/ StopStep
  \/ \E a \in Addrs : AddSlave(a)
  \/ \E s \in Ids : RemoveSlave(s)
  \/ \E c \in Callers : LogReplicationEntry(c) \/ CountCommand(c)
  \/ \E t \in Callers \cup {"master"} : ReplicateToSlaves(t)
  \/ MasterStep \/ PingStep \/ SlaveStep
  \/ \E a \in Addrs : SlaveConnect(a) \/ HandlerStep(a) \/ UpdateSlavePing(a)
  \/ \E a \in Addrs, n \in {MaxCommands} : UpdateSlaveOffset(a, n)
  \/ Tick

Spec == Init /\ [][Next]_vars

\* The scheduler runs every thread that can go on; peers and callers do as they like.
\* The ping thread gets slaves_mutex_ if it is free again and again: nobody else sleeps
\* with it.  The other threads have no such luck, as the ping thread does.
FairSpec ==
  /\ Spec
  /\ WF_vars(StartStep) /\ WF_vars(StopStep)
  /\ WF_vars(MasterStep) /\ SF_vars(PingStep) /\ WF_vars(SlaveStep)
  /\ \A c \in Callers : WF_vars(CountCommand(c))
  /\ \A t \in Callers \cup {"master"} : WF_vars(ReplicateToSlaves(t))
  /\ \A a \in Addrs : WF_vars(HandlerStep(a))
-------------------------------------------------------------------------------
(***************************************************************************)
(* No threads wait for each other in a circle: who waits for a thread that *)
(* itself waits, waits for one that can go on.  handleSlaveConnection      *)
(* locks slaves_mutex_ and then replication_log_mutex_;                    *)
(* processReplicationQueue locks them the other way round, but only for an *)
(* entry past replication_offset_, and logReplicationEntry never leaves    *)
(* one.                                                                    *)
(***************************************************************************)
\* The holder of the mutex that t is about to lock.
Awaited(t) ==
  CASE pc[t] \in {"send", "stats", "health", "cleanup", "ping", "connect"} -> slaves_mutex_
    [] pc[t] \in {"queue", "sync"} -> replication_log_mutex_
    [] pc[t] \in {"total", "stats2"} -> stats_mutex_
    [] OTHER -> None

NoCircularWait ==
  \A t, u, v \in Threads : Awaited(t) = u /\ Awaited(u) = v => Awaited(v) = None

(***************************************************************************)
(* replication_offset_ counts the commands: it is the number of those the  *)
(* statistics have, and of those still on their way.  The queue's run      *)
(* writes back an offset it read earlier, and must lose none meanwhile.    *)
(***************************************************************************)
CommandsCounted ==
  replication_offset_ = total + Cardinality({c \in Callers : pc[c] \in {"send", "total"}})

(***************************************************************************)
(* The master never believes a slave that connected to be ahead of it, so  *)
(* the lag updateSlaveStats computes for it is not negative.  (One that    *)
(* addSlave listed can acknowledge any offset.)                            *)
(***************************************************************************)
SlaveNotAhead ==
  \A s \in Listed : s[1] = "connected" => slaves_[s].replication_offset <= replication_offset_

(***************************************************************************)
(* A slave never comes online: the answer that syncWithMaster simulates    *)
(* cannot be parsed, whatever start, stop and the slave thread do to the   *)
(* state between each other's steps, and slaveLoop has no way out of       *)
(* ERROR.                                                                  *)
(***************************************************************************)
SlaveNeverOnline == role_ = "SLAVE" => state_ # "ONLINE" /\ pc["slave"] # "heartbeat"

(***************************************************************************)
(* stopReplication returns: the threads it joins see running_ and end,     *)
(* whatever mutex they were waiting for.                                   *)
(***************************************************************************)
StopReturns == pc["main"] = "server" ~> (pc["main"] = "idle" \/ crashed)

(***************************************************************************)
(* A running master comes again and again to a list without dead slaves:   *)
(* cleanupDeadSlaves forgets those whose last ping is too old, which every *)
(* slave that addSlave has just listed is.                                 *)
(***************************************************************************)
MasterRuns == running_ /\ pc["master"] # "none" /\ ~crashed

DeadForgotten == MasterRuns ~> (~MasterRuns \/ \A s \in Ids : ~Dead(s))
===============================================================================
