------------------------------ MODULE RedisStore ------------------------------
(***************************************************************************)
(* The data commands of RedisHandler with their two kinds of persistence:  *)
(* the dump file written by SkipList::dump_file and read by load_file, and *)
(* the append-only file.  Handler threads (one per connection), the        *)
(* persistence thread and the main thread run concurrently; the process    *)
(* may be stopped, may crash, and is started again.                        *)
(*                                                                         *)
(* The skip list is the atomic map that SkipListRefinement proves it to be *)
(* for its writers (SkipListReaders covers what an unlocked traversal can  *)
(* meet); replicateCommand is its entry in replication_log_, for init      *)
(* makes the server a master without slaves.  file_writer_ and             *)
(* file_reader_ are members of the one SkipList, so all threads share two  *)
(* streams; a call on a stream is one step.  The command counters, which   *)
(* only INFO reads, are left out.                                          *)
(*                                                                         *)
(* A stored value is <<key, text, marks>>: dump_file writes "key:value;"   *)
(* and load_file takes all behind the colon, so every reload appends a     *)
(* semicolon; marks counts them.                                           *)
(***************************************************************************)
EXTENDS Integers, Sequences

CONSTANTS
  Keys, Values,
  Multiline,     \* the values whose second line has a colon with no number
                 \* before it: dump_file writes such a line as it is
  Cut,           \* what is left of such a value: the text of its first line
  Clients,       \* the threads that run handleClient
  Persister,     \* the thread that runs persistenceLoop
  Main,          \* the thread that runs init and stop
  Commands,      \* the commands clients send
  AofEnabled,
  AofFsyncs,     \* the values aof_fsync_ may have
  MaxCommands,   \* bounds: commands received, starts of the process,
  MaxStarts,
  MaxMarks,      \* semicolons told apart
  MaxReplicationLog   \* max_replication_log_size_

ASSUME StoreAssumption ==
  /\ Keys \subseteq Nat
  /\ Multiline \subseteq Values
  /\ Cut \notin Values
  /\ Persister # Main /\ {Persister, Main} \cap Clients = {}
  /\ Commands \subseteq {"SET", "DEL", "FLUSH", "SAVE", "LOAD"}
  /\ AofEnabled \in BOOLEAN
  /\ AofFsyncs # {} /\ AofFsyncs \subseteq {"always", "everysec", "no"}
  /\ MaxCommands \in Nat /\ MaxStarts \in Nat /\ MaxMarks \in Nat
  /\ MaxReplicationLog \in Nat

Threads == Clients \cup {Persister, Main}
Texts == Values \cup {Cut}
Pairs == Keys \X Texts \X (0 .. MaxMarks)
Garbage == <<>>            \* a line whose key is not a number
NoKey == -1                \* of a request that names no key
NoRequest == <<"none", NoKey, Cut>>
Requests == ((Commands \cap {"SET"}) \X Keys \X Values)
              \cup ((Commands \cap {"DEL"}) \X Keys \X {Cut})
              \cup ((Commands \ {"SET", "DEL"}) \X {NoKey} \X {Cut})

VARIABLES
  \* the files
  disk,      \* the lines of STORE_FILE
  aof,       \* the lines of the append-only file
  \* the process
  phase,     \* down, loading, up, joining, saving: init, start and stop
  dict,      \* the skip list
  wopen, wfail, wbuf,      \* file_writer_: open, failed, lines not yet in the file
  ropen, rfail, rlines,    \* file_reader_: open, failed, lines not yet read
  abuf,      \* aof_stream_: lines not yet in the file
  rlog,      \* replication_log_
  pc, request, cursor,     \* per thread; cursor: the key dump_file wrote last
  commands, starts,
  aof_fsync_,
  \* history, for the properties
  base,      \* per dump or load: the pairs it has to cover
  alone,     \* per dump or load: did no other one overlap it
  saved,     \* pairs a lone SAVE has covered, not deleted since
  torn,      \* has a dump been cut short since
  unlogged   \* keys the log may say something else about than the list

writer == <<wopen, wfail, wbuf>>
loader == <<ropen, rfail, rlines>>
logs == <<aof, abuf, rlog>>
session == <<commands, starts, aof_fsync_>>
history == <<base, alone, saved, torn, unlogged>>
vars == <<disk, logs, phase, dict, writer, loader, pc, request, cursor, session, history>>

Lines(s) == {s[i] : i \in DOMAIN s}
KeysOf(S) == {p[1] : p \in S}

StoreTypeOK ==
  /\ Lines(disk) \cup Lines(wbuf) \cup Lines(rlines) \subseteq Pairs \cup {Garbage}
  /\ Lines(aof) \cup Lines(abuf) \cup Lines(rlog) \subseteq Requests
  /\ Len(rlog) <= MaxReplicationLog
  /\ phase \in {"down", "loading", "up", "joining", "saving"}
  /\ dict \subseteq Pairs
  /\ {wopen, wfail, ropen, rfail, torn} \subseteq BOOLEAN
  /\ pc \in [Threads -> {"none", "recv", "run", "log", "replicate", "reply",
                         "refuse", "open",
                         "dump", "lopen", "lfill", "lread", "sleep", "exit", "failed"}]
  /\ request \in [Threads -> Requests \cup {NoRequest}]
  /\ cursor \in [Threads -> Keys \cup {-1}]
  /\ commands \in 0 .. MaxCommands /\ starts \in 0 .. MaxStarts /\ aof_fsync_ \in AofFsyncs
  /\ base \in [Threads -> SUBSET (Pairs \cup {Garbage})]
  /\ alone \in [Threads -> BOOLEAN]
  /\ saved \subseteq Pairs /\ unlogged \subseteq Keys

Init ==
  /\ disk = <<>> /\ aof = <<>>
  /\ phase = "down" /\ dict = {}
  /\ wopen = FALSE /\ wfail = FALSE /\ wbuf = <<>>
  /\ ropen = FALSE /\ rfail = FALSE /\ rlines = <<>>
  /\ abuf = <<>> /\ rlog = <<>>
  /\ pc = [t \in Threads |-> "none"]
  /\ request = [t \in Threads |-> NoRequest]
  /\ cursor = [t \in Threads |-> -1]
  /\ commands = 0 /\ starts = 0 /\ aof_fsync_ \in AofFsyncs
  /\ base = [t \in Threads |-> {}] /\ alone = [t \in Threads |-> FALSE]
  /\ saved = {} /\ torn = FALSE
  /\ unlogged = IF AofEnabled THEN {} ELSE Keys

Goto(t, l) == pc' = [pc EXCEPT ![t] = l]

-------------------------------------------------------------------------------
(***************************************************************************)
(* SET, DEL and FLUSH: the list first, then the log, then the reply.       *)
(***************************************************************************)
\* A handler blocked in recv() may get a command even after the network server
\* has stopped (TCPServer).
Receive(t, r) ==
  /\ phase \in {"up", "joining", "saving"} /\ pc[t] = "recv" /\ commands < MaxCommands
  /\ commands' = commands + 1
  /\ request' = [request EXCEPT ![t] = r]
  /\ Goto(t, CASE r[1] = "SAVE" -> "open" [] r[1] = "LOAD" -> "lopen" [] OTHER -> "run")
  /\ UNCHANGED <<disk, logs, phase, dict, writer, loader, cursor, starts, aof_fsync_, history>>

\* insert_element on the atomic map: a present key is left alone.
Inserted(p) == IF p[1] \in KeysOf(dict) THEN dict ELSE dict \cup {p}

Without(S, k) == {p \in S : p = Garbage \/ p[1] # k}

\* History: a command has changed key k, or found it as it wants it, while S are
\* the other threads between their change of k and its line in the log.
Changed(k, S) ==
  unlogged' = IF S = {} /\ AofEnabled THEN unlogged \ {k} ELSE unlogged \cup {k}

AboutToLog(t, k) == {u \in Clients \ {t} : pc[u] = "log" /\ request[u][2] = k}

HandleSet(t) ==
  /\ pc[t] = "run" /\ request[t][1] = "SET"
  /\ LET p == <<request[t][2], request[t][3], 0>> IN
       /\ dict' = Inserted(p)
       /\ IF p[1] \in KeysOf(dict)
          THEN Goto(t, "refuse") /\ UNCHANGED unlogged
          ELSE Goto(t, "log") /\ Changed(p[1], AboutToLog(t, p[1]))
  /\ UNCHANGED <<disk, logs, phase, writer, loader, request, cursor, session, base,
                 alone, saved, torn>>

\* A plausible slip: DEL is answered without its line in the log.
HandleDelUnlogged(t) ==
  /\ pc[t] = "run" /\ request[t][1] = "DEL"
  /\ LET k == request[t][2] IN
       /\ dict' = Without(dict, k)
       /\ base' = [u \in Threads |-> Without(base[u], k)]
       /\ saved' = Without(saved, k)
       /\ Changed(k, AboutToLog(t, k))
  /\ Goto(t, "replicate")
  /\ UNCHANGED <<disk, logs, phase, writer, loader, request, cursor, session, alone,
                 torn>>

HandleDel(t) ==
  /\ pc[t] = "run" /\ request[t][1] = "DEL"
  /\ LET k == request[t][2] IN
       /\ dict' = Without(dict, k)
       /\ base' = [u \in Threads |-> Without(base[u], k)]
       /\ saved' = Without(saved, k)
       /\ Changed(k, AboutToLog(t, k))
  /\ Goto(t, "log")
  /\ UNCHANGED <<disk, logs, phase, writer, loader, request, cursor, session, alone,
                 torn>>

\* handleFlush has no code that clears the list.
HandleFlush(t) ==
  /\ pc[t] = "run" /\ request[t][1] = "FLUSH"
  /\ Goto(t, "log")
  /\ UNCHANGED <<disk, logs, phase, dict, writer, loader, request, cursor, session,
                 history>>

\* A plausible slip: `always` flushes before it appends.
FlushedBefore(line) == <<aof \o abuf, <<line>>>>

\* aof_stream_ << line, then flush.
Flushed(line) == <<aof \o Append(abuf, line), <<>>>>

\* appendAOF, under aof_mutex_; with everysec the clock decides.
AppendAOF(t) ==
  /\ pc[t] = "log"
  /\ LET line == request[t] IN
       \/ AofEnabled /\ aof_fsync_ # "no" /\ aof' = Flushed(line)[1] /\ abuf' = Flushed(line)[2]
       \/ AofEnabled /\ aof_fsync_ # "always" /\ abuf' = Append(abuf, line) /\ UNCHANGED aof
       \/ ~AofEnabled /\ UNCHANGED <<aof, abuf>>
  /\ Goto(t, "replicate")
  /\ UNCHANGED <<disk, rlog, phase, dict, writer, loader, request, cursor, session,
                 history>>

\* A plausible slip: replication_log_ is not limited.
LoggedForever(entries) == entries

\* logReplicationEntry: the oldest entry goes when the log is full.
Logged(entries) ==
  IF Len(entries) > MaxReplicationLog THEN Tail(entries) ELSE entries

ReplicateCommand(t) ==
  /\ pc[t] = "replicate"
  /\ rlog' = Logged(Append(rlog, request[t]))
  /\ Goto(t, "reply")
  /\ UNCHANGED <<disk, aof, abuf, phase, dict, writer, loader, request, cursor,
                 session, history>>

\* handleClient sends the response and asks running_ again.
Reply(t) ==
  /\ pc[t] \in {"reply", "refuse"}
  /\ Goto(t, IF phase = "up" THEN "recv" ELSE "exit")
  /\ request' = [request EXCEPT ![t] = NoRequest]
  /\ UNCHANGED <<disk, logs, phase, dict, writer, loader, cursor, session, history>>

-------------------------------------------------------------------------------
(***************************************************************************)
(* dump_file: the SAVE command, the persistence thread and stop().         *)
(***************************************************************************)
Dumping == {t \in Threads : pc[t] = "dump"}

\* dump_file and load_file return: their locals go out of scope.
Return(t) ==
  /\ cursor' = [cursor EXCEPT ![t] = -1]
  /\ base' = [base EXCEPT ![t] = {}]
  /\ alone' = [alone EXCEPT ![t] = FALSE]

\* open() truncates the file and clears the stream's state; on a stream that is
\* already open it only sets failbit.
OpenWriter ==
  IF wopen THEN wfail' = TRUE /\ UNCHANGED <<disk, wopen, wbuf>>
           ELSE wopen' = TRUE /\ wfail' = FALSE /\ disk' = <<>> /\ wbuf' = <<>>

DumpOpen(t) ==
  /\ pc[t] = "open"
  /\ OpenWriter
  /\ cursor' = [cursor EXCEPT ![t] = -1]
  /\ base' = [base EXCEPT ![t] = dict]
  /\ alone' = [u \in Threads |-> IF u = t THEN Dumping = {}
                                 ELSE alone[u] /\ u \notin Dumping]
  /\ Goto(t, "dump")
  /\ UNCHANGED <<logs, phase, dict, loader, request, session, saved, torn,
                 unlogged>>

\* A plausible slip: the loop tests the next node and never writes the last.
AheadButLast(t) == {p \in dict : p[1] > cursor[t] /\ \E q \in dict : q[1] > p[1]}

Ahead(t) == {p \in dict : p[1] > cursor[t]}

DumpLines(p) == IF p[2] \in Multiline THEN <<p, Garbage>> ELSE <<p>>

\* Node by node in the order of the keys.  The pointer to the next node is loaded
\* when the last one is written, so a pair that came since the dump began, that is
\* one outside base, may be passed over (SkipListReaders).
\* operator<< does nothing on a failed stream and fails on a closed one.
DumpNode(t) ==
  /\ pc[t] = "dump"
  /\ \E p \in Ahead(t) :
       /\ \A q \in Ahead(t) \cap base[t] : p[1] <= q[1]
       /\ cursor' = [cursor EXCEPT ![t] = p[1]]
       /\ IF wopen /\ ~wfail THEN wbuf' = wbuf \o DumpLines(p) /\ UNCHANGED wfail
                             ELSE wfail' = TRUE /\ UNCHANGED wbuf
  /\ UNCHANGED <<disk, logs, phase, dict, wopen, loader, pc, request, session, history>>

\* The filebuf of file_writer_ is full.
Spill ==
  /\ wbuf # <<>>
  /\ disk' = disk \o wbuf /\ wbuf' = <<>>
  /\ UNCHANGED <<logs, phase, dict, wopen, wfail, loader, pc, request, cursor, session,
                 history>>

\* flush() and close(): what the filebuf holds reaches the file even on a failed
\* stream; closing a closed stream fails.
DumpClose(t) ==
  /\ pc[t] = "dump" /\ Ahead(t) \cap base[t] = {}
  /\ disk' = disk \o wbuf /\ wbuf' = <<>>
  /\ wopen' = FALSE /\ wfail' = (wfail \/ ~wopen)
  /\ saved' = IF t \in Clients /\ alone[t] THEN saved \cup base[t] ELSE saved
  /\ torn' = (torn \/ ~alone[t])
  /\ Return(t)
  /\ Goto(t, IF t = Persister THEN "sleep" ELSE IF t = Main THEN "exit" ELSE "reply")
  /\ UNCHANGED <<logs, phase, dict, loader, request, session, unlogged>>

-------------------------------------------------------------------------------
(***************************************************************************)
(* load_file: the LOAD command and init.                                  *)
(***************************************************************************)
Loading == {t \in Threads : pc[t] \in {"lfill", "lread"}}

\* As OpenWriter, for reading.
OpenReader ==
  IF ropen THEN rfail' = TRUE /\ UNCHANGED <<ropen, rlines>>
           ELSE ropen' = TRUE /\ rfail' = FALSE /\ rlines' = <<>>

LoadOpen(t) ==
  /\ pc[t] = "lopen"
  /\ OpenReader
  /\ alone' = [u \in Threads |-> IF u = t THEN ~ropen /\ Loading = {}
                                 ELSE alone[u] /\ u \notin Loading]
  /\ Goto(t, "lfill")
  /\ UNCHANGED <<disk, logs, phase, dict, writer, request, cursor, session, base,
                 saved, torn, unlogged>>

\* The first getline reads the file, small enough for one buffer.
LoadFill(t) ==
  /\ pc[t] = "lfill"
  /\ rlines' = IF ropen /\ ~rfail THEN disk ELSE rlines
  /\ base' = [base EXCEPT ![t] = Lines(disk) \ {Garbage}]
  /\ Goto(t, "lread")
  /\ UNCHANGED <<disk, logs, phase, dict, writer, ropen, rfail, request, cursor,
                 session, alone, saved, torn, unlogged>>

\* The value behind the colon: a semicolon more, or the first line of several.
Loaded(p) ==
  IF p[2] \in Multiline THEN <<p[1], Cut, 0>>
  ELSE <<p[1], p[2], IF p[3] < MaxMarks THEN p[3] + 1 ELSE MaxMarks>>

\* A plausible slip: `while (!file_reader_.eof())` drops the last line.
HasLineBeforeLast == ropen /\ ~rfail /\ Len(rlines) > 1

\* getline(file_reader_, line) will succeed.
HasLine == ropen /\ ~rfail /\ rlines # <<>>

LoadLine(t) ==
  /\ pc[t] = "lread" /\ HasLine /\ Head(rlines) # Garbage
  /\ dict' = Inserted(Loaded(Head(rlines)))
  /\ unlogged' = unlogged \cup {Head(rlines)[1]}
  /\ rlines' = Tail(rlines)
  /\ UNCHANGED <<disk, logs, phase, writer, ropen, rfail, pc, request, cursor, session,
                 base, alone, saved, torn>>

\* A plausible slip: the loop runs until eof() and parses an empty line at the end.
LoadThrowsAtEnd(t) ==
  /\ pc[t] = "lread" /\ ~HasLine
  /\ Goto(t, IF t = Main THEN "failed" ELSE "refuse")
  /\ Return(t)
  /\ UNCHANGED <<disk, logs, phase, dict, writer, loader, request, session, saved, torn, unlogged>>

\* stoi throws: load_file is left with file_reader_ open, handleCommand answers
\* "ERR internal error", init fails.
LoadThrows(t) ==
  /\ pc[t] = "lread" /\ HasLine /\ Head(rlines) = Garbage
  /\ rlines' = Tail(rlines)
  /\ Goto(t, IF t = Main THEN "failed" ELSE "refuse")
  /\ Return(t)
  /\ UNCHANGED <<disk, logs, phase, dict, writer, ropen, rfail, request, session,
                 saved, torn, unlogged>>

\* getline fails; close().  In init the server then starts its threads.
LoadEnd(t) ==
  /\ pc[t] = "lread" /\ ~HasLine
  /\ ropen' = FALSE /\ rfail' = TRUE /\ rlines' = <<>>
  /\ phase' = IF t = Main THEN "up" ELSE phase
  /\ pc' = IF t # Main THEN [pc EXCEPT ![t] = "reply"]
           ELSE [u \in Threads |-> CASE u \in Clients -> "recv"
                                     [] u = Persister -> "sleep"
                                     [] OTHER -> "none"]
  /\ Return(t)
  /\ UNCHANGED <<disk, logs, dict, writer, request, session, saved, torn,
                 unlogged>>

-------------------------------------------------------------------------------
(***************************************************************************)
(* The process: init, persistenceLoop, stop, and how it ends.              *)
(***************************************************************************)

\* What the commands of a log leave in an empty list, if those at I are executed.
Replay(log, I) ==
  LET Is(i, c, k) == log[i][1] = c /\ log[i][2] = k IN
    {<<log[i][2], log[i][3], 0>> : i \in {j \in I :
       /\ log[j][1] = "SET"
       /\ \A l \in I : l > j => ~Is(l, "DEL", log[j][2])
       /\ \A h \in I : h < j /\ Is(h, "SET", log[j][2]) =>
            \E l \in I : h < l /\ l < j /\ Is(l, "DEL", log[j][2])}}

\* RedisProtocol::parse looks at the first character, and only an array, "*",
\* becomes a command.  appendAOF writes "SET k v", "DEL k" and "FLUSH".
FirstCharacter == [SET |-> "S", DEL |-> "D", FLUSH |-> "F"]

IsCommand(line) == FirstCharacter[line[1]] = "*"

\* loadAOF hands every line to handleCommand.
LoadAOF == Replay(aof, {i \in DOMAIN aof : IsCommand(aof[i])})

Start ==
  /\ phase = "down" /\ starts < MaxStarts
  /\ starts' = starts + 1
  /\ phase' = "loading"
  /\ dict' = IF AofEnabled THEN LoadAOF ELSE {}
  /\ Goto(Main, "lopen")
  /\ UNCHANGED <<disk, logs, writer, loader, request, cursor, commands, aof_fsync_, history>>

PersistTick ==
  /\ pc[Persister] = "sleep" /\ phase = "up"
  /\ Goto(Persister, "open")
  /\ UNCHANGED <<disk, logs, phase, dict, writer, loader, request, cursor, session,
                 history>>

PersistExit ==
  /\ pc[Persister] = "sleep" /\ phase # "up"
  /\ Goto(Persister, "exit")
  /\ UNCHANGED <<disk, logs, phase, dict, writer, loader, request, cursor, session,
                 history>>

\* stop(): running_ = false, the network server stops, ...
Stop ==
  /\ phase = "up"
  /\ phase' = "joining"
  /\ UNCHANGED <<disk, logs, dict, writer, loader, pc, request, cursor, session,
                 history>>

\* ... the persistence thread is joined, the data saved.  Handlers are detached
\* threads that nobody waits for.
Join ==
  /\ phase = "joining" /\ pc[Persister] = "exit"
  /\ phase' = "saving"
  /\ Goto(Main, "open")
  /\ UNCHANGED <<disk, logs, dict, writer, loader, request, cursor, session, history>>

\* The process is gone; the destructors flush its streams only if it exits.
EndProcess(flush) ==
  /\ disk' = IF flush THEN disk \o wbuf ELSE disk
  /\ aof' = IF flush THEN aof \o abuf ELSE aof
  /\ phase' = "down" /\ dict' = {}
  /\ wopen' = FALSE /\ wfail' = FALSE /\ wbuf' = <<>>
  /\ ropen' = FALSE /\ rfail' = FALSE /\ rlines' = <<>>
  /\ abuf' = <<>> /\ rlog' = <<>>
  /\ pc' = [t \in Threads |-> "none"]
  /\ request' = [t \in Threads |-> NoRequest]
  /\ cursor' = [t \in Threads |-> -1]
  /\ base' = [t \in Threads |-> {}] /\ alone' = [t \in Threads |-> FALSE]
  /\ torn' = (torn \/ wopen) /\ unlogged' = Keys
  /\ UNCHANGED <<session, saved>>

\* main() returns: after stop(), or because init failed.
Exit == pc[Main] \in {"exit", "failed"} /\ EndProcess(TRUE)

Crash == phase # "down" /\ EndProcess(FALSE)

-------------------------------------------------------------------------------
ThreadStep(t) ==
  \/ HandleSet(t) \/ HandleDel(t) \/ HandleFlush(t) \/ AppendAOF(t)
  \/ ReplicateCommand(t) \/ Reply(t)
  \/ DumpOpen(t) \/ DumpNode(t) \/ DumpClose(t)
  \/ LoadOpen(t) \/ LoadFill(t) \/ LoadLine(t) \/ LoadThrows(t) \/ LoadEnd(t)

ProcessStep == PersistExit \/ Join \/ Exit

Next ==
  \/ \E t \in Clients, r \in Requests : Receive(t, r)
  \/ \E t \in Threads : ThreadStep(t)
  \/ Spill \/ PersistTick \/ Start \/ Stop \/ Crash
  \/ ProcessStep

Spec == Init /\ [][Next]_vars

-------------------------------------------------------------------------------
(***************************************************************************)
(* A dump that no other dump overlaps leaves in the file every pair that   *)
(* was in the list from its opening to its closing (dump_file).            *)
(***************************************************************************)
DumpEnds(t) == pc[t] = "dump" /\ pc'[t] \in {"reply", "sleep", "exit"}

LoneDumpComplete ==
  [][\A t \in Threads : DumpEnds(t) /\ alone[t] => base[t] \subseteq Lines(disk')]_vars

(***************************************************************************)
(* A load that no other load overlaps, and that ends, has brought in every *)
(* key of the file that was not deleted meanwhile (load_file).             *)
(***************************************************************************)
LoadEnds(t) == pc[t] = "lread" /\ pc'[t] \in {"reply", "none"} /\ phase' # "down"

LoneLoadComplete ==
  [][\A t \in Threads : LoadEnds(t) /\ alone[t] => KeysOf(base[t]) \subseteq KeysOf(dict')]_vars

(***************************************************************************)
(* What a lone SAVE has covered survives any number of stops, crashes and  *)
(* restarts, as long as no dump was cut short by a crash or an exit or     *)
(* disturbed by another dump.                                              *)
(***************************************************************************)
SavedSurvives ==
  phase = "up" /\ ~torn => KeysOf(saved) \subseteq KeysOf(dict)

(***************************************************************************)
(* With aof_fsync "always" no write is answered, or handed to replication, *)
(* before its line is in the append-only file: a crash loses no line that  *)
(* a client or a slave may know of (appendAOF, handleSet, handleDel).      *)
(***************************************************************************)
LoggedFirst ==
  AofEnabled /\ aof_fsync_ = "always" =>
    /\ Lines(rlog) \subseteq Lines(aof)
    /\ \A t \in Clients : pc[t] = "reply" /\ request[t][1] \in {"SET", "DEL", "FLUSH"} =>
         request[t] \in Lines(aof)

(***************************************************************************)
(* The log, with what is still buffered, gives the data: a key is in the   *)
(* list iff the last line about it is a SET.  This is so for each key that *)
(* the process itself has changed, once the line is written, unless two    *)
(* commands changed it one within the other: handleSet and handleDel take  *)
(* mtx for the list and aof_mutex_ for the log one after the other.        *)
(***************************************************************************)
LastLine(log, k) ==
  {i \in DOMAIN log : log[i][2] = k /\ \A j \in DOMAIN log : log[j][2] = k => j <= i}

LogGivesData ==
  phase = "up" =>
    LET log == aof \o abuf IN
      \A k \in Keys \ unlogged : AboutToLog(Main, k) = {} =>
        (k \in KeysOf(dict) <=> \E i \in LastLine(log, k) : log[i][1] = "SET")

(***************************************************************************)
(* A start fails only over a data file with a line that stands for no      *)
(* pair, which the dump of a value of several lines writes (load_file in   *)
(* init).  Neither a crash in a dump nor two dumps at once make one.       *)
(***************************************************************************)
FailsOverGarbage == pc[Main] = "failed" => Garbage \in Lines(disk)

(***************************************************************************)
(* README.md:12, "write operations are appended to the log in real time, a *)
(* restart can restore all data": a server that has started has the keys   *)
(* of its append-only file.  The code does not keep this.                  *)
(***************************************************************************)
AofRestores ==
  [][phase = "loading" /\ phase' = "up" => KeysOf(Replay(aof, DOMAIN aof)) \subseteq KeysOf(dict')]_vars
===============================================================================
