---------------------------- MODULE RedisStoreProofs ----------------------------
(***************************************************************************)
(* Proofs about RedisStore.  The inductive invariant has five parts: the   *)
(* types and places of the threads (Shape); what a dump that no other one  *)
(* overlaps has put into file_writer_ and the file (Dumps); the same for a *)
(* load and file_reader_ (Loads); where the keys of a finished SAVE are at *)
(* every stage of the process (Saves); and the append-only file (Appends). *)
(***************************************************************************)
EXTENDS RedisStore, TLAPS

Writes == {r \in Requests : r[1] \in {"SET", "DEL", "FLUSH"}}
FileLines == Pairs \cup {Garbage}

-------------------------------------------------------------------------------
(* Shape: types, and who is where in which phase. *)

Types ==
  /\ disk \in Seq(FileLines) /\ wbuf \in Seq(FileLines) /\ rlines \in Seq(FileLines)
  /\ aof \in Seq(Writes) /\ abuf \in Seq(Writes) /\ rlog \in Seq(Writes)
  /\ Len(rlog) <= MaxReplicationLog
  /\ phase \in {"down", "loading", "up", "joining", "saving"}
  /\ dict \subseteq Pairs
  /\ pc \in [Threads -> {"none", "recv", "run", "log", "replicate", "reply",
                         "refuse", "open",
                         "dump", "lopen", "lfill", "lread", "sleep", "exit", "failed"}]
  /\ request \in [Threads -> Requests \cup {NoRequest}]
  /\ cursor \in [Threads -> Keys \cup {-1}]
  /\ commands \in 0 .. MaxCommands /\ starts \in 0 .. MaxStarts /\ aof_fsync_ \in AofFsyncs
  /\ base \in [Threads -> SUBSET (Pairs \cup {Garbage})]
  /\ alone \in [Threads -> BOOLEAN]
  /\ saved \subseteq Pairs /\ unlogged \subseteq Keys

Switches == {wopen, wfail, ropen, rfail, torn} \subseteq BOOLEAN

\* A key has one value.
OneValue == \A p, q \in dict : p[1] = q[1] => p = q

Places ==
  /\ \A t \in Clients :
       /\ pc[t] \notin {"sleep", "failed"}
       /\ pc[t] \in {"run", "log", "replicate"} => request[t] \in Writes
       /\ pc[t] \in {"open", "dump"} => request[t][1] = "SAVE"
       /\ pc[t] \in {"lopen", "lfill", "lread"} => request[t][1] = "LOAD"
  /\ pc[Persister] \in {"none", "sleep", "open", "dump", "exit"}
  /\ pc[Main] \in {"none", "lopen", "lfill", "lread", "failed", "open", "dump", "exit"}
  /\ pc[Main] = "none" <=> phase \in {"down", "up", "joining"}
  /\ pc[Main] \in {"lopen", "lfill", "lread", "failed"} <=> phase = "loading"
  /\ phase \in {"down", "loading"} => \A t \in Threads \ {Main} : pc[t] = "none"
  /\ phase = "down" => dict = {}

Shape == Types /\ Switches /\ OneValue /\ Places

-------------------------------------------------------------------------------
(* Dumps: a lone dump has written every pair of base behind its cursor. *)

DumpOf(t) ==
  /\ Dumping = {t} /\ wopen /\ ~wfail
  /\ base[t] \subseteq dict
  /\ \A p \in base[t] : p[1] > cursor[t] \/ p \in Lines(disk) \/ p \in Lines(wbuf)

Dumps ==
  /\ wopen => Dumping # {}
  /\ ~wopen => wbuf = <<>>
  /\ \A t \in Threads : pc[t] = "dump" /\ alone[t] => DumpOf(t)

-------------------------------------------------------------------------------
(* Loads: a lone load has read every key of base, or still has it before it. *)

LoadOf(t) ==
  /\ Loading = {t} /\ ropen /\ ~rfail
  /\ pc[t] = "lread" =>
       /\ Garbage \notin base[t]
       /\ \A p \in base[t] :
            p[1] \in KeysOf(dict) \/ \E q \in Lines(rlines) : q # Garbage /\ q[1] = p[1]

Loads ==
  /\ \A t \in Threads : pc[t] \in {"lfill", "lread"} /\ alone[t] => LoadOf(t)
  /\ phase = "down" \/ pc[Main] = "lopen" => ~ropen
  /\ pc[Main] \in {"lfill", "lread"} => alone[Main]
  /\ pc[Main] = "lread" => Lines(rlines) \subseteq Lines(disk)
  /\ pc[Main] = "failed" => Garbage \in Lines(disk)

-------------------------------------------------------------------------------
(* Saves: where the keys of a finished SAVE are. *)

Covers(S) == \A p \in saved : \E q \in S : q # Garbage /\ q[1] = p[1]

Saves ==
  ~torn =>
    /\ ~wopen => Covers(Lines(disk))
    /\ phase \in {"up", "joining", "saving"} => Covers(dict)
    /\ \A t \in Threads : pc[t] = "dump" /\ alone[t] => Covers(base[t])
    /\ pc[Main] = "lread" => Covers(base[Main])

-------------------------------------------------------------------------------
(* Appends: the append-only file. *)

SetLast(log, k) == \E i \in LastLine(log, k) : log[i][1] = "SET"

\* Client u has changed k, or found it as it wants it, and has not written its line.
Pending(u, k) == pc[u] = "log" /\ request[u][2] = k

\* For a key that is not in unlogged at most one line is still to come: with it, or without
\* any, the log gives the data.
LogMatches ==
  \A k \in Keys \ unlogged :
    /\ (\A u \in Clients : ~Pending(u, k)) =>
         (k \in KeysOf(dict) <=> SetLast(aof \o abuf, k))
    /\ \A u \in Clients : Pending(u, k) =>
         /\ k \in KeysOf(dict) <=> request[u][1] = "SET"
         /\ \A v \in Clients : Pending(v, k) => v = u

\* A command that is behind its line in the log is in the file.
Durable ==
  AofEnabled /\ aof_fsync_ = "always" =>
    /\ Lines(rlog) \subseteq Lines(aof)
    /\ \A t \in Clients :
         pc[t] = "replicate" \/ (pc[t] = "reply" /\ request[t][1] \in {"SET", "DEL", "FLUSH"}) =>
           request[t] \in Lines(aof)

Appends == Durable /\ LogMatches /\ (AofEnabled \/ unlogged = Keys)

Inv == Shape /\ Dumps /\ Loads /\ Saves /\ Appends

-------------------------------------------------------------------------------
(* The operators of the model. *)

\* The lines of a file that was extended, and of one that was read.
LEMMA LinesConcat ==
  ASSUME NEW S, NEW a \in Seq(S), NEW b \in Seq(S)
  PROVE  a \o b \in Seq(S) /\ Lines(a \o b) = Lines(a) \cup Lines(b)
  <1>1. /\ a \o b \in Seq(S) /\ Len(a \o b) = Len(a) + Len(b)
        /\ Len(a) \in Nat /\ Len(b) \in Nat
        /\ DOMAIN a = 1 .. Len(a) /\ DOMAIN b = 1 .. Len(b)
        /\ DOMAIN (a \o b) = 1 .. Len(a) + Len(b)
        /\ \A i \in 1 .. Len(a) + Len(b) :
             (a \o b)[i] = IF i <= Len(a) THEN a[i] ELSE b[i - Len(a)]
    OBVIOUS
  <1>2. Lines(a \o b) \subseteq Lines(a) \cup Lines(b)
    BY <1>1 DEF Lines
  <1>3. Lines(a) \subseteq Lines(a \o b)
    BY <1>1 DEF Lines
  <1>4. ASSUME NEW i \in 1 .. Len(b) PROVE b[i] \in Lines(a \o b)
    <2>1. Len(a) + i \in 1 .. Len(a) + Len(b) /\ (a \o b)[Len(a) + i] = b[i]
      BY <1>1
    <2> QED BY <1>1, <2>1 DEF Lines
  <1> QED BY <1>1, <1>2, <1>3, <1>4 DEF Lines

\* A file with one more line.
LEMMA LinesAppend ==
  ASSUME NEW S, NEW a \in Seq(S), NEW e \in S
  PROVE  Append(a, e) \in Seq(S) /\ Lines(Append(a, e)) = Lines(a) \cup {e}
  <1>1. /\ Append(a, e) \in Seq(S) /\ Len(Append(a, e)) = Len(a) + 1 /\ Len(a) \in Nat
        /\ DOMAIN a = 1 .. Len(a) /\ DOMAIN Append(a, e) = 1 .. Len(a) + 1
        /\ \A i \in 1 .. Len(a) + 1 : Append(a, e)[i] = IF i <= Len(a) THEN a[i] ELSE e
    OBVIOUS
  <1>2. Lines(Append(a, e)) \subseteq Lines(a) \cup {e}
    BY <1>1 DEF Lines
  <1>3. Lines(a) \subseteq Lines(Append(a, e))
    BY <1>1 DEF Lines
  <1>4. e \in Lines(Append(a, e))
    <2>1. Len(a) + 1 \in DOMAIN Append(a, e) /\ Append(a, e)[Len(a) + 1] = e
      BY <1>1
    <2> QED BY <2>1 DEF Lines
  <1> QED BY <1>1, <1>2, <1>3, <1>4

\* A file is its first line and the rest.
LEMMA LinesTail ==
  ASSUME NEW S, NEW a \in Seq(S), a # <<>>
  PROVE  /\ Head(a) \in S /\ Tail(a) \in Seq(S) /\ Len(Tail(a)) = Len(a) - 1
         /\ Lines(a) = {Head(a)} \cup Lines(Tail(a))
  <1>1. /\ Tail(a) \in Seq(S) /\ Len(Tail(a)) = Len(a) - 1 /\ Len(a) \in Nat /\ Len(a) > 0
        /\ Head(a) = a[1] /\ Head(a) \in S
        /\ DOMAIN a = 1 .. Len(a) /\ DOMAIN Tail(a) = 1 .. Len(a) - 1
        /\ \A i \in 1 .. Len(a) - 1 : Tail(a)[i] = a[i + 1]
    OBVIOUS
  <1>2. Lines(Tail(a)) \subseteq Lines(a) /\ Head(a) \in Lines(a)
    BY <1>1 DEF Lines
  <1>3. ASSUME NEW i \in 1 .. Len(a) PROVE a[i] \in {Head(a)} \cup Lines(Tail(a))
    <2>1. CASE i = 1 BY <1>1, <2>1
    <2>2. CASE i # 1
      <3>1. i - 1 \in 1 .. Len(a) - 1 /\ Tail(a)[i - 1] = a[i]
        BY <1>1, <2>2
      <3> QED BY <1>1, <3>1 DEF Lines
    <2> QED BY <2>1, <2>2
  <1> QED BY <1>1, <1>2, <1>3 DEF Lines

\* A truncated file has no line.
LEMMA LinesEmpty == \A S : <<>> \in Seq(S) /\ Lines(<<>>) = {} /\ Len(<<>>) = 0
  BY DEF Lines

\* The lines of a file are of the type of the file.
LEMMA LinesType == ASSUME NEW S, NEW a \in Seq(S) PROVE Lines(a) \subseteq S
  BY DEF Lines

\* A pair is a line of the data file that has a number before the colon.
LEMMA PairFacts ==
  \A p \in Pairs : p[1] \in Keys /\ p[1] \in Nat /\ p[2] \in Texts /\ p[3] \in 0 .. MaxMarks
                     /\ p = <<p[1], p[2], p[3]>> /\ p # Garbage
  <1> SUFFICES ASSUME NEW p \in Pairs
               PROVE  /\ p[1] \in Keys /\ p[1] \in Nat /\ p[2] \in Texts /\ p[3] \in 0 .. MaxMarks
                      /\ p = <<p[1], p[2], p[3]>> /\ p # Garbage
    OBVIOUS
  <1>1. /\ p[1] \in Keys /\ p[2] \in Texts /\ p[3] \in 0 .. MaxMarks
        /\ p = <<p[1], p[2], p[3]>>
    BY DEF Pairs
  <1>2. p # <<>>
    <2>1. Len(<<p[1], p[2], p[3]>>) = 3 /\ Len(<<>>) = 0
      OBVIOUS
    <2> QED BY <1>1, <2>1
  <1> QED BY <1>1, <1>2, StoreAssumption DEF Garbage

\* Only SET and DEL name a key; the other commands have NoKey, which is none.
LEMMA RequestFacts ==
  \A r \in Requests :
    /\ r[1] \in Commands /\ r[1] # "none"
    /\ r[1] = "SET" => r[2] \in Keys /\ r[3] \in Values
    /\ r[1] = "DEL" => r[2] \in Keys
    /\ r[1] \notin {"SET", "DEL"} => r[2] \notin Keys
  BY StoreAssumption DEF Requests, NoKey

\* No line of the append-only file is a command to loadAOF.
LEMMA NothingReplayed == ASSUME aof \in Seq(Writes) PROVE LoadAOF = {}
  <1>1. \A i \in DOMAIN aof : aof[i][1] \in {"SET", "DEL", "FLUSH"}
    BY DEF Writes
  <1>2. \A i \in DOMAIN aof : ~IsCommand(aof[i])
    BY <1>1 DEF IsCommand, FirstCharacter
  <1>3. {i \in DOMAIN aof : IsCommand(aof[i])} = {}
    BY <1>2
  <1> QED BY <1>3 DEF LoadAOF, Replay

\* insert_element adds its key, if it is not there, and changes nothing else.
LEMMA InsertedFacts ==
  ASSUME dict \subseteq Pairs, OneValue, NEW p \in Pairs
  PROVE  /\ dict \subseteq Inserted(p) /\ Inserted(p) \subseteq Pairs
         /\ \A q, r \in Inserted(p) : q[1] = r[1] => q = r
         /\ \A k : k \in KeysOf(Inserted(p)) <=> k \in KeysOf(dict) \/ k = p[1]
  BY DEF Inserted, KeysOf, OneValue

\* A line that is read back has the key it was written with.
LEMMA LoadedFacts ==
  ASSUME NEW p \in Pairs PROVE Loaded(p) \in Pairs /\ Loaded(p)[1] = p[1]
  <1>1. (IF p[3] < MaxMarks THEN p[3] + 1 ELSE MaxMarks) \in 0 .. MaxMarks
    BY PairFacts, StoreAssumption
  <1> QED BY <1>1, PairFacts, StoreAssumption DEF Loaded, Pairs, Texts

\* What dump_file writes for a pair contains the pair.
LEMMA DumpLinesFacts ==
  ASSUME NEW p \in Pairs
  PROVE  DumpLines(p) \in Seq(FileLines) /\ p \in Lines(DumpLines(p))
  <1>1. p \in FileLines /\ Garbage \in FileLines
    BY DEF FileLines
  <1> HIDE DEF FileLines
  <1>2. <<p>> \in Seq(FileLines) /\ <<p, Garbage>> \in Seq(FileLines)
    BY <1>1
  <1>3. 1 \in DOMAIN <<p>> /\ 1 \in DOMAIN <<p, Garbage>> /\ <<p>>[1] = p /\ <<p, Garbage>>[1] = p
    OBVIOUS
  <1>4. p \in Lines(<<p>>) /\ p \in Lines(<<p, Garbage>>)
    BY <1>3 DEF Lines
  <1> QED BY <1>2, <1>4 DEF DumpLines

-------------------------------------------------------------------------------
(* Preservation of Shape. *)

\* The steps of a thread t, and those of the process.
StepOf(t) == (t \in Clients /\ \E r \in Requests : Receive(t, r)) \/ ThreadStep(t)
StepOfProcess == Spill \/ PersistTick \/ Start \/ Stop \/ PersistExit \/ Join
Ends == (pc[Main] \in {"exit", "failed"} \/ phase # "down") /\ \E f \in BOOLEAN : EndProcess(f)

\* A step is one of a thread, one of main, or the end of the process.
LEMMA NextCases == Next => (\E t \in Threads : StepOf(t)) \/ StepOfProcess \/ Ends
  BY DEF Next, StepOf, StepOfProcess, Ends, ProcessStep, Exit, Crash, Threads

\* Who logs a command, and who dumps, is where.
LEMMA AtLog ==
  ASSUME Shape, NEW t \in Threads, pc[t] \in {"log", "replicate"}
  PROVE  t \in Clients /\ request[t] \in Writes
  BY StoreAssumption DEF Shape, Places, Threads

\* A lone dump, somewhere in its loop.
LEMMA AtDump ==
  ASSUME Shape, Dumps, NEW t \in Threads, pc[t] = "dump", alone[t]
  PROVE  DumpOf(t) /\ base[t] \subseteq Pairs
  BY DEF Shape, Types, Dumps, DumpOf

\* Types of one step of a thread.
LEMMA TypesOfThread ==
  ASSUME Shape, Dumps, NEW t \in Threads, StepOf(t)
  PROVE  Types' /\ OneValue'
  <1> USE DEF Shape, Types, OneValue, Goto, writer, loader, logs, session, history
  <1>1. CASE t \in Clients /\ \E r \in Requests : Receive(t, r)
    BY <1>1, StoreAssumption DEF Receive
  <1>2. CASE HandleSet(t)
    <2> DEFINE p == <<request[t][2], request[t][3], 0>>
    <2>1. p \in Pairs /\ p[1] \in Keys
      BY <1>2, RequestFacts, StoreAssumption DEF HandleSet, NoRequest, Pairs, Texts
    <2>2. dict' = Inserted(p) /\ unlogged' \subseteq Keys
      BY <1>2, <2>1 DEF HandleSet, Changed
    <2>3. dict' \subseteq Pairs /\ \A q, r \in dict' : q[1] = r[1] => q = r
      BY <2>1, <2>2, InsertedFacts
    <2>4. pc' \in [Threads -> {"none", "recv", "run", "log", "replicate", "reply", "refuse", "open",
                               "dump", "lopen", "lfill", "lread", "sleep", "exit", "failed"}]
      BY <1>2 DEF HandleSet
    <2> QED BY <1>2, <2>2, <2>3, <2>4 DEF HandleSet
  <1>3. CASE HandleDel(t)
    <2>1. request[t][2] \in Keys
      BY <1>3, RequestFacts DEF HandleDel, NoRequest
    <2>2. unlogged' \subseteq Keys
      BY <1>3, <2>1 DEF HandleDel, Changed
    <2>3. dict' \subseteq dict /\ saved' \subseteq saved
      BY <1>3 DEF HandleDel, Without
    <2>4. base' \in [Threads -> SUBSET (Pairs \cup {Garbage})]
      BY <1>3 DEF HandleDel, Without
    <2> QED BY <1>3, <2>2, <2>3, <2>4 DEF HandleDel
  <1>4. CASE HandleFlush(t)
    BY <1>4 DEF HandleFlush
  <1>5. CASE AppendAOF(t)
    <2>1. request[t] \in Writes
      BY <1>5, AtLog DEF AppendAOF
    <2>2. Append(abuf, request[t]) \in Seq(Writes)
      BY <2>1, LinesAppend
    <2>3. aof \o Append(abuf, request[t]) \in Seq(Writes) /\ <<>> \in Seq(Writes)
      BY <2>2, LinesConcat, LinesEmpty
    <2>4. aof' \in Seq(Writes) /\ abuf' \in Seq(Writes)
      BY <1>5, <2>2, <2>3 DEF AppendAOF, Flushed
    <2> QED BY <1>5, <2>4 DEF AppendAOF
  <1>6. CASE ReplicateCommand(t)
    <2> DEFINE entries == Append(rlog, request[t])
    <2>1. request[t] \in Writes
      BY <1>6, AtLog DEF ReplicateCommand
    <2>2. entries \in Seq(Writes) /\ Len(entries) = Len(rlog) + 1 /\ entries # <<>>
      BY <2>1
    <2>3. Tail(entries) \in Seq(Writes) /\ Len(Tail(entries)) = Len(entries) - 1
      BY <2>2, LinesTail
    <2>4. rlog' \in Seq(Writes) /\ Len(rlog') <= MaxReplicationLog
      <3>1. rlog' = Logged(entries) /\ Len(rlog) \in Nat
        BY <1>6 DEF ReplicateCommand
      <3> HIDE DEF entries
      <3> QED BY <2>2, <2>3, <3>1, StoreAssumption DEF Logged
    <2> QED BY <1>6, <2>4 DEF ReplicateCommand
  <1>7. CASE Reply(t)
    BY <1>7 DEF Reply
  <1>8. CASE DumpOpen(t)
    BY <1>8, LinesEmpty DEF DumpOpen, OpenWriter
  <1>9. CASE DumpNode(t)
    <2>1. PICK p \in dict :
            /\ cursor' = [cursor EXCEPT ![t] = p[1]]
            /\ wbuf' = wbuf \/ wbuf' = wbuf \o DumpLines(p)
      BY <1>9 DEF DumpNode, Ahead
    <2>2. DumpLines(p) \in Seq(FileLines) /\ p[1] \in Keys
      BY <2>1, PairFacts, DumpLinesFacts
    <2>3. wbuf' \in Seq(FileLines)
      <3>1. wbuf \o DumpLines(p) \in Seq(FileLines)
        BY <2>2, LinesConcat
      <3> QED BY <2>1, <3>1
    <2>4. cursor' \in [Threads -> Keys \cup {-1}]
      BY <2>1, <2>2
    <2> QED BY <1>9, <2>3, <2>4 DEF DumpNode
  <1>10. CASE DumpClose(t)
    <2>1. disk' \in Seq(FileLines) /\ wbuf' \in Seq(FileLines)
      BY <1>10, LinesConcat, LinesEmpty DEF DumpClose
    <2>2. saved' \subseteq Pairs
      BY <1>10, AtDump DEF DumpClose, DumpOf
    <2>3. pc' \in [Threads -> {"none", "recv", "run", "log", "replicate", "reply", "refuse", "open",
                               "dump", "lopen", "lfill", "lread", "sleep", "exit", "failed"}]
      BY <1>10 DEF DumpClose
    <2> QED BY <1>10, <2>1, <2>2, <2>3 DEF DumpClose, Return
  <1>11. CASE LoadOpen(t)
    BY <1>11, LinesEmpty DEF LoadOpen, OpenReader
  <1>12. CASE LoadFill(t)
    <2>1. rlines' \in Seq(FileLines)
      BY <1>12 DEF LoadFill
    <2>2. Lines(disk) \ {Garbage} \subseteq Pairs \cup {Garbage}
      BY LinesType DEF FileLines
    <2>3. base' \in [Threads -> SUBSET (Pairs \cup {Garbage})]
      BY <1>12, <2>2 DEF LoadFill
    <2> QED BY <1>12, <2>1, <2>3 DEF LoadFill
  <1>13. CASE LoadLine(t)
    <2> DEFINE p == Head(rlines)
    <2>1. rlines # <<>> /\ p # Garbage
      BY <1>13 DEF LoadLine, HasLine
    <2>2. p \in FileLines /\ Tail(rlines) \in Seq(FileLines)
      BY <2>1, LinesTail
    <2>3. p \in Pairs
      BY <2>1, <2>2 DEF FileLines
    <2>4. Loaded(p) \in Pairs /\ p[1] \in Keys
      BY <2>3, LoadedFacts, PairFacts
    <2>5. dict' \subseteq Pairs /\ \A q, r \in dict' : q[1] = r[1] => q = r
      BY <1>13, <2>4, InsertedFacts DEF LoadLine
    <2> QED BY <1>13, <2>2, <2>4, <2>5 DEF LoadLine
  <1>14. CASE LoadThrows(t)
    BY <1>14, LinesTail DEF LoadThrows, Return, HasLine
  <1>15. CASE LoadEnd(t)
    BY <1>15, LinesEmpty DEF LoadEnd, Return
  <1> QED
    BY <1>1, <1>2, <1>3, <1>4, <1>5, <1>6, <1>7, <1>8, <1>9, <1>10, <1>11, <1>12, <1>13, <1>14,
       <1>15
    DEF StepOf, ThreadStep

\* Types of a step of the process as a whole.
LEMMA TypesOfProcess == ASSUME Shape, StepOfProcess PROVE Types' /\ OneValue'
  <1> USE DEF Shape, Types, OneValue, Goto, writer, loader, logs, session, history
  <1>0. Main \in Threads /\ Persister \in Threads
    BY DEF Threads
  <1>1. CASE Spill
    BY <1>1, LinesConcat, LinesEmpty DEF Spill
  <1>2. CASE PersistTick BY <1>0, <1>2 DEF PersistTick
  <1>3. CASE Start BY <1>0, <1>3, NothingReplayed, StoreAssumption DEF Start
  <1>4. CASE Stop BY <1>4 DEF Stop
  <1>5. CASE PersistExit BY <1>0, <1>5 DEF PersistExit
  <1>6. CASE Join BY <1>0, <1>6 DEF Join
  <1> QED BY <1>1, <1>2, <1>3, <1>4, <1>5, <1>6 DEF StepOfProcess

\* Types when the process is gone.
LEMMA TypesOfEnd == ASSUME Shape, Ends PROVE Types' /\ OneValue'
  <1> USE DEF Shape, Types, OneValue, session
  <1>1. PICK f \in BOOLEAN : EndProcess(f)
    BY DEF Ends
  <1>2. disk \o wbuf \in Seq(FileLines) /\ aof \o abuf \in Seq(Writes)
    BY LinesConcat
  <1>3. disk' \in Seq(FileLines) /\ aof' \in Seq(Writes)
    BY <1>1, <1>2 DEF EndProcess
  <1>4. <<>> \in Seq(FileLines) /\ <<>> \in Seq(Writes) /\ Len(<<>>) = 0
    BY LinesEmpty
  <1>5. NoRequest \in Requests \cup {NoRequest} /\ -1 \in Keys \cup {-1}
    OBVIOUS
  <1> HIDE DEF NoRequest
  <1>6. dict' = {} /\ saved' \subseteq Pairs /\ unlogged' \subseteq Keys
    BY <1>1 DEF EndProcess
  <1> QED BY <1>1, <1>3, <1>4, <1>5, <1>6, StoreAssumption DEF EndProcess

\* The flags of the two streams.
LEMMA SwitchesInv ==
  ASSUME Shape, (\E t \in Threads : StepOf(t)) \/ StepOfProcess \/ Ends
  PROVE  Switches'
  <1> USE DEF Shape, Switches, writer, loader, logs, session, history
  <1>1. CASE \E t \in Threads : StepOf(t)
    <2>1. PICK t \in Threads : StepOf(t) BY <1>1
    <2>2. alone[t] \in BOOLEAN BY DEF Types
    <2>3. CASE DumpOpen(t) BY <2>3, Zenon DEF DumpOpen, OpenWriter
    <2>4. CASE DumpNode(t) BY <2>4, Zenon DEF DumpNode
    <2>5. CASE DumpClose(t) BY <2>2, <2>5, Zenon DEF DumpClose
    <2>6. CASE LoadOpen(t) BY <2>6, Zenon DEF LoadOpen, OpenReader
    <2>7. CASE LoadEnd(t) BY <2>7, Zenon DEF LoadEnd
    <2>8. CASE UNCHANGED <<wopen, wfail, ropen, rfail, torn>> BY <2>8
    <2> QED
      BY <2>1, <2>3, <2>4, <2>5, <2>6, <2>7, <2>8
      DEF StepOf, ThreadStep, Receive, HandleSet, HandleDel, HandleFlush, AppendAOF,
          ReplicateCommand, Reply, LoadFill, LoadLine, LoadThrows
  <1>2. CASE StepOfProcess
    <2>1. UNCHANGED <<wopen, wfail, ropen, rfail, torn>>
      BY <1>2 DEF StepOfProcess, Spill, PersistTick, Start, Stop, PersistExit, Join
    <2> QED BY <2>1
  <1>3. CASE Ends
    BY <1>3, Zenon DEF Ends, EndProcess
  <1> QED BY <1>1, <1>2, <1>3

\* Who is where.
LEMMA PlacesInv ==
  ASSUME Shape, (\E t \in Threads : StepOf(t)) \/ StepOfProcess \/ Ends
  PROVE  Places'
  <1>0. /\ pc \in [Threads -> {"none", "recv", "run", "log", "replicate", "reply", "refuse", "open",
                               "dump", "lopen", "lfill", "lread", "sleep", "exit", "failed"}]
        /\ request \in [Threads -> Requests \cup {NoRequest}]
        /\ aof \in Seq(Writes)
        /\ Clients \subseteq Threads /\ Main \in Threads /\ Persister \in Threads
        /\ Main \notin Clients /\ Persister \notin Clients /\ Main # Persister
        /\ \A t \in Threads : t \in Clients \/ t = Main \/ t = Persister
    BY StoreAssumption DEF Shape, Types, Threads
  <1> USE <1>0 DEF Shape, Places, Goto, writer, loader, logs, session, history
  <1>1. CASE \E t \in Threads : StepOf(t)
    <2>0. PICK t \in Threads : StepOf(t) BY <1>1
    <2>1. CASE t \in Clients /\ \E r \in Requests : Receive(t, r)
      <3>1. PICK r \in Requests : Receive(t, r) BY <2>1
      <3>2. CASE r[1] = "SAVE" BY <2>1, <3>1, <3>2 DEF Receive
      <3>3. CASE r[1] = "LOAD" BY <2>1, <3>1, <3>3 DEF Receive
      <3>4. CASE r[1] \notin {"SAVE", "LOAD"}
        <4>1. r \in Writes BY <3>4, RequestFacts, StoreAssumption DEF Writes
        <4> QED BY <2>1, <3>1, <3>4, <4>1 DEF Receive
      <3> QED BY <3>2, <3>3, <3>4
    <2>2. CASE HandleSet(t) BY <2>2 DEF HandleSet
    <2>3. CASE HandleDel(t) BY <2>3 DEF HandleDel
    <2>4. CASE HandleFlush(t) BY <2>4 DEF HandleFlush
    <2>5. CASE AppendAOF(t) BY <2>5 DEF AppendAOF
    <2>6. CASE ReplicateCommand(t) BY <2>6 DEF ReplicateCommand
    <2>7. CASE Reply(t) BY <2>7 DEF Reply
    <2>8. CASE DumpOpen(t) BY <2>8 DEF DumpOpen
    <2>9. CASE DumpNode(t) BY <2>9 DEF DumpNode
    <2>10. CASE DumpClose(t) BY <2>10 DEF DumpClose
    <2>11. CASE LoadOpen(t) BY <2>11 DEF LoadOpen
    <2>12. CASE LoadFill(t) BY <2>12 DEF LoadFill
    <2>13. CASE LoadLine(t) BY <2>13 DEF LoadLine
    <2>14. CASE LoadThrows(t) BY <2>14 DEF LoadThrows
    <2>15. CASE LoadEnd(t) BY <2>15 DEF LoadEnd
    <2> QED
      BY <2>0, <2>1, <2>2, <2>3, <2>4, <2>5, <2>6, <2>7, <2>8, <2>9, <2>10, <2>11, <2>12, <2>13,
         <2>14, <2>15
      DEF StepOf, ThreadStep
  <1>2. CASE StepOfProcess
    <2>1. CASE Spill BY <2>1 DEF Spill
    <2>2. CASE PersistTick BY <2>2 DEF PersistTick
    <2>3. CASE Start BY <2>3, NothingReplayed DEF Start
    <2>4. CASE Stop BY <2>4 DEF Stop
    <2>5. CASE PersistExit BY <2>5 DEF PersistExit
    <2>6. CASE Join BY <2>6 DEF Join
    <2> QED BY <1>2, <2>1, <2>2, <2>3, <2>4, <2>5, <2>6 DEF StepOfProcess
  <1>3. CASE Ends
    BY <1>3 DEF Ends, EndProcess
  <1> QED BY <1>1, <1>2, <1>3

\* Shape is preserved, given what a lone dump has in base.
LEMMA ShapeInv == ASSUME Shape, Dumps, Next PROVE Shape'
  BY NextCases, TypesOfThread, TypesOfProcess, TypesOfEnd, SwitchesInv, PlacesInv DEF Shape

-------------------------------------------------------------------------------
(* Preservation of Dumps. *)

\* A step that neither writes nor forgets a pair of a dump under way.
LEMMA DumpsFrame ==
  ASSUME Dumps, dict \subseteq dict', UNCHANGED <<disk, wopen, wfail, wbuf>>,
         \A u \in Threads : pc'[u] = "dump" <=> pc[u] = "dump",
         \A u \in Threads : pc[u] = "dump" => UNCHANGED <<alone[u], base[u], cursor[u]>>
  PROVE  Dumps'
  <1>1. Dumping' = Dumping BY DEF Dumping
  <1> QED BY <1>1 DEF Dumps, DumpOf, Dumping

\* The steps outside dump_file, DEL excepted.
LEMMA DumpsElsewhere ==
  ASSUME Shape, Dumps, NEW t \in Threads,
         \/ t \in Clients /\ \E r \in Requests : Receive(t, r)
         \/ HandleSet(t) \/ HandleFlush(t) \/ AppendAOF(t) \/ ReplicateCommand(t) \/ Reply(t)
         \/ LoadOpen(t) \/ LoadFill(t) \/ LoadLine(t) \/ LoadThrows(t) \/ LoadEnd(t)
  PROVE  Dumps'
  <1>0. /\ pc = [u \in Threads |-> pc[u]] /\ alone = [u \in Threads |-> alone[u]]
        /\ base = [u \in Threads |-> base[u]] /\ cursor = [u \in Threads |-> cursor[u]]
        /\ \A u \in Threads : alone[u] \in BOOLEAN
    BY DEF Shape, Types
  <1>1. dict \subseteq dict' /\ UNCHANGED <<disk, wopen, wfail, wbuf>>
    BY DEF Receive, HandleSet, HandleFlush, AppendAOF, ReplicateCommand, Reply, LoadOpen,
           LoadFill, LoadLine, LoadThrows, LoadEnd, Inserted, writer, loader, logs
  <1> USE <1>0 DEF Goto, history, Return
  <1>2. /\ \A u \in Threads : pc'[u] = "dump" <=> pc[u] = "dump"
        /\ \A u \in Threads : pc[u] = "dump" => UNCHANGED <<alone[u], base[u], cursor[u]>>
    <2>1. CASE t \in Clients /\ \E r \in Requests : Receive(t, r) BY <2>1 DEF Receive
    <2>2. CASE HandleSet(t) BY <2>2 DEF HandleSet
    <2>3. CASE HandleFlush(t) BY <2>3 DEF HandleFlush
    <2>4. CASE AppendAOF(t) BY <2>4 DEF AppendAOF
    <2>5. CASE ReplicateCommand(t) BY <2>5 DEF ReplicateCommand
    <2>6. CASE Reply(t) BY <2>6 DEF Reply
    <2>7. CASE LoadOpen(t) BY <2>7 DEF LoadOpen, Loading
    <2>8. CASE LoadFill(t) BY <2>8 DEF LoadFill
    <2>9. CASE LoadLine(t) BY <2>9 DEF LoadLine
    <2>10. CASE LoadThrows(t) BY <2>10 DEF LoadThrows
    <2>11. CASE LoadEnd(t)
      <3>1. t = Main => \A u \in Threads : pc[u] # "dump"
        BY <2>11 DEF LoadEnd, Shape, Places
      <3> QED BY <2>11, <3>1 DEF LoadEnd
    <2> QED BY <2>1, <2>2, <2>3, <2>4, <2>5, <2>6, <2>7, <2>8, <2>9, <2>10, <2>11
  <1> QED BY <1>1, <1>2, DumpsFrame

\* Dumps is preserved: a lone dump finds the list as it left it, or larger.
LEMMA DumpsInv == ASSUME Shape, Dumps, Next PROVE Dumps'
  <1>0. /\ pc = [u \in Threads |-> pc[u]] /\ alone = [u \in Threads |-> alone[u]]
        /\ base = [u \in Threads |-> base[u]] /\ cursor = [u \in Threads |-> cursor[u]]
        /\ disk \in Seq(FileLines) /\ wbuf \in Seq(FileLines) /\ dict \subseteq Pairs
        /\ aof \in Seq(Writes) /\ Main \in Threads /\ Persister \in Threads
        /\ OneValue
    BY DEF Shape, Types, Threads
  <1>1. ASSUME NEW t \in Threads, StepOf(t) PROVE Dumps'
    <2>1. CASE HandleDel(t)
      <3>1. /\ UNCHANGED <<disk, wopen, wfail, wbuf, alone, cursor>>
            /\ \A u \in Threads : pc'[u] = "dump" <=> pc[u] = "dump"
            /\ \A u \in Threads : base'[u] \subseteq base[u] /\ (base[u] \subseteq dict => base'[u] \subseteq dict')
        BY <1>0, <2>1 DEF HandleDel, Goto, Without, writer
      <3>2. Dumping' = Dumping BY <3>1 DEF Dumping
      <3> QED BY <3>1, <3>2 DEF Dumps, DumpOf, Dumping
    <2>2. CASE DumpOpen(t)
      <3>1. /\ Dumping' = Dumping \cup {t} /\ dict' = dict
            /\ \A u \in Threads : pc'[u] = "dump" /\ alone'[u] => u = t /\ Dumping = {}
        BY <1>0, <2>2 DEF DumpOpen, Goto, Dumping
      <3>2. wopen'
        BY <2>2 DEF DumpOpen, OpenWriter
      <3>3. Dumping = {} => wopen' /\ ~wfail' /\ base'[t] = dict /\ cursor'[t] = -1
        BY <1>0, <2>2 DEF DumpOpen, OpenWriter, Dumps
      <3>4. \A p \in dict : p[1] > -1
        BY <1>0, PairFacts
      <3> QED BY <3>1, <3>2, <3>3, <3>4 DEF Dumps, DumpOf
    <2>3. CASE DumpNode(t)
      <3>1. PICK p \in Ahead(t) :
              /\ \A q \in Ahead(t) \cap base[t] : p[1] <= q[1]
              /\ cursor' = [cursor EXCEPT ![t] = p[1]]
              /\ IF wopen /\ ~wfail THEN wbuf' = wbuf \o DumpLines(p) /\ UNCHANGED wfail
                                    ELSE wfail' = TRUE /\ UNCHANGED wbuf
        BY <2>3 DEF DumpNode
      <3>2. UNCHANGED <<disk, wopen, dict, pc, base, alone>> /\ Dumping' = Dumping /\ pc[t] = "dump"
        BY <2>3 DEF DumpNode, Dumping, history
      <3>3. ~wopen => wbuf' = wbuf
        BY <3>1
      <3>4. ASSUME NEW u \in Threads, pc[u] = "dump", alone[u] PROVE DumpOf(u)'
        <4>1. u = t /\ DumpOf(t) BY <3>2, <3>4 DEF Dumps, DumpOf, Dumping
        <4>2. wbuf' = wbuf \o DumpLines(p) /\ wfail' = wfail
          BY <3>1, <4>1 DEF DumpOf
        <4>3. p \in dict BY <3>1 DEF Ahead
        <4>4. DumpLines(p) \in Seq(FileLines) /\ p \in Lines(DumpLines(p))
          BY <1>0, <4>3, DumpLinesFacts
        <4>5. Lines(wbuf') = Lines(wbuf) \cup Lines(DumpLines(p))
          BY <1>0, <4>2, <4>4, LinesConcat
        <4>6. ASSUME NEW q \in base[t], q \notin Lines(disk'), q \notin Lines(wbuf')
              PROVE  q[1] > cursor'[t]
          <5>1. q \in dict /\ q[1] > cursor[t] /\ q # p
            BY <3>2, <4>1, <4>4, <4>5, <4>6 DEF DumpOf
          <5>2. p[1] <= q[1] /\ q[1] # p[1]
            BY <1>0, <3>1, <4>3, <5>1 DEF Ahead, OneValue
          <5> QED BY <1>0, <3>1, <4>3, <5>1, <5>2, PairFacts
        <4> QED BY <3>2, <4>1, <4>2, <4>6 DEF DumpOf
      <3> QED BY <3>2, <3>3, <3>4 DEF Dumps
    <2>4. CASE DumpClose(t)
      <3>1. t \in Dumping /\ ~wopen' /\ wbuf' = <<>>
        BY <2>4 DEF DumpClose, Dumping
      <3>2. ASSUME NEW u \in Threads, pc'[u] = "dump", alone'[u] PROVE FALSE
        <4>1. pc'[t] # "dump"
          BY <1>0, <2>4 DEF DumpClose, Goto
        <4>2. u # t /\ pc[u] = "dump" /\ alone[u]
          BY <1>0, <2>4, <3>2, <4>1 DEF DumpClose, Goto, Return
        <4> QED BY <3>1, <4>2 DEF Dumps, DumpOf
      <3> QED BY <3>1, <3>2 DEF Dumps
    <2> QED BY <1>1, <2>1, <2>2, <2>3, <2>4, DumpsElsewhere DEF StepOf, ThreadStep
  <1>2. CASE StepOfProcess
    <2>1. CASE Spill
      <3>1. /\ Lines(disk') = Lines(disk) \cup Lines(wbuf) /\ wbuf' = <<>>
            /\ UNCHANGED <<dict, wopen, wfail, pc, cursor, base, alone>>
        BY <1>0, <2>1, LinesConcat DEF Spill, history
      <3>2. Dumping' = Dumping BY <3>1 DEF Dumping
      <3> QED BY <3>1, <3>2 DEF Dumps, DumpOf
    <2>2. CASE ~Spill
      <3>1. /\ UNCHANGED <<disk, wopen, wfail, wbuf, alone, base, cursor>>
            /\ \A u \in Threads : pc'[u] = "dump" <=> pc[u] = "dump"
            /\ dict \subseteq dict'
        BY <1>0, <1>2, <2>2
        DEF StepOfProcess, PersistTick, Start, Stop, PersistExit, Join, Goto, writer, history,
            Shape, Places
      <3> QED BY <3>1, DumpsFrame
    <2> QED BY <2>1, <2>2
  <1>3. CASE Ends
    BY <1>3 DEF Ends, EndProcess, Dumps
  <1> QED BY <1>1, <1>2, <1>3, NextCases

-------------------------------------------------------------------------------
(* Preservation of Loads. *)

\* A step that neither reads nor forgets a key of a load under way.
LEMMA LoadsFrame ==
  ASSUME Loads, UNCHANGED <<ropen, rfail, rlines>>,
         \A k : k \in KeysOf(dict) => k \in KeysOf(dict'),
         \A u \in Threads : (pc'[u] = "lfill" <=> pc[u] = "lfill") /\ (pc'[u] = "lread" <=> pc[u] = "lread"),
         \A u \in Threads : pc[u] \in {"lfill", "lread"} => UNCHANGED <<alone[u], base[u]>>,
         Main \in Threads,
         pc'[Main] = "lopen" <=> pc[Main] = "lopen", pc'[Main] = "failed" <=> pc[Main] = "failed",
         phase' = "down" => phase = "down",
         pc[Main] \in {"lread", "failed"} => UNCHANGED disk
  PROVE  Loads'
  <1>1. Loading' = Loading BY DEF Loading
  <1>2. \A u \in Threads : LoadOf(u) /\ UNCHANGED <<alone[u], base[u]>> => LoadOf(u)'
    BY <1>1 DEF LoadOf
  <1> QED BY <1>1, <1>2 DEF Loads

\* The steps outside load_file, DEL excepted.
LEMMA LoadsElsewhere ==
  ASSUME Shape, Dumps, Loads, NEW t \in Threads,
         \/ t \in Clients /\ \E r \in Requests : Receive(t, r)
         \/ HandleSet(t) \/ HandleFlush(t) \/ AppendAOF(t) \/ ReplicateCommand(t) \/ Reply(t)
         \/ DumpOpen(t) \/ DumpNode(t) \/ DumpClose(t)
  PROVE  Loads'
  <1>0. /\ pc = [u \in Threads |-> pc[u]] /\ alone = [u \in Threads |-> alone[u]]
        /\ base = [u \in Threads |-> base[u]]
        /\ \A u \in Threads : alone[u] \in BOOLEAN
        /\ Main \in Threads /\ Main \notin Clients
    BY StoreAssumption DEF Shape, Types, Threads
  <1>1. /\ dict \subseteq dict' /\ UNCHANGED <<ropen, rfail, rlines, phase>>
    BY DEF Receive, HandleSet, HandleFlush, AppendAOF, ReplicateCommand, Reply, DumpOpen,
           DumpNode, DumpClose, Inserted, loader
  <1>2. pc[t] \notin {"none", "lopen", "lfill", "lread", "failed"}
    BY DEF Receive, HandleSet, HandleFlush, AppendAOF, ReplicateCommand, Reply, DumpOpen,
           DumpNode, DumpClose
  <1>3. t \in Clients \/ t = Persister \/ t = Main BY DEF Threads
  <1>4. t = Main => pc'[Main] \notin {"lopen", "lfill", "lread", "failed"}
    BY <1>0, <1>2 DEF Shape, Places, Goto, HandleSet, HandleFlush, AppendAOF,
       ReplicateCommand, Reply, DumpOpen, DumpNode, DumpClose
  <1>5. pc[Main] \in {"lread", "failed"} => FALSE
    BY <1>0, <1>2 DEF Shape, Places
  <1> USE <1>0 DEF Goto, history, Return
  <1>6. /\ \A u \in Threads : u # t => pc'[u] = pc[u]
        /\ pc'[t] \notin {"lfill", "lread"}
        /\ \A u \in Threads : u # t /\ pc[u] \in {"lfill", "lread"} => UNCHANGED <<alone[u], base[u]>>
    <2>1. CASE t \in Clients /\ \E r \in Requests : Receive(t, r) BY <2>1 DEF Receive
    <2>2. CASE HandleSet(t) BY <2>2 DEF HandleSet
    <2>3. CASE HandleFlush(t) BY <2>3 DEF HandleFlush
    <2>4. CASE AppendAOF(t) BY <2>4 DEF AppendAOF
    <2>5. CASE ReplicateCommand(t) BY <2>5 DEF ReplicateCommand
    <2>6. CASE Reply(t) BY <2>6 DEF Reply
    <2>7. CASE DumpOpen(t) BY <2>7 DEF DumpOpen, Dumping
    <2>8. CASE DumpNode(t) BY <2>8 DEF DumpNode
    <2>9. CASE DumpClose(t) BY <2>9 DEF DumpClose
    <2> QED BY <2>1, <2>2, <2>3, <2>4, <2>5, <2>6, <2>7, <2>8, <2>9
  <1>7. \A k : k \in KeysOf(dict) => k \in KeysOf(dict')
    BY <1>1 DEF KeysOf
  <1> QED BY <1>1, <1>2, <1>4, <1>5, <1>6, <1>7, LoadsFrame

\* Loads is preserved: what a lone load takes out of the stream goes into the list.
LEMMA LoadsInv == ASSUME Shape, Dumps, Loads, Next PROVE Loads'
  <1>0. /\ pc = [u \in Threads |-> pc[u]] /\ alone = [u \in Threads |-> alone[u]]
        /\ base = [u \in Threads |-> base[u]]
        /\ \A u \in Threads : alone[u] \in BOOLEAN
        /\ disk \in Seq(FileLines) /\ rlines \in Seq(FileLines) /\ dict \subseteq Pairs
        /\ \A u \in Threads : base[u] \subseteq FileLines
        /\ aof \in Seq(Writes) /\ Main \in Threads /\ Persister \in Threads /\ Main # Persister
        /\ Main \notin Clients
        /\ \A u \in Threads \ {Main} : phase = "loading" => pc[u] = "none"
        /\ OneValue
    BY StoreAssumption DEF Shape, Types, Threads, Places, FileLines
  <1>1. ASSUME NEW t \in Threads, StepOf(t) PROVE Loads'
    <2>1. CASE HandleDel(t)
      <3> DEFINE k == request[t][2]
      <3>1. /\ UNCHANGED <<ropen, rfail, rlines, alone, phase>>
            /\ \A u \in Threads : u # t => pc'[u] = pc[u]
            /\ pc[t] = "run" /\ pc'[t] = "log"
            /\ dict' = Without(dict, k)
            /\ \A u \in Threads : base'[u] = Without(base[u], k)
        BY <1>0, <2>1 DEF HandleDel, Goto, loader
      <3>2. t # Main
        BY <3>1 DEF Shape, Places
      <3>3. Loading' = Loading BY <3>1 DEF Loading
      <3>4. ASSUME NEW u \in Threads, LoadOf(u), pc[u] \in {"lfill", "lread"} PROVE LoadOf(u)'
        BY <3>1, <3>3, <3>4 DEF LoadOf, Without, KeysOf
      <3>5. pc[Main] \notin {"lopen", "lfill", "lread", "failed"}
        BY <1>0, <3>1, <3>2 DEF Shape, Places
      <3>6. \A u \in Threads : pc'[u] \in {"lfill", "lread"} => pc[u] = pc'[u]
        BY <3>1
      <3> HIDE DEF k
      <3> QED BY <1>0, <3>1, <3>2, <3>4, <3>5, <3>6 DEF Loads
    <2>2. CASE LoadOpen(t)
      <3>1. /\ Loading' = Loading \cup {t} /\ pc'[t] = "lfill" /\ pc[t] = "lopen"
            /\ \A u \in Threads : u # t => pc'[u] = pc[u]
            /\ UNCHANGED <<disk, phase, dict>>
        BY <1>0, <2>2 DEF LoadOpen, Goto, Loading
      <3>2. ASSUME NEW u \in Threads, pc'[u] \in {"lfill", "lread"}, alone'[u]
            PROVE  u = t /\ Loading = {} /\ ~ropen
        BY <1>0, <2>2, <3>1, <3>2 DEF LoadOpen, Loading
      <3>3. ~ropen => ropen' /\ ~rfail'
        BY <2>2 DEF LoadOpen, OpenReader
      <3>4. t = Main => alone'[Main]
        <4> SUFFICES ASSUME t = Main PROVE alone'[Main] OBVIOUS
        <4>1. ~ropen BY <3>1 DEF Loads
        <4>2. Loading = {}
          BY <1>0, <3>1 DEF Loading, Shape, Places
        <4> QED BY <1>0, <2>2, <4>1, <4>2 DEF LoadOpen
      <3>5. t # Main => pc[Main] \notin {"lopen", "lfill", "lread", "failed"} /\ phase # "down"
        BY <1>0, <3>1 DEF Shape, Places
      <3>6. phase # "down"
        BY <1>0, <3>1, <3>5 DEF Shape, Places
      <3> QED BY <1>0, <3>1, <3>2, <3>3, <3>4, <3>5, <3>6 DEF Loads, LoadOf
    <2>3. CASE LoadFill(t)
      <3>1. /\ Loading' = Loading /\ pc'[t] = "lread" /\ pc[t] = "lfill"
            /\ \A u \in Threads : u # t => pc'[u] = pc[u] /\ base'[u] = base[u]
            /\ base'[t] = Lines(disk) \ {Garbage}
            /\ rlines' = IF ropen /\ ~rfail THEN disk ELSE rlines
            /\ UNCHANGED <<disk, phase, dict, ropen, rfail, alone>>
        BY <1>0, <2>3 DEF LoadFill, Goto, Loading
      <3>2. ASSUME NEW u \in Threads, pc'[u] \in {"lfill", "lread"}, alone'[u] PROVE LoadOf(u)'
        <4>1. pc[u] \in {"lfill", "lread"} /\ alone[u] BY <3>1, <3>2
        <4>2. u = t /\ ropen /\ ~rfail /\ Loading = {t}
          BY <3>1, <4>1 DEF Loads, LoadOf, Loading
        <4> QED BY <3>1, <4>2 DEF LoadOf
      <3>3. t = Main => alone[Main] /\ ropen /\ ~rfail
        BY <1>0, <3>1 DEF Loads, LoadOf
      <3>4. t # Main => pc[Main] \notin {"lopen", "lfill", "lread", "failed"} /\ phase # "down"
        BY <1>0, <3>1 DEF Shape, Places
      <3>5. phase # "down"
        BY <1>0, <3>1, <3>4 DEF Shape, Places
      <3> QED BY <1>0, <3>1, <3>2, <3>3, <3>4, <3>5 DEF Loads
    <2>4. CASE LoadLine(t)
      <3> DEFINE p == Head(rlines)
      <3>1. /\ rlines # <<>> /\ p # Garbage /\ rlines' = Tail(rlines) /\ pc[t] = "lread"
            /\ dict' = Inserted(Loaded(p))
            /\ UNCHANGED <<disk, phase, ropen, rfail, alone, pc, base>>
        BY <2>4 DEF LoadLine, HasLine
      <3>2. p \in FileLines /\ Lines(rlines) = {p} \cup Lines(rlines')
        BY <1>0, <3>1, LinesTail
      <3>3. p \in Pairs BY <3>1, <3>2 DEF FileLines
      <3>4. \A k : k \in KeysOf(dict') <=> k \in KeysOf(dict) \/ k = p[1]
        BY <1>0, <3>1, <3>3, LoadedFacts, InsertedFacts
      <3>5. Loading' = Loading BY <3>1 DEF Loading
      <3> HIDE DEF p
      <3>6. \A u \in Threads : LoadOf(u) => LoadOf(u)'
        BY <3>1, <3>2, <3>4, <3>5 DEF LoadOf
      <3> QED BY <3>1, <3>2, <3>6 DEF Loads
    <2>5. CASE LoadThrows(t)
      <3>1. /\ rlines # <<>> /\ Head(rlines) = Garbage /\ rlines' = Tail(rlines)
            /\ pc[t] = "lread" /\ pc'[t] = (IF t = Main THEN "failed" ELSE "refuse")
            /\ UNCHANGED <<disk, phase, dict, ropen, rfail>>
            /\ \A u \in Threads : u # t => UNCHANGED <<pc[u], base[u], alone[u]>>
        BY <1>0, <2>5 DEF LoadThrows, HasLine, Goto, Return
      <3>2. ASSUME NEW u \in Threads, pc'[u] \in {"lfill", "lread"}, alone'[u] PROVE FALSE
        BY <3>1, <3>2 DEF Loads, LoadOf, Loading
      <3>3. Garbage \in Lines(rlines)
        BY <1>0, <3>1, LinesTail
      <3>4. t # Main => pc[Main] \notin {"lopen", "lfill", "lread", "failed"} /\ phase # "down"
        BY <1>0, <3>1 DEF Shape, Places
      <3>5. phase # "down"
        BY <1>0, <3>1, <3>4 DEF Shape, Places
      <3> QED BY <1>0, <3>1, <3>2, <3>3, <3>4, <3>5 DEF Loads
    <2>6. CASE LoadEnd(t)
      <3>1. /\ pc[t] = "lread" /\ pc'[t] \notin {"lopen", "lfill", "lread", "failed"}
            /\ phase' = (IF t = Main THEN "up" ELSE phase)
        BY <1>0, <2>6, StoreAssumption DEF LoadEnd, Threads
      <3>2. ASSUME NEW u \in Threads, pc'[u] \in {"lfill", "lread"}, alone'[u] PROVE FALSE
        <4>1. u # t BY <3>1, <3>2
        <4>2. pc[u] \in {"lfill", "lread"} /\ alone[u]
          BY <1>0, <2>6, <3>2, <4>1 DEF LoadEnd, Return
        <4> QED BY <3>1, <4>1, <4>2 DEF Loads, LoadOf, Loading
      <3>3. t # Main => pc[Main] \notin {"lopen", "lfill", "lread", "failed"} /\ phase # "down"
        BY <1>0, <3>1 DEF Shape, Places
      <3>4. pc'[Main] \notin {"lopen", "lfill", "lread", "failed"}
        BY <1>0, <2>6, <3>1, <3>3 DEF LoadEnd
      <3> QED BY <1>0, <3>1, <3>2, <3>3, <3>4 DEF Loads
    <2> QED BY <1>1, <2>1, <2>2, <2>3, <2>4, <2>5, <2>6, LoadsElsewhere DEF StepOf, ThreadStep
  <1>2. CASE StepOfProcess
    <2>1. CASE Start
      <3>1. /\ phase = "down" /\ pc'[Main] = "lopen" /\ phase' = "loading"
            /\ UNCHANGED <<ropen, rfail, rlines>>
            /\ \A u \in Threads \ {Main} : pc'[u] = pc[u] /\ pc[u] = "none"
        BY <1>0, <2>1 DEF Start, Goto, loader, Shape, Places
      <3> QED BY <1>0, <3>1 DEF Loads
    <2>2. CASE ~Start
      <3>1. /\ UNCHANGED <<ropen, rfail, rlines, alone, base, dict>>
            /\ \A u \in Threads : (pc'[u] = "lfill" <=> pc[u] = "lfill") /\ (pc'[u] = "lread" <=> pc[u] = "lread")
            /\ pc'[Main] = "lopen" <=> pc[Main] = "lopen"
            /\ pc'[Main] = "failed" <=> pc[Main] = "failed"
            /\ phase' = "down" => phase = "down"
        BY <1>0, <1>2, <2>2
        DEF StepOfProcess, Spill, PersistTick, Stop, PersistExit, Join, Goto, loader, history,
            Shape, Places
      <3>2. pc[Main] \in {"lread", "failed"} => UNCHANGED disk
        <4>1. CASE Spill
          <5>1. wopen BY <4>1 DEF Spill, Dumps
          <5>2. PICK u \in Threads : pc[u] = "dump" BY <5>1 DEF Dumps, Dumping
          <5> QED BY <1>0, <5>2 DEF Shape, Places
        <4>2. CASE ~Spill
          BY <1>2, <2>2, <4>2 DEF StepOfProcess, PersistTick, Stop, PersistExit, Join
        <4> QED BY <4>1, <4>2
      <3> QED BY <1>0, <3>1, <3>2, LoadsFrame
    <2> QED BY <2>1, <2>2
  <1>3. CASE Ends
    BY <1>0, <1>3 DEF Ends, EndProcess, Loads
  <1> QED BY <1>1, <1>2, <1>3, NextCases

-------------------------------------------------------------------------------
(* Preservation of Saves. *)

Serving == {"up", "joining", "saving"}

\* A step that opens, closes and ends nothing.
LEMMA SavesFrame ==
  ASSUME Saves, UNCHANGED <<saved, torn>>, dict \subseteq dict',
         ~wopen' => ~wopen /\ UNCHANGED disk,
         phase' \in Serving => phase \in Serving,
         \A u \in Threads : pc'[u] = "dump" => pc[u] = "dump" /\ UNCHANGED <<alone[u], base[u]>>,
         pc'[Main] = "lread" => pc[Main] = "lread" /\ UNCHANGED base[Main]
  PROVE  Saves'
  BY DEF Saves, Covers, Serving

\* All steps of the threads but those of DEL and the ends of dump_file and load_file.
LEMMA SavesElsewhere ==
  ASSUME Shape, Saves, NEW t \in Threads,
         \/ t \in Clients /\ \E r \in Requests : Receive(t, r)
         \/ HandleSet(t) \/ HandleFlush(t) \/ AppendAOF(t) \/ ReplicateCommand(t) \/ Reply(t)
         \/ DumpNode(t) \/ LoadOpen(t) \/ LoadLine(t) \/ LoadThrows(t)
         \/ t # Main /\ (LoadFill(t) \/ LoadEnd(t))
  PROVE  Saves'
  <1>0. /\ pc = [u \in Threads |-> pc[u]] /\ alone = [u \in Threads |-> alone[u]]
        /\ base = [u \in Threads |-> base[u]]
        /\ \A u \in Threads : alone[u] \in BOOLEAN
        /\ Main \in Threads /\ Main \notin Clients
    BY StoreAssumption DEF Shape, Types, Threads
  <1>1. dict \subseteq dict' /\ UNCHANGED <<saved, torn, disk, wopen, phase>>
    BY DEF Receive, HandleSet, HandleFlush, AppendAOF, ReplicateCommand, Reply, DumpNode, LoadOpen,
           LoadFill, LoadLine, LoadThrows, LoadEnd, Inserted, writer, history
  <1> USE <1>0 DEF Goto, history, Return
  <1>2. /\ \A u \in Threads : pc'[u] = "dump" => pc[u] = "dump" /\ UNCHANGED <<alone[u], base[u]>>
        /\ pc'[Main] = "lread" => pc[Main] = "lread" /\ UNCHANGED base[Main]
    <2>1. CASE t \in Clients /\ \E r \in Requests : Receive(t, r) BY <2>1 DEF Receive
    <2>2. CASE HandleSet(t) BY <2>2 DEF HandleSet
    <2>3. CASE HandleFlush(t) BY <2>3 DEF HandleFlush
    <2>4. CASE AppendAOF(t) BY <2>4 DEF AppendAOF
    <2>5. CASE ReplicateCommand(t) BY <2>5 DEF ReplicateCommand
    <2>6. CASE Reply(t) BY <2>6 DEF Reply
    <2>7. CASE DumpNode(t) BY <2>7 DEF DumpNode
    <2>8. CASE LoadOpen(t) BY <2>8 DEF LoadOpen, Loading
    <2>9. CASE LoadLine(t) BY <2>9 DEF LoadLine
    <2>10. CASE LoadThrows(t) BY <2>10 DEF LoadThrows
    <2>11. CASE t # Main /\ LoadFill(t) BY <2>11 DEF LoadFill
    <2>12. CASE t # Main /\ LoadEnd(t) BY <2>12 DEF LoadEnd
    <2> QED BY <2>1, <2>2, <2>3, <2>4, <2>5, <2>6, <2>7, <2>8, <2>9, <2>10, <2>11, <2>12
  <1> QED BY <1>1, <1>2, SavesFrame

\* What a lone dump leaves in the file (LoneDumpComplete, and more keys by Saves).
LEMMA LoneDump ==
  ASSUME Shape, Dumps, NEW t \in Threads, DumpClose(t), alone[t]
  PROVE  base[t] \subseteq Lines(disk')
  <1>1. DumpOf(t) /\ base[t] \subseteq Pairs
    BY AtDump DEF DumpClose
  <1>2. Lines(disk') = Lines(disk) \cup Lines(wbuf)
    BY LinesConcat DEF DumpClose, Shape, Types
  <1>3. ASSUME NEW p \in base[t] PROVE ~(p[1] > cursor[t])
    BY <1>1, <1>3 DEF DumpClose, Ahead, DumpOf
  <1> QED BY <1>1, <1>2, <1>3 DEF DumpOf

\* What a lone load leaves in the list (LoneLoadComplete).
LEMMA LoneLoad ==
  ASSUME Shape, Loads, NEW t \in Threads, LoadEnd(t), alone[t]
  PROVE  Garbage \notin base[t] /\ \A p \in base[t] : p[1] \in KeysOf(dict)
  <1>1. LoadOf(t) /\ pc[t] = "lread" /\ ~HasLine
    BY DEF LoadEnd, Loads
  <1>2. rlines = <<>>
    BY <1>1 DEF HasLine, LoadOf
  <1>3. Lines(rlines) = {}
    BY <1>2, LinesEmpty
  <1> QED BY <1>1, <1>3 DEF LoadOf

\* Saves is preserved: the keys of a SAVE stay in list, file or running dump.
LEMMA SavesInv == ASSUME Shape, Dumps, Loads, Saves, Next PROVE Saves'
  <1>0. /\ pc = [u \in Threads |-> pc[u]] /\ alone = [u \in Threads |-> alone[u]]
        /\ base = [u \in Threads |-> base[u]]
        /\ \A u \in Threads : alone[u] \in BOOLEAN
        /\ dict \subseteq Pairs /\ saved \subseteq Pairs
        /\ Main \in Threads /\ Persister \in Threads /\ Main # Persister /\ Main \notin Clients
        /\ \A u \in Threads \ {Main} : phase \in {"down", "loading"} => pc[u] = "none"
        /\ pc[Main] \in {"lopen", "lfill", "lread", "failed"} <=> phase = "loading"
        /\ pc[Main] = "none" <=> phase \in {"down", "up", "joining"}
        /\ phase \in {"down", "loading", "up", "joining", "saving"}
        /\ wopen \in BOOLEAN /\ torn \in BOOLEAN
    BY StoreAssumption DEF Shape, Types, Threads, Places, Switches
  <1>1. ASSUME NEW t \in Threads, StepOf(t) PROVE Saves'
    <2>1. CASE HandleDel(t)
      <3> DEFINE k == request[t][2]
      <3>1. /\ dict' = Without(dict, k) /\ saved' = Without(saved, k)
            /\ \A u \in Threads : base'[u] = Without(base[u], k)
            /\ UNCHANGED <<disk, wopen, phase, alone, torn>>
            /\ \A u \in Threads : pc'[u] = "dump" => pc[u] = "dump"
            /\ pc'[Main] = "lread" => pc[Main] = "lread"
        BY <1>0, <2>1 DEF HandleDel, Goto, writer
      <3>2. \A p \in saved' : p \in saved /\ p[1] # k
        BY <1>0, <3>1, PairFacts DEF Without
      <3> HIDE DEF k
      <3>3. ASSUME NEW S, Covers(S)
            PROVE  /\ \A p \in saved' : \E q \in S : q # Garbage /\ q[1] = p[1]
                   /\ \A p \in saved' : \E q \in Without(S, k) : q # Garbage /\ q[1] = p[1]
        BY <3>2, <3>3 DEF Covers, Without
      <3>4. Covers(Lines(disk)) => Covers(Lines(disk))'
        BY <3>1, <3>3 DEF Covers
      <3>5. Covers(dict) => Covers(dict)'
        BY <3>1, <3>3 DEF Covers
      <3>6. \A u \in Threads : Covers(base[u]) => \A p \in saved' : \E q \in base'[u] : q # Garbage /\ q[1] = p[1]
        BY <3>1, <3>3
      <3>7. \A u \in Threads : Covers(base[u]) => Covers(base[u])'
        BY <3>6 DEF Covers
      <3> QED BY <1>0, <3>1, <3>4, <3>5, <3>7 DEF Saves
    <2>2. CASE DumpOpen(t)
      <3>1. /\ wopen' /\ base'[t] = dict /\ UNCHANGED <<saved, torn, phase, dict>>
            /\ pc[t] = "open"
        BY <1>0, <2>2 DEF DumpOpen, OpenWriter
      <3>2. \A u \in Threads : pc'[u] = "dump" /\ alone'[u] => u = t
        BY <1>0, <2>2 DEF DumpOpen, Goto, Dumping
      <3>3. phase \in Serving
        BY <1>0, <3>1 DEF Serving, Shape, Places
      <3>4. pc'[Main] # "lread"
        BY <1>0, <2>2, <3>3 DEF DumpOpen, Goto, Serving
      <3> QED BY <3>1, <3>2, <3>3, <3>4 DEF Saves, Covers, Serving
    <2>3. CASE DumpClose(t)
      <3>1. /\ ~wopen' /\ UNCHANGED <<phase, dict>> /\ torn' = (torn \/ ~alone[t])
            /\ saved' = IF t \in Clients /\ alone[t] THEN saved \cup base[t] ELSE saved
            /\ pc[t] = "dump"
        BY <2>3 DEF DumpClose
      <3> SUFFICES ASSUME ~torn' PROVE Saves' BY DEF Saves
      <3>2. ~torn /\ alone[t] BY <1>0, <3>1
      <3>3. DumpOf(t) /\ base[t] \subseteq dict /\ Covers(base[t])
        BY <3>1, <3>2, AtDump DEF Saves, DumpOf
      <3>4. \A p \in saved' : \E q \in base[t] : q \in Pairs /\ q # Garbage /\ q[1] = p[1]
        BY <1>0, <3>1, <3>3, PairFacts DEF Covers
      <3>5. base[t] \subseteq Lines(disk') BY <2>3, <3>2, LoneDump
      <3>6. \A u \in Threads : pc'[u] # "dump"
        <4>1. pc'[t] # "dump" BY <1>0, <2>3 DEF DumpClose, Goto
        <4>2. ASSUME NEW u \in Threads, u # t, pc'[u] = "dump" PROVE FALSE
          BY <1>0, <2>3, <3>3, <4>2 DEF DumpClose, Goto, DumpOf, Dumping
        <4> QED BY <4>1, <4>2
      <3>7. phase # "loading"
        BY <1>0, <3>1 DEF Shape, Places
      <3>8. pc'[Main] # "lread"
        BY <1>0, <2>3, <3>7 DEF DumpClose, Goto
      <3> QED BY <3>1, <3>3, <3>4, <3>5, <3>6, <3>8 DEF Saves, Covers
    <2>4. CASE LoadFill(t) /\ t = Main
      <3>1. /\ base'[Main] = Lines(disk) \ {Garbage}
            /\ UNCHANGED <<disk, wopen, phase, dict, saved, torn>>
            /\ pc[Main] = "lfill" /\ \A u \in Threads \ {Main} : pc'[u] = pc[u]
            /\ pc'[Main] = "lread"
        BY <1>0, <2>4 DEF LoadFill, Goto, writer
      <3>2. \A u \in Threads : pc'[u] # "dump"
        BY <1>0, <3>1
      <3>3. ~wopen
        BY <1>0, <3>1 DEF Dumps, Dumping
      <3> QED BY <1>0, <3>1, <3>2, <3>3 DEF Saves, Covers
    <2>5. CASE LoadEnd(t) /\ t = Main
      <3>1. /\ UNCHANGED <<disk, wopen, dict, saved, torn>>
            /\ pc[Main] = "lread" /\ pc'[Main] # "lread"
            /\ \A u \in Threads : pc'[u] # "dump"
        BY <1>0, <2>5 DEF LoadEnd, writer
      <3>2. alone[Main] BY <3>1 DEF Loads
      <3>3. \A p \in base[Main] : p[1] \in KeysOf(dict)
        BY <2>5, <3>2, LoneLoad
      <3>4. ~torn => \A p \in saved : \E q \in base[Main] : q[1] = p[1]
        BY <3>1 DEF Saves, Covers
      <3>5. ~torn => \A p \in saved : p[1] \in KeysOf(dict)
        BY <3>3, <3>4
      <3>6. ~torn => \A p \in saved : \E q \in dict : q # Garbage /\ q[1] = p[1]
        BY <1>0, <3>5, PairFacts DEF KeysOf
      <3> QED BY <3>1, <3>6 DEF Saves, Covers
    <2> QED BY <1>1, <2>1, <2>2, <2>3, <2>4, <2>5, SavesElsewhere DEF StepOf, ThreadStep
  <1>2. CASE StepOfProcess
    <2>1. /\ UNCHANGED <<saved, torn, wopen, alone, base>>
          /\ \A u \in Threads : pc'[u] = "dump" => pc[u] = "dump"
          /\ pc'[Main] = "lread" => pc[Main] = "lread"
          /\ phase' \in Serving => phase \in Serving
          /\ dict \subseteq dict'
          /\ disk' # disk => wbuf # <<>>
      BY <1>0, <1>2
      DEF StepOfProcess, Spill, PersistTick, Start, Stop, PersistExit, Join, Goto, writer,
          history, Shape, Places, Serving
    <2>2. ~wopen' => ~wopen /\ UNCHANGED disk
      BY <2>1 DEF Dumps
    <2> QED BY <1>0, <2>1, <2>2, SavesFrame
  <1>3. CASE Ends
    <2>1. PICK f \in BOOLEAN : EndProcess(f) BY <1>3 DEF Ends
    <2>2. /\ torn' = (torn \/ wopen) /\ saved' = saved /\ phase' = "down"
          /\ \A u \in Threads : pc'[u] = "none"
          /\ disk' = disk \/ disk' = disk \o wbuf
      BY <2>1 DEF EndProcess
    <2>3. ~wopen => Lines(disk') = Lines(disk)
      <3>1. disk \in Seq(FileLines) /\ wbuf \in Seq(FileLines) BY DEF Shape, Types
      <3>2. Lines(disk \o wbuf) = Lines(disk) \cup Lines(wbuf) BY <3>1, LinesConcat
      <3> QED BY <2>2, <3>2, LinesEmpty DEF Dumps
    <2> QED BY <1>0, <2>2, <2>3 DEF Saves, Covers
  <1> QED BY <1>1, <1>2, <1>3, NextCases

-------------------------------------------------------------------------------
(* Preservation of Appends. *)

\* The last line of a log that was extended by one.
LEMMA LastAppended ==
  ASSUME NEW log \in Seq(Writes), NEW line \in Writes, NEW longer \in Seq(Writes),
         Len(longer) = Len(log) + 1, longer[Len(log) + 1] = line,
         \A i \in 1 .. Len(log) : longer[i] = log[i], NEW k
  PROVE  /\ line[2] = k => (SetLast(longer, k) <=> line[1] = "SET")
         /\ line[2] # k => (SetLast(longer, k) <=> SetLast(log, k))
  <1>1. /\ Len(log) \in Nat /\ DOMAIN log = 1 .. Len(log)
        /\ DOMAIN longer = 1 .. Len(log) + 1
    OBVIOUS
  <1>2. ASSUME line[2] = k PROVE LastLine(longer, k) = {Len(log) + 1}
    BY <1>1, <1>2 DEF LastLine
  <1>3. ASSUME line[2] # k PROVE LastLine(longer, k) = LastLine(log, k)
    BY <1>1, <1>3 DEF LastLine
  <1>4. LastLine(log, k) \subseteq 1 .. Len(log)
    BY <1>1 DEF LastLine
  <1> QED BY <1>1, <1>2, <1>3, <1>4 DEF SetLast

\* A step that logs nothing and changes no key.
LEMMA MatchesFrame ==
  ASSUME LogMatches, UNCHANGED <<aof, abuf>>, unlogged \subseteq unlogged',
         \A k \in Keys \ unlogged' : k \in KeysOf(dict') <=> k \in KeysOf(dict),
         \A u \in Clients, k \in Keys : Pending(u, k)' <=> Pending(u, k),
         \A u \in Clients : pc[u] = "log" => UNCHANGED request[u]
  PROVE  LogMatches'
  BY DEF LogMatches, Pending

\* A write of key k that no other writer of k is about to log.
LEMMA MatchesChange ==
  ASSUME LogMatches, NEW t \in Clients, NEW k \in Keys,
         UNCHANGED <<aof, abuf, request>>,
         pc[t] = "run", pc' = [pc EXCEPT ![t] = "log"], pc = [u \in Threads |-> pc[u]],
         Clients \subseteq Threads, request[t][2] = k, Changed(k, AboutToLog(t, k)),
         \A h \in Keys \ {k} : h \in KeysOf(dict') <=> h \in KeysOf(dict),
         k \in KeysOf(dict') <=> request[t][1] = "SET"
  PROVE  LogMatches'
  <1>1. \A u \in Clients \ {t} : \A h : Pending(u, h)' <=> Pending(u, h)
    BY DEF Pending
  <1>2. \A h : Pending(t, h)' <=> h = k
    BY DEF Pending
  <1>3. \A h : ~Pending(t, h)
    BY DEF Pending
  <1>4. ASSUME NEW h \in Keys \ unlogged', h # k
        PROVE  /\ (\A u \in Clients : ~Pending(u, h)') =>
                    (h \in KeysOf(dict') <=> SetLast(aof' \o abuf', h))
               /\ \A u \in Clients : Pending(u, h)' =>
                    /\ h \in KeysOf(dict') <=> request'[u][1] = "SET"
                    /\ \A v \in Clients : Pending(v, h)' => v = u
    <2>1. h \notin unlogged BY <1>4 DEF Changed
    <2>2. \A u \in Clients : Pending(u, h)' <=> Pending(u, h) BY <1>1, <1>2, <1>3, <1>4
    <2> QED BY <1>4, <2>1, <2>2 DEF LogMatches
  <1>5. ASSUME k \notin unlogged'
        PROVE  \A u \in Clients : Pending(u, k)' <=> u = t
    <2>1. AboutToLog(t, k) = {} BY <1>5 DEF Changed
    <2> QED BY <1>1, <1>2, <2>1 DEF AboutToLog, Pending
  <1> QED BY <1>4, <1>5 DEF LogMatches

\* append_aof writes a client's line; the client is then not pending on its key.
LEMMA MatchesAppend ==
  ASSUME Shape, LogMatches, AofEnabled \/ unlogged = Keys, NEW t \in Threads, AppendAOF(t)
  PROVE  LogMatches'
  <1>0. /\ t \in Clients /\ request[t] \in Writes /\ pc = [u \in Threads |-> pc[u]]
        /\ Clients \subseteq Threads /\ aof \in Seq(Writes) /\ abuf \in Seq(Writes)
    BY AtLog DEF AppendAOF, Shape, Types, Threads
  <1>1. UNCHANGED <<dict, request, unlogged>> /\ pc[t] = "log" /\ pc' = [pc EXCEPT ![t] = "replicate"]
    BY DEF AppendAOF, Goto, history
  <1>2. CASE ~AofEnabled
    BY <1>1, <1>2 DEF LogMatches
  <1>3. CASE AofEnabled
    <2> DEFINE log == aof \o abuf
               longer == aof' \o abuf'
               line == request[t]
    <2>1. \/ aof' = aof \o Append(abuf, line) /\ abuf' = <<>>
          \/ aof' = aof /\ abuf' = Append(abuf, line)
      BY <1>3 DEF AppendAOF, Flushed
    <2>2. log \in Seq(Writes) /\ Len(log) = Len(aof) + Len(abuf) /\ Len(aof) \in Nat /\ Len(abuf) \in Nat
      BY <1>0
    <2>3. /\ longer \in Seq(Writes) /\ Len(longer) = Len(log) + 1
          /\ longer[Len(log) + 1] = line
          /\ \A i \in 1 .. Len(log) : longer[i] = log[i]
      <3>1. Append(abuf, line) \in Seq(Writes) BY <1>0, LinesAppend
      <3>2. CASE aof' = aof /\ abuf' = Append(abuf, line)
        BY <1>0, <2>2, <3>1, <3>2
      <3>3. CASE aof' = aof \o Append(abuf, line) /\ abuf' = <<>>
        <4>1. aof' \in Seq(Writes) BY <1>0, <3>1, <3>3, LinesConcat
        <4>2. longer = aof' BY <3>3, <4>1
        <4> QED BY <1>0, <2>2, <3>1, <3>3, <4>1, <4>2
      <3> QED BY <2>1, <3>2, <3>3
    <2> HIDE DEF log, longer, line
    <2>4. \A k : /\ line[2] = k => (SetLast(longer, k) <=> line[1] = "SET")
                 /\ line[2] # k => (SetLast(longer, k) <=> SetLast(log, k))
      BY <1>0, <2>2, <2>3, LastAppended DEF line
    <2>5. \A u \in Clients : \A k : Pending(u, k)' <=> Pending(u, k) /\ u # t
      BY <1>0, <1>1 DEF Pending
    <2>6. \A k : Pending(t, k) <=> line[2] = k
      BY <1>1 DEF Pending, line
    <2>7. ASSUME NEW k \in Keys \ unlogged
          PROVE  /\ (\A u \in Clients : ~Pending(u, k)') => (k \in KeysOf(dict) <=> SetLast(longer, k))
                 /\ \A u \in Clients : Pending(u, k)' =>
                      /\ k \in KeysOf(dict) <=> request[u][1] = "SET"
                      /\ \A v \in Clients : Pending(v, k)' => v = u
      <3>1. CASE line[2] = k
        BY <1>0, <2>4, <2>5, <2>6, <2>7, <3>1 DEF LogMatches, line
      <3>2. CASE line[2] # k
        BY <1>0, <2>4, <2>5, <2>6, <2>7, <3>2 DEF LogMatches, log
      <3> QED BY <3>1, <3>2
    <2> QED BY <1>1, <2>7 DEF LogMatches, longer
  <1> QED BY <1>2, <1>3

\* The log gives the data, one step on.
LEMMA MatchesInv ==
  ASSUME Shape, LogMatches, AofEnabled \/ unlogged = Keys,
         (\E t \in Threads : StepOf(t)) \/ StepOfProcess \/ Ends
  PROVE  LogMatches' /\ (AofEnabled \/ unlogged' = Keys)
  <1>0. /\ pc = [u \in Threads |-> pc[u]] /\ request \in [Threads -> Requests \cup {NoRequest}]
        /\ request = [u \in Threads |-> request[u]]
        /\ Clients \subseteq Threads /\ dict \subseteq Pairs /\ aof \in Seq(Writes)
        /\ rlines \in Seq(FileLines) /\ OneValue /\ unlogged \subseteq Keys
        /\ Main \in Threads /\ Main \notin Clients
        /\ Persister \in Threads /\ Persister \notin Clients
    BY StoreAssumption DEF Shape, Types, Threads
  <1>1. ASSUME NEW t \in Threads, StepOf(t) PROVE LogMatches' /\ (AofEnabled \/ unlogged' = Keys)
    <2>1. CASE HandleSet(t)
      <3> DEFINE p == <<request[t][2], request[t][3], 0>>
      <3>0. t \in Clients /\ request[t] \in Writes
        BY <1>0, <2>1, StoreAssumption DEF HandleSet, Shape, Places, Threads
      <3>1. p \in Pairs /\ p[1] \in Keys /\ p[1] = request[t][2]
        BY <2>1, <3>0, RequestFacts, StoreAssumption DEF HandleSet, Writes, Pairs, Texts
      <3>2. UNCHANGED <<aof, abuf, request>> /\ pc[t] = "run" /\ request[t][1] = "SET" /\ dict' = Inserted(p)
        BY <2>1 DEF HandleSet, logs
      <3>3. \A h : h \in KeysOf(dict') <=> h \in KeysOf(dict) \/ h = p[1]
        BY <1>0, <3>1, <3>2, InsertedFacts
      <3>4. CASE p[1] \in KeysOf(dict)
        <4>1. unlogged' = unlogged /\ pc' = [pc EXCEPT ![t] = "refuse"]
          BY <2>1, <3>4 DEF HandleSet, Goto
        <4>2. \A u \in Clients, k \in Keys : Pending(u, k)' <=> Pending(u, k)
          BY <1>0, <3>2, <4>1 DEF Pending
        <4> QED BY <3>2, <3>3, <3>4, <4>1, <4>2, MatchesFrame
      <3>5. CASE p[1] \notin KeysOf(dict)
        <4>1. Changed(p[1], AboutToLog(t, p[1])) /\ pc' = [pc EXCEPT ![t] = "log"]
          BY <2>1, <3>5 DEF HandleSet, Goto
        <4>2. AofEnabled \/ unlogged' = Keys
          BY <1>0, <3>1, <4>1 DEF Changed
        <4> HIDE DEF p
        <4> QED BY <1>0, <3>0, <3>1, <3>2, <3>3, <4>1, <4>2, MatchesChange
      <3> QED BY <3>4, <3>5
    <2>2. CASE HandleDel(t)
      <3> DEFINE k == request[t][2]
      <3>1. t \in Clients /\ request[t] \in Writes
        BY <1>0, <2>2, StoreAssumption DEF HandleDel, Shape, Places, Threads
      <3>2. k \in Keys
        BY <2>2, <3>1, RequestFacts DEF HandleDel, Writes
      <3>3. /\ UNCHANGED <<aof, abuf, request>> /\ pc[t] = "run" /\ request[t][1] = "DEL"
            /\ dict' = Without(dict, k) /\ pc' = [pc EXCEPT ![t] = "log"]
            /\ Changed(k, AboutToLog(t, k))
        BY <2>2 DEF HandleDel, logs, Goto
      <3> HIDE DEF k
      <3>4. k \notin KeysOf(dict') /\ \A h \in Keys \ {k} : h \in KeysOf(dict') <=> h \in KeysOf(dict)
        BY <1>0, <3>3, PairFacts DEF KeysOf, Without
      <3>5. AofEnabled \/ unlogged' = Keys
        BY <1>0, <3>2, <3>3 DEF Changed
      <3> QED BY <1>0, <3>1, <3>2, <3>3, <3>4, <3>5, MatchesChange DEF k
    <2>3. CASE HandleFlush(t)
      <3>1. t \in Clients /\ request[t] \in Writes
        BY <1>0, <2>3, StoreAssumption DEF HandleFlush, Shape, Places, Threads
      <3>2. request[t][2] \notin Keys
        BY <2>3, <3>1, RequestFacts DEF HandleFlush, Writes
      <3>3. UNCHANGED <<aof, abuf, request, dict, unlogged>> /\ pc[t] = "run" /\ pc' = [pc EXCEPT ![t] = "log"]
        BY <2>3 DEF HandleFlush, logs, Goto, history
      <3>4. \A u \in Clients, k \in Keys : Pending(u, k)' <=> Pending(u, k)
        BY <1>0, <3>2, <3>3 DEF Pending
      <3> QED BY <3>3, <3>4, MatchesFrame
    <2>4. CASE AppendAOF(t)
      BY <2>4, MatchesAppend DEF AppendAOF, history
    <2>5. CASE LoadLine(t)
      <3> DEFINE p == Head(rlines)
      <3>1. /\ rlines # <<>> /\ p # Garbage /\ dict' = Inserted(Loaded(p))
            /\ unlogged' = unlogged \cup {p[1]} /\ UNCHANGED <<aof, abuf, request, pc>>
        BY <2>5 DEF LoadLine, HasLine, logs
      <3>2. p \in Pairs BY <1>0, <3>1, LinesTail DEF FileLines
      <3>3. \A h : h \in KeysOf(dict') <=> h \in KeysOf(dict) \/ h = p[1]
        BY <1>0, <3>1, <3>2, LoadedFacts, InsertedFacts
      <3>4. \A u \in Clients, k \in Keys : Pending(u, k)' <=> Pending(u, k)
        BY <3>1 DEF Pending
      <3>5. AofEnabled \/ unlogged' = Keys
        BY <1>0, <3>1, <3>2, PairFacts
      <3> HIDE DEF p
      <3> QED BY <3>1, <3>3, <3>4, <3>5, MatchesFrame
    <2>6. CASE \/ t \in Clients /\ \E r \in Requests : Receive(t, r)
               \/ ReplicateCommand(t) \/ Reply(t) \/ DumpOpen(t) \/ DumpNode(t) \/ DumpClose(t)
               \/ LoadOpen(t) \/ LoadFill(t) \/ LoadThrows(t) \/ LoadEnd(t)
      <3>1. UNCHANGED <<aof, abuf, dict, unlogged>>
        BY <2>6 DEF Receive, ReplicateCommand, Reply, DumpOpen, DumpNode, DumpClose, LoadOpen,
                    LoadFill, LoadThrows, LoadEnd, logs, history
      <3> USE <1>0 DEF Goto
      <3>2. \A u \in Clients : (pc'[u] = "log" <=> pc[u] = "log") /\ (pc[u] = "log" => UNCHANGED request[u])
        <4>1. CASE t \in Clients /\ \E r \in Requests : Receive(t, r) BY <4>1 DEF Receive
        <4>2. CASE ReplicateCommand(t) BY <4>2 DEF ReplicateCommand
        <4>3. CASE Reply(t) BY <4>3 DEF Reply
        <4>4. CASE DumpOpen(t) BY <4>4 DEF DumpOpen
        <4>5. CASE DumpNode(t) BY <4>5 DEF DumpNode
        <4>6. CASE DumpClose(t) BY <4>6 DEF DumpClose
        <4>7. CASE LoadOpen(t) BY <4>7 DEF LoadOpen
        <4>8. CASE LoadFill(t) BY <4>8 DEF LoadFill
        <4>9. CASE LoadThrows(t) BY <4>9 DEF LoadThrows
        <4>10. CASE LoadEnd(t)
          <5>1. t = Main => \A u \in Clients : pc[u] # "log"
            BY <4>10 DEF LoadEnd, Shape, Places
          <5> QED BY <4>10, <5>1 DEF LoadEnd
        <4> QED BY <2>6, <4>1, <4>2, <4>3, <4>4, <4>5, <4>6, <4>7, <4>8, <4>9, <4>10
      <3>3. \A u \in Clients, k \in Keys : Pending(u, k)' <=> Pending(u, k)
        BY <3>2 DEF Pending
      <3> QED BY <3>1, <3>2, <3>3, MatchesFrame
    <2> QED BY <1>1, <2>1, <2>2, <2>3, <2>4, <2>5, <2>6 DEF StepOf, ThreadStep
  <1>2. CASE StepOfProcess
    <2>1. /\ UNCHANGED <<aof, abuf, dict, unlogged, request>>
          /\ \A u \in Clients : pc'[u] = pc[u]
      BY <1>0, <1>2, NothingReplayed
      DEF StepOfProcess, Spill, PersistTick, Start, Stop, PersistExit, Join, Goto, logs,
          history, Shape, Places
    <2>2. \A u \in Clients, k \in Keys : Pending(u, k)' <=> Pending(u, k)
      BY <2>1 DEF Pending
    <2> QED BY <2>1, <2>2, MatchesFrame
  <1>3. CASE Ends
    BY <1>3 DEF Ends, EndProcess, LogMatches
  <1> QED BY <1>1, <1>2, <1>3

\* A step after which no command is behind its line in the log that was not before.
LEMMA DurableFrame ==
  ASSUME Durable, aof_fsync_' = aof_fsync_, Lines(aof) \subseteq Lines(aof'), UNCHANGED rlog,
         \A u \in Clients : pc'[u] \in {"replicate", "reply"} =>
            \/ pc'[u] = pc[u] /\ request'[u] = request[u]
            \/ pc'[u] = "reply" /\ request'[u][1] \notin {"SET", "DEL", "FLUSH"}
  PROVE  Durable'
  BY DEF Durable

\* Durable is preserved: with always, append_aof leaves nothing in its buffer.
LEMMA DurableInv ==
  ASSUME Shape, Durable, (\E t \in Threads : StepOf(t)) \/ StepOfProcess \/ Ends
  PROVE  Durable'
  <1>0. /\ pc = [u \in Threads |-> pc[u]] /\ request = [u \in Threads |-> request[u]]
        /\ Clients \subseteq Threads
        /\ aof \in Seq(Writes) /\ abuf \in Seq(Writes) /\ rlog \in Seq(Writes)
        /\ Main \in Threads /\ Main \notin Clients
        /\ Persister \in Threads /\ Persister \notin Clients
    BY StoreAssumption DEF Shape, Types, Threads
  <1>1. ASSUME NEW t \in Threads, StepOf(t) PROVE Durable'
    <2>1. CASE AppendAOF(t)
      <3> DEFINE line == request[t]
      <3>1. t \in Clients /\ line \in Writes BY <2>1, AtLog DEF AppendAOF
      <3>2. /\ UNCHANGED <<rlog, request, aof_fsync_>> /\ pc' = [pc EXCEPT ![t] = "replicate"]
        BY <2>1 DEF AppendAOF, Goto, session
      <3> SUFFICES ASSUME AofEnabled, aof_fsync_ = "always" PROVE Durable'
        BY <3>2 DEF Durable
      <3>3. aof' = aof \o Append(abuf, line)
        BY <2>1 DEF AppendAOF, Flushed
      <3>4. Append(abuf, line) \in Seq(Writes) /\ Lines(Append(abuf, line)) = Lines(abuf) \cup {line}
        BY <1>0, <3>1, LinesAppend
      <3>5. Lines(aof') = Lines(aof) \cup Lines(Append(abuf, line))
        BY <1>0, <3>3, <3>4, LinesConcat
      <3>6. Lines(aof) \subseteq Lines(aof') /\ line \in Lines(aof')
        BY <3>4, <3>5
      <3> QED BY <1>0, <3>1, <3>2, <3>6 DEF Durable
    <2>2. CASE ReplicateCommand(t)
      <3> DEFINE entries == Append(rlog, request[t])
      <3>1. t \in Clients /\ request[t] \in Writes BY <2>2, AtLog DEF ReplicateCommand
      <3>2. /\ UNCHANGED <<aof, request, aof_fsync_>> /\ pc' = [pc EXCEPT ![t] = "reply"]
            /\ pc[t] = "replicate" /\ rlog' = Logged(entries)
        BY <2>2 DEF ReplicateCommand, Goto, session
      <3>3. entries \in Seq(Writes) /\ Lines(entries) = Lines(rlog) \cup {request[t]} /\ entries # <<>>
        BY <1>0, <3>1, LinesAppend
      <3>4. Lines(Tail(entries)) \subseteq Lines(entries)
        BY <3>3, LinesTail
      <3>5. Lines(rlog') \subseteq Lines(rlog) \cup {request[t]}
        <4> HIDE DEF entries
        <4> QED BY <3>2, <3>3, <3>4 DEF Logged
      <3> HIDE DEF entries
      <3> SUFFICES ASSUME AofEnabled, aof_fsync_ = "always" PROVE Durable'
        BY <3>2 DEF Durable
      <3>6. /\ Lines(rlog) \subseteq Lines(aof)
            /\ request[t][1] \in {"SET", "DEL", "FLUSH"} => request[t] \in Lines(aof)
        BY <3>1, <3>2 DEF Durable
      <3>7. Lines(rlog') \subseteq Lines(aof')
        BY <3>1, <3>2, <3>5, <3>6 DEF Writes
      <3>8. \A u \in Clients : pc'[u] \in {"replicate", "reply"} => pc[u] \in {"replicate", "reply"}
        BY <1>0, <3>2
      <3> QED BY <3>2, <3>7, <3>8 DEF Durable
    <2>3. CASE ~AppendAOF(t) /\ ~ReplicateCommand(t)
      <3>1. UNCHANGED <<aof, rlog, aof_fsync_>>
        BY <1>1, <2>3
        DEF StepOf, ThreadStep, Receive, HandleSet, HandleDel, HandleFlush, Reply, DumpOpen,
            DumpNode, DumpClose, LoadOpen, LoadFill, LoadLine, LoadThrows, LoadEnd, logs, session
      <3> USE <1>0 DEF Goto
      <3>2. \A u \in Clients : pc'[u] \in {"replicate", "reply"} =>
              \/ pc'[u] = pc[u] /\ request'[u] = request[u]
              \/ pc'[u] = "reply" /\ request'[u][1] \notin {"SET", "DEL", "FLUSH"}
        <4>1. CASE t \in Clients /\ \E r \in Requests : Receive(t, r) BY <4>1 DEF Receive
        <4>2. CASE HandleSet(t) BY <4>2 DEF HandleSet
        <4>3. CASE HandleDel(t) BY <4>3 DEF HandleDel
        <4>4. CASE HandleFlush(t) BY <4>4 DEF HandleFlush
        <4>5. CASE Reply(t) BY <4>5 DEF Reply
        <4>6. CASE DumpOpen(t) BY <4>6 DEF DumpOpen
        <4>7. CASE DumpNode(t) BY <4>7 DEF DumpNode
        <4>8. CASE DumpClose(t) BY <4>8 DEF DumpClose, Shape, Places
        <4>9. CASE LoadOpen(t) BY <4>9 DEF LoadOpen
        <4>10. CASE LoadFill(t) BY <4>10 DEF LoadFill
        <4>11. CASE LoadLine(t) BY <4>11 DEF LoadLine
        <4>12. CASE LoadThrows(t) BY <4>12 DEF LoadThrows
        <4>13. CASE LoadEnd(t) BY <4>13 DEF LoadEnd, Shape, Places
        <4> QED BY <1>1, <2>3, <4>1, <4>2, <4>3, <4>4, <4>5, <4>6, <4>7, <4>8, <4>9, <4>10, <4>11,
                   <4>12, <4>13 DEF StepOf, ThreadStep
      <3> QED BY <3>1, <3>2, DurableFrame
    <2> QED BY <2>1, <2>2, <2>3
  <1>2. CASE StepOfProcess
    <2>1. /\ UNCHANGED <<aof, rlog, request, aof_fsync_>>
          /\ \A u \in Clients : pc'[u] = pc[u]
      BY <1>0, <1>2
      DEF StepOfProcess, Spill, PersistTick, Start, Stop, PersistExit, Join, Goto, logs, session
    <2> QED BY <2>1, DurableFrame
  <1>3. CASE Ends
    BY <1>0, <1>3, LinesEmpty DEF Ends, EndProcess, Durable
  <1> QED BY <1>1, <1>2, <1>3

-------------------------------------------------------------------------------
(* The invariance proof. *)

\* Before the first start there is no file, no list and no thread.
LEMMA InitInv == Init => Inv
  <1> SUFFICES ASSUME Init PROVE Inv
    OBVIOUS
  <1> USE DEF Init
  <1>1. Types
    <2>1. \A S : <<>> \in Seq(S) /\ Len(<<>>) = 0 BY LinesEmpty
    <2>2. alone \in [Threads -> BOOLEAN] BY Zenon
    <2>3. request \in [Threads -> Requests \cup {NoRequest}] OBVIOUS
    <2>4. cursor \in [Threads -> Keys \cup {-1}] OBVIOUS
    <2> QED BY <2>1, <2>2, <2>3, <2>4, StoreAssumption DEF Types
  <1>2. Switches BY Zenon DEF Switches
  <1>3. OneValue /\ Places /\ Dumps /\ Loads /\ Saves
    BY StoreAssumption DEF OneValue, Places, Threads, Dumps, Loads, Saves, Covers, Dumping
  <1>4. ASSUME NEW k PROVE ~SetLast(aof \o abuf, k)
    <2>1. DOMAIN (<<>> \o <<>>) = {} OBVIOUS
    <2> QED BY <2>1 DEF SetLast, LastLine
  <1>5. Appends
    BY <1>4, LinesEmpty DEF Appends, Durable, LogMatches, Pending, KeysOf, Threads
  <1> QED BY <1>1, <1>2, <1>3, <1>5 DEF Inv, Shape

\* Every step preserves the five parts.
LEMMA StepInv == Inv /\ [Next]_vars => Inv'
  <1> SUFFICES ASSUME Inv, [Next]_vars PROVE Inv'
    OBVIOUS
  <1>1. CASE Next
    BY <1>1, ShapeInv, DumpsInv, LoadsInv, SavesInv, NextCases, MatchesInv, DurableInv
    DEF Inv, Appends
  <1>2. CASE UNCHANGED vars
    <2> USE <1>2 DEF vars, logs, writer, loader, session, history, Inv
    <2>1. Shape' BY DEF Shape, Types, Switches, OneValue, Places
    <2>2. Dumps' BY DEF Dumps, DumpOf, Dumping
    <2>3. Loads' BY DEF Loads, LoadOf, Loading
    <2>4. Saves' BY DEF Saves, Covers
    <2>5. Appends' BY DEF Appends, Durable, LogMatches, Pending
    <2> QED BY <2>1, <2>2, <2>3, <2>4, <2>5
  <1> QED BY <1>1, <1>2

\* Inv is an invariant of the server.
LEMMA AlwaysInv == Spec => []Inv
  BY InitInv, StepInv, PTL DEF Spec

-------------------------------------------------------------------------------
(* The properties, for any keys, values, clients, commands and bounds. *)

\* Files, list, streams and threads have their types, in any interleaving of the clients,
\* the persistence thread and main, over any crashes and restarts.
THEOREM TypeCorrect == Spec => []StoreTypeOK
  <1>1. Inv => StoreTypeOK
    <2> SUFFICES ASSUME Inv PROVE StoreTypeOK OBVIOUS
    <2>1. Types /\ Switches BY DEF Inv, Shape
    <2>2. /\ Lines(disk) \subseteq FileLines /\ Lines(wbuf) \subseteq FileLines
          /\ Lines(rlines) \subseteq FileLines
          /\ Lines(aof) \subseteq Writes /\ Lines(abuf) \subseteq Writes /\ Lines(rlog) \subseteq Writes
      BY <2>1, LinesType DEF Types
    <2>3. Writes \subseteq Requests BY DEF Writes
    <2> QED BY <2>1, <2>2, <2>3 DEF StoreTypeOK, Types, Switches, FileLines
  <1> QED BY <1>1, AlwaysInv, PTL

\* What a lone SAVE has covered is in the list of every later server, as long as no dump was
\* cut short or disturbed (dump_file, load_file, init, stop).
THEOREM SavedDataSurvives == Spec => []SavedSurvives
  <1>1. Inv => SavedSurvives
    BY DEF Inv, Saves, Covers, SavedSurvives, KeysOf
  <1> QED BY <1>1, AlwaysInv, PTL

\* init fails only over a data file with a line that has no key (load_file).
THEOREM FailureIsGarbage == Spec => []FailsOverGarbage
  <1>1. Inv => FailsOverGarbage
    BY DEF Inv, Loads, FailsOverGarbage
  <1> QED BY <1>1, AlwaysInv, PTL

\* With aof_fsync "always" no write is answered or replicated before its line is in the
\* append-only file (appendAOF, handleSet, handleDel).
THEOREM AnsweredIsLogged == Spec => []LoggedFirst
  <1>1. Inv => LoggedFirst
    BY DEF Inv, Appends, Durable, LoggedFirst
  <1> QED BY <1>1, AlwaysInv, PTL

\* Unless two commands changed a key one within the other, the log with what is still
\* buffered gives the data of the process (handleSet, handleDel, appendAOF).
THEOREM LogIsTheData == Spec => []LogGivesData
  <1>1. Inv => LogGivesData
    <2> SUFFICES ASSUME Inv, NEW k \in Keys \ unlogged, AboutToLog(Main, k) = {}
                 PROVE  k \in KeysOf(dict) <=> SetLast(aof \o abuf, k)
      BY DEF LogGivesData, SetLast
    <2>1. \A u \in Clients : ~Pending(u, k)
      BY StoreAssumption DEF AboutToLog, Pending
    <2> QED BY <2>1 DEF Inv, Appends, LogMatches
  <1> QED BY <1>1, AlwaysInv, PTL

\* A dump that no other dump overlaps leaves in the file every pair that was in the list
\* from its opening to its closing (dump_file).
THEOREM LoneDumpIsComplete == Spec => LoneDumpComplete
  <1> DEFINE Complete == \A t \in Threads : DumpEnds(t) /\ alone[t] => base[t] \subseteq Lines(disk')
  <1>1. Inv /\ Next => Complete
    <2> SUFFICES ASSUME Inv, Next, NEW t \in Threads, DumpEnds(t), alone[t]
                 PROVE  base[t] \subseteq Lines(disk')
      OBVIOUS
    <2>0. pc = [u \in Threads |-> pc[u]] /\ Main \in Threads /\ Persister \in Threads
      BY DEF Inv, Shape, Types, Threads
    <2>1. DumpClose(t)
      <3>1. ASSUME NEW u \in Threads, StepOf(u) PROVE DumpClose(t)
        <4>1. CASE u = t
          BY <2>0, <3>1, <4>1
          DEF StepOf, ThreadStep, DumpEnds, Receive, HandleSet, HandleDel, HandleFlush, AppendAOF,
              ReplicateCommand, Reply, DumpOpen, DumpNode, LoadOpen, LoadFill, LoadLine,
              LoadThrows, LoadEnd
        <4>2. CASE u # t
          <5>1. CASE LoadEnd(u)
            BY <2>0, <4>2, <5>1 DEF LoadEnd, DumpEnds, Inv, Shape, Places
          <5>2. CASE ~LoadEnd(u)
            BY <2>0, <3>1, <4>2, <5>2
            DEF StepOf, ThreadStep, DumpEnds, Receive, HandleSet, HandleDel, HandleFlush,
                AppendAOF, ReplicateCommand, Reply, DumpOpen, DumpNode, DumpClose, LoadOpen,
                LoadFill, LoadLine, LoadThrows, Goto
          <5> QED BY <5>1, <5>2
        <4> QED BY <4>1, <4>2
      <3>2. ~StepOfProcess
        BY <2>0 DEF StepOfProcess, DumpEnds, Spill, PersistTick, Start, Stop, PersistExit, Join,
                    Goto, Inv, Shape, Places
      <3>3. ~Ends
        BY DEF Ends, EndProcess, DumpEnds
      <3> QED BY <3>1, <3>2, <3>3, NextCases
    <2> QED BY <2>1, LoneDump DEF Inv
  <1>2. UNCHANGED vars => Complete
    BY DEF vars, DumpEnds
  <1>3. Inv /\ [Next]_vars => [Complete]_vars
    BY <1>1, <1>2
  <1>4. Spec => [][Complete]_vars
    BY <1>3, AlwaysInv, PTL DEF Spec
  <1> QED BY <1>4 DEF LoneDumpComplete

\* A load that no other load overlaps, and that ends, has brought in every key of the file
\* that was not deleted meanwhile (load_file).
THEOREM LoneLoadIsComplete == Spec => LoneLoadComplete
  <1> DEFINE Complete ==
        \A t \in Threads : LoadEnds(t) /\ alone[t] => KeysOf(base[t]) \subseteq KeysOf(dict')
  <1>1. Inv /\ Next => Complete
    <2> SUFFICES ASSUME Inv, Next, NEW t \in Threads, LoadEnds(t), alone[t]
                 PROVE  KeysOf(base[t]) \subseteq KeysOf(dict')
      OBVIOUS
    <2>0. pc = [u \in Threads |-> pc[u]] /\ Main \in Threads /\ Persister \in Threads
      BY DEF Inv, Shape, Types, Threads
    <2>1. LoadEnd(t)
      <3>1. ASSUME NEW u \in Threads, StepOf(u) PROVE LoadEnd(t)
        <4>1. CASE u = t
          BY <2>0, <3>1, <4>1
          DEF StepOf, ThreadStep, LoadEnds, Receive, HandleSet, HandleDel, HandleFlush, AppendAOF,
              ReplicateCommand, Reply, DumpOpen, DumpNode, DumpClose, LoadOpen, LoadFill,
              LoadLine, LoadThrows, Goto
        <4>2. CASE u # t
          <5>1. CASE LoadEnd(u)
            BY <2>0, <4>2, <5>1 DEF LoadEnd, LoadEnds, Inv, Shape, Places
          <5>2. CASE ~LoadEnd(u)
            BY <2>0, <3>1, <4>2, <5>2
            DEF StepOf, ThreadStep, LoadEnds, Receive, HandleSet, HandleDel, HandleFlush,
                AppendAOF, ReplicateCommand, Reply, DumpOpen, DumpNode, DumpClose, LoadOpen,
                LoadFill, LoadLine, LoadThrows, Goto
          <5> QED BY <5>1, <5>2
        <4> QED BY <4>1, <4>2
      <3>2. ~StepOfProcess
        BY <2>0 DEF StepOfProcess, LoadEnds, Spill, PersistTick, Start, Stop, PersistExit, Join,
                    Goto, Inv, Shape, Places
      <3>3. ~Ends
        BY DEF Ends, EndProcess, LoadEnds
      <3> QED BY <3>1, <3>2, <3>3, NextCases
    <2>2. \A p \in base[t] : p[1] \in KeysOf(dict)
      BY <2>1, LoneLoad DEF Inv
    <2> QED BY <2>1, <2>2 DEF LoadEnd, KeysOf
  <1>2. UNCHANGED vars => Complete
    BY DEF vars, LoadEnds
  <1>3. Inv /\ [Next]_vars => [Complete]_vars
    BY <1>1, <1>2
  <1>4. Spec => [][Complete]_vars
    BY <1>3, AlwaysInv, PTL DEF Spec
  <1> QED BY <1>4 DEF LoneLoadComplete
===============================================================================
