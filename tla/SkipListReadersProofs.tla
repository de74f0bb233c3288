------------------------ MODULE SkipListReadersProofs -------------------------
(***************************************************************************)
(* Proofs about SkipListReaders, for every key set, heap and height: what  *)
(* search_element and dump_file may rely on without the mutex.  A call     *)
(* that no delete_element overlaps runs beside insertions only, and to it  *)
(* the list only grows (Grows).  The invariant says where on the list such *)
(* a call is, and what it knows of the keys it has passed.                 *)
(***************************************************************************)
EXTENDS SkipListReaders, SkipListProofs

-------------------------------------------------------------------------------
(* The inductive invariant. *)

\* The history of the call follows the list and the writer.
HistoryInv ==
  /\ Searching => HasKey(rkey) \in seen
  /\ Reading /\ ~deleting => op # "delete"
  /\ rpc = "idle" => written = {}

\* The levels a search has still to walk are ordered.  LevelsOrdered does not
\* say so: a publication may have lowered max_level_ since the search began.
LevelsAhead ==
  Searching /\ ~deleting =>
    \A l \in 0 .. rlvl : \A n \in Members(l) \cup {Head} : LeadsToNext(n, l)

\* n comes before the key that is searched.
Passed(n) == n = Head \/ key[n] < rkey

SearchInv ==
  Searching /\ ~deleting =>
    /\ rpc \in {"load", "compare", "advance", "last"} =>
         rcur \in Members(rlvl) \cup {Head} /\ Passed(rcur)
    /\ rpc = "compare" => rnext \in Members(rlvl) /\ Precedes(rcur, rnext)
    /\ rpc = "advance" => \E m \in Members(rlvl) : Precedes(rcur, m) /\ key[m] < rkey
    /\ rpc = "last" => rlvl = 0
    /\ rpc = "match" => rnext \in Members(0) \cup {Null}
    /\ rpc = "answered" /\ answer => TRUE \in seen

\* What a search that nobody overtook has excluded.
MissInv ==
  Searching /\ ~deleting /\ ~overtaken =>
    /\ rpc = "compare" /\ rlvl = 0 =>
         \A m \in Members(0) : Precedes(rcur, m) /\ key[m] < rkey => ~(key[m] < key[rnext])
    /\ rpc = "last" => \A m \in Members(0) : Precedes(rcur, m) => ~(key[m] < rkey)
    /\ rpc = "match" /\ ~Matches => FALSE \in seen
    /\ rpc = "answered" /\ ~answer => FALSE \in seen

\* A dump has written what it began with up to the node it is at.
DumpInv ==
  Dumping /\ ~deleting =>
    /\ start \subseteq Contents
    /\ written \subseteq Contents
    /\ rpc = "write" => /\ rcur \in Members(0)
                        /\ \A p \in start : p \in written \/ ~(p[1] < key[rcur])
    /\ rpc = "dumped" => start \subseteq written

ReadersInv ==
  /\ Inv
  /\ Stored
  /\ ReadersTypeOK
  /\ HistoryInv
  /\ LevelsAhead
  /\ SearchInv
  /\ MissInv
  /\ DumpInv
  /\ ReaderMemorySafe

-------------------------------------------------------------------------------
(* To a call that no deletion overlaps the list only grows. *)

\* No node goes, none changes its fields, and a node that comes onto a level is
\* the one that LinkB has just linked; above max_level_ nothing happens at all.
Grows ==
  /\ alive \subseteq alive'
  /\ \A n \in alive :
       key'[n] = key[n] /\ value'[n] = value[n] /\ node_level'[n] = node_level[n]
  /\ \A l \in Levels : Members(l) \subseteq Members(l)'
  /\ \A l \in Levels : \A m \in Members(l)' :
       m \in Members(l) \/ (pc = "linkB" /\ key'[m] = wkey)
  /\ \A l \in Levels : l > max_level_' =>
       /\ Members(l)' = Members(l)
       /\ \A n \in Members(l) \cup {Head} : forward'[n][l] = forward[n][l]

\* The members of a level are live nodes.
LEMMA MembersAlive == \A l : Members(l) \subseteq alive /\ Members(l) \subseteq Nodes
  BY DEF Members, OnLevel

\* A step that leaves the heap and the members of the levels alone.
LEMMA StillGrows ==
  ASSUME heap' = heap, \A l \in Levels : Members(l)' = Members(l)
  PROVE  Grows
  BY DEF Grows, heap

\* Every step of insert_element lets the list grow.
LEMMA InsertGrows ==
  ASSUME Inv, Inv', Next, op # "delete", op' # "delete"
  PROVE  Grows
<1> USE SkipListAssumption DEF SkipListAssumption
<1>1. ASSUME NEW k \in Keys, BeginDelete(k) PROVE Grows
  BY <1>1 DEF BeginDelete, Lock
<1>2. CASE (\E k \in Keys, v \in Values : BeginInsert(k, v)) \/ StepRight \/ StepDown
           \/ InsertExists \/ NewThrows
  <2>1. heap' = heap /\ node = Null /\ node' = Null
    BY <1>2 DEF BeginInsert, Lock, StepRight, StepDown, InsertExists, NewThrows, Unlock, locals,
                Inv, RequestInv, TypeOK
  <2>2. \A l \in Levels : Members(l)' = Members(l)
    BY <2>1 DEF Members, OnLevel, heap
  <2> QED BY <2>1, <2>2, StillGrows
<1>3. CASE Publish
  <2>1. heap' = heap /\ node' = Null /\ pc = "publish" /\ lvl = node_level[node] + 1
    BY <1>3 DEF Publish, Unlock, Inv, InsertInv
  <2>2. \A l \in Levels : Members(l)' = Members(l)
    BY <2>1 DEF Members, OnLevel, heap, Inserting, Levels, Inv, TypeOK
  <2> QED BY <2>1, <2>2, StillGrows
<1>4. CASE CreateNode
  <2>1. PICK n \in Nodes \ alive :
          /\ alive' = alive \cup {n}
          /\ key' = [key EXCEPT ![n] = wkey]
          /\ value' = [value EXCEPT ![n] = wvalue]
          /\ \E r \in RandomLevels : node_level' = [node_level EXCEPT ![n] = r]
          /\ forward' = [forward EXCEPT ![n] = [l \in Levels |-> Null]]
          /\ node' = n
    BY <1>4 DEF CreateNode
  <2>2. /\ node = Null /\ lvl' = 0 /\ pc' = "linkA"
        /\ \A m \in alive : /\ key'[m] = key[m] /\ value'[m] = value[m]
                            /\ node_level'[m] = node_level[m]
        /\ \A m \in alive \cup {Head} : forward'[m] = forward[m]
    BY <1>4, <2>1 DEF CreateNode, Inv, RequestInv, TypeOK
  <2>3. \A l \in Levels : Members(l)' = Members(l)
    BY <2>1, <2>2 DEF Members, OnLevel, Inserting, Levels
  <2> QED BY <2>1, <2>2, <2>3, MembersAlive DEF Grows
<1>5. CASE LinkA
  <2>1. /\ pc = "linkA" /\ pc' = "linkB" /\ lvl' = lvl /\ node' = node
        /\ forward' = [forward EXCEPT ![node][lvl] = forward[update[lvl]][lvl]]
        /\ key' = key /\ value' = value /\ node_level' = node_level /\ alive' = alive
        /\ max_level_' = max_level_
    BY <1>5 DEF LinkA, locals
  <2>2. node \in Nodes /\ lvl \in 0 .. max_level_ /\ max_level_ \in Levels
    BY <2>1 DEF Inv, InsertInv, Inserting, TypeOK, Levels
  <2>3. \A l \in Levels : Members(l)' = Members(l)
    BY <2>1 DEF Members, OnLevel, Inserting
  <2>4. \A l \in Levels, m \in Nodes \cup {Head} : l > max_level_ => forward'[m][l] = forward[m][l]
    BY <2>1, <2>2 DEF Inv, TypeOK, Levels
  <2> QED BY <2>1, <2>3, <2>4, MembersAlive DEF Grows
<1>6. CASE LinkB
  <2>1. /\ pc = "linkB" /\ Inserting' /\ lvl' = lvl + 1 /\ node' = node
        /\ forward' = [forward EXCEPT ![update[lvl]][lvl] = node]
        /\ key' = key /\ value' = value /\ node_level' = node_level /\ alive' = alive
        /\ max_level_' = max_level_
    BY <1>6 DEF LinkB, Inserting
  <2>2. /\ node \in Nodes /\ lvl \in 0 .. max_level_ /\ max_level_ \in Levels
        /\ update[lvl] \in Nodes \cup {Head} /\ key[node] = wkey
    BY <2>1, MembersAlive DEF Inv, InsertInv, Inserting, TypeOK, Levels, PredsFrom, IsPred
  <2>3. \A l \in Levels : /\ Members(l) \subseteq Members(l)'
                          /\ \A m \in Members(l)' : m \in Members(l) \/ (m = node /\ l = lvl)
    BY <2>1, <2>2 DEF Members, OnLevel, Inserting, Levels
  <2>4. \A l \in Levels, m \in Nodes \cup {Head} : l > max_level_ => forward'[m][l] = forward[m][l]
    BY <2>1, <2>2 DEF Inv, TypeOK, Levels
  <2>5. ASSUME NEW l \in Levels, l > max_level_ PROVE Members(l)' = Members(l)
    <3>1. l # lvl BY <2>2, <2>5 DEF Levels
    <3> QED BY <2>3, <3>1
  <2> QED BY <2>1, <2>2, <2>3, <2>4, <2>5, MembersAlive DEF Grows
<1>7. CASE DeleteAbsent \/ DeleteFound
  BY <1>7 DEF DeleteAbsent, DeleteFound
<1>8. CASE Unlink \/ LowerLevel \/ FreeNode
  BY <1>8 DEF Unlink, LowerLevel, FreeNode, Inv, RequestInv
<1> QED
  BY <1>1, <1>2, <1>3, <1>4, <1>5, <1>6, <1>7, <1>8 DEF Next, InCriticalSection

\* One level, when its members, their keys and n's pointer stay as they are.
LEMMA LevelFrame ==
  ASSUME NEW l, NEW n \in Members(l) \cup {Head}, LeadsToNext(n, l),
         Members(l)' = Members(l), forward'[n][l] = forward[n][l],
         \A m \in Members(l) : key'[m] = key[m]
  PROVE  LeadsToNext(n, l)'
  BY DEF LeadsToNext, Precedes

-------------------------------------------------------------------------------
(* The types. *)

\* The list maps keys to values.
LEMMA ContentsType == ASSUME Stored PROVE Contents \subseteq Keys \X Values
  BY MembersAlive DEF Stored, Contents

\* The history variables keep their types over every step.
LEMMA HistoryTypes ==
  ASSUME Inv, Stored, ReadersTypeOK, ReadersNext
  PROVE  /\ seen' \subseteq BOOLEAN /\ start' \subseteq Keys \X Values
         /\ deleting' \in BOOLEAN /\ overtaken' \in BOOLEAN
<1>1. CASE WriterStep
  <2>0. HasKey(rkey)' \in BOOLEAN BY Zenon DEF HasKey
  <2>1. seen' \subseteq seen \cup BOOLEAN /\ start' = start
    BY <1>1, <2>0 DEF WriterStep
  <2>2. deleting' \in BOOLEAN /\ overtaken' \in BOOLEAN
    BY <1>1 DEF WriterStep
  <2> QED BY <2>1, <2>2 DEF ReadersTypeOK
<1>2. ASSUME NEW k \in Keys, BeginSearch(k) PROVE
        /\ seen' \subseteq BOOLEAN /\ start' \subseteq Keys \X Values
        /\ deleting' \in BOOLEAN /\ overtaken' \in BOOLEAN
  <2>0. HasKey(k) \in BOOLEAN BY Zenon DEF HasKey
  <2>1. seen' \subseteq BOOLEAN BY <1>2, <2>0 DEF BeginSearch
  <2>2. deleting' \in BOOLEAN BY <1>2 DEF BeginSearch
  <2> QED BY <1>2, <2>1, <2>2 DEF BeginSearch, ReadersTypeOK
<1>3. CASE BeginDump
  <2>1. start' \subseteq Keys \X Values BY <1>3, ContentsType DEF BeginDump
  <2>2. deleting' \in BOOLEAN BY <1>3 DEF BeginDump
  <2> QED BY <1>3, <2>1, <2>2 DEF BeginDump, ReadersTypeOK
<1>4. CASE EndRead
  <2>1. deleting' \in BOOLEAN /\ overtaken' \in BOOLEAN BY <1>4 DEF EndRead
  <2> QED BY <1>4, <2>1 DEF EndRead
<1>5. CASE UNCHANGED history
  BY <1>5 DEF history, ReadersTypeOK
<1> QED BY <1>1, <1>2, <1>3, <1>4, <1>5 DEF ReadersNext

\* So do the reader's locals, whatever it finds behind a stale pointer.
LEMMA ReadersTypes ==
  ASSUME Inv, Stored, ReadersTypeOK, ReadersNext, TypeOK'
  PROVE  ReadersTypeOK'
<1> USE SkipListAssumption DEF SkipListAssumption
<1>1. /\ seen' \subseteq BOOLEAN /\ start' \subseteq Keys \X Values
      /\ deleting' \in BOOLEAN /\ overtaken' \in BOOLEAN
  BY HistoryTypes
<1>2. \A n \in Nodes \cup {Head}, l \in Levels : forward[n][l] \in Nodes \cup {Null}
  BY DEF Inv, TypeOK
<1>3. 0 \in Levels /\ max_level_ \in Levels /\ \A l \in Levels : l # 0 => l - 1 \in Levels
  BY DEF Inv, TypeOK, Levels
<1>4. alive \subseteq Nodes
  BY DEF Inv, TypeOK
<1> HIDE DEF Levels
<1>5. answer' \in BOOLEAN
  <2>1. answer' = answer \/ answer' = Matches \/ answer' = FALSE
    BY DEF ReadersNext, WriterStep, BeginSearch, BeginDump, EndRead, ReaderStep, LoadNext,
           CompareKey, Advance, LoadLast, Match, BadLoad, Undefined, FirstNode, WriteNode, reader
  <2> QED BY <2>1 DEF ReadersTypeOK, Matches
<1> DEFINE T == /\ rpc' = "idle" \/ rpc' = "undefined" \/ Reading'
                /\ rkey' \in Keys \cup {0}
                /\ rcur' \in Nodes \cup {Head, Null}
                /\ rlvl' \in Levels
                /\ rnext' \in Nodes \cup {Null}
                /\ written' \subseteq Keys \X Values
<1> USE DEF Reading, Searching, Dumping
<1>6. T
  <2> USE <1>2, <1>3, <1>4 DEF ReadersTypeOK
  <2>1. CASE WriterStep BY <2>1 DEF WriterStep, reader
  <2>2. CASE \E k \in Keys : BeginSearch(k) BY <2>2 DEF BeginSearch
  <2>3. CASE BeginDump BY <2>3 DEF BeginDump
  <2>4. CASE EndRead BY <2>4 DEF EndRead
  <2>5. CASE LoadNext BY <2>5 DEF LoadNext, Descend, Readable
  <2>6. CASE CompareKey BY <2>6 DEF CompareKey, Descend
  <2>7. CASE Advance BY <2>7 DEF Advance, Readable
  <2>8. CASE LoadLast BY <2>8 DEF LoadLast, Readable
  <2>9. CASE Match BY <2>9 DEF Match
  <2>10. CASE BadLoad BY <2>10 DEF BadLoad, Undefined
  <2>11. CASE FirstNode BY <2>11 DEF FirstNode
  <2>12. CASE WriteNode BY <2>12 DEF WriteNode, Stored
  <2> QED
    BY <2>1, <2>2, <2>3, <2>4, <2>5, <2>6, <2>7, <2>8, <2>9, <2>10, <2>11, <2>12
    DEF ReadersNext, ReaderStep
<1> QED BY <1>1, <1>5, <1>6 DEF ReadersTypeOK

-------------------------------------------------------------------------------
(* A step of the writer. *)

\* The history keeps up with the writer.
LEMMA WriterHistory ==
  ASSUME ReadersInv, WriterStep
  PROVE  HistoryInv'
<1>1. Reading' <=> Reading
  BY DEF WriterStep, reader, Reading, Searching, Dumping
<1>2. ASSUME Searching' PROVE HasKey(rkey)' \in seen'
  BY <1>2 DEF WriterStep, Searching, reader
<1>3. Reading /\ ~deleting' => op' # "delete"
  BY DEF WriterStep
<1>4. rpc' = "idle" => written' = {}
  BY DEF WriterStep, reader, ReadersInv, HistoryInv
<1> QED BY <1>1, <1>2, <1>3, <1>4 DEF HistoryInv

\* The levels a search has before it stay ordered while the list grows.
LEMMA GrowthLevels ==
  ASSUME ReadersInv, Inv', Grows, UNCHANGED reader, ~deleting
  PROVE  LevelsAhead'
<1> SUFFICES ASSUME Searching, NEW l \in 0 .. rlvl, NEW n \in Members(l)' \cup {Head}
             PROVE  LeadsToNext(n, l)'
  BY DEF LevelsAhead, Searching, reader
<1>1. l \in Levels /\ max_level_ \in Nat /\ max_level_' \in Nat
  BY SkipListAssumption DEF ReadersInv, ReadersTypeOK, Inv, TypeOK, Levels
<1>2. CASE l <= max_level_'
  BY <1>1, <1>2 DEF Inv, LevelsOrdered, Levels
<1>3. CASE l > max_level_'
  <2>1. Members(l)' = Members(l) /\ forward'[n][l] = forward[n][l]
    BY <1>1, <1>3 DEF Grows
  <2>2. LeadsToNext(n, l)
    <3>1. CASE l <= max_level_ BY <1>1, <2>1, <3>1 DEF ReadersInv, Inv, LevelsOrdered, Levels
    <3>2. CASE l > max_level_ BY <2>1 DEF ReadersInv, LevelsAhead
    <3> QED BY <1>1, <3>1, <3>2 DEF Levels
  <2>3. \A m \in Members(l) : key'[m] = key[m]
    BY MembersAlive DEF Grows
  <2> QED BY <2>1, <2>2, <2>3, LevelFrame
<1> QED BY <1>1, <1>2, <1>3 DEF Levels

\* A search stays where it is.
LEMMA GrowthSearch ==
  ASSUME ReadersInv, Grows, UNCHANGED reader, ~deleting, seen \subseteq seen'
  PROVE  SearchInv'
<1> SUFFICES ASSUME Searching PROVE SearchInv'
  BY DEF SearchInv, Searching, reader
<1>1. rlvl \in Levels /\ 0 \in Levels
  BY SkipListAssumption DEF ReadersInv, ReadersTypeOK, Levels
<1>2. /\ Members(rlvl) \subseteq Members(rlvl)' /\ Members(0) \subseteq Members(0)'
      /\ \A l : \A m \in Members(l) : key'[m] = key[m]
  BY <1>1, MembersAlive DEF Grows, reader
<1> USE DEF reader
<1>3. rpc \in {"load", "compare", "advance", "last"} =>
        rcur \in Members(rlvl)' \cup {Head} /\ Passed(rcur)'
  BY <1>2 DEF ReadersInv, SearchInv, Passed
<1>4. rpc = "advance" => \E m \in Members(rlvl)' : Precedes(rcur, m)' /\ key'[m] < rkey
  <2> SUFFICES ASSUME rpc = "advance"
               PROVE  \E m \in Members(rlvl)' : Precedes(rcur, m)' /\ key'[m] < rkey
    OBVIOUS
  <2>1. PICK m \in Members(rlvl) : Precedes(rcur, m) /\ key[m] < rkey
    BY DEF ReadersInv, SearchInv
  <2>2. rcur \in Members(rlvl) \cup {Head}
    BY DEF ReadersInv, SearchInv
  <2> QED BY <1>2, <2>1, <2>2 DEF Precedes
<1>5. rpc = "compare" => rnext \in Members(rlvl)' /\ Precedes(rcur, rnext)'
  BY <1>2 DEF ReadersInv, SearchInv, Precedes
<1> QED
  BY <1>2, <1>3, <1>4, <1>5 DEF ReadersInv, SearchInv

\* What a search has excluded stays excluded, unless it is overtaken.
LEMMA GrowthMiss ==
  ASSUME ReadersInv, Grows, UNCHANGED reader, ~deleting, seen \subseteq seen',
         ~overtaken' => ~overtaken /\ ~(Searching /\ pc = "linkB" /\ wkey < rkey)
  PROVE  MissInv'
<1> SUFFICES ASSUME Searching, ~overtaken' PROVE MissInv'
  BY DEF MissInv, Searching, reader
<1>1. 0 \in Levels
  BY SkipListAssumption DEF Levels
<1>2. /\ \A m \in Members(0)' : key'[m] < rkey => m \in Members(0)
      /\ \A l \in Levels : \A m \in Members(l) : key'[m] = key[m]
  <2>1. ~(pc = "linkB" /\ wkey < rkey)
    OBVIOUS
  <2>2. \A m \in Members(0)' : m \in Members(0) \/ (pc = "linkB" /\ key'[m] = wkey)
    BY <1>1 DEF Grows
  <2>3. \A n \in alive : key'[n] = key[n]
    BY DEF Grows
  <2> QED BY <2>1, <2>2, <2>3, MembersAlive
<1> USE DEF reader
<1>3. ASSUME rpc \in {"compare", "last"}, rlvl = 0, NEW m \in Members(0)',
             Precedes(rcur, m)', key'[m] < rkey
      PROVE  m \in Members(0) /\ Precedes(rcur, m) /\ key[m] < rkey /\ key'[m] = key[m]
  BY <1>1, <1>2, <1>3 DEF Precedes, ReadersInv, SearchInv
<1>4. rpc = "compare" /\ rlvl = 0 =>
        \A m \in Members(0)' : Precedes(rcur, m)' /\ key'[m] < rkey => ~(key'[m] < key'[rnext])
  BY <1>1, <1>2, <1>3 DEF ReadersInv, SearchInv, MissInv
<1>5. rpc = "last" => \A m \in Members(0)' : Precedes(rcur, m)' => ~(key'[m] < rkey)
  BY <1>3 DEF ReadersInv, SearchInv, MissInv
<1>6. rpc = "match" => (Matches' <=> Matches)
  BY <1>1, <1>2 DEF ReadersInv, SearchInv, Matches
<1> QED
  BY <1>4, <1>5, <1>6 DEF ReadersInv, MissInv

\* A dump stays where it is, and its pairs stay in the list.
LEMMA GrowthDump ==
  ASSUME ReadersInv, Grows, UNCHANGED <<reader, start>>, ~deleting
  PROVE  DumpInv'
<1> SUFFICES ASSUME Dumping PROVE DumpInv'
  BY DEF DumpInv, Dumping, reader
<1>1. 0 \in Levels
  BY SkipListAssumption DEF Levels
<1>2. /\ Members(0) \subseteq Members(0)'
      /\ \A m \in Members(0) : key'[m] = key[m] /\ value'[m] = value[m]
  BY <1>1, MembersAlive DEF Grows
<1>3. Contents \subseteq Contents'
  BY <1>2 DEF Contents
<1> QED
  BY <1>2, <1>3 DEF ReadersInv, DumpInv, Dumping, reader

\* A step of the writer preserves the invariant.
LEMMA WriterInv == ASSUME ReadersInv, WriterStep PROVE ReadersInv'
<1>1. Inv'
  BY NextInv DEF ReadersInv, WriterStep
<1>2. ReadersTypeOK' /\ Stored'
  BY <1>1, ReadersTypes, StoredInv DEF ReadersInv, ReadersNext, WriterStep, Inv
<1>3. HistoryInv'
  BY WriterHistory
<1>4. rpc' = rpc /\ (deleting => deleting') /\ UNCHANGED reader /\ UNCHANGED start
  BY DEF WriterStep, reader
<1>5. ReaderMemorySafe'
  BY <1>4 DEF ReadersInv, ReaderMemorySafe
<1>6. CASE deleting' \/ ~Reading
  BY <1>1, <1>2, <1>3, <1>4, <1>5, <1>6
  DEF ReadersInv, LevelsAhead, SearchInv, MissInv, DumpInv, Searching, Dumping, Reading
<1>7. CASE ~deleting' /\ Reading
  <2>1. ~deleting /\ op # "delete" /\ op' # "delete"
    BY <1>3, <1>4, <1>7 DEF ReadersInv, HistoryInv, Reading, Searching, Dumping
  <2>2. Grows
    BY <1>1, <2>1, InsertGrows DEF WriterStep, ReadersInv
  <2>3. /\ seen \subseteq seen'
        /\ ~overtaken' => ~overtaken /\ ~(Searching /\ pc = "linkB" /\ wkey < rkey)
    BY DEF WriterStep
  <2> QED
    BY <1>1, <1>2, <1>3, <1>4, <1>5, <2>1, <2>2, <2>3, GrowthLevels, GrowthSearch, GrowthMiss,
       GrowthDump DEF ReadersInv
<1> QED BY <1>6, <1>7

-------------------------------------------------------------------------------
(* A step of the reader, which leaves the list as it is. *)

\* What the invariant says of the list does not change.
LEMMA ListFrame ==
  ASSUME UNCHANGED vars
  PROVE  /\ UNCHANGED <<forward, key, value, alive, node_level, max_level_, op>>
         /\ \A l : Members(l)' = Members(l)
         /\ \A l, n : LeadsToNext(n, l)' <=> LeadsToNext(n, l)
         /\ Contents' = Contents
         /\ \A k : HasKey(k)' = HasKey(k)
<1>1. /\ UNCHANGED <<forward, key, value, alive, node_level, max_level_, op, pc, node, lvl>>
  BY DEF vars, heap, args, locals
<1>2. \A l : Members(l)' = Members(l)
  BY <1>1 DEF Members, OnLevel, Inserting
<1>3. \A l, n : LeadsToNext(n, l)' <=> LeadsToNext(n, l)
  BY <1>1, <1>2 DEF LeadsToNext, Precedes
<1>4. Contents' = Contents
  BY <1>1, <1>2 DEF Contents
<1> QED BY <1>1, <1>2, <1>3, <1>4 DEF HasKey

\* A call begins at the head of the highest level in use, or of the file.
LEMMA BeginInv ==
  ASSUME ReadersInv, UNCHANGED vars, (\E k \in Keys : BeginSearch(k)) \/ BeginDump
  PROVE  HistoryInv' /\ LevelsAhead' /\ SearchInv' /\ MissInv' /\ DumpInv' /\ ReaderMemorySafe'
<1> USE ListFrame
<1> USE DEF Reading, Searching, Dumping, HistoryInv, LevelsAhead, SearchInv, MissInv, DumpInv,
            ReaderMemorySafe
<1>1. ASSUME NEW k \in Keys, BeginSearch(k)
      PROVE  HistoryInv' /\ LevelsAhead' /\ SearchInv' /\ MissInv' /\ DumpInv' /\ ReaderMemorySafe'
  <2>1. HasKey(k)' \in {HasKey(k)}
    OBVIOUS
  <2>2. HistoryInv'
    BY <1>1, <2>1 DEF BeginSearch
  <2>3. LevelsAhead'
    BY <1>1 DEF BeginSearch, ReadersInv, Inv, LevelsOrdered
  <2> QED BY <1>1, <2>2, <2>3 DEF BeginSearch, Passed
<1>2. CASE BeginDump
  BY <1>2 DEF BeginDump, ReadersInv
<1> QED BY <1>1, <1>2

\* A step of a call stays in the call and on its key, and never climbs a level.
LEMMA ReaderStepFacts ==
  ASSUME ReadersInv, ReaderStep
  PROVE  /\ rkey' = rkey /\ rpc' # "idle" /\ rlvl' \in 0 .. rlvl
         /\ (Searching' => Searching) /\ (Dumping' => Dumping)
<1>1. rlvl \in Nat
  BY SkipListAssumption DEF ReadersInv, ReadersTypeOK, Levels
<1> USE <1>1 DEF Searching, Dumping
<1>2. CASE LoadNext BY <1>2 DEF LoadNext, Descend
<1>3. CASE CompareKey BY <1>3 DEF CompareKey, Descend
<1>4. CASE Advance \/ LoadLast \/ Match BY <1>4 DEF Advance, LoadLast, Match
<1>5. CASE BadLoad BY <1>5 DEF BadLoad, Undefined
<1>6. CASE FirstNode \/ WriteNode BY <1>6 DEF FirstNode, WriteNode
<1> QED BY <1>2, <1>3, <1>4, <1>5, <1>6 DEF ReaderStep

\* No step of a call changes its history, and it meets no level it had not before it.
LEMMA ReaderStepFrame ==
  ASSUME ReadersInv, UNCHANGED <<vars, history>>, ReaderStep
  PROVE  HistoryInv' /\ LevelsAhead'
<1>1. HistoryInv'
  BY ListFrame, ReaderStepFacts DEF HistoryInv, Reading, history, ReadersInv
<1>2. LevelsAhead'
  <2> SUFFICES ASSUME Searching', ~deleting', NEW l \in 0 .. rlvl', NEW n \in Members(l)' \cup {Head}
               PROVE  LeadsToNext(n, l)'
    BY DEF LevelsAhead
  <2>1. l \in 0 .. rlvl /\ Searching /\ ~deleting
    <3>1. rlvl \in Nat BY SkipListAssumption DEF ReadersInv, ReadersTypeOK, Levels
    <3> QED BY <3>1, ReaderStepFacts DEF history
  <2> QED BY <2>1, ListFrame DEF ReadersInv, LevelsAhead
<1> QED BY <1>1, <1>2

\* A node of a level is on every lower level too, while nothing is being deleted.
LEMMA LowerMember ==
  ASSUME Inv, op # "delete", NEW l \in Levels, NEW j \in 0 .. l, NEW n \in Members(l)
  PROVE  n \in Members(j)
<1>1. node = Null \/ Inserting
  BY DEF Inv, RequestInv, TypeOK, Inserting
<1>2. node_level[n] \in Levels /\ lvl \in Nat /\ n # Null
  BY SkipListAssumption, MembersAlive DEF Inv, TypeOK, Levels
<1> QED BY <1>1, <1>2, SkipListAssumption DEF Members, OnLevel, Levels

\* A reader that no deletion overlaps may load what it loads next.
LEMMA NoBadLoad ==
  ASSUME ReadersInv, ~deleting
  PROVE  ~BadLoad
<1> SUFFICES ASSUME BadLoad PROVE FALSE
  OBVIOUS
<1>1. \A l \in Levels : \A n \in Members(l) \cup {Head} : Readable(n, l)
  BY DEF Members, OnLevel, Readable
<1>2. rlvl \in Levels /\ 0 \in Levels
  BY SkipListAssumption DEF ReadersInv, ReadersTypeOK, Levels
<1> QED
  BY <1>1, <1>2, MembersAlive DEF BadLoad, ReadersInv, SearchInv, DumpInv, Searching, Dumping

\* Where a search is that no deletion overlaps.
LEMMA SearchAt ==
  ASSUME ReadersInv, ~deleting, rpc \in {"load", "compare", "advance", "last"}
  PROVE  /\ rcur \in Members(rlvl) \cup {Head} /\ Passed(rcur)
         /\ LeadsToNext(rcur, rlvl)
         /\ rlvl \in Levels /\ rlvl \in Nat
         /\ \A j \in 0 .. rlvl : rcur \in Members(j) \cup {Head}
         /\ \A l : \A m \in Members(l) : m \in Nodes /\ m # Head /\ m # Null /\ key[m] \in Int
<1>1. rlvl \in Levels /\ rlvl \in Nat
  BY SkipListAssumption DEF ReadersInv, ReadersTypeOK, Levels
<1>2. rcur \in Members(rlvl) \cup {Head} /\ Passed(rcur) /\ LeadsToNext(rcur, rlvl)
  <2>1. Searching /\ rlvl \in 0 .. rlvl
    BY <1>1 DEF Searching
  <2>2. rcur \in Members(rlvl) \cup {Head} /\ Passed(rcur)
    BY <2>1 DEF ReadersInv, SearchInv
  <2> QED BY <2>1, <2>2 DEF ReadersInv, LevelsAhead
<1>3. \A j \in 0 .. rlvl : rcur \in Members(j) \cup {Head}
  BY <1>1, <1>2, LowerMember DEF ReadersInv, HistoryInv, Reading, Searching
<1>4. \A l : \A m \in Members(l) : m \in Nodes /\ m # Head /\ m # Null /\ key[m] \in Int
  BY SkipListAssumption, MembersAlive DEF ReadersInv, Inv, TypeOK
<1> QED BY <1>1, <1>2, <1>3, <1>4

\* The first load of the loop finds the next node of the level, or none.
LEMMA LoadNextInv ==
  ASSUME ReadersInv, UNCHANGED <<vars, history>>, ~deleting, LoadNext
  PROVE  SearchInv' /\ MissInv'
<1> DEFINE next == forward[rcur][rlvl]
<1>1. /\ rpc = "load" /\ UNCHANGED <<rkey, rcur, answer, seen, deleting, overtaken>>
      /\ UNCHANGED <<forward, key>> /\ (\A l : Members(l)' = Members(l))
  BY ListFrame DEF LoadNext, history
<1> USE <1>1, SearchAt
<1>2. CASE next = Null
  <2>1. rpc' \in {"load", "last"} /\ (rpc' = "last" <=> rlvl = 0) /\ rlvl' \in 0 .. rlvl
    BY <1>2 DEF LoadNext, Descend
  <2>2. rlvl = 0 => \A m \in Members(0) : ~Precedes(rcur, m)
    BY <1>2 DEF LeadsToNext
  <2>3. rcur' \in Members(rlvl)' \cup {Head} /\ Passed(rcur)'
    BY <2>1 DEF Passed
  <2>4. rpc' = "last" => rlvl' = 0
    BY <2>1
  <2> QED BY <2>1, <2>2, <2>3, <2>4 DEF SearchInv, MissInv, Precedes
<1>3. CASE next # Null
  <2>1. rpc' = "compare" /\ rnext' = next /\ rlvl' = rlvl
    BY <1>3 DEF LoadNext
  <2>2. /\ next \in Members(rlvl) /\ Precedes(rcur, next)
        /\ \A m \in Members(rlvl) : ~(Precedes(rcur, m) /\ Precedes(m, next))
    BY <1>3 DEF LeadsToNext
  <2>3. Passed(rcur)'
    BY DEF Passed
  <2> QED BY <2>1, <2>2, <2>3 DEF SearchInv, MissInv, Precedes
<1> QED BY <1>2, <1>3

\* Its comparison sends it to the right only while a smaller key lies before it.
LEMMA CompareKeyInv ==
  ASSUME ReadersInv, UNCHANGED <<vars, history>>, ~deleting, CompareKey
  PROVE  SearchInv' /\ MissInv'
<1>1. /\ rpc = "compare" /\ UNCHANGED <<rkey, rcur, answer, seen, deleting, overtaken>>
      /\ UNCHANGED <<forward, key>> /\ (\A l : Members(l)' = Members(l))
  BY ListFrame DEF CompareKey, history
<1> USE <1>1, SearchAt
<1>2. rnext \in Members(rlvl) /\ Precedes(rcur, rnext) /\ rkey \in Int
  BY SkipListAssumption DEF ReadersInv, SearchInv, Searching, ReadersTypeOK
<1>3. Passed(rcur)'
  BY DEF Passed
<1>4. CASE IsSmaller
  <2>1. rpc' = "advance" /\ rlvl' = rlvl
    BY <1>4 DEF CompareKey
  <2>2. Precedes(rcur, rnext) /\ key[rnext] < rkey
    BY <1>2, <1>4 DEF IsSmaller
  <2> QED BY <1>2, <1>3, <2>1, <2>2 DEF SearchInv, MissInv, Precedes
<1>5. CASE ~IsSmaller
  <2>1. rpc' \in {"load", "last"} /\ (rpc' = "last" <=> rlvl = 0) /\ rlvl' \in 0 .. rlvl
    BY <1>5 DEF CompareKey, Descend
  <2>2. rcur' \in Members(rlvl)' \cup {Head}
    BY <2>1
  <2>3. ~overtaken /\ rlvl = 0 => \A m \in Members(0) : Precedes(rcur, m) => ~(key[m] < rkey)
    <3> SUFFICES ASSUME ~overtaken, rlvl = 0, NEW m \in Members(0), Precedes(rcur, m), key[m] < rkey
                 PROVE  FALSE
      OBVIOUS
    <3>1. ~(key[m] < key[rnext]) /\ ~(key[rnext] < rkey)
      BY <1>5 DEF ReadersInv, MissInv, Searching, IsSmaller
    <3> QED BY <1>2, <3>1
  <2>4. rpc' = "last" => rlvl' = 0
    BY <2>1
  <2> QED BY <1>3, <2>1, <2>2, <2>3, <2>4 DEF SearchInv, MissInv, Precedes
<1> QED BY <1>4, <1>5

\* The repeated load may find another node than the comparison did, but never
\* one behind it: what it moves to is still smaller than the key.
LEMMA AdvanceInv ==
  ASSUME ReadersInv, UNCHANGED <<vars, history>>, ~deleting, Advance
  PROVE  SearchInv' /\ MissInv'
<1> DEFINE next == forward[rcur][rlvl]
<1>1. /\ rpc = "advance" /\ rpc' = "load" /\ rcur' = next
      /\ UNCHANGED <<rkey, rlvl, answer, seen, deleting, overtaken>>
      /\ UNCHANGED <<forward, key>> /\ (\A l : Members(l)' = Members(l))
  BY ListFrame DEF Advance, history
<1> USE <1>1, SearchAt
<1>2. PICK m \in Members(rlvl) : Precedes(rcur, m) /\ key[m] < rkey
  BY DEF ReadersInv, SearchInv, Searching
<1>3. next \in Members(rlvl) /\ ~Precedes(m, next)
  BY <1>2 DEF LeadsToNext
<1>4. rkey \in Int
  BY SkipListAssumption DEF ReadersInv, ReadersTypeOK
<1>5. key[next] < rkey
  BY <1>2, <1>3, <1>4 DEF Precedes
<1> QED BY <1>3, <1>5 DEF SearchInv, MissInv, Passed

\* The load after the loop finds the key, or nothing between the place of the
\* search and the key: then the key is not in the list at this moment.
LEMMA LoadLastInv ==
  ASSUME ReadersInv, UNCHANGED <<vars, history>>, ~deleting, LoadLast
  PROVE  SearchInv' /\ MissInv'
<1> DEFINE next == forward[rcur][0]
<1>1. /\ rpc = "last" /\ rpc' = "match" /\ rnext' = next
      /\ UNCHANGED <<rkey, rcur, rlvl, answer, seen, deleting, overtaken>>
      /\ UNCHANGED <<forward, key>> /\ (\A l : Members(l)' = Members(l))
  BY ListFrame DEF LoadLast, history
<1> USE <1>1, SearchAt
<1>2. rlvl = 0 /\ rkey \in Int
  <2>1. rlvl = 0 BY DEF ReadersInv, SearchInv, Searching
  <2>2. rkey \in Int BY SkipListAssumption DEF ReadersInv, ReadersTypeOK
  <2> QED BY <2>1, <2>2
<1>3. next \in Members(0) \cup {Null}
  BY <1>2 DEF LeadsToNext
<1>4. ASSUME ~overtaken, ~(next # Null /\ key[next] = rkey) PROVE FALSE \in seen
  <2>1. \A m \in Members(0) : Precedes(rcur, m) => ~(key[m] < rkey)
    BY <1>4 DEF ReadersInv, MissInv, Searching
  <2>2. ASSUME NEW m \in Members(0), key[m] = rkey PROVE FALSE
    <3>1. Precedes(rcur, m)
      BY <1>2, <2>2 DEF Precedes, Passed
    <3>2. next # Null /\ next \in Members(0) /\ Precedes(rcur, next) /\ ~Precedes(m, next)
      BY <1>2, <3>1 DEF LeadsToNext
    <3>3. ~(key[next] < rkey) /\ ~(rkey < key[next])
      BY <2>1, <2>2, <3>2 DEF Precedes
    <3> QED BY <1>2, <1>4, <3>2, <3>3
  <2>3. ~HasKey(rkey)
    BY <2>2 DEF HasKey, Contents
  <2>4. HasKey(rkey) = FALSE
    BY <2>3, Zenon DEF HasKey
  <2> QED BY <2>4 DEF ReadersInv, HistoryInv, Searching
<1> QED BY <1>3, <1>4 DEF SearchInv, MissInv, Matches

\* The answer is what the loaded node says.
LEMMA MatchInv ==
  ASSUME ReadersInv, UNCHANGED <<vars, history>>, ~deleting, Match
  PROVE  SearchInv' /\ MissInv'
<1>1. /\ rpc = "match" /\ rpc' = "answered" /\ answer' = Matches
      /\ UNCHANGED <<rkey, rnext, seen, deleting, overtaken>>
  BY DEF Match, history
<1>2. rnext \in Members(0) \cup {Null}
  BY <1>1 DEF ReadersInv, SearchInv, Searching
<1>3. ASSUME Matches PROVE TRUE \in seen
  <2>1. <<key[rnext], value[rnext]>> \in Contents
    BY <1>2, <1>3 DEF Matches, Contents
  <2>2. HasKey(rkey)
    BY <1>3, <2>1 DEF HasKey, Matches
  <2> QED BY <1>1, <2>2 DEF ReadersInv, HistoryInv, Searching
<1>4. ~Matches /\ ~overtaken => FALSE \in seen
  BY <1>1 DEF ReadersInv, MissInv, Searching
<1> QED BY <1>1, <1>3, <1>4 DEF SearchInv, MissInv

\* A dump begins with the first node.
LEMMA FirstNodeInv ==
  ASSUME ReadersInv, UNCHANGED <<vars, history>>, ~deleting, FirstNode
  PROVE  DumpInv'
<1> DEFINE next == forward[Head][0]
<1>1. /\ rpc = "first" /\ rcur' = next /\ rpc' = IF next = Null THEN "dumped" ELSE "write"
      /\ UNCHANGED <<written, start, deleting, key>> /\ Contents' = Contents /\ Members(0)' = Members(0)
  BY ListFrame DEF FirstNode, history
<1>2. start \subseteq Contents /\ written \subseteq Contents
  BY <1>1 DEF ReadersInv, DumpInv, Dumping
<1>3. LeadsToNext(Head, 0)
  BY SkipListAssumption DEF ReadersInv, Inv, TypeOK, LevelsOrdered, Levels
<1>4. next = Null => Contents = {}
  BY <1>3 DEF LeadsToNext, Precedes, Contents
<1>5. ASSUME next # Null PROVE next \in Members(0) /\ \A p \in start : ~(p[1] < key[next])
  <2>1. next \in Members(0) /\ \A m \in Members(0) : ~(Precedes(Head, m) /\ Precedes(m, next))
    BY <1>3, <1>5 DEF LeadsToNext
  <2>2. \A m \in Members(0) : ~(key[m] < key[next])
    BY <2>1 DEF Precedes
  <2> QED BY <1>2, <2>1, <2>2 DEF Contents
<1> QED BY <1>1, <1>2, <1>4, <1>5 DEF DumpInv

\* A pair that the dump has not written is behind the node it moves to.
LEMMA WriteNodeInv ==
  ASSUME ReadersInv, UNCHANGED <<vars, history>>, ~deleting, WriteNode
  PROVE  DumpInv'
<1> DEFINE next == forward[rcur][0]
           pair == <<key[rcur], value[rcur]>>
<1>1. /\ rpc = "write" /\ rcur' = next /\ rpc' = IF next = Null THEN "dumped" ELSE "write"
      /\ written' = written \cup {pair}
      /\ UNCHANGED <<start, deleting, key>> /\ Contents' = Contents /\ Members(0)' = Members(0)
  BY ListFrame DEF WriteNode, history
<1>2. /\ start \subseteq Contents /\ written \subseteq Contents /\ rcur \in Members(0)
      /\ \A p \in start : p \in written \/ ~(p[1] < key[rcur])
  BY <1>1 DEF ReadersInv, DumpInv, Dumping
<1>3. LeadsToNext(rcur, 0)
  BY <1>2, SkipListAssumption DEF ReadersInv, Inv, TypeOK, LevelsOrdered, Levels
<1>4. written' \subseteq Contents
  BY <1>1, <1>2 DEF Contents
<1>5. next = Null \/ next \in Members(0)
  BY <1>3 DEF LeadsToNext
<1>6. ASSUME NEW p \in start, p \notin written'
      PROVE  next # Null /\ ~(p[1] < key[next])
  <2>1. PICK m \in Members(0) : p = <<key[m], value[m]>>
    BY <1>2 DEF Contents
  <2>2. key[m] \in Int /\ key[rcur] \in Int /\ m \in alive /\ rcur \in alive
    BY <1>2, <2>1, MembersAlive DEF ReadersInv, Inv, TypeOK
  <2>3. ~(key[m] < key[rcur])
    BY <1>1, <1>2, <1>6, <2>1
  <2>4. m # rcur
    BY <1>1, <1>6, <2>1
  <2>5. key[m] # key[rcur]
    BY <2>2, <2>4 DEF ReadersInv, Inv, KeysUnique
  <2>6. Precedes(rcur, m)
    BY <2>2, <2>3, <2>5 DEF Precedes
  <2> QED BY <1>3, <2>1, <2>6 DEF LeadsToNext, Precedes
<1> HIDE DEF pair, next
<1> QED BY <1>1, <1>2, <1>4, <1>5, <1>6 DEF DumpInv

\* A step of a call preserves the invariant.
LEMMA ReaderStepInv ==
  ASSUME ReadersInv, UNCHANGED <<vars, history>>, ReaderStep
  PROVE  SearchInv' /\ MissInv' /\ DumpInv' /\ ReaderMemorySafe'
<1>1. deleting' = deleting
  BY DEF history
<1>2. CASE deleting
  BY <1>1, <1>2 DEF SearchInv, MissInv, DumpInv, ReaderMemorySafe
<1>3. CASE ~deleting
  <2> USE <1>1, <1>3 DEF Searching, Dumping, ReaderMemorySafe
  <2>1. CASE LoadNext \/ CompareKey \/ Advance \/ LoadLast \/ Match
    <3>1. rpc' \in {"load", "compare", "advance", "last", "match", "answered"}
      BY <2>1 DEF LoadNext, CompareKey, Advance, LoadLast, Match, Descend
    <3> QED BY <2>1, <3>1, LoadNextInv, CompareKeyInv, AdvanceInv, LoadLastInv, MatchInv DEF DumpInv
  <2>2. CASE FirstNode \/ WriteNode
    <3>1. rpc' \in {"write", "dumped"}
      BY <2>2 DEF FirstNode, WriteNode
    <3> QED BY <2>2, <3>1, FirstNodeInv, WriteNodeInv DEF SearchInv, MissInv
  <2>3. ~BadLoad BY NoBadLoad
  <2> QED BY <2>1, <2>2, <2>3 DEF ReaderStep
<1> QED BY <1>2, <1>3

-------------------------------------------------------------------------------
(* The invariance proof. *)

\* Before the first call the reader knows nothing.
LEMMA ReadersInitInv == ReadersInit => ReadersInv
<1> SUFFICES ASSUME ReadersInit PROVE ReadersInv
  OBVIOUS
<1>1. Inv
  BY InitInv DEF ReadersInit
<1>2. Stored
  BY DEF ReadersInit, Init, Stored
<1>3. ReadersTypeOK
  <2>1. answer \in BOOLEAN /\ deleting \in BOOLEAN /\ overtaken \in BOOLEAN
    BY DEF ReadersInit
  <2> QED BY <1>1, <2>1, SkipListAssumption DEF ReadersInit, ReadersTypeOK, Inv, Levels
<1> QED
  BY <1>1, <1>2, <1>3
  DEF ReadersInv, ReadersInit, HistoryInv, LevelsAhead, SearchInv, MissInv, DumpInv,
      ReaderMemorySafe, Reading, Searching, Dumping

\* Every step of writer and reader preserves the invariant.
LEMMA ReadersStepInv == ReadersInv /\ [ReadersNext]_rvars => ReadersInv'
<1> SUFFICES ASSUME ReadersInv, [ReadersNext]_rvars PROVE ReadersInv'
  OBVIOUS
<1>1. CASE WriterStep
  BY <1>1, WriterInv
<1>2. ASSUME ReadersNext, UNCHANGED vars,
             \/ \E k \in Keys : BeginSearch(k)
             \/ BeginDump
             \/ EndRead
             \/ ReaderStep /\ UNCHANGED history
      PROVE  ReadersInv'
  <2>1. Inv' /\ Stored'
    BY <1>2, StutterInv, StoredInv DEF ReadersInv
  <2>2. ReadersTypeOK'
    BY <1>2, <2>1, ReadersTypes DEF ReadersInv, Inv
  <2>3. CASE EndRead
    BY <2>1, <2>2, <2>3
    DEF EndRead, ReadersInv, HistoryInv, LevelsAhead, SearchInv, MissInv, DumpInv,
        ReaderMemorySafe, Reading, Searching, Dumping
  <2> QED
    BY <1>2, <2>1, <2>2, <2>3, BeginInv, ReaderStepFrame, ReaderStepInv DEF ReadersInv
<1>3. CASE UNCHANGED rvars
  <2>1. UNCHANGED vars /\ UNCHANGED reader /\ UNCHANGED history
    BY <1>3 DEF rvars
  <2>2. Inv' /\ Stored'
    BY <2>1, StutterInv, StoredInv DEF ReadersInv
  <2> USE <2>1, ListFrame DEF reader, history, ReadersInv, Searching, Dumping, Reading
  <2>3. ReadersTypeOK'
    BY <2>2 DEF ReadersTypeOK, Inv
  <2>4. HistoryInv' /\ LevelsAhead' /\ DumpInv' /\ ReaderMemorySafe'
    BY DEF HistoryInv, LevelsAhead, DumpInv, ReaderMemorySafe
  <2>5. SearchInv' /\ MissInv'
    BY DEF SearchInv, MissInv, Passed, Precedes, Matches
  <2> QED BY <2>2, <2>3, <2>4, <2>5
<1> QED BY <1>1, <1>2, <1>3 DEF ReadersNext

\* ReadersInv is an invariant of the list with its reader.
LEMMA AlwaysReadersInv == ReadersSpec => []ReadersInv
  BY ReadersInitInv, ReadersStepInv, PTL DEF ReadersSpec

-------------------------------------------------------------------------------
(* The properties, for every key set, heap and height. *)

\* The reader's locals and its history have their types, whatever it finds
\* behind a stale pointer (search_element, dump_file).
THEOREM ReadersTypeCorrect == ReadersSpec => []ReadersTypeOK
  BY AlwaysReadersInv, PTL DEF ReadersInv

\* search_element and dump_file touch only live nodes and only pointers within
\* their forward arrays, unless a delete_element runs during the call.
THEOREM ReadersStayMemorySafe == ReadersSpec => []ReaderMemorySafe
  BY AlwaysReadersInv, PTL DEF ReadersInv

\* A key that search_element reports was in the list at some instant of the
\* call, unless a delete_element runs during it.
THEOREM FoundWasThere == ReadersSpec => []FoundIsThere
<1>1. ReadersInv => FoundIsThere
  BY DEF ReadersInv, SearchInv, FoundIsThere, Searching
<1> QED BY <1>1, AlwaysReadersInv, PTL

\* A key that search_element misses was absent at some instant of the call,
\* unless a delete_element runs, or a smaller key is linked, during it.
THEOREM MissedWasAbsent == ReadersSpec => []MissedIsAbsent
<1>1. ReadersInv => MissedIsAbsent
  BY DEF ReadersInv, MissInv, MissedIsAbsent, Searching
<1> QED BY <1>1, AlwaysReadersInv, PTL

\* A dump that has ended holds the list it began with and nothing foreign.
DumpSound ==
  rpc = "dumped" /\ ~deleting => start \subseteq written /\ written \subseteq Contents

\* dump_file writes all that was in the list when it began and nothing that is
\* not in it at the end, unless a delete_element runs during the call.
THEOREM DumpsAreSound == ReadersSpec => []DumpSound
<1>1. ReadersInv => DumpSound
  BY DEF ReadersInv, DumpInv, DumpSound, Dumping
<1> QED BY <1>1, AlwaysReadersInv, PTL


-------------------------------------------------------------------------------
(* How long a call takes. *)

\* The keys a search may still step over, and those a dump may still write.
SearchAhead == {k \in Keys : (rcur = Head \/ key[rcur] < k) /\ k < rkey}
DumpAhead == {k \in Keys : ~(k < key[rcur])}

\* A bound on the loads that the call has still to make.
LoadsLeft ==
  CASE rpc = "load" -> 3 * (rlvl + Cardinality(SearchAhead)) + 5
    [] rpc = "compare" -> 3 * (rlvl + Cardinality(SearchAhead)) + 4
    [] rpc = "advance" -> 3 * (rlvl + Cardinality(SearchAhead)) + 3
    [] rpc = "last" -> 2
    [] rpc = "match" -> 1
    [] rpc = "first" -> Cardinality(Keys) + 1
    [] rpc = "write" -> Cardinality(DumpAhead)
    [] OTHER -> 0

MostLoads == 3 * (MaxLevel + Cardinality(Keys)) + 5

\* Every load brings the call nearer to its end, and no insertion puts it back.
WaitFree ==
  [][/\ rpc = "idle" => LoadsLeft' \in 0 .. MostLoads
     /\ Reading /\ ~deleting' =>
          /\ WriterStep => LoadsLeft' = LoadsLeft
          /\ ReaderStep /\ UNCHANGED vars => LoadsLeft' \in 0 .. LoadsLeft - 1]_rvars

LEMMA AheadTypes ==
  ASSUME IsFiniteSet(Keys)
  PROVE  /\ Cardinality(Keys) \in Nat
         /\ Cardinality(SearchAhead) \in 0 .. Cardinality(Keys)
         /\ Cardinality(SearchAhead') \in 0 .. Cardinality(Keys)
         /\ Cardinality(DumpAhead) \in 0 .. Cardinality(Keys)
         /\ Cardinality(DumpAhead') \in 0 .. Cardinality(Keys)
<1>1. /\ SearchAhead \subseteq Keys /\ SearchAhead' \subseteq Keys
      /\ DumpAhead \subseteq Keys /\ DumpAhead' \subseteq Keys
  BY DEF SearchAhead, DumpAhead
<1>2. \A S \in SUBSET Keys : Cardinality(S) \in 0 .. Cardinality(Keys)
  <2> SUFFICES ASSUME NEW S \in SUBSET Keys PROVE Cardinality(S) \in 0 .. Cardinality(Keys)
    OBVIOUS
  <2>1. Cardinality(S) \in Nat /\ Cardinality(S) <= Cardinality(Keys)
    BY FewerKeys
  <2> QED BY <2>1, FS_CardinalityType
<1> QED BY <1>1, <1>2, FS_CardinalityType

\* Advance leaves a key behind.
LEMMA AdvanceLeaves ==
  ASSUME ReadersInv, IsFiniteSet(Keys), ~deleting, UNCHANGED vars, Advance
  PROVE  Cardinality(SearchAhead') < Cardinality(SearchAhead)
<1> DEFINE n == forward[rcur][rlvl]
<1>1. rpc = "advance" /\ rcur' = n /\ rkey' = rkey /\ key' = key
  BY ListFrame DEF Advance
<1>2. PICK m \in Members(rlvl) : Precedes(rcur, m) /\ key[m] < rkey
  BY <1>1 DEF ReadersInv, SearchInv, Searching
<1>3. /\ rcur \in Members(rlvl) \cup {Head} /\ LeadsToNext(rcur, rlvl) /\ rkey \in Int
      /\ \A l : \A i \in Members(l) : i \in Nodes /\ i # Head /\ i # Null /\ key[i] \in Int
  BY <1>1, SearchAt, SkipListAssumption DEF ReadersInv, ReadersTypeOK
<1>4. n \in Members(rlvl) /\ Precedes(rcur, n) /\ ~Precedes(m, n)
  BY <1>2, <1>3 DEF LeadsToNext
<1>5. n # Head /\ key[n] \in Keys /\ key[n] \in Int /\ key[n] < rkey
  BY <1>2, <1>3, <1>4, MembersAlive DEF Precedes, ReadersInv, Stored
<1>6. key[n] \in SearchAhead /\ key[n] \notin SearchAhead'
  BY <1>1, <1>4, <1>5 DEF SearchAhead, Precedes
<1>7. SearchAhead' \subseteq SearchAhead
  <2> SUFFICES ASSUME NEW k \in Keys, key[n] < k, k < rkey
               PROVE  rcur = Head \/ key[rcur] < k
    BY <1>1, <1>5 DEF SearchAhead
  <2>1. k \in Int
    BY SkipListAssumption DEF SkipListAssumption
  <2> QED BY <1>3, <1>4, <1>5, <2>1 DEF Precedes
<1> QED BY <1>6, <1>7, FewerKeys DEF SearchAhead

\* So does a dump, with every node it writes.
LEMMA WriteLeaves ==
  ASSUME ReadersInv, IsFiniteSet(Keys), ~deleting, UNCHANGED vars, WriteNode
  PROVE  IF rpc' = "write" THEN Cardinality(DumpAhead') < Cardinality(DumpAhead)
                           ELSE Cardinality(DumpAhead) > 0
<1> DEFINE n == forward[rcur][0]
<1>1. rpc = "write" /\ rcur' = n /\ key' = key /\ (rpc' = "write" => n # Null)
  BY ListFrame DEF WriteNode
<1>2. rcur \in Members(0)
  BY <1>1 DEF ReadersInv, DumpInv, Dumping
<1>3. LeadsToNext(rcur, 0)
  BY <1>2, SkipListAssumption DEF ReadersInv, Inv, TypeOK, LevelsOrdered, Levels
<1>4. \A i \in Members(0) : i # Head /\ key[i] \in Keys /\ key[i] \in Int
  BY MembersAlive, SkipListAssumption DEF SkipListAssumption, ReadersInv, Stored
<1>5. key[rcur] \in DumpAhead
  BY <1>2, <1>4 DEF DumpAhead
<1>6. CASE rpc' = "write"
  <2>1. n \in Members(0) /\ key[rcur] < key[n]
    BY <1>1, <1>2, <1>3, <1>4, <1>6 DEF LeadsToNext, Precedes
  <2>2. key[rcur] \notin DumpAhead'
    BY <1>1, <1>2, <1>4, <2>1 DEF DumpAhead
  <2>3. DumpAhead' \subseteq DumpAhead
    <3> SUFFICES ASSUME NEW k \in Keys, ~(k < key[n]) PROVE ~(k < key[rcur])
      BY <1>1 DEF DumpAhead
    <3>1. k \in Int
      BY SkipListAssumption DEF SkipListAssumption
    <3> QED BY <1>2, <1>4, <2>1, <3>1
  <2> QED BY <1>5, <1>6, <2>2, <2>3, FewerKeys DEF DumpAhead
<1>7. CASE rpc' # "write"
  <2>1. Cardinality(DumpAhead) \in Nat /\ Cardinality({}) < Cardinality(DumpAhead)
    <3>1. DumpAhead \in SUBSET Keys /\ {} \in SUBSET DumpAhead
      BY DEF DumpAhead
    <3> QED BY <1>5, <3>1, FewerKeys
  <2> QED BY <1>7, <2>1, FS_EmptySet
<1> QED BY <1>6, <1>7

\* A step of the reader.
LEMMA LoadsFall ==
  ASSUME ReadersInv, IsFiniteSet(Keys), ~deleting, UNCHANGED vars, ReaderStep
  PROVE  LoadsLeft' \in 0 .. LoadsLeft - 1
<1>1. rlvl \in Nat /\ key' = key
  BY ListFrame, SkipListAssumption DEF ReadersInv, ReadersTypeOK, Levels
<1> USE AheadTypes
<1>2. ASSUME rcur' = rcur, rkey' = rkey PROVE SearchAhead' = SearchAhead
  BY <1>1, <1>2 DEF SearchAhead
<1> HIDE DEF SearchAhead, DumpAhead
<1>3. CASE LoadNext
  <2>1. rpc = "load" /\ rcur' = rcur /\ rkey' = rkey
    BY <1>3 DEF LoadNext
  <2>2. \/ rpc' = "compare" /\ rlvl' = rlvl
        \/ rpc' = "last"
        \/ rpc' = "load" /\ rlvl' = rlvl - 1 /\ rlvl # 0
    BY <1>3 DEF LoadNext, Descend
  <2> QED BY <1>1, <1>2, <2>1, <2>2 DEF LoadsLeft
<1>4. CASE CompareKey
  <2>1. rpc = "compare" /\ rcur' = rcur /\ rkey' = rkey
    BY <1>4 DEF CompareKey
  <2>2. \/ rpc' = "advance" /\ rlvl' = rlvl
        \/ rpc' = "last"
        \/ rpc' = "load" /\ rlvl' = rlvl - 1 /\ rlvl # 0
    BY <1>4 DEF CompareKey, Descend
  <2> QED BY <1>1, <1>2, <2>1, <2>2 DEF LoadsLeft
<1>5. CASE Advance
  <2>1. rpc = "advance" /\ rpc' = "load" /\ rlvl' = rlvl
    BY <1>5 DEF Advance
  <2> QED BY <1>1, <1>5, <2>1, AdvanceLeaves DEF LoadsLeft
<1>6. CASE LoadLast \/ Match
  BY <1>6 DEF LoadLast, Match, LoadsLeft
<1>7. CASE FirstNode
  <2>1. rpc = "first" /\ rpc' \in {"write", "dumped"}
    BY <1>7 DEF FirstNode
  <2> QED BY <2>1 DEF LoadsLeft
<1>8. CASE WriteNode
  <2>1. rpc = "write" /\ rpc' \in {"write", "dumped"}
    BY <1>8 DEF WriteNode
  <2>2. LoadsLeft = Cardinality(DumpAhead)
        /\ LoadsLeft' = IF rpc' = "write" THEN Cardinality(DumpAhead') ELSE 0
    BY <2>1 DEF LoadsLeft
  <2> QED BY <1>8, <2>1, <2>2, WriteLeaves
<1> QED BY <1>3, <1>4, <1>5, <1>6, <1>7, <1>8, NoBadLoad DEF ReaderStep

\* A step of the writer.
LEMMA LoadsStay ==
  ASSUME ReadersInv, WriterStep, Reading, ~deleting'
  PROVE  LoadsLeft' = LoadsLeft
<1>1. UNCHANGED reader /\ ~deleting /\ op # "delete" /\ op' # "delete"
  BY DEF WriterStep, ReadersInv, HistoryInv
<1>2. Grows
  BY <1>1, InsertGrows, NextInv DEF WriterStep, ReadersInv
<1>3. rpc \in {"load", "compare", "advance"} => rcur = Head \/ key'[rcur] = key[rcur]
  BY <1>1, <1>2, SearchAt, MembersAlive DEF Grows
<1>4. rpc = "write" => key'[rcur] = key[rcur]
  BY <1>1, <1>2, MembersAlive DEF Grows, ReadersInv, DumpInv, Dumping
<1>5. rpc \in {"load", "compare", "advance"} => SearchAhead' = SearchAhead
  BY <1>1, <1>3 DEF reader, SearchAhead
<1>6. rpc = "write" => DumpAhead' = DumpAhead
  BY <1>1, <1>4 DEF reader, DumpAhead
<1> QED BY <1>1, <1>5, <1>6 DEF reader, LoadsLeft

\* A call that begins has at most MostLoads loads to make.
LEMMA LoadsAtFirst ==
  ASSUME ReadersInv, IsFiniteSet(Keys), ReadersNext, rpc = "idle"
  PROVE  LoadsLeft' \in 0 .. MostLoads
<1>1. MaxLevel \in Nat /\ max_level_ \in 0 .. MaxLevel
  BY SkipListAssumption DEF SkipListAssumption, ReadersInv, Inv, TypeOK, Levels
<1> USE AheadTypes
<1>2. CASE WriterStep
  <2>1. rpc' = "idle"
    BY <1>2 DEF WriterStep, reader
  <2> QED BY <1>1, <2>1 DEF LoadsLeft, MostLoads
<1>3. CASE \E k \in Keys : BeginSearch(k)
  <2>1. rpc' = "load" /\ rlvl' = max_level_
    BY <1>3 DEF BeginSearch
  <2> QED BY <1>1, <2>1 DEF LoadsLeft, MostLoads
<1>4. CASE BeginDump
  <2>1. rpc' = "first"
    BY <1>4 DEF BeginDump
  <2> QED BY <1>1, <2>1 DEF LoadsLeft, MostLoads
<1> QED
  BY <1>2, <1>3, <1>4 DEF ReadersNext, EndRead, ReaderStep, LoadNext, CompareKey, Advance, LoadLast,
                          Match, BadLoad, FirstNode, WriteNode

\* search_element and dump_file are wait-free beside insertions: a call that no
\* delete_element overlaps ends after at most 3 (MaxLevel + |Keys|) + 5 loads of
\* its own, however many nodes are linked in front of it meanwhile.
THEOREM ReadsAreWaitFree == IsFiniteSet(Keys) => (ReadersSpec => WaitFree)
<1> SUFFICES ASSUME IsFiniteSet(Keys) PROVE ReadersSpec => WaitFree
  OBVIOUS
<1>1. ASSUME ReadersInv, ReadersNext
      PROVE  /\ rpc = "idle" => LoadsLeft' \in 0 .. MostLoads
             /\ Reading /\ ~deleting' =>
                  /\ WriterStep => LoadsLeft' = LoadsLeft
                  /\ ReaderStep /\ UNCHANGED vars => LoadsLeft' \in 0 .. LoadsLeft - 1
  <2>1. ASSUME Reading, ReaderStep, ~deleting' PROVE ~deleting
    BY <1>1, <2>1, ReaderStepFacts
    DEF ReadersNext, WriterStep, BeginSearch, BeginDump, EndRead, history, Reading, Searching, Dumping
  <2> QED BY <1>1, <2>1, LoadsAtFirst, LoadsStay, LoadsFall
<1>2. ReadersInv /\ [ReadersNext]_rvars =>
        [/\ rpc = "idle" => LoadsLeft' \in 0 .. MostLoads
         /\ Reading /\ ~deleting' =>
              /\ WriterStep => LoadsLeft' = LoadsLeft
              /\ ReaderStep /\ UNCHANGED vars => LoadsLeft' \in 0 .. LoadsLeft - 1]_rvars
  BY <1>1
<1> QED BY <1>2, AlwaysReadersInv, PTL DEF ReadersSpec, WaitFree

-------------------------------------------------------------------------------
(***************************************************************************)
(* The list with dump_file beside its writers implements MapWalk: the      *)
(* writers' steps are those of the map, each pair that dump_file writes is *)
(* a Write of the walk, and its return is the walk's end.                  *)
(***************************************************************************)

\* What a dump that no deletion overlaps has written lies before the node it is at.
WalkOrder ==
  Undisturbed =>
    /\ rpc = "first" => written = {}
    /\ rpc = "write" => \A p \in written : p[1] < key[rcur]

\* Both abstract modules speak of the same operations.
LEMMA SameMap == Map!Next <=> Walk!Next
  BY DEF Map!Next, Map!Call, Map!Insert, Map!Delete, Map!Return, Map!NothingToDo, Map!Bound,
         Map!Requests, Map!NoRequest,
         Walk!Next, Walk!Call, Walk!Insert, Walk!Delete, Walk!Return, Walk!NothingToDo, Walk!Bound,
         Walk!Requests, Walk!NoRequest

\* The node a dump is at leads to the next one of level 0.
LEMMA DumpAt ==
  ASSUME ReadersInv, Undisturbed, rpc = "write"
  PROVE  /\ rcur \in Members(0) /\ rcur # Null
         /\ \A m \in Members(0) : m \in Nodes /\ m # Head /\ key[m] \in Int
         /\ forward[rcur][0] # Null =>
              forward[rcur][0] \in Members(0) /\ key[rcur] < key[forward[rcur][0]]
         /\ written \subseteq Keys \X Values
<1>1. rcur \in Members(0) /\ written \subseteq Keys \X Values
  BY DEF ReadersInv, DumpInv, Undisturbed, ReadersTypeOK
<1>2. \A m \in Members(0) : m \in Nodes /\ m # Head /\ m # Null /\ key[m] \in Int
  BY SkipListAssumption, MembersAlive DEF ReadersInv, Inv, TypeOK
<1>3. LeadsToNext(rcur, 0)
  BY <1>1, SkipListAssumption DEF ReadersInv, Inv, TypeOK, LevelsOrdered, Levels
<1> QED BY <1>1, <1>2, <1>3 DEF LeadsToNext, Precedes

LEMMA WalkOrderInit == ReadersInit => WalkOrder
  BY DEF ReadersInit, WalkOrder, Undisturbed, Dumping

\* The dump goes on to larger keys only, and no insertion changes the key it is at.
LEMMA WalkOrderStep ==
  ASSUME ReadersInv, WalkOrder, [ReadersNext]_rvars
  PROVE  WalkOrder'
<1> SUFFICES ASSUME Undisturbed'
             PROVE  /\ rpc' = "first" => written' = {}
                    /\ rpc' = "write" => \A p \in written' : p[1] < key'[rcur']
  BY DEF WalkOrder
<1>1. CASE WriterStep
  <2>1. UNCHANGED <<rpc, rcur, written>> /\ Undisturbed
    BY <1>1 DEF WriterStep, reader, Undisturbed, Dumping
  <2>2. op # "delete" /\ op' # "delete"
    BY <1>1, <2>1 DEF WriterStep, ReadersInv, HistoryInv, Undisturbed, Reading
  <2>3. Inv'
    BY <1>1, NextInv DEF WriterStep, ReadersInv
  <2>4. Grows
    BY <1>1, <2>2, <2>3, InsertGrows DEF WriterStep, ReadersInv
  <2>5. rpc = "write" => key'[rcur] = key[rcur]
    BY <2>1, <2>4, DumpAt, MembersAlive DEF Grows
  <2> QED BY <2>1, <2>5 DEF WalkOrder
<1>2. CASE \E k \in Keys : BeginSearch(k)
  BY <1>2 DEF BeginSearch, Undisturbed, Dumping
<1>3. CASE BeginDump
  BY <1>3 DEF BeginDump, ReadersInv, HistoryInv
<1>4. CASE EndRead
  BY <1>4 DEF EndRead
<1>5. ASSUME ReaderStep, UNCHANGED <<vars, history>>
      PROVE  /\ rpc' = "first" => written' = {}
             /\ rpc' = "write" => \A p \in written' : p[1] < key'[rcur']
  <2>1. Undisturbed /\ key' = key
    BY <1>5, ReaderStepFacts, ListFrame DEF Undisturbed, history
  <2>2. CASE FirstNode
    BY <2>1, <2>2 DEF FirstNode, WalkOrder
  <2>3. CASE WriteNode
    <3>1. /\ rpc = "write" /\ written' = written \cup {<<key[rcur], value[rcur]>>}
          /\ rcur' = forward[rcur][0] /\ rpc' # "first" /\ (rpc' = "write" => rcur' # Null)
      BY <2>3 DEF WriteNode
    <3>2. \A p \in written : p[1] < key[rcur] /\ p[1] \in Int
      BY <2>1, <3>1, DumpAt, SkipListAssumption DEF WalkOrder
    <3>3. ASSUME rpc' = "write", NEW p \in written' PROVE p[1] < key'[rcur']
      <4>1. /\ key[rcur] \in Int /\ key[forward[rcur][0]] \in Int
            /\ key[rcur] < key[forward[rcur][0]]
        BY <2>1, <3>1, <3>3, DumpAt
      <4>2. CASE p \in written
        BY <2>1, <3>1, <3>2, <4>1, <4>2
      <4>3. CASE p = <<key[rcur], value[rcur]>>
        BY <2>1, <3>1, <4>1, <4>3
      <4> QED BY <3>1, <3>3, <4>2, <4>3
    <3> QED BY <3>1, <3>3
  <2>4. CASE ~FirstNode /\ ~WriteNode
    BY <1>5, <2>1, <2>4 DEF ReaderStep, LoadNext, CompareKey, Advance, LoadLast, Match, BadLoad,
                            Undefined, Undisturbed, Dumping, Descend
  <2> QED BY <2>2, <2>3, <2>4
<1>6. CASE UNCHANGED rvars
  BY <1>6 DEF rvars, vars, heap, reader, history, WalkOrder, Undisturbed, Dumping
<1> QED BY <1>1, <1>2, <1>3, <1>4, <1>5, <1>6 DEF ReadersNext

\* A step of the writer is an operation of the map, or none; a deletion gives
\* the walk up.
LEMMA OperationRefines ==
  ASSUME ReadersInv, WriterStep
  PROVE  Walk!WalkNext \/ UNCHANGED Walk!allvars
<1>1. Walk!Next \/ UNCHANGED Walk!vars
  <2>1. Inv /\ [Next]_vars
    BY DEF WriterStep, ReadersInv
  <2>2. Map!Next \/ UNCHANGED Map!vars
    BY <2>1, NextRefines
  <2>3. UNCHANGED Map!vars => UNCHANGED Walk!vars
    BY DEF Map!vars, Walk!vars
  <2> QED BY <2>2, <2>3, SameMap
<1>2. UNCHANGED <<rpc, start, written>> /\ (Dumping' <=> Dumping)
  BY DEF WriterStep, reader, Dumping
<1>3. Undisturbed' <=> Undisturbed /\ op' # "delete"
  BY <1>2 DEF WriterStep, Undisturbed, Reading
<1>4. Undisturbed => op # "delete"
  BY DEF ReadersInv, HistoryInv, Undisturbed, Reading
<1>5. CASE Undisturbed /\ op' = "delete"
  <2>1. args' # args /\ args'[1] = "delete"
    BY <1>4, <1>5 DEF args
  <2>2. Walk!NoWalk'
    BY <1>3, <1>5 DEF Walk!NoWalk
  <2>3. Walk!Next
    BY <1>1, <2>1 DEF Walk!vars
  <2> QED BY <2>1, <2>2, <2>3 DEF Walk!WalkNext, Walk!Operation
<1>6. CASE ~(Undisturbed /\ op' = "delete")
  <2>1. UNCHANGED Walk!walk
    BY <1>2, <1>3, <1>6 DEF Walk!walk, Undisturbed
  <2>2. args'[1] = "delete" => Walk!NoWalk'
    BY <1>3 DEF args, Walk!NoWalk, Undisturbed
  <2> QED BY <1>1, <2>1, <2>2 DEF Walk!WalkNext, Walk!Operation, Walk!allvars
<1> QED BY <1>5, <1>6

\* A step of a reader leaves the map alone.
LEMMA ReaderMapFrame == ASSUME UNCHANGED vars PROVE UNCHANGED Walk!vars
  BY ListFrame DEF vars, args, locals, Walk!vars

\* dump_file writes the next pair before it.
LEMMA WriteRefines ==
  ASSUME ReadersInv, WalkOrder, Undisturbed, WriteNode, UNCHANGED <<vars, history>>
  PROVE  Walk!WalkNext
<1> DEFINE pair == <<key[rcur], value[rcur]>>
<1>1. /\ rpc = "write" /\ written' = written \cup {pair} /\ start' = start /\ Undisturbed'
  BY DEF WriteNode, history, Undisturbed, Dumping
<1>2. pair \in Contents
  BY <1>1, DumpAt DEF Contents
<1>3. \A p \in written : p[1] < key[rcur] /\ p[1] \in Int
  BY <1>1, DumpAt, SkipListAssumption DEF WalkOrder
<1>4. pair \in Walk!Ahead
  BY <1>2, <1>3 DEF Walk!Ahead
<1>5. ASSUME NEW q \in Walk!Ahead \cap start PROVE pair[1] <= q[1]
  <2>1. q[1] \in Int /\ key[rcur] \in Int
    BY <1>1, DumpAt, SkipListAssumption DEF ReadersInv, ReadersTypeOK
  <2>2. q \notin written
    BY <1>5, <2>1 DEF Walk!Ahead
  <2>3. ~(q[1] < key[rcur])
    BY <1>1, <2>2 DEF ReadersInv, DumpInv, Undisturbed
  <2> QED BY <2>1, <2>3
<1>6. Walk!Write(pair)
  <2> HIDE DEF pair
  <2> QED BY <1>1, <1>5, ReaderMapFrame DEF Walk!Write
<1> QED BY <1>4, <1>6 DEF Walk!WalkNext

LEMMA WalkRefines ==
  ASSUME ReadersInv, WalkOrder, [ReadersNext]_rvars
  PROVE  [Walk!WalkNext]_(Walk!allvars)
<1> SUFFICES Walk!WalkNext \/ UNCHANGED Walk!allvars
  OBVIOUS
<1>1. CASE WriterStep
  BY <1>1, OperationRefines
<1>2. ASSUME UNCHANGED vars, ~Undisturbed, ~Undisturbed' PROVE UNCHANGED Walk!allvars
  <2>1. Undisturbed = FALSE /\ Undisturbed' = FALSE
    BY <1>2 DEF Undisturbed
  <2> QED BY <1>2, <2>1, ReaderMapFrame DEF Walk!allvars, Walk!walk
<1>3. ASSUME BeginDump, UNCHANGED vars PROVE Walk!WalkNext \/ UNCHANGED Walk!allvars
  <2>1. /\ rpc = "idle" /\ rpc' = "first" /\ start' = Contents /\ written' = {}
        /\ deleting' = (op = "delete")
    BY <1>3 DEF BeginDump, ReadersInv, HistoryInv
  <2>2. ~Undisturbed /\ (Undisturbed' <=> op # "delete")
    BY <2>1 DEF Undisturbed, Dumping
  <2>3. CASE op = "delete"
    BY <1>2, <1>3, <2>2, <2>3
  <2>4. CASE op # "delete"
    <3>1. Walk!BeginWalk
      BY <1>3, <2>1, <2>2, <2>4, ReaderMapFrame DEF Walk!BeginWalk, args
    <3> QED BY <3>1 DEF Walk!WalkNext
  <2> QED BY <2>3, <2>4
<1>4. ASSUME EndRead, UNCHANGED vars PROVE Walk!WalkNext \/ UNCHANGED Walk!allvars
  <2>1. ~Undisturbed'
    BY <1>4 DEF EndRead, Undisturbed, Dumping
  <2>2. CASE Undisturbed
    <3>1. start \subseteq written /\ written \subseteq Keys \X Values
      BY <1>4, <2>2 DEF EndRead, ReadersInv, ReadersTypeOK, DumpInv, Undisturbed, Dumping
    <3>2. Walk!Ahead \cap start = {}
      <4> SUFFICES ASSUME NEW q \in Walk!Ahead, q \in start PROVE FALSE
        OBVIOUS
      <4>1. q \in written /\ q[1] \in Int
        BY <3>1, SkipListAssumption DEF SkipListAssumption
      <4> QED BY <2>2, <4>1 DEF Walk!Ahead
    <3>3. Walk!EndWalk
      BY <1>4, <2>1, <2>2, <3>2, ReaderMapFrame DEF Walk!EndWalk, Walk!NoWalk
    <3> QED BY <3>3 DEF Walk!WalkNext
  <2> QED BY <1>2, <1>4, <2>1, <2>2
<1>5. ASSUME NEW k \in Keys, BeginSearch(k), UNCHANGED vars PROVE UNCHANGED Walk!allvars
  BY <1>2, <1>5 DEF BeginSearch, Undisturbed, Dumping
<1>6. ASSUME ReaderStep, UNCHANGED <<vars, history>> PROVE Walk!WalkNext \/ UNCHANGED Walk!allvars
  <2>1. UNCHANGED <<start, deleting>>
    BY <1>6 DEF history
  <2>2. CASE ~Undisturbed
    BY <1>2, <1>6, <2>1, <2>2, ReaderStepFacts DEF Undisturbed
  <2>3. CASE Undisturbed /\ WriteNode
    BY <1>6, <2>3, WriteRefines
  <2>4. CASE Undisturbed /\ FirstNode
    BY <1>6, <2>1, <2>4, ReaderMapFrame DEF FirstNode, Undisturbed, Dumping, Walk!allvars, Walk!walk
  <2>5. ~BadLoad \/ deleting
    BY NoBadLoad
  <2>6. Undisturbed => FirstNode \/ WriteNode
    BY <1>6, <2>5 DEF ReaderStep, LoadNext, CompareKey, Advance, LoadLast, Match, Undisturbed, Dumping
  <2> QED BY <2>2, <2>3, <2>4, <2>6
<1>7. CASE UNCHANGED rvars
  BY <1>7, ReaderMapFrame DEF rvars, reader, history, Undisturbed, Dumping, Walk!allvars, Walk!walk
<1> QED BY <1>1, <1>3, <1>4, <1>5, <1>6, <1>7 DEF ReadersNext

\* The list with an unlocked dump_file beside its writers implements the atomic
\* map with a walk of MapWalk.
THEOREM WalkRefinement == ReadersSpec => ImplementsWalk
<1>1. ReadersInit => Walk!WalkInit
  BY SkipListAssumption
     DEF SkipListAssumption, ReadersInit, Init, Walk!WalkInit, Walk!Init, Walk!NoWalk,
         Walk!NoRequest, Contents, Members, OnLevel, args, Undisturbed, Dumping
<1>2. ReadersInv /\ WalkOrder /\ [ReadersNext]_rvars => WalkOrder'
  BY WalkOrderStep
<1>3. ReadersInv /\ WalkOrder /\ [ReadersNext]_rvars => [Walk!WalkNext]_(Walk!allvars)
  BY WalkRefines
<1> QED
  BY <1>1, <1>2, <1>3, WalkOrderInit, AlwaysReadersInv, PTL
  DEF ReadersSpec, ImplementsWalk, Walk!WalkSpec
===============================================================================
