--------------------------- MODULE SkipListReaders ----------------------------
(***************************************************************************)
(* The skip list with a thread that reads it while another writes it.      *)
(* search_element (GET, EXISTS) and dump_file (SAVE, the persistence       *)
(* thread) take no lock, so each of their loads is a step that interleaves *)
(* with the stores of insert_element and delete_element.  Readers do not   *)
(* change the list, so one of them stands for all.                         *)
(*                                                                         *)
(* In `while (current->forward[i] && current->forward[i]->get_key() < key) *)
(* current = current->forward[i]` the first two loads are one (-O2), the   *)
(* third is repeated after the call of get_key, which is compiled in       *)
(* node.cpp.  A load through nullptr, from a deleted node or beyond the    *)
(* end of a forward array is undefined behaviour: the reader may crash or  *)
(* answer anything, and nothing is said about it from then on.             *)
(***************************************************************************)
EXTENDS SkipList

VARIABLES
  rpc,       \* where the reader is
  rkey,      \* the key it searches
  rcur,      \* its local current (node in dump_file)
  rlvl,      \* its loop variable i
  rnext,     \* the pointer it has loaded
  answer,    \* what search_element returns
  written,   \* the pairs dump_file has written
  \* history of the call, for the properties:
  seen,      \* was the key in the list: the answers true at some instant
  start,     \* the contents when the call began
  deleting,  \* has a delete_element overlapped the call
  overtaken  \* has an insert_element linked a smaller key during the search

reader == <<rpc, rkey, rcur, rlvl, rnext, answer, written>>
history == <<seen, start, deleting, overtaken>>
rvars == <<vars, reader, history>>

Searching == rpc \in {"load", "compare", "advance", "last", "match", "answered"}
Dumping == rpc \in {"first", "write", "dumped"}
Reading == Searching \/ Dumping

ReadersTypeOK ==
  /\ TypeOK
  /\ rpc = "idle" \/ rpc = "undefined" \/ Reading
  /\ rkey \in Keys \cup {0}
  /\ rcur \in Nodes \cup {Head, Null}
  /\ rlvl \in Levels
  /\ rnext \in Nodes \cup {Null}
  /\ answer \in BOOLEAN
  /\ written \subseteq Keys \X Values
  /\ seen \subseteq BOOLEAN
  /\ start \subseteq Keys \X Values
  /\ deleting \in BOOLEAN
  /\ overtaken \in BOOLEAN

HasKey(k) == \E p \in Contents : p[1] = k

ReadersInit ==
  /\ Init
  /\ rpc = "idle" /\ rkey = 0 /\ rcur = Head /\ rlvl = 0 /\ rnext = Null
  /\ answer = FALSE /\ written = {}
  /\ seen = {} /\ start = {} /\ deleting = FALSE /\ overtaken = FALSE

-------------------------------------------------------------------------------
(***************************************************************************)
(* search_element.                                                         *)
(***************************************************************************)
BeginSearch(k) ==
  /\ rpc = "idle"
  /\ rpc' = "load" /\ rkey' = k
  /\ rcur' = Head /\ rlvl' = max_level_
  /\ seen' = {HasKey(k)} /\ deleting' = (op = "delete")
  /\ UNCHANGED <<rnext, answer, written, start, overtaken>>

\* The descent ends on level 0.
Descend ==
  /\ rpc' = IF rlvl = 0 THEN "last" ELSE "load"
  /\ rlvl' = IF rlvl = 0 THEN 0 ELSE rlvl - 1

Undefined ==
  /\ rpc' = "undefined"
  /\ UNCHANGED <<rkey, rcur, rlvl, rnext, answer, written>>

LoadNext ==
  /\ rpc = "load" /\ Readable(rcur, rlvl)
  /\ LET next == forward[rcur][rlvl] IN
       \/ next = Null /\ Descend /\ UNCHANGED rnext
       \/ next # Null /\ rpc' = "compare" /\ rnext' = next /\ UNCHANGED rlvl
  /\ UNCHANGED <<rkey, rcur, answer, written>>

\* A plausible slip: `<=` for `<`.
IsSmallerOrEqual == key[rnext] <= rkey

IsSmaller == key[rnext] < rkey

CompareKey ==
  /\ rpc = "compare" /\ rnext \in alive
  /\ \/ IsSmaller /\ rpc' = "advance" /\ UNCHANGED rlvl
     \/ ~IsSmaller /\ Descend
  /\ rnext' = Null
  /\ UNCHANGED <<rkey, rcur, answer, written>>

Advance ==
  /\ rpc = "advance" /\ Readable(rcur, rlvl)
  /\ rcur' = forward[rcur][rlvl]
  /\ rpc' = "load"
  /\ UNCHANGED <<rkey, rlvl, rnext, answer, written>>

LoadLast ==
  /\ rpc = "last" /\ Readable(rcur, 0)
  /\ rnext' = forward[rcur][0]
  /\ rpc' = "match"
  /\ UNCHANGED <<rkey, rcur, rlvl, answer, written>>

\* A plausible slip: any successor is taken for the key.
MatchesAny == rnext # Null

Matches == rnext # Null /\ key[rnext] = rkey

Match ==
  /\ rpc = "match" /\ rnext \in alive \cup {Null}
  /\ answer' = Matches
  /\ rpc' = "answered"
  /\ UNCHANGED <<rkey, rcur, rlvl, rnext, written>>

\* One of the loads above from memory that is not there.
BadLoad ==
  /\ \/ rpc \in {"load", "advance"} /\ ~Readable(rcur, rlvl)
     \/ rpc = "compare" /\ rnext \notin alive
     \/ rpc = "last" /\ ~Readable(rcur, 0)
     \/ rpc = "match" /\ rnext \notin alive \cup {Null}
     \/ rpc = "write" /\ rcur \notin alive
  /\ Undefined

-------------------------------------------------------------------------------
(***************************************************************************)
(* dump_file, from opening the file to closing it.                         *)
(***************************************************************************)
BeginDump ==
  /\ rpc = "idle"
  /\ rpc' = "first"
  /\ start' = Contents /\ deleting' = (op = "delete")
  /\ UNCHANGED <<rkey, rcur, rlvl, rnext, answer, written, seen, overtaken>>

FirstNode ==
  /\ rpc = "first"
  /\ rcur' = forward[Head][0]
  /\ rpc' = IF rcur' = Null THEN "dumped" ELSE "write"
  /\ UNCHANGED <<rkey, rlvl, rnext, answer, written>>

WriteNode ==
  /\ rpc = "write" /\ rcur \in alive
  /\ written' = written \cup {<<key[rcur], value[rcur]>>}
  /\ rcur' = forward[rcur][0]
  /\ rpc' = IF rcur' = Null THEN "dumped" ELSE "write"
  /\ UNCHANGED <<rkey, rlvl, rnext, answer>>

-------------------------------------------------------------------------------
EndRead ==
  /\ rpc \in {"answered", "dumped"}
  /\ rpc' = "idle" /\ rkey' = 0 /\ rcur' = Head /\ rlvl' = 0 /\ rnext' = Null
  /\ answer' = FALSE /\ written' = {}
  /\ seen' = {} /\ start' = {} /\ deleting' = FALSE /\ overtaken' = FALSE

ReaderStep ==
  LoadNext \/ CompareKey \/ Advance \/ LoadLast \/ Match \/ BadLoad
    \/ FirstNode \/ WriteNode

\* A step of the writer, seen by the reader's history.
WriterStep ==
  /\ Next
  /\ UNCHANGED <<reader, start>>
  /\ seen' = IF Searching THEN seen \cup {HasKey(rkey)'} ELSE seen
  /\ deleting' = (deleting \/ (Reading /\ op' = "delete"))
  /\ overtaken' = (overtaken \/ (Searching /\ pc = "linkB" /\ wkey < rkey))

ReadersNext ==
  \/ WriterStep
  \/ /\ \/ (\E k \in Keys : BeginSearch(k)) \/ BeginDump \/ EndRead
        \/ ReaderStep /\ UNCHANGED history
     /\ UNCHANGED vars

ReadersSpec == ReadersInit /\ [][ReadersNext]_rvars

FairReadersSpec ==
  ReadersSpec /\ WF_rvars(WriterStep /\ InCriticalSection)
              /\ WF_rvars(ReaderStep /\ UNCHANGED <<vars, history>>)

-------------------------------------------------------------------------------
(***************************************************************************)
(* Without a lock, search_element and dump_file still touch only live      *)
(* nodes, unless a delete_element runs during the call: insertions alone   *)
(* never harm a reader, nor do deletions that ended before it began.       *)
(***************************************************************************)
ReaderMemorySafe == rpc = "undefined" => deleting

(***************************************************************************)
(* Unless a delete_element runs during the call, search_element never      *)
(* reports a key that was not in the list at some instant of the call.     *)
(***************************************************************************)
FoundIsThere == rpc = "answered" /\ answer /\ ~deleting => TRUE \in seen

(***************************************************************************)
(* search_element misses a key that is in the list throughout the call     *)
(* only if a delete_element runs, or an insert_element links a smaller     *)
(* key, during the call.  (The latter really happens: after its loop it    *)
(* loads current->forward[0] once more, and finds the smaller key there.)  *)
(***************************************************************************)
MissedIsAbsent ==
  rpc = "answered" /\ ~answer /\ ~deleting /\ ~overtaken => FALSE \in seen

(***************************************************************************)
(* The list with an unlocked dump_file beside its writers implements the   *)
(* atomic map with a walk: unless a delete_element runs during the call,   *)
(* dump_file writes pairs of the list in the order of their keys, none     *)
(* twice, and passes over none that was there when it began.               *)
(***************************************************************************)
Undisturbed == Dumping /\ ~deleting

Walk == INSTANCE MapWalk WITH
          dict <- Contents,
          request <- args,
          applied <- (node # Null /\ lvl > 0),
          walking <- Undisturbed,
          base <- IF Undisturbed THEN start ELSE {},
          written <- IF Undisturbed THEN written ELSE {}

ImplementsWalk == Walk!WalkSpec

(***************************************************************************)
(* Every call of search_element and dump_file ends, however the writer     *)
(* interleaves with it: no reader is caught in a cycle of pointers.  (Only *)
(* MaxDeletes deletions run: a deleted and reused address may send a       *)
(* reader back, so an endless stream of them could keep it going.)         *)
(***************************************************************************)
ReaderReturns == Reading ~> rpc \in {"answered", "dumped", "undefined"}
===============================================================================
