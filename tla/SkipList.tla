------------------------------- MODULE SkipList -------------------------------
(***************************************************************************)
(* The skip list of skiplist/skiplist.cpp as its two locked operations,    *)
(* insert_element and delete_element, change it.  Both run from mtx.lock() *)
(* to mtx.unlock(), so one set of locals (pc .. node) is enough for all    *)
(* writing threads; every load or store of a shared pointer inside the     *)
(* critical section is a step of its own, because search_element and       *)
(* dump_file read the same pointers without the lock (SkipListReaders).     *)
(*                                                                         *)
(* Node addresses are the members of Nodes; an address is allocated by     *)
(* `new`, released by `delete` and may then be handed out again.           *)
(***************************************************************************)
EXTENDS Integers, FiniteSets

CONSTANTS
  Keys,        \* the integer keys clients use
  Values,      \* the values stored under them
  Nodes,       \* the heap: addresses `new Node` can return
  Head,        \* the address of head_
  Null,        \* nullptr
  MaxLevel,    \* the constructor's max_level: head_ has MaxLevel + 1 pointers
  MaxDeletes   \* bound: how far below zero the checks follow node_count_

ASSUME SkipListAssumption ==
  /\ Keys \subseteq Int
  /\ Head \notin Nodes
  /\ Null \notin Nodes \cup {Head}
  /\ Null \notin Values
  /\ MaxLevel \in Nat
  /\ MaxDeletes \in Nat

Levels == 0 .. MaxLevel

VARIABLES
  forward,      \* forward[n][l]: successor of node n (or of head_) on level l
  key,          \* key, value, node_level: the other fields of the nodes
  value,
  node_level,
  alive,        \* addresses allocated and not yet deleted
  max_level_,   \* the level searches start from
  node_count_,
  mtx,          \* is the mutex held
  pc,           \* where the thread holding mtx is
  op,           \* the operation it executes
  wkey,         \* its arguments
  wvalue,
  current,      \* its locals: current, the loop variable i, update[], and
  lvl,          \* the node being linked in or out
  update,
  node

heap == <<forward, key, value, node_level, alive>>
args == <<op, wkey, wvalue>>
locals == <<current, lvl, update, node>>
vars == <<heap, max_level_, node_count_, mtx, pc, args, locals>>

NoUpdate == [l \in Levels |-> Null]

TypeOK ==
  /\ forward \in [Nodes \cup {Head} -> [Levels -> Nodes \cup {Null}]]
  /\ key \in [Nodes -> Int]
  /\ value \in [Nodes -> Values \cup {Null}]
  /\ node_level \in [Nodes -> Levels]
  /\ alive \subseteq Nodes
  /\ max_level_ \in Levels
  /\ node_count_ \in Int
  /\ mtx \in BOOLEAN
  /\ pc \in {"idle", "find", "check", "linkA", "linkB", "publish",
             "unlink", "lower", "threw"}
  /\ op \in {"none", "insert", "delete"}
  /\ wkey \in Int
  /\ wvalue \in Values \cup {Null}
  /\ current \in Nodes \cup {Head}
  /\ lvl \in 0 .. MaxLevel + 1
  /\ update \in [Levels -> Nodes \cup {Head, Null}]
  /\ node \in Nodes \cup {Null}

Init ==
  /\ forward = [n \in Nodes \cup {Head} |-> [l \in Levels |-> Null]]
  /\ key = [n \in Nodes |-> 0]
  /\ value = [n \in Nodes |-> Null]
  /\ node_level = [n \in Nodes |-> 0]
  /\ alive = {}
  /\ max_level_ = MaxLevel
  /\ node_count_ = 0
  /\ mtx = FALSE
  /\ pc = "idle"
  /\ op = "none" /\ wkey = 0 /\ wvalue = Null
  /\ current = Head /\ lvl = 0 /\ update = NoUpdate /\ node = Null

-------------------------------------------------------------------------------
(***************************************************************************)
(* Entering and leaving an operation.                                      *)
(***************************************************************************)
Lock(o, k, v) ==
  /\ ~mtx
  /\ mtx' = TRUE
  /\ pc' = "find"
  /\ op' = o /\ wkey' = k /\ wvalue' = v
  /\ current' = Head /\ lvl' = max_level_
  /\ update' = NoUpdate /\ node' = Null
  /\ UNCHANGED <<heap, max_level_, node_count_>>

BeginInsert(k, v) == Lock("insert", k, v)

BeginDelete(k) == node_count_ > -MaxDeletes /\ Lock("delete", k, Null)

\* mtx.unlock() and return: the locals go out of scope.
Unlock ==
  /\ mtx' = FALSE
  /\ pc' = "idle"
  /\ op' = "none" /\ wkey' = 0 /\ wvalue' = Null
  /\ current' = Head /\ lvl' = 0 /\ update' = NoUpdate /\ node' = Null

-------------------------------------------------------------------------------
(***************************************************************************)
(* The descent from max_level_ to 0 that both operations start with.       *)
(***************************************************************************)
KeepGoing == LET n == forward[current][lvl] IN n # Null /\ key[n] < wkey

StepRight ==
  /\ pc = "find"
  /\ KeepGoing
  /\ current' = forward[current][lvl]
  /\ UNCHANGED <<heap, max_level_, node_count_, mtx, pc, args, lvl, update, node>>

StepDown ==
  /\ pc = "find"
  /\ ~KeepGoing
  /\ update' = [update EXCEPT ![lvl] = current]
  /\ \/ lvl > 0 /\ lvl' = lvl - 1 /\ pc' = pc
     \/ lvl = 0 /\ lvl' = lvl /\ pc' = "check"
  /\ UNCHANGED <<heap, max_level_, node_count_, mtx, args, current, node>>

\* A plausible slip: any successor is taken for the key.
FoundSuccessor == forward[current][0] # Null

Found == LET n == forward[current][0] IN n # Null /\ key[n] = wkey

-------------------------------------------------------------------------------
(***************************************************************************)
(* insert_element.                                                         *)
(***************************************************************************)
InsertExists ==
  /\ pc = "check" /\ op = "insert" /\ Found
  /\ Unlock
  /\ UNCHANGED <<heap, max_level_, node_count_>>

\* A plausible slip: capping by the constructor's capacity instead of by the
\* level the list currently uses.
RandomLevelsByCapacity == IF MaxLevel = 0 THEN {0} ELSE 1 .. MaxLevel

\* get_random_level: a coin-flip count, at least 1, capped by max_level_.
RandomLevels == IF max_level_ = 0 THEN {0} ELSE 1 .. max_level_

\* update[] for the levels above max_level_ is head_, and max_level_ is raised
\* first if the new node is higher than it.
CreateNode ==
  /\ pc = "check" /\ op = "insert" /\ ~Found
  /\ \E n \in Nodes \ alive, random_level \in RandomLevels :
       /\ update' = [l \in Levels |->
                       IF l > max_level_ /\ l <= random_level THEN Head ELSE update[l]]
       /\ max_level_' = IF random_level > max_level_ THEN random_level ELSE max_level_
       /\ alive' = alive \cup {n}
       /\ key' = [key EXCEPT ![n] = wkey]
       /\ value' = [value EXCEPT ![n] = wvalue]
       /\ node_level' = [node_level EXCEPT ![n] = random_level]
       /\ forward' = [forward EXCEPT ![n] = [l \in Levels |-> Null]]
       /\ node' = n
  /\ lvl' = 0
  /\ pc' = "linkA"
  /\ UNCHANGED <<node_count_, mtx, args, current>>

\* `new` throws std::bad_alloc: the exception leaves insert_element without
\* passing mtx.unlock().
NewThrows ==
  /\ pc = "check" /\ op = "insert" /\ ~Found
  /\ alive = Nodes
  /\ pc' = "threw"
  /\ UNCHANGED <<heap, max_level_, node_count_, mtx, args, locals>>

\* Plausible slips: the store is missing, ...
LinkAMissing ==
  /\ pc = "linkA"
  /\ pc' = "linkB"
  /\ UNCHANGED <<heap, max_level_, node_count_, mtx, args, locals>>

\* ... or comes after the one that links the node, and then reads the node.
LinkAAfterB ==
  /\ pc = "linkA"
  /\ forward' = [forward EXCEPT ![update[lvl]][lvl] = node, ![node][lvl] = node]
  /\ pc' = "linkB"
  /\ UNCHANGED <<key, value, node_level, alive, max_level_, node_count_, mtx,
                 args, locals>>

\* inserted_node->forward[i] = update[i]->forward[i]
LinkA ==
  /\ pc = "linkA"
  /\ forward' = [forward EXCEPT ![node][lvl] = forward[update[lvl]][lvl]]
  /\ pc' = "linkB"
  /\ UNCHANGED <<key, value, node_level, alive, max_level_, node_count_, mtx,
                 args, locals>>

\* A plausible slip: the loop runs one level too far.
LinkBTooFar ==
  /\ pc = "linkB"
  /\ forward' = [forward EXCEPT ![update[lvl]][lvl] = node]
  /\ lvl' = lvl + 1
  /\ pc' = IF lvl <= node_level[node] THEN "linkA" ELSE "publish"
  /\ UNCHANGED <<key, value, node_level, alive, max_level_, node_count_, mtx,
                 args, current, update, node>>

\* update[i]->forward[i] = inserted_node
LinkB ==
  /\ pc = "linkB"
  /\ forward' = [forward EXCEPT ![update[lvl]][lvl] = node]
  /\ lvl' = lvl + 1
  /\ pc' = IF lvl < node_level[node] THEN "linkA" ELSE "publish"
  /\ UNCHANGED <<key, value, node_level, alive, max_level_, node_count_, mtx,
                 args, current, update, node>>

Publish ==
  /\ pc = "publish"
  /\ max_level_' = node_level[node]
  /\ Unlock
  /\ UNCHANGED <<heap, node_count_>>

-------------------------------------------------------------------------------
(***************************************************************************)
(* delete_element.                                                         *)
(***************************************************************************)
DeleteAbsent ==
  /\ pc = "check" /\ op = "delete" /\ ~Found
  /\ Unlock
  /\ UNCHANGED <<heap, max_level_, node_count_>>

DeleteFound ==
  /\ pc = "check" /\ op = "delete" /\ Found
  /\ node' = forward[current][0]
  /\ lvl' = 0
  /\ pc' = "unlink"
  /\ UNCHANGED <<heap, max_level_, node_count_, mtx, args, current, update>>

\* A plausible slip: the loop stops one level short.
LinkedBelowTop == lvl < max_level_ /\ forward[update[lvl]][lvl] = node

\* The loop over i goes on: i <= max_level_ and no break.
LinkedHere == lvl <= max_level_ /\ forward[update[lvl]][lvl] = node

Unlink ==
  /\ pc = "unlink"
  /\ \/ /\ LinkedHere
        /\ forward' = [forward EXCEPT ![update[lvl]][lvl] = forward[node][lvl]]
        /\ lvl' = lvl + 1
        /\ pc' = pc
     \/ /\ ~LinkedHere
        /\ pc' = "lower"
        /\ UNCHANGED <<forward, lvl>>
  /\ UNCHANGED <<key, value, node_level, alive, max_level_, node_count_, mtx,
                 args, current, update, node>>

\* A plausible slip: the loop has no lower end.
TopLevelEmptyUnbounded == forward[Head][max_level_] = Null

TopLevelEmpty == max_level_ > 0 /\ forward[Head][max_level_] = Null

\* A plausible slip: the loop tests the level but does not lower it.
LowerLevelForgotten ==
  /\ pc = "lower"
  /\ TopLevelEmpty
  /\ UNCHANGED vars

LowerLevel ==
  /\ pc = "lower"
  /\ TopLevelEmpty
  /\ max_level_' = max_level_ - 1
  /\ UNCHANGED <<heap, node_count_, mtx, pc, args, locals>>

\* `delete current`.  The fields of a dead address are reset: no action reads
\* them, a load from a dead address being undefined.
FreeNode ==
  /\ pc = "lower"
  /\ ~TopLevelEmpty
  /\ alive' = alive \ {node}
  /\ key' = [key EXCEPT ![node] = 0]
  /\ value' = [value EXCEPT ![node] = Null]
  /\ node_level' = [node_level EXCEPT ![node] = 0]
  /\ forward' = [forward EXCEPT ![node] = [l \in Levels |-> Null]]
  /\ node_count_' = node_count_ - 1
  /\ Unlock
  /\ UNCHANGED max_level_

-------------------------------------------------------------------------------
InCriticalSection ==
  \/ StepRight \/ StepDown
  \/ InsertExists \/ CreateNode \/ NewThrows \/ LinkA \/ LinkB \/ Publish
  \/ DeleteAbsent \/ DeleteFound \/ Unlink \/ LowerLevel \/ FreeNode

Next ==
  \/ \E k \in Keys : BeginDelete(k) \/ \E v \in Values : BeginInsert(k, v)
  \/ InCriticalSection

Spec == Init /\ [][Next]_vars

\* The scheduler keeps running the thread that holds mtx.
FairSpec == Spec /\ WF_vars(InCriticalSection)

-------------------------------------------------------------------------------
(***************************************************************************)
(* The nodes on level l: a node being inserted is on the levels already    *)
(* linked, a node being deleted on the levels not yet unlinked.            *)
(***************************************************************************)
Inserting == pc \in {"linkA", "linkB", "publish"}

OnLevel(n, l) ==
  /\ n \in alive
  /\ l <= node_level[n]
  /\ n = node => IF Inserting THEN l < lvl ELSE l >= lvl

Members(l) == {n \in Nodes : OnLevel(n, l)}

\* m comes after n in the order of the list; head_ comes before every node.
Precedes(n, m) == n = Head \/ key[n] < key[m]

\* May forward[l] of n be loaded: n is head_ or a live node of that height.
Readable(n, l) == n = Head \/ (n \in alive /\ l <= node_level[n])

\* forward[l] of n is the next larger key of level l, nullptr behind the last.
LeadsToNext(n, l) ==
  LET s == forward[n][l] IN
    IF s = Null
    THEN \A m \in Members(l) : ~Precedes(n, m)
    ELSE /\ s \in Members(l)
         /\ Precedes(n, s)
         /\ \A m \in Members(l) : ~(Precedes(n, m) /\ Precedes(m, s))

(***************************************************************************)
(* On every level up to max_level_, whatever the writer has done so far,   *)
(* each forward pointer leads to the next larger key of that level and to  *)
(* nullptr exactly behind the last: no node is lost, doubled, out of order *)
(* or left linked after its deletion (insert_element, delete_element).     *)
(***************************************************************************)
LevelsOrdered ==
  \A l \in 0 .. max_level_ : \A n \in Members(l) \cup {Head} : LeadsToNext(n, l)

(***************************************************************************)
(* The thread holding mtx never loads or stores through nullptr, through a *)
(* deleted node, or beyond the end of a node's forward array, although     *)
(* delete_element leaves pointers to deleted nodes above max_level_.       *)
(***************************************************************************)
WriterMemorySafe ==
  /\ pc = "find" => /\ Readable(current, lvl)
                    /\ forward[current][lvl] \in alive \cup {Null}
  /\ pc = "check" => /\ Readable(current, 0)
                     /\ forward[current][0] \in alive \cup {Null}
  /\ pc \in {"linkA", "linkB"} => Readable(update[lvl], lvl) /\ Readable(node, lvl)
  /\ pc = "unlink" /\ lvl <= max_level_ =>
       /\ Readable(update[lvl], lvl)
       /\ LinkedHere => Readable(node, lvl)
  /\ pc = "lower" => node \in alive

(***************************************************************************)
(* No two nodes of the heap ever carry the same key, so insert_element     *)
(* neither duplicates a key nor leaks a replaced node.                     *)
(***************************************************************************)
KeysUnique == \A m, n \in alive : key[m] = key[n] => m = n

(***************************************************************************)
(* max_level_ only ever falls.  delete_element unlinks levels up to        *)
(* max_level_ only; were it to rise again, searches would start on a level *)
(* that still points to deleted nodes.                                     *)
(***************************************************************************)
MaxLevelNeverRises == [][max_level_' <= max_level_]_vars

(***************************************************************************)
(* Every insert_element and delete_element returns and releases mtx; only  *)
(* an exception from `new` leaves insert_element with mtx locked for good. *)
(***************************************************************************)
WriterReturns == mtx ~> (~mtx \/ pc = "threw")

(***************************************************************************)
(* The list implements an atomic map: seen through its level-0 members it  *)
(* changes once per effective operation, at the store that links or        *)
(* unlinks level 0, by exactly the argument's key, and insert_element and  *)
(* delete_element return only after that or with nothing to do.            *)
(***************************************************************************)
Contents == {<<key[n], value[n]>> : n \in Members(0)}

Map == INSTANCE OrderedMap WITH
         dict <- Contents,
         request <- args,
         applied <- (node # Null /\ lvl > 0)

ImplementsMap == Map!Spec

===============================================================================
