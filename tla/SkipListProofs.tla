---------------------------- MODULE SkipListProofs ----------------------------
(***************************************************************************)
(* Proofs about SkipList for every key set, heap and height.  LevelsOrdered*)
(* is not inductive by itself: a step of the writer preserves it only      *)
(* because update[] holds the predecessors of the key on every level that  *)
(* is still to be linked or unlinked.  Inv adds what the locals mean at    *)
(* each point of insert_element and delete_element.                        *)
(***************************************************************************)
EXTENDS SkipList, FiniteSetTheorems, TLAPS

Before(n) == n = Head \/ key[n] < wkey

\* n is the last node of level l whose key is smaller than the argument.
IsPred(n, l) ==
  /\ n \in Members(l) \cup {Head}
  /\ Before(n)
  /\ forward[n][l] # Null => ~(key[forward[n][l]] < wkey)

PredsFrom(l) == \A j \in l .. max_level_ : IsPred(update[j], j)

RequestInv ==
  /\ mtx <=> pc # "idle"
  /\ pc = "idle" => op = "none" /\ wkey = 0 /\ wvalue = Null /\ lvl = 0
  /\ pc # "idle" => \/ op = "insert" /\ wkey \in Keys /\ wvalue \in Values
                    \/ op = "delete" /\ wkey \in Keys /\ wvalue = Null
  /\ Inserting \/ pc = "threw" => op = "insert"
  /\ pc \in {"unlink", "lower"} => op = "delete"
  /\ pc \in {"idle", "find", "check", "threw"} <=> node = Null

FindInv ==
  /\ pc = "find" => /\ lvl <= max_level_
                    /\ current \in Members(lvl) \cup {Head}
                    /\ Before(current)
                    /\ PredsFrom(lvl + 1)
  /\ pc \in {"check", "threw"} => lvl = 0 /\ current = update[0] /\ PredsFrom(0)

InsertInv ==
  /\ Inserting => /\ node \in alive
                  /\ key[node] = wkey /\ value[node] = wvalue
                  /\ node_level[node] <= max_level_
  /\ pc \in {"linkA", "linkB"} => lvl <= node_level[node] /\ PredsFrom(lvl)
  /\ pc = "linkB" => forward[node][lvl] = forward[update[lvl]][lvl]
  /\ pc = "publish" => lvl = node_level[node] + 1

DeleteInv ==
  /\ pc \in {"unlink", "lower"} => node \in alive /\ key[node] = wkey
  /\ pc = "unlink" => /\ lvl <= max_level_ + 1
                      /\ lvl <= node_level[node] + 1
                      /\ PredsFrom(lvl)
  /\ pc = "lower" => lvl > 0 /\ (lvl > node_level[node] \/ lvl > max_level_)

Inv ==
  /\ TypeOK
  /\ LevelsOrdered
  /\ KeysUnique
  /\ RequestInv
  /\ FindInv
  /\ InsertInv
  /\ DeleteInv

-------------------------------------------------------------------------------
\* LevelsOrdered depends on nothing but the members of the levels in use, their
\* keys and their pointers on those levels.
LEMMA LevelsFrame ==
  ASSUME TypeOK, TypeOK', LevelsOrdered, max_level_' <= max_level_,
         \A l \in 0 .. max_level_' :
           /\ Members(l)' = Members(l)
           /\ \A n \in Members(l) : key'[n] = key[n]
           /\ \A n \in Members(l) \cup {Head} : forward'[n][l] = forward[n][l]
  PROVE  LevelsOrdered'
<1> SUFFICES ASSUME NEW l \in 0 .. max_level_', NEW n \in Members(l)' \cup {Head}
             PROVE  LeadsToNext(n, l)'
  BY DEF LevelsOrdered
<1>1. l \in 0 .. max_level_ /\ n \in Members(l) \cup {Head}
  BY DEF TypeOK, Levels
<1>2. LeadsToNext(n, l)
  BY <1>1 DEF LevelsOrdered
<1>3. forward'[n][l] = forward[n][l] /\ Members(l)' = Members(l)
  BY <1>1
<1>4. \A m \in Members(l) : key'[m] = key[m]
  OBVIOUS
<1> QED
  BY <1>1, <1>2, <1>3, <1>4 DEF LeadsToNext, Precedes

\* A step that leaves the heap, max_level_ and the node being worked on alone,
\* with no node being linked or unlinked.
LEMMA QuietFrame ==
  ASSUME TypeOK, TypeOK', LevelsOrdered, KeysUnique, heap' = heap,
         max_level_' = max_level_, node = Null, node' = Null
  PROVE  /\ \A l : Members(l)' = Members(l)
         /\ LevelsOrdered'
         /\ KeysUnique'
<1>1. \A l : Members(l)' = Members(l)
  BY SkipListAssumption DEF SkipListAssumption, Members, OnLevel, heap
<1>2. max_level_' <= max_level_
  BY DEF TypeOK, Levels
<1>3. forward' = forward /\ key' = key
  BY DEF heap
<1>4. LevelsOrdered'
  BY <1>1, <1>2, <1>3, LevelsFrame
<1> QED
  BY <1>1, <1>4 DEF KeysUnique, heap

LEMMA InitInv == Init => Inv
<1> SUFFICES ASSUME Init PROVE Inv
  OBVIOUS
<1> USE SkipListAssumption DEF SkipListAssumption
<1>1. TypeOK
  <2>1. forward \in [Nodes \cup {Head} -> [Levels -> Nodes \cup {Null}]]
    BY DEF Init
  <2>2. mtx \in BOOLEAN
    BY DEF Init
  <2> QED
    BY <2>1, <2>2 DEF Init, TypeOK, Levels, NoUpdate
<1>2. LevelsOrdered
  BY DEF Init, LevelsOrdered, LeadsToNext, Members, OnLevel, Levels
<1>3. KeysUnique /\ RequestInv /\ FindInv /\ InsertInv /\ DeleteInv
  BY DEF Init, KeysUnique, RequestInv, FindInv, InsertInv, DeleteInv, Inserting
<1> QED
  BY <1>1, <1>2, <1>3 DEF Inv

LEMMA LockInv ==
  ASSUME Inv, NEW o \in {"insert", "delete"}, NEW k \in Keys, NEW v \in Values \cup {Null},
         o = "insert" => v \in Values, o = "delete" => v = Null, Lock(o, k, v)
  PROVE  Inv'
<1> USE SkipListAssumption DEF SkipListAssumption
<1>1. TypeOK'
  BY DEF Inv, TypeOK, Lock, heap, Levels, NoUpdate
<1>2. pc = "idle" /\ node = Null /\ node' = Null /\ heap' = heap /\ max_level_' = max_level_
  BY DEF Inv, RequestInv, Lock, TypeOK
<1>3. LevelsOrdered' /\ KeysUnique'
  BY <1>1, <1>2, QuietFrame DEF Inv
<1>4. RequestInv'
  BY <1>2 DEF Lock, RequestInv, Inserting
<1>5. FindInv'
  BY <1>1 DEF Lock, FindInv, PredsFrom, Before, TypeOK, Levels
<1>6. InsertInv' /\ DeleteInv'
  BY DEF Lock, InsertInv, DeleteInv, Inserting
<1> QED
  BY <1>1, <1>3, <1>4, <1>5, <1>6 DEF Inv

\* An operation that returns without touching the list.
LEMMA ReturnInv ==
  ASSUME Inv, pc = "check", Unlock, UNCHANGED <<heap, max_level_, node_count_>>
  PROVE  Inv'
<1> USE SkipListAssumption DEF SkipListAssumption
<1>1. TypeOK'
  <2>1. mtx' \in BOOLEAN
    BY DEF Unlock
  <2> QED
    BY <2>1 DEF Inv, TypeOK, Unlock, heap, Levels, NoUpdate
<1>2. node = Null /\ node' = Null /\ heap' = heap /\ max_level_' = max_level_
  BY DEF Inv, RequestInv, Unlock
<1>3. LevelsOrdered' /\ KeysUnique'
  BY <1>1, <1>2, QuietFrame DEF Inv
<1>4. RequestInv' /\ FindInv' /\ InsertInv' /\ DeleteInv'
  BY DEF Unlock, RequestInv, FindInv, InsertInv, DeleteInv, Inserting
<1> QED
  BY <1>1, <1>3, <1>4 DEF Inv

LEMMA StepRightInv == Inv /\ StepRight => Inv'
<1> SUFFICES ASSUME Inv, StepRight PROVE Inv'
  OBVIOUS
<1> USE SkipListAssumption DEF SkipListAssumption
<1>1. /\ node = Null /\ node' = Null /\ heap' = heap /\ max_level_' = max_level_
      /\ lvl \in 0 .. max_level_ /\ lvl' = lvl /\ wkey' = wkey /\ update' = update
      /\ pc = "find" /\ pc' = "find"
  BY DEF Inv, RequestInv, FindInv, StepRight, TypeOK, Levels, args
<1>2. LeadsToNext(current, lvl)
  BY <1>1 DEF Inv, FindInv, LevelsOrdered
<1>3. current' \in Members(lvl) /\ key[current'] < wkey
  BY <1>2 DEF StepRight, KeepGoing, LeadsToNext
<1>4. TypeOK'
  BY <1>1, <1>3 DEF Inv, TypeOK, StepRight, heap, args, Members
<1>5. (\A l : Members(l)' = Members(l)) /\ LevelsOrdered' /\ KeysUnique'
  BY <1>1, <1>4, QuietFrame DEF Inv
<1>6. RequestInv'
  BY DEF Inv, StepRight, RequestInv, Inserting, args
<1>7. FindInv'
  <2>1. PredsFrom(lvl + 1)'
    BY <1>1, <1>5 DEF Inv, FindInv, PredsFrom, IsPred, Before, heap
  <2> QED
    BY <1>1, <1>3, <1>5, <2>1 DEF FindInv, Before, heap
<1>8. InsertInv' /\ DeleteInv'
  BY <1>1 DEF InsertInv, DeleteInv, Inserting
<1> QED
  BY <1>4, <1>5, <1>6, <1>7, <1>8 DEF Inv

LEMMA StepDownInv == Inv /\ StepDown => Inv'
<1> SUFFICES ASSUME Inv, StepDown PROVE Inv'
  OBVIOUS
<1> USE SkipListAssumption DEF SkipListAssumption
<1>1. /\ node = Null /\ node' = Null /\ heap' = heap /\ max_level_' = max_level_
      /\ lvl \in 0 .. max_level_ /\ wkey' = wkey /\ pc = "find" /\ current' = current
      /\ max_level_ \in Levels
      /\ update' = [update EXCEPT ![lvl] = current]
  BY DEF Inv, RequestInv, FindInv, StepDown, TypeOK, Levels, args
<1>2. TypeOK'
  BY <1>1 DEF Inv, TypeOK, StepDown, heap, args, Levels
<1>3. (\A l : Members(l)' = Members(l)) /\ LevelsOrdered' /\ KeysUnique'
  BY <1>1, <1>2, QuietFrame DEF Inv
<1>4. RequestInv'
  BY DEF Inv, StepDown, RequestInv, Inserting, args
<1>5. IsPred(current, lvl)
  BY <1>1 DEF Inv, FindInv, IsPred, StepDown, KeepGoing
<1>6. \A j \in lvl .. max_level_ : IsPred(update[j], j)'
  <2> SUFFICES ASSUME NEW j \in lvl .. max_level_ PROVE IsPred(update[j], j)'
    OBVIOUS
  <2>1. j \in Levels /\ lvl \in Levels
    BY <1>1 DEF Levels
  <2>2. CASE j = lvl
    <3>1. update'[j] = current
      BY <1>1, <2>1, <2>2 DEF Inv, TypeOK
    <3> QED
      BY <1>1, <1>3, <1>5, <2>2, <3>1 DEF IsPred, Before, heap
  <2>3. CASE j # lvl
    <3>1. update'[j] = update[j] /\ j \in lvl + 1 .. max_level_
      BY <1>1, <2>1, <2>3 DEF Inv, TypeOK, Levels
    <3>2. IsPred(update[j], j)
      BY <1>1, <3>1 DEF Inv, FindInv, PredsFrom
    <3> QED
      BY <1>1, <1>3, <3>1, <3>2 DEF IsPred, Before, heap
  <2> QED
    BY <2>2, <2>3
<1>7. FindInv'
  <2>1. CASE lvl > 0
    <3>1. pc' = "find" /\ lvl' = lvl - 1
      BY <1>1, <2>1 DEF StepDown
    <3>2. PredsFrom(lvl + 1)'
      BY <1>1, <1>6, <3>1 DEF PredsFrom, Levels
    <3>3. current \in Members(lvl - 1) \cup {Head} /\ Before(current)
      BY <1>1, <2>1 DEF Inv, FindInv, Members, OnLevel, TypeOK, Levels
    <3> QED
      BY <1>1, <1>3, <3>1, <3>2, <3>3 DEF FindInv, Before, heap, Levels
  <2>2. CASE lvl = 0
    <3>1. pc' = "check" /\ lvl' = 0 /\ update'[0] = current
      BY <1>1, <2>2 DEF StepDown, Inv, TypeOK, Levels
    <3> QED
      BY <1>1, <1>6, <2>2, <3>1 DEF FindInv, PredsFrom
  <2> QED
    BY <1>1, <2>1, <2>2
<1>8. InsertInv' /\ DeleteInv'
  BY <1>1 DEF StepDown, InsertInv, DeleteInv, Inserting
<1> QED
  BY <1>2, <1>3, <1>4, <1>7, <1>8 DEF Inv

-------------------------------------------------------------------------------
\* The descent decides: the key is in the list iff Found.
LEMMA FoundDecides ==
  ASSUME Inv, pc = "check"
  PROVE  /\ ~Found => \A m \in alive : key[m] # wkey
         /\ Found => /\ forward[current][0] \in alive
                     /\ key[forward[current][0]] = wkey
<1> USE SkipListAssumption DEF SkipListAssumption
<1>1. node = Null /\ max_level_ \in Nat /\ 0 \in 0 .. max_level_
  BY DEF Inv, RequestInv, TypeOK, Levels
<1>2. Members(0) = alive
  BY <1>1 DEF Inv, TypeOK, Members, OnLevel, Levels
<1>3. IsPred(current, 0)
  BY <1>1 DEF Inv, FindInv, PredsFrom
<1>4. LeadsToNext(current, 0)
  BY <1>1, <1>3 DEF Inv, LevelsOrdered, IsPred
<1>5. ASSUME ~Found, NEW m \in alive, key[m] = wkey PROVE FALSE
  <2>1. Precedes(current, m)
    BY <1>3, <1>5 DEF IsPred, Before, Precedes
  <2>2. forward[current][0] # Null /\ forward[current][0] \in alive
    BY <1>2, <1>4, <2>1, <1>5 DEF LeadsToNext
  <2>3. key[forward[current][0]] > wkey
    <3>1. key[forward[current][0]] # wkey
      BY <1>5, <2>2 DEF Found
    <3>2. key[forward[current][0]] \in Int /\ wkey \in Int
      BY <2>2 DEF Inv, TypeOK
    <3> QED
      BY <1>3, <2>2, <3>1, <3>2 DEF IsPred
  <2>4. Precedes(m, forward[current][0])
    BY <1>5, <2>3 DEF Precedes, Inv, TypeOK
  <2> QED
    BY <1>2, <1>4, <1>5, <2>1, <2>2, <2>4 DEF LeadsToNext
<1>6. Found => forward[current][0] \in alive /\ key[forward[current][0]] = wkey
  BY <1>2, <1>4 DEF Found, LeadsToNext
<1> QED
  BY <1>5, <1>6

LEMMA CreateNodeInv == Inv /\ CreateNode => Inv'
<1> SUFFICES ASSUME Inv, CreateNode PROVE Inv'
  OBVIOUS
<1> USE SkipListAssumption DEF SkipListAssumption
<1>1. PICK n \in Nodes \ alive, random_level \in RandomLevels :
        /\ update' = [l \in Levels |->
                        IF l > max_level_ /\ l <= random_level THEN Head ELSE update[l]]
        /\ max_level_' = IF random_level > max_level_ THEN random_level ELSE max_level_
        /\ alive' = alive \cup {n}
        /\ key' = [key EXCEPT ![n] = wkey]
        /\ value' = [value EXCEPT ![n] = wvalue]
        /\ node_level' = [node_level EXCEPT ![n] = random_level]
        /\ forward' = [forward EXCEPT ![n] = [l \in Levels |-> Null]]
        /\ node' = n
  BY DEF CreateNode
<1>2. /\ pc = "check" /\ op = "insert" /\ lvl' = 0 /\ pc' = "linkA"
      /\ args' = args /\ wkey' = wkey /\ wvalue' = wvalue /\ node = Null
      /\ mtx' = mtx /\ node_count_' = node_count_ /\ current' = current
  BY DEF CreateNode, args, Inv, RequestInv
<1>3. random_level \in 0 .. max_level_ /\ max_level_' = max_level_ /\ max_level_ \in Levels
  BY <1>1 DEF RandomLevels, Inv, TypeOK, Levels
<1>4. \A l \in 0 .. max_level_ : update'[l] = update[l]
  BY <1>1, <1>3 DEF Levels, Inv, TypeOK
<1>5. TypeOK'
  <2>1. forward' \in [Nodes \cup {Head} -> [Levels -> Nodes \cup {Null}]]
    BY <1>1 DEF Inv, TypeOK
  <2>2. update' \in [Levels -> Nodes \cup {Head, Null}]
    BY <1>1 DEF Inv, TypeOK
  <2> QED
    BY <1>1, <1>2, <1>3, <2>1, <2>2 DEF Inv, TypeOK, Levels, args
<1>6. \A l \in 0 .. max_level_ : Members(l)' = Members(l)
  <2>1. \A m \in alive : m # n /\ node_level'[m] = node_level[m]
    BY <1>1 DEF Inv, TypeOK
  <2> QED
    BY <1>1, <1>2, <2>1 DEF Members, OnLevel, Inserting
<1>7. /\ \A m \in alive : key'[m] = key[m]
      /\ \A m \in alive \cup {Head} : forward'[m] = forward[m]
  BY <1>1 DEF Inv, TypeOK
<1>8. \A l : Members(l) \subseteq alive
  BY DEF Members, OnLevel
<1>9. LevelsOrdered'
  <2>1. max_level_' <= max_level_
    BY <1>3 DEF Levels
  <2> QED
    BY <1>3, <1>5, <1>6, <1>7, <1>8, <2>1, LevelsFrame DEF Inv
<1>10. KeysUnique'
  <2>1. \A m \in alive : key[m] # wkey
    BY <1>2, FoundDecides DEF CreateNode
  <2>2. key'[n] = wkey
    BY <1>1 DEF Inv, TypeOK
  <2> QED
    BY <1>1, <1>7, <2>1, <2>2 DEF Inv, KeysUnique
<1>11. RequestInv'
  BY <1>1, <1>2 DEF Inv, RequestInv, Inserting, args
<1>12. PredsFrom(0)'
  <2> SUFFICES ASSUME NEW j \in 0 .. max_level_ PROVE IsPred(update[j], j)'
    BY <1>3 DEF PredsFrom
  <2>1. IsPred(update[j], j)
    BY <1>2 DEF Inv, FindInv, PredsFrom
  <2>2. forward'[update[j]][j] = forward[update[j]][j] /\ update[j] \in alive \cup {Head}
    BY <1>7, <1>8, <2>1 DEF IsPred
  <2>3. LeadsToNext(update[j], j)
    BY <2>1 DEF IsPred, Inv, LevelsOrdered
  <2>4. forward[update[j]][j] # Null => forward[update[j]][j] \in alive
    BY <1>8, <2>3 DEF LeadsToNext
  <2> QED
    BY <1>2, <1>4, <1>6, <1>7, <2>1, <2>2, <2>4 DEF IsPred, Before
<1>13. FindInv' /\ DeleteInv'
  BY <1>2 DEF FindInv, DeleteInv
<1>14. InsertInv'
  BY <1>1, <1>2, <1>3, <1>12 DEF InsertInv, Inv, TypeOK, Levels
<1> QED
  BY <1>5, <1>9, <1>10, <1>11, <1>13, <1>14 DEF Inv

LEMMA NewThrowsInv == Inv /\ NewThrows => Inv'
<1> SUFFICES ASSUME Inv, NewThrows PROVE Inv'
  OBVIOUS
<1>1. /\ pc = "check" /\ pc' = "threw" /\ op = "insert" /\ node = Null
      /\ heap' = heap /\ max_level_' = max_level_ /\ node_count_' = node_count_
      /\ mtx' = mtx /\ args' = args /\ locals' = locals
  BY DEF NewThrows, Inv, RequestInv
<1>2. TypeOK'
  BY <1>1 DEF Inv, TypeOK, heap, args, locals
<1>3. (\A l : Members(l)' = Members(l)) /\ LevelsOrdered' /\ KeysUnique'
  BY <1>1, <1>2, QuietFrame DEF Inv, locals
<1>4. RequestInv' /\ InsertInv' /\ DeleteInv'
  BY <1>1 DEF Inv, RequestInv, InsertInv, DeleteInv, Inserting, args, locals
<1>5. FindInv'
  BY <1>1, <1>3 DEF Inv, FindInv, PredsFrom, IsPred, Before, heap, args, locals
<1> QED
  BY <1>2, <1>3, <1>4, <1>5 DEF Inv

LEMMA LinkAInv == Inv /\ LinkA => Inv'
<1> SUFFICES ASSUME Inv, LinkA PROVE Inv'
  OBVIOUS
<1> USE SkipListAssumption DEF SkipListAssumption
<1>1. /\ pc = "linkA" /\ pc' = "linkB"
      /\ forward' = [forward EXCEPT ![node][lvl] = forward[update[lvl]][lvl]]
      /\ key' = key /\ value' = value /\ node_level' = node_level /\ alive' = alive
      /\ max_level_' = max_level_ /\ node_count_' = node_count_ /\ mtx' = mtx
      /\ args' = args /\ op' = op /\ wkey' = wkey /\ wvalue' = wvalue
      /\ current' = current /\ lvl' = lvl /\ update' = update /\ node' = node
  BY DEF LinkA, args, locals
<1>2. /\ node \in alive /\ node \in Nodes /\ lvl \in Levels /\ lvl \in 0 .. max_level_
      /\ max_level_ \in Levels
  BY <1>1 DEF Inv, InsertInv, Inserting, TypeOK, Levels
<1>3. \A j \in lvl .. max_level_ : IsPred(update[j], j)
  BY <1>1 DEF Inv, InsertInv, PredsFrom
<1>4. \A l \in lvl .. max_level_ : node \notin Members(l)
  BY <1>1, <1>2 DEF Members, OnLevel, Inserting, Levels
<1>5. \A j \in lvl .. max_level_ : update[j] # node /\ update[j] \in Nodes \cup {Head}
  BY <1>2, <1>3, <1>4 DEF IsPred, Members
<1>6. forward'[node][lvl] = forward[update[lvl]][lvl]
  BY <1>1, <1>2 DEF Inv, TypeOK
<1>7. \A m \in Nodes \cup {Head}, l \in Levels :
        (m # node \/ l # lvl) => forward'[m][l] = forward[m][l]
  BY <1>1, <1>2 DEF Inv, TypeOK
<1>8. TypeOK'
  <2>1. forward[update[lvl]][lvl] \in Nodes \cup {Null}
    BY <1>2, <1>5 DEF Inv, TypeOK, Levels
  <2>2. forward' \in [Nodes \cup {Head} -> [Levels -> Nodes \cup {Null}]]
    BY <1>1, <1>2, <2>1 DEF Inv, TypeOK
  <2> QED
    BY <1>1, <2>2 DEF Inv, TypeOK
<1>9. \A l : Members(l)' = Members(l)
  BY <1>1 DEF Members, OnLevel, Inserting
<1>10. \A l \in 0 .. max_level_ : \A m \in Members(l) \cup {Head} :
         forward'[m][l] = forward[m][l]
  <2> SUFFICES ASSUME NEW l \in 0 .. max_level_, NEW m \in Members(l) \cup {Head}
               PROVE  forward'[m][l] = forward[m][l]
    OBVIOUS
  <2>1. m \in Nodes \cup {Head} /\ l \in Levels
    BY <1>2 DEF Members, Levels
  <2>2. m # node \/ l # lvl
    BY <1>2, <1>4
  <2> QED
    BY <1>7, <2>1, <2>2
<1>11. LevelsOrdered'
  <2>1. max_level_' <= max_level_
    BY <1>1, <1>2 DEF Levels
  <2> QED
    BY <1>1, <1>8, <1>9, <1>10, <2>1, LevelsFrame DEF Inv
<1>12. KeysUnique' /\ RequestInv' /\ FindInv' /\ DeleteInv'
  BY <1>1, <1>2 DEF Inv, KeysUnique, RequestInv, FindInv, DeleteInv, Inserting
<1>13. PredsFrom(lvl)'
  <2> SUFFICES ASSUME NEW j \in lvl .. max_level_ PROVE IsPred(update[j], j)'
    BY <1>1 DEF PredsFrom
  <2>1. forward'[update[j]][j] = forward[update[j]][j]
    BY <1>2, <1>3, <1>10 DEF IsPred, Levels
  <2> QED
    BY <1>1, <1>3, <1>9, <2>1 DEF IsPred, Before
<1>14. InsertInv'
  <2>1. forward'[node][lvl] = forward'[update[lvl]][lvl]
    BY <1>2, <1>5, <1>6, <1>7
  <2> QED
    BY <1>1, <1>13, <2>1 DEF Inv, InsertInv, Inserting
<1> QED
  BY <1>8, <1>11, <1>12, <1>14 DEF Inv

LEMMA LinkBInv == Inv /\ LinkB => Inv'
<1> SUFFICES ASSUME Inv, LinkB PROVE Inv'
  OBVIOUS
<1> USE SkipListAssumption DEF SkipListAssumption
<1> DEFINE u == update[lvl]
           s == forward[u][lvl]
<1>1. /\ pc = "linkB" /\ pc' = IF lvl < node_level[node] THEN "linkA" ELSE "publish"
      /\ forward' = [forward EXCEPT ![u][lvl] = node]
      /\ key' = key /\ value' = value /\ node_level' = node_level /\ alive' = alive
      /\ max_level_' = max_level_ /\ node_count_' = node_count_ /\ mtx' = mtx
      /\ op' = op /\ wkey' = wkey /\ wvalue' = wvalue
      /\ current' = current /\ lvl' = lvl + 1 /\ update' = update /\ node' = node
  BY DEF LinkB, args
<1>2. /\ node \in alive /\ node \in Nodes /\ lvl \in Levels /\ lvl \in 0 .. max_level_
      /\ max_level_ \in Levels /\ node_level[node] \in lvl .. max_level_
      /\ key[node] = wkey /\ wkey \in Int
  BY <1>1 DEF Inv, InsertInv, Inserting, TypeOK, Levels
<1>3. \A j \in lvl .. max_level_ : IsPred(update[j], j)
  BY <1>1 DEF Inv, InsertInv, PredsFrom
<1>4. node \notin Members(lvl)
  BY <1>1, <1>2 DEF Members, OnLevel, Inserting, Levels
<1>5. IsPred(u, lvl) /\ u # node /\ u \in Nodes \cup {Head}
  BY <1>2, <1>3, <1>4 DEF IsPred, Members
<1>6. forward'[u][lvl] = node
  BY <1>1, <1>2, <1>5 DEF Inv, TypeOK
<1>7. \A m \in Nodes \cup {Head}, l \in Levels :
        (m # u \/ l # lvl) => forward'[m][l] = forward[m][l]
  BY <1>1, <1>2 DEF Inv, TypeOK
<1>8. TypeOK'
  <2>1. forward' \in [Nodes \cup {Head} -> [Levels -> Nodes \cup {Null}]]
    BY <1>1, <1>2 DEF Inv, TypeOK
  <2>2. lvl' \in 0 .. MaxLevel + 1
    BY <1>1, <1>2 DEF Levels
  <2> QED
    BY <1>1, <2>1, <2>2 DEF Inv, TypeOK
<1>9. \A l \in 0 .. max_level_ :
         Members(l)' = IF l = lvl THEN Members(lvl) \cup {node} ELSE Members(l)
  <2> SUFFICES ASSUME NEW l \in 0 .. max_level_, NEW n \in Nodes
               PROVE  OnLevel(n, l)' <=> OnLevel(n, l) \/ (l = lvl /\ n = node)
    BY <1>2 DEF Members
  <2> QED
    BY <1>1, <1>2 DEF OnLevel, Inserting, Levels
<1>10. \A m \in Members(lvl) : m \in alive /\ m \in Nodes /\ key[m] \in Int /\ m # Head
  BY DEF Members, OnLevel, Inv, TypeOK
<1>11. \A m \in Members(lvl) \cup {Head} : LeadsToNext(m, lvl)
  BY <1>2 DEF Inv, LevelsOrdered
<1>12. \A m, n \in alive : key[m] = key[n] => m = n
  BY DEF Inv, KeysUnique
<1>13. \A m \in Members(lvl) : key[m] # wkey
  BY <1>2, <1>4, <1>10, <1>12
<1>14. u \in Members(lvl) \cup {Head} /\ Before(u) /\ (s # Null => ~(key[s] < wkey))
  BY <1>5 DEF IsPred
<1>15. ASSUME NEW l \in 0 .. max_level_, l = lvl, NEW n \in Members(l)' \cup {Head}
       PROVE  LeadsToNext(n, l)'
  <2>1. Members(l)' = Members(lvl) \cup {node}
    BY <1>9, <1>15
  <2>2. CASE n = u
    <3>1. Precedes(u, node)
      BY <1>2, <1>14 DEF Before, Precedes
    <3>2. ASSUME NEW m \in Members(lvl) \cup {node}, Precedes(u, m), Precedes(m, node)
          PROVE  FALSE
      <4>1. m \in Members(lvl) /\ key[m] < wkey
        BY <1>2, <1>10, <3>2 DEF Precedes
      <4>2. s # Null => Precedes(m, s)
        BY <1>10, <1>11, <1>14, <4>1, <1>2 DEF LeadsToNext, Precedes
      <4> QED
        BY <1>11, <1>14, <3>2, <4>1, <4>2 DEF LeadsToNext
    <3> QED
      BY <1>1, <1>2, <1>6, <1>15, <2>1, <2>2, <3>1, <3>2 DEF LeadsToNext, Precedes
  <2>3. CASE n = node
    <3>1. forward'[node][lvl] = s
      BY <1>1, <1>2, <1>5, <1>7 DEF Inv, InsertInv
    <3>2. s # Null => s \in Members(lvl) /\ Precedes(node, s)
      BY <1>2, <1>10, <1>11, <1>13, <1>14 DEF LeadsToNext, Precedes
    <3>3. \A m \in Members(lvl) : Precedes(node, m) => Precedes(u, m)
      BY <1>2, <1>10, <1>14 DEF Precedes, Before
    <3>4. ~Precedes(node, node)
      BY <1>2 DEF Precedes
    <3> QED
      BY <1>1, <1>11, <1>14, <1>15, <2>1, <2>3, <3>1, <3>2, <3>3, <3>4 DEF LeadsToNext, Precedes
  <2>4. CASE n # u /\ n # node
    <3>1. n \in Members(lvl) \cup {Head} /\ forward'[n][lvl] = forward[n][lvl]
      BY <1>2, <1>7, <1>10, <2>1, <2>4
    <3>2. LeadsToNext(n, lvl)
      BY <1>11, <3>1
    <3>3. ASSUME Precedes(n, node)
          PROVE  forward[n][lvl] # Null /\ ~Precedes(node, forward[n][lvl])
      <4>1. Before(n)
        BY <1>2, <3>3 DEF Precedes, Before
      <4>2. n # Head => ~Precedes(u, n)
        <5> SUFFICES ASSUME n # Head PROVE ~Precedes(u, n)
          OBVIOUS
        <5>1. s # Null => Precedes(n, s)
          BY <1>2, <1>10, <1>11, <1>14, <3>1, <4>1 DEF LeadsToNext, Precedes, Before
        <5> QED
          BY <1>11, <1>14, <3>1, <5>1 DEF LeadsToNext
      <4>3. u \in Members(lvl) /\ Precedes(n, u)
        BY <1>10, <1>12, <1>14, <2>4, <3>1, <4>2 DEF Precedes
      <4> QED
        BY <1>2, <1>10, <1>14, <3>2, <4>3 DEF LeadsToNext, Precedes, Before
    <3> QED
      BY <1>1, <1>15, <2>1, <3>1, <3>2, <3>3 DEF LeadsToNext, Precedes
  <2> QED
    BY <2>2, <2>3, <2>4
<1>16. LevelsOrdered'
  <2> SUFFICES ASSUME NEW l \in 0 .. max_level_', NEW n \in Members(l)' \cup {Head}
               PROVE  LeadsToNext(n, l)'
    BY DEF LevelsOrdered
  <2>1. CASE l = lvl
    BY <1>1, <1>15, <2>1
  <2>2. CASE l # lvl
    <3>1. l \in 0 .. max_level_ /\ l \in Levels /\ Members(l)' = Members(l)
      BY <1>1, <1>2, <1>9, <2>2 DEF Levels
    <3>2. LeadsToNext(n, l) /\ n \in Nodes \cup {Head}
      BY <3>1 DEF Inv, LevelsOrdered, Members
    <3>3. forward'[n][l] = forward[n][l]
      BY <1>7, <2>2, <3>1, <3>2
    <3> QED
      BY <1>1, <3>1, <3>2, <3>3 DEF LeadsToNext, Precedes
  <2> QED
    BY <2>1, <2>2
<1>17. KeysUnique' /\ RequestInv' /\ FindInv' /\ DeleteInv'
  BY <1>1, <1>2 DEF Inv, KeysUnique, RequestInv, FindInv, DeleteInv, Inserting
<1>18. PredsFrom(lvl)'
  <2> SUFFICES ASSUME NEW j \in lvl + 1 .. max_level_ PROVE IsPred(update[j], j)'
    BY <1>1 DEF PredsFrom
  <2>1. j \in 0 .. max_level_ /\ j \in Levels /\ j # lvl /\ j \in lvl .. max_level_
    BY <1>2 DEF Levels
  <2>2. IsPred(update[j], j) /\ Members(j)' = Members(j)
    BY <1>3, <1>9, <2>1
  <2>3. forward'[update[j]][j] = forward[update[j]][j]
    BY <1>7, <2>1, <2>2 DEF IsPred, Members
  <2> QED
    BY <1>1, <2>2, <2>3 DEF IsPred, Before
<1>19. InsertInv'
  <2>1. lvl' <= node_level[node] \/ (pc' = "publish" /\ lvl' = node_level[node] + 1)
    BY <1>1, <1>2 DEF Levels
  <2>2. pc' \in {"linkA", "publish"} /\ (pc' = "linkA" => lvl' <= node_level[node])
    BY <1>1, <1>2 DEF Levels
  <2>3. pc' = "publish" => lvl' = node_level[node] + 1
    BY <1>1, <1>2 DEF Levels
  <2> QED
    BY <1>1, <1>18, <2>2, <2>3 DEF Inv, InsertInv, Inserting
<1> QED
  BY <1>8, <1>16, <1>17, <1>19 DEF Inv

LEMMA PublishInv == Inv /\ Publish => Inv'
<1> SUFFICES ASSUME Inv, Publish PROVE Inv'
  OBVIOUS
<1> USE SkipListAssumption DEF SkipListAssumption
<1>1. /\ pc = "publish" /\ pc' = "idle" /\ max_level_' = node_level[node]
      /\ heap' = heap /\ node' = Null /\ node_count_' = node_count_
  BY DEF Publish, Unlock
<1>2. /\ node \in alive /\ node_level[node] \in Levels /\ max_level_ \in Levels
      /\ node_level[node] <= max_level_ /\ lvl = node_level[node] + 1
  BY <1>1 DEF Inv, InsertInv, Inserting, TypeOK
<1>3. TypeOK'
  <2>1. mtx' \in BOOLEAN
    BY DEF Publish, Unlock
  <2> QED
    BY <1>1, <1>2, <2>1 DEF Inv, TypeOK, Publish, Unlock, heap, Levels, NoUpdate
<1>4. \A l \in 0 .. max_level_' : Members(l)' = Members(l)
  <2> SUFFICES ASSUME NEW l \in 0 .. max_level_', NEW n \in Nodes
               PROVE  OnLevel(n, l)' <=> OnLevel(n, l)
    BY DEF Members
  <2> QED
    BY <1>1, <1>2 DEF OnLevel, Inserting, heap, Levels
<1>5. max_level_' <= max_level_ /\ forward' = forward /\ key' = key
  BY <1>1, <1>2 DEF heap
<1>6. LevelsOrdered'
  BY <1>3, <1>4, <1>5, LevelsFrame DEF Inv
<1>7. KeysUnique'
  BY <1>1 DEF Inv, KeysUnique, heap
<1>8. RequestInv' /\ FindInv' /\ InsertInv' /\ DeleteInv'
  BY DEF Publish, Unlock, RequestInv, FindInv, InsertInv, DeleteInv, Inserting
<1> QED
  BY <1>3, <1>6, <1>7, <1>8 DEF Inv

LEMMA DeleteFoundInv == Inv /\ DeleteFound => Inv'
<1> SUFFICES ASSUME Inv, DeleteFound PROVE Inv'
  OBVIOUS
<1> USE SkipListAssumption DEF SkipListAssumption
<1>1. /\ pc = "check" /\ pc' = "unlink" /\ op = "delete" /\ node' = forward[current][0]
      /\ node = Null /\ lvl' = 0 /\ heap' = heap /\ max_level_' = max_level_
      /\ node_count_' = node_count_ /\ mtx' = mtx /\ args' = args
      /\ current' = current /\ update' = update
  BY DEF DeleteFound, Inv, RequestInv
<1>2. node' \in alive /\ node' \in Nodes /\ key[node'] = wkey
  BY <1>1, FoundDecides DEF DeleteFound, Inv, TypeOK
<1>3. TypeOK'
  BY <1>1, <1>2 DEF Inv, TypeOK, heap, args
<1>4. max_level_ \in Levels /\ node_level \in [Nodes -> Levels]
  BY DEF Inv, TypeOK
<1>5. \A l \in 0 .. max_level_ : Members(l)' = Members(l)
  <2> SUFFICES ASSUME NEW l \in 0 .. max_level_, NEW n \in Nodes
               PROVE  OnLevel(n, l)' <=> OnLevel(n, l)
    BY DEF Members
  <2> QED
    BY <1>1, <1>4 DEF OnLevel, Inserting, heap, Levels
<1>6. max_level_' <= max_level_ /\ forward' = forward /\ key' = key
  BY <1>1, <1>4 DEF heap, Levels
<1>7. LevelsOrdered'
  BY <1>1, <1>3, <1>5, <1>6, LevelsFrame DEF Inv
<1>8. KeysUnique' /\ FindInv' /\ InsertInv'
  BY <1>1 DEF Inv, KeysUnique, FindInv, InsertInv, Inserting, heap
<1>9. RequestInv'
  BY <1>1, <1>2 DEF Inv, RequestInv, Inserting, args
<1>10. PredsFrom(0)'
  BY <1>1, <1>5, <1>6 DEF Inv, FindInv, PredsFrom, IsPred, Before, args
<1>11. DeleteInv'
  BY <1>1, <1>2, <1>4, <1>10 DEF DeleteInv, heap, args, Levels
<1> QED
  BY <1>3, <1>7, <1>8, <1>9, <1>11 DEF Inv

LEMMA UnlinkInv == Inv /\ Unlink /\ LinkedHere => Inv'
<1> SUFFICES ASSUME Inv, Unlink, LinkedHere PROVE Inv'
  OBVIOUS
<1> USE SkipListAssumption DEF SkipListAssumption
<1> DEFINE u == update[lvl]
           s == forward[node][lvl]
<1>1. /\ pc = "unlink" /\ pc' = "unlink"
      /\ forward' = [forward EXCEPT ![u][lvl] = s]
      /\ key' = key /\ value' = value /\ node_level' = node_level /\ alive' = alive
      /\ max_level_' = max_level_ /\ node_count_' = node_count_ /\ mtx' = mtx
      /\ op' = op /\ wkey' = wkey /\ wvalue' = wvalue
      /\ current' = current /\ lvl' = lvl + 1 /\ update' = update /\ node' = node
  BY DEF Unlink, args
<1>2. /\ node \in alive /\ node \in Nodes /\ lvl \in Levels /\ lvl \in 0 .. max_level_
      /\ max_level_ \in Levels /\ forward[u][lvl] = node
      /\ key[node] = wkey /\ wkey \in Int
  BY <1>1 DEF Inv, DeleteInv, TypeOK, Levels, LinkedHere
<1>3. \A j \in lvl .. max_level_ : IsPred(update[j], j)
  BY <1>1 DEF Inv, DeleteInv, PredsFrom
<1>4. u \in Members(lvl) \cup {Head} /\ Before(u)
  BY <1>2, <1>3 DEF IsPred
<1>5. \A m \in Members(lvl) : m \in alive /\ m \in Nodes /\ key[m] \in Int /\ m # Head
  BY DEF Members, OnLevel, Inv, TypeOK
<1>6. \A m \in Members(lvl) \cup {Head} : LeadsToNext(m, lvl)
  BY <1>2 DEF Inv, LevelsOrdered
<1>7. node \in Members(lvl) /\ lvl <= node_level[node]
  BY <1>2, <1>4, <1>6 DEF LeadsToNext, Members, OnLevel
<1>8. u # node /\ u \in Nodes \cup {Head}
  BY <1>2, <1>4, <1>5 DEF Before
<1>9. \A m \in Nodes \cup {Head}, l \in Levels :
        (m # u \/ l # lvl) => forward'[m][l] = forward[m][l]
  BY <1>1, <1>2 DEF Inv, TypeOK
<1>10. forward'[u][lvl] = s /\ s \in Nodes \cup {Null}
  BY <1>1, <1>2, <1>8 DEF Inv, TypeOK
<1>11. TypeOK'
  <2>1. forward' \in [Nodes \cup {Head} -> [Levels -> Nodes \cup {Null}]]
    BY <1>1, <1>2, <1>10 DEF Inv, TypeOK
  <2>2. lvl' \in 0 .. MaxLevel + 1
    BY <1>1, <1>2 DEF Levels
  <2> QED
    BY <1>1, <2>1, <2>2 DEF Inv, TypeOK
<1>12. \A l \in 0 .. max_level_ :
         Members(l)' = IF l = lvl THEN Members(lvl) \ {node} ELSE Members(l)
  <2> SUFFICES ASSUME NEW l \in 0 .. max_level_, NEW n \in Nodes
               PROVE  OnLevel(n, l)' <=> OnLevel(n, l) /\ ~(l = lvl /\ n = node)
    BY <1>2 DEF Members
  <2> QED
    BY <1>1, <1>2 DEF OnLevel, Inserting, Levels
<1>13. \A m, n \in alive : key[m] = key[n] => m = n
  BY DEF Inv, KeysUnique
<1>14. ASSUME NEW l \in 0 .. max_level_, l = lvl, NEW n \in Members(l)' \cup {Head}
       PROVE  LeadsToNext(n, l)'
  <2>1. Members(l)' = Members(lvl) \ {node}
    BY <1>12, <1>14
  <2>2. n \in Members(lvl) \cup {Head} /\ n # node
    BY <1>2, <2>1
  <2>3. CASE n = u
    <3>1. \A m \in Members(lvl) : m # node /\ Precedes(u, m) => Precedes(node, m)
      BY <1>2, <1>4, <1>5, <1>6, <1>7, <1>13 DEF LeadsToNext, Precedes
    <3>2. LeadsToNext(node, lvl)
      BY <1>6, <1>7
    <3>3. s # Null => s \in Members(lvl) /\ s # node /\ Precedes(u, s)
      BY <1>2, <1>4, <1>5, <1>7, <3>2 DEF LeadsToNext, Precedes, Before
    <3> QED
      BY <1>1, <1>10, <1>14, <2>1, <2>3, <3>1, <3>2, <3>3 DEF LeadsToNext, Precedes
  <2>4. CASE n # u
    <3>1. forward'[n][lvl] = forward[n][lvl]
      BY <1>2, <1>5, <1>9, <2>2, <2>4
    <3>2. LeadsToNext(n, lvl)
      BY <1>6, <2>2
    <3>3. LeadsToNext(u, lvl)
      BY <1>4, <1>6
    <3>4. forward[n][lvl] # node
      <4> SUFFICES ASSUME forward[n][lvl] = node PROVE FALSE
        OBVIOUS
      <4>1. Precedes(n, node) /\ Precedes(u, node)
        BY <1>2, <3>2, <3>3 DEF LeadsToNext
      <4>2. CASE u = Head
        BY <1>2, <2>2, <2>4, <3>3, <4>1, <4>2 DEF LeadsToNext, Precedes
      <4>3. CASE n = Head
        BY <1>2, <1>4, <2>4, <3>2, <4>1, <4>3 DEF LeadsToNext, Precedes
      <4>4. CASE u # Head /\ n # Head
        <5>1. Precedes(u, n) \/ Precedes(n, u)
          BY <1>4, <1>5, <1>13, <2>2, <2>4, <4>4 DEF Precedes
        <5> QED
          BY <1>2, <1>4, <2>2, <3>2, <3>3, <4>1, <4>4, <5>1 DEF LeadsToNext
      <4> QED
        BY <4>2, <4>3, <4>4
    <3> QED
      BY <1>1, <1>14, <2>1, <3>1, <3>2, <3>4 DEF LeadsToNext, Precedes
  <2> QED
    BY <2>3, <2>4
<1>15. LevelsOrdered'
  <2> SUFFICES ASSUME NEW l \in 0 .. max_level_', NEW n \in Members(l)' \cup {Head}
               PROVE  LeadsToNext(n, l)'
    BY DEF LevelsOrdered
  <2>1. CASE l = lvl
    BY <1>1, <1>14, <2>1
  <2>2. CASE l # lvl
    <3>1. l \in 0 .. max_level_ /\ l \in Levels /\ Members(l)' = Members(l)
      BY <1>1, <1>2, <1>12, <2>2 DEF Levels
    <3>2. LeadsToNext(n, l) /\ n \in Nodes \cup {Head}
      BY <3>1 DEF Inv, LevelsOrdered, Members
    <3>3. forward'[n][l] = forward[n][l]
      BY <1>9, <2>2, <3>1, <3>2
    <3> QED
      BY <1>1, <3>1, <3>2, <3>3 DEF LeadsToNext, Precedes
  <2> QED
    BY <2>1, <2>2
<1>16. KeysUnique' /\ RequestInv' /\ FindInv' /\ InsertInv'
  BY <1>1, <1>2 DEF Inv, KeysUnique, RequestInv, FindInv, InsertInv, Inserting
<1>17. PredsFrom(lvl)'
  <2> SUFFICES ASSUME NEW j \in lvl + 1 .. max_level_ PROVE IsPred(update[j], j)'
    BY <1>1 DEF PredsFrom
  <2>1. j \in 0 .. max_level_ /\ j \in Levels /\ j # lvl /\ j \in lvl .. max_level_
    BY <1>2 DEF Levels
  <2>2. IsPred(update[j], j) /\ Members(j)' = Members(j)
    BY <1>3, <1>12, <2>1
  <2>3. forward'[update[j]][j] = forward[update[j]][j]
    BY <1>9, <2>1, <2>2 DEF IsPred, Members
  <2> QED
    BY <1>1, <2>2, <2>3 DEF IsPred, Before
<1>18. DeleteInv'
  <2>1. lvl' <= max_level_ + 1 /\ lvl' <= node_level[node] + 1
    BY <1>1, <1>2, <1>7 DEF Levels, Inv, TypeOK
  <2> QED
    BY <1>1, <1>2, <1>17, <2>1 DEF DeleteInv
<1> QED
  BY <1>11, <1>15, <1>16, <1>18 DEF Inv

\* The loop of delete_element ends: no level in use still holds the node.
LEMMA UnlinkedInv == Inv /\ Unlink /\ ~LinkedHere => Inv'
<1> SUFFICES ASSUME Inv, Unlink, ~LinkedHere PROVE Inv'
  OBVIOUS
<1> USE SkipListAssumption DEF SkipListAssumption
<1>1. /\ pc = "unlink" /\ pc' = "lower" /\ heap' = heap /\ lvl' = lvl
      /\ max_level_' = max_level_ /\ node_count_' = node_count_ /\ mtx' = mtx
      /\ args' = args /\ current' = current /\ update' = update /\ node' = node
  BY DEF Unlink, heap
<1>2. TypeOK'
  BY <1>1 DEF Inv, TypeOK, heap, args
<1>3. /\ node \in alive /\ node \in Nodes /\ key[node] = wkey /\ wkey \in Int
      /\ max_level_ \in Levels /\ lvl \in Nat /\ node_level[node] \in Levels
  BY <1>1 DEF Inv, DeleteInv, TypeOK, Levels
<1>4. lvl > node_level[node] \/ lvl > max_level_
  <2> SUFFICES ASSUME lvl <= node_level[node], lvl <= max_level_ PROVE FALSE
    BY <1>3 DEF Levels
  <2> DEFINE u == update[lvl]
             s == forward[u][lvl]
  <2>1. IsPred(u, lvl) /\ lvl \in 0 .. max_level_
    BY <1>1, <1>3 DEF Inv, DeleteInv, PredsFrom, Levels
  <2>2. node \in Members(lvl)
    BY <1>1, <1>3 DEF Members, OnLevel, Inserting
  <2>3. LeadsToNext(u, lvl)
    BY <2>1 DEF IsPred, Inv, LevelsOrdered
  <2>4. Precedes(u, node)
    BY <1>3, <2>1 DEF IsPred, Before, Precedes
  <2>5. s # node
    BY <1>3, <2>1 DEF LinkedHere
  <2>6. s # Null /\ s \in Members(lvl) /\ s \in alive /\ key[s] \in Int
    BY <2>2, <2>3, <2>4 DEF LeadsToNext, Members, OnLevel, Inv, TypeOK
  <2>7. Precedes(node, s)
    BY <1>3, <2>1, <2>5, <2>6 DEF IsPred, Inv, KeysUnique, Precedes
  <2> QED
    BY <2>2, <2>3, <2>4, <2>6, <2>7 DEF LeadsToNext
<1>5. lvl > 0
  <2> SUFFICES ASSUME lvl = 0 PROVE FALSE
    BY <1>3
  <2> QED
    BY <1>3, <1>4 DEF Levels
<1>6. (\A l : Members(l)' = Members(l)) /\ forward' = forward /\ key' = key
  BY <1>1 DEF Members, OnLevel, Inserting, heap
<1>7. LevelsOrdered'
  BY <1>1, <1>6 DEF Inv, LevelsOrdered, LeadsToNext, Precedes
<1>8. KeysUnique' /\ RequestInv' /\ FindInv' /\ InsertInv'
  BY <1>1 DEF Inv, KeysUnique, RequestInv, FindInv, InsertInv, Inserting, heap, args
<1>9. DeleteInv'
  BY <1>1, <1>3, <1>4, <1>5 DEF DeleteInv, heap, args
<1> QED
  BY <1>2, <1>7, <1>8, <1>9 DEF Inv

LEMMA LowerLevelInv == Inv /\ LowerLevel => Inv'
<1> SUFFICES ASSUME Inv, LowerLevel PROVE Inv'
  OBVIOUS
<1> USE SkipListAssumption DEF SkipListAssumption
<1>1. /\ pc = "lower" /\ pc' = pc /\ heap' = heap /\ args' = args /\ locals' = locals
      /\ node' = node /\ lvl' = lvl /\ node_count_' = node_count_ /\ mtx' = mtx
      /\ max_level_ > 0 /\ max_level_' = max_level_ - 1 /\ max_level_ \in Levels
      /\ max_level_' \in Levels /\ max_level_' <= max_level_
  BY DEF LowerLevel, TopLevelEmpty, locals, Inv, TypeOK, Levels
<1>2. TypeOK'
  BY <1>1 DEF Inv, TypeOK, heap, args, locals
<1>3. (\A l : Members(l)' = Members(l)) /\ forward' = forward /\ key' = key
  BY <1>1 DEF Members, OnLevel, Inserting, heap
<1>4. LevelsOrdered'
  BY <1>1, <1>2, <1>3, LevelsFrame DEF Inv
<1>5. KeysUnique' /\ RequestInv' /\ FindInv' /\ InsertInv'
  BY <1>1 DEF Inv, KeysUnique, RequestInv, FindInv, InsertInv, Inserting, heap, args
<1>6. DeleteInv'
  BY <1>1 DEF Inv, DeleteInv, heap, args, TypeOK, Levels
<1> QED
  BY <1>2, <1>4, <1>5, <1>6 DEF Inv

LEMMA FreeNodeInv == Inv /\ FreeNode => Inv'
<1> SUFFICES ASSUME Inv, FreeNode PROVE Inv'
  OBVIOUS
<1> USE SkipListAssumption DEF SkipListAssumption
<1>1. /\ pc = "lower" /\ alive' = alive \ {node} /\ max_level_' = max_level_
      /\ key' = [key EXCEPT ![node] = 0] /\ value' = [value EXCEPT ![node] = Null]
      /\ node_level' = [node_level EXCEPT ![node] = 0]
      /\ forward' = [forward EXCEPT ![node] = [l \in Levels |-> Null]]
      /\ node' = Null /\ node_count_' = node_count_ - 1
  BY DEF FreeNode, Unlock
<1>2. /\ node \in alive /\ node \in Nodes /\ max_level_ \in Levels
      /\ lvl > node_level[node] \/ lvl > max_level_
      /\ lvl \in Nat /\ node_level[node] \in Levels
  BY <1>1 DEF Inv, DeleteInv, TypeOK, Levels
<1>3. TypeOK'
  <2>1. forward' \in [Nodes \cup {Head} -> [Levels -> Nodes \cup {Null}]]
    BY <1>1 DEF Inv, TypeOK
  <2>2. mtx' \in BOOLEAN
    BY DEF FreeNode, Unlock
  <2> QED
    BY <1>1, <1>2, <2>1, <2>2 DEF Inv, TypeOK, FreeNode, Unlock, Levels, NoUpdate
<1>4. \A m \in Nodes \cup {Head} : m # node => forward'[m] = forward[m]
  BY <1>1 DEF Inv, TypeOK
<1>5. \A m \in Nodes : m # node => key'[m] = key[m] /\ node_level'[m] = node_level[m]
  BY <1>1 DEF Inv, TypeOK
<1>6. \A l \in 0 .. max_level_ : Members(l)' = Members(l) /\ node \notin Members(l)
  <2> SUFFICES ASSUME NEW l \in 0 .. max_level_, NEW n \in Nodes
               PROVE  (OnLevel(n, l)' <=> OnLevel(n, l)) /\ ~OnLevel(node, l)
    BY <1>2 DEF Members
  <2>1. ~OnLevel(node, l)
    BY <1>1, <1>2 DEF OnLevel, Inserting, Levels
  <2> QED
    BY <1>1, <1>5, <2>1 DEF OnLevel
<1>7. LevelsOrdered'
  <2>1. \A l : Members(l) \subseteq Nodes
    BY DEF Members
  <2>2. max_level_' <= max_level_
    BY <1>1, <1>2 DEF Levels
  <2>3. \A l \in 0 .. max_level_' :
           /\ Members(l)' = Members(l)
           /\ \A n \in Members(l) : key'[n] = key[n]
           /\ \A n \in Members(l) \cup {Head} : forward'[n][l] = forward[n][l]
    BY <1>1, <1>2, <1>4, <1>5, <1>6, <2>1
  <2> QED
    BY <1>3, <2>2, <2>3, LevelsFrame DEF Inv
<1>8. KeysUnique'
  BY <1>1, <1>5 DEF Inv, KeysUnique, TypeOK
<1>9. RequestInv' /\ FindInv' /\ InsertInv' /\ DeleteInv'
  BY DEF FreeNode, Unlock, RequestInv, FindInv, InsertInv, DeleteInv, Inserting
<1> QED
  BY <1>3, <1>7, <1>8, <1>9 DEF Inv

LEMMA StutterInv == Inv /\ UNCHANGED vars => Inv'
<1> SUFFICES ASSUME Inv, UNCHANGED vars PROVE Inv'
  OBVIOUS
<1>1. heap' = heap /\ max_level_' = max_level_ /\ node_count_' = node_count_
      /\ mtx' = mtx /\ pc' = pc /\ args' = args /\ locals' = locals
  BY DEF vars
<1> USE <1>1 DEF heap, args, locals
<1>2. TypeOK' /\ KeysUnique' /\ RequestInv'
  BY DEF Inv, TypeOK, KeysUnique, RequestInv, Inserting
<1>3. \A l : Members(l)' = Members(l)
  BY DEF Members, OnLevel, Inserting
<1>4. LevelsOrdered'
  BY <1>3 DEF Inv, LevelsOrdered, LeadsToNext, Precedes
<1>5. FindInv' /\ InsertInv' /\ DeleteInv'
  BY <1>3 DEF Inv, FindInv, InsertInv, DeleteInv, PredsFrom, IsPred, Before, Inserting
<1> QED
  BY <1>2, <1>4, <1>5 DEF Inv

LEMMA NextInv == Inv /\ [Next]_vars => Inv'
<1> SUFFICES ASSUME Inv, [Next]_vars PROVE Inv'
  OBVIOUS
<1>1. ASSUME NEW k \in Keys, BeginDelete(k) PROVE Inv'
  BY <1>1, LockInv DEF BeginDelete
<1>2. ASSUME NEW k \in Keys, NEW v \in Values, BeginInsert(k, v) PROVE Inv'
  BY <1>2, LockInv DEF BeginInsert
<1>3. CASE InsertExists
  BY <1>3, ReturnInv DEF InsertExists
<1>4. CASE DeleteAbsent
  BY <1>4, ReturnInv DEF DeleteAbsent
<1>5. CASE Unlink
  BY <1>5, UnlinkInv, UnlinkedInv
<1> QED
  BY <1>1, <1>2, <1>3, <1>4, <1>5, StepRightInv, StepDownInv, CreateNodeInv,
     NewThrowsInv, LinkAInv, LinkBInv, PublishInv, DeleteFoundInv, LowerLevelInv,
     FreeNodeInv, StutterInv
     DEF Next, InCriticalSection

-------------------------------------------------------------------------------
\* Inv is an invariant of the specification.
THEOREM Invariance == Spec => []Inv
<1>1. Init => Inv
  BY InitInv
<1>2. Inv /\ [Next]_vars => Inv'
  BY NextInv
<1> QED
  BY <1>1, <1>2, PTL DEF Spec

\* Every variable keeps its type: in particular lvl stays within the forward
\* arrays of the nodes that insert_element links.
THEOREM TypeCorrect == Spec => []TypeOK
<1>1. Inv => TypeOK
  BY DEF Inv
<1> QED
  BY <1>1, Invariance, PTL

\* Between any two stores of insert_element and delete_element, every level in
\* use is a sorted list of exactly the nodes linked on it.
THEOREM LevelsStayOrdered == Spec => []LevelsOrdered
<1>1. Inv => LevelsOrdered
  BY DEF Inv
<1> QED
  BY <1>1, Invariance, PTL

\* No two nodes of the heap carry the same key.
THEOREM KeysStayUnique == Spec => []KeysUnique
<1>1. Inv => KeysUnique
  BY DEF Inv
<1> QED
  BY <1>1, Invariance, PTL

LEMMA InvMemorySafe == Inv => WriterMemorySafe
<1> SUFFICES ASSUME Inv PROVE WriterMemorySafe
  OBVIOUS
<1> USE SkipListAssumption DEF SkipListAssumption
<1>1. \A l \in 0 .. max_level_ : \A n \in Members(l) \cup {Head} :
        Readable(n, l) /\ forward[n][l] \in alive \cup {Null}
  <2> SUFFICES ASSUME NEW l \in 0 .. max_level_, NEW n \in Members(l) \cup {Head}
               PROVE  Readable(n, l) /\ forward[n][l] \in alive \cup {Null}
    OBVIOUS
  <2>1. LeadsToNext(n, l)
    BY DEF Inv, LevelsOrdered
  <2> QED
    BY <2>1 DEF LeadsToNext, Readable, Members, OnLevel
<1>2. max_level_ \in Nat /\ lvl \in Nat
  BY DEF Inv, TypeOK, Levels
<1>3. CASE pc = "find"
  BY <1>1, <1>2, <1>3 DEF WriterMemorySafe, Inv, FindInv
<1>4. CASE pc = "check"
  <2>1. IsPred(current, 0)
    BY <1>2, <1>4 DEF Inv, FindInv, PredsFrom
  <2> QED
    BY <1>1, <1>2, <1>4, <2>1 DEF WriterMemorySafe, IsPred
<1>5. CASE pc \in {"linkA", "linkB"}
  <2>1. /\ node \in alive /\ lvl <= node_level[node] /\ lvl \in 0 .. max_level_
        /\ IsPred(update[lvl], lvl)
    BY <1>2, <1>5 DEF Inv, TypeOK, Levels, InsertInv, Inserting, PredsFrom
  <2> QED
    BY <1>1, <1>5, <2>1 DEF WriterMemorySafe, IsPred, Readable
<1>6. CASE pc = "unlink"
  <2> SUFFICES ASSUME lvl <= max_level_
               PROVE  Readable(update[lvl], lvl) /\ (LinkedHere => Readable(node, lvl))
    BY <1>6 DEF WriterMemorySafe
  <2>1. lvl \in 0 .. max_level_ /\ IsPred(update[lvl], lvl)
    BY <1>2, <1>6 DEF Inv, DeleteInv, PredsFrom
  <2>2. LeadsToNext(update[lvl], lvl)
    BY <2>1 DEF IsPred, Inv, LevelsOrdered
  <2>3. LinkedHere => node \in Members(lvl)
    BY <1>6, <2>2 DEF LinkedHere, LeadsToNext, Inv, DeleteInv, TypeOK
  <2> QED
    BY <1>1, <2>1, <2>3 DEF IsPred
<1>7. CASE pc = "lower"
  BY <1>7 DEF WriterMemorySafe, Inv, DeleteInv
<1>8. CASE pc \in {"idle", "publish", "threw"}
  BY <1>8 DEF WriterMemorySafe
<1> QED
  BY <1>3, <1>4, <1>5, <1>6, <1>7, <1>8 DEF Inv, TypeOK

\* The thread that holds mtx never touches a deleted node, nullptr or memory
\* behind a forward array.
THEOREM WriterStaysMemorySafe == Spec => []WriterMemorySafe
  BY Invariance, InvMemorySafe, PTL

LEMMA NextNeverRises == Inv /\ [Next]_vars => [max_level_' <= max_level_]_vars
<1> SUFFICES ASSUME Inv, Next PROVE max_level_' <= max_level_
  OBVIOUS
<1>1. max_level_ \in Levels /\ max_level_ \in Int
  BY DEF Inv, TypeOK, Levels
<1>2. CASE CreateNode
  BY <1>1, <1>2 DEF CreateNode, RandomLevels
<1>3. CASE Publish
  BY <1>1, <1>3 DEF Publish, Inv, InsertInv, Inserting
<1>4. CASE LowerLevel
  BY <1>1, <1>4 DEF LowerLevel
<1>5. ASSUME UNCHANGED max_level_ PROVE max_level_' <= max_level_
  BY <1>1, <1>5
<1>6. UNCHANGED max_level_ \/ CreateNode \/ Publish \/ LowerLevel
  BY DEF Next, InCriticalSection, BeginDelete, BeginInsert, Lock, StepRight, StepDown,
         InsertExists, NewThrows, LinkA, LinkB, DeleteAbsent, DeleteFound, Unlink,
         FreeNode
<1> QED
  BY <1>2, <1>3, <1>4, <1>5, <1>6

\* max_level_ never rises, which is what keeps the pointers to deleted nodes
\* that delete_element leaves above max_level_ from ever being followed.
THEOREM MaxLevelOnlyFalls == Spec => MaxLevelNeverRises
  BY Invariance, NextNeverRises, PTL DEF Spec, MaxLevelNeverRises

-------------------------------------------------------------------------------
(* How long an operation holds mtx. *)

\* A live node holds the key and the value of the insertion that made it.
Stored == \A n \in alive : key[n] \in Keys /\ value[n] \in Values

\* No step gives a live node another key or value.
LEMMA StoredInv == ASSUME Inv, Stored, [Next]_vars PROVE Stored'
<1>1. CASE CreateNode
  <2>1. PICK n \in Nodes \ alive :
          /\ alive' = alive \cup {n}
          /\ key' = [key EXCEPT ![n] = wkey]
          /\ value' = [value EXCEPT ![n] = wvalue]
    BY <1>1 DEF CreateNode
  <2>2. wkey \in Keys /\ wvalue \in Values
    BY <1>1 DEF CreateNode, Inv, RequestInv
  <2> QED BY <2>1, <2>2 DEF Stored, Inv, TypeOK
<1>2. CASE FreeNode
  <2>1. /\ alive' = alive \ {node}
        /\ key' = [key EXCEPT ![node] = 0] /\ value' = [value EXCEPT ![node] = Null]
    BY <1>2 DEF FreeNode
  <2> QED BY <2>1 DEF Stored, Inv, TypeOK
<1>3. CASE ~CreateNode /\ ~FreeNode
  <2>1. UNCHANGED <<alive, key, value>>
    BY <1>3 DEF Next, InCriticalSection, BeginDelete, BeginInsert, Lock, StepRight, StepDown,
                InsertExists, NewThrows, LinkA, LinkB, Publish, DeleteAbsent, DeleteFound, Unlink,
                LowerLevel, vars, heap
  <2> QED BY <2>1 DEF Stored
<1> QED BY <1>1, <1>2, <1>3

\* The keys that the descent may still step over.
KeysBefore == {k \in Keys : (current = Head \/ key[current] < k) /\ k < wkey}

\* A bound on the steps that the thread holding mtx has still to make.
StepsLeft ==
  CASE pc = "find" -> lvl + Cardinality(KeysBefore) + 2 * MaxLevel + 5
    [] pc = "check" -> 2 * MaxLevel + 4
    [] pc = "linkA" -> 2 * (node_level[node] - lvl) + 3
    [] pc = "linkB" -> 2 * (node_level[node] - lvl) + 2
    [] pc = "publish" -> 1
    [] pc = "unlink" -> 2 * max_level_ - lvl + 3
    [] pc = "lower" -> max_level_ + 1
    [] OTHER -> 0

\* Every step of an operation brings it nearer to its end.
HeldBriefly ==
  [][IF mtx THEN StepsLeft' \in 0 .. StepsLeft - 1
            ELSE StepsLeft' \in 0 .. 3 * MaxLevel + Cardinality(Keys) + 5]_vars

LEMMA FewerKeys ==
  ASSUME IsFiniteSet(Keys), NEW S \in SUBSET Keys, NEW T \in SUBSET S
  PROVE  /\ Cardinality(S) \in Nat /\ Cardinality(T) \in Nat
         /\ Cardinality(S) <= Cardinality(Keys)
         /\ S # T => Cardinality(T) < Cardinality(S)
<1>1. IsFiniteSet(S) /\ Cardinality(S) <= Cardinality(Keys)
  BY FS_Subset
<1>2. IsFiniteSet(T) /\ Cardinality(T) <= Cardinality(S) /\ (Cardinality(S) = Cardinality(T) => S = T)
  BY <1>1, FS_Subset
<1>3. Cardinality(S) \in Nat /\ Cardinality(T) \in Nat /\ Cardinality(Keys) \in Nat
  BY <1>1, <1>2, FS_CardinalityType
<1> QED BY <1>1, <1>2, <1>3

\* StepRight leaves a key behind: pointers lead to larger keys only.
LEMMA StepRightLeaves ==
  ASSUME Inv, Stored, StepRight, IsFiniteSet(Keys)
  PROVE  Cardinality(KeysBefore') < Cardinality(KeysBefore)
<1> DEFINE n == forward[current][lvl]
<1>1. /\ pc = "find" /\ n # Null /\ key[n] < wkey /\ current' = n /\ key' = key /\ wkey' = wkey
  BY DEF StepRight, KeepGoing, heap, args
<1>2. /\ current \in Members(lvl) \cup {Head} /\ LeadsToNext(current, lvl)
      /\ wkey \in Int /\ key \in [Nodes -> Int]
  BY <1>1 DEF Inv, FindInv, LevelsOrdered, TypeOK, Levels
<1>3. n \in Members(lvl) /\ Precedes(current, n)
  BY <1>1, <1>2 DEF LeadsToNext
<1>4. n \in Nodes /\ n # Head /\ key[n] \in Keys /\ (current # Head => key[current] \in Int)
  BY <1>2, <1>3, SkipListAssumption DEF SkipListAssumption, Members, OnLevel, Stored
<1>5. key[n] \in KeysBefore /\ key[n] \notin KeysBefore'
  BY <1>1, <1>2, <1>3, <1>4 DEF KeysBefore, Precedes
<1>6. KeysBefore' \subseteq KeysBefore
  <2> SUFFICES ASSUME NEW k \in Keys, key[n] < k, k < wkey
               PROVE  current = Head \/ key[current] < k
    BY <1>1, <1>4 DEF KeysBefore
  <2>1. k \in Int
    BY SkipListAssumption DEF SkipListAssumption
  <2> QED BY <1>2, <1>3, <1>4, <2>1 DEF Precedes
<1> QED BY <1>5, <1>6, FewerKeys DEF KeysBefore

LEMMA StepsFall ==
  ASSUME Inv, Inv', Stored, IsFiniteSet(Keys), Next
  PROVE  IF mtx THEN StepsLeft' \in 0 .. StepsLeft - 1
                ELSE StepsLeft' \in 0 .. 3 * MaxLevel + Cardinality(Keys) + 5
<1>1. MaxLevel \in Nat /\ max_level_ \in 0 .. MaxLevel /\ lvl \in 0 .. MaxLevel + 1
  BY SkipListAssumption DEF SkipListAssumption, Inv, TypeOK, Levels
<1>2. MaxLevel \in Nat /\ max_level_' \in 0 .. MaxLevel /\ lvl' \in 0 .. MaxLevel + 1
  BY SkipListAssumption DEF SkipListAssumption, Inv, TypeOK, Levels
<1>3. /\ Cardinality(KeysBefore) \in Nat /\ Cardinality(KeysBefore') \in 0 .. Cardinality(Keys)
      /\ Cardinality(Keys) \in Nat
  <2>1. KeysBefore \subseteq Keys /\ KeysBefore' \subseteq Keys
    BY DEF KeysBefore
  <2> QED BY <2>1, FewerKeys
<1>4. node \in Nodes => node_level[node] \in 0 .. MaxLevel
  BY DEF Inv, TypeOK, Levels
<1>5. node' \in Nodes => node_level'[node'] \in 0 .. MaxLevel
  BY DEF Inv, TypeOK, Levels
<1> HIDE DEF KeysBefore
<1>6. CASE ~mtx
  <2>1. pc' = "find" /\ lvl' = max_level_ /\ mtx'
    BY <1>6 DEF Next, BeginDelete, BeginInsert, Lock, InCriticalSection, StepRight, StepDown,
        InsertExists, CreateNode, NewThrows, LinkA, LinkB, Publish, DeleteAbsent, DeleteFound, Unlink,
        LowerLevel, FreeNode, Inv, RequestInv
  <2>2. StepsLeft' = max_level_ + Cardinality(KeysBefore') + 2 * MaxLevel + 5
    BY <2>1 DEF StepsLeft
  <2> QED BY <1>1, <1>3, <1>6, <2>2
<1>7. CASE mtx
  <2> SUFFICES StepsLeft' \in 0 .. StepsLeft - 1
    BY <1>7
  <2>1. CASE StepRight
    <3>1. pc = "find" /\ pc' = "find" /\ lvl' = lvl
      BY <2>1 DEF StepRight
    <3> QED BY <1>1, <1>3, <2>1, <3>1, StepRightLeaves DEF StepsLeft
  <2>2. CASE StepDown
    <3>1. pc = "find" /\ UNCHANGED <<current, key, wkey>>
      BY <2>2 DEF StepDown, heap, args
    <3>2. KeysBefore' = KeysBefore
      BY <3>1 DEF KeysBefore
    <3> QED BY <1>1, <1>3, <2>2, <3>1, <3>2 DEF StepsLeft, StepDown
  <2>3. CASE InsertExists \/ DeleteAbsent \/ NewThrows
    BY <1>1, <2>3 DEF InsertExists, DeleteAbsent, NewThrows, Unlock, StepsLeft
  <2>4. CASE CreateNode
    <3>1. pc = "check" /\ pc' = "linkA" /\ lvl' = 0 /\ node' \in Nodes
      BY <2>4 DEF CreateNode
    <3> QED BY <1>1, <1>5, <3>1 DEF StepsLeft
  <2>5. CASE LinkA
    <3>1. /\ pc = "linkA" /\ pc' = "linkB" /\ UNCHANGED <<lvl, node, node_level>>
          /\ node \in Nodes /\ lvl <= node_level[node]
      BY <2>5 DEF LinkA, locals, Inv, InsertInv, Inserting, TypeOK
    <3> QED BY <1>1, <1>4, <3>1 DEF StepsLeft
  <2>6. CASE LinkB
    <3>1. /\ pc = "linkB" /\ pc' = (IF lvl < node_level[node] THEN "linkA" ELSE "publish")
          /\ lvl' = lvl + 1 /\ UNCHANGED <<node, node_level>>
          /\ node \in Nodes /\ lvl <= node_level[node]
      BY <2>6 DEF LinkB, Inv, InsertInv, Inserting, TypeOK
    <3> QED BY <1>1, <1>4, <3>1 DEF StepsLeft
  <2>7. CASE Publish
    BY <2>7 DEF Publish, Unlock, StepsLeft
  <2>8. CASE DeleteFound
    <3>1. pc = "check" /\ pc' = "unlink" /\ lvl' = 0 /\ max_level_' = max_level_
      BY <2>8 DEF DeleteFound
    <3> QED BY <1>1, <3>1 DEF StepsLeft
  <2>9. CASE Unlink
    <3>1. pc = "unlink" /\ lvl <= max_level_ + 1 /\ max_level_' = max_level_
      BY <2>9 DEF Unlink, Inv, DeleteInv
    <3>2. \/ pc' = "unlink" /\ lvl' = lvl + 1 /\ lvl <= max_level_
          \/ pc' = "lower"
      BY <2>9 DEF Unlink, LinkedHere
    <3> QED BY <1>1, <3>1, <3>2 DEF StepsLeft
  <2>10. CASE LowerLevel
    BY <1>1, <2>10 DEF LowerLevel, TopLevelEmpty, StepsLeft
  <2>11. CASE FreeNode
    BY <1>1, <2>11 DEF FreeNode, Unlock, StepsLeft
  <2> QED
    BY <1>7, <2>1, <2>2, <2>3, <2>4, <2>5, <2>6, <2>7, <2>8, <2>9, <2>10, <2>11
    DEF Next, BeginDelete, BeginInsert, Lock, InCriticalSection
<1> QED BY <1>6, <1>7

\* A thread that has locked mtx holds it for at most 3 MaxLevel + |Keys| + 5 of
\* its own steps, whatever the list looks like: the descent never goes back,
\* and the loops that link, unlink and lower a level are bounded by max_level_.
\* Only `new` can keep it from unlocking, by throwing.
THEOREM LockHeldBriefly == IsFiniteSet(Keys) => (Spec => HeldBriefly)
<1> SUFFICES ASSUME IsFiniteSet(Keys) PROVE Spec => HeldBriefly
  OBVIOUS
<1>1. Init => Stored
  BY DEF Init, Stored
<1>2. Inv /\ Stored /\ [Next]_vars => Stored'
  BY StoredInv
<1>3. Inv /\ Inv' /\ Stored /\ [Next]_vars =>
        [IF mtx THEN StepsLeft' \in 0 .. StepsLeft - 1
                ELSE StepsLeft' \in 0 .. 3 * MaxLevel + Cardinality(Keys) + 5]_vars
  BY StepsFall
<1> QED BY <1>1, <1>2, <1>3, Invariance, PTL DEF Spec, HeldBriefly

-------------------------------------------------------------------------------
(***************************************************************************)
(* The list implements OrderedMap.  An insertion takes effect at the LinkB *)
(* step on level 0, a deletion at the Unlink step on level 0; every other  *)
(* step leaves the map alone, calls an operation or returns from it.       *)
(***************************************************************************)
Applied == node # Null /\ lvl > 0

\* The map is a function of level 0 and of the fields of its members.
LEMMA ContentsFrame ==
  ASSUME Members(0)' = Members(0),
         \A n \in Members(0) : key'[n] = key[n] /\ value'[n] = value[n]
  PROVE  Contents' = Contents
BY DEF Contents

LEMMA ListBound ==
  ASSUME Inv, pc = "check"
  PROVE  Map!Bound(wkey) <=> Found
<1> USE SkipListAssumption DEF SkipListAssumption
<1>1. Members(0) = alive
  BY DEF Inv, RequestInv, TypeOK, Members, OnLevel, Levels
<1>2. ASSUME Found PROVE Map!Bound(wkey)
  <2> DEFINE n == forward[current][0]
  <2>1. n \in Members(0) /\ key[n] = wkey
    BY <1>1, <1>2, FoundDecides
  <2>2. <<key[n], value[n]>> \in Contents
    BY <2>1 DEF Contents
  <2> QED
    BY <2>1, <2>2 DEF Map!Bound
<1>3. ASSUME Map!Bound(wkey) PROVE Found
  <2>1. PICK n \in Members(0) : key[n] = wkey
    BY <1>3 DEF Map!Bound, Contents
  <2> QED
    BY <1>1, <2>1, FoundDecides
<1> QED
  BY <1>2, <1>3

LEMMA CallRefines ==
  ASSUME Inv, NEW k \in Keys, NEW v \in Values \cup {Null},
         NEW o \in {"insert", "delete"},
         o = "insert" => v \in Values, o = "delete" => v = Null, Lock(o, k, v)
  PROVE  Map!Next
<1>1. pc = "idle" /\ node = Null /\ node' = Null /\ heap' = heap
  BY DEF Inv, RequestInv, TypeOK, Lock
<1>2. args = Map!NoRequest /\ args' = <<o, k, v>>
  BY <1>1 DEF Inv, RequestInv, Lock, args, Map!NoRequest
<1>3. <<o, k, v>> \in Map!Requests
  BY DEF Map!Requests
<1>4. Contents' = Contents
  <2>1. Members(0)' = Members(0)
    BY <1>1, SkipListAssumption DEF SkipListAssumption, Members, OnLevel, heap
  <2> QED
    BY <1>1, <2>1, ContentsFrame DEF heap
<1>5. Applied' = Applied
  BY <1>1 DEF Applied
<1> QED
  BY <1>2, <1>3, <1>4, <1>5 DEF Map!Next, Map!Call, Applied

LEMMA EmptyReturnRefines ==
  ASSUME Inv, pc = "check", op \in {"insert", "delete"}, Found <=> op = "insert",
         Unlock, heap' = heap
  PROVE  Map!Next
<1>1. node = Null /\ node' = Null /\ heap' = heap
  BY DEF Inv, RequestInv, Unlock
<1>2. args' = Map!NoRequest /\ args # Map!NoRequest
  BY DEF Unlock, args, Map!NoRequest
<1>3. Contents' = Contents
  <2>1. Members(0)' = Members(0)
    BY <1>1, SkipListAssumption DEF SkipListAssumption, Members, OnLevel, heap
  <2> QED
    BY <1>1, <2>1, ContentsFrame DEF heap
<1>4. Map!NothingToDo
  BY ListBound DEF Map!NothingToDo, args
<1>5. Applied' = FALSE
  BY <1>1 DEF Applied
<1> QED
  BY <1>2, <1>3, <1>4, <1>5 DEF Map!Next, Map!Return, Applied

\* The descent, a failed allocation and the steps before the first store on
\* level 0 leave the map alone.
LEMMA QuietRefines ==
  ASSUME Inv, StepRight \/ StepDown \/ NewThrows \/ LinkA \/ DeleteFound \/ LowerLevel
              \/ CreateNode \/ (Unlink /\ ~LinkedHere)
  PROVE  UNCHANGED Map!vars
<1> USE SkipListAssumption DEF SkipListAssumption
<1>1. Contents' = Contents
  <2>1. CASE StepRight \/ StepDown \/ NewThrows
    <3>1. node = Null /\ node' = Null /\ heap' = heap
      BY <2>1 DEF Inv, RequestInv, StepRight, StepDown, NewThrows, locals
    <3>2. Members(0)' = Members(0)
      BY <3>1 DEF Members, OnLevel, heap
    <3> QED
      BY <3>1, <3>2, ContentsFrame DEF heap
  <2>2. CASE LinkA \/ LowerLevel \/ (Unlink /\ ~LinkedHere)
    <3>1. /\ node' = node /\ lvl' = lvl /\ alive' = alive /\ key' = key /\ value' = value
          /\ node_level' = node_level /\ Inserting' = Inserting
      BY <2>2 DEF LinkA, LowerLevel, Unlink, locals, heap, Inserting
    <3>2. Members(0)' = Members(0)
      BY <3>1 DEF Members, OnLevel
    <3> QED
      BY <3>1, <3>2, ContentsFrame
  <2>3. CASE DeleteFound
    <3>1. heap' = heap /\ node = Null /\ lvl' = 0 /\ pc' = "unlink"
      BY <2>3 DEF Inv, RequestInv, DeleteFound
    <3>2. Members(0)' = Members(0)
      BY <3>1 DEF Members, OnLevel, heap, Inserting
    <3> QED
      BY <3>1, <3>2, ContentsFrame DEF heap
  <2>4. CASE CreateNode
    <3>1. PICK n \in Nodes \ alive : 
            /\ alive' = alive \cup {n}
            /\ key' = [key EXCEPT ![n] = wkey]
            /\ value' = [value EXCEPT ![n] = wvalue]
            /\ \E r \in RandomLevels : node_level' = [node_level EXCEPT ![n] = r]
            /\ node' = n
      BY <2>4 DEF CreateNode
    <3>2. /\ node = Null /\ lvl' = 0 /\ pc' = "linkA"
          /\ \A m \in alive : /\ key'[m] = key[m] /\ value'[m] = value[m]
                              /\ node_level'[m] = node_level[m]
      BY <2>4, <3>1 DEF CreateNode, Inv, RequestInv, TypeOK
    <3>3. Members(0)' = Members(0)
      BY <3>1, <3>2 DEF Members, OnLevel, Inserting
    <3> QED
      BY <3>2, <3>3, ContentsFrame DEF Members, OnLevel
  <2> QED
    BY <2>1, <2>2, <2>3, <2>4
<1>2. args' = args
  BY DEF StepRight, StepDown, NewThrows, LinkA, DeleteFound, LowerLevel, CreateNode, Unlink
<1>3. Applied' = Applied
  <2>1. CASE StepRight \/ StepDown \/ NewThrows
    BY <2>1 DEF Applied, Inv, RequestInv, StepRight, StepDown, NewThrows, locals
  <2>2. CASE LinkA \/ LowerLevel \/ (Unlink /\ ~LinkedHere)
    BY <2>2 DEF Applied, LinkA, LowerLevel, Unlink, locals
  <2>3. CASE DeleteFound \/ CreateNode
    BY <2>3 DEF Applied, Inv, RequestInv, DeleteFound, CreateNode
  <2> QED
    BY <2>1, <2>2, <2>3
<1> QED
  BY <1>1, <1>2, <1>3 DEF Map!vars, Applied

LEMMA LinkBRefines == Inv /\ LinkB => Map!Next \/ UNCHANGED Map!vars
<1> SUFFICES ASSUME Inv, LinkB PROVE Map!Next \/ UNCHANGED Map!vars
  OBVIOUS
<1> USE SkipListAssumption DEF SkipListAssumption
<1>1. /\ pc = "linkB" /\ pc' \in {"linkA", "publish"} /\ lvl' = lvl + 1 /\ node' = node
      /\ key' = key /\ value' = value /\ node_level' = node_level /\ alive' = alive
      /\ args' = args
  BY DEF LinkB
<1>2. /\ node \in alive /\ node \in Nodes /\ node # Null /\ lvl \in Nat /\ op = "insert"
      /\ key[node] = wkey /\ value[node] = wvalue /\ node_level \in [Nodes -> Levels]
  BY <1>1 DEF Inv, RequestInv, InsertInv, Inserting, TypeOK
<1>3. CASE lvl = 0
  <2>1. Members(0) = alive \ {node}
    BY <1>1, <1>2, <1>3 DEF Members, OnLevel, Inserting, Inv, TypeOK, Levels
  <2>2. Members(0)' = Members(0) \cup {node}
    BY <1>1, <1>2, <1>3 DEF Members, OnLevel, Inserting, Inv, TypeOK, Levels
  <2>3. Contents' = Contents \cup {<<wkey, wvalue>>}
    BY <1>1, <1>2, <2>2 DEF Contents
  <2>4. ~Map!Bound(wkey)
    BY <1>2, <2>1 DEF Map!Bound, Contents, Inv, KeysUnique
  <2>5. Applied' = TRUE /\ ~Applied
    BY <1>1, <1>2, <1>3 DEF Applied
  <2> QED
    BY <1>1, <1>2, <2>3, <2>4, <2>5 DEF Map!Next, Map!Insert, Applied, args
<1>4. CASE lvl > 0
  <2>1. Members(0)' = Members(0)
    BY <1>1, <1>2, <1>4 DEF Members, OnLevel, Inserting
  <2>2. Contents' = Contents
    BY <1>1, <2>1, ContentsFrame
  <2>3. Applied' = Applied
    BY <1>1, <1>2, <1>4 DEF Applied
  <2> QED
    BY <1>1, <2>2, <2>3 DEF Map!vars, Applied
<1> QED
  BY <1>2, <1>3, <1>4

LEMMA UnlinkRefines == Inv /\ Unlink /\ LinkedHere => Map!Next \/ UNCHANGED Map!vars
<1> SUFFICES ASSUME Inv, Unlink, LinkedHere PROVE Map!Next \/ UNCHANGED Map!vars
  OBVIOUS
<1> USE SkipListAssumption DEF SkipListAssumption
<1>1. /\ pc = "unlink" /\ pc' = "unlink" /\ lvl' = lvl + 1 /\ node' = node
      /\ key' = key /\ value' = value /\ node_level' = node_level /\ alive' = alive
      /\ args' = args
  BY DEF Unlink
<1>2. /\ node \in alive /\ node \in Nodes /\ node # Null /\ lvl \in Nat /\ op = "delete"
      /\ key[node] = wkey /\ node_level \in [Nodes -> Levels]
  BY <1>1 DEF Inv, RequestInv, DeleteInv, TypeOK
<1>3. CASE lvl = 0
  <2>1. Members(0) = alive
    BY <1>1, <1>2, <1>3 DEF Members, OnLevel, Inserting, Inv, TypeOK, Levels
  <2>2. Members(0)' = alive \ {node}
    BY <1>1, <1>2, <1>3 DEF Members, OnLevel, Inserting, Inv, TypeOK, Levels
  <2>3. \A n \in alive : key[n] = wkey <=> n = node
    BY <1>2 DEF Inv, KeysUnique
  <2>4. Contents' = {p \in Contents : p[1] # wkey}
    BY <1>1, <2>1, <2>2, <2>3 DEF Contents
  <2>5. Map!Bound(wkey)
    <3>1. <<key[node], value[node]>> \in Contents
      BY <1>2, <2>1 DEF Contents
    <3> QED
      BY <1>2, <3>1 DEF Map!Bound
  <2>6. Applied' = TRUE /\ ~Applied
    BY <1>1, <1>2, <1>3 DEF Applied
  <2> QED
    BY <1>1, <1>2, <2>4, <2>5, <2>6 DEF Map!Next, Map!Delete, Applied, args
<1>4. CASE lvl > 0
  <2>1. Members(0)' = Members(0)
    BY <1>1, <1>2, <1>4 DEF Members, OnLevel, Inserting
  <2>2. Contents' = Contents
    BY <1>1, <2>1, ContentsFrame
  <2>3. Applied' = Applied
    BY <1>1, <1>2, <1>4 DEF Applied
  <2> QED
    BY <1>1, <2>2, <2>3 DEF Map!vars, Applied
<1> QED
  BY <1>2, <1>3, <1>4

LEMMA ReturnRefines == Inv /\ (Publish \/ FreeNode) => Map!Next
<1> SUFFICES ASSUME Inv, Publish \/ FreeNode PROVE Map!Next
  OBVIOUS
<1> USE SkipListAssumption DEF SkipListAssumption
<1>1. /\ node # Null /\ node' = Null /\ lvl \in Nat /\ lvl > 0 /\ node \in alive
      /\ node_level \in [Nodes -> Levels] /\ alive \subseteq Nodes
  BY DEF Publish, FreeNode, Unlock, Inv, RequestInv, InsertInv, DeleteInv, Inserting,
         TypeOK, Levels
<1>2. args' = Map!NoRequest /\ args # Map!NoRequest
  BY DEF Publish, FreeNode, Unlock, args, Map!NoRequest, Inv, RequestInv, Inserting
<1>3. Contents' = Contents
  <2>1. CASE Publish
    <3>1. heap' = heap /\ Inserting
      BY <2>1 DEF Publish, Inserting
    <3>2. Members(0)' = Members(0)
      BY <1>1, <3>1 DEF Members, OnLevel, heap
    <3> QED
      BY <3>1, <3>2, ContentsFrame DEF heap
  <2>2. CASE FreeNode
    <3>1. /\ pc = "lower" /\ alive' = alive \ {node}
          /\ \A m \in Nodes : m # node => /\ key'[m] = key[m] /\ value'[m] = value[m]
                                          /\ node_level'[m] = node_level[m]
      BY <2>2 DEF FreeNode, Inv, TypeOK
    <3>2. Members(0)' = Members(0) /\ node \notin Members(0)
      BY <1>1, <3>1 DEF Members, OnLevel, Inserting
    <3> QED
      BY <3>1, <3>2, ContentsFrame DEF Members
  <2> QED
    BY <2>1, <2>2
<1>4. Applied /\ Applied' = FALSE
  BY <1>1 DEF Applied
<1> QED
  BY <1>2, <1>3, <1>4 DEF Map!Next, Map!Return, Applied

LEMMA NextRefines == Inv /\ [Next]_vars => [Map!Next]_(Map!vars)
<1> SUFFICES ASSUME Inv, [Next]_vars PROVE Map!Next \/ UNCHANGED Map!vars
  OBVIOUS
<1>1. ASSUME NEW k \in Keys, BeginDelete(k) PROVE Map!Next
  BY <1>1, CallRefines DEF BeginDelete
<1>2. ASSUME NEW k \in Keys, NEW v \in Values, BeginInsert(k, v) PROVE Map!Next
  BY <1>2, CallRefines DEF BeginInsert
<1>3. CASE InsertExists
  <2>1. pc = "check" /\ op = "insert" /\ Found /\ Unlock /\ heap' = heap
    BY <1>3 DEF InsertExists
  <2> QED
    BY <2>1, EmptyReturnRefines, Zenon
<1>4. CASE DeleteAbsent
  <2>1. pc = "check" /\ op = "delete" /\ ~Found /\ Unlock /\ heap' = heap
    BY <1>4 DEF DeleteAbsent
  <2> QED
    BY <2>1, EmptyReturnRefines, Zenon
<1>5. CASE UNCHANGED vars
  BY <1>5 DEF vars, heap, args, locals, Map!vars, Contents, Members, OnLevel, Inserting
<1> QED
  BY <1>1, <1>2, <1>3, <1>4, <1>5, QuietRefines, LinkBRefines, UnlinkRefines,
     ReturnRefines DEF Next, InCriticalSection

\* insert_element and delete_element, store by store, implement the atomic map
\* of OrderedMap.
THEOREM Refinement == Spec => ImplementsMap
<1>1. Init => Map!Init
  BY SkipListAssumption
     DEF SkipListAssumption, Init, Map!Init, Map!NoRequest, Contents, Members, OnLevel, args
<1>2. Inv /\ [Next]_vars => [Map!Next]_(Map!vars)
  BY NextRefines
<1> QED
  BY <1>1, <1>2, Invariance, PTL DEF Spec, ImplementsMap, Map!Spec
===============================================================================
