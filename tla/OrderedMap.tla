------------------------------ MODULE OrderedMap ------------------------------
(***************************************************************************)
(* What SkipList<int, std::string> promises its callers: a finite map from *)
(* integer keys to values with atomic operations.  insert_element adds an  *)
(* absent key and leaves a present one alone (it never overwrites a        *)
(* value); delete_element removes a key if it is there.  An operation is   *)
(* called, takes effect in one step, and returns only after its effect or  *)
(* when there is nothing for it to do.  One operation runs at a time, for  *)
(* both hold the mutex; the map is a set of key/value pairs.               *)
(***************************************************************************)
CONSTANTS Keys, Values, Null

VARIABLES
  dict,      \* the key/value pairs stored
  request,   \* the operation in progress: <<name, key, value>>
  applied    \* has it taken effect

vars == <<dict, request, applied>>

NoRequest == <<"none", 0, Null>>

Requests ==
  ({"insert"} \X Keys \X Values) \cup ({"delete"} \X Keys \X {Null})

Bound(k) == \E p \in dict : p[1] = k

Init == dict = {} /\ request = NoRequest /\ applied = FALSE

Call(r) ==
  /\ request = NoRequest
  /\ request' = r
  /\ UNCHANGED <<dict, applied>>

Insert ==
  /\ request[1] = "insert" /\ ~applied /\ ~Bound(request[2])
  /\ dict' = dict \cup {<<request[2], request[3]>>}
  /\ applied' = TRUE
  /\ UNCHANGED request

Delete ==
  /\ request[1] = "delete" /\ ~applied /\ Bound(request[2])
  /\ dict' = {p \in dict : p[1] # request[2]}
  /\ applied' = TRUE
  /\ UNCHANGED request

NothingToDo ==
  \/ request[1] = "insert" /\ Bound(request[2])
  \/ request[1] = "delete" /\ ~Bound(request[2])

Return ==
  /\ request # NoRequest
  /\ applied \/ NothingToDo
  /\ request' = NoRequest
  /\ applied' = FALSE
  /\ UNCHANGED dict

Next == (\E r \in Requests : Call(r)) \/ Insert \/ Delete \/ Return

Spec == Init /\ [][Next]_vars
===============================================================================
