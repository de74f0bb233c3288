----------------------------- MODULE MapWalkProofs ----------------------------
(***************************************************************************)
(* What a walk of MapWalk amounts to.  Its steps say only which pair may   *)
(* come next; that a finished walk has written all of the map it began     *)
(* with takes an invariant: each pair of base is written or lies before    *)
(* the walk, for a pair that is written is never larger than one of base   *)
(* that is not, and keys are unique.                                       *)
(***************************************************************************)
EXTENDS MapWalk, TLAPS

MapInv ==
  /\ dict \subseteq Keys \X Values
  /\ \A p, q \in dict : p[1] = q[1] => p = q
  /\ request \in Requests \cup {NoRequest}

WalkInv ==
  /\ base \subseteq dict /\ written \subseteq dict
  /\ base \subseteq written \cup Ahead
  /\ walking => request[1] # "delete"

Inv == MapInv /\ WalkInv

LEMMA RequestTypes ==
  ASSUME NEW r \in Requests
  PROVE  r[1] = "insert" => r[2] \in Keys /\ r[3] \in Values
  BY DEF Requests

LEMMA InitInv == WalkInit => Inv
  BY DEF WalkInit, Init, NoWalk, Inv, MapInv, WalkInv, NoRequest

\* The operations keep the map a map.
LEMMA OperationMap == ASSUME MapInv, Next PROVE MapInv'
<1>1. CASE (\E r \in Requests : Call(r)) \/ Return
  BY <1>1 DEF Call, Return, MapInv
<1>2. CASE Insert
  <2> DEFINE new == <<request[2], request[3]>>
  <2>1. /\ request[1] = "insert" /\ dict' = dict \cup {new} /\ request' = request
        /\ \A p \in dict : p[1] # request[2]
    BY <1>2 DEF Insert, Bound
  <2>2. request[2] \in Keys /\ request[3] \in Values
    BY <2>1, RequestTypes DEF MapInv, NoRequest
  <2> QED BY <2>1, <2>2 DEF MapInv
<1>3. CASE Delete
  BY <1>3 DEF Delete, MapInv
<1> QED BY <1>1, <1>2, <1>3 DEF Next

\* A walk keeps its place while the map only grows.
LEMMA OperationWalk == ASSUME Inv, Operation PROVE WalkInv'
<1>1. CASE request'[1] = "delete"
  BY <1>1 DEF Operation, NoWalk, WalkInv
<1>2. CASE request'[1] # "delete"
  <2>1. UNCHANGED walk /\ Next
    BY <1>2 DEF Operation
  <2>2. CASE walking \/ dict \subseteq dict'
    <3>1. dict \subseteq dict'
      BY <1>2, <2>1, <2>2 DEF Next, Call, Insert, Delete, Return, Inv, WalkInv
    <3>2. Ahead \subseteq Ahead'
      BY <2>1, <3>1 DEF Ahead, walk
    <3> QED BY <1>2, <2>1, <3>1, <3>2 DEF Inv, WalkInv, walk
  <2>3. CASE ~walking /\ ~(dict \subseteq dict')
    <3>1. Delete
      BY <2>1, <2>3 DEF Next, Call, Insert, Return
    <3> QED BY <1>2, <3>1 DEF Delete
  <2> QED BY <2>2, <2>3
<1> QED BY <1>1, <1>2

\* A pair that is written lies before every pair of base that is not.
LEMMA WriteWalk ==
  ASSUME Keys \subseteq Int, Inv, NEW p \in Ahead, Write(p)
  PROVE  WalkInv'
<1>1. /\ walking /\ written' = written \cup {p} /\ UNCHANGED <<dict, request, walking, base>>
      /\ \A q \in Ahead \cap base : p[1] <= q[1]
  BY DEF Write, vars
<1>2. p \in dict /\ \A q \in dict : q[1] \in Int
  BY DEF Ahead, Inv, MapInv
<1>3. ASSUME NEW b \in base, b \notin written' PROVE b \in Ahead'
  <2>1. b \in Ahead /\ b # p /\ b \in dict
    BY <1>1, <1>3 DEF Inv, WalkInv
  <2>2. p[1] < b[1]
    <3>1. p[1] <= b[1] BY <1>1, <1>3, <2>1
    <3>2. p[1] # b[1] BY <1>2, <2>1 DEF Inv, MapInv
    <3> QED BY <1>2, <2>1, <3>1, <3>2
  <2> QED BY <1>1, <2>1, <2>2 DEF Ahead
<1> QED BY <1>1, <1>2, <1>3 DEF Inv, WalkInv

LEMMA StepInv == ASSUME Keys \subseteq Int, Inv, [WalkNext]_allvars PROVE Inv'
<1>1. CASE Operation
  BY <1>1, OperationMap, OperationWalk DEF Inv, Operation
<1>2. CASE BeginWalk
  BY <1>2 DEF BeginWalk, Inv, MapInv, WalkInv, Ahead, vars
<1>3. ASSUME NEW p \in Ahead, Write(p) PROVE Inv'
  BY <1>3, WriteWalk DEF Write, vars, Inv, MapInv
<1>4. CASE EndWalk
  BY <1>4 DEF EndWalk, NoWalk, Inv, MapInv, WalkInv, vars
<1>5. CASE UNCHANGED allvars
  BY <1>5 DEF allvars, vars, walk, Inv, MapInv, WalkInv, Ahead
<1> QED BY <1>1, <1>2, <1>3, <1>4, <1>5 DEF WalkNext

\* A walk that ends has written all of the map it began with, and what it has
\* written is in the map: this is what dump_file's file is good for, and what
\* the dumps of RedisStore assume.
THEOREM WalkIsComplete ==
  Keys \subseteq Int =>
    (WalkSpec => [][EndWalk => base \subseteq written /\ written \subseteq dict]_allvars)
<1> SUFFICES ASSUME Keys \subseteq Int
             PROVE  WalkSpec => [][EndWalk => base \subseteq written /\ written \subseteq dict]_allvars
  OBVIOUS
<1>1. Inv /\ [WalkNext]_allvars => Inv'
  BY StepInv
<1>2. Inv => [EndWalk => base \subseteq written /\ written \subseteq dict]_allvars
  BY DEF Inv, WalkInv, EndWalk
<1> QED BY <1>1, <1>2, InitInv, PTL DEF WalkSpec
===============================================================================
