------------------------------- MODULE MapWalk --------------------------------
(***************************************************************************)
(* What dump_file may promise without the mutex: the map of OrderedMap     *)
(* with a walk beside its operations.  The walk writes pairs of the map in *)
(* the order of their keys and may pass over none that was there when it   *)
(* began; one that came later it may write or miss.  A walk that a         *)
(* deletion overlaps is given up: nothing is said about it any more.       *)
(***************************************************************************)
EXTENDS OrderedMap, Integers

VARIABLES
  walking,   \* is a walk under way that no deletion has overlapped
  base,      \* the map when it began
  written    \* the pairs it has written

walk == <<walking, base, written>>
allvars == <<vars, walk>>

NoWalk == walking = FALSE /\ base = {} /\ written = {}

WalkInit == Init /\ NoWalk

\* An operation of the map; a deletion that is called ends every promise.
Operation == Next /\ IF request'[1] = "delete" THEN NoWalk' ELSE UNCHANGED walk

BeginWalk ==
  /\ ~walking /\ request[1] # "delete"
  /\ walking' = TRUE /\ base' = dict /\ written' = {}
  /\ UNCHANGED vars

Ahead == {p \in dict : \A q \in written : q[1] < p[1]}

Write(p) ==
  /\ walking /\ \A q \in Ahead \cap base : p[1] <= q[1]
  /\ written' = written \cup {p}
  /\ UNCHANGED <<vars, walking, base>>

EndWalk ==
  /\ walking /\ Ahead \cap base = {}
  /\ NoWalk'
  /\ UNCHANGED vars

WalkNext == Operation \/ BeginWalk \/ (\E p \in Ahead : Write(p)) \/ EndWalk

WalkSpec == WalkInit /\ [][WalkNext]_allvars
===============================================================================
