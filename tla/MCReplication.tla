---------------------------- MODULE MCReplication -----------------------------
(* ReplicationManager instantiated for TLC. *)
EXTENDS ReplicationManager, TLC
===============================================================================
