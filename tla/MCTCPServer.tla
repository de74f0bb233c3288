----------------------------- MODULE MCTCPServer ------------------------------
(* TCPServer instantiated for TLC. *)
EXTENDS TCPServer
===============================================================================
