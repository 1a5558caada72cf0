------------------------------ MODULE MCPools ------------------------------
(* Instances of Pools for TLC. *)
EXTENDS Pools
=============================================================================
