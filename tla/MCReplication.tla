---------------------------- MODULE MCReplication ----------------------------
(* The client and one other player, two slots of two lives, two snapshots    *)
(* under way.                                                                *)
EXTENDS Replication
MCPools == {"owner"}
=============================================================================
