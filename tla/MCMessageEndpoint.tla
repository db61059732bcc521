-------------------------- MODULE MCMessageEndpoint --------------------------
(* Small instances of MessageEndpoint: the client speaks on Gameplay, the  *)
(* server on Bulk.                                                         *)
EXTENDS MessageEndpoint, TLC

CONSTANTS client, server

Gameplay == 1
Bulk == 2

MCPeer == {client, server}
MCLane == {Gameplay, Bulk}
MCOrigin == {<<client, Gameplay>>, <<server, Bulk>>}
MCMaxSent == (Gameplay :> 1) @@ (Bulk :> 1)
MCFairLane == {Gameplay}
=============================================================================
