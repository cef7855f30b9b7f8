---------------------------- MODULE MCSwarmCycle ----------------------------
(* Small instances of SwarmCycle for TLC. *)
EXTENDS SwarmCycle

(* One worker has a pair with routes, the other lives off stealing. *)
MCPrimaryPair == <<"USDC/WETH", "ARB/WETH">>
MCRoutePair == <<"USDC/WETH", "GMX/WETH">>

MCCatalogs == {<<2, 1, 2>>}
=============================================================================
