--------------------------- MODULE MCSwarmService ---------------------------
(* Small instances of SwarmService for TLC. *)
EXTENDS SwarmService

(* Two venues off Uniswap and a cap of one route: the watched route may be  *)
(* outside the window, and one venue may fail while the other answers.     *)
MCPairs == {<<"WETH", "USDC">>}
MCListed == MCPairs \X {"sushi_v3", "camelot_v3"}
MCWatched == <<<<"WETH", "USDC">>, "sushi_v3">>
=============================================================================
