--------------------------- MODULE MCWorkAllocator ---------------------------
(* Small instances of WorkAllocator for TLC. *)
EXTENDS WorkAllocator

(* Two workers share the first pair, as A1 and A5 share USDC/WETH in the   *)
(* shipped topology; the third has a pair of its own; one route's pair has *)
(* no worker and overflows.                                                *)
MCPrimaryPair == <<"USDC/WETH", "USDC/WETH", "ARB/WETH">>
MCRoutePair == <<"USDC/WETH", "USDC/WETH", "USDC/WETH", "GMX/WETH">>

(* Out of id order, with a duplicate, and empty. *)
MCCatalogs == {<<2, 1, 4, 3, 2>>, <<4, 1>>, <<>>}
=============================================================================
