--------------------------- MODULE MCZeroExecutor ---------------------------
(* Small instances of ZeroExecutor for TLC. *)
EXTENDS ZeroExecutor

CONSTANTS weth, usdc, uni, sushi, deployer

Swap(target, tokenIn, tokenOut, amount, limit, mode) ==
  [kind |-> "swap", target |-> target, tokenIn |-> tokenIn, tokenOut |-> tokenOut,
   amount |-> amount, limit |-> limit, recipientMode |-> mode]
Liquidation(target, collateral, debt, amount) ==
  [kind |-> "liquidation", target |-> target, tokenIn |-> collateral,
   tokenOut |-> debt, amount |-> amount]

(* Two hops chained inside one router as zero/calldata.py chains them (the *)
(* fork test of ZeroExecutor submits them so), the steps that              *)
(* scripts/live_trader.py builds, and a liquidation with its unwinding.    *)
CandidateSteps(r) == <<Swap(r, weth, usdc, 1, 1, 1), Swap(r, usdc, weth, 0, 1, 0)>>
LiveTraderSteps(r1, r2) ==
  <<Swap(r1, weth, usdc, 1, 1, 1), Swap(r2, usdc, weth, 1, 1, 1)>>
LiquidationSteps(r) ==
  <<Liquidation(Pool, usdc, weth, 1), Swap(r, usdc, weth, 1, 1, 0)>>

MCPlans == {CandidateSteps(uni), LiveTraderSteps(sushi, sushi), LiquidationSteps(uni)}
MCLivePlans == {LiveTraderSteps(uni, uni)}
=============================================================================
