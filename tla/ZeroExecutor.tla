---------------------------- MODULE ZeroExecutor ----------------------------
(***************************************************************************)
(* ZeroExecutor.sol: an authorized caller borrows from Aave (run) or from  *)
(* the pinned Balancer vault (runBalancer), the lender calls back, the     *)
(* steps swap and liquidate with the borrowed tokens, the lender pulls     *)
(* what it is owed and the run is accepted only if it left its minimum     *)
(* profit.  A run is one transaction: its calls are separate actions here, *)
(* and RevertRun undoes all of them from any point.                        *)
(*                                                                         *)
(* Lenders, routers and tokens are not part of the contract.  They do what *)
(* the repository's mocks and scripts expect of them: lenders mint, call   *)
(* back and take the debt by transferFrom; a router takes exactly the      *)
(* approved input.  How much a swap pays and a liquidation moves is left   *)
(* open.  Deadlines and zero addresses only make a call revert.            *)
(***************************************************************************)
EXTENDS Integers, Sequences

CONSTANTS
  Token, NoToken,    \* ERC-20 tokens, and address(0)
  Router,            \* swap routers
  SushiRouter,       \* the one without recipient sentinels
  Pool,              \* the Aave pool
  Vault, NoVault,    \* Balancer vaults the owner may pin, and address(0)
  Account, Owner,    \* accounts that may be callers, and the deployer
  Plans,             \* step lists callers submit
  Amounts,           \* loan amounts, minimum profits and limits in calls
  Premiums,          \* premiums the Aave pool may charge
  StepLimits,        \* arguments of setMaxSteps
  Supply             \* bound: how much of a token the contract can come to hold

Lender == {Pool} \cup Vault
Spender == Router \cup Lender

Step == [kind: {"swap"}, target: Router, tokenIn: Token, tokenOut: Token,
         amount: Nat, limit: Nat, recipientMode: Nat]
        \cup
        [kind: {"liquidation"}, target: Spender, tokenIn: Token, tokenOut: Token,
         amount: Nat]

ASSUME ZeroExecutorAssumption ==
  /\ NoToken \notin Token
  /\ NoVault \notin Vault
  /\ Pool \notin Vault          \* setBalancerVault refuses the pool
  /\ Router \cap Lender = {}
  /\ Owner \in Account
  /\ Plans \subseteq Seq(Step)
  /\ Amounts \subseteq Nat
  /\ Premiums \subseteq Nat
  /\ StepLimits \subseteq Nat
  /\ Supply \in Nat

VARIABLES
  paused, allowedToken, allowedRouter, allowedSelector, authorizedCaller,
  maxLoan, maxSteps, balancerVault,
  active, viaBalancer, activeAsset, baselineBalance, activeAmount, requestedMinProfit,
  balance,    \* the contract's balance of each token
  allowance,  \* what each spender may take of each token from the contract
  pc,         \* where the transaction is; "idle" between two of them
  premium,    \* what the lender charges for this loan
  todo,       \* the steps still to execute
  saved       \* the balances and allowances a revert restores

settings == <<paused, allowedToken, allowedRouter, allowedSelector, authorizedCaller,
              maxLoan, maxSteps, balancerVault>>
runVars == <<active, viaBalancer, activeAsset, baselineBalance, activeAmount,
             requestedMinProfit>>
tokenVars == <<balance, allowance>>
controlVars == <<pc, premium, todo, saved>>
execVars == <<settings, runVars, tokenVars, controlVars>>

NoAllowance == [t \in Token |-> [s \in Spender |-> 0]]
NoBalance == [t \in Token |-> 0]
Untouched == [balance |-> NoBalance, allowance |-> NoAllowance]

NoRun ==
  /\ active = FALSE /\ viaBalancer = FALSE
  /\ activeAsset = NoToken
  /\ baselineBalance = 0 /\ activeAmount = 0 /\ requestedMinProfit = 0

(* The constructor. *)
ExecInit ==
  /\ paused = FALSE
  /\ allowedToken = {} /\ allowedRouter = {} /\ allowedSelector = {}
  /\ authorizedCaller = {Owner}
  /\ maxLoan = [t \in Token |-> 0]
  /\ maxSteps = 4
  /\ balancerVault = NoVault
  /\ NoRun
  /\ balance = NoBalance
  /\ allowance = NoAllowance
  /\ pc = "idle" /\ premium = 0 /\ todo = <<>> /\ saved = Untouched

-----------------------------------------------------------------------------
(* The owner's settings. *)

Unlock(granted, x, allowed) == IF allowed THEN granted \cup {x} ELSE granted \ {x}

SetToken(t, allowed) ==
  /\ allowedToken' = Unlock(allowedToken, t, allowed)
  /\ UNCHANGED <<paused, allowedRouter, allowedSelector, authorizedCaller, maxLoan,
                 maxSteps, balancerVault>>

SetRouter(r, allowed) ==
  /\ allowedRouter' = Unlock(allowedRouter, r, allowed)
  /\ UNCHANGED <<paused, allowedToken, allowedSelector, authorizedCaller, maxLoan,
                 maxSteps, balancerVault>>

(* Each target has one selector the contract ever calls. *)
SetSelector(target, allowed) ==
  /\ allowedSelector' = Unlock(allowedSelector, target, allowed)
  /\ UNCHANGED <<paused, allowedToken, allowedRouter, authorizedCaller, maxLoan,
                 maxSteps, balancerVault>>

SetCaller(a, allowed) ==
  /\ authorizedCaller' = Unlock(authorizedCaller, a, allowed)
  /\ UNCHANGED <<paused, allowedToken, allowedRouter, allowedSelector, maxLoan,
                 maxSteps, balancerVault>>

SetMaxLoan(t, amount) ==
  /\ maxLoan' = [maxLoan EXCEPT ![t] = amount]
  /\ UNCHANGED <<paused, allowedToken, allowedRouter, allowedSelector, authorizedCaller,
                 maxSteps, balancerVault>>

(* Faulty variant: any number of steps is accepted. *)
SetMaxStepsUnchecked(value) ==
  /\ maxSteps' = value
  /\ UNCHANGED <<paused, allowedToken, allowedRouter, allowedSelector, authorizedCaller,
                 maxLoan, balancerVault>>

SetMaxSteps(value) ==
  /\ value # 0 /\ value <= 8
  /\ maxSteps' = value
  /\ UNCHANGED <<paused, allowedToken, allowedRouter, allowedSelector, authorizedCaller,
                 maxLoan, balancerVault>>

SetBalancerVault(v) ==
  /\ balancerVault' = v
  /\ UNCHANGED <<paused, allowedToken, allowedRouter, allowedSelector, authorizedCaller,
                 maxLoan, maxSteps>>

SetPaused(value) ==
  /\ paused' = value
  /\ UNCHANGED <<allowedToken, allowedRouter, allowedSelector, authorizedCaller, maxLoan,
                 maxSteps, balancerVault>>

Configure ==
  /\ pc = "idle"
  /\ \/ \E t \in Token, allowed \in BOOLEAN : SetToken(t, allowed)
     \/ \E r \in Router, allowed \in BOOLEAN : SetRouter(r, allowed)
     \/ \E s \in Router \cup {Pool}, allowed \in BOOLEAN : SetSelector(s, allowed)
     \/ \E a \in Account, allowed \in BOOLEAN : SetCaller(a, allowed)
     \/ \E t \in Token, amount \in Amounts : SetMaxLoan(t, amount)
     \/ \E value \in StepLimits : SetMaxSteps(value)
     \/ \E v \in Vault : SetBalancerVault(v)
     \/ \E value \in BOOLEAN : SetPaused(value)
  /\ UNCHANGED <<runVars, tokenVars, controlVars>>

-----------------------------------------------------------------------------
(* A run. *)

Goto(label) == pc' = label

RunLender == IF viaBalancer THEN balancerVault ELSE Pool

(* What _beginRun and runBalancer refuse. *)
MayRun(caller, asset, amount, plan) ==
  /\ caller \in authorizedCaller
  /\ ~paused
  /\ ~active
  /\ asset \in allowedToken
  /\ amount > 0 /\ amount <= maxLoan[asset]
  /\ Len(plan) <= maxSteps

Submit(asset, amount, minProfit, plan) ==
  /\ activeAsset' = asset
  /\ activeAmount' = amount
  /\ requestedMinProfit' = minProfit
  /\ active' = TRUE
  /\ todo' = plan
  /\ saved' = [balance |-> balance, allowance |-> allowance]
  /\ Goto("lend")
  /\ UNCHANGED <<settings, tokenVars, premium>>

(* Faulty variant: the balance before the loan is not recorded. *)
BeginRunWithoutBaseline(caller, asset, amount, minProfit, plan) ==
  /\ pc = "idle"
  /\ MayRun(caller, asset, amount, plan)
  /\ viaBalancer' \in {FALSE, balancerVault # NoVault}
  /\ UNCHANGED baselineBalance
  /\ Submit(asset, amount, minProfit, plan)

(* _beginRun, called by run, or by runBalancer when a vault is pinned.     *)
BeginRun(caller, asset, amount, minProfit, plan) ==
  /\ pc = "idle"
  /\ MayRun(caller, asset, amount, plan)
  /\ viaBalancer' \in {FALSE, balancerVault # NoVault}
  /\ baselineBalance' = balance[asset]
  /\ Submit(asset, amount, minProfit, plan)

(* The lender pays the loan out and calls executeOperation or              *)
(* receiveFlashLoan; a Balancer loan is free of charge or refused.         *)
Lend(charge) ==
  /\ pc = "lend"
  /\ active
  /\ viaBalancer => charge = 0
  /\ Len(todo) <= maxSteps
  /\ balance[activeAsset] + activeAmount <= Supply
  /\ balance' = [balance EXCEPT ![activeAsset] = @ + activeAmount]
  /\ premium' = charge
  /\ Goto("body")
  /\ UNCHANGED <<settings, runVars, allowance, todo, saved>>

Executing(kind) == pc = "body" /\ todo # <<>> /\ Head(todo).kind = kind

SetAllowance(t, s, amount) == allowance' = [allowance EXCEPT ![t][s] = amount]

(* Tokens that leave the contract, then tokens that come in. *)
Trade(tOut, spent, tIn, received) ==
  LET less == [balance EXCEPT ![tOut] = @ - spent]
  IN  /\ spent <= balance[tOut]
      /\ less[tIn] + received <= Supply
      /\ balance' = [less EXCEPT ![tIn] = @ + received]

(* A router pays the contract, unless the step names the router itself as  *)
(* recipient (ADDRESS_THIS); Sushi's has no such sentinel.                 *)
PaysContract(s) == s.target = SushiRouter \/ s.recipientMode = 0

MaySwap(s) ==
  /\ s.target \in allowedRouter /\ s.target \in allowedSelector
  /\ s.tokenIn \in allowedToken /\ s.tokenOut \in allowedToken
  /\ s.recipientMode \in {0, 1}

Exchange(s) ==
  /\ \E amountOut \in s.limit..Supply :
       Trade(s.tokenIn, s.amount, s.tokenOut, IF PaysContract(s) THEN amountOut ELSE 0)
  /\ IF s.amount > 0 THEN SetAllowance(s.tokenIn, s.target, 0) ELSE UNCHANGED allowance
  /\ todo' = Tail(todo)
  /\ UNCHANGED <<settings, runVars, pc, premium, saved>>

(* Faulty variant: the tokens of a swap are not looked up. *)
ExecuteSwapOfAnyToken ==
  /\ Executing("swap")
  /\ Head(todo).target \in allowedRouter
  /\ Exchange(Head(todo))

(* _executeSwap: approve the amount, swap, check the output against the    *)
(* limit, take the approval back.  Without an amount there is no approval: *)
(* the router swaps what it holds itself.                                  *)
ExecuteSwap ==
  /\ Executing("swap")
  /\ MaySwap(Head(todo))
  /\ Exchange(Head(todo))

MayLiquidate(s) ==
  /\ s.target = Pool /\ Pool \in allowedSelector
  /\ s.tokenIn \in allowedToken /\ s.tokenOut \in allowedToken

(* Faulty variant: the approval for the debt is not taken back. *)
ExecuteLiquidationKeepingApproval ==
  LET s == Head(todo)
  IN  /\ Executing("liquidation")
      /\ MayLiquidate(s)
      /\ \E covered \in 0..s.amount, seized \in 0..Supply :
           /\ Trade(s.tokenOut, covered, s.tokenIn, seized)
           /\ SetAllowance(s.tokenOut, Pool, s.amount - covered)
      /\ todo' = Tail(todo)
      /\ UNCHANGED <<settings, runVars, pc, premium, saved>>

(* _executeLiquidation: the pool takes up to the approved amount of the    *)
(* debt, tokenOut, and pays collateral, tokenIn.                           *)
ExecuteLiquidation ==
  LET s == Head(todo)
  IN  /\ Executing("liquidation")
      /\ MayLiquidate(s)
      /\ \E covered \in 0..s.amount, seized \in 0..Supply :
           Trade(s.tokenOut, covered, s.tokenIn, seized)
      /\ SetAllowance(s.tokenOut, Pool, 0)
      /\ todo' = Tail(todo)
      /\ UNCHANGED <<settings, runVars, pc, premium, saved>>

AmountOwed == activeAmount + premium

(* Faulty variant: the premium is left out of what the run must cover. *)
FinishBodyWithoutPremium ==
  /\ pc = "body" /\ todo = <<>>
  /\ balance[activeAsset] >= baselineBalance + activeAmount + requestedMinProfit
  /\ SetAllowance(activeAsset, RunLender, AmountOwed)
  /\ Goto("settle")
  /\ UNCHANGED <<settings, runVars, balance, premium, todo, saved>>

(* The end of _runFlashBody: the run must have paid for itself. *)
FinishBody ==
  /\ pc = "body" /\ todo = <<>>
  /\ balance[activeAsset] >= baselineBalance + AmountOwed + requestedMinProfit
  /\ SetAllowance(activeAsset, RunLender, AmountOwed)
  /\ Goto("settle")
  /\ UNCHANGED <<settings, runVars, balance, premium, todo, saved>>

(* The lender collects by transferFrom. *)
Settle ==
  LET granted == allowance[activeAsset][RunLender]
  IN  /\ pc = "settle"
      /\ AmountOwed <= granted /\ AmountOwed <= balance[activeAsset]
      /\ balance' = [balance EXCEPT ![activeAsset] = @ - AmountOwed]
      /\ SetAllowance(activeAsset, RunLender, granted - AmountOwed)
      /\ Goto("end")
      /\ UNCHANGED <<settings, runVars, premium, todo, saved>>

EndTransaction ==
  /\ Goto("idle")
  /\ premium' = 0 /\ todo' = <<>> /\ saved' = Untouched
  /\ UNCHANGED settings

ForgetLoan ==
  /\ viaBalancer' = FALSE
  /\ activeAsset' = NoToken
  /\ baselineBalance' = 0 /\ activeAmount' = 0 /\ requestedMinProfit' = 0

(* Faulty variant: the run stays open. *)
EndRunStaysActive ==
  /\ pc = "end"
  /\ SetAllowance(activeAsset, Pool, 0)
  /\ balance[activeAsset] >= baselineBalance + requestedMinProfit
  /\ ForgetLoan
  /\ EndTransaction
  /\ UNCHANGED <<active, balance>>

(* _endRun.  runBalancer clears viaBalancer before it calls it, so the     *)
(* allowance taken back is always the pool's.                              *)
EndRun ==
  /\ pc = "end"
  /\ SetAllowance(activeAsset, Pool, 0)
  /\ balance[activeAsset] >= baselineBalance + requestedMinProfit
  /\ active' = FALSE
  /\ ForgetLoan
  /\ EndTransaction
  /\ UNCHANGED balance

(* Any check, call or transfer may fail: the transaction leaves no trace.  *)
(* The run's variables are cleared between runs, so that is what they go   *)
(* back to.                                                                *)
RevertRun ==
  /\ pc # "idle"
  /\ active' = FALSE
  /\ ForgetLoan
  /\ balance' = saved.balance
  /\ allowance' = saved.allowance
  /\ EndTransaction

ExecNext ==
  \/ Configure
  \/ \E caller \in Account, asset \in Token, amount, minProfit \in Amounts, plan \in Plans :
       BeginRun(caller, asset, amount, minProfit, plan)
  \/ \E charge \in Premiums : Lend(charge)
  \/ ExecuteSwap
  \/ ExecuteLiquidation
  \/ FinishBody
  \/ Settle
  \/ EndRun
  \/ RevertRun

ExecSpec == ExecInit /\ [][ExecNext]_execVars

-----------------------------------------------------------------------------
(* Properties. *)

ExecTypeOK ==
  /\ paused \in BOOLEAN
  /\ allowedToken \in SUBSET Token
  /\ allowedRouter \in SUBSET Router
  /\ allowedSelector \in SUBSET Spender
  /\ authorizedCaller \in SUBSET Account
  /\ maxLoan \in [Token -> Nat]
  /\ maxSteps \in 1..8
  /\ balancerVault \in Vault \cup {NoVault}
  /\ active \in BOOLEAN /\ viaBalancer \in BOOLEAN
  /\ activeAsset \in Token \cup {NoToken}
  /\ baselineBalance \in Nat /\ activeAmount \in Nat /\ requestedMinProfit \in Nat
  /\ balance \in [Token -> Nat]
  /\ allowance \in [Token -> [Spender -> Nat]]
  /\ pc \in {"idle", "lend", "body", "settle", "end"}
  /\ premium \in Nat
  /\ todo \in Seq(Step)
  /\ saved \in [balance: [Token -> Nat], allowance: [Token -> [Spender -> Nat]]]

(* Between two transactions nobody may take anything from the contract:    *)
(* routers, pool and vault have no allowance left, whichever lender was    *)
(* used and however a run ended (testApprovalsAreResetAfterSuccessfulRun). *)
NoStandingAllowance == pc = "idle" => allowance = NoAllowance

(* Nor is anything of the last run left that could refuse the next one or  *)
(* be measured against: the guard flags and the baseline are clear.        *)
RunStateClear == pc = "idle" => NoRun

(* Once the lender is paid the contract holds what it had before the run   *)
(* and the minimum profit on top, whatever the steps did and the loan      *)
(* cost: the check of the flash body covers the one of _endRun.            *)
MinimumProfitKept ==
  pc = "end" => balance[activeAsset] >= saved.balance[activeAsset] + requestedMinProfit

(* No run takes or leaves a token that the owner has not allowed.          *)
OnlyAllowedTokensMove ==
  [][\A t \in Token : balance'[t] # balance[t] => t \in allowedToken]_execVars

(* Runs are atomic and never cost any of the asset they borrow.            *)
Treasury == INSTANCE FlashTreasury
  WITH holdings <- IF pc = "idle" THEN balance ELSE saved.balance,
       usable <- allowedToken

ImplementsTreasury == Treasury!TreasurySpec

(* "hop2 consumes exactly the worst-case hop1 output (limit1 = hop2_in)"   *)
(* (scripts/live_trader.py): the swap that follows another finds its input *)
(* in the contract.                                                        *)
NextHopFunded ==
  pc = "body" /\ Len(todo) = 1 /\ todo[1].amount > 0 =>
    todo[1].amount <= balance[todo[1].tokenIn]
=============================================================================
