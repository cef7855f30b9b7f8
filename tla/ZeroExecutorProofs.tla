------------------------- MODULE ZeroExecutorProofs -------------------------
(***************************************************************************)
(* Theorems about ZeroExecutor, for any tokens, routers, vaults, accounts, *)
(* step lists, amounts and premiums.                                       *)
(***************************************************************************)
EXTENDS ZeroExecutor, TLAPS

(* The steps of a flash body. *)
BodyStep == ExecuteSwap \/ ExecuteLiquidation

(* The case split of every proof. *)
LEMMA ExecCases ==
  ExecNext <=>
    \/ Configure
    \/ \E caller \in Account, asset \in Token, amount, minProfit \in Amounts, plan \in Plans :
         BeginRun(caller, asset, amount, minProfit, plan)
    \/ \E charge \in Premiums : Lend(charge)
    \/ BodyStep
    \/ FinishBody
    \/ Settle
    \/ EndRun
    \/ RevertRun
  BY DEF ExecNext, BodyStep

-----------------------------------------------------------------------------
(* What the steps leave alone. *)

LEMMA ConfigureFrame ==
  Configure => pc = "idle" /\ UNCHANGED <<runVars, tokenVars, controlVars>>
  BY DEF Configure

LEMMA RunFrame ==
  ASSUME ExecNext, ~ Configure
  PROVE  UNCHANGED settings
  BY DEF ExecNext, BeginRun, Submit, Lend, ExecuteSwap, ExecuteLiquidation, Exchange,
         FinishBody, Settle, EndRun, RevertRun, EndTransaction, settings

LEMMA StepFields ==
  ASSUME NEW s \in Step
  PROVE  /\ s.tokenIn \in Token /\ s.tokenOut \in Token
         /\ s.target \in Spender
         /\ s.amount \in Nat
         /\ s.kind = "swap" => s.limit \in Nat
  BY DEF Step, Spender

(* A body step consumes one step of the plan, moves two tokens and leaves  *)
(* at most allowances of zero.                                             *)
LEMMA BodyStepEffect ==
  ASSUME ExecTypeOK, BodyStep
  PROVE  /\ pc = "body" /\ todo # <<>>
         /\ todo' = Tail(todo) /\ Head(todo) \in Step
         /\ UNCHANGED <<settings, runVars, pc, premium, saved>>
         /\ \E tOut, tIn \in allowedToken, spent, received \in Nat :
              Trade(tOut, spent, tIn, received)
         /\ \/ UNCHANGED allowance
            \/ \E t \in Token, s \in Spender : SetAllowance(t, s, 0)
<1>1. todo \in Seq(Step) /\ allowedToken \in SUBSET Token
  BY DEF ExecTypeOK
<1>2. CASE ExecuteSwap
  <2> DEFINE s == Head(todo)
  <2>1. pc = "body" /\ todo # <<>> /\ s \in Step /\ s.kind = "swap"
    BY <1>1, <1>2 DEF ExecuteSwap, Executing
  <2>2. s.tokenIn \in allowedToken /\ s.tokenOut \in allowedToken /\ s.amount \in Nat
        /\ s.limit \in Nat /\ s.target \in Spender /\ s.tokenIn \in Token
    BY <1>2, <2>1, StepFields DEF ExecuteSwap, MaySwap
  <2>3. PICK amountOut \in s.limit..Supply :
          Trade(s.tokenIn, s.amount, s.tokenOut, IF PaysContract(s) THEN amountOut ELSE 0)
    BY <1>2 DEF ExecuteSwap, Exchange
  <2>4. (IF PaysContract(s) THEN amountOut ELSE 0) \in Nat
    BY <2>2, ZeroExecutorAssumption
  <2>5. \/ UNCHANGED allowance
        \/ SetAllowance(s.tokenIn, s.target, 0)
    BY <1>2 DEF ExecuteSwap, Exchange
  <2>6. todo' = Tail(todo) /\ UNCHANGED <<settings, runVars, pc, premium, saved>>
    BY <1>2 DEF ExecuteSwap, Exchange
  <2>7. \E tOut, tIn \in allowedToken, spent, received \in Nat :
          Trade(tOut, spent, tIn, received)
    BY <2>2, <2>3, <2>4
  <2>8. QED BY <2>1, <2>2, <2>5, <2>6, <2>7
<1>3. CASE ExecuteLiquidation
  <2> DEFINE s == Head(todo)
  <2>1. pc = "body" /\ todo # <<>> /\ s \in Step
    BY <1>1, <1>3 DEF ExecuteLiquidation, Executing
  <2>2. s.tokenIn \in allowedToken /\ s.tokenOut \in allowedToken /\ s.amount \in Nat
        /\ Pool \in Spender /\ s.tokenOut \in Token
    BY <1>3, <2>1, StepFields DEF ExecuteLiquidation, MayLiquidate, Spender, Lender
  <2>3. PICK covered \in 0..s.amount, seized \in 0..Supply :
          Trade(s.tokenOut, covered, s.tokenIn, seized)
    BY <1>3 DEF ExecuteLiquidation
  <2>4. covered \in Nat /\ seized \in Nat
    BY <2>2, ZeroExecutorAssumption
  <2>5. SetAllowance(s.tokenOut, Pool, 0)
    BY <1>3 DEF ExecuteLiquidation
  <2>6. todo' = Tail(todo) /\ UNCHANGED <<settings, runVars, pc, premium, saved>>
    BY <1>3 DEF ExecuteLiquidation
  <2>7. \E tOut, tIn \in allowedToken, spent, received \in Nat :
          Trade(tOut, spent, tIn, received)
    BY <2>2, <2>3, <2>4
  <2>8. QED BY <2>1, <2>2, <2>5, <2>6, <2>7
<1>4. QED BY <1>2, <1>3 DEF BodyStep

-----------------------------------------------------------------------------
(* Type correctness.  A run borrows a token, through a lender that exists. *)

RunInv ==
  pc # "idle" => /\ activeAsset \in Token
                 /\ viaBalancer => balancerVault \in Vault

ExecTypeInv == ExecTypeOK /\ RunInv

LEMMA UntouchedType ==
  /\ NoAllowance \in [Token -> [Spender -> Nat]]
  /\ Untouched \in [balance: [Token -> Nat], allowance: [Token -> [Spender -> Nat]]]
  BY DEF NoAllowance, NoBalance, Untouched

LEMMA ExecTypeInit == ExecInit => ExecTypeInv
<1> SUFFICES ASSUME ExecInit PROVE ExecTypeInv
  OBVIOUS
<1>1. todo \in Seq(Step)
  BY DEF ExecInit
<1>2. saved \in [balance: [Token -> Nat], allowance: [Token -> [Spender -> Nat]]]
      /\ allowance \in [Token -> [Spender -> Nat]]
  BY UntouchedType DEF ExecInit
<1>3. Owner \in Account
  BY ZeroExecutorAssumption
<1>4. maxLoan \in [Token -> Nat] /\ balance \in [Token -> Nat]
  BY DEF ExecInit, NoBalance
<1>5. /\ paused \in BOOLEAN /\ active \in BOOLEAN /\ viaBalancer \in BOOLEAN
      /\ allowedToken \in SUBSET Token /\ allowedRouter \in SUBSET Router
      /\ allowedSelector \in SUBSET Spender /\ authorizedCaller \in SUBSET Account
      /\ balancerVault \in Vault \cup {NoVault} /\ activeAsset \in Token \cup {NoToken}
  BY <1>3 DEF ExecInit, NoRun
<1>6. /\ maxSteps \in 1..8 /\ baselineBalance \in Nat /\ activeAmount \in Nat
      /\ requestedMinProfit \in Nat /\ premium \in Nat
      /\ pc = "idle"
  BY DEF ExecInit, NoRun
<1>7. QED
  BY <1>1, <1>2, <1>4, <1>5, <1>6 DEF ExecTypeInv, ExecTypeOK, RunInv

LEMMA ConfigureType == ExecTypeInv /\ Configure => ExecTypeInv'
<1> SUFFICES ASSUME ExecTypeInv, Configure PROVE ExecTypeInv'
  OBVIOUS
<1> USE ZeroExecutorAssumption
<1>1. pc = "idle" /\ UNCHANGED <<runVars, tokenVars, controlVars>>
  BY ConfigureFrame
<1>2. /\ paused' \in BOOLEAN
      /\ allowedToken' \in SUBSET Token
      /\ allowedRouter' \in SUBSET Router
      /\ allowedSelector' \in SUBSET Spender
      /\ authorizedCaller' \in SUBSET Account
      /\ maxLoan' \in [Token -> Nat]
      /\ maxSteps' \in 1..8
      /\ balancerVault' \in Vault \cup {NoVault}
  <2> USE DEF ExecTypeInv, ExecTypeOK, Configure, Unlock
  <2>1. CASE \E t \in Token, allowed \in BOOLEAN : SetToken(t, allowed)
    BY <2>1 DEF SetToken
  <2>2. CASE \E r \in Router, allowed \in BOOLEAN : SetRouter(r, allowed)
    BY <2>2 DEF SetRouter
  <2>3. CASE \E s \in Router \cup {Pool}, allowed \in BOOLEAN : SetSelector(s, allowed)
    BY <2>3 DEF SetSelector, Spender, Lender
  <2>4. CASE \E a \in Account, allowed \in BOOLEAN : SetCaller(a, allowed)
    BY <2>4 DEF SetCaller
  <2>5. CASE \E t \in Token, amount \in Amounts : SetMaxLoan(t, amount)
    BY <2>5 DEF SetMaxLoan
  <2>6. CASE \E value \in StepLimits : SetMaxSteps(value)
    BY <2>6 DEF SetMaxSteps
  <2>7. CASE \E v \in Vault : SetBalancerVault(v)
    BY <2>7 DEF SetBalancerVault
  <2>8. CASE \E value \in BOOLEAN : SetPaused(value)
    BY <2>8 DEF SetPaused
  <2>9. QED BY <2>1, <2>2, <2>3, <2>4, <2>5, <2>6, <2>7, <2>8
<1>3. QED
  BY <1>1, <1>2
  DEF ExecTypeInv, ExecTypeOK, RunInv, runVars, tokenVars, controlVars

LEMMA BeginRunType ==
  ASSUME ExecTypeInv, NEW caller \in Account, NEW asset \in Token, NEW amount \in Amounts,
         NEW minProfit \in Amounts, NEW plan \in Plans,
         BeginRun(caller, asset, amount, minProfit, plan)
  PROVE  ExecTypeInv'
<1> USE DEF ExecTypeInv, ExecTypeOK, BeginRun, Submit, Goto
<1>1. amount \in Nat /\ minProfit \in Nat /\ plan \in Seq(Step)
  BY ZeroExecutorAssumption
<1>2. balance[asset] \in Nat
  OBVIOUS
<1>3. viaBalancer' \in BOOLEAN /\ (viaBalancer' => balancerVault \in Vault)
  OBVIOUS
<1>4. todo' \in Seq(Step)
      /\ saved' \in [balance: [Token -> Nat], allowance: [Token -> [Spender -> Nat]]]
  BY <1>1
<1>5. QED
  BY <1>1, <1>2, <1>3, <1>4 DEF RunInv, settings, tokenVars

LEMMA TradeType ==
  ASSUME balance \in [Token -> Nat], NEW tOut \in Token, NEW tIn \in Token,
         NEW spent \in Nat, NEW received \in Nat, Trade(tOut, spent, tIn, received)
  PROVE  balance' \in [Token -> Nat]
<1> DEFINE less == [balance EXCEPT ![tOut] = @ - spent]
<1>1. less \in [Token -> Nat]
  BY DEF Trade
<1>2. balance' = [less EXCEPT ![tIn] = @ + received]
  BY DEF Trade
<1>3. QED BY <1>1, <1>2

LEMMA SetAllowanceType ==
  ASSUME allowance \in [Token -> [Spender -> Nat]], NEW t, NEW s, NEW amount \in Nat,
         SetAllowance(t, s, amount)
  PROVE  allowance' \in [Token -> [Spender -> Nat]]
  BY DEF SetAllowance

LEMMA BodyStepType == ExecTypeInv /\ BodyStep => ExecTypeInv'
<1> SUFFICES ASSUME ExecTypeOK, RunInv, BodyStep PROVE ExecTypeInv'
  BY DEF ExecTypeInv
<1>1. /\ pc = "body" /\ todo # <<>> /\ todo' = Tail(todo)
      /\ UNCHANGED <<settings, runVars, pc, premium, saved>>
  BY BodyStepEffect
<1>2. balance' \in [Token -> Nat]
  <2>1. PICK tOut \in allowedToken, tIn \in allowedToken, spent \in Nat, received \in Nat :
          Trade(tOut, spent, tIn, received)
    BY BodyStepEffect
  <2>2. tOut \in Token /\ tIn \in Token /\ balance \in [Token -> Nat]
    BY DEF ExecTypeOK
  <2>3. QED BY <2>1, <2>2, TradeType
<1>3. allowance' \in [Token -> [Spender -> Nat]]
  <2>1. allowance \in [Token -> [Spender -> Nat]]
    BY DEF ExecTypeOK
  <2>2. CASE UNCHANGED allowance
    BY <2>1, <2>2
  <2>3. ASSUME NEW t \in Token, NEW s \in Spender, SetAllowance(t, s, 0)
        PROVE  allowance' \in [Token -> [Spender -> Nat]]
    BY <2>1, <2>3, SetAllowanceType
  <2>4. QED BY <2>2, <2>3, BodyStepEffect
<1>4. todo' \in Seq(Step)
  <2>1. todo \in Seq(Step)
    BY DEF ExecTypeOK
  <2>2. QED BY <1>1, <2>1
<1>5. QED
  BY <1>1, <1>2, <1>3, <1>4 DEF ExecTypeInv, ExecTypeOK, RunInv, settings, runVars

LEMMA ExecTypeNext == ExecTypeInv /\ [ExecNext]_execVars => ExecTypeInv'
<1> SUFFICES ASSUME ExecTypeInv, [ExecNext]_execVars PROVE ExecTypeInv'
  OBVIOUS
<1>1. CASE Configure
  BY <1>1, ConfigureType
<1>2. ASSUME NEW caller \in Account, NEW asset \in Token, NEW amount \in Amounts,
             NEW minProfit \in Amounts, NEW plan \in Plans,
             BeginRun(caller, asset, amount, minProfit, plan)
      PROVE  ExecTypeInv'
  BY <1>2, BeginRunType
<1>3. ASSUME NEW charge \in Premiums, Lend(charge) PROVE ExecTypeInv'
  <2>1. charge \in Nat
    BY ZeroExecutorAssumption
  <2>2. balance' \in [Token -> Nat]
    <3>1. balance \in [Token -> Nat] /\ activeAmount \in Nat /\ activeAsset \in Token
      BY <1>3 DEF Lend, ExecTypeInv, ExecTypeOK, RunInv
    <3>2. balance' = [balance EXCEPT ![activeAsset] = @ + activeAmount]
      BY <1>3 DEF Lend
    <3>3. QED BY <3>1, <3>2
  <2>3. QED
    BY <1>3, <2>1, <2>2
    DEF Lend, Goto, ExecTypeInv, ExecTypeOK, RunInv, settings, runVars
<1>4. CASE BodyStep
  BY <1>4, BodyStepType
<1>5. CASE FinishBody
  <2>1. AmountOwed \in Nat
    BY DEF AmountOwed, ExecTypeInv, ExecTypeOK
  <2>2. allowance' \in [Token -> [Spender -> Nat]]
    BY <1>5, <2>1, SetAllowanceType DEF FinishBody, ExecTypeInv, ExecTypeOK
  <2>3. QED
    BY <1>5, <2>2 DEF FinishBody, Goto, ExecTypeInv, ExecTypeOK, RunInv, settings, runVars
<1>6. CASE Settle
  <2> DEFINE granted == allowance[activeAsset][RunLender]
  <2>1. activeAsset \in Token /\ RunLender \in Spender
    BY <1>6 DEF Settle, ExecTypeInv, RunInv, RunLender, Spender, Lender
  <2>2. granted \in Nat /\ AmountOwed \in Nat /\ balance[activeAsset] \in Nat
    BY <2>1 DEF AmountOwed, ExecTypeInv, ExecTypeOK
  <2>3. AmountOwed <= granted /\ AmountOwed <= balance[activeAsset]
    BY <1>6 DEF Settle
  <2>4. granted - AmountOwed \in Nat
    BY <2>2, <2>3
  <2>5. allowance' \in [Token -> [Spender -> Nat]]
    BY <1>6, <2>4, SetAllowanceType DEF Settle, ExecTypeInv, ExecTypeOK
  <2>6. balance' \in [Token -> Nat]
    <3>1. balance \in [Token -> Nat]
      BY DEF ExecTypeInv, ExecTypeOK
    <3>2. balance[activeAsset] - AmountOwed \in Nat
      BY <2>2, <2>3
    <3>3. balance' = [balance EXCEPT ![activeAsset] = balance[activeAsset] - AmountOwed]
      BY <1>6 DEF Settle
    <3>4. QED BY <2>1, <3>1, <3>2, <3>3
  <2>7. QED
    BY <1>6, <2>5, <2>6 DEF Settle, Goto, ExecTypeInv, ExecTypeOK, RunInv, settings, runVars
<1>7. CASE EndRun
  <2>1. allowance' \in [Token -> [Spender -> Nat]]
    BY <1>7, SetAllowanceType DEF EndRun, ExecTypeInv, ExecTypeOK
  <2>2. todo' \in Seq(Step)
    BY <1>7 DEF EndRun, EndTransaction
  <2>3. QED
    BY <1>7, <2>1, <2>2, UntouchedType
    DEF EndRun, EndTransaction, ForgetLoan, Goto, ExecTypeInv, ExecTypeOK, RunInv, settings
<1>8. CASE RevertRun
  <2>1. todo' \in Seq(Step)
    BY <1>8 DEF RevertRun, EndTransaction
  <2>2. QED
    BY <1>8, <2>1, UntouchedType
    DEF RevertRun, EndTransaction, ForgetLoan, Goto, ExecTypeInv, ExecTypeOK, RunInv, settings
<1>9. CASE UNCHANGED execVars
  BY <1>9
  DEF execVars, settings, runVars, tokenVars, controlVars, ExecTypeInv, ExecTypeOK, RunInv
<1>10. QED
  BY <1>1, <1>2, <1>3, <1>4, <1>5, <1>6, <1>7, <1>8, <1>9, ExecCases

(* The settings, the running loan, the balances and the allowances keep    *)
(* well-formed values.                                                     *)
THEOREM ExecTypeCorrect == ExecSpec => []ExecTypeOK
<1>1. ExecInit => ExecTypeInv
  BY ExecTypeInit
<1>2. ExecTypeInv /\ [ExecNext]_execVars => ExecTypeInv'
  BY ExecTypeNext
<1>3. ExecTypeInv => ExecTypeOK
  BY DEF ExecTypeInv
<1>4. QED BY <1>1, <1>2, <1>3, PTL DEF ExecSpec

-----------------------------------------------------------------------------
(* Between two runs the run's variables are clear. *)

(* A finished run, whether it succeeded or not, leaves no flag, loan or    *)
(* baseline behind.                                                        *)
THEOREM RunStateClearHolds == ExecSpec => []RunStateClear
<1>1. ExecInit => RunStateClear
  BY DEF ExecInit, RunStateClear
<1>2. RunStateClear /\ [ExecNext]_execVars => RunStateClear'
  <2> SUFFICES ASSUME RunStateClear, [ExecNext]_execVars, pc' = "idle" PROVE NoRun'
    BY DEF RunStateClear
  <2>1. CASE Configure
    BY <2>1, ConfigureFrame DEF RunStateClear, NoRun, runVars
  <2>2. CASE EndRun \/ RevertRun
    BY <2>2 DEF EndRun, RevertRun, ForgetLoan, NoRun
  <2>3. CASE UNCHANGED execVars
    BY <2>3 DEF execVars, runVars, controlVars, RunStateClear, NoRun
  <2>4. ASSUME ExecNext, ~ Configure, ~ EndRun, ~ RevertRun PROVE FALSE
    BY <2>4
    DEF ExecNext, BeginRun, Submit, Lend, ExecuteSwap, ExecuteLiquidation, Executing, Exchange,
        FinishBody, Settle, Goto
  <2>5. QED BY <2>1, <2>2, <2>3, <2>4
<1>3. QED BY <1>1, <1>2, PTL DEF ExecSpec

-----------------------------------------------------------------------------
(* Allowances.  Only while a lender is about to collect is there one, and  *)
(* it is exactly what the lender is owed.                                  *)

LenderAllowance == [NoAllowance EXCEPT ![activeAsset] = [@ EXCEPT ![RunLender] = AmountOwed]]

AllowanceInv ==
  /\ pc # "settle" => allowance = NoAllowance
  /\ pc = "settle" => allowance = LenderAllowance
  /\ pc # "idle" => saved.allowance = NoAllowance

LEMMA ZeroAllowance ==
  ASSUME allowance = NoAllowance, NEW t, NEW s, SetAllowance(t, s, 0)
  PROVE  allowance' = NoAllowance
<1>1. CASE t \in Token /\ s \in Spender
  BY <1>1 DEF SetAllowance, NoAllowance
<1>2. CASE ~ (t \in Token /\ s \in Spender)
  BY <1>2 DEF SetAllowance, NoAllowance
<1>3. QED BY <1>1, <1>2

LEMMA AllowanceNext ==
  ExecTypeInv /\ AllowanceInv /\ [ExecNext]_execVars => AllowanceInv'
<1> SUFFICES ASSUME ExecTypeInv, AllowanceInv, [ExecNext]_execVars PROVE AllowanceInv'
  OBVIOUS
<1>1. CASE Configure
  BY <1>1, ConfigureFrame DEF AllowanceInv, tokenVars, controlVars
<1>2. ASSUME NEW caller \in Account, NEW asset \in Token, NEW amount \in Amounts,
             NEW minProfit \in Amounts, NEW plan \in Plans,
             BeginRun(caller, asset, amount, minProfit, plan)
      PROVE  AllowanceInv'
  BY <1>2 DEF BeginRun, Submit, Goto, AllowanceInv, tokenVars
<1>3. ASSUME NEW charge \in Premiums, Lend(charge) PROVE AllowanceInv'
  BY <1>3 DEF Lend, Goto, AllowanceInv
<1>4. CASE BodyStep
  <2>1. /\ pc = "body" /\ UNCHANGED <<pc, saved>>
        /\ \/ UNCHANGED allowance
           \/ \E t \in Token, s \in Spender : SetAllowance(t, s, 0)
    BY <1>4, BodyStepEffect DEF ExecTypeInv
  <2>2. allowance = NoAllowance
    BY <2>1 DEF AllowanceInv
  <2>3. allowance' = NoAllowance
    BY <2>1, <2>2, ZeroAllowance
  <2>4. QED BY <2>1, <2>3 DEF AllowanceInv
<1>5. CASE FinishBody
  <2>1. /\ pc = "body" /\ pc' = "settle" /\ allowance = NoAllowance
        /\ UNCHANGED <<settings, runVars, premium, saved>>
        /\ SetAllowance(activeAsset, RunLender, AmountOwed)
    BY <1>5 DEF FinishBody, Goto, AllowanceInv
  <2>2. allowance' = LenderAllowance
    BY <2>1 DEF SetAllowance, LenderAllowance
  <2>3. UNCHANGED LenderAllowance
    BY <2>1 DEF LenderAllowance, RunLender, AmountOwed, settings, runVars
  <2>4. QED BY <2>1, <2>2, <2>3 DEF AllowanceInv
<1>6. CASE Settle
  <2> DEFINE granted == allowance[activeAsset][RunLender]
  <2>1. activeAsset \in Token /\ RunLender \in Spender /\ AmountOwed \in Nat
    BY <1>6 DEF Settle, ExecTypeInv, ExecTypeOK, RunInv, RunLender, Spender, Lender, AmountOwed
  <2>2. allowance = LenderAllowance /\ saved.allowance = NoAllowance
    BY <1>6 DEF Settle, AllowanceInv
  <2>3. granted = AmountOwed
    BY <2>1, <2>2 DEF LenderAllowance, NoAllowance
  <2>4. SetAllowance(activeAsset, RunLender, 0)
    BY <1>6, <2>1, <2>3 DEF Settle
  <2>5. allowance' = [allowance EXCEPT ![activeAsset] = [allowance[activeAsset] EXCEPT ![RunLender] = 0]]
    BY <2>4 DEF SetAllowance
  <2>6. allowance' = NoAllowance
    BY <2>1, <2>2, <2>5 DEF LenderAllowance, NoAllowance
  <2>7. QED BY <1>6, <2>2, <2>6 DEF Settle, Goto, AllowanceInv
<1>7. CASE EndRun
  BY <1>7, ZeroAllowance DEF EndRun, EndTransaction, Goto, AllowanceInv
<1>8. CASE RevertRun
  BY <1>8 DEF RevertRun, EndTransaction, Goto, AllowanceInv
<1>9. CASE UNCHANGED execVars
  BY <1>9
  DEF execVars, settings, runVars, tokenVars, controlVars, AllowanceInv, LenderAllowance,
      RunLender, AmountOwed
<1>10. QED
  BY <1>1, <1>2, <1>3, <1>4, <1>5, <1>6, <1>7, <1>8, <1>9, ExecCases

(* Between two transactions nobody holds an allowance, whichever lender    *)
(* and steps were used and wherever a run failed.                          *)
THEOREM NoStandingAllowanceHolds == ExecSpec => []NoStandingAllowance
<1>1. ExecInit => ExecTypeInv /\ AllowanceInv
  BY ExecTypeInit DEF ExecInit, AllowanceInv
<1>2. ExecTypeInv /\ AllowanceInv /\ [ExecNext]_execVars => (ExecTypeInv /\ AllowanceInv)'
  BY ExecTypeNext, AllowanceNext
<1>3. AllowanceInv => NoStandingAllowance
  BY DEF AllowanceInv, NoStandingAllowance
<1>4. QED BY <1>1, <1>2, <1>3, PTL DEF ExecSpec

-----------------------------------------------------------------------------
(* Balances.  A run moves allowed tokens only, measures itself against the *)
(* balance before the loan, and once the lender may collect it has covered *)
(* the debt and the minimum profit.                                        *)

BalanceInv ==
  pc # "idle" =>
    /\ activeAsset \in allowedToken
    /\ baselineBalance = saved.balance[activeAsset]
    /\ \A t \in Token \ allowedToken : balance[t] = saved.balance[t]
    /\ pc = "settle" =>
         balance[activeAsset] >= baselineBalance + AmountOwed + requestedMinProfit
    /\ pc = "end" => balance[activeAsset] >= baselineBalance + requestedMinProfit

(* A trade of allowed tokens leaves every other balance alone. *)
LEMMA TradeElsewhere ==
  ASSUME balance \in [Token -> Nat], NEW tOut \in allowedToken, NEW tIn \in allowedToken,
         NEW spent, NEW received, Trade(tOut, spent, tIn, received),
         NEW t \in Token \ allowedToken
  PROVE  balance'[t] = balance[t]
  BY DEF Trade

LEMMA BodyStepElsewhere ==
  ASSUME ExecTypeOK, BodyStep, NEW t \in Token \ allowedToken
  PROVE  balance'[t] = balance[t]
<1>1. PICK tOut \in allowedToken, tIn \in allowedToken, spent \in Nat, received \in Nat :
        Trade(tOut, spent, tIn, received)
  BY BodyStepEffect
<1>2. balance \in [Token -> Nat]
  BY DEF ExecTypeOK
<1>3. QED BY <1>1, <1>2, TradeElsewhere

LEMMA BalanceNext ==
  ExecTypeInv /\ BalanceInv /\ [ExecNext]_execVars => BalanceInv'
<1> SUFFICES ASSUME ExecTypeInv, BalanceInv, [ExecNext]_execVars PROVE BalanceInv'
  OBVIOUS
<1>1. CASE Configure
  BY <1>1, ConfigureFrame DEF BalanceInv, controlVars
<1>2. ASSUME NEW caller \in Account, NEW asset \in Token, NEW amount \in Amounts,
             NEW minProfit \in Amounts, NEW plan \in Plans,
             BeginRun(caller, asset, amount, minProfit, plan)
      PROVE  BalanceInv'
  BY <1>2 DEF BeginRun, MayRun, Submit, Goto, BalanceInv, settings, tokenVars
<1>3. ASSUME NEW charge \in Premiums, Lend(charge) PROVE BalanceInv'
  <2>1. balance \in [Token -> Nat]
    BY DEF ExecTypeInv, ExecTypeOK
  <2>2. \A t \in Token \ allowedToken : balance'[t] = balance[t]
    BY <1>3, <2>1 DEF Lend, BalanceInv
  <2>3. QED BY <1>3, <2>2 DEF Lend, Goto, BalanceInv, settings, runVars
<1>4. CASE BodyStep
  <2>1. pc = "body" /\ UNCHANGED <<settings, runVars, pc, premium, saved>>
    BY <1>4, BodyStepEffect DEF ExecTypeInv
  <2>2. \A t \in Token \ allowedToken : balance'[t] = balance[t]
    BY <1>4, BodyStepElsewhere DEF ExecTypeInv
  <2>3. QED BY <2>1, <2>2 DEF BalanceInv, settings, runVars
<1>5. CASE FinishBody
  BY <1>5 DEF FinishBody, Goto, BalanceInv, AmountOwed, settings, runVars
<1>6. CASE Settle
  <2>1. /\ pc = "settle" /\ pc' = "end"
        /\ UNCHANGED <<settings, runVars, premium, todo, saved>>
        /\ balance' = [balance EXCEPT ![activeAsset] = @ - AmountOwed]
    BY <1>6 DEF Settle, Goto
  <2>2. /\ balance \in [Token -> Nat] /\ activeAsset \in Token /\ activeAsset \in allowedToken
        /\ baselineBalance \in Nat /\ requestedMinProfit \in Nat /\ AmountOwed \in Nat
    BY <2>1 DEF BalanceInv, ExecTypeInv, ExecTypeOK, RunInv, AmountOwed
  <2>3. balance[activeAsset] >= baselineBalance + AmountOwed + requestedMinProfit
    BY <2>1 DEF BalanceInv
  <2>4. balance'[activeAsset] = balance[activeAsset] - AmountOwed
    BY <2>1, <2>2
  <2>5. balance[activeAsset] \in Nat
    BY <2>2
  <2>6. balance'[activeAsset] >= baselineBalance + requestedMinProfit
    BY <2>2, <2>3, <2>4, <2>5
  <2>7. \A t \in Token \ allowedToken : balance'[t] = balance[t]
    BY <2>1, <2>2
  <2>8. QED BY <2>1, <2>6, <2>7 DEF BalanceInv, settings, runVars
<1>7. CASE EndRun \/ RevertRun
  BY <1>7 DEF EndRun, RevertRun, EndTransaction, Goto, BalanceInv
<1>8. CASE UNCHANGED execVars
  BY <1>8 DEF execVars, settings, runVars, tokenVars, controlVars, BalanceInv, AmountOwed
<1>9. QED
  BY <1>1, <1>2, <1>3, <1>4, <1>5, <1>6, <1>7, <1>8, ExecCases

ExecInv == ExecTypeInv /\ BalanceInv

LEMMA ExecInvariant == ExecSpec => []ExecInv
<1>1. ExecInit => ExecInv
  BY ExecTypeInit DEF ExecInit, ExecInv, BalanceInv
<1>2. ExecInv /\ [ExecNext]_execVars => ExecInv'
  BY ExecTypeNext, BalanceNext DEF ExecInv
<1>3. QED BY <1>1, <1>2, PTL DEF ExecSpec

(* Once the lender has been paid the contract holds at least the minimum   *)
(* profit more than before the run: the last check of a run never fails    *)
(* after an honest lender.                                                 *)
THEOREM MinimumProfitKeptHolds == ExecSpec => []MinimumProfitKept
<1>1. ExecInv => MinimumProfitKept
  BY DEF ExecInv, BalanceInv, MinimumProfitKept
<1>2. QED BY <1>1, ExecInvariant, PTL

LEMMA OnlyAllowedStep ==
  ASSUME ExecInv, [ExecNext]_execVars, NEW t \in Token \ allowedToken
  PROVE  balance'[t] = balance[t]
<1> USE DEF ExecInv
<1>1. CASE UNCHANGED balance
  BY <1>1
<1>2. ASSUME NEW charge \in Premiums, Lend(charge) PROVE balance'[t] = balance[t]
  BY <1>2 DEF Lend, BalanceInv, ExecTypeInv, ExecTypeOK
<1>3. CASE BodyStep
  BY <1>3, BodyStepElsewhere DEF ExecTypeInv
<1>4. CASE Settle
  BY <1>4 DEF Settle, BalanceInv, ExecTypeInv, ExecTypeOK
<1>5. CASE RevertRun
  BY <1>5 DEF RevertRun, BalanceInv
<1>6. QED
  BY <1>1, <1>2, <1>3, <1>4, <1>5, ExecCases
  DEF Configure, BeginRun, Submit, FinishBody, EndRun, tokenVars, execVars

(* No step of any transaction, its undoing included, changes the balance   *)
(* of a token the owner has not allowed.                                   *)
THEOREM OnlyAllowedTokensMoveHolds == ExecSpec => OnlyAllowedTokensMove
<1>1. ExecInv /\ [ExecNext]_execVars =>
        [\A t \in Token : balance'[t] # balance[t] => t \in allowedToken]_execVars
  BY OnlyAllowedStep
<1>2. QED BY <1>1, ExecInvariant, PTL DEF ExecSpec, OnlyAllowedTokensMove

-----------------------------------------------------------------------------
(* The refinement. *)

Holdings == IF pc = "idle" THEN balance ELSE saved.balance

LEMMA TreasuryStep ==
  ASSUME ExecInv, [ExecNext]_execVars
  PROVE  [Treasury!TreasuryNext]_(Treasury!treasuryVars)
<1> USE DEF ExecInv, ExecTypeInv
<1>1. Treasury!treasuryVars = <<Holdings, allowedToken>>
  BY DEF Treasury!treasuryVars, Holdings
<1>2. CASE Configure
  <2>1. pc = "idle" /\ pc' = "idle" /\ balance' = balance
    BY <1>2, ConfigureFrame DEF tokenVars, controlVars
  <2>2. allowedToken' \in SUBSET Token
    BY <1>2, ConfigureType DEF ExecTypeOK
  <2>3. Treasury!Allow(allowedToken')
    BY <2>1 DEF Treasury!Allow
  <2>4. QED BY <2>2, <2>3 DEF Treasury!TreasuryNext
<1>3. CASE EndRun
  <2>1. pc = "end" /\ pc' = "idle" /\ UNCHANGED <<settings, balance>>
        /\ balance[activeAsset] >= baselineBalance + requestedMinProfit
    BY <1>3 DEF EndRun, EndTransaction, Goto
  <2>2. activeAsset \in Token /\ activeAsset \in allowedToken /\ balance \in [Token -> Nat]
        /\ baselineBalance = saved.balance[activeAsset]
        /\ \A t \in Token \ allowedToken : balance[t] = saved.balance[t]
    BY <2>1 DEF BalanceInv, RunInv, ExecTypeOK
  <2>3. balance[activeAsset] \in Nat /\ baselineBalance \in Nat /\ requestedMinProfit \in Nat
    BY <2>2 DEF ExecTypeOK
  <2>4. balance[activeAsset] >= saved.balance[activeAsset]
    BY <2>1, <2>2, <2>3
  <2>5. Treasury!Gain(activeAsset)
    BY <2>1, <2>2, <2>4 DEF Treasury!Gain, settings
  <2>6. QED BY <2>2, <2>5 DEF Treasury!TreasuryNext
<1>4. CASE RevertRun
  BY <1>4 DEF RevertRun, EndTransaction, Goto, settings, Treasury!treasuryVars
<1>5. ASSUME NEW caller \in Account, NEW asset \in Token, NEW amount \in Amounts,
             NEW minProfit \in Amounts, NEW plan \in Plans,
             BeginRun(caller, asset, amount, minProfit, plan)
      PROVE  UNCHANGED Treasury!treasuryVars
  BY <1>5 DEF BeginRun, Submit, Goto, settings, tokenVars, Treasury!treasuryVars
<1>6. CASE BodyStep
  <2>1. pc = "body" /\ UNCHANGED <<settings, pc, saved>>
    BY <1>6, BodyStepEffect
  <2>2. QED BY <2>1 DEF settings, Treasury!treasuryVars
<1>7. CASE (\E charge \in Premiums : Lend(charge)) \/ FinishBody \/ Settle
  BY <1>7 DEF Lend, FinishBody, Settle, Goto, settings, Treasury!treasuryVars
<1>8. CASE UNCHANGED execVars
  BY <1>8 DEF execVars, settings, tokenVars, controlVars, Treasury!treasuryVars
<1>9. QED
  BY <1>2, <1>3, <1>4, <1>5, <1>6, <1>7, <1>8, ExecCases

(* ZeroExecutor implements FlashTreasury: whole runs, that never cost any  *)
(* of the borrowed asset, are all its owner sees.                          *)
THEOREM TreasuryImplemented == ExecSpec => ImplementsTreasury
<1>1. ExecInit => Treasury!TreasuryInit
  BY DEF ExecInit, NoBalance, Treasury!TreasuryInit
<1>2. ExecInv /\ [ExecNext]_execVars => [Treasury!TreasuryNext]_(Treasury!treasuryVars)
  BY TreasuryStep
<1>3. QED
  BY <1>1, <1>2, ExecInvariant, PTL DEF ExecSpec, ImplementsTreasury, Treasury!TreasurySpec
=============================================================================
