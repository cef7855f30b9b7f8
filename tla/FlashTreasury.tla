---------------------------- MODULE FlashTreasury ----------------------------
(***************************************************************************)
(* What ZeroExecutor promises its owner, without loans, steps, approvals   *)
(* or callbacks: the contract's holdings change only by whole runs, a run  *)
(* never costs any of the asset it borrows, and it touches no token the    *)
(* owner has not allowed.  A run that fails leaves no trace.  ZeroExecutor *)
(* implements this specification.                                          *)
(***************************************************************************)
EXTENDS Integers

CONSTANT Token    \* ERC-20 tokens

VARIABLES
  holdings,   \* the contract's balance of each token, between transactions
  usable      \* the tokens the owner allows

treasuryVars == <<holdings, usable>>

TreasuryInit ==
  /\ holdings = [t \in Token |-> 0]
  /\ usable = {}

Allow(tokens) ==
  /\ usable' = tokens
  /\ UNCHANGED holdings

(* A run that borrows asset; other allowed tokens may be traded away. *)
Gain(asset) ==
  /\ asset \in usable
  /\ holdings' \in [Token -> Nat]
  /\ holdings'[asset] >= holdings[asset]
  /\ \A t \in Token \ usable : holdings'[t] = holdings[t]
  /\ UNCHANGED usable

TreasuryNext ==
  \/ \E tokens \in SUBSET Token : Allow(tokens)
  \/ \E asset \in Token : Gain(asset)

TreasurySpec == TreasuryInit /\ [][TreasuryNext]_treasuryVars
=============================================================================
