---------------------------- MODULE MCTradeDesk ----------------------------
(***************************************************************************)
(* Small instances of TradeDesk for TLC.  The wallet wants more            *)
(* transactions than the loops can carry: enough for its log to fill up,   *)
(* be lost and fill up again.  So each behaviour has one of two scopes: in *)
(* "wallet" the loops stand still and each process passes the gate when it *)
(* is idle, with MaxShots transactions; in "desk" the loops run, with      *)
(* DeskShots.                                                              *)
(***************************************************************************)
EXTENDS TradeDesk

CONSTANT DeskShots  \* bound of the transactions in scope "desk"

VARIABLE scope

mcVars == <<vars, scope>>

MCInit == Init /\ scope \in {"wallet", "desk"}

WalletScope ==
  /\ scope = "wallet"
  /\ WalletNext
  /\ UNCHANGED <<traderVars, sniperVars, chainVars>>

DeskScope ==
  /\ scope = "desk"
  /\ Next
  /\ burnt' <= DeskShots

MCNext == (WalletScope \/ DeskScope) /\ UNCHANGED scope

MCSpec == MCInit /\ [][MCNext]_mcVars
=============================================================================
