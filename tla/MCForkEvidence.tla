--------------------------- MODULE MCForkEvidence ---------------------------
(* Small instances of ForkEvidence for TLC. *)
EXTENDS ForkEvidence

(* Two loans, of which the larger pays a higher premium; a Uniswap route, a *)
(* mixed one, a three-hop one and a borrower.                              *)
MCKinds == [uni |-> "cycle", mixed |-> "multidex", hop |-> "multihop",
            owner |-> "liquidation"]
MCRoutes == DOMAIN MCKinds

MCGrosses == {0, 3}

(* A position that is covered by half, one that is covered in full, one     *)
(* whose collateral does not suffice, and one that is healthy.             *)
MCBorrowers ==
  {[debt |-> 4000, collateral |-> 9000, health |-> 98, price |-> 2, bonus |-> 10500, fee |-> 1000],
   [debt |-> 1100, collateral |-> 900, health |-> 90, price |-> 2, bonus |-> 10500, fee |-> 1000],
   [debt |-> 1100, collateral |-> 9000, health |-> 120, price |-> 2, bonus |-> 10500, fee |-> 1000]}
=============================================================================
