------------------------------ MODULE RouteScan ------------------------------
(***************************************************************************)
(* How ShadowEngine and the liquidation scanner turn the quotes of one     *)
(* block into an admitted candidate.  Token amounts are raw units of the   *)
(* base token, dollars are counted in a unit of which Price make one raw   *)
(* unit, so every figure is an integer.  Quotes are given: a quote of a    *)
(* loan is the gross round-trip profit, a refusal (an application error of *)
(* the quoter, an empty leg, a range that cannot be trusted) or a          *)
(* transport error.  Legacy scanning of configured cycles is left out.     *)
(***************************************************************************)
EXTENDS Integers, FiniteSets

CONSTANTS
  Ladder,          \* size_ladder_usd, as loans
  Probe,           \* multidex_probe_usd, as a loan
  Wider,           \* ladder_widen_sizes_usd, as loans
  WidenThreshold,  \* ladder_widen_threshold_usd
  Price,           \* dollars of one raw unit of the base token
  Gas,             \* gas_usd of the scan context
  ScanBps,         \* premium_bps of the scan context
  Grosses,         \* gross profits a quote may show
  Borrowers        \* states a borrower may be in

ASSUME ScanAssumption ==
  /\ IsFiniteSet(Ladder) /\ IsFiniteSet(Wider)
  /\ Ladder \subseteq Nat \ {0} /\ Probe \in Nat \ {0} /\ Wider \subseteq Nat \ {0}
  /\ WidenThreshold \in Nat /\ Price \in Nat \ {0} /\ Gas \in Nat /\ ScanBps \in Nat
  /\ Grosses \subseteq Int
  /\ Borrowers \subseteq [debt : Nat, collateral : Nat, health : Nat,
                          price : Nat \ {0}, bonus : Nat \ {0}, fee : 0..10000]

Loans == Ladder \cup {Probe} \cup Wider
Quotes == [got : {"amount"}, gross : Grosses]
            \cup [got : {"refused", "transport"}, gross : {0}]
(* The local model of a pool's current range: it may not trust itself.      *)
LocalQuotes == {q \in Quotes : q.got # "transport"}
Kinds == {"cycle", "multidex", "multihop", "liquidation"}

FlashFee(loan, bps) == (loan * bps + 5000) \div 10000

CeilDiv(a, b) == (a + b - 1) \div b

ScanFee(kind, loan) ==
  IF kind = "liquidation" THEN CeilDiv(loan * ScanBps, 10000)
                          ELSE FlashFee(loan, ScanBps)

(* swarm_expected_net: gross, less the premium, gas and the model reserve.  *)
Net(kind, loan, gross, reserve) ==
  (gross - ScanFee(kind, loan)) * Price - Gas - reserve

(* Dollars in raw units, never rounded down.                                *)
RawCeil(usd) == CeilDiv(usd, Price)

(* Faulty variant: the floor handed to the contract forgets the reserve. *)
MinProfitOfGas(reserve) == RawCeil(Gas) + 1

(* Gas and reserve in base units plus one raw unit.                         *)
MinProfit(reserve) == RawCeil(Gas + reserve) + 1

-----------------------------------------------------------------------------
(* "truth" is what the pools of the route give at this block; a candidate   *)
(* keeps it for the replay.                                                *)
Candidate(kind, loan, gross, truth, reserve) ==
  [kind |-> kind, executable |-> kind # "multihop", loan |-> loan,
   gross |-> gross, truth |-> truth, reserve |-> reserve,
   net |-> Net(kind, loan, gross, reserve), min |-> MinProfit(reserve)]

Positive(kind, loan, quote, reserve) ==
  quote.got = "amount" /\ Net(kind, loan, quote.gross, reserve) > 0

Answered(sizes, quotes) == {s \in sizes : quotes[s].got = "amount"}
TransportFails(sizes, quotes) == \E s \in sizes : quotes[s].got = "transport"

(* The loan of the highest net, the one tried first between equal ones: the *)
(* probe precedes the ladder, which ascends.                               *)
Best(kind, sizes, quotes, reserve) ==
  LET net(s) == Net(kind, s, quotes[s].gross, reserve)
      top == {s \in sizes : \A t \in sizes : net(t) <= net(s)}
  IN IF kind # "cycle" /\ Probe \in top THEN Probe
     ELSE CHOOSE s \in top : \A t \in top : s <= t

(* The best of the answered sizes, unless its net is not positive.          *)
Admitted(kind, sizes, quotes, reserve) ==
  LET best == Best(kind, sizes, quotes, reserve)
  IN IF sizes # {} /\ Positive(kind, best, quotes[best], reserve)
       THEN {Candidate(kind, best, quotes[best].gross, quotes[best].gross, reserve)}
       ELSE {}

(* scan_multidex_route: the whole ladder after a positive probe, a few      *)
(* larger loans after one that is barely not; nothing without a probe.      *)
MultidexSizes(quotes, reserve) ==
  LET net == Net("multidex", Probe, quotes[Probe].gross, reserve)
  IN {Probe} \cup
     CASE quotes[Probe].got # "amount" -> {}
       [] net > 0 -> Ladder
       [] net <= 0 /\ net > -WidenThreshold -> {w \in Wider : w > Probe}
       [] OTHER -> {}

ScanMultidex(quotes, reserve, ready) ==
  LET sizes == MultidexSizes(quotes, reserve)
      answered == Answered(sizes, quotes)
  IN IF TransportFails(sizes, quotes) \/ Probe \notin answered \/ ~ ready
       THEN {}
       ELSE Admitted("multidex", answered, quotes, reserve)

(* scan_multihop_route: the ladder after a positive probe.                  *)
ScanMultihop(quotes, reserve) ==
  LET probed == Positive("multihop", Probe, quotes[Probe], reserve)
      sizes == {Probe} \cup (IF probed THEN Ladder ELSE {})
      answered == Answered(sizes, quotes)
  IN IF TransportFails(sizes, quotes) \/ Probe \notin answered
       THEN {}
       ELSE Admitted("multihop", answered, quotes, reserve)

(* Faulty variant: the promise of the local model is admitted as it is. *)
TrustLocalModel(promised, exact, reserve) ==
  {[c EXCEPT !.truth = exact[c.loan].gross] : c \in promised}

(* _exact_swarm_preflight: the chosen loan again, from the quoter; whatever *)
(* goes wrong there fails the route.                                       *)
ExactPreflight(promised, exact, reserve) ==
  UNION {Admitted("cycle", Answered({c.loan}, exact), exact, reserve) : c \in promised}

(* scan_cycle_config: every loan on the local single-range model, the best  *)
(* of them on the quoter when it promises anything.                        *)
ScanCycle(local, exact, reserve) ==
  ExactPreflight(Admitted("cycle", Answered(Ladder, local), local, reserve),
                 exact, reserve)

-----------------------------------------------------------------------------
(* A borrower with one debt and one collateral; health is in hundredths,    *)
(* price is that of the collateral, MinBase is 2000 dollars in the module's *)
(* unit.                                                                   *)
MinBase == 2000 * Price

Liquidatable(b) == b.health < 100 /\ b.debt > 0

MaxDebtToCover(b) ==
  IF b.health > 95 /\ b.collateral * b.price >= MinBase /\ b.debt * Price >= MinBase
    THEN b.debt \div 2
    ELSE b.debt

(* _collateral_for_debt: what is seized for the debt that may be covered,   *)
(* and less debt when the collateral does not suffice for all of it.       *)
Seized(b, cover) == (cover * Price * b.bonus) \div (b.price * 10000)

CollateralForDebt(b) ==
  LET most == MaxDebtToCover(b)
      short == Seized(b, most) > b.collateral
      seized == IF short THEN b.collateral ELSE Seized(b, most)
      reward == seized - (seized * 10000) \div b.bonus
  IN [cover |-> IF short THEN CeilDiv(b.collateral * b.price * 10000, Price * b.bonus)
                         ELSE most,
      received |-> seized - CeilDiv(reward * b.fee, 10000)]

(* quote_liquidation: one unwind of one borrower.                           *)
QuoteLiquidation(b, unwind, reserve) ==
  LET seized == CollateralForDebt(b)
  IN IF /\ Liquidatable(b) /\ seized.cover > 0 /\ seized.received > 0
        /\ Positive("liquidation", seized.cover, unwind, reserve)
       THEN {Candidate("liquidation", seized.cover, unwind.gross, unwind.gross, reserve)}
       ELSE {}

(* scan_liquidation_watchlist: the best unwind; one that fails is skipped.  *)
ScanBorrower(b, unwinds, reserve) ==
  LET found == UNION {QuoteLiquidation(b, q, reserve) : q \in unwinds}
  IN {c \in found : \A d \in found : d.net <= c.net}
=============================================================================
