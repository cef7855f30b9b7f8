------------------------- MODULE ForkEvidenceProofs -------------------------
(***************************************************************************)
(* Theorems about ForkEvidence, for any ladder, prices, gas, premiums and  *)
(* evidence policy.                                                        *)
(***************************************************************************)
EXTENDS ForkEvidence, TLAPS, FiniteSetTheorems, WellFoundedInduction

-----------------------------------------------------------------------------
(* Finite sets of figures have a least and a greatest member.               *)

LEMMA LeastNat ==
  ASSUME NEW S \in SUBSET Nat, S # {}
  PROVE  \E m \in S : \A n \in S : m <= n
<1>1. PICK m \in S : \A n \in S : ~ (<<n, m>> \in OpToRel(<, Nat))
  BY NatLessThanWellFounded, WFMin
<1>2. \A n \in S : ~ (n < m)
  BY <1>1 DEF OpToRel
<1>3. QED BY <1>2

(* The member that the fewest exceed is exceeded by none.                   *)
LEMMA GreatestOf ==
  ASSUME NEW S, IsFiniteSet(S), S # {}, NEW f \in [S -> Int]
  PROVE  \E s \in S : \A t \in S : f[t] <= f[s]
<1> DEFINE Above(s) == {t \in S : f[s] < f[t]}
           Ranks == {n \in Nat : \E s \in S : n = Cardinality(Above(s))}
<1>1. \A s \in S : IsFiniteSet(Above(s)) /\ Cardinality(Above(s)) \in Nat
  BY FS_Subset, FS_CardinalityType
<1>2. Ranks # {}
  BY <1>1
<1>3. PICK m \in Ranks : \A n \in Ranks : m <= n
  BY <1>2, LeastNat
<1>4. PICK s \in S : m = Cardinality(Above(s))
  BY <1>3
<1>5. ASSUME NEW t \in S, f[s] < f[t] PROVE FALSE
  <2>1. Above(t) \subseteq Above(s) /\ t \in Above(s) /\ t \notin Above(t)
    BY <1>5
  <2>2. Cardinality(Above(t)) <= Cardinality(Above(s))
        /\ Cardinality(Above(t)) # Cardinality(Above(s))
    BY <1>1, <2>1, FS_Subset
  <2>3. Cardinality(Above(t)) \in Ranks
    BY <1>1
  <2>4. Cardinality(Above(s)) <= Cardinality(Above(t))
    BY <1>3, <1>4, <2>3
  <2> HIDE DEF Above
  <2>5. QED BY <1>1, <2>2, <2>4
<1>6. QED BY <1>5

-----------------------------------------------------------------------------
(* What a scan admits.                                                      *)

(* The assumptions on the figures, one kind at a time.                      *)
LEMMA LoanFigures ==
  /\ IsFiniteSet(Ladder) /\ IsFiniteSet(Wider)
  /\ Ladder \subseteq Nat \ {0} /\ Probe \in Nat \ {0} /\ Wider \subseteq Nat \ {0}
  BY ScanAssumption

LEMMA PriceFigures ==
  Price \in Nat \ {0} /\ Gas \in Nat /\ ScanBps \in Nat /\ Grosses \subseteq Int
  BY ScanAssumption

LEMMA BorrowerFigures ==
  ASSUME NEW b \in Borrowers
  PROVE  /\ b.debt \in Nat /\ b.collateral \in Nat /\ b.price \in Nat \ {0}
         /\ b.bonus \in Nat \ {0}
<1>1. b \in [debt : Nat, collateral : Nat, health : Nat, price : Nat \ {0},
            bonus : Nat \ {0}, fee : 0..10000]
  BY ScanAssumption
<1>2. QED BY <1>1

(* A candidate as RouteScan builds it, admitted with this reserve.          *)
Good(c, reserve) ==
  \E kind \in Kinds, loan \in Nat, gross \in Int, truth \in Int :
    /\ c = Candidate(kind, loan, gross, truth, reserve)
    /\ Net(kind, loan, gross, reserve) > 0
    /\ kind = "cycle" => truth = gross

LEMMA NetType ==
  ASSUME NEW kind \in Kinds, NEW loan \in Nat, NEW gross \in Int, NEW reserve \in Nat
  PROVE  Net(kind, loan, gross, reserve) \in Int /\ ScanFee(kind, loan) \in Nat
<1>1. loan * ScanBps \in Nat
  BY ScanAssumption
<1>2. ScanFee(kind, loan) \in Nat
  BY <1>1 DEF ScanFee, FlashFee, CeilDiv
<1>3. (gross - ScanFee(kind, loan)) * Price \in Int
  BY <1>2, ScanAssumption
<1>4. QED BY <1>2, <1>3, ScanAssumption DEF Net

LEMMA BestIsAnswered ==
  ASSUME NEW kind \in Kinds, NEW sizes \in SUBSET Nat, IsFiniteSet(sizes), sizes # {},
         NEW quotes, \A s \in sizes : quotes[s].gross \in Int, NEW reserve \in Nat
  PROVE  Best(kind, sizes, quotes, reserve) \in sizes
<1> DEFINE net(s) == Net(kind, s, quotes[s].gross, reserve)
           top == {s \in sizes : \A t \in sizes : net(t) <= net(s)}
           f == [s \in sizes |-> net(s)]
<1>1. f \in [sizes -> Int]
  BY NetType
<1>2. top # {}
  <2>1. PICK s \in sizes : \A t \in sizes : f[t] <= f[s]
    BY <1>1, GreatestOf
  <2>2. s \in top
    BY <2>1
  <2>3. QED BY <2>2
<1>3. \E s \in top : \A t \in top : s <= t
  BY <1>2, LeastNat
<1>4. (CHOOSE s \in top : \A t \in top : s <= t) \in top
  BY <1>3
<1>5. QED BY <1>4 DEF Best

LEMMA AdmittedIsGood ==
  ASSUME NEW kind \in Kinds, NEW sizes \in SUBSET Nat, IsFiniteSet(sizes),
         NEW quotes, \A s \in sizes : quotes[s].gross \in Int, NEW reserve \in Nat,
         NEW c \in Admitted(kind, sizes, quotes, reserve)
  PROVE  Good(c, reserve) /\ c.loan \in sizes
<1> DEFINE best == Best(kind, sizes, quotes, reserve)
<1>1. /\ sizes # {} /\ Positive(kind, best, quotes[best], reserve)
      /\ c = Candidate(kind, best, quotes[best].gross, quotes[best].gross, reserve)
  BY DEF Admitted
<1>2. best \in sizes
  BY <1>1, BestIsAnswered
<1>3. quotes[best].gross \in Int /\ Net(kind, best, quotes[best].gross, reserve) > 0
  BY <1>1, <1>2 DEF Positive
<1>4. c.loan = best
  BY <1>1 DEF Candidate
<1>5. QED BY <1>1, <1>2, <1>3, <1>4 DEF Good

LEMMA QuoteGross ==
  /\ \A q \in Quotes : q.gross \in Int
  /\ LocalQuotes \subseteq Quotes
<1>1. ASSUME NEW q \in [got : {"amount"}, gross : Grosses] PROVE q.gross \in Int
  BY PriceFigures
<1>2. ASSUME NEW q \in [got : {"refused", "transport"}, gross : {0}] PROVE q.gross \in Int
  OBVIOUS
<1>3. QED BY <1>1, <1>2 DEF Quotes, LocalQuotes

LEMMA LoansFinite ==
  /\ Loans \subseteq Nat /\ IsFiniteSet(Loans)
  /\ Ladder \subseteq Loans /\ Wider \subseteq Loans /\ Probe \in Loans
<1>1. IsFiniteSet({Probe})
  BY FS_Singleton
<1>2. IsFiniteSet(Ladder \cup {Probe})
  BY <1>1, FS_Union, LoanFigures
<1>3. IsFiniteSet((Ladder \cup {Probe}) \cup Wider)
  BY <1>2, FS_Union, LoanFigures
<1>4. QED BY <1>3, LoanFigures DEF Loans

(* A scan of some of the loans admits only what is good.                    *)
LEMMA ScanIsGood ==
  ASSUME NEW kind \in Kinds, NEW sizes \in SUBSET Loans,
         NEW quotes, \A s \in sizes : quotes[s] \in Quotes, NEW reserve \in Nat,
         NEW c \in Admitted(kind, Answered(sizes, quotes), quotes, reserve)
  PROVE  Good(c, reserve) /\ c.loan \in sizes
<1>1. Answered(sizes, quotes) \subseteq sizes
  BY DEF Answered
<1>2. IsFiniteSet(Answered(sizes, quotes)) /\ Answered(sizes, quotes) \in SUBSET Nat
  BY <1>1, LoansFinite, FS_Subset
<1>3. \A s \in Answered(sizes, quotes) : quotes[s].gross \in Int
  BY <1>1, QuoteGross
<1>4. Good(c, reserve) /\ c.loan \in Answered(sizes, quotes)
  BY <1>2, <1>3, AdmittedIsGood
<1>5. QED BY <1>1, <1>4

LEMMA CycleIsGood ==
  ASSUME NEW local \in [Ladder -> LocalQuotes], NEW exact \in [Ladder -> Quotes],
         NEW reserve \in Nat, NEW c \in ScanCycle(local, exact, reserve)
  PROVE  Good(c, reserve)
<1>1. PICK d \in Admitted("cycle", Answered(Ladder, local), local, reserve) :
        c \in Admitted("cycle", Answered({d.loan}, exact), exact, reserve)
  BY DEF ScanCycle, ExactPreflight
<1>2. "cycle" \in Kinds
  BY DEF Kinds
<1>3. d.loan \in Ladder
  BY <1>1, <1>2, LoansFinite, QuoteGross, ScanIsGood
<1>4. {d.loan} \in SUBSET Loans /\ \A s \in {d.loan} : exact[s] \in Quotes
  BY <1>3, LoansFinite
<1>5. QED BY <1>1, <1>2, <1>4, ScanIsGood

LEMMA MultidexIsGood ==
  ASSUME NEW quotes \in [Loans -> Quotes], NEW reserve \in Nat, NEW ready,
         NEW c \in ScanMultidex(quotes, reserve, ready)
  PROVE  Good(c, reserve)
<1> DEFINE sizes == MultidexSizes(quotes, reserve)
<1>1. sizes \subseteq Loans
  BY LoansFinite DEF MultidexSizes
<1>2. c \in Admitted("multidex", Answered(sizes, quotes), quotes, reserve)
  BY DEF ScanMultidex
<1>3. "multidex" \in Kinds
  BY DEF Kinds
<1>4. QED BY <1>1, <1>2, <1>3, ScanIsGood

LEMMA MultihopIsGood ==
  ASSUME NEW quotes \in [Loans -> Quotes], NEW reserve \in Nat,
         NEW c \in ScanMultihop(quotes, reserve)
  PROVE  Good(c, reserve)
<1>1. PICK sizes \in SUBSET Loans :
        c \in Admitted("multihop", Answered(sizes, quotes), quotes, reserve)
  BY LoansFinite DEF ScanMultihop
<1>2. "multihop" \in Kinds
  BY DEF Kinds
<1>3. QED BY <1>1, <1>2, ScanIsGood

LEMMA Product == \A m, n \in Nat : m * n \in Nat /\ (m # 0 /\ n # 0 => m * n # 0)
  OBVIOUS

LEMMA CoverType ==
  ASSUME NEW b \in Borrowers
  PROVE  CollateralForDebt(b).cover \in Nat
<1>1. /\ b.debt \in Nat /\ b.collateral \in Nat /\ b.price \in Nat \ {0}
      /\ b.bonus \in Nat \ {0}
  BY BorrowerFigures
<1>2. MaxDebtToCover(b) \in Nat
  BY <1>1 DEF MaxDebtToCover
<1>3. b.collateral * b.price * 10000 \in Nat /\ Price * b.bonus \in Nat \ {0}
  BY <1>1, Product, PriceFigures
<1>4. CeilDiv(b.collateral * b.price * 10000, Price * b.bonus) \in Nat
  BY <1>3 DEF CeilDiv
<1>5. QED BY <1>2, <1>4 DEF CollateralForDebt

LEMMA BorrowerIsGood ==
  ASSUME NEW b \in Borrowers, NEW unwinds \in SUBSET Quotes, NEW reserve \in Nat,
         NEW c \in ScanBorrower(b, unwinds, reserve)
  PROVE  Good(c, reserve)
<1>1. PICK q \in unwinds : c \in QuoteLiquidation(b, q, reserve)
  BY DEF ScanBorrower
<1> DEFINE cover == CollateralForDebt(b).cover
<1>2. /\ Positive("liquidation", cover, q, reserve)
      /\ c = Candidate("liquidation", cover, q.gross, q.gross, reserve)
  BY <1>1 DEF QuoteLiquidation
<1>3. cover \in Nat /\ q.gross \in Int /\ "liquidation" \in Kinds
  BY CoverType, QuoteGross DEF Kinds
<1>4. QED BY <1>2, <1>3 DEF Good, Positive

LEMMA FindingsAreGood ==
  ASSUME NEW r \in Routes, config = frozen, frozen \in Nat,
         NEW found \in Findings(r), NEW c \in found
  PROVE  Good(c, frozen)
<1>1. CASE KindOf[r] = "cycle"
  BY <1>1, CycleIsGood DEF Findings
<1>2. CASE KindOf[r] = "multidex"
  BY <1>2, MultidexIsGood DEF Findings
<1>3. CASE KindOf[r] = "multihop"
  BY <1>3, MultihopIsGood DEF Findings
<1>4. CASE KindOf[r] \notin {"cycle", "multidex", "multihop"}
  <2>1. PICK b \in Borrowers, q \in Quotes : found = ScanBorrower(b, {q}, frozen)
    BY <1>4 DEF Findings
  <2>2. {q} \in SUBSET Quotes
    OBVIOUS
  <2>3. QED BY <2>1, <2>2, BorrowerIsGood
<1>5. QED BY <1>1, <1>2, <1>3, <1>4

-----------------------------------------------------------------------------
(* The sample quantile.                                                     *)

Upto(sample, v) == {i \in DOMAIN sample : sample[i] <= v}
Below(sample, v) == {i \in DOMAIN sample : sample[i] < v}

LEMMA Counts ==
  ASSUME NEW n \in Nat, NEW sample \in [1..n -> Nat], NEW v \in Nat
  PROVE  /\ IsFiniteSet(Upto(sample, v)) /\ Cardinality(Upto(sample, v)) \in Nat
         /\ IsFiniteSet(Below(sample, v)) /\ Cardinality(Below(sample, v)) \in Nat
         /\ IsFiniteSet(1..n) /\ Cardinality(1..n) = n
<1>1. IsFiniteSet(1..n) /\ Cardinality(1..n) = n
  BY FS_Interval
<1>2. Upto(sample, v) \subseteq 1..n /\ Below(sample, v) \subseteq 1..n
  BY DEF Upto, Below
<1>3. IsFiniteSet(Upto(sample, v)) /\ IsFiniteSet(Below(sample, v))
  BY <1>1, <1>2, FS_Subset
<1>4. QED BY <1>1, <1>3, FS_CardinalityType

(* The least value that at least k of the sample do not exceed is exceeded  *)
(* from below by fewer than k.                                             *)
LEMMA QuantileExists ==
  ASSUME NEW n \in Nat, NEW sample \in [1..n -> Nat], NEW k \in 1..n
  PROVE  \E v \in {sample[i] : i \in DOMAIN sample} :
           Cardinality(Below(sample, v)) < k /\ Cardinality(Upto(sample, v)) >= k
<1> DEFINE Values == {sample[i] : i \in DOMAIN sample}
           Enough == {v \in Values : Cardinality(Upto(sample, v)) >= k}
<1>1. Values \subseteq Nat /\ sample \in [1..n -> Int] /\ 1..n # {}
  OBVIOUS
<1>2. PICK g \in 1..n : \A i \in 1..n : sample[i] <= sample[g]
  <2>1. IsFiniteSet(1..n) /\ 1..n # {}
    BY <1>1, Counts
  <2>2. QED BY <1>1, <2>1, GreatestOf
<1>3. Upto(sample, sample[g]) = 1..n
  BY <1>2 DEF Upto
<1>4. sample[g] \in Enough
  <2>1. sample[g] \in Values /\ sample[g] \in Nat
    OBVIOUS
  <2>2. Cardinality(Upto(sample, sample[g])) = n
    BY <1>3, <2>1, Counts
  <2>3. QED BY <2>1, <2>2
<1>5. PICK v \in Enough : \A u \in Enough : v <= u
  <2>1. Enough \in SUBSET Nat /\ Enough # {}
    BY <1>1, <1>4
  <2>2. QED BY <2>1, LeastNat
<1>6. ASSUME Cardinality(Below(sample, v)) >= k PROVE FALSE
  <2> DEFINE S == Below(sample, v)
  <2>1. v \in Nat /\ IsFiniteSet(S) /\ Cardinality(S) \in Nat /\ S \subseteq 1..n
    BY <1>1, Counts DEF Below
  <2>2. S # {}
    BY <1>6, <2>1, FS_EmptySet
  <2>3. [i \in S |-> sample[i]] \in [S -> Int]
    BY <2>1
  <2>4. PICK j \in S : \A i \in S : [x \in S |-> sample[x]][i] <= [x \in S |-> sample[x]][j]
    BY <2>1, <2>2, <2>3, GreatestOf
  <2>5. \A i \in S : sample[i] <= sample[j]
    BY <2>4
  <2>6. sample[j] < v /\ sample[j] \in Values /\ sample[j] \in Nat
    BY <2>1 DEF Below
  <2>7. S \subseteq Upto(sample, sample[j])
    BY <2>5 DEF Below, Upto
  <2>8. Cardinality(S) <= Cardinality(Upto(sample, sample[j]))
    BY <2>6, <2>7, Counts, FS_Subset
  <2>9. Cardinality(Upto(sample, sample[j])) \in Nat
    BY <2>6, Counts
  <2>10. sample[j] \in Enough
    BY <1>6, <2>1, <2>6, <2>8, <2>9
  <2>11. QED BY <1>5, <2>1, <2>6, <2>10
<1>7. Cardinality(Below(sample, v)) \in Nat
  BY <1>1, Counts
<1>8. QED BY <1>5, <1>6, <1>7

LEMMA SmallestIs ==
  ASSUME NEW n \in Nat, NEW sample \in [1..n -> Nat], NEW k \in 1..n
  PROVE  LET v == Smallest(k, sample)
         IN /\ v \in {sample[i] : i \in DOMAIN sample}
            /\ Cardinality(Below(sample, v)) < k
            /\ Cardinality(Upto(sample, v)) >= k
  BY QuantileExists DEF Smallest, Below, Upto

(* _reserve_estimate asks for the rank the share of the sample gives.       *)
LEMMA RankIs ==
  ASSUME NEW n \in Nat \ {0}
  PROVE  /\ CeilDiv(Share * n, 10) \in 1..n
         /\ \A c \in Nat : c >= CeilDiv(Share * n, 10) <=> 10 * c >= Share * n
<1>1. Share \in Nat /\ 1 <= Share /\ Share <= 10
  BY EvidenceAssumption
<1>2. Share * n \in Nat /\ n <= Share * n /\ Share * n <= 10 * n
  BY <1>1
<1>3. QED BY <1>2 DEF CeilDiv

-----------------------------------------------------------------------------
(* The figures of a candidate and of its replay.                            *)

LEMMA DivisionFacts ==
  ASSUME NEW a \in Nat, NEW b \in Nat \ {0}
  PROVE  /\ CeilDiv(a, b) \in Nat
         /\ a <= CeilDiv(a, b) * b /\ CeilDiv(a, b) * b < a + b
         /\ a \div b \in Nat
  BY DEF CeilDiv

LEMMA MinProfitType ==
  ASSUME NEW reserve \in Nat
  PROVE  /\ MinProfit(reserve) \in Nat
         /\ Gas + reserve + Price <= MinProfit(reserve) * Price
         /\ MinProfit(reserve) * Price < Gas + reserve + 2 * Price
<1> DEFINE q == CeilDiv(Gas + reserve, Price)
<1>1. Gas + reserve \in Nat /\ Price \in Nat \ {0} /\ Gas \in Nat
  BY PriceFigures
<1>2. q \in Nat /\ Gas + reserve <= q * Price /\ q * Price < Gas + reserve + Price
  BY <1>1, DivisionFacts
<1>3. MinProfit(reserve) = q + 1
  BY DEF MinProfit, RawCeil
<1>4. \A x, y \in Nat : (x + 1) * y = x * y + y
  OBVIOUS
<1>5. (q + 1) * Price = q * Price + Price /\ q * Price \in Nat
  BY <1>1, <1>2, <1>4, Product
<1> HIDE DEF q
<1>6. QED BY <1>1, <1>2, <1>3, <1>5

LEMMA GoodFacts ==
  ASSUME NEW reserve \in Nat, NEW c, Good(c, reserve)
  PROVE  /\ c.kind \in Kinds /\ c.executable \in BOOLEAN /\ c.loan \in Nat
         /\ c.gross \in Int /\ c.truth \in Int /\ c.reserve = reserve
         /\ c.net \in Nat /\ c.net > 0 /\ c.net = Net(c.kind, c.loan, c.gross, reserve)
         /\ c.min = MinProfit(reserve) /\ c.min \in Nat
         /\ c.kind = "cycle" => c.truth = c.gross
<1>1. PICK kind \in Kinds, loan \in Nat, gross \in Int, truth \in Int :
        /\ c = Candidate(kind, loan, gross, truth, reserve)
        /\ Net(kind, loan, gross, reserve) > 0
        /\ kind = "cycle" => truth = gross
  BY DEF Good
<1>2. Net(kind, loan, gross, reserve) \in Nat
  BY <1>1, NetType
<1>3. MinProfit(reserve) \in Nat
  BY MinProfitType
<1>4. QED BY <1>1, <1>2, <1>3 DEF Candidate

LEMMA PremiumType ==
  ASSUME NEW c, c.loan \in Nat
  PROVE  Premium(c) \in Nat
<1>1. c.loan * AaveBps \in Nat
  BY EvidenceAssumption, Product
<1>2. QED BY <1>1 DEF Premium, FlashFee

LEMMA EarnedType ==
  ASSUME NEW raw \in Int, NEW gas \in Nat
  PROVE  /\ Earned(raw, gas) \in Int
         /\ gas <= GasUnits => Earned(raw, gas) >= raw * Price - Gas
<1>1. Gas * gas \in Nat /\ GasUnits \in Nat \ {0} /\ raw * Price \in Int /\ Gas \in Nat
  BY PriceFigures, EvidenceAssumption, Product
<1>2. (Gas * gas) \div GasUnits \in Nat
  BY <1>1, DivisionFacts
<1>3. \A x, y \in Nat, z \in Nat \ {0} : y <= z => (x * y) \div z <= x
  OBVIOUS
<1>4. gas <= GasUnits => (Gas * gas) \div GasUnits <= Gas
  BY <1>1, <1>3
<1>5. QED BY <1>1, <1>2, <1>4 DEF Earned

(* What the contract checks in raw units holds in dollars.                  *)
LEMMA FloorInDollars ==
  ASSUME NEW reserve \in Nat, NEW raw \in Int, NEW gas \in Nat,
         raw >= MinProfit(reserve), gas <= GasUnits
  PROVE  Earned(raw, gas) >= reserve + Price
<1>1. \A x \in Nat, y \in Int, z \in Nat : x <= y => x * z <= y * z
  OBVIOUS
<1>2. Price \in Nat /\ Gas \in Nat /\ MinProfit(reserve) \in Nat
  BY PriceFigures, MinProfitType
<1>3. MinProfit(reserve) * Price <= raw * Price
  BY <1>1, <1>2
<1>4. MinProfit(reserve) * Price \in Int /\ raw * Price \in Int
  BY <1>2
<1>5. Gas + reserve + Price <= MinProfit(reserve) * Price
  BY MinProfitType
<1>6. Earned(raw, gas) >= raw * Price - Gas /\ Earned(raw, gas) \in Int
  BY EarnedType
<1>7. \A a, b, d, e, f, g \in Int :
        a + b + d <= e /\ e <= f /\ g >= f - a => g >= b + d
  OBVIOUS
<1>8. QED BY <1>2, <1>3, <1>4, <1>5, <1>6, <1>7

(* A floor the quote met and the replay missed was missed by the premium.   *)
LEMMA MissedByPremium ==
  ASSUME NEW reserve \in Nat, NEW c, Good(c, reserve), Encodable(c), Reverts(c, c.gross)
  PROVE  c.net < (Premium(c) + 1) * Price
<1> DEFINE fee == ScanFee(c.kind, c.loan)
           prem == Premium(c)
           m == MinProfit(reserve)
<1>1. /\ c.gross \in Int /\ fee \in Nat /\ prem \in Nat /\ m \in Nat
      /\ Price \in Nat \ {0} /\ Gas \in Nat
  BY GoodFacts, NetType, PremiumType, MinProfitType, PriceFigures
<1>2. c.gross < prem + m
  <2>1. c.min = m
    BY GoodFacts
  <2>2. Demanded(c) \in Int
    BY <1>1, <2>1 DEF Demanded
  <2>3. QED BY <1>1, <2>1, <2>2 DEF Encodable, Reverts
<1>3. c.net = (c.gross - fee) * Price - Gas - reserve
  BY GoodFacts DEF Net
<1>4. m * Price < Gas + reserve + 2 * Price
  BY MinProfitType
<1> HIDE DEF fee, prem, m
<1>5. \A g \in Int, f, x, y \in Nat, z \in Nat \ {0} :
        g < x + y => (g - f) * z + z <= x * z + y * z
  <2> TAKE g \in Int, f, x, y \in Nat, z \in Nat \ {0}
  <2> HAVE g < x + y
  <2>1. g - f + 1 <= x + y
    OBVIOUS
  <2>2. \A a, b \in Int : a <= b => a * z <= b * z
    OBVIOUS
  <2>3. (g - f + 1) * z <= (x + y) * z
    BY <2>1, <2>2
  <2>4. (g - f + 1) * z = (g - f) * z + z /\ (x + y) * z = x * z + y * z
    OBVIOUS
  <2>5. QED BY <2>3, <2>4
<1>6. (c.gross - fee) * Price + Price <= prem * Price + m * Price
  BY <1>1, <1>2, <1>5
<1>7. (prem + 1) * Price = prem * Price + Price
  BY <1>1
<1>8. /\ (c.gross - fee) * Price \in Int /\ prem * Price \in Int /\ m * Price \in Int
  BY <1>1
<1>9. \A a, b, d, e, p, n \in Int :
        /\ a + p <= b + d /\ d < e + 2 * p /\ n = a - e => n < b + p
  OBVIOUS
<1>10. Gas + reserve \in Int /\ c.net = (c.gross - fee) * Price - (Gas + reserve)
  BY <1>1, <1>3, <1>8
<1>11. c.net < prem * Price + Price
  BY <1>1, <1>4, <1>6, <1>8, <1>9, <1>10
<1>12. QED BY <1>7, <1>11 DEF prem

-----------------------------------------------------------------------------
(* What is known of a replay at each of its stages.                         *)

Rows == [class : Classes \cup {"none"}, success : BOOLEAN, predicted : Int,
         realized : Int, error : Int, missed : Nat]
Exits == {"none", "measured", "reverted", "failed", "spoiled"}
Replays == [at : {"queued", "running", "exited", "done"}, exit : Exits,
            raw : Int, gas : Nat, row : Rows]
Files == [state : {"missing", "garbled", "valid"}, raw : Int, gas : Nat]

(* Evidence shows by how much the promise made before the reserve failed.   *)
Telling(row) == Eligible(row) => AdverseSample(row) = row.missed
Evidence == {row \in Rows : Eligible(row) /\ Telling(row)}

OnlyPremiumMissed(c) == c.kind = "cycle" => c.net < (Premium(c) + 1) * Price

(* A replay that has ended, before its file is read.                        *)
ExitOK(c, f, file) ==
  /\ f.exit # "none"
  /\ f.exit = "measured" =>
       f.raw >= c.min /\ file.state = "valid" /\ file.raw = f.raw /\ file.gas = f.gas
  /\ f.exit = "spoiled" => file.state # "valid"
  /\ f.exit = "reverted" => OnlyPremiumMissed(c)

(* The row of a replay that is done.                                        *)
DoneOK(c, f) ==
  /\ Telling(f.row)
  /\ f.row.success <=> f.exit = "measured"
  /\ f.row.success => f.row.realized = Earned(f.raw, f.gas) /\ f.raw >= c.min
  /\ f.row.class = "execution_revert" => OnlyPremiumMissed(c)

ReplayOK(c, f, file) ==
  /\ f.at # "done" => f.row = NoRow
  /\ f.at \in {"queued", "running"} => f.exit = "none"
  /\ f.at = "running" => Encodable(c)
  /\ f.at = "exited" => ExitOK(c, f, file)
  /\ f.at = "done" => DoneOK(c, f)

LEMMA RowType ==
  ASSUME NEW class \in Classes \cup {"none"}, NEW predicted \in Int, NEW realized \in Int,
         NEW missed \in Nat, NEW row, row = Row(class, predicted, realized, missed)
  PROVE  /\ row \in Rows
         /\ row.class = class /\ row.realized = realized
         /\ row.success <=> class = "measured_success"
<1>1. row \in Rows
  BY DEF Row, Rows
<1>2. row.class = class /\ row.realized = realized
  BY DEF Row
<1>3. row.success <=> class = "measured_success"
  BY DEF Row
<1>4. QED BY <1>1, <1>2, <1>3

LEMMA NoRowFacts ==
  NoRow \in Rows /\ NoRow.class = "none" /\ ~ NoRow.success
<1>1. "none" \in Classes \cup {"none"} /\ 0 \in Int /\ 0 \in Nat
  OBVIOUS
<1>2. NoRow.class = "none" /\ ~ NoRow.success
  BY DEF NoRow, Row
<1>3. QED BY <1>1, <1>2, RowType DEF NoRow

(* A promise that was not executed is missed in full, one that was executed *)
(* by what it fell short.                                                  *)
LEMMA RevertTells ==
  ASSUME NEW promised \in Nat, promised > 0
  PROVE  Telling(Row("execution_revert", promised, 0, promised))
<1> DEFINE row == Row("execution_revert", promised, 0, promised)
<1>1. /\ ~ row.success /\ row.predicted = promised /\ row.realized = 0
      /\ row.error = 0 - promised /\ row.missed = promised
  BY DEF Row
<1>2. QED BY <1>1 DEF Telling, AdverseSample

LEMMA SuccessTells ==
  ASSUME NEW promised \in Int, NEW realized \in Int
  PROVE  LET short == promised - realized
         IN Telling(Row("measured_success", promised, realized,
                        IF short > 0 THEN short ELSE 0))
<1> DEFINE missed == IF promised - realized > 0 THEN promised - realized ELSE 0
           row == Row("measured_success", promised, realized, missed)
<1>1. /\ row.success /\ row.predicted = promised /\ row.realized = realized
      /\ row.error = realized - promised /\ row.missed = missed
  BY DEF Row
<1>2. QED BY <1>1 DEF Telling, AdverseSample

LEMMA CollectedRow ==
  ASSUME NEW reserve \in Nat, NEW c, Good(c, reserve), NEW f \in Replays, NEW file,
         ExitOK(c, f, file)
  PROVE  LET row == ReplayRow(c, f, file)
             g == [f EXCEPT !.at = "done", !.row = row]
         IN row \in Rows /\ g \in Replays /\ DoneOK(c, g)
<1> DEFINE row == ReplayRow(c, f, file)
           g == [f EXCEPT !.at = "done", !.row = row]
           promised == (c.gross - ScanFee(c.kind, c.loan)) * Price - Gas
<1>1. /\ c.kind \in Kinds /\ c.loan \in Nat /\ c.gross \in Int /\ c.net \in Nat /\ c.net > 0
      /\ c.reserve = reserve /\ c.net = Net(c.kind, c.loan, c.gross, reserve)
  BY GoodFacts
<1>2. promised = c.net + c.reserve /\ promised \in Nat /\ promised > 0
  <2>1. (c.gross - ScanFee(c.kind, c.loan)) * Price \in Int /\ Gas \in Nat
    BY <1>1, NetType, PriceFigures
  <2>2. QED BY <1>1, <2>1 DEF Net
<1>3. f.raw \in Int /\ f.gas \in Nat /\ f.exit \in Exits
  BY DEF Replays
<1>4. g.exit = f.exit /\ g.raw = f.raw /\ g.gas = f.gas /\ g.row = row
  BY DEF Replays
<1>5. row \in Rows => g \in Replays
  BY DEF Replays
<1>6. ASSUME row \in Rows, DoneOK(c, g) PROVE row \in Rows /\ g \in Replays /\ DoneOK(c, g)
  BY <1>5, <1>6
<1>7. CASE f.exit = "reverted"
  <2>1. row = Row("execution_revert", promised, 0, promised)
    BY <1>2, <1>7 DEF ReplayRow
  <2>2. row \in Rows /\ row.class = "execution_revert" /\ ~ row.success
    <3>1. "execution_revert" \in Classes \cup {"none"} /\ 0 \in Int /\ promised \in Int
      BY <1>2 DEF Classes
    <3> HIDE DEF row, promised
    <3>2. row \in Rows
      BY <1>2, <2>1, <3>1 DEF Row, Rows
    <3>3. QED BY <2>1, <3>2 DEF Row
  <2>3. Telling(row)
    BY <1>2, <2>1, RevertTells
  <2>4. OnlyPremiumMissed(c)
    BY <1>7 DEF ExitOK
  <2>5. QED BY <1>4, <1>6, <1>7, <2>2, <2>3, <2>4 DEF DoneOK
<1>8. CASE f.exit = "measured"
  <2> DEFINE earned == Earned(f.raw, f.gas)
             short == promised - earned
             missed == IF short > 0 THEN short ELSE 0
  <2>1. file.state = "valid" /\ file.raw = f.raw /\ file.gas = f.gas /\ f.raw >= c.min
    BY <1>8 DEF ExitOK
  <2>2. row = Row("measured_success", promised, earned, missed)
    BY <1>2, <1>8, <2>1 DEF ReplayRow
  <2>3. earned \in Int
    BY <1>3, EarnedType
  <2>4. missed \in Nat
    BY <1>2, <2>3
  <2>5. /\ row \in Rows /\ row.class = "measured_success" /\ row.success
        /\ row.realized = earned
    <3>1. "measured_success" \in Classes \cup {"none"} /\ promised \in Int
      BY <1>2 DEF Classes
    <3> HIDE DEF row, promised, earned, missed
    <3>2. QED BY <2>2, <2>3, <2>4, <3>1, RowType
  <2>6. Telling(row)
    BY <1>2, <2>2, <2>3, SuccessTells
  <2>7. QED BY <1>4, <1>6, <1>8, <2>1, <2>5, <2>6 DEF DoneOK
<1>9. CASE f.exit \in {"failed", "spoiled"}
  <2>1. PICK class \in {"infrastructure_error", "invalid_harness"} :
          row = Row(class, c.net + c.reserve, 0, 0)
    BY <1>9 DEF ReplayRow, ExitOK
  <2>2. row \in Rows /\ row.class = class /\ ~ row.success
    <3>1. class \in Classes \cup {"none"} /\ class # "measured_success"
          /\ c.net + c.reserve \in Int /\ 0 \in Int /\ 0 \in Nat
      BY <1>1 DEF Classes
    <3> HIDE DEF row
    <3>2. row \in Rows
      BY <2>1, <3>1 DEF Row, Rows
    <3>3. QED BY <2>1, <3>1, <3>2 DEF Row
  <2>3. Telling(row)
    BY <2>2 DEF Telling, Eligible
  <2>4. QED BY <1>4, <1>6, <1>9, <2>2, <2>3 DEF DoneOK
<1>10. f.exit \in {"reverted", "measured", "failed", "spoiled"}
  BY <1>3 DEF ExitOK, Exits
<1>11. QED BY <1>7, <1>8, <1>9, <1>10

-----------------------------------------------------------------------------
(* The reserve a cycle takes is a number.                                   *)

LEMMA SampleType ==
  ASSUME NEW rows \in Seq(Evidence)
  PROVE  /\ Len(rows) \in Nat
         /\ \A i \in 1..Len(rows) : AdverseSample(rows[i]) = rows[i].missed
                                    /\ rows[i].missed \in Nat
         /\ [i \in 1..Len(rows) |-> AdverseSample(rows[i])] \in [1..Len(rows) -> Nat]
<1>1. \A i \in 1..Len(rows) : rows[i] \in Evidence
  OBVIOUS
<1>2. \A row \in Evidence : AdverseSample(row) = row.missed /\ row.missed \in Nat
  BY DEF Evidence, Telling, Rows
<1>3. QED BY <1>1, <1>2

LEMMA ClampType == \A v \in Nat : Clamp(v) \in Nat
  BY EvidenceAssumption DEF Clamp

LEMMA EstimateType ==
  ASSUME NEW rows \in Seq(Evidence)
  PROVE  Estimate(rows) \in Nat
<1> DEFINE n == Len(rows)
           sample == [i \in 1..n |-> AdverseSample(rows[i])]
           rank == CeilDiv(Share * n, 10)
<1>1. n \in Nat /\ sample \in [1..n -> Nat]
  BY SampleType
<1>2. MinSamples \in Nat /\ Bootstrap \in Nat /\ Floor \in Nat
  BY EvidenceAssumption
<1>3. CASE n < MinSamples
  BY <1>2, <1>3, ClampType DEF Estimate
<1>4. CASE n >= MinSamples /\ n = 0
  BY <1>1, <1>2, <1>4, ClampType DEF Estimate
<1>5. CASE n >= MinSamples /\ n # 0
  <2>1. rank \in 1..n
    BY <1>1, <1>5, RankIs
  <2>2. Estimate(rows) = Clamp(Smallest(rank, sample))
    BY <1>1, <1>2, <1>5, <2>1 DEF Estimate
  <2>3. Smallest(rank, sample) \in {sample[i] : i \in DOMAIN sample}
    BY <1>1, <2>1, SmallestIs
  <2>4. Smallest(rank, sample) \in Nat
    BY <1>1, <2>3
  <2>5. QED BY <2>2, <2>4, ClampType
<1>6. QED BY <1>1, <1>2, <1>3, <1>4, <1>5

(* What the ledger keeps when a row is written.                             *)
LEMMA LedgerType ==
  ASSUME NEW rows \in Seq(Evidence), Len(rows) <= Lookback, NEW row \in Rows, Telling(row)
  PROVE  /\ ForkEconomics(rows, row) \in Seq(Evidence)
         /\ Len(ForkEconomics(rows, row)) <= Lookback
<1>1. Lookback \in Nat \ {0} /\ Len(rows) \in Nat
  BY EvidenceAssumption
<1>2. CASE ~ Eligible(row)
  BY <1>2 DEF ForkEconomics
<1>3. CASE Eligible(row) /\ Len(rows) < Lookback
  <2>1. row \in Evidence
    BY <1>3 DEF Evidence
  <2>2. Append(rows, row) \in Seq(Evidence) /\ Len(Append(rows, row)) = Len(rows) + 1
    BY <2>1
  <2>3. ForkEconomics(rows, row) = Append(rows, row)
    BY <1>3 DEF ForkEconomics
  <2>4. QED BY <1>1, <1>3, <2>2, <2>3
<1>4. CASE Eligible(row) /\ ~ Len(rows) < Lookback
  <2>1. row \in Evidence
    BY <1>4 DEF Evidence
  <2>2. rows # <<>>
    BY <1>1, <1>4
  <2>3. Tail(rows) \in Seq(Evidence) /\ Len(Tail(rows)) = Len(rows) - 1
    BY <2>2
  <2>4. Append(Tail(rows), row) \in Seq(Evidence)
        /\ Len(Append(Tail(rows), row)) = Len(rows) - 1 + 1
    BY <2>1, <2>3
  <2>5. ForkEconomics(rows, row) = Append(Tail(rows), row)
    BY <1>4 DEF ForkEconomics
  <2>6. QED BY <1>1, <2>4, <2>5
<1>5. QED BY <1>2, <1>3, <1>4

-----------------------------------------------------------------------------
(* The invariant.                                                           *)

ReserveInv ==
  /\ config \in Nat /\ previous \in Nat /\ frozen \in Nat
  /\ phase = "idle" => config = Static
  /\ phase # "idle" => previous = Static /\ config = frozen

BookInv ==
  /\ DOMAIN book \subseteq Routes /\ todo \cap DOMAIN book = {}
  /\ \A r \in DOMAIN book : Good(book[r], frozen)

ReplayInv ==
  /\ DOMAIN fork \subseteq DOMAIN book
  /\ phase \in {"idle", "scan"} => DOMAIN fork = {}
  /\ fork \in [DOMAIN fork -> Replays]
  /\ \A r \in DOMAIN fork : ReplayOK(book[r], fork[r], files[r])
  /\ Cardinality(Running) <= MaxFork

LedgerInv == ledger \in Seq(Evidence) /\ Len(ledger) <= Lookback

ForkInv ==
  /\ phase \in {"idle", "scan", "verify", "persist"}
  /\ todo \subseteq Routes
  /\ files \in [Routes -> Files]
  /\ ReserveInv /\ BookInv /\ ReplayInv /\ LedgerInv

(* No candidates, no replays.                                               *)
LEMMA EmptyBook ==
  ASSUME book = Empty, fork = Empty
  PROVE  BookInv /\ ReplayInv
<1>1. DOMAIN book = {} /\ DOMAIN fork = {} /\ fork \in [DOMAIN fork -> Replays]
  BY DEF Empty
<1>2. Running = {} /\ MaxFork \in Nat
  BY <1>1, EvidenceAssumption DEF Running
<1>3. Cardinality(Running) <= MaxFork
  BY <1>2, FS_EmptySet
<1>4. QED BY <1>1, <1>3 DEF BookInv, ReplayInv

LEMMA NoFiles ==
  /\ Missing \in Files
  /\ [r \in Routes |-> Missing] \in [Routes -> Files]
  /\ Garbled \in Files /\ Garbled.state # "valid" /\ Missing.state # "valid"
  BY DEF Files, Missing, Garbled

LEMMA ForkInit == Init => ForkInv
<1> SUFFICES ASSUME Init PROVE ForkInv
  OBVIOUS
<1>1. BookInv /\ ReplayInv
  BY EmptyBook DEF Init
<1>2. files \in [Routes -> Files]
  BY NoFiles DEF Init
<1>3. ReserveInv
  BY EvidenceAssumption DEF Init, ReserveInv
<1>4. LedgerInv
  <2>1. PICK success \in BOOLEAN, mentions \in {"revert", "toolchain", "else"} :
          ledger = ForkEconomics(<<>>, Row(MigratedClass(success, mentions), 2,
                                           IF success THEN 1 ELSE 0,
                                           IF success THEN 1 ELSE 2))
    BY DEF Init
  <2> DEFINE row == Row(MigratedClass(success, mentions), 2, IF success THEN 1 ELSE 0,
                        IF success THEN 1 ELSE 2)
  <2>2. MigratedClass(success, mentions) \in Classes
        /\ (success <=> MigratedClass(success, mentions) = "measured_success")
    BY DEF MigratedClass, Classes
  <2>3. row \in Rows
    BY <2>2 DEF Row, Rows
  <2>4. Telling(row)
    BY <2>2 DEF Telling, Eligible, AdverseSample, Row
  <2>5. <<>> \in Seq(Evidence) /\ Len(<<>>) <= Lookback
    BY EvidenceAssumption
  <2>6. ledger = ForkEconomics(<<>>, row)
    BY <2>1
  <2> HIDE DEF row
  <2>7. QED BY <2>3, <2>4, <2>5, <2>6, LedgerType DEF LedgerInv
<1>5. QED BY <1>1, <1>2, <1>3, <1>4 DEF Init, ForkInv

(* One replay takes a step.                                                 *)
ReplayStep(r) ==
  /\ fork' \in [DOMAIN fork -> Replays]
  /\ \A x \in DOMAIN fork \ {r} : fork'[x] = fork[x]
  /\ files' \in [Routes -> Files]
  /\ \A x \in Routes \ {r} : files'[x] = files[x]
  /\ ReplayOK(book[r], fork'[r], files'[r])

LEMMA RunningFinite ==
  ASSUME ForkInv
  PROVE  IsFiniteSet(Running) /\ Cardinality(Running) \in Nat
<1>1. Running \subseteq Routes
  BY DEF ForkInv, BookInv, ReplayInv, Running
<1>2. QED BY <1>1, EvidenceAssumption, FS_Subset, FS_CardinalityType

LEMMA ReplayStepKeeps ==
  ASSUME ForkInv, phase = "verify", UNCHANGED <<phase, reserveVars, todo, book, ledger>>,
         NEW r \in DOMAIN fork, ReplayStep(r), Cardinality(Running') <= MaxFork
  PROVE  ForkInv'
<1>1. ReserveInv' /\ BookInv' /\ LedgerInv'
  BY DEF ForkInv, ReserveInv, BookInv, LedgerInv, reserveVars
<1>2. DOMAIN fork' = DOMAIN fork /\ DOMAIN fork \subseteq Routes
  BY DEF ReplayStep, ForkInv, ReplayInv, BookInv
<1>3. \A x \in DOMAIN fork : ReplayOK(book[x], fork'[x], files'[x])
  BY <1>2 DEF ReplayStep, ForkInv, ReplayInv
<1>4. ReplayInv'
  BY <1>2, <1>3 DEF ReplayStep, ForkInv, ReplayInv
<1>5. QED BY <1>1, <1>4 DEF ForkInv, ReplayStep

(* When no other replay is running but those that were before.              *)
LEMMA NoMoreRun ==
  ASSUME ForkInv, Running' \subseteq Running
  PROVE  Cardinality(Running') <= MaxFork
<1>1. Cardinality(Running') <= Cardinality(Running) /\ Cardinality(Running') \in Nat
  BY RunningFinite, FS_Subset, FS_CardinalityType
<1>2. QED
  BY <1>1, RunningFinite, EvidenceAssumption DEF ForkInv, ReplayInv

LEMMA TakeStep ==
  ASSUME ForkInv, phase = "verify", UNCHANGED <<phase, reserveVars, todo, book, ledger>>,
         NEW r \in DOMAIN fork, TakeCandidate(r)
  PROVE  ForkInv'
<1>1. /\ fork \in [DOMAIN fork -> Replays] /\ files \in [Routes -> Files]
      /\ ReplayOK(book[r], fork[r], files[r]) /\ r \in Routes
  BY DEF ForkInv, ReplayInv, BookInv
<1>2. /\ fork[r].row = NoRow /\ fork[r] \in Replays /\ fork[r].at = "queued"
      /\ fork[r].exit = "none"
  BY <1>1 DEF TakeCandidate, ReplayOK
<1>3. CASE RejectPayload(r)
  <2>1. /\ fork' = [fork EXCEPT ![r].at = "done"] /\ files' = files
    BY <1>3 DEF RejectPayload
  <2>2. fork'[r] = [fork[r] EXCEPT !.at = "done"]
    BY <1>1, <2>1
  <2>3. fork'[r] \in Replays /\ fork'[r].at = "done" /\ fork'[r].row = NoRow
        /\ fork'[r].exit = "none"
    BY <1>2, <2>2 DEF Replays
  <2>4. Running' \subseteq Running
    BY <1>1, <2>1, <2>3 DEF Running
  <2>5. DoneOK(book[r], fork'[r])
    BY <2>3, NoRowFacts DEF DoneOK, Telling, Eligible
  <2>6. ReplayOK(book[r], fork'[r], files'[r])
    BY <2>3, <2>5 DEF ReplayOK
  <2>7. ReplayStep(r)
    BY <1>1, <2>1, <2>3, <2>6 DEF ReplayStep
  <2>8. QED BY <2>4, <2>7, NoMoreRun, ReplayStepKeeps
<1>4. CASE StartReplay(r)
  <2>1. /\ fork' = [fork EXCEPT ![r].at = "running"]
        /\ files' = [files EXCEPT ![r] = Missing]
        /\ Encodable(book[r])
    BY <1>4 DEF StartReplay, ResultPath
  <2>2. fork'[r] = [fork[r] EXCEPT !.at = "running"]
    BY <1>1, <2>1
  <2>3. fork'[r] \in Replays /\ fork'[r].at = "running" /\ fork'[r].row = NoRow
        /\ fork'[r].exit = "none"
    BY <1>2, <2>2 DEF Replays
  <2>4. Running' \subseteq Running \cup {r} /\ Running' = Running \cup {r}
    BY <1>1, <2>1, <2>3 DEF Running
  <2>5. Cardinality(Running') <= MaxFork
    <3>1. r \notin Running
      BY <1>2 DEF Running
    <3>2. Cardinality(Running \cup {r}) = Cardinality(Running) + 1
      BY <3>1, RunningFinite, FS_AddElement
    <3>3. Cardinality(Running) < MaxFork /\ MaxFork \in Nat
      BY EvidenceAssumption DEF TakeCandidate
    <3>4. \A n, m \in Nat : n < m => n + 1 <= m
      OBVIOUS
    <3>5. Cardinality(Running) + 1 <= MaxFork
      BY <3>3, <3>4, RunningFinite
    <3>6. QED BY <2>4, <3>2, <3>5
  <2>6. ReplayOK(book[r], fork'[r], files'[r])
    BY <2>1, <2>3 DEF ReplayOK
  <2>7. files' \in [Routes -> Files]
    BY <1>1, <2>1, NoFiles
  <2>8. ReplayStep(r)
    BY <1>1, <2>1, <2>3, <2>6, <2>7 DEF ReplayStep
  <2>9. QED BY <2>5, <2>8, ReplayStepKeeps
<1>5. QED BY <1>3, <1>4 DEF TakeCandidate

(* The end of a replay leaves a file that agrees with it.                   *)
LEMMA EndStep ==
  ASSUME ForkInv, phase = "verify", UNCHANGED <<phase, reserveVars, todo, book, ledger>>,
         NEW r \in DOMAIN fork, fork[r].at = "running",
         NEW exit \in Exits, NEW raw \in Int, NEW gas \in Nat, Ends(r, exit, raw, gas),
         files' \in [Routes -> Files], \A x \in Routes \ {r} : files'[x] = files[x],
         ExitOK(book[r], fork'[r], files'[r])
  PROVE  ForkInv'
<1>1. /\ fork \in [DOMAIN fork -> Replays] /\ files \in [Routes -> Files]
      /\ ReplayOK(book[r], fork[r], files[r]) /\ r \in Routes
  BY DEF ForkInv, ReplayInv, BookInv
<1>2. fork[r].row = NoRow /\ fork[r] \in Replays
  BY <1>1 DEF ReplayOK
<1>3. fork' = [fork EXCEPT ![r] = [fork[r] EXCEPT !.at = "exited", !.exit = exit,
                                                  !.raw = raw, !.gas = gas]]
  BY <1>1 DEF Ends
<1>4. fork'[r] \in Replays /\ fork'[r].at = "exited" /\ fork'[r].row = NoRow
  BY <1>1, <1>2, <1>3 DEF Replays
<1>5. Running' \subseteq Running
  BY <1>1, <1>3 DEF Running
<1>6. ReplayOK(book[r], fork'[r], files'[r])
  BY <1>4 DEF ReplayOK
<1>7. ReplayStep(r)
  BY <1>1, <1>3, <1>4, <1>6 DEF ReplayStep
<1>8. QED BY <1>5, <1>7, NoMoreRun, ReplayStepKeeps

LEMMA EndedFigures ==
  ASSUME NEW r \in DOMAIN fork, fork \in [DOMAIN fork -> Replays],
         NEW exit, NEW raw, NEW gas, Ends(r, exit, raw, gas)
  PROVE  fork'[r].exit = exit /\ fork'[r].raw = raw /\ fork'[r].gas = gas
<1>1. fork[r] \in Replays
  OBVIOUS
<1>2. fork'[r] = [fork[r] EXCEPT !.at = "exited", !.exit = exit, !.raw = raw, !.gas = gas]
  BY <1>1 DEF Ends
<1>3. QED BY <1>1, <1>2 DEF Replays

(* A replay that was measured kept at least the floor.                      *)
LEMMA KeptTheFloor ==
  ASSUME NEW reserve \in Nat, NEW c, Good(c, reserve), NEW gross \in Int, ~ Reverts(c, gross)
  PROVE  gross - Premium(c) \in Int /\ gross - Premium(c) >= c.min
<1>1. c.min \in Nat /\ Premium(c) \in Nat
  BY GoodFacts, PremiumType
<1>2. ~ (gross < Premium(c) + c.min)
  BY DEF Reverts
<1>3. \A g \in Int, p, m \in Nat : ~ (g < p + m) => g - p \in Int /\ g - p >= m
  OBVIOUS
<1>4. QED BY <1>1, <1>2, <1>3

LEMMA ChainType ==
  ASSUME NEW reserve \in Nat, NEW c, Good(c, reserve), NEW gross \in OnChain(c)
  PROVE  gross \in Int /\ (c.kind = "cycle" => gross = c.gross)
  BY GoodFacts, PriceFigures DEF OnChain

LEMMA RunStep ==
  ASSUME ForkInv, phase = "verify", UNCHANGED <<phase, reserveVars, todo, book, ledger>>,
         NEW r \in DOMAIN fork, Replay(r)
  PROVE  ForkInv'
<1>1. /\ fork \in [DOMAIN fork -> Replays] /\ files \in [Routes -> Files]
      /\ ReplayOK(book[r], fork[r], files[r]) /\ r \in Routes
      /\ frozen \in Nat /\ Good(book[r], frozen)
  BY DEF ForkInv, ReplayInv, BookInv, ReserveInv
<1>2. fork[r].at = "running" /\ Encodable(book[r])
  BY <1>1 DEF Replay, ReplayOK
<1>3. Exits = {"none", "measured", "reverted", "failed", "spoiled"} /\ 0 \in Int /\ 0 \in Nat
  BY DEF Exits
<1>4. \A file \in Files : Leaves(r, file) =>
        /\ files' \in [Routes -> Files] /\ files'[r] = file
        /\ \A x \in Routes \ {r} : files'[x] = files[x]
  BY <1>1 DEF Leaves, ResultPath
<1>5. CASE Measure(r)
  <2>1. PICK gross \in OnChain(book[r]), gas \in GasUsed :
          /\ ~ Reverts(book[r], gross)
          /\ Ends(r, "measured", gross - Premium(book[r]), gas)
          /\ Leaves(r, [state |-> "valid", raw |-> gross - Premium(book[r]), gas |-> gas])
    BY <1>5 DEF Measure
  <2> DEFINE raw == gross - Premium(book[r])
             file == [state |-> "valid", raw |-> raw, gas |-> gas]
  <2>2. raw \in Int /\ raw >= book[r].min /\ gas \in Nat
    BY <1>1, <2>1, ChainType, KeptTheFloor, EvidenceAssumption
  <2> HIDE DEF raw
  <2>3. file \in Files
    BY <2>2 DEF Files
  <2>4. fork'[r].exit = "measured" /\ fork'[r].raw = raw /\ fork'[r].gas = gas
    BY <1>1, <2>1, EndedFigures DEF raw
  <2>5. /\ files' \in [Routes -> Files] /\ files'[r] = file
        /\ \A x \in Routes \ {r} : files'[x] = files[x]
    BY <1>4, <2>1, <2>3 DEF raw
  <2>6. ExitOK(book[r], fork'[r], files'[r])
    BY <2>2, <2>4, <2>5 DEF ExitOK
  <2>7. Ends(r, "measured", raw, gas)
    BY <2>1 DEF raw
  <2>8. QED BY <1>2, <1>3, <2>2, <2>5, <2>6, <2>7, EndStep
<1>6. CASE Revert(r)
  <2>1. fork'[r].exit = "reverted" /\ files' = files
    BY <1>1, <1>6, EndedFigures DEF Revert
  <2>2. OnlyPremiumMissed(book[r])
    <3>1. SUFFICES ASSUME book[r].kind = "cycle"
                   PROVE  book[r].net < (Premium(book[r]) + 1) * Price
      BY DEF OnlyPremiumMissed
    <3>2. PICK gross \in OnChain(book[r]) : Reverts(book[r], gross)
      BY <1>6, <3>1 DEF Revert
    <3>3. Reverts(book[r], book[r].gross)
      BY <1>1, <3>1, <3>2, ChainType
    <3>4. QED BY <1>1, <1>2, <3>3, MissedByPremium
  <2>3. ExitOK(book[r], fork'[r], files'[r])
    BY <2>1, <2>2 DEF ExitOK
  <2>4. Ends(r, "reverted", 0, 0)
    BY <1>6 DEF Revert
  <2>5. QED BY <1>1, <1>2, <1>3, <2>1, <2>3, <2>4, EndStep
<1>7. CASE Break(r)
  <2>1. fork'[r].exit = "failed" /\ files' = files
    BY <1>1, <1>7, EndedFigures DEF Break
  <2>2. ExitOK(book[r], fork'[r], files'[r])
    BY <2>1 DEF ExitOK
  <2>3. Ends(r, "failed", 0, 0)
    BY <1>7 DEF Break
  <2>4. QED BY <1>1, <1>2, <1>3, <2>1, <2>2, <2>3, EndStep
<1>8. CASE Spoil(r)
  <2>1. PICK left \in {Missing, Garbled} : Leaves(r, left)
    BY <1>8 DEF Spoil
  <2>2. /\ files' \in [Routes -> Files] /\ files'[r] = left
        /\ \A x \in Routes \ {r} : files'[x] = files[x]
    BY <1>4, <2>1, NoFiles
  <2>3. fork'[r].exit = "spoiled"
    BY <1>1, <1>8, EndedFigures DEF Spoil
  <2>4. ExitOK(book[r], fork'[r], files'[r])
    BY <2>1, <2>2, <2>3, NoFiles DEF ExitOK
  <2>5. Ends(r, "spoiled", 0, 0)
    BY <1>8 DEF Spoil
  <2>6. QED BY <1>2, <1>3, <2>2, <2>4, <2>5, EndStep
<1>9. QED BY <1>5, <1>6, <1>7, <1>8 DEF Replay

LEMMA CollectStep ==
  ASSUME ForkInv, phase = "verify", UNCHANGED <<phase, reserveVars, todo, book, ledger>>,
         NEW r \in DOMAIN fork, Collect(r)
  PROVE  ForkInv'
<1>1. /\ fork \in [DOMAIN fork -> Replays] /\ files \in [Routes -> Files]
      /\ ReplayOK(book[r], fork[r], files[r]) /\ r \in Routes
      /\ frozen \in Nat /\ Good(book[r], frozen)
  BY DEF ForkInv, ReplayInv, BookInv, ReserveInv
<1> DEFINE row == ReplayRow(book[r], fork[r], files[r])
           g == [fork[r] EXCEPT !.at = "done", !.row = row]
<1>2. ExitOK(book[r], fork[r], files[r]) /\ fork[r] \in Replays
  BY <1>1 DEF ReplayOK, Collect
<1>3. row \in Rows /\ g \in Replays /\ DoneOK(book[r], g)
  BY <1>1, <1>2, CollectedRow
<1>4. g.at = "done"
  BY <1>2 DEF Replays
<1>5. fork' = [fork EXCEPT ![r] = g]
  BY <1>1 DEF Collect, ResultPath
<1>6. files' = [files EXCEPT ![r] = Missing]
  BY DEF Collect, Leaves, ResultPath
<1> HIDE DEF g
<1>7. fork'[r] = g /\ fork' \in [DOMAIN fork -> Replays]
      /\ \A x \in DOMAIN fork \ {r} : fork'[x] = fork[x]
  BY <1>1, <1>3, <1>5
<1>8. Running' \subseteq Running
  BY <1>4, <1>5, <1>7 DEF Running
<1>9. ReplayOK(book[r], fork'[r], files'[r])
  BY <1>3, <1>4, <1>7 DEF ReplayOK
<1>10. ReplayStep(r)
  BY <1>1, <1>6, <1>7, <1>9, NoFiles DEF ReplayStep
<1>11. QED BY <1>8, <1>10, NoMoreRun, ReplayStepKeeps

-----------------------------------------------------------------------------
(* Every other step.                                                        *)

LEMMA NoBook ==
  ASSUME book' = Empty, fork' = Empty
  PROVE  BookInv' /\ ReplayInv'
<1>1. DOMAIN book' = {} /\ DOMAIN fork' = {} /\ fork' \in [DOMAIN fork' -> Replays]
  BY DEF Empty
<1>2. Running' = {} /\ MaxFork \in Nat
  BY <1>1, EvidenceAssumption DEF Running
<1>3. Cardinality(Running') <= MaxFork
  BY <1>2, FS_EmptySet
<1>4. QED BY <1>1, <1>3 DEF BookInv, ReplayInv

LEMMA RunBlockStep == ForkInv /\ RunBlock => ForkInv'
<1> SUFFICES ASSUME ForkInv, RunBlock PROVE ForkInv'
  OBVIOUS
<1>1. /\ book' = Empty /\ fork' = Empty /\ phase' = "scan" /\ UNCHANGED <<files, ledger>>
      /\ frozen' = ReserveEstimate /\ config' = frozen' /\ previous' = config
      /\ phase = "idle" /\ todo' \subseteq Routes
  BY DEF RunBlock
<1>2. frozen' \in Nat
  BY <1>1, EstimateType DEF ReserveEstimate, LedgerInv, ForkInv
<1>3. ReserveInv'
  BY <1>1, <1>2, EvidenceAssumption DEF ReserveInv, ForkInv
<1>4. BookInv' /\ ReplayInv'
  BY <1>1, NoBook
<1>5. QED BY <1>1, <1>3, <1>4 DEF LedgerInv, ForkInv

LEMMA ScanRouteStep == ForkInv /\ ScanRoute => ForkInv'
<1> SUFFICES ASSUME ForkInv, ScanRoute PROVE ForkInv'
  OBVIOUS
<1> DEFINE r == CHOOSE x \in todo : TRUE
<1>1. r \in todo /\ r \in Routes /\ phase = "scan"
  BY DEF ScanRoute, ForkInv
<1>2. PICK found \in Findings(r) :
        book' = [x \in DOMAIN book \cup {y \in {r} : found # {}} |->
                   IF x = r THEN CHOOSE c \in found : TRUE ELSE book[x]]
  BY DEF ScanRoute
<1>3. todo' \subseteq Routes /\ UNCHANGED <<phase, reserveVars, fork, files, ledger>>
  BY DEF ScanRoute, ForkInv
<1>4. config = frozen /\ frozen \in Nat
  BY <1>1 DEF ForkInv, ReserveInv
<1> HIDE DEF r
<1>5. \A c \in found : Good(c, frozen)
  BY <1>1, <1>4, FindingsAreGood
<1>6. BookInv'
  <2>1. DOMAIN book' \subseteq Routes
    BY <1>1, <1>2 DEF ForkInv, BookInv
  <2>2. ASSUME NEW x \in DOMAIN book' PROVE Good(book'[x], frozen)
    <3>1. CASE x = r /\ found # {}
      <4>1. book'[x] = CHOOSE c \in found : TRUE
        BY <1>2, <3>1
      <4>2. (CHOOSE c \in found : TRUE) \in found
        BY <3>1
      <4>3. QED BY <1>5, <4>1, <4>2
    <3>2. CASE x # r
      BY <1>2, <3>2 DEF ForkInv, BookInv
    <3>3. ~ (x = r /\ found = {})
      BY <1>1, <1>2 DEF ForkInv, BookInv
    <3>4. QED BY <3>1, <3>2, <3>3
  <2>3. todo' \cap DOMAIN book' = {}
    BY <1>2 DEF ScanRoute, r, ForkInv, BookInv
  <2>4. QED BY <1>3, <2>1, <2>2, <2>3 DEF BookInv, reserveVars
<1>7. ReplayInv'
  <2>1. DOMAIN fork = {} /\ DOMAIN fork' = {} /\ phase' = "scan"
    BY <1>1, <1>3 DEF ForkInv, ReplayInv
  <2>2. Running' = Running
    BY <1>3 DEF Running
  <2>3. QED BY <1>3, <2>1, <2>2 DEF ForkInv, ReplayInv
<1>8. ReserveInv' /\ LedgerInv'
  BY <1>3 DEF ForkInv, ReserveInv, LedgerInv, reserveVars
<1>9. QED BY <1>3, <1>6, <1>7, <1>8 DEF ForkInv

LEMMA BeginVerificationStep == ForkInv /\ BeginVerification => ForkInv'
<1> SUFFICES ASSUME ForkInv, BeginVerification PROVE ForkInv'
  OBVIOUS
<1> DEFINE executable == {x \in DOMAIN book : book[x].executable}
<1>1. /\ phase = "scan" /\ todo = {} /\ phase' = "verify"
      /\ book' = [x \in executable |-> book[x]]
      /\ fork' = [x \in executable |-> Queued]
      /\ UNCHANGED <<reserveVars, todo, files, ledger>>
  BY DEF BeginVerification
<1>2. Queued \in Replays /\ Queued.at = "queued" /\ Queued.exit = "none" /\ Queued.row = NoRow
  BY NoRowFacts DEF Queued, Replays, Exits
<1> HIDE DEF executable
<1>3. executable \subseteq DOMAIN book
  BY DEF executable
<1>4. BookInv'
  BY <1>1, <1>3 DEF ForkInv, BookInv, reserveVars
<1>5. ReplayInv'
  <2>1. Running' = {} /\ MaxFork \in Nat
    BY <1>1, <1>2, EvidenceAssumption DEF Running
  <2>2. Cardinality(Running') <= MaxFork
    BY <2>1, FS_EmptySet
  <2>3. fork' \in [executable -> Replays] /\ DOMAIN fork' = executable
        /\ DOMAIN book' = executable
    BY <1>1, <1>2
  <2>4. \A x \in executable : ReplayOK(book'[x], fork'[x], files'[x])
    BY <1>1, <1>2 DEF ReplayOK
  <2>5. QED BY <1>1, <2>2, <2>3, <2>4 DEF ReplayInv
<1>6. ReserveInv' /\ LedgerInv'
  BY <1>1 DEF ForkInv, ReserveInv, LedgerInv, reserveVars
<1>7. QED BY <1>1, <1>4, <1>5, <1>6 DEF ForkInv

LEMMA JoinForksStep == ForkInv /\ JoinForks => ForkInv'
<1> SUFFICES ASSUME ForkInv, JoinForks PROVE ForkInv'
  OBVIOUS
<1>1. phase = "verify" /\ phase' = "persist"
      /\ UNCHANGED <<reserveVars, todo, book, fork, files, ledger>>
  BY DEF JoinForks
<1>2. Running' = Running
  BY <1>1 DEF Running
<1>3. BookInv' /\ ReplayInv'
  BY <1>1, <1>2 DEF ForkInv, BookInv, ReplayInv, reserveVars
<1>4. QED BY <1>1, <1>3 DEF ForkInv, ReserveInv, LedgerInv, reserveVars

LEMMA RecordStep == ForkInv /\ RecordForkVerification => ForkInv'
<1> SUFFICES ASSUME ForkInv, RecordForkVerification PROVE ForkInv'
  OBVIOUS
<1>1. PICK r \in Due :
        /\ phase = "persist"
        /\ ledger' = ForkEconomics(ledger, fork[r].row)
        /\ fork' = [x \in DOMAIN fork \ {r} |-> fork[x]]
        /\ book' = [x \in DOMAIN book \ {r} |-> book[x]]
        /\ UNCHANGED <<phase, reserveVars, todo, files>>
  BY DEF RecordForkVerification
<1>2. r \in DOMAIN fork /\ fork[r].row # NoRow
  BY DEF Due
<1>3. LedgerInv'
  <2>1. fork[r].row \in Rows
    BY <1>2 DEF ForkInv, ReplayInv, Replays
  <2>2. Telling(fork[r].row)
    BY <1>2 DEF ForkInv, ReplayInv, ReplayOK, Replays, DoneOK
  <2>3. QED BY <1>1, <2>1, <2>2, LedgerType DEF ForkInv, LedgerInv
<1>4. BookInv'
  BY <1>1 DEF ForkInv, BookInv, reserveVars
<1>5. ReplayInv'
  <2>1. DOMAIN fork' = DOMAIN fork \ {r} /\ DOMAIN book' = DOMAIN book \ {r}
        /\ fork' \in [DOMAIN fork' -> Replays]
    BY <1>1 DEF ForkInv, ReplayInv
  <2>2. Running' \subseteq Running
    BY <1>1 DEF Running
  <2>3. Cardinality(Running') <= MaxFork
    BY <2>2, NoMoreRun
  <2>4. \A x \in DOMAIN fork' : ReplayOK(book'[x], fork'[x], files'[x])
    BY <1>1 DEF ForkInv, ReplayInv
  <2>5. QED BY <1>1, <2>1, <2>3, <2>4 DEF ForkInv, ReplayInv
<1>6. ReserveInv'
  BY <1>1 DEF ForkInv, ReserveInv, reserveVars
<1>7. QED BY <1>1, <1>3, <1>4, <1>5, <1>6 DEF ForkInv

LEMMA LeaveStep ==
  ASSUME ForkInv, phase # "idle", LeaveBlock
  PROVE  ForkInv'
<1>1. /\ phase' = "idle" /\ config' = previous /\ todo' = {}
      /\ book' = Empty /\ fork' = Empty
      /\ UNCHANGED <<previous, frozen, files, ledger>>
  BY DEF LeaveBlock
<1>2. BookInv' /\ ReplayInv'
  BY <1>1, NoBook
<1>3. ReserveInv' /\ LedgerInv'
  BY <1>1 DEF ForkInv, ReserveInv, LedgerInv
<1>4. QED BY <1>1, <1>2, <1>3 DEF ForkInv

LEMMA RestartStep == ForkInv /\ Restart => ForkInv'
<1> SUFFICES ASSUME ForkInv, Restart PROVE ForkInv'
  OBVIOUS
<1>1. BookInv' /\ ReplayInv'
  BY NoBook DEF Restart
<1>2. ReserveInv' /\ LedgerInv'
  BY EvidenceAssumption DEF Restart, ForkInv, ReserveInv, LedgerInv
<1>3. files' \in [Routes -> Files]
  BY NoFiles DEF Restart
<1>4. QED BY <1>1, <1>2, <1>3 DEF Restart, ForkInv

LEMMA ForkNext == ForkInv /\ [Next]_vars => ForkInv'
<1> SUFFICES ASSUME ForkInv, [Next]_vars PROVE ForkInv'
  OBVIOUS
<1>1. CASE ForkStep
  <2>1. PICK r \in DOMAIN fork : TakeCandidate(r) \/ Replay(r) \/ Collect(r)
    BY <1>1 DEF ForkStep
  <2>2. phase = "verify" /\ UNCHANGED <<phase, reserveVars, todo, book, ledger>>
    BY <1>1 DEF ForkStep
  <2>3. QED BY <2>1, <2>2, TakeStep, RunStep, CollectStep
<1>2. CASE FinishBlock
  BY <1>2, LeaveStep DEF FinishBlock
<1>3. CASE BlockRaises
  BY <1>3, LeaveStep DEF BlockRaises
<1>4. CASE UNCHANGED vars
  <2>1. Running' = Running
    BY <1>4 DEF vars, Running
  <2>2. BookInv' /\ ReplayInv'
    BY <1>4, <2>1 DEF vars, reserveVars, ForkInv, BookInv, ReplayInv
  <2>3. QED BY <1>4, <2>2 DEF vars, reserveVars, ForkInv, ReserveInv, LedgerInv
<1>5. QED
  BY <1>1, <1>2, <1>3, <1>4, RunBlockStep, ScanRouteStep, BeginVerificationStep,
     JoinForksStep, RecordStep, RestartStep DEF Next

(* Candidates are as the scan builds them from the frozen reserve, every    *)
(* stage of a replay is as its file says, and evidence tells its miss.     *)
THEOREM ForkInvariant == Spec => []ForkInv
<1>1. QED BY ForkInit, ForkNext, PTL DEF Spec

-----------------------------------------------------------------------------
(* What the invariant says of the rows, the cycle and the configuration.    *)

(* A row that says something belongs to a replay that is done.              *)
LEMMA RowsAreDone ==
  ASSUME ForkInv, NEW r \in DOMAIN fork
  PROVE  /\ fork[r] \in Replays /\ r \in DOMAIN book /\ frozen \in Nat
         /\ Good(book[r], frozen)
         /\ fork[r].row # NoRow => DoneOK(book[r], fork[r])
<1>1. fork[r] \in Replays /\ r \in DOMAIN book /\ ReplayOK(book[r], fork[r], files[r])
  BY DEF ForkInv, ReplayInv
<1>2. frozen \in Nat /\ Good(book[r], frozen)
  BY <1>1 DEF ForkInv, ReserveInv, BookInv
<1>3. fork[r].row # NoRow => DoneOK(book[r], fork[r])
  BY <1>1 DEF ReplayOK, Replays
<1>4. QED BY <1>1, <1>2, <1>3

(* The dollars of a recorded success cover gas, reserve and a raw unit, as  *)
(* long as the replay stayed within the modelled gas: the floor that the    *)
(* scan rounds into base units, the margin the encoder checks, the premium  *)
(* the fork pays and the scaling of gas when the result is read agree.      *)
THEOREM SuccessCoversReserve == Spec => []SuccessEarnsReserve
<1>1. ForkInv => SuccessEarnsReserve
  <2> SUFFICES ASSUME ForkInv, NEW r \in DOMAIN fork,
                      fork[r].row.success, fork[r].gas <= GasUnits
               PROVE  fork[r].row.realized >= book[r].reserve + Price
    BY DEF SuccessEarnsReserve
  <2>1. fork[r].row # NoRow
    BY NoRowFacts
  <2>2. /\ fork[r].row.realized = Earned(fork[r].raw, fork[r].gas)
        /\ fork[r].raw >= book[r].min
    BY <2>1, RowsAreDone DEF DoneOK
  <2>3. frozen \in Nat /\ fork[r].raw \in Int /\ fork[r].gas \in Nat
    BY RowsAreDone DEF Replays
  <2>4. book[r].min = MinProfit(frozen) /\ book[r].reserve = frozen
    BY RowsAreDone, GoodFacts
  <2>5. QED BY <2>2, <2>3, <2>4, FloorInDollars
<1>2. QED BY <1>1, ForkInvariant, PTL

(* The only thing that can refute a Uniswap cycle that the quoter confirmed *)
(* at the same block is the premium the scan does not charge, or less than  *)
(* one raw unit of rounding: the error of the forecast is bounded.          *)
THEOREM RevertsMissedPremium == Spec => []RevertIsPremium
<1>1. ForkInv => RevertIsPremium
  <2> SUFFICES ASSUME ForkInv, NEW r \in DOMAIN fork, book[r].kind = "cycle",
                      fork[r].row.class = "execution_revert"
               PROVE  book[r].net < (Premium(book[r]) + 1) * Price
    BY DEF RevertIsPremium
  <2>1. fork[r].row # NoRow
    BY NoRowFacts
  <2>2. QED BY <2>1, RowsAreDone DEF DoneOK, OnlyPremiumMissed
<1>2. QED BY <1>1, ForkInvariant, PTL

(* Whatever the interleaving of the replays, a row tells what its own       *)
(* replay measured.                                                        *)
THEOREM RowsAreOwn == Spec => []ResultIsOwn
<1>1. ForkInv => ResultIsOwn
  BY RowsAreDone DEF ResultIsOwn, DoneOK
<1>2. QED BY <1>1, ForkInvariant, PTL

(* All candidates of a cycle carry the frozen reserve, and no way out of a  *)
(* cycle leaves another value than the configured one behind.               *)
THEOREM ReserveIsOne == Spec => []OneReservePerCycle
<1>1. ForkInv => OneReservePerCycle
  <2>1. ASSUME ForkInv, NEW r \in DOMAIN book PROVE book[r].reserve = frozen
    BY <2>1, GoodFacts DEF ForkInv, ReserveInv, BookInv
  <2>2. ForkInv /\ phase = "idle" => config = Static
    BY DEF ForkInv, ReserveInv
  <2>3. QED BY <2>1, <2>2 DEF OneReservePerCycle
<1>2. QED BY <1>1, ForkInvariant, PTL

(* Candidates, rows and files keep their types, and no more replays run     *)
(* side by side than the configuration allows.                              *)
THEOREM ForkTypeCorrect == Spec => []ForkTypeOK
<1>1. ForkInv => ForkTypeOK
  <2> SUFFICES ASSUME ForkInv PROVE ForkTypeOK
    OBVIOUS
  <2>1. ASSUME NEW r \in DOMAIN book PROVE CandidateOK(book[r])
    BY <2>1, GoodFacts DEF ForkInv, ReserveInv, BookInv, CandidateOK
  <2>2. ASSUME NEW r \in DOMAIN fork PROVE RowOK(fork[r].row)
    BY <2>2, RowsAreDone DEF Replays, Rows, RowOK
  <2>3. ASSUME NEW i \in DOMAIN ledger PROVE RowOK(ledger[i])
    <3>1. ledger[i] \in Rows
      BY <2>3 DEF ForkInv, LedgerInv, Evidence
    <3>2. QED BY <3>1 DEF Rows, RowOK
  <2>4. {config, previous, frozen} \subseteq Nat
    BY DEF ForkInv, ReserveInv
  <2>5. DOMAIN book \subseteq Routes /\ DOMAIN fork \subseteq DOMAIN book
        /\ Cardinality(Running) <= MaxFork /\ DOMAIN files = Routes /\ Len(ledger) <= Lookback
    BY DEF ForkInv, BookInv, ReplayInv, LedgerInv
  <2>6. QED BY <2>1, <2>2, <2>3, <2>4, <2>5 DEF ForkTypeOK, ForkInv
<1>2. QED BY <1>1, ForkInvariant, PTL

-----------------------------------------------------------------------------
(* The reserve in force is the learned one.                                 *)

Missed == [i \in 1..Len(ledger) |-> ledger[i].missed]

(* Where the quantile is taken, it is the least shortfall that covers the   *)
(* asked share.                                                            *)
LEMMA QuantileCovers ==
  ASSUME NEW n \in Nat \ {0}, NEW sample \in [1..n -> Nat]
  PROVE  LET w == Smallest(CeilDiv(Share * n, 10), sample)
             enough(v) == 10 * Cardinality(Upto(sample, v)) >= Share * n
         IN /\ w \in {sample[i] : i \in DOMAIN sample} /\ w \in Nat /\ enough(w)
            /\ \A u \in {sample[i] : i \in DOMAIN sample} : enough(u) => w <= u
<1> DEFINE rank == CeilDiv(Share * n, 10)
           w == Smallest(rank, sample)
<1>1. rank \in 1..n /\ \A c \in Nat : c >= rank <=> 10 * c >= Share * n
  BY RankIs
<1> HIDE DEF rank
<1>2. /\ w \in {sample[i] : i \in DOMAIN sample}
      /\ Cardinality(Below(sample, w)) < rank /\ Cardinality(Upto(sample, w)) >= rank
  BY <1>1, SmallestIs
<1> HIDE DEF w
<1>3. w \in Nat
  BY <1>2
<1>4. 10 * Cardinality(Upto(sample, w)) >= Share * n
  BY <1>1, <1>2, <1>3, Counts
<1>5. ASSUME NEW u \in {sample[i] : i \in DOMAIN sample},
             10 * Cardinality(Upto(sample, u)) >= Share * n, u < w
      PROVE  FALSE
  <2>1. u \in Nat
    OBVIOUS
  <2>2. Upto(sample, u) \subseteq Below(sample, w)
    BY <1>3, <1>5, <2>1 DEF Upto, Below
  <2>3. Cardinality(Upto(sample, u)) <= Cardinality(Below(sample, w))
    BY <1>3, <2>2, Counts, FS_Subset
  <2>4. Cardinality(Upto(sample, u)) \in Nat /\ Cardinality(Below(sample, w)) \in Nat
    BY <1>3, <2>1, Counts
  <2>5. Cardinality(Upto(sample, u)) >= rank
    BY <1>1, <1>5, <2>4
  <2>6. rank \in Nat
    BY <1>1
  <2>7. \A a, b, c \in Nat : ~ (a >= b /\ a <= c /\ c < b)
    OBVIOUS
  <2>8. QED BY <1>2, <2>3, <2>4, <2>5, <2>6, <2>7
<1>6. \A u \in {sample[i] : i \in DOMAIN sample} : u \in Nat
  OBVIOUS
<1>7. QED BY <1>2, <1>3, <1>4, <1>5, <1>6 DEF w, rank

(* LearnedReserve's instance of the library counts like this module's.      *)
LEMMA SameCardinality == \A S : LR!Cardinality(S) = Cardinality(S)
  BY DEF LR!Cardinality, Cardinality

LEMMA EstimateIsLearned ==
  ASSUME LedgerInv
  PROVE  LR!Learned(Estimate(ledger))
<1> DEFINE n == Len(ledger)
           sample == [i \in 1..n |-> AdverseSample(ledger[i])]
           rank == CeilDiv(Share * n, 10)
<1>1. n \in Nat /\ sample \in [1..n -> Nat] /\ sample = Missed
  BY SampleType DEF LedgerInv, Missed
<1>2. Len(Missed) = n /\ DOMAIN Missed = 1..n
  BY <1>1 DEF Missed
<1>3. MinSamples \in Nat
  BY EvidenceAssumption
<1>4. \A v : Clamp(v) = LR!Bounded(v)
  BY DEF Clamp, LR!Bounded
<1>5. CASE n < MinSamples
  <2>1. Estimate(ledger) = Clamp(Bootstrap) /\ MinSamples > 0
    BY <1>1, <1>3, <1>5 DEF Estimate
  <2>2. QED BY <1>2, <1>4, <1>5, <2>1 DEF LR!Learned, Missed
<1>6. CASE n >= MinSamples /\ n = 0
  <2>1. Estimate(ledger) = Clamp(Floor) /\ ~ (MinSamples > 0)
    BY <1>1, <1>3, <1>6 DEF Estimate
  <2>2. Missed = <<>>
    BY <1>6 DEF Missed
  <2>3. QED BY <1>2, <1>4, <2>1, <2>2 DEF LR!Learned, Missed
<1>7. CASE n >= MinSamples /\ n # 0
  <2> DEFINE w == Smallest(rank, sample)
  <2>1. Estimate(ledger) = Clamp(w)
    BY <1>1, <1>3, <1>7, RankIs DEF Estimate
  <2>2. /\ w \in {sample[i] : i \in DOMAIN sample} /\ w \in Nat
        /\ 10 * Cardinality(Upto(sample, w)) >= Share * n
        /\ \A u \in {sample[i] : i \in DOMAIN sample} :
             10 * Cardinality(Upto(sample, u)) >= Share * n => w <= u
    BY <1>1, <1>7, QuantileCovers
  <2> HIDE DEF w, sample, n
  <2>3. LR!Covering = {u \in {sample[i] : i \in DOMAIN sample} :
                         10 * Cardinality(Upto(sample, u)) >= Share * n}
    <3>1. LR!Covering = {u \in {Missed[i] : i \in DOMAIN Missed} :
                           10 * Cardinality(Upto(Missed, u)) >= Share * Len(Missed)}
      BY SameCardinality DEF LR!Covering, Missed, Upto
    <3>2. QED BY <1>1, <1>2, <3>1
  <2>4. w \in LR!Covering /\ \A u \in LR!Covering : w <= u
    BY <2>2, <2>3
  <2>5. ~ (Len(Missed) < MinSamples \/ Missed = <<>>)
    BY <1>1, <1>2, <1>3, <1>7
  <2>6. QED BY <1>4, <2>1, <2>4, <2>5 DEF LR!Learned, Missed
<1>8. QED BY <1>1, <1>3, <1>5, <1>6, <1>7

(* A row of evidence is one observation of the abstract learner.            *)
LEMMA RecordObserves ==
  ASSUME LedgerInv, NEW row \in Rows, Telling(row), ledger' = ForkEconomics(ledger, row),
         UNCHANGED config
  PROVE  LR!Observe \/ UNCHANGED LR!lrVars
<1>1. Lookback \in Nat \ {0} /\ Len(ledger) \in Nat /\ Len(ledger) <= Lookback
      /\ ledger \in Seq(Evidence)
  BY EvidenceAssumption DEF LedgerInv
<1>2. CASE ~ Eligible(row)
  <2>1. ledger' = ledger
    BY <1>2 DEF ForkEconomics
  <2>2. QED BY <2>1 DEF LR!lrVars
<1>3. CASE Eligible(row)
  <2>1. row \in Evidence /\ row.missed \in Nat
    BY <1>3 DEF Evidence, Rows
  <2> DEFINE n == Len(ledger)
             longer == Append(Missed, row.missed)
  <2>2. /\ Missed \in Seq(Nat) /\ Len(Missed) = n
        /\ longer = [i \in 1..(n + 1) |-> IF i = n + 1 THEN row.missed ELSE ledger[i].missed]
        /\ longer \in Seq(Nat) /\ Len(longer) = n + 1
    <3>1. \A i \in 1..n : ledger[i].missed \in Nat
      <4>1. \A i \in 1..n : ledger[i] \in Evidence
        BY <1>1
      <4>2. \A r \in Evidence : r.missed \in Nat
        BY DEF Evidence, Rows
      <4>3. QED BY <4>1, <4>2
    <3>2. Missed \in Seq(Nat) /\ Len(Missed) = n
      BY <1>1, <3>1 DEF Missed
    <3>3. QED BY <1>1, <2>1, <3>2 DEF Missed
  <2>3. CASE n < Lookback
    <3>1. ledger' = Append(ledger, row)
      BY <1>3, <2>3 DEF ForkEconomics
    <3>2. Len(ledger') = n + 1 /\ \A i \in 1..(n + 1) :
            ledger'[i] = IF i = n + 1 THEN row ELSE ledger[i]
      BY <1>1, <2>1, <3>1
    <3>3. Missed' = longer
      BY <1>1, <2>2, <3>2 DEF Missed
    <3>4. LR!Newest(longer) = longer
      BY <1>1, <2>2, <2>3 DEF LR!Newest
    <3>5. Missed'[Len(Missed')] = row.missed /\ Missed' # <<>>
      BY <1>1, <2>2, <3>3
    <3>6. QED BY <2>1, <3>3, <3>4, <3>5 DEF LR!Observe, Missed
  <2>4. CASE n = Lookback
    <3>1. ledger' = Append(Tail(ledger), row)
      BY <1>1, <1>3, <2>4 DEF ForkEconomics
    <3>2. Len(ledger') = n /\ \A i \in 1..n :
            ledger'[i] = IF i = n THEN row ELSE ledger[i + 1]
      BY <1>1, <2>1, <2>4, <3>1
    <3>3. Missed' = Tail(longer)
      <4>1. Tail(longer) = [i \in 1..n |-> longer[i + 1]]
        BY <1>1, <2>2
      <4>2. \A i \in 1..n : longer[i + 1] = IF i = n THEN row.missed ELSE ledger[i + 1].missed
        BY <1>1, <2>2
      <4>3. QED BY <3>2, <4>1, <4>2 DEF Missed
    <3>4. LR!Newest(longer) = Tail(longer)
      BY <1>1, <2>2, <2>4 DEF LR!Newest
    <3>5. Len(Missed') = n /\ Missed'[n] = row.missed /\ Missed' # <<>>
      <4>1. Missed' = [i \in 1..n |-> ledger'[i].missed] /\ n \in Nat \ {0}
        BY <1>1, <2>4, <3>2 DEF Missed
      <4>2. ledger'[n] = row
        BY <3>2, <4>1
      <4> HIDE DEF n
      <4>3. QED BY <4>1, <4>2
    <3>6. Missed' = LR!Newest(Append(Missed, Missed'[Len(Missed')]))
      BY <3>3, <3>4, <3>5
    <3>7. Missed'[Len(Missed')] \in Nat
      BY <2>1, <3>5
    <3>8. QED BY <3>5, <3>6, <3>7 DEF LR!Observe, Missed
  <2>5. QED BY <1>1, <2>3, <2>4
<1>4. QED BY <1>2, <1>3

(* The whole loop - scanning, replaying, classifying, remembering, failing  *)
(* and restarting - charges what LearnedReserve charges and nothing else.   *)
THEOREM LearnsItsReserve == Spec => ImplementsLearnedReserve
<1>1. ForkInv /\ Init => LR!LrInit
  <2> SUFFICES ASSUME ForkInv, Init PROVE LR!LrInit
    OBVIOUS
  <2>1. Missed \in Seq(Nat) /\ Len(Missed) = Len(ledger)
    <3>1. Len(ledger) \in Nat /\ \A i \in 1..Len(ledger) : ledger[i].missed \in Nat
      BY SampleType DEF ForkInv, LedgerInv
    <3>2. QED BY <3>1 DEF Missed
  <2>2. QED BY <2>1 DEF LR!LrInit, Missed, Init, ForkInv, LedgerInv
<1>2. ForkInv /\ [Next]_vars => [LR!LrNext]_LR!lrVars
  <2> SUFFICES ASSUME ForkInv, [Next]_vars PROVE [LR!LrNext]_LR!lrVars
    OBVIOUS
  <2>1. ASSUME ledger' = ledger, config' = config PROVE UNCHANGED LR!lrVars
    BY <2>1 DEF LR!lrVars
  <2>2. ASSUME ledger' = ledger, config' = Static \/ LR!Learned(config') PROVE LR!LrNext
    BY <2>2 DEF LR!LrNext, LR!Charge
  <2>3. CASE RunBlock
    <3>1. ledger' = ledger /\ config' = Estimate(ledger)
      BY <2>3 DEF RunBlock, ReserveEstimate
    <3>2. LR!Learned(config')
      BY <3>1, EstimateIsLearned DEF ForkInv
    <3>3. QED BY <2>2, <3>1, <3>2
  <2>4. CASE ScanRoute \/ BeginVerification \/ ForkStep \/ JoinForks \/ UNCHANGED vars
    <3>1. ledger' = ledger /\ config' = config
      BY <2>4 DEF ScanRoute, BeginVerification, ForkStep, JoinForks, vars, reserveVars
    <3>2. QED BY <2>1, <3>1
  <2>5. CASE RecordForkVerification
    <3>1. PICK r \in Due : ledger' = ForkEconomics(ledger, fork[r].row) /\ config' = config
      BY <2>5 DEF RecordForkVerification, reserveVars
    <3>2. r \in DOMAIN fork /\ fork[r].row # NoRow
      BY DEF Due
    <3>3. fork[r].row \in Rows /\ Telling(fork[r].row)
      BY <3>2, RowsAreDone DEF DoneOK, Replays
    <3>4. QED BY <3>1, <3>3, RecordObserves DEF ForkInv, LR!LrNext
  <2>6. CASE FinishBlock \/ BlockRaises
    <3>1. ledger' = ledger /\ config' = previous /\ phase # "idle"
      BY <2>6 DEF FinishBlock, BlockRaises, LeaveBlock
    <3>2. config' = Static
      BY <3>1 DEF ForkInv, ReserveInv
    <3>3. QED BY <2>2, <3>1, <3>2
  <2>7. CASE Restart
    BY <2>2, <2>7 DEF Restart
  <2>8. QED BY <2>3, <2>4, <2>5, <2>6, <2>7 DEF Next
<1>3. QED
  BY <1>1, <1>2, ForkInvariant, PTL DEF Spec, ImplementsLearnedReserve, LR!LrSpec
=============================================================================
