--------------------------- MODULE LearnedReserve ---------------------------
(***************************************************************************)
(* What the adaptive reserve promises.  Every replay that really executed  *)
(* shows by how much the profit promised before any reserve was missed.    *)
(* While a cycle runs, the reserve is the least of the recent shortfalls   *)
(* that covers the asked share of them, within its bounds; between cycles  *)
(* the configured value is in force.                                       *)
(***************************************************************************)
EXTENDS Naturals, Sequences, FiniteSets

CONSTANTS
  Lookback,    \* shortfalls remembered
  MinSamples,  \* below that many the bootstrap value is charged
  Share,       \* quantile, in tenths
  Floor, Cap, Bootstrap,
  Static       \* model_reserve_usd of the configuration file


VARIABLES
  evidence,  \* shortfalls, the newest last
  charged    \* the reserve in force

lrVars == <<evidence, charged>>

Newest(s) == IF Len(s) > Lookback THEN Tail(s) ELSE s

Bounded(v) == IF v < Floor THEN Floor ELSE IF v > Cap THEN Cap ELSE v

Covering == {v \in {evidence[i] : i \in DOMAIN evidence} :
  10 * Cardinality({i \in DOMAIN evidence : evidence[i] <= v}) >= Share * Len(evidence)}

Learned(v) ==
  IF Len(evidence) < MinSamples \/ evidence = <<>>
    THEN v = Bounded(IF MinSamples > 0 THEN Bootstrap ELSE Floor)
    ELSE \E w \in Covering : v = Bounded(w) /\ \A u \in Covering : w <= u

LrInit ==
  /\ evidence \in Seq(Nat) /\ Len(evidence) <= Lookback
  /\ charged = Static

Observe ==
  /\ evidence' # <<>> /\ evidence'[Len(evidence')] \in Nat
  /\ evidence' = Newest(Append(evidence, evidence'[Len(evidence')]))
  /\ UNCHANGED charged

Charge == (Learned(charged') \/ charged' = Static) /\ UNCHANGED evidence

LrNext == Observe \/ Charge

LrSpec == LrInit /\ [][LrNext]_lrVars
=============================================================================
