---------------------------- MODULE ForkEvidence ----------------------------
(***************************************************************************)
(* The loop by which the swarm learns from its own forecasts: a reserve is *)
(* taken from the ledger, routes are scanned with it, the admitted ones    *)
(* are replayed on forks of the very block, each in a process of its own,  *)
(* and what the replays show goes to the ledger.  SwarmCycle has the rows, *)
(* the leases and the failures of the scan; here the figures matter.       *)
(* Dollars and raw units are those of RouteScan.                           *)
(***************************************************************************)
EXTENDS RouteScan, Sequences, FiniteSets

CONSTANTS
  Routes,      \* route ids and borrowers of the catalog
  Batch,       \* how many of them one cycle may scan
  KindOf,      \* the kind of each
  Ready,       \* routes all of whose venues are marked execution_supported
  AaveBps,     \* premium of the pool the fork executor borrows from
  GasUnits,    \* gas_limit, in units of which a replay uses a few
  GasUsed,     \* units a replay may use
  MaxFork,     \* max_fork_concurrency
  Lookback, MinSamples, Share, Floor, Cap, Bootstrap,
  Static       \* model_reserve_usd of the configuration file

ASSUME EvidenceAssumption ==
  /\ IsFiniteSet(Routes) /\ KindOf \in [Routes -> Kinds] /\ Ready \subseteq Routes
  /\ AaveBps \in Nat /\ GasUnits \in Nat \ {0} /\ GasUsed \subseteq Nat
  /\ MaxFork \in Nat \ {0} /\ Batch \in Nat
  /\ Lookback \in Nat \ {0} /\ MinSamples \in Nat /\ Share \in 1..10
  /\ Floor \in Nat /\ Cap \in Nat /\ Bootstrap \in Nat /\ Static \in Nat
  /\ Floor <= Cap

VARIABLES
  phase,     \* where run_block is
  config,    \* swarm_cfg["model_reserve_usd"]
  previous,  \* what run_block puts back there
  frozen,    \* _cycle_model_reserve_usd
  todo,      \* routes not yet scanned
  book,      \* admitted candidates, by route
  fork,      \* the replay of each candidate being verified
  files,     \* result files, by path
  ledger     \* fork_verifications: the rows fork_economics can still return

reserveVars == <<config, previous, frozen>>
vars == <<phase, reserveVars, todo, book, fork, files, ledger>>

Empty == [x \in {} |-> x]
Missing == [state |-> "missing", raw |-> 0, gas |-> 0]
Garbled == [Missing EXCEPT !.state = "garbled"]
Classes == {"measured_success", "execution_revert", "infrastructure_error",
            "invalid_harness"}

-----------------------------------------------------------------------------
(* Faulty variant: every row is evidence, whatever failed. *)
EveryRow(row) == row.class \in Classes

(* fork_economics returns the newest rows that are evidence of an           *)
(* execution; "ledger" holds just these, so here is what a new row does.   *)
Eligible(row) == row.class \in {"measured_success", "execution_revert"}

ForkEconomics(rows, row) ==
  IF ~ Eligible(row) THEN rows
  ELSE IF Len(rows) < Lookback THEN Append(rows, row)
  ELSE Append(Tail(rows), row)

(* _migrate_fork_outcomes: the class of a row of an older schema, by what   *)
(* its detail mentions.                                                    *)
MigratedClass(success, mentions) ==
  CASE success -> "measured_success"
    [] ~ success /\ mentions = "revert" -> "execution_revert"
    [] ~ success /\ mentions = "toolchain" -> "infrastructure_error"
    [] OTHER -> "invalid_harness"

Clamp(v) == IF v < Floor THEN Floor ELSE IF v > Cap THEN Cap ELSE v

(* _adverse_sample                                                          *)
AdverseSample(row) ==
  LET missed == IF row.error < 0 THEN -row.error ELSE 0
      wasted == ~ row.success /\ row.predicted > 0 /\ row.realized <= 0
  IN IF wasted /\ missed < row.predicted THEN row.predicted ELSE missed

(* The k-th smallest, as sorting would put it.                              *)
Smallest(k, sample) ==
  CHOOSE v \in {sample[i] : i \in DOMAIN sample} :
    /\ Cardinality({i \in DOMAIN sample : sample[i] < v}) < k
    /\ Cardinality({i \in DOMAIN sample : sample[i] <= v}) >= k

Estimate(rows) ==
  LET n == Len(rows)
      rank == CeilDiv(Share * n, 10)
  IN CASE n < MinSamples -> Clamp(Bootstrap)
       [] n >= MinSamples /\ n = 0 -> Clamp(Floor)
       [] OTHER -> Clamp(Smallest(IF rank < 1 THEN 1 ELSE rank,
                                  [i \in 1..n |-> AdverseSample(rows[i])]))

(* _reserve_estimate, with the adaptive policy enabled.                     *)
ReserveEstimate == Estimate(ledger)

-----------------------------------------------------------------------------
(* A row of the ledger.  "missed" is a history field: by how much the net   *)
(* promised before the reserve was missed on chain.                        *)
Row(class, predicted, realized, missed) ==
  [class |-> class, success |-> class = "measured_success",
   predicted |-> predicted, realized |-> realized,
   error |-> realized - predicted, missed |-> missed]

NoRow == Row("none", 0, 0, 0)

Init ==
  /\ phase = "idle" /\ config = Static /\ previous = Static /\ frozen = Static
  /\ todo = {} /\ book = Empty /\ fork = Empty
  /\ files = [r \in Routes |-> Missing]
  /\ \E success \in BOOLEAN, mentions \in {"revert", "toolchain", "else"} :
       ledger = ForkEconomics(<<>>, Row(MigratedClass(success, mentions), 2,
                                        IF success THEN 1 ELSE 0,
                                        IF success THEN 1 ELSE 2))

(* run_block: one reserve for the whole cycle, also put where workers look. *)
(* Which routes the agents lease is the business of SwarmCycle.             *)
RunBlock ==
  /\ phase = "idle"
  /\ phase' = "scan"
  /\ frozen' = ReserveEstimate
  /\ config' = frozen' /\ previous' = config
  /\ todo' \in {s \in SUBSET Routes : Cardinality(s) = Batch}
  /\ book' = Empty /\ fork' = Empty
  /\ UNCHANGED <<files, ledger>>

(* What scanning a route may find, over everything the quoters may say.     *)
Findings(r) ==
  CASE KindOf[r] = "cycle" ->
         {ScanCycle(local, exact, config) :
            local \in [Ladder -> LocalQuotes], exact \in [Ladder -> Quotes]}
    [] KindOf[r] = "multidex" ->
         {ScanMultidex(quotes, config, r \in Ready) : quotes \in [Loans -> Quotes]}
    [] KindOf[r] = "multihop" ->
         {ScanMultihop(quotes, config) : quotes \in [Loans -> Quotes]}
    [] OTHER ->
         {ScanBorrower(b, {q}, frozen) : b \in Borrowers, q \in Quotes}

(* Routes are scanned by many workers; their order makes no difference.     *)
ScanRoute ==
  LET r == CHOOSE x \in todo : TRUE
  IN /\ phase = "scan" /\ todo # {}
     /\ \E found \in Findings(r) :
          book' = [x \in DOMAIN book \cup {y \in {r} : found # {}} |->
                     IF x = r THEN CHOOSE c \in found : TRUE ELSE book[x]]
     /\ todo' = todo \ {r}
     /\ UNCHANGED <<phase, reserveVars, fork, files, ledger>>

Queued == [at |-> "queued", exit |-> "none", raw |-> 0, gas |-> 0, row |-> NoRow]

(* _verify_candidates: only what is executable is replayed, the rest is     *)
(* reported and forgotten.                                                 *)
BeginVerification ==
  LET executable == {x \in DOMAIN book : book[x].executable}
  IN /\ phase = "scan" /\ todo = {}
     /\ phase' = "verify"
     /\ book' = [r \in executable |-> book[r]]
     /\ fork' = [r \in executable |-> Queued]
     /\ UNCHANGED <<reserveVars, todo, files, ledger>>

-----------------------------------------------------------------------------
(* Faulty variant: all replays write to one and the same file. *)
OnePath(r) == CHOOSE x \in Routes : r \in Routes

(* _new_result_path: a name no other replay has.                            *)
ResultPath(r) == r

(* What the encoded steps demand of their last swap, above the loan.  The   *)
(* allowance for slippage never binds at the block of the quote.           *)
Demanded(c) == ScanFee(c.kind, c.loan) + c.min

(* build_uniswap_v3_steps, build_liquidation_steps refuse less than that.   *)
Encodable(c) == c.gross >= Demanded(c)

Running == {r \in DOMAIN fork : fork[r].at \in {"running", "exited"}}

(* A payload that cannot be encoded is a failure without any evidence.      *)
RejectPayload(r) ==
  /\ ~ Encodable(book[r])
  /\ fork' = [fork EXCEPT ![r].at = "done"]
  /\ UNCHANGED files

(* The script removes the result file before it runs forge.                 *)
StartReplay(r) ==
  /\ Encodable(book[r])
  /\ fork' = [fork EXCEPT ![r].at = "running"]
  /\ files' = [files EXCEPT ![ResultPath(r)] = Missing]

(* Faulty variant: one thread for each candidate. *)
TakeAtOnce(r) == fork[r].at = "queued" /\ (RejectPayload(r) \/ StartReplay(r))

TakeCandidate(r) ==
  /\ fork[r].at = "queued"
  /\ Cardinality(Running) < MaxFork
  /\ RejectPayload(r) \/ StartReplay(r)

(* What the pools the steps trade on really give.  The encoder knows only   *)
(* SwapRouter02, so a mixed-venue route is replayed on Uniswap's pools of   *)
(* the same fee tiers, about which its quotes say nothing.                 *)
OnChain(c) == IF c.kind = "multidex" THEN Grosses ELSE {c.truth}

Premium(c) == FlashFee(c.loan, AaveBps)

(* ZeroForkExecutor borrows from Aave: a step or the final check reverts    *)
(* unless the output also covers Aave's premium.                           *)
Reverts(c, gross) ==
  \/ gross < Demanded(c)
  \/ gross < Premium(c) + c.min

(* The replay ends; "raw" and "gas" are history: what it really did.        *)
Ends(r, exit, raw, gas) ==
  fork' = [fork EXCEPT ![r].at = "exited", ![r].exit = exit,
                       ![r].raw = raw, ![r].gas = gas]

Leaves(r, file) == files' = [files EXCEPT ![ResultPath(r)] = file]

Measure(r) ==
  \E gross \in OnChain(book[r]), gas \in GasUsed :
    LET raw == gross - Premium(book[r])
    IN /\ ~ Reverts(book[r], gross)
       /\ Ends(r, "measured", raw, gas)
       /\ Leaves(r, [state |-> "valid", raw |-> raw, gas |-> gas])

(* StepFailed or MinimumProfitNotMet in the output of forge; the collateral *)
(* really seized may also fall short of what the unwind step sells.        *)
Revert(r) ==
  /\ \/ \E gross \in OnChain(book[r]) : Reverts(book[r], gross)
     \/ book[r].kind = "liquidation"
  /\ Ends(r, "reverted", 0, 0)
  /\ UNCHANGED files

(* forge or the RPC node fails, or the process cannot be started.           *)
Break(r) == Ends(r, "failed", 0, 0) /\ UNCHANGED files

(* forge passes, and its result file is missing or cannot be parsed.        *)
Spoil(r) ==
  /\ Ends(r, "spoiled", 0, 0)
  /\ \E left \in {Missing, Garbled} : Leaves(r, left)

Replay(r) ==
  /\ fork[r].at = "running"
  /\ Measure(r) \/ Revert(r) \/ Break(r) \/ Spoil(r)

(* Dollars a replay earned: the tokens kept, less the modelled gas scaled   *)
(* by the gas it used.                                                     *)
Earned(raw, gas) == raw * Price - (Gas * gas) \div GasUnits

(* run_live_candidate_fork_result and its liquidation twin: the class and   *)
(* the figures of a replay that is over.  The prediction has the reserve    *)
(* added back.                                                             *)
ReplayRow(c, replay, file) ==
  LET predicted == c.net + c.reserve
      promised == (c.gross - ScanFee(c.kind, c.loan)) * Price - Gas
      short == promised - Earned(replay.raw, replay.gas)
  IN CASE replay.exit = "reverted" ->
            Row("execution_revert", predicted, 0, promised)
       [] replay.exit = "failed" ->
            Row("infrastructure_error", predicted, 0, 0)
       [] replay.exit \in {"measured", "spoiled"} /\ file.state = "valid" ->
            Row("measured_success", predicted, Earned(file.raw, file.gas),
                IF short > 0 THEN short ELSE 0)
       [] OTHER -> Row("invalid_harness", predicted, 0, 0)

(* The file is read, and removed whatever it was.                           *)
Collect(r) ==
  /\ fork[r].at = "exited"
  /\ fork' = [fork EXCEPT
       ![r].at = "done", ![r].row = ReplayRow(book[r], fork[r], files[ResultPath(r)])]
  /\ Leaves(r, Missing)

ForkStep ==
  /\ phase = "verify"
  /\ \E r \in DOMAIN fork : TakeCandidate(r) \/ Replay(r) \/ Collect(r)
  /\ UNCHANGED <<phase, reserveVars, todo, book, ledger>>

-----------------------------------------------------------------------------
(* All futures are back in the supervisor's thread.                         *)
JoinForks ==
  /\ phase = "verify" /\ \A r \in DOMAIN fork : fork[r].at = "done"
  /\ phase' = "persist"
  /\ UNCHANGED <<reserveVars, todo, book, fork, files, ledger>>

Due == {r \in DOMAIN fork : fork[r].row # NoRow}

(* The order of the rows: by strategy, then by gas.                         *)
Precedes(r, s) ==
  LET late(x) == book[x].kind = "liquidation"
  IN \/ ~ late(r) /\ late(s)
     \/ late(r) = late(s) /\ fork[r].gas <= fork[s].gas

RecordForkVerification ==
  \E r \in Due :
    /\ phase = "persist"
    /\ \A s \in Due : Precedes(r, s)
    /\ ledger' = ForkEconomics(ledger, fork[r].row)
    /\ fork' = [x \in DOMAIN fork \ {r} |-> fork[x]]
    /\ book' = [x \in DOMAIN book \ {r} |-> book[x]]
    /\ UNCHANGED <<phase, reserveVars, todo, files>>

(* Faulty variant: the cycle's reserve stays in the configuration. *)
LeaveReserveBehind ==
  /\ phase' = "idle" /\ UNCHANGED config
  /\ todo' = {} /\ book' = Empty /\ fork' = Empty
  /\ UNCHANGED <<previous, frozen, files, ledger>>

(* run_block returns or raises: either way the configuration is put back.   *)
LeaveBlock ==
  /\ phase' = "idle" /\ config' = previous
  /\ todo' = {} /\ book' = Empty /\ fork' = Empty
  /\ UNCHANGED <<previous, frozen, files, ledger>>

FinishBlock == phase = "persist" /\ Due = {} /\ LeaveBlock

(* A read of the chain or a write of the ledger raises.                     *)
BlockRaises ==
  /\ phase \in {"scan", "persist"}
  /\ phase = "persist" => Due # {}
  /\ LeaveBlock

(* The process dies and a new one starts from the configuration file; the   *)
(* result files of the old one have names no replay has again.             *)
Restart ==
  /\ phase' = "idle" /\ config' = Static /\ previous' = Static /\ frozen' = Static
  /\ todo' = {} /\ book' = Empty /\ fork' = Empty
  /\ files' = [r \in Routes |-> Missing]
  /\ UNCHANGED ledger

Next ==
  \/ RunBlock \/ ScanRoute \/ BeginVerification \/ ForkStep \/ JoinForks
  \/ RecordForkVerification \/ FinishBlock \/ BlockRaises \/ Restart

Spec == Init /\ [][Next]_vars

-----------------------------------------------------------------------------
CandidateOK(c) ==
  /\ c.kind \in Kinds /\ c.executable \in BOOLEAN
  /\ c.loan \in Nat /\ c.min \in Nat /\ c.reserve \in Nat
  /\ c.gross \in Int /\ c.truth \in Int /\ c.net \in Nat

RowOK(row) ==
  /\ row.class \in Classes \cup {"none"} /\ row.success \in BOOLEAN
  /\ {row.predicted, row.realized, row.error} \subseteq Int /\ row.missed \in Nat

(* Every variable keeps its shape; replays are of admitted candidates, at   *)
(* most max_fork_concurrency at a time.                                    *)
ForkTypeOK ==
  /\ phase \in {"idle", "scan", "verify", "persist"}
  /\ {config, previous, frozen} \subseteq Nat
  /\ todo \subseteq Routes
  /\ DOMAIN book \subseteq Routes /\ \A r \in DOMAIN book : CandidateOK(book[r])
  /\ DOMAIN fork \subseteq DOMAIN book /\ \A r \in DOMAIN fork : RowOK(fork[r].row)
  /\ Cardinality(Running) <= MaxFork
  /\ DOMAIN files = Routes
  /\ Len(ledger) <= Lookback /\ \A i \in DOMAIN ledger : RowOK(ledger[i])

(* A replay that is called a success has paid for gas and for the reserve   *)
(* it was admitted with, and one raw unit more, as long as it stayed within *)
(* the modelled gas: the floor the scan computes in base units, rounds and  *)
(* hands to the contract holds for the dollars that are read back.         *)
SuccessEarnsReserve ==
  \A r \in DOMAIN fork :
    (fork[r].row.success /\ fork[r].gas <= GasUnits) =>
      fork[r].row.realized >= book[r].reserve + Price

(* An exact-quoted Uniswap route that the fork refutes promised less than   *)
(* the premium of the pool the fork borrows from, which the scan leaves     *)
(* out, and one raw unit: nothing else can make it revert at its own block. *)
RevertIsPremium ==
  \A r \in DOMAIN fork :
    (book[r].kind = "cycle" /\ fork[r].row.class = "execution_revert") =>
      book[r].net < (Premium(book[r]) + 1) * Price

(* Replays that run side by side never read each other's figures: what is   *)
(* recorded as measured is what this very replay did, and what it measured  *)
(* is recorded.                                                            *)
ResultIsOwn ==
  \A r \in DOMAIN fork : fork[r].row # NoRow =>
    /\ fork[r].row.success <=> fork[r].exit = "measured"
    /\ fork[r].row.success =>
         fork[r].row.realized = Earned(fork[r].raw, fork[r].gas)

(* One reserve per cycle: all candidates carry the one that was frozen, and *)
(* once the cycle is left, however it is, the configured value is back.     *)
OneReservePerCycle ==
  /\ \A r \in DOMAIN book : book[r].reserve = frozen
  /\ phase = "idle" => config = Static

(* The reserve in force is the one the promise of LearnedReserve asks for:  *)
(* it moves only by what replays really executed and missed, whatever       *)
(* reserve they were admitted with, and never by failures of forge, of the  *)
(* node or of the harness.                                                 *)
LR == INSTANCE LearnedReserve WITH
        evidence <- [i \in 1..Len(ledger) |-> ledger[i].missed],
        charged <- config

ImplementsLearnedReserve == LR!LrSpec
=============================================================================
