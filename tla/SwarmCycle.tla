------------------------------ MODULE SwarmCycle ------------------------------
(***************************************************************************)
(* SwarmSupervisor.run_block and its PnlSwarmSupervisor extension, called  *)
(* again and again by cmd_swarm: one pinned-block cycle after another over *)
(* one lease registry and one ledger.  The scan phase is WorkAllocator's.  *)
(* Every ledger write, the watchlist scan and the bookkeeping happen on    *)
(* the CEO thread; an exception in them abandons the cycle, and cmd_swarm  *)
(* records the error and starts the next cycle on whatever block the head  *)
(* then is: a later one, the same one, or an earlier one after a failover. *)
(***************************************************************************)
EXTENDS WorkAllocator

CONSTANTS
  NumLiquidations,  \* liquidation route ids the watchlist scan may return
  ObserveOnly,      \* candidates whose payload is not executable on a fork
  MaxReplays        \* bound of the replays history variable; 0 leaves it out

Liquidation == (NumRoutes + 1)..(NumRoutes + NumLiquidations)
Candidate == Route \cup Liquidation

ASSUME SwarmCycleAssumption ==
  /\ NumLiquidations \in Nat
  /\ ObserveOnly \subseteq Candidate
  /\ MaxReplays \in Nat

Phase == {"idle", "scan", "persist", "liquidate", "verify", "evidence"}
Verdict == {"none", "pass", "fail", "error"}

VARIABLES
  phase,      \* how far run_block is; "idle" between two calls
  found,      \* routes whose rows the joined workers returned
  gains,      \* those whose expected net is positive
  failures,   \* error records: <<worker, route>>, NoRoute for a whole worker
  watch,      \* liquidation candidates of this cycle
  recorded,   \* opportunity rows written in this cycle, by candidate
  logged,     \* error rows written in this cycle
  verdict,    \* outcome of each candidate's fork replay in this cycle
  evidence,   \* fork_verifications rows written in this cycle
  report,     \* counters of the cycle, the dict run_block returns
  rowCount,   \* history: opportunity rows per key since its lease expired
  replays     \* history: fork replays per block and candidate, up to MaxReplays

ceoVars == <<phase, found, gains, failures, watch, recorded, logged, verdict,
             evidence, report, rowCount, replays>>
vars == <<allocVars, ceoVars>>

NoReport == [complete |-> FALSE, listed |-> 0, scanned |-> 0, duplicates |-> 0,
             detected |-> 0, failures |-> 0, positive |-> 0,
             passed |-> 0, failed |-> 0]

Init ==
  /\ AllocInit
  /\ phase = "idle"
  /\ found = {} /\ gains = {} /\ failures = {} /\ watch = {}
  /\ recorded = {} /\ logged = {} /\ evidence = {}
  /\ verdict = [c \in Candidate |-> "none"]
  /\ report = NoReport
  /\ rowCount = [k \in Key |-> 0]
  /\ replays = [k \in Blocks \X Candidate |-> 0]

-----------------------------------------------------------------------------
(* Every call of run_block starts from empty locals. *)
ForgetCycle ==
  /\ found' = {} /\ gains' = {} /\ failures' = {} /\ watch' = {}
  /\ recorded' = {} /\ logged' = {} /\ evidence' = {}
  /\ verdict' = [c \in Candidate |-> "none"]
  /\ report' = NoReport

(* The start of run_block: pin the block, build the catalog, deal it.      *)
RunBlock(b, cat) ==
  /\ phase = "idle"
  /\ Dispatch(b, cat)
  /\ phase' = "scan"
  /\ ForgetCycle
  /\ UNCHANGED <<rowCount, replays>>

ScanPhase(w) ==
  /\ phase = "scan"
  /\ WorkerStep(w)
  /\ UNCHANGED ceoVars

(* The as_completed loop.  A future that raised contributes one error      *)
(* record and nothing of what its worker had found.                        *)
JoinWorkers ==
  LET joined == {w \in Worker : pc[w] = "returned"}
      lost == {w \in Worker : pc[w] = "raised"}
      rows == UNION {outcome[w].rows : w \in joined}
      errors == (UNION {{w} \X outcome[w].errors : w \in joined}) \cup (lost \X {NoRoute})
      repeated == Len(catalog) - Cardinality(Listed(catalog))
      suppressed == UNION {outcome[w].duplicates : w \in joined}
  IN  /\ phase = "scan"
      /\ Join
      /\ phase' = "persist"
      /\ found' = rows
      /\ gains' = UNION {outcome[w].profitable : w \in joined}
      /\ failures' = errors
      /\ report' = [NoReport EXCEPT
           !.listed = Len(catalog),
           !.scanned = Cardinality(UNION {outcome[w].scanned : w \in joined}),
           !.duplicates = repeated + Cardinality(suppressed),
           !.detected = Cardinality(rows),
           !.failures = Cardinality(errors)]
      /\ UNCHANGED <<watch, recorded, logged, verdict, evidence, rowCount, replays>>

-----------------------------------------------------------------------------
(* _persist_rows: rows in route-id order, then errors by worker and route, *)
(* each INSERT with a commit of its own.                                   *)

RowsDue == found \ recorded
ErrorsDue == failures \ logged
FirstRow(r) == \A s \in RowsDue : r <= s
FirstError(e) == \A f \in ErrorsDue : e[1] < f[1] \/ (e[1] = f[1] /\ e[2] <= f[2])

CountRow(r) == rowCount' = [rowCount EXCEPT ![<<block, r>>] = @ + 1]

PersistRow ==
  /\ phase = "persist"
  /\ \E r \in RowsDue :
       /\ FirstRow(r)
       /\ recorded' = recorded \cup {r}
       /\ CountRow(r)
  /\ UNCHANGED <<allocVars, phase, found, gains, failures, watch, logged, verdict,
                 evidence, report, replays>>

(* Faulty variant: error rows are keyed by worker alone. *)
PersistErrorByWorker ==
  /\ phase = "persist"
  /\ RowsDue = {}
  /\ \E e \in ErrorsDue : FirstError(e) /\ logged' = logged \cup {<<e[1]>>}
  /\ UNCHANGED <<allocVars, phase, found, gains, failures, watch, recorded, verdict,
                 evidence, report, rowCount, replays>>

PersistError ==
  /\ phase = "persist"
  /\ RowsDue = {}
  /\ \E e \in ErrorsDue : FirstError(e) /\ logged' = logged \cup {e}
  /\ UNCHANGED <<allocVars, phase, found, gains, failures, watch, recorded, verdict,
                 evidence, report, rowCount, replays>>

(* _extra_candidates: the watchlist scan at the pinned block. *)
ScanWatchlist ==
  /\ phase = "persist"
  /\ RowsDue = {} /\ ErrorsDue = {}
  /\ phase' = "liquidate"
  /\ watch' \in SUBSET Liquidation
  /\ UNCHANGED <<allocVars, found, gains, failures, recorded, logged, verdict,
                 evidence, report, rowCount, replays>>

RecordLiquidation(c) ==
  /\ phase = "liquidate"
  /\ c \in watch \ recorded
  /\ recorded' = recorded \cup {c}
  /\ UNCHANGED <<allocVars, phase, found, gains, failures, watch, logged, verdict,
                 evidence, report, rowCount, replays>>

(* OpportunityBook: the positive candidates, one per route and block. *)
Book == gains \cup watch
Executable == Book \ ObserveOnly

(* Faulty variant: liquidations go to the fork before they are recorded. *)
BeginVerificationEarly ==
  /\ phase = "liquidate"
  /\ phase' = "verify"
  /\ report' = [report EXCEPT !.positive = Cardinality(Book)]
  /\ UNCHANGED <<allocVars, found, gains, failures, watch, recorded, logged, verdict,
                 evidence, rowCount, replays>>

BeginVerification ==
  /\ phase = "liquidate"
  /\ watch \subseteq recorded
  /\ phase' = "verify"
  /\ report' = [report EXCEPT !.positive = Cardinality(Book)]
  /\ UNCHANGED <<allocVars, found, gains, failures, watch, recorded, logged, verdict,
                 evidence, rowCount, replays>>

(* verify_one on the fork pool: the replay passes, fails with a ForkResult,*)
(* or raises and leaves no result.  The ranking is by expected net, which  *)
(* the model does not hold, so candidates come in any order.               *)
VerifyOne(c) ==
  /\ phase = "verify"
  /\ c \in Executable
  /\ verdict[c] = "none"
  /\ \E v \in Verdict \ {"none"} : verdict' = [verdict EXCEPT ![c] = v]
  /\ replays' = [replays EXCEPT ![<<block, c>>] = IF @ < MaxReplays THEN @ + 1 ELSE @]
  /\ UNCHANGED <<allocVars, phase, found, gains, failures, watch, recorded, logged,
                 evidence, report, rowCount>>

Judged(v) == {c \in Candidate : verdict[c] = v}

(* Faulty variant: a replay that raised is not counted as failed. *)
CollectResultsOnly ==
  /\ phase = "verify"
  /\ Executable \cap Judged("none") = {}
  /\ phase' = "evidence"
  /\ report' = [report EXCEPT
       !.passed = Cardinality(Judged("pass")),
       !.failed = Cardinality(Judged("fail"))]
  /\ UNCHANGED <<allocVars, found, gains, failures, watch, recorded, logged, verdict,
                 evidence, rowCount, replays>>

CollectVerdicts ==
  /\ phase = "verify"
  /\ Executable \cap Judged("none") = {}
  /\ phase' = "evidence"
  /\ report' = [report EXCEPT
       !.passed = Cardinality(Judged("pass")),
       !.failed = Cardinality(Judged("fail") \cup Judged("error"))]
  /\ UNCHANGED <<allocVars, found, gains, failures, watch, recorded, logged, verdict,
                 evidence, rowCount, replays>>

(* record_fork_verification, after every fork future has rejoined. *)
EvidenceDue == (Judged("pass") \cup Judged("fail")) \ evidence

RecordVerdict(c) ==
  /\ phase = "evidence"
  /\ c \in EvidenceDue
  /\ evidence' = evidence \cup {c}
  /\ UNCHANGED <<allocVars, phase, found, gains, failures, watch, recorded, logged,
                 verdict, report, rowCount, replays>>

(* The end of run_block: expire the leases and return the report. *)
FinishCycle ==
  /\ phase = "evidence"
  /\ EvidenceDue = {}
  /\ ExpireLeases
  /\ phase' = "idle"
  /\ report' = [report EXCEPT !.complete = TRUE]
  /\ rowCount' = [k \in Key |-> IF k[1] < block + 1 THEN 0 ELSE rowCount[k]]
  /\ UNCHANGED <<found, gains, failures, watch, recorded, logged, verdict,
                 evidence, replays>>

-----------------------------------------------------------------------------
(* Exceptions that leave run_block.  Its locals go out of scope and nothing *)
(* else is undone: the rows stay written and the leases stay taken.        *)

Abandon ==
  /\ phase' = "idle"
  /\ ForgetCycle
  /\ UNCHANGED <<allocVars, replays>>

(* An INSERT or its commit raises; after a failed commit the row is still  *)
(* in the open transaction and the next commit writes it.  The watchlist   *)
(* scan's own error rows, which the model does not keep, may raise too.    *)
LedgerRaises ==
  \/ /\ phase = "persist"
     /\ \E r \in RowsDue : FirstRow(r) /\ (CountRow(r) \/ UNCHANGED rowCount)
     /\ Abandon
  \/ /\ \/ phase = "persist" /\ RowsDue = {} /\ ErrorsDue # {}
        \/ phase = "liquidate"
        \/ phase = "evidence" /\ EvidenceDue # {}
     /\ UNCHANGED rowCount
     /\ Abandon

(* The watchlist scan's own reads raise (pool_address). *)
WatchlistRaises ==
  /\ phase = "persist"
  /\ RowsDue = {} /\ ErrorsDue = {}
  /\ UNCHANGED rowCount
  /\ Abandon

-----------------------------------------------------------------------------
CeoStep ==
  \/ JoinWorkers
  \/ PersistRow
  \/ PersistError
  \/ ScanWatchlist
  \/ \E c \in Liquidation : RecordLiquidation(c)
  \/ BeginVerification
  \/ CollectVerdicts
  \/ \E c \in Candidate : RecordVerdict(c)
  \/ FinishCycle

Next ==
  \/ \E b \in Blocks, cat \in Catalogs : RunBlock(b, cat)
  \/ \E w \in Worker : ScanPhase(w)
  \/ CeoStep
  \/ \E c \in Candidate : VerifyOne(c)
  \/ LedgerRaises
  \/ WatchlistRaises

Spec == Init /\ [][Next]_vars

(* Worker threads and the CEO run; SQLite and RPC calls are bounded by     *)
(* timeouts.  The fork replay is a subprocess without a timeout, so        *)
(* nothing is assumed of VerifyOne.                                        *)
Fairness ==
  /\ \A w \in Worker : WF_vars(phase = "scan" /\ (Start(w) \/ RunWorker(w))
                               /\ UNCHANGED ceoVars)
  /\ WF_vars(CeoStep)

FairSpec == Spec /\ Fairness

-----------------------------------------------------------------------------
(* Properties. *)

CycleTypeOK ==
  /\ AllocTypeOK
  /\ phase \in Phase
  /\ found \in SUBSET Route
  /\ gains \in SUBSET Route
  /\ failures \in SUBSET (Worker \X (Route \cup {NoRoute}))
  /\ watch \in SUBSET Liquidation
  /\ recorded \in SUBSET Candidate
  /\ logged \in SUBSET (Worker \X (Route \cup {NoRoute}))
  /\ verdict \in [Candidate -> Verdict]
  /\ evidence \in SUBSET Candidate
  /\ rowCount \in [Key -> Nat]
  /\ replays \in [Blocks \X Candidate -> 0..MaxReplays]

(* A candidate reaches the fork only after its opportunity row is in the   *)
(* ledger in the same cycle, whichever scanner found it: fork evidence is  *)
(* never about an opportunity that was not recorded.                       *)
RecordedBeforeFork ==
  \A c \in Candidate : verdict[c] # "none" => c \in recorded

(* However often a cycle fails half way and the block is tried again, and  *)
(* even when a failed commit lands later, the ledger holds at most one row *)
(* per route and block until the block's leases expire.                    *)
RecordedOnce == \A k \in Key : rowCount[k] <= 1

(* What run_block returns agrees with what it wrote: rows, errors, replays *)
(* and their verdicts; and when no worker was lost every catalog entry is  *)
(* either scanned or counted as a duplicate.                               *)
ReportAddsUp ==
  report.complete =>
    /\ report.detected = Cardinality(recorded \cap Route)
    /\ report.failures = Cardinality(logged)
    /\ report.passed + report.failed = Cardinality(Executable)
    /\ Cardinality(evidence) <= report.passed + report.failed
    /\ report.passed <= Cardinality(evidence)
    /\ (WorkStealing /\ \A e \in failures : e[2] # NoRoute) =>
         report.scanned + report.duplicates = report.listed

(* A cycle always ends, or waits for a fork replay: no lock, no full pool  *)
(* and no dead worker can hang it anywhere else.                           *)
CycleEnds ==
  phase # "idle" ~>
    \/ phase = "idle"
    \/ phase = "verify" /\ Executable \cap Judged("none") # {}

(* What the documents say and the code does not do. *)

(* "Worker exceptions are recorded and that route lease is released."      *)
FailedRouteReleased ==
  \A e \in failures : e[2] # NoRoute => leases[<<block, e[2]>>] # e[1]

(* "Leases expire at the end of the scan block."                           *)
LeasesEndWithCycle ==
  phase = "idle" => \A k \in Key : k[1] <= block => leases[k] = Nobody

(* "Duplicate candidates are not fork-verified twice for the same block."  *)
ReplayedOncePerBlock == \A k \in Blocks \X Candidate : replays[k] <= 1
=============================================================================
