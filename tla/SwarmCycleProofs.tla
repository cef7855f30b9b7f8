--------------------------- MODULE SwarmCycleProofs ---------------------------
(***************************************************************************)
(* Theorems about SwarmCycle, for any number of workers, routes, blocks    *)
(* and failures, and any order in which cmd_swarm revisits a block.        *)
(***************************************************************************)
EXTENDS SwarmCycle, WorkAllocatorProofs

(* The steps of the CEO that leave the allocator and the leases alone. *)
Quiet ==
  \/ PersistRow \/ PersistError \/ ScanWatchlist
  \/ \E c \in Liquidation : RecordLiquidation(c)
  \/ BeginVerification \/ CollectVerdicts
  \/ \E c \in Candidate : RecordVerdict(c)
  \/ \E c \in Candidate : VerifyOne(c)
  \/ LedgerRaises \/ WatchlistRaises

LEMMA CycleCases ==
  Next <=>
    \/ \E b \in Blocks, cat \in Catalogs : RunBlock(b, cat)
    \/ \E w \in Worker : ScanPhase(w)
    \/ JoinWorkers
    \/ Quiet
    \/ FinishCycle
  BY DEF Next, CeoStep, Quiet

LEMMA QuietStutters == Quiet => UNCHANGED allocVars
  BY DEF Quiet, PersistRow, PersistError, ScanWatchlist, RecordLiquidation,
     BeginVerification, CollectVerdicts, RecordVerdict, VerifyOne, LedgerRaises,
     WatchlistRaises, Abandon

-----------------------------------------------------------------------------
(* Every step of the cycle is a step of the allocator or leaves it alone,  *)
(* so what was proved of the allocator holds of the swarm.                 *)

LEMMA NextDrives == [Next]_vars => [AllocNext]_allocVars
<1> SUFFICES ASSUME [Next]_vars PROVE [AllocNext]_allocVars
  OBVIOUS
<1>1. ASSUME NEW b \in Blocks, NEW cat \in Catalogs, RunBlock(b, cat)
      PROVE  AllocNext
  BY <1>1 DEF RunBlock, AllocNext
<1>2. ASSUME NEW w \in Worker, ScanPhase(w) PROVE AllocNext
  BY <1>2 DEF ScanPhase, AllocNext
<1>3. CASE JoinWorkers
  BY <1>3 DEF JoinWorkers, AllocNext
<1>4. CASE Quiet
  BY <1>4, QuietStutters
<1>5. CASE FinishCycle
  BY <1>5 DEF FinishCycle, AllocNext
<1>6. CASE UNCHANGED vars
  BY <1>6 DEF vars
<1>7. QED BY <1>1, <1>2, <1>3, <1>4, <1>5, <1>6, CycleCases

(* The CEO deals catalogs and expires leases only while no worker thread   *)
(* is alive: the swarm is a run of the allocator.                          *)
LEMMA DrivesAllocator == Spec => AllocSpec
<1>1. Init => AllocInit
  BY DEF Init
<1>2. QED BY <1>1, NextDrives, PTL DEF Spec, AllocSpec

(* Across any sequence of cycles, failed ones and repeated blocks          *)
(* included, no route is scanned twice under one lease.                    *)
THEOREM SwarmScansOnce == Spec => []ScannedOnce
  BY DrivesAllocator, ScannedOnceHolds, PTL

LEMMA SwarmAllocInv == Spec => [](TypeInv /\ LeaseInv)
<1>1. Init => AllocInit
  BY DEF Init
<1>2. QED
  BY <1>1, NextDrives, TypeInit, TypeNext, LeaseInit, LeaseNext, PTL DEF Spec

-----------------------------------------------------------------------------
(* What a worker has found. *)

(* An idle worker has no results, workers are idle outside the scan phase, *)
(* and a profitable row is a row.                                          *)
ResultsInv ==
  /\ phase # "scan" => AllIdle
  /\ \A w \in Worker :
       /\ pc[w] = "idle" => outcome[w] = NoOutcome
       /\ outcome[w].profitable \subseteq outcome[w].rows

LEMMA ScanResultsRows ==
  ASSUME NEW o \in Outcome, NEW r, NEW result \in ScanResults(o, r)
  PROVE  /\ result.rows \subseteq o.rows \cup {r}
         /\ o.profitable \subseteq o.rows => result.profitable \subseteq result.rows
  BY DEF ScanResults, Outcome

(* A step of a worker changes nobody's rows, unless it scans a route.      *)
LEMMA WorkerStepRows ==
  ASSUME TypeInv, NEW w \in Worker, WorkerStep(w), ~ Scan(w)
  PROVE  \A v \in Worker : /\ outcome'[v].rows = outcome[v].rows
                           /\ outcome'[v].profitable = outcome[v].profitable
<1>1. CASE SuppressDuplicate(w)
  <2> DEFINE o == WithDuplicate(outcome[w], hand[w])
  <2>1. outcome' = [outcome EXCEPT ![w] = o] /\ outcome \in [Worker -> Outcome]
    BY <1>1 DEF SuppressDuplicate, TypeInv, AllocTypeOK
  <2>2. o.rows = outcome[w].rows /\ o.profitable = outcome[w].profitable
    BY <2>1 DEF WithDuplicate, Outcome
  <2> HIDE DEF o
  <2>3. QED BY <2>1, <2>2
<1>2. CASE ~ SuppressDuplicate(w)
  <2>1. UNCHANGED outcome
    BY <1>2 DEF WorkerStep, RunWorker, Start, Raise, TakeOwn, TakeOverflow, Steal, Take,
       Return, Claim
  <2>2. QED BY <2>1
<1>3. QED BY <1>1, <1>2

LEMMA ScanRows ==
  ASSUME TypeInv, NEW w \in Worker, Scan(w)
  PROVE  /\ \A v \in Worker \ {w} : outcome'[v] = outcome[v]
         /\ outcome'[w].rows \subseteq outcome[w].rows \cup {hand[w]}
         /\ outcome[w].profitable \subseteq outcome[w].rows =>
              outcome'[w].profitable \subseteq outcome'[w].rows
<1>1. PICK result \in ScanResults(outcome[w], hand[w]) :
        outcome' = [outcome EXCEPT ![w] = result]
  BY DEF Scan
<1>2. outcome \in [Worker -> Outcome]
  BY DEF TypeInv, AllocTypeOK
<1>3. QED BY <1>1, <1>2, ScanResultsRows

(* A step of a worker keeps everybody out of idle. *)
LEMMA WorkerStepBusy ==
  ASSUME TypeInv, NEW w \in Worker, WorkerStep(w)
  PROVE  \A v \in Worker : pc'[v] = "idle" <=> pc[v] = "idle"
  BY DEF TypeInv, AllocTypeOK, WorkerStep, RunWorker, Start, Raise, TakeOwn,
     TakeOverflow, Steal, Take, Return, Claim, SuppressDuplicate, Scan, Goto

LEMMA ResultsInit == Init => ResultsInv
  BY DEF Init, AllocInit, ResultsInv, AllIdle, NoOutcome

LEMMA ResultsNext == TypeInv /\ ResultsInv /\ [Next]_vars => ResultsInv'
<1> SUFFICES ASSUME TypeInv, ResultsInv, [Next]_vars PROVE ResultsInv'
  OBVIOUS
<1> USE DEF ResultsInv, AllIdle
<1>1. ASSUME NEW b \in Blocks, NEW cat \in Catalogs, RunBlock(b, cat)
      PROVE  ResultsInv'
  BY <1>1 DEF RunBlock, Dispatch
<1>2. ASSUME NEW w \in Worker, ScanPhase(w) PROVE ResultsInv'
  <2>1. WorkerStep(w) /\ phase = "scan" /\ phase' = "scan"
    BY <1>2 DEF ScanPhase, ceoVars
  <2>2. \A v \in Worker : pc'[v] = "idle" <=> pc[v] = "idle"
    BY <2>1, WorkerStepBusy
  <2>3. pc[w] # "idle"
    BY <2>1 DEF WorkerStep, RunWorker, Start, Raise, TakeOwn, TakeOverflow, Steal,
       Return, Claim, SuppressDuplicate, Scan
  <2>4. \A v \in Worker \ {w} : outcome'[v] = outcome[v]
    BY <2>1 DEF WorkerStep, RunWorker, Start, Raise, TakeOwn, TakeOverflow, Steal, Take,
       Return, Claim, SuppressDuplicate, Scan, TypeInv, AllocTypeOK
  <2>5. outcome'[w].profitable \subseteq outcome'[w].rows
    BY <2>1, WorkerStepRows, ScanRows
  <2>6. QED BY <2>1, <2>2, <2>3, <2>4, <2>5
<1>3. CASE JoinWorkers
  BY <1>3 DEF JoinWorkers, Join, NoOutcome
<1>4. CASE Quiet
  <2>1. UNCHANGED <<pc, outcome>>
    BY <1>4, QuietStutters DEF allocVars
  <2>2. phase # "scan" /\ phase' # "scan"
    BY <1>4 DEF Quiet, PersistRow, PersistError, ScanWatchlist, RecordLiquidation,
       BeginVerification, CollectVerdicts, RecordVerdict, VerifyOne, LedgerRaises,
       WatchlistRaises, Abandon
  <2>3. QED BY <2>1, <2>2
<1>5. CASE FinishCycle
  BY <1>5 DEF FinishCycle, ExpireLeases
<1>6. CASE UNCHANGED vars
  BY <1>6 DEF vars, allocVars, ceoVars
<1>7. QED BY <1>1, <1>2, <1>3, <1>4, <1>5, <1>6, CycleCases

-----------------------------------------------------------------------------
(* Recorded before forked.  The book holds no candidate whose row is not   *)
(* written once persistence is over: gains are rows, rows and liquidations *)
(* are all written before the phase moves on.                              *)

ForkInv ==
  /\ RecordedBeforeFork
  /\ gains \subseteq found
  /\ phase \in {"liquidate", "verify", "evidence"} => found \subseteq recorded
  /\ phase \in {"verify", "evidence"} => watch \subseteq recorded

LEMMA ForkNext == TypeInv /\ ResultsInv /\ ForkInv /\ [Next]_vars => ForkInv'
<1> SUFFICES ASSUME TypeInv, ResultsInv, ForkInv, [Next]_vars PROVE ForkInv'
  OBVIOUS
<1> USE DEF ForkInv, RecordedBeforeFork
<1>1. ASSUME NEW b \in Blocks, NEW cat \in Catalogs, RunBlock(b, cat)
      PROVE  ForkInv'
  BY <1>1 DEF RunBlock, ForgetCycle
<1>2. ASSUME NEW w \in Worker, ScanPhase(w) PROVE ForkInv'
  BY <1>2 DEF ScanPhase, ceoVars
<1>3. CASE JoinWorkers
  <2>1. gains' \subseteq found'
    BY <1>3 DEF JoinWorkers, ResultsInv
  <2>2. phase' = "persist" /\ UNCHANGED <<recorded, verdict>>
    BY <1>3 DEF JoinWorkers
  <2>3. QED BY <2>1, <2>2
<1>4. CASE Quiet
  <2>1. CASE PersistRow
    BY <2>1 DEF PersistRow
  <2>2. CASE PersistError
    BY <2>2 DEF PersistError
  <2>3. CASE ScanWatchlist
    BY <2>3 DEF ScanWatchlist, RowsDue
  <2>4. ASSUME NEW c \in Liquidation, RecordLiquidation(c) PROVE ForkInv'
    BY <2>4 DEF RecordLiquidation
  <2>5. CASE BeginVerification
    BY <2>5 DEF BeginVerification
  <2>6. CASE CollectVerdicts
    BY <2>6 DEF CollectVerdicts
  <2>7. ASSUME NEW c \in Candidate, RecordVerdict(c) PROVE ForkInv'
    BY <2>7 DEF RecordVerdict
  <2>8. ASSUME NEW c \in Candidate, VerifyOne(c) PROVE ForkInv'
    <3>1. c \in recorded
      BY <2>8 DEF VerifyOne, Executable, Book
    <3>2. \A d \in Candidate : verdict'[d] # "none" => d = c \/ verdict[d] # "none"
      BY <2>8 DEF VerifyOne
    <3>3. QED BY <2>8, <3>1, <3>2 DEF VerifyOne
  <2>9. CASE LedgerRaises \/ WatchlistRaises
    BY <2>9 DEF LedgerRaises, WatchlistRaises, Abandon, ForgetCycle
  <2>10. QED
    BY <1>4, <2>1, <2>2, <2>3, <2>4, <2>5, <2>6, <2>7, <2>8, <2>9 DEF Quiet
<1>5. CASE FinishCycle
  BY <1>5 DEF FinishCycle
<1>6. CASE UNCHANGED vars
  BY <1>6 DEF vars, ceoVars
<1>7. QED BY <1>1, <1>2, <1>3, <1>4, <1>5, <1>6, CycleCases

(* Whatever failed before, a candidate is replayed only in a cycle that    *)
(* has already written its opportunity row.                                *)
THEOREM RecordedBeforeForkHolds == Spec => []RecordedBeforeFork
<1>1. Init => ForkInv
  BY DEF Init, ForkInv, RecordedBeforeFork
<1>2. ForkInv => RecordedBeforeFork
  BY DEF ForkInv
<1>3. QED
  BY <1>1, <1>2, SwarmAllocInv, ResultsInit, ResultsNext, ForkNext, PTL DEF Spec

-----------------------------------------------------------------------------
(* Type correctness of the cycle. *)

CycleTypeInv == TypeInv /\ CycleTypeOK

LEMMA CountRowType ==
  ASSUME rowCount \in [Key -> Nat], NEW r, CountRow(r)
  PROVE  rowCount' \in [Key -> Nat]
<1> DEFINE k == <<block, r>>
<1>1. rowCount' = [rowCount EXCEPT ![k] = rowCount[k] + 1]
  BY DEF CountRow
<1> HIDE DEF k
<1>2. CASE k \in Key
  BY <1>1, <1>2
<1>3. CASE k \notin Key
  BY <1>1, <1>3
<1>4. QED BY <1>2, <1>3

LEMMA CycleTypeInit == Init => CycleTypeInv
<1> SUFFICES ASSUME Init PROVE CycleTypeInv
  OBVIOUS
<1>1. TypeInv /\ AllocTypeOK
  BY TypeInit DEF Init, TypeInv
<1>2. QED
  BY <1>1, SwarmCycleAssumption DEF Init, CycleTypeInv, CycleTypeOK, Phase, Verdict

LEMMA CycleTypeNext == CycleTypeInv /\ [Next]_vars => CycleTypeInv'
<1> SUFFICES ASSUME CycleTypeInv, [Next]_vars PROVE CycleTypeInv'
  OBVIOUS
<1> USE DEF CycleTypeInv, CycleTypeOK, Phase
<1>a. TypeInv' /\ AllocTypeOK'
  BY NextDrives, TypeNext DEF TypeInv
<1>1. ASSUME NEW b \in Blocks, NEW cat \in Catalogs, RunBlock(b, cat)
      PROVE  CycleTypeInv'
  BY <1>a, <1>1 DEF RunBlock, ForgetCycle, Verdict
<1>2. ASSUME NEW w \in Worker, ScanPhase(w) PROVE CycleTypeInv'
  BY <1>a, <1>2 DEF ScanPhase, ceoVars
<1>3. CASE JoinWorkers
  <2>1. \A w \in Worker : /\ outcome[w].rows \subseteq Route
                          /\ outcome[w].profitable \subseteq Route
                          /\ outcome[w].errors \subseteq Route
    BY DEF AllocTypeOK, Outcome
  <2>2. found' \in SUBSET Route /\ gains' \in SUBSET Route
    BY <2>1, <1>3 DEF JoinWorkers
  <2>3. failures' \in SUBSET (Worker \X (Route \cup {NoRoute}))
    <3> DEFINE joined == {w \in Worker : pc[w] = "returned"}
               lost == {w \in Worker : pc[w] = "raised"}
               Reported(w) == {w} \X outcome[w].errors
               Records == UNION {Reported(w) : w \in joined}
               Unreported == lost \X {NoRoute}
               Errors == Worker \X (Route \cup {NoRoute})
    <3>1. failures' = Records \cup Unreported
      BY <1>3 DEF JoinWorkers
    <3>2. \A w \in joined : Reported(w) \subseteq Errors
      BY <2>1
    <3>3. Unreported \subseteq Errors
      OBVIOUS
    <3>4. Records \subseteq Errors
      <4> HIDE DEF joined, Reported, Errors
      <4> QED BY <3>2
    <3>5. failures' \subseteq Errors
      <4> HIDE DEF joined, lost, Reported, Records, Unreported, Errors
      <4> QED BY <3>1, <3>3, <3>4
    <3>6. QED BY <3>5
  <2>4. /\ phase' = "persist"
        /\ UNCHANGED <<watch, recorded, logged, verdict, evidence, rowCount, replays>>
    BY <1>3 DEF JoinWorkers
  <2>5. QED BY <1>a, <2>2, <2>3, <2>4
<1>4. CASE Quiet
  <2>1. CASE PersistRow
    <3>1. PICK r \in RowsDue : CountRow(r) /\ recorded' = recorded \cup {r}
      BY <2>1 DEF PersistRow
    <3>2. rowCount' \in [Key -> Nat]
      BY <3>1, CountRowType
    <3>3. recorded' \in SUBSET Candidate
      BY <3>1 DEF RowsDue, Candidate
    <3>4. QED BY <1>a, <2>1, <3>2, <3>3 DEF PersistRow
  <2>2. CASE PersistError
    BY <1>a, <2>2 DEF PersistError, ErrorsDue
  <2>3. CASE ScanWatchlist
    BY <1>a, <2>3 DEF ScanWatchlist
  <2>4. ASSUME NEW c \in Liquidation, RecordLiquidation(c) PROVE CycleTypeInv'
    BY <1>a, <2>4 DEF RecordLiquidation, Candidate
  <2>5. CASE BeginVerification
    BY <1>a, <2>5 DEF BeginVerification
  <2>6. CASE CollectVerdicts
    BY <1>a, <2>6 DEF CollectVerdicts
  <2>7. ASSUME NEW c \in Candidate, RecordVerdict(c) PROVE CycleTypeInv'
    BY <1>a, <2>7 DEF RecordVerdict
  <2>8. ASSUME NEW c \in Candidate, VerifyOne(c) PROVE CycleTypeInv'
    <3>1. verdict' \in [Candidate -> Verdict]
      BY <2>8 DEF VerifyOne
    <3>2. replays' \in [Blocks \X Candidate -> 0..MaxReplays]
      <4> DEFINE k == <<block, c>>
                 n == IF replays[k] < MaxReplays THEN replays[k] + 1 ELSE replays[k]
      <4>1. replays' = [replays EXCEPT ![k] = n]
        BY <2>8 DEF VerifyOne
      <4>2. CASE k \in Blocks \X Candidate
        <5>1. n \in 0..MaxReplays
          BY <4>2, SwarmCycleAssumption
        <5> HIDE DEF n
        <5>2. QED BY <4>1, <5>1
      <4>3. CASE k \notin Blocks \X Candidate
        <5> HIDE DEF n, k
        <5>1. QED BY <4>1, <4>3
      <4>4. QED BY <4>2, <4>3
    <3>3. QED BY <1>a, <2>8, <3>1, <3>2 DEF VerifyOne
  <2>9. CASE LedgerRaises \/ WatchlistRaises
    <3>1. rowCount' \in [Key -> Nat]
      BY <2>9, CountRowType DEF LedgerRaises, WatchlistRaises
    <3>2. QED
      BY <1>a, <2>9, <3>1 DEF LedgerRaises, WatchlistRaises, Abandon, ForgetCycle, Verdict
  <2>10. QED
    BY <1>4, <2>1, <2>2, <2>3, <2>4, <2>5, <2>6, <2>7, <2>8, <2>9 DEF Quiet
<1>5. CASE FinishCycle
  BY <1>a, <1>5 DEF FinishCycle
<1>6. CASE UNCHANGED vars
  BY <1>a, <1>6 DEF vars, ceoVars
<1>7. QED BY <1>1, <1>2, <1>3, <1>4, <1>5, <1>6, CycleCases

(* The state of the whole cycle is always well formed: only routes and     *)
(* liquidations are recorded, judged or counted.                           *)
THEOREM CycleTypeCorrect == Spec => []CycleTypeOK
<1>1. CycleTypeInv => CycleTypeOK
  BY DEF CycleTypeInv
<1>2. QED BY <1>1, CycleTypeInit, CycleTypeNext, PTL DEF Spec

-----------------------------------------------------------------------------
(* One row per lease.  A row is written for a route that was scanned under *)
(* a lease not yet used for a row: that holds from the claim, through the  *)
(* worker's results, to the CEO's list of rows due.                        *)

NoRowYet(r) == leases[<<block, r>>] # Nobody /\ rowCount[<<block, r>>] = 0

RowInv ==
  /\ RecordedOnce
  /\ \A k \in Key : leases[k] = Nobody => rowCount[k] = 0
  /\ \A w \in Worker : pc[w] = "scan" => NoRowYet(hand[w])
  /\ \A w \in Worker : \A r \in outcome[w].rows : NoRowYet(r)
  /\ phase = "persist" => \A r \in RowsDue : NoRowYet(r)

LEMMA RowInit == Init => RowInv
  BY DEF Init, AllocInit, RowInv, RecordedOnce, NoOutcome

(* Outside the scan phase the workers hold no results and are not scanning. *)
LEMMA RestingWorkers ==
  ASSUME ResultsInv, phase # "scan"
  PROVE  \A w \in Worker : pc[w] = "idle" /\ outcome[w].rows = {}
  BY DEF ResultsInv, AllIdle, NoOutcome

LEMMA RowNext ==
  CycleTypeInv /\ LeaseInv /\ ResultsInv /\ RowInv /\ [Next]_vars => RowInv'
<1> SUFFICES ASSUME CycleTypeInv, LeaseInv, ResultsInv, RowInv, [Next]_vars
             PROVE  RowInv'
  OBVIOUS
<1> USE DEF RowInv, RecordedOnce, NoRowYet
<1>a. /\ TypeInv /\ rowCount \in [Key -> Nat] /\ found \subseteq Route
      /\ pc \in [Worker -> PcState] /\ leases \in [Key -> Worker \cup {Nobody}]
      /\ \A w \in Worker : outcome[w].rows \subseteq Route
  BY DEF CycleTypeInv, CycleTypeOK, TypeInv, AllocTypeOK, Outcome
<1>1. ASSUME NEW b \in Blocks, NEW cat \in Catalogs, RunBlock(b, cat)
      PROVE  RowInv'
  <2>1. \A w \in Worker : outcome[w].rows = {}
    BY <1>1, RestingWorkers DEF RunBlock
  <2>2. /\ \A w \in Worker : pc'[w] = "queued"
        /\ UNCHANGED <<outcome, leases, rowCount>> /\ phase' = "scan"
    BY <1>1 DEF RunBlock, Dispatch
  <2>3. QED BY <2>1, <2>2
<1>2. ASSUME NEW w \in Worker, ScanPhase(w) PROVE RowInv'
  <2>1. WorkerStep(w) /\ UNCHANGED <<phase, rowCount, block>> /\ phase' = "scan"
    BY <1>2 DEF ScanPhase, ceoVars, WorkerStep, RunWorker, Start, Raise, TakeOwn,
       TakeOverflow, Steal, Take, Return, Claim, SuppressDuplicate, Scan, queueVars
  <2>2. CASE Claim(w)
    <3>1. /\ <<block, hand[w]>> \in Key /\ leases[<<block, hand[w]>>] = Nobody
          /\ leases' = [leases EXCEPT ![<<block, hand[w]>>] = w]
          /\ pc' = [pc EXCEPT ![w] = "scan"]
          /\ UNCHANGED <<hand, outcome>>
      BY <1>a, <2>2, KeyOfHand DEF Claim, Goto
    <3>2. w # Nobody
      BY DEF Worker, Nobody
    <3>3. \A k \in Key : leases[k] # Nobody => leases'[k] # Nobody
      BY <3>1, <3>2, <1>a
    <3>4. leases'[<<block, hand[w]>>] # Nobody /\ rowCount[<<block, hand[w]>>] = 0
      BY <3>1, <3>2, <1>a
    <3>5. \A k : k \notin Key => leases'[k] = leases[k]
      BY <3>1, <1>a
    <3>6. \A k : leases[k] # Nobody => leases'[k] # Nobody
      BY <3>3, <3>5
    <3>7. \A k \in Key : leases'[k] = Nobody => leases[k] = Nobody
      BY <3>6
    <3>8. QED BY <2>1, <3>1, <3>4, <3>6, <3>7, <1>a
  <2>3. CASE Scan(w)
    <3>1. pc' = [pc EXCEPT ![w] = "next"] /\ pc[w] = "scan" /\ leases' = leases
      BY <2>3 DEF Scan, Goto
    <3>2. \A v \in Worker \ {w} : hand'[v] = hand[v]
      BY <2>3, <1>a DEF Scan, TypeInv, AllocTypeOK
    <3>3. /\ \A v \in Worker \ {w} : outcome'[v] = outcome[v]
          /\ outcome'[w].rows \subseteq outcome[w].rows \cup {hand[w]}
      BY <2>3, <1>a, ScanRows
    <3>4. \A v \in Worker : pc'[v] = "scan" => v # w /\ pc[v] = "scan"
      BY <3>1, <1>a
    <3>5. QED BY <2>1, <3>1, <3>2, <3>3, <3>4
  <2>4. CASE ~ Scan(w) /\ ~ Claim(w)
    <3>1. \A v \in Worker : outcome'[v].rows = outcome[v].rows
      BY <2>1, <2>4, <1>a, WorkerStepRows
    <3>2. UNCHANGED leases
      BY <2>1, <2>4 DEF WorkerStep, RunWorker, Start, Raise, TakeOwn, TakeOverflow,
         Steal, Take, Return, SuppressDuplicate
    <3>3. \A v \in Worker : pc'[v] = "scan" => pc[v] = "scan" /\ hand'[v] = hand[v]
      BY <2>1, <2>4, <1>a DEF WorkerStep, RunWorker, Start, Raise, TakeOwn, TakeOverflow,
         Steal, Take, Return, SuppressDuplicate, Goto, TypeInv, AllocTypeOK
    <3>4. QED BY <2>1, <3>1, <3>2, <3>3
  <2>5. QED BY <2>2, <2>3, <2>4
<1>3. CASE JoinWorkers
  <2>1. /\ \A w \in Worker : pc'[w] = "idle" /\ outcome'[w].rows = {}
        /\ UNCHANGED <<block, leases, rowCount>>
    BY <1>3 DEF JoinWorkers, Join, NoOutcome
  <2>2. \A r \in found' : \E w \in Worker : r \in outcome[w].rows
    BY <1>3 DEF JoinWorkers
  <2>3. RowsDue' \subseteq found'
    BY DEF RowsDue
  <2>4. QED BY <2>1, <2>2, <2>3
<1>4. CASE Quiet
  <2>0. /\ phase # "scan" /\ phase' # "scan"
        /\ UNCHANGED <<block, leases, pc, hand, outcome>>
    BY <1>4, QuietStutters DEF allocVars, Quiet, PersistRow, PersistError,
       ScanWatchlist, RecordLiquidation, BeginVerification, CollectVerdicts,
       RecordVerdict, VerifyOne, LedgerRaises, WatchlistRaises, Abandon
  <2>a. \A w \in Worker : pc[w] = "idle" /\ outcome[w].rows = {}
    BY <2>0, RestingWorkers
  <2>1. ASSUME NEW r \in RowsDue, phase = "persist", CountRow(r)
        PROVE  /\ RecordedOnce'
               /\ \A k \in Key : leases[k] = Nobody => rowCount'[k] = 0
               /\ \A s \in RowsDue \ {r} : rowCount'[<<block, s>>] = 0
    BY <2>1, <1>a DEF CountRow, RowsDue
  <2>2. CASE PersistRow
    <3>1. PICK r \in RowsDue :
            phase = "persist" /\ CountRow(r) /\ recorded' = recorded \cup {r} /\ found' = found
      BY <2>2 DEF PersistRow
    <3>2. RowsDue' \subseteq RowsDue \ {r}
      BY <3>1 DEF RowsDue
    <3>3. QED BY <2>0, <2>a, <2>1, <3>1, <3>2
  <2>3. CASE LedgerRaises
    <3>1. phase' = "idle"
      BY <2>3 DEF LedgerRaises, Abandon
    <3>2. CASE UNCHANGED rowCount
      BY <2>0, <2>a, <3>1, <3>2
    <3>3. CASE \E r \in RowsDue : phase = "persist" /\ CountRow(r)
      BY <2>0, <2>a, <2>1, <3>1, <3>3
    <3>4. QED BY <2>3, <3>2, <3>3 DEF LedgerRaises
  <2>4. CASE ~ PersistRow /\ ~ LedgerRaises
    <3>1. /\ UNCHANGED rowCount
          /\ phase' = "persist" => phase = "persist" /\ UNCHANGED <<found, recorded>>
      BY <1>4, <2>4 DEF Quiet, PersistError, ScanWatchlist, RecordLiquidation,
         BeginVerification, CollectVerdicts, RecordVerdict, VerifyOne, WatchlistRaises,
         Abandon
    <3>2. phase' = "persist" => RowsDue' = RowsDue
      BY <3>1 DEF RowsDue
    <3>3. QED BY <2>0, <2>a, <3>1, <3>2
  <2>5. QED BY <2>2, <2>3, <2>4
<1>5. CASE FinishCycle
  <2>1. /\ leases' = [k \in Key |-> IF k[1] < block + 1 THEN Nobody ELSE leases[k]]
        /\ rowCount' = [k \in Key |-> IF k[1] < block + 1 THEN 0 ELSE rowCount[k]]
        /\ phase # "scan" /\ phase' = "idle" /\ UNCHANGED <<pc, outcome>>
    BY <1>5 DEF FinishCycle, ExpireLeases
  <2>2. \A w \in Worker : pc[w] = "idle" /\ outcome[w].rows = {}
    BY <2>1, RestingWorkers
  <2>3. QED BY <2>1, <2>2, <1>a
<1>6. CASE UNCHANGED vars
  BY <1>6 DEF vars, allocVars, ceoVars, RowsDue
<1>7. QED BY <1>1, <1>2, <1>3, <1>4, <1>5, <1>6, CycleCases

(* However often cycles fail half way and a block is tried again, and even *)
(* when a failed commit lands later, the ledger gets at most one row per   *)
(* route and block until the block's leases expire.                        *)
THEOREM RecordedOnceHolds == Spec => []RecordedOnce
<1>1. RowInv => RecordedOnce
  BY DEF RowInv
<1>2. QED
  BY <1>1, SwarmAllocInv, CycleTypeInit, CycleTypeNext, ResultsInit, ResultsNext,
     RowInit, RowNext, PTL DEF Spec, CycleTypeInv

-----------------------------------------------------------------------------
(* The report adds up.  What JoinWorkers counts is what the later phases    *)
(* write, judge and record, so each phase carries the part of the sum that *)
(* is settled by then.                                                     *)

Reports == [complete : BOOLEAN, listed : Nat, scanned : Nat, duplicates : Int,
            detected : Nat, failures : Nat, positive : Nat, passed : Nat, failed : Nat]

Counted ==
  /\ report.detected = Cardinality(found)
  /\ report.failures = Cardinality(failures)
  /\ (WorkStealing /\ \A e \in failures : e[2] # NoRoute) =>
       report.scanned + report.duplicates = report.listed

Written == recorded \cap Route = found /\ logged = failures

Tallied ==
  /\ \A c \in Candidate : verdict[c] # "none" <=> c \in Executable
  /\ evidence \subseteq Judged("pass") \cup Judged("fail")
  /\ report.passed = Cardinality(Judged("pass"))
  /\ report.failed = Cardinality(Judged("fail") \cup Judged("error"))

(* Joined: the counts of the join.  Persisted: what is written so far.      *)
Joined ==
  phase \in {"persist", "liquidate", "verify", "evidence"} \/ report.complete => Counted

Persisted ==
  /\ phase = "scan" => recorded = {} /\ logged = {}
  /\ phase = "persist" => recorded \subseteq found /\ logged \subseteq failures
  /\ phase \in {"liquidate", "verify", "evidence"} \/ report.complete => Written

Verified ==
  /\ phase \in {"scan", "persist", "liquidate"} => \A c \in Candidate : verdict[c] = "none"
  /\ phase \in {"scan", "persist", "liquidate", "verify"} => evidence = {}
  /\ phase = "verify" => \A c \in Candidate : verdict[c] # "none" => c \in Executable
  /\ phase = "evidence" \/ report.complete => Tallied
  /\ report.complete => evidence = Judged("pass") \cup Judged("fail")

ReportInv ==
  /\ report \in Reports /\ (phase # "idle" => ~ report.complete)
  /\ Joined /\ Persisted /\ Verified

LEMMA SwarmAllocInvs == Spec => [](AllocInv /\ CycleTypeInv /\ ResultsInv)
<1>1. Init => AllocInv
  BY AllocInvInit DEF Init
<1>2. AllocInv /\ [Next]_vars => AllocInv'
  BY NextDrives, AllocInvNext
<1>3. CycleTypeInv => TypeInv
  BY DEF CycleTypeInv
<1>4. QED
  BY <1>1, <1>2, <1>3, CycleTypeInit, CycleTypeNext, ResultsInit, ResultsNext, PTL DEF Spec

LEMMA FiniteCandidates ==
  ASSUME NEW S \in SUBSET Candidate
  PROVE  IsFiniteSet(S) /\ Cardinality(S) \in Nat
<1>1. NumRoutes \in Nat /\ NumLiquidations \in Nat
  BY WorkAllocatorAssumption, SwarmCycleAssumption
<1>2. S \in SUBSET (1..(NumRoutes + NumLiquidations))
  BY <1>1 DEF Candidate, Route, Liquidation
<1>3. NumRoutes + NumLiquidations \in Nat
  BY <1>1
<1>4. QED BY <1>2, <1>3, FinitePart

LEMMA FiniteErrors ==
  ASSUME NEW S \in SUBSET (Worker \X (Route \cup {NoRoute}))
  PROVE  IsFiniteSet(S) /\ Cardinality(S) \in Nat
<1>1. IsFiniteSet(Worker) /\ IsFiniteSet(Route)
  BY WorkAllocatorAssumption, FS_Interval DEF Worker, Route
<1>2. IsFiniteSet(Route \cup {NoRoute})
  BY <1>1, FS_AddElement
<1>3. IsFiniteSet(Worker \X (Route \cup {NoRoute}))
  BY <1>1, <1>2, FS_Product
<1>4. IsFiniteSet(S)
  BY <1>3, FS_Subset
<1>5. QED BY <1>4, FS_CardinalityType

LEMMA NoReportIs == NoReport \in Reports /\ ~ NoReport.complete
  BY DEF NoReport, Reports

LEMMA ReportInit == Init => ReportInv
<1> SUFFICES ASSUME Init PROVE ReportInv
  OBVIOUS
<1>1. phase = "idle" /\ report = NoReport
  BY DEF Init
<1>2. QED BY <1>1, NoReportIs DEF ReportInv, Joined, Persisted, Verified

(* A cycle that is forgotten owes nothing.                                  *)
LEMMA Forgotten ==
  ASSUME ForgetCycle, phase' \in {"idle", "scan"}
  PROVE  ReportInv'
<1>1. /\ report' = NoReport /\ recorded' = {} /\ logged' = {} /\ evidence' = {}
      /\ \A c \in Candidate : verdict'[c] = "none"
  BY DEF ForgetCycle
<1>2. QED BY <1>1, NoReportIs DEF ReportInv, Joined, Persisted, Verified

Filled(listed, scanned, duplicates, detected, errors) ==
  [NoReport EXCEPT !.listed = listed, !.scanned = scanned, !.duplicates = duplicates,
                   !.detected = detected, !.failures = errors]

LEMMA FilledReport ==
  ASSUME NEW listed \in Nat, NEW scanned \in Nat, NEW duplicates \in Int,
         NEW detected \in Nat, NEW errors \in Nat
  PROVE  LET new == Filled(listed, scanned, duplicates, detected, errors)
         IN /\ new \in Reports /\ ~ new.complete
            /\ new.listed = listed /\ new.scanned = scanned
            /\ new.duplicates = duplicates /\ new.detected = detected
            /\ new.failures = errors
<1> DEFINE r1 == [NoReport EXCEPT !.listed = listed]
           r2 == [r1 EXCEPT !.scanned = scanned]
           r3 == [r2 EXCEPT !.duplicates = duplicates]
           r4 == [r3 EXCEPT !.detected = detected]
           r5 == [r4 EXCEPT !.failures = errors]
<1>1. r1 \in Reports /\ ~ r1.complete /\ r1.listed = listed
  BY NoReportIs DEF Reports
<1> HIDE DEF r1
<1>2. r2 \in Reports /\ ~ r2.complete /\ r2.listed = listed /\ r2.scanned = scanned
  BY <1>1 DEF Reports
<1> HIDE DEF r2
<1>3. /\ r3 \in Reports /\ ~ r3.complete /\ r3.listed = listed /\ r3.scanned = scanned
      /\ r3.duplicates = duplicates
  BY <1>2 DEF Reports
<1> HIDE DEF r3
<1>4. /\ r4 \in Reports /\ ~ r4.complete /\ r4.listed = listed /\ r4.scanned = scanned
      /\ r4.duplicates = duplicates /\ r4.detected = detected
  BY <1>3 DEF Reports
<1> HIDE DEF r4
<1>5. /\ r5 \in Reports /\ ~ r5.complete /\ r5.listed = listed /\ r5.scanned = scanned
      /\ r5.duplicates = duplicates /\ r5.detected = detected /\ r5.failures = errors
  BY <1>4 DEF Reports
<1>6. r5 = Filled(listed, scanned, duplicates, detected, errors)
  BY Zenon DEF r1, r2, r3, r4, r5, Filled
<1>7. QED BY <1>5, <1>6

(* What the join counts.                                                    *)
LEMMA JoinCounts ==
  ASSUME AllocInv, CycleTypeInv, CycleTypeInv', JoinWorkers
  PROVE  report' \in Reports /\ ~ report'.complete /\ Counted'
<1> DEFINE joined == {w \in Worker : pc[w] = "returned"}
           lost == {w \in Worker : pc[w] = "raised"}
           Scanned == UNION {outcome[w].scanned : w \in joined}
           Duplicates == UNION {outcome[w].duplicates : w \in joined}
           size == Len(catalog)
           distinct == Cardinality(Listed(catalog))
<1>1. /\ catalog \in Seq(Route) /\ \A w \in Worker : outcome[w] \in Outcome
  BY DEF AllocInv, TypeInv, AllocTypeOK
<1>2. size \in Nat /\ distinct \in Nat
  <2>1. Listed(catalog) \in SUBSET Route
    BY <1>1, ListedType
  <2>2. QED BY <1>1, <2>1, ListedFinite
<1>3. Scanned \in SUBSET Route /\ Duplicates \in SUBSET Route
  BY <1>1 DEF Outcome
<1>4. /\ found' \in SUBSET Route
      /\ failures' \in SUBSET (Worker \X (Route \cup {NoRoute}))
  BY DEF CycleTypeInv, CycleTypeOK
<1> DEFINE scanned == Cardinality(Scanned)
           suppressed == Cardinality(Duplicates)
           duplicates == (size - distinct) + suppressed
           detected == Cardinality(found')
           errors == Cardinality(failures')
           new == Filled(size, scanned, duplicates, detected, errors)
<1>5. report' = new
  BY DEF JoinWorkers, Filled
<1>6. /\ scanned \in Nat /\ suppressed \in Nat /\ duplicates \in Int
      /\ detected \in Nat /\ errors \in Nat
  <2>1. scanned \in Nat /\ suppressed \in Nat /\ detected \in Nat /\ errors \in Nat
    <3> HIDE DEF Scanned, Duplicates
    <3>1. QED BY <1>3, <1>4, ListedFinite, FiniteErrors
  <2> HIDE DEF suppressed
  <2>2. QED BY <1>2, <2>1
<1>7. ASSUME WorkStealing, \A e \in failures' : e[2] # NoRoute
      PROVE  scanned + suppressed = distinct
  <2>1. lost \X {NoRoute} \subseteq failures'
    BY DEF JoinWorkers
  <2>2. lost = {}
    <3> SUFFICES ASSUME NEW w \in lost PROVE FALSE
      OBVIOUS
    <3>1. <<w, NoRoute>> \in failures'
      BY <2>1
    <3>2. QED BY <1>7, <3>1
  <2>3. \A w \in Worker : pc[w] \in Over
    BY DEF JoinWorkers, Join, AllOver
  <2>4. \A w \in Worker : pc[w] = "returned"
    BY <2>2, <2>3 DEF Over
  <2>5. joined = Worker
    BY <2>4
  <2>6. QED BY <1>7, <2>4, <2>5, AllAccounted
<1>8. duplicates = (size - distinct) + suppressed
  OBVIOUS
<1> HIDE DEF scanned, suppressed, duplicates, detected, errors, size, distinct
<1>9. /\ new \in Reports /\ ~ new.complete /\ new.listed = size /\ new.scanned = scanned
      /\ new.duplicates = duplicates /\ new.detected = detected /\ new.failures = errors
  BY <1>2, <1>6, FilledReport
<1> HIDE DEF new
<1>10. report'.scanned + report'.duplicates = report'.listed \/ scanned + suppressed # distinct
  BY <1>2, <1>5, <1>6, <1>8, <1>9
<1>11. report'.detected = Cardinality(found') /\ report'.failures = Cardinality(failures')
  BY <1>5, <1>9 DEF detected, errors
<1>12. QED BY <1>5, <1>7, <1>9, <1>10, <1>11 DEF Counted

(* Steps that leave the report alone, and those that complete it.           *)
LEMMA ReportQuiet ==
  ASSUME CycleTypeInv, CycleTypeInv', ReportInv, Quiet
  PROVE  ReportInv'
<1> USE DEF ReportInv, Joined, Persisted, Verified
<1>a. /\ found \in SUBSET Route /\ gains \in SUBSET Route /\ watch \in SUBSET Liquidation
      /\ verdict \in [Candidate -> Verdict] /\ phase \in Phase
  BY DEF CycleTypeInv, CycleTypeOK
<1>b. Executable \in SUBSET Candidate
  BY <1>a DEF Executable, Book, Candidate
<1>c. Route \cap Liquidation = {}
  BY WorkAllocatorAssumption, SwarmCycleAssumption DEF Route, Liquidation
<1>1. CASE PersistRow
  <2>1. PICK r \in RowsDue : recorded' = recorded \cup {r}
    BY <1>1 DEF PersistRow
  <2>2. QED BY <1>1, <2>1 DEF PersistRow, RowsDue, Counted
<1>2. CASE PersistError
  <2>1. PICK e \in ErrorsDue : logged' = logged \cup {e}
    BY <1>2 DEF PersistError
  <2>2. QED BY <1>2, <2>1 DEF PersistError, ErrorsDue, Counted
<1>3. CASE ScanWatchlist
  <2>1. Written'
    BY <1>3, <1>a DEF ScanWatchlist, RowsDue, ErrorsDue, Written
  <2>2. QED BY <1>3, <2>1 DEF ScanWatchlist, Counted
<1>4. ASSUME NEW c \in Liquidation, RecordLiquidation(c) PROVE ReportInv'
  BY <1>4, <1>c DEF RecordLiquidation, Counted, Written
<1>5. CASE BeginVerification
  <2>1. Cardinality(Book) \in Nat
    BY <1>a, FiniteCandidates DEF Book, Candidate
  <2>2. /\ report' \in Reports /\ report'.complete = report.complete
        /\ report'.detected = report.detected /\ report'.failures = report.failures
        /\ report'.scanned = report.scanned /\ report'.duplicates = report.duplicates
        /\ report'.listed = report.listed
    BY <1>5, <2>1 DEF BeginVerification, Reports
  <2>3. QED BY <1>5, <2>2 DEF BeginVerification, Counted, Written
<1>6. CASE CollectVerdicts
  <2> DEFINE pass == Cardinality(Judged("pass"))
             fail == Cardinality(Judged("fail") \cup Judged("error"))
  <2>1. pass \in Nat /\ fail \in Nat
    BY FiniteCandidates DEF Judged
  <2>2. report' = [report EXCEPT !.passed = pass, !.failed = fail]
    BY <1>6 DEF CollectVerdicts
  <2> HIDE DEF pass, fail
  <2>3. /\ report' \in Reports /\ report'.complete = report.complete
        /\ report'.detected = report.detected /\ report'.failures = report.failures
        /\ report'.scanned = report.scanned /\ report'.duplicates = report.duplicates
        /\ report'.listed = report.listed
        /\ report'.passed = pass /\ report'.failed = fail
    BY <2>1, <2>2 DEF Reports
  <2>4. \A c \in Candidate : verdict[c] # "none" <=> c \in Executable
    BY <1>6, <1>b DEF CollectVerdicts, Judged
  <2>5. /\ UNCHANGED <<verdict, evidence, gains, watch, found, failures, recorded, logged>>
        /\ phase = "verify" /\ phase' = "evidence"
    BY <1>6 DEF CollectVerdicts
  <2>6. Executable' = Executable /\ \A v : Judged(v)' = Judged(v)
    BY <2>5 DEF Executable, Book, Judged
  <2>7. Tallied'
    BY <2>3, <2>4, <2>5, <2>6 DEF Tallied, pass, fail
  <2>8. QED BY <2>3, <2>5, <2>7 DEF Counted, Written
<1>7. ASSUME NEW c \in Candidate, RecordVerdict(c) PROVE ReportInv'
  <2>1. /\ UNCHANGED <<phase, report, verdict, gains, watch, found, failures, recorded, logged>>
        /\ evidence' = evidence \cup {c} /\ c \in EvidenceDue /\ phase = "evidence"
    BY <1>7 DEF RecordVerdict
  <2>2. Executable' = Executable /\ \A v : Judged(v)' = Judged(v)
    BY <2>1 DEF Executable, Book, Judged
  <2>3. Tallied'
    BY <2>1, <2>2 DEF Tallied, EvidenceDue
  <2>4. QED BY <2>1, <2>3 DEF Counted, Written
<1>8. ASSUME NEW c \in Candidate, VerifyOne(c) PROVE ReportInv'
  <2>1. /\ UNCHANGED <<phase, report, evidence, gains, watch, found, failures, recorded, logged>>
        /\ c \in Executable /\ phase = "verify"
        /\ \A d \in Candidate \ {c} : verdict'[d] = verdict[d]
    BY <1>8, <1>a DEF VerifyOne
  <2>2. Executable' = Executable
    BY <2>1 DEF Executable, Book
  <2>3. QED BY <2>1, <2>2 DEF Counted, Written
<1>9. CASE LedgerRaises \/ WatchlistRaises
  <2>1. ForgetCycle /\ phase' = "idle"
    BY <1>9 DEF LedgerRaises, WatchlistRaises, Abandon
  <2>2. QED BY <2>1, Forgotten
<1>10. QED BY <1>1, <1>2, <1>3, <1>4, <1>5, <1>6, <1>7, <1>8, <1>9 DEF Quiet

LEMMA ReportNext ==
  AllocInv /\ CycleTypeInv /\ CycleTypeInv' /\ ReportInv /\ [Next]_vars => ReportInv'
<1> SUFFICES ASSUME AllocInv, CycleTypeInv, CycleTypeInv', ReportInv, [Next]_vars
             PROVE  ReportInv'
  OBVIOUS
<1> USE DEF ReportInv, Joined, Persisted, Verified
<1>1. ASSUME NEW b \in Blocks, NEW cat \in Catalogs, RunBlock(b, cat)
      PROVE  ReportInv'
  BY <1>1, Forgotten DEF RunBlock
<1>2. CASE UNCHANGED ceoVars
  <2>1. /\ UNCHANGED <<phase, found, gains, failures, watch, recorded, logged>>
        /\ UNCHANGED <<verdict, evidence, report>>
    BY <1>2 DEF ceoVars
  <2>2. Executable' = Executable /\ \A v : Judged(v)' = Judged(v)
    BY <2>1 DEF Executable, Book, Judged
  <2>3. Tallied' <=> Tallied
    BY <2>1, <2>2 DEF Tallied
  <2>4. QED BY <2>1, <2>2, <2>3 DEF Counted, Written
<1>3. CASE JoinWorkers
  <2>1. report' \in Reports /\ ~ report'.complete /\ Counted'
    BY <1>3, JoinCounts
  <2>2. /\ phase = "scan" /\ phase' = "persist"
        /\ UNCHANGED <<recorded, logged, verdict, evidence>>
    BY <1>3 DEF JoinWorkers
  <2>3. QED BY <2>1, <2>2
<1>4. CASE Quiet
  BY <1>4, ReportQuiet
<1>5. CASE FinishCycle
  <2>1. /\ phase = "evidence" /\ phase' = "idle" /\ EvidenceDue = {}
        /\ report' = [report EXCEPT !.complete = TRUE]
        /\ UNCHANGED <<found, gains, failures, watch, recorded, logged, verdict, evidence>>
    BY <1>5 DEF FinishCycle
  <2>2. /\ report' \in Reports
        /\ report'.detected = report.detected /\ report'.failures = report.failures
        /\ report'.scanned = report.scanned /\ report'.duplicates = report.duplicates
        /\ report'.listed = report.listed
        /\ report'.passed = report.passed /\ report'.failed = report.failed
    BY <2>1 DEF Reports
  <2>3. Executable' = Executable /\ \A v : Judged(v)' = Judged(v)
    BY <2>1 DEF Executable, Book, Judged
  <2>4. Tallied'
    BY <2>1, <2>2, <2>3 DEF Tallied
  <2>5. evidence = Judged("pass") \cup Judged("fail")
    BY <2>1 DEF Tallied, EvidenceDue
  <2>6. QED BY <2>1, <2>2, <2>3, <2>4, <2>5 DEF Counted, Written
<1>6. ASSUME NEW w \in Worker, ScanPhase(w) PROVE UNCHANGED ceoVars
  BY <1>6 DEF ScanPhase
<1>7. QED BY <1>1, <1>2, <1>3, <1>4, <1>5, <1>6, CycleCases DEF vars

LEMMA ReportTotals == CycleTypeInv /\ ReportInv => ReportAddsUp
<1> SUFFICES ASSUME CycleTypeInv, ReportInv, report.complete PROVE ReportAddsUp
  BY DEF ReportAddsUp
<1> DEFINE Pass == Judged("pass")
           Fail == Judged("fail")
           Error == Judged("error")
<1>1. Counted /\ Written /\ Tallied /\ evidence = Pass \cup Fail
  BY DEF ReportInv, Joined, Persisted, Verified
<1>2. verdict \in [Candidate -> Verdict] /\ Executable \in SUBSET Candidate
  BY DEF CycleTypeInv, CycleTypeOK, Executable, Book, Candidate
<1>3. /\ Pass \in SUBSET Candidate /\ Fail \in SUBSET Candidate /\ Error \in SUBSET Candidate
      /\ Pass \cap (Fail \cup Error) = {} /\ Pass \cap Fail = {}
  BY DEF Judged
<1>4. Pass \cup (Fail \cup Error) = Executable
  BY <1>1, <1>2 DEF Tallied, Judged, Verdict
<1>5. report.passed = Cardinality(Pass) /\ report.failed = Cardinality(Fail \cup Error)
  BY <1>1 DEF Tallied
<1> HIDE DEF Pass, Fail, Error
<1>6. /\ IsFiniteSet(Pass) /\ IsFiniteSet(Fail) /\ IsFiniteSet(Fail \cup Error)
      /\ IsFiniteSet(Executable)
      /\ Cardinality(Pass) \in Nat /\ Cardinality(Fail \cup Error) \in Nat
  BY <1>2, <1>3, FiniteCandidates
<1>7. Cardinality(Executable) = Cardinality(Pass) + Cardinality(Fail \cup Error)
  <2> DEFINE Failed == Fail \cup Error
  <2>1. Pass \cap Failed = {} /\ Pass \cup Failed = Executable
    BY <1>3, <1>4 DEF Pass, Fail, Error
  <2>2. IsFiniteSet(Pass) /\ IsFiniteSet(Failed)
    BY <1>6
  <2>3. Cardinality(Pass) \in Nat /\ Cardinality(Failed) \in Nat
    BY <1>6
  <2> HIDE DEF Failed
  <2>4. Cardinality(Pass \cup Failed) =
          Cardinality(Pass) + Cardinality(Failed) - Cardinality(Pass \cap Failed)
    BY <2>2, FS_Union
  <2>5. Cardinality(Pass \cap Failed) = 0
    BY <2>1, FS_EmptySet
  <2>6. Cardinality(Pass \cup Failed) = Cardinality(Executable)
    BY <2>1, Zenon
  <2>7. Cardinality(Executable) = Cardinality(Pass) + Cardinality(Failed)
    BY <2>3, <2>4, <2>5, <2>6
  <2>8. QED BY <2>7 DEF Failed
<1>8. evidence \in SUBSET Executable /\ Pass \in SUBSET evidence
  BY <1>1, <1>4
<1>9. /\ IsFiniteSet(evidence) /\ Cardinality(evidence) \in Nat
      /\ Cardinality(evidence) <= Cardinality(Executable)
      /\ Cardinality(Pass) <= Cardinality(evidence)
  BY <1>6, <1>8, FS_Subset, FS_CardinalityType
<1>10. QED BY <1>1, <1>5, <1>6, <1>7, <1>9 DEF ReportAddsUp, Counted, Written

(* run_block: the figures it returns are those of what it wrote, whatever  *)
(* workers raised and whatever replays failed, and while no worker is lost *)
(* they account for every entry of the catalog.                            *)
THEOREM ReportAddsUpHolds == Spec => []ReportAddsUp
<1>1. AllocInv /\ CycleTypeInv /\ CycleTypeInv' /\ ReportInv /\ [Next]_vars => ReportInv'
  BY ReportNext
<1>2. QED BY <1>1, SwarmAllocInvs, ReportInit, ReportTotals, PTL DEF Spec

(* The catalog's routes stay accounted for across failed and repeated       *)
(* cycles: what was proved of the allocator holds of the swarm.            *)
THEOREM SwarmDropsNoRoute == Spec => []NoRouteDropped
  BY DrivesAllocator, NoRouteDroppedHolds, PTL
=============================================================================
