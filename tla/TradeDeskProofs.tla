--------------------------- MODULE TradeDeskProofs ---------------------------
(***************************************************************************)
(* Theorems about TradeDesk, for any gas cap, any number of rows and       *)
(* blocks, and whichever of the processes an exception ends.  The limits   *)
(* on the wallet follow from what a step may do to the wallet alone; the   *)
(* places the processes keep are followed through their own steps.         *)
(***************************************************************************)
EXTENDS TradeDesk, TLAPS, FiniteSetTheorems

(* What the desk does to the wallet is what the wallet allows.              *)
LEMMA DeskStep == [Next]_vars => [WalletNext]_walletVars
<1> SUFFICES ASSUME [Next]_vars PROVE UNCHANGED walletVars \/ WalletNext
  OBVIOUS
<1>1. {"trader", "sniper", "watcher"} \subseteq Procs
  BY DeskAssumption
<1>2. CASE UNCHANGED vars
  BY <1>2 DEF vars
<1>3. CASE NewBlock \/ RecordPass
  BY <1>3 DEF NewBlock, RecordPass
<1>4. CASE TraderStep
  <2>1. UNCHANGED walletVars \/ WalletMove("trader")
    BY <1>4 DEF TraderStep, StartTrader, QueryLedger, TakeRow, FireRow, WalletMove
  <2>2. QED BY <1>1, <2>1 DEF WalletNext
<1>5. CASE SniperStep
  <2>1. UNCHANGED walletVars \/ WalletMove("sniper")
    BY <1>5 DEF SniperStep, StartSniper, FetchPools, HandlePool, AdvanceCursor, SaveState,
                LoopError, SniperIdle, WalletMove
  <2>2. QED BY <1>1, <2>1 DEF WalletNext
<1>6. CASE WatcherStep
  <2>1. WalletMove("watcher")
    BY <1>6 DEF WatcherStep, StartWatcher, SeeSwap, WalletMove
  <2>2. QED BY <1>1, <2>1 DEF WalletNext
<1>7. CASE Operator
  BY <1>7 DEF Operator, WalletNext
<1>8. CASE Crash
  BY <1>8 DEF Crash, WalletMove, WalletNext
<1>9. QED BY <1>2, <1>3, <1>4, <1>5, <1>6, <1>7, <1>8 DEF Next

LEMMA DeskDrivesWallet == Spec => WalletSpec
<1>1. Init => WalletInit
  BY DEF Init
<1>2. QED BY <1>1, DeskStep, PTL DEF Spec, WalletSpec

-----------------------------------------------------------------------------
LEMMA WalletTypeNext == WalletTypeOK /\ [WalletNext]_walletVars => WalletTypeOK'
<1> SUFFICES ASSUME WalletTypeOK, [WalletNext]_walletVars PROVE WalletTypeOK'
  OBVIOUS
<1> USE DEF WalletTypeOK
<1>1. CASE UNCHANGED walletVars
  BY <1>1 DEF walletVars, logVars
<1>2. CASE SwitchKill
  BY <1>2 DEF SwitchKill, logVars
<1>3. ASSUME NEW p \in Procs, StartProcess(p) PROVE WalletTypeOK'
  BY <1>3 DEF StartProcess, Goto, Stages, logVars
<1>4. ASSUME NEW p \in Procs, CheckGate(p) PROVE WalletTypeOK'
  BY <1>4 DEF CheckGate, ReadLog, Goto, Stages
<1>5. ASSUME NEW p \in Procs, Broadcast(p) PROVE WalletTypeOK'
  <2>1. stage' \in [Procs -> Stages]
    BY <1>5 DEF Broadcast, Goto, AfterError, Stages
  <2>2. burnt' \in Nat /\ slips' \in Nat /\ gone' \in 0..burnt'
    BY <1>5 DEF Broadcast
  <2>3. late' \subseteq Procs /\ deceived' \subseteq Procs
    BY <1>5 DEF Broadcast, Through
  <2>4. QED BY <1>5, <2>1, <2>2, <2>3 DEF Broadcast
<1>6. ASSUME NEW p \in Procs, FireRaises(p) \/ Die(p) PROVE WalletTypeOK'
  <2>1. stage' \in [Procs -> Stages]
    BY <1>6 DEF FireRaises, Die, Goto, AfterError, Stages
  <2>2. /\ UNCHANGED <<kill, gasLog, burnt, late>>
        /\ Leave(p)
    BY <1>6 DEF FireRaises, Die
  <2>3. gone' \in 0..burnt' /\ slips' \in Nat
    BY <2>2 DEF Leave, Slips, LosesLog
  <2>4. seen' \in [Procs -> Nat] /\ deceived' \subseteq Procs
    BY <2>2 DEF Leave, Forget, Through
  <2>5. QED BY <2>1, <2>2, <2>3, <2>4
<1>7. ASSUME NEW p \in Procs, LoadGasLog(p) PROVE WalletTypeOK'
  <2>1. gone' \in 0..burnt' /\ slips' \in Nat /\ burnt' = burnt
    BY <1>7 DEF LoadGasLog, Slips, LosesLog
  <2>2. QED BY <1>7, <2>1 DEF LoadGasLog, Goto, Stages
<1>8. ASSUME NEW p \in Procs, TruncateGasLog(p) PROVE WalletTypeOK'
  BY <1>8 DEF TruncateGasLog, Goto, Stages
<1>9. ASSUME NEW p \in Procs, RewriteGasLog(p) \/ GarbleGasLog(p) PROVE WalletTypeOK'
  <2>1. Rewritten(p) /\ gasLog' \in Nat
    BY <1>9 DEF RewriteGasLog, GarbleGasLog, Rewritten
  <2>2. Cardinality(Rewriting \ {p}) \in Nat
    BY WalletAssumption, FS_Subset, FS_CardinalityType DEF Rewriting
  <2>3. gone' \in 0..burnt' /\ slips' \in Nat /\ burnt' = burnt
    BY <1>9, <2>1, <2>2 DEF RewriteGasLog, GarbleGasLog, Rewritten, Slips, LosesLog
  <2>4. QED BY <2>1, <2>3 DEF Rewritten, Goto, Forget, Stages
<1>10. ASSUME NEW p \in Procs, GiveUp(p) \/ CoolDown(p) PROVE WalletTypeOK'
  BY <1>10 DEF GiveUp, CoolDown, Through, Goto, Stages, logVars
<1>11. QED
  BY <1>1, <1>2, <1>3, <1>4, <1>5, <1>6, <1>7, <1>8, <1>9, <1>10
  DEF WalletNext, WalletMove, FireStep

LEMMA WalletTypeInit == WalletInit => WalletTypeOK
<1>1. WalletInit => stage \in [Procs -> Stages] /\ seen \in [Procs -> Nat]
  BY DEF WalletInit, Stages
<1>2. WalletInit => deceived \subseteq Procs /\ late \subseteq Procs /\ kill \in BOOLEAN
  BY DEF WalletInit
<1>3. WalletInit => gasLog \in Nat /\ burnt \in Nat /\ gone \in 0..burnt /\ slips \in Nat
  BY DEF WalletInit
<1>4. QED BY <1>1, <1>2, <1>3 DEF WalletTypeOK

(* KILL, the gas log and the places of the processes that share the wallet  *)
(* keep their shape, at whatever step a process dies.                      *)
THEOREM WalletTypeCorrect == WalletSpec => []WalletTypeOK
BY WalletTypeInit, WalletTypeNext, PTL DEF WalletSpec

-----------------------------------------------------------------------------
(* The gas cap.  Unless the file is empty because somebody is about to      *)
(* write it, it lacks no more than what is sent and not yet written down,  *)
(* and the slips; the same holds of the copy of each process that is going *)
(* to write one.                                                           *)
LogTold ==
  ~ Emptied => burnt - gone <= gasLog + Cardinality(Unlogged) + slips

CopiesTold ==
  \A p \in Rewriting : burnt - gone <= seen[p] + Cardinality(Unlogged) + slips

LogInv == WalletTypeOK /\ LogTold /\ CopiesTold

LEMMA SomeProcs ==
  ASSUME NEW S, S \subseteq Procs
  PROVE  IsFiniteSet(S) /\ Cardinality(S) \in Nat /\ Cardinality(S) <= Cardinality(Procs)
BY WalletAssumption, FS_Subset, FS_CardinalityType

LEMMA Counts ==
  /\ IsFiniteSet(Unlogged) /\ Cardinality(Unlogged) \in Nat
  /\ IsFiniteSet(Rewriting) /\ Cardinality(Rewriting) \in Nat
  /\ Cardinality(Procs) \in Nat
<1>1. Unlogged \subseteq Procs /\ Rewriting \subseteq Procs
  BY DEF Unlogged, Rewriting
<1>2. QED BY <1>1, SomeProcs

(* After the log is lost there is nothing it could lack.                   *)
LEMMA LossStep ==
  ASSUME WalletTypeOK', LosesLog, burnt' = burnt
  PROVE  LogTold' /\ CopiesTold'
<1>1. Unlogged' \subseteq Procs
  BY DEF Unlogged
<1>2. Cardinality(Unlogged') \in Nat
  BY <1>1, SomeProcs
<1>3. burnt' - gone' = 0 /\ slips' \in Nat /\ gasLog' \in Nat
  BY DEF LosesLog, WalletTypeOK
<1>4. \A p \in Rewriting' : seen'[p] \in Nat
  BY DEF WalletTypeOK, Rewriting
<1>5. QED BY <1>2, <1>3, <1>4 DEF LogTold, CopiesTold

(* A step that neither sends nor writes, of a process that is at neither.  *)
LEMMA AsideStep ==
  ASSUME LogInv, NEW p \in Procs, NEW there \in {"down", "idle", "armed", "waiting"},
         stage[p] \in {"down", "idle", "armed", "waiting"}, Goto(p, there),
         UNCHANGED <<gasLog, burnt, gone, slips>>,
         \A q \in Procs \ {p} : seen'[q] = seen[q]
  PROVE  LogTold' /\ CopiesTold'
<1>1. Unlogged' = Unlogged /\ Rewriting' = Rewriting /\ p \notin Rewriting
  BY DEF LogInv, WalletTypeOK, Goto, Unlogged, Rewriting
<1>2. Emptied' = Emptied
  BY DEF LogInv, WalletTypeOK, Goto, Emptied
<1>3. \A q \in Rewriting : seen'[q] = seen[q]
  BY <1>1 DEF Rewriting
<1>4. LogTold'
  BY <1>1, <1>2 DEF LogInv, LogTold
<1>5. CopiesTold'
  BY <1>1, <1>3 DEF LogInv, CopiesTold
<1>6. QED BY <1>4, <1>5

LEMMA SendStep ==
  ASSUME LogInv, NEW p \in Procs, Broadcast(p)
  PROVE  LogTold' /\ CopiesTold'
<1> USE DEF LogInv, WalletTypeOK
<1>1. /\ burnt' = burnt + 1 /\ gone' = gone /\ gasLog' = gasLog /\ seen' = seen
      /\ slips' \in {slips, slips + 1}
      /\ stage[p] = "armed"
  BY DEF Broadcast
<1>2. Rewriting' = Rewriting /\ Emptied' = Emptied
  BY <1>1 DEF Broadcast, Goto, AfterError, Rewriting, Emptied
<1>3. Cardinality(Unlogged') + slips' >= Cardinality(Unlogged) + slips + 1
  <2>1. CASE Goto(p, "sent")
    <3>1. Unlogged' = Unlogged \cup {p} /\ p \notin Unlogged
      BY <2>1, <1>1 DEF Goto, Unlogged
    <3>2. Cardinality(Unlogged') = Cardinality(Unlogged) + 1
      BY <3>1, Counts, FS_AddElement
    <3>3. QED BY <3>2, <1>1, Counts
  <2>2. CASE Goto(p, AfterError(p))
    <3>1. Unlogged' = Unlogged /\ stage'[p] # "sent"
      BY <2>2, <1>1 DEF Goto, AfterError, Unlogged
    <3>2. slips' = slips + 1
      BY <3>1 DEF Broadcast
    <3>3. QED BY <3>1, <3>2, Counts
  <2>3. QED BY <2>1, <2>2 DEF Broadcast
<1>4. Cardinality(Unlogged') \in Nat
  <2>1. Unlogged' \subseteq Procs
    BY DEF Unlogged
  <2>2. QED BY <2>1, SomeProcs
<1>5. LogTold'
  BY <1>1, <1>2, <1>3, <1>4, Counts DEF LogTold
<1>6. ASSUME NEW q \in Rewriting PROVE burnt' - gone' <= seen'[q] + Cardinality(Unlogged') + slips'
  <2>1. seen[q] \in Nat /\ burnt - gone <= seen[q] + Cardinality(Unlogged) + slips
    BY DEF Rewriting, CopiesTold
  <2>2. QED BY <2>1, <1>1, <1>3, <1>4, Counts
<1>7. CopiesTold'
  BY <1>2, <1>6 DEF CopiesTold
<1>8. QED BY <1>5, <1>7

(* Leaving fire with a transaction not written down.                        *)
LEMMA LeaveStep ==
  ASSUME LogInv, WalletTypeOK', NEW p \in Procs, Leave(p),
         NEW there \in {"down", "idle"}, Goto(p, there),
         stage[p] # "down", UNCHANGED <<gasLog, burnt>>
  PROVE  LogTold' /\ CopiesTold'
<1>1. CASE stage[p] \in {"idle", "armed", "waiting"}
  <2>1. UNCHANGED <<gone, slips>>
    BY <1>1 DEF Leave, Slips, LogInv, WalletTypeOK
  <2>2. \A q \in Procs \ {p} : seen'[q] = seen[q]
    BY DEF Leave, Forget, LogInv, WalletTypeOK
  <2>3. QED BY <1>1, <2>1, <2>2, AsideStep
<1>2. CASE stage[p] = "writing"
  BY <1>2, LossStep DEF Leave
<1>3. CASE stage[p] \in {"sent", "read"}
  <2> USE DEF LogInv, WalletTypeOK
  <2>1. gone' = gone /\ slips' = slips + 1
    BY <1>3 DEF Leave, Slips
  <2>2. Unlogged' = Unlogged \ {p} /\ p \in Unlogged
    BY <1>3 DEF Goto, Unlogged
  <2>3. Cardinality(Unlogged') = Cardinality(Unlogged) - 1
    BY <2>2, Counts, FS_RemoveElement
  <2>4. Emptied' = Emptied /\ Rewriting' = Rewriting \ {p}
    BY <1>3 DEF Goto, Emptied, Rewriting
  <2>5. LogTold'
    BY <2>1, <2>3, <2>4, Counts DEF LogTold
  <2>6. ASSUME NEW q \in Rewriting'
        PROVE burnt' - gone' <= seen'[q] + Cardinality(Unlogged') + slips'
    <3>1. q \in Rewriting /\ q # p
      BY <2>4
    <3>2. seen'[q] = seen[q] /\ seen[q] \in Nat
      BY <3>1 DEF Leave, Forget, Rewriting
    <3>3. burnt - gone <= seen[q] + Cardinality(Unlogged) + slips
      BY <3>1 DEF CopiesTold
    <3>4. QED BY <3>2, <3>3, <2>1, <2>3, Counts
  <2>7. QED BY <2>5, <2>6 DEF CopiesTold
<1>4. QED BY <1>1, <1>2, <1>3 DEF LogInv, WalletTypeOK, Stages

LEMMA LoadStep ==
  ASSUME LogInv, WalletTypeOK', NEW p \in Procs, LoadGasLog(p)
  PROVE  LogTold' /\ CopiesTold'
<1>1. CASE Emptied
  BY <1>1, LossStep DEF LoadGasLog
<1>2. CASE ~ Emptied
  <2> USE DEF LogInv, WalletTypeOK
  <2>1. UNCHANGED <<gasLog, burnt, gone, slips>>
    BY <1>2 DEF LoadGasLog, Slips
  <2>2. /\ Unlogged' = Unlogged /\ Rewriting' = Rewriting \cup {p}
        /\ Emptied' = Emptied
    BY <2>1 DEF LoadGasLog, Goto, Unlogged, Rewriting, Emptied
  <2>3. LogTold'
    BY <2>1, <2>2 DEF LogTold
  <2>4. seen'[p] = gasLog /\ \A q \in Rewriting \ {p} : seen'[q] = seen[q]
    BY DEF LoadGasLog, Rewriting
  <2>5. p \notin Rewriting
    BY DEF LoadGasLog, Rewriting
  <2>6. QED BY <1>2, <2>1, <2>2, <2>3, <2>4, <2>5 DEF LogTold, CopiesTold
<1>3. QED BY <1>1, <1>2

LEMMA TruncateStep ==
  ASSUME LogInv, NEW p \in Procs, TruncateGasLog(p)
  PROVE  LogTold' /\ CopiesTold'
<1> USE DEF LogInv, WalletTypeOK
<1>1. UNCHANGED <<burnt, gone, slips, seen>> /\ gasLog' = 0
  BY DEF TruncateGasLog
<1>2. Unlogged' = Unlogged /\ Rewriting' = Rewriting /\ stage'[p] = "writing"
  BY DEF TruncateGasLog, Goto, Unlogged, Rewriting
<1>3. Emptied'
  BY <1>1, <1>2 DEF Emptied
<1>4. QED BY <1>1, <1>2, <1>3 DEF LogTold, CopiesTold

(* The copy that is written back lacked no more than the log may.           *)
LEMMA RewriteStep ==
  ASSUME LogInv, NEW p \in Procs, RewriteGasLog(p)
  PROVE  LogTold' /\ CopiesTold'
<1> USE DEF LogInv, WalletTypeOK
<1> DEFINE others == Cardinality(Rewriting \ {p})
<1>1. /\ stage[p] = "writing" /\ burnt' = burnt /\ gone' = gone
      /\ gasLog' = seen[p] + 1 /\ slips' = slips + others
      /\ \A q \in Procs \ {p} : seen'[q] = seen[q]
  BY DEF RewriteGasLog, Rewritten, Slips, Forget
<1>2. IsFiniteSet(Rewriting \ {p}) /\ others \in Nat
  BY Counts, FS_Subset, FS_CardinalityType
<1>3. /\ Unlogged' = Unlogged \ {p} /\ p \in Unlogged
      /\ Rewriting' = Rewriting \ {p} /\ p \in Rewriting
  BY <1>1 DEF RewriteGasLog, Rewritten, Goto, Unlogged, Rewriting
<1>4. Cardinality(Unlogged') = Cardinality(Unlogged) - 1
  BY <1>3, Counts, FS_RemoveElement
<1>5. burnt - gone <= seen[p] + Cardinality(Unlogged) + slips /\ seen[p] \in Nat
  BY <1>3 DEF CopiesTold
<1>6. burnt' - gone' <= gasLog' + Cardinality(Unlogged') + slips'
  BY <1>1, <1>2, <1>4, <1>5, Counts
<1>7. ASSUME NEW q \in Rewriting'
      PROVE  burnt' - gone' <= seen'[q] + Cardinality(Unlogged') + slips'
  <2>1. q \in Rewriting \ {p} /\ q \in Procs
    BY <1>3 DEF Rewriting
  <2>2. others >= 1
    <3>1. others # 0
      BY <1>2, <2>1, FS_EmptySet
    <3>2. QED BY <1>2, <3>1
  <2>3. burnt - gone <= seen[q] + Cardinality(Unlogged) + slips /\ seen[q] \in Nat
    BY <2>1 DEF CopiesTold
  <2>4. seen'[q] = seen[q]
    BY <1>1, <2>1
  <2>5. QED BY <1>1, <1>2, <1>4, <2>2, <2>3, <2>4, Counts
<1>8. QED BY <1>6, <1>7 DEF LogTold, CopiesTold

LEMMA LogNext == LogInv /\ [WalletNext]_walletVars => LogInv'
<1> SUFFICES ASSUME LogInv, [WalletNext]_walletVars PROVE LogInv'
  OBVIOUS
<1>t. WalletTypeOK' /\ WalletTypeOK
  BY WalletTypeNext DEF LogInv
<1> SUFFICES LogTold' /\ CopiesTold'
  BY <1>t DEF LogInv
<1>1. CASE UNCHANGED walletVars
  BY <1>1 DEF walletVars, logVars, LogInv, LogTold, CopiesTold, Emptied, Unlogged, Rewriting
<1>2. CASE SwitchKill
  BY <1>2 DEF SwitchKill, logVars, LogInv, LogTold, CopiesTold, Emptied, Unlogged, Rewriting
<1>3. ASSUME NEW p \in Procs, WalletMove(p) PROVE LogTold' /\ CopiesTold'
  <2>1. CASE StartProcess(p)
    BY <2>1, AsideStep DEF StartProcess, logVars
  <2>2. CASE stage[p] = "idle" /\ CheckGate(p)
    BY <2>2, AsideStep DEF CheckGate
  <2>3. CASE Broadcast(p)
    BY <2>3, SendStep
  <2>4. CASE FireRaises(p)
    <3>1. \E there \in {"down", "idle"} : Goto(p, there)
      BY <2>4 DEF FireRaises, AfterError
    <3>2. stage[p] # "down" /\ Leave(p) /\ UNCHANGED <<gasLog, burnt>>
      BY <2>4 DEF FireRaises
    <3>3. QED BY <3>1, <3>2, <1>t, LeaveStep
  <2>5. CASE Die(p)
    BY <2>5, <1>t, LeaveStep DEF Die
  <2>6. CASE GiveUp(p)
    BY <2>6, AsideStep DEF GiveUp
  <2>7. CASE CoolDown(p)
    BY <2>7, AsideStep DEF CoolDown, logVars
  <2>8. CASE LoadGasLog(p)
    BY <2>8, <1>t, LoadStep
  <2>9. CASE TruncateGasLog(p)
    BY <2>9, TruncateStep
  <2>10. CASE RewriteGasLog(p)
    BY <2>10, RewriteStep
  <2>11. CASE GarbleGasLog(p)
    BY <2>11, <1>t, LossStep DEF GarbleGasLog, Rewritten
  <2>12. QED
    BY <1>3, <2>1, <2>2, <2>3, <2>4, <2>5, <2>6, <2>7, <2>8, <2>9, <2>10, <2>11
    DEF WalletMove, FireStep
<1>4. QED BY <1>1, <1>2, <1>3 DEF WalletNext

(* The bound itself.  A gate that reads a true log reads less than the cap, *)
(* and what that log lacks is on its way or has slipped; those on their    *)
(* way and those armed are different processes, the new one among them.    *)
LEMMA GateOpens ==
  ASSUME LogInv, GasCapOvershoot, NEW p \in Procs, stage[p] = "idle", CheckGate(p)
  PROVE  GasCapOvershoot'
<1> USE DEF LogInv, WalletTypeOK
<1>1. /\ gasLog < GasCap /\ UNCHANGED <<gasLog, burnt, gone, slips>>
      /\ Armed' = Armed \cup {p} /\ p \notin Armed
  BY DEF CheckGate, Goto, Armed
<1>2. Armed' \ deceived' \subseteq Procs /\ Armed \ deceived \subseteq Procs
  BY DEF Armed
<1>3. Cardinality(Armed' \ deceived') \in Nat /\ Cardinality(Armed \ deceived) \in Nat
  BY <1>2, SomeProcs
<1>4. CASE Emptied
  <2>1. Armed' \ deceived' = Armed \ deceived
    BY <1>4, <1>1 DEF CheckGate, ReadLog
  <2>2. QED BY <2>1, <1>1 DEF GasCapOvershoot
<1>5. CASE ~ Emptied
  <2>1. burnt - gone <= gasLog + Cardinality(Unlogged) + slips
    BY <1>5 DEF LogTold
  <2>2. (Armed' \ deceived') \cap Unlogged = {}
    BY <1>1 DEF Armed, Unlogged
  <2>3. IsFiniteSet(Armed' \ deceived')
    BY <1>2, SomeProcs
  <2>4. Cardinality((Armed' \ deceived') \cup Unlogged)
          = Cardinality(Armed' \ deceived') + Cardinality(Unlogged)
    BY <2>2, <2>3, Counts, FS_Union, FS_EmptySet, <1>3
  <2>5. (Armed' \ deceived') \cup Unlogged \subseteq Procs
    BY <1>2 DEF Unlogged
  <2>6. Cardinality(Armed' \ deceived') + Cardinality(Unlogged) <= Cardinality(Procs)
    BY <2>4, <2>5, SomeProcs
  <2>7. QED
    BY <2>1, <2>6, <1>1, <1>3, Counts, WalletAssumption DEF GasCapOvershoot
<1>6. QED BY <1>4, <1>5

(* Nobody newly armed by a true log, and nothing burnt.                     *)
LEMMA QuietStep ==
  ASSUME WalletTypeOK, WalletTypeOK', GasCapOvershoot,
         Armed' \ deceived' \subseteq Armed \ deceived,
         burnt' = burnt, gone' >= gone, slips' >= slips
  PROVE  GasCapOvershoot'
<1>1. Armed \ deceived \subseteq Procs
  BY DEF Armed
<1>2. /\ Cardinality(Armed' \ deceived') <= Cardinality(Armed \ deceived)
      /\ Cardinality(Armed' \ deceived') \in Nat /\ Cardinality(Armed \ deceived) \in Nat
  BY <1>1, SomeProcs, FS_Subset, FS_CardinalityType
<1>3. QED
  BY <1>2, Counts, WalletAssumption DEF GasCapOvershoot, WalletTypeOK

(* After a loss only those about to send are left to count.                *)
LEMMA LossOvershoot ==
  ASSUME WalletTypeOK, LosesLog, burnt' = burnt
  PROVE  GasCapOvershoot'
<1>1. Armed' \ deceived' \subseteq Procs
  BY DEF Armed
<1>2. /\ Cardinality(Armed' \ deceived') \in Nat
      /\ Cardinality(Armed' \ deceived') <= Cardinality(Procs)
  BY <1>1, SomeProcs
<1>3. QED
  BY <1>2, Counts, WalletAssumption DEF GasCapOvershoot, LosesLog, WalletTypeOK

LEMMA Sending ==
  ASSUME WalletTypeOK, GasCapOvershoot, NEW p \in Procs, Broadcast(p)
  PROVE  GasCapOvershoot'
<1> USE DEF WalletTypeOK
<1>1. /\ p \in Armed /\ Armed' = Armed \ {p} /\ deceived' = deceived \ {p}
      /\ burnt' = burnt + 1 /\ gone' = gone
  BY DEF Broadcast, Through, Goto, AfterError, Armed
<1>2. Armed' \ deceived' = (Armed \ deceived) \ {p}
  BY <1>1
<1>3. Armed \ deceived \subseteq Procs
  BY DEF Armed
<1>4. IsFiniteSet(Armed \ deceived) /\ Cardinality(Armed \ deceived) \in Nat
  BY <1>3, SomeProcs
<1>5. CASE p \in deceived
  <2>1. Armed' \ deceived' = Armed \ deceived
    BY <1>2, <1>5
  <2>2. slips' = slips + 1
    BY <1>5 DEF Broadcast
  <2>3. Cardinality(Armed' \ deceived') = Cardinality(Armed \ deceived)
    BY <2>1
  <2>4. burnt' - gone' = burnt - gone + 1
    BY <1>1
  <2>5. QED BY <1>4, <2>2, <2>3, <2>4, Counts, WalletAssumption DEF GasCapOvershoot
<1>6. CASE p \notin deceived
  <2>1. Cardinality(Armed' \ deceived') = Cardinality(Armed \ deceived) - 1
    BY <1>1, <1>2, <1>4, <1>6, FS_RemoveElement
  <2>2. slips' \in {slips, slips + 1}
    BY DEF Broadcast
  <2>3. QED BY <1>1, <1>4, <2>1, <2>2, Counts, WalletAssumption DEF GasCapOvershoot
<1>7. QED BY <1>5, <1>6

LEMMA GasCapNext ==
  LogInv /\ GasCapOvershoot /\ [WalletNext]_walletVars => GasCapOvershoot'
<1> SUFFICES ASSUME LogInv, GasCapOvershoot, [WalletNext]_walletVars PROVE GasCapOvershoot'
  OBVIOUS
<1>t. WalletTypeOK /\ WalletTypeOK'
  BY WalletTypeNext DEF LogInv
<1>1. CASE UNCHANGED walletVars
  BY <1>1, <1>t, QuietStep DEF walletVars, logVars, Armed, WalletTypeOK
<1>2. CASE SwitchKill
  BY <1>2, <1>t, QuietStep DEF SwitchKill, logVars, Armed, WalletTypeOK
<1>3. ASSUME NEW p \in Procs, WalletMove(p) PROVE GasCapOvershoot'
  <2>1. CASE stage[p] = "idle" /\ CheckGate(p)
    BY <2>1, GateOpens
  <2>2. CASE Broadcast(p)
    BY <2>2, <1>t, Sending
  <2>3. CASE LosesLog /\ burnt' = burnt
    BY <2>3, <1>t, LossOvershoot
  <2>4. CASE /\ ~ LosesLog
             /\ StartProcess(p) \/ FireStep(p) \/ Die(p)
    <3>1. \E there \in Stages \ {"armed"} : Goto(p, there)
      BY <2>4 DEF StartProcess, FireStep, GiveUp, FireRaises, LoadGasLog, TruncateGasLog,
                  RewriteGasLog, GarbleGasLog, Rewritten, CoolDown, Die, AfterError, Stages
    <3>2. Armed' \subseteq Armed \ {p}
      BY <3>1, <1>t DEF Goto, Armed, WalletTypeOK
    <3>3. deceived' \in {deceived, deceived \ {p}}
      BY <2>4 DEF StartProcess, FireStep, GiveUp, FireRaises, LoadGasLog, TruncateGasLog,
                  RewriteGasLog, GarbleGasLog, Rewritten, CoolDown, Die, Leave, Through, logVars
    <3>4. Cardinality(Rewriting \ {p}) \in Nat
      BY SomeProcs DEF Rewriting
    <3>5. burnt' = burnt /\ gone' = gone /\ slips' >= slips
      BY <2>4, <3>4, <1>t
      DEF StartProcess, FireStep, GiveUp, FireRaises, LoadGasLog, TruncateGasLog, RewriteGasLog,
          GarbleGasLog, Rewritten, CoolDown, Die, Leave, Slips, logVars, WalletTypeOK
    <3>6. QED BY <3>2, <3>3, <3>5, <1>t, QuietStep DEF WalletTypeOK
  <2>5. ASSUME LosesLog, StartProcess(p) \/ FireStep(p) \/ Die(p) PROVE burnt' = burnt
    BY <2>5 DEF StartProcess, FireStep, GiveUp, FireRaises, LoadGasLog, TruncateGasLog,
                RewriteGasLog, GarbleGasLog, Rewritten, CoolDown, Die, logVars
  <2>6. QED BY <1>3, <2>1, <2>2, <2>3, <2>4, <2>5 DEF WalletMove
<1>4. QED BY <1>1, <1>2, <1>3 DEF WalletNext

(* check_gate and record_gas_spend of live_executor: in whatever order the  *)
(* processes read, empty and rewrite the gas log, raise and die, until the *)
(* log is lost as a whole the transactions sent and about to be sent stay  *)
(* below the cap, one for each process and one for each slip.              *)
THEOREM GasCapHolds == WalletSpec => []GasCapOvershoot
<1>1. WalletInit => LogInv /\ GasCapOvershoot
  <2> SUFFICES ASSUME WalletInit PROVE LogInv /\ GasCapOvershoot
    OBVIOUS
  <2>1. Armed = {} /\ Rewriting = {}
    BY DEF WalletInit, Armed, Rewriting
  <2>2. Cardinality(Armed \ deceived) = 0
    BY <2>1, FS_EmptySet
  <2>3. burnt = 0 /\ gone = 0 /\ slips = 0 /\ gasLog = 0
    BY DEF WalletInit
  <2>4. GasCapOvershoot
    BY <2>2, <2>3, Counts, WalletAssumption DEF GasCapOvershoot
  <2>5. LogTold /\ CopiesTold
    BY <2>1, <2>3, Counts DEF LogTold, CopiesTold
  <2>6. WalletTypeOK
    BY WalletTypeInit
  <2>7. QED BY <2>4, <2>5, <2>6 DEF LogInv
<1>2. QED BY <1>1, LogNext, GasCapNext, PTL DEF WalletSpec

-----------------------------------------------------------------------------
LEMMA KillNext ==
  WalletTypeOK /\ KillStopsFiring /\ [WalletNext]_walletVars => KillStopsFiring'
<1> SUFFICES ASSUME WalletTypeOK, KillStopsFiring, [WalletNext]_walletVars
             PROVE  KillStopsFiring'
  OBVIOUS
<1> USE DEF WalletTypeOK, KillStopsFiring
<1>1. CASE UNCHANGED walletVars
  BY <1>1 DEF walletVars
<1>2. CASE SwitchKill
  BY <1>2 DEF SwitchKill
<1>3. ASSUME NEW p \in Procs, CheckGate(p) PROVE KillStopsFiring'
  BY <1>3 DEF CheckGate
<1>4. ASSUME NEW p \in Procs, Broadcast(p) PROVE KillStopsFiring'
  BY <1>4 DEF Broadcast, Goto, AfterError
<1>5. ASSUME NEW p \in Procs, StartProcess(p) \/ FireStep(p) \/ Die(p) PROVE KillStopsFiring'
  <2>1. /\ \E there \in Stages \ {"armed"} : Goto(p, there)
        /\ kill' = kill /\ late' = late
    BY <1>5 DEF StartProcess, FireStep, GiveUp, FireRaises, LoadGasLog, TruncateGasLog,
                RewriteGasLog, GarbleGasLog, Rewritten, CoolDown, Die, AfterError, Stages
  <2>2. QED BY <2>1 DEF Goto
<1>6. QED BY <1>1, <1>2, <1>3, <1>4, <1>5 DEF WalletNext, WalletMove

(* run/KILL: a process that has sent its one transaction under it never     *)
(* passes the gate again while it exists.                                  *)
THEOREM KillHolds == WalletSpec => []KillStopsFiring
<1>1. WalletInit => KillStopsFiring
  BY DEF WalletInit, KillStopsFiring
<1>2. QED BY <1>1, WalletTypeCorrect, KillNext, PTL DEF WalletSpec

(* The trader, the sniper and the watcher keep the limits of their wallet,  *)
(* whatever their loops are at.                                            *)
THEOREM DeskKeepsLimits == Spec => [](WalletTypeOK /\ GasCapOvershoot /\ KillStopsFiring)
BY DeskDrivesWallet, WalletTypeCorrect, GasCapHolds, KillHolds, PTL

-----------------------------------------------------------------------------
(* A row is paid for once.  The trader never goes back: rows it has not     *)
(* reached have no transaction, and while it is armed the row it is at has *)
(* none either, for sending leaves "armed" and a new row is taken idle.    *)

TraderTypeOK ==
  /\ rows \in Seq([kind : RowKinds, block : Nat]) /\ Len(rows) <= MaxRows
  /\ head \in Nat
  /\ lastId \in Nat /\ upto \in Nat /\ lastId <= upto /\ upto <= Len(rows)
  /\ shots \in [1..MaxRows -> Nat]

ShotInv ==
  /\ TraderTypeOK
  /\ RowFiredOnce
  /\ \A r \in 1..MaxRows : r > lastId => shots[r] = 0
  /\ stage["trader"] = "armed" => lastId >= 1 /\ shots[lastId] = 0

LEMMA ShotInit == Init => ShotInv
<1> SUFFICES ASSUME Init PROVE ShotInv
  OBVIOUS
<1>1. shots = [r \in 1..MaxRows |-> 0] /\ lastId = 0 /\ upto = 0 /\ rows = <<>> /\ head = 1
  BY DEF Init
<1>2. TraderTypeOK
  BY <1>1, DeskAssumption DEF TraderTypeOK
<1>3. stage["trader"] = "down"
  BY DeskAssumption DEF Init, WalletInit
<1>4. QED BY <1>1, <1>2, <1>3 DEF ShotInv, RowFiredOnce

(* A process changes no stage but its own.                                  *)
LEMMA OthersMove ==
  ASSUME WalletTypeOK, NEW p \in Procs, NEW q \in Procs \ {p}, WalletMove(p)
  PROVE  stage'[q] = stage[q]
<1>1. \E there \in Stages : Goto(p, there)
  BY DEF WalletMove, StartProcess, CheckGate, Broadcast, FireStep, GiveUp, FireRaises,
         LoadGasLog, TruncateGasLog, RewriteGasLog, GarbleGasLog, Rewritten, CoolDown, Die,
         AfterError, Stages
<1>2. QED BY <1>1 DEF Goto, WalletTypeOK

LEMMA ShotNext == WalletTypeOK /\ ShotInv /\ [Next]_vars => ShotInv'
<1> SUFFICES ASSUME WalletTypeOK, ShotInv, [Next]_vars PROVE ShotInv'
  OBVIOUS
<1> USE DEF TraderTypeOK, ShotInv, RowFiredOnce
<1>p. Procs = {"trader", "sniper", "watcher"}
  BY DeskAssumption
(* Steps that leave the trader and the ledger where they are.               *)
<1>q. ASSUME UNCHANGED <<traderVars, chainVars>>,
             stage'["trader"] = "armed" => stage["trader"] = "armed"
      PROVE  ShotInv'
  BY <1>q DEF traderVars, chainVars
<1>1. CASE UNCHANGED vars
  BY <1>1, <1>q DEF vars, walletVars
<1>2. CASE NewBlock
  BY <1>2 DEF NewBlock, walletVars, traderVars
<1>3. CASE RecordPass
  <2>1. PICK kind \in RowKinds : rows' = Append(rows, [kind |-> kind, block |-> head])
    BY <1>3 DEF RecordPass
  <2>2. /\ rows' \in Seq([kind : RowKinds, block : Nat])
        /\ Len(rows') = Len(rows) + 1 /\ Len(rows) + 1 <= MaxRows /\ Len(rows) \in Nat
    BY <1>3, <2>1, DeskAssumption DEF RecordPass
  <2>3. QED BY <1>3, <2>2 DEF RecordPass, walletVars, traderVars
<1>4. CASE TraderStep
  <2>0. UNCHANGED <<head, rows>>
    BY <1>4 DEF TraderStep, chainVars
  <2>1. CASE StartTrader
    BY <2>0, <2>1, <1>p DEF StartTrader, StartProcess, Goto, WalletTypeOK
  <2>2. CASE QueryLedger
    BY <2>0, <2>2 DEF QueryLedger, walletVars
  <2>3. CASE TakeRow
    <3>1. lastId' = lastId + 1 /\ lastId < upto /\ UNCHANGED <<upto, shots>>
          /\ stage["trader"] = "idle"
      BY <2>3 DEF TakeRow
    <3>2. lastId' \in 1..MaxRows
      BY <3>1, DeskAssumption
    <3>3. QED BY <2>0, <3>1, <3>2
  <2>4. CASE FireRow
    <3>1. /\ stage["trader"] = "armed" /\ UNCHANGED <<lastId, upto>>
          /\ shots' = [shots EXCEPT ![lastId] = @ + 1]
      BY <2>4 DEF FireRow
    <3>2. lastId \in 1..MaxRows
      BY <3>1, DeskAssumption
    <3>3. shots'[lastId] = 1 /\ \A r \in 1..MaxRows : r # lastId => shots'[r] = shots[r]
      BY <3>1, <3>2
    <3>4. stage'["trader"] # "armed"
      BY <2>4, <1>p DEF FireRow, Broadcast, Goto, AfterError, WalletTypeOK
    <3>5. QED BY <2>0, <3>1, <3>2, <3>3, <3>4
  <2>5. CASE FireStep("trader") /\ UNCHANGED traderVars
    <3>1. stage'["trader"] # "armed"
      BY <2>5, <1>p DEF FireStep, GiveUp, FireRaises, LoadGasLog, TruncateGasLog,
                        RewriteGasLog, GarbleGasLog, Rewritten, CoolDown,
                        AfterError, Goto, WalletTypeOK
    <3>2. QED BY <2>0, <2>5, <3>1, <1>q DEF chainVars
  <2>6. QED BY <1>4, <2>1, <2>2, <2>3, <2>4, <2>5 DEF TraderStep
<1>5. CASE SniperStep
  <2>1. UNCHANGED walletVars \/ WalletMove("sniper")
    BY <1>5 DEF SniperStep, StartSniper, FetchPools, HandlePool, AdvanceCursor, SaveState,
                LoopError, SniperIdle, WalletMove
  <2>2. stage'["trader"] = stage["trader"]
    BY <2>1, <1>p, OthersMove DEF walletVars
  <2>3. QED BY <1>5, <2>2, <1>q DEF SniperStep
<1>6. CASE WatcherStep
  <2>1. WalletMove("watcher")
    BY <1>6 DEF WatcherStep, StartWatcher, SeeSwap, WalletMove
  <2>2. stage'["trader"] = stage["trader"]
    BY <2>1, <1>p, OthersMove DEF walletVars
  <2>3. QED BY <1>6, <2>2, <1>q DEF WatcherStep
<1>7. CASE Operator
  BY <1>7, <1>q DEF Operator, SwitchKill
<1>8. CASE Crash
  <2>1. PICK p \in Procs : Die(p)
    BY <1>8 DEF Crash
  <2>2. stage'["trader"] = "armed" => stage["trader"] = "armed"
    BY <2>1, <1>p DEF Die, Goto, WalletTypeOK
  <2>3. QED BY <1>8, <2>2, <1>q DEF Crash
<1>9. QED BY <1>1, <1>2, <1>3, <1>4, <1>5, <1>6, <1>7, <1>8 DEF Next

(* live_trader: however often it dies after sending and is started again,   *)
(* no row of the ledger has two transactions.                              *)
THEOREM RowsFiredOnce == Spec => []RowFiredOnce
<1>1. ShotInv => RowFiredOnce
  BY DEF ShotInv
<1>2. QED BY <1>1, ShotInit, ShotNext, DeskKeepsLimits, PTL DEF Spec

-----------------------------------------------------------------------------
(* No block is passed over in silence.  While a range is handled, what is   *)
(* no longer queued has been told; the cursor moves to the end of the range *)
(* only when nothing is queued, and only then reaches the file.            *)

SniperTypeOK ==
  /\ head \in Nat /\ cursor \in Nat /\ saved \in Nat /\ target \in Nat
  /\ scan \in {"poll", "handle", "save"}

SkipInv ==
  /\ SniperTypeOK
  /\ NothingSkippedSilently
  /\ (stage["sniper"] # "down" /\ scan = "handle") =>
       ((cursor + 1)..target) \ queue \subseteq told

LEMMA SkipNext == WalletTypeOK /\ SkipInv /\ [Next]_vars => SkipInv'
<1> SUFFICES ASSUME WalletTypeOK, SkipInv, [Next]_vars PROVE SkipInv'
  OBVIOUS
<1> USE DEF SniperTypeOK, SkipInv, NothingSkippedSilently
<1>p. Procs = {"trader", "sniper", "watcher"}
  BY DeskAssumption
<1>q. ASSUME UNCHANGED sniperVars, head' \in Nat,
             stage'["sniper"] # "down" => stage["sniper"] # "down"
      PROVE  SkipInv'
  BY <1>q DEF sniperVars
<1>1. CASE UNCHANGED vars
  BY <1>1, <1>q DEF vars, walletVars, chainVars
<1>2. CASE NewBlock \/ RecordPass
  BY <1>2, <1>q DEF NewBlock, RecordPass, walletVars
<1>3. CASE TraderStep
  <2>1. UNCHANGED walletVars \/ WalletMove("trader")
    BY <1>3 DEF TraderStep, StartTrader, QueryLedger, TakeRow, FireRow, WalletMove
  <2>2. stage'["sniper"] = stage["sniper"]
    BY <2>1, <1>p, OthersMove DEF walletVars
  <2>3. QED BY <1>3, <2>2, <1>q DEF TraderStep, chainVars
<1>4. CASE WatcherStep
  <2>1. WalletMove("watcher")
    BY <1>4 DEF WatcherStep, StartWatcher, SeeSwap, WalletMove
  <2>2. stage'["sniper"] = stage["sniper"]
    BY <2>1, <1>p, OthersMove DEF walletVars
  <2>3. QED BY <1>4, <2>2, <1>q DEF WatcherStep, chainVars
<1>5. CASE SniperStep
  <2>0. head' = head
    BY <1>5 DEF SniperStep, chainVars
  <2>1. CASE StartSniper
    <3>1. /\ scan' = "poll" /\ saved' = saved /\ target' = 0 /\ cursor' \in Nat
          /\ 1..cursor' \subseteq told' /\ told \subseteq told'
      BY <2>1, DeskAssumption DEF StartSniper
    <3>2. QED BY <2>0, <3>1
  <2>2. CASE FetchPools
    <3>1. /\ UNCHANGED <<stage, cursor, saved>> /\ target' = head /\ scan' = "handle"
          /\ told' = told \cup (((cursor + 1)..head) \ queue')
      BY <2>2 DEF FetchPools, walletVars
    <3>2. QED BY <2>0, <3>1
  <2>3. CASE HandlePool
    <3>1. PICK b \in queue : queue' = queue \ {b} /\ told' = told \cup {b}
      BY <2>3 DEF HandlePool
    <3>2. UNCHANGED <<scan, cursor, saved, target>> /\ stage["sniper"] = "idle"
          /\ scan = "handle"
      BY <2>3 DEF HandlePool, SniperIdle
    <3>3. QED BY <2>0, <3>1, <3>2
  <2>4. CASE AdvanceCursor
    <3>1. /\ UNCHANGED <<stage, told>> /\ scan = "handle" /\ queue = {} /\ stage["sniper"] = "idle"
          /\ scan' = "save" /\ cursor' = target /\ saved' = 0 /\ target' = target
      BY <2>4 DEF AdvanceCursor, SniperIdle, walletVars
    <3>2. 1..target \subseteq (1..cursor) \cup ((cursor + 1)..target)
      OBVIOUS
    <3>3. QED BY <2>0, <3>1, <3>2
  <2>5. CASE SaveState
    BY <2>0, <2>5 DEF SaveState, SniperIdle, walletVars
  <2>6. CASE LoopError
    BY <2>0, <2>6 DEF LoopError, SniperIdle, walletVars
  <2>7. CASE (Broadcast("sniper") \/ FireStep("sniper")) /\ UNCHANGED sniperVars
    <3>1. stage["sniper"] # "down"
      BY <2>7 DEF Broadcast, FireStep, GiveUp, FireRaises, LoadGasLog,
                  TruncateGasLog, RewriteGasLog, GarbleGasLog, Rewritten, CoolDown
    <3>2. QED BY <2>0, <2>7, <3>1, <1>q
  <2>8. QED BY <1>5, <2>1, <2>2, <2>3, <2>4, <2>5, <2>6, <2>7 DEF SniperStep
<1>6. CASE Operator
  BY <1>6, <1>q DEF Operator, SwitchKill, chainVars
<1>7. CASE Crash
  <2>1. PICK p \in Procs : Die(p)
    BY <1>7 DEF Crash
  <2>2. stage'["sniper"] # "down" => stage["sniper"] # "down"
    BY <2>1, <1>p DEF Die, Goto, WalletTypeOK
  <2>3. QED BY <1>7, <2>2, <1>q DEF Crash, chainVars
<1>8. QED BY <1>1, <1>2, <1>3, <1>4, <1>5, <1>6, <1>7 DEF Next

(* newpool_sniper: neither the cursor in memory nor the one a restart finds *)
(* in the file ever passes a block whose pool creations were not handled,  *)
(* reported as lost or waived, at whatever step the process dies.          *)
THEOREM NothingSkipped == Spec => []NothingSkippedSilently
<1>1. Init => SkipInv
  BY DEF Init, SkipInv, SniperTypeOK, NothingSkippedSilently
<1>2. SkipInv => NothingSkippedSilently
  BY DEF SkipInv
<1>3. QED BY <1>1, <1>2, SkipNext, DeskKeepsLimits, PTL DEF Spec
=============================================================================
