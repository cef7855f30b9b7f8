------------------------- MODULE SwarmServiceProofs -------------------------
(***************************************************************************)
(* Theorems about the status file of SwarmService and about its catalogs,  *)
(* for any age the health command tolerates and any times to live.         *)
(***************************************************************************)
EXTENDS SwarmService, CatalogCacheProofs

Running == {"start", "block", "scan", "record", "caught", "sleep"}

(* Once the process has written its first status the file is the copy in    *)
(* memory, whichever thread wrote last; the copy says where the cycle is,   *)
(* and the file of a dead process is at least as old as its death.         *)
FileIsStatus == ceo \in Running => file = status

PhaseInv == InBlock => status.phase = "scanning"

StreakInv ==
  /\ ceo = "launching" => streak = 0
  /\ ceo \in Running \ {"caught"} => status.errors = streak
  /\ ceo = "caught" =>
       streak = IF status.errors < MaxErrors THEN status.errors + 1 ELSE status.errors

AgeInv == ~ Alive => file.phase = "missing" \/ file.beatAge >= downFor

ProcessTypeOK ==
  /\ RuntimeTypeOK
  /\ ceo \in Ceo
  /\ streak \in 0..MaxErrors
  /\ downFor \in 0..AgeCap

ServiceInv == ProcessTypeOK /\ FileIsStatus /\ PhaseInv /\ StreakInv /\ AgeInv

LEMMA StatusShapes ==
  /\ FreshStatus \in Statuses /\ NoFile \in Statuses
  /\ \A s \in Statuses : Aged(s) \in Statuses
<1> USE RuntimeAssumption DEF Statuses, Phases, AgeCap
<1>1. FreshStatus \in Statuses
  BY DEF FreshStatus
<1>2. NoFile \in Statuses
  BY DEF FreshStatus, NoFile
<1>3. \A s \in Statuses : Aged(s) \in Statuses
  BY DEF Aged
<1>4. QED BY <1>1, <1>2, <1>3

(* What the record_* operations make of a status.                          *)
LEMMA Scanning ==
  ASSUME NEW s \in Statuses, NEW cycle \in 0..(CycleMod - 1)
  PROVE  /\ [s EXCEPT !.phase = "scanning", !.cycle = cycle] \in Statuses
         /\ [s EXCEPT !.phase = "scanning", !.cycle = cycle].phase = "scanning"
         /\ [s EXCEPT !.phase = "scanning", !.cycle = cycle].errors = s.errors
  BY DEF Statuses, Phases

LEMMA Sleeping ==
  ASSUME NEW s \in Statuses, NEW errors \in 0..MaxErrors
  PROVE  /\ [s EXCEPT !.phase = "sleeping", !.errors = errors] \in Statuses
         /\ [s EXCEPT !.phase = "sleeping", !.errors = errors].errors = errors
  BY DEF Statuses, Phases

LEMMA Failing ==
  ASSUME NEW s \in Statuses, NEW errors \in 0..MaxErrors
  PROVE  /\ [s EXCEPT !.phase = "error", !.errors = errors] \in Statuses
         /\ [s EXCEPT !.phase = "error", !.errors = errors].errors = errors
  BY DEF Statuses, Phases

LEMMA Starting ==
  /\ [FreshStatus EXCEPT !.phase = "starting"] \in Statuses
  /\ [FreshStatus EXCEPT !.phase = "starting"].errors = 0
  BY StatusShapes DEF FreshStatus, Statuses, Phases

LEMMA ServiceInit == Init => ServiceInv
<1> SUFFICES ASSUME Init PROVE ServiceInv
  OBVIOUS
<1>1. status = FreshStatus /\ file = NoFile /\ beat = "off"
      /\ ceo = "launching" /\ streak = 0 /\ downFor = 0
  BY DEF Init, RuntimeInit
<1>2. ProcessTypeOK
  BY <1>1, StatusShapes, RuntimeAssumption
  DEF ProcessTypeOK, RuntimeTypeOK, Ceo, AgeCap
<1>3. QED
  BY <1>1, <1>2
  DEF ServiceInv, FileIsStatus, PhaseInv, StreakInv, AgeInv, Running, InBlock, Alive

(* A write makes file and status one.                                       *)
LEMMA Written ==
  ASSUME NEW new \in Statuses, Update(new)
  PROVE  /\ status' \in Statuses /\ file' = status'
         /\ status'.phase = new.phase /\ status'.errors = new.errors
         /\ status'.cycle = new.cycle
  BY RuntimeAssumption DEF Update, Statuses, AgeCap

LEMMA ServiceNext == ServiceInv /\ [Next]_vars => ServiceInv'
<1> SUFFICES ASSUME ServiceInv, [Next]_vars PROVE ServiceInv'
  OBVIOUS
<1> USE DEF ServiceInv, ProcessTypeOK, RuntimeTypeOK, FileIsStatus, PhaseInv, StreakInv,
            AgeInv, Running, InBlock, Alive, Ceo
<1>a. MaxErrors \in Nat \ {0} /\ AgeCap \in Nat
  BY RuntimeAssumption DEF AgeCap
<1>b. status.errors \in 0..MaxErrors /\ status.cycle \in 0..(CycleMod - 1)
  BY DEF Statuses
<1>1. CASE UNCHANGED vars
  BY <1>1 DEF vars, runtimeVars, serviceVars
<1>2. CASE Launch
  BY <1>2, <1>a, StatusShapes DEF Launch, Goto
<1>3. CASE StartProcess
  <2>2. status' \in Statuses /\ file' = status' /\ status'.errors = 0
    BY <1>3, Starting, Written DEF StartProcess, RecordProcessStart
  <2>3. QED BY <1>3, <2>2 DEF StartProcess, Goto
<1>4. CASE StartCycle
  <2> DEFINE cycle == (status.cycle + 1) % CycleMod
             new == [status EXCEPT !.phase = "scanning", !.cycle = cycle]
  <2>1. cycle \in 0..(CycleMod - 1) /\ 0 \in 0..MaxErrors
    BY <1>b, RuntimeAssumption
  <2>2. new \in Statuses /\ new.phase = "scanning" /\ new.errors = status.errors
    BY <2>1, Scanning
  <2>3. Update(new)
    BY <1>4 DEF StartCycle, RecordCycleStart
  <2>4. /\ status' \in Statuses /\ file' = status'
        /\ status'.phase = "scanning" /\ status'.errors = status.errors
    BY <2>2, <2>3, Written
  <2>5. QED BY <1>4, <2>4 DEF StartCycle, Goto
<1>5. CASE BuildCatalog
  BY <1>5 DEF BuildCatalog, Goto, runtimeVars
<1>6. CASE FinishBlock
  BY <1>6 DEF FinishBlock, Goto, runtimeVars
<1>7. CASE RecordResult
  <2> DEFINE new == [status EXCEPT !.phase = "sleeping", !.errors = 0]
  <2>0. 0 \in 0..MaxErrors
    BY <1>a
  <2>1. new \in Statuses /\ new.errors = 0
    BY <2>0, Sleeping
  <2>2. Update(new)
    BY <1>7 DEF RecordResult, RecordCycle
  <2>3. /\ status' \in Statuses /\ file' = status' /\ status'.errors = 0
    BY <2>1, <2>2, Written
  <2>4. QED BY <1>7, <2>3, <1>a DEF RecordResult, Goto
<1>8. CASE CycleRaises
  BY <1>8, <1>a DEF CycleRaises, Goto, runtimeVars
<1>9. CASE CatchError
  <2> DEFINE count == IF status.errors < MaxErrors THEN status.errors + 1 ELSE status.errors
             new == [status EXCEPT !.phase = "error", !.errors = count]
  <2>c. count \in 0..MaxErrors
    BY <1>a, <1>b
  <2>1. new \in Statuses /\ new.errors = count
    BY <2>c, Failing
  <2>2. Update(new)
    BY <1>9 DEF CatchError, RecordError
  <2>3. /\ status' \in Statuses /\ file' = status' /\ status'.errors = count
    BY <2>1, <2>2, Written
  <2>4. QED BY <1>9, <2>3 DEF CatchError, Goto
<1>10. CASE Wake
  BY <1>10 DEF Wake, Goto, runtimeVars
<1>11. CASE Interrupted \/ StatusWriteFatal \/ Crash
  <2>1. /\ ceo' \in {"stopped", "failed"} /\ status' = FreshStatus /\ beat' = "off"
        /\ file' = file /\ streak' = 0 /\ downFor' = 0
    BY <1>11 DEF Interrupted, StatusWriteFatal, Crash, Exit, Goto
  <2>2. file.beatAge >= 0
    BY DEF Statuses
  <2>3. QED BY <2>1, <2>2, <1>a, StatusShapes
<1>12. CASE Heartbeat
  <2>1. UNCHANGED <<ceo, streak, downFor>> /\ beat' \in {"off", "waiting", "writing"}
    BY <1>12 DEF Heartbeat, BeatStep, BeatDue, BeatWritten, BeatFails, serviceVars
  <2>2. UNCHANGED <<status, file>> \/ Update(status)
    BY <1>12 DEF Heartbeat, BeatStep, BeatDue, BeatWritten, BeatFails
  <2>3. CASE Update(status)
    <3>1. /\ status' \in Statuses /\ file' = status' /\ status'.phase = status.phase
          /\ status'.errors = status.errors
      BY <2>3, Written
    <3>2. QED BY <1>12, <2>1, <3>1 DEF Heartbeat
  <2>4. QED BY <2>1, <2>2, <2>3
<1>13. CASE Tick
  <2>1. /\ status' = Aged(status) /\ file' = Aged(file) /\ UNCHANGED <<ceo, streak, beat>>
        /\ downFor' = IF Alive \/ downFor = AgeCap THEN downFor ELSE downFor + 1
    BY <1>13 DEF Tick, RuntimeTick
  <2>2. \A s \in Statuses :
          /\ Aged(s).phase = s.phase /\ Aged(s).errors = s.errors
          /\ Aged(s).beatAge = IF s.beatAge < AgeCap THEN s.beatAge + 1 ELSE s.beatAge
          /\ s.beatAge \in 0..AgeCap
    BY DEF Aged, Statuses
  <2>3. status' \in Statuses /\ file' \in Statuses /\ downFor' \in 0..AgeCap
    BY <2>1, <1>a, StatusShapes
  <2>4. AgeInv'
    BY <2>1, <2>2, <1>a
  <2>5. QED BY <2>1, <2>2, <2>3, <2>4
<1>14. QED
  BY <1>1, <1>2, <1>3, <1>4, <1>5, <1>6, <1>7, <1>8, <1>9, <1>10, <1>11, <1>12, <1>13
  DEF Next, CeoStep

-----------------------------------------------------------------------------
LEMMA Serviced == Spec => []ServiceInv
  BY ServiceInit, ServiceNext, PTL DEF Spec

(* zero/runtime.py and the loop of cmd_swarm: although two threads rewrite  *)
(* the whole file, it says "scanning" throughout run_block and counts the  *)
(* failures since the last success.                                        *)
THEOREM StatusIsTrue == Spec => []StatusTellsTruth
<1>1. ServiceInv => StatusTellsTruth
  BY DEF ServiceInv, FileIsStatus, PhaseInv, StreakInv, StatusTellsTruth, Running, InBlock
<1>2. QED BY <1>1, Serviced, PTL

(* cmd_health: a process that is dead for longer than --max-age is not      *)
(* called healthy, whatever it wrote last and whenever it died.            *)
THEOREM DeathNoticed == Spec => []DeathIsNoticed
<1>1. ServiceInv => DeathIsNoticed
  <2> SUFFICES ASSUME ServiceInv, ~ Alive, downFor > MaxAge PROVE Verdict # 0
    BY DEF DeathIsNoticed
  <2>1. file.phase = "missing" \/ file.beatAge >= downFor
    BY DEF ServiceInv, AgeInv
  <2>2. file.beatAge \in Nat /\ downFor \in Nat /\ MaxAge \in Nat
    BY RuntimeAssumption DEF ServiceInv, ProcessTypeOK, RuntimeTypeOK, Statuses, AgeCap
  <2>3. QED BY <2>1, <2>2 DEF Verdict
<1>2. QED BY <1>1, Serviced, PTL

-----------------------------------------------------------------------------
CycleStep ==
  file'.cycle # file.cycle =>
    \/ ceo = "launching"
    \/ ceo = "start" /\ file'.cycle = (file.cycle + 1) % CycleMod

LEMMA CycleStepped == ServiceInv /\ [Next]_vars => CycleStep
<1> SUFFICES ASSUME ServiceInv, [Next]_vars, ceo # "launching",
                    file'.cycle # file.cycle
             PROVE  ceo = "start" /\ file'.cycle = (file.cycle + 1) % CycleMod
  BY DEF CycleStep
<1> USE DEF ServiceInv, ProcessTypeOK, RuntimeTypeOK, FileIsStatus, Running, Alive, Ceo
<1>a. status \in Statuses /\ file \in Statuses
  OBVIOUS
<1>1. CASE UNCHANGED file
  BY <1>1
<1>2. CASE StartCycle
  BY <1>2, <1>a DEF StartCycle, RecordCycleStart, Update, Statuses
<1>3. CASE RecordResult
  BY <1>3, <1>a DEF RecordResult, RecordCycle, Update, Statuses
<1>4. CASE CatchError
  BY <1>4, <1>a DEF CatchError, RecordError, Update, Statuses
<1>5. CASE Heartbeat
  BY <1>5, <1>a DEF Heartbeat, BeatStep, BeatDue, BeatWritten, BeatFails, Update, Statuses
<1>6. CASE Tick
  BY <1>6, <1>a DEF Tick, RuntimeTick, Aged, Statuses
<1>7. UNCHANGED file \/ StartCycle \/ RecordResult \/ CatchError \/ Heartbeat \/ Tick
  BY DEF Next, CeoStep, vars, runtimeVars, Launch, StartProcess, BuildCatalog, FinishBlock,
         CycleRaises, Wake, Interrupted, StatusWriteFatal, Crash, Exit
<1>8. QED BY <1>1, <1>2, <1>3, <1>4, <1>5, <1>6, <1>7

(* record_cycle_start: no thread ever takes the number of a cycle back.     *)
THEOREM CycleNumberIsKept == Spec => CycleNumberKept
<1>1. ServiceInv /\ [Next]_vars => [CycleStep]_vars
  BY CycleStepped
<1>2. QED BY <1>1, Serviced, PTL DEF Spec, CycleNumberKept, CycleStep

-----------------------------------------------------------------------------
(* The invariant of the caches holds whatever the loop around them does: a  *)
(* build in progress belongs to run_block, and the end of the process takes *)
(* it along.                                                               *)
BuildInv == CatalogInv /\ (Building => ceo = "block")

LEMMA BuildInit == Init => BuildInv
  BY CatalogInit, NoBuildIs DEF Init, BuildInv, ColdCaches, Building

LEMMA BuildNext == BuildInv /\ [Next]_vars => BuildInv'
<1> SUFFICES ASSUME BuildInv, [Next]_vars PROVE BuildInv'
  OBVIOUS
<1> USE DEF BuildInv
<1>1. CASE BuildCatalog
  <2>1. CatalogInv'
    BY <1>1, CatalogBuilds DEF BuildCatalog
  <2>2. build.phase = "context" => build' = NoBuild
    BY <1>1 DEF BuildCatalog, BuildStep, BuildRegistry, ReuseTopology, DiscoverTopology,
                BuildContext, Building
  <2>3. QED BY <1>1, <2>1, <2>2, NoBuildIs DEF BuildCatalog, Goto, Building
<1>2. CASE CycleRaises
  BY <1>2, CatalogRaises, NoBuildIs DEF CycleRaises, BuildRaises, Building
<1>3. CASE Interrupted \/ StatusWriteFatal \/ Crash
  BY <1>3, CatalogDrop, NoBuildIs
  DEF Interrupted, StatusWriteFatal, Crash, Exit, DropCaches, Building
<1>4. CASE Tick
  <2>1. CatalogInv' /\ ceo' = ceo
    BY <1>4, CatalogTicks DEF Tick
  <2>2. ~ Building => build' = build
    BY <1>4 DEF Tick, CatalogTick
  <2>3. QED BY <2>1, <2>2 DEF Building
<1>5. CASE \/ Launch \/ StartProcess \/ StartCycle \/ FinishBlock \/ RecordResult
           \/ CatchError \/ Wake \/ Heartbeat \/ UNCHANGED vars
  <2>1. UNCHANGED catalogVars /\ (ceo = "block" => UNCHANGED ceo)
    BY <1>5
    DEF Launch, StartProcess, StartCycle, FinishBlock, RecordResult, CatchError, Wake,
        Heartbeat, vars, serviceVars, Goto
  <2>2. QED BY <2>1, CatalogStutters DEF catalogVars, Building
<1>6. QED BY <1>1, <1>2, <1>3, <1>4, <1>5 DEF Next, CeoStep

LEMMA Built == Spec => []BuildInv
  BY BuildInit, BuildNext, PTL DEF Spec

(* _build_catalog: an unusable reply keeps a route out of the catalog for   *)
(* at most the two times to live together, whatever the caches held, and    *)
(* whenever builds fail or the process is killed.                          *)
THEOREM FaultsHeal == Spec => []OutageBounded
<1>1. BuildInv => OutageBounded
  <2> SUFFICES ASSUME BuildInv, catalog.set, catalog.owed, Pair \in UniListed
               PROVE  /\ Pair \in catalog.rows.uni
                      /\ \/ Venue \in catalog.rows.errors
                         \/ IF RouteCap = 0
                              THEN Watched \in {r \in catalog.rows.multi : r[1] = Pair}
                              ELSE {r \in catalog.rows.multi : r[1] = Pair} # {}
    BY DEF OutageBounded, Pair, Venue
  <2>1. Served(catalog.rows)
    BY DEF BuildInv, CatalogInv, ServedInv
  <2>2. QED BY <2>1, WatchedIs DEF Served, OwnIn
<1>2. QED BY <1>1, Built, PTL

(* zero/swarm.py and zero/runtime.py: the process, its caches and its       *)
(* status file keep their shapes, no age outgrows its bound, and a build    *)
(* exists only while run_block is running.                                 *)
THEOREM ServiceTypeCorrect == Spec => []ServiceTypeOK
<1>1. ServiceInv /\ BuildInv => ServiceTypeOK
  BY DEF ServiceInv, ProcessTypeOK, BuildInv, CatalogInv, ServiceTypeOK
<1>2. QED BY <1>1, Serviced, Built, PTL
=============================================================================
