---------------------------- MODULE SwarmService ----------------------------
(***************************************************************************)
(* The swarm process as systemd runs it: cmd_swarm's loop on the CEO       *)
(* thread, the heartbeat thread beside it, and the caches a cycle builds   *)
(* its catalog from, which live and die with the process.  The process may *)
(* be killed at any step and is started again when it did not end with     *)
(* exit code 0.  What run_block does after the catalog is one step here    *)
(* that may also hang; SwarmCycle has its parts.                           *)
(***************************************************************************)
EXTENDS CatalogCache, RuntimeMonitor

VARIABLES
  ceo,      \* where cmd_swarm is
  streak,   \* history: cycles that failed since the last one that did not
  downFor   \* history: ticks since the process died, up to AgeCap

serviceVars == <<ceo, streak, downFor>>
vars == <<catalogVars, runtimeVars, serviceVars>>

Ceo == {"stopped", "failed", "launching", "start", "block", "scan", "record",
        "caught", "sleep"}
Alive == ceo \notin {"stopped", "failed"}
InBlock == ceo \in {"block", "scan"}

(* Every variable keeps its shape, and a catalog is under construction only *)
(* inside run_block, whose registry and rows are its locals.               *)
ServiceTypeOK ==
  /\ CatalogTypeOK
  /\ RuntimeTypeOK
  /\ ceo \in Ceo
  /\ Building => ceo = "block"
  /\ streak \in 0..MaxErrors
  /\ downFor \in 0..AgeCap

Init ==
  /\ ColdCaches
  /\ RuntimeInit
  /\ ceo = "launching" /\ streak = 0 /\ downFor = 0

-----------------------------------------------------------------------------
Goto(there) == ceo' = there

(* A new process, with a monitor, a supervisor and caches of its own.       *)
Launch ==
  /\ ceo = "failed"
  /\ Goto("launching")
  /\ status' = FreshStatus
  /\ streak' = 0 /\ downFor' = 0
  /\ UNCHANGED <<catalogVars, file, beat>>

(* cmd_swarm up to its loop: the status file, then the heartbeat thread.    *)
StartProcess ==
  /\ ceo = "launching"
  /\ RecordProcessStart
  /\ beat' = "waiting"
  /\ Goto("start")
  /\ UNCHANGED <<catalogVars, streak, downFor>>

StartCycle ==
  /\ ceo = "start"
  /\ RecordCycleStart
  /\ Goto("block")
  /\ UNCHANGED <<catalogVars, beat, streak, downFor>>

(* run_block pins a block and builds the catalog.                           *)
BuildCatalog ==
  /\ ceo = "block"
  /\ BuildStep
  /\ Goto(IF build.phase = "context" THEN "scan" ELSE "block")
  /\ UNCHANGED <<runtimeVars, streak, downFor>>

FinishBlock ==
  /\ ceo = "scan"
  /\ Goto("record")
  /\ UNCHANGED <<catalogVars, runtimeVars, streak, downFor>>

RecordResult ==
  /\ ceo = "record"
  /\ RecordCycle
  /\ Goto("sleep")
  /\ streak' = 0
  /\ UNCHANGED <<catalogVars, beat, downFor>>

(* Whatever a cycle raises, the status writes of its two ends included; the *)
(* exception of a result that was recorded already comes from printing it. *)
CycleRaises ==
  /\ ceo \in {"start", "block", "scan", "record", "sleep"}
  /\ ceo = "sleep" => status.phase = "sleeping"
  /\ BuildRaises
  /\ Goto("caught")
  /\ streak' = IF streak < MaxErrors THEN streak + 1 ELSE streak
  /\ UNCHANGED <<runtimeVars, downFor>>

CatchError ==
  /\ ceo = "caught"
  /\ RecordError
  /\ Goto("sleep")
  /\ UNCHANGED <<catalogVars, beat, streak, downFor>>

Wake ==
  /\ ceo = "sleep"
  /\ Goto("start")
  /\ UNCHANGED <<catalogVars, runtimeVars, streak, downFor>>

(* The end of the process takes its threads, its caches and its copy of the *)
(* status with it; only the file stays.                                    *)
Exit(how) ==
  /\ Alive
  /\ Goto(how)
  /\ DropCaches
  /\ status' = FreshStatus /\ beat' = "off" /\ file' = file
  /\ streak' = 0 /\ downFor' = 0

(* An interrupt between two statements of the loop: return 0.               *)
Interrupted == ceo \in {"start", "block", "scan", "record", "sleep"} /\ Exit("stopped")

(* A write raises outside the loop's try, or inside its except branch.      *)
StatusWriteFatal == ceo \in {"launching", "caught"} /\ Exit("failed")

Crash == Exit("failed")

Tick ==
  /\ CatalogTick
  /\ RuntimeTick
  /\ downFor' = IF Alive \/ downFor = AgeCap THEN downFor ELSE downFor + 1
  /\ UNCHANGED <<ceo, streak>>

Heartbeat == Alive /\ BeatStep /\ UNCHANGED <<catalogVars, serviceVars>>

CeoStep ==
  \/ StartProcess \/ StartCycle \/ BuildCatalog \/ FinishBlock \/ RecordResult
  \/ CycleRaises \/ CatchError \/ Wake

Next ==
  \/ Launch \/ CeoStep \/ Interrupted \/ StatusWriteFatal \/ Crash
  \/ Heartbeat \/ Tick

Spec == Init /\ [][Next]_vars

(* Only the heartbeat thread is fair: run_block may hang.  A write of the   *)
(* status file that is attempted again and again succeeds again and again. *)
FairSpec ==
  /\ Spec
  /\ WF_vars(Heartbeat)
  /\ SF_vars(Heartbeat /\ BeatWritten)

-----------------------------------------------------------------------------
(* A fault heals.  A token without a price, or a pool whose batch member    *)
(* failed, keeps a route out of the catalog for at most the two times to   *)
(* live together, counted from the start of the build that met the fault:  *)
(* from then on its pair is scanned on Uniswap, and off Uniswap unless its *)
(* own venue fails in this very build.                                     *)
OutageBounded ==
  LET p == Watched[1]
      own == {r \in catalog.rows.multi : r[1] = p}
  IN (catalog.set /\ catalog.owed /\ p \in UniListed) =>
       /\ p \in catalog.rows.uni
       /\ \/ Watched[2] \in catalog.rows.errors
          \/ IF RouteCap = 0 THEN Watched \in own ELSE own # {}

(* The file tells the truth about the cycle although two threads rewrite it *)
(* as a whole: during run_block it says so, and whenever the loop is past   *)
(* its error handler it counts exactly the failures since the last success. *)
StatusTellsTruth ==
  /\ InBlock => file.phase = "scanning"
  /\ ceo \in {"start", "block", "scan", "record", "sleep"} => file.errors = streak

(* health never calls a process alive that has been dead for longer than    *)
(* the age it tolerates.                                                   *)
DeathIsNoticed == (~ Alive /\ downFor > MaxAge) => Verdict # 0

(* A cycle, once recorded as started, is never taken back: the number in    *)
(* the file changes only when a process starts or a cycle does.            *)
CycleNumberKept ==
  [][file'.cycle # file.cycle =>
       \/ ceo = "launching"
       \/ ceo = "start" /\ file'.cycle = (file.cycle + 1) % CycleMod]_vars

(* While a process lives its heartbeat is renewed again and again, however  *)
(* long a cycle hangs and although a write of the file may fail.           *)
HeartbeatGoesOn == <>[](Alive /\ ceo # "launching") => []<>(file.beatAge = 0)
=============================================================================
