--------------------------- MODULE RuntimeMonitor ---------------------------
(***************************************************************************)
(* The status file of the swarm process: RuntimeMonitor, the heartbeat     *)
(* thread of zero/cli.py and the health command that reads the file.       *)
(* _update replaces the file and the copy in memory together, under the    *)
(* monitor's lock and by a rename, so it is one step; it may also raise    *)
(* and then changes neither.  A time is its age in ticks, up to one more   *)
(* than health tolerates, which also stands for the initial 0.0; ticks are *)
(* far longer than the delay between reading the clock and writing.        *)
(* Figures that are only displayed are left out.                           *)
(***************************************************************************)
EXTENDS Naturals

CONSTANTS
  MaxAge,     \* --max-age of the health command, in ticks
  CycleMod,   \* bound of cycle_number: it is counted modulo this
  MaxErrors   \* bound of consecutive_errors: it stays there

ASSUME RuntimeAssumption ==
  MaxAge \in Nat /\ CycleMod \in Nat \ {0} /\ MaxErrors \in Nat \ {0}

VARIABLES
  status,  \* RuntimeMonitor.status of the process
  file,    \* the status file; phase "missing" while there is none
  beat     \* heartbeat thread: "off", "waiting", or between its clock
           \* reading and its write, "writing"

runtimeVars == <<status, file, beat>>

AgeCap == MaxAge + 1
Phases == {"missing", "idle", "starting", "scanning", "sleeping", "error"}
Statuses == [beatAge : 0..AgeCap, phase : Phases, cycle : 0..(CycleMod - 1),
             errors : 0..MaxErrors]

(* RuntimeStatus(): the defaults every process starts from.                 *)
FreshStatus == [beatAge |-> AgeCap, phase |-> "idle", cycle |-> 0, errors |-> 0]
NoFile == [FreshStatus EXCEPT !.phase = "missing"]

RuntimeTypeOK ==
  /\ status \in Statuses
  /\ file \in Statuses
  /\ beat \in {"off", "waiting", "writing"}

RuntimeInit == status = FreshStatus /\ file = NoFile /\ beat = "off"

-----------------------------------------------------------------------------
(* _update: every write starts from the status in memory and sets           *)
(* heartbeat_at to the present.                                            *)
Update(new) ==
  /\ status' = [new EXCEPT !.beatAge = 0]
  /\ file' = status'

RecordProcessStart == Update([FreshStatus EXCEPT !.phase = "starting"])

RecordCycleStart ==
  Update([status EXCEPT !.phase = "scanning", !.cycle = (@ + 1) % CycleMod])

(* Faulty variant: a success leaves the count of failures alone. *)
RecordCycleCounting == Update([status EXCEPT !.phase = "sleeping"])

RecordCycle == Update([status EXCEPT !.phase = "sleeping", !.errors = 0])

RecordError ==
  Update([status EXCEPT !.phase = "error",
                        !.errors = IF @ < MaxErrors THEN @ + 1 ELSE @])

(* The heartbeat thread, whose interval may end at any time.                *)
BeatDue == beat = "waiting" /\ beat' = "writing" /\ UNCHANGED <<status, file>>

(* Faulty variant: the thread writes through a monitor of its own. *)
BeatFromDefaults == beat = "writing" /\ beat' = "waiting" /\ Update(FreshStatus)

BeatWritten == beat = "writing" /\ beat' = "waiting" /\ Update(status)

(* Faulty variant: a write that raises ends the thread. *)
BeatDies == beat = "writing" /\ beat' = "off" /\ UNCHANGED <<status, file>>

(* _runtime_heartbeat_loop swallows whatever the write raises.              *)
BeatFails == beat = "writing" /\ beat' = "waiting" /\ UNCHANGED <<status, file>>

BeatStep == BeatDue \/ BeatWritten \/ BeatFails

(* Faulty variant: a file is enough, whatever its age. *)
VerdictOnExistence == IF file.phase = "missing" THEN 2 ELSE 0

(* cmd_health: 0 healthy, 2 missing or stale.  The kill state, exit code 3, *)
(* is never set by the swarm process.                                      *)
Verdict == IF file.phase = "missing" \/ file.beatAge > MaxAge THEN 2 ELSE 0

Aged(s) == [s EXCEPT !.beatAge = IF @ < AgeCap THEN @ + 1 ELSE @]

RuntimeTick ==
  /\ beat # "writing"
  /\ status' = Aged(status) /\ file' = Aged(file)
  /\ UNCHANGED beat
=============================================================================
