------------------------------ MODULE HotWallet ------------------------------
(***************************************************************************)
(* What the three trading processes share: the gate of live_executor, its  *)
(* kill switch and gas log, which are files without a lock, and fire() of  *)
(* live_trader, which sends a transaction and only then writes down its    *)
(* gas.  Every transaction is one unit of gas, and the modelled time lies  *)
(* within 24 hours, so no entry of the log expires.  A log that is missing *)
(* or cannot be parsed is read as an empty one, so an entry count is all   *)
(* there is to the file.                                                   *)
(*                                                                         *)
(* The histories follow what the cap rests on.  They move with what the    *)
(* processes do to the file and never with what it has come to lack:       *)
(*   - the whole log is lost when a process that has emptied it leaves     *)
(*     without writing it, when another reads it in between in order to    *)
(*     write it, or when two texts of different length are written over    *)
(*     each other;                                                         *)
(*   - a slip leaves one transaction out: it was never written down, its   *)
(*     entry was added while another process held an older copy it would   *)
(*     write, or its gate had read the emptied file.                       *)
(***************************************************************************)
EXTENDS Naturals, FiniteSets

CONSTANTS
  Procs,     \* trading processes
  Fragile,   \* those an exception in fire ends
  GasCap,    \* daily_gas_cap_usd, in transactions
  MaxShots   \* bound of the transactions sent

ASSUME WalletAssumption ==
  /\ IsFiniteSet(Procs) /\ Fragile \subseteq Procs
  /\ GasCap \in Nat \ {0} /\ MaxShots \in Nat

VARIABLES
  kill,      \* run/KILL exists
  gasLog,    \* entries of run/live_gas_log.json
  stage,     \* where each process is in fire
  seen,      \* entries record_gas_spend of each process has read
  burnt,     \* history: transactions sent
  gone,      \* history: those sent before the whole log was last lost
  slips,     \* history: those sent since that the log may leave out
  deceived,  \* history: processes whose gate has read an emptied log
  late       \* history: processes that have sent one since KILL was created

logVars == <<gasLog, seen, burnt, gone, slips, deceived>>
walletVars == <<kill, stage, late, logVars>>

Stages == {"down", "idle", "armed", "sent", "read", "writing", "waiting"}

(* The files and the places of the processes keep their shape.              *)
WalletTypeOK ==
  /\ kill \in BOOLEAN
  /\ gasLog \in Nat /\ burnt \in Nat /\ gone \in 0..burnt /\ slips \in Nat
  /\ stage \in [Procs -> Stages]
  /\ seen \in [Procs -> Nat]
  /\ deceived \subseteq Procs /\ late \subseteq Procs

WalletInit ==
  /\ kill = FALSE /\ gasLog = 0
  /\ stage = [p \in Procs |-> "down"] /\ seen = [p \in Procs |-> 0]
  /\ burnt = 0 /\ gone = 0 /\ slips = 0 /\ deceived = {} /\ late = {}

Armed == {p \in Procs : stage[p] = "armed"}

(* Sent, but not yet in the log; and those who hold a copy to write back.   *)
Unlogged == {p \in Procs : stage[p] \in {"sent", "read", "writing"}}
Rewriting == {p \in Procs : stage[p] \in {"read", "writing"}}

(* Between write_text's truncation and its write the file is empty.         *)
Emptied == gasLog = 0 /\ \E p \in Procs : stage[p] = "writing"

Goto(p, there) == stage' = [stage EXCEPT ![p] = there]

LosesLog == gone' = burnt /\ slips' = 0
Slips(n) == gone' = gone /\ slips' = slips + n

-----------------------------------------------------------------------------
(* The operator creates or removes run/KILL.                                *)
SwitchKill ==
  /\ kill' = ~ kill /\ late' = {}
  /\ UNCHANGED <<stage, logVars>>

(* main() of a process begins.                                              *)
StartProcess(p) ==
  /\ stage[p] = "down"
  /\ Goto(p, "idle")
  /\ UNCHANGED <<kill, late, logVars>>

ReadLog(p) ==
  deceived' = IF Emptied THEN deceived \cup {p} ELSE deceived \ {p}

(* Faulty variant: the gate does not look for run/KILL. *)
GateWithoutKill(p) ==
  /\ gasLog < GasCap
  /\ Goto(p, "armed") /\ ReadLog(p)
  /\ UNCHANGED <<kill, gasLog, seen, burnt, gone, slips, late>>

(* check_gate lets a candidate pass that nets enough.  Its limit on the     *)
(* notional never bites: no caller fills in notional_usd.  The look for    *)
(* run/KILL and the one at the log are a step: a switch between the two    *)
(* has the effect of one just after the second.                            *)
CheckGate(p) ==
  /\ ~ kill
  /\ gasLog < GasCap
  /\ Goto(p, "armed") /\ ReadLog(p)
  /\ UNCHANGED <<kill, gasLog, seen, burnt, gone, slips, late>>

(* An exception of fire ends the trader; the loops of the two others catch  *)
(* it and go on.                                                           *)
AfterError(p) == IF p \in Fragile THEN "down" ELSE "idle"

(* What a process had read is gone when it leaves record_gas_spend, and how *)
(* it passed the gate when it leaves fire.                                 *)
Forget(p) == seen' = [seen EXCEPT ![p] = 0]
Through(p) == deceived' = deceived \ {p}

(* An exception or the end of a process leaves fire where it stands.        *)
Leave(p) ==
  /\ Forget(p) /\ Through(p)
  /\ \/ stage[p] \in {"idle", "armed", "waiting"} /\ Slips(0)
     \/ stage[p] \in {"sent", "read"} /\ Slips(1)
     \/ stage[p] = "writing" /\ LosesLog

(* send_raw_transaction; it may raise although the node took the            *)
(* transaction, when a retry of the same bytes is refused as known.        *)
Broadcast(p) ==
  /\ stage[p] = "armed" /\ burnt < MaxShots
  /\ \/ Goto(p, "sent")
     \/ Goto(p, AfterError(p))
  /\ burnt' = burnt + 1
  /\ slips' = IF p \in deceived \/ stage'[p] # "sent" THEN slips + 1 ELSE slips
  /\ late' = IF kill THEN late \cup {p} ELSE late
  /\ Through(p)
  /\ UNCHANGED <<kill, gasLog, seen, gone>>

(* fire returns without sending: no price, or the estimate failed.  The     *)
(* caller cools down all the same.                                         *)
GiveUp(p) ==
  /\ stage[p] = "armed"
  /\ Goto(p, "waiting") /\ Through(p)
  /\ UNCHANGED <<kill, gasLog, seen, burnt, gone, slips, late>>

(* Steps that cannot be built, a key, nonce or gas price that cannot be     *)
(* read, a log file that cannot be written, a poll for the receipt that    *)
(* fails, a full disk.                                                     *)
FireRaises(p) ==
  /\ stage[p] \in {"armed", "sent", "read", "writing", "waiting"}
  /\ Goto(p, AfterError(p)) /\ Leave(p)
  /\ UNCHANGED <<kill, gasLog, burnt, late>>

(* record_gas_spend reads the file, ...                                     *)
LoadGasLog(p) ==
  /\ stage[p] = "sent"
  /\ Goto(p, "read")
  /\ seen' = [seen EXCEPT ![p] = gasLog]
  /\ IF Emptied THEN LosesLog ELSE Slips(0)
  /\ UNCHANGED <<kill, gasLog, burnt, deceived, late>>

(* ... empties it, ...                                                      *)
TruncateGasLog(p) ==
  /\ stage[p] = "read"
  /\ Goto(p, "writing")
  /\ gasLog' = 0
  /\ UNCHANGED <<kill, seen, burnt, gone, slips, deceived, late>>

Rewritten(p) ==
  /\ stage[p] = "writing"
  /\ Goto(p, "waiting") /\ Forget(p)
  /\ UNCHANGED <<kill, burnt, deceived, late>>

(* Faulty variant: the entry is appended to a list that is not written. *)
RewriteWithoutEntry(p) ==
  /\ Rewritten(p)
  /\ gasLog <= seen[p] + 1
  /\ gasLog' = seen[p]
  /\ Slips(Cardinality(Rewriting \ {p}))

(* ... and writes what it has read and one entry more.  Whoever has read    *)
(* the file and not yet written it will write over that entry.             *)
RewriteGasLog(p) ==
  /\ Rewritten(p)
  /\ gasLog <= seen[p] + 1
  /\ gasLog' = seen[p] + 1
  /\ Slips(Cardinality(Rewriting \ {p}))

(* Over a text that another has written meanwhile and that is longer, the   *)
(* rest of the latter stays, and the file is no JSON any more.             *)
GarbleGasLog(p) ==
  /\ Rewritten(p)
  /\ gasLog >= seen[p] + 1
  /\ gasLog' = 0
  /\ LosesLog

(* The receipt or none after three minutes, and the pause that follows.     *)
CoolDown(p) ==
  /\ stage[p] = "waiting"
  /\ Goto(p, "idle")
  /\ UNCHANGED <<kill, late, logVars>>

FireStep(p) ==
  \/ GiveUp(p) \/ FireRaises(p) \/ LoadGasLog(p) \/ TruncateGasLog(p)
  \/ RewriteGasLog(p) \/ GarbleGasLog(p) \/ CoolDown(p)

(* A process ends at any point; a file it was writing stays as it is.       *)
Die(p) ==
  /\ stage[p] # "down"
  /\ Goto(p, "down") /\ Leave(p)
  /\ UNCHANGED <<kill, gasLog, burnt, late>>

WalletMove(p) ==
  \/ StartProcess(p)
  \/ stage[p] = "idle" /\ CheckGate(p)
  \/ Broadcast(p)
  \/ FireStep(p)
  \/ Die(p)

WalletNext == SwitchKill \/ \E p \in Procs : WalletMove(p)

WalletSpec == WalletInit /\ [][WalletNext]_walletVars

-----------------------------------------------------------------------------
(* How far the daily cap can be exceeded.  As long as the log is not lost   *)
(* as a whole, the transactions sent, and those about to be sent by gates  *)
(* that read a true log, stay below the cap, one for each process (they    *)
(* may all be past the gate, or on their way to the log, when another      *)
(* reads it), and one for each slip.                                       *)
GasCapOvershoot ==
  burnt - gone + Cardinality(Armed \ deceived) < GasCap + Cardinality(Procs) + slips

(* While run/KILL exists a process sends at most the one transaction whose  *)
(* gate had opened before.                                                 *)
KillStopsFiring == kill => \A p \in late : stage[p] # "armed"
=============================================================================
