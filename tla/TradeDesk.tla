------------------------------ MODULE TradeDesk ------------------------------
(***************************************************************************)
(* The processes that trade with the hot wallet: live_trader follows the   *)
(* rows the swarm writes to the ledger, newpool_sniper the pool creations  *)
(* of every block, swap_watcher the swaps of known pools.  Each keeps its  *)
(* place in a way of its own: the newest row when it starts, a cursor file *)
(* written after the work, nothing at all.  They share HotWallet.          *)
(***************************************************************************)
EXTENDS HotWallet, Sequences

CONSTANTS
  MaxHead,    \* bound of the block height
  MaxRows,    \* bound of the PASS rows written
  Staleness,  \* BLOCK_STALENESS
  Warmup      \* blocks the sniper looks back without a cursor

ASSUME DeskAssumption ==
  /\ Procs = {"trader", "sniper", "watcher"}
  /\ MaxHead \in Nat /\ MaxRows \in Nat /\ Staleness \in Nat /\ Warmup \in Nat

VARIABLES
  head,     \* block height
  rows,     \* PASS rows of the ledger: kind and block
  lastId,   \* last_id of the trader
  upto,     \* the newest row of its last query
  shots,    \* history: transactions sent for each row
  scan,     \* where the sniper's loop is
  cursor,   \* its last_block
  saved,    \* last_block in its state file; 0 when that cannot be read
  target,   \* the head its current range ends with
  queue,    \* blocks of that range with a pool creation not yet handled
  told      \* history: blocks handled, reported as lost, or waived at the start

traderVars == <<lastId, upto, shots>>
sniperVars == <<scan, cursor, saved, target, queue, told>>
chainVars == <<head, rows>>
vars == <<walletVars, traderVars, sniperVars, chainVars>>

(* A row of a two-pool cycle, one whose net the gate finds too small (a     *)
(* liquidation has it under another name), one of another shape.           *)
RowKinds == {"cycle", "thin", "multidex"}

Init ==
  /\ WalletInit
  /\ head = 1 /\ rows = <<>>
  /\ lastId = 0 /\ upto = 0 /\ shots = [r \in 1..MaxRows |-> 0]
  /\ scan = "poll" /\ cursor = 0 /\ saved = 0 /\ target = 0 /\ queue = {}
  /\ told = {}

-----------------------------------------------------------------------------
NewBlock ==
  /\ head < MaxHead
  /\ head' = head + 1
  /\ UNCHANGED <<walletVars, traderVars, sniperVars, rows>>

(* The swarm records a candidate of the current block.                      *)
RecordPass ==
  /\ Len(rows) < MaxRows
  /\ \E kind \in RowKinds : rows' = Append(rows, [kind |-> kind, block |-> head])
  /\ UNCHANGED <<walletVars, traderVars, sniperVars, head>>

-----------------------------------------------------------------------------
(* Faulty variant: a restarted trader takes up the rows it finds. *)
StartFromOldest ==
  /\ StartProcess("trader")
  /\ lastId' = 0 /\ upto' = 0
  /\ UNCHANGED shots

(* live_trader.main begins after the newest row there is.                   *)
StartTrader ==
  /\ StartProcess("trader")
  /\ lastId' = Len(rows) /\ upto' = Len(rows)
  /\ UNCHANGED shots

QueryLedger ==
  /\ stage["trader"] = "idle" /\ lastId = upto
  /\ upto' = Len(rows)
  /\ UNCHANGED <<walletVars, lastId, shots>>

Stale(row) == head - row.block > Staleness

(* The next row is given up when it is stale or the gate refuses it.        *)
TakeRow ==
  /\ stage["trader"] = "idle" /\ lastId < upto
  /\ lastId' = lastId + 1
  /\ \/ UNCHANGED walletVars
     \/ ~ Stale(rows[lastId']) /\ rows[lastId'].kind # "thin" /\ CheckGate("trader")
  /\ UNCHANGED <<upto, shots>>

(* A row of another shape has no pools from which to build steps.           *)
FireRow ==
  /\ stage["trader"] = "armed" /\ rows[lastId].kind = "cycle"
  /\ Broadcast("trader")
  /\ shots' = [shots EXCEPT ![lastId] = @ + 1]
  /\ UNCHANGED <<lastId, upto>>

TraderStep ==
  /\ \/ StartTrader \/ QueryLedger \/ TakeRow \/ FireRow
     \/ FireStep("trader") /\ UNCHANGED traderVars
  /\ UNCHANGED <<sniperVars, chainVars>>

-----------------------------------------------------------------------------
(* newpool_sniper.main takes up its cursor, or looks back a little.         *)
StartSniper ==
  LET from == IF saved # 0 THEN saved ELSE IF head > Warmup THEN head - Warmup ELSE 0
  IN /\ StartProcess("sniper")
     /\ scan' = "poll" /\ cursor' = from /\ queue' = {} /\ target' = 0
     /\ told' = IF saved # 0 THEN told ELSE told \cup 1..from
     /\ UNCHANGED saved

SniperIdle == stage["sniper"] = "idle"

(* The pool creations of all blocks since the cursor, or none of them: then *)
(* the range is named in the event log and passed over.  The head and the  *)
(* logs come from two nodes; that the second has every block up to the     *)
(* head of the first is assumed, and nothing in the code makes sure of it. *)
FetchPools ==
  LET range == (cursor + 1)..head
  IN /\ SniperIdle /\ scan = "poll" /\ head > cursor
     /\ scan' = "handle" /\ target' = head
     /\ queue' \in SUBSET range
     /\ told' = told \cup (range \ queue')
     /\ UNCHANGED <<walletVars, cursor, saved>>

(* handle_pool: most creations are nothing to trade on, and its exceptions  *)
(* are caught for each of them.                                            *)
HandlePool ==
  /\ SniperIdle /\ scan = "handle"
  /\ \E b \in queue :
       /\ \A c \in queue : b <= c
       /\ queue' = queue \ {b}
       /\ told' = told \cup {b}
  /\ UNCHANGED walletVars \/ CheckGate("sniper")
  /\ UNCHANGED <<scan, cursor, saved, target>>

(* Faulty variant: the cursor moves to the head as it is by now. *)
AdvanceToHead ==
  /\ SniperIdle /\ scan = "handle" /\ queue = {}
  /\ scan' = "save" /\ cursor' = head /\ saved' = 0
  /\ UNCHANGED <<walletVars, target, queue, told>>

(* The cursor moves, and save_state empties its file ...                    *)
AdvanceCursor ==
  /\ SniperIdle /\ scan = "handle" /\ queue = {}
  /\ scan' = "save" /\ cursor' = target /\ saved' = 0
  /\ UNCHANGED <<walletVars, target, queue, told>>

(* ... before it writes it.                                                 *)
SaveState ==
  /\ SniperIdle /\ scan = "save"
  /\ scan' = "poll" /\ saved' = cursor /\ target' = 0
  /\ UNCHANGED <<walletVars, cursor, queue, told>>

(* loop_error: what was fetched is given up, the cursor stays where it is.  *)
LoopError ==
  /\ SniperIdle /\ scan \in {"handle", "save"}
  /\ scan' = "poll" /\ queue' = {} /\ target' = 0
  /\ UNCHANGED <<walletVars, cursor, saved, told>>

SniperStep ==
  /\ \/ StartSniper \/ FetchPools \/ HandlePool \/ AdvanceCursor \/ SaveState
     \/ LoopError
     \/ (Broadcast("sniper") \/ FireStep("sniper")) /\ UNCHANGED sniperVars
  /\ UNCHANGED <<traderVars, chainVars>>

-----------------------------------------------------------------------------
(* swap_watcher.main: last prices, evaluation times and its block cursor    *)
(* are gone when it ends, and no swap it misses is looked for again.       *)
StartWatcher == StartProcess("watcher")

(* A swap that moves a pool far enough from its companions, that can be     *)
(* quoted and nets enough: which swaps do is left open.                    *)
SeeSwap == stage["watcher"] = "idle" /\ CheckGate("watcher")

WatcherStep ==
  /\ StartWatcher \/ SeeSwap \/ Broadcast("watcher") \/ FireStep("watcher")
  /\ UNCHANGED <<traderVars, sniperVars, chainVars>>

-----------------------------------------------------------------------------
Operator == SwitchKill /\ UNCHANGED <<traderVars, sniperVars, chainVars>>

Crash ==
  /\ \E p \in Procs : Die(p)
  /\ UNCHANGED <<traderVars, sniperVars, chainVars>>

Next ==
  \/ NewBlock \/ RecordPass \/ TraderStep \/ SniperStep \/ WatcherStep
  \/ Operator \/ Crash

Spec == Init /\ [][Next]_vars

-----------------------------------------------------------------------------
(* No row of the ledger is paid for twice, however often the trader dies    *)
(* and is started again while the row is still fresh.                      *)
RowFiredOnce == \A r \in 1..MaxRows : shots[r] <= 1

(* The sniper's cursor never passes a block in silence: its creations were  *)
(* handled, or their loss was reported, or they lay before a start without *)
(* a cursor.  The same holds of the cursor a restart finds in the file.    *)
NothingSkippedSilently ==
  /\ stage["sniper"] # "down" => 1..cursor \subseteq told
  /\ 1..saved \subseteq told
=============================================================================
