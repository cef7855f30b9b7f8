---------------------------- MODULE WorkAllocator ----------------------------
(***************************************************************************)
(* One scan phase of the swarm (zero/swarm.py): the CEO deals a catalog to *)
(* per-worker queues, a bounded thread pool runs the workers, each worker  *)
(* loops take - claim - scan, an idle worker steals, and the CEO waits for *)
(* all of them.  The lease registry outlives the phase.                    *)
(*                                                                         *)
(* Workers are numbered in the order build_topology lists them, which in   *)
(* the shipped configuration is also the order of their ids.  A deque is   *)
(* only ever filled in catalog order and popped on the left, so it is the  *)
(* set of its routes, taken in catalog order.                              *)
(***************************************************************************)
EXTENDS Integers, Sequences, FiniteSets

CONSTANTS
  NumWorkers,         \* scanner workers
  NumRoutes,          \* canonical route ids
  PrimaryPair,        \* the token pair each worker is configured with
  RoutePair,          \* the (base, quote) pair of each route
  Blocks,             \* block numbers a cycle may be pinned to
  Catalogs,           \* catalogs discovery may return, duplicates included
  MaxRpcConcurrency,  \* threads of the worker pool
  WorkStealing,       \* the work_stealing switch
  MayRaise            \* workers whose loop may raise outside its try block

Worker == 1..NumWorkers
Route == 1..NumRoutes
Nobody == 0
NoRoute == 0
NoBlock == -1
Key == Blocks \X Route

ASSUME WorkAllocatorAssumption ==
  /\ NumWorkers \in Nat \ {0}
  /\ NumRoutes \in Nat
  /\ Blocks \subseteq Nat
  /\ Catalogs \subseteq Seq(Route)
  /\ MaxRpcConcurrency \in Nat \ {0}
  /\ WorkStealing \in BOOLEAN
  /\ MayRaise \subseteq Worker

VARIABLES
  block,      \* the block the cycle is pinned to
  catalog,    \* the catalog as discovery returned it
  primary,    \* WorkAllocator._primary: the routes left in each worker's queue
  overflow,   \* WorkAllocator._overflow: routes no worker's pair covers
  pc,         \* where each worker's thread is
  hand,       \* the route a worker has taken and not finished with
  outcome,    \* what each worker's loop has accumulated locally
  leases,     \* RouteLeaseRegistry._leases
  scans       \* history: scans of each key since its lease last expired

allocVars == <<block, catalog, primary, overflow, pc, hand, outcome, leases, scans>>
queueVars == <<block, catalog, primary, overflow>>

(* The dict a worker's loop returns; each counter is kept as the routes it *)
(* counts.                                                                 *)
Outcome == [scanned: SUBSET Route, duplicates: SUBSET Route, rows: SUBSET Route,
            profitable: SUBSET Route, errors: SUBSET Route]
NoOutcome == [scanned |-> {}, duplicates |-> {}, rows |-> {},
              profitable |-> {}, errors |-> {}]

PcState == {"idle", "queued", "next", "claim", "scan", "returned", "raised"}
Busy == {"next", "claim", "scan"}
Over == {"returned", "raised"}

-----------------------------------------------------------------------------
(* Dealing a catalog. *)

Listed(cat) == {cat[i] : i \in DOMAIN cat}

(* _dedupe_routes keeps the first occurrence of each id. *)
Position(cat, r) ==
  CHOOSE i \in DOMAIN cat : cat[i] = r /\ \A j \in DOMAIN cat : cat[j] = r => i <= j

Owners(r) == {w \in Worker : PrimaryPair[w] = RoutePair[r]}

(* The routes of r's pair dealt before r: the running index of that pair. *)
PairIndex(cat, r) ==
  Cardinality({s \in Listed(cat) : /\ RoutePair[s] = RoutePair[r]
                                   /\ Position(cat, s) < Position(cat, r)})

DealtTo(cat, r) ==
  CHOOSE w \in Owners(r) :
    Cardinality({v \in Owners(r) : v < w}) = PairIndex(cat, r) % Cardinality(Owners(r))

OverflowOf(cat) == {r \in Listed(cat) : Owners(r) = {}}
DealtQueue(cat, w) == {r \in Listed(cat) \ OverflowOf(cat) : DealtTo(cat, r) = w}

(* popleft *)
Earliest(r, queue) == \A s \in queue : Position(catalog, r) <= Position(catalog, s)

(* Faulty variants stand before the definition they spoil: each is the     *)
(* mistake its comment names, and a property must be seen to fail with it. *)

(* Faulty variant: a donor's last route is left alone. *)
DonorsKeepingOne(w) == {d \in Worker \ {w} : Cardinality(primary[d]) > 1}

(* Workers with something to steal, and the one with the longest queue,    *)
(* the smallest id breaking a tie.                                         *)
Donors(w) == {d \in Worker \ {w} : primary[d] # {}}
BestDonor(d, w) ==
  \A e \in Donors(w) :
    LET deep(x) == Cardinality(primary[x])
    IN  deep(d) > deep(e) \/ (deep(d) = deep(e) /\ d <= e)

-----------------------------------------------------------------------------
(* The CEO thread. *)

AllocInit ==
  /\ block = NoBlock
  /\ catalog = <<>>
  /\ primary = [w \in Worker |-> {}]
  /\ overflow = {}
  /\ pc = [w \in Worker |-> "idle"]
  /\ hand = [w \in Worker |-> NoRoute]
  /\ outcome = [w \in Worker |-> NoOutcome]
  /\ leases = [k \in Key |-> Nobody]
  /\ scans = [k \in Key |-> 0]

AllIdle == \A w \in Worker : pc[w] = "idle"
(* Faulty variant: the join waits for a result, which a worker that raised *)
(* never delivers.                                                         *)
AllReturned == \A w \in Worker : pc[w] = "returned"

AllOver == \A w \in Worker : pc[w] \in Over

(* run_block dedupes the catalog, builds the allocator over the lasting    *)
(* lease registry and submits one task per worker.                         *)
Dispatch(b, cat) ==
  /\ AllIdle
  /\ block' = b
  /\ catalog' = cat
  /\ primary' = [w \in Worker |-> DealtQueue(cat, w)]
  /\ overflow' = OverflowOf(cat)
  /\ pc' = [w \in Worker |-> "queued"]
  /\ UNCHANGED <<hand, outcome, leases, scans>>

(* Leaving the executor's with block: every future is done, and the        *)
(* allocator and the workers' local results go out of scope.               *)
Join ==
  /\ AllOver
  /\ pc' = [w \in Worker |-> "idle"]
  /\ catalog' = <<>>
  /\ primary' = [w \in Worker |-> {}]
  /\ overflow' = {}
  /\ hand' = [w \in Worker |-> NoRoute]
  /\ outcome' = [w \in Worker |-> NoOutcome]
  /\ UNCHANGED <<block, leases, scans>>

(* Faulty variant: leases expire while workers may still be scanning. *)
ExpireUnderWorkers ==
  /\ block # NoBlock
  /\ leases' = [k \in Key |-> IF k[1] < block + 1 THEN Nobody ELSE leases[k]]
  /\ scans' = [k \in Key |-> IF k[1] < block + 1 THEN 0 ELSE scans[k]]
  /\ UNCHANGED <<queueVars, pc, hand, outcome>>

(* RouteLeaseRegistry.expire_before(block + 1), at the end of a cycle. *)
ExpireLeases ==
  /\ AllIdle
  /\ block # NoBlock
  /\ leases' = [k \in Key |-> IF k[1] < block + 1 THEN Nobody ELSE leases[k]]
  /\ scans' = [k \in Key |-> IF k[1] < block + 1 THEN 0 ELSE scans[k]]
  /\ UNCHANGED <<queueVars, pc, hand, outcome>>

-----------------------------------------------------------------------------
(* The worker threads. *)

Goto(w, label) == pc' = [pc EXCEPT ![w] = label]

(* Faulty variant: a thread is never given back. *)
StartWithoutReuse(w) ==
  /\ pc[w] = "queued"
  /\ \A v \in Worker : v < w => pc[v] # "queued"
  /\ Cardinality({v \in Worker : pc[v] \in Busy \cup Over}) < MaxRpcConcurrency
  /\ Goto(w, "next")
  /\ UNCHANGED <<queueVars, hand, outcome, leases, scans>>

(* The executor starts tasks in submission order as threads come free. *)
Start(w) ==
  /\ pc[w] = "queued"
  /\ \A v \in Worker : v < w => pc[v] # "queued"
  /\ Cardinality({v \in Worker : pc[v] \in Busy}) < MaxRpcConcurrency
  /\ Goto(w, "next")
  /\ UNCHANGED <<queueVars, hand, outcome, leases, scans>>

Take(w, r) ==
  /\ hand' = [hand EXCEPT ![w] = r]
  /\ Goto(w, "claim")
  /\ UNCHANGED <<block, catalog, outcome, leases, scans>>

(* next_route, one lock-protected step in four outcomes. *)
TakeOwn(w) ==
  /\ pc[w] = "next"
  /\ \E r \in primary[w] :
       /\ Earliest(r, primary[w])
       /\ primary' = [primary EXCEPT ![w] = @ \ {r}]
       /\ Take(w, r)
  /\ UNCHANGED overflow

TakeOverflow(w) ==
  /\ pc[w] = "next"
  /\ primary[w] = {}
  /\ WorkStealing
  /\ \E r \in overflow :
       /\ Earliest(r, overflow)
       /\ overflow' = overflow \ {r}
       /\ Take(w, r)
  /\ UNCHANGED primary

(* Faulty variant: the thief reads the donor's queue without popping it. *)
StealByPeeking(w) ==
  /\ pc[w] = "next"
  /\ primary[w] = {}
  /\ WorkStealing
  /\ overflow = {}
  /\ \E d \in Donors(w) : \E r \in primary[d] :
       BestDonor(d, w) /\ Earliest(r, primary[d]) /\ Take(w, r)
  /\ UNCHANGED <<primary, overflow>>

Steal(w) ==
  /\ pc[w] = "next"
  /\ primary[w] = {}
  /\ WorkStealing
  /\ overflow = {}
  /\ \E d \in Donors(w) : \E r \in primary[d] :
       /\ BestDonor(d, w)
       /\ Earliest(r, primary[d])
       /\ primary' = [primary EXCEPT ![d] = @ \ {r}]
       /\ Take(w, r)
  /\ UNCHANGED overflow

(* Faulty variant: a worker goes home when its own queue is empty. *)
ReturnEarly(w) ==
  /\ pc[w] = "next"
  /\ primary[w] = {}
  /\ Goto(w, "returned")
  /\ UNCHANGED <<queueVars, hand, outcome, leases, scans>>

Return(w) ==
  /\ pc[w] = "next"
  /\ primary[w] = {}
  /\ WorkStealing => overflow = {} /\ Donors(w) = {}
  /\ Goto(w, "returned")
  /\ UNCHANGED <<queueVars, hand, outcome, leases, scans>>

(* Faulty variant: the lease is taken without looking at its owner. *)
ClaimUnchecked(w) ==
  /\ pc[w] = "claim"
  /\ leases' = [leases EXCEPT ![<<block, hand[w]>>] = w]
  /\ Goto(w, "scan")
  /\ UNCHANGED <<queueVars, hand, outcome, scans>>

(* RouteLeaseRegistry.claim: the key was free, and is now w's. *)
Claim(w) ==
  LET k == <<block, hand[w]>>
  IN  /\ pc[w] = "claim"
      /\ leases[k] = Nobody
      /\ leases' = [leases EXCEPT ![k] = w]
      /\ Goto(w, "scan")
      /\ UNCHANGED <<queueVars, hand, outcome, scans>>

(* Faulty variants: a duplicate is skipped without being counted, is       *)
(* counted after the worker's hand was emptied, or goes back in the queue. *)
SkipDuplicate(w) ==
  /\ pc[w] = "claim"
  /\ leases[<<block, hand[w]>>] # Nobody
  /\ hand' = [hand EXCEPT ![w] = NoRoute]
  /\ Goto(w, "next")
  /\ UNCHANGED <<queueVars, outcome, leases, scans>>

CountEmptyHand(w) ==
  /\ pc[w] = "claim"
  /\ leases[<<block, hand[w]>>] # Nobody
  /\ hand' = [hand EXCEPT ![w] = NoRoute]
  /\ outcome' = [outcome EXCEPT ![w].duplicates = @ \cup {hand'[w]}]
  /\ Goto(w, "next")
  /\ UNCHANGED <<queueVars, leases, scans>>

RetryDuplicate(w) ==
  /\ pc[w] = "claim"
  /\ leases[<<block, hand[w]>>] # Nobody
  /\ primary' = [primary EXCEPT ![w] = @ \cup {hand[w]}]
  /\ hand' = [hand EXCEPT ![w] = NoRoute]
  /\ Goto(w, "next")
  /\ UNCHANGED <<block, catalog, overflow, outcome, leases, scans>>

WithDuplicate(o, r) == [o EXCEPT !.duplicates = @ \cup {r}]

(* RouteLeaseRegistry.claim: the key is leased already; count a duplicate. *)
SuppressDuplicate(w) ==
  /\ pc[w] = "claim"
  /\ leases[<<block, hand[w]>>] # Nobody
  /\ outcome' = [outcome EXCEPT ![w] = WithDuplicate(@, hand[w])]
  /\ hand' = [hand EXCEPT ![w] = NoRoute]
  /\ Goto(w, "next")
  /\ UNCHANGED <<queueVars, leases, scans>>

ScanResults(o, r) ==
  LET ran == [o EXCEPT !.scanned = @ \cup {r}]
      priced == [ran EXCEPT !.rows = @ \cup {r}]
  IN  {ran,
       priced,
       [priced EXCEPT !.profitable = @ \cup {r}],
       [ran EXCEPT !.errors = @ \cup {r}]}

(* The scan gives no row, an unprofitable row or a profitable one, or it   *)
(* raises inside the try block and leaves an error record.  The lease      *)
(* stays in every case.                                                    *)
Scan(w) ==
  LET r == hand[w]
      k == <<block, r>>
  IN  /\ pc[w] = "scan"
      /\ \E result \in ScanResults(outcome[w], r) : outcome' = [outcome EXCEPT ![w] = result]
      /\ scans' = [scans EXCEPT ![k] = @ + 1]
      /\ hand' = [hand EXCEPT ![w] = NoRoute]
      /\ Goto(w, "next")
      /\ UNCHANGED <<queueVars, leases>>

(* next_route and claim run outside the try block: an exception there ends *)
(* the worker, and what it had accumulated is lost with its future.        *)
Raise(w) ==
  /\ w \in MayRaise
  /\ pc[w] \in {"next", "claim"}
  /\ Goto(w, "raised")
  /\ UNCHANGED <<queueVars, hand, outcome, leases, scans>>

RunWorker(w) ==
  \/ TakeOwn(w)
  \/ TakeOverflow(w)
  \/ Steal(w)
  \/ Return(w)
  \/ Claim(w)
  \/ SuppressDuplicate(w)
  \/ Scan(w)

WorkerStep(w) == Start(w) \/ RunWorker(w) \/ Raise(w)

AllocNext ==
  \/ \E b \in Blocks, cat \in Catalogs : Dispatch(b, cat)
  \/ Join
  \/ ExpireLeases
  \/ \E w \in Worker : WorkerStep(w)

AllocSpec == AllocInit /\ [][AllocNext]_allocVars

(* Threads are scheduled and every RPC call is bounded by a timeout and a  *)
(* retry count, so a worker that can move does.                            *)
WorkersFair == \A w \in Worker : WF_allocVars(Start(w)) /\ WF_allocVars(RunWorker(w))

FairAllocSpec == AllocSpec /\ WorkersFair

-----------------------------------------------------------------------------
(* Properties. *)

AllocTypeOK ==
  /\ block \in Blocks \cup {NoBlock}
  /\ catalog \in Seq(Route)
  /\ primary \in [Worker -> SUBSET Route]
  /\ overflow \in SUBSET Route
  /\ pc \in [Worker -> PcState]
  /\ hand \in [Worker -> Route \cup {NoRoute}]
  /\ outcome \in [Worker -> Outcome]
  /\ leases \in [Key -> Worker \cup {Nobody}]
  /\ scans \in [Key -> Nat]

Handled(w) == outcome[w].scanned \cup outcome[w].duplicates

(* No route is scanned twice at one block between two expiries of its      *)
(* lease: not by two workers, not after a steal, not by a second cycle at  *)
(* the same block (swarm.py claim; README "suppress duplicate scanning").  *)
ScannedOnce == \A k \in Key : scans[k] <= 1

(* Where a route of the running cycle is: a queue, a worker's hand, or a   *)
(* worker's results.                                                       *)
Places(r) ==
  {<<"queue", w>> : w \in {v \in Worker : r \in primary[v]}}
    \cup {<<"hand", w>> : w \in {v \in Worker : hand[v] = r}}
    \cup {<<"handled", w>> : w \in {v \in Worker : r \in Handled(v)}}
    \cup (IF r \in overflow THEN {<<"overflow", Nobody>>} ELSE {})

(* Dealing, taking, stealing and suppressing never copy a route: it is in  *)
(* at most one place, so two workers never hold the same route even        *)
(* before they ask for its lease (swarm.py next_route).                    *)
RouteInOnePlace == \A r \in Route : \A p, q \in Places(r) : p = q

(* Nor do they drop one: until the join each catalog route is somewhere,   *)
(* at worst in the hand or the lost results of a worker that raised.       *)
NoRouteDropped ==
  ~AllIdle => \A r \in Route : r \in Listed(catalog) <=> Places(r) # {}

(* A worker that went home left nothing it could have taken, although it   *)
(* looked at the queues at one moment and the others kept running: its own *)
(* queue is empty, and with stealing on so is everything else.             *)
NothingLeftBehind ==
  \A w \in Worker : pc[w] = "returned" =>
    /\ primary[w] = {}
    /\ WorkStealing => overflow = {} /\ \A v \in Worker : primary[v] = {}

(* What lies ahead of the workers of a running cycle: a route in a queue is *)
(* still to be taken, claimed and scanned, a task to be started and ended. *)
Queued == overflow \cup UNION {primary[w] : w \in Worker}
Held(stages) == {hand[w] : w \in {v \in Worker : pc[v] \in stages}}
Ahead ==
  ({"take"} \X Queued)
    \cup ({"claim"} \X (Queued \cup Held({"claim"})))
    \cup ({"scan"} \X (Queued \cup Held({"claim", "scan"})))
    \cup ({"start"} \X {w \in Worker : pc[w] = "queued"})
    \cup ({"end"} \X {w \in Worker : pc[w] \in {"queued"} \cup Busy})

(* No scan phase goes round in circles: whichever worker moves, and however *)
(* they steal from and suppress each other, every step between the deal and *)
(* the join leaves strictly less ahead of them all.                        *)
WorkRunsOut ==
  [][~ AllIdle /\ ~ AllIdle' => Ahead' \subseteq Ahead /\ Ahead' # Ahead]_allocVars

(* The bounded pool always drains: more workers than threads, a worker     *)
(* that dies or a queue nobody owns never leaves the CEO waiting.          *)
PoolDrains == \A w \in Worker : pc[w] # "idle" ~> pc[w] \in Over

(* With stealing on and a worker that survives, every catalog route        *)
(* reaches a worker, whatever its pair and however few threads the pool    *)
(* has: a worker that dies costs at most the one route it was holding.     *)
EveryRouteReached ==
  \A r \in Route :
    r \in Listed(catalog) ~>
      \E w \in Worker : r \in Handled(w) \/ (pc[w] = "raised" /\ hand[w] = r)

-----------------------------------------------------------------------------
(* Leases, and the keys scanned under them, implement RouteClaims. *)
Claims == INSTANCE RouteClaims
  WITH owner <- leases, visited <- {k \in Key : scans[k] > 0}

ImplementsRouteClaims == Claims!ClaimsSpec
=============================================================================
