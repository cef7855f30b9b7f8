------------------------- MODULE WorkAllocatorProofs -------------------------
(***************************************************************************)
(* Theorems about WorkAllocator, for any number of workers, routes, blocks *)
(* and threads, any assignment of pairs and any set of catalogs.           *)
(***************************************************************************)
EXTENDS WorkAllocator, TLAPS, FiniteSetTheorems, WellFoundedInduction

(* The routes a catalog lists are routes. *)
LEMMA ListedType == ASSUME NEW cat \in Seq(Route) PROVE Listed(cat) \subseteq Route
  BY DEF Listed

(* Every worker step is one of the nine: the case split of every proof.    *)
LEMMA NextCases ==
  AllocNext <=>
    \/ \E b \in Blocks, cat \in Catalogs : Dispatch(b, cat)
    \/ Join
    \/ ExpireLeases
    \/ \E w \in Worker : Start(w) \/ Return(w) \/ Raise(w)
    \/ \E w \in Worker : TakeOwn(w) \/ TakeOverflow(w) \/ Steal(w)
    \/ \E w \in Worker : Claim(w)
    \/ \E w \in Worker : SuppressDuplicate(w)
    \/ \E w \in Worker : Scan(w)
  BY DEF AllocNext, WorkerStep, RunWorker

-----------------------------------------------------------------------------
(* Type correctness.  On its own AllocTypeOK is not inductive: the results *)
(* of a worker stay routes because a worker that claims or scans has one   *)
(* in hand, at a block that was dispatched.                                *)

HandInv ==
  \A w \in Worker : pc[w] # "idle" =>
    /\ block \in Blocks
    /\ pc[w] \in {"claim", "scan"} => hand[w] \in Route

TypeInv == AllocTypeOK /\ HandInv

LEMMA ScanResultsType ==
  ASSUME NEW o \in Outcome, NEW r \in Route
  PROVE  ScanResults(o, r) \subseteq Outcome
<1> DEFINE ran == [o EXCEPT !.scanned = @ \cup {r}]
           priced == [ran EXCEPT !.rows = @ \cup {r}]
<1>1. ran \in Outcome
  BY DEF Outcome
<1>2. priced \in Outcome
  <2> HIDE DEF ran
  <2> QED BY <1>1 DEF Outcome
<1>3. /\ [priced EXCEPT !.profitable = @ \cup {r}] \in Outcome
      /\ [ran EXCEPT !.errors = @ \cup {r}] \in Outcome
  <2> HIDE DEF ran, priced
  <2> QED BY <1>1, <1>2 DEF Outcome
<1>4. QED BY <1>1, <1>2, <1>3 DEF ScanResults

LEMMA TypeInit == AllocInit => TypeInv
  BY WorkAllocatorAssumption
  DEF AllocInit, TypeInv, HandInv, AllocTypeOK, Nobody, NoRoute, NoOutcome, Outcome, PcState

LEMMA TypeNext == TypeInv /\ [AllocNext]_allocVars => TypeInv'
<1> SUFFICES ASSUME TypeInv, [AllocNext]_allocVars PROVE TypeInv'
  OBVIOUS
<1> USE DEF TypeInv, HandInv, AllocTypeOK, PcState, queueVars
<1>1. ASSUME NEW b \in Blocks, NEW cat \in Catalogs, Dispatch(b, cat)
      PROVE  TypeInv'
  <2>1. cat \in Seq(Route) /\ Listed(cat) \subseteq Route
    BY WorkAllocatorAssumption, ListedType
  <2>2. OverflowOf(cat) \subseteq Route /\ \A w \in Worker : DealtQueue(cat, w) \subseteq Route
    BY <2>1 DEF OverflowOf, DealtQueue
  <2>3. QED BY <1>1, <2>1, <2>2 DEF Dispatch
<1>2. CASE Join
  BY <1>2 DEF Join, NoOutcome, Outcome, NoRoute
<1>3. CASE ExpireLeases
  BY <1>3 DEF ExpireLeases, Nobody
<1>4. ASSUME NEW w \in Worker, Start(w) \/ Return(w) \/ Raise(w) PROVE TypeInv'
  BY <1>4 DEF Start, Return, Raise, Goto
<1>5. ASSUME NEW w \in Worker, TakeOwn(w) \/ TakeOverflow(w) \/ Steal(w)
      PROVE  TypeInv'
  <2>1. PICK r \in Route : Take(w, r)
    BY <1>5 DEF TakeOwn, TakeOverflow, Steal, Donors
  <2>2. primary' \in [Worker -> SUBSET Route] /\ overflow' \in SUBSET Route
    BY <1>5 DEF TakeOwn, TakeOverflow, Steal, Donors
  <2>3. pc[w] = "next"
    BY <1>5 DEF TakeOwn, TakeOverflow, Steal
  <2>4. QED BY <2>1, <2>2, <2>3 DEF Take, Goto
<1>6. ASSUME NEW w \in Worker, Claim(w) PROVE TypeInv'
  BY <1>6 DEF Claim, Goto
<1>7. ASSUME NEW w \in Worker, SuppressDuplicate(w) PROVE TypeInv'
  <2>1. PICK o \in Outcome : outcome' = [outcome EXCEPT ![w] = o]
    <3>1. WithDuplicate(outcome[w], hand[w]) \in Outcome
      BY <1>7 DEF SuppressDuplicate, WithDuplicate, Outcome
    <3>2. outcome' = [outcome EXCEPT ![w] = WithDuplicate(outcome[w], hand[w])]
      BY <1>7 DEF SuppressDuplicate
    <3>3. QED BY <3>1, <3>2
  <2>2. QED BY <1>7, <2>1 DEF SuppressDuplicate, Goto
<1>8. ASSUME NEW w \in Worker, Scan(w) PROVE TypeInv'
  <2>1. PICK o \in Outcome : outcome' = [outcome EXCEPT ![w] = o]
    BY <1>8, ScanResultsType DEF Scan
  <2>2. /\ hand' = [hand EXCEPT ![w] = NoRoute]
        /\ pc[w] = "scan" /\ pc' = [pc EXCEPT ![w] = "next"]
        /\ UNCHANGED <<block, catalog, primary, overflow, leases>>
    BY <1>8 DEF Scan, Goto
  <2>3. scans' \in [Key -> Nat]
    <3>1. <<block, hand[w]>> \in Key
      BY <1>8 DEF Scan, Key
    <3>2. scans' = [scans EXCEPT ![<<block, hand[w]>>] = @ + 1]
      BY <1>8 DEF Scan
    <3>3. QED BY <3>1, <3>2
  <2>4. QED BY <2>1, <2>2, <2>3
<1>9. CASE UNCHANGED allocVars
  BY <1>9 DEF allocVars
<1>10. QED
  BY <1>1, <1>2, <1>3, <1>4, <1>5, <1>6, <1>7, <1>8, <1>9, NextCases

(* The state of the allocator, its workers and the lease registry is       *)
(* always well formed.                                                     *)
THEOREM TypeCorrect == AllocSpec => []AllocTypeOK
  <1>1. AllocSpec => []TypeInv
  BY TypeInit, TypeNext, PTL DEF AllocSpec
<1>2. TypeInv => AllocTypeOK
  BY DEF TypeInv
<1>3. QED BY <1>1, <1>2, PTL

-----------------------------------------------------------------------------
(* No route is scanned twice under one lease.  ScannedOnce needs to know    *)
(* that a key nobody holds has not been scanned, and that a worker about    *)
(* to scan holds the lease of its key and has not used it yet.              *)

FreeUnscanned == \A k \in Key : leases[k] = Nobody => scans[k] = 0

ScannerHolds ==
  \A w \in Worker : pc[w] = "scan" =>
    leases[<<block, hand[w]>>] = w /\ scans[<<block, hand[w]>>] = 0

LeaseInv == ScannedOnce /\ FreeUnscanned /\ ScannerHolds

LEMMA LeaseInit == AllocInit => LeaseInv
  BY DEF AllocInit, LeaseInv, ScannedOnce, FreeUnscanned, ScannerHolds

(* The key of a worker that claims or scans is a key. *)
LEMMA KeyOfHand ==
  ASSUME TypeInv, NEW w \in Worker, pc[w] \in {"claim", "scan"}
  PROVE  <<block, hand[w]>> \in Key
  BY DEF TypeInv, HandInv, Key

LEMMA LeaseNext == TypeInv /\ LeaseInv /\ [AllocNext]_allocVars => LeaseInv'
<1> SUFFICES ASSUME TypeInv, LeaseInv, [AllocNext]_allocVars PROVE LeaseInv'
  OBVIOUS
<1> USE DEF LeaseInv, queueVars
<1> USE DEF ScannedOnce, FreeUnscanned, ScannerHolds
<1>a. /\ pc \in [Worker -> PcState] /\ leases \in [Key -> Worker \cup {Nobody}]
      /\ scans \in [Key -> Nat]
  BY DEF TypeInv, AllocTypeOK
<1>1. ASSUME NEW b \in Blocks, NEW cat \in Catalogs, Dispatch(b, cat)
      PROVE  LeaseInv'
  BY <1>1, <1>a DEF Dispatch
<1>2. CASE Join
  BY <1>2, <1>a DEF Join
<1>3. CASE ExpireLeases
  BY <1>3, <1>a DEF ExpireLeases, AllIdle
<1>4. ASSUME NEW w \in Worker, Start(w) \/ Return(w) \/ Raise(w) PROVE LeaseInv'
  BY <1>4, <1>a DEF Start, Return, Raise, Goto
<1>5. ASSUME NEW w \in Worker, TakeOwn(w) \/ TakeOverflow(w) \/ Steal(w)
      PROVE  LeaseInv'
  <2>1. PICK r : Take(w, r)
    BY <1>5 DEF TakeOwn, TakeOverflow, Steal
  <2>2. QED
    <3>1. /\ pc' = [pc EXCEPT ![w] = "claim"]
          /\ \A v \in Worker : v # w => hand'[v] = hand[v]
          /\ UNCHANGED <<block, leases, scans>>
      BY <2>1 DEF Take, Goto, TypeInv, AllocTypeOK
    <3>2. QED BY <3>1, <1>a
<1>6. ASSUME NEW w \in Worker, Claim(w) PROVE LeaseInv'
  <2>1. <<block, hand[w]>> \in Key
    BY <1>6, KeyOfHand DEF Claim
  <2>2. /\ leases[<<block, hand[w]>>] = Nobody
        /\ leases' = [leases EXCEPT ![<<block, hand[w]>>] = w]
        /\ pc' = [pc EXCEPT ![w] = "scan"]
        /\ UNCHANGED <<block, hand, scans>>
    BY <1>6 DEF Claim, Goto
  <2>3. scans[<<block, hand[w]>>] = 0
    BY <2>1, <2>2
  <2>4. FreeUnscanned'
    BY <2>1, <2>2, <1>a
  <2>5. ScannerHolds'
    <3> SUFFICES ASSUME NEW v \in Worker, pc'[v] = "scan"
                 PROVE  leases'[<<block, hand[v]>>] = v /\ scans[<<block, hand[v]>>] = 0
      BY <2>2
    <3>1. CASE v = w
      BY <3>1, <2>1, <2>2, <2>3, <1>a
    <3>2. CASE v # w
      <4>1. pc[v] = "scan" /\ leases[<<block, hand[v]>>] = v
        BY <3>2, <2>2, <1>a
      <4>2. leases[<<block, hand[v]>>] # Nobody
        BY <4>1 DEF Worker, Nobody
      <4>3. QED BY <4>1, <4>2, <2>1, <2>2, <1>a, KeyOfHand
    <3>3. QED BY <3>1, <3>2
  <2>6. QED BY <2>2, <2>4, <2>5
<1>7. ASSUME NEW w \in Worker, SuppressDuplicate(w) PROVE LeaseInv'
  <2>1. /\ pc' = [pc EXCEPT ![w] = "next"]
        /\ \A v \in Worker : v # w => hand'[v] = hand[v]
        /\ UNCHANGED <<block, leases, scans>>
    BY <1>7 DEF SuppressDuplicate, Goto, TypeInv, AllocTypeOK
  <2>2. QED BY <2>1, <1>a
<1>8. ASSUME NEW w \in Worker, Scan(w) PROVE LeaseInv'
  <2> DEFINE k == <<block, hand[w]>>
  <2>1. /\ k \in Key /\ leases[k] = w /\ scans[k] = 0
        /\ scans' = [scans EXCEPT ![k] = @ + 1]
        /\ pc' = [pc EXCEPT ![w] = "next"]
        /\ \A v \in Worker : v # w => hand'[v] = hand[v]
        /\ UNCHANGED <<block, leases>>
    BY <1>8, KeyOfHand DEF Scan, Goto, TypeInv, AllocTypeOK
  <2> HIDE DEF k
  <2>2. w # Nobody
    BY DEF Worker, Nobody
  <2>3. ScannedOnce' /\ FreeUnscanned'
    BY <2>1, <2>2, <1>a
  <2>4. ScannerHolds'
    <3> SUFFICES ASSUME NEW v \in Worker, pc'[v] = "scan"
                 PROVE  leases[<<block, hand'[v]>>] = v /\ scans'[<<block, hand'[v]>>] = 0
      BY <2>1
    <3>1. v # w /\ pc[v] = "scan" /\ hand'[v] = hand[v]
      BY <2>1, <1>a
    <3>2. leases[<<block, hand[v]>>] = v /\ scans[<<block, hand[v]>>] = 0
      BY <3>1
    <3>3. <<block, hand[v]>> # k
      BY <2>1, <3>1, <3>2
    <3>4. QED BY <3>1, <3>2, <3>3, <2>1, <1>a, KeyOfHand
  <2>5. QED BY <2>3, <2>4
<1>9. CASE UNCHANGED allocVars
  BY <1>9 DEF allocVars
<1>10. QED
  BY <1>1, <1>2, <1>3, <1>4, <1>5, <1>6, <1>7, <1>8, <1>9, NextCases

(* A (block, route) key is scanned at most once between two expiries of    *)
(* its lease, however routes were dealt, stolen or retried.                *)
THEOREM ScannedOnceHolds == AllocSpec => []ScannedOnce
<1>1. AllocSpec => [](TypeInv /\ LeaseInv)
  BY TypeInit, TypeNext, LeaseInit, LeaseNext, PTL DEF AllocSpec
<1>2. LeaseInv => ScannedOnce
  BY DEF LeaseInv
<1>3. QED BY <1>1, <1>2, PTL

-----------------------------------------------------------------------------
(* A worker that went home left nothing behind.  The invariant is          *)
(* inductive as it stands: queues only shrink until the next dispatch.     *)

LEMMA LeftBehindInit == AllocInit => NothingLeftBehind
  BY DEF AllocInit, NothingLeftBehind

LEMMA LeftBehindNext ==
  TypeInv /\ NothingLeftBehind /\ [AllocNext]_allocVars => NothingLeftBehind'
<1> SUFFICES ASSUME TypeInv, NothingLeftBehind, [AllocNext]_allocVars
             PROVE  NothingLeftBehind'
  OBVIOUS
<1> USE DEF NothingLeftBehind, queueVars
<1>a. pc \in [Worker -> PcState] /\ primary \in [Worker -> SUBSET Route]
  BY DEF TypeInv, AllocTypeOK
<1>1. ASSUME NEW b \in Blocks, NEW cat \in Catalogs, Dispatch(b, cat)
      PROVE  NothingLeftBehind'
  BY <1>1 DEF Dispatch
<1>2. CASE Join
  BY <1>2 DEF Join
<1>3. CASE ExpireLeases
  BY <1>3 DEF ExpireLeases
<1>4. ASSUME NEW w \in Worker, Start(w) \/ Return(w) \/ Raise(w)
      PROVE  NothingLeftBehind'
  <2>1. CASE Return(w)
    <3>1. /\ primary[w] = {}
          /\ WorkStealing => overflow = {} /\ \A v \in Worker : primary[v] = {}
      BY <2>1 DEF Return, Donors
    <3>2. pc' = [pc EXCEPT ![w] = "returned"] /\ UNCHANGED <<primary, overflow>>
      BY <2>1 DEF Return, Goto
    <3>3. QED BY <3>1, <3>2, <1>a
  <2>2. CASE Start(w) \/ Raise(w)
    BY <2>2, <1>a DEF Start, Raise, Goto
  <2>3. QED BY <1>4, <2>1, <2>2
<1>5. ASSUME NEW w \in Worker, TakeOwn(w) \/ TakeOverflow(w) \/ Steal(w)
      PROVE  NothingLeftBehind'
  <2>1. \A v \in Worker : primary'[v] \subseteq primary[v]
    BY <1>5, <1>a DEF TakeOwn, TakeOverflow, Steal
  <2>2. overflow' \subseteq overflow
    BY <1>5 DEF TakeOwn, TakeOverflow, Steal
  <2>3. pc' = [pc EXCEPT ![w] = "claim"]
    BY <1>5 DEF TakeOwn, TakeOverflow, Steal, Take, Goto
  <2>4. QED BY <2>1, <2>2, <2>3, <1>a
<1>6. ASSUME NEW w \in Worker, Claim(w) PROVE NothingLeftBehind'
  BY <1>6, <1>a DEF Claim, Goto
<1>7. ASSUME NEW w \in Worker, SuppressDuplicate(w) PROVE NothingLeftBehind'
  BY <1>7, <1>a DEF SuppressDuplicate, Goto
<1>8. ASSUME NEW w \in Worker, Scan(w) PROVE NothingLeftBehind'
  BY <1>8, <1>a DEF Scan, Goto
<1>9. CASE UNCHANGED allocVars
  BY <1>9 DEF allocVars
<1>10. QED
  BY <1>1, <1>2, <1>3, <1>4, <1>5, <1>6, <1>7, <1>8, <1>9, NextCases

(* A worker returns only from empty queues, and they stay empty for the    *)
(* rest of the phase: nothing a worker still running could strand.         *)
THEOREM NothingLeftBehindHolds == AllocSpec => []NothingLeftBehind
<1>1. AllocSpec => [](TypeInv /\ NothingLeftBehind)
  BY TypeInit, TypeNext, LeftBehindInit, LeftBehindNext, PTL DEF AllocSpec
<1>2. QED BY <1>1, PTL

-----------------------------------------------------------------------------
(* Leases implement RouteClaims: a claim leases a key, a scan visits it,   *)
(* the end of a cycle expires it, and everything else stutters.            *)

LEMMA ClaimsNextLemma ==
  TypeInv /\ LeaseInv /\ [AllocNext]_allocVars => [Claims!ClaimsNext]_(Claims!claimVars)
<1> SUFFICES ASSUME TypeInv, LeaseInv, [AllocNext]_allocVars
             PROVE  [Claims!ClaimsNext]_(Claims!claimVars)
  OBVIOUS
<1> USE DEF queueVars, Claims!claimVars
<1>a. /\ leases \in [Key -> Worker \cup {Nobody}] /\ scans \in [Key -> Nat]
      /\ block \in Blocks \cup {NoBlock}
  BY DEF TypeInv, AllocTypeOK
<1>b. Claims!Key = Key
  BY DEF Claims!Key, Key
<1>1. ASSUME NEW b \in Blocks, NEW cat \in Catalogs, Dispatch(b, cat)
      PROVE  UNCHANGED Claims!claimVars
  BY <1>1 DEF Dispatch
<1>2. CASE Join
  BY <1>2 DEF Join
<1>3. CASE ExpireLeases
  <2>1. Claims!Expire(block + 1)
    <3>1. \A k \in Key : k[1] \in Nat
      BY WorkAllocatorAssumption DEF Key
    <3>2. /\ block \in Int
          /\ leases' = [k \in Key |-> IF k[1] < block + 1 THEN Nobody ELSE leases[k]]
          /\ scans' = [k \in Key |-> IF k[1] < block + 1 THEN 0 ELSE scans[k]]
      BY <1>3, <1>a, WorkAllocatorAssumption DEF ExpireLeases, NoBlock
    <3>3. \A k \in Key : scans'[k] > 0 <=> scans[k] > 0 /\ k[1] >= block + 1
      BY <3>1, <3>2, <1>a
    <3>4. {k \in Key : scans'[k] > 0}
            = {k \in {j \in Key : scans[j] > 0} : k[1] >= block + 1}
      BY <3>3
    <3>5. QED BY <3>2, <3>4, <1>b DEF Claims!Expire
  <2>2. block \in Blocks
    BY <1>3, <1>a DEF ExpireLeases
  <2>3. Claims!ClaimsNext
    <3>1. \E b \in Blocks : Claims!Expire(b + 1)
      BY <2>1, <2>2 DEF Claims!Expire
    <3>2. QED BY <3>1 DEF Claims!ClaimsNext
  <2>4. QED BY <2>3
<1>4. ASSUME NEW w \in Worker, Start(w) \/ Return(w) \/ Raise(w)
      PROVE  UNCHANGED Claims!claimVars
  BY <1>4 DEF Start, Return, Raise
<1>5. ASSUME NEW w \in Worker, TakeOwn(w) \/ TakeOverflow(w) \/ Steal(w)
      PROVE  UNCHANGED Claims!claimVars
  BY <1>5 DEF TakeOwn, TakeOverflow, Steal, Take
<1>6. ASSUME NEW w \in Worker, Claim(w) PROVE Claims!ClaimsNext
  <2>1. <<block, hand[w]>> \in Key
    BY <1>6, KeyOfHand DEF Claim
  <2>2. Claims!Lease(w, <<block, hand[w]>>)
    BY <1>6, <2>1, <1>a DEF Claim, Claims!Lease
  <2>3. QED BY <2>1, <2>2, <1>b DEF Claims!ClaimsNext
<1>7. ASSUME NEW w \in Worker, SuppressDuplicate(w)
      PROVE  UNCHANGED Claims!claimVars
  BY <1>7 DEF SuppressDuplicate
<1>8. ASSUME NEW w \in Worker, Scan(w) PROVE Claims!ClaimsNext
  <2> DEFINE k == <<block, hand[w]>>
  <2>1. /\ k \in Key /\ leases[k] = w /\ scans[k] = 0
        /\ scans' = [scans EXCEPT ![k] = @ + 1]
        /\ leases' = leases
    BY <1>8, KeyOfHand DEF Scan, LeaseInv, ScannerHolds
  <2> HIDE DEF k
  <2>2. {j \in Key : scans'[j] > 0} = {j \in Key : scans[j] > 0} \cup {k}
    BY <2>1, <1>a
  <2>3. Claims!Visit(w, k)
    BY <2>1, <2>2, <1>a DEF Claims!Visit
  <2>4. \E v \in Worker, j \in Claims!Key : Claims!Lease(v, j) \/ Claims!Visit(v, j)
    BY <2>1, <2>3, <1>b DEF Claims!Visit
  <2>5. QED BY <2>4 DEF Claims!ClaimsNext
<1>9. CASE UNCHANGED allocVars
  BY <1>9 DEF allocVars
<1>10. QED
  BY <1>1, <1>2, <1>3, <1>4, <1>5, <1>6, <1>7, <1>8, <1>9, NextCases

(* The allocator keeps the swarm's promise about routes. *)
THEOREM ClaimsImplemented == AllocSpec => ImplementsRouteClaims
<1>1. AllocInit => Claims!ClaimsInit
  BY DEF AllocInit, Claims!ClaimsInit, Claims!Key, Key
<1>2. AllocSpec => [](TypeInv /\ LeaseInv)
  BY TypeInit, TypeNext, LeaseInit, LeaseNext, PTL DEF AllocSpec
<1>3. QED
  BY <1>1, <1>2, ClaimsNextLemma, PTL
  DEF AllocSpec, ImplementsRouteClaims, Claims!ClaimsSpec

-----------------------------------------------------------------------------
(* A route is in at most one place.  Apart spells Places out pair by pair; *)
(* it is inductive once an idle worker is known to hold nothing.           *)

QueuesApart ==
  \A v, w \in Worker : v # w => primary[v] \cap primary[w] = {}
OverflowApart ==
  \A w \in Worker : overflow \cap (primary[w] \cup Handled(w) \cup {hand[w]}) = {}
HandsApart ==
  \A v, w \in Worker :
    /\ hand[v] \notin primary[w] \cup Handled(w)
    /\ v # w /\ hand[v] # NoRoute => hand[v] # hand[w]
HandledApart ==
  \A v, w \in Worker :
    /\ Handled(v) \cap primary[w] = {}
    /\ v # w => Handled(v) \cap Handled(w) = {}
IdleHoldsNothing ==
  \A w \in Worker : pc[w] = "idle" => hand[w] = NoRoute /\ Handled(w) = {}

Apart == QueuesApart /\ OverflowApart /\ HandsApart /\ HandledApart /\ IdleHoldsNothing

(* What a step does to the routes a worker has handled. *)
LEMMA HandledType ==
  ASSUME TypeInv PROVE \A w \in Worker : Handled(w) \subseteq Route
  BY DEF TypeInv, AllocTypeOK, Handled, Outcome

LEMMA HandledNothing ==
  ASSUME outcome' = [w \in Worker |-> NoOutcome]
  PROVE  \A w \in Worker : Handled(w)' = {}
  BY DEF Handled, NoOutcome

LEMMA HandledByDuplicate ==
  ASSUME TypeInv, NEW w \in Worker, SuppressDuplicate(w)
  PROVE  \A v \in Worker :
           Handled(v)' = IF v = w THEN Handled(w) \cup {hand[w]} ELSE Handled(v)
<1> DEFINE o == WithDuplicate(outcome[w], hand[w])
<1>1. outcome' = [outcome EXCEPT ![w] = o] /\ outcome \in [Worker -> Outcome]
  BY DEF SuppressDuplicate, TypeInv, AllocTypeOK
<1>2. /\ o.scanned = outcome[w].scanned
      /\ o.duplicates = outcome[w].duplicates \cup {hand[w]}
  BY <1>1 DEF WithDuplicate, Outcome
<1> HIDE DEF o
<1>3. QED BY <1>1, <1>2 DEF Handled

LEMMA HandledByScan ==
  ASSUME TypeInv, NEW w \in Worker, Scan(w)
  PROVE  \A v \in Worker :
           Handled(v)' = IF v = w THEN Handled(w) \cup {hand[w]} ELSE Handled(v)
<1>1. outcome \in [Worker -> Outcome]
  BY DEF TypeInv, AllocTypeOK
<1>2. \A o \in Outcome : \A r : \A result \in ScanResults(o, r) :
        /\ result.scanned = o.scanned \cup {r}
        /\ result.duplicates = o.duplicates
  BY DEF ScanResults, Outcome
<1>3. PICK result \in ScanResults(outcome[w], hand[w]) :
        outcome' = [outcome EXCEPT ![w] = result]
  BY DEF Scan
<1>4. QED BY <1>1, <1>2, <1>3 DEF Handled

LEMMA ApartInit == AllocInit => Apart
  BY DEF AllocInit, Apart, QueuesApart, OverflowApart, HandsApart, HandledApart,
     IdleHoldsNothing, Handled, NoOutcome

LEMMA ApartNext == TypeInv /\ Apart /\ [AllocNext]_allocVars => Apart'
<1> SUFFICES ASSUME TypeInv, Apart, [AllocNext]_allocVars PROVE Apart'
  OBVIOUS
<1> USE DEF Apart, QueuesApart, OverflowApart, HandsApart, HandledApart,
            IdleHoldsNothing, queueVars
<1>a. /\ pc \in [Worker -> PcState] /\ primary \in [Worker -> SUBSET Route]
      /\ overflow \subseteq Route /\ hand \in [Worker -> Route \cup {NoRoute}]
      /\ \A w \in Worker : Handled(w) \subseteq Route
  BY HandledType DEF TypeInv, AllocTypeOK
<1>b. NoRoute \notin Route
  BY DEF NoRoute, Route
<1>c. ASSUME UNCHANGED outcome PROVE \A w \in Worker : Handled(w)' = Handled(w)
  BY <1>c DEF Handled
<1>1. ASSUME NEW b \in Blocks, NEW cat \in Catalogs, Dispatch(b, cat)
      PROVE  Apart'
  <2>1. \A w \in Worker : hand[w] = NoRoute /\ Handled(w) = {}
    BY <1>1 DEF Dispatch, AllIdle
  <2>2. /\ \A w \in Worker : primary'[w] = DealtQueue(cat, w)
        /\ overflow' = OverflowOf(cat) /\ UNCHANGED <<hand, outcome>>
    BY <1>1 DEF Dispatch
  <2>3. OverflowOf(cat) \subseteq Route /\ \A w \in Worker : DealtQueue(cat, w) \subseteq Route
    BY WorkAllocatorAssumption, ListedType DEF OverflowOf, DealtQueue
  <2>4. /\ \A v, w \in Worker : v # w => DealtQueue(cat, v) \cap DealtQueue(cat, w) = {}
        /\ \A w \in Worker : DealtQueue(cat, w) \cap OverflowOf(cat) = {}
    BY DEF DealtQueue
  <2>5. QED BY <2>1, <2>2, <2>3, <2>4, <1>b, <1>c
<1>2. CASE Join
  <2>1. /\ \A w \in Worker : primary'[w] = {} /\ hand'[w] = NoRoute
        /\ overflow' = {}
    BY <1>2 DEF Join
  <2>2. \A w \in Worker : Handled(w)' = {}
    BY <1>2, HandledNothing DEF Join
  <2>3. QED BY <2>1, <2>2
<1>3. CASE ExpireLeases
  BY <1>3, <1>c DEF ExpireLeases
<1>4. ASSUME NEW w \in Worker, Start(w) \/ Return(w) \/ Raise(w) PROVE Apart'
  <2>1. /\ UNCHANGED <<primary, overflow, hand, outcome>>
        /\ \A v \in Worker : pc'[v] = "idle" => pc[v] = "idle"
    BY <1>4, <1>a DEF Start, Return, Raise, Goto
  <2>2. QED BY <2>1, <1>c
<1>5. ASSUME NEW w \in Worker, TakeOwn(w) \/ TakeOverflow(w) \/ Steal(w)
      PROVE  Apart'
  <2>1. PICK r \in Route :
          /\ Take(w, r)
          /\ \/ /\ r \in overflow /\ overflow' = overflow \ {r}
                /\ primary' = primary
             \/ /\ overflow' = overflow
                /\ \E d \in Worker : /\ r \in primary[d]
                                    /\ primary' = [primary EXCEPT ![d] = @ \ {r}]
    BY <1>5, <1>a DEF TakeOwn, TakeOverflow, Steal, Donors
  <2>2. /\ \A v \in Worker : primary'[v] \subseteq primary[v] \ {r}
        /\ overflow' \subseteq overflow \ {r}
        /\ \A v \in Worker : hand[v] # r /\ r \notin Handled(v)
    BY <2>1, <1>a
  <2>3. /\ hand' = [hand EXCEPT ![w] = r] /\ pc' = [pc EXCEPT ![w] = "claim"]
        /\ UNCHANGED outcome
    BY <2>1 DEF Take, Goto
  <2>4. QED BY <2>2, <2>3, <1>a, <1>c
<1>6. ASSUME NEW w \in Worker, Claim(w) PROVE Apart'
  <2>1. /\ UNCHANGED <<primary, overflow, hand, outcome>>
        /\ \A v \in Worker : pc'[v] = "idle" => pc[v] = "idle"
    BY <1>6, <1>a DEF Claim, Goto
  <2>2. QED BY <2>1, <1>c
<1>7. ASSUME NEW w \in Worker, SuppressDuplicate(w) \/ Scan(w) PROVE Apart'
  <2>1. /\ hand' = [hand EXCEPT ![w] = NoRoute] /\ pc' = [pc EXCEPT ![w] = "next"]
        /\ UNCHANGED <<primary, overflow>> /\ hand[w] \in Route
    BY <1>7, <1>a DEF SuppressDuplicate, Scan, Goto, TypeInv, HandInv
  <2>2. \A v \in Worker :
          Handled(v)' = IF v = w THEN Handled(w) \cup {hand[w]} ELSE Handled(v)
    BY <1>7, HandledByDuplicate, HandledByScan
  <2>3. QED BY <2>1, <2>2, <1>a, <1>b
<1>8. CASE UNCHANGED allocVars
  BY <1>8, <1>c DEF allocVars
<1>9. QED
  BY <1>1, <1>2, <1>3, <1>4, <1>5, <1>6, <1>7, <1>8, NextCases

LEMMA ApartPlaces == TypeInv /\ Apart => RouteInOnePlace
<1> SUFFICES ASSUME TypeInv, Apart, NEW r \in Route, NEW p \in Places(r), NEW q \in Places(r)
             PROVE  p = q
  BY DEF RouteInOnePlace
<1>1. r # NoRoute
  BY DEF Route, NoRoute
<1>2. \A v, w \in Worker :
        /\ r \in primary[v] /\ r \in primary[w] => v = w
        /\ hand[v] = r /\ hand[w] = r => v = w
        /\ r \in Handled(v) /\ r \in Handled(w) => v = w
        /\ ~ (r \in primary[v] /\ hand[w] = r)
        /\ ~ (r \in primary[v] /\ r \in Handled(w))
        /\ ~ (hand[v] = r /\ r \in Handled(w))
        /\ r \in overflow => r \notin primary[v] /\ hand[v] # r /\ r \notin Handled(v)
  BY <1>1 DEF Apart, QueuesApart, OverflowApart, HandsApart, HandledApart
<1>3. \A x \in Places(r) :
        \/ \E w \in Worker : x = <<"queue", w>> /\ r \in primary[w]
        \/ \E w \in Worker : x = <<"hand", w>> /\ hand[w] = r
        \/ \E w \in Worker : x = <<"handled", w>> /\ r \in Handled(w)
        \/ x = <<"overflow", Nobody>> /\ r \in overflow
  BY DEF Places
<1>4. QED BY <1>2, <1>3

(* Dealing, taking, stealing and suppressing never copy a route, for any   *)
(* catalog and any number of workers sharing pairs.                        *)
THEOREM RouteInOnePlaceHolds == AllocSpec => []RouteInOnePlace
<1>1. AllocSpec => [](TypeInv /\ Apart)
  BY TypeInit, TypeNext, ApartInit, ApartNext, PTL DEF AllocSpec
<1>2. QED BY <1>1, ApartPlaces, PTL
-----------------------------------------------------------------------------
(* Dealing drops nothing: the round-robin index of a pair's routes always  *)
(* falls on one of the workers that share the pair.                        *)

LEMMA LeastNat ==
  ASSUME NEW S \in SUBSET Nat, S # {}
  PROVE  \E m \in S : \A n \in S : m <= n
<1>1. PICK m \in S : \A n \in S : ~ (<<n, m>> \in OpToRel(<, Nat))
  BY NatLessThanWellFounded, WFMin
<1>2. \A n \in S : ~ (n < m)
  BY <1>1 DEF OpToRel
<1>3. QED BY <1>2

LEMMA FinitePart ==
  ASSUME NEW n \in Nat, NEW S \in SUBSET (1..n)
  PROVE  IsFiniteSet(S) /\ Cardinality(S) \in Nat
<1>1. IsFiniteSet(1..n)
  BY FS_Interval
<1>2. IsFiniteSet(S)
  BY <1>1, FS_Subset
<1>3. QED BY <1>2, FS_CardinalityType

(* A set of workers of size m has a member with exactly j below it, for    *)
(* every j less than m: the first worker with more than j up to itself.    *)
LEMMA RankExists ==
  ASSUME NEW n \in Nat, NEW S \in SUBSET (1..n), NEW j \in Nat, j < Cardinality(S)
  PROVE  \E w \in S : Cardinality({v \in S : v < w}) = j
<1> DEFINE Upto(k) == {v \in S : v <= k}
           Enough == {k \in Nat : j < Cardinality(Upto(k))}
<1>0. \A v \in S : v \in Nat /\ 1 <= v /\ v <= n
  OBVIOUS
<1>1. \A k : IsFiniteSet(Upto(k)) /\ Cardinality(Upto(k)) \in Nat
  <2>1. \A k : Upto(k) \in SUBSET (1..n)
    OBVIOUS
  <2> HIDE DEF Upto
  <2>2. QED BY <2>1, FinitePart
<1>2. Upto(n) = S /\ Upto(0) = {}
  <2>1. \A v \in S : v <= n /\ ~ (v <= 0)
    BY <1>0
  <2>2. QED BY <2>1
<1>3. \A k \in Nat : Upto(k + 1) = IF k + 1 \in S THEN Upto(k) \cup {k + 1} ELSE Upto(k)
  <2> SUFFICES ASSUME NEW k \in Nat
               PROVE  Upto(k + 1) = IF k + 1 \in S THEN Upto(k) \cup {k + 1} ELSE Upto(k)
    OBVIOUS
  <2>1. \A v \in S : v <= k + 1 <=> v <= k \/ v = k + 1
    BY <1>0
  <2>2. QED BY <2>1
<1>4. \A k \in Nat : k + 1 \notin Upto(k) /\ {v \in S : v < k + 1} = Upto(k)
  <2> SUFFICES ASSUME NEW k \in Nat
               PROVE  k + 1 \notin Upto(k) /\ {v \in S : v < k + 1} = Upto(k)
    OBVIOUS
  <2>1. \A v \in S : (v < k + 1 <=> v <= k) /\ ~ (k + 1 <= k)
    BY <1>0
  <2>2. QED BY <2>1
<1> HIDE DEF Upto
<1>5. PICK k \in Enough : \A i \in Enough : k <= i
  <2>1. n \in Enough
    BY <1>2
  <2>2. Enough \in SUBSET Nat /\ Enough # {}
    BY <2>1
  <2> HIDE DEF Enough
  <2>3. QED BY <2>2, LeastNat
<1>6. k \in Nat /\ j < Cardinality(Upto(k)) /\ k # 0
  <2>1. Cardinality(Upto(0)) = 0
    BY <1>2, FS_EmptySet
  <2>2. QED BY <1>5, <2>1
<1>7. PICK i \in Nat : k = i + 1
  <2>1. k - 1 \in Nat /\ k = (k - 1) + 1
    BY <1>6
  <2>2. QED BY <2>1
<1>8. ~ (j < Cardinality(Upto(i)))
  <2>1. ~ (k <= i)
    BY <1>7
  <2>2. QED BY <1>5, <2>1
<1>9. k \in S
  BY <1>3, <1>6, <1>7, <1>8
<1>10. Cardinality(Upto(k)) = Cardinality(Upto(i)) + 1
  <2>1. Upto(k) = Upto(i) \cup {k} /\ k \notin Upto(i)
    BY <1>3, <1>4, <1>7, <1>9
  <2>2. QED BY <1>1, <2>1, FS_AddElement
<1>11. Cardinality(Upto(i)) = j
  BY <1>1, <1>6, <1>8, <1>10
<1>12. {v \in S : v < k} = Upto(i)
  BY <1>4, <1>7
<1>13. QED BY <1>9, <1>11, <1>12

LEMMA DealtToOwner ==
  ASSUME NEW cat \in Seq(Route), NEW r \in Listed(cat), Owners(r) # {}
  PROVE  DealtTo(cat, r) \in Owners(r)
<1> DEFINE size == Cardinality(Owners(r))
           index == PairIndex(cat, r)
<1>1. /\ NumWorkers \in Nat /\ NumRoutes \in Nat
      /\ Owners(r) \in SUBSET (1..NumWorkers)
  BY WorkAllocatorAssumption DEF Owners, Worker
<1>2. IsFiniteSet(Owners(r)) /\ size \in Nat /\ size # 0
  BY <1>1, FinitePart, FS_EmptySet
<1>3. index \in Nat
  <2>1. {s \in Listed(cat) : /\ RoutePair[s] = RoutePair[r]
                             /\ Position(cat, s) < Position(cat, r)} \in SUBSET (1..NumRoutes)
    BY ListedType DEF Route
  <2>2. QED BY <1>1, <2>1, FinitePart DEF PairIndex
<1> HIDE DEF index
<1>4. index % size \in Nat /\ index % size < size
  BY <1>2, <1>3
<1>5. \E w \in Owners(r) : Cardinality({v \in Owners(r) : v < w}) = index % size
  BY <1>1, <1>4, RankExists
<1>6. QED BY <1>5 DEF DealtTo, index

(* Every listed route is dealt to a queue or to the overflow, and nothing  *)
(* else is.                                                                *)
LEMMA DealsAll ==
  ASSUME NEW cat \in Seq(Route), NEW r \in Route
  PROVE  r \in Listed(cat)
           <=> r \in OverflowOf(cat) \/ \E w \in Worker : r \in DealtQueue(cat, w)
<1>1. ASSUME r \in Listed(cat), Owners(r) # {}
      PROVE  \E w \in Worker : r \in DealtQueue(cat, w)
  <2>1. DealtTo(cat, r) \in Worker
    BY <1>1, DealtToOwner DEF Owners
  <2>2. QED BY <1>1, <2>1 DEF DealtQueue, OverflowOf
<1>2. QED BY <1>1 DEF OverflowOf, DealtQueue

(* What is somewhere, place by place. *)
Somewhere(r) ==
  \/ r \in overflow
  \/ \E w \in Worker : r \in primary[w] \/ hand[w] = r \/ r \in Handled(w)

(* A worker between two routes holds none. *)
HandsFree ==
  \A w \in Worker : pc[w] \in {"idle", "queued", "next", "returned"} => hand[w] = NoRoute

Kept ==
  /\ HandsFree
  /\ ~ AllIdle => \A r \in Route : r \in Listed(catalog) <=> Somewhere(r)

LEMMA KeptInit == AllocInit => Kept
  BY DEF AllocInit, Kept, HandsFree, AllIdle

LEMMA KeptNext == TypeInv /\ Apart /\ Kept /\ [AllocNext]_allocVars => Kept'
<1> SUFFICES ASSUME TypeInv, Apart, Kept, [AllocNext]_allocVars PROVE Kept'
  OBVIOUS
<1> USE DEF Kept, HandsFree, Somewhere, AllIdle
<1>a. /\ pc \in [Worker -> PcState] /\ primary \in [Worker -> SUBSET Route]
      /\ overflow \subseteq Route /\ hand \in [Worker -> Route \cup {NoRoute}]
  BY DEF TypeInv, AllocTypeOK
<1>b. NoRoute \notin Route
  BY DEF NoRoute, Route
<1>c. ASSUME UNCHANGED outcome PROVE \A w \in Worker : Handled(w)' = Handled(w)
  BY <1>c DEF Handled
<1>1. ASSUME NEW b \in Blocks, NEW cat \in Catalogs, Dispatch(b, cat)
      PROVE  Kept'
  <2>1. \A w \in Worker : hand'[w] = NoRoute /\ Handled(w)' = {}
    BY <1>1, <1>c DEF Dispatch, Apart, IdleHoldsNothing
  <2>2. /\ \A w \in Worker : primary'[w] = DealtQueue(cat, w)
        /\ overflow' = OverflowOf(cat) /\ catalog' = cat
    BY <1>1 DEF Dispatch
  <2>3. cat \in Seq(Route)
    BY WorkAllocatorAssumption
  <2>4. QED BY <2>1, <2>2, <2>3, <1>b, DealsAll
<1>2. CASE Join
  BY <1>2 DEF Join
<1>3. CASE ExpireLeases
  BY <1>3 DEF ExpireLeases, queueVars
<1>4. ASSUME NEW w \in Worker, Start(w) \/ Return(w) \/ Raise(w) \/ Claim(w)
      PROVE  Kept'
  <2>1. /\ UNCHANGED <<catalog, primary, overflow, hand, outcome>> /\ pc[w] # "idle"
        /\ HandsFree'
    BY <1>4, <1>a DEF Start, Return, Raise, Claim, queueVars, Goto
  <2>2. QED BY <2>1, <1>c
<1>5. ASSUME NEW w \in Worker, TakeOwn(w) \/ TakeOverflow(w) \/ Steal(w)
      PROVE  Kept'
  <2>1. PICK r \in Route :
          /\ Take(w, r)
          /\ \/ /\ r \in overflow /\ overflow' = overflow \ {r}
                /\ primary' = primary
             \/ /\ overflow' = overflow
                /\ \E d \in Worker : /\ r \in primary[d]
                                    /\ primary' = [primary EXCEPT ![d] = @ \ {r}]
    BY <1>5, <1>a DEF TakeOwn, TakeOverflow, Steal, Donors
  <2>2. pc[w] = "next" /\ hand[w] = NoRoute
    BY <1>5 DEF TakeOwn, TakeOverflow, Steal
  <2>3. /\ hand' = [hand EXCEPT ![w] = r] /\ pc' = [pc EXCEPT ![w] = "claim"]
        /\ UNCHANGED <<catalog, outcome>>
    BY <2>1 DEF Take, Goto
  <2>4. HandsFree'
    BY <2>3, <1>a
  <2>5. \A s \in Route : Somewhere(s)' <=> Somewhere(s)
    <3>1. \A v \in Worker : hand'[v] = IF v = w THEN r ELSE hand[v]
      BY <2>3, <1>a
    <3>2. \A s \in Route : (s \in overflow' \/ \E v \in Worker : s \in primary'[v])
            <=> s # r /\ (s \in overflow \/ \E v \in Worker : s \in primary[v])
      <4>1. \A v \in Worker : r \notin primary'[v] /\ r \notin overflow'
        BY <2>1, <1>a DEF Apart, QueuesApart, OverflowApart
      <4>2. \A s \in Route \ {r} : /\ s \in overflow' <=> s \in overflow
                                  /\ \A v \in Worker : s \in primary'[v] <=> s \in primary[v]
        BY <2>1, <1>a
      <4>3. QED BY <4>1, <4>2
    <3>3. r \in overflow \/ \E v \in Worker : r \in primary[v]
      BY <2>1
    <3>4. QED BY <3>1, <3>2, <3>3, <2>2, <2>3, <1>b, <1>c
  <2>6. QED BY <2>2, <2>3, <2>4, <2>5
<1>6. ASSUME NEW w \in Worker, SuppressDuplicate(w) \/ Scan(w) PROVE Kept'
  <2>1. /\ hand' = [hand EXCEPT ![w] = NoRoute] /\ pc[w] # "idle"
        /\ pc' = [pc EXCEPT ![w] = "next"]
        /\ UNCHANGED <<catalog, primary, overflow>> /\ hand[w] \in Route
    BY <1>6 DEF SuppressDuplicate, Scan, Goto, queueVars, TypeInv, HandInv
  <2>2. \A v \in Worker :
          Handled(v)' = IF v = w THEN Handled(w) \cup {hand[w]} ELSE Handled(v)
    BY <1>6, HandledByDuplicate, HandledByScan
  <2>3. QED BY <2>1, <2>2, <1>a, <1>b
<1>7. CASE UNCHANGED allocVars
  BY <1>7, <1>c DEF allocVars
<1>8. QED BY <1>1, <1>2, <1>3, <1>4, <1>5, <1>6, <1>7, NextCases

LEMMA SomewhereIsPlace ==
  ASSUME NEW r PROVE Places(r) # {} <=> Somewhere(r)
  BY DEF Places, Somewhere

(* next_route, RouteLeaseRegistry.claim and the deal in WorkAllocator's     *)
(* constructor: until the join every route of the catalog is in a queue,   *)
(* a hand or a result, for any sharing of pairs and any deaths of workers. *)
THEOREM NoRouteDroppedHolds == AllocSpec => []NoRouteDropped
<1>1. AllocSpec => [](TypeInv /\ Apart /\ Kept)
  BY TypeInit, TypeNext, ApartInit, ApartNext, KeptInit, KeptNext, PTL DEF AllocSpec
<1>2. Kept => NoRouteDropped
  BY SomewhereIsPlace DEF Kept, NoRouteDropped
<1>3. QED BY <1>1, <1>2, PTL

-----------------------------------------------------------------------------
(* The count at the join.  A worker counts a route as scanned or as a      *)
(* duplicate, never as both, so when all of them went home the two add up  *)
(* to the catalog.                                                         *)

CountedOnce == \A w \in Worker : outcome[w].scanned \cap outcome[w].duplicates = {}

LEMMA CountedInit == AllocInit => CountedOnce
  BY DEF AllocInit, CountedOnce, NoOutcome

LEMMA CountedNext == TypeInv /\ Apart /\ CountedOnce /\ [AllocNext]_allocVars => CountedOnce'
<1> SUFFICES ASSUME TypeInv, Apart, CountedOnce, [AllocNext]_allocVars PROVE CountedOnce'
  OBVIOUS
<1> USE DEF CountedOnce
<1>a. outcome \in [Worker -> Outcome]
  BY DEF TypeInv, AllocTypeOK
<1>b. \A w \in Worker :
        hand[w] \notin outcome[w].scanned /\ hand[w] \notin outcome[w].duplicates
  BY DEF Apart, HandsApart, Handled
<1>1. CASE UNCHANGED outcome
  BY <1>1
<1>2. CASE Join
  BY <1>2 DEF Join, NoOutcome
<1>3. ASSUME NEW w \in Worker, SuppressDuplicate(w) PROVE CountedOnce'
  <2> DEFINE o == WithDuplicate(outcome[w], hand[w])
  <2>1. outcome' = [outcome EXCEPT ![w] = o]
    BY <1>3 DEF SuppressDuplicate
  <2>2. /\ o.scanned = outcome[w].scanned
        /\ o.duplicates = outcome[w].duplicates \cup {hand[w]}
    BY <1>a DEF WithDuplicate, Outcome
  <2> HIDE DEF o
  <2>3. QED BY <1>a, <1>b, <2>1, <2>2
<1>4. ASSUME NEW w \in Worker, Scan(w) PROVE CountedOnce'
  <2>1. \A o \in Outcome : \A r : \A result \in ScanResults(o, r) :
          /\ result.scanned = o.scanned \cup {r}
          /\ result.duplicates = o.duplicates
    BY DEF ScanResults, Outcome
  <2>2. PICK result \in ScanResults(outcome[w], hand[w]) :
          outcome' = [outcome EXCEPT ![w] = result]
    BY <1>4 DEF Scan
  <2>3. QED BY <1>a, <1>b, <2>1, <2>2
<1>5. \/ UNCHANGED outcome \/ Join
      \/ \E w \in Worker : SuppressDuplicate(w) \/ Scan(w)
  BY NextCases DEF allocVars, Dispatch, ExpireLeases, Start, Return, Raise, TakeOwn,
     TakeOverflow, Steal, Take, Claim
<1>6. QED BY <1>1, <1>2, <1>3, <1>4, <1>5

(* The invariants of the allocator together.                               *)
AllocInv == TypeInv /\ LeaseInv /\ NothingLeftBehind /\ Apart /\ Kept /\ CountedOnce

LEMMA AllocInvInit == AllocInit => AllocInv
  BY TypeInit, LeaseInit, LeftBehindInit, ApartInit, KeptInit, CountedInit DEF AllocInv

LEMMA AllocInvNext == AllocInv /\ [AllocNext]_allocVars => AllocInv'
  BY TypeNext, LeaseNext, LeftBehindNext, ApartNext, KeptNext, CountedNext DEF AllocInv

LEMMA ListedFinite ==
  ASSUME NEW S \in SUBSET Route
  PROVE  IsFiniteSet(S) /\ Cardinality(S) \in Nat
  BY WorkAllocatorAssumption, FinitePart DEF Route

LEMMA AllAccounted ==
  ASSUME AllocInv, WorkStealing, \A w \in Worker : pc[w] = "returned"
  PROVE  Cardinality(UNION {outcome[w].scanned : w \in Worker})
           + Cardinality(UNION {outcome[w].duplicates : w \in Worker})
             = Cardinality(Listed(catalog))
<1> DEFINE Scanned == UNION {outcome[w].scanned : w \in Worker}
           Duplicates == UNION {outcome[w].duplicates : w \in Worker}
<1>1. \A w \in Worker : /\ Handled(w) = outcome[w].scanned \cup outcome[w].duplicates
                        /\ Handled(w) \subseteq Route
  BY HandledType DEF AllocInv, Handled
<1>2. ~ AllIdle
  BY WorkAllocatorAssumption DEF AllIdle, Worker
<1>3. overflow = {} /\ \A w \in Worker : primary[w] = {} /\ hand[w] = NoRoute
  <2>1. 1 \in Worker
    BY WorkAllocatorAssumption DEF Worker
  <2>2. QED BY <2>1 DEF AllocInv, NothingLeftBehind, Kept, HandsFree
<1>4. \A r \in Route : r \in Listed(catalog) <=> \E w \in Worker : r \in Handled(w)
  <2>1. \A r \in Route : r # NoRoute
    BY DEF Route, NoRoute
  <2>2. QED BY <1>2, <1>3, <2>1 DEF AllocInv, Kept, Somewhere
<1>5. Listed(catalog) \subseteq Route
  BY ListedType DEF AllocInv, TypeInv, AllocTypeOK
<1>6. Scanned \cup Duplicates = Listed(catalog)
  BY <1>1, <1>4, <1>5
<1>7. Scanned \cap Duplicates = {}
  BY <1>1 DEF AllocInv, Apart, HandledApart, CountedOnce
<1>8. Scanned \in SUBSET Route /\ Duplicates \in SUBSET Route
  BY <1>5, <1>6
<1> HIDE DEF Scanned, Duplicates
<1>9. /\ IsFiniteSet(Scanned) /\ IsFiniteSet(Duplicates)
      /\ Cardinality(Scanned) \in Nat /\ Cardinality(Duplicates) \in Nat
  BY <1>8, ListedFinite
<1>10. Cardinality(Listed(catalog)) = Cardinality(Scanned) + Cardinality(Duplicates)
  BY <1>6, <1>7, <1>9, FS_Union, FS_EmptySet
<1>11. QED BY <1>10 DEF Scanned, Duplicates

-----------------------------------------------------------------------------
(* How much lies ahead of the workers of a running cycle. *)
Shrinks == Ahead' \subseteq Ahead /\ Ahead' # Ahead

LEMMA AheadIs ==
  \A x : /\ <<"take", x>> \in Ahead <=> x \in Queued
         /\ <<"claim", x>> \in Ahead <=> x \in Queued \cup Held({"claim"})
         /\ <<"scan", x>> \in Ahead <=> x \in Queued \cup Held({"claim", "scan"})
         /\ <<"start", x>> \in Ahead <=> x \in Worker /\ pc[x] = "queued"
         /\ <<"end", x>> \in Ahead <=> x \in Worker /\ pc[x] \in {"queued"} \cup Busy
  BY DEF Ahead

LEMMA AheadShrinks ==
  ASSUME Queued' \subseteq Queued,
         Held({"claim"})' \subseteq Held({"claim"}) \cup Queued,
         Held({"claim", "scan"})' \subseteq Held({"claim", "scan"}) \cup Queued,
         \A w \in Worker : /\ pc'[w] = "queued" => pc[w] = "queued"
                           /\ pc'[w] \in {"queued"} \cup Busy => pc[w] \in {"queued"} \cup Busy,
         NEW x, \/ x \in Queued \ Queued'
                \/ /\ x \in Held({"claim", "scan"})
                   /\ x \notin Queued' \cup Held({"claim", "scan"})'
                \/ x \in Held({"claim"}) /\ x \notin Queued' \cup Held({"claim"})'
                \/ x \in Worker /\ pc[x] = "queued" /\ pc'[x] # "queued"
                \/ x \in Worker /\ pc[x] \in Busy /\ pc'[x] \notin {"queued"} \cup Busy
  PROVE  Shrinks
<1>1. Ahead' \subseteq Ahead
  BY DEF Ahead
<1>2. Ahead' # Ahead
  <2>1. \A y : /\ <<"take", y>> \in Ahead' <=> y \in Queued'
               /\ <<"claim", y>> \in Ahead' <=> y \in Queued' \cup Held({"claim"})'
               /\ <<"scan", y>> \in Ahead' <=> y \in Queued' \cup Held({"claim", "scan"})'
               /\ <<"start", y>> \in Ahead' <=> y \in Worker /\ pc'[y] = "queued"
               /\ <<"end", y>> \in Ahead' <=> y \in Worker /\ pc'[y] \in {"queued"} \cup Busy
    BY DEF Ahead
  <2>2. QED BY <2>1, AheadIs
<1>3. QED BY <1>1, <1>2 DEF Shrinks

LEMMA WorkersProgress ==
  ASSUME TypeInv, Apart, NEW w \in Worker, WorkerStep(w)
  PROVE  Shrinks
<1> USE DEF queueVars
<1>a. /\ pc \in [Worker -> PcState] /\ primary \in [Worker -> SUBSET Route]
      /\ overflow \subseteq Route /\ hand \in [Worker -> Route \cup {NoRoute}]
  BY DEF TypeInv, AllocTypeOK
<1>b. NoRoute \notin Route
  BY DEF NoRoute, Route
<1>1. CASE Start(w)
  <2>1. /\ UNCHANGED <<primary, overflow, hand>> /\ pc[w] = "queued"
        /\ pc' = [pc EXCEPT ![w] = "next"]
    BY <1>1 DEF Start, Goto
  <2>2. QED BY <2>1, <1>a, AheadShrinks DEF Queued, Held, Busy
<1>2. CASE Return(w) \/ Raise(w)
  <2>1. /\ UNCHANGED <<primary, overflow, hand>> /\ pc[w] \in Busy
        /\ pc' = [pc EXCEPT ![w] = "returned"] \/ pc' = [pc EXCEPT ![w] = "raised"]
    BY <1>2 DEF Return, Raise, Goto, Busy
  <2>2. QED BY <2>1, <1>a, AheadShrinks DEF Queued, Held, Busy
<1>3. CASE TakeOwn(w) \/ TakeOverflow(w) \/ Steal(w)
  <2>1. PICK r \in Route :
          /\ Take(w, r) /\ pc[w] = "next"
          /\ \/ /\ r \in overflow /\ overflow' = overflow \ {r}
                /\ primary' = primary
             \/ /\ overflow' = overflow
                /\ \E d \in Worker : /\ r \in primary[d]
                                    /\ primary' = [primary EXCEPT ![d] = @ \ {r}]
    BY <1>3, <1>a DEF TakeOwn, TakeOverflow, Steal, Donors
  <2>2. /\ \A v \in Worker : primary'[v] \subseteq primary[v] \ {r}
        /\ overflow' \subseteq overflow \ {r}
    BY <2>1, <1>a DEF Apart, QueuesApart, OverflowApart
  <2>3. hand' = [hand EXCEPT ![w] = r] /\ pc' = [pc EXCEPT ![w] = "claim"]
    BY <2>1 DEF Take, Goto
  <2>4. r \in Queued \ Queued' /\ Queued' \subseteq Queued
    BY <2>1, <2>2 DEF Queued
  <2>5. /\ Held({"claim"})' \subseteq Held({"claim"}) \cup Queued
        /\ Held({"claim", "scan"})' \subseteq Held({"claim", "scan"}) \cup Queued
    BY <2>3, <2>4, <1>a DEF Held
  <2>6. QED BY <2>1, <2>3, <2>4, <2>5, <1>a, AheadShrinks DEF Busy
<1>4. CASE Claim(w) \/ SuppressDuplicate(w) \/ Scan(w)
  <2> DEFINE r == hand[w]
  <2>1. /\ r \in Route /\ pc[w] \in {"claim", "scan"} /\ UNCHANGED <<primary, overflow>>
    BY <1>4, <1>a DEF Claim, SuppressDuplicate, Scan, TypeInv, HandInv
  <2>2. \A v \in Worker : v # w => hand[v] # r
    BY <2>1, <1>b DEF Apart, HandsApart
  <2>3. r \notin Queued
    BY <2>1, <1>b DEF Apart, HandsApart, OverflowApart, QueuesApart, Queued
  <2>4. Queued' = Queued
    BY <2>1 DEF Queued
  <2>5. CASE Claim(w)
    <3>1. pc' = [pc EXCEPT ![w] = "scan"] /\ hand' = hand /\ pc[w] = "claim"
      BY <2>5 DEF Claim, Goto
    <3>2. r \in Held({"claim"}) /\ r \notin Held({"claim"})'
      BY <3>1, <2>2, <1>a DEF Held
    <3>3. /\ Held({"claim"})' \subseteq Held({"claim"})
          /\ Held({"claim", "scan"})' \subseteq Held({"claim", "scan"})
      BY <3>1, <1>a DEF Held
    <3>4. QED BY <3>1, <3>2, <3>3, <2>3, <2>4, <1>a, AheadShrinks DEF Busy
  <2>6. CASE SuppressDuplicate(w) \/ Scan(w)
    <3>1. pc' = [pc EXCEPT ![w] = "next"] /\ hand' = [hand EXCEPT ![w] = NoRoute]
      BY <2>6 DEF SuppressDuplicate, Scan, Goto
    <3>2. r \in Held({"claim", "scan"}) /\ r \notin Held({"claim", "scan"})'
      BY <3>1, <2>1, <2>2, <1>a DEF Held
    <3>3. /\ Held({"claim"})' \subseteq Held({"claim"})
          /\ Held({"claim", "scan"})' \subseteq Held({"claim", "scan"})
      BY <3>1, <1>a DEF Held
    <3>4. QED BY <3>1, <3>2, <3>3, <2>1, <2>3, <2>4, <1>a, AheadShrinks DEF Busy
  <2>7. QED BY <1>4, <2>5, <2>6
<1>5. QED BY <1>1, <1>2, <1>3, <1>4 DEF WorkerStep, RunWorker

LEMMA AheadFinite ==
  ASSUME AllocTypeOK
  PROVE  IsFiniteSet(Ahead)
<1>1. Queued \in SUBSET Route
  BY DEF AllocTypeOK, Queued
<1>2. \A stages : Held(stages) \in SUBSET (Route \cup {NoRoute})
  BY DEF AllocTypeOK, Held
<1>3. IsFiniteSet(Route \cup {NoRoute}) /\ IsFiniteSet(Worker)
  <2>1. IsFiniteSet(Route) /\ IsFiniteSet(Worker)
    BY WorkAllocatorAssumption, FS_Interval DEF Route, Worker
  <2>2. QED BY <2>1, FS_AddElement
<1> DEFINE Kinds == {"take", "claim", "scan", "start", "end"}
           Things == (Route \cup {NoRoute}) \cup Worker
<1>4. IsFiniteSet(Kinds)
  <2>1. Kinds = ((({"take"} \cup {"claim"}) \cup {"scan"}) \cup {"start"}) \cup {"end"}
    OBVIOUS
  <2>2. \A x : IsFiniteSet({x})
    BY FS_Singleton
  <2> HIDE DEF Kinds
  <2>3. QED BY <2>1, <2>2, FS_Union
<1>5. IsFiniteSet(Things)
  BY <1>3, FS_Union
<1>6. IsFiniteSet(Kinds \X Things)
  <2> HIDE DEF Kinds, Things
  <2>1. QED BY <1>4, <1>5, FS_Product
<1>7. Ahead \in SUBSET (Kinds \X Things)
  <2>1. /\ {"take", "claim", "scan", "start", "end"} = Kinds
        /\ Queued \subseteq Things /\ Held({"claim"}) \subseteq Things
        /\ Held({"claim", "scan"}) \subseteq Things
        /\ {w \in Worker : pc[w] = "queued"} \subseteq Things
        /\ {w \in Worker : pc[w] \in {"queued"} \cup Busy} \subseteq Things
    BY <1>1, <1>2
  <2> HIDE DEF Things
  <2>2. QED BY <2>1 DEF Ahead
<1>8. QED BY <1>6, <1>7, FS_Subset

(* The loop of _run_worker and next_route: what lies ahead is finite and     *)
(* each step of a worker leaves less of it, so no schedule keeps the workers *)
(* of a scan phase busy for ever, alone or with one another.               *)
THEOREM WorkRunsOutHolds == AllocSpec => WorkRunsOut /\ []IsFiniteSet(Ahead)
<1>1. ASSUME TypeInv, Apart, AllocNext, ~ AllIdle, ~ AllIdle' PROVE Shrinks
  <2>1. \A b \in Blocks, cat \in Catalogs : ~ Dispatch(b, cat)
    BY <1>1 DEF Dispatch
  <2>2. ~ ExpireLeases /\ ~ Join
    BY <1>1 DEF ExpireLeases, Join, AllIdle
  <2>3. QED BY <1>1, <2>1, <2>2, WorkersProgress DEF AllocNext
<1>2. TypeInv /\ Apart /\ [AllocNext]_allocVars
        => [~ AllIdle /\ ~ AllIdle' => Shrinks]_allocVars
  BY <1>1
<1>3. TypeInv => IsFiniteSet(Ahead)
  BY AheadFinite DEF TypeInv
<1>4. QED
  BY <1>2, <1>3, TypeInit, TypeNext, ApartInit, ApartNext, PTL
  DEF AllocSpec, WorkRunsOut, Shrinks
=============================================================================
