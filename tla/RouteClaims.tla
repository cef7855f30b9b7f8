----------------------------- MODULE RouteClaims -----------------------------
(***************************************************************************)
(* What the swarm promises about routes, without queues, threads or        *)
(* stealing: a (block, route) key is claimed by at most one worker, only   *)
(* its owner visits it, and nobody visits it twice between two expiries.   *)
(* WorkAllocator implements this specification.                            *)
(***************************************************************************)
EXTENDS Integers

CONSTANTS
  Worker,   \* the scanner workers
  Route,    \* canonical route ids
  Blocks,   \* block numbers a cycle may be pinned to
  Nobody    \* the owner of a key that is not leased

Key == Blocks \X Route

VARIABLES
  owner,    \* the worker holding the lease of each key, or Nobody
  visited   \* the keys scanned since their lease last expired

claimVars == <<owner, visited>>

ClaimsInit ==
  /\ owner = [k \in Key |-> Nobody]
  /\ visited = {}

(* A worker takes the lease of a free key. *)
Lease(w, k) ==
  /\ owner[k] = Nobody
  /\ owner' = [owner EXCEPT ![k] = w]
  /\ UNCHANGED visited

(* The owner scans the route of its key, once. *)
Visit(w, k) ==
  /\ owner[k] = w
  /\ k \notin visited
  /\ visited' = visited \cup {k}
  /\ UNCHANGED owner

(* Every lease of a block below cutoff is dropped, and may be taken again. *)
Expire(cutoff) ==
  /\ owner' = [k \in Key |-> IF k[1] < cutoff THEN Nobody ELSE owner[k]]
  /\ visited' = {k \in visited : k[1] >= cutoff}

ClaimsNext ==
  \/ \E w \in Worker, k \in Key : Lease(w, k) \/ Visit(w, k)
  \/ \E b \in Blocks : Expire(b + 1)

ClaimsSpec == ClaimsInit /\ [][ClaimsNext]_claimVars
=============================================================================
