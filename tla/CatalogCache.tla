---------------------------- MODULE CatalogCache ----------------------------
(***************************************************************************)
(* PnlSwarmSupervisor._build_catalog: the routes of one cycle, built on    *)
(* the CEO thread from two caches judged by a monotonic clock that is read *)
(* once, when the build starts.  A token, a pair and a venue are names; a  *)
(* route is a pair together with a venue it uses off Uniswap, and a pair   *)
(* stands for all its Uniswap two-pool cycles.  Clock values are ages in   *)
(* ticks.  The cache key is left out: it is computed from configuration    *)
(* that does not change within a process.  Three-hop cycles, which are     *)
(* derived from the rows of the same build, are left out too.              *)
(***************************************************************************)
EXTENDS Naturals, FiniteSets

CONSTANTS
  Tokens,       \* symbols of the lending pool's reserves
  Pairs,        \* <<base, quote>>: primary pairs of the workers
  Venues,       \* enabled venues other than Uniswap V3
  UniListed,    \* pairs with Uniswap V3 cycles on chain
  Listed,       \* <<pair, venue>>: routes that exist on chain
  StaticTTL,    \* static_metadata_refresh_s, in ticks
  TopologyTTL,  \* route_topology_refresh_s, in ticks
  BuildTime,    \* bound of the ticks a build takes
  RouteCap,     \* multidex_max_routes_per_pair; 0 is no cap
  Watched       \* a route whose faults the history variable records

ASSUME CatalogAssumption ==
  /\ Pairs \subseteq Tokens \X Tokens
  /\ UniListed \subseteq Pairs
  /\ Listed \subseteq Pairs \X Venues /\ IsFiniteSet(Listed)
  /\ Watched \in Listed
  /\ StaticTTL \in Nat /\ TopologyTTL \in Nat /\ BuildTime \in Nat
  /\ RouteCap \in Nat

VARIABLES
  staticCache,    \* _static_market_cache
  topologyCache,  \* _route_topology_cache
  build,          \* the build in progress
  catalog,        \* rows and registry of the last build that finished
  hole            \* history: age of the start of the last build in which a
                  \* reply about Watched was missing, up to Horizon

catalogVars == <<staticCache, topologyCache, build, catalog, hole>>

Horizon == StaticTTL + TopologyTTL
StaticCap == StaticTTL + BuildTime
TopologyCap == TopologyTTL + BuildTime
Unset == [set |-> FALSE]
NoRows == [uni |-> {}, multi |-> {}, errors |-> {}]
NoBuild == [phase |-> "idle", elapsed |-> 0, registry |-> {}, owed |-> FALSE,
            rows |-> NoRows]

Min2(a, b) == IF a < b THEN a ELSE b

Rows == [uni : SUBSET Pairs, multi : SUBSET Listed, errors : SUBSET Venues]
StaticCaches == [set : {TRUE}, age : 0..StaticCap, tokens : SUBSET Tokens]
TopologyCaches == [set : {TRUE}, age : 0..TopologyCap,
                   uni : SUBSET Pairs, multi : SUBSET Listed]
Builds == [phase : {"idle", "topology", "context"}, elapsed : 0..BuildTime,
           registry : SUBSET Tokens, owed : BOOLEAN, rows : Rows]
Catalogs == [set : {TRUE}, registry : SUBSET Tokens, owed : BOOLEAN,
             rows : Rows]

CatalogTypeOK ==
  /\ staticCache \in {Unset} \cup StaticCaches
  /\ topologyCache \in {Unset} \cup TopologyCaches
  /\ build \in Builds
  /\ catalog \in {Unset} \cup Catalogs
  /\ hole \in 0..Horizon

(* A new process: no attribute is set, nothing is known of earlier faults. *)
ColdCaches ==
  /\ staticCache = Unset /\ topologyCache = Unset
  /\ build = NoBuild /\ catalog = Unset
  /\ hole = Horizon

DropCaches ==
  /\ staticCache' = Unset /\ topologyCache' = Unset
  /\ build' = NoBuild /\ catalog' = Unset
  /\ hole' = Horizon

-----------------------------------------------------------------------------
Building == build.phase # "idle"

StaticFresh ==
  staticCache.set /\ StaticTTL > 0 /\ staticCache.age < StaticTTL

(* Both caches are judged by the clock as it was when the build started.   *)
TopologyFresh ==
  /\ topologyCache.set /\ TopologyTTL > 0
  /\ topologyCache.age < TopologyTTL + build.elapsed

Priced(p, registry) == {p[1], p[2]} \subseteq registry

(* _refresh_route_rows: a row whose tokens have no price now is dropped.    *)
RefreshRows(rows, registry) ==
  [uni |-> {p \in rows.uni : Priced(p, registry)},
   multi |-> {r \in rows.multi : Priced(r[1], registry)},
   errors |-> {}]

(* The rotating window of multidex_max_routes_per_pair: where it starts     *)
(* depends on the block number, so any window can be the one.              *)
Window(found, kept) ==
  /\ kept \subseteq found
  /\ \A p \in Pairs :
       LET all == {r \in found : r[1] = p}
       IN Cardinality({r \in kept : r[1] = p})
            = IF RouteCap = 0 THEN Cardinality(all)
                              ELSE Min2(RouteCap, Cardinality(all))

(* build_token_registry_batched: a reserve whose three replies are usable.  *)
BuildTokenRegistry(replied) == replied

(* refresh_token_prices_batched: new prices for the tokens known already.   *)
RefreshTokenPrices(tokens, replied) == tokens \cap replied

(* discover_uniswap_routes_many_batched: one strict batch for all pairs.    *)
DiscoverUniswap(registry) == {p \in UniListed : Priced(p, registry)}

(* What discover_pairs of a venue gives: a member of its batch that failed  *)
(* is silently no pool.                                                    *)
DiscoverPairs(venue, registry, lost) ==
  {r \in Listed : r[2] = venue /\ Priced(r[1], registry)} \ lost

(* discover_route_configs_many: a venue that raised or was still running at *)
(* the deadline is an error.  It is not called at all while no Uniswap      *)
(* route seeds a pair.                                                     *)
Discovered(uni, registry, errors, lost) ==
  IF uni = {} THEN {}
  ELSE UNION {DiscoverPairs(v, registry, lost) : v \in Venues \ errors}

-----------------------------------------------------------------------------
(* Tokens, from the static cache when it is fresh, all of them otherwise;   *)
(* "replied" are those whose metadata and price replies were usable.        *)
BuildRegistry(replied) ==
  LET registry == IF StaticFresh THEN RefreshTokenPrices(staticCache.tokens, replied)
                                 ELSE BuildTokenRegistry(replied)
      missing == ~ Priced(Watched[1], replied)
  IN /\ ~ Building
     /\ staticCache' = IF StaticFresh THEN staticCache
                       ELSE [set |-> TRUE, age |-> 0, tokens |-> registry]
     /\ hole' = IF missing THEN 0 ELSE hole
     /\ build' = [phase |-> "topology", elapsed |-> 0, registry |-> registry,
                  owed |-> ~ missing /\ hole = Horizon, rows |-> NoRows]
     /\ UNCHANGED <<topologyCache, catalog>>

(* The rows of a fresh topology cache.                                      *)
ReuseTopology ==
  /\ build.phase = "topology"
  /\ TopologyFresh
  /\ build' = [build EXCEPT !.phase = "context",
                            !.rows = RefreshRows(topologyCache, build.registry)]
  /\ UNCHANGED <<staticCache, topologyCache, catalog, hole>>

(* Faulty variant: the topology is cached although a venue failed. *)
CacheDespiteErrors(errors, lost, kept) ==
  LET uni == DiscoverUniswap(build.registry)
      asked == Discovered(uni, build.registry, errors, {})
  IN /\ build.phase = "topology" /\ ~ TopologyFresh
     /\ lost \subseteq asked
     /\ Window(Discovered(uni, build.registry, errors, lost), kept)
     /\ topologyCache' = [set |-> TRUE, age |-> build.elapsed, uni |-> uni, multi |-> kept]
     /\ hole' = IF Watched \in lost THEN Min2(build.elapsed, Horizon) ELSE hole
     /\ build' = [build EXCEPT !.phase = "context", !.owed = @ /\ Watched \notin lost,
          !.rows = [uni |-> uni, multi |-> kept, errors |-> errors]]
     /\ UNCHANGED <<staticCache, catalog>>

(* A new discovery.  It is cached under the clock reading of the start of   *)
(* the build, and only when no venue failed.                               *)
DiscoverTopology(errors, lost, kept) ==
  LET uni == DiscoverUniswap(build.registry)
      asked == Discovered(uni, build.registry, errors, {})
  IN /\ build.phase = "topology"
     /\ ~ TopologyFresh
     /\ lost \subseteq asked
     /\ Window(Discovered(uni, build.registry, errors, lost), kept)
     /\ uni = {} => errors = {}
     /\ topologyCache' =
          IF errors = {}
            THEN [set |-> TRUE, age |-> build.elapsed, uni |-> uni, multi |-> kept]
            ELSE topologyCache
     /\ hole' = IF Watched \in lost THEN Min2(build.elapsed, Horizon) ELSE hole
     /\ build' = [build EXCEPT
          !.phase = "context",
          !.owed = @ /\ Watched \notin lost,
          !.rows = [uni |-> uni, multi |-> kept, errors |-> errors]]
     /\ UNCHANGED <<staticCache, catalog>>

(* build_scan_context_batched: pool state of the rows at the same block.    *)
BuildContext ==
  /\ build.phase = "context"
  /\ catalog' = [set |-> TRUE, registry |-> build.registry,
                 owed |-> build.owed, rows |-> build.rows]
  /\ build' = NoBuild
  /\ UNCHANGED <<staticCache, topologyCache, hole>>

(* Faulty variant: what the failed build had so far is kept for the next. *)
RaiseHalfBuilt == UNCHANGED catalogVars

(* A strict read raises at any point: what was cached before stays cached.  *)
BuildRaises ==
  /\ build' = NoBuild
  /\ UNCHANGED <<staticCache, topologyCache, catalog, hole>>

BuildStep ==
  \/ \E replied \in SUBSET Tokens : BuildRegistry(replied)
  \/ ReuseTopology
  \/ \E errors \in SUBSET Venues, lost, kept \in SUBSET Listed :
       DiscoverTopology(errors, lost, kept)
  \/ BuildContext

Older(c, cap) == IF c.set THEN [c EXCEPT !.age = Min2(@ + 1, cap)] ELSE c

CatalogTick ==
  /\ Building => build.elapsed < BuildTime
  /\ staticCache' = Older(staticCache, StaticCap)
  /\ topologyCache' = Older(topologyCache, TopologyCap)
  /\ build' = IF Building THEN [build EXCEPT !.elapsed = @ + 1] ELSE build
  /\ hole' = Min2(hole + 1, Horizon)
  /\ UNCHANGED catalog
=============================================================================
