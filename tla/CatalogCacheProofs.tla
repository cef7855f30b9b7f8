------------------------- MODULE CatalogCacheProofs -------------------------
(***************************************************************************)
(* How long a fault of one catalog build lasts, for any times to live, any *)
(* tokens, pairs and venues, and builds of any duration.                   *)
(***************************************************************************)
EXTENDS CatalogCache, TLAPS, FiniteSetTheorems

(* The watched route's pair and venue.                                      *)
Pair == Watched[1]
Venue == Watched[2]

(* Routes off Uniswap that say the pair is served there, the window         *)
(* permitting.                                                             *)
OwnIn(multi) == IF RouteCap = 0 THEN Watched \in multi ELSE \E r \in multi : r[1] = Pair

Whole(rows) == Pair \in rows.uni /\ OwnIn(rows.multi)
Served(rows) == Pair \in rows.uni /\ (Venue \in rows.errors \/ OwnIn(rows.multi))

-----------------------------------------------------------------------------
(* A fault is found to be as old as the build under way.                    *)
HoleInv == Building => Min2(build.elapsed, Horizon) <= hole

(* A static cache without a price for the pair was filled by that fault or  *)
(* by an earlier one.                                                      *)
StaticInv ==
  (staticCache.set /\ ~ Priced(Pair, staticCache.tokens) /\ staticCache.age < StaticTTL)
    => hole <= staticCache.age

(* The history variable claims no more than the build knows.                *)
OwedInv == build.owed => hole = Horizon /\ Priced(Pair, build.registry)

(* A registry without a price comes from the fault or from such a cache.    *)
RegistryInv ==
  (build.phase = "topology" /\ ~ Priced(Pair, build.registry))
    => hole <= StaticTTL + build.elapsed

(* So does a topology without the route, and it is out of date when the     *)
(* build under way owes the route.                                         *)
TopologyInv ==
  (topologyCache.set /\ Pair \in UniListed /\ ~ Whole(topologyCache)) =>
    /\ hole <= StaticTTL + topologyCache.age
    /\ (build.phase = "topology" /\ build.owed)
         => topologyCache.age >= TopologyTTL + build.elapsed

ServedInv ==
  /\ (build.phase = "context" /\ build.owed /\ Pair \in UniListed) => Served(build.rows)
  /\ (catalog.set /\ catalog.owed /\ Pair \in UniListed) => Served(catalog.rows)

CatalogInv ==
  CatalogTypeOK /\ HoleInv /\ StaticInv /\ OwedInv /\ RegistryInv /\ TopologyInv /\ ServedInv

-----------------------------------------------------------------------------
LEMMA Figures ==
  /\ StaticTTL \in Nat /\ TopologyTTL \in Nat /\ BuildTime \in Nat /\ RouteCap \in Nat
  /\ Horizon = StaticTTL + TopologyTTL /\ Horizon \in Nat
  /\ StaticCap = StaticTTL + BuildTime /\ StaticCap \in Nat
  /\ TopologyCap = TopologyTTL + BuildTime /\ TopologyCap \in Nat
  BY CatalogAssumption DEF Horizon, StaticCap, TopologyCap

LEMMA WatchedIs ==
  /\ Watched \in Listed /\ Watched[1] = Pair /\ Watched[2] = Venue
  /\ Pair \in Pairs /\ Venue \in Venues /\ IsFiniteSet(Listed)
  BY CatalogAssumption DEF Pair, Venue

LEMMA BuildFigures ==
  ASSUME CatalogTypeOK
  PROVE  /\ hole \in 0..Horizon /\ build \in Builds
         /\ build.elapsed \in 0..BuildTime /\ build.registry \in SUBSET Tokens
         /\ build.owed \in BOOLEAN /\ build.rows \in Rows
         /\ staticCache.set => /\ staticCache \in StaticCaches
                               /\ staticCache.age \in 0..StaticCap
                               /\ staticCache.tokens \in SUBSET Tokens
         /\ topologyCache.set => /\ topologyCache \in TopologyCaches
                                 /\ topologyCache.age \in 0..TopologyCap
                                 /\ topologyCache.uni \in SUBSET Pairs
                                 /\ topologyCache.multi \in SUBSET Listed
         /\ catalog.set => catalog \in Catalogs
<1>1. build \in Builds /\ hole \in 0..Horizon
  BY DEF CatalogTypeOK
<1>2. /\ build.elapsed \in 0..BuildTime /\ build.registry \in SUBSET Tokens
      /\ build.owed \in BOOLEAN /\ build.rows \in Rows
  BY <1>1 DEF Builds
<1>3. ~ Unset.set
  BY DEF Unset
<1>4. /\ staticCache.set => staticCache \in StaticCaches
      /\ topologyCache.set => topologyCache \in TopologyCaches
      /\ catalog.set => catalog \in Catalogs
  BY <1>3 DEF CatalogTypeOK
<1>5. \A c \in StaticCaches : c.age \in 0..StaticCap /\ c.tokens \in SUBSET Tokens
  BY DEF StaticCaches
<1>6. \A c \in TopologyCaches : c.age \in 0..TopologyCap /\ c.uni \in SUBSET Pairs
                                /\ c.multi \in SUBSET Listed
  BY DEF TopologyCaches
<1>7. QED BY <1>1, <1>2, <1>4, <1>5, <1>6

LEMMA NoBuildIs ==
  /\ NoBuild \in Builds /\ NoBuild.phase = "idle" /\ ~ NoBuild.owed
  /\ NoRows \in Rows /\ ~ Unset.set
<1>1. NoRows \in Rows
  BY DEF NoRows, Rows
<1>2. 0 \in 0..BuildTime
  BY Figures
<1>3. QED BY <1>1, <1>2 DEF NoBuild, Builds, Unset

(* A new process knows nothing and owes nothing.                            *)
LEMMA CatalogInit == ColdCaches => CatalogInv
<1> SUFFICES ASSUME ColdCaches PROVE CatalogInv
  OBVIOUS
<1>1. /\ staticCache = Unset /\ topologyCache = Unset /\ catalog = Unset
      /\ build = NoBuild /\ hole = Horizon
  BY DEF ColdCaches
<1>2. CatalogTypeOK
  BY <1>1, NoBuildIs, Figures DEF CatalogTypeOK
<1>3. HoleInv /\ StaticInv /\ OwedInv /\ RegistryInv /\ TopologyInv /\ ServedInv
  BY <1>1, NoBuildIs
  DEF HoleInv, StaticInv, OwedInv, RegistryInv, TopologyInv, ServedInv, Building
<1>4. QED BY <1>2, <1>3 DEF CatalogInv

LEMMA CatalogDrop == DropCaches => CatalogInv'
<1> SUFFICES ASSUME DropCaches PROVE CatalogInv'
  OBVIOUS
<1>1. /\ staticCache' = Unset /\ topologyCache' = Unset /\ catalog' = Unset
      /\ build' = NoBuild /\ hole' = Horizon
  BY DEF DropCaches
<1>2. CatalogTypeOK'
  BY <1>1, NoBuildIs, Figures DEF CatalogTypeOK
<1>3. (HoleInv /\ StaticInv /\ OwedInv /\ RegistryInv /\ TopologyInv /\ ServedInv)'
  BY <1>1, NoBuildIs
  DEF HoleInv, StaticInv, OwedInv, RegistryInv, TopologyInv, ServedInv, Building
<1>4. QED BY <1>2, <1>3 DEF CatalogInv

LEMMA CatalogRaises == CatalogInv /\ BuildRaises => CatalogInv'
<1> SUFFICES ASSUME CatalogInv, BuildRaises PROVE CatalogInv'
  OBVIOUS
<1>1. build' = NoBuild /\ UNCHANGED <<staticCache, topologyCache, catalog, hole>>
  BY DEF BuildRaises
<1>2. CatalogTypeOK'
  BY <1>1, NoBuildIs DEF CatalogInv, CatalogTypeOK
<1>3. (HoleInv /\ StaticInv /\ OwedInv /\ RegistryInv)'
  BY <1>1, NoBuildIs DEF CatalogInv, HoleInv, StaticInv, OwedInv, RegistryInv, Building
<1>4. (TopologyInv /\ ServedInv)'
  BY <1>1, NoBuildIs DEF CatalogInv, TopologyInv, ServedInv
<1>5. QED BY <1>2, <1>3, <1>4 DEF CatalogInv

LEMMA CatalogStutters == CatalogInv /\ UNCHANGED catalogVars => CatalogInv'
  BY DEF catalogVars, CatalogInv, CatalogTypeOK, HoleInv, StaticInv, OwedInv, RegistryInv,
         TopologyInv, ServedInv, Building

-----------------------------------------------------------------------------
(* Time ages faults and caches alike.                                       *)
LEMMA StaticAges ==
  ASSUME NEW c \in StaticCaches
  PROVE  LET d == Older(c, StaticCap)
         IN /\ d \in StaticCaches /\ d.set /\ c.set /\ d.tokens = c.tokens
            /\ d.age = Min2(c.age + 1, StaticCap)
<1> DEFINE next == Min2(c.age + 1, StaticCap)
<1>1. c.set /\ Older(c, StaticCap) = [c EXCEPT !.age = next]
  BY DEF StaticCaches, Older
<1>2. next \in 0..StaticCap
  BY Figures DEF StaticCaches, Min2
<1> HIDE DEF next
<1>3. [c EXCEPT !.age = next] \in StaticCaches /\ [c EXCEPT !.age = next].age = next
      /\ [c EXCEPT !.age = next].set /\ [c EXCEPT !.age = next].tokens = c.tokens
  BY <1>2 DEF StaticCaches
<1>4. QED BY <1>1, <1>3 DEF next

LEMMA TopologyAges ==
  ASSUME NEW c \in TopologyCaches
  PROVE  LET d == Older(c, TopologyCap)
         IN /\ d \in TopologyCaches /\ d.set /\ c.set /\ d.uni = c.uni /\ d.multi = c.multi
            /\ d.age = Min2(c.age + 1, TopologyCap)
<1> DEFINE next == Min2(c.age + 1, TopologyCap)
<1>1. c.set /\ Older(c, TopologyCap) = [c EXCEPT !.age = next]
  BY DEF TopologyCaches, Older
<1>2. next \in 0..TopologyCap
  BY Figures DEF TopologyCaches, Min2
<1> HIDE DEF next
<1>3. [c EXCEPT !.age = next] \in TopologyCaches /\ [c EXCEPT !.age = next].age = next
      /\ [c EXCEPT !.age = next].set /\ [c EXCEPT !.age = next].uni = c.uni
      /\ [c EXCEPT !.age = next].multi = c.multi
  BY <1>2 DEF TopologyCaches
<1>4. QED BY <1>1, <1>3 DEF next

LEMMA CatalogTicks == CatalogInv /\ CatalogTick => CatalogInv'
<1> SUFFICES ASSUME CatalogInv, CatalogTick PROVE CatalogInv'
  OBVIOUS
<1>0. CatalogTypeOK
  BY DEF CatalogInv
<1>1. /\ staticCache' = Older(staticCache, StaticCap)
      /\ topologyCache' = Older(topologyCache, TopologyCap)
      /\ build' = IF Building THEN [build EXCEPT !.elapsed = @ + 1] ELSE build
      /\ hole' = Min2(hole + 1, Horizon) /\ catalog' = catalog
      /\ Building => build.elapsed < BuildTime
  BY DEF CatalogTick
<1>2. /\ build' \in Builds
      /\ build'.phase = build.phase /\ build'.registry = build.registry
      /\ build'.owed = build.owed /\ build'.rows = build.rows
      /\ build'.elapsed = IF Building THEN build.elapsed + 1 ELSE build.elapsed
  BY <1>0, <1>1, BuildFigures, Figures DEF Builds
<1>3. /\ staticCache'.set = staticCache.set
      /\ staticCache.set => /\ staticCache' \in StaticCaches
                            /\ staticCache'.tokens = staticCache.tokens
                            /\ staticCache'.age = Min2(staticCache.age + 1, StaticCap)
  <2>1. CASE staticCache.set
    BY <2>1, <1>0, <1>1, BuildFigures, StaticAges
  <2>2. CASE ~ staticCache.set
    BY <2>2, <1>1 DEF Older
  <2>3. QED BY <2>1, <2>2
<1>4. /\ topologyCache'.set = topologyCache.set
      /\ topologyCache.set => /\ topologyCache' \in TopologyCaches
                              /\ topologyCache'.uni = topologyCache.uni
                              /\ topologyCache'.multi = topologyCache.multi
                              /\ topologyCache'.age = Min2(topologyCache.age + 1, TopologyCap)
  <2>1. CASE topologyCache.set
    BY <2>1, <1>0, <1>1, BuildFigures, TopologyAges
  <2>2. CASE ~ topologyCache.set
    BY <2>2, <1>1 DEF Older
  <2>3. QED BY <2>1, <2>2
<1>5. hole' \in 0..Horizon
  BY <1>0, <1>1, BuildFigures, Figures DEF Min2
<1>6. CatalogTypeOK'
  <2>1. ~ staticCache.set => staticCache' = staticCache
    BY <1>1 DEF Older
  <2>2. ~ topologyCache.set => topologyCache' = topologyCache
    BY <1>1 DEF Older
  <2>3. QED BY <1>0, <1>1, <1>2, <1>3, <1>4, <1>5, <2>1, <2>2 DEF CatalogTypeOK
<1>7. HoleInv'
  BY <1>0, <1>1, <1>2, BuildFigures, Figures DEF CatalogInv, HoleInv, Building, Min2
<1>8. StaticInv'
  BY <1>0, <1>1, <1>3, BuildFigures, Figures DEF CatalogInv, StaticInv, Min2
<1>9. OwedInv'
  BY <1>0, <1>1, <1>2, BuildFigures, Figures DEF CatalogInv, OwedInv, Min2
<1>10. RegistryInv'
  BY <1>0, <1>1, <1>2, BuildFigures, Figures DEF CatalogInv, RegistryInv, Building, Min2
<1>11. TopologyInv'
  <2>1. topologyCache.set => Whole(topologyCache') = Whole(topologyCache)
    BY <1>4 DEF Whole
  <2>2. ASSUME topologyCache.set, Pair \in UniListed, ~ Whole(topologyCache)
        PROVE  /\ hole' <= StaticTTL + topologyCache'.age
               /\ (build'.phase = "topology" /\ build'.owed)
                    => topologyCache'.age >= TopologyTTL + build'.elapsed
    BY <1>0, <1>1, <1>2, <1>4, <2>2, BuildFigures, Figures
    DEF CatalogInv, TopologyInv, Building, Min2
  <2>3. QED BY <1>4, <2>1, <2>2 DEF TopologyInv
<1>12. ServedInv'
  BY <1>1, <1>2 DEF CatalogInv, ServedInv
<1>13. QED BY <1>6, <1>7, <1>8, <1>9, <1>10, <1>11, <1>12 DEF CatalogInv

-----------------------------------------------------------------------------
(* A window over a pair's routes holds the watched one, or, when it is      *)
(* capped, at least one of them.                                           *)
LEMMA WindowServes ==
  ASSUME NEW found \in SUBSET Listed, NEW kept, Window(found, kept), Watched \in found
  PROVE  OwnIn(kept)
<1> DEFINE All == {r \in found : r[1] = Pair}
           Kept == {r \in kept : r[1] = Pair}
<1>1. /\ Kept \in SUBSET All /\ Watched \in All
      /\ Cardinality(Kept) = IF RouteCap = 0 THEN Cardinality(All)
                                             ELSE Min2(RouteCap, Cardinality(All))
  BY WatchedIs DEF Window
<1>2. IsFiniteSet(All) /\ Cardinality(All) \in Nat
  <2>1. All \in SUBSET Listed
    OBVIOUS
  <2> HIDE DEF All
  <2>2. QED BY <2>1, WatchedIs, FS_Subset, FS_CardinalityType
<1>3. Kept \in SUBSET kept /\ \A r \in Kept : r[1] = Pair
  OBVIOUS
<1> HIDE DEF All, Kept
<1>4. CASE RouteCap = 0
  <2>1. All = Kept
    BY <1>1, <1>2, <1>4, FS_Subset
  <2>2. QED BY <1>1, <1>3, <1>4, <2>1 DEF OwnIn
<1>5. CASE RouteCap # 0
  <2>1. Cardinality(All) # 0
    BY <1>1, <1>2, FS_EmptySet
  <2>2. Cardinality(Kept) # 0
    BY <1>1, <1>2, <1>5, <2>1, Figures DEF Min2
  <2>3. Kept # {}
    BY <2>2, FS_EmptySet
  <2>4. QED BY <1>3, <1>5, <2>3 DEF OwnIn
<1>6. QED BY <1>4, <1>5

(* Reading the tokens: only a reply that is missing now, or one that a      *)
(* cache still fresh was filled without, leaves the pair without a price.  *)
LEMMA CatalogRegisters ==
  ASSUME CatalogInv, NEW replied \in SUBSET Tokens, BuildRegistry(replied)
  PROVE  CatalogInv'
<1> DEFINE registry == IF StaticFresh THEN RefreshTokenPrices(staticCache.tokens, replied)
                                      ELSE BuildTokenRegistry(replied)
           missing == ~ Priced(Pair, replied)
           owed == ~ missing /\ hole = Horizon
<1>0. CatalogTypeOK
  BY DEF CatalogInv
<1>1. /\ ~ Building
      /\ staticCache' = IF StaticFresh THEN staticCache
                        ELSE [set |-> TRUE, age |-> 0, tokens |-> registry]
      /\ hole' = IF missing THEN 0 ELSE hole
      /\ build' = [phase |-> "topology", elapsed |-> 0, registry |-> registry,
                   owed |-> owed, rows |-> NoRows]
      /\ UNCHANGED <<topologyCache, catalog>>
  BY DEF BuildRegistry, Pair
<1>2. /\ StaticFresh => /\ staticCache.set /\ staticCache.age < StaticTTL
                        /\ registry = staticCache.tokens \cap replied
      /\ ~ StaticFresh => registry = replied
  BY DEF StaticFresh, RefreshTokenPrices, BuildTokenRegistry
<1>3. registry \in SUBSET Tokens
  BY <1>0, <1>2, BuildFigures
<1>4. hole' \in 0..Horizon /\ hole' <= hole /\ hole' >= 0
  <2>1. hole \in 0..Horizon /\ Horizon \in Nat /\ (hole' = 0 \/ hole' = hole)
    BY <1>0, <1>1, BuildFigures, Figures
  <2>2. QED BY <2>1
<1>5. /\ build' \in Builds /\ build'.phase = "topology" /\ build'.elapsed = 0
      /\ build'.registry = registry /\ build'.owed = owed
  <2>1. 0 \in 0..BuildTime /\ owed \in BOOLEAN
    BY Figures
  <2> HIDE DEF registry, owed
  <2>2. QED BY <1>1, <1>3, <2>1, NoBuildIs DEF Builds
<1>6. ~ Priced(Pair, registry) =>
        missing \/ (StaticFresh /\ ~ Priced(Pair, staticCache.tokens))
  BY <1>2 DEF Priced
<1>7. ~ Priced(Pair, registry) => hole' <= StaticTTL
  BY <1>0, <1>1, <1>2, <1>4, <1>6, BuildFigures, Figures DEF CatalogInv, StaticInv
<1>8. owed => hole' = Horizon /\ Priced(Pair, registry)
  <2>1. CASE Priced(Pair, registry)
    BY <1>1, <2>1
  <2>2. CASE ~ Priced(Pair, registry) /\ ~ missing
    <3>1. hole <= staticCache.age /\ staticCache.age < StaticTTL
      BY <1>2, <1>6, <2>2 DEF CatalogInv, StaticInv
    <3>2. hole # Horizon
      BY <3>1, <1>0, <1>2, <1>6, <2>2, BuildFigures, Figures
    <3>3. QED BY <3>2
  <2>3. QED BY <2>1, <2>2
<1>9. StaticInv'
  <2>1. CASE StaticFresh
    BY <2>1, <1>0, <1>1, <1>2, <1>4, BuildFigures, Figures DEF CatalogInv, StaticInv
  <2>2. CASE ~ StaticFresh
    <3>1. staticCache'.tokens = replied /\ staticCache'.age = 0
      BY <2>2, <1>1, <1>2
    <3>2. QED BY <3>1, <1>1 DEF StaticInv
  <2>3. QED BY <2>1, <2>2
<1>10. CatalogTypeOK'
  <2>1. ~ StaticFresh => staticCache' \in StaticCaches
    <3>1. 0 \in 0..StaticCap
      BY Figures
    <3> HIDE DEF registry
    <3>2. QED BY <1>1, <1>3, <3>1 DEF StaticCaches
  <2>2. StaticFresh => staticCache' = staticCache
    BY <1>1
  <2>3. QED BY <1>0, <1>1, <1>4, <1>5, <2>1, <2>2 DEF CatalogTypeOK
<1> HIDE DEF registry, owed, missing
<1>11. HoleInv' /\ OwedInv' /\ RegistryInv'
  BY <1>4, <1>5, <1>7, <1>8, Figures DEF HoleInv, OwedInv, RegistryInv, Min2
<1>12. TopologyInv'
  <2> SUFFICES ASSUME topologyCache.set, Pair \in UniListed, ~ Whole(topologyCache)
               PROVE  /\ hole' <= StaticTTL + topologyCache.age
                      /\ owed => topologyCache.age >= TopologyTTL
    BY <1>1, <1>5, BuildFigures, <1>0, Figures DEF TopologyInv
  <2>1. hole <= StaticTTL + topologyCache.age
    BY DEF CatalogInv, TopologyInv
  <2>2. QED BY <1>0, <1>4, <1>8, <2>1, BuildFigures, Figures
<1>13. ServedInv'
  BY <1>1, <1>5 DEF CatalogInv, ServedInv
<1>14. QED BY <1>9, <1>10, <1>11, <1>12, <1>13 DEF CatalogInv

(* Reusing the topology: one that is fresh is old enough to hold the route  *)
(* whenever the build owes it.                                             *)
LEMMA CatalogReuses == CatalogInv /\ ReuseTopology => CatalogInv'
<1> SUFFICES ASSUME CatalogInv, ReuseTopology PROVE CatalogInv'
  OBVIOUS
<1> DEFINE rows == RefreshRows(topologyCache, build.registry)
<1>0. CatalogTypeOK
  BY DEF CatalogInv
<1>1. /\ build.phase = "topology" /\ topologyCache.set
      /\ topologyCache.age < TopologyTTL + build.elapsed
      /\ build' = [build EXCEPT !.phase = "context", !.rows = rows]
      /\ UNCHANGED <<staticCache, topologyCache, catalog, hole>>
  BY DEF ReuseTopology, TopologyFresh
<1>2. rows \in Rows
  <2>1. /\ {p \in topologyCache.uni : Priced(p, build.registry)} \in SUBSET Pairs
        /\ {r \in topologyCache.multi : Priced(r[1], build.registry)} \in SUBSET Listed
    BY <1>0, <1>1, BuildFigures
  <2>2. QED BY <2>1 DEF RefreshRows, Rows
<1>3. Whole(topologyCache) /\ Priced(Pair, build.registry) => Served(rows)
  <2> SUFFICES ASSUME Whole(topologyCache), Priced(Pair, build.registry)
               PROVE  Pair \in rows.uni /\ OwnIn(rows.multi)
    BY DEF Served
  <2>1. /\ rows.uni = {p \in topologyCache.uni : Priced(p, build.registry)}
        /\ rows.multi = {r \in topologyCache.multi : Priced(r[1], build.registry)}
    BY DEF RefreshRows
  <2>2. \A r \in topologyCache.multi : r[1] = Pair => r \in rows.multi
    BY <2>1
  <2>3. QED BY <2>1, <2>2, WatchedIs DEF Whole, OwnIn
<1> HIDE DEF rows
<1>4. /\ build' \in Builds /\ build'.phase = "context" /\ build'.elapsed = build.elapsed
      /\ build'.registry = build.registry /\ build'.owed = build.owed /\ build'.rows = rows
  BY <1>0, <1>1, <1>2, BuildFigures DEF Builds
<1>5. CatalogTypeOK'
  BY <1>0, <1>1, <1>4 DEF CatalogTypeOK
<1>6. (HoleInv /\ StaticInv /\ OwedInv /\ RegistryInv)'
  BY <1>1, <1>4 DEF CatalogInv, HoleInv, StaticInv, OwedInv, RegistryInv, Building
<1>7. TopologyInv'
  BY <1>1, <1>4 DEF CatalogInv, TopologyInv, Whole
<1>8. build.owed /\ Pair \in UniListed => Served(rows)
  <2> SUFFICES ASSUME build.owed, Pair \in UniListed PROVE Served(rows)
    OBVIOUS
  <2>1. Priced(Pair, build.registry)
    BY DEF CatalogInv, OwedInv
  <2>2. Whole(topologyCache) \/ topologyCache.age >= TopologyTTL + build.elapsed
    BY <1>1 DEF CatalogInv, TopologyInv
  <2>3. ~ (topologyCache.age >= TopologyTTL + build.elapsed)
    BY <1>0, <1>1, BuildFigures, Figures
  <2>4. QED BY <1>3, <2>1, <2>2, <2>3
<1>9. ServedInv'
  BY <1>1, <1>4, <1>8 DEF CatalogInv, ServedInv
<1>10. QED BY <1>5, <1>6, <1>7, <1>9 DEF CatalogInv

(* A discovery of which no reply about the watched route was lost finds it  *)
(* off Uniswap, or its venue failed.                                       *)
LEMMA DiscoveryFinds ==
  ASSUME NEW registry \in SUBSET Tokens, NEW errors \in SUBSET Venues,
         NEW lost \in SUBSET Listed, NEW kept,
         Pair \in UniListed, Priced(Pair, registry),
         Window(Discovered(DiscoverUniswap(registry), registry, errors, lost), kept),
         Watched \notin lost, Venue \notin errors
  PROVE  OwnIn(kept)
<1> DEFINE uni == DiscoverUniswap(registry)
           found == Discovered(uni, registry, errors, lost)
<1>1. Pair \in uni
  BY DEF DiscoverUniswap
<1>2. found = UNION {DiscoverPairs(v, registry, lost) : v \in Venues \ errors}
  BY <1>1 DEF Discovered
<1>3. \A v \in Venues : DiscoverPairs(v, registry, lost) \in SUBSET Listed
  BY DEF DiscoverPairs
<1>4. Watched \in DiscoverPairs(Venue, registry, lost)
  BY WatchedIs DEF DiscoverPairs
<1>5. Venue \in Venues \ errors
  BY WatchedIs
<1>6. found \in SUBSET Listed /\ Watched \in found
  BY <1>2, <1>3, <1>4, <1>5
<1>7. Window(found, kept)
  OBVIOUS
<1> HIDE DEF uni, found
<1>8. QED BY <1>6, <1>7, WindowServes

(* Discovering the topology: only a reply that is lost now, or a registry   *)
(* without a price, leaves the route out of what is cached.                *)
LEMMA CatalogDiscovers ==
  ASSUME CatalogInv,
         NEW errors \in SUBSET Venues, NEW lost \in SUBSET Listed, NEW kept \in SUBSET Listed,
         DiscoverTopology(errors, lost, kept)
  PROVE  CatalogInv'
<1> DEFINE uni == DiscoverUniswap(build.registry)
           rows == [uni |-> uni, multi |-> kept, errors |-> errors]
           fresh == [set |-> TRUE, age |-> build.elapsed, uni |-> uni, multi |-> kept]
           owed == build.owed /\ Watched \notin lost
<1>0. CatalogTypeOK
  BY DEF CatalogInv
<1>1. /\ build.phase = "topology"
      /\ Window(Discovered(uni, build.registry, errors, lost), kept)
      /\ topologyCache' = IF errors = {} THEN fresh ELSE topologyCache
      /\ hole' = IF Watched \in lost THEN Min2(build.elapsed, Horizon) ELSE hole
      /\ build' = [build EXCEPT !.phase = "context", !.owed = owed, !.rows = rows]
      /\ UNCHANGED <<staticCache, catalog>>
  BY DEF DiscoverTopology
<1>2. uni \in SUBSET Pairs
  BY CatalogAssumption DEF DiscoverUniswap
<1>3. Pair \in UniListed /\ Priced(Pair, build.registry) => Pair \in uni
  BY DEF DiscoverUniswap
<1>4. Pair \in UniListed /\ Priced(Pair, build.registry)
        /\ Watched \notin lost /\ Venue \notin errors => OwnIn(kept)
  BY <1>0, <1>1, BuildFigures, DiscoveryFinds
<1>5. rows \in Rows /\ rows.uni = uni /\ rows.multi = kept /\ rows.errors = errors
  BY <1>2 DEF Rows
<1>6. /\ fresh.set /\ fresh.age = build.elapsed
      /\ (Whole(fresh) = (Pair \in uni /\ OwnIn(kept)))
  BY DEF Whole
<1>7. fresh \in TopologyCaches
  <2>1. build.elapsed \in 0..TopologyCap
    BY <1>0, BuildFigures, Figures
  <2> HIDE DEF uni
  <2>2. QED BY <1>2, <2>1 DEF TopologyCaches
<1> HIDE DEF uni, rows, fresh
<1>8. owed \in BOOLEAN
  BY <1>0, BuildFigures
<1> HIDE DEF owed
<1>9. /\ build' \in Builds /\ build'.phase = "context" /\ build'.elapsed = build.elapsed
      /\ build'.registry = build.registry /\ build'.owed = owed /\ build'.rows = rows
  BY <1>0, <1>1, <1>5, <1>8, BuildFigures DEF Builds
<1>10. Min2(build.elapsed, Horizon) <= hole
  BY <1>1 DEF CatalogInv, HoleInv, Building
<1>11. /\ hole' \in 0..Horizon /\ hole' <= hole /\ Min2(build.elapsed, Horizon) <= hole'
       /\ Watched \in lost => hole' <= build.elapsed
  <2>1. /\ hole \in 0..Horizon /\ Horizon \in Nat /\ build.elapsed \in Nat
        /\ Min2(build.elapsed, Horizon) \in 0..Horizon
        /\ Min2(build.elapsed, Horizon) <= build.elapsed
    BY <1>0, BuildFigures, Figures DEF Min2
  <2>2. QED BY <1>1, <1>10, <2>1
<1>12. CatalogTypeOK'
  BY <1>0, <1>1, <1>7, <1>9, <1>11 DEF CatalogTypeOK
<1>13. HoleInv' /\ RegistryInv'
  BY <1>9, <1>11 DEF HoleInv, RegistryInv
<1>14. StaticInv'
  BY <1>0, <1>1, <1>11, BuildFigures, Figures DEF CatalogInv, StaticInv
<1>15. OwedInv'
  BY <1>1, <1>9 DEF CatalogInv, OwedInv, owed
<1>16. TopologyInv'
  <2>1. CASE errors = {}
    <3>1. topologyCache' = fresh
      BY <2>1, <1>1
    <3>2. ASSUME Pair \in UniListed, ~ Whole(fresh)
          PROVE  hole' <= StaticTTL + fresh.age
      <4>1. CASE Watched \in lost
        BY <4>1, <1>0, <1>6, <1>11, BuildFigures, Figures
      <4>2. CASE ~ Priced(Pair, build.registry)
        <5>1. hole <= StaticTTL + build.elapsed
          BY <4>2, <1>1 DEF CatalogInv, RegistryInv
        <5>2. QED BY <5>1, <1>0, <1>6, <1>11, BuildFigures, Figures
      <4>3. QED BY <4>1, <4>2, <3>2, <2>1, <1>3, <1>4, <1>6
    <3>3. QED BY <3>1, <3>2, <1>9 DEF TopologyInv
  <2>2. CASE errors # {}
    <3>1. topologyCache' = topologyCache
      BY <2>2, <1>1
    <3>2. ASSUME topologyCache.set, Pair \in UniListed, ~ Whole(topologyCache)
          PROVE  hole' <= StaticTTL + topologyCache.age
      <4>1. hole <= StaticTTL + topologyCache.age
        BY <3>2 DEF CatalogInv, TopologyInv
      <4>2. QED BY <4>1, <3>2, <1>0, <1>11, BuildFigures, Figures
    <3>3. QED BY <3>1, <3>2, <1>9 DEF TopologyInv, Whole
  <2>3. QED BY <2>1, <2>2
<1>17. owed /\ Pair \in UniListed => Served(rows)
  BY <1>3, <1>4, <1>5 DEF CatalogInv, OwedInv, owed, Served
<1>18. ServedInv'
  BY <1>1, <1>9, <1>17 DEF CatalogInv, ServedInv
<1>19. QED BY <1>12, <1>13, <1>14, <1>15, <1>16, <1>18 DEF CatalogInv

LEMMA CatalogFinishes == CatalogInv /\ BuildContext => CatalogInv'
<1> SUFFICES ASSUME CatalogInv, BuildContext PROVE CatalogInv'
  OBVIOUS
<1> DEFINE done == [set |-> TRUE, registry |-> build.registry,
                    owed |-> build.owed, rows |-> build.rows]
<1>0. CatalogTypeOK
  BY DEF CatalogInv
<1>1. /\ build.phase = "context" /\ catalog' = done /\ build' = NoBuild
      /\ UNCHANGED <<staticCache, topologyCache, hole>>
  BY DEF BuildContext
<1>2. done \in Catalogs /\ done.owed = build.owed /\ done.rows = build.rows
  BY <1>0, BuildFigures DEF Catalogs
<1> HIDE DEF done
<1>3. CatalogTypeOK'
  BY <1>0, <1>1, <1>2, NoBuildIs DEF CatalogTypeOK
<1>4. (HoleInv /\ StaticInv /\ OwedInv /\ RegistryInv)'
  BY <1>1, NoBuildIs DEF CatalogInv, HoleInv, StaticInv, OwedInv, RegistryInv, Building
<1>5. (TopologyInv /\ ServedInv)'
  BY <1>1, <1>2, NoBuildIs DEF CatalogInv, TopologyInv, ServedInv, Whole
<1>6. QED BY <1>3, <1>4, <1>5 DEF CatalogInv

LEMMA CatalogBuilds == CatalogInv /\ BuildStep => CatalogInv'
  BY CatalogRegisters, CatalogReuses, CatalogDiscovers, CatalogFinishes DEF BuildStep

=============================================================================
