------------------------------ MODULE ExprJit_proofs ------------------------------
(***************************************************************************)
(* Proofs about the requests of the CPU filter, for any number of them, of *)
(* filters, planes and tiles: the field "compiled", which no mutex guards, *)
(* never makes a request call a function of another expression; a tile     *)
(* that is published is compiled; no request keeps frames.                 *)
(*                                                                         *)
(* MutexInv says who is in the critical section, PlaceInv which plane and  *)
(* tile a request is busy with, CacheInv what is in the cache when a       *)
(* request relies on it, and SymbolInv how the cache and the symbols of    *)
(* the JIT correspond as long as no compilation has failed.                *)
(***************************************************************************)
EXTENDS ExprJit, FiniteSetTheorems, TLAPS

Locked == {"check", "compile", "tune_check", "tune_compile"}
MutexInv == \A f \in Frames : pc[f] \in Locked <=> cache_mutex = f

\* Where a request is busy with a plane, and with a tile.
Busy == {"lookup", "publish", "call", "next"}
Tiled == {"lock", "check", "compile", "tune_lock", "tune_check", "tune_compile", "measure", "assign"}
PlaceInv ==
    \A f \in Frames :
        /\ pc[f] \in Busy \cup Tiled => plane[f] \in Planes
        /\ pc[f] \in Tiled => tile[f] \in Tiles
        /\ pc[f] = "publish" => best[f] \in Tiles

Cached(k, t) == <<k, t>> \in jit_cache
FieldsCached ==
    \A d \in Filters, p \in Planes :
        compiled[d][p] # NoFunction => compiled[d][p] \in jit_cache /\ compiled[d][p][1] = Key[d][p]
TunedCached == \A k \in Keys : tuned[k] # NoTile => Cached(k, tuned[k])
Tuning == {"tune_lock", "tune_check", "tune_compile", "measure", "publish"}
RequestCached(f) ==
    /\ pc[f] \in {"measure", "assign"} => Cached(MyKey(f), tile[f])
    /\ pc[f] \in Tuning /\ best[f] # NoTile => Cached(MyKey(f), best[f])
    /\ pc[f] = "call" => Mine(f) # NoFunction
CacheInv == FieldsCached /\ TunedCached /\ \A f \in Frames : RequestCached(f)

CalledInv ==
    \A f \in Frames :
        /\ pc[f] \in {"idle", "plane"} => called[f] = {}
        /\ \A fn \in called[f] : fn \in jit_cache /\ fn[1] = MyKey(f)

Failed == \E f \in Frames : pc[f] = "failed"
SymbolInv ==
    /\ \A f \in Frames : pc[f] \in {"compile", "tune_compile"} => ~Cached(MyKey(f), tile[f])
    /\ \A fn \in jit_cache : \E p \in Planes : <<p, fn[1], fn[2]>> \in symbols
    /\ ~Failed => \A s \in symbols : Cached(s[2], s[3])
    /\ ~Failed => \A s, t \in symbols : s[2] = t[2] /\ s[3] = t[3] => s[1] = t[1]

RefsInv == \A f \in Frames : refs[f] = IF pc[f] \in {"idle", "done", "failed"} THEN 0 ELSE NumInputs + 1

IInv == TypeOK /\ MutexInv /\ PlaceInv /\ CacheInv /\ CalledInv /\ SymbolInv /\ RefsInv

-------------------------------------------------------------------------------

\* The tiles start with 1, and 0 is none of them.
LEMMA TileFacts == 1 \in Tiles /\ NoTile \notin Tiles /\ AutoTile \notin Tiles /\ Tiles \subseteq Nat
<1>1. Cardinality(Tiles) \in Nat
  BY FS_CardinalityType, JitAssumption
<1>2. PICK x : x \in Tiles
  BY JitAssumption
<1>3. x \in 1 .. Cardinality(Tiles)
  BY <1>2, JitAssumption
<1>4. 1 <= Cardinality(Tiles)
  BY <1>1, <1>3
<1>5. Tiles = 1 .. Cardinality(Tiles)
  BY JitAssumption
<1> QED
  BY <1>1, <1>4, <1>5 DEF NoTile, AutoTile

LEMMA KeyInKeys == ASSUME NEW d \in Filters, NEW p \in Planes PROVE Key[d][p] \in Keys
BY DEF Keys

LEMMA MyKeyInKeys == ASSUME NEW f \in Frames, plane[f] \in Planes PROVE MyKey(f) \in Keys /\ FilterOf[f] \in Filters
BY KeyInKeys, JitAssumption DEF MyKey

\* A request that does not move keeps what it relies on while the cache grows.
LEMMA OthersRely ==
    ASSUME NEW g \in Frames, RequestCached(g), jit_cache \subseteq jit_cache',
           pc'[g] = pc[g], plane'[g] = plane[g], tile'[g] = tile[g], best'[g] = best[g],
           pc[g] = "call" /\ Mine(g) # NoFunction => Mine(g)' # NoFunction
    PROVE  RequestCached(g)'
BY DEF RequestCached, Cached, MyKey, Tuning

LEMMA InitHolds == Init => IInv
<1> SUFFICES ASSUME Init PROVE IInv
  OBVIOUS
<1>1. TypeOK
  BY JitAssumption DEF Init, TypeOK, Planes
<1>2. MutexInv /\ PlaceInv /\ CalledInv /\ RefsInv
  BY JitAssumption DEF Init, MutexInv, PlaceInv, CalledInv, RefsInv, Locked, Busy, Tiled, Nobody
<1>3. CacheInv /\ SymbolInv
  BY DEF Init, CacheInv, FieldsCached, TunedCached, RequestCached, Tuning, SymbolInv, Failed
<1> QED
  BY <1>1, <1>2, <1>3 DEF IInv

-------------------------------------------------------------------------------
\* What CheckCompiled does, with its choice as a disjunction.
LEMMA CheckCompiledSteps ==
    ASSUME IInv, NEW f \in Frames, CheckCompiled(f)
    PROVE  /\ pc[f] = "plane" /\ plane[f] \in Planes /\ UNCHANGED <<shared, plane, best, refs, called>>
           /\ \/ pc' = [pc EXCEPT ![f] = "call"] /\ tile' = tile /\ Mine(f) # NoFunction
              \/ pc' = [pc EXCEPT ![f] = "lookup"] /\ tile' = tile
              \/ /\ pc' = [pc EXCEPT ![f] = "lock"] /\ TileOf[FilterOf[f]] \in Tiles
                 /\ tile' = [tile EXCEPT ![f] = TileOf[FilterOf[f]]]
<1>1. TileOf[FilterOf[f]] \in Tiles \cup {AutoTile}
  BY JitAssumption
<1>2. plane[f] \in Planes
  BY JitAssumption DEF CheckCompiled, Planes
<1>3. CASE Mine(f) # NoFunction
  BY <1>2, <1>3 DEF CheckCompiled, GoTo
<1>4. CASE Mine(f) = NoFunction /\ TileOf[FilterOf[f]] # AutoTile
  BY <1>1, <1>2, <1>4 DEF CheckCompiled, GoTo
<1>5. CASE Mine(f) = NoFunction /\ TileOf[FilterOf[f]] = AutoTile
  BY <1>2, <1>5 DEF CheckCompiled, GoTo
<1> QED
  BY <1>3, <1>4, <1>5

\* Types are kept.
LEMMA TypeStep == ASSUME IInv, NEW f \in Frames, Request(f) PROVE TypeOK'
<1>1. CASE GetFrames(f)
  BY <1>1, JitAssumption DEF GetFrames, IInv, GoTo, shared, TypeOK, PlaceInv, Planes, Busy, Tiled, Functions, RefsInv
<1>2. CASE SkipPlane(f)
  BY <1>2, JitAssumption DEF SkipPlane, IInv, shared, TypeOK, PlaceInv, Planes, Busy, Tiled, Functions, RefsInv
<1>3. CASE CheckCompiled(f)
  <2>1. CASE pc' = [pc EXCEPT ![f] = "call"] /\ tile' = tile /\ Mine(f) # NoFunction
    BY <1>3, <2>1, CheckCompiledSteps, JitAssumption DEF IInv, shared, TypeOK, PlaceInv, Planes, Busy, Tiled, Mine, Functions, RefsInv
  <2>2. CASE pc' = [pc EXCEPT ![f] = "lookup"] /\ tile' = tile
    BY <1>3, <2>2, CheckCompiledSteps, MyKeyInKeys, JitAssumption DEF IInv, shared, TypeOK, PlaceInv, Planes, Busy, Tiled, Mine, Functions, RefsInv
  <2>3. CASE /\ pc' = [pc EXCEPT ![f] = "lock"] /\ TileOf[FilterOf[f]] \in Tiles
             /\ tile' = [tile EXCEPT ![f] = TileOf[FilterOf[f]]]
    BY <1>3, <2>3, CheckCompiledSteps, MyKeyInKeys, JitAssumption DEF IInv, shared, TypeOK, PlaceInv, Planes, Busy, Tiled, Mine, Functions, RefsInv
  <2> QED
    BY <1>3, <2>1, <2>2, <2>3, CheckCompiledSteps
<1>4. CASE LookupTuned(f)
  BY <1>4, TileFacts, MyKeyInKeys DEF LookupTuned, IInv, GoTo, shared, TypeOK, PlaceInv, Planes, Busy, Tiled, Functions, RefsInv
<1>5. CASE LockCache(f)
  BY <1>5 DEF LockCache, IInv, GoTo, TypeOK, PlaceInv, Planes, Busy, Tiled, Functions, RefsInv
<1>6. CASE CheckCache(f)
  <2>1. CASE Wanted(f) \in jit_cache
    BY <1>6, <2>1 DEF CheckCache, IInv, GoTo, TypeOK, PlaceInv, Planes, Busy, Tiled, Wanted, Functions, RefsInv
  <2>2. CASE Wanted(f) \notin jit_cache
    BY <1>6, <2>2 DEF CheckCache, IInv, GoTo, TypeOK, PlaceInv, Planes, Busy, Tiled, Wanted, Functions, RefsInv
  <2> QED
    BY <2>1, <2>2
<1>7. CASE Compile(f)
  BY <1>7, MyKeyInKeys DEF Compile, IInv, GoTo, TypeOK, PlaceInv, Planes, Busy, Tiled, Wanted, Symbol, Functions, RefsInv
<1>8. CASE CompileFails(f)
  <2>1. refs[f] - NumInputs - 1 \in Nat
    BY <1>8, JitAssumption DEF CompileFails, IInv, RefsInv
  <2>2. Symbol(f) \in Planes \X Keys \X Tiles
    BY <1>8, MyKeyInKeys DEF CompileFails, IInv, PlaceInv, Tiled, Symbol
  <2> QED
    BY <1>8, <2>1, <2>2 DEF CompileFails, IInv, GoTo, TypeOK
<1>9. CASE Measure(f)
  <2>1. Wanted(f) \in Functions
    BY <1>9, MyKeyInKeys DEF Measure, IInv, PlaceInv, Tiled, Wanted, Functions
  <2>2. called' \in [Frames -> SUBSET (Functions \cup {NoFunction})]
    BY <1>9, <2>1 DEF Measure, IInv, TypeOK
  <2>3. tile' \in [Frames -> Tiles \cup {NoTile}] /\ best' \in [Frames -> Tiles \cup {NoTile}]
    BY <1>9 DEF Measure, IInv, TypeOK
  <2>4. CASE tile[f] + 1 \in Tiles
    BY <1>9, <2>2, <2>3, <2>4 DEF Measure, IInv, GoTo, shared, TypeOK
  <2>5. CASE tile[f] + 1 \notin Tiles
    BY <1>9, <2>2, <2>3, <2>5 DEF Measure, IInv, GoTo, shared, TypeOK
  <2> QED
    BY <2>4, <2>5
<1>10. CASE StoreTuned(f)
  BY <1>10 DEF StoreTuned, IInv, GoTo, TypeOK, PlaceInv, Planes, Busy, Tiled, Functions, RefsInv
<1>11. CASE Assign(f)
  BY <1>11, MyKeyInKeys DEF Assign, IInv, GoTo, TypeOK, PlaceInv, Planes, Busy, Tiled, Wanted, Functions, RefsInv
<1>12. CASE Call(f)
  BY <1>12, MyKeyInKeys, JitAssumption DEF Call, IInv, GoTo, shared, TypeOK, PlaceInv, Planes, Busy, Tiled, Mine, Functions, RefsInv
<1>13. CASE NextPlane(f)
  BY <1>13, JitAssumption DEF NextPlane, IInv, GoTo, shared, TypeOK, PlaceInv, Planes, Busy, Tiled, Functions, RefsInv
<1>14. CASE ReturnFrame(f)
  <2>1. refs[f] - NumInputs - 1 \in Nat
    BY <1>14, JitAssumption DEF ReturnFrame, IInv, RefsInv
  <2> QED
    BY <1>14, <2>1 DEF ReturnFrame, IInv, GoTo, shared, TypeOK
<1> QED
  BY <1>1, <1>2, <1>3, <1>4, <1>5, <1>6, <1>7, <1>8, <1>9, <1>10, <1>11, <1>12, <1>13, <1>14 DEF Request

\* Whoever is in the critical section holds the mutex.
LEMMA MutexStep == ASSUME IInv, NEW f \in Frames, Request(f) PROVE MutexInv'
<1>1. CASE GetFrames(f)
  BY <1>1 DEF GetFrames, IInv, GoTo, shared, TypeOK, MutexInv, Locked, Nobody
<1>2. CASE SkipPlane(f)
  BY <1>2 DEF SkipPlane, IInv, shared, TypeOK, MutexInv, Locked, Nobody
<1>3. CASE CheckCompiled(f)
  <2>1. CASE pc' = [pc EXCEPT ![f] = "call"] /\ tile' = tile /\ Mine(f) # NoFunction
    BY <1>3, <2>1, CheckCompiledSteps DEF IInv, shared, TypeOK, MutexInv, Locked, Nobody
  <2>2. CASE pc' = [pc EXCEPT ![f] = "lookup"] /\ tile' = tile
    BY <1>3, <2>2, CheckCompiledSteps DEF IInv, shared, TypeOK, MutexInv, Locked, Nobody
  <2>3. CASE /\ pc' = [pc EXCEPT ![f] = "lock"] /\ TileOf[FilterOf[f]] \in Tiles
             /\ tile' = [tile EXCEPT ![f] = TileOf[FilterOf[f]]]
    BY <1>3, <2>3, CheckCompiledSteps DEF IInv, shared, TypeOK, MutexInv, Locked, Nobody
  <2> QED
    BY <1>3, <2>1, <2>2, <2>3, CheckCompiledSteps
<1>4. CASE LookupTuned(f)
  BY <1>4 DEF LookupTuned, IInv, GoTo, shared, TypeOK, MutexInv, Locked, Nobody
<1>5. CASE LockCache(f)
  BY <1>5, JitAssumption DEF LockCache, IInv, GoTo, TypeOK, MutexInv, Locked, Nobody
<1>6. CASE CheckCache(f)
  <2>1. CASE Wanted(f) \in jit_cache
    BY <1>6, <2>1, JitAssumption DEF CheckCache, IInv, GoTo, TypeOK, MutexInv, Locked, Nobody
  <2>2. CASE Wanted(f) \notin jit_cache
    BY <1>6, <2>2 DEF CheckCache, IInv, GoTo, TypeOK, MutexInv, Locked, Nobody
  <2> QED
    BY <2>1, <2>2
<1>7. CASE Compile(f)
  BY <1>7, JitAssumption DEF Compile, IInv, GoTo, TypeOK, MutexInv, Locked, Nobody
<1>8. CASE CompileFails(f)
  BY <1>8, JitAssumption DEF CompileFails, IInv, GoTo, TypeOK, MutexInv, Locked, Nobody
<1>9. CASE Measure(f)
  <2>1. CASE tile[f] + 1 \in Tiles
    BY <1>9, <2>1 DEF Measure, IInv, GoTo, shared, TypeOK, MutexInv, Locked, Nobody
  <2>2. CASE tile[f] + 1 \notin Tiles
    BY <1>9, <2>2 DEF Measure, IInv, GoTo, shared, TypeOK, MutexInv, Locked, Nobody
  <2> QED
    BY <2>1, <2>2
<1>10. CASE StoreTuned(f)
  BY <1>10 DEF StoreTuned, IInv, GoTo, TypeOK, MutexInv, Locked, Nobody
<1>11. CASE Assign(f)
  BY <1>11 DEF Assign, IInv, GoTo, TypeOK, MutexInv, Locked, Nobody
<1>12. CASE Call(f)
  BY <1>12 DEF Call, IInv, GoTo, shared, TypeOK, MutexInv, Locked, Nobody
<1>13. CASE NextPlane(f)
  BY <1>13 DEF NextPlane, IInv, GoTo, shared, TypeOK, MutexInv, Locked, Nobody
<1>14. CASE ReturnFrame(f)
  BY <1>14 DEF ReturnFrame, IInv, GoTo, shared, TypeOK, MutexInv, Locked, Nobody
<1> QED
  BY <1>1, <1>2, <1>3, <1>4, <1>5, <1>6, <1>7, <1>8, <1>9, <1>10, <1>11, <1>12, <1>13, <1>14 DEF Request

\* A busy request is at a plane, and wants a tile.
LEMMA PlaceStep == ASSUME IInv, NEW f \in Frames, Request(f) PROVE PlaceInv'
<1>1. CASE GetFrames(f)
  BY <1>1 DEF GetFrames, IInv, GoTo, shared, TypeOK, PlaceInv, Planes, Busy, Tiled
<1>2. CASE SkipPlane(f)
  BY <1>2 DEF SkipPlane, IInv, shared, TypeOK, PlaceInv, Planes, Busy, Tiled
<1>3. CASE CheckCompiled(f)
  <2>1. CASE pc' = [pc EXCEPT ![f] = "call"] /\ tile' = tile /\ Mine(f) # NoFunction
    BY <1>3, <2>1, CheckCompiledSteps, JitAssumption DEF IInv, shared, TypeOK, PlaceInv, Planes, Busy, Tiled, Mine
  <2>2. CASE pc' = [pc EXCEPT ![f] = "lookup"] /\ tile' = tile
    BY <1>3, <2>2, CheckCompiledSteps, JitAssumption DEF IInv, shared, TypeOK, PlaceInv, Planes, Busy, Tiled, Mine
  <2>3. CASE /\ pc' = [pc EXCEPT ![f] = "lock"] /\ TileOf[FilterOf[f]] \in Tiles
             /\ tile' = [tile EXCEPT ![f] = TileOf[FilterOf[f]]]
    BY <1>3, <2>3, CheckCompiledSteps, JitAssumption DEF IInv, shared, TypeOK, PlaceInv, Planes, Busy, Tiled, Mine
  <2> QED
    BY <1>3, <2>1, <2>2, <2>3, CheckCompiledSteps
<1>4. CASE LookupTuned(f)
  BY <1>4, TileFacts, MyKeyInKeys DEF LookupTuned, IInv, GoTo, shared, TypeOK, PlaceInv, Planes, Busy, Tiled
<1>5. CASE LockCache(f)
  BY <1>5 DEF LockCache, IInv, GoTo, TypeOK, PlaceInv, Planes, Busy, Tiled
<1>6. CASE CheckCache(f)
  <2>1. CASE Wanted(f) \in jit_cache
    BY <1>6, <2>1 DEF CheckCache, IInv, GoTo, TypeOK, PlaceInv, Planes, Busy, Tiled
  <2>2. CASE Wanted(f) \notin jit_cache
    BY <1>6, <2>2 DEF CheckCache, IInv, GoTo, TypeOK, PlaceInv, Planes, Busy, Tiled
  <2> QED
    BY <2>1, <2>2
<1>7. CASE Compile(f)
  BY <1>7 DEF Compile, IInv, GoTo, TypeOK, PlaceInv, Planes, Busy, Tiled
<1>8. CASE CompileFails(f)
  BY <1>8 DEF CompileFails, IInv, GoTo, TypeOK, PlaceInv, Planes, Busy, Tiled
<1>9. CASE Measure(f)
  <2>1. CASE tile[f] + 1 \in Tiles
    BY <1>9, <2>1 DEF Measure, IInv, GoTo, shared, TypeOK, PlaceInv, Planes, Busy, Tiled
  <2>2. CASE tile[f] + 1 \notin Tiles
    BY <1>9, <2>2 DEF Measure, IInv, GoTo, shared, TypeOK, PlaceInv, Planes, Busy, Tiled
  <2> QED
    BY <2>1, <2>2
<1>10. CASE StoreTuned(f)
  BY <1>10 DEF StoreTuned, IInv, GoTo, TypeOK, PlaceInv, Planes, Busy, Tiled
<1>11. CASE Assign(f)
  BY <1>11 DEF Assign, IInv, GoTo, TypeOK, PlaceInv, Planes, Busy, Tiled
<1>12. CASE Call(f)
  BY <1>12 DEF Call, IInv, GoTo, shared, TypeOK, PlaceInv, Planes, Busy, Tiled, Mine
<1>13. CASE NextPlane(f)
  BY <1>13 DEF NextPlane, IInv, GoTo, shared, TypeOK, PlaceInv, Planes, Busy, Tiled
<1>14. CASE ReturnFrame(f)
  BY <1>14 DEF ReturnFrame, IInv, GoTo, shared, TypeOK, PlaceInv, Planes, Busy, Tiled
<1> QED
  BY <1>1, <1>2, <1>3, <1>4, <1>5, <1>6, <1>7, <1>8, <1>9, <1>10, <1>11, <1>12, <1>13, <1>14 DEF Request

\* The frames are freed at every end.
LEMMA RefsStep == ASSUME IInv, NEW f \in Frames, Request(f) PROVE RefsInv'
<1>1. CASE GetFrames(f)
  BY <1>1 DEF GetFrames, IInv, GoTo, shared, TypeOK, RefsInv
<1>2. CASE SkipPlane(f)
  BY <1>2 DEF SkipPlane, IInv, shared, TypeOK, RefsInv
<1>3. CASE CheckCompiled(f)
  <2>1. CASE pc' = [pc EXCEPT ![f] = "call"] /\ tile' = tile /\ Mine(f) # NoFunction
    BY <1>3, <2>1, CheckCompiledSteps DEF IInv, shared, TypeOK, RefsInv
  <2>2. CASE pc' = [pc EXCEPT ![f] = "lookup"] /\ tile' = tile
    BY <1>3, <2>2, CheckCompiledSteps DEF IInv, shared, TypeOK, RefsInv
  <2>3. CASE /\ pc' = [pc EXCEPT ![f] = "lock"] /\ TileOf[FilterOf[f]] \in Tiles
             /\ tile' = [tile EXCEPT ![f] = TileOf[FilterOf[f]]]
    BY <1>3, <2>3, CheckCompiledSteps DEF IInv, shared, TypeOK, RefsInv
  <2> QED
    BY <1>3, <2>1, <2>2, <2>3, CheckCompiledSteps
<1>4. CASE LookupTuned(f)
  BY <1>4 DEF LookupTuned, IInv, GoTo, shared, TypeOK, RefsInv
<1>5. CASE LockCache(f)
  BY <1>5 DEF LockCache, IInv, GoTo, TypeOK, RefsInv
<1>6. CASE CheckCache(f)
  <2>1. CASE Wanted(f) \in jit_cache
    BY <1>6, <2>1 DEF CheckCache, IInv, GoTo, TypeOK, RefsInv
  <2>2. CASE Wanted(f) \notin jit_cache
    BY <1>6, <2>2 DEF CheckCache, IInv, GoTo, TypeOK, RefsInv
  <2> QED
    BY <2>1, <2>2
<1>7. CASE Compile(f)
  BY <1>7 DEF Compile, IInv, GoTo, TypeOK, RefsInv
<1>8. CASE CompileFails(f)
  BY <1>8, JitAssumption DEF CompileFails, IInv, GoTo, TypeOK, RefsInv
<1>9. CASE Measure(f)
  <2>1. /\ pc[f] = "measure" /\ refs' = refs
        /\ pc' = [pc EXCEPT ![f] = "tune_lock"] \/ pc' = [pc EXCEPT ![f] = "publish"]
    BY <1>9 DEF Measure, GoTo
  <2> QED
    BY <2>1 DEF IInv, TypeOK, RefsInv
<1>10. CASE StoreTuned(f)
  BY <1>10 DEF StoreTuned, IInv, GoTo, TypeOK, RefsInv
<1>11. CASE Assign(f)
  BY <1>11 DEF Assign, IInv, GoTo, TypeOK, RefsInv
<1>12. CASE Call(f)
  BY <1>12 DEF Call, IInv, GoTo, shared, TypeOK, RefsInv
<1>13. CASE NextPlane(f)
  BY <1>13 DEF NextPlane, IInv, GoTo, shared, TypeOK, RefsInv
<1>14. CASE ReturnFrame(f)
  BY <1>14, JitAssumption DEF ReturnFrame, IInv, GoTo, shared, TypeOK, RefsInv
<1> QED
  BY <1>1, <1>2, <1>3, <1>4, <1>5, <1>6, <1>7, <1>8, <1>9, <1>10, <1>11, <1>12, <1>13, <1>14 DEF Request

\* Functions that somebody relies on are in the cache.
LEMMA CacheStep == ASSUME IInv, NEW f \in Frames, Request(f) PROVE CacheInv'
<1>1. CASE GetFrames(f)
  BY <1>1 DEF GetFrames, IInv, GoTo, shared, TypeOK, PlaceInv, CacheInv, Cached, Planes, Busy, Tiled, MyKey, Mine, FieldsCached, TunedCached, RequestCached, Tuning
<1>2. CASE SkipPlane(f)
  BY <1>2 DEF SkipPlane, IInv, shared, TypeOK, PlaceInv, CacheInv, Cached, Planes, Busy, Tiled, MyKey, Mine, FieldsCached, TunedCached, RequestCached, Tuning
<1>3. CASE CheckCompiled(f)
  <2>1. UNCHANGED <<jit_cache, tuned, compiled, plane, best>> /\ pc[f] = "plane"
    BY <1>3, CheckCompiledSteps DEF shared
  <2>2. FieldsCached' /\ TunedCached'
    BY <2>1 DEF IInv, CacheInv, FieldsCached, TunedCached, Cached
  <2>3. ASSUME NEW g \in Frames, g # f PROVE RequestCached(g)'
    BY <1>3, <2>1, <2>3, OthersRely, CheckCompiledSteps DEF IInv, TypeOK, CacheInv, Mine
  <2>4. RequestCached(f)'
    BY <1>3, <2>1, CheckCompiledSteps DEF IInv, TypeOK, RequestCached, Tuning, Mine
  <2> QED
    BY <2>2, <2>3, <2>4 DEF CacheInv
<1>4. CASE LookupTuned(f)
  <2>1. CASE tuned[MyKey(f)] = NoTile
    BY <1>4, <2>1 DEF LookupTuned, IInv, GoTo, shared, TypeOK, PlaceInv, CacheInv, Cached, Planes, Busy, Tiled, MyKey, Mine, FieldsCached, TunedCached, RequestCached, Tuning
  <2>2. CASE tuned[MyKey(f)] # NoTile
    BY <1>4, <2>2 DEF LookupTuned, IInv, GoTo, shared, TypeOK, PlaceInv, CacheInv, Cached, Planes, Busy, Tiled, MyKey, Mine, FieldsCached, TunedCached, RequestCached, Tuning
  <2> QED
    BY <2>1, <2>2
<1>5. CASE LockCache(f)
  BY <1>5 DEF LockCache, IInv, GoTo, TypeOK, PlaceInv, CacheInv, Cached, Planes, Busy, Tiled, MyKey, Mine, FieldsCached, TunedCached, RequestCached, Tuning
<1>6. CASE CheckCache(f)
  <2>1. UNCHANGED <<jit_cache, tuned, compiled, plane, tile, best>> /\ pc[f] \in {"check", "tune_check"}
    BY <1>6 DEF CheckCache
  <2>2. FieldsCached' /\ TunedCached'
    BY <2>1 DEF IInv, CacheInv, FieldsCached, TunedCached, Cached
  <2>3. ASSUME NEW g \in Frames, g # f PROVE RequestCached(g)'
    BY <1>6, <2>1, <2>3, OthersRely DEF CheckCache, GoTo, IInv, TypeOK, CacheInv, Mine
  <2>4. RequestCached(f)'
    <3>1. pc'[f] \in {"assign", "measure"} => Wanted(f) \in jit_cache
      BY <1>6 DEF CheckCache, GoTo, IInv, TypeOK
    <3>2. pc'[f] \in {"assign", "measure", "compile", "tune_compile"}
      BY <1>6 DEF CheckCache, GoTo, IInv, TypeOK
    <3>3. pc'[f] \in Tuning => pc[f] \in Tuning
      BY <1>6 DEF CheckCache, GoTo, IInv, TypeOK, Tuning
    <3> QED
      BY <2>1, <3>1, <3>2, <3>3 DEF IInv, CacheInv, RequestCached, Cached, MyKey, Wanted
  <2> QED
    BY <2>2, <2>3, <2>4 DEF CacheInv
<1>7. CASE Compile(f)
  BY <1>7 DEF Compile, IInv, GoTo, TypeOK, PlaceInv, CacheInv, Cached, Planes, Busy, Tiled, Wanted, MyKey, Mine, FieldsCached, TunedCached, RequestCached, Tuning
<1>8. CASE CompileFails(f)
  BY <1>8 DEF CompileFails, IInv, GoTo, TypeOK, PlaceInv, CacheInv, Cached, Planes, Busy, Tiled, MyKey, Mine, FieldsCached, TunedCached, RequestCached, Tuning
<1>9. CASE Measure(f)
  <2>1. UNCHANGED <<jit_cache, tuned, compiled, plane>> /\ pc[f] = "measure"
    BY <1>9 DEF Measure, shared
  <2>2. FieldsCached' /\ TunedCached'
    BY <2>1 DEF IInv, CacheInv, FieldsCached, TunedCached, Cached
  <2>3. ASSUME NEW g \in Frames, g # f PROVE RequestCached(g)'
    <3>1. pc'[g] = pc[g] /\ tile'[g] = tile[g] /\ best'[g] = best[g]
      BY <1>9, <2>3 DEF Measure, GoTo, IInv, TypeOK
    <3> QED
      BY <2>1, <3>1, OthersRely DEF IInv, CacheInv, Mine
  <2>4. RequestCached(f)'
    <3>1. pc'[f] \in {"tune_lock", "publish"}
      BY <1>9 DEF Measure, GoTo, IInv, TypeOK
    <3>2. (best'[f] = best[f] /\ best[f] # NoTile) \/ best'[f] = tile[f]
      BY <1>9 DEF Measure, IInv, TypeOK
    <3> QED
      BY <2>1, <3>1, <3>2 DEF IInv, CacheInv, RequestCached, Tuning, Cached, MyKey
  <2> QED
    BY <2>2, <2>3, <2>4 DEF CacheInv
<1>10. CASE StoreTuned(f)
  BY <1>10, TileFacts, MyKeyInKeys DEF StoreTuned, IInv, GoTo, TypeOK, PlaceInv, CacheInv, Cached, Planes, Busy, Tiled, MyKey, Mine, FieldsCached, TunedCached, RequestCached, Tuning
<1>11. CASE Assign(f)
  <2>1. UNCHANGED <<jit_cache, tuned, plane, tile, best>> /\ Cached(MyKey(f), tile[f])
    BY <1>11 DEF Assign, IInv, CacheInv, RequestCached
  <2>2. FilterOf[f] \in Filters /\ plane[f] \in Planes /\ tile[f] \in Tiles
    BY <1>11, JitAssumption DEF Assign, IInv, PlaceInv, Busy, Tiled
  <2>3. \A d \in Filters, p \in Planes :
            compiled'[d][p] = IF d = FilterOf[f] /\ p = plane[f] THEN Wanted(f) ELSE compiled[d][p]
    BY <1>11, <2>2 DEF Assign, IInv, TypeOK
  <2>4. Wanted(f) # NoFunction
    BY <2>2, TileFacts DEF Wanted, NoFunction, NoTile
  <2>5. FieldsCached' /\ TunedCached'
    BY <2>1, <2>3 DEF IInv, CacheInv, FieldsCached, TunedCached, Cached, Wanted, MyKey
  <2>6. ASSUME NEW g \in Frames, g # f PROVE RequestCached(g)'
    <3>1. pc'[g] = pc[g]
      BY <1>11, <2>6 DEF Assign, GoTo, TypeOK
    <3>2. pc[g] = "call" => plane[g] \in Planes /\ FilterOf[g] \in Filters
      BY JitAssumption DEF IInv, PlaceInv, Busy
    <3> QED
      BY <2>1, <2>3, <2>4, <3>1, <3>2, OthersRely DEF IInv, CacheInv, Mine
  <2>7. RequestCached(f)'
    <3>1. pc'[f] = "call"
      BY <1>11 DEF Assign, GoTo, IInv, TypeOK
    <3> QED
      BY <2>1, <2>2, <2>3, <2>4, <3>1 DEF RequestCached, Tuning, Mine
  <2> QED
    BY <2>5, <2>6, <2>7 DEF CacheInv
<1>12. CASE Call(f)
  BY <1>12 DEF Call, IInv, GoTo, shared, TypeOK, PlaceInv, CacheInv, Cached, Planes, Busy, Tiled, MyKey, Mine, FieldsCached, TunedCached, RequestCached, Tuning
<1>13. CASE NextPlane(f)
  BY <1>13 DEF NextPlane, IInv, GoTo, shared, TypeOK, PlaceInv, CacheInv, Cached, Planes, Busy, Tiled, MyKey, Mine, FieldsCached, TunedCached, RequestCached, Tuning
<1>14. CASE ReturnFrame(f)
  BY <1>14 DEF ReturnFrame, IInv, GoTo, shared, TypeOK, PlaceInv, CacheInv, Cached, Planes, Busy, Tiled, MyKey, Mine, FieldsCached, TunedCached, RequestCached, Tuning
<1> QED
  BY <1>1, <1>2, <1>3, <1>4, <1>5, <1>6, <1>7, <1>8, <1>9, <1>10, <1>11, <1>12, <1>13, <1>14 DEF Request

\* What is called is the function of the plane.
LEMMA CalledStep == ASSUME IInv, NEW f \in Frames, Request(f) PROVE CalledInv'
<1>1. CASE GetFrames(f)
  <2>1. pc[f] = "idle" /\ pc' = [pc EXCEPT ![f] = "plane"] /\ UNCHANGED <<jit_cache, plane, called>>
    BY <1>1 DEF GetFrames, GoTo, shared
  <2> QED
    BY <2>1 DEF IInv, CalledInv, MyKey
<1>2. CASE SkipPlane(f)
  BY <1>2 DEF SkipPlane, IInv, shared, TypeOK, CalledInv, MyKey
<1>3. CASE CheckCompiled(f)
  <2>1. CASE pc' = [pc EXCEPT ![f] = "call"] /\ tile' = tile /\ Mine(f) # NoFunction
    BY <1>3, <2>1, CheckCompiledSteps, JitAssumption DEF IInv, shared, TypeOK, CalledInv, MyKey
  <2>2. CASE pc' = [pc EXCEPT ![f] = "lookup"] /\ tile' = tile
    BY <1>3, <2>2, CheckCompiledSteps, JitAssumption DEF IInv, shared, TypeOK, CalledInv, MyKey
  <2>3. CASE /\ pc' = [pc EXCEPT ![f] = "lock"] /\ TileOf[FilterOf[f]] \in Tiles
             /\ tile' = [tile EXCEPT ![f] = TileOf[FilterOf[f]]]
    BY <1>3, <2>3, CheckCompiledSteps, JitAssumption DEF IInv, shared, TypeOK, CalledInv, MyKey
  <2> QED
    BY <1>3, <2>1, <2>2, <2>3, CheckCompiledSteps
<1>4. CASE LookupTuned(f)
  BY <1>4 DEF LookupTuned, IInv, GoTo, shared, TypeOK, CalledInv, MyKey
<1>5. CASE LockCache(f)
  BY <1>5 DEF LockCache, IInv, GoTo, TypeOK, CalledInv, MyKey
<1>6. CASE CheckCache(f)
  <2>1. CASE Wanted(f) \in jit_cache
    BY <1>6, <2>1 DEF CheckCache, IInv, GoTo, TypeOK, CalledInv, MyKey
  <2>2. CASE Wanted(f) \notin jit_cache
    BY <1>6, <2>2 DEF CheckCache, IInv, GoTo, TypeOK, CalledInv, MyKey
  <2> QED
    BY <2>1, <2>2
<1>7. CASE Compile(f)
  BY <1>7 DEF Compile, IInv, GoTo, TypeOK, CalledInv, MyKey
<1>8. CASE CompileFails(f)
  BY <1>8 DEF CompileFails, IInv, GoTo, TypeOK, CalledInv, MyKey
<1>9. CASE Measure(f)
  <2>1. UNCHANGED <<jit_cache, plane>> /\ Wanted(f) \in jit_cache
    BY <1>9 DEF Measure, shared, IInv, CacheInv, RequestCached, Cached, Wanted
  <2>2. pc'[f] \in {"tune_lock", "publish"} /\ called'[f] = called[f] \cup {Wanted(f)}
    BY <1>9 DEF Measure, GoTo, IInv, TypeOK
  <2>3. \A g \in Frames : g # f => pc'[g] = pc[g] /\ called'[g] = called[g]
    BY <1>9 DEF Measure, GoTo, IInv, TypeOK
  <2> QED
    BY <2>1, <2>2, <2>3 DEF IInv, CalledInv, MyKey, Wanted
<1>10. CASE StoreTuned(f)
  BY <1>10 DEF StoreTuned, IInv, GoTo, TypeOK, CalledInv, MyKey
<1>11. CASE Assign(f)
  BY <1>11 DEF Assign, IInv, GoTo, TypeOK, CalledInv, MyKey
<1>12. CASE Call(f)
  <2>1. UNCHANGED <<jit_cache, plane>> /\ Mine(f) # NoFunction /\ plane[f] \in Planes /\ FilterOf[f] \in Filters
    BY <1>12, JitAssumption DEF Call, shared, IInv, CacheInv, RequestCached, PlaceInv, Busy
  <2>2. Mine(f) \in jit_cache /\ Mine(f)[1] = MyKey(f)
    BY <2>1 DEF IInv, CacheInv, FieldsCached, Mine, MyKey
  <2>3. pc'[f] = "next" /\ called'[f] = called[f] \cup {Mine(f)}
    BY <1>12 DEF Call, GoTo, IInv, TypeOK
  <2>4. \A g \in Frames : g # f => pc'[g] = pc[g] /\ called'[g] = called[g]
    BY <1>12 DEF Call, GoTo, TypeOK
  <2> QED
    BY <2>1, <2>2, <2>3, <2>4 DEF IInv, CalledInv, MyKey
<1>13. CASE NextPlane(f)
  BY <1>13 DEF NextPlane, IInv, GoTo, shared, TypeOK, CalledInv, MyKey
<1>14. CASE ReturnFrame(f)
  BY <1>14 DEF ReturnFrame, IInv, GoTo, shared, TypeOK, CalledInv, MyKey
<1> QED
  BY <1>1, <1>2, <1>3, <1>4, <1>5, <1>6, <1>7, <1>8, <1>9, <1>10, <1>11, <1>12, <1>13, <1>14 DEF Request

\* Cache and symbols correspond.
LEMMA SymbolStep == ASSUME IInv, NEW f \in Frames, Request(f) PROVE SymbolInv'
<1>1. CASE GetFrames(f)
  BY <1>1 DEF GetFrames, IInv, GoTo, shared, TypeOK, MutexInv, Locked, PlaceInv, SymbolInv, Failed, Cached, Planes, Busy, Tiled, MyKey
<1>2. CASE SkipPlane(f)
  BY <1>2 DEF SkipPlane, IInv, shared, TypeOK, MutexInv, Locked, PlaceInv, SymbolInv, Failed, Cached, Planes, Busy, Tiled, MyKey
<1>3. CASE CheckCompiled(f)
  <2>1. UNCHANGED <<jit_cache, symbols, plane>> /\ pc[f] = "plane"
        /\ pc'[f] \in {"call", "lookup", "lock"} /\ \A g \in Frames : g # f => pc'[g] = pc[g] /\ tile'[g] = tile[g]
    BY <1>3, CheckCompiledSteps DEF shared, IInv, TypeOK
  <2>2. Failed' = Failed
    BY <2>1 DEF Failed
  <2> QED
    BY <2>1, <2>2 DEF IInv, SymbolInv, Cached, MyKey
<1>4. CASE LookupTuned(f)
  BY <1>4 DEF LookupTuned, IInv, GoTo, shared, TypeOK, MutexInv, Locked, PlaceInv, SymbolInv, Failed, Cached, Planes, Busy, Tiled, MyKey
<1>5. CASE LockCache(f)
  BY <1>5 DEF LockCache, IInv, GoTo, TypeOK, MutexInv, Locked, PlaceInv, SymbolInv, Failed, Cached, Planes, Busy, Tiled, MyKey
<1>6. CASE CheckCache(f)
  <2>1. CASE Wanted(f) \in jit_cache
    BY <1>6, <2>1 DEF CheckCache, IInv, GoTo, TypeOK, MutexInv, Locked, PlaceInv, SymbolInv, Failed, Cached, Planes, Busy, Tiled, Wanted, MyKey
  <2>2. CASE Wanted(f) \notin jit_cache
    BY <1>6, <2>2 DEF CheckCache, IInv, GoTo, TypeOK, MutexInv, Locked, PlaceInv, SymbolInv, Failed, Cached, Planes, Busy, Tiled, Wanted, MyKey
  <2> QED
    BY <2>1, <2>2
<1>7. CASE Compile(f)
  <2>1. /\ pc[f] \in {"compile", "tune_compile"} /\ pc'[f] \in {"assign", "measure"}
        /\ \A g \in Frames : g # f => pc'[g] = pc[g]
        /\ symbols' = symbols \cup {Symbol(f)} /\ jit_cache' = jit_cache \cup {Wanted(f)} /\ UNCHANGED <<plane, tile>>
    BY <1>7 DEF Compile, GoTo, IInv, TypeOK
  <2>2. plane[f] \in Planes /\ Wanted(f) \notin jit_cache
    BY <2>1 DEF IInv, PlaceInv, Tiled, SymbolInv, Cached, Wanted
  <2>3. \A g \in Frames : g # f => pc'[g] \notin Locked
    BY <2>1 DEF IInv, MutexInv, Locked
  <2>4. \A g \in Frames : pc'[g] \in {"compile", "tune_compile"} => ~Cached(MyKey(g), tile[g])'
    BY <2>1, <2>3 DEF Locked
  <2>5. \A fn \in jit_cache' : \E p \in Planes : <<p, fn[1], fn[2]>> \in symbols'
    BY <2>1, <2>2 DEF IInv, SymbolInv, Symbol, Wanted
  <2>6. Failed' = Failed
    BY <2>1 DEF Failed
  <2>7. ~Failed => \A s \in symbols' : Cached(s[2], s[3])'
    <3>1. Cached(MyKey(f), tile[f])'
      BY <2>1 DEF Cached, Wanted, MyKey
    <3>2. Symbol(f)[2] = MyKey(f) /\ Symbol(f)[3] = tile[f]
      BY DEF Symbol
    <3>3. ~Failed => \A s \in symbols : Cached(s[2], s[3])'
      BY <2>1 DEF IInv, SymbolInv, Cached
    <3> QED
      BY <2>1, <3>1, <3>2, <3>3 DEF Cached, MyKey
  <2>8. ASSUME ~Failed, NEW s \in symbols', NEW u \in symbols', s[2] = u[2], s[3] = u[3] PROVE s[1] = u[1]
    <3>1. \A v \in symbols : <<v[2], v[3]>> # Wanted(f)
      BY <2>2, <2>8 DEF IInv, SymbolInv, Cached
    <3>2. Symbol(f) = <<plane[f], MyKey(f), tile[f]>> /\ Wanted(f) = <<MyKey(f), tile[f]>>
      BY DEF Symbol, Wanted
    <3>3. CASE s = Symbol(f) \/ u = Symbol(f)
      BY <2>1, <2>8, <3>1, <3>2, <3>3
    <3>4. CASE s \in symbols /\ u \in symbols
      BY <2>8, <3>4 DEF IInv, SymbolInv
    <3> QED
      BY <2>1, <3>3, <3>4
  <2> QED
    BY <2>4, <2>5, <2>6, <2>7, <2>8 DEF SymbolInv
<1>8. CASE CompileFails(f)
  BY <1>8 DEF CompileFails, IInv, GoTo, TypeOK, MutexInv, Locked, PlaceInv, SymbolInv, Failed, Cached, Planes, Busy, Tiled, Symbol, MyKey
<1>9. CASE Measure(f)
  <2>1. CASE tile[f] + 1 \in Tiles
    BY <1>9, <2>1, JitAssumption DEF Measure, IInv, GoTo, shared, TypeOK, MutexInv, Locked, PlaceInv, SymbolInv, Failed, Cached, Planes, Busy, Tiled, Wanted, MyKey
  <2>2. CASE tile[f] + 1 \notin Tiles
    BY <1>9, <2>2, JitAssumption DEF Measure, IInv, GoTo, shared, TypeOK, MutexInv, Locked, PlaceInv, SymbolInv, Failed, Cached, Planes, Busy, Tiled, Wanted, MyKey
  <2> QED
    BY <2>1, <2>2
<1>10. CASE StoreTuned(f)
  BY <1>10 DEF StoreTuned, IInv, GoTo, TypeOK, MutexInv, Locked, PlaceInv, SymbolInv, Failed, Cached, Planes, Busy, Tiled, MyKey
<1>11. CASE Assign(f)
  BY <1>11 DEF Assign, IInv, GoTo, TypeOK, MutexInv, Locked, PlaceInv, SymbolInv, Failed, Cached, Planes, Busy, Tiled, Wanted, MyKey
<1>12. CASE Call(f)
  BY <1>12 DEF Call, IInv, GoTo, shared, TypeOK, MutexInv, Locked, PlaceInv, SymbolInv, Failed, Cached, Planes, Busy, Tiled, MyKey
<1>13. CASE NextPlane(f)
  BY <1>13 DEF NextPlane, IInv, GoTo, shared, TypeOK, MutexInv, Locked, PlaceInv, SymbolInv, Failed, Cached, Planes, Busy, Tiled, MyKey
<1>14. CASE ReturnFrame(f)
  BY <1>14 DEF ReturnFrame, IInv, GoTo, shared, TypeOK, MutexInv, Locked, PlaceInv, SymbolInv, Failed, Cached, Planes, Busy, Tiled, MyKey
<1> QED
  BY <1>1, <1>2, <1>3, <1>4, <1>5, <1>6, <1>7, <1>8, <1>9, <1>10, <1>11, <1>12, <1>13, <1>14 DEF Request

-------------------------------------------------------------------------------

LEMMA Stutters == ASSUME IInv, UNCHANGED vars PROVE IInv'
<1>1. TypeOK' /\ MutexInv' /\ PlaceInv' /\ RefsInv'
  BY DEF IInv, vars, TypeOK, MutexInv, PlaceInv, RefsInv
<1>2. CacheInv'
  BY DEF IInv, vars, CacheInv, FieldsCached, TunedCached, RequestCached, Cached, MyKey, Mine
<1>3. CalledInv'
  BY DEF IInv, vars, CalledInv, MyKey
<1>4. SymbolInv'
  BY DEF IInv, vars, SymbolInv, Failed, Cached, MyKey
<1> QED
  BY <1>1, <1>2, <1>3, <1>4 DEF IInv

\* The strengthened invariant holds in every state: nothing a request relies on is taken
\* away by another one, though "compiled" is read and written without a lock.
THEOREM Inductive == Spec => []IInv
<1>1. IInv /\ [Next]_vars => IInv'
  <2> SUFFICES ASSUME IInv, [Next]_vars PROVE IInv'
    OBVIOUS
  <2>1. CASE UNCHANGED vars
    BY <2>1, Stutters
  <2>2. CASE Next
    <3>1. PICK f \in Frames : Request(f)
      BY <2>2 DEF Next
    <3> QED
      BY <3>1, TypeStep, MutexStep, PlaceStep, RefsStep, CacheStep, CalledStep, SymbolStep DEF IInv
  <2> QED
    BY <2>1, <2>2
<1> QED
  BY <1>1, InitHolds, PTL DEF Spec

\* The state of the JIT cache, of the tuned tiles and of every request has its type.
THEOREM TypeCorrect == Spec => []TypeOK
<1>1. IInv => TypeOK
  BY DEF IInv
<1> QED
  BY <1>1, Inductive, PTL

\* exprGetFrame calls only functions that the cache holds and that were compiled for the
\* expression and the format of its plane, however the requests of a filter are interleaved.
THEOREM RequestsCallTheirOwn == Spec => []CallsOwnFunction
<1>1. IInv => CallsOwnFunction
  BY DEF IInv, CalledInv, CallsOwnFunction
<1> QED
  BY <1>1, Inductive, PTL

\* A tuned tile in expr_autotune_cache has its function in jit_cache; as long as no
\* compilation has failed, cache and symbols of the JIT correspond one to one.
THEOREM PublishedTilesCompiled == Spec => []PublishedIsCompiled
<1>1. IInv => PublishedIsCompiled
  <2> SUFFICES ASSUME IInv PROVE PublishedIsCompiled
    OBVIOUS
  <2>1. \A k \in Keys : tuned[k] # NoTile => <<k, tuned[k]>> \in jit_cache
    BY DEF IInv, CacheInv, TunedCached, Cached
  <2>2. ASSUME ~Failed, NEW fn \in jit_cache
        PROVE  Cardinality({p \in Planes : <<p, fn[1], fn[2]>> \in symbols}) = 1
    <3>1. PICK p \in Planes : <<p, fn[1], fn[2]>> \in symbols
      BY DEF IInv, SymbolInv
    <3>2. ASSUME NEW q \in Planes, <<q, fn[1], fn[2]>> \in symbols PROVE q = p
      BY <2>2, <3>1, <3>2 DEF IInv, SymbolInv
    <3>3. {q \in Planes : <<q, fn[1], fn[2]>> \in symbols} = {p}
      BY <3>1, <3>2
    <3> QED
      BY <3>3, FS_Singleton
  <2>3. ASSUME ~Failed, NEW s \in symbols PROVE <<s[2], s[3]>> \in jit_cache
    BY <2>3 DEF IInv, SymbolInv, Cached
  <2> QED
    BY <2>1, <2>2, <2>3 DEF PublishedIsCompiled, Failed
<1> QED
  BY <1>1, Inductive, PTL

\* A request that returned its frame, or whose compilation threw, has freed its source
\* frames and its new frame, each once.
THEOREM FramesFreedOnce == Spec => []NoFrameLeaks
<1>1. IInv => NoFrameLeaks
  BY JitAssumption DEF IInv, RefsInv, NoFrameLeaks
<1> QED
  BY <1>1, Inductive, PTL

================================================================================
