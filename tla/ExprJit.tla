--------------------------------- MODULE ExprJit ---------------------------------
(***************************************************************************)
(* exprGetFrame of the CPU filter, run by several threads at once: one     *)
(* frame request per thread, for filters that share the JIT cache (under   *)
(* cache_mutex), the cache of tuned tiles (under its own mutex) and, among *)
(* the requests of one filter, the field "compiled", which no mutex        *)
(* protects.  A function is <<key, tile>>: the key stands for everything   *)
(* generate_cache_key writes except the tile.                              *)
(***************************************************************************)
EXTENDS Integers, FiniteSets

CONSTANTS
    Frames,         \* the frame requests
    Filters,        \* the filter instances
    FilterOf,       \* FilterOf[f]: the filter that request f is for
    NumPlanes,      \* planes of the format
    Processed,      \* Processed[d]: the planes with an expression (the others are copied)
    Key,            \* Key[d][p]: the cache key of plane p of filter d
    Tiles,          \* the tiles 1 .. n, as AUTO_TILE_CANDIDATES lists them (bound)
    TileOf,         \* TileOf[d]: a tile, or AutoTile
    NumInputs       \* source clips

AutoTile == 0
Nobody == "nobody"
NoFunction == <<"null", 0>>
NoTile == 0

ASSUME JitAssumption ==
    /\ IsFiniteSet(Frames) /\ Nobody \notin Frames
    /\ NumPlanes \in Nat \ {0} /\ NumInputs \in Nat \ {0}
    /\ FilterOf \in [Frames -> Filters]
    /\ Processed \in [Filters -> SUBSET (1 .. NumPlanes)]
    /\ IsFiniteSet(Tiles) /\ Tiles # {} /\ Tiles = 1 .. Cardinality(Tiles)
    /\ TileOf \in [Filters -> Tiles \cup {AutoTile}]

Planes == 1 .. NumPlanes
Keys == {Key[d][p] : d \in Filters, p \in Planes}
Functions == Keys \X Tiles

VARIABLES
    jit_cache,      \* the functions in the cache
    symbols,        \* the symbols defined in the JIT, <<plane, key, tile>>
    cache_mutex,    \* the request that holds it, or Nobody
    tuned,          \* expr_autotune_cache: a tile or NoTile for each key
    compiled,       \* compiled[d][p]: the function of plane p of filter d, or NoFunction
    pc,             \* where each request is
    plane,          \* the plane it is at
    tile,           \* the tile it wants code for
    best,           \* best_compiled's tile, NoTile before the first measurement
    refs,           \* the references to frames it holds
    called          \* the functions it called for the plane it is at (history)

vars == <<jit_cache, symbols, cache_mutex, tuned, compiled, pc, plane, tile, best, refs, called>>
shared == <<jit_cache, symbols, cache_mutex, tuned, compiled>>

Init ==
    /\ jit_cache = {} /\ symbols = {} /\ cache_mutex = Nobody
    /\ tuned = [k \in Keys |-> NoTile]
    /\ compiled = [d \in Filters |-> [p \in Planes |-> NoFunction]]
    /\ pc = [f \in Frames |-> "idle"]
    /\ plane = [f \in Frames |-> 1]
    /\ tile = [f \in Frames |-> NoTile]
    /\ best = [f \in Frames |-> NoTile]
    /\ refs = [f \in Frames |-> 0]
    /\ called = [f \in Frames |-> {}]

Mine(f) == compiled[FilterOf[f]][plane[f]]
MyKey(f) == Key[FilterOf[f]][plane[f]]
GoTo(f, label) == pc' = [pc EXCEPT ![f] = label]

\* arAllFramesReady: the source frames and the new frame.
GetFrames(f) ==
    /\ pc[f] = "idle"
    /\ GoTo(f, "plane")
    /\ refs' = [refs EXCEPT ![f] = NumInputs + 1]
    /\ UNCHANGED <<shared, plane, tile, best, called>>

\* A copied plane is passed by.
SkipPlane(f) ==
    /\ pc[f] = "plane" /\ plane[f] <= NumPlanes /\ plane[f] \notin Processed[FilterOf[f]]
    /\ plane' = [plane EXCEPT ![f] = @ + 1]
    /\ UNCHANGED <<shared, pc, tile, best, refs, called>>

\* compiled[plane].func_ptr is read without a lock.
CheckCompiled(f) ==
    /\ pc[f] = "plane" /\ plane[f] \in Processed[FilterOf[f]]
    /\ LET t == TileOf[FilterOf[f]]
       IN  CASE Mine(f) # NoFunction ->
                   GoTo(f, "call") /\ UNCHANGED tile
             [] Mine(f) = NoFunction /\ t # AutoTile ->
                   GoTo(f, "lock") /\ tile' = [tile EXCEPT ![f] = t]
             [] Mine(f) = NoFunction /\ t = AutoTile ->
                   GoTo(f, "lookup") /\ UNCHANGED tile
    /\ UNCHANGED <<shared, plane, best, refs, called>>

\* The critical section that looks for a tuned tile.
LookupTuned(f) ==
    /\ pc[f] = "lookup"
    /\ tile' = [tile EXCEPT ![f] = IF tuned[MyKey(f)] = NoTile THEN 1 ELSE tuned[MyKey(f)]]
    /\ GoTo(f, IF tuned[MyKey(f)] = NoTile THEN "tune_lock" ELSE "lock")
    /\ best' = [best EXCEPT ![f] = NoTile]
    /\ UNCHANGED <<shared, plane, refs, called>>

\* get_or_compile for the tile to use ("lock", "check", "compile"), or for a candidate
\* ("tune_lock", "tune_check", "tune_compile"), all of it under cache_mutex.
LockUnguarded(f) ==   \* Faulty: no lock_guard.
    /\ pc[f] \in {"lock", "tune_lock"}
    /\ cache_mutex' = f
    /\ GoTo(f, IF pc[f] = "lock" THEN "check" ELSE "tune_check")
    /\ UNCHANGED <<jit_cache, symbols, tuned, compiled, plane, tile, best, refs, called>>

LockCache(f) ==
    /\ pc[f] \in {"lock", "tune_lock"} /\ cache_mutex = Nobody
    /\ cache_mutex' = f
    /\ GoTo(f, IF pc[f] = "lock" THEN "check" ELSE "tune_check")
    /\ UNCHANGED <<jit_cache, symbols, tuned, compiled, plane, tile, best, refs, called>>

Wanted(f) == <<MyKey(f), tile[f]>>

\* jit_cache.contains(key)
CheckCache(f) ==
    /\ pc[f] \in {"check", "tune_check"}
    /\ IF Wanted(f) \in jit_cache
       THEN /\ cache_mutex' = Nobody
            /\ GoTo(f, IF pc[f] = "check" THEN "assign" ELSE "measure")
       ELSE /\ GoTo(f, IF pc[f] = "check" THEN "compile" ELSE "tune_compile")
            /\ UNCHANGED cache_mutex
    /\ UNCHANGED <<jit_cache, symbols, tuned, compiled, plane, tile, best, refs, called>>

\* func_name names the plane, which the key does not; the JIT refuses a symbol twice.
Symbol(f) == <<plane[f], MyKey(f), tile[f]>>

Compile(f) ==
    /\ pc[f] \in {"compile", "tune_compile"} /\ Symbol(f) \notin symbols
    /\ symbols' = symbols \cup {Symbol(f)}
    /\ jit_cache' = jit_cache \cup {Wanted(f)}
    /\ cache_mutex' = Nobody
    /\ GoTo(f, IF pc[f] = "compile" THEN "assign" ELSE "measure")
    /\ UNCHANGED <<tuned, compiled, plane, tile, best, refs, called>>

\* Faulty: the mutex is not unlocked when the compiler throws.
CompileFailsLocked(f) ==
    /\ pc[f] \in {"compile", "tune_compile"}
    /\ refs' = [refs EXCEPT ![f] = @ - NumInputs - 1]
    /\ GoTo(f, "failed")
    /\ UNCHANGED <<jit_cache, symbols, cache_mutex, tuned, compiled, plane, tile, best, called>>

\* Faulty: the frames are not freed when the compiler throws.
CompileFailsLeaking(f) ==
    /\ pc[f] \in {"compile", "tune_compile"}
    /\ cache_mutex' = Nobody
    /\ GoTo(f, "failed")
    /\ UNCHANGED <<jit_cache, symbols, tuned, compiled, plane, tile, best, refs, called>>

\* The compiler may always throw, before or after the module is in the JIT, and does when
\* the symbol is there; the frames are freed and the exception leaves the callback.
CompileFails(f) ==
    /\ pc[f] \in {"compile", "tune_compile"}
    /\ symbols' \in {symbols, symbols \cup {Symbol(f)}}
    /\ cache_mutex' = Nobody
    /\ refs' = [refs EXCEPT ![f] = @ - NumInputs - 1]
    /\ GoTo(f, "failed")
    /\ UNCHANGED <<jit_cache, tuned, compiled, plane, tile, best, called>>

\* The candidate is run and timed; the first one always becomes the best.
Measure(f) ==
    /\ pc[f] = "measure"
    /\ called' = [called EXCEPT ![f] = @ \cup {Wanted(f)}]
    /\ \E better \in BOOLEAN :
          best' = [best EXCEPT ![f] = IF @ = NoTile \/ better THEN tile[f] ELSE @]
    /\ IF tile[f] + 1 \in Tiles
       THEN GoTo(f, "tune_lock") /\ tile' = [tile EXCEPT ![f] = @ + 1]
       ELSE GoTo(f, "publish") /\ UNCHANGED tile
    /\ UNCHANGED <<shared, plane, refs>>

\* Faulty: the best function is published and not assigned.
StoreTunedOnly(f) ==
    /\ pc[f] = "publish"
    /\ tuned' = [tuned EXCEPT ![MyKey(f)] = best[f]]
    /\ GoTo(f, "call")
    /\ UNCHANGED <<jit_cache, symbols, cache_mutex, compiled, plane, tile, best, refs, called>>

\* The critical section that publishes the best tile.
StoreTuned(f) ==
    /\ pc[f] = "publish"
    /\ tuned' = [tuned EXCEPT ![MyKey(f)] = best[f]]
    /\ tile' = [tile EXCEPT ![f] = best[f]]
    /\ GoTo(f, "assign")
    /\ UNCHANGED <<jit_cache, symbols, cache_mutex, compiled, plane, best, refs, called>>

\* compiled[plane] is written without a lock.
Assign(f) ==
    /\ pc[f] = "assign"
    /\ compiled' = [compiled EXCEPT ![FilterOf[f]][plane[f]] = Wanted(f)]
    /\ GoTo(f, "call")
    /\ UNCHANGED <<jit_cache, symbols, cache_mutex, tuned, plane, tile, best, refs, called>>

\* compiled[plane].func_ptr is read again, and called.
Call(f) ==
    /\ pc[f] = "call"
    /\ called' = [called EXCEPT ![f] = @ \cup {Mine(f)}]
    /\ GoTo(f, "next")
    /\ UNCHANGED <<shared, plane, tile, best, refs>>

NextPlane(f) ==
    /\ pc[f] = "next"
    /\ plane' = [plane EXCEPT ![f] = @ + 1]
    /\ called' = [called EXCEPT ![f] = {}]
    /\ GoTo(f, "plane")
    /\ UNCHANGED <<shared, tile, best, refs>>

\* The sources are freed, the new frame is the caller's.
ReturnFrame(f) ==
    /\ pc[f] = "plane" /\ plane[f] > NumPlanes
    /\ refs' = [refs EXCEPT ![f] = @ - NumInputs - 1]
    /\ GoTo(f, "done")
    /\ UNCHANGED <<shared, plane, tile, best, called>>

Request(f) ==
    \/ GetFrames(f) \/ SkipPlane(f) \/ CheckCompiled(f) \/ LookupTuned(f) \/ LockCache(f)
    \/ CheckCache(f) \/ Compile(f) \/ CompileFails(f) \/ Measure(f) \/ StoreTuned(f)
    \/ Assign(f) \/ Call(f) \/ NextPlane(f) \/ ReturnFrame(f)

Next == \E f \in Frames : Request(f)

Spec == Init /\ [][Next]_vars

\* Every thread runs; a mutex that stays free is taken in the end.
FairSpec == Spec /\ \A f \in Frames : WF_vars(Request(f))

-------------------------------------------------------------------------------

TypeOK ==
    /\ jit_cache \subseteq Functions
    /\ symbols \subseteq Planes \X Keys \X Tiles
    /\ cache_mutex \in Frames \cup {Nobody}
    /\ tuned \in [Keys -> Tiles \cup {NoTile}]
    /\ compiled \in [Filters -> [Planes -> Functions \cup {NoFunction}]]
    /\ pc \in [Frames -> {"idle", "plane", "lookup", "lock", "check", "compile",
                          "tune_lock", "tune_check", "tune_compile", "measure", "publish", "assign", "call", "next", "done", "failed"}]
    /\ plane \in [Frames -> 1 .. NumPlanes + 1]
    /\ tile \in [Frames -> Tiles \cup {NoTile}]
    /\ best \in [Frames -> Tiles \cup {NoTile}]
    /\ refs \in [Frames -> Nat]
    /\ called \in [Frames -> SUBSET (Functions \cup {NoFunction})]

\* Whatever the other requests of the filter do to "compiled", a request calls only
\* functions that are in the cache, made for the expression and the size of its plane.
CallsOwnFunction ==
    \A f \in Frames : \A fn \in called[f] : fn \in jit_cache /\ fn[1] = MyKey(f)

\* Two mutexes, one promise: a tile that is published is compiled, so that whoever finds it
\* there also finds its function and does not compile; and until a compilation fails, no
\* function is compiled twice and none is lost: each one in the cache has its symbol from one
\* plane only, though the key says nothing of the plane, and each symbol its function.
PublishedIsCompiled ==
    /\ \A k \in Keys : tuned[k] # NoTile => <<k, tuned[k]>> \in jit_cache
    /\ (\A f \in Frames : pc[f] # "failed") =>
        /\ \A fn \in jit_cache :
              Cardinality({p \in Planes : <<p, fn[1], fn[2]>> \in symbols}) = 1
        /\ \A s \in symbols : <<s[2], s[3]>> \in jit_cache

\* A request that has ended, well or not, holds no frame; it never frees one twice.
NoFrameLeaks == \A f \in Frames : pc[f] \in {"idle", "done", "failed"} <=> refs[f] = 0

\* Every request is answered: nobody keeps cache_mutex, tuning ends.
RequestEnds == \A f \in Frames : <>(pc[f] \in {"done", "failed"})

================================================================================
