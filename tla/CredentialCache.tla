-------------------------- MODULE CredentialCache --------------------------
(* The two caches between the accounts table and the requests of a process:  *)
(* _auth_map_cache of store/accounts_pg.py and, built from it, the live      *)
(* credentials of auth.py with their background refresh.  The content of the *)
(* table is the number of commits it has seen; a copy carries the number it  *)
(* was read at.                                                              *)
EXTENDS Integers

CONSTANTS
    Writers,        \* threads of this process that commit to the table
    Readers,        \* threads of this process that list credentials
    Empty,          \* nothing is cached
    None,
    MaxCommits      \* bound: commits, of this process and of others

Copies == 0..MaxCommits

(* Who can be building a snapshot: a reader itself, or the refresh thread.   *)
Builders == Readers \cup {"refresher"}

CacheAssumption ==
    /\ MaxCommits \in Nat
    /\ Empty \notin Copies
    /\ None \notin Writers \cup Builders /\ "refresher" \notin Readers

VARIABLES
    table,
    mapCache,       \* the cached map, Empty when absent or over its ttl
    mapLock,        \* who holds _auth_map_cache_lock
    live,           \* the live credentials
    fresh,          \* their "at" is within the ttl
    generation,
    refreshing,     \* a refresh thread exists
    throttled,      \* refresh_not_before lies ahead
    writer,         \* writer[w]: where its write is
    wrote,          \* wrote[w]: the commit it is invalidating for
    builder,        \* builder[b]: where its build is
    read, gen,      \* what a builder read, and the generation it began at
    done            \* ghost: the newest own commit whose write has returned

vars == <<table, mapCache, mapLock, live, fresh, generation, refreshing, throttled,
          writer, wrote, builder, read, gen, done>>

TypeOK ==
    /\ table \in Copies
    /\ mapCache \in Copies \cup {Empty}
    /\ mapLock \in Builders \cup {None}
    /\ live \in Copies \cup {Empty}
    /\ fresh \in BOOLEAN /\ (fresh => live # Empty)
    /\ generation \in 0..MaxCommits
    /\ refreshing \in BOOLEAN /\ throttled \in BOOLEAN
    /\ writer \in [Writers -> {"idle", "committed", "mapped"}]
    /\ wrote \in [Writers -> Copies]
    /\ builder \in [Builders -> {"idle", "read", "publish", "store"}]
    /\ read \in [Builders -> Copies]
    /\ gen \in [Builders -> 0..MaxCommits]
    /\ done \in Copies
    /\ refreshing <=> builder["refresher"] # "idle"

Init ==
    /\ table = 0 /\ done = 0 /\ generation = 0
    /\ mapCache = Empty /\ live = Empty
    /\ mapLock = None
    /\ fresh = FALSE /\ refreshing = FALSE /\ throttled = FALSE
    /\ writer = [w \in Writers |-> "idle"]
    /\ wrote = [w \in Writers |-> 0]
    /\ builder = [b \in Builders |-> "idle"]
    /\ read = [b \in Builders |-> 0]
    /\ gen = [b \in Builders |-> 0]

-----------------------------------------------------------------------------
(* A write of this process: commit, drop the cached map under its lock, then *)
(* mark the live credentials stale and have them refreshed.                  *)
Commit(w) ==
    /\ writer[w] = "idle" /\ table < MaxCommits
    /\ table' = table + 1
    /\ wrote' = [wrote EXCEPT ![w] = table + 1]
    /\ writer' = [writer EXCEPT ![w] = "committed"]
    /\ UNCHANGED <<mapCache, mapLock, live, fresh, generation, refreshing, throttled,
                   builder, read, gen, done>>

InvalidateMap(w) ==
    /\ writer[w] = "committed" /\ mapLock = None
    /\ mapCache' = Empty
    /\ writer' = [writer EXCEPT ![w] = "mapped"]
    /\ UNCHANGED <<table, mapLock, live, fresh, generation, refreshing, throttled,
                   wrote, builder, read, gen, done>>

(* _schedule_live_credentials_refresh: one thread at a time, and not again   *)
(* before the throttle is over.                                              *)
Schedule ==
    IF live # Empty /\ ~refreshing /\ ~throttled
    THEN /\ refreshing' = TRUE /\ throttled' = TRUE
         /\ builder' = [builder EXCEPT !["refresher"] = "read"]
         /\ gen' = [gen EXCEPT !["refresher"] = generation']
    ELSE UNCHANGED <<refreshing, throttled, builder, gen>>

(* invalidate_live_credentials_cache.                                        *)
(* Mutant: the refresh is started and the generation stays.                  *)
InvalidateLiveSameGeneration(w) ==
    /\ writer[w] = "mapped"
    /\ fresh' = FALSE
    /\ UNCHANGED generation
    /\ Schedule
    /\ writer' = [writer EXCEPT ![w] = "idle"]
    /\ done' = IF wrote[w] > done THEN wrote[w] ELSE done
    /\ UNCHANGED <<table, mapCache, mapLock, live, wrote, read>>

InvalidateLive(w) ==
    /\ writer[w] = "mapped"
    /\ fresh' = FALSE
    /\ generation' = generation + 1
    /\ Schedule
    /\ writer' = [writer EXCEPT ![w] = "idle"]
    /\ done' = IF wrote[w] > done THEN wrote[w] ELSE done
    /\ UNCHANGED <<table, mapCache, mapLock, live, wrote, read>>

(* Another process commits; nothing here is told.                            *)
RemoteCommit ==
    /\ table < MaxCommits
    /\ table' = table + 1
    /\ UNCHANGED <<mapCache, mapLock, live, fresh, generation, refreshing, throttled,
                   writer, wrote, builder, read, gen, done>>

-----------------------------------------------------------------------------
(* list_live_credentials: a fresh list is returned; a stale one is returned  *)
(* and refreshed in the background; with none, the caller builds it.         *)
ListStale(b) ==
    /\ b \in Readers /\ builder[b] = "idle"
    /\ live # Empty /\ ~fresh
    /\ generation' = generation
    /\ Schedule
    /\ UNCHANGED <<table, mapCache, mapLock, live, fresh, writer, wrote, read, done>>

ListMissing(b) ==
    /\ b \in Readers /\ builder[b] = "idle"
    /\ live = Empty
    /\ builder' = [builder EXCEPT ![b] = "read"]
    /\ gen' = [gen EXCEPT ![b] = generation]
    /\ UNCHANGED <<table, mapCache, mapLock, live, fresh, generation, refreshing,
                   throttled, writer, wrote, read, done>>

(* read_auth_map: a young cached map, else a SELECT whose rows are published *)
(* before the lock is left.                                                  *)
ReadCached(b) ==
    /\ builder[b] = "read" /\ mapLock = None
    /\ mapCache # Empty
    /\ read' = [read EXCEPT ![b] = mapCache]
    /\ builder' = [builder EXCEPT ![b] = "store"]
    /\ UNCHANGED <<table, mapCache, mapLock, live, fresh, generation, refreshing,
                   throttled, writer, wrote, gen, done>>

Select(b) ==
    /\ builder[b] = "read" /\ mapLock = None
    /\ mapCache = Empty
    /\ mapLock' = b
    /\ read' = [read EXCEPT ![b] = table]
    /\ builder' = [builder EXCEPT ![b] = "publish"]
    /\ UNCHANGED <<table, mapCache, live, fresh, generation, refreshing, throttled,
                   writer, wrote, gen, done>>

Publish(b) ==
    /\ builder[b] = "publish"
    /\ mapCache' = read[b]
    /\ mapLock' = None
    /\ builder' = [builder EXCEPT ![b] = "store"]
    /\ UNCHANGED <<table, live, fresh, generation, refreshing, throttled, writer,
                   wrote, read, gen, done>>

(* _store_live_credentials_snapshot: a list that a write has overtaken is    *)
(* stored as stale.                                                          *)
Store(b) ==
    /\ builder[b] = "store"
    /\ live' = read[b]
    /\ fresh' = (gen[b] = generation)
    /\ builder' = [builder EXCEPT ![b] = "idle"]
    /\ refreshing' = (refreshing /\ b # "refresher")
    /\ UNCHANGED <<table, mapCache, mapLock, generation, throttled, writer, wrote,
                   read, gen, done>>

(* Two seconds for either cache, one minute for a stale list, the throttle.  *)
Age ==
    /\ \/ mapCache' = Empty /\ UNCHANGED <<live, fresh, throttled>>
       \/ fresh' = FALSE /\ UNCHANGED <<mapCache, live, throttled>>
       \/ live' = Empty /\ fresh' = FALSE /\ UNCHANGED <<mapCache, throttled>>
    /\ mapLock = None
    /\ UNCHANGED <<table, mapLock, generation, refreshing, writer, wrote, builder,
                   read, gen, done>>

Unthrottle ==
    /\ throttled
    /\ throttled' = FALSE
    /\ UNCHANGED <<table, mapCache, mapLock, live, fresh, generation, refreshing,
                   writer, wrote, builder, read, gen, done>>

Write(w) == Commit(w) \/ InvalidateMap(w) \/ InvalidateLive(w)
Build(b) == ReadCached(b) \/ Select(b) \/ Publish(b) \/ Store(b)

Next ==
    \/ \E w \in Writers : Write(w)
    \/ \E b \in Readers : ListStale(b) \/ ListMissing(b)
    \/ \E b \in Builders : Build(b)
    \/ RemoteCommit \/ Age \/ Unthrottle

Spec == Init /\ [][Next]_vars

-----------------------------------------------------------------------------
(* A list that counts as fresh holds every write of this process that has    *)
(* returned, whatever builds were under way when it was made.                *)
FreshHoldsOwnWrites == fresh => live >= done
=============================================================================
