----------------------------- MODULE UsageStats -----------------------------
(* The counts of finished requests (usage_stats.py).  Every request is added *)
(* to a day and a lifetime hash in Redis (store/usage_redis.py), one field   *)
(* at a time, and to a day in PostgreSQL (store/usage_pg.py); what is shown  *)
(* is put together from both.  Of the fields the model has the requests and  *)
(* those that succeeded, which tokens are counted for, of the dimensions the *)
(* global one.                                                               *)
EXTENDS Integers, Sequences, Functions

CONSTANTS
    Workers, None,
    MaxDay, MaxRequests, MaxErrors      \* bounds of a run

Days == 1 .. MaxDay
Life == 0                               \* the lifetime hash
Fields == {"requests", "success"}
Stores == {"redis", "pg"}

UsageAssumption == {MaxDay, MaxRequests} \subseteq Nat \ {0} /\ MaxErrors \in Nat

VARIABLES
    clock,      \* the day
    redis,      \* the hashes usage:day:* and usage:life
    daily,      \* usage_daily
    rec,        \* what record_usage of each worker is doing
    snap,       \* what light_snapshot of each worker has read
    light,      \* _light_cache of each worker
    finished,   \* requests that have finished
    done,       \* those whose counting is over
    before,     \* done when the caches last expired
    crossed,    \* those whose two stores were told of different days
    failed,     \* the stores that have failed a request or a reader
    doubled,    \* a pipeline has failed after a part of it was applied
    errors

stores == <<redis, daily>>
history == <<finished, done, before, crossed, failed, doubled, errors>>
vars == <<clock, stores, rec, snap, light, history>>

Empty == [f \in Fields |-> 0]

Init ==
    /\ clock = 1
    /\ redis = [k \in Days \cup {Life} |-> Empty] /\ daily = [d \in Days |-> Empty]
    /\ rec = [w \in Workers |-> None]
    /\ snap = [w \in Workers |-> None]
    /\ light = [w \in Workers |-> None]
    /\ finished = 0 /\ done = 0 /\ before = 0 /\ crossed = 0
    /\ failed = {} /\ doubled = FALSE /\ errors = 0

-----------------------------------------------------------------------------
Max2(m, n) == IF m >= n THEN m ELSE n

(* Mutant: the counts of the stores are added.                               *)
AddedStats(s, t) == [f \in Fields |-> s[f] + t[f]]

(* The sum of a count of each day.                                           *)
Total(counts) ==
    LET sum[d \in 0 .. MaxDay] == IF d = 0 THEN 0 ELSE sum[d - 1] + counts[d]
    IN  sum[MaxDay]

(* _merge_stats, _sum_stats                                                  *)
MergeStats(s, t) == [f \in Fields |-> Max2(s[f], t[f])]
SumStats(stats) == [f \in Fields |-> Total([d \in Days |-> stats[d][f]])]

Deltas(ok) == IF ok THEN <<"requests", "success">> ELSE <<"requests">>

Error(store) ==
    /\ errors < MaxErrors /\ errors' = errors + 1
    /\ failed' = failed \cup {store}

-----------------------------------------------------------------------------
(* record_usage of a request that has finished.                              *)
Record(w, ok) ==
    /\ rec[w] = None /\ finished < MaxRequests
    /\ finished' = finished + 1
    /\ rec' = [rec EXCEPT ![w] = [ok |-> ok, day |-> clock, key |-> clock, left |-> Deltas(ok),
                                  plain |-> FALSE, at |-> "redis"]]
    /\ UNCHANGED <<clock, stores, snap, light, done, before, crossed, failed, doubled, errors>>

(* A command of the pipeline of _incr_hash, or of what stands in for it;     *)
(* usage_redis.record counts the day, and after it the lifetime.             *)
Command(w) ==
    /\ rec[w] # None /\ rec[w].at = "redis"
    /\ redis' = [redis EXCEPT ![rec[w].key][Head(rec[w].left)] = @ + 1]
    /\ rec' = IF Len(rec[w].left) > 1 THEN [rec EXCEPT ![w].left = Tail(@)]
              ELSE IF rec[w].key = Life THEN [rec EXCEPT ![w].at = "pg"]
              ELSE [rec EXCEPT ![w].key = Life, ![w].left = Deltas(rec[w].ok), ![w].plain = FALSE]
    /\ UNCHANGED <<clock, daily, snap, light, history>>

(* A pipeline that raises, before or after all of it was applied, is         *)
(* followed by its commands one by one; when one of these raises, Redis is   *)
(* given up.                                                                 *)
CommandFails(w) ==
    /\ rec[w] # None /\ rec[w].at = "redis"
    /\ Error("redis")
    /\ IF rec[w].plain
       THEN rec' = [rec EXCEPT ![w].at = "pg"] /\ UNCHANGED <<redis, doubled>>
       ELSE /\ rec' = [rec EXCEPT ![w].plain = TRUE, ![w].left = Deltas(rec[w].ok)]
            /\ \/ UNCHANGED redis /\ doubled' = (doubled \/ rec[w].left # Deltas(rec[w].ok))
               \/ /\ redis' = [redis EXCEPT ![rec[w].key] =
                        [f \in Fields |-> @[f] + IF f \in Range(rec[w].left) THEN 1 ELSE 0]]
                  /\ doubled' = TRUE
    /\ UNCHANGED <<clock, daily, snap, light, finished, done, before, crossed>>

(* usage_pg.record: one transaction, for the day that it is now.             *)
Commit(w) ==
    /\ rec[w] # None /\ rec[w].at = "pg"
    /\ \/ /\ daily' = [daily EXCEPT ![clock] =
                          [f \in Fields |-> @[f] + IF f = "requests" \/ rec[w].ok THEN 1 ELSE 0]]
          /\ crossed' = IF rec[w].day = clock THEN crossed ELSE crossed + 1
          /\ UNCHANGED <<failed, errors>>
       \/ Error("pg") /\ UNCHANGED <<daily, crossed>>
    /\ rec' = [rec EXCEPT ![w].at = "end"]
    /\ UNCHANGED <<clock, redis, snap, light, finished, done, before, doubled>>

Recorded(w) ==
    /\ rec[w] # None /\ rec[w].at = "end"
    /\ light' = [light EXCEPT ![w] = None]
    /\ rec' = [rec EXCEPT ![w] = None]
    /\ done' = done + 1
    /\ UNCHANGED <<clock, stores, snap, finished, before, crossed, failed, doubled, errors>>

-----------------------------------------------------------------------------
(* The lifetime of light_snapshot: the hash, and after it the sum of all     *)
(* rows.  A store that does not answer counts nothing.                       *)
ReadLife(w) ==
    /\ light[w] = None /\ snap[w] = None
    /\ \/ snap' = [snap EXCEPT ![w] = redis[Life]] /\ UNCHANGED <<failed, errors>>
       \/ snap' = [snap EXCEPT ![w] = Empty] /\ Error("redis")
    /\ UNCHANGED <<clock, stores, rec, light, finished, done, before, crossed, doubled>>

(* Mutant: Redis is believed when it has anything, as it is for the day.     *)
MergeHot(s, t) == IF s # Empty THEN s ELSE t

(* _merge_stats of what was read of the stores                               *)
Lifetime(s, t) == MergeStats(s, t)

ReadSum(w) ==
    /\ snap[w] # None
    /\ \/ /\ light' = [light EXCEPT ![w] = Lifetime(snap[w], SumStats(daily))]
          /\ UNCHANGED <<failed, errors>>
       \/ light' = [light EXCEPT ![w] = Lifetime(snap[w], Empty)] /\ Error("pg")
    /\ snap' = [snap EXCEPT ![w] = None]
    /\ UNCHANGED <<clock, stores, rec, finished, done, before, crossed, doubled>>

-----------------------------------------------------------------------------
(* _LIGHT_TTL has passed, while no call was under way: they are short.       *)
Expire ==
    /\ \A w \in Workers : rec[w] = None /\ snap[w] = None
    /\ light' = [w \in Workers |-> None]
    /\ before' = done
    /\ <<light, before>>' # <<light, before>>
    /\ UNCHANGED <<clock, stores, rec, snap, finished, done, crossed, failed, doubled, errors>>

Midnight ==
    /\ clock < MaxDay
    /\ clock' = clock + 1
    /\ UNCHANGED <<stores, rec, snap, light, history>>

Next ==
    \/ \E w \in Workers :
          \/ \E ok \in BOOLEAN : Record(w, ok)
          \/ Command(w) \/ CommandFails(w) \/ Commit(w) \/ Recorded(w)
          \/ ReadLife(w) \/ ReadSum(w)
    \/ Expire \/ Midnight

Spec == Init /\ [][Next]_vars

-----------------------------------------------------------------------------
(* summary: of each day the greater count, and the sum of the days.          *)
Window == SumStats([d \in Days |-> MergeStats(redis[d], daily[d])])

Stats == [Fields -> Nat]

(* The types of the stores and the caches.                                   *)
TypeOK ==
    /\ clock \in Days
    /\ redis \in [Days \cup {Life} -> Stats] /\ daily \in [Days -> Stats]
    /\ \A w \in Workers : light[w] # None => light[w] \in Stats
    /\ failed \subseteq Stores /\ {finished, done, before, crossed, errors} \subseteq Nat

(* No request is shown twice, although every one is in both stores, and no   *)
(* success without its request, whatever the readers see of a pipeline that  *)
(* is under way: until a pipeline fails half way.  A request that finishes   *)
(* at midnight may be on two days of the window, and counts there as two.    *)
CountsOnce ==
    ~doubled =>
        /\ \A w \in Workers : light[w] # None =>
              light[w]["success"] <= light[w]["requests"] /\ light[w]["requests"] <= finished
        /\ Window["requests"] <= finished + crossed

(* While one of the stores works, no finished request is missing from the    *)
(* lifetime that a dashboard shows for longer than the cache may be old,     *)
(* whatever the other store has lost or failed to answer.                    *)
OneStoreSuffices ==
    \A w \in Workers : light[w] # None /\ failed # Stores
        => light[w]["requests"] >= before
=============================================================================
