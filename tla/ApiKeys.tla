------------------------------- MODULE ApiKeys -------------------------------
(* The keys of the clients (apikeys.py, store/keys_pg.py).  They live in the *)
(* table api_keys, with a copy in keys.json that stands in when a statement  *)
(* fails.  An edit reads all keys, changes one and replaces the whole table; *)
(* a process remembers for a while the keys that it has found to be valid.   *)
EXTENDS Integers, FiniteSets

CONSTANTS
    Processes,
    Ids,            \* the ids that keys get
    MaxHash,        \* bound of a run: secrets that are made
    Ttl,            \* _VERIFY_CACHE_TTL
    MaxErrors,      \* bound of a run: statements that fail, and crashes
    None

Hashes == 1 .. MaxHash
Key == [hash : Hashes, on : BOOLEAN]
Keys == [Ids -> Key \cup {None}]
Job == [kind : {"create", "regenerate", "enable", "disable", "update", "delete", "count"},
        id : Ids \cup {None}, hash : Hashes \cup {None}, keys : Keys \cup {None},
        at : {"upsert", "replace", "mirror", "done", "list", "drop", "scan"}]

ApiKeysAssumption ==
    /\ Ttl \in Nat \ {0} /\ {MaxHash, MaxErrors} \subseteq Nat
    /\ None \notin Ids \cup Hashes \cup Processes \cup Key \cup Job

VARIABLES
    table,      \* api_keys: the hash of a key and whether it is enabled
    file,       \* keys.json
    known,      \* _verify_cache of each process: ticks since a hash was found valid
    job,        \* what a process does under _lock
    made,       \* secrets made
    since,      \* ticks since a hash was that of an enabled key of the table
    errors,
    astray      \* the file may be behind the table: a write has failed, an edit
                \* was cut short, or two processes have edited at a time

stores == <<table, file, since>>
vars == <<stores, known, job, made, errors, astray>>

Valid(keys) == {keys[i].hash : i \in {i \in Ids : keys[i] # None /\ keys[i].on}}

Far == Ttl + 1

Init ==
    /\ table = [i \in Ids |-> None] /\ file = table
    /\ known = [p \in Processes |-> [h \in Hashes |-> None]]
    /\ job = [p \in Processes |-> None]
    /\ made = 0 /\ errors = 0 /\ astray = FALSE
    /\ since = [h \in Hashes |-> Far]

-----------------------------------------------------------------------------
At(p, place) == job[p] # None /\ job[p].at = place

(* What a process that holds its lock is going to write.                     *)
Writing(p) == job[p] # None /\ job[p].at # "scan"
OtherWrites(p) == \E o \in Processes \ {p} : Writing(o)

Goto(p, place) == job' = [job EXCEPT ![p].at = place]
Unlock(p) == job' = [job EXCEPT ![p] = None]
Fail == errors < MaxErrors /\ errors' = errors + 1
Fine == UNCHANGED errors

SetTable(keys) ==
    /\ table' = keys
    /\ since' = [h \in Hashes |-> IF h \in Valid(keys) THEN 0 ELSE since[h]]

(* _load_raw: the table, or the file when the SELECT fails.                  *)
LoadRaw(keys) == (keys = table /\ Fine) \/ (keys = file /\ Fail)

-----------------------------------------------------------------------------
(* create_key, regenerate_key, set_enabled, update_key and delete_key.  All  *)
(* but the deletion begin with _load_raw and return when the key is missing. *)
Edited(kind, keys, i) ==
    CASE kind \in {"create", "regenerate"} ->
            [keys EXCEPT ![i] = [hash |-> made + 1,
                                 on |-> IF kind = "create" THEN TRUE ELSE keys[i].on]]
      [] kind = "enable" -> [keys EXCEPT ![i].on = TRUE]
      [] kind = "disable" -> [keys EXCEPT ![i].on = FALSE]
      [] OTHER -> keys

Edit(p, kind, i) ==
    /\ job[p] = None
    /\ \E keys \in {table, file} :
          /\ LoadRaw(keys)
          /\ IF kind = "create" THEN keys[i] = None /\ table[i] = None /\ file[i] = None
                                ELSE keys[i] # None
          /\ kind \in {"create", "regenerate"} => made < MaxHash
          /\ made' = IF kind \in {"create", "regenerate"} THEN made + 1 ELSE made
          /\ job' = [job EXCEPT ![p] = [kind |-> kind, id |-> i, hash |-> None,
                                        keys |-> Edited(kind, keys, i),
                                        at |-> IF kind = "create" THEN "replace" ELSE "upsert"]]
    /\ astray' = (astray \/ OtherWrites(p))
    /\ UNCHANGED <<stores, known>>

(* keys_pg.upsert of the changed key; that it fails is passed over.          *)
Upsert(p) ==
    /\ At(p, "upsert")
    /\ \/ SetTable([table EXCEPT ![job[p].id] = job[p].keys[job[p].id]]) /\ Fine
       \/ Fail /\ UNCHANGED <<table, since>>
    /\ Goto(p, "replace")
    /\ UNCHANGED <<file, known, made, astray>>

(* _save_raw: replace_all, and when it fails the file only.                  *)
Replace(p) ==
    /\ At(p, "replace")
    /\ \/ /\ SetTable(job[p].keys) /\ Fine
          /\ Goto(p, "mirror")
          /\ UNCHANGED <<file, astray>>
       \/ /\ Fail /\ file' = job[p].keys /\ astray' = TRUE
          /\ Goto(p, "done")
          /\ UNCHANGED <<table, since>>
    /\ UNCHANGED <<known, made>>

(* Mutant: the file is written only when the table cannot be.                *)
MirrorNever(p) ==
    /\ At(p, "mirror") /\ Goto(p, "done")
    /\ UNCHANGED <<stores, known, made, errors, astray>>

Mirror(p) ==
    /\ At(p, "mirror")
    /\ \/ file' = job[p].keys /\ Fine /\ UNCHANGED astray
       \/ Fail /\ astray' = TRUE /\ UNCHANGED file
    /\ Goto(p, "done")
    /\ UNCHANGED <<table, since, known, made>>

(* _cache_invalidate, of this process only.  The save of a usage counter     *)
(* leaves the cache as it is.                                                *)
Done(p) ==
    /\ At(p, "done")
    /\ known' = IF job[p].kind = "count" THEN known
                ELSE [known EXCEPT ![p] = [h \in Hashes |-> None]]
    /\ Unlock(p)
    /\ UNCHANGED <<stores, made, errors, astray>>

-----------------------------------------------------------------------------
(* delete_key: the row, and then the file from the rows that are left.  When *)
(* a statement fails it goes on with what _load_raw answers, and when the    *)
(* key is not there it leaves all as it is, the file included.               *)
Delete(p, i) ==
    /\ job[p] = None /\ table[i] # None
    /\ \/ /\ SetTable([table EXCEPT ![i] = None]) /\ Fine
          /\ job' = [job EXCEPT ![p] = [kind |-> "delete", id |-> i, hash |-> None, keys |-> None,
                                        at |-> "list"]]
       \/ /\ Fail
          /\ job' = [job EXCEPT ![p] = [kind |-> "delete", id |-> i, hash |-> None, keys |-> None,
                                        at |-> "drop"]]
          /\ UNCHANGED <<table, since>>
    /\ astray' = (astray \/ OtherWrites(p))
    /\ UNCHANGED <<file, known, made>>

List(p) ==
    /\ At(p, "list")
    /\ \/ Fine /\ job' = [job EXCEPT ![p].at = "replace", ![p].keys = table]
       \/ Fail /\ Goto(p, "drop")
    /\ UNCHANGED <<stores, known, made, astray>>

Drop(p) ==
    /\ At(p, "drop")
    /\ \E keys \in {table, file} :
          /\ LoadRaw(keys)
          /\ IF keys[job[p].id] # None
             THEN /\ job' = [job EXCEPT ![p].at = "replace",
                                        ![p].keys = [keys EXCEPT ![job[p].id] = None]]
                  /\ UNCHANGED astray
             ELSE Unlock(p) /\ astray' = (astray \/ file # table)
    /\ UNCHANGED <<stores, known, made>>

-----------------------------------------------------------------------------
Remember(p, h) == known' = [known EXCEPT ![p][h] = 0]

(* verify_key of a secret that is not remembered: the row of the hash, and   *)
(* without it all keys.                                                      *)
Find(p, h) ==
    /\ job[p] = None /\ known[p][h] = None
    /\ \/ /\ h \in Valid(table) /\ Remember(p, h) /\ Fine
          /\ UNCHANGED job
       \/ /\ \/ Fine /\ \A i \in Ids : table[i] # None => table[i].hash # h
             \/ Fail
          /\ job' = [job EXCEPT ![p] = [kind |-> "count", id |-> None, hash |-> h, keys |-> None,
                                        at |-> "scan"]]
          /\ UNCHANGED known
    /\ UNCHANGED <<stores, made, astray>>

(* A key found this way is counted in Redis, or by a save of all keys.       *)
Scan(p) ==
    /\ At(p, "scan")
    /\ \E keys \in {table, file} :
          /\ LoadRaw(keys)
          /\ IF job[p].hash \in Valid(keys)
             THEN /\ Remember(p, job[p].hash)
                  /\ \/ Unlock(p) /\ UNCHANGED astray
                     \/ /\ job' = [job EXCEPT ![p].keys = keys, ![p].at = "replace"]
                        /\ astray' = (astray \/ OtherWrites(p))
             ELSE Unlock(p) /\ UNCHANGED <<known, astray>>
    /\ UNCHANGED <<stores, made>>

Crash(p) ==
    /\ Fail
    /\ Unlock(p) /\ known' = [known EXCEPT ![p] = [h \in Hashes |-> None]]
    /\ astray' = (astray \/ Writing(p))
    /\ UNCHANGED <<stores, made>>

(* Mutant: an entry of the cache does not expire.                            *)
CacheKeep(k) == IF k = None \/ k = Ttl THEN k ELSE k + 1

(* Mutant: an entry is never dropped.                                        *)
CacheLinger(k) == IF k = None THEN None ELSE k + 1

(* _cache_get drops an entry that has expired.                               *)
CacheGet(k) == IF k = None \/ k = Ttl THEN None ELSE k + 1

(* Time passes between the calls, which are short.                           *)
Tick ==
    /\ \A p \in Processes : job[p] = None
    /\ known' = [p \in Processes |-> [h \in Hashes |->
                    CacheGet(known[p][h])]]
    /\ since' = [h \in Hashes |-> IF h \in Valid(table) THEN 0
                                  ELSE IF since[h] < Far THEN since[h] + 1 ELSE Far]
    /\ <<known, since>>' # <<known, since>>
    /\ UNCHANGED <<table, file, job, made, errors, astray>>

Step ==
    \/ \E p \in Processes :
          \/ \E kind \in {"create", "regenerate", "enable", "disable", "update"}, i \in Ids :
                Edit(p, kind, i)
          \/ \E i \in Ids : Delete(p, i)
          \/ \E h \in 1 .. made : Find(p, h)
          \/ Upsert(p) \/ Replace(p) \/ Mirror(p) \/ Done(p) \/ List(p) \/ Drop(p) \/ Scan(p)
          \/ Crash(p)
    \/ Tick

(* A behaviour ends where the stores have come apart: what the code then     *)
(* does is in the README.                                                    *)
Next == ~astray /\ Step

Spec == Init /\ [][Next]_vars

-----------------------------------------------------------------------------
(* The types of the stores, the caches and the work in progress.             *)
TypeOK ==
    /\ table \in Keys /\ file \in Keys
    /\ job \in [Processes -> Job \cup {None}]
    /\ known \in [Processes -> [Hashes -> (0 .. Ttl) \cup {None}]]
    /\ since \in [Hashes -> 0 .. Far]
    /\ made \in 0 .. MaxHash /\ errors \in 0 .. MaxErrors /\ astray \in BOOLEAN

(* A key that was disabled, rotated or deleted in any process is refused in  *)
(* all of them after the ttl of the cache, and what the cache says is never  *)
(* older than it claims: also when reads fail and the file answers for the   *)
(* table, and when processes that do not edit crash.                         *)
KeyExpires ==
    ~astray => \A p \in Processes, h \in Hashes :
                  known[p][h] # None => since[h] <= known[p][h]

Brings(kind, i) ==
    CASE kind = "create" -> table[i] = None /\ table'[i] = [hash |-> made, on |-> TRUE]
      [] kind = "regenerate" -> table'[i] = [table[i] EXCEPT !.hash = made]
      [] kind = "enable" -> table'[i] = [table[i] EXCEPT !.on = TRUE]
      [] kind = "disable" -> table'[i] = [table[i] EXCEPT !.on = FALSE]
      [] OTHER -> kind = "delete" /\ table'[i] = None

(* Every edit, and the count of a request, replaces the whole table, maybe   *)
(* by what the file said: but only the key that an edit is about changes,    *)
(* and as the edit says.  What is revoked is not brought back.               *)
OnlyItsEdit ==
    [][\A i \in Ids : table'[i] # table[i] /\ ~astray'
          => \E p \in Processes :
                \E j \in {job[p], job'[p]} \ {None} : j.id = i /\ Brings(j.kind, i)]_vars
=============================================================================
