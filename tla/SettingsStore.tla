---------------------------- MODULE SettingsStore ----------------------------
(* settings_store.py over app_settings (store/settings_pg.py): every process *)
(* keeps all settings in _mem, looks at the stored ones again when its copy  *)
(* is half a second old, and saves by writing every setting of its copy.     *)
(* The mode of the account pool has a cache of its own.                      *)
EXTENDS Integers, Sequences

CONSTANTS
    Processes,
    Keys,           \* _PG_SCALAR_KEYS in the order of a save
    Mode,           \* the one of them that get_account_mode reads
    Password,       \* admin_password, which comes last in a save
    Values,
    None,
    Interval,       \* _MEM_STAT_MIN_INTERVAL
    FlushDelay,     \* _FLUSH_DELAY_SEC
    ModeTtl,        \* _ACCOUNT_MODE_CACHE_TTL_SEC
    MaxEvents       \* bound of a run: sets, touches, errors and crashes

Scalars == {Keys[i] : i \in DOMAIN Keys}
Settings == Scalars \cup {Password}
Order == Append(Keys, Password)
Copies == [Settings -> Values \cup {None}]      \* None: the copy lacks the setting

SettingsAssumption ==
    /\ Keys \in Seq(Scalars) /\ Mode \in Scalars
    /\ Password \notin Scalars /\ None \notin Values \cup Settings
    /\ {Interval, FlushDelay, ModeTtl} \subseteq Nat \ {0}

VARIABLES
    stored,     \* app_settings
    mem,        \* _mem of each process, None before the first load
    unseen,     \* the settings that its last look could not read
    seen,       \* ticks since _mem_stat_at, Interval or more being the same
    job,        \* what an admin request of the process is in the middle of
    flush,      \* the deferred flush: None, armed, or what it has left to write
    mode,       \* _account_mode_cache
    since,      \* since[k][v]: ticks since v was stored or asked for
    events,
    failed      \* a statement has failed

counts == <<events, failed>>
vars == <<stored, mem, unseen, seen, job, flush, mode, since, counts>>

Far == Interval + FlushDelay + ModeTtl + 1

Init ==
    /\ \E v \in Values : stored = [k \in Settings |-> v]
    /\ mem = [p \in Processes |-> stored]
    /\ unseen = [p \in Processes |-> {}]
    /\ seen = [p \in Processes |-> Interval]
    /\ job = [p \in Processes |-> None]
    /\ flush = [p \in Processes |-> None]
    /\ mode = [p \in Processes |-> None]
    /\ since = [k \in Settings |-> [v \in Values |-> IF stored[k] = v THEN 0 ELSE Far]]
    /\ events = 0 /\ failed = FALSE

(* The lock is held from the load to the last write of a save.               *)
Locked(p) == job[p] # None /\ job[p].at = "write"

-----------------------------------------------------------------------------
(* _load.  A copy that is due is looked at again but for the password, which *)
(* the first load alone reads.  A setting that cannot be read stays as it is *)
(* under the new time, or is left out of a first copy; and a first load that *)
(* fails as a whole, at the password or the pool, takes settings.json, the   *)
(* mirror of some earlier save.                                              *)
Due(p) == mem[p] = None \/ seen[p] >= Interval

Missable(p) ==
    IF ~Due(p) THEN {{}}
    ELSE SUBSET Scalars \cup (IF mem[p] = None THEN {Settings} ELSE {})

Olds(p, missed) ==
    IF mem[p] # None THEN {mem[p]}
    ELSE IF missed = Settings THEN Copies ELSE {[k \in Settings |-> None]}

Loaded(p, missed, old) ==
    [k \in Settings |->
        IF ~Due(p) \/ k \in missed \/ (k = Password /\ mem[p] # None) THEN old[k]
        ELSE stored[k]]

(* The load, with the settings of set given the value v in the copy.         *)
Load(p, missed, set, v) ==
    /\ \E old \in Olds(p, missed) :
          mem' = [mem EXCEPT ![p] = [k \in Settings |->
                     IF k \in set THEN v ELSE Loaded(p, missed, old)[k]]]
    /\ unseen' = [unseen EXCEPT ![p] = (IF Due(p) THEN missed \cap Scalars ELSE @) \ set]
    /\ seen' = [seen EXCEPT ![p] = IF Due(p) THEN 0 ELSE @]

Store(k, v) ==
    /\ stored' = [stored EXCEPT ![k] = v]
    /\ since' = [since EXCEPT ![k][v] = 0]

Event == events < MaxEvents /\ events' = events + 1

Missing(missed) == IF missed = {} THEN UNCHANGED counts ELSE Event /\ failed' = TRUE

(* A statement that fails is passed over, and a setting that the copy lacks. *)
StoreOrFail(k, v) ==
    \/ v # None /\ Store(k, v) /\ UNCHANGED <<events, failed>>
    \/ v = None /\ UNCHANGED <<stored, since, events, failed>>
    \/ v # None /\ Event /\ failed' = TRUE /\ UNCHANGED <<stored, since>>

(* _get_feature_flag and every other reader of the copy.                     *)
Read(p) ==
    /\ ~Locked(p)
    /\ \E missed \in Missable(p) : Load(p, missed, {}, None) /\ Missing(missed)
    /\ <<mem, unseen, seen>>' # <<mem, unseen, seen>>
    /\ UNCHANGED <<stored, job, flush, mode, since>>

(* Mutant: a mode that was read once is kept.                                *)
ModeKept(p) == mode[p] # None

ModeFresh(p) == mode[p] # None /\ mode[p].age < ModeTtl

(* get_account_mode: the cached mode, or the stored one, or when the row     *)
(* cannot be read that of the copy, which may have kept it since long ago.   *)
ReadMode(p) ==
    /\ ~ModeFresh(p)
    /\ \/ /\ mode' = [mode EXCEPT ![p] = [age |-> 0, is |-> stored[Mode], unseen |-> {}]]
          /\ UNCHANGED <<mem, unseen, seen, events, failed>>
       \/ /\ Event /\ failed' = TRUE
          /\ ~Locked(p)
          /\ \E missed \in Missable(p) : Load(p, missed, {}, None)
          /\ mode' = [mode EXCEPT ![p] = [age |-> 0, is |-> mem'[p][Mode],
                                         unseen |-> unseen'[p] \cap {Mode}]]
    /\ UNCHANGED <<stored, job, flush, since>>

-----------------------------------------------------------------------------
(* A set.  _set_setting_value stores its value first; _set_feature_flag      *)
(* stores it again last; set_account_mode and set_admin_password only save.  *)
Ask(p, kind, k, v) ==
    /\ job[p] = None /\ Event
    /\ kind = "password" <=> k = Password
    /\ kind = "mode" => k = Mode
    /\ job' = [job EXCEPT ![p] = [kind |-> kind, key |-> k, to |-> v, left |-> <<>>,
                                  snap |-> None, unseen |-> {}, at |-> IF kind = "value" THEN "first" ELSE "lock"]]
    /\ since' = [since EXCEPT ![k][v] = 0]
    /\ UNCHANGED <<stored, mem, unseen, seen, flush, mode, failed>>

(* apply_runtime_settings_to_modules: a process that starts sets the values  *)
(* that it has just read, or asks for others, those of its configuration,    *)
(* when they cannot be read.                                                 *)
Reapply(p, k, v) ==
    /\ job[p] = None /\ mem[p] = None /\ k \in Scalars \ {Mode}
    /\ \/ v = stored[k] /\ UNCHANGED <<since, counts>>
       \/ Event /\ failed' = TRUE /\ since' = [since EXCEPT ![k][v] = 0]
    /\ job' = [job EXCEPT ![p] = [kind |-> "value", key |-> k, to |-> v, left |-> <<>>,
                                  snap |-> None, unseen |-> {}, at |-> "first"]]
    /\ UNCHANGED <<stored, mem, unseen, seen, flush, mode>>

StoreFirst(p) ==
    /\ job[p] # None /\ job[p].at = "first"
    /\ StoreOrFail(job[p].key, job[p].to)
    /\ job' = [job EXCEPT ![p].at = "lock"]
    /\ UNCHANGED <<mem, unseen, seen, flush, mode>>

(* Mutant: a save starts from the copy as it is.                             *)
SaveUnread(p) ==
    /\ job[p] # None /\ job[p].at = "lock"
    /\ mem' = [mem EXCEPT ![p] = [(IF mem[p] = None THEN stored ELSE mem[p])
                                     EXCEPT ![job[p].key] = job[p].to]]
    /\ job' = [job EXCEPT ![p].at = "write", ![p].snap = mem'[p], ![p].left = Order]
    /\ unseen' = unseen
    /\ flush' = [flush EXCEPT ![p] = IF flush[p] # None /\ flush[p].left = <<>> THEN None ELSE flush[p]]
    /\ UNCHANGED <<stored, seen, mode, since, counts>>

(* The lock, the load, the new value and _save(immediate=True).              *)
Save(p) ==
    /\ job[p] # None /\ job[p].at = "lock"
    /\ \E missed \in Missable(p) :
          Load(p, missed, {job[p].key}, job[p].to) /\ Missing(missed)
    /\ job' = [job EXCEPT ![p].at = "write", ![p].snap = mem'[p], ![p].unseen = unseen'[p],
                          ![p].left = Order]
    /\ flush' = [flush EXCEPT ![p] = IF flush[p] # None /\ flush[p].left = <<>> THEN None ELSE flush[p]]
    /\ UNCHANGED <<stored, mode, since>>

(* _write_disk, one setting after the other.                                 *)
Write(p) ==
    /\ job[p] # None /\ job[p].at = "write" /\ job[p].left # <<>>
    /\ StoreOrFail(Head(job[p].left), job[p].snap[Head(job[p].left)])
    /\ job' = [job EXCEPT ![p].left = Tail(job[p].left)]
    /\ UNCHANGED <<mem, unseen, seen, flush, mode>>

Saved(p) ==
    /\ job[p] # None /\ job[p].at = "write" /\ job[p].left = <<>>
    /\ IF job[p].kind = "flag" THEN StoreOrFail(job[p].key, job[p].to)
                               ELSE UNCHANGED <<stored, since, events, failed>>
    /\ mode' = IF job[p].key = Mode /\ job[p].kind # "flag"
               THEN [mode EXCEPT ![p] = [age |-> 0, is |-> job[p].to, unseen |-> {}]] ELSE mode
    /\ job' = [job EXCEPT ![p] = None]
    /\ UNCHANGED <<mem, unseen, seen, flush>>

-----------------------------------------------------------------------------
(* verify_session_token without Redis: the new time of the session is saved  *)
(* with a delay.                                                             *)
Touch(p) ==
    /\ ~Locked(p) /\ Event
    /\ \E missed \in Missable(p) :
          Load(p, missed, {}, None) /\ failed' = (failed \/ missed # {})
    /\ flush' = IF flush[p] = None
                THEN [flush EXCEPT ![p] = [due |-> FlushDelay, snap |-> None, unseen |-> {},
                                           left |-> <<>>]]
                ELSE flush
    /\ UNCHANGED <<stored, job, mode, since>>

(* The timer takes the copy under the lock and writes it without.            *)
FlushStart(p) ==
    /\ flush[p] # None /\ flush[p].left = <<>> /\ flush[p].due = 0
    /\ ~Locked(p)
    /\ flush' = [flush EXCEPT ![p].snap = mem[p], ![p].unseen = unseen[p], ![p].left = Order]
    /\ UNCHANGED <<stored, mem, unseen, seen, job, mode, since, counts>>

FlushWrite(p) ==
    /\ flush[p] # None /\ flush[p].left # <<>>
    /\ StoreOrFail(Head(flush[p].left), flush[p].snap[Head(flush[p].left)])
    /\ flush' = IF Len(flush[p].left) = 1 THEN [flush EXCEPT ![p] = None]
                ELSE [flush EXCEPT ![p].left = Tail(flush[p].left)]
    /\ UNCHANGED <<mem, unseen, seen, job, mode>>

-----------------------------------------------------------------------------
Crash(p) ==
    /\ Event
    /\ mem' = [mem EXCEPT ![p] = None]
    /\ unseen' = [unseen EXCEPT ![p] = {}]
    /\ job' = [job EXCEPT ![p] = None]
    /\ flush' = [flush EXCEPT ![p] = None]
    /\ mode' = [mode EXCEPT ![p] = None]
    /\ UNCHANGED <<stored, seen, since, failed>>

(* Time passes while nothing is being saved: a save is short.                *)
Tick ==
    /\ \A p \in Processes : job[p] = None /\ (flush[p] # None => flush[p].due > 0)
    /\ seen' = [p \in Processes |-> IF seen[p] < Interval THEN seen[p] + 1 ELSE Interval]
    /\ flush' = [p \in Processes |->
                    IF flush[p] = None THEN None ELSE [flush[p] EXCEPT !.due = @ - 1]]
    /\ mode' = [p \in Processes |->
                    IF mode[p] = None THEN None
                    ELSE [mode[p] EXCEPT !.age = IF @ < ModeTtl THEN @ + 1 ELSE ModeTtl]]
    /\ since' = [k \in Settings |-> [v \in Values |->
                    IF stored[k] = v THEN 0 ELSE IF since[k][v] < Far THEN since[k][v] + 1 ELSE Far]]
    /\ <<seen, flush, mode, since>>' # <<seen, flush, mode, since>>
    /\ UNCHANGED <<stored, mem, unseen, job, counts>>

Next ==
    \/ \E p \in Processes :
          \/ Read(p) \/ ReadMode(p) \/ Touch(p)
          \/ \E kind \in {"value", "flag", "mode", "password"}, k \in Settings, v \in Values :
                Ask(p, kind, k, v)
          \/ \E k \in Scalars, v \in Values : Reapply(p, k, v)
          \/ StoreFirst(p) \/ Save(p) \/ Write(p) \/ Saved(p)
          \/ FlushStart(p) \/ FlushWrite(p) \/ Crash(p)
    \/ Tick

Spec == Init /\ [][Next]_vars

-----------------------------------------------------------------------------
(* The types of the settings, the copies and the saves.                      *)
TypeOK ==
    /\ stored \in [Settings -> Values]
    /\ \A p \in Processes :
          /\ mem[p] = None \/ mem[p] \in Copies
          /\ unseen[p] \subseteq Scalars
          /\ seen[p] \in 0 .. Interval
          /\ job[p] # None => job[p].key \in Settings /\ job[p].to \in Values
          /\ mode[p] # None => mode[p].is \in Values \cup {None} /\ mode[p].age \in 0 .. ModeTtl

(* The setting k is written from a copy whose last look has failed to read   *)
(* it.                                                                       *)
Unread(k) ==
    \E p \in Processes : \E save \in {job[p], flush[p]} :
        /\ save # None /\ save.left # <<>>
        /\ Head(save.left) = k /\ k \in save.unseen /\ save.snap[k] = stored'[k]

(* Every other value that is written was stored, or asked for, within the    *)
(* interval of the copies and the delay of the flush.                        *)
WritesRecent ==
    \A k \in Scalars : stored'[k] # stored[k] /\ ~Unread(k)
        => since[k][stored'[k]] <= Interval + FlushDelay

(* The mode an account is picked by was stored or asked for within the ttl   *)
(* of its cache and, after a failed read, that time, unless the copy that it *)
(* is then taken from could not read it either.                              *)
ModeIsRecent ==
    \A p \in Processes : ModeFresh(p) /\ Mode \notin mode[p].unseen
        => since[Mode][mode[p].is] <= mode[p].age + (IF ~failed THEN 0 ELSE Interval + FlushDelay)

(* A save writes back every setting, and what another process has set is     *)
(* lost when the save does not know of it: but only what is recent can be    *)
(* lost, and only what is recent comes back; and however sets and reads of   *)
(* the mode overlap, no process goes by an older one for longer.  A value    *)
(* that could not be read is the exception: the code keeps it for as long as *)
(* its reads fail.                                                           *)
SettingsRecent == [][WritesRecent /\ ModeIsRecent']_vars

(* "After seeding / setup / password change, login uses the database hash    *)
(* exclusively" (ensure_admin_password_seeded): a copy that has just been    *)
(* looked at holds the stored password.  It does not hold.                   *)
LoginUsesStored ==
    \A p \in Processes :
        mem[p] # None /\ seen[p] = 0 /\ (\A q \in Processes : job[q] = None)
        => mem[p][Password] = stored[Password]
=============================================================================
