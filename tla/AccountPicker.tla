---------------------------- MODULE AccountPicker ----------------------------
(* How a request gets its chain of accounts (account_pool.py): the rotated   *)
(* window of the live accounts, the filters that weaken until some account   *)
(* is left, the ranking, and the pinned account of the conversation.  The    *)
(* status it judges by comes from the copy of the account_pool table that    *)
(* each process keeps (store/settings_pg.py), up to StaleMax old.            *)
EXTENDS Integers, Sequences, FiniteSets, SequencesExt

CONSTANTS
    Listed,         \* the usable accounts in the order of list_live_credentials
    Spent,          \* those whose token has expired and can be refreshed
    Processes,      \* the worker processes
    Elsewhere,      \* any other writer of the table
    None,
    Modes,          \* what account_mode may be set to
    Pinned,         \* the accounts that conversations may be pinned to
    FastLists,      \* what fast_account_ids may answer
    Window,         \* max(24, 12 * MAX_FAILOVER_ATTEMPTS)
    Sample,         \* the window of least_used, 64
    Feedback,       \* the samples without which latency does not count, 8
    Limit, Longer,  \* max_failover_attempts, and its floor when few are ready
    FreshFor,       \* _POOL_STATE_CACHE_TTL
    StaleMax,       \* _POOL_STATE_CACHE_STALE_MAX_SEC
    Initial,        \* the statuses that a behaviour starts from
    Written,        \* the statuses that its writers write
    MaxWrites, MaxSaves, MaxPicks   \* bounds of a run

Accounts == ToSet(Listed)

(* What the filters tell apart of a row; "none" is no row, which reads as    *)
(* enabled.  "failing": two failures in a row or more.  "soft" and "hard":   *)
(* the model is blocked, until a time or for good.                           *)
Status == {"none", "normal", "failing", "cooling", "soft", "hard", "off", "quota"}

Table == [Accounts -> Status]

PickerAssumption ==
    /\ Listed \in Seq(Accounts) /\ Listed # <<>> /\ IsInjective(Listed)
    /\ Spent \cup Pinned \subseteq Accounts /\ FastLists \subseteq Seq(Accounts)
    /\ None \notin Seq(Accounts) /\ None \notin Table
    /\ Modes \subseteq {"round_robin", "random", "least_used"} /\ Elsewhere \notin Processes
    /\ {Window, Sample, Feedback, Limit, Longer, FreshFor, StaleMax} \subseteq Nat \ {0}
    /\ FreshFor <= StaleMax /\ Window <= Sample /\ {MaxWrites, MaxSaves, MaxPicks} \subseteq Nat
    /\ Initial \cup Written \subseteq Status

VARIABLES
    row,        \* the account_pool table
    cache,      \* _pool_state_cache of each process, None before the first load
    age,        \* ticks since it was loaded, StaleMax or more being the same
    loading,    \* the table as a load has read it, None when no load runs
    saving,     \* the state that a whole-state save of a process has read
    patches,    \* writes that have committed and not reached the cache
    overtaken,  \* the processes that have put an older, amended table in the place
                \* of the one just loaded
    cursor,     \* the Redis key rr:index
    local,      \* _rr_index of each process
    chain,      \* the chain the last pick of each process has returned, None when
                \* it has raised an AuthError
    window,     \* the accounts it was chosen from
    since,      \* ticks since an account got its status
    writes, saves, picks

table == <<row, since, writes, saves>>
copies == <<cache, age, loading, saving, patches, overtaken>>
choice == <<cursor, local, chain, window, picks>>
vars == <<table, copies, choice>>

(* How long a status may go unseen: as long as a copy is used, and once more *)
(* the time a copy is fresh for each save of the whole state that stamps it  *)
(* anew.                                                                     *)
Bound == StaleMax + MaxSaves * FreshFor

Init ==
    /\ row \in [Accounts -> Initial]
    /\ cache = [p \in Processes |-> None]
    /\ age = [p \in Processes |-> StaleMax]
    /\ loading = [p \in Processes |-> None]
    /\ saving = [p \in Processes |-> None]
    /\ patches = {}
    /\ overtaken = {}
    /\ cursor = 0
    /\ local = [p \in Processes |-> 0]
    /\ chain = [p \in Processes |-> None]
    /\ window = [p \in Processes |-> {}]
    /\ since = [a \in Accounts |-> Bound + 1]
    /\ writes = 0 /\ saves = 0
    /\ picks = [p \in Processes |-> 0]

-----------------------------------------------------------------------------
(* The copy of the table.                                                    *)
Fresh(p) == cache[p] # None /\ age[p] < FreshFor

(* Mutant: an old copy is used however old it is.                            *)
WarmForEver(p) == cache[p] # None

(* get_cached_account_pool_state(allow_stale=True)                           *)
Warm(p) == cache[p] # None /\ age[p] < StaleMax

Write(new) ==
    /\ row' = new
    /\ since' = [a \in Accounts |-> IF new[a] = row[a] THEN since[a] ELSE 0]

(* The copy is stamped anew: a write that has amended the one before will    *)
(* put that in its place, and keep the stamp.                                *)
Overtake(p) ==
    overtaken' = IF \E m \in patches : m.by = p /\ m.copy # None
                 THEN overtaken \cup {p} ELSE overtaken

(* get_account_pool_state when the copy is not fresh: the SELECT, and after  *)
(* it the copy.                                                              *)
Select(p) ==
    /\ ~Fresh(p) /\ loading[p] = None
    /\ loading' = [loading EXCEPT ![p] = row]
    /\ UNCHANGED <<table, choice, cache, age, saving, patches, overtaken>>

Publish(p) ==
    /\ loading[p] # None
    /\ cache' = [cache EXCEPT ![p] = loading[p]]
    /\ age' = [age EXCEPT ![p] = 0]
    /\ loading' = [loading EXCEPT ![p] = None]
    /\ Overtake(p)
    /\ UNCHANGED <<table, choice, saving, patches>>

(* patch_pool_meta: the row under its lock, and after the commit the copy of *)
(* the process, which is replaced by an amended one.                         *)
Patch(p, a, st) ==
    /\ writes < MaxWrites
    /\ writes' = writes + 1
    /\ Write([row EXCEPT ![a] = st])
    /\ patches' = IF p = Elsewhere THEN patches
                  ELSE patches \cup {[by |-> p, of |-> a, to |-> st, copy |-> None]}
    /\ UNCHANGED <<saves, choice, cache, age, loading, saving, overtaken>>

CopyState(m) ==
    /\ m.copy = None
    /\ patches' = IF cache[m.by] = None THEN patches \ {m}
                  ELSE (patches \ {m}) \cup {[m EXCEPT !.copy = cache[m.by]]}
    /\ UNCHANGED <<table, choice, cache, age, loading, saving, overtaken>>

UpdateState(m) ==
    /\ m.copy # None
    /\ cache' = [cache EXCEPT ![m.by] = [m.copy EXCEPT ![m.of] = m.to]]
    /\ patches' = patches \ {m}
    /\ UNCHANGED <<table, choice, age, loading, saving, overtaken>>

(* _cleanup_account_side_state of another account, deleted: the whole state  *)
(* is read, and written back without it.                                     *)
ReadState(p) ==
    /\ Fresh(p) /\ saving[p] = None /\ saves < MaxSaves
    /\ saving' = [saving EXCEPT ![p] = cache[p]]
    /\ saves' = saves + 1
    /\ UNCHANGED <<row, since, writes, choice, cache, age, loading, patches, overtaken>>

(* save_account_pool_state: an active cooldown of a row is kept, a row the   *)
(* state does not have is deleted, and the state becomes the copy.           *)
SaveState(p) ==
    /\ saving[p] # None
    /\ Write([a \in Accounts |->
                IF row[a] = "cooling" /\ saving[p][a] \notin {"none", "off", "quota"}
                THEN "cooling" ELSE saving[p][a]])
    /\ cache' = [cache EXCEPT ![p] = saving[p]]
    /\ age' = [age EXCEPT ![p] = 0]
    /\ saving' = [saving EXCEPT ![p] = None]
    /\ Overtake(p)
    /\ UNCHANGED <<writes, saves, choice, loading, patches>>

(* Time passes while no load, save or write is under way: they are short.    *)
Tick ==
    /\ patches = {}
    /\ \A p \in Processes : loading[p] = None /\ saving[p] = None
    /\ age' = [p \in Processes |-> IF age[p] < StaleMax THEN age[p] + 1 ELSE StaleMax]
    /\ since' = [a \in Accounts |-> IF since[a] <= Bound THEN since[a] + 1 ELSE Bound + 1]
    /\ <<age, since>>' # <<age, since>>
    /\ UNCHANGED <<row, writes, saves, choice, cache, loading, saving, patches, overtaken>>

-----------------------------------------------------------------------------
(* The accounts to choose from.                                              *)
Enabled(s) == {a \in Accounts : s[a] \notin {"off", "quota"}}
Blocked(s) == {a \in Accounts : s[a] \in {"soft", "hard"}}
Cooling(s) == {a \in Accounts : s[a] = "cooling"}
Eligible(s) == Enabled(s) \ (Cooling(s) \cup Blocked(s))

Rotated(q, n) == LET k == n % Len(q) IN SubSeq(q, k + 1, Len(q)) \o SubSeq(q, 1, k)
Take(q, n) == SubSeq(q, 1, IF n < Len(q) THEN n ELSE Len(q))
Orders(S) == SetToSeqs(S)

(* The elements of q that are in S, in their order.                          *)
Only(q, S) ==
    LET kept[i \in 0 .. Len(q)] ==
            IF i = 0 THEN <<>>
            ELSE IF q[i] \in S THEN Append(kept[i - 1], q[i]) ELSE kept[i - 1]
    IN kept[Len(q)]

(* The tokens that have not expired come first, and before them the pinned   *)
(* account.                                                                  *)
PoolOrder(pin) ==
    LET order == Only(Listed, Accounts \ Spent) \o Only(Listed, Spent)
    IN Only(order, {pin}) \o Only(order, Accounts \ {pin})

(* What is put first of the window so that the pin can be kept.              *)
PinFirst(win, pin) ==
    IF pin = None THEN win ELSE Take(<<pin>> \o Only(win, Accounts \ {pin}), Window)

(* The fast accounts, rotated, and after them the others.                    *)
FastWindow(fast, n) ==
    LET rest == Only(PoolOrder(None), Accounts \ ToSet(fast))
    IN Take(Rotated(fast, n) \o (IF rest = <<>> THEN <<>> ELSE Rotated(rest, n)), Window)

Windows(mode, fast, pin, n) ==
    LET order == PoolOrder(pin)
    IN IF fast # <<>> THEN {FastWindow(fast, n)}
       ELSE IF Len(order) <= Window \/ mode = "least_used" THEN {Take(order, Sample)}
       ELSE IF mode = "random" THEN {Take(q, Window) : q \in Orders(Accounts)}
       ELSE {Take(Rotated(order, n), Window)}

(* The first of the sets that has an account of the window.                  *)
FirstOf(rungs, win) ==
    LET i == CHOOSE i \in DOMAIN rungs :
                 /\ rungs[i] \cap ToSet(win) # {}
                 /\ \A k \in 1 .. i - 1 : rungs[k] \cap ToSet(win) = {}
    IN Only(win, rungs[i])

Rungs(s) ==
    <<Enabled(s) \ Blocked(s), Enabled(s) \ {a \in Accounts : s[a] = "hard"}, Enabled(s),
      {a \in Accounts : s[a] # "quota"}, Accounts>>

Ordered(mode, q, S) == IF mode = "round_robin" THEN {Only(q, S)} ELSE Orders(S)

(* Ready before failing before cooling; round robin keeps the order of the   *)
(* window among those that do not cool, the other modes and the cooldown     *)
(* times know an order of their own.                                         *)
Rankings(mode, cands, s) ==
    LET cool == ToSet(cands) \cap Cooling(s)
        sick == {a \in ToSet(cands) : s[a] = "failing"}
        well == ToSet(cands) \ (cool \cup sick)
    IN {u \o v \o w : u \in Ordered(mode, cands, well), v \in Ordered(mode, cands, sick),
                      w \in Orders(cool)}

(* The pinned account goes first, or last when it is not well.               *)
PinPlaced(q, pin, s) ==
    IF pin \notin ToSet(q) THEN q
    ELSE IF pin \in Cooling(s) \cup Blocked(s) \cup Spent \/ s[pin] = "failing"
         THEN Only(q, Accounts \ {pin}) \o <<pin>>
         ELSE <<pin>> \o Only(q, Accounts \ {pin})

Attempts(q, s) ==
    IF Cardinality(ToSet(q) \ (Cooling(s) \cup Blocked(s))) < 2 /\ Limit < Longer
    THEN Longer ELSE Limit

-----------------------------------------------------------------------------
(* What a pick judges by: the copy, however it differs from the table, or    *)
(* the rows of the window.                                                   *)
Judged(p) == IF Warm(p) THEN cache[p] ELSE row

(* The chain is returned as it is or, when the refresh of its first account  *)
(* has shown that it has no valid refresh token, without it.                 *)
Returned(p, q, win) ==
    /\ \/ chain' = [chain EXCEPT ![p] = q]
       \/ /\ q # <<>> /\ Head(q) \in Spent
          /\ chain' = [chain EXCEPT ![p] = Tail(q)]
    /\ window' = [window EXCEPT ![p] = ToSet(win)]
    /\ picks' = [picks EXCEPT ![p] = picks[p] + 1]

(* The sticky fast path: a pinned account that is well, and backups from the *)
(* cached list of live accounts.                                             *)
StickyReady(p, pin) ==
    LET meta == IF Fresh(p) THEN cache[p][pin] ELSE row[pin]
    IN pin \notin Spent /\ meta \in {"none", "normal"}

Backups(p, pin, live, n) ==
    LET able == IF Warm(p) THEN Eligible(cache[p]) ELSE Accounts
    IN IF live = <<>> THEN <<>>
       ELSE Take(Only(Rotated(live, n), able \ (Spent \cup {pin})), Limit - 1)

PickSticky(p, pin, live, redis) ==
    LET asks == redis /\ live # <<>> /\ Limit > 1
        q == <<pin>> \o Backups(p, pin, live, IF redis THEN cursor + 1 ELSE 0)
    IN /\ picks[p] < MaxPicks
       /\ StickyReady(p, pin)
       /\ Len(q) >= Limit
       /\ cursor' = IF asks THEN cursor + 1 ELSE cursor
       /\ chain' = [chain EXCEPT ![p] = q]
       /\ window' = [window EXCEPT ![p] = ToSet(q)]
       /\ picks' = [picks EXCEPT ![p] = picks[p] + 1]
       /\ UNCHANGED <<table, copies, local>>

(* try_acquire_sequence without the fast path.  The cursor is asked for the  *)
(* fast accounts, and if it was not, for the rotation; without Redis the     *)
(* rotation has an index of its own.                                         *)
PickWindow(p, pin, live, redis, mode) ==
    LET tried == pin # None /\ StickyReady(p, pin)
        seen == IF tried /\ redis /\ live # <<>> /\ Limit > 1 THEN cursor + 1 ELSE cursor
        turns == mode = "round_robin" /\ Cardinality(Accounts) > Window
        asks == redis /\ ((mode = "round_robin" /\ pin = None) \/ turns)
        n == IF asks THEN seen + 1 ELSE local[p]
    IN /\ picks[p] < MaxPicks
       /\ tried => Len(Backups(p, pin, live, seen)) < Limit - 1
       /\ cursor' = IF asks THEN n ELSE seen
       /\ local' = IF turns /\ ~redis
                   THEN [local EXCEPT ![p] = (local[p] + 1) % Cardinality(Accounts)] ELSE local
       /\ \E fast \in FastLists :
             /\ fast # <<>> =>
                   /\ asks /\ pin = None /\ n % 5 # 0
                   /\ Len(fast) >= Feedback \/ Len(fast) = Cardinality(Accounts)
             /\ \E w \in Windows(mode, fast, pin, n) :
                  LET s == Judged(p)
                      win == PinFirst(w, pin)
                  IN \E q \in Rankings(mode, FirstOf(Rungs(s), win), s) :
                        LET ordered == PinPlaced(q, pin, s)
                        IN Returned(p, Take(ordered, Attempts(ordered, s)), win)
       /\ UNCHANGED <<table, copies>>

(* Mutant: an account that cools is never the last resort.                   *)
LadderStrict(s) == <<Eligible(s), Enabled(s) \ (Cooling(s) \cup {a \in Accounts : s[a] = "hard"})>>

(* acquire, for one account: other sets, and among those that are not        *)
(* eligible the ones that are not blocked first.                             *)
Ladder(s) ==
    <<Eligible(s), Enabled(s) \ Blocked(s), Enabled(s) \ {a \in Accounts : s[a] = "hard"},
      Enabled(s), {a \in Accounts : s[a] # "quota"}>>

Recovered(mode, q, s) ==
    LET open == ToSet(q) \ Blocked(s)
    IN IF open = {} \/ (mode # "round_robin" /\ Len(q) > 3) THEN ToSet(q) ELSE open

Acquire(p, redis, mode) ==
    LET s == IF Fresh(p) THEN cache[p] ELSE row
        some == \E i \in DOMAIN Ladder(s) : Ladder(s)[i] # {}
        turns == mode = "round_robin" /\ Eligible(s) # {}
        n == IF redis THEN cursor + 1 ELSE local[p]
    IN /\ picks[p] < MaxPicks
       /\ ~Fresh(p) => loading[p] = None
       /\ cache' = [cache EXCEPT ![p] = s]
       /\ age' = IF Fresh(p) THEN age ELSE [age EXCEPT ![p] = 0]
       /\ IF Fresh(p) THEN UNCHANGED overtaken ELSE Overtake(p)
       /\ cursor' = IF turns /\ redis THEN n ELSE cursor
       /\ local' = IF turns /\ ~redis
                   THEN [local EXCEPT ![p] = (n + 1) % Cardinality(Eligible(s))] ELSE local
       /\ IF ~some
          THEN chain' = [chain EXCEPT ![p] = None]
          ELSE LET q == FirstOf(Ladder(s), Listed)
               IN \E a \in IF turns THEN {q[(n % Len(q)) + 1]}
                           ELSE IF Eligible(s) # {} THEN ToSet(q) ELSE Recovered(mode, q, s) :
                     chain' = [chain EXCEPT ![p] = <<a>>]
       /\ window' = [window EXCEPT ![p] = Accounts]
       /\ picks' = [picks EXCEPT ![p] = picks[p] + 1]
       /\ UNCHANGED <<table, loading, saving, patches>>

-----------------------------------------------------------------------------
(* The cached list is looked at for a pinned account only.                   *)
Pick(p) ==
    \E redis \in BOOLEAN :
        \/ \E pin \in Pinned, live \in {<<>>, Listed} : PickSticky(p, pin, live, redis)
        \/ \E pin \in Pinned \cup {None}, live \in {<<>>, Listed}, mode \in Modes :
              (pin = None => live = <<>>) /\ PickWindow(p, pin, live, redis, mode)
        \/ \E mode \in Modes : Acquire(p, redis, mode)

Step ==
    \/ \E p \in Processes :
          Select(p) \/ Publish(p) \/ ReadState(p) \/ SaveState(p) \/ Pick(p)
    \/ \E p \in Processes \cup {Elsewhere}, a \in Accounts, st \in Written : Patch(p, a, st)
    \/ \E m \in patches : CopyState(m) \/ UpdateState(m)
    \/ Tick

(* A behaviour ends with its last pick.                                      *)
Next == (\E p \in Processes : picks[p] < MaxPicks) /\ Step

Spec == Init /\ [][Next]_vars

-----------------------------------------------------------------------------
(* The types of the table, the copies and the choices.                       *)
TypeOK ==
    /\ row \in Table /\ since \in [Accounts -> 0 .. Bound + 1]
    /\ writes \in 0 .. MaxWrites /\ saves \in 0 .. MaxSaves
    /\ cache \in [Processes -> Table \cup {None}] /\ age \in [Processes -> 0 .. StaleMax]
    /\ loading \in [Processes -> Table \cup {None}]
    /\ saving \in [Processes -> Table \cup {None}]
    /\ patches \subseteq [by : Processes, of : Accounts, to : Status, copy : Table \cup {None}]
    /\ overtaken \subseteq Processes
    /\ cursor \in Nat /\ local \in [Processes -> Nat]
    /\ chain \in [Processes -> Seq(Accounts) \cup {None}]
    /\ window \in [Processes -> SUBSET Accounts]
    /\ picks \in [Processes -> 0 .. MaxPicks]

Out == {"cooling", "off", "quota", "soft", "hard"}

(* No request starts with an account that has been out of rotation for       *)
(* longer than a copy may be stale while the accounts it was chosen from     *)
(* held one that has been well for as long: whatever loads, patches of other *)
(* threads and saves of the whole state overlap, a copy is never further     *)
(* behind the table, unless an older table has overtaken a newer one in it.  *)
LeavesRotation ==
    [][\A p \in Processes \ overtaken :
          picks'[p] # picks[p] /\ chain'[p] \notin {None, <<>>}
          => LET a == Head(chain'[p])
             IN row[a] \in Out /\ since[a] > Bound
                => ~\E b \in window'[p] \ Spent : row[b] = "normal" /\ since[b] > Bound]_vars

(* A request is refused for want of an account only when no account with a   *)
(* token has quota left, or had any until a moment ago, under the same       *)
(* condition: "never hard-fail while any enabled live account still exists"  *)
(* (comment of acquire).                                                     *)
NeverRefused ==
    [][\A p \in Processes \ overtaken : picks'[p] # picks[p] /\ chain'[p] = None
          => \A a \in Accounts : row[a] = "quota" \/ since[a] <= Bound]_vars
=============================================================================
