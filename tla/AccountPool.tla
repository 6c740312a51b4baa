------------------------------ MODULE AccountPool ------------------------------
(* The durable row of one account in account_pool: rotation flags, stacked cooldown*)
(* and the handlers that change it (account_pool.py, model_health.py,        *)
(* quota.py, store/settings_pg.py).                                          *)
(*                                                                           *)
(* Every handler is a short program of reads and patches.  A patch merges a  *)
(* few fields into the row under SELECT ... FOR UPDATE and re-derives        *)
(* pool_status; a read returns the row, or the copy the worker process       *)
(* cached.  Between two of its steps any other handler may run, so a patch   *)
(* computed from an earlier read can undo what happened since.  The rewrite  *)
(* of the whole table locks no row before it writes it.                      *)
(*                                                                           *)
(* status_stack is represented by its length.  blocked_models, counters,     *)
(* reasons and the Redis mirror are left out: a patch that only writes those *)
(* is the step "touch", which still re-derives pool_status.  The row exists  *)
(* (every account is inserted with one), and PostgreSQL answers.             *)
EXTENDS Integers, Sequences, FiniteSets

CONSTANTS
    Workers,        \* worker processes
    Jobs,           \* handler executions, each run once
    WorkerOf,       \* WorkerOf[j]: the process that runs j
    Ops,            \* the handlers a job may turn out to be
    Cap,            \* max_entries of stack_status_entry (50 in the code)
    KickAt,         \* probe_fail_kick_streak
    None

Failures == {"free", "temp", "quota", "block", "credits", "model", "egress", "other"}
LiveOps  == [on : {"live"}, err : Failures]
ProbeOps == [on : {"probe"}, err : Failures]
PlainOps == [on : {"live ok", "probe ok", "enable", "disable", "clear", "kick",
                   "kick out", "billing", "prune", "startup", "purge"}, err : {"none"}]
AllOps   == LiveOps \cup ProbeOps \cup PlainOps

ASSUME PoolAssumption ==
    /\ WorkerOf \in [Jobs -> Workers]
    /\ Ops \subseteq AllOps
    /\ Cap \in Nat \ {0} /\ KickAt \in Nat \ {0}
    /\ None \notin AllOps

VARIABLES
    row,        \* the account's row in PostgreSQL
    cache,      \* cache[w]: the row in _pool_state_cache of w, or None
    op,         \* op[j]: the handler that j runs, or None
    todo,       \* todo[j]: the reads and patches it still has to do
    first,      \* first[j]: the meta it read on entry; of a save, the row it will write
    snap,       \* snap[j]: the meta its last callee read
    recovered,  \* history: jobs that saw the cooldown end since they began
    blind       \* history: jobs whose look at the row found nothing counted

job  == <<op, todo, first, snap>>
vars == <<row, cache, job, recovered, blind>>

Statuses == {"normal", "cooldown", "disabled", "quota_disabled"}

Row == [enabled : BOOLEAN,                          \* enabled
        quota   : BOOLEAN,                          \* disabled_for_quota
        source  : {"none", "probe", "other"},       \* disabled_source
        stack   : 0 .. Cap,                         \* len(status_stack)
        count   : Nat,                              \* cooldown_count
        until   : {"none", "future", "past"},       \* cooldown_until
        streak  : Nat,                              \* probe_fail_streak
        status  : Statuses]                         \* pool_status

Steps == {"readFirst", "read", "touch", "quotaOff", "quotaSnap", "free", "stack",
          "kickCount", "until", "streak", "probeFail", "probeOk", "resetStreak",
          "clear", "enable", "disable", "reenable", "prune", "lookUntil", "lookCount", "save"}

TypeOK ==
    /\ row \in Row
    /\ cache \in [Workers -> Row \cup {None}]
    /\ op \in [Jobs -> AllOps \cup {None}]
    /\ todo \in [Jobs -> Seq(Steps)]
    /\ first \in [Jobs -> Row]
    /\ snap \in [Jobs -> Row]
    /\ recovered \subseteq Jobs /\ blind \subseteq Jobs

FreshRow == [enabled |-> TRUE, quota |-> FALSE, source |-> "none", stack |-> 0,
             count |-> 0, until |-> "none", streak |-> 0, status |-> "normal"]

(* An account an older release hard-disabled for failing its probes.         *)
LegacyRow == [FreshRow EXCEPT !.enabled = FALSE, !.source = "probe", !.status = "disabled"]

Init ==
    /\ row \in {FreshRow, LegacyRow}
    /\ cache = [w \in Workers |-> None]
    /\ op = [j \in Jobs |-> None]
    /\ todo = [j \in Jobs |-> <<>>]
    /\ first = [j \in Jobs |-> FreshRow]
    /\ snap = [j \in Jobs |-> FreshRow]
    /\ recovered = {} /\ blind = {}

-----------------------------------------------------------------------------
(* Reading the row                                                           *)

(* is_in_cooldown                                                            *)
Cooling(m) ==
    m.stack > 0 \/ m.count > 0 \/ m.status = "cooldown" \/ m.until = "future"

(* _derive_pool_status                                                       *)
Derive(m) ==
    IF m.quota THEN "quota_disabled"
    ELSE IF ~m.enabled THEN "disabled"
    ELSE IF m.count > 0 \/ m.stack > 0 \/ m.until = "future" THEN "cooldown"
    ELSE "normal"

(* _eligible, on what the row says: enabled and not cooling.                 *)
InRotation(m) == m.enabled /\ ~Cooling(m)

-----------------------------------------------------------------------------
(* What the patches make of the row m                                        *)

(* stack_status_entry: one entry on top of the stack that was read.          *)
Stacked(s) == IF s.stack < Cap THEN s.stack + 1 ELSE Cap

(* Mutant: the flag of a quota-disabled account is dropped with the reason.  *)
FreeRowDropsQuota(m, s) ==
    [m EXCEPT !.stack = Stacked(s), !.count = Stacked(s), !.until = "future",
              !.enabled = TRUE, !.quota = FALSE, !.source = "none"]

(* apply_free_usage_cooldown                                                 *)
FreeRow(m, s) ==
    [m EXCEPT !.stack = Stacked(s), !.count = Stacked(s), !.until = "future",
              !.enabled = TRUE, !.source = "none"]

(* Mutant: only the time marker is written, as before counts were stacked.   *)
FailRowTimeOnly(m, s) == [m EXCEPT !.until = "future"]

(* The generic entry of report_failure and of a streak of failed probes.     *)
FailRow(m, s) ==
    [m EXCEPT !.stack = Stacked(s), !.count = Stacked(s), !.until = "future"]

(* kick_from_pool with a cooldown; stack_cooldown_count counts a cooldown    *)
(* that has no count as one.                                                 *)
KickRow(m, s) ==
    [m EXCEPT !.count = (IF s.count = 0 /\ Cooling(s) THEN 1 ELSE s.count) + 1,
              !.until = "future"]

(* record_model_probe_outcome of a failed probe, after its streak was read.  *)
ProbeFailRow(m, s) ==
    LET n == s.streak + 1 IN
    [(IF n >= KickAt THEN FailRow(m, s) ELSE m) EXCEPT !.streak = n]

(* clear_account_cooldown                                                    *)
ClearRow(m) == [m EXCEPT !.stack = 0, !.count = 0, !.until = "none", !.streak = 0]

(* record_model_probe_outcome of a good probe: clears the cooldown, enables  *)
(* an account that the probes themselves had disabled.                       *)
ProbeOkRow(m, s) ==
    IF ~s.enabled /\ ~s.quota /\ s.source = "probe"
    THEN [ClearRow(m) EXCEPT !.enabled = TRUE, !.source = "none"]
    ELSE ClearRow(m)

(* disable_for_quota; save_quota_snapshot does the same but for the source.  *)
QuotaRow(m, source) == [m EXCEPT !.enabled = FALSE, !.quota = TRUE, !.source = source]

(* set_account_enabled                                                       *)
EnableRow(m) == [m EXCEPT !.enabled = TRUE, !.quota = FALSE, !.source = "none", !.until = "none"]

(* _upsert_pool with preserve_active_cooldown: s becomes the row, but an     *)
(* active cooldown_until and a cooldown_count that s lacks are taken over    *)
(* from m.  LookCountDropped, a mutant, takes over the time only.            *)
LookUntilRow(s, m) ==
    IF s.until = "none" /\ m.until = "future" THEN [s EXCEPT !.until = "future"] ELSE s

LookCountDropped(s, m) == s
LookCountRow(s, m) == IF s.count = 0 THEN [s EXCEPT !.count = m.count] ELSE s

-----------------------------------------------------------------------------
(* The handlers as programs                                                  *)

(* handle_upstream_error_for_model                                           *)
ModelSteps(err) ==
    CASE err = "free"                -> <<"read", "touch", "free">>
      [] err = "temp"                -> <<"touch">>
      [] err \in {"block", "credits"} -> <<"read", "kickCount", "until", "quotaOff">>
      [] err = "model"               -> <<"touch", "read", "kickCount", "until">>
      [] OTHER                       -> <<>>

(* handle_upstream_error_for_quota                                           *)
QuotaSteps(err) == IF err \in {"quota", "credits"} THEN <<"quotaOff">> ELSE <<>>

(* report_failure; a free-usage error is stacked once by                     *)
(* handle_upstream_error_for_model and once by report_failure itself.  An    *)
(* error of the exit that the accounts share is not written at all.          *)
LiveFailure(err) ==
    CASE err = "egress" -> <<>>
      [] err = "free" -> <<"readFirst">> \o ModelSteps(err) \o <<"read", "touch", "free", "until">>
      [] OTHER -> <<"readFirst">> \o QuotaSteps(err) \o ModelSteps(err) \o <<"stack", "until">>

(* probe_model_for_creds: _apply_fail_status, then _save_last_probe.         *)
ProbeFailure(err) ==
    CASE err = "egress" -> <<"touch">>
      [] err = "free" -> ModelSteps(err) \o
                         <<"readFirst", "read", "touch", "free", "streak", "touch">>
      [] OTHER -> ModelSteps(err) \o <<"readFirst", "probeFail", "touch">>

Program(o) ==
    CASE o.on = "live"     -> LiveFailure(o.err)
      [] o.on = "probe"    -> ProbeFailure(o.err)
      [] o.on = "live ok"  -> <<"read", "touch", "resetStreak">>
      [] o.on = "probe ok" -> <<"read", "probeOk", "clear", "touch">>
      [] o.on = "enable"   -> <<"enable">>
      [] o.on = "disable"  -> <<"disable">>
      [] o.on = "clear"    -> <<"clear">>
      [] o.on = "kick"     -> <<"read", "kickCount", "until">>
      [] o.on = "kick out" -> <<"disable">>
      [] o.on = "billing"  -> <<"quotaOff", "quotaSnap">>
      [] o.on = "prune"    -> <<"read", "prune">>
      [] o.on = "startup"  -> <<"read", "reenable">>
      [] o.on = "purge"    -> <<"read", "lookUntil", "lookCount", "save">>

-----------------------------------------------------------------------------
(* Steps                                                                     *)

Begin(j) ==
    /\ op[j] = None
    /\ \E o \in Ops : op' = [op EXCEPT ![j] = o] /\ todo' = [todo EXCEPT ![j] = Program(o)]
    /\ recovered' = recovered \ {j}
    /\ UNCHANGED <<row, cache, first, snap, blind>>

At(j, step) == todo[j] # <<>> /\ Head(todo[j]) = step
Advance(j) == todo' = [todo EXCEPT ![j] = Tail(@)] /\ UNCHANGED op

(* get_pool_meta, get_account_pool_state: the cached copy while it is fresh. *)
ReadRow(j) == LET c == cache[WorkerOf[j]] IN IF c = None THEN row ELSE c

ReadFirst(j) ==
    /\ At(j, "readFirst") /\ Advance(j)
    /\ first' = [first EXCEPT ![j] = ReadRow(j)]
    /\ UNCHANGED <<row, cache, snap, recovered, blind>>

Read(j) ==
    /\ At(j, "read") /\ Advance(j)
    /\ snap' = [snap EXCEPT ![j] = ReadRow(j)]
    /\ UNCHANGED <<row, cache, first, recovered, blind>>

(* patch_pool_meta: m is the patched row, written with its derived status    *)
(* and put in the process's cache if it has one.                             *)
Patch(j, m) ==
    LET new == [m EXCEPT !.status = Derive(m)]
        w == WorkerOf[j]
    IN /\ row' = new
       /\ cache' = IF cache[w] = None THEN cache ELSE [cache EXCEPT ![w] = new]
       /\ UNCHANGED <<first, snap, blind>>

(* The steps that are a single patch, and the row each of them writes.       *)
Write(j, step, m) ==
    /\ At(j, step) /\ Advance(j)
    /\ Patch(j, m)

Touch(j)     == Write(j, "touch", row) /\ UNCHANGED recovered
QuotaOff(j)  == Write(j, "quotaOff", QuotaRow(row, "other")) /\ UNCHANGED recovered
QuotaSnap(j) == Write(j, "quotaSnap", QuotaRow(row, row.source)) /\ UNCHANGED recovered
Free(j)      == Write(j, "free", FreeRow(row, snap[j])) /\ UNCHANGED recovered
Stack(j)     == Write(j, "stack", FailRow(row, first[j])) /\ UNCHANGED recovered
KickCount(j) == Write(j, "kickCount", KickRow(row, snap[j])) /\ UNCHANGED recovered
SetUntil(j)  == Write(j, "until", [row EXCEPT !.until = "future"]) /\ UNCHANGED recovered
Streak(j)    == Write(j, "streak", [row EXCEPT !.streak = first[j].streak + 1]) /\ UNCHANGED recovered
ProbeFail(j) == Write(j, "probeFail", ProbeFailRow(row, first[j])) /\ UNCHANGED recovered
Enable(j)    == Write(j, "enable", EnableRow(row)) /\ UNCHANGED recovered
Disable(j)   == Write(j, "disable", [row EXCEPT !.enabled = FALSE]) /\ UNCHANGED recovered

(* The two recoveries; every job that is under way has now seen one.         *)
ProbeOk(j) == Write(j, "probeOk", ProbeOkRow(row, snap[j])) /\ recovered' = Jobs
Clear(j)   == Write(j, "clear", ClearRow(row)) /\ recovered' = Jobs

(* The steps that patch only when the meta they read calls for it.           *)
When(j, step, cond, m) ==
    /\ At(j, step) /\ Advance(j)
    /\ IF cond THEN Patch(j, m) ELSE UNCHANGED <<row, cache, first, snap, blind>>
    /\ UNCHANGED recovered

(* report_success forgets failed probes unless the account is cooling; the   *)
(* Redis mirror may make it look so when the row does not.                   *)
ResetStreak(j) ==
    \/ When(j, "resetStreak", ~Cooling(snap[j]), [row EXCEPT !.streak = 0])
    \/ When(j, "resetStreak", FALSE, row)

(* prune_expired_cooldowns                                                   *)
Prune(j) == When(j, "prune", snap[j].until = "past", [row EXCEPT !.until = "none"])

(* reenable_probe_kick_accounts                                              *)
Reenable(j) ==
    When(j, "reenable", ~snap[j].enabled /\ ~snap[j].quota /\ snap[j].source = "probe",
         [row EXCEPT !.enabled = TRUE, !.source = "none"])

(* Deleting another account rewrites the whole table from the state that was *)
(* read: save_account_pool_state looks at what is to survive of the row, in  *)
(* two SELECTs without a lock, and then writes all of it.  Who reports a     *)
(* failure between the look at the count and the write loses it.             *)
LookUntil(j) ==
    /\ At(j, "lookUntil") /\ Advance(j)
    /\ first' = [first EXCEPT ![j] = LookUntilRow(snap[j], row)]
    /\ UNCHANGED <<row, cache, snap, recovered, blind>>

LookCount(j) ==
    /\ At(j, "lookCount") /\ Advance(j)
    /\ first' = [first EXCEPT ![j] = LookCountRow(first[j], row)]
    /\ blind' = IF row.count = 0 THEN blind \cup {j} ELSE blind \ {j}
    /\ UNCHANGED <<row, cache, snap, recovered>>

(* The statement itself keeps an active time once more; the state that was   *)
(* read becomes the process's cache.                                         *)
Save(j) ==
    /\ At(j, "save") /\ Advance(j)
    /\ row' = [LookUntilRow(first[j], row) EXCEPT !.status = Derive(first[j])]
    /\ cache' = [cache EXCEPT ![WorkerOf[j]] = snap[j]]
    /\ recovered' = IF j \in blind THEN Jobs ELSE recovered
    /\ UNCHANGED <<first, snap, blind>>

(* get_account_pool_state of some other caller fills the cache; it lapses    *)
(* after _POOL_STATE_CACHE_TTL.                                              *)
FillCache(w) ==
    /\ cache[w] = None
    /\ cache' = [cache EXCEPT ![w] = row]
    /\ UNCHANGED <<row, job, recovered, blind>>

LapseCache(w) ==
    /\ cache[w] # None
    /\ cache' = [cache EXCEPT ![w] = None]
    /\ UNCHANGED <<row, job, recovered, blind>>

(* Time passes every cooldown_until written so far.                          *)
Aged(m) == IF m.until = "future" THEN [m EXCEPT !.until = "past"] ELSE m

Expire ==
    /\ row.until = "future"
    /\ row' = Aged(row)
    /\ cache' = [w \in Workers |-> IF cache[w] = None THEN None ELSE Aged(cache[w])]
    /\ first' = [j \in Jobs |-> Aged(first[j])]
    /\ snap' = [j \in Jobs |-> Aged(snap[j])]
    /\ UNCHANGED <<op, todo, recovered, blind>>

JobStep(j) ==
    \/ ReadFirst(j) \/ Read(j) \/ Touch(j) \/ QuotaOff(j) \/ QuotaSnap(j) \/ Free(j)
    \/ Stack(j) \/ KickCount(j) \/ SetUntil(j) \/ Streak(j) \/ ProbeFail(j) \/ ProbeOk(j)
    \/ ResetStreak(j) \/ Clear(j) \/ Enable(j) \/ Disable(j) \/ Reenable(j) \/ Prune(j)
    \/ LookUntil(j) \/ LookCount(j) \/ Save(j)

Next ==
    \/ \E j \in Jobs : Begin(j) \/ JobStep(j)
    \/ \E w \in Workers : FillCache(w) \/ LapseCache(w)
    \/ Expire

Spec == Init /\ [][Next]_vars

-----------------------------------------------------------------------------
(* Properties                                                                *)

(* A stacked cooldown is a counted one.  _upsert_pool and the file backend's *)
(* _derive_pool_status look at cooldown_count alone, so a stack without a    *)
(* count would be a cooldown that they lose.  (The count may be the smaller  *)
(* of the two: a kick that read an old row takes it back.)                   *)
StackIsCounted == row.stack > 0 => row.count > 0

(* The strengthening that makes it inductive: every copy of the row that a   *)
(* patch may still be computed from is counted too.                          *)
Counted(m) == m.stack > 0 => m.count > 0

CountedInv ==
    /\ Counted(row)
    /\ \A w \in Workers : cache[w] # None => Counted(cache[w])
    /\ \A j \in Jobs : Counted(first[j]) /\ Counted(snap[j])

Recovers(j) == At(j, "probeOk") \/ At(j, "clear")

(* A rewrite of the table that knows of no cooldown.                         *)
Forgets(j) == At(j, "save") /\ j \in blind

(* A counted cooldown ends with a good probe, with a manual clear, or under  *)
(* a rewrite of the whole table that looked at the row while nothing was     *)
(* counted, and with nothing else: no concurrent failure, live success,      *)
(* quota change, enable, prune or later rewrite loses it.                    *)
CountKept ==
    [][row.count > 0 /\ row'.count = 0
          => \E j \in Jobs : (Recovers(j) \/ Forgets(j)) /\ todo'[j] # todo[j]]_vars

(* The handlers whose account must be out of rotation when they return.      *)
Cools(o) ==
    \/ o.on = "live" /\ o.err # "egress"
    \/ o.on = "probe" /\ o.err \in {"free", "block", "credits", "model"}
    \/ o.on = "kick"

Finished(j) == op[j] # None /\ todo[j] = <<>>

(* "Any upstream error during rotation stacks a durable cooldown status so   *)
(* subsequent acquire() skip this account": once a failure that is not of    *)
(* the shared exit has been reported, the account is cooling, unless since   *)
(* the report began there was a recovery, or a rewrite of the table by a     *)
(* process that had looked at the row before anything was counted.           *)
FailureCools ==
    \A j \in Jobs : Finished(j) /\ Cools(op[j]) /\ j \notin recovered => row.count > 0

(* Its strengthening, with CountKept's: a save that is not blind writes a    *)
(* count, since it comes right after its look.                               *)
SeesInv ==
    \A j \in Jobs :
        /\ \A i \in 2 .. Len(todo[j]) : todo[j][i] = "save" => todo[j][i - 1] = "lookCount"
        /\ At(j, "save") /\ j \notin blind => first[j].count > 0

(* And the account is cooling, or the report still has to                    *)
(* count it.                                                                 *)
Counting == {"free", "stack", "kickCount"}
WillCount(t) == \E i \in 1 .. Len(t) : t[i] \in Counting

CoolsInv ==
    \A j \in Jobs :
        op[j] # None /\ Cools(op[j]) /\ j \notin recovered
           => row.count > 0 \/ WillCount(todo[j])

(* The flag set by disable_for_quota is taken back by an administrator, or   *)
(* lost with the rest of the row when deleting another account rewrites the  *)
(* whole table from a state read before; by nothing else.                    *)
QuotaNeedsAdmin ==
    [][row.quota /\ ~row'.quota =>
          \E j \in Jobs : (At(j, "enable") \/ At(j, "save")) /\ todo'[j] # todo[j]]_vars

(* disable_for_quota: "Disable account permanently from rotation due to      *)
(* quota exhaustion": with no handler under way, an account that is flagged  *)
(* is not in rotation.                                                       *)
QuotaStaysOut == row.quota /\ (\A j \in Jobs : todo[j] = <<>>) => ~InRotation(row)
=============================================================================
