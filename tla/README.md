# A verification model of grok2api

The repository is an OpenAI- and Anthropic-compatible API in front of a pool of
upstream accounts. Several worker processes serve requests; they share Redis
and PostgreSQL and no memory. Each request is routed to one account of the
pool and fails over to others; background threads refresh credentials, probe
accounts and register new ones. What is hard in this program is not any single
function but the interleaving of requests, probes, operators and maintenance
threads over shared rows and expiring keys, with processes that die and Redis
calls that raise. This directory holds TLA+ modules of that part of the system,
TLC configurations that check them on small instances, and TLAPS proofs for
every value of their constants.

`PROJECT.json` lists components, runs, mutants (at least one plausible bug per property,
which the property catches), the source lines each definition stands for, the
disagreements between code and documentation that a run exhibits, the hazards,
and the theorems. All paths below are relative to `src/`.

## 1. Inventory

| component | state | operations | what is hard |
|---|---|---|---|
| account leases (`store/account_leases.py`, `store/redis_client.py`) | Redis keys `account_inflight:<id>` with a ttl; `_active` map of a process | `reserve_chain`, renew thread, `release` | renewal against expiry, release against a renewal under way, Redis errors, crash with leases held |
| account pool (`account_pool.py`, `store/settings_pg.py`, `store/pool_redis.py`, `settings_store.py`) | one row per account: enabled, quota flag, status stack, cooldown count and time, probe streak, derived status; a cache per process; a Redis mirror | failure and success reports, kicks, model blocks, quota disable, operator switches, probe outcomes, pruning, purge | handlers are several commits computed from earlier, perhaps cached, reads |
| conversation affinity (`conversation_affinity.py`, `store/affinity_redis.py`) | Redis key per conversation; file map per process | get with touch, bind, rebind on failover | GET-then-SET refresh, overlapping turns, detached updates |
| request path (`app.py`) | locals of each request | resolve, pick, reserve, attempt, stream, report, rebind, release; four handlers of the same loop | failover against output already sent, client disconnect and cancellation, detached success reports |
| leader election (`store/leader.py`, startup in `app.py`, switch in `settings_store.py`) | Redis key; `_is_leader`, `_maintainers_started` of a process | startup election, watch loop, role switch, admin switch | crash with the key held, late renewal, Redis errors, two threads of a process at once |
| maintainer threads (`token_maintainer.py`; the same shape in `model_health.py`, `registration_maintainer.py`) | two events, a force flag, a thread reference | start, stop with a two-second join, wake, cycle | lost wake-ups, a stop that gives up waiting |
| maintenance slot (`maintenance_gate.py`, `store/locks_redis.py`) | Redis key with a ttl and a renew thread; a local lock | enter, leave, fall back | errors before, in and after the body, lapse of the key |
| model health sweep, quota polling (`model_health.py`, `quota.py`) | last probe results, sweep state | probe, sweep, poll | probes racing requests on the row |
| accounts and credentials (`accounts.py`, `auth.py`, `auth_store.py`, `store/accounts_pg.py`, `oidc_auth.py`) | credential rows, live-credential cache | refresh, rotate, import, device login | two refreshes of one rotating token, stale cache |
| API guard (`api_guard.py`) | a window of request timings per process, published in Redis with a time to live | record, publish, average | nothing is decided here: the registration worker reads the average |
| usage (`usage_stats.py`, `store/usage_*.py`) | day and lifetime hashes in Redis, a row per day in PostgreSQL, a cached snapshot per process | record, summarise, snapshot | two stores that fail apart, pipelines cut half way, midnight |
| settings store (`settings_store.py`, `store/settings_pg.py`) | settings rows, a whole copy per process, a deferred flush, a cache of the account mode | look, set, touch, flush | a save writes every setting of a copy that may be old |
| registration loop (`registration_controller.py`, `registration_worker.py`, `registration_maintainer.py`) | state saved in Redis; concurrency allowed | sample, start a batch, follow it, rest | killed between two saves, a batch whose runner is gone |
| registration sessions (`grok_build_adapter.py`) | three copies of a batch and of each session: two process maps and Redis | start, run, stop, poll | stops on an old copy, verdicts from an old view |
| browser pool (`turnstile-solver/api_solver.py`) | queue of browsers, count in flight, pool lock | acquire, finalise, rebuild, reclaim | decisions taken before the lock is awaited, browsers that die |
| admin routes and sessions (`admin_routes.py`, `store/sessions_redis.py`) | records of background jobs in memory and in Redis | start, patch, poll, download | jobs of a process that died, mirrors that failed |
| API keys (`apikeys.py`, `store/keys_pg.py`) | table, file, a cache per process | create, rotate, disable, delete, verify | revocation against a cached lookup; edits that replace the whole table |
| stream conversion (`anthropic_compat.py`, `openai_responses.py`, the frame code of `app.py`) | an assembler per stream | ingest, flush, relay | tool calls in pieces, text held back, limits, order and pairing of events |
| history compaction (`history_compact.py`) | none | pure function on a message list | tool calls must keep their results |
| task and audit logs, storage bootstrap, models table, configuration, mail and OAuth clients, login tools, SSO import, admin UI, deployment | — | — | input and output, tables, or an external protocol |

How they interact: a request resolves its conversation's pin (affinity), asks
the pool for an ordered chain, leases the first free account of it, calls the
upstream with that account's credentials, reports success or failure to the
pool, moves the pin and releases the lease. The elected leader runs the
maintainer threads; their cycles take the maintenance slot and write the same
pool rows. Operators change rows, keys and settings from any process, and every
process sees them through copies of its own. The registration loop starts
batches, whose sessions solve their challenges through the browser pool and
import the accounts they make into the same tables.

What makes each of the modelled components correct:

* leases — no two requests have one account reserved; a lease lasts as long as
  its request and not much longer; nobody deletes another's lease;
* pool — a failure that has been reported leaves the account cooling; a good
  probe or an operator ends that, and nothing else but a rewrite of the whole
  table that has not seen it; a quota disable holds;
* affinity and request path — one answer comes from one account; every attempt
  is judged; the pin names an account that answered; every lease comes back;
* election, threads, slot — one leader, which alone runs maintainers; somebody
  leads again after a crash; a stop stops; one cycle at a time; nothing is held
  for ever;
* credentials — a refresh token is presented once; what is written at the end of
  a refresh is still accepted; a fresh list holds its process's own writes;
* picker — nothing long out of rotation is picked while something healthy is
  there; no request is refused while an account is left;
* keys and settings — a revoked key is refused everywhere once the caches have
  run out; an edit changes its own key; an old setting does not come back for
  longer than the copies may be stale;
* streams — every protocol's events follow its grammar, and no complete tool
  call and no text answer is lost on the way;
* sweeps — no account is left out for ever, however many fail; none is probed
  twice in a sweep;
* registration — a stop holds; a verdict matches the pool; a rest passes between
  batches, whatever is killed;
* browser pool — a browser in use is not closed; a degraded pool is repaired;
  every task ends;
* admin jobs and usage — every client that polls is answered; no request is
  counted twice, and none is missing while one store works.

## 2. Modules

| module | models | checked by | proofs |
|---|---|---|---|
| `AccountExclusion` | what leases promise (abstract) | through `AccountLeases` | |
| `AccountLeases` | leases, renew threads, releases, clock | `request`, `leases_liveness` | `Request_proofs` |
| `AccountPool` | one status row under all its handlers, process caches | `reports`, `pool_probed` | `Reports_proofs` |
| `AccountPicker` | the choice of a request's chain from a copy of the table | `admission` | |
| `ConversationFlow` | pin, chain, lease and failover loop of the request path | `flow` | `ConversationFlow_proofs` |
| `ContentBlocks` | what a client of a stream relies on (abstract) | through the two below | |
| `StreamWire` | tool calls in pieces, the policy that holds them, wire and client | with the three below | `Request_proofs` |
| `AnthropicStream`, `ResponsesStream` | the assemblers of Messages and Responses streams | `request` | `Request_proofs` |
| `ChatStream` | the relayed chat-completions stream | `request` | `Request_proofs` |
| `Request` | leases and streams side by side | `request` | `Request_proofs` |
| `LeaderElection` | election, role switch, startup, admin switch | `leader`, `leader_stray` | `LeaderElection_proofs` |
| `MaintainerThread` | worker thread, events, start and stop | `worker` | `MaintainerThread_proofs` |
| `MaintenanceSlot` | slot with its fallback and error paths | `upkeep` | `Upkeep_proofs` |
| `RefreshSweep`, `ProbeSweep` | which accounts the batched refresh and the probe take | `upkeep` | `Upkeep_proofs` |
| `CredentialRefresh` | one credential under refreshes, logins and whole-map writes | `accounts` | `Accounts_proofs` |
| `CredentialCache` | the two caches of a process over the accounts table | `accounts` | `Accounts_proofs` |
| `RegistrationBatch` | a batch, its sessions, its runner, stops and polls | `accounts` | `Accounts_proofs` |
| `RegistrationMaintainer` | the loop that starts batches | `accounts` | `Accounts_proofs` |
| `SolverPool` | the browser pool of the solver service | `upkeep` | `Upkeep_proofs` |
| `AdminJobs` | background imports and exports, with their records and pollers | `upkeep` | `Upkeep_proofs` |
| `ApiKeys` | key table, file, verification caches | `admission` | `Admission_proofs` |
| `SettingsStore` | settings rows, copies, saves, flush, mode cache | `admission`, `settings_password` | `Admission_proofs` |
| `Upkeep` | slot, sweeps, browsers and jobs side by side | `upkeep` | `Upkeep_proofs` |
| `Accounts` | credential, caches, batch and loop side by side | `accounts` | `Accounts_proofs` |
| `Admission` | picker, settings and keys side by side | `admission` | `Admission_proofs` |
| `UsageStats` | counts in two stores, summary and snapshot | `reports` | `Reports_proofs` |
| `Reports` | pool row and counts side by side | `reports`, `pool_probed` | `Reports_proofs` |

`Request`, `Reports`, `Upkeep`, `Accounts` and `Admission` compose components that
share nothing in memory: a step of the composition is a step of one of them, in
any order, and their theorems are about all these behaviours (those about the
pool row are about `AccountPool` alone). The `MC...` modules give model values and
bounds. Those of the compositions let one component run in a behaviour (`part`)
while the others rest, so that a run explores the sum of their states and not the
product. Operators
whose comment begins with "Mutant" are never part of a specification; each is a
wrong version of a definition beside it.

### The request

**AccountLeases.** `key`/`ttl` are the Redis keys; `active`, `due` are the
process's `_active` map and `next_at`; `pass` and `call` are the renew thread's
snapshot and the call it is in; `pc`, `left`, `leased` are locals of
`reserve_chain` and of the lease group. One step is one Redis command or one
critical section. `Tick` is one period of the renew thread; the assumption
`RenewAfter + MaxFails < Ttl` is what the clamping of `_lease_ttl` guarantees.
`Stalls` lets a process fall behind the clock and `EvalMayFail` lets `EVAL`
raise, which sends both scripts to their two-command fallbacks.

**AccountPicker.** `row` is what the filters tell apart of a status row, `cache`
and `age` the copy a process keeps of the table; loads, patches of one row and
saves of the whole state are several steps and overlap. A pick is one step, as
it is synchronous in the code once the copy is at hand: window, filters that
weaken rung by rung (`Ladder`), rotation mode, ranking, pin and limit. Putting an
amended copy back is two steps, as nothing excludes a load between them;
`overtaken` notes the processes in which one has been put over a newer copy, for
which nothing bounds how old what they judge by is (section 6).

**ConversationFlow.** A request is one turn of one conversation at one of the
handlers: `json` stands for the non-streaming loops, which are alike; `openai`,
`anthropic` and `responses` are the three streams, which differ in when they
count a stream as started, when they note success and which error they report.
`Resolve`/`Touch` and `RebindGet`/`RebindTouch`/`Bind` are the Redis commands of
the affinity code; a call that raises goes to the process's file map. Success
reports and affinity updates of a stream are detached (`report`, `step`) and may
run after later steps of the request. The picker is any order of accounts that
respects the pin (`StickyFirst`); leasing is one step here and is refined by
`AccountLeases`, cooling is any set changed at any time (`Cool`).

**StreamWire, AnthropicStream, ResponsesStream, ChatStream.** A tool call is a
slot: id, name and how far its arguments have come (none, a part, the empty
object, all required keys). A chunk has any combination of text, reasoning and
pieces of tool calls; what an assembler does with it in one call is one action,
and the relay sends the events it returned one by one, so that a client can
cancel and an error can come between two of them. `Client` follows the protocol
and keeps what a client can tell: blocks open, kinds seen, the end and its
reason. Two of the protocols implement `ContentBlocks`.

### The pool and its statistics

**AccountPool.** A handler is a sequence of reads and patches (`Program`), each
its own commit as in the code; every patch re-derives `pool_status` and refreshes
the cache of its process. A read returns the row or the cached copy. The rewrite
of the whole table (deleting an account) is no patch: it reads the state, looks
at the row twice without a lock (`LookUntil`, `LookCount`) and writes it (`Save`),
four steps between which others commit. `blind` is a ghost: the rewrites whose
look at the count found none. The status stack is its length, `cooldown_until`
is past, future or absent; model blocks, statistics, reasons and the Redis mirror
are left out (a patch of these alone is `Touch`, which still re-derives the
status). The row exists: a handler that creates it, and a rewrite that deletes
rows it did not read, are not modelled.

**UsageStats.** Every request goes to a day and a lifetime hash in Redis, field by
field when the pipeline fails, and to a day in PostgreSQL; `light_snapshot` and
`summary` put together what each store answers. Ghosts count the requests that
have finished and those whose counting was over when the caches last expired.

### Maintenance

**LeaderElection.** Each process has a watch thread and a main thread, both of
which run `try_become_leader` (`Claim`, `Look`, `Renew`) and `_set_leader_state`
(`Lead`, `Follow`, then `Start`/`Spawn` or `Stop`/`Kill` outside the lock).
`RedisError` is an exception at any of the calls, with or without effect.

**MaintainerThread.** The worker loop of `token_maintainer.py`, statement by
statement where an event is read, cleared or waited for, with callers of
`start_background`, `stop_background` and `request_run_soon`.

**MaintenanceSlot.** Every place of the two nested generators where an exception
can surface, the renew thread and the expiry of the key.

**RefreshSweep, ProbeSweep.** A cycle selects a capped batch of the accounts that
the sweep has not tried, works, and marks them, in Redis or, when that raises, in
the copy of the process; the leader may change and die between these steps.

**SolverPool.** One action is what the event loop runs of a task from one
suspension to the next: it ends where the code awaits the lock, a queue, a
launch or a closing. Browsers die, launches and closings fail (`MaxFaults`).

**AdminJobs.** The thread of a job patches its record in memory and mirrors each
patch; clients poll through the process that runs the job (`Home`) and through
another one (`Away`). Three kinds of job differ in what they write and when. A
file holds entries of any set of accounts, a cookie of one (`holds`): the bulk
import merges those of one account, passes over what holds none and refuses only
when there is no entry at all (`Write`), and what the record then counts differs
by the kind (`Successes`).

### Accounts

**CredentialRefresh.** A refresh token is a number; an exchange ends the one it
presents and issues the next. `lock` is the per-account lock of each process,
`cache` its cached map; `spender` is a ghost that remembers who spent a token
and got the answer. A sweep leaves the lock with its new token and writes at the
end; an administrator logs in, or reads the whole map and writes it back.

**CredentialCache.** The content of the table is the number of commits it has
seen, so that a copy says how old it is; `generation` and the locks are those of
`auth.py` and `store/accounts_pg.py`.

**RegistrationBatch.** Each process map and Redis has a copy of the batch and of
each session; a merge goes by which one is newer. A job walks its stages, writes
its session before each, and looks for a stop in between. A call to the outside
has any outcome; where a stage makes several without a look in between (the
second attempt, the search for the cookie, the session opened with the password),
the further ones are steps of their own (`"more"`). `SubmitRaises` is an exception
in the loop of the runner, whose end still writes a verdict; `Expire` and `Clean`
drop sessions that have aged in Redis and from a process map, and `Judged` gives
a verdict from those that are left.

**RegistrationMaintainer.** The loop is killed at any point and boots from what it
saved; the controller's verdict on a sample is an input.

### Admission

**ApiKeys.** An edit reads all keys, changes one and replaces the table; the count
of a request does the same. `astray` is raised when the file may be behind the
table, or two processes have edited at a time, after which the code promises
nothing.

**SettingsStore.** `mem` is the copy of a process, looked at again after
`Interval`; a save writes every setting of it, one statement per step. A look
may fail at any of the settings and still counts as one: `unseen` names those
that keep their old value, or are missing from a first copy, and a first load
that fails as a whole takes `settings.json`, which may hold anything stored before.

## 3. Runs

Times are between one and three minutes each on two cores; every passing run is
exhaustive.

| run | properties | bounds | shows |
|---|---|---|---|
| `request` | `TypesOK`, `ExclusionSpec`, `AnswerDelivered`, `BlocksFollow` | leases: 3 requests, 2 processes, 2 accounts, ttl 3, 1 failed renewal in a row; streams: 2 tool calls, a limit of 1, 2 pieces of text | with renew threads that keep up, no crash, Redis error or lost answer lets two requests reserve one account: leases implement `AccountExclusion`. The two block streams implement `ContentBlocks`; no complete tool call, and no text of a turn without one, is lost |
| `leases_liveness` | `AbandonedLeaseExpires` | 2 requests, stalls, two-command fallback | a lease whose request is over ends, even if a renewal was under way at its release |
| `reports` | `FailureCools`, `QuotaNeedsAdmin`, `UsageCounted` | any 2 handlers in 2 processes, the whole-table rewrite among them in 4 steps, stack of 2, streak of 2; 2 requests over 2 days, 2 errors of one store, the second of them on the first day | no interleaving of two handlers loses a reported failure's cooldown or a quota flag, except under a rewrite of the table that looked before; errors of the shared exit write nothing; nothing is counted twice, nor missing while a store works |
| `leader` | `RunnerOwnsLock`, `Elected`, `TwoLeadersEnd`, `LeaderRuns` | 2 processes, at most 2 of: crash, Redis error, lapse, use of the switch | one runner until a call fails or a key lapses; afterwards two leaders do not last and somebody leads |
| `worker` | `StopEnds`, `EnabledRuns` | 2 callers, 2 worker threads, 1 request | a stop ends the threads it did not wait for too; a pause ends without a wake-up |
| `upkeep` | `TypesOK`, `SlotExclusive`, `SlotFreed`, `NobodyStarves`, `OncePerSweep`, `RepairedAtRest`, `ReclaimSparesLeases`, `TaskEnds`, `JobsAnswered` | slot: 3 users, 2 processes, 1 error, 1 lapse; sweeps: 3 and 2 accounts in batches of 1, 1 error; browsers: 2 tasks, 2 of 4 browsers, 1 fault; jobs: 2 items with entries of 2 accounts, 1 error | one cycle at a time until the first error or lapse; no account is starved, none probed twice; a browser in use is not closed, a degraded pool is repaired; every task and every polling client comes to an end, and a finished import says what it stored |
| `flow` | `PinAnswered`, `OneVoice`, `AttemptsJudged`, `LeaseReturned` | 1 turn after another, without bound, at any endpoint, 2 accounts, 1 Redis error | failover never mixes two accounts' output; answers and errors are counted for the right account; the lease comes back; the pin names an account that answered |
| `accounts` | `TypesOK`, `SpendsOnce`, `RefreshWritesLive`, `FreshHoldsOwnWrites`, `DoneMeansImported`, `StopHolds`, `RestsBetween` | a request, a sweep and an administrator in 2 processes, 3 tokens; 2 writers, a reader, 3 commits; 2 jobs, one after the other, of which the second takes the long ways, with a stop in either process, an exception in the loop or sessions that are dropped; 3 kills, errors or unsafe samples | tokens are spent once in a process and what is written is live; a fresh list is up to date with its process; a verdict matches the pool unless the loop of the runner raised, a stop holds, the loop rests |
| `admission` | `TypesOK`, `LeavesRotation`, `NeverRefused`, `KeyExpires`, `OnlyItsEdit`, `SettingsRecent` | 3 accounts, a window of 2, copies up to 2 ticks old; 1 write of any status, or 1 save, or a save and 2 writes of the common statuses on two accounts, with a pick once they have reached the copies; 2 keys in 2 processes, 1 error; 3 settings in 2 processes, 2 events (a set, an error, a crash) | staleness is bounded: of statuses, of keys, of the settings that could be read; an edit changes its own key; the ladder of the picker ends with an account while there is one |
| `pool_probed` | `QuotaStaysOut` (violated) | 3 handlers, one after the other | a quota disable, a free-usage answer to a probe, which enables the account, and a good probe: it is in rotation with the flag set |
| `leader_stray` | `StrayRunnerEnds` (violated) | 2 processes, 1 Redis error | a process that met the error at startup runs maintainers for good |
| `settings_password` | `LoginUsesStored` (violated) | 2 processes, 3 settings, 2 events | after a password change another process keeps the old hash |

Why the bounds suffice for what the runs are asked: two contenders and a third
party (a third request, a second process, a third user) are enough to have a
holder, a challenger and somebody who changes the state under both; two accounts
give a failover and a stand-in; a ttl of three ticks separates fresh, due and
last-chance leases; two handlers of the pool in different processes give every
read-patch race, each with its stale cache; two tool calls are enough for one
that is held while another passes, and a limit of one for one that is cut; three
accounts with a window of two leave one outside the window; batches of one make
a sweep of several cycles. Errors, crashes, lapses and requests are the
environment's events, bounded in the guards and named as constants
(`MaxErrors`, `SlotErrors`, `RefreshErrors`, `ProbeErrors`, `JobErrors`,
`MaxCrashes`, `MaxToggles`, `MaxStalls`, `MaxEvents`, `MaxLapses`, `SlotLapses`, `LoopEvents`,
`MaxFaults`, `MaxStops`, `MaxRequests`, `MaxFails`, `MaxToken`, `MaxCommits`,
`MaxWrites`, `MaxSaves`, `MaxPicks`, `MaxHash`, `MaxDay`, `MaxBlocks`, `MaxHeld`,
`MaxDeltas`; `Threads` of `MaintainerThread` bounds the workers ever started).
`Cap`, `KickAt`, `Window`, `Sample`, `Feedback`, `Limit`, `Batch` and `Promote`
are the code's own limits, shrunk. The proofs remove the bounds from the safety
properties they are about. Symmetry is used where the model values are
interchangeable (reporting handlers, the writers of the cache, processes and
keys of the admission run) and no liveness is checked. Deadlock is not checked: requests
end, handlers run once, and a process with everything stopped waits.

`StackIsCounted`, `CountKept`, `LeaseOutlivesRequest`,
`NoForeignDelete`, `LeaderOwnsLock`, `LocalExclusive`, `KeepsForeignKey`,
`CountIsRight`, `JobsCounted` and `ForceUsesRequest` are in no run: section 4 proves them.

### Fairness

* `AccountLeases`: the clock advances, each renew thread runs, and a request
  that is in the middle of its own Redis commands finishes them. Nothing obliges
  a request to arrive or release.
* `LeaderElection`: both threads of a process are scheduled, and a key nobody
  renews expires. Errors, crashes, lapses and the switch are never fair.
* `MaintainerThread`: threads run and their waits have timeouts (5 s, or the
  interval); a call of start, stop or wake that has begun returns.
* `MaintenanceSlot`: bodies end, waits have deadlines, unrenewed keys expire.
* `ConversationFlow`: a request that is under way takes some step; the upstream
  client has a read timeout, so no stream stays silent for ever, and
  `LeaseReturned` assumes that no stream sends content without end.
* `RefreshSweep`, `ProbeSweep`: cycles come at intervals and end; a change of the
  leader, an error and a change of the accounts are never fair.
* `SolverPool`: every wait of a task and of the holder of the lock has a time
  limit in the code, except the lock itself, whose holder's waits have one.
* `AdminJobs`: a thread that lives runs; mirrored records have a time to live;
  a client that asks goes on asking. Nothing obliges a process to live.

## 4. Proofs

Every theorem holds for any number of processes, requests, accounts, handlers,
tasks or users, and for any bounds on errors, under the assumptions stated in
the module (types of the constants; the lease timing). Leaves that need most of
a prover's time name it and a timeout (`SMTT`, `ZenonT`); all the proofs still
hold with three tenths of the timeouts (`tlapm --stretch 0.3`).

* **`Request_proofs`.** Leases: `TypeCorrect`. With `~Stalls` and `~EvalMayFail`:
  `LeaseHeld`, `Exclusive`, `ImplementsExclusion`. That a reserved account's key
  is its request's does not follow from itself, since a `Tick` may expire it, so
  `LeaseInv` adds how much life a key has left: at least the time until the
  entry is due plus what failed renewals may still cost, with cases for a thread
  that has yet to wake in this tick, one that is done with the entry, and one in
  the middle of a renewal (`LifeLeft`), and that a renew thread only handles
  leases of its own live process (`RenewerOwn`). The refinement maps `users` to
  the set of requests that believe they reserved an account. `OwnerEndsLease`
  needs no timing at all: it holds when processes stall too.
  Streams: `Delivered` and `ImplementsBlocks`, for any number of tool calls in
  any pieces and any limit. What an assembler returns in one call is sent event
  by event while errors may cut in, so an invariant has to speak of events that
  are still to come: `Leads(p, c, w, d)` says that the events `w` may follow for
  the client `c` in this order and make it `d`. Every method is shown to append
  events that lead on (`SoundStopped`, `SoundContinued`, `SoundCalled`,
  `BlocksLead`), the invariants (`MessagesInv`, `ResponsesInv`, `ChatInv`) relate
  `d`, the client that has seen everything, to the assembler, and `Sent` takes
  the first event off. A limit leaves a complete call out only when it is
  reached: `FirstCount` and `WithinBudget`, about the first n of a set.
  `TypesHold` puts the four components together, with `RenewsWhatIsServed`: the
  map of leases that a process renews has exactly the requests that stream on
  one, by `Reserves` (what a request holds before it registers). A renewal that
  put back what a release took out meanwhile breaks it.
* **`Reports_proofs`.** Pool: `TypeCorrect`; `StackCounted` by `CountedInv` (every
  copy of the row a patch may use — cache, first read, last read — is counted
  too); `CountEnds` (that is, `CountKept`) from the fact that each patch writes a
  positive count or keeps the current one, and that a rewrite whose look found a
  count writes one (`SeesInv`, which needs that nothing of the same handler comes
  between the look and the write); `FailureLeavesCooling` by `CoolsInv` (a report
  in progress has the account cooling or still has a counting step to do).
  `QuotaHolds`: a quota flag outlives every step but those the property excepts,
  because each patch writes the flag as `True` or leaves it.
  Usage: `UsageHolds`. What is shown is a sum over the days of the greater of two
  counts, while any number of requests are somewhere between the stores, so
  `NotMore` adds to each count of each day the requests that are still open in it
  (`OpenDay`, `OpenRow`, `OpenLife`: a step moves one worker from the open ones to
  the count, `OneMoves`), and the sum of these bounds, `Ahead`, grows only when a
  request finishes or commits on another day than it is open for. `NotLess` is the
  converse for a store that has not failed. The sum is a recursive function:
  `TotalSteps` shows that it exists, by an induction that the library's theorems
  do not offer (`Least`: a set of numbers has a least one, from the pigeonhole
  theorem), and `TotalBound` compares two sums.
* **`LeaderElection_proofs`.** `TypeCorrect` under any failure; `OneLeader` and
  `OneRunner` by `Owned`: until the first error or lapse a thread about to lead,
  start or run is in the process that owns the key, a runner is a leader or
  about to be stopped, and the owner always has a watcher or is about to arm one,
  so its key does not expire.
* **`ConversationFlow_proofs`.** `TypeCorrect` with the attempt counter always
  inside the chain of a request that is calling, streaming or has an update
  pending. `PinsAnswered` by `Remembered`: a refresh only writes back an account
  that has answered, and the account of a pending update does not change,
  because its request tries no other one before the update is over.
  `VoicesAreOne` by `VoiceInv`: whoever has been heard is the current account of
  a request that no longer fails over. `TurnsAreJudged` by `VerdictInv`: while a
  turn is under way, its successes so far are of the account it is at, noted or
  still in a detached report, and an error on the way out has been told. The
  proofs hold for turns that overlap, of which the run has one at a time.
* **`MaintainerThread_proofs`.** `TypeCorrect`; `ForcesAreAsked` by counting
  requests and the cycles they were spent on (`Covered`).
* **`Upkeep_proofs`.** One part per component, then `UpkeepTypes`,
  `PoolIsRepaired`, `NoLeaseReclaimed`, `ProbedOncePerSweep` and
  `UpkeepExclusive` of the composition.
  Browsers: `LeasesAreCounted`, that `_in_flight` is the number of tasks with a
  browser over every path of a task (`Moved` and `CountedKeeps` sum up the
  paths). An idle shutdown closes no browser in use, by `Deserted`: while a pool
  is taken down nobody has a browser and the queue stays empty, since only the
  holder of the lock offers one. A pool at rest is repaired, by `RestInv`: what
  is missing is accounted for by whoever holds the lock or is about to.
  Sweeps: the probe's `OncePerSweep` from `Clean` (a batch never meets what its
  generation has covered). Jobs: `RecordsCount`, what the record of a finished
  import says of what was stored, by `Truth` (the record and what the items hold);
  that cookies are never fewer than accounts is a surjection between finite sets
  (`CookiesCount`). Slot: `LocalLock` (who is in a local
  section holds that lock), `OneCycle` (who works holds the key and is renewing
  it, and nobody is on the local path, until the first error or lapse) and the
  action property `ForeignKeyKept`.
* **`Accounts_proofs`.** The same for four components, with
  `AccountsTypes`, `FreshIsOwn`, `DoneIsImported`, `StopIsKept` and
  `LoopRestsBetween` of the composition.
  Credential: `WritesAreLive` and `TokensAreSpentOnce`. A token on its way to the
  row is accepted, unspent and known to nobody else (`Fresh`), and everything
  that is about was issued (`Bounded`), so an exchange brings a new number.
  `RowBehind` and `CacheBehind` say how long a spent token still shows: in the
  row until its spender has written, in the cached map of the spender's process
  until the spender has dropped it, and all that time the spender has the lock.
  Whoever takes the lock afterwards reads something else.
  Caches: `FreshIsRecent` by `Informed`, that a builder whose generation is still
  current has read a table that holds every write its process has finished with.
  Batch: `DoneMeansImported`, and the action property `StopHolds`, for any number
  of sessions and any merge of the three copies; `BatchesFit` and `SessionsFit`
  say what a copy may hold (and that the session of a job under way is there:
  `Kept`), `Stopped` that a stop a job has seen is in the copy it goes on from,
  `Flight` what is certain between two suspensions. `StopHolds` is about stages:
  the calls that a stage makes without a look for a stop in between are allowed.
  Loop: `RestsBetween` by `Rests`: a loop that boots, whatever it was killed at,
  has the rest it owes in the state it saved.
* **`Admission_proofs`.** Keys: `RevokedKeysExpire` and `OneKeyAnEdit` from
  `KeysInv`; a lookup under way has read a table no older than the time since the
  revocation (`Together`), and an edit that nobody has interfered with replaces
  the table it has read (`Beside`). Settings: `NoStaleSettings`; `MemOK`, `JobOK`,
  `FlushOK` and `ModeOK` bound the age of what the copy, a save, a deferred flush
  and the mode cache hold, of the settings that were read (what a copy could not
  read is in its `unseen`, and in that of a save that starts from it). Picker: `RestingStaysOut` and `LastResort`, from
  `PickerInvariant`: wherever a copy of the table is, an account in which it
  differs has changed no longer ago than the copy is old and the saves of the
  whole state have added (`CacheOK`, `LoadOK`, `SaveOK`, `PatchOK`, `CopyOK`). The
  attempt to prove this without `overtaken` failed at the step that puts an
  amended copy back, and TLC showed why with two writes. The other half is about
  sequences: `OnlyMembers` and `OnlyConcat` (a filter keeps what it should),
  `OrdersMembers` (an order of a set has all of it, by the pigeonhole theorem),
  `RankingsMembers`, and `BestFirst`, that a ranking starts with an account in
  rotation, and goes on with one if its first has to be refreshed, when the
  window has a healthy one. `Only` is a recursive function, and the induction
  over its steps is `UpTo`, for a set of numbers, again from the pigeonhole
  theorem. `AdmissionTypes` puts the three together.

Only model-checked: the liveness properties, since fairness and `ENABLED` are out
of the prover's reach. Every safety property of a passing run, invariant or
action property, is proved.

No module with a theorem reaches a `RECURSIVE` operator, which the prover could
not handle.

## 5. Disagreements the runs exhibit

The three violation runs of section 3; `PROJECT.json` quotes the documentation
each one contradicts.


## 6. Other disagreements seen while modelling

Behaviours of the modelled code that contradict a comment or docstring, or that
a reader of it would not expect, without a run of their own. For some of them a
module states the documented property, under the name in brackets; it is in no
run because it does not hold.

Leases, pool and picker:

* `store/redis_client.py:262` — `compare_and_delete` promises "Delete key only
  if value matches" (`:248`); when `EVAL` raises it is a GET and a DEL, and the
  key may have expired and been taken between them. `NoForeignDelete` is proved
  without that fallback (`~EvalMayFail`).
* `store/settings_pg.py:512` — deleting one account saves the whole pool state
  from a snapshot, which reverts a quota disable written since
  (`account_pool.py:1458`, "permanently"). `QuotaNeedsAdmin` excepts that step.
* `account_pool.py:1132` — an error of the shared exit returns before anything is
  written, and nothing cools; "any upstream error during rotation
  (401/429/5xx/network/proxy) stacks a durable cooldown" (`:1124`). The same for
  a probe (`model_health.py:411`). `FailureCools` speaks of the other errors.
* `store/settings_pg.py:633` — a save of the whole state is to "never blindly
  overwrite a still-active durable cooldown" (`:496`); its looks at the row are
  plain `SELECT`s, so of a failure committed after them the count is lost, and
  the time too if it was committed after the look at the time. `FailureCools` and
  `CountKept` except a save that has looked before. The save also deletes the
  rows it had not read (`:514`).
* `settings_store.py:858` — a failure's report ends with a patch of the statistics
  that sets `cooldown_until` again, which a good probe may have cleared
  meanwhile: the account then cools, with no count and no stack, until that time.
* `account_pool.py:1339` — re-enabling by hand "clears ... cooldown" (`:1323`)
  but leaves the stack and the count, so the account still cools.
* `account_pool.py:1195` — a live free-usage failure is stacked twice; "becomes
  one entry" (`:178`). Of two failures side by side one entry can be lost
  (`:229`), the new stack being computed from an earlier read; "increments by 1"
  (`:681`).
* `store/settings_pg.py:212` — every patch re-derives `pool_status`, a live
  success included; "must NOT clear, rewrite, or re-derive" (`account_pool.py:1053`).
* `account_pool.py:62` says that `round_robin` cycles "all enabled live
  accounts"; a pool no larger than the sample, without latency feedback, is
  ranked and not rotated, and with it the exploration of every fifth pick only
  starts at multiples of five when the pool's size is one (`:1948`–`:1990`).
* a window of nothing but disabled accounts ends the ladder with a disabled one,
  so the expansion for an unlucky window (`account_pool.py:2044`) is not reached.
* a pin that failed without cooling is ranked behind cooling peers, and the limit
  may cut it.
* `store/settings_pg.py:291` — a patch copies `_pool_state_cache`, amends the copy
  and puts it back without a lock (`:293`); a load or a save of another thread in
  between is undone, its stamp is kept, and repeated with the older copies of
  other threads this leaves `_POOL_STATE_CACHE_STALE_MAX_SEC` (`:221`) no bound on
  how far a copy is behind. `LeavesRotation` and `NeverRefused` except a process
  to which this has happened.
* a load of the table that overlaps a patch publishes the state from before it,
  over the process's own write, for as long as a stale copy is allowed.
* `pool_counts` (`store/settings_pg.py:430`) counts accounts an operator disabled
  as enabled, and does not know cooldown by stack.

Affinity and request path:

* `store/affinity_redis.py:44` — the "touch" (`:37`) writes back the account
  that was read, over a rebind made in between.
* `conversation_affinity.py:399` — "always rebind to the account that worked",
  except when another turn has moved the pin: it then stays where it is (`PinFollowsAnswer`).
* `app.py:3700` — a stream with nothing but a finish reason is committed as a
  success before it is found empty; compare the comment at `:3549`.
* `app.py:5146` — a Responses stream that breaks after its first frame is not
  reported, unlike "any upstream error" (`account_pool.py:1124`).
  `AttemptsJudged` excepts that handler.

Streams:

* Responses: the completed response lists slots without a name, which were never
  streamed; arguments that arrive after an item is done change its final form; a
  failure is numbered 0 whatever came before it (`openai_responses.py:534`, `SequenceMonotone`).
* chat completions: a body that is not a stream, with a tool call that is held
  for good, loses its text; the upstream's finish reason "tool_calls" is passed
  on with no tool call sent; a cancel after a tool call says "stop"
  (`CallsAreAwaited`).
* Messages: `anthropic_compat.py:1602` means a turn to have text or tool calls
  and not both; text that has been sent stays when tool calls
  follow (`AnthropicStream!TextOrTools`).

Election and maintenance:

* `settings_store.py:1044` — the Redis flag written to "signal any leader"
  (`:1039`) is read by nobody, so a maintainer switched off in the leader is not
  started again by a switch in another process.
* `token_maintainer.py:444` — a stop that gave up on a long cycle followed by a
  start leaves two workers; "Idempotently start" (`store/leader.py:72`).
* `token_maintainer.py:417` — the wake-up is cleared after a cycle, so a forced
  request made during it waits for some later request (`:426`); the same in
  `model_health.py`.
* `maintenance_gate.py:66` — an exception in or after the body sends the
  generator to its fallback, which yields again: the caller gets a
  `RuntimeError` in place of the exception (`MidFlightFallback`).
* `store/locks_redis.py:71` — an exception ends the thread that renews, and a
  renewal that comes late finds the key gone; nobody tells the cycle, and a second
  one starts beside it.
* `maintenance_gate.py:69` — one caller's Redis error lets its cycle run beside
  the holder of the key; "must not run at the same time" (`:7`).

Accounts and registration:

* `oidc_auth.py:27` — the per-account lock is to serialise refreshes; a sweep
  leaves it before its batch is written (`LockSerializes`). A batch that cannot be written loses
  the rotated tokens.
* an account removed during a refresh comes back with its result;
  `mark_refresh_invalid` marks whatever the row holds by then; a purge decided
  before a login removes the fresh login; a write of the whole map from a stale
  read reverts rows and removes new ones.
* registration: a cancel after the import leaves the account in the pool and the
  session "cancelled"; a stop taken from an old copy overwrites a final state
  with "stopping" (`grok_build_adapter.py`; "Pull cancel_requested from Redis so
  multi-worker stop works"), and the runner's next mirror may overwrite a stop;
  a batch whose runner died with fewer sessions than its count is shown
  "running" until somebody stops it; a heartbeat after the final mirror says that the
  runner lives; the controller's own cooldown is never consulted.
* registration: the end of the runner is also reached by an exception in its loop,
  and a batch of which it had finished a part may then be "done"
  (`grok_build_adapter.py:1420`); sessions expire after six hours and batches do
  not, so the verdict on an old batch is a guess from what is left, and "done"
  when nothing is (`:2613`).
* registration: after a stop the calls that remain of a stage are still made: a
  captcha and a new code (`grok_build_adapter.py:1860`), the search for the cookie
  (`:1988`), and the session opened with the password, before which a stop is
  looked for only at `:2031`; a `try` there would take one for an error (`:2057`).
* browsers: a rebuild whose launch fails may close a browser in use
  (`RebuildSparesLeases`; `test_turnstile_pool_recovery.py:190` expects it spared).

Keys, settings, usage, jobs:

* keys: disabling one with PostgreSQL out of reach answers success while it is
  still accepted; a deletion followed by a list that fails leaves the key in the
  file; edits of two processes lose each other; a replacement of the table drops
  the lifetime columns (`store/usage_pg.py`); the automatic mode asks for an
  enabled key where its comment says "any key exists".
* settings: a save of the whole copy reverts what others have set recently; a
  value whose write failed is undone by the next look at the database; a flush
  may write its snapshot over a later save.
* settings: a look at the database whose reads fail counts as one all the same
  (`settings_store.py:148`, `:168`): the copy is fresh by its stamp, holds values
  of any age, and the next save writes them back. `get_account_mode` turns to that
  copy when its own read fails (`:554`), so the mode may be as old. A first load
  drops what it could not read, or takes `settings.json` (`:95`). The re-apply at
  start-up (`:1366`) stores what it reads, the defaults if the reads failed.
* usage: after an outage the light snapshot prefers Redis and undercounts, where
  the summary takes the larger; a window counts a request over midnight twice; a
  failed lifetime update undoes the day's while `record` answers success; a slow
  snapshot may be cached after it was invalidated; a pipeline that was applied in
  part and repeated field by field doubles some fields.
* jobs: the results of a sign-in by cookies are paired with the accounts in
  completion order, so an item may show another's; a final patch that could not
  be mirrored leaves the job "running" at every poll until its record expires;
  records and export bytes in memory are never dropped; a download that reaches
  another worker is refused with 410; a job whose every cookie failed is "done".
* jobs: two cookies of one account are two successes and one account stored
  (`admin_routes.py:1492`); a file without an account, among others with one, is
  passed over and the import is "done" (`:2250`, `accounts.py:769`). `RecordsCount`
  says what a record does tell.

## 7. Not modelled, and why

Whole components:

* history compaction is a pure, sequential rewriting of message lists by lengths
  of text, and off unless configured. Reading it shows that a placeholder may be
  longer than what it replaces, and that its third pass, for "older" prose, also
  cuts the newest message of the user;
* the API guard averages timings; the registration loop takes its verdict as an
  input here;
* the mailbox, console and OAuth clients, the login tools and the SSO import talk
  to external services, step after step: input and output;
* the admin UI, deployment, configuration, models table, storage bootstrap, and
  the task and audit logs have no behaviour over time that another part relies on.

Of the components that are modelled in part, `PROJECT.json` says what is left
out. In general: wire formats, wording, usage numbers and statistics carry no
control the properties depend on; the conversion of request bodies is a function
without state; latency averages and the exploration of the picker only change the
order of accounts, which `ConversationFlow` takes as any order that respects the
pin; what a browser task does outside is one step with any outcome. A hazard
without a property says why in `PROJECT.json`.

Where a module is simpler than the code it translates, so that its properties
say nothing of these cases:

* `ConversationFlow`: `Answer` and `Reply` cannot fail. In the loops that do not
  stream, an exception in what follows the success report (the binding, the usage,
  the conversion) is caught by the handler of the attempt (`app.py:3348`, `:4604`),
  which reports a failure of the account that answered and goes on to the next.
* `AnthropicStream` and `ResponsesStream`: the relay sends the error frame without
  asking whether the end was sent (`app.py:5787`, `:5142`); an exception after the
  end, which the modules do not have, would add a frame to a finished stream.
* `RefreshSweep`: a stored generation that is not positive, a mark that finds no
  meta and starts a new sweep, and a new sweep cut half way in Redis
  (`oidc_auth.py:997`, `:1038`, `:1177`) change which covered set is used, not
  that one is.
* `CredentialRefresh`: a write is of one account's row. That it removes other
  rows of the same user, and falls back to the file (`auth_store.py:199`, `:366`),
  is left out.
* `ApiKeys`: `keys.json` exists and can be read. Without PostgreSQL, a missing or
  broken file is an empty list (`apikeys.py:115`), and the next edit replaces the
  table by that list and its change.
* `SettingsStore`: the overlay of one key that was read into the copy
  (`settings_store.py:1106`), which may put a value back that a set has just
  replaced in that copy: its age grows by what lies between the two.
* `RegistrationBatch`: the record of the batch in Redis does not expire, and the
  calls of the first attempt to sign up, each preceded by a look for a stop, are
  one step.
* `AccountPool`: the row exists (`store/accounts_pg.py:529` creates it with the
  account).

Liveness of registration batches and of the credential caches is not stated: a
session waits for external services under time limits of minutes, and a process
that dies leaves its batch to an administrator.

## 8. Possible extensions

* the lease of `ConversationFlow` as an instance of `AccountExclusion`, and its
  chain as a pick of `AccountPicker`, in one composition;
* request bodies and `history_compact.py` as operators checked against a
  reference definition.
