---------------------------- MODULE AccountLeases ----------------------------
(* store/account_leases.py: the Redis leases that keep two in-flight requests*)
(* off the same upstream account, across worker processes.                   *)
(*                                                                           *)
(* A request walks its chain of candidate accounts, skips the cooling ones   *)
(* and takes the first whose key it can SET NX EX.  A thread of each worker  *)
(* wakes every five seconds and renews the leases that are due; the response *)
(* path releases the lease with a compare-and-delete.  One tick of the model *)
(* is one period of that thread; Ttl and RenewAfter are counted in ticks.    *)
(* Every key value is the fresh uuid of one reservation, so the request      *)
(* itself stands for its token.                                              *)
EXTENDS Integers, Sequences, FiniteSets

CONSTANTS
    Workers,        \* worker processes
    Requests,       \* one-shot requests, each with its own token
    WorkerOf,       \* WorkerOf[r]: the process that serves r
    Accounts,
    Chains,         \* the candidate chains the picker may hand out
    None,
    Ttl,            \* life of a key after SET or EXPIRE, in ticks
    RenewAfter,     \* age at which a lease becomes due, in ticks
    MaxFails,       \* bound: renewals of one lease that may fail in a row
    Stalls,         \* may a process lose the CPU for longer than a tick?
    EvalMayFail     \* may EVAL raise while GET/DEL/EXPIRE still work?

ASSUME SetsAssumption ==
    /\ None \notin Requests \cup Accounts
    /\ WorkerOf \in [Requests -> Workers]
    /\ Chains \subseteq Seq(Accounts)
    /\ \A c \in Chains : c # <<>>

(* _lease_ttl clamps the ttl to 30..900 s and renewal starts at              *)
(* max(5, ttl / 3), so the life left at that point is worth several periods. *)
ASSUME TimingAssumption ==
    /\ Ttl \in Nat /\ RenewAfter \in Nat /\ MaxFails \in Nat
    /\ RenewAfter >= 1
    /\ RenewAfter + MaxFails < Ttl
    /\ Stalls \in BOOLEAN /\ EvalMayFail \in BOOLEAN

VARIABLES
    key,        \* key[a]: the token stored at account_inflight:<a>
    ttl,        \* ttl[a]: ticks that key has left
    pc,         \* pc[r]: where request r is
    left,       \* left[r]: the candidates it still has to try
    leased,     \* leased[r]: the account it reserved
    matched,    \* matched[r]: what the fallback GET of its release returned
    active,     \* requests in the _active map of their process
    due,        \* due[r]: ticks until next_at
    fails,      \* fails[r]: renewals that failed since the last good one
    alive,      \* processes that have not crashed
    polled,     \* processes whose renew thread already woke in this tick
    pass,       \* pass[w]: leases its renew thread still has to renew
    call        \* call[w]: the renewal that thread is in the middle of

redis   == <<key, ttl>>
request == <<pc, left, leased, matched>>
renewer == <<active, due, fails, polled, pass, call>>
vars    == <<redis, request, renewer, alive>>

NoCall  == [req |-> None, ok |-> FALSE, step |-> "none"]
CallSet == {NoCall} \cup [req : Requests, ok : BOOLEAN, step : {"fallback", "reply"}]

PcSet == {"idle", "check", "set", "register", "serving", "delete", "fallback",
          "done", "refused", "crashed"}

TypeOK ==
    /\ key \in [Accounts -> Requests \cup {None}]
    /\ ttl \in [Accounts -> 0 .. Ttl]
    /\ pc \in [Requests -> PcSet]
    /\ left \in [Requests -> Seq(Accounts)]
    /\ leased \in [Requests -> Accounts \cup {None}]
    /\ matched \in [Requests -> BOOLEAN]
    /\ active \subseteq Requests
    /\ due \in [Requests -> 0 .. RenewAfter]
    /\ fails \in [Requests -> 0 .. MaxFails]
    /\ alive \subseteq Workers
    /\ polled \subseteq Workers
    /\ pass \in [Workers -> SUBSET Requests]
    /\ call \in [Workers -> CallSet]

(* The renew thread of a process knows the leases of the requests that it    *)
(* still serves, all of them and no others.                                  *)
Registered == active = {r \in Requests : pc[r] = "serving" /\ leased[r] # None}

Init ==
    /\ key = [a \in Accounts |-> None]
    /\ ttl = [a \in Accounts |-> 0]
    /\ pc = [r \in Requests |-> "idle"]
    /\ left = [r \in Requests |-> <<>>]
    /\ leased = [r \in Requests |-> None]
    /\ matched = [r \in Requests |-> FALSE]
    /\ active = {}
    /\ due = [r \in Requests |-> 0]
    /\ fails = [r \in Requests |-> 0]
    /\ alive = Workers
    /\ polled = {}
    /\ pass = [w \in Workers |-> {}]
    /\ call = [w \in Workers |-> NoCall]

-----------------------------------------------------------------------------
(* reserve_chain                                                             *)

Candidate(r) == Head(left[r])

(* A request enters with the chain the picker built for it.                  *)
Arrive(r) ==
    /\ pc[r] = "idle"
    /\ WorkerOf[r] \in alive
    /\ \E c \in Chains : left' = [left EXCEPT ![r] = c]
    /\ pc' = [pc EXCEPT ![r] = "check"]
    /\ UNCHANGED <<redis, leased, matched, renewer, alive>>

(* The candidate is busy: the next one, or an empty chain when it was the    *)
(* last, which the request path answers with "all accounts are busy".        *)
SkipBusy(r) ==
    /\ left' = [left EXCEPT ![r] = Tail(@)]
    /\ pc' = [pc EXCEPT ![r] = IF Len(left[r]) > 1 THEN "check" ELSE "refused"]

(* get_cooldown of the candidate: other requests set and clear that key, so  *)
(* either answer is possible.                                                *)
CheckCooldown(r) ==
    /\ pc[r] = "check"
    /\ \/ SkipBusy(r)
       \/ pc' = [pc EXCEPT ![r] = "set"] /\ left' = left
    /\ UNCHANGED <<redis, leased, matched, renewer, alive>>

(* Mutant: SET without NX.                                                   *)
TakeFreeNoNx(r, a) ==
    /\ key' = [key EXCEPT ![a] = r]
    /\ ttl' = [ttl EXCEPT ![a] = Ttl]

(* set_nx_ex answered: the key was free and is ours, or it is another's.     *)
TakeFree(r, a) ==
    /\ key[a] = None
    /\ key' = [key EXCEPT ![a] = r]
    /\ ttl' = [ttl EXCEPT ![a] = Ttl]

SetNxEx(r) ==
    /\ pc[r] = "set"
    /\ LET a == Candidate(r) IN
       \/ /\ TakeFree(r, a)
          /\ leased' = [leased EXCEPT ![r] = a]
          /\ pc' = [pc EXCEPT ![r] = "register"]
          /\ left' = [left EXCEPT ![r] = <<>>]
       \/ /\ key[a] # None
          /\ SkipBusy(r)
          /\ UNCHANGED <<redis, leased>>
    /\ UNCHANGED <<matched, renewer, alive>>

(* Redis raised during the scan: the request goes on with the whole chain    *)
(* and no lease.  A SET that ran but whose answer was lost leaves a key      *)
(* nobody renews or deletes.                                                 *)
Degrade(r) ==
    /\ pc[r] \in {"check", "set"}
    /\ \/ UNCHANGED redis
       \/ pc[r] = "set" /\ TakeFree(r, Candidate(r))
    /\ pc' = [pc EXCEPT ![r] = "serving"]
    /\ left' = [left EXCEPT ![r] = <<>>]
    /\ UNCHANGED <<leased, matched, renewer, alive>>

(* _LeaseGroup.__init__: the entry joins _active, due in RenewAfter.         *)
Register(r) ==
    /\ pc[r] = "register"
    /\ pc' = [pc EXCEPT ![r] = "serving"]
    /\ active' = active \cup {r}
    /\ due' = [due EXCEPT ![r] = RenewAfter]
    /\ UNCHANGED <<redis, left, leased, matched, fails, polled, pass, call, alive>>

-----------------------------------------------------------------------------
(* _LeaseGroup.release                                                       *)

(* The entry leaves _active before the key is deleted.                       *)
Release(r) ==
    /\ pc[r] = "serving"
    /\ pc' = [pc EXCEPT ![r] = IF leased[r] = None THEN "done" ELSE "delete"]
    /\ active' = active \ {r}
    /\ due' = [due EXCEPT ![r] = 0]
    /\ fails' = [fails EXCEPT ![r] = 0]
    /\ UNCHANGED <<redis, left, leased, matched, polled, pass, call, alive>>

(* The Lua script of compare_and_delete.                                     *)
DeleteIfOwner(r) ==
    key' = IF key[leased[r]] = r THEN [key EXCEPT ![leased[r]] = None] ELSE key

CompareAndDelete(r) ==
    /\ pc[r] = "delete"
    /\ DeleteIfOwner(r)
    /\ pc' = [pc EXCEPT ![r] = "done"]
    /\ UNCHANGED <<ttl, left, leased, matched, renewer, alive>>

(* Redis raised for good; release swallows it and leaves the key to its ttl. *)
DeleteFails(r) ==
    /\ pc[r] \in {"delete", "fallback"}
    /\ pc' = [pc EXCEPT ![r] = "done"]
    /\ UNCHANGED <<redis, left, leased, matched, renewer, alive>>

(* EVAL raised, so compare_and_delete reads the key ...                      *)
FallbackGet(r) ==
    /\ EvalMayFail
    /\ pc[r] = "delete"
    /\ matched' = [matched EXCEPT ![r] = (key[leased[r]] = r)]
    /\ pc' = [pc EXCEPT ![r] = "fallback"]
    /\ UNCHANGED <<redis, left, leased, renewer, alive>>

(* ... and deletes it in a second command when the value matched.            *)
FallbackDelete(r) ==
    /\ pc[r] = "fallback"
    /\ key' = IF matched[r] THEN [key EXCEPT ![leased[r]] = None] ELSE key
    /\ pc' = [pc EXCEPT ![r] = "done"]
    /\ UNCHANGED <<ttl, left, leased, matched, renewer, alive>>

-----------------------------------------------------------------------------
(* _renew_once                                                               *)

(* The thread wakes and copies the due entries under _active_lock.           *)
WakeRenewer(w) ==
    /\ w \in alive \ polled
    /\ pass[w] = {} /\ call[w] = NoCall
    /\ pass' = [pass EXCEPT ![w] = {r \in active : WorkerOf[r] = w /\ due[r] = 0}]
    /\ polled' = polled \cup {w}
    /\ UNCHANGED <<redis, request, active, due, fails, call, alive>>

Reply(r, ok) == [req |-> r, ok |-> ok, step |-> "reply"]

(* The Lua script of renew_if_owner.                                         *)
RenewIfOwner(w, r) ==
    /\ r \in pass[w] /\ call[w] = NoCall
    /\ LET a == leased[r] IN
       /\ ttl' = IF key[a] = r THEN [ttl EXCEPT ![a] = Ttl] ELSE ttl
       /\ call' = [call EXCEPT ![w] = Reply(r, key[a] = r)]
    /\ pass' = [pass EXCEPT ![w] = @ \ {r}]
    /\ UNCHANGED <<key, request, active, due, fails, polled, alive>>

(* Redis raised: the entry stays due and is tried again on the next wake-up. *)
RenewFails(w, r) ==
    /\ r \in pass[w] /\ call[w] = NoCall
    /\ r \in active => fails[r] < MaxFails
    /\ fails' = IF r \in active THEN [fails EXCEPT ![r] = @ + 1] ELSE fails
    /\ pass' = [pass EXCEPT ![w] = @ \ {r}]
    /\ UNCHANGED <<redis, request, active, due, polled, call, alive>>

(* EVAL raised: GET, then EXPIRE in a second command when the value matched. *)
RenewFallbackGet(w, r) ==
    /\ EvalMayFail
    /\ r \in pass[w] /\ call[w] = NoCall
    /\ call' = [call EXCEPT ![w] =
                   [req |-> r, ok |-> (key[leased[r]] = r), step |-> "fallback"]]
    /\ pass' = [pass EXCEPT ![w] = @ \ {r}]
    /\ UNCHANGED <<redis, request, active, due, fails, polled, alive>>

(* EXPIRE acts on whatever key is there now; the answer is TRUE regardless.  *)
RenewFallbackExpire(w) ==
    /\ call[w].step = "fallback"
    /\ LET c == call[w]
           a == leased[c.req] IN
       /\ ttl' = IF c.ok /\ key[a] # None THEN [ttl EXCEPT ![a] = Ttl] ELSE ttl
       /\ call' = [call EXCEPT ![w] = Reply(c.req, c.ok)]
    /\ UNCHANGED <<key, request, active, due, fails, polled, pass, alive>>

(* Mutant: the renewed entry is put back without checking it is still registered.*)
RescheduleUnchecked(w) ==
    /\ call[w].step = "reply"
    /\ LET r == call[w].req IN
       IF call[w].ok
       THEN /\ due' = [due EXCEPT ![r] = RenewAfter]
            /\ fails' = [fails EXCEPT ![r] = 0]
            /\ active' = active \cup {r}
       ELSE UNCHANGED <<due, fails, active>>
    /\ call' = [call EXCEPT ![w] = NoCall]
    /\ UNCHANGED <<redis, request, polled, pass, alive>>

(* Back under the lock: reschedule the entry only if it is still registered. *)
Reschedule(w) ==
    /\ call[w].step = "reply"
    /\ LET r == call[w].req IN
       IF call[w].ok /\ r \in active
       THEN /\ due' = [due EXCEPT ![r] = RenewAfter]
            /\ fails' = [fails EXCEPT ![r] = 0]
       ELSE UNCHANGED <<due, fails>>
    /\ call' = [call EXCEPT ![w] = NoCall]
    /\ UNCHANGED <<redis, request, active, polled, pass, alive>>

-----------------------------------------------------------------------------
(* The environment                                                           *)

(* A process dies; its requests, its _active map and its thread with it.     *)
Crash(w) ==
    /\ w \in alive
    /\ alive' = alive \ {w}
    /\ pc' = [r \in Requests |-> IF WorkerOf[r] = w THEN "crashed" ELSE pc[r]]
    /\ active' = {r \in active : WorkerOf[r] # w}
    /\ left' = [r \in Requests |-> IF WorkerOf[r] = w THEN <<>> ELSE left[r]]
    /\ due' = [r \in Requests |-> IF WorkerOf[r] = w THEN 0 ELSE due[r]]
    /\ fails' = [r \in Requests |-> IF WorkerOf[r] = w THEN 0 ELSE fails[r]]
    /\ polled' = polled \ {w}
    /\ pass' = [pass EXCEPT ![w] = {}]
    /\ call' = [call EXCEPT ![w] = NoCall]
    /\ UNCHANGED <<redis, leased, matched>>

(* The renew threads kept up with the clock in this tick.                    *)
OnTime ==
    /\ \A w \in alive : w \in polled /\ pass[w] = {} /\ call[w] = NoCall
    /\ \A r \in Requests : pc[r] # "register"

Dec(n) == IF n > 0 THEN n - 1 ELSE 0

(* Five seconds pass; Redis drops the keys whose ttl ran out.                *)
Tick ==
    /\ OnTime \/ Stalls
    /\ ttl' = [a \in Accounts |-> IF key[a] = None THEN 0 ELSE Dec(ttl[a])]
    /\ key' = [a \in Accounts |-> IF ttl[a] <= 1 THEN None ELSE key[a]]
    /\ due' = [r \in Requests |-> Dec(due[r])]
    /\ polled' = {}
    /\ UNCHANGED <<request, active, fails, pass, call, alive>>

RequestStep(r) ==
    \/ Arrive(r) \/ CheckCooldown(r) \/ SetNxEx(r) \/ Degrade(r) \/ Register(r)
    \/ Release(r) \/ CompareAndDelete(r) \/ DeleteFails(r)
    \/ FallbackGet(r) \/ FallbackDelete(r)

RenewStep(w) ==
    \/ WakeRenewer(w) \/ Reschedule(w) \/ RenewFallbackExpire(w)
    \/ \E r \in Requests :
          RenewIfOwner(w, r) \/ RenewFails(w, r) \/ RenewFallbackGet(w, r)

Next ==
    \/ \E r \in Requests : RequestStep(r)
    \/ \E w \in Workers : RenewStep(w) \/ Crash(w)
    \/ Tick

(* Time passes and the renew threads run; the request path is only assumed   *)
(* to finish its own Redis calls, never to arrive or to release.             *)
Fairness ==
    /\ WF_vars(Tick)
    /\ \A w \in Workers : WF_vars(RenewStep(w))
    /\ \A r \in Requests : WF_vars(Register(r) \/ CompareAndDelete(r) \/ FallbackDelete(r))

Spec == Init /\ [][Next]_vars
FairSpec == Spec /\ Fairness

-----------------------------------------------------------------------------
(* Properties                                                                *)

(* r believes it has a reserved to itself.                                   *)
Reserved(r, a) == pc[r] \in {"register", "serving"} /\ leased[r] = a

Users == [a \in Accounts |-> {r \in Requests : Reserved(r, a)}]

(* The strengthening that makes the properties below inductive when          *)
(* processes keep up with the clock and EVAL works.                          *)
NoFallback ==
    /\ \A r \in Requests : pc[r] # "fallback"
    /\ \A w \in Workers : call[w].step # "fallback"

LeasedWhere ==
    \A r \in Requests :
       /\ pc[r] \in {"register", "delete"} => leased[r] \in Accounts
       /\ pc[r] \in {"idle", "check", "set"} => leased[r] = None
       /\ pc[r] \in {"check", "set", "register", "serving", "delete"} => WorkerOf[r] \in alive
       /\ r \in active <=> pc[r] = "serving" /\ leased[r] # None

(* The renew thread only handles due leases of its own live process.         *)
Handled(w, r) ==
    /\ WorkerOf[r] = w
    /\ leased[r] \in Accounts
    /\ pc[r] \in {"serving", "delete", "done"}

Own(w) ==
    /\ pass[w] # {} \/ call[w] # NoCall => w \in polled /\ w \in alive
    /\ \A r \in pass[w] : Handled(w, r) /\ call[w].req # r /\ (r \in active => due[r] = 0)
    /\ call[w] # NoCall => Handled(w, call[w].req)

RenewerOwn == \A w \in Workers : Own(w)

KeyOfReserved == \A r \in Requests, a \in Accounts : Reserved(r, a) => key[a] = r

(* Will the thread of r's process still renew r in this tick?                *)
Pending(r) ==
    LET w == WorkerOf[r] IN w \notin polled \/ r \in pass[w] \/ call[w].req = r

(* The life a key has left is worth the time to the renewal and all the      *)
(* renewals that may still fail.                                             *)
Life(r) ==
    LET t == ttl[leased[r]]
        c == call[WorkerOf[r]]
    IN /\ pc[r] = "register" => t = Ttl
       /\ r \in active =>
             /\ due[r] > 0 => t >= due[r] + Ttl - RenewAfter
             /\ due[r] = 0 /\ Pending(r) => t >= Ttl - RenewAfter - fails[r]
             /\ due[r] = 0 /\ ~Pending(r) => t >= Ttl - RenewAfter - fails[r] + 1
             /\ c.req = r => c.ok /\ t = Ttl

LifeLeft == \A r \in Requests : Life(r)

LeaseInv == NoFallback /\ LeasedWhere /\ RenewerOwn /\ KeyOfReserved /\ LifeLeft

(* As long as processes keep up with the clock and no more than MaxFails     *)
(* renewals of a lease fail in a row, a reserved account's key is still its  *)
(* request's: _renew_loop, the release order and the ttl never let it lapse  *)
(* under a request in flight.                                                *)
LeaseOutlivesRequest ==
    ~Stalls => \A r \in Requests, a \in Accounts : Reserved(r, a) => key[a] = r

(* Two requests never have the same account reserved at the same time,       *)
(* which is what reserve_chain is for.                                       *)
ExclusiveAccount ==
    ~Stalls => \A r, s \in Requests, a \in Accounts :
                  Reserved(r, a) /\ Reserved(s, a) => r = s

(* Even when leases lapse: a key disappears only through the delete of the   *)
(* request it belongs to or because its ttl ran out, so the release of a     *)
(* request that lost its lease never frees the account its successor holds.  *)
NoForeignDelete ==
    [][\A a \in Accounts :
          key[a] # None /\ key'[a] # key[a]
             => \/ pc[key[a]] \in {"delete", "fallback"} /\ leased[key[a]] = a
                \/ ttl[a] <= 1]_vars

(* A lease does not outlive its request: once the request is over, crashed   *)
(* or released with a failed delete, its key goes away, even when a renewal  *)
(* was under way at that moment (account_leases.py:115: "TTL remains the     *)
(* crash/runtime-error recovery boundary").                                  *)
AbandonedLeaseExpires ==
    \A r \in Requests, a \in Accounts :
        (key[a] = r /\ pc[r] \in {"done", "crashed"}) ~> (key[a] # r)

(* The leases implement the exclusion of AccountExclusion.                   *)
Exclusion == INSTANCE AccountExclusion WITH users <- Users
ExclusionSpec == Exclusion!Spec
=============================================================================
