---------------------------- MODULE Request_proofs ----------------------------
(* Proofs about Request and the four components it is made of, for any       *)
(* number of workers, requests, accounts and tool calls, any limit and any   *)
(* lease timing that satisfies TimingAssumption.                             *)
(*                                                                           *)
(* The leases come first.  Then what the three streams share: the tool calls *)
(* that are sent and counted, and the events on the wire.  For the wire the  *)
(* invariant looks ahead: Leads(p, c, w, d) says that the events w may be    *)
(* sent, in order, to the client c under the protocol p, and make it d.      *)
(* Every method of a stream is shown to add events that lead on from where   *)
(* the client will be; a send then takes the first of them, whatever it is.  *)
(* Then each stream has its invariant and a step for each action, and the    *)
(* last section puts the four together.                                      *)
EXTENDS Request, SequenceTheorems, FiniteSetTheorems, TLAPS

-----------------------------------------------------------------------------
(* Type correctness                                                          *)

(* A request that is scanning has a candidate to look at.                    *)
Scanning == \A r \in Requests : pc[r] \in {"check", "set"} => left[r] # <<>>

TypeInv == TypeOK /\ Scanning

LEMMA TypeInit == Init => TypeInv
BY SetsAssumption, TimingAssumption DEF Init, TypeInv, TypeOK, Scanning, PcSet, CallSet

LEMMA CallFacts ==
    ASSUME NEW c \in CallSet, c.step \in {"reply", "fallback"}
    PROVE  c.req \in Requests /\ c.ok \in BOOLEAN
BY DEF CallSet, NoCall

LEMMA CallTypes ==
    ASSUME NEW r \in Requests, NEW ok \in BOOLEAN
    PROVE  /\ Reply(r, ok) \in CallSet
           /\ [req |-> r, ok |-> ok, step |-> "fallback"] \in CallSet
           /\ NoCall \in CallSet
BY DEF Reply, CallSet

LEMMA TakeFreeType ==
    ASSUME TypeOK, NEW r \in Requests, NEW a, TakeFree(r, a)
    PROVE  /\ key' \in [Accounts -> Requests \cup {None}]
           /\ ttl' \in [Accounts -> 0 .. Ttl]
<1>1. Ttl \in 0 .. Ttl
  BY TimingAssumption
<1> QED BY <1>1 DEF TakeFree, TypeOK

LEMMA SkipBusyType ==
    ASSUME TypeInv, NEW r \in Requests, pc[r] \in {"check", "set"}, SkipBusy(r)
    PROVE  /\ left' \in [Requests -> Seq(Accounts)]
           /\ pc' \in [Requests -> PcSet]
           /\ Scanning'
<1>1. left[r] \in Seq(Accounts) /\ left[r] # <<>>
  BY DEF TypeInv, TypeOK, Scanning
<1>2. Tail(left[r]) \in Seq(Accounts) /\ (Len(left[r]) > 1 => Tail(left[r]) # <<>>)
  <2> DEFINE L == left[r]
             T == Tail(L)
  <2>1. T \in Seq(Accounts) /\ Len(T) = Len(L) - 1
    BY <1>1, HeadTailProperties
  <2>2. Len(T) > 0 => T # <<>>
    BY <2>1, EmptySeq
  <2>3. Len(L) \in Nat
    BY <1>1, LenProperties
  <2> HIDE DEF T
  <2>4. Len(L) > 1 => Len(T) > 0
    BY <2>1, <2>3
  <2> QED BY <2>1, <2>2, <2>4 DEF T
<1> QED BY <1>1, <1>2 DEF SkipBusy, TypeInv, TypeOK, Scanning, PcSet

LEMMA TypeStep == TypeInv /\ [Next]_vars => TypeInv'
<1> SUFFICES ASSUME TypeInv, [Next]_vars PROVE TypeInv'
  OBVIOUS
<1> USE SetsAssumption, TimingAssumption DEF TypeInv, TypeOK, Scanning, PcSet
<1>1. ASSUME NEW r \in Requests, Arrive(r) PROVE TypeInv'
  BY <1>1 DEF Arrive, redis, renewer
<1>2. ASSUME NEW r \in Requests, CheckCooldown(r) PROVE TypeInv'
  <2>1. CASE SkipBusy(r)
    <3> HIDE DEF PcSet, Scanning
    <3>1. pc[r] \in {"check", "set"}
      BY <1>2 DEF CheckCooldown
    <3> QED BY <1>2, <2>1, <3>1, SkipBusyType DEF CheckCooldown, redis, renewer
  <2>2. CASE pc' = [pc EXCEPT ![r] = "set"] /\ left' = left
    BY <1>2, <2>2 DEF CheckCooldown, redis, renewer
  <2> QED BY <1>2, <2>1, <2>2 DEF CheckCooldown
<1>3. ASSUME NEW r \in Requests, SetNxEx(r) PROVE TypeInv'
  <2>1. Candidate(r) \in Accounts
    BY <1>3, HeadTailProperties DEF SetNxEx, Candidate
  <2>2. CASE /\ TakeFree(r, Candidate(r))
             /\ leased' = [leased EXCEPT ![r] = Candidate(r)]
             /\ pc' = [pc EXCEPT ![r] = "register"]
             /\ left' = [left EXCEPT ![r] = <<>>]
    <3>1. key' \in [Accounts -> Requests \cup {None}] /\ ttl' \in [Accounts -> 0 .. Ttl]
      BY <2>2, TakeFreeType
    <3>2. leased' \in [Requests -> Accounts \cup {None}]
      BY <2>1, <2>2
    <3>3. left' \in [Requests -> Seq(Accounts)]
      BY <2>2
    <3>4. UNCHANGED <<matched, active, due, fails, polled, pass, call, alive>>
      BY <1>3 DEF SetNxEx, renewer
    <3>5. pc' \in [Requests -> PcSet] /\ Scanning'
      BY <2>2
    <3> QED BY <3>1, <3>2, <3>3, <3>4, <3>5
  <2>3. CASE SkipBusy(r) /\ UNCHANGED <<redis, leased>>
    <3> HIDE DEF PcSet, Scanning
    <3>1. pc[r] \in {"check", "set"}
      BY <1>3 DEF SetNxEx
    <3> QED BY <1>3, <2>3, <3>1, SkipBusyType DEF SetNxEx, redis, renewer
  <2> QED BY <1>3, <2>2, <2>3 DEF SetNxEx
<1>4. ASSUME NEW r \in Requests, Degrade(r) PROVE TypeInv'
  <2>1. key' \in [Accounts -> Requests \cup {None}] /\ ttl' \in [Accounts -> 0 .. Ttl]
    BY <1>4, TakeFreeType DEF Degrade, redis
  <2> QED BY <1>4, <2>1, SMTT(60) DEF Degrade, renewer
<1>5. ASSUME NEW r \in Requests, Register(r) PROVE TypeInv'
  BY <1>5 DEF Register, redis
<1>6. ASSUME NEW r \in Requests, Release(r) PROVE TypeInv'
  BY <1>6 DEF Release, redis
<1>7. ASSUME NEW r \in Requests, CompareAndDelete(r) PROVE TypeInv'
  BY <1>7 DEF CompareAndDelete, DeleteIfOwner, renewer
<1>8. ASSUME NEW r \in Requests, DeleteFails(r) PROVE TypeInv'
  BY <1>8 DEF DeleteFails, redis, renewer
<1>9. ASSUME NEW r \in Requests, FallbackGet(r) PROVE TypeInv'
  BY <1>9 DEF FallbackGet, redis, renewer
<1>10. ASSUME NEW r \in Requests, FallbackDelete(r) PROVE TypeInv'
  BY <1>10 DEF FallbackDelete, renewer
<1>11. ASSUME NEW w \in Workers, WakeRenewer(w) PROVE TypeInv'
  BY <1>11 DEF WakeRenewer, redis, request
<1>12. ASSUME NEW w \in Workers, NEW r \in Requests, RenewIfOwner(w, r) PROVE TypeInv'
  <2> DEFINE a == leased[r]
  <2>1. Ttl \in 0 .. Ttl
    OBVIOUS
  <2>2. ttl' \in [Accounts -> 0 .. Ttl]
    BY <1>12, <2>1 DEF RenewIfOwner
  <2>3. (key[a] = r) \in BOOLEAN
    OBVIOUS
  <2>4. Reply(r, key[a] = r) \in CallSet
    BY <2>3, CallTypes
  <2>5. call' \in [Workers -> CallSet] /\ pass' \in [Workers -> SUBSET Requests]
    BY <1>12, <2>4 DEF RenewIfOwner
  <2> QED BY <1>12, <2>2, <2>5 DEF RenewIfOwner, request
<1>13. ASSUME NEW w \in Workers, NEW r \in Requests, RenewFails(w, r) PROVE TypeInv'
  <2>1. fails' \in [Requests -> 0 .. MaxFails]
    BY <1>13 DEF RenewFails
  <2> QED BY <1>13, <2>1 DEF RenewFails, redis, request
<1>14. ASSUME NEW w \in Workers, NEW r \in Requests, RenewFallbackGet(w, r) PROVE TypeInv'
  BY <1>14 DEF RenewFallbackGet, CallSet, redis, request
<1>15. ASSUME NEW w \in Workers, RenewFallbackExpire(w) PROVE TypeInv'
  <2>1. call[w].req \in Requests /\ call[w].ok \in BOOLEAN
    BY <1>15, CallFacts DEF RenewFallbackExpire
  <2>2. Ttl \in 0 .. Ttl
    OBVIOUS
  <2>3. ttl' \in [Accounts -> 0 .. Ttl]
    BY <1>15, <2>2 DEF RenewFallbackExpire
  <2>4. Reply(call[w].req, call[w].ok) \in CallSet
    BY <2>1, CallTypes
  <2> QED BY <1>15, <2>3, <2>4 DEF RenewFallbackExpire, request
<1>16. ASSUME NEW w \in Workers, Reschedule(w) PROVE TypeInv'
  <2>1. call[w].req \in Requests /\ call[w].ok \in BOOLEAN
    BY <1>16, CallFacts DEF Reschedule
  <2>2. call' \in [Workers -> CallSet]
    BY <1>16, <2>1, CallTypes DEF Reschedule
  <2>3. due' \in [Requests -> 0 .. RenewAfter] /\ fails' \in [Requests -> 0 .. MaxFails]
    <3>1. RenewAfter \in 0 .. RenewAfter /\ 0 \in 0 .. MaxFails
      OBVIOUS
    <3>2. \/ due' = [due EXCEPT ![call[w].req] = RenewAfter]
          \/ due' = due
      BY <1>16 DEF Reschedule
    <3>3. \/ fails' = [fails EXCEPT ![call[w].req] = 0]
          \/ fails' = fails
      BY <1>16 DEF Reschedule
    <3> QED BY <3>1, <3>2, <3>3, SMTT(60)
  <2> QED BY <1>16, <2>2, <2>3 DEF Reschedule, redis, request
<1>17. ASSUME NEW w \in Workers, Crash(w) PROVE TypeInv'
  BY <1>17 DEF Crash, CallSet, redis
<1>18. ASSUME Tick PROVE TypeInv'
  BY <1>18 DEF Tick, Dec, request
<1>19. CASE UNCHANGED vars
  BY <1>19 DEF vars, redis, request, renewer
<1> QED
  BY <1>1, <1>2, <1>3, <1>4, <1>5, <1>6, <1>7, <1>8, <1>9, <1>10, <1>11, <1>12,
     <1>13, <1>14, <1>15, <1>16, <1>17, <1>18, <1>19
  DEF Next, RequestStep, RenewStep

(* Every variable keeps its type in every behaviour, whatever fails.         *)
THEOREM TypeCorrect == Spec => []TypeOK
<1>1. TypeInv => TypeOK
  BY DEF TypeInv
<1> QED BY <1>1, TypeInit, TypeStep, PTL DEF Spec

(* What a request has reserved, before it registers the lease and after.     *)
Reserves ==
    /\ Registered
    /\ \A r \in Requests :
          /\ pc[r] \in {"idle", "check", "set"} => leased[r] = None
          /\ pc[r] = "register" => leased[r] # None

LEMMA ReservesInit == Init => Reserves
  BY DEF Init, Reserves, Registered

LEMMA ReservesStep == TypeInv /\ Reserves /\ [Next]_vars => Reserves'
<1> SUFFICES ASSUME TypeInv, Reserves, [Next]_vars PROVE Reserves'
  OBVIOUS
<1> USE DEF TypeInv, TypeOK, Reserves, Registered
<1>1. ASSUME NEW r \in Requests, Arrive(r) \/ CheckCooldown(r) PROVE Reserves'
  BY <1>1 DEF Arrive, CheckCooldown, SkipBusy, renewer
<1>2. ASSUME NEW r \in Requests, SetNxEx(r) PROVE Reserves'
  <2>1. Candidate(r) \in Accounts /\ Candidate(r) # None
    BY <1>2, HeadTailProperties, SetsAssumption DEF SetNxEx, Candidate, Scanning
  <2>2. /\ pc[r] = "set"
        /\ \/ /\ leased' = [leased EXCEPT ![r] = Candidate(r)]
              /\ pc' = [pc EXCEPT ![r] = "register"]
           \/ leased' = leased /\ SkipBusy(r)
        /\ active' = active
    BY <1>2 DEF SetNxEx, redis, renewer
  <2>3. CASE /\ leased' = [leased EXCEPT ![r] = Candidate(r)]
             /\ pc' = [pc EXCEPT ![r] = "register"]
    BY <2>1, <2>2, <2>3
  <2>4. CASE leased' = leased /\ SkipBusy(r)
    BY <2>2, <2>4 DEF SkipBusy
  <2> QED BY <2>2, <2>3, <2>4
<1>3. ASSUME NEW r \in Requests, Degrade(r) PROVE Reserves'
  BY <1>3 DEF Degrade, renewer
<1>4. ASSUME NEW r \in Requests, Register(r) \/ Release(r) PROVE Reserves'
  BY <1>4 DEF Register, Release
<1>5. ASSUME NEW r \in Requests,
             CompareAndDelete(r) \/ DeleteFails(r) \/ FallbackGet(r) \/ FallbackDelete(r)
      PROVE  Reserves'
  BY <1>5 DEF CompareAndDelete, DeleteFails, FallbackGet, FallbackDelete, renewer
<1>6. ASSUME NEW w \in Workers,
             \/ WakeRenewer(w) \/ Reschedule(w) \/ RenewFallbackExpire(w)
             \/ \E r \in Requests : RenewIfOwner(w, r) \/ RenewFails(w, r) \/ RenewFallbackGet(w, r)
      PROVE  Reserves'
  <2>1. UNCHANGED <<pc, leased, active>>
    BY <1>6 DEF WakeRenewer, Reschedule, RenewFallbackExpire, RenewIfOwner, RenewFails,
       RenewFallbackGet, request
  <2> QED BY <2>1
<1>7. ASSUME NEW w \in Workers, Crash(w) PROVE Reserves'
  BY <1>7 DEF Crash
<1>8. CASE Tick \/ UNCHANGED vars
  BY <1>8 DEF Tick, vars, request, renewer
<1> QED BY <1>1, <1>2, <1>3, <1>4, <1>5, <1>6, <1>7, <1>8 DEF Next, RequestStep, RenewStep

(* The renew thread of a process renews just the leases that its requests    *)
(* stream on: a renewal that comes back after the release does not put the   *)
(* lease back.                                                               *)
THEOREM RenewsWhatIsServed == Spec => []Registered
<1>1. TypeInv /\ Reserves => Registered
  BY DEF Reserves
<1>2. Init => TypeInv /\ Reserves
  BY TypeInit, ReservesInit
<1>3. (TypeInv /\ Reserves) /\ [Next]_vars => (TypeInv /\ Reserves)'
  BY TypeStep, ReservesStep
<1> QED BY <1>1, <1>2, <1>3, PTL DEF Spec

-----------------------------------------------------------------------------
(* Exclusion, when processes keep up with the clock and EVAL works           *)

LEMMA LeaseInit == Init => LeaseInv
BY SetsAssumption DEF Init, LeaseInv, NoFallback, LeasedWhere, RenewerOwn, Own, Handled,
   KeyOfReserved, LifeLeft, Life, Reserved, NoCall

(* The renew threads know nothing of a request that has not registered.      *)
LEMMA Unhandled ==
    ASSUME TypeInv, RenewerOwn, NEW r \in Requests,
           pc[r] \in {"idle", "check", "set", "register"}
    PROVE  \A w \in Workers : r \notin pass[w] /\ call[w].req # r
<1> SUFFICES ASSUME NEW w \in Workers PROVE r \notin pass[w] /\ call[w].req # r
  OBVIOUS
<1>1. r \notin pass[w]
  BY DEF RenewerOwn, Own, Handled
<1>2. call[w] = NoCall => call[w].req # r
  BY SetsAssumption DEF NoCall
<1>3. call[w] # NoCall => call[w].req # r
  BY DEF RenewerOwn, Own, Handled
<1> QED BY <1>1, <1>2, <1>3

(* A step of a request its renew thread does not know leaves RenewerOwn.     *)
LEMMA OwnFrame ==
    ASSUME TypeInv, RenewerOwn, NEW r \in Requests,
           \A w \in Workers : r \notin pass[w] /\ call[w].req # r,
           UNCHANGED <<polled, pass, call, alive>>,
           \A s \in Requests : s # r =>
               /\ pc'[s] = pc[s] /\ leased'[s] = leased[s] /\ due'[s] = due[s]
               /\ s \in active' => s \in active
    PROVE  RenewerOwn'
<1> SUFFICES ASSUME NEW w \in Workers PROVE Own(w)'
  BY DEF RenewerOwn
<1>0. Own(w) /\ r \notin pass[w] /\ call[w].req # r /\ pass[w] \subseteq Requests
  BY DEF RenewerOwn, TypeInv, TypeOK
<1>1. call[w] # NoCall => call[w].req \in Requests
  BY DEF TypeInv, TypeOK, CallSet
<1>2. \A s \in pass[w] : Handled(w, s)' /\ call'[w].req # s /\ (s \in active' => due'[s] = 0)
  BY <1>0 DEF Own, Handled
<1>3. call[w] # NoCall => Handled(w, call[w].req)'
  BY <1>0, <1>1 DEF Own, Handled
<1> QED BY <1>0, <1>2, <1>3 DEF Own

(* Life(s) depends only on what belongs to s.                                *)
LEMMA LifeFrame ==
    ASSUME NEW s \in Requests, Life(s),
           UNCHANGED <<polled, pass, call>>,
           pc'[s] = pc[s], leased'[s] = leased[s], due'[s] = due[s], fails'[s] = fails[s],
           s \in active' => s \in active,
           pc[s] = "register" \/ s \in active => ttl'[leased[s]] = ttl[leased[s]]
    PROVE  Life(s)'
BY DEF Life, Pending

(* Nobody else has the account of a free or foreign key reserved.            *)
LEMMA OthersKey ==
    ASSUME KeyOfReserved, LeasedWhere, NEW s \in Requests, leased[s] \in Accounts,
           pc[s] = "register" \/ s \in active
    PROVE  key[leased[s]] = s
BY DEF KeyOfReserved, LeasedWhere, Reserved

(* A request that holds nothing moves on without touching Redis.             *)
LEMMA QuietStep ==
    ASSUME TypeInv, LeaseInv, NEW r \in Requests,
           pc[r] \in {"idle", "check", "set"},
           pc'[r] \in {"check", "set", "serving", "refused"},
           WorkerOf[r] \in alive,
           \A s \in Requests : s # r => pc'[s] = pc[s],
           UNCHANGED <<leased, active, due, fails, polled, pass, call, alive>>,
           \A a \in Accounts : key[a] # None => key'[a] = key[a] /\ ttl'[a] = ttl[a]
    PROVE  LeaseInv'
<1>1. leased[r] = None /\ r \notin active
  BY DEF LeaseInv, LeasedWhere
<1>2. \A w \in Workers : r \notin pass[w] /\ call[w].req # r
  BY Unhandled DEF LeaseInv
<1>3. NoFallback'
  BY DEF LeaseInv, NoFallback
<1>4. LeasedWhere'
  BY <1>1 DEF LeaseInv, LeasedWhere
<1>5. RenewerOwn'
  BY <1>2, OwnFrame DEF LeaseInv
<1>6. KeyOfReserved'
  BY <1>1, SetsAssumption DEF LeaseInv, KeyOfReserved, Reserved
<1>7. LifeLeft'
  <2> SUFFICES ASSUME NEW s \in Requests PROVE Life(s)'
    BY DEF LifeLeft
  <2>1. CASE s = r
    BY <1>1, <2>1 DEF Life
  <2>2. CASE s # r
    <3>1. pc[s] = "register" \/ s \in active => leased[s] \in Accounts
      BY DEF LeaseInv, LeasedWhere, TypeInv, TypeOK
    <3>2. pc[s] = "register" \/ s \in active => key[leased[s]] = s
      BY <3>1, OthersKey DEF LeaseInv
    <3> QED BY <2>2, <3>1, <3>2, LifeFrame, SetsAssumption DEF LeaseInv, LifeLeft
  <2> QED BY <2>1, <2>2
<1> QED BY <1>3, <1>4, <1>5, <1>6, <1>7 DEF LeaseInv

LEMMA ReserveStep ==
    ASSUME TypeInv, LeaseInv, NEW r \in Requests, SetNxEx(r)
    PROVE  LeaseInv'
<1> DEFINE a == Candidate(r)
<1>1. pc[r] = "set" /\ leased[r] = None /\ r \notin active /\ a \in Accounts
  BY HeadTailProperties DEF SetNxEx, Candidate, Scanning, TypeInv, TypeOK, LeaseInv, LeasedWhere
<1>2. UNCHANGED <<active, due, fails, polled, pass, call, alive>>
  BY DEF SetNxEx, renewer
<1>3. \A w \in Workers : r \notin pass[w] /\ call[w].req # r
  BY <1>1, Unhandled DEF LeaseInv
<1>4. CASE /\ TakeFree(r, a)
           /\ leased' = [leased EXCEPT ![r] = a]
           /\ pc' = [pc EXCEPT ![r] = "register"]
  <2> HIDE DEF a
  <2>1. \A s \in Requests : s # r => pc'[s] = pc[s] /\ leased'[s] = leased[s]
    BY <1>4 DEF TypeInv, TypeOK
  <2>2. /\ pc'[r] = "register" /\ leased'[r] = a
        /\ key[a] = None /\ key'[a] = r /\ ttl'[a] = Ttl
    BY <1>1, <1>4 DEF TakeFree, TypeInv, TypeOK
  <2>3. \A b \in Accounts : b # a => key'[b] = key[b] /\ ttl'[b] = ttl[b]
    BY <1>4 DEF TakeFree, TypeInv, TypeOK
  <2>4. NoFallback'
    BY <1>2, <2>1, <2>2 DEF LeaseInv, NoFallback
  <2>5. LeasedWhere'
    BY <1>1, <1>2, <2>1, <2>2 DEF LeaseInv, LeasedWhere
  <2>6. RenewerOwn'
    BY <1>2, <1>3, <2>1, OwnFrame DEF LeaseInv
  <2>7. KeyOfReserved'
    BY <1>1, <2>1, <2>2, <2>3, SetsAssumption DEF LeaseInv, KeyOfReserved, Reserved
  <2>8. LifeLeft'
    <3> SUFFICES ASSUME NEW s \in Requests PROVE Life(s)'
      BY DEF LifeLeft
    <3>1. CASE s = r
      BY <1>1, <1>2, <2>2, <3>1 DEF Life
    <3>2. CASE s # r
      <4>1. pc[s] = "register" \/ s \in active => leased[s] \in Accounts /\ leased[s] # a
        BY <2>2, OthersKey, SetsAssumption DEF LeaseInv, LeasedWhere, TypeInv, TypeOK
      <4> QED BY <1>2, <2>1, <2>3, <3>2, <4>1, LifeFrame DEF LeaseInv, LifeLeft
    <3> QED BY <3>1, <3>2
  <2> QED BY <2>4, <2>5, <2>6, <2>7, <2>8 DEF LeaseInv
<1>5. CASE SkipBusy(r) /\ UNCHANGED <<redis, leased>>
  <2>1. /\ \A s \in Requests : s # r => pc'[s] = pc[s]
        /\ pc'[r] \in {"check", "refused"}
    BY <1>5 DEF SkipBusy, TypeInv, TypeOK
  <2>2. WorkerOf[r] \in alive
    BY <1>1 DEF LeaseInv, LeasedWhere
  <2>3. UNCHANGED <<key, ttl, leased>>
    BY <1>5 DEF redis
  <2> HIDE DEF a
  <2> QED BY <1>1, <1>2, <2>1, <2>2, <2>3, QuietStep
<1> QED BY <1>4, <1>5 DEF SetNxEx

LEMMA LeaseStep ==
    ASSUME ~Stalls, ~EvalMayFail, TypeInv, LeaseInv, [Next]_vars
    PROVE  LeaseInv'
<1>1. ASSUME NEW r \in Requests, Arrive(r) PROVE LeaseInv'
  <2>1. /\ pc[r] = "idle" /\ pc'[r] = "check" /\ WorkerOf[r] \in alive
        /\ \A s \in Requests : s # r => pc'[s] = pc[s]
        /\ UNCHANGED <<key, ttl, leased, renewer, alive>>
    BY <1>1 DEF Arrive, redis, TypeInv, TypeOK
  <2> QED BY <2>1, QuietStep DEF renewer
<1>2. ASSUME NEW r \in Requests, CheckCooldown(r) PROVE LeaseInv'
  <2>1. /\ pc[r] = "check" /\ pc'[r] \in {"check", "set", "refused"}
        /\ \A s \in Requests : s # r => pc'[s] = pc[s]
        /\ UNCHANGED <<key, ttl, leased, renewer, alive>>
    BY <1>2 DEF CheckCooldown, SkipBusy, redis, TypeInv, TypeOK
  <2>2. WorkerOf[r] \in alive
    BY <2>1 DEF LeaseInv, LeasedWhere
  <2> QED BY <2>1, <2>2, QuietStep DEF renewer
<1>3. ASSUME NEW r \in Requests, SetNxEx(r) PROVE LeaseInv'
  BY <1>3, ReserveStep
<1>4. ASSUME NEW r \in Requests, Degrade(r) PROVE LeaseInv'
  <2>1. /\ pc[r] \in {"check", "set"} /\ pc'[r] = "serving"
        /\ \A s \in Requests : s # r => pc'[s] = pc[s]
        /\ UNCHANGED <<leased, renewer, alive>>
    BY <1>4 DEF Degrade, TypeInv, TypeOK
  <2>2. \A a \in Accounts : key[a] # None => key'[a] = key[a] /\ ttl'[a] = ttl[a]
    BY <1>4 DEF Degrade, TakeFree, redis, TypeInv, TypeOK
  <2>3. WorkerOf[r] \in alive
    BY <2>1 DEF LeaseInv, LeasedWhere
  <2> QED BY <2>1, <2>2, <2>3, QuietStep DEF renewer
<1> USE SetsAssumption, TimingAssumption
    DEF TypeInv, TypeOK, LeaseInv, NoFallback, LeasedWhere, RenewerOwn, KeyOfReserved,
        Own, Handled, LifeLeft, Life, Reserved, Pending
<1>5. ASSUME NEW r \in Requests, Register(r) PROVE LeaseInv'
  <2>1. NoFallback' /\ LeasedWhere' /\ KeyOfReserved'
    BY <1>5 DEF Register, redis
  <2>2. \A w \in Workers : r \notin pass[w] /\ call[w].req # r
    BY <1>5, Unhandled DEF Register
  <2>3. RenewerOwn'
    BY <1>5, <2>2 DEF Register, redis
  <2>4. LifeLeft'
    <3> SUFFICES ASSUME NEW s \in Requests PROVE Life(s)'
      OBVIOUS
    <3>1. CASE s = r
      BY <1>5, <2>2, <3>1 DEF Register, redis
    <3>2. CASE s # r
      BY <1>5, <3>2 DEF Register, redis
    <3> QED BY <3>1, <3>2
  <2> QED BY <2>1, <2>3, <2>4
<1>6. ASSUME NEW r \in Requests, Release(r) PROVE LeaseInv'
  BY <1>6 DEF Release, redis
<1>7. ASSUME NEW r \in Requests, CompareAndDelete(r) PROVE LeaseInv'
  BY <1>7 DEF CompareAndDelete, DeleteIfOwner, renewer
<1>8. ASSUME NEW r \in Requests, DeleteFails(r) PROVE LeaseInv'
  BY <1>8 DEF DeleteFails, redis, renewer
<1>9. ASSUME NEW r \in Requests, FallbackGet(r) PROVE LeaseInv'
  BY <1>9 DEF FallbackGet
<1>10. ASSUME NEW r \in Requests, FallbackDelete(r) PROVE LeaseInv'
  BY <1>10 DEF FallbackDelete
<1>11. ASSUME NEW w \in Workers, WakeRenewer(w) PROVE LeaseInv'
  BY <1>11 DEF WakeRenewer, redis, request, NoCall
<1>12. ASSUME NEW w \in Workers, NEW r \in Requests, RenewIfOwner(w, r) PROVE LeaseInv'
  <2> DEFINE ok == (key[leased[r]] = r)
  <2>1. NoFallback' /\ LeasedWhere' /\ KeyOfReserved'
    BY <1>12 DEF RenewIfOwner, Reply, NoCall, request
  <2>2. /\ call[w] = NoCall /\ call' = [call EXCEPT ![w] = Reply(r, ok)]
        /\ pass' = [pass EXCEPT ![w] = @ \ {r}] /\ r \in pass[w]
        /\ UNCHANGED <<key, pc, leased, active, due, fails, polled, alive>>
    BY <1>12 DEF RenewIfOwner, request
  <2>3. Handled(w, r) /\ w \in polled /\ w \in alive /\ (r \in active => due[r] = 0)
    BY <2>2
  <2>4. RenewerOwn'
    <3> SUFFICES ASSUME NEW v \in Workers PROVE Own(v)'
      OBVIOUS
    <3>1. CASE v = w
      BY <2>2, <2>3, <3>1 DEF Reply
    <3>2. CASE v # w
      BY <2>2, <3>2
    <3> QED BY <3>1, <3>2
  <2>5. LifeLeft'
    <3> SUFFICES ASSUME NEW s \in Requests PROVE Life(s)'
      OBVIOUS
    <3>1. CASE s = r /\ r \in active
      <4>1. leased[r] \in Accounts /\ ok
        BY <2>3, <3>1, OthersKey
      <4>2. ttl'[leased[r]] = Ttl
        BY <1>12, <4>1 DEF RenewIfOwner
      <4>3. call'[WorkerOf[r]] = Reply(r, TRUE)
        BY <2>2, <2>3, <4>1
      <4> QED BY <2>2, <2>3, <3>1, <4>2, <4>3 DEF Reply
    <3>2. CASE s = r /\ r \notin active
      BY <2>2, <2>3, <3>2
    <3>3. CASE s # r
      <4>1. pc[s] = "register" \/ s \in active
               => ttl'[leased[s]] = ttl[leased[s]] /\ leased[s] \in Accounts
        <5>1. pc[s] = "register" \/ s \in active => leased[s] \in Accounts
          BY DEF LeasedWhere
        <5>2. pc[s] = "register" \/ s \in active => key[leased[s]] = s
          BY <5>1, OthersKey
        <5> QED BY <1>12, <3>3, <5>1, <5>2 DEF RenewIfOwner
      <4>2. /\ Pending(s)' <=> Pending(s)
            /\ call'[WorkerOf[s]].req = s => call'[WorkerOf[s]] = call[WorkerOf[s]]
        BY <2>2, <3>3 DEF Reply, NoCall
      <4> HIDE DEF Pending
      <4> QED BY <2>2, <4>1, <4>2, SMTT(60)
    <3> QED BY <3>1, <3>2, <3>3
  <2> QED BY <2>1, <2>4, <2>5
<1>13. ASSUME NEW w \in Workers, NEW r \in Requests, RenewFails(w, r) PROVE LeaseInv'
  BY <1>13, SMTT(60) DEF RenewFails, redis, request, NoCall
<1>14. ASSUME NEW w \in Workers, NEW r \in Requests, RenewFallbackGet(w, r) PROVE LeaseInv'
  BY <1>14 DEF RenewFallbackGet
<1>15. ASSUME NEW w \in Workers, RenewFallbackExpire(w) PROVE LeaseInv'
  BY <1>15 DEF RenewFallbackExpire
<1>16. ASSUME NEW w \in Workers, Reschedule(w) PROVE LeaseInv'
  <2> DEFINE r == call[w].req
  <2>1. NoFallback' /\ LeasedWhere' /\ KeyOfReserved'
    BY <1>16 DEF Reschedule, redis, request, NoCall
  <2>2. r \in Requests /\ call[w] # NoCall
    BY <1>16, CallFacts DEF Reschedule, NoCall
  <2>3. WorkerOf[r] = w /\ Handled(w, r)
    BY <2>2
  <2>4. /\ call' = [call EXCEPT ![w] = NoCall]
        /\ UNCHANGED <<key, ttl, pc, leased, active, polled, pass, alive>>
        /\ due' = IF call[w].ok /\ r \in active THEN [due EXCEPT ![r] = RenewAfter] ELSE due
        /\ fails' = IF call[w].ok /\ r \in active THEN [fails EXCEPT ![r] = 0] ELSE fails
    BY <1>16 DEF Reschedule, redis, request
  <2>5. \A s \in Requests : s # r => due'[s] = due[s] /\ fails'[s] = fails[s]
    BY <2>2, <2>4
  <2> HIDE DEF r
  <2>6. RenewerOwn'
    <3> SUFFICES ASSUME NEW v \in Workers PROVE Own(v)'
      OBVIOUS
    <3>1. \A s \in pass[v] : s # r /\ due'[s] = due[s]
      BY <2>2, <2>3, <2>5 DEF r
    <3>2. CASE v = w
      BY <2>4, <3>1, <3>2, SetsAssumption DEF NoCall
    <3>3. CASE v # w
      BY <2>4, <3>1, <3>3
    <3> QED BY <3>2, <3>3
  <2>7. LifeLeft'
    <3> SUFFICES ASSUME NEW s \in Requests PROVE Life(s)'
      OBVIOUS
    <3>1. CASE s = r /\ r \in active
      <4>1. call[w].ok /\ ttl[leased[r]] = Ttl
        BY <2>2, <2>3, <3>1 DEF r
      <4>2. due'[r] = RenewAfter /\ pc[r] = "serving"
        BY <2>2, <2>4, <3>1, <4>1
      <4>3. call'[WorkerOf[r]].req # r
        BY <2>2, <2>3, <2>4 DEF NoCall
      <4> QED BY <2>4, <3>1, <4>1, <4>2, <4>3
    <3>2. CASE s = r /\ r \notin active
      BY <2>3, <2>4, <3>2
    <3>3. CASE s # r
      <4>1. /\ Pending(s)' <=> Pending(s)
            /\ call'[WorkerOf[s]].req = s => call'[WorkerOf[s]] = call[WorkerOf[s]]
        BY <2>4, <3>3 DEF NoCall, r
      <4> HIDE DEF Pending
      <4> QED BY <2>4, <2>5, <3>3, <4>1
    <3> QED BY <3>1, <3>2, <3>3
  <2> QED BY <2>1, <2>6, <2>7
<1>17. ASSUME NEW w \in Workers, Crash(w) PROVE LeaseInv'
  <2>1. NoFallback' /\ LeasedWhere' /\ KeyOfReserved'
    BY <1>17 DEF Crash, redis, NoCall
  <2>2. RenewerOwn'
    <3> SUFFICES ASSUME NEW v \in Workers PROVE Own(v)'
      OBVIOUS
    <3>1. CASE v = w
      BY <1>17, <3>1 DEF Crash, NoCall
    <3>2. CASE v # w
      <4>1. /\ pass'[v] = pass[v] /\ call'[v] = call[v] /\ UNCHANGED leased
            /\ v \in polled => v \in polled'
            /\ v \in alive => v \in alive'
        BY <1>17, <3>2 DEF Crash
      <4>2. \A s \in Requests : WorkerOf[s] = v =>
               pc'[s] = pc[s] /\ due'[s] = due[s] /\ (s \in active' => s \in active)
        BY <1>17, <3>2 DEF Crash
      <4>3. call[v] # NoCall => call[v].req \in Requests
        BY DEF CallSet
      <4> QED BY <4>1, <4>2, <4>3
    <3> QED BY <3>1, <3>2
  <2>3. LifeLeft'
    BY <1>17 DEF Crash, redis, NoCall
  <2> QED BY <2>1, <2>2, <2>3
<1>18. ASSUME Tick PROVE LeaseInv'
  <2>1. /\ \A w \in alive : w \in polled /\ pass[w] = {} /\ call[w] = NoCall
        /\ \A s \in Requests : pc[s] # "register"
        /\ \A a \in Accounts : key[a] # None => ttl'[a] = Dec(ttl[a])
        /\ polled' = {} /\ \A s \in Requests : due'[s] = Dec(due[s])
        /\ UNCHANGED <<pc, leased, active, fails, pass, call, alive>>
    BY <1>18 DEF Tick, OnTime, request
  <2>2. NoFallback' /\ LeasedWhere'
    BY <1>18 DEF Tick, OnTime, Dec, request, NoCall
  <2>5. RenewerOwn'
    BY <2>1 DEF NoCall
  <2>3. LifeLeft'
    <3> SUFFICES ASSUME NEW s \in Requests, s \in active PROVE Life(s)'
      BY <2>1
    <3> DEFINE t == ttl[leased[s]]
    <3>1. /\ leased[s] \in Accounts /\ key[leased[s]] = s /\ s # None
          /\ WorkerOf[s] \in alive
      BY OthersKey
    <3>2. ~Pending(s) /\ call[WorkerOf[s]].req # s /\ Pending(s)'
      BY <2>1, <3>1 DEF NoCall
    <3>3. ttl'[leased[s]] = Dec(t)
      BY <2>1, <3>1
    <3>4. /\ due[s] > 0 => t >= due[s] + Ttl - RenewAfter
          /\ due[s] = 0 => t >= Ttl - RenewAfter - fails[s] + 1
      BY <3>2
    <3>5. t \in Nat /\ due[s] \in Nat /\ fails[s] \in Nat
      BY <3>1
    <3> QED
      <4> HIDE DEF t, Pending
      <4> QED BY <2>1, <3>2, <3>3, <3>4, <3>5, SMTT(60) DEF Dec
  <2>4. KeyOfReserved'
    <3> SUFFICES ASSUME NEW s \in Requests, NEW a \in Accounts, Reserved(s, a)'
                 PROVE  key'[a] = s
      BY DEF KeyOfReserved
    <3>0. s \in active /\ leased[s] = a
      BY <2>1, SetsAssumption
    <3> DEFINE t == ttl[leased[s]]
    <3>1. key[leased[s]] = s /\ WorkerOf[s] \in alive
      BY <3>0, OthersKey
    <3>2. ~Pending(s)
      BY <2>1, <3>1, SetsAssumption DEF NoCall
    <3>3. /\ due[s] > 0 => t >= due[s] + Ttl - RenewAfter
          /\ due[s] = 0 => t >= Ttl - RenewAfter - fails[s] + 1
      BY <3>0, <3>2
    <3>4. t \in Nat /\ due[s] \in Nat /\ fails[s] \in 0 .. MaxFails
      BY <3>0
    <3>5. t > 1
      <4> HIDE DEF t, Pending
      <4> QED BY <3>3, <3>4
    <3> QED BY <1>18, <3>0, <3>1, <3>5 DEF Tick
  <2> QED BY <2>2, <2>5, <2>3, <2>4
<1>19. CASE UNCHANGED vars
  BY <1>19 DEF vars, redis, request, renewer
<1> QED
  BY <1>1, <1>2, <1>3, <1>4, <1>5, <1>6, <1>7, <1>8, <1>9, <1>10, <1>11, <1>12,
     <1>13, <1>14, <1>15, <1>16, <1>17, <1>18, <1>19
  DEF Next, RequestStep, RenewStep

LEMMA LeaseInductive ==
    ASSUME ~Stalls, ~EvalMayFail
    PROVE  Spec => [](TypeInv /\ LeaseInv)
<1>1. Init => TypeInv /\ LeaseInv
  BY TypeInit, LeaseInit
<1>2. TypeInv /\ LeaseInv /\ [Next]_vars => (TypeInv /\ LeaseInv)'
  BY TypeStep, LeaseStep
<1> QED BY <1>1, <1>2, PTL DEF Spec

(* A reserved account's key belongs to the request in flight for as long as  *)
(* it is reserved.                                                           *)
THEOREM LeaseHeld ==
    ASSUME ~Stalls, ~EvalMayFail
    PROVE  Spec => []LeaseOutlivesRequest
<1>1. LeaseInv => LeaseOutlivesRequest
  BY DEF LeaseInv, KeyOfReserved, LeaseOutlivesRequest
<1> QED BY <1>1, LeaseInductive, PTL

(* No two requests, of the same process or of two, reserve one account.      *)
THEOREM Exclusive ==
    ASSUME ~Stalls, ~EvalMayFail
    PROVE  Spec => []ExclusiveAccount
<1>1. LeaseInv => ExclusiveAccount
  BY DEF LeaseInv, KeyOfReserved, ExclusiveAccount
<1> QED BY <1>1, LeaseInductive, PTL

(* Without the two-command fallback nothing but its owner or its ttl ends a  *)
(* lease, even when processes stall and leases lapse.                        *)
THEOREM OwnerEndsLease ==
    ASSUME ~EvalMayFail
    PROVE  Spec => NoForeignDelete
<1> DEFINE NoReleaseFallback == \A r \in Requests : pc[r] # "fallback"
           I == TypeInv /\ NoReleaseFallback
<1>1. Init => I
  BY TypeInit DEF Init
<1>2. I /\ [Next]_vars => I'
  <2> SUFFICES ASSUME I, [Next]_vars PROVE NoReleaseFallback'
    BY TypeStep
  <2> USE DEF TypeInv, TypeOK
  <2>1. ASSUME NEW r \in Requests, RequestStep(r) PROVE NoReleaseFallback'
    BY <2>1 DEF RequestStep, Arrive, CheckCooldown, SkipBusy, SetNxEx, Degrade, Register,
       Release, CompareAndDelete, DeleteFails, FallbackGet, FallbackDelete
  <2>2. ASSUME NEW w \in Workers, RenewStep(w) PROVE UNCHANGED pc
    BY <2>2 DEF RenewStep, WakeRenewer, Reschedule, RenewFallbackExpire, RenewIfOwner,
       RenewFails, RenewFallbackGet, request
  <2>3. ASSUME NEW w \in Workers, Crash(w) PROVE NoReleaseFallback'
    BY <2>3 DEF Crash
  <2>4. ASSUME Tick PROVE UNCHANGED pc
    BY <2>4 DEF Tick, request
  <2> QED BY <2>1, <2>2, <2>3, <2>4 DEF Next, vars, request
<1>3. ASSUME I, [Next]_vars, NEW a \in Accounts, key[a] # None, key'[a] # key[a]
      PROVE  \/ pc[key[a]] \in {"delete", "fallback"} /\ leased[key[a]] = a
             \/ ttl[a] <= 1
  <2> USE <1>3 DEF TypeInv, TypeOK
  <2>1. ASSUME NEW r \in Requests, RequestStep(r)
        PROVE  pc[key[a]] = "delete" /\ leased[key[a]] = a
    <3>1. CASE CompareAndDelete(r)
      BY <3>1 DEF CompareAndDelete, DeleteIfOwner
    <3>2. CASE \/ Arrive(r) \/ CheckCooldown(r) \/ Register(r) \/ Release(r)
               \/ DeleteFails(r) \/ FallbackGet(r) \/ FallbackDelete(r)
      BY <3>2 DEF Arrive, CheckCooldown, Register, Release, DeleteFails, FallbackGet,
         FallbackDelete, redis
    <3>3. CASE SetNxEx(r) \/ Degrade(r)
      BY <3>3 DEF SetNxEx, Degrade, TakeFree, redis
    <3> QED BY <2>1, <3>1, <3>2, <3>3 DEF RequestStep
  <2>2. ASSUME NEW w \in Workers, RenewStep(w) \/ Crash(w) PROVE UNCHANGED key
    BY <2>2 DEF RenewStep, WakeRenewer, Reschedule, RenewFallbackExpire, RenewIfOwner,
       RenewFails, RenewFallbackGet, Crash, redis
  <2>3. ASSUME Tick PROVE ttl[a] <= 1
    BY <2>3 DEF Tick
  <2> QED BY <2>1, <2>2, <2>3 DEF Next, vars, redis
<1>4. I /\ [Next]_vars =>
        [\A a \in Accounts :
            key[a] # None /\ key'[a] # key[a]
               => \/ pc[key[a]] \in {"delete", "fallback"} /\ leased[key[a]] = a
                  \/ ttl[a] <= 1]_vars
  BY <1>3
<1> QED BY <1>1, <1>2, <1>4, PTL DEF Spec, NoForeignDelete

-----------------------------------------------------------------------------
(* Refinement                                                                *)

LEMMA UsersStep ==
    ASSUME ~Stalls, ~EvalMayFail, TypeInv, LeaseInv, [Next]_vars
    PROVE  [Exclusion!Next]_Users
<1> USE DEF TypeInv, TypeOK, LeaseInv, Users
<1>1. ASSUME NEW R \in SUBSET Requests, leased' = leased,
             \A s \in Requests : leased[s] \in Accounts =>
                (pc'[s] \in {"register", "serving"}
                   <=> pc[s] \in {"register", "serving"} /\ s \notin R)
      PROVE  Exclusion!Next
  <2>1. ASSUME NEW a \in Accounts
        PROVE  {s \in Requests : Reserved(s, a)'} = {s \in Requests : Reserved(s, a)} \ R
    BY <1>1 DEF Reserved
  <2>2. Users' = [a \in Accounts |-> Users[a] \ R]
    BY <2>1
  <2> HIDE DEF Users
  <2> QED BY <2>2 DEF Exclusion!Next, Exclusion!GiveBack
<1>2. ASSUME NEW r \in Requests, SetNxEx(r) PROVE Exclusion!Next
  <2> DEFINE a == Candidate(r)
  <2>1. leased[r] = None /\ pc[r] = "set" /\ a \in Accounts
    BY <1>2, HeadTailProperties DEF SetNxEx, Candidate, Scanning, LeasedWhere
  <2>2. CASE /\ TakeFree(r, a)
             /\ leased' = [leased EXCEPT ![r] = a]
             /\ pc' = [pc EXCEPT ![r] = "register"]
    <3> HIDE DEF a
    <3>1. Users[a] = {}
      BY <2>1, <2>2, SetsAssumption DEF TakeFree, KeyOfReserved
    <3>2. ASSUME NEW b \in Accounts
          PROVE  {s \in Requests : Reserved(s, b)'}
                   = IF b = a THEN {r} ELSE {s \in Requests : Reserved(s, b)}
      <4>1. {s \in Requests : Reserved(s, a)} = {}
        BY <2>1, <3>1
      <4>2. \A s \in Requests : s # r => (Reserved(s, b)' <=> Reserved(s, b))
        BY <2>2 DEF Reserved
      <4>3. (Reserved(r, b)' <=> b = a) /\ ~Reserved(r, b)
        BY <2>1, <2>2, SetsAssumption DEF Reserved
      <4> QED BY <4>1, <4>2, <4>3
    <3>3. Users' = [Users EXCEPT ![a] = {r}]
      BY <3>2
    <3> HIDE DEF Users
    <3> QED BY <2>1, <3>1, <3>3 DEF Exclusion!Next, Exclusion!Reserve
  <2>3. CASE SkipBusy(r) /\ UNCHANGED <<redis, leased>>
    <3>1. \A s \in Requests : leased[s] \in Accounts => pc'[s] = pc[s]
      BY <2>1, <2>3, SetsAssumption DEF SkipBusy
    <3> QED BY <1>1, <2>3, <3>1, {} \in SUBSET Requests
  <2> QED BY <1>2, <2>2, <2>3 DEF SetNxEx
<1>3. ASSUME NEW r \in Requests, Arrive(r) \/ CheckCooldown(r) \/ Degrade(r)
      PROVE  Exclusion!Next
  <2>1. leased[r] = None /\ leased' = leased /\ \A s \in Requests : s # r => pc'[s] = pc[s]
    BY <1>3 DEF Arrive, CheckCooldown, SkipBusy, Degrade, LeasedWhere
  <2> QED BY <1>1, <2>1, SetsAssumption, {} \in SUBSET Requests
<1>4. ASSUME NEW r \in Requests, Register(r) \/ CompareAndDelete(r) \/ DeleteFails(r)
      PROVE  Exclusion!Next
  <2>1. /\ leased' = leased /\ \A s \in Requests : s # r => pc'[s] = pc[s]
        /\ pc'[r] \in {"register", "serving"} <=> pc[r] \in {"register", "serving"}
    BY <1>4 DEF Register, CompareAndDelete, DeleteFails
  <2> QED BY <1>1, <2>1, {} \in SUBSET Requests
<1>5. ASSUME NEW r \in Requests, Release(r) PROVE Exclusion!Next
  <2>1. /\ leased' = leased /\ \A s \in Requests : s # r => pc'[s] = pc[s]
        /\ pc'[r] \notin {"register", "serving"}
    BY <1>5 DEF Release
  <2> QED BY <1>1, <2>1, {r} \in SUBSET Requests
<1>6. ASSUME NEW w \in Workers, Crash(w) PROVE Exclusion!Next
  <2> DEFINE R == {s \in Requests : WorkerOf[s] = w}
  <2>1. R \in SUBSET Requests /\ leased' = leased
    BY <1>6 DEF Crash
  <2>2. \A s \in Requests : pc'[s] = IF s \in R THEN "crashed" ELSE pc[s]
    BY <1>6 DEF Crash
  <2> HIDE DEF R
  <2> QED BY <1>1, <2>1, <2>2
<1>7. ASSUME (\E w \in Workers : RenewStep(w)) \/ Tick \/ UNCHANGED vars
      PROVE  UNCHANGED Users
  <2>1. UNCHANGED <<pc, leased>>
    BY <1>7 DEF RenewStep, WakeRenewer, Reschedule, RenewFallbackExpire, RenewIfOwner,
       RenewFails, RenewFallbackGet, Tick, vars, request
  <2> QED BY <2>1 DEF Reserved
<1>8. ASSUME NEW r \in Requests, FallbackGet(r) \/ FallbackDelete(r) PROVE FALSE
  BY <1>8 DEF FallbackGet, FallbackDelete, NoFallback
<1> QED
  BY <1>2, <1>3, <1>4, <1>5, <1>6, <1>7, <1>8 DEF Next, RequestStep

(* The leases implement AccountExclusion: seen from the request path, an     *)
(* account is reserved by one request at a time.                             *)
THEOREM ImplementsExclusion ==
    ASSUME ~Stalls, ~EvalMayFail
    PROVE  Spec => ExclusionSpec
<1>1. Init => Exclusion!Init
  BY DEF Init, Exclusion!Init, Users, Reserved
<1>2. TypeInv /\ LeaseInv /\ [Next]_vars => [Exclusion!Next]_Users
  BY UsersStep
<1> QED BY <1>1, <1>2, LeaseInductive, PTL DEF Spec, ExclusionSpec, Exclusion!Spec

-----------------------------------------------------------------------------
(* The events on the wire                                                    *)

(* The event e may come next for the client c.  The protocol "one" has one   *)
(* block open at a time, "many" any number, "chat" none.                     *)
Follows(p, c, e) ==
    /\ c.over = "no"
    /\ \/ p # "chat" /\ e.ev = "start" /\ e.i = c.next /\ (p = "one" => c.open = {})
       \/ p # "chat" /\ e.ev \in {"delta", "stop"} /\ e.i \in c.open
       \/ p = "chat" /\ e.ev \in {"text", "call"}
       \/ e.ev = "end" /\ c.open = {}
       \/ e.ev = "error"

(* The events w may come in this order, and make the client c the client d,  *)
(* who has seen no less than any on the way.                                 *)
Leads(p, c, w, d) ==
    \E S \in [0 .. Len(w) -> Client] :
        /\ S[0] = c /\ S[Len(w)] = d
        /\ \A j \in 1 .. Len(w) : Follows(p, S[j - 1], w[j]) /\ S[j] = Receive(S[j - 1], w[j])
        /\ \A j \in 0 .. Len(w) : S[j].kinds \subseteq d.kinds

(* Nothing leads nowhere; one event leads on when it may come next; and what *)
(* leads on can be put together.                                             *)
LEMMA Stay == ASSUME NEW p, NEW c \in Client PROVE Leads(p, c, <<>>, c)
<1> DEFINE S == [j \in 0 .. 0 |-> c]
<1>1. Len(<<>>) = 0 /\ S \in [0 .. 0 -> Client] /\ S[0] = c /\ \A j \in 0 .. 0 : S[j] = c
  OBVIOUS
<1>2. 1 .. 0 = {}
  OBVIOUS
<1> HIDE DEF S
<1> QED BY <1>1, <1>2 DEF Leads

LEMMA One ==
    ASSUME NEW p, NEW c \in Client, NEW e, Follows(p, c, e), Receive(c, e) \in Client,
           c.kinds \subseteq Receive(c, e).kinds
    PROVE  Leads(p, c, <<e>>, Receive(c, e))
<1> DEFINE d == Receive(c, e)
           S == [j \in 0 .. 1 |-> IF j = 0 THEN c ELSE d]
<1> HIDE DEF d
<1>1. S \in [0 .. 1 -> Client] /\ S[0] = c /\ S[1] = d
  BY DEF d
<1>2. Len(<<e>>) = 1 /\ <<e>>[1] = e
  OBVIOUS
<1>3. ASSUME NEW j \in 1 .. 1
      PROVE  Follows(p, S[j - 1], <<e>>[j]) /\ S[j] = Receive(S[j - 1], <<e>>[j])
  <2>1. j = 1 /\ j - 1 = 0
    OBVIOUS
  <2> QED BY <1>1, <1>2, <2>1 DEF d
<1>4. \A j \in 0 .. 1 : S[j].kinds \subseteq d.kinds
  BY <1>1 DEF d
<1> HIDE DEF S
<1> QED BY <1>1, <1>2, <1>3, <1>4 DEF Leads, d

LEMMA Then ==
    ASSUME NEW p, NEW E, NEW c, NEW d, NEW f, NEW u \in Seq(E), NEW v \in Seq(E),
           Leads(p, c, u, d), Leads(p, d, v, f)
    PROVE  Leads(p, c, u \o v, f)
<1>1. PICK S \in [0 .. Len(u) -> Client] :
        /\ S[0] = c /\ S[Len(u)] = d
        /\ \A j \in 1 .. Len(u) : Follows(p, S[j - 1], u[j]) /\ S[j] = Receive(S[j - 1], u[j])
        /\ \A j \in 0 .. Len(u) : S[j].kinds \subseteq d.kinds
  BY DEF Leads
<1>2. PICK T \in [0 .. Len(v) -> Client] :
        /\ T[0] = d /\ T[Len(v)] = f
        /\ \A j \in 1 .. Len(v) : Follows(p, T[j - 1], v[j]) /\ T[j] = Receive(T[j - 1], v[j])
        /\ \A j \in 0 .. Len(v) : T[j].kinds \subseteq f.kinds
  BY DEF Leads
<1> DEFINE n == Len(u)
           m == Len(v)
           w == u \o v
           R == [j \in 0 .. n + m |-> IF j <= n THEN S[j] ELSE T[j - n]]
<1>3. n \in Nat /\ m \in Nat /\ Len(w) = n + m
      /\ \A j \in 1 .. n + m : w[j] = IF j <= n THEN u[j] ELSE v[j - n]
  BY ConcatProperties, LenProperties
<1> HIDE DEF w
<1>4. R \in [0 .. Len(w) -> Client] /\ R[0] = c /\ R[Len(w)] = f
  BY <1>1, <1>2, <1>3
<1>5. ASSUME NEW j \in 1 .. Len(w)
      PROVE  Follows(p, R[j - 1], w[j]) /\ R[j] = Receive(R[j - 1], w[j])
  <2>1. CASE j <= n
    <3>1. R[j] = S[j] /\ R[j - 1] = S[j - 1] /\ w[j] = u[j]
      BY <1>3, <2>1
    <3> QED BY <1>1, <2>1, <3>1
  <2>2. CASE j > n
    <3>1. R[j] = T[j - n] /\ R[j - 1] = T[j - n - 1] /\ w[j] = v[j - n] /\ j - n \in 1 .. m
      BY <1>1, <1>2, <1>3, <2>2
    <3> QED BY <1>2, <3>1
  <2> QED BY <1>3, <2>1, <2>2
<1>6. ASSUME NEW j \in 0 .. Len(w) PROVE R[j].kinds \subseteq f.kinds
  <2>1. d.kinds \subseteq f.kinds
    BY <1>2, <1>3, SMTT(60)
  <2>2. CASE j <= n
    BY <1>1, <1>3, <2>1, <2>2
  <2>3. CASE j > n
    <3>1. R[j] = T[j - n] /\ j - n \in 0 .. m
      BY <1>3, <2>3
    <3> QED BY <1>2, <3>1
  <2> QED BY <1>3, <2>2, <2>3
<1> QED BY <1>4, <1>5, <1>6 DEF Leads, w

(* The first of the events may be sent, whatever is behind it.               *)
LEMMA Sent ==
    ASSUME NEW p, NEW E, NEW c, NEW d, NEW w \in Seq(E), Leads(p, c, w, d), w # <<>>
    PROVE  /\ Follows(p, c, Head(w)) /\ Receive(c, Head(w)) \in Client
           /\ Leads(p, Receive(c, Head(w)), Tail(w), d)
<1>1. PICK S \in [0 .. Len(w) -> Client] :
        /\ S[0] = c /\ S[Len(w)] = d
        /\ \A j \in 1 .. Len(w) : Follows(p, S[j - 1], w[j]) /\ S[j] = Receive(S[j - 1], w[j])
        /\ \A j \in 0 .. Len(w) : S[j].kinds \subseteq d.kinds
  BY DEF Leads
<1>2. /\ Len(w) \in Nat \ {0} /\ Len(Tail(w)) = Len(w) - 1 /\ Head(w) = w[1]
      /\ \A j \in 1 .. Len(w) - 1 : Tail(w)[j] = w[j + 1]
  BY HeadTailProperties, LenProperties
<1> DEFINE R == [j \in 0 .. Len(w) - 1 |-> S[j + 1]]
<1>3. Follows(p, c, Head(w)) /\ S[1] = Receive(c, Head(w)) /\ S[1] \in Client
  BY <1>1, <1>2
<1>4. R \in [0 .. Len(Tail(w)) -> Client] /\ R[0] = S[1] /\ R[Len(Tail(w))] = d
  BY <1>1, <1>2
<1>5. ASSUME NEW j \in 1 .. Len(Tail(w))
      PROVE  Follows(p, R[j - 1], Tail(w)[j]) /\ R[j] = Receive(R[j - 1], Tail(w)[j])
  <2>1. j + 1 \in 1 .. Len(w) /\ R[j - 1] = S[j] /\ R[j] = S[j + 1] /\ Tail(w)[j] = w[j + 1]
    BY <1>2
  <2>2. (j + 1) - 1 = j
    BY <1>2
  <2> QED BY <1>1, <2>1, <2>2
<1>6. \A j \in 0 .. Len(Tail(w)) : R[j].kinds \subseteq d.kinds
  BY <1>1, <1>2
<1> QED BY <1>3, <1>4, <1>5, <1>6 DEF Leads

LEMMA Silent == ASSUME NEW p, NEW c, NEW d, Leads(p, c, <<>>, d) PROVE c = d /\ c \in Client
BY DEF Leads

LEMMA LeadsKinds ==
    ASSUME NEW p, NEW E, NEW c, NEW d, NEW w \in Seq(E), Leads(p, c, w, d)
    PROVE  c.kinds \subseteq d.kinds
<1>1. Len(w) \in Nat /\ 0 \in 0 .. Len(w)
  BY LenProperties
<1> QED BY <1>1 DEF Leads

Words == Kinds \cup Reasons \cup Errors

LEMMA EventType ==
    ASSUME NEW ev \in {"start", "delta", "stop", "end", "error", "text", "call"},
           NEW kind \in Words, NEW i \in Nat
    PROVE  /\ Event(ev, kind, i) \in Frame
           /\ Event(ev, kind, i).ev = ev /\ Event(ev, kind, i).kind = kind
           /\ Event(ev, kind, i).i = i
BY DEF Event, Frame, Words

(* Two events are one and one.                                               *)
LEMMA Pair ==
    ASSUME NEW s \in Frame, NEW t \in Frame
    PROVE  /\ <<s, t>> = <<s>> \o <<t>> /\ <<s>> \in Seq(Frame) /\ <<t>> \in Seq(Frame)
           /\ <<s, t>> \in Seq(Frame)
<1>1. <<s>> \in Seq(Frame) /\ <<t>> \in Seq(Frame)
  OBVIOUS
<1>2. <<s, t>> \in Seq(Frame) /\ Len(<<s, t>>) = 2 /\ <<s, t>>[1] = s /\ <<s, t>>[2] = t
  OBVIOUS
<1> DEFINE u == <<s>>
           v == <<t>>
<1>3. Len(u) = 1 /\ Len(v) = 1 /\ u[1] = s /\ v[1] = t /\ u \in Seq(Frame) /\ v \in Seq(Frame)
  OBVIOUS
<1> HIDE DEF u, v
<1>4. u \o v \in Seq(Frame) /\ Len(u \o v) = 2 /\ (u \o v)[1] = s /\ (u \o v)[2] = t
  BY <1>3, ConcatProperties
<1>5. ASSUME NEW j \in 1 .. 2 PROVE <<s, t>>[j] = (u \o v)[j]
  BY <1>2, <1>4
<1>6. <<s, t>> = u \o v
  BY <1>2, <1>4, <1>5, SeqEqual
<1> QED BY <1>1, <1>2, <1>6 DEF u, v

(* What each event makes of a client.                                        *)
LEMMA Starts ==
    ASSUME NEW p \in {"one", "many"}, NEW c \in Client, c.over = "no",
           NEW kind \in {"text", "thinking", "tool"}, p = "one" => c.open = {}
    PROVE  LET d == [c EXCEPT !.open = @ \cup {c.next}, !.next = c.next + 1,
                              !.kinds = @ \cup {kind}]
           IN  d \in Client /\ Leads(p, c, <<Event("start", kind, c.next)>>, d)
<1> DEFINE e == Event("start", kind, c.next)
           d == [c EXCEPT !.open = @ \cup {c.next}, !.next = c.next + 1, !.kinds = @ \cup {kind}]
<1>1. c.next \in Nat /\ c.next + 1 \in Nat /\ c.open \cup {c.next} \in SUBSET Nat
      /\ c.kinds \cup {kind} \in SUBSET Kinds
  BY DEF Client, Kinds
<1>2. e.ev = "start" /\ e.i = c.next /\ e.kind = kind
  BY DEF Event
<1>3. d \in Client /\ d.kinds = c.kinds \cup {kind}
  BY <1>1 DEF Client
<1> HIDE DEF e
<1>4. Receive(c, e) = d
  BY <1>2 DEF Receive
<1>5. Follows(p, c, e)
  BY <1>2 DEF Follows
<1> HIDE DEF d
<1>6. Leads(p, c, <<e>>, d)
  BY <1>3, <1>4, <1>5, One
<1> QED BY <1>3, <1>6 DEF d, e

LEMMA Continues ==
    ASSUME NEW p \in {"one", "many"}, NEW c \in Client, c.over = "no",
           NEW kind, NEW i \in c.open
    PROVE  Leads(p, c, <<Event("delta", kind, i)>>, c)
<1> DEFINE e == Event("delta", kind, i)
<1>1. e.ev = "delta" /\ e.i = i
  BY DEF Event
<1>2. c = [c EXCEPT !.open = @ \cup {i}]
  BY DEF Client
<1> HIDE DEF e
<1>3. Receive(c, e) = c
  BY <1>1, <1>2 DEF Receive
<1>4. Follows(p, c, e)
  BY <1>1 DEF Follows
<1>5. Leads(p, c, <<e>>, c)
  BY <1>3, <1>4, One
<1> QED BY <1>5 DEF e

LEMMA Stops ==
    ASSUME NEW p \in {"one", "many"}, NEW c \in Client, c.over = "no",
           NEW kind, NEW i \in c.open
    PROVE  LET d == [c EXCEPT !.open = @ \ {i}]
           IN  d \in Client /\ Leads(p, c, <<Event("stop", kind, i)>>, d)
<1> DEFINE e == Event("stop", kind, i)
           d == [c EXCEPT !.open = @ \ {i}]
<1>1. e.ev = "stop" /\ e.i = i
  BY DEF Event
<1>2. d \in Client /\ d.kinds = c.kinds
  BY DEF Client
<1> HIDE DEF e
<1>3. Receive(c, e) = d
  BY <1>1 DEF Receive
<1>4. Follows(p, c, e)
  BY <1>1 DEF Follows
<1> HIDE DEF d
<1>5. Leads(p, c, <<e>>, d)
  BY <1>2, <1>3, <1>4, One
<1> QED BY <1>2, <1>5 DEF d, e

LEMMA Ends ==
    ASSUME NEW p, NEW c \in Client, c.over = "no", c.open = {}, NEW kind \in Reasons, NEW i
    PROVE  LET d == [c EXCEPT !.over = "end", !.reason = kind]
           IN  d \in Client /\ Leads(p, c, <<Event("end", kind, i)>>, d)
<1> DEFINE e == Event("end", kind, i)
           d == [c EXCEPT !.over = "end", !.reason = kind]
<1>1. e.ev = "end" /\ e.kind = kind
  BY DEF Event
<1>2. d \in Client /\ d.kinds = c.kinds
  BY DEF Client
<1> HIDE DEF e
<1>3. Receive(c, e) = d
  BY <1>1 DEF Receive
<1>4. Follows(p, c, e)
  BY <1>1 DEF Follows
<1> HIDE DEF d
<1>5. Leads(p, c, <<e>>, d)
  BY <1>2, <1>3, <1>4, One
<1> QED BY <1>2, <1>5 DEF d, e

LEMMA Breaks ==
    ASSUME NEW p, NEW c \in Client, c.over = "no", NEW e, e.ev = "error"
    PROVE  LET d == [c EXCEPT !.over = "error"]
           IN  d \in Client /\ Leads(p, c, <<e>>, d)
<1> DEFINE d == [c EXCEPT !.over = "error"]
<1>1. d \in Client /\ d.kinds = c.kinds
  BY DEF Client
<1>2. Receive(c, e) = d
  BY DEF Receive
<1>3. Follows(p, c, e)
  BY DEF Follows
<1> HIDE DEF d
<1>4. Leads(p, c, <<e>>, d)
  BY <1>1, <1>2, <1>3, One
<1> QED BY <1>1, <1>4 DEF d

(* An event that may follow is a step of ContentBlocks.                      *)
LEMMA BlockSteps ==
    ASSUME NEW p \in {"one", "many"}, NEW c \in Client, NEW e, Follows(p, c, e),
           NEW d, d = Receive(c, e)
    PROVE  \/ /\ c.over = "no" /\ (p = "one" => c.open = {})
              /\ d.open = c.open \cup {c.next} /\ d.next = c.next + 1 /\ d.over = c.over
           \/ d.open = c.open /\ d.next = c.next /\ d.over = c.over
           \/ /\ c.over = "no" /\ \E i \in c.open : d.open = c.open \ {i}
              /\ d.next = c.next /\ d.over = c.over
           \/ /\ c.over = "no" /\ c.open = {} /\ d.over = "end"
              /\ d.open = c.open /\ d.next = c.next
           \/ /\ c.over = "no" /\ d.over = "error"
              /\ d.open = c.open /\ d.next = c.next
<1>1. CASE e.ev = "start"
  <2>1. d = [c EXCEPT !.open = @ \cup {e.i}, !.next = e.i + 1, !.kinds = @ \cup {e.kind}]
    BY <1>1 DEF Receive
  <2>2. c.over = "no" /\ (p = "one" => c.open = {}) /\ e.i = c.next
    BY <1>1 DEF Follows
  <2> QED BY <2>1, <2>2 DEF Client
<1>2. CASE e.ev = "delta"
  <2>1. d = [c EXCEPT !.open = @ \cup {e.i}] /\ e.i \in c.open
    BY <1>2 DEF Receive, Follows
  <2>2. c.open \cup {e.i} = c.open
    BY <2>1
  <2> QED BY <2>1, <2>2 DEF Client
<1>3. CASE e.ev = "stop"
  <2>1. d = [c EXCEPT !.open = @ \ {e.i}] /\ e.i \in c.open /\ c.over = "no"
    BY <1>3 DEF Receive, Follows
  <2> QED BY <2>1 DEF Client
<1>4. CASE e.ev = "end"
  <2>1. d = [c EXCEPT !.over = "end", !.reason = e.kind] /\ c.open = {} /\ c.over = "no"
    BY <1>4 DEF Receive, Follows
  <2> QED BY <2>1 DEF Client
<1>5. CASE e.ev = "error"
  <2>1. d = [c EXCEPT !.over = "error"] /\ c.over = "no"
    BY <1>5 DEF Receive, Follows
  <2> QED BY <2>1 DEF Client
<1> QED BY <1>1, <1>2, <1>3, <1>4, <1>5 DEF Follows

(* Start, delta and stop of the block i.                                     *)
Trio(i) == <<Event("start", "tool", i), Event("delta", "tool", i), Event("stop", "tool", i)>>

LEMMA TrioType ==
    ASSUME NEW i \in Nat
    PROVE  /\ Trio(i) \in Seq(Frame) /\ Len(Trio(i)) = 3
           /\ Trio(i)[1] = Event("start", "tool", i)
           /\ Trio(i)[2] = Event("delta", "tool", i)
           /\ Trio(i)[3] = Event("stop", "tool", i)
<1>1. "tool" \in Words
  BY DEF Words, Kinds
<1>2. /\ Event("start", "tool", i) \in Frame /\ Event("delta", "tool", i) \in Frame
      /\ Event("stop", "tool", i) \in Frame
  BY <1>1, EventType
<1> QED BY <1>2 DEF Trio

LEMMA BlocksType ==
    ASSUME NEW n \in Nat, NEW i \in Nat
    PROVE  /\ Blocks(n, i) \in Seq(Frame) /\ Len(Blocks(n, i)) = 3 * n
           /\ \A j \in 1 .. 3 * n :
                Blocks(n, i)[j] = Event(Block[1 + ((j - 1) % 3)], "tool", i + ((j - 1) \div 3))
<1>1. ASSUME NEW j \in 1 .. 3 * n
      PROVE  Event(Block[1 + ((j - 1) % 3)], "tool", i + ((j - 1) \div 3)) \in Frame
  <2>1. (j - 1) % 3 \in 0 .. 2 /\ (j - 1) \div 3 \in Nat
    OBVIOUS
  <2> DEFINE ev == Block[1 + ((j - 1) % 3)]
             k == i + ((j - 1) \div 3)
  <2>2. ev \in {"start", "delta", "stop", "end", "error", "text", "call"}
    BY <2>1 DEF Block
  <2>3. k \in Nat
    BY <2>1
  <2>4. "tool" \in Words
    BY DEF Words, Kinds
  <2> HIDE DEF ev, k
  <2>5. Event(ev, "tool", k) \in Frame
    BY <2>2, <2>3, <2>4, EventType
  <2> QED BY <2>5 DEF ev, k
<1>2. 3 * n \in Nat
  OBVIOUS
<1> QED BY <1>1, <1>2 DEF Blocks

(* The blocks of n + 1 tool calls are those of n and three events more.      *)
LEMMA Grow ==
    ASSUME NEW n \in Nat, NEW i \in Nat
    PROVE  Blocks(0, i) = <<>> /\ Blocks(n + 1, i) = Blocks(n, i) \o Trio(i + n)
<1> DEFINE w == Blocks(n, i) \o Trio(i + n)
           u == Blocks(n + 1, i)
           m == 3 * n
<1>1. Blocks(0, i) = <<>>
  BY BlocksType
<1>2. m \in Nat /\ 3 * (n + 1) = m + 3 /\ i + n \in Nat /\ n + 1 \in Nat
  OBVIOUS
<1>3. /\ Blocks(n, i) \in Seq(Frame) /\ Len(Blocks(n, i)) = m
      /\ \A j \in 1 .. m :
            Blocks(n, i)[j] = Event(Block[1 + ((j - 1) % 3)], "tool", i + ((j - 1) \div 3))
  BY BlocksType
<1>4. /\ u \in Seq(Frame) /\ Len(u) = m + 3
      /\ \A j \in 1 .. m + 3 :
            u[j] = Event(Block[1 + ((j - 1) % 3)], "tool", i + ((j - 1) \div 3))
  <2>1. /\ u \in Seq(Frame) /\ Len(u) = 3 * (n + 1)
        /\ \A j \in 1 .. 3 * (n + 1) :
              u[j] = Event(Block[1 + ((j - 1) % 3)], "tool", i + ((j - 1) \div 3))
    <3> HIDE DEF m
    <3>1. n + 1 \in Nat
      BY <1>2
    <3> QED BY <3>1, BlocksType, Zenon
  <2> HIDE DEF u, m
  <2> QED BY <1>2, <2>1, Zenon
<1>5. /\ w \in Seq(Frame) /\ Len(w) = m + 3
      /\ \A j \in 1 .. m + 3 : w[j] = IF j <= m THEN Blocks(n, i)[j] ELSE Trio(i + n)[j - m]
  <2>1. Trio(i + n) \in Seq(Frame) /\ Len(Trio(i + n)) = 3
    BY <1>2, TrioType
  <2> DEFINE v == Blocks(n, i)
             t == Trio(i + n)
  <2> HIDE DEF m, v, t
  <2>2. v \in Seq(Frame) /\ t \in Seq(Frame) /\ Len(v) = m /\ Len(t) = 3
    BY <1>3, <2>1 DEF v, t
  <2>3. /\ v \o t \in Seq(Frame) /\ Len(v \o t) = m + 3
        /\ \A j \in 1 .. m + 3 : (v \o t)[j] = IF j <= m THEN v[j] ELSE t[j - m]
    <3>1. m \in Nat /\ Len(v) + Len(t) = m + 3
      BY <2>2 DEF m
    <3>2. /\ v \o t \in Seq(Frame) /\ Len(v \o t) = Len(v) + Len(t)
          /\ \A j \in 1 .. Len(v) + Len(t) :
                (v \o t)[j] = IF j <= Len(v) THEN v[j] ELSE t[j - Len(v)]
      BY <2>2, ConcatProperties
    <3> QED BY ONLY <2>2, <3>1, <3>2
  <2> QED BY <2>3 DEF v, t
<1>6. ASSUME NEW j \in 1 .. m + 3 PROVE u[j] = w[j]
  <2>1. CASE j <= m
    <3> HIDE DEF m, u, w
    <3> QED BY <1>2, <1>3, <1>4, <1>5, <2>1
  <2>2. ASSUME NEW k \in 1 .. 3, j = m + k PROVE u[j] = w[j]
    <3>1. (j - 1) % 3 = k - 1 /\ (j - 1) \div 3 = n /\ j - m = k /\ ~(j <= m) /\ 1 + (k - 1) = k
      BY <2>2
    <3> HIDE DEF m, u, w
    <3>2. u[j] = Event(Block[k], "tool", i + n)
      BY <1>4, <3>1
    <3>3. w[j] = Trio(i + n)[k]
      BY <1>5, <3>1
    <3>4. Trio(i + n)[k] = Event(Block[k], "tool", i + n)
      BY <1>2, TrioType DEF Block
    <3> QED BY <3>2, <3>3, <3>4
  <2>3. j <= m \/ (j - m \in 1 .. 3 /\ j = m + (j - m))
    BY <1>2
  <2> HIDE DEF m, u, w
  <2> QED BY <2>1, <2>2, <2>3
<1> HIDE DEF w, u
<1>7. u = w
  BY <1>4, <1>5, <1>6, SeqEqual
<1> QED BY <1>1, <1>7 DEF w, u

(* The client after n blocks.                                                *)
After(c, n) == [c EXCEPT !.next = @ + n, !.kinds = IF n = 0 THEN @ ELSE @ \cup {"tool"}]

(* Two clients with the same fields are one.                                 *)
LEMMA Same ==
    ASSUME NEW c \in Client, NEW d \in Client, c.open = d.open, c.next = d.next, c.over = d.over,
           c.kinds = d.kinds, c.reason = d.reason
    PROVE  c = d
<1>1. ASSUME NEW e \in Client
      PROVE  e = [open |-> e.open, next |-> e.next, over |-> e.over, kinds |-> e.kinds,
                  reason |-> e.reason]
  BY DEF Client
<1> QED BY <1>1

LEMMA AfterFields ==
    ASSUME NEW c \in Client, NEW n \in Nat
    PROVE  /\ After(c, n) \in Client
           /\ After(c, n).open = c.open /\ After(c, n).next = c.next + n
           /\ After(c, n).over = c.over /\ After(c, n).reason = c.reason
           /\ n = 0 => After(c, n).kinds = c.kinds
           /\ n # 0 => After(c, n).kinds = c.kinds \cup {"tool"}
<1>1. c.next + n \in Nat /\ (IF n = 0 THEN c.kinds ELSE c.kinds \cup {"tool"}) \in SUBSET Kinds
  BY DEF Client, Kinds
<1> QED BY <1>1 DEF After, Client

(* One block of a tool call.                                                 *)
LEMMA TrioLeads ==
    ASSUME NEW p \in {"one", "many"}, NEW c \in Client, c.over = "no",
           p = "one" => c.open = {}, c.next \notin c.open
    PROVE  After(c, 1) \in Client /\ Leads(p, c, Trio(c.next), After(c, 1))
<1> DEFINE i == c.next
           d == [c EXCEPT !.open = @ \cup {c.next}, !.next = c.next + 1,
                          !.kinds = @ \cup {"tool"}]
           f == [d EXCEPT !.open = @ \ {i}]
           s == <<Event("start", "tool", i)>>
           t == <<Event("delta", "tool", i)>>
           u == <<Event("stop", "tool", i)>>
<1>0. i \in Nat
  BY DEF Client
<1>1. d \in Client /\ Leads(p, c, s, d)
  BY Starts
<1>2. i \in d.open /\ d.over = "no"
  BY DEF Client
<1>3. f = After(c, 1)
  <2>1. /\ f.open = (c.open \cup {i}) \ {i} /\ f.next = c.next + 1 /\ f.over = c.over
        /\ f.kinds = c.kinds \cup {"tool"} /\ f.reason = c.reason /\ f \in Client
    BY <1>1 DEF Client
  <2>2. (c.open \cup {i}) \ {i} = c.open
    OBVIOUS
  <2> DEFINE g == After(c, 1)
  <2>3. /\ g \in Client /\ g.open = c.open /\ g.next = c.next + 1 /\ g.over = c.over
        /\ g.kinds = c.kinds \cup {"tool"} /\ g.reason = c.reason
    <3>1. 1 \in Nat /\ 1 # 0
      OBVIOUS
    <3> QED BY <3>1, AfterFields
  <2> HIDE DEF f, d, g
  <2>4. f = g
    BY <2>1, <2>2, <2>3, Same, ZenonT(60)
  <2> QED BY <2>4 DEF g
<1>4. s \in Seq(Frame) /\ t \in Seq(Frame) /\ u \in Seq(Frame)
  <2>1. "tool" \in Words
    BY DEF Words, Kinds
  <2>2. /\ Event("start", "tool", i) \in Frame /\ Event("delta", "tool", i) \in Frame
        /\ Event("stop", "tool", i) \in Frame
    BY <1>0, <2>1, EventType
  <2> QED BY <2>2
<1>5. Trio(i) = (s \o t) \o u
  BY DEF Trio
<1> HIDE DEF d
<1>6. Leads(p, d, t, d)
  BY <1>1, <1>2, Continues
<1>7. f \in Client /\ Leads(p, d, u, f)
  BY <1>1, <1>2, Stops
<1> HIDE DEF f, s, t, u
<1>8. Leads(p, c, s \o t, d) /\ s \o t \in Seq(Frame)
  BY <1>1, <1>4, <1>6, Then, ConcatProperties
<1>9. Leads(p, c, (s \o t) \o u, f)
  BY <1>4, <1>7, <1>8, Then
<1> QED BY <1>3, <1>5, <1>7, <1>9

(* A set of numbers that is not empty has a least one: induction.            *)
LEMMA Least == ASSUME NEW T, T \subseteq Nat, T # {} PROVE \E n \in T : \A m \in T : n <= m
<1> SUFFICES ASSUME \A n \in T : \E m \in T : m < n PROVE FALSE
  OBVIOUS
<1> DEFINE D == {n \in Nat : \A m \in T : n < m}
           up == [n \in D |-> n + 1]
<1>1. 0 \in D
  OBVIOUS
<1>2. ASSUME NEW n \in D PROVE n + 1 \in D
  <2>1. SUFFICES ASSUME NEW m \in T, ~(n + 1 < m) PROVE FALSE
    OBVIOUS
  <2>2. m = n + 1
    BY <2>1
  <2>3. PICK k \in T : k < m
    OBVIOUS
  <2> QED BY <2>2, <2>3
<1>3. PICK t \in T : TRUE
  OBVIOUS
<1>4. IsFiniteSet(D)
  <2>1. \A s \in D : s <= t
    BY <1>3
  <2> QED BY <1>3, <2>1, FS_BoundedSetOfNaturals
<1>5. IsFiniteSet(D \ {0}) /\ Cardinality(D \ {0}) = Cardinality(D) - 1 /\ Cardinality(D) \in Nat
  BY <1>1, <1>4, FS_RemoveElement, FS_CardinalityType
<1>6. up \in [D -> D \ {0}]
  BY <1>2
<1>7. \E x, y \in D : x # y /\ up[x] = up[y]
  <2> HIDE DEF D, up
  <2> QED BY <1>4, <1>5, <1>6, FS_PigeonHole
<1> QED BY <1>7

(* The blocks of any number of tool calls.                                   *)
LEMMA BlocksLead ==
    ASSUME NEW p \in {"one", "many"}, NEW c \in Client, NEW n \in Nat, c.over = "no",
           p = "one" => c.open = {}, \A i \in c.open : i < c.next
    PROVE  After(c, n) \in Client /\ Leads(p, c, Blocks(n, c.next), After(c, n))
<1> DEFINE Good(m) == After(c, m) \in Client /\ Leads(p, c, Blocks(m, c.next), After(c, m))
<1>1. c.next \in Nat /\ c.open \subseteq Nat
  BY DEF Client
<1>2. Good(0)
  <2>1. After(c, 0) = c
    <3> DEFINE g == After(c, 0)
    <3>1. /\ g \in Client /\ g.open = c.open /\ g.next = c.next + 0 /\ g.over = c.over
          /\ g.kinds = c.kinds /\ g.reason = c.reason
      BY AfterFields
    <3> HIDE DEF g
    <3>2. g = c
      BY <1>1, <3>1, Same
    <3> QED BY <3>2 DEF g
  <2> QED BY <1>1, <2>1, Grow, Stay
<1>3. ASSUME NEW m \in Nat, Good(m) PROVE Good(m + 1)
  <2> DEFINE d == After(c, m)
  <2>1. /\ d.over = "no" /\ d.next = c.next + m /\ d.open = c.open
        /\ d.next \notin d.open
    BY <1>1 DEF After, Client
  <2> HIDE DEF d
  <2>2. After(d, 1) = After(c, m + 1)
    <3>1. d \in Client
      BY <1>3 DEF d
    <3>2. /\ d.next = c.next + m /\ d.open = c.open /\ d.over = c.over /\ d.reason = c.reason
          /\ d.kinds \cup {"tool"} = c.kinds \cup {"tool"}
      BY AfterFields DEF d
    <3>6. 1 \in Nat /\ 1 # 0 /\ m + 1 \in Nat /\ m + 1 # 0 /\ (c.next + m) + 1 = c.next + (m + 1)
      BY <1>1
    <3> DEFINE g == After(d, 1)
               h == After(c, m + 1)
    <3>3. /\ g \in Client /\ g.open = d.open /\ g.next = d.next + 1 /\ g.over = d.over
          /\ g.kinds = d.kinds \cup {"tool"} /\ g.reason = d.reason
      BY <3>1, <3>6, AfterFields
    <3>4. /\ h \in Client /\ h.open = c.open /\ h.next = c.next + (m + 1) /\ h.over = c.over
          /\ h.kinds = c.kinds \cup {"tool"} /\ h.reason = c.reason
      BY <3>6, AfterFields
    <3> HIDE DEF g, h
    <3>5. g = h
      <4>1. g.next = h.next
        BY ONLY <3>2, <3>3, <3>4, <3>6
      <4>2. g.kinds = h.kinds
        BY ONLY <3>2, <3>3, <3>4
      <4>3. g.open = h.open /\ g.over = h.over /\ g.reason = h.reason
        BY ONLY <3>2, <3>3, <3>4
      <4> QED BY <3>3, <3>4, <4>1, <4>2, <4>3, Same
    <3> QED BY <3>5 DEF g, h
  <2>3. Blocks(m, c.next) \in Seq(Frame) /\ Trio(d.next) \in Seq(Frame)
    <3>1. d.next \in Nat
      BY <1>1, <2>1
    <3> QED BY <1>1, <3>1, BlocksType, TrioType
  <2>4. After(d, 1) \in Client /\ Leads(p, d, Trio(d.next), After(d, 1))
    BY <1>3, <2>1, TrioLeads DEF d
  <2>5. Leads(p, c, Blocks(m, c.next) \o Trio(d.next), After(d, 1))
    BY <1>3, <2>3, <2>4, Then DEF d
  <2> QED BY <1>1, <2>1, <2>2, <2>4, <2>5, Grow
<1> HIDE DEF Good
<1>4. ASSUME ~Good(n) PROVE FALSE
  <2> DEFINE T == {m \in Nat : ~Good(m)}
  <2>1. PICK k \in T : \A m \in T : k <= m
    BY <1>4, Least
  <2>2. k # 0 /\ k - 1 \in Nat /\ k - 1 \notin T
    BY <1>2, <2>1
  <2>3. Good((k - 1) + 1) /\ (k - 1) + 1 = k
    BY <1>3, <2>2
  <2> QED BY <2>1, <2>3
<1> QED BY <1>4 DEF Good

-----------------------------------------------------------------------------
(* The tool calls                                                            *)

Done(tools) == {k \in Tools : tools[k].done}

(* Pieces leave a tool call a tool call, and never say that it was sent.     *)
LEMMA DeltaTypes ==
    ASSUME NEW slot \in Slot, NEW new \in Deltas(slot)
    PROVE  new \in Slot /\ new.done = slot.done
BY DEF Deltas

LEMMA ChosenTypes ==
    ASSUME NEW options, NEW f \in Chosen(options)
    PROVE  f = [k \in Tools |-> f[k]] /\ \A k \in Tools : f[k] \in options[k]
BY DEF Chosen

(* A chunk leaves alone the tool calls it has no piece of.                   *)
LEMMA IngestedTypes ==
    ASSUME NEW tools \in [Tools -> Slot], NEW ks, NEW new \in Ingested(tools, ks)
    PROVE  /\ new \in [Tools -> Slot]
           /\ \A k \in Tools : new[k].done = tools[k].done
           /\ \A k \in Tools : k \notin ks => new[k] = tools[k]
<1> DEFINE options == [k \in Tools |-> IF k \in ks /\ ~tools[k].done THEN Deltas(tools[k])
                                                                  ELSE {tools[k]}]
<1>1. new \in Chosen(options)
  BY DEF Ingested
<1>2. \A k \in Tools : options[k] = IF k \in ks /\ ~tools[k].done THEN Deltas(tools[k])
                                                              ELSE {tools[k]}
  OBVIOUS
<1> HIDE DEF options
<1>3. new = [k \in Tools |-> new[k]] /\ \A k \in Tools : new[k] \in options[k]
  BY <1>1, ChosenTypes
<1>4. ASSUME NEW k \in Tools
      PROVE  new[k] \in Slot /\ new[k].done = tools[k].done /\ (k \notin ks => new[k] = tools[k])
  <2>1. tools[k] \in Slot
    OBVIOUS
  <2> QED BY <1>2, <1>3, <2>1, DeltaTypes
<1> QED BY <1>3, <1>4

LEMMA EmittedTypes ==
    ASSUME NEW tools \in [Tools -> Slot], NEW ks, ks \subseteq Tools
    PROVE  /\ Emitted(tools, ks) \in [Tools -> Slot]
           /\ Done(Emitted(tools, ks)) = Done(tools) \cup ks
           /\ \A k \in Tools : Complete(Emitted(tools, ks)[k]) = Complete(tools[k])
<1>1. ASSUME NEW k \in Tools
      PROVE  /\ Emitted(tools, ks)[k] \in Slot
             /\ Emitted(tools, ks)[k].done = (tools[k].done \/ k \in ks)
             /\ Complete(Emitted(tools, ks)[k]) = Complete(tools[k])
  <2>1. tools[k] \in Slot
    OBVIOUS
  <2>2. Emitted(tools, ks)[k] = IF k \in ks THEN [tools[k] EXCEPT !.done = TRUE] ELSE tools[k]
    BY DEF Emitted
  <2>3. CASE k \in ks
    BY <2>1, <2>2, <2>3 DEF Slot, Complete
  <2>4. CASE k \notin ks
    BY <2>1, <2>2, <2>4 DEF Slot, Complete
  <2> QED BY <2>3, <2>4
<1>2. Emitted(tools, ks) = [k \in Tools |-> Emitted(tools, ks)[k]]
  BY DEF Emitted
<1>3. Emitted(tools, ks) \in [Tools -> Slot]
  BY <1>1, <1>2
<1>4. Done(Emitted(tools, ks)) = Done(tools) \cup ks
  BY <1>1 DEF Done
<1> QED BY <1>1, <1>3, <1>4

(* Every tool call that is sent is counted once.                             *)
LEMMA EmittedCount ==
    ASSUME WireAssumption, NEW tools \in [Tools -> Slot], NEW ks, ks \subseteq Unsent(tools)
    PROVE  /\ ks \subseteq Tools /\ IsFiniteSet(ks) /\ Cardinality(ks) \in Nat
           /\ Cardinality(ks) = 0 <=> ks = {}
           /\ Cardinality(Done(Emitted(tools, ks))) = Cardinality(Done(tools)) + Cardinality(ks)
           /\ Cardinality(Done(tools)) \in Nat
           /\ Cardinality(Done(Emitted(tools, ks))) <= Cardinality(Tools)
<1>1. ks \subseteq Tools /\ ks \cap Done(tools) = {}
  BY DEF Unsent, Done
<1>2. IsFiniteSet(Tools)
  BY DEF WireAssumption
<1>3. IsFiniteSet(ks) /\ IsFiniteSet(Done(tools))
  BY <1>1, <1>2, FS_Subset DEF Done
<1>4. Cardinality(ks) \in Nat /\ Cardinality(Done(tools)) \in Nat
      /\ (Cardinality(ks) = 0 <=> ks = {})
  BY <1>3, FS_CardinalityType, FS_EmptySet
<1>5. Done(Emitted(tools, ks)) = Done(tools) \cup ks
  BY <1>1, EmittedTypes
<1>6. Cardinality(Done(tools) \cup ks)
        = Cardinality(Done(tools)) + Cardinality(ks) - Cardinality(Done(tools) \cap ks)
  BY <1>3, FS_Union
<1>7. Cardinality(Done(tools) \cap ks) = 0
  BY <1>1, FS_EmptySet
<1>8. Cardinality(Done(tools) \cup ks) <= Cardinality(Tools)
  BY <1>1, <1>2, FS_Subset DEF Done
<1> QED BY <1>1, <1>3, <1>4, <1>5, <1>6, <1>7, <1>8

(* There are no more tool calls sent than there are.                         *)
LEMMA DoneBounded ==
    ASSUME WireAssumption, NEW tools
    PROVE  Cardinality(Done(tools)) \in Nat /\ Cardinality(Done(tools)) <= Cardinality(Tools)
<1>1. Done(tools) \in SUBSET Tools /\ IsFiniteSet(Tools)
  BY DEF Done, WireAssumption
<1> QED BY <1>1, FS_Subset, FS_CardinalityType

(* How many of ks come before k.                                             *)
Below(ks, k) == {j \in ks : j < k}
Rank(ks, k) == Cardinality(Below(ks, k))

(* What First takes of a set: at most n, and n when it leaves something.     *)
LEMMA FirstCount ==
    ASSUME NEW ks, ks \subseteq Nat, IsFiniteSet(ks), NEW n \in Int
    PROVE  /\ First(ks, n) \subseteq ks /\ IsFiniteSet(First(ks, n))
           /\ Cardinality(First(ks, n)) \in Nat
           /\ n >= 0 => Cardinality(First(ks, n)) <= n
           /\ n <= 0 => First(ks, n) = {}
           /\ n >= 0 /\ First(ks, n) # ks => Cardinality(First(ks, n)) = n
<1> DEFINE F == First(ks, n)
<1>1. ASSUME NEW k PROVE IsFiniteSet(Below(ks, k)) /\ Rank(ks, k) \in Nat
  <2>1. Below(ks, k) \in SUBSET ks
    BY DEF Below
  <2> QED BY <2>1, FS_Subset, FS_CardinalityType DEF Rank
<1>2. F = {k \in ks : Rank(ks, k) < n}
  BY DEF First, Rank, Below
<1> HIDE DEF F
<1>3. F \subseteq ks /\ IsFiniteSet(F) /\ Cardinality(F) \in Nat
  <2>1. F \in SUBSET ks
    BY <1>2
  <2> QED BY <2>1, FS_Subset, FS_CardinalityType
<1>4. n <= 0 => F = {}
  BY <1>1, <1>2
<1>5. ASSUME F # {} PROVE Cardinality(F) <= n
  <2> DEFINE T == {r \in Nat : \E k \in F : r = n - 1 - Rank(ks, k)}
  <2>1. T \subseteq Nat /\ T # {}
    <3>1. PICK k \in F : TRUE
      BY <1>5
    <3>2. n - 1 - Rank(ks, k) \in Nat
      BY <1>1, <1>2
    <3> QED BY <3>2
  <2>2. PICK r \in T : \A q \in T : r <= q
    <3> HIDE DEF T
    <3> QED BY <2>1, Least
  <2>3. PICK m \in F : r = n - 1 - Rank(ks, m)
    BY <2>2
  <2>4. \A k \in F : Rank(ks, k) <= Rank(ks, m)
    <3> TAKE k \in F
    <3>1. n - 1 - Rank(ks, k) \in T
      BY <1>1, <1>2
    <3> QED BY <1>1, <2>2, <2>3, <3>1
  <2>5. F \subseteq Below(ks, m) \cup {m}
    <3> SUFFICES ASSUME NEW k \in F, k \notin Below(ks, m), k # m PROVE FALSE
      OBVIOUS
    <3>1. m \in ks /\ k \in ks /\ m < k
      BY <1>3 DEF Below
    <3>2. Below(ks, m) \cup {m} \in SUBSET Below(ks, k)
      <4>1. ASSUME NEW j \in Below(ks, m) PROVE j \in Below(ks, k)
        BY <3>1 DEF Below
      <4> QED BY <3>1, <4>1 DEF Below
    <3>5. m \notin Below(ks, m)
      BY <3>1 DEF Below
    <3>3. Cardinality(Below(ks, m) \cup {m}) = Rank(ks, m) + 1
      BY <1>1, <3>5, FS_AddElement DEF Rank
    <3>4. Cardinality(Below(ks, m) \cup {m}) <= Rank(ks, k)
      BY <1>1, <3>2, FS_Subset DEF Rank
    <3> QED BY <1>1, <2>4, <3>3, <3>4
  <2>9. m \notin Below(ks, m)
    BY <1>3 DEF Below
  <2>6. Cardinality(Below(ks, m) \cup {m}) = Rank(ks, m) + 1 /\ IsFiniteSet(Below(ks, m) \cup {m})
    BY <1>1, <2>9, FS_AddElement DEF Rank
  <2>7. Cardinality(F) <= Rank(ks, m) + 1
    BY <2>5, <2>6, FS_Subset
  <2>8. Rank(ks, m) < n
    BY <1>2
  <2> QED BY <1>1, <1>3, <2>7, <2>8
<1>6. F = {} => Cardinality(F) = 0
  BY FS_EmptySet
<1>7. ASSUME n >= 0, F # ks PROVE n <= Cardinality(F)
  <2>1. PICK k \in ks \ F : \A m \in ks \ F : k <= m
    BY <1>3, <1>7, Least
  <2>2. Below(ks, k) \in SUBSET F
    <3>1. ASSUME NEW j \in Below(ks, k), j \notin F PROVE FALSE
      <4>1. j \in ks \ F /\ j < k
        BY <3>1 DEF Below
      <4>2. k <= j /\ j \in Nat /\ k \in Nat
        BY <2>1, <4>1
      <4> QED BY <4>1, <4>2
    <3> QED BY <3>1
  <2>3. Rank(ks, k) <= Cardinality(F)
    BY <1>3, <2>2, FS_Subset DEF Rank
  <2>4. n <= Rank(ks, k)
    BY <1>1, <1>2, <2>1
  <2> QED BY <1>1, <1>3, <2>3, <2>4
<1> QED BY <1>3, <1>4, <1>5, <1>6, <1>7 DEF F
-----------------------------------------------------------------------------
(* /v1/messages                                                              *)

(* The instance speaks of the tool calls and of the wire as StreamWire does. *)
LEMMA MessagesWords ==
    /\ Messages!Slot = Slot /\ Messages!NoSlot = NoSlot /\ Messages!Frame = Frame
    /\ Messages!Client = Client /\ Messages!NewClient = NewClient
    /\ \A ev, kind, i : Messages!Event(ev, kind, i) = Event(ev, kind, i)
    /\ \A n, i : Messages!Blocks(n, i) = Blocks(n, i)
    /\ \A c, e : Messages!Receive(c, e) = Receive(c, e)
    /\ \A s : Messages!Known(s) = Known(s) /\ Messages!Complete(s) = Complete(s)
    /\ \A s : Messages!Deltas(s) = Deltas(s)
    /\ \A f : Messages!Chosen(f) = Chosen(f)
    /\ \A t, ks : Messages!Ingested(t, ks) = Ingested(t, ks)
    /\ \A t, ks : Messages!Emitted(t, ks) = Emitted(t, ks)
    /\ \A t : Messages!Unsent(t) = Unsent(t) /\ Messages!Ready(t) = Ready(t)
    /\ \A S : Messages!Cardinality(S) = Cardinality(S)
    /\ \A n : Messages!Budget(n) = Budget(n)
    /\ \A ks, n : Messages!First(ks, n) = First(ks, n)
<1>1. Messages!Slot = Slot /\ Messages!NoSlot = NoSlot /\ Messages!Args = Args
  BY DEF Messages!Slot, Slot, Messages!NoSlot, NoSlot, Messages!Args, Args
<1>2. Messages!Kinds = Kinds /\ Messages!Reasons = Reasons /\ Messages!Errors = Errors
      /\ Messages!Block = Block
  BY DEF Messages!Kinds, Kinds, Messages!Reasons, Reasons, Messages!Errors, Errors,
      Messages!Block, Block
<1>3. Messages!Frame = Frame /\ Messages!Client = Client /\ Messages!NewClient = NewClient
  BY <1>2 DEF Messages!Frame, Frame, Messages!Client, Client, Messages!NewClient, NewClient
<1>4. \A ev, kind, i : Messages!Event(ev, kind, i) = Event(ev, kind, i)
  BY DEF Messages!Event, Event
<1>5. \A n, i : Messages!Blocks(n, i) = Blocks(n, i)
  BY <1>2, <1>4 DEF Messages!Blocks, Blocks
<1>6. \A c, e : Messages!Receive(c, e) = Receive(c, e)
  BY DEF Messages!Receive, Receive
<1>7. \A s : Messages!Known(s) = Known(s) /\ Messages!Complete(s) = Complete(s)
  BY DEF Messages!Known, Known, Messages!Complete, Complete
<1>8. \A a : Messages!Merges(a) = Merges(a)
  BY <1>1 DEF Messages!Merges, Merges
<1>9. \A s : Messages!Deltas(s) = Deltas(s)
  BY <1>1, <1>8 DEF Messages!Deltas, Deltas
<1>10. \A f : Messages!Chosen(f) = Chosen(f)
  <2>1. ASSUME NEW f PROVE Messages!Range(f) = Range(f)
    BY DEF Messages!Range, Range
  <2> QED BY <2>1 DEF Messages!Chosen, Chosen
<1>11. \A t, ks : /\ Messages!Ingested(t, ks) = Ingested(t, ks)
                  /\ Messages!Emitted(t, ks) = Emitted(t, ks)
  BY <1>9, <1>10 DEF Messages!Ingested, Ingested, Messages!Emitted, Emitted
<1>12. \A t : Messages!Unsent(t) = Unsent(t)
  BY <1>7 DEF Messages!Unsent, Unsent
<1>13. \A t : Messages!Ready(t) = Ready(t)
  BY <1>7, <1>12 DEF Messages!Ready, Ready
<1>14. \A S : Messages!Cardinality(S) = Cardinality(S)
  BY DEF Messages!Cardinality, Cardinality
<1>15. \A n : Messages!Budget(n) = Budget(n)
  BY <1>14 DEF Messages!Budget, Budget
<1>16. \A ks, n : Messages!First(ks, n) = First(ks, n)
  BY <1>14 DEF Messages!First, First
<1> QED BY <1>1, <1>3, <1>4, <1>5, <1>6, <1>7, <1>9, <1>10,
           <1>11, <1>12, <1>13, <1>14, <1>15, <1>16

(* The types of the component, in the words above.                           *)
LEMMA MessagesTypes ==
    /\ Messages!TypeOK <=> /\ asm \in Messages!Assembler /\ asm.count <= Cardinality(Tools)
                          /\ aWire \in Seq(Frame) /\ aClient \in Client
    /\ Messages!TypeOK' <=> /\ asm' \in Messages!Assembler /\ asm'.count <= Cardinality(Tools)
                           /\ aWire' \in Seq(Frame) /\ aClient' \in Client
BY MessagesWords DEF Messages!TypeOK

(* What the methods of the assembler map.                                    *)
State == [a : Messages!Assembler, out : Seq(Frame)]

(* The tool calls that were sent are counted, and within the limit.          *)
Tally(tools, count) ==
    count = Cardinality(Done(tools)) /\ (MaxTools # 0 => count <= MaxTools)

(* The block that is open, when there is one.                                *)
Opened(a) == IF a.open = "none" THEN {} ELSE {a.next - 1}

(* The client that has seen everything knows where the assembler is.         *)
Level(d, a) ==
    /\ d \in Client /\ d.next = a.next /\ d.open = Opened(a)
    /\ "tool" \in d.kinds => a.saw

(* What a method has added so far can be sent to the client c, and leaves it *)
(* level with the assembler.                                                 *)
Sound(c, x) ==
    /\ x \in State
    /\ x.a.open # "none" => x.a.next # 0
    /\ \E d \in Client : Leads("one", c, x.out, d) /\ d.over = "no" /\ Level(d, x.a)

(* What the methods that emit text leave alone.                              *)
Kept(a, b) ==
    /\ a.tools = b.tools /\ a.count = b.count /\ a.saw = b.saw
    /\ a.requested = b.requested /\ a.seen = b.seen /\ a.over = b.over

LEMMA StateFields ==
    ASSUME NEW a \in Messages!Assembler, NEW out \in Seq(Frame)
    PROVE  [a |-> a, out |-> out] \in State
BY DEF State

(* Each method is sound when it is called in a sound state.                  *)
LEMMA SoundStopped ==
    ASSUME NEW c, NEW x, Sound(c, x)
    PROVE  /\ Sound(c, Messages!Stopped(x)) /\ Kept(Messages!Stopped(x).a, x.a)
           /\ Messages!Stopped(x).a.open = "none" /\ Messages!Stopped(x).a.next = x.a.next
           /\ Messages!Stopped(x).a.held = x.a.held
<1>1. CASE x.a.open = "none"
  BY <1>1, MessagesWords DEF Messages!Stopped, Kept
<1>2. CASE x.a.open # "none"
  <2> DEFINE i == x.a.next - 1
             e == Event("stop", x.a.open, i)
             b == [x.a EXCEPT !.open = "none"]
  <2>1. PICK d \in Client : Leads("one", c, x.out, d) /\ d.over = "no" /\ Level(d, x.a)
    BY DEF Sound
  <2>2. x.a \in Messages!Assembler /\ x.out \in Seq(Frame) /\ x.a.next \in Nat \ {0}
        /\ x.a.open \in {"text", "thinking"}
    BY <1>2, MessagesWords DEF Sound, State, Messages!Assembler
  <2>3. i \in Nat /\ d.open = {i} /\ d.next = x.a.next
    BY <1>2, <2>1, <2>2 DEF Level, Opened
  <2> DEFINE f == [d EXCEPT !.open = @ \ {i}]
  <2>4. f \in Client /\ Leads("one", d, <<e>>, f)
    BY <2>1, <2>3, Stops
  <2>5. f.open = {} /\ f.next = d.next /\ f.over = "no" /\ f.kinds = d.kinds
    BY <2>1, <2>3 DEF Client
  <2>6. e \in Frame
    BY <2>2, <2>3, EventType DEF Words, Kinds
  <2>7. /\ b \in Messages!Assembler /\ b.open = "none" /\ b.next = x.a.next /\ b.held = x.a.held
        /\ Kept(b, x.a)
    BY <2>2, MessagesWords DEF Messages!Assembler, Kept
  <2> HIDE DEF e, f, b
  <2>8. Leads("one", c, x.out \o <<e>>, f)
    <3>1. <<e>> \in Seq(Frame)
      BY <2>6
    <3> QED BY <2>1, <2>2, <2>4, <3>1, Then
  <2>9. Append(x.out, e) = x.out \o <<e>> /\ Append(x.out, e) \in Seq(Frame)
    BY <2>2, <2>6, AppendIsConcat
  <2>10. Level(f, b)
    BY <2>1, <2>3, <2>4, <2>5, <2>7 DEF Level, Opened, Kept
  <2> DEFINE y == [a |-> b, out |-> Append(x.out, e)]
  <2>11. y \in State /\ y.a = b /\ y.out = x.out \o <<e>>
    BY <2>7, <2>9, StateFields
  <2>12. Messages!Stopped(x) = y
    BY <1>2, MessagesWords DEF Messages!Stopped, e, b
  <2> HIDE DEF y
  <2>13. Sound(c, y)
    BY <2>4, <2>5, <2>7, <2>8, <2>10, <2>11 DEF Sound
  <2> QED BY <2>7, <2>11, <2>12, <2>13
<1> QED BY <1>1, <1>2

LEMMA SoundContinued ==
    ASSUME NEW c, NEW x, Sound(c, x), NEW kind \in {"text", "thinking"}
    PROVE  /\ Sound(c, Messages!Continued(x, kind)) /\ Kept(Messages!Continued(x, kind).a, x.a)
           /\ Messages!Continued(x, kind).a.held = x.a.held
<1>1. CASE x.a.open = kind
  <2> DEFINE i == x.a.next - 1
             e == Event("delta", kind, i)
  <2>1. PICK d \in Client : Leads("one", c, x.out, d) /\ d.over = "no" /\ Level(d, x.a)
    BY DEF Sound
  <2>2. x.a \in Messages!Assembler /\ x.out \in Seq(Frame) /\ x.a.next \in Nat \ {0}
    BY <1>1, MessagesWords DEF Sound, State, Messages!Assembler
  <2>3. i \in Nat /\ d.open = {i}
    BY <1>1, <2>1, <2>2 DEF Level, Opened
  <2>4. Leads("one", d, <<e>>, d)
    BY <2>1, <2>3, Continues
  <2>5. e \in Frame
    BY <2>3, EventType DEF Words, Kinds
  <2> HIDE DEF e
  <2>6. Leads("one", c, x.out \o <<e>>, d)
    <3>1. <<e>> \in Seq(Frame)
      BY <2>5
    <3> QED BY <2>1, <2>2, <2>4, <3>1, Then
  <2>7. Append(x.out, e) = x.out \o <<e>> /\ Append(x.out, e) \in Seq(Frame)
    BY <2>2, <2>5, AppendIsConcat
  <2> DEFINE y == [x EXCEPT !.out = Append(@, e)]
  <2>8. y \in State /\ y.a = x.a /\ y.out = x.out \o <<e>>
    BY <2>7 DEF Sound, State
  <2>9. Messages!Continued(x, kind) = y
    BY <1>1, MessagesWords DEF Messages!Continued, e
  <2> HIDE DEF y
  <2>10. Sound(c, y)
    BY <1>1, <2>1, <2>2, <2>6, <2>8 DEF Sound
  <2> QED BY <2>8, <2>9, <2>10 DEF Kept
<1>2. CASE x.a.open # kind
  <2> DEFINE y == Messages!Stopped(x)
             i == y.a.next
             s == Event("start", kind, i)
             t == Event("delta", kind, i)
             b == [y.a EXCEPT !.open = kind, !.next = @ + 1]
             z == [a |-> b, out |-> y.out \o <<s, t>>]
  <2>1. Sound(c, y) /\ Kept(y.a, x.a) /\ y.a.open = "none" /\ y.a.held = x.a.held
    BY SoundStopped
  <2>2. Messages!Continued(x, kind) = z
    BY <1>2, MessagesWords DEF Messages!Continued
  <2> HIDE DEF y
  <2>3. PICK d \in Client : Leads("one", c, y.out, d) /\ d.over = "no" /\ Level(d, y.a)
    BY <2>1 DEF Sound
  <2>4. y.a \in Messages!Assembler /\ y.out \in Seq(Frame) /\ i \in Nat
    BY <2>1, MessagesWords DEF Sound, State, Messages!Assembler
  <2>5. d.open = {} /\ d.next = i
    BY <2>1, <2>3 DEF Level, Opened
  <2> DEFINE f == [d EXCEPT !.open = @ \cup {i}, !.next = i + 1, !.kinds = @ \cup {kind}]
  <2>6. f \in Client /\ Leads("one", d, <<s>>, f)
    BY <2>3, <2>5, Starts
  <2>7. /\ f.open = {i} /\ f.next = i + 1 /\ f.over = "no"
        /\ ("tool" \in f.kinds => "tool" \in d.kinds)
    BY <2>3, <2>5 DEF Client
  <2>8. s \in Frame /\ t \in Frame
    <3>1. kind \in Words
      BY DEF Words, Kinds
    <3>2. \A k \in Nat : Event("start", kind, k) \in Frame /\ Event("delta", kind, k) \in Frame
      BY <3>1, EventType
    <3> QED BY <2>4, <3>2
  <2>9. /\ b \in Messages!Assembler /\ b.open = kind /\ b.next = i + 1 /\ b.held = y.a.held
        /\ Kept(b, y.a) /\ i + 1 \in Nat
    <3>1. i + 1 \in Nat
      BY <2>4
    <3> QED BY <2>4, <3>1, MessagesWords DEF Messages!Assembler, Kept
  <2> HIDE DEF f, b
  <2>10. Leads("one", f, <<t>>, f)
    BY <2>6, <2>7, Continues
  <2> HIDE DEF s, t, i
  <2>11. <<s, t>> = <<s>> \o <<t>> /\ <<s>> \in Seq(Frame) /\ <<t>> \in Seq(Frame)
         /\ <<s, t>> \in Seq(Frame)
    BY <2>8, Pair
  <2>12. Leads("one", d, <<s, t>>, f)
    BY <2>6, <2>10, <2>11, Then
  <2>13. Leads("one", c, y.out \o <<s, t>>, f)
    BY <2>3, <2>4, <2>11, <2>12, Then
  <2>14. y.out \o <<s, t>> \in Seq(Frame)
    BY <2>4, <2>11, ConcatProperties
  <2>15. Level(f, b)
    <3>1. i + 1 - 1 = i
      BY <2>4 DEF i
    <3>2. Opened(b) = {i}
      <4>1. b.open # "none" /\ b.next - 1 = i
        BY <2>4, <2>9 DEF i
      <4> QED BY <4>1 DEF Opened
    <3> QED BY <2>3, <2>6, <2>7, <2>9, <3>2 DEF Level, Kept
  <2>16. z \in State /\ z.a = b /\ z.out = y.out \o <<s, t>>
    BY <2>9, <2>14, StateFields
  <2> HIDE DEF z
  <2>17. Sound(c, z)
    <3>1. b.next # 0
      BY <2>4, <2>9 DEF i
    <3> QED BY <2>6, <2>7, <2>13, <2>15, <2>16, <3>1 DEF Sound
  <2>18. Kept(b, x.a) /\ b.held = x.a.held
    BY <2>1, <2>9 DEF Kept
  <2> QED BY <2>2, <2>16, <2>17, <2>18
<1> QED BY <1>1, <1>2

LEMMA SoundSaid ==
    ASSUME NEW c, NEW x, Sound(c, x), NEW piece
    PROVE  /\ Sound(c, Messages!Said(x, piece)) /\ Kept(Messages!Said(x, piece).a, x.a)
           /\ Messages!Said(x, piece).a.held = x.a.held
<1> DEFINE y == IF piece.reasoning THEN Messages!Continued(x, "thinking") ELSE x
<1>1. Messages!Said(x, piece) = IF piece.content THEN Messages!Continued(y, "text") ELSE y
  BY MessagesWords DEF Messages!Said
<1>2. Sound(c, y) /\ Kept(y.a, x.a) /\ y.a.held = x.a.held
  BY SoundContinued DEF Kept
<1> HIDE DEF y
<1>3. Sound(c, Messages!Continued(y, "text")) /\ Kept(Messages!Continued(y, "text").a, y.a)
      /\ Messages!Continued(y, "text").a.held = y.a.held
  BY <1>2, SoundContinued
<1> QED BY <1>1, <1>2, <1>3 DEF Kept

(* Several pieces, one after the other.                                      *)
LEMMA FlushedSteps ==
    ASSUME NEW x, NEW held, Len(held) \in Nat
    PROVE  \E f : /\ f = [n \in 0 .. Len(held) |->
                              IF n = 0 THEN x ELSE Messages!Said(f[n - 1], held[n])]
                  /\ Messages!Flushed(x, held) = f[Len(held)]
<1> DEFINE L == Len(held)
           Good(m) == m <= L => \E f : f = [n \in 0 .. m |-> IF n = 0 THEN x
                                                            ELSE Messages!Said(f[n - 1], held[n])]
<1>1. Good(0)
  <2> DEFINE f == [n \in 0 .. 0 |-> x]
  <2>1. f = [n \in 0 .. 0 |-> IF n = 0 THEN x ELSE Messages!Said(f[n - 1], held[n])]
    OBVIOUS
  <2> QED BY <2>1
<1>2. ASSUME NEW m \in Nat, Good(m) PROVE Good(m + 1)
  <2> SUFFICES ASSUME m + 1 <= L
               PROVE  \E f : f = [n \in 0 .. m + 1 |-> IF n = 0 THEN x
                                                       ELSE Messages!Said(f[n - 1], held[n])]
    OBVIOUS
  <2>1. PICK f : f = [n \in 0 .. m |-> IF n = 0 THEN x ELSE Messages!Said(f[n - 1], held[n])]
    BY <1>2
  <2> DEFINE g == [n \in 0 .. m + 1 |-> IF n <= m THEN f[n] ELSE Messages!Said(f[m], held[m + 1])]
  <2>2. ASSUME NEW n \in 0 .. m + 1
        PROVE  g[n] = IF n = 0 THEN x ELSE Messages!Said(g[n - 1], held[n])
    <3>1. CASE n = 0
      <4>1. g[0] = f[0]
        OBVIOUS
      <4>2. f[0] = x
        BY <2>1
      <4> QED BY <3>1, <4>1, <4>2
    <3>2. CASE n \in 1 .. m
      <4>1. g[n] = f[n] /\ g[n - 1] = f[n - 1] /\ n # 0 /\ n \in 0 .. m
        BY <3>2
      <4>2. f[n] = Messages!Said(f[n - 1], held[n])
        BY <2>1, <4>1
      <4> QED BY <4>1, <4>2
    <3>3. CASE n = m + 1
      <4>1. g[m + 1] = Messages!Said(f[m], held[m + 1]) /\ g[m] = f[m] /\ n - 1 = m /\ n # 0
        BY <3>3
      <4> QED BY <3>3, <4>1
    <3> QED BY <3>1, <3>2, <3>3
  <2>3. g = [n \in 0 .. m + 1 |-> g[n]]
    OBVIOUS
  <2> HIDE DEF g
  <2>4. g = [n \in 0 .. m + 1 |-> IF n = 0 THEN x ELSE Messages!Said(g[n - 1], held[n])]
    BY <2>2, <2>3
  <2> QED BY <2>4
<1> HIDE DEF Good
<1>3. Good(L)
  <2> SUFFICES ASSUME ~Good(L) PROVE FALSE
    OBVIOUS
  <2> DEFINE T == {m \in Nat : ~Good(m)}
  <2>1. PICK k \in T : \A m \in T : k <= m
    <3>1. L \in T /\ T \subseteq Nat
      OBVIOUS
    <3> HIDE DEF T
    <3> QED BY <3>1, Least
  <2>2. k # 0 /\ k - 1 \in Nat /\ k - 1 \notin T
    BY <1>1, <2>1
  <2>3. Good((k - 1) + 1) /\ (k - 1) + 1 = k
    BY <1>2, <2>2
  <2> QED BY <2>1, <2>3
<1>4. \E f : f = [n \in 0 .. L |-> IF n = 0 THEN x ELSE Messages!Said(f[n - 1], held[n])]
  BY <1>3 DEF Good
<1> DEFINE said[n \in 0 .. L] == IF n = 0 THEN x ELSE Messages!Said(said[n - 1], held[n])
<1>5. said = [n \in 0 .. L |-> IF n = 0 THEN x ELSE Messages!Said(said[n - 1], held[n])]
  BY <1>4
<1>6. Messages!Flushed(x, held) = said[L]
  BY MessagesWords DEF Messages!Flushed
<1> HIDE DEF said
<1> QED BY <1>5, <1>6

LEMMA SoundFlushed ==
    ASSUME NEW c, NEW x, Sound(c, x), NEW held \in Seq(Messages!Piece)
    PROVE  Sound(c, Messages!Flushed(x, held)) /\ Kept(Messages!Flushed(x, held).a, x.a)
<1>1. Len(held) \in Nat
  BY LenProperties
<1>2. PICK f : /\ f = [n \in 0 .. Len(held) |->
                           IF n = 0 THEN x ELSE Messages!Said(f[n - 1], held[n])]
               /\ Messages!Flushed(x, held) = f[Len(held)]
  BY <1>1, FlushedSteps
<1> DEFINE Good(m) == m <= Len(held) => Sound(c, f[m]) /\ Kept(f[m].a, x.a)
<1>3. Good(0)
  <2>1. f[0] = x
    BY <1>1, <1>2
  <2> QED BY <2>1 DEF Kept
<1>4. ASSUME NEW m \in Nat, Good(m) PROVE Good(m + 1)
  <2> SUFFICES ASSUME m + 1 <= Len(held)
               PROVE  Sound(c, f[m + 1]) /\ Kept(f[m + 1].a, x.a)
    OBVIOUS
  <2>1. Sound(c, f[m]) /\ Kept(f[m].a, x.a)
    BY <1>1, <1>4
  <2>2. f[m + 1] = Messages!Said(f[m], held[m + 1])
    <3>1. m + 1 \in 0 .. Len(held) /\ m + 1 # 0 /\ (m + 1) - 1 = m
      BY <1>1
    <3> QED BY <1>2, <3>1
  <2>3. Sound(c, Messages!Said(f[m], held[m + 1]))
        /\ Kept(Messages!Said(f[m], held[m + 1]).a, f[m].a)
    BY <2>1, SoundSaid
  <2> QED BY <2>1, <2>2, <2>3 DEF Kept
<1> HIDE DEF Good
<1>5. Good(Len(held))
  <2> SUFFICES ASSUME ~Good(Len(held)) PROVE FALSE
    OBVIOUS
  <2> DEFINE T == {m \in Nat : ~Good(m)}
  <2>1. PICK k \in T : \A m \in T : k <= m
    <3>1. Len(held) \in T /\ T \subseteq Nat
      BY <1>1
    <3> HIDE DEF T
    <3> QED BY <3>1, Least
  <2>2. k # 0 /\ k - 1 \in Nat /\ k - 1 \notin T
    BY <1>3, <2>1
  <2>3. Good((k - 1) + 1) /\ (k - 1) + 1 = k
    BY <1>4, <2>2
  <2> QED BY <2>1, <2>3
<1> QED BY <1>1, <1>2, <1>5 DEF Good

LEMMA SoundCalled ==
    ASSUME WireAssumption, NEW c, NEW x, Sound(c, x), x.a.open = "none", NEW ks,
           ks \subseteq Unsent(x.a.tools), x.a.count = Cardinality(Done(x.a.tools)),
           MaxTools # 0 => x.a.count + Cardinality(ks) <= MaxTools
    PROVE  LET y == Messages!Called(x, ks)
           IN  /\ Sound(c, y) /\ y.a.open = "none" /\ Tally(y.a.tools, y.a.count)
               /\ y.a.tools = Emitted(x.a.tools, ks) /\ y.a.count = x.a.count + Cardinality(ks)
               /\ y.a.count <= Cardinality(Tools) /\ y.a.saw = (x.a.saw \/ ks # {})
               /\ y.a.requested = x.a.requested /\ y.a.seen = x.a.seen
               /\ y.a.over = x.a.over
<1> DEFINE n == Cardinality(ks)
           y == Messages!Called(x, ks)
           b == [x.a EXCEPT !.tools = Emitted(@, ks), !.next = @ + n, !.count = @ + n,
                            !.saw = @ \/ ks # {}, !.held = IF ks = {} THEN @ ELSE <<>>]
           w == Blocks(n, x.a.next)
<1>1. PICK d \in Client : Leads("one", c, x.out, d) /\ d.over = "no" /\ Level(d, x.a)
  BY DEF Sound
<1>2. x.a \in Messages!Assembler /\ x.out \in Seq(Frame) /\ x.a.next \in Nat
      /\ x.a.tools \in [Tools -> Slot] /\ x.a.count \in Nat
  BY MessagesWords DEF Sound, State, Messages!Assembler
<1>3. /\ ks \subseteq Tools /\ n \in Nat /\ (n = 0 <=> ks = {})
      /\ Cardinality(Done(Emitted(x.a.tools, ks))) = Cardinality(Done(x.a.tools)) + n
      /\ Cardinality(Done(Emitted(x.a.tools, ks))) <= Cardinality(Tools)
  BY <1>2, EmittedCount
<1>4. Emitted(x.a.tools, ks) \in [Tools -> Slot]
  BY <1>2, <1>3, EmittedTypes
<1>5. y = [a |-> b, out |-> x.out \o w]
  BY MessagesWords DEF Messages!Called
<1> HIDE DEF y, n
<1>6. /\ b \in Messages!Assembler /\ b.open = "none" /\ b.next = x.a.next + n
      /\ b.tools = Emitted(x.a.tools, ks) /\ b.count = x.a.count + n
      /\ b.saw = (x.a.saw \/ ks # {})
      /\ b.requested = x.a.requested /\ b.seen = x.a.seen /\ b.over = x.a.over
  <2>1. x.a.next + n \in Nat /\ x.a.count + n \in Nat /\ (x.a.saw \/ ks # {}) \in BOOLEAN
        /\ (IF ks = {} THEN x.a.held ELSE <<>>) \in Seq(Messages!Piece)
    BY <1>2, <1>3, MessagesWords DEF Messages!Assembler
  <2> QED BY <1>2, <1>4, <2>1, MessagesWords DEF Messages!Assembler
<1> HIDE DEF b
<1> DEFINE f == After(d, n)
<1>7. d.open = {} /\ d.next = x.a.next
  BY <1>1 DEF Level, Opened
<1>8. f \in Client /\ Leads("one", d, w, f)
  BY <1>1, <1>3, <1>7, BlocksLead
<1>9. /\ f.open = {} /\ f.next = d.next + n /\ f.over = "no"
      /\ ("tool" \in f.kinds => "tool" \in d.kinds \/ n # 0)
  BY <1>1, <1>3, <1>7, AfterFields
<1>10. w \in Seq(Frame)
  BY <1>2, <1>3, BlocksType
<1> HIDE DEF w, f
<1>11. Leads("one", c, x.out \o w, f) /\ x.out \o w \in Seq(Frame)
  BY <1>1, <1>2, <1>8, <1>10, Then, ConcatProperties
<1>12. y \in State /\ y.a = b /\ y.out = x.out \o w
  BY <1>5, <1>6, <1>11, StateFields
<1>13. Level(f, b)
  BY <1>1, <1>3, <1>6, <1>7, <1>8, <1>9 DEF Level, Opened
<1>14. Sound(c, y)
  BY <1>6, <1>8, <1>9, <1>11, <1>12, <1>13 DEF Sound
<1>15. Tally(b.tools, b.count) /\ b.count <= Cardinality(Tools)
  BY <1>3, <1>6 DEF Tally, n
<1> QED BY <1>6, <1>12, <1>14, <1>15 DEF y, n

(* The limit: what is sent stays within it, and what is not is beyond it.    *)
LEMMA WithinBudget ==
    ASSUME WireAssumption, NEW tools \in [Tools -> Slot], NEW count \in Nat,
           Tally(tools, count), NEW ks, ks \subseteq Unsent(tools)
    PROVE  LET F == First(ks, Budget(count))
           IN  /\ F \subseteq ks /\ Cardinality(F) \in Nat
               /\ MaxTools # 0 => count + Cardinality(F) <= MaxTools
               /\ F # ks => Budget(count + Cardinality(F)) = 0
<1> DEFINE F == First(ks, Budget(count))
<1>1. IsFiniteSet(Tools) /\ Tools \subseteq Nat /\ MaxTools \in Nat
  BY DEF WireAssumption
<1>2. ks \in SUBSET Tools /\ IsFiniteSet(ks) /\ ks \subseteq Nat
  <2>1. ks \in SUBSET Tools
    BY DEF Unsent
  <2> QED BY <1>1, <2>1, FS_Subset
<1>3. Budget(count) \in Nat /\ Cardinality(Tools) \in Nat
  BY <1>1, FS_CardinalityType DEF Budget, Tally
<1>4. /\ F \subseteq ks /\ IsFiniteSet(F) /\ Cardinality(F) \in Nat
      /\ Cardinality(F) <= Budget(count)
      /\ F # ks => Cardinality(F) = Budget(count)
  <2> DEFINE n == Budget(count)
             G == First(ks, n)
  <2>1. n \in Int /\ n >= 0
    BY <1>3
  <2> HIDE DEF n
  <2>2. /\ G \subseteq ks /\ IsFiniteSet(G) /\ Cardinality(G) \in Nat
        /\ Cardinality(G) <= n /\ (G # ks => Cardinality(G) = n)
    BY <1>2, <2>1, FirstCount
  <2> QED BY <2>2 DEF n
<1> HIDE DEF F
<1>5. CASE MaxTools # 0
  BY <1>1, <1>3, <1>4, <1>5 DEF Budget, F
<1>6. CASE MaxTools = 0
  <2>1. ASSUME F # ks PROVE FALSE
    <3>1. Cardinality(F) = Cardinality(Tools)
      BY <1>4, <1>6, <2>1 DEF Budget
    <3>2. F \in SUBSET Tools
      BY <1>2, <1>4
    <3>3. F = Tools
      BY <1>1, <3>1, <3>2, FS_Subset
    <3> QED BY <1>2, <1>4, <2>1, <3>3
  <2> QED BY <1>4, <1>6, <2>1 DEF F
<1> QED BY <1>5, <1>6

(* What finish must have done: every complete tool call is sent, or the      *)
(* limit is reached.                                                         *)
Served(a) ==
    \A k \in Tools : Complete(a.tools[k]) => a.tools[k].done \/ Budget(a.count) = 0

(* What the client that has seen everything has to do with the assembler.    *)
Agrees(d, a) ==
    /\ d.over = "no" <=> ~a.over
    /\ d.over # "error" => Level(d, a)
    /\ d.over = "end" => Served(a) /\ ("tool" \in d.kinds => d.reason = "tool_use")

(* The invariant: what is on the wire leads the client to where the          *)
(* assembler believes it is.                                                 *)
MessagesInv ==
    /\ Messages!TypeOK
    /\ Tally(asm.tools, asm.count)
    /\ asm.open # "none" => asm.next # 0
    /\ \E d \in Client : Leads("one", aClient, aWire, d) /\ Agrees(d, asm)

(* Before anything is added the client is where the assembler is.            *)
LEMMA Begun ==
    ASSUME MessagesInv, ~asm.over, aWire = <<>>, NEW a \in Messages!Assembler,
           a.next = asm.next, a.open = asm.open, a.saw = asm.saw
    PROVE  Sound(aClient, [a |-> a, out |-> <<>>]) /\ aClient.over = "no"
<1>1. PICK d \in Client : Leads("one", aClient, aWire, d) /\ Agrees(d, asm)
  BY DEF MessagesInv
<1>2. d = aClient
  BY <1>1, Silent
<1>3. aClient.over = "no" /\ Level(aClient, asm)
  BY <1>1, <1>2 DEF Agrees
<1>4. Level(aClient, a)
  BY <1>3 DEF Level, Opened
<1>5. Leads("one", aClient, <<>>, aClient)
  BY <1>1, <1>2
<1>6. <<>> \in Seq(Frame)
  OBVIOUS
<1> DEFINE x == [a |-> a, out |-> <<>>]
<1>7. x \in State /\ x.a = a /\ x.out = <<>>
  BY <1>6, StateFields
<1> HIDE DEF x
<1>8. Sound(aClient, x)
  BY <1>1, <1>2, <1>3, <1>4, <1>5, <1>7 DEF Sound, MessagesInv
<1> QED BY <1>3, <1>8 DEF x

LEMMA Holding ==
    ASSUME NEW a, NEW out, NEW held
    PROVE  [[a |-> a, out |-> out] EXCEPT !.a.held = held]
                = [a |-> [a EXCEPT !.held = held], out |-> out]
OBVIOUS

LEMMA SoundWorded ==
    ASSUME MessagesInv, ~asm.over, aWire = <<>>, NEW piece \in Messages!Piece
    PROVE  LET x == Messages!Worded(piece)
           IN  /\ Sound(aClient, x) /\ x.a.tools = asm.tools /\ x.a.count = asm.count
               /\ x.a.saw = asm.saw /\ x.a.over = asm.over
<1> DEFINE a == [asm EXCEPT !.seen = TRUE]
           x == [a |-> a, out |-> <<>>]
<1>0. asm \in Messages!Assembler
  BY MessagesWords, MessagesTypes DEF MessagesInv
<1>1. /\ a \in Messages!Assembler /\ a.next = asm.next /\ a.open = asm.open /\ a.saw = asm.saw
      /\ a.tools = asm.tools /\ a.count = asm.count /\ a.over = asm.over /\ a.held = asm.held
  BY <1>0, MessagesWords DEF Messages!Assembler
<1>2. Sound(aClient, x)
  BY <1>1, Begun
<1>3. x.a = a /\ x.out = <<>>
  OBVIOUS
<1> DEFINE b == [a EXCEPT !.held = Append(@, piece)]
           y == [x EXCEPT !.a.held = Append(@, piece)]
<1>4. /\ b \in Messages!Assembler /\ b.next = asm.next /\ b.open = asm.open /\ b.saw = asm.saw
      /\ b.tools = asm.tools /\ b.count = asm.count /\ b.over = asm.over
  <2>1. Append(asm.held, piece) \in Seq(Messages!Piece)
    BY <1>0, AppendProperties, MessagesWords DEF Messages!Assembler
  <2> QED BY <1>1, <2>1, MessagesWords DEF Messages!Assembler
<1>5. y = [a |-> b, out |-> <<>>]
  <2> HIDE DEF a
  <2> QED BY Holding, SMTT(60)
<1>6. Sound(aClient, y) /\ y.a = b
  BY <1>4, <1>5, Begun
<1>7. Messages!Worded(piece) = IF ~asm.requested THEN Messages!Said(x, piece)
                      ELSE IF asm.saw \/ ~(piece.content \/ piece.reasoning) THEN x ELSE y
  BY MessagesWords DEF Messages!Worded
<1> HIDE DEF a, b, x, y
<1>8. Sound(aClient, Messages!Said(x, piece)) /\ Kept(Messages!Said(x, piece).a, x.a)
  BY <1>2, SoundSaid
<1> QED BY <1>1, <1>2, <1>3, <1>4, <1>6, <1>7, <1>8 DEF Kept

(* What is added can be sent.                                                *)
LEMMA Added ==
    ASSUME WireAssumption, MessagesInv, NEW x, Sound(aClient, x), ~x.a.over,
           Tally(x.a.tools, x.a.count), asm' = x.a, aWire' = x.out, aClient' = aClient
    PROVE  MessagesInv'
<1>1. x.a \in Messages!Assembler /\ x.out \in Seq(Frame)
  BY DEF Sound, State
<1>2. PICK d \in Client : Leads("one", aClient, x.out, d) /\ d.over = "no" /\ Level(d, x.a)
  BY DEF Sound
<1>3. Agrees(d, x.a)
  BY <1>2 DEF Agrees
<1>4. x.a.count <= Cardinality(Tools)
  BY DoneBounded DEF Tally
<1>5. Messages!TypeOK'
  BY <1>1, <1>4, MessagesWords, MessagesTypes DEF MessagesInv
<1>6. (\E e \in Client : Leads("one", aClient, aWire, e) /\ Agrees(e, asm))'
  BY <1>2, <1>3
<1> QED BY <1>5, <1>6 DEF MessagesInv, Sound

LEMMA SoundWith ==
    ASSUME NEW c, NEW x, Sound(c, x), NEW b \in Messages!Assembler,
           b.next = x.a.next, b.open = x.a.open, b.saw = x.a.saw
    PROVE  Sound(c, [a |-> b, out |-> x.out])
<1>1. x.out \in Seq(Frame)
  BY DEF Sound, State
<1> DEFINE y == [a |-> b, out |-> x.out]
<1>2. y \in State /\ y.a = b /\ y.out = x.out
  BY <1>1, StateFields
<1>3. \A d : Level(d, x.a) => Level(d, b)
  BY DEF Level, Opened
<1> HIDE DEF y
<1>4. Sound(c, y)
  BY <1>2, <1>3 DEF Sound
<1> QED BY <1>4 DEF y

LEMMA Parts ==
    ASSUME NEW x \in State
    PROVE  /\ \A h : [x EXCEPT !.a.held = h] = [a |-> [x.a EXCEPT !.held = h], out |-> x.out]
           /\ \A t : [x EXCEPT !.a.tools = t] = [a |-> [x.a EXCEPT !.tools = t], out |-> x.out]
<1> DEFINE y == [a |-> x.a, out |-> x.out]
<1>1. x = y
  BY DEF State
<1>2. /\ \A h : [y EXCEPT !.a.held = h] = [a |-> [x.a EXCEPT !.held = h], out |-> x.out]
      /\ \A t : [y EXCEPT !.a.tools = t] = [a |-> [x.a EXCEPT !.tools = t], out |-> x.out]
  OBVIOUS
<1> HIDE DEF y
<1> QED BY <1>1, <1>2

LEMMA SoundPreface ==
    ASSUME MessagesInv, ~asm.over, aWire = <<>>
    PROVE  LET x == Messages!Preface([a |-> asm, out |-> <<>>])
           IN  Sound(aClient, x) /\ Kept(x.a, asm)
<1> DEFINE x == [a |-> asm, out |-> <<>>]
<1>1. asm \in Messages!Assembler /\ asm.held \in Seq(Messages!Piece)
  BY MessagesWords, MessagesTypes DEF MessagesInv, Messages!Assembler
<1>2. Sound(aClient, x) /\ x.a = asm
  BY <1>1, Begun
<1>3. ASSUME NEW y, Sound(aClient, y), Kept(y.a, asm)
      PROVE  Sound(aClient, [y EXCEPT !.a.held = <<>>])
             /\ Kept([y EXCEPT !.a.held = <<>>].a, asm)
  <2> DEFINE b == [y.a EXCEPT !.held = <<>>]
  <2>1. y \in State /\ y.a \in Messages!Assembler
    BY <1>3 DEF Sound, State
  <2>2. <<>> \in Seq(Messages!Piece)
    OBVIOUS
  <2>3. /\ b \in Messages!Assembler /\ b.next = y.a.next /\ b.open = y.a.open /\ b.saw = y.a.saw
        /\ Kept(b, y.a)
    BY <2>1, <2>2, MessagesWords DEF Messages!Assembler, Kept
  <2>4. [y EXCEPT !.a.held = <<>>] = [a |-> b, out |-> y.out]
    BY <2>1, Parts
  <2> HIDE DEF b
  <2>5. Sound(aClient, [a |-> b, out |-> y.out])
    BY <1>3, <2>3, SoundWith
  <2>6. Kept(b, asm)
    BY <1>3, <2>3 DEF Kept
  <2> QED BY <2>4, <2>5, <2>6
<1>4. Sound(aClient, Messages!Flushed(x, asm.held)) /\ Kept(Messages!Flushed(x, asm.held).a, asm)
  <2> HIDE DEF x
  <2> QED BY <1>1, <1>2, SoundFlushed
<1>5. Kept(asm, asm)
  BY DEF Kept
<1> HIDE DEF x
<1>6. Messages!Preface(x) = [x EXCEPT !.a.held = <<>>]
      \/ Messages!Preface(x) = [Messages!Flushed(x, asm.held) EXCEPT !.a.held = <<>>]
  BY MessagesWords DEF Messages!Preface
<1>7. Sound(aClient, Messages!Preface(x)) /\ Kept(Messages!Preface(x).a, asm)
  BY <1>2, <1>3, <1>4, <1>5, <1>6
<1> QED BY <1>7 DEF x

LEMMA MessagesFeedText ==
    ASSUME WireAssumption, MessagesInv, NEW piece \in Messages!Piece, Messages!FeedText(piece)
    PROVE  MessagesInv'
<1>1. /\ ~asm.over /\ aWire = <<>> /\ aClient' = aClient
      /\ asm' = Messages!Worded(piece).a /\ aWire' = Messages!Worded(piece).out
  BY MessagesWords DEF Messages!FeedText
<1> DEFINE x == Messages!Worded(piece)
<1>2. /\ Sound(aClient, x) /\ x.a.tools = asm.tools /\ x.a.count = asm.count
      /\ x.a.over = asm.over
  BY <1>1, SoundWorded
<1> HIDE DEF x
<1>3. Tally(x.a.tools, x.a.count)
  BY <1>2 DEF MessagesInv
<1> QED BY <1>1, <1>2, <1>3, Added DEF x

LEMMA MessagesFeedTools ==
    ASSUME WireAssumption, MessagesInv, NEW piece \in Messages!Piece,
           NEW ks \in SUBSET Tools, Messages!FeedTools(piece, ks)
    PROVE  MessagesInv'
<1>1. ~asm.over /\ aWire = <<>> /\ aClient' = aClient
  BY MessagesWords DEF Messages!FeedTools
<1> DEFINE x == Messages!Stopped(Messages!Worded(piece))
           tools(new) == [k \in Tools |-> IF k \in ks THEN [new[k] EXCEPT !.id = TRUE]
                                                      ELSE new[k]]
           y(new) == Messages!Called([x EXCEPT !.a.tools = tools(new)],
                            First(Ready(tools(new)), Budget(asm.count)))
<1>2. PICK new \in Ingested(asm.tools, ks) : asm' = y(new).a /\ aWire' = y(new).out
  BY MessagesWords DEF Messages!FeedTools
<1>3. asm.tools \in [Tools -> Slot] /\ asm.count \in Nat /\ Tally(asm.tools, asm.count)
  BY MessagesWords, MessagesTypes DEF MessagesInv, Messages!Assembler
<1>4. new \in [Tools -> Slot] /\ \A k \in Tools : new[k].done = asm.tools[k].done
  BY <1>3, IngestedTypes
<1> DEFINE t == tools(new)
<1>5. /\ t \in [Tools -> Slot]
      /\ \A k \in Tools : t[k].done = asm.tools[k].done
  <2>1. ASSUME NEW k \in Tools PROVE t[k] \in Slot /\ t[k].done = new[k].done
    <3>1. new[k] \in Slot
      BY <1>4
    <3>2. [new[k] EXCEPT !.id = TRUE] \in Slot /\ [new[k] EXCEPT !.id = TRUE].done = new[k].done
      BY <3>1 DEF Slot
    <3> QED BY <3>1, <3>2
  <2>2. t = [k \in Tools |-> t[k]]
    OBVIOUS
  <2> HIDE DEF t
  <2> QED BY <1>4, <2>1, <2>2
<1>6. Done(t) = Done(asm.tools)
  BY <1>5 DEF Done
<1>7. /\ Sound(aClient, x) /\ x.a.open = "none" /\ x.a.tools = asm.tools
      /\ x.a.count = asm.count /\ x.a.over = asm.over
  <2> DEFINE u == Messages!Worded(piece)
  <2>1. /\ Sound(aClient, u) /\ u.a.tools = asm.tools /\ u.a.count = asm.count
        /\ u.a.over = asm.over
    BY <1>1, SoundWorded
  <2> HIDE DEF u
  <2>2. Sound(aClient, Messages!Stopped(u)) /\ Kept(Messages!Stopped(u).a, u.a)
        /\ Messages!Stopped(u).a.open = "none"
    BY <2>1, SoundStopped
  <2> QED BY <2>1, <2>2 DEF Kept, u
<1> HIDE DEF t
<1> DEFINE b == [x.a EXCEPT !.tools = t]
           z == [a |-> b, out |-> x.out]
           F == First(Ready(t), Budget(asm.count))
<1>8. asm' = Messages!Called([x EXCEPT !.a.tools = t], F).a
      /\ aWire' = Messages!Called([x EXCEPT !.a.tools = t], F).out
  BY <1>2 DEF t
<1> HIDE DEF x, tools, y
<1>9. x \in State /\ x.a \in Messages!Assembler
  BY <1>7 DEF Sound, State
<1>10. [x EXCEPT !.a.tools = t] = z
  BY <1>9, Parts
<1>11. /\ b \in Messages!Assembler /\ b.next = x.a.next /\ b.open = x.a.open /\ b.saw = x.a.saw
       /\ b.tools = t /\ b.count = asm.count /\ b.over = asm.over
  BY <1>5, <1>7, <1>9, MessagesWords DEF Messages!Assembler
<1> HIDE DEF b
<1>12. Sound(aClient, z) /\ z.a = b
  BY <1>7, <1>11, SoundWith
<1> HIDE DEF z
<1>13. Tally(t, asm.count)
  BY <1>3, <1>6 DEF Tally
<1>14. Ready(t) \subseteq Unsent(t)
  BY DEF Ready
<1>15. /\ F \subseteq Ready(t)
       /\ MaxTools # 0 => asm.count + Cardinality(F) <= MaxTools
  BY <1>3, <1>5, <1>13, <1>14, WithinBudget
<1> HIDE DEF F
<1>16. /\ F \subseteq Unsent(z.a.tools) /\ z.a.open = "none"
       /\ z.a.count = Cardinality(Done(z.a.tools))
       /\ MaxTools # 0 => z.a.count + Cardinality(F) <= MaxTools
  BY <1>7, <1>11, <1>12, <1>13, <1>14, <1>15 DEF Tally
<1> DEFINE w == Messages!Called(z, F)
<1>17. Sound(aClient, w) /\ Tally(w.a.tools, w.a.count) /\ w.a.over = z.a.over
  BY <1>12, <1>16, SoundCalled
<1>18. asm' = w.a /\ aWire' = w.out
  BY <1>8, <1>10
<1> HIDE DEF w
<1> QED BY <1>1, <1>11, <1>12, <1>17, <1>18, Added

LEMMA MessagesFinish ==
    ASSUME WireAssumption, MessagesInv, NEW finish \in {"stop", "length", "tool_calls"},
           Messages!Finish(finish)
    PROVE  MessagesInv'
<1> DEFINE x == Messages!Stopped(Messages!Preface([a |-> asm, out |-> <<>>]))
           y == Messages!Called(x, Messages!Left)
           reason == Messages!StopReason(finish, y.a.saw)
           e == Event("end", reason, 0)
           b == [y.a EXCEPT !.over = TRUE]
           L == {k \in Unsent(asm.tools) : asm.tools[k].name \/ asm.tools[k].args # "none"}
<1>1. ~asm.over /\ aWire = <<>> /\ aClient' = aClient /\ asm' = b /\ aWire' = Append(y.out, e)
  BY MessagesWords DEF Messages!Finish
<1>2. asm.tools \in [Tools -> Slot] /\ asm.count \in Nat /\ Tally(asm.tools, asm.count)
  BY MessagesWords, MessagesTypes DEF MessagesInv, Messages!Assembler
<1>3. /\ Sound(aClient, x) /\ x.a.open = "none" /\ x.a.tools = asm.tools
      /\ x.a.count = asm.count /\ x.a.saw = asm.saw
  <2> DEFINE u == Messages!Preface([a |-> asm, out |-> <<>>])
  <2>1. Sound(aClient, u) /\ Kept(u.a, asm)
    BY <1>1, SoundPreface
  <2> HIDE DEF u
  <2>2. Sound(aClient, Messages!Stopped(u)) /\ Kept(Messages!Stopped(u).a, u.a)
        /\ Messages!Stopped(u).a.open = "none"
    BY <2>1, SoundStopped
  <2> QED BY <2>1, <2>2 DEF Kept, u
<1> HIDE DEF x
<1>4. L \subseteq Unsent(asm.tools)
  OBVIOUS
<1>5. Messages!Left = First(L, Budget(asm.count))
  BY MessagesWords DEF Messages!Left
<1> HIDE DEF L
<1>6. /\ Messages!Left \subseteq L
      /\ MaxTools # 0 => asm.count + Cardinality(Messages!Left) <= MaxTools
      /\ Messages!Left # L => Budget(asm.count + Cardinality(Messages!Left)) = 0
  BY <1>2, <1>4, <1>5, WithinBudget
<1>7. /\ Messages!Left \subseteq Unsent(x.a.tools) /\ x.a.count = Cardinality(Done(x.a.tools))
      /\ MaxTools # 0 => x.a.count + Cardinality(Messages!Left) <= MaxTools
  BY <1>2, <1>3, <1>4, <1>6 DEF Tally
<1>8. /\ Sound(aClient, y) /\ y.a.open = "none" /\ Tally(y.a.tools, y.a.count)
      /\ y.a.tools = Emitted(asm.tools, Messages!Left)
      /\ y.a.count = asm.count + Cardinality(Messages!Left)
      /\ y.a.count <= Cardinality(Tools)
  BY <1>3, <1>7, SoundCalled
<1> HIDE DEF y
<1>9. Served(y.a)
  <2> SUFFICES ASSUME NEW k \in Tools, Complete(y.a.tools[k]), ~y.a.tools[k].done
               PROVE  Budget(y.a.count) = 0
    BY DEF Served
  <2>1. Messages!Left \subseteq Tools
    BY <1>3, <1>7 DEF Unsent
  <2>2. k \notin Messages!Left /\ ~asm.tools[k].done /\ Complete(asm.tools[k])
    <3>1. Done(y.a.tools) = Done(asm.tools) \cup Messages!Left
      BY <1>2, <1>8, <2>1, EmittedTypes
    <3>2. Complete(asm.tools[k])
      BY <1>2, <1>8, <2>1, EmittedTypes
    <3> QED BY <3>1, <3>2 DEF Done
  <2>3. k \in L
    BY <2>2 DEF L, Unsent, Known, Complete
  <2> QED BY <1>6, <1>8, <2>2, <2>3
<1>10. PICK d \in Client : Leads("one", aClient, y.out, d) /\ d.over = "no" /\ Level(d, y.a)
  BY <1>8 DEF Sound
<1>11. y.a \in Messages!Assembler /\ y.out \in Seq(Frame)
  BY <1>8 DEF Sound, State
<1>12. /\ b \in Messages!Assembler /\ b.open = "none" /\ b.next = y.a.next /\ b.saw = y.a.saw
       /\ b.tools = y.a.tools /\ b.count = y.a.count /\ b.over
  BY <1>8, <1>11, MessagesWords DEF Messages!Assembler
<1>13. d.open = {}
  BY <1>8, <1>10 DEF Level, Opened
<1>14. reason \in Reasons /\ (y.a.saw => reason = "tool_use")
  BY MessagesWords DEF Messages!StopReason, Reasons
<1> DEFINE f == [d EXCEPT !.over = "end", !.reason = reason]
<1> HIDE DEF reason, b
<1>15. f \in Client /\ Leads("one", d, <<e>>, f)
  BY <1>10, <1>13, <1>14, Ends
<1>16. /\ f.open = {} /\ f.next = d.next /\ f.kinds = d.kinds /\ f.over = "end"
       /\ f.reason = reason
  BY <1>13 DEF Client
<1>17. e \in Frame
  BY <1>14, EventType DEF Words
<1> HIDE DEF e, f
<1>18. <<e>> \in Seq(Frame) /\ Append(y.out, e) = y.out \o <<e>> /\ y.out \o <<e>> \in Seq(Frame)
  BY <1>11, <1>17, AppendIsConcat, AppendProperties
<1>19. Leads("one", aClient, y.out \o <<e>>, f)
  BY <1>10, <1>11, <1>15, <1>18, Then
<1>20. Agrees(f, b)
  <2>1. Served(b)
    BY <1>9, <1>12 DEF Served
  <2>2. Level(f, b)
    BY <1>10, <1>12, <1>13, <1>15, <1>16 DEF Level, Opened
  <2>3. "tool" \in f.kinds => f.reason = "tool_use"
    BY <1>10, <1>14, <1>16 DEF Level
  <2> QED BY <1>12, <1>16, <2>1, <2>2, <2>3 DEF Agrees
<1>21. Messages!TypeOK'
  BY <1>1, <1>8, <1>12, <1>18, MessagesWords, MessagesTypes DEF MessagesInv
<1>22. (\E g \in Client : Leads("one", aClient, aWire, g) /\ Agrees(g, asm))'
  BY <1>1, <1>15, <1>18, <1>19, <1>20
<1> QED BY <1>1, <1>8, <1>12, <1>21, <1>22 DEF MessagesInv

LEMMA MessagesFail ==
    ASSUME WireAssumption, MessagesInv, Messages!Fail PROVE MessagesInv'
<1> DEFINE e == Event("error", "api_error", 0)
           d == [aClient EXCEPT !.over = "error"]
           b == [asm EXCEPT !.over = TRUE]
<1>1. aClient.over = "no" /\ aClient' = aClient /\ asm' = b /\ aWire' = <<e>>
  BY MessagesWords DEF Messages!Fail
<1>2. asm \in Messages!Assembler /\ aClient \in Client
  BY MessagesWords, MessagesTypes DEF MessagesInv
<1>3. /\ b \in Messages!Assembler /\ b.over /\ b.tools = asm.tools /\ b.count = asm.count
      /\ b.open = asm.open /\ b.next = asm.next
  BY <1>2, MessagesWords DEF Messages!Assembler
<1>4. e.ev = "error" /\ e \in Frame
  <2>1. "api_error" \in Words /\ 0 \in Nat
    BY DEF Words, Errors
  <2> QED BY <2>1, EventType
<1> HIDE DEF b, e
<1>5. d \in Client /\ Leads("one", aClient, <<e>>, d)
  BY <1>1, <1>2, <1>4, Breaks
<1>6. d.over = "error"
  BY <1>2 DEF Client
<1> HIDE DEF d
<1>7. Agrees(d, b)
  BY <1>3, <1>6 DEF Agrees
<1>8. <<e>> \in Seq(Frame)
  BY <1>4
<1>9. Messages!TypeOK'
  BY <1>1, <1>3, <1>8, MessagesWords, MessagesTypes DEF MessagesInv
<1>10. (\E g \in Client : Leads("one", aClient, aWire, g) /\ Agrees(g, asm))'
  BY <1>1, <1>5, <1>7
<1> QED BY <1>1, <1>3, <1>9, <1>10 DEF MessagesInv

LEMMA MessagesSend ==
    ASSUME MessagesInv, Messages!Send
    PROVE  MessagesInv' /\ Follows("one", aClient, Head(aWire))
           /\ aClient' = Receive(aClient, Head(aWire))
<1>1. PICK d \in Client : Leads("one", aClient, aWire, d) /\ Agrees(d, asm)
  BY DEF MessagesInv
<1>2. aWire \in Seq(Frame) /\ aWire # <<>>
  BY MessagesWords, MessagesTypes DEF MessagesInv, Messages!Send
<1>3. /\ Follows("one", aClient, Head(aWire)) /\ Receive(aClient, Head(aWire)) \in Client
      /\ Leads("one", Receive(aClient, Head(aWire)), Tail(aWire), d)
  BY <1>1, <1>2, Sent
<1>4. asm' = asm /\ aClient' = Receive(aClient, Head(aWire)) /\ aWire' = Tail(aWire)
  BY MessagesWords DEF Messages!Send
<1>5. Tail(aWire) \in Seq(Frame)
  BY <1>2, HeadTailProperties
<1>6. Messages!TypeOK'
  BY <1>3, <1>4, <1>5, MessagesWords, MessagesTypes DEF MessagesInv
<1>7. (\E g \in Client : Leads("one", aClient, aWire, g) /\ Agrees(g, asm))'
  BY <1>1, <1>3, <1>4
<1> QED BY <1>3, <1>4, <1>6, <1>7 DEF MessagesInv

LEMMA MessagesInit == ASSUME WireAssumption, Messages!Init PROVE MessagesInv
<1>1. PICK req \in BOOLEAN :
        asm = [next |-> 0, open |-> "none", held |-> <<>>,
               tools |-> [k \in Tools |-> NoSlot], saw |-> FALSE, count |-> 0,
               requested |-> req, seen |-> FALSE, over |-> FALSE]
  BY MessagesWords DEF Messages!Init
<1>2. aWire = <<>> /\ aClient = NewClient
  BY MessagesWords DEF Messages!Init
<1>3. NoSlot \in Slot /\ ~NoSlot.done
  BY DEF NoSlot, Slot, Args
<1>4. [k \in Tools |-> NoSlot] \in [Tools -> Slot] /\ <<>> \in Seq(Messages!Piece)
  BY <1>3
<1>5. asm \in Messages!Assembler
  BY <1>1, <1>4, MessagesWords DEF Messages!Assembler
<1>6. asm.open = "none" /\ asm.next = 0 /\ asm.count = 0 /\ ~asm.over
      /\ asm.tools = [k \in Tools |-> NoSlot]
  BY <1>1
<1>7. /\ aClient \in Client /\ aClient.open = {} /\ aClient.next = 0 /\ aClient.over = "no"
      /\ aClient.kinds = {}
  BY <1>2 DEF Client, NewClient
<1>8. Done(asm.tools) = {}
  BY <1>3, <1>6 DEF Done
<1>9. Tally(asm.tools, asm.count)
  <2>1. Cardinality(Done(asm.tools)) = 0
    BY <1>8, FS_EmptySet
  <2>2. MaxTools \in Nat
    BY DEF WireAssumption
  <2> QED BY <1>6, <2>1, <2>2 DEF Tally
<1>10. 0 <= Cardinality(Tools)
  BY FS_CardinalityType DEF WireAssumption
<1>11. Messages!TypeOK
  <2>1. <<>> \in Seq(Frame)
    OBVIOUS
  <2> QED BY <1>2, <1>5, <1>6, <1>7, <1>10, <2>1, MessagesWords, MessagesTypes
<1>12. Leads("one", aClient, aWire, aClient)
  BY <1>2, <1>7, Stay
<1>13. Agrees(aClient, asm)
  BY <1>6, <1>7 DEF Agrees, Level, Opened
<1> QED BY <1>6, <1>7, <1>9, <1>11, <1>12, <1>13 DEF MessagesInv

LEMMA MessagesStep ==
    ASSUME WireAssumption, MessagesInv, [Messages!Next]_Messages!vars PROVE MessagesInv'
<1>1. ASSUME NEW piece \in Messages!Piece, Messages!FeedText(piece) PROVE MessagesInv'
  BY <1>1, MessagesFeedText
<1>2. ASSUME NEW piece \in Messages!Piece, NEW ks \in SUBSET Tools \ {{}},
             Messages!FeedTools(piece, ks)
      PROVE  MessagesInv'
  BY <1>2, MessagesFeedTools
<1>3. ASSUME NEW finish \in {"stop", "length", "tool_calls"}, Messages!Finish(finish)
      PROVE  MessagesInv'
  BY <1>3, MessagesFinish
<1>4. CASE Messages!Fail
  BY <1>4, MessagesFail
<1>5. CASE Messages!Send
  BY <1>5, MessagesSend
<1>6. CASE UNCHANGED Messages!vars
  BY <1>6, MessagesWords, MessagesTypes DEF Messages!vars, MessagesInv
<1> QED BY <1>1, <1>2, <1>3, <1>4, <1>5, <1>6, MessagesWords DEF Messages!Next

LEMMA MessagesServed == ASSUME MessagesInv PROVE Messages!TypeOK /\ Messages!ToolsDelivered
<1>1. PICK d \in Client : Leads("one", aClient, aWire, d) /\ Agrees(d, asm)
  BY DEF MessagesInv
<1>2. ASSUME aClient.over = "end" PROVE d = aClient
  <2>1. aWire \in Seq(Frame)
    BY MessagesWords, MessagesTypes DEF MessagesInv
  <2>2. ASSUME aWire # <<>> PROVE FALSE
    <3>1. Follows("one", aClient, Head(aWire))
      BY <1>1, <2>1, <2>2, Sent
    <3> QED BY <1>2, <3>1 DEF Follows
  <2> QED BY <1>1, <2>2, Silent
<1> QED BY <1>1, <1>2, MessagesWords DEF MessagesInv, Messages!ToolsDelivered, Agrees, Served

LEMMA MessagesFollow ==
    ASSUME MessagesInv, [Messages!Next]_Messages!vars
    PROVE  [Messages!CB!Next]_<<aClient.open, aClient.next, aClient.over>>
<1>1. CASE Messages!Send
  <2>1. Follows("one", aClient, Head(aWire)) /\ aClient' = Receive(aClient, Head(aWire))
    BY <1>1, MessagesSend
  <2>2. aClient \in Client
    BY MessagesWords, MessagesTypes DEF MessagesInv
  <2> QED BY <2>1, <2>2, BlockSteps, MessagesWords
          DEF Messages!CB!Next, Messages!CB!Open, Messages!CB!Close, Messages!CB!End,
              Messages!CB!Break
<1>2. CASE UNCHANGED aClient
  BY <1>2
<1> QED BY <1>1, <1>2, MessagesWords
        DEF Messages!Next, Messages!FeedText, Messages!FeedTools, Messages!Finish,
            Messages!Fail, Messages!vars

LEMMA MessagesBegin == ASSUME Messages!Init PROVE Messages!CB!Init
BY MessagesWords DEF Messages!Init, NewClient, Messages!CB!Init

-----------------------------------------------------------------------------
(* /v1/responses                                                             *)

(* The instance speaks of the tool calls and of the wire as StreamWire does. *)
LEMMA ResponsesWords ==
    /\ Responses!Slot = Slot /\ Responses!NoSlot = NoSlot /\ Responses!Frame = Frame
    /\ Responses!Client = Client /\ Responses!NewClient = NewClient
    /\ \A ev, kind, i : Responses!Event(ev, kind, i) = Event(ev, kind, i)
    /\ \A n, i : Responses!Blocks(n, i) = Blocks(n, i)
    /\ \A c, e : Responses!Receive(c, e) = Receive(c, e)
    /\ \A s : Responses!Known(s) = Known(s) /\ Responses!Complete(s) = Complete(s)
    /\ \A s : Responses!Deltas(s) = Deltas(s)
    /\ \A f : Responses!Chosen(f) = Chosen(f)
    /\ \A t, ks : Responses!Ingested(t, ks) = Ingested(t, ks)
    /\ \A t, ks : Responses!Emitted(t, ks) = Emitted(t, ks)
    /\ \A t : Responses!Unsent(t) = Unsent(t) /\ Responses!Ready(t) = Ready(t)
    /\ \A S : Responses!Cardinality(S) = Cardinality(S)
    /\ \A n : Responses!Budget(n) = Budget(n)
    /\ \A ks, n : Responses!First(ks, n) = First(ks, n)
<1>1. Responses!Slot = Slot /\ Responses!NoSlot = NoSlot /\ Responses!Args = Args
  BY DEF Responses!Slot, Slot, Responses!NoSlot, NoSlot, Responses!Args, Args
<1>2. Responses!Kinds = Kinds /\ Responses!Reasons = Reasons /\ Responses!Errors = Errors
      /\ Responses!Block = Block
  BY DEF Responses!Kinds, Kinds, Responses!Reasons, Reasons, Responses!Errors, Errors,
      Responses!Block, Block
<1>3. Responses!Frame = Frame /\ Responses!Client = Client /\ Responses!NewClient = NewClient
  BY <1>2 DEF Responses!Frame, Frame, Responses!Client, Client, Responses!NewClient, NewClient
<1>4. \A ev, kind, i : Responses!Event(ev, kind, i) = Event(ev, kind, i)
  BY DEF Responses!Event, Event
<1>5. \A n, i : Responses!Blocks(n, i) = Blocks(n, i)
  BY <1>2, <1>4 DEF Responses!Blocks, Blocks
<1>6. \A c, e : Responses!Receive(c, e) = Receive(c, e)
  BY DEF Responses!Receive, Receive
<1>7. \A s : Responses!Known(s) = Known(s) /\ Responses!Complete(s) = Complete(s)
  BY DEF Responses!Known, Known, Responses!Complete, Complete
<1>8. \A a : Responses!Merges(a) = Merges(a)
  BY <1>1 DEF Responses!Merges, Merges
<1>9. \A s : Responses!Deltas(s) = Deltas(s)
  BY <1>1, <1>8 DEF Responses!Deltas, Deltas
<1>10. \A f : Responses!Chosen(f) = Chosen(f)
  <2>1. ASSUME NEW f PROVE Responses!Range(f) = Range(f)
    BY DEF Responses!Range, Range
  <2> QED BY <2>1 DEF Responses!Chosen, Chosen
<1>11. \A t, ks : /\ Responses!Ingested(t, ks) = Ingested(t, ks)
                  /\ Responses!Emitted(t, ks) = Emitted(t, ks)
  BY <1>9, <1>10 DEF Responses!Ingested, Ingested, Responses!Emitted, Emitted
<1>12. \A t : Responses!Unsent(t) = Unsent(t)
  BY <1>7 DEF Responses!Unsent, Unsent
<1>13. \A t : Responses!Ready(t) = Ready(t)
  BY <1>7, <1>12 DEF Responses!Ready, Ready
<1>14. \A S : Responses!Cardinality(S) = Cardinality(S)
  BY DEF Responses!Cardinality, Cardinality
<1>15. \A n : Responses!Budget(n) = Budget(n)
  BY <1>14 DEF Responses!Budget, Budget
<1>16. \A ks, n : Responses!First(ks, n) = First(ks, n)
  BY <1>14 DEF Responses!First, First
<1> QED BY <1>1, <1>3, <1>4, <1>5, <1>6, <1>7, <1>9, <1>10,
           <1>11, <1>12, <1>13, <1>14, <1>15, <1>16

(* Events with a sequence number.                                            *)
Stamped == {Responses!Numbered(e, n) : e \in Frame, n \in Nat}

(* The client that has seen everything knows where the streamer is.          *)
Settled(d, x) ==
    /\ d \in Client /\ d.over = "no" /\ d.next = x.next
    /\ d.open = IF x.text = "open" THEN {x.at} ELSE {}

(* The message item that is open was given its index.                        *)
Placed(x) ==
    /\ x.text = "open" => x.at < x.next
    /\ x.text = "closed" => x.closed

(* The invariant: what is on the wire leads the client to where the          *)
(* streamer is, or to the end.                                               *)
ResponsesInv ==
    /\ Responses!TypeOK
    /\ rWire \in Seq(Stamped)
    /\ Placed(str)
    /\ \E d \in Client : /\ Leads("many", rClient, rWire, d)
                         /\ IF str.closed THEN d.over # "no" ELSE Settled(d, str)

LEMMA StampedFields ==
    ASSUME NEW e, NEW n
    PROVE  /\ Responses!Numbered(e, n).ev = e.ev /\ Responses!Numbered(e, n).kind = e.kind
           /\ Responses!Numbered(e, n).i = e.i /\ Responses!Numbered(e, n).n = n
BY ResponsesWords DEF Responses!Numbered

(* Numbers are of no matter to the blocks.                                   *)
LEMMA NumberedLead ==
    ASSUME NEW p, NEW c, NEW d, NEW out \in Seq(Frame), Leads(p, c, out, d), NEW seq \in Nat
    PROVE  LET w == [j \in DOMAIN out |-> Responses!Numbered(out[j], seq + j - 1)]
           IN  w \in Seq(Stamped) /\ Leads(p, c, w, d)
<1> DEFINE w == [j \in DOMAIN out |-> Responses!Numbered(out[j], seq + j - 1)]
<1>1. Len(out) \in Nat /\ DOMAIN out = 1 .. Len(out)
  BY LenProperties
<1>2. ASSUME NEW j \in 1 .. Len(out) PROVE Responses!Numbered(out[j], seq + j - 1) \in Stamped
  <2>1. out[j] \in Frame /\ seq + j - 1 \in Nat
    BY <1>1, ElementOfSeq
  <2> QED BY <2>1 DEF Stamped
<1>3. w = [j \in 1 .. Len(out) |-> Responses!Numbered(out[j], seq + j - 1)]
  BY <1>1
<1>4. w \in Seq(Stamped) /\ Len(w) = Len(out)
  BY <1>1, <1>2, <1>3
<1>5. ASSUME NEW j \in 1 .. Len(out)
      PROVE  w[j].ev = out[j].ev /\ w[j].kind = out[j].kind /\ w[j].i = out[j].i
  <2>1. w[j] = Responses!Numbered(out[j], seq + j - 1)
    BY <1>3
  <2> QED BY <2>1, StampedFields
<1> HIDE DEF w
<1>6. PICK S \in [0 .. Len(out) -> Client] :
        /\ S[0] = c /\ S[Len(out)] = d
        /\ \A j \in 1 .. Len(out) : /\ Follows(p, S[j - 1], out[j])
                                    /\ S[j] = Receive(S[j - 1], out[j])
        /\ \A j \in 0 .. Len(out) : S[j].kinds \subseteq d.kinds
  BY DEF Leads
<1>7. ASSUME NEW j \in 1 .. Len(out)
      PROVE  Follows(p, S[j - 1], w[j]) /\ S[j] = Receive(S[j - 1], w[j])
  <2>1. Follows(p, S[j - 1], out[j]) /\ S[j] = Receive(S[j - 1], out[j])
    BY <1>6
  <2>2. w[j].ev = out[j].ev /\ w[j].kind = out[j].kind /\ w[j].i = out[j].i
    BY <1>5
  <2>3. Follows(p, S[j - 1], w[j])
    BY <2>1, <2>2 DEF Follows
  <2>4. Receive(S[j - 1], w[j]) = Receive(S[j - 1], out[j])
    BY <2>2 DEF Receive
  <2> QED BY <2>1, <2>3, <2>4
<1>8. Leads(p, c, w, d)
  BY <1>4, <1>6, <1>7 DEF Leads
<1> QED BY <1>4, <1>8 DEF w

(* What is emitted can be sent.                                              *)
LEMMA ResponsesEmit ==
    ASSUME ResponsesInv, NEW x \in Responses!Streamer, NEW out \in Seq(Frame),
           Responses!Emit(x, out), x.deltas <= MaxDeltas, Placed(x), NEW d \in Client,
           Leads("many", rClient, out, d),
           IF x.closed THEN d.over # "no" ELSE Settled(d, x)
    PROVE  ResponsesInv'
<1> DEFINE w == [j \in DOMAIN out |-> Responses!Numbered(out[j], x.seq + j - 1)]
           y == [x EXCEPT !.seq = @ + Len(out)]
<1>1. str' = y /\ rWire' = w /\ rClient' = rClient /\ number' = number
  BY ResponsesWords DEF Responses!Emit
<1>2. x.seq \in Nat /\ Len(out) \in Nat /\ x.seq + Len(out) \in Nat
  BY LenProperties, ResponsesWords DEF Responses!Streamer
<1>3. /\ y \in Responses!Streamer /\ y.deltas = x.deltas /\ y.text = x.text /\ y.at = x.at
      /\ y.next = x.next /\ y.closed = x.closed
  BY <1>2, ResponsesWords DEF Responses!Streamer
<1>4. w \in Seq(Stamped) /\ Leads("many", rClient, w, d)
  BY <1>2, NumberedLead
<1> HIDE DEF w, y
<1>5. \A j \in DOMAIN w : w[j].n \in Nat
  <2> TAKE j \in DOMAIN w
  <2>1. w[j] \in Stamped
    BY <1>4
  <2>2. PICK e \in Frame, n \in Nat : w[j] = Responses!Numbered(e, n)
    BY <2>1 DEF Stamped
  <2> QED BY <2>2, StampedFields
<1>6. Placed(y) /\ IF y.closed THEN d.over # "no" ELSE Settled(d, y)
  BY <1>3 DEF Placed, Settled
<1> QED BY <1>1, <1>3, <1>4, <1>5, <1>6, ResponsesWords DEF ResponsesInv, Responses!TypeOK

(* A streamer that runs has sent everything.                                 *)
LEMMA Idle ==
    ASSUME ResponsesInv, Responses!Running
    PROVE  /\ rClient \in Client /\ rClient.over = "no" /\ Settled(rClient, str) /\ ~str.closed
           /\ str \in Responses!Streamer /\ rWire = <<>> /\ str.text \in {"unopened", "open"}
<1>1. ~str.closed /\ rWire = <<>> /\ rClient.over = "no"
  BY ResponsesWords DEF Responses!Running
<1>2. PICK d \in Client : Leads("many", rClient, rWire, d) /\ Settled(d, str)
  BY <1>1 DEF ResponsesInv
<1>3. d = rClient
  BY <1>1, <1>2, Silent
<1> QED BY <1>1, <1>2, <1>3, ResponsesWords
        DEF ResponsesInv, Responses!TypeOK, Responses!Streamer, Placed

LEMMA MergedTypes ==
    ASSUME NEW tools \in [Tools -> Slot], NEW ks, NEW new \in Responses!Merged(tools, ks)
    PROVE  new \in [Tools -> Slot]
<1> DEFINE options == [k \in Tools |-> IF k \in ks THEN Deltas(tools[k]) ELSE {tools[k]}]
<1>1. new \in Chosen(options)
  BY ResponsesWords DEF Responses!Merged
<1>2. \A k \in Tools : options[k] = IF k \in ks THEN Deltas(tools[k]) ELSE {tools[k]}
  OBVIOUS
<1> HIDE DEF options
<1>3. new = [k \in Tools |-> new[k]] /\ \A k \in Tools : new[k] \in options[k]
  BY <1>1, ChosenTypes
<1>4. ASSUME NEW k \in Tools PROVE new[k] \in Slot
  <2>1. tools[k] \in Slot
    OBVIOUS
  <2> QED BY <1>2, <1>3, <2>1, DeltaTypes
<1> QED BY <1>3, <1>4

(* The frames of a piece of text.                                            *)
LEMMA TextLeads ==
    ASSUME NEW c, NEW x \in Responses!Streamer, Settled(c, x), Placed(x), ~x.closed
    PROVE  LET y == Responses!TextOpened(x)
           IN  /\ y \in Responses!Streamer /\ Placed(y) /\ ~y.closed /\ y.deltas = x.deltas
               /\ y.tools = x.tools
               /\ Responses!TextFrames(x) \in Seq(Frame)
               /\ \E d \in Client : Leads("many", c, Responses!TextFrames(x), d) /\ Settled(d, y)
<1> DEFINE y == Responses!TextOpened(x)
           t == Event("delta", "text", y.at)
<1>1. x.next \in Nat /\ x.at \in Nat /\ x.next + 1 \in Nat /\ c \in Client /\ c.over = "no"
      /\ c.next = x.next
  BY ResponsesWords DEF Responses!Streamer, Settled
<1>2. CASE x.text = "unopened"
  <2> DEFINE s == Event("start", "text", x.next)
  <2>1. y = [x EXCEPT !.text = "open", !.at = x.next, !.next = @ + 1]
    BY <1>2, ResponsesWords DEF Responses!TextOpened
  <2> HIDE DEF y
  <2>2. /\ y \in Responses!Streamer /\ y.text = "open" /\ y.at = x.next /\ y.next = x.next + 1
        /\ y.closed = x.closed /\ y.deltas = x.deltas /\ y.tools = x.tools
    BY <1>1, <2>1, ResponsesWords DEF Responses!Streamer
  <2>3. s \in Frame /\ t \in Frame
    BY <1>1, <2>2, EventType DEF Words, Kinds
  <2>4. Responses!TextFrames(x) = <<s>> \o <<t>>
    BY <1>2, ResponsesWords DEF Responses!TextFrames, y
  <2> DEFINE d == [c EXCEPT !.open = @ \cup {c.next}, !.next = c.next + 1,
                            !.kinds = @ \cup {"text"}]
  <2>5. d \in Client /\ Leads("many", c, <<s>>, d)
    BY <1>1, Starts
  <2>6. d.open = {x.next} /\ d.next = x.next + 1 /\ d.over = "no"
    BY <1>1, <1>2 DEF Client, Settled
  <2> HIDE DEF d
  <2>7. Leads("many", d, <<t>>, d)
    BY <2>2, <2>5, <2>6, Continues
  <2> HIDE DEF s, t
  <2>8. <<s>> \in Seq(Frame) /\ <<t>> \in Seq(Frame) /\ <<s>> \o <<t>> \in Seq(Frame)
    BY <2>3, Pair
  <2>9. Leads("many", c, <<s>> \o <<t>>, d)
    BY <2>5, <2>7, <2>8, Then
  <2>10. Placed(y) /\ Settled(d, y)
    BY <1>1, <2>2, <2>5, <2>6 DEF Placed, Settled
  <2> QED BY <2>2, <2>4, <2>5, <2>8, <2>9, <2>10 DEF y
<1>3. CASE x.text = "open"
  <2>1. y = x
    BY <1>3, ResponsesWords DEF Responses!TextOpened
  <2>2. t \in Frame /\ <<t>> \in Seq(Frame)
    <3>1. t \in Frame
      BY <1>1, <2>1, EventType DEF Words, Kinds
    <3> HIDE DEF t
    <3> QED BY <3>1
  <2>3. Responses!TextFrames(x) = <<t>>
    <3>1. Responses!TextFrames(x) = <<>> \o <<t>>
      BY <1>3, ResponsesWords DEF Responses!TextFrames
    <3> HIDE DEF t, y
    <3> QED BY <2>2, <3>1, ConcatEmptySeq
  <2>4. c.open = {x.at}
    BY <1>3 DEF Settled
  <2>5. Leads("many", c, <<t>>, c)
    BY <1>1, <2>1, <2>4, Continues
  <2> HIDE DEF y
  <2> QED BY <1>1, <2>1, <2>2, <2>3, <2>5 DEF y
<1>4. x.text # "closed"
  BY DEF Placed
<1> QED BY <1>2, <1>3, <1>4, ResponsesWords DEF Responses!Streamer

(* The frames of tool calls, after those of the text.                        *)
LEMMA ItemsLead ==
    ASSUME WireAssumption, NEW c, NEW said \in Seq(Frame), NEW x \in Responses!Streamer,
           Placed(x), ~x.closed, NEW d \in Client, Leads("many", c, said, d),
           Settled(d, x), NEW ks \in SUBSET Tools
    PROVE  LET y == Responses!ToolItems(x, ks)
               out == said \o Blocks(Cardinality(ks), x.next)
           IN  /\ y \in Responses!Streamer /\ Placed(y) /\ ~y.closed /\ y.deltas = x.deltas
               /\ y.text = x.text /\ y.at = x.at
               /\ out \in Seq(Frame)
               /\ \E f \in Client : Leads("many", c, out, f) /\ Settled(f, y)
<1> DEFINE n == Cardinality(ks)
           y == Responses!ToolItems(x, ks)
           w == Blocks(n, x.next)
           f == After(d, n)
<1>1. n \in Nat
  BY FS_Subset, FS_CardinalityType DEF WireAssumption
<1>2. y = [x EXCEPT !.tools = Emitted(@, ks), !.next = @ + n]
  BY ResponsesWords DEF Responses!ToolItems
<1>3. Emitted(x.tools, ks) \in [Tools -> Slot] /\ x.next + n \in Nat /\ x.next \in Nat
      /\ x.at \in Nat
  BY <1>1, EmittedTypes, ResponsesWords DEF Responses!Streamer
<1> HIDE DEF n, y
<1>4. /\ y \in Responses!Streamer /\ y.text = x.text /\ y.at = x.at /\ y.next = x.next + n
      /\ y.closed = x.closed /\ y.deltas = x.deltas
  BY <1>2, <1>3, ResponsesWords DEF Responses!Streamer
<1>5. /\ d.over = "no" /\ d.next = x.next /\ d.open = IF x.text = "open" THEN {x.at} ELSE {}
  BY DEF Settled
<1>6. \A i \in d.open : i < d.next
  BY <1>5 DEF Placed
<1>7. f \in Client /\ Leads("many", d, w, f)
  BY <1>1, <1>5, <1>6, BlocksLead
<1>8. f.open = d.open /\ f.next = d.next + n /\ f.over = d.over
  BY <1>1, AfterFields
<1>9. w \in Seq(Frame)
  BY <1>1, <1>3, BlocksType
<1> HIDE DEF w, f
<1>10. Leads("many", c, said \o w, f) /\ said \o w \in Seq(Frame)
  BY <1>7, <1>9, Then, ConcatProperties
<1>11. Placed(y) /\ Settled(f, y)
  BY <1>1, <1>3, <1>4, <1>5, <1>7, <1>8 DEF Placed, Settled
<1> QED BY <1>4, <1>7, <1>10, <1>11 DEF y, w, n

LEMMA ResponsesChunk ==
    ASSUME WireAssumption, Responses!ResponsesAssumption, ResponsesInv, NEW content \in BOOLEAN,
           NEW reasoning \in BOOLEAN, NEW ks \in SUBSET Tools, Responses!Chunk(content, reasoning,
           ks)
    PROVE  ResponsesInv'
<1> DEFINE o == IF content THEN Responses!TextOpened(str) ELSE str
           more == IF content THEN 1 ELSE 0
           x == [o EXCEPT !.deltas = @ + more, !.reasoning = @ \/ reasoning]
           said == IF content THEN Responses!TextFrames(str) ELSE <<>>
           y(new) == [x EXCEPT !.tools = new]
           ready(new) == IF ks = {} THEN {} ELSE First(Ready(new), 1)
<1>1. Responses!Running /\ str.deltas + more <= MaxDeltas
  BY ResponsesWords DEF Responses!Chunk
<1>2. PICK new \in Responses!Merged(x.tools, ks) :
        Responses!Emit(Responses!ToolItems(y(new), ready(new)),
                       said \o Blocks(Cardinality(ready(new)), y(new).next))
  BY ResponsesWords DEF Responses!Chunk
<1>3. /\ rClient \in Client /\ rClient.over = "no" /\ Settled(rClient, str) /\ ~str.closed
      /\ str \in Responses!Streamer /\ Placed(str)
  BY <1>1, Idle DEF ResponsesInv
<1>4. /\ o \in Responses!Streamer /\ Placed(o) /\ ~o.closed /\ o.deltas = str.deltas
      /\ o.tools = str.tools
      /\ said \in Seq(Frame)
      /\ \E d \in Client : Leads("many", rClient, said, d) /\ Settled(d, o)
  <2>1. CASE content
    BY <1>3, <2>1, TextLeads
  <2>2. CASE ~content
    <3>1. <<>> \in Seq(Frame)
      OBVIOUS
    <3> QED BY <1>3, <2>2, <3>1, Stay
  <2> QED BY <2>1, <2>2
<1> HIDE DEF o, said
<1>5. /\ x \in Responses!Streamer /\ x.tools = str.tools /\ x.deltas <= MaxDeltas
      /\ x.text = o.text /\ x.at = o.at /\ x.next = o.next /\ x.closed = o.closed
  <2>1. o.deltas + more \in Nat /\ (o.reasoning \/ reasoning) \in BOOLEAN
    BY <1>4, ResponsesWords DEF Responses!Streamer
  <2> HIDE DEF more
  <2> QED BY <1>1, <1>4, <2>1, ResponsesWords DEF Responses!Streamer
<1> HIDE DEF x
<1>6. new \in [Tools -> Slot]
  <2>1. x.tools \in [Tools -> Slot]
    BY <1>5, ResponsesWords DEF Responses!Streamer
  <2> QED BY <1>2, <2>1, MergedTypes
<1> DEFINE z == y(new)
           F == ready(new)
<1>7. /\ z \in Responses!Streamer /\ z.deltas = x.deltas /\ z.text = x.text /\ z.at = x.at
      /\ z.next = x.next /\ z.closed = x.closed
  BY <1>5, <1>6, ResponsesWords DEF Responses!Streamer
<1>8. F \in SUBSET Tools
  BY DEF First, Ready, Unsent
<1>9. Responses!Emit(Responses!ToolItems(z, F), said \o Blocks(Cardinality(F), z.next))
  BY <1>2
<1> HIDE DEF z, F, y, ready
<1>10. Placed(z) /\ ~z.closed
  BY <1>4, <1>5, <1>7 DEF Placed
<1>11. PICK d \in Client : Leads("many", rClient, said, d) /\ Settled(d, z)
  BY <1>4, <1>5, <1>7 DEF Settled
<1> DEFINE v == Responses!ToolItems(z, F)
           out == said \o Blocks(Cardinality(F), z.next)
<1>12. /\ v \in Responses!Streamer /\ Placed(v) /\ ~v.closed /\ v.deltas = z.deltas
       /\ out \in Seq(Frame)
       /\ \E f \in Client : Leads("many", rClient, out, f) /\ Settled(f, v)
  BY <1>4, <1>7, <1>8, <1>10, <1>11, ItemsLead
<1>13. Responses!Emit(v, out)
  BY <1>9
<1> HIDE DEF v, out
<1> QED BY <1>5, <1>7, <1>12, <1>13, ResponsesEmit

LEMMA ResponsesFinish ==
    ASSUME WireAssumption, ResponsesInv, Responses!Finish PROVE ResponsesInv'
<1> DEFINE n == Cardinality(Responses!Held)
           t == Responses!ToolItems(str, Responses!Held)
           y == [t EXCEPT !.closed = TRUE, !.text = IF @ = "open" THEN "closed" ELSE @]
           w == Blocks(n, str.next)
           e == Event("end", "completed", 0)
           out == (Responses!CloseText \o w) \o <<e>>
<1>1. Responses!Running /\ Responses!Emit(y, out)
  BY ResponsesWords DEF Responses!Finish
<1>2. /\ rClient \in Client /\ rClient.over = "no" /\ Settled(rClient, str) /\ ~str.closed
      /\ str \in Responses!Streamer /\ Placed(str) /\ str.text \in {"unopened", "open"}
      /\ str.deltas <= MaxDeltas
  BY <1>1, Idle, ResponsesWords DEF ResponsesInv, Responses!TypeOK
<1>3. Responses!Held \in SUBSET Tools
  BY ResponsesWords DEF Responses!Held, Unsent
<1>4. n \in Nat
  BY <1>3, FS_Subset, FS_CardinalityType DEF WireAssumption
<1>5. /\ str.next \in Nat /\ str.at \in Nat /\ str.next + n \in Nat
      /\ Emitted(str.tools, Responses!Held) \in [Tools -> Slot]
  BY <1>2, <1>3, <1>4, EmittedTypes, ResponsesWords DEF Responses!Streamer
<1>6. t = [str EXCEPT !.tools = Emitted(@, Responses!Held), !.next = @ + n]
  BY ResponsesWords DEF Responses!ToolItems
<1> HIDE DEF t, n
<1>7. /\ t \in Responses!Streamer /\ t.deltas = str.deltas /\ t.next = str.next + n
  BY <1>2, <1>5, <1>6, ResponsesWords DEF Responses!Streamer
<1>8. /\ y \in Responses!Streamer /\ y.deltas = str.deltas /\ y.next = str.next + n
      /\ y.closed /\ y.text # "open"
  BY <1>7, ResponsesWords DEF Responses!Streamer
<1>9. Placed(y)
  BY <1>8 DEF Placed
<1>10. PICK d \in Client : /\ Leads("many", rClient, Responses!CloseText, d)
                           /\ Responses!CloseText \in Seq(Frame)
                           /\ d.open = {} /\ d.next = str.next /\ d.over = "no"
  <2>1. CASE str.text = "open"
    <3> DEFINE s == Event("stop", "text", str.at)
               d == [rClient EXCEPT !.open = @ \ {str.at}]
    <3>1. rClient.open = {str.at} /\ rClient.next = str.next
      BY <1>2, <2>1 DEF Settled
    <3>2. d \in Client /\ Leads("many", rClient, <<s>>, d)
      BY <1>2, <3>1, Stops
    <3>3. d.open = {} /\ d.next = str.next /\ d.over = "no"
      BY <1>2, <3>1 DEF Client
    <3>4. <<s>> \in Seq(Frame)
      <4>1. s \in Frame
        BY <1>5, EventType DEF Words, Kinds
      <4> HIDE DEF s
      <4> QED BY <4>1
    <3>5. Responses!CloseText = <<s>>
      BY <2>1, ResponsesWords DEF Responses!CloseText
    <3> HIDE DEF s, d
    <3> QED BY <3>2, <3>3, <3>4, <3>5
  <2>2. CASE str.text # "open"
    <3>1. Responses!CloseText = <<>> /\ <<>> \in Seq(Frame)
      BY <2>2, ResponsesWords DEF Responses!CloseText
    <3>2. rClient.open = {} /\ rClient.next = str.next
      BY <1>2, <2>2 DEF Settled
    <3> QED BY <1>2, <3>1, <3>2, Stay
  <2> QED BY <2>1, <2>2
<1> DEFINE f == After(d, n)
<1>11. f \in Client /\ Leads("many", d, w, f)
  <2>1. \A i \in d.open : i < d.next
    BY <1>10
  <2> QED BY <1>4, <1>10, <2>1, BlocksLead
<1>12. f.open = {} /\ f.over = "no"
  BY <1>4, <1>10, AfterFields
<1>13. w \in Seq(Frame)
  BY <1>4, <1>5, BlocksType
<1> HIDE DEF w, f, y
<1>14. Leads("many", rClient, Responses!CloseText \o w, f)
       /\ Responses!CloseText \o w \in Seq(Frame)
  BY <1>10, <1>11, <1>13, Then, ConcatProperties
<1> DEFINE g == [f EXCEPT !.over = "end", !.reason = "completed"]
<1>15. g \in Client /\ Leads("many", f, <<e>>, g)
  <2>1. "completed" \in Reasons
    BY DEF Reasons
  <2> QED BY <1>11, <1>12, <2>1, Ends
<1>16. g.over = "end"
  BY <1>11 DEF Client
<1>17. <<e>> \in Seq(Frame)
  <2>1. "completed" \in Words /\ 0 \in Nat
    BY DEF Words, Reasons
  <2>2. e \in Frame
    BY <2>1, EventType
  <2> HIDE DEF e
  <2> QED BY <2>2
<1> HIDE DEF e, g
<1>18. Leads("many", rClient, out, g) /\ out \in Seq(Frame)
  BY <1>14, <1>15, <1>17, Then, ConcatProperties
<1> HIDE DEF out
<1> QED BY <1>1, <1>2, <1>8, <1>9, <1>15, <1>16, <1>18, ResponsesEmit

LEMMA ResponsesFail ==
    ASSUME ResponsesInv, Responses!Fail PROVE ResponsesInv'
<1> DEFINE e == Responses!Numbered(Event("error", "server_error", 0), 0)
           d == [rClient EXCEPT !.over = "error"]
           y == [str EXCEPT !.closed = TRUE]
<1>1. Responses!Running /\ rWire' = <<e>> /\ str' = y /\ rClient' = rClient /\ number' = number
  BY ResponsesWords DEF Responses!Fail
<1>2. /\ rClient \in Client /\ rClient.over = "no" /\ str \in Responses!Streamer /\ Placed(str)
      /\ str.deltas <= MaxDeltas
  BY <1>1, Idle, ResponsesWords DEF ResponsesInv, Responses!TypeOK
<1>3. e \in Stamped /\ e.ev = "error" /\ e.n = 0
  <2>1. "server_error" \in Words /\ 0 \in Nat
    BY DEF Words, Errors
  <2> DEFINE u == Event("error", "server_error", 0)
  <2>2. u \in Frame /\ u.ev = "error"
    BY <2>1, EventType
  <2> HIDE DEF u
  <2>3. Responses!Numbered(u, 0) \in Stamped /\ Responses!Numbered(u, 0).ev = "error"
        /\ Responses!Numbered(u, 0).n = 0
    BY <2>1, <2>2, StampedFields DEF Stamped
  <2> QED BY <2>3 DEF u
<1> HIDE DEF e
<1>4. d \in Client /\ Leads("many", rClient, <<e>>, d)
  BY <1>2, <1>3, Breaks
<1>5. d.over = "error"
  BY <1>2 DEF Client
<1>6. /\ y \in Responses!Streamer /\ y.deltas <= MaxDeltas /\ y.closed /\ y.text = str.text
      /\ y.at = str.at /\ y.next = str.next
  BY <1>2, ResponsesWords DEF Responses!Streamer
<1>7. Placed(y)
  BY <1>2, <1>6 DEF Placed
<1> HIDE DEF y, d
<1>8. <<e>> \in Seq(Stamped) /\ \A j \in DOMAIN <<e>> : <<e>>[j].n \in Nat
  BY <1>3
<1> QED BY <1>1, <1>4, <1>5, <1>6, <1>7, <1>8, ResponsesWords DEF ResponsesInv, Responses!TypeOK

LEMMA ResponsesSend ==
    ASSUME ResponsesInv, Responses!Send
    PROVE  ResponsesInv' /\ Follows("many", rClient, Head(rWire))
           /\ rClient' = Receive(rClient, Head(rWire))
<1>1. PICK d \in Client : /\ Leads("many", rClient, rWire, d)
                          /\ IF str.closed THEN d.over # "no" ELSE Settled(d, str)
  BY DEF ResponsesInv
<1>2. rWire \in Seq(Stamped) /\ rWire # <<>>
  BY ResponsesWords DEF ResponsesInv, Responses!Send
<1>3. /\ Follows("many", rClient, Head(rWire)) /\ Receive(rClient, Head(rWire)) \in Client
      /\ Leads("many", Receive(rClient, Head(rWire)), Tail(rWire), d)
  BY <1>1, <1>2, Sent
<1>4. /\ str' = str /\ rClient' = Receive(rClient, Head(rWire)) /\ rWire' = Tail(rWire)
      /\ number' = Head(rWire).n
  BY ResponsesWords DEF Responses!Send
<1>5. Tail(rWire) \in Seq(Stamped) /\ Head(rWire) \in Stamped
  BY <1>2, HeadTailProperties
<1>6. \A v \in Stamped : v.n \in Nat
  BY StampedFields DEF Stamped
<1>7. \A j \in DOMAIN Tail(rWire) : Tail(rWire)[j].n \in Nat
  <2> DEFINE u == Tail(rWire)
  <2>1. u \in Seq(Stamped)
    BY <1>5
  <2> HIDE DEF u
  <2>2. \A j \in DOMAIN u : u[j] \in Stamped
    BY <2>1
  <2>3. \A j \in DOMAIN u : u[j].n \in Nat
    BY <1>6, <2>2
  <2> QED BY <2>3 DEF u
<1>8. Responses!TypeOK'
  BY <1>3, <1>4, <1>5, <1>6, <1>7, ResponsesWords DEF Responses!TypeOK, ResponsesInv
<1> QED BY <1>1, <1>3, <1>4, <1>5, <1>8 DEF ResponsesInv

LEMMA ResponsesInit == ASSUME Responses!ResponsesAssumption, Responses!Init PROVE ResponsesInv
<1>1. /\ str = [text |-> "unopened", at |-> 0, deltas |-> 0, next |-> 0,
                tools |-> [k \in Tools |-> NoSlot], seq |-> 1, reasoning |-> FALSE,
                closed |-> FALSE]
      /\ rWire = <<>> /\ rClient = NewClient /\ number = 0
  BY ResponsesWords DEF Responses!Init
<1>2. NoSlot \in Slot
  BY DEF NoSlot, Slot, Args
<1>3. [k \in Tools |-> NoSlot] \in [Tools -> Slot]
  BY <1>2
<1>4. /\ str \in Responses!Streamer /\ str.deltas = 0 /\ str.text = "unopened" /\ ~str.closed
      /\ str.next = 0
  BY <1>1, <1>3, ResponsesWords DEF Responses!Streamer
<1>5. /\ rClient \in Client /\ rClient.open = {} /\ rClient.next = 0 /\ rClient.over = "no"
  BY <1>1 DEF Client, NewClient
<1>6. rWire \in Seq(Stamped) /\ \A j \in DOMAIN rWire : rWire[j].n \in Nat
  BY <1>1
<1>7. Responses!TypeOK
  BY <1>1, <1>4, <1>5, <1>6, ResponsesWords DEF Responses!TypeOK, Responses!ResponsesAssumption
<1>8. Leads("many", rClient, rWire, rClient) /\ Settled(rClient, str) /\ Placed(str)
  BY <1>1, <1>4, <1>5, Stay DEF Settled, Placed
<1> QED BY <1>4, <1>5, <1>6, <1>7, <1>8 DEF ResponsesInv

LEMMA ResponsesStep ==
    ASSUME WireAssumption, Responses!ResponsesAssumption, ResponsesInv,
           [Responses!Next]_Responses!vars PROVE ResponsesInv'
<1>1. ASSUME NEW content \in BOOLEAN, NEW reasoning \in BOOLEAN, NEW ks \in SUBSET Tools,
             Responses!Chunk(content, reasoning, ks)
      PROVE  ResponsesInv'
  BY <1>1, ResponsesChunk
<1>2. CASE Responses!Finish
  BY <1>2, ResponsesFinish
<1>3. CASE Responses!Fail
  BY <1>3, ResponsesFail
<1>4. CASE Responses!Send
  BY <1>4, ResponsesSend
<1>5. CASE UNCHANGED Responses!vars
  BY <1>5, ResponsesWords DEF Responses!vars, ResponsesInv, Responses!TypeOK
<1> QED BY <1>1, <1>2, <1>3, <1>4, <1>5, ResponsesWords DEF Responses!Next

LEMMA ResponsesFollow ==
    ASSUME ResponsesInv, [Responses!Next]_Responses!vars
    PROVE  [Responses!CB!Next]_<<rClient.open, rClient.next, rClient.over>>
<1>1. CASE Responses!Send
  <2>1. Follows("many", rClient, Head(rWire)) /\ rClient' = Receive(rClient, Head(rWire))
    BY <1>1, ResponsesSend
  <2>2. rClient \in Client
    BY ResponsesWords DEF ResponsesInv, Responses!TypeOK
  <2> QED BY <2>1, <2>2, BlockSteps, ResponsesWords
          DEF Responses!CB!Next, Responses!CB!Open, Responses!CB!Close, Responses!CB!End,
              Responses!CB!Break
<1>2. CASE UNCHANGED rClient
  BY <1>2
<1>3. ASSUME NEW content, NEW reasoning, NEW ks, Responses!Chunk(content, reasoning, ks)
      PROVE  UNCHANGED rClient
  <2>1. \E x, out : Responses!Emit(x, out)
    BY <1>3, ResponsesWords DEF Responses!Chunk
  <2> QED BY <2>1, ResponsesWords DEF Responses!Emit
<1>4. ASSUME Responses!Finish \/ Responses!Fail \/ UNCHANGED Responses!vars
      PROVE  UNCHANGED rClient
  BY <1>4, ResponsesWords DEF Responses!Finish, Responses!Fail, Responses!Emit, Responses!vars
<1> QED BY <1>1, <1>2, <1>3, <1>4, ResponsesWords DEF Responses!Next

LEMMA ResponsesBegin == ASSUME Responses!Init PROVE Responses!CB!Init
BY ResponsesWords DEF Responses!Init, NewClient, Responses!CB!Init

-----------------------------------------------------------------------------
(* /v1/chat/completions                                                      *)

(* The instance speaks of the tool calls and of the wire as StreamWire does. *)
LEMMA ChatWords ==
    /\ Chat!Slot = Slot /\ Chat!NoSlot = NoSlot /\ Chat!Frame = Frame
    /\ Chat!Client = Client /\ Chat!NewClient = NewClient
    /\ \A ev, kind, i : Chat!Event(ev, kind, i) = Event(ev, kind, i)
    /\ \A n, i : Chat!Blocks(n, i) = Blocks(n, i)
    /\ \A c, e : Chat!Receive(c, e) = Receive(c, e)
    /\ \A s : Chat!Known(s) = Known(s) /\ Chat!Complete(s) = Complete(s)
    /\ \A s : Chat!Deltas(s) = Deltas(s)
    /\ \A f : Chat!Chosen(f) = Chosen(f)
    /\ \A t, ks : Chat!Ingested(t, ks) = Ingested(t, ks) /\ Chat!Emitted(t, ks) = Emitted(t, ks)
    /\ \A t : Chat!Unsent(t) = Unsent(t) /\ Chat!Ready(t) = Ready(t)
    /\ \A S : Chat!Cardinality(S) = Cardinality(S)
    /\ \A n : Chat!Budget(n) = Budget(n)
    /\ \A ks, n : Chat!First(ks, n) = First(ks, n)
<1>1. Chat!Slot = Slot /\ Chat!NoSlot = NoSlot /\ Chat!Args = Args
  BY DEF Chat!Slot, Slot, Chat!NoSlot, NoSlot, Chat!Args, Args
<1>2. Chat!Kinds = Kinds /\ Chat!Reasons = Reasons /\ Chat!Errors = Errors /\ Chat!Block = Block
  BY DEF Chat!Kinds, Kinds, Chat!Reasons, Reasons, Chat!Errors, Errors, Chat!Block, Block
<1>3. Chat!Frame = Frame /\ Chat!Client = Client /\ Chat!NewClient = NewClient
  BY <1>2 DEF Chat!Frame, Frame, Chat!Client, Client, Chat!NewClient, NewClient
<1>4. \A ev, kind, i : Chat!Event(ev, kind, i) = Event(ev, kind, i)
  BY DEF Chat!Event, Event
<1>5. \A n, i : Chat!Blocks(n, i) = Blocks(n, i)
  BY <1>2, <1>4 DEF Chat!Blocks, Blocks
<1>6. \A c, e : Chat!Receive(c, e) = Receive(c, e)
  BY DEF Chat!Receive, Receive
<1>7. \A s : Chat!Known(s) = Known(s) /\ Chat!Complete(s) = Complete(s)
  BY DEF Chat!Known, Known, Chat!Complete, Complete
<1>8. \A a : Chat!Merges(a) = Merges(a)
  BY <1>1 DEF Chat!Merges, Merges
<1>9. \A s : Chat!Deltas(s) = Deltas(s)
  BY <1>1, <1>8 DEF Chat!Deltas, Deltas
<1>10. \A f : Chat!Chosen(f) = Chosen(f)
  <2>1. ASSUME NEW f PROVE Chat!Range(f) = Range(f)
    BY DEF Chat!Range, Range
  <2> QED BY <2>1 DEF Chat!Chosen, Chosen
<1>11. \A t, ks : Chat!Ingested(t, ks) = Ingested(t, ks) /\ Chat!Emitted(t, ks) = Emitted(t, ks)
  BY <1>9, <1>10 DEF Chat!Ingested, Ingested, Chat!Emitted, Emitted
<1>12. \A t : Chat!Unsent(t) = Unsent(t)
  BY <1>7 DEF Chat!Unsent, Unsent
<1>13. \A t : Chat!Ready(t) = Ready(t)
  BY <1>7, <1>12 DEF Chat!Ready, Ready
<1>14. \A S : Chat!Cardinality(S) = Cardinality(S)
  BY DEF Chat!Cardinality, Cardinality
<1>15. \A n : Chat!Budget(n) = Budget(n)
  BY <1>14 DEF Chat!Budget, Budget
<1>16. \A ks, n : Chat!First(ks, n) = First(ks, n)
  BY <1>14 DEF Chat!First, First
<1> QED BY <1>1, <1>3, <1>4, <1>5, <1>6, <1>7, <1>9, <1>10,
           <1>11, <1>12, <1>13, <1>14, <1>15, <1>16

(* The types of the component, in the words above.                           *)
LEMMA ChatTypes ==
    /\ Chat!TypeOK <=> /\ turn \in Chat!Turn /\ turn.count <= Cardinality(Tools)
                      /\ cWire \in Seq(Frame) /\ cClient \in Client
    /\ Chat!TypeOK' <=> /\ turn' \in Chat!Turn /\ turn'.count <= Cardinality(Tools)
                       /\ cWire' \in Seq(Frame) /\ cClient' \in Client
BY ChatWords DEF Chat!TypeOK

(* What a turn knows of itself.                                              *)
Aware(t) ==
    /\ t.count <= Cardinality(Done(t.tools))
    /\ t.asked => t.requested
    /\ t.saw => Done(t.tools) # {}
    /\ t.held => ~t.saw /\ t.said /\ ~t.whole
    /\ t.whole => Chat!Named(t.tools) = {}

(* What the client that has seen everything has to do with the turn.         *)
Fits(d, t) ==
    /\ d \in Client /\ d.open = {}
    /\ d.over = "no" <=> t.over = "no"
    /\ t.asked => ~({"text", "tool"} \subseteq d.kinds)
    /\ t.over = "no" => /\ "tool" \in d.kinds => t.saw
                        /\ t.asked /\ "text" \in d.kinds => t.whole
                        /\ ~t.whole /\ t.saw => "tool" \in d.kinds
                        /\ ~t.whole /\ t.said => t.held \/ d.kinds # {}
    /\ t.over = "end" /\ d.over = "end" /\ t.said /\ ~t.whole => d.kinds # {}

(* The invariant: the turn knows what it has held and sent, and the wire     *)
(* leads the client there.                                                   *)
ChatInv ==
    /\ Chat!TypeOK /\ Aware(turn) /\ cClient.open = {}
    /\ \E d \in Client : Leads("chat", cClient, cWire, d) /\ Fits(d, turn)

(* Text, or none.                                                            *)
Said(b) == IF b THEN Chat!Text ELSE <<>>

LEMMA SaidLeads ==
    ASSUME NEW c \in Client, c.over = "no", NEW b \in BOOLEAN
    PROVE  LET d == [c EXCEPT !.kinds = IF b THEN @ \cup {"text"} ELSE @]
           IN  /\ d \in Client /\ d.over = "no" /\ d.open = c.open
               /\ d.kinds = IF b THEN c.kinds \cup {"text"} ELSE c.kinds
               /\ Said(b) \in Seq(Frame) /\ Leads("chat", c, Said(b), d)
<1> DEFINE d == [c EXCEPT !.kinds = IF b THEN @ \cup {"text"} ELSE @]
           e == Event("text", "text", 0)
<1>1. /\ d \in Client /\ d.over = "no" /\ d.open = c.open
      /\ d.kinds = IF b THEN c.kinds \cup {"text"} ELSE c.kinds
  BY DEF Client, Kinds
<1>2. CASE b
  <2>1. e \in Frame /\ e.ev = "text"
    BY EventType DEF Words, Kinds
  <2> HIDE DEF e
  <2>2. Follows("chat", c, e)
    BY <2>1 DEF Follows
  <2>3. Receive(c, e) = d
    BY <1>2, <2>1 DEF Receive
  <2> HIDE DEF d
  <2>4. Leads("chat", c, <<e>>, d)
    BY <1>1, <1>2, <2>2, <2>3, One
  <2>5. Said(b) = <<e>> /\ <<e>> \in Seq(Frame)
    <3>1. <<e>> \in Seq(Frame)
      BY <2>1
    <3> QED BY <1>2, <3>1, ChatWords DEF Said, Chat!Text, e
  <2> QED BY <1>1, <2>4, <2>5 DEF d
<1>3. CASE ~b
  <2>1. d.open = c.open /\ d.next = c.next /\ d.kinds = c.kinds /\ d.reason = c.reason
        /\ d.over = c.over
    BY <1>3 DEF Client
  <2>2. d = c
    <3> HIDE DEF d
    <3> QED BY <1>1, <2>1, Same
  <2>3. Said(b) = <<>> /\ <<>> \in Seq(Frame)
    BY <1>3 DEF Said
  <2> HIDE DEF d
  <2> QED BY <1>1, <2>2, <2>3, Stay DEF d
<1> QED BY <1>2, <1>3

(* The frames of n tool calls, and what the client has seen after them.      *)
CallsFrom(n, i) == [j \in 1 .. n |-> Event("call", "tool", i + j - 1)]

Told(c, n) == IF n = 0 THEN c.kinds ELSE c.kinds \cup {"tool"}

LEMMA CallsLead ==
    ASSUME NEW c \in Client, c.over = "no", NEW n \in Nat, NEW i \in Nat
    PROVE  /\ CallsFrom(n, i) \in Seq(Frame)
           /\ \E d \in Client : /\ Leads("chat", c, CallsFrom(n, i), d)
                                /\ d.over = "no" /\ d.open = c.open
                                /\ d.kinds = Told(c, n)
<1> DEFINE w == CallsFrom(n, i)
           Heard(j) == [c EXCEPT !.next = i + j, !.kinds = @ \cup {"tool"}]
           S == [j \in 0 .. n |-> IF j = 0 THEN c ELSE Heard(j)]
<1>1. ASSUME NEW j \in 1 .. n PROVE Event("call", "tool", i + j - 1) \in Frame
  <2>1. i + j - 1 \in Nat /\ "tool" \in Words
    BY DEF Words, Kinds
  <2> QED BY <2>1, EventType
<1>2. /\ w \in Seq(Frame) /\ Len(w) = n
      /\ \A j \in 1 .. n : w[j] = Event("call", "tool", i + j - 1)
  BY <1>1 DEF CallsFrom
<1>3. ASSUME NEW j \in 0 .. n
      PROVE  /\ Heard(j) \in Client /\ Heard(j).kinds = c.kinds \cup {"tool"}
             /\ Heard(j).over = "no" /\ Heard(j).open = c.open
  <2>1. i + j \in Nat
    OBVIOUS
  <2> QED BY <2>1 DEF Client, Kinds
<1> HIDE DEF w
<1>4. ASSUME NEW j \in 1 .. n
      PROVE  Follows("chat", S[j - 1], w[j]) /\ S[j] = Receive(S[j - 1], w[j])
  <2>1. w[j].ev = "call" /\ w[j].i = i + j - 1
    <3>1. w[j] = Event("call", "tool", i + j - 1)
      BY <1>2
    <3> QED BY <3>1 DEF Event
  <2>2. j - 1 \in 0 .. n /\ j \in 0 .. n /\ j # 0
    OBVIOUS
  <2>3. S[j - 1].over = "no"
    BY <1>3, <2>2
  <2>4. Receive(S[j - 1], w[j])
            = [S[j - 1] EXCEPT !.next = (i + j - 1) + 1, !.kinds = @ \cup {"tool"}]
    BY <2>1 DEF Receive
  <2>5. (i + j - 1) + 1 = i + j
    OBVIOUS
  <2>6. CASE j - 1 = 0
    <3>1. S[j - 1] = c
      BY <2>2, <2>6
    <3> QED BY <2>1, <2>2, <2>3, <2>4, <2>5, <3>1 DEF Follows
  <2>7. CASE j - 1 # 0
    <3>1. S[j - 1] = Heard(j - 1)
      BY <2>2, <2>7
    <3>2. [Heard(j - 1) EXCEPT !.next = i + j, !.kinds = @ \cup {"tool"}] = Heard(j)
      <4> DEFINE g == [Heard(j - 1) EXCEPT !.next = i + j, !.kinds = @ \cup {"tool"}]
                 h == Heard(j)
      <4>1. i + j \in Nat
        OBVIOUS
      <4>2. /\ g \in Client /\ g.open = c.open /\ g.next = i + j /\ g.over = c.over
            /\ g.kinds = c.kinds \cup {"tool"} /\ g.reason = c.reason
        <5>1. Heard(j - 1) \in Client
          BY <1>3, <2>2
        <5>2. (c.kinds \cup {"tool"}) \cup {"tool"} = c.kinds \cup {"tool"}
          OBVIOUS
        <5> QED BY <4>1, <5>1, <5>2 DEF Client, Kinds
      <4>3. /\ h \in Client /\ h.open = c.open /\ h.next = i + j /\ h.over = c.over
            /\ h.kinds = c.kinds \cup {"tool"} /\ h.reason = c.reason
        BY <4>1 DEF Client, Kinds
      <4> HIDE DEF g, h
      <4>4. g = h
        BY <4>2, <4>3, Same
      <4> QED BY <4>4 DEF g, h
    <3>3. S[j] = Heard(j)
      BY <2>2
    <3> HIDE DEF S, Heard
    <3> QED BY <2>1, <2>3, <2>4, <2>5, <3>1, <3>2, <3>3 DEF Follows
  <2> QED BY <2>6, <2>7
<1>5. S \in [0 .. n -> Client] /\ S[0] = c
  <2>1. \A j \in 0 .. n : Heard(j) \in Client
    BY <1>3
  <2> HIDE DEF Heard
  <2>2. \A j \in 0 .. n : (IF j = 0 THEN c ELSE Heard(j)) \in Client
    BY <2>1
  <2> QED BY <2>2
<1> DEFINE d == S[n]
<1>6. /\ d \in Client /\ d.over = "no" /\ d.open = c.open
      /\ d.kinds = Told(c, n)
  <2>1. d = IF n = 0 THEN c ELSE Heard(n)
    <3> HIDE DEF Heard
    <3> QED OBVIOUS
  <2>2. /\ Heard(n) \in Client /\ Heard(n).kinds = c.kinds \cup {"tool"}
        /\ Heard(n).over = "no" /\ Heard(n).open = c.open
    <3>1. n \in 0 .. n
      OBVIOUS
    <3> HIDE DEF Heard
    <3> QED BY <1>3, <3>1
  <2> HIDE DEF d, Heard
  <2> QED BY <2>1, <2>2 DEF Told
<1>7. ASSUME NEW j \in 0 .. n PROVE S[j].kinds \subseteq d.kinds
  <2>1. CASE n = 0
    BY <2>1 DEF Told
  <2>2. CASE n # 0
    <3>1. S[j].kinds = c.kinds \/ S[j].kinds = c.kinds \cup {"tool"}
      BY <1>3
    <3> HIDE DEF d, S
    <3> QED BY <1>6, <2>2, <3>1 DEF Told
  <2> QED BY <2>1, <2>2
<1> HIDE DEF S
<1>8. Leads("chat", c, w, d)
  BY <1>2, <1>4, <1>5, <1>7 DEF Leads
<1> QED BY <1>2, <1>6, <1>8 DEF w

(* What the client has seen after text, or none, and n tool calls.           *)
Heard(c, b, n) ==
    c.kinds \cup (IF b THEN {"text"} ELSE {}) \cup (IF n = 0 THEN {} ELSE {"tool"})

(* Text and tool calls, in either order.                                     *)
LEMMA AnswerLeads ==
    ASSUME NEW c \in Client, c.over = "no", NEW b \in BOOLEAN, NEW n \in Nat, turn.count \in Nat
    PROVE  /\ \A out \in {Said(b) \o Chat!Calls(n), Chat!Calls(n) \o Said(b)} :
                /\ out \in Seq(Frame)
                /\ \E d \in Client : /\ Leads("chat", c, out, d)
                                     /\ d.over = "no" /\ d.open = c.open
                                     /\ d.kinds = Heard(c, b, n)
<1>1. Chat!Calls(n) = CallsFrom(n, turn.count)
  BY ChatWords DEF Chat!Calls, CallsFrom
<1>2. ASSUME NEW a \in Client, a.over = "no"
      PROVE  /\ Chat!Calls(n) \in Seq(Frame)
             /\ \E d \in Client : /\ Leads("chat", a, Chat!Calls(n), d)
                                  /\ d.over = "no" /\ d.open = a.open
                                  /\ d.kinds = Told(a, n)
  <2> DEFINE i == turn.count
  <2>1. i \in Nat
    OBVIOUS
  <2> HIDE DEF i
  <2>2. /\ CallsFrom(n, i) \in Seq(Frame)
        /\ \E d \in Client : /\ Leads("chat", a, CallsFrom(n, i), d)
                             /\ d.over = "no" /\ d.open = a.open
                             /\ d.kinds = Told(a, n)
    <3>1. CallsFrom(n, i) \in Seq(Frame)
      BY <1>2, <2>1, CallsLead
    <3>2. a.over = "no"
      BY <1>2
    <3>3. PICK d \in Client : /\ Leads("chat", a, CallsFrom(n, i), d)
                              /\ d.over = "no" /\ d.open = a.open
                              /\ d.kinds = Told(a, n)
      BY <2>1, <3>2, CallsLead
    <3> QED BY <3>1, <3>3
  <2>3. Chat!Calls(n) = CallsFrom(n, i)
    BY <1>1 DEF i
  <2> QED BY <2>2, <2>3
<1>3. ASSUME NEW a \in Client, a.over = "no"
      PROVE  /\ Said(b) \in Seq(Frame)
             /\ \E d \in Client : /\ Leads("chat", a, Said(b), d)
                                  /\ d.over = "no" /\ d.open = a.open
                                  /\ d.kinds = IF b THEN a.kinds \cup {"text"} ELSE a.kinds
  <2> DEFINE d == [a EXCEPT !.kinds = IF b THEN @ \cup {"text"} ELSE @]
  <2>1. /\ d \in Client /\ d.over = "no" /\ d.open = a.open
        /\ d.kinds = IF b THEN a.kinds \cup {"text"} ELSE a.kinds
        /\ Said(b) \in Seq(Frame) /\ Leads("chat", a, Said(b), d)
    BY <1>3, SaidLeads
  <2> HIDE DEF d
  <2> QED BY <2>1
<1> DEFINE u == Said(b)
           v == Chat!Calls(n)
<1>4. u \in Seq(Frame) /\ v \in Seq(Frame)
  BY <1>2, <1>3
<1> HIDE DEF u, v
<1>5. u \o v \in Seq(Frame) /\ v \o u \in Seq(Frame)
  BY <1>4, ConcatProperties
<1>6. \E d \in Client : /\ Leads("chat", c, u \o v, d)
                        /\ d.over = "no" /\ d.open = c.open /\ d.kinds = Heard(c, b, n)
  <2>1. PICK f \in Client : /\ Leads("chat", c, u, f) /\ f.over = "no" /\ f.open = c.open
                            /\ f.kinds = IF b THEN c.kinds \cup {"text"} ELSE c.kinds
    BY <1>3 DEF u
  <2>2. PICK d \in Client : /\ Leads("chat", f, v, d) /\ d.over = "no" /\ d.open = f.open
                            /\ d.kinds = Told(f, n)
    BY <1>2, <2>1 DEF v
  <2>3. Leads("chat", c, u \o v, d)
    BY <1>4, <2>1, <2>2, Then
  <2> QED BY <2>1, <2>2, <2>3 DEF Heard, Told
<1>7. \E d \in Client : /\ Leads("chat", c, v \o u, d)
                        /\ d.over = "no" /\ d.open = c.open /\ d.kinds = Heard(c, b, n)
  <2>1. PICK f \in Client : /\ Leads("chat", c, v, f) /\ f.over = "no" /\ f.open = c.open
                            /\ f.kinds = Told(c, n)
    BY <1>2 DEF v
  <2>2. PICK d \in Client : /\ Leads("chat", f, u, d) /\ d.over = "no" /\ d.open = f.open
                            /\ d.kinds = IF b THEN f.kinds \cup {"text"} ELSE f.kinds
    BY <1>3, <2>1 DEF u
  <2>3. Leads("chat", c, v \o u, d)
    BY <1>4, <2>1, <2>2, Then
  <2> QED BY <2>1, <2>2, <2>3 DEF Heard, Told
<1> QED BY <1>5, <1>6, <1>7 DEF u, v

(* A client with nothing on the way has seen everything.                     *)
LEMMA Quiet ==
    ASSUME ChatInv, cWire = <<>>
    PROVE  Fits(cClient, turn)
BY Silent DEF ChatInv

LEMMA Fresh == NoSlot \in Slot /\ ~NoSlot.name /\ ~NoSlot.done
BY DEF NoSlot, Slot, Args

(* What is known of a set of tool calls that are sent.                       *)
LEMMA Sending ==
    ASSUME WireAssumption, NEW tools \in [Tools -> Slot], NEW ks, ks \subseteq Unsent(tools)
    PROVE  /\ ks \subseteq Tools /\ Cardinality(ks) \in Nat /\ (Cardinality(ks) = 0 <=> ks = {})
           /\ Emitted(tools, ks) \in [Tools -> Slot]
           /\ Done(Emitted(tools, ks)) = Done(tools) \cup ks
           /\ Cardinality(Done(Emitted(tools, ks))) = Cardinality(Done(tools)) + Cardinality(ks)
           /\ Cardinality(Done(tools)) \in Nat
           /\ Cardinality(Done(Emitted(tools, ks))) <= Cardinality(Tools)
<1>1. ks \subseteq Tools
  BY DEF Unsent
<1> QED BY <1>1, EmittedTypes, EmittedCount

LEMMA ChatChunk ==
    ASSUME WireAssumption, ChatInv, NEW text \in BOOLEAN, NEW ks \in SUBSET Tools,
           Chat!Chunk(text, ks)
    PROVE  ChatInv'
<1> DEFINE ready(new) == IF ks = {} THEN {} ELSE First(Ready(new), Budget(turn.count))
           t(new) == Chat!Shipped([turn EXCEPT !.tools = new, !.requested = @ \/ ks # {}],
                                  ready(new))
<1>1. turn.over = "no" /\ cWire = <<>> /\ ~turn.whole /\ cClient' = cClient
  BY ChatWords DEF Chat!Chunk, Chat!Reading
<1>2. PICK new \in Ingested(turn.tools, ks) :
        /\ turn' = [t(new) EXCEPT !.held = @ \/ (text /\ Chat!Holds(t(new))), !.said = @ \/ text]
        /\ cWire' = (IF text /\ Chat!Passes(t(new)) THEN Chat!Text ELSE <<>>)
                    \o Chat!Calls(Cardinality(ready(new)))
  BY ChatWords, ZenonT(60) DEF Chat!Chunk
<1>3. turn \in Chat!Turn /\ turn.tools \in [Tools -> Slot] /\ turn.count \in Nat
  BY ChatWords, ChatTypes DEF ChatInv, Chat!Turn
<1>4. new \in [Tools -> Slot] /\ Done(new) = Done(turn.tools)
  BY <1>3, IngestedTypes DEF Done
<1> DEFINE F == ready(new)
           n == Cardinality(F)
           u == t(new)
           v == [u EXCEPT !.held = @ \/ (text /\ Chat!Holds(u)), !.said = @ \/ text]
           b == text /\ Chat!Passes(u)
<1>5. F \subseteq Unsent(new)
  BY DEF First, Ready
<1>6. turn' = v /\ cWire' = Said(b) \o Chat!Calls(n)
  BY <1>2 DEF Said
<1>7. u = Chat!Shipped([turn EXCEPT !.tools = new, !.requested = @ \/ ks # {}], F)
  OBVIOUS
<1> HIDE DEF F, ready, t
<1>8. /\ F \subseteq Tools /\ n \in Nat /\ (n = 0 <=> F = {})
      /\ Emitted(new, F) \in [Tools -> Slot]
      /\ Done(Emitted(new, F)) = Done(turn.tools) \cup F
      /\ Cardinality(Done(Emitted(new, F))) = Cardinality(Done(turn.tools)) + n
      /\ Cardinality(Done(turn.tools)) \in Nat
      /\ Cardinality(Done(Emitted(new, F))) <= Cardinality(Tools)
  BY <1>4, <1>5, Sending
<1> HIDE DEF n
<1>9. /\ u \in Chat!Turn /\ u.asked = turn.asked /\ u.requested = (turn.requested \/ ks # {})
      /\ u.saw = (turn.saw \/ F # {}) /\ u.held = (turn.held /\ F = {})
      /\ u.tools = Emitted(new, F) /\ u.count = turn.count + n /\ u.said = turn.said
      /\ u.whole = turn.whole /\ u.over = turn.over
  <2> DEFINE r == [turn EXCEPT !.tools = new, !.requested = @ \/ ks # {}]
  <2>1. /\ r \in Chat!Turn /\ r.tools = new /\ r.requested = (turn.requested \/ ks # {})
        /\ r.asked = turn.asked /\ r.saw = turn.saw /\ r.held = turn.held
        /\ r.count = turn.count /\ r.said = turn.said /\ r.whole = turn.whole
        /\ r.over = turn.over
    BY <1>3, <1>4, ChatWords DEF Chat!Turn
  <2>2. u = [r EXCEPT !.tools = Emitted(@, F), !.count = @ + n,
                      !.saw = @ \/ F # {}, !.held = @ /\ F = {}]
    BY <1>7, ChatWords DEF Chat!Shipped, n
  <2> HIDE DEF r, u
  <2>3. r.count + n \in Nat /\ (r.saw \/ F # {}) \in BOOLEAN /\ (r.held /\ F = {}) \in BOOLEAN
    BY <1>3, <1>8, <2>1
  <2> QED BY <1>8, <2>1, <2>2, <2>3, ChatWords DEF Chat!Turn
<1> HIDE DEF u
<1>10. /\ v \in Chat!Turn /\ v.asked = turn.asked /\ v.requested = u.requested /\ v.saw = u.saw
       /\ v.held = (u.held \/ (text /\ u.requested /\ ~u.saw))
       /\ v.said = (turn.said \/ text) /\ v.tools = Emitted(new, F)
       /\ v.count = turn.count + n /\ v.whole = turn.whole /\ v.over = turn.over
  <2>1. Chat!Holds(u) = (u.requested /\ ~u.saw)
    BY ChatWords DEF Chat!Holds
  <2>2. (u.held \/ (text /\ Chat!Holds(u))) \in BOOLEAN /\ (u.said \/ text) \in BOOLEAN
    OBVIOUS
  <2> QED BY <1>9, <2>1, <2>2, ChatWords DEF Chat!Turn
<1>11. b = (text /\ ~u.requested)
  BY ChatWords DEF Chat!Passes
<1> HIDE DEF v, b
<1>12. Fits(cClient, turn) /\ cClient \in Client /\ cClient.over = "no"
  BY <1>1, Quiet, ChatWords, ChatTypes DEF ChatInv, Fits
<1>13. b \in BOOLEAN
  BY <1>11
<1>14. PICK d \in Client : /\ Leads("chat", cClient, Said(b) \o Chat!Calls(n), d)
                           /\ d.over = "no" /\ d.open = cClient.open
                           /\ d.kinds = Heard(cClient, b, n)
  BY <1>3, <1>8, <1>12, <1>13, AnswerLeads
<1>15. Said(b) \o Chat!Calls(n) \in Seq(Frame)
  BY <1>3, <1>8, <1>12, <1>13, AnswerLeads
<1>16. Aware(turn)
  BY DEF ChatInv
<1>17. Aware(v)
  <2>1. v.count <= Cardinality(Done(v.tools))
    <3>1. v.count = turn.count + n /\ turn.count \in Nat /\ n \in Nat
      BY <1>3, <1>8, <1>10
    <3>2. Cardinality(Done(v.tools)) = Cardinality(Done(turn.tools)) + n
          /\ Cardinality(Done(turn.tools)) \in Nat
      BY <1>8, <1>10
    <3>3. turn.count <= Cardinality(Done(turn.tools))
      BY <1>16 DEF Aware
    <3> QED BY <3>1, <3>2, <3>3
  <2>2. v.saw => Done(v.tools) # {}
    BY <1>8, <1>9, <1>10, <1>16 DEF Aware
  <2>3. (v.asked => v.requested) /\ (v.held => ~v.saw /\ v.said /\ ~v.whole)
    BY <1>1, <1>9, <1>10, <1>16 DEF Aware
  <2> QED BY <1>1, <1>10, <2>1, <2>2, <2>3 DEF Aware
<1>18. Fits(d, v)
  <2>1. /\ "tool" \in d.kinds <=> "tool" \in cClient.kinds \/ n # 0
        /\ "text" \in d.kinds <=> "text" \in cClient.kinds \/ b
    BY <1>14 DEF Heard
  <2>2. v.over = "no"
    BY <1>1, <1>10
  <2>3. /\ cClient.open = {}
        /\ "tool" \in cClient.kinds => turn.saw
        /\ turn.asked => "text" \notin cClient.kinds
        /\ turn.saw => "tool" \in cClient.kinds
        /\ turn.said => turn.held \/ cClient.kinds # {}
    BY <1>1, <1>12 DEF Fits
  <2>4. "tool" \in d.kinds <=> v.saw
    BY <1>8, <1>9, <1>10, <2>1, <2>3
  <2>5. v.asked => "text" \notin d.kinds
    BY <1>9, <1>10, <1>11, <1>16, <2>1, <2>3 DEF Aware
  <2>6. v.said => v.held \/ d.kinds # {}
    <3>1. CASE turn.said /\ ~turn.held
      <4>1. cClient.kinds # {} /\ cClient.kinds \subseteq d.kinds
        BY <1>14, <2>3, <3>1 DEF Heard
      <4> QED BY <4>1
    <3>2. CASE turn.said /\ turn.held
      BY <1>8, <1>9, <1>10, <2>1, <3>2
    <3>3. CASE text
      <4>1. CASE u.requested /\ ~u.saw
        BY <1>10, <3>3, <4>1
      <4>2. CASE u.requested /\ u.saw
        BY <1>10, <2>4, <4>2
      <4>3. CASE ~u.requested
        BY <1>11, <2>1, <3>3, <4>3
      <4> QED BY <4>1, <4>2, <4>3
    <3> QED BY <1>10, <3>1, <3>2, <3>3
  <2> QED BY <1>14, <2>2, <2>3, <2>4, <2>5, <2>6 DEF Fits
<1>19. Chat!TypeOK'
  <2>1. v.count <= Cardinality(Tools)
    <3>1. v.count \in Nat /\ Cardinality(Tools) \in Nat
      BY <1>10, FS_CardinalityType, ChatWords DEF Chat!Turn, WireAssumption
    <3>2. Cardinality(Done(v.tools)) \in Nat /\ Cardinality(Done(v.tools)) <= Cardinality(Tools)
      BY DoneBounded
    <3>3. v.count <= Cardinality(Done(v.tools))
      BY <1>17 DEF Aware
    <3> HIDE DEF Done
    <3> QED BY <3>1, <3>2, <3>3
  <2> QED BY <1>1, <1>6, <1>10, <1>12, <1>15, <2>1, ChatWords, ChatTypes
<1>20. (\E g \in Client : Leads("chat", cClient, cWire, g) /\ Fits(g, turn))'
  BY <1>1, <1>6, <1>14, <1>18
<1> QED BY <1>1, <1>6, <1>17, <1>19, <1>20 DEF ChatInv

LEMMA ChatWhole ==
    ASSUME WireAssumption, ChatInv, NEW text \in BOOLEAN, NEW ks \in SUBSET Tools,
           Chat!Whole(text, ks)
    PROVE  ChatInv'
<1> DEFINE v(new) == [turn EXCEPT !.tools = Emitted(new, Chat!Named(new)),
                                  !.requested = @ \/ ks # {}, !.saw = Chat!Named(new) # {},
                                  !.count = Cardinality(Chat!Within(Chat!Named(new))),
                                  !.said = text, !.whole = TRUE]
           b == text /\ ks = {}
<1>1. /\ turn.over = "no" /\ cWire = <<>> /\ ~turn.whole /\ cClient' = cClient
      /\ turn.tools = [k \in Tools |-> NoSlot] /\ ~turn.said
  BY ChatWords DEF Chat!Whole, Chat!Reading
<1>2. PICK new \in Ingested(turn.tools, ks) :
        turn' = v(new) /\ cWire' = Chat!Calls(v(new).count) \o Said(b)
  <2>1. PICK new \in Ingested(turn.tools, ks) :
        /\ turn' = v(new)
        /\ cWire' = Chat!Calls(v(new).count) \o IF text /\ ks = {} THEN Chat!Text ELSE <<>>
    BY ChatWords, ZenonT(60) DEF Chat!Whole
  <2>2. (IF text /\ ks = {} THEN Chat!Text ELSE <<>>) = Said(b)
    BY DEF Said
  <2> HIDE DEF v
  <2> QED BY <2>1, <2>2
<1>3. turn \in Chat!Turn /\ turn.tools \in [Tools -> Slot] /\ turn.count \in Nat
  BY ChatWords, ChatTypes DEF ChatInv, Chat!Turn
<1>4. new \in [Tools -> Slot] /\ \A k \in Tools : k \notin ks => new[k] = NoSlot
  BY <1>1, <1>3, IngestedTypes
<1> DEFINE K == Chat!Named(new)
           F == Chat!Within(K)
           n == Cardinality(F)
           w == v(new)
<1>5. K \subseteq Unsent(new) /\ F \subseteq K
  BY ChatWords DEF Chat!Named, Chat!Within, First
<1>6. ks = {} => K = {}
  BY <1>4, Fresh, ChatWords DEF Chat!Named, Unsent
<1>7. w = [turn EXCEPT !.tools = Emitted(new, K), !.requested = @ \/ ks # {},
                       !.saw = K # {}, !.count = n, !.said = text, !.whole = TRUE]
  OBVIOUS
<1>8. turn' = w /\ cWire' = Chat!Calls(w.count) \o Said(b)
  BY <1>2
<1> HIDE DEF w, v
<1>9. Chat!Named(Emitted(new, K)) = {}
  <2> SUFFICES ASSUME NEW k \in Chat!Named(Emitted(new, K)) PROVE FALSE
    OBVIOUS
  <2>1. k \in Tools /\ Emitted(new, K)[k].name /\ ~Emitted(new, K)[k].done
        /\ Known(Emitted(new, K)[k])
    BY ChatWords DEF Chat!Named, Unsent
  <2>2. Emitted(new, K)[k] = IF k \in K THEN [new[k] EXCEPT !.done = TRUE] ELSE new[k]
    BY <2>1 DEF Emitted
  <2>3. new[k] \in Slot
    BY <1>4, <2>1
  <2>4. k \notin K
    BY <2>1, <2>2, <2>3 DEF Slot
  <2> QED BY <2>1, <2>2, <2>4, ChatWords DEF Chat!Named, Unsent
<1> HIDE DEF K
<1>10. /\ K \subseteq Tools /\ Cardinality(K) \in Nat
       /\ Emitted(new, K) \in [Tools -> Slot]
       /\ Done(Emitted(new, K)) = Done(new) \cup K
       /\ Cardinality(Done(Emitted(new, K))) = Cardinality(Done(new)) + Cardinality(K)
       /\ Cardinality(Done(new)) \in Nat
  BY <1>4, <1>5, Sending
<1>11. n \in Nat /\ n <= Cardinality(K) /\ (n # 0 => K # {})
  <2>1. IsFiniteSet(K)
    BY <1>10, FS_Subset DEF WireAssumption
  <2>2. F \in SUBSET K
    BY <1>5
  <2>3. n \in Nat /\ n <= Cardinality(K)
    BY <2>1, <2>2, FS_Subset, FS_CardinalityType
  <2> QED BY <2>2, <2>3, FS_EmptySet
<1> HIDE DEF n, F
<1>12. Aware(turn) /\ ~turn.held
  BY <1>1 DEF ChatInv, Aware
<1>13. /\ w \in Chat!Turn /\ w.asked = turn.asked /\ w.requested = (turn.requested \/ ks # {})
       /\ w.saw = (K # {}) /\ w.held = turn.held
       /\ w.tools = Emitted(new, K) /\ w.count = n /\ w.said = text
       /\ w.whole /\ w.over = turn.over
  <2>1. (turn.requested \/ ks # {}) \in BOOLEAN /\ (K # {}) \in BOOLEAN
    OBVIOUS
  <2> QED BY <1>3, <1>7, <1>10, <1>11, <2>1, ChatWords, ZenonT(60) DEF Chat!Turn
<1>14. Fits(cClient, turn) /\ cClient \in Client /\ cClient.over = "no"
  BY <1>1, Quiet, ChatWords, ChatTypes DEF ChatInv, Fits
<1>15. b \in BOOLEAN
  OBVIOUS
<1> HIDE DEF b
<1>16. PICK d \in Client : /\ Leads("chat", cClient, Chat!Calls(n) \o Said(b), d)
                           /\ d.over = "no" /\ d.open = cClient.open
                           /\ d.kinds = Heard(cClient, b, n)
  BY <1>3, <1>11, <1>14, <1>15, AnswerLeads
<1>17. Chat!Calls(n) \o Said(b) \in Seq(Frame)
  BY <1>3, <1>11, <1>14, <1>15, AnswerLeads
<1>18. Aware(w)
  <2>1. w.count <= Cardinality(Done(w.tools))
    <3>1. Cardinality(Done(w.tools)) = Cardinality(Done(new)) + Cardinality(K)
      BY <1>10, <1>13
    <3> QED BY <1>10, <1>11, <1>13, <3>1
  <2>2. w.saw => Done(w.tools) # {}
    BY <1>10, <1>13
  <2>3. (w.asked => w.requested) /\ ~w.held
    BY <1>12, <1>13 DEF Aware
  <2>4. Chat!Named(w.tools) = {}
    BY <1>9, <1>13
  <2> QED BY <2>1, <2>2, <2>3, <2>4 DEF Aware
<1>19. Fits(d, w)
  <2>1. /\ "tool" \in d.kinds <=> "tool" \in cClient.kinds \/ n # 0
        /\ "text" \in d.kinds <=> "text" \in cClient.kinds \/ b
    BY <1>16 DEF Heard
  <2>2. w.over = "no" /\ w.whole
    BY <1>1, <1>13
  <2>3. ~turn.saw
    <3>1. Done(turn.tools) = {}
      BY <1>1, Fresh DEF Done
    <3> QED BY <1>12, <3>1 DEF Aware
  <2>4. /\ cClient.open = {}
        /\ "tool" \notin cClient.kinds
        /\ turn.asked => "text" \notin cClient.kinds
    BY <1>1, <1>14, <2>3 DEF Fits
  <2>5. "tool" \in d.kinds => w.saw
    BY <1>11, <1>13, <2>1, <2>4
  <2>6. w.asked => ~({"text", "tool"} \subseteq d.kinds)
    <3>1. b => n = 0
      BY <1>6, <1>11 DEF b
    <3> QED BY <1>13, <2>1, <2>4, <3>1
  <2> QED BY <1>16, <2>2, <2>4, <2>5, <2>6 DEF Fits
<1>20. Chat!TypeOK'
  <2>1. w.count <= Cardinality(Tools)
    <3>1. w.count \in Nat /\ Cardinality(Tools) \in Nat
      BY <1>13, FS_CardinalityType, ChatWords DEF Chat!Turn, WireAssumption
    <3>2. Cardinality(Done(w.tools)) \in Nat /\ Cardinality(Done(w.tools)) <= Cardinality(Tools)
      BY DoneBounded
    <3>3. w.count <= Cardinality(Done(w.tools))
      BY <1>18 DEF Aware
    <3> HIDE DEF Done
    <3> QED BY <3>1, <3>2, <3>3
  <2> QED BY <1>1, <1>8, <1>13, <1>14, <1>17, <2>1, ChatWords, ChatTypes
<1>21. (\E g \in Client : Leads("chat", cClient, cWire, g) /\ Fits(g, turn))'
  BY <1>1, <1>8, <1>13, <1>16, <1>19
<1> QED BY <1>1, <1>8, <1>18, <1>20, <1>21 DEF ChatInv

(* The end of an answer: what is in it, and the last frame.                  *)
LEMMA EndLeads ==
    ASSUME NEW c \in Client, c.over = "no", c.open = {}, NEW out \in Seq(Frame),
           NEW d \in Client, Leads("chat", c, out, d), d.over = "no", d.open = {},
           NEW reason \in Reasons
    PROVE  LET w == out \o <<Event("end", reason, 0)>>
           IN  /\ w \in Seq(Frame)
               /\ \E f \in Client : /\ Leads("chat", c, w, f) /\ f.over = "end" /\ f.open = {}
                                    /\ f.kinds = d.kinds
<1> DEFINE e == Event("end", reason, 0)
           f == [d EXCEPT !.over = "end", !.reason = reason]
<1>1. f \in Client /\ Leads("chat", d, <<e>>, f)
  BY Ends
<1>2. f.over = "end" /\ f.open = {} /\ f.kinds = d.kinds
  BY DEF Client
<1>3. e \in Frame
  BY EventType DEF Words
<1> HIDE DEF e, f
<1>4. <<e>> \in Seq(Frame)
  BY <1>3
<1>5. Leads("chat", c, out \o <<e>>, f) /\ out \o <<e>> \in Seq(Frame)
  BY <1>1, <1>4, Then, ConcatProperties
<1> QED BY <1>1, <1>2, <1>5 DEF e

LEMMA ErrorLeads ==
    ASSUME NEW c \in Client, c.over = "no", NEW kind \in Errors
    PROVE  LET w == <<Event("error", kind, 0)>>
           IN  /\ w \in Seq(Frame)
               /\ \E f \in Client : /\ Leads("chat", c, w, f) /\ f.over = "error"
                                    /\ f.open = c.open /\ f.kinds = c.kinds
<1> DEFINE e == Event("error", kind, 0)
           f == [c EXCEPT !.over = "error"]
<1>1. e \in Frame /\ e.ev = "error"
  BY EventType DEF Words
<1> HIDE DEF e
<1>2. f \in Client /\ Leads("chat", c, <<e>>, f)
  BY <1>1, Breaks
<1>3. f.over = "error" /\ f.open = c.open /\ f.kinds = c.kinds
  BY DEF Client
<1> HIDE DEF f
<1>4. <<e>> \in Seq(Frame)
  BY <1>1
<1> QED BY <1>2, <1>3, <1>4 DEF e

LEMMA ChatDrain ==
    ASSUME WireAssumption, ChatInv, NEW finish \in {"none", "stop", "length", "tool_calls"},
           Chat!Drain(finish)
    PROVE  ChatInv'
<1> DEFINE F == Chat!Within(Chat!Named(turn.tools))
           n == Cardinality(F)
           t == Chat!Shipped(turn, F)
           empty == ~t.saw /\ ~t.held /\ ~t.said /\ \A k \in Tools : ~t.tools[k].name
           v == [t EXCEPT !.over = "end", !.held = FALSE]
           reason == Chat!Reason(finish, t.saw)
           out == Chat!Calls(n) \o Said(t.held)
<1>1. /\ turn.over = "no" /\ cWire = <<>> /\ cClient' = cClient /\ turn' = v
      /\ cWire' = IF empty THEN <<Event("error", "upstream_error", 0)>>
                 ELSE out \o <<Event("end", reason, 0)>>
  <2>1. /\ turn.over = "no" /\ cWire = <<>> /\ cClient' = cClient /\ turn' = v
        /\ cWire' = IF empty THEN <<Event("error", "upstream_error", 0)>>
                   ELSE Chat!Calls(n) \o (IF t.held THEN Chat!Text ELSE <<>>)
                          \o <<Event("end", reason, 0)>>
    BY ChatWords DEF Chat!Drain
  <2>2. (IF t.held THEN Chat!Text ELSE <<>>) = Said(t.held)
    BY DEF Said
  <2> HIDE DEF v, empty, n, reason
  <2> QED BY <2>1, <2>2
<1>2. turn \in Chat!Turn /\ turn.tools \in [Tools -> Slot] /\ turn.count \in Nat
  BY ChatWords, ChatTypes DEF ChatInv, Chat!Turn
<1>3. F \subseteq Unsent(turn.tools) /\ F \subseteq Chat!Named(turn.tools)
  BY ChatWords DEF Chat!Named, Chat!Within, First
<1>4. t = [turn EXCEPT !.tools = Emitted(@, F), !.count = @ + n,
                       !.saw = @ \/ F # {}, !.held = @ /\ F = {}]
  BY ChatWords DEF Chat!Shipped
<1> HIDE DEF F, t
<1>5. /\ F \subseteq Tools /\ n \in Nat /\ (n = 0 <=> F = {})
      /\ Emitted(turn.tools, F) \in [Tools -> Slot]
      /\ Done(Emitted(turn.tools, F)) = Done(turn.tools) \cup F
      /\ Cardinality(Done(Emitted(turn.tools, F))) = Cardinality(Done(turn.tools)) + n
      /\ Cardinality(Done(turn.tools)) \in Nat
  BY <1>2, <1>3, Sending
<1> HIDE DEF n
<1>6. /\ t \in Chat!Turn /\ t.asked = turn.asked /\ t.requested = turn.requested
      /\ t.saw = (turn.saw \/ F # {}) /\ t.held = (turn.held /\ F = {})
      /\ t.tools = Emitted(turn.tools, F) /\ t.count = turn.count + n /\ t.said = turn.said
      /\ t.whole = turn.whole
  <2>1. turn.count + n \in Nat /\ (turn.saw \/ F # {}) \in BOOLEAN
        /\ (turn.held /\ F = {}) \in BOOLEAN
    BY <1>2, <1>5
  <2> QED BY <1>2, <1>4, <1>5, <2>1, ChatWords DEF Chat!Turn
<1>7. /\ v \in Chat!Turn /\ v.asked = turn.asked /\ v.requested = turn.requested
      /\ v.saw = t.saw /\ ~v.held /\ v.tools = t.tools /\ v.count = t.count
      /\ v.said = turn.said /\ v.whole = turn.whole /\ v.over = "end"
  BY <1>6, ChatWords DEF Chat!Turn
<1>8. t.held \in BOOLEAN
  BY <1>6
<1>9. reason \in Reasons
  BY ChatWords DEF Chat!Reason, Reasons
<1> HIDE DEF v, reason
<1>10. Aware(turn) /\ Fits(cClient, turn) /\ cClient \in Client /\ cClient.over = "no"
       /\ cClient.open = {}
  BY <1>1, Quiet, ChatWords, ChatTypes DEF ChatInv, Fits
<1>11. Aware(v)
  <2>1. v.count <= Cardinality(Done(v.tools))
    <3>1. Cardinality(Done(v.tools)) = Cardinality(Done(turn.tools)) + n
      BY <1>5, <1>6, <1>7
    <3> QED BY <1>2, <1>5, <1>6, <1>7, <1>10, <3>1 DEF Aware
  <2>2. v.saw => Done(v.tools) # {}
    BY <1>5, <1>6, <1>7, <1>10 DEF Aware
  <2>3. v.asked => v.requested
    BY <1>7, <1>10 DEF Aware
  <2>4. v.whole => Chat!Named(v.tools) = {}
    <3>1. ASSUME turn.whole PROVE Chat!Named(v.tools) = {}
      <4>1. Chat!Named(turn.tools) = {} /\ F = {}
        BY <1>3, <1>10, <3>1 DEF Aware
      <4>2. Emitted(turn.tools, {}) = turn.tools
        BY <1>2 DEF Emitted
      <4> QED BY <1>6, <1>7, <4>1, <4>2
    <3> QED BY <1>7, <3>1
  <2> QED BY <1>7, <2>1, <2>2, <2>3, <2>4 DEF Aware
<1>12. Chat!TypeOK' <=> v.count <= Cardinality(Tools) /\ cWire' \in Seq(Frame)
  BY <1>1, <1>7, <1>10, ChatWords, ChatTypes
<1>13. v.count <= Cardinality(Tools)
  <2>1. v.count \in Nat /\ Cardinality(Tools) \in Nat
    BY <1>7, FS_CardinalityType, ChatWords DEF Chat!Turn, WireAssumption
  <2>2. Cardinality(Done(v.tools)) \in Nat /\ Cardinality(Done(v.tools)) <= Cardinality(Tools)
    BY DoneBounded
  <2>3. v.count <= Cardinality(Done(v.tools))
    BY <1>11 DEF Aware
  <2> HIDE DEF Done
  <2> QED BY <2>1, <2>2, <2>3
<1>14. CASE empty
  <2>1. "upstream_error" \in Errors
    BY DEF Errors
  <2> DEFINE w == <<Event("error", "upstream_error", 0)>>
  <2>2. w \in Seq(Frame) /\ \E f \in Client : /\ Leads("chat", cClient, w, f) /\ f.over = "error"
                                              /\ f.open = {} /\ f.kinds = cClient.kinds
    BY <1>10, <2>1, ErrorLeads
  <2>3. cWire' = w
    BY <1>1, <1>14
  <2> HIDE DEF w
  <2>4. PICK f \in Client : /\ Leads("chat", cClient, w, f) /\ f.over = "error"
                            /\ f.open = {} /\ f.kinds = cClient.kinds
    BY <2>2
  <2>5. Fits(f, v)
    BY <1>7, <1>10, <2>4 DEF Fits
  <2>6. (\E g \in Client : Leads("chat", cClient, cWire, g) /\ Fits(g, turn))'
    BY <1>1, <2>3, <2>4, <2>5
  <2> QED BY <1>1, <1>10, <1>11, <1>12, <1>13, <2>2, <2>3, <2>6 DEF ChatInv
<1>15. CASE ~empty
  <2>1. PICK d \in Client : /\ Leads("chat", cClient, out, d)
                            /\ d.over = "no" /\ d.open = cClient.open
                            /\ d.kinds = Heard(cClient, t.held, n)
    BY <1>2, <1>5, <1>8, <1>10, AnswerLeads
  <2>2. out \in Seq(Frame)
    BY <1>2, <1>5, <1>8, <1>10, AnswerLeads
  <2> HIDE DEF out
  <2> DEFINE w == out \o <<Event("end", reason, 0)>>
  <2>3. w \in Seq(Frame) /\ \E f \in Client : /\ Leads("chat", cClient, w, f) /\ f.over = "end"
                                              /\ f.open = {} /\ f.kinds = d.kinds
    BY <1>9, <1>10, <2>1, <2>2, EndLeads
  <2>4. cWire' = w
    BY <1>1, <1>15
  <2> HIDE DEF w
  <2>5. PICK f \in Client : /\ Leads("chat", cClient, w, f) /\ f.over = "end"
                            /\ f.open = {} /\ f.kinds = d.kinds
    BY <2>3
  <2>6. /\ "tool" \in f.kinds <=> "tool" \in cClient.kinds \/ n # 0
        /\ "text" \in f.kinds <=> "text" \in cClient.kinds \/ t.held
        /\ cClient.kinds \subseteq f.kinds
    BY <2>1, <2>5 DEF Heard
  <2>7. /\ turn.asked => ~({"text", "tool"} \subseteq cClient.kinds)
        /\ "tool" \in cClient.kinds => turn.saw
        /\ turn.asked /\ "text" \in cClient.kinds => turn.whole
        /\ ~turn.whole /\ turn.said => turn.held \/ cClient.kinds # {}
    BY <1>1, <1>10 DEF Fits
  <2>8. v.asked => ~({"text", "tool"} \subseteq f.kinds)
    <3>1. CASE t.held
      <4>1. n = 0 /\ "tool" \notin cClient.kinds
        BY <1>5, <1>6, <1>10, <2>7, <3>1 DEF Aware
      <4> QED BY <2>6, <4>1
    <3>2. CASE ~t.held /\ turn.whole
      <4>1. F = {}
        BY <1>3, <1>10, <3>2 DEF Aware
      <4> QED BY <1>5, <1>7, <2>6, <2>7, <3>2, <4>1
    <3>3. CASE ~t.held /\ ~turn.whole
      BY <1>7, <2>6, <2>7, <3>3
    <3> QED BY <3>1, <3>2, <3>3
  <2>9. v.said /\ ~v.whole => f.kinds # {}
    <3> SUFFICES ASSUME turn.said, ~turn.whole PROVE f.kinds # {}
      BY <1>7
    <3>1. CASE cClient.kinds # {}
      BY <2>6, <3>1
    <3>2. CASE turn.held
      <4>1. t.held \/ n # 0
        BY <1>5, <1>6, <3>2
      <4> QED BY <2>6, <4>1
    <3> QED BY <2>7, <3>1, <3>2
  <2>10. Fits(f, v)
    BY <1>7, <2>5, <2>8, <2>9 DEF Fits
  <2>11. (\E g \in Client : Leads("chat", cClient, cWire, g) /\ Fits(g, turn))'
    BY <1>1, <2>4, <2>5, <2>10
  <2> QED BY <1>1, <1>10, <1>11, <1>12, <1>13, <2>3, <2>4, <2>11 DEF ChatInv
<1> QED BY <1>14, <1>15

(* A break while frames are being sent: what has been sent stays.            *)
LEMMA ChatFail == ASSUME ChatInv, Chat!Fail PROVE ChatInv'
<1> DEFINE w == <<Event("error", "proxy_error", 0)>>
           v == [turn EXCEPT !.over = "end"]
<1>1. cClient.over = "no" /\ turn' = v /\ cWire' = w /\ cClient' = cClient
  BY ChatWords DEF Chat!Fail
<1>2. turn \in Chat!Turn /\ turn.count <= Cardinality(Tools) /\ cClient \in Client
      /\ cClient.open = {}
      /\ Aware(turn) /\ cWire \in Seq(Frame)
  BY ChatWords, ChatTypes DEF ChatInv
<1>3. /\ v \in Chat!Turn /\ v.asked = turn.asked /\ v.requested = turn.requested
      /\ v.saw = turn.saw
      /\ v.held = turn.held /\ v.tools = turn.tools /\ v.count = turn.count
      /\ v.said = turn.said /\ v.whole = turn.whole /\ v.over = "end"
  BY <1>2, ChatWords DEF Chat!Turn
<1>4. PICK d \in Client : Leads("chat", cClient, cWire, d) /\ Fits(d, turn)
  BY DEF ChatInv
<1>5. turn.asked => ~({"text", "tool"} \subseteq cClient.kinds)
  BY <1>2, <1>4, LeadsKinds DEF Fits
<1>6. "proxy_error" \in Errors
  BY DEF Errors
<1>7. w \in Seq(Frame) /\ \E f \in Client : /\ Leads("chat", cClient, w, f) /\ f.over = "error"
                                            /\ f.open = {} /\ f.kinds = cClient.kinds
  BY <1>1, <1>2, <1>6, ErrorLeads
<1> HIDE DEF w, v
<1>8. PICK f \in Client : /\ Leads("chat", cClient, w, f) /\ f.over = "error"
                          /\ f.open = {} /\ f.kinds = cClient.kinds
  BY <1>7
<1>9. Fits(f, v)
  BY <1>3, <1>5, <1>8 DEF Fits
<1>10. Aware(v)
  BY <1>2, <1>3 DEF Aware
<1>11. Chat!TypeOK'
  BY <1>1, <1>2, <1>3, <1>7, ChatWords, ChatTypes
<1>12. (\E g \in Client : Leads("chat", cClient, cWire, g) /\ Fits(g, turn))'
  BY <1>1, <1>8, <1>9
<1> QED BY <1>1, <1>2, <1>10, <1>11, <1>12 DEF ChatInv

LEMMA ChatCancel == ASSUME ChatInv, Chat!Cancel PROVE ChatInv'
<1> DEFINE w == <<Event("end", "stop", 0)>>
           v == [turn EXCEPT !.over = "cancelled"]
<1>1. cClient.over = "no" /\ turn' = v /\ cWire' = w /\ cClient' = cClient
  BY ChatWords DEF Chat!Cancel
<1>2. turn \in Chat!Turn /\ turn.count <= Cardinality(Tools) /\ cClient \in Client
      /\ cClient.open = {}
      /\ Aware(turn) /\ cWire \in Seq(Frame)
  BY ChatWords, ChatTypes DEF ChatInv
<1>3. /\ v \in Chat!Turn /\ v.asked = turn.asked /\ v.requested = turn.requested
      /\ v.saw = turn.saw
      /\ v.held = turn.held /\ v.tools = turn.tools /\ v.count = turn.count
      /\ v.said = turn.said /\ v.whole = turn.whole /\ v.over = "cancelled"
  BY <1>2, ChatWords DEF Chat!Turn
<1>4. PICK d \in Client : Leads("chat", cClient, cWire, d) /\ Fits(d, turn)
  BY DEF ChatInv
<1>5. turn.asked => ~({"text", "tool"} \subseteq cClient.kinds)
  BY <1>2, <1>4, LeadsKinds DEF Fits
<1>6. "stop" \in Reasons
  BY DEF Reasons
<1>7. w \in Seq(Frame) /\ \E f \in Client : /\ Leads("chat", cClient, w, f) /\ f.over = "end"
                                            /\ f.open = {} /\ f.kinds = cClient.kinds
  <2> DEFINE e == Event("end", "stop", 0)
             f == [cClient EXCEPT !.over = "end", !.reason = "stop"]
  <2>1. f \in Client /\ Leads("chat", cClient, <<e>>, f)
    BY <1>1, <1>2, <1>6, Ends
  <2>2. f.over = "end" /\ f.open = {} /\ f.kinds = cClient.kinds
    BY <1>2 DEF Client
  <2>3. e \in Frame
    BY <1>6, EventType DEF Words
  <2> HIDE DEF e, f
  <2>4. <<e>> \in Seq(Frame)
    BY <2>3
  <2> QED BY <2>1, <2>2, <2>4 DEF e
<1> HIDE DEF w, v
<1>8. PICK f \in Client : /\ Leads("chat", cClient, w, f) /\ f.over = "end"
                          /\ f.open = {} /\ f.kinds = cClient.kinds
  BY <1>7
<1>9. Fits(f, v)
  BY <1>3, <1>5, <1>8 DEF Fits
<1>10. Aware(v)
  BY <1>2, <1>3 DEF Aware
<1>11. Chat!TypeOK'
  BY <1>1, <1>2, <1>3, <1>7, ChatWords, ChatTypes
<1>12. (\E g \in Client : Leads("chat", cClient, cWire, g) /\ Fits(g, turn))'
  BY <1>1, <1>8, <1>9
<1> QED BY <1>1, <1>2, <1>10, <1>11, <1>12 DEF ChatInv

LEMMA ChatSend == ASSUME ChatInv, Chat!Send PROVE ChatInv'
<1>1. PICK d \in Client : Leads("chat", cClient, cWire, d) /\ Fits(d, turn)
  BY DEF ChatInv
<1>2. cWire \in Seq(Frame) /\ cWire # <<>> /\ cClient \in Client /\ cClient.open = {}
  BY ChatWords, ChatTypes DEF ChatInv, Chat!Send
<1> DEFINE e == Head(cWire)
<1>3. /\ Follows("chat", cClient, e) /\ Receive(cClient, e) \in Client
      /\ Leads("chat", Receive(cClient, e), Tail(cWire), d)
  BY <1>1, <1>2, Sent
<1>4. turn' = turn /\ cClient' = Receive(cClient, e) /\ cWire' = Tail(cWire)
  BY ChatWords DEF Chat!Send
<1>5. Tail(cWire) \in Seq(Frame)
  BY <1>2, HeadTailProperties
<1> HIDE DEF e
<1>6. Receive(cClient, e).open = {}
  BY <1>2, <1>3 DEF Follows, Receive, Client
<1>7. Chat!TypeOK'
  BY <1>3, <1>4, <1>5, ChatWords, ChatTypes DEF ChatInv
<1>8. (\E g \in Client : Leads("chat", cClient, cWire, g) /\ Fits(g, turn))'
  BY <1>1, <1>3, <1>4
<1> QED BY <1>4, <1>6, <1>7, <1>8 DEF ChatInv

LEMMA ChatInit == ASSUME WireAssumption, Chat!Init PROVE ChatInv
<1>1. PICK asked \in BOOLEAN :
        turn = [asked |-> asked, requested |-> asked, saw |-> FALSE, held |-> FALSE,
                tools |-> [k \in Tools |-> NoSlot], count |-> 0, said |-> FALSE,
                whole |-> FALSE, over |-> "no"]
  BY ChatWords DEF Chat!Init
<1>2. cWire = <<>> /\ cClient = NewClient
  BY ChatWords DEF Chat!Init
<1>3. [k \in Tools |-> NoSlot] \in [Tools -> Slot]
  BY Fresh
<1>4. /\ turn \in Chat!Turn /\ turn.count = 0 /\ turn.requested = turn.asked /\ ~turn.saw
      /\ ~turn.held /\ ~turn.said /\ ~turn.whole /\ turn.over = "no"
  BY <1>1, <1>3, ChatWords DEF Chat!Turn
<1>5. /\ cClient \in Client /\ cClient.open = {} /\ cClient.over = "no" /\ cClient.kinds = {}
  BY <1>2 DEF Client, NewClient
<1>6. Cardinality(Tools) \in Nat
  BY FS_CardinalityType DEF WireAssumption
<1>7. Chat!TypeOK
  <2>1. <<>> \in Seq(Frame)
    OBVIOUS
  <2> QED BY <1>2, <1>4, <1>5, <1>6, <2>1, ChatWords, ChatTypes
<1>8. Aware(turn)
  <2>1. Cardinality(Done(turn.tools)) \in Nat
    BY DoneBounded
  <2> QED BY <1>4, <2>1 DEF Aware
<1>9. Leads("chat", cClient, cWire, cClient) /\ Fits(cClient, turn)
  BY <1>2, <1>4, <1>5, Stay DEF Fits
<1> QED BY <1>5, <1>7, <1>8, <1>9 DEF ChatInv

LEMMA ChatStep == ASSUME WireAssumption, ChatInv, [Chat!Next]_Chat!vars PROVE ChatInv'
<1>1. ASSUME NEW text \in BOOLEAN, NEW ks \in SUBSET Tools, Chat!Chunk(text, ks) PROVE ChatInv'
  BY <1>1, ChatChunk
<1>2. ASSUME NEW text \in BOOLEAN, NEW ks \in SUBSET Tools, Chat!Whole(text, ks) PROVE ChatInv'
  BY <1>2, ChatWhole
<1>3. ASSUME NEW finish \in {"none", "stop", "length", "tool_calls"}, Chat!Drain(finish)
      PROVE  ChatInv'
  BY <1>3, ChatDrain
<1>4. CASE Chat!Fail
  BY <1>4, ChatFail
<1>5. CASE Chat!Cancel
  BY <1>5, ChatCancel
<1>6. CASE Chat!Send
  BY <1>6, ChatSend
<1>7. CASE UNCHANGED Chat!vars
  BY <1>7, ChatWords, ChatTypes DEF Chat!vars, ChatInv
<1> QED BY <1>1, <1>2, <1>3, <1>4, <1>5, <1>6, <1>7, ChatWords DEF Chat!Next

LEMMA ChatServed == ASSUME ChatInv PROVE Chat!TypeOK /\ Chat!TextOrTools /\ Chat!AnswerShown
<1>1. PICK d \in Client : Leads("chat", cClient, cWire, d) /\ Fits(d, turn)
  BY DEF ChatInv
<1>2. cWire \in Seq(Frame) /\ Chat!TypeOK
  BY ChatWords, ChatTypes DEF ChatInv
<1>3. Chat!TextOrTools
  BY <1>1, <1>2, LeadsKinds, ChatWords DEF Fits, Chat!TextOrTools
<1>4. ASSUME cClient.over = "end" PROVE d = cClient
  <2>2. ASSUME cWire # <<>> PROVE FALSE
    <3>1. Follows("chat", cClient, Head(cWire))
      BY <1>1, <1>2, <2>2, Sent
    <3> QED BY <1>4, <3>1 DEF Follows
  <2> QED BY <1>1, <2>2, Silent
<1>5. Chat!AnswerShown
  BY <1>1, <1>4, ChatWords DEF Fits, Chat!AnswerShown
<1> QED BY <1>2, <1>3, <1>5

-----------------------------------------------------------------------------
(* The request: four components that share nothing                           *)

(* What the streams keep between them.                                       *)
StreamsInv == MessagesInv /\ ResponsesInv /\ ChatInv

LEMMA Assumed == WireAssumption /\ Responses!ResponsesAssumption
BY RequestAssumption

(* A step of the request is a step of one component or none, and the others  *)
(* stutter.                                                                  *)
LEMMA Parted ==
    ASSUME [RequestNext]_requestVars
    PROVE  /\ [Next]_vars
           /\ [Messages!Next]_Messages!vars
           /\ [Responses!Next]_Responses!vars
           /\ [Chat!Next]_Chat!vars
<1> USE DEF messagesVars, responsesVars, chatVars, Messages!vars, Responses!vars, Chat!vars
<1>1. CASE LeasesNext
  BY <1>1 DEF LeasesNext
<1>2. CASE MessagesNext
  BY <1>2 DEF MessagesNext
<1>3. CASE ResponsesNext
  BY <1>3 DEF ResponsesNext
<1>4. CASE ChatNext
  BY <1>4 DEF ChatNext
<1>5. CASE UNCHANGED requestVars
  BY <1>5 DEF requestVars
<1> QED BY <1>1, <1>2, <1>3, <1>4, <1>5 DEF RequestNext

LEMMA StreamsInit == RequestInit => StreamsInv
BY Assumed, MessagesInit, ResponsesInit, ChatInit DEF RequestInit, StreamsInv

LEMMA StreamsStep == StreamsInv /\ [RequestNext]_requestVars => StreamsInv'
<1> SUFFICES ASSUME StreamsInv, [RequestNext]_requestVars PROVE StreamsInv'
  OBVIOUS
<1>1. MessagesInv /\ ResponsesInv /\ ChatInv
  BY DEF StreamsInv
<1>2. MessagesInv'
  BY <1>1, Assumed, Parted, MessagesStep
<1>3. ResponsesInv'
  BY <1>1, Assumed, Parted, ResponsesStep
<1>4. ChatInv'
  BY <1>1, Assumed, Parted, ChatStep
<1> QED BY <1>2, <1>3, <1>4 DEF StreamsInv

LEMMA StreamsInductive == RequestSpec => []StreamsInv
BY StreamsInit, StreamsStep, PTL DEF RequestSpec

(* The leases behave as they do alone, so that what is proved of Spec above  *)
(* holds of the request too.                                                 *)
LEMMA LeasesAlone == RequestSpec => Spec
<1>1. RequestInit => Init
  BY DEF RequestInit
<1>2. [RequestNext]_requestVars => [Next]_vars
  BY Parted
<1> QED BY <1>1, <1>2, PTL DEF RequestSpec, Spec

(* The leases and the three streams keep their types, and the leases that    *)
(* are streamed on are the ones renewed, whatever fails.                     *)
THEOREM TypesHold == RequestSpec => []TypesOK
<1>1. TypeOK /\ Registered /\ StreamsInv => TypesOK
  BY MessagesServed, ChatServed DEF StreamsInv, TypesOK, ResponsesInv
<1> QED BY <1>1, TypeCorrect, RenewsWhatIsServed, LeasesAlone, StreamsInductive, PTL

(* However many tool calls, pieces and blocks an answer has, and whatever    *)
(* the limit: a complete tool call reaches the client of /v1/messages, and   *)
(* the client is told to run it; a chat turn with tools is text or tool      *)
(* calls, never both, and the text of one without a call is never lost.      *)
THEOREM Delivered == RequestSpec => []AnswerDelivered
<1>1. StreamsInv => AnswerDelivered
  BY MessagesServed, ChatServed DEF StreamsInv, AnswerDelivered
<1> QED BY <1>1, StreamsInductive, PTL

(* The blocks of /v1/messages and the output items of /v1/responses follow   *)
(* ContentBlocks: numbered without a gap, one at a time in the first, all    *)
(* closed before the end, and nothing after the end or an error.             *)
THEOREM ImplementsBlocks == RequestSpec => BlocksFollow
<1>1. RequestInit => Messages!CB!Init /\ Responses!CB!Init
  BY MessagesBegin, ResponsesBegin DEF RequestInit
<1>2. StreamsInv /\ [RequestNext]_requestVars =>
        /\ [Messages!CB!Next]_<<aClient.open, aClient.next, aClient.over>>
        /\ [Responses!CB!Next]_<<rClient.open, rClient.next, rClient.over>>
  BY Parted, MessagesFollow, ResponsesFollow DEF StreamsInv
<1> QED
  BY <1>1, <1>2, StreamsInductive, PTL
  DEF RequestSpec, BlocksFollow, Messages!BlocksFollow, Responses!BlocksFollow,
      Messages!CB!Spec, Responses!CB!Spec
=============================================================================
