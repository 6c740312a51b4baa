--------------------------- MODULE Accounts_proofs ---------------------------
(* Proofs about where accounts come from and how their tokens are kept, for  *)
(* any number of threads, processes, tokens, commits, jobs and stops.        *)
(*                                                                           *)
(* The credential: what a refresh writes is still accepted, and within a     *)
(* process no token is presented twice unless a sweep has spent it           *)
(* (RefreshInv).  The caches: what is about was read after every write of    *)
(* the process that has returned (Informed).  The batch: every copy and every*)
(* verdict is backed by the pool (BatchesFit, SessionsFit), and a stop that  *)
(* is over leaves a mark that no merge of the copies can lose (Stopped).     *)
(* The loop: what it knows of the last batch is in Redis (Rests).            *)
EXTENDS Accounts, Sequences, FiniteSetTheorems, TLAPS

-----------------------------------------------------------------------------
(* The credential                                                            *)

(* A task that is about to present or to mark has an entry.                  *)
HasEntry == \A t \in Tasks : pc[t] \in {"enter", "post", "again"} => copy[t] \in Entry

LocksHeld == \A t \in Tasks : pc[t] \in {"post", "got"} => lock[Process[t]] = t

(* An entry somebody may read: of the row, a cached map or a task.           *)
Known(e) ==
    \/ e = row
    \/ \E p \in Processes : cache[p] = e
    \/ \E t \in Tasks : copy[t] = e

(* Every token that is about was issued.                                     *)
Bounded ==
    /\ \A e \in Entry : Known(e) => e.rt <= issued
    /\ \A t \in Tasks : result[t] <= issued
    /\ \A k \in Tokens : spender[k] # None => k <= issued

(* A token on its way to the row is good, and nobody else has it.            *)
Held(t) == pc[t] \in {"got", "batch"}
Fresh ==
    /\ \A t \in Tasks : Held(t) =>
            /\ result[t] \in accepted
            /\ spender[result[t]] = None
            /\ \A e \in Entry : Known(e) => e.rt # result[t]
    /\ \A t, u \in Tasks : Held(t) /\ Held(u) /\ t # u => result[t] # result[u]

(* A request that has spent k and is not dead.                               *)
Spent(k, s) == s = spender[k] /\ s # None /\ Kind[s] # "sweep"

(* The row shows a spent token, or no account, only until its spender has    *)
(* written; and the cached map of the spender's process only while the       *)
(* spender keeps everybody there from presenting anything.                   *)
RowBehind ==
    \A k \in Tokens, s \in Tasks :
        Spent(k, s) /\ (row = NoRow \/ row.rt = k) => pc[s] = "got"
CacheBehind ==
    \A k \in Tokens, s \in Tasks :
        LET e == cache[Process[s]]
        IN Spent(k, s) /\ (e = NoRow \/ (e \in Entry /\ e.rt = k))
                => lock[Process[s]] = s /\ pc[s] \in {"got", "clear"}

RefreshInv ==
    /\ TypeOK /\ HasEntry /\ LocksHeld /\ Bounded /\ Fresh
    /\ RowBehind /\ CacheBehind /\ SpendsOnce

LEMMA InvInit == Init => RefreshInv
<1> SUFFICES ASSUME Init PROVE RefreshInv
  OBVIOUS
<1> USE CredentialAssumption DEF CredentialAssumption, Init
<1>1. TypeOK
  BY DEF TypeOK, Entry, Tokens, Places
<1>2. Bounded
  BY DEF Bounded, Known, Entry, Tokens
<1>3. HasEntry /\ LocksHeld /\ Fresh /\ RowBehind /\ CacheBehind /\ SpendsOnce
  BY DEF HasEntry, LocksHeld, Fresh, Held, RowBehind, CacheBehind, Spent, SpendsOnce, Present,
         Tokens
<1> QED BY <1>1, <1>2, <1>3 DEF RefreshInv

-----------------------------------------------------------------------------
LEMMA MapType ==
    ASSUME TypeOK, NEW p \in Processes
    PROVE  ReadMap(p) \in Entry \cup {NoRow}
BY DEF TypeOK, ReadMap

LEMMA FillType ==
    ASSUME TypeOK, NEW p \in Processes, FillCache(p)
    PROVE  cache' \in [Processes -> Entry \cup {NoRow, NoCache}]
BY MapType DEF TypeOK, FillCache

LEMMA UnlockType ==
    ASSUME TypeOK, NEW t \in Tasks, Unlock(t)
    PROVE  lock' \in [Processes -> Tasks \cup {None}]
BY DEF TypeOK, Unlock

LEMMA TypeStep == TypeOK /\ HasEntry /\ [Next]_vars => TypeOK' /\ HasEntry'
<1> SUFFICES ASSUME TypeOK, HasEntry, [Next]_vars PROVE TypeOK' /\ HasEntry'
  OBVIOUS
<1> USE CredentialAssumption DEF CredentialAssumption
<1>a. Process \in [Tasks -> Processes]
  OBVIOUS
<1>1. CASE UNCHANGED vars
  BY <1>1 DEF TypeOK, HasEntry, vars
<1>2. ASSUME NEW p \in Processes, Expire(p) \/ Crash(p) PROVE TypeOK' /\ HasEntry'
  <2>1. 0 \in Tokens
    BY DEF Tokens
  <2>2. CASE Expire(p)
    BY <2>2 DEF TypeOK, HasEntry, Expire
  <2>3. CASE Crash(p)
    <3>1. pc' \in [Tasks -> Places]
      BY <2>3 DEF TypeOK, Crash, Places
    <3>2. /\ cache' \in [Processes -> Entry \cup {NoRow, NoCache}]
          /\ lock' \in [Processes -> Tasks \cup {None}]
          /\ UNCHANGED <<row, accepted, issued>>
      BY <2>3 DEF TypeOK, Crash
    <3>3. /\ copy' \in [Tasks -> Entry \cup {NoRow}]
          /\ result' \in [Tasks -> Tokens]
      BY <2>1, <2>3 DEF TypeOK, Crash
    <3>4. spender' \in [Tokens -> Tasks \cup {None}]
      BY <2>3 DEF TypeOK, Crash
    <3>5. HasEntry'
      BY <2>3 DEF TypeOK, HasEntry, Crash
    <3> QED BY <3>1, <3>2, <3>3, <3>4, <3>5 DEF TypeOK
  <2> QED BY <1>2, <2>2, <2>3
<1>3. ASSUME NEW t \in Tasks, ReadEntry(t) \/ Select(t) \/ Enter(t) \/ Purge(t)
                              \/ Remove(t) \/ ReadAll(t)
      PROVE  TypeOK' /\ HasEntry'
  <2> Process[t] \in Processes
    BY <1>a
  <2>1. CASE ReadEntry(t)
    BY <2>1, MapType DEF ReadEntry, Goto, TypeOK, HasEntry, Places
  <2>2. CASE Select(t)
    BY <2>2, MapType, FillType DEF Select, Goto, TypeOK, HasEntry, Places
  <2>3. CASE Enter(t)
    BY <2>3, MapType, FillType DEF Enter, Goto, TypeOK, HasEntry, Places
  <2>4. CASE Purge(t)
    BY <2>4, FillType DEF Purge, Goto, TypeOK, HasEntry, Places
  <2>5. CASE Remove(t)
    BY <2>5, FillType DEF Remove, Goto, TypeOK, HasEntry, Places
  <2>6. CASE ReadAll(t)
    BY <2>6, MapType, FillType DEF ReadAll, Goto, TypeOK, HasEntry, Places
  <2> QED BY <1>3, <2>1, <2>2, <2>3, <2>4, <2>5, <2>6
<1>4. ASSUME NEW t \in Tasks, Exchange(t) \/ ExchangeFails(t) \/ Login(t)
      PROVE  TypeOK' /\ HasEntry'
  <2>1. Rotate(t) /\ Present(t)
            => issued' \in Tokens /\ accepted' \in SUBSET Tokens /\ copy[t].rt \in Tokens
    <3> SUFFICES ASSUME Rotate(t), Present(t)
                 PROVE  /\ issued' \in Tokens /\ accepted' \in SUBSET Tokens
                        /\ copy[t].rt \in Tokens
      OBVIOUS
    <3>1. issued + 1 \in Tokens
      BY DEF TypeOK, Rotate, Tokens
    <3>2. copy[t] \in Entry
      BY DEF HasEntry, Present
    <3> QED BY <3>1, <3>2 DEF TypeOK, Rotate, Entry
  <2>2. CASE Exchange(t)
    <3>1. issued + 1 \in Tokens
      BY <2>2 DEF TypeOK, Exchange, Rotate, Tokens
    <3>2. lock' \in [Processes -> Tasks \cup {None}]
      BY <2>2, UnlockType DEF Exchange, TypeOK
    <3> QED BY <2>1, <2>2, <3>1, <3>2 DEF Exchange, Goto, TypeOK, HasEntry, Places
  <2>3. CASE ExchangeFails(t)
    <3>1. issued' \in Tokens /\ accepted' \in SUBSET Tokens
      BY <2>1, <2>3 DEF ExchangeFails, TypeOK
    <3> QED BY <2>3, <3>1, UnlockType
            DEF ExchangeFails, Goto, TypeOK, HasEntry, Places, Present
  <2>4. CASE Login(t)
    <3>1. issued + 1 \in Tokens
      BY <2>4 DEF TypeOK, Login, Tokens
    <3> QED BY <2>4, <3>1 DEF Login, Goto, TypeOK, HasEntry, Places
  <2> QED BY <1>4, <2>2, <2>3, <2>4
<1>5. ASSUME NEW t \in Tasks, RefuseMarked(t) \/ ExchangeRefused(t) \/ Persist(t)
                              \/ Clear(t) \/ Retry(t) \/ GiveUp(t) \/ Mark(t) \/ WriteAll(t)
      PROVE  TypeOK' /\ HasEntry'
  <2> Process[t] \in Processes
    BY <1>a
  <2>1. CASE RefuseMarked(t) \/ ExchangeRefused(t)
    BY <2>1, UnlockType
       DEF RefuseMarked, ExchangeRefused, Goto, TypeOK, HasEntry, Places
  <2>2. CASE Persist(t)
    BY <2>2 DEF Persist, Goto, TypeOK, HasEntry, Places, Entry, Tokens
  <2>3. CASE Clear(t)
    BY <2>3, UnlockType DEF Clear, Finish, Goto, TypeOK, HasEntry, Places
  <2>4. CASE Retry(t) \/ GiveUp(t)
    BY <2>4 DEF Retry, GiveUp, Finish, Goto, TypeOK, HasEntry, Places
  <2>5. CASE Mark(t)
    BY <2>5 DEF Mark, Goto, TypeOK, HasEntry, Places, Entry
  <2>6. CASE WriteAll(t)
    BY <2>6 DEF WriteAll, Goto, TypeOK, HasEntry, Places
  <2> QED BY <1>5, <2>1, <2>2, <2>3, <2>4, <2>5, <2>6
<1> QED BY <1>1, <1>2, <1>3, <1>4, <1>5 DEF Next, Step

LEMMA LockStep ==
    ASSUME TypeOK, LocksHeld, [Next]_vars
    PROVE  LocksHeld'
<1> USE CredentialAssumption DEF CredentialAssumption
<1>a. Process \in [Tasks -> Processes]
  OBVIOUS
<1>1. CASE UNCHANGED vars
  BY <1>1 DEF LocksHeld, vars
<1>2. ASSUME NEW p \in Processes, Expire(p) \/ Crash(p) PROVE LocksHeld'
  BY <1>a, <1>2 DEF TypeOK, LocksHeld, Expire, Crash
<1>3. ASSUME NEW t \in Tasks, ReadEntry(t) \/ Select(t) \/ Purge(t) \/ Remove(t) \/ ReadAll(t)
                              \/ Retry(t) \/ GiveUp(t) \/ Mark(t) \/ WriteAll(t) \/ Login(t)
                              \/ Persist(t)
      PROVE  LocksHeld'
  <2>1. lock' = lock /\ \E place \in Places \ {"post", "got"} : Goto(t, place)
    BY <1>3 DEF ReadEntry, Select, Purge, Remove, ReadAll, Retry, GiveUp, Mark, WriteAll,
                Login, Persist, Finish, Places
  <2> QED BY <2>1 DEF TypeOK, LocksHeld, Goto
<1>4. ASSUME NEW t \in Tasks, Enter(t) PROVE LocksHeld'
  BY <1>a, <1>4 DEF TypeOK, LocksHeld, Enter, Goto
<1>5. ASSUME NEW t \in Tasks, RefuseMarked(t) \/ Exchange(t) \/ ExchangeFails(t)
                              \/ ExchangeRefused(t) \/ Clear(t)
      PROVE  LocksHeld'
  <2>1. CASE Unlock(t) /\ \E place \in Places \ {"post", "got"} : Goto(t, place)
    BY <1>a, <2>1 DEF TypeOK, LocksHeld, Unlock, Goto
  <2>2. CASE lock' = lock /\ pc[t] = "post" /\ Goto(t, "got")
    BY <2>2 DEF TypeOK, LocksHeld, Goto
  <2> QED BY <1>5, <2>1, <2>2
          DEF RefuseMarked, Exchange, ExchangeFails, ExchangeRefused, Clear, Finish, Present,
              Places
<1> QED BY <1>1, <1>2, <1>3, <1>4, <1>5 DEF Next, Step

-----------------------------------------------------------------------------
(* Steps that bring no token into play: they copy, mark or forget.           *)
Copies ==
    /\ \A e \in Entry : Known(e)' => \E f \in Entry : Known(f) /\ f.rt = e.rt
    /\ UNCHANGED <<accepted, issued>>
    /\ \A t \in Tasks : Held(t)' => Held(t) /\ result'[t] = result[t]
    /\ \A t \in Tasks : result'[t] \in {result[t], 0}
    /\ \A k \in Tokens : spender'[k] \in {spender[k], None}

LEMMA CopiesKeep ==
    ASSUME TypeOK, Bounded, Fresh, Copies
    PROVE  Bounded' /\ Fresh'
<1>1. Bounded'
  <2>1. issued' = issued /\ issued \in Nat
    BY CredentialAssumption DEF TypeOK, Copies, Tokens, CredentialAssumption
  <2>2. \A e \in Entry : Known(e)' => e.rt <= issued'
    BY <2>1 DEF Bounded, Copies
  <2>3. \A t \in Tasks : result'[t] <= issued'
    BY <2>1 DEF Bounded, Copies
  <2>4. \A k \in Tokens : spender'[k] # None => k <= issued'
    BY <2>1 DEF Bounded, Copies
  <2> QED BY <2>2, <2>3, <2>4 DEF Bounded
<1>2. Fresh'
  BY DEF TypeOK, Fresh, Copies
<1> QED BY <1>1, <1>2

LEMMA MapKnown ==
    ASSUME NEW p \in Processes, ReadMap(p) \in Entry
    PROVE  Known(ReadMap(p))
BY DEF ReadMap, Known

LEMMA FillKnown ==
    ASSUME TypeOK, NEW p \in Processes, FillCache(p), row' = row,
           \A t \in Tasks : copy'[t] \in {copy[t], ReadMap(p), NoRow}
    PROVE  \A e \in Entry : Known(e)' => Known(e)
<1> USE CredentialAssumption DEF CredentialAssumption
<1> SUFFICES ASSUME NEW e \in Entry, Known(e)' PROVE Known(e)
  OBVIOUS
<1>1. CASE e = ReadMap(p)
  BY <1>1, MapKnown
<1>2. CASE e # ReadMap(p)
  BY <1>2 DEF TypeOK, FillCache, Known
<1> QED BY <1>1, <1>2

LEMMA FreshStep ==
    ASSUME TypeOK, HasEntry, Bounded, Fresh, [Next]_vars
    PROVE  Bounded' /\ Fresh'
<1> USE CredentialAssumption DEF CredentialAssumption
<1>a. Process \in [Tasks -> Processes]
  OBVIOUS
<1>1. CASE UNCHANGED vars
  BY <1>1 DEF vars, Bounded, Fresh, Held, Known
<1>2. ASSUME NEW p \in Processes, Expire(p) \/ Crash(p) PROVE Bounded' /\ Fresh'
  <2>1. \A e \in Entry : Known(e)' => Known(e)
    BY <1>2 DEF TypeOK, Expire, Crash, Known
  <2>2. UNCHANGED <<accepted, issued>>
    BY <1>2 DEF Expire, Crash
  <2>3. \A t \in Tasks : Held(t)' => Held(t) /\ result'[t] = result[t]
    BY <1>2 DEF TypeOK, Expire, Crash, Held
  <2>4. /\ \A t \in Tasks : result'[t] \in {result[t], 0}
        /\ \A k \in Tokens : spender'[k] \in {spender[k], None}
    BY <1>2 DEF TypeOK, Expire, Crash
  <2> QED BY <2>1, <2>2, <2>3, <2>4, CopiesKeep DEF Copies
<1>3. ASSUME NEW t \in Tasks, ReadEntry(t) \/ Select(t) \/ Enter(t) \/ Purge(t)
                              \/ Remove(t) \/ ReadAll(t)
      PROVE  Bounded' /\ Fresh'
  <2>1. UNCHANGED <<row, result, accepted, issued, spender>>
    BY <1>3 DEF ReadEntry, Select, Enter, Purge, Remove, ReadAll
  <2>2. \A u \in Tasks : Held(u)' => Held(u)
    BY <1>3 DEF TypeOK, ReadEntry, Select, Enter, Purge, Remove, ReadAll, Goto, Held
  <2>3. \A u \in Tasks : copy'[u] \in {copy[u], ReadMap(Process[t])}
    BY <1>3 DEF TypeOK, ReadEntry, Select, Enter, Purge, Remove, ReadAll
  <2>4. CASE ReadEntry(t)
    <3>1. \A e \in Entry : Known(e)' => Known(e)
      BY <1>a, <2>3, <2>4, MapKnown DEF ReadEntry, Known
    <3> QED BY <2>1, <2>2, <3>1, CopiesKeep DEF Copies
  <2>5. CASE ~ReadEntry(t)
    <3>1. FillCache(Process[t])
      BY <1>3, <2>5 DEF Select, Enter, Purge, Remove, ReadAll
    <3>2. \A e \in Entry : Known(e)' => Known(e)
      BY <1>a, <2>1, <2>3, <3>1, FillKnown
    <3> QED BY <2>1, <2>2, <3>2, CopiesKeep DEF Copies
  <2> QED BY <2>4, <2>5
<1>4. ASSUME NEW t \in Tasks, RefuseMarked(t) \/ ExchangeRefused(t) \/ Clear(t)
                              \/ Retry(t) \/ GiveUp(t) \/ Mark(t) \/ WriteAll(t)
      PROVE  Bounded' /\ Fresh'
  <2>1. UNCHANGED <<result, accepted, issued>>
    BY <1>4 DEF RefuseMarked, ExchangeRefused, Clear, Retry, GiveUp, Mark, WriteAll, Finish
  <2>2. \A k \in Tokens : spender'[k] \in {spender[k], None}
    BY <1>4 DEF RefuseMarked, ExchangeRefused, Clear, Retry, GiveUp, Mark, WriteAll, Finish
  <2>3. \A u \in Tasks : Held(u)' => Held(u)
    BY <1>4 DEF TypeOK, RefuseMarked, ExchangeRefused, Clear, Retry, GiveUp, Mark, WriteAll,
                Finish, Goto, Held
  <2>4. \A e \in Entry : Known(e)' => \E f \in Entry : Known(f) /\ f.rt = e.rt
    <3>1. CASE Mark(t)
      <4> SUFFICES ASSUME NEW e \in Entry, Known(e)'
                   PROVE  \E f \in Entry : Known(f) /\ f.rt = e.rt
        OBVIOUS
      <4>1. CASE e = row'
        <5>1. row \in Entry /\ e.rt = row.rt
          BY <3>1, <4>1 DEF Mark, TypeOK, Entry
        <5> QED BY <5>1 DEF Known
      <4>2. CASE e # row'
        BY <3>1, <4>2 DEF Mark, Known
      <4> QED BY <4>1, <4>2
    <3>2. CASE ~Mark(t)
      BY <1>4, <3>2 DEF TypeOK, RefuseMarked, ExchangeRefused, Clear, Retry, GiveUp,
                        WriteAll, Finish, Known
    <3> QED BY <3>1, <3>2
  <2> QED BY <2>1, <2>2, <2>3, <2>4, CopiesKeep DEF Copies
<1>b. issued \in Nat
  BY DEF TypeOK, Tokens
<1>5. ASSUME NEW t \in Tasks, Exchange(t) \/ ExchangeFails(t) PROVE Bounded' /\ Fresh'
  <2>1. /\ copy[t] \in Entry /\ Known(copy[t])
        /\ copy[t].rt \in Tokens /\ copy[t].rt <= issued
    BY <1>5 DEF Exchange, ExchangeFails, Present, HasEntry, Known, Bounded, Entry
  <2>2. \A e : Known(e)' <=> Known(e)
    BY <1>5 DEF Exchange, ExchangeFails, Known
  <2>3. \A u \in Tasks : Held(u) => result[u] # copy[t].rt
    BY <2>1 DEF Fresh
  <2>4. CASE Exchange(t)
    <3>1. /\ issued' = issued + 1 /\ issued + 1 \in Tokens
          /\ accepted' = (accepted \ {copy[t].rt}) \cup {issued + 1}
      BY <2>4 DEF Exchange, Rotate, TypeOK, Tokens
    <3>2. /\ result' = [result EXCEPT ![t] = issued + 1]
          /\ spender' = [spender EXCEPT ![copy[t].rt] = t]
          /\ \A u \in Tasks \ {t} : Held(u)' => Held(u)
      BY <2>4 DEF Exchange, Goto, Held, TypeOK
    <3>3. Bounded'
      BY <1>b, <2>1, <2>2, <3>1, <3>2 DEF Bounded, TypeOK, Entry, Tokens
    <3>4. spender'[issued + 1] = None /\ result'[t] = issued + 1
      BY <1>b, <2>1, <3>1, <3>2 DEF Bounded, TypeOK
    <3>5. \A e \in Entry : Known(e)' => e.rt # issued + 1
      BY <1>b, <2>2 DEF Bounded, Entry, Tokens
    <3>6. \A u \in Tasks \ {t} : result'[u] = result[u] /\ result[u] # issued + 1
      BY <1>b, <3>2 DEF Bounded, TypeOK, Tokens
    <3>7. \A u \in Tasks \ {t} : Held(u)' =>
            /\ result'[u] \in accepted'
            /\ spender'[result'[u]] = None
            /\ \A e \in Entry : Known(e)' => e.rt # result'[u]
      BY <2>2, <2>3, <3>1, <3>2, <3>6 DEF Fresh, TypeOK
    <3>8. \A u, v \in Tasks \ {t} : Held(u)' /\ Held(v)' /\ u # v => result'[u] # result'[v]
      BY <3>2, <3>6 DEF Fresh
    <3> QED BY <3>1, <3>3, <3>4, <3>5, <3>6, <3>7, <3>8 DEF Fresh
  <2>5. CASE ExchangeFails(t)
    <3>1. /\ issued' \in {issued, issued + 1}
          /\ \A k \in accepted \ {copy[t].rt} : k \in accepted'
      BY <2>5 DEF ExchangeFails, Rotate
    <3>2. /\ UNCHANGED <<result, spender>>
          /\ \A u \in Tasks : Held(u)' => Held(u)
      BY <2>5 DEF ExchangeFails, Goto, Held, TypeOK
    <3>3. Bounded'
      BY <1>b, <2>2, <3>1, <3>2 DEF Bounded, TypeOK, Entry, Tokens
    <3> QED BY <2>2, <2>3, <3>1, <3>2, <3>3 DEF Fresh
  <2> QED BY <1>5, <2>4, <2>5
<1>6. ASSUME NEW t \in Tasks, Login(t) PROVE Bounded' /\ Fresh'
  <2>1. /\ issued' = issued + 1 /\ issued + 1 \in Tokens
        /\ accepted' = accepted \cup {issued + 1}
        /\ result' = [result EXCEPT ![t] = issued + 1] /\ spender' = spender
    BY <1>6 DEF Login, TypeOK, Tokens
  <2>2. /\ \A e : Known(e)' <=> Known(e)
        /\ \A u \in Tasks \ {t} : Held(u)' => Held(u)
    BY <1>6 DEF Login, Goto, Held, Known, TypeOK
  <2>3. Bounded'
    BY <1>b, <2>1, <2>2 DEF Bounded, TypeOK, Entry, Tokens
  <2>4. spender'[issued + 1] = None /\ result'[t] = issued + 1
    BY <1>b, <2>1 DEF Bounded, TypeOK
  <2>5. \A e \in Entry : Known(e)' => e.rt # issued + 1
    BY <1>b, <2>2 DEF Bounded, Entry, Tokens
  <2>6. \A u \in Tasks \ {t} : result'[u] = result[u] /\ result[u] # issued + 1
    BY <1>b, <2>1 DEF Bounded, TypeOK, Tokens
  <2> QED BY <2>1, <2>2, <2>3, <2>4, <2>5, <2>6 DEF Fresh
<1>7. ASSUME NEW t \in Tasks, Persist(t) PROVE Bounded' /\ Fresh'
  <2>1. /\ Held(t) /\ row'.rt = result[t] /\ result' = [result EXCEPT ![t] = 0]
        /\ UNCHANGED <<accepted, issued, spender>>
    BY <1>7 DEF Persist, Held
  <2>2. /\ ~Held(t)' /\ \A u \in Tasks : Held(u)' => Held(u)
        /\ \A e : Known(e)' => Known(e) \/ e = row'
    BY <1>7 DEF Persist, Goto, Held, Known, TypeOK
  <2>3. \A u \in Tasks \ {t} : result'[u] = result[u]
    BY <2>1 DEF TypeOK
  <2>4. Bounded'
    BY <1>b, <2>1, <2>2 DEF Bounded, TypeOK
  <2> QED BY <2>1, <2>2, <2>3, <2>4 DEF Fresh
<1> QED BY <1>1, <1>2, <1>3, <1>4, <1>5, <1>6, <1>7 DEF Next, Step

-----------------------------------------------------------------------------
(* Where the spent tokens still show.  Most steps move one task that is not  *)
(* between an exchange and the end of its commit, and at most fill the map   *)
(* cache of its process from the row.                                        *)
LEMMA MoveKeeps ==
    ASSUME TypeOK, LocksHeld, RowBehind, CacheBehind, NEW t \in Tasks,
           pc[t] \notin {"got", "clear"}, spender' = spender,
           \A u \in Tasks \ {t} : pc'[u] = pc[u],
           row' = row \/ (row' # NoRow /\ row'.rt = row.rt),
           cache' = cache \/ FillCache(Process[t]),
           \A p \in Processes : lock[p] \in Tasks \ {t} => lock'[p] = lock[p]
    PROVE  RowBehind' /\ CacheBehind'
<1> USE CredentialAssumption DEF CredentialAssumption
<1>a. Process \in [Tasks -> Processes]
  OBVIOUS
<1>1. RowBehind'
  BY DEF RowBehind, Spent
<1>2. ASSUME NEW k \in Tokens, NEW s \in Tasks, Spent(k, s)',
             LET e == cache'[Process[s]] IN e = NoRow \/ (e \in Entry /\ e.rt = k)
      PROVE  lock'[Process[s]] = s /\ pc'[s] \in {"got", "clear"}
  <2>1. Spent(k, s)
    BY <1>2 DEF Spent
  <2>2. lock[Process[s]] = s /\ pc[s] \in {"got", "clear"}
    <3>1. CASE cache'[Process[s]] = cache[Process[s]]
      BY <1>2, <2>1, <3>1 DEF CacheBehind
    <3>2. CASE cache'[Process[s]] # cache[Process[s]]
      <4>1. cache'[Process[s]] = row
        BY <1>a, <3>2 DEF FillCache, ReadMap, TypeOK
      <4>2. pc[s] = "got"
        BY <1>2, <2>1, <4>1 DEF RowBehind
      <4> QED BY <4>2 DEF LocksHeld
    <3> QED BY <3>1, <3>2
  <2> QED BY <1>a, <2>2
<1> QED BY <1>1, <1>2 DEF CacheBehind

LEMMA BehindStep ==
    ASSUME RefreshInv, [Next]_vars
    PROVE  RowBehind' /\ CacheBehind'
<1> USE CredentialAssumption DEF CredentialAssumption
<1>a. Process \in [Tasks -> Processes]
  OBVIOUS
<1>t. TypeOK /\ RowBehind /\ CacheBehind /\ LocksHeld
  BY DEF RefreshInv
<1>1. CASE UNCHANGED vars
  BY <1>t, <1>1 DEF vars, RowBehind, CacheBehind, Spent
<1>2. ASSUME NEW p \in Processes, Expire(p) PROVE RowBehind' /\ CacheBehind'
  BY <1>a, <1>t, <1>2 DEF TypeOK, Expire, RowBehind, CacheBehind, Spent
<1>3. ASSUME NEW p \in Processes, Crash(p) PROVE RowBehind' /\ CacheBehind'
  <2>1. \A k \in Tokens, s \in Tasks : Spent(k, s)' => Spent(k, s) /\ Process[s] # p
    BY <1>t, <1>3 DEF TypeOK, Crash, Spent
  <2>2. \A s \in Tasks : Process[s] # p =>
            /\ pc'[s] = pc[s] /\ cache'[Process[s]] = cache[Process[s]]
            /\ lock'[Process[s]] = lock[Process[s]]
    BY <1>a, <1>t, <1>3 DEF TypeOK, Crash
  <2>3. row' = row
    BY <1>3 DEF Crash
  <2>4. RowBehind'
    BY <1>t, <2>1, <2>2, <2>3 DEF RowBehind
  <2>5. CacheBehind'
    BY <1>t, <2>1, <2>2 DEF CacheBehind
  <2> QED BY <2>4, <2>5
<1>4. ASSUME NEW t \in Tasks, WriteAll(t) PROVE RowBehind' /\ CacheBehind'
  <2>1. \A k \in Tokens, s \in Tasks : ~Spent(k, s)'
    BY <1>4 DEF WriteAll, Spent
  <2> QED BY <2>1 DEF RowBehind, CacheBehind
<1>5. ASSUME NEW t \in Tasks, ReadEntry(t) \/ Select(t) \/ Purge(t) \/ Remove(t) \/ ReadAll(t)
                              \/ Retry(t) \/ GiveUp(t) \/ Login(t)
      PROVE  RowBehind' /\ CacheBehind'
  <2>1. /\ pc[t] \notin {"got", "clear"} /\ UNCHANGED <<spender, row, lock>>
        /\ cache' = cache \/ FillCache(Process[t])
    BY <1>5 DEF ReadEntry, Select, Purge, Remove, ReadAll, Retry, GiveUp, Login
  <2>2. \A u \in Tasks \ {t} : pc'[u] = pc[u]
    BY <1>t, <1>5 DEF ReadEntry, Select, Purge, Remove, ReadAll, Retry, GiveUp, Login, Finish,
                     Goto, TypeOK
  <2> QED BY <1>t, <2>1, <2>2, MoveKeeps
<1>6. ASSUME NEW t \in Tasks, Enter(t) PROVE RowBehind' /\ CacheBehind'
  <2>1. /\ pc[t] \notin {"got", "clear"} /\ UNCHANGED <<spender, row>> /\ FillCache(Process[t])
    BY <1>6 DEF Enter
  <2>2. /\ \A u \in Tasks \ {t} : pc'[u] = pc[u]
        /\ \A p \in Processes : lock[p] \in Tasks \ {t} => lock'[p] = lock[p]
    BY <1>t, <1>6 DEF Enter, Goto, TypeOK
  <2> QED BY <1>t, <2>1, <2>2, MoveKeeps
<1>7. ASSUME NEW t \in Tasks, RefuseMarked(t) \/ ExchangeFails(t) \/ ExchangeRefused(t)
      PROVE  RowBehind' /\ CacheBehind'
  <2>1. /\ pc[t] \notin {"got", "clear"} /\ UNCHANGED <<spender, row, cache>>
        /\ Unlock(t)
    BY <1>7 DEF RefuseMarked, ExchangeFails, ExchangeRefused, Present
  <2>2. \A u \in Tasks \ {t} : pc'[u] = pc[u]
    BY <1>t, <1>7 DEF RefuseMarked, ExchangeFails, ExchangeRefused, Goto, TypeOK
  <2>3. \A p \in Processes : lock[p] \in Tasks \ {t} => lock'[p] = lock[p]
    BY <2>1 DEF Unlock
  <2> QED BY <1>t, <2>1, <2>2, <2>3, MoveKeeps
<1>8. ASSUME NEW t \in Tasks, Mark(t) PROVE RowBehind' /\ CacheBehind'
  <2>1. row' = row \/ (row' # NoRow /\ row'.rt = row.rt)
    BY <1>t, <1>8 DEF Mark, TypeOK, Entry
  <2>2. /\ pc[t] \notin {"got", "clear"} /\ UNCHANGED <<spender, cache, lock>>
        /\ \A u \in Tasks \ {t} : pc'[u] = pc[u]
    BY <1>t, <1>8 DEF Mark, Goto, TypeOK
  <2> QED BY <1>t, <2>1, <2>2, MoveKeeps
<1>9. ASSUME NEW t \in Tasks, Exchange(t) PROVE RowBehind' /\ CacheBehind'
  <2>1. /\ pc[t] = "post" /\ lock[Process[t]] = t /\ UNCHANGED <<row, cache>>
        /\ spender' = [spender EXCEPT ![copy[t].rt] = t]
    BY <1>t, <1>9 DEF Exchange, Present, LocksHeld
  <2>2. /\ \A u \in Tasks \ {t} : pc'[u] = pc[u]
        /\ \A p \in Processes : lock[p] \in Tasks \ {t} => lock'[p] = lock[p]
        /\ Kind[t] # "sweep" => pc'[t] = "got" /\ lock' = lock
    BY <1>t, <1>9 DEF Exchange, Goto, Unlock, TypeOK
  <2>3. \A k \in Tokens, s \in Tasks :
            Spent(k, s)' => Spent(k, s) \/ (s = t /\ Kind[t] # "sweep")
    BY <1>t, <2>1 DEF Spent, TypeOK
  <2>4. RowBehind'
    BY <1>t, <2>1, <2>2, <2>3 DEF RowBehind
  <2>5. CacheBehind'
    BY <1>a, <1>t, <2>1, <2>2, <2>3 DEF CacheBehind
  <2> QED BY <2>4, <2>5
<1>10. ASSUME NEW t \in Tasks, Persist(t) PROVE RowBehind' /\ CacheBehind'
  <2>1. /\ row' # NoRow /\ row'.rt = result[t]
        /\ UNCHANGED <<cache, lock, spender>>
    <3>1. row' = [rt |-> result[t], bad |-> FALSE] /\ UNCHANGED <<cache, lock, spender>>
      BY <1>10 DEF Persist
    <3>2. [rt |-> result[t], bad |-> FALSE] \in Entry
      BY <1>t DEF TypeOK, Entry
    <3> QED BY <3>1, <3>2
  <2>2. spender[result[t]] = None
    BY <1>10 DEF Persist, RefreshInv, Fresh, Held
  <2>3. /\ \A u \in Tasks \ {t} : pc'[u] = pc[u]
        /\ pc'[t] = "clear"
    BY <1>t, <1>10 DEF Persist, Goto, TypeOK
  <2>4. RowBehind'
    BY <2>1, <2>2 DEF RowBehind, Spent
  <2>5. CacheBehind'
    BY <1>t, <2>1, <2>3 DEF CacheBehind, Spent
  <2> QED BY <2>4, <2>5
<1>11. ASSUME NEW t \in Tasks, Clear(t) PROVE RowBehind' /\ CacheBehind'
  <2>1. /\ pc[t] = "clear" /\ UNCHANGED <<row, spender>> /\ Unlock(t)
        /\ cache'[Process[t]] = NoCache
        /\ \A s \in Tasks : Process[s] # Process[t]
                => cache'[Process[s]] = cache[Process[s]]
        /\ \A u \in Tasks \ {t} : pc'[u] = pc[u]
    BY <1>a, <1>t, <1>11 DEF Clear, Finish, Goto, TypeOK
  <2>2. \A s \in Tasks \ {t} : lock[Process[s]] = s => lock'[Process[s]] = s
    BY <1>a, <2>1 DEF Unlock
  <2>3. RowBehind'
    BY <1>t, <2>1 DEF RowBehind, Spent
  <2>4. CacheBehind'
    BY <1>t, <2>1, <2>2 DEF CacheBehind, Spent
  <2> QED BY <2>3, <2>4
<1> QED BY <1>1, <1>2, <1>3, <1>4, <1>5, <1>6, <1>7, <1>8, <1>9, <1>10, <1>11 DEF Next, Step

-----------------------------------------------------------------------------
(* Nobody presents a token that a request of the same process has spent.     *)
Unspent(t, k) ==
    LET s == spender[k]
    IN s # None => Process[s] # Process[t] \/ Kind[s] = "sweep"

LEMMA SpendStep ==
    ASSUME RefreshInv, [Next]_vars
    PROVE  SpendsOnce'
<1> USE CredentialAssumption DEF CredentialAssumption
<1>a. Process \in [Tasks -> Processes]
  OBVIOUS
<1>t. TypeOK /\ HasEntry /\ LocksHeld /\ RowBehind /\ CacheBehind
  BY DEF RefreshInv
<1>s. \A u \in Tasks : Present(u) => Unspent(u, copy[u].rt)
  BY DEF RefreshInv, SpendsOnce, Unspent
<1>1. CASE /\ \A u \in Tasks : Present(u)' => Present(u) /\ copy'[u] = copy[u]
           /\ \A k \in Tokens : spender'[k] \in {spender[k], None}
  <2>1. \A u \in Tasks : Present(u) => copy[u].rt \in Tokens
    BY <1>t DEF Present, HasEntry, Entry
  <2> QED BY <1>1, <1>s, <2>1 DEF SpendsOnce, Unspent
<1>2. ASSUME NEW t \in Tasks, Enter(t) PROVE SpendsOnce'
  <2>1. /\ lock[Process[t]] = None /\ spender' = spender /\ copy[t] \in Entry
        /\ copy'[t] = IF ReadMap(Process[t]) = NoRow THEN copy[t] ELSE ReadMap(Process[t])
        /\ \A u \in Tasks \ {t} : pc'[u] = pc[u] /\ copy'[u] = copy[u]
    BY <1>t, <1>2 DEF Enter, Goto, TypeOK, HasEntry
  <2>2. \A u \in Tasks \ {t} : Present(u)' => Present(u)
    BY <2>1 DEF Present
  <2>3. copy'[t] \in Entry /\ copy'[t].rt \in Tokens
    BY <1>a, <1>t, <2>1, MapType DEF Entry
  <2>4. ASSUME NEW s \in Tasks, s = spender[copy'[t].rt], Process[s] = Process[t],
               Kind[s] # "sweep"
        PROVE  FALSE
    <3>1. Spent(copy'[t].rt, s) /\ lock[Process[s]] # s
      BY <2>1, <2>4 DEF Spent
    <3>2. CASE cache[Process[t]] = NoCache
      <4>1. row = NoRow \/ row.rt = copy'[t].rt
        BY <2>1, <3>2 DEF ReadMap
      <4>2. pc[s] = "got"
        BY <1>t, <2>3, <3>1, <4>1 DEF RowBehind
      <4> QED BY <1>t, <3>1, <4>2 DEF LocksHeld
    <3>3. CASE cache[Process[t]] # NoCache
      <4>1. LET e == cache[Process[s]]
            IN e = NoRow \/ (e \in Entry /\ e.rt = copy'[t].rt)
        BY <2>1, <2>3, <2>4, <3>3 DEF ReadMap
      <4> QED BY <1>t, <2>3, <3>1, <4>1 DEF CacheBehind
    <3> QED BY <3>2, <3>3
  <2>5. Unspent(t, copy'[t].rt)
    BY <1>t, <2>3, <2>4 DEF Unspent, TypeOK
  <2> QED BY <1>s, <2>1, <2>2, <2>5 DEF SpendsOnce, Unspent
<1>3. ASSUME NEW t \in Tasks, Exchange(t) PROVE SpendsOnce'
  <2>1. /\ lock[Process[t]] = t /\ copy' = copy /\ copy[t].rt \in Tokens
        /\ spender' = [spender EXCEPT ![copy[t].rt] = t]
        /\ \A u \in Tasks : Present(u)' => Present(u) /\ u # t
    BY <1>t, <1>3 DEF Exchange, Present, LocksHeld, HasEntry, Goto, TypeOK, Entry
  <2>2. \A u \in Tasks : Present(u)' => lock[Process[u]] # t
    BY <1>t, <2>1 DEF Present, LocksHeld
  <2>3. \A k : k # copy[t].rt => spender'[k] = spender[k]
    BY <1>t, <2>1 DEF TypeOK
  <2>4. spender'[copy[t].rt] = t
    BY <1>t, <2>1 DEF TypeOK
  <2> SUFFICES ASSUME NEW u \in Tasks, Present(u)', spender'[copy'[u].rt] # None
               PROVE  \/ Process[spender'[copy'[u].rt]] # Process[u]
                      \/ Kind[spender'[copy'[u].rt]] = "sweep"
    BY DEF SpendsOnce
  <2>5. CASE copy[u].rt = copy[t].rt
    BY <2>1, <2>2, <2>4, <2>5
  <2>6. CASE copy[u].rt # copy[t].rt
    BY <1>s, <2>1, <2>3, <2>6 DEF Unspent
  <2> QED BY <2>5, <2>6
<1>4. CASE UNCHANGED vars
  BY <1>1, <1>4 DEF vars, Present
<1>5. ASSUME NEW p \in Processes, Expire(p) \/ Crash(p) PROVE SpendsOnce'
  <2>1. \A u \in Tasks : Present(u)' => Present(u) /\ copy'[u] = copy[u]
    BY <1>t, <1>5 DEF Expire, Crash, Present, TypeOK
  <2>2. \A k \in Tokens : spender'[k] \in {spender[k], None}
    BY <1>5 DEF Expire, Crash
  <2> QED BY <1>1, <2>1, <2>2
<1>6. ASSUME NEW t \in Tasks, ReadEntry(t) \/ Select(t) \/ RefuseMarked(t) \/ ExchangeFails(t)
                              \/ ExchangeRefused(t) \/ Persist(t) \/ Clear(t) \/ Retry(t)
                              \/ GiveUp(t) \/ Mark(t) \/ Purge(t) \/ Remove(t) \/ Login(t)
                              \/ ReadAll(t) \/ WriteAll(t)
      PROVE  SpendsOnce'
  <2>1. /\ \E place \in Places \ {"post"} : Goto(t, place)
        /\ \A u \in Tasks \ {t} : copy'[u] = copy[u]
        /\ \A k \in Tokens : spender'[k] \in {spender[k], None}
    BY <1>t, <1>6 DEF ReadEntry, Select, RefuseMarked, ExchangeFails, ExchangeRefused, Persist,
                     Clear, Retry, GiveUp, Mark, Purge, Remove, Login, ReadAll, WriteAll,
                     Finish, Places, TypeOK
  <2>2. \A u \in Tasks : Present(u)' => Present(u) /\ copy'[u] = copy[u]
    BY <1>t, <2>1 DEF Goto, Present, TypeOK
  <2> QED BY <1>1, <2>1, <2>2
<1> QED BY <1>2, <1>3, <1>4, <1>5, <1>6 DEF Next, Step

LEMMA InvStep == RefreshInv /\ [Next]_vars => RefreshInv'
<1> SUFFICES ASSUME RefreshInv, [Next]_vars PROVE RefreshInv'
  OBVIOUS
<1> QED BY TypeStep, LockStep, FreshStep, BehindStep, SpendStep DEF RefreshInv

LEMMA InvHolds == Spec => []RefreshInv
<1> QED BY InvInit, InvStep, PTL DEF Spec

(* Type correctness of the row, the cached maps, the locks and the tokens.   *)
THEOREM TypeCorrect == Spec => []TypeOK
BY InvHolds, PTL DEF RefreshInv

(* refresh_and_persist: the lock, the second read under it and the           *)
(* invalidation before it is left keep a token from being presented twice in *)
(* a process, whatever refreshes, logins, crashes and expiries overlap.      *)
THEOREM TokensAreSpentOnce == Spec => []SpendsOnce
BY InvHolds, PTL DEF RefreshInv

(* upsert_account_merged and _apply: a refresh that ends writes a token the  *)
(* provider still accepts, however late the write comes.                     *)
THEOREM WritesAreLive == Spec => RefreshWritesLive
<1>1. RefreshInv /\ [Next]_vars
        => [\A t \in Tasks : pc[t] \in {"got", "batch"} /\ pc'[t] = "clear"
                => row'.rt \in accepted']_vars
  <2> SUFFICES ASSUME RefreshInv, Next, NEW t \in Tasks, pc[t] \in {"got", "batch"},
                      pc'[t] = "clear"
               PROVE  row'.rt \in accepted'
    OBVIOUS
  <2>1. Persist(t)
    BY DEF RefreshInv, TypeOK, Next, Step, ReadEntry, Select, Enter, RefuseMarked, Exchange,
           ExchangeFails, ExchangeRefused, Persist, Clear, Retry, GiveUp, Mark, Purge, Remove,
           Login, ReadAll, WriteAll, Expire, Crash, Goto, Finish, Present
  <2>2. row'.rt = result[t] /\ accepted' = accepted
    BY <2>1 DEF Persist
  <2> QED BY <2>2 DEF RefreshInv, Fresh, Held
<1> QED BY <1>1, InvHolds, PTL DEF Spec, RefreshWritesLive
-----------------------------------------------------------------------------
(* The caches                                                                *)

(* Writes that have not returned.                                            *)
Pending == {w \in Writers : writer[w] # "idle"}

(* Each generation is a commit whose write has returned.                     *)
Counted == IsFiniteSet(Pending) /\ generation + Cardinality(Pending) <= table

CacheTypes ==
    /\ table \in Caches!Copies
    /\ mapCache \in Caches!Copies \cup {Empty}
    /\ mapLock \in Caches!Builders \cup {None}
    /\ live \in Caches!Copies \cup {Empty}
    /\ fresh \in BOOLEAN /\ (fresh => live # Empty)
    /\ generation \in Nat
    /\ refreshing \in BOOLEAN /\ throttled \in BOOLEAN
    /\ writer \in [Writers -> {"idle", "committed", "mapped"}]
    /\ wrote \in [Writers -> Caches!Copies]
    /\ builder \in [Caches!Builders -> {"idle", "read", "publish", "store"}]
    /\ read \in [Caches!Builders -> Caches!Copies]
    /\ gen \in [Caches!Builders -> Nat]
    /\ done \in Caches!Copies
    /\ refreshing <=> builder["refresher"] # "idle"

(* What is about was read from the table.  A write that has emptied the map  *)
(* is in whatever fills it again, which the lock of the map keeps one at a   *)
(* time; and what is built since the last write has every one before it.     *)
Recent(n) ==
    /\ n >= done
    /\ \A w \in Writers : writer[w] = "mapped" => n >= wrote[w]

Informed ==
    /\ \A w \in Writers : wrote[w] <= table
    /\ done <= table
    /\ \A b \in Caches!Builders :
          /\ gen[b] <= generation
          /\ builder[b] = "publish" => mapLock = b /\ Recent(read[b])
          /\ builder[b] = "store" /\ gen[b] = generation => read[b] >= done
    /\ mapCache # Empty => Recent(mapCache)
    /\ fresh => live >= done

CacheInv == CacheTypes /\ Informed

LEMMA CacheInit == Caches!CacheAssumption /\ Caches!Init => CacheInv
<1> SUFFICES ASSUME Caches!CacheAssumption, Caches!Init PROVE CacheInv
  OBVIOUS
<1>1. 0 \in Caches!Copies
  BY DEF Caches!Copies, Caches!CacheAssumption
<1>2. CacheTypes
  BY <1>1 DEF Caches!Init, CacheTypes, Caches!Builders
<1>3. Informed
  BY DEF Caches!Init, Informed
<1> QED BY <1>2, <1>3 DEF CacheInv

LEMMA ScheduleShape ==
    ASSUME Caches!CacheAssumption, CacheTypes, Caches!Schedule, generation' \in Nat
    PROVE  /\ refreshing' \in BOOLEAN /\ throttled' \in BOOLEAN
           /\ gen' \in [Caches!Builders -> Nat]
           /\ builder' \in [Caches!Builders -> {"idle", "read", "publish", "store"}]
           /\ refreshing' <=> builder'["refresher"] # "idle"
           /\ \A b \in Caches!Builders :
                 \/ builder'[b] = builder[b] /\ gen'[b] = gen[b]
                 \/ builder'[b] = "read" /\ gen'[b] = generation'
<1>1. CASE live # Empty /\ ~refreshing /\ ~throttled
  <2>1. "refresher" \in Caches!Builders
    BY DEF Caches!Builders
  <2>2. /\ refreshing' = TRUE /\ throttled' = TRUE
        /\ builder' = [builder EXCEPT !["refresher"] = "read"]
        /\ gen' = [gen EXCEPT !["refresher"] = generation']
    BY <1>1 DEF Caches!Schedule
  <2> QED BY <2>1, <2>2 DEF CacheTypes
<1>2. CASE ~(live # Empty /\ ~refreshing /\ ~throttled)
  BY <1>2 DEF Caches!Schedule, CacheTypes
<1> QED BY <1>1, <1>2

LEMMA CacheStep ==
    ASSUME Caches!CacheAssumption, CacheInv, [Caches!Next]_Caches!vars
    PROVE  CacheInv'
<1> USE DEF CacheInv
<1>1. CASE UNCHANGED Caches!vars
  BY <1>1 DEF Caches!vars, CacheTypes, Informed, Recent
<1>2. ASSUME NEW w \in Writers, Caches!Commit(w) PROVE CacheInv'
  <2>1. CacheTypes'
    BY <1>2 DEF Caches!Commit, CacheTypes, Caches!Copies, Caches!CacheAssumption
  <2>2. Informed'
    BY <1>2 DEF Caches!Commit, CacheTypes, Caches!Copies, Caches!CacheAssumption, Informed, Recent
  <2> QED BY <2>1, <2>2
<1>3. ASSUME NEW w \in Writers, Caches!InvalidateMap(w) PROVE CacheInv'
  <2>1. CacheTypes'
    BY <1>3 DEF Caches!InvalidateMap, CacheTypes
  <2>2. Informed'
    BY <1>3 DEF Caches!InvalidateMap, CacheTypes, Caches!CacheAssumption, Informed, Recent
  <2> QED BY <2>1, <2>2
<1>4. ASSUME NEW w \in Writers, Caches!InvalidateLive(w) PROVE CacheInv'
  <2>1. Caches!Schedule /\ generation' = generation + 1 /\ generation' \in Nat
    BY <1>4 DEF Caches!InvalidateLive, CacheTypes
  <2>2. CacheTypes'
    BY <1>4, <2>1, ScheduleShape DEF Caches!InvalidateLive, CacheTypes
  <2>3. done' \in Int /\ (done' = done \/ done' = wrote[w]) /\ wrote[w] \in Int
        /\ wrote[w] <= table
    BY <1>4 DEF Caches!InvalidateLive, CacheTypes, Caches!Copies, Informed
  <2>4. \A v \in Writers : writer'[v] = "mapped" => writer[v] = "mapped"
    BY <1>4 DEF Caches!InvalidateLive, CacheTypes
  <2>5. \A c : Recent(c) => Recent(c)'
    BY <1>4, <2>3, <2>4 DEF Caches!InvalidateLive, Recent
  <2>6. \A b \in Caches!Builders : gen'[b] <= generation'
    BY <2>1, <2>2, ScheduleShape DEF CacheTypes, Informed
  <2>7. \A b \in Caches!Builders : builder'[b] \in {"publish",
        "store"} => gen'[b] # generation' /\ builder'[b] = builder[b]
    BY <2>1, <2>2, ScheduleShape DEF CacheTypes, Informed
  <2>8. Informed'
    BY <1>4, <2>1, <2>3, <2>5, <2>6, <2>7 DEF Caches!InvalidateLive, CacheTypes, Caches!Copies,
        Informed
  <2> QED BY <2>2, <2>8
<1>5. ASSUME NEW b \in Readers, Caches!ListStale(b) PROVE CacheInv'
  <2>1. Caches!Schedule /\ generation' = generation /\ generation' \in Nat
    BY <1>5 DEF Caches!ListStale, CacheTypes
  <2>2. CacheTypes'
    BY <1>5, <2>1, ScheduleShape DEF Caches!ListStale, CacheTypes
  <2>3. Informed'
    BY <1>5, <2>1, <2>2, ScheduleShape DEF Caches!ListStale, CacheTypes, Informed, Recent
  <2> QED BY <2>2, <2>3
<1>6. ASSUME NEW b \in Readers, Caches!ListMissing(b) PROVE CacheInv'
  <2>1. CacheTypes'
    BY <1>6 DEF Caches!ListMissing, CacheTypes, Caches!Builders, Caches!CacheAssumption
  <2>2. Informed'
    BY <1>6 DEF Caches!ListMissing, CacheTypes, Caches!CacheAssumption, Informed, Recent,
        Caches!Builders
  <2> QED BY <2>1, <2>2
<1>7. ASSUME NEW b \in Caches!Builders, Caches!ReadCached(b) PROVE CacheInv'
  <2>1. CacheTypes'
    BY <1>7 DEF Caches!ReadCached, CacheTypes, Caches!Builders
  <2>2. Informed'
    BY <1>7 DEF Caches!ReadCached, CacheTypes, Informed, Recent
  <2> QED BY <2>1, <2>2
<1>8. ASSUME NEW b \in Caches!Builders, Caches!Select(b) PROVE CacheInv'
  <2>1. CacheTypes'
    BY <1>8 DEF Caches!Select, CacheTypes, Caches!Builders
  <2>2. Informed'
    BY <1>8 DEF Caches!Select, CacheTypes, Informed, Recent, Caches!CacheAssumption
  <2> QED BY <2>1, <2>2
<1>9. ASSUME NEW b \in Caches!Builders, Caches!Publish(b) PROVE CacheInv'
  <2>1. CacheTypes'
    BY <1>9 DEF Caches!Publish, CacheTypes, Caches!Builders
  <2>2. Informed'
    BY <1>9 DEF Caches!Publish, CacheTypes, Informed, Recent, Caches!CacheAssumption
  <2> QED BY <2>1, <2>2
<1>10. ASSUME NEW b \in Caches!Builders, Caches!Store(b) PROVE CacheInv'
  <2>1. CacheTypes'
    <3>1. fresh' \in BOOLEAN /\ refreshing' \in BOOLEAN
      BY <1>10 DEF Caches!Store, CacheTypes
    <3>2. live' \in Caches!Copies /\ live' # Empty
      BY <1>10 DEF Caches!Store, CacheTypes, Caches!CacheAssumption
    <3>3. builder' \in [Caches!Builders -> {"idle", "read", "publish", "store"}]
      BY <1>10 DEF Caches!Store, CacheTypes
    <3>4. refreshing' <=> builder'["refresher"] # "idle"
      <4>1. CASE b = "refresher"
        BY <1>10, <4>1 DEF Caches!Store, CacheTypes
      <4>2. CASE b # "refresher"
        BY <1>10, <4>2 DEF Caches!Store, CacheTypes
      <4> QED BY <4>1, <4>2
    <3> QED BY <1>10, <3>1, <3>2, <3>3, <3>4 DEF Caches!Store, CacheTypes
  <2>2. Informed'
    BY <1>10 DEF Caches!Store, CacheTypes, Informed, Recent
  <2> QED BY <2>1, <2>2
<1>11. CASE Caches!RemoteCommit \/ Caches!Age \/ Caches!Unthrottle
  <2>1. CacheTypes'
    <3>1. CASE Caches!RemoteCommit
      BY <3>1 DEF Caches!RemoteCommit, CacheTypes, Caches!Copies, Caches!CacheAssumption
    <3>2. CASE Caches!Age
      <4>1. /\ mapCache' \in Caches!Copies \cup {Empty} /\ live' \in Caches!Copies \cup {Empty}
            /\ throttled' \in BOOLEAN
        BY <3>2 DEF Caches!Age, CacheTypes
      <4>2. fresh' \in BOOLEAN /\ (fresh' => live' # Empty)
        <5>1. CASE UNCHANGED <<live, fresh>>
          BY <5>1 DEF CacheTypes
        <5>2. CASE fresh' = FALSE
          BY <5>2
        <5> QED BY <3>2, <5>1, <5>2 DEF Caches!Age
      <4> QED BY <3>2, <4>1, <4>2 DEF Caches!Age, CacheTypes
    <3>3. CASE Caches!Unthrottle
      BY <3>3 DEF Caches!Unthrottle, CacheTypes
    <3> QED BY <1>11, <3>1, <3>2, <3>3
  <2>2. Informed'
    BY <1>11 DEF Caches!RemoteCommit, Caches!Age, Caches!Unthrottle, CacheTypes, Informed,
        Recent, Caches!Copies, Caches!CacheAssumption
  <2> QED BY <2>1, <2>2
<1> QED BY <1>1, <1>2, <1>3, <1>4, <1>5, <1>6, <1>7, <1>8, <1>9, <1>10, <1>11
        DEF Caches!Next, Caches!Write, Caches!Build

LEMMA CountedStep ==
    ASSUME Caches!CacheAssumption, CacheInv, Counted, [Caches!Next]_Caches!vars
    PROVE  Counted'
<1> USE DEF Counted, CacheInv
<1>1. CASE UNCHANGED <<writer, generation>> /\ table' \in {table, table + 1}
  <2>1. Pending' = Pending
    BY <1>1 DEF Pending
  <2> QED BY <1>1, <2>1, FS_CardinalityType DEF CacheTypes, Caches!Copies
<1>2. ASSUME NEW w \in Writers, Caches!Commit(w) PROVE Counted'
  <2>1. Pending' = Pending \cup {w} /\ w \notin Pending
    BY <1>2 DEF Caches!Commit, Pending, CacheTypes
  <2>2. IsFiniteSet(Pending') /\ Cardinality(Pending') = Cardinality(Pending) + 1
    BY <2>1, FS_AddElement
  <2> QED BY <1>2, <2>2, FS_CardinalityType DEF Caches!Commit, CacheTypes, Caches!Copies
<1>3. ASSUME NEW w \in Writers, Caches!InvalidateMap(w) PROVE Counted'
  <2>1. Pending' = Pending
    BY <1>3 DEF Caches!InvalidateMap, Pending, CacheTypes
  <2> QED BY <1>3, <2>1 DEF Caches!InvalidateMap
<1>4. ASSUME NEW w \in Writers, Caches!InvalidateLive(w) PROVE Counted'
  <2>1. Pending' = Pending \ {w} /\ w \in Pending
    BY <1>4 DEF Caches!InvalidateLive, Pending, CacheTypes
  <2>2. IsFiniteSet(Pending') /\ Cardinality(Pending') = Cardinality(Pending) - 1
    BY <2>1, FS_RemoveElement
  <2> QED BY <1>4, <2>2, FS_CardinalityType DEF Caches!InvalidateLive, CacheTypes, Caches!Copies
<1>5. ASSUME NEW b \in Caches!Builders, Caches!Build(b) \/ (b \in Readers
             /\ (Caches!ListStale(b) \/ Caches!ListMissing(b)))
      PROVE  Counted'
  BY <1>1, <1>5 DEF Caches!Build, Caches!ReadCached, Caches!Select, Caches!Publish,
      Caches!Store, Caches!ListStale, Caches!ListMissing
<1>6. CASE Caches!RemoteCommit \/ Caches!Age \/ Caches!Unthrottle \/ UNCHANGED Caches!vars
  BY <1>1, <1>6 DEF Caches!RemoteCommit, Caches!Age, Caches!Unthrottle, Caches!vars
<1> QED BY <1>2, <1>3, <1>4, <1>5, <1>6 DEF Caches!Next, Caches!Write, Caches!Builders

LEMMA CountedInit == Caches!CacheAssumption /\ Caches!Init => Counted
<1> SUFFICES ASSUME Caches!CacheAssumption, Caches!Init PROVE Counted
  OBVIOUS
<1>1. Pending = {}
  BY DEF Caches!Init, Pending
<1> QED BY <1>1, FS_EmptySet DEF Caches!Init, Counted

(* The types: a generation is a commit of this process.                      *)
THEOREM CachesTyped ==
    ASSUME Caches!CacheAssumption
    PROVE  Caches!Init /\ [][Caches!Next]_Caches!vars => []Caches!TypeOK
<1>1. CacheInv /\ Counted => Caches!TypeOK
  <2> SUFFICES ASSUME CacheInv, Counted PROVE Caches!TypeOK
    OBVIOUS
  <2>1. generation <= MaxCommits
    BY FS_CardinalityType DEF CacheInv, CacheTypes, Counted, Caches!Copies, Caches!CacheAssumption
  <2>2. \A b \in Caches!Builders : gen[b] \in 0 .. MaxCommits
    BY <2>1 DEF CacheInv, CacheTypes, Informed, Caches!CacheAssumption
  <2>3. gen \in [Caches!Builders -> 0 .. MaxCommits] /\ generation \in 0 .. MaxCommits
    BY <2>1, <2>2 DEF CacheInv, CacheTypes, Caches!CacheAssumption
  <2> QED BY <2>3 DEF CacheInv, CacheTypes, Caches!TypeOK
<1> QED BY <1>1, CacheInit, CountedInit, CacheStep, CountedStep, PTL

(* A list that counts as fresh holds every write of this process that has    *)
(* returned (_store_live_credentials_snapshot).                              *)
THEOREM FreshIsRecent ==
    ASSUME Caches!CacheAssumption
    PROVE  Caches!Init /\ [][Caches!Next]_Caches!vars => []Caches!FreshHoldsOwnWrites
<1>1. CacheInv => Caches!FreshHoldsOwnWrites
  BY DEF CacheInv, Informed, Caches!FreshHoldsOwnWrites
<1> QED BY <1>1, CacheInit, CacheStep, PTL

-----------------------------------------------------------------------------
(* The batch                                                                 *)
LEMMA BatchCount ==
    ASSUME NEW S
    PROVE  (Batches!IsFiniteSet(S) <=> IsFiniteSet(S)) /\ Batches!Cardinality(S) = Cardinality(S)
BY DEF Batches!IsFiniteSet, IsFiniteSet, Batches!Cardinality, Cardinality

(* A batch is never lost at home or in Redis.                                *)
BatchTypes ==
    /\ batch \in [Batches!Copies -> Batches!Batch \cup {None}]
    /\ batch[Home] # None /\ batch[Redis] # None
    /\ sess \in [Batches!Copies -> [Batches!Jobs -> Batches!Session \cup {None}]]
    /\ newer \in [Batches!Processes -> BOOLEAN]
    /\ snewer \in [Batches!Processes -> SUBSET Batches!Jobs]
    /\ runner \in {"spawn", "top", "submit", "wait", "drain", "final", "release", "over", "dead"}
    /\ raised \in BOOLEAN /\ beat \in BOOLEAN /\ runnerLock \in BOOLEAN
    /\ jobPc \in [Batches!Jobs -> Batches!Place]
    /\ again \in SUBSET Batches!Jobs /\ ok \in SUBSET Batches!Jobs /\ pool \in SUBSET Batches!Jobs
    /\ stop \in [Batches!Processes -> {"idle", "sessions", "done", "undone"}]
    /\ toStop \in [Batches!Processes -> SUBSET Batches!Jobs]

(* What a copy of the batch says is backed by Redis and by the pool.         *)
Fits(b) ==
    /\ b.st = "done" => raised \/ pool = Batches!Jobs
    /\ b.st = "partial" => pool # {}

BatchesFit == \A c \in Batches!Copies : batch[c] # None => Fits(batch[c])

Open == {"launch", "check", "write", "work", "more", "ended"}

(* The session of a job under way is at home and in Redis.                   *)
Kept(i) == sess[Home][i] # None /\ sess[Redis][i] # None

(* What a copy of a session says is backed likewise, and a job that is past  *)
(* its import has its account in the pool.                                   *)
SessionsFit ==
    /\ \A c \in Batches!Copies, i \in Batches!Jobs : sess[c][i] # None =>
          (sess[c][i].st = "imported" => i \in pool)
    /\ \A i \in Batches!Jobs : jobPc[i][1] \in Open => Kept(i)
    /\ \A i \in Batches!Jobs : jobPc[i][2] \in {6, 7} => i \in pool
    /\ ok \subseteq pool

(* A stop that has returned is marked at home, and what could still be       *)
(* merged over the copy at home carries the mark too.                        *)
Stopped ==
    /\ stop[Home] = "done" => batch[Home].cancel
    /\ newer[Home] => batch[Redis].cancel
    /\ \A p \in Batches!Processes : stop[p] = "sessions" => batch[p] # None

(* The bound on the jobs in flight, and what the runner has seen of it.      *)
Flight ==
    /\ Cardinality(Batches!InFlight) <= BatchWorkers
    /\ runner = "submit" => Batches!Unsubmitted # {}
       /\ Cardinality(Batches!InFlight) < BatchWorkers
    /\ runner = "drain" => raised
    /\ runner = "final" => raised
       \/ (Batches!InFlight = {} /\ (Batches!Unsubmitted = {} \/ batch[Home].cancel))

BatchInv == BatchTypes /\ BatchesFit /\ SessionsFit /\ Stopped /\ Flight

-----------------------------------------------------------------------------
(* Shapes.                                                                   *)

LEMMA CopyFacts ==
    ASSUME Batches!BatchAssumption
    PROVE  /\ Home \in Batches!Processes /\ Away \in Batches!Processes
           /\ Home \in Batches!Copies /\ Away \in Batches!Copies /\ Redis \in Batches!Copies
           /\ Home # Away /\ Home # Redis /\ Away # Redis
           /\ Batches!Other(Home) = Away /\ Batches!Other(Away) = Home
           /\ \A p \in Batches!Processes : p \in Batches!Copies /\ (p = Home \/ p = Away)
           /\ None \notin Batches!Batch /\ None \notin Batches!Session
BY DEF Batches!BatchAssumption, Batches!Processes, Batches!Copies, Batches!Other

LEMMA StageFacts ==
    /\ DOMAIN Batches!Stages = 1 .. 8 /\ Len(Batches!Stages) = 8
    /\ Batches!Stages[1] = "signup" /\ Batches!Stages[2] = "create" /\ Batches!Stages[3] = "fetch"
    /\ Batches!Stages[4] = "session" /\ Batches!Stages[5] = "import"
    /\ Batches!Stages[6] = "probe" /\ Batches!Stages[7] = "report"
    /\ Batches!Stages[8] = "error"
BY DEF Batches!Stages

LEMMA Entered ==
    ASSUME NEW i
    PROVE  /\ Batches!Enter(i, "signup") => Batches!Goto(i, "check", 1)
           /\ Batches!Enter(i, "create") => Batches!Goto(i, "check", 2)
           /\ Batches!Enter(i, "fetch") => Batches!Goto(i, "check", 3)
           /\ Batches!Enter(i, "session") => Batches!Goto(i, "check", 4)
           /\ Batches!Enter(i, "import") => Batches!Goto(i, "check", 5)
           /\ Batches!Enter(i, "probe") => Batches!Goto(i, "check", 6)
           /\ Batches!Enter(i, "report") => Batches!Goto(i, "check", 7)
           /\ Batches!Enter(i, "error") => Batches!Goto(i, "check", 8)
<1> DEFINE at(stage) == CHOOSE k \in DOMAIN Batches!Stages : Batches!Stages[k] = stage
<1>1. ASSUME NEW n \in 1 .. 8
      PROVE  at(Batches!Stages[n]) = n
  <2>1. \A k \in DOMAIN Batches!Stages : Batches!Stages[k] = Batches!Stages[n] => k = n
    BY StageFacts
  <2>2. n \in DOMAIN Batches!Stages
    BY StageFacts
  <2> QED BY <2>1, <2>2
<1>2. \A stage : Batches!Enter(i, stage) => Batches!Goto(i, "check", at(stage))
  BY DEF Batches!Enter
<1> HIDE DEF at
<1>3. \A n \in 1 .. 8 : Batches!Enter(i, Batches!Stages[n]) => Batches!Goto(i, "check", n)
  BY <1>1, <1>2
<1>4. 1 \in 1 .. 8 /\ 2 \in 1 .. 8 /\ 3 \in 1 .. 8 /\ 4 \in 1 .. 8 /\ 5 \in 1 .. 8
      /\ 6 \in 1 .. 8 /\ 7 \in 1 .. 8 /\ 8 \in 1 .. 8
  OBVIOUS
<1> QED BY <1>3, <1>4, StageFacts

LEMMA PlaceFacts ==
    ASSUME NEW x \in Batches!Place
    PROVE  /\ x = <<x[1], x[2]>>
           /\ x[1] \in {"check", "write", "work", "more"} => x[2] \in 1 .. 8
           /\ x[1] \notin {"check", "write", "work", "more"} => x[2] = 0
BY StageFacts DEF Batches!Place, Batches!AtStage, Batches!Calls

LEMMA PlaceIn ==
    /\ \A a \in {"check", "write", "work", "more"}, k \in 1 .. 8 : <<a, k>> \in Batches!Place
    /\ \A a \in {"new", "begin", "prepare", "launch", "ended", "over", "noted"} :
          <<a, 0>> \in Batches!Place
BY StageFacts DEF Batches!Place, Batches!AtStage, Batches!Calls

LEMMA StoppingShape ==
    ASSUME NEW b \in Batches!Batch
    PROVE  /\ Batches!Stopping(b) \in Batches!Batch /\ Batches!Stopping(b).ids = b.ids
              /\ Batches!Stopping(b).cancel
           /\ Batches!Stopping(b).st \in {b.st, "stopping"}
BY DEF Batches!Batch, Batches!Stopping

LEMMA RunningShape ==
    ASSUME NEW b \in Batches!Batch
    PROVE  /\ Batches!Running(b) \in Batches!Batch /\ Batches!Running(b).ids = b.ids
           /\ Batches!Running(b).cancel = b.cancel /\ Batches!Running(b).st \in {b.st, "running"}
BY DEF Batches!Batch, Batches!Running

-----------------------------------------------------------------------------
(* What a step may do to the copies of the batch.                            *)
Respawn == runner = "spawn" /\ runner' = "top"

BatchMoves ==
    /\ batch' \in [Batches!Copies -> Batches!Batch \cup {None}]
    /\ batch'[Home] # None /\ batch'[Redis] # None
    /\ \A c \in Batches!Copies : batch[c] # None => batch'[c] # None
    /\ newer' \in [Batches!Processes -> BOOLEAN]
    /\ \A c \in Batches!Copies : batch'[c] # None =>
          /\ batch'[c].st = "done" => raised \/ pool = Batches!Jobs
          /\ batch'[c].st = "partial" => pool # {}
    /\ Respawn \/ (batch[Home].cancel => batch'[Home].cancel)
    /\ newer'[Home] => batch'[Redis].cancel

LEMMA BatchStays ==
    ASSUME BatchInv, UNCHANGED <<batch, newer>>
    PROVE  BatchMoves
BY DEF BatchInv, BatchTypes, BatchesFit, Fits, Stopped, BatchMoves

LEMMA BatchPut ==
    ASSUME Batches!BatchAssumption, BatchInv, NEW p \in Batches!Processes, NEW b \in Batches!Batch, Batches!PutBatch(p, b),
           b.st = "done" => raised \/ pool = Batches!Jobs,
             b.st = "partial" => pool # {},
           p = Home => Respawn \/ (batch[Home].cancel => b.cancel),
           p = Away => b.cancel
    PROVE  BatchMoves
<1> USE CopyFacts
<1>1. /\ batch' \in [Batches!Copies -> Batches!Batch \cup {None}]
      /\ \A c \in Batches!Copies : batch'[c] = IF c = p \/ c = Redis THEN b ELSE batch[c]
  BY DEF Batches!PutBatch, BatchInv, BatchTypes
<1>2. /\ newer' \in [Batches!Processes -> BOOLEAN]
      /\ p = Home => ~newer'[Home]
  BY DEF Batches!PutBatch, BatchInv, BatchTypes
<1>3. batch'[Home] # None /\ batch'[Redis] # None
  BY <1>1 DEF BatchInv, BatchTypes
<1>4. \A c \in Batches!Copies : batch'[c] # None =>
          /\ batch'[c].st = "done" => raised \/ pool = Batches!Jobs
          /\ batch'[c].st = "partial" => pool # {}
  BY <1>1 DEF BatchInv, BatchesFit, Fits
<1>5. Respawn \/ (batch[Home].cancel => batch'[Home].cancel)
  BY <1>1
<1>6. newer'[Home] => batch'[Redis].cancel
  BY <1>1, <1>2
<1>7. \A c \in Batches!Copies : batch[c] # None => batch'[c] # None
  BY <1>1
<1> QED BY <1>1, <1>2, <1>3, <1>4, <1>5, <1>6, <1>7 DEF BatchMoves

LEMMA StopAdopted ==
    ASSUME Batches!BatchAssumption, BatchInv, Batches!AdoptStop
    PROVE  BatchMoves /\ (Batches!CancelSeen => batch'[Home].cancel)
<1> USE CopyFacts
<1>1. CASE batch[Redis].cancel /\ ~batch[Home].cancel
  <2> DEFINE b == Batches!Adopted
  <2>1. batch[Home] \in Batches!Batch /\ batch[Redis] \in Batches!Batch
    BY DEF BatchInv, BatchTypes
  <2>2. /\ b \in Batches!Batch /\ b.ids = batch[Home].ids /\ b.cancel
        /\ b.st \in {batch[Home].st, batch[Redis].st}
    BY <2>1 DEF Batches!Batch, Batches!Adopted
  <2>3. batch' = [batch EXCEPT ![Home] = b] /\ newer' = [newer EXCEPT ![Home] = FALSE]
    BY <1>1 DEF Batches!AdoptStop
  <2> HIDE DEF b
  <2>4. /\ batch' \in [Batches!Copies -> Batches!Batch \cup {None}]
        /\ \A c \in Batches!Copies : batch'[c] = IF c = Home THEN b ELSE batch[c]
        /\ newer' \in [Batches!Processes -> BOOLEAN] /\ ~newer'[Home]
    BY <2>2, <2>3 DEF BatchInv, BatchTypes
  <2>5. batch'[Home] # None /\ batch'[Redis] # None
    BY <2>2, <2>4 DEF BatchInv, BatchTypes
  <2>6. Fits(batch[Home]) /\ Fits(batch[Redis])
    BY DEF BatchInv, BatchTypes, BatchesFit
  <2>7. \A c \in Batches!Copies : batch'[c] # None =>
          /\ batch'[c].st = "done" => raised \/ pool = Batches!Jobs
          /\ batch'[c].st = "partial" => pool # {}
    BY <2>2, <2>4, <2>6 DEF BatchInv, BatchesFit, Fits
  <2>8. \A c \in Batches!Copies : batch[c] # None => batch'[c] # None
    BY <2>4, <2>5
  <2> QED BY <2>2, <2>4, <2>5, <2>7, <2>8 DEF BatchMoves
<1>2. CASE ~(batch[Redis].cancel /\ ~batch[Home].cancel)
  <2>1. UNCHANGED <<batch, newer>>
    BY <1>2 DEF Batches!AdoptStop
  <2> QED BY <1>2, <2>1, BatchStays DEF Batches!CancelSeen
<1> QED BY <1>1, <1>2

(* The copies that a process works on.                                       *)
LEMMA LoadFacts ==
    ASSUME Batches!BatchAssumption, BatchInv, NEW p \in Batches!Processes
    PROVE  /\ Batches!LoadBatch(p) \in Batches!Batch
           /\ Batches!LoadBatch(p) = batch[p] \/ (batch[p] = None
              /\ Batches!LoadBatch(p) = batch[Redis])
           /\ Batches!LoadBatch(p).st = "done" => raised \/ pool = Batches!Jobs
           /\ Batches!LoadBatch(p).st = "partial" => pool # {}
<1> USE CopyFacts
<1>1. /\ Batches!LoadBatch(p) \in Batches!Batch
      /\ Batches!LoadBatch(p) = batch[p] \/ (batch[p] = None
         /\ Batches!LoadBatch(p) = batch[Redis])
  BY DEF Batches!LoadBatch, BatchInv, BatchTypes
<1>2. \E c \in Batches!Copies : Batches!LoadBatch(p) = batch[c]
  BY DEF Batches!LoadBatch
<1>3. Fits(Batches!LoadBatch(p))
  BY <1>1, <1>2 DEF BatchInv, BatchesFit
<1> QED BY <1>1, <1>3 DEF Fits

LEMMA SessionLoaded ==
    ASSUME Batches!BatchAssumption, BatchInv, NEW p \in Batches!Processes, NEW i \in Batches!Jobs
    PROVE  /\ Batches!LoadSession(p, i) \in Batches!Session \cup {None}
           /\ Batches!LoadSession(p, i) # None /\ Batches!LoadSession(p, i).st = "imported"
              => i \in pool
BY CopyFacts DEF Batches!LoadSession, BatchInv, BatchTypes, SessionsFit

-----------------------------------------------------------------------------
(* What a step may do to the copies of the sessions.                         *)
SessionMoves ==
    /\ sess' \in [Batches!Copies -> [Batches!Jobs -> Batches!Session \cup {None}]]
    /\ snewer' \in [Batches!Processes -> SUBSET Batches!Jobs]
    /\ \A i \in Batches!Jobs : jobPc[i][1] \in Open /\ Kept(i) => Kept(i)'
    /\ \A c \in Batches!Copies, i \in Batches!Jobs : sess'[c][i] # None =>
          (sess'[c][i].st = "imported" => i \in pool)

LEMMA SessionsStay ==
    ASSUME BatchInv, UNCHANGED <<sess, snewer>>
    PROVE  SessionMoves
BY DEF BatchInv, BatchTypes, SessionsFit, SessionMoves, Kept

LEMMA SessionPut ==
    ASSUME Batches!BatchAssumption, BatchInv, NEW p \in Batches!Processes,
           NEW i \in Batches!Jobs, NEW s \in Batches!Session,
           Batches!PutSession(p, i, s), s.st = "imported" => i \in pool
    PROVE  SessionMoves /\ (p = Home => Kept(i)')
<1> USE CopyFacts
<1>1. /\ sess' \in [Batches!Copies -> [Batches!Jobs -> Batches!Session \cup {None}]]
      /\ \A c \in Batches!Copies, j \in Batches!Jobs :
            sess'[c][j] = IF j = i /\ (c = p \/ c = Redis) THEN s ELSE sess[c][j]
  BY DEF Batches!PutSession, BatchInv, BatchTypes
<1>2. \A j \in Batches!Jobs : Kept(j) => Kept(j)'
  BY <1>1 DEF Kept
<1>3. p = Home => Kept(i)'
  BY <1>1 DEF Kept
<1>4. snewer' \in [Batches!Processes -> SUBSET Batches!Jobs]
  BY DEF Batches!PutSession, BatchInv, BatchTypes
<1>5. \A c \in Batches!Copies, j \in Batches!Jobs : sess'[c][j] # None =>
          (sess'[c][j].st = "imported" => j \in pool)
  BY <1>1 DEF BatchInv, SessionsFit
<1> QED BY <1>1, <1>2, <1>3, <1>4, <1>5 DEF SessionMoves

(* A step that writes the sessions of one process only.                      *)
LEMMA SessionsMerged ==
    ASSUME Batches!BatchAssumption, BatchInv, NEW p \in Batches!Processes,
           sess' \in [Batches!Copies -> [Batches!Jobs -> Batches!Session \cup {None}]],
           \A c \in Batches!Copies : c # p => sess'[c] = sess[c],
           \A i \in Batches!Jobs : Kept(i) /\ sess[p][i] # None => sess'[p][i] # None,
           \A i \in Batches!Jobs : sess'[p][i] # None =>
              (sess'[p][i].st = "imported" => i \in pool),
           snewer' \in [Batches!Processes -> SUBSET Batches!Jobs]
    PROVE  SessionMoves
<1> USE CopyFacts
<1>1. \A i \in Batches!Jobs : Kept(i) => Kept(i)'
  BY DEF Kept
<1>2. \A c \in Batches!Copies, j \in Batches!Jobs : sess'[c][j] # None =>
          (sess'[c][j].st = "imported" => j \in pool)
  BY DEF BatchInv, SessionsFit
<1> QED BY <1>1, <1>2 DEF SessionMoves

(* Dropping the session of a job that is over.                               *)
LEMMA SessionsDropped ==
    ASSUME Batches!BatchAssumption, BatchInv, NEW i \in Batches!Jobs, NEW copies,
           Batches!Drop(i, copies)
    PROVE  SessionMoves
<1>1. /\ sess' \in [Batches!Copies -> [Batches!Jobs -> Batches!Session \cup {None}]]
      /\ \A c \in Batches!Copies, j \in Batches!Jobs : sess'[c][j] \in {None, sess[c][j]}
         /\ (j # i => sess'[c][j] = sess[c][j])
  BY DEF Batches!Drop, BatchInv, BatchTypes
<1>2. snewer' \in [Batches!Processes -> SUBSET Batches!Jobs]
  BY DEF Batches!Drop, BatchInv, BatchTypes
<1>3. jobPc[i][1] \notin Open
  BY DEF Batches!Drop, Batches!Aged, Open
<1>4. \A j \in Batches!Jobs : jobPc[j][1] \in Open /\ Kept(j) => Kept(j)'
  BY <1>1, <1>3, CopyFacts DEF Kept
<1>5. \A c \in Batches!Copies, j \in Batches!Jobs : sess'[c][j] # None =>
          (sess'[c][j].st = "imported" => j \in pool)
  BY <1>1 DEF BatchInv, SessionsFit
<1> QED BY <1>1, <1>2, <1>4, <1>5 DEF SessionMoves

-----------------------------------------------------------------------------
(* What a step may do to the jobs.                                           *)
JobMoves ==
    /\ jobPc' \in [Batches!Jobs -> Batches!Place]
    /\ again' \in SUBSET Batches!Jobs /\ ok' \in SUBSET Batches!Jobs
       /\ pool' \in SUBSET Batches!Jobs
    /\ pool \subseteq pool' /\ ok' \subseteq pool'
    /\ \A i \in Batches!Jobs : jobPc'[i][1] \in Open => Kept(i)'
    /\ \A i \in Batches!Jobs : jobPc'[i][2] \in {6, 7} => i \in pool'

JobsRest ==
    \A j \in Batches!Jobs : jobPc'[j][1] \in Batches!Calls =>
        jobPc[j][1] \in Batches!Calls /\ jobPc'[j][2] = jobPc[j][2]

SameFlight == Batches!InFlight' = Batches!InFlight /\ Batches!Unsubmitted' = Batches!Unsubmitted

LEMMA JobsStay ==
    ASSUME BatchInv, SessionMoves, UNCHANGED Batches!jobVars
    PROVE  JobMoves /\ JobsRest /\ SameFlight
BY DEF BatchInv, BatchTypes, SessionsFit, SessionMoves, JobMoves, JobsRest, SameFlight,
    Batches!InFlight,
       Batches!Unsubmitted, Batches!jobVars

(* A place that is no call of another stage.                                 *)
StaysIn(i, place, k) ==
    place \in Batches!Calls => jobPc[i][1] \in Batches!Calls /\ k = jobPc[i][2]

LEMMA GotoMoves ==
    ASSUME BatchInv, SessionMoves, NEW i \in Batches!Jobs, NEW place, NEW k, <<place,
           k>> \in Batches!Place,
           Batches!Goto(i, place, k),
           place \in Open => jobPc[i][1] \in Open \/ Kept(i)',
           k \in {6, 7} => i \in pool',
           again' \in SUBSET Batches!Jobs, ok' \subseteq pool', pool' \in SUBSET Batches!Jobs,
           pool \subseteq pool'
    PROVE  /\ JobMoves
           /\ StaysIn(i, place, k) => JobsRest
           /\ jobPc[i][1] \notin {"new", "noted"} /\ place \notin {"new", "noted"} => SameFlight
<1>1. /\ jobPc' \in [Batches!Jobs -> Batches!Place] /\ jobPc'[i][1] = place /\ jobPc'[i][2] = k
      /\ \A j \in Batches!Jobs : j # i => jobPc'[j] = jobPc[j]
  BY DEF Batches!Goto, BatchInv, BatchTypes
<1>2. \A j \in Batches!Jobs : jobPc'[j][1] \in Open => Kept(j)'
  BY <1>1 DEF BatchInv, SessionsFit, SessionMoves
<1>3. \A j \in Batches!Jobs : jobPc'[j][2] \in {6, 7} => j \in pool'
  BY <1>1 DEF BatchInv, SessionsFit
<1>4. JobMoves
  BY <1>1, <1>2, <1>3 DEF JobMoves
<1>5. StaysIn(i, place, k) => JobsRest
  BY <1>1 DEF JobsRest, StaysIn
<1>6. ASSUME jobPc[i][1] \notin {"new", "noted"}, place \notin {"new", "noted"}
      PROVE  SameFlight
  BY <1>1, <1>6 DEF SameFlight, Batches!InFlight, Batches!Unsubmitted
<1> QED BY <1>4, <1>5, <1>6

(* A job that only moves on.                                                 *)
LEMMA GotoOnly ==
    ASSUME BatchInv, SessionMoves, NEW i \in Batches!Jobs, NEW place, NEW k, <<place,
           k>> \in Batches!Place,
           Batches!Goto(i, place, k), jobPc[i][1] \notin {"new", "noted"}, place \notin {"new",
             "noted"},
           place \in Open => jobPc[i][1] \in Open \/ Kept(i)',
           k \in {6, 7} => i \in pool,
           UNCHANGED <<again, ok, pool>>
    PROVE  /\ JobMoves /\ SameFlight
           /\ StaysIn(i, place, k) => JobsRest
<1>1. again' \in SUBSET Batches!Jobs /\ ok' \subseteq pool' /\ pool' \in SUBSET Batches!Jobs
      /\ pool' = pool
  BY DEF BatchInv, BatchTypes, SessionsFit
<1> QED BY <1>1, GotoMoves

Rest == UNCHANGED <<runner, raised, beat, runnerLock, Batches!stopVars>>

JobFacts(i) ==
    /\ SessionMoves /\ JobMoves /\ BatchMoves /\ SameFlight /\ Rest
    /\ Batches!Show(i) \/ JobsRest

LEMMA JobStep ==
    ASSUME Batches!BatchAssumption, BatchInv, NEW i \in Batches!Jobs, Batches!Job(i)
    PROVE  JobFacts(i)
<1> USE CopyFacts DEF Rest
<1>0. /\ jobPc[i] \in Batches!Place /\ jobPc[i] = <<jobPc[i][1], jobPc[i][2]>>
      /\ jobPc[i][1] \in {"check", "write", "work", "more"} => jobPc[i][2] \in 1 .. 8
      /\ batch[Home] \in Batches!Batch /\ Fits(batch[Home])
  BY PlaceFacts DEF BatchInv, BatchTypes, BatchesFit
<1>1. CASE Batches!Begin(i)
  <2>1. SessionMoves
    BY <1>1, SessionsStay DEF Batches!Begin
  <2>2. BatchMoves
    BY <1>1, <2>1, StopAdopted DEF Batches!Begin
  <2>3. PICK place \in {"over", "prepare"} : Batches!Goto(i, place, 0)
    BY <1>1 DEF Batches!Begin
  <2>4. jobPc[i][1] = "begin" /\ <<place, 0>> \in Batches!Place /\ place \notin Open
    <3>1. jobPc[i][1] = "begin"
      BY <1>1 DEF Batches!Begin
    <3> QED BY <3>1, PlaceIn DEF Open
  <2>5. JobMoves /\ SameFlight /\ JobsRest
    BY <1>1, <2>1, <2>3, <2>4, GotoOnly DEF Batches!Begin, StaysIn, Batches!Calls
  <2> QED BY <1>1, <2>1, <2>2, <2>5 DEF Batches!Begin, JobFacts
<1>2. CASE Batches!PrepareFails(i)
  <2>1. SessionMoves
    BY <1>2, SessionsStay DEF Batches!PrepareFails
  <2>2. BatchMoves
    BY <1>2, <2>1, BatchStays DEF Batches!PrepareFails
  <2>3. Batches!Goto(i, "over", 0) /\ jobPc[i][1] = "prepare" /\ <<"over", 0>> \in Batches!Place
    BY <1>2, PlaceIn DEF Batches!PrepareFails
  <2>4. JobMoves /\ SameFlight /\ JobsRest
    BY <1>2, <2>1, <2>3, GotoOnly DEF Batches!PrepareFails, Open, StaysIn, Batches!Calls
  <2> QED BY <1>2, <2>1, <2>2, <2>4 DEF Batches!PrepareFails, JobFacts
<1>3. CASE Batches!Prepare(i)
  <2> DEFINE b == [batch[Home] EXCEPT !.ids = @ \cup {i}]
             s == [st |-> "queued", cancel |-> FALSE]
  <2>1. /\ b \in Batches!Batch /\ b.st = batch[Home].st /\ b.cancel = batch[Home].cancel
        /\ b.ids = batch[Home].ids \cup {i}
    BY <1>0 DEF Batches!Batch
  <2>2. s \in Batches!Session /\ s.st = "queued"
    BY DEF Batches!Session
  <2>3. Batches!PutBatch(Home, b) /\ Batches!PutSession(Home, i, s)
    BY <1>3 DEF Batches!Prepare
  <2> HIDE DEF b, s
  <2>4. SessionMoves /\ Kept(i)'
    BY <2>2, <2>3, SessionPut DEF SessionMoves
  <2>5. BatchMoves
    BY <1>0, <2>1, <2>3, <2>4, BatchPut DEF Fits
  <2>6. Batches!Goto(i, "launch", 0) /\ jobPc[i][1] = "prepare" /\ <<"launch",
        0>> \in Batches!Place
    BY <1>3, PlaceIn DEF Batches!Prepare
  <2>7. JobMoves /\ SameFlight /\ JobsRest
    BY <1>3, <2>4, <2>6, GotoOnly DEF Batches!Prepare, StaysIn, Batches!Calls
  <2> QED BY <1>3, <2>4, <2>5, <2>7 DEF Batches!Prepare, JobFacts
<1>4. CASE Batches!Launch(i)
  <2>1. PICK s \in Batches!Session, place \in {"over", "check"}, k \in {0, 1} :
            /\ s.st # "imported" /\ Batches!PutSession(Home, i, s) /\ Batches!Goto(i, place, k)
            /\ <<place, k>> \in Batches!Place
    <3>1. [st |-> "cancelled", cancel |-> TRUE] \in Batches!Session
          /\ [st |-> "started", cancel |-> FALSE] \in Batches!Session
      BY DEF Batches!Session, Batches!SessionEnded
    <3> QED BY <1>4, <3>1, PlaceIn DEF Batches!Launch
  <2>2. SessionMoves /\ Kept(i)'
    BY <2>1, SessionPut DEF SessionMoves
  <2>3. BatchMoves
    BY <1>4, <2>2, BatchStays DEF Batches!Launch
  <2>4. JobMoves /\ SameFlight /\ JobsRest
    BY <1>4, <2>1, <2>2, GotoOnly DEF Batches!Launch, StaysIn, Batches!Calls
  <2> QED BY <1>4, <2>2, <2>3, <2>4 DEF Batches!Launch, JobFacts
<1>5. CASE Batches!Check(i)
  <2> DEFINE r == sess[Redis][i]
             s == sess[Home][i]
             st == IF s.st \in Batches!SessionEnded THEN s.st
                   ELSE IF r.cancel /\ r.st \in {"stopping", "cancelled"} THEN r.st
                   ELSE IF batch[Redis].cancel THEN "stopping" ELSE s.st
             t == [st |-> st, cancel |-> TRUE]
  <2>1. s \in Batches!Session /\ (s.st = "imported" => i \in pool) /\ r \in Batches!Session
    BY <1>5 DEF Batches!Check, BatchInv, BatchTypes, SessionsFit, Open, Kept
  <2>2. t \in Batches!Session /\ (t.st = "imported" => i \in pool)
    BY <2>1 DEF Batches!Session, Batches!SessionEnded
  <2>3. sess' = sess \/ sess' = [sess EXCEPT ![Home][i] = t]
    BY <1>5 DEF Batches!Check
  <2>4. UNCHANGED snewer /\ Batches!AdoptStop /\ Batches!Goto(i, "write",
        jobPc[i][2]) /\ jobPc[i][1] = "check"
        /\ UNCHANGED <<again, ok, pool>> /\ Rest
    BY <1>5 DEF Batches!Check
  <2> HIDE DEF t
  <2>5. SessionMoves
    <3>1. CASE sess' = sess
      BY <3>1, <2>4, SessionsStay
    <3>2. CASE sess' = [sess EXCEPT ![Home][i] = t]
      <4>1. /\ sess' \in [Batches!Copies -> [Batches!Jobs -> Batches!Session \cup {None}]]
            /\ \A c \in Batches!Copies : c # Home => sess'[c] = sess[c]
            /\ sess'[Home][i] = t /\ \A j \in Batches!Jobs : j # i
               => sess'[Home][j] = sess[Home][j]
        BY <2>2, <3>2 DEF BatchInv, BatchTypes
      <4>2. \A j \in Batches!Jobs : Kept(j) /\ sess[Home][j] # None => sess'[Home][j] # None
        BY <2>2, <4>1
      <4>3. \A j \in Batches!Jobs : sess'[Home][j] # None =>
                (sess'[Home][j].st = "imported" => j \in pool)
        BY <2>1, <2>2, <4>1 DEF BatchInv, SessionsFit
      <4>4. snewer' \in [Batches!Processes -> SUBSET Batches!Jobs]
        BY <2>4 DEF BatchInv, BatchTypes
      <4> QED BY <4>1, <4>2, <4>3, <4>4, SessionsMerged
    <3> QED BY <2>3, <3>1, <3>2
  <2>6. BatchMoves
    BY <2>4, <2>5, StopAdopted
  <2>7. <<"write", jobPc[i][2]>> \in Batches!Place /\ (jobPc[i][2] \in {6, 7} => i \in pool)
    BY <1>0, <2>4, PlaceIn DEF BatchInv, SessionsFit
  <2>8. JobMoves /\ SameFlight /\ JobsRest
    BY <2>4, <2>5, <2>7, GotoOnly DEF Open, StaysIn, Batches!Calls
  <2> QED BY <2>4, <2>5, <2>6, <2>8 DEF JobFacts
<1>6. CASE Batches!Cancel(i) \/ Batches!Report(i)
  <2>1. PICK s \in Batches!Session :
            Batches!PutSession(Home, i, s) /\ (s.st = "imported"
              => Batches!Report(i) /\ Batches!Stages[jobPc[i][2]] = "report")
    <3>1. CASE Batches!Cancel(i)
      <4> DEFINE s == [st |-> "cancelled", cancel |-> TRUE]
      <4>1. s \in Batches!Session /\ s.st # "imported"
        BY DEF Batches!Session, Batches!SessionEnded
      <4> QED BY <3>1, <4>1 DEF Batches!Cancel
    <3>2. CASE Batches!Report(i)
      <4> DEFINE s == [st |-> IF Batches!Stages[jobPc[i][2]] = "report" THEN "imported"
                    ELSE "error",
                       cancel |-> Batches!Cancelled(i)]
      <4>1. Batches!Cancelled(i) \in BOOLEAN
        BY DEF Batches!Cancelled
      <4>2. s \in Batches!Session /\ (s.st = "imported" => Batches!Stages[jobPc[i][2]] = "report")
        BY <4>1 DEF Batches!Session, Batches!SessionEnded
      <4> HIDE DEF s
      <4>3. Batches!PutSession(Home, i, s)
        BY <3>2 DEF Batches!Report, s
      <4> QED BY <3>2, <4>2, <4>3
    <3> QED BY <1>6, <3>1, <3>2
  <2>2. jobPc[i][1] = "write" /\ Batches!Goto(i, "ended", 0) /\ <<"ended", 0>> \in Batches!Place
        /\ UNCHANGED <<batch, newer, again, ok, pool>> /\ Rest
    BY <1>6, PlaceIn DEF Batches!Cancel, Batches!Report
  <2>3. s.st = "imported" => i \in pool
    <3>1. ASSUME Batches!Stages[jobPc[i][2]] = "report"
          PROVE  jobPc[i][2] = 7
      BY <1>0, <2>2, <3>1, StageFacts
    <3> QED BY <2>1, <3>1 DEF BatchInv, SessionsFit
  <2>4. SessionMoves
    BY <2>1, <2>3, SessionPut DEF SessionMoves
  <2>5. BatchMoves
    BY <2>2, <2>4, BatchStays
  <2>6. JobMoves /\ SameFlight /\ JobsRest
    BY <2>2, <2>4, GotoOnly DEF Open, StaysIn, Batches!Calls
  <2> QED BY <2>2, <2>4, <2>5, <2>6 DEF JobFacts
<1>7. CASE Batches!Show(i)
  <2> DEFINE s == [st |-> "busy", cancel |-> FALSE]
  <2>1. s \in Batches!Session /\ s.st # "imported"
    BY DEF Batches!Session, Batches!SessionEnded
  <2>2. Batches!PutSession(Home, i, s)
    BY <1>7 DEF Batches!Show
  <2> HIDE DEF s
  <2>3. jobPc[i][1] = "write" /\ Batches!Goto(i, "work", jobPc[i][2])
        /\ UNCHANGED <<batch, newer, again, ok, pool>> /\ Rest
    BY <1>7 DEF Batches!Show
  <2>4. SessionMoves
    BY <2>1, <2>2, SessionPut DEF SessionMoves
  <2>5. BatchMoves
    BY <2>3, <2>4, BatchStays
  <2>6. <<"work", jobPc[i][2]>> \in Batches!Place /\ (jobPc[i][2] \in {6, 7} => i \in pool)
    BY <1>0, <2>3, PlaceIn DEF BatchInv, SessionsFit
  <2>7. JobMoves /\ SameFlight
    BY <2>3, <2>4, <2>6, GotoOnly DEF Open, StaysIn, Batches!Calls
  <2> QED BY <1>7, <2>3, <2>4, <2>5, <2>7 DEF JobFacts
<1>8. CASE Batches!SignUp(i) \/ Batches!Create(i) \/ Batches!FetchSession(i)
      \/ Batches!OpenSession(i) \/ Batches!Import(i) \/ Batches!Probe(i) \/ Batches!Fail(i)
  <2>1. jobPc[i][1] \in Batches!Calls /\ UNCHANGED <<batch, newer, sess, snewer, ok>> /\ Rest
        /\ again' \in SUBSET Batches!Jobs
    BY <1>8 DEF Batches!SignUp, Batches!Create, Batches!FetchSession, Batches!OpenSession,
        Batches!Import, Batches!Probe, Batches!Fail, Batches!At, Batches!Enter,
        Batches!CallAgain, Batches!Calls, BatchInv, BatchTypes
  <2>2. SessionMoves
    BY <2>1, SessionsStay
  <2>3. BatchMoves
    BY <2>1, BatchStays
  <2>0. jobPc[i][2] \in 1 .. 8 /\ jobPc[i][1] \notin {"new", "noted"} /\ jobPc[i][1] \in Open
        /\ (jobPc[i][2] \in {6, 7} => i \in pool)
    BY <1>0, <2>1 DEF Batches!Calls, Open, BatchInv, SessionsFit
  <2>4. PICK place \in {"check", "more"}, k \in 1 .. 8 :
          /\ Batches!Goto(i, place, k) /\ (k \in {6, 7} => i \in pool')
          /\ place = "more" => k = jobPc[i][2]
          /\ pool \subseteq pool' /\ pool' \in SUBSET Batches!Jobs
    <3>1. pool' = pool \/ pool' = pool \cup {i}
      BY <1>8 DEF Batches!SignUp, Batches!Create, Batches!FetchSession, Batches!OpenSession,
          Batches!Import, Batches!Probe, Batches!Fail
    <3>2. pool \subseteq pool' /\ pool' \in SUBSET Batches!Jobs
      BY <3>1 DEF BatchInv, BatchTypes
    <3>3. ASSUME NEW k \in {1, 2, 3, 4, 5, 8}, Batches!Goto(i, "check", k)
          PROVE  \E place \in {"check", "more"}, n \in 1 .. 8 :
                     /\ Batches!Goto(i, place, n) /\ (n \in {6, 7} => i \in pool')
                     /\ place = "more" => n = jobPc[i][2]
      BY <3>3
    <3>4. ASSUME Batches!CallAgain(i)
          PROVE  \E place \in {"check", "more"}, n \in 1 .. 8 :
                     /\ Batches!Goto(i, place, n) /\ (n \in {6, 7} => i \in pool')
                     /\ place = "more" => n = jobPc[i][2]
      <4>1. Batches!Goto(i, "more", jobPc[i][2])
        BY <3>4 DEF Batches!CallAgain
      <4>2. jobPc[i][2] \in {6, 7} => i \in pool'
        BY <2>0, <3>2
      <4> QED BY <2>0, <4>1, <4>2
    <3>5. CASE Batches!SignUp(i)
      <4>1. Batches!CallAgain(i) \/ Batches!Enter(i, "create") \/ Batches!Enter(i, "fetch")
        BY <3>5 DEF Batches!SignUp
      <4>2. Batches!CallAgain(i) \/ \E k \in {1, 2, 3, 4, 5, 8} : Batches!Goto(i, "check", k)
        BY <4>1, Entered
      <4> QED BY <3>2, <3>3, <3>4, <4>2
    <3>6. CASE Batches!Create(i)
      <4>1. Batches!Enter(i, "signup") \/ Batches!Enter(i, "fetch")
        BY <3>6 DEF Batches!Create
      <4>2. \E k \in {1, 2, 3, 4, 5, 8} : Batches!Goto(i, "check", k)
        BY <4>1, Entered
      <4> QED BY <3>2, <3>3, <4>2
    <3>7. CASE Batches!FetchSession(i)
      <4>1. Batches!CallAgain(i) \/ Batches!Enter(i, "import") \/ Batches!Enter(i, "session")
        BY <3>7 DEF Batches!FetchSession
      <4>2. Batches!CallAgain(i) \/ \E k \in {1, 2, 3, 4, 5, 8} : Batches!Goto(i, "check", k)
        BY <4>1, Entered
      <4> QED BY <3>2, <3>3, <3>4, <4>2
    <3>8. CASE Batches!OpenSession(i)
      <4>1. Batches!CallAgain(i) \/ Batches!Enter(i, "import")
        BY <3>8 DEF Batches!OpenSession
      <4>2. Batches!CallAgain(i) \/ \E k \in {1, 2, 3, 4, 5, 8} : Batches!Goto(i, "check", k)
        BY <4>1, Entered
      <4> QED BY <3>2, <3>3, <3>4, <4>2
    <3>9. CASE Batches!Import(i)
      <4>1. Batches!Enter(i, "probe") /\ i \in pool'
        BY <3>9 DEF Batches!Import
      <4>2. Batches!Goto(i, "check", 6)
        BY <4>1, Entered
      <4> QED BY <3>2, <4>1, <4>2
    <3>10. CASE Batches!Probe(i)
      <4>1. Batches!Enter(i, "report") /\ Batches!Stages[jobPc[i][2]] = "probe"
        BY <3>10 DEF Batches!Probe, Batches!At
      <4>2. Batches!Goto(i, "check", 7) /\ i \in pool'
        BY <2>0, <3>2, <4>1, Entered, StageFacts
      <4> QED BY <3>2, <4>2
    <3>11. CASE Batches!Fail(i)
      <4>1. Batches!Goto(i, "check", 8)
        BY <3>11, Entered DEF Batches!Fail
      <4> QED BY <3>2, <3>3, <4>1
    <3> QED BY <1>8, <3>5, <3>6, <3>7, <3>8, <3>9, <3>10, <3>11
  <2>5. <<place, k>> \in Batches!Place /\ ok' \subseteq pool' /\ StaysIn(i, place, k)
    BY <2>1, <2>4, PlaceIn DEF BatchInv, SessionsFit, StaysIn, Batches!Calls
  <2>6. JobMoves /\ SameFlight /\ JobsRest
    BY <2>0, <2>1, <2>2, <2>4, <2>5, GotoMoves
  <2> QED BY <2>1, <2>2, <2>3, <2>6 DEF JobFacts
<1>9. CASE Batches!Collect(i)
  <2>1. jobPc[i][1] = "ended" /\ Batches!Goto(i, "over", 0) /\ <<"over", 0>> \in Batches!Place
        /\ UNCHANGED <<batch, newer, sess, snewer, again, pool>> /\ Rest
    BY <1>9, PlaceIn DEF Batches!Collect
  <2>2. SessionMoves
    BY <2>1, SessionsStay
  <2>3. BatchMoves
    BY <2>1, <2>2, BatchStays
  <2>4. sess[Home][i] # None /\ (sess[Home][i].st = "imported" => i \in pool)
    BY <2>1 DEF BatchInv, SessionsFit, Open, Kept
  <2>5. ok' \subseteq pool' /\ again' \in SUBSET Batches!Jobs /\ pool' \in SUBSET Batches!Jobs
        /\ pool \subseteq pool'
    BY <1>9, <2>1, <2>4 DEF Batches!Collect, BatchInv, BatchTypes, SessionsFit
  <2>6. JobMoves /\ SameFlight /\ JobsRest
    BY <2>1, <2>2, <2>5, GotoMoves DEF Open, StaysIn, Batches!Calls
  <2> QED BY <2>1, <2>2, <2>3, <2>6 DEF JobFacts
<1> QED BY <1>1, <1>2, <1>3, <1>4, <1>5, <1>6, <1>7, <1>8, <1>9 DEF Batches!Job

-----------------------------------------------------------------------------
(* The rest of a step.                                                       *)
ControlMoves ==
    /\ runner' \in {"spawn", "top", "submit", "wait", "drain", "final", "release", "over", "dead"}
    /\ raised' \in BOOLEAN /\ (raised => raised')
    /\ beat' \in BOOLEAN /\ runnerLock' \in BOOLEAN
    /\ stop' \in [Batches!Processes -> {"idle", "sessions", "done", "undone"}]
    /\ toStop' \in [Batches!Processes -> SUBSET Batches!Jobs]
    /\ stop'[Home] = "done" => batch'[Home].cancel
    /\ \A p \in Batches!Processes : stop'[p] = "sessions" => batch'[p] # None

StepFacts == SessionMoves /\ JobMoves /\ BatchMoves /\ ControlMoves /\ Flight'

LEMMA InvFromFacts ==
    ASSUME Batches!BatchAssumption, BatchInv, StepFacts
    PROVE  BatchInv'
<1> USE CopyFacts DEF StepFacts
<1>1. BatchTypes'
  BY DEF SessionMoves, JobMoves, BatchMoves, ControlMoves, BatchTypes
<1>2. \A c \in Batches!Copies : batch'[c] # None => Fits(batch[c])'
  BY DEF BatchMoves, JobMoves, ControlMoves, Fits
<1>3. BatchesFit'
  BY <1>2 DEF BatchesFit
<1>4. SessionsFit'
  BY DEF SessionMoves, JobMoves, ControlMoves, SessionsFit
<1>5. Stopped'
  BY DEF BatchMoves, ControlMoves, Stopped
<1> QED BY <1>1, <1>3, <1>4, <1>5 DEF BatchInv

LEMMA ControlStays ==
    ASSUME Batches!BatchAssumption, BatchInv, SessionMoves, BatchMoves,
           UNCHANGED Batches!stopVars, ~Respawn,
           runner' \in {"spawn", "top", "submit", "wait", "drain", "final", "release", "over", "dead"},
           raised' \in BOOLEAN, raised => raised', beat' \in BOOLEAN, runnerLock' \in BOOLEAN
    PROVE  ControlMoves
<1> USE CopyFacts
<1>2. stop'[Home] = "done" => batch'[Home].cancel
  BY DEF Batches!stopVars, BatchInv, Stopped, BatchMoves
<1>3. \A p \in Batches!Processes : stop'[p] = "sessions" => batch'[p] # None
  BY DEF Batches!stopVars, BatchInv, Stopped, BatchMoves
<1> QED BY <1>2, <1>3 DEF Batches!stopVars, BatchInv, BatchTypes, ControlMoves

LEMMA FlightStays ==
    ASSUME BatchInv, BatchMoves, SameFlight,
           raised => raised', runner' = runner \/ runner' \notin {"submit", "drain", "final"}
    PROVE  Flight'
BY DEF BatchInv, BatchMoves, Respawn, SameFlight, Flight

LEMMA FlightFinite ==
    ASSUME Batches!BatchAssumption
    PROVE  /\ IsFiniteSet(Batches!InFlight) /\ Cardinality(Batches!InFlight) \in Nat
           /\ BatchWorkers \in Nat /\ BatchWorkers > 0
           /\ Cardinality(Batches!InFlight) = 0 <=> Batches!InFlight = {}
<1>1. IsFiniteSet(Batches!Jobs)
  BY FS_Interval DEF Batches!Jobs, Batches!BatchAssumption
<1>2. IsFiniteSet(Batches!InFlight)
  BY <1>1, FS_Subset DEF Batches!InFlight
<1> QED BY <1>2, FS_CardinalityType, FS_EmptySet DEF Batches!BatchAssumption

(* A job that begins, or none.                                               *)
LEMMA BeginMoves ==
    ASSUME BatchInv, SessionMoves, NEW i,
           jobPc' \in [Batches!Jobs -> Batches!Place],
           \A j \in Batches!Jobs : jobPc'[j] = jobPc[j] \/ (j = i /\ jobPc'[j] = <<"begin", 0>>),
           UNCHANGED <<again, ok, pool>>
    PROVE  JobMoves /\ JobsRest
<1>1. \A j \in Batches!Jobs : jobPc'[j][1] \in Open => Kept(j)'
  BY DEF BatchInv, SessionsFit, SessionMoves, Open
<1>2. \A j \in Batches!Jobs : jobPc'[j][2] \in {6, 7} => j \in pool'
  BY DEF BatchInv, SessionsFit
<1>3. JobsRest
  BY DEF JobsRest, Batches!Calls
<1> QED BY <1>1, <1>2, <1>3 DEF JobMoves, BatchInv, BatchTypes, SessionsFit

LEMMA OneMore ==
    ASSUME Batches!BatchAssumption, NEW i, Cardinality(Batches!InFlight) < BatchWorkers,
           Batches!InFlight' \subseteq Batches!InFlight \cup {i}
    PROVE  Cardinality(Batches!InFlight') <= BatchWorkers
<1>1. /\ IsFiniteSet(Batches!InFlight \cup {i})
      /\ Cardinality(Batches!InFlight \cup {i}) <= Cardinality(Batches!InFlight) + 1
  BY FlightFinite, FS_AddElement
<1>2. /\ Cardinality(Batches!InFlight') <= Cardinality(Batches!InFlight \cup {i})
      /\ Cardinality(Batches!InFlight') \in Nat
      /\ Cardinality(Batches!InFlight \cup {i}) \in Nat
  BY <1>1, FS_Subset, FS_CardinalityType
<1> QED BY <1>1, <1>2, FlightFinite

LEMMA RunnerFacts ==
    ASSUME Batches!BatchAssumption, BatchInv,
           Batches!RunnerStep \/ Batches!Timeout \/ Batches!BeatCheck \/ Batches!Beat
             \/ Batches!Crash \/ Batches!Lapse
    PROVE  StepFacts /\ JobsRest
<1> USE CopyFacts
<1>0. /\ batch[Home] \in Batches!Batch /\ Fits(batch[Home]) /\ Fits(batch[Redis])
      /\ Batches!Running(batch[Home]) \in Batches!Batch
         /\ Batches!Running(batch[Home]).ids = batch[Home].ids
      /\ Batches!Running(batch[Home]).cancel = batch[Home].cancel
      /\ Batches!Running(batch[Home]).st \in {batch[Home].st, "running"}
      /\ Batches!Stopping(batch[Home]) \in Batches!Batch
         /\ Batches!Stopping(batch[Home]).ids = batch[Home].ids
      /\ Batches!Stopping(batch[Home]).cancel
      /\ Batches!Stopping(batch[Home]).st \in {batch[Home].st, "stopping"}
  <2>1. batch[Home] \in Batches!Batch /\ Fits(batch[Home]) /\ Fits(batch[Redis])
    BY DEF BatchInv, BatchTypes, BatchesFit
  <2> QED BY <2>1, RunningShape, StoppingShape
<1>s. ASSUME UNCHANGED <<sess, snewer>>
      PROVE  SessionMoves
  BY <1>s, SessionsStay
<1>p. ASSUME NEW b \in Batches!Batch, Batches!PutBatch(Home, b), UNCHANGED <<sess, snewer>>,
             b.ids = batch[Home].ids, b.cancel = batch[Home].cancel \/ b.cancel,
             b.st = "done" => raised \/ pool = Batches!Jobs, b.st = "partial" => pool # {}
      PROVE  BatchMoves
  <2>2. Home = Home => Respawn \/ (batch[Home].cancel => b.cancel)
    BY <1>p
  <2> QED BY <1>p, <2>2, BatchPut
<1>1. CASE Batches!Spawn
  <2> DEFINE b == [batch[Home] EXCEPT !.st = "running", !.cancel = FALSE]
  <2>1. b \in Batches!Batch /\ b.ids = batch[Home].ids /\ b.st = "running"
    BY <1>0 DEF Batches!Batch
  <2>2. Batches!PutBatch(Home, b)
    BY <1>1 DEF Batches!Spawn
  <2> HIDE DEF b
  <2>3. UNCHANGED <<sess, snewer, raised, beat, Batches!jobVars,
        toStop>> /\ runner = "spawn" /\ runner' = "top"
        /\ runnerLock' = TRUE
    BY <1>1 DEF Batches!Spawn
  <2>4. SessionMoves
    BY <2>3, <1>s
  <2>5. BatchMoves
    BY <1>0, <2>1, <2>2, <2>3, <2>4, BatchPut DEF Fits, Respawn
  <2>6. JobMoves /\ JobsRest /\ SameFlight
    BY <2>3, <2>4, JobsStay
  <2>7. Flight'
    BY <2>3, <2>5, <2>6, FlightStays
  <2>8. /\ stop' \in [Batches!Processes -> {"idle", "sessions", "done",
           "undone"}] /\ stop'[Home] # "done"
        /\ \A p \in Batches!Processes : stop'[p] = "sessions" => stop[p] = "sessions"
    BY <1>1 DEF Batches!Spawn, BatchInv, BatchTypes
  <2>9. ControlMoves
    BY <2>3, <2>4, <2>5, <2>8 DEF ControlMoves, BatchMoves, BatchInv, BatchTypes, SessionsFit,
                                  Stopped
  <2> QED BY <2>4, <2>5, <2>6, <2>7, <2>9 DEF StepFacts
<1>2. CASE Batches!Top
  <2>1. runner = "top" /\ UNCHANGED <<sess, snewer, raised, beat, runnerLock, Batches!jobVars,
        Batches!stopVars>>
        /\ runner' \in {"submit", "final", "wait"}
    BY <1>2 DEF Batches!Top
  <2>2. SessionMoves
    BY <2>1, <1>s
  <2> DEFINE looks == Batches!Unsubmitted # {} /\ Cardinality(Batches!InFlight) < BatchWorkers
  <2>3. BatchMoves /\ (looks /\ Batches!CancelSeen => batch'[Home].cancel)
    <3>1. CASE looks
      BY <1>2, <2>2, <3>1, StopAdopted, BatchCount DEF Batches!Top
    <3>2. CASE ~looks
      BY <1>2, <2>2, <3>2, BatchStays, BatchCount DEF Batches!Top
    <3> QED BY <3>1, <3>2
  <2>4. JobMoves /\ JobsRest /\ SameFlight
    BY <2>1, <2>2, JobsStay
  <2>5. runner' = "submit" => looks
    BY <1>2, BatchCount DEF Batches!Top
  <2>6. runner' = "final" => Batches!InFlight = {} /\ ~(looks /\ ~Batches!CancelSeen)
    BY <1>2, BatchCount DEF Batches!Top
  <2>7. Flight'
    <3>1. runner' = "final" => Batches!Unsubmitted = {} \/ batch'[Home].cancel
      BY <2>3, <2>6, FlightFinite DEF BatchInv, Flight
    <3> HIDE DEF looks
    <3>2. runner' \in {"submit", "final", "wait"} /\ Cardinality(Batches!InFlight) <= BatchWorkers
      BY <2>1 DEF BatchInv, Flight
    <3>3. runner' = "submit" => Batches!Unsubmitted # {}
          /\ Cardinality(Batches!InFlight) < BatchWorkers
      BY <2>5 DEF looks
    <3> QED BY <2>4, <2>6, <3>1, <3>2, <3>3 DEF Flight, SameFlight
  <2>8. ControlMoves
    BY <2>1, <2>2, <2>3, ControlStays DEF BatchInv, BatchTypes, Respawn
  <2> QED BY <2>2, <2>3, <2>4, <2>7, <2>8 DEF StepFacts
<1>3. CASE Batches!Submit
  <2> DEFINE i == CHOOSE j \in Batches!Unsubmitted : \A k \in Batches!Unsubmitted : j <= k
  <2>1. /\ runner = "submit" /\ runner' = "top" /\ Batches!PutBatch(Home,
           Batches!Running(batch[Home]))
        /\ jobPc' = [jobPc EXCEPT ![i] = <<"begin", 0>>]
        /\ UNCHANGED <<sess, snewer, raised, beat, runnerLock, again, ok, pool, Batches!stopVars>>
    BY <1>3 DEF Batches!Submit
  <2> HIDE DEF i
  <2>2. SessionMoves
    BY <2>1, <1>s
  <2>3. BatchMoves
    BY <1>0, <2>1, <1>p DEF Fits
  <2>4. /\ jobPc' \in [Batches!Jobs -> Batches!Place]
        /\ \A j \in Batches!Jobs : jobPc'[j] = IF j = i THEN <<"begin", 0>> ELSE jobPc[j]
    BY <2>1, PlaceIn DEF BatchInv, BatchTypes
  <2>5. JobMoves /\ JobsRest
    BY <2>1, <2>2, <2>4, BeginMoves
  <2>6. Batches!InFlight' \subseteq Batches!InFlight \cup {i}
    BY <2>4 DEF Batches!InFlight
  <2>7. Cardinality(Batches!InFlight') <= BatchWorkers
    BY <2>1, <2>6, OneMore DEF BatchInv, Flight
  <2>8. Flight'
    BY <2>1, <2>7 DEF Flight
  <2>9. ControlMoves
    BY <2>1, <2>2, <2>3, ControlStays DEF BatchInv, BatchTypes, Respawn
  <2> QED BY <2>2, <2>3, <2>5, <2>8, <2>9 DEF StepFacts
<1>11. CASE Batches!SubmitRaises
  <2> DEFINE i == CHOOSE j \in Batches!Unsubmitted : \A k \in Batches!Unsubmitted : j <= k
  <2>1. /\ runner = "submit" /\ runner' = "drain" /\ raised' = TRUE
        /\ jobPc' \in {jobPc, [jobPc EXCEPT ![i] = <<"begin", 0>>]}
        /\ UNCHANGED <<batch, newer, sess, snewer, beat, runnerLock, again, ok, pool,
                       Batches!stopVars>>
    BY <1>11 DEF Batches!SubmitRaises
  <2> HIDE DEF i
  <2>2. SessionMoves
    BY <2>1, <1>s
  <2>3. BatchMoves
    BY <2>1, BatchStays
  <2>4. /\ jobPc' \in [Batches!Jobs -> Batches!Place]
        /\ \A j \in Batches!Jobs : jobPc'[j] = jobPc[j] \/ (j = i /\ jobPc'[j] = <<"begin", 0>>)
    BY <2>1, PlaceIn DEF BatchInv, BatchTypes
  <2>5. JobMoves /\ JobsRest
    BY <2>1, <2>2, <2>4, BeginMoves
  <2>6. Batches!InFlight' \subseteq Batches!InFlight \cup {i}
    BY <2>4 DEF Batches!InFlight
  <2>7. Cardinality(Batches!InFlight') <= BatchWorkers
    BY <2>1, <2>6, OneMore DEF BatchInv, Flight
  <2>8. Flight'
    BY <2>1, <2>7 DEF Flight
  <2>9. ControlMoves
    BY <2>1, <2>2, <2>3, ControlStays DEF BatchInv, BatchTypes, Respawn
  <2> QED BY <2>2, <2>3, <2>5, <2>8, <2>9 DEF StepFacts
<1>12. CASE Batches!Drained
  <2>1. /\ runner = "drain" /\ runner' = "final"
        /\ UNCHANGED <<batch, sess, newer, snewer, raised, beat, runnerLock, Batches!jobVars,
                       Batches!stopVars>>
    BY <1>12 DEF Batches!Drained
  <2>2. SessionMoves
    BY <2>1, <1>s
  <2>3. BatchMoves
    BY <2>1, BatchStays
  <2>4. JobMoves /\ JobsRest /\ SameFlight
    BY <2>1, <2>2, JobsStay
  <2>5. Flight'
    BY <2>1, <2>4 DEF BatchInv, Flight, SameFlight
  <2>6. ControlMoves
    BY <2>1, <2>2, <2>3, ControlStays DEF BatchInv, BatchTypes, Respawn
  <2> QED BY <2>2, <2>3, <2>4, <2>5, <2>6 DEF StepFacts
<1>4. ASSUME NEW i \in Batches!Jobs, Batches!Note(i)
      PROVE  StepFacts /\ JobsRest
  <2>1. /\ runner = "wait" /\ runner' = "top" /\ Batches!PutBatch(Home,
           Batches!Running(batch[Home]))
        /\ Batches!Goto(i, "noted", 0) /\ <<"noted", 0>> \in Batches!Place
        /\ UNCHANGED <<sess, snewer, raised, beat, runnerLock, again, ok, pool, Batches!stopVars>>
    BY <1>4, PlaceIn DEF Batches!Note, Batches!Goto
  <2>2. SessionMoves
    BY <2>1, <1>s
  <2>3. BatchMoves
    BY <1>0, <2>1, <1>p DEF Fits
  <2>4. again' \in SUBSET Batches!Jobs /\ ok' \subseteq pool' /\ pool' \in SUBSET Batches!Jobs
        /\ pool' = pool
    BY <2>1 DEF BatchInv, BatchTypes, SessionsFit
  <2>5. JobMoves /\ JobsRest
    BY <2>1, <2>2, <2>4, GotoMoves DEF Open, StaysIn, Batches!Calls
  <2>6. Batches!InFlight' \subseteq Batches!InFlight
    BY <2>1 DEF Batches!InFlight, Batches!Goto, BatchInv, BatchTypes
  <2>7. Cardinality(Batches!InFlight') <= BatchWorkers
    <3>1. Cardinality(Batches!InFlight') <= Cardinality(Batches!InFlight)
          /\ Cardinality(Batches!InFlight') \in Nat
      BY <2>6, FlightFinite, FS_Subset, FS_CardinalityType
    <3> QED BY <3>1, FlightFinite DEF BatchInv, Flight
  <2>8. Flight'
    BY <2>1, <2>7 DEF Flight
  <2>9. ControlMoves
    BY <2>1, <2>2, <2>3, ControlStays DEF BatchInv, BatchTypes, Respawn
  <2> QED BY <2>2, <2>3, <2>5, <2>8, <2>9 DEF StepFacts
<1>5. CASE Batches!Timeout
  <2>1. Batches!AdoptStop /\ UNCHANGED <<sess, snewer, runner, raised, beat, runnerLock,
        Batches!jobVars, Batches!stopVars>>
    BY <1>5 DEF Batches!Timeout
  <2>2. SessionMoves
    BY <2>1, <1>s
  <2>3. BatchMoves
    BY <2>1, <2>2, StopAdopted
  <2>4. JobMoves /\ JobsRest /\ SameFlight
    BY <2>1, <2>2, JobsStay
  <2>5. Flight' /\ ControlMoves
    BY <2>1, <2>2, <2>3, <2>4, FlightStays, ControlStays DEF BatchInv, BatchTypes, Respawn
  <2> QED BY <2>2, <2>3, <2>4, <2>5 DEF StepFacts
<1>6. CASE Batches!Final
  <2> DEFINE finished == {i \in Batches!Jobs : jobPc[i][1] = "noted"}
             st == IF batch[Home].cancel /\ finished # Batches!Jobs THEN "cancelled"
                   ELSE IF finished \subseteq ok THEN "done"
                   ELSE IF finished \cap ok = {} THEN "error" ELSE "partial"
             b == [batch[Home] EXCEPT !.st = st]
  <2>1. /\ runner = "final" /\ runner' = "release" /\ Batches!PutBatch(Home, b)
        /\ UNCHANGED <<sess, snewer, raised, beat, runnerLock, Batches!jobVars, Batches!stopVars>>
    BY <1>6 DEF Batches!Final
  <2>2. /\ b \in Batches!Batch /\ b.ids = batch[Home].ids /\ b.cancel = batch[Home].cancel
        /\ b.st = st
    BY <1>0 DEF Batches!Batch, Batches!BatchEnded
  <2>3. Batches!Unsubmitted = {} /\ ~raised => finished = Batches!Jobs
    BY <2>1 DEF BatchInv, Flight, Batches!Unsubmitted, Batches!InFlight
  <2>4. st = "done" => raised \/ pool = Batches!Jobs
    BY <2>1, <2>3 DEF BatchInv, BatchTypes, Flight, SessionsFit
  <2>5. st = "partial" => pool # {}
    BY DEF BatchInv, SessionsFit
  <2> HIDE DEF b, st, finished
  <2>6. SessionMoves
    BY <2>1, <1>s
  <2>7. BatchMoves
    BY <2>1, <2>2, <2>4, <2>5, <1>p
  <2>8. JobMoves /\ JobsRest /\ SameFlight
    BY <2>1, <2>6, JobsStay
  <2>9. Flight' /\ ControlMoves
    BY <2>1, <2>6, <2>7, <2>8, FlightStays, ControlStays DEF BatchInv, BatchTypes, Respawn
  <2> QED BY <2>6, <2>7, <2>8, <2>9 DEF StepFacts
<1>7. CASE Batches!Release \/ Batches!Lapse
  <2>1. /\ runnerLock' = FALSE /\ runner' \in {"over", "dead"}
        /\ UNCHANGED <<batch, newer, sess, snewer, raised, beat, Batches!jobVars, Batches!stopVars>>
    BY <1>7 DEF Batches!Release, Batches!Lapse
  <2>2. SessionMoves
    BY <2>1, <1>s
  <2>3. BatchMoves
    BY <2>1, <2>2, BatchStays
  <2>4. JobMoves /\ JobsRest /\ SameFlight
    BY <2>1, <2>2, JobsStay
  <2>5. Flight' /\ ControlMoves
    BY <2>1, <2>2, <2>3, <2>4, FlightStays, ControlStays DEF BatchInv, BatchTypes, Respawn
  <2> QED BY <2>2, <2>3, <2>4, <2>5 DEF StepFacts
<1>8. CASE Batches!BeatCheck
  <2>1. beat' = TRUE /\ UNCHANGED <<sess, snewer, runner, raised, runnerLock, Batches!jobVars,
        Batches!stopVars>>
    BY <1>8 DEF Batches!BeatCheck
  <2>2. SessionMoves
    BY <2>1, <1>s
  <2>3. BatchMoves
    <3>1. CASE Batches!PutBatch(Home, Batches!Stopping(batch[Home]))
      BY <1>0, <2>1, <3>1, <1>p DEF Fits
    <3>2. CASE UNCHANGED <<batch, newer>>
      BY <2>2, <3>2, BatchStays
    <3> QED BY <1>8, <3>1, <3>2 DEF Batches!BeatCheck
  <2>4. JobMoves /\ JobsRest /\ SameFlight
    BY <2>1, <2>2, JobsStay
  <2>5. Flight' /\ ControlMoves
    BY <2>1, <2>2, <2>3, <2>4, FlightStays, ControlStays DEF BatchInv, BatchTypes, Respawn
  <2> QED BY <2>2, <2>3, <2>4, <2>5 DEF StepFacts
<1>9. CASE Batches!Beat
  <2>1. beat' = FALSE /\ Batches!PutBatch(Home, batch[Home])
        /\ UNCHANGED <<sess, snewer, runner, raised, runnerLock, Batches!jobVars, Batches!stopVars>>
    BY <1>9 DEF Batches!Beat
  <2>2. SessionMoves
    BY <2>1, <1>s
  <2>3. BatchMoves
    BY <1>0, <2>1, <1>p DEF Fits
  <2>4. JobMoves /\ JobsRest /\ SameFlight
    BY <2>1, <2>2, JobsStay
  <2>5. Flight' /\ ControlMoves
    BY <2>1, <2>2, <2>3, <2>4, FlightStays, ControlStays DEF BatchInv, BatchTypes, Respawn
  <2> QED BY <2>2, <2>3, <2>4, <2>5 DEF StepFacts
<1>10. CASE Batches!Crash
  <2>1. /\ runner' = "dead" /\ beat' = FALSE /\ jobPc' = [i \in Batches!Jobs |-> <<"noted", 0>>]
        /\ stop' = [stop EXCEPT ![Home] = "idle"] /\ toStop' = [toStop EXCEPT ![Home] = {}]
        /\ UNCHANGED <<batch, sess, newer, snewer, raised, runnerLock, again, ok, pool>>
    BY <1>10 DEF Batches!Crash
  <2>2. SessionMoves
    BY <2>1, <1>s
  <2>3. BatchMoves
    BY <2>1, <2>2, BatchStays
  <2>4. jobPc' \in [Batches!Jobs -> Batches!Place]
        /\ \A i \in Batches!Jobs : jobPc'[i][1] = "noted" /\ jobPc'[i][2] = 0
    BY <2>1, PlaceIn
  <2>5. JobMoves /\ JobsRest
    BY <2>1, <2>4 DEF JobMoves, JobsRest, Open, Batches!Calls, BatchInv, BatchTypes, SessionsFit
  <2>6. Batches!InFlight' = {}
    BY <2>4 DEF Batches!InFlight
  <2>7. Flight'
    BY <2>1, <2>6, FlightFinite, FS_EmptySet DEF Flight
  <2>8. /\ stop' \in [Batches!Processes -> {"idle", "sessions", "done",
           "undone"}] /\ stop'[Home] # "done"
        /\ toStop' \in [Batches!Processes -> SUBSET Batches!Jobs]
        /\ \A p \in Batches!Processes : toStop'[p] \subseteq toStop[p]
        /\ \A p \in Batches!Processes : stop'[p] = "sessions" => stop[p] = "sessions"
    BY <2>1 DEF BatchInv, BatchTypes
  <2>9. ControlMoves
    BY <2>1, <2>2, <2>3, <2>8 DEF ControlMoves, BatchMoves, BatchInv, BatchTypes, SessionsFit,
                                  Stopped
  <2> QED BY <2>2, <2>3, <2>5, <2>7, <2>9 DEF StepFacts
<1> QED BY <1>1, <1>2, <1>3, <1>4, <1>5, <1>6, <1>7, <1>8, <1>9, <1>10, <1>11, <1>12
       DEF Batches!RunnerStep

LEMMA StopFacts ==
    ASSUME Batches!BatchAssumption, BatchInv, NEW p \in Batches!Processes,
           Batches!Stop(p) \/ Batches!List(p) \/ Batches!Poll(p)
    PROVE  StepFacts /\ JobsRest
<1> USE CopyFacts
<1> DEFINE b == Batches!LoadBatch(p)
<1>a. b \in Batches!Batch
  BY LoadFacts
<1>b. /\ Batches!Stopping(b) \in Batches!Batch /\ Batches!Stopping(b).ids = b.ids
         /\ Batches!Stopping(b).cancel
      /\ Batches!Stopping(b).st \in {b.st, "stopping"}
  BY <1>a, StoppingShape
<1>d. /\ b.st = "done" => raised \/ pool = Batches!Jobs
      /\ b.st = "partial" => pool # {}
      /\ b = batch[p] \/ (batch[p] = None /\ b = batch[Redis])
  BY LoadFacts
<1> HIDE DEF b
<1>c. /\ UNCHANGED <<runner, raised, beat, runnerLock, Batches!jobVars>>
      /\ runner' \in {"spawn", "top", "submit", "wait", "drain", "final", "release", "over", "dead"}
      /\ beat' \in BOOLEAN /\ runnerLock' \in BOOLEAN /\ ~Respawn
      /\ raised' \in BOOLEAN /\ (raised => raised')
  BY DEF Batches!Stop, Batches!StopBegin, Batches!StopEnd, Batches!StopSession, Batches!List,
      Batches!Poll, BatchInv, BatchTypes, Respawn
<1>q. ASSUME SessionMoves, BatchMoves
      PROVE  JobMoves /\ JobsRest /\ Flight'
  <2>1. JobMoves /\ JobsRest /\ SameFlight
    BY <1>c, <1>q, JobsStay
  <2> QED BY <1>c, <1>q, <2>1, FlightStays
<1>1. CASE Batches!StopBegin(p)
  <2>1. /\ Batches!PutBatch(p, Batches!Stopping(b)) /\ toStop' = [toStop EXCEPT ![p] = b.ids]
        /\ stop' = [stop EXCEPT ![p] = "sessions"] /\ UNCHANGED <<sess, snewer>>
    BY <1>1 DEF Batches!StopBegin, b
  <2>2. SessionMoves
    BY <2>1, SessionsStay
  <2>3. BatchMoves
    BY <1>a, <1>b, <1>d, <2>1, <2>2, BatchPut
  <2>4. /\ stop' \in [Batches!Processes -> {"idle", "sessions", "done", "undone"}]
        /\ stop'[Home] = "done" => stop[Home] = "done"
        /\ \A q \in Batches!Processes : q # p /\ stop'[q] = "sessions" => stop[q] = "sessions"
    BY <2>1 DEF BatchInv, BatchTypes
  <2>5. /\ toStop' \in [Batches!Processes -> SUBSET Batches!Jobs]
    BY <1>a, <2>1 DEF BatchInv, BatchTypes, Batches!Batch
  <2>6. batch'[p] # None
    BY <1>a, <1>b, <1>d, <2>1 DEF Batches!PutBatch, BatchInv, BatchTypes
  <2>7. \A q \in Batches!Processes : stop'[q] = "sessions" => batch'[q] # None
    BY <2>3, <2>4, <2>6 DEF BatchMoves, BatchInv, Stopped
  <2>8. ControlMoves
    BY <1>c, <2>3, <2>4, <2>5, <2>7 DEF ControlMoves, BatchMoves, BatchInv, Stopped
  <2> QED BY <2>2, <2>3, <2>8, <1>q DEF StepFacts
<1>2. CASE Batches!StopEnd(p)
  <2>1. /\ Batches!PutBatch(p, Batches!Stopping(batch[p])) /\ stop[p] = "sessions"
        /\ stop' = [stop EXCEPT ![p] = "done"] /\ UNCHANGED <<sess, snewer, toStop>>
    BY <1>2 DEF Batches!StopEnd
  <2>2. SessionMoves
    BY <2>1, SessionsStay
  <2>3. BatchMoves /\ (p = Home => batch'[Home].cancel)
    <3>1. batch[p] \in Batches!Batch /\ Fits(batch[p])
      <4>1. batch[p] # None
        BY <2>1 DEF BatchInv, Stopped
      <4> QED BY <4>1 DEF BatchInv, BatchTypes, BatchesFit
    <3>2. /\ Batches!Stopping(batch[p]) \in Batches!Batch
             /\ Batches!Stopping(batch[p]).ids = batch[p].ids
          /\ Batches!Stopping(batch[p]).cancel
             /\ Batches!Stopping(batch[p]).st \in {batch[p].st, "stopping"}
      BY <3>1, StoppingShape
    <3>3. BatchMoves
      BY <2>1, <2>2, <3>1, <3>2, BatchPut DEF Fits
    <3>4. p = Home => batch'[Home].cancel
      BY <2>1, <3>2 DEF Batches!PutBatch, BatchInv, BatchTypes
    <3> QED BY <3>3, <3>4
  <2>4. /\ stop' \in [Batches!Processes -> {"idle", "sessions", "done", "undone"}]
        /\ p # Home => stop'[Home] = stop[Home]
        /\ \A q \in Batches!Processes : stop'[q] = "sessions" => stop[q] = "sessions"
    BY <2>1 DEF BatchInv, BatchTypes
  <2>5. stop'[Home] = "done" => batch'[Home].cancel
    BY <1>c, <2>3, <2>4 DEF BatchMoves, BatchInv, Stopped
  <2>6. ControlMoves
    BY <1>c, <2>1, <2>2, <2>3, <2>4, <2>5 DEF ControlMoves, BatchMoves, BatchInv, BatchTypes,
                                              SessionsFit, Stopped
  <2> QED BY <2>2, <2>3, <2>6, <1>q DEF StepFacts
<1>3. ASSUME NEW i \in Batches!Jobs, Batches!StopSession(p, i)
      PROVE  StepFacts /\ JobsRest
  <2> DEFINE s == Batches!LoadSession(p, i)
             t == [st |-> "stopping", cancel |-> TRUE]
  <2>1. /\ i \in toStop[p] /\ toStop' = [toStop EXCEPT ![p] = @ \ {i}]
        /\ UNCHANGED <<batch, newer, stop>>
        /\ \/ sess' = [sess EXCEPT ![p][i] = s] /\ UNCHANGED snewer
           \/ Batches!PutSession(p, i, t)
    BY <1>3 DEF Batches!StopSession
  <2>3. s \in Batches!Session \cup {None} /\ (s # None /\ s.st = "imported" => i \in pool)
        /\ (sess[p][i] # None => s = sess[p][i])
    BY SessionLoaded DEF Batches!LoadSession
  <2>4. t \in Batches!Session /\ t.st # "imported"
    BY DEF Batches!Session
  <2> HIDE DEF s, t
  <2>5. SessionMoves
    <3>1. CASE sess' = [sess EXCEPT ![p][i] = s] /\ UNCHANGED snewer
      <4>1. /\ sess' \in [Batches!Copies -> [Batches!Jobs -> Batches!Session \cup {None}]]
            /\ \A c \in Batches!Copies : c # p => sess'[c] = sess[c]
            /\ sess'[p][i] = s /\ \A j \in Batches!Jobs : j # i => sess'[p][j] = sess[p][j]
        BY <2>3, <3>1 DEF BatchInv, BatchTypes
      <4>2. \A j \in Batches!Jobs : Kept(j) /\ sess[p][j] # None => sess'[p][j] # None
        BY <2>3, <4>1
      <4>3. \A j \in Batches!Jobs : sess'[p][j] # None =>
                (sess'[p][j].st = "imported" => j \in pool)
        BY <2>3, <4>1 DEF BatchInv, SessionsFit
      <4>4. snewer' \in [Batches!Processes -> SUBSET Batches!Jobs]
        BY <3>1 DEF BatchInv, BatchTypes
      <4> QED BY <4>1, <4>2, <4>3, <4>4, SessionsMerged
    <3>2. CASE Batches!PutSession(p, i, t)
      BY <2>4, <3>2, SessionPut DEF SessionMoves
    <3> QED BY <2>1, <3>1, <3>2
  <2>6. BatchMoves
    BY <2>1, <2>5, BatchStays
  <2>7. /\ toStop' \in [Batches!Processes -> SUBSET Batches!Jobs]
        /\ \A q \in Batches!Processes : toStop'[q] \subseteq toStop[q]
    BY <2>1 DEF BatchInv, BatchTypes
  <2>8. ControlMoves
    BY <1>c, <2>1, <2>5, <2>6, <2>7 DEF ControlMoves, BatchInv, BatchTypes, SessionsFit, Stopped,
                                        BatchMoves
  <2> QED BY <2>5, <2>6, <2>8, <1>q DEF StepFacts
<1>4. CASE Batches!List(p)
  <2> DEFINE m == [batch[Redis] EXCEPT !.ids = @ \cup batch[p].ids]
             c == IF batch[p] = None THEN batch[Redis] ELSE IF newer[p] THEN m ELSE batch[p]
  <2>1. /\ batch' = [batch EXCEPT ![p] = c]
        /\ sess' = [sess EXCEPT ![p] = [i \in Batches!Jobs |-> IF i \in snewer[p]
           THEN sess[Redis][i] ELSE @[i]]]
        /\ newer' = [newer EXCEPT ![p] = FALSE] /\ snewer' = [snewer EXCEPT ![p] = {}]
        /\ UNCHANGED Batches!stopVars
    BY <1>4 DEF Batches!List
  <2>2. /\ batch[Redis] \in Batches!Batch /\ Fits(batch[Redis])
        /\ batch[p] # None => batch[p] \in Batches!Batch /\ Fits(batch[p])
    BY DEF BatchInv, BatchTypes, BatchesFit
  <2>3. batch[p] # None =>
          /\ m \in Batches!Batch /\ m.st = batch[Redis].st /\ m.cancel = batch[Redis].cancel
          /\ m.ids = batch[Redis].ids \cup batch[p].ids
    BY <2>2 DEF Batches!Batch
  <2> HIDE DEF m
  <2>4. /\ c \in Batches!Batch
        /\ c.st = "done" => raised \/ pool = Batches!Jobs
        /\ c.st = "partial" => pool # {}
    BY <2>2, <2>3 DEF Fits
  <2>5. p = Home => (batch[Home].cancel => c.cancel)
    BY <2>2, <2>3 DEF BatchInv, BatchTypes, Stopped
  <2> HIDE DEF c
  <2>6. SessionMoves
    <3>1. /\ sess' \in [Batches!Copies -> [Batches!Jobs -> Batches!Session \cup {None}]]
          /\ \A d \in Batches!Copies : d # p => sess'[d] = sess[d]
          /\ \A i \in Batches!Jobs : sess'[p][i] = IF i \in snewer[p] THEN sess[Redis][i]
             ELSE sess[p][i]
      BY <2>1 DEF BatchInv, BatchTypes
    <3>2. \A i \in Batches!Jobs : Kept(i) /\ sess[p][i] # None => sess'[p][i] # None
      BY <3>1 DEF Kept
    <3>3. \A i \in Batches!Jobs : sess'[p][i] # None =>
              (sess'[p][i].st = "imported" => i \in pool)
      BY <3>1 DEF BatchInv, SessionsFit
    <3>4. snewer' \in [Batches!Processes -> SUBSET Batches!Jobs]
      BY <2>1 DEF BatchInv, BatchTypes
    <3> QED BY <3>1, <3>2, <3>3, <3>4, SessionsMerged
  <2>7. BatchMoves
    <3>1. /\ batch' \in [Batches!Copies -> Batches!Batch \cup {None}]
          /\ \A d \in Batches!Copies : batch'[d] = IF d = p THEN c ELSE batch[d]
      BY <2>1, <2>4 DEF BatchInv, BatchTypes
    <3>2. batch'[Home] # None /\ batch'[Redis] = batch[Redis] /\ batch[Redis] # None
      BY <2>4, <3>1 DEF BatchInv, BatchTypes
    <3>3. \A d \in Batches!Copies : batch'[d] # None =>
          /\ batch'[d].st = "done" => raised \/ pool = Batches!Jobs
          /\ batch'[d].st = "partial" => pool # {}
      BY <2>4, <2>6, <3>1 DEF BatchInv, BatchesFit, Fits
    <3>4. batch[Home].cancel => batch'[Home].cancel
      BY <2>5, <3>1
    <3>5. newer' \in [Batches!Processes -> BOOLEAN] /\ (newer'[Home] => newer[Home])
      BY <2>1 DEF BatchInv, BatchTypes
    <3>6. newer'[Home] => batch'[Redis].cancel
      BY <3>2, <3>5 DEF BatchInv, Stopped
    <3>7. \A d \in Batches!Copies : batch[d] # None => batch'[d] # None
      BY <2>4, <3>1
    <3> QED BY <3>1, <3>2, <3>3, <3>4, <3>5, <3>6, <3>7 DEF BatchMoves
  <2>8. ControlMoves
    BY <1>c, <2>1, <2>6, <2>7, ControlStays
  <2> QED BY <2>6, <2>7, <2>8, <1>q DEF StepFacts
<1>5. CASE Batches!Poll(p)
  <2> DEFINE loaded == {i \in b.ids : sess[p][i] = None /\ sess[Redis][i] # None}
  <2>1. /\ batch' = [batch EXCEPT ![p] = b]
        /\ newer' = [newer EXCEPT ![p] = @ /\ batch[p] # None]
        /\ sess' = [sess EXCEPT ![p] = [i \in Batches!Jobs |-> IF i \in loaded
           THEN sess[Redis][i] ELSE @[i]]]
        /\ snewer' = [snewer EXCEPT ![p] = @ \ loaded]
        /\ UNCHANGED Batches!stopVars
    BY <1>5 DEF Batches!Poll, b
  <2>2. \A i \in loaded : sess[Redis][i] # None
    OBVIOUS
  <2> HIDE DEF loaded
  <2>3. SessionMoves
    <3>1. /\ sess' \in [Batches!Copies -> [Batches!Jobs -> Batches!Session \cup {None}]]
          /\ \A d \in Batches!Copies : d # p => sess'[d] = sess[d]
          /\ \A i \in Batches!Jobs : sess'[p][i] = IF i \in loaded THEN sess[Redis][i]
             ELSE sess[p][i]
      BY <2>1 DEF BatchInv, BatchTypes
    <3>2. \A i \in Batches!Jobs : Kept(i) /\ sess[p][i] # None => sess'[p][i] # None
      BY <2>2, <3>1
    <3>3. \A i \in Batches!Jobs : sess'[p][i] # None =>
              (sess'[p][i].st = "imported" => i \in pool)
      BY <3>1 DEF BatchInv, SessionsFit
    <3>4. snewer' \in [Batches!Processes -> SUBSET Batches!Jobs]
      BY <2>1 DEF BatchInv, BatchTypes
    <3> QED BY <3>1, <3>2, <3>3, <3>4, SessionsMerged
  <2>4. BatchMoves
    <3>1. /\ batch' \in [Batches!Copies -> Batches!Batch \cup {None}]
          /\ \A d \in Batches!Copies : batch'[d] = IF d = p THEN b ELSE batch[d]
      BY <1>a, <1>b, <1>d, <2>1 DEF BatchInv, BatchTypes
    <3>2. batch'[Home] = batch[Home] /\ batch'[Redis] = batch[Redis]
          /\ batch[Home] # None /\ batch[Redis] # None
      BY <1>a, <1>b, <1>d, <3>1 DEF BatchInv, BatchTypes
    <3>3. \A d \in Batches!Copies : batch'[d] # None =>
          /\ batch'[d].st = "done" => raised \/ pool = Batches!Jobs
          /\ batch'[d].st = "partial" => pool # {}
      BY <1>a, <1>b, <1>d, <2>3, <3>1 DEF BatchInv, BatchesFit, Fits
    <3>4. newer' \in [Batches!Processes -> BOOLEAN] /\ (newer'[Home] => newer[Home])
      BY <2>1 DEF BatchInv, BatchTypes
    <3>5. newer'[Home] => batch'[Redis].cancel
      BY <3>2, <3>4 DEF BatchInv, Stopped
    <3>6. \A d \in Batches!Copies : batch[d] # None => batch'[d] # None
      BY <1>a, <1>b, <1>d, <3>1
    <3> QED BY <3>1, <3>2, <3>3, <3>4, <3>5, <3>6 DEF BatchMoves
  <2>5. ControlMoves
    BY <1>c, <2>1, <2>3, <2>4, ControlStays
  <2> QED BY <2>3, <2>4, <2>5, <1>q DEF StepFacts
<1> QED BY <1>1, <1>2, <1>3, <1>4, <1>5 DEF Batches!Stop

LEMMA DropFacts ==
    ASSUME Batches!BatchAssumption, BatchInv, NEW i \in Batches!Jobs,
           Batches!Expire(i) \/ \E p \in Batches!Processes : Batches!Clean(p, i)
    PROVE  StepFacts /\ JobsRest
<1>1. PICK copies : Batches!Drop(i, copies)
  BY DEF Batches!Expire, Batches!Clean
<1>2. UNCHANGED <<batch, newer, runner, raised, beat, runnerLock, Batches!jobVars,
                 Batches!stopVars>>
  BY <1>1 DEF Batches!Drop
<1>3. SessionMoves
  BY <1>1, SessionsDropped
<1>4. BatchMoves
  BY <1>2, BatchStays
<1>5. JobMoves /\ JobsRest /\ SameFlight
  BY <1>2, <1>3, JobsStay
<1>6. Flight' /\ ControlMoves
  BY <1>2, <1>3, <1>4, <1>5, FlightStays, ControlStays DEF BatchInv, BatchTypes, Respawn
<1> QED BY <1>3, <1>4, <1>5, <1>6 DEF StepFacts

LEMMA BatchStep == Batches!BatchAssumption /\ BatchInv /\ [Batches!Next]_Batches!vars => BatchInv'
<1> SUFFICES ASSUME Batches!BatchAssumption, BatchInv, [Batches!Next]_Batches!vars PROVE BatchInv'
  OBVIOUS
<1>1. CASE UNCHANGED Batches!vars
  BY <1>1 DEF Batches!vars, Batches!jobVars, Batches!stopVars, BatchInv, BatchTypes,
      BatchesFit, Fits, Kept, SessionsFit,
              Stopped, Flight, Batches!InFlight, Batches!Unsubmitted
<1>2. CASE Batches!RunnerStep \/ Batches!Timeout \/ Batches!BeatCheck \/ Batches!Beat
      \/ Batches!Crash \/ Batches!Lapse
  BY <1>2, RunnerFacts, InvFromFacts
<1>3. ASSUME NEW i \in Batches!Jobs, Batches!Job(i)
      PROVE  BatchInv'
  <2>1. JobFacts(i)
    BY <1>3, JobStep
  <2>2. SessionMoves /\ JobMoves /\ BatchMoves /\ SameFlight /\ Rest
    BY <2>1 DEF JobFacts
  <2>3. Flight' /\ ControlMoves
    BY <2>2, FlightStays, ControlStays DEF Rest, BatchInv, BatchTypes, Respawn
  <2> QED BY <2>2, <2>3, InvFromFacts DEF StepFacts
<1>4. ASSUME NEW p \in Batches!Processes, Batches!Stop(p) \/ Batches!List(p) \/ Batches!Poll(p)
      PROVE  BatchInv'
  BY <1>4, StopFacts, InvFromFacts
<1>5. ASSUME NEW i \in Batches!Jobs,
             Batches!Expire(i) \/ \E p \in Batches!Processes : Batches!Clean(p, i)
      PROVE  BatchInv'
  BY <1>5, DropFacts, InvFromFacts
<1> QED BY <1>1, <1>2, <1>3, <1>4, <1>5 DEF Batches!Next

LEMMA BatchInit == Batches!BatchAssumption /\ Batches!Init => BatchInv
<1> SUFFICES ASSUME Batches!BatchAssumption, Batches!Init PROVE BatchInv
  OBVIOUS
<1> USE CopyFacts
<1> DEFINE b == [st |-> "running", cancel |-> FALSE, ids |-> {}]
<1>1. b \in Batches!Batch /\ b.ids = {} /\ b.st = "running" /\ b.cancel = FALSE
  BY DEF Batches!Batch
<1>2. batch = [c \in Batches!Copies |-> IF c = Away THEN None ELSE b]
  BY DEF Batches!Init
<1> HIDE DEF b
<1>3. BatchTypes
  <2>1. batch \in [Batches!Copies -> Batches!Batch \cup {None}] /\ batch[Home] = b
        /\ batch[Redis] = b
    BY <1>1, <1>2
  <2>2. jobPc \in [Batches!Jobs -> Batches!Place]
    BY PlaceIn DEF Batches!Init
  <2>3. sess \in [Batches!Copies -> [Batches!Jobs -> Batches!Session \cup {None}]]
    BY DEF Batches!Init
  <2> QED BY <1>1, <2>1, <2>2, <2>3 DEF Batches!Init, BatchTypes
<1>4. BatchesFit
  BY <1>1, <1>2 DEF BatchesFit, Fits
<1>5. SessionsFit
  BY DEF Batches!Init, SessionsFit, Open
<1>6. Stopped
  BY DEF Batches!Init, Stopped
<1>7. Batches!InFlight = {}
  BY DEF Batches!Init, Batches!InFlight
<1>8. Flight
  BY <1>7, FlightFinite DEF Flight, Batches!Init
<1> QED BY <1>3, <1>4, <1>5, <1>6, <1>8 DEF BatchInv

LEMMA TypesFromInv == BatchInv => Batches!TypeOK
BY BatchCount DEF BatchInv, BatchTypes, Flight, Batches!InFlight, Batches!TypeOK

(* Types: no more jobs are in flight than there are workers.                 *)
THEOREM BatchTyped ==
    ASSUME Batches!BatchAssumption
    PROVE  Batches!Init /\ [][Batches!Next]_Batches!vars => []Batches!TypeOK
BY BatchInit, BatchStep, TypesFromInv, PTL

(* What is shown of a batch follows from what a process has loaded of it.    *)
LEMMA JudgedFacts ==
    ASSUME Batches!BatchAssumption, BatchInv, NEW p \in Batches!Processes
    PROVE  /\ Batches!Judged(p) = "done" => raised \/ pool = Batches!Jobs
           /\ Batches!Judged(p) = "partial" => pool # {}
<1> DEFINE stored == Batches!LoadBatch(p).st
           ids == Batches!LoadBatch(p).ids
           imported == Batches!Seen(p, {"imported"})
<1>1. /\ stored = "done" => raised \/ pool = Batches!Jobs
      /\ stored = "partial" => pool # {}
      /\ ids \subseteq Batches!Jobs
  BY LoadFacts DEF Batches!Batch
<1>2. imported \subseteq pool
  <2> SUFFICES ASSUME NEW i \in imported PROVE i \in pool
    OBVIOUS
  <2>1. /\ i \in Batches!Jobs
        /\ Batches!LoadSession(p, i) # None /\ Batches!LoadSession(p, i).st = "imported"
    BY <1>1 DEF Batches!Seen, Batches!Visible
  <2> QED BY <2>1, SessionLoaded
<1>3. pool \subseteq Batches!Jobs
  BY DEF BatchInv, BatchTypes
<1>4. Batches!Judged(p) \in {"done", "partial"}
      => \/ Batches!Judged(p) = stored
         \/ Batches!Judged(p) = "done" /\ imported = Batches!Jobs
         \/ Batches!Judged(p) = "partial" /\ imported # {}
  BY DEF Batches!Judged
<1> QED BY <1>1, <1>2, <1>3, <1>4

LEMMA DoneFromInv ==
    ASSUME Batches!BatchAssumption, BatchInv
    PROVE  Batches!DoneMeansImported
<1> USE CopyFacts
<1>1. \A c \in Batches!Copies : batch[c] # None =>
          /\ batch[c].st = "done" => raised \/ pool = Batches!Jobs
          /\ batch[c].st = "partial" => pool # {}
  BY DEF BatchInv, BatchesFit, Fits
<1>2. ASSUME NEW p \in Batches!Processes
      PROVE  /\ Batches!Shown(p, TRUE) = "done" => raised \/ pool = Batches!Jobs
             /\ Batches!Shown(p, TRUE) = "partial" => pool # {}
  <2>1. Batches!Shown(p, TRUE) = Batches!Judged(p) \/ Batches!Shown(p,
        TRUE) = Batches!LoadBatch(p).st
    BY DEF Batches!Shown
  <2>2. /\ Batches!LoadBatch(p).st = "done" => raised \/ pool = Batches!Jobs
        /\ Batches!LoadBatch(p).st = "partial" => pool # {}
    BY LoadFacts
  <2> QED BY <2>1, <2>2, JudgedFacts
<1> QED BY <1>1, <1>2 DEF Batches!DoneMeansImported

(* Whatever calls the batch done or partial, a copy, an old one, or a poll   *)
(* of any process, the pool has the accounts for it (_run_batch,             *)
(* get_registration_batch).                                                  *)
THEOREM BatchDone ==
    ASSUME Batches!BatchAssumption
    PROVE  Batches!Init /\ [][Batches!Next]_Batches!vars => []Batches!DoneMeansImported
<1>1. BatchInv => Batches!DoneMeansImported
  BY DoneFromInv
<1> QED BY <1>1, BatchInit, BatchStep, PTL

LEMMA StopStep ==
    ASSUME Batches!BatchAssumption, BatchInv, Batches!Next, stop[Home] = "done"
    PROVE  JobsRest
<1>1. CASE Batches!RunnerStep \/ Batches!Timeout \/ Batches!BeatCheck \/ Batches!Beat
      \/ Batches!Crash \/ Batches!Lapse
  BY <1>1, RunnerFacts
<1>2. ASSUME NEW i \in Batches!Jobs, Batches!Job(i)
      PROVE  JobsRest
  <2>1. ~Batches!Show(i)
    BY DEF Batches!Show, Batches!Cancelled, BatchInv, Stopped
  <2> QED BY <1>2, <2>1, JobStep DEF JobFacts
<1>3. ASSUME NEW p \in Batches!Processes, Batches!Stop(p) \/ Batches!List(p) \/ Batches!Poll(p)
      PROVE  JobsRest
  BY <1>3, StopFacts
<1>4. ASSUME NEW i \in Batches!Jobs,
             Batches!Expire(i) \/ \E p \in Batches!Processes : Batches!Clean(p, i)
      PROVE  JobsRest
  BY <1>4, DropFacts
<1> QED BY <1>1, <1>2, <1>3, <1>4 DEF Batches!Next

(* A stop that has returned in the process of the runner is not forgotten:   *)
(* no job enters a further stage (stop_registration_batch,                   *)
(* list_registration_sessions, _refresh_cancel_from_redis), though it may    *)
(* still make the calls of its stage that no check precedes.                 *)
THEOREM BatchStops ==
    ASSUME Batches!BatchAssumption
    PROVE  Batches!Init /\ [][Batches!Next]_Batches!vars => Batches!StopHolds
<1> DEFINE Holds ==
        stop[Home] = "done" => \A i \in Batches!Jobs : jobPc'[i][1] \in Batches!Calls
          => jobPc[i][1] \in Batches!Calls /\ jobPc'[i][2] = jobPc[i][2]
<1>1. BatchInv /\ [Batches!Next]_Batches!vars => [Holds]_Batches!vars
  <2> SUFFICES ASSUME BatchInv, Batches!Next, stop[Home] = "done" PROVE Holds
    OBVIOUS
  <2> QED BY StopStep DEF JobsRest
<1> QED BY <1>1, BatchInit, BatchStep, PTL DEF Batches!StopHolds

-----------------------------------------------------------------------------
(* The loop                                                                  *)

(* What of the last batch the loop still has to rest after: it follows it or *)
(* has begun to rest.                                                        *)
Remembers(s) == s.cur \/ (s.rest /\ loopBatch # "running")

Rests ==
    ~lost =>
        /\ loopPc \notin {"down", "boot"} => local = saved
        /\ owed /\ loopPc # "publish" => Remembers(saved)
        /\ loopPc = "publish" => loopBatch # "none"
        /\ owed /\ loopPc \in {"settle", "count", "start"} => loopBatch # "running"
        /\ owed /\ loopPc = "count" => saved.rest
        /\ loopPc = "start" => ~owed

LoopInv == Loop!TypeOK /\ Rests

LEMMA LoopInit == Loop!MaintainerAssumption /\ Loop!Init => LoopInv
<1> SUFFICES ASSUME Loop!MaintainerAssumption, Loop!Init PROVE LoopInv
  OBVIOUS
<1>1. Loop!Fresh \in Loop!State
  BY DEF Loop!Fresh, Loop!State
<1>2. Loop!TypeOK
  <2>1. stable \in 0 .. Promote /\ events \in 0 .. LoopEvents /\ allowed \in 1 .. 2
    BY DEF Loop!MaintainerAssumption, Loop!Init
  <2> QED BY <1>1, <2>1 DEF Loop!Init, Loop!TypeOK
<1> QED BY <1>2 DEF Loop!Init, LoopInv, Rests

LEMMA EventType ==
    ASSUME Loop!MaintainerAssumption, Loop!TypeOK, Loop!Event \/ UNCHANGED events
    PROVE  events' \in 0 .. LoopEvents
BY DEF Loop!MaintainerAssumption, Loop!TypeOK, Loop!Event

LEMMA PublishType ==
    ASSUME Loop!MaintainerAssumption, Loop!TypeOK, NEW s \in Loop!State, Loop!Publish(s)
    PROVE  /\ local' = s /\ saved' \in Loop!State /\ events' \in 0 .. LoopEvents
              /\ lost' \in BOOLEAN
           /\ ~lost' => ~lost /\ saved' = s
<1>1. events' \in 0 .. LoopEvents
  BY EventType DEF Loop!Publish
<1>2. CASE saved' = s /\ UNCHANGED <<events, lost>>
  BY <1>1, <1>2 DEF Loop!Publish, Loop!TypeOK
<1>3. CASE Loop!Event /\ lost' = TRUE /\ UNCHANGED saved
  BY <1>1, <1>3 DEF Loop!Publish, Loop!TypeOK
<1> QED BY <1>2, <1>3 DEF Loop!Publish

LEMMA StateType == 
    ASSUME NEW s \in Loop!State, NEW c \in BOOLEAN, NEW r \in BOOLEAN
    PROVE  /\ [cur |-> c, rest |-> r] \in Loop!State
           /\ [s EXCEPT !.cur = c] = [cur |-> c, rest |-> s.rest]
           /\ [s EXCEPT !.rest = r] = [cur |-> s.cur, rest |-> r]
           /\ s.cur \in BOOLEAN /\ s.rest \in BOOLEAN
BY DEF Loop!State

LEMMA LoopTypes ==
    ASSUME Loop!MaintainerAssumption, Loop!TypeOK, [Loop!Next]_Loop!vars
    PROVE  Loop!TypeOK'
<1>1. CASE UNCHANGED Loop!vars
  BY <1>1 DEF Loop!vars, Loop!ctl, Loop!TypeOK
<1>2. CASE Loop!Start
  <2>1. stable' \in 0 .. Promote /\ ~loopRunner
    BY <1>2 DEF Loop!Start, Loop!TypeOK, Loop!MaintainerAssumption
  <2>2. allowed' \in 1 .. 2 /\ ~loopRunner' /\ loopRunner' \in BOOLEAN
    BY <1>2, <2>1 DEF Loop!Start, Loop!TypeOK
  <2> QED BY <1>2, <2>1, <2>2 DEF Loop!Start, Loop!TypeOK
<1>3. CASE Loop!Boot
  <2>1. local' \in Loop!State /\ saved' \in Loop!State /\ events' \in 0 .. LoopEvents
        /\ lost' \in BOOLEAN
    <3>1. CASE Loop!Publish(saved)
      BY <3>1, PublishType DEF Loop!TypeOK
    <3>2. CASE local' = Loop!Fresh /\ saved' = Loop!Fresh /\ Loop!Event /\ lost' = TRUE
      BY <3>2, EventType DEF Loop!Fresh, Loop!State
    <3> QED BY <1>3, <3>1, <3>2 DEF Loop!Boot
  <2> QED BY <1>3, <2>1 DEF Loop!Boot, Loop!TypeOK, Loop!ctl
<1>4. CASE Loop!Follow
  <2> DEFINE s == [local EXCEPT !.cur = TRUE]
  <2>1. s \in Loop!State
    BY DEF Loop!TypeOK, Loop!State
  <2>2. Loop!Publish(s)
    BY <1>4 DEF Loop!Follow
  <2> HIDE DEF s
  <2> QED BY <1>4, <2>1, <2>2, PublishType DEF Loop!Follow, Loop!TypeOK, Loop!ctl
<1>5. CASE Loop!NoneActive
  BY <1>5 DEF Loop!NoneActive, Loop!TypeOK, Loop!ctl
<1>6. CASE Loop!Settle
  <2> DEFINE s == [cur |-> FALSE, rest |-> TRUE]
  <2>1. s \in Loop!State
    BY DEF Loop!State
  <2>2. Loop!Publish(s) \/ UNCHANGED <<local, saved, events, lost>>
    BY <1>6 DEF Loop!Settle
  <2> HIDE DEF s
  <2>3. local' \in Loop!State /\ saved' \in Loop!State /\ events' \in 0 .. LoopEvents
        /\ lost' \in BOOLEAN
    BY <2>1, <2>2, PublishType DEF Loop!TypeOK
  <2> QED BY <1>6, <2>3 DEF Loop!Settle, Loop!TypeOK, Loop!ctl
<1>7. CASE Loop!Count
  BY <1>7 DEF Loop!Count, Loop!TypeOK, Loop!ctl
<1>8. CASE Loop!StartBatch
  BY <1>8 DEF Loop!StartBatch, Loop!TypeOK, Loop!ctl
<1>9. CASE Loop!StartFails
  <2> DEFINE s == [local EXCEPT !.rest = TRUE]
  <2>1. s \in Loop!State
    BY DEF Loop!TypeOK, Loop!State
  <2>2. Loop!Publish(s)
    BY <1>9 DEF Loop!StartFails
  <2> HIDE DEF s
  <2> QED BY <1>9, <2>1, <2>2, PublishType DEF Loop!StartFails, Loop!TypeOK, Loop!ctl
<1>10. CASE Loop!Announce
  <2> DEFINE s == [cur |-> TRUE, rest |-> FALSE]
  <2>1. s \in Loop!State
    BY DEF Loop!State
  <2>2. Loop!Publish(s)
    BY <1>10 DEF Loop!Announce
  <2> HIDE DEF s
  <2> QED BY <1>10, <2>1, <2>2, PublishType DEF Loop!Announce, Loop!TypeOK, Loop!ctl
<1>11. CASE Loop!BatchEnds \/ Loop!Lapse
  <2>1. CASE Loop!BatchEnds
    BY <2>1 DEF Loop!BatchEnds, Loop!TypeOK, Loop!ctl
  <2>2. CASE Loop!Lapse
    BY <2>2 DEF Loop!Lapse, Loop!TypeOK, Loop!ctl
  <2> QED BY <1>11, <2>1, <2>2
<1>12. CASE Loop!RestPasses
  <2>1. local' \in Loop!State /\ saved' \in Loop!State
    BY <1>12 DEF Loop!RestPasses, Loop!TypeOK, Loop!State
  <2>2. owed' \in BOOLEAN
    BY <1>12 DEF Loop!RestPasses, Loop!TypeOK
  <2> QED BY <1>12, <2>1, <2>2 DEF Loop!RestPasses, Loop!TypeOK, Loop!ctl
<1>13. CASE Loop!SlotSucceeds
  BY <1>13 DEF Loop!SlotSucceeds, Loop!TypeOK
<1>14. CASE Loop!Safe
  BY <1>14 DEF Loop!Safe, Loop!TypeOK, Loop!MaintainerAssumption
<1>15. CASE Loop!Exit
  <2>1. lost' \in BOOLEAN
    BY <1>15 DEF Loop!Exit, Loop!TypeOK
  <2>2. events' \in 0 .. LoopEvents /\ local' \in Loop!State
    BY <1>15, EventType DEF Loop!Exit, Loop!Fresh, Loop!State
  <2> QED BY <1>15, <2>1, <2>2 DEF Loop!Exit, Loop!TypeOK, Loop!ctl
<1> QED BY <1>1, <1>2, <1>3, <1>4, <1>5, <1>6, <1>7, <1>8, <1>9, <1>10, <1>11, <1>12, <1>13,
           <1>14, <1>15 DEF Loop!Next

LEMMA LoopStep ==
    ASSUME Loop!MaintainerAssumption, LoopInv, [Loop!Next]_Loop!vars
    PROVE  LoopInv'
<1> SUFFICES ASSUME ~lost' PROVE Rests'
  BY LoopTypes DEF LoopInv, Rests
<1> USE DEF LoopInv, Rests
<1>1. CASE UNCHANGED Loop!vars
  BY <1>1 DEF Loop!vars, Loop!ctl, Remembers
<1>2. CASE Loop!Start
  BY <1>2 DEF Loop!Start, Remembers
<1>3. CASE Loop!Boot
  <2>1. local' = saved /\ saved' = saved /\ ~lost
    BY <1>3, PublishType DEF Loop!Boot, Loop!TypeOK
  <2> QED BY <1>3, <2>1 DEF Loop!Boot, Remembers
<1>4. CASE Loop!Follow
  <2> DEFINE s == [local EXCEPT !.cur = TRUE]
  <2>1. s \in Loop!State /\ s.cur
    BY DEF Loop!TypeOK, Loop!State
  <2>2. Loop!Publish(s)
    BY <1>4 DEF Loop!Follow
  <2> HIDE DEF s
  <2> QED BY <1>4, <2>1, <2>2, PublishType DEF Loop!Follow, Remembers
<1>5. CASE Loop!NoneActive
  BY <1>5 DEF Loop!NoneActive, Remembers
<1>6. CASE Loop!Settle
  <2> DEFINE s == [cur |-> FALSE, rest |-> TRUE]
  <2>1. s \in Loop!State /\ s.rest
    BY DEF Loop!State
  <2>2. (local.cur /\ Loop!Publish(s)) \/ (~local.cur /\ UNCHANGED <<local, saved, events, lost>>)
    BY <1>6 DEF Loop!Settle
  <2> HIDE DEF s
  <2>3. CASE local.cur
    BY <1>6, <2>1, <2>2, <2>3, PublishType DEF Loop!Settle, Remembers
  <2>4. CASE ~local.cur
    BY <1>6, <2>2, <2>4 DEF Loop!Settle, Remembers
  <2> QED BY <2>3, <2>4
<1>7. CASE Loop!Count
  BY <1>7 DEF Loop!Count, Remembers
<1>8. CASE Loop!StartBatch
  BY <1>8 DEF Loop!StartBatch, Remembers
<1>9. CASE Loop!StartFails
  <2> DEFINE s == [local EXCEPT !.rest = TRUE]
  <2>1. s \in Loop!State
    BY DEF Loop!TypeOK, Loop!State
  <2>2. Loop!Publish(s)
    BY <1>9 DEF Loop!StartFails
  <2> HIDE DEF s
  <2> QED BY <1>9, <2>1, <2>2, PublishType DEF Loop!StartFails, Remembers
<1>10. CASE Loop!Announce
  <2> DEFINE s == [cur |-> TRUE, rest |-> FALSE]
  <2>1. s \in Loop!State /\ s.cur
    BY DEF Loop!State
  <2>2. Loop!Publish(s)
    BY <1>10 DEF Loop!Announce
  <2> HIDE DEF s
  <2> QED BY <1>10, <2>1, <2>2, PublishType DEF Loop!Announce, Remembers
<1>11. CASE Loop!BatchEnds \/ Loop!Lapse
  BY <1>11 DEF Loop!BatchEnds, Loop!Lapse, Remembers
<1>12. CASE Loop!RestPasses
  <2>1. saved'.cur = saved.cur /\ local'.cur = local.cur
    BY <1>12 DEF Loop!RestPasses, Loop!TypeOK, Loop!State
  <2>2. ~lost /\ (local = saved => local' = saved')
    BY <1>12 DEF Loop!RestPasses
  <2>3. owed' => owed /\ loopBatch = "running"
    BY <1>12 DEF Loop!RestPasses
  <2>4. UNCHANGED <<loopPc, loopBatch>>
    BY <1>12 DEF Loop!RestPasses
  <2> QED BY <2>1, <2>2, <2>3, <2>4 DEF Remembers
<1>13. CASE Loop!SlotSucceeds \/ Loop!Safe
  BY <1>13 DEF Loop!SlotSucceeds, Loop!Safe, Remembers
<1>15. CASE Loop!Exit
  <2>1. ~lost /\ loopPc # "publish"
    BY <1>15 DEF Loop!Exit
  <2> QED BY <1>15, <2>1 DEF Loop!Exit, Remembers
<1> QED BY <1>1, <1>2, <1>3, <1>4, <1>5, <1>6, <1>7, <1>8, <1>9, <1>10, <1>11, <1>12, <1>13,
           <1>15 DEF Loop!Next

(* The types.                                                                *)
THEOREM LoopTyped ==
    ASSUME Loop!MaintainerAssumption
    PROVE  Loop!Init /\ [][Loop!Next]_Loop!vars => []Loop!TypeOK
<1>1. LoopInv => Loop!TypeOK
  BY DEF LoopInv
<1> QED BY <1>1, LoopInit, LoopStep, PTL

(* A batch is not started before a rest has passed since the last one.       *)
THEOREM LoopRests ==
    ASSUME Loop!MaintainerAssumption
    PROVE  Loop!Init /\ [][Loop!Next]_Loop!vars => Loop!RestsBetween
<1> DEFINE Rested == loopBatch # "running" /\ loopBatch' = "running" => ~owed \/ lost
<1>1. LoopInv /\ [Loop!Next]_Loop!vars => [Rested]_Loop!vars
  <2> SUFFICES ASSUME LoopInv, Loop!Next, loopBatch # "running", loopBatch' = "running"
      PROVE ~owed \/ lost
    BY DEF Loop!vars
  <2>1. Loop!StartBatch
    BY DEF Loop!Next, Loop!Start, Loop!Boot, Loop!Follow, Loop!NoneActive, Loop!Settle,
        Loop!Count, Loop!StartFails, Loop!Announce, Loop!BatchEnds,
           Loop!Lapse, Loop!RestPasses, Loop!SlotSucceeds, Loop!Safe, Loop!Exit
  <2> QED BY <2>1 DEF Loop!StartBatch, LoopInv, Rests
<1> QED BY <1>1, LoopInit, LoopStep, PTL DEF Loop!RestsBetween

-----------------------------------------------------------------------------
(* The composition: each component does what its own module says, whatever   *)
(* the others do beside it.                                                  *)
LEMMA Runs ==
    AccountsSpec => /\ Spec
                    /\ Caches!Init /\ [][Caches!Next]_Caches!vars
                    /\ Batches!Init /\ [][Batches!Next]_Batches!vars
                    /\ Loop!Init /\ [][Loop!Next]_Loop!vars
<1>1. AccountsInit => Init /\ Caches!Init /\ Batches!Init /\ Loop!Init
  BY DEF AccountsInit
<1> DEFINE Any == [CredentialNext \/ CachesNext \/ BatchNext \/ LoopNext]_accountsVars
<1> USE DEF CredentialNext, CachesNext, BatchNext, LoopNext, accountsVars
<1>2. Any => [Next]_vars
  OBVIOUS
<1>3. Any => [Caches!Next]_Caches!vars
  BY DEF cacheVars, Caches!vars
<1>4. Any => [Batches!Next]_Batches!vars
  BY DEF batchVars, Batches!vars, Batches!jobVars, Batches!stopVars
<1>5. Any => [Loop!Next]_Loop!vars
  BY DEF loopVars, Loop!vars, Loop!ctl
<1> QED BY <1>1, <1>2, <1>3, <1>4, <1>5, PTL DEF AccountsSpec, Spec

(* The types of the four components; a generation of the cache is a commit   *)
(* of its process, and no more jobs are in flight than there are workers.    *)
THEOREM AccountsTypes == AccountsSpec => []TypesOK
<1>1. Caches!CacheAssumption /\ Batches!BatchAssumption /\ Loop!MaintainerAssumption
  BY AccountsAssumption
<1>2. Caches!Init /\ [][Caches!Next]_Caches!vars => []Caches!TypeOK
  BY <1>1, CachesTyped
<1>3. Batches!Init /\ [][Batches!Next]_Batches!vars => []Batches!TypeOK
  BY <1>1, BatchTyped
<1>4. Loop!Init /\ [][Loop!Next]_Loop!vars => []Loop!TypeOK
  BY <1>1, LoopTyped
<1> QED BY <1>2, <1>3, <1>4, Runs, TypeCorrect, PTL DEF TypesOK

(* A snapshot of the live credentials that says it is fresh holds every      *)
(* commit of its process whose write has returned                            *)
(* (_store_live_credentials_snapshot, invalidate_live_credentials_cache).    *)
THEOREM FreshIsOwn == AccountsSpec => []FreshHoldsOwnWrites
<1>1. Caches!Init /\ [][Caches!Next]_Caches!vars => []Caches!FreshHoldsOwnWrites
  BY FreshIsRecent, AccountsAssumption
<1> QED BY <1>1, Runs, PTL DEF FreshHoldsOwnWrites

(* A batch that any copy or any process calls done, whatever sessions have   *)
(* been dropped, has put an account of every job into the pool unless the    *)
(* loop of its runner raised, a partial one some (_run_batch, _batch_stats). *)
THEOREM DoneIsImported == AccountsSpec => []DoneMeansImported
<1>1. Batches!Init /\ [][Batches!Next]_Batches!vars => []Batches!DoneMeansImported
  BY BatchDone, AccountsAssumption
<1> QED BY <1>1, Runs, PTL DEF DoneMeansImported

(* After a stop has returned in the process of the runner no job enters a    *)
(* further stage (stop_registration_batch, _check_cancel), whatever copies   *)
(* are mirrored and merged.                                                  *)
THEOREM StopIsKept == AccountsSpec => StopHolds
<1>1. Batches!Init /\ [][Batches!Next]_Batches!vars => Batches!StopHolds
  BY BatchStops, AccountsAssumption
<1>2. Batches!StopHolds => StopHolds
  BY DEF StopHolds
<1> QED BY <1>1, <1>2, Runs, PTL

(* While its state reaches Redis the loop starts no batch before it has      *)
(* rested from the last one, kills included (registration_maintainer.py).    *)
THEOREM LoopRestsBetween == AccountsSpec => RestsBetween
<1>1. Loop!Init /\ [][Loop!Next]_Loop!vars => Loop!RestsBetween
  BY LoopRests, AccountsAssumption
<1>2. Loop!RestsBetween => RestsBetween
  BY DEF RestsBetween
<1> QED BY <1>1, <1>2, Runs, PTL
=============================================================================
