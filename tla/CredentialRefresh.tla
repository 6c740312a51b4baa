------------------------- MODULE CredentialRefresh -------------------------
(* One account's credential under everything that reads or writes it:        *)
(* refreshes by requests (auth.py, oidc_auth.py), the batch refresh of the   *)
(* maintainer, logins, and the operations that rewrite the whole account map *)
(* (accounts.py), over the table of store/accounts_pg.py and the map cache   *)
(* of each process.                                                          *)
(*                                                                           *)
(* A refresh token is a number; the provider rotates it: an exchange ends    *)
(* the token it is given and issues the next number.  Expiry of the access   *)
(* token only decides whether a refresh is attempted, so a task may attempt  *)
(* one at any time.                                                          *)
EXTENDS Integers

CONSTANTS
    Tasks,          \* threads that work on the account, each again and again
    Process,        \* Process[t]: the process t runs in
    Kind,           \* Kind[t]: "request", "sweep" or "admin"
    NoRow,          \* the account is not in the table
    NoCache,        \* the cached map of a process is absent or too old
    None,
    MaxToken        \* bound: tokens the provider issues

Processes == {Process[t] : t \in Tasks}
Kinds == {"request", "sweep", "admin"}
Tokens == 0..MaxToken
Entry == [rt : Tokens, bad : BOOLEAN]

ASSUME CredentialAssumption ==
    /\ Process \in [Tasks -> Processes]
    /\ Kind \in [Tasks -> Kinds]
    /\ MaxToken \in Nat
    /\ NoRow \notin Entry /\ NoCache \notin Entry \cup {NoRow} /\ None \notin Tasks

VARIABLES
    row,        \* the account's row: refresh_token and refresh_invalid
    cache,      \* cache[p]: the account in _auth_map_cache of process p
    lock,       \* lock[p]: who holds the account's refresh lock in process p
    pc,
    copy,       \* copy[t]: the entry t last read
    result,     \* result[t]: the token an exchange returned to t
    accepted,   \* the tokens the provider accepts
    issued,     \* the last token issued
    spender     \* ghost: who exchanged a token, and had its answer

vars == <<row, cache, lock, pc, copy, result, accepted, issued, spender>>

(* enter: about to take the lock; post: holds it and has read the entry to   *)
(* present; got: holds it and has the new token; batch: has the new token    *)
(* for the write at the end of the sweep; clear: has committed and will drop *)
(* the cached map; again: the exchange failed; revoked: it was refused;      *)
(* doomed: has found the account to be removed; write: has read the whole    *)
(* map and will write it.                                                    *)
Places == {"idle", "enter", "post", "got", "batch", "clear", "again", "revoked", "doomed",
           "write"}

TypeOK ==
    /\ row \in Entry \cup {NoRow}
    /\ cache \in [Processes -> Entry \cup {NoRow, NoCache}]
    /\ lock \in [Processes -> Tasks \cup {None}]
    /\ pc \in [Tasks -> Places]
    /\ copy \in [Tasks -> Entry \cup {NoRow}]
    /\ result \in [Tasks -> Tokens]
    /\ accepted \in SUBSET Tokens
    /\ issued \in Tokens
    /\ spender \in [Tokens -> Tasks \cup {None}]

Init ==
    /\ row = [rt |-> 0, bad |-> FALSE]
    /\ cache = [p \in Processes |-> NoCache]
    /\ lock = [p \in Processes |-> None]
    /\ pc = [t \in Tasks |-> "idle"]
    /\ copy = [t \in Tasks |-> NoRow]
    /\ result = [t \in Tasks |-> 0]
    /\ accepted = {0}
    /\ issued = 0
    /\ spender = [k \in Tokens |-> None]

Goto(t, place) == pc' = [pc EXCEPT ![t] = place]
Finish(t) ==
    /\ Goto(t, "idle")
    /\ copy' = [copy EXCEPT ![t] = NoRow]
Unlock(t) ==
    lock' = [p \in Processes |-> IF lock[p] = t THEN None ELSE lock[p]]

(* read_auth_map: the cached map while it is young, else the table, which    *)
(* becomes the cached map.                                                   *)
ReadMap(p) == IF cache[p] = NoCache THEN row ELSE cache[p]
FillCache(p) == cache' = [cache EXCEPT ![p] = ReadMap(p)]

-----------------------------------------------------------------------------
(* load_credentials_by_id and ensure_fresh_entry.  An account that is not    *)
(* found is an AuthError.  read_auth_entry does not fill the cache.          *)
ReadEntry(t) ==
    /\ Kind[t] = "request" /\ pc[t] = "idle"
    /\ ReadMap(Process[t]) # NoRow
    /\ copy' = [copy EXCEPT ![t] = ReadMap(Process[t])]
    /\ Goto(t, "enter")
    /\ UNCHANGED <<row, cache, lock, result, accepted, issued, spender>>

(* refresh_all_accounts: a candidate has a refresh token that is not marked. *)
Select(t) ==
    /\ Kind[t] = "sweep" /\ pc[t] = "idle"
    /\ FillCache(Process[t])
    /\ LET e == ReadMap(Process[t])
       IN /\ e # NoRow /\ ~e.bad
          /\ copy' = [copy EXCEPT ![t] = e]
    /\ Goto(t, "enter")
    /\ UNCHANGED <<row, lock, result, accepted, issued, spender>>

(* refresh_and_persist: take the account's lock and read the entry again; an *)
(* account that is gone is refreshed from the entry the caller has.          *)
(* Mutant: the entry is not read again.                                      *)
EnterStale(t) ==
    /\ pc[t] = "enter" /\ lock[Process[t]] = None
    /\ lock' = [lock EXCEPT ![Process[t]] = t]
    /\ Goto(t, "post")
    /\ UNCHANGED <<row, cache, copy, result, accepted, issued, spender>>

Enter(t) ==
    /\ pc[t] = "enter" /\ lock[Process[t]] = None
    /\ lock' = [lock EXCEPT ![Process[t]] = t]
    /\ FillCache(Process[t])
    /\ LET latest == ReadMap(Process[t])
       IN copy' = [copy EXCEPT ![t] = IF latest = NoRow THEN @ ELSE latest]
    /\ Goto(t, "post")
    /\ UNCHANGED <<row, result, accepted, issued, spender>>

(* refresh_access_token does not present a token that is marked.             *)
RefuseMarked(t) ==
    /\ pc[t] = "post" /\ copy[t].bad
    /\ Unlock(t)
    /\ Goto(t, "revoked")
    /\ UNCHANGED <<row, cache, copy, result, accepted, issued, spender>>

Present(t) == pc[t] = "post" /\ ~copy[t].bad

Rotate(t) ==
    /\ copy[t].rt \in accepted /\ issued < MaxToken
    /\ issued' = issued + 1
    /\ accepted' = (accepted \ {copy[t].rt}) \cup {issued + 1}

(* The answer carries the new token, which entry_from_token_response prefers *)
(* to the previous one.  A sweep (persist=False) leaves the lock with it.    *)
(* Mutant: the previous token is preferred.                                  *)
ExchangeKeepsOld(t) ==
    /\ Present(t) /\ Rotate(t)
    /\ result' = [result EXCEPT ![t] = copy[t].rt]
    /\ spender' = [spender EXCEPT ![copy[t].rt] = t]
    /\ IF Kind[t] = "sweep"
       THEN Unlock(t) /\ Goto(t, "batch")
       ELSE UNCHANGED lock /\ Goto(t, "got")
    /\ UNCHANGED <<row, cache, copy>>

Exchange(t) ==
    /\ Present(t) /\ Rotate(t)
    /\ result' = [result EXCEPT ![t] = issued + 1]
    /\ spender' = [spender EXCEPT ![copy[t].rt] = t]
    /\ IF Kind[t] = "sweep"
       THEN Unlock(t) /\ Goto(t, "batch")
       ELSE UNCHANGED lock /\ Goto(t, "got")
    /\ UNCHANGED <<row, cache, copy>>

(* A time-out or a server error; the provider may have rotated the token.    *)
ExchangeFails(t) ==
    /\ Present(t)
    /\ Rotate(t) \/ UNCHANGED <<accepted, issued>>
    /\ Unlock(t)
    /\ Goto(t, "again")
    /\ UNCHANGED <<row, cache, copy, result, spender>>

(* invalid_grant                                                             *)
ExchangeRefused(t) ==
    /\ Present(t) /\ copy[t].rt \notin accepted
    /\ Unlock(t)
    /\ Goto(t, "revoked")
    /\ UNCHANGED <<row, cache, copy, result, accepted, issued, spender>>

(* upsert_account_merged: the row is written whole, and created if it is not *)
(* there.  At the end of a sweep, _apply writes it under mutate_auth_map.    *)
Persist(t) ==
    /\ pc[t] \in {"got", "batch"}
    /\ row' = [rt |-> result[t], bad |-> FALSE]
    /\ result' = [result EXCEPT ![t] = 0]
    /\ Goto(t, "clear")
    /\ UNCHANGED <<cache, lock, copy, accepted, issued, spender>>

(* invalidate_auth_map_cache, after the commit; the lock is left after it.   *)
Clear(t) ==
    /\ pc[t] = "clear"
    /\ cache' = [cache EXCEPT ![Process[t]] = NoCache]
    /\ Unlock(t)
    /\ Finish(t)
    /\ UNCHANGED <<row, result, accepted, issued, spender>>

(* After a failure that is not final a request goes on with the token it     *)
(* has, or, when that is expired, tries once more; a sweep gives up.         *)
Retry(t) ==
    /\ pc[t] = "again" /\ Kind[t] = "request"
    /\ Goto(t, "enter")
    /\ UNCHANGED <<row, cache, lock, copy, result, accepted, issued, spender>>

GiveUp(t) ==
    /\ pc[t] = "again"
    /\ Finish(t)
    /\ UNCHANGED <<row, cache, lock, result, accepted, issued, spender>>

(* mark_refresh_invalid: whatever the row holds now is marked.               *)
Mark(t) ==
    /\ pc[t] = "revoked"
    /\ row' = IF row = NoRow THEN NoRow ELSE [row EXCEPT !.bad = TRUE]
    /\ Goto(t, "clear")
    /\ UNCHANGED <<cache, lock, copy, result, accepted, issued, spender>>

(* purge_refresh_invalid_accounts, told to delete, after a sweep: an account *)
(* that the map shows as marked is removed, whatever it holds by then.       *)
Purge(t) ==
    /\ Kind[t] = "sweep" /\ pc[t] = "idle"
    /\ FillCache(Process[t])
    /\ ReadMap(Process[t]) # NoRow /\ ReadMap(Process[t]).bad
    /\ Goto(t, "doomed")
    /\ UNCHANGED <<row, lock, copy, result, accepted, issued, spender>>

(* remove_accounts reads the map again, and writes it without the account.   *)
Remove(t) ==
    /\ pc[t] = "doomed"
    /\ FillCache(Process[t])
    /\ Goto(t, IF ReadMap(Process[t]) = NoRow THEN "idle" ELSE "write")
    /\ UNCHANGED <<row, lock, copy, result, accepted, issued, spender>>

-----------------------------------------------------------------------------
(* A device login or a registration stores a new login by an upsert.         *)
Login(t) ==
    /\ Kind[t] = "admin" /\ pc[t] = "idle"
    /\ issued < MaxToken
    /\ issued' = issued + 1
    /\ accepted' = accepted \cup {issued + 1}
    /\ result' = [result EXCEPT ![t] = issued + 1]
    /\ Goto(t, "batch")
    /\ UNCHANGED <<row, cache, lock, copy, spender>>

(* remove_account(s), merge_normalized_accounts, normalize_auth_file_keys:   *)
(* read the map, change it, and make the table equal to it.                  *)
ReadAll(t) ==
    /\ Kind[t] = "admin" /\ pc[t] = "idle"
    /\ FillCache(Process[t])
    /\ copy' = [copy EXCEPT ![t] = ReadMap(Process[t])]
    /\ Goto(t, "write")
    /\ UNCHANGED <<row, lock, result, accepted, issued, spender>>

(* The account itself was removed, or the change was to another one.         *)
WriteAll(t) ==
    /\ pc[t] = "write"
    /\ row' \in {copy[t], NoRow}
    /\ spender' = [k \in Tokens |-> None]
    /\ Goto(t, "clear")
    /\ UNCHANGED <<cache, lock, copy, result, accepted, issued>>

(* Two seconds pass.                                                         *)
Expire(p) ==
    /\ cache[p] # NoCache
    /\ cache' = [cache EXCEPT ![p] = NoCache]
    /\ UNCHANGED <<row, lock, pc, copy, result, accepted, issued, spender>>

(* A worker process is restarted; the tokens its tasks held are lost.        *)
Crash(p) ==
    /\ cache' = [cache EXCEPT ![p] = NoCache]
    /\ lock' = [lock EXCEPT ![p] = None]
    /\ pc' = [t \in Tasks |-> IF Process[t] = p THEN "idle" ELSE pc[t]]
    /\ copy' = [t \in Tasks |-> IF Process[t] = p THEN NoRow ELSE copy[t]]
    /\ result' = [t \in Tasks |-> IF Process[t] = p THEN 0 ELSE result[t]]
    /\ spender' = [k \in Tokens |->
                    IF spender[k] # None /\ Process[spender[k]] = p
                    THEN None ELSE spender[k]]
    /\ UNCHANGED <<row, accepted, issued>>

Step(t) ==
    \/ ReadEntry(t) \/ Select(t) \/ Enter(t) \/ RefuseMarked(t)
    \/ Exchange(t) \/ ExchangeFails(t) \/ ExchangeRefused(t)
    \/ Persist(t) \/ Clear(t) \/ Retry(t) \/ GiveUp(t) \/ Mark(t)
    \/ Purge(t) \/ Remove(t) \/ Login(t) \/ ReadAll(t) \/ WriteAll(t)

Next == (\E t \in Tasks : Step(t)) \/ (\E p \in Processes : Expire(p) \/ Crash(p))

Spec == Init /\ [][Next]_vars

-----------------------------------------------------------------------------
(* A refresh that is over leaves a token the provider accepts in the row:    *)
(* however late its write comes, nobody can have spent the token before.     *)
RefreshWritesLive ==
    [][\A t \in Tasks : pc[t] \in {"got", "batch"} /\ pc'[t] = "clear"
            => row'.rt \in accepted']_vars

(* Within a process the lock, the second read and the invalidation keep one  *)
(* token from being presented twice, unless its first use was part of a      *)
(* sweep, its answer was lost, or the map was rewritten meanwhile.           *)
SpendsOnce ==
    \A t \in Tasks : Present(t) =>
        LET s == spender[copy[t].rt]
        IN s # None => Process[s] # Process[t] \/ Kind[s] = "sweep"

(* What the comment at the lock claims: two threads of a process do not race *)
(* with one refresh token.  The batch refresh stores its tokens at the end,  *)
(* long after it left the lock, and breaks it.                               *)
LockSerializes ==
    \A t \in Tasks : Present(t) =>
        LET s == spender[copy[t].rt]
        IN s # None => Process[s] # Process[t]
=============================================================================
