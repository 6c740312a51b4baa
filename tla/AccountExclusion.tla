--------------------------- MODULE AccountExclusion ---------------------------
(* What the account leases promise to the request path: while a request      *)
(* serves on an account it reserved, no other request has that account       *)
(* reserved, whatever worker process either of them runs in.                 *)
(* AccountLeases implements it with expiring Redis keys.                     *)
-----------------------------------------------------------------------------
CONSTANTS Requests, Accounts

VARIABLE users      \* users[a]: the requests serving on a reserved account a

TypeOK == users \in [Accounts -> SUBSET Requests]

Init == users = [a \in Accounts |-> {}]

(* A request reserves an account nobody uses.                                *)
Reserve(r, a) ==
    /\ users[a] = {}
    /\ users' = [users EXCEPT ![a] = {r}]

(* Any set of requests gives its accounts back at once: one request ends, or *)
(* a worker process dies with all of its requests.                           *)
GiveBack(R) ==
    users' = [a \in Accounts |-> users[a] \ R]

Next ==
    \/ \E r \in Requests, a \in Accounts : Reserve(r, a)
    \/ \E R \in SUBSET Requests : GiveBack(R)

Spec == Init /\ [][Next]_users

(* No account is in use by two requests.                                     *)
Exclusive == \A a \in Accounts : \A r, s \in users[a] : r = s
=============================================================================
