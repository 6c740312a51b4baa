------------------------- MODULE ConversationFlow -------------------------
(* The request path of app.py for the turns of ONE conversation: its pin in  *)
(* Redis (conversation_affinity.py, store/affinity_redis.py), the chain of   *)
(* accounts, the lease on the first of them, the failover loop of the four   *)
(* handlers, and what is reported of each account.                           *)
(*                                                                           *)
(* A request is one turn of the conversation, in a handler of its own; when  *)
(* it is over the same slot serves a later turn.  Body conversion, usage     *)
(* accounting and the wire format of the frames are left out, and so are     *)
(* upstream answers to a stream that are not event streams.                  *)
EXTENDS Naturals, Sequences, FiniteSets

CONSTANTS
    Requests,
    Accounts,
    Endpoints,      \* Endpoints[r]: the handlers that may serve r's turns
    Process,        \* Process[r]: the worker process that serves r
    None,           \* no account
    Nobody,         \* no request
    MaxErrors       \* bound: Redis calls of the affinity code that raise

(* json: the non-streaming loops, alike in the three endpoints; openai,      *)
(* anthropic, responses: their streams.                                      *)
Handlers == {"json", "openai", "anthropic", "responses"}
Processes == {Process[r] : r \in Requests}

ASSUME FlowAssumption ==
    /\ Endpoints \in [Requests -> SUBSET Handlers]
    /\ Process \in [Requests -> Processes]
    /\ None \notin Accounts /\ Nobody \notin Requests
    /\ MaxErrors \in Nat

VARIABLES
    pin,        \* the account in the conversation's Redis key
    filePin,    \* filePin[p]: the same in the file map of process p
    cooling,    \* accounts that are cooling, blocked for the model or failing
    leased,     \* leased[a]: the request that holds a's lease
    at,         \* at[r]: where the handler of r is
    handler,    \* handler[r]: the endpoint and mode of the turn
    prefer, chain, turn, spilled,       \* its locals; turn counts attempts
    opened,     \* opened[r]: a first frame has been sent (role_sent)
    started, content, noted,            \* what the attempt has seen and done
    gone,       \* gone[r]: the client has left
    from,       \* from[r]: accounts whose output the client has been sent
    last,       \* last[r]: how the client's stream or response ended
    step, cur,  \* the affinity update of r, awaited or detached
    report,     \* report[r]: a detached report_success is pending
    said,       \* said[r][a]: what r reported of account a
    served,     \* accounts that answered a turn allowed to move the pin
    errors

route == <<prefer, chain, turn, spilled, handler>>
seen == <<opened, started, content, noted>>
client == <<gone, from, last>>
job == <<step, cur, report>>
world == <<pin, filePin, cooling, leased>>
vars == <<world, at, route, seen, client, job, said, served, errors>>

Chains == UNION {[1..n -> Accounts] : n \in 1..Cardinality(Accounts)}
NoRepeat(s) == \A i, j \in DOMAIN s : s[i] = s[j] => i = j

Places == {"resolve", "touch", "pick", "reserve", "call", "stream", "affinity",
           "release", "done"}
Endings == {"none", "answer", "error", "empty"}
Steps == {"none", "get", "touch", "set"}
Pinned == Accounts \cup {None}

TypeOK ==
    /\ pin \in Pinned
    /\ filePin \in [Processes -> Pinned]
    /\ cooling \subseteq Accounts
    /\ leased \in [Accounts -> Requests \cup {Nobody}]
    /\ at \in [Requests -> Places]
    /\ handler \in [Requests -> Handlers]
    /\ prefer \in [Requests -> Pinned]
    /\ chain \in [Requests -> Seq(Accounts)]
    /\ turn \in [Requests -> Nat]
    /\ spilled \in [Requests -> BOOLEAN]
    /\ opened \in [Requests -> BOOLEAN] /\ started \in [Requests -> BOOLEAN]
    /\ content \in [Requests -> BOOLEAN] /\ noted \in [Requests -> BOOLEAN]
    /\ gone \in [Requests -> BOOLEAN]
    /\ from \in [Requests -> SUBSET Accounts]
    /\ last \in [Requests -> Endings]
    /\ step \in [Requests -> Steps]
    /\ cur \in [Requests -> Pinned]
    /\ report \in [Requests -> BOOLEAN]
    /\ said \in [Requests -> [Accounts -> SUBSET {"success", "failure"}]]
    /\ served \subseteq Accounts
    /\ errors \in 0..MaxErrors
    /\ \A r \in Requests :
          at[r] \in {"call", "stream", "affinity"} => turn[r] \in DOMAIN chain[r]

Every(x) == [r \in Requests |-> x]
Silent == [a \in Accounts |-> {}]

Init ==
    /\ pin = None
    /\ filePin = [p \in Processes |-> None]
    /\ cooling = {}
    /\ leased = [a \in Accounts |-> Nobody]
    /\ at = Every("resolve")
    /\ handler \in [Requests -> Handlers]
    /\ \A r \in Requests : handler[r] \in Endpoints[r]
    /\ prefer = Every(None) /\ chain = Every(<< >>) /\ turn = Every(1)
    /\ spilled = Every(FALSE)
    /\ opened = Every(FALSE) /\ started = Every(FALSE)
    /\ content = Every(FALSE) /\ noted = Every(FALSE)
    /\ gone = Every(FALSE) /\ from = Every({}) /\ last = Every("none")
    /\ step = Every("none") /\ cur = Every(None) /\ report = Every(FALSE)
    /\ said = Every(Silent)
    /\ served = {}
    /\ errors = 0

Goto(r, place) == at' = [at EXCEPT ![r] = place]
Raise == errors < MaxErrors /\ errors' = errors + 1

-----------------------------------------------------------------------------
(* The pin is read: a GET, and a SET of what it returned                     *)

Resolve(r) ==
    /\ at[r] = "resolve"
    /\ Goto(r, IF pin = None THEN "pick" ELSE "touch")
    /\ prefer' = [prefer EXCEPT ![r] = pin]
    /\ UNCHANGED <<world, chain, turn, spilled, handler, seen, client, job, said, served, errors>>

Touch(r) ==
    /\ at[r] = "touch"
    /\ pin' = prefer[r]
    /\ Goto(r, "pick")
    /\ UNCHANGED <<filePin, cooling, leased, route, seen, client, job, said, served, errors>>

(* Either call raises: get_affinity reads the process's file map instead.    *)
ResolveFails(r) ==
    /\ at[r] \in {"resolve", "touch"}
    /\ Raise
    /\ Goto(r, "pick")
    /\ prefer' = [prefer EXCEPT ![r] = filePin[Process[r]]]
    /\ UNCHANGED <<world, chain, turn, spilled, handler, seen, client, job, said, served>>

-----------------------------------------------------------------------------
(* The chain: the pinned account first, or last when it is not ready         *)

StickyFirst(p, s) ==
    p # None => IF p \in cooling
                THEN \A i \in 1..(Len(s) - 1) : s[i] # p
                ELSE s[1] = p

Pick(r) ==
    /\ at[r] = "pick"
    /\ Goto(r, "reserve")
    /\ \E s \in Chains :
          /\ NoRepeat(s) /\ StickyFirst(prefer[r], s)
          /\ chain' = [chain EXCEPT ![r] = s]
    /\ UNCHANGED <<world, prefer, turn, spilled, handler, seen, client, job, said, served, errors>>

(* Accounts leased by others, or hot in the cooldown mirror, are passed      *)
(* over; the first free one is leased and the rest follow as backups.        *)
Reserve(r) ==
    /\ at[r] = "reserve"
    /\ Goto(r, "call")
    /\ \E hot \in SUBSET cooling, i \in DOMAIN chain[r] :
        LET s == chain[r]
            busy(j) == leased[s[j]] # Nobody \/ s[j] \in hot
        IN /\ ~busy(i)
           /\ \A j \in 1..(i - 1) : busy(j)
           /\ leased' = [leased EXCEPT ![s[i]] = r]
           /\ chain' = [chain EXCEPT ![r] = SubSeq(s, i, Len(s))]
           /\ spilled' = [spilled EXCEPT
                            ![r] = \E j \in 1..(i - 1) : s[j] = prefer[r]]
    /\ UNCHANGED <<pin, filePin, cooling, prefer, turn, handler, seen, client, job, said, served, errors>>

Refuse(r) ==
    /\ at[r] = "reserve"
    /\ \A i \in DOMAIN chain[r] :
          leased[chain[r][i]] # Nobody \/ chain[r][i] \in cooling
    /\ Goto(r, "release")
    /\ chain' = [chain EXCEPT ![r] = << >>]
    /\ last' = [last EXCEPT ![r] = "error"]
    /\ UNCHANGED <<world, prefer, turn, spilled, handler, seen, gone, from, job, said, served, errors>>

(* Redis raises: the chain is used as picked, without a lease.               *)
Degrade(r) ==
    /\ at[r] = "reserve"
    /\ Raise
    /\ Goto(r, "call")
    /\ UNCHANGED <<world, route, seen, client, job, said, served>>

-----------------------------------------------------------------------------
(* One attempt                                                               *)

Current(r) == chain[r][turn[r]]
More(r) == turn[r] < Len(chain[r])
Says(r, verdict) == said' = [said EXCEPT ![r][Current(r)] = @ \cup {verdict}]

(* report_failure, which cools the account unless the error is one of the    *)
(* shared network path.                                                      *)
Fail(r) ==
    /\ Says(r, "failure")
    /\ cooling' \in {cooling, cooling \cup {Current(r)}}

NextAccount(r) ==
    /\ Goto(r, "call")
    /\ turn' = [turn EXCEPT ![r] = @ + 1]
    /\ started' = [started EXCEPT ![r] = FALSE]
    /\ UNCHANGED last

EndWith(r, ending) ==
    /\ Goto(r, "release")
    /\ last' = [last EXCEPT ![r] = ending]
    /\ UNCHANGED <<turn, started>>

RetryOrEnd(r, retry, ending) ==
    IF retry /\ More(r) THEN NextAccount(r) ELSE EndWith(r, ending)

(* What no ending of an attempt changes.                                     *)
kept == <<pin, filePin, leased, prefer, chain, spilled, handler, opened, content, gone, from, errors>>

(* A rebind when an earlier account was preferred or tried, else a bind.     *)
Rebinding(r) ==
    IF handler[r] \in {"json", "responses"}
    THEN prefer[r] \notin {None, Current(r)}
    ELSE turn[r] > 1

(* Mutant: a turn that spilled over moves the pin as well.                   *)
UpdateSpilled(r) ==
    /\ step' = [step EXCEPT ![r] = IF Rebinding(r) THEN "get" ELSE "set"]
    /\ served' = IF spilled[r] THEN served ELSE served \cup {Current(r)}

(* A turn that spilled over to another account leaves the pin alone.         *)
Update(r) ==
    IF spilled[r]
    THEN UNCHANGED <<step, served>>
    ELSE /\ step' = [step EXCEPT ![r] = IF Rebinding(r) THEN "get" ELSE "set"]
         /\ served' = served \cup {Current(r)}

(* The non-streaming loop has collected an answer.                           *)
Answer(r) ==
    /\ at[r] = "call" /\ handler[r] = "json"
    /\ Says(r, "success")
    /\ Update(r)
    /\ Goto(r, "affinity")
    /\ UNCHANGED <<world, route, seen, client, cur, report, errors>>

Reply(r) ==
    /\ at[r] = "affinity" /\ step[r] = "none"
    /\ Goto(r, "release")
    /\ last' = [last EXCEPT ![r] = "answer"]
    /\ from' = [from EXCEPT ![r] = @ \cup {Current(r)}]
    /\ UNCHANGED <<world, route, seen, gone, job, said, served, errors>>

(* A status of 400 or more.                                                  *)
Reject(r) ==
    /\ at[r] = "call"
    /\ Fail(r)
    /\ \E retryable \in BOOLEAN : RetryOrEnd(r, retryable, "error")
    /\ UNCHANGED <<kept, noted, job, served>>

(* An exception before the upstream answered; without a stream, any other    *)
(* failure too.  With role_sent no other account is tried.                   *)
Break(r) ==
    /\ at[r] = "call"
    /\ Fail(r)
    /\ RetryOrEnd(r, ~opened[r], "error")
    /\ UNCHANGED <<kept, noted, job, served>>

-----------------------------------------------------------------------------
(* A stream                                                                  *)

(* HTTP 200: the first frame is sent.  Only openai keeps it apart from       *)
(* stream_started.                                                           *)
Open(r) ==
    /\ at[r] = "call" /\ handler[r] # "json"
    /\ Goto(r, "stream")
    /\ opened' = [opened EXCEPT ![r] = TRUE]
    /\ started' = [started EXCEPT ![r] = handler[r] # "openai"]
    /\ UNCHANGED <<world, route, content, noted, client, job, said, served, errors>>

(* _note_success_once: the report and the affinity update are detached.      *)
Note(r) ==
    IF noted[r]
    THEN UNCHANGED <<noted, report, step, served>>
    ELSE /\ noted' = [noted EXCEPT ![r] = TRUE]
         /\ report' = [report EXCEPT ![r] = TRUE]
         /\ Update(r)

(* A line with text, a tool call or reasoning.  anthropic and responses note *)
(* success for text and tools only; responses does not forward reasoning.    *)
Payload(r) ==
    /\ at[r] = "stream"
    /\ started' = [started EXCEPT ![r] = TRUE]
    /\ content' = [content EXCEPT ![r] = TRUE]
    /\ \E reasoning \in BOOLEAN :
          /\ IF reasoning /\ handler[r] # "openai"
             THEN UNCHANGED <<noted, report, step, served>> ELSE Note(r)
          /\ from' = IF gone[r] \/ (reasoning /\ handler[r] = "responses")
                     THEN from ELSE [from EXCEPT ![r] = @ \cup {Current(r)}]
    /\ UNCHANGED <<world, at, route, opened, gone, last, cur, said, errors>>

(* openai counts a line that holds just a finish reason as progress.         *)
FinishLine(r) ==
    /\ at[r] = "stream" /\ handler[r] = "openai"
    /\ Note(r)
    /\ started' = [started EXCEPT ![r] = TRUE]
    /\ UNCHANGED <<world, at, route, opened, content, client, cur, said, errors>>

(* The upstream stream is drained.  openai does not look for emptiness when  *)
(* the client has gone.                                                      *)
Finish(r) ==
    /\ at[r] = "stream"
    /\ content[r] \/ (handler[r] = "openai" /\ gone[r])
    /\ Note(r)
    /\ EndWith(r, "answer")
    /\ UNCHANGED <<world, prefer, chain, spilled, handler, opened, content, gone, from, cur, said, errors>>

Empty(r) ==
    /\ at[r] = "stream" /\ ~content[r]
    /\ handler[r] = "openai" => ~gone[r]
    /\ Fail(r)
    /\ RetryOrEnd(r, ~started[r], "empty")
    /\ UNCHANGED <<kept, noted, job, served>>

(* Mutant: a broken stream fails over whatever has been sent.                *)
DropRetries(r) ==
    /\ at[r] = "stream"
    /\ Fail(r)
    /\ RetryOrEnd(r, TRUE, "error")
    /\ UNCHANGED <<kept, noted, job, served>>

(* Mutant: no stream reports an exception in its middle.                     *)
DropUnreported(r) ==
    /\ at[r] = "stream"
    /\ UNCHANGED <<said, cooling>>
    /\ EndWith(r, "error")
    /\ UNCHANGED <<kept, noted, job, served>>

(* An exception in the middle.  responses ends without reporting it.         *)
Drop(r) ==
    /\ at[r] = "stream"
    /\ IF handler[r] = "responses" THEN UNCHANGED <<said, cooling>> ELSE Fail(r)
    /\ EndWith(r, "error")
    /\ UNCHANGED <<kept, noted, job, served>>

(* The client leaves: responses returns, the others drain without sending.   *)
Leave(r) ==
    /\ at[r] = "stream" /\ ~gone[r]
    /\ gone' = [gone EXCEPT ![r] = TRUE]
    /\ Goto(r, IF handler[r] = "responses" THEN "release" ELSE "stream")
    /\ UNCHANGED <<world, route, seen, from, last, job, said, served, errors>>

(* The server cancels the stream of a client that has left.                  *)
Cancel(r) ==
    /\ at[r] \in {"call", "stream"} /\ handler[r] # "json"
    /\ gone' = [gone EXCEPT ![r] = TRUE]
    /\ Goto(r, "release")
    /\ UNCHANGED <<world, route, seen, from, last, job, said, served, errors>>

-----------------------------------------------------------------------------
(* The affinity update                                                       *)

ReportSuccess(r) ==
    /\ report[r]
    /\ Says(r, "success")
    /\ report' = [report EXCEPT ![r] = FALSE]
    /\ UNCHANGED <<world, at, route, seen, client, step, cur, served, errors>>

elsewhere == <<at, route, seen, client, report, said, served>>

(* rebind_on_failover: what get_affinity returned is compared with the first *)
(* account of the chain.                                                     *)
Decide(r, found) ==
    step' = [step EXCEPT ![r] = IF found \in {None, chain[r][1]} THEN "set" ELSE "none"]

RebindGet(r) ==
    /\ step[r] = "get"
    /\ IF pin = None THEN Decide(r, None) ELSE step' = [step EXCEPT ![r] = "touch"]
    /\ cur' = [cur EXCEPT ![r] = pin]
    /\ UNCHANGED <<world, elsewhere, errors>>

RebindTouch(r) ==
    /\ step[r] = "touch"
    /\ pin' = cur[r]
    /\ Decide(r, cur[r])
    /\ UNCHANGED <<filePin, cooling, leased, elsewhere, cur, errors>>

RebindFails(r) ==
    /\ step[r] \in {"get", "touch"}
    /\ Raise
    /\ Decide(r, filePin[Process[r]])
    /\ UNCHANGED <<world, elsewhere, cur>>

(* bind: its GET only feeds the hit counter.                                 *)
Bind(r) ==
    /\ step[r] = "set"
    /\ pin' = Current(r)
    /\ step' = [step EXCEPT ![r] = "none"]
    /\ UNCHANGED <<filePin, cooling, leased, elsewhere, cur, errors>>

BindFails(r) ==
    /\ step[r] = "set"
    /\ Raise
    /\ filePin' = [filePin EXCEPT ![Process[r]] = Current(r)]
    /\ step' = [step EXCEPT ![r] = "none"]
    /\ UNCHANGED <<pin, cooling, leased, elsewhere, cur>>

-----------------------------------------------------------------------------
FreeLease(r) == [a \in Accounts |-> IF leased[a] = r THEN Nobody ELSE leased[a]]

(* Mutant: only an answer gives the lease back.                              *)
ReleaseAnswered(r) ==
    /\ at[r] = "release"
    /\ leased' = IF last[r] = "answer" THEN FreeLease(r) ELSE leased
    /\ Goto(r, "done")
    /\ UNCHANGED <<pin, filePin, cooling, route, seen, client, job, said, served, errors>>

(* The finally of a stream, or the background task of the response.          *)
Release(r) ==
    /\ at[r] = "release"
    /\ leased' = FreeLease(r)
    /\ Goto(r, "done")
    /\ UNCHANGED <<pin, filePin, cooling, route, seen, client, job, said, served, errors>>

Idle(r) == step[r] = "none" /\ ~report[r]

(* A later turn of the conversation, perhaps at another endpoint.            *)
NextTurn(r) ==
    /\ at[r] = "done" /\ Idle(r)
    /\ Goto(r, "resolve")
    /\ \E h \in Endpoints[r] : handler' = [handler EXCEPT ![r] = h]
    /\ prefer' = [prefer EXCEPT ![r] = None]
    /\ chain' = [chain EXCEPT ![r] = << >>]
    /\ turn' = [turn EXCEPT ![r] = 1]
    /\ spilled' = [spilled EXCEPT ![r] = FALSE]
    /\ opened' = [opened EXCEPT ![r] = FALSE]
    /\ started' = [started EXCEPT ![r] = FALSE]
    /\ content' = [content EXCEPT ![r] = FALSE]
    /\ noted' = [noted EXCEPT ![r] = FALSE]
    /\ gone' = [gone EXCEPT ![r] = FALSE]
    /\ from' = [from EXCEPT ![r] = {}]
    /\ last' = [last EXCEPT ![r] = "none"]
    /\ cur' = [cur EXCEPT ![r] = None]
    /\ said' = [said EXCEPT ![r] = Silent]
    /\ UNCHANGED <<world, step, report, served, errors>>

(* Other traffic cools an account, a probe brings it back, the key expires.  *)
Cool(a) ==
    /\ cooling' \in {cooling \cup {a}, cooling \ {a}}
    /\ UNCHANGED <<pin, filePin, leased, elsewhere, step, cur, errors>>

Expire ==
    /\ pin # None
    /\ pin' = None
    /\ UNCHANGED <<filePin, cooling, leased, elsewhere, step, cur, errors>>

(* What the handler of r, the upstream and Redis do in the end.              *)
Step(r) ==
    \/ Resolve(r) \/ Touch(r) \/ Pick(r) \/ Reserve(r) \/ Refuse(r)
    \/ Answer(r) \/ Reply(r) \/ Reject(r) \/ Break(r)
    \/ Open(r) \/ Finish(r) \/ Empty(r) \/ Drop(r) \/ Cancel(r)
    \/ RebindGet(r) \/ RebindTouch(r) \/ Bind(r) \/ Release(r)

Next ==
    \/ \E r \in Requests :
          \/ Step(r) \/ ResolveFails(r) \/ Degrade(r)
          \/ Payload(r) \/ FinishLine(r) \/ Leave(r)
          \/ ReportSuccess(r) \/ RebindFails(r) \/ BindFails(r) \/ NextTurn(r)
    \/ \E a \in Accounts : Cool(a)
    \/ Expire

Spec == Init /\ [][Next]_vars

(* Every upstream read and every Redis call ends: the client has timeouts.   *)
FairSpec == Spec /\ \A r \in Requests : WF_vars(Step(r))

-----------------------------------------------------------------------------
(* A client is answered by one account: what it has been sent comes from the *)
(* attempt under way, every earlier attempt having failed unseen ("Never     *)
(* failover after bytes were already streamed to the client", app.py).       *)
OneVoice ==
    \A r \in Requests :
        /\ from[r] # {} => from[r] = {Current(r)}
        /\ at[r] # "reserve" =>
              \A i \in 1..(turn[r] - 1) :
                  said[r][chain[r][i]] = {"failure"}

(* When a request whose client stayed is over, an answer has been counted    *)
(* for the account that gave it, and for it alone, and an error against the  *)
(* last account tried: the pool learns of "any upstream error during         *)
(* rotation" (account_pool.report_failure).  A Responses stream that breaks  *)
(* ends without a report.                                                    *)
AttemptsJudged ==
    \A r \in Requests :
        /\ at[r] = "done" /\ Idle(r) /\ ~gone[r] /\ chain[r] # << >>
        /\ handler[r] # "responses"
        =>
            IF last[r] = "answer"
            THEN \A a \in Accounts : "success" \in said[r][a] <=> a = Current(r)
            ELSE "failure" \in said[r][Current(r)]

(* The pin, in Redis or in a file map, names an account that answered a turn *)
(* of the conversation, and not one that stood in for a busy account.        *)
PinAnswered ==
    /\ pin \in served \cup {None}
    /\ \A p \in Processes : filePin[p] \in served \cup {None}

(* Every lease is given back.                                                *)
LeaseReturned ==
    \A r \in Requests, a \in Accounts : leased[a] = r ~> leased[a] # r

(* "always rebind to the account that worked" (conversation_affinity.py):    *)
(* after a turn, the only one under way, the pin is the account that         *)
(* answered it.  It does not hold: a pin that another turn has moved stays   *)
(* where it is.                                                              *)
PinFollowsAnswer ==
    [][\A r \in Requests :
          Reply(r) /\ ~spilled[r] => pin \in {None, Current(r)}]_vars
=============================================================================
