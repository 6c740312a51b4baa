----------------------------- MODULE AdminJobs ------------------------------
(* The background jobs of admin_routes.py: imports of SSO cookies, imports   *)
(* of JSON files and exports, each a daemon thread of the process that was   *)
(* asked for it.  The record of a job is kept by that process and mirrored   *)
(* in Redis, where the clients that poll it through other processes find it. *)
(*                                                                           *)
(* Of a record the status, the count of successes and the bytes of an export *)
(* are kept: every patch writes the ones that change, so what it has read    *)
(* before does not matter.  Progress and texts are left out.                 *)
EXTENDS Integers, FiniteSets

CONSTANTS
    Home,           \* the process that runs the job
    Away,
    None,
    Items,          \* cookies, files or selected accounts of the job
    Accounts,       \* whose entries cookies and files turn out to hold
    MaxErrors       \* bound: Redis calls that raise

Processes == {Home, Away}
Kinds == {"sso_import", "json_import", "json_export"}
Ended == {"done", "partial", "error"}
Record == [status : {"queued", "running"} \cup Ended, success : Nat, bytes : BOOLEAN]

JobsAssumption ==
    /\ MaxErrors \in Nat /\ Home # Away /\ None \notin Record
    /\ IsFiniteSet(Items) /\ IsFiniteSet(Accounts)

VARIABLES
    kind,
    at,         \* where the thread is; "none": not asked for, "dead": killed
    item,       \* item[i]: "new", "good" (converted, parsed, found) or "bad"
    holds,      \* holds[i]: the accounts with an entry in a good item
    mem,        \* _sso_jobs_local or _io_jobs_local of Home; Away has none
    redis,      \* the mirrored record
    stored,     \* accounts that the job has written to the account table
    asks,       \* asks[p]: what the client of process p waits for
    told,       \* told[p]: its last answer
    errors

clients == <<asks, told>>
vars == <<kind, at, item, holds, mem, redis, stored, clients, errors>>

Init ==
    /\ kind = "json_import" /\ at = "none"
    /\ item = [i \in Items |-> "new"]
    /\ holds = [i \in Items |-> {}]
    /\ mem = None /\ redis = None
    /\ stored = {}
    /\ asks = [p \in Processes |-> "nothing"]
    /\ told = [p \in Processes |-> "nothing"]
    /\ errors = 0

Good == {i \in Items : item[i] = "good"}
Entries == UNION {holds[i] : i \in Good}
Raise == errors < MaxErrors /\ errors' = errors + 1

-----------------------------------------------------------------------------
(* The record                                                                *)

(* The bytes of an export stay in the process.                               *)
Public(job) == [job EXCEPT !.bytes = FALSE]

(* An exception of Redis is swallowed.                                       *)
Put(job) ==
    /\ mem' = job
    /\ \/ redis' = Public(job) /\ UNCHANGED errors
       \/ Raise /\ UNCHANGED redis

Patch(status) == Put([mem EXCEPT !.status = status])

(* The jobs of cookies are read from Redis first, the others from the memory *)
(* of the process.  up: Redis answers.                                       *)
SsoGet(local, up) == IF up /\ redis # None THEN redis ELSE local
IoGet(local, up) == IF local # None \/ ~up THEN local ELSE redis
Get(p, up) ==
    LET local == IF p = Home THEN mem ELSE None
    IN IF kind = "sso_import" THEN SsoGet(local, up) ELSE IoGet(local, up)

-----------------------------------------------------------------------------
(* The thread                                                                *)

(* The request stores the record, starts the thread and answers with the id, *)
(* which a client then polls.                                                *)
Submit(k) ==
    /\ at = "none"
    /\ kind' = k
    /\ Put([status |-> "queued", success |-> 0, bytes |-> FALSE])
    /\ at' = "queued"
    /\ asks' = [p \in Processes |-> "poll"]
    /\ UNCHANGED <<item, holds, stored, told>>

SubmitCookies == Submit("sso_import")
SubmitFiles == Submit("json_import")
SubmitExport == Submit("json_export")

Begin ==
    /\ at = "queued"
    /\ Patch("running")
    /\ at' = "items"
    /\ UNCHANGED <<kind, item, holds, stored, clients>>

(* finds: what an item that is not refused may hold.                         *)
Judge(i, finds) ==
    /\ at = "items" /\ item[i] = "new"
    /\ \/ /\ item' = [item EXCEPT ![i] = "good"]
          /\ \E found \in finds : holds' = [holds EXCEPT ![i] = found]
       \/ /\ item' = [item EXCEPT ![i] = "bad"]
          /\ UNCHANGED holds

(* A pool of threads converts the cookies, each to the entry of its account; *)
(* the progress is not published every time, but when all are done.          *)
Convert(i) ==
    /\ kind = "sso_import"
    /\ Judge(i, {{a} : a \in Accounts})
    /\ \/ Patch("running")
       \/ \E j \in Items : item'[j] = "new" /\ UNCHANGED <<mem, redis, errors>>
    /\ UNCHANGED <<kind, at, stored, clients>>

(* A file that is JSON is counted, whatever is in it.                        *)
Parse(i) ==
    /\ kind = "json_import"
    /\ Judge(i, SUBSET Accounts)
    /\ Put([mem EXCEPT !.status = "running", !.success = Cardinality(Good')])
    /\ UNCHANGED <<kind, at, stored, clients>>

(* export_auth_payload finds the accounts in one map.                        *)
Export ==
    /\ kind = "json_export" /\ at = "items"
    /\ \A i \in Items : item[i] = "new"
    /\ item' \in [Items -> {"good", "bad"}]
    /\ UNCHANGED <<kind, at, holds, mem, redis, stored, clients, errors>>

(* With nothing good there is nothing to write; else the phase is published. *)
Decide ==
    /\ at = "items" /\ \A i \in Items : item[i] # "new"
    /\ IF Good = {}
       THEN at' = "report" /\ UNCHANGED <<mem, redis, errors>>
       ELSE at' = "write" /\ Patch("running")
    /\ UNCHANGED <<kind, item, holds, stored, clients>>

(* import_auth_payloads_bulk passes over what holds no entry, merges the     *)
(* entries of one account and writes the table once; without any entry it    *)
(* refuses.  An export serializes what it has read.                          *)
Write ==
    /\ at = "write"
    /\ at' = "report"
    /\ IF kind = "json_export" THEN UNCHANGED <<item, stored>>
       ELSE /\ stored' = Entries
            /\ item' = IF Entries = {} THEN [i \in Items |-> "bad"] ELSE item
    /\ UNCHANGED <<kind, holds, mem, redis, clients, errors>>

(* Anything raised goes to the last except; a write that raises may have     *)
(* been committed.                                                           *)
Fail ==
    /\ at \in {"items", "write"}
    /\ at' = "failed"
    /\ stored' \in IF at = "write" /\ kind # "json_export" THEN {stored, Entries} ELSE {stored}
    /\ UNCHANGED <<kind, item, holds, mem, redis, clients, errors>>

(* A job of cookies is done however many have failed.                        *)
CookiesVerdict == "done"
FilesVerdict ==
    IF Good = {} THEN "error" ELSE IF Good = Items THEN "done" ELSE "partial"
ExportVerdict == IF Good = {} THEN "error" ELSE "done"

(* Cookies are counted, not their accounts; files count the accounts.        *)
Successes == IF kind = "json_import" THEN Cardinality(Entries) ELSE Cardinality(Good)

Report ==
    /\ at = "report"
    /\ LET verdict == CASE kind = "sso_import" -> CookiesVerdict
                        [] kind = "json_import" -> FilesVerdict
                        [] OTHER -> ExportVerdict
       IN Put([status |-> verdict, success |-> Successes,
               bytes |-> kind = "json_export" /\ verdict = "done"])
    /\ at' = "over"
    /\ UNCHANGED <<kind, item, holds, stored, clients>>

(* Mutant: what is raised ends the thread.                                   *)
ReportLost ==
    /\ at = "failed"
    /\ at' = "over"
    /\ UNCHANGED <<kind, item, holds, mem, redis, stored, clients, errors>>

ReportError ==
    /\ at = "failed"
    /\ Patch("error")
    /\ at' = "over"
    /\ UNCHANGED <<kind, item, holds, stored, clients>>

(* The process is restarted, and its daemon thread gone with its memory.     *)
Crash ==
    /\ at \notin {"none", "dead"}
    /\ at' = "dead" /\ mem' = None
    /\ UNCHANGED <<kind, item, holds, redis, stored, clients, errors>>

(* An hour after the last write of the key.                                  *)
Expire ==
    /\ redis # None
    /\ redis' = None
    /\ UNCHANGED <<kind, at, item, holds, mem, stored, clients, errors>>

-----------------------------------------------------------------------------
(* A client polls through a process until the job has ended or is not found, *)
(* and fetches the file of an export that is done.                           *)
Answer(p, word, next) ==
    /\ told' = [told EXCEPT ![p] = word]
    /\ asks' = [asks EXCEPT ![p] = next]
    /\ UNCHANGED <<kind, at, item, holds, mem, redis, stored>>

PollOnce(p, up) ==
    LET job == Get(p, up)
    IN /\ asks[p] = "poll"
       /\ job # None => job.status \in Ended
       /\ IF job = None THEN Answer(p, "not found", "nothing")
          ELSE Answer(p, job.status,
                      IF kind = "json_export" /\ job.status = "done" THEN "file" ELSE "nothing")

Poll(p) ==
    \/ PollOnce(p, TRUE) /\ UNCHANGED errors
    \/ PollOnce(p, FALSE) /\ Raise

(* Only the process of the job has the bytes.                                *)
Download(p) ==
    LET job == Get(p, TRUE)
    IN /\ asks[p] = "file"
       /\ Answer(p, IF job = None THEN "not found"
                    ELSE IF job.bytes THEN "file" ELSE "unavailable", "nothing")
       /\ UNCHANGED errors

Thread ==
    \/ Begin \/ Export \/ Decide \/ Write \/ Report \/ ReportError
    \/ \E i \in Items : Convert(i) \/ Parse(i)

Next ==
    \/ SubmitCookies \/ SubmitFiles \/ SubmitExport
    \/ Thread \/ Fail \/ Crash \/ Expire
    \/ \E p \in Processes : Poll(p) \/ Download(p)

(* A thread goes on; a key that is not written any more runs out; a client   *)
(* asks again and again.                                                     *)
Fairness ==
    /\ WF_vars(Thread) /\ WF_vars(Expire)
    /\ \A p \in Processes : WF_vars(Poll(p)) /\ WF_vars(Download(p))

Spec == Init /\ [][Next]_vars /\ Fairness

-----------------------------------------------------------------------------
(* The types of the record and of the thread.                                *)
TypeOK ==
    /\ kind \in Kinds /\ errors \in 0 .. MaxErrors
    /\ at \in {"none", "queued", "items", "write", "report", "failed", "over", "dead"}
    /\ item \in [Items -> {"new", "good", "bad"}]
    /\ mem \in Record \cup {None} /\ redis \in Record \cup {None}
    /\ holds \in [Items -> SUBSET Accounts] /\ stored \subseteq Accounts
    /\ asks \in [Processes -> {"nothing", "poll", "file"}]
    /\ told \in [Processes -> Ended \cup {"nothing", "not found", "file", "unavailable"}]

(* The record of a finished import, mirrored or not, tells what was stored.  *)
(* For files it is the number of accounts.  Cookies are counted each, those  *)
(* of one account too: never fewer than the accounts, and none if none was   *)
(* stored.                                                                   *)
Tells(job) ==
    job.status \in {"done", "partial"} =>
        /\ kind = "json_import" => job.success = Cardinality(stored)
        /\ kind = "sso_import" =>
              job.success >= Cardinality(stored) /\ (stored = {} => job.success = 0)

JobsCounted == \A job \in {mem, redis} \ {None} : Tells(job)

(* Whatever raises or dies, every client gets an answer in the end, through  *)
(* whichever process it asks ("Poll ... until status is done / error",       *)
(* import_sso), and a true one.                                              *)
JobsAnswered ==
    []JobsCounted /\ \A p \in Processes : asks[p] # "nothing" ~> asks[p] = "nothing"
=============================================================================
