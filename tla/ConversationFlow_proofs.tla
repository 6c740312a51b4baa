---------------------- MODULE ConversationFlow_proofs ----------------------
(* Proofs about ConversationFlow, for any number of turns under way,         *)
(* accounts, processes and Redis errors, and any mix of handlers: its types, *)
(* and that the conversation is only ever pinned to an account that answered *)
(* one of its turns and was not a stand-in.                                  *)
EXTENDS ConversationFlow, SequenceTheorems, TLAPS

(* The attempt counter points into the chain from the reservation on, also   *)
(* under an affinity update or a report that is pending; these are started   *)
(* where no other account is tried any more.                                 *)
Early ==
    \A r \in Requests :
        /\ at[r] \in {"resolve", "touch", "pick", "reserve"} => turn[r] = 1
        /\ at[r] = "reserve" => 1 \in DOMAIN chain[r]

Pending ==
    \A r \in Requests : ~Idle(r) =>
        /\ at[r] \in {"stream", "affinity", "release", "done"}
        /\ at[r] = "stream" => started[r]
        /\ turn[r] \in DOMAIN chain[r]

TypeInv == TypeOK /\ Early /\ Pending

LEMMA ProcessType ==
    FlowAssumption => \A r \in Requests : Process[r] \in Processes
BY DEF FlowAssumption, Processes

LEMMA ChainType ==
    ASSUME NEW s \in Chains
    PROVE  s \in Seq(Accounts) /\ 1 \in DOMAIN s
<1>1. PICK n \in 1..Cardinality(Accounts) : s \in [1..n -> Accounts]
  BY DEF Chains
<1>2. n \in Nat /\ n >= 1
  BY <1>1
<1> QED BY <1>1, <1>2

(* What is left of a chain from its i-th account on is a chain.              *)
LEMMA TailType ==
    ASSUME NEW s \in Seq(Accounts), NEW i \in DOMAIN s
    PROVE  SubSeq(s, i, Len(s)) \in Seq(Accounts) /\ 1 \in DOMAIN SubSeq(s, i, Len(s))
<1>1. i \in 1..Len(s) /\ Len(s) \in Nat
  BY LenProperties
<1>2. /\ SubSeq(s, i, Len(s)) \in Seq(Accounts)
      /\ Len(SubSeq(s, i, Len(s))) = Len(s) - i + 1
  BY <1>1, SubSeqProperties
<1> QED BY <1>1, <1>2, LenProperties

LEMMA TypeInit == FlowAssumption /\ Init => TypeInv
BY DEF FlowAssumption, Init, TypeInv, TypeOK, Early, Pending, Idle, Every, Silent,
       Pinned, Places, Endings, Steps

LEMMA CurrentType ==
    ASSUME TypeOK, NEW r \in Requests, turn[r] \in DOMAIN chain[r]
    PROVE  Current(r) \in Accounts
BY DEF TypeOK, Current

LEMMA SaysType ==
    ASSUME TypeOK, NEW r \in Requests, Current(r) \in Accounts,
           NEW verdict \in {"success", "failure"}, Says(r, verdict)
    PROVE  said' \in [Requests -> [Accounts -> SUBSET {"success", "failure"}]]
<1> DEFINE told == [said[r] EXCEPT ![Current(r)] = @ \cup {verdict}]
<1>1. told \in [Accounts -> SUBSET {"success", "failure"}]
  BY DEF TypeOK
<1> QED BY <1>1 DEF Says, TypeOK

LEMMA FailType ==
    ASSUME TypeOK, NEW r \in Requests, Current(r) \in Accounts, Fail(r)
    PROVE  /\ said' \in [Requests -> [Accounts -> SUBSET {"success", "failure"}]]
           /\ cooling' \subseteq Accounts
BY SaysType DEF Fail, TypeOK

(* The end of an attempt moves r alone: to the next account, or out.         *)
LEMMA MoveType ==
    ASSUME TypeOK, NEW r \in Requests, turn[r] \in DOMAIN chain[r],
           NEW retry \in BOOLEAN, NEW ending \in Endings, RetryOrEnd(r, retry, ending)
    PROVE  /\ at' \in [Requests -> Places] /\ turn' \in [Requests -> Nat]
           /\ started' \in [Requests -> BOOLEAN] /\ last' \in [Requests -> Endings]
           /\ at'[r] \in {"call", "release"} /\ turn'[r] \in DOMAIN chain[r]
           /\ \A q \in Requests \ {r} :
                 at'[q] = at[q] /\ turn'[q] = turn[q] /\ started'[q] = started[q]
           /\ at'[r] = "call" => retry
<1>1. turn[r] \in 1..Len(chain[r]) /\ Len(chain[r]) \in Nat
  BY LenProperties DEF TypeOK
<1>2. CASE retry /\ More(r)
  <2>1. turn[r] + 1 \in DOMAIN chain[r]
    BY <1>1, <1>2, LenProperties DEF More, TypeOK
  <2>2. /\ at' = [at EXCEPT ![r] = "call"]
        /\ turn' = [turn EXCEPT ![r] = @ + 1]
        /\ started' = [started EXCEPT ![r] = FALSE]
        /\ last' = last
    BY <1>2 DEF RetryOrEnd, NextAccount, Goto
  <2>3. turn[r] \in Nat /\ turn'[r] = turn[r] + 1
    BY <2>2 DEF TypeOK
  <2>4. at' \in [Requests -> Places] /\ at'[r] = "call"
    BY <2>2 DEF TypeOK, Places
  <2>5. turn' \in [Requests -> Nat]
    BY <2>2, <2>3 DEF TypeOK
  <2> QED BY <1>2, <2>1, <2>2, <2>3, <2>4, <2>5 DEF TypeOK
<1>3. CASE ~(retry /\ More(r))
  <2>1. /\ at' = [at EXCEPT ![r] = "release"]
        /\ last' = [last EXCEPT ![r] = ending]
        /\ turn' = turn /\ started' = started
    BY <1>3 DEF RetryOrEnd, EndWith, Goto
  <2>2. at' \in [Requests -> Places] /\ at'[r] = "release"
    BY <2>1 DEF TypeOK, Places
  <2> QED BY <2>1, <2>2 DEF TypeOK
<1> QED BY <1>2, <1>3

(* An update is started for r alone.                                         *)
LEMMA UpdateType ==
    ASSUME TypeOK, NEW r \in Requests, Current(r) \in Accounts, Update(r)
    PROVE  /\ step' \in [Requests -> Steps] /\ served' \subseteq Accounts
           /\ \A q \in Requests \ {r} : step'[q] = step[q]
BY DEF Update, TypeOK, Steps

LEMMA NoteType ==
    ASSUME TypeOK, NEW r \in Requests, Current(r) \in Accounts, Note(r)
    PROVE  /\ step' \in [Requests -> Steps] /\ served' \subseteq Accounts
           /\ noted' \in [Requests -> BOOLEAN] /\ report' \in [Requests -> BOOLEAN]
           /\ \A q \in Requests \ {r} : step'[q] = step[q] /\ report'[q] = report[q]
<1>1. CASE noted[r]
  BY <1>1 DEF Note, TypeOK
<1>2. CASE ~noted[r]
  BY <1>2, UpdateType DEF Note, TypeOK
<1> QED BY <1>1, <1>2

LEMMA TypeStep ==
    ASSUME FlowAssumption, TypeInv, [Next]_vars
    PROVE  TypeInv'
<1> USE DEF TypeInv, TypeOK, Early, Pending, Idle, world, route, seen, client, job
<1>1. CASE UNCHANGED vars
  BY <1>1 DEF vars
<1>2. ASSUME NEW r \in Requests, Resolve(r) PROVE TypeInv'
  BY <1>2 DEF Resolve, Goto, Places
<1>3. ASSUME NEW r \in Requests, Touch(r) PROVE TypeInv'
  BY <1>3 DEF Touch, Goto, Places
<1>4. ASSUME NEW r \in Requests, ResolveFails(r) PROVE TypeInv'
  BY <1>4, ProcessType DEF ResolveFails, Raise, FlowAssumption, Goto, Places
<1>5. ASSUME NEW r \in Requests, Pick(r) PROVE TypeInv'
  BY <1>5, ChainType DEF Pick, Goto, Places
<1>6. ASSUME NEW r \in Requests, Reserve(r) PROVE TypeInv'
  <2>1. PICK i \in DOMAIN chain[r] :
           /\ leased' = [leased EXCEPT ![chain[r][i]] = r]
           /\ chain' = [chain EXCEPT ![r] = SubSeq(chain[r], i, Len(chain[r]))]
           /\ spilled' = [spilled EXCEPT ![r] =
                            \E j \in 1..(i - 1) : chain[r][j] = prefer[r]]
    BY <1>6 DEF Reserve
  <2>2. chain[r][i] \in Accounts
    OBVIOUS
  <2>3. /\ SubSeq(chain[r], i, Len(chain[r])) \in Seq(Accounts)
        /\ 1 \in DOMAIN SubSeq(chain[r], i, Len(chain[r]))
    BY TailType
  <2>4. spilled' \in [Requests -> BOOLEAN]
    BY <2>1
  <2>5. leased' \in [Accounts -> Requests \cup {Nobody}]
    BY <2>1, <2>2
  <2>6. /\ at' = [at EXCEPT ![r] = "call"] /\ turn[r] = 1
        /\ UNCHANGED <<pin, filePin, cooling, prefer, turn, handler, seen, client, job, said,
                       served, errors>>
    BY <1>6 DEF Reserve, Goto
  <2>7. Idle(r)
    BY <1>6 DEF Reserve
  <2>8. chain' \in [Requests -> Seq(Accounts)] /\ 1 \in DOMAIN chain'[r]
    BY <2>1, <2>3
  <2> QED BY <2>1, <2>4, <2>5, <2>6, <2>7, <2>8, SMTT(60) DEF Places
<1>7. ASSUME NEW r \in Requests, Refuse(r) PROVE TypeInv'
  <2>1. /\ at[r] = "reserve" /\ at' = [at EXCEPT ![r] = "release"]
        /\ chain' = [chain EXCEPT ![r] = << >>] /\ last' = [last EXCEPT ![r] = "error"]
        /\ UNCHANGED <<world, prefer, turn, spilled, handler, seen, gone, from, job, said,
                       served, errors>>
    BY <1>7 DEF Refuse, Goto
  <2>2. at' \in [Requests -> Places] /\ last' \in [Requests -> Endings]
    BY <2>1 DEF Places, Endings
  <2>3. << >> \in Seq(Accounts)
    OBVIOUS
  <2>4. chain' \in [Requests -> Seq(Accounts)]
    BY <2>1, <2>3
  <2>5. Idle(r)
    BY <2>1
  <2> QED BY <2>1, <2>2, <2>4, <2>5
<1>8. ASSUME NEW r \in Requests, Degrade(r) PROVE TypeInv'
  BY <1>8 DEF Degrade, Raise, FlowAssumption, Goto, Places
<1>9. ASSUME NEW r \in Requests, Answer(r) PROVE TypeInv'
  <2>1. Current(r) \in Accounts
    BY <1>9, CurrentType DEF Answer
  <2>2. said' \in [Requests -> [Accounts -> SUBSET {"success", "failure"}]]
    BY <1>9, <2>1, SaysType DEF Answer
  <2>3. /\ step' \in [Requests -> Steps] /\ served' \subseteq Accounts
        /\ \A q \in Requests \ {r} : step'[q] = step[q]
    BY <1>9, <2>1, UpdateType DEF Answer
  <2>4. /\ at' = [at EXCEPT ![r] = "affinity"] /\ turn[r] \in DOMAIN chain[r]
        /\ UNCHANGED <<world, route, seen, client, cur, report, errors>>
    BY <1>9 DEF Answer, Goto
  <2> QED BY <2>2, <2>3, <2>4 DEF Places
<1>10. ASSUME NEW r \in Requests, Reply(r) PROVE TypeInv'
  <2>1. Current(r) \in Accounts
    BY <1>10, CurrentType DEF Reply
  <2> QED BY <1>10, <2>1 DEF Reply, Goto, Places, Endings
<1>11. ASSUME NEW r \in Requests, Reject(r) \/ Break(r) \/ Empty(r) PROVE TypeInv'
  <2>1. turn[r] \in DOMAIN chain[r] /\ Current(r) \in Accounts
    BY <1>11, CurrentType DEF Reject, Break, Empty
  <2>2. \E retry \in BOOLEAN, ending \in Endings :
           RetryOrEnd(r, retry, ending) /\ (~Idle(r) => ~retry)
    <3>1. CASE Reject(r)
      BY <3>1 DEF Reject, Endings
    <3>2. CASE Break(r)
      BY <3>2 DEF Break, Endings
    <3>3. CASE Empty(r)
      BY <3>3 DEF Empty, Endings
    <3> QED BY <1>11, <3>1, <3>2, <3>3
  <2>3. UNCHANGED <<pin, filePin, leased, prefer, chain, spilled, handler, opened, content,
                    gone, from, errors, noted, step, cur, report, served>>
    BY <1>11 DEF Reject, Break, Empty, kept
  <2>4. Fail(r)
    BY <1>11 DEF Reject, Break, Empty
  <2>5. /\ said' \in [Requests -> [Accounts -> SUBSET {"success", "failure"}]]
        /\ cooling' \subseteq Accounts
    BY <2>1, <2>4, FailType
  <2>6. /\ at' \in [Requests -> Places] /\ turn' \in [Requests -> Nat]
        /\ started' \in [Requests -> BOOLEAN] /\ last' \in [Requests -> Endings]
        /\ at'[r] \in {"call", "release"} /\ turn'[r] \in DOMAIN chain[r]
        /\ \A q \in Requests \ {r} :
              at'[q] = at[q] /\ turn'[q] = turn[q] /\ started'[q] = started[q]
        /\ at'[r] = "call" => Idle(r)
    BY <2>1, <2>2, MoveType
  <2> QED BY <2>3, <2>5, <2>6
<1>12. ASSUME NEW r \in Requests, Drop(r) PROVE TypeInv'
  <2>1. Current(r) \in Accounts
    BY <1>12, CurrentType DEF Drop
  <2>2. /\ said' \in [Requests -> [Accounts -> SUBSET {"success", "failure"}]]
        /\ cooling' \subseteq Accounts
    BY <1>12, <2>1, FailType DEF Drop
  <2> QED BY <1>12, <2>2 DEF Drop, EndWith, kept, Goto, Places, Endings
<1>13. ASSUME NEW r \in Requests, Open(r) PROVE TypeInv'
  BY <1>13 DEF Open, Goto, Places
<1>14. ASSUME NEW r \in Requests, Payload(r) PROVE TypeInv'
  <2>1. Current(r) \in Accounts
    BY <1>14, CurrentType DEF Payload
  <2>2. from' \in [Requests -> SUBSET Accounts]
    BY <1>14, <2>1 DEF Payload
  <2>3. /\ step' \in [Requests -> Steps] /\ served' \subseteq Accounts
        /\ noted' \in [Requests -> BOOLEAN] /\ report' \in [Requests -> BOOLEAN]
        /\ \A q \in Requests \ {r} : step'[q] = step[q] /\ report'[q] = report[q]
    BY <1>14, <2>1, NoteType DEF Payload
  <2> QED BY <1>14, <2>2, <2>3 DEF Payload
<1>15. ASSUME NEW r \in Requests, FinishLine(r) PROVE TypeInv'
  <2>1. Current(r) \in Accounts
    BY <1>15, CurrentType DEF FinishLine
  <2> QED BY <1>15, <2>1, NoteType DEF FinishLine
<1>16. ASSUME NEW r \in Requests, Finish(r) PROVE TypeInv'
  <2>1. Current(r) \in Accounts
    BY <1>16, CurrentType DEF Finish
  <2> QED BY <1>16, <2>1, NoteType DEF Finish, EndWith, Goto, Places, Endings
<1>17. ASSUME NEW r \in Requests, Leave(r) \/ Cancel(r) PROVE TypeInv'
  <2>1. PICK place \in {"release", "stream"} :
           at' = [at EXCEPT ![r] = place] /\ (place = "stream" => at[r] = "stream")
    BY <1>17 DEF Leave, Cancel, Goto
  <2>2. /\ gone' = [gone EXCEPT ![r] = TRUE] /\ at[r] \in {"call", "stream"}
        /\ UNCHANGED <<world, route, seen, from, last, job, said, served, errors>>
    BY <1>17 DEF Leave, Cancel
  <2>3. at' \in [Requests -> Places]
    BY <2>1 DEF Places
  <2> QED BY <2>1, <2>2, <2>3
<1>18. ASSUME NEW r \in Requests, ReportSuccess(r) PROVE TypeInv'
  <2>1. Current(r) \in Accounts
    BY <1>18, CurrentType DEF ReportSuccess
  <2>2. said' \in [Requests -> [Accounts -> SUBSET {"success", "failure"}]]
    BY <1>18, <2>1, SaysType DEF ReportSuccess
  <2> QED BY <1>18, <2>2 DEF ReportSuccess
<1>19. ASSUME NEW r \in Requests, RebindGet(r) PROVE TypeInv'
  BY <1>19, ZenonT(60) DEF RebindGet, Decide, elsewhere, Steps
<1>20. ASSUME NEW r \in Requests, RebindTouch(r) PROVE TypeInv'
  BY <1>20 DEF RebindTouch, Decide, elsewhere, Steps
<1>21. ASSUME NEW r \in Requests, RebindFails(r) PROVE TypeInv'
  BY <1>21 DEF RebindFails, Decide, elsewhere, Raise, FlowAssumption, Steps
<1>22. ASSUME NEW r \in Requests, Bind(r) PROVE TypeInv'
  <2>1. Current(r) \in Pinned
    BY <1>22, CurrentType DEF Bind, Pinned
  <2> QED BY <1>22, <2>1 DEF Bind, elsewhere, Steps
<1>23. ASSUME NEW r \in Requests, BindFails(r) PROVE TypeInv'
  <2>1. Current(r) \in Pinned
    BY <1>23, CurrentType DEF BindFails, Pinned
  <2> QED BY <1>23, <2>1 DEF BindFails, elsewhere, Raise, FlowAssumption, Steps
<1>24. ASSUME NEW r \in Requests, Release(r) PROVE TypeInv'
  BY <1>24 DEF Release, FreeLease, Goto, Places
<1>25. ASSUME NEW r \in Requests, NextTurn(r) PROVE TypeInv'
  BY <1>25 DEF FlowAssumption, NextTurn, Silent, Goto, Places, Endings, Pinned
<1>26. CASE Expire \/ \E a \in Accounts : Cool(a)
  BY <1>26 DEF Expire, Cool, elsewhere, Pinned
<1> QED
  BY <1>1, <1>2, <1>3, <1>4, <1>5, <1>6, <1>7, <1>8, <1>9, <1>10, <1>11, <1>12,
     <1>13, <1>14, <1>15, <1>16, <1>17, <1>18, <1>19, <1>20, <1>21, <1>22, <1>23,
     <1>24, <1>25, <1>26 DEF Next, Step

(* Types, and an attempt counter that stays inside the chain: TypeOK.        *)
THEOREM TypeCorrect == Spec => []TypeOK
<1>1. TypeInv => TypeOK
  BY DEF TypeInv
<1> QED BY <1>1, TypeInit, TypeStep, FlowAssumption, PTL DEF Spec

-----------------------------------------------------------------------------
(* PinAnswered is not inductive: an account is written to the pin by a       *)
(* refresh of what an earlier GET returned, or by an update that was started *)
(* when its account answered.  Both still hold an account that answered,     *)
(* whatever happened to the pin in between; and the account of an update     *)
(* that is pending does not change, because its request tries no other one   *)
(* and serves no other turn before the update is over.                       *)
Remembered ==
    \A r \in Requests :
        /\ at[r] = "touch" => prefer[r] \in served
        /\ step[r] = "touch" => cur[r] \in served
        /\ step[r] # "none" => Current(r) \in served

PinInv == PinAnswered /\ Remembered

(* The steps that write no pin and start no refresh.                         *)
LEMMA PinKept ==
    ASSUME TypeInv, PinInv, served \subseteq served',
           UNCHANGED <<pin, filePin, prefer, cur>>,
           \A q \in Requests :
              /\ at'[q] = "touch" => at[q] = "touch"
              /\ step'[q] = "touch" => step[q] = "touch"
              /\ step'[q] # "none" => Current(q)' \in served'
    PROVE  PinInv'
BY DEF PinInv, PinAnswered, Remembered

(* The account of an update that is pending stays.                           *)
LEMMA SameCurrent ==
    ASSUME TypeInv, NEW q \in Requests, chain'[q] = chain[q], turn'[q] = turn[q]
    PROVE  Current(q)' = Current(q)
BY DEF Current

LEMMA UpdateServed ==
    ASSUME TypeInv, PinInv, NEW r \in Requests, Update(r), UNCHANGED <<chain, turn>>
    PROVE  /\ served \subseteq served'
           /\ \A q \in Requests :
                 /\ step'[q] = "touch" => step[q] = "touch"
                 /\ step'[q] # "none" => Current(q)' \in served'
<1> USE DEF TypeInv, TypeOK, PinInv, Remembered
<1>1. \A q \in Requests : Current(q)' = Current(q)
  BY SameCurrent
<1>2. CASE spilled[r]
  BY <1>1, <1>2 DEF Update
<1>3. CASE ~spilled[r]
  BY <1>1, <1>3 DEF Update
<1> QED BY <1>2, <1>3

LEMMA NoteServed ==
    ASSUME TypeInv, PinInv, NEW r \in Requests, Note(r), UNCHANGED <<chain, turn>>
    PROVE  /\ served \subseteq served'
           /\ \A q \in Requests :
                 /\ step'[q] = "touch" => step[q] = "touch"
                 /\ step'[q] # "none" => Current(q)' \in served'
<1>1. CASE noted[r]
  BY <1>1, SameCurrent DEF Note, PinInv, Remembered
<1>2. CASE ~noted[r]
  BY <1>2, UpdateServed DEF Note
<1> QED BY <1>1, <1>2

LEMMA PinInit == Init => PinInv
BY DEF Init, PinInv, PinAnswered, Remembered, Every

LEMMA PinStep ==
    ASSUME FlowAssumption, TypeInv, PinInv, [Next]_vars
    PROVE  PinInv'
<1> USE DEF world, route, seen, client, job
<1>1. CASE UNCHANGED vars
  BY <1>1 DEF vars, PinInv, PinAnswered, Remembered, Current
<1>2. ASSUME NEW r \in Requests, Resolve(r) PROVE PinInv'
  <2>1. \A q \in Requests : Current(q)' = Current(q)
    BY <1>2, SameCurrent DEF Resolve
  <2>2. \A q \in Requests :
           at'[q] = "touch" => IF q = r THEN pin # None /\ prefer'[q] = pin
                                        ELSE at[q] = "touch" /\ prefer'[q] = prefer[q]
    BY <1>2 DEF Resolve, Goto, TypeInv, TypeOK
  <2> QED BY <1>2, <2>1, <2>2 DEF Resolve, PinInv, PinAnswered, Remembered
<1>3. ASSUME NEW r \in Requests, Touch(r) PROVE PinInv'
  <2>1. \A q \in Requests : Current(q)' = Current(q)
    BY <1>3, SameCurrent DEF Touch
  <2> QED BY <1>3, <2>1
          DEF Touch, Goto, TypeInv, TypeOK, PinInv, PinAnswered, Remembered
<1>4. ASSUME NEW r \in Requests, ResolveFails(r) PROVE PinInv'
  <2>1. \A q \in Requests : Current(q)' = Current(q)
    BY <1>4, SameCurrent DEF ResolveFails
  <2> QED BY <1>4, <2>1
          DEF ResolveFails, Goto, TypeInv, TypeOK, PinInv, PinAnswered, Remembered
<1>5. ASSUME NEW r \in Requests, Pick(r) \/ Reserve(r) \/ Refuse(r) PROVE PinInv'
  <2>1. /\ step[r] = "none"
        /\ UNCHANGED <<pin, filePin, prefer, cur, step, served, turn>>
        /\ \E place \in {"reserve", "call", "release"} :
              at' = [at EXCEPT ![r] = place]
        /\ \A q \in Requests \ {r} : chain'[q] = chain[q]
    BY <1>5 DEF Pick, Reserve, Refuse, Goto, TypeInv, TypeOK, Pending, Idle
  <2>2. \A q \in Requests : step'[q] # "none" => Current(q)' = Current(q)
    BY <2>1, SameCurrent
  <2> QED BY <2>1, <2>2, PinKept DEF PinInv, Remembered, TypeInv, TypeOK
<1>6. ASSUME NEW r \in Requests,
             Degrade(r) \/ Reply(r) \/ Open(r) \/ Drop(r) \/ Leave(r) \/ Cancel(r)
             \/ ReportSuccess(r) \/ Release(r)
      PROVE PinInv'
  <2>1. UNCHANGED <<pin, filePin, prefer, cur, step, served, chain, turn>>
    BY <1>6 DEF Degrade, Reply, Open, Drop, EndWith, kept, Leave, Cancel,
                ReportSuccess, Release
  <2>2. \A q \in Requests : at'[q] = "touch" => at[q] = "touch"
    BY <1>6 DEF Degrade, Reply, Open, Drop, EndWith, Leave, Cancel, ReportSuccess,
                Release, Goto, TypeInv, TypeOK
  <2> QED BY <2>1, <2>2, SameCurrent, PinKept DEF PinInv, Remembered
<1>7. ASSUME NEW r \in Requests, Answer(r) PROVE PinInv'
  <2>1. \A q \in Requests : at'[q] = "touch" => at[q] = "touch"
    BY <1>7 DEF Answer, Goto, TypeInv, TypeOK
  <2> QED BY <1>7, <2>1, UpdateServed, PinKept DEF Answer
<1>8. ASSUME NEW r \in Requests, Payload(r) \/ FinishLine(r) \/ Finish(r) PROVE PinInv'
  <2>1. UNCHANGED <<pin, filePin, prefer, cur, chain, turn>>
    BY <1>8 DEF Payload, FinishLine, Finish, EndWith
  <2>2. \A q \in Requests : at'[q] = "touch" => at[q] = "touch"
    BY <1>8 DEF Payload, FinishLine, Finish, EndWith, Goto, TypeInv, TypeOK
  <2>3. Note(r) \/ UNCHANGED <<step, served>>
    BY <1>8 DEF Payload, FinishLine, Finish
  <2>4. CASE Note(r)
    BY <2>1, <2>2, <2>4, NoteServed, PinKept
  <2>5. CASE UNCHANGED <<step, served>>
    BY <2>1, <2>2, <2>5, SameCurrent, PinKept DEF PinInv, Remembered
  <2> QED BY <2>3, <2>4, <2>5
<1>9. ASSUME NEW r \in Requests, Reject(r) \/ Break(r) \/ Empty(r) PROVE PinInv'
  <2>1. UNCHANGED <<pin, filePin, prefer, cur, step, served, chain>>
    BY <1>9 DEF Reject, Break, Empty, kept
  <2>2. \E retry \in BOOLEAN, ending \in Endings :
           RetryOrEnd(r, retry, ending) /\ (~Idle(r) => ~retry)
    <3>1. CASE Reject(r)
      BY <3>1 DEF Reject, Endings, TypeInv, Pending
    <3>2. CASE Break(r)
      BY <3>2 DEF Break, Endings, TypeInv, TypeOK, Pending
    <3>3. CASE Empty(r)
      BY <3>3 DEF Empty, Endings, TypeInv, TypeOK, Pending
    <3> QED BY <1>9, <3>1, <3>2, <3>3
  <2>3. \A q \in Requests : at'[q] = "touch" => at[q] = "touch"
    BY <2>2 DEF RetryOrEnd, NextAccount, EndWith, Goto, TypeInv, TypeOK
  <2>4. \A q \in Requests : step[q] # "none" => turn'[q] = turn[q]
    BY <2>2 DEF RetryOrEnd, NextAccount, EndWith, Idle, TypeInv, TypeOK
  <2> QED BY <2>1, <2>3, <2>4, SameCurrent, PinKept DEF PinInv, Remembered
<1>10. ASSUME NEW r \in Requests, RebindGet(r) PROVE PinInv'
  <2>1. \A q \in Requests : Current(q)' = Current(q)
    BY <1>10, SameCurrent DEF RebindGet, elsewhere
  <2>2. \A q \in Requests : q # r => step'[q] = step[q] /\ cur'[q] = cur[q]
    BY <1>10 DEF RebindGet, Decide, TypeInv, TypeOK
  <2>3. cur'[r] = pin /\ (step'[r] = "touch" => pin # None)
    BY <1>10 DEF RebindGet, Decide, TypeInv, TypeOK
  <2> QED BY <1>10, <2>1, <2>2, <2>3
          DEF RebindGet, elsewhere, PinInv, PinAnswered, Remembered
<1>11. ASSUME NEW r \in Requests, RebindTouch(r) PROVE PinInv'
  <2>1. \A q \in Requests : Current(q)' = Current(q)
    BY <1>11, SameCurrent DEF RebindTouch, elsewhere
  <2>2. \A q \in Requests :
           step'[q] # "none" => step[q] # "none" /\ (q # r => step'[q] = step[q])
    BY <1>11 DEF RebindTouch, Decide, TypeInv, TypeOK
  <2>3. step'[r] # "touch"
    BY <1>11 DEF RebindTouch, Decide, TypeInv, TypeOK
  <2> QED BY <1>11, <2>1, <2>2, <2>3
          DEF RebindTouch, elsewhere, PinInv, PinAnswered, Remembered
<1>12. ASSUME NEW r \in Requests, RebindFails(r) PROVE PinInv'
  <2>1. \A q \in Requests : Current(q)' = Current(q)
    BY <1>12, SameCurrent DEF RebindFails, elsewhere
  <2>2. \A q \in Requests :
           /\ step'[q] # "none" => step[q] # "none"
           /\ step'[q] = "touch" => step[q] = "touch"
    BY <1>12 DEF RebindFails, Decide, TypeInv, TypeOK
  <2> QED BY <1>12, <2>1, <2>2, PinKept DEF RebindFails, elsewhere, PinInv, Remembered
<1>13. ASSUME NEW r \in Requests, Bind(r) PROVE PinInv'
  <2>1. \A q \in Requests : Current(q)' = Current(q)
    BY <1>13, SameCurrent DEF Bind, elsewhere
  <2> QED BY <1>13, <2>1
          DEF Bind, elsewhere, TypeInv, TypeOK, PinInv, PinAnswered, Remembered
<1>14. ASSUME NEW r \in Requests, BindFails(r) PROVE PinInv'
  <2>1. \A q \in Requests : Current(q)' = Current(q)
    BY <1>14, SameCurrent DEF BindFails, elsewhere
  <2>2. \A p \in Processes : filePin'[p] \in {filePin[p], Current(r)}
    BY <1>14 DEF BindFails, TypeInv, TypeOK
  <2>3. Current(r) \in served /\ step' = [step EXCEPT ![r] = "none"]
    BY <1>14 DEF BindFails, PinInv, Remembered
  <2> QED BY <1>14, <2>1, <2>2, <2>3
          DEF BindFails, elsewhere, TypeInv, TypeOK, PinInv, PinAnswered, Remembered
<1>15. ASSUME NEW r \in Requests, NextTurn(r) PROVE PinInv'
  <2>1. /\ UNCHANGED <<pin, filePin, step, served>> /\ step[r] = "none" /\ at'[r] = "resolve"
        /\ \A q \in Requests \ {r} :
              /\ at'[q] = at[q] /\ prefer'[q] = prefer[q] /\ cur'[q] = cur[q]
              /\ chain'[q] = chain[q] /\ turn'[q] = turn[q]
    BY <1>15 DEF NextTurn, Idle, Goto, TypeInv, TypeOK
  <2> QED BY <2>1, SameCurrent DEF PinInv, PinAnswered, Remembered
<1>16. CASE Expire \/ \E a \in Accounts : Cool(a)
  <2>1. /\ UNCHANGED <<filePin, prefer, cur, step, served, chain, turn, at>>
        /\ pin' \in {pin, None}
    BY <1>16 DEF Expire, Cool, elsewhere
  <2> QED BY <2>1, SameCurrent DEF PinInv, PinAnswered, Remembered
<1> QED
  BY <1>1, <1>2, <1>3, <1>4, <1>5, <1>6, <1>7, <1>8, <1>9, <1>10, <1>11, <1>12,
     <1>13, <1>14, <1>15, <1>16 DEF Next, Step

(* The conversation is pinned, in Redis and in every file map, only to an    *)
(* account that answered one of its turns and was not a stand-in for a busy  *)
(* one, whatever refreshes, updates and turns overlap: PinAnswered.          *)
THEOREM PinsAnswered == Spec => []PinAnswered
<1>1. PinInv => PinAnswered
  BY DEF PinInv
<1>2. Init => TypeInv /\ PinInv
  BY TypeInit, PinInit, FlowAssumption
<1>3. TypeInv /\ PinInv /\ [Next]_vars => (TypeInv /\ PinInv)'
  BY TypeStep, PinStep, FlowAssumption
<1> QED BY <1>1, <1>2, <1>3, PTL DEF Spec
-----------------------------------------------------------------------------
(* OneVoice is not inductive: another account is tried only by an attempt of *)
(* which the client has seen nothing and of which no success was reported or *)
(* will be.  That a report is detached and may come at any later time is why *)
(* success is noted only where no retry can follow.                          *)
Waiting == {"resolve", "touch", "pick", "reserve"}

(* No verdict was given on the account under way, or on those behind it.     *)
Unjudged(r) ==
    \A i \in DOMAIN chain[r] : i >= turn[r] => said[r][chain[r][i]] = {}

Voice(r) ==
    /\ NoRepeat(chain[r])
    /\ at[r] \in Waiting => said[r] = Silent
    /\ at[r] = "call" \/ (at[r] = "stream" /\ ~noted[r]) => Unjudged(r)
    /\ noted[r] => at[r] \in {"stream", "release", "done"}
    /\ noted[r] /\ at[r] = "stream" => started[r]
    /\ report[r] => noted[r]
    /\ at[r] \in Waiting \cup {"call", "affinity"} => from[r] = {}
    /\ at[r] = "stream" /\ ~content[r] => from[r] = {}
    /\ from[r] # {} => from[r] = {Current(r)}
    /\ turn[r] = 1 \/ turn[r] \in DOMAIN chain[r]
    /\ \A i \in DOMAIN chain[r] : i < turn[r] => said[r][chain[r][i]] = {"failure"}

VoiceInv == \A r \in Requests : Voice(r)

(* A step leaves alone the requests whose variables it does not touch.       *)
LEMMA VoiceFrame ==
    ASSUME NEW q \in Requests, Voice(q), at'[q] = at[q], chain'[q] = chain[q],
           turn'[q] = turn[q], started'[q] = started[q], content'[q] = content[q],
           noted'[q] = noted[q], from'[q] = from[q], said'[q] = said[q],
           report'[q] = report[q]
    PROVE  Voice(q)'
BY DEF Voice, Unjudged, Current, NoRepeat

(* A verdict is about the account under way, which the chain has only once.  *)
LEMMA SaysOnce ==
    ASSUME TypeOK, NEW r \in Requests, NoRepeat(chain[r]), turn[r] \in DOMAIN chain[r],
           NEW verdict \in {"success", "failure"}, Says(r, verdict)
    PROVE  /\ said'[r][Current(r)] = said[r][Current(r)] \cup {verdict}
           /\ \A i \in DOMAIN chain[r] :
                 i # turn[r] => said'[r][chain[r][i]] = said[r][chain[r][i]]
           /\ \A q \in Requests \ {r} : said'[q] = said[q]
<1>1. Current(r) \in Accounts /\ Current(r) = chain[r][turn[r]]
  BY CurrentType DEF Current
<1>2. said[r] \in [Accounts -> SUBSET {"success", "failure"}]
  BY DEF TypeOK
<1>3. said'[r] = [said[r] EXCEPT ![Current(r)] = @ \cup {verdict}]
  BY DEF Says, TypeOK
<1>4. \A i \in DOMAIN chain[r] :
         i # turn[r] => chain[r][i] \in Accounts /\ chain[r][i] # Current(r)
  BY <1>1 DEF NoRepeat, TypeOK
<1>5. \A q \in Requests \ {r} : said'[q] = said[q]
  BY DEF Says, TypeOK
<1> QED BY <1>1, <1>2, <1>3, <1>4, <1>5

LEMMA VoiceInit == Init => VoiceInv
<1> SUFFICES ASSUME Init, NEW r \in Requests PROVE Voice(r)
  BY DEF VoiceInv
<1>1. /\ at[r] = "resolve" /\ chain[r] = << >> /\ said[r] = Silent /\ from[r] = {}
      /\ noted[r] = FALSE /\ report[r] = FALSE /\ turn[r] = 1
  BY DEF Init, Every
<1> QED BY <1>1 DEF Voice, Unjudged, NoRepeat, Waiting

(* An attempt that ends with a failure: the next account is tried only where *)
(* nothing of this attempt has been seen or noted.                           *)
LEMMA VoiceEnds ==
    ASSUME TypeInv, VoiceInv, NEW r \in Requests, at[r] \in {"call", "stream"},
           Says(r, "failure") \/ said' = said,
           NEW retry \in BOOLEAN, NEW ending \in Endings, RetryOrEnd(r, retry, ending),
           retry => /\ Says(r, "failure")
                    /\ at[r] = "call" \/ (~started[r] /\ ~content[r]),
           UNCHANGED <<chain, content, noted, from, report>>
    PROVE  VoiceInv'
<1> USE DEF TypeInv
<1>1. turn[r] \in DOMAIN chain[r] /\ Voice(r)
  BY DEF TypeOK, VoiceInv
<1>2. /\ NoRepeat(chain[r]) /\ turn[r] \in Nat
      /\ DOMAIN chain[r] = 1..Len(chain[r]) /\ Len(chain[r]) \in Nat
  BY <1>1, LenProperties DEF Voice, TypeOK
<1>3. /\ said'[r][Current(r)] \in {said[r][Current(r)], said[r][Current(r)] \cup {"failure"}}
      /\ Says(r, "failure") => said'[r][Current(r)] = said[r][Current(r)] \cup {"failure"}
      /\ \A i \in DOMAIN chain[r] :
            i # turn[r] => said'[r][chain[r][i]] = said[r][chain[r][i]]
      /\ \A q \in Requests \ {r} : said'[q] = said[q]
  BY <1>1, <1>2, SaysOnce
<1>4. /\ at'[r] \in {"call", "release"} /\ at'[r] = "call" => retry
      /\ \A q \in Requests \ {r} :
            at'[q] = at[q] /\ turn'[q] = turn[q] /\ started'[q] = started[q]
  BY <1>1, MoveType
<1>5. \A q \in Requests \ {r} : Voice(q)'
  BY <1>3, <1>4, VoiceFrame DEF VoiceInv
<1>6. CASE retry /\ More(r)
  <2>1. at'[r] = "call" /\ turn'[r] = turn[r] + 1 /\ turn'[r] \in DOMAIN chain[r]
    BY <1>1, <1>6, MoveType DEF RetryOrEnd, NextAccount, Goto, TypeOK
  <2>2. ~noted[r] /\ from[r] = {} /\ ~report[r] /\ Unjudged(r)
    BY <1>1, <1>6 DEF Voice
  <2>3. said'[r][Current(r)] = {"failure"}
    <3>1. said[r][chain[r][turn[r]]] = {}
      <4>1. turn[r] >= turn[r]
        BY <1>2
      <4> QED BY <1>1, <2>2, <4>1 DEF Unjudged
    <3> QED BY <1>3, <1>6, <3>1 DEF Current
  <2>4. ASSUME NEW i \in DOMAIN chain[r], i < turn'[r]
        PROVE  said'[r][chain[r][i]] = {"failure"}
    <3>1. CASE i = turn[r]
      BY <2>3, <3>1 DEF Current
    <3>2. CASE i # turn[r]
      <4>1. i < turn[r]
        BY <1>2, <2>1, <2>4, <3>2
      <4> QED BY <1>1, <1>3, <3>2, <4>1 DEF Voice
    <3> QED BY <3>1, <3>2
  <2>5. ASSUME NEW i \in DOMAIN chain[r], i >= turn'[r]
        PROVE  said'[r][chain[r][i]] = {}
    <3>1. i > turn[r]
      BY <1>2, <2>1, <2>5
    <3>2. i >= turn[r] /\ i # turn[r]
      BY <1>2, <3>1
    <3> QED BY <1>3, <2>2, <3>2 DEF Unjudged
  <2>6. Voice(r)'
    BY <1>2, <2>1, <2>2, <2>4, <2>5 DEF Voice, Unjudged, NoRepeat, Waiting
  <2> QED BY <1>5, <2>6 DEF VoiceInv
<1>7. CASE ~(retry /\ More(r))
  <2>1. at'[r] = "release" /\ turn' = turn
    BY <1>7 DEF RetryOrEnd, EndWith, Goto, TypeOK
  <2>2. \A i \in DOMAIN chain[r] : i < turn[r] => said'[r][chain[r][i]] = {"failure"}
    <3>1. \A i \in DOMAIN chain[r] : i < turn[r] => i # turn[r]
      BY <1>2
    <3> QED BY <1>1, <1>3, <3>1 DEF Voice
  <2>3. Voice(r)'
    BY <1>1, <2>1, <2>2 DEF Voice, Unjudged, NoRepeat, Waiting, Current
  <2> QED BY <1>5, <2>3 DEF VoiceInv
<1> QED BY <1>6, <1>7

LEMMA VoiceStep ==
    ASSUME FlowAssumption, TypeInv, VoiceInv, [Next]_vars
    PROVE  VoiceInv'
<1> USE DEF world, route, seen, client, job, TypeInv
<1> DEFINE Same(q) ==
        /\ chain'[q] = chain[q] /\ turn'[q] = turn[q] /\ started'[q] = started[q]
        /\ content'[q] = content[q] /\ noted'[q] = noted[q] /\ from'[q] = from[q]
        /\ said'[q] = said[q] /\ report'[q] = report[q]
<1>0. ASSUME NEW r \in Requests, Voice(r)',
             \A q \in Requests \ {r} : at'[q] = at[q] /\ Same(q)
      PROVE VoiceInv'
  BY <1>0, VoiceFrame DEF VoiceInv
<1>1. CASE UNCHANGED <<at, route, seen, client, report, said>>
  BY <1>1, VoiceFrame DEF VoiceInv
<1>2. ASSUME NEW r \in Requests, Resolve(r) \/ Touch(r) \/ ResolveFails(r) PROVE VoiceInv'
  <2>1. /\ at[r] \in Waiting /\ at'[r] \in Waiting /\ Same(r)
        /\ \A q \in Requests \ {r} : at'[q] = at[q] /\ Same(q)
    BY <1>2 DEF Resolve, Touch, ResolveFails, Goto, Waiting, TypeOK
  <2>2. Voice(r)'
    BY <2>1 DEF VoiceInv, Voice, Unjudged, NoRepeat, Waiting, Current
  <2> QED BY <1>0, <2>1, <2>2
<1>3. ASSUME NEW r \in Requests, Pick(r) PROVE VoiceInv'
  <2>1. /\ at[r] = "pick" /\ at'[r] = "reserve" /\ NoRepeat(chain'[r]) /\ turn[r] = 1
        /\ turn'[r] = 1 /\ noted'[r] = noted[r] /\ from'[r] = from[r] /\ said'[r] = said[r]
        /\ report'[r] = report[r]
        /\ \A q \in Requests \ {r} : at'[q] = at[q] /\ Same(q)
    BY <1>3 DEF Pick, Goto, TypeOK, Early
  <2>2. PICK s \in Chains : chain'[r] = s
    BY <1>3 DEF Pick, TypeOK
  <2>3. \A i \in DOMAIN chain'[r] : ~(i < 1)
    <3>1. PICK n \in 1..Cardinality(Accounts) : s \in [1..n -> Accounts]
      BY DEF Chains
    <3> QED BY <2>2, <3>1
  <2>4. Voice(r)'
    BY <2>1, <2>3 DEF VoiceInv, Voice, Waiting, NoRepeat
  <2> QED BY <1>0, <2>1, <2>4
<1>4. ASSUME NEW r \in Requests, Reserve(r) PROVE VoiceInv'
  <2>1. PICK i \in DOMAIN chain[r] :
           chain' = [chain EXCEPT ![r] = SubSeq(chain[r], i, Len(chain[r]))]
    BY <1>4 DEF Reserve
  <2>2. /\ at[r] = "reserve" /\ at'[r] = "call" /\ turn[r] = 1 /\ turn'[r] = 1
        /\ noted'[r] = noted[r] /\ from'[r] = from[r] /\ said'[r] = said[r]
        /\ report'[r] = report[r]
        /\ \A q \in Requests \ {r} : at'[q] = at[q] /\ Same(q)
    BY <1>4 DEF Reserve, Goto, TypeOK, Early
  <2>3. chain[r] \in Seq(Accounts) /\ NoRepeat(chain[r]) /\ said[r] = Silent
    BY <2>2 DEF TypeOK, VoiceInv, Voice, Waiting
  <2>4. /\ chain'[r] \in Seq(Accounts) /\ NoRepeat(chain'[r])
        /\ \A j \in DOMAIN chain'[r] : ~(j < 1)
    <3>1. i \in 1..Len(chain[r]) /\ Len(chain[r]) \in Nat
      BY <2>3, LenProperties
    <3>2. /\ chain'[r] = SubSeq(chain[r], i, Len(chain[r]))
          /\ chain'[r] \in Seq(Accounts)
          /\ Len(chain'[r]) = Len(chain[r]) - i + 1
          /\ \A j \in 1..(Len(chain[r]) - i + 1) : chain'[r][j] = chain[r][i + j - 1]
      BY <2>1, <2>3, <3>1, SubSeqProperties, SMTT(60) DEF TypeOK
    <3>3. DOMAIN chain'[r] = 1..(Len(chain[r]) - i + 1) /\ DOMAIN chain[r] = 1..Len(chain[r])
      BY <2>3, <3>2, LenProperties
    <3>4. ASSUME NEW j \in DOMAIN chain'[r], NEW k \in DOMAIN chain'[r],
                 chain'[r][j] = chain'[r][k]
          PROVE  j = k
      <4>1. i + j - 1 \in DOMAIN chain[r] /\ i + k - 1 \in DOMAIN chain[r]
        BY <3>1, <3>3, SMTT(60)
      <4>2. chain[r][i + j - 1] = chain[r][i + k - 1]
        BY <3>2, <3>3, <3>4
      <4>3. i + j - 1 = i + k - 1
        BY <2>3, <4>1, <4>2 DEF NoRepeat
      <4> QED BY <3>1, <3>3, <4>3
    <3>5. \A j \in DOMAIN chain'[r] : ~(j < 1)
      BY <3>1, <3>3
    <3> QED BY <3>2, <3>4, <3>5 DEF NoRepeat
  <2>5. \A j \in DOMAIN chain'[r] : said'[r][chain'[r][j]] = {}
    BY <2>2, <2>3, <2>4 DEF Silent
  <2>6. Voice(r)'
    BY <2>2, <2>4, <2>5 DEF VoiceInv, Voice, Unjudged, Waiting, NoRepeat
  <2> QED BY <1>0, <2>2, <2>6
<1>5. ASSUME NEW r \in Requests, Refuse(r) PROVE VoiceInv'
  <2>1. /\ at[r] = "reserve" /\ at'[r] = "release" /\ chain'[r] = << >> /\ ~report'[r]
        /\ noted'[r] = noted[r] /\ from'[r] = {} /\ turn'[r] = 1
        /\ \A q \in Requests \ {r} : at'[q] = at[q] /\ Same(q)
    BY <1>5, ZenonT(60) DEF Refuse, Goto, TypeOK, VoiceInv, Voice, Waiting, Early
  <2>2. Voice(r)'
    BY <2>1 DEF VoiceInv, Voice, Waiting, NoRepeat
  <2> QED BY <1>0, <2>1, <2>2
<1>6. ASSUME NEW r \in Requests, Degrade(r) PROVE VoiceInv'
  <2>1. /\ at[r] = "reserve" /\ at'[r] = "call" /\ turn[r] = 1 /\ Same(r)
        /\ \A q \in Requests \ {r} : at'[q] = at[q] /\ Same(q)
    BY <1>6 DEF Degrade, Goto, TypeOK, Early
  <2>2. \A i \in DOMAIN chain[r] : chain[r][i] \in Accounts
    BY DEF TypeOK
  <2>3. Voice(r)'
    BY <2>1, <2>2 DEF VoiceInv, Voice, Unjudged, Silent, Waiting, NoRepeat, Current
  <2> QED BY <1>0, <2>1, <2>3
<1>7. ASSUME NEW r \in Requests, Answer(r) PROVE VoiceInv'
  <2>1. /\ at[r] = "call" /\ at'[r] = "affinity" /\ turn[r] \in DOMAIN chain[r]
        /\ Says(r, "success") /\ turn[r] \in Nat
        /\ UNCHANGED <<chain, turn, started, content, noted, from, report>>
        /\ \A q \in Requests \ {r} : at'[q] = at[q]
    BY <1>7 DEF Answer, Goto, TypeOK
  <2>2. Voice(r)
    BY DEF VoiceInv
  <2>3. /\ \A i \in DOMAIN chain[r] :
              i # turn[r] => said'[r][chain[r][i]] = said[r][chain[r][i]]
        /\ \A q \in Requests \ {r} : said'[q] = said[q]
    BY <2>1, <2>2, SaysOnce DEF Voice
  <2>4. \A i \in DOMAIN chain[r] : i < turn[r] => said'[r][chain[r][i]] = {"failure"}
    BY <2>1, <2>2, <2>3 DEF Voice
  <2>5. Voice(r)'
    BY <2>1, <2>2, <2>4 DEF Voice, Waiting, NoRepeat
  <2> QED BY <1>0, <2>1, <2>3, <2>5
<1>8. ASSUME NEW r \in Requests, Reply(r) PROVE VoiceInv'
  <2>1. /\ at[r] = "affinity" /\ at'[r] = "release"
        /\ from'[r] = from[r] \cup {Current(r)}
        /\ UNCHANGED <<chain, turn, started, content, noted, said, report>>
        /\ \A q \in Requests \ {r} : at'[q] = at[q] /\ from'[q] = from[q]
    BY <1>8 DEF Reply, Goto, TypeOK
  <2>2. Voice(r)'
    BY <2>1 DEF VoiceInv, Voice, Waiting, NoRepeat, Current
  <2> QED BY <1>0, <2>1, <2>2
<1>9. ASSUME NEW r \in Requests, Reject(r) \/ Break(r) \/ Empty(r) PROVE VoiceInv'
  <2>1. /\ Says(r, "failure") /\ at[r] \in {"call", "stream"}
        /\ UNCHANGED <<chain, content, noted, from, report>>
    BY <1>9 DEF Reject, Break, Empty, Fail, kept
  <2>2. \E retry \in BOOLEAN, ending \in Endings :
           /\ RetryOrEnd(r, retry, ending)
           /\ retry => at[r] = "call" \/ (~started[r] /\ ~content[r])
    <3>1. CASE Reject(r)
      BY <3>1 DEF Reject, Endings
    <3>2. CASE Break(r)
      BY <3>2 DEF Break, Endings
    <3>3. CASE Empty(r)
      BY <3>3 DEF Empty, Endings
    <3> QED BY <1>9, <3>1, <3>2, <3>3
  <2> QED BY <2>1, <2>2, VoiceEnds
<1>10. ASSUME NEW r \in Requests, Drop(r) PROVE VoiceInv'
  <2>1. /\ (at[r] = "stream" /\ Says(r, "failure")) \/ said' = said
        /\ EndWith(r, "error")
        /\ UNCHANGED <<chain, content, noted, from, report>>
    BY <1>10 DEF Drop, Fail, kept
  <2>2. at[r] = "stream"
    BY <1>10 DEF Drop
  <2>3. RetryOrEnd(r, FALSE, "error") /\ "error" \in Endings
    BY <2>1 DEF RetryOrEnd, Endings
  <2> QED BY <1>10, <2>1, <2>2, <2>3, VoiceEnds DEF Drop, Fail
<1>11. ASSUME NEW r \in Requests, Open(r) PROVE VoiceInv'
  <2>1. /\ at[r] = "call" /\ at'[r] = "stream" /\ ~noted[r]
        /\ UNCHANGED <<chain, turn, content, noted, from, said, report>>
        /\ \A q \in Requests \ {r} : at'[q] = at[q] /\ started'[q] = started[q]
    BY <1>11 DEF Open, Goto, TypeOK, VoiceInv, Voice
  <2>2. Voice(r)'
    BY <2>1, ZenonT(60) DEF VoiceInv, Voice, Unjudged, Waiting, NoRepeat, Current
  <2> QED BY <1>0, <2>1, <2>2
<1>12. ASSUME NEW r \in Requests, Payload(r) \/ FinishLine(r) \/ Finish(r) PROVE VoiceInv'
  <2>1. /\ at[r] = "stream" /\ at'[r] \in {"stream", "release"}
        /\ UNCHANGED <<chain, said>>
        /\ at'[r] = "stream" => turn' = turn /\ started'[r] /\ (content[r] => content'[r])
        /\ turn'[r] = turn[r]
        /\ \A q \in Requests \ {r} :
              /\ at'[q] = at[q] /\ turn'[q] = turn[q] /\ started'[q] = started[q]
              /\ content'[q] = content[q] /\ from'[q] = from[q]
    BY <1>12 DEF Payload, FinishLine, Finish, EndWith, Goto, TypeOK
  <2>2. /\ noted'[r] \/ (noted'[r] = noted[r] /\ report'[r] = report[r])
        /\ noted[r] => noted'[r]
        /\ \A q \in Requests \ {r} : noted'[q] = noted[q] /\ report'[q] = report[q]
    BY <1>12 DEF Payload, FinishLine, Finish, Note, TypeOK
  <2>3. /\ from'[r] \in {from[r], from[r] \cup {Current(r)}}
        /\ at'[r] = "stream" => content'[r] \/ from'[r] = from[r]
    BY <1>12 DEF Payload, FinishLine, Finish, TypeOK
  <2>4. Voice(r)'
    BY <2>1, <2>2, <2>3 DEF VoiceInv, Voice, Unjudged, Waiting, NoRepeat, Current
  <2> QED BY <1>0, <2>1, <2>2, <2>4
<1>13. ASSUME NEW r \in Requests, Leave(r) \/ Cancel(r) PROVE VoiceInv'
  <2>1. /\ at[r] \in {"call", "stream"} /\ at'[r] \in {"stream", "release"}
        /\ at'[r] = "stream" => at[r] = "stream"
        /\ UNCHANGED <<chain, turn, started, content, noted, from, said, report>>
        /\ \A q \in Requests \ {r} : at'[q] = at[q]
    BY <1>13 DEF Leave, Cancel, Goto, TypeOK
  <2>2. Voice(r)'
    BY <2>1 DEF VoiceInv, Voice, Unjudged, Waiting, NoRepeat, Current
  <2> QED BY <1>0, <2>1, <2>2
<1>14. ASSUME NEW r \in Requests, ReportSuccess(r) PROVE VoiceInv'
  <2>1. /\ Says(r, "success") /\ report[r] /\ ~Idle(r) /\ report'[r] = FALSE
        /\ UNCHANGED <<at, chain, turn, started, content, noted, from>>
        /\ \A q \in Requests \ {r} : report'[q] = report[q]
    BY <1>14 DEF ReportSuccess, Idle, TypeOK
  <2>2. Voice(r) /\ noted[r] /\ turn[r] \in DOMAIN chain[r] /\ turn[r] \in Nat
    BY <2>1 DEF VoiceInv, Voice, Pending, TypeOK
  <2>3. /\ \A i \in DOMAIN chain[r] :
              i # turn[r] => said'[r][chain[r][i]] = said[r][chain[r][i]]
        /\ \A q \in Requests \ {r} : said'[q] = said[q]
    BY <2>1, <2>2, SaysOnce DEF Voice
  <2>4. \A i \in DOMAIN chain[r] : i < turn[r] => said'[r][chain[r][i]] = {"failure"}
    BY <2>2, <2>3 DEF Voice
  <2>5. Voice(r)'
    BY <2>1, <2>2, <2>4 DEF Voice, Waiting, NoRepeat, Current
  <2> QED BY <1>0, <2>1, <2>3, <2>5
<1>15. ASSUME NEW r \in Requests, Release(r) PROVE VoiceInv'
  <2>1. /\ at[r] = "release" /\ at'[r] = "done"
        /\ UNCHANGED <<chain, turn, started, content, noted, from, said, report>>
        /\ \A q \in Requests \ {r} : at'[q] = at[q]
    BY <1>15 DEF Release, Goto, TypeOK
  <2>2. Voice(r)'
    BY <2>1 DEF VoiceInv, Voice, Waiting, NoRepeat, Current
  <2> QED BY <1>0, <2>1, <2>2
<1>16. ASSUME NEW r \in Requests, NextTurn(r) PROVE VoiceInv'
  <2>1. /\ at'[r] = "resolve" /\ chain'[r] = << >> /\ said'[r] = Silent /\ from'[r] = {}
        /\ noted'[r] = FALSE /\ report'[r] = FALSE /\ turn'[r] = 1
        /\ \A q \in Requests \ {r} : at'[q] = at[q] /\ Same(q)
    BY <1>16 DEF NextTurn, Idle, Goto, TypeOK
  <2>2. Voice(r)'
    BY <2>1 DEF Voice, Waiting, NoRepeat
  <2> QED BY <1>0, <2>1, <2>2
<1>17. ASSUME NEW r \in Requests,
              RebindGet(r) \/ RebindTouch(r) \/ RebindFails(r) \/ Bind(r) \/ BindFails(r)
       PROVE VoiceInv'
  BY <1>1, <1>17 DEF RebindGet, RebindTouch, RebindFails, Bind, BindFails, elsewhere
<1>18. CASE Expire \/ \E a \in Accounts : Cool(a)
  BY <1>1, <1>18 DEF Expire, Cool, elsewhere
<1>19. CASE UNCHANGED vars
  BY <1>1, <1>19 DEF vars
<1> QED
  BY <1>2, <1>3, <1>4, <1>5, <1>6, <1>7, <1>8, <1>9, <1>10, <1>11, <1>12, <1>13,
     <1>14, <1>15, <1>16, <1>17, <1>18, <1>19 DEF Next, Step

(* A client is answered by one account, and every account tried before it    *)
(* has failed, whatever detached reports and cancellations come in between:  *)
(* OneVoice.                                                                 *)
THEOREM VoicesAreOne == Spec => []OneVoice
<1>1. TypeInv /\ VoiceInv => OneVoice
  <2> SUFFICES ASSUME TypeInv, VoiceInv, NEW r \in Requests
               PROVE  /\ from[r] # {} => from[r] = {Current(r)}
                      /\ \A i \in 1..(turn[r] - 1) : said[r][chain[r][i]] = {"failure"}
    BY DEF OneVoice
  <2>1. Voice(r) /\ turn[r] \in Nat
    BY DEF VoiceInv, TypeInv, TypeOK
  <2>2. DOMAIN chain[r] = 1..Len(chain[r]) /\ Len(chain[r]) \in Nat
    BY LenProperties DEF TypeInv, TypeOK
  <2>3. \A i \in 1..(turn[r] - 1) : i \in DOMAIN chain[r] /\ i < turn[r]
    BY <2>1, <2>2 DEF Voice
  <2> QED BY <2>1, <2>3 DEF Voice
<1>2. Init => TypeInv /\ VoiceInv
  BY TypeInit, VoiceInit, FlowAssumption
<1>3. TypeInv /\ VoiceInv /\ [Next]_vars => (TypeInv /\ VoiceInv)'
  BY TypeStep, VoiceStep, FlowAssumption
<1> QED BY <1>1, <1>2, <1>3, PTL DEF Spec
-----------------------------------------------------------------------------
(* AttemptsJudged, at the end of a turn, rests on what holds on the way: a   *)
(* success is told of the account under way only, and by then it is noted or *)
(* collected; what is noted and no longer pending has been told; and a turn  *)
(* that is over was left, answered or failed.                                *)
Told(r, verdict) == verdict \in said[r][Current(r)]

Verdict(r) ==
    /\ \A a \in Accounts : "success" \in said[r][a] =>
          a = Current(r) /\ (noted[r] \/ at[r] \in {"affinity", "release", "done"})
    /\ noted[r] /\ ~report[r] => Told(r, "success")
    /\ noted[r] \/ at[r] = "stream" => handler[r] # "json"
    /\ at[r] = "affinity" => handler[r] = "json" /\ Told(r, "success")
    /\ at[r] \in {"release", "done"} /\ chain[r] # << >> =>
          \/ gone[r]
          \/ /\ last[r] = "answer"
             /\ IF handler[r] = "json" THEN Told(r, "success") ELSE noted[r]
          \/ /\ last[r] \in {"error", "empty"}
             /\ handler[r] = "responses" \/ Told(r, "failure")

VerdictInv == \A r \in Requests : Verdict(r)

LEMMA VerdictFrame ==
    ASSUME NEW q \in Requests, Verdict(q), at'[q] = at[q], chain'[q] = chain[q],
           turn'[q] = turn[q], handler'[q] = handler[q], noted'[q] = noted[q],
           report'[q] = report[q], said'[q] = said[q], gone'[q] = gone[q],
           last'[q] = last[q]
    PROVE  Verdict(q)'
BY DEF Verdict, Told, Current

(* What a verdict makes of what was told of the accounts.                    *)
LEMMA SaysTold ==
    ASSUME TypeOK, NEW r \in Requests, turn[r] \in DOMAIN chain[r],
           NEW verdict \in {"success", "failure"}, Says(r, verdict)
    PROVE  /\ verdict \in said'[r][Current(r)]
           /\ \A a \in Accounts : said[r][a] \subseteq said'[r][a]
           /\ \A a \in Accounts \ {Current(r)} : said'[r][a] = said[r][a]
           /\ verdict = "failure" =>
                 \A a \in Accounts : "success" \in said'[r][a] => "success" \in said[r][a]
           /\ \A q \in Requests \ {r} : said'[q] = said[q]
<1>1. Current(r) \in Accounts
  BY CurrentType
<1>2. said[r] \in [Accounts -> SUBSET {"success", "failure"}]
  BY DEF TypeOK
<1>3. said'[r] = [said[r] EXCEPT ![Current(r)] = @ \cup {verdict}]
  BY DEF Says, TypeOK
<1>4. \A q \in Requests \ {r} : said'[q] = said[q]
  BY DEF Says, TypeOK
<1> QED BY <1>1, <1>2, <1>3, <1>4

LEMMA VerdictInit == Init => VerdictInv
<1> SUFFICES ASSUME Init, NEW r \in Requests PROVE Verdict(r)
  BY DEF VerdictInv
<1>1. at[r] = "resolve" /\ said[r] = Silent /\ noted[r] = FALSE
  BY DEF Init, Every
<1> QED BY <1>1 DEF Verdict, Silent

(* The end of an attempt that has failed.                                    *)
LEMMA VerdictEnds ==
    ASSUME TypeInv, VoiceInv, VerdictInv, NEW r \in Requests,
           at[r] \in {"call", "stream"},
           Says(r, "failure") \/ (handler[r] = "responses" /\ said' = said),
           NEW retry \in BOOLEAN, NEW ending \in {"error", "empty"},
           RetryOrEnd(r, retry, ending), retry => at[r] = "call" \/ ~started[r],
           UNCHANGED <<chain, handler, noted, report, gone>>
    PROVE  VerdictInv'
<1> USE DEF TypeInv
<1>1. turn[r] \in DOMAIN chain[r] /\ Voice(r) /\ Verdict(r)
  BY DEF TypeOK, VoiceInv, VerdictInv
<1>2. /\ \A a \in Accounts : "success" \in said'[r][a] => "success" \in said[r][a]
      /\ \A a \in Accounts : said[r][a] \subseteq said'[r][a]
      /\ handler[r] = "responses" \/ "failure" \in said'[r][Current(r)]
      /\ \A q \in Requests \ {r} : said'[q] = said[q]
  BY <1>1, SaysTold
<1>3. Current(r) \in Accounts
  BY <1>1, CurrentType
<1>4. \A q \in Requests \ {r} :
         at'[q] = at[q] /\ turn'[q] = turn[q] /\ last'[q] = last[q]
  BY DEF RetryOrEnd, NextAccount, EndWith, Goto, TypeOK
<1>5. \A q \in Requests \ {r} : Verdict(q)'
  BY <1>2, <1>4, VerdictFrame DEF VerdictInv
<1>6. CASE retry /\ More(r)
  <2>1. at'[r] = "call" /\ ~noted[r]
    BY <1>1, <1>6 DEF RetryOrEnd, NextAccount, Goto, TypeOK, Voice
  <2>2. \A a \in Accounts : "success" \notin said'[r][a]
    BY <1>1, <1>2, <2>1 DEF Verdict
  <2>3. Verdict(r)'
    BY <2>1, <2>2 DEF Verdict
  <2> QED BY <1>5, <2>3 DEF VerdictInv
<1>7. CASE ~(retry /\ More(r))
  <2>1. at'[r] = "release" /\ last'[r] = ending /\ turn' = turn
    BY <1>7 DEF RetryOrEnd, EndWith, Goto, TypeOK
  <2>2. Current(r)' = Current(r)
    BY <2>1 DEF Current
  <2>3. Verdict(r)'
    BY <1>1, <1>2, <1>3, <2>1, <2>2 DEF Verdict, Told
  <2> QED BY <1>5, <2>3 DEF VerdictInv
<1> QED BY <1>6, <1>7

LEMMA VerdictStep ==
    ASSUME FlowAssumption, TypeInv, VoiceInv, VerdictInv, [Next]_vars
    PROVE  VerdictInv'
<1> USE DEF world, route, seen, client, job, TypeInv
<1> DEFINE Same(q) ==
        /\ chain'[q] = chain[q] /\ turn'[q] = turn[q] /\ handler'[q] = handler[q]
        /\ noted'[q] = noted[q] /\ report'[q] = report[q] /\ said'[q] = said[q]
        /\ gone'[q] = gone[q] /\ last'[q] = last[q]
<1>0. ASSUME NEW r \in Requests, Verdict(r)',
             \A q \in Requests \ {r} : at'[q] = at[q] /\ Same(q)
      PROVE VerdictInv'
  BY <1>0, VerdictFrame DEF VerdictInv
<1>1. CASE UNCHANGED <<at, route, seen, client, report, said>>
  BY <1>1, VerdictFrame DEF VerdictInv
<1>2. ASSUME NEW r \in Requests,
             Resolve(r) \/ Touch(r) \/ ResolveFails(r) \/ Pick(r) \/ Reserve(r)
             \/ Refuse(r) \/ Degrade(r)
      PROVE VerdictInv'
  <2>1. /\ at[r] \in Waiting /\ said'[r] = said[r] /\ noted'[r] = noted[r]
        /\ at'[r] \in Waiting \cup {"call"} \/ (at'[r] = "release" /\ chain'[r] = << >>)
        /\ \A q \in Requests \ {r} : at'[q] = at[q] /\ Same(q)
    BY <1>2 DEF Resolve, Touch, ResolveFails, Pick, Reserve, Refuse, Degrade, Goto,
                Waiting, TypeOK
  <2>2. ~noted[r] /\ said[r] = Silent
    BY <2>1 DEF VoiceInv, Voice, Waiting
  <2>3. Verdict(r)'
    BY <2>1, <2>2 DEF Verdict, Waiting, Silent
  <2> QED BY <1>0, <2>1, <2>3
<1>3. ASSUME NEW r \in Requests, Answer(r) PROVE VerdictInv'
  <2>1. /\ at[r] = "call" /\ at'[r] = "affinity" /\ turn[r] \in DOMAIN chain[r]
        /\ Says(r, "success") /\ handler[r] = "json"
        /\ UNCHANGED <<chain, turn, handler, noted, report, gone, last>>
        /\ \A q \in Requests \ {r} : at'[q] = at[q]
    BY <1>3 DEF Answer, Goto, TypeOK
  <2>2. Voice(r) /\ Verdict(r) /\ Current(r)' = Current(r)
    BY <2>1 DEF VoiceInv, VerdictInv, Current
  <2>3. /\ "success" \in said'[r][Current(r)]
        /\ \A a \in Accounts \ {Current(r)} : said'[r][a] = said[r][a]
        /\ \A q \in Requests \ {r} : said'[q] = said[q]
    BY <2>1, SaysTold
  <2>4. ~noted[r]
    BY <2>1, <2>2 DEF Voice
  <2>5. Verdict(r)'
    BY <2>1, <2>2, <2>3, <2>4 DEF Verdict, Told
  <2> QED BY <1>0, <2>1, <2>3, <2>5
<1>4. ASSUME NEW r \in Requests, Reply(r) PROVE VerdictInv'
  <2>1. /\ at[r] = "affinity" /\ at'[r] = "release" /\ last'[r] = "answer"
        /\ UNCHANGED <<chain, turn, handler, noted, report, said, gone>>
        /\ \A q \in Requests \ {r} : at'[q] = at[q] /\ last'[q] = last[q]
    BY <1>4 DEF Reply, Goto, TypeOK
  <2>2. Verdict(r)'
    BY <2>1 DEF VerdictInv, Verdict, Told, Current
  <2> QED BY <1>0, <2>1, <2>2
<1>5. ASSUME NEW r \in Requests, Reject(r) \/ Break(r) \/ Empty(r) PROVE VerdictInv'
  <2>1. /\ Says(r, "failure") /\ at[r] \in {"call", "stream"}
        /\ UNCHANGED <<chain, handler, noted, report, gone>>
    BY <1>5 DEF Reject, Break, Empty, Fail, kept
  <2>2. \E retry \in BOOLEAN, ending \in {"error", "empty"} :
           RetryOrEnd(r, retry, ending) /\ (retry => at[r] = "call" \/ ~started[r])
    <3>1. CASE Reject(r)
      BY <3>1 DEF Reject
    <3>2. CASE Break(r)
      BY <3>2 DEF Break
    <3>3. CASE Empty(r)
      BY <3>3 DEF Empty
    <3> QED BY <1>5, <3>1, <3>2, <3>3
  <2> QED BY <2>1, <2>2, VerdictEnds
<1>6. ASSUME NEW r \in Requests, Drop(r) PROVE VerdictInv'
  <2>1. /\ at[r] = "stream" /\ RetryOrEnd(r, FALSE, "error")
        /\ UNCHANGED <<chain, handler, noted, report, gone>>
    BY <1>6 DEF Drop, RetryOrEnd, kept
  <2>2. Says(r, "failure") \/ (handler[r] = "responses" /\ said' = said)
    BY <1>6 DEF Drop, Fail
  <2> QED BY <2>1, <2>2, VerdictEnds
<1>7. ASSUME NEW r \in Requests, Open(r) PROVE VerdictInv'
  <2>1. /\ at[r] = "call" /\ at'[r] = "stream" /\ handler[r] # "json" /\ ~noted[r]
        /\ UNCHANGED <<chain, turn, handler, noted, report, said, gone, last>>
        /\ \A q \in Requests \ {r} : at'[q] = at[q]
    BY <1>7 DEF Open, Goto, TypeOK, VoiceInv, Voice
  <2>2. Verdict(r)'
    BY <2>1 DEF VerdictInv, Verdict, Current
  <2> QED BY <1>0, <2>1, <2>2
<1>8. ASSUME NEW r \in Requests, Payload(r) \/ FinishLine(r) \/ Finish(r)
      PROVE VerdictInv'
  <2>1. /\ at[r] = "stream"
        /\ at'[r] = "stream" \/ (at'[r] = "release" /\ last'[r] = "answer" /\ noted'[r])
        /\ UNCHANGED <<chain, turn, handler, said, gone>>
        /\ \A q \in Requests \ {r} : at'[q] = at[q] /\ last'[q] = last[q]
    BY <1>8 DEF Payload, FinishLine, Finish, Note, EndWith, Goto, TypeOK
  <2>2. /\ \/ noted'[r] /\ report'[r]
           \/ noted'[r] = noted[r] /\ report'[r] = report[r]
        /\ noted[r] => noted'[r]
        /\ \A q \in Requests \ {r} : noted'[q] = noted[q] /\ report'[q] = report[q]
    BY <1>8 DEF Payload, FinishLine, Finish, Note, TypeOK
  <2>3. Current(r)' = Current(r)
    BY <2>1 DEF Current
  <2>4. Verdict(r)'
    BY <2>1, <2>2, <2>3 DEF VerdictInv, Verdict, Told
  <2> QED BY <1>0, <2>1, <2>2, <2>4
<1>9. ASSUME NEW r \in Requests, Leave(r) \/ Cancel(r) PROVE VerdictInv'
  <2>1. /\ at[r] \in {"call", "stream"} /\ gone'[r]
        /\ at'[r] = "release" \/ (at[r] = "stream" /\ at'[r] = "stream")
        /\ UNCHANGED <<chain, turn, handler, noted, report, said, last>>
        /\ \A q \in Requests \ {r} : at'[q] = at[q] /\ gone'[q] = gone[q]
    BY <1>9 DEF Leave, Cancel, Goto, TypeOK
  <2>2. Current(r)' = Current(r)
    BY <2>1 DEF Current
  <2>3. Verdict(r)'
    BY <2>1, <2>2 DEF VerdictInv, Verdict, Told
  <2> QED BY <1>0, <2>1, <2>3
<1>10. ASSUME NEW r \in Requests, ReportSuccess(r) PROVE VerdictInv'
  <2>1. /\ Says(r, "success") /\ report[r] /\ ~Idle(r) /\ report'[r] = FALSE
        /\ UNCHANGED <<at, chain, turn, handler, noted, gone, last>>
        /\ \A q \in Requests \ {r} : report'[q] = report[q]
    BY <1>10 DEF ReportSuccess, Idle, TypeOK
  <2>2. /\ Verdict(r) /\ noted[r] /\ turn[r] \in DOMAIN chain[r]
        /\ Current(r)' = Current(r) /\ Current(r) \in Accounts
    BY <2>1, CurrentType DEF VoiceInv, Voice, VerdictInv, Pending, Current
  <2>3. /\ "success" \in said'[r][Current(r)]
        /\ \A a \in Accounts : said[r][a] \subseteq said'[r][a]
        /\ \A a \in Accounts \ {Current(r)} : said'[r][a] = said[r][a]
        /\ \A q \in Requests \ {r} : said'[q] = said[q]
    BY <2>1, <2>2, SaysTold
  <2>4. Verdict(r)'
    BY <2>1, <2>2, <2>3 DEF Verdict, Told
  <2> QED BY <1>0, <2>1, <2>3, <2>4
<1>11. ASSUME NEW r \in Requests, Release(r) PROVE VerdictInv'
  <2>1. /\ at[r] = "release" /\ at'[r] = "done"
        /\ UNCHANGED <<chain, turn, handler, noted, report, said, gone, last>>
        /\ \A q \in Requests \ {r} : at'[q] = at[q]
    BY <1>11 DEF Release, Goto, TypeOK
  <2>2. Current(r)' = Current(r)
    BY <2>1 DEF Current
  <2>3. Verdict(r)'
    BY <2>1, <2>2 DEF VerdictInv, Verdict, Told
  <2> QED BY <1>0, <2>1, <2>3
<1>12. ASSUME NEW r \in Requests, NextTurn(r) PROVE VerdictInv'
  <2>1. /\ at'[r] = "resolve" /\ said'[r] = Silent /\ noted'[r] = FALSE
        /\ \A q \in Requests \ {r} : at'[q] = at[q] /\ Same(q)
    BY <1>12 DEF NextTurn, Goto, TypeOK
  <2>2. Verdict(r)'
    BY <2>1 DEF Verdict, Silent
  <2> QED BY <1>0, <2>1, <2>2
<1>13. ASSUME NEW r \in Requests,
              RebindGet(r) \/ RebindTouch(r) \/ RebindFails(r) \/ Bind(r) \/ BindFails(r)
       PROVE VerdictInv'
  BY <1>1, <1>13 DEF RebindGet, RebindTouch, RebindFails, Bind, BindFails, elsewhere
<1>14. CASE Expire \/ \E a \in Accounts : Cool(a)
  BY <1>1, <1>14 DEF Expire, Cool, elsewhere
<1>15. CASE UNCHANGED vars
  BY <1>1, <1>15 DEF vars
<1> QED
  BY <1>2, <1>3, <1>4, <1>5, <1>6, <1>7, <1>8, <1>9, <1>10, <1>11, <1>12, <1>13,
     <1>14, <1>15 DEF Next, Step

(* The pool is told of every answer, for the account that gave it and no     *)
(* other, and of the failure of the last account tried: AttemptsJudged.      *)
THEOREM TurnsAreJudged == Spec => []AttemptsJudged
<1>1. TypeInv /\ VerdictInv => AttemptsJudged
  <2> SUFFICES ASSUME TypeInv, VerdictInv, NEW r \in Requests,
                      at[r] = "done", Idle(r), ~gone[r], chain[r] # << >>,
                      handler[r] # "responses"
               PROVE  IF last[r] = "answer"
                      THEN \A a \in Accounts : "success" \in said[r][a] <=> a = Current(r)
                      ELSE "failure" \in said[r][Current(r)]
    BY DEF AttemptsJudged
  <2>1. Verdict(r) /\ ~report[r]
    BY DEF VerdictInv, Idle, TypeInv, TypeOK
  <2> QED BY <2>1 DEF Verdict, Told
<1>2. Init => TypeInv /\ VoiceInv /\ VerdictInv
  BY TypeInit, VoiceInit, VerdictInit, FlowAssumption
<1>3. TypeInv /\ VoiceInv /\ VerdictInv /\ [Next]_vars
         => (TypeInv /\ VoiceInv /\ VerdictInv)'
  BY TypeStep, VoiceStep, VerdictStep, FlowAssumption
<1> QED BY <1>1, <1>2, <1>3, PTL DEF Spec
=============================================================================
