----------------------- MODULE LeaderElection_proofs -----------------------
(* Type correctness of LeaderElection under any failure, and that one        *)
(* process at most leads and runs the maintainers as long as no Redis call   *)
(* fails and owners renew in time: for any number of processes, crashes and  *)
(* uses of the switch.                                                       *)
EXTENDS LeaderElection, TLAPS

USE DEF Threads, Callers, Steps, Agent, Bounded

(* The thread-by-thread part of TypeOK.                                      *)
AgentOK(ag) ==
    /\ ag \in [Workers -> [Threads -> Agent]]
    /\ \A w \in Workers :
          /\ ag[w]["watch"].by = "watch"
          /\ ag[w]["watch"].at \notin {"arm", "run"}
          /\ ag[w]["main"].by # "watch"
          /\ ag[w]["main"].at # "off"

(* Where try_become_leader returns to.                                       *)
LEMMA ResumeType ==
    ASSUME NEW a \in Agent
    PROVE  /\ Resume(a) \in {"idle", "arm", "run"}
           /\ a.by = "watch" => Resume(a) = "idle"
           /\ Resume(a) = "run" => a.won /\ a.by = "second"
           /\ Resume(a) = "arm" => a.by # "second"
           /\ (Resume(a) = "idle" /\ a.by # "watch") => a.by = "second" /\ ~a.won
BY DEF Resume

(* A step of one thread to a place that thread may be.                       *)
LEMMA StepType ==
    ASSUME AgentOK(agent), NEW w \in Workers, NEW k \in Threads,
           NEW a \in Agent, a.by = agent[w][k].by,
           a.at \notin {"off"}, k = "watch" => a.at \notin {"arm", "run"},
           agent' = [agent EXCEPT ![w][k] = a]
    PROVE  AgentOK(agent')
BY DEF AgentOK

(* Goto is such a step.                                                      *)
LEMMA GotoType ==
    ASSUME AgentOK(agent), NEW w \in Workers, NEW k \in Threads,
           NEW s \in Steps \ {"off"}, k = "watch" => s \notin {"arm", "run"},
           Goto(w, k, s)
    PROVE  AgentOK(agent')
<1> DEFINE a == [agent[w][k] EXCEPT !.at = s]
<1>1. a \in Agent /\ a.by = agent[w][k].by /\ a.at = s
  BY DEF AgentOK
<1>2. agent' = [agent EXCEPT ![w][k] = a]
  BY DEF Goto, AgentOK
<1> QED BY <1>1, <1>2, StepType

LEMMA ReturnType ==
    ASSUME AgentOK(agent), NEW w \in Workers, NEW k \in Threads, Return(w, k)
    PROVE  AgentOK(agent')
<1>1. agent[w][k] \in Agent BY DEF AgentOK
<1>2. k = "watch" => agent[w][k].by = "watch" BY DEF AgentOK
<1> QED BY <1>1, <1>2, ResumeType, GotoType DEF Return

-----------------------------------------------------------------------------
LEMMA TypeInit == ElectionAssumption /\ Init => TypeOK
BY DEF ElectionAssumption, Init, TypeOK, Booting

LEMMA TypeAgent == TypeOK => AgentOK(agent)
BY DEF TypeOK, AgentOK

(* One step per action; the agents' part by the lemmas above.                *)
LEMMA TypeStep ==
    ASSUME ElectionAssumption, TypeOK, [Next]_vars
    PROVE  TypeOK'
<1> USE DEF flags, counts, At
<1> SUFFICES ASSUME Next PROVE TypeOK'
  BY DEF vars, TypeOK
<1>0. AgentOK(agent)
  BY TypeAgent
<1>1. ASSUME NEW w \in Workers, NEW k \in Threads, Turn(w, k) PROVE TypeOK'
  <2>1. AgentOK(agent')
    <3>1. CASE Claim(w, k)
      BY <1>0, <3>1, GotoType DEF Claim
    <3>2. CASE Look(w, k)
      BY <1>0, <3>2, GotoType DEF Look
    <3>3. CASE Renew(w, k)
      BY <1>0, <3>3, GotoType DEF Renew
    <3>4. CASE Lead(w, k)
      <4> DEFINE a == [agent[w][k] EXCEPT !.won = TRUE]
                 b == [a EXCEPT !.at = IF leader[w] THEN Resume(a) ELSE "start"]
      <4>0. agent[w][k] \in Agent
        BY <1>0 DEF AgentOK
      <4>1. a \in Agent /\ a.by = agent[w][k].by
        BY <4>0
      <4>2. k = "watch" => a.by = "watch"
        BY <1>0, <4>1 DEF AgentOK
      <4>3. b \in Agent /\ b.by = agent[w][k].by /\ b.at # "off"
        BY <4>1, ResumeType
      <4>4. k = "watch" => b.at \notin {"arm", "run"}
        BY <4>1, <4>2, ResumeType
      <4>5. agent' = [agent EXCEPT ![w][k] = b]
        BY <3>4 DEF Lead
      <4> HIDE DEF b
      <4> QED BY <1>0, <4>3, <4>4, <4>5, StepType
    <3>5. CASE Follow(w, k)
      <4> DEFINE a == [agent[w][k] EXCEPT !.won = FALSE]
                 b == [a EXCEPT !.at = IF leader[w] THEN "stop" ELSE Resume(a)]
      <4>0. agent[w][k] \in Agent
        BY <1>0 DEF AgentOK
      <4>1. a \in Agent /\ a.by = agent[w][k].by
        BY <4>0
      <4>2. k = "watch" => a.by = "watch"
        BY <1>0, <4>1 DEF AgentOK
      <4>3. b \in Agent /\ b.by = agent[w][k].by /\ b.at # "off"
        BY <4>1, ResumeType
      <4>4. k = "watch" => b.at \notin {"arm", "run"}
        BY <4>1, <4>2, ResumeType
      <4>5. agent' = [agent EXCEPT ![w][k] = b]
        BY <3>5 DEF Follow
      <4> HIDE DEF b
      <4> QED BY <1>0, <4>3, <4>4, <4>5, StepType
    <3>6. CASE Start(w, k)
      BY <1>0, <3>6, GotoType, ReturnType DEF Start
    <3>7. CASE Spawn(w, k)
      BY <1>0, <3>7, ReturnType DEF Spawn
    <3>8. CASE Stop(w, k)
      BY <1>0, <3>8, GotoType, ReturnType DEF Stop
    <3>9. CASE Kill(w, k)
      BY <1>0, <3>9, ReturnType DEF Kill
    <3> QED BY <1>1, <3>1, <3>2, <3>3, <3>4, <3>5, <3>6, <3>7, <3>8, <3>9 DEF Turn
  <2>2. /\ lock' \in Workers \cup {Free, Dead} /\ leader' \in [Workers -> BOOLEAN]
        /\ started' \in [Workers -> BOOLEAN] /\ runs' \in [Workers -> BOOLEAN]
        /\ UNCHANGED <<enabled, counts>>
    BY <1>1 DEF Turn, Claim, Look, Renew, Lead, Follow, Start, Spawn, Stop, Kill,
                StartBackground, TypeOK
  <2> QED BY <2>1, <2>2 DEF TypeOK, AgentOK
<1>2. ASSUME NEW w \in Workers, WatchTurn(w) PROVE TypeOK'
  <2>1. AgentOK(agent')
    BY <1>0, <1>2, GotoType DEF WatchTurn
  <2> QED BY <1>2, <2>1 DEF WatchTurn, TypeOK, AgentOK
<1>3. ASSUME NEW w \in Workers, Arm(w) PROVE TypeOK'
  <2> DEFINE a == agent[w]["main"]
             n == CASE a.won -> "run"
                    [] ~a.won /\ a.by = "boot" -> "idle"
                    [] OTHER -> "claim"
             m == [a EXCEPT !.at = n, !.by = IF n = "claim" THEN "second" ELSE @]
             x == agent[w]["watch"]
             y == [x EXCEPT !.at = IF @ = "off" THEN "idle" ELSE @]
  <2>1. a \in Agent /\ x \in Agent /\ a.by # "watch" /\ x.by = "watch"
        /\ x.at \notin {"arm", "run"}
    BY <1>0 DEF AgentOK
  <2>2. n \in {"run", "idle", "claim"}
    OBVIOUS
  <2>3. m \in Agent /\ m.by # "watch" /\ m.at # "off"
    <3> HIDE DEF n
    <3> QED BY <2>1, <2>2
  <2>4. y \in Agent /\ y.by = "watch" /\ y.at \notin {"arm", "run"}
    BY <2>1
  <2>5. agent' = [agent EXCEPT ![w]["main"] = m, ![w]["watch"] = y]
    BY <1>0, <1>3 DEF Arm, AgentOK
  <2>6. AgentOK(agent')
    <3> HIDE DEF m, y
    <3> QED BY <1>0, <2>3, <2>4, <2>5 DEF AgentOK
  <2> QED BY <1>3, <2>6 DEF Arm, TypeOK, AgentOK
<1>4. ASSUME NEW w \in Workers, RunHere(w) PROVE TypeOK'
  <2>1. AgentOK(agent')
    BY <1>0, <1>4, GotoType DEF RunHere
  <2> QED BY <1>4, <2>1 DEF RunHere, StartBackground, TypeOK, AgentOK
<1>5. ASSUME NEW w \in Workers, SwitchOn(w) \/ SwitchOff(w) PROVE TypeOK'
  <2>1. CASE SwitchOn(w)
    <3> DEFINE m == [at |-> IF leader[w] THEN "run" ELSE "claim",
                     by |-> "first", won |-> FALSE]
    <3>1. m \in Agent /\ m.by # "watch" /\ m.at # "off"
      OBVIOUS
    <3>2. agent' = [agent EXCEPT ![w]["main"] = m]
      BY <2>1 DEF SwitchOn
    <3>3. AgentOK(agent')
      <4> HIDE DEF m
      <4> QED BY <1>0, <3>1, <3>2 DEF AgentOK
    <3> QED BY <2>1, <3>3 DEF SwitchOn, TypeOK, AgentOK, ElectionAssumption
  <2>2. CASE SwitchOff(w)
    <3>1. toggles' \in 0..MaxToggles
      BY <2>2 DEF SwitchOff, TypeOK, ElectionAssumption
    <3>2. AgentOK(agent')
      BY <1>0, <2>2 DEF SwitchOff
    <3>3. runs' \in [Workers -> BOOLEAN] /\ enabled' \in BOOLEAN
      BY <2>2 DEF SwitchOff, TypeOK
    <3>4. UNCHANGED <<lock, leader, started, errors, crashes, stalls>>
      BY <2>2 DEF SwitchOff
    <3> QED BY <3>1, <3>2, <3>3, <3>4 DEF TypeOK, AgentOK
  <2> QED BY <1>5, <2>1, <2>2
<1>6. ASSUME NEW w \in Workers, Crash(w) PROVE TypeOK'
  BY <1>6 DEF Crash, Booting, TypeOK, ElectionAssumption
<1>7. ASSUME NEW w \in Workers, NEW k \in Threads, RedisError(w, k) PROVE TypeOK'
  <2>1. AgentOK(agent')
    BY <1>0, <1>7, GotoType DEF RedisError
  <2> QED BY <1>7, <2>1 DEF RedisError, TypeOK, AgentOK, ElectionAssumption
<1>8. ASSUME Expire \/ Stall PROVE TypeOK'
  BY <1>8 DEF Expire, Stall, TypeOK, ElectionAssumption
<1> QED BY <1>1, <1>2, <1>3, <1>4, <1>5, <1>6, <1>7, <1>8 DEF Next, Main, Watch

(* Whatever raises, lapses or crashes, every variable keeps its type and     *)
(* only a main thread arms the watcher or starts maintainers directly.       *)
THEOREM TypeCorrect == Spec => []TypeOK
BY ElectionAssumption, TypeInit, TypeStep, PTL DEF Spec

-----------------------------------------------------------------------------
(* Without errors and stalls                                                 *)

(* A thread on its way to lead, to start the maintainers or to tell its      *)
(* caller that it won owns the key; one that stops them has not won.         *)
Claims(w, k) ==
    \/ agent[w][k].at \in {"lead", "start", "spawn", "run"}
    \/ agent[w][k].at = "arm" /\ agent[w][k].won

(* A main thread past its first election has a watcher, so that the key of   *)
(* its process is not abandoned.                                             *)
Watched(w) ==
    \/ agent[w]["watch"].at # "off"
    \/ /\ agent[w]["main"].at \notin {"idle", "run"}
       /\ agent[w]["main"].by # "second"

LeadersOwn == \A w \in Workers : leader[w] => lock = w
RunnersOwn == \A w \in Workers : runs[w] => lock = w

Owned ==
    /\ LeadersOwn
    /\ RunnersOwn
    /\ \A w \in Workers : Watched(w)
    /\ \A w \in Workers, k \in Threads :
          /\ Claims(w, k) => lock = w
          /\ agent[w][k].at \in {"stop", "kill"} => ~agent[w][k].won

LEMMA OwnedInit == ElectionAssumption /\ Init => Owned
BY DEF Init, Owned, LeadersOwn, RunnersOwn, Watched, Claims, Booting

(* What one thread of w does keeps Owned, if the key stays with an owner,    *)
(* the flags of w are set only by one, and the thread's own state is right.  *)
LEMMA OwnedByStep ==
    ASSUME TypeOK, Owned, NEW w \in Workers, NEW k \in Threads,
           NEW a \in Agent,
           agent' = [agent EXCEPT ![w][k] = a],
           lock' = lock \/ lock = Free,
           \A v \in Workers \ {w} : leader'[v] = leader[v] /\ runs'[v] = runs[v],
           leader'[w] \/ runs'[w] => lock' = w,
           a.at \in {"lead", "start", "spawn", "run"} => lock' = w,
           a.at = "arm" /\ a.won => lock' = w,
           a.at \in {"stop", "kill"} => ~a.won,
           a.at # "off",
           k = "main" => \/ agent[w]["watch"].at # "off"
                         \/ a.at \notin {"idle", "run"} /\ a.by # "second",
           ElectionAssumption
    PROVE  Owned'
<1>1. /\ agent'[w][k] = a
      /\ \A v \in Workers, l \in Threads :
            (v # w \/ l # k) => agent'[v][l] = agent[v][l]
  BY DEF TypeOK
<1>2. \A v \in Workers \ {w} : lock = v => lock' = v
  BY DEF ElectionAssumption
<1>3. lock = w => lock' = w
  BY DEF ElectionAssumption
<1>4. (LeadersOwn /\ RunnersOwn)'
  BY <1>2 DEF Owned, LeadersOwn, RunnersOwn
<1>5. ASSUME NEW v \in Workers PROVE Watched(v)'
  <2>1. CASE v # w
    BY <1>1, <1>5, <2>1 DEF Owned, Watched
  <2>2. CASE v = w /\ k = "watch"
    BY <1>1, <2>2 DEF Watched
  <2>3. CASE v = w /\ k = "main"
    BY <1>1, <2>3 DEF Watched
  <2> QED BY <2>1, <2>2, <2>3
<1>6. ASSUME NEW v \in Workers, NEW l \in Threads
      PROVE  /\ Claims(v, l)' => lock' = v
             /\ agent'[v][l].at \in {"stop", "kill"} => ~agent'[v][l].won
  <2>1. CASE v = w /\ l = k
    BY <1>1, <2>1 DEF Claims
  <2>2. CASE v # w \/ l # k
    BY <1>1, <1>2, <1>3, <1>6, <2>2 DEF Owned, Claims
  <2> QED BY <2>1, <2>2
<1> QED BY <1>4, <1>5, <1>6 DEF Owned

LEMMA OwnedGoto ==
    ASSUME TypeOK, Owned, NEW w \in Workers, NEW k \in Threads,
           NEW s \in Steps \ {"off"}, Goto(w, k, s),
           lock' = lock \/ lock = Free,
           \A v \in Workers \ {w} : leader'[v] = leader[v] /\ runs'[v] = runs[v],
           leader'[w] \/ runs'[w] => lock' = w,
           s \in {"lead", "start", "spawn", "run"} => lock' = w,
           s = "arm" /\ agent[w][k].won => lock' = w,
           s \in {"stop", "kill"} => ~agent[w][k].won,
           k = "main" => \/ agent[w]["watch"].at # "off"
                         \/ s \notin {"idle", "run"} /\ agent[w][k].by # "second",
           ElectionAssumption
    PROVE  Owned'
<1> DEFINE a == [agent[w][k] EXCEPT !.at = s]
<1>0. agent[w][k] \in Agent
  BY DEF TypeOK
<1>1. a \in Agent /\ a.at = s /\ a.by = agent[w][k].by /\ a.won = agent[w][k].won
  BY <1>0
<1>2. agent' = [agent EXCEPT ![w][k] = a]
  BY DEF Goto, TypeOK
<1> HIDE DEF a
<1> QED BY <1>1, <1>2, OwnedByStep

(* A thread that returns to its caller with the key if it says it won.       *)
LEMMA OwnedReturn ==
    ASSUME TypeOK, Owned, NEW w \in Workers, NEW k \in Threads, Return(w, k),
           lock' = lock,
           \A v \in Workers \ {w} : leader'[v] = leader[v] /\ runs'[v] = runs[v],
           leader'[w] \/ runs'[w] => lock' = w,
           agent[w][k].won => lock = w,
           ElectionAssumption
    PROVE  Owned'
<1> DEFINE s == Resume(agent[w][k])
<1>0. agent[w][k] \in Agent
  BY DEF TypeOK
<1>1. /\ s \in {"idle", "arm", "run"}
      /\ s = "run" => agent[w][k].won
      /\ s = "arm" => agent[w][k].by # "second"
      /\ k = "main" /\ s \in {"idle", "run"} => agent[w][k].by = "second"
  BY <1>0, ResumeType DEF TypeOK
<1>2. k = "main" /\ agent[w][k].by = "second" => agent[w]["watch"].at # "off"
  BY DEF Owned, Watched
<1>3. k = "main" => \/ agent[w]["watch"].at # "off"
                    \/ s \notin {"idle", "run"} /\ agent[w][k].by # "second"
  BY <1>1, <1>2
<1>4. Goto(w, k, s)
  BY DEF Return
<1> HIDE DEF s
<1> QED BY <1>1, <1>3, <1>4, OwnedGoto

(* One step per action.                                                      *)
LEMMA OwnedStep ==
    ASSUME ElectionAssumption, Calm, Calm', TypeOK, TypeOK', Owned, [Next]_vars
    PROVE  Owned'
<1> USE DEF flags, counts, At
<1>u. CASE UNCHANGED vars
  BY <1>u DEF vars, Owned, LeadersOwn, RunnersOwn, Watched, Claims
<1>1. ASSUME NEW w \in Workers, NEW k \in Threads, Turn(w, k) PROVE Owned'
  <2>1. agent[w][k] \in Agent
    BY DEF TypeOK
  <2>2. k = "main" => agent[w]["watch"].at # "off" \/ agent[w][k].by # "second"
    BY DEF Owned, Watched
  <2>3. /\ leader[w] \/ runs[w] => lock = w
        /\ Claims(w, k) => lock = w
        /\ agent[w][k].at \in {"stop", "kill"} => ~agent[w][k].won
    BY DEF Owned, LeadersOwn, RunnersOwn
  <2>4. CASE Claim(w, k)
    <3>1. CASE lock = Free
      BY <2>2, <2>3, <2>4, <3>1, OwnedGoto DEF Claim, ElectionAssumption
    <3>2. CASE lock # Free
      BY <2>2, <2>3, <2>4, <3>2, OwnedGoto DEF Claim
    <3> QED BY <3>1, <3>2
  <2>5. CASE Look(w, k)
    BY <2>2, <2>3, <2>5, OwnedGoto DEF Look
  <2>6. CASE Renew(w, k)
    BY <2>2, <2>3, <2>6, OwnedGoto DEF Renew
  <2>7. CASE Lead(w, k)
    <3> DEFINE a == [agent[w][k] EXCEPT !.won = TRUE]
               b == [a EXCEPT !.at = IF leader[w] THEN Resume(a) ELSE "start"]
    <3>1. lock = w
      BY <2>3, <2>7 DEF Lead, Claims
    <3>2. a \in Agent /\ a.by = agent[w][k].by
      BY <2>1
    <3>3. /\ b \in Agent /\ b.by = a.by
          /\ b.at \in {"idle", "arm", "run", "start"}
          /\ b.at \in {"arm", "start"} /\ k = "main" =>
                 b.at = "start" \/ a.by # "second"
          /\ k = "main" /\ b.at \in {"idle", "run"} => a.by = "second"
      BY <3>2, ResumeType, ZenonT(60) DEF TypeOK
    <3>4. k = "main" => \/ agent[w]["watch"].at # "off"
                        \/ b.at \notin {"idle", "run"} /\ b.by # "second"
      BY <2>2, <3>2, <3>3
    <3>5. agent' = [agent EXCEPT ![w][k] = b]
      BY <2>7 DEF Lead
    <3>6. /\ lock' = lock /\ runs' = runs
          /\ \A v \in Workers \ {w} : leader'[v] = leader[v]
      BY <2>7 DEF Lead, TypeOK
    <3> HIDE DEF b
    <3> QED BY <3>1, <3>3, <3>4, <3>5, <3>6, OwnedByStep
  <2>8. CASE Follow(w, k)
    <3> DEFINE a == [agent[w][k] EXCEPT !.won = FALSE]
               b == [a EXCEPT !.at = IF leader[w] THEN "stop" ELSE Resume(a)]
    <3>1. a \in Agent /\ a.by = agent[w][k].by /\ ~a.won
      BY <2>1
    <3>2. /\ b \in Agent /\ b.by = a.by /\ ~b.won
          /\ b.at \in {"idle", "arm", "stop"}
          /\ k = "main" /\ b.at = "idle" => a.by = "second"
      BY <3>1, ResumeType, ZenonT(60) DEF TypeOK
    <3>3. k = "main" => \/ agent[w]["watch"].at # "off"
                        \/ b.at \notin {"idle", "run"} /\ b.by # "second"
      BY <2>2, <3>1, <3>2
    <3>4. agent' = [agent EXCEPT ![w][k] = b]
      BY <2>8 DEF Follow
    <3>5. /\ lock' = lock /\ runs' = runs /\ ~leader'[w]
          /\ \A v \in Workers \ {w} : leader'[v] = leader[v]
      BY <2>8 DEF Follow, TypeOK
    <3> HIDE DEF b
    <3> QED BY <2>3, <3>2, <3>3, <3>4, <3>5, OwnedByStep
  <2>9. CASE Start(w, k)
    <3>1. lock = w
      BY <2>3, <2>9 DEF Start, Claims
    <3> QED BY <2>2, <2>9, <3>1, OwnedGoto, OwnedReturn DEF Start
  <2>10. CASE Spawn(w, k)
    <3>1. lock = w
      BY <2>3, <2>10 DEF Spawn, Claims
    <3>2. \A v \in Workers \ {w} : runs'[v] = runs[v]
      BY <2>10 DEF Spawn, StartBackground, TypeOK
    <3> QED BY <2>10, <3>1, <3>2, OwnedReturn DEF Spawn
  <2>11. CASE Stop(w, k)
    BY <2>2, <2>3, <2>11, OwnedGoto, OwnedReturn DEF Stop
  <2>12. CASE Kill(w, k)
    <3>1. \A v \in Workers \ {w} : runs'[v] = runs[v]
      BY <2>12 DEF Kill, TypeOK
    <3>2. leader'[w] \/ runs'[w] => lock' = w
      BY <2>3, <2>12 DEF Kill, TypeOK
    <3> QED BY <2>3, <2>12, <3>1, <3>2, OwnedReturn DEF Kill
  <2> QED BY <1>1, <2>4, <2>5, <2>6, <2>7, <2>8, <2>9, <2>10, <2>11, <2>12 DEF Turn
<1>2. ASSUME NEW w \in Workers, WatchTurn(w) PROVE Owned'
  <2>1. leader[w] \/ runs[w] => lock = w
    BY DEF Owned, LeadersOwn, RunnersOwn
  <2> QED BY <1>2, <2>1, OwnedGoto DEF WatchTurn
<1>3. ASSUME NEW w \in Workers, Arm(w) PROVE Owned'
  <2>1. /\ agent[w]["main"].at = "arm"
        /\ lock' = lock /\ leader' = leader /\ runs' = runs
        /\ agent[w]["main"].won => lock = w
    BY <1>3 DEF Arm, Owned, Claims
  <2>2. /\ agent'[w]["main"].at \in {"run", "idle", "claim"}
        /\ agent'[w]["main"].at = "run" => agent[w]["main"].won
        /\ agent'[w]["watch"].at =
              IF agent[w]["watch"].at = "off" THEN "idle" ELSE agent[w]["watch"].at
        /\ agent'[w]["watch"].won = agent[w]["watch"].won
        /\ \A v \in Workers \ {w} : agent'[v] = agent[v]
    <3> DEFINE a == agent[w]["main"]
               n == CASE a.won -> "run"
                      [] ~a.won /\ a.by = "boot" -> "idle"
                      [] OTHER -> "claim"
               m == [a EXCEPT !.at = n, !.by = IF n = "claim" THEN "second" ELSE @]
               x == agent[w]["watch"]
               y == [x EXCEPT !.at = IF @ = "off" THEN "idle" ELSE @]
    <3>1. a \in Agent /\ x \in Agent
      BY DEF TypeOK
    <3>2. n \in {"run", "idle", "claim"} /\ (n = "run" => a.won)
      BY <3>1
    <3>3. m.at = n
      <4> HIDE DEF n
      <4> QED BY <3>1
    <3>4. y.at = (IF x.at = "off" THEN "idle" ELSE x.at) /\ y.won = x.won
      BY <3>1
    <3>5. agent' = [agent EXCEPT ![w]["main"] = m, ![w]["watch"] = y]
      BY <1>3, TypeAgent DEF Arm, AgentOK
    <3>6. agent'[w]["main"] = m /\ agent'[w]["watch"] = y
      <4> HIDE DEF m, y
      <4> QED BY <3>5 DEF TypeOK
    <3>7. \A v \in Workers \ {w} : agent'[v] = agent[v]
      <4> HIDE DEF m, y
      <4> QED BY <3>5 DEF TypeOK
    <3> QED BY <3>2, <3>3, <3>4, <3>6, <3>7
  <2>3. (LeadersOwn /\ RunnersOwn)'
    BY <2>1 DEF Owned, LeadersOwn, RunnersOwn
  <2>4. \A v \in Workers : Watched(v)'
    BY <2>2 DEF Owned, Watched
  <2>5. \A v \in Workers, l \in Threads :
          /\ Claims(v, l)' => lock' = v
          /\ agent'[v][l].at \in {"stop", "kill"} => ~agent'[v][l].won
    BY <2>1, <2>2 DEF Owned, Claims
  <2> QED BY <2>3, <2>4, <2>5 DEF Owned
<1>4. ASSUME NEW w \in Workers, RunHere(w) PROVE Owned'
  <2>1. lock = w /\ agent[w]["watch"].at # "off"
    BY <1>4 DEF RunHere, Owned, Claims, Watched
  <2>2. \A v \in Workers \ {w} : runs'[v] = runs[v]
    BY <1>4 DEF RunHere, StartBackground, TypeOK
  <2> QED BY <1>4, <2>1, <2>2, OwnedGoto DEF RunHere
<1>5. ASSUME NEW w \in Workers, SwitchOn(w) PROVE Owned'
  <2> DEFINE m == [at |-> IF leader[w] THEN "run" ELSE "claim",
                   by |-> "first", won |-> FALSE]
  <2>1. m \in Agent /\ m.at \in {"run", "claim"} /\ (m.at = "run" => leader[w])
    OBVIOUS
  <2>2. agent' = [agent EXCEPT ![w]["main"] = m]
    BY <1>5 DEF SwitchOn
  <2>3. lock' = lock /\ leader' = leader /\ runs' = runs
    BY <1>5 DEF SwitchOn
  <2>4. agent[w]["watch"].at # "off"
    BY <1>5 DEF SwitchOn, Owned, Watched
  <2>5. leader[w] \/ runs[w] => lock = w
    BY DEF Owned, LeadersOwn, RunnersOwn
  <2> HIDE DEF m
  <2> QED BY <2>1, <2>2, <2>3, <2>4, <2>5, OwnedByStep
<1>6. ASSUME NEW w \in Workers, SwitchOff(w) PROVE Owned'
  BY <1>6 DEF SwitchOff, TypeOK, Owned, LeadersOwn, RunnersOwn, Watched, Claims
<1>7. ASSUME NEW w \in Workers, Crash(w) PROVE Owned'
  <2>1. /\ agent' = [agent EXCEPT ![w] = Booting]
        /\ leader' = [leader EXCEPT ![w] = FALSE] /\ runs' = [runs EXCEPT ![w] = FALSE]
        /\ lock' = IF lock = w THEN Dead ELSE lock
    BY <1>7 DEF Crash
  <2> QED BY <2>1 DEF TypeOK, Booting, Owned, LeadersOwn, RunnersOwn, Watched, Claims
<1>8. ASSUME NEW w \in Workers, NEW k \in Threads, RedisError(w, k) PROVE FALSE
  BY <1>8 DEF RedisError, Calm, TypeOK
<1>9. CASE Expire
  <2>1. lock = Dead
    BY <1>9 DEF Expire, Abandoned, Owned, Watched
  <2> QED BY <1>9, <2>1 DEF Expire, ElectionAssumption, TypeOK, Owned, LeadersOwn,
                             RunnersOwn, Watched, Claims
<1>10. CASE Stall
  BY <1>10 DEF Stall, Calm, TypeOK
<1> QED BY <1>u, <1>1, <1>2, <1>3, <1>4, <1>5, <1>6, <1>7, <1>8, <1>9, <1>10
        DEF Next, Main, Watch

(* Until a Redis call raises or a key lapses under a live owner, for any     *)
(* number of processes, crashes and uses of the switch.                      *)
LEMMA OwnedAlways == Spec => [](TypeOK /\ (Calm => Owned))
<1>1. Init => TypeOK /\ (Calm => Owned)
  BY ElectionAssumption, TypeInit, OwnedInit
<1>2. TypeOK /\ [Next]_vars => (Calm' => Calm)
  <2> USE DEF counts
  <2>1. ASSUME NEW w \in Workers, NEW k \in Threads, Turn(w, k) PROVE UNCHANGED counts
    BY <2>1 DEF Turn, Claim, Look, Renew, Lead, Follow, Start, Spawn, Stop, Kill
  <2>2. ASSUME NEW w \in Workers, WatchTurn(w) \/ Arm(w) \/ RunHere(w)
        PROVE  UNCHANGED counts
    BY <2>2 DEF WatchTurn, Arm, RunHere
  <2>3. ASSUME NEW w \in Workers, SwitchOn(w) \/ SwitchOff(w) \/ Crash(w)
        PROVE  UNCHANGED <<errors, stalls>>
    BY <2>3 DEF SwitchOn, SwitchOff, Crash
  <2>4. ASSUME TypeOK, NEW w \in Workers, NEW k \in Threads, RedisError(w, k)
        PROVE  errors' # 0
    BY <2>4 DEF RedisError, TypeOK
  <2>5. ASSUME TypeOK, Expire \/ Stall PROVE Calm' => Calm
    BY <2>5 DEF Expire, Stall, TypeOK, Calm
  <2> QED BY <2>1, <2>2, <2>3, <2>4, <2>5 DEF Next, Main, Watch, Calm, vars
<1>3. TypeOK /\ (Calm => Owned) /\ [Next]_vars => (TypeOK /\ (Calm => Owned))'
  BY <1>2, ElectionAssumption, TypeStep, OwnedStep
<1> QED BY <1>1, <1>3, PTL DEF Spec

(* A process that believes it leads owns the key, so no two do:              *)
(* LeaderOwnsLock.                                                           *)
THEOREM OneLeader == Spec => []LeaderOwnsLock
<1>1. (Calm => Owned) => LeaderOwnsLock
  BY DEF Owned, LeadersOwn, LeaderOwnsLock
<1> QED BY <1>1, OwnedAlways, PTL

(* ... and only the owner of the key runs maintainers, however startup, the  *)
(* watch loop and the switch interleave: RunnerOwnsLock.                     *)
THEOREM OneRunner == Spec => []RunnerOwnsLock
<1>1. (Calm => Owned) => RunnerOwnsLock
  BY DEF Owned, RunnersOwn, RunnerOwnsLock
<1> QED BY <1>1, OwnedAlways, PTL
=============================================================================
