--------------------------- MODULE Reports_proofs ----------------------------
(* Proofs about Reports.  Of AccountPool: its types, that a stacked cooldown *)
(* is always counted, what ends a counted cooldown, that a                   *)
(* reported failure cools, and that the quota flag is kept, for any number   *)
(* of jobs, processes and stack entries.  Of UsageStats: that no request is  *)
(* counted twice, and none is missing while one store works, for any number  *)
(* of processes, days, requests and errors.                                  *)
EXTENDS Reports, SequenceTheorems, FiniteSetTheorems, TLAPS

-----------------------------------------------------------------------------
(* Lemmas about the programs and the patched rows                            *)

(* Short sequences of steps are sequences of steps.                          *)
LEMMA Tuples ==
    ASSUME NEW S, NEW a \in S, NEW b \in S, NEW c \in S, NEW d \in S
    PROVE  /\ <<>> \in Seq(S) /\ <<a>> \in Seq(S) /\ <<a, b>> \in Seq(S)
           /\ <<a, b, c>> \in Seq(S) /\ <<a, b, c, d>> \in Seq(S)
  OBVIOUS

(* The steps of all handlers but the rewrite of the whole table.             *)
Patches == Steps \ {"save"}

LEMMA StepNames ==
    /\ "readFirst" \in Patches /\ "read" \in Patches /\ "touch" \in Patches
    /\ "quotaOff" \in Patches /\ "quotaSnap" \in Patches /\ "free" \in Patches
    /\ "stack" \in Patches /\ "kickCount" \in Patches /\ "until" \in Patches
    /\ "streak" \in Patches /\ "probeFail" \in Patches /\ "probeOk" \in Patches
    /\ "resetStreak" \in Patches /\ "clear" \in Patches /\ "enable" \in Patches
    /\ "disable" \in Patches /\ "reenable" \in Patches /\ "prune" \in Patches
    /\ "lookUntil" \in Patches /\ "lookCount" \in Patches /\ "save" \in Steps
    /\ Patches \subseteq Steps
  BY DEF Steps, Patches

(* The parts that the programs of failures are put together from.            *)
LEMMA PartTypes ==
    /\ \A s, t \in Seq(Patches) : s \o t \in Seq(Patches)
    /\ \A err \in Failures : ModelSteps(err) \in Seq(Patches) /\ QuotaSteps(err) \in Seq(Patches)
    /\ <<>> \in Seq(Patches) /\ <<"readFirst">> \in Seq(Patches) /\ <<"touch">> \in Seq(Patches)
    /\ <<"read", "touch", "free", "until">> \in Seq(Patches)
    /\ <<"stack", "until">> \in Seq(Patches)
    /\ <<"readFirst", "probeFail", "touch">> \in Seq(Patches)
    /\ <<"readFirst", "read", "touch", "free", "streak", "touch">> \in Seq(Patches)
<1>1. \A s, t \in Seq(Patches) : s \o t \in Seq(Patches)
  OBVIOUS
<1>2. ASSUME NEW err \in Failures PROVE ModelSteps(err) \in Seq(Patches)
  BY Tuples, StepNames DEF ModelSteps, Failures
<1>3. ASSUME NEW err \in Failures PROVE QuotaSteps(err) \in Seq(Patches)
  BY Tuples, StepNames DEF QuotaSteps
<1>4. /\ <<>> \in Seq(Patches) /\ <<"readFirst">> \in Seq(Patches) /\ <<"touch">> \in Seq(Patches)
      /\ <<"read", "touch", "free", "until">> \in Seq(Patches)
      /\ <<"stack", "until">> \in Seq(Patches)
      /\ <<"readFirst", "probeFail", "touch">> \in Seq(Patches)
  BY Tuples, StepNames
<1>5. <<"readFirst", "read", "touch", "free", "streak", "touch">> \in Seq(Patches)
  BY StepNames
<1> QED BY <1>1, <1>2, <1>3, <1>4, <1>5

(* Every handler is a sequence of the steps of this module; only a purge     *)
(* saves.                                                                    *)
LEMMA ProgramPatches ==
    ASSUME NEW o \in AllOps, o.on # "purge" PROVE Program(o) \in Seq(Patches)
<1>1. ASSUME NEW err \in Failures PROVE LiveFailure(err) \in Seq(Patches)
  <2>1. CASE err = "egress"
    BY <2>1, PartTypes DEF LiveFailure
  <2>2. CASE err = "free"
    <3>1. <<"readFirst">> \o ModelSteps(err) \in Seq(Patches)
      BY PartTypes
    <3> QED BY <2>2, <3>1, PartTypes DEF LiveFailure
  <2>3. CASE err \notin {"egress", "free"}
    <3>1. <<"readFirst">> \o QuotaSteps(err) \in Seq(Patches)
      BY PartTypes
    <3>2. <<"readFirst">> \o QuotaSteps(err) \o ModelSteps(err) \in Seq(Patches)
      BY <3>1, PartTypes
    <3> QED BY <2>3, <3>2, PartTypes DEF LiveFailure
  <2> QED BY <2>1, <2>2, <2>3
<1>2. ASSUME NEW err \in Failures PROVE ProbeFailure(err) \in Seq(Patches)
  <2>1. CASE err = "egress"
    BY <2>1, PartTypes DEF ProbeFailure
  <2>2. CASE err = "free"
    BY <2>2, PartTypes DEF ProbeFailure
  <2>3. CASE err \notin {"egress", "free"}
    BY <2>3, PartTypes DEF ProbeFailure
  <2> QED BY <2>1, <2>2, <2>3
<1>3. CASE o \in LiveOps
  BY <1>1, <1>3 DEF Program, LiveOps
<1>4. CASE o \in ProbeOps
  BY <1>2, <1>4 DEF Program, ProbeOps
<1>5. CASE o \in PlainOps
  <2>1. /\ <<"read", "touch", "resetStreak">> \in Seq(Patches)
        /\ <<"read", "probeOk", "clear", "touch">> \in Seq(Patches)
        /\ <<"enable">> \in Seq(Patches) /\ <<"disable">> \in Seq(Patches)
        /\ <<"clear">> \in Seq(Patches) /\ <<"read", "kickCount", "until">> \in Seq(Patches)
        /\ <<"quotaOff", "quotaSnap">> \in Seq(Patches) /\ <<"read", "prune">> \in Seq(Patches)
        /\ <<"read", "reenable">> \in Seq(Patches)
    BY Tuples, StepNames
  <2>2. o.on \in {"live ok", "probe ok", "enable", "disable", "clear", "kick",
                  "kick out", "billing", "prune", "startup"}
    BY <1>5 DEF PlainOps
  <2> QED BY <2>1, <2>2 DEF Program
<1> QED BY <1>3, <1>4, <1>5 DEF AllOps

LEMMA PurgeProgram ==
    ASSUME NEW o \in AllOps, o.on = "purge"
    PROVE  Program(o) = <<"read", "lookUntil", "lookCount", "save">>
  BY DEF Program

LEMMA ProgramType == ASSUME NEW o \in AllOps PROVE Program(o) \in Seq(Steps)
<1>1. CASE o.on = "purge"
  <2>1. "read" \in Steps /\ "lookUntil" \in Steps /\ "lookCount" \in Steps /\ "save" \in Steps
    BY StepNames
  <2>2. <<"read", "lookUntil", "lookCount", "save">> \in Seq(Steps)
    BY <2>1
  <2> QED BY <1>1, <2>2, PurgeProgram
<1>2. CASE o.on # "purge"
  BY <1>2, ProgramPatches, StepNames
<1> QED BY <1>1, <1>2

(* A patch stays in the type of rows.                                        *)
LEMMA RowTypes ==
    ASSUME NEW m \in Row, NEW s \in Row, PoolAssumption
    PROVE  /\ Stacked(s) \in 1 .. Cap
           /\ FreeRow(m, s) \in Row /\ FailRow(m, s) \in Row /\ KickRow(m, s) \in Row
           /\ ProbeFailRow(m, s) \in Row /\ ClearRow(m) \in Row /\ ProbeOkRow(m, s) \in Row
           /\ QuotaRow(m, "other") \in Row /\ QuotaRow(m, m.source) \in Row
           /\ EnableRow(m) \in Row /\ LookUntilRow(s, m) \in Row
           /\ LookCountRow(s, m) \in Row /\ Aged(m) \in Row
           /\ [m EXCEPT !.status = Derive(m)] \in Row
<1>1. Stacked(s) \in 1 .. Cap /\ Stacked(s) \in 0 .. Cap /\ Stacked(s) \in Nat /\ 0 \in 0 .. Cap
  BY DEF Stacked, Row, PoolAssumption
<1>2. FreeRow(m, s) \in Row /\ FailRow(m, s) \in Row
  BY <1>1 DEF FreeRow, FailRow, Row
<1>3. KickRow(m, s) \in Row
  <2>1. (IF s.count = 0 /\ Cooling(s) THEN 1 ELSE s.count) + 1 \in Nat
    BY DEF Row
  <2> QED BY <2>1 DEF KickRow, Row
<1>4. ProbeFailRow(m, s) \in Row
  <2>1. s.streak + 1 \in Nat
    BY DEF Row
  <2>2. ASSUME NEW r \in Row, NEW n \in Nat PROVE [r EXCEPT !.streak = n] \in Row
    BY DEF Row
  <2> QED BY <1>2, <2>1, <2>2 DEF ProbeFailRow
<1>5. ClearRow(m) \in Row
  BY <1>1 DEF ClearRow, Row
<1>6. ProbeOkRow(m, s) \in Row
  BY <1>5 DEF ProbeOkRow, Row
<1>7. QuotaRow(m, "other") \in Row /\ QuotaRow(m, m.source) \in Row /\ EnableRow(m) \in Row
  BY DEF QuotaRow, EnableRow, Row
<1>8. LookUntilRow(s, m) \in Row /\ LookCountRow(s, m) \in Row
  BY DEF LookUntilRow, LookCountRow, Row
<1>9. Aged(m) \in Row
  BY DEF Aged, Row
<1>10. [m EXCEPT !.status = Derive(m)] \in Row
  BY DEF Derive, Row, Statuses
<1> QED BY <1>1, <1>2, <1>3, <1>4, <1>5, <1>6, <1>7, <1>8, <1>9, <1>10

(* What a patch leaves of the state.                                         *)
LEMMA PatchType ==
    ASSUME TypeOK, PoolAssumption, NEW j \in Jobs, NEW m \in Row, Patch(j, m)
    PROVE  /\ row' \in Row /\ cache' \in [Workers -> Row \cup {None}]
           /\ first' \in [Jobs -> Row] /\ snap' \in [Jobs -> Row] /\ blind' \subseteq Jobs
  BY RowTypes DEF TypeOK, Patch, PoolAssumption

(* A step drops the head of the program it is in.                            *)
LEMMA AdvanceType ==
    ASSUME TypeOK, NEW j \in Jobs, NEW step, At(j, step), Advance(j)
    PROVE  op' \in [Jobs -> AllOps \cup {None}] /\ todo' \in [Jobs -> Seq(Steps)]
<1>1. Tail(todo[j]) \in Seq(Steps)
  BY DEF TypeOK, At
<1> QED BY <1>1 DEF TypeOK, Advance

-----------------------------------------------------------------------------
(* The type invariant                                                        *)

(* Every variable keeps its type whatever handlers run side by side.         *)
THEOREM TypeCorrect == Spec => []TypeOK
<1>1. Init => TypeOK
  <2>1. FreshRow \in Row /\ LegacyRow \in Row
    <3>1. 0 \in 0 .. Cap
      BY PoolAssumption DEF PoolAssumption
    <3>2. FreshRow \in Row
      BY <3>1 DEF FreshRow, Row, Statuses
    <3>3. LegacyRow \in Row
      BY <3>2 DEF LegacyRow, Row, Statuses
    <3> QED BY <3>2, <3>3
  <2>2. <<>> \in Seq(Steps)
    OBVIOUS
  <2> QED BY <2>1, <2>2 DEF Init, TypeOK
<1>2. TypeOK /\ [Next]_vars => TypeOK'
  <2> SUFFICES ASSUME TypeOK, [Next]_vars PROVE TypeOK'
    OBVIOUS
  <2> USE PoolAssumption
  <2>1. ASSUME NEW j \in Jobs, Begin(j) PROVE TypeOK'
    BY <2>1, ProgramType DEF TypeOK, Begin, PoolAssumption
  <2>2. ASSUME NEW j \in Jobs, JobStep(j) PROVE TypeOK'
    <3>1. row \in Row /\ first[j] \in Row /\ snap[j] \in Row /\ ReadRow(j) \in Row
      BY <2>2 DEF TypeOK, ReadRow, PoolAssumption
    <3>2. CASE ReadFirst(j)
      BY <3>1, <3>2, AdvanceType DEF TypeOK, ReadFirst
    <3>3. CASE Read(j)
      BY <3>1, <3>3, AdvanceType DEF TypeOK, Read
    <3>4. ASSUME NEW step, NEW m \in Row, Write(j, step, m), recovered' \subseteq Jobs
          PROVE TypeOK'
      BY <3>4, AdvanceType, PatchType DEF TypeOK, Write
    <3>5. recovered \subseteq Jobs
      BY DEF TypeOK
    <3>6. ASSUME NEW step, NEW cond, NEW m \in Row, When(j, step, cond, m) PROVE TypeOK'
      BY <3>6, AdvanceType, PatchType DEF TypeOK, When
    <3>7. CASE Touch(j)
      BY <3>1, <3>4, <3>5, <3>7 DEF Touch
    <3>8. CASE QuotaOff(j)
      BY <3>1, <3>4, <3>5, <3>8, RowTypes DEF QuotaOff
    <3>9. CASE QuotaSnap(j)
      BY <3>1, <3>4, <3>5, <3>9, RowTypes DEF QuotaSnap
    <3>10. CASE Free(j)
      BY <3>1, <3>4, <3>5, <3>10, RowTypes DEF Free
    <3>11. CASE Stack(j)
      BY <3>1, <3>4, <3>5, <3>11, RowTypes DEF Stack
    <3>12. CASE KickCount(j)
      BY <3>1, <3>4, <3>5, <3>12, RowTypes DEF KickCount
    <3>13. CASE SetUntil(j)
      <4>1. [row EXCEPT !.until = "future"] \in Row
        BY <3>1 DEF Row
      <4> QED BY <4>1, <3>4, <3>5, <3>13 DEF SetUntil
    <3>14. CASE Streak(j)
      <4>1. [row EXCEPT !.streak = first[j].streak + 1] \in Row
        BY <3>1 DEF Row
      <4> QED BY <4>1, <3>4, <3>5, <3>14 DEF Streak
    <3>15. CASE ProbeFail(j)
      BY <3>1, <3>4, <3>5, <3>15, RowTypes DEF ProbeFail
    <3>16. CASE ProbeOk(j)
      BY <3>1, <3>4, <3>16, RowTypes DEF ProbeOk
    <3>17. CASE Clear(j)
      BY <3>1, <3>4, <3>17, RowTypes DEF Clear
    <3>18. CASE Enable(j)
      BY <3>1, <3>4, <3>5, <3>18, RowTypes DEF Enable
    <3>19. CASE Disable(j)
      <4>1. [row EXCEPT !.enabled = FALSE] \in Row
        BY <3>1 DEF Row
      <4> QED BY <4>1, <3>4, <3>5, <3>19 DEF Disable
    <3>20. CASE ResetStreak(j)
      <4>1. [row EXCEPT !.streak = 0] \in Row
        BY <3>1 DEF Row
      <4> QED BY <4>1, <3>1, <3>6, <3>20 DEF ResetStreak
    <3>21. CASE Prune(j)
      <4>1. [row EXCEPT !.until = "none"] \in Row
        BY <3>1 DEF Row
      <4> QED BY <4>1, <3>6, <3>21 DEF Prune
    <3>22. CASE Reenable(j)
      <4>1. [row EXCEPT !.enabled = TRUE, !.source = "none"] \in Row
        BY <3>1 DEF Row
      <4> QED BY <4>1, <3>6, <3>22 DEF Reenable
    <3>23. CASE Save(j)
      <4>1. Derive(first[j]) \in Statuses
        BY DEF Derive, Statuses
      <4>2. row' \in Row
        <5>1. LookUntilRow(first[j], row) \in Row
          BY <3>1, RowTypes
        <5> QED BY <4>1, <5>1, <3>23 DEF Save, Row
      <4>3. op' \in [Jobs -> AllOps \cup {None}] /\ todo' \in [Jobs -> Seq(Steps)]
        BY <3>23, AdvanceType DEF Save
      <4> QED BY <3>1, <4>2, <4>3, <3>23 DEF Save, TypeOK
    <3>24. CASE LookUntil(j) \/ LookCount(j)
      <4>1. LookUntilRow(snap[j], row) \in Row /\ LookCountRow(first[j], row) \in Row
        BY <3>1, RowTypes
      <4>2. op' \in [Jobs -> AllOps \cup {None}] /\ todo' \in [Jobs -> Seq(Steps)]
        BY <3>24, AdvanceType DEF LookUntil, LookCount
      <4>3. first' \in [Jobs -> Row]
        <5>1. CASE LookUntil(j)
          BY <4>1, <5>1 DEF LookUntil, TypeOK
        <5>2. CASE LookCount(j)
          BY <4>1, <5>2 DEF LookCount, TypeOK
        <5> QED BY <3>24, <5>1, <5>2
      <4>4. blind' \subseteq Jobs /\ UNCHANGED <<row, cache, snap, recovered>>
        BY <3>24 DEF LookUntil, LookCount, TypeOK
      <4> QED BY <4>2, <4>3, <4>4 DEF TypeOK
    <3> QED BY <2>2, <3>2, <3>3, <3>7, <3>8, <3>9, <3>10, <3>11, <3>12, <3>13, <3>14,
               <3>15, <3>16, <3>17, <3>18, <3>19, <3>20, <3>21, <3>22, <3>23, <3>24 DEF JobStep
  <2>3. ASSUME NEW w \in Workers, FillCache(w) \/ LapseCache(w) PROVE TypeOK'
    BY <2>3 DEF TypeOK, FillCache, LapseCache, job
  <2>4. CASE Expire
    BY <2>4, RowTypes DEF TypeOK, Expire
  <2>5. CASE UNCHANGED vars
    BY <2>5 DEF TypeOK, vars, job
  <2> QED BY <2>1, <2>2, <2>3, <2>4, <2>5 DEF Next
<1> QED BY <1>1, <1>2, PTL DEF Spec

-----------------------------------------------------------------------------
(* A stacked cooldown is a counted one                                       *)

(* How each patched row relates to the row and to the meta it was read from. *)
LEMMA CountedRows ==
    ASSUME NEW m \in Row, NEW s \in Row, Counted(m), Counted(s), PoolAssumption
    PROVE  /\ Counted(FreeRow(m, s)) /\ Counted(FailRow(m, s)) /\ Counted(KickRow(m, s))
           /\ Counted(ProbeFailRow(m, s)) /\ Counted(ClearRow(m)) /\ Counted(ProbeOkRow(m, s))
           /\ Counted(LookUntilRow(s, m)) /\ Counted(LookCountRow(s, m)) /\ Counted(Aged(m))
<1>1. Counted(FreeRow(m, s)) /\ Counted(FailRow(m, s))
  BY DEF Counted, FreeRow, FailRow, Row
<1>2. Counted(KickRow(m, s))
  <2>1. KickRow(m, s).count > 0
    BY DEF KickRow, Row
  <2> QED BY <2>1 DEF Counted
<1>3. Counted(ProbeFailRow(m, s))
  <2>1. ASSUME NEW r \in Row, NEW n, Counted(r) PROVE Counted([r EXCEPT !.streak = n])
    BY <2>1 DEF Counted, Row
  <2> QED BY <1>1, <2>1, RowTypes DEF ProbeFailRow
<1>4. Counted(ClearRow(m)) /\ Counted(ProbeOkRow(m, s))
  BY DEF Counted, ClearRow, ProbeOkRow, Row
<1>5. Counted(LookUntilRow(s, m)) /\ Counted(LookCountRow(s, m))
  BY DEF Counted, LookUntilRow, LookCountRow, Row
<1>6. Counted(Aged(m))
  BY DEF Counted, Aged, Row
<1> QED BY <1>1, <1>2, <1>3, <1>4, <1>5, <1>6

(* A counted patch keeps every copy of the row counted.                      *)
LEMMA PatchCounted ==
    ASSUME TypeOK, CountedInv, NEW j \in Jobs, NEW m \in Row, Counted(m), Patch(j, m)
    PROVE  CountedInv'
<1>1. Counted([m EXCEPT !.status = Derive(m)])
  BY DEF Counted, Row
<1>2. \A w \in Workers : cache'[w] # None => Counted(cache'[w])
  BY <1>1 DEF TypeOK, Patch, CountedInv
<1> QED BY <1>1, <1>2 DEF Patch, CountedInv

LEMMA CountedStep == TypeOK /\ CountedInv /\ [Next]_vars => CountedInv'
<1> SUFFICES ASSUME TypeOK, CountedInv, [Next]_vars PROVE CountedInv'
  OBVIOUS
<1> USE PoolAssumption
<1>1. ASSUME NEW j \in Jobs, Begin(j) PROVE CountedInv'
  BY <1>1 DEF CountedInv, Begin
<1>2. ASSUME NEW j \in Jobs, JobStep(j) PROVE CountedInv'
  <2>1. /\ row \in Row /\ first[j] \in Row /\ snap[j] \in Row
        /\ Counted(row) /\ Counted(first[j]) /\ Counted(snap[j]) /\ Counted(ReadRow(j))
    BY <1>2 DEF TypeOK, CountedInv, ReadRow, PoolAssumption
  <2>2. CASE ReadFirst(j)
    BY <2>1, <2>2 DEF CountedInv, TypeOK, ReadFirst
  <2>3. CASE Read(j)
    BY <2>1, <2>3 DEF CountedInv, TypeOK, Read
  <2>4. ASSUME NEW step, NEW m \in Row, Counted(m), Write(j, step, m) PROVE CountedInv'
    BY <2>4, PatchCounted DEF Write
  <2>5. ASSUME NEW step, NEW cond, NEW m \in Row, Counted(m), When(j, step, cond, m)
        PROVE CountedInv'
    <3>1. CASE cond
      BY <2>5, <3>1, PatchCounted DEF When
    <3>2. CASE ~cond
      BY <2>5, <3>2 DEF When, CountedInv
    <3> QED BY <3>1, <3>2
  <2>6. CASE Touch(j)
    BY <2>1, <2>4, <2>6 DEF Touch
  <2>7. CASE QuotaOff(j) \/ QuotaSnap(j)
    <3>1. Counted(QuotaRow(row, "other")) /\ Counted(QuotaRow(row, row.source))
      BY <2>1 DEF Counted, QuotaRow, Row
    <3> QED BY <2>1, <2>4, <2>7, <3>1, RowTypes DEF QuotaOff, QuotaSnap
  <2>8. CASE Free(j)
    BY <2>1, <2>4, <2>8, RowTypes, CountedRows DEF Free
  <2>9. CASE Stack(j)
    BY <2>1, <2>4, <2>9, RowTypes, CountedRows DEF Stack
  <2>10. CASE KickCount(j)
    BY <2>1, <2>4, <2>10, RowTypes, CountedRows DEF KickCount
  <2>11. CASE SetUntil(j)
    <3>1. [row EXCEPT !.until = "future"] \in Row /\ Counted([row EXCEPT !.until = "future"])
      BY <2>1 DEF Counted, Row
    <3> QED BY <3>1, <2>4, <2>11 DEF SetUntil
  <2>12. CASE Streak(j)
    <3> DEFINE m == [row EXCEPT !.streak = first[j].streak + 1]
    <3>1. m \in Row /\ Counted(m)
      BY <2>1 DEF Counted, Row
    <3> QED BY <3>1, <2>4, <2>12 DEF Streak
  <2>13. CASE ProbeFail(j)
    BY <2>1, <2>4, <2>13, RowTypes, CountedRows DEF ProbeFail
  <2>14. CASE ProbeOk(j)
    BY <2>1, <2>4, <2>14, RowTypes, CountedRows DEF ProbeOk
  <2>15. CASE Clear(j)
    BY <2>1, <2>4, <2>15, RowTypes, CountedRows DEF Clear
  <2>16. CASE Enable(j)
    <3>1. Counted(EnableRow(row))
      BY <2>1 DEF Counted, EnableRow, Row
    <3> QED BY <2>1, <3>1, <2>4, <2>16, RowTypes DEF Enable
  <2>17. CASE Disable(j)
    <3>1. [row EXCEPT !.enabled = FALSE] \in Row /\ Counted([row EXCEPT !.enabled = FALSE])
      BY <2>1 DEF Counted, Row
    <3> QED BY <3>1, <2>4, <2>17 DEF Disable
  <2>18. CASE ResetStreak(j)
    <3>1. [row EXCEPT !.streak = 0] \in Row /\ Counted([row EXCEPT !.streak = 0])
      BY <2>1 DEF Counted, Row
    <3> QED BY <3>1, <2>1, <2>5, <2>18 DEF ResetStreak
  <2>19. CASE Prune(j)
    <3>1. [row EXCEPT !.until = "none"] \in Row /\ Counted([row EXCEPT !.until = "none"])
      BY <2>1 DEF Counted, Row
    <3> QED BY <3>1, <2>5, <2>19 DEF Prune
  <2>20. CASE Reenable(j)
    <3> DEFINE m == [row EXCEPT !.enabled = TRUE, !.source = "none"]
    <3>1. m \in Row /\ Counted(m)
      BY <2>1 DEF Counted, Row
    <3> QED BY <3>1, <2>5, <2>20 DEF Reenable
  <2>21. CASE Save(j)
    <3> DEFINE m == LookUntilRow(first[j], row)
    <3>1. m \in Row /\ Counted(m)
      BY <2>1, RowTypes, CountedRows
    <3>2. Counted([m EXCEPT !.status = Derive(first[j])])
      BY <3>1 DEF Counted, Row
    <3>3. Counted(row')
      BY <3>2, <2>21 DEF Save
    <3>4. \A w \in Workers : cache'[w] # None => Counted(cache'[w])
      BY <2>1, <2>21 DEF Save, CountedInv, TypeOK
    <3> QED BY <3>3, <3>4, <2>21 DEF Save, CountedInv
  <2>22. CASE LookUntil(j) \/ LookCount(j)
    <3>1. Counted(LookUntilRow(snap[j], row)) /\ Counted(LookCountRow(first[j], row))
      BY <2>1, CountedRows
    <3> QED BY <3>1, <2>22 DEF LookUntil, LookCount, CountedInv, TypeOK
  <2> QED BY <1>2, <2>2, <2>3, <2>6, <2>7, <2>8, <2>9, <2>10, <2>11, <2>12, <2>13, <2>14,
             <2>15, <2>16, <2>17, <2>18, <2>19, <2>20, <2>21, <2>22 DEF JobStep
<1>3. ASSUME NEW w \in Workers, FillCache(w) \/ LapseCache(w) PROVE CountedInv'
  BY <1>3 DEF CountedInv, TypeOK, FillCache, LapseCache, job
<1>4. CASE Expire
  <2>1. ASSUME NEW m \in Row, Counted(m) PROVE Counted(Aged(m))
    BY <2>1, CountedRows
  <2>2. Counted(row')
    BY <1>4, <2>1 DEF Expire, CountedInv, TypeOK
  <2>3. \A w \in Workers : cache'[w] # None => Counted(cache'[w])
    BY <1>4, <2>1 DEF Expire, CountedInv, TypeOK
  <2>4. \A j \in Jobs : Counted(first'[j]) /\ Counted(snap'[j])
    BY <1>4, <2>1 DEF Expire, CountedInv, TypeOK
  <2> QED BY <2>2, <2>3, <2>4 DEF CountedInv
<1>5. CASE UNCHANGED vars
  BY <1>5 DEF CountedInv, vars, job
<1> QED BY <1>1, <1>2, <1>3, <1>4, <1>5 DEF Next

(* The status stack never holds an entry that cooldown_count does not know:  *)
(* the invariant that lets _upsert_pool look at the count alone.             *)
THEOREM StackCounted == Spec => []StackIsCounted
<1>1. Init => CountedInv
  <2>1. Counted(FreshRow) /\ Counted(LegacyRow)
    BY DEF Counted, FreshRow, LegacyRow
  <2> QED BY <2>1 DEF Init, CountedInv
<1>2. CountedInv => StackIsCounted
  BY DEF CountedInv, Counted, StackIsCounted
<1> QED BY <1>1, <1>2, TypeCorrect, CountedStep, PTL DEF Spec

-----------------------------------------------------------------------------
(* What ends a counted cooldown                                              *)

(* A step of a job takes the head off its program; if that head counts, the  *)
(* step is one of the counting steps.                                        *)
LEMMA StepHead ==
    ASSUME TypeOK, NEW j \in Jobs, JobStep(j)
    PROVE  /\ todo[j] # <<>>
           /\ todo' = [todo EXCEPT ![j] = Tail(@)]
           /\ op' = op
           /\ Head(todo[j]) \in Counting => Free(j) \/ Stack(j) \/ KickCount(j)
           /\ Head(todo[j]) = "lookCount" => LookCount(j)
  BY DEF JobStep, ReadFirst, Read, Touch, QuotaOff, QuotaSnap, Free, Stack, KickCount, SetUntil,
         Streak, ProbeFail, ProbeOk, ResetStreak, Clear, Enable, Disable, Reenable, Prune,
         LookUntil, LookCount, Save, Write, When, At, Advance, Counting

(* What a step of one job leaves to the others.                              *)
LEMMA StepKeeps ==
    ASSUME TypeOK, NEW j \in Jobs, JobStep(j), NEW k \in Jobs \ {j}
    PROVE  first'[k] = first[k] /\ (k \in blind' <=> k \in blind)
  BY DEF TypeOK, JobStep, ReadFirst, Read, Touch, QuotaOff, QuotaSnap, Free, Stack, KickCount,
         SetUntil, Streak, ProbeFail, ProbeOk, ResetStreak, Clear, Enable, Disable, Reenable,
         Prune, LookUntil, LookCount, Save, Write, When, Patch

(* Part of SeesInv for one job.                                              *)
Sees(j) ==
    /\ \A i \in 2 .. Len(todo[j]) : todo[j][i] = "save" => todo[j][i - 1] = "lookCount"
    /\ At(j, "save") /\ j \notin blind => first[j].count > 0

LEMMA SeesStep == TypeOK /\ SeesInv /\ [Next]_vars => SeesInv'
<1> SUFFICES ASSUME TypeOK, SeesInv, [Next]_vars, NEW k \in Jobs PROVE Sees(k)'
  BY DEF SeesInv, Sees
<1> USE PoolAssumption
<1>0. Sees(k)
  BY DEF SeesInv, Sees
<1>1. ASSUME NEW j \in Jobs, Begin(j) PROVE Sees(k)'
  <2>1. first' = first /\ blind' = blind
    BY <1>1 DEF Begin
  <2>2. CASE k = j
    <3>1. PICK o \in AllOps : todo'[k] = Program(o)
      BY <1>1, <2>2 DEF Begin, TypeOK, PoolAssumption
    <3>2. CASE o.on = "purge"
      <4>1. todo'[k] = <<"read", "lookUntil", "lookCount", "save">>
        BY <3>1, <3>2, PurgeProgram
      <4> QED BY <4>1 DEF Sees, At
    <3>3. CASE o.on # "purge"
      <4>1. todo'[k] \in Seq(Patches)
        BY <3>1, <3>3, ProgramPatches
      <4>2. \A i \in 1 .. Len(todo'[k]) : todo'[k][i] # "save"
        BY <4>1 DEF Patches
      <4>3. ~(todo'[k] # <<>> /\ Head(todo'[k]) = "save")
        BY <4>1, <4>2
      <4> QED BY <4>1, <4>2, <4>3 DEF Sees, At
    <3> QED BY <3>2, <3>3
  <2>3. CASE k # j
    <3>1. todo'[k] = todo[k]
      BY <1>1, <2>3 DEF Begin, TypeOK
    <3> QED BY <1>0, <2>1, <3>1 DEF Sees, At
  <2> QED BY <2>2, <2>3
<1>2. ASSUME NEW j \in Jobs, JobStep(j) PROVE Sees(k)'
  <2>1. todo[j] # <<>> /\ todo[j] \in Seq(Steps) /\ todo' = [todo EXCEPT ![j] = Tail(@)]
    BY <1>2, StepHead DEF TypeOK
  <2>2. CASE k = j
    <3> DEFINE t == todo[k]
    <3>1. /\ t \in Seq(Steps) /\ t # <<>> /\ todo'[k] = Tail(t)
          /\ \A i \in 2 .. Len(t) : t[i] = "save" => t[i - 1] = "lookCount"
      BY <1>0, <2>1, <2>2 DEF TypeOK, Sees
    <3> HIDE DEF t
    <3>2. /\ Len(t) \in Nat /\ Len(Tail(t)) = Len(t) - 1 /\ Head(t) = t[1]
          /\ \A i \in 1 .. Len(Tail(t)) : Tail(t)[i] = t[i + 1]
      BY <3>1, LenProperties, HeadTailProperties
    <3>3. \A i \in 2 .. Len(Tail(t)) : Tail(t)[i] = "save" => Tail(t)[i - 1] = "lookCount"
      <4> SUFFICES ASSUME NEW i \in 2 .. Len(Tail(t)), Tail(t)[i] = "save"
                   PROVE  Tail(t)[i - 1] = "lookCount"
        OBVIOUS
      <4>1. i + 1 \in 2 .. Len(t) /\ t[i + 1] = "save" /\ i - 1 \in 1 .. Len(Tail(t))
        BY <3>2
      <4>2. t[i] = "lookCount"
        BY <3>1, <4>1
      <4> QED BY <3>2, <4>1, <4>2
    <3>4. ASSUME Tail(t) # <<>>, Head(Tail(t)) = "save" PROVE LookCount(k)
      <4>1. Tail(t) \in Seq(Steps) /\ Len(Tail(t)) > 0 /\ Head(Tail(t)) = Tail(t)[1]
        BY <3>1, <3>4, LenProperties, EmptySeq, HeadTailProperties
      <4>2. 2 \in 2 .. Len(t) /\ t[2] = "save"
        BY <3>2, <3>4, <4>1
      <4>3. t[1] = "lookCount"
        BY <3>1, <4>2
      <4>4. Head(todo[j]) = "lookCount"
        BY <2>2, <3>2, <4>3 DEF t
      <4> QED BY <1>2, <2>2, <4>4, StepHead
    <3>5. ASSUME LookCount(k), k \notin blind' PROVE first'[k].count > 0
      <4>1. row \in Row /\ first[k] \in Row /\ row.count > 0
        BY <3>5 DEF LookCount, TypeOK, Row
      <4>2. first'[k] = LookCountRow(first[k], row)
        BY <3>5 DEF LookCount, TypeOK
      <4> QED BY <4>1, <4>2 DEF LookCountRow, Row
    <3> QED BY <3>1, <3>3, <3>4, <3>5 DEF Sees, At
  <2>3. CASE k # j
    <3>1. todo'[k] = todo[k] /\ first'[k] = first[k] /\ (k \in blind' <=> k \in blind)
      BY <1>2, <2>1, <2>3, StepKeeps DEF TypeOK
    <3> QED BY <1>0, <3>1 DEF Sees, At
  <2> QED BY <2>2, <2>3
<1>3. ASSUME NEW w \in Workers, FillCache(w) \/ LapseCache(w) PROVE Sees(k)'
  BY <1>0, <1>3 DEF FillCache, LapseCache, job, Sees, At
<1>4. CASE Expire
  <2>1. first'[k].count = first[k].count
    BY <1>4 DEF Expire, Aged, TypeOK, Row
  <2> QED BY <1>0, <1>4, <2>1 DEF Expire, Sees, At
<1>5. CASE UNCHANGED vars
  BY <1>0, <1>5 DEF vars, job, Sees, At
<1> QED BY <1>1, <1>2, <1>3, <1>4, <1>5 DEF Next

(* A step at which a counted cooldown may end.                               *)
Ending == \E j \in Jobs : ProbeOk(j) \/ Clear(j) \/ (Save(j) /\ j \in blind)

LEMMA CountSurvives ==
    ASSUME TypeOK, SeesInv, Next, row.count > 0, ~Ending
    PROVE  row'.count > 0
<1> USE PoolAssumption
<1>1. row \in Row
  BY DEF TypeOK
<1>2. ASSUME NEW j \in Jobs, NEW m \in Row, m.count > 0, Patch(j, m) PROVE row'.count > 0
  BY <1>2 DEF Patch, Row
<1>3. ASSUME NEW j \in Jobs, Begin(j) PROVE row'.count > 0
  BY <1>3 DEF Begin
<1>4. ASSUME NEW j \in Jobs, JobStep(j) PROVE row'.count > 0
  <2>1. first[j] \in Row /\ snap[j] \in Row
    BY DEF TypeOK
  <2>2. ASSUME NEW s \in Row
        PROVE  /\ FreeRow(row, s).count > 0 /\ FailRow(row, s).count > 0
               /\ KickRow(row, s).count > 0
    <3>1. Stacked(s) > 0
      BY <2>2 DEF Stacked, Row, PoolAssumption
    <3>2. FreeRow(row, s).count > 0 /\ FailRow(row, s).count > 0
      BY <1>1, <3>1 DEF FreeRow, FailRow, Row
    <3>3. KickRow(row, s).count > 0
      BY <1>1 DEF KickRow, Row
    <3> QED BY <3>2, <3>3
  <2>3. ProbeFailRow(row, first[j]).count > 0
    <3>1. ASSUME NEW r \in Row, NEW n, r.count > 0 PROVE [r EXCEPT !.streak = n].count > 0
      BY <3>1 DEF Row
    <3> QED BY <1>1, <2>1, <2>2, <3>1, RowTypes DEF ProbeFailRow
  <2>4. CASE ReadFirst(j) \/ Read(j)
    BY <2>4 DEF ReadFirst, Read
  <2>5. CASE Touch(j)
    BY <1>1, <1>2, <2>5 DEF Touch, Write
  <2>6. CASE QuotaOff(j) \/ QuotaSnap(j)
    <3>1. QuotaRow(row, "other").count > 0 /\ QuotaRow(row, row.source).count > 0
      BY <1>1 DEF QuotaRow, Row
    <3> QED BY <1>1, <1>2, <2>6, <3>1, RowTypes DEF QuotaOff, QuotaSnap, Write
  <2>7. CASE Free(j)
    BY <1>1, <1>2, <2>1, <2>2, <2>7, RowTypes DEF Free, Write
  <2>8. CASE Stack(j)
    BY <1>1, <1>2, <2>1, <2>2, <2>8, RowTypes DEF Stack, Write
  <2>9. CASE KickCount(j)
    BY <1>1, <1>2, <2>1, <2>2, <2>9, RowTypes DEF KickCount, Write
  <2>10. CASE SetUntil(j)
    <3>1. [row EXCEPT !.until = "future"] \in Row /\ [row EXCEPT !.until = "future"].count > 0
      BY <1>1 DEF Row
    <3> QED BY <3>1, <1>2, <2>10 DEF SetUntil, Write
  <2>11. CASE Streak(j)
    <3> DEFINE m == [row EXCEPT !.streak = first[j].streak + 1]
    <3>1. m \in Row /\ m.count > 0
      BY <1>1, <2>1 DEF Row
    <3> QED BY <3>1, <1>2, <2>11 DEF Streak, Write
  <2>12. CASE ProbeFail(j)
    BY <1>1, <1>2, <2>1, <2>3, <2>12, RowTypes DEF ProbeFail, Write
  <2>13. CASE Enable(j)
    <3>1. EnableRow(row).count > 0
      BY <1>1 DEF EnableRow, Row
    <3> QED BY <1>1, <3>1, <1>2, <2>13, RowTypes DEF Enable, Write
  <2>14. CASE Disable(j)
    <3>1. [row EXCEPT !.enabled = FALSE] \in Row /\ [row EXCEPT !.enabled = FALSE].count > 0
      BY <1>1 DEF Row
    <3> QED BY <3>1, <1>2, <2>14 DEF Disable, Write
  <2>15. ASSUME NEW step, NEW cond, NEW m \in Row, m.count > 0, When(j, step, cond, m)
         PROVE row'.count > 0
    <3>1. CASE cond
      BY <1>2, <2>15, <3>1 DEF When
    <3>2. CASE ~cond
      BY <2>15, <3>2 DEF When
    <3> QED BY <3>1, <3>2
  <2>16. CASE ResetStreak(j)
    <3>1. [row EXCEPT !.streak = 0] \in Row /\ [row EXCEPT !.streak = 0].count > 0
      BY <1>1 DEF Row
    <3> QED BY <1>1, <3>1, <2>15, <2>16 DEF ResetStreak
  <2>17. CASE Prune(j)
    <3>1. [row EXCEPT !.until = "none"] \in Row /\ [row EXCEPT !.until = "none"].count > 0
      BY <1>1 DEF Row
    <3> QED BY <3>1, <2>15, <2>17 DEF Prune
  <2>18. CASE Reenable(j)
    <3> DEFINE m == [row EXCEPT !.enabled = TRUE, !.source = "none"]
    <3>1. m \in Row /\ m.count > 0
      BY <1>1 DEF Row
    <3> QED BY <3>1, <2>15, <2>18 DEF Reenable
  <2>19. CASE Save(j)
    <3>1. At(j, "save") /\ j \notin blind
      BY <2>19 DEF Save, Ending
    <3>2. first[j].count > 0
      BY <3>1 DEF SeesInv
    <3>3. LookUntilRow(first[j], row).count > 0 /\ LookUntilRow(first[j], row) \in Row
      BY <1>1, <2>1, <3>2, RowTypes DEF LookUntilRow, Row
    <3> QED BY <3>3, <2>19 DEF Save, Row
  <2>20. CASE LookUntil(j) \/ LookCount(j)
    BY <2>20 DEF LookUntil, LookCount
  <2>21. ~(ProbeOk(j) \/ Clear(j))
    BY DEF Ending
  <2> QED BY <1>4, <2>4, <2>5, <2>6, <2>7, <2>8, <2>9, <2>10, <2>11, <2>12, <2>13, <2>14,
             <2>16, <2>17, <2>18, <2>19, <2>20, <2>21 DEF JobStep
<1>5. ASSUME NEW w \in Workers, FillCache(w) \/ LapseCache(w) PROVE row'.count > 0
  BY <1>5 DEF FillCache, LapseCache
<1>6. CASE Expire
  BY <1>1, <1>6 DEF Expire, Aged, Row
<1> QED BY <1>3, <1>4, <1>5, <1>6 DEF Next

LEMMA SeesAlways == Spec => []SeesInv
<1>1. Init => SeesInv
  BY DEF Init, SeesInv, At
<1> QED BY <1>1, TypeCorrect, SeesStep, PTL DEF Spec

(* No interleaving of failures, live traffic, quota changes, enables and     *)
(* prunes loses a counted cooldown, and a rewrite of the whole table only    *)
(* when nothing was counted as it looked: is_in_cooldown's "Only successful  *)
(* probe / manual clear clears these fields", for the count.                 *)
THEOREM CountEnds == Spec => CountKept
<1> DEFINE Ends == row.count > 0 /\ row'.count = 0
                     => \E j \in Jobs : (Recovers(j) \/ Forgets(j)) /\ todo'[j] # todo[j]
<1>1. TypeOK /\ SeesInv /\ [Next]_vars => [Ends]_vars
  <2> SUFFICES ASSUME TypeOK, SeesInv, Next, row.count > 0, row'.count = 0
               PROVE  \E j \in Jobs : (Recovers(j) \/ Forgets(j)) /\ todo'[j] # todo[j]
    OBVIOUS
  <2>1. PICK j \in Jobs : ProbeOk(j) \/ Clear(j) \/ (Save(j) /\ j \in blind)
    BY CountSurvives DEF Ending
  <2>2. Recovers(j) \/ Forgets(j)
    BY <2>1 DEF Recovers, Forgets, ProbeOk, Clear, Save, Write
  <2>3. todo'[j] # todo[j]
    <3>1. todo[j] \in Seq(Steps) /\ todo[j] # <<>> /\ todo'[j] = Tail(todo[j])
      BY <2>1 DEF ProbeOk, Clear, Save, Write, At, Advance, TypeOK
    <3>2. Len(todo[j]) \in Nat /\ Len(Tail(todo[j])) = Len(todo[j]) - 1
      BY <3>1, HeadTailProperties, LenProperties
    <3>3. Len(todo'[j]) # Len(todo[j])
      BY ONLY <3>1, <3>2
    <3> QED BY ONLY <3>3
  <2> QED BY <2>2, <2>3
<1> QED BY <1>1, TypeCorrect, SeesAlways, PTL DEF Spec, CountKept

-----------------------------------------------------------------------------
(* A reported failure leaves the account cooling                             *)

(* A counting step counts.                                                   *)
LEMMA CountingStep ==
    ASSUME TypeOK, NEW j \in Jobs, Free(j) \/ Stack(j) \/ KickCount(j)
    PROVE  row'.count > 0
<1> USE PoolAssumption
<1>1. row \in Row /\ first[j] \in Row /\ snap[j] \in Row
  BY DEF TypeOK
<1>2. ASSUME NEW s \in Row
      PROVE  FreeRow(row, s).count > 0 /\ FailRow(row, s).count > 0 /\ KickRow(row, s).count > 0
  <2>1. Stacked(s) > 0
    BY <1>2 DEF Stacked, Row, PoolAssumption
  <2>2. FreeRow(row, s).count > 0 /\ FailRow(row, s).count > 0
    BY <1>1, <2>1 DEF FreeRow, FailRow, Row
  <2>3. KickRow(row, s).count > 0
    BY <1>1 DEF KickRow, Row
  <2> QED BY <2>2, <2>3
<1>3. ASSUME NEW m \in Row, m.count > 0, Patch(j, m) PROVE row'.count > 0
  BY <1>3 DEF Patch, Row
<1> QED BY <1>1, <1>2, <1>3, RowTypes DEF Free, Stack, KickCount, Write

LEMMA WillCountConcat ==
    ASSUME NEW s \in Seq(Steps), NEW t \in Seq(Steps), WillCount(s) \/ WillCount(t)
    PROVE  WillCount(s \o t)
<1>1. /\ Len(s) \in Nat /\ Len(t) \in Nat /\ Len(s \o t) = Len(s) + Len(t)
      /\ \A i \in 1 .. Len(s) : (s \o t)[i] = s[i]
      /\ \A i \in 1 .. Len(t) : (s \o t)[Len(s) + i] = t[i]
  BY ConcatProperties, LenProperties
<1>2. CASE WillCount(s)
  <2>1. PICK i \in 1 .. Len(s) : s[i] \in Counting
    BY <1>2 DEF WillCount
  <2>2. i \in 1 .. Len(s \o t) /\ (s \o t)[i] \in Counting
    BY <1>1, <2>1
  <2> QED BY <2>2 DEF WillCount
<1>3. CASE WillCount(t)
  <2>1. PICK i \in 1 .. Len(t) : t[i] \in Counting
    BY <1>3 DEF WillCount
  <2>2. Len(s) + i \in 1 .. Len(s \o t) /\ (s \o t)[Len(s) + i] \in Counting
    BY <1>1, <2>1
  <2> QED BY <2>2 DEF WillCount
<1> QED BY <1>2, <1>3

(* What is left of a program after a step that does not count.               *)
LEMMA WillCountTail ==
    ASSUME NEW t \in Seq(Steps), t # <<>>, WillCount(t), Head(t) \notin Counting
    PROVE  WillCount(Tail(t))
<1>1. PICK i \in 1 .. Len(t) : t[i] \in Counting
  BY DEF WillCount
<1>2. Len(t) \in Nat /\ Len(Tail(t)) = Len(t) - 1 /\ Head(t) = t[1]
  BY LenProperties, HeadTailProperties
<1>3. \A k \in 1 .. Len(Tail(t)) : Tail(t)[k] = t[k + 1]
  BY HeadTailProperties
<1>4. i # 1
  BY <1>1, <1>2
<1>5. i - 1 \in 1 .. Len(Tail(t)) /\ Tail(t)[i - 1] = t[i]
  BY <1>1, <1>2, <1>3, <1>4
<1> QED BY <1>1, <1>5 DEF WillCount

(* Every handler that must take the account out of rotation counts.          *)
LEMMA CoolsCounts == ASSUME NEW o \in AllOps, Cools(o) PROVE WillCount(Program(o))
<1>1. /\ \A t \in Seq(Patches) : t \in Seq(Steps)
      /\ \A s, t \in Seq(Patches) : (WillCount(s) \/ WillCount(t)) => WillCount(s \o t)
  <2>1. \A t \in Seq(Patches) : t \in Seq(Steps)
    BY StepNames
  <2> QED BY <2>1, WillCountConcat
<1>2. o.on \in {"live", "probe"} => o.err \in Failures
  BY DEF AllOps, LiveOps, ProbeOps, PlainOps
<1>3. WillCount(<<"read", "touch", "free", "until">>)
  <2>1. 3 \in 1 .. Len(<<"read", "touch", "free", "until">>)
        /\ <<"read", "touch", "free", "until">>[3] \in Counting
    BY DEF Counting
  <2> QED BY <2>1 DEF WillCount
<1>4. CASE o.on = "live"
  <2>1. o.err \in Failures /\ o.err # "egress"
    BY <1>2, <1>4 DEF Cools
  <2>2. CASE o.err = "free"
    <3>1. Program(o) = <<"readFirst">> \o ModelSteps(o.err) \o <<"read", "touch", "free", "until">>
      BY <1>4, <2>2 DEF Program, LiveFailure
    <3>2. <<"readFirst">> \o ModelSteps(o.err) \in Seq(Patches)
      BY <2>1, PartTypes
    <3> QED BY <1>1, <1>3, <3>1, <3>2, PartTypes
  <2>3. CASE o.err # "free"
    <3>1. Program(o) = <<"readFirst">> \o QuotaSteps(o.err) \o ModelSteps(o.err)
                       \o <<"stack", "until">>
      BY <1>4, <2>1, <2>3 DEF Program, LiveFailure
    <3>2. <<"readFirst">> \o QuotaSteps(o.err) \in Seq(Patches)
      BY <2>1, PartTypes
    <3>3. <<"readFirst">> \o QuotaSteps(o.err) \o ModelSteps(o.err) \in Seq(Patches)
      BY <2>1, <3>2, PartTypes
    <3>4. WillCount(<<"stack", "until">>)
      <4>1. 1 \in 1 .. Len(<<"stack", "until">>) /\ <<"stack", "until">>[1] \in Counting
        BY DEF Counting
      <4> QED BY <4>1 DEF WillCount
    <3> QED BY <1>1, <3>1, <3>3, <3>4, PartTypes
  <2> QED BY <2>2, <2>3
<1>5. CASE o.on = "probe"
  <2>1. o.err \in {"free", "block", "credits", "model"} /\ o.err \in Failures
    BY <1>2, <1>5 DEF Cools
  <2>2. WillCount(ModelSteps(o.err))
    <3>1. CASE o.err = "free"
      <4>1. 3 \in 1 .. Len(ModelSteps(o.err)) /\ ModelSteps(o.err)[3] \in Counting
        BY <3>1 DEF ModelSteps, Counting
      <4> QED BY <4>1 DEF WillCount
    <3>2. CASE o.err \in {"block", "credits"}
      <4>1. ModelSteps(o.err) = <<"read", "kickCount", "until", "quotaOff">>
        BY <3>2 DEF ModelSteps
      <4>2. 2 \in 1 .. Len(ModelSteps(o.err)) /\ ModelSteps(o.err)[2] \in Counting
        BY <4>1 DEF Counting
      <4> QED BY <4>2 DEF WillCount
    <3>3. CASE o.err = "model"
      <4>1. 3 \in 1 .. Len(ModelSteps(o.err)) /\ ModelSteps(o.err)[3] \in Counting
        BY <3>3 DEF ModelSteps, Counting
      <4> QED BY <4>1 DEF WillCount
    <3> QED BY <2>1, <3>1, <3>2, <3>3
  <2>3. PICK last \in Seq(Patches) : Program(o) = ModelSteps(o.err) \o last
    <3>1. CASE o.err = "free"
      BY <1>5, <3>1, PartTypes DEF Program, ProbeFailure
    <3>2. CASE o.err # "free"
      BY <1>5, <2>1, <3>2, PartTypes DEF Program, ProbeFailure
    <3> QED BY <3>1, <3>2
  <2> QED BY <1>1, <2>1, <2>2, <2>3, PartTypes
<1>6. CASE o.on = "kick"
  <2>1. Program(o) = <<"read", "kickCount", "until">>
    BY <1>6 DEF Program
  <2>2. 2 \in 1 .. Len(Program(o)) /\ Program(o)[2] \in Counting
    BY <2>1 DEF Counting
  <2> QED BY <2>2 DEF WillCount
<1> QED BY <1>4, <1>5, <1>6 DEF Cools

LEMMA CoolsStep == TypeOK /\ SeesInv /\ CoolsInv /\ [Next]_vars => CoolsInv'
<1> SUFFICES ASSUME TypeOK, SeesInv, CoolsInv, [Next]_vars PROVE CoolsInv'
  OBVIOUS
<1> USE PoolAssumption
<1>1. CASE Ending
  <2>1. recovered' = Jobs
    BY <1>1 DEF Ending, ProbeOk, Clear, Save
  <2> QED BY <2>1 DEF CoolsInv
<1>2. CASE ~Ending
  <2>1. Next /\ row.count > 0 => row'.count > 0
    BY <1>2, CountSurvives
  <2>2. ASSUME NEW k \in Jobs, Begin(k) PROVE CoolsInv'
    <3>1. PICK o \in Ops : op' = [op EXCEPT ![k] = o] /\ todo' = [todo EXCEPT ![k] = Program(o)]
      BY <2>2 DEF Begin
    <3>2. o \in AllOps /\ row' = row /\ recovered' = recovered \ {k}
      BY <2>2 DEF Begin, PoolAssumption
    <3>3. op'[k] = o /\ todo'[k] = Program(o)
      BY <3>1 DEF TypeOK
    <3>4. \A j \in Jobs \ {k} : op'[j] = op[j] /\ todo'[j] = todo[j]
      BY <3>1 DEF TypeOK
    <3> QED BY <3>2, <3>3, <3>4, CoolsCounts DEF CoolsInv
  <2>3. ASSUME NEW k \in Jobs, JobStep(k) PROVE CoolsInv'
    <3>1. recovered' = recovered
      BY <1>2, <2>3 DEF JobStep, ReadFirst, Read, Touch, QuotaOff, QuotaSnap, Free, Stack,
            KickCount, SetUntil, Streak, ProbeFail, ResetStreak, Enable, Disable, Reenable,
            Prune, LookUntil, LookCount, Save, When, Ending
    <3>2. op' = op /\ \A j \in Jobs \ {k} : todo'[j] = todo[j]
      BY <2>3, StepHead DEF TypeOK
    <3>3. CASE Head(todo[k]) \in Counting
      <4>1. row'.count > 0
        BY <2>3, <3>3, StepHead, CountingStep
      <4> QED BY <4>1 DEF CoolsInv
    <3>4. CASE Head(todo[k]) \notin Counting
      <4>1. WillCount(todo[k]) => WillCount(todo'[k])
        <5>1. todo[k] \in Seq(Steps) /\ todo[k] # <<>> /\ todo'[k] = Tail(todo[k])
          BY <2>3, StepHead DEF TypeOK
        <5> QED BY <3>4, <5>1, WillCountTail
      <4>2. row.count > 0 => row'.count > 0
        BY <2>1, <2>3 DEF Next
      <4> QED BY <3>1, <3>2, <4>1, <4>2 DEF CoolsInv
    <3> QED BY <3>3, <3>4
  <2>4. ASSUME NEW w \in Workers, FillCache(w) \/ LapseCache(w) PROVE CoolsInv'
    BY <2>4 DEF FillCache, LapseCache, job, CoolsInv
  <2>5. CASE Expire
    <3>1. row.count > 0 => row'.count > 0
      BY <2>1, <2>5 DEF Next
    <3> QED BY <2>5, <3>1 DEF Expire, CoolsInv
  <2>6. CASE UNCHANGED vars
    BY <2>6 DEF vars, job, CoolsInv
  <2> QED BY <2>2, <2>3, <2>4, <2>5, <2>6 DEF Next
<1> QED BY <1>1, <1>2

(* Once report_failure, a probe that found the account unusable or a kick    *)
(* has returned, the account is cooling, unless a recovery ran meanwhile, or *)
(* a rewrite of the whole table that had looked before anything was counted. *)
THEOREM FailureLeavesCooling == Spec => []FailureCools
<1>1. Init => CoolsInv
  BY DEF Init, CoolsInv
<1>2. CoolsInv => FailureCools
  BY DEF CoolsInv, FailureCools, Finished, WillCount
<1> QED BY <1>1, <1>2, TypeCorrect, SeesAlways, CoolsStep, PTL DEF Spec
-----------------------------------------------------------------------------
(* A quota disable holds                                                     *)

(* Every patch but that of an enable keeps the flag of the row it is applied *)
(* to, whatever it was computed from.                                        *)
LEMMA QuotaSurvives ==
    ASSUME TypeOK, Next, row.quota, ~(\E j \in Jobs : Enable(j) \/ Save(j))
    PROVE  row'.quota
<1> USE PoolAssumption
<1>1. row \in Row
  BY DEF TypeOK
<1>2. ASSUME NEW j \in Jobs, NEW m \in Row, m.quota, Patch(j, m) PROVE row'.quota
  BY <1>2 DEF Patch, Row
<1>3. ASSUME NEW j \in Jobs, JobStep(j) PROVE row'.quota
  <2>1. first[j] \in Row /\ snap[j] \in Row
    BY DEF TypeOK
  <2>2. ASSUME NEW s \in Row
        PROVE  /\ FreeRow(row, s).quota /\ FailRow(row, s).quota /\ KickRow(row, s).quota
               /\ ClearRow(row).quota /\ ProbeOkRow(row, s).quota
               /\ QuotaRow(row, "other").quota /\ QuotaRow(row, row.source).quota
    <3>1. FreeRow(row, s).quota /\ FailRow(row, s).quota /\ KickRow(row, s).quota
      BY <1>1 DEF FreeRow, FailRow, KickRow, Row
    <3>2. ClearRow(row).quota /\ ProbeOkRow(row, s).quota
      BY <1>1 DEF ClearRow, ProbeOkRow, Row
    <3> QED BY <1>1, <3>1, <3>2 DEF QuotaRow, Row
  <2>3. ProbeFailRow(row, first[j]).quota
    <3>1. ASSUME NEW r \in Row, NEW n, r.quota PROVE [r EXCEPT !.streak = n].quota
      BY <3>1 DEF Row
    <3> QED BY <1>1, <2>1, <2>2, <3>1, RowTypes DEF ProbeFailRow
  <2>4. ASSUME NEW step, NEW m \in Row, m.quota, Write(j, step, m) PROVE row'.quota
    BY <1>2, <2>4 DEF Write
  <2>5. ASSUME NEW step, NEW cond, NEW m \in Row, m.quota, When(j, step, cond, m)
        PROVE row'.quota
    <3>1. CASE cond
      BY <1>2, <2>5, <3>1 DEF When
    <3>2. CASE ~cond
      BY <2>5, <3>2 DEF When
    <3> QED BY <3>1, <3>2
  <2>6. CASE ReadFirst(j) \/ Read(j) \/ LookUntil(j) \/ LookCount(j)
    BY <2>6 DEF ReadFirst, Read, LookUntil, LookCount
  <2>7. CASE Touch(j)
    BY <1>1, <2>4, <2>7 DEF Touch
  <2>8. CASE QuotaOff(j) \/ QuotaSnap(j)
    BY <1>1, <2>1, <2>2, <2>4, <2>8, RowTypes DEF QuotaOff, QuotaSnap
  <2>9. CASE Free(j) \/ Stack(j) \/ KickCount(j)
    BY <1>1, <2>1, <2>2, <2>4, <2>9, RowTypes DEF Free, Stack, KickCount
  <2>10. CASE ProbeFail(j) \/ ProbeOk(j) \/ Clear(j)
    BY <1>1, <2>1, <2>2, <2>3, <2>4, <2>10, RowTypes DEF ProbeFail, ProbeOk, Clear
  <2>11. CASE SetUntil(j)
    <3>1. [row EXCEPT !.until = "future"] \in Row /\ [row EXCEPT !.until = "future"].quota
      BY <1>1 DEF Row
    <3> QED BY <3>1, <2>4, <2>11 DEF SetUntil
  <2>12. CASE Streak(j)
    <3> DEFINE m == [row EXCEPT !.streak = first[j].streak + 1]
    <3>1. m \in Row /\ m.quota
      BY <1>1, <2>1 DEF Row
    <3> QED BY <3>1, <2>4, <2>12 DEF Streak
  <2>13. CASE Disable(j)
    <3>1. [row EXCEPT !.enabled = FALSE] \in Row /\ [row EXCEPT !.enabled = FALSE].quota
      BY <1>1 DEF Row
    <3> QED BY <3>1, <2>4, <2>13 DEF Disable
  <2>14. CASE ResetStreak(j)
    <3>1. [row EXCEPT !.streak = 0] \in Row /\ [row EXCEPT !.streak = 0].quota
      BY <1>1 DEF Row
    <3> QED BY <1>1, <3>1, <2>5, <2>14 DEF ResetStreak
  <2>15. CASE Prune(j)
    <3>1. [row EXCEPT !.until = "none"] \in Row /\ [row EXCEPT !.until = "none"].quota
      BY <1>1 DEF Row
    <3> QED BY <3>1, <2>5, <2>15 DEF Prune
  <2>16. CASE Reenable(j)
    <3> DEFINE m == [row EXCEPT !.enabled = TRUE, !.source = "none"]
    <3>1. m \in Row /\ m.quota
      BY <1>1 DEF Row
    <3> QED BY <3>1, <2>5, <2>16 DEF Reenable
  <2>17. ~Enable(j) /\ ~Save(j)
    OBVIOUS
  <2> QED BY <1>3, <2>6, <2>7, <2>8, <2>9, <2>10, <2>11, <2>12, <2>13, <2>14, <2>15, <2>16, <2>17
          DEF JobStep
<1>4. ASSUME NEW j \in Jobs, Begin(j) PROVE row'.quota
  BY <1>4 DEF Begin
<1>5. ASSUME NEW w \in Workers, FillCache(w) \/ LapseCache(w) PROVE row'.quota
  BY <1>5 DEF FillCache, LapseCache
<1>6. CASE Expire
  BY <1>1, <1>6 DEF Expire, Aged, Row
<1> QED BY <1>3, <1>4, <1>5, <1>6 DEF Next

(* disable_for_quota's flag is lost to nothing but an administrator's enable *)
(* and the whole-table write of a deletion, whatever the handlers of live    *)
(* traffic, probes and billing do side by side with stale reads.             *)
THEOREM QuotaHolds == Spec => QuotaNeedsAdmin
<1> DEFINE Lost == row.quota /\ ~row'.quota
                     => \E j \in Jobs : (At(j, "enable") \/ At(j, "save")) /\ todo'[j] # todo[j]
<1>1. TypeOK /\ [Next]_vars => [Lost]_vars
  <2> SUFFICES ASSUME TypeOK, Next, row.quota, ~row'.quota
               PROVE  \E j \in Jobs : (At(j, "enable") \/ At(j, "save")) /\ todo'[j] # todo[j]
    OBVIOUS
  <2>1. PICK j \in Jobs : Enable(j) \/ Save(j)
    BY QuotaSurvives
  <2>2. (At(j, "enable") \/ At(j, "save")) /\ todo[j] # <<>> /\ Advance(j)
    BY <2>1 DEF Enable, Save, Write, At
  <2>3. todo[j] \in Seq(Steps) /\ todo'[j] = Tail(todo[j])
    BY <2>2 DEF Advance, TypeOK
  <2>4. Len(todo[j]) \in Nat /\ Len(Tail(todo[j])) = Len(todo[j]) - 1
    BY <2>2, <2>3, HeadTailProperties, LenProperties
  <2>5. Len(todo'[j]) # Len(todo[j])
    BY ONLY <2>3, <2>4
  <2>6. todo'[j] # todo[j]
    BY ONLY <2>5
  <2> QED BY <2>2, <2>6
<1> QED BY <1>1, TypeCorrect, PTL DEF Spec, QuotaNeedsAdmin

-----------------------------------------------------------------------------
(* The counts of usage: sums over the days                                   *)

(* A set of numbers that is not empty has a least one: induction.            *)
LEMMA Least == ASSUME NEW T, T \subseteq Nat, T # {} PROVE \E n \in T : \A m \in T : n <= m
<1> SUFFICES ASSUME \A n \in T : \E m \in T : m < n PROVE FALSE
  OBVIOUS
<1> DEFINE D == {n \in Nat : \A m \in T : n < m}
           up == [n \in D |-> n + 1]
<1>1. 0 \in D
  OBVIOUS
<1>2. ASSUME NEW n \in D PROVE n + 1 \in D
  <2>1. SUFFICES ASSUME NEW m \in T, ~(n + 1 < m) PROVE FALSE
    OBVIOUS
  <2>2. m = n + 1
    BY <2>1
  <2>3. PICK k \in T : k < m
    OBVIOUS
  <2> QED BY <2>2, <2>3
<1>3. PICK t \in T : TRUE
  OBVIOUS
<1>4. IsFiniteSet(D)
  <2>1. \A s \in D : s <= t
    BY <1>3
  <2> QED BY <1>3, <2>1, FS_BoundedSetOfNaturals
<1>5. IsFiniteSet(D \ {0}) /\ Cardinality(D \ {0}) = Cardinality(D) - 1 /\ Cardinality(D) \in Nat
  BY <1>1, <1>4, FS_RemoveElement, FS_CardinalityType
<1>6. up \in [D -> D \ {0}]
  BY <1>2
<1>7. \E x, y \in D : x # y /\ up[x] = up[y]
  <2> HIDE DEF D, up
  <2> QED BY <1>4, <1>5, <1>6, FS_PigeonHole
<1> QED BY <1>7

(* Induction, for a set.                                                     *)
LEMMA Induction ==
    ASSUME NEW T, 0 \in T, \A m \in Nat : m \in T => m + 1 \in T
    PROVE  Nat \subseteq T
<1> SUFFICES ASSUME Nat \ T # {} PROVE FALSE
  OBVIOUS
<1>1. PICK k \in Nat \ T : \A m \in Nat \ T : k <= m
  BY Least
<1>2. k # 0 /\ k - 1 \in Nat /\ k - 1 \in T /\ (k - 1) + 1 = k
  BY <1>1
<1> QED BY <1>2

(* The sum of the days is reached day by day.                                *)
LEMMA TotalSteps ==
    ASSUME NEW s
    PROVE  \E f : /\ f = [n \in 0 .. MaxDay |-> IF n = 0 THEN 0 ELSE f[n - 1] + s[n]]
                  /\ Usage!Total(s) = f[MaxDay]
<1>1. MaxDay \in Nat
  BY ReportsAssumption DEF Usage!UsageAssumption
<1> DEFINE Good(m) == m <= MaxDay =>
              \E f : f = [n \in 0 .. m |-> IF n = 0 THEN 0 ELSE f[n - 1] + s[n]]
<1>2. Good(0)
  <2> DEFINE f == [n \in 0 .. 0 |-> 0]
  <2>1. f = [n \in 0 .. 0 |-> IF n = 0 THEN 0 ELSE f[n - 1] + s[n]]
    OBVIOUS
  <2> QED BY <2>1
<1>3. ASSUME NEW m \in Nat, Good(m) PROVE Good(m + 1)
  <2> SUFFICES ASSUME m + 1 <= MaxDay
               PROVE  \E f : f = [n \in 0 .. m + 1 |-> IF n = 0 THEN 0 ELSE f[n - 1] + s[n]]
    OBVIOUS
  <2>1. PICK f : f = [n \in 0 .. m |-> IF n = 0 THEN 0 ELSE f[n - 1] + s[n]]
    BY <1>1, <1>3
  <2> DEFINE g == [n \in 0 .. m + 1 |-> IF n <= m THEN f[n] ELSE f[m] + s[m + 1]]
  <2>2. ASSUME NEW n \in 0 .. m + 1
        PROVE  g[n] = IF n = 0 THEN 0 ELSE g[n - 1] + s[n]
    <3>1. CASE n = 0
      <4>1. g[0] = f[0]
        OBVIOUS
      <4>2. f[0] = 0
        BY <2>1
      <4> QED BY <3>1, <4>1, <4>2
    <3>2. CASE n \in 1 .. m
      <4>1. g[n] = f[n] /\ g[n - 1] = f[n - 1] /\ n # 0 /\ n \in 0 .. m
        BY <3>2
      <4>2. f[n] = f[n - 1] + s[n]
        BY <2>1, <4>1
      <4> QED BY <4>1, <4>2
    <3>3. CASE n = m + 1
      <4>1. g[m + 1] = f[m] + s[m + 1] /\ g[m] = f[m] /\ n - 1 = m /\ n # 0
        BY <3>3
      <4> QED BY <3>3, <4>1
    <3> QED BY <3>1, <3>2, <3>3
  <2>3. g = [n \in 0 .. m + 1 |-> g[n]]
    OBVIOUS
  <2> HIDE DEF g
  <2>4. g = [n \in 0 .. m + 1 |-> IF n = 0 THEN 0 ELSE g[n - 1] + s[n]]
    BY <2>2, <2>3
  <2> QED BY <2>4
<1> HIDE DEF Good
<1>4. Good(MaxDay)
  <2> DEFINE T == {m \in Nat : Good(m)}
  <2>1. 0 \in T /\ \A m \in Nat : m \in T => m + 1 \in T
    BY <1>2, <1>3
  <2> HIDE DEF T
  <2>2. Nat \subseteq T
    BY <2>1, Induction
  <2> QED BY <1>1, <2>2 DEF T
<1>5. \E f : f = [n \in 0 .. MaxDay |-> IF n = 0 THEN 0 ELSE f[n - 1] + s[n]]
  BY <1>1, <1>4 DEF Good
<1> DEFINE sum[n \in 0 .. MaxDay] == IF n = 0 THEN 0 ELSE sum[n - 1] + s[n]
<1>6. sum = [n \in 0 .. MaxDay |-> IF n = 0 THEN 0 ELSE sum[n - 1] + s[n]]
  BY <1>5
<1>7. Usage!Total(s) = sum[MaxDay]
  BY DEF Usage!Total
<1> HIDE DEF sum
<1> QED BY <1>6, <1>7

(* When no other day of s exceeds that of t, the sums differ as day e does.  *)
LEMMA TotalBound ==
    ASSUME NEW s \in [Usage!Days -> Nat], NEW t \in [Usage!Days -> Nat], NEW e \in Usage!Days,
           NEW k \in Int, \A d \in Usage!Days : d # e => s[d] <= t[d], s[e] + k <= t[e]
    PROVE  /\ Usage!Total(s) \in Nat /\ Usage!Total(t) \in Nat
           /\ Usage!Total(s) + k <= Usage!Total(t)
<1>1. MaxDay \in Nat /\ e \in Nat /\ e >= 1 /\ e <= MaxDay
  BY ReportsAssumption DEF Usage!UsageAssumption, Usage!Days
<1>2. PICK f : /\ f = [n \in 0 .. MaxDay |-> IF n = 0 THEN 0 ELSE f[n - 1] + s[n]]
               /\ Usage!Total(s) = f[MaxDay]
  BY TotalSteps
<1>3. PICK g : /\ g = [n \in 0 .. MaxDay |-> IF n = 0 THEN 0 ELSE g[n - 1] + t[n]]
               /\ Usage!Total(t) = g[MaxDay]
  BY TotalSteps
<1> DEFINE Good(m) == m <= MaxDay => /\ f[m] \in Nat /\ g[m] \in Nat
                                     /\ f[m] + (IF e <= m THEN k ELSE 0) <= g[m]
<1>4. Good(0)
  <2>1. f[0] = 0 /\ g[0] = 0
    BY <1>1, <1>2, <1>3
  <2> QED BY <1>1, <2>1
<1>5. ASSUME NEW m \in Nat, Good(m) PROVE Good(m + 1)
  <2> SUFFICES ASSUME m + 1 <= MaxDay
               PROVE  /\ f[m + 1] \in Nat /\ g[m + 1] \in Nat
                      /\ f[m + 1] + (IF e <= m + 1 THEN k ELSE 0) <= g[m + 1]
    OBVIOUS
  <2>1. m + 1 \in 0 .. MaxDay /\ m + 1 # 0 /\ (m + 1) - 1 = m /\ m + 1 \in Usage!Days
    BY <1>1 DEF Usage!Days
  <2>2. f[m + 1] = f[m] + s[m + 1] /\ g[m + 1] = g[m] + t[m + 1]
    BY <1>2, <1>3, <2>1
  <2>3. s[m + 1] \in Nat /\ t[m + 1] \in Nat
    BY <2>1
  <2>4. /\ f[m] \in Nat /\ g[m] \in Nat
        /\ f[m] + (IF e <= m THEN k ELSE 0) <= g[m]
    BY <1>1, <1>5
  <2>5. s[m + 1] + (IF e = m + 1 THEN k ELSE 0) <= t[m + 1]
    BY <2>1, <2>3
  <2> QED BY <1>1, <2>2, <2>3, <2>4, <2>5
<1> HIDE DEF Good
<1>6. Good(MaxDay)
  <2> DEFINE T == {m \in Nat : Good(m)}
  <2>1. 0 \in T /\ \A m \in Nat : m \in T => m + 1 \in T
    BY <1>4, <1>5
  <2> HIDE DEF T
  <2>2. Nat \subseteq T
    BY <2>1, Induction
  <2> QED BY <1>1, <2>2 DEF T
<1> QED BY <1>1, <1>2, <1>3, <1>6 DEF Good

(* The sum does not fall when no day does.                                   *)
LEMMA TotalMonotone ==
    ASSUME NEW s \in [Usage!Days -> Nat], NEW t \in [Usage!Days -> Nat],
           \A d \in Usage!Days : s[d] <= t[d]
    PROVE  Usage!Total(s) \in Nat /\ Usage!Total(t) \in Nat /\ Usage!Total(s) <= Usage!Total(t)
<1>1. 1 \in Usage!Days /\ s[1] + 0 <= t[1] /\ 0 \in Int
  BY ReportsAssumption DEF Usage!UsageAssumption, Usage!Days
<1>2. Usage!Total(s) \in Nat /\ Usage!Total(t) \in Nat /\ Usage!Total(s) + 0 <= Usage!Total(t)
  BY <1>1, TotalBound
<1> QED BY <1>2

(* Days without counts sum up to nothing.                                    *)
LEMMA TotalZero == Usage!Total([d \in Usage!Days |-> 0]) = 0
<1> DEFINE z == [d \in Usage!Days |-> 0]
<1>1. PICK f : /\ f = [n \in 0 .. MaxDay |-> IF n = 0 THEN 0 ELSE f[n - 1] + z[n]]
               /\ Usage!Total(z) = f[MaxDay]
  BY TotalSteps
<1> DEFINE T == {m \in Nat : m <= MaxDay => f[m] = 0}
<1>2. MaxDay \in Nat /\ 0 \in T
  BY <1>1, ReportsAssumption DEF Usage!UsageAssumption
<1>3. ASSUME NEW m \in Nat, m \in T PROVE m + 1 \in T
  <2> SUFFICES ASSUME m + 1 <= MaxDay PROVE f[m + 1] = 0
    OBVIOUS
  <2>1. m + 1 \in 0 .. MaxDay /\ m + 1 # 0 /\ (m + 1) - 1 = m /\ m + 1 \in Usage!Days
    BY <1>2 DEF Usage!Days
  <2>2. f[m + 1] = f[m] + z[m + 1] /\ z[m + 1] = 0
    BY <1>1, <2>1
  <2>3. f[m] = 0
    BY <1>2, <1>3
  <2> QED BY <2>2, <2>3
<1> HIDE DEF T
<1>4. Nat \subseteq T
  BY <1>2, <1>3, Induction
<1> QED BY <1>1, <1>2, <1>4 DEF T

(* One element may join or leave a set.                                      *)
LEMMA CardBound ==
    ASSUME NEW A, A \subseteq Recorders, NEW B, B \subseteq Recorders, NEW w, B \ {w} \subseteq A
    PROVE  /\ Cardinality(A) \in Nat /\ Cardinality(B) \in Nat
           /\ Cardinality(B) + (IF w \in A THEN 1 ELSE 0)
                 <= Cardinality(A) + (IF w \in B THEN 1 ELSE 0)
<1>1. IsFiniteSet(A) /\ IsFiniteSet(B)
  BY ReportsAssumption, FS_Subset
<1>2. Cardinality(A) \in Nat /\ Cardinality(B) \in Nat
  BY <1>1, FS_CardinalityType
<1>3. /\ IsFiniteSet(A \ {w}) /\ IsFiniteSet(B \ {w})
      /\ Cardinality(A \ {w}) = (IF w \in A THEN Cardinality(A) - 1 ELSE Cardinality(A))
      /\ Cardinality(B \ {w}) = (IF w \in B THEN Cardinality(B) - 1 ELSE Cardinality(B))
  BY <1>1, FS_RemoveElement
<1>4. B \ {w} \subseteq A \ {w}
  OBVIOUS
<1>5. Cardinality(B \ {w}) <= Cardinality(A \ {w})
  BY <1>3, <1>4, FS_Subset
<1> QED BY <1>2, <1>3, <1>5

-----------------------------------------------------------------------------
(* The requests that a count still lacks, by where their counting is.        *)
Lefts == {<<"requests", "success">>, <<"requests">>, <<"success">>}
Recording == [ok : BOOLEAN, day : Usage!Days, key : Usage!Days \cup {Usage!Life}, left : Lefts,
              plain : BOOLEAN, at : {"redis", "pg", "end"}]

InRedis(w) == rec[w] # None /\ rec[w].at = "redis"
InLife(w) == InRedis(w) /\ rec[w].key = Usage!Life
IsHalf(w) == rec[w].left = <<"success">>

OpenLife == {w \in Recorders : InRedis(w) /\ ~(rec[w].key = Usage!Life /\ IsHalf(w))}
Half == {w \in Recorders : InLife(w) /\ IsHalf(w)}
OpenDay(d) == {w \in Recorders : InRedis(w) /\ rec[w].key = d /\ ~IsHalf(w)}
Uncommitted == {w \in Recorders : rec[w] # None /\ rec[w].at # "end"}
OpenRow(d) == {w \in Uncommitted : rec[w].day = d}
Told == {w \in Recorders : /\ rec[w] # None
                           /\ rec[w].at = "redis" => rec[w].key = Usage!Life /\ IsHalf(w)}
Ended == {w \in Recorders : rec[w] # None /\ rec[w].at = "end"}

(* The sum of the rows, and the window when the open requests are added.     *)
Daily(f) == Usage!Total([d \in Usage!Days |-> daily[d][f]])
Ahead == [d \in Usage!Days |-> Usage!Max2(redis[d]["requests"] + Cardinality(OpenDay(d)),
                                          daily[d]["requests"] + Cardinality(OpenRow(d)))]

(* The types of the sums.                                                    *)
SumsTyped == Ahead \in [Usage!Days -> Nat] /\ Daily("requests") \in Nat

(* The types of all of the state, which the properties leave in part open.   *)
CountTypes ==
    /\ Usage!TypeOK
    /\ doubled \in BOOLEAN
    /\ rec \in [Recorders -> Recording \cup {None}]
    /\ shown \in [Recorders -> Usage!Stats \cup {None}]
    /\ light \in [Recorders -> Usage!Stats \cup {None}]

(* No store has more than the requests that have finished, even with those   *)
(* that are still open in it, and the window has more only by those that     *)
(* crossed midnight.                                                         *)
NotMore ==
    /\ redis[Usage!Life]["requests"] + Cardinality(OpenLife) <= finished
    /\ redis[Usage!Life]["success"] + Cardinality(Half) <= redis[Usage!Life]["requests"]
    /\ Usage!Total(Ahead) <= finished + crossed

(* PostgreSQL commits a request at once, so its rows are never half counted. *)
RowsNotMore ==
    /\ Daily("requests") + Cardinality(Uncommitted) <= finished
    /\ \A d \in Usage!Days : daily[d]["success"] <= daily[d]["requests"]

(* What a store that has not failed has at least: the requests whose         *)
(* counting is over, and those that are past that store.                     *)
NotLess ==
    /\ "redis" \notin failed => done + Cardinality(Told) <= redis[Usage!Life]["requests"]
    /\ "pg" \notin failed => done + Cardinality(Ended) <= Daily("requests")
    /\ before <= done

(* Counts that may be shown while no pipeline has failed half way.           *)
Plausible(s) == s["success"] <= s["requests"] /\ s["requests"] <= finished

(* What a reader holds between the two stores, and what is cached after both.*)
SnapHolds ==
    \A w \in Recorders : shown[w] # None =>
        /\ ~doubled => Plausible(shown[w])
        /\ "redis" \notin failed => before <= shown[w]["requests"]

LightHolds ==
    \A w \in Recorders : light[w] # None =>
        /\ ~doubled => Plausible(light[w])
        /\ failed # Usage!Stores => before <= light[w]["requests"]

(* The invariant.                                                            *)
CountInv ==
    /\ CountTypes /\ (~doubled => NotMore) /\ RowsNotMore /\ NotLess
    /\ SnapHolds /\ LightHolds

-----------------------------------------------------------------------------
(* What is left of a pipeline, as sequences.                                 *)
LEMMA LeftFacts ==
    /\ <<"requests", "success">> # <<"success">> /\ <<"requests">> # <<"success">>
    /\ Len(<<"requests", "success">>) = 2 /\ Head(<<"requests", "success">>) = "requests"
    /\ Tail(<<"requests", "success">>) = <<"success">>
    /\ Len(<<"requests">>) = 1 /\ Head(<<"requests">>) = "requests"
    /\ Len(<<"success">>) = 1 /\ Head(<<"success">>) = "success"
<1>1. <<"requests", "success">>[1] = "requests" /\ <<"requests">>[1] = "requests"
      /\ <<"success">>[1] = "success" /\ "requests" # "success"
  OBVIOUS
<1>2. <<"requests", "success">> # <<"success">> /\ <<"requests">> # <<"success">>
  BY <1>1
<1> QED BY <1>2

LEMMA DeltasFacts ==
    ASSUME NEW ok \in BOOLEAN
    PROVE  Usage!Deltas(ok) \in Lefts /\ Usage!Deltas(ok) # <<"success">>
  BY LeftFacts DEF Usage!Deltas, Lefts

(* Days, fields and the empty counts.                                        *)
LEMMA DayFacts == /\ 1 \in Usage!Days /\ Usage!Life \notin Usage!Days /\ Usage!Days \subseteq Nat
                  /\ "requests" \in Usage!Fields /\ "success" \in Usage!Fields
  BY ReportsAssumption DEF Usage!UsageAssumption, Usage!Days, Usage!Life, Usage!Fields

LEMMA EmptyFacts ==
    Usage!Empty \in Usage!Stats /\ Usage!Empty["requests"] = 0 /\ Usage!Empty["success"] = 0
  BY DEF Usage!Empty, Usage!Stats, Usage!Fields

(* SumStats of the rows.                                                     *)
LEMMA SumFacts ==
    ASSUME CountTypes
    PROVE  /\ Usage!SumStats(daily) \in Usage!Stats
           /\ Usage!SumStats(daily)["requests"] = Daily("requests")
           /\ Usage!SumStats(daily)["success"] = Daily("success")
           /\ Daily("requests") \in Nat /\ Daily("success") \in Nat
<1>1. ASSUME NEW f \in Usage!Fields
      PROVE  Usage!SumStats(daily)[f] = Daily(f) /\ Daily(f) \in Nat
  <2>1. [d \in Usage!Days |-> daily[d][f]] \in [Usage!Days -> Nat]
    BY DEF CountTypes, Usage!TypeOK, Usage!Stats
  <2>2. Usage!Total([d \in Usage!Days |-> daily[d][f]]) \in Nat
    BY <2>1, TotalMonotone
  <2> QED BY <2>2 DEF Usage!SumStats, Daily
<1>2. Usage!SumStats(daily) = [f \in Usage!Fields |-> Daily(f)]
  BY DEF Usage!SumStats, Daily
<1> QED BY <1>1, <1>2, DayFacts DEF Usage!Stats

(* What is merged of two reads.                                              *)
LEMMA MergeFacts ==
    ASSUME NEW s \in Usage!Stats, NEW t \in Usage!Stats
    PROVE  /\ Usage!MergeStats(s, t) \in Usage!Stats
           /\ Usage!MergeStats(s, t)["requests"] = Usage!Max2(s["requests"], t["requests"])
           /\ Usage!MergeStats(s, t)["success"] = Usage!Max2(s["success"], t["success"])
<1>1. \A m, n \in Nat : Usage!Max2(m, n) \in Nat
  BY DEF Usage!Max2
<1> QED BY <1>1, DayFacts DEF Usage!MergeStats, Usage!Stats

(* The window is a count of each day, in this state and in the next.         *)
LEMMA AheadType == CountTypes => Ahead \in [Usage!Days -> Nat]
<1> SUFFICES ASSUME CountTypes, NEW d \in Usage!Days
             PROVE  Usage!Max2(redis[d]["requests"] + Cardinality(OpenDay(d)),
                               daily[d]["requests"] + Cardinality(OpenRow(d))) \in Nat
  BY DEF Ahead
<1>1. redis[d]["requests"] \in Nat /\ daily[d]["requests"] \in Nat
  BY DayFacts DEF CountTypes, Usage!TypeOK, Usage!Stats
<1>2. OpenDay(d) \subseteq Recorders /\ OpenRow(d) \subseteq Recorders
  BY DEF OpenDay, OpenRow, Uncommitted
<1>3. Cardinality(OpenDay(d)) \in Nat /\ Cardinality(OpenRow(d)) \in Nat
  BY <1>2, CardBound
<1> QED BY <1>1, <1>3 DEF Usage!Max2

LEMMA SumTypes == CountTypes => SumsTyped
  BY AheadType, SumFacts DEF SumsTyped

LEMMA SumTypesNext == CountTypes' => SumsTyped'
  BY SumTypes, PTL

(* How far the sets may grow in a step of one worker.                        *)
Grows(A, B, w) ==
    /\ Cardinality(A) \in Nat /\ Cardinality(B) \in Nat
    /\ Cardinality(B) + (IF w \in A THEN 1 ELSE 0) <= Cardinality(A) + (IF w \in B THEN 1 ELSE 0)

(* In a step of w no other worker joins one of the sets.                     *)
Moves(w) ==
    /\ Grows(OpenLife, OpenLife', w) /\ Grows(Half, Half', w)
    /\ \A d \in Usage!Days : /\ Grows(OpenDay(d), OpenDay(d)', w)
                             /\ Grows(OpenRow(d), OpenRow(d)', w)
    /\ Grows(Uncommitted, Uncommitted', w) /\ Grows(Told, Told', w)
    /\ Grows(Ended, Ended', w)

LEMMA OneMoves ==
    ASSUME NEW w, \A v \in Recorders : v # w => rec'[v] = rec[v]
    PROVE  Moves(w)
<1>1. ASSUME NEW A, NEW B, A \subseteq Recorders, B \subseteq Recorders, B \ {w} \subseteq A
      PROVE  Grows(A, B, w)
  BY <1>1, CardBound DEF Grows
<1>2. /\ OpenLife \subseteq Recorders /\ OpenLife' \subseteq Recorders
      /\ OpenLife' \ {w} \subseteq OpenLife
      /\ Half \subseteq Recorders /\ Half' \subseteq Recorders /\ Half' \ {w} \subseteq Half
  BY DEF OpenLife, Half, InRedis, InLife, IsHalf
<1>3. ASSUME NEW d \in Usage!Days
      PROVE  /\ OpenDay(d) \subseteq Recorders /\ OpenDay(d)' \subseteq Recorders
             /\ OpenDay(d)' \ {w} \subseteq OpenDay(d)
             /\ OpenRow(d) \subseteq Recorders /\ OpenRow(d)' \subseteq Recorders
             /\ OpenRow(d)' \ {w} \subseteq OpenRow(d)
  BY DEF OpenDay, OpenRow, Uncommitted, InRedis, IsHalf
<1>4. /\ Uncommitted \subseteq Recorders /\ Uncommitted' \subseteq Recorders
      /\ Uncommitted' \ {w} \subseteq Uncommitted
      /\ Told \subseteq Recorders /\ Told' \subseteq Recorders /\ Told' \ {w} \subseteq Told
      /\ Ended \subseteq Recorders /\ Ended' \subseteq Recorders /\ Ended' \ {w} \subseteq Ended
  BY DEF Uncommitted, Told, Ended, IsHalf
<1>5. \A d \in Usage!Days : Grows(OpenDay(d), OpenDay(d)', w) /\ Grows(OpenRow(d), OpenRow(d)', w)
  BY <1>1, <1>3
<1> QED BY <1>1, <1>2, <1>4, <1>5 DEF Moves

(* What is read and shown stays true while nobody reads.                     *)
LEMMA ReadsKept ==
    ASSUME CountInv, shown' = shown, light' = light, before' = before,
           finished' \in Nat, finished <= finished', doubled => doubled',
           failed \subseteq failed', failed' \subseteq Usage!Stores
    PROVE  SnapHolds' /\ LightHolds'
<1>1. ASSUME NEW s \in Usage!Stats, Plausible(s)
      PROVE  s["success"] <= s["requests"] /\ s["requests"] <= finished'
  <2>1. s["requests"] \in Nat /\ finished \in Nat
    BY DayFacts DEF CountInv, CountTypes, Usage!TypeOK, Usage!Stats
  <2> QED BY <1>1, <2>1 DEF Plausible
<1>2. SnapHolds'
  <2> SUFFICES ASSUME NEW w \in Recorders, shown[w] # None
               PROVE  /\ ~doubled' => shown[w]["success"] <= shown[w]["requests"]
                                      /\ shown[w]["requests"] <= finished'
                      /\ "redis" \notin failed' => before <= shown[w]["requests"]
    BY DEF SnapHolds, Plausible
  <2>1. shown[w] \in Usage!Stats
    BY DEF CountInv, CountTypes
  <2> QED BY <1>1, <2>1 DEF CountInv, SnapHolds
<1>3. LightHolds'
  <2> SUFFICES ASSUME NEW w \in Recorders, light[w] # None
               PROVE  /\ ~doubled' => light[w]["success"] <= light[w]["requests"]
                                      /\ light[w]["requests"] <= finished'
                      /\ failed' # Usage!Stores => before <= light[w]["requests"]
    BY DEF LightHolds, Plausible
  <2>1. light[w] \in Usage!Stats
    BY DEF CountInv, CountTypes
  <2>2. failed' # Usage!Stores => failed # Usage!Stores
    OBVIOUS
  <2> QED BY <1>1, <2>1, <2>2 DEF CountInv, LightHolds
<1> QED BY <1>2, <1>3

(* The window grows by no more than k when each of its days does.            *)
LEMMA WindowBound ==
    ASSUME CountTypes, CountTypes', NEW e \in Usage!Days, NEW k \in Nat,
           \A d \in Usage!Days : Ahead'[d] <= Ahead[d] + (IF d = e THEN k ELSE 0)
    PROVE  /\ Usage!Total(Ahead) \in Nat /\ Usage!Total(Ahead)' \in Nat
           /\ Usage!Total(Ahead)' <= Usage!Total(Ahead) + k
<1>1. Ahead \in [Usage!Days -> Nat] /\ Ahead' \in [Usage!Days -> Nat]
  BY SumTypes, SumTypesNext DEF SumsTyped
<1>2. \A d \in Usage!Days : d # e => Ahead'[d] <= Ahead[d]
  BY <1>1
<1>3. Ahead'[e] + (0 - k) <= Ahead[e] /\ 0 - k \in Int
  BY <1>1
<1>4. Usage!Total(Ahead') \in Nat /\ Usage!Total(Ahead) \in Nat
      /\ Usage!Total(Ahead') + (0 - k) <= Usage!Total(Ahead)
  BY <1>1, <1>2, <1>3, TotalBound
<1>5. Usage!Total(Ahead)' = Usage!Total(Ahead')
  BY DEF Usage!Total
<1> QED BY <1>4, <1>5

(* The types of the counts, as the steps of the proof use them.              *)
LEMMA CountNats ==
    ASSUME CountTypes
    PROVE  /\ \A k \in Usage!Days \cup {Usage!Life} :
                 redis[k]["requests"] \in Nat /\ redis[k]["success"] \in Nat
           /\ \A d \in Usage!Days : daily[d]["requests"] \in Nat /\ daily[d]["success"] \in Nat
           /\ {finished, done, before, crossed} \subseteq Nat /\ clock \in Usage!Days
           /\ Daily("requests") \in Nat /\ failed \subseteq Usage!Stores
  BY DayFacts, SumFacts DEF CountTypes, Usage!TypeOK, Usage!Stats

(* One day of the window.                                                    *)
LEMMA AheadDay ==
    ASSUME NEW d \in Usage!Days
    PROVE  /\ Ahead[d] = Usage!Max2(redis[d]["requests"] + Cardinality(OpenDay(d)),
                                    daily[d]["requests"] + Cardinality(OpenRow(d)))
           /\ Ahead'[d] = Usage!Max2(redis'[d]["requests"] + Cardinality(OpenDay(d)'),
                                     daily'[d]["requests"] + Cardinality(OpenRow(d)'))
  BY DEF Ahead

(* Each action keeps the invariant.  A request that finishes is open in all  *)
(* of its counts.                                                            *)
LEMMA RecordKeeps ==
    ASSUME CountInv, NEW w \in Recorders, NEW ok \in BOOLEAN, Usage!Record(w, ok)
    PROVE  CountInv'
<1> DEFINE r == [ok |-> ok, day |-> clock, key |-> clock, left |-> Usage!Deltas(ok),
                 plain |-> FALSE, at |-> "redis"]
<1>1. /\ rec[w] = None /\ finished' = finished + 1 /\ rec' = [rec EXCEPT ![w] = r]
      /\ UNCHANGED <<clock, Usage!stores, shown, light, done, before, crossed, failed, doubled,
                     errors>>
  BY DEF Usage!Record
<1>2. CountTypes /\ finished \in Nat /\ clock \in Usage!Days
  BY DEF CountInv, CountTypes, Usage!TypeOK
<1>3. r \in Recording
  BY <1>2, DeltasFacts DEF Recording
<1>4. rec' \in [Recorders -> Recording \cup {None}] /\ rec'[w] = r
      /\ \A v \in Recorders : v # w => rec'[v] = rec[v]
  BY <1>1, <1>2, <1>3 DEF CountTypes
<1>5. CountTypes'
  BY <1>1, <1>2, <1>4 DEF CountTypes, Usage!TypeOK, Usage!stores
<1>6. Moves(w)
  BY <1>4, OneMoves
<1>7. r.day = clock /\ r.key = clock /\ r.at = "redis" /\ r.left # <<"success">>
      /\ clock # Usage!Life
  BY <1>2, DeltasFacts, DayFacts
<1>8. /\ w \notin OpenLife /\ w \notin Half' /\ w \notin Uncommitted /\ w \notin Told'
      /\ w \notin Ended'
      /\ \A d \in Usage!Days : w \notin OpenDay(d) /\ w \notin OpenRow(d)
      /\ \A d \in Usage!Days : d # clock => w \notin OpenDay(d)' /\ w \notin OpenRow(d)'
  <2> HIDE DEF r
  <2> QED BY <1>1, <1>4, <1>7 DEF OpenLife, Half, Uncommitted, Told, Ended, OpenDay, OpenRow,
                                  InRedis, InLife, IsHalf
<1> HIDE DEF r
<1>9. ASSUME ~doubled' PROVE NotMore'
  <2>1. NotMore
    BY <1>1, <1>9 DEF CountInv
  <2>2. /\ redis[Usage!Life]["requests"] \in Nat /\ redis[Usage!Life]["success"] \in Nat
        /\ redis' = redis /\ crossed' = crossed /\ crossed \in Nat
    BY <1>1, <1>2, DayFacts DEF CountTypes, Usage!TypeOK, Usage!Stats, Usage!stores
  <2>3. ASSUME NEW d \in Usage!Days
        PROVE  Ahead'[d] <= Ahead[d] + (IF d = clock THEN 1 ELSE 0)
    <3>1. redis[d]["requests"] \in Nat /\ daily[d]["requests"] \in Nat /\ daily' = daily
      BY <1>1, <1>2, DayFacts DEF CountTypes, Usage!TypeOK, Usage!Stats, Usage!stores
    <3>2. /\ Grows(OpenDay(d), OpenDay(d)', w) /\ Grows(OpenRow(d), OpenRow(d)', w)
          /\ w \notin OpenDay(d) /\ w \notin OpenRow(d)
          /\ d # clock => w \notin OpenDay(d)' /\ w \notin OpenRow(d)'
      BY <1>6, <1>8 DEF Moves
    <3> QED BY <2>2, <3>1, <3>2, AheadDay DEF Grows, Usage!Max2
  <2>4. Usage!Total(Ahead) \in Nat /\ Usage!Total(Ahead)' \in Nat
        /\ Usage!Total(Ahead)' <= Usage!Total(Ahead) + 1
    BY <1>2, <1>5, <2>3, WindowBound
  <2> QED BY <1>1, <1>2, <1>6, <1>8, <2>1, <2>2, <2>4 DEF NotMore, Moves, Grows
<1>10. RowsNotMore'
  <2>1. daily' = daily /\ Daily("requests") \in Nat
    BY <1>1, <1>2, SumFacts DEF Usage!stores
  <2>2. Daily("requests")' = Daily("requests")
    BY <2>1 DEF Daily
  <2> QED BY <1>1, <1>2, <1>6, <1>8, <2>1, <2>2 DEF RowsNotMore, CountInv, Moves, Grows
<1>11. NotLess'
  <2>1. daily' = daily /\ redis' = redis /\ done' = done /\ before' = before /\ failed' = failed
        /\ Daily("requests") \in Nat /\ redis[Usage!Life]["requests"] \in Nat /\ done \in Nat
    BY <1>1, <1>2, SumFacts, DayFacts DEF Usage!stores, CountTypes, Usage!TypeOK, Usage!Stats
  <2>2. Daily("requests")' = Daily("requests")
    BY <2>1 DEF Daily
  <2> QED BY <1>6, <1>8, <2>1, <2>2 DEF NotLess, CountInv, Moves, Grows
<1>12. SnapHolds' /\ LightHolds'
  BY <1>1, <1>2, ReadsKept DEF CountTypes, Usage!TypeOK
<1> QED BY <1>5, <1>9, <1>10, <1>11, <1>12 DEF CountInv

LEMMA LeftSteps ==
    ASSUME NEW l \in Lefts
    PROVE  /\ Head(l) = IF l = <<"success">> THEN "success" ELSE "requests"
           /\ Len(l) > 1 => l # <<"success">> /\ Tail(l) = <<"success">>
<1>1. CASE l = <<"requests", "success">>
  BY <1>1, LeftFacts
<1>2. CASE l = <<"requests">>
  BY <1>2, LeftFacts
<1>3. CASE l = <<"success">>
  BY <1>3, LeftFacts
<1> QED BY <1>1, <1>2, <1>3 DEF Lefts

(* A count of one hash is raised.                                            *)
LEMMA AddOne ==
    ASSUME NEW D, NEW s \in [D -> Usage!Stats], NEW k \in D, NEW h \in Usage!Fields
    PROVE  LET t == [s EXCEPT ![k][h] = @ + 1] IN
           /\ t \in [D -> Usage!Stats]
           /\ \A d \in D, f \in Usage!Fields :
                 t[d][f] = s[d][f] + (IF d = k /\ f = h THEN 1 ELSE 0)
<1> DEFINE t == [s EXCEPT ![k][h] = @ + 1]
<1>1. t = [d \in D |-> IF d = k THEN [s[k] EXCEPT ![h] = s[k][h] + 1] ELSE s[d]]
  OBVIOUS
<1> HIDE DEF t
<1>2. \A d \in D : s[d] \in [Usage!Fields -> Nat]
  BY DEF Usage!Stats
<1>3. [s[k] EXCEPT ![h] = s[k][h] + 1]
      = [f \in Usage!Fields |-> IF f = h THEN s[k][h] + 1 ELSE s[k][f]]
  BY <1>2
<1>4. [f \in Usage!Fields |-> IF f = h THEN s[k][h] + 1 ELSE s[k][f]] \in Usage!Stats
  BY <1>2 DEF Usage!Stats
<1>5. t \in [D -> Usage!Stats]
  BY <1>1, <1>3, <1>4
<1>6. ASSUME NEW d \in D, NEW f \in Usage!Fields
      PROVE  t[d][f] = s[d][f] + (IF d = k /\ f = h THEN 1 ELSE 0)
  <2>1. s[d][f] \in Nat
    BY <1>2
  <2>2. CASE d = k
    <3>1. t[d] = [g \in Usage!Fields |-> IF g = h THEN s[k][h] + 1 ELSE s[k][g]]
      BY <1>1, <1>3, <2>2
    <3>2. t[d][f] = IF f = h THEN s[k][h] + 1 ELSE s[k][f]
      BY <3>1
    <3>3. CASE f = h
      BY <2>2, <3>2, <3>3
    <3>4. CASE f # h
      BY <2>1, <2>2, <3>2, <3>4
    <3> QED BY <3>3, <3>4
  <2>3. CASE d # k
    BY <1>1, <2>1, <2>3
  <2> QED BY <2>2, <2>3
<1> QED BY <1>5, <1>6 DEF t

(* A command changes one count, and what is open as it says.                 *)
LEMMA CommandCounts ==
    ASSUME CountInv, NEW w \in Recorders, Usage!Command(w)
    PROVE  /\ CountTypes'
           /\ \A d \in Usage!Days \cup {Usage!Life} :
                 redis'[d]["requests"] = redis[d]["requests"]
                                         + (IF d = rec[w].key /\ ~IsHalf(w) THEN 1 ELSE 0)
           /\ redis'[Usage!Life]["success"]
                 = redis[Usage!Life]["success"]
                   + (IF rec[w].key = Usage!Life /\ IsHalf(w) THEN 1 ELSE 0)
           /\ rec'[w].day = rec[w].day /\ rec'[w].at \in {"redis", "pg"}
           /\ rec[w].key = Usage!Life =>
                 (rec'[w].at = "redis" => ~IsHalf(w) /\ rec'[w].key = Usage!Life /\ IsHalf(w)')
           /\ rec[w].key # Usage!Life =>
                 /\ rec'[w].at = "redis"
                 /\ \/ rec'[w].key = Usage!Life /\ ~IsHalf(w)'
                    \/ rec'[w].key = rec[w].key /\ ~IsHalf(w) /\ IsHalf(w)'
           /\ \A v \in Recorders : v # w => rec'[v] = rec[v]
<1> DEFINE r == rec[w]
<1>1. /\ r # None /\ r.at = "redis"
      /\ redis' = [redis EXCEPT ![r.key][Head(r.left)] = @ + 1]
      /\ rec' = IF Len(r.left) > 1 THEN [rec EXCEPT ![w].left = Tail(@)]
                ELSE IF r.key = Usage!Life THEN [rec EXCEPT ![w].at = "pg"]
                ELSE [rec EXCEPT ![w].key = Usage!Life, ![w].left = Usage!Deltas(r.ok),
                                 ![w].plain = FALSE]
      /\ UNCHANGED <<clock, daily, shown, light, Usage!history>>
  BY DEF Usage!Command
<1>2. CountTypes /\ r \in Recording
  BY <1>1 DEF CountInv, CountTypes
<1>3. /\ r.key \in Usage!Days \cup {Usage!Life} /\ r.ok \in BOOLEAN /\ r.left \in Lefts
      /\ Usage!Deltas(r.ok) \in Lefts /\ Usage!Deltas(r.ok) # <<"success">>
  BY <1>2, DeltasFacts DEF Recording
<1>4. /\ Head(r.left) = IF IsHalf(w) THEN "success" ELSE "requests"
      /\ Len(r.left) > 1 => ~IsHalf(w) /\ Tail(r.left) = <<"success">>
  BY <1>3, LeftSteps DEF IsHalf
<1>5. redis \in [Usage!Days \cup {Usage!Life} -> Usage!Stats]
  BY <1>2 DEF CountTypes, Usage!TypeOK
<1>6. Head(r.left) \in Usage!Fields /\ "requests" # "success"
  BY <1>4, DayFacts
<1>7. /\ redis' \in [Usage!Days \cup {Usage!Life} -> Usage!Stats]
      /\ \A d \in Usage!Days \cup {Usage!Life}, f \in Usage!Fields :
            redis'[d][f] = redis[d][f] + (IF d = r.key /\ f = Head(r.left) THEN 1 ELSE 0)
  <2> DEFINE k == r.key
             h == Head(r.left)
  <2>1. redis' = [redis EXCEPT ![k][h] = @ + 1]
    BY <1>1
  <2>2. k \in Usage!Days \cup {Usage!Life} /\ h \in Usage!Fields
    BY <1>3, <1>6
  <2> HIDE DEF k, h
  <2>3. /\ redis' \in [Usage!Days \cup {Usage!Life} -> Usage!Stats]
        /\ \A d \in Usage!Days \cup {Usage!Life}, f \in Usage!Fields :
              redis'[d][f] = redis[d][f] + (IF d = k /\ f = h THEN 1 ELSE 0)
    BY <1>5, <2>1, <2>2, AddOne, SMTT(60)
  <2> QED BY <2>3 DEF k, h
<1>8. PICK q \in Recording :
         /\ rec' = [rec EXCEPT ![w] = q]
         /\ q.day = r.day /\ q.at \in {"redis", "pg"}
         /\ r.key = Usage!Life /\ q.at = "redis" =>
               r.left # <<"success">> /\ q.key = Usage!Life /\ q.left = <<"success">>
         /\ r.key # Usage!Life => /\ q.at = "redis"
                                  /\ \/ q.key = Usage!Life /\ q.left # <<"success">>
                                     \/ /\ q.key = r.key /\ r.left # <<"success">>
                                        /\ q.left = <<"success">>
  <2>1. CASE Len(r.left) > 1
    <3> DEFINE q == [r EXCEPT !.left = <<"success">>]
    <3>1. rec' = [rec EXCEPT ![w] = q]
      BY <1>1, <1>4, <2>1
    <3>2. q \in Recording /\ q.day = r.day /\ q.key = r.key /\ q.at = r.at
          /\ q.left = <<"success">>
      BY <1>2 DEF Recording, Lefts
    <3> HIDE DEF q, r
    <3> QED BY <1>1, <1>4, <2>1, <3>1, <3>2 DEF IsHalf, r
  <2>2. CASE ~(Len(r.left) > 1) /\ r.key = Usage!Life
    <3> DEFINE q == [r EXCEPT !.at = "pg"]
    <3>1. rec' = [rec EXCEPT ![w] = q]
      BY <1>1, <2>2
    <3>2. q \in Recording /\ q.day = r.day /\ q.at = "pg"
      BY <1>2 DEF Recording
    <3> HIDE DEF q, r
    <3> QED BY <2>2, <3>1, <3>2
  <2>3. CASE ~(Len(r.left) > 1) /\ r.key # Usage!Life
    <3> DEFINE q == [r EXCEPT !.key = Usage!Life, !.left = Usage!Deltas(r.ok), !.plain = FALSE]
    <3>1. rec' = [rec EXCEPT ![w] = q]
      BY <1>1, <2>3
    <3>2. q \in Recording /\ q.day = r.day /\ q.key = Usage!Life /\ q.at = r.at
          /\ q.left = Usage!Deltas(r.ok)
      BY <1>2, <1>3 DEF Recording
    <3> HIDE DEF q, r
    <3> QED BY <1>1, <1>3, <2>3, <3>1, <3>2
  <2> QED BY <2>1, <2>2, <2>3
<1>9. /\ rec' \in [Recorders -> Recording \cup {None}] /\ rec'[w] = q
      /\ \A v \in Recorders : v # w => rec'[v] = rec[v]
  BY <1>2, <1>8 DEF CountTypes
<1>10. CountTypes'
  BY <1>1, <1>2, <1>7, <1>9 DEF CountTypes, Usage!TypeOK, Usage!history
<1>11. /\ \A d \in Usage!Days \cup {Usage!Life} :
             redis'[d]["requests"] = redis[d]["requests"]
                                     + (IF d = r.key /\ ~IsHalf(w) THEN 1 ELSE 0)
       /\ redis'[Usage!Life]["success"] = redis[Usage!Life]["success"]
                                           + (IF r.key = Usage!Life /\ IsHalf(w) THEN 1 ELSE 0)
  <2> HIDE DEF r
  <2> QED BY <1>4, <1>7, DayFacts
<1>12. IsHalf(w)' <=> q.left = <<"success">>
  BY <1>9 DEF IsHalf
<1>13. IsHalf(w) <=> r.left = <<"success">>
  BY DEF IsHalf
<1> HIDE DEF r
<1> QED BY <1>8, <1>9, <1>10, <1>11, <1>12, <1>13 DEF r

(* What a command counts is no longer open there.                            *)
LEMMA CommandKeeps ==
    ASSUME CountInv, NEW w \in Recorders, Usage!Command(w)
    PROVE  CountInv'
<1>1. /\ rec[w] # None /\ rec[w].at = "redis"
      /\ UNCHANGED <<clock, daily, shown, light, Usage!history>>
  BY DEF Usage!Command
<1>2. CountTypes /\ CountTypes'
  BY CommandCounts DEF CountInv
<1>3. /\ \A d \in Usage!Days \cup {Usage!Life} :
            redis'[d]["requests"] = redis[d]["requests"]
                                    + (IF d = rec[w].key /\ ~IsHalf(w) THEN 1 ELSE 0)
      /\ redis'[Usage!Life]["success"]
            = redis[Usage!Life]["success"]
              + (IF rec[w].key = Usage!Life /\ IsHalf(w) THEN 1 ELSE 0)
      /\ \A v \in Recorders : v # w => rec'[v] = rec[v]
  BY CommandCounts
<1>4. Moves(w)
  BY <1>3, OneMoves
<1>5. /\ w \in OpenLife <=> ~(rec[w].key = Usage!Life /\ IsHalf(w))
      /\ w \in OpenLife' => rec[w].key # Usage!Life
      /\ w \in Half <=> rec[w].key = Usage!Life /\ IsHalf(w)
      /\ w \in Half' => rec[w].key = Usage!Life /\ ~IsHalf(w)
      /\ \A d \in Usage!Days : /\ w \in OpenDay(d) <=> d = rec[w].key /\ ~IsHalf(w)
                               /\ w \notin OpenDay(d)'
                               /\ w \in OpenRow(d)' => w \in OpenRow(d)
      /\ w \in Uncommitted
      /\ w \in Told <=> rec[w].key = Usage!Life /\ IsHalf(w)
      /\ w \in Told' => rec[w].key = Usage!Life
      /\ w \notin Ended'
  BY <1>1, CommandCounts, DayFacts DEF OpenLife, Half, OpenDay, OpenRow, Uncommitted, Told, Ended,
                                       InRedis, InLife
<1>6. /\ redis[Usage!Life]["requests"] \in Nat /\ redis[Usage!Life]["success"] \in Nat
      /\ finished \in Nat /\ crossed \in Nat /\ done \in Nat
      /\ finished' = finished /\ crossed' = crossed /\ done' = done /\ before' = before
      /\ failed' = failed /\ doubled' = doubled /\ daily' = daily
      /\ \A d \in Usage!Days : redis[d]["requests"] \in Nat /\ daily[d]["requests"] \in Nat
      /\ Daily("requests") \in Nat /\ Daily("requests")' = Daily("requests")
  BY <1>1, <1>2, CountNats DEF Usage!history, Daily
<1>7. ASSUME ~doubled PROVE NotMore'
  <2>1. NotMore
    BY <1>7 DEF CountInv
  <2>2. ASSUME NEW d \in Usage!Days PROVE Ahead'[d] <= Ahead[d]
    <3>1. redis'[d]["requests"] = redis[d]["requests"]
                                  + (IF d = rec[w].key /\ ~IsHalf(w) THEN 1 ELSE 0)
      BY <1>3
    <3>2. /\ Cardinality(OpenDay(d)) \in Nat /\ Cardinality(OpenDay(d)') \in Nat
          /\ Cardinality(OpenDay(d)') + (IF d = rec[w].key /\ ~IsHalf(w) THEN 1 ELSE 0)
                <= Cardinality(OpenDay(d))
      <4>1. Grows(OpenDay(d), OpenDay(d)', w)
        BY <1>4 DEF Moves
      <4>2. (w \in OpenDay(d) <=> d = rec[w].key /\ ~IsHalf(w)) /\ w \notin OpenDay(d)'
        BY <1>5
      <4> QED BY <4>1, <4>2 DEF Grows
    <3>3. /\ Cardinality(OpenRow(d)) \in Nat /\ Cardinality(OpenRow(d)') \in Nat
          /\ Cardinality(OpenRow(d)') <= Cardinality(OpenRow(d))
      <4>1. Grows(OpenRow(d), OpenRow(d)', w) /\ (w \in OpenRow(d)' => w \in OpenRow(d))
        BY <1>4, <1>5 DEF Moves
      <4> QED BY <4>1 DEF Grows
    <3> QED BY <1>6, <3>1, <3>2, <3>3, AheadDay DEF Usage!Max2
  <2>3. Usage!Total(Ahead) \in Nat /\ Usage!Total(Ahead)' \in Nat
        /\ Usage!Total(Ahead)' <= Usage!Total(Ahead) + 0
    <3>1. \A d \in Usage!Days : Ahead'[d] <= Ahead[d] + (IF d = 1 THEN 0 ELSE 0)
      BY <1>2, <2>2, SumTypes DEF SumsTyped
    <3> QED BY <1>2, <3>1, DayFacts, WindowBound
  <2>4. redis'[Usage!Life]["requests"] + Cardinality(OpenLife') <= finished'
    BY <1>3, <1>4, <1>5, <1>6, <2>1 DEF NotMore, Moves, Grows
  <2>5. redis'[Usage!Life]["success"] + Cardinality(Half') <= redis'[Usage!Life]["requests"]
    BY <1>3, <1>4, <1>5, <1>6, <2>1 DEF NotMore, Moves, Grows
  <2> QED BY <1>6, <2>1, <2>3, <2>4, <2>5 DEF NotMore
<1>8. RowsNotMore'
  BY <1>4, <1>5, <1>6 DEF RowsNotMore, CountInv, Moves, Grows
<1>9. NotLess'
  BY <1>3, <1>4, <1>5, <1>6 DEF NotLess, CountInv, Moves, Grows
<1>10. SnapHolds' /\ LightHolds'
  BY <1>1, <1>2, ReadsKept DEF CountTypes, Usage!TypeOK, Usage!history
<1> QED BY <1>2, <1>6, <1>7, <1>8, <1>9, <1>10 DEF CountInv

(* A failed command leaves what is open open, or gives it up.                *)
LEMMA CommandFailsKeeps ==
    ASSUME CountInv, NEW w \in Recorders, Usage!CommandFails(w)
    PROVE  CountInv'
<1>1. /\ rec[w] # None /\ rec[w].at = "redis"
      /\ errors' = errors + 1 /\ failed' = failed \cup {"redis"}
      /\ UNCHANGED <<clock, daily, shown, light, finished, done, before, crossed>>
  BY DEF Usage!CommandFails, Usage!Error
<1>2. CountTypes /\ rec[w] \in Recording
  BY <1>1 DEF CountInv, CountTypes
<1>3. Usage!Deltas(rec[w].ok) \in Lefts /\ Usage!Deltas(rec[w].ok) # <<"success">>
  BY <1>2, DeltasFacts DEF Recording
<1>4. PICK q \in Recording :
         /\ rec' = [rec EXCEPT ![w] = q]
         /\ q.day = rec[w].day /\ q.at \in {"redis", "pg"}
         /\ q.at = "redis" => q.key = rec[w].key /\ q.left = Usage!Deltas(rec[w].ok)
         /\ doubled' \in BOOLEAN /\ (doubled => doubled')
         /\ ~doubled' => /\ redis' = redis
                         /\ q.at = "redis" => rec[w].left = Usage!Deltas(rec[w].ok)
  <2>1. CASE rec[w].plain
    <3> DEFINE q == [rec[w] EXCEPT !.at = "pg"]
    <3>1. rec' = [rec EXCEPT ![w] = q] /\ redis' = redis /\ doubled' = doubled
      BY <2>1 DEF Usage!CommandFails
    <3>2. q \in Recording /\ q.day = rec[w].day /\ q.at = "pg"
      BY <1>2 DEF Recording
    <3>3. doubled \in BOOLEAN
      BY <1>2 DEF CountTypes
    <3> HIDE DEF q
    <3> QED BY <3>1, <3>2, <3>3
  <2>2. CASE ~rec[w].plain
    <3> DEFINE q == [rec[w] EXCEPT !.plain = TRUE, !.left = Usage!Deltas(rec[w].ok)]
    <3>1. /\ rec' = [rec EXCEPT ![w] = q]
          /\ \/ redis' = redis /\ doubled' = (doubled \/ rec[w].left # Usage!Deltas(rec[w].ok))
             \/ doubled' = TRUE
      BY <2>2 DEF Usage!CommandFails
    <3>2. q \in Recording /\ q.day = rec[w].day /\ q.at = rec[w].at /\ q.key = rec[w].key
          /\ q.left = Usage!Deltas(rec[w].ok)
      BY <1>2, <1>3 DEF Recording
    <3>3. doubled \in BOOLEAN
      BY <1>2 DEF CountTypes
    <3> HIDE DEF q
    <3> QED BY <1>1, <3>1, <3>2, <3>3
  <2> QED BY <2>1, <2>2
<1>5. /\ rec' \in [Recorders -> Recording \cup {None}] /\ rec'[w] = q
      /\ \A v \in Recorders : v # w => rec'[v] = rec[v]
  BY <1>2, <1>4 DEF CountTypes
<1>6. redis' \in [Usage!Days \cup {Usage!Life} -> Usage!Stats]
  <2>1. redis \in [Usage!Days \cup {Usage!Life} -> Usage!Stats]
        /\ rec[w].key \in Usage!Days \cup {Usage!Life}
    BY <1>2 DEF CountTypes, Usage!TypeOK, Recording
  <2>2. CASE redis' = redis
    BY <2>1, <2>2
  <2>3. CASE redis' # redis
    <3> DEFINE s == [f \in Usage!Fields |-> redis[rec[w].key][f]
                                            + IF f \in Usage!Range(rec[w].left) THEN 1 ELSE 0]
    <3>1. redis' = [redis EXCEPT ![rec[w].key] = s]
      BY <2>3 DEF Usage!CommandFails
    <3>2. s \in Usage!Stats
      BY <2>1 DEF Usage!Stats
    <3> HIDE DEF s
    <3> QED BY <2>1, <3>1, <3>2
  <2> QED BY <2>2, <2>3
<1>7. CountTypes'
  BY <1>1, <1>2, <1>4, <1>5, <1>6 DEF CountTypes, Usage!TypeOK, Usage!Stores
<1>8. Moves(w)
  BY <1>5, OneMoves
<1>9. /\ \A d \in Usage!Days : w \in OpenRow(d)' => w \in OpenRow(d)
      /\ w \in Uncommitted /\ w \notin Ended'
      /\ ~doubled' => /\ w \in OpenLife' => w \in OpenLife
                      /\ w \notin Half'
                      /\ \A d \in Usage!Days : w \in OpenDay(d)' => w \in OpenDay(d)
  BY <1>1, <1>3, <1>4, <1>5 DEF OpenLife, Half, OpenDay, OpenRow, Uncommitted, Ended,
                                InRedis, InLife, IsHalf
<1>10. /\ redis[Usage!Life]["requests"] \in Nat /\ redis[Usage!Life]["success"] \in Nat
       /\ finished \in Nat /\ crossed \in Nat /\ done \in Nat
       /\ finished' = finished /\ crossed' = crossed /\ done' = done /\ before' = before
       /\ daily' = daily
       /\ \A d \in Usage!Days : redis[d]["requests"] \in Nat /\ daily[d]["requests"] \in Nat
       /\ Daily("requests") \in Nat /\ Daily("requests")' = Daily("requests")
  BY <1>1, <1>2, CountNats DEF Daily
<1>11. ASSUME ~doubled' PROVE NotMore'
  <2>1. NotMore /\ redis' = redis
    BY <1>4, <1>11 DEF CountInv
  <2>2. ASSUME NEW d \in Usage!Days PROVE Ahead'[d] <= Ahead[d]
    BY <1>8, <1>9, <1>10, <1>11, <2>1, AheadDay DEF Moves, Grows, Usage!Max2
  <2>3. Usage!Total(Ahead) \in Nat /\ Usage!Total(Ahead)' \in Nat
        /\ Usage!Total(Ahead)' <= Usage!Total(Ahead) + 0
    <3>1. \A d \in Usage!Days : Ahead'[d] <= Ahead[d] + (IF d = 1 THEN 0 ELSE 0)
      BY <1>2, <2>2, SumTypes DEF SumsTyped
    <3> QED BY <1>2, <1>7, <3>1, DayFacts, WindowBound
  <2> QED BY <1>8, <1>9, <1>10, <1>11, <2>1, <2>3 DEF NotMore, Moves, Grows
<1>12. RowsNotMore'
  BY <1>8, <1>9, <1>10 DEF RowsNotMore, CountInv, Moves, Grows
<1>13. NotLess'
  BY <1>1, <1>8, <1>9, <1>10 DEF NotLess, CountInv, Moves, Grows
<1>14. SnapHolds' /\ LightHolds'
  BY <1>1, <1>2, <1>4, ReadsKept DEF CountTypes, Usage!TypeOK, Usage!Stores
<1> QED BY <1>7, <1>11, <1>12, <1>13, <1>14 DEF CountInv

(* A row that gains one gains it in the sum of the rows.                     *)
LEMMA RowAdded ==
    ASSUME CountTypes, CountTypes', NEW k \in {0, 1},
           \A d \in Usage!Days : daily'[d]["requests"]
                                    = daily[d]["requests"] + (IF d = clock THEN k ELSE 0)
    PROVE  Daily("requests")' = Daily("requests") + k
<1> DEFINE s == [d \in Usage!Days |-> daily[d]["requests"]]
           t == [d \in Usage!Days |-> daily'[d]["requests"]]
<1>1. clock \in Usage!Days /\ \A d \in Usage!Days : daily[d]["requests"] \in Nat
  BY CountNats
<1>2. s \in [Usage!Days -> Nat] /\ t \in [Usage!Days -> Nat]
  BY <1>1
<1>3. /\ \A d \in Usage!Days : d # clock => s[d] <= t[d] /\ t[d] <= s[d]
      /\ s[clock] + k <= t[clock] /\ t[clock] + (0 - k) <= s[clock]
  BY <1>1
<1>4. Daily("requests") = Usage!Total(s) /\ Daily("requests")' = Usage!Total(t)
  BY DEF Daily, Usage!Total
<1> HIDE DEF s, t
<1>5. Usage!Total(s) \in Nat /\ Usage!Total(t) \in Nat /\ Usage!Total(s) + k <= Usage!Total(t)
  BY <1>1, <1>2, <1>3, TotalBound
<1>6. Usage!Total(t) + (0 - k) <= Usage!Total(s)
  BY <1>1, <1>2, <1>3, TotalBound
<1> QED BY <1>4, <1>5, <1>6

(* The commit counts the request in the row of today, which need not be the  *)
(* day that it is open for.                                                  *)
LEMMA CommitKeeps ==
    ASSUME CountInv, NEW w \in Recorders, Usage!Commit(w)
    PROVE  CountInv'
<1>1. /\ rec[w] # None /\ rec[w].at = "pg" /\ rec' = [rec EXCEPT ![w].at = "end"]
      /\ UNCHANGED <<clock, redis, shown, light, finished, done, before, doubled>>
  BY DEF Usage!Commit
<1>2. CountTypes /\ rec[w] \in Recording
  BY <1>1 DEF CountInv, CountTypes
<1>3. PICK q \in Recording : /\ rec' = [rec EXCEPT ![w] = q] /\ q.at = "end" /\ q.day = rec[w].day
  <2> DEFINE q == [rec[w] EXCEPT !.at = "end"]
  <2>1. rec' = [rec EXCEPT ![w] = q] /\ q \in Recording /\ q.at = "end" /\ q.day = rec[w].day
    BY <1>1, <1>2 DEF Recording
  <2> HIDE DEF q
  <2> QED BY <2>1
<1>4. /\ rec' \in [Recorders -> Recording \cup {None}] /\ rec'[w] = q
      /\ \A v \in Recorders : v # w => rec'[v] = rec[v]
  BY <1>2, <1>3 DEF CountTypes
<1>5. PICK k \in {0, 1} :
         /\ daily' \in [Usage!Days -> Usage!Stats]
         /\ \A d \in Usage!Days : daily'[d]["requests"]
                                     = daily[d]["requests"] + (IF d = clock THEN k ELSE 0)
         /\ \A d \in Usage!Days : daily'[d]["success"] <= daily'[d]["requests"]
         /\ failed \subseteq failed' /\ failed' \subseteq Usage!Stores /\ errors' \in Nat
         /\ "pg" \notin failed' => k = 1
         /\ "redis" \notin failed' => "redis" \notin failed
         /\ crossed' = crossed + (IF k = 1 /\ rec[w].day # clock THEN 1 ELSE 0)
  <2>1. /\ daily \in [Usage!Days -> Usage!Stats] /\ clock \in Usage!Days /\ crossed \in Nat
        /\ errors \in Nat
        /\ failed \subseteq Usage!Stores
        /\ \A d \in Usage!Days : /\ daily[d]["requests"] \in Nat /\ daily[d]["success"] \in Nat
                                 /\ daily[d]["success"] <= daily[d]["requests"]
    BY <1>2, CountNats DEF CountInv, CountTypes, Usage!TypeOK, RowsNotMore
  <2>2. CASE Usage!Error("pg") /\ UNCHANGED <<daily, crossed>>
    <3>1. failed' = failed \cup {"pg"} /\ errors' = errors + 1
          /\ daily' = daily /\ crossed' = crossed
      BY <2>2 DEF Usage!Error
    <3>2. failed \subseteq failed' /\ failed' \subseteq Usage!Stores /\ errors' \in Nat
          /\ "pg" \in failed' /\ ("redis" \notin failed' => "redis" \notin failed)
      BY <2>1, <3>1 DEF Usage!Stores
    <3> WITNESS 0 \in {0, 1}
    <3> QED BY <2>1, <3>1, <3>2
  <2>3. CASE ~(Usage!Error("pg") /\ UNCHANGED <<daily, crossed>>)
    <3> DEFINE s == [f \in Usage!Fields |-> daily[clock][f]
                                            + IF f = "requests" \/ rec[w].ok THEN 1 ELSE 0]
    <3>1. /\ daily' = [daily EXCEPT ![clock] = s] /\ UNCHANGED <<failed, errors>>
          /\ crossed' = IF rec[w].day = clock THEN crossed ELSE crossed + 1
      BY <2>3 DEF Usage!Commit
    <3>2. /\ s \in Usage!Stats /\ s["requests"] = daily[clock]["requests"] + 1
          /\ s["success"] <= s["requests"]
      <4>1. s \in Usage!Stats
        BY <2>1 DEF Usage!Stats
      <4>2. s["requests"] = daily[clock]["requests"] + 1
            /\ s["success"] = daily[clock]["success"] + IF rec[w].ok THEN 1 ELSE 0
        BY DayFacts
      <4> HIDE DEF s
      <4> QED BY <2>1, <4>1, <4>2
    <3> HIDE DEF s
    <3>3. \A d \in Usage!Days : daily'[d] = IF d = clock THEN s ELSE daily[d]
      BY <2>1, <3>1
    <3>4. daily' \in [Usage!Days -> Usage!Stats]
      BY <2>1, <3>1, <3>2
    <3> QED BY <2>1, <3>1, <3>2, <3>3, <3>4
  <2> QED BY <2>2, <2>3
<1>6. CountTypes'
  <2>1. crossed' \in Nat
    BY <1>2, <1>5, CountNats
  <2>2. \A v \in Recorders : light'[v] # None => light'[v] \in Usage!Stats
    BY <1>1, <1>2 DEF CountTypes, Usage!TypeOK
  <2> QED BY <1>1, <1>2, <1>4, <1>5, <2>1, <2>2 DEF CountTypes, Usage!TypeOK
<1>7. Moves(w)
  BY <1>4, OneMoves
<1>8. /\ w \notin OpenLife' /\ w \notin Half' /\ w \in Uncommitted /\ w \notin Uncommitted'
      /\ w \in Told /\ w \notin Ended
      /\ \A d \in Usage!Days : /\ w \notin OpenDay(d)' /\ w \notin OpenRow(d)'
                               /\ w \in OpenRow(d) <=> d = rec[w].day
  BY <1>1, <1>3, <1>4 DEF OpenLife, Half, OpenDay, OpenRow, Uncommitted, Told, Ended,
                          InRedis, InLife
<1>9. /\ redis[Usage!Life]["requests"] \in Nat /\ redis[Usage!Life]["success"] \in Nat
      /\ finished \in Nat /\ crossed \in Nat /\ done \in Nat /\ clock \in Usage!Days
      /\ finished' = finished /\ done' = done /\ before' = before /\ redis' = redis
      /\ doubled' = doubled
      /\ \A d \in Usage!Days : redis[d]["requests"] \in Nat /\ daily[d]["requests"] \in Nat
      /\ Daily("requests") \in Nat /\ Daily("requests")' = Daily("requests") + k
  BY <1>1, <1>2, <1>5, <1>6, CountNats, RowAdded
<1>10. ASSUME ~doubled PROVE NotMore'
  <2>1. NotMore
    BY <1>10 DEF CountInv
  <2> DEFINE c == IF k = 1 /\ rec[w].day # clock THEN 1 ELSE 0
  <2>2. ASSUME NEW d \in Usage!Days PROVE Ahead'[d] <= Ahead[d] + (IF d = clock THEN c ELSE 0)
    <3>1. daily'[d]["requests"] = daily[d]["requests"] + (IF d = clock THEN k ELSE 0)
      BY <1>5
    <3>2. Cardinality(OpenDay(d)') <= Cardinality(OpenDay(d))
          /\ Cardinality(OpenDay(d)) \in Nat /\ Cardinality(OpenDay(d)') \in Nat
      <4>1. Grows(OpenDay(d), OpenDay(d)', w) /\ w \notin OpenDay(d)'
        BY <1>7, <1>8 DEF Moves
      <4> QED BY <4>1 DEF Grows
    <3>3. Cardinality(OpenRow(d)') + (IF d = rec[w].day THEN 1 ELSE 0) <= Cardinality(OpenRow(d))
          /\ Cardinality(OpenRow(d)) \in Nat /\ Cardinality(OpenRow(d)') \in Nat
      <4>1. Grows(OpenRow(d), OpenRow(d)', w)
        BY <1>7 DEF Moves
      <4>2. w \notin OpenRow(d)' /\ (w \in OpenRow(d) <=> d = rec[w].day)
        BY <1>8
      <4> QED BY <4>1, <4>2 DEF Grows
    <3> QED BY <1>9, <3>1, <3>2, <3>3, AheadDay DEF Usage!Max2
  <2>3. Usage!Total(Ahead) \in Nat /\ Usage!Total(Ahead)' \in Nat
        /\ Usage!Total(Ahead)' <= Usage!Total(Ahead) + c
    BY <1>2, <1>6, <1>9, <2>2, WindowBound
  <2> QED BY <1>5, <1>7, <1>8, <1>9, <2>1, <2>3 DEF NotMore, Moves, Grows
<1>11. RowsNotMore'
  BY <1>5, <1>7, <1>8, <1>9 DEF RowsNotMore, CountInv, Moves, Grows
<1>12. NotLess'
  BY <1>5, <1>7, <1>8, <1>9 DEF NotLess, CountInv, Moves, Grows
<1>13. SnapHolds' /\ LightHolds'
  BY <1>1, <1>5, <1>9, ReadsKept
<1> QED BY <1>6, <1>9, <1>10, <1>11, <1>12, <1>13 DEF CountInv

(* The end of record_usage: what was counted is done.                        *)
LEMMA RecordedKeeps ==
    ASSUME CountInv, NEW w \in Recorders, Usage!Recorded(w)
    PROVE  CountInv'
<1>1. /\ rec[w] # None /\ rec[w].at = "end" /\ rec' = [rec EXCEPT ![w] = None]
      /\ light' = [light EXCEPT ![w] = None] /\ done' = done + 1
      /\ UNCHANGED <<clock, Usage!stores, shown, finished, before, crossed, failed, doubled,
                     errors>>
  BY DEF Usage!Recorded
<1>2. CountTypes
  BY DEF CountInv
<1>3. /\ rec' \in [Recorders -> Recording \cup {None}] /\ rec'[w] = None
      /\ \A v \in Recorders : v # w => rec'[v] = rec[v]
      /\ light' \in [Recorders -> Usage!Stats \cup {None}] /\ light'[w] = None
      /\ \A v \in Recorders : v # w => light'[v] = light[v]
  BY <1>1, <1>2 DEF CountTypes
<1>4. CountTypes'
  BY <1>1, <1>2, <1>3 DEF CountTypes, Usage!TypeOK, Usage!stores
<1>5. Moves(w)
  BY <1>3, OneMoves
<1>6. /\ w \notin OpenLife' /\ w \notin Half' /\ w \notin Uncommitted'
      /\ w \in Told /\ w \in Ended /\ w \notin Told' /\ w \notin Ended'
      /\ \A d \in Usage!Days : w \notin OpenDay(d)' /\ w \notin OpenRow(d)'
  BY <1>1, <1>3 DEF OpenLife, Half, OpenDay, OpenRow, Uncommitted, Told, Ended, InRedis, InLife
<1>7. /\ redis[Usage!Life]["requests"] \in Nat /\ redis[Usage!Life]["success"] \in Nat
      /\ finished \in Nat /\ crossed \in Nat /\ done \in Nat /\ before \in Nat
      /\ finished' = finished /\ crossed' = crossed /\ before' = before /\ redis' = redis
      /\ failed' = failed /\ doubled' = doubled /\ daily' = daily
      /\ \A d \in Usage!Days : redis[d]["requests"] \in Nat /\ daily[d]["requests"] \in Nat
      /\ Daily("requests") \in Nat /\ Daily("requests")' = Daily("requests")
  BY <1>1, <1>2, CountNats DEF Usage!stores, Daily
<1>8. ASSUME ~doubled PROVE NotMore'
  <2>1. NotMore
    BY <1>8 DEF CountInv
  <2>2. ASSUME NEW d \in Usage!Days PROVE Ahead'[d] <= Ahead[d]
    BY <1>5, <1>6, <1>7, AheadDay DEF Moves, Grows, Usage!Max2
  <2>3. Usage!Total(Ahead) \in Nat /\ Usage!Total(Ahead)' \in Nat
        /\ Usage!Total(Ahead)' <= Usage!Total(Ahead) + 0
    <3>1. \A d \in Usage!Days : Ahead'[d] <= Ahead[d] + (IF d = 1 THEN 0 ELSE 0)
      BY <1>2, <2>2, SumTypes DEF SumsTyped
    <3> QED BY <1>2, <1>4, <3>1, DayFacts, WindowBound
  <2> QED BY <1>5, <1>6, <1>7, <2>1, <2>3 DEF NotMore, Moves, Grows
<1>9. RowsNotMore'
  BY <1>5, <1>6, <1>7 DEF RowsNotMore, CountInv, Moves, Grows
<1>10. NotLess'
  BY <1>1, <1>5, <1>6, <1>7 DEF NotLess, CountInv, Moves, Grows
<1>11. SnapHolds'
  BY <1>1 DEF CountInv, SnapHolds, Plausible
<1>12. LightHolds'
  BY <1>1, <1>3 DEF CountInv, LightHolds, Plausible
<1> QED BY <1>4, <1>7, <1>8, <1>9, <1>10, <1>11, <1>12 DEF CountInv

(* Steps that count nothing.                                                 *)
LEMMA CountsRest ==
    ASSUME CountInv, UNCHANGED <<Usage!stores, rec, finished, done, crossed, doubled>>
    PROVE  /\ ~doubled' => NotMore'
           /\ RowsNotMore'
           /\ UNCHANGED <<Daily("requests"), Cardinality(Told), Cardinality(Ended)>>
<1>1. /\ OpenLife' = OpenLife /\ Half' = Half /\ Uncommitted' = Uncommitted
      /\ Told' = Told /\ Ended' = Ended /\ Ahead' = Ahead
      /\ Daily("requests")' = Daily("requests")
  BY DEF OpenLife, Half, OpenDay, OpenRow, Uncommitted, Told, Ended, Ahead, InRedis, InLife,
         IsHalf, Daily, Usage!stores
<1>2. Usage!Total(Ahead)' = Usage!Total(Ahead)
  BY <1>1 DEF Usage!Total
<1> QED BY <1>1, <1>2 DEF CountInv, NotMore, RowsNotMore, Usage!stores

(* A reader takes what Redis has, or nothing.                                *)
LEMMA ReadLifeKeeps ==
    ASSUME CountInv, NEW w \in Recorders, Usage!ReadLife(w)
    PROVE  CountInv'
<1>1. /\ light[w] = None
      /\ UNCHANGED <<clock, Usage!stores, rec, light, finished, done, before, crossed, doubled>>
  BY DEF Usage!ReadLife
<1>2. CountTypes /\ NotLess /\ (~doubled => NotMore)
  BY DEF CountInv
<1>3. PICK s \in Usage!Stats :
         /\ shown' = [shown EXCEPT ![w] = s]
         /\ failed \subseteq failed' /\ failed' \subseteq Usage!Stores /\ errors' \in Nat
         /\ ~doubled => Plausible(s)
         /\ "redis" \notin failed' => before <= s["requests"]
         /\ "pg" \in failed' => "pg" \in failed
  <2>1. failed \subseteq Usage!Stores /\ errors \in Nat /\ redis[Usage!Life] \in Usage!Stats
        /\ finished \in Nat /\ before \in Nat /\ done \in Nat
    BY <1>2 DEF CountTypes, Usage!TypeOK
  <2>2. redis[Usage!Life]["requests"] \in Nat /\ redis[Usage!Life]["success"] \in Nat
    BY <1>2, CountNats
  <2>3. Cardinality(OpenLife) \in Nat /\ Cardinality(Half) \in Nat /\ Cardinality(Told) \in Nat
    <3>1. OpenLife \subseteq Recorders /\ Half \subseteq Recorders /\ Told \subseteq Recorders
      BY DEF OpenLife, Half, Told
    <3> QED BY <3>1, CardBound
  <2>4. CASE shown' = [shown EXCEPT ![w] = redis[Usage!Life]] /\ UNCHANGED <<failed, errors>>
    <3> DEFINE s == redis[Usage!Life]
    <3>1. ~doubled => Plausible(s)
      BY <1>2, <2>1, <2>2, <2>3 DEF Plausible, NotMore
    <3>2. "redis" \notin failed => before <= s["requests"]
      BY <1>2, <2>1, <2>2, <2>3 DEF NotLess
    <3>3. s \in Usage!Stats /\ shown' = [shown EXCEPT ![w] = s]
      BY <2>1, <2>4
    <3> HIDE DEF s
    <3> QED BY <2>1, <2>4, <3>1, <3>2, <3>3
  <2>5. CASE shown' = [shown EXCEPT ![w] = Usage!Empty] /\ Usage!Error("redis")
    <3>1. failed' = failed \cup {"redis"} /\ errors' = errors + 1
      BY <2>5 DEF Usage!Error
    <3>2. failed \subseteq failed' /\ failed' \subseteq Usage!Stores /\ "redis" \in failed'
          /\ ("pg" \in failed' => "pg" \in failed) /\ errors' \in Nat
      BY <2>1, <3>1 DEF Usage!Stores
    <3>3. Plausible(Usage!Empty)
      BY <2>1, EmptyFacts DEF Plausible
    <3> HIDE DEF Plausible
    <3> QED BY <2>5, <3>2, <3>3, EmptyFacts
  <2> QED BY <2>4, <2>5 DEF Usage!ReadLife
<1>4. /\ shown' \in [Recorders -> Usage!Stats \cup {None}] /\ shown'[w] = s
      /\ \A v \in Recorders : v # w => shown'[v] = shown[v]
  BY <1>2, <1>3 DEF CountTypes
<1>5. CountTypes'
  BY <1>1, <1>2, <1>3, <1>4 DEF CountTypes, Usage!TypeOK, Usage!stores
<1>6. /\ ~doubled' => NotMore'
      /\ RowsNotMore'
      /\ UNCHANGED <<Daily("requests"), Cardinality(Told), Cardinality(Ended)>>
  BY <1>1, CountsRest
<1>7. NotLess'
  BY <1>1, <1>2, <1>3, <1>6 DEF NotLess, Usage!stores
<1>8. SnapHolds'
  BY <1>1, <1>3, <1>4 DEF CountInv, SnapHolds, Plausible
<1>9. LightHolds'
  <2>1. failed' # Usage!Stores => failed # Usage!Stores
    BY <1>3
  <2> QED BY <1>1, <2>1 DEF CountInv, LightHolds, Plausible
<1> QED BY <1>5, <1>6, <1>7, <1>8, <1>9 DEF CountInv

(* What was read of Redis, merged with the rows or with nothing.             *)
LEMMA ReadSumKeeps ==
    ASSUME CountInv, NEW w \in Recorders, Usage!ReadSum(w)
    PROVE  CountInv'
<1>1. /\ shown[w] # None /\ shown' = [shown EXCEPT ![w] = None]
      /\ UNCHANGED <<clock, Usage!stores, rec, finished, done, before, crossed, doubled>>
  BY DEF Usage!ReadSum
<1>2. CountTypes /\ NotLess /\ RowsNotMore /\ shown[w] \in Usage!Stats
  BY <1>1 DEF CountInv, CountTypes
<1>3. /\ ~doubled => Plausible(shown[w])
      /\ "redis" \notin failed => before <= shown[w]["requests"]
  BY <1>1 DEF CountInv, SnapHolds
<1>4. /\ Usage!SumStats(daily) \in Usage!Stats
      /\ Usage!SumStats(daily)["requests"] = Daily("requests")
      /\ Usage!SumStats(daily)["success"] = Daily("success")
      /\ Daily("requests") \in Nat /\ Daily("success") \in Nat
      /\ Daily("success") <= Daily("requests") /\ Daily("requests") <= finished
  <2>1. Daily("success") <= Daily("requests")
    <3> DEFINE s == [d \in Usage!Days |-> daily[d]["success"]]
               t == [d \in Usage!Days |-> daily[d]["requests"]]
    <3>1. s \in [Usage!Days -> Nat] /\ t \in [Usage!Days -> Nat]
          /\ \A d \in Usage!Days : s[d] <= t[d]
      BY <1>2, CountNats DEF RowsNotMore
    <3>2. Daily("success") = Usage!Total(s) /\ Daily("requests") = Usage!Total(t)
      BY DEF Daily
    <3> HIDE DEF s, t
    <3> QED BY <3>1, <3>2, TotalMonotone
  <2>2. Cardinality(Uncommitted) \in Nat
    <3>1. Uncommitted \subseteq Recorders
      BY DEF Uncommitted
    <3> QED BY <3>1, CardBound
  <2> QED BY <1>2, <2>1, <2>2, SumFacts, CountNats DEF RowsNotMore
<1>5. PICK s \in Usage!Stats :
         /\ light' = [light EXCEPT ![w] = s]
         /\ failed \subseteq failed' /\ failed' \subseteq Usage!Stores /\ errors' \in Nat
         /\ ~doubled => Plausible(s)
         /\ failed' # Usage!Stores => before <= s["requests"]
         /\ "redis" \in failed' => "redis" \in failed
  <2>1. /\ failed \subseteq Usage!Stores /\ errors \in Nat /\ finished \in Nat /\ before \in Nat
        /\ done \in Nat /\ shown[w]["requests"] \in Nat /\ shown[w]["success"] \in Nat
    BY <1>2, DayFacts DEF CountTypes, Usage!TypeOK, Usage!Stats
  <2>2. Cardinality(Ended) \in Nat
    <3>1. Ended \subseteq Recorders
      BY DEF Ended
    <3> QED BY <3>1, CardBound
  <2>3. CASE light' = [light EXCEPT ![w] = Usage!Lifetime(shown[w], Usage!SumStats(daily))]
             /\ UNCHANGED <<failed, errors>>
    <3> DEFINE s == Usage!MergeStats(shown[w], Usage!SumStats(daily))
    <3>1. /\ light' = [light EXCEPT ![w] = s] /\ s \in Usage!Stats
          /\ s["requests"] = Usage!Max2(shown[w]["requests"], Daily("requests"))
          /\ s["success"] = Usage!Max2(shown[w]["success"], Daily("success"))
      BY <1>2, <1>4, <2>3, MergeFacts DEF Usage!Lifetime
    <3> HIDE DEF s
    <3>2. ~doubled => Plausible(s)
      BY <1>3, <1>4, <2>1, <3>1 DEF Plausible, Usage!Max2
    <3>3. failed # Usage!Stores => before <= s["requests"]
      <4>1. failed # Usage!Stores => "redis" \notin failed \/ "pg" \notin failed
        BY <2>1 DEF Usage!Stores
      <4>2. "pg" \notin failed => before <= Daily("requests")
        BY <1>2, <1>4, <2>1, <2>2 DEF NotLess
      <4> QED BY <1>3, <1>4, <2>1, <3>1, <4>1, <4>2 DEF Usage!Max2
    <3> QED BY <2>1, <2>3, <3>1, <3>2, <3>3
  <2>4. CASE light' = [light EXCEPT ![w] = Usage!Lifetime(shown[w], Usage!Empty)]
             /\ Usage!Error("pg")
    <3> DEFINE s == Usage!MergeStats(shown[w], Usage!Empty)
    <3>1. /\ light' = [light EXCEPT ![w] = s] /\ s \in Usage!Stats
          /\ s["requests"] = Usage!Max2(shown[w]["requests"], 0)
          /\ s["success"] = Usage!Max2(shown[w]["success"], 0)
      BY <1>2, <2>4, MergeFacts, EmptyFacts DEF Usage!Lifetime
    <3> HIDE DEF s
    <3>2. s["requests"] = shown[w]["requests"] /\ s["success"] = shown[w]["success"]
      BY <2>1, <3>1 DEF Usage!Max2
    <3>3. failed' = failed \cup {"pg"} /\ errors' = errors + 1
      BY <2>4 DEF Usage!Error
    <3>4. failed' # Usage!Stores => "redis" \notin failed
      BY <2>1, <3>3 DEF Usage!Stores
    <3>5. failed \subseteq failed' /\ failed' \subseteq Usage!Stores /\ errors' \in Nat
          /\ ("redis" \in failed' => "redis" \in failed)
      BY <2>1, <3>3 DEF Usage!Stores
    <3>6. ~doubled => Plausible(s)
      BY <1>3, <3>2 DEF Plausible
    <3>7. failed' # Usage!Stores => before <= s["requests"]
      BY <1>3, <3>2, <3>4
    <3> QED BY <3>1, <3>5, <3>6, <3>7
  <2> QED BY <2>3, <2>4 DEF Usage!ReadSum
<1>6. /\ light' \in [Recorders -> Usage!Stats \cup {None}] /\ light'[w] = s
      /\ \A v \in Recorders : v # w => light'[v] = light[v]
      /\ shown' \in [Recorders -> Usage!Stats \cup {None}] /\ shown'[w] = None
      /\ \A v \in Recorders : v # w => shown'[v] = shown[v]
  BY <1>1, <1>2, <1>5 DEF CountTypes
<1>7. CountTypes'
  BY <1>1, <1>2, <1>5, <1>6 DEF CountTypes, Usage!TypeOK, Usage!stores
<1>8. /\ ~doubled' => NotMore'
      /\ RowsNotMore'
      /\ UNCHANGED <<Daily("requests"), Cardinality(Told), Cardinality(Ended)>>
  BY <1>1, CountsRest
<1>9. NotLess'
  BY <1>1, <1>2, <1>5, <1>8 DEF NotLess, Usage!stores
<1>10. SnapHolds'
  BY <1>1, <1>5, <1>6 DEF CountInv, SnapHolds, Plausible
<1>11. LightHolds'
  <2>1. failed' # Usage!Stores => failed # Usage!Stores
    BY <1>5
  <2> QED BY <1>1, <1>5, <1>6, <2>1 DEF CountInv, LightHolds, Plausible
<1> QED BY <1>7, <1>8, <1>9, <1>10, <1>11 DEF CountInv

(* The caches expire when all is told.                                       *)
LEMMA ExpireKeeps == ASSUME CountInv, Usage!Expire PROVE CountInv'
<1>1. /\ \A w \in Recorders : shown[w] = None
      /\ light' = [w \in Recorders |-> None] /\ before' = done
      /\ UNCHANGED <<clock, Usage!stores, rec, shown, finished, done, crossed, failed, doubled,
                     errors>>
  BY DEF Usage!Expire
<1>2. CountTypes /\ NotLess /\ done \in Nat
  BY CountNats DEF CountInv
<1>3. CountTypes'
  BY <1>1, <1>2 DEF CountTypes, Usage!TypeOK, Usage!stores
<1>4. /\ ~doubled' => NotMore'
      /\ RowsNotMore'
      /\ UNCHANGED <<Daily("requests"), Cardinality(Told), Cardinality(Ended)>>
  BY <1>1, CountsRest
<1>5. NotLess'
  BY <1>1, <1>2, <1>4 DEF NotLess, Usage!stores
<1>6. SnapHolds' /\ LightHolds'
  BY <1>1 DEF SnapHolds, LightHolds
<1> QED BY <1>3, <1>4, <1>5, <1>6 DEF CountInv

(* A day passes, or nothing happens.                                         *)
LEMMA RestKeeps ==
    ASSUME CountInv, clock' \in Usage!Days,
           UNCHANGED <<Usage!stores, rec, shown, light, Usage!history>>
    PROVE  CountInv'
<1>1. CountTypes /\ NotLess
  BY DEF CountInv
<1>2. CountTypes'
  BY <1>1 DEF CountTypes, Usage!TypeOK, Usage!stores, Usage!history
<1>3. /\ ~doubled' => NotMore'
      /\ RowsNotMore'
      /\ UNCHANGED <<Daily("requests"), Cardinality(Told), Cardinality(Ended)>>
  BY CountsRest DEF Usage!history
<1>4. NotLess'
  BY <1>1, <1>3 DEF NotLess, Usage!stores, Usage!history
<1>5. SnapHolds' /\ LightHolds'
  BY DEF CountInv, SnapHolds, LightHolds, Plausible, Usage!history
<1> QED BY <1>2, <1>3, <1>4, <1>5 DEF CountInv

(* Nothing is counted at first.                                              *)
LEMMA CountInit == Usage!Init => CountInv
<1> SUFFICES ASSUME Usage!Init PROVE CountInv
  OBVIOUS
<1>1. CountTypes
  <2>1. redis \in [Usage!Days \cup {Usage!Life} -> Usage!Stats]
        /\ daily \in [Usage!Days -> Usage!Stats]
    BY EmptyFacts DEF Usage!Init
  <2>2. /\ clock \in Usage!Days /\ failed \subseteq Usage!Stores /\ doubled \in BOOLEAN
        /\ {finished, done, before, crossed, errors} \subseteq Nat
        /\ rec \in [Recorders -> Recording \cup {None}]
        /\ shown \in [Recorders -> Usage!Stats \cup {None}]
        /\ light \in [Recorders -> Usage!Stats \cup {None}]
        /\ \A w \in Recorders : light[w] # None => light[w] \in Usage!Stats
    <3>1. clock = 1 /\ failed = {} /\ doubled = FALSE /\ finished = 0 /\ done = 0 /\ before = 0
          /\ crossed = 0 /\ errors = 0
      BY DEF Usage!Init
    <3>2. rec = [w \in Recorders |-> None] /\ shown = [w \in Recorders |-> None]
          /\ light = [w \in Recorders |-> None]
      BY DEF Usage!Init
    <3>3. \A w \in Recorders : light[w] = None
      BY <3>2
    <3>4. rec \in [Recorders -> {None}] /\ shown \in [Recorders -> {None}]
          /\ light \in [Recorders -> {None}]
      BY <3>2
    <3>5. {finished, done, before, crossed, errors} \subseteq Nat
      BY <3>1
    <3>6. clock \in Usage!Days /\ failed \subseteq Usage!Stores /\ doubled \in BOOLEAN
      BY <3>1, DayFacts
    <3> QED BY <3>3, <3>4, <3>5, <3>6
  <2> QED BY <2>1, <2>2 DEF CountTypes, Usage!TypeOK
<1>2. /\ OpenLife = {} /\ Half = {} /\ Uncommitted = {} /\ Told = {} /\ Ended = {}
      /\ \A d \in Usage!Days : OpenDay(d) = {} /\ OpenRow(d) = {}
  BY DEF Usage!Init, OpenLife, Half, Uncommitted, Told, Ended, OpenDay, OpenRow, InRedis, InLife
<1>3. Cardinality({}) = 0
  BY FS_EmptySet
<1>4. Ahead = [d \in Usage!Days |-> 0] /\ Daily("requests") = 0
  <2>1. \A d \in Usage!Days : redis[d]["requests"] = 0 /\ daily[d]["requests"] = 0
    BY EmptyFacts DEF Usage!Init
  <2>2. \A d \in Usage!Days : Usage!Max2(redis[d]["requests"] + Cardinality(OpenDay(d)),
                                         daily[d]["requests"] + Cardinality(OpenRow(d))) = 0
    <3> TAKE d \in Usage!Days
    <3>1. Cardinality(OpenDay(d)) = 0 /\ Cardinality(OpenRow(d)) = 0
      BY <1>2, <1>3
    <3> QED BY <2>1, <3>1 DEF Usage!Max2
  <2>3. [d \in Usage!Days |-> daily[d]["requests"]] = [d \in Usage!Days |-> 0]
    BY <2>1
  <2> QED BY <2>2, <2>3, TotalZero DEF Ahead, Daily
<1>5. Usage!Total(Ahead) = 0
  BY <1>4, TotalZero
<1>6. /\ redis[Usage!Life]["requests"] = 0 /\ redis[Usage!Life]["success"] = 0
      /\ \A d \in Usage!Days : daily[d]["success"] = 0 /\ daily[d]["requests"] = 0
      /\ finished = 0 /\ done = 0 /\ before = 0 /\ crossed = 0
  BY EmptyFacts DEF Usage!Init
<1>7. NotMore /\ RowsNotMore /\ NotLess
  <2>1. /\ Cardinality(OpenLife) = 0 /\ Cardinality(Half) = 0 /\ Cardinality(Uncommitted) = 0
        /\ Cardinality(Told) = 0 /\ Cardinality(Ended) = 0
    BY <1>2, <1>3
  <2>2. NotMore
    BY <1>5, <1>6, <2>1 DEF NotMore
  <2>3. RowsNotMore
    BY <1>4, <1>6, <2>1 DEF RowsNotMore
  <2>4. NotLess
    BY <1>4, <1>6, <2>1 DEF NotLess
  <2> QED BY <2>2, <2>3, <2>4
<1>8. SnapHolds /\ LightHolds
  BY DEF Usage!Init, SnapHolds, LightHolds
<1> QED BY <1>1, <1>7, <1>8 DEF CountInv

(* Every step keeps the invariant.                                           *)
LEMMA CountStep == CountInv /\ [Usage!Next]_Usage!vars => CountInv'
<1> SUFFICES ASSUME CountInv, [Usage!Next]_Usage!vars PROVE CountInv'
  OBVIOUS
<1>1. ASSUME NEW w \in Recorders, NEW ok \in BOOLEAN, Usage!Record(w, ok) PROVE CountInv'
  BY <1>1, RecordKeeps
<1>2. ASSUME NEW w \in Recorders, Usage!Command(w) \/ Usage!CommandFails(w) PROVE CountInv'
  BY <1>2, CommandKeeps, CommandFailsKeeps
<1>3. ASSUME NEW w \in Recorders, Usage!Commit(w) \/ Usage!Recorded(w) PROVE CountInv'
  BY <1>3, CommitKeeps, RecordedKeeps
<1>4. ASSUME NEW w \in Recorders, Usage!ReadLife(w) \/ Usage!ReadSum(w) PROVE CountInv'
  BY <1>4, ReadLifeKeeps, ReadSumKeeps
<1>5. CASE Usage!Expire
  BY <1>5, ExpireKeeps
<1>6. CASE Usage!Midnight
  <2>1. clock \in Usage!Days /\ MaxDay \in Nat
    BY ReportsAssumption, CountNats DEF CountInv, Usage!UsageAssumption
  <2>2. clock' \in Usage!Days /\ UNCHANGED <<Usage!stores, rec, shown, light, Usage!history>>
    BY <1>6, <2>1 DEF Usage!Midnight, Usage!Days
  <2> QED BY <2>2, RestKeeps
<1>7. CASE UNCHANGED Usage!vars
  <2>1. clock' \in Usage!Days /\ UNCHANGED <<Usage!stores, rec, shown, light, Usage!history>>
    BY <1>7, CountNats DEF Usage!vars, CountInv
  <2> QED BY <2>1, RestKeeps
<1> QED BY <1>1, <1>2, <1>3, <1>4, <1>5, <1>6, <1>7 DEF Usage!Next

(* The properties of the run.                                                *)
LEMMA CountsFollow == CountInv => Usage!CountsOnce /\ Usage!OneStoreSuffices /\ Usage!TypeOK
<1> SUFFICES ASSUME CountInv PROVE Usage!CountsOnce /\ Usage!OneStoreSuffices /\ Usage!TypeOK
  OBVIOUS
<1>1. Usage!TypeOK /\ Usage!OneStoreSuffices
  BY DEF CountInv, CountTypes, LightHolds, Usage!OneStoreSuffices
<1>2. ASSUME ~doubled PROVE Usage!Window["requests"] <= finished + crossed
  <2> DEFINE s == [d \in Usage!Days |-> Usage!MergeStats(redis[d], daily[d])["requests"]]
  <2>1. Usage!Window["requests"] = Usage!Total(s)
    <3> DEFINE merged == [d \in Usage!Days |-> Usage!MergeStats(redis[d], daily[d])]
    <3>1. s = [d \in Usage!Days |-> merged[d]["requests"]]
      OBVIOUS
    <3> HIDE DEF s
    <3> QED BY <3>1, DayFacts DEF Usage!Window, Usage!SumStats
  <2>2. ASSUME NEW d \in Usage!Days
        PROVE  s[d] \in Nat /\ s[d] <= Ahead[d]
    <3>1. /\ redis[d] \in Usage!Stats /\ daily[d] \in Usage!Stats
          /\ redis[d]["requests"] \in Nat /\ daily[d]["requests"] \in Nat
      BY CountNats DEF CountInv, CountTypes, Usage!TypeOK
    <3>2. s[d] = Usage!Max2(redis[d]["requests"], daily[d]["requests"])
      BY <3>1, MergeFacts
    <3>3. Cardinality(OpenDay(d)) \in Nat /\ Cardinality(OpenRow(d)) \in Nat
      <4>1. OpenDay(d) \subseteq Recorders /\ OpenRow(d) \subseteq Recorders
        BY DEF OpenDay, OpenRow, Uncommitted
      <4> QED BY <4>1, CardBound
    <3> HIDE DEF s
    <3> QED BY <3>1, <3>2, <3>3, AheadDay DEF Usage!Max2
  <2>3. s \in [Usage!Days -> Nat] /\ Ahead \in [Usage!Days -> Nat]
    BY <2>2, SumTypes DEF CountInv, SumsTyped
  <2> HIDE DEF s
  <2>4. Usage!Total(s) \in Nat /\ Usage!Total(Ahead) \in Nat
        /\ Usage!Total(s) <= Usage!Total(Ahead)
    BY <2>2, <2>3, TotalMonotone
  <2>5. Usage!Total(Ahead) <= finished + crossed /\ finished + crossed \in Nat
    BY <1>2, CountNats DEF CountInv, NotMore
  <2> QED BY <2>1, <2>4, <2>5
<1> QED BY <1>1, <1>2 DEF CountInv, LightHolds, Plausible, Usage!CountsOnce

(* The counts of usage are right whatever the processes, the failures of the *)
(* stores and the readers do: nothing is shown twice, and nothing is missing *)
(* while one of the stores works (usage_stats.py).                           *)
THEOREM UsageHolds == ReportsSpec => []UsageCounted
<1>1. ReportsInit => CountInv
  BY CountInit DEF ReportsInit
<1>2. CountInv /\ [PoolNext \/ UsageNext]_reportVars => CountInv'
  <2>1. UsageNext => [Usage!Next]_(Usage!vars)
    BY DEF UsageNext
  <2>2. PoolNext \/ UNCHANGED reportVars => [Usage!Next]_(Usage!vars)
    BY DEF PoolNext, reportVars, usageVars, Usage!vars, Usage!stores, Usage!history
  <2> QED BY <2>1, <2>2, CountStep
<1>3. CountInv => UsageCounted
  BY CountsFollow DEF UsageCounted
<1> QED BY <1>1, <1>2, <1>3, PTL DEF ReportsSpec
=============================================================================
