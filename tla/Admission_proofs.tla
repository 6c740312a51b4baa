--------------------------- MODULE Admission_proofs ---------------------------
(* Proofs about the keys of the clients, the settings and the picker, each   *)
(* of any number of processes, and about the composition of the three.       *)
(*                                                                           *)
(* Keys.  While the table and the file have not come apart, at most one      *)
(* process is between its read of the table and its last write, what it will *)
(* write differs from the table in the key of its edit alone (Together), and *)
(* therefore a hash that is not valid has been so since the caches that know *)
(* it were filled.                                                           *)
(* Settings.  Every copy of a value that a process holds, in memory, in a    *)
(* save or in a flush, is as recent as what its place allows (MemOK, JobOK,  *)
(* FlushOK, ModeOK), and time passes only where none of them gets older.     *)
(* Picker.  An account in which a copy of the table differs from it has      *)
(* changed no longer ago than the copy is old and the saves of the whole     *)
(* state have added (PickerInv), unless an older copy has overtaken a newer  *)
(* one.  What the picker makes of its copy is about sequences: the first of  *)
(* a ranking is well when any account of the window is.                      *)
EXTENDS Admission, SequenceTheorems, FiniteSetTheorems, TLAPS

(* What the places of a job say of it.                                       *)
KeyJobOK(j) ==
    /\ j.at \in {"upsert", "replace", "mirror", "done"} => j.keys \in Keys!Keys
    /\ j.at \in {"upsert", "list", "drop"} => j.id \in Ids
    /\ j.kind = "count" => j.id = None
    /\ j.kind # "count" => j.id \in Ids
    /\ j.at = "upsert" => j.kind \notin {"create", "delete", "count"}
    /\ j.at \in {"list", "drop"} => j.kind = "delete"
    /\ j.at = "scan" => j.kind = "count" /\ j.hash \in Keys!Hashes

KeyJobsOK ==
    \A p \in Servers : keyJob[p] # None => KeyJobOK(keyJob[p])

(* The row that an edit of the row r is going to write.                      *)
Fits(n, kind, r, new) ==
    CASE kind = "create" -> r = None /\ new = [hash |-> n, on |-> TRUE]
      [] kind = "regenerate" -> r # None /\ new = [r EXCEPT !.hash = n]
      [] kind = "enable" -> r # None /\ new = [r EXCEPT !.on = TRUE]
      [] kind = "disable" -> r # None /\ new = [r EXCEPT !.on = FALSE]
      [] OTHER -> kind = "delete" /\ new = None

(* While the stores are together one process edits, and what it is going to  *)
(* write is the table but for the key that its edit is about.                *)
Beside(p) ==
    LET j == keyJob[p]
    IN /\ \A i \in Ids \ {j.id} : 
             file[i] = keyTable[i] /\ (j.at \in {"upsert", "replace"} => j.keys[i] = keyTable[i])
       /\ j.at \in {"upsert", "replace"} /\ j.id \in Ids =>
             j.keys[j.id] = keyTable[j.id] \/ Fits(made, j.kind, keyTable[j.id], j.keys[j.id])
       /\ j.at = "mirror" => j.keys = keyTable
       /\ j.at = "done" => file = keyTable

Together ==
    ~astray =>
        /\ \A p, q \in Servers : Keys!Writing(p) /\ Keys!Writing(q) => p = q
        /\ (\A p \in Servers : ~Keys!Writing(p)) => file = keyTable
        /\ \A p \in Servers : Keys!Writing(p) => Beside(p)
        /\ \A h \in Keys!Valid(keyTable) \cup Keys!Valid(file) : keySince[h] = 0

-----------------------------------------------------------------------------
LEMMA ValidType == ASSUME NEW keys \in Keys!Keys PROVE Keys!Valid(keys) \in SUBSET Keys!Hashes
  BY AdmissionAssumption DEF Keys!Valid, Keys!Keys, Keys!Key, Keys!ApiKeysAssumption

LEMMA NoneApart ==
    None \notin Ids /\ None \notin Keys!Hashes /\ None \notin Servers /\ None \notin Keys!Key
      /\ None \notin Keys!Job
  BY AdmissionAssumption DEF Keys!ApiKeysAssumption

(* What a write of the table does.                                           *)
LEMMA SetTableType ==
    ASSUME Keys!TypeOK, NEW keys \in Keys!Keys, Keys!SetTable(keys)
    PROVE  /\ keyTable' = keys /\ keySince' \in [Keys!Hashes -> 0 .. Keys!Far]
           /\ \A h \in Keys!Hashes : keySince'[h] = IF h \in Keys!Valid(keys) THEN 0
              ELSE keySince[h]
<1>1. Keys!Far \in Nat /\ 0 \in 0 .. Keys!Far
  BY AdmissionAssumption DEF Keys!Far, Keys!ApiKeysAssumption
<1> QED BY <1>1 DEF Keys!SetTable, Keys!TypeOK

LEMMA FailType == ASSUME Keys!TypeOK, Keys!Fail \/ Keys!Fine PROVE keyErrors' \in 0 .. MaxErrors
  BY AdmissionAssumption DEF Keys!Fail, Keys!Fine, Keys!TypeOK, Keys!ApiKeysAssumption

LEMMA LoadType ==
    ASSUME Keys!TypeOK, NEW keys \in {keyTable, file} PROVE keys \in Keys!Keys
  BY DEF Keys!TypeOK

(* The keys that an edit has changed.                                        *)
LEMMA EditedType ==
    ASSUME NEW kind \in {"create", "regenerate", "enable", "disable", "update"},
           NEW keys \in Keys!Keys, NEW i \in Ids, kind # "create" => keys[i] # None,
           made \in Nat, kind \in {"create", "regenerate"} => made < MaxHash
    PROVE  /\ Keys!Edited(kind, keys, i) \in Keys!Keys
           /\ \A k \in Ids \ {i} : Keys!Edited(kind, keys, i)[k] = keys[k]
<1>1. kind \in {"create", "regenerate"} => made + 1 \in Keys!Hashes
  BY AdmissionAssumption DEF Keys!Hashes, Keys!ApiKeysAssumption
<1>2. keys[i] # None => keys[i] \in Keys!Key
  BY DEF Keys!Keys, Keys!Key
<1>3. CASE kind = "create"
  BY <1>1, <1>3 DEF Keys!Edited, Keys!Keys, Keys!Key
<1>4. CASE kind = "regenerate"
  BY <1>1, <1>2, <1>4 DEF Keys!Edited, Keys!Keys, Keys!Key
<1>5. CASE kind = "enable" \/ kind = "disable"
  <2>1. [keys[i] EXCEPT !.on = TRUE] \in Keys!Key
    BY <1>2, <1>5 DEF Keys!Key
  <2>2. [keys[i] EXCEPT !.on = FALSE] \in Keys!Key
    BY <1>2, <1>5 DEF Keys!Key
  <2> QED BY <1>5, <2>1, <2>2 DEF Keys!Edited, Keys!Keys, Keys!Key
<1>6. CASE kind = "update"
  BY <1>6 DEF Keys!Edited
<1> QED BY <1>3, <1>4, <1>5, <1>6

-----------------------------------------------------------------------------
(* Types                                                                     *)
KeysTypes == Keys!TypeOK /\ KeyJobsOK

LEMMA KeysTypesStep == KeysTypes /\ [Keys!Next]_Keys!vars => KeysTypes'
<1> SUFFICES ASSUME KeysTypes, [Keys!Next]_Keys!vars PROVE KeysTypes'
  OBVIOUS
<1> USE DEF KeysTypes
<1>0. 0 \in 0 .. Ttl /\ Keys!Far \in Nat /\ made \in Nat /\ MaxHash \in Nat /\ Ttl \in Nat
  BY AdmissionAssumption DEF Keys!ApiKeysAssumption, Keys!TypeOK, Keys!Far
<1>1. ASSUME NEW p \in Servers,
             NEW kind \in {"create", "regenerate", "enable", "disable", "update"},
             NEW i \in Ids, Keys!Edit(p, kind, i)
      PROVE  KeysTypes'
  <2>1. PICK keys \in {keyTable, file} :
          /\ Keys!LoadRaw(keys)
          /\ kind # "create" => keys[i] # None
          /\ kind \in {"create", "regenerate"} => made < MaxHash
          /\ made' = IF kind \in {"create", "regenerate"} THEN made + 1 ELSE made
          /\ keyJob' = [keyJob EXCEPT ![p] = [kind |-> kind, id |-> i, hash |-> None,
                                        keys |-> Keys!Edited(kind, keys, i),
                                        at |-> IF kind = "create" THEN "replace" ELSE "upsert"]]
    BY <1>1 DEF Keys!Edit
  <2>2. Keys!Edited(kind, keys, i) \in Keys!Keys
    BY <2>1, <1>0, EditedType, LoadType
  <2>3. made' \in 0 .. MaxHash /\ keyErrors' \in 0 .. MaxErrors
    BY <2>1, <1>0, FailType DEF Keys!LoadRaw, Keys!TypeOK
  <2>4. keyJob' \in [Servers -> Keys!Job \cup {None}] /\ KeyJobOK(keyJob'[p])
    BY <2>1, <2>2 DEF Keys!TypeOK, KeyJobsOK, Keys!Job, KeyJobOK
  <2>5. astray' \in BOOLEAN
    BY <1>1 DEF Keys!Edit, Keys!TypeOK, Keys!OtherWrites, Keys!Writing
  <2> QED BY <1>1, <2>1, <2>3, <2>4, <2>5 DEF Keys!Edit, Keys!TypeOK, KeyJobsOK, Keys!stores
<1>2. ASSUME NEW p \in Servers, NEW i \in Ids, Keys!Delete(p, i) PROVE KeysTypes'
  <2>1. [keyTable EXCEPT ![i] = None] \in Keys!Keys
    BY DEF Keys!TypeOK, Keys!Keys, Keys!Key
  <2>2. /\ keyTable' \in Keys!Keys /\ keySince' \in [Keys!Hashes -> 0 .. Keys!Far]
           /\ keyErrors' \in 0 .. MaxErrors
    BY <1>2, <2>1, SetTableType, FailType DEF Keys!Delete, Keys!TypeOK
  <2>3. keyJob' \in [Servers -> Keys!Job \cup {None}] /\ KeyJobOK(keyJob'[p])
    BY <1>2 DEF Keys!Delete, Keys!TypeOK, KeyJobsOK, Keys!Job, KeyJobOK
  <2>4. astray' \in BOOLEAN
    BY <1>2 DEF Keys!Delete, Keys!TypeOK, Keys!OtherWrites, Keys!Writing
  <2> QED BY <1>2, <2>2, <2>3, <2>4 DEF Keys!Delete, Keys!TypeOK, KeyJobsOK
<1>3. ASSUME NEW p \in Servers, NEW h \in 1 .. made, Keys!Find(p, h) PROVE KeysTypes'
  <2>1. h \in Keys!Hashes
    BY <1>0 DEF Keys!Hashes, Keys!TypeOK
  <2>2. known' \in [Servers -> [Keys!Hashes -> (0 .. Ttl) \cup {None}]]
        /\ keyErrors' \in 0 .. MaxErrors
    BY <1>0, <1>3, <2>1, FailType DEF Keys!Find, Keys!Remember, Keys!TypeOK
  <2>3. keyJob' \in [Servers -> Keys!Job \cup {None}] /\ (keyJob'[p] # None
        => KeyJobOK(keyJob'[p]))
    BY <1>3, <2>1 DEF Keys!Find, Keys!TypeOK, KeyJobsOK, Keys!Job, KeyJobOK
  <2> QED BY <1>3, <2>2, <2>3 DEF Keys!Find, Keys!TypeOK, KeyJobsOK, Keys!stores
<1>4. ASSUME NEW p \in Servers, Keys!Upsert(p) PROVE KeysTypes'
  <2>1. keyJob[p] \in Keys!Job /\ KeyJobOK(keyJob[p]) /\ keyJob[p].at = "upsert"
    BY <1>4 DEF Keys!Upsert, Keys!At, Keys!TypeOK, KeyJobsOK
  <2>2. [keyTable EXCEPT ![keyJob[p].id] = keyJob[p].keys[keyJob[p].id]] \in Keys!Keys
    BY <2>1 DEF Keys!TypeOK, Keys!Keys, KeyJobOK
  <2>3. /\ keyTable' \in Keys!Keys /\ keySince' \in [Keys!Hashes -> 0 .. Keys!Far]
           /\ keyErrors' \in 0 .. MaxErrors
    BY <1>4, <2>2, SetTableType, FailType DEF Keys!Upsert, Keys!TypeOK
  <2>4. keyJob' \in [Servers -> Keys!Job \cup {None}] /\ KeyJobOK(keyJob'[p])
    BY <1>4, <2>1 DEF Keys!Upsert, Keys!Goto, Keys!TypeOK, KeyJobsOK, Keys!Job, KeyJobOK
  <2> QED BY <1>4, <2>3, <2>4 DEF Keys!Upsert, Keys!Goto, Keys!TypeOK, KeyJobsOK
<1>5. ASSUME NEW p \in Servers, Keys!Replace(p) PROVE KeysTypes'
  <2>1. keyJob[p] \in Keys!Job /\ KeyJobOK(keyJob[p]) /\ keyJob[p].at = "replace"
        /\ keyJob[p].keys \in Keys!Keys
    BY <1>5 DEF Keys!Replace, Keys!At, Keys!TypeOK, KeyJobsOK, KeyJobOK
  <2>2. /\ keyTable' \in Keys!Keys /\ file' \in Keys!Keys
           /\ keySince' \in [Keys!Hashes -> 0 .. Keys!Far]
        /\ keyErrors' \in 0 .. MaxErrors /\ astray' \in BOOLEAN
    BY <1>5, <2>1, SetTableType, FailType DEF Keys!Replace, Keys!TypeOK
  <2>3. ASSUME NEW place \in {"mirror", "done"}, Keys!Goto(p, place)
        PROVE  keyJob' \in [Servers -> Keys!Job \cup {None}] /\ KeyJobOK(keyJob'[p])
    <3>1. [keyJob[p] EXCEPT !.at = place] \in Keys!Job
          /\ KeyJobOK([keyJob[p] EXCEPT !.at = place])
      BY <2>1 DEF Keys!Job, KeyJobOK
    <3> QED BY <2>3, <3>1 DEF Keys!Goto, Keys!TypeOK
  <2>4. Keys!Goto(p, "mirror") \/ Keys!Goto(p, "done")
    BY <1>5 DEF Keys!Replace
  <2> QED BY <1>5, <2>2, <2>3, <2>4 DEF Keys!Replace, Keys!Goto, Keys!TypeOK, KeyJobsOK
<1>6. ASSUME NEW p \in Servers, Keys!Mirror(p) PROVE KeysTypes'
  <2>1. keyJob[p] \in Keys!Job /\ KeyJobOK(keyJob[p]) /\ keyJob[p].at = "mirror"
        /\ keyJob[p].keys \in Keys!Keys
    BY <1>6 DEF Keys!Mirror, Keys!At, Keys!TypeOK, KeyJobsOK, KeyJobOK
  <2>2. file' \in Keys!Keys /\ keyErrors' \in 0 .. MaxErrors /\ astray' \in BOOLEAN
    BY <1>6, <2>1, FailType DEF Keys!Mirror, Keys!TypeOK
  <2>3. keyJob' \in [Servers -> Keys!Job \cup {None}] /\ KeyJobOK(keyJob'[p])
    BY <1>6, <2>1 DEF Keys!Mirror, Keys!Goto, Keys!TypeOK, KeyJobsOK, Keys!Job, KeyJobOK
  <2> QED BY <1>6, <2>2, <2>3 DEF Keys!Mirror, Keys!Goto, Keys!TypeOK, KeyJobsOK
<1>7. ASSUME NEW p \in Servers, Keys!Done(p) PROVE KeysTypes'
  BY <1>7 DEF Keys!Done, Keys!Unlock, Keys!TypeOK, KeyJobsOK, Keys!stores
<1>8. ASSUME NEW p \in Servers, Keys!List(p) PROVE KeysTypes'
  <2>1. keyJob[p] \in Keys!Job /\ KeyJobOK(keyJob[p]) /\ keyJob[p].at = "list"
    BY <1>8 DEF Keys!List, Keys!At, Keys!TypeOK, KeyJobsOK
  <2>2. keyErrors' \in 0 .. MaxErrors
    BY <1>8, FailType DEF Keys!List
  <2>3. CASE keyJob' = [keyJob EXCEPT ![p].at = "replace", ![p].keys = keyTable]
    <3>1. [keyJob[p] EXCEPT !.at = "replace", !.keys = keyTable] \in Keys!Job
      BY <2>1 DEF Keys!Job, Keys!TypeOK
    <3>2. KeyJobOK([keyJob[p] EXCEPT !.at = "replace", !.keys = keyTable])
      BY <2>1 DEF Keys!Job, KeyJobOK, Keys!TypeOK
    <3> QED BY <1>8, <2>2, <2>3, <3>1, <3>2 DEF Keys!List, Keys!TypeOK, KeyJobsOK, Keys!stores
  <2>4. CASE Keys!Goto(p, "drop")
    <3>1. keyJob' \in [Servers -> Keys!Job \cup {None}] /\ KeyJobOK(keyJob'[p])
      BY <2>1, <2>4 DEF Keys!Goto, Keys!TypeOK, KeyJobsOK, Keys!Job, KeyJobOK
    <3> QED BY <1>8, <2>2, <2>4, <3>1 DEF Keys!List, Keys!Goto, Keys!TypeOK, KeyJobsOK,
            Keys!stores
  <2> QED BY <1>8, <2>3, <2>4 DEF Keys!List
<1>9. ASSUME NEW p \in Servers, Keys!Drop(p) PROVE KeysTypes'
  <2>1. keyJob[p] \in Keys!Job /\ KeyJobOK(keyJob[p]) /\ keyJob[p].at = "drop"
        /\ keyJob[p].id \in Ids
    BY <1>9 DEF Keys!Drop, Keys!At, Keys!TypeOK, KeyJobsOK, KeyJobOK
  <2>2. PICK keys \in {keyTable, file} :
          /\ Keys!LoadRaw(keys)
          /\ IF keys[keyJob[p].id] # None
             THEN /\ keyJob' = [keyJob EXCEPT ![p].at = "replace",
                                        ![p].keys = [keys EXCEPT ![keyJob[p].id] = None]]
                  /\ UNCHANGED astray
             ELSE Keys!Unlock(p) /\ astray' = (astray \/ file # keyTable)
    BY <1>9 DEF Keys!Drop
  <2>3. [keys EXCEPT ![keyJob[p].id] = None] \in Keys!Keys
    BY <2>1, LoadType DEF Keys!Keys, Keys!Key
  <2>4. keyErrors' \in 0 .. MaxErrors /\ astray' \in BOOLEAN
    BY <2>2, FailType DEF Keys!LoadRaw, Keys!TypeOK
  <2>5. keyJob' \in [Servers -> Keys!Job \cup {None}] /\ (keyJob'[p] # None
        => KeyJobOK(keyJob'[p]))
    BY <2>1, <2>2, <2>3, SMTT(60) DEF Keys!Unlock, Keys!TypeOK, KeyJobsOK, Keys!Job, KeyJobOK
  <2> QED BY <1>9, <2>2, <2>4, <2>5 DEF Keys!Drop, Keys!Unlock, Keys!TypeOK, KeyJobsOK,
          Keys!stores
<1>10. ASSUME NEW p \in Servers, Keys!Scan(p) PROVE KeysTypes'
  <2>1. keyJob[p] \in Keys!Job /\ KeyJobOK(keyJob[p]) /\ keyJob[p].at = "scan"
        /\ keyJob[p].hash \in Keys!Hashes
    BY <1>10 DEF Keys!Scan, Keys!At, Keys!TypeOK, KeyJobsOK, KeyJobOK
  <2>2. PICK keys \in {keyTable, file} :
          /\ Keys!LoadRaw(keys)
          /\ IF keyJob[p].hash \in Keys!Valid(keys)
             THEN /\ Keys!Remember(p, keyJob[p].hash)
                  /\ \/ Keys!Unlock(p) /\ UNCHANGED astray
                     \/ /\ keyJob' = [keyJob EXCEPT ![p].keys = keys, ![p].at = "replace"]
                        /\ astray' = (astray \/ Keys!OtherWrites(p))
             ELSE Keys!Unlock(p) /\ UNCHANGED <<known, astray>>
    BY <1>10 DEF Keys!Scan
  <2>3. keyErrors' \in 0 .. MaxErrors /\ astray' \in BOOLEAN
    BY <2>2, FailType DEF Keys!LoadRaw, Keys!TypeOK, Keys!OtherWrites, Keys!Writing
  <2>4. known' \in [Servers -> [Keys!Hashes -> (0 .. Ttl) \cup {None}]]
    BY <1>0, <2>1, <2>2 DEF Keys!Remember, Keys!TypeOK
  <2>k. keys \in Keys!Keys
    BY <2>2, LoadType
  <2>l. /\ [keyJob[p] EXCEPT !.keys = keys, !.at = "replace"] \in Keys!Job
        /\ KeyJobOK([keyJob[p] EXCEPT !.keys = keys, !.at = "replace"])
    BY <2>1, <2>k DEF Keys!Job, KeyJobOK
  <2>5. keyJob' \in [Servers -> Keys!Job \cup {None}] /\ (keyJob'[p] # None
        => KeyJobOK(keyJob'[p]))
    BY <2>2, <2>l DEF Keys!Unlock, Keys!TypeOK
  <2> QED BY <1>10, <2>2, <2>3, <2>4, <2>5 DEF Keys!Scan, Keys!Unlock, Keys!TypeOK, KeyJobsOK,
          Keys!stores
<1>11. ASSUME NEW p \in Servers, Keys!Crash(p) PROVE KeysTypes'
  <2>1. keyErrors' \in 0 .. MaxErrors /\ astray' \in BOOLEAN
    BY <1>11, FailType DEF Keys!Crash, Keys!TypeOK, Keys!Writing
  <2> QED BY <1>11, <2>1 DEF Keys!Crash, Keys!Unlock, Keys!TypeOK, KeyJobsOK, Keys!stores
<1>12. CASE Keys!Tick
  <2>1. \A k \in (0 .. Ttl) \cup {None} : Keys!CacheGet(k) \in (0 .. Ttl) \cup {None}
    BY <1>0 DEF Keys!CacheGet
  <2>2. known' \in [Servers -> [Keys!Hashes -> (0 .. Ttl) \cup {None}]]
    BY <1>12, <2>1 DEF Keys!Tick, Keys!TypeOK
  <2>3. keySince' \in [Keys!Hashes -> 0 .. Keys!Far]
    BY <1>12, <1>0 DEF Keys!Tick, Keys!TypeOK
  <2> QED BY <1>12, <2>2, <2>3 DEF Keys!Tick, Keys!TypeOK, KeyJobsOK
<1>13. CASE UNCHANGED Keys!vars
  BY <1>13 DEF Keys!vars, Keys!stores, Keys!TypeOK, KeyJobsOK
<1> QED BY <1>1, <1>2, <1>3, <1>4, <1>5, <1>6, <1>7, <1>8, <1>9, <1>10, <1>11, <1>12, <1>13
        DEF Keys!Next, Keys!Step
-----------------------------------------------------------------------------
(* The stores                                                                *)
(* What a step may do that is not one of the process that writes: it leaves  *)
(* the stores, the secrets and every write that is under way.                *)
LEMMA SameWriters ==
    ASSUME Together, ~astray, UNCHANGED <<keyTable, file, keySince, made>>,
           \A q \in Servers : (Keys!Writing(q)' <=> Keys!Writing(q)) /\ (Keys!Writing(q)
             => keyJob'[q] = keyJob[q])
    PROVE  Together'
<1>1. \A q \in Servers : Keys!Writing(q) => Beside(q)'
  BY DEF Together, Beside
<1> QED BY <1>1 DEF Together, Keys!Valid

(* A step of the only process that writes, or that begins to write.          *)
LEMMA EditorStep ==
    ASSUME NEW p \in Servers, \A q \in Servers \ {p} : ~Keys!Writing(q)',
           Keys!Writing(p)' => Beside(p)', ~Keys!Writing(p)' => file' = keyTable',
           \A h \in Keys!Valid(keyTable)' \cup Keys!Valid(file)' : keySince'[h] = 0
    PROVE  Together'
  BY DEF Together

LEMMA OnlyWriter ==
    ASSUME Together, ~astray, NEW p \in Servers, Keys!Writing(p),
           \A q \in Servers \ {p} : keyJob'[q] = keyJob[q]
    PROVE  Beside(p) /\ \A q \in Servers \ {p} : ~Keys!Writing(q)'
  BY DEF Together, Keys!Writing

(* A process that goes on to write is alone if the stores stay together.     *)
LEMMA NobodyWrites ==
    ASSUME Together, ~astray, NEW p \in Servers, ~Keys!Writing(p), ~Keys!OtherWrites(p),
           \A q \in Servers \ {p} : keyJob'[q] = keyJob[q]
    PROVE  file = keyTable /\ \A q \in Servers \ {p} : ~Keys!Writing(q)'
  BY DEF Together, Keys!Writing, Keys!OtherWrites

(* After a write of the table, what both stores hold is valid now.           *)
LEMMA WriteNow ==
    ASSUME Keys!TypeOK, Together, ~astray, NEW keys \in Keys!Keys, Keys!SetTable(keys),
           UNCHANGED file
    PROVE  \A h \in Keys!Valid(keyTable)' \cup Keys!Valid(file)' : keySince'[h] = 0
<1>1. Keys!Valid(keys) \in SUBSET Keys!Hashes /\ Keys!Valid(file) \in SUBSET Keys!Hashes
  BY ValidType DEF Keys!TypeOK
<1>2. Keys!Valid(keyTable)' = Keys!Valid(keys) /\ Keys!Valid(file)' = Keys!Valid(file)
  BY SetTableType DEF Keys!Valid
<1> QED BY <1>1, <1>2, SetTableType DEF Together

LEMMA TogetherStep == KeysTypes /\ Together /\ [Keys!Next]_Keys!vars => Together'
<1> SUFFICES ASSUME KeysTypes, Together, Keys!Next, ~astray' PROVE Together'
  <2>1. UNCHANGED Keys!vars /\ Together => Together'
    BY DEF Keys!vars, Keys!stores, Together, Keys!Writing, Beside, Keys!Valid
  <2>2. astray' => Together'
    BY DEF Together
  <2> QED BY <2>1, <2>2
<1> USE DEF KeysTypes
<1>0. ~astray /\ Keys!Step
  BY DEF Keys!Next
<1>a. /\ (\A p \in Servers : ~Keys!Writing(p)) => file = keyTable
      /\ \A h \in Keys!Valid(keyTable) \cup Keys!Valid(file) : keySince[h] = 0
  BY <1>0 DEF Together
<1>b. \A p \in Servers : keyJob[p] # None => keyJob[p] \in Keys!Job /\ KeyJobOK(keyJob[p])
  BY DEF Keys!TypeOK, KeyJobsOK
<1>1. ASSUME NEW p \in Servers,
             NEW kind \in {"create", "regenerate", "enable", "disable", "update"},
             NEW i \in Ids, Keys!Edit(p, kind, i)
      PROVE  Together'
  <2>1. PICK keys \in {keyTable, file} :
          /\ Keys!LoadRaw(keys)
          /\ IF kind = "create" THEN keys[i] = None /\ keyTable[i] = None /\ file[i] = None
                                ELSE keys[i] # None
          /\ kind \in {"create", "regenerate"} => made < MaxHash
          /\ made' = IF kind \in {"create", "regenerate"} THEN made + 1 ELSE made
          /\ keyJob' = [keyJob EXCEPT ![p] = [kind |-> kind, id |-> i, hash |-> None,
                                        keys |-> Keys!Edited(kind, keys, i),
                                        at |-> IF kind = "create" THEN "replace" ELSE "upsert"]]
    BY <1>1 DEF Keys!Edit
  <2>2. keyJob[p] = None /\ UNCHANGED <<keyTable, file, keySince, known>> /\ ~Keys!OtherWrites(p)
    BY <1>1 DEF Keys!Edit, Keys!stores
  <2>3. \A q \in Servers \ {p} : keyJob'[q] = keyJob[q]
    BY <2>1 DEF Keys!TypeOK
  <2>4. /\ file = keyTable /\ keys = keyTable
        /\ \A q \in Servers \ {p} : ~Keys!Writing(q)'
    BY <1>0, <2>1, <2>2, <2>3, NobodyWrites DEF Keys!Writing
  <2>5. PICK new : new = Keys!Edited(kind, keyTable, i)
    OBVIOUS
  <2>6. keyJob'[p] = [kind |-> kind, id |-> i, hash |-> None, keys |-> new,
                   at |-> IF kind = "create" THEN "replace" ELSE "upsert"]
    BY <2>1, <2>4, <2>5 DEF Keys!TypeOK
  <2>7. \A k \in Ids \ {i} : new[k] = keyTable[k]
    BY <2>1, <2>4, <2>5, EditedType DEF Keys!TypeOK
  <2>8. new[i] = keyTable[i] \/ Fits(made', kind, keyTable[i], new[i])
    <3>1. keyTable \in [Ids -> Keys!Key \cup {None}] /\ (kind # "create" => keyTable[i] # None)
      BY <2>1, <2>4 DEF Keys!TypeOK, Keys!Keys
    <3>2. CASE kind = "create"
      BY <2>1, <2>4, <2>5, <3>1, <3>2 DEF Keys!Edited, Fits
    <3>3. CASE kind = "regenerate"
      BY <2>1, <2>4, <2>5, <3>1, <3>3 DEF Keys!Edited, Fits, Keys!Key
    <3>4. CASE kind \in {"enable", "disable", "update"}
      BY <2>1, <2>4, <2>5, <3>1, <3>4 DEF Keys!Edited, Fits
    <3> QED BY <3>2, <3>3, <3>4
  <2>9. Beside(p)'
    BY <2>2, <2>4, <2>6, <2>7, <2>8 DEF Beside
  <2>10. Keys!Writing(p)'
    <3>1. new \in Keys!Keys
      BY <2>1, <2>4, <2>5, EditedType DEF Keys!TypeOK
    <3>2. keyJob'[p] \in Keys!Job
      BY <2>6, <3>1 DEF Keys!Job
    <3> QED BY <2>6, <3>2, NoneApart DEF Keys!Writing
  <2> QED BY <1>a, <2>2, <2>4, <2>9, <2>10, EditorStep DEF Keys!Valid
<1>2. ASSUME NEW p \in Servers, NEW i \in Ids, Keys!Delete(p, i) PROVE Together'
  <2>1. keyJob[p] = None /\ UNCHANGED <<file, made>> /\ ~Keys!OtherWrites(p)
    BY <1>2 DEF Keys!Delete
  <2>2. PICK place \in {"list", "drop"} :
          /\ keyJob' = [keyJob EXCEPT ![p] = [kind |-> "delete", id |-> i, hash |-> None,
             keys |-> None,
                                        at |-> place]]
          /\ \/ Keys!SetTable([keyTable EXCEPT ![i] = None])
             \/ UNCHANGED <<keyTable, keySince>>
    BY <1>2 DEF Keys!Delete
  <2>3. \A q \in Servers \ {p} : keyJob'[q] = keyJob[q]
    BY <2>2 DEF Keys!TypeOK
  <2>4. file = keyTable /\ \A q \in Servers \ {p} : ~Keys!Writing(q)'
    BY <1>0, <2>1, <2>3, NobodyWrites DEF Keys!Writing
  <2>5. keyJob'[p] = [kind |-> "delete", id |-> i, hash |-> None, keys |-> None, at |-> place]
    BY <2>2 DEF Keys!TypeOK
  <2>6. \A k \in Ids \ {i} : keyTable'[k] = keyTable[k]
    BY <2>2 DEF Keys!SetTable, Keys!TypeOK, Keys!Keys
  <2>7. Beside(p)'
    BY <2>1, <2>4, <2>5, <2>6 DEF Beside
  <2>8. Keys!Writing(p)'
    <3>1. [kind |-> "delete", id |-> i, hash |-> None, keys |-> None, at |-> place] \in Keys!Job
      BY DEF Keys!Job
    <3> QED BY <2>5, <3>1, NoneApart DEF Keys!Writing
  <2>9. [keyTable EXCEPT ![i] = None] \in Keys!Keys
    BY DEF Keys!TypeOK, Keys!Keys
  <2>10. \A h \in Keys!Valid(keyTable)' \cup Keys!Valid(file)' : keySince'[h] = 0
    BY <1>0, <1>a, <2>1, <2>2, <2>9, WriteNow DEF Keys!Valid
  <2> QED BY <2>4, <2>7, <2>8, <2>10, EditorStep
<1>3. ASSUME NEW p \in Servers, NEW h \in 1 .. made, Keys!Find(p, h) PROVE Together'
  <2>1. keyJob[p] = None /\ UNCHANGED <<keyTable, file, keySince, made>>
    BY <1>3 DEF Keys!Find, Keys!stores
  <2>2. \A q \in Servers \ {p} : keyJob'[q] = keyJob[q]
    BY <1>3 DEF Keys!Find, Keys!TypeOK
  <2>3. keyJob'[p] = None \/ keyJob'[p].at = "scan"
    BY <1>3 DEF Keys!Find, Keys!TypeOK
  <2> QED BY <1>0, <2>1, <2>2, <2>3, SameWriters DEF Keys!Writing
<1>4. ASSUME NEW p \in Servers, Keys!Upsert(p) PROVE Together'
  <2>1. keyJob[p] \in Keys!Job /\ KeyJobOK(keyJob[p]) /\ keyJob[p].at = "upsert"
        /\ Keys!Writing(p)
    BY <1>4, <1>b DEF Keys!Upsert, Keys!At, Keys!Writing
  <2>2. keyJob[p].id \in Ids /\ keyJob[p].keys \in Keys!Keys
    BY <2>1 DEF KeyJobOK
  <2>3. keyJob' = [keyJob EXCEPT ![p].at = "replace"] /\ UNCHANGED <<file, made>>
    BY <1>4 DEF Keys!Upsert, Keys!Goto
  <2>4. keyJob'[p] = [keyJob[p] EXCEPT !.at = "replace"]
        /\ \A q \in Servers \ {p} : keyJob'[q] = keyJob[q]
    BY <2>3 DEF Keys!TypeOK
  <2>5. Beside(p) /\ \A q \in Servers \ {p} : ~Keys!Writing(q)'
    BY <1>0, <2>1, <2>4, OnlyWriter
  <2>6. [keyTable EXCEPT ![keyJob[p].id] = keyJob[p].keys[keyJob[p].id]] \in Keys!Keys
    BY <2>2 DEF Keys!TypeOK, Keys!Keys
  <2>7. \A h \in Keys!Valid(keyTable)' \cup Keys!Valid(file)' : keySince'[h] = 0
    BY <1>0, <1>4, <1>a, <2>3, <2>6, WriteNow DEF Keys!Upsert, Keys!Valid
  <2>8. /\ \A k \in Ids \ {keyJob[p].id} : keyTable'[k] = keyTable[k]
        /\ keyTable'[keyJob[p].id] \in {keyTable[keyJob[p].id], keyJob[p].keys[keyJob[p].id]}
    BY <1>4, <2>2 DEF Keys!Upsert, Keys!SetTable, Keys!TypeOK, Keys!Keys
  <2>9. /\ keyJob'[p].keys = keyJob[p].keys /\ keyJob'[p].id = keyJob[p].id
           /\ keyJob'[p].kind = keyJob[p].kind
        /\ keyJob'[p].at = "replace" /\ keyJob'[p] \in Keys!Job
    BY <2>1, <2>4 DEF Keys!Job
  <2>10. Beside(p)'
    BY <2>1, <2>2, <2>3, <2>5, <2>8, <2>9 DEF Beside
  <2>11. Keys!Writing(p)'
    BY <2>9, NoneApart DEF Keys!Writing
  <2> QED BY <2>5, <2>7, <2>10, <2>11, EditorStep
<1>5. ASSUME NEW p \in Servers, Keys!Replace(p) PROVE Together'
  <2>1. keyJob[p] \in Keys!Job /\ KeyJobOK(keyJob[p]) /\ keyJob[p].at = "replace"
        /\ Keys!Writing(p)
    BY <1>5, <1>b DEF Keys!Replace, Keys!At, Keys!Writing
  <2>2. keyJob[p].keys \in Keys!Keys
    BY <2>1 DEF KeyJobOK
  <2>3. Keys!SetTable(keyJob[p].keys) /\ keyJob' = [keyJob EXCEPT ![p].at = "mirror"]
        /\ UNCHANGED <<file, made>>
    BY <1>5 DEF Keys!Replace, Keys!Goto
  <2>4. keyJob'[p] = [keyJob[p] EXCEPT !.at = "mirror"]
        /\ \A q \in Servers \ {p} : keyJob'[q] = keyJob[q]
    BY <2>3 DEF Keys!TypeOK
  <2>5. Beside(p) /\ \A q \in Servers \ {p} : ~Keys!Writing(q)'
    BY <1>0, <2>1, <2>4, OnlyWriter
  <2>6. \A h \in Keys!Valid(keyTable)' \cup Keys!Valid(file)' : keySince'[h] = 0
    BY <1>0, <2>2, <2>3, WriteNow
  <2>7. keyTable' = keyJob[p].keys
    BY <2>3 DEF Keys!SetTable
  <2>8. /\ keyJob'[p].keys = keyJob[p].keys /\ keyJob'[p].id = keyJob[p].id
        /\ keyJob'[p].at = "mirror" /\ keyJob'[p] \in Keys!Job
    BY <2>1, <2>4 DEF Keys!Job
  <2>9. \A k \in Ids \ {keyJob[p].id} : file[k] = keyJob[p].keys[k]
    BY <2>1, <2>5 DEF Beside
  <2>10. Beside(p)'
    BY <2>3, <2>7, <2>8, <2>9 DEF Beside
  <2>11. Keys!Writing(p)'
    BY <2>8, NoneApart DEF Keys!Writing
  <2> QED BY <2>5, <2>6, <2>10, <2>11, EditorStep
<1>6. ASSUME NEW p \in Servers, Keys!Mirror(p) PROVE Together'
  <2>1. keyJob[p] \in Keys!Job /\ keyJob[p].at = "mirror" /\ Keys!Writing(p)
    BY <1>6, <1>b DEF Keys!Mirror, Keys!At, Keys!Writing
  <2>2. /\ file' = keyJob[p].keys /\ keyJob' = [keyJob EXCEPT ![p].at = "done"]
        /\ UNCHANGED <<keyTable, keySince, made>>
    BY <1>6 DEF Keys!Mirror, Keys!Goto
  <2>3. keyJob'[p] = [keyJob[p] EXCEPT !.at = "done"]
        /\ \A q \in Servers \ {p} : keyJob'[q] = keyJob[q]
    BY <2>2 DEF Keys!TypeOK
  <2>4. Beside(p) /\ \A q \in Servers \ {p} : ~Keys!Writing(q)'
    BY <1>0, <2>1, <2>3, OnlyWriter
  <2>5. file' = keyTable' /\ keyJob[p].keys = keyTable'
    BY <2>1, <2>2, <2>4 DEF Beside
  <2>6. /\ keyJob'[p].keys = keyJob[p].keys /\ keyJob'[p].at = "done" /\ keyJob'[p] \in Keys!Job
    BY <2>1, <2>3 DEF Keys!Job
  <2>7. Beside(p)' /\ Keys!Writing(p)'
    BY <2>5, <2>6, NoneApart DEF Beside, Keys!Writing
  <2> QED BY <1>a, <2>2, <2>4, <2>5, <2>7, EditorStep DEF Keys!Valid
<1>7. ASSUME NEW p \in Servers, Keys!Done(p) PROVE Together'
  <2>1. keyJob[p].at = "done" /\ Keys!Writing(p)
    BY <1>7 DEF Keys!Done, Keys!At, Keys!Writing
  <2>2. keyJob' = [keyJob EXCEPT ![p] = None] /\ UNCHANGED <<keyTable, file, keySince, made>>
    BY <1>7 DEF Keys!Done, Keys!Unlock, Keys!stores
  <2>3. keyJob'[p] = None /\ \A q \in Servers \ {p} : keyJob'[q] = keyJob[q]
    BY <2>2 DEF Keys!TypeOK
  <2>4. Beside(p) /\ \A q \in Servers \ {p} : ~Keys!Writing(q)'
    BY <1>0, <2>1, <2>3, OnlyWriter
  <2> QED BY <1>a, <2>1, <2>2, <2>3, <2>4, EditorStep DEF Keys!Valid, Beside, Keys!Writing
<1>8. ASSUME NEW p \in Servers, Keys!List(p) PROVE Together'
  <2>1. keyJob[p] \in Keys!Job /\ KeyJobOK(keyJob[p]) /\ keyJob[p].at = "list" /\ Keys!Writing(p)
    BY <1>8, <1>b DEF Keys!List, Keys!At, Keys!Writing
  <2>2. UNCHANGED <<keyTable, file, keySince, made>>
    BY <1>8 DEF Keys!List, Keys!stores
  <2>3. \/ keyJob' = [keyJob EXCEPT ![p].at = "replace", ![p].keys = keyTable]
        \/ keyJob' = [keyJob EXCEPT ![p].at = "drop"]
    BY <1>8 DEF Keys!List, Keys!Goto
  <2>4. /\ \/ keyJob'[p] = [keyJob[p] EXCEPT !.at = "replace", !.keys = keyTable]
           \/ keyJob'[p] = [keyJob[p] EXCEPT !.at = "drop"]
        /\ \A q \in Servers \ {p} : keyJob'[q] = keyJob[q]
    BY <2>3 DEF Keys!TypeOK
  <2>5. Beside(p) /\ \A q \in Servers \ {p} : ~Keys!Writing(q)'
    BY <1>0, <2>1, <2>4, OnlyWriter
  <2>6. /\ keyJob'[p] \in Keys!Job /\ keyJob'[p].id = keyJob[p].id
        /\ \/ keyJob'[p].at = "replace" /\ keyJob'[p].keys = keyTable
           \/ keyJob'[p].at = "drop" /\ keyJob'[p].keys = keyJob[p].keys
    <3>1. keyTable \in Keys!Keys \cup {None}
      BY DEF Keys!TypeOK
    <3> QED BY <2>1, <2>4, <3>1 DEF Keys!Job
  <2>7. Beside(p)'
    BY <2>2, <2>5, <2>6 DEF Beside
  <2>8. Keys!Writing(p)'
    BY <2>6, NoneApart DEF Keys!Writing
  <2> QED BY <1>a, <2>2, <2>5, <2>7, <2>8, EditorStep DEF Keys!Valid
<1>9. ASSUME NEW p \in Servers, Keys!Drop(p) PROVE Together'
  <2>1. /\ keyJob[p] \in Keys!Job /\ KeyJobOK(keyJob[p]) /\ keyJob[p].at = "drop"
           /\ Keys!Writing(p)
        /\ keyJob[p].id \in Ids /\ keyJob[p].kind = "delete"
    BY <1>9, <1>b DEF Keys!Drop, Keys!At, Keys!Writing, KeyJobOK
  <2>2. UNCHANGED <<keyTable, file, keySince, made>>
    BY <1>9 DEF Keys!Drop, Keys!stores
  <2>3. PICK keys \in {keyTable, file} :
          \/ keyJob' = [keyJob EXCEPT ![p].at = "replace",
                                ![p].keys = [keys EXCEPT ![keyJob[p].id] = None]]
          \/ Keys!Unlock(p) /\ file = keyTable
    BY <1>9 DEF Keys!Drop
  <2>4. \A q \in Servers \ {p} : keyJob'[q] = keyJob[q]
    BY <2>3 DEF Keys!Unlock, Keys!TypeOK
  <2>5. Beside(p) /\ \A q \in Servers \ {p} : ~Keys!Writing(q)'
    BY <1>0, <2>1, <2>4, OnlyWriter
  <2>6. PICK new : new = [keys EXCEPT ![keyJob[p].id] = None]
    OBVIOUS
  <2>7. /\ new \in Keys!Keys /\ new[keyJob[p].id] = None
        /\ \A k \in Ids \ {keyJob[p].id} : new[k] = keyTable[k]
    BY <2>1, <2>5, <2>6 DEF Keys!TypeOK, Keys!Keys, Beside
  <2>8. CASE keyJob' = [keyJob EXCEPT ![p].at = "replace", ![p].keys = new]
    <3>1. keyJob'[p] = [keyJob[p] EXCEPT !.at = "replace", !.keys = new]
      BY <2>8 DEF Keys!TypeOK
    <3>2. /\ keyJob'[p] \in Keys!Job /\ keyJob'[p].id = keyJob[p].id /\ keyJob'[p].at = "replace"
          /\ keyJob'[p].keys = new /\ keyJob'[p].kind = "delete"
      BY <2>1, <2>7, <3>1 DEF Keys!Job
    <3>3. Beside(p)'
      BY <2>1, <2>2, <2>5, <2>7, <3>2 DEF Beside, Fits
    <3>4. Keys!Writing(p)'
      BY <3>2, NoneApart DEF Keys!Writing
    <3> QED BY <1>a, <2>2, <2>5, <3>3, <3>4, EditorStep DEF Keys!Valid
  <2>9. CASE Keys!Unlock(p) /\ file = keyTable
    <3>1. ~Keys!Writing(p)'
      BY <2>9 DEF Keys!Unlock, Keys!Writing, Keys!TypeOK
    <3> QED BY <1>a, <2>2, <2>5, <2>9, <3>1, EditorStep DEF Keys!Valid
  <2> QED BY <2>3, <2>6, <2>8, <2>9
<1>10. ASSUME NEW p \in Servers, Keys!Scan(p) PROVE Together'
  <2>1. /\ keyJob[p] \in Keys!Job /\ KeyJobOK(keyJob[p]) /\ keyJob[p].at = "scan"
           /\ ~Keys!Writing(p)
        /\ keyJob[p].kind = "count" /\ keyJob[p].id = None
    BY <1>10, <1>b DEF Keys!Scan, Keys!At, Keys!Writing, KeyJobOK
  <2>2. UNCHANGED <<keyTable, file, keySince, made>>
    BY <1>10 DEF Keys!Scan, Keys!stores
  <2>3. PICK keys \in {keyTable, file} :
          \/ Keys!Unlock(p)
          \/ keyJob' = [keyJob EXCEPT ![p].keys = keys,
             ![p].at = "replace"] /\ ~Keys!OtherWrites(p)
    BY <1>10 DEF Keys!Scan
  <2>4. \A q \in Servers \ {p} : keyJob'[q] = keyJob[q]
    BY <2>3 DEF Keys!Unlock, Keys!TypeOK
  <2>5. CASE Keys!Unlock(p)
    <3>1. ~Keys!Writing(p)'
      BY <2>5 DEF Keys!Unlock, Keys!Writing, Keys!TypeOK
    <3> QED BY <1>0, <2>1, <2>2, <2>4, <3>1, SameWriters DEF Keys!Writing
  <2>6. CASE keyJob' = [keyJob EXCEPT ![p].keys = keys,
        ![p].at = "replace"] /\ ~Keys!OtherWrites(p)
    <3>1. file = keyTable /\ keys = keyTable /\ \A q \in Servers \ {p} : ~Keys!Writing(q)'
      BY <1>0, <2>1, <2>4, <2>6, NobodyWrites
    <3>2. keyJob'[p] = [keyJob[p] EXCEPT !.keys = keys, !.at = "replace"]
      BY <2>6 DEF Keys!TypeOK
    <3>3. keyJob'[p] \in Keys!Job /\ keyJob'[p].at = "replace" /\ keyJob'[p].keys = keyTable
          /\ keyJob'[p].id = None
      BY <2>1, <3>1, <3>2 DEF Keys!Job, Keys!TypeOK
    <3>4. Beside(p)'
      BY <2>2, <3>1, <3>3, NoneApart DEF Beside
    <3>5. Keys!Writing(p)'
      BY <3>3, NoneApart DEF Keys!Writing
    <3> QED BY <1>a, <2>2, <3>1, <3>4, <3>5, EditorStep DEF Keys!Valid
  <2> QED BY <2>3, <2>5, <2>6
<1>11. ASSUME NEW p \in Servers, Keys!Crash(p) PROVE Together'
  <2>1. ~Keys!Writing(p) /\ UNCHANGED <<keyTable, file, keySince,
        made>> /\ keyJob' = [keyJob EXCEPT ![p] = None]
    BY <1>11 DEF Keys!Crash, Keys!Unlock, Keys!stores
  <2>2. ~Keys!Writing(p)' /\ \A q \in Servers \ {p} : keyJob'[q] = keyJob[q]
    BY <2>1 DEF Keys!Writing, Keys!TypeOK
  <2> QED BY <1>0, <2>1, <2>2, SameWriters DEF Keys!Writing
<1>12. CASE Keys!Tick
  <2>1. \A p \in Servers : ~Keys!Writing(p) /\ ~Keys!Writing(p)'
    BY <1>12 DEF Keys!Tick, Keys!Writing
  <2>2. file' = keyTable' /\ keyTable' = keyTable /\ file' = keyTable
    BY <1>12, <1>a, <2>1 DEF Keys!Tick
  <2>3. Keys!Valid(keyTable) \in SUBSET Keys!Hashes
    BY ValidType DEF Keys!TypeOK
  <2>4. \A h \in Keys!Valid(keyTable)' \cup Keys!Valid(file)' : keySince'[h] = 0
    BY <1>12, <2>2, <2>3 DEF Keys!Tick, Keys!Valid
  <2> QED BY <2>1, <2>2, <2>4 DEF Together
<1> QED
  BY <1>0, <1>1, <1>2, <1>3, <1>4, <1>5, <1>6, <1>7, <1>8, <1>9, <1>10, <1>11, <1>12 DEF Keys!Step

-----------------------------------------------------------------------------
(* The caches                                                                *)
LEMMA ExpiresStep == KeysTypes /\ Together /\ Keys!KeyExpires /\ [Keys!Next]_Keys!vars
  => Keys!KeyExpires'
<1> SUFFICES ASSUME KeysTypes, Together, Keys!KeyExpires, Keys!Next, ~astray'
    PROVE Keys!KeyExpires'
  BY DEF Keys!KeyExpires, Keys!vars, Keys!stores
<1> USE DEF KeysTypes
<1>0. ~astray /\ Keys!Step
  BY DEF Keys!Next
<1>a. /\ Ttl \in Nat /\ Keys!Far = Ttl + 1 /\ Keys!Far \in Nat
      /\ \A h \in Keys!Hashes : keySince[h] \in 0 .. Keys!Far
      /\ \A p \in Servers, h \in Keys!Hashes : known[p][h] \in (0 .. Ttl) \cup {None}
  BY AdmissionAssumption DEF Keys!ApiKeysAssumption, Keys!TypeOK, Keys!Far
<1>b. \A p \in Servers, h \in Keys!Hashes : known[p][h] # None => keySince[h] <= known[p][h]
  BY <1>0 DEF Keys!KeyExpires
<1>c. \A h \in Keys!Valid(keyTable) \cup Keys!Valid(file) : keySince[h] = 0
  BY <1>0 DEF Together
(* A step leaves the caches, and what it writes is valid now.                *)
<1>w. ASSUME NEW keys \in Keys!Keys, Keys!SetTable(keys), UNCHANGED known PROVE Keys!KeyExpires'
  BY <1>w, <1>a, <1>b, SetTableType DEF Keys!KeyExpires
<1>s. ASSUME UNCHANGED <<keySince, known>> PROVE Keys!KeyExpires'
  BY <1>s, <1>b DEF Keys!KeyExpires
(* A process forgets all hashes, or remembers one that is valid.             *)
<1>f. ASSUME NEW p \in Servers, UNCHANGED keySince,
             known' = [known EXCEPT ![p] = [h \in Keys!Hashes |-> None]]
      PROVE  Keys!KeyExpires'
  BY <1>f, <1>b DEF Keys!KeyExpires, Keys!TypeOK
<1>r. ASSUME NEW p \in Servers, NEW h \in Keys!Hashes, UNCHANGED keySince, keySince[h] = 0,
             Keys!Remember(p, h)
      PROVE  Keys!KeyExpires'
  BY <1>r, <1>a, <1>b DEF Keys!KeyExpires, Keys!TypeOK, Keys!Remember
<1>1. ASSUME NEW p \in Servers,
             NEW kind \in {"create", "regenerate", "enable", "disable", "update"},
             NEW i \in Ids, Keys!Edit(p, kind, i)
      PROVE  Keys!KeyExpires'
  BY <1>1, <1>s DEF Keys!Edit, Keys!stores
<1>2. ASSUME NEW p \in Servers, NEW i \in Ids, Keys!Delete(p, i) PROVE Keys!KeyExpires'
  <2>1. [keyTable EXCEPT ![i] = None] \in Keys!Keys
    BY DEF Keys!TypeOK, Keys!Keys
  <2> QED BY <1>2, <2>1, <1>w, <1>s DEF Keys!Delete
<1>3. ASSUME NEW p \in Servers, NEW h \in 1 .. made, Keys!Find(p, h) PROVE Keys!KeyExpires'
  <2>1. h \in Keys!Hashes
    BY AdmissionAssumption DEF Keys!Hashes, Keys!TypeOK, Keys!ApiKeysAssumption
  <2> QED BY <1>3, <2>1, <1>c, <1>r, <1>s DEF Keys!Find, Keys!stores
<1>4. ASSUME NEW p \in Servers, Keys!Upsert(p) PROVE Keys!KeyExpires'
  <2>1. keyJob[p] \in Keys!Job /\ KeyJobOK(keyJob[p]) /\ keyJob[p].at = "upsert"
    BY <1>4 DEF Keys!Upsert, Keys!At, Keys!TypeOK, KeyJobsOK
  <2>2. [keyTable EXCEPT ![keyJob[p].id] = keyJob[p].keys[keyJob[p].id]] \in Keys!Keys
    BY <2>1 DEF Keys!TypeOK, Keys!Keys, KeyJobOK
  <2> QED BY <1>4, <2>2, <1>w, <1>s DEF Keys!Upsert
<1>5. ASSUME NEW p \in Servers, Keys!Replace(p) PROVE Keys!KeyExpires'
  <2>1. keyJob[p].keys \in Keys!Keys
    BY <1>5 DEF Keys!Replace, Keys!At, Keys!TypeOK, KeyJobsOK, KeyJobOK
  <2> QED BY <1>5, <2>1, <1>w, <1>s DEF Keys!Replace
<1>6. ASSUME NEW p \in Servers, Keys!Mirror(p) PROVE Keys!KeyExpires'
  BY <1>6, <1>s DEF Keys!Mirror
<1>7. ASSUME NEW p \in Servers, Keys!Done(p) PROVE Keys!KeyExpires'
  BY <1>7, <1>s, <1>f DEF Keys!Done, Keys!stores
<1>8. ASSUME NEW p \in Servers, Keys!List(p) PROVE Keys!KeyExpires'
  BY <1>8, <1>s DEF Keys!List, Keys!stores
<1>9. ASSUME NEW p \in Servers, Keys!Drop(p) PROVE Keys!KeyExpires'
  BY <1>9, <1>s DEF Keys!Drop, Keys!stores
<1>10. ASSUME NEW p \in Servers, Keys!Scan(p) PROVE Keys!KeyExpires'
  <2>1. keyJob[p].hash \in Keys!Hashes
    BY <1>10 DEF Keys!Scan, Keys!At, Keys!TypeOK, KeyJobsOK, KeyJobOK
  <2> QED BY <1>10, <2>1, <1>c, <1>r, <1>s DEF Keys!Scan, Keys!stores
<1>11. ASSUME NEW p \in Servers, Keys!Crash(p) PROVE Keys!KeyExpires'
  BY <1>11, <1>f DEF Keys!Crash, Keys!stores
<1>12. CASE Keys!Tick
  <2>1. ASSUME NEW h \in Keys!Hashes PROVE keySince'[h] <= keySince[h] + 1
               /\ keySince'[h] \in 0 .. Keys!Far
    <3>1. \/ keySince'[h] = 0
          \/ keySince[h] < Keys!Far /\ keySince'[h] = keySince[h] + 1
          \/ ~(keySince[h] < Keys!Far) /\ keySince'[h] = Keys!Far
      BY <1>12 DEF Keys!Tick
    <3>2. keySince[h] \in 0 .. Keys!Far /\ Keys!Far \in Nat
      BY <1>a
    <3> QED BY ONLY <3>1, <3>2
  <2>2. \A p \in Servers, h \in Keys!Hashes :
           known'[p][h] # None => known[p][h] # None /\ known'[p][h] = known[p][h] + 1
    BY <1>12 DEF Keys!Tick, Keys!CacheGet
  <2> QED BY <2>1, <2>2, <1>a, <1>b, NoneApart DEF Keys!KeyExpires
<1> QED
  BY <1>0, <1>1, <1>2, <1>3, <1>4, <1>5, <1>6, <1>7, <1>8, <1>9, <1>10, <1>11, <1>12 DEF Keys!Step

KeysInv == KeysTypes /\ Together /\ Keys!KeyExpires

LEMMA KeysInit == Keys!Init => KeysInv
<1> SUFFICES ASSUME Keys!Init PROVE KeysInv
  OBVIOUS
<1>1. 0 \in 0 .. MaxHash /\ 0 \in 0 .. MaxErrors /\ Keys!Far \in 0 .. Keys!Far
  BY AdmissionAssumption DEF Keys!ApiKeysAssumption, Keys!Far
<1>2. KeysTypes
  BY <1>1 DEF Keys!Init, KeysTypes, Keys!TypeOK, KeyJobsOK, Keys!Keys
<1>3. Together
  BY DEF Keys!Init, Together, Keys!Writing, Keys!Valid
<1>4. Keys!KeyExpires
  BY DEF Keys!Init, Keys!KeyExpires
<1> QED BY <1>2, <1>3, <1>4 DEF KeysInv

(* The types, that the stores stay together, and the age of what the caches  *)
(* say are inductive together.                                               *)
THEOREM KeysInvariant == Keys!Spec => []KeysInv
<1>1. KeysInv /\ [Keys!Next]_Keys!vars => KeysInv'
  BY KeysTypesStep, TogetherStep, ExpiresStep DEF KeysInv
<1> QED BY <1>1, KeysInit, PTL DEF Keys!Spec

(* A revoked key is refused everywhere after the ttl.                        *)
THEOREM KeysExpire == Keys!Spec => []Keys!KeyExpires
BY KeysInvariant, PTL DEF KeysInv

(* Only the key that an edit is about changes, as the edit says.             *)
THEOREM OnlyEdits == Keys!Spec => Keys!OnlyItsEdit
<1> DEFINE Edits ==
      \A i \in Ids : keyTable'[i] # keyTable[i] /\ ~astray'
         => \E p \in Servers :
               \E j \in {keyJob[p], keyJob'[p]} \ {None} : j.id = i /\ Keys!Brings(j.kind, i)
<1>1. KeysInv /\ [Keys!Next]_Keys!vars => [Edits]_Keys!vars
  <2> SUFFICES ASSUME KeysInv, Keys!Next, ~astray', NEW i \in Ids, keyTable'[i] # keyTable[i]
               PROVE  \E p \in Servers :
                         \E j \in {keyJob[p],
                           keyJob'[p]} \ {None} : j.id = i /\ Keys!Brings(j.kind, i)
    BY DEF Keys!vars, Keys!stores
  <2>0. ~astray /\ Keys!Step /\ KeysTypes /\ Together
    BY DEF Keys!Next, KeysInv
  <2>b. \A p \in Servers : keyJob[p] # None => keyJob[p] \in Keys!Job /\ KeyJobOK(keyJob[p])
    BY <2>0 DEF KeysTypes, Keys!TypeOK, KeyJobsOK
  <2>1. PICK p \in Servers : (\E k \in Ids : Keys!Delete(p,
        k)) \/ Keys!Upsert(p) \/ Keys!Replace(p)
    BY <2>0 DEF Keys!Step, Keys!Edit, Keys!Mirror, Keys!Done, Keys!List, Keys!Drop, Keys!Find,
        Keys!Scan, Keys!Crash, Keys!Tick, Keys!stores
  <2>2. ASSUME NEW k \in Ids, Keys!Delete(p, k)
        PROVE  keyJob'[p] # None /\ keyJob'[p].id = i /\ Keys!Brings(keyJob'[p].kind, i)
    <3>1. keyTable' = [keyTable EXCEPT ![k] = None]
      BY <2>2 DEF Keys!Delete, Keys!SetTable
    <3>2. k = i /\ keyTable'[i] = None
      BY <2>0, <3>1 DEF KeysTypes, Keys!TypeOK, Keys!Keys
    <3>3. PICK place \in {"list", "drop"} :
             keyJob'[p] = [kind |-> "delete", id |-> k, hash |-> None, keys |-> None,
               at |-> place]
      BY <2>0, <2>2 DEF Keys!Delete, KeysTypes, Keys!TypeOK
    <3>4. keyJob'[p] \in Keys!Job
      BY <3>3 DEF Keys!Job
    <3> QED BY <3>2, <3>3, <3>4, NoneApart DEF Keys!Brings
  <2>3. ASSUME Keys!Upsert(p) \/ Keys!Replace(p)
        PROVE  keyJob[p] # None /\ keyJob[p].id = i /\ Keys!Brings(keyJob[p].kind, i)
    <3>1. Keys!Writing(p) /\ keyJob[p] # None /\ keyJob[p].at \in {"upsert",
          "replace"} /\ keyJob[p].keys \in Keys!Keys
      BY <2>3, <2>b DEF Keys!Upsert, Keys!Replace, Keys!At, Keys!Writing, KeyJobOK
    <3>2. Beside(p)
      BY <2>0, <3>1 DEF Together
    <3>3. keyTable' = keyJob[p].keys \/ keyTable' = [keyTable EXCEPT ![keyJob[p].id] = keyJob[p].keys[keyJob[p].id]]
      BY <2>3 DEF Keys!Upsert, Keys!Replace, Keys!SetTable
    <3>4. keyJob[p].id = i /\ keyTable'[i] = keyJob[p].keys[i]
      BY <2>0, <3>1, <3>2, <3>3 DEF Beside, KeysTypes, Keys!TypeOK, Keys!Keys
    <3>5. Fits(made, keyJob[p].kind, keyTable[i], keyTable'[i])
      BY <3>1, <3>2, <3>4 DEF Beside
    <3> QED BY <3>1, <3>4, <3>5 DEF Fits, Keys!Brings
  <2> QED BY <2>1, <2>2, <2>3
<1> QED BY <1>1, KeysInvariant, PTL DEF Keys!Spec, Keys!OnlyItsEdit


Copies == [Settings!Settings -> Values \cup {None}]
Ticks == 0 .. Settings!Far
Sets == [kind : {"value", "flag", "mode", "password"}, key : Settings!Settings, to : Values,
         left : Seq(Settings!Settings), snap : Copies \cup {None},
         unseen : SUBSET Settings!Scalars, at : {"first", "lock", "write"}]
Flushes == [due : 0 .. FlushDelay, snap : Copies \cup {None},
            unseen : SUBSET Settings!Scalars, left : Seq(Settings!Settings)]
ModeCaches == [age : 0 .. ModeTtl, is : Values \cup {None}, unseen : SUBSET {Mode}]

SettingsTypesInv ==
    /\ stored \in [Settings!Settings -> Values]
    /\ unseen \in [Servers -> SUBSET Settings!Scalars]
    /\ mem \in [Servers -> Copies \cup {None}]
    /\ seen \in [Servers -> 0 .. Interval]
    /\ job \in [Servers -> Sets \cup {None}]
    /\ flush \in [Servers -> Flushes \cup {None}]
    /\ mode \in [Servers -> ModeCaches \cup {None}]
    /\ settingSince \in [Settings!Settings -> [Values -> Ticks]]
    /\ failed \in BOOLEAN

(* What a copy holds but for the settings of out was stored or asked for     *)
(* within n ticks.                                                           *)
Recent(copy, out, n) ==
    \A k \in Settings!Scalars \ out : copy[k] \in Values /\ settingSince[k][copy[k]] <= n

MemOK(p) == mem[p] # None /\ seen[p] < Interval => Recent(mem[p], unseen[p], seen[p])

JobOK(p) ==
    job[p] # None =>
        /\ settingSince[job[p].key][job[p].to] = 0
        /\ job[p].at = "write" =>
              job[p].snap \in Copies /\ Recent(job[p].snap, job[p].unseen, Interval)

FlushOK(p) ==
    flush[p] # None =>
        /\ mem[p] \in Copies
        /\ flush[p].left = <<>> => Recent(mem[p], unseen[p], Interval + FlushDelay - flush[p].due)
        /\ flush[p].left # <<>> =>
              /\ flush[p].due = 0
              /\ flush[p].snap \in Copies
              /\ Recent(flush[p].snap, flush[p].unseen, Interval + FlushDelay)

ModeOK(p) ==
    Settings!ModeFresh(p) /\ Mode \notin mode[p].unseen =>
        /\ mode[p].is \in Values
        /\ settingSince[Mode][mode[p].is] <= mode[p].age + (IF ~failed THEN 0
             ELSE Interval + FlushDelay)

StoredNow == \A k \in Settings!Settings : settingSince[k][stored[k]] = 0

SettingsInv ==
    /\ SettingsTypesInv /\ StoredNow
    /\ \A p \in Servers : MemOK(p) /\ JobOK(p) /\ FlushOK(p) /\ ModeOK(p)

-----------------------------------------------------------------------------
LEMMA Constants ==
    /\ Interval \in Nat /\ FlushDelay \in Nat /\ ModeTtl \in Nat /\ Settings!Far \in Nat
    /\ Interval > 0 /\ FlushDelay > 0 /\ ModeTtl > 0
    /\ Settings!Far = Interval + FlushDelay + ModeTtl + 1
    /\ Settings!Scalars \subseteq Settings!Settings /\ Mode \in Settings!Settings
       /\ Password \in Settings!Settings
    /\ Mode \in Settings!Scalars /\ Password \notin Settings!Scalars
    /\ None \notin Values
  BY AdmissionAssumption DEF Settings!SettingsAssumption, Settings!Far, Settings!Settings

LEMMA OrderType == Settings!Order \in Seq(Settings!Settings) /\ Settings!Order # <<>>
<1>1. SettingKeys \in Seq(Settings!Settings)
  BY AdmissionAssumption, Constants, SeqMonotonic DEF Settings!SettingsAssumption
<1> QED BY <1>1, Constants, AppendProperties DEF Settings!Order

LEMMA SinceType ==
    ASSUME SettingsTypesInv, NEW k \in Settings!Settings, NEW v \in Values
    PROVE  settingSince[k][v] \in Nat /\ settingSince[k][v] \in Ticks
  BY Constants DEF SettingsTypesInv, Ticks

(* A write of a value, and one that fails.                                   *)
LEMMA StoreType ==
    ASSUME SettingsTypesInv, NEW k \in Settings!Settings, NEW v \in Values, Settings!Store(k, v)
    PROVE  /\ stored' \in [Settings!Settings -> Values] /\ stored' = [stored EXCEPT ![k] = v]
           /\ settingSince' \in [Settings!Settings -> [Values -> Ticks]]
           /\ settingSince'[k][v] = 0
           /\ \A l \in Settings!Settings, w \in Values : settingSince'[l][w] \in {0,
              settingSince[l][w]}
<1>1. 0 \in Ticks
  BY Constants DEF Ticks
<1> QED BY <1>1 DEF Settings!Store, SettingsTypesInv, Copies

(* Ages fall but for the ticks.                                              *)
Younger ==
    /\ settingSince' \in [Settings!Settings -> [Values -> Ticks]]
    /\ \A l \in Settings!Settings, w \in Values : settingSince'[l][w] <= settingSince[l][w]

LEMMA StoreOrFailType ==
    ASSUME SettingsTypesInv, NEW k \in Settings!Settings, NEW v \in Values \cup {None},
           Settings!StoreOrFail(k, v)
    PROVE  /\ stored' \in [Settings!Settings -> Values]
              /\ settingSince' \in [Settings!Settings -> [Values -> Ticks]]
              /\ failed' \in BOOLEAN
           /\ Younger
           /\ StoredNow => StoredNow'
           /\ \A l \in Settings!Settings \ {k} : stored'[l] = stored[l]
           /\ stored'[k] \in {stored[k], v}
           /\ failed => failed'
<1>1. CASE v # None /\ Settings!Store(k, v) /\ UNCHANGED <<events, failed>>
  <2>v. v \in Values
    BY <1>1
  <2>1. stored'[k] = v /\ \A l \in Settings!Settings \ {k} : stored'[l] = stored[l]
    BY <1>1, <2>v, StoreType DEF SettingsTypesInv
  <2>2. Younger
    BY <1>1, <2>v, StoreType, SinceType DEF Younger
  <2>3. ASSUME StoredNow, NEW l \in Settings!Settings
        PROVE  settingSince'[l][stored'[l]] = 0
    <3>1. stored[l] \in Values
      BY DEF SettingsTypesInv
    <3> QED BY <1>1, <2>v, <2>1, <2>3, <3>1, StoreType DEF StoredNow
  <2> QED BY <1>1, <2>v, <2>1, <2>2, <2>3, StoreType DEF SettingsTypesInv, StoredNow
<1>2. CASE UNCHANGED <<stored, settingSince>> /\ (failed' = TRUE \/ failed' = failed)
  <2>1. /\ settingSince' = settingSince /\ stored' = stored
        /\ failed' \in BOOLEAN /\ (failed => failed')
    BY <1>2 DEF SettingsTypesInv
  <2>2. Younger
    BY <2>1, SinceType DEF Younger, SettingsTypesInv
  <2>3. StoredNow => StoredNow'
    BY <2>1 DEF StoredNow
  <2> QED BY <2>1, <2>2, <2>3 DEF SettingsTypesInv
<1> QED BY <1>1, <1>2 DEF Settings!StoreOrFail

(* A load looks at what is due, but for what it misses.                      *)
LEMMA LoadedType ==
    ASSUME SettingsTypesInv, NEW p \in Servers, NEW missed \in Settings!Missable(p),
           NEW old \in Settings!Olds(p, missed)
    PROVE  /\ Settings!Loaded(p, missed, old) \in Copies
           /\ ~Settings!Due(p) => \A k \in Settings!Settings : Settings!Loaded(p, missed, old)[k] = mem[p][k]
           /\ Settings!Due(p) => \A k \in Settings!Scalars \ missed :
                                    Settings!Loaded(p, missed, old)[k] = stored[k]
<1>1. old \in Copies
  BY DEF Settings!Olds, SettingsTypesInv, Copies, Settings!Copies
<1>2. \A k \in Settings!Settings : old[k] \in Values \cup {None} /\ stored[k] \in Values \cup {None}
  BY <1>1 DEF Copies, SettingsTypesInv
<1>3. Settings!Loaded(p, missed, old) \in Copies
  BY <1>2 DEF Settings!Loaded, Copies
<1>4. ~Settings!Due(p) => old = mem[p]
  BY DEF Settings!Due, Settings!Olds
<1>5. \A k \in Settings!Scalars : k \in Settings!Settings /\ k # Password
  BY Constants
<1> QED BY <1>3, <1>4, <1>5 DEF Settings!Loaded

(* What is not changed ages no more than the values do.                      *)
LEMMA RecentYounger ==
    ASSUME SettingsTypesInv, Younger, NEW copy, NEW out, NEW n \in Int, Recent(copy, out, n)
    PROVE  \A k \in Settings!Scalars \ out :
              copy[k] \in Values /\ settingSince'[k][copy[k]] <= n
<1> SUFFICES ASSUME NEW k \in Settings!Scalars \ out
             PROVE  copy[k] \in Values /\ settingSince'[k][copy[k]] <= n
  OBVIOUS
<1>1. k \in Settings!Settings /\ copy[k] \in Values
  BY Constants DEF Recent
<1>2. settingSince'[k][copy[k]] \in Nat /\ settingSince[k][copy[k]] \in Nat
  BY <1>1, SinceType, Constants DEF Younger, Ticks
<1> QED BY <1>1, <1>2 DEF Younger, Recent

LEMMA MemYounger ==
    ASSUME SettingsTypesInv, Younger, NEW p \in Servers, MemOK(p),
           mem'[p] = mem[p], unseen'[p] = unseen[p], seen'[p] = seen[p]
    PROVE  MemOK(p)'
<1> SUFFICES ASSUME mem[p] # None, seen[p] < Interval PROVE Recent(mem[p], unseen[p], seen[p])'
  BY DEF MemOK
<1>1. seen[p] \in Int /\ Recent(mem[p], unseen[p], seen[p])
  BY Constants DEF MemOK, SettingsTypesInv
<1>2. \A k \in Settings!Scalars \ unseen[p] :
         mem[p][k] \in Values /\ settingSince'[k][mem[p][k]] <= seen[p]
  BY <1>1, RecentYounger
<1> QED BY <1>2 DEF Recent

LEMMA JobYounger ==
    ASSUME SettingsTypesInv, Younger, NEW p \in Servers, JobOK(p), job'[p] = job[p]
    PROVE  JobOK(p)'
<1> SUFFICES ASSUME job[p] # None PROVE JobOK(p)'
  BY DEF JobOK
<1>1. job[p] \in Sets
  BY DEF SettingsTypesInv
<1>2. settingSince'[job[p].key][job[p].to] = 0
  <2>1. job[p].key \in Settings!Settings /\ job[p].to \in Values
    BY <1>1 DEF Sets
  <2>2. settingSince'[job[p].key][job[p].to] \in Nat
    BY <2>1, Constants DEF Younger, Ticks
  <2> QED BY <2>1, <2>2 DEF Younger, JobOK
<1>3. job[p].at = "write" =>
         \A k \in Settings!Scalars \ job[p].unseen :
            job[p].snap[k] \in Values /\ settingSince'[k][job[p].snap[k]] <= Interval
  BY RecentYounger, Constants DEF JobOK
<1> QED BY <1>2, <1>3 DEF JobOK, Recent

LEMMA FlushYounger ==
    ASSUME SettingsTypesInv, Younger, NEW p \in Servers, FlushOK(p),
           flush'[p] = flush[p], mem'[p] = mem[p], unseen'[p] = unseen[p]
    PROVE  FlushOK(p)'
<1> SUFFICES ASSUME flush[p] # None PROVE FlushOK(p)'
  BY DEF FlushOK
<1>1. flush[p] \in Flushes
  BY DEF SettingsTypesInv
<1>d. flush[p].due \in Int
  BY <1>1, Constants DEF Flushes
<1>2. flush[p].due \in Int /\ Interval + FlushDelay - flush[p].due \in Int
      /\ Interval + FlushDelay \in Int
  BY <1>d, Constants
<1>3. flush[p].left = <<>> =>
         \A k \in Settings!Scalars \ unseen[p] :
            mem[p][k] \in Values
            /\ settingSince'[k][mem[p][k]] <= Interval + FlushDelay - flush[p].due
  BY <1>2, RecentYounger DEF FlushOK
<1>4. flush[p].left # <<>> =>
         \A k \in Settings!Scalars \ flush[p].unseen :
            flush[p].snap[k] \in Values
            /\ settingSince'[k][flush[p].snap[k]] <= Interval + FlushDelay
  BY <1>2, RecentYounger DEF FlushOK
<1> QED BY <1>3, <1>4 DEF FlushOK, Recent

LEMMA ModeYounger ==
    ASSUME SettingsTypesInv, Younger, NEW p \in Servers, ModeOK(p), mode'[p] = mode[p],
           failed' \in BOOLEAN, failed => failed'
    PROVE  ModeOK(p)'
<1> SUFFICES ASSUME Settings!ModeFresh(p), Mode \notin mode[p].unseen PROVE ModeOK(p)'
  BY DEF ModeOK, Settings!ModeFresh
<1>1. mode[p].is \in Values /\ mode[p].age \in Nat
  BY Constants DEF ModeOK, Settings!ModeFresh, SettingsTypesInv, ModeCaches
<1>2. settingSince'[Mode][mode[p].is] \in Nat /\ settingSince[Mode][mode[p].is] \in Nat
  BY <1>1, SinceType, Constants DEF Younger, Ticks
<1>3. settingSince'[Mode][mode[p].is] <= settingSince[Mode][mode[p].is]
  BY <1>1, Constants DEF Younger
<1>4. settingSince'[Mode][mode[p].is] <= mode[p].age + (IF ~failed' THEN 0
      ELSE Interval + FlushDelay)
  BY <1>1, <1>2, <1>3, Constants DEF ModeOK
<1> QED BY <1>1, <1>4 DEF ModeOK

(* A step of one process: the others do what they did.                       *)
LEMMA OneProcess ==
    ASSUME SettingsInv, SettingsTypesInv', Younger, StoredNow', failed => failed',
           NEW p \in Servers,
           \A q \in Servers \ {p} :
              /\ mem'[q] = mem[q] /\ unseen'[q] = unseen[q] /\ seen'[q] = seen[q] /\ job'[q] = job[q]
              /\ flush'[q] = flush[q] /\ mode'[q] = mode[q],
           MemOK(p)', JobOK(p)', FlushOK(p)', ModeOK(p)'
    PROVE  SettingsInv'
<1> SUFFICES ASSUME NEW q \in Servers, q # p
             PROVE  MemOK(q)' /\ JobOK(q)' /\ FlushOK(q)' /\ ModeOK(q)'
  BY DEF SettingsInv
<1>1. SettingsTypesInv /\ MemOK(q) /\ JobOK(q) /\ FlushOK(q) /\ ModeOK(q) /\ failed' \in BOOLEAN
  BY DEF SettingsInv, SettingsTypesInv
<1> QED BY <1>1, MemYounger, JobYounger, FlushYounger, ModeYounger

(* What a process has after a load, and after a load and a set.              *)
LEMMA LoadsOK ==
    ASSUME SettingsTypesInv, StoredNow, Younger, NEW p \in Servers, MemOK(p), FlushOK(p),
           NEW missed \in Settings!Missable(p), NEW set, NEW v,
           \A k \in set : v \in Values /\ settingSince'[k][v] = 0,
           Settings!Load(p, missed, set, v)
    PROVE  /\ MemOK(p)' /\ mem'[p] \in Copies
           /\ \A k \in Settings!Scalars \ unseen'[p] :
                 mem'[p][k] \in Values /\ settingSince'[k][mem'[p][k]] <= Interval
           /\ flush'[p] = flush[p] => FlushOK(p)'
           /\ mem' \in [Servers -> Copies \cup {None}]
           /\ unseen' \in [Servers -> SUBSET Settings!Scalars]
           /\ seen' \in [Servers -> 0 .. Interval]
           /\ \A q \in Servers \ {p} : mem'[q] = mem[q] /\ unseen'[q] = unseen[q] /\ seen'[q] = seen[q]
<1> DEFINE due == Settings!Due(p)
           out == IF due THEN missed \cap Settings!Scalars ELSE unseen[p]
           got(old) == Settings!Loaded(p, missed, old)
           new(old) == [k \in Settings!Settings |-> IF k \in set THEN v ELSE got(old)[k]]
<1>1. PICK old \in Settings!Olds(p, missed) : mem' = [mem EXCEPT ![p] = new(old)]
  BY DEF Settings!Load
<1>2. /\ got(old) \in Copies
      /\ ~due => \A k \in Settings!Settings : got(old)[k] = mem[p][k]
      /\ due => \A k \in Settings!Scalars \ missed : got(old)[k] = stored[k]
  BY LoadedType
<1>3. due <=> mem[p] = None \/ seen[p] >= Interval
  BY DEF Settings!Due
<1>4. unseen' = [unseen EXCEPT ![p] = out \ set] /\ seen' = [seen EXCEPT ![p] = IF due THEN 0 ELSE seen[p]]
  BY DEF Settings!Load
<1> HIDE DEF due, got
<1>5. new(old) \in Copies /\ \A k \in Settings!Settings : new(old)[k] = IF k \in set THEN v ELSE got(old)[k]
  BY <1>2 DEF Copies
<1>6. unseen[p] \subseteq Settings!Scalars /\ seen[p] \in 0 .. Interval /\ 0 \in 0 .. Interval
      /\ Interval \in Nat /\ FlushDelay \in Nat
  BY Constants DEF SettingsTypesInv
<1>7. /\ mem' \in [Servers -> Copies \cup {None}] /\ mem'[p] = new(old)
      /\ unseen' \in [Servers -> SUBSET Settings!Scalars] /\ unseen'[p] = out \ set
      /\ seen' \in [Servers -> 0 .. Interval] /\ seen'[p] = IF due THEN 0 ELSE seen[p]
      /\ \A q \in Servers \ {p} : mem'[q] = mem[q] /\ unseen'[q] = unseen[q] /\ seen'[q] = seen[q]
  BY <1>1, <1>4, <1>5, <1>6 DEF SettingsTypesInv
<1>8. ASSUME NEW k \in Settings!Scalars \ unseen'[p]
      PROVE  /\ mem'[p][k] \in Values /\ settingSince'[k][mem'[p][k]] \in Nat
             /\ settingSince'[k][mem'[p][k]] <= seen'[p]
  <2>1. k \in Settings!Settings /\ mem'[p][k] = IF k \in set THEN v ELSE got(old)[k]
    BY <1>5, <1>7, Constants
  <2>2. ASSUME mem'[p][k] \in Values
        PROVE  /\ settingSince'[k][mem'[p][k]] \in Nat /\ settingSince[k][mem'[p][k]] \in Nat
               /\ settingSince'[k][mem'[p][k]] <= settingSince[k][mem'[p][k]]
    BY <2>1, <2>2, SinceType, Constants DEF Younger, Ticks
  <2>3. seen'[p] \in Nat
    BY <1>6, <1>7
  <2>4. CASE k \in set
    BY <2>1, <2>2, <2>3, <2>4
  <2>5. CASE k \notin set /\ due
    <3>1. k \in Settings!Scalars \ missed
      BY <1>7, <2>5
    <3>2. mem'[p][k] = stored[k] /\ stored[k] \in Values /\ settingSince[k][stored[k]] = 0
      BY <1>2, <2>1, <2>5, <3>1 DEF SettingsTypesInv, StoredNow
    <3>3. settingSince'[k][mem'[p][k]] = 0
      BY <2>2, <3>2
    <3> QED BY <2>3, <3>2, <3>3
  <2>6. CASE k \notin set /\ ~due
    <3>1. k \in Settings!Scalars \ unseen[p] /\ seen'[p] = seen[p]
      BY <1>7, <2>6
    <3>2. mem[p] # None /\ seen[p] < Interval
      BY <1>3, <1>6, <2>6
    <3>3. mem'[p][k] = mem[p][k] /\ mem[p][k] \in Values /\ settingSince[k][mem[p][k]] <= seen[p]
      BY <1>2, <2>1, <2>6, <3>1, <3>2 DEF MemOK, Recent
    <3>4. mem'[p][k] \in Values /\ settingSince[k][mem'[p][k]] <= seen'[p]
      BY <3>1, <3>3
    <3> QED BY <2>2, <2>3, <3>4
  <2> QED BY <2>4, <2>5, <2>6
<1>9. MemOK(p)'
  BY <1>8 DEF MemOK, Recent
<1>10. \A k \in Settings!Scalars \ unseen'[p] :
          mem'[p][k] \in Values /\ settingSince'[k][mem'[p][k]] <= Interval
  <2>1. seen'[p] \in Nat /\ seen'[p] <= Interval
    BY <1>6, <1>7
  <2> QED BY <1>6, <1>8, <2>1
<1>11. ASSUME flush'[p] = flush[p] PROVE FlushOK(p)'
  <2> SUFFICES ASSUME flush[p] # None PROVE FlushOK(p)'
    BY <1>11 DEF FlushOK
  <2>1. flush[p] \in Flushes
    BY DEF SettingsTypesInv
  <2>2. flush[p].due \in 0 .. FlushDelay
    BY <2>1 DEF Flushes
  <2>3. \A k \in Settings!Scalars \ unseen'[p] :
           mem'[p][k] \in Values
           /\ settingSince'[k][mem'[p][k]] <= Interval + FlushDelay - flush[p].due
    BY <2>2, <1>6, <1>8, <1>10
  <2>4. flush[p].left # <<>> =>
           \A k \in Settings!Scalars \ flush[p].unseen :
              flush[p].snap[k] \in Values
              /\ settingSince'[k][flush[p].snap[k]] <= Interval + FlushDelay
    BY <1>6, RecentYounger DEF FlushOK
  <2> QED BY <1>5, <1>7, <1>11, <2>3, <2>4 DEF FlushOK, Recent
<1> QED BY <1>5, <1>7, <1>9, <1>10, <1>11

-----------------------------------------------------------------------------
LEMMA YoungerSame == ASSUME SettingsTypesInv, UNCHANGED settingSince PROVE Younger
  BY SinceType DEF Younger, SettingsTypesInv

(* Asking for a value.                                                       *)
LEMMA AskedType ==
    ASSUME SettingsTypesInv, StoredNow, NEW k \in Settings!Settings, NEW v \in Values,
           settingSince' = [settingSince EXCEPT ![k][v] = 0], UNCHANGED stored
    PROVE  Younger /\ StoredNow' /\ settingSince'[k][v] = 0
<1>1. 0 \in Ticks
  BY Constants DEF Ticks
<1>2. /\ settingSince' \in [Settings!Settings -> [Values -> Ticks]] /\ settingSince'[k][v] = 0
      /\ \A l \in Settings!Settings, w \in Values : settingSince'[l][w] \in {0,
         settingSince[l][w]}
  BY <1>1 DEF SettingsTypesInv
<1>3. Younger
  BY <1>2, SinceType DEF Younger
<1>4. ASSUME NEW l \in Settings!Settings PROVE settingSince'[l][stored[l]] = 0
  <2>1. stored[l] \in Values
    BY DEF SettingsTypesInv
  <2> QED BY <1>2, <2>1 DEF StoredNow
<1> QED BY <1>2, <1>3, <1>4 DEF StoredNow

(* A record of a set that a process begins.                                  *)
Begun(kind, k, v) ==
    [kind |-> kind, key |-> k, to |-> v, left |-> <<>>, snap |-> None, unseen |-> {},
     at |-> IF kind = "value" THEN "first" ELSE "lock"]

LEMMA BegunType ==
    ASSUME NEW kind \in {"value", "flag", "mode", "password"}, NEW k \in Settings!Settings,
           NEW v \in Values
    PROVE  Begun(kind, k, v) \in Sets
  BY DEF Begun, Sets

LEMMA LeftType ==
    ASSUME NEW q \in Seq(Settings!Settings), q # <<>>
    PROVE  Head(q) \in Settings!Settings /\ Tail(q) \in Seq(Settings!Settings) /\ (Len(q) # 1
           => Tail(q) # <<>>)
<1>1. Head(q) \in Settings!Settings /\ Tail(q) \in Seq(Settings!Settings)
      /\ Len(Tail(q)) = Len(q) - 1
  BY HeadTailProperties
<1>2. Len(q) \in Nat /\ Len(Tail(q)) \in Nat
  BY <1>1, LenProperties
<1> QED BY <1>1, <1>2, SMTT(60)

LEMMA SettingsStep == SettingsInv /\ [Settings!Next]_Settings!vars => SettingsInv'
<1> SUFFICES ASSUME SettingsInv, [Settings!Next]_Settings!vars PROVE SettingsInv'
  OBVIOUS
<1> USE DEF SettingsInv
<1>0. /\ 0 \in Ticks /\ 0 \in 0 .. Interval /\ 0 \in 0 .. ModeTtl
         /\ FlushDelay \in 0 .. FlushDelay
      /\ failed \in BOOLEAN
  BY Constants DEF Ticks, SettingsTypesInv
<1>1. ASSUME NEW p \in Servers, Settings!Read(p) PROVE SettingsInv'
  <2>1. PICK missed \in Settings!Missable(p) :
           Settings!Load(p, missed, {}, None) /\ Settings!Missing(missed)
    BY <1>1 DEF Settings!Read
  <2>2. /\ UNCHANGED <<stored, job, flush, mode, settingSince>>
        /\ failed' \in BOOLEAN /\ (failed => failed')
    BY <1>0, <1>1, <2>1 DEF Settings!Read, Settings!Missing, Settings!counts
  <2>3. Younger /\ StoredNow'
    BY <2>2, YoungerSame DEF StoredNow
  <2>4. /\ MemOK(p)' /\ FlushOK(p)' /\ mem' \in [Servers -> Copies \cup {None}]
        /\ unseen' \in [Servers -> SUBSET Settings!Scalars] /\ seen' \in [Servers -> 0 .. Interval]
        /\ \A q \in Servers \ {p} : mem'[q] = mem[q] /\ unseen'[q] = unseen[q] /\ seen'[q] = seen[q]
    BY <2>1, <2>2, <2>3, LoadsOK
  <2>5. SettingsTypesInv'
    BY <2>2, <2>4 DEF SettingsTypesInv
  <2>6. JobOK(p)' /\ ModeOK(p)'
    BY <2>2, <2>3, JobYounger, ModeYounger
  <2> QED BY <2>2, <2>3, <2>4, <2>5, <2>6, OneProcess
<1>2. ASSUME NEW p \in Servers, Settings!ReadMode(p) PROVE SettingsInv'
  <2>1. UNCHANGED <<stored, job, flush, settingSince>>
    BY <1>2 DEF Settings!ReadMode
  <2>2. Younger /\ StoredNow'
    BY <2>1, YoungerSame DEF StoredNow
  <2>3. CASE /\ mode' = [mode EXCEPT ![p] = [age |-> 0, is |-> stored[Mode], unseen |-> {}]]
             /\ UNCHANGED <<mem, unseen, seen, events, failed>>
    <3>1. stored[Mode] \in Values /\ settingSince[Mode][stored[Mode]] = 0
      BY Constants DEF SettingsTypesInv, StoredNow
    <3>2. [age |-> 0, is |-> stored[Mode], unseen |-> {}] \in ModeCaches
      BY <1>0, <3>1 DEF ModeCaches
    <3>3. SettingsTypesInv'
      BY <2>1, <2>3, <3>2 DEF SettingsTypesInv
    <3>4. mode'[p] = [age |-> 0, is |-> stored[Mode], unseen |-> {}]
          /\ \A q \in Servers \ {p} : mode'[q] = mode[q]
      BY <2>3 DEF SettingsTypesInv
    <3>5. mode'[p].is \in Values
          /\ settingSince'[Mode][mode'[p].is] <= mode'[p].age + (IF ~failed' THEN 0
          ELSE Interval + FlushDelay)
      BY <2>1, <3>1, <3>4, Constants
    <3>6. MemOK(p)' /\ JobOK(p)' /\ FlushOK(p)' /\ ModeOK(p)'
      BY <2>1, <2>2, <2>3, <3>5, MemYounger, JobYounger, FlushYounger DEF ModeOK
    <3> QED BY <2>1, <2>2, <2>3, <3>3, <3>4, <3>6, OneProcess
  <2>4. ASSUME failed' = TRUE, NEW missed \in Settings!Missable(p), Settings!Load(p, missed, {}, None),
               mode' = [mode EXCEPT ![p] = [age |-> 0, is |-> mem'[p][Mode], unseen |-> unseen'[p] \cap {Mode}]]
        PROVE  SettingsInv'
    <3>1. /\ MemOK(p)' /\ FlushOK(p)' /\ mem'[p] \in Copies
          /\ \A k \in Settings!Scalars \ unseen'[p] :
                mem'[p][k] \in Values /\ settingSince'[k][mem'[p][k]] <= Interval
          /\ mem' \in [Servers -> Copies \cup {None}]
          /\ unseen' \in [Servers -> SUBSET Settings!Scalars] /\ seen' \in [Servers -> 0 .. Interval]
          /\ \A q \in Servers \ {p} : mem'[q] = mem[q] /\ unseen'[q] = unseen[q] /\ seen'[q] = seen[q]
      BY <2>1, <2>2, <2>4, LoadsOK
    <3>2. unseen'[p] \cap {Mode} \in SUBSET {Mode} /\ mem'[p][Mode] \in Values \cup {None}
      BY <3>1, Constants DEF Copies
    <3>3. [age |-> 0, is |-> mem'[p][Mode], unseen |-> unseen'[p] \cap {Mode}] \in ModeCaches
      BY <1>0, <3>2 DEF ModeCaches
    <3>4. SettingsTypesInv'
      BY <2>1, <2>4, <3>1, <3>3 DEF SettingsTypesInv
    <3>5. mode'[p] = [age |-> 0, is |-> mem'[p][Mode], unseen |-> unseen'[p] \cap {Mode}]
          /\ \A q \in Servers \ {p} : mode'[q] = mode[q]
      BY <2>4 DEF SettingsTypesInv
    <3>6. ASSUME Mode \notin unseen'[p]
          PROVE  mode'[p].is \in Values
                 /\ settingSince'[Mode][mode'[p].is] <= mode'[p].age + (IF ~failed' THEN 0
                     ELSE Interval + FlushDelay)
      <4>1. mem'[p][Mode] \in Values /\ settingSince'[Mode][mem'[p][Mode]] <= Interval
        BY <3>1, <3>6, Constants
      <4>2. settingSince'[Mode][mem'[p][Mode]] \in Nat
        BY <2>2, <4>1, Constants DEF Younger, Ticks
      <4>3. mode'[p].is = mem'[p][Mode] /\ mode'[p].age = 0
        BY <3>5
      <4> QED BY <2>4, <4>1, <4>2, <4>3, Constants
    <3>7. ModeOK(p)'
      <4>1. Mode \notin mode'[p].unseen => Mode \notin unseen'[p]
        BY <3>5
      <4> QED BY <3>6, <4>1 DEF ModeOK
    <3>8. JobOK(p)'
      BY <2>1, <2>2, JobYounger
    <3> QED BY <2>1, <2>2, <2>4, <3>1, <3>4, <3>5, <3>7, <3>8, OneProcess
  <2> QED BY <1>2, <2>3, <2>4 DEF Settings!ReadMode
<1>3. ASSUME NEW p \in Servers, NEW kind \in {"value", "flag", "mode", "password"},
             NEW k \in Settings!Settings, NEW v \in Values, Settings!Ask(p, kind, k, v)
      PROVE  SettingsInv'
  <2>1. /\ job' = [job EXCEPT ![p] = Begun(kind, k, v)]
        /\ settingSince' = [settingSince EXCEPT ![k][v] = 0]
        /\ UNCHANGED <<stored, mem, unseen, seen, flush, mode, failed>>
    BY <1>3 DEF Settings!Ask, Begun
  <2>2. Younger /\ StoredNow' /\ settingSince'[k][v] = 0
    BY <2>1, AskedType
  <2>3. SettingsTypesInv'
    BY <2>1, <2>2, BegunType DEF SettingsTypesInv, Younger
  <2>4. job'[p] = Begun(kind, k, v) /\ \A q \in Servers \ {p} : job'[q] = job[q]
    BY <2>1 DEF SettingsTypesInv
  <2>5. JobOK(p)'
    BY <2>2, <2>4 DEF JobOK, Begun
  <2>6. MemOK(p)' /\ FlushOK(p)' /\ ModeOK(p)'
    BY <1>0, <2>1, <2>2, MemYounger, FlushYounger, ModeYounger
  <2> QED BY <2>1, <2>2, <2>3, <2>4, <2>5, <2>6, OneProcess
<1>4. ASSUME NEW p \in Servers, NEW k \in Settings!Scalars, NEW v \in Values,
             Settings!Reapply(p, k, v)
      PROVE  SettingsInv'
  <2>1. /\ job' = [job EXCEPT ![p] = Begun("value", k, v)]
        /\ UNCHANGED <<stored, mem, unseen, seen, flush, mode>>
        /\ failed' \in BOOLEAN /\ (failed => failed')
    <3>1. failed' = failed \/ failed' = TRUE
      BY <1>4 DEF Settings!Reapply, Settings!counts
    <3>2. job' = [job EXCEPT ![p] = Begun("value", k, v)]
      BY <1>4 DEF Settings!Reapply, Begun
    <3> QED BY <1>0, <1>4, <3>1, <3>2 DEF Settings!Reapply
  <2>2. k \in Settings!Settings
    BY Constants
  <2>3. Younger /\ StoredNow' /\ settingSince'[k][v] = 0
    <3>1. CASE v = stored[k] /\ UNCHANGED settingSince
      BY <2>1, <2>2, <3>1, YoungerSame DEF StoredNow
    <3>2. CASE settingSince' = [settingSince EXCEPT ![k][v] = 0]
      BY <2>1, <2>2, <3>2, AskedType
    <3> QED BY <1>4, <3>1, <3>2 DEF Settings!Reapply
  <2>4. SettingsTypesInv'
    BY <2>1, <2>2, <2>3, BegunType DEF SettingsTypesInv, Younger
  <2>5. job'[p] = Begun("value", k, v) /\ \A q \in Servers \ {p} : job'[q] = job[q]
    BY <2>1 DEF SettingsTypesInv
  <2>6. JobOK(p)'
    BY <2>3, <2>5 DEF JobOK, Begun
  <2>7. MemOK(p)' /\ FlushOK(p)' /\ ModeOK(p)'
    BY <2>1, <2>3, MemYounger, FlushYounger, ModeYounger
  <2> QED BY <2>1, <2>3, <2>4, <2>5, <2>6, <2>7, OneProcess
<1>5. ASSUME NEW p \in Servers, Settings!StoreFirst(p) PROVE SettingsInv'
  <2>1. /\ job[p] \in Sets /\ job[p] # None
        /\ job' = [job EXCEPT ![p].at = "lock"] /\ Settings!StoreOrFail(job[p].key, job[p].to)
        /\ UNCHANGED <<mem, unseen, seen, flush, mode>>
    BY <1>5 DEF Settings!StoreFirst, SettingsTypesInv
  <2>2. job[p].key \in Settings!Settings /\ job[p].to \in Values
    BY <2>1 DEF Sets
  <2>3. /\ stored' \in [Settings!Settings -> Values] /\ Younger /\ failed' \in BOOLEAN /\ StoredNow' /\ (failed
           => failed')
    BY <2>1, <2>2, StoreOrFailType
  <2>4. job'[p] = [job[p] EXCEPT !.at = "lock"] /\ \A q \in Servers \ {p} : job'[q] = job[q]
    BY <2>1 DEF SettingsTypesInv
  <2>5. [job[p] EXCEPT !.at = "lock"] \in Sets
    BY <2>1 DEF Sets
  <2>6. SettingsTypesInv'
    BY <2>1, <2>3, <2>5 DEF SettingsTypesInv, Younger
  <2>7. settingSince'[job[p].key][job[p].to] = 0
    <3>1. settingSince'[job[p].key][job[p].to] \in Nat
      BY <2>2, <2>3, Constants DEF Younger, Ticks
    <3> QED BY <2>1, <2>2, <2>3, <3>1 DEF Younger, JobOK
  <2>8. JobOK(p)'
    BY <2>1, <2>4, <2>7 DEF JobOK, Sets
  <2>9. MemOK(p)' /\ FlushOK(p)' /\ ModeOK(p)'
    BY <2>1, <2>3, MemYounger, FlushYounger, ModeYounger
  <2> QED BY <2>1, <2>3, <2>4, <2>6, <2>8, <2>9, OneProcess
<1>6. ASSUME NEW p \in Servers, Settings!Save(p) PROVE SettingsInv'
  <2>1. PICK missed \in Settings!Missable(p) :
           Settings!Load(p, missed, {job[p].key}, job[p].to) /\ Settings!Missing(missed)
    BY <1>6 DEF Settings!Save
  <2>2. /\ job[p] \in Sets /\ job[p] # None
        /\ job' = [job EXCEPT ![p].at = "write", ![p].snap = mem'[p], ![p].unseen = unseen'[p],
                              ![p].left = Settings!Order]
        /\ flush' = [flush EXCEPT ![p] = IF flush[p] # None
           /\ flush[p].left = <<>> THEN None ELSE flush[p]]
        /\ UNCHANGED <<stored, mode, settingSince>>
        /\ failed' \in BOOLEAN /\ (failed => failed')
    BY <1>0, <1>6, <2>1 DEF Settings!Save, SettingsTypesInv, Settings!counts, Settings!Missing
  <2>3. job[p].key \in Settings!Settings /\ job[p].to \in Values
        /\ settingSince'[job[p].key][job[p].to] = 0
    BY <2>2 DEF Sets, JobOK
  <2>4. Younger /\ StoredNow'
    BY <2>2, YoungerSame DEF StoredNow
  <2>5. \A k \in {job[p].key} : job[p].to \in Values /\ settingSince'[k][job[p].to] = 0
    BY <2>3
  <2>6. /\ MemOK(p)' /\ mem'[p] \in Copies /\ mem' \in [Servers -> Copies \cup {None}]
        /\ \A k \in Settings!Scalars \ unseen'[p] :
              mem'[p][k] \in Values /\ settingSince'[k][mem'[p][k]] <= Interval
        /\ flush'[p] = flush[p] => FlushOK(p)'
        /\ unseen' \in [Servers -> SUBSET Settings!Scalars] /\ seen' \in [Servers -> 0 .. Interval]
        /\ \A q \in Servers \ {p} : mem'[q] = mem[q] /\ unseen'[q] = unseen[q] /\ seen'[q] = seen[q]
    BY <2>1, <2>4, <2>5, LoadsOK
  <2>7. unseen'[p] \in SUBSET Settings!Scalars
    BY <2>6
  <2>8. /\ job'[p] = [job[p] EXCEPT !.at = "write", !.snap = mem'[p], !.unseen = unseen'[p],
                                   !.left = Settings!Order]
        /\ \A q \in Servers \ {p} : job'[q] = job[q]
    BY <2>2 DEF SettingsTypesInv
  <2>9. /\ job'[p] \in Sets /\ job'[p].key = job[p].key /\ job'[p].to = job[p].to
        /\ job'[p].snap = mem'[p] /\ job'[p].unseen = unseen'[p]
    <3>1. Settings!Order \in Seq(Settings!Settings)
      BY OrderType
    <3>2. job[p] = [kind |-> job[p].kind, key |-> job[p].key, to |-> job[p].to,
                    left |-> job[p].left, snap |-> job[p].snap, unseen |-> job[p].unseen,
                    at |-> job[p].at]
      BY <2>2 DEF Sets
    <3>3. job'[p] = [kind |-> job[p].kind, key |-> job[p].key, to |-> job[p].to,
                     left |-> Settings!Order, snap |-> mem'[p], unseen |-> unseen'[p],
                     at |-> "write"]
      BY <2>8, <3>2
    <3>4. job[p].kind \in {"value", "flag", "mode", "password"}
      BY <2>2 DEF Sets
    <3> QED BY <2>3, <2>6, <2>7, <3>1, <3>3, <3>4 DEF Sets
  <2>10. /\ flush' \in [Servers -> Flushes \cup {None}]
            /\ (flush'[p] = None \/ flush'[p] = flush[p])
         /\ \A q \in Servers \ {p} : flush'[q] = flush[q]
    BY <2>2 DEF SettingsTypesInv
  <2>11. job' \in [Servers -> Sets \cup {None}]
    BY <2>2, <2>8, <2>9 DEF SettingsTypesInv
  <2>12. SettingsTypesInv'
    BY <2>2, <2>6, <2>10, <2>11 DEF SettingsTypesInv
  <2>13. JobOK(p)'
    BY <2>3, <2>6, <2>9 DEF JobOK, Recent
  <2>14. FlushOK(p)' /\ ModeOK(p)'
    BY <2>2, <2>4, <2>6, <2>10, ModeYounger DEF FlushOK
  <2> QED BY <2>2, <2>4, <2>6, <2>8, <2>10, <2>12, <2>13, <2>14, OneProcess
<1>7. ASSUME NEW p \in Servers, Settings!Write(p) PROVE SettingsInv'
  <2>1. /\ job[p] \in Sets /\ job[p] # None /\ job[p].at = "write" /\ job[p].left # <<>>
        /\ job' = [job EXCEPT ![p].left = Tail(job[p].left)]
        /\ Settings!StoreOrFail(Head(job[p].left), job[p].snap[Head(job[p].left)])
        /\ UNCHANGED <<mem, unseen, seen, flush, mode>>
    BY <1>7 DEF Settings!Write, SettingsTypesInv
  <2>2. job[p].left \in Seq(Settings!Settings) /\ job[p].snap \in Copies
    BY <2>1 DEF Sets, JobOK
  <2>3. Head(job[p].left) \in Settings!Settings
        /\ job[p].snap[Head(job[p].left)] \in Values \cup {None}
    BY <2>1, <2>2, LeftType DEF Copies
  <2>4. /\ stored' \in [Settings!Settings -> Values] /\ Younger /\ failed' \in BOOLEAN /\ StoredNow' /\ (failed
           => failed')
    BY <2>1, <2>3, StoreOrFailType
  <2>5. [job[p] EXCEPT !.left = Tail(job[p].left)] \in Sets
    BY <2>1, <2>2, LeftType DEF Sets
  <2>6. job'[p] = [job[p] EXCEPT !.left = Tail(job[p].left)]
        /\ \A q \in Servers \ {p} : job'[q] = job[q]
    BY <2>1 DEF SettingsTypesInv
  <2>7. SettingsTypesInv'
    BY <2>1, <2>4, <2>5 DEF SettingsTypesInv, Younger
  <2>8. /\ settingSince'[job[p].key][job[p].to] = 0
        /\ \A k \in Settings!Scalars \ job[p].unseen :
              job[p].snap[k] \in Values /\ settingSince'[k][job[p].snap[k]] <= Interval
    <3>1. job[p].key \in Settings!Settings /\ job[p].to \in Values
      BY <2>1 DEF Sets
    <3>2. settingSince'[job[p].key][job[p].to] \in Nat
      BY <2>4, <3>1, Constants DEF Younger, Ticks
    <3>3. settingSince'[job[p].key][job[p].to] = 0
      BY <2>1, <2>4, <3>1, <3>2 DEF Younger, JobOK
    <3>4. \A k \in Settings!Scalars \ job[p].unseen :
             job[p].snap[k] \in Values /\ settingSince'[k][job[p].snap[k]] <= Interval
      BY <2>1, <2>2, <2>4, RecentYounger, Constants DEF JobOK
    <3> QED BY <3>3, <3>4
  <2>j. /\ job'[p].key = job[p].key /\ job'[p].to = job[p].to
        /\ job'[p].snap = job[p].snap /\ job'[p].unseen = job[p].unseen
    BY <2>1, <2>6 DEF Sets
  <2>9. JobOK(p)'
    BY <2>2, <2>8, <2>j DEF JobOK, Recent
  <2>10. MemOK(p)' /\ FlushOK(p)' /\ ModeOK(p)'
    BY <2>1, <2>4, MemYounger, FlushYounger, ModeYounger
  <2> QED BY <2>1, <2>4, <2>6, <2>7, <2>9, <2>10, OneProcess
<1>8. ASSUME NEW p \in Servers, Settings!Saved(p) PROVE SettingsInv'
  <2>1. /\ job[p] \in Sets /\ job[p] # None /\ job' = [job EXCEPT ![p] = None]
        /\ \/ Settings!StoreOrFail(job[p].key, job[p].to)
           \/ UNCHANGED <<stored, settingSince, events, failed>>
        /\ \/ job[p].key = Mode /\ mode' = [mode EXCEPT ![p] = [age |-> 0, is |-> job[p].to, unseen |-> {}]]
           \/ mode' = mode
        /\ UNCHANGED <<mem, unseen, seen, flush>>
    BY <1>8 DEF Settings!Saved, SettingsTypesInv
  <2>2. job[p].key \in Settings!Settings /\ job[p].to \in Values
    BY <2>1 DEF Sets
  <2>3. /\ stored' \in [Settings!Settings -> Values] /\ Younger /\ failed' \in BOOLEAN /\ StoredNow' /\ (failed
           => failed')
    <3>1. CASE Settings!StoreOrFail(job[p].key, job[p].to)
      BY <2>2, <3>1, StoreOrFailType
    <3>2. CASE UNCHANGED <<stored, settingSince, events, failed>>
      <4>1. Younger /\ StoredNow'
        BY <3>2, YoungerSame DEF StoredNow
      <4> QED BY <1>0, <3>2, <4>1 DEF SettingsTypesInv
    <3> QED BY <2>1, <3>1, <3>2
  <2>4. job'[p] = None /\ \A q \in Servers \ {p} : job'[q] = job[q]
    BY <2>1 DEF SettingsTypesInv
  <2>5. [age |-> 0, is |-> job[p].to, unseen |-> {}] \in ModeCaches
    BY <1>0, <2>2 DEF ModeCaches
  <2>6. mode' \in [Servers -> ModeCaches \cup {None}]
        /\ \A q \in Servers \ {p} : mode'[q] = mode[q]
    BY <2>1, <2>5 DEF SettingsTypesInv
  <2>7. SettingsTypesInv'
    BY <2>1, <2>3, <2>6 DEF SettingsTypesInv, Younger
  <2>8. ModeOK(p)'
    <3>1. CASE mode' = mode
      BY <2>3, <3>1, ModeYounger
    <3>2. CASE job[p].key = Mode /\ mode' = [mode EXCEPT ![p] = [age |-> 0, is |-> job[p].to, unseen |-> {}]]
      <4>1. mode'[p] = [age |-> 0, is |-> job[p].to, unseen |-> {}]
        BY <3>2 DEF SettingsTypesInv
      <4>2. settingSince'[Mode][job[p].to] \in Nat
        BY <2>2, <2>3, <3>2, Constants DEF Younger, Ticks
      <4>3. settingSince'[Mode][job[p].to] = 0
        BY <2>1, <2>2, <2>3, <3>2, <4>2 DEF Younger, JobOK
      <4>4. settingSince'[Mode][mode'[p].is] <= mode'[p].age + (IF ~failed' THEN 0
            ELSE Interval + FlushDelay)
        BY <4>1, <4>3, Constants
      <4>5. mode'[p].is \in Values
        BY <2>2, <4>1
      <4> QED BY <4>4, <4>5 DEF ModeOK
    <3> QED BY <2>1, <3>1, <3>2
  <2>9. MemOK(p)' /\ FlushOK(p)' /\ JobOK(p)'
    BY <2>1, <2>3, <2>4, MemYounger, FlushYounger DEF JobOK
  <2> QED BY <2>1, <2>3, <2>4, <2>6, <2>7, <2>8, <2>9, OneProcess
<1>9. ASSUME NEW p \in Servers, Settings!Touch(p) PROVE SettingsInv'
  <2> DEFINE armed == [due |-> FlushDelay, snap |-> None, unseen |-> {}, left |-> <<>>]
  <2>1. PICK missed \in Settings!Missable(p) :
           Settings!Load(p, missed, {}, None) /\ failed' = (failed \/ missed # {})
    BY <1>9 DEF Settings!Touch
  <2>2. /\ flush' = IF flush[p] = None THEN [flush EXCEPT ![p] = armed] ELSE flush
        /\ UNCHANGED <<stored, job, mode, settingSince>>
        /\ failed' \in BOOLEAN /\ (failed => failed')
    BY <1>0, <1>9, <2>1 DEF Settings!Touch
  <2>3. Younger /\ StoredNow'
    BY <2>2, YoungerSame DEF StoredNow
  <2>4. /\ MemOK(p)' /\ mem'[p] \in Copies /\ mem' \in [Servers -> Copies \cup {None}]
        /\ \A k \in Settings!Scalars \ unseen'[p] :
              mem'[p][k] \in Values /\ settingSince'[k][mem'[p][k]] <= Interval
        /\ flush'[p] = flush[p] => FlushOK(p)'
        /\ unseen' \in [Servers -> SUBSET Settings!Scalars] /\ seen' \in [Servers -> 0 .. Interval]
        /\ \A q \in Servers \ {p} : mem'[q] = mem[q] /\ unseen'[q] = unseen[q] /\ seen'[q] = seen[q]
    BY <2>1, <2>3, LoadsOK
  <2>5. armed \in Flushes
    BY <1>0 DEF Flushes
  <2>6. /\ flush' \in [Servers -> Flushes \cup {None}]
        /\ \A q \in Servers \ {p} : flush'[q] = flush[q]
        /\ flush'[p] = flush[p] \/ flush'[p] = armed
    BY <2>2, <2>5 DEF SettingsTypesInv
  <2>7. SettingsTypesInv'
    BY <2>2, <2>4, <2>6 DEF SettingsTypesInv
  <2>8. FlushOK(p)'
    <3>1. CASE flush'[p] = armed
      <4>1. Interval + FlushDelay - FlushDelay = Interval
        BY Constants
      <4> QED BY <2>4, <3>1, <4>1 DEF FlushOK, Recent
    <3> QED BY <2>4, <2>6, <3>1
  <2>9. JobOK(p)' /\ ModeOK(p)'
    BY <2>2, <2>3, JobYounger, ModeYounger
  <2> QED BY <2>2, <2>3, <2>4, <2>6, <2>7, <2>8, <2>9, OneProcess
<1>10. ASSUME NEW p \in Servers, Settings!FlushStart(p) PROVE SettingsInv'
  <2>1. /\ flush[p] # None /\ flush[p] \in Flushes /\ flush[p].left = <<>> /\ flush[p].due = 0
        /\ flush' = [flush EXCEPT ![p].snap = mem[p], ![p].unseen = unseen[p],
                                  ![p].left = Settings!Order]
        /\ UNCHANGED <<stored, mem, unseen, seen, job, mode, settingSince, failed>>
    BY <1>10 DEF Settings!FlushStart, SettingsTypesInv, Settings!counts
  <2>2. Younger /\ StoredNow'
    BY <2>1, YoungerSame DEF StoredNow
  <2>3. mem[p] \in Copies /\ Recent(mem[p], unseen[p], Interval + FlushDelay)
        /\ unseen[p] \in SUBSET Settings!Scalars
    <3>1. Interval + FlushDelay - 0 = Interval + FlushDelay
      BY Constants
    <3> QED BY <2>1, <3>1 DEF FlushOK, SettingsTypesInv
  <2>4. /\ flush'[p] = [flush[p] EXCEPT !.snap = mem[p], !.unseen = unseen[p], !.left = Settings!Order]
        /\ \A q \in Servers \ {p} : flush'[q] = flush[q]
    BY <2>1 DEF SettingsTypesInv
  <2>5. /\ flush'[p] \in Flushes /\ flush'[p].left = Settings!Order /\ flush'[p].due = 0
        /\ flush'[p].snap = mem[p] /\ flush'[p].unseen = unseen[p]
    <3>1. Settings!Order \in Seq(Settings!Settings)
      BY OrderType
    <3>2. flush[p] = [due |-> flush[p].due, snap |-> flush[p].snap, unseen |-> flush[p].unseen,
                      left |-> flush[p].left]
      BY <2>1 DEF Flushes
    <3>3. flush'[p] = [due |-> flush[p].due, snap |-> mem[p], unseen |-> unseen[p], left |-> Settings!Order]
      BY <2>4, <3>2
    <3>4. flush[p].due = 0 /\ 0 \in 0 .. FlushDelay
      BY <2>1, Constants
    <3>5. flush'[p].due = 0 /\ flush'[p].left = Settings!Order
          /\ flush'[p].snap = mem[p] /\ flush'[p].unseen = unseen[p]
      BY <3>3, <3>4
    <3>6. flush'[p] \in Flushes
      BY <2>3, <3>1, <3>3, <3>4 DEF Flushes
    <3> QED BY <3>5, <3>6
  <2>6. SettingsTypesInv'
    BY <2>1, <2>4, <2>5 DEF SettingsTypesInv
  <2>7. FlushOK(p)'
    BY <2>1, <2>3, <2>5, OrderType DEF FlushOK, Recent
  <2>8. MemOK(p)' /\ JobOK(p)' /\ ModeOK(p)'
    BY <1>0, <2>1, <2>2, MemYounger, JobYounger, ModeYounger
  <2> QED BY <2>1, <2>2, <2>4, <2>6, <2>7, <2>8, OneProcess
<1>11. ASSUME NEW p \in Servers, Settings!FlushWrite(p) PROVE SettingsInv'
  <2>1. /\ flush[p] # None /\ flush[p] \in Flushes /\ flush[p].left # <<>>
        /\ Settings!StoreOrFail(Head(flush[p].left), flush[p].snap[Head(flush[p].left)])
        /\ flush' = IF Len(flush[p].left) = 1 THEN [flush EXCEPT ![p] = None]
                    ELSE [flush EXCEPT ![p].left = Tail(flush[p].left)]
        /\ UNCHANGED <<mem, unseen, seen, job, mode>>
    BY <1>11 DEF Settings!FlushWrite, SettingsTypesInv
  <2>2. flush[p].left \in Seq(Settings!Settings) /\ flush[p].snap \in Copies
    BY <2>1 DEF Flushes, FlushOK
  <2>3. Head(flush[p].left) \in Settings!Settings
        /\ flush[p].snap[Head(flush[p].left)] \in Values \cup {None}
    BY <2>1, <2>2, LeftType DEF Copies
  <2>4. /\ stored' \in [Settings!Settings -> Values] /\ Younger /\ failed' \in BOOLEAN /\ StoredNow' /\ (failed
           => failed')
    BY <2>1, <2>3, StoreOrFailType
  <2>5. [flush[p] EXCEPT !.left = Tail(flush[p].left)] \in Flushes
    BY <2>1, <2>2, LeftType DEF Flushes
  <2>6. /\ flush' \in [Servers -> Flushes \cup {None}]
        /\ \A q \in Servers \ {p} : flush'[q] = flush[q]
        /\ \/ flush'[p] = None
           \/ /\ flush'[p] = [flush[p] EXCEPT !.left = Tail(flush[p].left)]
              /\ Tail(flush[p].left) # <<>>
    BY <2>1, <2>2, <2>5, LeftType DEF SettingsTypesInv
  <2>7. SettingsTypesInv'
    BY <2>1, <2>4, <2>6 DEF SettingsTypesInv, Younger
  <2>8. \A k \in Settings!Scalars \ flush[p].unseen :
           flush[p].snap[k] \in Values
           /\ settingSince'[k][flush[p].snap[k]] <= Interval + FlushDelay
    <3>1. Interval + FlushDelay \in Int
      BY Constants
    <3>2. Recent(flush[p].snap, flush[p].unseen, Interval + FlushDelay)
      BY <2>1 DEF FlushOK
    <3> QED BY <2>2, <2>4, <3>1, <3>2, RecentYounger
  <2>9. FlushOK(p)'
    <3>1. CASE flush'[p] = [flush[p] EXCEPT !.left = Tail(flush[p].left)]
          /\ Tail(flush[p].left) # <<>>
      <4>1. /\ flush'[p].left # <<>> /\ flush'[p].due = flush[p].due
               /\ flush'[p].snap = flush[p].snap /\ flush'[p].unseen = flush[p].unseen
        BY <2>1, <3>1 DEF Flushes
      <4> QED BY <2>1, <2>2, <2>8, <4>1 DEF FlushOK, Recent
    <3> QED BY <2>6, <3>1 DEF FlushOK
  <2>10. MemOK(p)' /\ JobOK(p)' /\ ModeOK(p)'
    BY <2>1, <2>4, MemYounger, JobYounger, ModeYounger
  <2> QED BY <2>1, <2>4, <2>6, <2>7, <2>9, <2>10, OneProcess
<1>12. ASSUME NEW p \in Servers, Settings!Crash(p) PROVE SettingsInv'
  <2>1. /\ mem' = [mem EXCEPT ![p] = None] /\ unseen' = [unseen EXCEPT ![p] = {}] /\ job' = [job EXCEPT ![p] = None]
        /\ flush' = [flush EXCEPT ![p] = None] /\ mode' = [mode EXCEPT ![p] = None]
        /\ UNCHANGED <<stored, seen, settingSince, failed>>
    BY <1>12 DEF Settings!Crash
  <2>2. Younger /\ StoredNow'
    BY <2>1, YoungerSame DEF StoredNow
  <2>3. /\ mem'[p] = None /\ job'[p] = None /\ flush'[p] = None /\ mode'[p] = None
        /\ \A q \in Servers \ {p} :
              mem'[q] = mem[q] /\ unseen'[q] = unseen[q] /\ job'[q] = job[q] /\ flush'[q] = flush[q] /\ mode'[q] = mode[q]
    BY <2>1 DEF SettingsTypesInv
  <2>4. SettingsTypesInv'
    BY <2>1 DEF SettingsTypesInv
  <2>5. MemOK(p)' /\ JobOK(p)' /\ FlushOK(p)' /\ ModeOK(p)'
    BY <2>3 DEF MemOK, JobOK, FlushOK, ModeOK, Settings!ModeFresh
  <2> QED BY <2>1, <2>2, <2>3, <2>4, <2>5, OneProcess
<1>13. CASE Settings!Tick
  <2>1. /\ UNCHANGED <<stored, mem, unseen, job, failed>>
        /\ \A p \in Servers : job[p] = None /\ (flush[p] # None => flush[p].due > 0)
        /\ seen' = [p \in Servers |-> IF seen[p] < Interval THEN seen[p] + 1 ELSE Interval]
        /\ flush' = [p \in Servers |->
                        IF flush[p] = None THEN None ELSE [flush[p] EXCEPT !.due = @ - 1]]
        /\ mode' = [p \in Servers |->
                        IF mode[p] = None THEN None
                        ELSE [mode[p] EXCEPT !.age = IF @ < ModeTtl THEN @ + 1 ELSE ModeTtl]]
        /\ settingSince' = [k \in Settings!Settings |-> [v \in Values |->
                        IF stored[k] = v THEN 0 ELSE IF settingSince[k][v] < Settings!Far
                          THEN settingSince[k][v] + 1 ELSE Settings!Far]]
    BY <1>13 DEF Settings!Tick, Settings!counts
  <2>2. ASSUME NEW k \in Settings!Settings, NEW v \in Values
        PROVE  settingSince'[k][v] \in Ticks /\ settingSince'[k][v] <= settingSince[k][v] + 1
    <3>1. settingSince[k][v] \in 0 .. Settings!Far /\ Settings!Far \in Nat
      BY SinceType, Constants DEF Ticks
    <3>2. \/ settingSince'[k][v] = 0
          \/ settingSince[k][v] < Settings!Far /\ settingSince'[k][v] = settingSince[k][v] + 1
          \/ ~(settingSince[k][v] < Settings!Far) /\ settingSince'[k][v] = Settings!Far
      BY <2>1
    <3> QED BY ONLY <3>1, <3>2 DEF Ticks
  <2>3. settingSince' \in [Settings!Settings -> [Values -> Ticks]]
    <3>1. settingSince' = [k \in Settings!Settings |-> [v \in Values |-> settingSince'[k][v]]]
      BY <2>1
    <3> QED BY <2>2, <3>1
  <2>4. StoredNow'
    BY <2>1 DEF StoredNow, SettingsTypesInv
  <2>5. ASSUME NEW copy, NEW out, NEW n \in Int, Recent(copy, out, n)
        PROVE  \A k \in Settings!Scalars \ out :
                  copy[k] \in Values /\ settingSince'[k][copy[k]] <= n + 1
    <3> SUFFICES ASSUME NEW k \in Settings!Scalars \ out
                 PROVE  copy[k] \in Values /\ settingSince'[k][copy[k]] <= n + 1
      OBVIOUS
    <3>1. k \in Settings!Settings /\ copy[k] \in Values
      BY <2>5, Constants DEF Recent
    <3>2. settingSince[k][copy[k]] \in Int /\ settingSince'[k][copy[k]] \in Int
          /\ settingSince[k][copy[k]] <= n
          /\ settingSince'[k][copy[k]] <= settingSince[k][copy[k]] + 1
      BY <2>2, <2>5, <3>1, SinceType, Constants DEF Recent, Ticks
    <3> QED BY ONLY <3>1, <3>2, n \in Int
  <2>6. ASSUME NEW p \in Servers
        PROVE  seen'[p] \in 0 .. Interval /\ MemOK(p)'
    <3>1. seen[p] \in 0 .. Interval /\ Interval \in Nat
      BY Constants DEF SettingsTypesInv
    <3>2. \/ seen[p] < Interval /\ seen'[p] = seen[p] + 1
          \/ ~(seen[p] < Interval) /\ seen'[p] = Interval
      BY <2>1
    <3>3. seen'[p] \in 0 .. Interval /\ (seen'[p] < Interval
          => seen[p] < Interval /\ seen'[p] = seen[p] + 1)
      BY ONLY <3>1, <3>2
    <3>4. CASE mem[p] # None /\ seen'[p] < Interval
      <4>1. mem[p] \in Copies /\ Recent(mem[p], unseen[p], seen[p]) /\ seen[p] \in Int
        BY <3>1, <3>3, <3>4 DEF SettingsTypesInv, MemOK
      <4> QED BY <2>1, <2>5, <3>3, <4>1, ZenonT(60) DEF MemOK, Recent
    <3> QED BY <2>1, <3>3, <3>4 DEF MemOK
  <2>7. ASSUME NEW p \in Servers
        PROVE  flush'[p] \in Flushes \cup {None} /\ FlushOK(p)'
    <3>1. CASE flush[p] = None
      BY <2>1, <3>1 DEF FlushOK
    <3>2. CASE flush[p] # None
      <4>1. flush[p] \in Flushes /\ flush[p].due > 0
            /\ flush'[p] = [flush[p] EXCEPT !.due = flush[p].due - 1]
        BY <2>1, <3>2 DEF SettingsTypesInv
      <4>2. flush[p].due \in 0 .. FlushDelay /\ flush[p].due - 1 \in 0 .. FlushDelay
        BY <4>1, Constants DEF Flushes
      <4>3. /\ flush'[p] \in Flushes /\ flush'[p].due = flush[p].due - 1
            /\ flush'[p].left = flush[p].left
        BY <4>1, <4>2 DEF Flushes
      <4>4. mem[p] \in Copies /\ flush[p].left = <<>>
            /\ Recent(mem[p], unseen[p], Interval + FlushDelay - flush[p].due)
        BY <3>2, <4>1, <4>2 DEF FlushOK
      <4>5. /\ Interval + FlushDelay - flush[p].due \in Int
            /\ Interval + FlushDelay - flush[p].due + 1 = Interval + FlushDelay - (flush[p].due - 1)
        BY <4>2, Constants
      <4>6. \A k \in Settings!Scalars \ unseen[p] :
               mem[p][k] \in Values
               /\ settingSince'[k][mem[p][k]] <= Interval + FlushDelay - (flush[p].due - 1)
        BY <2>5, <4>4, <4>5
      <4> QED BY <2>1, <4>3, <4>4, <4>6 DEF FlushOK, Recent
    <3> QED BY <3>1, <3>2
  <2>8. ASSUME NEW p \in Servers
        PROVE  mode'[p] \in ModeCaches \cup {None} /\ ModeOK(p)'
    <3>1. CASE mode[p] = None
      BY <2>1, <3>1 DEF ModeOK, Settings!ModeFresh
    <3>2. CASE mode[p] # None
      <4>1. /\ mode[p] \in ModeCaches
            /\ mode'[p] = [mode[p] EXCEPT !.age = IF mode[p].age < ModeTtl
               THEN mode[p].age + 1 ELSE ModeTtl]
        BY <2>1, <3>2 DEF SettingsTypesInv
      <4>2. mode[p].age \in 0 .. ModeTtl /\ ModeTtl \in Nat
        BY <4>1, Constants DEF ModeCaches
      <4>3. PICK aged : aged = IF mode[p].age < ModeTtl THEN mode[p].age + 1 ELSE ModeTtl
        OBVIOUS
      <4>4. aged \in 0 .. ModeTtl /\ (aged < ModeTtl
            => mode[p].age < ModeTtl /\ aged = mode[p].age + 1)
        BY ONLY <4>2, <4>3
      <4>5. mode'[p] \in ModeCaches /\ mode'[p].age = aged /\ mode'[p].is = mode[p].is
            /\ mode'[p].unseen = mode[p].unseen
        BY <4>1, <4>2, <4>3, <4>4 DEF ModeCaches
      <4>6. CASE aged < ModeTtl /\ Mode \notin mode[p].unseen
        <5>1. mode[p].is \in Values
              /\ settingSince[Mode][mode[p].is] <= mode[p].age + (IF ~failed THEN 0
              ELSE Interval + FlushDelay)
          BY <3>2, <4>4, <4>6 DEF ModeOK, Settings!ModeFresh
        <5>2. /\ settingSince'[Mode][mode[p].is] <= settingSince[Mode][mode[p].is] + 1
              /\ settingSince'[Mode][mode[p].is] \in Int /\ settingSince[Mode][mode[p].is] \in Int
          BY <2>2, <5>1, SinceType, Constants DEF Ticks
        <5>3. settingSince'[Mode][mode[p].is] <= aged + (IF ~failed THEN 0
              ELSE Interval + FlushDelay)
          BY <4>2, <4>4, <4>6, <5>1, <5>2, Constants
        <5> QED BY <2>1, <4>5, <5>1, <5>3 DEF ModeOK
      <4> QED BY <4>5, <4>6 DEF ModeOK, Settings!ModeFresh
    <3> QED BY <3>1, <3>2
  <2>9. /\ seen' \in [Servers -> 0 .. Interval] /\ flush' \in [Servers -> Flushes \cup {None}]
        /\ mode' \in [Servers -> ModeCaches \cup {None}]
    BY <2>1, <2>6, <2>7, <2>8
  <2>10. SettingsTypesInv'
    BY <2>1, <2>3, <2>9 DEF SettingsTypesInv
  <2>11. \A p \in Servers : JobOK(p)'
    BY <2>1 DEF JobOK
  <2> QED BY <2>4, <2>6, <2>7, <2>8, <2>10, <2>11
<1>14. CASE UNCHANGED Settings!vars
  BY <1>14 DEF Settings!vars, Settings!counts, SettingsTypesInv, StoredNow, MemOK, JobOK,
      FlushOK, ModeOK, Settings!ModeFresh, Recent
<1> QED BY <1>1, <1>2, <1>3, <1>4, <1>5, <1>6, <1>7, <1>8, <1>9, <1>10, <1>11, <1>12, <1>13, <1>14
        DEF Settings!Next

LEMMA SettingsInit == Settings!Init => SettingsInv
<1> SUFFICES ASSUME Settings!Init PROVE SettingsInv
  OBVIOUS
<1>1. 0 \in Ticks /\ Settings!Far \in Ticks /\ Interval \in 0 .. Interval
  BY Constants DEF Ticks
<1>2. stored \in [Settings!Settings -> Values]
  BY DEF Settings!Init
<1>c. stored \in Copies
  BY <1>2 DEF Copies
<1>3. SettingsTypesInv
  BY <1>1, <1>2, <1>c DEF Settings!Init, SettingsTypesInv
<1>4. StoredNow
  BY <1>2 DEF Settings!Init, StoredNow
<1>5. \A p \in Servers : MemOK(p) /\ JobOK(p) /\ FlushOK(p) /\ ModeOK(p)
  <2> TAKE p \in Servers
  <2>1. mem[p] = stored /\ seen[p] = Interval /\ job[p] = None /\ flush[p] = None
        /\ mode[p] = None
    BY DEF Settings!Init
  <2>2. ~(Interval < Interval)
    BY Constants
  <2> QED BY <2>1, <2>2 DEF MemOK, JobOK, FlushOK, ModeOK, Settings!ModeFresh
<1> QED BY <1>3, <1>4, <1>5 DEF SettingsInv

(* The ages of what the copies, the saves and the flushes hold.              *)
THEOREM SettingsInvariant == Settings!Spec => []SettingsInv
BY SettingsInit, SettingsStep, PTL DEF Settings!Spec

(* The types.                                                                *)
THEOREM SettingsTypes == Settings!Spec => []Settings!TypeOK
<1>1. SettingsInv => Settings!TypeOK
  BY DEF SettingsInv, SettingsTypesInv, Settings!TypeOK, Copies, Settings!Copies, Sets, ModeCaches
<1> QED BY <1>1, SettingsInvariant, PTL

(* Nothing is written, and no mode gone by, that has not been stored or      *)
(* asked for of late, but for what a copy has kept because its last look     *)
(* could not read it.                                                        *)
THEOREM SettingsAreRecent == Settings!Spec => Settings!SettingsRecent
<1>1. SettingsInv /\ SettingsInv' /\ [Settings!Next]_Settings!vars
      => [Settings!WritesRecent /\ Settings!ModeIsRecent']_Settings!vars
  <2> SUFFICES ASSUME SettingsInv, SettingsInv', Settings!Next
      PROVE Settings!WritesRecent /\ Settings!ModeIsRecent'
    OBVIOUS
  <2> USE DEF SettingsInv
  <2>1. Settings!ModeIsRecent'
    BY DEF Settings!ModeIsRecent, ModeOK
  <2>2. ASSUME NEW k \in Settings!Scalars, stored'[k] # stored[k], ~Settings!Unread(k)
        PROVE  settingSince[k][stored'[k]] <= Interval + FlushDelay
    <3>1. Interval <= Interval + FlushDelay /\ 0 <= Interval + FlushDelay
          /\ k \in Settings!Settings
      BY Constants
    <3>2. PICK p \in Servers : Settings!StoreFirst(p) \/ Settings!Write(p)
          \/ Settings!Saved(p) \/ Settings!FlushWrite(p)
      BY <2>2, ZenonT(60) DEF Settings!Next, Settings!Read, Settings!ReadMode, Settings!Touch,
          Settings!Ask, Settings!Reapply, Settings!Save, Settings!FlushStart, Settings!Crash,
            Settings!Tick
    <3>3. ASSUME job[p] # None, Settings!StoreOrFail(job[p].key, job[p].to)
          PROVE  settingSince[k][stored'[k]] <= Interval + FlushDelay
      <4>1. job[p].key \in Settings!Settings /\ job[p].to \in Values
        BY <3>3 DEF SettingsTypesInv, Sets
      <4>2. k = job[p].key /\ stored'[k] = job[p].to
        BY <2>2, <3>1, <3>3, <4>1, StoreOrFailType
      <4> QED BY <3>1, <3>3, <4>2 DEF JobOK
    <3>4. CASE Settings!StoreFirst(p)
      BY <3>3, <3>4 DEF Settings!StoreFirst
    <3>5. CASE Settings!Saved(p)
      BY <2>2, <3>3, <3>5 DEF Settings!Saved
    <3>6. CASE Settings!Write(p)
      <4>1. /\ job[p] \in Sets /\ job[p] # None /\ job[p].at = "write" /\ job[p].left # <<>>
            /\ Settings!StoreOrFail(Head(job[p].left), job[p].snap[Head(job[p].left)])
        BY <3>6 DEF Settings!Write, SettingsTypesInv
      <4>2. job[p].left \in Seq(Settings!Settings) /\ job[p].snap \in Copies
            /\ Recent(job[p].snap, job[p].unseen, Interval)
        BY <4>1 DEF Sets, JobOK
      <4>3. Head(job[p].left) \in Settings!Settings
            /\ job[p].snap[Head(job[p].left)] \in Values \cup {None}
        BY <4>1, <4>2, LeftType DEF Copies
      <4>4. k = Head(job[p].left) /\ stored'[k] = job[p].snap[k]
        BY <2>2, <3>1, <4>1, <4>3, StoreOrFailType
      <4>k. k \notin job[p].unseen
        BY <2>2, <4>1, <4>4 DEF Settings!Unread
      <4>5. job[p].snap[k] \in Values /\ settingSince[k][job[p].snap[k]] <= Interval
        BY <4>2, <4>k DEF Recent
      <4>6. settingSince[k][job[p].snap[k]] \in Int
        BY <3>1, <4>5, SinceType
      <4>7. Interval \in Int /\ Interval <= Interval + FlushDelay
        BY Constants
      <4>8. settingSince[k][stored'[k]] <= Interval
        BY <3>1, <4>4, <4>5
      <4> DEFINE since_ == settingSince[k][stored'[k]]
      <4>9. since_ \in Int /\ since_ <= Interval
        BY <4>4, <4>6, <4>8
      <4> HIDE DEF since_
      <4>10. since_ <= Interval + FlushDelay
        BY <4>7, <4>9, Constants
      <4> QED BY <4>10 DEF since_
    <3>7. CASE Settings!FlushWrite(p)
      <4>1. /\ flush[p] # None /\ flush[p] \in Flushes /\ flush[p].left # <<>>
            /\ Settings!StoreOrFail(Head(flush[p].left), flush[p].snap[Head(flush[p].left)])
        BY <3>7 DEF Settings!FlushWrite, SettingsTypesInv
      <4>2. /\ flush[p].left \in Seq(Settings!Settings) /\ flush[p].snap \in Copies
            /\ Recent(flush[p].snap, flush[p].unseen, Interval + FlushDelay)
        BY <4>1 DEF Flushes, FlushOK
      <4>3. Head(flush[p].left) \in Settings!Settings
            /\ flush[p].snap[Head(flush[p].left)] \in Values \cup {None}
        BY <4>1, <4>2, LeftType DEF Copies
      <4>4. k = Head(flush[p].left) /\ stored'[k] = flush[p].snap[k]
        BY <2>2, <3>1, <4>1, <4>3, StoreOrFailType
      <4>5. k \notin flush[p].unseen
        BY <2>2, <4>1, <4>4 DEF Settings!Unread
      <4> QED BY <4>2, <4>4, <4>5 DEF Recent
    <3> QED BY <3>2, <3>4, <3>5, <3>6, <3>7
  <2> QED BY <2>1, <2>2 DEF Settings!WritesRecent
<1> QED BY <1>1, SettingsInvariant, PTL DEF Settings!Spec, Settings!SettingsRecent

-----------------------------------------------------------------------------
(* Finite sets                                                               *)

(* A set that a finite one covers is finite.                                 *)
LEMMA FiniteCover ==
    ASSUME NEW S, NEW T, IsFiniteSet(S), NEW f \in [S -> T], \A t \in T : \E s \in S : f[s] = t
    PROVE  IsFiniteSet(T)
<1>1. f \in Surjection(S, T)
  BY DEF Surjection
<1> QED BY <1>1, FS_Surjection

(* As many different members as a finite set has are all of them.            *)
LEMMA AllOfThem ==
    ASSUME NEW S, IsFiniteSet(S), NEW f \in [1 .. Cardinality(S) -> S],
           \A i, j \in 1 .. Cardinality(S) : i # j => f[i] # f[j]
    PROVE  \A s \in S : \E i \in 1 .. Cardinality(S) : f[i] = s
<1> DEFINE n == Cardinality(S)
<1>1. n \in Nat
  BY FS_CardinalityType
<1>2. f \in Injection(1 .. n, S)
  BY DEF Injection, IsInjective
<1>3. Cardinality(1 .. n) = n
  BY <1>1, FS_Interval
<1>4. f \in Surjection(1 .. n, S)
  BY <1>1, <1>2, <1>3, FS_Injection
<1> QED BY <1>4 DEF Surjection


-----------------------------------------------------------------------------
(* The picker: sequences of accounts                                         *)

(* A set of numbers that is not empty has a least one.                       *)
LEMMA Least == ASSUME NEW T, T \subseteq Nat, T # {} PROVE \E n \in T : \A m \in T : n <= m
<1> SUFFICES ASSUME \A n \in T : \E m \in T : m < n PROVE FALSE
  OBVIOUS
<1> DEFINE D == {n \in Nat : \A m \in T : n < m}
           up == [n \in D |-> n + 1]
<1>1. 0 \in D
  OBVIOUS
<1>2. ASSUME NEW n \in D PROVE n + 1 \in D
  <2>1. SUFFICES ASSUME NEW m \in T, ~(n + 1 < m) PROVE FALSE
    OBVIOUS
  <2>2. m = n + 1
    BY <2>1
  <2>3. PICK k \in T : k < m
    OBVIOUS
  <2> QED BY <2>2, <2>3
<1>3. PICK t \in T : TRUE
  OBVIOUS
<1>4. IsFiniteSet(D)
  <2>1. \A s \in D : s <= t
    BY <1>3
  <2> QED BY <1>3, <2>1, FS_BoundedSetOfNaturals
<1>5. IsFiniteSet(D \ {0}) /\ Cardinality(D \ {0}) = Cardinality(D) - 1 /\ Cardinality(D) \in Nat
  BY <1>1, <1>4, FS_RemoveElement, FS_CardinalityType
<1>6. up \in [D -> D \ {0}]
  BY <1>2
<1>7. \E x, y \in D : x # y /\ up[x] = up[y]
  <2> HIDE DEF D, up
  <2> QED BY <1>4, <1>5, <1>6, FS_PigeonHole
<1> QED BY <1>7

(* Induction up to a number, for a set.                                      *)
LEMMA UpTo ==
    ASSUME NEW n \in Nat, NEW T, 0 \in T, \A m \in 0 .. n - 1 : m \in T => m + 1 \in T
    PROVE  n \in T
<1> SUFFICES ASSUME n \notin T PROVE FALSE
  OBVIOUS
<1> DEFINE Missing == (0 .. n) \ T
<1>1. Missing \subseteq Nat /\ Missing # {}
  OBVIOUS
<1>2. PICK k \in Missing : \A m \in Missing : k <= m
  <2> HIDE DEF Missing
  <2> QED BY <1>1, Least
<1>3. k # 0 /\ k - 1 \in 0 .. n - 1 /\ (k - 1) + 1 = k
  BY <1>2
<1>4. k - 1 \in T
  BY <1>2, <1>3
<1> QED BY <1>2, <1>3, <1>4

(* The elements of q that are in S are collected one by one.                 *)
LEMMA KeptSteps ==
    ASSUME NEW A, NEW q \in Seq(A), NEW S
    PROVE  \E f : /\ f = [i \in 0 .. Len(q) |->
                            IF i = 0 THEN <<>>
                            ELSE IF q[i] \in S THEN Append(f[i - 1], q[i]) ELSE f[i - 1]]
                  /\ Only(q, S) = f[Len(q)]
<1>1. Len(q) \in Nat
  BY LenProperties
<1> DEFINE Next1(x, i) == IF q[i] \in S THEN Append(x, q[i]) ELSE x
           Good(m) == \E f : f = [i \in 0 .. m |-> IF i = 0 THEN <<>> ELSE Next1(f[i - 1], i)]
           T == {m \in Nat : Good(m)}
<1>2. Good(0)
  <2> DEFINE f == [n \in 0 .. 0 |-> <<>>]
  <2>1. f = [i \in 0 .. 0 |-> IF i = 0 THEN <<>> ELSE Next1(f[i - 1], i)]
    OBVIOUS
  <2> QED BY <2>1
<1>3. ASSUME NEW m \in Nat, Good(m) PROVE Good(m + 1)
  <2>1. PICK f : f = [i \in 0 .. m |-> IF i = 0 THEN <<>> ELSE Next1(f[i - 1], i)]
    BY <1>3
  <2> HIDE DEF Next1
  <2> DEFINE g == [i \in 0 .. m + 1 |-> IF i <= m THEN f[i] ELSE Next1(f[m], m + 1)]
  <2>2. ASSUME NEW i \in 0 .. m + 1
        PROVE  g[i] = IF i = 0 THEN <<>> ELSE Next1(g[i - 1], i)
    <3>1. CASE i = 0
      <4>1. g[0] = f[0]
        OBVIOUS
      <4>2. f[0] = <<>>
        BY <2>1
      <4> QED BY <3>1, <4>1, <4>2
    <3>2. CASE i \in 1 .. m
      <4>1. g[i] = f[i] /\ g[i - 1] = f[i - 1] /\ i # 0 /\ i \in 0 .. m
        BY <3>2
      <4>2. f[i] = Next1(f[i - 1], i)
        BY <2>1, <4>1
      <4> QED BY <4>1, <4>2
    <3>3. CASE i = m + 1
      <4>1. g[m + 1] = Next1(f[m], m + 1) /\ g[m] = f[m] /\ i - 1 = m /\ i # 0
        BY <3>3
      <4> QED BY <3>3, <4>1
    <3> QED BY <3>1, <3>2, <3>3
  <2>3. g = [i \in 0 .. m + 1 |-> g[i]]
    OBVIOUS
  <2> HIDE DEF g
  <2>4. g = [i \in 0 .. m + 1 |-> IF i = 0 THEN <<>> ELSE Next1(g[i - 1], i)]
    BY <2>2, <2>3
  <2> QED BY <2>4
<1> HIDE DEF Good
<1>4. Good(Len(q))
  <2>1. 0 \in T /\ \A m \in 0 .. Len(q) - 1 : m \in T => m + 1 \in T
    BY <1>2, <1>3
  <2> HIDE DEF T
  <2>2. Len(q) \in T
    BY <1>1, <2>1, UpTo
  <2> QED BY <1>1, <2>2 DEF T
<1>5. \E f : f = [i \in 0 .. Len(q) |->
                    IF i = 0 THEN <<>>
                    ELSE IF q[i] \in S THEN Append(f[i - 1], q[i]) ELSE f[i - 1]]
  BY <1>4 DEF Good
<1> DEFINE kept[i \in 0 .. Len(q)] ==
              IF i = 0 THEN <<>>
              ELSE IF q[i] \in S THEN Append(kept[i - 1], q[i]) ELSE kept[i - 1]
<1>6. kept = [i \in 0 .. Len(q) |->
                IF i = 0 THEN <<>>
                ELSE IF q[i] \in S THEN Append(kept[i - 1], q[i]) ELSE kept[i - 1]]
  BY <1>5
<1>7. Only(q, S) = kept[Len(q)]
  BY DEF Only
<1> HIDE DEF kept
<1> QED BY <1>6, <1>7

(* The members of a sequence.                                                *)
LEMMA Members ==
    ASSUME NEW A, NEW s \in Seq(A)
    PROVE  ToSet(s) = {s[i] : i \in 1 .. Len(s)} /\ ToSet(s) \subseteq A
BY LenProperties, ElementOfSeq DEF ToSet

LEMMA Member ==
    ASSUME NEW A, NEW s \in Seq(A), NEW n \in 1 .. Len(s)
    PROVE  s[n] \in ToSet(s)
BY Members

LEMMA MembersEmpty == ToSet(<<>>) = {}
BY DEF ToSet

LEMMA MembersNone == ASSUME NEW A, NEW s \in Seq(A) PROVE s = <<>> <=> ToSet(s) = {}
<1>1. s # <<>> => Len(s) \in Nat \ {0}
  BY EmptySeq
<1>2. s # <<>> => s[1] \in ToSet(s)
  BY <1>1, Members
<1> QED BY <1>2, MembersEmpty

LEMMA MembersAppend ==
    ASSUME NEW A, NEW s \in Seq(A), NEW e \in A
    PROVE  Append(s, e) \in Seq(A) /\ ToSet(Append(s, e)) = ToSet(s) \cup {e}
<1> DEFINE t == Append(s, e)
<1>1. /\ t \in Seq(A) /\ Len(t) = Len(s) + 1 /\ Len(s) \in Nat
      /\ \A i \in 1 .. Len(s) : t[i] = s[i]
      /\ t[Len(s) + 1] = e
  BY AppendProperties, LenProperties
<1> HIDE DEF t
<1>2. \A x \in ToSet(t) : x \in ToSet(s) \cup {e}
  BY <1>1, Members
<1>3. \A x \in ToSet(s) : x \in ToSet(t)
  BY <1>1, Members
<1>4. e \in ToSet(t)
  BY <1>1, Members
<1> QED BY <1>1, <1>2, <1>3, <1>4 DEF t

LEMMA MembersConcat ==
    ASSUME NEW A, NEW s \in Seq(A), NEW t \in Seq(A)
    PROVE  s \o t \in Seq(A) /\ ToSet(s \o t) = ToSet(s) \cup ToSet(t)
<1> DEFINE c == s \o t
<1>1. /\ c \in Seq(A) /\ Len(c) = Len(s) + Len(t) /\ Len(s) \in Nat /\ Len(t) \in Nat
      /\ \A i \in 1 .. Len(s) + Len(t) : c[i] = IF i <= Len(s) THEN s[i] ELSE t[i - Len(s)]
  BY ConcatProperties, LenProperties
<1> HIDE DEF c
<1>2. \A x \in ToSet(c) : x \in ToSet(s) \cup ToSet(t)
  <2> SUFFICES ASSUME NEW i \in 1 .. Len(c) PROVE c[i] \in ToSet(s) \cup ToSet(t)
    BY <1>1, Members
  <2>1. CASE i <= Len(s)
    BY <1>1, <2>1, Members
  <2>2. CASE i > Len(s)
    <3>1. c[i] = t[i - Len(s)] /\ i - Len(s) \in 1 .. Len(t)
      BY <1>1, <2>2
    <3> QED BY <3>1, Members
  <2> QED BY <1>1, <2>1, <2>2
<1>3. \A x \in ToSet(s) : x \in ToSet(c)
  BY <1>1, Members
<1>4. \A x \in ToSet(t) : x \in ToSet(c)
  <2> SUFFICES ASSUME NEW i \in 1 .. Len(t) PROVE t[i] \in ToSet(c)
    BY Members
  <2> DEFINE n == Len(s) + i
  <2>1. n \in 1 .. Len(s) + Len(t) /\ ~(n <= Len(s)) /\ n - Len(s) = i /\ n \in 1 .. Len(c)
    BY <1>1
  <2> HIDE DEF n
  <2>2. c[n] = t[i]
    BY <1>1, <2>1
  <2>3. c[n] \in ToSet(c)
    BY <1>1, <2>1, Member
  <2> QED BY <2>2, <2>3
<1> QED BY <1>1, <1>2, <1>3, <1>4 DEF c

(* Part of a sequence.                                                       *)
LEMMA MembersPart ==
    ASSUME NEW A, NEW s \in Seq(A), NEW m \in Nat \ {0}, NEW n \in Nat, n <= Len(s)
    PROVE  SubSeq(s, m, n) \in Seq(A) /\ ToSet(SubSeq(s, m, n)) \subseteq ToSet(s)
<1> DEFINE t == SubSeq(s, m, n)
<1>1. Len(s) \in Nat /\ \A i \in m .. n : s[i] \in A
  BY LenProperties, ElementOfSeq
<1>2. /\ t \in Seq(A)
      /\ Len(t) = IF m <= n THEN n - m + 1 ELSE 0
      /\ \A i \in 1 .. n - m + 1 : t[i] = s[m + i - 1]
  BY <1>1, SubSeqProperties
<1> HIDE DEF t
<1>3. ASSUME NEW i \in 1 .. Len(t) PROVE t[i] \in ToSet(s)
  <2>1. t[i] = s[m + i - 1] /\ m + i - 1 \in 1 .. Len(s)
    BY <1>1, <1>2
  <2> QED BY <2>1, Members
<1>4. ToSet(t) \subseteq ToSet(s)
  BY <1>2, <1>3, Members
<1> QED BY <1>2, <1>4 DEF t

(* Only(q, S) has the members of q that are in S.                            *)
LEMMA OnlyMembers ==
    ASSUME NEW A, NEW q \in Seq(A), NEW S
    PROVE  Only(q, S) \in Seq(A) /\ ToSet(Only(q, S)) = ToSet(q) \cap S
<1>1. PICK f : /\ f = [i \in 0 .. Len(q) |->
                         IF i = 0 THEN <<>>
                         ELSE IF q[i] \in S THEN Append(f[i - 1], q[i]) ELSE f[i - 1]]
               /\ Only(q, S) = f[Len(q)]
  BY KeptSteps
<1>2. Len(q) \in Nat
  BY LenProperties
<1> DEFINE First(m) == {q[i] : i \in 1 .. m}
           T == {m \in 0 .. Len(q) : f[m] \in Seq(A) /\ ToSet(f[m]) = First(m) \cap S}
<1>3. 0 \in T
  <2>1. f[0] = <<>>
    BY <1>1, <1>2
  <2>2. <<>> \in Seq(A)
    BY EmptySeq
  <2>3. First(0) = {}
    OBVIOUS
  <2> HIDE DEF First
  <2>4. f[0] \in Seq(A) /\ ToSet(f[0]) = First(0) \cap S
    BY <2>1, <2>2, <2>3, MembersEmpty
  <2>5. 0 \in 0 .. Len(q)
    BY <1>2
  <2> QED BY <2>4, <2>5
<1>4. ASSUME NEW m \in 0 .. Len(q) - 1, m \in T PROVE m + 1 \in T
  <2>1. m + 1 \in 1 .. Len(q) /\ m + 1 \in 0 .. Len(q) /\ (m + 1) - 1 = m /\ m + 1 # 0
    BY <1>2
  <2>2. f[m + 1] = IF q[m + 1] \in S THEN Append(f[m], q[m + 1]) ELSE f[m]
    BY <1>1, <2>1
  <2>3. q[m + 1] \in A
    BY <2>1, ElementOfSeq
  <2>4. First(m + 1) = First(m) \cup {q[m + 1]}
    BY <2>1
  <2>5. f[m] \in Seq(A) /\ ToSet(f[m]) = First(m) \cap S
    BY <1>4
  <2> HIDE DEF First
  <2>6. CASE q[m + 1] \in S
    <3>1. f[m + 1] \in Seq(A) /\ ToSet(f[m + 1]) = ToSet(f[m]) \cup {q[m + 1]}
      BY <2>2, <2>3, <2>5, <2>6, MembersAppend
    <3> QED BY <2>1, <2>4, <2>5, <2>6, <3>1
  <2>7. CASE q[m + 1] \notin S
    BY <2>1, <2>2, <2>4, <2>5, <2>7
  <2> QED BY <2>6, <2>7
<1>5. Len(q) \in T
  <2> HIDE DEF T
  <2> QED BY <1>2, <1>3, <1>4, UpTo
<1> QED BY <1>1, <1>5, Members

(* Only(_, S) of a concatenation.                                            *)
LEMMA OnlyConcat ==
    ASSUME NEW A, NEW s \in Seq(A), NEW t \in Seq(A), NEW S
    PROVE  Only(s \o t, S) = Only(s, S) \o Only(t, S)
<1> DEFINE c == s \o t
<1>1. /\ c \in Seq(A) /\ Len(c) = Len(s) + Len(t) /\ Len(s) \in Nat /\ Len(t) \in Nat
      /\ \A i \in 1 .. Len(s) + Len(t) : c[i] = IF i <= Len(s) THEN s[i] ELSE t[i - Len(s)]
  BY ConcatProperties, LenProperties
<1> HIDE DEF c
<1>2. PICK f : /\ f = [i \in 0 .. Len(s) |->
                         IF i = 0 THEN <<>>
                         ELSE IF s[i] \in S THEN Append(f[i - 1], s[i]) ELSE f[i - 1]]
               /\ Only(s, S) = f[Len(s)]
  BY KeptSteps
<1>3. PICK g : /\ g = [i \in 0 .. Len(t) |->
                         IF i = 0 THEN <<>>
                         ELSE IF t[i] \in S THEN Append(g[i - 1], t[i]) ELSE g[i - 1]]
               /\ Only(t, S) = g[Len(t)]
  BY KeptSteps
<1>4. PICK h : /\ h = [i \in 0 .. Len(c) |->
                         IF i = 0 THEN <<>>
                         ELSE IF c[i] \in S THEN Append(h[i - 1], c[i]) ELSE h[i - 1]]
               /\ Only(c, S) = h[Len(c)]
  BY <1>1, KeptSteps
<1>5. h[Len(s)] = f[Len(s)]
  <2> DEFINE T == {m \in 0 .. Len(s) : h[m] = f[m]}
  <2>1. 0 \in T
    BY <1>1, <1>2, <1>4
  <2>2. ASSUME NEW m \in 0 .. Len(s) - 1, m \in T PROVE m + 1 \in T
    <3>1. /\ m + 1 \in 0 .. Len(s) /\ m + 1 \in 0 .. Len(c) /\ (m + 1) - 1 = m /\ m + 1 # 0
          /\ c[m + 1] = s[m + 1]
      BY <1>1
    <3>2. f[m + 1] = IF s[m + 1] \in S THEN Append(f[m], s[m + 1]) ELSE f[m]
      BY <1>2, <3>1
    <3>3. h[m + 1] = IF c[m + 1] \in S THEN Append(h[m], c[m + 1]) ELSE h[m]
      BY <1>4, <3>1
    <3> QED BY <2>2, <3>1, <3>2, <3>3
  <2>3. Len(s) \in T
    <3> HIDE DEF T
    <3> QED BY <1>1, <2>1, <2>2, UpTo
  <2> QED BY <2>3
<1>6. Only(s, S) \in Seq(A)
  BY OnlyMembers
<1> DEFINE T == {m \in 0 .. Len(t) : g[m] \in Seq(A) /\ h[Len(s) + m] = Only(s, S) \o g[m]}
<1>7. 0 \in T
  <2>1. g[0] = <<>> /\ <<>> \in Seq(A)
    BY <1>1, <1>3, EmptySeq
  <2>2. Only(s, S) \o <<>> = Only(s, S)
    BY <1>6, ConcatEmptySeq
  <2>3. Len(s) + 0 = Len(s)
    BY <1>1
  <2>4. h[Len(s) + 0] = Only(s, S) \o g[0]
    BY <1>2, <1>5, <2>1, <2>2, <2>3
  <2>5. 0 \in 0 .. Len(t)
    BY <1>1
  <2> QED BY <2>1, <2>4, <2>5
<1>8. ASSUME NEW m \in 0 .. Len(t) - 1, m \in T PROVE m + 1 \in T
  <2> DEFINE n == Len(s) + m + 1
  <2>1. /\ m + 1 \in 0 .. Len(t) /\ m + 1 \in 1 .. Len(t) /\ (m + 1) - 1 = m /\ m + 1 # 0
        /\ n \in 0 .. Len(c) /\ n # 0 /\ n - 1 = Len(s) + m /\ n = Len(s) + (m + 1)
    BY <1>1
  <2>2. c[n] = t[m + 1]
    BY <1>1, <2>1
  <2> HIDE DEF n
  <2>3. g[m + 1] = IF t[m + 1] \in S THEN Append(g[m], t[m + 1]) ELSE g[m]
    BY <1>3, <2>1
  <2>4. h[n] = IF c[n] \in S THEN Append(h[Len(s) + m], c[n]) ELSE h[Len(s) + m]
    BY <1>4, <2>1
  <2>5. t[m + 1] \in A
    BY <2>1, ElementOfSeq
  <2>6. g[m] \in Seq(A) /\ h[Len(s) + m] = Only(s, S) \o g[m]
    BY <1>8
  <2>7. CASE t[m + 1] \in S
    <3> DEFINE e == t[m + 1]
               o == Only(s, S)
               x == g[m]
    <3>1. e \in A /\ o \in Seq(A) /\ x \in Seq(A)
      BY <1>6, <2>5, <2>6
    <3>2. g[m + 1] = Append(x, e) /\ h[n] = Append(o \o x, e)
      BY <2>2, <2>3, <2>4, <2>6, <2>7
    <3> HIDE DEF e, o, x
    <3>3. <<e>> \in Seq(A)
      BY <3>1
    <3>4. Append(x, e) = x \o <<e>> /\ Append(x, e) \in Seq(A)
      BY <3>1, AppendIsConcat, AppendProperties
    <3>5. o \o x \in Seq(A)
      BY <3>1, ConcatProperties
    <3>6. Append(o \o x, e) = (o \o x) \o <<e>>
      BY <3>1, <3>5, AppendIsConcat
    <3>7. (o \o x) \o <<e>> = o \o (x \o <<e>>)
      BY <3>1, <3>3, ConcatAssociative, SMTT(60)
    <3>8. g[m + 1] \in Seq(A) /\ h[n] = o \o g[m + 1]
      BY <3>2, <3>4, <3>6, <3>7
    <3> QED BY <2>1, <3>8 DEF o
  <2>8. CASE t[m + 1] \notin S
    BY <2>1, <2>2, <2>3, <2>4, <2>6, <2>8
  <2> QED BY <2>7, <2>8
<1>9. Len(t) \in T
  <2> HIDE DEF T
  <2> QED BY <1>1, <1>7, <1>8, UpTo
<1> QED BY <1>1, <1>3, <1>4, <1>9 DEF c

LEMMA Params == PickerAssumption
BY AdmissionAssumption DEF AdmissionAssumption

LEMMA Numbers ==
    /\ {Window, Sample, Feedback, Limit, Longer, FreshFor, StaleMax} \subseteq Nat \ {0}
    /\ {MaxWrites, MaxSaves, MaxPicks} \subseteq Nat
    /\ FreshFor <= StaleMax
BY Params DEF PickerAssumption

LEMMA AccountsFinite == IsFiniteSet(Accounts)
<1> DEFINE L == Listed
<1>1. L \in Seq(Accounts) /\ ToSet(L) = Accounts
  BY Params DEF PickerAssumption, Accounts
<1>2. Len(L) \in Nat /\ L \in [1 .. Len(L) -> Accounts]
  BY <1>1, LenProperties
<1> HIDE DEF L
<1>3. \A a \in Accounts : \E i \in 1 .. Len(L) : L[i] = a
  BY <1>1, Members
<1>5. IsFiniteSet(1 .. Len(L))
  BY <1>2, FS_Interval
<1> QED BY <1>2, <1>3, <1>5, FiniteCover

(* An order of a set of accounts has all of them.                            *)
LEMMA OrdersMembers ==
    ASSUME NEW S, S \subseteq Accounts, NEW f \in Orders(S)
    PROVE  f \in Seq(Accounts) /\ ToSet(f) = S
<1> DEFINE n == Cardinality(S)
<1>1. IsFiniteSet(S) /\ n \in Nat
  BY AccountsFinite, FS_Subset, FS_CardinalityType
<1>2. f \in [1 .. n -> S] /\ \A i, j \in 1 .. n : i # j => f[i] # f[j]
  BY DEF Orders, SetToSeqs
<1>3. \A s \in S : \E i \in 1 .. n : f[i] = s
  BY <1>1, <1>2, AllOfThem
<1> HIDE DEF n
<1>7. f \in Seq(Accounts) /\ Len(f) = n
  BY <1>1, <1>2
<1>8. ToSet(f) = {f[i] : i \in 1 .. n}
  BY <1>7, Members
<1> QED BY <1>2, <1>3, <1>7, <1>8

LEMMA TakeMembers ==
    ASSUME NEW q \in Seq(Accounts), NEW n \in Nat
    PROVE  Take(q, n) \in Seq(Accounts) /\ ToSet(Take(q, n)) \subseteq ToSet(q)
<1> DEFINE k == IF n < Len(q) THEN n ELSE Len(q)
<1>1. k \in Nat /\ k <= Len(q) /\ 1 \in Nat \ {0}
  BY LenProperties
<1>2. Take(q, n) = SubSeq(q, 1, k)
  BY DEF Take
<1> HIDE DEF k
<1> QED BY <1>1, <1>2, MembersPart

LEMMA RotatedMembers ==
    ASSUME NEW q \in Seq(Accounts), q # <<>>, NEW n \in Nat
    PROVE  Rotated(q, n) \in Seq(Accounts) /\ ToSet(Rotated(q, n)) \subseteq ToSet(q)
<1> DEFINE k == n % Len(q)
           s == SubSeq(q, k + 1, Len(q))
           t == SubSeq(q, 1, k)
<1>1. Len(q) \in Nat \ {0}
  BY EmptySeq
<1>2. k \in Nat /\ k <= Len(q) /\ k + 1 \in Nat \ {0} /\ 1 \in Nat \ {0} /\ Len(q) \in Nat
  BY <1>1
<1>3. Rotated(q, n) = s \o t
  BY DEF Rotated
<1> HIDE DEF k
<1>4. /\ s \in Seq(Accounts) /\ ToSet(s) \subseteq ToSet(q)
      /\ t \in Seq(Accounts) /\ ToSet(t) \subseteq ToSet(q)
  BY <1>2, MembersPart
<1> HIDE DEF s, t
<1> QED BY <1>3, <1>4, MembersConcat

LEMMA OneMember ==
    ASSUME NEW a \in Accounts PROVE <<a>> \in Seq(Accounts) /\ ToSet(<<a>>) = {a}
<1> DEFINE s == <<a>>
<1>1. s \in Seq(Accounts) /\ Len(s) = 1 /\ s[1] = a
  OBVIOUS
<1> HIDE DEF s
<1>2. ToSet(s) = {s[i] : i \in 1 .. 1}
  BY <1>1, Members
<1> QED BY <1>1, <1>2 DEF s

(* The order of the pool and the windows have only accounts.                 *)
LEMMA PoolOrderMembers ==
    ASSUME NEW pin
    PROVE  /\ PoolOrder(pin) \in Seq(Accounts) /\ ToSet(PoolOrder(pin)) = Accounts
           /\ PoolOrder(pin) # <<>>
<1> DEFINE good == Only(Listed, Accounts \ Spent)
           old == Only(Listed, Spent)
           order == good \o old
<1>1. Listed \in Seq(Accounts) /\ ToSet(Listed) = Accounts /\ Listed # <<>>
  BY Params DEF PickerAssumption, Accounts
<1>2. /\ good \in Seq(Accounts) /\ ToSet(good) = Accounts \cap (Accounts \ Spent)
      /\ old \in Seq(Accounts) /\ ToSet(old) = Accounts \cap Spent
  BY <1>1, OnlyMembers
<1>3. PoolOrder(pin) = Only(order, {pin}) \o Only(order, Accounts \ {pin})
  BY DEF PoolOrder
<1> HIDE DEF good, old
<1>4. order \in Seq(Accounts) /\ ToSet(order) = Accounts
  <2>1. order \in Seq(Accounts) /\ ToSet(order) = ToSet(good) \cup ToSet(old)
    BY <1>2, MembersConcat
  <2> HIDE DEF order
  <2> QED BY <1>2, <2>1
<1> DEFINE x == Only(order, {pin})
           y == Only(order, Accounts \ {pin})
<1> HIDE DEF order
<1>5. /\ x \in Seq(Accounts) /\ ToSet(x) = Accounts \cap {pin}
      /\ y \in Seq(Accounts) /\ ToSet(y) = Accounts \cap (Accounts \ {pin})
  BY <1>4, OnlyMembers
<1> HIDE DEF x, y
<1>6. PoolOrder(pin) \in Seq(Accounts) /\ ToSet(PoolOrder(pin)) = Accounts
  <2>1. x \o y \in Seq(Accounts) /\ ToSet(x \o y) = ToSet(x) \cup ToSet(y)
    BY <1>5, MembersConcat
  <2>2. ToSet(x \o y) = Accounts
    BY <1>5, <2>1
  <2> QED BY <1>3, <2>1, <2>2 DEF x, y
<1>7. Accounts # {}
  BY <1>1, MembersNone
<1> QED BY <1>6, <1>7, MembersNone

LEMMA FastWindowMembers ==
    ASSUME NEW fast \in FastLists, fast # <<>>, NEW n \in Nat
    PROVE  FastWindow(fast, n) \in Seq(Accounts)
<1> DEFINE rest == Only(PoolOrder(None), Accounts \ ToSet(fast))
           last == IF rest = <<>> THEN <<>> ELSE Rotated(rest, n)
<1>1. fast \in Seq(Accounts)
  BY Params DEF PickerAssumption
<1>2. rest \in Seq(Accounts)
  BY PoolOrderMembers, OnlyMembers
<1>3. FastWindow(fast, n) = Take(Rotated(fast, n) \o last, Window)
  BY DEF FastWindow
<1> HIDE DEF rest
<1>4. last \in Seq(Accounts)
  BY <1>2, RotatedMembers, EmptySeq
<1> HIDE DEF last
<1>5. Rotated(fast, n) \o last \in Seq(Accounts)
  BY <1>1, <1>4, RotatedMembers, ConcatProperties
<1> QED BY <1>3, <1>5, Numbers, TakeMembers

LEMMA WindowMembers ==
    ASSUME NEW md, NEW fast \in FastLists, NEW pin, NEW n \in Nat,
           NEW w \in Windows(md, fast, pin, n)
    PROVE  w \in Seq(Accounts)
<1> DEFINE order == PoolOrder(pin)
<1>1. order \in Seq(Accounts) /\ order # <<>>
  BY PoolOrderMembers
<1>2. CASE fast # <<>>
  BY <1>2, FastWindowMembers DEF Windows
<1>3. CASE w = Take(order, Sample)
  BY <1>1, <1>3, Numbers, TakeMembers
<1>4. CASE w = Take(Rotated(order, n), Window)
  BY <1>1, <1>4, Numbers, TakeMembers, RotatedMembers
<1>5. CASE w \in {Take(q, Window) : q \in Orders(Accounts)}
  BY <1>5, Numbers, TakeMembers, OrdersMembers
<1> QED BY <1>2, <1>3, <1>4, <1>5 DEF Windows

LEMMA PinFirstMembers ==
    ASSUME NEW win \in Seq(Accounts), NEW pin \in Pinned \cup {None}
    PROVE  PinFirst(win, pin) \in Seq(Accounts)
<1>1. CASE pin = None
  BY <1>1 DEF PinFirst
<1>2. CASE pin # None
  <2>1. pin \in Accounts
    BY <1>2, Params DEF PickerAssumption
  <2> DEFINE rest == Only(win, Accounts \ {pin})
  <2>2. <<pin>> \in Seq(Accounts) /\ rest \in Seq(Accounts)
    BY <2>1, OneMember, OnlyMembers
  <2>3. PinFirst(win, pin) = Take(<<pin>> \o rest, Window)
    BY <1>2 DEF PinFirst
  <2> HIDE DEF rest
  <2>4. <<pin>> \o rest \in Seq(Accounts)
    BY <2>2, ConcatProperties
  <2> QED BY <2>3, <2>4, Numbers, TakeMembers
<1> QED BY <1>1, <1>2

LEMMA FirstOfMembers ==
    ASSUME NEW rungs, NEW win \in Seq(Accounts)
    PROVE  FirstOf(rungs, win) \in Seq(Accounts)
<1> DEFINE i == CHOOSE i \in DOMAIN rungs :
                    /\ rungs[i] \cap ToSet(win) # {}
                    /\ \A k \in 1 .. i - 1 : rungs[k] \cap ToSet(win) = {}
<1>1. FirstOf(rungs, win) = Only(win, rungs[i])
  BY DEF FirstOf
<1> HIDE DEF i
<1> QED BY <1>1, OnlyMembers

(* The first set is taken when it has an account of the window.              *)
LEMMA FirstRung ==
    ASSUME NEW rungs, NEW win, DOMAIN rungs \subseteq Nat \ {0}, 1 \in DOMAIN rungs,
           rungs[1] \cap ToSet(win) # {}
    PROVE  FirstOf(rungs, win) = Only(win, rungs[1])
<1> DEFINE P(i) == /\ rungs[i] \cap ToSet(win) # {}
                   /\ \A k \in 1 .. i - 1 : rungs[k] \cap ToSet(win) = {}
           i == CHOOSE i \in DOMAIN rungs : P(i)
<1>1. P(1)
  OBVIOUS
<1>2. \A j \in DOMAIN rungs : P(j) => j = 1
  <2> SUFFICES ASSUME NEW j \in DOMAIN rungs, P(j), j # 1 PROVE FALSE
    OBVIOUS
  <2>1. 1 \in 1 .. j - 1
    OBVIOUS
  <2> QED BY <2>1
<1>3. FirstOf(rungs, win) = Only(win, rungs[i])
  BY DEF FirstOf
<1> HIDE DEF P
<1>4. i = 1
  BY <1>1, <1>2
<1> HIDE DEF i
<1> QED BY <1>3, <1>4

Cool(cands, s) == ToSet(cands) \cap Cooling(s)
Sick(cands, s) == {a \in ToSet(cands) : s[a] = "failing"}
Well(cands, s) == ToSet(cands) \ (Cool(cands, s) \cup Sick(cands, s))

(* q consists of the well, the failing and the cooling candidates.           *)
InTurn(q, cands, s, u, v, w) ==
    /\ q = (u \o v) \o w
    /\ u \in Seq(Accounts) /\ ToSet(u) = Well(cands, s)
    /\ v \in Seq(Accounts) /\ ToSet(v) = Sick(cands, s)
    /\ w \in Seq(Accounts) /\ ToSet(w) = Cool(cands, s)

(* A ranking is the well, the failing and the cooling candidates, in turn.   *)
LEMMA RankingsMembers ==
    ASSUME NEW md, NEW cands \in Seq(Accounts), NEW s, NEW q \in Rankings(md, cands, s)
    PROVE  \E u, v, w : InTurn(q, cands, s, u, v, w)
<1>1. PICK u \in Ordered(md, cands, Well(cands, s)), v \in Ordered(md, cands, Sick(cands, s)),
           w \in Orders(Cool(cands, s)) : q = (u \o v) \o w
  <2> DEFINE U == Ordered(md, cands, Well(cands, s))
             V == Ordered(md, cands, Sick(cands, s))
             W == Orders(Cool(cands, s))
  <2> DEFINE R == Rankings(md, cands, s)
             Q == {(u \o v) \o w : u \in U, v \in V, w \in W}
  <2>1. R = Q
    BY DEF Rankings, Well, Sick, Cool
  <2>2. q \in R
    OBVIOUS
  <2> HIDE DEF R, Q, U, V, W
  <2>3. q \in Q
    BY <2>1, <2>2
  <2> USE DEF Q
  <2>4. \E u \in U, v \in V, w \in W : q = (u \o v) \o w
    BY <2>3
  <2> QED BY <2>4 DEF U, V, W
<1>2. ToSet(cands) \subseteq Accounts
  BY Members
<1>3. /\ Well(cands, s) \subseteq ToSet(cands) /\ Sick(cands, s) \subseteq ToSet(cands)
      /\ Cool(cands, s) \subseteq ToSet(cands)
  BY DEF Well, Sick, Cool
<1>4. ASSUME NEW S, S \subseteq ToSet(cands), NEW x \in Ordered(md, cands, S)
      PROVE  x \in Seq(Accounts) /\ ToSet(x) = S
  <2>1. CASE md = "round_robin"
    <3>1. x = Only(cands, S)
      BY <1>4, <2>1 DEF Ordered
    <3>2. ToSet(cands) \cap S = S
      BY <1>4
    <3> QED BY <3>1, <3>2, OnlyMembers
  <2>2. CASE md # "round_robin"
    <3>1. x \in Orders(S) /\ S \subseteq Accounts
      BY <1>2, <1>4, <2>2 DEF Ordered
    <3> QED BY <3>1, OrdersMembers
  <2> QED BY <2>1, <2>2
<1>5. u \in Seq(Accounts) /\ ToSet(u) = Well(cands, s)
  BY <1>1, <1>3, <1>4
<1>6. v \in Seq(Accounts) /\ ToSet(v) = Sick(cands, s)
  BY <1>1, <1>3, <1>4
<1>7. w \in Seq(Accounts) /\ ToSet(w) = Cool(cands, s)
  BY <1>1, <1>2, <1>3, OrdersMembers
<1> QED BY <1>1, <1>5, <1>6, <1>7 DEF InTurn

LEMMA RankedMembers ==
    ASSUME NEW md, NEW cands \in Seq(Accounts), NEW s, NEW q \in Rankings(md, cands, s)
    PROVE  q \in Seq(Accounts) /\ ToSet(q) \subseteq ToSet(cands)
<1>1. PICK u, v, w : InTurn(q, cands, s, u, v, w)
  BY RankingsMembers
<1> DEFINE x == u \o v
<1>2. x \in Seq(Accounts) /\ ToSet(x) = ToSet(u) \cup ToSet(v)
  BY <1>1, MembersConcat DEF InTurn
<1>3. q = x \o w /\ w \in Seq(Accounts)
  BY <1>1 DEF InTurn
<1> HIDE DEF x
<1>4. q \in Seq(Accounts) /\ ToSet(q) = ToSet(x) \cup ToSet(w)
  BY <1>2, <1>3, MembersConcat
<1> QED BY <1>1, <1>2, <1>4 DEF InTurn, Well, Sick, Cool

LEMMA PinPlacedMembers ==
    ASSUME NEW q \in Seq(Accounts), NEW pin, NEW s
    PROVE  PinPlaced(q, pin, s) \in Seq(Accounts)
<1>1. CASE pin \notin ToSet(q)
  BY <1>1 DEF PinPlaced
<1>2. CASE pin \in ToSet(q)
  <2> DEFINE rest == Only(q, Accounts \ {pin})
  <2>1. <<pin>> \in Seq(Accounts) /\ rest \in Seq(Accounts)
    BY <1>2, Members, OneMember, OnlyMembers
  <2>2. PinPlaced(q, pin, s) = rest \o <<pin>> \/ PinPlaced(q, pin, s) = <<pin>> \o rest
    BY <1>2 DEF PinPlaced
  <2> HIDE DEF rest
  <2> QED BY <2>1, <2>2, ConcatProperties
<1> QED BY <1>1, <1>2

LEMMA AttemptsType == ASSUME NEW q, NEW s PROVE Attempts(q, s) \in Nat \ {0}
BY Numbers DEF Attempts

(* What begins with a sequence that has an account b whose token is valid:   *)
(* the first account, and the next if the first has to be refreshed.         *)
LEMMA BeginsWith ==
    ASSUME NEW u \in Seq(Accounts), NEW x \in Seq(Accounts), NEW b \in ToSet(u), b \notin Spent
    PROVE  /\ u \o x \in Seq(Accounts) /\ Len(u \o x) \in Nat \ {0}
           /\ (u \o x)[1] \in ToSet(u)
           /\ (u \o x)[1] \in Spent => Len(u \o x) >= 2 /\ (u \o x)[2] \in ToSet(u)
<1> DEFINE c == u \o x
<1>1. /\ c \in Seq(Accounts) /\ Len(c) = Len(u) + Len(x) /\ Len(u) \in Nat /\ Len(x) \in Nat
      /\ \A i \in 1 .. Len(u) + Len(x) : c[i] = IF i <= Len(u) THEN u[i] ELSE x[i - Len(u)]
  BY ConcatProperties, LenProperties
<1> HIDE DEF c
<1>2. PICK j \in 1 .. Len(u) : u[j] = b
  BY Members
<1>3. 1 \in 1 .. Len(u) /\ Len(c) \in Nat \ {0} /\ c[1] = u[1]
  BY <1>1, <1>2
<1>4. c[1] \in ToSet(u)
  BY <1>3, Member
<1>5. ASSUME c[1] \in Spent PROVE Len(c) >= 2 /\ c[2] \in ToSet(u)
  <2>1. j # 1
    BY <1>2, <1>3, <1>5
  <2>2. 2 \in 1 .. Len(u) /\ Len(c) >= 2 /\ 2 \in 1 .. Len(u) + Len(x)
    BY <1>1, <2>1
  <2>3. c[2] = u[2]
    BY <1>1, <2>2
  <2> QED BY <2>2, <2>3, Member
<1> QED BY <1>1, <1>3, <1>4, <1>5 DEF c

(* When an account of the window whose token is valid is well, the first     *)
(* account that is tried is not out of rotation, nor is the second when the  *)
(* refresh of the first fails.                                               *)
LEMMA BestFirst ==
    ASSUME NEW s \in Table, NEW win \in Seq(Accounts), NEW md, NEW pin,
           NEW q \in Rankings(md, FirstOf(Rungs(s), win), s),
           NEW b \in ToSet(win) \ Spent, s[b] = "normal"
    PROVE  LET r == PinPlaced(q, pin, s)
           IN  /\ Len(r) \in Nat \ {0} /\ s[r[1]] \notin Out
               /\ r[1] \in Spent => Len(r) >= 2 /\ s[r[2]] \notin Out
<1> DEFINE cands == FirstOf(Rungs(s), win)
           Good == {a \in Accounts : s[a] \notin Out}
           r == PinPlaced(q, pin, s)
<1>1. b \in Accounts
  BY Members
<1>2. cands = Only(win, Rungs(s)[1])
  <2>1. DOMAIN Rungs(s) \subseteq Nat \ {0} /\ 1 \in DOMAIN Rungs(s)
        /\ Rungs(s)[1] = Enabled(s) \ Blocked(s)
    BY DEF Rungs
  <2>2. b \in Rungs(s)[1] \cap ToSet(win)
    BY <1>1, <2>1 DEF Enabled, Blocked
  <2> QED BY <2>1, <2>2, FirstRung
<1>3. cands \in Seq(Accounts) /\ ToSet(cands) = ToSet(win) \cap (Enabled(s) \ Blocked(s))
  <2>1. Rungs(s)[1] = Enabled(s) \ Blocked(s)
    BY DEF Rungs
  <2> QED BY <1>2, <2>1, OnlyMembers
<1> HIDE DEF cands
<1>4. Well(cands, s) \subseteq Good /\ b \in Well(cands, s)
  BY <1>1, <1>3 DEF Well, Cool, Sick, Enabled, Blocked, Cooling, Out
<1>11. q \in Rankings(md, cands, s)
  BY DEF cands
<1>12. PICK u, v, w : InTurn(q, cands, s, u, v, w)
  BY <1>3, <1>11, RankingsMembers
<1>5. u \in Seq(Accounts) /\ ToSet(u) = Well(cands, s)
  BY <1>12 DEF InTurn
<1>6. v \o w \in Seq(Accounts) /\ q = u \o (v \o w)
  BY <1>12, ConcatProperties, ConcatAssociative DEF InTurn
<1>7. q \in Seq(Accounts) /\ ToSet(q) \subseteq ToSet(cands)
  BY <1>3, <1>11, RankedMembers
<1> DEFINE x == v \o w
<1>13. x \in Seq(Accounts) /\ q = u \o x
  BY <1>6
<1> HIDE DEF x
<1>8. CASE pin \notin ToSet(q)
  <2>1. r = u \o x
    BY <1>13, <1>8 DEF PinPlaced
  <2> HIDE DEF r
  <2>2. /\ Len(r) \in Nat \ {0} /\ r[1] \in ToSet(u)
        /\ r[1] \in Spent => Len(r) >= 2 /\ r[2] \in ToSet(u)
    BY <1>4, <1>5, <1>13, <2>1, BeginsWith
  <2> QED BY <1>4, <1>5, <2>2 DEF r
<1>9. CASE /\ pin \in ToSet(q)
           /\ pin \in Cooling(s) \cup Blocked(s) \cup Spent \/ s[pin] = "failing"
  <2> DEFINE K == Accounts \ {pin}
             first == Only(u, K)
             rest == Only(x, K)
             last == rest \o <<pin>>
  <2>1. r = Only(q, K) \o <<pin>>
    BY <1>9 DEF PinPlaced
  <2> HIDE DEF K
  <2>2. first \in Seq(Accounts) /\ rest \in Seq(Accounts) /\ ToSet(first) = ToSet(u) \cap K
    BY <1>5, <1>13, OnlyMembers
  <2>3. Only(q, K) = first \o rest
    BY <1>5, <1>13, OnlyConcat
  <2>4. <<pin>> \in Seq(Accounts)
    BY <1>7, <1>9, Members, OneMember
  <2>5. b # pin
    BY <1>1, <1>9 DEF Cooling, Blocked
  <2>6. b \in ToSet(first) /\ b \notin Spent
    BY <1>1, <1>4, <1>5, <2>2, <2>5 DEF K
  <2> HIDE DEF first, rest, r
  <2>9. last \in Seq(Accounts)
    BY <2>2, <2>4, ConcatProperties
  <2>7. r = first \o last
    BY <2>1, <2>2, <2>3, <2>4, ConcatAssociative, SMTT(60)
  <2> HIDE DEF last
  <2>8. /\ Len(r) \in Nat \ {0} /\ r[1] \in ToSet(first)
        /\ r[1] \in Spent => Len(r) >= 2 /\ r[2] \in ToSet(first)
    BY <2>2, <2>6, <2>7, <2>9, BeginsWith
  <2> QED BY <1>4, <1>5, <2>2, <2>8 DEF r, K
<1>10. CASE /\ pin \in ToSet(q)
            /\ ~(pin \in Cooling(s) \cup Blocked(s) \cup Spent \/ s[pin] = "failing")
  <2> DEFINE rest == Only(q, Accounts \ {pin})
  <2>1. r = <<pin>> \o rest
    BY <1>10 DEF PinPlaced
  <2>2. pin \in Accounts /\ pin \in ToSet(cands) /\ pin \notin Spent
    BY <1>7, <1>10, Members
  <2>3. s[pin] \notin Out
    BY <1>3, <1>10, <2>2 DEF Enabled, Cooling, Blocked, Out
  <2>4. <<pin>> \in Seq(Accounts) /\ rest \in Seq(Accounts) /\ ToSet(<<pin>>) = {pin}
    BY <1>7, <2>2, OneMember, OnlyMembers
  <2> HIDE DEF rest, r
  <2>5. Len(r) \in Nat \ {0} /\ r[1] \in ToSet(<<pin>>)
    BY <2>1, <2>2, <2>4, BeginsWith
  <2> QED BY <2>2, <2>3, <2>4, <2>5 DEF r
<1> QED BY <1>8, <1>9, <1>10

-----------------------------------------------------------------------------
(* The picker: types                                                         *)
LEMMA BoundType == Bound \in Nat /\ StaleMax \in Nat /\ MaxSaves * FreshFor \in Nat
BY Numbers DEF Bound

LEMMA ListedMembers ==
    Listed \in Seq(Accounts) /\ Listed # <<>> /\ ToSet(Listed) = Accounts /\ Accounts # {}
<1>1. Listed \in Seq(Accounts) /\ Listed # <<>> /\ ToSet(Listed) = Accounts
  BY Params DEF PickerAssumption, Accounts
<1> QED BY <1>1, MembersNone

LEMMA SomeAccounts == Cardinality(Accounts) \in Nat \ {0}
BY AccountsFinite, ListedMembers, FS_CardinalityType, FS_EmptySet

LEMMA PinnedAccount == ASSUME NEW pin \in Pinned PROVE pin \in Accounts
BY Params DEF PickerAssumption

LEMMA Status1 == Initial \subseteq Status /\ Written \subseteq Status
BY Params DEF PickerAssumption

(* What Acquire returns is an account, and an eligible one if there is any.  *)
LEMMA AcquiredAccount ==
    ASSUME NEW s \in Table, NEW md, NEW n \in Nat, NEW turns \in BOOLEAN,
           turns => Eligible(s) # {},
           NEW a \in LET q == FirstOf(Ladder(s), Listed)
                     IN IF turns THEN {q[(n % Len(q)) + 1]}
                        ELSE IF Eligible(s) # {} THEN ToSet(q) ELSE Recovered(md, q, s)
    PROVE  a \in Accounts /\ (Eligible(s) # {} => a \in Eligible(s))
<1> DEFINE q == FirstOf(Ladder(s), Listed)
<1>1. q \in Seq(Accounts) /\ ToSet(q) \subseteq Accounts
  BY ListedMembers, FirstOfMembers, Members
<1>2. CASE Eligible(s) # {}
  <2>1. DOMAIN Ladder(s) \subseteq Nat \ {0} /\ 1 \in DOMAIN Ladder(s)
        /\ Ladder(s)[1] = Eligible(s)
    BY DEF Ladder
  <2>2. Eligible(s) \subseteq Accounts
    BY DEF Eligible, Enabled
  <2>3. q = Only(Listed, Eligible(s))
    BY <1>2, <2>1, <2>2, ListedMembers, FirstRung
  <2>4. ToSet(q) = Eligible(s)
    <3>1. ToSet(Only(Listed, Eligible(s))) = ToSet(Listed) \cap Eligible(s)
      BY ListedMembers, OnlyMembers
    <3> QED BY <2>2, <2>3, <3>1, ListedMembers
  <2> HIDE DEF q
  <2>5. Len(q) \in Nat \ {0}
    BY <1>1, <1>2, <2>4, MembersEmpty, EmptySeq
  <2>6. (n % Len(q)) + 1 \in 1 .. Len(q)
    BY <2>5
  <2>7. q[(n % Len(q)) + 1] \in ToSet(q)
    BY <1>1, <2>6, Member
  <2> QED BY <1>2, <2>2, <2>4, <2>7 DEF q
<1>3. CASE Eligible(s) = {}
  <2>1. a \in Recovered(md, q, s)
    BY <1>3
  <2>2. Recovered(md, q, s) \subseteq ToSet(q)
    BY DEF Recovered
  <2> QED BY <1>1, <1>3, <2>1, <2>2
<1> QED BY <1>2, <1>3

LEMMA BackupsType ==
    ASSUME NEW p, NEW pin, NEW live \in {<<>>, Listed}, NEW n \in Nat
    PROVE  Backups(p, pin, live, n) \in Seq(Accounts)
<1>1. CASE live = <<>>
  BY <1>1, EmptySeq DEF Backups
<1>2. CASE live # <<>>
  <2> DEFINE able == IF Warm(p) THEN Eligible(cache[p]) ELSE Accounts
             some == Only(Rotated(live, n), able \ (Spent \cup {pin}))
  <2>1. live \in Seq(Accounts)
    BY <1>2, ListedMembers
  <2>2. some \in Seq(Accounts)
    BY <1>2, <2>1, RotatedMembers, OnlyMembers
  <2>3. Backups(p, pin, live, n) = Take(some, Limit - 1)
    BY <1>2 DEF Backups
  <2>4. Limit - 1 \in Nat
    BY Numbers
  <2> HIDE DEF some
  <2> QED BY <2>2, <2>3, <2>4, TakeMembers
<1> QED BY <1>1, <1>2

ChoiceType ==
    /\ cursor \in Nat /\ local \in [Processes -> Nat]
    /\ chain \in [Processes -> Seq(Accounts) \cup {None}]
    /\ window \in [Processes -> SUBSET Accounts]
    /\ picks \in [Processes -> 0 .. MaxPicks]

LEMMA ReturnedType ==
    ASSUME TypeOK, NEW p \in Processes, NEW q \in Seq(Accounts), NEW win \in Seq(Accounts),
           picks[p] < MaxPicks, Returned(p, q, win)
    PROVE  /\ chain' \in [Processes -> Seq(Accounts) \cup {None}]
           /\ window' \in [Processes -> SUBSET Accounts]
           /\ picks' \in [Processes -> 0 .. MaxPicks]
<1>1. q # <<>> => Tail(q) \in Seq(Accounts)
  BY HeadTailProperties
<1>2. \E x \in Seq(Accounts) : chain' = [chain EXCEPT ![p] = x]
  BY <1>1 DEF Returned
<1>3. chain' \in [Processes -> Seq(Accounts) \cup {None}]
  BY <1>2 DEF TypeOK
<1>4. ToSet(win) \subseteq Accounts /\ window' = [window EXCEPT ![p] = ToSet(win)]
  BY Members DEF Returned
<1>5. window' \in [Processes -> SUBSET Accounts]
  BY <1>4 DEF TypeOK
<1>6. picks' \in [Processes -> 0 .. MaxPicks]
  <2>1. picks' = [picks EXCEPT ![p] = picks[p] + 1] /\ MaxPicks \in Nat
    BY Numbers DEF Returned
  <2> QED BY <2>1 DEF TypeOK
<1> QED BY <1>3, <1>5, <1>6

LEMMA StickyType ==
    ASSUME TypeOK, NEW p \in Processes, NEW pin \in Pinned, NEW live \in {<<>>, Listed},
           NEW redis \in BOOLEAN, PickSticky(p, pin, live, redis)
    PROVE  ChoiceType'
<1> DEFINE b == Backups(p, pin, live, IF redis THEN cursor + 1 ELSE 0)
           q == <<pin>> \o b
<1>1. b \in Seq(Accounts)
  <2> DEFINE n == IF redis THEN cursor + 1 ELSE 0
  <2>1. n \in Nat
    BY DEF TypeOK
  <2> HIDE DEF n
  <2>2. Backups(p, pin, live, n) \in Seq(Accounts)
    BY <2>1, BackupsType
  <2> QED BY <2>2 DEF n
<1>2. pin \in Accounts
  BY PinnedAccount
<1>3. <<pin>> \in Seq(Accounts)
  BY <1>2, OneMember
<1>4. /\ chain' = [chain EXCEPT ![p] = q] /\ window' = [window EXCEPT ![p] = ToSet(q)]
      /\ picks' = [picks EXCEPT ![p] = picks[p] + 1] /\ picks[p] < MaxPicks
      /\ local' = local
  BY DEF PickSticky
<1> HIDE DEF b
<1>5. q \in Seq(Accounts)
  BY <1>1, <1>3, ConcatProperties
<1> HIDE DEF q
<1>6. ToSet(q) \subseteq Accounts
  BY <1>5, Members
<1>7. cursor' \in Nat
  BY DEF PickSticky, TypeOK
<1>8. picks' \in [Processes -> 0 .. MaxPicks]
  BY <1>4, Numbers, SMTT(60) DEF TypeOK
<1> QED BY <1>4, <1>5, <1>6, <1>7, <1>8 DEF ChoiceType, TypeOK

(* What a choice from a window returns.                                      *)
LEMMA WindowPick ==
    ASSUME TypeOK, NEW p \in Processes, NEW pin \in Pinned \cup {None},
           NEW live \in {<<>>, Listed}, NEW redis \in BOOLEAN, NEW md \in Modes,
           PickWindow(p, pin, live, redis, md)
    PROVE  /\ picks[p] < MaxPicks /\ cursor' \in Nat /\ local' \in [Processes -> Nat]
           /\ \E win \in Seq(Accounts) :
                 \E q \in Rankings(md, FirstOf(Rungs(Judged(p)), win), Judged(p)) :
                    LET r == PinPlaced(q, pin, Judged(p))
                    IN Returned(p, Take(r, Attempts(r, Judged(p))), win)
<1> DEFINE tried == pin # None /\ StickyReady(p, pin)
           told == IF tried /\ redis /\ live # <<>> /\ Limit > 1 THEN cursor + 1 ELSE cursor
           turns == md = "round_robin" /\ Cardinality(Accounts) > Window
           asks == redis /\ ((md = "round_robin" /\ pin = None) \/ turns)
           n == IF asks THEN told + 1 ELSE local[p]
<1>1. cursor \in Nat /\ local \in [Processes -> Nat]
  BY DEF TypeOK
<1>2. n \in Nat /\ told \in Nat
  BY <1>1
<1>3. /\ picks[p] < MaxPicks
      /\ cursor' = IF asks THEN n ELSE told
      /\ local' = IF turns /\ ~redis
                  THEN [local EXCEPT ![p] = (local[p] + 1) % Cardinality(Accounts)] ELSE local
  BY DEF PickWindow
<1>4. \E fast \in FastLists : \E w \in Windows(md, fast, pin, n) :
         \E q \in Rankings(md, FirstOf(Rungs(Judged(p)), PinFirst(w, pin)), Judged(p)) :
            LET r == PinPlaced(q, pin, Judged(p))
            IN Returned(p, Take(r, Attempts(r, Judged(p))), PinFirst(w, pin))
  BY DEF PickWindow
<1>5. cursor' \in Nat
  BY <1>2, <1>3
<1>6. local' \in [Processes -> Nat]
  BY <1>1, <1>3, SomeAccounts
<1> HIDE DEF tried, told, turns, asks, n
<1>9. PICK fast \in FastLists : \E w \in Windows(md, fast, pin, n) :
         \E q \in Rankings(md, FirstOf(Rungs(Judged(p)), PinFirst(w, pin)), Judged(p)) :
            LET r == PinPlaced(q, pin, Judged(p))
            IN Returned(p, Take(r, Attempts(r, Judged(p))), PinFirst(w, pin))
  BY <1>4
<1>7. PICK w \in Windows(md, fast, pin, n) :
         \E q \in Rankings(md, FirstOf(Rungs(Judged(p)), PinFirst(w, pin)), Judged(p)) :
            LET r == PinPlaced(q, pin, Judged(p))
            IN Returned(p, Take(r, Attempts(r, Judged(p))), PinFirst(w, pin))
  BY <1>9
<1>8. PinFirst(w, pin) \in Seq(Accounts)
  BY <1>2, WindowMembers, PinFirstMembers
<1> QED BY <1>3, <1>5, <1>6, <1>7, <1>8

LEMMA WindowType ==
    ASSUME TypeOK, NEW p \in Processes, NEW pin \in Pinned \cup {None},
           NEW live \in {<<>>, Listed}, NEW redis \in BOOLEAN, NEW md \in Modes,
           PickWindow(p, pin, live, redis, md)
    PROVE  ChoiceType'
<1> DEFINE s == Judged(p)
<1>1. /\ picks[p] < MaxPicks /\ cursor' \in Nat /\ local' \in [Processes -> Nat]
      /\ \E win \in Seq(Accounts) : \E q \in Rankings(md, FirstOf(Rungs(s), win), s) :
            LET r == PinPlaced(q, pin, s) IN Returned(p, Take(r, Attempts(r, s)), win)
  BY WindowPick
<1>8. PICK win \in Seq(Accounts) : \E q \in Rankings(md, FirstOf(Rungs(s), win), s) :
            LET r == PinPlaced(q, pin, s) IN Returned(p, Take(r, Attempts(r, s)), win)
  BY <1>1
<1>2. PICK q \in Rankings(md, FirstOf(Rungs(s), win), s) :
            LET r == PinPlaced(q, pin, s) IN Returned(p, Take(r, Attempts(r, s)), win)
  BY <1>8
<1> DEFINE r == PinPlaced(q, pin, s)
           c == Take(r, Attempts(r, s))
<1>3. q \in Seq(Accounts)
  BY FirstOfMembers, RankedMembers
<1>4. r \in Seq(Accounts)
  BY <1>3, PinPlacedMembers
<1>5. Attempts(r, s) \in Nat
  BY AttemptsType
<1>6. Returned(p, c, win)
  BY <1>2
<1> HIDE DEF r, s
<1>7. c \in Seq(Accounts)
  BY <1>4, <1>5, TakeMembers
<1> HIDE DEF c
<1> QED BY <1>1, <1>6, <1>7, ReturnedType DEF ChoiceType

LEMMA EligibleCount ==
    ASSUME NEW s, Eligible(s) # {} PROVE Cardinality(Eligible(s)) \in Nat \ {0}
<1>1. Eligible(s) \subseteq Accounts
  BY DEF Eligible, Enabled
<1>2. IsFiniteSet(Eligible(s))
  BY <1>1, AccountsFinite, FS_Subset
<1> QED BY <1>2, FS_CardinalityType, FS_EmptySet

(* What the choice of one account returns.                                   *)
LEMMA AcquirePick ==
    ASSUME TypeOK, NEW p \in Processes, NEW redis \in BOOLEAN, NEW md \in Modes,
           Acquire(p, redis, md)
    PROVE  LET s == IF Fresh(p) THEN cache[p] ELSE row
           IN /\ s \in Table
              /\ \/ /\ chain' = [chain EXCEPT ![p] = None]
                    /\ \A a \in Accounts : s[a] = "quota"
                 \/ \E a \in Accounts : /\ chain' = [chain EXCEPT ![p] = <<a>>]
                                        /\ Eligible(s) # {} => a \in Eligible(s)
              /\ ChoiceType'
<1> DEFINE s == IF Fresh(p) THEN cache[p] ELSE row
           some == \E i \in DOMAIN Ladder(s) : Ladder(s)[i] # {}
           turns == md = "round_robin" /\ Eligible(s) # {}
           n == IF redis THEN cursor + 1 ELSE local[p]
           q == FirstOf(Ladder(s), Listed)
           A == IF turns THEN {q[(n % Len(q)) + 1]}
                ELSE IF Eligible(s) # {} THEN ToSet(q) ELSE Recovered(md, q, s)
<1>1. s \in Table
  BY DEF TypeOK, Fresh
<1>2. n \in Nat
  BY DEF TypeOK
<1>3. /\ picks[p] < MaxPicks
      /\ cursor' = IF turns /\ redis THEN n ELSE cursor
      /\ local' = IF turns /\ ~redis
                  THEN [local EXCEPT ![p] = (n + 1) % Cardinality(Eligible(s))] ELSE local
      /\ window' = [window EXCEPT ![p] = Accounts]
      /\ picks' = [picks EXCEPT ![p] = picks[p] + 1]
      /\ IF ~some THEN chain' = [chain EXCEPT ![p] = None]
         ELSE \E a \in A : chain' = [chain EXCEPT ![p] = <<a>>]
  BY DEF Acquire
<1> HIDE DEF n
<1>4. turns => Cardinality(Eligible(s)) \in Nat \ {0}
  BY EligibleCount
<1>5. cursor' \in Nat /\ local' \in [Processes -> Nat]
  BY <1>2, <1>3, <1>4, SMTT(60) DEF TypeOK
<1>6. window' \in [Processes -> SUBSET Accounts] /\ picks' \in [Processes -> 0 .. MaxPicks]
  BY <1>3, Numbers, SMTT(60) DEF TypeOK
<1>7. CASE ~some
  <2>1. 5 \in DOMAIN Ladder(s) /\ Ladder(s)[5] = {a \in Accounts : s[a] # "quota"}
    BY DEF Ladder
  <2>2. \A a \in Accounts : s[a] = "quota"
    BY <1>7, <2>1
  <2>3. chain' = [chain EXCEPT ![p] = None]
    BY <1>3, <1>7
  <2>4. chain' \in [Processes -> Seq(Accounts) \cup {None}]
    BY <2>3 DEF TypeOK
  <2> QED BY <1>1, <1>5, <1>6, <2>2, <2>3, <2>4 DEF ChoiceType
<1>8. CASE some
  <2>1. PICK a \in A : chain' = [chain EXCEPT ![p] = <<a>>]
    BY <1>3, <1>8
  <2>2. turns \in BOOLEAN /\ (turns => Eligible(s) # {})
    OBVIOUS
  <2> HIDE DEF s
  <2>3. a \in Accounts /\ (Eligible(s) # {} => a \in Eligible(s))
    BY <1>1, <1>2, <2>2, AcquiredAccount
  <2>4. chain' \in [Processes -> Seq(Accounts) \cup {None}]
    BY <2>1, <2>3, OneMember DEF TypeOK
  <2> QED BY <1>1, <1>5, <1>6, <2>1, <2>3, <2>4 DEF ChoiceType, s
<1> QED BY <1>7, <1>8

(* The steps that do not choose leave the choices alone.                     *)
LEMMA ChoiceKept == ASSUME TypeOK, UNCHANGED choice PROVE ChoiceType'
BY DEF TypeOK, ChoiceType, choice

LEMMA PoolWriteType ==
    ASSUME TypeOK, NEW new \in Table, Write(new)
    PROVE  row' \in Table /\ since' \in [Accounts -> 0 .. Bound + 1]
BY BoundType DEF TypeOK, Write

LEMMA OvertakeType ==
    ASSUME TypeOK, NEW p \in Processes, Overtake(p)
    PROVE  overtaken' \subseteq Processes /\ overtaken \subseteq overtaken'
BY DEF TypeOK, Overtake

LEMMA PickChoice == ASSUME TypeOK, NEW p \in Processes, Pick(p) PROVE ChoiceType'
BY StickyType, WindowType, AcquirePick DEF Pick

LEMMA PickerTypeStep == TypeOK /\ [Next]_vars => TypeOK'
<1> SUFFICES ASSUME TypeOK, [Next]_vars PROVE TypeOK'
  OBVIOUS
<1> DEFINE Patches == [by : Processes, of : Accounts, to : Status, copy : Table \cup {None}]
<1>1. ASSUME NEW p \in Processes, Select(p) PROVE TypeOK'
  <2>1. loading' \in [Processes -> Table \cup {None}]
    BY <1>1 DEF Select, TypeOK
  <2> QED BY <1>1, <2>1, ChoiceKept DEF Select, TypeOK, ChoiceType, table
<1>2. ASSUME NEW p \in Processes, Publish(p) PROVE TypeOK'
  <2>1. /\ loading' \in [Processes -> Table \cup {None}]
        /\ cache' \in [Processes -> Table \cup {None}]
        /\ age' \in [Processes -> 0 .. StaleMax]
    BY <1>2, BoundType DEF Publish, TypeOK
  <2>2. overtaken' \subseteq Processes
    BY <1>2, OvertakeType DEF Publish
  <2> QED BY <1>2, <2>1, <2>2, ChoiceKept DEF Publish, TypeOK, ChoiceType, table
<1>3. ASSUME NEW p \in Processes, ReadState(p) PROVE TypeOK'
  <2>1. /\ saving' \in [Processes -> Table \cup {None}]
        /\ saves' \in 0 .. MaxSaves
    BY <1>3, Numbers, SMTT(60) DEF ReadState, TypeOK
  <2> QED BY <1>3, <2>1, ChoiceKept DEF ReadState, TypeOK, ChoiceType
<1>4. ASSUME NEW p \in Processes, SaveState(p) PROVE TypeOK'
  <2> DEFINE new == [a \in Accounts |->
                       IF row[a] = "cooling" /\ saving[p][a] \notin {"none", "off", "quota"}
                       THEN "cooling" ELSE saving[p][a]]
  <2>1. saving[p] \in Table
    BY <1>4 DEF SaveState, TypeOK
  <2>2. new \in Table
    BY <2>1 DEF Table, Status
  <2>3. Write(new)
    BY <1>4 DEF SaveState
  <2> HIDE DEF new
  <2>4. row' \in Table /\ since' \in [Accounts -> 0 .. Bound + 1]
    BY <2>2, <2>3, PoolWriteType
  <2>5. /\ saving' \in [Processes -> Table \cup {None}]
        /\ cache' \in [Processes -> Table \cup {None}]
        /\ age' \in [Processes -> 0 .. StaleMax]
    BY <1>4, BoundType DEF SaveState, TypeOK
  <2>6. overtaken' \subseteq Processes
    BY <1>4, OvertakeType DEF SaveState
  <2> QED BY <1>4, <2>4, <2>5, <2>6, ChoiceKept DEF SaveState, TypeOK, ChoiceType
<1>5. ASSUME NEW p \in Processes, Pick(p) PROVE TypeOK'
  <2>1. ChoiceType'
    BY <1>5, PickChoice
  <2>2. ASSUME UNCHANGED <<table, copies>> PROVE TypeOK'
    BY <2>1, <2>2 DEF TypeOK, ChoiceType, table, copies
  <2>3. ASSUME NEW redis \in BOOLEAN, NEW md \in Modes, Acquire(p, redis, md) PROVE TypeOK'
    <3>1. /\ cache' \in [Processes -> Table \cup {None}]
          /\ age' \in [Processes -> 0 .. StaleMax]
      BY <2>3, BoundType DEF Acquire, TypeOK
    <3>2. overtaken' \subseteq Processes
      BY <2>3, OvertakeType DEF Acquire, TypeOK
    <3> QED BY <2>1, <2>3, <3>1, <3>2 DEF Acquire, TypeOK, ChoiceType, table
  <2>4. ASSUME NEW pin, NEW live, NEW redis, PickSticky(p, pin, live, redis) PROVE TypeOK'
    BY <2>2, <2>4 DEF PickSticky
  <2>5. ASSUME NEW pin, NEW live, NEW redis, NEW md, PickWindow(p, pin, live, redis, md)
        PROVE  TypeOK'
    BY <2>2, <2>5 DEF PickWindow
  <2> QED BY <1>5, <2>3, <2>4, <2>5 DEF Pick
<1>6. ASSUME NEW p \in Processes \cup {Elsewhere}, NEW a \in Accounts, NEW st \in Written,
             Patch(p, a, st)
      PROVE  TypeOK'
  <2>1. [row EXCEPT ![a] = st] \in Table
    BY Status1 DEF TypeOK, Table
  <2>2. row' \in Table /\ since' \in [Accounts -> 0 .. Bound + 1]
    BY <1>6, <2>1, PoolWriteType DEF Patch
  <2>3. writes' \in 0 .. MaxWrites
    BY <1>6, Numbers, SMTT(60) DEF Patch, TypeOK
  <2>4. patches' \subseteq Patches
    <3>1. patches \subseteq Patches
      BY DEF TypeOK
    <3>2. CASE p = Elsewhere
      BY <1>6, <3>1, <3>2 DEF Patch
    <3>3. CASE p # Elsewhere
      <4>1. [by |-> p, of |-> a, to |-> st, copy |-> None] \in Patches
        BY <3>3, Status1
      <4> QED BY <1>6, <3>1, <3>3, <4>1 DEF Patch
    <3> QED BY <3>2, <3>3
  <2> QED BY <1>6, <2>2, <2>3, <2>4, ChoiceKept DEF Patch, TypeOK, ChoiceType
<1>7. ASSUME NEW m \in patches, CopyState(m) PROVE TypeOK'
  <2>1. m \in Patches /\ patches \subseteq Patches
    BY DEF TypeOK
  <2>2. cache[m.by] \in Table \cup {None}
    BY <2>1 DEF TypeOK
  <2>3. [m EXCEPT !.copy = cache[m.by]] \in Patches
    BY <2>1, <2>2
  <2>4. patches' \subseteq Patches
    BY <1>7, <2>1, <2>3 DEF CopyState
  <2> QED BY <1>7, <2>4, ChoiceKept DEF CopyState, TypeOK, ChoiceType, table
<1>8. ASSUME NEW m \in patches, UpdateState(m) PROVE TypeOK'
  <2>1. m \in Patches /\ m.copy \in Table
    BY <1>8 DEF UpdateState, TypeOK
  <2>2. [m.copy EXCEPT ![m.of] = m.to] \in Table
    BY <2>1 DEF Table
  <2>3. cache' \in [Processes -> Table \cup {None}]
    BY <1>8, <2>1, <2>2 DEF UpdateState, TypeOK
  <2> QED BY <1>8, <2>3, ChoiceKept DEF UpdateState, TypeOK, ChoiceType, table
<1>9. CASE Tick
  <2>1. age' \in [Processes -> 0 .. StaleMax]
    <3>1. StaleMax \in Nat /\ age \in [Processes -> 0 .. StaleMax]
      BY BoundType DEF TypeOK
    <3>2. \A p \in Processes :
             (IF age[p] < StaleMax THEN age[p] + 1 ELSE StaleMax) \in 0 .. StaleMax
      BY <3>1
    <3>3. age' = [p \in Processes |-> IF age[p] < StaleMax THEN age[p] + 1 ELSE StaleMax]
      BY <1>9 DEF Tick
    <3> QED BY <3>2, <3>3
  <2>2. since' \in [Accounts -> 0 .. Bound + 1]
    BY <1>9, BoundType DEF Tick, TypeOK
  <2> QED BY <1>9, <2>1, <2>2, ChoiceKept DEF Tick, TypeOK, ChoiceType
<1>10. CASE UNCHANGED vars
  BY <1>10, ChoiceKept DEF vars, table, copies, TypeOK, ChoiceType
<1> QED BY <1>1, <1>2, <1>3, <1>4, <1>5, <1>6, <1>7, <1>8, <1>9, <1>10 DEF Next, Step

LEMMA PickerTypeInit == Init => TypeOK
<1> SUFFICES ASSUME Init PROVE TypeOK
  OBVIOUS
<1>1. row \in Table
  BY Status1 DEF Init, Table
<1>2. since \in [Accounts -> 0 .. Bound + 1] /\ age \in [Processes -> 0 .. StaleMax]
  BY BoundType DEF Init
<1>3. /\ writes \in 0 .. MaxWrites /\ saves \in 0 .. MaxSaves
      /\ picks \in [Processes -> 0 .. MaxPicks]
  BY Numbers DEF Init
<1>4. /\ cursor \in Nat /\ local \in [Processes -> Nat]
      /\ cache \in [Processes -> Table \cup {None}]
      /\ loading \in [Processes -> Table \cup {None}]
      /\ saving \in [Processes -> Table \cup {None}]
  BY DEF Init
<1>5. /\ chain \in [Processes -> Seq(Accounts) \cup {None}]
      /\ window \in [Processes -> SUBSET Accounts]
  BY DEF Init
<1>6. patches = {} /\ overtaken = {}
  BY DEF Init
<1> QED BY <1>1, <1>2, <1>3, <1>4, <1>5, <1>6 DEF TypeOK

-----------------------------------------------------------------------------
(* The picker: how far a copy is behind the table                            *)

(* What the saves of the whole state may add.                                *)
Slack == saves * FreshFor

(* An account in which the copy differs from the table has changed at most n *)
(* ticks ago.                                                                *)
Behind(copy, a, n) == copy # None /\ copy[a] # row[a] => since[a] <= n

CacheOK ==
    \A p \in Processes \ overtaken, a \in Accounts :
        age[p] < StaleMax => Behind(cache[p], a, age[p] + Slack)

LoadOK == \A p \in Processes, a \in Accounts : Behind(loading[p], a, 0)

SaveOK == \A p \in Processes \ overtaken, a \in Accounts : Behind(saving[p], a, Slack)

PatchOK == \A m \in patches : m.to # row[m.of] => since[m.of] = 0

CopyOK ==
    \A m \in patches, a \in Accounts :
        m.by \notin overtaken /\ age[m.by] < StaleMax => Behind(m.copy, a, age[m.by] + Slack)

PickerInv == TypeOK /\ CacheOK /\ LoadOK /\ SaveOK /\ PatchOK /\ CopyOK

LEMMA SlackType == ASSUME TypeOK PROVE Slack \in Nat /\ StaleMax + Slack <= Bound
<1>1. saves \in 0 .. MaxSaves /\ MaxSaves \in Nat /\ FreshFor \in Nat /\ StaleMax \in Nat
  BY Numbers DEF TypeOK
<1>2. saves * FreshFor \in Nat /\ saves * FreshFor <= MaxSaves * FreshFor
  BY <1>1
<1> QED BY <1>1, <1>2 DEF Slack, Bound

(* What a write changes has just changed.                                    *)
LEMMA WriteSince ==
    ASSUME TypeOK, NEW new \in Table, Write(new), NEW a \in Accounts
    PROVE  IF row'[a] = row[a] THEN since'[a] = since[a] ELSE since'[a] = 0
BY DEF Write, TypeOK

LEMMA BehindWrite ==
    ASSUME TypeOK, NEW new \in Table, Write(new), NEW a \in Accounts, NEW copy, NEW n \in Nat,
           Behind(copy, a, n)
    PROVE  copy # None /\ copy[a] # row'[a] => since'[a] <= n
BY WriteSince DEF Behind

(* A copy that is stamped anew leaves no amended one that would not be told. *)
LEMMA OvertakeClean ==
    ASSUME TypeOK, NEW p \in Processes, Overtake(p), NEW m \in patches, m.by = p, m.copy # None
    PROVE  p \in overtaken'
BY DEF Overtake

LEMMA PickerInvInit == Init => PickerInv
<1> SUFFICES ASSUME Init PROVE PickerInv
  OBVIOUS
<1>1. TypeOK
  BY PickerTypeInit
<1>2. CacheOK /\ LoadOK /\ SaveOK /\ PatchOK /\ CopyOK
  BY DEF Init, CacheOK, LoadOK, SaveOK, PatchOK, CopyOK, Behind
<1> QED BY <1>1, <1>2 DEF PickerInv

LEMMA PickerInvStep == PickerInv /\ [Next]_vars => PickerInv'
<1> SUFFICES ASSUME PickerInv, [Next]_vars PROVE PickerInv'
  OBVIOUS
<1>0. TypeOK /\ CacheOK /\ LoadOK /\ SaveOK /\ PatchOK /\ CopyOK
  BY DEF PickerInv
<1>t. TypeOK'
  BY <1>0, PickerTypeStep
<1>n. /\ Slack \in Nat /\ Slack' \in Nat /\ StaleMax \in Nat /\ FreshFor \in Nat
      /\ \A p \in Processes : age[p] \in Nat
      /\ \A a \in Accounts : since[a] \in Nat
  <2>1. saves \in Nat /\ saves' \in Nat /\ FreshFor \in Nat /\ StaleMax \in Nat
    BY <1>0, <1>t, Numbers DEF TypeOK
  <2>2. Slack \in Nat /\ Slack' \in Nat
    <3>1. \A x, y \in Nat : x * y \in Nat
      OBVIOUS
    <3>2. Slack = saves * FreshFor /\ Slack' = saves' * FreshFor
      BY DEF Slack
    <3> QED BY <2>1, <3>1, <3>2
  <2>3. \A p \in Processes : age[p] \in Nat
    BY <1>0, <2>1 DEF TypeOK
  <2>4. \A a \in Accounts : since[a] \in Nat
    BY <1>0, BoundType DEF TypeOK
  <2> QED BY <2>1, <2>2, <2>3, <2>4
<1>1. ASSUME NEW p \in Processes, Select(p) PROVE PickerInv'
  <2>1. UNCHANGED <<row, since, saves, cache, age, saving, patches, overtaken>>
        /\ loading' = [loading EXCEPT ![p] = row]
    BY <1>1 DEF Select, table
  <2>2. Slack' = Slack
    BY <2>1 DEF Slack
  <2>3. LoadOK'
    BY <1>0, <2>1 DEF LoadOK, Behind, TypeOK
  <2>4. CacheOK' /\ SaveOK' /\ PatchOK' /\ CopyOK'
    BY <1>0, <2>1, <2>2 DEF CacheOK, SaveOK, PatchOK, CopyOK, Behind
  <2> QED BY <1>t, <2>3, <2>4 DEF PickerInv
<1>2. ASSUME NEW p \in Processes, Publish(p) PROVE PickerInv'
  <2>1. /\ UNCHANGED <<row, since, saves, saving, patches>> /\ loading[p] # None
        /\ cache' = [cache EXCEPT ![p] = loading[p]] /\ age' = [age EXCEPT ![p] = 0]
        /\ loading' = [loading EXCEPT ![p] = None] /\ Overtake(p)
    BY <1>2 DEF Publish, table
  <2>2. Slack' = Slack /\ overtaken \subseteq overtaken'
    BY <1>0, <2>1, OvertakeType DEF Slack
  <2>3. CacheOK'
    <3> SUFFICES ASSUME NEW o \in Processes \ overtaken', NEW a \in Accounts, age'[o] < StaleMax,
                        cache'[o] # None, cache'[o][a] # row[a]
                 PROVE  since[a] <= age'[o] + Slack
      BY <2>1, <2>2 DEF CacheOK, Behind
    <3>1. CASE o = p
      <4>1. cache'[o] = loading[p] /\ age'[o] = 0
        BY <1>0, <2>1, <3>1 DEF TypeOK
      <4>2. since[a] <= 0
        BY <1>0, <2>1, <4>1 DEF LoadOK, Behind
      <4> QED BY <1>n, <4>1, <4>2
    <3>2. CASE o # p
      BY <1>0, <2>1, <2>2, <3>2 DEF CacheOK, Behind, TypeOK
    <3> QED BY <3>1, <3>2
  <2>4. LoadOK'
    BY <1>0, <2>1 DEF LoadOK, Behind, TypeOK
  <2>5. SaveOK' /\ PatchOK'
    BY <1>0, <2>1, <2>2 DEF SaveOK, PatchOK, Behind
  <2>6. CopyOK'
    <3> SUFFICES ASSUME NEW m \in patches, NEW a \in Accounts, m.by \notin overtaken',
                        age'[m.by] < StaleMax, m.copy # None, m.copy[a] # row[a]
                 PROVE  since[a] <= age'[m.by] + Slack
      BY <2>1, <2>2 DEF CopyOK, Behind
    <3>1. m.by # p
      BY <1>0, <2>1, OvertakeClean
    <3> QED BY <1>0, <2>1, <2>2, <3>1 DEF CopyOK, Behind, TypeOK
  <2> QED BY <1>t, <2>3, <2>4, <2>5, <2>6 DEF PickerInv
<1>3. ASSUME NEW p \in Processes, ReadState(p) PROVE PickerInv'
  <2>1. /\ UNCHANGED <<row, since, cache, age, loading, patches, overtaken>>
        /\ cache[p] # None /\ age[p] < FreshFor /\ saves' = saves + 1
        /\ saving' = [saving EXCEPT ![p] = cache[p]]
    BY <1>3 DEF ReadState, Fresh
  <2>2. Slack' = Slack + FreshFor
    BY <1>0, <1>n, <2>1 DEF Slack, TypeOK
  <2>3. age[p] < StaleMax
    BY <1>0, <1>n, <2>1, Numbers DEF TypeOK
  <2>4. SaveOK'
    <3> SUFFICES ASSUME NEW o \in Processes \ overtaken, NEW a \in Accounts,
                        saving'[o] # None, saving'[o][a] # row[a]
                 PROVE  since[a] <= Slack + FreshFor
      BY <2>1, <2>2 DEF SaveOK, Behind
    <3>1. CASE o = p
      <4>1. since[a] <= age[p] + Slack
        BY <1>0, <2>1, <2>3, <3>1 DEF CacheOK, Behind, TypeOK
      <4> QED BY <1>n, <2>1, <4>1
    <3>2. CASE o # p
      <4>1. since[a] <= Slack
        BY <1>0, <2>1, <3>2 DEF SaveOK, Behind, TypeOK
      <4> QED BY <1>n, <4>1
    <3> QED BY <3>1, <3>2
  <2>5. CacheOK'
    <3> SUFFICES ASSUME NEW o \in Processes \ overtaken, NEW a \in Accounts, age[o] < StaleMax,
                        cache[o] # None, cache[o][a] # row[a]
                 PROVE  since[a] <= age[o] + (Slack + FreshFor)
      BY <2>1, <2>2 DEF CacheOK, Behind
    <3>1. since[a] <= age[o] + Slack
      BY <1>0 DEF CacheOK, Behind
    <3> QED BY <1>n, <3>1
  <2>6. LoadOK' /\ PatchOK'
    BY <1>0, <2>1 DEF LoadOK, PatchOK, Behind
  <2>7. CopyOK'
    <3> SUFFICES ASSUME NEW m \in patches, NEW a \in Accounts, m.by \notin overtaken,
                        age[m.by] < StaleMax, m.copy # None, m.copy[a] # row[a]
                 PROVE  since[a] <= age[m.by] + (Slack + FreshFor)
      BY <2>1, <2>2 DEF CopyOK, Behind
    <3>1. since[a] <= age[m.by] + Slack
      BY <1>0 DEF CopyOK, Behind
    <3>2. m.by \in Processes
      BY <1>0 DEF TypeOK
    <3> QED BY <1>n, <3>1, <3>2
  <2> QED BY <1>t, <2>4, <2>5, <2>6, <2>7 DEF PickerInv
<1>4. ASSUME NEW p \in Processes, SaveState(p) PROVE PickerInv'
  <2> DEFINE new == [a \in Accounts |->
                       IF row[a] = "cooling" /\ saving[p][a] \notin {"none", "off", "quota"}
                       THEN "cooling" ELSE saving[p][a]]
  <2>1. /\ UNCHANGED <<saves, loading, patches>> /\ saving[p] # None
        /\ cache' = [cache EXCEPT ![p] = saving[p]] /\ age' = [age EXCEPT ![p] = 0]
        /\ saving' = [saving EXCEPT ![p] = None] /\ Overtake(p) /\ Write(new)
    BY <1>4 DEF SaveState
  <2>2. saving[p] \in Table
    BY <1>0, <2>1 DEF TypeOK
  <2>3. new \in Table
    BY <2>2 DEF Table, Status
  <2>4. \A a \in Accounts : row'[a] # saving[p][a] => row'[a] = row[a]
    BY <2>1 DEF Write
  <2> HIDE DEF new
  <2>5. Slack' = Slack /\ overtaken \subseteq overtaken'
    BY <1>0, <2>1, OvertakeType DEF Slack
  <2>6. CacheOK'
    <3> SUFFICES ASSUME NEW o \in Processes \ overtaken', NEW a \in Accounts, age'[o] < StaleMax,
                        cache'[o] # None, cache'[o][a] # row'[a]
                 PROVE  since'[a] <= age'[o] + Slack
      BY <2>5 DEF CacheOK, Behind
    <3>1. CASE o = p
      <4>1. saving[p][a] # row'[a] /\ row'[a] = row[a] /\ age'[o] = 0
        BY <1>0, <2>1, <2>4, <3>1 DEF TypeOK
      <4>2. since[a] <= Slack
        BY <1>0, <2>1, <2>5, <3>1, <4>1 DEF SaveOK, Behind
      <4>3. since'[a] = since[a]
        BY <1>0, <2>1, <2>3, <4>1, WriteSince
      <4> QED BY <1>n, <4>1, <4>2, <4>3
    <3>2. CASE o # p
      <4>1. cache'[o] = cache[o] /\ age'[o] = age[o]
        BY <1>0, <2>1, <3>2 DEF TypeOK
      <4>2. Behind(cache[o], a, age[o] + Slack) /\ age[o] + Slack \in Nat
        BY <1>0, <1>n, <2>5, <4>1 DEF CacheOK
      <4> QED BY <1>0, <2>1, <2>3, <4>1, <4>2, BehindWrite
    <3> QED BY <3>1, <3>2
  <2>7. LoadOK'
    <3> SUFFICES ASSUME NEW o \in Processes, NEW a \in Accounts,
                        loading[o] # None, loading[o][a] # row'[a]
                 PROVE  since'[a] <= 0
      BY <2>1 DEF LoadOK, Behind
    <3>1. Behind(loading[o], a, 0)
      BY <1>0 DEF LoadOK
    <3> QED BY <1>0, <2>1, <2>3, <3>1, BehindWrite
  <2>8. SaveOK'
    <3> SUFFICES ASSUME NEW o \in Processes \ overtaken', NEW a \in Accounts,
                        saving'[o] # None, saving'[o][a] # row'[a]
                 PROVE  since'[a] <= Slack
      BY <2>5 DEF SaveOK, Behind
    <3>1. o # p /\ saving'[o] = saving[o]
      BY <1>0, <2>1 DEF TypeOK
    <3>2. Behind(saving[o], a, Slack)
      BY <1>0, <2>5 DEF SaveOK
    <3> QED BY <1>0, <1>n, <2>1, <2>3, <3>1, <3>2, BehindWrite
  <2>9. PatchOK'
    <3> SUFFICES ASSUME NEW m \in patches, m.to # row'[m.of] PROVE since'[m.of] = 0
      BY <2>1 DEF PatchOK
    <3>1. m.of \in Accounts
      BY <1>0 DEF TypeOK
    <3> QED BY <1>0, <2>1, <2>3, <3>1, WriteSince DEF PatchOK
  <2>10. CopyOK'
    <3> SUFFICES ASSUME NEW m \in patches, NEW a \in Accounts, m.by \notin overtaken',
                        age'[m.by] < StaleMax, m.copy # None, m.copy[a] # row'[a]
                 PROVE  since'[a] <= age'[m.by] + Slack
      BY <2>1, <2>5 DEF CopyOK, Behind
    <3>1. m.by # p /\ m.by \in Processes
      BY <1>0, <2>1, OvertakeClean DEF TypeOK
    <3>2. age'[m.by] = age[m.by]
      BY <1>0, <2>1, <3>1 DEF TypeOK
    <3>3. Behind(m.copy, a, age[m.by] + Slack) /\ age[m.by] + Slack \in Nat
      BY <1>0, <1>n, <2>5, <3>1, <3>2 DEF CopyOK
    <3> QED BY <1>0, <2>1, <2>3, <3>2, <3>3, BehindWrite
  <2> QED BY <1>t, <2>6, <2>7, <2>8, <2>9, <2>10 DEF PickerInv
<1>5. ASSUME NEW p \in Processes, Pick(p) PROVE PickerInv'
  <2>1. ASSUME UNCHANGED <<table, copies>> PROVE PickerInv'
    <3>1. Slack' = Slack
      BY <2>1 DEF Slack, table
    <3>2. CacheOK' /\ LoadOK' /\ SaveOK' /\ PatchOK' /\ CopyOK'
      BY <1>0, <2>1, <3>1 DEF CacheOK, LoadOK, SaveOK, PatchOK, CopyOK, Behind, table, copies
    <3> QED BY <1>t, <3>2 DEF PickerInv
  <2>2. ASSUME NEW redis \in BOOLEAN, NEW md \in Modes, Acquire(p, redis, md) PROVE PickerInv'
    <3>1. /\ UNCHANGED <<row, since, saves, loading, saving, patches>>
          /\ cache' = [cache EXCEPT ![p] = IF Fresh(p) THEN cache[p] ELSE row]
          /\ age' = IF Fresh(p) THEN age ELSE [age EXCEPT ![p] = 0]
          /\ IF Fresh(p) THEN UNCHANGED overtaken ELSE Overtake(p)
      BY <2>2 DEF Acquire, table
    <3>2. Slack' = Slack /\ overtaken \subseteq overtaken'
      BY <1>0, <3>1, OvertakeType DEF Slack
    <3>3. CacheOK'
      <4> SUFFICES ASSUME NEW o \in Processes \ overtaken', NEW a \in Accounts,
                          age'[o] < StaleMax, cache'[o] # None, cache'[o][a] # row[a]
                   PROVE  since[a] <= age'[o] + Slack
        BY <3>1, <3>2 DEF CacheOK, Behind
      <4>1. cache'[o] = cache[o] /\ age'[o] = age[o]
        BY <1>0, <3>1 DEF TypeOK
      <4> QED BY <1>0, <3>2, <4>1 DEF CacheOK, Behind
    <3>4. LoadOK' /\ SaveOK' /\ PatchOK'
      BY <1>0, <3>1, <3>2 DEF LoadOK, SaveOK, PatchOK, Behind
    <3>5. CopyOK'
      <4> SUFFICES ASSUME NEW m \in patches, NEW a \in Accounts, m.by \notin overtaken',
                          age'[m.by] < StaleMax, m.copy # None, m.copy[a] # row[a]
                   PROVE  since[a] <= age'[m.by] + Slack
        BY <3>1, <3>2 DEF CopyOK, Behind
      <4>1. age'[m.by] = age[m.by]
        BY <1>0, <3>1, OvertakeClean DEF TypeOK
      <4> QED BY <1>0, <3>2, <4>1 DEF CopyOK, Behind
    <3> QED BY <1>t, <3>3, <3>4, <3>5 DEF PickerInv
  <2>3. ASSUME NEW pin, NEW live, NEW redis, PickSticky(p, pin, live, redis) PROVE PickerInv'
    BY <2>1, <2>3 DEF PickSticky
  <2>4. ASSUME NEW pin, NEW live, NEW redis, NEW md, PickWindow(p, pin, live, redis, md)
        PROVE  PickerInv'
    BY <2>1, <2>4 DEF PickWindow
  <2> QED BY <1>5, <2>2, <2>3, <2>4 DEF Pick
<1>6. ASSUME NEW p \in Processes \cup {Elsewhere}, NEW b \in Accounts, NEW st \in Written,
             Patch(p, b, st)
      PROVE  PickerInv'
  <2> DEFINE new == [row EXCEPT ![b] = st]
  <2>1. /\ UNCHANGED <<saves, cache, age, loading, saving, overtaken>> /\ Write(new)
        /\ patches' = IF p = Elsewhere THEN patches
                      ELSE patches \cup {[by |-> p, of |-> b, to |-> st, copy |-> None]}
    BY <1>6 DEF Patch
  <2>2. new \in Table
    BY <1>0, Status1 DEF TypeOK, Table
  <2>3. row'[b] = st
    BY <1>0, <2>1 DEF Write, TypeOK, Table
  <2> HIDE DEF new
  <2>4. Slack' = Slack
    BY <2>1 DEF Slack
  <2>5. CacheOK'
    <3> SUFFICES ASSUME NEW o \in Processes \ overtaken, NEW a \in Accounts, age[o] < StaleMax,
                        cache[o] # None, cache[o][a] # row'[a]
                 PROVE  since'[a] <= age[o] + Slack
      BY <2>1, <2>4 DEF CacheOK, Behind
    <3>1. Behind(cache[o], a, age[o] + Slack) /\ age[o] + Slack \in Nat
      BY <1>0, <1>n DEF CacheOK
    <3> QED BY <1>0, <2>1, <2>2, <3>1, BehindWrite
  <2>6. LoadOK'
    <3> SUFFICES ASSUME NEW o \in Processes, NEW a \in Accounts,
                        loading[o] # None, loading[o][a] # row'[a]
                 PROVE  since'[a] <= 0
      BY <2>1 DEF LoadOK, Behind
    <3>1. Behind(loading[o], a, 0)
      BY <1>0 DEF LoadOK
    <3> QED BY <1>0, <2>1, <2>2, <3>1, BehindWrite
  <2>7. SaveOK'
    <3> SUFFICES ASSUME NEW o \in Processes \ overtaken, NEW a \in Accounts,
                        saving[o] # None, saving[o][a] # row'[a]
                 PROVE  since'[a] <= Slack
      BY <2>1, <2>4 DEF SaveOK, Behind
    <3>1. Behind(saving[o], a, Slack)
      BY <1>0 DEF SaveOK
    <3> QED BY <1>0, <1>n, <2>1, <2>2, <3>1, BehindWrite
  <2>8. PatchOK'
    <3> SUFFICES ASSUME NEW m \in patches', m.to # row'[m.of] PROVE since'[m.of] = 0
      BY DEF PatchOK
    <3>1. m \in patches
      BY <2>1, <2>3
    <3>2. m.of \in Accounts
      BY <1>0, <3>1 DEF TypeOK
    <3> QED BY <1>0, <2>1, <2>2, <3>1, <3>2, WriteSince DEF PatchOK
  <2>9. CopyOK'
    <3> SUFFICES ASSUME NEW m \in patches', NEW a \in Accounts, m.by \notin overtaken,
                        age[m.by] < StaleMax, m.copy # None, m.copy[a] # row'[a]
                 PROVE  since'[a] <= age[m.by] + Slack
      BY <2>1, <2>4 DEF CopyOK, Behind
    <3>1. m \in patches
      BY <2>1
    <3>2. m.by \in Processes
      BY <1>0, <3>1 DEF TypeOK
    <3>3. Behind(m.copy, a, age[m.by] + Slack) /\ age[m.by] + Slack \in Nat
      BY <1>0, <1>n, <3>1, <3>2 DEF CopyOK
    <3> QED BY <1>0, <2>1, <2>2, <3>3, BehindWrite
  <2> QED BY <1>t, <2>5, <2>6, <2>7, <2>8, <2>9 DEF PickerInv
<1>7. ASSUME NEW m \in patches, CopyState(m) PROVE PickerInv'
  <2> DEFINE c == [m EXCEPT !.copy = cache[m.by]]
  <2>1. /\ UNCHANGED <<row, since, saves, cache, age, loading, saving, overtaken>>
        /\ patches' \subseteq patches \cup {c}
    BY <1>7 DEF CopyState, table
  <2>2. Slack' = Slack
    BY <2>1 DEF Slack
  <2>3. /\ m.by \in Processes /\ c.by = m.by /\ c.of = m.of /\ c.to = m.to
        /\ c.copy = cache[m.by]
    BY <1>0 DEF TypeOK
  <2> HIDE DEF c
  <2>4. CacheOK' /\ LoadOK' /\ SaveOK'
    BY <1>0, <2>1, <2>2 DEF CacheOK, LoadOK, SaveOK, Behind
  <2>5. PatchOK'
    BY <1>0, <2>1, <2>3 DEF PatchOK
  <2>6. CopyOK'
    <3> SUFFICES ASSUME NEW k \in patches', NEW a \in Accounts, k.by \notin overtaken,
                        age[k.by] < StaleMax, k.copy # None, k.copy[a] # row[a]
                 PROVE  since[a] <= age[k.by] + Slack
      BY <2>1, <2>2 DEF CopyOK, Behind
    <3>1. CASE k \in patches
      BY <1>0, <3>1 DEF CopyOK, Behind
    <3>2. CASE k = c
      BY <1>0, <2>3, <3>2 DEF CacheOK, Behind
    <3> QED BY <2>1, <3>1, <3>2
  <2> QED BY <1>t, <2>4, <2>5, <2>6 DEF PickerInv
<1>8. ASSUME NEW m \in patches, UpdateState(m) PROVE PickerInv'
  <2>1. /\ UNCHANGED <<row, since, saves, age, loading, saving, overtaken>> /\ m.copy # None
        /\ cache' = [cache EXCEPT ![m.by] = [m.copy EXCEPT ![m.of] = m.to]]
        /\ patches' \subseteq patches
    BY <1>8 DEF UpdateState, table
  <2>2. Slack' = Slack
    BY <2>1 DEF Slack
  <2>3. m.by \in Processes /\ m.copy \in Table /\ m.of \in Accounts
    BY <1>0, <2>1 DEF TypeOK
  <2>4. CacheOK'
    <3> SUFFICES ASSUME NEW o \in Processes \ overtaken, NEW a \in Accounts, age[o] < StaleMax,
                        cache'[o] # None, cache'[o][a] # row[a]
                 PROVE  since[a] <= age[o] + Slack
      BY <2>1, <2>2 DEF CacheOK, Behind
    <3>1. CASE o # m.by
      BY <1>0, <2>1, <3>1 DEF CacheOK, Behind, TypeOK
    <3>2. CASE o = m.by /\ a = m.of
      <4>1. cache'[o][a] = m.to
        BY <1>0, <2>1, <2>3, <3>2 DEF TypeOK, Table
      <4>2. since[a] = 0
        BY <1>0, <3>2, <4>1 DEF PatchOK
      <4> QED BY <1>n, <4>2
    <3>3. CASE o = m.by /\ a # m.of
      <4>1. cache'[o][a] = m.copy[a]
        BY <1>0, <2>1, <2>3, <3>3 DEF TypeOK, Table
      <4> QED BY <1>0, <2>1, <3>3, <4>1 DEF CopyOK, Behind
    <3> QED BY <3>1, <3>2, <3>3
  <2>5. LoadOK' /\ SaveOK' /\ PatchOK' /\ CopyOK'
    BY <1>0, <2>1, <2>2 DEF LoadOK, SaveOK, PatchOK, CopyOK, Behind
  <2> QED BY <1>t, <2>4, <2>5 DEF PickerInv
<1>9. CASE Tick
  <2>1. /\ UNCHANGED <<row, saves, cache, loading, saving, patches, overtaken>> /\ patches = {}
        /\ \A p \in Processes : loading[p] = None /\ saving[p] = None
        /\ age' = [p \in Processes |-> IF age[p] < StaleMax THEN age[p] + 1 ELSE StaleMax]
        /\ since' = [a \in Accounts |-> IF since[a] <= Bound THEN since[a] + 1 ELSE Bound + 1]
    BY <1>9 DEF Tick
  <2>2. Slack' = Slack
    BY <2>1 DEF Slack
  <2>3. LoadOK' /\ SaveOK' /\ PatchOK' /\ CopyOK'
    BY <2>1 DEF LoadOK, SaveOK, PatchOK, CopyOK, Behind
  <2>4. CacheOK'
    <3> SUFFICES ASSUME NEW p \in Processes \ overtaken, NEW a \in Accounts,
                        age'[p] < StaleMax, cache[p] # None, cache[p][a] # row[a]
                 PROVE  since'[a] <= age'[p] + Slack
      BY <2>1, <2>2 DEF CacheOK, Behind
    <3>1. age[p] < StaleMax /\ age'[p] = age[p] + 1
      BY <1>n, <2>1
    <3>2. since[a] <= age[p] + Slack
      BY <1>0, <3>1 DEF CacheOK, Behind
    <3>3. since'[a] <= since[a] + 1
      BY <1>0, <1>n, <2>1, BoundType DEF TypeOK
    <3>4. since'[a] \in Nat
      BY <1>t, BoundType DEF TypeOK
    <3> QED BY <1>n, <3>1, <3>2, <3>3, <3>4
  <2> QED BY <1>t, <2>3, <2>4 DEF PickerInv
<1>10. CASE UNCHANGED vars
  <2>1. Slack' = Slack
    BY <1>10 DEF Slack, vars, table
  <2>2. CacheOK' /\ LoadOK' /\ SaveOK' /\ PatchOK' /\ CopyOK'
    BY <1>0, <1>10, <2>1
       DEF CacheOK, LoadOK, SaveOK, PatchOK, CopyOK, Behind, vars, table, copies
  <2> QED BY <1>t, <2>2 DEF PickerInv
<1> QED BY <1>1, <1>2, <1>3, <1>4, <1>5, <1>6, <1>7, <1>8, <1>9, <1>10 DEF Next, Step

(* An account that has its status for longer than the bound has it in every  *)
(* copy that is used.                                                        *)
LEMMA Seen ==
    ASSUME PickerInv, NEW p \in Processes \ overtaken, NEW a \in Accounts, since[a] > Bound
    PROVE  /\ Warm(p) => cache[p][a] = row[a]
           /\ Fresh(p) => cache[p][a] = row[a]
<1>1. TypeOK /\ CacheOK /\ Slack \in Nat /\ StaleMax + Slack <= Bound
  BY SlackType DEF PickerInv
<1>2. age[p] \in Nat /\ since[a] \in Nat /\ FreshFor \in Nat /\ StaleMax \in Nat
      /\ FreshFor <= StaleMax /\ Bound \in Nat
  BY <1>1, Numbers, BoundType DEF TypeOK
<1>3. Fresh(p) => Warm(p)
  BY <1>2 DEF Fresh, Warm
<1>4. ASSUME Warm(p), cache[p][a] # row[a] PROVE FALSE
  <2>1. since[a] <= age[p] + Slack /\ age[p] < StaleMax
    BY <1>1, <1>4 DEF Warm, CacheOK, Behind
  <2> QED BY <1>1, <1>2, <2>1
<1> QED BY <1>3, <1>4

(* How far a copy may be behind the table, however loads, patches and saves  *)
(* of the whole state interleave (settings_pg.py).                           *)
THEOREM PickerInvariant == Spec => []PickerInv
BY PickerInvInit, PickerInvStep, PTL DEF Spec

(* Each pick counts as one of its process.                                   *)
LEMMA PickCounts ==
    ASSUME TypeOK, NEW p \in Processes, Pick(p) PROVE picks' = [picks EXCEPT ![p] = picks[p] + 1]
<1>1. ASSUME NEW pin, NEW live, NEW redis, PickSticky(p, pin, live, redis)
      PROVE  picks' = [picks EXCEPT ![p] = picks[p] + 1]
  BY <1>1 DEF PickSticky
<1>2. ASSUME NEW pin \in Pinned \cup {None}, NEW live \in {<<>>, Listed}, NEW redis \in BOOLEAN,
             NEW md \in Modes, PickWindow(p, pin, live, redis, md)
      PROVE  picks' = [picks EXCEPT ![p] = picks[p] + 1]
  <2>1. ASSUME NEW c, NEW win, Returned(p, c, win)
        PROVE  picks' = [picks EXCEPT ![p] = picks[p] + 1]
    BY <2>1 DEF Returned
  <2> DEFINE s == Judged(p)
  <2>2. \E win \in Seq(Accounts) : \E q \in Rankings(md, FirstOf(Rungs(s), win), s) :
            LET r == PinPlaced(q, pin, s) IN Returned(p, Take(r, Attempts(r, s)), win)
    BY <1>2, WindowPick
  <2> QED BY <2>1, <2>2
<1>3. ASSUME NEW redis, NEW md, Acquire(p, redis, md)
      PROVE  picks' = [picks EXCEPT ![p] = picks[p] + 1]
  BY <1>3 DEF Acquire
<1> QED BY <1>1, <1>2, <1>3 DEF Pick

(* Only the process that picks counts a pick.                                *)
LEMMA WhoPicks ==
    ASSUME TypeOK, [Next]_vars, NEW p \in Processes, picks'[p] # picks[p]
    PROVE  Pick(p)
<1>1. CASE picks' = picks
  BY <1>1
<1>2. ASSUME NEW o \in Processes, Pick(o) PROVE Pick(p)
  <2>1. picks' = [picks EXCEPT ![o] = picks[o] + 1]
    BY <1>2, PickCounts
  <2> QED BY <1>2, <2>1 DEF TypeOK
<1>3. picks' = picks \/ \E o \in Processes : Pick(o)
  BY DEF Next, Step, Select, Publish, ReadState, SaveState, Patch, CopyState, UpdateState, Tick,
         choice, vars
<1> QED BY <1>1, <1>2, <1>3

(* What starts the chain of a request.                                       *)
LEMMA RotationStep ==
    ASSUME PickerInv, [Next]_vars, NEW p \in Processes \ overtaken,
           picks'[p] # picks[p], chain'[p] \notin {None, <<>>},
           row[Head(chain'[p])] \in Out, since[Head(chain'[p])] > Bound,
           NEW b \in window'[p] \ Spent, row[b] = "normal", since[b] > Bound
    PROVE  FALSE
<1>0. TypeOK
  BY DEF PickerInv
<1>t. TypeOK'
  BY <1>0, PickerTypeStep
<1>w. b \in Accounts /\ window'[p] \subseteq Accounts
  BY <1>t DEF TypeOK
<1>s. \A a \in Accounts : since[a] > Bound
         => (Warm(p) => cache[p][a] = row[a]) /\ (Fresh(p) => cache[p][a] = row[a])
  BY Seen
<1>1. ASSUME NEW pin \in Pinned, NEW live \in {<<>>, Listed}, NEW redis \in BOOLEAN,
             PickSticky(p, pin, live, redis)
      PROVE  FALSE
  <2> DEFINE n == IF redis THEN cursor + 1 ELSE 0
             q == <<pin>> \o Backups(p, pin, live, n)
  <2>1. pin \in Accounts
    BY PinnedAccount
  <2>2. n \in Nat
    BY <1>0 DEF TypeOK
  <2>3. chain' = [chain EXCEPT ![p] = q] /\ StickyReady(p, pin)
    BY <1>1 DEF PickSticky
  <2> HIDE DEF n
  <2>4. <<pin>> \in Seq(Accounts) /\ Backups(p, pin, live, n) \in Seq(Accounts)
    BY <2>1, <2>2, OneMember, BackupsType
  <2>5. q \in Seq(Accounts) /\ Len(q) >= 1 /\ q[1] = pin
    BY <2>4, ConcatProperties
  <2> HIDE DEF q
  <2>6. chain'[p] = q
    BY <1>0, <2>3 DEF TypeOK
  <2>7. Head(q) = pin
    BY <2>5
  <2>8. row[pin] \in Out /\ since[pin] > Bound
    BY <2>6, <2>7
  <2>9. row[pin] \in {"none", "normal"}
    BY <1>s, <2>1, <2>3, <2>8 DEF StickyReady
  <2> QED BY <2>8, <2>9 DEF Out
<1>2. ASSUME NEW pin \in Pinned \cup {None}, NEW live \in {<<>>, Listed}, NEW redis \in BOOLEAN,
             NEW md \in Modes, PickWindow(p, pin, live, redis, md)
      PROVE  FALSE
  <2> DEFINE s == Judged(p)
  <2>1. \E win \in Seq(Accounts) : \E q \in Rankings(md, FirstOf(Rungs(s), win), s) :
            LET r == PinPlaced(q, pin, s) IN Returned(p, Take(r, Attempts(r, s)), win)
    BY <1>0, <1>2, WindowPick
  <2>2. PICK win \in Seq(Accounts) : \E q \in Rankings(md, FirstOf(Rungs(s), win), s) :
            LET r == PinPlaced(q, pin, s) IN Returned(p, Take(r, Attempts(r, s)), win)
    BY <2>1
  <2>3. PICK q \in Rankings(md, FirstOf(Rungs(s), win), s) :
            LET r == PinPlaced(q, pin, s) IN Returned(p, Take(r, Attempts(r, s)), win)
    BY <2>2
  <2> DEFINE r == PinPlaced(q, pin, s)
             n == Attempts(r, s)
             c == Take(r, n)
  <2>4. s \in Table
    BY <1>0 DEF Judged, Warm, TypeOK
  <2>5. \A a \in Accounts : since[a] > Bound => s[a] = row[a]
    BY <1>s DEF Judged
  <2>6. Returned(p, c, win)
    BY <2>3
  <2>7. window'[p] = ToSet(win)
    BY <1>0, <2>6 DEF Returned, TypeOK
  <2>8. b \in ToSet(win) \ Spent /\ s[b] = "normal"
    BY <1>w, <2>5, <2>7
  <2> HIDE DEF s
  <2>9. q \in Seq(Accounts)
    BY FirstOfMembers, RankedMembers
  <2>10. r \in Seq(Accounts)
    BY <2>9, PinPlacedMembers
  <2>11. /\ Len(r) \in Nat \ {0} /\ s[r[1]] \notin Out
         /\ r[1] \in Spent => Len(r) >= 2 /\ s[r[2]] \notin Out
    BY <2>4, <2>8, BestFirst
  <2>12. n \in Nat \ {0}
    BY AttemptsType
  <2> HIDE DEF r, n
  <2> DEFINE k == IF n < Len(r) THEN n ELSE Len(r)
  <2>13. k \in Nat \ {0} /\ k <= Len(r)
    BY <2>11, <2>12
  <2>14. c = SubSeq(r, 1, k)
    BY DEF Take
  <2> HIDE DEF k, c
  <2>15. \A i \in 1 .. k : r[i] \in Accounts
    BY <2>10, <2>13, ElementOfSeq
  <2>16. /\ c \in Seq(Accounts) /\ Len(c) = k
         /\ \A i \in 1 .. k : c[i] = r[i]
    BY <2>13, <2>14, <2>15, SubSeqProperties
  <2>17. c # <<>> /\ Head(c) = r[1]
    BY <2>13, <2>16
  <2>18. CASE chain' = [chain EXCEPT ![p] = c]
    <3>1. chain'[p] = c
      BY <1>0, <2>18 DEF TypeOK
    <3>2. r[1] \in Accounts /\ row[r[1]] \in Out /\ since[r[1]] > Bound
      BY <2>13, <2>15, <2>17, <3>1
    <3> QED BY <2>5, <2>11, <3>2
  <2>19. CASE Head(c) \in Spent /\ chain' = [chain EXCEPT ![p] = Tail(c)]
    <3> DEFINE d == Tail(c)
    <3>1. chain'[p] = d
      BY <1>0, <2>19 DEF TypeOK
    <3>2. d \in Seq(Accounts)
      BY <2>16, <2>17, HeadTailProperties
    <3>3. Len(d) = k - 1
      BY <2>16, <2>17, HeadTailProperties
    <3>4. \A i \in 1 .. Len(d) : d[i] = c[i + 1]
      BY <2>16, <2>17, HeadTailProperties
    <3> HIDE DEF d
    <3>5. d # <<>>
      BY <3>1
    <3>6. Len(d) \in Nat \ {0}
      BY <3>2, <3>5, EmptySeq
    <3>7. 1 \in 1 .. Len(d) /\ 2 \in 1 .. k
      BY <2>13, <3>3, <3>6
    <3>8. Head(d) = r[2]
      <4>1. Head(d) = d[1]
        BY <3>2, <3>5
      <4>2. d[1] = c[2]
        BY <3>4, <3>7
      <4> QED BY <2>16, <3>7, <4>1, <4>2
    <3>9. row[r[2]] \in Out /\ since[r[2]] > Bound /\ r[2] \in Accounts
      BY <2>15, <3>1, <3>7, <3>8
    <3> QED BY <2>5, <2>11, <2>17, <2>19, <3>9
  <2> QED BY <2>6, <2>18, <2>19 DEF Returned
<1>3. ASSUME NEW redis \in BOOLEAN, NEW md \in Modes, Acquire(p, redis, md)
      PROVE  FALSE
  <2> DEFINE s == IF Fresh(p) THEN cache[p] ELSE row
  <2>1. /\ \/ chain' = [chain EXCEPT ![p] = None]
           \/ \E a \in Accounts : /\ chain' = [chain EXCEPT ![p] = <<a>>]
                                  /\ Eligible(s) # {} => a \in Eligible(s)
    BY <1>0, <1>3, AcquirePick
  <2>2. chain'[p] # None /\ p \in Processes
    OBVIOUS
  <2>3. PICK a \in Accounts : /\ chain' = [chain EXCEPT ![p] = <<a>>]
                              /\ Eligible(s) # {} => a \in Eligible(s)
    BY <1>0, <2>1, <2>2 DEF TypeOK
  <2>4. chain'[p] = <<a>>
    BY <1>0, <2>3 DEF TypeOK
  <2>5. Head(<<a>>) = a
    OBVIOUS
  <2>6. row[a] \in Out /\ since[a] > Bound
    BY <2>4, <2>5
  <2>7. s[a] \in Out /\ s[b] = "normal"
    BY <1>s, <1>w, <2>6
  <2>8. b \in Eligible(s)
    BY <1>w, <2>7 DEF Eligible, Enabled, Cooling, Blocked
  <2>9. a \in Eligible(s)
    BY <2>3, <2>8
  <2> QED BY <2>7, <2>9 DEF Eligible, Enabled, Cooling, Blocked, Out
<1>4. Pick(p)
  BY <1>0, WhoPicks
<1> QED BY <1>1, <1>2, <1>3, <1>4 DEF Pick

(* No request starts with an account that has long been out of rotation      *)
(* while the accounts it was chosen from hold one that has long been well    *)
(* (try_acquire_sequence, acquire).                                          *)
THEOREM RotationIsLeft == Spec => LeavesRotation
<1>1. PickerInv /\ [Next]_vars =>
         [\A p \in Processes \ overtaken :
             picks'[p] # picks[p] /\ chain'[p] \notin {None, <<>>}
             => LET a == Head(chain'[p])
                IN row[a] \in Out /\ since[a] > Bound
                   => ~\E b \in window'[p] \ Spent : row[b] = "normal" /\ since[b] > Bound]_vars
  BY RotationStep
<1> QED BY <1>1, PickerInvariant, PTL DEF Spec, LeavesRotation

(* Where no account is refused, the chain is one.                            *)
LEMMA StickyChain ==
    ASSUME TypeOK, NEW p \in Processes, NEW pin \in Pinned, NEW live \in {<<>>, Listed},
           NEW redis \in BOOLEAN, PickSticky(p, pin, live, redis)
    PROVE  chain'[p] \in Seq(Accounts)
<1> DEFINE n == IF redis THEN cursor + 1 ELSE 0
           b == Backups(p, pin, live, n)
           q == <<pin>> \o b
<1>1. n \in Nat
  BY DEF TypeOK
<1>2. chain' = [chain EXCEPT ![p] = q]
  BY DEF PickSticky
<1> HIDE DEF n
<1>3. <<pin>> \in Seq(Accounts) /\ b \in Seq(Accounts)
  BY <1>1, PinnedAccount, OneMember, BackupsType
<1> HIDE DEF b
<1>4. q \in Seq(Accounts)
  BY <1>3, ConcatProperties
<1> HIDE DEF q
<1> QED BY <1>2, <1>4 DEF TypeOK

LEMMA WindowChain ==
    ASSUME TypeOK, NEW p \in Processes, NEW pin \in Pinned \cup {None},
           NEW live \in {<<>>, Listed}, NEW redis \in BOOLEAN, NEW md \in Modes,
           PickWindow(p, pin, live, redis, md)
    PROVE  chain'[p] \in Seq(Accounts)
<1> DEFINE s == Judged(p)
<1>1. \E win \in Seq(Accounts) : \E q \in Rankings(md, FirstOf(Rungs(s), win), s) :
         LET r == PinPlaced(q, pin, s) IN Returned(p, Take(r, Attempts(r, s)), win)
  BY WindowPick
<1>2. PICK win \in Seq(Accounts) : \E q \in Rankings(md, FirstOf(Rungs(s), win), s) :
         LET r == PinPlaced(q, pin, s) IN Returned(p, Take(r, Attempts(r, s)), win)
  BY <1>1
<1>3. PICK q \in Rankings(md, FirstOf(Rungs(s), win), s) :
         LET r == PinPlaced(q, pin, s) IN Returned(p, Take(r, Attempts(r, s)), win)
  BY <1>2
<1> DEFINE r == PinPlaced(q, pin, s)
           c == Take(r, Attempts(r, s))
<1>4. q \in Seq(Accounts)
  BY FirstOfMembers, RankedMembers
<1>5. r \in Seq(Accounts)
  BY <1>4, PinPlacedMembers
<1>6. Attempts(r, s) \in Nat
  BY AttemptsType
<1>7. Returned(p, c, win)
  BY <1>3
<1> HIDE DEF r, s
<1>8. c \in Seq(Accounts)
  BY <1>5, <1>6, TakeMembers
<1> HIDE DEF c
<1>9. c # <<>> => Tail(c) \in Seq(Accounts)
  BY <1>8, HeadTailProperties
<1>10. \E x \in Seq(Accounts) : chain' = [chain EXCEPT ![p] = x]
  BY <1>7, <1>8, <1>9 DEF Returned
<1> QED BY <1>10 DEF TypeOK

(* A request is refused only when no account has quota left.                 *)
LEMMA RefusalStep ==
    ASSUME PickerInv, [Next]_vars, NEW p \in Processes \ overtaken,
           picks'[p] # picks[p], chain'[p] = None, NEW a \in Accounts, since[a] > Bound
    PROVE  row[a] = "quota"
<1>1. TypeOK
  BY DEF PickerInv
<1>2. None \notin Seq(Accounts)
  BY Params DEF PickerAssumption
<1>3. PICK redis \in BOOLEAN, md \in Modes : Acquire(p, redis, md)
  <2>1. Pick(p)
    BY <1>1, WhoPicks
  <2> QED BY <1>1, <1>2, <2>1, StickyChain, WindowChain DEF Pick
<1> DEFINE s == IF Fresh(p) THEN cache[p] ELSE row
<1>4. \/ \A x \in Accounts : s[x] = "quota"
      \/ \E x \in Accounts : chain' = [chain EXCEPT ![p] = <<x>>]
  BY <1>1, <1>3, AcquirePick
<1>5. ~\E x \in Accounts : chain' = [chain EXCEPT ![p] = <<x>>]
  <2>1. ASSUME NEW x \in Accounts, chain' = [chain EXCEPT ![p] = <<x>>] PROVE FALSE
    <3>1. chain'[p] = <<x>>
      BY <1>1, <2>1 DEF TypeOK
    <3>2. <<x>> \in Seq(Accounts)
      BY OneMember
    <3> QED BY <1>2, <3>1, <3>2
  <2> QED BY <2>1
<1>6. s[a] = "quota"
  BY <1>4, <1>5
<1>7. s[a] = row[a]
  BY Seen
<1> QED BY <1>6, <1>7

(* A request is refused for want of an account only when no account with a   *)
(* token has quota left (acquire).                                           *)
THEOREM NeverRefusedEarly == Spec => NeverRefused
<1>1. PickerInv /\ [Next]_vars =>
         [\A p \in Processes \ overtaken : picks'[p] # picks[p] /\ chain'[p] = None
             => \A a \in Accounts : row[a] = "quota" \/ since[a] <= Bound]_vars
  <2> SUFFICES ASSUME PickerInv, [Next]_vars, NEW p \in Processes \ overtaken,
                      picks'[p] # picks[p], chain'[p] = None, NEW a \in Accounts,
                      ~(since[a] <= Bound)
               PROVE  row[a] = "quota"
    OBVIOUS
  <2>1. since[a] \in Nat /\ Bound \in Nat
    BY BoundType DEF PickerInv, TypeOK
  <2>2. since[a] > Bound
    BY <2>1
  <2> QED BY <2>2, RefusalStep
<1> QED BY <1>1, PickerInvariant, PTL DEF Spec, NeverRefused

-----------------------------------------------------------------------------
(* The composition                                                           *)

(* What the keys do is a behaviour of their own module, whatever the picker  *)
(* and the settings do beside them.                                          *)
LEMMA KeysRun == AdmissionSpec => Keys!Spec
<1>1. AdmissionInit => Keys!Init
  BY DEF AdmissionInit
<1>2. [PickerNext \/ SettingsNext \/ KeysNext]_admissionVars => [Keys!Next]_Keys!vars
  BY DEF PickerNext, SettingsNext, KeysNext, admissionVars, keysVars, Keys!vars, Keys!stores
<1> QED BY <1>1, <1>2, PTL DEF AdmissionSpec, Keys!Spec

(* And the same of the settings.                                             *)
LEMMA SettingsRun == AdmissionSpec => Settings!Spec
<1>1. AdmissionInit => Settings!Init
  BY DEF AdmissionInit
<1>2. [PickerNext \/ SettingsNext \/ KeysNext]_admissionVars => [Settings!Next]_Settings!vars
  BY DEF PickerNext, SettingsNext, KeysNext, admissionVars, settingsVars, Settings!vars,
         Settings!counts
<1> QED BY <1>1, <1>2, PTL DEF AdmissionSpec, Settings!Spec

(* And of the picker.                                                        *)
LEMMA PickerRun == AdmissionSpec => Spec
<1>1. AdmissionInit => Init
  BY DEF AdmissionInit
<1>2. [PickerNext \/ SettingsNext \/ KeysNext]_admissionVars => [Next]_vars
  BY DEF PickerNext, SettingsNext, KeysNext, admissionVars
<1> QED BY <1>1, <1>2, PTL DEF AdmissionSpec, Spec

(* The types of the three.                                                   *)
THEOREM AdmissionTypes == AdmissionSpec => []TypesOK
<1>1. PickerInv => TypeOK
  BY DEF PickerInv
<1>2. KeysInv => Keys!TypeOK
  BY DEF KeysInv, KeysTypes
<1>3. TypeOK /\ Settings!TypeOK /\ Keys!TypeOK => TypesOK
  BY DEF TypesOK
<1> QED BY <1>1, <1>2, <1>3, PickerRun, PickerInvariant, SettingsRun, SettingsTypes,
           KeysRun, KeysInvariant, PTL

(* No request starts with an account that has long been out of rotation      *)
(* while its window holds one that has long been well, whatever happens to   *)
(* settings and keys beside it (try_acquire_sequence, acquire).              *)
THEOREM RestingStaysOut == AdmissionSpec => LeavesRotation
BY PickerRun, RotationIsLeft, PTL

(* A request is refused for want of an account only when no account with a   *)
(* token has quota left, or had any until a moment ago (acquire).            *)
THEOREM LastResort == AdmissionSpec => NeverRefused
BY PickerRun, NeverRefusedEarly, PTL

(* A key that is revoked or replaced is accepted no longer than its cache    *)
(* lives (_cache_get), while table and file have not come apart.             *)
THEOREM RevokedKeysExpire == AdmissionSpec => []KeyExpires
BY KeysRun, KeysExpire, PTL DEF KeyExpires

(* Only the key that an edit is about changes, as that edit says, and a      *)
(* count of its use changes none (apikeys.py).                               *)
THEOREM OneKeyAnEdit == AdmissionSpec => OnlyItsEdit
<1>1. Keys!OnlyItsEdit => OnlyItsEdit
  BY DEF OnlyItsEdit
<1> QED BY <1>1, KeysRun, OnlyEdits, PTL

(* What a process writes back of a setting was stored no longer ago than its *)
(* interval and a flush, and the mode that it picks by is as recent, unless  *)
(* its last look could not read the setting (_load, get_account_mode).       *)
THEOREM NoStaleSettings == AdmissionSpec => SettingsRecent
<1>1. Settings!SettingsRecent => SettingsRecent
  BY DEF SettingsRecent
<1> QED BY <1>1, SettingsRun, SettingsAreRecent, PTL
=============================================================================
