---------------------------- MODULE MCAdmission -----------------------------
(* Three accounts, three settings and two keys in at most two processes.     *)
(* One of the three components runs in a behaviour.                          *)
EXTENDS Admission, TLC

CONSTANTS a1, a2, a3, p1, q1, q2, k1, k2, pw, c1, c2

MCListed == <<a1, a2, a3>>
MCFastLists == {<<>>, <<a3, a2, a1>>}
MCSettingKeys == <<k1, k2>>

(* The instance is the same after swapping the two processes of settings and *)
(* keys, or the two keys.                                                    *)
Symmetry == Permutations({q1, q2}) \cup Permutations({c1, c2})

VARIABLE part

Both == {"normal", "cooling"}

MCInit ==
    /\ AdmissionInit
    /\ part \in {"picker", "writes", "settings", "keys"}
    /\ part # "picker" => \A a \in Accounts : row[a] = "normal"
    \* A bound on the statuses of the first accounts to begin with.
    /\ row[a1] # "cooling" /\ (part = "picker" => row[a2] # "normal")
    /\ stored[k1] = 0              \* the two values are alike

(* A bound: a write of any status or a save of the whole state, or two       *)
(* writes of the common ones, a save, and a request after the writes have    *)
(* reached the copy.                                                         *)
WithinBound ==
    IF part = "picker" THEN writes' + saves' <= 1
    ELSE /\ row'[a1] \in Both /\ row'[a2] \in Both /\ row'[a3] = "normal"
         /\ picks' # picks => writes = MaxWrites /\ patches = {}

MCNext ==
    /\ \/ part \in {"picker", "writes"} /\ PickerNext /\ WithinBound
       \/ part = "settings" /\ SettingsNext
       \/ part = "keys" /\ KeysNext
    /\ UNCHANGED part

MCSpec == MCInit /\ [][MCNext]_<<part, admissionVars>>
=============================================================================
