------------------------------ MODULE Admission ------------------------------
(* What a request is admitted and its account chosen by: the keys of the     *)
(* clients, the settings and the table of the accounts, through the copies   *)
(* that each process keeps of them.  They share no state.                    *)
EXTENDS AccountPicker

CONSTANTS
    Servers,        \* the processes that keep settings and keys
    SettingKeys, Mode, Password, Values, Interval, FlushDelay, ModeTtl, MaxEvents,
    Ids, MaxHash, Ttl, MaxErrors

VARIABLES
    stored, mem, unseen, seen, job, flush, mode, settingSince, events, failed,    \* SettingsStore
    keyTable, file, known, keyJob, made, keySince, keyErrors, astray        \* ApiKeys

settingsVars == <<stored, mem, unseen, seen, job, flush, mode, settingSince, events, failed>>
keysVars == <<keyTable, file, known, keyJob, made, keySince, keyErrors, astray>>
admissionVars == <<vars, settingsVars, keysVars>>

Settings == INSTANCE SettingsStore
    WITH Processes <- Servers, Keys <- SettingKeys, since <- settingSince
Keys == INSTANCE ApiKeys
    WITH Processes <- Servers, table <- keyTable, job <- keyJob, since <- keySince,
         errors <- keyErrors

ASSUME AdmissionAssumption ==
    PickerAssumption /\ Settings!SettingsAssumption /\ Keys!ApiKeysAssumption

AdmissionInit == Init /\ Settings!Init /\ Keys!Init

PickerNext == Next /\ UNCHANGED <<settingsVars, keysVars>>
SettingsNext == Settings!Next /\ UNCHANGED <<vars, keysVars>>
KeysNext == Keys!Next /\ UNCHANGED <<vars, settingsVars>>

AdmissionSpec ==
    AdmissionInit /\ [][PickerNext \/ SettingsNext \/ KeysNext]_admissionVars

-----------------------------------------------------------------------------
(* The types of the three.                                                   *)
TypesOK == TypeOK /\ Settings!TypeOK /\ Keys!TypeOK

(* The properties of the settings and the keys, stated in their modules.     *)
SettingsRecent == Settings!SettingsRecent
LoginUsesStored == Settings!LoginUsesStored
KeyExpires == Keys!KeyExpires
OnlyItsEdit == Keys!OnlyItsEdit
=============================================================================
