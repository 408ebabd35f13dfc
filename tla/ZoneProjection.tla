--------------------------- MODULE ZoneProjection ---------------------------
(***************************************************************************)
(* Zone discovery (coordinator.py, _async_discover_zone_profiles and its   *)
(* two schedules), the stored projection manifest                          *)
(* (zone_projection_storage.py) and the registry rows a setup of the entry *)
(* retires and projects (register_entities.py), for the CP020 slots of one *)
(* node.  The startup, retry and monitor tasks of a coordinator run its    *)
(* passes one after the other; each await of a pass is a point where the   *)
(* entry, the storage and the device go on.                                *)
(***************************************************************************)
EXTENDS Integers, FiniteSets

CONSTANTS
    SlotCount,       \* candidate slots of the pass, in its order
    Clocked,         \* slots with a clock value, which has a companion UID
    Overridden,      \* slots with an explicit False in zone_overrides
    MaxRetries,      \* _ZONE_DISCOVERY_MAX_RETRIES
    ZoneEnvironments \* what may go wrong or change: each behaviour has one of these

ZoneEvents == {"unread", "label", "deadline", "save_fails", "load_fails", "budget",
               "device", "reload", "restart"}
Functions == {"off", "on", "strange"}   \* zero, a zone function, not in the enum
Slots == 1..SlotCount

ASSUME ZoneAssumption ==
    /\ SlotCount \in Nat \ {0} /\ MaxRetries \in Nat \ {0}
    /\ Clocked \subseteq Slots /\ Overridden \subseteq Slots
    /\ ZoneEnvironments \subseteq
          [happens : SUBSET ZoneEvents, functions : SUBSET Functions]

ReadStates == {"unknown", "active", "disabled"}

(* A record of the manifest: the UIDs of the slot's rows, those of clock    *)
(* companions told apart, and whether a label was read.                     *)
NoRecord == [uids |-> {}, label |-> FALSE]
ZoneRecords == [uids : SUBSET {"row", "time"}, label : BOOLEAN]
Forgotten == [s \in Slots |-> NoRecord]
NothingRead == [s \in Slots |-> "unknown"]

VARIABLES
    zoneEnv,      \* the environment of this behaviour; it never changes
    device,       \* the value of CP020 in each slot
    store,        \* the stored manifest
    slotRows,     \* slots with rows in the entity registry
    slotLive,     \* slots whose entities the last setup created
    zoneEntry,    \* the config entry; "platforms" are forwarded after the cleanup
    runner,       \* the task that owns the next or the present pass
    attempts,     \* passes of the retry task that were incomplete
    asked,        \* a reload was scheduled by a pass
    cursor,       \* _ZONE_DISCOVERY_CURSOR; a reload keeps it
    pass,         \* the present pass
    records,      \* zone_projection_history
    states,       \* zone_profile_states
    profiles,     \* slots whose zone_profiles entry is active
    confirmed,    \* _zone_confirmed_active_slots
    blocked,      \* _zone_projection_store_blocked
    lastOn,       \* history: passes begun since the slot was last read active
    lastKnown,    \* history: what the slot was last found to be, ever
    heard,        \* history: slots last found active in this session
    withheld,     \* history: slots the last setup left out despite a record, or all
                  \* of them if it came in the middle of a pass
    overtaken     \* history: a setup loaded another manifest than the coordinator had

coordinator == <<records, states, profiles, confirmed, blocked>>
schedule == <<runner, attempts, asked>>
zoneHistory == <<lastOn, lastKnown, heard, overtaken>>
rowVars == <<slotRows, slotLive, withheld>>
zoneVars == <<zoneEnv, device, store, rowVars, zoneEntry, schedule, cursor, pass, coordinator,
              zoneHistory>>

NoPass == [at |-> "idle", offset |-> 0, complete |-> TRUE, shared |-> FALSE,
           states |-> NothingRead, profiles |-> {}, previous |-> Forgotten,
           saving |-> Forgotten, changed |-> FALSE]

ZoneTypeOK ==
    /\ zoneEnv \in ZoneEnvironments
    /\ device \in [Slots -> Functions]
    /\ store \in [Slots -> ZoneRecords] /\ records \in [Slots -> ZoneRecords]
    /\ slotRows \subseteq Slots /\ slotLive \subseteq Slots /\ withheld \subseteq Slots
    /\ zoneEntry \in {"down", "setup", "platforms", "retry", "loaded"}
    /\ runner \in {"none", "startup", "retry", "monitor"}
    /\ attempts \in 0..MaxRetries - 1 /\ asked \in BOOLEAN
    /\ cursor \in 0..SlotCount - 1
    /\ pass \in [at : {"idle", "function", "label", "save"}, offset : 0..SlotCount - 1,
                 complete : BOOLEAN, shared : BOOLEAN, states : [Slots -> ReadStates],
                 profiles : SUBSET Slots, previous : [Slots -> ZoneRecords],
                 saving : [Slots -> ZoneRecords], changed : BOOLEAN]
    /\ states \in [Slots -> ReadStates] /\ profiles \subseteq Slots
    /\ confirmed \subseteq Slots /\ blocked \in BOOLEAN
    /\ lastOn \in [Slots -> 0..2] /\ lastKnown \in [Slots -> {"none", "on", "off"}]
    /\ heard \subseteq Slots /\ overtaken \in BOOLEAN

ZoneInit ==
    /\ zoneEnv \in ZoneEnvironments
    /\ device \in [Slots -> zoneEnv.functions]
    /\ store = Forgotten /\ slotRows = {} /\ slotLive = {} /\ withheld = {}
    /\ zoneEntry = "down" /\ runner = "none" /\ attempts = 0 /\ asked = FALSE
    /\ cursor = 0 /\ pass = NoPass
    /\ records = Forgotten /\ states = NothingRead /\ profiles = {}
    /\ confirmed = {} /\ blocked = FALSE
    /\ lastOn = [s \in Slots |-> 2] /\ lastKnown = [s \in Slots |-> "none"] /\ heard = {}
    /\ overtaken = FALSE

-----------------------------------------------------------------------------
(* What a slot counts as (zones.py). *)

ZoneActive(s) == ~blocked /\ states[s] = "active" /\ s \in profiles

(* What storage makes of a manifest: only UIDs of the known form are kept,  *)
(* and a companion's is not; a record without any is dropped.               *)
Storable(r) == IF "row" \in r.uids THEN [r EXCEPT !.uids = {"row"}] ELSE NoRecord

(* _zone_projection_manifest while the slot is active. *)
Manifest(s) == IF s \in Clocked THEN {"row", "time"} ELSE {"row"}

\* A slip: rows of a slot that had no record are no change.
Changed_Known(recs, previous) ==
    \E s \in Slots : previous[s] # NoRecord /\ recs[s].uids # previous[s].uids
Changed(recs, previous) == \E s \in Slots : recs[s].uids # previous[s].uids

-----------------------------------------------------------------------------
(* The end of a pass, and what its task does then. *)

ZoneReturns(complete, changed) ==
    /\ pass' = NoPass
    /\ \/ /\ runner = "startup"
          /\ runner' = IF complete THEN "monitor" ELSE "retry"
          /\ attempts' = 0
          /\ UNCHANGED asked
       \/ /\ runner \in {"retry", "monitor"} /\ changed
          /\ asked' = TRUE /\ runner' = "none" /\ attempts' = 0
       \/ /\ runner = "retry" /\ ~changed /\ ~complete /\ attempts + 1 < MaxRetries
          /\ attempts' = attempts + 1
          /\ UNCHANGED <<runner, asked>>
       \/ /\ runner = "retry" /\ ~changed /\ ~complete /\ attempts + 1 = MaxRetries
          /\ runner' = "monitor" /\ attempts' = 0
          /\ UNCHANGED asked
       \/ /\ runner \in {"retry", "monitor"} /\ ~changed /\ (runner = "retry" => complete)
          /\ runner' = "monitor" /\ attempts' = 0
          /\ UNCHANGED asked

\* A slip: the cursor runs past the last slot.
NextCursor_Raw(processed) == cursor + processed
NextCursor(processed) == (cursor + processed) % SlotCount

(* All slots were tried, or the budget is used up: p is the pass and recs   *)
(* the manifest then.  A save starts unless the manifest is the same.       *)
Concludes(p, recs) ==
    /\ states' = p.states /\ profiles' = p.profiles
    /\ cursor' = NextCursor(p.offset + 1)
    /\ blocked' = FALSE
    /\ IF recs = p.previous
       THEN ZoneReturns(p.complete, FALSE)
       ELSE /\ pass' = [p EXCEPT !.at = "save", !.saving = [s \in Slots |-> Storable(recs[s])],
                                 !.changed = Changed(recs, p.previous)]
            /\ UNCHANGED schedule

(* From one slot to the next.  Once an active slot was published the pass   *)
(* and the coordinator share their dictionaries.                            *)
Continues(p, recs) ==
    \/ /\ p.offset + 1 < SlotCount
       /\ pass' = [p EXCEPT !.at = "function", !.offset = @ + 1]
       /\ IF p.shared THEN states' = p.states /\ profiles' = p.profiles
                      ELSE UNCHANGED <<states, profiles>>
       /\ UNCHANGED <<cursor, blocked, schedule>>
    \/ /\ p.offset + 1 < SlotCount /\ "deadline" \in zoneEnv.happens
       /\ Concludes([p EXCEPT !.complete = FALSE], recs)
    \/ /\ p.offset + 1 = SlotCount
       /\ Concludes(p, recs)

-----------------------------------------------------------------------------
(* A pass. *)

\* A slip: a pass starts from the states of the last one.
PassStates_Kept == states
PassStates == NothingRead

(* A retry or the monitor first sleeps, in which the setup that waited for  *)
(* the startup goes on to its cleanup.                                      *)
ZonePassBegins ==
    /\ runner # "none" /\ pass.at = "idle"
    /\ zoneEntry = "setup" => runner = "startup"
    /\ pass' = [NoPass EXCEPT !.at = "function", !.states = PassStates,
                              !.profiles = profiles, !.previous = records]
    /\ lastOn' = [s \in Slots |-> IF lastOn[s] = 2 THEN 2 ELSE lastOn[s] + 1]
    /\ UNCHANGED <<zoneEnv, device, store, rowVars, zoneEntry, schedule, cursor, coordinator,
                   lastKnown, heard, overtaken>>

Slot == ((cursor + pass.offset) % SlotCount) + 1

\* A slip: what cannot be read is no zone.
RecordsUnread_Dropped == [records EXCEPT ![Slot] = NoRecord]
RecordsUnread == records

(* CP020 cannot be read, or not as an integer. *)
FunctionUnread ==
    /\ pass.at = "function" /\ "unread" \in zoneEnv.happens
    /\ records' = RecordsUnread
    /\ Continues([pass EXCEPT !.complete = FALSE], records')
    /\ UNCHANGED <<zoneEnv, device, store, rowVars, zoneEntry, confirmed, zoneHistory>>

FunctionOff ==
    /\ pass.at = "function" /\ device[Slot] = "off"
    /\ confirmed' = confirmed \ {Slot}
    /\ records' = [records EXCEPT ![Slot] = NoRecord]
    /\ Continues([pass EXCEPT !.states[Slot] = "disabled", !.profiles = @ \ {Slot}], records')
    /\ lastKnown' = [lastKnown EXCEPT ![Slot] = "off"] /\ heard' = heard \ {Slot}
    /\ UNCHANGED <<zoneEnv, device, store, rowVars, zoneEntry, lastOn, overtaken>>

FunctionStrange ==
    /\ pass.at = "function" /\ device[Slot] = "strange"
    /\ Continues([pass EXCEPT !.complete = FALSE, !.profiles = @ \ {Slot}], records)
    /\ UNCHANGED <<zoneEnv, device, store, rowVars, zoneEntry, records, confirmed, zoneHistory>>

FunctionOn ==
    /\ pass.at = "function" /\ device[Slot] = "on"
    /\ pass' = [pass EXCEPT !.at = "label", !.states[Slot] = "active"]
    /\ states' = IF pass.shared THEN pass'.states ELSE states
    /\ confirmed' = confirmed \cup {Slot}
    /\ lastOn' = [lastOn EXCEPT ![Slot] = 0]
    /\ UNCHANGED <<zoneEnv, device, store, rowVars, zoneEntry, schedule, cursor, records, profiles,
                   blocked, lastKnown, heard, overtaken>>

(* The label was read, or neither of its two reads gave one; either way the *)
(* slot is published and its manifest taken from the rows it now has.       *)
LabelRead ==
    /\ pass.at = "label"
    /\ \E label \in {TRUE, "label" \notin zoneEnv.happens} :
          records' = IF blocked THEN records
                     ELSE [records EXCEPT ![Slot] = [uids |-> Manifest(Slot), label |-> label]]
    /\ Continues([pass EXCEPT !.shared = TRUE, !.profiles = @ \cup {Slot}], records')
    /\ lastKnown' = [lastKnown EXCEPT ![Slot] = "on"] /\ heard' = heard \cup {Slot}
    /\ UNCHANGED <<zoneEnv, device, store, rowVars, zoneEntry, confirmed, lastOn, overtaken>>

SaveLands ==
    /\ pass.at = "save"
    /\ store' = pass.saving
    /\ ZoneReturns(pass.complete, pass.changed)
    /\ UNCHANGED <<zoneEnv, device, rowVars, zoneEntry, cursor, coordinator, zoneHistory>>

SaveFails ==
    /\ pass.at = "save" /\ "save_fails" \in zoneEnv.happens
    /\ records' = pass.previous /\ blocked' = TRUE
    /\ ZoneReturns(FALSE, FALSE)
    /\ UNCHANGED <<zoneEnv, device, store, rowVars, zoneEntry, cursor, states, profiles,
                   confirmed, zoneHistory>>

-----------------------------------------------------------------------------
(* The entry around it (__init__.py, async_setup_entry; its startup task,   *)
(* retries and shutdown are EntryLifecycle).                                *)

(* A setup loads the manifest into the coordinator, a new one or the one    *)
(* whose startup is still running, and waits for the startup.               *)
ZoneSetupBegins ==
    /\ zoneEntry \in {"down", "retry"} /\ ~asked
    /\ zoneEntry' = "setup"
    /\ records' = store
    /\ runner' = IF runner = "none" THEN "startup" ELSE runner
    /\ overtaken' = (overtaken \/ (records # store /\ records # Forgotten))
    /\ UNCHANGED <<zoneEnv, device, store, rowVars, attempts, asked, cursor, pass, states, profiles,
                   confirmed, blocked, lastOn, lastKnown, heard>>

ManifestUnavailable ==
    /\ zoneEntry = "down" /\ "load_fails" \in zoneEnv.happens
    /\ zoneEntry' = "retry"
    /\ UNCHANGED <<zoneEnv, device, store, rowVars, schedule, cursor, pass, coordinator, zoneHistory>>

(* The wait has a budget; the startup goes on. *)
ZoneSetupExpires ==
    /\ zoneEntry = "setup" /\ runner = "startup" /\ "budget" \in zoneEnv.happens
    /\ zoneEntry' = "retry"
    /\ UNCHANGED <<zoneEnv, device, store, rowVars, schedule, cursor, pass, coordinator, zoneHistory>>

\* A slip: without a positive read in this session a row is stale.
Uncertain_NoRecord(s) == states[s] = "unknown" /\ s \notin confirmed
\* Nothing says that the slot ever was a zone.
Uncertain(s) == states[s] = "unknown" /\ records[s] = NoRecord /\ s \notin confirmed

(* cleanup_inactive_zone_entities and rows_for_parent. *)
Stale(s) ==
    \/ states[s] = "disabled"
    \/ s \in Overridden
    \/ Uncertain(s)
    \/ ~ZoneActive(s) /\ records[s] # NoRecord /\ "row" \notin records[s].uids
Projected(s) ==
    \/ ZoneActive(s)
    \/ states[s] = "unknown" /\ "row" \in records[s].uids

(* The cleanup follows the end of the startup at once; the platforms await. *)
RowsCleanedUp ==
    /\ zoneEntry = "setup" /\ (runner \in {"retry", "monitor"} \/ asked)
    /\ zoneEntry' = "platforms"
    /\ slotRows' = {s \in slotRows : ~Stale(s)}
    /\ UNCHANGED <<zoneEnv, device, store, slotLive, withheld, schedule, cursor, pass, coordinator,
                   zoneHistory>>

RowsProjected ==
    /\ zoneEntry = "platforms"
    /\ zoneEntry' = "loaded"
    /\ slotLive' = {s \in Slots : Projected(s)}
    /\ slotRows' = slotRows \cup slotLive'
    /\ withheld' = {s \in Slots : pass.at # "idle" \/ (records[s] # NoRecord /\ ~Projected(s))}
    /\ UNCHANGED <<zoneEnv, device, store, schedule, cursor, pass, coordinator, zoneHistory>>

(* The coordinator is gone, with what it had in memory; a save that was     *)
(* under way has reached the disk or not.                                   *)
CoordinatorLost ==
    /\ zoneEntry' = "down" /\ runner' = "none" /\ attempts' = 0 /\ asked' = FALSE
    /\ pass' = NoPass
    /\ store' \in {store} \cup (IF pass.at = "save" THEN {pass.saving} ELSE {})
    /\ records' = Forgotten /\ states' = NothingRead /\ profiles' = {}
    /\ confirmed' = {} /\ blocked' = FALSE
    /\ lastOn' = [s \in Slots |-> 2] /\ heard' = {} /\ overtaken' = FALSE
    /\ UNCHANGED <<zoneEnv, device, rowVars, lastKnown>>

ZoneReload ==
    /\ zoneEntry = "loaded" /\ (asked \/ "reload" \in zoneEnv.happens)
    /\ CoordinatorLost
    /\ UNCHANGED cursor

(* A reload of an entry that is not loaded sets up the same coordinator.    *)
ReloadInRetry ==
    /\ zoneEntry = "retry" /\ asked
    /\ asked' = FALSE
    /\ UNCHANGED <<zoneEnv, device, store, rowVars, zoneEntry, runner, attempts, cursor, pass,
                   coordinator, zoneHistory>>

ZoneRestart ==
    /\ "restart" \in zoneEnv.happens /\ zoneEntry # "down"
    /\ CoordinatorLost
    /\ cursor' = 0

DeviceChanges ==
    /\ "device" \in zoneEnv.happens
    /\ \E s \in Slots, f \in zoneEnv.functions : f # device[s] /\ device' = [device EXCEPT ![s] = f]
    /\ UNCHANGED <<zoneEnv, store, rowVars, zoneEntry, schedule, cursor, pass, coordinator, zoneHistory>>

PassStep ==
    \/ ZonePassBegins \/ FunctionUnread \/ FunctionOff \/ FunctionStrange \/ FunctionOn
    \/ LabelRead \/ SaveLands \/ SaveFails
EntryStep == ZoneSetupBegins \/ RowsCleanedUp \/ RowsProjected \/ (asked /\ ZoneReload) \/ ReloadInRetry

ZoneNext ==
    \/ PassStep \/ EntryStep
    \/ ManifestUnavailable \/ ZoneSetupExpires \/ ZoneReload \/ ZoneRestart \/ DeviceChanges

ZoneSpec == ZoneInit /\ [][ZoneNext]_zoneVars

(* asyncio resumes every await; both schedules go on for as long as the     *)
(* coordinator lives, and Home Assistant retries a setup and carries out a  *)
(* reload it was asked for.                                                 *)
ZoneFairSpec == ZoneSpec /\ WF_zoneVars(PassStep) /\ WF_zoneVars(EntryStep)

-----------------------------------------------------------------------------
(* Properties. *)

(* A zone counts as active only on a positive read of the present pass or the  *)
(* one before it, in this session: neither a label, a record nor an older read *)
(* authorizes polling (coordinator.py:355, 724).                               *)
ActiveIsFresh == \A s \in Slots : ZoneActive(s) => lastOn[s] <= 1

(* A slot that was last read to be a zone keeps its rows through every         *)
(* uncertainty, if a record of it is stored or it was read in this session     *)
(* (register_entities.py:1789-1812).                                           *)
RowsKept ==
    [][\A s \in slotRows \ slotRows' :
          \/ s \in Overridden
          \/ lastKnown[s] # "on"
          \/ store[s] = NoRecord /\ s \notin heard]_zoneVars

(* The stored record of a slot goes only after the slot was read to be none:   *)
(* no failure, reload or restart drops it (coordinator.py:762, 886).           *)
RecordsSurvive ==
    [][\A s \in Slots : store[s] # NoRecord /\ store'[s] = NoRecord
                          => lastKnown[s] = "off" \/ overtaken]_zoneVars

(* A zone that stays one gets its entities, once reads and saves work again:    *)
(* what the startup pass could not read is found by a retry or the monitor, and *)
(* a change of the manifest sets the entry up anew (coordinator.py:941-1007).   *)
(* Not if the setup had a record of the zone and left it out all the same, or   *)
(* came in the middle of a pass.                                                *)
Works == ~(FunctionUnread \/ SaveFails \/ ZoneSetupExpires \/ ManifestUnavailable
             \/ ZoneRestart \/ DeviceChanges \/ (ZoneReload /\ ~asked))
Shown(s) == zoneEntry = "loaded" /\ device[s] = "on" => s \in slotLive \cup withheld
ZonesReturn ==
    <>[][Works]_zoneVars => []<>(zoneEntry = "loaded") /\ \A s \in Slots : <>[]Shown(s)
=============================================================================
