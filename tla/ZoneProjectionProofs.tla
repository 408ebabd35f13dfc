------------------------ MODULE ZoneProjectionProofs ------------------------
(***************************************************************************)
(* Theorems about ZoneProjection, for every number of slots and retries,   *)
(* every set of overrides and clock values and every environment.          *)
(***************************************************************************)
EXTENDS ZoneProjection, TLAPS

USE ZoneAssumption

PassRec == [at : {"idle", "function", "label", "save"}, offset : 0..SlotCount - 1,
            complete : BOOLEAN, shared : BOOLEAN, states : [Slots -> ReadStates],
            profiles : SUBSET Slots, previous : [Slots -> ZoneRecords],
            saving : [Slots -> ZoneRecords], changed : BOOLEAN]

(* The type invariant by the steps that can disturb its parts.             *)
OutsideTyped ==
    /\ zoneEnv \in ZoneEnvironments
    /\ device \in [Slots -> Functions]
RowsTyped == slotRows \subseteq Slots /\ slotLive \subseteq Slots /\ withheld \subseteq Slots
StoreTyped == store \in [Slots -> ZoneRecords]
ScheduleTyped ==
    /\ runner \in {"none", "startup", "retry", "monitor"}
    /\ attempts \in 0..MaxRetries - 1 /\ asked \in BOOLEAN
EntryTyped == zoneEntry \in {"down", "setup", "platforms", "retry", "loaded"}
CursorTyped == cursor \in 0..SlotCount - 1
PassTyped == pass \in PassRec
RecordsTyped == records \in [Slots -> ZoneRecords]
PublishedTyped == states \in [Slots -> ReadStates] /\ profiles \subseteq Slots
EvidenceTyped == confirmed \subseteq Slots /\ blocked \in BOOLEAN
HistoryTyped ==
    /\ lastOn \in [Slots -> 0..2] /\ lastKnown \in [Slots -> {"none", "on", "off"}]
    /\ heard \subseteq Slots /\ overtaken \in BOOLEAN

(* What is published as active was read in the pass that published it: the *)
(* last one that ended, or in the middle of a pass that one or this.       *)
Reading == pass.at \in {"function", "label"}
Fresh ==
    \A s \in Slots :
        /\ states[s] = "active" => lastOn[s] <= IF Reading THEN 1 ELSE 0
        /\ Reading /\ pass.states[s] = "active" => lastOn[s] = 0

ZoneInv ==
    /\ OutsideTyped /\ RowsTyped /\ StoreTyped /\ ScheduleTyped /\ EntryTyped /\ CursorTyped
    /\ PassTyped /\ RecordsTyped /\ PublishedTyped /\ EvidenceTyped /\ HistoryTyped
    /\ Fresh

LEMMA ZoneInvTyped == ZoneInv => ZoneTypeOK
BY DEF ZoneInv, ZoneTypeOK, OutsideTyped, RowsTyped, StoreTyped, ScheduleTyped, EntryTyped,
       CursorTyped, PassTyped, RecordsTyped, PublishedTyped, EvidenceTyped, HistoryTyped, PassRec

(* Constants of the right type.                                            *)
LEMMA BlankTyped ==
  /\ NoRecord \in ZoneRecords /\ Forgotten \in [Slots -> ZoneRecords]
  /\ NothingRead \in [Slots -> ReadStates] /\ NoPass \in PassRec
<1>1. NoRecord \in ZoneRecords
  BY DEF NoRecord, ZoneRecords
<1>2. Forgotten \in [Slots -> ZoneRecords] /\ NothingRead \in [Slots -> ReadStates]
  BY <1>1 DEF Forgotten, NothingRead, ReadStates
<1>3. 0 \in 0..SlotCount - 1
  OBVIOUS
<1>4. NoPass \in PassRec
  BY <1>2, <1>3 DEF NoPass, PassRec
<1> QED BY <1>1, <1>2, <1>4

(* The first values of the counters and of the history, which a loss of    *)
(* the coordinator gives them again.                                       *)
LEMMA FirstInRange == 0 \in 0..MaxRetries - 1 /\ 0 \in 0..SlotCount - 1
OBVIOUS

LEMMA BlankHistory ==
  /\ [s \in Slots |-> 2] \in [Slots -> 0..2]
  /\ [s \in Slots |-> "none"] \in [Slots -> {"none", "on", "off"}]
  /\ {} \subseteq Slots /\ FALSE \in BOOLEAN
OBVIOUS

LEMMA CursorWraps == ASSUME NEW n \in Nat PROVE n % SlotCount \in 0..SlotCount - 1
OBVIOUS

LEMMA SlotIn == ASSUME CursorTyped, PassTyped PROVE Slot \in Slots
<1>1. cursor + pass.offset \in Nat
  BY DEF CursorTyped, PassTyped, PassRec
<1>2. (cursor + pass.offset) % SlotCount \in 0..SlotCount - 1
  BY <1>1, CursorWraps
<1> QED BY <1>2 DEF Slot, Slots

LEMMA InitInv == ZoneInit => ZoneInv
<1> SUFFICES ASSUME ZoneInit PROVE ZoneInv
  OBVIOUS
<1> USE DEF ZoneInit
<1>1. OutsideTyped
  <2>1. zoneEnv.functions \subseteq Functions
    OBVIOUS
  <2> QED BY <2>1 DEF OutsideTyped
<1>2. /\ RowsTyped /\ StoreTyped /\ EntryTyped /\ PassTyped /\ RecordsTyped /\ PublishedTyped
      /\ EvidenceTyped
  BY BlankTyped DEF RowsTyped, StoreTyped, EntryTyped, PassTyped, RecordsTyped, PublishedTyped,
                    EvidenceTyped
<1>4. ScheduleTyped /\ CursorTyped
  BY FirstInRange, Zenon DEF ScheduleTyped, CursorTyped
<1>5. HistoryTyped
  BY BlankHistory, Zenon DEF HistoryTyped
<1>3. Fresh
  BY DEF Fresh, Reading, NoPass, NothingRead
<1> QED BY <1>1, <1>2, <1>3, <1>4, <1>5 DEF ZoneInv

-----------------------------------------------------------------------------
(* The end of a pass.                                                      *)

LEMMA ReturnTyped ==
  ASSUME ScheduleTyped, NEW complete \in BOOLEAN, NEW changed \in BOOLEAN,
         ZoneReturns(complete, changed)
  PROVE  ScheduleTyped' /\ PassTyped' /\ pass' = NoPass
<1>1. pass' = NoPass /\ PassTyped'
  BY BlankTyped DEF ZoneReturns, PassTyped
<1>2. runner' \in {"none", "startup", "retry", "monitor"} /\ attempts' \in 0..MaxRetries - 1
  BY DEF ZoneReturns, ScheduleTyped
<1>3. asked' \in BOOLEAN
  <2>1. asked' \in {TRUE, asked}
    BY Zenon DEF ZoneReturns
  <2> QED BY <2>1 DEF ScheduleTyped
<1> QED BY <1>1, <1>2, <1>3 DEF ScheduleTyped

LEMMA StorableTyped == ASSUME NEW r \in ZoneRecords PROVE Storable(r) \in ZoneRecords
BY BlankTyped DEF Storable, ZoneRecords

LEMMA ConcludeTyped ==
  ASSUME ScheduleTyped, CursorTyped, NEW p \in PassRec, NEW recs \in [Slots -> ZoneRecords],
         Concludes(p, recs)
  PROVE  /\ ScheduleTyped' /\ CursorTyped' /\ PassTyped' /\ PublishedTyped'
         /\ blocked' \in BOOLEAN
         /\ states' = p.states /\ pass'.at \in {"idle", "save"}
<1>1. CursorTyped'
  <2>1. cursor + (p.offset + 1) \in Nat
    BY DEF CursorTyped, PassRec
  <2> QED BY <2>1, CursorWraps DEF Concludes, NextCursor, CursorTyped
<1>2. PublishedTyped' /\ blocked' \in BOOLEAN /\ states' = p.states
  BY DEF Concludes, PublishedTyped, PassRec
<1>3. CASE recs = p.previous
  <2>1. ZoneReturns(p.complete, FALSE) /\ p.complete \in BOOLEAN
    BY <1>3 DEF Concludes, PassRec
  <2>2. ScheduleTyped' /\ PassTyped' /\ pass' = NoPass
    BY <2>1, ReturnTyped
  <2> QED BY <1>1, <1>2, <2>2 DEF NoPass
<1>4. CASE recs # p.previous
  <2> DEFINE saving == [s \in Slots |-> Storable(recs[s])]
             changed == Changed(recs, p.previous)
  <2>1. saving \in [Slots -> ZoneRecords]
    BY StorableTyped
  <2>2. changed \in BOOLEAN
    BY DEF Changed
  <2>3. /\ pass' = [p EXCEPT !.at = "save", !.saving = saving, !.changed = changed]
        /\ UNCHANGED <<runner, attempts, asked>>
    BY <1>4 DEF Concludes, schedule
  <2> HIDE DEF saving, changed
  <2>4. PassTyped' /\ pass'.at = "save"
    BY <2>1, <2>2, <2>3 DEF PassTyped, PassRec
  <2>5. ScheduleTyped'
    BY <2>3 DEF ScheduleTyped
  <2> QED BY <1>1, <1>2, <2>4, <2>5
<1> QED BY <1>3, <1>4

(* A pass goes on to its next slot with what it has read, or ends.         *)
LEMMA ContinueTyped ==
  ASSUME ScheduleTyped, CursorTyped, PublishedTyped, EvidenceTyped,
         NEW p \in PassRec, NEW recs \in [Slots -> ZoneRecords], Continues(p, recs)
  PROVE  /\ ScheduleTyped' /\ CursorTyped' /\ PassTyped' /\ PublishedTyped'
         /\ blocked' \in BOOLEAN
         /\ \/ /\ pass'.at = "function" /\ pass'.states = p.states
               /\ states' = IF p.shared THEN p.states ELSE states
            \/ pass'.at \in {"idle", "save"} /\ states' = p.states
<1>1. CASE /\ p.offset + 1 < SlotCount
           /\ pass' = [p EXCEPT !.at = "function", !.offset = @ + 1]
           /\ IF p.shared THEN states' = p.states /\ profiles' = p.profiles
                          ELSE UNCHANGED <<states, profiles>>
           /\ UNCHANGED <<cursor, blocked, schedule>>
  <2>1. p.offset + 1 \in 0..SlotCount - 1
    BY <1>1 DEF PassRec
  <2>2. PassTyped' /\ pass'.at = "function" /\ pass'.states = p.states
    BY <1>1, <2>1 DEF PassTyped, PassRec
  <2>3. PublishedTyped' /\ states' = IF p.shared THEN p.states ELSE states
    BY <1>1 DEF PublishedTyped, PassRec
  <2>4. ScheduleTyped' /\ CursorTyped' /\ blocked' \in BOOLEAN
    BY <1>1 DEF schedule, ScheduleTyped, CursorTyped, EvidenceTyped
  <2> QED BY <2>2, <2>3, <2>4
<1>2. CASE Concludes([p EXCEPT !.complete = FALSE], recs)
  <2> DEFINE q == [p EXCEPT !.complete = FALSE]
  <2>1. q \in PassRec /\ q.states = p.states
    BY DEF PassRec
  <2>2. Concludes(q, recs)
    BY <1>2
  <2> HIDE DEF q
  <2> QED BY <2>1, <2>2, ConcludeTyped
<1>3. CASE Concludes(p, recs)
  BY <1>3, ConcludeTyped
<1> QED BY <1>1, <1>2, <1>3 DEF Continues

-----------------------------------------------------------------------------
(* The steps of a pass.                                                    *)

(* After a slot the freshness of what was read decides that of what counts. *)
LEMMA ContinueFresh ==
  ASSUME ZoneInv, Reading, NEW p \in PassRec, NEW recs \in [Slots -> ZoneRecords],
         Continues(p, recs), UNCHANGED lastOn,
         \A s \in Slots : p.states[s] = "active" => lastOn[s] = 0
  PROVE  Fresh'
<1>1. \/ /\ pass'.at = "function" /\ pass'.states = p.states
         /\ states' = IF p.shared THEN p.states ELSE states
      \/ pass'.at \in {"idle", "save"} /\ states' = p.states
  BY ContinueTyped DEF ZoneInv
<1>2. \A s \in Slots : states[s] = "active" => lastOn[s] <= 1
  BY DEF ZoneInv, Fresh
<1>3. \A s \in Slots : lastOn[s] \in 0..2
  BY DEF ZoneInv, HistoryTyped
<1>4. CASE /\ pass'.at = "function" /\ pass'.states = p.states
           /\ states' = IF p.shared THEN p.states ELSE states
  BY <1>2, <1>3, <1>4 DEF Fresh, Reading
<1>5. CASE pass'.at \in {"idle", "save"} /\ states' = p.states
  BY <1>3, <1>5 DEF Fresh, Reading
<1> QED BY <1>1, <1>4, <1>5

LEMMA PassBeginsInv == ASSUME ZoneInv, ZonePassBegins PROVE ZoneInv'
<1> USE DEF ZoneInv
<1>1. UNCHANGED <<zoneEnv, device, store, slotRows, slotLive, withheld, zoneEntry, runner, attempts,
                  asked, cursor, records, states, profiles, confirmed, blocked, lastKnown, heard,
                  overtaken>>
  BY DEF ZonePassBegins, rowVars, schedule, coordinator
<1>2. /\ OutsideTyped' /\ RowsTyped' /\ StoreTyped' /\ ScheduleTyped' /\ EntryTyped'
      /\ CursorTyped' /\ RecordsTyped' /\ PublishedTyped' /\ EvidenceTyped'
  BY <1>1 DEF OutsideTyped, RowsTyped, StoreTyped, ScheduleTyped, EntryTyped, CursorTyped,
              RecordsTyped, PublishedTyped, EvidenceTyped
<1>3. PassTyped' /\ pass'.at = "function" /\ pass'.states = NothingRead
  BY BlankTyped DEF ZonePassBegins, PassTyped, PassRec, PassStates, PublishedTyped, RecordsTyped
<1>4. HistoryTyped'
  BY <1>1 DEF ZonePassBegins, HistoryTyped
<1>5. Fresh'
  BY <1>1, <1>3 DEF ZonePassBegins, Fresh, Reading, NothingRead, HistoryTyped
<1> QED BY <1>2, <1>3, <1>4, <1>5

LEMMA FunctionUnreadInv == ASSUME ZoneInv, FunctionUnread PROVE ZoneInv'
<1> USE DEF ZoneInv
<1> DEFINE p == [pass EXCEPT !.complete = FALSE]
<1>1. UNCHANGED <<zoneEnv, device, store, slotRows, slotLive, withheld, zoneEntry, records,
                  confirmed, lastOn, lastKnown, heard, overtaken>>
  BY DEF FunctionUnread, rowVars, zoneHistory, RecordsUnread
<1>2. /\ OutsideTyped' /\ RowsTyped' /\ StoreTyped' /\ EntryTyped' /\ RecordsTyped'
      /\ HistoryTyped' /\ confirmed' \subseteq Slots
  BY <1>1 DEF OutsideTyped, RowsTyped, StoreTyped, EntryTyped, RecordsTyped, HistoryTyped,
              EvidenceTyped
<1>3. p \in PassRec /\ p.states = pass.states
  BY DEF PassTyped, PassRec
<1>4. Continues(p, records') /\ records' \in [Slots -> ZoneRecords]
  BY <1>2 DEF FunctionUnread, RecordsTyped
<1>5. Reading /\ \A s \in Slots : p.states[s] = "active" => lastOn[s] = 0
  BY <1>3 DEF FunctionUnread, Reading, Fresh
<1> HIDE DEF p
<1> QED BY <1>1, <1>2, <1>3, <1>4, <1>5, ContinueTyped, ContinueFresh DEF EvidenceTyped

LEMMA FunctionOffInv == ASSUME ZoneInv, FunctionOff PROVE ZoneInv'
<1> USE DEF ZoneInv
<1> DEFINE p == [pass EXCEPT !.states[Slot] = "disabled", !.profiles = @ \ {Slot}]
<1>0. Slot \in Slots
  BY SlotIn
<1>1. UNCHANGED <<zoneEnv, device, store, slotRows, slotLive, withheld, zoneEntry, lastOn, overtaken>>
  BY DEF FunctionOff, rowVars
<1>2. /\ OutsideTyped' /\ RowsTyped' /\ StoreTyped' /\ EntryTyped'
  BY <1>1 DEF OutsideTyped, RowsTyped, StoreTyped, EntryTyped
<1>3. HistoryTyped' /\ confirmed' \subseteq Slots
  BY <1>1 DEF FunctionOff, HistoryTyped, EvidenceTyped
<1>4. RecordsTyped'
  BY BlankTyped DEF FunctionOff, RecordsTyped
<1>5. p \in PassRec /\ p.states = [pass.states EXCEPT ![Slot] = "disabled"]
  BY DEF PassTyped, PassRec, ReadStates
<1>6. Continues(p, records') /\ records' \in [Slots -> ZoneRecords]
  BY <1>4 DEF FunctionOff, RecordsTyped
<1>7. Reading /\ \A s \in Slots : p.states[s] = "active" => lastOn[s] = 0
  BY <1>0, <1>5 DEF FunctionOff, Reading, Fresh, PassTyped, PassRec
<1> HIDE DEF p
<1> QED BY <1>1, <1>2, <1>3, <1>4, <1>5, <1>6, <1>7, ContinueTyped, ContinueFresh DEF EvidenceTyped

LEMMA FunctionStrangeInv == ASSUME ZoneInv, FunctionStrange PROVE ZoneInv'
<1> USE DEF ZoneInv
<1> DEFINE p == [pass EXCEPT !.complete = FALSE, !.profiles = @ \ {Slot}]
<1>1. UNCHANGED <<zoneEnv, device, store, slotRows, slotLive, withheld, zoneEntry, records,
                  confirmed, lastOn, lastKnown, heard, overtaken>>
  BY DEF FunctionStrange, rowVars, zoneHistory
<1>2. /\ OutsideTyped' /\ RowsTyped' /\ StoreTyped' /\ EntryTyped' /\ RecordsTyped'
      /\ HistoryTyped' /\ confirmed' \subseteq Slots
  BY <1>1 DEF OutsideTyped, RowsTyped, StoreTyped, EntryTyped, RecordsTyped, HistoryTyped,
              EvidenceTyped
<1>3. p \in PassRec /\ p.states = pass.states
  BY DEF PassTyped, PassRec
<1>4. Continues(p, records) /\ records \in [Slots -> ZoneRecords]
  BY DEF FunctionStrange, RecordsTyped
<1>5. Reading /\ \A s \in Slots : p.states[s] = "active" => lastOn[s] = 0
  BY <1>3 DEF FunctionStrange, Reading, Fresh
<1> HIDE DEF p
<1> QED BY <1>1, <1>2, <1>3, <1>4, <1>5, ContinueTyped, ContinueFresh DEF EvidenceTyped

LEMMA FunctionOnInv == ASSUME ZoneInv, FunctionOn PROVE ZoneInv'
<1> USE DEF ZoneInv
<1>0. Slot \in Slots
  BY SlotIn
<1>1. UNCHANGED <<zoneEnv, device, store, slotRows, slotLive, withheld, zoneEntry, runner, attempts,
                  asked, cursor, records, profiles, blocked, lastKnown, heard, overtaken>>
  BY DEF FunctionOn, rowVars, schedule
<1>2. /\ OutsideTyped' /\ RowsTyped' /\ StoreTyped' /\ ScheduleTyped' /\ EntryTyped'
      /\ CursorTyped' /\ RecordsTyped'
  BY <1>1 DEF OutsideTyped, RowsTyped, StoreTyped, ScheduleTyped, EntryTyped, CursorTyped,
              RecordsTyped
<1>3. /\ PassTyped' /\ pass'.at = "label"
      /\ pass'.states = [pass.states EXCEPT ![Slot] = "active"]
  BY DEF FunctionOn, PassTyped, PassRec, ReadStates
<1>4. states' \in {states, pass'.states}
  BY DEF FunctionOn
<1>6. lastOn' = [lastOn EXCEPT ![Slot] = 0]
  BY DEF FunctionOn
<1>5. PublishedTyped' /\ EvidenceTyped' /\ HistoryTyped'
  <2>1. PublishedTyped'
    BY <1>1, <1>3, <1>4 DEF PublishedTyped, PassTyped, PassRec
  <2>2. EvidenceTyped'
    BY <1>0, <1>1 DEF FunctionOn, EvidenceTyped
  <2>3. lastOn' \in [Slots -> 0..2]
    <3>1. lastOn \in [Slots -> 0..2] /\ 0 \in 0..2
      BY DEF HistoryTyped
    <3> QED BY <1>6, <3>1, Zenon
  <2> QED BY <1>1, <2>1, <2>2, <2>3 DEF HistoryTyped
<1>7. \A s \in Slots : /\ pass'.states[s] = "active" => lastOn'[s] = 0
                       /\ states[s] = "active" => lastOn'[s] <= 1
  BY <1>0, <1>3, <1>6 DEF FunctionOn, Fresh, Reading, HistoryTyped, PassTyped, PassRec
<1>8. Fresh'
  <2>1. \A s \in Slots : lastOn'[s] \in 0..2
    BY <1>5 DEF HistoryTyped
  <2>2. CASE states' = states
    BY <1>3, <1>7, <2>2 DEF Fresh, Reading
  <2>3. CASE states' = pass'.states
    BY <1>3, <1>7, <2>1, <2>3 DEF Fresh, Reading
  <2> QED BY <1>4, <2>2, <2>3
<1> QED BY <1>2, <1>3, <1>5, <1>8

LEMMA LabelReadInv == ASSUME ZoneInv, LabelRead PROVE ZoneInv'
<1> USE DEF ZoneInv
<1> DEFINE p == [pass EXCEPT !.shared = TRUE, !.profiles = @ \cup {Slot}]
<1>0. Slot \in Slots
  BY SlotIn
<1>1. UNCHANGED <<zoneEnv, device, store, slotRows, slotLive, withheld, zoneEntry, confirmed,
                  lastOn, overtaken>>
  BY DEF LabelRead, rowVars
<1>2. /\ OutsideTyped' /\ RowsTyped' /\ StoreTyped' /\ EntryTyped' /\ confirmed' \subseteq Slots
  BY <1>1 DEF OutsideTyped, RowsTyped, StoreTyped, EntryTyped, EvidenceTyped
<1>3. HistoryTyped'
  BY <1>0, <1>1 DEF LabelRead, HistoryTyped
<1>4. RecordsTyped'
  <2>1. PICK label \in {TRUE, "label" \notin zoneEnv.happens} :
          records' = IF blocked THEN records
                     ELSE [records EXCEPT ![Slot] = [uids |-> Manifest(Slot), label |-> label]]
    BY DEF LabelRead
  <2>2. label \in BOOLEAN
    BY <2>1, Zenon
  <2>3. [uids |-> Manifest(Slot), label |-> label] \in ZoneRecords
    BY <2>2 DEF Manifest, ZoneRecords
  <2> QED BY <2>1, <2>3 DEF RecordsTyped
<1>5. p \in PassRec /\ p.states = pass.states
  BY <1>0 DEF PassTyped, PassRec
<1>6. Continues(p, records') /\ records' \in [Slots -> ZoneRecords]
  BY <1>4 DEF LabelRead, RecordsTyped
<1>7. Reading /\ \A s \in Slots : p.states[s] = "active" => lastOn[s] = 0
  BY <1>5 DEF LabelRead, Reading, Fresh
<1> HIDE DEF p
<1> QED BY <1>1, <1>2, <1>3, <1>4, <1>5, <1>6, <1>7, ContinueTyped, ContinueFresh DEF EvidenceTyped

LEMMA SaveInv == ASSUME ZoneInv, SaveLands \/ SaveFails PROVE ZoneInv'
<1> USE DEF ZoneInv
<1>1. UNCHANGED <<zoneEnv, device, slotRows, slotLive, withheld, zoneEntry, cursor, states, profiles,
                  confirmed, lastOn, lastKnown, heard, overtaken>>
  BY DEF SaveLands, SaveFails, rowVars, coordinator, zoneHistory
<1>2. /\ OutsideTyped' /\ RowsTyped' /\ EntryTyped' /\ CursorTyped' /\ PublishedTyped'
      /\ HistoryTyped'
  BY <1>1 DEF OutsideTyped, RowsTyped, EntryTyped, CursorTyped, PublishedTyped, HistoryTyped
<1>3. StoreTyped' /\ RecordsTyped' /\ EvidenceTyped'
  BY <1>1 DEF SaveLands, SaveFails, coordinator, StoreTyped, RecordsTyped, EvidenceTyped, PassTyped,
              PassRec
<1>4. ScheduleTyped' /\ PassTyped' /\ pass' = NoPass
  <2>1. pass.complete \in BOOLEAN /\ pass.changed \in BOOLEAN
    BY DEF PassTyped, PassRec
  <2>2. ZoneReturns(pass.complete, pass.changed) \/ ZoneReturns(FALSE, FALSE)
    BY DEF SaveLands, SaveFails
  <2> QED BY <2>1, <2>2, ReturnTyped
<1>5. Fresh'
  BY <1>1, <1>4 DEF SaveLands, SaveFails, Fresh, Reading, NoPass
<1> QED BY <1>2, <1>3, <1>4, <1>5

-----------------------------------------------------------------------------
(* The entry around it.                                                    *)

LEMMA EntryInv ==
  ASSUME ZoneInv,
         \/ ZoneSetupBegins \/ ManifestUnavailable \/ ZoneSetupExpires \/ RowsCleanedUp
         \/ RowsProjected \/ ReloadInRetry \/ DeviceChanges
  PROVE  ZoneInv'
<1> USE DEF ZoneInv
<1>1. UNCHANGED <<zoneEnv, store, attempts, cursor, pass, states, profiles, confirmed, blocked, lastOn,
                  lastKnown, heard>>
  BY DEF ZoneSetupBegins, ManifestUnavailable, ZoneSetupExpires, RowsCleanedUp, RowsProjected,
         ReloadInRetry, DeviceChanges, schedule, coordinator, zoneHistory, rowVars
<1>2. /\ StoreTyped' /\ CursorTyped' /\ PassTyped' /\ PublishedTyped' /\ EvidenceTyped' /\ Fresh'
  BY <1>1 DEF StoreTyped, CursorTyped, PassTyped, PublishedTyped, EvidenceTyped, Fresh, Reading
<1>3. OutsideTyped'
  <2>1. CASE DeviceChanges
    <3>1. zoneEnv.functions \subseteq Functions
      BY DEF OutsideTyped
    <3> QED BY <1>1, <2>1, <3>1 DEF DeviceChanges, OutsideTyped
  <2>2. CASE UNCHANGED device
    BY <1>1, <2>2 DEF OutsideTyped
  <2> QED BY <2>1, <2>2 DEF ZoneSetupBegins, ManifestUnavailable, ZoneSetupExpires, RowsCleanedUp,
                            RowsProjected, ReloadInRetry
<1>4. RowsTyped'
  BY DEF ZoneSetupBegins, ManifestUnavailable, ZoneSetupExpires, RowsCleanedUp, RowsProjected,
         ReloadInRetry, DeviceChanges, RowsTyped, rowVars
<1>5. EntryTyped' /\ RecordsTyped'
  BY DEF ZoneSetupBegins, ManifestUnavailable, ZoneSetupExpires, RowsCleanedUp, RowsProjected,
         ReloadInRetry, DeviceChanges, EntryTyped, RecordsTyped, StoreTyped, coordinator
<1>6. ScheduleTyped'
  BY <1>1 DEF ZoneSetupBegins, ManifestUnavailable, ZoneSetupExpires, RowsCleanedUp, RowsProjected,
              ReloadInRetry, DeviceChanges, ScheduleTyped, schedule
<1>7. HistoryTyped'
  <2>1. overtaken' \in BOOLEAN
    <3>1. CASE ZoneSetupBegins
      BY <3>1, Zenon DEF ZoneSetupBegins
    <3>2. CASE UNCHANGED overtaken
      BY <3>2 DEF HistoryTyped
    <3> QED BY <3>1, <3>2 DEF ManifestUnavailable, ZoneSetupExpires, RowsCleanedUp, RowsProjected,
                              ReloadInRetry, DeviceChanges, zoneHistory
  <2> QED BY <1>1, <2>1 DEF HistoryTyped
<1> QED BY <1>2, <1>3, <1>4, <1>5, <1>6, <1>7

LEMMA LostInv == ASSUME ZoneInv, ZoneReload \/ ZoneRestart PROVE ZoneInv'
<1> USE DEF ZoneInv
<1>1. CoordinatorLost /\ cursor' \in {cursor, 0}
  BY DEF ZoneReload, ZoneRestart
<1>2. OutsideTyped' /\ RowsTyped' /\ EntryTyped' /\ CursorTyped'
  BY <1>1, FirstInRange DEF CoordinatorLost, OutsideTyped, RowsTyped, EntryTyped, CursorTyped, rowVars
<1>7. ScheduleTyped' /\ EvidenceTyped'
  BY <1>1, FirstInRange, BlankHistory, Zenon DEF CoordinatorLost, ScheduleTyped, EvidenceTyped
<1>3. PassTyped' /\ RecordsTyped' /\ PublishedTyped'
  BY <1>1, BlankTyped DEF CoordinatorLost, PassTyped, RecordsTyped, PublishedTyped
<1>4. StoreTyped'
  BY <1>1 DEF CoordinatorLost, StoreTyped, PassTyped, PassRec
<1>5. HistoryTyped'
  <2>1. lastKnown' = lastKnown
    BY <1>1 DEF CoordinatorLost
  <2> QED BY <1>1, <2>1, BlankHistory, Zenon DEF CoordinatorLost, HistoryTyped
<1>6. Fresh'
  BY <1>1 DEF CoordinatorLost, Fresh, Reading, NoPass, NothingRead
<1> QED BY <1>2, <1>3, <1>4, <1>5, <1>6, <1>7

LEMMA StutterInv == ASSUME ZoneInv, UNCHANGED zoneVars PROVE ZoneInv'
<1>1. UNCHANGED <<zoneEnv, device, store, slotRows, slotLive, withheld, zoneEntry, runner, attempts,
                  asked, cursor, pass, records, states, profiles, confirmed, blocked, lastOn,
                  lastKnown, heard, overtaken>>
  BY DEF zoneVars, rowVars, schedule, coordinator, zoneHistory
<1> QED BY <1>1 DEF ZoneInv, OutsideTyped, RowsTyped, StoreTyped, ScheduleTyped, EntryTyped,
                    CursorTyped, PassTyped, RecordsTyped, PublishedTyped, EvidenceTyped,
                    HistoryTyped, Fresh, Reading

LEMMA StepInv == ZoneInv /\ [ZoneNext]_zoneVars => ZoneInv'
BY PassBeginsInv, FunctionUnreadInv, FunctionOffInv, FunctionStrangeInv, FunctionOnInv,
   LabelReadInv, SaveInv, EntryInv, LostInv, StutterInv DEF ZoneNext, PassStep, EntryStep

(* Types, and the freshness of everything that is published or about to be. *)
THEOREM ZoneSafe == ZoneSpec => []ZoneInv
<1>1. ZoneInit => ZoneInv
  BY InitInv
<1>2. ZoneInv /\ [ZoneNext]_zoneVars => ZoneInv'
  BY StepInv
<1> QED BY <1>1, <1>2, PTL DEF ZoneSpec

(* Type correctness.  In particular the cursor stays on a slot, whatever   *)
(* passes a deadline cuts short.                                           *)
THEOREM ZoneTypes == ZoneSpec => []ZoneTypeOK
<1>1. ZoneInv => ZoneTypeOK
  BY ZoneInvTyped
<1> QED BY <1>1, ZoneSafe, PTL

(* Only a positive read of this pass or the last one makes a zone active.  *)
THEOREM ActiveFresh == ZoneSpec => []ActiveIsFresh
<1>1. ZoneInv => ActiveIsFresh
  BY DEF ZoneInv, Fresh, HistoryTyped, ActiveIsFresh, ZoneActive
<1> QED BY <1>1, ZoneSafe, PTL
-----------------------------------------------------------------------------
(* What is remembered of a zone.                                           *)

Alive == zoneEntry \in {"setup", "platforms", "loaded"} \/ runner # "none"
Kept(r) == r = NoRecord \/ "row" \in r.uids

(* Every record names the slot's row: storage drops the others.            *)
RowsNamed ==
    \A s \in Slots :
        Kept(records[s]) /\ Kept(store[s]) /\ Kept(pass.previous[s]) /\ Kept(pass.saving[s])

(* What counts as disabled was last found to be so; what counts as heard   *)
(* was confirmed.                                                          *)
Grounded ==
    /\ runner = "none" => pass.at = "idle"
    /\ \A s \in Slots : states[s] = "disabled" => lastKnown[s] = "off"
    /\ \A s \in Slots : pass.states[s] = "disabled" => lastKnown[s] = "off"
    /\ pass.at = "label" => Slot \in confirmed /\ pass.states[Slot] = "active"
    /\ heard \subseteq confirmed

(* The manifests agree on which slots have a record, for every zone that   *)
(* this session did not hear of: nothing but a read changes that.          *)
Agrees(s) ==
    /\ store[s] = NoRecord <=> records[s] = NoRecord
    /\ pass.at # "idle" => (store[s] = NoRecord <=> pass.previous[s] = NoRecord)
    /\ pass.at = "save" => (store[s] = NoRecord <=> pass.saving[s] = NoRecord)
Unheard(s) == s \notin heard /\ lastKnown[s] = "on"
Remembered == Alive => \A s \in Slots : Unheard(s) => Agrees(s)

EvidenceInv == RowsNamed /\ Grounded /\ Remembered

LEMMA StorableKept ==
  ASSUME NEW r \in ZoneRecords
  PROVE  Kept(Storable(r)) /\ (Kept(r) => (Storable(r) = NoRecord <=> r = NoRecord))
<1>1. CASE "row" \in r.uids
  <2>1. Storable(r) = [r EXCEPT !.uids = {"row"}]
    BY <1>1 DEF Storable
  <2>2. Storable(r).uids = {"row"} /\ NoRecord.uids = {}
    BY <2>1 DEF ZoneRecords, NoRecord
  <2> QED BY <1>1, <2>2 DEF Kept
<1>2. CASE "row" \notin r.uids
  BY <1>2 DEF Storable, Kept
<1> QED BY <1>1, <1>2

(* The three ways a pass leaves a slot.                                    *)
GoesOn(p) ==
    /\ pass' = [p EXCEPT !.at = "function", !.offset = @ + 1]
    /\ states' = IF p.shared THEN p.states ELSE states
    /\ UNCHANGED <<runner, cursor>>
Ends(p, recs) == pass' = NoPass /\ states' = p.states /\ recs = p.previous
Saves(p, recs) ==
    /\ \E c, d \in BOOLEAN :
          pass' = [p EXCEPT !.at = "save", !.saving = [s \in Slots |-> Storable(recs[s])],
                            !.complete = c, !.changed = d]
    /\ states' = p.states /\ UNCHANGED runner

LEMMA ConcludeShape ==
  ASSUME NEW p \in PassRec, NEW recs, Concludes(p, recs)
  PROVE  Ends(p, recs) \/ Saves(p, recs)
<1>1. CASE recs = p.previous
  BY <1>1 DEF Concludes, ZoneReturns, Ends
<1>2. CASE recs # p.previous
  <2> DEFINE saving == [s \in Slots |-> Storable(recs[s])]
             changed == Changed(recs, p.previous)
  <2>1. /\ pass' = [p EXCEPT !.at = "save", !.saving = saving, !.changed = changed]
        /\ states' = p.states /\ UNCHANGED runner
    BY <1>2 DEF Concludes, schedule
  <2>2. changed \in BOOLEAN /\ p.complete \in BOOLEAN
    BY DEF Changed, PassRec
  <2> HIDE DEF saving, changed
  <2>3. pass' = [p EXCEPT !.at = "save", !.saving = saving, !.complete = p.complete,
                          !.changed = changed]
    BY <2>1 DEF PassRec
  <2> USE DEF saving
  <2> QED BY <2>1, <2>2, <2>3 DEF Saves
<1> QED BY <1>1, <1>2

LEMMA ContinueShape ==
  ASSUME NEW p \in PassRec, NEW recs, Continues(p, recs)
  PROVE  GoesOn(p) \/ Ends(p, recs) \/ Saves(p, recs)
<1>1. CASE /\ pass' = [p EXCEPT !.at = "function", !.offset = @ + 1]
           /\ IF p.shared THEN states' = p.states /\ profiles' = p.profiles
                          ELSE UNCHANGED <<states, profiles>>
           /\ UNCHANGED <<cursor, blocked, schedule>>
  BY <1>1 DEF GoesOn, schedule
<1>2. CASE Concludes([p EXCEPT !.complete = FALSE], recs)
  <2> DEFINE q == [p EXCEPT !.complete = FALSE]
  <2>1. q \in PassRec /\ q.states = p.states /\ q.previous = p.previous
    BY DEF PassRec
  <2>2. Ends(q, recs) \/ Saves(q, recs)
    BY <1>2, <2>1, ConcludeShape
  <2>3. CASE Ends(q, recs)
    BY <2>1, <2>3 DEF Ends
  <2>4. CASE Saves(q, recs)
    <3>1. PICK c \in BOOLEAN, d \in BOOLEAN :
             pass' = [q EXCEPT !.at = "save", !.saving = [s \in Slots |-> Storable(recs[s])],
                               !.complete = c, !.changed = d]
      BY <2>4 DEF Saves
    <3> DEFINE saving == [s \in Slots |-> Storable(recs[s])]
    <3> HIDE DEF saving
    <3>2. pass' = [q EXCEPT !.at = "save", !.saving = saving, !.complete = c, !.changed = d]
      BY <3>1 DEF saving
    <3>3. pass' = [p EXCEPT !.at = "save", !.saving = saving, !.complete = c, !.changed = d]
      BY <3>2 DEF PassRec
    <3> USE DEF saving
    <3> QED BY <2>1, <2>4, <3>3 DEF Saves
  <2> QED BY <2>2, <2>3, <2>4
<1>3. CASE Concludes(p, recs)
  BY <1>3, ConcludeShape
<1> QED BY <1>1, <1>2, <1>3 DEF Continues

(* A slot's read leaves the evidence in order, however the pass goes on.   *)
LEMMA ContinueEvidence ==
  ASSUME ZoneInv, EvidenceInv, Reading, NEW p \in PassRec,
         records' \in [Slots -> ZoneRecords], Continues(p, records'),
         UNCHANGED <<store, zoneEntry>>,
         p.previous = pass.previous, p.saving = pass.saving,
         \A s \in Slots : Kept(records'[s]),
         heard' \subseteq confirmed',
         \A s \in Slots : p.states[s] = "disabled" => lastKnown'[s] = "off",
         p.shared \/ \A s \in Slots : states[s] = "disabled" => lastKnown'[s] = "off",
         \A s \in Slots : Unheard(s)' => Unheard(s) /\ records'[s] = records[s]
  PROVE  EvidenceInv'
<1>1. Alive
  BY DEF EvidenceInv, Grounded, Reading, Alive
<1>2. \A s \in Slots : Unheard(s)' =>
        /\ store'[s] = NoRecord <=> records'[s] = NoRecord
        /\ store'[s] = NoRecord <=> p.previous[s] = NoRecord
  BY <1>1 DEF EvidenceInv, Remembered, Agrees, Reading
<1>3. \A s \in Slots : Kept(store'[s]) /\ Kept(p.previous[s]) /\ Kept(p.saving[s])
  BY DEF EvidenceInv, RowsNamed
<1>4. CASE GoesOn(p)
  <2>1. /\ pass'.at = "function" /\ pass'.previous = p.previous /\ pass'.saving = p.saving
        /\ pass'.states = p.states /\ runner' = runner
    BY <1>4 DEF GoesOn, PassRec
  <2>2. RowsNamed'
    BY <1>3, <2>1 DEF RowsNamed
  <2>3. Grounded'
    BY <1>4, <2>1 DEF GoesOn, EvidenceInv, Grounded, Reading
  <2>4. Remembered'
    BY <1>2, <2>1 DEF Remembered, Agrees
  <2> QED BY <2>2, <2>3, <2>4 DEF EvidenceInv
<1>5. CASE Ends(p, records')
  <2>1. pass'.at = "idle" /\ pass'.previous = Forgotten /\ pass'.saving = Forgotten
        /\ pass'.states = NothingRead /\ states' = p.states
    BY <1>5 DEF Ends, NoPass
  <2>2. RowsNamed'
    BY <1>3, <2>1 DEF RowsNamed, Kept, Forgotten
  <2>3. Grounded'
    BY <2>1 DEF Grounded, NothingRead
  <2>4. Remembered'
    BY <1>2, <2>1 DEF Remembered, Agrees
  <2> QED BY <2>2, <2>3, <2>4 DEF EvidenceInv
<1>6. CASE Saves(p, records')
  <2>1. /\ pass'.at = "save" /\ pass'.previous = p.previous /\ pass'.states = p.states
        /\ pass'.saving = [s \in Slots |-> Storable(records'[s])]
        /\ states' = p.states /\ runner' = runner
    BY <1>6 DEF Saves, PassRec
  <2>2. \A s \in Slots : /\ Kept(pass'.saving[s])
                         /\ pass'.saving[s] = NoRecord <=> records'[s] = NoRecord
    BY <2>1, StorableKept
  <2>3. RowsNamed'
    BY <1>3, <2>1, <2>2 DEF RowsNamed
  <2>4. Grounded'
    BY <2>1 DEF EvidenceInv, Grounded, Reading
  <2>5. Remembered'
    BY <1>2, <2>1, <2>2 DEF Remembered, Agrees
  <2> QED BY <2>3, <2>4, <2>5 DEF EvidenceInv
<1> QED BY <1>4, <1>5, <1>6, ContinueShape

LEMMA InitEvidence == ZoneInit => EvidenceInv
<1> SUFFICES ASSUME ZoneInit PROVE EvidenceInv
  OBVIOUS
<1> USE DEF ZoneInit
<1>1. RowsNamed
  BY DEF RowsNamed, Kept, Forgotten, NoPass
<1>2. Grounded
  BY DEF Grounded, NoPass, NothingRead
<1>3. Remembered
  BY DEF Remembered, Unheard
<1> QED BY <1>1, <1>2, <1>3 DEF EvidenceInv

LEMMA PassBeginsEvidence == ASSUME ZoneInv, EvidenceInv, ZonePassBegins PROVE EvidenceInv'
<1>1. UNCHANGED <<store, zoneEntry, runner, records, states, confirmed, lastKnown, heard>>
  BY DEF ZonePassBegins, schedule, coordinator
<1>2. /\ pass'.at = "function" /\ pass'.states = NothingRead /\ pass'.previous = records
      /\ pass'.saving = Forgotten /\ runner # "none"
  BY DEF ZonePassBegins, NoPass, PassStates
<1>3. RowsNamed'
  BY <1>1, <1>2 DEF EvidenceInv, RowsNamed, Kept, Forgotten
<1>4. Grounded'
  BY <1>1, <1>2 DEF EvidenceInv, Grounded, NothingRead
<1>5. Remembered'
  BY <1>1, <1>2 DEF EvidenceInv, Remembered, Agrees, Unheard, Alive
<1> QED BY <1>3, <1>4, <1>5 DEF EvidenceInv

LEMMA FunctionUnreadEvidence == ASSUME ZoneInv, EvidenceInv, FunctionUnread PROVE EvidenceInv'
<1> DEFINE p == [pass EXCEPT !.complete = FALSE]
<1>1. UNCHANGED <<store, zoneEntry, records, confirmed, lastKnown, heard>>
  BY DEF FunctionUnread, zoneHistory, RecordsUnread
<1>2. /\ p \in PassRec /\ p.states = pass.states /\ p.previous = pass.previous
      /\ p.saving = pass.saving
  BY DEF ZoneInv, PassTyped, PassRec
<1>3. Continues(p, records') /\ records' \in [Slots -> ZoneRecords] /\ Reading
  BY <1>1 DEF FunctionUnread, ZoneInv, RecordsTyped, Reading
<1>4. /\ \A s \in Slots : Kept(records'[s])
      /\ heard' \subseteq confirmed'
      /\ \A s \in Slots : p.states[s] = "disabled" => lastKnown'[s] = "off"
      /\ \A s \in Slots : states[s] = "disabled" => lastKnown'[s] = "off"
      /\ \A s \in Slots : Unheard(s)' => Unheard(s) /\ records'[s] = records[s]
  BY <1>1, <1>2 DEF EvidenceInv, RowsNamed, Grounded, Unheard
<1> HIDE DEF p
<1> QED BY <1>1, <1>2, <1>3, <1>4, ContinueEvidence

LEMMA FunctionOffEvidence == ASSUME ZoneInv, EvidenceInv, FunctionOff PROVE EvidenceInv'
<1> DEFINE p == [pass EXCEPT !.states[Slot] = "disabled", !.profiles = @ \ {Slot}]
<1>0. Slot \in Slots
  BY SlotIn DEF ZoneInv
<1>1. UNCHANGED <<store, zoneEntry>>
  BY DEF FunctionOff
<1>2. /\ p \in PassRec /\ p.states = [pass.states EXCEPT ![Slot] = "disabled"]
      /\ p.previous = pass.previous /\ p.saving = pass.saving
  BY DEF ZoneInv, PassTyped, PassRec, ReadStates
<1>3. Continues(p, records') /\ records' \in [Slots -> ZoneRecords] /\ Reading
  BY BlankTyped DEF FunctionOff, ZoneInv, RecordsTyped, Reading
<1>4. /\ records' = [records EXCEPT ![Slot] = NoRecord] /\ heard' = heard \ {Slot}
      /\ confirmed' = confirmed \ {Slot} /\ lastKnown' = [lastKnown EXCEPT ![Slot] = "off"]
  BY DEF FunctionOff
<1>5. /\ \A s \in Slots : Kept(records'[s])
      /\ heard' \subseteq confirmed'
  BY <1>4 DEF EvidenceInv, RowsNamed, Grounded, Kept, ZoneInv, RecordsTyped
<1>6. /\ \A s \in Slots : p.states[s] = "disabled" => lastKnown'[s] = "off"
      /\ \A s \in Slots : states[s] = "disabled" => lastKnown'[s] = "off"
  BY <1>2, <1>4 DEF EvidenceInv, Grounded, ZoneInv, HistoryTyped, PassTyped, PassRec
<1>7. \A s \in Slots : Unheard(s)' => Unheard(s) /\ records'[s] = records[s]
  BY <1>0, <1>4 DEF Unheard, ZoneInv, HistoryTyped, RecordsTyped
<1> HIDE DEF p
<1> QED BY <1>1, <1>2, <1>3, <1>5, <1>6, <1>7, ContinueEvidence

LEMMA FunctionStrangeEvidence == ASSUME ZoneInv, EvidenceInv, FunctionStrange PROVE EvidenceInv'
<1> DEFINE p == [pass EXCEPT !.complete = FALSE, !.profiles = @ \ {Slot}]
<1>1. UNCHANGED <<store, zoneEntry, records, confirmed, lastKnown, heard>>
  BY DEF FunctionStrange, zoneHistory
<1>2. /\ p \in PassRec /\ p.states = pass.states /\ p.previous = pass.previous
      /\ p.saving = pass.saving
  BY DEF ZoneInv, PassTyped, PassRec
<1>3. Continues(p, records') /\ records' \in [Slots -> ZoneRecords] /\ Reading
  BY <1>1 DEF FunctionStrange, ZoneInv, RecordsTyped, Reading
<1>4. /\ \A s \in Slots : Kept(records'[s])
      /\ heard' \subseteq confirmed'
      /\ \A s \in Slots : p.states[s] = "disabled" => lastKnown'[s] = "off"
      /\ \A s \in Slots : states[s] = "disabled" => lastKnown'[s] = "off"
      /\ \A s \in Slots : Unheard(s)' => Unheard(s) /\ records'[s] = records[s]
  BY <1>1, <1>2 DEF EvidenceInv, RowsNamed, Grounded, Unheard
<1> HIDE DEF p
<1> QED BY <1>1, <1>2, <1>3, <1>4, ContinueEvidence

LEMMA FunctionOnEvidence == ASSUME ZoneInv, EvidenceInv, FunctionOn PROVE EvidenceInv'
<1>0. Slot \in Slots
  BY SlotIn DEF ZoneInv
<1>1. /\ UNCHANGED <<store, zoneEntry, runner, cursor, records, lastKnown, heard>>
      /\ confirmed' = confirmed \cup {Slot}
  BY DEF FunctionOn, schedule
<1>2. /\ pass'.at = "label" /\ pass'.offset = pass.offset
      /\ pass'.previous = pass.previous /\ pass'.saving = pass.saving
      /\ pass'.states = [pass.states EXCEPT ![Slot] = "active"]
      /\ states' \in {states, pass'.states} /\ pass.at = "function"
  BY DEF FunctionOn, ZoneInv, PassTyped, PassRec
<1>3. RowsNamed'
  BY <1>1, <1>2 DEF EvidenceInv, RowsNamed
<1>4. Grounded'
  <2>1. Slot' = Slot
    BY <1>1, <1>2 DEF Slot
  <2>2. Slot \in confirmed' /\ heard' \subseteq confirmed'
    BY <1>1 DEF EvidenceInv, Grounded
  <2>3. \A s \in Slots : /\ pass'.states[s] = "disabled" => lastKnown'[s] = "off"
                         /\ states'[s] = "disabled" => lastKnown'[s] = "off"
    BY <1>1, <1>2 DEF EvidenceInv, Grounded, ZoneInv, PassTyped, PassRec
  <2>4. pass'.states[Slot] = "active"
    BY <1>0, <1>2 DEF ZoneInv, PassTyped, PassRec
  <2>5. runner' # "none"
    BY <1>1, <1>2 DEF EvidenceInv, Grounded
  <2> QED BY <2>1, <2>2, <2>3, <2>4, <2>5 DEF Grounded
<1>5. Remembered'
  BY <1>1, <1>2 DEF EvidenceInv, Remembered, Agrees, Unheard, Alive
<1> QED BY <1>3, <1>4, <1>5 DEF EvidenceInv

LEMMA LabelReadEvidence == ASSUME ZoneInv, EvidenceInv, LabelRead PROVE EvidenceInv'
<1> DEFINE p == [pass EXCEPT !.shared = TRUE, !.profiles = @ \cup {Slot}]
<1>0. Slot \in Slots
  BY SlotIn DEF ZoneInv
<1>1. /\ UNCHANGED <<store, zoneEntry, confirmed>> /\ pass.at = "label"
      /\ lastKnown' = [lastKnown EXCEPT ![Slot] = "on"] /\ heard' = heard \cup {Slot}
  BY DEF LabelRead
<1>2. /\ p \in PassRec /\ p.states = pass.states /\ p.shared
      /\ p.previous = pass.previous /\ p.saving = pass.saving
  BY <1>0 DEF ZoneInv, PassTyped, PassRec
<1>3. /\ \A s \in Slots : s # Slot => records'[s] = records[s]
      /\ records' \in [Slots -> ZoneRecords] /\ Kept(records'[Slot])
  <2>1. PICK label \in {TRUE, "label" \notin zoneEnv.happens} :
          records' = IF blocked THEN records
                     ELSE [records EXCEPT ![Slot] = [uids |-> Manifest(Slot), label |-> label]]
    BY DEF LabelRead
  <2>2. label \in BOOLEAN
    BY <2>1, Zenon
  <2> DEFINE rec == [uids |-> Manifest(Slot), label |-> label]
  <2>3. rec \in ZoneRecords /\ Kept(rec)
    BY <2>2 DEF Manifest, ZoneRecords, Kept
  <2> HIDE DEF rec
  <2>4. records' = records \/ records' = [records EXCEPT ![Slot] = rec]
    BY <2>1 DEF rec
  <2> QED BY <1>0, <2>3, <2>4 DEF ZoneInv, RecordsTyped, EvidenceInv, RowsNamed
<1>4. Continues(p, records') /\ Reading
  BY DEF LabelRead, Reading
<1>5. \A s \in Slots : Kept(records'[s])
  BY <1>3 DEF EvidenceInv, RowsNamed
<1>6. heard' \subseteq confirmed'
  BY <1>1 DEF EvidenceInv, Grounded
<1>7. \A s \in Slots : p.states[s] = "disabled" => lastKnown'[s] = "off"
  BY <1>1, <1>2 DEF EvidenceInv, Grounded, ZoneInv, HistoryTyped
<1>8. \A s \in Slots : Unheard(s)' => Unheard(s) /\ records'[s] = records[s]
  BY <1>1, <1>3 DEF Unheard, ZoneInv, HistoryTyped
<1> HIDE DEF p
<1> QED BY <1>1, <1>2, <1>3, <1>4, <1>5, <1>6, <1>7, <1>8, ContinueEvidence

LEMMA SaveEvidence == ASSUME ZoneInv, EvidenceInv, SaveLands \/ SaveFails PROVE EvidenceInv'
<1>1. /\ UNCHANGED <<zoneEntry, states, confirmed, lastKnown, heard>>
      /\ pass.at = "save" /\ runner # "none"
  BY DEF SaveLands, SaveFails, coordinator, zoneHistory, EvidenceInv, Grounded
<1>2. \/ store' = pass.saving /\ records' = records
      \/ store' = store /\ records' = pass.previous
  BY DEF SaveLands, SaveFails, coordinator
<1>3. /\ pass'.at = "idle" /\ pass'.previous = Forgotten /\ pass'.saving = Forgotten
      /\ pass'.states = NothingRead
  BY DEF SaveLands, SaveFails, ZoneReturns, NoPass
<1>4. RowsNamed'
  BY <1>2, <1>3 DEF EvidenceInv, RowsNamed, Kept, Forgotten
<1>5. Grounded'
  BY <1>1, <1>3 DEF EvidenceInv, Grounded, NothingRead
<1>6. Remembered'
  BY <1>1, <1>2, <1>3 DEF EvidenceInv, Remembered, Agrees, Unheard, Alive
<1> QED BY <1>4, <1>5, <1>6 DEF EvidenceInv

LEMMA SetupEvidence == ASSUME ZoneInv, EvidenceInv, ZoneSetupBegins PROVE EvidenceInv'
<1>1. /\ UNCHANGED <<store, pass, states, confirmed, lastKnown, heard, cursor>>
      /\ records' = store /\ runner' = IF runner = "none" THEN "startup" ELSE runner
  BY DEF ZoneSetupBegins
<1>2. RowsNamed'
  BY <1>1 DEF EvidenceInv, RowsNamed
<1>3. Grounded'
  BY <1>1 DEF EvidenceInv, Grounded, Slot
<1>4. Remembered'
  BY <1>1 DEF EvidenceInv, Grounded, Remembered, Agrees, Unheard, Alive
<1> QED BY <1>2, <1>3, <1>4 DEF EvidenceInv

LEMMA EntryEvidence ==
  ASSUME ZoneInv, EvidenceInv,
         \/ ManifestUnavailable \/ ZoneSetupExpires \/ RowsCleanedUp \/ RowsProjected
         \/ ReloadInRetry \/ DeviceChanges \/ UNCHANGED zoneVars
  PROVE  EvidenceInv'
<1>1. UNCHANGED <<store, runner, cursor, pass, records, states, confirmed, lastKnown, heard>>
  BY DEF ManifestUnavailable, ZoneSetupExpires, RowsCleanedUp, RowsProjected, ReloadInRetry,
         DeviceChanges, schedule, coordinator, zoneHistory, zoneVars
<1>2. Alive' => Alive
  BY DEF ManifestUnavailable, ZoneSetupExpires, RowsCleanedUp, RowsProjected, ReloadInRetry,
         DeviceChanges, schedule, zoneVars, Alive
<1> QED BY <1>1, <1>2 DEF EvidenceInv, RowsNamed, Grounded, Remembered, Agrees, Unheard, Slot

LEMMA LostEvidence == ASSUME ZoneInv, EvidenceInv, ZoneReload \/ ZoneRestart PROVE EvidenceInv'
<1>1. CoordinatorLost
  BY DEF ZoneReload, ZoneRestart
<1>2. RowsNamed'
  <2>1. store' = store \/ store' = pass.saving
    BY <1>1 DEF CoordinatorLost
  <2> QED BY <1>1, <2>1 DEF CoordinatorLost, EvidenceInv, RowsNamed, Kept, Forgotten, NoPass
<1>3. Grounded'
  BY <1>1 DEF CoordinatorLost, Grounded, NoPass, NothingRead
<1>4. Remembered'
  BY <1>1 DEF CoordinatorLost, Remembered, Alive
<1> QED BY <1>2, <1>3, <1>4 DEF EvidenceInv

LEMMA StepEvidence == ZoneInv /\ EvidenceInv /\ [ZoneNext]_zoneVars => EvidenceInv'
BY PassBeginsEvidence, FunctionUnreadEvidence, FunctionOffEvidence, FunctionStrangeEvidence,
   FunctionOnEvidence, LabelReadEvidence, SaveEvidence, SetupEvidence, EntryEvidence, LostEvidence
   DEF ZoneNext, PassStep, EntryStep

(* A zone keeps its rows: the cleanup finds no reason to remove them.      *)
THEOREM RowsStay == ZoneSpec => RowsKept
<1> DEFINE Lost(s) ==
      \/ s \in Overridden
      \/ lastKnown[s] # "on"
      \/ store[s] = NoRecord /\ s \notin heard
<1>1. ZoneInit => EvidenceInv
  BY InitEvidence
<1>2. ZoneInv /\ EvidenceInv /\ [ZoneNext]_zoneVars => EvidenceInv'
  BY StepEvidence
<1>3. ASSUME ZoneInv, EvidenceInv, ZoneNext, NEW s \in slotRows \ slotRows' PROVE Lost(s)
  <2>1. RowsCleanedUp
    BY <1>3 DEF ZoneNext, PassStep, EntryStep, ZonePassBegins, FunctionUnread, FunctionOff,
                FunctionStrange, FunctionOn, LabelRead, SaveLands, SaveFails, ZoneSetupBegins,
                RowsProjected, ZoneReload, ReloadInRetry, CoordinatorLost, ManifestUnavailable,
                ZoneSetupExpires, ZoneRestart, DeviceChanges, rowVars
  <2>2. Stale(s) /\ zoneEntry = "setup" /\ s \in Slots
    BY <1>3, <2>1 DEF RowsCleanedUp, ZoneInv, RowsTyped
  <2>3. CASE states[s] = "disabled"
    BY <1>3, <2>2, <2>3 DEF EvidenceInv, Grounded
  <2>4. CASE Uncertain(s)
    <3>1. s \notin heard /\ records[s] = NoRecord
      BY <1>3, <2>4 DEF Uncertain, EvidenceInv, Grounded
    <3>2. Unheard(s) => store[s] = NoRecord
      BY <1>3, <2>2, <3>1 DEF EvidenceInv, Remembered, Agrees, Alive
    <3> QED BY <3>1, <3>2 DEF Unheard
  <2>5. ~(records[s] # NoRecord /\ "row" \notin records[s].uids)
    BY <1>3, <2>2 DEF EvidenceInv, RowsNamed, Kept
  <2> QED BY <2>2, <2>3, <2>4, <2>5 DEF Stale
<1>4. ZoneInv /\ EvidenceInv /\ [ZoneNext]_zoneVars
        => [\A s \in slotRows \ slotRows' : Lost(s)]_zoneVars
  BY <1>3
<1> QED BY <1>1, <1>2, <1>4, ZoneSafe, PTL DEF ZoneSpec, RowsKept

-----------------------------------------------------------------------------
(* What is stored of a zone.                                               *)

(* Slots that the present pass has left, which it does not meet again.     *)
Visited == {((cursor + k) % SlotCount) + 1 : k \in 0..pass.offset - 1}

(* Unless a setup loaded another manifest under the coordinator, a stored  *)
(* record is missing elsewhere only after its slot was read to be none.    *)
Survives(s) ==
    /\ Alive /\ pass.at = "idle" /\ store[s] # NoRecord => records[s] # NoRecord
    /\ pass.at # "idle" /\ store[s] # NoRecord => pass.previous[s] # NoRecord
    /\ Reading /\ store[s] # NoRecord /\ records[s] = NoRecord
         => lastKnown[s] = "off" /\ s \in Visited
    /\ pass.at = "save" /\ store[s] # NoRecord /\ pass.saving[s] = NoRecord
         => lastKnown[s] = "off"
    /\ pass.at = "save" /\ pass.saving[s] # NoRecord => records[s] # NoRecord
SurvivalInv == ~overtaken => \A s \in Slots : Survives(s)

LEMMA Wraps ==
  ASSUME NEW n \in Nat, n < SlotCount + SlotCount
  PROVE  n % SlotCount = IF n < SlotCount THEN n ELSE n - SlotCount
OBVIOUS

LEMMA SlotNotVisited == ASSUME CursorTyped, PassTyped PROVE Slot \notin Visited
<1> SUFFICES ASSUME NEW k \in 0..pass.offset - 1, Slot = ((cursor + k) % SlotCount) + 1
             PROVE  FALSE
  BY DEF Visited
<1>1. /\ cursor \in Nat /\ cursor < SlotCount /\ pass.offset \in Nat /\ pass.offset < SlotCount
      /\ k \in Nat /\ k < pass.offset
  BY DEF CursorTyped, PassTyped, PassRec
<1> DEFINE a == cursor + k
           b == cursor + pass.offset
<1>2. a \in Nat /\ b \in Nat /\ a < b /\ b < SlotCount + SlotCount /\ b - a < SlotCount
  BY <1>1
<1>3. b % SlotCount = a % SlotCount
  <2>1. a % SlotCount \in Nat /\ b % SlotCount \in Nat
    BY <1>2, CursorWraps
  <2>2. (b % SlotCount) + 1 = (a % SlotCount) + 1
    BY DEF Slot
  <2> QED BY <2>1, <2>2
<1>4. /\ a % SlotCount = IF a < SlotCount THEN a ELSE a - SlotCount
      /\ b % SlotCount = IF b < SlotCount THEN b ELSE b - SlotCount
  BY <1>2, Wraps
<1> HIDE DEF a, b
<1> QED BY <1>2, <1>3, <1>4

LEMMA VisitedGrows ==
  ASSUME CursorTyped, PassTyped, UNCHANGED cursor, pass'.offset = pass.offset + 1
  PROVE  Visited' = Visited \cup {Slot}
<1>1. pass.offset \in Nat
  BY DEF PassTyped, PassRec
<1>2. 0..pass'.offset - 1 = (0..pass.offset - 1) \cup {pass.offset}
  BY <1>1
<1> QED BY <1>2 DEF Visited, Slot

(* A slot's read: what it drops it has found to be no zone, and what was   *)
(* dropped before is not its slot.                                         *)
LEMMA ContinueSurvives ==
  ASSUME ZoneInv, EvidenceInv, SurvivalInv, Reading, NEW p \in PassRec,
         records' \in [Slots -> ZoneRecords], Continues(p, records'),
         UNCHANGED <<store, overtaken>>,
         p.previous = pass.previous, p.offset = pass.offset,
         \A s \in Slots : Kept(records'[s]),
         \A s \in Slots : s # Slot => records'[s] = records[s] /\ lastKnown'[s] = lastKnown[s],
         \/ lastKnown'[Slot] = "off"
         \/ records'[Slot] = NoRecord => records[Slot] = NoRecord
  PROVE  SurvivalInv'
<1> SUFFICES ASSUME ~overtaken, NEW s \in Slots PROVE Survives(s)'
  BY DEF SurvivalInv
<1>1. Survives(s)
  BY DEF SurvivalInv
<1>2. store[s] # NoRecord => p.previous[s] # NoRecord
  BY <1>1 DEF Survives, Reading
<1>3. Slot \notin Visited
  BY SlotNotVisited DEF ZoneInv
<1>4. store[s] # NoRecord /\ records'[s] = NoRecord
        => lastKnown'[s] = "off" /\ s \in Visited \cup {Slot}
  BY <1>1, <1>3 DEF Survives
<1>5. CASE GoesOn(p)
  <2>1. pass'.at = "function" /\ pass'.previous = p.previous /\ pass'.offset = pass.offset + 1
    BY <1>5 DEF GoesOn, PassRec
  <2>2. Visited' = Visited \cup {Slot}
    BY <1>5, <2>1, VisitedGrows DEF GoesOn, ZoneInv
  <2> QED BY <1>2, <1>4, <2>1, <2>2 DEF Survives
<1>6. CASE Ends(p, records')
  <2>1. pass'.at = "idle" /\ records' = p.previous
    BY <1>6 DEF Ends, NoPass
  <2> QED BY <1>2, <2>1 DEF Survives, Reading
<1>7. CASE Saves(p, records')
  <2>1. /\ pass'.at = "save" /\ pass'.previous = p.previous
        /\ pass'.saving = [t \in Slots |-> Storable(records'[t])]
    BY <1>7 DEF Saves, PassRec
  <2>2. pass'.saving[s] = NoRecord <=> records'[s] = NoRecord
    BY <2>1, StorableKept
  <2> QED BY <1>2, <1>4, <2>1, <2>2 DEF Survives, Reading
<1> QED BY <1>5, <1>6, <1>7, ContinueShape

LEMMA InitSurvives == ZoneInit => SurvivalInv
BY DEF ZoneInit, SurvivalInv, Survives, Forgotten, NoPass, Reading

LEMMA PassBeginsSurvives ==
  ASSUME ZoneInv, EvidenceInv, SurvivalInv, ZonePassBegins PROVE SurvivalInv'
<1> SUFFICES ASSUME ~overtaken, NEW s \in Slots PROVE Survives(s)'
  BY DEF SurvivalInv, ZonePassBegins
<1>1. Survives(s) /\ Alive /\ pass.at = "idle"
  BY DEF SurvivalInv, ZonePassBegins, Alive
<1>2. pass'.at = "function" /\ pass'.previous = records /\ UNCHANGED <<store, records>>
  BY DEF ZonePassBegins, NoPass, coordinator
<1> QED BY <1>1, <1>2 DEF Survives

LEMMA FunctionSurvives ==
  ASSUME ZoneInv, EvidenceInv, EvidenceInv', SurvivalInv, FunctionUnread \/ FunctionStrange
  PROVE  SurvivalInv'
<1>1. UNCHANGED <<store, overtaken, records, lastKnown>> /\ Reading
  BY DEF FunctionUnread, FunctionStrange, zoneHistory, RecordsUnread, Reading
<1>2. records' \in [Slots -> ZoneRecords] /\ \A s \in Slots : Kept(records'[s])
  BY <1>1 DEF ZoneInv, RecordsTyped, EvidenceInv, RowsNamed
<1>3. CASE FunctionUnread
  <2> DEFINE p == [pass EXCEPT !.complete = FALSE]
  <2>1. p \in PassRec /\ p.previous = pass.previous /\ p.offset = pass.offset
    BY DEF ZoneInv, PassTyped, PassRec
  <2>2. Continues(p, records')
    BY <1>3 DEF FunctionUnread
  <2> HIDE DEF p
  <2> QED BY <1>1, <1>2, <2>1, <2>2, ContinueSurvives
<1>4. CASE FunctionStrange
  <2> DEFINE p == [pass EXCEPT !.complete = FALSE, !.profiles = @ \ {Slot}]
  <2>1. p \in PassRec /\ p.previous = pass.previous /\ p.offset = pass.offset
    BY DEF ZoneInv, PassTyped, PassRec
  <2>2. Continues(p, records')
    BY <1>1, <1>4 DEF FunctionStrange
  <2> HIDE DEF p
  <2> QED BY <1>1, <1>2, <2>1, <2>2, ContinueSurvives
<1> QED BY <1>3, <1>4

LEMMA FunctionOffSurvives ==
  ASSUME ZoneInv, EvidenceInv, EvidenceInv', SurvivalInv, FunctionOff PROVE SurvivalInv'
<1> DEFINE p == [pass EXCEPT !.states[Slot] = "disabled", !.profiles = @ \ {Slot}]
<1>0. Slot \in Slots
  BY SlotIn DEF ZoneInv
<1>1. /\ UNCHANGED <<store, overtaken>> /\ Reading
      /\ records' = [records EXCEPT ![Slot] = NoRecord]
      /\ lastKnown' = [lastKnown EXCEPT ![Slot] = "off"]
      /\ Continues(p, records')
  BY DEF FunctionOff, Reading
<1>2. p \in PassRec /\ p.previous = pass.previous /\ p.offset = pass.offset
  BY DEF ZoneInv, PassTyped, PassRec, ReadStates
<1>3. records' \in [Slots -> ZoneRecords] /\ \A s \in Slots : Kept(records'[s])
  BY <1>1, BlankTyped DEF ZoneInv, RecordsTyped, EvidenceInv, RowsNamed
<1>4. /\ \A s \in Slots : s # Slot => records'[s] = records[s] /\ lastKnown'[s] = lastKnown[s]
      /\ lastKnown'[Slot] = "off"
  BY <1>0, <1>1 DEF ZoneInv, RecordsTyped, HistoryTyped
<1> HIDE DEF p
<1> QED BY <1>1, <1>2, <1>3, <1>4, ContinueSurvives

LEMMA FunctionOnSurvives ==
  ASSUME ZoneInv, SurvivalInv, FunctionOn PROVE SurvivalInv'
<1> SUFFICES ASSUME ~overtaken, NEW s \in Slots PROVE Survives(s)'
  BY DEF SurvivalInv, FunctionOn
<1>1. Survives(s)
  BY DEF SurvivalInv
<1>2. UNCHANGED <<store, records, lastKnown, cursor>> /\ pass.at = "function"
  BY DEF FunctionOn
<1>3. pass'.at = "label" /\ pass'.previous = pass.previous /\ pass'.offset = pass.offset
  BY DEF FunctionOn, ZoneInv, PassTyped, PassRec
<1> QED BY <1>1, <1>2, <1>3 DEF Survives, Reading, Visited

LEMMA LabelReadSurvives ==
  ASSUME ZoneInv, EvidenceInv, EvidenceInv', SurvivalInv, LabelRead PROVE SurvivalInv'
<1> DEFINE p == [pass EXCEPT !.shared = TRUE, !.profiles = @ \cup {Slot}]
<1>0. Slot \in Slots
  BY SlotIn DEF ZoneInv
<1>1. /\ UNCHANGED <<store, overtaken>> /\ Reading
      /\ lastKnown' = [lastKnown EXCEPT ![Slot] = "on"] /\ Continues(p, records')
  BY DEF LabelRead, Reading
<1>2. p \in PassRec /\ p.previous = pass.previous /\ p.offset = pass.offset
  BY <1>0 DEF ZoneInv, PassTyped, PassRec
<1>3. /\ records' \in [Slots -> ZoneRecords]
      /\ \A s \in Slots : s # Slot => records'[s] = records[s]
      /\ records'[Slot] = NoRecord => records[Slot] = NoRecord
  <2>1. PICK label \in {TRUE, "label" \notin zoneEnv.happens} :
          records' = IF blocked THEN records
                     ELSE [records EXCEPT ![Slot] = [uids |-> Manifest(Slot), label |-> label]]
    BY DEF LabelRead
  <2>2. label \in BOOLEAN
    BY <2>1, Zenon
  <2> DEFINE rec == [uids |-> Manifest(Slot), label |-> label]
  <2>3. rec \in ZoneRecords /\ rec # NoRecord
    BY <2>2 DEF Manifest, ZoneRecords, NoRecord
  <2> HIDE DEF rec
  <2>4. records' = records \/ records' = [records EXCEPT ![Slot] = rec]
    BY <2>1 DEF rec
  <2> QED BY <1>0, <2>3, <2>4 DEF ZoneInv, RecordsTyped
<1>4. /\ \A s \in Slots : Kept(records'[s])
      /\ \A s \in Slots : s # Slot => lastKnown'[s] = lastKnown[s]
  BY <1>1 DEF EvidenceInv, RowsNamed, ZoneInv, HistoryTyped
<1> HIDE DEF p
<1> QED BY <1>1, <1>2, <1>3, <1>4, ContinueSurvives

LEMMA SaveSurvives ==
  ASSUME ZoneInv, SurvivalInv, SaveLands \/ SaveFails PROVE SurvivalInv'
<1>0. overtaken' = overtaken
  BY DEF SaveLands, SaveFails, zoneHistory
<1> SUFFICES ASSUME ~overtaken, NEW s \in Slots PROVE Survives(s)'
  BY <1>0 DEF SurvivalInv
<1>1. Survives(s) /\ pass.at = "save"
  BY DEF SurvivalInv, SaveLands, SaveFails
<1>2. \/ store' = pass.saving /\ records' = records
      \/ store' = store /\ records' = pass.previous
  BY DEF SaveLands, SaveFails, coordinator
<1>3. pass'.at = "idle"
  BY DEF SaveLands, SaveFails, ZoneReturns, NoPass
<1> QED BY <1>1, <1>2, <1>3 DEF Survives, Reading

LEMMA SetupSurvives ==
  ASSUME ZoneInv, EvidenceInv, SurvivalInv, ZoneSetupBegins PROVE SurvivalInv'
<1> SUFFICES ASSUME ~overtaken', NEW s \in Slots PROVE Survives(s)'
  BY DEF SurvivalInv
<1>1. /\ UNCHANGED <<store, pass, lastKnown, cursor>> /\ records' = store
      /\ ~overtaken /\ (records = store \/ records = Forgotten)
  BY DEF ZoneSetupBegins
<1>2. Survives(s)
  BY <1>1 DEF SurvivalInv
<1>3. pass.at = "save" /\ pass.saving[s] # NoRecord => records'[s] # NoRecord
  BY <1>1, <1>2 DEF Survives, Forgotten
<1> QED BY <1>1, <1>2, <1>3 DEF Survives, Reading

LEMMA EntrySurvives ==
  ASSUME SurvivalInv,
         \/ ManifestUnavailable \/ ZoneSetupExpires \/ RowsCleanedUp \/ RowsProjected
         \/ ReloadInRetry \/ DeviceChanges \/ UNCHANGED zoneVars
  PROVE  SurvivalInv'
<1>1. UNCHANGED <<store, cursor, pass, records, lastKnown, overtaken>>
  BY DEF ManifestUnavailable, ZoneSetupExpires, RowsCleanedUp, RowsProjected, ReloadInRetry,
         DeviceChanges, schedule, coordinator, zoneHistory, zoneVars
<1>2. Alive' => Alive
  BY DEF ManifestUnavailable, ZoneSetupExpires, RowsCleanedUp, RowsProjected, ReloadInRetry,
         DeviceChanges, schedule, zoneVars, Alive
<1> QED BY <1>1, <1>2 DEF SurvivalInv, Survives, Reading, Visited

LEMMA LostSurvives == ASSUME ZoneReload \/ ZoneRestart PROVE SurvivalInv'
<1>1. CoordinatorLost
  BY DEF ZoneReload, ZoneRestart
<1> QED BY <1>1 DEF CoordinatorLost, SurvivalInv, Survives, Alive, Reading, NoPass

LEMMA StepSurvives ==
  ZoneInv /\ EvidenceInv /\ EvidenceInv' /\ SurvivalInv /\ [ZoneNext]_zoneVars => SurvivalInv'
BY PassBeginsSurvives, FunctionSurvives, FunctionOffSurvives, FunctionOnSurvives, LabelReadSurvives,
   SaveSurvives, SetupSurvives, EntrySurvives, LostSurvives DEF ZoneNext, PassStep, EntryStep

(* No failure, reload or restart drops a stored record.                    *)
THEOREM RecordsStay == ZoneSpec => RecordsSurvive
<1> DEFINE Found(s) == lastKnown[s] = "off" \/ overtaken
           Dropped(s) == store[s] # NoRecord /\ store'[s] = NoRecord
<1>1. ZoneInit => EvidenceInv /\ SurvivalInv
  BY InitEvidence, InitSurvives
<1>2. ZoneInv /\ EvidenceInv /\ SurvivalInv /\ [ZoneNext]_zoneVars => (EvidenceInv /\ SurvivalInv)'
  BY StepEvidence, StepSurvives
<1>3. ASSUME ZoneInv, SurvivalInv, ZoneNext, NEW s \in Slots, Dropped(s) PROVE Found(s)
  <2>1. store' = store \/ (pass.at = "save" /\ store' = pass.saving)
    BY <1>3 DEF ZoneNext, PassStep, EntryStep, ZonePassBegins, FunctionUnread, FunctionOff,
                FunctionStrange, FunctionOn, LabelRead, SaveLands, SaveFails, ZoneSetupBegins,
                RowsCleanedUp, RowsProjected, ZoneReload, ReloadInRetry, CoordinatorLost,
                ManifestUnavailable, ZoneSetupExpires, ZoneRestart, DeviceChanges
  <2> QED BY <1>3, <2>1 DEF SurvivalInv, Survives
<1>4. ZoneInv /\ SurvivalInv /\ [ZoneNext]_zoneVars
        => [\A s \in Slots : Dropped(s) => Found(s)]_zoneVars
  BY <1>3
<1> QED BY <1>1, <1>2, <1>4, ZoneSafe, PTL DEF ZoneSpec, RecordsSurvive
=============================================================================
