------------------------ MODULE EntityProjectionProofs ------------------------
(***************************************************************************)
(* Theorems about EntityProjection, for every set of cases.                *)
(*                                                                         *)
(* EntityInv follows refusals and the one projection of a register through *)
(* removal and migration.  For OrderIsFree and ChoiceStands each step of a *)
(* setup is reduced to what it makes of a single row: Brought is one       *)
(* platform, Ahead all those still to come.  Ahead does not change when    *)
(* one of them comes up, hence the order is free; and a row that the user  *)
(* wants is enabled, hidden by its category, in its tombstone, or on its   *)
(* way from the control to the sensor.                                     *)
(***************************************************************************)
EXTENDS EntityProjection, TLAPS

USE EntityAssumption

Pendings == {"none", "default", "enabled", "user"}
StateRec == [rows : [Kinds -> RowStates], tombs : [Kinds -> RowStates], pending : Pendings,
             polled : BOOLEAN]
OnOff == {"enabled", "integration"}

(* The integration changes its own mind about a row, and nothing else.     *)
Switched(s, t) ==
    /\ t \in StateRec /\ t.tombs = s.tombs /\ t.pending = s.pending
    /\ \A k \in Kinds : t.rows[k] = s.rows[k] \/ (s.rows[k] \in OnOff /\ t.rows[k] \in OnOff)

-----------------------------------------------------------------------------
(* What the steps of a setup do to the rows.                               *)

LEMMA KindsOf == Kinds = {"sensor", "bit", "control", "time"}
BY DEF Kinds

LEMMA VisibleSwitches == ASSUME NEW s \in StateRec PROVE Switched(s, Visible(s))
<1> DEFINE hidden(k) == ~CategoryVisible /\ s.rows[k] = "enabled"
           shown(k) == /\ CategoryVisible /\ s.rows[k] = "integration"
                       /\ Allowed /\ ZoneOn /\ ProjectionMayWrite(k)
           after == [k \in Kinds |-> CASE k # "time" /\ hidden(k) -> "integration"
                                       [] k # "time" /\ shown(k)  -> "enabled"
                                       [] OTHER                   -> s.rows[k]]
<1>1. Visible(s) = s \/ Visible(s) = [s EXCEPT !.rows = after]
  BY DEF Visible
<1>2. \A k \in Kinds : \/ after[k] = s.rows[k]
                       \/ after[k] = "integration" /\ s.rows[k] = "enabled"
                       \/ after[k] = "enabled" /\ s.rows[k] = "integration"
  BY Zenon
<1>3. after = [k \in Kinds |-> after[k]]
  OBVIOUS
<1> HIDE DEF after
<1>4. after \in [Kinds -> RowStates]
  BY <1>2, <1>3 DEF RowStates, StateRec
<1> QED BY <1>1, <1>2, <1>4 DEF Switched, StateRec, OnOff

LEMMA OverriddenSwitches == ASSUME NEW s \in StateRec PROVE Switched(s, Overridden(s))
<1> DEFINE chosen(k) == PickOf(k) # "none" \/ options.scope # "none"
           considered(k) == /\ k # "time"
                            /\ IF Listed THEN chosen(k) \/ (Unobserved /\ k # "bit")
                                         ELSE PickOf(k) # "none"
           should(k) == /\ Listed /\ EnabledByDefault(k) /\ Allowed /\ CategoryVisible
                        /\ ProjectionMayWrite(k)
           off(k) == considered(k) /\ ~should(k) /\ s.rows[k] = "enabled" /\ (chosen(k) \/ ~Retained(k))
           on(k) == considered(k) /\ should(k) /\ s.rows[k] = "integration"
           after == [k \in Kinds |-> CASE off(k) -> "integration"
                                       [] on(k)  -> "enabled"
                                       [] OTHER  -> s.rows[k]]
<1>1. Overridden(s) = [s EXCEPT !.rows = after]
  BY Zenon DEF Overridden
<1>2. \A k \in Kinds : (off(k) => s.rows[k] = "enabled") /\ (on(k) => s.rows[k] = "integration")
  OBVIOUS
<1> HIDE DEF off, on
<1>3. \A k \in Kinds : \/ after[k] = s.rows[k]
                       \/ after[k] = "integration" /\ s.rows[k] = "enabled"
                       \/ after[k] = "enabled" /\ s.rows[k] = "integration"
  BY <1>2, Zenon
<1>4. after = [k \in Kinds |-> after[k]]
  OBVIOUS
<1> HIDE DEF after
<1>5. after \in [Kinds -> RowStates]
  BY <1>3, <1>4 DEF RowStates, StateRec
<1> QED BY <1>1, <1>3, <1>5 DEF Switched, StateRec, OnOff

LEMMA PollingShape ==
  ASSUME NEW s \in StateRec
  PROVE  Polling(s) \in StateRec /\ Polling(s).rows = s.rows /\ Switched(s, Polling(s))
<1> DEFINE present == ~Unobserved \/ EnabledByDefault("sensor") \/ OptsIn(s, Kinds)
           safe == IF Is("control") \/ Is("bits") THEN Readable
                   ELSE \/ Is("default") \/ EnabledByDefault("sensor")
                        \/ Readable /\ OptsIn(s, {"sensor", "bit"})
           polls == Joined(s, Projecting /\ Allowed /\ ZoneOn /\ present /\ safe)
<1>1. Polling(s) = [s EXCEPT !.polled = polls]
  BY Zenon DEF Polling
<1>2. polls \in BOOLEAN
  BY Zenon DEF Joined
<1> HIDE DEF polls
<1> QED BY <1>1, <1>2 DEF StateRec, Switched

LEMMA RemovedShape ==
  ASSUME NEW s \in StateRec, NEW ks \in SUBSET Kinds
  PROVE  LET t == Removed(s, ks) IN
         /\ t \in StateRec /\ t.pending = s.pending /\ t.polled = s.polled
         /\ \A k \in Kinds :
               /\ k \in ks => t.rows[k] = "none"
               /\ k \in ks /\ s.rows[k] # "none" => t.tombs[k] = s.rows[k]
               /\ k \notin ks => t.rows[k] = s.rows[k]
               /\ k \notin ks \/ s.rows[k] = "none" => t.tombs[k] = s.tombs[k]
<1> DEFINE gone == {k \in ks : s.rows[k] # "none"}
           after == [k \in Kinds |-> IF k \in gone THEN "none" ELSE s.rows[k]]
           kept == [k \in Kinds |-> IF k \in gone THEN s.rows[k] ELSE s.tombs[k]]
<1>1. Removed(s, ks) = [s EXCEPT !.rows = after, !.tombs = kept]
  BY Zenon DEF Removed
<1>2. after \in [Kinds -> RowStates] /\ kept \in [Kinds -> RowStates]
  BY DEF StateRec, RowStates
<1>3. Removed(s, ks) \in StateRec
  <2> HIDE DEF after, kept
  <2> QED BY <1>1, <1>2 DEF StateRec
<1>4. LET t == Removed(s, ks) IN
      t.rows = after /\ t.tombs = kept /\ t.pending = s.pending /\ t.polled = s.polled
  <2> HIDE DEF after, kept
  <2> QED BY <1>1 DEF StateRec
<1> QED BY <1>3, <1>4

LEMMA CreatedShape ==
  ASSUME NEW s \in StateRec, NEW k \in Kinds, NEW enabled
  PROVE  LET t == Created(s, k, enabled) IN
         /\ t \in StateRec /\ t.pending = s.pending /\ t.polled = s.polled /\ t.rows[k] # "none"
         /\ s.rows[k] # "none" => t.rows[k] = s.rows[k]
         /\ s.rows[k] = "none" /\ s.tombs[k] # "none" => t.rows[k] = s.tombs[k]
         /\ s.rows[k] = "none" /\ s.tombs[k] = "none" => t.rows[k] \in OnOff
         /\ \A j \in Kinds : j # k => t.rows[j] = s.rows[j] /\ t.tombs[j] = s.tombs[j]
<1> DEFINE new == IF s.tombs[k] # "none" THEN s.tombs[k]
                  ELSE IF enabled THEN "enabled" ELSE "integration"
<1>1. new \in RowStates /\ new # "none" /\ (s.tombs[k] = "none" => new \in OnOff)
  BY DEF StateRec, RowStates, OnOff
<1>2. CASE s.rows[k] # "none"
  BY <1>2 DEF Created
<1>3. CASE s.rows[k] = "none"
  <2>1. Created(s, k, enabled) = [s EXCEPT !.rows[k] = new, !.tombs[k] = "none"]
    BY <1>3 DEF Created
  <2>2. s.tombs[k] # "none" => new = s.tombs[k]
    OBVIOUS
  <2> HIDE DEF new
  <2> DEFINE t == Created(s, k, enabled)
  <2>3. /\ t = [rows |-> [s.rows EXCEPT ![k] = new], tombs |-> [s.tombs EXCEPT ![k] = "none"],
                pending |-> s.pending, polled |-> s.polled]
    BY <2>1 DEF StateRec
  <2>4. /\ t.rows = [s.rows EXCEPT ![k] = new] /\ t.tombs = [s.tombs EXCEPT ![k] = "none"]
        /\ t.pending = s.pending /\ t.polled = s.polled
    BY <2>3
  <2>5. t.rows \in [Kinds -> RowStates] /\ t.tombs \in [Kinds -> RowStates]
    BY <1>1, <2>4 DEF StateRec, RowStates
  <2>6. t \in StateRec
    BY <2>3, <2>5 DEF StateRec
  <2>7. /\ t.rows[k] = new
        /\ \A j \in Kinds : j # k => t.rows[j] = s.rows[j] /\ t.tombs[j] = s.tombs[j]
    BY <2>4 DEF StateRec
  <2> HIDE DEF t
  <2>8. /\ t \in StateRec /\ t.pending = s.pending /\ t.polled = s.polled /\ t.rows[k] # "none"
        /\ s.rows[k] = "none" /\ s.tombs[k] # "none" => t.rows[k] = s.tombs[k]
        /\ s.rows[k] = "none" /\ s.tombs[k] = "none" => t.rows[k] \in OnOff
        /\ \A j \in Kinds : j # k => t.rows[j] = s.rows[j] /\ t.tombs[j] = s.tombs[j]
    BY <1>1, <2>2, <2>4, <2>6, <2>7
  <2> USE DEF t
  <2> QED BY <1>3, <2>8
<1> QED BY <1>2, <1>3

LEMMA RestoredShape ==
  ASSUME NEW s \in StateRec
  PROVE  LET t == Restored(s) IN
         /\ t \in StateRec /\ t.tombs = s.tombs /\ t.polled = s.polled
         /\ \A k \in Kinds \ {"sensor"} : t.rows[k] = s.rows[k]
         /\ s.pending = "none" => t.rows["sensor"] = s.rows["sensor"] /\ t.pending = "none"
         /\ s.rows["sensor"] = "none" => t.rows["sensor"] = "none" /\ t.pending = s.pending
         /\ s.pending # "none" /\ s.rows["sensor"] # "none"
              => /\ t.pending = "none" /\ t.rows["sensor"] # "none"
                 /\ s.pending = "user" => t.rows["sensor"] = "user"
<1>1. "sensor" \in Kinds
  BY DEF Kinds
<1>2. CASE s.pending = "none" \/ s.rows["sensor"] = "none"
  BY <1>2 DEF Restored
<1>3. CASE s.pending # "none" /\ s.rows["sensor"] # "none"
  <2> DEFINE row == IF s.pending = "default" THEN s.rows["sensor"] ELSE s.pending
  <2>1. Restored(s) = [s EXCEPT !.rows["sensor"] = row, !.pending = "none"]
    BY <1>3 DEF Restored
  <2>2. row \in RowStates /\ row # "none" /\ (s.pending = "user" => row = "user")
    BY <1>1, <1>3 DEF StateRec, Pendings, RowStates
  <2> HIDE DEF row
  <2> DEFINE t == Restored(s)
  <2>3. t = [rows |-> [s.rows EXCEPT !["sensor"] = row], tombs |-> s.tombs, pending |-> "none",
             polled |-> s.polled]
    BY <2>1 DEF StateRec
  <2>4. t \in StateRec
    <3>1. [s.rows EXCEPT !["sensor"] = row] \in [Kinds -> RowStates]
      BY <2>2 DEF StateRec
    <3> QED BY <2>3, <3>1 DEF StateRec, Pendings
  <2>5. /\ t.rows["sensor"] = row /\ t.tombs = s.tombs /\ t.polled = s.polled /\ t.pending = "none"
        /\ \A k \in Kinds \ {"sensor"} : t.rows[k] = s.rows[k]
    BY <1>1, <2>3 DEF StateRec
  <2> HIDE DEF t
  <2>6. /\ t \in StateRec /\ t.tombs = s.tombs /\ t.polled = s.polled /\ t.pending = "none"
        /\ \A k \in Kinds \ {"sensor"} : t.rows[k] = s.rows[k]
        /\ t.rows["sensor"] # "none" /\ (s.pending = "user" => t.rows["sensor"] = "user")
    BY <2>2, <2>4, <2>5
  <2> USE DEF t
  <2> QED BY <1>3, <2>6
<1> QED BY <1>2, <1>3

LEMMA MigratedTyped == ASSUME NEW s \in StateRec PROVE Migrated(s) \in StateRec
<1>1. Removed(s, {"sensor"}) \in StateRec
  BY RemovedShape DEF Kinds
<1>2. ASSUME s.rows["control"] # "none"
      PROVE  Removed([s EXCEPT !.pending = CarriedOver(s.rows["control"], @)], {"control"}) \in StateRec
  <2> DEFINE carried == CarriedOver(s.rows["control"], s.pending)
             t == [s EXCEPT !.pending = carried]
  <2>1. carried \in Pendings
    BY <1>2 DEF CarriedOver, StateRec, Pendings, RowStates, Kinds
  <2>2. t \in StateRec
    <3> HIDE DEF carried
    <3> QED BY <2>1 DEF StateRec
  <2> HIDE DEF t
  <2>3. Removed(t, {"control"}) \in StateRec
    BY <2>2, RemovedShape DEF Kinds
  <2> QED BY <2>3 DEF t
<1> QED BY <1>1, <1>2 DEF Migrated

LEMMA ClocksShape ==
  ASSUME NEW s \in StateRec
  PROVE  LET v == Polling(Visible(s))
             t == ClocksUp(s) IN
         /\ v \in StateRec /\ t \in StateRec /\ t.pending = v.pending /\ t.polled = v.polled
         /\ \A k \in Kinds \ {"time"} : t.rows[k] = v.rows[k] /\ t.tombs[k] = v.tombs[k]
         /\ v.rows["time"] = "user" => t.rows["time"] = "user"
         /\ v.rows["time"] = "none"
              => \/ t.rows["time"] = "none" /\ t.tombs["time"] = v.tombs["time"]
                 \/ Projecting /\ (v.tombs["time"] = "user" => t.rows["time"] = "user")
<1> DEFINE v == Polling(Visible(s))
           numbered == v.rows["control"] = "enabled"
           hides == IF v.rows["time"] = "enabled" THEN "integration" ELSE v.rows["time"]
           shows == IF numbered /\ v.rows["time"] = "integration" THEN "enabled" ELSE v.rows["time"]
           hidden == [v EXCEPT !.rows["time"] = hides]
           shown == [v EXCEPT !.rows["time"] = shows]
<1>1. v \in StateRec
  BY VisibleSwitches, PollingShape DEF Switched
<1>2. \/ ClocksUp(s) = v
      \/ ClocksUp(s) = hidden
      \/ Projecting /\ ClocksUp(s) = Created(shown, "time", TRUE)
  BY Zenon DEF ClocksUp, Refreshed
<1>3. "time" \in Kinds
  BY DEF Kinds
<1> HIDE DEF v
<1>4. /\ hides \in RowStates /\ shows \in RowStates
      /\ v.rows["time"] \in {"none", "user"} => hides = v.rows["time"] /\ shows = v.rows["time"]
      /\ v.rows["time"] = "none" <=> shows = "none"
  BY <1>1, <1>3 DEF StateRec, RowStates
<1> HIDE DEF hides, shows
<1>5. /\ hidden \in StateRec /\ shown \in StateRec
      /\ hidden.rows["time"] = hides /\ shown.rows["time"] = shows
      /\ hidden.tombs = v.tombs /\ shown.tombs = v.tombs
      /\ hidden.pending = v.pending /\ shown.pending = v.pending
      /\ hidden.polled = v.polled /\ shown.polled = v.polled
      /\ \A k \in Kinds \ {"time"} : hidden.rows[k] = v.rows[k] /\ shown.rows[k] = v.rows[k]
  BY <1>1, <1>3, <1>4 DEF StateRec
<1> HIDE DEF hidden, shown
<1>6. CASE ClocksUp(s) = v
  BY <1>1, <1>6 DEF v
<1>7. CASE ClocksUp(s) = hidden
  BY <1>1, <1>4, <1>5, <1>7 DEF v
<1>8. CASE Projecting /\ ClocksUp(s) = Created(shown, "time", TRUE)
  <2> DEFINE always == TRUE
             t == Created(shown, "time", always)
  <2> HIDE DEF always
  <2>1. /\ t \in StateRec /\ t.pending = v.pending /\ t.polled = v.polled
        /\ \A k \in Kinds \ {"time"} : t.rows[k] = v.rows[k] /\ t.tombs[k] = v.tombs[k]
        /\ shows # "none" => t.rows["time"] = shows
        /\ shows = "none" /\ v.tombs["time"] # "none" => t.rows["time"] = v.tombs["time"]
    <3>1. /\ t \in StateRec /\ t.pending = shown.pending /\ t.polled = shown.polled
          /\ \A k \in Kinds : k # "time" => t.rows[k] = shown.rows[k] /\ t.tombs[k] = shown.tombs[k]
          /\ shown.rows["time"] # "none" => t.rows["time"] = shown.rows["time"]
          /\ shown.rows["time"] = "none" /\ shown.tombs["time"] # "none"
               => t.rows["time"] = shown.tombs["time"]
      BY <1>3, <1>5, CreatedShape
    <3> HIDE DEF t
    <3> QED BY <1>5, <3>1
  <2> HIDE DEF t
  <2>2. /\ v.rows["time"] = "user" => t.rows["time"] = "user"
        /\ v.rows["time"] = "none" /\ v.tombs["time"] = "user" => t.rows["time"] = "user"
    BY <1>4, <2>1
  <2> USE DEF always, t, v
  <2> QED BY <1>1, <1>8, <2>1, <2>2
<1> QED BY <1>2, <1>6, <1>7, <1>8

LEMMA UpTyped == ASSUME NEW s \in StateRec, NEW p \in Platforms PROVE Up(p, s) \in StateRec
<1>1. Polling(Visible(s)) \in StateRec /\ Polling(Migrated(Overridden(Visible(s)))) \in StateRec
  BY VisibleSwitches, OverriddenSwitches, MigratedTyped, PollingShape DEF Switched
<1>2. \A t \in StateRec : /\ Created(t, "sensor", EnabledByDefault("sensor")) \in StateRec
                          /\ Created(t, "bit", EnabledByDefault("bit")) \in StateRec
                          /\ Created(t, "control", EnabledByDefault("control")) \in StateRec
  BY CreatedShape DEF Kinds
<1>3. \A t \in StateRec : Restored(t) \in StateRec /\ Migrated(t) \in StateRec
  BY RestoredShape, MigratedTyped
<1>4. SensorsUp(s) \in StateRec
  BY <1>1, <1>2, <1>3 DEF SensorsUp
<1>5. FlagsUp(s) \in StateRec
  BY <1>1, <1>2, <1>3 DEF FlagsUp
<1>6. ControlsUp(s) \in StateRec
  BY <1>1, <1>2, <1>3 DEF ControlsUp
<1> QED BY <1>1, <1>3, <1>4, <1>5, <1>6 DEF Up, Platforms

LEMMA SetUpTyped == ASSUME NEW s \in StateRec PROVE SetUp(s).rows \in [Kinds -> RowStates]
<1>1. \A t \in StateRec, p \in Platforms : Up(p, t) \in StateRec
  BY UpTyped
<1>2. \A t \in StateRec : ClocksUp(t) \in StateRec
  BY ClocksShape
<1>3. SetUp(s) \in StateRec
  BY <1>1, <1>2 DEF SetUp, Platforms
<1> QED BY <1>3 DEF StateRec

LEMMA TidiedTyped == ASSUME NEW s \in StateRec PROVE Tidied(s) \in StateRec
<1>1. Removed(s, Kinds) \in StateRec
  BY RemovedShape
<1> QED BY <1>1, MigratedTyped DEF Tidied

-----------------------------------------------------------------------------
(* One projection at a time, and what was refused.                         *)

OneRow(s) == s.rows["sensor"] = "none" \/ s.rows["control"] = "none"
Owned(s) == s.rows["control"] # "none" => Is("control")

(* In the middle of a setup the rows of the other projection are gone.     *)
Settled(s) ==
    /\ Projecting /\ Typed => s.rows["sensor"] = "none"
    /\ Projecting /\ ~Typed => s.rows["control"] = "none"
    /\ Retired => \A k \in Kinds : s.rows[k] = "none"
Carries(s) == s.pending # "none" => Projecting /\ ~Typed /\ s.rows["sensor"] = "none"
Good(s) == OneRow(s) /\ Owned(s) /\ Settled(s) /\ Carries(s)

(* A refused row says so, or will when it returns: the row that was removed *)
(* or the control that was migrated does.                                  *)
Refuses(s, ks) ==
    /\ \A k \in ks :
          \/ s.rows[k] = "user"
          \/ /\ s.rows[k] = "none"
             /\ s.tombs[k] = "user" \/ (k = "sensor" /\ s.pending = "user")
    /\ s.rows["control"] # "none" => "sensor" \notin ks
    /\ s.pending \in {"default", "enabled"} => "sensor" \notin ks

(* What remains refused when a platform came up (Moved, in a setup).       *)
After(ks, t) == IF t.rows["control"] # "none" THEN ks \ {"sensor"} ELSE ks

LEMMA SwitchedGood ==
  ASSUME NEW s \in StateRec, NEW t, NEW ks \in SUBSET Kinds, Switched(s, t)
  PROVE  /\ t \in StateRec
         /\ Good(s) => Good(t)
         /\ Refuses(s, ks) => Refuses(t, ks)
         /\ s.rows["control"] = "none" <=> t.rows["control"] = "none"
<1>1. /\ t \in StateRec /\ t.tombs = s.tombs /\ t.pending = s.pending
      /\ \A k \in Kinds : /\ s.rows[k] = "none" <=> t.rows[k] = "none"
                          /\ s.rows[k] = "user" => t.rows[k] = "user"
  BY DEF Switched, OnOff
<1>2. "sensor" \in Kinds /\ "control" \in Kinds
  BY DEF Kinds
<1>3. Good(s) => Good(t)
  BY <1>1, <1>2 DEF Good, OneRow, Owned, Settled, Carries
<1>4. Refuses(s, ks) => Refuses(t, ks)
  BY <1>1, <1>2 DEF Refuses
<1> QED BY <1>1, <1>2, <1>3, <1>4

LEMMA MigratedIdle == ASSUME NEW s \in StateRec, Good(s) PROVE Switched(s, Migrated(s))
<1>1. CASE Projecting /\ Typed
  <2> DEFINE t == Removed(s, {"sensor"})
  <2>1. s.rows["sensor"] = "none"
    BY <1>1 DEF Good, Settled
  <2>2. /\ t \in StateRec /\ t.pending = s.pending
        /\ \A k \in Kinds : t.rows[k] = s.rows[k] /\ t.tombs[k] = s.tombs[k]
    BY <2>1, RemovedShape DEF Kinds
  <2>3. Migrated(s) = t
    BY <1>1 DEF Migrated
  <2> HIDE DEF t
  <2>4. t.tombs = s.tombs
    BY <2>2 DEF StateRec
  <2> QED BY <2>2, <2>3, <2>4 DEF Switched
<1>2. CASE ~(Projecting /\ Typed)
  <2>1. Migrated(s) = s
    BY <1>2 DEF Migrated, Good, Settled
  <2> QED BY <2>1 DEF Switched
<1> QED BY <1>1, <1>2

LEMMA CreatedGood ==
  ASSUME NEW s \in StateRec, NEW ks \in SUBSET Kinds, NEW k \in Kinds \ {"sensor"}, NEW enabled,
         Good(s), Refuses(s, ks), Projecting, k = "control" => Typed
  PROVE  LET t == Created(s, k, enabled) IN
         /\ t \in StateRec /\ Good(t) /\ Refuses(t, After(ks, t)) /\ t.pending = s.pending
         /\ s.rows["control"] # "none" => t.rows["control"] # "none"
<1> DEFINE t == Created(s, k, enabled)
<1>1. /\ t \in StateRec /\ t.pending = s.pending /\ t.rows[k] # "none"
      /\ s.rows[k] # "none" => t.rows[k] = s.rows[k]
      /\ s.rows[k] = "none" /\ s.tombs[k] # "none" => t.rows[k] = s.tombs[k]
      /\ \A j \in Kinds : j # k => t.rows[j] = s.rows[j] /\ t.tombs[j] = s.tombs[j]
  BY CreatedShape
<1> HIDE DEF t
<1>2. "sensor" \in Kinds /\ "control" \in Kinds
  BY DEF Kinds
<1>3. ~Retired
  BY DEF Projecting, Listed, Retired
<1>4. Good(t)
  BY <1>1, <1>2, <1>3 DEF Good, OneRow, Owned, Settled, Carries, Typed
<1>5. Refuses(t, After(ks, t))
  BY <1>1, <1>2 DEF Refuses, After
<1>6. s.rows["control"] # "none" => t.rows["control"] # "none"
  BY <1>1, <1>2
<1> USE DEF t
<1> QED BY <1>1, <1>4, <1>5, <1>6

(* What holds after a platform came up.                                    *)
Arrives(s, t, ks) ==
    /\ t \in StateRec /\ Good(t) /\ Refuses(t, After(ks, t))
    /\ s.rows["control"] # "none" => t.rows["control"] # "none"
    /\ t.pending # "none" => s.pending # "none"

LEMMA SwitchedArrives ==
  ASSUME NEW s \in StateRec, NEW t \in StateRec, NEW u, NEW ks \in SUBSET Kinds,
         Arrives(s, t, ks), Switched(t, u)
  PROVE  Arrives(s, u, ks)
<1>1. After(ks, t) \in SUBSET Kinds
  BY DEF After
<1>2. /\ u \in StateRec /\ Good(u) /\ Refuses(u, After(ks, t))
      /\ t.rows["control"] = "none" <=> u.rows["control"] = "none"
  BY <1>1, SwitchedGood DEF Arrives
<1>4. u.pending = t.pending
  BY DEF Switched
<1>3. After(ks, t) = After(ks, u)
  BY <1>2 DEF After
<1> QED BY <1>2, <1>3, <1>4 DEF Arrives

LEMMA StaysArrives ==
  ASSUME NEW s \in StateRec, NEW ks \in SUBSET Kinds, Good(s), Refuses(s, ks)
  PROVE  Arrives(s, s, ks)
BY DEF Arrives, After, Refuses

LEMMA SensorsArrive ==
  ASSUME NEW s \in StateRec, NEW ks \in SUBSET Kinds, Good(s), Refuses(s, ks)
  PROVE  Arrives(s, SensorsUp(s), ks) /\ SensorsUp(s).pending = "none"
<1> DEFINE a == Visible(s)
           b == Overridden(a)
           c == Migrated(b)
           t == Polling(c)
           new == Created(t, "sensor", EnabledByDefault("sensor"))
           creates == Projecting /\ ~Typed /\ t.rows["control"] = "none"
<1>1. Switched(s, a) /\ a \in StateRec
  BY VisibleSwitches DEF Switched
<1>2. Arrives(s, a, ks) /\ Good(a)
  BY <1>1, StaysArrives, SwitchedArrives DEF Arrives
<1>3. Switched(a, b) /\ b \in StateRec
  BY <1>1, OverriddenSwitches DEF Switched
<1>4. Arrives(s, b, ks) /\ Good(b)
  BY <1>1, <1>2, <1>3, SwitchedArrives DEF Arrives
<1>5. Switched(b, c) /\ c \in StateRec
  BY <1>3, <1>4, MigratedIdle DEF Switched
<1>6. Arrives(s, c, ks)
  BY <1>3, <1>4, <1>5, SwitchedArrives
<1>7. Switched(c, t) /\ t \in StateRec
  BY <1>5, PollingShape DEF Switched
<1>8. Arrives(s, t, ks)
  BY <1>5, <1>6, <1>7, SwitchedArrives
<1>9. SensorsUp(s) = Restored(IF creates THEN new ELSE t)
  BY Zenon DEF SensorsUp
<1> HIDE DEF t
<1>10. "sensor" \in Kinds /\ "control" \in Kinds
  BY DEF Kinds
<1>11. CASE creates
  <2> DEFINE u == Restored(new)
  <2>1. /\ new \in StateRec /\ new.pending = t.pending /\ new.rows["sensor"] # "none"
        /\ t.rows["sensor"] # "none" => new.rows["sensor"] = t.rows["sensor"]
        /\ t.rows["sensor"] = "none" /\ t.tombs["sensor"] # "none"
             => new.rows["sensor"] = t.tombs["sensor"]
        /\ \A j \in Kinds : j # "sensor" => new.rows[j] = t.rows[j] /\ new.tombs[j] = t.tombs[j]
    BY <1>7, <1>10, CreatedShape
  <2> HIDE DEF new
  <2>2. /\ u \in StateRec /\ u.tombs = new.tombs /\ u.pending = "none"
        /\ \A k \in Kinds : k # "sensor" => u.rows[k] = new.rows[k]
        /\ new.pending = "none" => u.rows["sensor"] = new.rows["sensor"]
        /\ new.pending = "user" => u.rows["sensor"] = "user"
    BY <2>1, RestoredShape
  <2> HIDE DEF u
  <2>3. Good(u)
    BY <1>8, <1>10, <1>11, <2>1, <2>2 DEF Arrives, Good, OneRow, Owned, Settled, Carries, Projecting, Listed, Retired
  <2>4. After(ks, u) = ks /\ After(ks, t) = ks /\ s.rows["control"] = "none"
    BY <1>8, <1>10, <1>11, <2>1, <2>2 DEF After, Arrives
  <2>5. ASSUME NEW k \in ks, k # "sensor"
        PROVE  u.rows[k] = "user" \/ (u.rows[k] = "none" /\ u.tombs[k] = "user")
    BY <1>8, <2>1, <2>2, <2>4, <2>5 DEF Arrives, Refuses
  <2>6. ASSUME "sensor" \in ks PROVE u.rows["sensor"] = "user"
    <3>1. \/ t.rows["sensor"] = "user"
          \/ t.rows["sensor"] = "none" /\ (t.tombs["sensor"] = "user" \/ t.pending = "user")
      BY <1>8, <2>4, <2>6 DEF Arrives, Refuses
    <3>2. t.pending \in {"none", "user"}
      BY <1>7, <1>8, <2>4, <2>6 DEF Arrives, Refuses, StateRec, Pendings
    <3>3. t.rows["sensor"] = "user" => t.pending = "none"
      BY <1>8 DEF Arrives, Good, Carries
    <3> QED BY <2>1, <2>2, <3>1, <3>2, <3>3
  <2>7. u.rows["control"] = "none" /\ u.pending = "none"
    BY <1>10, <1>11, <2>1, <2>2
  <2>8. Refuses(u, After(ks, u))
    BY <2>4, <2>5, <2>6, <2>7 DEF Refuses
  <2> USE DEF u
  <2> QED BY <1>9, <1>11, <2>2, <2>3, <2>4, <2>7, <2>8 DEF Arrives
<1>12. CASE ~creates
  <2>1. t.pending = "none"
    BY <1>8, <1>12 DEF Arrives, Good, Carries, Settled
  <2>2. Restored(t) = t
    BY <2>1 DEF Restored
  <2> QED BY <1>8, <1>9, <1>12, <2>1, <2>2
<1> QED BY <1>11, <1>12

LEMMA OthersArrive ==
  ASSUME NEW s \in StateRec, NEW ks \in SUBSET Kinds, Good(s), Refuses(s, ks)
  PROVE  /\ Arrives(s, FlagsUp(s), ks) /\ Arrives(s, ControlsUp(s), ks)
         /\ Arrives(s, Migrated(Polling(Visible(s))), ks)
<1> DEFINE t == Polling(Visible(s))
<1>1. Switched(s, Visible(s)) /\ Visible(s) \in StateRec
  BY VisibleSwitches DEF Switched
<1>2. Arrives(s, Visible(s), ks)
  BY <1>1, StaysArrives, SwitchedArrives
<1>3. t \in StateRec /\ Arrives(s, t, ks)
  BY <1>1, <1>2, PollingShape, SwitchedArrives DEF Switched
<1>4. After(ks, t) \in SUBSET Kinds
  BY DEF After
<1> HIDE DEF t
<1>5. ASSUME NEW u \in StateRec, Arrives(s, u, ks) PROVE Arrives(s, Migrated(u), ks)
  BY <1>5, MigratedIdle, SwitchedArrives DEF Arrives
<1>6. ASSUME NEW k \in {"bit", "control"}, Projecting, k = "control" => Typed
      PROVE  Created(t, k, EnabledByDefault(k)) \in StateRec
             /\ Arrives(s, Created(t, k, EnabledByDefault(k)), ks)
  <2> DEFINE u == Created(t, k, EnabledByDefault(k))
  <2>1. /\ u \in StateRec /\ Good(u) /\ Refuses(u, After(After(ks, t), u))
        /\ u.pending = t.pending
        /\ t.rows["control"] # "none" => u.rows["control"] # "none"
    BY <1>3, <1>4, <1>6, CreatedGood DEF Arrives, Kinds
  <2> HIDE DEF u
  <2>2. After(After(ks, t), u) = After(ks, u)
    BY <2>1 DEF After
  <2>3. /\ s.rows["control"] # "none" => u.rows["control"] # "none"
        /\ u.pending # "none" => s.pending # "none"
    BY <1>3, <2>1 DEF Arrives
  <2>4. Arrives(s, u, ks)
    BY <2>1, <2>2, <2>3 DEF Arrives
  <2> USE DEF u
  <2> QED BY <2>1, <2>4
<1>7. Arrives(s, FlagsUp(s), ks)
  <2>1. \/ FlagsUp(s) = Migrated(t)
        \/ Projecting /\ FlagsUp(s) = Migrated(Created(t, "bit", EnabledByDefault("bit")))
    BY Zenon DEF FlagsUp, t
  <2> QED BY <1>3, <1>5, <1>6, <2>1
<1>8. Arrives(s, ControlsUp(s), ks)
  <2>1. \/ ControlsUp(s) = Migrated(t)
        \/ /\ Projecting /\ Typed
           /\ ControlsUp(s) = Migrated(Created(t, "control", EnabledByDefault("control")))
    BY Zenon DEF ControlsUp, t
  <2> QED BY <1>3, <1>5, <1>6, <2>1
<1>9. Arrives(s, Migrated(t), ks)
  BY <1>3, <1>5
<1> QED BY <1>7, <1>8, <1>9 DEF t

LEMMA UpArrives ==
  ASSUME NEW s \in StateRec, NEW p \in Platforms, NEW ks \in SUBSET Kinds, Good(s), Refuses(s, ks)
  PROVE  Arrives(s, Up(p, s), ks) /\ (p = "sensor" => Up(p, s).pending = "none")
BY SensorsArrive, OthersArrive DEF Up, Platforms

LEMMA ClocksArrive ==
  ASSUME NEW s \in StateRec, NEW ks \in SUBSET Kinds, Good(s), Refuses(s, ks)
  PROVE  Good(ClocksUp(s)) /\ Refuses(ClocksUp(s), ks)
<1> DEFINE v == Polling(Visible(s))
           t == ClocksUp(s)
<1>1. Switched(s, Visible(s)) /\ Visible(s) \in StateRec
  BY VisibleSwitches DEF Switched
<1>2. Good(v) /\ Refuses(v, ks)
  <2>1. Good(Visible(s)) /\ Refuses(Visible(s), ks)
    BY <1>1, SwitchedGood
  <2>2. Switched(Visible(s), v)
    BY <1>1, PollingShape
  <2> QED BY <1>1, <2>1, <2>2, SwitchedGood
<1>3. /\ t \in StateRec /\ t.pending = v.pending
      /\ \A k \in Kinds \ {"time"} : t.rows[k] = v.rows[k] /\ t.tombs[k] = v.tombs[k]
      /\ v.rows["time"] = "user" => t.rows["time"] = "user"
      /\ v.rows["time"] = "none"
           => \/ t.rows["time"] = "none" /\ t.tombs["time"] = v.tombs["time"]
              \/ Projecting /\ (v.tombs["time"] = "user" => t.rows["time"] = "user")
  BY ClocksShape, Zenon
<1> HIDE DEF v, t
<1>4. "sensor" \in Kinds /\ "control" \in Kinds /\ "time" \in Kinds
  BY DEF Kinds
<1>5. Good(t)
  BY <1>2, <1>3, <1>4 DEF Good, OneRow, Owned, Settled, Carries, Projecting, Listed, Retired
<1>6. Refuses(t, ks)
  <2>1. ASSUME NEW k \in ks, k # "time"
        PROVE  \/ t.rows[k] = "user"
               \/ /\ t.rows[k] = "none"
                  /\ t.tombs[k] = "user" \/ (k = "sensor" /\ t.pending = "user")
    BY <1>2, <1>3, <2>1 DEF Refuses
  <2>2. ASSUME "time" \in ks
        PROVE  t.rows["time"] = "user" \/ (t.rows["time"] = "none" /\ t.tombs["time"] = "user")
    BY <1>2, <1>3, <2>2 DEF Refuses
  <2>3. /\ t.rows["control"] # "none" => "sensor" \notin ks
        /\ t.pending \in {"default", "enabled"} => "sensor" \notin ks
    BY <1>2, <1>3, <1>4 DEF Refuses
  <2> QED BY <2>1, <2>2, <2>3 DEF Refuses
<1> QED BY <1>5, <1>6 DEF t

-----------------------------------------------------------------------------
(* The tidying before the platforms, which settles the rows.               *)

LEMMA TidiedGood ==
  ASSUME NEW s \in StateRec, NEW ks \in SUBSET Kinds,
         s.pending = "none", OneRow(s), Owned(s), Refuses(s, ks)
  PROVE  LET t == Tidied(s) IN
         Good(t) /\ Refuses(t, IF Listed THEN Moved(ks, s.rows, t.rows) ELSE ks)
<1> DEFINE t == Tidied(s)
<1>0. "sensor" \in Kinds /\ "control" \in Kinds
  BY DEF Kinds
<1>7. Listed => ~Retired
  BY DEF Listed, Retired
<1>1. CASE Retired
  <2> DEFINE u == Removed(s, Kinds)
  <2>1. /\ u \in StateRec /\ u.pending = "none"
        /\ \A k \in Kinds : /\ u.rows[k] = "none"
                            /\ s.rows[k] # "none" => u.tombs[k] = s.rows[k]
                            /\ s.rows[k] = "none" => u.tombs[k] = s.tombs[k]
    BY RemovedShape
  <2>2. t = u /\ ~Listed
    BY <1>1, <1>7 DEF Tidied, Migrated, Projecting
  <2> HIDE DEF u, t
  <2>3. Good(u)
    BY <1>0, <2>1 DEF Good, OneRow, Owned, Settled, Carries
  <2>4. Refuses(u, ks)
    BY <1>0, <2>1 DEF Refuses
  <2> USE DEF t
  <2> QED BY <1>1, <2>2, <2>3, <2>4
<1>6. CASE ~Retired /\ ~Listed
  <2>1. t = s
    BY <1>6 DEF Tidied, Migrated, Projecting
  <2>2. Good(s)
    BY <1>6 DEF Good, Settled, Carries, Projecting
  <2> QED BY <1>6, <2>1, <2>2
<1>2. CASE Listed /\ ~CategoryVisible
  <2>1. t = s /\ ~Projecting
    BY <1>2, <1>7 DEF Tidied, Migrated, Projecting
  <2>2. Good(s)
    BY <1>2, <1>7, <2>1 DEF Good, Settled, Carries
  <2>3. Refuses(s, Moved(ks, s.rows, s.rows))
    BY DEF Refuses, Moved
  <2> QED BY <1>2, <2>1, <2>2, <2>3
<1>3. CASE Listed /\ CategoryVisible /\ Typed
  <2> DEFINE u == Removed(s, {"sensor"})
  <2>1. /\ u \in StateRec /\ u.pending = "none" /\ u.rows["sensor"] = "none"
        /\ s.rows["sensor"] # "none" => u.tombs["sensor"] = s.rows["sensor"]
        /\ s.rows["sensor"] = "none" => u.tombs["sensor"] = s.tombs["sensor"]
        /\ \A k \in Kinds : k # "sensor" => u.rows[k] = s.rows[k] /\ u.tombs[k] = s.tombs[k]
    BY <1>0, RemovedShape
  <2>2. t = u
    BY <1>3, <1>7 DEF Tidied, Migrated, Projecting
  <2> HIDE DEF u, t
  <2>3. Good(u)
    BY <1>0, <1>3, <1>7, <2>1 DEF Good, OneRow, Owned, Settled, Carries
  <2>4. Moved(ks, s.rows, u.rows) = IF s.rows["control"] # "none" THEN ks \ {"sensor"} ELSE ks
    BY <1>0, <2>1 DEF Moved
  <2>5. Refuses(u, Moved(ks, s.rows, u.rows))
    BY <1>0, <2>1, <2>4 DEF Refuses
  <2> USE DEF t
  <2> QED BY <1>3, <2>2, <2>3, <2>5
<1>4. CASE Listed /\ CategoryVisible /\ ~Typed /\ s.rows["control"] = "none"
  <2>1. t = s
    BY <1>4, <1>7 DEF Tidied, Migrated, Projecting
  <2>2. Good(s)
    BY <1>4, <1>7 DEF Good, OneRow, Owned, Settled, Carries
  <2>3. Moved(ks, s.rows, s.rows) = ks
    BY <1>4 DEF Moved
  <2> QED BY <1>4, <2>1, <2>2, <2>3
<1>5. CASE Listed /\ CategoryVisible /\ ~Typed /\ s.rows["control"] # "none"
  <2> DEFINE carried == CarriedOver(s.rows["control"], s.pending)
             r == [s EXCEPT !.pending = carried]
             u == Removed(r, {"control"})
  <2>1. /\ carried \in Pendings
        /\ s.rows["control"] = "user" => carried = "user"
    BY <1>0, <1>5 DEF CarriedOver, StateRec, Pendings, RowStates
  <2>2. t = u
    BY <1>5, <1>7 DEF Tidied, Migrated, Projecting
  <2> HIDE DEF carried
  <2>3. r \in StateRec /\ r.rows = s.rows /\ r.tombs = s.tombs /\ r.pending = carried
    BY <2>1 DEF StateRec
  <2> HIDE DEF r
  <2>4. /\ u \in StateRec /\ u.pending = carried /\ u.rows["control"] = "none"
        /\ u.tombs["control"] = s.rows["control"]
        /\ \A k \in Kinds : k # "control" => u.rows[k] = s.rows[k] /\ u.tombs[k] = s.tombs[k]
    BY <1>0, <1>5, <2>3, RemovedShape
  <2> HIDE DEF u, t
  <2>5. s.rows["sensor"] = "none"
    BY <1>5 DEF OneRow
  <2>6. Good(u)
    BY <1>0, <1>5, <1>7, <2>4, <2>5 DEF Good, OneRow, Owned, Settled, Carries, Projecting
  <2>7. "sensor" \notin ks
    BY <1>5 DEF Refuses
  <2>8. Refuses(u, Moved(ks, s.rows, u.rows))
    <3>1. CASE "control" \in ks
      <4>1. s.rows["control"] = "user" /\ carried = "user"
        BY <1>5, <2>1, <3>1 DEF Refuses
      <4>2. Moved(ks, s.rows, u.rows) = (ks \ {"control"}) \cup {"sensor"}
        BY <1>5, <2>4, <3>1, <4>1 DEF Moved
      <4>3. \A k \in ks \ {"control"} :
              u.rows[k] = "user" \/ (u.rows[k] = "none" /\ u.tombs[k] = "user")
        BY <2>4, <2>7 DEF Refuses
      <4>4. Refuses(u, (ks \ {"control"}) \cup {"sensor"})
        BY <1>0, <2>4, <2>5, <4>1, <4>3 DEF Refuses
      <4> QED BY <4>2, <4>4
    <3>2. CASE "control" \notin ks
      <4>1. Moved(ks, s.rows, u.rows) = ks
        BY <1>5, <2>4, <3>2 DEF Moved
      <4>2. \A k \in ks : u.rows[k] = "user" \/ (u.rows[k] = "none" /\ u.tombs[k] = "user")
        BY <2>4, <2>7, <3>2 DEF Refuses
      <4>3. Refuses(u, ks)
        BY <2>4, <2>7, <4>2 DEF Refuses
      <4> QED BY <4>1, <4>3
    <3> QED BY <3>1, <3>2
  <2> USE DEF t
  <2> QED BY <1>5, <2>2, <2>6, <2>8
<1> QED BY <1>1, <1>2, <1>3, <1>4, <1>5, <1>6

-----------------------------------------------------------------------------
(* The invariant.                                                          *)

RowsTyped ==
    /\ rows \in [Kinds -> RowStates] /\ tombs \in [Kinds -> RowStates]
    /\ pending \in Pendings /\ polled \in BOOLEAN
RestTyped ==
    /\ case \in EntityCases /\ options \in case.options /\ found \in case.findings
    /\ stage \in {"down", "found", "platforms", "loaded"} /\ todo \in SUBSET Platforms
    /\ refused \in SUBSET Kinds /\ wanted \in SUBSET Kinds
    /\ expected \in [Kinds -> RowStates]

Projected ==
    /\ OneRow(State) /\ Owned(State)
    /\ stage = "platforms" => Good(State)
    /\ pending # "none" => stage = "platforms" /\ "sensor" \in todo
EntityInv == RowsTyped /\ RestTyped /\ Projected /\ Refuses(State, refused)

LEMMA StateIn == RowsTyped <=> State \in StateRec
BY DEF RowsTyped, State, StateRec

LEMMA BecomeState == ASSUME NEW s \in StateRec, Become(s) PROVE State' = s /\ RowsTyped'
<1>1. rows' = s.rows /\ tombs' = s.tombs /\ pending' = s.pending /\ polled' = s.polled
  BY DEF Become
<1>2. State' = s
  BY <1>1 DEF State, StateRec
<1>3. RowsTyped'
  BY <1>1 DEF RowsTyped, StateRec
<1> QED BY <1>2, <1>3

LEMMA MovedIn == ASSUME NEW ks \in SUBSET Kinds, NEW before, NEW after
                 PROVE  Moved(ks, before, after) \in SUBSET Kinds
                        /\ Standing(ks) \in SUBSET Kinds
BY DEF Moved, Standing, Kinds

LEMMA InitInv == EntityInit => EntityInv
<1> SUFFICES ASSUME EntityInit PROVE EntityInv
  OBVIOUS
<1> USE DEF EntityInit
<1>1. RowsTyped
  BY DEF RowsTyped, NoRows, RowStates, Pendings
<1>2. RestTyped
  <2>1. NoRows \in [Kinds -> RowStates]
    BY DEF NoRows, RowStates
  <2> QED BY <2>1 DEF RestTyped
<1>3. Projected
  BY DEF Projected, OneRow, Owned, State, NoRows, Kinds
<1>4. Refuses(State, refused)
  BY DEF Refuses, State, NoRows, Kinds
<1> QED BY <1>1, <1>2, <1>3, <1>4 DEF EntityInv

LEMMA StartupInv == ASSUME EntityInv, StartupFinds PROVE EntityInv'
<1> USE DEF EntityInv
<1>1. /\ UNCHANGED <<case, options, todo, rows, tombs, pending, polled, refused, wanted, expected>>
      /\ State' = State
  BY DEF StartupFinds, registry, entityHistory, State
<1>2. RowsTyped' /\ Refuses(State, refused)'
  BY <1>1 DEF RowsTyped, Refuses
<1>3. RestTyped'
  BY <1>1 DEF StartupFinds, RestTyped
<1>4. Projected'
  BY <1>1 DEF StartupFinds, Projected, OneRow, Owned, Is
<1> QED BY <1>2, <1>3, <1>4

LEMMA TidyInv == ASSUME EntityInv, RegistryTidied PROVE EntityInv'
<1> USE DEF EntityInv
<1>1. UNCHANGED <<case, options, found>> /\ stage' = "platforms" /\ todo' = Platforms
  BY DEF RegistryTidied
<1>2. State \in StateRec /\ State.rows = rows /\ State.pending = "none"
  BY StateIn DEF RegistryTidied, Projected, State
<1> DEFINE t == Tidied(State)
<1>3. t \in StateRec /\ State' = t /\ RowsTyped'
  <2>1. t \in StateRec
    BY <1>2, TidiedTyped
  <2> QED BY <2>1, BecomeState DEF RegistryTidied
<1>4. refused' = IF Listed THEN Moved(refused, State.rows, t.rows) ELSE refused
  BY <1>2, <1>3 DEF RegistryTidied, State
<1>5. Good(t) /\ Refuses(t, refused')
  <2>1. OneRow(State) /\ Owned(State) /\ refused \in SUBSET Kinds
    BY DEF Projected, RestTyped
  <2> HIDE DEF t
  <2>2. Good(t) /\ Refuses(t, IF Listed THEN Moved(refused, State.rows, t.rows) ELSE refused)
    BY <1>2, <2>1, TidiedGood DEF t
  <2> QED BY <1>4, <2>2
<1> HIDE DEF t
<1>6. Good(State)'
  BY <1>1, <1>3, <1>5 DEF Good, OneRow, Owned, Settled, Carries, Projecting, Typed, Listed, Retired,
        CategoryVisible, WriteAllowed, AssumedAccess, Is
<1>7. Projected'
  BY <1>1, <1>6 DEF Projected, Good, Platforms
<1>8. RestTyped'
  <2>1. refused' \in SUBSET Kinds /\ wanted' \in SUBSET Kinds
    BY MovedIn DEF RegistryTidied, RestTyped
  <2>2. expected' \in [Kinds -> RowStates]
    BY <1>3, SetUpTyped DEF RegistryTidied, t
  <2> QED BY <1>1, <2>1, <2>2 DEF RestTyped
<1>9. Refuses(State, refused)'
  BY <1>3, <1>5 DEF Refuses
<1> QED BY <1>3, <1>7, <1>8, <1>9

LEMMA PlatformInv == ASSUME EntityInv, PlatformComesUp PROVE EntityInv'
<1> USE DEF EntityInv
<1>1. PICK p \in todo : todo' = todo \ {p} /\ Become(Up(p, State))
  BY DEF PlatformComesUp
<1>2. /\ UNCHANGED <<case, options, found, stage, expected>> /\ stage = "platforms"
      /\ refused' = Moved(refused, rows, rows')
      /\ wanted' = Standing(Moved(wanted, rows, rows'))
  BY DEF PlatformComesUp
<1>3. State \in StateRec /\ State.rows = rows /\ Good(State) /\ p \in Platforms
      /\ refused \in SUBSET Kinds
  BY <1>2, StateIn DEF Projected, State, RestTyped
<1> DEFINE t == Up(p, State)
<1>4. Arrives(State, t, refused) /\ (p = "sensor" => t.pending = "none")
  BY <1>3, UpArrives
<1>5. t \in StateRec /\ State' = t /\ RowsTyped'
  BY <1>1, <1>4, BecomeState DEF Arrives
<1> HIDE DEF t
<1>6. rows' = t.rows /\ pending' = t.pending
  BY <1>5 DEF State
<1>7. refused' = After(refused, t)
  BY <1>2, <1>3, <1>4, <1>6 DEF Moved, After, Arrives
<1>8. Good(State)'
  BY <1>2, <1>4, <1>5 DEF Arrives, Good, OneRow, Owned, Settled, Carries, Projecting, Typed, Listed, Retired,
        CategoryVisible, WriteAllowed, AssumedAccess, Is
<1>9. pending' # "none" => pending # "none" /\ p # "sensor"
  BY <1>3, <1>4, <1>6 DEF Arrives, State
<1>10. Projected'
  BY <1>1, <1>2, <1>8, <1>9 DEF Projected, Good
<1>11. RestTyped'
  <2>1. refused' \in SUBSET Kinds /\ wanted' \in SUBSET Kinds
    BY <1>2, MovedIn DEF RestTyped
  <2> QED BY <1>1, <1>2, <2>1 DEF RestTyped
<1>12. Refuses(State, refused)'
  BY <1>4, <1>5, <1>7 DEF Refuses, Arrives
<1> QED BY <1>5, <1>10, <1>11, <1>12

LEMMA ClocksInv == ASSUME EntityInv, ClocksComeUp PROVE EntityInv'
<1> USE DEF EntityInv
<1>1. /\ UNCHANGED <<case, options, found, todo, refused, wanted, expected>>
      /\ stage = "platforms" /\ stage' = "loaded" /\ todo = {} /\ Become(ClocksUp(State))
  BY DEF ClocksComeUp, entityHistory
<1>2. State \in StateRec /\ Good(State) /\ refused \in SUBSET Kinds /\ State.pending = "none"
  BY <1>1, StateIn DEF Projected, State, RestTyped
<1> DEFINE t == ClocksUp(State)
<1>3. t \in StateRec /\ t.pending = "none"
  <2>1. t \in StateRec /\ t.pending = Polling(Visible(State)).pending
    BY <1>2, ClocksShape
  <2>2. Switched(State, Visible(State)) /\ Visible(State) \in StateRec
    BY <1>2, VisibleSwitches DEF Switched
  <2>3. Switched(Visible(State), Polling(Visible(State)))
    BY <2>2, PollingShape
  <2> QED BY <1>2, <2>1, <2>2, <2>3 DEF Switched
<1>4. State' = t /\ RowsTyped'
  BY <1>1, <1>3, BecomeState
<1>5. Good(t) /\ Refuses(t, refused)
  BY <1>2, ClocksArrive
<1> HIDE DEF t
<1>6. Projected'
  BY <1>1, <1>3, <1>4, <1>5 DEF Projected, Good, OneRow, Owned, Is, State
<1>7. RestTyped'
  BY <1>1 DEF RestTyped
<1>8. Refuses(State, refused)'
  BY <1>1, <1>4, <1>5 DEF Refuses
<1> QED BY <1>4, <1>6, <1>7, <1>8

LEMMA UserDisablesInv == ASSUME EntityInv, UserDisables PROVE EntityInv'
<1> USE DEF EntityInv
<1>1. PICK k \in Kinds : /\ rows[k] \in OnOff /\ rows' = [rows EXCEPT ![k] = "user"]
                         /\ refused' = refused \cup {k} /\ wanted' = wanted \ {k}
  BY DEF UserDisables, OnOff
<1>2. UNCHANGED <<case, options, found, stage, todo, tombs, pending, polled>> /\ expected' = NoRows
  BY DEF UserDisables
<1>3. RowsTyped'
  BY <1>1, <1>2 DEF RowsTyped, RowStates
<1>4. RestTyped'
  <2>1. NoRows \in [Kinds -> RowStates]
    BY DEF NoRows, RowStates
  <2> QED BY <1>1, <1>2, <2>1 DEF RestTyped
<1>5. \A j \in Kinds : /\ rows'[j] = "none" <=> rows[j] = "none"
                       /\ j # k => rows'[j] = rows[j]
                       /\ rows'[k] = "user"
  BY <1>1 DEF RowsTyped, OnOff
<1>6. "sensor" \in Kinds /\ "control" \in Kinds
  BY DEF Kinds
<1>7. Projected'
  <2>1. OneRow(State)' /\ Owned(State)'
    BY <1>2, <1>5, <1>6 DEF Projected, OneRow, Owned, State, Is
  <2>2. Good(State) => Good(State)'
    BY <1>2, <1>5, <1>6 DEF Good, OneRow, Owned, Settled, Carries, State, Projecting, Typed, Listed, Retired,
                            CategoryVisible, WriteAllowed, AssumedAccess, Is
  <2> QED BY <1>2, <2>1, <2>2 DEF Projected
<1>8. Refuses(State, refused)'
  <2>1. ASSUME NEW j \in refused'
        PROVE  \/ rows'[j] = "user"
               \/ /\ rows'[j] = "none"
                  /\ tombs'[j] = "user" \/ (j = "sensor" /\ pending' = "user")
    BY <1>1, <1>2, <1>5, <2>1 DEF Refuses, State, RestTyped
  <2>2. k = "sensor" => rows["control"] = "none"
    BY <1>1 DEF Projected, OneRow, State, OnOff
  <2>3. k = "sensor" => pending = "none"
    BY <1>1 DEF Projected, Good, Carries, State, OnOff
  <2>4. /\ rows'["control"] # "none" => "sensor" \notin refused'
        /\ pending' \in {"default", "enabled"} => "sensor" \notin refused'
    BY <1>1, <1>2, <1>5, <1>6, <2>2, <2>3 DEF Refuses, State
  <2> QED BY <2>1, <2>4 DEF Refuses, State
<1> QED BY <1>3, <1>4, <1>7, <1>8

LEMMA UserEnablesInv == ASSUME EntityInv, UserEnables PROVE EntityInv'
<1> USE DEF EntityInv
<1>1. PICK k \in Kinds : /\ rows[k] \in {"user", "integration"}
                         /\ rows' = [rows EXCEPT ![k] = "enabled"]
                         /\ refused' = refused \ {k} /\ wanted' = wanted \cup {k}
  BY DEF UserEnables
<1>2. UNCHANGED <<case, options, found, stage, todo, tombs, pending, polled>> /\ expected' = NoRows
  BY DEF UserEnables
<1>3. RowsTyped'
  BY <1>1, <1>2 DEF RowsTyped, RowStates
<1>4. RestTyped'
  <2>1. NoRows \in [Kinds -> RowStates]
    BY DEF NoRows, RowStates
  <2> QED BY <1>1, <1>2, <2>1 DEF RestTyped
<1>5. \A j \in Kinds : /\ rows'[j] = "none" <=> rows[j] = "none"
                       /\ j # k => rows'[j] = rows[j]
  BY <1>1 DEF RowsTyped
<1>6. "sensor" \in Kinds /\ "control" \in Kinds
  BY DEF Kinds
<1>7. Projected'
  <2>1. OneRow(State)' /\ Owned(State)'
    BY <1>2, <1>5, <1>6 DEF Projected, OneRow, Owned, State, Is
  <2>2. Good(State) => Good(State)'
    BY <1>2, <1>5, <1>6 DEF Good, OneRow, Owned, Settled, Carries, State, Projecting, Typed, Listed, Retired,
                            CategoryVisible, WriteAllowed, AssumedAccess, Is
  <2> QED BY <1>2, <2>1, <2>2 DEF Projected
<1>8. Refuses(State, refused)'
  BY <1>1, <1>2, <1>5, <1>6 DEF Refuses, State, RestTyped
<1> QED BY <1>3, <1>4, <1>7, <1>8

LEMMA ExpiresInv == ASSUME EntityInv, RegisterExpires PROVE EntityInv'
<1> USE DEF EntityInv
<1>1. /\ UNCHANGED <<case, options, found, stage, todo, tombs, pending, polled, refused>>
      /\ stage = "loaded" /\ expected' = NoRows /\ wanted' \subseteq wanted
      /\ rows' = [k \in Kinds |-> IF k # "bit" /\ rows[k] = "enabled" THEN "integration"
                                  ELSE rows[k]]
  BY DEF RegisterExpires
<1>2. RowsTyped'
  BY <1>1 DEF RowsTyped, RowStates
<1>3. RestTyped'
  <2>1. NoRows \in [Kinds -> RowStates]
    BY DEF NoRows, RowStates
  <2> QED BY <1>1, <2>1 DEF RestTyped
<1>4. State \in StateRec /\ State' \in StateRec
  BY <1>2, StateIn DEF RowsTyped, State, StateRec
<1>5. Switched(State, State')
  BY <1>1, <1>4 DEF Switched, State, OnOff
<1>6. \A k \in Kinds : /\ rows'[k] = "none" <=> rows[k] = "none"
                       /\ rows[k] = "user" => rows'[k] = "user"
  BY <1>1 DEF RowsTyped
<1>7. "sensor" \in Kinds /\ "control" \in Kinds
  BY DEF Kinds
<1>8. Projected'
  BY <1>1, <1>6, <1>7 DEF Projected, OneRow, Owned, State, Is
<1>9. Refuses(State, refused)'
  BY <1>1, <1>6, <1>7 DEF Refuses, State, RestTyped
<1> QED BY <1>2, <1>3, <1>8, <1>9

LEMMA GoneInv == ASSUME EntityInv, EntityReload \/ OptionsSaved \/ EntityCrash PROVE EntityInv'
<1> USE DEF EntityInv
<1>1. /\ UNCHANGED <<case, found, rows, tombs>> /\ stage' = "down" /\ todo' = {}
      /\ pending' = "none" /\ polled' = FALSE /\ expected' = NoRows
  BY DEF EntityReload, OptionsSaved, EntityCrash, CoordinatorGone
<1>2. options' \in case.options
  BY DEF EntityReload, OptionsSaved, EntityCrash, RestTyped
<1>3. /\ refused' \subseteq refused /\ wanted' \subseteq wanted
      /\ pending # "none" => "sensor" \notin refused'
  <2>1. CASE EntityCrash
    BY <2>1 DEF EntityCrash
  <2>2. CASE EntityReload \/ OptionsSaved
    BY <2>2 DEF EntityReload, OptionsSaved, Projected
  <2> QED BY <2>1, <2>2
<1>4. RowsTyped'
  BY <1>1 DEF RowsTyped, Pendings
<1>5. RestTyped'
  <2>1. NoRows \in [Kinds -> RowStates]
    BY DEF NoRows, RowStates
  <2> QED BY <1>1, <1>2, <1>3, <2>1 DEF RestTyped
<1>6. Projected'
  BY <1>1 DEF Projected, OneRow, Owned, State, Is
<1>7. Refuses(State, refused)'
  BY <1>1, <1>3 DEF Refuses, State
<1> QED BY <1>4, <1>5, <1>6, <1>7

LEMMA StutterInv == ASSUME EntityInv, UNCHANGED entityVars PROVE EntityInv'
<1>1. UNCHANGED <<case, options, found, stage, todo, rows, tombs, pending, polled, refused, wanted,
                  expected>>
  BY DEF entityVars, registry, entityHistory
<1> QED BY <1>1 DEF EntityInv, RowsTyped, RestTyped, Projected, Good, OneRow, Owned, Settled, Carries,
                    Refuses, State, Projecting, Typed, Listed, Retired, CategoryVisible, WriteAllowed,
                    AssumedAccess, Is

LEMMA StepInv == EntityInv /\ [EntityNext]_entityVars => EntityInv'
BY StartupInv, TidyInv, PlatformInv, ClocksInv, UserDisablesInv, UserEnablesInv, ExpiresInv, GoneInv,
   StutterInv DEF EntityNext

(* One projection at a time in the middle of a setup, and a trace of every *)
(* refusal.                                                                *)
THEOREM EntitySafe == EntitySpec => []EntityInv
<1>1. EntityInit => EntityInv
  BY InitInv
<1>2. EntityInv /\ [EntityNext]_entityVars => EntityInv'
  BY StepInv
<1> QED BY <1>1, <1>2, PTL DEF EntitySpec

-----------------------------------------------------------------------------
(* The properties.                                                         *)

(* Type correctness.                                                       *)
THEOREM EntityTypes == EntitySpec => []EntityTypeOK
<1>1. EntityInv => EntityTypeOK
  BY DEF EntityInv, RowsTyped, RestTyped, EntityTypeOK, Pendings
<1> QED BY <1>1, EntitySafe, PTL

(* No setup enables what the user disabled.                                *)
THEOREM RefusalsStand == EntitySpec => []RefusalStands
<1>1. EntityInv => RefusalStands
  BY DEF EntityInv, Refuses, State, RefusalStands
<1> QED BY <1>1, EntitySafe, PTL

(* What the last step of a setup does to the other rows and to the poller. *)
LEMMA LoadedRows ==
  ASSUME EntityInv, ClocksComeUp
  PROVE  LET v == Visible(State) IN
         /\ Good(State)' /\ v \in StateRec
         /\ \A k \in Kinds \ {"time"} : rows'[k] = v.rows[k]
         /\ polled' = Polling(v).polled
<1>1. State \in StateRec
  BY StateIn DEF EntityInv
<1>2. Visible(State) \in StateRec
  BY <1>1, VisibleSwitches DEF Switched
<1>3. Polling(Visible(State)).rows = Visible(State).rows
  BY <1>2, PollingShape
<1>4. /\ rows' = ClocksUp(State).rows /\ polled' = ClocksUp(State).polled
      /\ State' = ClocksUp(State) /\ UNCHANGED <<case, options, found>>
  <2>1. ClocksUp(State) \in StateRec
    BY <1>1, ClocksShape
  <2> QED BY <2>1, BecomeState DEF ClocksComeUp, Become
<1>5. /\ ClocksUp(State).polled = Polling(Visible(State)).polled
      /\ \A k \in Kinds \ {"time"} : ClocksUp(State).rows[k] = Polling(Visible(State)).rows[k]
  BY <1>1, ClocksShape
<1>6. Good(ClocksUp(State))
  <2>1. Good(State) /\ Refuses(State, {})
    BY DEF EntityInv, Projected, ClocksComeUp, Refuses
  <2> QED BY <1>1, <2>1, ClocksArrive
<1>7. Good(State)'
  BY <1>4, <1>6 DEF Good, OneRow, Owned, Settled, Carries, Projecting, Typed, Listed, Retired,
        CategoryVisible, WriteAllowed, AssumedAccess, Is
<1> QED BY <1>2, <1>3, <1>4, <1>5, <1>7

(* At the end of a setup a register has one projection at most, of a       *)
(* category that is shown.                                                 *)
THEOREM OneProjection == EntitySpec => ProjectionsFit
<1> DEFINE on == {k \in Kinds : rows'[k] = "enabled"}
           Fits == /\ ~({"sensor", "control"} \subseteq on)
                   /\ Withheld \/ ("control" \in on => Typed)
                   /\ Withheld \/ CategoryVisible \/ on \subseteq {"time"}
           Loads == stage = "platforms" /\ stage' = "loaded"
<1>1. ASSUME EntityInv, EntityNext, Loads PROVE Fits
  <2>1. ClocksComeUp
    BY <1>1 DEF EntityNext, StartupFinds, RegistryTidied, PlatformComesUp, UserDisables, UserEnables,
                RegisterExpires, EntityReload, OptionsSaved, EntityCrash, CoordinatorGone
  <2> DEFINE v == Visible(State)
  <2>2. /\ Good(State)' /\ v \in StateRec
        /\ \A k \in Kinds \ {"time"} : rows'[k] = v.rows[k]
    BY <1>1, <2>1, LoadedRows
  <2>3. UNCHANGED <<case, options, found>>
    BY <2>1 DEF ClocksComeUp
  <2>4. "sensor" \in Kinds /\ "control" \in Kinds
    BY DEF Kinds
  <2>5. ~({"sensor", "control"} \subseteq on)
    BY <2>2, <2>4 DEF Good, OneRow, State
  <2>6. Retired => on = {}
    BY <2>2, <2>3 DEF Good, Settled, State, Retired, Is
  <2>9. Listed \/ Retired \/ Withheld
    <3>1. found.zone \in {"active", "withheld", "disabled", "kept", "strange", "unheard"}
      BY <1>1 DEF EntityInv, RestTyped, Findings
    <3> QED BY <3>1 DEF Listed, Retired, Withheld
  <2>7. Listed /\ ~CategoryVisible => on \subseteq {"time"}
    <3>1. ASSUME Listed, ~CategoryVisible, NEW k \in Kinds \ {"time"} PROVE v.rows[k] # "enabled"
      <4> DEFINE hidden(j) == ~CategoryVisible /\ State.rows[j] = "enabled"
                 shown(j) == /\ CategoryVisible /\ State.rows[j] = "integration"
                             /\ Allowed /\ ZoneOn /\ ProjectionMayWrite(j)
                 after == [j \in Kinds |-> CASE j # "time" /\ hidden(j) -> "integration"
                                             [] j # "time" /\ shown(j)  -> "enabled"
                                             [] OTHER                   -> State.rows[j]]
      <4>1. Is("filtered")
        BY <3>1 DEF CategoryVisible
      <4>2. v = [State EXCEPT !.rows = after]
        BY <3>1, <4>1, Zenon DEF Visible
      <4>3. after[k] # "enabled"
        BY <3>1
      <4> HIDE DEF after
      <4>4. v.rows = after
        BY <4>2 DEF State
      <4> QED BY <4>3, <4>4
    <3> QED BY <2>2, <3>1
  <2>8. Withheld \/ ("control" \in on => Typed)
    <3>1. Projecting /\ "control" \in on => Typed
      BY <2>2, <2>3, <2>4 DEF Good, Settled, State, Projecting, Typed, Listed, CategoryVisible,
            WriteAllowed, AssumedAccess, Is
    <3> QED BY <2>6, <2>7, <2>9, <3>1 DEF Projecting
  <2> QED BY <2>5, <2>6, <2>7, <2>8, <2>9
<1>2. EntityInv /\ [EntityNext]_entityVars => [Loads => Fits]_entityVars
  BY <1>1
<1> QED BY <1>2, EntitySafe, PTL DEF EntitySpec, ProjectionsFit

(* What is enabled is read.                                                *)
THEOREM EnabledPolled == EntitySpec => EnabledIsPolled
<1> DEFINE Loads == stage = "platforms" /\ stage' = "loaded"
           Asks == /\ Projecting /\ Readable /\ ZoneOn /\ (Unobserved => Override("sensor") = "on")
                   /\ OptsIn([rows |-> rows'], Kinds \ {"time"})
<1>1. ASSUME EntityInv, EntityNext, Loads, Asks PROVE polled'
  <2>1. ClocksComeUp
    BY <1>1 DEF EntityNext, StartupFinds, RegistryTidied, PlatformComesUp, UserDisables, UserEnables,
                RegisterExpires, EntityReload, OptionsSaved, EntityCrash, CoordinatorGone
  <2> DEFINE v == Visible(State)
  <2>2. /\ Good(State)' /\ v \in StateRec /\ polled' = Polling(v).polled
        /\ \A k \in Kinds \ {"time"} : rows'[k] = v.rows[k]
    BY <1>1, <2>1, LoadedRows
  <2>3. UNCHANGED <<case, options, found>>
    BY <2>1 DEF ClocksComeUp
  <2>4. PICK k \in Kinds \ {"time"} : /\ v.rows[k] = "enabled" /\ Override(k) # "off"
                                      /\ k = "control" => WriteAllowed(found.access)
    BY <1>1, <2>2 DEF OptsIn
  <2>5. OptsIn(v, Kinds)
    BY <2>4 DEF OptsIn
  <2>6. k = "control" => Is("control")
    BY <2>2, <2>3, <2>4 DEF Good, Owned, State, Is
  <2>7. k # "control" => OptsIn(v, {"sensor", "bit"})
    BY <2>4 DEF OptsIn, Kinds
  <2>8. Allowed
    BY <1>1 DEF Readable, Allowed, AssumedAccess
  <2> DEFINE present == ~Unobserved \/ EnabledByDefault("sensor") \/ OptsIn(v, Kinds)
             safe == IF Is("control") \/ Is("bits") THEN Readable
                     ELSE \/ Is("default") \/ EnabledByDefault("sensor")
                          \/ Readable /\ OptsIn(v, {"sensor", "bit"})
             polls == Joined(v, Projecting /\ Allowed /\ ZoneOn /\ present /\ safe)
  <2>9. polls
    BY <1>1, <2>5, <2>6, <2>7, <2>8, Zenon DEF Joined
  <2>10. Polling(v) = [v EXCEPT !.polled = polls]
    BY Zenon DEF Polling
  <2> HIDE DEF polls
  <2>11. Polling(v).polled = polls
    BY <2>2, <2>10 DEF StateRec
  <2> QED BY <2>2, <2>9, <2>11
<1>2. EntityInv /\ [EntityNext]_entityVars => [Loads => (Asks => polled')]_entityVars
  BY <1>1
<1> QED BY <1>2, EntitySafe, PTL DEF EntitySpec, EnabledIsPolled

-----------------------------------------------------------------------------
(* What a setup makes of one row.                                          *)

(* async_apply_diagnostic_visibility. *)
Seen(k, row) ==
    IF ~(Is("filtered") /\ Listed /\ k # "time") THEN row
    ELSE IF ~CategoryVisible /\ row = "enabled" THEN "integration"
    ELSE IF CategoryVisible /\ row = "integration" /\ Allowed /\ ZoneOn /\ ProjectionMayWrite(k)
    THEN "enabled"
    ELSE row

(* async_apply_entity_overrides, where no option speaks of the row. *)
Plain(k) == PickOf(k) = "none" /\ options.scope = "none"
Absent(k) ==
    /\ k \notin {"bit", "time"} /\ Unobserved /\ Listed
    /\ ~(Is("zoned") /\ found.zone = "kept")
    /\ ~(Allowed /\ CategoryVisible /\ ZoneOn)
Held(k, row) == IF Absent(k) /\ row = "enabled" THEN "integration" ELSE row

(* The platform that creates the row. *)
Makes(p, k) ==
    \/ p = "sensor" /\ k = "sensor" /\ Projecting /\ ~Typed
    \/ /\ p = "binary_sensor" /\ k = "bit" /\ Is("bits")
       /\ Projecting /\ Allowed /\ ZoneOn /\ found.access # "unknown"
    \/ p = "number" /\ k = "control" /\ Projecting /\ Typed

Made(s, k) ==
    IF s.tombs[k] # "none" THEN s.tombs[k]
    ELSE IF EnabledByDefault(k) THEN "enabled" ELSE "integration"
Owed(s, row) ==
    IF s.pending \notin {"none", "default"} /\ row # "none" THEN s.pending ELSE row

Brought(p, k, s) ==
    LET seen == Seen(k, s.rows[k])
        held == IF p = "sensor" THEN Held(k, seen) ELSE seen
        made == IF Makes(p, k) /\ held = "none" THEN Made(s, k) ELSE held
    IN  IF p = "sensor" /\ k = "sensor" THEN Owed(s, made) ELSE made

(* The row when the platforms of ps have come up, in any order, and the    *)
(* clock companions after them.                                            *)
Ahead(s, ps, k) ==
    LET held == IF "sensor" \in ps THEN Held(k, s.rows[k]) ELSE s.rows[k]
        made == IF held = "none" /\ (\E p \in ps : Makes(p, k)) THEN Made(s, k) ELSE held
    IN  Seen(k, IF "sensor" \in ps /\ k = "sensor" THEN Owed(s, made) ELSE made)

Clock(control, row, tomb) ==
    LET numbered == control = "enabled"
        shown == IF numbered /\ row = "integration" THEN "enabled" ELSE row
    IN  IF ~(Is("clock") /\ Projecting) THEN row
        ELSE IF ~ZoneOn THEN IF row = "enabled" THEN "integration" ELSE row
        ELSE IF ~(Typed /\ (numbered \/ row = "enabled")) THEN row
        ELSE IF shown # "none" THEN shown
        ELSE IF tomb # "none" THEN tomb ELSE "enabled"

Final(s, ps, k) ==
    IF k = "time" THEN Clock(Ahead(s, ps, "control"), s.rows["time"], s.tombs["time"])
    ELSE Ahead(s, ps, k)

(* The rows do not depend on the order of the platforms. *)
Orderless ==
    options.pick = "none" /\ options.scope = "none" /\ ~(Unobserved /\ Strange)
OrderInv ==
    /\ stage = "platforms" /\ expected # NoRows /\ Orderless =>
          \A k \in Kinds : expected[k] = Final(State, todo, k)
    /\ OrderIsFree

(* Where a row is that the user wants. *)
Stands(row) == row = "enabled" \/ (row = "integration" /\ Is("filtered"))
Kept(s, k) ==
    IF s.rows[k] # "none" THEN s.rows[k]
    ELSE IF k = "sensor" /\ s.pending = "enabled" THEN "enabled" ELSE s.tombs[k]
Keeps(s, ks) ==
    /\ \A k \in ks \ {"time"} : Stands(Kept(s, k))
    /\ "sensor" \in ks => s.rows["control"] = "none" /\ s.pending # "user"
    /\ "control" \in ks => Is("control")
    /\ "bit" \in ks => Is("bits")
Flagged(s) == s.rows["bit"] # "none" => Is("bits")
ChoiceInv ==
    /\ Keeps(State, wanted) /\ Flagged(State)
    /\ stage = "platforms" =>
          \A p \in Platforms \ todo, k \in Kinds : Makes(p, k) => rows[k] # "none"
    /\ ChoiceStands

LEMMA SeenRow ==
  ASSUME NEW s \in StateRec, NEW k \in Kinds
  PROVE  Visible(s).rows[k] = Seen(k, s.rows[k])
<1> DEFINE hidden(j) == ~CategoryVisible /\ s.rows[j] = "enabled"
           shown(j) == /\ CategoryVisible /\ s.rows[j] = "integration"
                       /\ Allowed /\ ZoneOn /\ ProjectionMayWrite(j)
           after == [j \in Kinds |-> CASE j # "time" /\ hidden(j) -> "integration"
                                       [] j # "time" /\ shown(j)  -> "enabled"
                                       [] OTHER                   -> s.rows[j]]
<1>1. CASE Is("filtered") /\ Listed
  <2>1. Visible(s) = [s EXCEPT !.rows = after]
    BY <1>1, Zenon DEF Visible
  <2>2. after[k] = IF k # "time" /\ hidden(k) THEN "integration"
                   ELSE IF k # "time" /\ shown(k) THEN "enabled" ELSE s.rows[k]
    <3> HIDE DEF hidden, shown
    <3>1. ~(hidden(k) /\ shown(k))
      BY DEF hidden, shown
    <3> QED BY <3>1
  <2>3. after[k] = Seen(k, s.rows[k])
    <3> HIDE DEF after
    <3> QED BY <1>1, <2>2 DEF Seen
  <2> HIDE DEF after
  <2>4. Visible(s).rows = after
    BY <2>1 DEF StateRec
  <2> QED BY <2>3, <2>4
<1>2. CASE ~(Is("filtered") /\ Listed)
  BY <1>2 DEF Visible, Seen
<1> QED BY <1>1, <1>2

LEMMA HeldRow ==
  ASSUME NEW s \in StateRec, NEW k \in Kinds, Plain(k)
  PROVE  Overridden(s).rows[k] = Held(k, s.rows[k])
<1> DEFINE chosen(j) == PickOf(j) # "none" \/ options.scope # "none"
           considered(j) == /\ j # "time"
                            /\ IF Listed THEN chosen(j) \/ (Unobserved /\ j # "bit")
                                         ELSE PickOf(j) # "none"
           should(j) == /\ Listed /\ EnabledByDefault(j) /\ Allowed /\ CategoryVisible
                        /\ ProjectionMayWrite(j)
           off(j) == considered(j) /\ ~should(j) /\ s.rows[j] = "enabled" /\ (chosen(j) \/ ~Retained(j))
           on(j) == considered(j) /\ should(j) /\ s.rows[j] = "integration"
           after == [j \in Kinds |-> CASE off(j) -> "integration"
                                       [] on(j)  -> "enabled"
                                       [] OTHER  -> s.rows[j]]
<1>1. Overridden(s) = [s EXCEPT !.rows = after]
  BY Zenon DEF Overridden
<1>2. ~chosen(k)
  BY DEF Plain
<1>3. considered(k) <=> /\ k \notin {"bit", "time"} /\ Listed /\ Unobserved
  <2> HIDE DEF chosen
  <2> QED BY <1>2 DEF Plain
<1>4. considered(k) => ~should(k)
  BY <1>3 DEF Plain, EnabledByDefault, Override
<1>5. considered(k) /\ ~Retained(k) <=> Absent(k)
  <2> HIDE DEF considered
  <2> QED BY <1>3 DEF Absent, Retained
<1>6. off(k) <=> Absent(k) /\ s.rows[k] = "enabled"
  <2> HIDE DEF considered, should, chosen
  <2> QED BY <1>2, <1>4, <1>5
<1>7. ~on(k)
  <2> HIDE DEF considered, should
  <2> QED BY <1>4
<1> HIDE DEF off, on
<1>8. after[k] = Held(k, s.rows[k])
  BY <1>6, <1>7 DEF Held
<1> HIDE DEF after
<1>9. Overridden(s).rows = after
  BY <1>1 DEF StateRec
<1> QED BY <1>8, <1>9

LEMMA MadeRow ==
  ASSUME NEW s \in StateRec, NEW k \in Kinds
  PROVE  LET t == Created(s, k, EnabledByDefault(k)) IN
         t.rows[k] = IF s.rows[k] = "none" THEN Made(s, k) ELSE s.rows[k]
<1> DEFINE new == Made(s, k)
<1>1. CASE s.rows[k] # "none"
  BY <1>1 DEF Created
<1>2. CASE s.rows[k] = "none"
  <2>1. Created(s, k, EnabledByDefault(k)) = [s EXCEPT !.rows[k] = new, !.tombs[k] = "none"]
    BY <1>2, Zenon DEF Created, Made
  <2> HIDE DEF new
  <2>2. [s EXCEPT !.rows[k] = new, !.tombs[k] = "none"].rows[k] = new
    BY DEF StateRec
  <2> QED BY <1>2, <2>1, <2>2 DEF new
<1> QED BY <1>1, <1>2

LEMMA OwedRow ==
  ASSUME NEW s \in StateRec
  PROVE  Restored(s).rows["sensor"] = Owed(s, s.rows["sensor"])
<1>1. CASE s.pending = "none" \/ s.rows["sensor"] = "none"
  BY <1>1 DEF Restored, Owed
<1>2. CASE s.pending # "none" /\ s.rows["sensor"] # "none"
  <2> DEFINE row == IF s.pending = "default" THEN s.rows["sensor"] ELSE s.pending
  <2>1. Restored(s) = [s EXCEPT !.rows["sensor"] = row, !.pending = "none"]
    BY <1>2 DEF Restored
  <2>2. row = Owed(s, s.rows["sensor"])
    BY <1>2 DEF Owed
  <2> HIDE DEF row
  <2>3. [s EXCEPT !.rows["sensor"] = row, !.pending = "none"].rows["sensor"] = row
    BY DEF StateRec, Kinds
  <2> QED BY <2>1, <2>2, <2>3
<1> QED BY <1>1, <1>2

LEMMA MigratedSame ==
  ASSUME NEW s \in StateRec, Good(s)
  PROVE  LET t == Migrated(s) IN
         /\ t \in StateRec /\ t.pending = s.pending
         /\ \A k \in Kinds : t.rows[k] = s.rows[k] /\ t.tombs[k] = s.tombs[k]
<1>1. CASE Projecting /\ Typed
  <2>1. s.rows["sensor"] = "none"
    BY <1>1 DEF Good, Settled
  <2>2. Migrated(s) = Removed(s, {"sensor"})
    BY <1>1 DEF Migrated
  <2> QED BY <2>1, <2>2, RemovedShape DEF Kinds
<1>2. CASE ~(Projecting /\ Typed)
  BY <1>2 DEF Migrated, Good, Settled
<1> QED BY <1>1, <1>2

(* The rules of the rows.                                                  *)
LEMMA SeenRules ==
  ASSUME NEW k \in Kinds, NEW row
  PROVE  /\ Seen(k, row) = "none" <=> row = "none"
         /\ Seen(k, Seen(k, row)) = Seen(k, row)
         /\ Held(k, row) = "none" <=> row = "none"
         /\ Held(k, Held(k, row)) = Held(k, row)
         /\ Seen(k, Held(k, Seen(k, row))) = Seen(k, Held(k, row))
         /\ row \notin OnOff => Seen(k, row) = row /\ Held(k, row) = row
         /\ row \in OnOff => Seen(k, row) \in OnOff /\ Held(k, row) \in OnOff
         /\ k \in {"bit", "time"} => Held(k, row) = row
BY DEF Seen, Held, Absent, OnOff

LEMMA MakesRules ==
  ASSUME NEW k \in Kinds, NEW p, NEW q
  PROVE  /\ Makes(p, k) /\ Makes(q, k) => p = q
         /\ Makes(p, "control") /\ ~(Unobserved /\ Strange) => ~Absent("control")
         /\ ~Makes(p, "time")
BY DEF Makes, Absent, Strange, Listed, Projecting, Typed, Allowed, AssumedAccess, WriteAllowed, ZoneOn

-----------------------------------------------------------------------------
(* What a platform makes of one row.                                       *)

LEMMA BaseRow ==
  ASSUME NEW s \in StateRec, Good(s)
  PROVE  LET t == Polling(Visible(s)) IN
         /\ t \in StateRec /\ Good(t) /\ t.pending = s.pending /\ t.tombs = s.tombs
         /\ \A k \in Kinds : t.rows[k] = Seen(k, s.rows[k])
<1>1. Switched(s, Visible(s)) /\ Visible(s) \in StateRec
  BY VisibleSwitches DEF Switched
<1>2. Good(Visible(s))
  BY <1>1, SwitchedGood
<1>3. /\ Polling(Visible(s)) \in StateRec /\ Polling(Visible(s)).rows = Visible(s).rows
      /\ Switched(Visible(s), Polling(Visible(s)))
  BY <1>1, PollingShape
<1>4. Good(Polling(Visible(s)))
  BY <1>1, <1>2, <1>3, SwitchedGood
<1> QED BY <1>1, <1>3, <1>4, SeenRow DEF Switched

LEMMA OthersRow ==
  ASSUME NEW s \in StateRec, Good(s), NEW j \in {"bit", "control"}, NEW makes \in BOOLEAN,
         makes => Projecting, makes /\ j = "control" => Typed
  PROVE  LET t == Polling(Visible(s))
             u == Migrated(IF makes THEN Created(t, j, EnabledByDefault(j)) ELSE t) IN
         /\ u.pending = s.pending
         /\ \A k \in Kinds :
               /\ u.rows[k] = IF makes /\ k = j /\ Seen(k, s.rows[k]) = "none" THEN Made(s, k)
                              ELSE Seen(k, s.rows[k])
               /\ ~(makes /\ k = j) => u.tombs[k] = s.tombs[k]
<1> DEFINE t == Polling(Visible(s))
           c == Created(t, j, EnabledByDefault(j))
<1>0. j \in Kinds \ {"sensor"}
  BY DEF Kinds
<1>1. /\ t \in StateRec /\ Good(t) /\ t.pending = s.pending /\ t.tombs = s.tombs
      /\ \A k \in Kinds : t.rows[k] = Seen(k, s.rows[k])
  BY BaseRow
<1> HIDE DEF t
<1>2. CASE ~makes
  BY <1>1, <1>2, MigratedSame DEF t
<1>3. CASE makes
  <2>1. /\ c \in StateRec /\ c.pending = t.pending
        /\ \A k \in Kinds : k # j => c.rows[k] = t.rows[k] /\ c.tombs[k] = t.tombs[k]
    BY <1>0, <1>1, CreatedShape
  <2>2. c.rows[j] = IF t.rows[j] = "none" THEN Made(t, j) ELSE t.rows[j]
    BY <1>0, <1>1, MadeRow
  <2>3. Made(t, j) = Made(s, j)
    BY <1>1 DEF Made
  <2>4. Good(c)
    <3>1. Refuses(t, {})
      <4>1. Refuses(s, {})
        BY DEF Refuses
      <4> QED BY DEF Refuses
    <3>2. j = "control" => Typed
      BY <1>3
    <3> QED BY <1>0, <1>1, <1>3, <3>1, <3>2, CreatedGood
  <2> HIDE DEF c
  <2>5. /\ Migrated(c).pending = c.pending
        /\ \A k \in Kinds : Migrated(c).rows[k] = c.rows[k] /\ Migrated(c).tombs[k] = c.tombs[k]
    BY <2>1, <2>4, MigratedSame
  <2>6. /\ Migrated(c).pending = s.pending
        /\ \A k \in Kinds :
              /\ Migrated(c).rows[k] = IF k = j /\ Seen(k, s.rows[k]) = "none" THEN Made(s, k)
                                       ELSE Seen(k, s.rows[k])
              /\ k # j => Migrated(c).tombs[k] = s.tombs[k]
    BY <1>0, <1>1, <2>1, <2>2, <2>3, <2>5
  <2> QED BY <1>3, <2>6 DEF c, t
<1> QED BY <1>2, <1>3

LEMMA SensorsRow ==
  ASSUME NEW s \in StateRec, Good(s), NEW k \in Kinds
  PROVE  LET t == SensorsUp(s) IN
         /\ Plain(k) => t.rows[k] = Brought("sensor", k, s)
         /\ t.rows[k] = "none" <=> s.rows[k] = "none" /\ ~Makes("sensor", k)
         /\ ~Makes("sensor", k) => t.tombs[k] = s.tombs[k]
<1> DEFINE a == Visible(s)
           b == Overridden(a)
           c == Migrated(b)
           t == Polling(c)
           new == Created(t, "sensor", EnabledByDefault("sensor"))
           creates == Projecting /\ ~Typed
           held == Held(k, Seen(k, s.rows[k]))
<1>0. "sensor" \in Kinds /\ "control" \in Kinds
  BY DEF Kinds
<1>1. Switched(s, a) /\ a \in StateRec /\ Good(a) /\ a.rows[k] = Seen(k, s.rows[k])
  BY VisibleSwitches, SwitchedGood, SeenRow DEF Switched
<1> HIDE DEF a
<1>2. /\ Switched(a, b) /\ b \in StateRec /\ Good(b)
      /\ Plain(k) => b.rows[k] = Held(k, a.rows[k])
  BY <1>1, OverriddenSwitches, SwitchedGood, HeldRow DEF Switched
<1> HIDE DEF b
<1>3. /\ c \in StateRec /\ c.pending = b.pending
      /\ \A j \in Kinds : c.rows[j] = b.rows[j] /\ c.tombs[j] = b.tombs[j]
  BY <1>2, MigratedSame
<1>4. Good(c)
  BY <1>2, MigratedIdle, SwitchedGood
<1> HIDE DEF c
<1>5. /\ t \in StateRec /\ t.rows = c.rows /\ Switched(c, t)
  BY <1>3, PollingShape
<1>6. Good(t)
  BY <1>3, <1>4, <1>5, SwitchedGood
<1>7. /\ t.pending = s.pending /\ \A j \in Kinds : t.tombs[j] = s.tombs[j]
      /\ t.rows[k] = "none" <=> s.rows[k] = "none"
      /\ Plain(k) => t.rows[k] = held
  BY <1>1, <1>2, <1>3, <1>5 DEF Switched, OnOff
<1>8. SensorsUp(s) = Restored(IF creates THEN new ELSE t)
  <2>1. SensorsUp(s) = Restored(IF creates /\ t.rows["control"] = "none" THEN new ELSE t)
    BY Zenon DEF SensorsUp, t, c, b, a
  <2>2. creates => t.rows["control"] = "none"
    BY <1>6 DEF Good, Settled
  <2> QED BY <2>1, <2>2
<1> HIDE DEF t
<1>9. CASE ~creates
  <2>1. t.pending = "none"
    BY <1>6, <1>9 DEF Good, Carries
  <2>2. SensorsUp(s) = t /\ ~Makes("sensor", k)
    BY <1>8, <1>9, <2>1 DEF Restored, Makes
  <2>3. Brought("sensor", k, s) = held
    BY <1>7, <2>1, <2>2 DEF Brought, Owed
  <2> QED BY <1>7, <2>2, <2>3
<1>10. CASE creates
  <2>1. Makes("sensor", k) <=> k = "sensor"
    BY <1>10 DEF Makes
  <2>2. /\ new \in StateRec /\ new.pending = t.pending /\ new.rows["sensor"] # "none"
        /\ \A j \in Kinds : j # "sensor" => new.rows[j] = t.rows[j] /\ new.tombs[j] = t.tombs[j]
    BY <1>0, <1>5, CreatedShape
  <2>3. new.rows["sensor"] = IF t.rows["sensor"] = "none" THEN Made(t, "sensor")
                             ELSE t.rows["sensor"]
    BY <1>0, <1>5, MadeRow
  <2>4. Made(t, "sensor") = Made(s, "sensor")
    BY <1>0, <1>7 DEF Made
  <2> HIDE DEF new
  <2>5. /\ Restored(new).rows["sensor"] = Owed(new, new.rows["sensor"])
        /\ Restored(new).rows["sensor"] # "none"
        /\ Restored(new).tombs = new.tombs
        /\ \A j \in Kinds \ {"sensor"} : Restored(new).rows[j] = new.rows[j]
    BY <2>2, OwedRow, RestoredShape
  <2>6. \A row : Owed(new, row) = Owed(s, row)
    BY <1>7, <2>2 DEF Owed
  <2>7. SensorsUp(s) = Restored(new)
    BY <1>8, <1>10
  <2>8. CASE k = "sensor"
    <3> DEFINE made == IF held = "none" THEN Made(s, k) ELSE held
    <3>1. Brought("sensor", k, s) = Owed(s, made)
      BY <2>1, <2>8 DEF Brought
    <3>2. Plain(k) => new.rows["sensor"] = made
      BY <1>7, <2>3, <2>4, <2>8
    <3> QED BY <2>1, <2>5, <2>6, <2>7, <2>8, <3>1, <3>2
  <2>9. CASE k # "sensor"
    <3>1. Brought("sensor", k, s) = held
      BY <2>1, <2>9 DEF Brought
    <3> QED BY <1>7, <2>1, <2>2, <2>5, <2>7, <2>9, <3>1
  <2> QED BY <2>8, <2>9
<1> QED BY <1>9, <1>10

LEMMA UpRow ==
  ASSUME NEW s \in StateRec, Good(s), NEW p \in Platforms, NEW k \in Kinds
  PROVE  LET t == Up(p, s) IN
         /\ Plain(k) => t.rows[k] = Brought(p, k, s)
         /\ t.rows[k] = "none" <=> s.rows[k] = "none" /\ ~Makes(p, k)
         /\ ~Makes(p, k) => t.tombs[k] = s.tombs[k]
         /\ p # "sensor" => t.pending = s.pending
<1>1. CASE p = "sensor"
  BY <1>1, SensorsRow DEF Up
<1>2. CASE p # "sensor"
  <2> DEFINE t == Polling(Visible(s))
             j == IF p = "binary_sensor" THEN "bit" ELSE "control"
             makes == Makes(p, j)
  <2>1. Up(p, s) = Migrated(IF makes THEN Created(t, j, EnabledByDefault(j)) ELSE t)
    <3>1. CASE p = "binary_sensor"
      BY <1>2, <3>1 DEF Up, FlagsUp, Makes
    <3>2. CASE p = "number"
      BY <1>2, <3>2 DEF Up, ControlsUp, Makes
    <3>3. CASE p \notin {"binary_sensor", "number"}
      BY <1>2, <3>3 DEF Up, Makes
    <3> QED BY <3>1, <3>2, <3>3
  <2>2. /\ makes \in BOOLEAN /\ j \in {"bit", "control"}
        /\ makes => Projecting
        /\ makes /\ j = "control" => Typed
    BY DEF Makes
  <2>3. Makes(p, k) <=> makes /\ k = j
    BY <1>2 DEF Makes
  <2> HIDE DEF makes, j, t
  <2>4. /\ Up(p, s).pending = s.pending
        /\ Up(p, s).rows[k] = IF makes /\ k = j /\ Seen(k, s.rows[k]) = "none" THEN Made(s, k)
                              ELSE Seen(k, s.rows[k])
        /\ ~(makes /\ k = j) => Up(p, s).tombs[k] = s.tombs[k]
    <3> DEFINE u == Migrated(IF makes THEN Created(t, j, EnabledByDefault(j)) ELSE t)
    <3>1. /\ u.pending = s.pending
          /\ \A i \in Kinds :
                /\ u.rows[i] = IF makes /\ i = j /\ Seen(i, s.rows[i]) = "none" THEN Made(s, i)
                               ELSE Seen(i, s.rows[i])
                /\ ~(makes /\ i = j) => u.tombs[i] = s.tombs[i]
      BY <2>2, OthersRow DEF t
    <3> HIDE DEF u
    <3>2. Up(p, s) = u
      BY <2>1 DEF u
    <3> QED BY <3>1, <3>2
  <2>5. Brought(p, k, s) = IF Makes(p, k) /\ Seen(k, s.rows[k]) = "none" THEN Made(s, k)
                           ELSE Seen(k, s.rows[k])
    BY <1>2 DEF Brought
  <2>6. Made(s, k) # "none"
    BY DEF Made
  <2>7. Seen(k, s.rows[k]) = "none" <=> s.rows[k] = "none"
    BY SeenRules
  <2> QED BY <1>2, <2>3, <2>4, <2>5, <2>6, <2>7
<1> QED BY <1>1, <1>2

-----------------------------------------------------------------------------
(* The order of the platforms.                                             *)

LEMMA AheadStays ==
  ASSUME NEW s \in StateRec, Good(s), NEW ps \in SUBSET Platforms, NEW p \in ps,
         NEW k \in Kinds, Plain(k), ~(Unobserved /\ Strange)
  PROVE  Ahead(Up(p, s), ps \ {p}, k) = Ahead(s, ps, k)
<1> DEFINE t == Up(p, s)
           held == IF "sensor" \in ps THEN Held(k, s.rows[k]) ELSE s.rows[k]
           later == IF "sensor" \in ps \ {p} THEN Held(k, t.rows[k]) ELSE t.rows[k]
           made == IF held = "none" /\ (\E q \in ps : Makes(q, k)) THEN Made(s, k) ELSE held
           latest == IF later = "none" /\ (\E q \in ps \ {p} : Makes(q, k)) THEN Made(t, k)
                     ELSE later
<1>1. /\ t.rows[k] = Brought(p, k, s)
      /\ ~Makes(p, k) => t.tombs[k] = s.tombs[k]
      /\ p # "sensor" => t.pending = s.pending
  BY UpRow
<1> HIDE DEF t
<1>2. /\ Ahead(s, ps, k) = Seen(k, IF "sensor" \in ps /\ k = "sensor" THEN Owed(s, made) ELSE made)
      /\ Ahead(t, ps \ {p}, k) =
           Seen(k, IF "sensor" \in ps \ {p} /\ k = "sensor" THEN Owed(t, latest) ELSE latest)
  BY Zenon DEF Ahead
<1>3. /\ ~Makes(p, k) => Made(t, k) = Made(s, k)
      /\ Made(s, k) # "none"
  BY <1>1 DEF Made
<1>4. ASSUME NEW row, NEW more, row = "none" <=> more = "none", Seen(k, row) = Seen(k, more)
      PROVE  Seen(k, Owed(s, row)) = Seen(k, Owed(s, more))
  BY <1>4 DEF Owed
<1>5. CASE Makes(p, k) /\ s.rows[k] = "none"
  <2>1. \A q \in ps \ {p} : ~Makes(q, k)
    BY <1>5, MakesRules
  <2>2. held = "none"
    BY <1>5, SeenRules
  <2>3. made = Made(s, k)
    BY <1>5, <2>2
  <2>4. k = "sensor" <=> p = "sensor"
    BY <1>5 DEF Makes
  <2>5. t.rows[k] = IF k = "sensor" THEN Owed(s, made) ELSE made
    BY <1>1, <1>5, <2>3, <2>4, SeenRules DEF Brought
  <2>6. later = t.rows[k]
    <3>1. CASE "sensor" \in ps \ {p}
      <4>1. k \in {"bit", "control"}
        BY <1>5, <2>4, <3>1 DEF Makes
      <4>2. k = "control" => ~Absent(k)
        BY <1>5, MakesRules
      <4> QED BY <3>1, <4>1, <4>2, SeenRules DEF Held
    <3> QED BY <3>1
  <2>7. latest = t.rows[k]
    BY <2>1, <2>6
  <2> HIDE DEF made, latest
  <2> QED BY <1>2, <2>4, <2>5, <2>7 DEF t
<1>6. CASE ~(Makes(p, k) /\ s.rows[k] = "none") /\ ~(p = "sensor" /\ k = "sensor")
  <2> DEFINE seen == Seen(k, s.rows[k])
  <2>1. t.rows[k] = IF p = "sensor" THEN Held(k, seen) ELSE seen
    <3>1. (IF p = "sensor" THEN Held(k, seen) ELSE seen) = "none" => s.rows[k] = "none"
      BY SeenRules
    <3> QED BY <1>1, <1>6, <3>1 DEF Brought
  <2>2. /\ held = "none" <=> s.rows[k] = "none"
        /\ later = "none" <=> s.rows[k] = "none"
        /\ Seen(k, later) = Seen(k, held)
    BY <2>1, SeenRules
  <2> HIDE DEF held, later, seen
  <2>3. CASE s.rows[k] = "none"
    <3>1. ~Makes(p, k)
      BY <1>6, <2>3
    <3>2. (\E q \in ps \ {p} : Makes(q, k)) <=> \E q \in ps : Makes(q, k)
      BY <3>1
    <3>3. made = latest
      BY <1>3, <2>2, <2>3, <3>1, <3>2
    <3> QED BY <1>1, <1>2, <1>6, <3>3 DEF Owed, t
  <2>4. CASE s.rows[k] # "none"
    <3>1. made = held /\ latest = later
      BY <2>2, <2>4
    <3> HIDE DEF made, latest
    <3>2. k = "sensor" => /\ "sensor" \in ps <=> "sensor" \in ps \ {p}
                          /\ Owed(t, latest) = Owed(s, latest)
      BY <1>1, <1>6 DEF Owed
    <3>3. Seen(k, Owed(s, latest)) = Seen(k, Owed(s, made))
      BY <1>4, <2>2, <3>1
    <3> QED BY <1>2, <2>2, <3>1, <3>2, <3>3 DEF t
  <2> QED BY <2>3, <2>4
<1>7. CASE ~(Makes(p, k) /\ s.rows[k] = "none") /\ p = "sensor" /\ k = "sensor"
  <2> DEFINE seen == Seen(k, s.rows[k])
  <2>1. t.rows[k] = Owed(s, Held(k, seen))
    <3>1. Held(k, seen) = "none" => s.rows[k] = "none"
      BY SeenRules
    <3> QED BY <1>1, <1>7, <3>1 DEF Brought
  <2>2. \A q \in ps \ {p} : ~Makes(q, k)
    BY <1>7 DEF Makes
  <2>3. latest = t.rows[k]
    BY <1>7, <2>2
  <2>4. held = Held(k, s.rows[k])
    BY <1>7
  <2>5. made = held
    BY <1>7, <2>2, <2>4, SeenRules
  <2> HIDE DEF latest, made, held
  <2>6. Seen(k, Owed(s, Held(k, seen))) = Seen(k, Owed(s, Held(k, s.rows[k])))
    BY <1>4, SeenRules
  <2> QED BY <1>2, <1>7, <2>1, <2>3, <2>4, <2>5, <2>6 DEF t
<1> QED BY <1>5, <1>6, <1>7 DEF t

LEMMA FinalStays ==
  ASSUME NEW s \in StateRec, Good(s), NEW ps \in SUBSET Platforms, NEW p \in ps,
         NEW k \in Kinds, Orderless
  PROVE  Final(Up(p, s), ps \ {p}, k) = Final(s, ps, k)
<1>1. \A j \in Kinds : Plain(j)
  BY DEF Plain, Orderless, PickOf
<1>2. \A j \in Kinds : Ahead(Up(p, s), ps \ {p}, j) = Ahead(s, ps, j)
  BY <1>1, AheadStays DEF Orderless
<1>3. "time" \in Kinds /\ "control" \in Kinds
  BY DEF Kinds
<1>4. ~Makes(p, "time")
  BY <1>3, MakesRules
<1>5. Up(p, s).rows["time"] = s.rows["time"] /\ Up(p, s).tombs["time"] = s.tombs["time"]
  <2>1. Brought(p, "time", s) = s.rows["time"]
    BY <1>4 DEF Brought, Seen, Held, Absent
  <2> QED BY <1>1, <1>3, <1>4, <2>1, UpRow
<1> QED BY <1>2, <1>3, <1>5 DEF Final

LEMMA ClocksRow ==
  ASSUME NEW s \in StateRec, Good(s), NEW k \in Kinds
  PROVE  ClocksUp(s).rows[k] = Final(s, {}, k)
<1> DEFINE v == Polling(Visible(s))
           x == v.rows["time"]
           numbered == v.rows["control"] = "enabled"
           hides == IF x = "enabled" THEN "integration" ELSE x
           shows == IF numbered /\ x = "integration" THEN "enabled" ELSE x
           hidden == [v EXCEPT !.rows["time"] = hides]
           shown == [v EXCEPT !.rows["time"] = shows]
           always == TRUE
<1>0. "time" \in Kinds /\ "control" \in Kinds
  BY DEF Kinds
<1>1. /\ v \in StateRec /\ v.tombs = s.tombs
      /\ \A j \in Kinds : v.rows[j] = Seen(j, s.rows[j])
  BY BaseRow
<1>2. \A j \in Kinds : Ahead(s, {}, j) = Seen(j, s.rows[j])
  BY DEF Ahead
<1>3. \A j \in Kinds \ {"time"} : ClocksUp(s).rows[j] = v.rows[j]
  BY ClocksShape, Zenon
<1>4. CASE k # "time"
  BY <1>1, <1>2, <1>3, <1>4 DEF Final
<1>5. CASE k = "time"
  <2>1. x = s.rows["time"] /\ v.tombs["time"] = s.tombs["time"]
        /\ (numbered <=> Ahead(s, {}, "control") = "enabled")
    BY <1>0, <1>1, <1>2 DEF Seen
  <2>2. Final(s, {}, "time") = Clock(v.rows["control"], x, v.tombs["time"])
    BY <1>0, <1>1, <1>2, <2>1 DEF Final
  <2>3. ClocksUp(s) = IF ~(Is("clock") /\ Projecting) THEN v
                      ELSE IF ~ZoneOn THEN hidden
                      ELSE IF Typed /\ (numbered \/ x = "enabled")
                      THEN Created(shown, "time", always)
                      ELSE v
    BY Zenon DEF ClocksUp, Refreshed
  <2> HIDE DEF v, always
  <2>4. /\ hides \in RowStates /\ shows \in RowStates
    BY <1>0, <1>1 DEF StateRec, RowStates
  <2>5. /\ shown \in StateRec
        /\ hidden.rows["time"] = hides /\ shown.rows["time"] = shows
        /\ shown.tombs = v.tombs
    <3> HIDE DEF hides, shows
    <3> QED BY <1>0, <1>1, <2>4 DEF StateRec
  <2>6. Created(shown, "time", always).rows["time"] =
          IF shows # "none" THEN shows
          ELSE IF v.tombs["time"] # "none" THEN v.tombs["time"] ELSE "enabled"
    <3> HIDE DEF shown, shows
    <3> DEFINE new == IF shown.tombs["time"] # "none" THEN shown.tombs["time"]
                      ELSE IF always THEN "enabled" ELSE "integration"
    <3>1. CASE shows # "none"
      BY <2>5, <3>1 DEF Created
    <3>2. CASE shows = "none"
      <4>1. Created(shown, "time", always) = [shown EXCEPT !.rows["time"] = new, !.tombs["time"] = "none"]
        BY <2>5, <3>2 DEF Created
      <4>2. new = IF v.tombs["time"] # "none" THEN v.tombs["time"] ELSE "enabled"
        BY <2>5 DEF always
      <4> HIDE DEF new
      <4>3. [shown EXCEPT !.rows["time"] = new, !.tombs["time"] = "none"].rows["time"] = new
        BY <1>0, <2>5 DEF StateRec
      <4> QED BY <3>2, <4>1, <4>2, <4>3
    <3> QED BY <3>1, <3>2
  <2>7. ClocksUp(s).rows["time"] = Clock(v.rows["control"], x, v.tombs["time"])
    <3> HIDE DEF hidden, shown
    <3> QED BY <2>3, <2>5, <2>6 DEF Clock
  <2> QED BY <1>5, <2>2, <2>7
<1> QED BY <1>4, <1>5

LEMMA UpGood ==
  ASSUME NEW s \in StateRec, Good(s), NEW p \in Platforms
  PROVE  Up(p, s) \in StateRec /\ Good(Up(p, s))
<1>1. \/ Refuses(s, {})
      \/ s.rows["control"] # "none" /\ FALSE
  BY DEF Refuses
<1>2. Arrives(s, Up(p, s), {})
  BY <1>1, UpArrives
<1> QED BY <1>2 DEF Arrives

LEMMA SetUpFinal ==
  ASSUME NEW s \in StateRec, Good(s), Orderless, NEW k \in Kinds
  PROVE  SetUp(s).rows[k] = Final(s, Platforms, k)
<1> DEFINE a == Up("sensor", s)
           b == Up("binary_sensor", a)
           c == Up("number", b)
           d == Up("select", c)
           e == Up("switch", d)
<1>1. a \in StateRec /\ Good(a)
  BY UpGood DEF Platforms
<1>2. b \in StateRec /\ Good(b)
  BY <1>1, UpGood DEF Platforms
<1>3. c \in StateRec /\ Good(c)
  BY <1>2, UpGood DEF Platforms
<1>4. d \in StateRec /\ Good(d)
  BY <1>3, UpGood DEF Platforms
<1>5. e \in StateRec /\ Good(e)
  BY <1>4, UpGood DEF Platforms
<1>6. SetUp(s) = ClocksUp(e)
  BY DEF SetUp
<1> DEFINE A == {"binary_sensor", "number", "select", "switch"}
           B == {"number", "select", "switch"}
           C == {"select", "switch"}
           D == {"switch"}
<1>7. Final(a, A, k) = Final(s, Platforms, k)
  <2>1. A = Platforms \ {"sensor"} /\ "sensor" \in Platforms
    BY DEF Platforms
  <2> QED BY <2>1, FinalStays
<1> HIDE DEF a
<1>8. Final(b, B, k) = Final(a, A, k)
  <2>1. B = A \ {"binary_sensor"} /\ "binary_sensor" \in A /\ A \in SUBSET Platforms
    BY DEF Platforms
  <2> QED BY <1>1, <2>1, FinalStays
<1> HIDE DEF b
<1>9. Final(c, C, k) = Final(b, B, k)
  <2>1. C = B \ {"number"} /\ "number" \in B /\ B \in SUBSET Platforms
    BY DEF Platforms
  <2> QED BY <1>2, <2>1, FinalStays
<1> HIDE DEF c
<1>10. Final(d, D, k) = Final(c, C, k)
  <2>1. D = C \ {"select"} /\ "select" \in C /\ C \in SUBSET Platforms
    BY DEF Platforms
  <2> QED BY <1>3, <2>1, FinalStays
<1> HIDE DEF d
<1>11. Final(e, {}, k) = Final(d, D, k)
  <2>1. {} = D \ {"switch"} /\ "switch" \in D /\ D \in SUBSET Platforms
    BY DEF Platforms
  <2> QED BY <1>4, <2>1, FinalStays
<1> HIDE DEF e
<1> QED BY <1>5, <1>6, <1>7, <1>8, <1>9, <1>10, <1>11, ClocksRow

(* The case, the options and the findings decide; a setup changes none.    *)
LEMMA Decided ==
  ASSUME UNCHANGED <<case, options, found>>
  PROVE  /\ Is("filtered")' <=> Is("filtered")
         /\ Is("clock")' <=> Is("clock")
         /\ Is("bits")' <=> Is("bits")
         /\ Listed' <=> Listed
         /\ CategoryVisible' <=> CategoryVisible
         /\ Projecting' <=> Projecting
         /\ Typed' <=> Typed
         /\ Allowed' <=> Allowed
         /\ ZoneOn' <=> ZoneOn
         /\ \A k \in Kinds : /\ ProjectionMayWrite(k)' <=> ProjectionMayWrite(k)
                             /\ EnabledByDefault(k)' <=> EnabledByDefault(k)
                             /\ Absent(k)' <=> Absent(k)
                             /\ \A p \in Platforms : Makes(p, k)' <=> Makes(p, k)
<1>1. /\ \A trait \in Traits : Is(trait)' <=> Is(trait)
      /\ Listed' <=> Listed
      /\ CategoryVisible' <=> CategoryVisible
      /\ Projecting' <=> Projecting
      /\ Typed' <=> Typed
      /\ Allowed' <=> Allowed
      /\ ZoneOn' <=> ZoneOn
      /\ Unobserved' <=> Unobserved
      /\ \A k \in Kinds : PickOf(k)' = PickOf(k)
  BY DEF Is, Listed, CategoryVisible, Projecting, Typed, AssumedAccess, WriteAllowed, Allowed,
         ZoneOn, Unobserved, PickOf
<1>2. \A k \in Kinds : /\ ProjectionMayWrite(k)' <=> ProjectionMayWrite(k)
                       /\ EnabledByDefault(k)' <=> EnabledByDefault(k)
                       /\ Absent(k)' <=> Absent(k)
  BY <1>1 DEF ProjectionMayWrite, EnabledByDefault, Override, PickOf, Is, WriteAllowed, Absent,
              Traits
<1>3. \A k \in Kinds, p \in Platforms : Makes(p, k)' <=> Makes(p, k)
  BY <1>1 DEF Makes, Traits
<1> QED BY <1>1, <1>2, <1>3 DEF Traits

LEMMA FinalDecided ==
  ASSUME UNCHANGED <<case, options, found>>, NEW t \in StateRec, State' = t,
         NEW ps \in SUBSET Platforms, todo' = ps, NEW k \in Kinds
  PROVE  Final(State, todo, k)' = Final(t, ps, k)
<1>1. ASSUME NEW j \in Kinds PROVE Ahead(State, todo, j)' = Ahead(t, ps, j)
  BY <1>1, Decided DEF Ahead, Held, Made, Owed, Seen
<1>2. "control" \in Kinds
  BY DEF Kinds
<1> QED BY <1>1, <1>2, Decided DEF Final, Clock

LEMMA OrderInit == EntityInit => OrderInv
BY DEF EntityInit, OrderInv, OrderIsFree

LEMMA OrderTidy == ASSUME EntityInv, RegistryTidied PROVE OrderInv'
<1>1. /\ UNCHANGED <<case, options, found>> /\ stage' = "platforms" /\ todo' = Platforms
      /\ Become(Tidied(State)) /\ expected' = SetUp(Tidied(State)).rows
  BY DEF RegistryTidied
<1>2. State \in StateRec /\ State.pending = "none" /\ OneRow(State) /\ Owned(State)
  BY StateIn DEF EntityInv, RegistryTidied, Projected, State
<1> DEFINE t == Tidied(State)
<1>3. t \in StateRec /\ State' = t
  BY <1>1, <1>2, TidiedTyped, BecomeState
<1>4. Good(t)
  <2>1. Refuses(State, refused) /\ refused \in SUBSET Kinds
    BY DEF EntityInv, RestTyped
  <2> QED BY <1>2, <2>1, TidiedGood
<1>5. SetUp(t).rows = expected'
  BY <1>1
<1> HIDE DEF t
<1>6. ASSUME Orderless, NEW k \in Kinds PROVE expected'[k] = Final(t, Platforms, k)
  BY <1>3, <1>4, <1>5, <1>6, SetUpFinal
<1>7. Orderless' <=> Orderless
  BY <1>1 DEF Orderless, Unobserved, Strange, Is
<1>8. \A k \in Kinds : Final(State, todo, k)' = Final(t, Platforms, k)
  BY <1>1, <1>3, FinalDecided
<1> QED BY <1>1, <1>6, <1>7, <1>8 DEF OrderInv, OrderIsFree

LEMMA OrderPlatform == ASSUME EntityInv, OrderInv, PlatformComesUp PROVE OrderInv'
<1>1. PICK p \in todo : todo' = todo \ {p} /\ Become(Up(p, State))
  BY DEF PlatformComesUp
<1>2. UNCHANGED <<case, options, found, stage, expected>> /\ stage = "platforms"
  BY DEF PlatformComesUp
<1>3. State \in StateRec /\ Good(State) /\ todo \in SUBSET Platforms /\ p \in Platforms
  BY <1>2, StateIn DEF EntityInv, Projected, RestTyped
<1> DEFINE t == Up(p, State)
<1>4. State' = t /\ t \in StateRec
  BY <1>1, <1>3, UpGood, BecomeState
<1>5. ASSUME Orderless, NEW k \in Kinds
      PROVE  Final(t, todo \ {p}, k) = Final(State, todo, k)
  BY <1>3, <1>5, FinalStays
<1> HIDE DEF t
<1>6. Orderless' <=> Orderless
  BY <1>2 DEF Orderless, Unobserved, Strange, Is
<1>7. \A k \in Kinds : Final(State, todo, k)' = Final(t, todo \ {p}, k)
  BY <1>1, <1>2, <1>3, <1>4, FinalDecided
<1> QED BY <1>2, <1>5, <1>6, <1>7 DEF OrderInv, OrderIsFree

LEMMA OrderClocks == ASSUME EntityInv, OrderInv, ClocksComeUp PROVE OrderInv'
<1>1. /\ UNCHANGED <<case, options, found, expected>> /\ Become(ClocksUp(State))
      /\ stage = "platforms" /\ stage' = "loaded" /\ todo = {}
  BY DEF ClocksComeUp, entityHistory
<1>2. State \in StateRec /\ Good(State)
  BY <1>1, StateIn DEF EntityInv, Projected
<1>3. ClocksUp(State) \in StateRec
  BY <1>2, ClocksShape
<1>4. rows' = ClocksUp(State).rows /\ rows' \in [Kinds -> RowStates]
  BY <1>1, <1>3 DEF Become, StateRec
<1>5. expected \in [Kinds -> RowStates]
  BY DEF EntityInv, RestTyped
<1>6. \A k \in Kinds : rows'[k] = Final(State, {}, k)
  BY <1>2, <1>4, ClocksRow
<1>7. ASSUME expected # NoRows, Orderless PROVE rows' = expected
  <2>1. \A k \in Kinds : rows'[k] = expected[k]
    BY <1>1, <1>6, <1>7 DEF OrderInv
  <2> QED BY <1>4, <1>5, <2>1
<1> QED BY <1>1, <1>7 DEF OrderInv, OrderIsFree, Orderless, Unobserved, Strange, Is

LEMMA OrderStep == EntityInv /\ OrderInv /\ [EntityNext]_entityVars => OrderInv'
<1> SUFFICES ASSUME EntityInv, OrderInv, [EntityNext]_entityVars PROVE OrderInv'
  OBVIOUS
<1>1. ASSUME StartupFinds PROVE OrderInv'
  BY <1>1 DEF StartupFinds, OrderInv, OrderIsFree
<1>2. ASSUME expected' = NoRows PROVE OrderInv'
  BY <1>2 DEF OrderInv, OrderIsFree
<1>3. UserDisables \/ UserEnables \/ RegisterExpires \/ EntityReload \/ OptionsSaved \/ EntityCrash
        => expected' = NoRows
  BY DEF UserDisables, UserEnables, RegisterExpires, EntityReload, OptionsSaved, EntityCrash,
         CoordinatorGone
<1>4. ASSUME UNCHANGED entityVars PROVE OrderInv'
  <2>1. UNCHANGED <<case, options, found, stage, todo, rows, tombs, pending, polled, expected>>
    BY <1>4 DEF entityVars, registry, entityHistory
  <2>2. State \in StateRec /\ State' = State /\ todo \in SUBSET Platforms
    BY <2>1, StateIn DEF State, EntityInv, RestTyped
  <2>3. \A k \in Kinds : Final(State, todo, k)' = Final(State, todo, k)
    BY <2>1, <2>2, FinalDecided
  <2> QED BY <2>1, <2>3 DEF OrderInv, OrderIsFree, Orderless, Unobserved, Strange, Is
<1> QED BY <1>1, <1>2, <1>3, <1>4, OrderTidy, OrderPlatform, OrderClocks DEF EntityNext

(* However the platforms come up, the rows are the same in the end: what   *)
(* remains to be done makes the rest of what was expected at the tidying.  *)
THEOREM AnyOrder == EntitySpec => []OrderIsFree
<1>1. EntityInv /\ OrderInv /\ [EntityNext]_entityVars => OrderInv'
  BY OrderStep
<1>2. OrderInv => OrderIsFree
  BY DEF OrderInv
<1> QED BY <1>1, <1>2, OrderInit, EntitySafe, PTL DEF EntitySpec

-----------------------------------------------------------------------------
(* What the user wants.                                                    *)

LEMMA StandsRules ==
  ASSUME NEW k \in Kinds, NEW row, Stands(row)
  PROVE  /\ Stands(Seen(k, row))
         /\ (Unobserved => Allowed /\ ~Strange) => Stands(Held(k, row))
BY DEF Stands, Seen, Held, Absent, Strange, Listed, ZoneOn, CategoryVisible, Allowed

LEMMA KeptTidied ==
  ASSUME NEW s \in StateRec, NEW ks \in SUBSET Kinds,
         s.pending = "none", OneRow(s), Keeps(s, ks), Flagged(s)
  PROVE  LET t == Tidied(s) IN
         Flagged(t) /\ Keeps(t, Standing(IF Listed THEN Moved(ks, s.rows, t.rows) ELSE ks))
<1> DEFINE t == Tidied(s)
           moved == IF Listed THEN Moved(ks, s.rows, t.rows) ELSE ks
<1>0. "sensor" \in Kinds /\ "control" \in Kinds /\ "bit" \in Kinds
  BY DEF Kinds
<1>1. Standing(moved) \subseteq moved
  BY DEF Standing
<1>2. Flagged(t) /\ Keeps(t, moved)
  <2>0. Listed => ~Retired
    BY DEF Listed, Retired
  <2>6. CASE ~Retired /\ ~Listed
    <3>1. t = s /\ moved = ks
      BY <2>6 DEF Tidied, Migrated, Projecting
    <3> HIDE DEF t, moved
    <3> QED BY <3>1
  <2>1. CASE Retired
    <3> DEFINE u == Removed(s, Kinds)
    <3>1. /\ u \in StateRec /\ u.pending = "none"
          /\ \A k \in Kinds : /\ u.rows[k] = "none"
                              /\ s.rows[k] # "none" => u.tombs[k] = s.rows[k]
                              /\ s.rows[k] = "none" => u.tombs[k] = s.tombs[k]
      BY RemovedShape
    <3>2. t = u /\ moved = ks
      BY <2>0, <2>1 DEF Tidied, Migrated, Projecting
    <3> HIDE DEF u, t, moved
    <3>3. \A k \in Kinds : Kept(u, k) = Kept(s, k)
      BY <3>1 DEF Kept
    <3> QED BY <1>0, <3>1, <3>2, <3>3 DEF Keeps, Flagged
  <2>2. CASE Listed /\ ~CategoryVisible
    <3>1. t = s
      BY <2>0, <2>2 DEF Tidied, Migrated, Projecting
    <3>2. moved \subseteq ks
      BY <2>2, <3>1 DEF Moved
    <3> HIDE DEF t, moved
    <3> QED BY <3>1, <3>2 DEF Keeps
  <2>3. CASE Listed /\ CategoryVisible /\ Typed
    <3> DEFINE u == Removed(s, {"sensor"})
    <3>1. /\ u \in StateRec /\ u.pending = "none" /\ u.rows["sensor"] = "none"
          /\ s.rows["sensor"] # "none" => u.tombs["sensor"] = s.rows["sensor"]
          /\ s.rows["sensor"] = "none" => u.tombs["sensor"] = s.tombs["sensor"]
          /\ \A k \in Kinds : k # "sensor" => u.rows[k] = s.rows[k] /\ u.tombs[k] = s.tombs[k]
      BY <1>0, RemovedShape
    <3>2. t = u
      BY <2>0, <2>3 DEF Tidied, Migrated, Projecting
    <3> HIDE DEF u, t
    <3>3. moved \subseteq ks
      BY <1>0, <2>3, <3>1, <3>2 DEF Moved
    <3> HIDE DEF moved
    <3>4. \A k \in Kinds : Kept(u, k) = Kept(s, k)
      BY <3>1 DEF Kept
    <3> QED BY <1>0, <3>1, <3>2, <3>3, <3>4 DEF Keeps, Flagged
  <2>4. CASE Listed /\ CategoryVisible /\ ~Typed /\ s.rows["control"] = "none"
    <3>1. t = s
      BY <2>0, <2>4 DEF Tidied, Migrated, Projecting
    <3>2. moved = ks
      BY <2>4, <3>1 DEF Moved
    <3> HIDE DEF t, moved
    <3> QED BY <3>1, <3>2
  <2>5. CASE Listed /\ CategoryVisible /\ ~Typed /\ s.rows["control"] # "none"
    <3> DEFINE carried == CarriedOver(s.rows["control"], s.pending)
               r == [s EXCEPT !.pending = carried]
               u == Removed(r, {"control"})
    <3>1. /\ carried \in Pendings
          /\ s.rows["control"] = "enabled" => carried = "enabled"
      BY <1>0, <2>5 DEF CarriedOver, StateRec, Pendings, RowStates
    <3>2. t = u
      BY <2>0, <2>5 DEF Tidied, Migrated, Projecting
    <3> HIDE DEF carried
    <3>3. r \in StateRec /\ r.rows = s.rows /\ r.tombs = s.tombs /\ r.pending = carried
      BY <3>1 DEF StateRec
    <3> HIDE DEF r
    <3>4. /\ u \in StateRec /\ u.pending = carried /\ u.rows["control"] = "none"
          /\ u.tombs["control"] = s.rows["control"]
          /\ \A k \in Kinds : k # "control" => u.rows[k] = s.rows[k] /\ u.tombs[k] = s.tombs[k]
      BY <1>0, <2>5, <3>3, RemovedShape
    <3> HIDE DEF u, t
    <3>5. s.rows["sensor"] = "none" /\ "sensor" \notin ks
      BY <2>5 DEF OneRow, Keeps
    <3>6. /\ moved \subseteq ks \cup {"sensor"}
          /\ "control" \in ks => "control" \notin moved
          /\ "sensor" \in moved => "control" \in ks /\ s.rows["control"] # "integration"
      BY <2>5, <3>2, <3>4, <3>5 DEF Moved
    <3> HIDE DEF moved
    <3>7. ASSUME NEW k \in moved \ {"time", "sensor"} PROVE Stands(Kept(u, k))
      <4>1. k \in ks /\ k # "control" /\ k \in Kinds
        BY <3>6, <3>7
      <4>2. Kept(u, k) = Kept(s, k)
        BY <3>4, <3>7, <4>1 DEF Kept
      <4> QED BY <3>7, <4>1, <4>2 DEF Keeps
    <3>8. ASSUME "sensor" \in moved PROVE u.pending = "enabled" /\ Kept(u, "sensor") = "enabled"
      <4>1. Stands(Kept(s, "control")) /\ Kept(s, "control") = s.rows["control"]
        BY <2>5, <3>6, <3>8 DEF Keeps, Kept
      <4>2. s.rows["control"] = "enabled"
        BY <3>6, <3>8, <4>1 DEF Stands
      <4> QED BY <1>0, <3>1, <3>4, <3>5, <4>2 DEF Kept
    <3>9. Keeps(u, moved)
      BY <1>0, <3>4, <3>6, <3>7, <3>8 DEF Keeps, Stands
    <3> QED BY <1>0, <3>2, <3>4, <3>9 DEF Flagged
  <2> HIDE DEF t, moved
  <2> QED BY <2>1, <2>2, <2>3, <2>4, <2>5, <2>6
<1> HIDE DEF t, moved
<1>3. Keeps(t, Standing(moved))
  BY <1>1, <1>2 DEF Keeps
<1> QED BY <1>2, <1>3 DEF t, moved

LEMMA KeptUp ==
  ASSUME NEW s \in StateRec, Good(s), NEW p \in Platforms, NEW ks \in SUBSET Kinds,
         Keeps(s, ks), Flagged(s)
  PROVE  LET t == Up(p, s) IN
         Flagged(t) /\ Keeps(t, Standing(Moved(ks, s.rows, t.rows)))
<1> DEFINE t == Up(p, s)
           moved == Moved(ks, s.rows, t.rows)
<1>0. "sensor" \in Kinds /\ "control" \in Kinds /\ "bit" \in Kinds
  BY DEF Kinds
<1>1. \A k \in Kinds : /\ Plain(k) => t.rows[k] = Brought(p, k, s)
                       /\ t.rows[k] = "none" <=> s.rows[k] = "none" /\ ~Makes(p, k)
                       /\ ~Makes(p, k) => t.tombs[k] = s.tombs[k]
                       /\ p # "sensor" => t.pending = s.pending
  BY UpRow
<1>2. /\ t \in StateRec /\ Good(t)
      /\ t.pending # "none" => s.pending # "none"
      /\ p = "sensor" => t.pending = "none"
  <2>1. Refuses(s, {})
    BY DEF Refuses
  <2> QED BY <2>1, UpArrives DEF Arrives
<1> HIDE DEF t
<1>3. moved = IF t.rows["control"] # "none" THEN ks \ {"sensor"} ELSE ks
  BY <1>0, <1>1 DEF Moved
<1> HIDE DEF moved
<1>4. Flagged(t)
  BY <1>0, <1>1 DEF Flagged, Makes
<1>5. "sensor" \in moved => t.rows["control"] = "none" /\ t.pending # "user"
  BY <1>0, <1>1, <1>2, <1>3 DEF Keeps
<1>6. ASSUME NEW k \in Standing(moved) \ {"time"} PROVE Stands(Kept(t, k))
  <2>1. k \in ks /\ k \in Kinds /\ Plain(k) /\ (Unobserved => Allowed /\ ~Strange)
    BY <1>3, <1>6 DEF Standing, Plain
  <2>2. Stands(Kept(s, k))
    BY <1>6, <2>1 DEF Keeps
  <2> DEFINE seen == Seen(k, s.rows[k])
             held == IF p = "sensor" THEN Held(k, seen) ELSE seen
             made == IF Makes(p, k) /\ held = "none" THEN Made(s, k) ELSE held
  <2>3. t.rows[k] = IF p = "sensor" /\ k = "sensor" THEN Owed(s, made) ELSE made
    BY <1>1, <2>1 DEF Brought
  <2>4. CASE s.rows[k] # "none"
    <3>1. Stands(seen) /\ Stands(held)
      BY <2>1, <2>2, <2>4, StandsRules DEF Kept
    <3>2. held # "none"
      BY <2>1, <2>4, SeenRules
    <3>3. made = held
      BY <3>2
    <3>4. k = "sensor" => s.pending = "none"
      BY <2>4 DEF Good, Carries
    <3> HIDE DEF made, held
    <3>5. t.rows[k] = held
      BY <2>3, <3>3, <3>4 DEF Owed
    <3> QED BY <3>1, <3>2, <3>5 DEF Kept
  <2>5. CASE s.rows[k] = "none" /\ Makes(p, k)
    <3>1. held = "none"
      BY <2>1, <2>5, SeenRules
    <3>2. made = Made(s, k)
      BY <2>5, <3>1
    <3>3. k = "sensor" <=> p = "sensor"
      BY <2>5 DEF Makes
    <3> HIDE DEF made, held
    <3>4. CASE k = "sensor"
      <4>1. s.pending # "user"
        BY <2>1, <3>4 DEF Keeps
      <4>2. t.rows[k] = IF s.pending = "enabled" THEN "enabled" ELSE Made(s, k)
        BY <2>3, <3>2, <3>3, <3>4, <4>1 DEF Owed, Made, StateRec, Pendings
      <4>3. s.pending # "enabled" => Stands(s.tombs[k])
        BY <2>2, <2>5 DEF Kept
      <4> QED BY <3>4, <4>2, <4>3 DEF Kept, Stands, Made
    <3>5. CASE k # "sensor"
      <4>1. Stands(s.tombs[k])
        BY <2>2, <2>5, <3>5 DEF Kept
      <4>2. t.rows[k] = s.tombs[k]
        BY <2>3, <3>2, <3>5, <4>1 DEF Made, Stands
      <4> QED BY <3>5, <4>1, <4>2 DEF Kept, Stands
    <3> QED BY <3>4, <3>5
  <2>6. CASE s.rows[k] = "none" /\ ~Makes(p, k)
    <3>1. t.rows[k] = "none" /\ t.tombs[k] = s.tombs[k]
      BY <1>1, <2>1, <2>6
    <3>2. k = "sensor" => t.pending = s.pending
      BY <1>1, <1>2, <2>1, <2>6 DEF Good, Carries, Makes
    <3> QED BY <2>2, <2>6, <3>1, <3>2 DEF Kept
  <2> QED BY <2>4, <2>5, <2>6
<1>7. Standing(moved) \subseteq moved /\ moved \subseteq ks
  BY <1>3 DEF Standing
<1>8. Keeps(t, Standing(moved))
  BY <1>5, <1>6, <1>7 DEF Keeps
<1> QED BY <1>4, <1>8 DEF t, moved

LEMMA KeptClocks ==
  ASSUME NEW s \in StateRec, Good(s), NEW ks \in SUBSET Kinds, Keeps(s, ks), Flagged(s)
  PROVE  Keeps(ClocksUp(s), ks) /\ Flagged(ClocksUp(s))
<1> DEFINE t == ClocksUp(s)
<1>0. "sensor" \in Kinds /\ "control" \in Kinds /\ "bit" \in Kinds
  BY DEF Kinds
<1>1. /\ Polling(Visible(s)) \in StateRec /\ Polling(Visible(s)).pending = s.pending
      /\ Polling(Visible(s)).tombs = s.tombs
      /\ \A k \in Kinds : Polling(Visible(s)).rows[k] = Seen(k, s.rows[k])
  BY BaseRow
<1>2. /\ t.pending = Polling(Visible(s)).pending
      /\ \A k \in Kinds \ {"time"} : /\ t.rows[k] = Polling(Visible(s)).rows[k]
                                     /\ t.tombs[k] = Polling(Visible(s)).tombs[k]
  BY ClocksShape, Zenon
<1> HIDE DEF t
<1>3. ASSUME NEW k \in ks \ {"time"} PROVE Stands(Kept(t, k))
  <2>1. k \in Kinds /\ Stands(Kept(s, k))
    BY <1>3 DEF Keeps
  <2>2. t.rows[k] = Seen(k, s.rows[k]) /\ t.tombs[k] = s.tombs[k] /\ t.pending = s.pending
    BY <1>1, <1>2, <1>3, <2>1
  <2>3. CASE s.rows[k] = "none"
    BY <2>1, <2>2, <2>3, SeenRules DEF Kept
  <2>4. CASE s.rows[k] # "none"
    <3>1. Kept(s, k) = s.rows[k] /\ Kept(t, k) = Seen(k, s.rows[k])
      BY <2>1, <2>2, <2>4, SeenRules DEF Kept
    <3> QED BY <2>1, <3>1, StandsRules
  <2> QED BY <2>3, <2>4
<1>4. \A k \in {"sensor", "control", "bit"} : t.rows[k] = "none" <=> s.rows[k] = "none"
  BY <1>0, <1>1, <1>2, SeenRules
<1> QED BY <1>0, <1>1, <1>2, <1>3, <1>4 DEF Keeps, Flagged, t

(* Where the platforms are up, a row that is wanted and may be is there.   *)
LEMMA WantedIsThere ==
  ASSUME NEW s \in StateRec, Good(s), NEW ks \in SUBSET Kinds, Keeps(s, ks), Flagged(s),
         NEW k \in ks \ {"time"}, Projecting, Allowed, ZoneOn, ProjectionMayWrite(k),
         k = "bit" => Readable,
         \A p \in Platforms, j \in Kinds : Makes(p, j) => s.rows[j] # "none"
  PROVE  ClocksUp(s).rows[k] = "enabled"
<1>0. "sensor" \in Kinds /\ "control" \in Kinds /\ "bit" \in Kinds /\ k \in Kinds
  BY DEF Kinds
<1>1. /\ \A j \in Kinds : Makes("sensor", j) => s.rows[j] # "none"
      /\ \A j \in Kinds : Makes("binary_sensor", j) => s.rows[j] # "none"
      /\ \A j \in Kinds : Makes("number", j) => s.rows[j] # "none"
  BY DEF Platforms
<1>2. s.rows[k] # "none"
  <2>1. CASE k = "sensor"
    <3>1. ~Typed
      BY <1>0, <1>1, <2>1 DEF Keeps, Makes
    <3> QED BY <1>0, <1>1, <2>1, <3>1 DEF Makes
  <2>2. CASE k = "bit"
    <3>1. Is("bits") /\ found.access # "unknown"
      BY <2>2 DEF Keeps, Readable
    <3> QED BY <1>0, <1>1, <2>2, <3>1 DEF Makes
  <2>3. CASE k = "control"
    <3>1. Typed
      BY <2>3 DEF Keeps, ProjectionMayWrite, WriteAllowed, Typed, AssumedAccess
    <3> QED BY <1>0, <1>1, <2>3, <3>1 DEF Makes
  <2> QED BY <1>0, <2>1, <2>2, <2>3 DEF Kinds
<1>3. Stands(s.rows[k])
  BY <1>2 DEF Keeps, Kept
<1>4. Seen(k, s.rows[k]) = "enabled"
  BY <1>3 DEF Stands, Seen, Projecting
<1>5. ClocksUp(s).rows[k] = Polling(Visible(s)).rows[k]
  BY <1>0, ClocksShape, Zenon
<1> QED BY <1>0, <1>4, <1>5, BaseRow

LEMMA ChoiceInit == EntityInit => ChoiceInv
BY DEF EntityInit, ChoiceInv, Keeps, Flagged, State, NoRows, Kinds, ChoiceStands

LEMMA ChoiceStartup == ASSUME EntityInv, ChoiceInv, StartupFinds PROVE ChoiceInv'
<1>1. /\ UNCHANGED <<case, rows, tombs, pending, polled, wanted>> /\ stage' = "found"
  BY DEF StartupFinds, registry, entityHistory
<1>2. Keeps(State, wanted)' /\ Flagged(State)'
  BY <1>1 DEF ChoiceInv, Keeps, Flagged, Kept, Stands, State, Is
<1> QED BY <1>1, <1>2 DEF ChoiceInv, ChoiceStands

LEMMA ChoiceTidy == ASSUME EntityInv, ChoiceInv, RegistryTidied PROVE ChoiceInv'
<1>1. /\ UNCHANGED <<case, options, found>> /\ stage' = "platforms" /\ todo' = Platforms
      /\ Become(Tidied(State))
      /\ wanted' = Standing(IF Listed THEN Moved(wanted, rows, rows') ELSE wanted)
  BY DEF RegistryTidied
<1>2. /\ State \in StateRec /\ State.pending = "none" /\ OneRow(State) /\ State.rows = rows
      /\ wanted \in SUBSET Kinds
  BY StateIn DEF EntityInv, RegistryTidied, Projected, State, RestTyped
<1> DEFINE t == Tidied(State)
<1>3. t \in StateRec /\ State' = t
  BY <1>1, <1>2, TidiedTyped, BecomeState
<1>4. rows' = t.rows
  BY <1>3 DEF State
<1>5. Flagged(t) /\ Keeps(t, wanted')
  BY <1>1, <1>2, <1>4, KeptTidied DEF ChoiceInv
<1> HIDE DEF t
<1>6. Keeps(State, wanted)' /\ Flagged(State)'
  BY <1>1, <1>3, <1>5 DEF Keeps, Flagged, Kept, Stands, Is
<1> QED BY <1>1, <1>6 DEF ChoiceInv, ChoiceStands

LEMMA ChoicePlatform == ASSUME EntityInv, ChoiceInv, PlatformComesUp PROVE ChoiceInv'
<1>1. PICK p \in todo : todo' = todo \ {p} /\ Become(Up(p, State))
  BY DEF PlatformComesUp
<1>2. /\ UNCHANGED <<case, options, found, stage>> /\ stage = "platforms"
      /\ wanted' = Standing(Moved(wanted, rows, rows'))
  BY DEF PlatformComesUp
<1>3. /\ State \in StateRec /\ Good(State) /\ p \in Platforms /\ State.rows = rows
      /\ wanted \in SUBSET Kinds
  BY <1>2, StateIn DEF EntityInv, Projected, RestTyped, State
<1> DEFINE t == Up(p, State)
<1>4. State' = t
  BY <1>1, <1>3, UpGood, BecomeState
<1>5. rows' = t.rows
  BY <1>4 DEF State
<1>6. Flagged(t) /\ Keeps(t, wanted')
  BY <1>2, <1>3, <1>5, KeptUp DEF ChoiceInv
<1>7. \A k \in Kinds : t.rows[k] = "none" => rows[k] = "none" /\ ~Makes(p, k)
  BY <1>3, UpRow
<1> HIDE DEF t
<1>8. Keeps(State, wanted)' /\ Flagged(State)'
  BY <1>2, <1>4, <1>6 DEF Keeps, Flagged, Kept, Stands, Is
<1>9. ASSUME NEW q \in Platforms \ todo', NEW k \in Kinds, Makes(q, k) PROVE rows'[k] # "none"
  BY <1>1, <1>2, <1>5, <1>7, <1>9 DEF ChoiceInv
<1>10. \A q \in Platforms, k \in Kinds : Makes(q, k)' <=> Makes(q, k)
  BY <1>2, Decided
<1> QED BY <1>2, <1>8, <1>9, <1>10 DEF ChoiceInv, ChoiceStands

LEMMA ChoiceClocks == ASSUME EntityInv, ChoiceInv, ClocksComeUp PROVE ChoiceInv'
<1>1. /\ UNCHANGED <<case, options, found, wanted>> /\ Become(ClocksUp(State))
      /\ stage = "platforms" /\ stage' = "loaded" /\ todo = {}
  BY DEF ClocksComeUp, entityHistory
<1>2. State \in StateRec /\ Good(State) /\ wanted \in SUBSET Kinds
  BY <1>1, StateIn DEF EntityInv, Projected, RestTyped
<1> DEFINE t == ClocksUp(State)
<1>3. t \in StateRec /\ State' = t
  BY <1>1, <1>2, ClocksShape, BecomeState
<1>4. rows' = t.rows
  BY <1>3 DEF State
<1>5. Keeps(t, wanted) /\ Flagged(t)
  BY <1>2, KeptClocks DEF ChoiceInv
<1>6. ASSUME Projecting, Allowed, ZoneOn, NEW k \in wanted \ {"time"}, ProjectionMayWrite(k),
             k = "bit" => Readable
      PROVE  t.rows[k] = "enabled"
  <2>1. \A p \in Platforms, j \in Kinds : Makes(p, j) => State.rows[j] # "none"
    BY <1>1 DEF ChoiceInv, State
  <2> QED BY <1>2, <1>6, <2>1, WantedIsThere DEF ChoiceInv
<1> HIDE DEF t
<1>7. Keeps(State, wanted)' /\ Flagged(State)'
  BY <1>1, <1>3, <1>5 DEF Keeps, Flagged, Kept, Stands, Is
<1>8. /\ Projecting' <=> Projecting
      /\ Allowed' <=> Allowed
      /\ ZoneOn' <=> ZoneOn
      /\ Readable' <=> Readable
      /\ \A k \in Kinds : ProjectionMayWrite(k)' <=> ProjectionMayWrite(k)
  BY <1>1, Decided DEF Readable
<1>9. ChoiceStands'
  BY <1>1, <1>2, <1>4, <1>6, <1>8 DEF ChoiceStands
<1> QED BY <1>1, <1>7, <1>9 DEF ChoiceInv

LEMMA ChoiceUser == ASSUME EntityInv, ChoiceInv, UserDisables \/ UserEnables PROVE ChoiceInv'
<1>1. PICK k \in Kinds : \/ /\ UserDisables /\ rows[k] \in OnOff
                            /\ rows' = [rows EXCEPT ![k] = "user"] /\ wanted' = wanted \ {k}
                         \/ /\ UserEnables /\ rows[k] \in {"user", "integration"}
                            /\ rows' = [rows EXCEPT ![k] = "enabled"]
                            /\ wanted' = wanted \cup {k}
  BY DEF UserDisables, UserEnables, OnOff
<1>2. UNCHANGED <<case, options, found, stage, todo, tombs, pending, polled>>
  BY DEF UserDisables, UserEnables
<1>3. /\ rows \in [Kinds -> RowStates] /\ wanted \in SUBSET Kinds
  BY DEF EntityInv, RowsTyped, RestTyped
<1>4. /\ rows[k] # "none" /\ rows'[k] # "none"
      /\ \A j \in Kinds : j # k => rows'[j] = rows[j]
      /\ k \in wanted' => rows'[k] = "enabled"
      /\ wanted' \ {k} = wanted \ {k}
  BY <1>1, <1>3 DEF OnOff
<1>5. "sensor" \in Kinds /\ "control" \in Kinds /\ "bit" \in Kinds
  BY DEF Kinds
<1>6. Flagged(State)'
  BY <1>2, <1>4, <1>5 DEF ChoiceInv, Flagged, State, Is
<1>7. ASSUME NEW j \in wanted' \ {"time"} PROVE Stands(Kept(State, j))'
  <2>1. CASE j = k
    BY <1>4, <1>7, <2>1 DEF Stands, Kept, State
  <2>2. CASE j # k
    <3>1. Stands(Kept(State, j)) /\ j \in Kinds
      BY <1>3, <1>4, <1>7, <2>2 DEF ChoiceInv, Keeps
    <3> QED BY <1>2, <1>4, <2>2, <3>1 DEF Stands, Kept, State, Is
  <2> QED BY <2>1, <2>2
<1>8. "sensor" \in wanted' => rows'["control"] = "none" /\ pending' # "user"
  <2>1. CASE k = "sensor"
    <3>1. rows["control"] = "none"
      BY <1>4, <2>1 DEF EntityInv, Projected, OneRow, State
    <3>2. pending = "none"
      BY <1>4, <2>1 DEF EntityInv, Projected, Good, Carries, State
    <3> QED BY <1>2, <1>4, <1>5, <2>1, <3>1, <3>2
  <2>2. CASE k # "sensor"
    <3>1. "sensor" \in wanted' => "sensor" \in wanted
      BY <1>4, <2>2
    <3>2. "sensor" \in wanted => rows["control"] = "none" /\ pending # "user"
      BY DEF ChoiceInv, Keeps, State
    <3> QED BY <1>2, <1>4, <1>5, <3>1, <3>2
  <2> QED BY <2>1, <2>2
<1>9. /\ "control" \in wanted' => Is("control")
      /\ "bit" \in wanted' => Is("bits")
  <2>1. /\ rows["control"] # "none" => Is("control")
        /\ rows["bit"] # "none" => Is("bits")
    BY DEF EntityInv, Projected, Owned, ChoiceInv, Flagged, State
  <2>2. /\ "control" \in wanted => Is("control")
        /\ "bit" \in wanted => Is("bits")
    BY DEF ChoiceInv, Keeps
  <2> QED BY <1>4, <2>1, <2>2
<1>10. Keeps(State, wanted)'
  BY <1>2, <1>7, <1>8, <1>9 DEF Keeps, State, Is
<1>11. \A p \in Platforms, j \in Kinds : Makes(p, j)' <=> Makes(p, j)
  BY <1>2, Decided
<1>12. stage' = "platforms" =>
         \A p \in Platforms \ todo', j \in Kinds : Makes(p, j)' => rows'[j] # "none"
  BY <1>2, <1>4, <1>11 DEF ChoiceInv
<1>13. ChoiceStands'
  <2>1. /\ Projecting' <=> Projecting
        /\ Allowed' <=> Allowed
        /\ ZoneOn' <=> ZoneOn
        /\ Readable' <=> Readable
        /\ \A j \in Kinds : ProjectionMayWrite(j)' <=> ProjectionMayWrite(j)
    BY <1>2, Decided DEF Readable
  <2>2. \A j \in wanted' \ {k} : j \in wanted /\ j \in Kinds /\ rows'[j] = rows[j]
    BY <1>3, <1>4
  <2> QED BY <1>2, <1>4, <2>1, <2>2 DEF ChoiceInv, ChoiceStands
<1> QED BY <1>6, <1>10, <1>12, <1>13 DEF ChoiceInv

LEMMA ChoiceExpires == ASSUME EntityInv, ChoiceInv, RegisterExpires PROVE ChoiceInv'
<1>1. /\ UNCHANGED <<case, options, found, stage, todo, tombs, pending, polled>>
      /\ stage = "loaded"
      /\ wanted' = wanted \ {"sensor", "control", "time"}
      /\ rows' = [k \in Kinds |-> IF k # "bit" /\ rows[k] = "enabled" THEN "integration"
                                  ELSE rows[k]]
  BY DEF RegisterExpires
<1>2. wanted' \subseteq {"bit"} /\ wanted' \subseteq wanted /\ rows'["bit"] = rows["bit"]
  BY <1>1 DEF EntityInv, RestTyped, Kinds
<1>3. Keeps(State, wanted)' /\ Flagged(State)'
  BY <1>1, <1>2 DEF ChoiceInv, Keeps, Flagged, Kept, Stands, State, Is
<1>4. ChoiceStands'
  <2>1. /\ Projecting' <=> Projecting
        /\ Allowed' <=> Allowed
        /\ ZoneOn' <=> ZoneOn
        /\ Readable' <=> Readable
        /\ ProjectionMayWrite("bit")' <=> ProjectionMayWrite("bit")
    BY <1>1, Decided DEF Readable, Kinds
  <2> QED BY <1>1, <1>2, <2>1 DEF ChoiceInv, ChoiceStands
<1> QED BY <1>1, <1>3, <1>4 DEF ChoiceInv

LEMMA ChoiceGone ==
  ASSUME EntityInv, ChoiceInv, EntityReload \/ OptionsSaved \/ EntityCrash PROVE ChoiceInv'
<1>1. /\ UNCHANGED <<case, found, rows, tombs>> /\ stage' = "down" /\ pending' = "none"
  BY DEF EntityReload, OptionsSaved, EntityCrash, CoordinatorGone
<1>2. /\ wanted' \subseteq wanted
      /\ pending # "none" => "sensor" \notin wanted'
  <2>1. CASE EntityCrash
    BY <2>1 DEF EntityCrash
  <2>2. CASE EntityReload \/ OptionsSaved
    BY <2>2 DEF EntityReload, OptionsSaved, EntityInv, Projected
  <2> QED BY <2>1, <2>2
<1>3. Keeps(State, wanted)' /\ Flagged(State)'
  BY <1>1, <1>2 DEF ChoiceInv, Keeps, Flagged, Kept, Stands, State, Is
<1> QED BY <1>1, <1>3 DEF ChoiceInv, ChoiceStands

LEMMA ChoiceStep == EntityInv /\ ChoiceInv /\ [EntityNext]_entityVars => ChoiceInv'
<1> SUFFICES ASSUME EntityInv, ChoiceInv, [EntityNext]_entityVars PROVE ChoiceInv'
  OBVIOUS
<1>1. ASSUME UNCHANGED entityVars PROVE ChoiceInv'
  <2>1. UNCHANGED <<case, options, found, stage, todo, rows, tombs, pending, polled, wanted>>
    BY <1>1 DEF entityVars, registry, entityHistory
  <2>2. Keeps(State, wanted)' /\ Flagged(State)'
    BY <2>1 DEF ChoiceInv, Keeps, Flagged, Kept, Stands, State, Is
  <2>3. /\ Projecting' <=> Projecting
        /\ Allowed' <=> Allowed
        /\ ZoneOn' <=> ZoneOn
        /\ Readable' <=> Readable
        /\ \A k \in Kinds : ProjectionMayWrite(k)' <=> ProjectionMayWrite(k)
        /\ \A p \in Platforms, k \in Kinds : Makes(p, k)' <=> Makes(p, k)
    BY <2>1, Decided DEF Readable
  <2>4. wanted \in SUBSET Kinds
    BY DEF EntityInv, RestTyped
  <2> QED BY <2>1, <2>2, <2>3, <2>4 DEF ChoiceInv, ChoiceStands
<1> QED BY <1>1, ChoiceStartup, ChoiceTidy, ChoicePlatform, ChoiceClocks, ChoiceUser,
           ChoiceExpires, ChoiceGone DEF EntityNext

(* What the user enabled is enabled again after every setup in which the   *)
(* gates are open: until then the row, its tombstone or the migration      *)
(* remembers it.                                                           *)
THEOREM ChoicesStand == EntitySpec => []ChoiceStands
<1>1. EntityInv /\ ChoiceInv /\ [EntityNext]_entityVars => ChoiceInv'
  BY ChoiceStep
<1>2. ChoiceInv => ChoiceStands
  BY DEF ChoiceInv
<1> QED BY <1>1, <1>2, ChoiceInit, EntitySafe, PTL DEF EntitySpec
=============================================================================
