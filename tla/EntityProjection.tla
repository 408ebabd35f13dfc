--------------------------- MODULE EntityProjection ---------------------------
(***************************************************************************)
(* The registry rows of one catalog register through the setups of its     *)
(* entry (register_entities.py and the async_setup_entry of each platform). *)
(* Registers do not influence each other, so one stands for all.  A setup   *)
(* migrates rows, then the platforms come up in some order, each of them    *)
(* hiding, enabling, migrating, creating and restoring rows in one go, and   *)
(* the clock companions come last.  The user enables and disables rows in   *)
(* Home Assistant's registry and changes the entry's options.               *)
(***************************************************************************)
EXTENDS FiniteSets

CONSTANT EntityCases   \* registers, options and findings looked at together

Traits == {"filtered",   \* diagnostic, or in an optional filter
           "control",    \* a number, select or switch could write it
           "clock",      \* its number has a clock companion
           "bits",       \* a bitfield with one-bit flags
           "default",    \* recommended, or readable at level 0
           "zoned",      \* belongs to a CP020 slot
           "declared"}   \* declared writable by its source
Choices == {"none", "reset", "on", "off"}
EntityEvents == {"user", "polling", "reload", "crash", "options"}

(* The entry's options as far as they decide about the register: its filter  *)
(* category, the picker's choice of the row, the choice for its group or    *)
(* node, the write option, and read access configured at level 1.  A choice *)
(* put back to the default stays in the options, as "reset".                *)
Options == [filter : BOOLEAN, pick : Choices, scope : Choices, writes : BOOLEAN, level1 : BOOLEAN]

(* What the startup found: the access level that was confirmed, whether the *)
(* object exists on the appliance, and the slot.  A zone whose projection    *)
(* could not be saved is withheld.  A slot whose state is not known is kept *)
(* by a record that names the row, or is unheard of; kept by its record but  *)
(* strange is one that answers with a function Core does not know.          *)
Findings == [access : {"unknown", "short", "reads", "writes"}, observed : BOOLEAN,
             zone : {"active", "withheld", "disabled", "kept", "strange", "unheard"}]

ASSUME EntityAssumption ==
    EntityCases \subseteq [traits : SUBSET Traits, options : SUBSET Options,
                           findings : SUBSET Findings, happens : SUBSET EntityEvents]

Kinds == {"sensor", "bit", "control", "time"}
RowStates == {"none", "enabled", "integration", "user"}

(* The platforms forwarded first; a control belongs to one of the last      *)
(* three, here the number, and the other two only tidy up.                  *)
Platforms == {"sensor", "binary_sensor", "number", "select", "switch"}

VARIABLES
    case,       \* the case of this behaviour; it never changes
    options,    \* the options saved
    found,      \* what the coordinator of this setup found
    stage,      \* the config entry; in "platforms" those of todo are still to come
    todo,
    rows,       \* disabled_by of the register's row of each kind
    tombs,      \* rows that were removed, as HA keeps them
    pending,    \* _openrbus_sensor_migrations: disabled_by of a migrated control
    polled,     \* the register is in its polling group
    refused,    \* history: rows the user disabled last
    wanted,     \* history: rows the user enabled last, and no later choice took back
    expected    \* history: the rows this setup ends with if nobody interferes

registry == <<rows, tombs, pending>>
entityHistory == <<refused, wanted, expected>>
entityVars == <<case, options, found, stage, todo, registry, polled, entityHistory>>

NoRows == [k \in Kinds |-> "none"]

EntityTypeOK ==
    /\ case \in EntityCases /\ options \in case.options /\ found \in case.findings
    /\ stage \in {"down", "found", "platforms", "loaded"} /\ todo \subseteq Platforms
    /\ rows \in [Kinds -> RowStates] /\ tombs \in [Kinds -> RowStates]
    /\ pending \in {"none", "default", "enabled", "user"}
    /\ polled \in BOOLEAN
    /\ refused \subseteq Kinds /\ wanted \subseteq Kinds
    /\ expected \in [Kinds -> RowStates]

EntityInit ==
    /\ case \in EntityCases /\ options \in case.options /\ found \in case.findings
    /\ stage = "down" /\ todo = {}
    /\ rows = NoRows /\ tombs = NoRows /\ pending = "none" /\ polled = FALSE
    /\ refused = {} /\ wanted = {} /\ expected = NoRows

-----------------------------------------------------------------------------
(* What the rows are decided by. *)

Is(trait) == trait \in case.traits

(* An unread level counts as level 1 if no more is configured. *)
AssumedAccess == IF found.access = "unknown" /\ options.level1 THEN "writes" ELSE found.access
Allowed == AssumedAccess \in {"reads", "writes"}
Readable == found.access \in {"reads", "writes"}
WriteAllowed(access) == options.writes /\ access = "writes"
Typed == Is("control") /\ WriteAllowed(AssumedAccess)

ZoneOn == Is("zoned") => found.zone = "active"
Listed == Is("zoned") => found.zone \in {"active", "kept", "strange"}
Withheld == Is("zoned") /\ found.zone = "withheld"
Strange == Is("zoned") /\ found.zone = "strange"
Retired == Is("zoned") /\ found.zone \in {"disabled", "unheard"}
CategoryVisible == Is("filtered") => options.filter
Projecting == Listed /\ CategoryVisible
Unobserved == Is("declared") /\ ~found.observed

(* The picker's choice is that of the register's own rows; a flag has none. *)
PickOf(k) == IF k = "bit" THEN "none" ELSE options.pick
Override(k) == IF PickOf(k) \in {"on", "off"} THEN PickOf(k) ELSE options.scope
EnabledByDefault(k) ==
    /\ ZoneOn
    /\ \/ Override(k) = "on"
       \/ Override(k) \in {"none", "reset"} /\ ~Unobserved /\ Is("default")

(* A sensor is read only; the projections that write need the confirmed level. *)
ProjectionMayWrite(k) == Is("control") /\ k \notin {"sensor", "bit"} => WriteAllowed(found.access)

-----------------------------------------------------------------------------
(* The steps of a setup, on s = [rows, tombs, pending, polled]. *)

State == [rows |-> rows, tombs |-> tombs, pending |-> pending, polled |-> polled]
Become(s) == rows' = s.rows /\ tombs' = s.tombs /\ pending' = s.pending /\ polled' = s.polled

Removed(s, ks) ==
    LET gone == {k \in ks : s.rows[k] # "none"}
    IN  [s EXCEPT !.rows = [k \in Kinds |-> IF k \in gone THEN "none" ELSE @[k]],
                  !.tombs = [k \in Kinds |-> IF k \in gone THEN s.rows[k] ELSE @[k]]]

(* An entity without a row gets the one that was removed, or a new one.     *)
Created(s, k, enabled) ==
    IF s.rows[k] # "none" THEN s
    ELSE [s EXCEPT !.rows[k] = IF s.tombs[k] # "none" THEN s.tombs[k]
                               ELSE IF enabled THEN "enabled" ELSE "integration",
                   !.tombs[k] = "none"]

(* async_apply_diagnostic_visibility; it knows nothing of clock companions. *)
Visible(s) ==
    LET hidden(k) == ~CategoryVisible /\ s.rows[k] = "enabled"
        shown(k) == /\ CategoryVisible /\ s.rows[k] = "integration"
                    /\ Allowed /\ ZoneOn /\ ProjectionMayWrite(k)
    IN  IF Is("filtered") /\ Listed
        THEN [s EXCEPT !.rows = [k \in Kinds |->
                CASE k # "time" /\ hidden(k) -> "integration"
                  [] k # "time" /\ shown(k)  -> "enabled"
                  [] OTHER                   -> @[k]]]
        ELSE s

\* A slip: the absence of the register also takes back the user's choice.
Retained_Zones(k) == Is("zoned") /\ found.zone = "kept"
(* A row that no option names stays enabled while its slot is unread, and    *)
(* while only the register's absence speaks against it.                     *)
Retained(k) ==
    \/ Is("zoned") /\ found.zone = "kept"
    \/ Unobserved /\ k # "bit" /\ Allowed /\ CategoryVisible /\ ZoneOn

(* async_apply_entity_overrides. *)
Overridden(s) ==
    LET chosen(k) == PickOf(k) # "none" \/ options.scope # "none"
        considered(k) == /\ k # "time"
                         /\ IF Listed THEN chosen(k) \/ (Unobserved /\ k # "bit")
                                      ELSE PickOf(k) # "none"
        should(k) == /\ Listed /\ EnabledByDefault(k) /\ Allowed /\ CategoryVisible
                     /\ ProjectionMayWrite(k)
    IN  [s EXCEPT !.rows = [k \in Kinds |->
            CASE considered(k) /\ ~should(k) /\ @[k] = "enabled" /\ (chosen(k) \/ ~Retained(k))
                                                                  -> "integration"
              [] considered(k) /\ should(k) /\ @[k] = "integration" -> "enabled"
              [] OTHER                                            -> @[k]]]

\* A slip: the sensor that replaces a control starts from its own default.
CarriedOver_Nothing(state, before) == "default"
\* A slip: what the integration disabled is carried over as well.
CarriedOver_All(state, before) == IF before \in {"enabled", "user"} THEN before ELSE state
(* What is remembered of a control that is replaced by a sensor. *)
CarriedOver(state, before) ==
    IF before \in {"enabled", "user"} THEN before
    ELSE IF state = "integration" THEN "default" ELSE state

\* A slip: only sensors that became controls are replaced, as at first.
Migrated_Sensors(s) == IF Projecting /\ Typed THEN Removed(s, {"sensor"}) ELSE s
(* cleanup_legacy_sensor_entities: a row of the other projection goes. *)
Migrated(s) ==
    IF ~Projecting THEN s
    ELSE IF Typed THEN Removed(s, {"sensor"})
    ELSE IF s.rows["control"] = "none" THEN s
    ELSE Removed([s EXCEPT !.pending = CarriedOver(s.rows["control"], @)], {"control"})

(* restore_migrated_sensor_entities. *)
Restored(s) ==
    IF s.pending = "none" \/ s.rows["sensor"] = "none" THEN s
    ELSE [s EXCEPT !.rows["sensor"] = IF s.pending = "default" THEN @ ELSE s.pending,
                   !.pending = "none"]

(* The row itself is a reason to read the register. *)
OptsIn(s, ks) ==
    \E k \in ks : /\ s.rows[k] = "enabled" /\ Override(k) # "off"
                  /\ k \in {"control", "time"} => WriteAllowed(found.access)

\* A slip: the groups are made up by the platform that comes up first.
Joined_First(s, selected) == IF todo = Platforms THEN selected ELSE s.polled
Joined(s, selected) == s.polled \/ selected

(* ensure_polling_coordinators: registers are added to a group, never taken. *)
Polling(s) ==
    LET present == ~Unobserved \/ EnabledByDefault("sensor") \/ OptsIn(s, Kinds)
        safe == IF Is("control") \/ Is("bits") THEN Readable
                ELSE \/ Is("default") \/ EnabledByDefault("sensor")
                     \/ Readable /\ OptsIn(s, {"sensor", "bit"})
    IN  [s EXCEPT !.polled = Joined(s, Projecting /\ Allowed /\ ZoneOn /\ present /\ safe)]

SensorsUp(s) ==
    LET t == Polling(Migrated(Overridden(Visible(s))))
        creates == Projecting /\ ~Typed /\ t.rows["control"] = "none"
    IN  Restored(IF creates THEN Created(t, "sensor", EnabledByDefault("sensor")) ELSE t)

FlagsUp(s) ==
    LET t == Polling(Visible(s))
        creates == Is("bits") /\ Projecting /\ Allowed /\ ZoneOn /\ found.access # "unknown"
    IN  Migrated(IF creates THEN Created(t, "bit", EnabledByDefault("bit")) ELSE t)

ControlsUp(s) ==
    LET t == Polling(Visible(s))
        creates == Typed /\ Projecting
    IN  Migrated(IF creates THEN Created(t, "control", EnabledByDefault("control")) ELSE t)

Up(p, s) ==
    CASE p = "sensor"        -> SensorsUp(s)
      [] p = "binary_sensor" -> FlagsUp(s)
      [] p = "number"        -> ControlsUp(s)
      [] OTHER               -> Migrated(Polling(Visible(s)))

\* A slip: the clock platform relies on what the others showed.
Refreshed_Polling(s) == Polling(s)
Refreshed(s) == Polling(Visible(s))

(* time.py: a companion for an enabled number, or one that is enabled itself. *)
ClocksUp(s) ==
    LET t == Refreshed(s)
        numbered == t.rows["control"] = "enabled"
    IN  IF ~(Is("clock") /\ Projecting) THEN t
        ELSE IF ~ZoneOn
        THEN [t EXCEPT !.rows["time"] = IF @ = "enabled" THEN "integration" ELSE @]
        ELSE IF Typed /\ (numbered \/ t.rows["time"] = "enabled")
        THEN Created([t EXCEPT !.rows["time"] =
                          IF numbered /\ @ = "integration" THEN "enabled" ELSE @], "time", TRUE)
        ELSE t

-----------------------------------------------------------------------------
(* What the user said of a control goes to the sensor that replaces it,      *)
(* unless the row says otherwise by then, and what was said of a sensor      *)
(* lapses when a control takes its place.                                    *)
Moved(ks, before, after) ==
    IF after["control"] # "none" THEN ks \ {"sensor"}
    ELSE IF before["control"] = "none" \/ "control" \notin ks THEN ks
    ELSE (ks \ {"control"}) \cup IF before["control"] # "integration" THEN {"sensor"} ELSE {}

(* What the user enabled stands where no option names it.  For an absent     *)
(* register it falls when that cannot be read, or its slot is strange.       *)
Standing(ks) == {k \in ks : /\ PickOf(k) = "none" /\ options.scope = "none"
                            /\ Unobserved => Allowed /\ ~Strange}

(* cleanup_inactive_zone_entities, then the migration. *)
Tidied(s) == Migrated(IF Retired THEN Removed(s, Kinds) ELSE s)
SetUp(s) ==
    ClocksUp(Up("switch", Up("select", Up("number", Up("binary_sensor", Up("sensor", s))))))

(* The coordinator's startup is complete. *)
StartupFinds ==
    /\ stage = "down" /\ stage' = "found"
    /\ found' \in case.findings
    /\ UNCHANGED <<case, options, todo, registry, polled, entityHistory>>

(* async_setup_entry retires rows of slots that are none and migrates the    *)
(* others before any platform is forwarded.                                  *)
RegistryTidied ==
    /\ stage = "found" /\ stage' = "platforms" /\ todo' = Platforms
    /\ Become(Tidied(State))
    /\ refused' = IF Listed THEN Moved(refused, rows, rows') ELSE refused
    /\ wanted' = Standing(IF Listed THEN Moved(wanted, rows, rows') ELSE wanted)
    /\ expected' = SetUp(Tidied(State)).rows
    /\ UNCHANGED <<case, options, found>>

PlatformComesUp ==
    /\ stage = "platforms"
    /\ \E p \in todo : todo' = todo \ {p} /\ Become(Up(p, State))
    /\ refused' = Moved(refused, rows, rows') /\ wanted' = Standing(Moved(wanted, rows, rows'))
    /\ UNCHANGED <<case, options, found, stage, expected>>

ClocksComeUp ==
    /\ stage = "platforms" /\ todo = {} /\ stage' = "loaded"
    /\ Become(ClocksUp(State))
    /\ UNCHANGED <<case, options, found, todo, entityHistory>>

-----------------------------------------------------------------------------
(* Home Assistant and the user. *)

UserDisables ==
    /\ "user" \in case.happens
    /\ \E k \in Kinds : /\ rows[k] \in {"enabled", "integration"}
                        /\ rows' = [rows EXCEPT ![k] = "user"]
                        /\ refused' = refused \cup {k} /\ wanted' = wanted \ {k}
    /\ expected' = NoRows
    /\ UNCHANGED <<case, options, found, stage, todo, tombs, pending, polled>>

UserEnables ==
    /\ "user" \in case.happens
    /\ \E k \in Kinds : /\ rows[k] \in {"user", "integration"}
                        /\ rows' = [rows EXCEPT ![k] = "enabled"]
                        /\ refused' = refused \ {k} /\ wanted' = wanted \cup {k}
    /\ expected' = NoRows
    /\ UNCHANGED <<case, options, found, stage, todo, tombs, pending, polled>>

(* RegisterPolling: an expired register has its rows disabled. *)
RegisterExpires ==
    /\ "polling" \in case.happens /\ stage = "loaded" /\ polled
    /\ rows' = [k \in Kinds |-> IF k # "bit" /\ rows[k] = "enabled" THEN "integration" ELSE rows[k]]
    /\ wanted' = wanted \ {"sensor", "control", "time"} /\ expected' = NoRows
    /\ UNCHANGED <<case, options, found, stage, todo, tombs, pending, polled, refused>>

(* The coordinator is gone, with its polling groups and migrations. *)
CoordinatorGone ==
    /\ stage' = "down" /\ todo' = {}
    /\ pending' = "none" /\ polled' = FALSE /\ expected' = NoRows
    /\ UNCHANGED <<case, found, rows, tombs>>

EntityReload ==
    /\ "reload" \in case.happens /\ stage = "loaded"
    /\ CoordinatorGone
    /\ UNCHANGED <<options, refused, wanted>>

(* Saved options reload the entry. *)
OptionsSaved ==
    /\ "options" \in case.happens /\ stage = "loaded"
    /\ options' \in case.options \ {options}
    /\ CoordinatorGone
    /\ UNCHANGED <<refused, wanted>>

(* Home Assistant stops in the middle of a setup. *)
EntityCrash ==
    /\ "crash" \in case.happens /\ stage = "platforms"
    /\ CoordinatorGone
    /\ LET forgotten == IF pending = "none" THEN {} ELSE {"sensor"}
       IN  refused' = refused \ forgotten /\ wanted' = wanted \ forgotten
    /\ UNCHANGED options

EntityNext ==
    \/ StartupFinds \/ RegistryTidied \/ PlatformComesUp \/ ClocksComeUp
    \/ UserDisables \/ UserEnables \/ RegisterExpires
    \/ EntityReload \/ OptionsSaved \/ EntityCrash

EntitySpec == EntityInit /\ [][EntityNext]_entityVars

-----------------------------------------------------------------------------
(* Properties. *)

(* A row that the user disabled stays disabled through every setup: filters,   *)
(* picker, migration, removal and return of a slot leave it, and a control's   *)
(* refusal goes over to the sensor that replaces it                            *)
(* (docs/entity-overrides.md:43, 54, 71).                                      *)
RefusalStands ==
    stage = "loaded" => \A k \in refused : rows[k] # "enabled"

(* A row that the user enabled, and that no option names, is enabled after     *)
(* every setup in which the gates are open: the level confirmed allows it, its *)
(* category is shown, its slot is a zone.  Setups in between may have found a   *)
(* level not read, a category hidden, a slot unread, retired or withheld, or    *)
(* the register absent (CHANGELOG.md:50-52).  What does revoke it is an absent  *)
(* register without access or in a strange slot: see Standing.  Flags are not   *)
(* even made for a level not read.                                             *)
ChoiceStands ==
    (stage = "loaded" /\ Projecting /\ Allowed /\ ZoneOn) =>
        \A k \in wanted \ {"time"} :
            ProjectionMayWrite(k) /\ (k = "bit" => Readable) => rows[k] = "enabled"

(* At the end of a setup a register has one projection at most: a control only *)
(* where writing is allowed, and nothing of a category that is off.  The rows of *)
(* a withheld slot wait as they are.                                           *)
ProjectionsFit ==
    [][stage = "platforms" /\ stage' = "loaded" =>
          LET on == {k \in Kinds : rows'[k] = "enabled"} IN
          /\ ~({"sensor", "control"} \subseteq on)
          /\ Withheld \/ ("control" \in on => Typed)
          /\ Withheld \/ CategoryVisible \/ on \subseteq {"time"}]_entityVars

(* No row is left enabled without a poller: what the user may see and no option *)
(* excludes is read, if the appliance has it.  What it has not is read for a     *)
(* choice in the options (docs/entity-overrides.md:46-58).                      *)
EnabledIsPolled ==
    [][stage = "platforms" /\ stage' = "loaded" =>
          (Projecting /\ Readable /\ ZoneOn /\ (Unobserved => Override("sensor") = "on")
             /\ OptsIn([rows |-> rows'], Kinds \ {"time"}) => polled')]_entityVars

(* The platforms may come up in any order: the rows are the same in the end.   *)
(* Of an absent register in a strange slot a row that returns is disabled only   *)
(* if it is there before the sensor platform applies the overrides.             *)
OrderIsFree ==
    /\ stage = "loaded" /\ expected # NoRows /\ options.pick = "none" /\ options.scope = "none"
    /\ ~(Unobserved /\ Strange)
    => rows = expected
=============================================================================
