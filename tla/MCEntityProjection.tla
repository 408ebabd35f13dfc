------------------------- MODULE MCEntityProjection -------------------------
(* Model-checking instance of EntityProjection.                            *)
EXTENDS EntityProjection

MCOptions(filters, picks, scopes, writes, level1) ==
    [filter : filters, pick : picks, scope : scopes, writes : writes, level1 : level1]
MCFindings(access, observed, zones) == [access : access, observed : observed, zone : zones]

Shown == {TRUE}
Plain == {"none"}
Everything == {"user", "polling", "reload", "crash", "options"}

(* A number of the heat generator, with writing on and off.                *)
Control ==
    [traits   |-> {"control", "default"},
     options  |-> MCOptions(Shown, Plain, Plain, BOOLEAN, {FALSE}),
     findings |-> MCFindings({"unknown", "short", "reads", "writes"}, {TRUE}, {"active"}),
     happens  |-> Everything]
(* One that the catalog infers, and the appliance has or not.              *)
Inferred ==
    [traits   |-> {"control", "default", "declared"},
     options  |-> MCOptions(Shown, {"none", "on"}, Plain, BOOLEAN, {FALSE}),
     findings |-> MCFindings({"unknown", "writes"}, BOOLEAN, {"active"}),
     happens  |-> Everything]
(* The same read at level 1, with the picker's and the group's choice.     *)
Basic ==
    [traits   |-> {"control", "default", "declared"},
     options  |-> MCOptions(Shown, Choices, {"none", "reset", "off"}, {TRUE}, {TRUE}),
     findings |-> MCFindings({"unknown", "writes"}, BOOLEAN, {"active"}),
     happens  |-> {"user", "reload", "options"}]
(* A control of an optional filter.                                        *)
Filtered ==
    [traits   |-> {"filtered", "control", "declared"},
     options  |-> MCOptions(BOOLEAN, Plain, Plain, BOOLEAN, {FALSE}),
     findings |-> MCFindings({"unknown", "writes"}, BOOLEAN, {"active"}),
     happens  |-> Everything]
(* A clock value of a zone, whose slot comes and goes.                     *)
Zone ==
    [traits   |-> {"zoned", "control", "clock", "default"},
     options  |-> MCOptions(Shown, Plain, Plain, BOOLEAN, {FALSE}),
     findings |-> MCFindings({"writes"}, {TRUE}, {"active", "withheld", "disabled", "kept", "strange"}),
     happens  |-> {"user", "options"}]
InferredZone ==
    [traits   |-> {"zoned", "control", "declared", "default"},
     options  |-> MCOptions(Shown, {"none", "on"}, Plain, {TRUE}, {FALSE}),
     findings |-> MCFindings({"writes"}, BOOLEAN, {"active", "withheld", "disabled", "kept", "strange", "unheard"}),
     happens  |-> {"user", "reload", "options"}]
(* Flags of a zone's diagnostic bitfield, read at level 1 or not at all.   *)
Flags ==
    [traits   |-> {"bits", "filtered", "zoned"},
     options  |-> MCOptions(BOOLEAN, Plain, {"none", "off"}, {TRUE}, {TRUE}),
     findings |-> MCFindings({"unknown", "reads"}, {TRUE}, {"active", "kept", "unheard"}),
     happens  |-> {"user", "polling", "options"}]
(* A reading that is not recommended.                                      *)
Reading ==
    [traits   |-> {},
     options  |-> MCOptions(Shown, {"none", "on", "off"}, {"none", "on"}, {FALSE}, BOOLEAN),
     findings |-> MCFindings({"unknown", "short", "reads"}, {TRUE}, {"active"}),
     happens  |-> Everything]

MCCases == {Control, Inferred, Basic, Filtered, Zone, InferredZone, Flags, Reading}
=============================================================================
