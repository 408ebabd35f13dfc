--------------------------- MODULE RegisterPolling ---------------------------
(***************************************************************************)
(* One polling coordinator (coordinator.py, OpenRBusPollingCoordinator):   *)
(* the registers it reads in chunks through the backend, the validity      *)
(* tracker that learns from every answer (validity.py), the entity         *)
(* registry rows it disables, and the control writes whose read-back it    *)
(* publishes (register_entities.py, _async_write).  An action is the code  *)
(* between two awaits.                                                     *)
(*                                                                         *)
(* Callers enter the backend one at a time in the order they asked for     *)
(* its read lock (asyncio.Lock is fair); queue holds them, the head is     *)
(* the one served.  Ages are in ticks and stop growing at Period.          *)
(***************************************************************************)
EXTENDS Integers, Sequences, FiniteSets

CONSTANTS
    Registers,       \* (node, address) keys of one node, numbered in poll order
    Zoned,           \* those that belong to a zone slot
    Rows,            \* [Registers -> set of platforms with an entity row]
    Required,        \* [Registers -> level the catalog asks of a write]
    Pollers,         \* refreshes that may be under way together
    Writers,         \* control writes that may be under way together
    BatchSize,       \* _POLL_BATCH_SIZE
    Period,          \* RegisterValidityTracker.invalid_for
    Scopes, NoScope, \* (access, identity, generation, epoch); not established
    WriteLevel,      \* configured_write_access_level, 0 for no writes
    AccessLevel,     \* configured_access_level
    Environments     \* what may happen around it: each behaviour has one of these

OutsideEvents == {"reactivate", "user", "zone", "session", "shutdown", "reload", "platform"}

(* What one read of one object comes to.  "unsupported" is an abort with a *)
(* fixed category, "garbled" a visible string that is not ASCII, "item"    *)
(* any other abort or unclassified error of the object; "broken" any error *)
(* of the link, the batch, the decoding or the correlation.                *)
Values == {"valid", "sentinel"}
ItemErrors == {"unsupported", "item"}
Deterministic == {"unsupported", "garbled"}
DeviceAnswers == Values \cup ItemErrors \cup {"garbled", "broken"}
Answers == DeviceAnswers \cup {"lost", "none"}   \* "lost": a session error, before recovery

ASSUME PollAssumption ==
    /\ Registers \subseteq Nat /\ IsFiniteSet(Registers) /\ Zoned \subseteq Registers
    /\ DOMAIN Rows = Registers /\ Required \in [Registers -> 0..3]
    /\ BatchSize \in Nat \ {0} /\ Period \in Nat \ {0}
    /\ NoScope \notin Scopes /\ Pollers \cap Writers = {}
    /\ WriteLevel \in 0..3 /\ AccessLevel \in 1..3
    /\ Environments \subseteq
          [happens : SUBSET OutsideEvents,    \* events from outside
           callers : SUBSET (Pollers \cup Writers),
           registers : SUBSET Registers,      \* asked for when the entry is set up
           answers : [Registers -> SUBSET DeviceAnswers],  \* by the device
           levels : SUBSET (0..3)]            \* access levels it may be known to have

NoTimer == -1
Callers == Pollers \cup Writers
RowStates == {"enabled", "integration", "user"}  \* disabled_by

VARIABLES
    env,          \* the environment of this behaviour; it never changes
    registers,    \* self.registers
    data,         \* self.data: the last answer published per register
    invalid,      \* _invalid: age of the sentinel interval
    itemErrors,   \* _item_errors: age of the object-error interval
    expired,      \* _expired
    quarantined,  \* _quarantined: the scope of the record
    rows,         \* entity registry rows
    scope,        \* what _object_failure_scope returns
    zoneUp,       \* zone_is_active
    level,        \* effective_access_levels[node], 0 when not known
    captured,     \* the level the entities were created with
    shutting,     \* parent._shutting_down
    poll,         \* each refresh: await, rest, chunk, scope taken, results
    write,        \* each control write: await and register
    queue,        \* holders of and waiters for the backend's read lock
    validAge,     \* history: age of the last valid value a poll brought
    brokenAge,    \* history: age of the last answer that breaks an error interval
    failedNow     \* history: deterministic failures answered in the present scope

tracker == <<invalid, itemErrors, expired, quarantined>>
history == <<validAge, brokenAge, failedNow>>
session == <<scope, zoneUp, level, captured, shutting>>
vars == <<env, registers, data, tracker, rows, session, poll, write, queue, history>>

Idle == [at |-> "idle", todo |-> {}, chunk |-> {}, scope |-> NoScope,
         result |-> [r \in Registers |-> "none"]]
(* An entity's set method, or the write_object service. *)
Origins == {"entity", "service"}
NoWrite == [at |-> "idle", by |-> "entity", register |-> 0]

PollTypeOK ==
    /\ env \in Environments
    /\ registers \subseteq Registers
    /\ data \in [Registers -> Answers \ {"lost"}]
    /\ invalid \in [Registers -> NoTimer..Period]
    /\ itemErrors \in [Registers -> NoTimer..Period]
    /\ expired \subseteq Registers
    /\ quarantined \in [Registers -> Scopes \cup {NoScope}]
    /\ rows = [r \in Registers |-> rows[r]]
    /\ \A r \in Registers : rows[r] \in [Rows[r] -> RowStates]
    /\ scope \in Scopes \cup {NoScope}
    /\ zoneUp \in BOOLEAN /\ shutting \in BOOLEAN /\ level \in 0..3 /\ captured \in 0..3
    /\ poll \in [Pollers -> [at : {"idle", "next", "read", "recover"},
                             todo : SUBSET Registers, chunk : SUBSET Registers,
                             scope : Scopes \cup {NoScope}, result : [Registers -> Answers]]]
    /\ write \in [Writers -> [at : {"idle", "level", "write", "readback"},
                              by : Origins, register : Registers \cup {0}]]
    /\ queue \in Seq(Callers)
    /\ validAge \in [Registers -> 0..Period] /\ brokenAge \in [Registers -> 0..Period]
    /\ failedNow \subseteq Registers

(* Without a proven level entities are created at level 1, if that is all that   *)
(* was asked for.                                                             *)
CapturedLevel(l) == IF l = 0 /\ AccessLevel = 1 THEN 1 ELSE l

(* A tracker that has seen nothing. *)
NoTimers == [r \in Registers |-> NoTimer]
NoRecords == [r \in Registers |-> NoScope]

PollInit ==
    /\ env \in Environments
    /\ registers = env.registers
    /\ data = [r \in Registers |-> "none"]
    /\ invalid = NoTimers /\ itemErrors = NoTimers
    /\ expired = {} /\ quarantined = NoRecords
    /\ rows = [r \in Registers |-> [x \in Rows[r] |-> "enabled"]]
    /\ scope \in Scopes \cup {NoScope} /\ level \in env.levels
    /\ zoneUp \in {TRUE, "zone" \notin env.happens}
    /\ captured = CapturedLevel(level) /\ shutting = FALSE
    /\ poll = [p \in Pollers |-> Idle]
    /\ write = [w \in Writers |-> NoWrite]
    /\ queue = <<>>
    /\ validAge = [r \in Registers |-> 0] /\ brokenAge = [r \in Registers |-> 0]
    /\ failedNow = {}

Serves(c) == queue # <<>> /\ Head(queue) = c

-----------------------------------------------------------------------------
(* The choice of what to read. *)

ZoneAllows(r) == r \in Zoned => zoneUp

\* A slip: one disabled row is enough to stop reading.
ShouldPoll_AllRows(r) == \A x \in Rows[r] : rows[r][x] = "enabled"
\* At least one row of the register is enabled, or it has none yet.
ShouldPoll(r) == Rows[r] = {} \/ \E x \in Rows[r] : rows[r][x] = "enabled"

Considered == {r \in registers \ expired : ZoneAllows(r) /\ ShouldPoll(r)}
\* A slip: the scope is not compared.
StillQuarantined_AnyScope(r) == quarantined[r] # NoScope
StillQuarantined(r) == quarantined[r] # NoScope /\ quarantined[r] = scope

\* A slip: a record of an old scope is passed by, but kept.
Released_Nothing == {}
\* is_quarantined drops a record of another scope, and its timers.
Released == {r \in Considered : quarantined[r] \notin {NoScope, scope}}

PollBegins(p) ==
    /\ poll[p].at = "idle" /\ p \in env.callers
    /\ IF shutting
       THEN /\ data' = [r \in Registers |-> "none"]
            /\ UNCHANGED <<poll, tracker>>
       ELSE /\ poll' = [poll EXCEPT ![p] =
                  [Idle EXCEPT !.at = "next", !.scope = scope,
                               !.todo = {r \in Considered : ~StillQuarantined(r)}]]
            /\ quarantined' = [r \in Registers |->
                                 IF r \in Released THEN NoScope ELSE quarantined[r]]
            /\ invalid' = [r \in Registers |->
                             IF r \in Released THEN NoTimer ELSE invalid[r]]
            /\ itemErrors' = [r \in Registers |->
                                IF r \in Released THEN NoTimer ELSE itemErrors[r]]
            /\ UNCHANGED <<data, expired>>
    /\ UNCHANGED <<env, registers, rows, session, write, queue, history>>

(* The next BatchSize registers of what is left. *)
NextChunk(rest) ==
    {r \in rest : Cardinality({q \in rest : q < r}) < BatchSize}

ChunkBegins(p) ==
    /\ poll[p].at = "next" /\ poll[p].todo # {} /\ ~shutting
    /\ poll' = [poll EXCEPT ![p].at = "read",
                            ![p].chunk = NextChunk(poll[p].todo),
                            ![p].todo = @ \ NextChunk(poll[p].todo)]
    /\ queue' = Append(queue, p)
    /\ UNCHANGED <<env, registers, data, tracker, rows, session, write, history>>

(* The whole result replaces the published one. *)
PollEnds(p) ==
    /\ poll[p].at = "next" /\ (poll[p].todo = {} \/ shutting)
    /\ data' = poll[p].result
    /\ poll' = [poll EXCEPT ![p] = Idle]
    /\ UNCHANGED <<env, registers, tracker, rows, session, write, queue, history>>

-----------------------------------------------------------------------------
(* What an answer teaches: RegisterValidityTracker.observe, then            *)
(* quarantine_deterministic_failure and _disable_expired_entities, for the  *)
(* registers of one chunk.                                                  *)

AnswersFor(chunk) == {a \in [chunk -> DeviceAnswers] : \A r \in chunk : a[r] \in env.answers[r]}

Started(age) == IF age = NoTimer THEN 0 ELSE age

\* A slip: a valid value does not end the interval.
InvalidAfter_Kept(r, a) == IF a = "sentinel" THEN Started(invalid[r]) ELSE invalid[r]
InvalidAfter(r, a) ==
    CASE a = "valid" -> NoTimer
      [] a = "sentinel" -> Started(invalid[r])
      [] OTHER -> invalid[r]

ItemErrorsAfter(r, a) == IF a \in ItemErrors THEN Started(itemErrors[r]) ELSE NoTimer

Expires(r, a) ==
    \/ a = "sentinel" /\ InvalidAfter(r, a) >= Period
    \/ a \in ItemErrors /\ ItemErrorsAfter(r, a) >= Period

Failing(answers) == {r \in DOMAIN answers : answers[r] \in Deterministic}
Quarantines(p, a) == a \in Deterministic /\ poll[p].scope # NoScope

\* A slip: rows of the user are taken over.
Disabled_Users(row) == [x \in DOMAIN row |-> "integration"]
Disabled(row) == [x \in DOMAIN row |-> IF row[x] = "enabled" THEN "integration" ELSE row[x]]

Learn(p, answers) ==
    LET chunk == poll[p].chunk
        got(r) == answers[r]
    IN  /\ invalid' = [r \in Registers |->
                         IF r \in chunk THEN InvalidAfter(r, got(r)) ELSE invalid[r]]
        /\ itemErrors' = [r \in Registers |->
                            IF r \in chunk THEN ItemErrorsAfter(r, got(r)) ELSE itemErrors[r]]
        /\ expired' = {r \in expired : r \in chunk => got(r) \in ItemErrors}
                        \cup {r \in chunk : Expires(r, got(r))}
        /\ quarantined' = [r \in Registers |->
                             IF r \in chunk /\ Quarantines(p, got(r))
                             THEN poll[p].scope ELSE quarantined[r]]
        /\ rows' = [r \in Registers |->
                      IF r \in chunk /\ Expires(r, got(r)) THEN Disabled(rows[r]) ELSE rows[r]]
        /\ validAge' = [r \in Registers |->
                          IF r \in chunk /\ got(r) = "valid" THEN 0 ELSE validAge[r]]
        /\ brokenAge' = [r \in Registers |->
                           IF r \in chunk /\ got(r) \notin ItemErrors THEN 0 ELSE brokenAge[r]]
        /\ poll' = [poll EXCEPT ![p].at = "next", ![p].chunk = {},
                                ![p].result = [r \in Registers |->
                                    IF r \in chunk THEN got(r) ELSE poll[p].result[r]]]

(* async_read_objects returned: an answer of its own for each object, from  *)
(* GetList or from the read of the single object that replaces a rejected,  *)
(* malformed or partly rejected GetList.                                    *)
ChunkAnswered(p) ==
    /\ poll[p].at = "read" /\ Serves(p)
    /\ \E answers \in AnswersFor(poll[p].chunk) :
          /\ Learn(p, answers)
          /\ failedNow' = failedNow \cup Failing(answers)
    /\ queue' = Tail(queue)
    /\ UNCHANGED <<env, registers, data, session, write>>

(* It raised: no session, or a recovery that failed.  Every object of the   *)
(* chunk is a failed batch item.                                            *)
ChunkRaises(p) ==
    /\ poll[p].at \in {"read", "recover"} /\ Serves(p)
    /\ Learn(p, [r \in poll[p].chunk |-> "broken"])
    /\ queue' = Tail(queue)
    /\ scope' \in {scope, NoScope}
    /\ failedNow' = IF scope' = scope THEN failedNow ELSE {}
    /\ UNCHANGED <<env, registers, data, zoneUp, level, captured, shutting, write>>

(* Some objects met a session error: the session is recovered once, and     *)
(* only those are read again.                                               *)
SessionFails(p) ==
    /\ poll[p].at = "read" /\ Serves(p)
    /\ \E failed \in SUBSET poll[p].chunk \ {{}}, answers \in AnswersFor(poll[p].chunk) :
          /\ poll' = [poll EXCEPT ![p].at = "recover",
                                  ![p].result = [r \in Registers |->
                                      IF r \in failed THEN "lost"
                                      ELSE IF r \in poll[p].chunk THEN answers[r]
                                      ELSE poll[p].result[r]]]
    /\ UNCHANGED <<env, registers, data, tracker, rows, session, write, queue, history>>

(* A session's scope is never used again; Scopes are names.                 *)
FreshScopes == Scopes \ ({scope} \cup {quarantined[r] : r \in Registers}
                           \cup {poll[p].scope : p \in Pollers})

Recovered(p) ==
    /\ poll[p].at = "recover" /\ Serves(p)
    /\ \E again \in AnswersFor({r \in poll[p].chunk : poll[p].result[r] = "lost"}) :
          /\ Learn(p, [r \in poll[p].chunk |->
                         IF r \in DOMAIN again THEN again[r] ELSE poll[p].result[r]])
          /\ failedNow' = Failing(again)
    /\ scope' \in FreshScopes \cup {NoScope}
    /\ queue' = Tail(queue)
    /\ UNCHANGED <<env, registers, data, zoneUp, level, captured, shutting, write>>

-----------------------------------------------------------------------------
(* A control write (entity, _async_write) or a write_object service call:   *)
(* the entity's gate, the coordinator's, the write, and for an entity the   *)
(* read-back, which is published past the tracker.                          *)

WriteTo(w, at) == write' = [write EXCEPT ![w].at = at]

Sufficient(l, r) == l >= WriteLevel /\ l >= Required[r]

(* write_access_allowed: judged by the level the entity was created with.   *)
EntityAllows(r) ==
    /\ \E x \in Rows[r] : rows[r][x] = "enabled"
    /\ ZoneAllows(r)
    /\ captured # 0 /\ Sufficient(captured, r)

(* async_write_object; a level that is not known is read first, unless      *)
(* level 1 is all that was asked for.                                       *)
LevelAllows(r) == level # 0 => Sufficient(level, r)
\* A slip: an unknown level is not asked for.
NeedsLevel_Never == FALSE
NeedsLevel == level = 0 /\ AccessLevel > 1

WriteBegins(w, r, by) ==
    /\ write[w].at = "idle" /\ w \in env.callers /\ WriteLevel # 0
    /\ by = "entity" => EntityAllows(r)
    /\ LevelAllows(r)
    /\ ~NeedsLevel => ZoneAllows(r)
    /\ write' = [write EXCEPT ![w] = [at |-> IF NeedsLevel THEN "level" ELSE "write",
                                     by |-> by, register |-> r]]
    /\ queue' = Append(queue, w)
    /\ UNCHANGED <<env, registers, data, tracker, rows, session, poll, history>>

(* The node's level was read from 4002:00; the rest of the gate follows.    *)
LevelRead(w) ==
    /\ write[w].at = "level" /\ Serves(w)
    /\ level' \in env.levels \ {0}
    /\ IF Sufficient(level', write[w].register) /\ ZoneAllows(write[w].register)
       THEN WriteTo(w, "write") /\ queue' = Append(Tail(queue), w)
       ELSE write' = [write EXCEPT ![w] = NoWrite] /\ queue' = Tail(queue)
    /\ UNCHANGED <<env, registers, data, tracker, rows, scope, zoneUp, captured, shutting, poll,
                   history>>

(* Any await of a write may raise, and an unverified write raises: nothing  *)
(* is published and nothing is sent again.                                  *)
WriteFails(w) ==
    /\ write[w].at # "idle" /\ Serves(w)
    /\ write' = [write EXCEPT ![w] = NoWrite]
    /\ queue' = Tail(queue)
    /\ UNCHANGED <<env, registers, data, tracker, rows, session, poll, history>>

WriteVerified(w) ==
    /\ write[w].at = "write" /\ Serves(w)
    /\ IF write[w].by = "entity"
       THEN WriteTo(w, "readback") /\ queue' = Append(Tail(queue), w)
       ELSE write' = [write EXCEPT ![w] = NoWrite] /\ queue' = Tail(queue)
    /\ UNCHANGED <<env, registers, data, tracker, rows, session, poll, history>>

ReadBack(w) ==
    /\ write[w].at = "readback" /\ Serves(w)
    /\ LET r == write[w].register
       IN  \E a \in Values \cap env.answers[r] : data' = [data EXCEPT ![r] = a]
    /\ write' = [write EXCEPT ![w] = NoWrite]
    /\ queue' = Tail(queue)
    /\ UNCHANGED <<env, registers, tracker, rows, session, poll, history>>

-----------------------------------------------------------------------------
(* Services, users and the rest of the integration. *)

(* The reactivate_register service; it also asks for a refresh, which is a  *)
(* PollBegins that may always happen.                                       *)
Reactivate(r) ==
    /\ "reactivate" \in env.happens /\ r \in registers
    /\ expired' = expired \ {r}
    /\ invalid' = [invalid EXCEPT ![r] = NoTimer]
    /\ itemErrors' = [itemErrors EXCEPT ![r] = NoTimer]
    /\ quarantined' = [quarantined EXCEPT ![r] = NoScope]
    /\ rows' = [rows EXCEPT ![r] =
                  [x \in Rows[r] |-> IF rows[r][x] = "integration" THEN "enabled" ELSE rows[r][x]]]
    /\ UNCHANGED <<env, registers, data, session, poll, write, queue, history>>

(* add_registers: another platform asks for more. *)
AddRegisters(more) ==
    /\ "platform" \in env.happens /\ ~(more \subseteq registers)
    /\ registers' = registers \cup more
    /\ UNCHANGED <<env, data, tracker, rows, session, poll, write, queue, history>>

\* A slip: the age has no bound.
Older_Unbounded(age) == IF age = NoTimer THEN age ELSE age + 1
Older(age) == IF age \in {NoTimer, Period} THEN age ELSE age + 1

\* A minute passes.
Tick ==
    /\ invalid' = [r \in Registers |-> Older(invalid[r])]
    /\ itemErrors' = [r \in Registers |-> Older(itemErrors[r])]
    /\ validAge' = [r \in Registers |-> Older(validAge[r])]
    /\ brokenAge' = [r \in Registers |-> Older(brokenAge[r])]
    /\ UNCHANGED <<env, registers, data, expired, quarantined, rows, session, poll, write, queue,
                   failedNow>>

(* The user enables or disables a row in Home Assistant. *)
UserSets(r, x) ==
    /\ "user" \in env.happens
    /\ rows' = [rows EXCEPT ![r][x] = IF @ = "enabled" THEN "user" ELSE "enabled"]
    /\ UNCHANGED <<env, registers, data, tracker, session, poll, write, queue, history>>

ZoneChanges ==
    /\ "zone" \in env.happens
    /\ zoneUp' = ~zoneUp
    /\ UNCHANGED <<env, registers, data, tracker, rows, scope, level, captured, shutting, poll,
                   write, queue, history>>

(* The session is lost, or another caller has prepared a new one. *)
SessionChanges ==
    /\ "session" \in env.happens
    /\ scope' \in FreshScopes \cup {NoScope}
    /\ scope' # scope
    /\ failedNow' = {}
    /\ UNCHANGED <<env, registers, data, tracker, rows, zoneUp, level, captured, shutting, poll,
                   write, queue, validAge, brokenAge>>

ShutdownBegins ==
    /\ "shutdown" \in env.happens /\ ~shutting
    /\ shutting' = TRUE
    /\ UNCHANGED <<env, registers, data, tracker, rows, scope, zoneUp, level, captured, poll, write,
                   queue, history>>

(* The entry is set up again: a new coordinator and tracker over the same   *)
(* registry rows.                                                           *)
Reload ==
    /\ "reload" \in env.happens /\ shutting
    /\ \A p \in Pollers : poll[p].at = "idle"
    /\ \A w \in Writers : write[w].at = "idle"
    /\ registers' = env.registers
    /\ data' = [r \in Registers |-> "none"]
    /\ invalid' = NoTimers /\ itemErrors' = NoTimers
    /\ expired' = {} /\ quarantined' = NoRecords
    /\ shutting' = FALSE
    /\ level' \in env.levels /\ captured' = CapturedLevel(level')
    /\ scope' \in FreshScopes \cup {NoScope} /\ failedNow' = {}
    /\ validAge' = [r \in Registers |-> 0] /\ brokenAge' = [r \in Registers |-> 0]
    /\ UNCHANGED <<env, rows, zoneUp, poll, write, queue>>

PollStep(p) ==
    \/ ChunkBegins(p) \/ PollEnds(p) \/ ChunkAnswered(p) \/ ChunkRaises(p)
    \/ SessionFails(p) \/ Recovered(p)
WriteStep(w) == LevelRead(w) \/ WriteFails(w) \/ WriteVerified(w) \/ ReadBack(w)

PollNext ==
    \/ \E p \in Pollers : PollBegins(p) \/ PollStep(p)
    \/ \E w \in Writers :
          \/ \E r \in Registers, by \in Origins : WriteBegins(w, r, by)
          \/ WriteStep(w)
    \/ \E r \in Registers : Reactivate(r) \/ (\E x \in Rows[r] : UserSets(r, x))
    \/ \E more \in SUBSET Registers : AddRegisters(more)
    \/ Tick \/ ZoneChanges \/ SessionChanges \/ ShutdownBegins \/ Reload

PollSpec == PollInit /\ [][PollNext]_vars

(* asyncio resumes an await that is over, the backend ends every call (see  *)
(* ThinLifecycle), the lock is fair, and Home Assistant refreshes again at  *)
(* every interval.                                                          *)
PollFairness ==
    /\ \A p \in Pollers : WF_vars(PollStep(p)) /\ WF_vars(PollBegins(p))
    /\ \A w \in Writers : WF_vars(WriteStep(w))
PollFairSpec == PollSpec /\ PollFairness

-----------------------------------------------------------------------------
(* Properties. *)

Available(r) == data[r] \in Values /\ invalid[r] = NoTimer /\ quarantined[r] = NoScope

(* A row is disabled only on continuous evidence: for the whole period no poll  *)
(* brought a valid value, and either the sentinel interval is that old or no    *)
(* answer broke the error interval (validity.py:121-178, coordinator.py:1691).  *)
RetiredOnEvidence ==
    [][\A r \in Registers : \A x \in Rows[r] :
          rows[r][x] = "enabled" /\ rows'[r][x] = "integration" =>
             /\ validAge[r] = Period
             /\ invalid[r] = Period \/ brokenAge[r] = Period]_vars

(* A register is withheld from polls only for a failure that was answered in    *)
(* the present session, although the scope of a record is taken before the      *)
(* awaits of the poll and used after them (coordinator.py:1518, 1659).          *)
QuarantineIsCurrent ==
    \A r \in Registers : StillQuarantined(r) => r \in failedNow

(* What the user disabled stays disabled until the user enables it: retiring    *)
(* and reactivating the register pass it by (coordinator.py:1262, 1701).        *)
UserStaysAuthoritative ==
    [][\A r \in Registers : \A x \in Rows[r] :
          rows[r][x] = "user" /\ rows'[r][x] # "user" => UserSets(r, x)]_vars

(* After reactivation the next refresh reads the register, whatever mixture of  *)
(* expiry, quarantine and disabled rows had silenced it, unless its zone is not *)
(* active or the user disabled all of its rows (validity.py:283).               *)
ReactivationResumes ==
    [][\A r \in registers :
          Reactivate(r) /\ ZoneAllows(r) /\ (\E x \in Rows[r] : rows[r][x] # "user")
             => (r \in Considered /\ ~StillQuarantined(r))']_vars

(* Whoever asks for it, a write goes to the device only with a level that is    *)
(* proven by then and sufficient, or at the base level that was configured: the *)
(* level may be unknown when the entity allows it and found out in between      *)
(* (coordinator.py:1184-1224).                                                  *)
WritesAreProven ==
    [][\A w \in Writers : write[w].at # "write" /\ write'[w].at = "write" =>
          IF level' = 0 THEN AccessLevel = 1
                        ELSE Sufficient(level', write'[w].register)]_vars

(* A register whose device answers with valid values from some time on, over a  *)
(* link that lasts, is shown from some time on, unless it is retired, disabled, *)
(* quarantined in the present scope, in a zone that is not active, or not       *)
(* polled at all.  Reads of other objects, late polls, writes and retirements   *)
(* of other registers do not keep it away.                                      *)
Silent(r) == r \notin Considered \/ StillQuarantined(r) \/ shutting
Healthy(r) == \A p \in Pollers :
    poll[p].at # "next" /\ poll'[p].at = "next" /\ r \in poll[p].chunk
       => poll'[p].result[r] = "valid"
ShownWhenHealthy ==
    \A r \in Registers : (<>[][Healthy(r)]_vars /\ <>[]~Silent(r)) => <>[]Available(r)
=============================================================================
