--------------------------- MODULE EntryLifecycle ---------------------------
(***************************************************************************)
(* The life of one OpenRBus config entry: Home Assistant's handler         *)
(* (__init__.py async_setup_entry, async_unload_entry, async_remove_entry) *)
(* drives coordinators, one per setup generation (coordinator.py), whose   *)
(* startup task, zone tasks, register pollers and own refresh share one    *)
(* backend.  The backend serves its callers one at a time, in the order    *)
(* they called; what a call does to the controller claim is abstracted     *)
(* from ThinLifecycle: a use may claim, only a successful stop releases.   *)
(*                                                                         *)
(* Every step is the code between two awaits.  A time limit is a step that *)
(* may be taken while the bounded await has not returned.                  *)
(***************************************************************************)
EXTENDS Naturals, FiniteSets

CONSTANTS
    Coords,      \* the coordinators that may exist at once; a finished one is reused
    NoCoord,     \* no coordinator
    ZoneTasks,   \* the zone tasks of a coordinator that may be alive at once
    NoTask,      \* no zone task
    Services,    \* the service calls that may be in flight at once
    Readers,     \* which of "poll" and "bridge" (the coordinator's own refresh) read
    Happens      \* the events from outside that may happen

Closers == {"ha", "cleanup"}
Callers == Closers \cup Services \cup ZoneTasks \cup Readers \cup {"startup"}

ASSUME ModelAssumption ==
    /\ NoCoord \notin Coords
    /\ NoTask \notin ZoneTasks
    /\ (Closers \cup {"startup", "poll", "bridge"}) \cap (Services \cup ZoneTasks) = {}
    /\ Services \cap ZoneTasks = {}
    /\ Readers \subseteq {"poll", "bridge"}
    /\ Happens \subseteq {"reload_retry", "reload_error", "forward_fails", "unload_fails",
                   "restart"}

VARIABLES
    entry,       \* ConfigEntry.state
    runtime,     \* entry.runtime_data
    ha,          \* where HA's handler awaits, and for which coordinator
    platforms,   \* the coordinators whose entities exist
    abandoned,   \* the coordinators whose entry was removed with no proof of shutdown
    owner,       \* the coordinator whose backend holds the controller claim
    retryable,   \* the coordinators with _startup_retryable
    fenced,      \* the coordinators with _startup_cleanup_failed
    listening,   \* the coordinators with _startup_lifecycle_unsubscribe
    shutting,    \* the coordinators with _shutting_down
    complete,    \* the coordinators with _shutdown_complete
    startup,     \* where the startup task of a coordinator is
    outcome,     \* what the startup task ends with
    asked,       \* the startup tasks with task.cancelling() > 0
    hit,         \* the startup tasks a cancellation is still to reach
    zone,        \* where the zone tasks are
    zoneHit,     \* the zone tasks a cancellation is still to reach
    deferred,    \* _zone_discovery_task
    monitor,     \* _zone_profile_monitor_task
    lost,        \* the zone tasks that were still alive when deferred forgot them
    reading,     \* the coordinators whose poll or own refresh awaits a read
    closer,      \* where each call of async_shutdown is
    serving,     \* the coordinator whose read a service call awaits
    waiting,     \* the callers in a backend, running or waiting for its lock
    ahead        \* for each of them, the callers it has to wait for

entryVars == <<entry, runtime, ha, platforms, abandoned>>
flagVars == <<retryable, fenced, listening, shutting, complete>>
startVars == <<startup, outcome, asked, hit>>
zoneVars == <<zone, zoneHit, deferred, monitor, lost>>
readVars == <<reading, serving>>
queueVars == <<waiting, ahead>>
holdVars == <<platforms, abandoned, owner>>
shutVars == <<shutting, complete>>
taskVars == <<startVars, zoneVars, readVars>>
vars == <<entryVars, owner, flagVars, startVars, zoneVars, readVars, closer, queueVars>>

EntryStates == {"not_loaded", "setup", "retry", "loaded", "unloading", "error",
                "failed_unload", "removed"}
HaPoints == {"idle", "begin", "prove", "create", "join", "fence", "slice", "forward",
             "platforms", "close", "callbacks", "removing", "remove"}
StartupPoints == {"none", "created", "start", "zones", "stop", "done"}
Outcomes == {"none", "ok", "fatal", "timeout", "budget", "cancelled"}
CloserPoints == {"idle", "join", "pre", "prestop", "zones", "pollers", "stop",
                 "done", "failed"}

EntryType ==
    /\ entry \in EntryStates
    /\ runtime \in Coords \cup {NoCoord}
    /\ ha \in [pc : HaPoints, coord : Coords \cup {NoCoord}]
    /\ platforms \subseteq Coords /\ abandoned \subseteq Coords
    /\ owner \in Coords \cup {NoCoord}

FlagType ==
    /\ retryable \subseteq Coords /\ fenced \subseteq Coords /\ listening \subseteq Coords
    /\ shutting \subseteq Coords /\ complete \subseteq Coords

StartType ==
    /\ startup \in [Coords -> StartupPoints]
    /\ outcome \in [Coords -> Outcomes]
    /\ asked \subseteq Coords /\ hit \subseteq Coords

ZoneType ==
    /\ zone \in [Coords -> [ZoneTasks -> {"off", "sleep", "read"}]]
    /\ zoneHit \in [Coords -> SUBSET ZoneTasks]
    /\ deferred \in [Coords -> ZoneTasks \cup {NoTask}]
    /\ monitor \in [Coords -> ZoneTasks \cup {NoTask}]
    /\ lost \in [Coords -> SUBSET ZoneTasks]

ReadType ==
    /\ reading \in [Coords -> SUBSET Readers]
    /\ serving \in [Services -> Coords \cup {NoCoord}]

CloserType == closer \in [Coords -> [Closers -> CloserPoints]]

QueueType ==
    /\ waiting \in [Coords -> SUBSET Callers]
    /\ ahead \in [Coords -> [Callers -> SUBSET Callers]]

TypeOK ==
    /\ EntryType /\ FlagType /\ StartType /\ ZoneType
    /\ ReadType /\ CloserType /\ QueueType

Init ==
    /\ entry = "not_loaded"
    /\ runtime = NoCoord
    /\ ha = [pc |-> "idle", coord |-> NoCoord]
    /\ platforms = {} /\ abandoned = {}
    /\ owner = NoCoord
    /\ retryable = {} /\ fenced = {} /\ listening = {}
    /\ shutting = {} /\ complete = {} /\ asked = {} /\ hit = {}
    /\ startup = [c \in Coords |-> "none"]
    /\ outcome = [c \in Coords |-> "none"]
    /\ zone = [c \in Coords |-> [z \in ZoneTasks |-> "off"]]
    /\ zoneHit = [c \in Coords |-> {}]
    /\ deferred = [c \in Coords |-> NoTask]
    /\ monitor = [c \in Coords |-> NoTask]
    /\ lost = [c \in Coords |-> {}]
    /\ reading = [c \in Coords |-> {}]
    /\ closer = [c \in Coords |-> [k \in Closers |-> "idle"]]
    /\ serving = [s \in Services |-> NoCoord]
    /\ waiting = [c \in Coords |-> {}]
    /\ ahead = [c \in Coords |-> [w \in Callers |-> {}]]

-----------------------------------------------------------------------------
\* The backend, one caller at a time (transport.py: the start and call locks).

\* A caller calls the backend.
Call(c, w) ==
    /\ waiting' = [waiting EXCEPT ![c] = @ \cup {w}]
    /\ ahead' = [ahead EXCEPT ![c][w] = waiting[c]]

\* Its call returns or is cancelled.
Return(c, w) ==
    /\ waiting' = [waiting EXCEPT ![c] = @ \ {w}]
    /\ ahead' = [ahead EXCEPT ![c] = [x \in Callers |-> @[x] \ {w}]]

\* The calls of W return or are cancelled together.
ReturnAll(c, W) ==
    /\ waiting' = [waiting EXCEPT ![c] = @ \ W]
    /\ ahead' = [ahead EXCEPT ![c] = [x \in Callers |-> @[x] \ W]]

\* Its call returns and it calls again without awaiting anything else.
CallAgain(c, w) ==
    /\ waiting' = waiting
    /\ ahead' = [ahead EXCEPT ![c] =
                    [x \in Callers |-> IF x = w THEN waiting[c] \ {w} ELSE @[x] \ {w}]]

\* The backend serves this caller now.
Served(c, w) == w \in waiting[c] /\ ahead[c][w] = {}

Free(c) == owner \in {NoCoord, c}

\* Who may hold the controller after a use that failed or was interrupted.
OwnersAfterFailure(c) == IF Free(c) THEN {owner, NoCoord, c} ELSE {owner}

\* A start or a read: it succeeds only with the controller claimed.
UseWorks(c) == Free(c) /\ owner' = c
UseFails(c) == owner' \in OwnersAfterFailure(c)

\* A use that is cancelled; a caller still waiting for the lock has done nothing.
UseInterrupted(c, w) == IF Served(c, w) THEN UseFails(c) ELSE owner' = owner

\* A stop that succeeds has released the claim; one that fails keeps it.
StopWorks(c) == owner' = IF owner = c THEN NoCoord ELSE owner
StopFails(c) == owner' = owner

-----------------------------------------------------------------------------
\* The startup task (async_start under _async_run_initial_startup).

Live(c) == startup[c] \notin {"none", "done"}

\* task.cancel() on every startup task of D that has not ended.
CancelStartups(D) ==
    /\ asked' = asked \cup {c \in D : Live(c)}
    /\ hit' = hit \cup {c \in D : Live(c)}
    /\ UNCHANGED <<startup, outcome>>

StartupRuns(c) ==
    /\ startup[c] = "created" /\ c \notin hit
    /\ startup' = [startup EXCEPT ![c] = "start"]
    /\ Call(c, "startup")
    /\ UNCHANGED <<entryVars, owner, flagVars, outcome, asked, hit, zoneVars,
                   readVars, closer>>

\* The backend has started; discovery and the first zone pass follow.
StartupConnects(c) ==
    /\ startup[c] = "start" /\ c \notin hit
    /\ Served(c, "startup") /\ UseWorks(c)
    /\ startup' = [startup EXCEPT ![c] = "zones"]
    /\ CallAgain(c, "startup")
    /\ UNCHANGED <<entryVars, flagVars, outcome, asked, hit, zoneVars, readVars,
                   closer>>

\* One more read of discovery or of the zone pass, which ignores failures.
StartupReads(c) ==
    /\ startup[c] = "zones" /\ c \notin hit
    /\ Served(c, "startup")
    /\ UseWorks(c) \/ UseFails(c)
    /\ CallAgain(c, "startup")
    /\ UNCHANGED <<entryVars, flagVars, taskVars, closer>>

\* Scheduling a zone task: the attribute forgets the task it held before.
Schedule(c, z) ==
    /\ zone[c][z] = "off" /\ z \notin lost[c] \cup {monitor[c]}
    /\ zone' = [zone EXCEPT ![c][z] = "sleep"]

\* The last zone read; an incomplete pass is retried, a complete one monitored.
StartupSucceeds(c) ==
    /\ startup[c] = "zones" /\ c \notin hit
    /\ Served(c, "startup")
    /\ UseWorks(c) \/ UseFails(c)
    /\ startup' = [startup EXCEPT ![c] = "done"]
    /\ outcome' = [outcome EXCEPT ![c] = "ok"]
    /\ Return(c, "startup")
    /\ \/ \E z \in ZoneTasks :
            /\ Schedule(c, z)
            /\ deferred' = [deferred EXCEPT ![c] = z]
            /\ lost' = [lost EXCEPT ![c] =
                   {t \in (@ \cup {deferred[c]}) \ {NoTask} : zone[c][t] # "off"}]
            /\ UNCHANGED monitor
       \/ \E z \in ZoneTasks :
            /\ monitor[c] = NoTask /\ z # deferred[c]
            /\ Schedule(c, z)
            /\ monitor' = [monitor EXCEPT ![c] = z]
            /\ UNCHANGED <<deferred, lost>>
       \/ UNCHANGED <<zone, deferred, monitor, lost>>   \* no slots, or a monitor already
    /\ UNCHANGED <<entryVars, flagVars, asked, hit, zoneHit, readVars, closer>>

\* The start or the discovery raises: async_start stops the backend before it
\* raises.  A TimeoutError will be taken for the budget's own.
StartupFails(c) ==
    /\ startup[c] \in {"start", "zones"} /\ c \notin hit
    /\ Served(c, "startup") /\ UseFails(c)
    /\ startup' = [startup EXCEPT ![c] = "stop"]
    /\ \E why \in {"fatal", "timeout"} : outcome' = [outcome EXCEPT ![c] = why]
    /\ CallAgain(c, "startup")
    /\ UNCHANGED <<entryVars, flagVars, asked, hit, zoneVars, readVars, closer>>

\* What the task raises after its cleanup: only a TimeoutError makes it retryable.
Retryable(c, how) ==
    retryable' = IF how \in {"budget", "timeout"} THEN retryable \cup {c} ELSE retryable

StartupEnds(c) ==
    /\ startup' = [startup EXCEPT ![c] = "done"]
    /\ Retryable(c, outcome[c])
    /\ asked' = IF outcome[c] = "budget" THEN asked \ {c} ELSE asked
    /\ Return(c, "startup")
    /\ UNCHANGED <<entryVars, outcome, hit, listening, shutVars, zoneVars, readVars,
                   closer>>

StartupCleansUp(c) ==
    /\ startup[c] = "stop" /\ c \notin hit
    /\ Served(c, "startup") /\ StopWorks(c)
    /\ StartupEnds(c)
    /\ UNCHANGED fenced

\* A slip: the failure of the cleanup is noted in the error only.
StartupCleanupFails_Forgets(c) ==
    /\ startup[c] = "stop" /\ c \notin hit
    /\ StopFails(c)
    /\ StartupEnds(c)
    /\ UNCHANGED fenced

\* The cleanup fails, or exceeds its 8 s while it waits or runs.
StartupCleanupFails(c) ==
    /\ startup[c] = "stop" /\ c \notin hit
    /\ StopFails(c)
    /\ StartupEnds(c)
    /\ fenced' = fenced \cup {c}

\* The 300 s are over: asyncio.timeout cancels the task from within, and until
\* the task has left that block task.cancelling() tells no difference.
StartupBudget(c) ==
    /\ c \notin hit
    /\ \/ /\ startup[c] \in {"start", "zones"}
          /\ UseInterrupted(c, "startup")
          /\ startup' = [startup EXCEPT ![c] = "stop"]
          /\ outcome' = [outcome EXCEPT ![c] = "budget"]
          /\ asked' = asked \cup {c}
          /\ CallAgain(c, "startup")
          /\ UNCHANGED <<retryable, fenced>>
       \/ /\ startup[c] = "stop" /\ outcome[c] # "budget"
          /\ startup' = [startup EXCEPT ![c] = "done"]
          /\ fenced' = fenced \cup {c}
          /\ Return(c, "startup")
          /\ Retryable(c, outcome[c])
          /\ UNCHANGED <<owner, outcome, asked>>
    /\ UNCHANGED <<entryVars, listening, shutVars, hit, zoneVars, readVars, closer>>

\* A cancellation reaches the task: it ends a task that has not begun, sends a
\* working one to its cleanup, and breaks off the cleanup of a failing one.
StartupInterrupted(c) ==
    /\ c \in hit
    /\ hit' = hit \ {c}
    /\ \/ /\ startup[c] = "created"
          /\ startup' = [startup EXCEPT ![c] = "done"]
          /\ outcome' = [outcome EXCEPT ![c] = "cancelled"]
          /\ UNCHANGED <<owner, retryable, fenced, queueVars>>
       \/ /\ startup[c] \in {"start", "zones"}
          /\ UseInterrupted(c, "startup")
          /\ startup' = [startup EXCEPT ![c] = "stop"]
          /\ outcome' = [outcome EXCEPT ![c] = "cancelled"]
          /\ CallAgain(c, "startup")
          /\ UNCHANGED <<retryable, fenced>>
       \/ /\ startup[c] = "stop"
          /\ startup' = [startup EXCEPT ![c] = "done"]
          /\ outcome' = [outcome EXCEPT ![c] = IF @ = "budget" THEN "cancelled" ELSE @]
          /\ fenced' = fenced \cup {c}
          /\ Retryable(c, outcome'[c])
          /\ Return(c, "startup")
          /\ UNCHANGED owner
    /\ UNCHANGED <<entryVars, listening, shutVars, asked, zoneVars, readVars, closer>>

-----------------------------------------------------------------------------
\* The zone tasks (_async_retry_zone_discovery, _async_monitor_zone_profiles).

CancelZones(D) ==
    zoneHit' = [c \in Coords |->
        IF c \in D THEN zoneHit[c] \cup {z \in ZoneTasks : zone[c][z] # "off"}
                   ELSE zoneHit[c]]

Tracked(c) == {deferred[c], monitor[c]} \ {NoTask}

\* The sleep is over; a coordinator that shuts down starts no pass.
ZoneWakes(c, z) ==
    /\ zone[c][z] = "sleep" /\ z \notin zoneHit[c]
    /\ IF c \in shutting
       THEN zone' = [zone EXCEPT ![c][z] = "off"] /\ UNCHANGED queueVars
       ELSE zone' = [zone EXCEPT ![c][z] = "read"] /\ Call(c, z)
    /\ UNCHANGED <<entryVars, owner, flagVars, startVars, zoneHit, deferred, monitor, lost,
                   readVars, closer>>

\* A read of the pass is followed by the next, whatever it returned.
ZoneReads(c, z) ==
    /\ zone[c][z] = "read" /\ z \notin zoneHit[c]
    /\ Served(c, z)
    /\ UseWorks(c) \/ UseFails(c)
    /\ CallAgain(c, z)
    /\ UNCHANGED <<entryVars, flagVars, taskVars, closer>>

\* The pass is over: the task ends, sleeps again, or leaves to the monitor.
ZonePassEnds(c, z) ==
    /\ zone[c][z] = "read" /\ z \notin zoneHit[c]
    /\ Served(c, z)
    /\ UseWorks(c) \/ UseFails(c)
    /\ Return(c, z)
    /\ \/ zone' = [zone EXCEPT ![c][z] = "off"] /\ UNCHANGED monitor
       \/ /\ c \notin shutting
          /\ zone' = [zone EXCEPT ![c][z] = "sleep"] /\ UNCHANGED monitor
       \/ /\ c \notin shutting /\ monitor[c] = NoTask
          /\ \E m \in ZoneTasks :
                /\ zone[c][m] = "off" /\ m \notin lost[c] \cup {deferred[c]}
                /\ zone' = [zone EXCEPT ![c][z] = "off", ![c][m] = "sleep"]
                /\ monitor' = [monitor EXCEPT ![c] = m]
    /\ UNCHANGED <<entryVars, flagVars, startVars, zoneHit, deferred, lost, readVars,
                   closer>>

ZoneInterrupted(c, z) ==
    /\ z \in zoneHit[c]
    /\ zoneHit' = [zoneHit EXCEPT ![c] = @ \ {z}]
    /\ zone' = [zone EXCEPT ![c][z] = "off"]
    /\ IF zone[c][z] = "read"
       THEN UseInterrupted(c, z) /\ Return(c, z)
       ELSE UNCHANGED <<owner, queueVars>>
    /\ UNCHANGED <<entryVars, flagVars, startVars, deferred, monitor, lost, readVars,
                   closer>>

-----------------------------------------------------------------------------
\* The register pollers, the coordinator's own refresh and the service calls.

\* A poll starts with a test of _shutting_down; the refresh of the coordinator
\* itself has none, and is scheduled until its own async_shutdown.
ReadBegins(c, w) ==
    /\ c \in platforms /\ w \notin reading[c]
    /\ IF w = "poll" THEN c \notin shutting ELSE c \notin complete
    /\ reading' = [reading EXCEPT ![c] = @ \cup {w}]
    /\ Call(c, w)
    /\ UNCHANGED <<entryVars, owner, flagVars, startVars, zoneVars, serving, closer>>

\* A poll with more batches goes on unless its coordinator shuts down.
ReadReturns(c, w) ==
    /\ w \in reading[c]
    /\ Served(c, w)
    /\ UseWorks(c) \/ UseFails(c)
    /\ \/ /\ w = "poll" /\ c \notin shutting
          /\ CallAgain(c, w)
          /\ UNCHANGED reading
       \/ /\ reading' = [reading EXCEPT ![c] = @ \ {w}]
          /\ Return(c, w)
    /\ UNCHANGED <<entryVars, flagVars, startVars, zoneVars, serving, closer>>

\* read_object and read_group take the coordinator from the entry.
ServiceCalls(s) ==
    /\ serving[s] = NoCoord /\ runtime # NoCoord
    /\ serving' = [serving EXCEPT ![s] = runtime]
    /\ Call(runtime, s)
    /\ UNCHANGED <<entryVars, owner, flagVars, startVars, zoneVars, reading, closer>>

ServiceReturns(s) ==
    /\ serving[s] # NoCoord
    /\ Served(serving[s], s)
    /\ UseWorks(serving[s]) \/ UseFails(serving[s])
    /\ serving' = [serving EXCEPT ![s] = NoCoord]
    /\ Return(serving[s], s)
    /\ UNCHANGED <<entryVars, flagVars, startVars, zoneVars, reading, closer>>

-----------------------------------------------------------------------------
\* async_shutdown, called by HA's handler ("ha") or by cleanup_failed_setup,
\* which may still run when HA has stopped waiting for it ("cleanup").

CloserTo(c, k, pc) == closer' = [closer EXCEPT ![c][k] = pc]

\* A slip: a startup that still runs is not cancelled.
StartClose_KeepsStartup(c, k) ==
    IF c \in complete
    THEN CloserTo(c, k, "done") /\ UNCHANGED <<shutting, startVars>>
    ELSE /\ shutting' = shutting \cup {c}
         /\ CloserTo(c, k, "pre")
         /\ UNCHANGED startVars

\* The call: the flag, then the cancellation of a startup that still runs.
StartClose(c, k) ==
    IF c \in complete
    THEN CloserTo(c, k, "done") /\ UNCHANGED <<shutting, startVars>>
    ELSE /\ shutting' = shutting \cup {c}
         /\ CancelStartups({c})
         /\ CloserTo(c, k, IF Live(c) THEN "join" ELSE "pre")

CloserJoins(c, k) ==
    /\ closer[c][k] = "join" /\ ~Live(c)
    /\ CloserTo(c, k, "pre")
    /\ UNCHANGED <<entryVars, owner, flagVars, taskVars, queueVars>>

\* A slip: a startup that does not stop in time is left behind.
CloserJoinTimeout_GoesOn(c, k) ==
    /\ closer[c][k] = "join" /\ Live(c)
    /\ CancelStartups({c})
    /\ CloserTo(c, k, "pre")
    /\ UNCHANGED <<entryVars, owner, flagVars, zoneVars, readVars, queueVars>>

\* After 9 s; cancelling the gather cancels the startup once more.
CloserJoinTimeout(c, k) ==
    /\ closer[c][k] = "join" /\ Live(c)
    /\ CancelStartups({c})
    /\ CloserTo(c, k, "failed")
    /\ UNCHANGED <<entryVars, owner, flagVars, zoneVars, readVars, queueVars>>

\* A slip: the tasks are awaited but not cancelled.
CancelTracked_Not(c) == UNCHANGED zoneHit

\* zone_task.cancel() on the zone tasks the coordinator knows of.
CancelTracked(c) ==
    zoneHit' = [zoneHit EXCEPT ![c] = @ \cup {z \in Tracked(c) : zone[c][z] # "off"}]

\* A backend that holds the controller is stopped before the readers are.
CloserPreStops(c, k) ==
    /\ closer[c][k] = "pre"
    /\ IF owner = c
       THEN CloserTo(c, k, "prestop") /\ Call(c, k) /\ UNCHANGED zoneHit
       ELSE /\ CloserTo(c, k, "zones")
            /\ CancelTracked(c)
            /\ UNCHANGED queueVars
    /\ UNCHANGED <<entryVars, owner, flagVars, startVars, zone, deferred, monitor, lost,
                   readVars>>

CloserPreStopped(c, k) ==
    /\ closer[c][k] = "prestop"
    /\ Served(c, k) /\ StopWorks(c)
    /\ Return(c, k)
    /\ CloserTo(c, k, "zones")
    /\ CancelTracked(c)
    /\ UNCHANGED <<entryVars, flagVars, startVars, zone, deferred, monitor, lost, readVars>>

CloserPreStopFails(c, k) ==
    /\ closer[c][k] = "prestop"
    /\ StopFails(c)
    /\ Return(c, k)
    /\ CloserTo(c, k, "failed")
    /\ fenced' = fenced \cup {c}
    /\ UNCHANGED <<entryVars, retryable, listening, shutVars, taskVars>>

CloserJoinsZones(c, k) ==
    /\ closer[c][k] = "zones"
    /\ \A z \in Tracked(c) : zone[c][z] = "off"
    /\ deferred' = [deferred EXCEPT ![c] = NoTask]
    /\ monitor' = [monitor EXCEPT ![c] = NoTask]
    /\ CloserTo(c, k, "pollers")
    /\ UNCHANGED <<entryVars, owner, flagVars, startVars, zone, zoneHit, lost, readVars,
                   queueVars>>

CloserJoinsPollers(c, k) ==
    /\ closer[c][k] = "pollers" /\ "poll" \notin reading[c]
    /\ CloserTo(c, k, "stop")
    /\ Call(c, k)
    /\ UNCHANGED <<entryVars, owner, flagVars, taskVars>>

CloserPollersTimeout(c, k) ==
    /\ closer[c][k] = "pollers" /\ "poll" \in reading[c]
    /\ CloserTo(c, k, "failed")
    /\ UNCHANGED <<entryVars, owner, flagVars, taskVars, queueVars>>

\* The final stop has worked and the shutdown is complete; an unload goes on at
\* once (Closed).
CloserStopped(c, k) ==
    /\ closer[c][k] = "stop" /\ ~(k = "ha" /\ ha.pc = "close")
    /\ Served(c, k) /\ StopWorks(c)
    /\ Return(c, k)
    /\ CloserTo(c, k, "done")
    /\ complete' = complete \cup {c}
    /\ UNCHANGED <<entryVars, retryable, fenced, listening, shutting, taskVars>>

CloserStopFails(c, k) ==
    /\ closer[c][k] = "stop"
    /\ Served(c, k) /\ StopFails(c)
    /\ Return(c, k)
    /\ CloserTo(c, k, "failed")
    /\ UNCHANGED <<entryVars, flagVars, taskVars>>

\* A slip: the runtime data goes whether or not the shutdown has succeeded.
CleanupEnds_Finally(c) ==
    /\ closer[c]["cleanup"] \in {"done", "failed"}
    /\ CloserTo(c, "cleanup", "idle")
    /\ runtime' = IF runtime = c THEN NoCoord ELSE runtime
    /\ listening' = listening \ {c}
    /\ UNCHANGED <<entry, ha, holdVars, retryable, fenced, shutVars, taskVars,
                   queueVars>>

\* The rest of cleanup_failed_setup.
CleanupEnds(c) ==
    /\ closer[c]["cleanup"] \in {"done", "failed"}
    /\ CloserTo(c, "cleanup", "idle")
    /\ runtime' = IF closer[c]["cleanup"] = "done" /\ runtime = c THEN NoCoord ELSE runtime
    /\ listening' = listening \ {c}
    /\ UNCHANGED <<entry, ha, holdVars, retryable, fenced, shutVars, taskVars,
                   queueVars>>

-----------------------------------------------------------------------------
\* Home Assistant's handler of the entry (config_entries) and __init__.py.

HaTo(pc, c) == ha' = [pc |-> pc, coord |-> c]

\* Nothing refers to this coordinator any more.
Unused(c) ==
    /\ c \notin {runtime, owner} /\ ~Live(c)
    /\ closer[c] = [k \in Closers |-> "idle"]
    /\ zone[c] = [z \in ZoneTasks |-> "off"]
    /\ reading[c] = {} /\ waiting[c] = {}

\* A slip: the listener marks the coordinator of the entry, not its own.
ListenersFire_OnEntry ==
    /\ retryable' = retryable \cup {runtime}
    /\ CancelStartups(listening)

\* The listener of ensure_startup_lifecycle, for the states that end a setup:
\* its effect on every coordinator that listens.
ListenersFire ==
    /\ retryable' = retryable \cup listening
    /\ CancelStartups(listening)

SetupBegins ==
    /\ ha.pc = "idle" /\ entry \in {"not_loaded", "retry"}
    /\ entry' = "setup"
    /\ HaTo("begin", NoCoord)
    /\ UNCHANGED <<holdVars, runtime, flagVars, taskVars, closer, queueVars>>

\* ConfigEntryNotReady: the runtime stays, the tasks of the entry do not.
NotReady ==
    /\ entry' = "retry"
    /\ HaTo("callbacks", NoCoord)
    /\ CancelZones(Coords)

\* Any other error: cleanup_failed_setup shuts the coordinator down.
SetupFails(c) ==
    /\ entry' = entry
    /\ HaTo("callbacks", NoCoord)
    /\ CancelZones(Coords)
    /\ StartClose(c, "cleanup")

\* The zone projection cannot be loaded.
StorageNotReady ==
    /\ ha.pc = "begin"
    /\ NotReady
    /\ UNCHANGED <<holdVars, runtime, flagVars, startVars, zone, deferred, monitor, lost,
                   readVars, closer, queueVars>>

\* A coordinator that was shutting down, or whose configuration has changed
\* since, must prove its shutdown before it is replaced.
BeginReplace ==
    /\ ha.pc = "begin" /\ runtime # NoCoord
    /\ HaTo("prove", runtime)
    /\ StartClose(runtime, "ha")
    /\ UNCHANGED <<holdVars, entry, runtime, retryable, fenced, listening, complete,
                   zoneVars, readVars, queueVars>>

Proved(c) ==
    /\ ha = [pc |-> "prove", coord |-> c] /\ closer[c]["ha"] = "done"
    /\ CloserTo(c, "ha", "idle")
    /\ HaTo("create", NoCoord)
    /\ runtime' = IF runtime = c THEN NoCoord ELSE runtime
    /\ listening' = listening \ {c}
    /\ UNCHANGED <<holdVars, entry, retryable, fenced, shutVars, taskVars, queueVars>>

ProofFails(c) ==
    /\ ha = [pc |-> "prove", coord |-> c] /\ closer[c]["ha"] = "failed"
    /\ CloserTo(c, "ha", "idle")
    /\ NotReady
    /\ UNCHANGED <<holdVars, runtime, flagVars, startVars, zone, deferred, monitor, lost,
                   readVars, queueVars>>

\* The 32 s are over: what async_shutdown awaits is cancelled.
ProofTimeout(c) ==
    /\ ha = [pc |-> "prove", coord |-> c] /\ closer[c]["ha"] \notin {"done", "failed"}
    /\ CloserTo(c, "ha", "idle")
    /\ NotReady
    /\ IF closer[c]["ha"] = "join" THEN CancelStartups({c}) ELSE UNCHANGED startVars
    /\ IF "ha" \in waiting[c] THEN Return(c, "ha") ELSE UNCHANGED queueVars
    /\ UNCHANGED <<holdVars, runtime, flagVars, zone, deferred, monitor, lost, readVars>>

\* A new startup task, which forgets how the last one ended.
NewStartup(c) ==
    /\ startup' = [startup EXCEPT ![c] = "created"]
    /\ outcome' = [outcome EXCEPT ![c] = "none"]
    /\ asked' = asked \ {c}
    /\ hit' = hit \ {c}
    /\ retryable' = retryable \ {c}
    /\ fenced' = fenced \ {c}
    /\ HaTo("slice", c)

\* OpenRBusCoordinator.__init__.
Create(c) ==
    /\ ha.pc \in {"begin", "create"} /\ runtime = NoCoord
    /\ Unused(c)
    /\ runtime' = c
    /\ NewStartup(c)
    /\ listening' = listening \cup {c}
    /\ shutting' = shutting \ {c}
    /\ complete' = complete \ {c}
    /\ platforms' = platforms \ {c}
    /\ abandoned' = abandoned \ {c}
    /\ deferred' = [deferred EXCEPT ![c] = NoTask]
    /\ lost' = [lost EXCEPT ![c] = {}]
    /\ monitor' = [monitor EXCEPT ![c] = NoTask]
    /\ UNCHANGED <<entry, owner, zone, zoneHit, readVars, closer, queueVars>>

-----------------------------------------------------------------------------
\* async_wait_for_initial_startup on the coordinator of an earlier setup.

\* A slip: a coordinator that was shutting down is used again.
Reused_Any(c) == ha.pc = "begin" /\ runtime = c

Reused(c) == ha.pc = "begin" /\ runtime = c /\ c \notin shutting

Listens(c) == listening' = listening \cup {c}

JoinCancelled(c) ==
    /\ Reused(c) /\ c \in asked
    /\ Listens(c)
    /\ HaTo("join", c)
    /\ UNCHANGED <<holdVars, entry, runtime, retryable, fenced, shutVars, taskVars,
                   closer, queueVars>>

WaitSlice(c) ==
    /\ Reused(c) /\ c \notin asked /\ Live(c)
    /\ Listens(c)
    /\ HaTo("slice", c)
    /\ UNCHANGED <<holdVars, entry, runtime, retryable, fenced, shutVars, taskVars,
                   closer, queueVars>>

FenceFirst(c) ==
    /\ Reused(c) /\ c \notin asked /\ ~Live(c) /\ c \in retryable /\ c \in fenced
    /\ Listens(c)
    /\ HaTo("fence", c)
    /\ Call(c, "ha")
    /\ UNCHANGED <<holdVars, entry, runtime, retryable, fenced, shutVars, taskVars,
                   closer>>

StartOver(c) ==
    /\ Reused(c) /\ c \notin asked /\ ~Live(c) /\ c \in retryable /\ c \notin fenced
    /\ Listens(c)
    /\ NewStartup(c)
    /\ UNCHANGED <<holdVars, entry, runtime, shutVars, zoneVars, readVars, closer,
                   queueVars>>

UseResult(c) ==
    /\ Reused(c) /\ c \notin asked /\ ~Live(c) /\ c \notin retryable
    /\ Listens(c)
    /\ IF outcome[c] = "ok"
       THEN /\ HaTo("forward", c)
            /\ platforms' = platforms \cup {c}
            /\ UNCHANGED <<entry, shutting, startVars, zoneHit, closer>>
       ELSE SetupFails(c) /\ UNCHANGED platforms
    /\ UNCHANGED <<abandoned, runtime, owner, retryable, fenced, complete, zone,
                   deferred, monitor, lost, readVars, queueVars>>

\* The cancelled startup has ended; its cleanup is proven or done again.
Joined(c) ==
    /\ ha = [pc |-> "join", coord |-> c] /\ ~Live(c)
    /\ IF c \in fenced \/ owner = c
       THEN HaTo("fence", c) /\ Call(c, "ha") /\ UNCHANGED <<startVars, retryable, fenced>>
       ELSE NewStartup(c) /\ UNCHANGED queueVars
    /\ UNCHANGED <<holdVars, entry, runtime, listening, shutVars, zoneVars,
                   readVars, closer>>

JoinTimeout(c) ==
    /\ ha = [pc |-> "join", coord |-> c] /\ Live(c)
    /\ CancelStartups({c})
    /\ NotReady
    /\ UNCHANGED <<holdVars, runtime, flagVars, zone, deferred, monitor, lost, readVars,
                   closer, queueVars>>

FenceWorks(c) ==
    /\ ha = [pc |-> "fence", coord |-> c]
    /\ Served(c, "ha") /\ StopWorks(c)
    /\ Return(c, "ha")
    /\ NewStartup(c)
    /\ UNCHANGED <<abandoned, entry, runtime, platforms, listening, shutVars,
                   zoneVars, readVars, closer>>

\* The stop fails, or exceeds its 8 s.
FenceFails(c) ==
    /\ ha = [pc |-> "fence", coord |-> c]
    /\ StopFails(c)
    /\ Return(c, "ha")
    /\ fenced' = fenced \cup {c}
    /\ NotReady
    /\ UNCHANGED <<abandoned, runtime, platforms, retryable, listening, shutVars,
                   startVars, zone, deferred, monitor, lost, readVars, closer>>

\* The startup has ended within the 15 s.
SliceEnds(c) ==
    /\ ha = [pc |-> "slice", coord |-> c] /\ ~Live(c)
    /\ \/ /\ outcome[c] = "ok"
          /\ HaTo("forward", c)
          /\ platforms' = platforms \cup {c}
          /\ UNCHANGED <<entry, shutting, startVars, zoneHit, closer>>
       \/ /\ outcome[c] \in {"timeout", "budget"}
          /\ NotReady
          /\ UNCHANGED <<platforms, shutting, startVars, closer>>
       \/ /\ outcome[c] \in {"fatal", "cancelled"}
          /\ SetupFails(c)
          /\ UNCHANGED platforms
    /\ UNCHANGED <<abandoned, runtime, owner, retryable, fenced, listening,
                   complete, zone, deferred, monitor, lost, readVars, queueVars>>

SliceTimeout(c) ==
    /\ ha = [pc |-> "slice", coord |-> c] /\ Live(c)
    /\ NotReady
    /\ UNCHANGED <<holdVars, runtime, flagVars, startVars, zone, deferred, monitor, lost,
                   readVars, closer, queueVars>>

-----------------------------------------------------------------------------
\* The end of a setup, unload, reload and removal.

Loads(c) ==
    /\ ha = [pc |-> "forward", coord |-> c]
    /\ entry' = "loaded"
    /\ HaTo("idle", NoCoord)
    /\ listening' = listening \ {c}
    /\ UNCHANGED <<holdVars, runtime, retryable, fenced, shutVars, taskVars, closer,
                   queueVars>>

ForwardFails(c) ==
    /\ "forward_fails" \in Happens
    /\ ha = [pc |-> "forward", coord |-> c]
    /\ SetupFails(c)
    /\ UNCHANGED <<holdVars, runtime, retryable, fenced, listening, complete, zone,
                   deferred, monitor, lost, readVars, queueVars>>

\* HA has waited for the unload callbacks, at most 10 s.
CallbacksEnd ==
    /\ ha.pc = "callbacks"
    /\ HaTo("idle", NoCoord)
    /\ IF entry = "retry"
       THEN entry' = entry /\ UNCHANGED <<retryable, startVars>>
       ELSE /\ entry' = IF entry = "setup" THEN "error" ELSE "not_loaded"
            /\ ListenersFire
    /\ UNCHANGED <<holdVars, runtime, fenced, listening, shutVars, zoneVars,
                   readVars, closer, queueVars>>

\* The user reloads an entry that is not loaded: the integration is not asked.
Reload ==
    /\ ha.pc = "idle"
    /\ \/ entry = "retry" /\ "reload_retry" \in Happens
       \/ entry = "error" /\ "reload_error" \in Happens
    /\ entry' = "not_loaded"
    /\ ListenersFire
    /\ UNCHANGED <<holdVars, runtime, ha, fenced, listening, shutVars, zoneVars,
                   readVars, closer, queueVars>>

UnloadBegins ==
    /\ ha.pc = "idle" /\ entry = "loaded"
    /\ entry' = "unloading"
    /\ HaTo("platforms", runtime)
    /\ ListenersFire
    /\ UNCHANGED <<holdVars, runtime, fenced, listening, shutVars, zoneVars,
                   readVars, closer, queueVars>>

PlatformsUnload(c) ==
    /\ ha = [pc |-> "platforms", coord |-> c]
    /\ platforms' = platforms \ {c}
    /\ HaTo("close", c)
    /\ StartClose(c, "ha")
    /\ UNCHANGED <<abandoned, entry, runtime, owner, retryable, fenced, listening,
                   complete, zoneVars, readVars, queueVars>>

\* A platform does not unload: the coordinator is left running.
PlatformsStay(c) ==
    /\ "unload_fails" \in Happens
    /\ ha = [pc |-> "platforms", coord |-> c]
    /\ entry' = "failed_unload"
    /\ HaTo("idle", NoCoord)
    /\ ListenersFire
    /\ UNCHANGED <<holdVars, runtime, fenced, listening, shutVars, zoneVars,
                   readVars, closer, queueVars>>

\* A slip: the error of the final stop is only logged.
Closed_Logged(c) ==
    /\ ha = [pc |-> "close", coord |-> c] /\ closer[c]["ha"] = "stop"
    /\ Served(c, "ha") /\ StopFails(c)
    /\ ReturnAll(c, {"ha"} \cup ZoneTasks) /\ CloserTo(c, "ha", "idle")
    /\ complete' = complete \cup {c}
    /\ listening' = listening \ {c}
    /\ runtime' = NoCoord
    /\ HaTo("callbacks", NoCoord)
    /\ CancelZones(Coords)
    /\ UNCHANGED <<platforms, abandoned, entry, retryable, fenced, shutting, startVars,
                   zone, deferred, monitor, lost, readVars>>

\* The final stop has worked: with no await in between the shutdown returns, the
\* unload succeeds, its callbacks find the shutdown complete, and HA cancels the
\* tasks of the entry, so a zone task behind the stop never gets its turn.
Closed(c) ==
    /\ ha = [pc |-> "close", coord |-> c] /\ closer[c]["ha"] = "stop"
    /\ Served(c, "ha") /\ StopWorks(c)
    /\ ReturnAll(c, {"ha"} \cup ZoneTasks) /\ CloserTo(c, "ha", "idle")
    /\ complete' = complete \cup {c}
    /\ listening' = listening \ {c}
    /\ runtime' = NoCoord
    /\ HaTo("callbacks", NoCoord)
    /\ CancelZones(Coords)
    /\ UNCHANGED <<platforms, abandoned, entry, retryable, fenced, shutting, startVars,
                   zone, deferred, monitor, lost, readVars>>

CloseFails(c) ==
    /\ ha = [pc |-> "close", coord |-> c] /\ closer[c]["ha"] = "failed"
    /\ CloserTo(c, "ha", "idle")
    /\ entry' = "failed_unload"
    /\ HaTo("idle", NoCoord)
    /\ ListenersFire
    /\ UNCHANGED <<holdVars, runtime, fenced, listening, shutVars, zoneVars,
                   readVars, queueVars>>

\* HA unloads what can be unloaded before async_remove_entry.
RemoveBegins ==
    /\ ha.pc = "idle" /\ entry \in {"not_loaded", "retry", "error", "failed_unload"}
    /\ HaTo("removing", NoCoord)
    /\ IF entry \in {"retry", "error"}
       THEN entry' = "not_loaded" /\ ListenersFire
       ELSE UNCHANGED <<entry, retryable, startVars>>
    /\ UNCHANGED <<holdVars, runtime, fenced, listening, shutVars, zoneVars,
                   readVars, closer, queueVars>>

RemoveEntry ==
    /\ ha.pc = "removing"
    /\ IF runtime = NoCoord
       THEN /\ entry' = "removed"
            /\ HaTo("idle", NoCoord)
            /\ UNCHANGED <<shutting, startVars, closer>>
       ELSE /\ HaTo("remove", runtime)
            /\ StartClose(runtime, "ha")
            /\ entry' = entry
    /\ UNCHANGED <<holdVars, runtime, retryable, fenced, listening, complete,
                   zoneVars, readVars, queueVars>>

\* HA removes the entry whether or not the shutdown has succeeded.
Removed(c) ==
    /\ ha = [pc |-> "remove", coord |-> c] /\ closer[c]["ha"] \in {"done", "failed"}
    /\ CloserTo(c, "ha", "idle")
    /\ entry' = "removed"
    /\ HaTo("idle", NoCoord)
    /\ runtime' = NoCoord
    /\ abandoned' = IF c \in complete THEN abandoned ELSE abandoned \cup {c}
    /\ listening' = listening \ {c}
    /\ UNCHANGED <<platforms, owner, retryable, fenced, shutVars, taskVars,
                   queueVars>>

\* The user configures the same controller again.
AddAgain ==
    /\ ha.pc = "idle" /\ entry = "removed"
    /\ entry' = "not_loaded"
    /\ UNCHANGED <<holdVars, runtime, ha, flagVars, taskVars, closer, queueVars>>

\* Home Assistant restarts: what it remembers of the controller is in memory.
Restart ==
    /\ "restart" \in Happens /\ entry # "removed"
    /\ entry' = "not_loaded"
    /\ runtime' = NoCoord
    /\ HaTo("idle", NoCoord)
    /\ owner' = NoCoord
    /\ platforms' = {} /\ abandoned' = {}
    /\ retryable' = {} /\ fenced' = {} /\ listening' = {}
    /\ shutting' = {} /\ complete' = {} /\ asked' = {} /\ hit' = {}
    /\ startup' = [c \in Coords |-> "none"]
    /\ outcome' = [c \in Coords |-> "none"]
    /\ zone' = [c \in Coords |-> [z \in ZoneTasks |-> "off"]]
    /\ zoneHit' = [c \in Coords |-> {}]
    /\ deferred' = [c \in Coords |-> NoTask]
    /\ monitor' = [c \in Coords |-> NoTask]
    /\ lost' = [c \in Coords |-> {}]
    /\ reading' = [c \in Coords |-> {}]
    /\ closer' = [c \in Coords |-> [k \in Closers |-> "idle"]]
    /\ serving' = [s \in Services |-> NoCoord]
    /\ waiting' = [c \in Coords |-> {}]
    /\ ahead' = [c \in Coords |-> [w \in Callers |-> {}]]

-----------------------------------------------------------------------------
StartupStep(c) ==
    \/ StartupRuns(c) \/ StartupConnects(c) \/ StartupReads(c) \/ StartupSucceeds(c)
    \/ StartupFails(c) \/ StartupCleansUp(c) \/ StartupCleanupFails(c)
    \/ StartupBudget(c) \/ StartupInterrupted(c)

ZoneStep(c, z) ==
    ZoneWakes(c, z) \/ ZoneReads(c, z) \/ ZonePassEnds(c, z) \/ ZoneInterrupted(c, z)

CloserStep(c, k) ==
    \/ CloserJoins(c, k) \/ CloserJoinTimeout(c, k) \/ CloserPreStops(c, k)
    \/ CloserPreStopped(c, k) \/ CloserPreStopFails(c, k) \/ CloserJoinsZones(c, k)
    \/ CloserJoinsPollers(c, k) \/ CloserPollersTimeout(c, k)
    \/ CloserStopped(c, k) \/ CloserStopFails(c, k)

WaitStep(c) ==
    \/ JoinCancelled(c) \/ WaitSlice(c) \/ FenceFirst(c) \/ StartOver(c) \/ UseResult(c)
    \/ Joined(c) \/ JoinTimeout(c) \/ FenceWorks(c) \/ FenceFails(c)
    \/ SliceEnds(c) \/ SliceTimeout(c)

EntryStep(c) ==
    \/ Proved(c) \/ ProofFails(c) \/ ProofTimeout(c) \/ Create(c)
    \/ Loads(c) \/ ForwardFails(c)
    \/ PlatformsUnload(c) \/ PlatformsStay(c) \/ Closed(c) \/ CloseFails(c) \/ Removed(c)

HandlerStep ==
    \/ StorageNotReady \/ BeginReplace \/ CallbacksEnd \/ RemoveEntry
    \/ \E c \in Coords : WaitStep(c) \/ EntryStep(c)

UserStep == SetupBegins \/ Reload \/ UnloadBegins \/ RemoveBegins \/ AddAgain

Next ==
    \/ UserStep
    \/ Restart
    \/ HandlerStep
    \/ \E c \in Coords :
        \/ StartupStep(c)
        \/ \E z \in ZoneTasks : ZoneStep(c, z)
        \/ \E w \in Readers : ReadBegins(c, w) \/ ReadReturns(c, w)
        \/ \E k \in Closers : CloserStep(c, k)
        \/ CleanupEnds(c)
    \/ \E s \in Services : ServiceCalls(s) \/ ServiceReturns(s)

Spec == Init /\ [][Next]_vars

\* What asyncio and the time limits guarantee: every task whose await is over is
\* resumed, every request to the backend returns, and every limit expires.
Fairness ==
    /\ WF_vars(HandlerStep)
    /\ \A c \in Coords :
        /\ WF_vars(StartupStep(c))
        /\ WF_vars(CleanupEnds(c))
        /\ \A z \in ZoneTasks : WF_vars(ZoneStep(c, z))
        /\ \A w \in Readers : WF_vars(ReadReturns(c, w))
        /\ \A k \in Closers : WF_vars(CloserStep(c, k))
    /\ \A s \in Services : WF_vars(ServiceReturns(s))

FairSpec == Spec /\ Fairness

-----------------------------------------------------------------------------
\* What is checked.

\* At most one startup task is alive over all coordinators of the entry: a new
\* generation never starts to connect while an older one still runs or cleans
\* up (async_wait_for_initial_startup, _async_prove_coordinator_shutdown).
OneLiveStartup == \A c, d \in Coords \ abandoned : Live(c) /\ Live(d) => c = d

\* An entry that is loaded serves a coordinator whose startup has succeeded and
\* that no late async_shutdown of an earlier setup is tearing down.
LoadedIsLive ==
    entry = "loaded" =>
        /\ runtime \in Coords /\ runtime \notin shutting
        /\ startup[runtime] = "done" /\ outcome[runtime] = "ok"

\* The controller is never held by a coordinator the entry has forgotten: whoever
\* holds the claim can still be found and stopped through entry.runtime_data.
NoForgottenOwner == owner \in {NoCoord, runtime} \cup abandoned

\* A completed async_shutdown means what its last comment says: the controller is
\* released, and no task of the coordinator takes it back later.
CompleteMeansReleased == \A c \in complete : owner # c

\* A startup that failed and still holds the controller is remembered as such, so
\* that the next attempt stops the backend before it connects.
UnprovenIsRemembered ==
    \A c \in Coords \ shutting :
        startup[c] = "done" /\ outcome[c] # "ok" /\ owner = c => c \in fenced \cup asked

-----------------------------------------------------------------------------
\* Why: the inductive invariant behind OneLiveStartup, LoadedIsLive and
\* ReplacedOnlyWhenProven.

\* A startup that is alive can be reached through the entry.
RuntimeLives == \A c \in Coords : Live(c) => c = runtime \/ c \in abandoned

\* A shutdown that has joined the startup, or is over, has none running.
ShutdownJoined ==
    \A c \in Coords :
        /\ c \in complete => c \in shutting /\ ~Live(c)
        /\ \A k \in Closers :
            /\ closer[c][k] # "idle" => c \in shutting
            /\ closer[c][k] \notin {"idle", "join", "failed"} => ~Live(c)
            /\ closer[c][k] = "done" => c \in complete

\* A setup that waits or forwards does so for the entry's coordinator, which
\* nobody is shutting down; unload and removal close no other one.
HandlerHolds ==
    /\ ha.pc \in {"join", "fence", "slice", "forward"} =>
            runtime = ha.coord /\ runtime \in Coords \ shutting
    /\ ha.pc \in {"platforms", "close", "remove"} => runtime \in {ha.coord, NoCoord}
    /\ ha.pc = "forward" => startup[runtime] = "done" /\ outcome[runtime] = "ok"
    /\ entry = "loaded" => ha.pc = "idle" /\ runtime \in Coords

NoResultYet == \A c \in Coords : startup[c] = "none" => outcome[c] = "none"

\* The conjunction, checked by TLC and proved inductive: every live startup belongs
\* to the runtime data, and every shutdown that claims to be over is over.
EntryInv == RuntimeLives /\ ShutdownJoined /\ HandlerHolds /\ NoResultYet /\ LoadedIsLive

-----------------------------------------------------------------------------
\* Why: the invariants behind OnlyStraysReclaim, CompleteMeansReleased,
\* NoForgottenOwner and UnprovenIsRemembered.

PollersJoined(c) == c \in complete \/ \E k \in Closers : closer[c][k] \in {"stop", "done"}
ZonesJoined(c) == PollersJoined(c) \/ \E k \in Closers : closer[c][k] = "pollers"

\* What a shutdown has joined does not come back: no poll once the pollers are
\* joined, and of the zone tasks only those that deferred had forgotten.
JoinedStaysJoined ==
    \A c \in Coords :
        /\ PollersJoined(c) => "poll" \notin reading[c]
        /\ \A z \in ZoneTasks : zone[c][z] # "off" =>
              z \in IF ZonesJoined(c) THEN lost[c] ELSE Tracked(c) \cup lost[c]

\* A cancellation that was asked for reaches the task before it can succeed.
CancelArrives ==
    \A c \in Coords :
        /\ outcome[c] = "ok" => startup[c] = "done" /\ c \notin asked
        /\ c \in asked /\ startup[c] \in {"created", "start", "zones"} => c \in hit
        /\ Live(c) /\ c \in hit \cup retryable => c \in asked

\* Only the runtime data's coordinator listens, and none once it is loaded;
\* a setup that ends in an error leaves it shutting down.
ListensForEntry ==
    /\ listening \subseteq {runtime}
    /\ entry = "loaded" \/ ha.pc = "platforms" => listening = {}
    /\ entry = "error" \/ (ha.pc = "callbacks" /\ entry # "retry") =>
            runtime \in shutting \cup {NoCoord}
    /\ entry = "unloading" => ha.pc \in {"platforms", "close", "callbacks"}
    /\ ha.pc \in {"begin", "prove", "create", "join", "fence", "slice", "forward"} =>
            entry = "setup"

\* A startup that has succeeded is not started over.
StartedOnce ==
    /\ \A c \in Coords \ shutting :
            outcome[c] = "ok" /\ c \in retryable => ha.pc = "removing" /\ c = runtime
    /\ ha.pc \in {"join", "fence"} => outcome[ha.coord] # "ok"
    /\ ha.pc = "join" /\ startup[ha.coord] \in {"created", "start", "zones"} =>
            ha.coord \in hit
    /\ ha.pc = "fence" => ~Live(ha.coord)

Busy(c) == reading[c] # {} \/ \E z \in ZoneTasks : zone[c][z] # "off"
Works(c) == Live(c) \/ Busy(c)

\* Readers and zone tasks follow a startup that has succeeded, so deferred never
\* forgets a task that lives.
WorkAfterSuccess ==
    \A c \in Coords :
        /\ lost[c] = {}
        /\ Busy(c) \/ Tracked(c) # {} => outcome[c] = "ok"

EntitiesStarted == \A c \in platforms : outcome[c] = "ok"

\* How startups and their results hang together, unless the user reloads an entry
\* that waits for its retry.
NoRevival == "reload_retry" \notin Happens
StartInv ==
    CancelArrives /\ ListensForEntry /\ StartedOnce /\ WorkAfterSuccess /\ EntitiesStarted

\* Where nothing leaves a reader behind: no service calls either, and no platform
\* that fails to set up or to unload.
NoStrays == NoRevival /\ Services = {} /\ Happens \cap {"forward_fails", "unload_fails"} = {}

\* Entities exist for the entry's coordinator, and nobody shuts it down.
EntitiesServed ==
    \A c \in platforms :
        /\ c = runtime /\ c \notin shutting
        /\ ha = [pc |-> "forward", coord |-> c] \/ ha.pc = "platforms" \/ entry = "loaded"

\* A refresh of the coordinator that still reads is served before the final stop.
StopIsLast ==
    \A c \in Coords : "bridge" \in reading[c] =>
        /\ "bridge" \in waiting[c]
        /\ \A k \in Closers : closer[c][k] = "stop" => "bridge" \in ahead[c][k]

\* Whoever may still take the controller can be found through the entry, and
\* after a completed shutdown there is nobody.
WorkersKnown ==
    /\ \A c \in complete : ~Works(c)
    /\ \A c \in Coords : Works(c) => c = runtime \/ c \in abandoned
    /\ abandoned \subseteq shutting

\* The conjunction under NoStrays, checked by TLC and proved inductive.
OwnerInv ==
    /\ JoinedStaysJoined /\ StartInv
    /\ EntitiesServed /\ StopIsLast /\ WorkersKnown
    /\ CompleteMeansReleased /\ NoForgottenOwner /\ UnprovenIsRemembered

\* The callers that async_shutdown neither cancels nor awaits.
Strays(c) == Services \cup {"bridge"} \cup lost[c]

\* After a completed shutdown, none of the startup task, the pollers and the zone
\* tasks the coordinator knows of takes the controller back.
OnlyStraysReclaim ==
    [][\A c \in complete : owner # c /\ owner' = c =>
            \E w \in Strays(c) : w \in waiting[c] /\ Served(c, w)]_vars

\* The coordinator of an entry is replaced or dropped only after its shutdown is
\* complete; only the removal of the entry drops it unproven.
ReplacedOnlyWhenProven ==
    [][runtime # NoCoord /\ runtime' # runtime =>
            runtime \in complete' \/ entry' = "removed" \/ Restart]_vars

\* Every handler of Home Assistant returns: a setup, an unload and a removal come
\* to an end although async_unload_entry and async_remove_entry set no limit.
HandlersReturn == ha.pc # "idle" ~> ha.pc = "idle"

=============================================================================
