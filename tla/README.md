# TLA+ project for ha-openrbus

`openrbus` is a Home Assistant integration that reads and writes the objects of
a heating appliance (R-Bus) over Bluetooth LE, either through an ESPHome proxy
that offers a small RPC service (Thin-RPC) or through a local Bluetooth adapter.
This directory models its own Python code
(`custom_components/openrbus/`). The wire protocol library (`openrbus` Core),
Home Assistant and the proxy firmware are not part of the repository's logic;
where the code meets them they are external and as free as the code has to
assume.

## 1. Inventory

Paths are under `src/custom_components/openrbus/`.

| Component | State | Operations | Interacts with | Hard behaviour |
|---|---|---|---|---|
| `ThinRpcBackend` lifecycle (`transport.py:1770-3177`) | started, claim flag, session, link, client, last disconnect sample, lifecycle lock, read lock | `async_start`, `async_stop`, `async_read_object(s)`, `async_discover_devices`, `async_write_object`; internally arm, establish, recover, clean up | coordinators call it from several tasks; proxy services; Core session | every `await` is an interleaving point; cancellation anywhere; acknowledgement of DISCONNECT is not the physical boundary; one recovery only |
| Controller registry (`transport.py:1773-1775, 1901-1931, 2096-2098`) | class-level set of active controllers, owner generations | claim, reuse, release | all backends of the process | several coordinator generations contend over reloads |
| Batched reads (`transport.py:418-592, 2544-2651`) | batch-event counters | batch, split, single fallback, recover the failed part | poll loop | object-local and session errors mixed in one batch |
| Thin-GATT channel (`transport.py:1308-1667`) | frame trace, counters | action, poll, diagnostics | ESPHome services | timeouts, malformed or foreign frames, queue left by the old link |
| Native backend (`transport.py:770-1043`) | transport, client, started | start, stop, read, discover | HA Bluetooth | reads without a lock while restart replaces the transport |
| Capability routing (`transport.py:1046-1277`) | none | service discovery, migration choice | config entry | ambiguous or partial services |
| Coordinator start-up and shutdown (`coordinator.py:242-666, 1029-1113`) | start-up task, shutting-down flag, availability, polling coordinators | start, wait with grace, cancel, retry, shut down with proof | entry setup/unload, backend | one task shared by several setup attempts; late failure; reads queued behind a shutdown |
| Zone discovery and monitor (`coordinator.py:668-1007`, `zones.py`) | zone profiles, zone states, manifest, retry timer | discover, publish, retry, monitor | backend, stores, entities | partial results, publication in the middle of a pass |
| Polling coordinator (`coordinator.py:1298-1733`) | registers, values, failure counts, disabled entities | poll, add, reactivate, expire | validity tracker, backend, entities | a poll in flight while registers change |
| Register validity (`validity.py`, `freshness.py`) | per-register counts, quarantine, time of first invalid value | observe, quarantine, reactivate, expire | polling coordinator | boundaries of counts and periods |
| Entry setup and unload (`__init__.py`) | runtime data, platforms, migration flag | set up, roll back, unload, remove, migrate | everything above | several steps, any of which may fail |
| Write gate (`register_entities.py:2117-2160`, `coordinator.py:1168-1247`) | effective access level | check, write, verify | entities, backend | stale access proof |
| Entity projection (`register_entities.py`, `sensor.py`, ...) | registry entries | create, group, migrate | HA registries | identity across migrations; mostly presentation |
| Time values (`time.py`, `hours_minutes.py`) | none | pack, unpack, sync | write gate | sentinels, boundaries |
| Stores (`access_storage.py`, `zone_projection_storage.py`) | persisted profiles | load, save | setup, zones | lost update, partial save |
| Config flow, diagnostics, observability, identity, provisioning | form data, counters | forms, dumps, counters | - | little control of their own |

What makes them correct:

* **Backend and registry**: one backend at a time owns a controller; it lets go
  only once no physical link of its own is up; a replacement behind the
  recovery fence starts on a new link; one task at a time drives the link; every
  call ends; stop releases everything.
* **Coordinator**: a shutdown that is reported as proven stays so; one start-up at a time;
  a cancelled start-up leaves nothing running.
* **Polling and validity**: a register is withheld only for a failure of the present
  session, and read again after a reactivation; a row is disabled only on a whole
  period of evidence; what the device answers is shown in the end.
* **Zones and stores**: a zone is polled only on a fresh positive read; no failure,
  reload or crash removes the rows or the record of a zone that exists; zones come back.
* **Entity rows**: what the user disabled stays so and what the user enabled comes back, through
  filters, migrations, zones and crashes; a register has one projection, and what is
  enabled is polled.
* **Setup**: failure at any step undoes the steps done; the runtime survives an
  unproven shutdown so that the next unload can try again.
* **Writes**: never without a current access proof.

## 2. Plan

Order: what shares the physical controller first, then what calls it, then what the calls
bring about. Done:

1. `ControllerLease`, `ThinLifecycle`: the backend and the claim on the controller.
2. `EntryLifecycle`: setup, unload and removal of a config entry with its coordinators,
   startup task, zone tasks, pollers and shutdown, over an abstract backend.
3. `RegisterPolling`: poll loop, validity tracker, what a batch answers, the write gate.
4. `ZoneProjection`: discovery passes, their schedules, the stored manifest, the cleanup
   and projection of rows.
5. `EntityProjection`: the registry rows of one register through setups, options,
   platforms, migrations and the user.

How they compose: `ThinLifecycle` implements `ControllerLease` (checked and proved).
`EntryLifecycle` uses a backend of which it assumes what `ThinLifecycle` shows.
`RegisterPolling` uses the same backend as a fair queue and a `zoneUp` that
`ZoneProjection` computes; `RegisterExpires` in `EntityProjection` is a retirement of
`RegisterPolling`; the `found.zone` of `EntityProjection` takes the values that
`ZoneProjection`'s states and records can have, and its startup, which ends before
the rows are touched, is `EntryLifecycle`'s. One specification of all would be a product of state
spaces that share only these few facts, so they meet in the text and not in a module.

Not done, in the order worth doing: the queue of `EntryLifecycle` as a refinement of the
two locks of `ThinLifecycle`; the migration probe; the store of access profiles; and
`NativeBackend` (section 6).

Nothing that is proved about uses a RECURSIVE operator.

## 3. Modules

| Module | What it is |
|---|---|
| `ControllerLease` | abstract: what the backends promise about one controller |
| `ControllerLeaseProofs` | its invariant proved |
| `ThinLifecycle` | the backend lifecycle in detail; properties, refinement mapping, inductive invariant |
| `ThinLifecycleProofs` | frame lemmas and type correctness |
| `ThinLifecycleSafety` | inductive invariant, safety theorems, refinement |
| `MCThinLifecycle` | TLC instance: symmetry sets |
| `EntryLifecycle` | one config entry and the coordinators of its setup generations |
| `EntryLifecycleProofs` | type correctness, the inductive invariant, and what follows from it |
| `EntryLifecycleOwnership` | who may hold the controller, with inductive invariants of its own |
| `MCEntryLifecycle` | TLC instance: symmetry sets |
| `RegisterPolling` | one polling coordinator, its tracker, rows and control writes |
| `RegisterPollingProofs` | type correctness and five safety properties proved |
| `MCRegisterPolling` | TLC instance: registers, environments |
| `ZoneProjection` | zone discovery of one node, its manifest and the rows it keeps |
| `ZoneProjectionProofs` | type correctness and three safety properties proved |
| `MCZoneProjection` | TLC instance: environments |
| `EntityProjection` | the rows of one register through setups |
| `EntityProjectionProofs` | type correctness and five safety properties proved |
| `MCEntityProjection` | TLC instance: the registers, options and findings looked at |

### ThinLifecycle and the code

One controller, several `ThinRpcBackend` objects (`Backends`: one per coordinator
generation), several asyncio tasks that may call into each (`Tasks`).
A task's `pc` names the `await` it stands at; an action is the code from that
`await` to the next one, so all interleavings asyncio allows are there and no
others. `ctx` tells which establishment a step belongs to (start, its re-fenced
second attempt, reprepare before a call, reprepare in recovery), `left` the
recoveries a call still has.

| Variable | Code |
|---|---|
| `proxy` | the proxy's `link_active` / `parent_connected` (both down, one up, both up) and the number of the physical link |
| `owner`, `owns` | `_active_controllers` with `_controller_owner_generations`; `_owns_controller` |
| `started`, `client`, `session` | `_started`; `client` (absent, of an earlier session, of this one); `session` with `link` (its state, its physical link, whether the authorizer finished) |
| `snapshot` | `_last_disconnect_snapshot` |
| `lifeLock`, `readLock` | holders of the two `asyncio.Lock`s |
| `binders` | history only: which backends' sessions attached to which link |

| Actions | Code |
|---|---|
| `Begin`, `TakeReadLock`, `EnterStart`, `AfterStart` | entry points, lock order, `async_start` up to its first await, `_ensure_session_ready`'s checks |
| `ArmCall`, `ArmBoundary`, `ArmTimeout`, `ArmReset` | `_arm_pairing_if_configured`, its one reset and re-arm |
| `SampleProxy`, `PrepareSession`, `SecureLink`, `Authorize` | `_establish_session` |
| `Miscorrelated`, `RefenceDisconnect`, `RefenceBoundary` | the correlation-error retry of `async_start` |
| `Reply`, `RequestFails`, `RecDisconnect`, `RecScoped`, `RecBoundary` | a request and `_recover_after_transport_loss` |
| `TakeLifeLock`, `EnterCleanup`, `CleanDisconnect`, `CleanBoundary`, `CleanTimeout`, `CleanScoped`, `Release`, `VerifyStop` | `_cleanup_owned_session`, `async_stop` |
| `SampleUp` | a sample in a boundary wait that shows a flag up |
| `StepFails`, `Cancel` | an exception, a timeout or a `CancelledError` at the await |
| `Proxy*`, `SessionLost` (external) | the proxy's link comes and goes on its own; Core's session notices later |

Abstracted: the wire (a request is answered or fails), metrics, traces and logging,
drained frames (`_drain_stale_frames` cannot fail and changes no state modelled
here), configuration errors that raise before the claim (no state changes; like a
call that ends at once). `PairMode` stands for what the pairing action's name and the
available services allow: no action, one without a sibling, one with a sibling, one
whose prefix also matches the request service (`_configured_disconnect_action`). A
session may be closed, or the guard of a retired session may or may not still find
its identity: both are choices, because Core decides them. Discovery's access-level
reads after its lock is released (`transport.py:2536-2540`) are reads of the same task.

### EntryLifecycle and the code

One config entry. Home Assistant runs its handlers (`async_setup_entry`,
`async_unload_entry`, `async_remove_entry`) one at a time; a coordinator object is made
per setup generation, and several may still be alive: the one in `entry.runtime_data` and
ones that a handler no longer waits for. An action is again the code between two
awaits. `Coords` are object names that are used again once nothing refers to the object
(`Unused`), so generations are not bounded; `ZoneTasks` likewise name tasks.

| Variable | Code |
|---|---|
| `entry`, `runtime`, `ha` | `ConfigEntry.state`; `entry.runtime_data`; the await at which HA's handler stands, with its coordinator |
| `platforms`, `abandoned` | coordinators with entities; those whose entry HA removed although their shutdown failed |
| `startup`, `outcome`, `asked`, `hit` | `_startup_task`: its await, what it raises, `task.cancelling() > 0`, a cancellation on its way |
| `retryable`, `fenced`, `listening`, `shutting`, `complete` | `_startup_retryable`, `_startup_cleanup_failed`, `_startup_lifecycle_unsubscribe`, `_shutting_down`, `_shutdown_complete` |
| `zone`, `zoneHit`, `deferred`, `monitor`, `lost` | the zone tasks; `_zone_discovery_task`, `_zone_profile_monitor_task`; tasks the first attribute forgot (history) |
| `reading`, `serving` | polls and the coordinator's own refresh in a read; service calls in a read |
| `closer` | each run of `async_shutdown`: HA's, and the one of `cleanup_failed_setup`, which HA stops waiting for after 10 s |
| `owner`, `waiting`, `ahead` | who holds the controller; who is in a backend, and behind whom |

| Actions | Code |
|---|---|
| `Startup*` | `async_start` under `_async_run_initial_startup`: backend start, discovery, zone pass, scheduling of the zone tasks, cleanup after an error, the 300 s and 8 s budgets, cancellation |
| `JoinCancelled`, `Joined`, `JoinTimeout`, `FenceFirst`, `FenceWorks`, `FenceFails`, `StartOver`, `WaitSlice`, `UseResult`, `SliceEnds`, `SliceTimeout` | `async_wait_for_initial_startup` |
| `Zone*` | `_async_retry_zone_discovery`, `_async_monitor_zone_profiles` |
| `ReadBegins`, `ReadReturns`, `ServiceCalls`, `ServiceReturns` | polls, `_async_update_data`, `read_object`, `read_group` |
| `StartClose`, `Closer*`, `CleanupEnds` | `async_shutdown`, `async_cancel_initial_startup`, `cleanup_failed_setup` |
| `SetupBegins`, `StorageNotReady`, `BeginReplace`, `Proved`, `ProofFails`, `ProofTimeout`, `Create`, `Loads`, `ForwardFails` | `async_setup_entry`, `_async_prove_coordinator_shutdown` |
| `UnloadBegins`, `PlatformsUnload`, `PlatformsStay`, `Closed`, `CloseFails`, `RemoveEntry`, `Removed` | `async_unload_entry`, `async_remove_entry` |
| `CallbacksEnd`, `Reload`, `RemoveBegins`, `AddAgain`, `Restart` (external) | what HA and its user do; `ListenersFire` is the state listener of `ensure_startup_lifecycle` |

The backend is abstracted: it serves its callers one at a time in the order they called
(`asyncio.Lock` is fair, and a stop takes both locks); a successful start or read leaves
the claim with its caller, a failed or interrupted one may or may not, and only a
successful stop gives it up. A claim held by another coordinator makes a use fail. That
a stop that raises keeps the claim is what `ThinLifecycle` shows.

Abstracted besides: whether the configuration has changed since the coordinator was made
(`BeginReplace` may always happen); the sizes of zone passes and polls; the several
poll groups (one poll stands for all, since async_shutdown joins one after the other and
stops only after the last); the migration to
stable registry ids and the service registration between the end of the startup and
the platforms (no await); the first refresh, which is one of the coordinator's own reads. The
awaitless stretch from the join of the startup to the first stop is two steps. The end of
the final stop, the rest of `async_unload_entry` and HA's cancellation of entry-owned tasks have no
await that suspends between them, so they are one step of a successful unload (`Closed`); other
callers of `async_shutdown` go on in a step of their own after `CloserStopped`, which only allows more. The
cancellation reaches zone tasks only, because the
pollers and the own refresh may also run on HA's timers, which it does not reach.

### RegisterPolling and the code

One `OpenRBusPollingCoordinator`. `Pollers` are refreshes that may be under way together (a
scheduled one and a requested one), `Writers` control writes. Ages count ticks and stop at `Period`,
because the code only ever asks whether the period is over.

| Variable | Code |
|---|---|
| `registers`, `data`, `rows` | `self.registers`; `self.data`; `disabled_by` of the registry rows |
| `invalid`, `itemErrors`, `expired`, `quarantined` | `RegisterValidityTracker`'s four dictionaries, with ages for the times of the first value |
| `scope`, `zoneUp`, `level`, `captured` | what `_object_failure_scope`, `zone_is_active` and `effective_access_levels` say; the level entities were created with |
| `poll`, `write`, `queue` | the await each refresh and write stands at, with its local variables; the backend's read lock and its waiters |
| `env` | which events, answers and levels a behaviour has; never changes |
| `validAge`, `brokenAge`, `failedNow` | history |

| Actions | Code |
|---|---|
| `PollBegins`, `ChunkBegins`, `PollEnds` | `_async_poll_data` up to its first read, from chunk to chunk, and its return; `ShouldPoll`, `Considered`, `StillQuarantined`, `Released` are its choice of registers |
| `ChunkAnswered`, `SessionFails`, `Recovered`, `ChunkRaises` | `async_read_objects` returned, met a session error, recovered, raised; `Learn` is what follows for each object: `observe`, `quarantine_deterministic_failure`, `_disable_expired_entities` |
| `WriteBegins`, `LevelRead`, `WriteVerified`, `ReadBack`, `WriteFails` | `_async_write`, `async_write_object` |
| `Reactivate`, `AddRegisters`, `UserSets`, `ZoneChanges`, `SessionChanges`, `ShutdownBegins`, `Reload`, `Tick` | services, platforms, the user, zone passes, other callers' sessions, the entry, the clock |

Abstracted: a value is valid or a sentinel, an error one of five kinds
(`DeviceAnswers`); names of scopes are used again once nothing refers to them. A
split, a rejected or a malformed GetList ends in an answer of its own for each object, so it is not
told apart from one.

### ZoneProjection and the code

The candidate slots of one node. The startup, retry and monitor tasks run their passes
one after the other, so there is one `pass` and a `runner` that owns it.

| Variable | Code |
|---|---|
| `device`, `store`, `slotRows`, `slotLive` | CP020 of each slot; the stored manifest; slots with registry rows; slots with entities |
| `zoneEntry`, `runner`, `attempts`, `asked` | the config entry; whose pass it is; passes of the retry task; a reload was scheduled |
| `cursor`, `pass` | `_ZONE_DISCOVERY_CURSOR` (module level, so a reload keeps it); the local variables of a pass, `shared` once it has published its dictionaries |
| `records`, `states`, `profiles`, `confirmed`, `blocked` | `zone_projection_history`, `zone_profile_states`, `zone_profiles`, `_zone_confirmed_active_slots`, `_zone_projection_store_blocked` |
| `lastOn`, `lastKnown`, `heard`, `withheld`, `overtaken` | history |

| Actions | Code |
|---|---|
| `ZonePassBegins`, `FunctionUnread`, `FunctionOff`, `FunctionStrange`, `FunctionOn`, `LabelRead` | `_async_discover_zone_profiles`, slot by slot; `Continues` and `Concludes` are its step to the next slot and its end, `ZoneReturns` what the startup, retry or monitor task does with its result |
| `SaveLands`, `SaveFails` | `async_save_zone_projection`, whose form of a record is `Storable` |
| `ZoneSetupBegins`, `ManifestUnavailable`, `ZoneSetupExpires`, `RowsCleanedUp`, `RowsProjected` | `async_setup_entry`, `cleanup_inactive_zone_entities` (`Stale`), `rows_for_parent` (`Projected`) |
| `ZoneReload`, `ReloadInRetry`, `ZoneRestart`, `DeviceChanges` | the entry, Home Assistant and the appliance |

Abstracted: a record is whether it names the slot's row, that of a clock companion, and
whether a label was read; the rows of a slot come and go together. So the model cannot show a record that names
some rows of its slot only, as the manifest does when a category is filtered (`register_entities.py:646-663`): the
rule that retires the unnamed rows of an unread slot (`register_entities.py:1807-1811`), a disjunct of `Stale`, is dead
here. In `EntityProjection` it is not: `unheard` includes it.

### EntityProjection and the code

The rows of one register. A register's rows are decided by its own traits, the
options and what the startup found, and by nothing about other registers, so one stands for all.
A platform's setup has no await between its registry steps, so it is one action.

| Variable | Code |
|---|---|
| `case`, `options`, `found` | the register's traits with the options and findings a behaviour may have; the saved options; what the startup of this setup found |
| `rows`, `tombs`, `pending`, `polled` | `disabled_by` of the row of each kind; HA's registry of removed rows; `_openrbus_sensor_migrations`; membership in a polling group |
| `stage`, `todo` | the entry; platforms still to come |
| `refused`, `wanted`, `expected` | history: what the user disabled, what the user enabled, what the setup would end with in the code's order |

| Definitions | Code |
|---|---|
| `Visible`, `Overridden`, `Migrated`, `Restored`, `Polling`, `Created` | `async_apply_diagnostic_visibility`, `async_apply_entity_overrides`, `cleanup_legacy_sensor_entities`, `restore_migrated_sensor_entities`, `ensure_polling_coordinators`, HA's creation of a row |
| `SensorsUp`, `FlagsUp`, `ControlsUp`, `ClocksUp` | `async_setup_entry` of `sensor`, `binary_sensor`, `number` (`select` and `switch` for other registers), `time` |
| `StartupFinds`, `RegistryTidied`, `PlatformComesUp`, `ClocksComeUp` | `async_setup_entry` of the integration |
| `UserDisables`, `UserEnables`, `RegisterExpires`, `EntityReload`, `OptionsSaved`, `EntityCrash` | the user, polling, the entry and Home Assistant |

`found.zone` is what the setup knows of the slot: `active`; `withheld`, active but its projection could not
be saved, so that its rows are neither listed nor removed; `disabled`; `kept`, not read, with a record
that names the row; `strange`, answering with a function number Core does not know, with such a record;
`unheard`, not known and without a record that names the row, so that the row is retired. The code treats `kept` and
`strange` alike except in `async_apply_entity_overrides`, which goes by the recorded function when
the slot was not read and by the number that was read when it was (`profile_for`). A choice is
`reset` when its key stays in the options with no value: it decides nothing, but the row counts as named by the user
(`register_entities.py:1242`).

Abstracted: names, units, devices, and in which group a register is polled; the user's deselection of
a whole zone, and objects that a zone's function does not support (`zone_row_enabled`).

## 4. Runs

| Run | Question | States |
|---|---|---|
| `handover` | two backends, every call, failure and cancellation: does the claim pass on only over a dead link, and is the lease implemented? | 1.6 M |
| `tasks` | two tasks in one backend: do lock order, recovery fence and stop hold, with the inductive invariant of the proofs? | 0.4 M |
| `calls` | does every call end, or hang in an await that the code leaves without a timeout? | 0.1 M |
| `entry_generations` | two generations: one startup, a live runtime, no forgotten owner, released when complete? With both inductive invariants of the proofs | 0.78 M |
| `entry_reloads` | with restarts, services, reloads in every state and failing platforms: who can still claim after a shutdown, and who may drop a coordinator? | 0.83 M |
| `entry_returns` | does every setup, unload and removal return? | 4,884 |
| `polling` | who is read, who is retired and on what evidence, what is written, and is a healthy register shown? | 0.23 M |
| `zones` | which zones are polled, which rows and records survive, and do zones come back? | 0.29 M |
| `entities` | do the user's choices survive every setup, in every order of the platforms? | 0.26 M |
| `entry_stray_doc` | (violated) does a completed shutdown cover every task, after a reload in retry and an unload that failed? | |
| `fence_doc` | (violated) is a replacement prepared only once both live flags are down? | |
| `ready_doc` | (violated) is every answered request on a session whose authorization completed? | |

**Bounds.** Two backends give every contention on one claim (claimant, owner,
cleaner-up); the third generation meets the same registry. Two tasks give every
conflict over two locks: one holds, one waits, and a third waiter would be one more
of the same. `handover` uses one task per backend and `tasks` one backend, because
the two kinds of interference meet only in `owner` and `proxy`. The proofs drop both
limits. `MaxLinks` is not a limit on how often the proxy reconnects: it is how many of
the *latest* links are told apart. When the numbers are used up `ProxyConnectOn` moves
every link down by one, and the two oldest, both dead, share a number; two suffices, because the
code only ever distinguishes the live link from an earlier one. `left` is the
code's own bound on recoveries. `calls` uses reads and stops only: they are the calls
that take both locks and that recover.
Deadlock is checked in every run.

`entry_generations` has two coordinators because an entry refers to at most one and a
late cleanup concerns one more; it has both readers and one zone task and leaves out
what `entry_reloads` adds (reloads in retry, services, failing platforms, restarts,
a second zone task), which in turn has one coordinator, reused.
The restriction matters for `CompleteMeansReleased`: it
holds in `entry_generations` because none of the callers that `async_shutdown` neither
cancels nor joins is there after the final stop; `OnlyStraysReclaim` names these callers (`Strays`) and says that in
`entry_reloads` nobody else ever takes the controller back.

`polling`, `zones` and `entities` give each behaviour one environment: the events, answers, options or findings that
may occur in it, chosen so that those which bear on one question occur together and in any
order. The proofs set no such limit.

* `polling`: two registers, because expiry and quarantine of one must not touch the other;
  one with two rows and one in a zone. Two refreshes are the most that overlap in a way the
  code could mind (a third is one more late answer), one writer beside them. `BatchSize` 1
  makes two chunks of two registers, `Period` 1 makes an interval last over a tick, and two scopes are the
  present and the last one, since names are used again.
* `zones`: two slots, one of them with a clock companion: what happens to one slot bears on another
  through the shared pass, the cursor and the manifest only. `MaxRetries` 2 has a retry
  that is not the last.
* `entities`: eight registers: a control, one inferred from the catalog (with and without a choice of the
  picker and of its group, set or put back), one in an optional filter, one in a zone (with a clock value and
  inferred, every finding of the slot), flags of a zone's bitfield, and a plain reading.

**Fairness** (`polling`). Weak fairness of each refresh's and each write's steps: every
await ends (`ThinLifecycle` says when), and the queue is first come, first served. Weak
fairness of `PollBegins`, since Home Assistant refreshes at every interval. No fairness
of the device, the session or the user; `ShownWhenHealthy` assumes only that the
register's own answers are good from some time on.

**Fairness** (`zones`). Weak fairness of `PassStep` (both schedules go on while the
coordinator lives, every read ends) and of `EntryStep` (Home Assistant retries a
setup and carries out a reload it was asked for). `ZonesReturn` supposes that reads and saves fail
only finitely often, and excuses two cases it names (below).

**Fairness** (`entry_returns`). Weak fairness of each task's next step and of HA's
handler: asyncio resumes a task whose await is over, every await in question has a time
limit in the code (startup 300 s, cleanup 8 s, join 9 s, proof 32 s, slice 15 s, HA's callbacks 10 s), and every
request to the backend returns (`ThinLifecycle` says when). No fairness of the user or of new reads.

**Fairness** (`calls`). Weak fairness of `BoundedStep`: each of these awaits
has a timeout in the code (`_THIN_DISCONNECT_TIMEOUT`, `_THIN_SECURE_TIMEOUT`, the
request timeout), so it ends, by success, failure or timeout. Strong fairness of `LockStep`:
`asyncio.Lock` wakes its waiters in order. Nothing is assumed of the proxy, of
cancellation or of the awaits without a timeout (`UnboundedPCs`: the pair and
disconnect service calls and the diagnostics call that opens `_establish_session`), so
the property says a call ends *or* some task of its backend stands in one of those for
ever. (A start's own cleanup has an 8 s limit, so there the second case cannot last; the
property does not claim that.)

**What the violations show.**

* `entry_stray_doc`: a startup can succeed while the entry waits for its retry. A reload in that
  state marks it retryable, so the next setup starts the same coordinator over and
  `_zone_discovery_task` is overwritten while its old task sleeps (`coordinator.py:486`).
  `async_shutdown` cancels and joins only what the attribute holds. An unload that succeeds hides this:
  Home Assistant cancels the entry's tasks in the same step in which the shutdown completes (`Closed`). But after an
  unload whose platforms fail it cancels nothing, and the removal of that entry shuts the coordinator down
  with the forgotten task alive. Its read, queued behind the final stop, claims the controller again
  after `_shutdown_complete` is set. The comment at `coordinator.py:1111-1112` says that cannot be. It takes
  the reload in retry and a failed unload; that may also be one whose own shutdown raises (`CloseFails`), then with a longer
  trace. Services and pollers are left out, because they reclaim without the reload.

* `fence_doc`: recovery retires the session before the boundary is proved. If that
  wait times out or is cancelled, the call fails as documented, but the next call
  sees only "not connected" and establishes at once (`transport.py:3002-3005`), on
  the link that is still up. `docs/thin-rpc-observability.md:45-46, 58-59` says this
  does not happen. Within one fenced recovery it does not: that is
  `FencedReplacementIsFresh`, which holds.
* `ready_doc`: `self.client` is published before the authorizer runs
  (`transport.py:3147, 3156-3177`). A reprepare cancelled in between is not cleaned up
  (`except Exception`), and the session it leaves is connected, so the next read is sent on it without
  authorization. `PairMode = "none"` makes the trace short; it plays no part.

**What the models show beyond the runs.** Behaviours met while modelling that no run
reports. They are choices of the code rather than contradictions, or they lie outside a property, which says so:

* Polling. A refresh that read its chunk before a write replaces the published data after it, and takes
  back the confirmed read-back until the next one (`register_entities.py:2525`). A read-back is
  published past the tracker, so one that is a sentinel is shown as a value. A register that is expired *and*
  quarantined stays so when the session changes, because expiry is tested first
  (`coordinator.py:1476`); only a reactivation ends it. A write that has passed its gate and waits
  for the backend is not stopped by a lower level that another write's read finds meanwhile.
  `write_object` at configured level 1 goes out although no level was read: `WritesAreProven` says so.
* Zones. A zone with a record which a setup left out because a save had just failed
  stays out for the rest of that session: when the next save works nothing has changed that would
  schedule a reload (`coordinator.py:888-892`). This is `withheld` in `ZonesReturn`. A setup retry while a pass
  is under way loads the stored manifest over the records of the pass (`__init__.py:386`):
  `overtaken` in `RecordsSurvive`. The manifest names a clock companion with a suffix that
  storage does not accept, so a slot with one differs from its stored record in every
  session, and when a retry or the monitor is the first to read it the entry is reloaded though nothing is new. A user's reload in the
  middle of a setup retry may leave two passes of one coordinator side by side; that is
  `entry_stray_doc`, and not in `ZoneProjection`.
* Entities. A row of a diagnostic or optional category that the picker switched off is
  disabled by the overrides, which only the sensor platform applies, and enabled again by
  the visibility pass of every platform after it. So with a choice of its own a row may depend on the order of
  the platforms: `OrderIsFree` speaks of the others. The user's choice of an inferred write that the appliance
  lacks is lost in a setup that finds no access, or its slot with an unknown function: the overrides then disable
  the row and nothing enables it again (`register_entities.py:1319-1360`; `Standing` names this). In such a slot a row that
  returns from its tombstone stays enabled if it comes back after the sensor platform, so there the order of the
  platforms matters as well. An old enabled sensor or control of such a
  write joins its polling group (`_poll_row_selected`, `register_entities.py:1060`, whose docstring says so; `OptsIn` in `Polling`), while
  `docs/entity-overrides.md:54-58` says that only the picker can activate it. `EnabledIsPolled` does not take sides:
  of absent registers it speaks only where an option asks for the row.
  A user's refusal of a sensor is lost when writing turns it into a control (`Moved`), and that of a
  control when Home Assistant stops between migration and restoration (`EntityCrash`). The `time` row of a
  control that goes stays enabled without an entity. Flags are made only for a level that was read
  (`binary_sensor.py:39-42`), while the other platforms go by the configured level 1: the flags of a slot
  that was gone and returns stay away until then, also those the user enabled (`ChoiceStands` says so).

## 5. Proofs

`ThinLifecycleProofs` proves `TypeCorrect`; `ThinLifecycleSafety` the rest, for every
set of backends and tasks, every `PairMode`, every `MaxLinks > 1`, every subset of
operations. `LifecycleAssumption` is all that is assumed.

`LifecycleInv` is inductive and has these parts:

* `TaskInv`: which steps can belong to which operation (`Shape`); steps between
  taking and releasing a lock hold it; a reading task runs on a started backend, a
  starting one on a claimed and not started one. From it `OneActive`: two tasks that
  talk to the proxy are the same task. A starter holds the lifecycle lock and
  the backend is not started; a reader holds the read lock and it is; a cleaner holds
  the lifecycle lock and, unless it began as a starter, the read lock as well.
* `RegistryAgrees` and `SessionNeedsClaim`: with them, that task's backend is the owner.
  They are theorems of their own, `RegistryInStep` and `ClaimCovers`.
* `LiveLinkOwned`: only the owner can have attached to the link that is up. This is
  what makes release safe although the proxy may reconnect between the sample and
  the release: a reconnected link has no users yet, and only the task that is
  releasing could add one (`ReleasedLinkIsDead`).
* `Fenced`: between a fence and the replacement session the live link has no user.
* `SnapshotSettled`: what stop's self-check reads.

None of these is inductive alone: `LinkHasOneUser` needs `LiveLinkOwned`, which needs
`ReleasedLinkIsDead`, which needs `OneActive`. `Refinement` shows that every step maps to a
step of `ControllerLease` or a stutter; its mapping is `owner`, "any flag up", the link number
and `binders`.

`EntryLifecycleProofs` proves, for every set of coordinators, zone tasks, services,
readers and external events, `TypeCorrect` and `EntrySafe` (`EntryInv`), and from it
`StartupsAlone`, `LoadedServes` and `ReplacementProven`, assuming only that the names are
different (`ModelAssumption`). `EntryInv` is inductive:

* `RuntimeLives`: a startup that is alive belongs to the runtime data (or to an entry removed
  without proof). Preserved because the runtime data change only after a proof.
* `ShutdownJoined`: past its join, a run of `async_shutdown` has no live startup beneath it,
  and no setup starts one: setups wait only for coordinators that nobody shuts down.
* `HandlerHolds`: that last fact, and what the handler's coordinator has to do with the entry's.
* `NoResultYet`, `LoadedIsLive`: a loaded entry has a successful startup.

`OneLiveStartup` is not inductive alone: that a replaced coordinator has no startup needs
`ShutdownJoined`, and that needs `HandlerHolds`.

`RegisterPollingProofs` proves, for any registers, rows, refreshes, writers, batch size, period and
environments (`PollAssumption`), `PollTypes` and five properties. `PollInv` adds to the types that
a result a refresh holds between chunks has no open session error, and
`EvidenceKept`: an interval is never older than the evidence for it, which is what
makes "the interval has lasted a period" mean "no good answer for a period". `QuarantineIsCurrent` is an
invariant of its own: a record that equals the present scope was made by a refresh that
started in it, and no scope comes back. The action properties follow per action from these.

`ZoneProjectionProofs` proves, for any number of slots, `ZoneTypes`, `ActiveFresh`,
`RowsStay` and `RecordsStay` under `ZoneAssumption`:

* `ZoneInv`: types and `Fresh`, which splits what was published before and in the present pass.
* `EvidenceInv` for `RowsKept`: every record names its row (`RowsNamed`), what counts as disabled was read so and
  what was heard is confirmed (`Grounded`), and for zones this session has not heard of
  memory, disk and the pass agree on who has a record (`Remembered`). `RowsKept` needs the last one
  because the cleanup looks at memory and the property at the disk.
* `SurvivalInv` for `RecordsSurvive`: a record missing from the pass's copy belongs to a slot the
  pass has visited. That slots are visited once is `SlotNotVisited`, arithmetic modulo `SlotCount`.

`EntryLifecycleOwnership` is about the claim on the controller, in three steps.

* No hypothesis: `JoinedStays` (what a shutdown has joined stays joined), and with `OwnerUsed` (nobody becomes
  the owner but a caller whose turn it is) `StraysOnly`: after a completed shutdown only service calls, the
  coordinator's own refresh and forgotten zone tasks take the controller back.
* `NoRevival`, that is, no reload of an entry that waits for its retry: `StartsOnce`. `StartInv` says that a startup which was told
  to stop cannot succeed before it hears of it (`CancelArrives`), that only the entry's coordinator is ever
  told to start over (`ListensForEntry`), hence that a startup which has succeeded is not started over
  (`StartedOnce`), hence that what reads follows its success and no zone task is overwritten while it
  lives (`WorkAfterSuccess`). With it and without service calls, `FailureRemembered`.
* `NoStrays`, that is, besides no service calls and no failing platforms: `OwnershipSafe`, and from it
  `CompleteReleases` and `OwnerIsFound`. `OwnerInv` adds that entities are served only by the entry's
  coordinator (`EntitiesServed`), that a refresh which is under way when the final stop
  enters the queue stands before it (`StopIsLast`), and hence that nobody works for a completed
  coordinator and whoever works is found through the entry (`WorkersKnown`).

The hypotheses are what the code needs. With a reload in retry `StartedOnce` is false, and a completed shutdown does
not mean a release once the platforms have failed to unload (`entry_stray_doc`); TLC shows the same of a service call, a platform that fails to
set up and one that fails to unload, each on its own: a caller then outlives the shutdown.

`EntityProjectionProofs` proves, for any set of cases, `EntityTypes`, `RefusalsStand`, `OneProjection`,
`EnabledPolled`, `AnyOrder` and `ChoicesStand` under `EntityAssumption`. `EntityInv` adds to the types
`Projected` (a sensor and a control never have rows together; what is pending belongs to a sensor that is
still to come; `Good` in the middle of a setup) and `Refuses`: each refused row is there and the user's, or
removed with the user's mark, or pending with it. The last part is why `RefusalStands` is not
inductive alone: in the middle of a migration the refusal is in none of the rows. Each step of a setup is a
lemma about an arbitrary state `s`, so the order of the platforms plays no part.

`AnyOrder` and `ChoicesStand` need to know what a setup makes of a row in the end. `Brought` says what one platform
makes of it, `Ahead` what all those still to come do, in closed form, and `Final` adds the clock
companions. `OrderInv` says that `Final` of the present rows is `expected`: whichever platform comes up, `Ahead`
stays what it was (`AheadStays`), and once none is left it is the rows themselves. `ChoiceInv` follows a row
the user enabled: it is enabled, or hidden with its category, or in its tombstone, or on its way
from the control to the sensor (`Kept`), and every step of a setup leaves it so (`Keeps`).

Only model-checked: `CallsEndOrHang`, `HandlersReturn`, `ShownWhenHealthy` and `ZonesReturn`. They are liveness
properties, out of the prover's reach. Every invariant and action property of the passing runs is
proved. Only shown by counterexample: the findings.

## 6. Not modelled

"components" in `PROJECT.json` gives the status of every part. In short:

* *Thin-GATT channel, native backend*: they wrap Core and bleak objects that are
  not in the repository. Their awaits are in `ThinLifecycle` (Thin-RPC) as calls that succeed,
  fail or time out; what a closed native transport does to a read cannot be told from this code.
* *Frames and batches on the wire*: matching of frames, the drain of at most 32 and the equivalence of
  GetList and single reads belong to Core.
* *Migration probe, access-profile store*: two controllers and several entries at once; every
  model here is of one entry and one controller. Both are listed as hazards.
* *Range, step and evidence checks of a write*: Core's, stateless.
* *Capability routing, clock values, freshness*: pure functions of a few values without state,
  which table tests cover.
* *Config and options flow, diagnostics, observability, identity, provisioning, names and units, the firmware template*:
  forms, wording, counters and constants on which no control depends. What the options flow
  leaves behind (saved options and a reload) is in `EntityProjection`.
