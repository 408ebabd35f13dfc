---------------------------- MODULE ThinLifecycle ----------------------------
(***************************************************************************)
(* The lifecycle of ThinRpcBackend (transport.py:1770-3177) around one     *)
(* ESPHome controller: claim, pairing arm, session establishment, one      *)
(* re-fenced retry, reads with one bounded recovery, writes, cleanup and   *)
(* stop.  Every await of the code ends a step, so tasks of one backend     *)
(* interleave at awaits, several backends (coordinator generations)        *)
(* contend for the controller, any await may fail, time out or be          *)
(* cancelled, and the proxy's physical link comes and goes on its own.     *)
(*                                                                         *)
(* A step labelled p is the code from await p to the next await.           *)
(***************************************************************************)
EXTENDS Naturals, FiniteSets

CONSTANTS
  Backends,   \* ThinRpcBackend objects, one per coordinator generation
  NoBackend,
  Tasks,      \* asyncio tasks that may call into one backend
  NoTask,
  MaxLinks,   \* bound: how many of the latest physical links are told apart
  PairMode,   \* how much of the pairing action is configured
  Calls       \* operations the tasks call

(* "none": no pair action.  "bare": one without a disconnect sibling.      *)
(* "sibling": the disconnect sibling exists, without the explicit ESPHome  *)
(* prefix.  "scoped": pair and request services share that prefix.         *)
PairModes == {"none", "bare", "sibling", "scoped"}

Ops == {"start", "read", "discover", "write", "stop"}

ASSUME LifecycleAssumption ==
  /\ NoBackend \notin Backends
  /\ NoTask \notin Tasks
  /\ MaxLinks \in Nat \ {0, 1}
  /\ PairMode \in PairModes
  /\ Calls \subseteq Ops

PairAction   == PairMode # "none"
ResetAction  == PairMode \in {"sibling", "scoped"}
ScopedAction == PairMode = "scoped"

VARIABLES
  proxy,     \* [phase, link]: the two live connection flags and the link's number
  owner,     \* class registry: _active_controllers, _controller_owner_generations
  owns,      \* _owns_controller
  started,   \* _started
  client,    \* self.client: none, built for an earlier session, or for this one
  session,   \* self.session with its link
  snapshot,  \* _last_disconnect_snapshot
  lifeLock,  \* holder of _lifecycle_lock
  readLock,  \* holder of _read_lock
  task,      \* where each task stands
  binders    \* history: for each link, the backends whose session attached to it

vars == <<proxy, owner, owns, started, client, session, snapshot,
          lifeLock, readLock, task, binders>>

Links  == 1 .. MaxLinks
NoLink == 0

ArmPCs   == {"armCall", "armWait", "armReset", "armRewait"}
EstPCs   == {"sample", "prepare", "secure", "authorize"}
FencePCs == {"refence", "refenceWait"}
CleanPCs == {"cleanEnter", "cleanDisc", "cleanWait", "cleanScoped", "cleanRewait", "release"}
RecPCs   == {"recDisc", "recScoped", "recWaitArm", "recWait"}
LockPCs  == {"rdlock", "stlock", "splock", "cleanLock"}
PCs == {"idle", "request", "verify"}
         \cup ArmPCs \cup EstPCs \cup FencePCs \cup CleanPCs \cup RecPCs \cup LockPCs

(* The steps that talk to the proxy.                                       *)
LinkPCs == {"request"} \cup ArmPCs \cup EstPCs \cup FencePCs \cup RecPCs
             \cup (CleanPCs \ {"cleanEnter"})

(* The boundary waits: _wait_for_physical_disconnect.                      *)
WaitPCs == {"armWait", "armReset", "armRewait", "refenceWait",
            "cleanWait", "cleanRewait", "recWaitArm", "recWait"}

(* Service calls without a timeout of their own.                           *)
UnboundedPCs == {"armCall", "armReset", "cleanScoped", "recScoped", "sample"}

(* none; first or second establishment in async_start; reprepare of a lost *)
(* session; reprepare behind the recovery fence.                           *)
Contexts == {"none", "start", "restart", "ensure", "recover"}

Idle == [pc |-> "idle", op |-> "start", ctx |-> "none", left |-> 0]

(* A session object: created, attached to a link, closed by Core, or       *)
(* retired by the backend; authorized once its whole preparation is done.  *)
SessionStates == {"none", "made", "open", "closed", "retired"}
NoSession    == [state |-> "none", link |-> NoLink, authorized |-> FALSE]
FreshSession == [state |-> "made", link |-> NoLink, authorized |-> FALSE]

(* Both live flags down, exactly one up, both up.                          *)
Phases == {"down", "partial", "up"}

TypeOK ==
  /\ proxy \in [phase : Phases, link : 0 .. MaxLinks]
  /\ owner \in Backends \cup {NoBackend}
  /\ owns \in [Backends -> BOOLEAN]
  /\ started \in [Backends -> BOOLEAN]
  /\ client \in [Backends -> {"none", "stale", "current"}]
  /\ session \in [Backends -> [state : SessionStates, link : 0 .. MaxLinks,
                               authorized : BOOLEAN]]
  /\ snapshot \in [Backends -> Phases \cup {"none"}]
  /\ lifeLock \in [Backends -> Tasks \cup {NoTask}]
  /\ readLock \in [Backends -> Tasks \cup {NoTask}]
  /\ task \in [Backends -> [Tasks -> [pc : PCs, op : Ops, ctx : Contexts, left : 0 .. 2]]]
  /\ binders \in [Links -> SUBSET Backends]

(* After a restart of Home Assistant the bonded link may still be up.      *)
Init ==
  /\ proxy \in {[phase |-> "down", link |-> 0], [phase |-> "up", link |-> 1]}
  /\ owner = NoBackend
  /\ owns = [b \in Backends |-> FALSE]
  /\ started = [b \in Backends |-> FALSE]
  /\ client = [b \in Backends |-> "none"]
  /\ session = [b \in Backends |-> NoSession]
  /\ snapshot = [b \in Backends |-> "none"]
  /\ lifeLock = [b \in Backends |-> NoTask]
  /\ readLock = [b \in Backends |-> NoTask]
  /\ task = [b \in Backends |-> [t \in Tasks |-> Idle]]
  /\ binders = [k \in Links |-> {}]

-----------------------------------------------------------------------------
(* Task plumbing.                                                          *)

claimVars == <<owner, owns>>
linkVars  == <<client, session>>
lockVars  == <<lifeLock, readLock>>

At(b, t, p) == task[b][t].pc = p

Goto(b, t, p) == task' = [task EXCEPT ![b][t].pc = p]

GotoIn(b, t, p, c) == task' = [task EXCEPT ![b][t].pc = p, ![b][t].ctx = c]

(* The operation returns or raises: its async-with blocks release.         *)
EndOp(b, t) ==
  /\ task' = [task EXCEPT ![b][t] = Idle]
  /\ lifeLock' = [lifeLock EXCEPT ![b] = IF @ = t THEN NoTask ELSE @]
  /\ readLock' = [readLock EXCEPT ![b] = IF @ = t THEN NoTask ELSE @]

IsOpen(b) == session[b].state = "open"

(* A dispatched DISCONNECT that is acknowledged retires the local session; *)
(* one that fails leaves it.  Neither proves anything about the link.      *)
Dispatched(b) ==
  \/ /\ session[b].state # "none"
     /\ session' = [session EXCEPT ![b].state = "retired"]
  \/ UNCHANGED session

(* A diagnostics sample that shows both live flags down.                   *)
SampleDown_LinkFlagOnly(b) ==
  /\ proxy.phase # "up"
  /\ snapshot' = [snapshot EXCEPT ![b] = "down"]

SampleDown(b) ==
  /\ proxy.phase = "down"
  /\ snapshot' = [snapshot EXCEPT ![b] = "down"]

-----------------------------------------------------------------------------
(* The proxy and its BLE client (external).                                *)

(* A new physical link, with a number of its own.                          *)
ProxyConnect ==
  /\ proxy.phase = "down" /\ proxy.link < MaxLinks
  /\ proxy' = [phase |-> "partial", link |-> proxy.link + 1]
  /\ UNCHANGED <<claimVars, started, linkVars, snapshot, lockVars, task, binders>>

(* The same once the numbers are used up: every link moves down by one and *)
(* the two oldest, both long dead, share number 1.                         *)
ProxyConnectOn ==
  /\ proxy.phase = "down" /\ proxy.link = MaxLinks
  /\ proxy' = [proxy EXCEPT !.phase = "partial"]
  /\ session' = [b \in Backends |->
                   [session[b] EXCEPT !.link = IF @ > 1 THEN @ - 1 ELSE @]]
  /\ binders' = [k \in Links |-> IF k < MaxLinks THEN binders[k + 1] ELSE {}]
  /\ UNCHANGED <<claimVars, started, client, snapshot, lockVars, task>>

ProxyReady ==
  /\ proxy.phase = "partial"
  /\ proxy' = [proxy EXCEPT !.phase = "up"]
  /\ UNCHANGED <<claimVars, started, linkVars, snapshot, lockVars, task, binders>>

ProxyDrop ==
  /\ proxy.phase = "up"
  /\ proxy' = [proxy EXCEPT !.phase = "partial"]
  /\ UNCHANGED <<claimVars, started, linkVars, snapshot, lockVars, task, binders>>

ProxyDown ==
  /\ proxy.phase = "partial"
  /\ proxy' = [proxy EXCEPT !.phase = "down"]
  /\ UNCHANGED <<claimVars, started, linkVars, snapshot, lockVars, task, binders>>

(* Core's session learns that its link is gone.                            *)
SessionLost(b) ==
  /\ IsOpen(b)
  /\ proxy.phase # "up" \/ proxy.link # session[b].link
  /\ session' = [session EXCEPT ![b].state = "closed"]
  /\ UNCHANGED <<proxy, claimVars, started, client, snapshot, lockVars, task, binders>>

-----------------------------------------------------------------------------
(* Entry points and the two locks.                                         *)

(* Recoveries one call may make: a read one, discovery one for the bus and *)
(* one for the capabilities, a write none.                                 *)
Recoveries(op) == CASE op = "read" -> 1 [] op = "discover" -> 2 [] OTHER -> 0

Begin(b, t, op) ==
  /\ At(b, t, "idle")
  /\ task' = [task EXCEPT ![b][t] =
                [pc |-> IF op = "start" THEN "stlock" ELSE "rdlock",
                 op |-> op, ctx |-> "none", left |-> Recoveries(op)]]
  /\ UNCHANGED <<proxy, claimVars, started, linkVars, snapshot, lockVars, binders>>

TakeReadLock_StopSkips(b, t) ==
  /\ At(b, t, "rdlock")
  /\ readLock[b] = NoTask \/ task[b][t].op = "stop"
  /\ readLock' = [readLock EXCEPT ![b] = IF task[b][t].op = "stop" THEN @ ELSE t]
  /\ Goto(b, t, IF task[b][t].op = "stop" THEN "splock" ELSE "stlock")
  /\ UNCHANGED <<proxy, claimVars, started, linkVars, snapshot, lifeLock, binders>>

(* Reads, writes and stop take the read lock before the lifecycle lock.    *)
TakeReadLock(b, t) ==
  /\ At(b, t, "rdlock")
  /\ readLock[b] = NoTask
  /\ readLock' = [readLock EXCEPT ![b] = t]
  /\ Goto(b, t, IF task[b][t].op = "stop" THEN "splock" ELSE "stlock")
  /\ UNCHANGED <<proxy, claimVars, started, linkVars, snapshot, lifeLock, binders>>

(* What a started backend's caller does next: async_start returns, and a   *)
(* read checks client and session (_ensure_session_ready); discovery goes  *)
(* straight to its request.                                                *)
AfterStart(b, t) ==
  LET this == task[b][t]
      straight == this.op = "discover" /\ this.ctx # "recover"
  IN  \/ /\ this.op = "start" \/ client[b] = "none"
         /\ EndOp(b, t)
      \/ /\ this.op # "start" /\ client[b] # "none"
         /\ IF straight \/ IsOpen(b)
            THEN GotoIn(b, t, "request", "none")
            ELSE GotoIn(b, t, "sample", IF this.ctx = "recover" THEN "recover" ELSE "ensure")
         /\ lifeLock' = [lifeLock EXCEPT ![b] = IF @ = t THEN NoTask ELSE @]
         /\ UNCHANGED readLock

EnterStart_NoOwnerCheck(b, t) ==
  /\ At(b, t, "stlock")
  /\ lifeLock[b] = NoTask
  /\ \/ /\ started[b]
        /\ AfterStart(b, t)
        /\ UNCHANGED claimVars
     \/ /\ ~started[b]
        /\ owner' = b
        /\ owns' = [owns EXCEPT ![b] = TRUE]
        /\ lifeLock' = [lifeLock EXCEPT ![b] = t]
        /\ GotoIn(b, t, IF PairAction THEN "armCall" ELSE "sample", "start")
        /\ UNCHANGED readLock
  /\ UNCHANGED <<proxy, started, linkVars, snapshot, binders>>

(* async_start up to its first await: already started, refused because     *)
(* another backend owns the controller, or claimed (again).                *)
EnterStart(b, t) ==
  /\ At(b, t, "stlock")
  /\ lifeLock[b] = NoTask
  /\ \/ /\ started[b]
        /\ AfterStart(b, t)
        /\ UNCHANGED claimVars
     \/ /\ ~started[b]
        /\ owner # NoBackend /\ ~owns[b]
        /\ EndOp(b, t)
        /\ UNCHANGED claimVars
     \/ /\ ~started[b]
        /\ owner = NoBackend \/ owns[b]
        /\ owner' = IF owns[b] THEN owner ELSE b
        /\ owns' = [owns EXCEPT ![b] = TRUE]
        /\ lifeLock' = [lifeLock EXCEPT ![b] = t]
        /\ GotoIn(b, t, IF PairAction THEN "armCall" ELSE "sample", "start")
        /\ UNCHANGED readLock
  /\ UNCHANGED <<proxy, started, linkVars, snapshot, binders>>

-----------------------------------------------------------------------------
(* Failure and cleanup.                                                    *)

InStart(b, t) ==
  /\ task[b][t].ctx \in {"start", "restart"}
  /\ task[b][t].pc \in ArmPCs \cup EstPCs \cup FencePCs

InReprepare(b, t) ==
  /\ task[b][t].ctx \in {"ensure", "recover"}
  /\ task[b][t].pc \in EstPCs

(* An Exception leaves the step: async_start cleans up under its lock, a   *)
(* reprepare takes the lifecycle lock to clean up, the rest ends the call. *)
Raise(b, t) ==
  \/ InStart(b, t) /\ Goto(b, t, "cleanEnter") /\ UNCHANGED lockVars
  \/ InReprepare(b, t) /\ Goto(b, t, "cleanLock") /\ UNCHANGED lockVars
  \/ ~InStart(b, t) /\ ~InReprepare(b, t) /\ EndOp(b, t)

(* A service error, a boundary that never shows, a refused step.           *)
StepFails(b, t) ==
  /\ task[b][t].pc \in ArmPCs \cup EstPCs \cup {"refenceWait", "recScoped", "recWaitArm", "recWait"}
  /\ ~(At(b, t, "armWait") /\ ResetAction)
  /\ Raise(b, t)
  /\ UNCHANGED <<proxy, claimVars, started, linkVars, snapshot, binders>>

(* CancelledError at any await.  Only async_start cleans up on it; during  *)
(* cleanup, cancellation or the cleanup timeout abandons the proof.        *)
Cancel(b, t) ==
  /\ task[b][t].pc \notin {"idle", "cleanEnter", "verify"}
  /\ IF InStart(b, t) THEN Goto(b, t, "cleanEnter") /\ UNCHANGED lockVars
                      ELSE EndOp(b, t)
  /\ UNCHANGED <<proxy, claimVars, started, linkVars, snapshot, binders>>

(* Stop, and the cleanup of a failed reprepare, take the lifecycle lock.   *)
TakeLifeLock(b, t) ==
  /\ task[b][t].pc \in {"cleanLock", "splock"}
  /\ lifeLock[b] = NoTask
  /\ lifeLock' = [lifeLock EXCEPT ![b] = t]
  /\ Goto(b, t, "cleanEnter")
  /\ UNCHANGED <<proxy, claimVars, started, linkVars, snapshot, readLock, binders>>

(* After cleanup a stop checks itself; every other caller re-raises.       *)
CleanupDone(b, t) ==
  \/ task[b][t].op = "stop" /\ Goto(b, t, "verify") /\ UNCHANGED lockVars
  \/ task[b][t].op # "stop" /\ EndOp(b, t)

(* _cleanup_owned_session: nothing to do, refused, or begun.               *)
EnterCleanup(b, t) ==
  /\ At(b, t, "cleanEnter")
  /\ \/ ~owns[b] /\ CleanupDone(b, t)
     \/ owns[b] /\ owner \notin {NoBackend, b} /\ EndOp(b, t)
     \/ owns[b] /\ owner \in {NoBackend, b} /\ Goto(b, t, "cleanDisc") /\ UNCHANGED lockVars
  /\ UNCHANGED <<proxy, claimVars, started, linkVars, snapshot, binders>>

(* link.disconnect or the forced DISCONNECT; an error is only recorded.    *)
CleanDisconnect(b, t) ==
  /\ At(b, t, "cleanDisc")
  /\ Dispatched(b)
  /\ Goto(b, t, "cleanWait")
  /\ UNCHANGED <<proxy, claimVars, started, client, snapshot, lockVars, binders>>

CleanBoundary(b, t) ==
  /\ task[b][t].pc \in {"cleanWait", "cleanRewait"}
  /\ SampleDown(b)
  /\ Goto(b, t, "release")
  /\ UNCHANGED <<proxy, claimVars, started, linkVars, lockVars, binders>>

CleanTimeout_Releases(b, t) ==
  /\ \/ At(b, t, "cleanWait") /\ ScopedAction /\ Goto(b, t, "cleanScoped")
     \/ At(b, t, "cleanWait") /\ ~ScopedAction /\ Goto(b, t, "release")
     \/ At(b, t, "cleanRewait") /\ Goto(b, t, "release")
  /\ UNCHANGED <<proxy, claimVars, started, linkVars, snapshot, lockVars, binders>>

(* No boundary: the scoped disconnect action is tried once, then cleanup   *)
(* fails and the claim is kept.                                            *)
CleanTimeout(b, t) ==
  /\ \/ At(b, t, "cleanWait") /\ ScopedAction /\ Goto(b, t, "cleanScoped") /\ UNCHANGED lockVars
     \/ At(b, t, "cleanWait") /\ ~ScopedAction /\ EndOp(b, t)
     \/ At(b, t, "cleanRewait") /\ EndOp(b, t)
  /\ UNCHANGED <<proxy, claimVars, started, linkVars, snapshot, binders>>

CleanScoped(b, t) ==
  /\ At(b, t, "cleanScoped")
  /\ Goto(b, t, "cleanRewait")
  /\ UNCHANGED <<proxy, claimVars, started, linkVars, snapshot, lockVars, binders>>

Release_KeepsClient(b, t) ==
  /\ At(b, t, "release")
  /\ session' = [session EXCEPT ![b] = NoSession]
  /\ started' = [started EXCEPT ![b] = FALSE]
  /\ owner' = NoBackend
  /\ owns' = [owns EXCEPT ![b] = FALSE]
  /\ CleanupDone(b, t)
  /\ UNCHANGED <<proxy, client, snapshot, binders>>

Release_KeepsStarted(b, t) ==
  /\ At(b, t, "release")
  /\ session' = [session EXCEPT ![b] = NoSession]
  /\ client' = [client EXCEPT ![b] = "none"]
  /\ owner' = NoBackend
  /\ owns' = [owns EXCEPT ![b] = FALSE]
  /\ CleanupDone(b, t)
  /\ UNCHANGED <<proxy, started, snapshot, binders>>

(* The observed boundary releases session, client and controller at once.  *)
Release(b, t) ==
  /\ At(b, t, "release")
  /\ session' = [session EXCEPT ![b] = NoSession]
  /\ client' = [client EXCEPT ![b] = "none"]
  /\ started' = [started EXCEPT ![b] = FALSE]
  /\ owner' = NoBackend
  /\ owns' = [owns EXCEPT ![b] = FALSE]
  /\ CleanupDone(b, t)
  /\ UNCHANGED <<proxy, snapshot, binders>>

(* async_stop's own check of what it must have released.                   *)
StopProven(b) ==
  /\ ~owns[b] /\ owner # b /\ ~started[b]
  /\ session[b].state = "none" /\ client[b] = "none"
  /\ snapshot[b] \in {"none", "down"}

(* Returns when StopProven, raises otherwise.                              *)
VerifyStop(b, t) ==
  /\ At(b, t, "verify")
  /\ EndOp(b, t)
  /\ UNCHANGED <<proxy, claimVars, started, linkVars, snapshot, binders>>

-----------------------------------------------------------------------------
(* The pairing arm (_arm_pairing_if_configured).                           *)

ArmCall(b, t) ==
  /\ At(b, t, "armCall")
  /\ Goto(b, t, "armWait")
  /\ UNCHANGED <<proxy, claimVars, started, linkVars, snapshot, lockVars, binders>>

(* The arm's own disconnect boundary: at once, or after one reset by the   *)
(* sibling disconnect action and a second arm.                             *)
ArmBoundary(b, t) ==
  /\ task[b][t].pc \in {"armWait", "armRewait"}
  /\ SampleDown(b)
  /\ Goto(b, t, IF task[b][t].ctx = "recover" THEN "stlock" ELSE "sample")
  /\ UNCHANGED <<proxy, claimVars, started, linkVars, lockVars, binders>>

ArmTimeout(b, t) ==
  /\ At(b, t, "armWait") /\ ResetAction
  /\ Goto(b, t, "armReset")
  /\ UNCHANGED <<proxy, claimVars, started, linkVars, snapshot, lockVars, binders>>

ArmReset(b, t) ==
  /\ At(b, t, "armReset")
  /\ SampleDown(b)
  /\ Goto(b, t, "armRewait")
  /\ UNCHANGED <<proxy, claimVars, started, linkVars, lockVars, binders>>

-----------------------------------------------------------------------------
(* Session establishment (_establish_session).                             *)

(* A compatible diagnostics sample; the fresh session replaces the old one.*)
SampleProxy(b, t) ==
  /\ At(b, t, "sample")
  /\ session' = [session EXCEPT ![b] = FreshSession]
  /\ client' = [client EXCEPT ![b] = IF @ = "none" THEN "none" ELSE "stale"]
  /\ Goto(b, t, "prepare")
  /\ UNCHANGED <<proxy, claimVars, started, snapshot, lockVars, binders>>

(* session.prepare: CONNECT, or attach to the link that is already up.     *)
PrepareSession(b, t) ==
  /\ At(b, t, "prepare")
  /\ proxy.phase = "up"
  /\ session' = [session EXCEPT ![b].link = proxy.link, ![b].state = "open"]
  /\ binders' = [binders EXCEPT ![proxy.link] = @ \cup {b}]
  /\ Goto(b, t, "secure")
  /\ UNCHANGED <<proxy, claimVars, started, client, snapshot, lockVars>>

(* link.prepare, gateway authentication, handles, transport and client.    *)
SecureLink(b, t) ==
  /\ At(b, t, "secure")
  /\ IsOpen(b)
  /\ client' = [client EXCEPT ![b] = "current"]
  /\ Goto(b, t, "authorize")
  /\ UNCHANGED <<proxy, claimVars, started, session, snapshot, lockVars, binders>>

(* The EHC authorizer; async_start then returns, a reprepare goes on.      *)
Authorize(b, t) ==
  /\ At(b, t, "authorize")
  /\ IsOpen(b)
  /\ session' = [session EXCEPT ![b].authorized = TRUE]
  /\ \/ /\ task[b][t].ctx \in {"start", "restart"}
        /\ started' = [started EXCEPT ![b] = TRUE]
        /\ AfterStart(b, t)
     \/ /\ task[b][t].ctx \in {"ensure", "recover"}
        /\ GotoIn(b, t, "request", "none")
        /\ UNCHANGED <<started, lockVars>>
  /\ UNCHANGED <<proxy, claimVars, client, snapshot, binders>>

(* A correlation error of the first establishment: fence and try once more.*)
Miscorrelated(b, t) ==
  /\ task[b][t].pc \in {"prepare", "secure", "authorize"}
  /\ task[b][t].ctx = "start"
  /\ Goto(b, t, "refence")
  /\ UNCHANGED <<proxy, claimVars, started, linkVars, snapshot, lockVars, binders>>

RefenceDisconnect(b, t) ==
  /\ At(b, t, "refence")
  /\ Dispatched(b)
  /\ Goto(b, t, "refenceWait")
  /\ UNCHANGED <<proxy, claimVars, started, client, snapshot, lockVars, binders>>

RefenceBoundary(b, t) ==
  /\ At(b, t, "refenceWait")
  /\ SampleDown(b)
  /\ GotoIn(b, t, "sample", "restart")
  /\ UNCHANGED <<proxy, claimVars, started, linkVars, lockVars, binders>>

-----------------------------------------------------------------------------
(* Requests and the one recovery of a read.                                *)

Reply(b, t) ==
  /\ At(b, t, "request")
  /\ client[b] = "current" /\ IsOpen(b)
  /\ EndOp(b, t)
  /\ UNCHANGED <<proxy, claimVars, started, linkVars, snapshot, binders>>

RequestFails_NoBudget(b, t) ==
  /\ At(b, t, "request")
  /\ UNCHANGED session \/ (IsOpen(b) /\ session' = [session EXCEPT ![b].state = "closed"])
  /\ \/ /\ task' = [task EXCEPT ![b][t] =
                      [task[b][t] EXCEPT !.pc = "recDisc", !.ctx = "recover", !.left = @ - 1]]
        /\ UNCHANGED lockVars
     \/ EndOp(b, t)
  /\ UNCHANGED <<proxy, claimVars, started, client, snapshot, binders>>

RequestFails_Unbounded(b, t) ==
  /\ At(b, t, "request")
  /\ UNCHANGED session \/ (IsOpen(b) /\ session' = [session EXCEPT ![b].state = "closed"])
  /\ \/ /\ task[b][t].left > 0
        /\ GotoIn(b, t, "recDisc", "recover")
        /\ UNCHANGED lockVars
     \/ EndOp(b, t)
  /\ UNCHANGED <<proxy, claimVars, started, client, snapshot, binders>>

(* A TransportError, which may close the session: recovered while the call *)
(* has a recovery left.  Other errors, writes and unrecoverable reads      *)
(* raise.                                                                  *)
RequestFails(b, t) ==
  /\ At(b, t, "request")
  /\ UNCHANGED session \/ (IsOpen(b) /\ session' = [session EXCEPT ![b].state = "closed"])
  /\ \/ /\ task[b][t].left > 0
        /\ task' = [task EXCEPT ![b][t] =
                      [task[b][t] EXCEPT !.pc = "recDisc", !.ctx = "recover", !.left = @ - 1]]
        /\ UNCHANGED lockVars
     \/ EndOp(b, t)
  /\ UNCHANGED <<proxy, claimVars, started, client, snapshot, binders>>

(* The session still names its physical connection; a retired one may not. *)
Guards(b) ==
  CASE session[b].link = NoLink -> {TRUE}
    [] IsOpen(b)                -> {FALSE}
    [] OTHER                    -> BOOLEAN

(* Best-effort DISCONNECT, then the local session is retired regardless.   *)
RecDisconnect(b, t) ==
  /\ At(b, t, "recDisc")
  /\ session' = [session EXCEPT ![b].state = IF @ = "none" THEN @ ELSE "retired"]
  /\ \E guarded \in Guards(b) : Goto(b, t, IF guarded THEN "recScoped" ELSE "recWait")
  /\ UNCHANGED <<proxy, claimVars, started, client, snapshot, lockVars, binders>>

(* Without an identity only the scoped disconnect action may fence.        *)
RecScoped(b, t) ==
  /\ At(b, t, "recScoped") /\ ScopedAction
  /\ Goto(b, t, "recWaitArm")
  /\ UNCHANGED <<proxy, claimVars, started, linkVars, snapshot, lockVars, binders>>

RecBoundary_NoWait(b, t) ==
  /\ task[b][t].pc \in {"recWait", "recWaitArm"}
  /\ Goto(b, t, IF At(b, t, "recWait") THEN "stlock" ELSE "armCall")
  /\ UNCHANGED <<proxy, claimVars, started, linkVars, snapshot, lockVars, binders>>

(* The boundary of the lost session; the scoped fence also re-arms.        *)
RecBoundary(b, t) ==
  /\ task[b][t].pc \in {"recWait", "recWaitArm"}
  /\ SampleDown(b)
  /\ Goto(b, t, IF At(b, t, "recWait") THEN "stlock" ELSE "armCall")
  /\ UNCHANGED <<proxy, claimVars, started, linkVars, lockVars, binders>>

(* A sample with a flag still up keeps the bounded wait going.             *)
SampleUp(b, t) ==
  /\ task[b][t].pc \in WaitPCs
  /\ proxy.phase # "down"
  /\ snapshot' = [snapshot EXCEPT ![b] = proxy.phase]
  /\ UNCHANGED <<proxy, claimVars, started, linkVars, lockVars, task, binders>>

-----------------------------------------------------------------------------

(* The steps of a task whose awaits the code bounds by a timeout.  Not     *)
(* bounded: lock waits, the pair and disconnect action calls of            *)
(* _arm_pairing_if_configured, _recover_after_transport_loss and           *)
(* _cleanup_owned_session, and the diagnostics call that opens             *)
(* _establish_session.                                                     *)
BoundedStep(b, t) ==
  \/ EnterCleanup(b, t) \/ CleanDisconnect(b, t) \/ CleanBoundary(b, t)
  \/ CleanTimeout(b, t) \/ Release(b, t) \/ VerifyStop(b, t)
  \/ ArmBoundary(b, t) \/ ArmTimeout(b, t)
  \/ PrepareSession(b, t) \/ SecureLink(b, t) \/ Authorize(b, t)
  \/ Miscorrelated(b, t) \/ RefenceDisconnect(b, t) \/ RefenceBoundary(b, t)
  \/ Reply(b, t) \/ RequestFails(b, t) \/ RecDisconnect(b, t) \/ RecBoundary(b, t)
  \/ StepFails(b, t) /\ task[b][t].pc \notin UnboundedPCs

UnboundedStep(b, t) ==
  \/ ArmCall(b, t) \/ ArmReset(b, t) \/ CleanScoped(b, t) \/ RecScoped(b, t)
  \/ SampleProxy(b, t)
  \/ StepFails(b, t) /\ task[b][t].pc \in UnboundedPCs

LockStep(b, t) == TakeReadLock(b, t) \/ EnterStart(b, t) \/ TakeLifeLock(b, t)

TaskStep(b, t) ==
  \/ \E op \in Calls : Begin(b, t, op)
  \/ LockStep(b, t) \/ BoundedStep(b, t) \/ UnboundedStep(b, t)
  \/ SampleUp(b, t) \/ Cancel(b, t)

ProxyStep == ProxyConnect \/ ProxyConnectOn \/ ProxyReady \/ ProxyDrop \/ ProxyDown

Next ==
  \/ ProxyStep
  \/ \E b \in Backends : SessionLost(b)
  \/ \E b \in Backends, t \in Tasks : TaskStep(b, t)

Spec == Init /\ [][Next]_vars

(* Bounded awaits end; asyncio.Lock wakes its waiters in order.            *)
Fairness ==
  \A b \in Backends, t \in Tasks :
    WF_vars(BoundedStep(b, t)) /\ SF_vars(LockStep(b, t))

FairSpec == Spec /\ Fairness

-----------------------------------------------------------------------------
(* Safety.                                                                 *)

(* The class-level registry and the per-backend flag never disagree, so at *)
(* most one backend believes it owns the controller and cleanup is never   *)
(* refused for a foreign owner (transport.py:1901-1923, 2007-2011).        *)
RegistryAgrees == \A b \in Backends : owns[b] <=> owner = b

(* Whatever a backend still keeps of a session, it keeps under the claim;  *)
(* only an owner talks to the proxy (transport.py:2090-2098).              *)
SessionNeedsClaim ==
  \A b \in Backends :
    /\ started[b] \/ session[b].state # "none" \/ client[b] # "none" => owns[b]
    /\ \A t \in Tasks : task[b][t].pc \in LinkPCs => owns[b]

(* At most one task at a time drives the controller's link, although reads *)
(* re-prepare and recover under the read lock alone, start runs under the  *)
(* lifecycle lock alone and stop needs both (transport.py:2241-2244).      *)
OneLinkDriver ==
  \A b1, b2 \in Backends : \A t1, t2 \in Tasks :
    task[b1][t1].pc \in LinkPCs /\ task[b2][t2].pc \in LinkPCs
      => b1 = b2 /\ t1 = t2

(* A controller changes hands only over a dead link: no physical link ever *)
(* carries sessions of two backends (transport.py:2036-2041).              *)
LinkHasOneUser ==
  \A k \in Links : \A b1, b2 \in binders[k] : b1 = b2

(* The release step runs only with every link the owner used gone, even if *)
(* the proxy reconnected since the boundary was sampled.                   *)
ReleasedLinkIsDead ==
  \A b \in Backends, t \in Tasks :
    At(b, t, "release") /\ proxy.phase # "down" /\ proxy.link \in Links
      => b \notin binders[proxy.link]

(* The self-check that ends async_stop never fires after its cleanup.      *)
StopCheckNeverFires ==
  \A b \in Backends, t \in Tasks : At(b, t, "verify") => StopProven(b)

(* Behind the recovery fence the replacement session never lands on the    *)
(* link of the session it replaces (transport.py:2904-2909).               *)
FencedReplacementIsFresh ==
  [][\A b \in Backends, t \in Tasks :
       PrepareSession(b, t) /\ task[b][t].ctx \in {"recover", "restart"}
         => binders[proxy.link] = {}]_vars

(* docs/thin-rpc-observability.md:45-46 and 58-59: "A replacement          *)
(* connection is not prepared until both live connection booleans are      *)
(* false", and a "physical-boundary timeout prevents reprepare": no fresh  *)
(* session is begun while the link of a retired one is still there.        *)
RetiredLinkNotReprepared ==
  [][\A b \in Backends, t \in Tasks :
       SampleProxy(b, t) /\ session[b].state = "retired"
         => ~(proxy.phase # "down" /\ proxy.link = session[b].link)]_vars

(* transport.py:3051: establishment "authenticate[s] its current epoch",   *)
(* so an answered request runs on a session whose authorization completed. *)
AnsweredOnAuthorizedSession ==
  [][\A b \in Backends, t \in Tasks : Reply(b, t) => session[b].authorized]_vars

(* The detailed lifecycle implements the controller lease.                 *)
Lease == INSTANCE ControllerLease WITH
           holder   <- owner,
           up       <- proxy.phase # "down",
           count    <- proxy.link,
           attached <- binders

ImplementsLease == Lease!LeaseSpec

-----------------------------------------------------------------------------
(* The inductive invariant behind the safety properties.                   *)

(* Which step can belong to which operation and establishment context.     *)
Shape(b, t) ==
  LET this == task[b][t]
  IN  /\ this.pc \in {"idle", "rdlock", "splock", "verify", "request"} => this.ctx = "none"
      /\ this.pc = "stlock" => this.ctx \in {"none", "recover"}
      /\ this.pc \in ArmPCs => this.ctx \in {"start", "recover"}
      /\ this.pc \in EstPCs => this.ctx # "none"
      /\ this.pc \in FencePCs => this.ctx = "start"
      /\ this.pc \in RecPCs => this.ctx = "recover"
      /\ this.pc = "cleanLock" => this.ctx \in {"ensure", "recover"}
      /\ this.pc \in CleanPCs => (this.op = "stop" <=> this.ctx = "none")
      /\ this.pc \in {"splock", "verify"} => this.op = "stop"
      /\ this.op = "stop" => this.pc \in {"rdlock", "splock", "verify"} \cup CleanPCs
      /\ this.op = "start" => this.ctx \in {"none", "start", "restart"} /\ this.pc # "request"

(* A task inside a read, write or stop, or a recovery of one.              *)
Reading(b, t)  == At(b, t, "request") \/ task[b][t].ctx \in {"ensure", "recover"}
Starting(b, t) == task[b][t].ctx \in {"start", "restart"}

(* Steps under _read_lock and under _lifecycle_lock.                       *)
UnderReadLock(b, t) == task[b][t].op # "start" /\ task[b][t].pc \notin {"idle", "rdlock"}
UnderLifeLock(b, t) == Starting(b, t) \/ task[b][t].pc \in CleanPCs \cup {"verify"}

TaskInv(b, t) ==
  /\ Shape(b, t)
  /\ UnderReadLock(b, t) => readLock[b] = t
  /\ UnderLifeLock(b, t) => lifeLock[b] = t
  /\ Reading(b, t) => started[b]
  /\ Starting(b, t) => owns[b] /\ ~started[b]
  /\ task[b][t].pc \in CleanPCs \ {"cleanEnter"} => owns[b]
  /\ At(b, t, "verify") => ~owns[b]

(* The boundary that released a backend is the last sample it took.        *)
SnapshotSettled ==
  /\ \A b \in Backends : ~owns[b] => snapshot[b] \in {"none", "down"}
  /\ \A b \in Backends, t \in Tasks : At(b, t, "release") => snapshot[b] = "down"

(* A link that is up is used only by the owner.                            *)
LiveLinkOwned ==
  /\ proxy.phase # "down" => proxy.link \in Links
  /\ \A k \in Links : k > proxy.link => binders[k] = {}
  /\ proxy.phase # "down" => \A b \in binders[proxy.link] : owner = b

(* Between the fence and the replacement session the link is new.          *)
FencedPCs(c) ==
  CASE c = "recover" -> {"stlock", "sample", "prepare"} \cup ArmPCs
    [] c = "restart" -> {"sample", "prepare"}
    [] OTHER         -> {}

Fenced ==
  \A b \in Backends, t \in Tasks :
    task[b][t].pc \in FencedPCs(task[b][t].ctx) /\ proxy.phase # "down"
      => binders[proxy.link] = {}

(* Control, claim and link together: what async_start, the reads, recovery *)
(* and async_stop rely on of each other while they await                   *)
(* (transport.py:1876-2331, 2859-3015).                                    *)
LifecycleInv ==
  /\ TypeOK
  /\ \A b \in Backends, t \in Tasks : TaskInv(b, t)
  /\ RegistryAgrees
  /\ SessionNeedsClaim
  /\ SnapshotSettled
  /\ LiveLinkOwned
  /\ LinkHasOneUser
  /\ ReleasedLinkIsDead
  /\ Fenced

-----------------------------------------------------------------------------
(* Liveness.                                                               *)

(* Every call ends, or some task of its backend hangs for good in one of   *)
(* the calls the code leaves without a timeout: recovery, the re-fenced    *)
(* retry and cleanup never cycle, and the two locks are never taken in a   *)
(* circle (transport.py:2241-2244, 2881-2887).                             *)
CallsEndOrHang ==
  \A b \in Backends, t \in Tasks :
    \/ task[b][t].pc # "idle" ~> task[b][t].pc = "idle"
    \/ <>[](\E u \in Tasks : task[b][u].pc \in UnboundedPCs)
=============================================================================
