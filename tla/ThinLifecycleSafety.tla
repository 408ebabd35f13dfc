------------------------ MODULE ThinLifecycleSafety ------------------------
(***************************************************************************)
(* The safety invariants of ThinLifecycle hold for every set of backends   *)
(* and tasks, every number of links and every pairing configuration.       *)
(*                                                                         *)
(* LifecycleInv is inductive.  Its heart is OneActive: of all tasks of all *)
(* backends at most one is past its entry locks, because a reading task    *)
(* needs the read lock and a started backend, a starting task needs the    *)
(* lifecycle lock and a backend that is not started, stop needs both       *)
(* locks, and all of them need the claim.  With it, no step can disturb    *)
(* what another task has established about the link.                       *)
(***************************************************************************)
EXTENDS ThinLifecycleProofs

USE LifecycleAssumption

(* Past its entry locks.                                                   *)
Active(b, t) == task[b][t].pc \in LinkPCs \/ Reading(b, t)

-----------------------------------------------------------------------------

(* An active task reads, starts, or cleans up inside a stop.               *)
LEMMA ActiveKinds ==
  ASSUME NEW b \in Backends, NEW t \in Tasks, TypeOK, Shape(b, t), Active(b, t)
  PROVE  \/ Reading(b, t)
         \/ Starting(b, t)
         \/ task[b][t].op = "stop" /\ task[b][t].pc \in CleanPCs
<1>1. task[b][t] \in TaskRec
  BY DEF TypeOK, TaskRec
<1>2. QED
  BY <1>1 DEF TaskRec, Active, Shape, Reading, Starting, At, Contexts,
     LinkPCs, ArmPCs, EstPCs, FencePCs, CleanPCs, RecPCs

(* Two active tasks are the same task of the same backend.                 *)
LEMMA OneActive ==
  ASSUME LifecycleInv,
         NEW b \in Backends, NEW t \in Tasks, NEW c \in Backends, NEW u \in Tasks,
         Active(b, t), Active(c, u)
  PROVE  b = c /\ t = u
<1>1. \A d \in Backends, v \in Tasks : Active(d, v) => owns[d]
  BY DEF LifecycleInv, TaskInv, SessionNeedsClaim, Active
<1>2. b = c
  BY <1>1 DEF LifecycleInv, RegistryAgrees
<1>3. /\ TypeOK /\ TaskInv(b, t) /\ TaskInv(b, u)
      /\ Shape(b, t) /\ Shape(b, u)
      /\ Active(b, t) /\ Active(b, u)
  BY <1>2 DEF LifecycleInv, TaskInv
<1>4. /\ Reading(b, t) => readLock[b] = t /\ started[b]
      /\ Reading(b, u) => readLock[b] = u /\ started[b]
  BY <1>3 DEF TaskInv, Shape, Reading, UnderReadLock, At
<1>5. /\ Starting(b, t) => lifeLock[b] = t /\ ~started[b]
      /\ Starting(b, u) => lifeLock[b] = u /\ ~started[b]
  BY <1>3 DEF TaskInv, UnderLifeLock
<1>6. /\ task[b][t].op = "stop" /\ task[b][t].pc \in CleanPCs => readLock[b] = t /\ lifeLock[b] = t
      /\ task[b][u].op = "stop" /\ task[b][u].pc \in CleanPCs => readLock[b] = u /\ lifeLock[b] = u
  BY <1>3 DEF TaskInv, UnderReadLock, UnderLifeLock, CleanPCs
<1>7. t = u
  BY <1>3, <1>4, <1>5, <1>6, ActiveKinds
<1>8. QED BY <1>2, <1>7

-----------------------------------------------------------------------------

(* What a task step may change outside its own record, and from where.     *)
Effects(b, t) ==
  /\ UNCHANGED proxy
  /\ UNCHANGED claimVars \/ EnterStart(b, t) \/ Release(b, t)
  /\ UNCHANGED binders \/ PrepareSession(b, t)
  /\ UNCHANGED started \/ Release(b, t) \/ Authorize(b, t)
  /\ UNCHANGED <<started, linkVars>> \/ Release(b, t)
       \/ /\ task[b][t].pc \in LinkPCs
          /\ \A c \in Backends : c # b => /\ started'[c] = started[c]
                                          /\ session'[c] = session[c]
                                          /\ client'[c] = client[c]
  /\ UNCHANGED snapshot
       \/ /\ task[b][t].pc \in WaitPCs
          /\ \A c \in Backends : c # b => snapshot'[c] = snapshot[c]
          /\ At(b, t, "release")' => snapshot'[b] = "down"

(* Every task step has only these effects.                                 *)
LEMMA StepEffects ==
  ASSUME NEW b \in Backends, NEW t \in Tasks, TypeOK, ActionOf(b, t)
  PROVE  Effects(b, t)
<1> USE DEF Effects, claimVars, linkVars
<1>1. ASSUME NEW op \in Calls, Begin(b, t, op) PROVE Effects(b, t)
  BY <1>1 DEF Begin
<1>2. ASSUME TakeReadLock(b, t) PROVE Effects(b, t)
  BY <1>2 DEF TakeReadLock
<1>3. ASSUME EnterStart(b, t) PROVE Effects(b, t)
  BY <1>3 DEF EnterStart
<1>4. ASSUME TakeLifeLock(b, t) PROVE Effects(b, t)
  BY <1>4 DEF TakeLifeLock
<1>5. ASSUME StepFails(b, t) PROVE Effects(b, t)
  BY <1>5 DEF StepFails
<1>6. ASSUME Cancel(b, t) PROVE Effects(b, t)
  BY <1>6 DEF Cancel
<1>7. ASSUME EnterCleanup(b, t) PROVE Effects(b, t)
  BY <1>7 DEF EnterCleanup
<1>8. ASSUME CleanDisconnect(b, t) PROVE Effects(b, t)
  BY <1>8 DEF CleanDisconnect, At, TypeOK, LinkPCs, ArmPCs, EstPCs, FencePCs, CleanPCs, RecPCs, Dispatched
<1>9. ASSUME CleanBoundary(b, t) PROVE Effects(b, t)
  BY <1>9 DEF CleanBoundary, At, TypeOK, SampleDown, WaitPCs
<1>10. ASSUME CleanTimeout(b, t) PROVE Effects(b, t)
  BY <1>10 DEF CleanTimeout
<1>11. ASSUME CleanScoped(b, t) PROVE Effects(b, t)
  BY <1>11 DEF CleanScoped
<1>12. ASSUME Release(b, t) PROVE Effects(b, t)
  BY <1>12 DEF Release
<1>13. ASSUME VerifyStop(b, t) PROVE Effects(b, t)
  BY <1>13 DEF VerifyStop
<1>14. ASSUME ArmCall(b, t) PROVE Effects(b, t)
  BY <1>14 DEF ArmCall
<1>15. ASSUME ArmBoundary(b, t) PROVE Effects(b, t)
  BY <1>15 DEF ArmBoundary, At, TypeOK, SampleDown, WaitPCs
<1>16. ASSUME ArmTimeout(b, t) PROVE Effects(b, t)
  BY <1>16 DEF ArmTimeout
<1>17. ASSUME ArmReset(b, t) PROVE Effects(b, t)
  BY <1>17 DEF ArmReset, At, TypeOK, SampleDown, WaitPCs
<1>18. ASSUME SampleProxy(b, t) PROVE Effects(b, t)
  BY <1>18 DEF SampleProxy, At, TypeOK, LinkPCs, ArmPCs, EstPCs, FencePCs, CleanPCs, RecPCs, Dispatched
<1>19. ASSUME PrepareSession(b, t) PROVE Effects(b, t)
  BY <1>19 DEF PrepareSession, At, TypeOK, LinkPCs, ArmPCs, EstPCs, FencePCs, CleanPCs, RecPCs, Dispatched
<1>20. ASSUME SecureLink(b, t) PROVE Effects(b, t)
  BY <1>20 DEF SecureLink, At, TypeOK, LinkPCs, ArmPCs, EstPCs, FencePCs, CleanPCs, RecPCs, Dispatched
<1>21. ASSUME Authorize(b, t) PROVE Effects(b, t)
  BY <1>21 DEF Authorize, At, TypeOK, LinkPCs, ArmPCs, EstPCs, FencePCs, CleanPCs, RecPCs, Dispatched
<1>22. ASSUME Miscorrelated(b, t) PROVE Effects(b, t)
  BY <1>22 DEF Miscorrelated
<1>23. ASSUME RefenceDisconnect(b, t) PROVE Effects(b, t)
  BY <1>23 DEF RefenceDisconnect, At, TypeOK, LinkPCs, ArmPCs, EstPCs, FencePCs, CleanPCs, RecPCs, Dispatched
<1>24. ASSUME RefenceBoundary(b, t) PROVE Effects(b, t)
  BY <1>24 DEF RefenceBoundary, At, TypeOK, SampleDown, WaitPCs
<1>25. ASSUME Reply(b, t) PROVE Effects(b, t)
  BY <1>25 DEF Reply
<1>26. ASSUME RequestFails(b, t) PROVE Effects(b, t)
  BY <1>26 DEF RequestFails, At, TypeOK, LinkPCs, ArmPCs, EstPCs, FencePCs, CleanPCs, RecPCs, Dispatched
<1>27. ASSUME RecDisconnect(b, t) PROVE Effects(b, t)
  BY <1>27 DEF RecDisconnect, At, TypeOK, LinkPCs, ArmPCs, EstPCs, FencePCs, CleanPCs, RecPCs, Dispatched
<1>28. ASSUME RecScoped(b, t) PROVE Effects(b, t)
  BY <1>28 DEF RecScoped
<1>29. ASSUME RecBoundary(b, t) PROVE Effects(b, t)
  BY <1>29 DEF RecBoundary, At, TypeOK, SampleDown, WaitPCs
<1>30. ASSUME SampleUp(b, t) PROVE Effects(b, t)
  BY <1>30 DEF SampleUp, At, TypeOK, SampleDown, WaitPCs
<1>31. QED
  BY ActionOf(b, t), <1>1, <1>2, <1>3, <1>4, <1>5, <1>6, <1>7, <1>8, <1>9, <1>10, <1>11, <1>12, <1>13, <1>14, <1>15, <1>16, <1>17, <1>18, <1>19, <1>20, <1>21, <1>22, <1>23, <1>24, <1>25, <1>26, <1>27, <1>28, <1>29, <1>30 DEF ActionOf

-----------------------------------------------------------------------------
(* The acting task.                                                        *)

(* A task at rest satisfies TaskInv.                                       *)
LEMMA EndOpKeeps ==
  ASSUME NEW b \in Backends, NEW t \in Tasks, TypeOK, EndOp(b, t)
  PROVE  TaskInv(b, t)'
<1>1. task'[b][t] = Idle
  BY EndOpEffect DEF TaskBecomes
<1>2. QED
  BY <1>1 DEF Idle, TaskInv, Shape, Reading, Starting, UnderReadLock, UnderLifeLock, At,
     ArmPCs, EstPCs, FencePCs, CleanPCs, RecPCs

(* Moving to another step, with the same context or a new one.             *)
LEMMA Moved ==
  ASSUME NEW b \in Backends, NEW t \in Tasks, TypeOK, NEW p \in PCs
  PROVE  /\ Goto(b, t, p) =>
              /\ task'[b][t].pc = p
              /\ task'[b][t].op = task[b][t].op
              /\ task'[b][t].ctx = task[b][t].ctx
         /\ \A c \in Contexts : GotoIn(b, t, p, c) =>
              /\ task'[b][t].pc = p
              /\ task'[b][t].op = task[b][t].op
              /\ task'[b][t].ctx = c
<1>1. task \in TaskTable /\ task[b][t] \in TaskRec
  BY DEF TypeOK, TaskTable, TaskRec
<1>2. ASSUME Goto(b, t, p)
      PROVE  /\ task'[b][t].pc = p
             /\ task'[b][t].op = task[b][t].op
             /\ task'[b][t].ctx = task[b][t].ctx
  <2>1. task'[b][t] = [task[b][t] EXCEPT !.pc = p]
    BY <1>1, <1>2, GotoEffect DEF TaskBecomes
  <2>2. QED BY <1>1, <2>1 DEF TaskRec
<1>3. ASSUME NEW c \in Contexts, GotoIn(b, t, p, c)
      PROVE  /\ task'[b][t].pc = p
             /\ task'[b][t].op = task[b][t].op
             /\ task'[b][t].ctx = c
  <2>1. TaskBecomes(b, t, [task[b][t] EXCEPT !.pc = p, !.ctx = c])
    BY <1>1, <1>3, GotoInEffect
  <2>2. QED BY <1>1, <2>1 DEF TaskBecomes, TaskRec
<1>4. QED BY <1>2, <1>3

(* A failure keeps TaskInv of the failing task.                            *)
LEMMA RaiseKeeps ==
  ASSUME NEW b \in Backends, NEW t \in Tasks, TypeOK, TaskInv(b, t),
         Raise(b, t), UNCHANGED <<started, owns>>
  PROVE  TaskInv(b, t)'
<1> USE DEF InStart, InReprepare, PCs, ArmPCs, EstPCs, FencePCs, CleanPCs, RecPCs, LockPCs,
            TaskInv, Shape, Reading, Starting, UnderReadLock, UnderLifeLock, At
<1>1. CASE InStart(b, t) /\ Goto(b, t, "cleanEnter") /\ UNCHANGED lockVars
  BY <1>1, Moved DEF lockVars
<1>2. CASE InReprepare(b, t) /\ Goto(b, t, "cleanLock") /\ UNCHANGED lockVars
  BY <1>2, Moved DEF lockVars
<1>3. CASE EndOp(b, t)
  BY <1>3, EndOpKeeps
<1>4. QED BY <1>1, <1>2, <1>3 DEF Raise

(* After cleanup: owns must be settled for a stop.                         *)
LEMMA CleanupDoneKeeps ==
  ASSUME NEW b \in Backends, NEW t \in Tasks, TypeOK, TaskInv(b, t),
         task[b][t].pc \in CleanPCs, CleanupDone(b, t), ~owns'[b]
  PROVE  TaskInv(b, t)'
<1>1. CASE task[b][t].op = "stop" /\ Goto(b, t, "verify") /\ UNCHANGED lockVars
  <2>1. "verify" \in PCs
    BY DEF PCs
  <2>2. /\ task'[b][t].pc = "verify"
        /\ task'[b][t].op = "stop"
        /\ task'[b][t].ctx = "none"
    BY <1>1, <2>1, Moved DEF TaskInv, Shape
  <2>3. readLock'[b] = t /\ lifeLock'[b] = t
    BY <1>1 DEF lockVars, TaskInv, UnderReadLock, UnderLifeLock, CleanPCs
  <2>4. QED
    BY <2>2, <2>3 DEF TaskInv, Shape, Reading, Starting, UnderReadLock, UnderLifeLock, At,
       ArmPCs, EstPCs, FencePCs, CleanPCs, RecPCs
<1>2. CASE EndOp(b, t)
  BY <1>2, EndOpKeeps
<1>3. QED BY <1>1, <1>2 DEF CleanupDone

(* A started backend hands a task on to its request or to a reprepare.     *)
LEMMA AfterStartKeeps ==
  ASSUME NEW b \in Backends, NEW t \in Tasks, TypeOK, TaskInv(b, t),
         AfterStart(b, t), started'[b],
         At(b, t, "stlock") \/ (At(b, t, "authorize") /\ Starting(b, t)),
         task[b][t].op # "stop"
  PROVE  TaskInv(b, t)'
<1>1. CASE EndOp(b, t)
  BY <1>1, EndOpKeeps
<1>2. CASE ~EndOp(b, t)
  <2>1. task[b][t].op # "start" /\ readLock'[b] = t
    BY <1>2 DEF AfterStart, TaskInv, UnderReadLock, At
  <2>2. \/ GotoIn(b, t, "request", "none")
        \/ GotoIn(b, t, "sample", "recover")
        \/ GotoIn(b, t, "sample", "ensure")
    BY <1>2 DEF AfterStart
  <2>3. {"request", "sample"} \subseteq PCs /\ {"none", "recover", "ensure"} \subseteq Contexts
    BY DEF PCs, EstPCs, Contexts
  <2>4. /\ task'[b][t].op = task[b][t].op
        /\ \/ task'[b][t].pc = "request" /\ task'[b][t].ctx = "none"
           \/ task'[b][t].pc = "sample" /\ task'[b][t].ctx \in {"recover", "ensure"}
    BY <2>2, <2>3, Moved
  <2>5. QED
    BY <2>1, <2>4 DEF TaskInv, Shape, Reading, Starting, UnderReadLock, UnderLifeLock, At,
       ArmPCs, EstPCs, FencePCs, CleanPCs, RecPCs
<1>3. QED BY <1>1, <1>2

(* Which steps may follow each other without a change of context.          *)
Follows(b, t, p) ==
  LET this == task[b][t]
  IN  \/ p \in CleanPCs \ {"cleanEnter"} /\ this.pc \in CleanPCs /\ owns[b]
      \/ p \in ArmPCs /\ this.pc \in ArmPCs \cup RecPCs
      \/ p \in EstPCs /\ this.pc \in EstPCs \cup ArmPCs
      \/ p \in RecPCs /\ this.pc \in RecPCs
      \/ p \in FencePCs /\ this.pc \in FencePCs \cup EstPCs /\ this.ctx = "start"
      \/ p = "stlock" /\ this.pc \in RecPCs \cup ArmPCs /\ this.ctx = "recover"

(* Such a step keeps TaskInv of its task.                                  *)
LEMMA GotoKeeps ==
  ASSUME NEW b \in Backends, NEW t \in Tasks, TypeOK, TaskInv(b, t),
         NEW p \in PCs, Goto(b, t, p), Follows(b, t, p),
         UNCHANGED <<lockVars, started, owns>>
  PROVE  TaskInv(b, t)'
<1>1. /\ task'[b][t].pc = p
      /\ task'[b][t].op = task[b][t].op
      /\ task'[b][t].ctx = task[b][t].ctx
  BY Moved
<1>2. /\ task[b][t].pc \notin {"idle", "rdlock", "request", "verify"}
      /\ p \notin {"idle", "rdlock", "request", "verify", "cleanEnter", "splock", "cleanLock"}
  BY DEF Follows, ArmPCs, EstPCs, FencePCs, CleanPCs, RecPCs
<1>3. Shape(b, t)'
  BY <1>1, <1>2
     DEF TaskInv, Shape, Follows, ArmPCs, EstPCs, FencePCs, CleanPCs, RecPCs, Contexts
<1>4. UnderReadLock(b, t)' => readLock'[b] = t
  BY <1>1, <1>2 DEF TaskInv, UnderReadLock, lockVars
<1>5. UnderLifeLock(b, t)' => lifeLock'[b] = t
  BY <1>1, <1>2 DEF TaskInv, UnderLifeLock, Starting, lockVars, Follows,
     ArmPCs, EstPCs, FencePCs, CleanPCs, RecPCs
<1>6. /\ Reading(b, t)' => started'[b]
      /\ Starting(b, t)' => owns'[b] /\ ~started'[b]
      /\ At(b, t, "verify")' => ~owns'[b]
  BY <1>1, <1>2 DEF TaskInv, Reading, Starting, At
<1>7. task'[b][t].pc \in CleanPCs \ {"cleanEnter"} => owns'[b]
  BY <1>1 DEF Follows, ArmPCs, EstPCs, FencePCs, CleanPCs, RecPCs
<1>8. QED BY <1>3, <1>4, <1>5, <1>6, <1>7 DEF TaskInv

(* The acting task keeps its own invariant.                                *)
LEMMA ActorKeeps ==
  ASSUME NEW b \in Backends, NEW t \in Tasks, TypeOK, TaskInv(b, t),
         RegistryAgrees, ActionOf(b, t)
  PROVE  TaskInv(b, t)'
<1> USE DEF InStart, PCs, ArmPCs, EstPCs, FencePCs, CleanPCs, RecPCs, LockPCs, Contexts,
            claimVars, linkVars, lockVars
<1>1. ASSUME NEW op \in Calls, Begin(b, t, op) PROVE TaskInv(b, t)'
  <2>1. task'[b][t] = [pc |-> IF op = "start" THEN "stlock" ELSE "rdlock",
                       op |-> op, ctx |-> "none", left |-> Recoveries(op)]
    BY <1>1 DEF Begin, TypeOK
  <2>2. QED
    BY <1>1, <2>1 DEF TaskInv, Shape, Reading, Starting, UnderReadLock, UnderLifeLock, At, Ops
<1>2. ASSUME TakeReadLock(b, t) PROVE TaskInv(b, t)'
  <2>1. /\ task[b][t].op = "stop" => Goto(b, t, "splock")
        /\ task[b][t].op # "stop" => Goto(b, t, "stlock")
        /\ task[b][t].ctx = "none"
    BY <1>2 DEF TakeReadLock, TaskInv, Shape, At
  <2>2. "splock" \in PCs /\ "stlock" \in PCs
    OBVIOUS
  <2>3. /\ task'[b][t].pc = IF task[b][t].op = "stop" THEN "splock" ELSE "stlock"
        /\ task'[b][t].op = task[b][t].op
        /\ task'[b][t].ctx = "none"
    <3> HIDE DEF PCs
    <3>1. QED BY <2>1, <2>2, Moved
  <2>4. readLock'[b] = t
    BY <1>2 DEF TakeReadLock, TypeOK
  <2>5. QED
    BY <2>3, <2>4 DEF TaskInv, Shape, Reading, Starting, UnderReadLock, UnderLifeLock, At
<1>3. ASSUME EnterStart(b, t) PROVE TaskInv(b, t)'
  <2>1. task[b][t].op # "stop"
    BY <1>3 DEF EnterStart, TaskInv, Shape, At
  <2>2. CASE EndOp(b, t)
    BY <2>2, EndOpKeeps
  <2>3. CASE AfterStart(b, t) /\ started[b]
    BY <1>3, <2>1, <2>3, AfterStartKeeps DEF EnterStart
  <2>4. CASE ~EndOp(b, t) /\ ~started[b]
    <3>1. /\ task'[b][t].pc \in {"armCall", "sample"}
          /\ task'[b][t].op = task[b][t].op
          /\ task'[b][t].ctx = "start"
      BY <1>3, <2>4, Moved DEF EnterStart
    <3>2. /\ owns'[b] /\ ~started'[b]
          /\ lifeLock'[b] = t /\ readLock' = readLock
      BY <1>3, <2>4 DEF EnterStart, TypeOK
    <3>3. QED
      BY <1>3, <2>1, <3>1, <3>2 DEF EnterStart, TaskInv, Shape, Reading, Starting, UnderReadLock, UnderLifeLock, At
  <2>5. QED BY <1>3, <2>2, <2>3, <2>4 DEF EnterStart
<1>4. ASSUME TakeLifeLock(b, t) PROVE TaskInv(b, t)'
  <2>1. /\ task'[b][t].pc = "cleanEnter"
        /\ task'[b][t].op = task[b][t].op
        /\ task'[b][t].ctx = task[b][t].ctx
    <3>1. "cleanEnter" \in PCs /\ Goto(b, t, "cleanEnter")
      BY <1>4 DEF TakeLifeLock
    <3> HIDE DEF PCs
    <3>2. QED BY <3>1, Moved
  <2>2. /\ lifeLock'[b] = t /\ readLock' = readLock
        /\ started' = started /\ owns' = owns
    BY <1>4 DEF TakeLifeLock, TypeOK
  <2>3. QED
    BY <1>4, <2>1, <2>2 DEF TakeLifeLock, TaskInv, Shape, Reading, Starting, UnderReadLock, UnderLifeLock, At
<1>5. ASSUME StepFails(b, t) PROVE TaskInv(b, t)'
  BY <1>5, RaiseKeeps DEF StepFails
<1>6. ASSUME Cancel(b, t) PROVE TaskInv(b, t)'
  <2>1. CASE EndOp(b, t)
    BY <2>1, EndOpKeeps
  <2>2. CASE ~EndOp(b, t)
    BY <1>6, <2>2, RaiseKeeps DEF Cancel, Raise
  <2>3. QED BY <2>1, <2>2
<1>7. ASSUME EnterCleanup(b, t) PROVE TaskInv(b, t)'
  <2>1. CASE EndOp(b, t)
    BY <2>1, EndOpKeeps
  <2>2. CASE CleanupDone(b, t) /\ ~owns[b]
    BY <1>7, <2>2, CleanupDoneKeeps DEF EnterCleanup, At
  <2>3. CASE Goto(b, t, "cleanDisc") /\ owns[b] /\ UNCHANGED lockVars
    BY <1>7, <2>3, GotoKeeps DEF EnterCleanup, Follows, At
  <2>4. QED BY <1>7, <2>1, <2>2, <2>3 DEF EnterCleanup
<1>8. ASSUME CleanDisconnect(b, t) PROVE TaskInv(b, t)'
  BY <1>8, GotoKeeps, Zenon DEF CleanDisconnect, TaskInv, Shape, Follows, At
<1>9. ASSUME CleanBoundary(b, t) PROVE TaskInv(b, t)'
  BY <1>9, GotoKeeps, Zenon DEF CleanBoundary, TaskInv, Shape, Follows, At
<1>10. ASSUME CleanTimeout(b, t) PROVE TaskInv(b, t)'
  <2>1. CASE EndOp(b, t)
    BY <2>1, EndOpKeeps
  <2>2. CASE ~EndOp(b, t)
    BY <1>10, <2>2, GotoKeeps DEF CleanTimeout, TaskInv, Follows, At
  <2>3. QED BY <2>1, <2>2
<1>11. ASSUME CleanScoped(b, t) PROVE TaskInv(b, t)'
  BY <1>11, GotoKeeps, Zenon DEF CleanScoped, TaskInv, Shape, Follows, At
<1>12. ASSUME Release(b, t) PROVE TaskInv(b, t)'
  BY <1>12, CleanupDoneKeeps DEF Release, At, TypeOK
<1>13. ASSUME VerifyStop(b, t) PROVE TaskInv(b, t)'
  BY <1>13, EndOpKeeps DEF VerifyStop
<1>14. ASSUME ArmCall(b, t) PROVE TaskInv(b, t)'
  BY <1>14, GotoKeeps, Zenon DEF ArmCall, TaskInv, Shape, Follows, At
<1>15. ASSUME ArmBoundary(b, t) PROVE TaskInv(b, t)'
  BY <1>15, GotoKeeps, Zenon DEF ArmBoundary, TaskInv, Shape, Follows, At
<1>16. ASSUME ArmTimeout(b, t) PROVE TaskInv(b, t)'
  BY <1>16, GotoKeeps, Zenon DEF ArmTimeout, TaskInv, Shape, Follows, At
<1>17. ASSUME ArmReset(b, t) PROVE TaskInv(b, t)'
  BY <1>17, GotoKeeps, Zenon DEF ArmReset, TaskInv, Shape, Follows, At
<1>18. ASSUME SampleProxy(b, t) PROVE TaskInv(b, t)'
  BY <1>18, GotoKeeps, Zenon DEF SampleProxy, TaskInv, Shape, Follows, At
<1>19. ASSUME PrepareSession(b, t) PROVE TaskInv(b, t)'
  BY <1>19, GotoKeeps, Zenon DEF PrepareSession, TaskInv, Shape, Follows, At
<1>20. ASSUME SecureLink(b, t) PROVE TaskInv(b, t)'
  BY <1>20, GotoKeeps, Zenon DEF SecureLink, TaskInv, Shape, Follows, At
<1>21. ASSUME Authorize(b, t) PROVE TaskInv(b, t)'
  <2>1. CASE Starting(b, t) /\ AfterStart(b, t) /\ started' = [started EXCEPT ![b] = TRUE]
    <3>1. started'[b]
      BY <2>1 DEF TypeOK
    <3>2. task[b][t].op # "stop"
      BY <1>21 DEF Authorize, TaskInv, Shape, At
    <3>3. QED BY <1>21, <2>1, <3>1, <3>2, AfterStartKeeps DEF Authorize
  <2>2. CASE /\ task[b][t].ctx \in {"ensure", "recover"}
             /\ GotoIn(b, t, "request", "none")
             /\ UNCHANGED <<started, lockVars>>
    <3>1. /\ task'[b][t].pc = "request"
          /\ task'[b][t].op = task[b][t].op
          /\ task'[b][t].ctx = "none"
      <4>1. "request" \in PCs /\ "none" \in Contexts
        OBVIOUS
      <4> HIDE DEF PCs, Contexts
      <4>2. QED BY <2>2, <4>1, Moved
    <3>2. QED BY <1>21, <2>2, <3>1 DEF Authorize, TaskInv, Shape, Reading, Starting, UnderReadLock, UnderLifeLock, At
  <2>3. QED BY <1>21, <2>1, <2>2 DEF Authorize, Starting
<1>22. ASSUME Miscorrelated(b, t) PROVE TaskInv(b, t)'
  BY <1>22, GotoKeeps, Zenon DEF Miscorrelated, TaskInv, Shape, Follows, At
<1>23. ASSUME RefenceDisconnect(b, t) PROVE TaskInv(b, t)'
  BY <1>23, GotoKeeps, Zenon DEF RefenceDisconnect, TaskInv, Shape, Follows, At
<1>24. ASSUME RefenceBoundary(b, t) PROVE TaskInv(b, t)'
  <2>1. /\ task'[b][t].pc = "sample"
        /\ task'[b][t].op = task[b][t].op
        /\ task'[b][t].ctx = "restart"
    <3>1. GotoIn(b, t, "sample", "restart") /\ "sample" \in PCs /\ "restart" \in Contexts
      BY <1>24 DEF RefenceBoundary
    <3> HIDE DEF PCs, Contexts
    <3>2. QED BY <3>1, Moved
  <2>2. /\ At(b, t, "refenceWait") /\ task[b][t].ctx = "start"
        /\ UNCHANGED <<started, owns, lifeLock, readLock>>
    BY <1>24 DEF RefenceBoundary, TaskInv, Shape, At
  <2>3. QED
    BY <2>1, <2>2 DEF TaskInv, Shape, Reading, Starting, UnderReadLock, UnderLifeLock, At
<1>25. ASSUME Reply(b, t) PROVE TaskInv(b, t)'
  BY <1>25, EndOpKeeps DEF Reply
<1>26. ASSUME RequestFails(b, t) PROVE TaskInv(b, t)'
  <2>1. CASE EndOp(b, t)
    BY <2>1, EndOpKeeps
  <2>2. CASE ~EndOp(b, t)
    <3>1. task[b][t] \in TaskRec
      BY DEF TypeOK, TaskRec
    <3>2. task'[b][t] = [task[b][t] EXCEPT !.pc = "recDisc", !.ctx = "recover", !.left = @ - 1]
      BY <1>26, <2>2 DEF RequestFails, TypeOK
    <3>3. /\ task'[b][t].pc = "recDisc"
          /\ task'[b][t].op = task[b][t].op
          /\ task'[b][t].ctx = "recover"
      BY <3>1, <3>2 DEF TaskRec
    <3>4. QED BY <1>26, <2>2, <3>3 DEF RequestFails, TaskInv, Shape, Reading, Starting, UnderReadLock, UnderLifeLock, At
  <2>3. QED BY <2>1, <2>2
<1>27. ASSUME RecDisconnect(b, t) PROVE TaskInv(b, t)'
  BY <1>27, GotoKeeps, Zenon DEF RecDisconnect, TaskInv, Shape, Follows, At
<1>28. ASSUME RecScoped(b, t) PROVE TaskInv(b, t)'
  BY <1>28, GotoKeeps, Zenon DEF RecScoped, TaskInv, Shape, Follows, At
<1>29. ASSUME RecBoundary(b, t) PROVE TaskInv(b, t)'
  BY <1>29, GotoKeeps, Zenon DEF RecBoundary, TaskInv, Shape, Follows, At
<1>30. ASSUME SampleUp(b, t) PROVE TaskInv(b, t)'
  BY <1>30 DEF SampleUp, TaskInv, Shape, Reading, Starting, UnderReadLock, UnderLifeLock, At
<1>31. QED
  BY ActionOf(b, t), <1>1, <1>2, <1>3, <1>4, <1>5, <1>6, <1>7, <1>8, <1>9, <1>10, <1>11, <1>12, <1>13, <1>14, <1>15, <1>16, <1>17, <1>18, <1>19, <1>20, <1>21, <1>22, <1>23, <1>24, <1>25, <1>26, <1>27, <1>28, <1>29, <1>30 DEF ActionOf

-----------------------------------------------------------------------------
(* The other tasks.                                                        *)

(* A lock that u holds is not touched by a step of another task.           *)
LEMMA HeldLockStays ==
  ASSUME NEW b \in Backends, NEW t \in Tasks, NEW c \in Backends, NEW u \in Tasks,
         c # b \/ u # t
  PROVE  /\ LockMoves(lifeLock, b, t) /\ lifeLock[c] = u => lifeLock'[c] = u
         /\ LockMoves(readLock, b, t) /\ readLock[c] = u => readLock'[c] = u
BY DEF LockMoves

(* A task that does not move keeps TaskInv if its backend's flags agree.   *)
LEMMA StandingTask ==
  ASSUME NEW b \in Backends, NEW t \in Tasks, NEW c \in Backends, NEW u \in Tasks,
         c # b \/ u # t, Frame(b, t), TaskInv(c, u),
         Reading(c, u) => started'[c],
         Starting(c, u) => owns'[c] /\ ~started'[c],
         task[c][u].pc \in CleanPCs \ {"cleanEnter"} => owns'[c],
         At(c, u, "verify") => ~owns'[c]
  PROVE  TaskInv(c, u)'
<1>1. task'[c][u] = task[c][u]
  BY DEF Frame
<1>2. /\ lifeLock[c] = u => lifeLock'[c] = u
      /\ readLock[c] = u => readLock'[c] = u
  BY HeldLockStays DEF Frame
<1>3. QED
  BY <1>1, <1>2 DEF TaskInv, Shape, Reading, Starting, UnderReadLock, UnderLifeLock, At

(* No step disturbs the invariant of a task that does not move.            *)
LEMMA OthersKeep ==
  ASSUME LifecycleInv, NEW b \in Backends, NEW t \in Tasks, ActionOf(b, t),
         NEW c \in Backends, NEW u \in Tasks, c # b \/ u # t
  PROVE  TaskInv(c, u)'
<1>1. TypeOK /\ TaskInv(c, u) /\ TaskInv(b, t)
  BY DEF LifecycleInv
<1>2. Frame(b, t) /\ Effects(b, t)
  BY <1>1, StepFrame, StepEffects
<1>3. CASE UNCHANGED <<started, owns>>
  BY <1>1, <1>2, <1>3, StandingTask DEF TaskInv
<1>4. CASE EnterStart(b, t)
  <2>1. UNCHANGED started /\ \A d \in Backends : owns[d] => owns'[d]
    BY <1>1, <1>4 DEF EnterStart, claimVars, TypeOK
  <2>2. ASSUME At(c, u, "verify") PROVE ~owns'[c]
    <3>1. lifeLock[c] = u /\ ~owns[c]
      BY <1>1, <2>2 DEF TaskInv, UnderLifeLock, At
    <3>2. c # b
      BY <1>4, <3>1 DEF EnterStart
    <3>3. QED BY <1>1, <1>4, <3>1, <3>2 DEF EnterStart, claimVars, TypeOK
  <2>3. QED BY <1>1, <1>2, <2>1, <2>2, StandingTask DEF TaskInv
<1>5. CASE Release(b, t)
  <2>1. Active(b, t)
    BY <1>5 DEF Release, Active, At, LinkPCs, CleanPCs
  <2>2. \A d \in Backends : d # b => started'[d] = started[d] /\ owns'[d] = owns[d]
    BY <1>1, <1>5 DEF Release, TypeOK
  <2>3. ~owns'[b] /\ ~started'[b]
    BY <1>1, <1>5 DEF Release, TypeOK
  <2>4. CASE c # b
    BY <1>1, <1>2, <2>2, <2>4, StandingTask DEF TaskInv
  <2>5. CASE c = b
    <3>1. ~Active(c, u)
      BY <2>1, <2>5, OneActive
    <3>2. ~Reading(c, u) /\ task[c][u].pc \notin CleanPCs \ {"cleanEnter"}
      BY <3>1 DEF Active, LinkPCs
    <3>3. ~Starting(c, u)
      <4>1. lifeLock[b] = t
        BY <1>1, <1>5 DEF Release, TaskInv, UnderLifeLock, At, CleanPCs
      <4>2. QED BY <1>1, <2>5, <4>1 DEF TaskInv, UnderLifeLock
    <3>4. QED BY <1>1, <1>2, <2>3, <2>5, <3>2, <3>3, StandingTask
  <2>6. QED BY <2>4, <2>5
<1>6. CASE Authorize(b, t) /\ ~UNCHANGED started
  <2>1. Starting(b, t) /\ UNCHANGED owns /\ lifeLock[b] = t
    BY <1>1, <1>6 DEF Authorize, Starting, claimVars, TaskInv, UnderLifeLock
  <2>2. \A d \in Backends : d # b => started'[d] = started[d]
    BY <1>1, <1>6 DEF Authorize, TypeOK
  <2>3. \A d \in Backends : started[d] => started'[d]
    BY <1>1, <1>6 DEF Authorize, TypeOK
  <2>4. Starting(c, u) => c # b
    BY <1>1, <2>1 DEF TaskInv, UnderLifeLock
  <2>5. QED BY <1>1, <1>2, <2>1, <2>2, <2>3, <2>4, StandingTask DEF TaskInv
<1>7. QED
  BY <1>2, <1>3, <1>4, <1>5, <1>6 DEF Effects, claimVars

(* TaskInv of every task is preserved by every task step.                  *)
LEMMA TasksKeep ==
  ASSUME LifecycleInv, NEW b \in Backends, NEW t \in Tasks, ActionOf(b, t)
  PROVE  \A c \in Backends, u \in Tasks : TaskInv(c, u)'
<1>1. TaskInv(b, t)'
  BY ActorKeeps DEF LifecycleInv
<1>2. QED BY <1>1, OthersKeep

-----------------------------------------------------------------------------
(* The claim, the sessions and the link.                                   *)

(* Only tasks past their entry locks change sessions, snapshots and links, *)
(* and they own the controller.                                            *)
LEMMA ActiveOwns ==
  ASSUME LifecycleInv, NEW b \in Backends, NEW t \in Tasks, Active(b, t)
  PROVE  owns[b] /\ owner = b
BY DEF LifecycleInv, TaskInv, SessionNeedsClaim, RegistryAgrees, Active

(* The registry and the flags move together.                               *)
LEMMA RegistryKept ==
  ASSUME LifecycleInv, NEW b \in Backends, NEW t \in Tasks, ActionOf(b, t)
  PROVE  RegistryAgrees'
<1>1. TypeOK /\ RegistryAgrees /\ Effects(b, t)
  BY StepEffects DEF LifecycleInv
<1>2. CASE UNCHANGED claimVars
  BY <1>1, <1>2 DEF RegistryAgrees, claimVars
<1>3. CASE EnterStart(b, t)
  BY <1>1, <1>3 DEF EnterStart, RegistryAgrees, claimVars, TypeOK
<1>4. CASE Release(b, t)
  <2>1. owner = b
    BY <1>4, ActiveOwns DEF Active, Release, At, LinkPCs, CleanPCs
  <2>2. QED BY <1>1, <1>4, <2>1 DEF Release, RegistryAgrees, TypeOK
<1>5. QED BY <1>1, <1>2, <1>3, <1>4 DEF Effects

(* What a backend keeps of a session it keeps under the claim.             *)
LEMMA ClaimKept ==
  ASSUME LifecycleInv, NEW b \in Backends, NEW t \in Tasks, ActionOf(b, t)
  PROVE  SessionNeedsClaim'
<1>1. TypeOK /\ TypeOK' /\ SessionNeedsClaim /\ Effects(b, t)
  BY StepEffects, StepFrame, StepData, TypeSplits DEF LifecycleInv
<1>2. \A c \in Backends :
        started'[c] \/ session'[c].state # "none" \/ client'[c] # "none" => owns'[c]
  <2>1. CASE Release(b, t)
    <3>1. /\ ~started'[b] /\ session'[b].state = "none" /\ client'[b] = "none"
          /\ \A c \in Backends : c # b =>
               /\ started'[c] = started[c] /\ session'[c] = session[c]
               /\ client'[c] = client[c] /\ owns'[c] = owns[c]
      BY <1>1, <2>1 DEF Release, TypeOK, NoSession
    <3>2. QED BY <1>1, <3>1 DEF SessionNeedsClaim
  <2>2. CASE ~Release(b, t)
    <3>1. \A c \in Backends : owns[c] => owns'[c]
      BY <1>1, <2>2 DEF Effects, EnterStart, claimVars, TypeOK
    <3>2. CASE UNCHANGED <<started, linkVars>>
      BY <1>1, <3>1, <3>2 DEF SessionNeedsClaim, linkVars
    <3>3. CASE ~UNCHANGED <<started, linkVars>>
      <4>1. owns[b]
        BY <1>1, <2>2, <3>3, ActiveOwns DEF Effects, Active
      <4>2. QED BY <1>1, <2>2, <3>1, <3>3, <4>1 DEF Effects, SessionNeedsClaim
    <3>4. QED BY <3>2, <3>3
  <2>3. QED BY <2>1, <2>2
<1>3. ASSUME NEW c \in Backends, NEW u \in Tasks, task'[c][u].pc \in LinkPCs
      PROVE  owns'[c]
  <2>1. TaskInv(c, u)'
    BY TasksKeep
  <2>2. \/ Reading(c, u)'
        \/ Starting(c, u)'
        \/ task'[c][u].pc \in CleanPCs \ {"cleanEnter"}
    <3>1. task'[c][u] \in TaskRec
      BY <1>1 DEF TypeOK, TaskRec
    <3>2. QED
      BY <1>3, <2>1, <3>1 DEF TaskRec, TaskInv, Shape, Reading, Starting, At, Contexts,
         LinkPCs, ArmPCs, EstPCs, FencePCs, CleanPCs, RecPCs
  <2>3. QED BY <1>2, <2>1, <2>2 DEF TaskInv
<1>4. QED BY <1>2, <1>3 DEF SessionNeedsClaim

(* The step that enters release.                                           *)
LEMMA EntersRelease ==
  ASSUME TypeOK, NEW b \in Backends, NEW t \in Tasks, ActionOf(b, t),
         task'[b][t].pc = "release"
  PROVE  CleanBoundary(b, t)
<1> USE DEF PCs, ArmPCs, EstPCs, FencePCs, CleanPCs, RecPCs, LockPCs, Contexts
<1>1. ~EndOp(b, t)
  BY EndOpEffect DEF TaskBecomes, Idle
<1>2. /\ \A p \in PCs : Goto(b, t, p) => p = "release"
      /\ \A p \in PCs, c \in Contexts : GotoIn(b, t, p, c) => p = "release"
  <2> HIDE DEF PCs, Contexts
  <2>1. QED BY Moved
<1>3. ASSUME NEW op \in Calls, Begin(b, t, op) PROVE FALSE
  BY <1>3 DEF Begin, TypeOK
<1>4. ~Raise(b, t) /\ ~CleanupDone(b, t) /\ ~AfterStart(b, t)
  BY <1>1, <1>2 DEF Raise, CleanupDone, AfterStart
<1>5. ~TakeReadLock(b, t)
  BY <1>1, <1>2, <1>4 DEF TakeReadLock
<1>6. ~EnterStart(b, t)
  BY <1>1, <1>2, <1>4 DEF EnterStart
<1>7. ~TakeLifeLock(b, t)
  BY <1>1, <1>2, <1>4 DEF TakeLifeLock
<1>8. ~StepFails(b, t)
  BY <1>1, <1>2, <1>4 DEF StepFails
<1>9. ~Cancel(b, t)
  BY <1>1, <1>2, <1>4 DEF Cancel
<1>10. ~EnterCleanup(b, t)
  BY <1>1, <1>2, <1>4 DEF EnterCleanup
<1>11. ~CleanDisconnect(b, t)
  BY <1>1, <1>2, <1>4 DEF CleanDisconnect
<1>12. ~CleanTimeout(b, t)
  BY <1>1, <1>2, <1>4 DEF CleanTimeout
<1>13. ~CleanScoped(b, t)
  BY <1>1, <1>2, <1>4 DEF CleanScoped
<1>14. ~Release(b, t)
  BY <1>1, <1>2, <1>4 DEF Release
<1>15. ~VerifyStop(b, t)
  BY <1>1, <1>2, <1>4 DEF VerifyStop
<1>16. ~ArmCall(b, t)
  BY <1>1, <1>2, <1>4 DEF ArmCall
<1>17. ~ArmBoundary(b, t)
  BY <1>1, <1>2, <1>4 DEF ArmBoundary
<1>18. ~ArmTimeout(b, t)
  BY <1>1, <1>2, <1>4 DEF ArmTimeout
<1>19. ~ArmReset(b, t)
  BY <1>1, <1>2, <1>4 DEF ArmReset
<1>20. ~SampleProxy(b, t)
  BY <1>1, <1>2, <1>4 DEF SampleProxy
<1>21. ~PrepareSession(b, t)
  BY <1>1, <1>2, <1>4 DEF PrepareSession
<1>22. ~SecureLink(b, t)
  BY <1>1, <1>2, <1>4 DEF SecureLink
<1>23. ~Authorize(b, t)
  BY <1>1, <1>2, <1>4 DEF Authorize
<1>24. ~Miscorrelated(b, t)
  BY <1>1, <1>2, <1>4 DEF Miscorrelated
<1>25. ~RefenceDisconnect(b, t)
  BY <1>1, <1>2, <1>4 DEF RefenceDisconnect
<1>26. ~RefenceBoundary(b, t)
  BY <1>1, <1>2, <1>4 DEF RefenceBoundary
<1>27. ~Reply(b, t)
  BY <1>1, <1>2, <1>4 DEF Reply
<1>28. ASSUME RequestFails(b, t) PROVE FALSE
  <2>1. task[b][t] \in TaskRec
    BY DEF TypeOK, TaskRec
  <2>2. task'[b][t] = [task[b][t] EXCEPT !.pc = "recDisc", !.ctx = "recover", !.left = @ - 1]
    BY <1>1, <1>28 DEF RequestFails, TypeOK
  <2>3. QED BY <2>1, <2>2 DEF TaskRec
<1>29. ~RecDisconnect(b, t)
  BY <1>1, <1>2, <1>4 DEF RecDisconnect
<1>30. ~RecScoped(b, t)
  BY <1>1, <1>2, <1>4 DEF RecScoped
<1>31. ~RecBoundary(b, t)
  BY <1>1, <1>2, <1>4 DEF RecBoundary
<1>32. ~SampleUp(b, t)
  BY DEF SampleUp, WaitPCs
<1>33. QED
  BY ActionOf(b, t), <1>3, <1>5, <1>6, <1>7, <1>8, <1>9, <1>10, <1>11, <1>12, <1>13, <1>14, <1>15, <1>16, <1>17, <1>18, <1>19, <1>20, <1>21, <1>22, <1>23, <1>24, <1>25, <1>26, <1>27, <1>28, <1>29, <1>30, <1>31, <1>32 DEF ActionOf

(* A snapshot is settled before its backend gives the controller back.     *)
LEMMA SnapshotKept ==
  ASSUME LifecycleInv, NEW b \in Backends, NEW t \in Tasks, ActionOf(b, t)
  PROVE  SnapshotSettled'
<1>1. /\ TypeOK /\ SnapshotSettled /\ RegistryAgrees
      /\ Effects(b, t) /\ Frame(b, t)
  BY StepEffects, StepFrame DEF LifecycleInv
<1>2. ASSUME NEW c \in Backends, ~owns'[c] PROVE snapshot'[c] \in {"none", "down"}
  <2>1. CASE Release(b, t)
    BY <1>1, <1>2, <2>1 DEF Release, SnapshotSettled, TypeOK, At
  <2>2. CASE ~Release(b, t)
    <3>1. ~owns[c]
      BY <1>1, <1>2, <2>2 DEF Effects, EnterStart, claimVars, TypeOK
    <3>2. snapshot'[c] = snapshot[c]
      BY <1>1, <3>1, ActiveOwns
         DEF Effects, Active, WaitPCs, LinkPCs, ArmPCs, FencePCs, CleanPCs, RecPCs
    <3>3. QED BY <1>1, <3>1, <3>2 DEF SnapshotSettled
  <2>3. QED BY <2>1, <2>2
<1>3. ASSUME NEW c \in Backends, NEW u \in Tasks, At(c, u, "release")'
      PROVE  snapshot'[c] = "down"
  <2>1. CASE c = b /\ u = t
    <3>1. CleanBoundary(b, t)
      BY <1>1, <1>3, <2>1, EntersRelease DEF At
    <3>2. QED BY <1>1, <2>1, <3>1 DEF CleanBoundary, SampleDown, TypeOK
  <2>2. CASE c # b \/ u # t
    <3>1. At(c, u, "release")
      BY <1>1, <1>3, <2>2 DEF Frame, At
    <3>2. snapshot[c] = "down" /\ Active(c, u)
      BY <1>1, <3>1 DEF SnapshotSettled, Active, At, LinkPCs, CleanPCs
    <3>3. snapshot'[c] = snapshot[c]
      BY <1>1, <2>2, <3>2, OneActive
         DEF Effects, Active, WaitPCs, LinkPCs, ArmPCs, FencePCs, CleanPCs, RecPCs
    <3>4. QED BY <3>2, <3>3
  <2>3. QED BY <2>1, <2>2
<1>4. QED BY <1>2, <1>3 DEF SnapshotSettled

(* A link that is up stays with its owner.                                 *)
LEMMA LinkKept ==
  ASSUME LifecycleInv, NEW b \in Backends, NEW t \in Tasks, ActionOf(b, t)
  PROVE  LiveLinkOwned' /\ LinkHasOneUser'
<1>1. /\ TypeOK /\ LiveLinkOwned /\ LinkHasOneUser /\ RegistryAgrees /\ RegistryAgrees'
      /\ Effects(b, t) /\ ReleasedLinkIsDead
  BY StepEffects, RegistryKept DEF LifecycleInv
<1>2. CASE PrepareSession(b, t)
  <2>1. owner = b /\ owner' = owner /\ proxy' = proxy /\ proxy.link \in Links
    BY <1>1, <1>2, ActiveOwns
       DEF PrepareSession, Active, At, LinkPCs, EstPCs, claimVars, LiveLinkOwned
  <2>2. /\ binders'[proxy.link] = binders[proxy.link] \cup {b}
        /\ \A k \in Links : k # proxy.link => binders'[k] = binders[k]
    BY <1>1, <1>2, <2>1 DEF PrepareSession, TypeOK
  <2>3. \A c \in binders[proxy.link] : c = b
    BY <1>1, <1>2, <2>1 DEF LiveLinkOwned, PrepareSession
  <2>4. proxy.link \in Nat
    BY <2>1 DEF Links
  <2>5. LinkHasOneUser'
    BY <1>1, <2>2, <2>3 DEF LinkHasOneUser
  <2>6. LiveLinkOwned'
    BY <1>1, <2>1, <2>2, <2>3, <2>4 DEF LiveLinkOwned
  <2>7. QED BY <2>5, <2>6
<1>3. CASE ~PrepareSession(b, t)
  <2>1. UNCHANGED <<proxy, binders>>
    BY <1>1, <1>3 DEF Effects
  <2>2. ASSUME proxy.phase # "down", NEW c \in binders[proxy.link] PROVE owner' = c
    <3>1. owner = c /\ proxy.link \in Links
      BY <1>1, <2>2 DEF LiveLinkOwned
    <3>2. c \in Backends
      BY <1>1, <2>2, <3>1 DEF TypeOK
    <3>3. ~Release(b, t) \/ b # c
      BY <1>1, <2>2, <3>1, <3>2 DEF Release, ReleasedLinkIsDead
    <3>4. CASE EnterStart(b, t)
      BY <1>1, <3>1, <3>2, <3>4 DEF EnterStart, RegistryAgrees, claimVars
    <3>5. CASE Release(b, t)
      BY <1>1, <3>1, <3>3, <3>5, ActiveOwns DEF Release, Active, At, LinkPCs, CleanPCs
    <3>6. CASE UNCHANGED claimVars
      BY <3>1, <3>6 DEF claimVars
    <3>7. QED BY <1>1, <3>4, <3>5, <3>6 DEF Effects
  <2>3. QED BY <1>1, <2>1, <2>2 DEF LiveLinkOwned, LinkHasOneUser
<1>4. QED BY <1>2, <1>3

(* The link of a backend about to release stays dead.                      *)
LEMMA DeadLinkKept ==
  ASSUME LifecycleInv, NEW b \in Backends, NEW t \in Tasks, ActionOf(b, t)
  PROVE  ReleasedLinkIsDead'
<1>1. /\ TypeOK /\ LiveLinkOwned /\ ReleasedLinkIsDead
      /\ Effects(b, t) /\ Frame(b, t)
  BY StepEffects, StepFrame DEF LifecycleInv
<1>2. SUFFICES ASSUME NEW c \in Backends, NEW u \in Tasks, At(c, u, "release")',
                      proxy'.phase # "down", proxy'.link \in Links
               PROVE  c \notin binders'[proxy'.link]
  BY DEF ReleasedLinkIsDead
<1>3. proxy' = proxy
  BY <1>1 DEF Effects
<1>4. c # b \/ u # t
  BY <1>1, <1>2, <1>3, EntersRelease DEF CleanBoundary, SampleDown, At
<1>5. At(c, u, "release") /\ Active(c, u)
  BY <1>1, <1>2, <1>4 DEF Frame, At, Active, LinkPCs, CleanPCs
<1>6. c \notin binders[proxy.link]
  BY <1>1, <1>2, <1>3, <1>5 DEF ReleasedLinkIsDead
<1>7. ~PrepareSession(b, t)
  BY <1>4, <1>5, OneActive DEF PrepareSession, Active, At, LinkPCs, EstPCs
<1>8. QED BY <1>1, <1>3, <1>6, <1>7 DEF Effects

(* A task is inside the fence.                                             *)
Behind(b, t) == task[b][t].pc \in FencedPCs(task[b][t].ctx)

(* The fence is entered only on a dead link.                               *)
LEMMA EntersFence ==
  ASSUME TypeOK, NEW b \in Backends, NEW t \in Tasks, ActionOf(b, t),
         Shape(b, t), Behind(b, t)', proxy.phase # "down"
  PROVE  Behind(b, t)
<1> USE DEF PCs, ArmPCs, EstPCs, FencePCs, CleanPCs, RecPCs, LockPCs, Contexts, FencedPCs, Behind, At
<1>1. ~EndOp(b, t)
  BY EndOpEffect DEF TaskBecomes, Idle
<1>2. \A p \in PCs : Goto(b, t, p) => p \in FencedPCs(task[b][t].ctx)
  <2> HIDE DEF FencedPCs, PCs
  <2>1. ASSUME NEW p \in PCs, Goto(b, t, p)
        PROVE  task'[b][t].pc = p /\ task'[b][t].ctx = task[b][t].ctx
    BY <2>1, Moved
  <2>2. QED BY <2>1
<1>3. \A p \in PCs, c \in Contexts : GotoIn(b, t, p, c) => p \in FencedPCs(c)
  <2> HIDE DEF FencedPCs, PCs, Contexts
  <2>1. ASSUME NEW p \in PCs, NEW c \in Contexts, GotoIn(b, t, p, c)
        PROVE  task'[b][t].pc = p /\ task'[b][t].ctx = c
    BY <2>1, Moved
  <2>2. QED BY <2>1
<1>4. ~Raise(b, t) /\ ~CleanupDone(b, t)
  BY <1>1, <1>2 DEF Raise, CleanupDone
<1>5. AfterStart(b, t) => task[b][t].ctx = "recover"
  BY <1>1, <1>3 DEF AfterStart
<1>6. ASSUME NEW op \in Calls, Begin(b, t, op) PROVE Behind(b, t)
  <2>1. task'[b][t] = [pc |-> IF op = "start" THEN "stlock" ELSE "rdlock",
                       op |-> op, ctx |-> "none", left |-> Recoveries(op)]
    BY <1>6 DEF Begin, TypeOK
  <2>2. QED BY <2>1
<1>7. ASSUME TakeReadLock(b, t) PROVE Behind(b, t)
  BY <1>1, <1>2, <1>3, <1>4, <1>5, <1>7 DEF TakeReadLock, SampleDown, Shape
<1>8. ASSUME EnterStart(b, t) PROVE Behind(b, t)
  BY <1>1, <1>2, <1>3, <1>4, <1>5, <1>8 DEF EnterStart, SampleDown, Shape
<1>9. ASSUME TakeLifeLock(b, t) PROVE Behind(b, t)
  BY <1>1, <1>2, <1>3, <1>4, <1>5, <1>9 DEF TakeLifeLock, SampleDown, Shape
<1>10. ASSUME StepFails(b, t) PROVE Behind(b, t)
  BY <1>1, <1>2, <1>3, <1>4, <1>5, <1>10 DEF StepFails, SampleDown, Shape
<1>11. ASSUME Cancel(b, t) PROVE Behind(b, t)
  BY <1>1, <1>2, <1>3, <1>4, <1>5, <1>11 DEF Cancel, SampleDown, Shape
<1>12. ASSUME EnterCleanup(b, t) PROVE Behind(b, t)
  BY <1>1, <1>2, <1>3, <1>4, <1>5, <1>12 DEF EnterCleanup, SampleDown, Shape
<1>13. ASSUME CleanDisconnect(b, t) PROVE Behind(b, t)
  BY <1>1, <1>2, <1>3, <1>4, <1>5, <1>13 DEF CleanDisconnect, SampleDown, Shape
<1>14. ASSUME CleanBoundary(b, t) PROVE Behind(b, t)
  BY <1>1, <1>2, <1>3, <1>4, <1>5, <1>14 DEF CleanBoundary, SampleDown, Shape
<1>15. ASSUME CleanTimeout(b, t) PROVE Behind(b, t)
  BY <1>1, <1>2, <1>3, <1>4, <1>5, <1>15 DEF CleanTimeout, SampleDown, Shape
<1>16. ASSUME CleanScoped(b, t) PROVE Behind(b, t)
  BY <1>1, <1>2, <1>3, <1>4, <1>5, <1>16 DEF CleanScoped, SampleDown, Shape
<1>17. ASSUME Release(b, t) PROVE Behind(b, t)
  BY <1>1, <1>2, <1>3, <1>4, <1>5, <1>17 DEF Release, SampleDown, Shape
<1>18. ASSUME VerifyStop(b, t) PROVE Behind(b, t)
  BY <1>1, <1>2, <1>3, <1>4, <1>5, <1>18 DEF VerifyStop, SampleDown, Shape
<1>19. ASSUME ArmCall(b, t) PROVE Behind(b, t)
  BY <1>1, <1>2, <1>3, <1>4, <1>5, <1>19 DEF ArmCall, SampleDown, Shape
<1>20. ASSUME ArmBoundary(b, t) PROVE Behind(b, t)
  BY <1>1, <1>2, <1>3, <1>4, <1>5, <1>20 DEF ArmBoundary, SampleDown, Shape
<1>21. ASSUME ArmTimeout(b, t) PROVE Behind(b, t)
  BY <1>1, <1>2, <1>3, <1>4, <1>5, <1>21 DEF ArmTimeout, SampleDown, Shape
<1>22. ASSUME ArmReset(b, t) PROVE Behind(b, t)
  BY <1>1, <1>2, <1>3, <1>4, <1>5, <1>22 DEF ArmReset, SampleDown, Shape
<1>23. ASSUME SampleProxy(b, t) PROVE Behind(b, t)
  BY <1>1, <1>2, <1>3, <1>4, <1>5, <1>23 DEF SampleProxy, SampleDown, Shape
<1>24. ASSUME PrepareSession(b, t) PROVE Behind(b, t)
  BY <1>1, <1>2, <1>3, <1>4, <1>5, <1>24 DEF PrepareSession, SampleDown, Shape
<1>25. ASSUME SecureLink(b, t) PROVE Behind(b, t)
  BY <1>1, <1>2, <1>3, <1>4, <1>5, <1>25 DEF SecureLink, SampleDown, Shape
<1>26. ASSUME Authorize(b, t) PROVE Behind(b, t)
  BY <1>1, <1>2, <1>3, <1>4, <1>5, <1>26 DEF Authorize, SampleDown, Shape
<1>27. ASSUME Miscorrelated(b, t) PROVE Behind(b, t)
  BY <1>1, <1>2, <1>3, <1>4, <1>5, <1>27 DEF Miscorrelated, SampleDown, Shape
<1>28. ASSUME RefenceDisconnect(b, t) PROVE Behind(b, t)
  BY <1>1, <1>2, <1>3, <1>4, <1>5, <1>28 DEF RefenceDisconnect, SampleDown, Shape
<1>29. ASSUME RefenceBoundary(b, t) PROVE Behind(b, t)
  BY <1>1, <1>2, <1>3, <1>4, <1>5, <1>29 DEF RefenceBoundary, SampleDown, Shape
<1>30. ASSUME Reply(b, t) PROVE Behind(b, t)
  BY <1>1, <1>2, <1>3, <1>4, <1>5, <1>30 DEF Reply, SampleDown, Shape
<1>31. ASSUME RequestFails(b, t) PROVE Behind(b, t)
  <2>1. task[b][t] \in TaskRec
    BY DEF TypeOK, TaskRec
  <2>2. task'[b][t] = [task[b][t] EXCEPT !.pc = "recDisc", !.ctx = "recover", !.left = @ - 1]
    BY <1>1, <1>31 DEF RequestFails, TypeOK
  <2>3. QED BY <2>1, <2>2 DEF TaskRec
<1>32. ASSUME RecDisconnect(b, t) PROVE Behind(b, t)
  BY <1>1, <1>2, <1>3, <1>4, <1>5, <1>32 DEF RecDisconnect, SampleDown, Shape
<1>33. ASSUME RecScoped(b, t) PROVE Behind(b, t)
  BY <1>1, <1>2, <1>3, <1>4, <1>5, <1>33 DEF RecScoped, SampleDown, Shape
<1>34. ASSUME RecBoundary(b, t) PROVE Behind(b, t)
  BY <1>1, <1>2, <1>3, <1>4, <1>5, <1>34 DEF RecBoundary, SampleDown, Shape
<1>35. ASSUME SampleUp(b, t) PROVE Behind(b, t)
  BY <1>35 DEF SampleUp
<1>36. QED
  BY ActionOf(b, t), <1>6, <1>7, <1>8, <1>9, <1>10, <1>11, <1>12, <1>13, <1>14, <1>15, <1>16, <1>17, <1>18, <1>19, <1>20, <1>21, <1>22, <1>23, <1>24, <1>25, <1>26, <1>27, <1>28, <1>29, <1>30, <1>31, <1>32, <1>33, <1>34, <1>35 DEF ActionOf

(* Behind the fence the link stays unused.                                 *)
LEMMA FenceKept ==
  ASSUME LifecycleInv, NEW b \in Backends, NEW t \in Tasks, ActionOf(b, t)
  PROVE  Fenced'
<1>1. /\ TypeOK /\ Fenced /\ Shape(b, t)
      /\ Effects(b, t) /\ Frame(b, t)
  BY StepEffects, StepFrame DEF LifecycleInv, TaskInv
<1>2. SUFFICES ASSUME NEW c \in Backends, NEW u \in Tasks, Behind(c, u)',
                      proxy'.phase # "down"
               PROVE  binders'[proxy'.link] = {}
  BY DEF Fenced, Behind
<1>3. proxy' = proxy
  BY <1>1 DEF Effects
<1>4. Behind(c, u)
  BY <1>1, <1>2, <1>3, EntersFence DEF Frame, Behind
<1>5. binders[proxy.link] = {}
  BY <1>1, <1>2, <1>3, <1>4 DEF Fenced, Behind
<1>6. ASSUME PrepareSession(b, t) PROVE FALSE
  <2>1. Active(b, t)
    BY <1>6 DEF PrepareSession, Active, At, LinkPCs, EstPCs
  <2>2. Active(c, u)
    BY <1>4 DEF Behind, FencedPCs, Active, Reading, LinkPCs, EstPCs
  <2>3. c = b /\ u = t
    BY <2>1, <2>2, OneActive
  <2>4. task'[b][t].pc = "secure"
    BY <1>1, <1>6, Moved DEF PrepareSession, PCs, EstPCs
  <2>5. QED BY <1>2, <2>3, <2>4 DEF Behind, FencedPCs, ArmPCs
<1>7. QED BY <1>1, <1>3, <1>5, <1>6 DEF Effects

-----------------------------------------------------------------------------
(* The theorems.                                                           *)

(* Steps of the proxy and of Core leave every task alone.                  *)
LEMMA ProxyKeeps ==
  ASSUME LifecycleInv, TypeOK', ProxyStep
  PROVE  LifecycleInv'
<1>1. UNCHANGED <<claimVars, started, client, snapshot, lockVars, task>>
  BY DEF ProxyStep, ProxyConnect, ProxyConnectOn, ProxyReady, ProxyDrop, ProxyDown, linkVars
<1>2. \A b \in Backends, t \in Tasks : TaskInv(b, t)'
  BY <1>1 DEF LifecycleInv, TaskInv, Shape, Reading, Starting, UnderReadLock, UnderLifeLock, At,
     claimVars, lockVars
<1>3. \A b \in Backends : session'[b].state = session[b].state
  BY DEF ProxyStep, ProxyConnect, ProxyConnectOn, ProxyReady, ProxyDrop, ProxyDown, linkVars,
     LifecycleInv, TypeOK
<1>4. RegistryAgrees' /\ SessionNeedsClaim' /\ SnapshotSettled'
  BY <1>1, <1>3 DEF LifecycleInv, RegistryAgrees, SessionNeedsClaim, SnapshotSettled,
     At, claimVars
<1>5. /\ proxy.link \in 0 .. MaxLinks /\ proxy'.link \in 0 .. MaxLinks
      /\ TypeOK /\ LiveLinkOwned /\ LinkHasOneUser
  BY DEF LifecycleInv, TypeOK
<1>6. ASSUME proxy'.link \in Links, binders'[proxy'.link] = {},
             \A k \in Links : k > proxy'.link => binders'[k] = {},
             LinkHasOneUser'
      PROVE  LifecycleInv'
  <2>1. LiveLinkOwned' /\ ReleasedLinkIsDead' /\ Fenced'
    BY <1>6 DEF LiveLinkOwned, ReleasedLinkIsDead, Fenced
  <2>2. QED BY <1>2, <1>4, <1>6, <2>1 DEF LifecycleInv
<1>7. CASE ProxyConnect
  <2>1. proxy'.link = proxy.link + 1 /\ proxy'.link \in Links /\ binders' = binders
    BY <1>5, <1>7 DEF ProxyConnect, Links
  <2>2. binders'[proxy'.link] = {} /\ \A k \in Links : k > proxy'.link => binders'[k] = {}
    BY <1>5, <2>1 DEF LiveLinkOwned, Links
  <2>3. LinkHasOneUser'
    BY <1>5, <2>1 DEF LinkHasOneUser
  <2>4. QED BY <1>6, <2>1, <2>2, <2>3
<1>8. CASE ProxyConnectOn
  <2>1. proxy'.link = MaxLinks /\ proxy'.link \in Links
    BY <1>8 DEF ProxyConnectOn, LifecycleInv, TypeOK, Links
  <2>2. \A k \in Links : binders'[k] = IF k < MaxLinks THEN binders[k + 1] ELSE {}
    BY <1>8 DEF ProxyConnectOn
  <2>3. binders'[proxy'.link] = {} /\ \A k \in Links : k > proxy'.link => binders'[k] = {}
    BY <2>1, <2>2 DEF Links
  <2>4. LinkHasOneUser'
    <3>1. \A k \in Links : k < MaxLinks => k + 1 \in Links
      BY DEF Links
    <3>2. QED BY <1>5, <2>2, <3>1 DEF LinkHasOneUser
  <2>5. QED BY <1>6, <2>1, <2>3, <2>4
<1>9. CASE ProxyReady \/ ProxyDrop \/ ProxyDown
  <2>1. /\ proxy'.link = proxy.link /\ binders' = binders
        /\ proxy'.phase # "down" => proxy.phase # "down"
    BY <1>5, <1>9 DEF ProxyReady, ProxyDrop, ProxyDown, TypeOK
  <2>2. LiveLinkOwned' /\ LinkHasOneUser' /\ ReleasedLinkIsDead' /\ Fenced'
    BY <1>1, <2>1
       DEF LifecycleInv, LiveLinkOwned, LinkHasOneUser, ReleasedLinkIsDead, Fenced, At, claimVars
  <2>3. QED BY <1>2, <1>4, <2>2 DEF LifecycleInv
<1>10. QED BY <1>7, <1>8, <1>9 DEF ProxyStep

(* A session that loses its link changes only its own state.               *)
LEMMA LostKeeps ==
  ASSUME LifecycleInv, TypeOK', NEW b \in Backends, SessionLost(b)
  PROVE  LifecycleInv'
<1>1. UNCHANGED <<proxy, claimVars, started, client, snapshot, lockVars, task, binders>>
  BY DEF SessionLost
<1>2. \A c \in Backends : session[c].state = "none" => session'[c].state = "none"
  BY DEF SessionLost, IsOpen, LifecycleInv, TypeOK
<1>3. \A c \in Backends, t \in Tasks : TaskInv(c, t)'
  BY <1>1 DEF LifecycleInv, TaskInv, Shape, Reading, Starting, UnderReadLock, UnderLifeLock, At,
     claimVars, lockVars
<1>4. SessionNeedsClaim'
  BY <1>1, <1>2 DEF LifecycleInv, SessionNeedsClaim, claimVars
<1>5. QED
  BY <1>1, <1>3, <1>4 DEF LifecycleInv, RegistryAgrees, SnapshotSettled, LiveLinkOwned,
     LinkHasOneUser, ReleasedLinkIsDead, Fenced, At, claimVars

(* LifecycleInv holds throughout every behaviour.                          *)
THEOREM LifecycleSafe == Spec => []LifecycleInv
<1>1. Init => LifecycleInv
  <2> SUFFICES ASSUME Init PROVE LifecycleInv
    OBVIOUS
  <2>1. TypeOK
    BY DEF Init, TypeOK, Links, Phases, SessionStates, NoSession, NoLink, Idle, PCs, Ops, Contexts
  <2>2. \A b \in Backends, t \in Tasks : task[b][t] = Idle
    BY DEF Init
  <2>3. \A b \in Backends, t \in Tasks : TaskInv(b, t)
    BY <2>2 DEF Idle, TaskInv, Shape, Reading, Starting, UnderReadLock, UnderLifeLock, At,
       ArmPCs, EstPCs, FencePCs, CleanPCs, RecPCs
  <2>4. RegistryAgrees /\ SnapshotSettled /\ SessionNeedsClaim
    BY <2>2 DEF Init, Idle, NoSession, RegistryAgrees, SnapshotSettled, SessionNeedsClaim, At,
       LinkPCs, ArmPCs, EstPCs, FencePCs, CleanPCs, RecPCs
  <2>5. LiveLinkOwned /\ LinkHasOneUser /\ ReleasedLinkIsDead /\ Fenced
    BY <2>2 DEF Init, Links, LiveLinkOwned, LinkHasOneUser, ReleasedLinkIsDead, Fenced, FencedPCs
  <2>6. QED BY <2>1, <2>3, <2>4, <2>5 DEF LifecycleInv
<1>2. LifecycleInv /\ [Next]_vars => LifecycleInv'
  <2> SUFFICES ASSUME LifecycleInv, [Next]_vars PROVE LifecycleInv'
    OBVIOUS
  <2>1. TypeOK'
    BY TypeStep DEF LifecycleInv
  <2>2. CASE UNCHANGED vars
    BY <2>2 DEF vars, LifecycleInv, TypeOK, TaskInv, Shape, Reading, Starting,
       UnderReadLock, UnderLifeLock, At, RegistryAgrees, SessionNeedsClaim, SnapshotSettled,
       LiveLinkOwned, LinkHasOneUser, ReleasedLinkIsDead, Fenced
  <2>3. CASE ProxyStep
    BY <2>1, <2>3, ProxyKeeps
  <2>4. ASSUME NEW b \in Backends, SessionLost(b) PROVE LifecycleInv'
    BY <2>1, <2>4, LostKeeps
  <2>5. ASSUME NEW b \in Backends, NEW t \in Tasks, ActionOf(b, t) PROVE LifecycleInv'
    BY <2>1, <2>5, TasksKeep, RegistryKept, ClaimKept, SnapshotKept, LinkKept, DeadLinkKept,
       FenceKept DEF LifecycleInv
  <2>6. QED BY <2>2, <2>3, <2>4, <2>5, NextSplits
<1>3. QED BY <1>1, <1>2, PTL DEF Spec

(* At most one task of all backends talks to the proxy at a time.          *)
THEOREM OneDriver == Spec => []OneLinkDriver
<1>1. LifecycleInv => OneLinkDriver
  BY OneActive DEF OneLinkDriver, Active
<1>2. QED BY <1>1, LifecycleSafe, PTL

(* No physical link ever carries sessions of two backends.                 *)
THEOREM LinkPrivate == Spec => []LinkHasOneUser
<1>1. LifecycleInv => LinkHasOneUser
  BY DEF LifecycleInv
<1>2. QED BY <1>1, LifecycleSafe, PTL

(* A backend that is about to give the controller back uses no live link.  *)
THEOREM ReleaseIsFenced == Spec => []ReleasedLinkIsDead
<1>1. LifecycleInv => ReleasedLinkIsDead
  BY DEF LifecycleInv
<1>2. QED BY <1>1, LifecycleSafe, PTL

(* Client, session and every step that talks to the proxy are covered by   *)
(* the claim.                                                              *)
THEOREM ClaimCovers == Spec => []SessionNeedsClaim
<1>1. LifecycleInv => SessionNeedsClaim
  BY DEF LifecycleInv
<1>2. QED BY <1>1, LifecycleSafe, PTL

(* The registry names a backend as the owner exactly while that backend's  *)
(* own flag says so: no start, stop or release leaves one of the two       *)
(* behind.                                                                 *)
THEOREM RegistryInStep == Spec => []RegistryAgrees
<1>1. LifecycleInv => RegistryAgrees
  BY DEF LifecycleInv
<1>2. QED BY <1>1, LifecycleSafe, PTL

(* async_stop never trips over its own final check.                        *)
THEOREM StopProves == Spec => []StopCheckNeverFires
<1>1. LifecycleInv => StopCheckNeverFires
  <2> SUFFICES ASSUME LifecycleInv, NEW b \in Backends, NEW t \in Tasks, At(b, t, "verify")
               PROVE  StopProven(b)
    BY DEF StopCheckNeverFires
  <2>1. ~owns[b]
    BY DEF LifecycleInv, TaskInv
  <2>2. QED
    BY <2>1 DEF LifecycleInv, RegistryAgrees, SessionNeedsClaim, SnapshotSettled, StopProven
<1>2. QED BY <1>1, LifecycleSafe, PTL

(* Behind the recovery fence a replacement session lands on an unused link.*)
THEOREM FenceHolds == Spec => FencedReplacementIsFresh
<1>1. LifecycleInv /\ [Next]_vars =>
        [\A b \in Backends, t \in Tasks :
           PrepareSession(b, t) /\ task[b][t].ctx \in {"recover", "restart"}
             => binders[proxy.link] = {}]_vars
  <2> SUFFICES ASSUME LifecycleInv, NEW b \in Backends, NEW t \in Tasks, PrepareSession(b, t),
                      task[b][t].ctx \in {"recover", "restart"}
               PROVE  binders[proxy.link] = {}
    OBVIOUS
  <2>1. task[b][t].pc \in FencedPCs(task[b][t].ctx) /\ proxy.phase # "down"
    BY DEF PrepareSession, At, FencedPCs
  <2>2. QED BY <2>1 DEF LifecycleInv, Fenced
<1>2. QED BY <1>1, LifecycleSafe, PTL DEF Spec, FencedReplacementIsFresh

-----------------------------------------------------------------------------
(* Refinement.                                                             *)

(* Every step of a task is a lease step or a stutter.                      *)
LEMMA StepRefines ==
  ASSUME LifecycleInv, NEW b \in Backends, NEW t \in Tasks, ActionOf(b, t)
  PROVE  [Lease!LeaseNext]_(Lease!leaseVars)
<1>1. TypeOK /\ Effects(b, t) /\ LiveLinkOwned /\ RegistryAgrees /\ ReleasedLinkIsDead
  BY StepEffects DEF LifecycleInv
<1>2. CASE PrepareSession(b, t)
  <2>1. owner = b /\ owner' = owner /\ proxy' = proxy
    BY <1>2, ActiveOwns DEF PrepareSession, Active, At, LinkPCs, EstPCs, claimVars
  <2>2. proxy.phase # "down" /\ proxy.link \in Lease!Links
    BY <1>1, <1>2 DEF PrepareSession, LiveLinkOwned, Links, Lease!Links
  <2>3. Lease!Attach(b)
    BY <1>2, <2>1, <2>2 DEF PrepareSession, Lease!Attach
  <2>4. QED BY <2>3 DEF Lease!LeaseNext
<1>3. CASE Release(b, t)
  <2>1. owner = b /\ owner' = NoBackend /\ proxy' = proxy /\ binders' = binders
    BY <1>3, ActiveOwns DEF Release, Active, At, LinkPCs, CleanPCs
  <2>2. ~Lease!HoldsLiveLink(b)
    BY <1>1, <1>3 DEF Release, ReleasedLinkIsDead, Lease!HoldsLiveLink, Links, Lease!Links
  <2>3. Lease!GiveBack(b)
    BY <2>1, <2>2 DEF Lease!GiveBack
  <2>4. QED BY <2>3 DEF Lease!LeaseNext
<1>4. CASE EnterStart(b, t) /\ ~UNCHANGED owner
  <2>1. owner = NoBackend /\ owner' = b /\ proxy' = proxy /\ binders' = binders
    BY <1>1, <1>4 DEF EnterStart, claimVars, RegistryAgrees
  <2>2. Lease!Acquire(b)
    BY <2>1 DEF Lease!Acquire
  <2>3. QED BY <2>2 DEF Lease!LeaseNext
<1>5. CASE UNCHANGED owner /\ UNCHANGED binders
  BY <1>1, <1>5 DEF Effects, Lease!leaseVars
<1>6. QED BY <1>1, <1>2, <1>3, <1>4, <1>5 DEF Effects, claimVars

(* Every step of the proxy is a lease step or a stutter.                   *)
LEMMA ProxyRefines ==
  ASSUME TypeOK, ProxyStep
  PROVE  [Lease!LeaseNext]_(Lease!leaseVars)
<1>1. UNCHANGED owner
  BY DEF ProxyStep, ProxyConnect, ProxyConnectOn, ProxyReady, ProxyDrop, ProxyDown, claimVars
<1>2. CASE ProxyConnect
  <2>1. Lease!LinkUp
    BY <1>1, <1>2 DEF ProxyConnect, Lease!LinkUp
  <2>2. QED BY <2>1 DEF Lease!LeaseNext
<1>3. CASE ProxyConnectOn
  <2>1. Lease!LinkUpOn
    BY <1>1, <1>3 DEF ProxyConnectOn, TypeOK, Lease!LinkUpOn, Links, Lease!Links
  <2>2. QED BY <2>1 DEF Lease!LeaseNext
<1>4. CASE ProxyReady \/ ProxyDrop
  BY <1>1, <1>4 DEF ProxyReady, ProxyDrop, TypeOK, Lease!leaseVars
<1>5. CASE ProxyDown
  <2>1. Lease!LinkDown
    BY <1>1, <1>5 DEF ProxyDown, TypeOK, Lease!LinkDown
  <2>2. QED BY <2>1 DEF Lease!LeaseNext
<1>6. QED BY <1>2, <1>3, <1>4, <1>5 DEF ProxyStep

(* ThinLifecycle implements ControllerLease.                               *)
THEOREM Refinement == Spec => ImplementsLease
<1>1. Init => Lease!LeaseInit
  BY DEF Init, Lease!LeaseInit, Links, Lease!Links
<1>2. LifecycleInv /\ [Next]_vars => [Lease!LeaseNext]_(Lease!leaseVars)
  <2> SUFFICES ASSUME LifecycleInv, [Next]_vars
               PROVE  [Lease!LeaseNext]_(Lease!leaseVars)
    OBVIOUS
  <2>1. TypeOK
    BY DEF LifecycleInv
  <2>2. CASE UNCHANGED vars
    BY <2>2 DEF vars, Lease!leaseVars
  <2>3. CASE ProxyStep
    BY <2>1, <2>3, ProxyRefines
  <2>4. ASSUME NEW b \in Backends, SessionLost(b) PROVE UNCHANGED Lease!leaseVars
    BY <2>4 DEF SessionLost, claimVars, Lease!leaseVars
  <2>5. ASSUME NEW b \in Backends, NEW t \in Tasks, ActionOf(b, t)
        PROVE  [Lease!LeaseNext]_(Lease!leaseVars)
    BY <2>5, StepRefines
  <2>6. QED BY <2>2, <2>3, <2>4, <2>5, NextSplits
<1>3. QED BY <1>1, <1>2, LifecycleSafe, PTL DEF Spec, ImplementsLease, Lease!LeaseSpec
=============================================================================
