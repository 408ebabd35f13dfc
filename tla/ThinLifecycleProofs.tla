------------------------- MODULE ThinLifecycleProofs -------------------------
(***************************************************************************)
(* Theorems about ThinLifecycle, for every set of backends and tasks,      *)
(* every number of physical links and every pairing configuration.         *)
(***************************************************************************)
EXTENDS ThinLifecycle, TLAPS

USE LifecycleAssumption

(* Every step of the system is a proxy step, a notice to one session, or   *)
(* one named action of one task.                                           *)
ActionOf(b, t) ==
  \/ \E op \in Calls : Begin(b, t, op)
  \/ TakeReadLock(b, t) \/ EnterStart(b, t) \/ TakeLifeLock(b, t)
  \/ StepFails(b, t) \/ Cancel(b, t)
  \/ EnterCleanup(b, t) \/ CleanDisconnect(b, t) \/ CleanBoundary(b, t)
  \/ CleanTimeout(b, t) \/ CleanScoped(b, t) \/ Release(b, t) \/ VerifyStop(b, t)
  \/ ArmCall(b, t) \/ ArmBoundary(b, t) \/ ArmTimeout(b, t) \/ ArmReset(b, t)
  \/ SampleProxy(b, t) \/ PrepareSession(b, t) \/ SecureLink(b, t) \/ Authorize(b, t)
  \/ Miscorrelated(b, t) \/ RefenceDisconnect(b, t) \/ RefenceBoundary(b, t)
  \/ Reply(b, t) \/ RequestFails(b, t)
  \/ RecDisconnect(b, t) \/ RecScoped(b, t) \/ RecBoundary(b, t)
  \/ SampleUp(b, t)

LEMMA NextSplits ==
  Next <=> \/ ProxyStep
           \/ \E b \in Backends : SessionLost(b)
           \/ \E b \in Backends, t \in Tasks : ActionOf(b, t)
<1>1. ASSUME NEW b \in Backends, NEW t \in Tasks
      PROVE  TaskStep(b, t) <=> ActionOf(b, t)
  BY DEF TaskStep, ActionOf, LockStep, BoundedStep, UnboundedStep
<1>2. QED BY <1>1 DEF Next

-----------------------------------------------------------------------------
(* Type correctness.                                                       *)

TaskRec == [pc : PCs, op : Ops, ctx : Contexts, left : 0 .. 2]

TaskTable == [Backends -> [Tasks -> TaskRec]]

(* A step of task t of b leaves its record as r and all others alone.      *)
TaskBecomes(b, t, r) ==
  /\ task' \in TaskTable
  /\ task'[b][t] = r
  /\ \A c \in Backends, u \in Tasks :
       c # b \/ u # t => task'[c][u] = task[c][u]

(* Replacing one record of the task table.                                 *)
LEMMA PutTask ==
  ASSUME NEW b \in Backends, NEW t \in Tasks, NEW r \in TaskRec,
         task \in TaskTable,
         task' = [task EXCEPT ![b][t] = r]
  PROVE  TaskBecomes(b, t, r)
<1>1. task[b] \in [Tasks -> TaskRec]
  BY DEF TaskTable
<1>2. [task[b] EXCEPT ![t] = r] \in [Tasks -> TaskRec]
  BY <1>1
<1>3. task' = [task EXCEPT ![b] = [task[b] EXCEPT ![t] = r]]
  OBVIOUS
<1>4. task' \in TaskTable
  BY <1>2, <1>3 DEF TaskTable
<1>5. task'[b] = [task[b] EXCEPT ![t] = r]
  BY <1>3 DEF TaskTable
<1>6. \A c \in Backends : c # b => task'[c] = task[c]
  BY <1>3 DEF TaskTable
<1>7. \A u \in Tasks : u # t => task'[b][u] = task[b][u]
  BY <1>1, <1>5
<1>8. task'[b][t] = r
  BY <1>1, <1>5
<1>9. QED BY <1>4, <1>6, <1>7, <1>8 DEF TaskBecomes

(* Goto changes the step of one task.                                      *)
LEMMA GotoEffect ==
  ASSUME NEW b \in Backends, NEW t \in Tasks, NEW p \in PCs,
         task \in TaskTable, Goto(b, t, p)
  PROVE  TaskBecomes(b, t, [task[b][t] EXCEPT !.pc = p])
<1> DEFINE r == [task[b][t] EXCEPT !.pc = p]
<1>1. task[b][t] \in TaskRec
  BY DEF TaskTable
<1>2. r \in TaskRec
  BY <1>1 DEF TaskRec
<1>3. task' = [task EXCEPT ![b][t] = r]
  BY DEF Goto, TaskTable
<1> HIDE DEF r
<1>4. TaskBecomes(b, t, r)
  BY <1>2, <1>3, PutTask
<1>5. QED BY <1>4 DEF r

(* GotoIn also changes the context.                                        *)
LEMMA GotoInEffect ==
  ASSUME NEW b \in Backends, NEW t \in Tasks, NEW p \in PCs, NEW c \in Contexts,
         task \in TaskTable, GotoIn(b, t, p, c)
  PROVE  TaskBecomes(b, t, [task[b][t] EXCEPT !.pc = p, !.ctx = c])
<1> DEFINE r == [task[b][t] EXCEPT !.pc = p, !.ctx = c]
<1>1. task[b][t] \in TaskRec
  BY DEF TaskTable
<1>2. r \in TaskRec
  BY <1>1 DEF TaskRec
<1>3. task' = [task EXCEPT ![b][t] = r]
  <2>1. task[b] \in [Tasks -> TaskRec] /\ task \in [Backends -> [Tasks -> TaskRec]]
    BY DEF TaskTable
  <2>2. QED BY <2>1 DEF GotoIn
<1> HIDE DEF r
<1>4. TaskBecomes(b, t, r)
  BY <1>2, <1>3, PutTask
<1>5. QED BY <1>4 DEF r

(* EndOp puts the task to rest and lets go of the locks it holds.          *)
LEMMA EndOpEffect ==
  ASSUME NEW b \in Backends, NEW t \in Tasks, TypeOK, EndOp(b, t)
  PROVE  /\ TaskBecomes(b, t, Idle)
         /\ lifeLock' \in [Backends -> Tasks \cup {NoTask}]
         /\ readLock' \in [Backends -> Tasks \cup {NoTask}]
<1>1. Idle \in TaskRec
  BY DEF Idle, TaskRec, PCs, Ops, Contexts
<1>2. task \in TaskTable
  BY DEF TypeOK, TaskTable, TaskRec
<1>3. TaskBecomes(b, t, Idle)
  BY <1>1, <1>2, PutTask DEF EndOp
<1>4. QED BY <1>3 DEF EndOp, TypeOK

(* A lock changes hands only between nobody and the acting task.           *)
LockMoves(lock, b, t) ==
  /\ lock' \in [Backends -> Tasks \cup {NoTask}]
  /\ \A c \in Backends : c # b => lock'[c] = lock[c]
  /\ \/ lock'[b] = lock[b]
     \/ lock[b] = NoTask /\ lock'[b] = t
     \/ lock[b] = t /\ lock'[b] = NoTask

(* What every step of task t of b leaves alone.                            *)
Frame(b, t) ==
  /\ task' \in TaskTable
  /\ \A c \in Backends, u \in Tasks :
       c # b \/ u # t => task'[c][u] = task[c][u]
  /\ LockMoves(lifeLock, b, t)
  /\ LockMoves(readLock, b, t)

(* The four ways a step moves its task stay within the frame.              *)
LEMMA PlumbingFrame ==
  ASSUME NEW b \in Backends, NEW t \in Tasks, TypeOK
  PROVE  /\ EndOp(b, t) => Frame(b, t)
         /\ \A p \in PCs : Goto(b, t, p) /\ UNCHANGED lockVars => Frame(b, t)
         /\ \A p \in PCs, c \in Contexts :
              GotoIn(b, t, p, c) /\ UNCHANGED lockVars => Frame(b, t)
         /\ UNCHANGED <<task, lockVars>> => Frame(b, t)
<1>1. task \in TaskTable
  BY DEF TypeOK, TaskTable, TaskRec
<1>2. UNCHANGED lockVars => LockMoves(lifeLock, b, t) /\ LockMoves(readLock, b, t)
  BY DEF TypeOK, lockVars, LockMoves
<1>3. ASSUME EndOp(b, t) PROVE Frame(b, t)
  <2>1. TaskBecomes(b, t, Idle)
    BY <1>3, EndOpEffect
  <2>2. LockMoves(lifeLock, b, t) /\ LockMoves(readLock, b, t)
    BY <1>3 DEF TypeOK, EndOp, LockMoves
  <2>3. QED BY <2>1, <2>2 DEF Frame, TaskBecomes
<1>4. ASSUME NEW p \in PCs, Goto(b, t, p), UNCHANGED lockVars PROVE Frame(b, t)
  <2>1. TaskBecomes(b, t, [task[b][t] EXCEPT !.pc = p])
    BY <1>1, <1>4, GotoEffect
  <2>2. QED BY <2>1, <1>2, <1>4 DEF Frame, TaskBecomes
<1>5. ASSUME NEW p \in PCs, NEW c \in Contexts, GotoIn(b, t, p, c), UNCHANGED lockVars
      PROVE  Frame(b, t)
  <2>1. TaskBecomes(b, t, [task[b][t] EXCEPT !.pc = p, !.ctx = c])
    BY <1>1, <1>5, GotoInEffect
  <2>2. QED BY <2>1, <1>2, <1>5 DEF Frame, TaskBecomes
<1>6. UNCHANGED <<task, lockVars>> => Frame(b, t)
  BY <1>1, <1>2 DEF Frame
<1>7. QED BY <1>3, <1>4, <1>5, <1>6

(* Failure, the end of cleanup and the end of async_start do, too.         *)
LEMMA HelperFrame ==
  ASSUME NEW b \in Backends, NEW t \in Tasks, TypeOK
  PROVE  /\ Raise(b, t) => Frame(b, t)
         /\ CleanupDone(b, t) => Frame(b, t)
         /\ AfterStart(b, t) => Frame(b, t)
<1>1. {"cleanEnter", "cleanLock", "verify", "request", "sample"} \subseteq PCs
  BY DEF PCs, CleanPCs, LockPCs, EstPCs
<1>2. Raise(b, t) => Frame(b, t)
  BY <1>1, PlumbingFrame DEF Raise
<1>3. CleanupDone(b, t) => Frame(b, t)
  BY <1>1, PlumbingFrame DEF CleanupDone
<1>4. ASSUME AfterStart(b, t) PROVE Frame(b, t)
  <2>1. CASE EndOp(b, t)
    BY <2>1, PlumbingFrame
  <2>2. CASE ~EndOp(b, t)
    <3>1. PICK p \in PCs, c \in Contexts : GotoIn(b, t, p, c)
      BY <1>1, <1>4, <2>2 DEF AfterStart, Contexts
    <3>2. TaskBecomes(b, t, [task[b][t] EXCEPT !.pc = p, !.ctx = c])
      BY <3>1, GotoInEffect DEF TypeOK, TaskTable, TaskRec
    <3>3. LockMoves(lifeLock, b, t) /\ LockMoves(readLock, b, t)
      BY <1>4, <2>2 DEF AfterStart, TypeOK, LockMoves
    <3>4. QED BY <3>2, <3>3 DEF Frame, TaskBecomes
  <2>3. QED BY <2>1, <2>2
<1>5. QED BY <1>2, <1>3, <1>4

(* Every task step stays within its frame.                                 *)
LEMMA StepFrame ==
  ASSUME NEW b \in Backends, NEW t \in Tasks, TypeOK, ActionOf(b, t)
  PROVE  Frame(b, t)
<1> USE DEF PCs, ArmPCs, EstPCs, FencePCs, CleanPCs, RecPCs, LockPCs, Contexts
<1>1. ASSUME NEW op \in Calls, Begin(b, t, op) PROVE Frame(b, t)
  <2> DEFINE r == [pc |-> IF op = "start" THEN "stlock" ELSE "rdlock",
                   op |-> op, ctx |-> "none", left |-> Recoveries(op)]
  <2>1. r \in TaskRec
    BY DEF TaskRec, Recoveries
  <2>2. task' = [task EXCEPT ![b][t] = r] /\ UNCHANGED lockVars
    BY <1>1 DEF Begin
  <2> HIDE DEF r
  <2>3. TaskBecomes(b, t, r)
    BY <2>1, <2>2, PutTask DEF TypeOK, TaskTable, TaskRec
  <2>4. QED BY <2>2, <2>3 DEF Frame, TaskBecomes, LockMoves, lockVars, TypeOK
<1>2. ASSUME TakeReadLock(b, t) PROVE Frame(b, t)
  <2>1. PICK p \in PCs : Goto(b, t, p)
    BY <1>2 DEF TakeReadLock
  <2>2. TaskBecomes(b, t, [task[b][t] EXCEPT !.pc = p])
    BY <2>1, GotoEffect DEF TypeOK, TaskTable, TaskRec
  <2>3. LockMoves(lifeLock, b, t) /\ LockMoves(readLock, b, t)
    BY <1>2 DEF TakeReadLock, TypeOK, LockMoves
  <2>4. QED BY <2>2, <2>3 DEF Frame, TaskBecomes
<1>3. ASSUME EnterStart(b, t) PROVE Frame(b, t)
  <2>1. CASE AfterStart(b, t) \/ EndOp(b, t)
    BY <2>1, PlumbingFrame, HelperFrame
  <2>2. CASE ~AfterStart(b, t) /\ ~EndOp(b, t)
    <3>1. PICK p \in PCs, c \in Contexts : GotoIn(b, t, p, c)
      BY <1>3, <2>2 DEF EnterStart
    <3>2. TaskBecomes(b, t, [task[b][t] EXCEPT !.pc = p, !.ctx = c])
      BY <3>1, GotoInEffect DEF TypeOK, TaskTable, TaskRec
    <3>3. /\ lifeLock[b] = NoTask /\ lifeLock' = [lifeLock EXCEPT ![b] = t]
          /\ readLock' = readLock
      BY <1>3, <2>2 DEF EnterStart
    <3>4. LockMoves(lifeLock, b, t) /\ LockMoves(readLock, b, t)
      BY <3>3 DEF TypeOK, LockMoves
    <3>5. QED BY <3>2, <3>4 DEF Frame, TaskBecomes
  <2>3. QED BY <2>1, <2>2
<1>4. ASSUME TakeLifeLock(b, t) PROVE Frame(b, t)
  <2>1. PICK p \in PCs : Goto(b, t, p)
    BY <1>4 DEF TakeLifeLock
  <2>2. TaskBecomes(b, t, [task[b][t] EXCEPT !.pc = p])
    BY <2>1, GotoEffect DEF TypeOK, TaskTable, TaskRec
  <2>3. LockMoves(lifeLock, b, t) /\ LockMoves(readLock, b, t)
    BY <1>4 DEF TakeLifeLock, TypeOK, LockMoves
  <2>4. QED BY <2>2, <2>3 DEF Frame, TaskBecomes
<1>5. ASSUME StepFails(b, t) PROVE Frame(b, t)
  BY <1>5, PlumbingFrame, HelperFrame DEF StepFails, lockVars
<1>6. ASSUME Cancel(b, t) PROVE Frame(b, t)
  BY <1>6, PlumbingFrame, HelperFrame DEF Cancel, lockVars
<1>7. ASSUME EnterCleanup(b, t) PROVE Frame(b, t)
  BY <1>7, PlumbingFrame, HelperFrame DEF EnterCleanup, lockVars
<1>8. ASSUME CleanDisconnect(b, t) PROVE Frame(b, t)
  BY <1>8, PlumbingFrame, HelperFrame DEF CleanDisconnect, lockVars
<1>9. ASSUME CleanBoundary(b, t) PROVE Frame(b, t)
  BY <1>9, PlumbingFrame, HelperFrame DEF CleanBoundary, lockVars
<1>10. ASSUME CleanTimeout(b, t) PROVE Frame(b, t)
  BY <1>10, PlumbingFrame, HelperFrame DEF CleanTimeout, lockVars
<1>11. ASSUME CleanScoped(b, t) PROVE Frame(b, t)
  BY <1>11, PlumbingFrame, HelperFrame DEF CleanScoped, lockVars
<1>12. ASSUME Release(b, t) PROVE Frame(b, t)
  BY <1>12, PlumbingFrame, HelperFrame DEF Release, lockVars
<1>13. ASSUME VerifyStop(b, t) PROVE Frame(b, t)
  BY <1>13, PlumbingFrame, HelperFrame DEF VerifyStop, lockVars
<1>14. ASSUME ArmCall(b, t) PROVE Frame(b, t)
  BY <1>14, PlumbingFrame, HelperFrame DEF ArmCall, lockVars
<1>15. ASSUME ArmBoundary(b, t) PROVE Frame(b, t)
  BY <1>15, PlumbingFrame, HelperFrame DEF ArmBoundary, lockVars
<1>16. ASSUME ArmTimeout(b, t) PROVE Frame(b, t)
  BY <1>16, PlumbingFrame, HelperFrame DEF ArmTimeout, lockVars
<1>17. ASSUME ArmReset(b, t) PROVE Frame(b, t)
  BY <1>17, PlumbingFrame, HelperFrame DEF ArmReset, lockVars
<1>18. ASSUME SampleProxy(b, t) PROVE Frame(b, t)
  BY <1>18, PlumbingFrame, HelperFrame DEF SampleProxy, lockVars
<1>19. ASSUME PrepareSession(b, t) PROVE Frame(b, t)
  BY <1>19, PlumbingFrame, HelperFrame DEF PrepareSession, lockVars
<1>20. ASSUME SecureLink(b, t) PROVE Frame(b, t)
  BY <1>20, PlumbingFrame, HelperFrame DEF SecureLink, lockVars
<1>21. ASSUME Authorize(b, t) PROVE Frame(b, t)
  BY <1>21, PlumbingFrame, HelperFrame DEF Authorize, lockVars
<1>22. ASSUME Miscorrelated(b, t) PROVE Frame(b, t)
  BY <1>22, PlumbingFrame, HelperFrame DEF Miscorrelated, lockVars
<1>23. ASSUME RefenceDisconnect(b, t) PROVE Frame(b, t)
  BY <1>23, PlumbingFrame, HelperFrame DEF RefenceDisconnect, lockVars
<1>24. ASSUME RefenceBoundary(b, t) PROVE Frame(b, t)
  BY <1>24, PlumbingFrame, HelperFrame DEF RefenceBoundary, lockVars
<1>25. ASSUME Reply(b, t) PROVE Frame(b, t)
  BY <1>25, PlumbingFrame, HelperFrame DEF Reply, lockVars
<1>26. ASSUME RequestFails(b, t) PROVE Frame(b, t)
  <2>1. CASE EndOp(b, t)
    BY <2>1, PlumbingFrame
  <2>2. CASE ~EndOp(b, t)
    <3> DEFINE r == [task[b][t] EXCEPT !.pc = "recDisc", !.ctx = "recover", !.left = @ - 1]
    <3>1. task \in TaskTable /\ task[b][t] \in TaskRec
      BY DEF TypeOK, TaskTable, TaskRec
    <3>2. task[b][t].left > 0 /\ UNCHANGED lockVars
      BY <1>26, <2>2 DEF RequestFails
    <3>3. r \in TaskRec
      <4>1. task[b][t].left - 1 \in 0 .. 2
        BY <3>1, <3>2 DEF TaskRec
      <4>2. "recDisc" \in PCs /\ "recover" \in Contexts
        OBVIOUS
      <4>3. QED BY <3>1, <4>1, <4>2 DEF TaskRec
    <3>4. task' = [task EXCEPT ![b][t] = r]
      BY <1>26, <2>2, <3>1 DEF RequestFails
    <3> HIDE DEF r
    <3>5. TaskBecomes(b, t, r)
      BY <3>1, <3>3, <3>4, PutTask
    <3>6. QED BY <3>2, <3>5 DEF Frame, TaskBecomes, LockMoves, lockVars, TypeOK
  <2>3. QED BY <2>1, <2>2
<1>27. ASSUME RecDisconnect(b, t) PROVE Frame(b, t)
  BY <1>27, PlumbingFrame, HelperFrame DEF RecDisconnect, lockVars
<1>28. ASSUME RecScoped(b, t) PROVE Frame(b, t)
  BY <1>28, PlumbingFrame, HelperFrame DEF RecScoped, lockVars
<1>29. ASSUME RecBoundary(b, t) PROVE Frame(b, t)
  BY <1>29, PlumbingFrame, HelperFrame DEF RecBoundary, lockVars
<1>30. ASSUME SampleUp(b, t) PROVE Frame(b, t)
  BY <1>30, PlumbingFrame, HelperFrame DEF SampleUp, lockVars
<1>31. QED
  BY ActionOf(b, t), <1>1, <1>2, <1>3, <1>4, <1>5, <1>6, <1>7, <1>8, <1>9, <1>10, <1>11, <1>12, <1>13, <1>14, <1>15, <1>16, <1>17, <1>18, <1>19, <1>20, <1>21, <1>22, <1>23, <1>24, <1>25, <1>26, <1>27, <1>28, <1>29, <1>30 DEF ActionOf

(* The part of TypeOK that is not about tasks and locks.                   *)
DataOK ==
  /\ proxy \in [phase : Phases, link : 0 .. MaxLinks]
  /\ owner \in Backends \cup {NoBackend}
  /\ owns \in [Backends -> BOOLEAN]
  /\ started \in [Backends -> BOOLEAN]
  /\ client \in [Backends -> {"none", "stale", "current"}]
  /\ session \in [Backends -> [state : SessionStates, link : 0 .. MaxLinks,
                               authorized : BOOLEAN]]
  /\ snapshot \in [Backends -> Phases \cup {"none"}]
  /\ binders \in [Links -> SUBSET Backends]

dataVars == <<proxy, claimVars, started, linkVars, snapshot, binders>>

(* TypeOK is DataOK and the frame of a step.                               *)
LEMMA TypeSplits ==
  /\ TypeOK => DataOK
  /\ \A b \in Backends, t \in Tasks : Frame(b, t) /\ DataOK' => TypeOK'
<1>1. TypeOK => DataOK
  BY DEF TypeOK, DataOK
<1>2. ASSUME NEW b \in Backends, NEW t \in Tasks, Frame(b, t), DataOK'
      PROVE  TypeOK'
  BY <1>2 DEF TypeOK, DataOK, Frame, TaskTable, TaskRec, LockMoves
<1>3. QED BY <1>1, <1>2

SessionRec == [state : SessionStates, link : 0 .. MaxLinks, authorized : BOOLEAN]

(* What a step may do to a session object keeps it well-formed.            *)
LEMMA SessionType ==
  ASSUME NEW b \in Backends, session \in [Backends -> SessionRec],
         \/ session' = session
         \/ \E st \in SessionStates : session' = [session EXCEPT ![b].state = st]
         \/ \E st \in SessionStates, k \in 0 .. MaxLinks :
              session' = [session EXCEPT ![b].link = k, ![b].state = st]
         \/ session' = [session EXCEPT ![b].authorized = TRUE]
         \/ \E r \in SessionRec : session' = [session EXCEPT ![b] = r]
  PROVE  session' \in [Backends -> SessionRec]
<1>1. session[b] \in SessionRec
  OBVIOUS
<1>2. ASSUME NEW r \in SessionRec, session' = [session EXCEPT ![b] = r]
      PROVE  session' \in [Backends -> SessionRec]
  BY <1>2
<1>3. ASSUME NEW st \in SessionStates, session' = [session EXCEPT ![b].state = st]
      PROVE  session' \in [Backends -> SessionRec]
  <2>1. [session[b] EXCEPT !.state = st] \in SessionRec
    BY <1>1 DEF SessionRec
  <2>2. QED BY <1>3, <2>1
<1>4. ASSUME NEW st \in SessionStates, NEW k \in 0 .. MaxLinks,
             session' = [session EXCEPT ![b].link = k, ![b].state = st]
      PROVE  session' \in [Backends -> SessionRec]
  <2>1. [session[b] EXCEPT !.link = k, !.state = st] \in SessionRec
    BY <1>1 DEF SessionRec
  <2>2. QED BY <1>4, <2>1
<1>5. ASSUME session' = [session EXCEPT ![b].authorized = TRUE]
      PROVE  session' \in [Backends -> SessionRec]
  <2>1. [session[b] EXCEPT !.authorized = TRUE] \in SessionRec
    BY <1>1 DEF SessionRec
  <2>2. QED BY <1>5, <2>1
<1>6. QED BY <1>2, <1>3, <1>4, <1>5

(* A task step keeps the rest of the state well-typed.                     *)
LEMMA StepData ==
  ASSUME NEW b \in Backends, NEW t \in Tasks, TypeOK, ActionOf(b, t)
  PROVE  DataOK'
<1>1. DataOK
  BY TypeSplits
<1>2. ASSUME UNCHANGED dataVars PROVE DataOK'
  BY <1>1, <1>2 DEF DataOK, dataVars, claimVars, linkVars
<1>3. ASSUME NEW op \in Calls, Begin(b, t, op) PROVE DataOK'
  BY <1>2, <1>3 DEF Begin, dataVars
<1>4. ASSUME TakeReadLock(b, t) PROVE DataOK'
  BY <1>2, <1>4 DEF TakeReadLock, dataVars
<1>5. ASSUME EnterStart(b, t) PROVE DataOK'
  BY <1>1, <1>5 DEF EnterStart, DataOK, claimVars, linkVars, Phases, SessionStates,
     SampleDown, Dispatched, IsOpen
<1>6. ASSUME TakeLifeLock(b, t) PROVE DataOK'
  BY <1>2, <1>6 DEF TakeLifeLock, dataVars
<1>7. ASSUME StepFails(b, t) PROVE DataOK'
  BY <1>2, <1>7 DEF StepFails, dataVars
<1>8. ASSUME Cancel(b, t) PROVE DataOK'
  BY <1>2, <1>8 DEF Cancel, dataVars
<1>9. ASSUME EnterCleanup(b, t) PROVE DataOK'
  BY <1>2, <1>9 DEF EnterCleanup, dataVars
<1>10. ASSUME CleanDisconnect(b, t) PROVE DataOK'
  <2>1. session' \in [Backends -> SessionRec]
    BY <1>1, <1>10, SessionType DEF CleanDisconnect, DataOK, SessionRec, SessionStates, Dispatched
  <2>2. QED
    BY <1>1, <1>10, <2>1 DEF CleanDisconnect, DataOK, SessionRec, claimVars, linkVars
<1>11. ASSUME CleanBoundary(b, t) PROVE DataOK'
  BY <1>1, <1>11 DEF CleanBoundary, DataOK, claimVars, linkVars, Phases, SessionStates,
     SampleDown, Dispatched, IsOpen
<1>12. ASSUME CleanTimeout(b, t) PROVE DataOK'
  BY <1>2, <1>12 DEF CleanTimeout, dataVars
<1>13. ASSUME CleanScoped(b, t) PROVE DataOK'
  BY <1>2, <1>13 DEF CleanScoped, dataVars
<1>14. ASSUME Release(b, t) PROVE DataOK'
  BY <1>1, <1>14 DEF Release, DataOK, claimVars, linkVars, Phases, SessionStates,
     SampleDown, Dispatched, IsOpen, NoSession, NoLink
<1>15. ASSUME VerifyStop(b, t) PROVE DataOK'
  BY <1>2, <1>15 DEF VerifyStop, dataVars
<1>16. ASSUME ArmCall(b, t) PROVE DataOK'
  BY <1>2, <1>16 DEF ArmCall, dataVars
<1>17. ASSUME ArmBoundary(b, t) PROVE DataOK'
  BY <1>1, <1>17 DEF ArmBoundary, DataOK, claimVars, linkVars, Phases, SessionStates,
     SampleDown, Dispatched, IsOpen
<1>18. ASSUME ArmTimeout(b, t) PROVE DataOK'
  BY <1>2, <1>18 DEF ArmTimeout, dataVars
<1>19. ASSUME ArmReset(b, t) PROVE DataOK'
  BY <1>1, <1>19 DEF ArmReset, DataOK, claimVars, linkVars, Phases, SessionStates,
     SampleDown, Dispatched, IsOpen
<1>20. ASSUME SampleProxy(b, t) PROVE DataOK'
  <2>1. session' \in [Backends -> SessionRec]
    <3>1. session' = [session EXCEPT ![b] = FreshSession]
      BY <1>20 DEF SampleProxy
    <3>2. FreshSession \in SessionRec
      BY DEF FreshSession, SessionRec, SessionStates, NoLink
    <3>3. QED BY <1>1, <3>1, <3>2, SessionType DEF DataOK, SessionRec
  <2>2. QED
    BY <1>1, <1>20, <2>1 DEF SampleProxy, DataOK, SessionRec, claimVars, linkVars
<1>21. ASSUME PrepareSession(b, t) PROVE DataOK'
  <2>1. session' \in [Backends -> SessionRec]
    <3>1. proxy.link \in 0 .. MaxLinks /\ "open" \in SessionStates
      BY <1>1 DEF DataOK, SessionStates
    <3>2. session' = [session EXCEPT ![b].link = proxy.link, ![b].state = "open"]
      BY <1>21 DEF PrepareSession
    <3>3. QED BY <1>1, <3>1, <3>2, SessionType DEF DataOK, SessionRec
  <2>2. QED
    BY <1>1, <1>21, <2>1 DEF PrepareSession, DataOK, SessionRec, claimVars, linkVars, Links
<1>22. ASSUME SecureLink(b, t) PROVE DataOK'
  BY <1>1, <1>22 DEF SecureLink, DataOK, claimVars, linkVars, Phases, SessionStates,
     SampleDown, Dispatched, IsOpen
<1>23. ASSUME Authorize(b, t) PROVE DataOK'
  <2>1. session' \in [Backends -> SessionRec]
    BY <1>1, <1>23, SessionType DEF Authorize, DataOK, SessionRec
  <2>2. started' \in [Backends -> BOOLEAN]
    BY <1>1, <1>23 DEF Authorize, DataOK
  <2>3. QED
    BY <1>1, <1>23, <2>1, <2>2 DEF Authorize, DataOK, SessionRec, claimVars
<1>24. ASSUME Miscorrelated(b, t) PROVE DataOK'
  BY <1>2, <1>24 DEF Miscorrelated, dataVars
<1>25. ASSUME RefenceDisconnect(b, t) PROVE DataOK'
  <2>1. session' \in [Backends -> SessionRec]
    BY <1>1, <1>25, SessionType DEF RefenceDisconnect, DataOK, SessionRec, SessionStates, Dispatched
  <2>2. QED
    BY <1>1, <1>25, <2>1 DEF RefenceDisconnect, DataOK, SessionRec, claimVars, linkVars
<1>26. ASSUME RefenceBoundary(b, t) PROVE DataOK'
  BY <1>1, <1>26 DEF RefenceBoundary, DataOK, claimVars, linkVars, Phases, SessionStates,
     SampleDown, Dispatched, IsOpen
<1>27. ASSUME Reply(b, t) PROVE DataOK'
  BY <1>2, <1>27 DEF Reply, dataVars
<1>28. ASSUME RequestFails(b, t) PROVE DataOK'
  <2>1. session' \in [Backends -> SessionRec]
    BY <1>1, <1>28, SessionType DEF RequestFails, DataOK, SessionRec, SessionStates
  <2>2. QED
    BY <1>1, <1>28, <2>1 DEF RequestFails, DataOK, SessionRec, claimVars, linkVars
<1>29. ASSUME RecDisconnect(b, t) PROVE DataOK'
  <2>1. session' \in [Backends -> SessionRec]
    BY <1>1, <1>29, SessionType DEF RecDisconnect, DataOK, SessionRec, SessionStates
  <2>2. QED
    BY <1>1, <1>29, <2>1 DEF RecDisconnect, DataOK, SessionRec, claimVars, linkVars
<1>30. ASSUME RecScoped(b, t) PROVE DataOK'
  BY <1>2, <1>30 DEF RecScoped, dataVars
<1>31. ASSUME RecBoundary(b, t) PROVE DataOK'
  BY <1>1, <1>31 DEF RecBoundary, DataOK, claimVars, linkVars, Phases, SessionStates,
     SampleDown, Dispatched, IsOpen
<1>32. ASSUME SampleUp(b, t) PROVE DataOK'
  BY <1>1, <1>32 DEF SampleUp, DataOK, claimVars, linkVars, Phases, SessionStates,
     SampleDown, Dispatched, IsOpen
<1>33. QED
  BY ActionOf(b, t), <1>3, <1>4, <1>5, <1>6, <1>7, <1>8, <1>9, <1>10, <1>11, <1>12, <1>13, <1>14, <1>15, <1>16, <1>17, <1>18, <1>19, <1>20, <1>21, <1>22, <1>23, <1>24, <1>25, <1>26, <1>27, <1>28, <1>29, <1>30, <1>31, <1>32 DEF ActionOf

(* Every step keeps TypeOK.                                                *)
LEMMA TypeStep == TypeOK /\ [Next]_vars => TypeOK'
<1> SUFFICES ASSUME TypeOK, [Next]_vars PROVE TypeOK'
  OBVIOUS
<1>1. CASE UNCHANGED vars
  BY <1>1 DEF vars, TypeOK
<1>2. CASE ProxyConnect \/ ProxyReady \/ ProxyDrop \/ ProxyDown
  BY <1>2 DEF ProxyConnect, ProxyReady, ProxyDrop, ProxyDown, TypeOK, Phases,
     claimVars, linkVars, lockVars
<1>3. CASE ProxyConnectOn
  <2>1. ASSUME NEW b \in Backends
        PROVE  [session[b] EXCEPT !.link = IF @ > 1 THEN @ - 1 ELSE @] \in SessionRec
    <3>1. session[b] \in SessionRec
      BY DEF TypeOK, SessionRec
    <3>2. (IF session[b].link > 1 THEN session[b].link - 1 ELSE session[b].link) \in 0 .. MaxLinks
      BY <3>1 DEF SessionRec
    <3>3. QED BY <3>1, <3>2 DEF SessionRec
  <2>2. session' \in [Backends -> SessionRec]
    BY <1>3, <2>1 DEF ProxyConnectOn
  <2>3. binders' \in [Links -> SUBSET Backends]
    BY <1>3 DEF ProxyConnectOn, TypeOK, Links
  <2>4. proxy' \in [phase : Phases, link : 0 .. MaxLinks]
    BY <1>3 DEF ProxyConnectOn, TypeOK, Phases
  <2>5. QED
    BY <1>3, <2>2, <2>3, <2>4 DEF ProxyConnectOn, TypeOK, SessionRec, claimVars, lockVars
<1>4. ASSUME NEW b \in Backends, SessionLost(b) PROVE TypeOK'
  <2>1. session' \in [Backends -> SessionRec]
    BY <1>4, SessionType DEF SessionLost, TypeOK, SessionRec, SessionStates
  <2>2. QED BY <1>4, <2>1 DEF SessionLost, TypeOK, SessionRec, claimVars, lockVars
<1>5. ASSUME NEW b \in Backends, NEW t \in Tasks, ActionOf(b, t) PROVE TypeOK'
  BY <1>5, StepFrame, StepData, TypeSplits
<1>6. QED BY <1>1, <1>2, <1>3, <1>4, <1>5, NextSplits DEF ProxyStep

(* Type correctness of the lifecycle, for any backends, tasks and links.   *)
THEOREM TypeCorrect == Spec => []TypeOK
<1>1. Init => TypeOK
  BY DEF Init, TypeOK, Links, Phases, SessionStates, NoSession, NoLink, Idle, PCs, Ops, Contexts
<1>2. TypeOK /\ [Next]_vars => TypeOK'
  BY TypeStep
<1>3. QED BY <1>1, <1>2, PTL DEF Spec
=============================================================================
