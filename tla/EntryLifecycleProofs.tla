------------------------- MODULE EntryLifecycleProofs -------------------------
(***************************************************************************)
(* Theorems about EntryLifecycle, for every set of coordinators, zone      *)
(* tasks, service calls and readers, and whatever happens from outside.    *)
(*                                                                         *)
(* One lemma per action and invariant: first TypeOK, then EntryInv, from   *)
(* which OneLiveStartup, LoadedIsLive and ReplacedOnlyWhenProven follow.   *)
(***************************************************************************)
EXTENDS EntryLifecycle, TLAPS

USE ModelAssumption

-----------------------------------------------------------------------------
(* What the operators shared by the actions do to the types.               *)

LEMMA CallType ==
  ASSUME QueueType, NEW c \in Coords, NEW w \in Callers, Call(c, w)
  PROVE  QueueType'
BY DEF QueueType, Call

LEMMA ReturnType ==
  ASSUME QueueType, NEW c \in Coords, NEW w \in Callers, Return(c, w)
  PROVE  QueueType'
BY DEF QueueType, Return

LEMMA ReturnAllType ==
  ASSUME QueueType, NEW c \in Coords, NEW W, W \subseteq Callers, ReturnAll(c, W)
  PROVE  QueueType'
BY DEF QueueType, ReturnAll

LEMMA CallAgainType ==
  ASSUME QueueType, NEW c \in Coords, NEW w \in Callers, CallAgain(c, w)
  PROVE  QueueType'
BY DEF QueueType, CallAgain

LEMMA CancelType ==
  ASSUME StartType, NEW D, D \subseteq Coords, CancelStartups(D)
  PROVE  StartType'
BY DEF StartType, CancelStartups

LEMMA CloserToType ==
  ASSUME CloserType, NEW c \in Coords, NEW k \in Closers, NEW pc \in CloserPoints,
         CloserTo(c, k, pc)
  PROVE  CloserType'
BY DEF CloserType, CloserTo

ZonePoints == {"off", "sleep", "read"}
ZoneTable == [Coords -> [ZoneTasks -> ZonePoints]]

LEMMA PutZone ==
  ASSUME zone \in ZoneTable, NEW c \in Coords, NEW z \in ZoneTasks, NEW v \in ZonePoints,
         zone' = [zone EXCEPT ![c][z] = v]
  PROVE  zone' \in ZoneTable
<1>1. [zone[c] EXCEPT ![z] = v] \in [ZoneTasks -> ZonePoints]
  BY DEF ZoneTable
<1>2. QED BY <1>1 DEF ZoneTable

LEMMA PutTwoZones ==
  ASSUME zone \in ZoneTable, NEW c \in Coords,
         NEW z \in ZoneTasks, NEW v \in ZonePoints,
         NEW m \in ZoneTasks, NEW u \in ZonePoints,
         zone' = [zone EXCEPT ![c][z] = v, ![c][m] = u]
  PROVE  zone' \in ZoneTable
<1>1. [[zone[c] EXCEPT ![z] = v] EXCEPT ![m] = u] \in [ZoneTasks -> ZonePoints]
  BY DEF ZoneTable
<1>2. zone' = [zone EXCEPT ![c] = [[zone[c] EXCEPT ![z] = v] EXCEPT ![m] = u]]
  BY DEF ZoneTable
<1>3. QED BY <1>1, <1>2 DEF ZoneTable

LEMMA StartCloseType ==
  ASSUME CloserType, StartType, NEW c \in Coords, NEW k \in Closers, StartClose(c, k)
  PROVE  CloserType' /\ StartType'
<1>1. CloserType'
  <2>1. CASE c \in complete
    BY <2>1, CloserToType DEF StartClose, CloserPoints
  <2>2. CASE c \notin complete
    BY <2>2, CloserToType DEF StartClose, CloserPoints
  <2>3. QED BY <2>1, <2>2
<1>2. StartType'
  <2>1. CASE c \in complete
    BY <2>1 DEF StartClose, StartType, startVars
  <2>2. CASE c \notin complete
    <3>1. CancelStartups({c})
      BY <2>2 DEF StartClose
    <3>2. QED BY <3>1, CancelType
  <2>3. QED BY <2>1, <2>2
<1>3. QED BY <1>1, <1>2

-----------------------------------------------------------------------------
(* Each action preserves the types.                                        *)

LEMMA StartupRunsType ==
  ASSUME TypeOK, NEW c \in Coords, StartupRuns(c)
  PROVE  TypeOK'
BY CallType DEF TypeOK, EntryType, StartupRuns, entryVars, HaPoints, EntryStates,
       FlagType, flagVars, StartType, StartupPoints, Outcomes, ZoneType, zoneVars,
       ReadType, readVars, CloserType, CloserPoints, Closers, QueueType, Callers

LEMMA StartupConnectsType ==
  ASSUME TypeOK, NEW c \in Coords, StartupConnects(c)
  PROVE  TypeOK'
BY CallAgainType DEF TypeOK, EntryType, StartupConnects, UseWorks, entryVars, HaPoints,
       EntryStates, FlagType, flagVars, StartType, StartupPoints, Outcomes, ZoneType,
       zoneVars, ReadType, readVars, CloserType, CloserPoints, Closers, QueueType,
       Callers

LEMMA StartupReadsType ==
  ASSUME TypeOK, NEW c \in Coords, StartupReads(c)
  PROVE  TypeOK'
<1> USE DEF TypeOK
<1>1. EntryType'
  BY DEF EntryType, StartupReads, UseWorks, UseFails, entryVars, OwnersAfterFailure,
         HaPoints, EntryStates
<1>2. FlagType'
  BY DEF FlagType, StartupReads, flagVars
<1>3. StartType'
  BY DEF StartType, StartupReads, taskVars, startVars, StartupPoints, Outcomes
<1>4. ZoneType'
  BY DEF ZoneType, StartupReads, taskVars, zoneVars
<1>5. ReadType'
  BY DEF ReadType, StartupReads, taskVars, readVars
<1>6. CloserType'
  BY DEF CloserType, StartupReads, CloserPoints, Closers
<1>7. QueueType'
  BY CallAgainType DEF QueueType, StartupReads, Callers, Closers
<1>8. QED BY <1>1, <1>2, <1>3, <1>4, <1>5, <1>6, <1>7

LEMMA StartupSucceedsType ==
  ASSUME TypeOK, NEW c \in Coords, StartupSucceeds(c)
  PROVE  TypeOK'
<1> USE DEF TypeOK
<1>1. EntryType'
  BY DEF EntryType, StartupSucceeds, UseWorks, UseFails, entryVars, OwnersAfterFailure,
         HaPoints, EntryStates
<1>2. FlagType'
  BY DEF FlagType, StartupSucceeds, flagVars
<1>3. StartType'
  BY DEF StartType, StartupSucceeds, StartupPoints, Outcomes
<1>4. ZoneType'
  <2>1. zone' \in ZoneTable
    BY PutZone DEF StartupSucceeds, Schedule, ZoneType, ZoneTable, ZonePoints
  <2>2. zoneHit' = zoneHit
    BY DEF StartupSucceeds
  <2>3. /\ deferred' \in [Coords -> ZoneTasks \cup {NoTask}]
        /\ monitor' \in [Coords -> ZoneTasks \cup {NoTask}]
    BY DEF StartupSucceeds, ZoneType
  <2>4. lost' \in [Coords -> SUBSET ZoneTasks]
    BY DEF StartupSucceeds, ZoneType
  <2>5. QED BY <2>1, <2>2, <2>3, <2>4 DEF ZoneType, ZoneTable, ZonePoints
<1>5. ReadType'
  BY DEF ReadType, StartupSucceeds, readVars
<1>6. CloserType'
  BY DEF CloserType, StartupSucceeds, CloserPoints, Closers
<1>7. QueueType'
  BY ReturnType DEF QueueType, StartupSucceeds, Callers, Closers
<1>8. QED BY <1>1, <1>2, <1>3, <1>4, <1>5, <1>6, <1>7

LEMMA StartupFailsType ==
  ASSUME TypeOK, NEW c \in Coords, StartupFails(c)
  PROVE  TypeOK'
<1> USE DEF TypeOK
<1>1. EntryType'
  BY DEF EntryType, StartupFails, UseFails, entryVars, OwnersAfterFailure, HaPoints,
         EntryStates
<1>2. FlagType'
  BY DEF FlagType, StartupFails, flagVars
<1>3. StartType'
  BY DEF StartType, StartupFails, StartupPoints, Outcomes
<1>4. ZoneType'
  BY DEF ZoneType, StartupFails, zoneVars
<1>5. ReadType'
  BY DEF ReadType, StartupFails, readVars
<1>6. CloserType'
  BY DEF CloserType, StartupFails, CloserPoints, Closers
<1>7. QueueType'
  BY CallAgainType DEF QueueType, StartupFails, Callers, Closers
<1>8. QED BY <1>1, <1>2, <1>3, <1>4, <1>5, <1>6, <1>7

LEMMA StartupCleansUpType ==
  ASSUME TypeOK, NEW c \in Coords, StartupCleansUp(c)
  PROVE  TypeOK'
BY ReturnType DEF TypeOK, EntryType, StartupCleansUp, StopWorks, StartupEnds, entryVars,
       HaPoints, EntryStates, FlagType, Retryable, shutVars, StartType, StartupPoints,
       Outcomes, ZoneType, zoneVars, ReadType, readVars, CloserType, CloserPoints,
       Closers, QueueType, Callers

LEMMA StartupCleanupFailsType ==
  ASSUME TypeOK, NEW c \in Coords, StartupCleanupFails(c)
  PROVE  TypeOK'
<1> USE DEF TypeOK
<1>1. EntryType'
  BY DEF EntryType, StartupCleanupFails, StopFails, StartupEnds, entryVars, HaPoints,
         EntryStates
<1>2. FlagType'
  BY DEF FlagType, StartupCleanupFails, StartupEnds, Retryable, shutVars
<1>3. StartType'
  BY DEF StartType, StartupCleanupFails, StartupEnds, StartupPoints, Outcomes
<1>4. ZoneType'
  BY DEF ZoneType, StartupCleanupFails, StartupEnds, zoneVars
<1>5. ReadType'
  BY DEF ReadType, StartupCleanupFails, StartupEnds, readVars
<1>6. CloserType'
  BY DEF CloserType, StartupCleanupFails, StartupEnds, CloserPoints, Closers
<1>7. QueueType'
  BY ReturnType DEF QueueType, StartupCleanupFails, StartupEnds, Callers, Closers
<1>8. QED BY <1>1, <1>2, <1>3, <1>4, <1>5, <1>6, <1>7

LEMMA StartupBudgetType ==
  ASSUME TypeOK, NEW c \in Coords, StartupBudget(c)
  PROVE  TypeOK'
<1> USE DEF TypeOK
<1>1. EntryType'
  BY DEF EntryType, StartupBudget, UseInterrupted, UseFails, entryVars,
         OwnersAfterFailure, HaPoints, EntryStates
<1>2. FlagType'
  BY DEF FlagType, StartupBudget, Retryable, shutVars
<1>3. StartType'
  BY DEF StartType, StartupBudget, StartupPoints, Outcomes
<1>4. ZoneType'
  BY DEF ZoneType, StartupBudget, zoneVars
<1>5. ReadType'
  BY DEF ReadType, StartupBudget, readVars
<1>6. CloserType'
  BY DEF CloserType, StartupBudget, CloserPoints, Closers
<1>7. QueueType'
  BY ReturnType, CallAgainType DEF QueueType, StartupBudget, Callers, Closers
<1>8. QED BY <1>1, <1>2, <1>3, <1>4, <1>5, <1>6, <1>7

LEMMA StartupInterruptedType ==
  ASSUME TypeOK, NEW c \in Coords, StartupInterrupted(c)
  PROVE  TypeOK'
<1> USE DEF TypeOK
<1>1. EntryType'
  BY DEF EntryType, StartupInterrupted, UseInterrupted, UseFails, entryVars,
         OwnersAfterFailure, HaPoints, EntryStates
<1>2. FlagType'
  BY DEF FlagType, StartupInterrupted, Retryable, shutVars
<1>3. StartType'
  BY DEF StartType, StartupInterrupted, StartupPoints, Outcomes
<1>4. ZoneType'
  BY DEF ZoneType, StartupInterrupted, zoneVars
<1>5. ReadType'
  BY DEF ReadType, StartupInterrupted, readVars
<1>6. CloserType'
  BY DEF CloserType, StartupInterrupted, CloserPoints, Closers
<1>7. QueueType'
  BY ReturnType, CallAgainType DEF QueueType, StartupInterrupted, queueVars, Callers,
         Closers
<1>8. QED BY <1>1, <1>2, <1>3, <1>4, <1>5, <1>6, <1>7

LEMMA ZoneWakesType ==
  ASSUME TypeOK, NEW c \in Coords, NEW z \in ZoneTasks, ZoneWakes(c, z)
  PROVE  TypeOK'
<1> USE DEF TypeOK
<1>1. EntryType'
  BY DEF EntryType, ZoneWakes, entryVars, HaPoints, EntryStates
<1>2. FlagType'
  BY DEF FlagType, ZoneWakes, flagVars
<1>3. StartType'
  BY DEF StartType, ZoneWakes, startVars, StartupPoints, Outcomes
<1>4. ZoneType'
  <2>1. zone' \in ZoneTable
    BY PutZone DEF ZoneWakes, ZoneType, ZoneTable, ZonePoints
  <2>2. QED BY <2>1 DEF ZoneWakes, ZoneType, ZoneTable, ZonePoints
<1>5. ReadType'
  BY DEF ReadType, ZoneWakes, readVars
<1>6. CloserType'
  BY DEF CloserType, ZoneWakes, CloserPoints, Closers
<1>7. QueueType'
  BY CallType DEF QueueType, ZoneWakes, queueVars, Callers, Closers
<1>8. QED BY <1>1, <1>2, <1>3, <1>4, <1>5, <1>6, <1>7

LEMMA ZoneReadsType ==
  ASSUME TypeOK, NEW c \in Coords, NEW z \in ZoneTasks, ZoneReads(c, z)
  PROVE  TypeOK'
<1> USE DEF TypeOK
<1>1. EntryType'
  BY DEF EntryType, ZoneReads, UseWorks, UseFails, entryVars, OwnersAfterFailure,
         HaPoints, EntryStates
<1>2. FlagType'
  BY DEF FlagType, ZoneReads, flagVars
<1>3. StartType'
  BY DEF StartType, ZoneReads, taskVars, startVars, StartupPoints, Outcomes
<1>4. ZoneType'
  BY DEF ZoneType, ZoneReads, taskVars, zoneVars
<1>5. ReadType'
  BY DEF ReadType, ZoneReads, taskVars, readVars
<1>6. CloserType'
  BY DEF CloserType, ZoneReads, CloserPoints, Closers
<1>7. QueueType'
  BY CallAgainType DEF QueueType, ZoneReads, Callers, Closers
<1>8. QED BY <1>1, <1>2, <1>3, <1>4, <1>5, <1>6, <1>7

LEMMA ZonePassEndsType ==
  ASSUME TypeOK, NEW c \in Coords, NEW z \in ZoneTasks, ZonePassEnds(c, z)
  PROVE  TypeOK'
<1> USE DEF TypeOK
<1>1. EntryType'
  BY DEF EntryType, ZonePassEnds, UseWorks, UseFails, entryVars, OwnersAfterFailure,
         HaPoints, EntryStates
<1>2. FlagType'
  BY DEF FlagType, ZonePassEnds, flagVars
<1>3. StartType'
  BY DEF StartType, ZonePassEnds, startVars, StartupPoints, Outcomes
<1>4. ZoneType'
  <2>1. zone' \in ZoneTable
    BY PutZone, PutTwoZones DEF ZonePassEnds, ZoneType, ZoneTable, ZonePoints
  <2>2. monitor' \in [Coords -> ZoneTasks \cup {NoTask}]
    BY DEF ZonePassEnds, ZoneType
  <2>3. QED BY <2>1, <2>2 DEF ZonePassEnds, ZoneType, ZoneTable, ZonePoints
<1>5. ReadType'
  BY DEF ReadType, ZonePassEnds, readVars
<1>6. CloserType'
  BY DEF CloserType, ZonePassEnds, CloserPoints, Closers
<1>7. QueueType'
  BY ReturnType DEF QueueType, ZonePassEnds, Callers, Closers
<1>8. QED BY <1>1, <1>2, <1>3, <1>4, <1>5, <1>6, <1>7

LEMMA ZoneInterruptedType ==
  ASSUME TypeOK, NEW c \in Coords, NEW z \in ZoneTasks, ZoneInterrupted(c, z)
  PROVE  TypeOK'
<1> USE DEF TypeOK
<1>1. EntryType'
  BY DEF EntryType, ZoneInterrupted, UseInterrupted, UseFails, entryVars,
         OwnersAfterFailure, HaPoints, EntryStates
<1>2. FlagType'
  BY DEF FlagType, ZoneInterrupted, flagVars
<1>3. StartType'
  BY DEF StartType, ZoneInterrupted, startVars, StartupPoints, Outcomes
<1>4. ZoneType'
  BY DEF ZoneType, ZoneInterrupted
<1>5. ReadType'
  BY DEF ReadType, ZoneInterrupted, readVars
<1>6. CloserType'
  BY DEF CloserType, ZoneInterrupted, CloserPoints, Closers
<1>7. QueueType'
  BY ReturnType DEF QueueType, ZoneInterrupted, queueVars, Callers, Closers
<1>8. QED BY <1>1, <1>2, <1>3, <1>4, <1>5, <1>6, <1>7

LEMMA ReadBeginsType ==
  ASSUME TypeOK, NEW c \in Coords, NEW w \in Readers, ReadBegins(c, w)
  PROVE  TypeOK'
<1> USE DEF TypeOK
<1>1. EntryType'
  BY DEF EntryType, ReadBegins, entryVars, HaPoints, EntryStates
<1>2. FlagType'
  BY DEF FlagType, ReadBegins, flagVars
<1>3. StartType'
  BY DEF StartType, ReadBegins, startVars, StartupPoints, Outcomes
<1>4. ZoneType'
  BY DEF ZoneType, ReadBegins, zoneVars
<1>5. ReadType'
  BY DEF ReadType, ReadBegins
<1>6. CloserType'
  BY DEF CloserType, ReadBegins, CloserPoints, Closers
<1>7. QueueType'
  BY CallType DEF QueueType, ReadBegins, Callers, Closers
<1>8. QED BY <1>1, <1>2, <1>3, <1>4, <1>5, <1>6, <1>7

LEMMA ReadReturnsType ==
  ASSUME TypeOK, NEW c \in Coords, NEW w \in Readers, ReadReturns(c, w)
  PROVE  TypeOK'
<1> USE DEF TypeOK
<1>1. EntryType'
  BY DEF EntryType, ReadReturns, UseWorks, UseFails, entryVars, OwnersAfterFailure,
         HaPoints, EntryStates
<1>2. FlagType'
  BY DEF FlagType, ReadReturns, flagVars
<1>3. StartType'
  BY DEF StartType, ReadReturns, startVars, StartupPoints, Outcomes
<1>4. ZoneType'
  BY DEF ZoneType, ReadReturns, zoneVars
<1>5. ReadType'
  BY DEF ReadType, ReadReturns
<1>6. CloserType'
  BY DEF CloserType, ReadReturns, CloserPoints, Closers
<1>7. QueueType'
  BY ReturnType, CallAgainType DEF QueueType, ReadReturns, Callers, Closers
<1>8. QED BY <1>1, <1>2, <1>3, <1>4, <1>5, <1>6, <1>7

LEMMA CloserJoinsType ==
  ASSUME TypeOK, NEW c \in Coords, NEW k \in Closers, CloserJoins(c, k)
  PROVE  TypeOK'
<1> USE DEF TypeOK
<1>1. EntryType'
  BY DEF EntryType, CloserJoins, entryVars, HaPoints, EntryStates
<1>2. FlagType'
  BY DEF FlagType, CloserJoins, flagVars
<1>3. StartType'
  BY DEF StartType, CloserJoins, taskVars, startVars, StartupPoints, Outcomes
<1>4. ZoneType'
  BY DEF ZoneType, CloserJoins, taskVars, zoneVars
<1>5. ReadType'
  BY DEF ReadType, CloserJoins, taskVars, readVars
<1>6. CloserType'
  BY CloserToType DEF CloserType, CloserJoins, CloserPoints, Closers
<1>7. QueueType'
  BY DEF QueueType, CloserJoins, queueVars, Callers, Closers
<1>8. QED BY <1>1, <1>2, <1>3, <1>4, <1>5, <1>6, <1>7

LEMMA CloserJoinTimeoutType ==
  ASSUME TypeOK, NEW c \in Coords, NEW k \in Closers, CloserJoinTimeout(c, k)
  PROVE  TypeOK'
<1> USE DEF TypeOK
<1>1. EntryType'
  BY DEF EntryType, CloserJoinTimeout, entryVars, HaPoints, EntryStates
<1>2. FlagType'
  BY DEF FlagType, CloserJoinTimeout, flagVars
<1>3. StartType'
  BY CancelType DEF StartType, CloserJoinTimeout, StartupPoints, Outcomes
<1>4. ZoneType'
  BY DEF ZoneType, CloserJoinTimeout, zoneVars
<1>5. ReadType'
  BY DEF ReadType, CloserJoinTimeout, readVars
<1>6. CloserType'
  BY CloserToType DEF CloserType, CloserJoinTimeout, CloserPoints, Closers
<1>7. QueueType'
  BY DEF QueueType, CloserJoinTimeout, queueVars, Callers, Closers
<1>8. QED BY <1>1, <1>2, <1>3, <1>4, <1>5, <1>6, <1>7

LEMMA CloserPreStopsType ==
  ASSUME TypeOK, NEW c \in Coords, NEW k \in Closers, CloserPreStops(c, k)
  PROVE  TypeOK'
<1> USE DEF TypeOK
<1>1. EntryType'
  BY DEF EntryType, CloserPreStops, entryVars, HaPoints, EntryStates
<1>2. FlagType'
  BY DEF FlagType, CloserPreStops, flagVars
<1>3. StartType'
  BY DEF StartType, CloserPreStops, startVars, StartupPoints, Outcomes
<1>4. ZoneType'
  BY DEF ZoneType, CloserPreStops, CancelTracked, Tracked
<1>5. ReadType'
  BY DEF ReadType, CloserPreStops, readVars
<1>6. CloserType'
  BY CloserToType DEF CloserType, CloserPreStops, CloserPoints, Closers
<1>7. QueueType'
  BY CallType DEF QueueType, CloserPreStops, queueVars, Callers, Closers
<1>8. QED BY <1>1, <1>2, <1>3, <1>4, <1>5, <1>6, <1>7

LEMMA CloserPreStoppedType ==
  ASSUME TypeOK, NEW c \in Coords, NEW k \in Closers, CloserPreStopped(c, k)
  PROVE  TypeOK'
<1> USE DEF TypeOK
<1>1. EntryType'
  BY DEF EntryType, CloserPreStopped, StopWorks, entryVars, HaPoints, EntryStates
<1>2. FlagType'
  BY DEF FlagType, CloserPreStopped, flagVars
<1>3. StartType'
  BY DEF StartType, CloserPreStopped, startVars, StartupPoints, Outcomes
<1>4. ZoneType'
  BY DEF ZoneType, CloserPreStopped, CancelTracked, Tracked
<1>5. ReadType'
  BY DEF ReadType, CloserPreStopped, readVars
<1>6. CloserType'
  BY CloserToType DEF CloserType, CloserPreStopped, CloserPoints, Closers
<1>7. QueueType'
  BY ReturnType DEF QueueType, CloserPreStopped, Callers, Closers
<1>8. QED BY <1>1, <1>2, <1>3, <1>4, <1>5, <1>6, <1>7

LEMMA CloserPreStopFailsType ==
  ASSUME TypeOK, NEW c \in Coords, NEW k \in Closers, CloserPreStopFails(c, k)
  PROVE  TypeOK'
<1> USE DEF TypeOK
<1>1. EntryType'
  BY DEF EntryType, CloserPreStopFails, StopFails, entryVars, HaPoints, EntryStates
<1>2. FlagType'
  BY DEF FlagType, CloserPreStopFails, shutVars
<1>3. StartType'
  BY DEF StartType, CloserPreStopFails, taskVars, startVars, StartupPoints, Outcomes
<1>4. ZoneType'
  BY DEF ZoneType, CloserPreStopFails, taskVars, zoneVars
<1>5. ReadType'
  BY DEF ReadType, CloserPreStopFails, taskVars, readVars
<1>6. CloserType'
  BY CloserToType DEF CloserType, CloserPreStopFails, CloserPoints, Closers
<1>7. QueueType'
  BY ReturnType DEF QueueType, CloserPreStopFails, Callers, Closers
<1>8. QED BY <1>1, <1>2, <1>3, <1>4, <1>5, <1>6, <1>7

LEMMA CloserJoinsZonesType ==
  ASSUME TypeOK, NEW c \in Coords, NEW k \in Closers, CloserJoinsZones(c, k)
  PROVE  TypeOK'
<1> USE DEF TypeOK
<1>1. EntryType'
  BY DEF EntryType, CloserJoinsZones, entryVars, HaPoints, EntryStates
<1>2. FlagType'
  BY DEF FlagType, CloserJoinsZones, flagVars
<1>3. StartType'
  BY DEF StartType, CloserJoinsZones, startVars, StartupPoints, Outcomes
<1>4. ZoneType'
  BY DEF ZoneType, CloserJoinsZones
<1>5. ReadType'
  BY DEF ReadType, CloserJoinsZones, readVars
<1>6. CloserType'
  BY CloserToType DEF CloserType, CloserJoinsZones, CloserPoints, Closers
<1>7. QueueType'
  BY DEF QueueType, CloserJoinsZones, queueVars, Callers, Closers
<1>8. QED BY <1>1, <1>2, <1>3, <1>4, <1>5, <1>6, <1>7

LEMMA CloserJoinsPollersType ==
  ASSUME TypeOK, NEW c \in Coords, NEW k \in Closers, CloserJoinsPollers(c, k)
  PROVE  TypeOK'
<1> USE DEF TypeOK
<1>1. EntryType'
  BY DEF EntryType, CloserJoinsPollers, entryVars, HaPoints, EntryStates
<1>2. FlagType'
  BY DEF FlagType, CloserJoinsPollers, flagVars
<1>3. StartType'
  BY DEF StartType, CloserJoinsPollers, taskVars, startVars, StartupPoints, Outcomes
<1>4. ZoneType'
  BY DEF ZoneType, CloserJoinsPollers, taskVars, zoneVars
<1>5. ReadType'
  BY DEF ReadType, CloserJoinsPollers, taskVars, readVars
<1>6. CloserType'
  BY CloserToType DEF CloserType, CloserJoinsPollers, CloserPoints, Closers
<1>7. QueueType'
  BY CallType DEF QueueType, CloserJoinsPollers, Callers, Closers
<1>8. QED BY <1>1, <1>2, <1>3, <1>4, <1>5, <1>6, <1>7

LEMMA CloserPollersTimeoutType ==
  ASSUME TypeOK, NEW c \in Coords, NEW k \in Closers, CloserPollersTimeout(c, k)
  PROVE  TypeOK'
<1> USE DEF TypeOK
<1>1. EntryType'
  BY DEF EntryType, CloserPollersTimeout, entryVars, HaPoints, EntryStates
<1>2. FlagType'
  BY DEF FlagType, CloserPollersTimeout, flagVars
<1>3. StartType'
  BY DEF StartType, CloserPollersTimeout, taskVars, startVars, StartupPoints, Outcomes
<1>4. ZoneType'
  BY DEF ZoneType, CloserPollersTimeout, taskVars, zoneVars
<1>5. ReadType'
  BY DEF ReadType, CloserPollersTimeout, taskVars, readVars
<1>6. CloserType'
  BY CloserToType DEF CloserType, CloserPollersTimeout, CloserPoints, Closers
<1>7. QueueType'
  BY DEF QueueType, CloserPollersTimeout, queueVars, Callers, Closers
<1>8. QED BY <1>1, <1>2, <1>3, <1>4, <1>5, <1>6, <1>7

LEMMA CloserStoppedType ==
  ASSUME TypeOK, NEW c \in Coords, NEW k \in Closers, CloserStopped(c, k)
  PROVE  TypeOK'
<1> USE DEF TypeOK
<1>1. EntryType'
  BY DEF EntryType, CloserStopped, StopWorks, entryVars, HaPoints, EntryStates
<1>2. FlagType'
  BY DEF FlagType, CloserStopped
<1>3. StartType'
  BY DEF StartType, CloserStopped, taskVars, startVars, StartupPoints, Outcomes
<1>4. ZoneType'
  BY DEF ZoneType, CloserStopped, taskVars, zoneVars
<1>5. ReadType'
  BY DEF ReadType, CloserStopped, taskVars, readVars
<1>6. CloserType'
  BY CloserToType DEF CloserType, CloserStopped, CloserPoints, Closers
<1>7. QueueType'
  BY ReturnType DEF QueueType, CloserStopped, Callers, Closers
<1>8. QED BY <1>1, <1>2, <1>3, <1>4, <1>5, <1>6, <1>7

LEMMA CloserStopFailsType ==
  ASSUME TypeOK, NEW c \in Coords, NEW k \in Closers, CloserStopFails(c, k)
  PROVE  TypeOK'
<1> USE DEF TypeOK
<1>1. EntryType'
  BY DEF EntryType, CloserStopFails, StopFails, entryVars, HaPoints, EntryStates
<1>2. FlagType'
  BY DEF FlagType, CloserStopFails, flagVars
<1>3. StartType'
  BY DEF StartType, CloserStopFails, taskVars, startVars, StartupPoints, Outcomes
<1>4. ZoneType'
  BY DEF ZoneType, CloserStopFails, taskVars, zoneVars
<1>5. ReadType'
  BY DEF ReadType, CloserStopFails, taskVars, readVars
<1>6. CloserType'
  BY CloserToType DEF CloserType, CloserStopFails, CloserPoints, Closers
<1>7. QueueType'
  BY ReturnType DEF QueueType, CloserStopFails, Callers, Closers
<1>8. QED BY <1>1, <1>2, <1>3, <1>4, <1>5, <1>6, <1>7

LEMMA CleanupEndsType ==
  ASSUME TypeOK, NEW c \in Coords, CleanupEnds(c)
  PROVE  TypeOK'
BY CloserToType DEF TypeOK, EntryType, CleanupEnds, holdVars, HaPoints, EntryStates,
       FlagType, shutVars, StartType, taskVars, startVars, StartupPoints, Outcomes,
       ZoneType, zoneVars, ReadType, readVars, CloserType, CloserPoints, Closers,
       QueueType, queueVars, Callers

LEMMA JoinCancelledType ==
  ASSUME TypeOK, NEW c \in Coords, JoinCancelled(c)
  PROVE  TypeOK'
BY DEF TypeOK, EntryType, JoinCancelled, HaTo, holdVars, HaPoints, EntryStates,
       FlagType, Listens, shutVars, StartType, taskVars, startVars, StartupPoints,
       Outcomes, ZoneType, zoneVars, ReadType, readVars, CloserType, CloserPoints,
       Closers, QueueType, queueVars, Callers

LEMMA WaitSliceType ==
  ASSUME TypeOK, NEW c \in Coords, WaitSlice(c)
  PROVE  TypeOK'
BY DEF TypeOK, EntryType, WaitSlice, HaTo, holdVars, HaPoints, EntryStates, FlagType,
       Listens, shutVars, StartType, taskVars, startVars, StartupPoints, Outcomes,
       ZoneType, zoneVars, ReadType, readVars, CloserType, CloserPoints, Closers,
       QueueType, queueVars, Callers

LEMMA FenceFirstType ==
  ASSUME TypeOK, NEW c \in Coords, FenceFirst(c)
  PROVE  TypeOK'
BY CallType DEF TypeOK, EntryType, FenceFirst, HaTo, holdVars, HaPoints, EntryStates,
       FlagType, Listens, shutVars, StartType, taskVars, startVars, StartupPoints,
       Outcomes, ZoneType, zoneVars, ReadType, readVars, CloserType, CloserPoints,
       Closers, QueueType, Callers

LEMMA StartOverType ==
  ASSUME TypeOK, NEW c \in Coords, StartOver(c)
  PROVE  TypeOK'
BY DEF TypeOK, EntryType, StartOver, NewStartup, HaTo, holdVars, HaPoints, EntryStates,
       FlagType, Listens, shutVars, StartType, StartupPoints, Outcomes, ZoneType,
       zoneVars, ReadType, readVars, CloserType, CloserPoints, Closers, QueueType,
       queueVars, Callers

LEMMA UseResultType ==
  ASSUME TypeOK, NEW c \in Coords, UseResult(c)
  PROVE  TypeOK'
<1> USE DEF TypeOK
<1>1. EntryType'
  BY DEF EntryType, UseResult, HaTo, SetupFails, HaPoints, EntryStates
<1>2. FlagType'
  BY DEF FlagType, UseResult, SetupFails, StartClose, Listens
<1>3. StartType'
  BY StartCloseType DEF StartType, UseResult, SetupFails, startVars, StartupPoints,
         Outcomes, Closers
<1>4. ZoneType'
  BY DEF ZoneType, UseResult, SetupFails, CancelZones
<1>5. ReadType'
  BY DEF ReadType, UseResult, readVars
<1>6. CloserType'
  BY StartCloseType DEF CloserType, UseResult, SetupFails, CloserPoints, Closers
<1>7. QueueType'
  BY DEF QueueType, UseResult, queueVars, Callers, Closers
<1>8. QED BY <1>1, <1>2, <1>3, <1>4, <1>5, <1>6, <1>7

LEMMA JoinedType ==
  ASSUME TypeOK, NEW c \in Coords, Joined(c)
  PROVE  TypeOK'
<1> USE DEF TypeOK
<1>1. EntryType'
  BY DEF EntryType, Joined, HaTo, NewStartup, holdVars, HaPoints, EntryStates
<1>2. FlagType'
  BY DEF FlagType, Joined, NewStartup, shutVars
<1>3. StartType'
  BY DEF StartType, Joined, NewStartup, startVars, StartupPoints, Outcomes
<1>4. ZoneType'
  BY DEF ZoneType, Joined, zoneVars
<1>5. ReadType'
  BY DEF ReadType, Joined, readVars
<1>6. CloserType'
  BY DEF CloserType, Joined, CloserPoints, Closers
<1>7. QueueType'
  BY CallType DEF QueueType, Joined, queueVars, Callers, Closers
<1>8. QED BY <1>1, <1>2, <1>3, <1>4, <1>5, <1>6, <1>7

LEMMA JoinTimeoutType ==
  ASSUME TypeOK, NEW c \in Coords, JoinTimeout(c)
  PROVE  TypeOK'
<1> USE DEF TypeOK
<1>1. EntryType'
  BY DEF EntryType, JoinTimeout, NotReady, HaTo, holdVars, HaPoints, EntryStates
<1>2. FlagType'
  BY DEF FlagType, JoinTimeout, flagVars
<1>3. StartType'
  BY CancelType DEF StartType, JoinTimeout, StartupPoints, Outcomes
<1>4. ZoneType'
  BY DEF ZoneType, JoinTimeout, NotReady, CancelZones
<1>5. ReadType'
  BY DEF ReadType, JoinTimeout, readVars
<1>6. CloserType'
  BY DEF CloserType, JoinTimeout, CloserPoints, Closers
<1>7. QueueType'
  BY DEF QueueType, JoinTimeout, queueVars, Callers, Closers
<1>8. QED BY <1>1, <1>2, <1>3, <1>4, <1>5, <1>6, <1>7

LEMMA FenceWorksType ==
  ASSUME TypeOK, NEW c \in Coords, FenceWorks(c)
  PROVE  TypeOK'
BY ReturnType DEF TypeOK, EntryType, FenceWorks, NewStartup, HaTo, StopWorks, HaPoints,
       EntryStates, FlagType, shutVars, StartType, StartupPoints, Outcomes, ZoneType,
       zoneVars, ReadType, readVars, CloserType, CloserPoints, Closers, QueueType,
       Callers

LEMMA FenceFailsType ==
  ASSUME TypeOK, NEW c \in Coords, FenceFails(c)
  PROVE  TypeOK'
BY ReturnType DEF TypeOK, EntryType, FenceFails, NotReady, HaTo, StopFails, HaPoints,
       EntryStates, FlagType, shutVars, StartType, startVars, StartupPoints, Outcomes,
       ZoneType, CancelZones, ReadType, readVars, CloserType, CloserPoints, Closers,
       QueueType, Callers

LEMMA SliceEndsType ==
  ASSUME TypeOK, NEW c \in Coords, SliceEnds(c)
  PROVE  TypeOK'
<1> USE DEF TypeOK
<1>1. EntryType'
  BY DEF EntryType, SliceEnds, HaTo, NotReady, SetupFails, HaPoints, EntryStates
<1>2. FlagType'
  BY DEF FlagType, SliceEnds, SetupFails, StartClose
<1>3. StartType'
  BY StartCloseType DEF StartType, SliceEnds, SetupFails, startVars, StartupPoints,
         Outcomes, Closers
<1>4. ZoneType'
  BY DEF ZoneType, SliceEnds, NotReady, CancelZones, SetupFails
<1>5. ReadType'
  BY DEF ReadType, SliceEnds, readVars
<1>6. CloserType'
  BY StartCloseType DEF CloserType, SliceEnds, SetupFails, CloserPoints, Closers
<1>7. QueueType'
  BY DEF QueueType, SliceEnds, queueVars, Callers, Closers
<1>8. QED BY <1>1, <1>2, <1>3, <1>4, <1>5, <1>6, <1>7

LEMMA SliceTimeoutType ==
  ASSUME TypeOK, NEW c \in Coords, SliceTimeout(c)
  PROVE  TypeOK'
BY DEF TypeOK, EntryType, SliceTimeout, NotReady, HaTo, holdVars, HaPoints, EntryStates,
       FlagType, flagVars, StartType, startVars, StartupPoints, Outcomes, ZoneType,
       CancelZones, ReadType, readVars, CloserType, CloserPoints, Closers, QueueType,
       queueVars, Callers

LEMMA ProvedType ==
  ASSUME TypeOK, NEW c \in Coords, Proved(c)
  PROVE  TypeOK'
BY CloserToType DEF TypeOK, EntryType, Proved, HaTo, holdVars, HaPoints, EntryStates,
       FlagType, shutVars, StartType, taskVars, startVars, StartupPoints, Outcomes,
       ZoneType, zoneVars, ReadType, readVars, CloserType, CloserPoints, Closers,
       QueueType, queueVars, Callers

LEMMA ProofFailsType ==
  ASSUME TypeOK, NEW c \in Coords, ProofFails(c)
  PROVE  TypeOK'
BY CloserToType DEF TypeOK, EntryType, ProofFails, NotReady, HaTo, holdVars, HaPoints,
       EntryStates, FlagType, flagVars, StartType, startVars, StartupPoints, Outcomes,
       ZoneType, CancelZones, ReadType, readVars, CloserType, CloserPoints, Closers,
       QueueType, queueVars, Callers

LEMMA ProofTimeoutType ==
  ASSUME TypeOK, NEW c \in Coords, ProofTimeout(c)
  PROVE  TypeOK'
<1> USE DEF TypeOK
<1>1. EntryType'
  BY DEF EntryType, ProofTimeout, NotReady, HaTo, holdVars, HaPoints, EntryStates
<1>2. FlagType'
  BY DEF FlagType, ProofTimeout, flagVars
<1>3. StartType'
  BY CancelType DEF StartType, ProofTimeout, startVars, StartupPoints, Outcomes
<1>4. ZoneType'
  BY DEF ZoneType, ProofTimeout, NotReady, CancelZones
<1>5. ReadType'
  BY DEF ReadType, ProofTimeout, readVars
<1>6. CloserType'
  BY CloserToType DEF CloserType, ProofTimeout, CloserPoints, Closers
<1>7. QueueType'
  BY ReturnType DEF QueueType, ProofTimeout, queueVars, Callers, Closers
<1>8. QED BY <1>1, <1>2, <1>3, <1>4, <1>5, <1>6, <1>7

LEMMA CreateType ==
  ASSUME TypeOK, NEW c \in Coords, Create(c)
  PROVE  TypeOK'
BY DEF TypeOK, EntryType, Create, NewStartup, HaTo, HaPoints, EntryStates, FlagType,
       StartType, StartupPoints, Outcomes, ZoneType, ReadType, readVars, CloserType,
       CloserPoints, Closers, QueueType, queueVars, Callers

LEMMA LoadsType ==
  ASSUME TypeOK, NEW c \in Coords, Loads(c)
  PROVE  TypeOK'
BY DEF TypeOK, EntryType, Loads, HaTo, holdVars, HaPoints, EntryStates, FlagType,
       shutVars, StartType, taskVars, startVars, StartupPoints, Outcomes, ZoneType,
       zoneVars, ReadType, readVars, CloserType, CloserPoints, Closers, QueueType,
       queueVars, Callers

LEMMA ForwardFailsType ==
  ASSUME TypeOK, NEW c \in Coords, ForwardFails(c)
  PROVE  TypeOK'
<1> USE DEF TypeOK
<1>1. EntryType'
  BY DEF EntryType, ForwardFails, SetupFails, HaTo, holdVars, HaPoints, EntryStates
<1>2. FlagType'
  BY DEF FlagType, ForwardFails, SetupFails, StartClose
<1>3. StartType'
  BY StartCloseType DEF StartType, ForwardFails, SetupFails, StartupPoints, Outcomes,
         Closers
<1>4. ZoneType'
  BY DEF ZoneType, ForwardFails, SetupFails, CancelZones
<1>5. ReadType'
  BY DEF ReadType, ForwardFails, readVars
<1>6. CloserType'
  BY StartCloseType DEF CloserType, ForwardFails, SetupFails, CloserPoints, Closers
<1>7. QueueType'
  BY DEF QueueType, ForwardFails, queueVars, Callers, Closers
<1>8. QED BY <1>1, <1>2, <1>3, <1>4, <1>5, <1>6, <1>7

LEMMA PlatformsUnloadType ==
  ASSUME TypeOK, NEW c \in Coords, PlatformsUnload(c)
  PROVE  TypeOK'
<1> USE DEF TypeOK
<1>1. EntryType'
  BY DEF EntryType, PlatformsUnload, HaTo, HaPoints, EntryStates
<1>2. FlagType'
  BY DEF FlagType, PlatformsUnload, StartClose
<1>3. StartType'
  BY StartCloseType DEF StartType, PlatformsUnload, StartupPoints, Outcomes, Closers
<1>4. ZoneType'
  BY DEF ZoneType, PlatformsUnload, zoneVars
<1>5. ReadType'
  BY DEF ReadType, PlatformsUnload, readVars
<1>6. CloserType'
  BY StartCloseType DEF CloserType, PlatformsUnload, CloserPoints, Closers
<1>7. QueueType'
  BY DEF QueueType, PlatformsUnload, queueVars, Callers, Closers
<1>8. QED BY <1>1, <1>2, <1>3, <1>4, <1>5, <1>6, <1>7

LEMMA PlatformsStayType ==
  ASSUME TypeOK, NEW c \in Coords, PlatformsStay(c)
  PROVE  TypeOK'
BY CancelType DEF TypeOK, EntryType, PlatformsStay, HaTo, holdVars, HaPoints,
       EntryStates, FlagType, ListenersFire, shutVars, StartType, StartupPoints,
       Outcomes, ZoneType, zoneVars, ReadType, readVars, CloserType, CloserPoints,
       Closers, QueueType, queueVars, Callers

LEMMA ClosedType ==
  ASSUME TypeOK, NEW c \in Coords, Closed(c)
  PROVE  TypeOK'
<1> USE DEF TypeOK
<1>1. EntryType'
  BY DEF EntryType, Closed, HaTo, StopWorks, HaPoints, EntryStates
<1>2. FlagType'
  BY DEF FlagType, Closed
<1>3. StartType'
  BY DEF StartType, Closed, startVars, StartupPoints, Outcomes
<1>4. ZoneType'
  BY DEF ZoneType, Closed, CancelZones
<1>5. ReadType'
  BY DEF ReadType, Closed, readVars
<1>6. CloserType'
  BY CloserToType DEF CloserType, Closed, CloserPoints, Closers
<1>7. QueueType'
  <2>1. {"ha"} \cup ZoneTasks \subseteq Callers
    BY DEF Callers, Closers
  <2>2. QED BY <2>1, ReturnAllType DEF Closed
<1>8. QED BY <1>1, <1>2, <1>3, <1>4, <1>5, <1>6, <1>7

LEMMA CloseFailsType ==
  ASSUME TypeOK, NEW c \in Coords, CloseFails(c)
  PROVE  TypeOK'
BY CancelType, CloserToType DEF TypeOK, EntryType, CloseFails, HaTo, holdVars, HaPoints,
       EntryStates, FlagType, ListenersFire, shutVars, StartType, StartupPoints,
       Outcomes, ZoneType, zoneVars, ReadType, readVars, CloserType, CloserPoints,
       Closers, QueueType, queueVars, Callers

LEMMA RemovedType ==
  ASSUME TypeOK, NEW c \in Coords, Removed(c)
  PROVE  TypeOK'
BY CloserToType DEF TypeOK, EntryType, Removed, HaTo, HaPoints, EntryStates, FlagType,
       shutVars, StartType, taskVars, startVars, StartupPoints, Outcomes, ZoneType,
       zoneVars, ReadType, readVars, CloserType, CloserPoints, Closers, QueueType,
       queueVars, Callers

LEMMA ServiceCallsType ==
  ASSUME TypeOK, NEW s \in Services, ServiceCalls(s)
  PROVE  TypeOK'
BY CallType DEF TypeOK, EntryType, ServiceCalls, entryVars, HaPoints, EntryStates,
       FlagType, flagVars, StartType, startVars, StartupPoints, Outcomes, ZoneType,
       zoneVars, ReadType, CloserType, CloserPoints, Closers, QueueType, Callers

LEMMA ServiceReturnsType ==
  ASSUME TypeOK, NEW s \in Services, ServiceReturns(s)
  PROVE  TypeOK'
<1> USE DEF TypeOK
<1>1. EntryType'
  BY DEF EntryType, ServiceReturns, UseWorks, UseFails, entryVars, OwnersAfterFailure,
         HaPoints, EntryStates, ReadType
<1>2. FlagType'
  BY DEF FlagType, ServiceReturns, flagVars
<1>3. StartType'
  BY DEF StartType, ServiceReturns, startVars, StartupPoints, Outcomes
<1>4. ZoneType'
  BY DEF ZoneType, ServiceReturns, zoneVars
<1>5. ReadType'
  BY DEF ReadType, ServiceReturns
<1>6. CloserType'
  BY DEF CloserType, ServiceReturns, CloserPoints, Closers
<1>7. QueueType'
  BY ReturnType DEF QueueType, ServiceReturns, Callers, Closers, ReadType
<1>8. QED BY <1>1, <1>2, <1>3, <1>4, <1>5, <1>6, <1>7

LEMMA SetupBeginsType ==
  ASSUME TypeOK, SetupBegins
  PROVE  TypeOK'
BY DEF TypeOK, EntryType, SetupBegins, HaTo, holdVars, HaPoints, EntryStates, FlagType,
       flagVars, StartType, taskVars, startVars, StartupPoints, Outcomes, ZoneType,
       zoneVars, ReadType, readVars, CloserType, CloserPoints, Closers, QueueType,
       queueVars, Callers

LEMMA ReloadType ==
  ASSUME TypeOK, Reload
  PROVE  TypeOK'
BY CancelType DEF TypeOK, EntryType, Reload, holdVars, HaPoints, EntryStates, FlagType,
       ListenersFire, shutVars, StartType, StartupPoints, Outcomes, ZoneType, zoneVars,
       ReadType, readVars, CloserType, CloserPoints, Closers, QueueType, queueVars,
       Callers

LEMMA UnloadBeginsType ==
  ASSUME TypeOK, UnloadBegins
  PROVE  TypeOK'
BY CancelType DEF TypeOK, EntryType, UnloadBegins, HaTo, holdVars, HaPoints,
       EntryStates, FlagType, ListenersFire, shutVars, StartType, StartupPoints,
       Outcomes, ZoneType, zoneVars, ReadType, readVars, CloserType, CloserPoints,
       Closers, QueueType, queueVars, Callers

LEMMA RemoveBeginsType ==
  ASSUME TypeOK, RemoveBegins
  PROVE  TypeOK'
<1> USE DEF TypeOK
<1>1. EntryType'
  BY DEF EntryType, RemoveBegins, HaTo, holdVars, HaPoints, EntryStates
<1>2. FlagType'
  BY DEF FlagType, RemoveBegins, ListenersFire, shutVars
<1>3. StartType'
  BY CancelType DEF StartType, RemoveBegins, ListenersFire, startVars, StartupPoints,
         Outcomes, FlagType
<1>4. ZoneType'
  BY DEF ZoneType, RemoveBegins, zoneVars
<1>5. ReadType'
  BY DEF ReadType, RemoveBegins, readVars
<1>6. CloserType'
  BY DEF CloserType, RemoveBegins, CloserPoints, Closers
<1>7. QueueType'
  BY DEF QueueType, RemoveBegins, queueVars, Callers, Closers
<1>8. QED BY <1>1, <1>2, <1>3, <1>4, <1>5, <1>6, <1>7

LEMMA AddAgainType ==
  ASSUME TypeOK, AddAgain
  PROVE  TypeOK'
BY DEF TypeOK, EntryType, AddAgain, holdVars, HaPoints, EntryStates, FlagType, flagVars,
       StartType, taskVars, startVars, StartupPoints, Outcomes, ZoneType, zoneVars,
       ReadType, readVars, CloserType, CloserPoints, Closers, QueueType, queueVars,
       Callers

LEMMA RestartType ==
  ASSUME TypeOK, Restart
  PROVE  TypeOK'
BY DEF TypeOK, EntryType, Restart, HaTo, HaPoints, EntryStates, FlagType, StartType,
       StartupPoints, Outcomes, ZoneType, ReadType, CloserType, CloserPoints, Closers,
       QueueType, Callers

LEMMA StorageNotReadyType ==
  ASSUME TypeOK, StorageNotReady
  PROVE  TypeOK'
BY DEF TypeOK, EntryType, StorageNotReady, NotReady, HaTo, holdVars, HaPoints,
       EntryStates, FlagType, flagVars, StartType, startVars, StartupPoints, Outcomes,
       ZoneType, CancelZones, ReadType, readVars, CloserType, CloserPoints, Closers,
       QueueType, queueVars, Callers

LEMMA BeginReplaceType ==
  ASSUME TypeOK, BeginReplace
  PROVE  TypeOK'
<1> USE DEF TypeOK
<1>1. EntryType'
  BY DEF EntryType, BeginReplace, HaTo, holdVars, HaPoints, EntryStates
<1>2. FlagType'
  BY DEF FlagType, BeginReplace, StartClose, EntryType
<1>3. StartType'
  BY StartCloseType DEF StartType, BeginReplace, StartupPoints, Outcomes, Closers,
         EntryType
<1>4. ZoneType'
  BY DEF ZoneType, BeginReplace, zoneVars
<1>5. ReadType'
  BY DEF ReadType, BeginReplace, readVars
<1>6. CloserType'
  BY StartCloseType DEF CloserType, BeginReplace, CloserPoints, Closers, EntryType
<1>7. QueueType'
  BY DEF QueueType, BeginReplace, queueVars, Callers, Closers
<1>8. QED BY <1>1, <1>2, <1>3, <1>4, <1>5, <1>6, <1>7

LEMMA CallbacksEndType ==
  ASSUME TypeOK, CallbacksEnd
  PROVE  TypeOK'
<1> USE DEF TypeOK
<1>1. EntryType'
  BY DEF EntryType, CallbacksEnd, HaTo, holdVars, HaPoints, EntryStates
<1>2. FlagType'
  BY DEF FlagType, CallbacksEnd, ListenersFire, shutVars
<1>3. StartType'
  BY CancelType DEF StartType, CallbacksEnd, ListenersFire, startVars, StartupPoints,
         Outcomes, FlagType
<1>4. ZoneType'
  BY DEF ZoneType, CallbacksEnd, zoneVars
<1>5. ReadType'
  BY DEF ReadType, CallbacksEnd, readVars
<1>6. CloserType'
  BY DEF CloserType, CallbacksEnd, CloserPoints, Closers
<1>7. QueueType'
  BY DEF QueueType, CallbacksEnd, queueVars, Callers, Closers
<1>8. QED BY <1>1, <1>2, <1>3, <1>4, <1>5, <1>6, <1>7

LEMMA RemoveEntryType ==
  ASSUME TypeOK, RemoveEntry
  PROVE  TypeOK'
<1> USE DEF TypeOK
<1>1. EntryType'
  BY DEF EntryType, RemoveEntry, HaTo, holdVars, HaPoints, EntryStates
<1>2. FlagType'
  BY DEF FlagType, RemoveEntry, StartClose, EntryType
<1>3. StartType'
  BY StartCloseType DEF StartType, RemoveEntry, startVars, StartupPoints, Outcomes,
         Closers, EntryType
<1>4. ZoneType'
  BY DEF ZoneType, RemoveEntry, zoneVars
<1>5. ReadType'
  BY DEF ReadType, RemoveEntry, readVars
<1>6. CloserType'
  BY StartCloseType DEF CloserType, RemoveEntry, CloserPoints, Closers, EntryType
<1>7. QueueType'
  BY DEF QueueType, RemoveEntry, queueVars, Callers, Closers
<1>8. QED BY <1>1, <1>2, <1>3, <1>4, <1>5, <1>6, <1>7

-----------------------------------------------------------------------------
(* Each action preserves the inductive invariant.                          *)

LEMMA StartupRunsKeeps ==
  ASSUME TypeOK, EntryInv, NEW c \in Coords, StartupRuns(c)
  PROVE  EntryInv'
BY DEF TypeOK, EntryInv, RuntimeLives, ShutdownJoined, HandlerHolds, NoResultYet,
       LoadedIsLive, Live, StartupRuns, entryVars, flagVars, EntryType, FlagType,
       StartType, CloserType, Closers

LEMMA StartupConnectsKeeps ==
  ASSUME TypeOK, EntryInv, NEW c \in Coords, StartupConnects(c)
  PROVE  EntryInv'
BY DEF TypeOK, EntryInv, RuntimeLives, ShutdownJoined, HandlerHolds, NoResultYet,
       LoadedIsLive, Live, StartupConnects, entryVars, flagVars, EntryType, FlagType,
       StartType, CloserType, Closers

LEMMA StartupReadsKeeps ==
  ASSUME TypeOK, EntryInv, NEW c \in Coords, StartupReads(c)
  PROVE  EntryInv'
BY DEF TypeOK, EntryInv, RuntimeLives, ShutdownJoined, HandlerHolds, NoResultYet,
       LoadedIsLive, Live, StartupReads, entryVars, flagVars, taskVars, startVars,
       EntryType, FlagType, StartType, CloserType, Closers

LEMMA StartupSucceedsKeeps ==
  ASSUME TypeOK, EntryInv, NEW c \in Coords, StartupSucceeds(c)
  PROVE  EntryInv'
BY DEF TypeOK, EntryInv, RuntimeLives, ShutdownJoined, HandlerHolds, NoResultYet,
       LoadedIsLive, Live, StartupSucceeds, entryVars, flagVars, EntryType, FlagType,
       StartType, CloserType, Closers

LEMMA StartupFailsKeeps ==
  ASSUME TypeOK, EntryInv, NEW c \in Coords, StartupFails(c)
  PROVE  EntryInv'
BY DEF TypeOK, EntryInv, RuntimeLives, ShutdownJoined, HandlerHolds, NoResultYet,
       LoadedIsLive, Live, StartupFails, entryVars, flagVars, EntryType, FlagType,
       StartType, CloserType, Closers

LEMMA StartupCleansUpKeeps ==
  ASSUME TypeOK, EntryInv, NEW c \in Coords, StartupCleansUp(c)
  PROVE  EntryInv'
BY DEF TypeOK, EntryInv, RuntimeLives, ShutdownJoined, HandlerHolds, NoResultYet,
       LoadedIsLive, Live, StartupCleansUp, StartupEnds, entryVars, shutVars, EntryType,
       FlagType, StartType, CloserType, Closers

LEMMA StartupCleanupFailsKeeps ==
  ASSUME TypeOK, EntryInv, NEW c \in Coords, StartupCleanupFails(c)
  PROVE  EntryInv'
BY DEF TypeOK, EntryInv, RuntimeLives, ShutdownJoined, HandlerHolds, NoResultYet,
       LoadedIsLive, Live, StartupCleanupFails, StartupEnds, entryVars, shutVars,
       EntryType, FlagType, StartType, CloserType, Closers

LEMMA StartupBudgetKeeps ==
  ASSUME TypeOK, EntryInv, NEW c \in Coords, StartupBudget(c)
  PROVE  EntryInv'
<1> USE DEF TypeOK, EntryInv
<1>1. RuntimeLives'
  BY DEF RuntimeLives, Live, StartupBudget, entryVars, EntryType, StartType, Closers
<1>2. ShutdownJoined'
  BY DEF ShutdownJoined, Live, StartupBudget, shutVars, FlagType, StartType, CloserType,
         Closers
<1>3. HandlerHolds'
  BY DEF HandlerHolds, Live, StartupBudget, entryVars, shutVars, EntryType, StartType,
         Closers
<1>4. NoResultYet'
  BY DEF NoResultYet, Live, StartupBudget, StartType, Closers
<1>5. LoadedIsLive'
  BY DEF LoadedIsLive, Live, StartupBudget, entryVars, shutVars, EntryType, StartType,
         Closers
<1>6. QED BY <1>1, <1>2, <1>3, <1>4, <1>5

LEMMA StartupInterruptedKeeps ==
  ASSUME TypeOK, EntryInv, NEW c \in Coords, StartupInterrupted(c)
  PROVE  EntryInv'
<1> USE DEF TypeOK, EntryInv
<1>1. RuntimeLives'
  BY DEF RuntimeLives, Live, StartupInterrupted, entryVars, EntryType, StartType,
         Closers
<1>2. ShutdownJoined'
  BY DEF ShutdownJoined, Live, StartupInterrupted, shutVars, FlagType, StartType,
         CloserType, Closers
<1>3. HandlerHolds'
  BY DEF HandlerHolds, Live, StartupInterrupted, entryVars, shutVars, EntryType,
         StartType, Closers
<1>4. NoResultYet'
  BY DEF NoResultYet, Live, StartupInterrupted, StartType, Closers
<1>5. LoadedIsLive'
  BY DEF LoadedIsLive, Live, StartupInterrupted, entryVars, shutVars, EntryType,
         StartType, Closers
<1>6. QED BY <1>1, <1>2, <1>3, <1>4, <1>5

LEMMA ZoneWakesKeeps ==
  ASSUME TypeOK, EntryInv, NEW c \in Coords, NEW z \in ZoneTasks, ZoneWakes(c, z)
  PROVE  EntryInv'
BY DEF TypeOK, EntryInv, RuntimeLives, ShutdownJoined, HandlerHolds, NoResultYet,
       LoadedIsLive, Live, ZoneWakes, entryVars, flagVars, startVars, EntryType,
       FlagType, StartType, CloserType, Closers

LEMMA ZoneReadsKeeps ==
  ASSUME TypeOK, EntryInv, NEW c \in Coords, NEW z \in ZoneTasks, ZoneReads(c, z)
  PROVE  EntryInv'
BY DEF TypeOK, EntryInv, RuntimeLives, ShutdownJoined, HandlerHolds, NoResultYet,
       LoadedIsLive, Live, ZoneReads, entryVars, flagVars, taskVars, startVars,
       EntryType, FlagType, StartType, CloserType, Closers

LEMMA ZonePassEndsKeeps ==
  ASSUME TypeOK, EntryInv, NEW c \in Coords, NEW z \in ZoneTasks, ZonePassEnds(c, z)
  PROVE  EntryInv'
BY DEF TypeOK, EntryInv, RuntimeLives, ShutdownJoined, HandlerHolds, NoResultYet,
       LoadedIsLive, Live, ZonePassEnds, entryVars, flagVars, startVars, EntryType,
       FlagType, StartType, CloserType, Closers

LEMMA ZoneInterruptedKeeps ==
  ASSUME TypeOK, EntryInv, NEW c \in Coords, NEW z \in ZoneTasks, ZoneInterrupted(c, z)
  PROVE  EntryInv'
BY DEF TypeOK, EntryInv, RuntimeLives, ShutdownJoined, HandlerHolds, NoResultYet,
       LoadedIsLive, Live, ZoneInterrupted, entryVars, flagVars, startVars, EntryType,
       FlagType, StartType, CloserType, Closers

LEMMA ReadBeginsKeeps ==
  ASSUME TypeOK, EntryInv, NEW c \in Coords, NEW w \in Readers, ReadBegins(c, w)
  PROVE  EntryInv'
BY DEF TypeOK, EntryInv, RuntimeLives, ShutdownJoined, HandlerHolds, NoResultYet,
       LoadedIsLive, Live, ReadBegins, entryVars, flagVars, startVars, EntryType,
       FlagType, StartType, CloserType, Closers

LEMMA ReadReturnsKeeps ==
  ASSUME TypeOK, EntryInv, NEW c \in Coords, NEW w \in Readers, ReadReturns(c, w)
  PROVE  EntryInv'
BY DEF TypeOK, EntryInv, RuntimeLives, ShutdownJoined, HandlerHolds, NoResultYet,
       LoadedIsLive, Live, ReadReturns, entryVars, flagVars, startVars, EntryType,
       FlagType, StartType, CloserType, Closers

LEMMA CloserJoinsKeeps ==
  ASSUME TypeOK, EntryInv, NEW c \in Coords, NEW k \in Closers, CloserJoins(c, k)
  PROVE  EntryInv'
BY DEF TypeOK, EntryInv, RuntimeLives, ShutdownJoined, HandlerHolds, NoResultYet,
       LoadedIsLive, Live, CloserJoins, CloserTo, entryVars, flagVars, taskVars,
       startVars, EntryType, FlagType, StartType, CloserType, Closers

LEMMA CloserJoinTimeoutKeeps ==
  ASSUME TypeOK, EntryInv, NEW c \in Coords, NEW k \in Closers, CloserJoinTimeout(c, k)
  PROVE  EntryInv'
BY DEF TypeOK, EntryInv, RuntimeLives, ShutdownJoined, HandlerHolds, NoResultYet,
       LoadedIsLive, Live, CloserJoinTimeout, CancelStartups, CloserTo, entryVars,
       flagVars, EntryType, FlagType, StartType, CloserType, Closers

LEMMA CloserPreStopsKeeps ==
  ASSUME TypeOK, EntryInv, NEW c \in Coords, NEW k \in Closers, CloserPreStops(c, k)
  PROVE  EntryInv'
BY DEF TypeOK, EntryInv, RuntimeLives, ShutdownJoined, HandlerHolds, NoResultYet,
       LoadedIsLive, Live, CloserPreStops, CloserTo, entryVars, flagVars, startVars,
       EntryType, FlagType, StartType, CloserType, Closers

LEMMA CloserPreStoppedKeeps ==
  ASSUME TypeOK, EntryInv, NEW c \in Coords, NEW k \in Closers, CloserPreStopped(c, k)
  PROVE  EntryInv'
BY DEF TypeOK, EntryInv, RuntimeLives, ShutdownJoined, HandlerHolds, NoResultYet,
       LoadedIsLive, Live, CloserPreStopped, CloserTo, entryVars, flagVars, startVars,
       EntryType, FlagType, StartType, CloserType, Closers

LEMMA CloserPreStopFailsKeeps ==
  ASSUME TypeOK, EntryInv, NEW c \in Coords, NEW k \in Closers, CloserPreStopFails(c, k)
  PROVE  EntryInv'
BY DEF TypeOK, EntryInv, RuntimeLives, ShutdownJoined, HandlerHolds, NoResultYet,
       LoadedIsLive, Live, CloserPreStopFails, CloserTo, entryVars, shutVars, taskVars,
       startVars, EntryType, FlagType, StartType, CloserType, Closers

LEMMA CloserJoinsZonesKeeps ==
  ASSUME TypeOK, EntryInv, NEW c \in Coords, NEW k \in Closers, CloserJoinsZones(c, k)
  PROVE  EntryInv'
BY DEF TypeOK, EntryInv, RuntimeLives, ShutdownJoined, HandlerHolds, NoResultYet,
       LoadedIsLive, Live, CloserJoinsZones, CloserTo, entryVars, flagVars, startVars,
       EntryType, FlagType, StartType, CloserType, Closers

LEMMA CloserJoinsPollersKeeps ==
  ASSUME TypeOK, EntryInv, NEW c \in Coords, NEW k \in Closers, CloserJoinsPollers(c, k)
  PROVE  EntryInv'
BY DEF TypeOK, EntryInv, RuntimeLives, ShutdownJoined, HandlerHolds, NoResultYet,
       LoadedIsLive, Live, CloserJoinsPollers, CloserTo, entryVars, flagVars, taskVars,
       startVars, EntryType, FlagType, StartType, CloserType, Closers

LEMMA CloserPollersTimeoutKeeps ==
  ASSUME TypeOK, EntryInv, NEW c \in Coords, NEW k \in Closers, CloserPollersTimeout(c, k)
  PROVE  EntryInv'
BY DEF TypeOK, EntryInv, RuntimeLives, ShutdownJoined, HandlerHolds, NoResultYet,
       LoadedIsLive, Live, CloserPollersTimeout, CloserTo, entryVars, flagVars,
       taskVars, startVars, EntryType, FlagType, StartType, CloserType, Closers

LEMMA CloserStoppedKeeps ==
  ASSUME TypeOK, EntryInv, NEW c \in Coords, NEW k \in Closers, CloserStopped(c, k)
  PROVE  EntryInv'
BY DEF TypeOK, EntryInv, RuntimeLives, ShutdownJoined, HandlerHolds, NoResultYet,
       LoadedIsLive, Live, CloserStopped, CloserTo, entryVars, taskVars, startVars,
       EntryType, FlagType, StartType, CloserType, Closers

LEMMA CloserStopFailsKeeps ==
  ASSUME TypeOK, EntryInv, NEW c \in Coords, NEW k \in Closers, CloserStopFails(c, k)
  PROVE  EntryInv'
BY DEF TypeOK, EntryInv, RuntimeLives, ShutdownJoined, HandlerHolds, NoResultYet,
       LoadedIsLive, Live, CloserStopFails, CloserTo, entryVars, flagVars, taskVars,
       startVars, EntryType, FlagType, StartType, CloserType, Closers

LEMMA CleanupEndsKeeps ==
  ASSUME TypeOK, EntryInv, NEW c \in Coords, CleanupEnds(c)
  PROVE  EntryInv'
BY DEF TypeOK, EntryInv, RuntimeLives, ShutdownJoined, HandlerHolds, NoResultYet,
       LoadedIsLive, Live, CleanupEnds, CloserTo, holdVars, shutVars, taskVars,
       startVars, EntryType, FlagType, StartType, CloserType, Closers

LEMMA JoinCancelledKeeps ==
  ASSUME TypeOK, EntryInv, NEW c \in Coords, JoinCancelled(c)
  PROVE  EntryInv'
BY DEF TypeOK, EntryInv, RuntimeLives, ShutdownJoined, HandlerHolds, NoResultYet,
       LoadedIsLive, Live, JoinCancelled, HaTo, Reused, holdVars, shutVars, taskVars,
       startVars, EntryType, FlagType, StartType, CloserType, Closers

LEMMA WaitSliceKeeps ==
  ASSUME TypeOK, EntryInv, NEW c \in Coords, WaitSlice(c)
  PROVE  EntryInv'
BY DEF TypeOK, EntryInv, RuntimeLives, ShutdownJoined, HandlerHolds, NoResultYet,
       LoadedIsLive, Live, WaitSlice, HaTo, Reused, holdVars, shutVars, taskVars,
       startVars, EntryType, FlagType, StartType, CloserType, Closers

LEMMA FenceFirstKeeps ==
  ASSUME TypeOK, EntryInv, NEW c \in Coords, FenceFirst(c)
  PROVE  EntryInv'
BY DEF TypeOK, EntryInv, RuntimeLives, ShutdownJoined, HandlerHolds, NoResultYet,
       LoadedIsLive, Live, FenceFirst, HaTo, Reused, holdVars, shutVars, taskVars,
       startVars, EntryType, FlagType, StartType, CloserType, Closers

LEMMA StartOverKeeps ==
  ASSUME TypeOK, EntryInv, NEW c \in Coords, StartOver(c)
  PROVE  EntryInv'
BY DEF TypeOK, EntryInv, RuntimeLives, ShutdownJoined, HandlerHolds, NoResultYet,
       LoadedIsLive, Live, StartOver, NewStartup, HaTo, Reused, holdVars, shutVars,
       EntryType, FlagType, StartType, CloserType, Closers

LEMMA UseResultKeeps ==
  ASSUME TypeOK, EntryInv, NEW c \in Coords, UseResult(c)
  PROVE  EntryInv'
BY DEF TypeOK, EntryInv, RuntimeLives, ShutdownJoined, HandlerHolds, NoResultYet,
       LoadedIsLive, Live, UseResult, HaTo, SetupFails, StartClose, CancelStartups,
       CloserTo, Reused, startVars, EntryType, FlagType, StartType, CloserType, Closers

LEMMA JoinedKeeps ==
  ASSUME TypeOK, EntryInv, NEW c \in Coords, Joined(c)
  PROVE  EntryInv'
BY DEF TypeOK, EntryInv, RuntimeLives, ShutdownJoined, HandlerHolds, NoResultYet,
       LoadedIsLive, Live, Joined, HaTo, NewStartup, startVars, holdVars, shutVars,
       EntryType, FlagType, StartType, CloserType, Closers

LEMMA JoinTimeoutKeeps ==
  ASSUME TypeOK, EntryInv, NEW c \in Coords, JoinTimeout(c)
  PROVE  EntryInv'
BY DEF TypeOK, EntryInv, RuntimeLives, ShutdownJoined, HandlerHolds, NoResultYet,
       LoadedIsLive, Live, JoinTimeout, CancelStartups, NotReady, HaTo, flagVars,
       holdVars, EntryType, FlagType, StartType, CloserType, Closers

LEMMA FenceWorksKeeps ==
  ASSUME TypeOK, EntryInv, NEW c \in Coords, FenceWorks(c)
  PROVE  EntryInv'
BY DEF TypeOK, EntryInv, RuntimeLives, ShutdownJoined, HandlerHolds, NoResultYet,
       LoadedIsLive, Live, FenceWorks, NewStartup, HaTo, shutVars, EntryType, FlagType,
       StartType, CloserType, Closers

LEMMA FenceFailsKeeps ==
  ASSUME TypeOK, EntryInv, NEW c \in Coords, FenceFails(c)
  PROVE  EntryInv'
BY DEF TypeOK, EntryInv, RuntimeLives, ShutdownJoined, HandlerHolds, NoResultYet,
       LoadedIsLive, Live, FenceFails, NotReady, HaTo, startVars, shutVars, EntryType,
       FlagType, StartType, CloserType, Closers

LEMMA SliceEndsKeeps ==
  ASSUME TypeOK, EntryInv, NEW c \in Coords, SliceEnds(c)
  PROVE  EntryInv'
BY DEF TypeOK, EntryInv, RuntimeLives, ShutdownJoined, HandlerHolds, NoResultYet,
       LoadedIsLive, Live, SliceEnds, HaTo, NotReady, SetupFails, StartClose,
       CancelStartups, CloserTo, startVars, EntryType, FlagType, StartType, CloserType,
       Closers

LEMMA SliceTimeoutKeeps ==
  ASSUME TypeOK, EntryInv, NEW c \in Coords, SliceTimeout(c)
  PROVE  EntryInv'
BY DEF TypeOK, EntryInv, RuntimeLives, ShutdownJoined, HandlerHolds, NoResultYet,
       LoadedIsLive, Live, SliceTimeout, NotReady, HaTo, flagVars, startVars, holdVars,
       EntryType, FlagType, StartType, CloserType, Closers

LEMMA ProvedKeeps ==
  ASSUME TypeOK, EntryInv, NEW c \in Coords, Proved(c)
  PROVE  EntryInv'
BY DEF TypeOK, EntryInv, RuntimeLives, ShutdownJoined, HandlerHolds, NoResultYet,
       LoadedIsLive, Live, Proved, HaTo, CloserTo, holdVars, shutVars, taskVars,
       startVars, EntryType, FlagType, StartType, CloserType, Closers

LEMMA ProofFailsKeeps ==
  ASSUME TypeOK, EntryInv, NEW c \in Coords, ProofFails(c)
  PROVE  EntryInv'
BY DEF TypeOK, EntryInv, RuntimeLives, ShutdownJoined, HandlerHolds, NoResultYet,
       LoadedIsLive, Live, ProofFails, NotReady, HaTo, CloserTo, flagVars, startVars,
       holdVars, EntryType, FlagType, StartType, CloserType, Closers

LEMMA ProofTimeoutKeeps ==
  ASSUME TypeOK, EntryInv, NEW c \in Coords, ProofTimeout(c)
  PROVE  EntryInv'
BY DEF TypeOK, EntryInv, RuntimeLives, ShutdownJoined, HandlerHolds, NoResultYet,
       LoadedIsLive, Live, ProofTimeout, CancelStartups, NotReady, HaTo, CloserTo,
       flagVars, startVars, holdVars, EntryType, FlagType, StartType, CloserType,
       Closers

LEMMA CreateKeeps ==
  ASSUME TypeOK, EntryInv, NEW c \in Coords, Create(c)
  PROVE  EntryInv'
BY DEF TypeOK, EntryInv, RuntimeLives, ShutdownJoined, HandlerHolds, NoResultYet,
       LoadedIsLive, Live, Create, NewStartup, HaTo, Unused, EntryType, FlagType,
       StartType, CloserType, Closers

LEMMA LoadsKeeps ==
  ASSUME TypeOK, EntryInv, NEW c \in Coords, Loads(c)
  PROVE  EntryInv'
BY DEF TypeOK, EntryInv, RuntimeLives, ShutdownJoined, HandlerHolds, NoResultYet,
       LoadedIsLive, Live, Loads, HaTo, holdVars, shutVars, taskVars, startVars,
       EntryType, FlagType, StartType, CloserType, Closers

LEMMA ForwardFailsKeeps ==
  ASSUME TypeOK, EntryInv, NEW c \in Coords, ForwardFails(c)
  PROVE  EntryInv'
BY DEF TypeOK, EntryInv, RuntimeLives, ShutdownJoined, HandlerHolds, NoResultYet,
       LoadedIsLive, Live, ForwardFails, SetupFails, HaTo, StartClose, CancelStartups,
       CloserTo, startVars, holdVars, EntryType, FlagType, StartType, CloserType,
       Closers

LEMMA PlatformsUnloadKeeps ==
  ASSUME TypeOK, EntryInv, NEW c \in Coords, PlatformsUnload(c)
  PROVE  EntryInv'
BY DEF TypeOK, EntryInv, RuntimeLives, ShutdownJoined, HandlerHolds, NoResultYet,
       LoadedIsLive, Live, PlatformsUnload, HaTo, StartClose, CancelStartups, CloserTo,
       startVars, EntryType, FlagType, StartType, CloserType, Closers

LEMMA PlatformsStayKeeps ==
  ASSUME TypeOK, EntryInv, NEW c \in Coords, PlatformsStay(c)
  PROVE  EntryInv'
BY DEF TypeOK, EntryInv, RuntimeLives, ShutdownJoined, HandlerHolds, NoResultYet,
       LoadedIsLive, Live, PlatformsStay, HaTo, ListenersFire, CancelStartups, holdVars,
       shutVars, EntryType, FlagType, StartType, CloserType, Closers

LEMMA ClosedKeeps ==
  ASSUME TypeOK, EntryInv, NEW c \in Coords, Closed(c)
  PROVE  EntryInv'
BY DEF TypeOK, EntryInv, RuntimeLives, ShutdownJoined, HandlerHolds, NoResultYet,
       LoadedIsLive, Live, Closed, HaTo, CloserTo, startVars, holdVars, shutVars,
       EntryType, FlagType, StartType, CloserType, Closers

LEMMA CloseFailsKeeps ==
  ASSUME TypeOK, EntryInv, NEW c \in Coords, CloseFails(c)
  PROVE  EntryInv'
BY DEF TypeOK, EntryInv, RuntimeLives, ShutdownJoined, HandlerHolds, NoResultYet,
       LoadedIsLive, Live, CloseFails, HaTo, ListenersFire, CancelStartups, CloserTo,
       holdVars, shutVars, EntryType, FlagType, StartType, CloserType, Closers

LEMMA RemovedKeeps ==
  ASSUME TypeOK, EntryInv, NEW c \in Coords, Removed(c)
  PROVE  EntryInv'
BY DEF TypeOK, EntryInv, RuntimeLives, ShutdownJoined, HandlerHolds, NoResultYet,
       LoadedIsLive, Live, Removed, HaTo, CloserTo, shutVars, taskVars, startVars,
       EntryType, FlagType, StartType, CloserType, Closers

LEMMA ServiceCallsKeeps ==
  ASSUME TypeOK, EntryInv, NEW s \in Services, ServiceCalls(s)
  PROVE  EntryInv'
BY DEF TypeOK, EntryInv, RuntimeLives, ShutdownJoined, HandlerHolds, NoResultYet,
       LoadedIsLive, Live, ServiceCalls, entryVars, flagVars, startVars, EntryType,
       FlagType, StartType, CloserType, Closers

LEMMA ServiceReturnsKeeps ==
  ASSUME TypeOK, EntryInv, NEW s \in Services, ServiceReturns(s)
  PROVE  EntryInv'
BY DEF TypeOK, EntryInv, RuntimeLives, ShutdownJoined, HandlerHolds, NoResultYet,
       LoadedIsLive, Live, ServiceReturns, entryVars, flagVars, startVars, EntryType,
       FlagType, StartType, CloserType, Closers

LEMMA SetupBeginsKeeps ==
  ASSUME TypeOK, EntryInv, SetupBegins
  PROVE  EntryInv'
BY DEF TypeOK, EntryInv, RuntimeLives, ShutdownJoined, HandlerHolds, NoResultYet,
       LoadedIsLive, Live, SetupBegins, HaTo, flagVars, holdVars, taskVars, startVars,
       EntryType, FlagType, StartType, CloserType, Closers

LEMMA ReloadKeeps ==
  ASSUME TypeOK, EntryInv, Reload
  PROVE  EntryInv'
BY DEF TypeOK, EntryInv, RuntimeLives, ShutdownJoined, HandlerHolds, NoResultYet,
       LoadedIsLive, Live, Reload, ListenersFire, CancelStartups, holdVars, shutVars,
       EntryType, FlagType, StartType, CloserType, Closers

LEMMA UnloadBeginsKeeps ==
  ASSUME TypeOK, EntryInv, UnloadBegins
  PROVE  EntryInv'
BY DEF TypeOK, EntryInv, RuntimeLives, ShutdownJoined, HandlerHolds, NoResultYet,
       LoadedIsLive, Live, UnloadBegins, HaTo, ListenersFire, CancelStartups, holdVars,
       shutVars, EntryType, FlagType, StartType, CloserType, Closers

LEMMA RemoveBeginsKeeps ==
  ASSUME TypeOK, EntryInv, RemoveBegins
  PROVE  EntryInv'
BY DEF TypeOK, EntryInv, RuntimeLives, ShutdownJoined, HandlerHolds, NoResultYet,
       LoadedIsLive, Live, RemoveBegins, HaTo, ListenersFire, CancelStartups, startVars,
       holdVars, shutVars, EntryType, FlagType, StartType, CloserType, Closers

LEMMA AddAgainKeeps ==
  ASSUME TypeOK, EntryInv, AddAgain
  PROVE  EntryInv'
BY DEF TypeOK, EntryInv, RuntimeLives, ShutdownJoined, HandlerHolds, NoResultYet,
       LoadedIsLive, Live, AddAgain, flagVars, holdVars, taskVars, startVars, EntryType,
       FlagType, StartType, CloserType, Closers

LEMMA RestartKeeps ==
  ASSUME TypeOK, EntryInv, Restart
  PROVE  EntryInv'
BY DEF TypeOK, EntryInv, RuntimeLives, ShutdownJoined, HandlerHolds, NoResultYet,
       LoadedIsLive, Live, Restart, HaTo, EntryType, FlagType, StartType, CloserType,
       Closers

LEMMA StorageNotReadyKeeps ==
  ASSUME TypeOK, EntryInv, StorageNotReady
  PROVE  EntryInv'
BY DEF TypeOK, EntryInv, RuntimeLives, ShutdownJoined, HandlerHolds, NoResultYet,
       LoadedIsLive, Live, StorageNotReady, NotReady, HaTo, flagVars, startVars,
       holdVars, EntryType, FlagType, StartType, CloserType, Closers

LEMMA BeginReplaceKeeps ==
  ASSUME TypeOK, EntryInv, BeginReplace
  PROVE  EntryInv'
BY DEF TypeOK, EntryInv, RuntimeLives, ShutdownJoined, HandlerHolds, NoResultYet,
       LoadedIsLive, Live, BeginReplace, HaTo, StartClose, CancelStartups, CloserTo,
       startVars, holdVars, EntryType, FlagType, StartType, CloserType, Closers

LEMMA CallbacksEndKeeps ==
  ASSUME TypeOK, EntryInv, CallbacksEnd
  PROVE  EntryInv'
BY DEF TypeOK, EntryInv, RuntimeLives, ShutdownJoined, HandlerHolds, NoResultYet,
       LoadedIsLive, Live, CallbacksEnd, HaTo, ListenersFire, CancelStartups, startVars,
       holdVars, shutVars, EntryType, FlagType, StartType, CloserType, Closers

LEMMA RemoveEntryKeeps ==
  ASSUME TypeOK, EntryInv, RemoveEntry
  PROVE  EntryInv'
BY DEF TypeOK, EntryInv, RuntimeLives, ShutdownJoined, HandlerHolds, NoResultYet,
       LoadedIsLive, Live, RemoveEntry, HaTo, StartClose, CancelStartups, CloserTo,
       startVars, holdVars, EntryType, FlagType, StartType, CloserType, Closers

-----------------------------------------------------------------------------
(* The theorems.                                                           *)

LEMMA TypeStep == TypeOK /\ [Next]_vars => TypeOK'
<1> SUFFICES ASSUME TypeOK, [Next]_vars PROVE TypeOK'
  OBVIOUS
<1>1. CASE UNCHANGED vars
  BY <1>1 DEF TypeOK, EntryType, FlagType, StartType, ZoneType, ReadType, CloserType,
     QueueType, vars, entryVars, flagVars, startVars, zoneVars, readVars, queueVars
<1>2. CASE Next
  <2>1. CASE UserStep \/ Restart
    BY <2>1, <1>2, SetupBeginsType, ReloadType, UnloadBeginsType, RemoveBeginsType,
       AddAgainType, RestartType DEF UserStep
  <2>2. CASE StorageNotReady \/ BeginReplace \/ CallbacksEnd \/ RemoveEntry
    BY <2>2, <1>2, StorageNotReadyType, BeginReplaceType, CallbacksEndType,
       RemoveEntryType
  <2>3. CASE \E c \in Coords : WaitStep(c)
    BY <2>3, <1>2, JoinCancelledType, WaitSliceType, FenceFirstType, StartOverType,
       UseResultType, JoinedType, JoinTimeoutType, FenceWorksType, FenceFailsType,
       SliceEndsType, SliceTimeoutType DEF WaitStep
  <2>4. CASE \E c \in Coords : EntryStep(c)
    BY <2>4, <1>2, ProvedType, ProofFailsType, ProofTimeoutType, CreateType, LoadsType,
       ForwardFailsType, PlatformsUnloadType, PlatformsStayType, ClosedType,
       CloseFailsType, RemovedType DEF EntryStep
  <2>5. CASE \E c \in Coords : StartupStep(c) \/ CleanupEnds(c)
    BY <2>5, <1>2, StartupRunsType, StartupConnectsType, StartupReadsType,
       StartupSucceedsType, StartupFailsType, StartupCleansUpType,
       StartupCleanupFailsType, StartupBudgetType, StartupInterruptedType,
       CleanupEndsType DEF StartupStep
  <2>6. CASE \E c \in Coords, z \in ZoneTasks : ZoneStep(c, z)
    BY <2>6, <1>2, ZoneWakesType, ZoneReadsType, ZonePassEndsType, ZoneInterruptedType
       DEF ZoneStep
  <2>7. CASE \E c \in Coords, w \in Readers : ReadBegins(c, w) \/ ReadReturns(c, w)
    BY <2>7, <1>2, ReadBeginsType, ReadReturnsType
  <2>8. CASE \E c \in Coords, k \in Closers : CloserStep(c, k)
    BY <2>8, <1>2, CloserJoinsType, CloserJoinTimeoutType, CloserPreStopsType,
       CloserPreStoppedType, CloserPreStopFailsType, CloserJoinsZonesType,
       CloserJoinsPollersType, CloserPollersTimeoutType, CloserStoppedType,
       CloserStopFailsType DEF CloserStep
  <2>9. CASE \E s \in Services : ServiceCalls(s) \/ ServiceReturns(s)
    BY <2>9, <1>2, ServiceCallsType, ServiceReturnsType
  <2>10. QED BY <1>2, <2>1, <2>2, <2>3, <2>4, <2>5, <2>6, <2>7, <2>8, <2>9 DEF Next,
     HandlerStep
<1>3. QED BY <1>1, <1>2

(* Every variable keeps its type: the states of the entry, the points at   *)
(* which tasks await and the claim stay within what the code can show.     *)
THEOREM TypeCorrect == Spec => []TypeOK
<1>1. Init => TypeOK
  BY DEF Init, TypeOK, EntryType, FlagType, StartType, ZoneType, ReadType, CloserType,
     QueueType, EntryStates, HaPoints, StartupPoints, Outcomes, CloserPoints
<1>2. QED BY <1>1, TypeStep, PTL DEF Spec

LEMMA InvStep == TypeOK /\ EntryInv /\ [Next]_vars => EntryInv'
<1> SUFFICES ASSUME TypeOK, EntryInv, [Next]_vars PROVE EntryInv'
  OBVIOUS
<1>1. CASE UNCHANGED vars
  BY <1>1 DEF EntryInv, RuntimeLives, ShutdownJoined, HandlerHolds, NoResultYet,
     LoadedIsLive, Live, vars, entryVars, flagVars, startVars
<1>2. CASE Next
  <2>1. CASE UserStep \/ Restart
    BY <2>1, <1>2, SetupBeginsKeeps, ReloadKeeps, UnloadBeginsKeeps, RemoveBeginsKeeps,
       AddAgainKeeps, RestartKeeps DEF UserStep
  <2>2. CASE StorageNotReady \/ BeginReplace \/ CallbacksEnd \/ RemoveEntry
    BY <2>2, <1>2, StorageNotReadyKeeps, BeginReplaceKeeps, CallbacksEndKeeps,
       RemoveEntryKeeps
  <2>3. CASE \E c \in Coords : WaitStep(c)
    BY <2>3, <1>2, JoinCancelledKeeps, WaitSliceKeeps, FenceFirstKeeps, StartOverKeeps,
       UseResultKeeps, JoinedKeeps, JoinTimeoutKeeps, FenceWorksKeeps, FenceFailsKeeps,
       SliceEndsKeeps, SliceTimeoutKeeps DEF WaitStep
  <2>4. CASE \E c \in Coords : EntryStep(c)
    BY <2>4, <1>2, ProvedKeeps, ProofFailsKeeps, ProofTimeoutKeeps, CreateKeeps,
       LoadsKeeps, ForwardFailsKeeps, PlatformsUnloadKeeps, PlatformsStayKeeps,
       ClosedKeeps, CloseFailsKeeps, RemovedKeeps DEF EntryStep
  <2>5. CASE \E c \in Coords : StartupStep(c) \/ CleanupEnds(c)
    BY <2>5, <1>2, StartupRunsKeeps, StartupConnectsKeeps, StartupReadsKeeps,
       StartupSucceedsKeeps, StartupFailsKeeps, StartupCleansUpKeeps,
       StartupCleanupFailsKeeps, StartupBudgetKeeps, StartupInterruptedKeeps,
       CleanupEndsKeeps DEF StartupStep
  <2>6. CASE \E c \in Coords, z \in ZoneTasks : ZoneStep(c, z)
    BY <2>6, <1>2, ZoneWakesKeeps, ZoneReadsKeeps, ZonePassEndsKeeps,
       ZoneInterruptedKeeps DEF ZoneStep
  <2>7. CASE \E c \in Coords, w \in Readers : ReadBegins(c, w) \/ ReadReturns(c, w)
    BY <2>7, <1>2, ReadBeginsKeeps, ReadReturnsKeeps
  <2>8. CASE \E c \in Coords, k \in Closers : CloserStep(c, k)
    BY <2>8, <1>2, CloserJoinsKeeps, CloserJoinTimeoutKeeps, CloserPreStopsKeeps,
       CloserPreStoppedKeeps, CloserPreStopFailsKeeps, CloserJoinsZonesKeeps,
       CloserJoinsPollersKeeps, CloserPollersTimeoutKeeps, CloserStoppedKeeps,
       CloserStopFailsKeeps DEF CloserStep
  <2>9. CASE \E s \in Services : ServiceCalls(s) \/ ServiceReturns(s)
    BY <2>9, <1>2, ServiceCallsKeeps, ServiceReturnsKeeps
  <2>10. QED BY <1>2, <2>1, <2>2, <2>3, <2>4, <2>5, <2>6, <2>7, <2>8, <2>9 DEF Next,
     HandlerStep
<1>3. QED BY <1>1, <1>2

(* The inductive invariant: a live startup belongs to the runtime data, a  *)
(* shutdown that has joined it leaves none behind, and a setup that waits  *)
(* holds a coordinator nobody shuts down.                                  *)
THEOREM EntrySafe == Spec => []EntryInv
<1>1. Init => EntryInv
  BY DEF Init, EntryInv, RuntimeLives, ShutdownJoined, HandlerHolds, NoResultYet,
     LoadedIsLive, Live, Closers
<1>2. QED BY <1>1, InvStep, TypeCorrect, PTL DEF Spec

(* However setups, reloads, unloads and removals interleave, two startup   *)
(* tasks of one entry are never alive together.                            *)
THEOREM StartupsAlone == Spec => []OneLiveStartup
<1>1. EntryInv => OneLiveStartup
  BY DEF EntryInv, RuntimeLives, OneLiveStartup
<1>2. QED BY <1>1, EntrySafe, PTL

(* A loaded entry serves a coordinator that has started and that no late   *)
(* cleanup of an earlier setup shuts down.                                 *)
THEOREM LoadedServes == Spec => []LoadedIsLive
<1>1. EntryInv => LoadedIsLive
  BY DEF EntryInv
<1>2. QED BY <1>1, EntrySafe, PTL

(* No step but a removal or a restart drops a coordinator whose shutdown   *)
(* is not complete.                                                        *)
THEOREM ReplacementProven == Spec => ReplacedOnlyWhenProven
<1> DEFINE Dropped == runtime # NoCoord /\ runtime' # runtime =>
                        runtime \in complete' \/ entry' = "removed" \/ Restart
<1>1. TypeOK /\ EntryInv /\ [Next]_vars => [Dropped]_vars
  <2> SUFFICES ASSUME TypeOK, EntryInv, [Next]_vars, runtime # NoCoord, runtime' # runtime
               PROVE  runtime \in complete' \/ entry' = "removed" \/ Restart
    OBVIOUS
  <2> USE DEF TypeOK, EntryInv, EntryType, CloserType, ShutdownJoined, HandlerHolds, Closers
  <2>1. CASE UNCHANGED vars
    BY <2>1 DEF vars, entryVars
  <2>2. CASE Restart
    BY <2>2
  <2>3. ASSUME NEW c \in Coords,
               Proved(c) \/ Closed(c) \/ Removed(c) \/ CleanupEnds(c) \/ Create(c)
        PROVE  runtime \in complete' \/ entry' = "removed"
    BY <2>3 DEF Proved, Closed, Removed, CleanupEnds, Create, HaTo, shutVars
  <2>4. CASE UserStep
    BY <2>4 DEF UserStep, SetupBegins, Reload, UnloadBegins, RemoveBegins, AddAgain,
       vars, entryVars, holdVars
  <2>5. CASE StorageNotReady \/ BeginReplace \/ CallbacksEnd \/ RemoveEntry
    BY <2>5 DEF StorageNotReady, BeginReplace, CallbacksEnd, RemoveEntry, vars,
       entryVars, holdVars
  <2>6. CASE \E c \in Coords : WaitStep(c)
    BY <2>6 DEF WaitStep, JoinCancelled, WaitSlice, FenceFirst, StartOver, UseResult,
       Joined, JoinTimeout, FenceWorks, FenceFails, SliceEnds, SliceTimeout, vars,
       entryVars, holdVars
  <2>7. CASE \E c \in Coords : EntryStep(c)
    BY <2>7, <2>3 DEF EntryStep, ProofFails, ProofTimeout, Loads, ForwardFails,
       PlatformsUnload, PlatformsStay, CloseFails, entryVars, holdVars
  <2>8. CASE \E c \in Coords : StartupStep(c)
    BY <2>8 DEF StartupStep, StartupRuns, StartupConnects, StartupReads,
       StartupSucceeds, StartupFails, StartupCleansUp, StartupCleanupFails,
       StartupBudget, StartupInterrupted, StartupEnds, vars, entryVars, holdVars
  <2>9. CASE \E c \in Coords, z \in ZoneTasks : ZoneStep(c, z)
    BY <2>9 DEF ZoneStep, ZoneWakes, ZoneReads, ZonePassEnds, ZoneInterrupted, vars,
       entryVars, holdVars
  <2>10. CASE \E c \in Coords, w \in Readers : ReadBegins(c, w) \/ ReadReturns(c, w)
    BY <2>10 DEF ReadBegins, ReadReturns, vars, entryVars, holdVars
  <2>11. CASE \E c \in Coords, k \in Closers : CloserStep(c, k)
    BY <2>11 DEF CloserStep, CloserJoins, CloserJoinTimeout, CloserPreStops,
       CloserPreStopped, CloserPreStopFails, CloserJoinsZones, CloserJoinsPollers,
       CloserPollersTimeout, CloserStopped, CloserStopFails, vars, entryVars, holdVars
  <2>12. CASE \E s \in Services : ServiceCalls(s) \/ ServiceReturns(s)
    BY <2>12 DEF ServiceCalls, ServiceReturns, vars, entryVars, holdVars
  <2>13. QED BY <2>1, <2>2, <2>3, <2>4, <2>5, <2>6, <2>7, <2>8, <2>9, <2>10, <2>11,
     <2>12 DEF Next, HandlerStep
<1>2. QED BY <1>1, TypeCorrect, EntrySafe, PTL DEF Spec, ReplacedOnlyWhenProven

=============================================================================
