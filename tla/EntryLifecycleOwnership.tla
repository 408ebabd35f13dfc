----------------------- MODULE EntryLifecycleOwnership -----------------------
(***************************************************************************)
(* Who may hold the controller: theorems about EntryLifecycle, for every   *)
(* set of coordinators, zone tasks and readers.                            *)
(*                                                                         *)
(* Two results need no hypothesis: what async_shutdown has joined stays    *)
(* joined (JoinedStaysJoined), so only the callers that it neither cancels *)
(* nor awaits take the controller back (OnlyStraysReclaim).                *)
(*                                                                         *)
(* Unless the user reloads an entry that waits for its retry (NoRevival),  *)
(* a cancellation that was asked for arrives, a startup succeeds at most   *)
(* once, and every reader and zone task comes after that success           *)
(* (StartInv).  Hence a failed startup that holds the controller is        *)
(* remembered (UnprovenIsRemembered).                                      *)
(*                                                                         *)
(* Where besides no service call and no failing platform leaves a caller   *)
(* behind (NoStrays), a shutdown does release the controller: entities     *)
(* are served only by the coordinator of the entry, and a refresh that is  *)
(* still reading stands ahead of the final stop in the queue of the        *)
(* backend, so that nobody works for a coordinator that is complete, and   *)
(* whoever works for another one is found through the entry (OwnerInv).    *)
(*                                                                         *)
(* One lemma per part, with one step per action; actions that leave the    *)
(* variables of the part alone share the step <1>1.                        *)
(***************************************************************************)
EXTENDS EntryLifecycleProofs

-----------------------------------------------------------------------------
(* What a shutdown has joined stays joined.                                *)

\* A second shutdown starts over from the join, or finds the first one complete.
LEMMA StartCloseJoins ==
  ASSUME CloserType, NEW c \in Coords, NEW k \in Closers, StartClose(c, k),
         UNCHANGED <<complete, reading, zone, deferred, monitor, lost>>,
         JoinedStaysJoined
  PROVE  JoinedStaysJoined'
<1> SUFFICES ASSUME NEW d \in Coords
             PROVE  /\ PollersJoined(d)' => PollersJoined(d)
                    /\ ZonesJoined(d)' => ZonesJoined(d)
  BY DEF JoinedStaysJoined, Tracked
<1>1. CASE c \in complete
  BY <1>1 DEF StartClose, CloserTo, PollersJoined, ZonesJoined, CloserType, Closers
<1>2. CASE c \notin complete
  <2>1. \A e \in Coords, j \in Closers :
          closer'[e][j] \in {closer[e][j], "join", "pre"}
    BY <1>2 DEF StartClose, CloserTo, CloserType
  <2>2. QED BY <2>1 DEF PollersJoined, ZonesJoined
<1>3. QED BY <1>1, <1>2

\* No action starts a poll or a known zone task behind a shutdown.
LEMMA JoinedStep ==
    ASSUME TypeOK, TypeOK', EntryInv, JoinedStaysJoined, [Next]_vars
  PROVE  JoinedStaysJoined'
<1> DEFINE Frame == UNCHANGED <<complete, zone, deferred, monitor, lost, reading, closer>>
<1>1. ASSUME Frame PROVE JoinedStaysJoined'
  BY <1>1 DEF JoinedStaysJoined, PollersJoined, ZonesJoined, Tracked, TypeOK,
     ZoneType, ReadType, CloserType, FlagType
<1>2. ASSUME Restart PROVE JoinedStaysJoined'
  BY <1>2 DEF Restart, EntryInv, ShutdownJoined, Live, Closers, CloserPoints,
     JoinedStaysJoined, PollersJoined, ZonesJoined, Tracked, TypeOK, ZoneType,
     ReadType, CloserType, FlagType
<1>3. ASSUME BeginReplace PROVE JoinedStaysJoined'
  BY <1>3, StartCloseJoins DEF BeginReplace, zoneVars, readVars, TypeOK, Closers,
     EntryType
<1>4. ASSUME RemoveEntry PROVE JoinedStaysJoined'
  <2>1. UNCHANGED <<complete, reading, zone, deferred, monitor, lost>>
    BY <1>4 DEF RemoveEntry, zoneVars, readVars
  <2>2. CASE closer' = closer
    BY <2>1, <2>2, <1>1
  <2>3. CASE runtime # NoCoord /\ StartClose(runtime, "ha")
    BY <2>1, <2>3, StartCloseJoins DEF TypeOK, EntryType, Closers
  <2>4. QED
    BY <1>4, <2>2, <2>3 DEF RemoveEntry, zoneVars, readVars
<1>5. ASSUME NEW c \in Coords, UseResult(c) PROVE JoinedStaysJoined'
  <2>1. UNCHANGED <<complete, reading, zone, deferred, monitor, lost>>
    BY <1>5 DEF UseResult, SetupFails, readVars
  <2>2. CASE closer' = closer
    BY <2>1, <2>2, <1>1
  <2>3. CASE StartClose(c, "cleanup")
    BY <2>1, <2>3, StartCloseJoins DEF TypeOK, EntryType, Closers
  <2>4. QED
    BY <1>5, <2>2, <2>3 DEF UseResult, SetupFails, readVars
<1>6. ASSUME NEW c \in Coords, SliceEnds(c) PROVE JoinedStaysJoined'
  <2>1. UNCHANGED <<complete, reading, zone, deferred, monitor, lost>>
    BY <1>6 DEF SliceEnds, SetupFails, readVars
  <2>2. CASE closer' = closer
    BY <2>1, <2>2, <1>1
  <2>3. CASE StartClose(c, "cleanup")
    BY <2>1, <2>3, StartCloseJoins DEF TypeOK, EntryType, Closers
  <2>4. QED
    BY <1>6, <2>2, <2>3 DEF SliceEnds, SetupFails, readVars
<1>7. ASSUME NEW c \in Coords, Proved(c) PROVE JoinedStaysJoined'
  BY <1>7 DEF Proved, CloserTo, shutVars, taskVars, zoneVars, readVars, EntryInv,
     ShutdownJoined, Live, Closers, CloserPoints, JoinedStaysJoined, PollersJoined,
     ZonesJoined, Tracked, TypeOK, ZoneType, ReadType, CloserType, FlagType
<1>8. ASSUME NEW c \in Coords, ProofFails(c) PROVE JoinedStaysJoined'
  BY <1>8 DEF ProofFails, CloserTo, flagVars, readVars, EntryInv, ShutdownJoined,
     Live, Closers, CloserPoints, JoinedStaysJoined, PollersJoined, ZonesJoined,
     Tracked, TypeOK, ZoneType, ReadType, CloserType, FlagType
<1>9. ASSUME NEW c \in Coords, ProofTimeout(c) PROVE JoinedStaysJoined'
  BY <1>9 DEF ProofTimeout, CloserTo, flagVars, readVars, EntryInv, ShutdownJoined,
     Live, Closers, CloserPoints, JoinedStaysJoined, PollersJoined, ZonesJoined,
     Tracked, TypeOK, ZoneType, ReadType, CloserType, FlagType
<1>10. ASSUME NEW c \in Coords, Create(c) PROVE JoinedStaysJoined'
  BY <1>10 DEF Create, Unused, readVars, EntryInv, ShutdownJoined, Live, Closers,
     CloserPoints, JoinedStaysJoined, PollersJoined, ZonesJoined, Tracked, TypeOK,
     ZoneType, ReadType, CloserType, FlagType
<1>11. ASSUME NEW c \in Coords, ForwardFails(c) PROVE JoinedStaysJoined'
  BY <1>11, StartCloseJoins DEF ForwardFails, SetupFails, readVars, TypeOK, Closers
<1>12. ASSUME NEW c \in Coords, PlatformsUnload(c) PROVE JoinedStaysJoined'
  BY <1>12, StartCloseJoins DEF PlatformsUnload, zoneVars, readVars, TypeOK, Closers
<1>13. ASSUME NEW c \in Coords, Closed(c) PROVE JoinedStaysJoined'
  BY <1>13 DEF Closed, CloserTo, readVars, shutVars, EntryInv, ShutdownJoined, Live,
     Closers, CloserPoints, JoinedStaysJoined, PollersJoined, ZonesJoined, Tracked,
     TypeOK, ZoneType, ReadType, CloserType, FlagType
<1>14. ASSUME NEW c \in Coords, CloseFails(c) PROVE JoinedStaysJoined'
  BY <1>14 DEF CloseFails, CloserTo, zoneVars, readVars, shutVars, EntryInv,
     ShutdownJoined, Live, Closers, CloserPoints, JoinedStaysJoined, PollersJoined,
     ZonesJoined, Tracked, TypeOK, ZoneType, ReadType, CloserType, FlagType
<1>15. ASSUME NEW c \in Coords, Removed(c) PROVE JoinedStaysJoined'
  BY <1>15 DEF Removed, CloserTo, shutVars, taskVars, zoneVars, readVars, EntryInv,
     ShutdownJoined, Live, Closers, CloserPoints, JoinedStaysJoined, PollersJoined,
     ZonesJoined, Tracked, TypeOK, ZoneType, ReadType, CloserType, FlagType
<1>16. ASSUME NEW c \in Coords, StartupSucceeds(c) PROVE JoinedStaysJoined'
  <2>1. UNCHANGED <<reading, closer, complete>>
    BY <1>16 DEF StartupSucceeds, flagVars, shutVars, readVars
  <2>2. ~ZonesJoined(c)
    BY <1>16 DEF StartupSucceeds, PollersJoined, ZonesJoined, EntryInv,
       ShutdownJoined, Live, Closers, CloserPoints
  <2>3. \A d \in Coords : /\ PollersJoined(d)' = PollersJoined(d)
                           /\ ZonesJoined(d)' = ZonesJoined(d)
    BY <2>1 DEF PollersJoined, ZonesJoined
  <2>4. ASSUME NEW d \in Coords, NEW x \in ZoneTasks, zone'[d][x] # "off"
        PROVE  x \in (IF ZonesJoined(d)' THEN lost'[d] ELSE Tracked(d)' \cup lost'[d])
    <3>1. CASE d # c
      <4>1. zone'[d] = zone[d] /\ lost'[d] = lost[d] /\ Tracked(d)' = Tracked(d)
        BY <1>16, <3>1 DEF StartupSucceeds, Schedule, Tracked, TypeOK, ZoneType
      <4>2. QED BY <2>3, <2>4, <4>1 DEF JoinedStaysJoined
    <3>2. CASE d = c /\ zone[c][x] # "off"
      <4>1. x \in Tracked(c) \cup lost[c]
        BY <2>2, <3>2 DEF JoinedStaysJoined
      <4>2. x \in Tracked(c)' \cup lost'[c]
        BY <1>16, <3>2, <4>1, ModelAssumption DEF StartupSucceeds, Tracked,
           TypeOK, ZoneType
      <4>3. QED BY <2>2, <2>3, <3>2, <4>2
    <3>3. CASE d = c /\ zone[c][x] = "off"
      <4>1. x \in Tracked(c)'
        BY <1>16, <2>4, <3>3, ModelAssumption DEF StartupSucceeds, Schedule,
           Tracked, TypeOK, ZoneType
      <4>2. QED BY <2>2, <2>3, <3>3, <4>1
    <3>4. QED BY <3>1, <3>2, <3>3
  <2>5. QED BY <2>1, <2>3, <2>4 DEF JoinedStaysJoined
<1>17. ASSUME NEW c \in Coords, CleanupEnds(c) PROVE JoinedStaysJoined'
  BY <1>17 DEF CleanupEnds, CloserTo, shutVars, taskVars, zoneVars, readVars,
     EntryInv, ShutdownJoined, Live, Closers, CloserPoints, JoinedStaysJoined,
     PollersJoined, ZonesJoined, Tracked, TypeOK, ZoneType, ReadType, CloserType,
     FlagType
<1>18. ASSUME NEW c \in Coords, NEW z \in ZoneTasks, ZoneWakes(c, z)
       PROVE  JoinedStaysJoined'
  BY <1>18 DEF ZoneWakes, flagVars, readVars, EntryInv, ShutdownJoined, Live, Closers,
     CloserPoints, JoinedStaysJoined, PollersJoined, ZonesJoined, Tracked, TypeOK,
     ZoneType, ReadType, CloserType, FlagType
<1>19. ASSUME NEW c \in Coords, NEW z \in ZoneTasks, ZonePassEnds(c, z)
       PROVE  JoinedStaysJoined'
  <2>1. UNCHANGED <<reading, closer, complete, deferred, lost>>
    BY <1>19 DEF ZonePassEnds, flagVars, readVars
  <2>2. \A d \in Coords : /\ PollersJoined(d)' = PollersJoined(d)
                           /\ ZonesJoined(d)' = ZonesJoined(d)
    BY <2>1 DEF PollersJoined, ZonesJoined
  <2>3. ASSUME NEW x \in ZoneTasks, NEW d \in Coords, zone'[d][x] # "off"
        PROVE  zone[d][x] # "off" \/ (d = c /\ c \notin shutting /\ x = monitor'[c])
    BY <1>19, <2>3 DEF ZonePassEnds, TypeOK, ZoneType
  <2>4. ASSUME NEW d \in Coords, monitor'[d] # monitor[d]
        PROVE  d = c /\ c \notin shutting /\ monitor[c] = NoTask
    BY <1>19, <2>4 DEF ZonePassEnds, TypeOK, ZoneType
  <2>5. c \notin shutting => ~ZonesJoined(c)
    BY DEF EntryInv, ShutdownJoined, PollersJoined, ZonesJoined
  <2>6. ASSUME NEW d \in Coords, NEW x \in ZoneTasks, zone'[d][x] # "off"
        PROVE  x \in (IF ZonesJoined(d)' THEN lost'[d] ELSE Tracked(d)' \cup lost'[d])
    <3>1. CASE zone[d][x] # "off"
      BY <2>1, <2>2, <2>4, <3>1 DEF JoinedStaysJoined, Tracked
    <3>2. CASE d = c /\ c \notin shutting /\ x = monitor'[c]
      BY <2>2, <2>5, <3>2, ModelAssumption DEF Tracked
    <3>3. QED BY <2>3, <2>6, <3>1, <3>2
  <2>7. QED BY <2>1, <2>2, <2>6 DEF JoinedStaysJoined
<1>20. ASSUME NEW c \in Coords, NEW z \in ZoneTasks, ZoneInterrupted(c, z)
       PROVE  JoinedStaysJoined'
  BY <1>20 DEF ZoneInterrupted, flagVars, readVars, EntryInv, ShutdownJoined, Live,
     Closers, CloserPoints, JoinedStaysJoined, PollersJoined, ZonesJoined, Tracked,
     TypeOK, ZoneType, ReadType, CloserType, FlagType
<1>21. ASSUME NEW c \in Coords, NEW w \in Readers, ReadBegins(c, w)
       PROVE  JoinedStaysJoined'
  BY <1>21 DEF ReadBegins, flagVars, zoneVars, EntryInv, ShutdownJoined, Live,
     Closers, CloserPoints, JoinedStaysJoined, PollersJoined, ZonesJoined, Tracked,
     TypeOK, ZoneType, ReadType, CloserType, FlagType
<1>22. ASSUME NEW c \in Coords, NEW w \in Readers, ReadReturns(c, w)
       PROVE  JoinedStaysJoined'
  <2> SUFFICES ASSUME NEW d \in Coords
               PROVE  /\ PollersJoined(d)' => "poll" \notin reading'[d]
                      /\ \A x \in ZoneTasks : zone'[d][x] # "off" =>
                            x \in (IF ZonesJoined(d) THEN lost[d]
                                  ELSE Tracked(d) \cup lost[d])'
    BY DEF JoinedStaysJoined
  <2>8. CASE d # c
    BY <1>22, <2>8 DEF ReadReturns, flagVars, zoneVars, JoinedStaysJoined,
       PollersJoined, ZonesJoined, Tracked, TypeOK, ZoneType, ReadType, CloserType,
       FlagType
  <2>9. CASE d = c
    BY <1>22, <2>9 DEF ReadReturns, flagVars, zoneVars, JoinedStaysJoined,
       PollersJoined, ZonesJoined, Tracked, TypeOK, ZoneType, ReadType, CloserType,
       FlagType, EntryInv, ShutdownJoined, Live, Closers, CloserPoints
  <2>10. QED BY <2>8, <2>9
<1>23. ASSUME NEW c \in Coords, NEW k \in Closers, CloserJoins(c, k)
       PROVE  JoinedStaysJoined'
  BY <1>23 DEF CloserJoins, CloserTo, flagVars, taskVars, zoneVars, readVars,
     EntryInv, ShutdownJoined, Live, Closers, CloserPoints, JoinedStaysJoined,
     PollersJoined, ZonesJoined, Tracked, TypeOK, ZoneType, ReadType, CloserType,
     FlagType
<1>24. ASSUME NEW c \in Coords, NEW k \in Closers, CloserJoinTimeout(c, k)
       PROVE  JoinedStaysJoined'
  BY <1>24 DEF CloserJoinTimeout, CloserTo, flagVars, zoneVars, readVars, EntryInv,
     ShutdownJoined, Live, Closers, CloserPoints, JoinedStaysJoined, PollersJoined,
     ZonesJoined, Tracked, TypeOK, ZoneType, ReadType, CloserType, FlagType
<1>25. ASSUME NEW c \in Coords, NEW k \in Closers, CloserPreStops(c, k)
       PROVE  JoinedStaysJoined'
  <2>1. UNCHANGED <<complete, reading, zone, deferred, monitor, lost>>
    BY <1>25 DEF CloserPreStops, flagVars, readVars
  <2>2. \A d \in Coords, j \in Closers : closer'[d][j] \in {closer[d][j], "prestop", "zones"}
    BY <1>25 DEF CloserPreStops, CloserTo, TypeOK, CloserType
  <2>3. ASSUME NEW d \in Coords
        PROVE  /\ PollersJoined(d)' => PollersJoined(d)
               /\ ZonesJoined(d)' => ZonesJoined(d)
    BY <2>1, <2>2 DEF PollersJoined, ZonesJoined
  <2>4. QED BY <2>1, <2>3 DEF JoinedStaysJoined, Tracked
<1>26. ASSUME NEW c \in Coords, NEW k \in Closers, CloserPreStopped(c, k)
       PROVE  JoinedStaysJoined'
  BY <1>26 DEF CloserPreStopped, CloserTo, flagVars, readVars, EntryInv,
     ShutdownJoined, Live, Closers, CloserPoints, JoinedStaysJoined, PollersJoined,
     ZonesJoined, Tracked, TypeOK, ZoneType, ReadType, CloserType, FlagType
<1>27. ASSUME NEW c \in Coords, NEW k \in Closers, CloserPreStopFails(c, k)
       PROVE  JoinedStaysJoined'
  BY <1>27 DEF CloserPreStopFails, CloserTo, shutVars, taskVars, zoneVars, readVars,
     EntryInv, ShutdownJoined, Live, Closers, CloserPoints, JoinedStaysJoined,
     PollersJoined, ZonesJoined, Tracked, TypeOK, ZoneType, ReadType, CloserType,
     FlagType
<1>28. ASSUME NEW c \in Coords, NEW k \in Closers, CloserJoinsZones(c, k)
       PROVE  JoinedStaysJoined'
  BY <1>28 DEF CloserJoinsZones, CloserTo, flagVars, readVars, EntryInv,
     ShutdownJoined, Live, Closers, CloserPoints, JoinedStaysJoined, PollersJoined,
     ZonesJoined, Tracked, TypeOK, ZoneType, ReadType, CloserType, FlagType
<1>29. ASSUME NEW c \in Coords, NEW k \in Closers, CloserJoinsPollers(c, k)
       PROVE  JoinedStaysJoined'
  BY <1>29 DEF CloserJoinsPollers, CloserTo, flagVars, taskVars, zoneVars, readVars,
     EntryInv, ShutdownJoined, Live, Closers, CloserPoints, JoinedStaysJoined,
     PollersJoined, ZonesJoined, Tracked, TypeOK, ZoneType, ReadType, CloserType,
     FlagType
<1>30. ASSUME NEW c \in Coords, NEW k \in Closers, CloserPollersTimeout(c, k)
       PROVE  JoinedStaysJoined'
  BY <1>30 DEF CloserPollersTimeout, CloserTo, flagVars, taskVars, zoneVars, readVars,
     EntryInv, ShutdownJoined, Live, Closers, CloserPoints, JoinedStaysJoined,
     PollersJoined, ZonesJoined, Tracked, TypeOK, ZoneType, ReadType, CloserType,
     FlagType
<1>31. ASSUME NEW c \in Coords, NEW k \in Closers, CloserStopped(c, k)
       PROVE  JoinedStaysJoined'
  BY <1>31 DEF CloserStopped, CloserTo, taskVars, zoneVars, readVars, EntryInv,
     ShutdownJoined, Live, Closers, CloserPoints, JoinedStaysJoined, PollersJoined,
     ZonesJoined, Tracked, TypeOK, ZoneType, ReadType, CloserType, FlagType
<1>32. ASSUME NEW c \in Coords, NEW k \in Closers, CloserStopFails(c, k)
       PROVE  JoinedStaysJoined'
  BY <1>32 DEF CloserStopFails, CloserTo, flagVars, taskVars, zoneVars, readVars,
     EntryInv, ShutdownJoined, Live, Closers, CloserPoints, JoinedStaysJoined,
     PollersJoined, ZonesJoined, Tracked, TypeOK, ZoneType, ReadType, CloserType,
     FlagType
<1>33. CASE UserStep
  BY <1>33, <1>1 DEF UserStep, Frame, SetupBegins, flagVars, taskVars, zoneVars,
     readVars, Reload, shutVars, UnloadBegins, RemoveBegins, AddAgain
<1>34. CASE Restart
  BY <1>34, <1>2
<1>35. CASE StorageNotReady \/ BeginReplace \/ CallbacksEnd \/ RemoveEntry
  BY <1>35, <1>1, <1>3, <1>4 DEF Frame, StorageNotReady, flagVars, readVars,
     CallbacksEnd, zoneVars, shutVars
<1>36. CASE \E c \in Coords : WaitStep(c)
  BY <1>36, <1>1, <1>5, <1>6 DEF WaitStep, Frame, JoinCancelled, shutVars, taskVars,
     zoneVars, readVars, WaitSlice, FenceFirst, StartOver, Joined, JoinTimeout,
     flagVars, FenceWorks, FenceFails, SliceTimeout
<1>37. CASE \E c \in Coords : EntryStep(c)
  BY <1>37, <1>1, <1>7, <1>8, <1>9, <1>10, <1>11, <1>12, <1>13, <1>14, <1>15 DEF
     EntryStep, Frame, Loads, shutVars, taskVars, zoneVars, readVars, PlatformsStay
<1>38. CASE \E c \in Coords : StartupStep(c) \/ CleanupEnds(c)
  BY <1>38, <1>1, <1>16, <1>17 DEF StartupStep, Frame, StartupRuns, flagVars,
     zoneVars, readVars, StartupConnects, StartupReads, taskVars, StartupFails,
     StartupCleansUp, StartupEnds, shutVars, StartupCleanupFails, StartupBudget,
     StartupInterrupted
<1>39. CASE \E c \in Coords, z \in ZoneTasks : ZoneStep(c, z)
  BY <1>39, <1>1, <1>18, <1>19, <1>20 DEF ZoneStep, Frame, ZoneReads, flagVars,
     taskVars, zoneVars, readVars
<1>40. CASE \E c \in Coords, w \in Readers : ReadBegins(c, w) \/ ReadReturns(c, w)
  BY <1>40, <1>21, <1>22
<1>41. CASE \E c \in Coords, k \in Closers : CloserStep(c, k)
  BY <1>41, <1>23, <1>24, <1>25, <1>26, <1>27, <1>28, <1>29, <1>30, <1>31, <1>32 DEF
     CloserStep
<1>42. CASE \E s \in Services : ServiceCalls(s) \/ ServiceReturns(s)
  BY <1>42, <1>1 DEF Frame, ServiceCalls, flagVars, zoneVars, ServiceReturns
<1>43. CASE UNCHANGED vars
  BY <1>43, <1>1 DEF Frame, vars, flagVars, zoneVars, readVars
<1>44. QED
  BY <1>33, <1>34, <1>35, <1>36, <1>37, <1>38, <1>39, <1>40, <1>41, <1>42, <1>43 DEF
     Next, HandlerStep

\* A caller whose call may claim the controller for the coordinator.
User(c, w) ==
    \/ w = "startup" /\ Live(c)
    \/ w \in ZoneTasks /\ zone[c][w] # "off"
    \/ w \in reading[c]
    \/ w \in Services /\ serving[w] = c

-----------------------------------------------------------------------------
(* What must have happened before a variable changed: who can take the     *)
(* controller, who can drop a coordinator, what begins after what.         *)

\* async_start of the backend claims for its own coordinator only.
LEMMA UseOwns ==
  ASSUME NEW c \in Coords, NEW d \in Coords, owner # d, owner' = d,
         UseWorks(c) \/ UseFails(c)
  PROVE  c = d
BY ModelAssumption DEF UseWorks, UseFails, OwnersAfterFailure, Free

\* A coordinator becomes the owner when the backend serves one of its callers.
LEMMA OwnerUsed ==
    ASSUME TypeOK, NEW d \in Coords, owner # d, owner' = d, [Next]_vars
  PROVE  \E x \in Callers : User(d, x) /\ Served(d, x)
<1> DEFINE Goal == \E x \in Callers : User(d, x) /\ Served(d, x)
<1> DEFINE Frame == UNCHANGED <<owner>>
<1>1. ASSUME Frame PROVE Goal
  BY <1>1 DEF TypeOK, EntryType
<1>2. ASSUME Restart PROVE Goal
  BY <1>2, ModelAssumption DEF Restart, TypeOK, EntryType
<1>3. ASSUME NEW c \in Coords, FenceWorks(c) PROVE Goal
  BY <1>3, ModelAssumption DEF FenceWorks, StopWorks, TypeOK, EntryType
<1>4. ASSUME NEW c \in Coords, FenceFails(c) PROVE Goal
  BY <1>4 DEF FenceFails, StopFails, TypeOK, EntryType
<1>5. ASSUME NEW c \in Coords, StartupConnects(c) PROVE Goal
  <2>1. Served(c, "startup") /\ c = d
    BY <1>5, UseOwns DEF StartupConnects
  <2>2. User(c, "startup") /\ "startup" \in Callers
    BY <1>5 DEF StartupConnects, User, Live, Callers
  <2>3. QED BY <2>1, <2>2
<1>6. ASSUME NEW c \in Coords, StartupReads(c) PROVE Goal
  <2>1. Served(c, "startup") /\ c = d
    BY <1>6, UseOwns DEF StartupReads
  <2>2. User(c, "startup") /\ "startup" \in Callers
    BY <1>6 DEF StartupReads, User, Live, Callers
  <2>3. QED BY <2>1, <2>2
<1>7. ASSUME NEW c \in Coords, StartupSucceeds(c) PROVE Goal
  <2>1. Served(c, "startup") /\ c = d
    BY <1>7, UseOwns DEF StartupSucceeds
  <2>2. User(c, "startup") /\ "startup" \in Callers
    BY <1>7 DEF StartupSucceeds, User, Live, Callers
  <2>3. QED BY <2>1, <2>2
<1>8. ASSUME NEW c \in Coords, StartupFails(c) PROVE Goal
  <2>1. Served(c, "startup") /\ c = d
    BY <1>8, UseOwns DEF StartupFails
  <2>2. User(c, "startup") /\ "startup" \in Callers
    BY <1>8 DEF StartupFails, User, Live, Callers
  <2>3. QED BY <2>1, <2>2
<1>9. ASSUME NEW c \in Coords, StartupCleansUp(c) PROVE Goal
  BY <1>9, ModelAssumption DEF StartupCleansUp, StopWorks, TypeOK, EntryType
<1>10. ASSUME NEW c \in Coords, StartupCleanupFails(c) PROVE Goal
  BY <1>10 DEF StartupCleanupFails, StopFails, TypeOK, EntryType
<1>11. ASSUME NEW c \in Coords, StartupBudget(c) PROVE Goal
  <2>1. Served(c, "startup") /\ c = d
    BY <1>11, UseOwns DEF StartupBudget, UseInterrupted
  <2>2. User(c, "startup") /\ "startup" \in Callers
    BY <1>11 DEF StartupBudget, User, Live, Callers
  <2>3. QED BY <2>1, <2>2
<1>12. ASSUME NEW c \in Coords, StartupInterrupted(c) PROVE Goal
  <2>1. Served(c, "startup") /\ c = d
    BY <1>12, UseOwns DEF StartupInterrupted, UseInterrupted
  <2>2. User(c, "startup") /\ "startup" \in Callers
    BY <1>12 DEF StartupInterrupted, User, Live, Callers
  <2>3. QED BY <2>1, <2>2
<1>13. ASSUME NEW c \in Coords, NEW z \in ZoneTasks, ZoneReads(c, z) PROVE Goal
  <2>1. Served(c, z) /\ c = d
    BY <1>13, UseOwns DEF ZoneReads
  <2>2. User(c, z) /\ z \in Callers
    BY <1>13 DEF ZoneReads, User, Live, Callers
  <2>3. QED BY <2>1, <2>2
<1>14. ASSUME NEW c \in Coords, NEW z \in ZoneTasks, ZonePassEnds(c, z) PROVE Goal
  <2>1. Served(c, z) /\ c = d
    BY <1>14, UseOwns DEF ZonePassEnds
  <2>2. User(c, z) /\ z \in Callers
    BY <1>14 DEF ZonePassEnds, User, Live, Callers
  <2>3. QED BY <2>1, <2>2
<1>15. ASSUME NEW c \in Coords, NEW z \in ZoneTasks, ZoneInterrupted(c, z) PROVE Goal
  <2>1. Served(c, z) /\ c = d
    BY <1>15, UseOwns DEF ZoneInterrupted, UseInterrupted
  <2>2. User(c, z) /\ z \in Callers
    BY <1>15 DEF ZoneInterrupted, User, Live, Callers
  <2>3. QED BY <2>1, <2>2
<1>16. ASSUME NEW c \in Coords, NEW w \in Readers, ReadReturns(c, w) PROVE Goal
  <2>1. Served(c, w) /\ c = d
    BY <1>16, UseOwns DEF ReadReturns
  <2>2. User(c, w) /\ w \in Callers
    BY <1>16 DEF ReadReturns, User, Live, Callers, ReadType, TypeOK
  <2>3. QED BY <2>1, <2>2
<1>17. ASSUME NEW c \in Coords, NEW k \in Closers, CloserPreStopped(c, k) PROVE Goal
  BY <1>17, ModelAssumption DEF CloserPreStopped, StopWorks, TypeOK, EntryType
<1>18. ASSUME NEW c \in Coords, NEW k \in Closers, CloserPreStopFails(c, k) PROVE Goal
  BY <1>18 DEF CloserPreStopFails, StopFails, TypeOK, EntryType
<1>19. ASSUME NEW c \in Coords, NEW k \in Closers, CloserStopped(c, k) PROVE Goal
  BY <1>19, ModelAssumption DEF CloserStopped, StopWorks, TypeOK, EntryType
<1>20. ASSUME NEW c \in Coords, NEW k \in Closers, CloserStopFails(c, k) PROVE Goal
  BY <1>20 DEF CloserStopFails, StopFails, TypeOK, EntryType
<1>21. ASSUME NEW s \in Services, ServiceReturns(s) PROVE Goal
  <2>1. serving[s] \in Coords
    BY <1>21 DEF ServiceReturns, TypeOK, ReadType
  <2>2. serving[s] = d /\ Served(d, s)
    BY <1>21, <2>1, UseOwns DEF ServiceReturns
  <2>3. QED BY <2>2 DEF User, Callers
<1>22. CASE UserStep
  BY <1>22, <1>1 DEF UserStep, Frame, SetupBegins, holdVars, Reload, UnloadBegins,
     RemoveBegins, AddAgain
<1>23. CASE Restart
  BY <1>23, <1>2
<1>24. CASE StorageNotReady \/ BeginReplace \/ CallbacksEnd \/ RemoveEntry
  BY <1>24, <1>1 DEF Frame, StorageNotReady, holdVars, BeginReplace, CallbacksEnd,
     RemoveEntry
<1>25. CASE \E c \in Coords : WaitStep(c)
  BY <1>25, <1>1, <1>3, <1>4 DEF WaitStep, Frame, JoinCancelled, holdVars, WaitSlice,
     FenceFirst, StartOver, UseResult, Joined, JoinTimeout, SliceEnds, SliceTimeout
<1>34. ASSUME NEW c \in Coords, Closed(c) PROVE Goal
  BY <1>34, ModelAssumption DEF Closed, StopWorks, TypeOK, EntryType
<1>26. CASE \E c \in Coords : EntryStep(c)
  BY <1>26, <1>1, <1>34 DEF EntryStep, Frame, Proved, holdVars, ProofFails, ProofTimeout,
     Create, Loads, ForwardFails, PlatformsUnload, PlatformsStay, CloseFails, Removed
<1>27. CASE \E c \in Coords : StartupStep(c) \/ CleanupEnds(c)
  BY <1>27, <1>1, <1>5, <1>6, <1>7, <1>8, <1>9, <1>10, <1>11, <1>12 DEF StartupStep,
     Frame, StartupRuns, CleanupEnds, holdVars
<1>28. CASE \E c \in Coords, z \in ZoneTasks : ZoneStep(c, z)
  BY <1>28, <1>1, <1>13, <1>14, <1>15 DEF ZoneStep, Frame, ZoneWakes
<1>29. CASE \E c \in Coords, w \in Readers : ReadBegins(c, w) \/ ReadReturns(c, w)
  BY <1>29, <1>1, <1>16 DEF Frame, ReadBegins
<1>30. CASE \E c \in Coords, k \in Closers : CloserStep(c, k)
  BY <1>30, <1>1, <1>17, <1>18, <1>19, <1>20 DEF CloserStep, Frame, CloserJoins,
     CloserJoinTimeout, CloserPreStops, CloserJoinsZones, CloserJoinsPollers,
     CloserPollersTimeout
<1>31. CASE \E s \in Services : ServiceCalls(s) \/ ServiceReturns(s)
  BY <1>31, <1>1, <1>21 DEF Frame, ServiceCalls
<1>32. CASE UNCHANGED vars
  BY <1>32, <1>1 DEF Frame, vars
<1>33. QED
  BY <1>22, <1>23, <1>24, <1>25, <1>26, <1>27, <1>28, <1>29, <1>30, <1>31, <1>32 DEF
     Next, HandlerStep

\* A coordinator that is not shut down leaves the entry only by a restart, to be
\* created anew, or with its shutdown.
LEMMA KnownStays ==
    ASSUME TypeOK, EntryInv, NEW d \in Coords, d = runtime \/ d \in abandoned, d \notin
         complete, [Next]_vars
  PROVE  d = runtime' \/ d \in abandoned' \/ Restart \/ Create(d) \/ d \in complete'
<1> DEFINE Goal == d = runtime' \/ d \in abandoned' \/ Restart \/ Create(d) \/ d \in complete'
<1> DEFINE Frame == UNCHANGED <<runtime, abandoned>>
<1>1. ASSUME Frame PROVE Goal
  BY <1>1 DEF TypeOK
<1>2. ASSUME Restart PROVE Goal
  BY <1>2 DEF Restart, EntryInv, ShutdownJoined, HandlerHolds, Closers, CloserType,
     EntryType, TypeOK
<1>3. ASSUME NEW c \in Coords, Proved(c) PROVE Goal
  BY <1>3 DEF Proved, holdVars, EntryInv, ShutdownJoined, HandlerHolds, Closers,
     CloserType, EntryType, TypeOK
<1>4. ASSUME NEW c \in Coords, Create(c) PROVE Goal
  <2>1. CASE c = d
    BY <1>4, <2>1
  <2>2. CASE c # d
    BY <1>4, <2>2, ModelAssumption DEF Create, TypeOK, FlagType
  <2>3. QED BY <2>1, <2>2
<1>5. ASSUME NEW c \in Coords, Closed(c) PROVE Goal
  BY <1>5 DEF Closed, holdVars, EntryInv, ShutdownJoined, HandlerHolds, Closers,
     CloserType, EntryType, TypeOK
<1>6. ASSUME NEW c \in Coords, Removed(c) PROVE Goal
  BY <1>6 DEF Removed, EntryInv, ShutdownJoined, HandlerHolds, Closers, CloserType,
     EntryType, TypeOK
<1>7. ASSUME NEW c \in Coords, CleanupEnds(c) PROVE Goal
  BY <1>7 DEF CleanupEnds, holdVars, EntryInv, ShutdownJoined, HandlerHolds, Closers,
     CloserType, EntryType, TypeOK
<1>8. CASE UserStep
  BY <1>8, <1>1 DEF UserStep, Frame, SetupBegins, holdVars, Reload, UnloadBegins,
     RemoveBegins, AddAgain
<1>9. CASE Restart
  BY <1>9, <1>2
<1>10. CASE StorageNotReady \/ BeginReplace \/ CallbacksEnd \/ RemoveEntry
  BY <1>10, <1>1 DEF Frame, StorageNotReady, holdVars, BeginReplace, CallbacksEnd,
     RemoveEntry
<1>11. CASE \E c \in Coords : WaitStep(c)
  BY <1>11, <1>1 DEF WaitStep, Frame, JoinCancelled, holdVars, WaitSlice, FenceFirst,
     StartOver, UseResult, Joined, JoinTimeout, FenceWorks, FenceFails, SliceEnds,
     SliceTimeout
<1>12. CASE \E c \in Coords : EntryStep(c)
  BY <1>12, <1>1, <1>3, <1>4, <1>5, <1>6 DEF EntryStep, Frame, ProofFails, holdVars,
     ProofTimeout, Loads, ForwardFails, PlatformsUnload, PlatformsStay, CloseFails
<1>13. CASE \E c \in Coords : StartupStep(c) \/ CleanupEnds(c)
  BY <1>13, <1>1, <1>7 DEF StartupStep, Frame, StartupRuns, entryVars,
     StartupConnects, StartupReads, StartupSucceeds, StartupFails, StartupCleansUp,
     StartupEnds, StartupCleanupFails, StartupBudget, StartupInterrupted
<1>14. CASE \E c \in Coords, z \in ZoneTasks : ZoneStep(c, z)
  BY <1>14, <1>1 DEF ZoneStep, Frame, ZoneWakes, entryVars, ZoneReads, ZonePassEnds,
     ZoneInterrupted
<1>15. CASE \E c \in Coords, w \in Readers : ReadBegins(c, w) \/ ReadReturns(c, w)
  BY <1>15, <1>1 DEF Frame, ReadBegins, entryVars, ReadReturns
<1>16. CASE \E c \in Coords, k \in Closers : CloserStep(c, k)
  BY <1>16, <1>1 DEF CloserStep, Frame, CloserJoins, entryVars, CloserJoinTimeout,
     CloserPreStops, CloserPreStopped, CloserPreStopFails, CloserJoinsZones,
     CloserJoinsPollers, CloserPollersTimeout, CloserStopped, CloserStopFails
<1>17. CASE \E s \in Services : ServiceCalls(s) \/ ServiceReturns(s)
  BY <1>17, <1>1 DEF Frame, ServiceCalls, entryVars, ServiceReturns
<1>18. CASE UNCHANGED vars
  BY <1>18, <1>1 DEF Frame, vars, entryVars
<1>19. QED
  BY <1>8, <1>9, <1>10, <1>11, <1>12, <1>13, <1>14, <1>15, <1>16, <1>17, <1>18 DEF
     Next, HandlerStep

\* Reading begins with entities, or with the poller of a startup that succeeds.
LEMMA BusyBegins ==
    ASSUME TypeOK, NEW d \in Coords, Busy(d)', ~Busy(d), [Next]_vars
  PROVE  d \in platforms \/ StartupSucceeds(d)
<1> DEFINE Goal == d \in platforms \/ StartupSucceeds(d)
<1> DEFINE Frame == UNCHANGED <<zone, reading>>
<1>1. ASSUME Frame PROVE Goal
  BY <1>1 DEF Busy
<1>2. ASSUME Restart PROVE Goal
  BY <1>2 DEF Restart, ReadType, ZoneType, TypeOK, Busy
<1>3. ASSUME NEW c \in Coords, StartupSucceeds(c) PROVE Goal
  <2>1. CASE c = d
    BY <1>3, <2>1
  <2>2. CASE c # d
    BY <1>3, <2>2 DEF StartupSucceeds, Schedule, readVars, Busy, TypeOK, ZoneType
  <2>3. QED BY <2>1, <2>2
<1>4. ASSUME NEW c \in Coords, NEW z \in ZoneTasks, ZoneWakes(c, z) PROVE Goal
  BY <1>4 DEF ZoneWakes, readVars, ReadType, ZoneType, TypeOK, Busy
<1>5. ASSUME NEW c \in Coords, NEW z \in ZoneTasks, ZonePassEnds(c, z) PROVE Goal
  BY <1>5 DEF ZonePassEnds, readVars, ReadType, ZoneType, TypeOK, Busy
<1>6. ASSUME NEW c \in Coords, NEW z \in ZoneTasks, ZoneInterrupted(c, z) PROVE Goal
  BY <1>6 DEF ZoneInterrupted, readVars, ReadType, ZoneType, TypeOK, Busy
<1>7. ASSUME NEW c \in Coords, NEW w \in Readers, ReadBegins(c, w) PROVE Goal
  BY <1>7 DEF ReadBegins, zoneVars, ReadType, ZoneType, TypeOK, Busy
<1>8. ASSUME NEW c \in Coords, NEW w \in Readers, ReadReturns(c, w) PROVE Goal
  BY <1>8 DEF ReadReturns, zoneVars, ReadType, ZoneType, TypeOK, Busy
<1>9. CASE UserStep
  BY <1>9, <1>1 DEF UserStep, Frame, SetupBegins, taskVars, zoneVars, readVars,
     Reload, UnloadBegins, RemoveBegins, AddAgain
<1>10. CASE Restart
  BY <1>10, <1>2
<1>11. CASE StorageNotReady \/ BeginReplace \/ CallbacksEnd \/ RemoveEntry
  BY <1>11, <1>1 DEF Frame, StorageNotReady, readVars, BeginReplace, zoneVars,
     CallbacksEnd, RemoveEntry
<1>12. CASE \E c \in Coords : WaitStep(c)
  BY <1>12, <1>1 DEF WaitStep, Frame, JoinCancelled, taskVars, zoneVars, readVars,
     WaitSlice, FenceFirst, StartOver, UseResult, Joined, JoinTimeout, FenceWorks,
     FenceFails, SliceEnds, SliceTimeout
<1>13. CASE \E c \in Coords : EntryStep(c)
  BY <1>13, <1>1 DEF EntryStep, Frame, Proved, taskVars, zoneVars, readVars,
     ProofFails, ProofTimeout, Create, Loads, ForwardFails, PlatformsUnload,
     PlatformsStay, Closed, CloseFails, Removed
<1>14. CASE \E c \in Coords : StartupStep(c) \/ CleanupEnds(c)
  BY <1>14, <1>1, <1>3 DEF StartupStep, Frame, StartupRuns, zoneVars, readVars,
     StartupConnects, StartupReads, taskVars, StartupFails, StartupCleansUp,
     StartupEnds, StartupCleanupFails, StartupBudget, StartupInterrupted, CleanupEnds
<1>15. CASE \E c \in Coords, z \in ZoneTasks : ZoneStep(c, z)
  BY <1>15, <1>1, <1>4, <1>5, <1>6 DEF ZoneStep, Frame, ZoneReads, taskVars, zoneVars,
     readVars
<1>16. CASE \E c \in Coords, w \in Readers : ReadBegins(c, w) \/ ReadReturns(c, w)
  BY <1>16, <1>7, <1>8
<1>17. CASE \E c \in Coords, k \in Closers : CloserStep(c, k)
  BY <1>17, <1>1 DEF CloserStep, Frame, CloserJoins, taskVars, zoneVars, readVars,
     CloserJoinTimeout, CloserPreStops, CloserPreStopped, CloserPreStopFails,
     CloserJoinsZones, CloserJoinsPollers, CloserPollersTimeout, CloserStopped,
     CloserStopFails
<1>18. CASE \E s \in Services : ServiceCalls(s) \/ ServiceReturns(s)
  BY <1>18, <1>1 DEF Frame, ServiceCalls, zoneVars, ServiceReturns
<1>19. CASE UNCHANGED vars
  BY <1>19, <1>1 DEF Frame, vars, zoneVars, readVars
<1>20. QED
  BY <1>9, <1>10, <1>11, <1>12, <1>13, <1>14, <1>15, <1>16, <1>17, <1>18, <1>19 DEF
     Next, HandlerStep

\* A startup begins for the runtime data, before that coordinator is complete.
LEMMA LiveBegins ==
    ASSUME TypeOK, EntryInv, NEW d \in Coords, Live(d)', ~Live(d), [Next]_vars
  PROVE  runtime' = d /\ d \notin complete'
<1> DEFINE Goal == runtime' = d /\ d \notin complete'
<1> DEFINE Frame == UNCHANGED <<startup>>
<1>1. ASSUME Frame PROVE Goal
  BY <1>1 DEF Live, TypeOK, StartType
<1>2. ASSUME Restart PROVE Goal
  BY <1>2 DEF Restart, EntryInv, ShutdownJoined, HandlerHolds, shutVars, EntryType,
     Live, TypeOK, StartType
<1>3. ASSUME NEW c \in Coords, StartOver(c) PROVE Goal
  BY <1>3 DEF StartOver, NewStartup, Reused, EntryInv, ShutdownJoined, HandlerHolds,
     shutVars, EntryType, Live, TypeOK, StartType
<1>4. ASSUME NEW c \in Coords, Joined(c) PROVE Goal
  BY <1>4 DEF Joined, NewStartup, startVars, EntryInv, ShutdownJoined, HandlerHolds,
     shutVars, holdVars, EntryType, Live, TypeOK, StartType
<1>5. ASSUME NEW c \in Coords, FenceWorks(c) PROVE Goal
  BY <1>5 DEF FenceWorks, NewStartup, EntryInv, ShutdownJoined, HandlerHolds,
     shutVars, EntryType, Live, TypeOK, StartType
<1>6. ASSUME NEW c \in Coords, Create(c) PROVE Goal
  BY <1>6 DEF Create, NewStartup, EntryInv, ShutdownJoined, HandlerHolds, shutVars,
     EntryType, Live, TypeOK, StartType
<1>7. ASSUME NEW c \in Coords, StartupRuns(c) PROVE Goal
  BY <1>7 DEF StartupRuns, EntryInv, ShutdownJoined, HandlerHolds, shutVars,
     EntryType, Live, TypeOK, StartType
<1>8. ASSUME NEW c \in Coords, StartupConnects(c) PROVE Goal
  BY <1>8 DEF StartupConnects, EntryInv, ShutdownJoined, HandlerHolds, shutVars,
     EntryType, Live, TypeOK, StartType
<1>9. ASSUME NEW c \in Coords, StartupSucceeds(c) PROVE Goal
  BY <1>9 DEF StartupSucceeds, EntryInv, ShutdownJoined, HandlerHolds, shutVars,
     EntryType, Live, TypeOK, StartType
<1>10. ASSUME NEW c \in Coords, StartupFails(c) PROVE Goal
  BY <1>10 DEF StartupFails, EntryInv, ShutdownJoined, HandlerHolds, shutVars,
     EntryType, Live, TypeOK, StartType
<1>11. ASSUME NEW c \in Coords, StartupCleansUp(c) PROVE Goal
  BY <1>11 DEF StartupCleansUp, StartupEnds, EntryInv, ShutdownJoined, HandlerHolds,
     shutVars, EntryType, Live, TypeOK, StartType
<1>12. ASSUME NEW c \in Coords, StartupCleanupFails(c) PROVE Goal
  BY <1>12 DEF StartupCleanupFails, StartupEnds, EntryInv, ShutdownJoined,
     HandlerHolds, shutVars, EntryType, Live, TypeOK, StartType
<1>13. ASSUME NEW c \in Coords, StartupBudget(c) PROVE Goal
  BY <1>13 DEF StartupBudget, EntryInv, ShutdownJoined, HandlerHolds, shutVars,
     EntryType, Live, TypeOK, StartType
<1>14. ASSUME NEW c \in Coords, StartupInterrupted(c) PROVE Goal
  BY <1>14 DEF StartupInterrupted, EntryInv, ShutdownJoined, HandlerHolds, shutVars,
     EntryType, Live, TypeOK, StartType
<1>15. CASE UserStep
  BY <1>15, <1>1 DEF UserStep, Frame, SetupBegins, taskVars, startVars, Reload,
     ListenersFire, CancelStartups, UnloadBegins, RemoveBegins, AddAgain
<1>16. CASE Restart
  BY <1>16, <1>2
<1>17. CASE StorageNotReady \/ BeginReplace \/ CallbacksEnd \/ RemoveEntry
  BY <1>17, <1>1 DEF Frame, StorageNotReady, startVars, BeginReplace, StartClose,
     CancelStartups, CallbacksEnd, ListenersFire, RemoveEntry
<1>18. CASE \E c \in Coords : WaitStep(c)
  BY <1>18, <1>1, <1>3, <1>4, <1>5 DEF WaitStep, Frame, JoinCancelled, taskVars,
     startVars, WaitSlice, FenceFirst, UseResult, SetupFails, StartClose,
     CancelStartups, JoinTimeout, FenceFails, SliceEnds, SliceTimeout
<1>19. CASE \E c \in Coords : EntryStep(c)
  BY <1>19, <1>1, <1>6 DEF EntryStep, Frame, Proved, taskVars, startVars, ProofFails,
     ProofTimeout, CancelStartups, Loads, ForwardFails, SetupFails, StartClose,
     PlatformsUnload, PlatformsStay, ListenersFire, Closed, CloseFails, Removed
<1>20. CASE \E c \in Coords : StartupStep(c) \/ CleanupEnds(c)
  BY <1>20, <1>1, <1>7, <1>8, <1>9, <1>10, <1>11, <1>12, <1>13, <1>14 DEF StartupStep,
     Frame, StartupReads, taskVars, startVars, CleanupEnds
<1>21. CASE \E c \in Coords, z \in ZoneTasks : ZoneStep(c, z)
  BY <1>21, <1>1 DEF ZoneStep, Frame, ZoneWakes, startVars, ZoneReads, taskVars,
     ZonePassEnds, ZoneInterrupted
<1>22. CASE \E c \in Coords, w \in Readers : ReadBegins(c, w) \/ ReadReturns(c, w)
  BY <1>22, <1>1 DEF Frame, ReadBegins, startVars, ReadReturns
<1>23. CASE \E c \in Coords, k \in Closers : CloserStep(c, k)
  BY <1>23, <1>1 DEF CloserStep, Frame, CloserJoins, taskVars, startVars,
     CloserJoinTimeout, CancelStartups, CloserPreStops, CloserPreStopped,
     CloserPreStopFails, CloserJoinsZones, CloserJoinsPollers, CloserPollersTimeout,
     CloserStopped, CloserStopFails
<1>24. CASE \E s \in Services : ServiceCalls(s) \/ ServiceReturns(s)
  BY <1>24, <1>1 DEF Frame, ServiceCalls, startVars, ServiceReturns
<1>25. CASE UNCHANGED vars
  BY <1>25, <1>1 DEF Frame, vars, startVars
<1>26. QED
  BY <1>15, <1>16, <1>17, <1>18, <1>19, <1>20, <1>21, <1>22, <1>23, <1>24, <1>25 DEF
     Next, HandlerStep

\* A shutdown is complete only after one of its callers stopped the backend.
LEMMA CompleteBegins ==
    ASSUME TypeOK, NEW d \in Coords, d \in complete', d \notin complete, [Next]_vars
  PROVE  Closed(d) \/ \E x \in Closers : CloserStopped(d, x)
<1> DEFINE Goal == Closed(d) \/ \E x \in Closers : CloserStopped(d, x)
<1> DEFINE Frame == UNCHANGED <<complete>>
<1>1. ASSUME Frame PROVE Goal
  BY <1>1
<1>2. ASSUME Restart PROVE Goal
  BY <1>2 DEF Restart, TypeOK, FlagType
<1>3. ASSUME NEW c \in Coords, Create(c) PROVE Goal
  BY <1>3 DEF Create, TypeOK, FlagType
<1>4. ASSUME NEW c \in Coords, NEW k \in Closers, CloserStopped(c, k) PROVE Goal
  <2>1. CASE c = d
    BY <1>4, <2>1
  <2>2. CASE c # d
    BY <1>4, <2>2 DEF CloserStopped, TypeOK, FlagType
  <2>3. QED BY <2>1, <2>2
<1>5. CASE UserStep
  BY <1>5, <1>1 DEF UserStep, Frame, SetupBegins, flagVars, Reload, shutVars,
     UnloadBegins, RemoveBegins, AddAgain
<1>6. CASE Restart
  BY <1>6, <1>2
<1>7. CASE StorageNotReady \/ BeginReplace \/ CallbacksEnd \/ RemoveEntry
  BY <1>7, <1>1 DEF Frame, StorageNotReady, flagVars, BeginReplace, CallbacksEnd,
     shutVars, RemoveEntry
<1>8. CASE \E c \in Coords : WaitStep(c)
  BY <1>8, <1>1 DEF WaitStep, Frame, JoinCancelled, shutVars, WaitSlice, FenceFirst,
     StartOver, UseResult, Joined, JoinTimeout, flagVars, FenceWorks, FenceFails,
     SliceEnds, SliceTimeout
<1>17. ASSUME NEW c \in Coords, Closed(c) PROVE Goal
  <2>1. CASE c = d
    BY <1>17, <2>1
  <2>2. CASE c # d
    BY <1>17, <2>2 DEF Closed, TypeOK, FlagType
  <2>3. QED BY <2>1, <2>2
<1>9. CASE \E c \in Coords : EntryStep(c)
  BY <1>9, <1>1, <1>3, <1>17 DEF EntryStep, Frame, Proved, shutVars, ProofFails, flagVars,
     ProofTimeout, Loads, ForwardFails, PlatformsUnload, PlatformsStay, CloseFails,
     Removed
<1>10. CASE \E c \in Coords : StartupStep(c) \/ CleanupEnds(c)
  BY <1>10, <1>1 DEF StartupStep, Frame, StartupRuns, flagVars, StartupConnects,
     StartupReads, StartupSucceeds, StartupFails, StartupCleansUp, StartupEnds,
     shutVars, StartupCleanupFails, StartupBudget, StartupInterrupted, CleanupEnds
<1>11. CASE \E c \in Coords, z \in ZoneTasks : ZoneStep(c, z)
  BY <1>11, <1>1 DEF ZoneStep, Frame, ZoneWakes, flagVars, ZoneReads, ZonePassEnds,
     ZoneInterrupted
<1>12. CASE \E c \in Coords, w \in Readers : ReadBegins(c, w) \/ ReadReturns(c, w)
  BY <1>12, <1>1 DEF Frame, ReadBegins, flagVars, ReadReturns
<1>13. CASE \E c \in Coords, k \in Closers : CloserStep(c, k)
  BY <1>13, <1>1, <1>4 DEF CloserStep, Frame, CloserJoins, flagVars,
     CloserJoinTimeout, CloserPreStops, CloserPreStopped, CloserPreStopFails,
     shutVars, CloserJoinsZones, CloserJoinsPollers, CloserPollersTimeout,
     CloserStopFails
<1>14. CASE \E s \in Services : ServiceCalls(s) \/ ServiceReturns(s)
  BY <1>14, <1>1 DEF Frame, ServiceCalls, flagVars, ServiceReturns
<1>15. CASE UNCHANGED vars
  BY <1>15, <1>1 DEF Frame, vars, flagVars
<1>16. QED
  BY <1>5, <1>6, <1>7, <1>8, <1>9, <1>10, <1>11, <1>12, <1>13, <1>14, <1>15 DEF Next,
     HandlerStep

\* Zone tasks are known from the success of the startup, or from another task.
LEMMA TrackedBegins ==
    ASSUME TypeOK, NEW d \in Coords, Tracked(d)' # {}, Tracked(d) = {}, [Next]_vars
  PROVE  StartupSucceeds(d) \/ \E x \in ZoneTasks : ZonePassEnds(d, x)
<1> DEFINE Goal == StartupSucceeds(d) \/ \E x \in ZoneTasks : ZonePassEnds(d, x)
<1> DEFINE Frame == UNCHANGED <<deferred, monitor>>
<1>1. ASSUME Frame PROVE Goal
  BY <1>1 DEF Tracked
<1>2. ASSUME Restart PROVE Goal
  BY <1>2 DEF Restart, TypeOK, ZoneType, Tracked
<1>3. ASSUME NEW c \in Coords, Create(c) PROVE Goal
  BY <1>3 DEF Create, TypeOK, ZoneType, Tracked
<1>4. ASSUME NEW c \in Coords, StartupSucceeds(c) PROVE Goal
  <2>1. CASE c = d
    BY <1>4, <2>1
  <2>2. CASE c # d
    BY <1>4, <2>2 DEF StartupSucceeds, Tracked, TypeOK, ZoneType
  <2>3. QED BY <2>1, <2>2
<1>5. ASSUME NEW c \in Coords, NEW z \in ZoneTasks, ZonePassEnds(c, z) PROVE Goal
  <2>1. CASE c = d
    BY <1>5, <2>1
  <2>2. CASE c # d
    BY <1>5, <2>2 DEF ZonePassEnds, Tracked, TypeOK, ZoneType
  <2>3. QED BY <2>1, <2>2
<1>6. ASSUME NEW c \in Coords, NEW k \in Closers, CloserJoinsZones(c, k) PROVE Goal
  BY <1>6 DEF CloserJoinsZones, TypeOK, ZoneType, Tracked
<1>7. CASE UserStep
  BY <1>7, <1>1 DEF UserStep, Frame, SetupBegins, taskVars, zoneVars, Reload,
     UnloadBegins, RemoveBegins, AddAgain
<1>8. CASE Restart
  BY <1>8, <1>2
<1>9. CASE StorageNotReady \/ BeginReplace \/ CallbacksEnd \/ RemoveEntry
  BY <1>9, <1>1 DEF Frame, StorageNotReady, BeginReplace, zoneVars, CallbacksEnd,
     RemoveEntry
<1>10. CASE \E c \in Coords : WaitStep(c)
  BY <1>10, <1>1 DEF WaitStep, Frame, JoinCancelled, taskVars, zoneVars, WaitSlice,
     FenceFirst, StartOver, UseResult, Joined, JoinTimeout, FenceWorks, FenceFails,
     SliceEnds, SliceTimeout
<1>11. CASE \E c \in Coords : EntryStep(c)
  BY <1>11, <1>1, <1>3 DEF EntryStep, Frame, Proved, taskVars, zoneVars, ProofFails,
     ProofTimeout, Loads, ForwardFails, PlatformsUnload, PlatformsStay, Closed,
     CloseFails, Removed
<1>12. CASE \E c \in Coords : StartupStep(c) \/ CleanupEnds(c)
  BY <1>12, <1>1, <1>4 DEF StartupStep, Frame, StartupRuns, zoneVars, StartupConnects,
     StartupReads, taskVars, StartupFails, StartupCleansUp, StartupEnds,
     StartupCleanupFails, StartupBudget, StartupInterrupted, CleanupEnds
<1>13. CASE \E c \in Coords, z \in ZoneTasks : ZoneStep(c, z)
  BY <1>13, <1>1, <1>5 DEF ZoneStep, Frame, ZoneWakes, ZoneReads, taskVars, zoneVars,
     ZoneInterrupted
<1>14. CASE \E c \in Coords, w \in Readers : ReadBegins(c, w) \/ ReadReturns(c, w)
  BY <1>14, <1>1 DEF Frame, ReadBegins, zoneVars, ReadReturns
<1>15. CASE \E c \in Coords, k \in Closers : CloserStep(c, k)
  BY <1>15, <1>1, <1>6 DEF CloserStep, Frame, CloserJoins, taskVars, zoneVars,
     CloserJoinTimeout, CloserPreStops, CloserPreStopped, CloserPreStopFails,
     CloserJoinsPollers, CloserPollersTimeout, CloserStopped, CloserStopFails
<1>16. CASE \E s \in Services : ServiceCalls(s) \/ ServiceReturns(s)
  BY <1>16, <1>1 DEF Frame, ServiceCalls, zoneVars, ServiceReturns
<1>17. CASE UNCHANGED vars
  BY <1>17, <1>1 DEF Frame, vars, zoneVars
<1>18. QED
  BY <1>7, <1>8, <1>9, <1>10, <1>11, <1>12, <1>13, <1>14, <1>15, <1>16, <1>17 DEF
     Next, HandlerStep

\* Success is forgotten only with the process or with the coordinator.
LEMMA OkStays ==
    ASSUME TypeOK, EntryInv, CancelArrives, StartedOnce, NEW d \in Coords, outcome[d] =
         "ok", [Next]_vars
  PROVE  outcome'[d] = "ok" \/ Restart \/ Create(d)
<1> DEFINE Goal == outcome'[d] = "ok" \/ Restart \/ Create(d)
<1> DEFINE Frame == UNCHANGED <<outcome>>
<1>1. ASSUME Frame PROVE Goal
  BY <1>1
<1>2. ASSUME Restart PROVE Goal
  BY <1>2 DEF Restart, EntryInv, ShutdownJoined, HandlerHolds, CancelArrives,
     StartedOnce, Live, TypeOK, StartType
<1>3. ASSUME NEW c \in Coords, StartOver(c) PROVE Goal
  BY <1>3 DEF StartOver, NewStartup, Reused, EntryInv, ShutdownJoined, HandlerHolds,
     CancelArrives, StartedOnce, Live, TypeOK, StartType
<1>4. ASSUME NEW c \in Coords, Joined(c) PROVE Goal
  BY <1>4 DEF Joined, NewStartup, startVars, EntryInv, ShutdownJoined, HandlerHolds,
     CancelArrives, StartedOnce, Live, TypeOK, StartType
<1>5. ASSUME NEW c \in Coords, FenceWorks(c) PROVE Goal
  BY <1>5 DEF FenceWorks, NewStartup, EntryInv, ShutdownJoined, HandlerHolds,
     CancelArrives, StartedOnce, Live, TypeOK, StartType
<1>6. ASSUME NEW c \in Coords, Create(c) PROVE Goal
  BY <1>6 DEF Create, NewStartup, EntryInv, ShutdownJoined, HandlerHolds,
     CancelArrives, StartedOnce, Live, TypeOK, StartType
<1>7. ASSUME NEW c \in Coords, StartupSucceeds(c) PROVE Goal
  BY <1>7 DEF StartupSucceeds, EntryInv, ShutdownJoined, HandlerHolds, CancelArrives,
     StartedOnce, Live, TypeOK, StartType
<1>8. ASSUME NEW c \in Coords, StartupFails(c) PROVE Goal
  BY <1>8 DEF StartupFails, EntryInv, ShutdownJoined, HandlerHolds, CancelArrives,
     StartedOnce, Live, TypeOK, StartType
<1>9. ASSUME NEW c \in Coords, StartupBudget(c) PROVE Goal
  BY <1>9 DEF StartupBudget, EntryInv, ShutdownJoined, HandlerHolds, CancelArrives,
     StartedOnce, Live, TypeOK, StartType
<1>10. ASSUME NEW c \in Coords, StartupInterrupted(c) PROVE Goal
  BY <1>10 DEF StartupInterrupted, EntryInv, ShutdownJoined, HandlerHolds,
     CancelArrives, StartedOnce, Live, TypeOK, StartType
<1>11. CASE UserStep
  BY <1>11, <1>1 DEF UserStep, Frame, SetupBegins, taskVars, startVars, Reload,
     ListenersFire, CancelStartups, UnloadBegins, RemoveBegins, AddAgain
<1>12. CASE Restart
  BY <1>12, <1>2
<1>13. CASE StorageNotReady \/ BeginReplace \/ CallbacksEnd \/ RemoveEntry
  BY <1>13, <1>1 DEF Frame, StorageNotReady, startVars, BeginReplace, StartClose,
     CancelStartups, CallbacksEnd, ListenersFire, RemoveEntry
<1>14. CASE \E c \in Coords : WaitStep(c)
  BY <1>14, <1>1, <1>3, <1>4, <1>5 DEF WaitStep, Frame, JoinCancelled, taskVars,
     startVars, WaitSlice, FenceFirst, UseResult, SetupFails, StartClose,
     CancelStartups, JoinTimeout, FenceFails, SliceEnds, SliceTimeout
<1>15. CASE \E c \in Coords : EntryStep(c)
  BY <1>15, <1>1, <1>6 DEF EntryStep, Frame, Proved, taskVars, startVars, ProofFails,
     ProofTimeout, CancelStartups, Loads, ForwardFails, SetupFails, StartClose,
     PlatformsUnload, PlatformsStay, ListenersFire, Closed, CloseFails, Removed
<1>16. CASE \E c \in Coords : StartupStep(c) \/ CleanupEnds(c)
  BY <1>16, <1>1, <1>7, <1>8, <1>9, <1>10 DEF StartupStep, Frame, StartupRuns,
     StartupConnects, StartupReads, taskVars, startVars, StartupCleansUp, StartupEnds,
     StartupCleanupFails, CleanupEnds
<1>17. CASE \E c \in Coords, z \in ZoneTasks : ZoneStep(c, z)
  BY <1>17, <1>1 DEF ZoneStep, Frame, ZoneWakes, startVars, ZoneReads, taskVars,
     ZonePassEnds, ZoneInterrupted
<1>18. CASE \E c \in Coords, w \in Readers : ReadBegins(c, w) \/ ReadReturns(c, w)
  BY <1>18, <1>1 DEF Frame, ReadBegins, startVars, ReadReturns
<1>19. CASE \E c \in Coords, k \in Closers : CloserStep(c, k)
  BY <1>19, <1>1 DEF CloserStep, Frame, CloserJoins, taskVars, startVars,
     CloserJoinTimeout, CancelStartups, CloserPreStops, CloserPreStopped,
     CloserPreStopFails, CloserJoinsZones, CloserJoinsPollers, CloserPollersTimeout,
     CloserStopped, CloserStopFails
<1>20. CASE \E s \in Services : ServiceCalls(s) \/ ServiceReturns(s)
  BY <1>20, <1>1 DEF Frame, ServiceCalls, startVars, ServiceReturns
<1>21. CASE UNCHANGED vars
  BY <1>21, <1>1 DEF Frame, vars, startVars
<1>22. QED
  BY <1>11, <1>12, <1>13, <1>14, <1>15, <1>16, <1>17, <1>18, <1>19, <1>20, <1>21 DEF
     Next, HandlerStep

\* deferred forgets no zone task where a startup succeeds only once.
LEMMA LostStep ==
    ASSUME TypeOK, CancelArrives, WorkAfterSuccess, NEW d \in Coords, [Next]_vars
  PROVE  lost'[d] = {}
<1> DEFINE Frame == UNCHANGED <<lost>>
<1>1. ASSUME Frame PROVE lost'[d] = {}
  BY <1>1 DEF WorkAfterSuccess
<1>2. ASSUME Restart PROVE lost'[d] = {}
  BY <1>2, ModelAssumption DEF Restart, CancelArrives, WorkAfterSuccess, Tracked,
     Live, TypeOK, StartType, ZoneType, WorkAfterSuccess
<1>3. ASSUME NEW c \in Coords, Create(c) PROVE lost'[d] = {}
  BY <1>3, ModelAssumption DEF Create, CancelArrives, WorkAfterSuccess, Tracked, Live,
     TypeOK, StartType, ZoneType, WorkAfterSuccess
<1>4. ASSUME NEW c \in Coords, StartupSucceeds(c) PROVE lost'[d] = {}
  BY <1>4, ModelAssumption DEF StartupSucceeds, CancelArrives, WorkAfterSuccess,
     Tracked, Live, TypeOK, StartType, ZoneType, WorkAfterSuccess
<1>5. CASE UserStep
  BY <1>5, <1>1 DEF UserStep, Frame, SetupBegins, taskVars, zoneVars, Reload,
     UnloadBegins, RemoveBegins, AddAgain
<1>6. CASE Restart
  BY <1>6, <1>2
<1>7. CASE StorageNotReady \/ BeginReplace \/ CallbacksEnd \/ RemoveEntry
  BY <1>7, <1>1 DEF Frame, StorageNotReady, BeginReplace, zoneVars, CallbacksEnd,
     RemoveEntry
<1>8. CASE \E c \in Coords : WaitStep(c)
  BY <1>8, <1>1 DEF WaitStep, Frame, JoinCancelled, taskVars, zoneVars, WaitSlice,
     FenceFirst, StartOver, UseResult, Joined, JoinTimeout, FenceWorks, FenceFails,
     SliceEnds, SliceTimeout
<1>9. CASE \E c \in Coords : EntryStep(c)
  BY <1>9, <1>1, <1>3 DEF EntryStep, Frame, Proved, taskVars, zoneVars, ProofFails,
     ProofTimeout, Loads, ForwardFails, PlatformsUnload, PlatformsStay, Closed,
     CloseFails, Removed
<1>10. CASE \E c \in Coords : StartupStep(c) \/ CleanupEnds(c)
  BY <1>10, <1>1, <1>4 DEF StartupStep, Frame, StartupRuns, zoneVars, StartupConnects,
     StartupReads, taskVars, StartupFails, StartupCleansUp, StartupEnds,
     StartupCleanupFails, StartupBudget, StartupInterrupted, CleanupEnds
<1>11. CASE \E c \in Coords, z \in ZoneTasks : ZoneStep(c, z)
  BY <1>11, <1>1 DEF ZoneStep, Frame, ZoneWakes, ZoneReads, taskVars, zoneVars,
     ZonePassEnds, ZoneInterrupted
<1>12. CASE \E c \in Coords, w \in Readers : ReadBegins(c, w) \/ ReadReturns(c, w)
  BY <1>12, <1>1 DEF Frame, ReadBegins, zoneVars, ReadReturns
<1>13. CASE \E c \in Coords, k \in Closers : CloserStep(c, k)
  BY <1>13, <1>1 DEF CloserStep, Frame, CloserJoins, taskVars, zoneVars,
     CloserJoinTimeout, CloserPreStops, CloserPreStopped, CloserPreStopFails,
     CloserJoinsZones, CloserJoinsPollers, CloserPollersTimeout, CloserStopped,
     CloserStopFails
<1>14. CASE \E s \in Services : ServiceCalls(s) \/ ServiceReturns(s)
  BY <1>14, <1>1 DEF Frame, ServiceCalls, zoneVars, ServiceReturns
<1>15. CASE UNCHANGED vars
  BY <1>15, <1>1 DEF Frame, vars, zoneVars
<1>16. QED
  BY <1>5, <1>6, <1>7, <1>8, <1>9, <1>10, <1>11, <1>12, <1>13, <1>14, <1>15 DEF Next,
     HandlerStep

\* The removal of the entry drops a coordinator that is shutting down.
LEMMA AbandonedStep ==
    ASSUME TypeOK, EntryInv, abandoned \subseteq shutting, [Next]_vars
  PROVE  abandoned' \subseteq shutting'
<1> DEFINE Goal == abandoned' \subseteq shutting'
<1> DEFINE Frame == UNCHANGED <<abandoned, shutting>>
<1>1. ASSUME Frame PROVE Goal
  BY <1>1 DEF TypeOK
<1>2. ASSUME Restart PROVE Goal
  BY <1>2 DEF Restart, EntryInv, ShutdownJoined, HandlerHolds, Closers, CloserType,
     FlagType, EntryType, TypeOK
<1>3. ASSUME BeginReplace PROVE Goal
  BY <1>3 DEF BeginReplace, StartClose, holdVars, EntryInv, ShutdownJoined,
     HandlerHolds, Closers, CloserType, FlagType, EntryType, TypeOK
<1>4. ASSUME RemoveEntry PROVE Goal
  BY <1>4 DEF RemoveEntry, StartClose, holdVars, EntryInv, ShutdownJoined,
     HandlerHolds, Closers, CloserType, FlagType, EntryType, TypeOK
<1>5. ASSUME NEW c \in Coords, UseResult(c) PROVE Goal
  BY <1>5 DEF UseResult, SetupFails, StartClose, EntryInv, ShutdownJoined,
     HandlerHolds, Closers, CloserType, FlagType, EntryType, TypeOK
<1>6. ASSUME NEW c \in Coords, SliceEnds(c) PROVE Goal
  BY <1>6 DEF SliceEnds, SetupFails, StartClose, EntryInv, ShutdownJoined,
     HandlerHolds, Closers, CloserType, FlagType, EntryType, TypeOK
<1>7. ASSUME NEW c \in Coords, Create(c) PROVE Goal
  BY <1>7 DEF Create, EntryInv, ShutdownJoined, HandlerHolds, Closers, CloserType,
     FlagType, EntryType, TypeOK
<1>8. ASSUME NEW c \in Coords, ForwardFails(c) PROVE Goal
  BY <1>8 DEF ForwardFails, SetupFails, StartClose, holdVars, EntryInv,
     ShutdownJoined, HandlerHolds, Closers, CloserType, FlagType, EntryType, TypeOK
<1>9. ASSUME NEW c \in Coords, PlatformsUnload(c) PROVE Goal
  BY <1>9 DEF PlatformsUnload, StartClose, EntryInv, ShutdownJoined, HandlerHolds,
     Closers, CloserType, FlagType, EntryType, TypeOK
<1>10. ASSUME NEW c \in Coords, Removed(c) PROVE Goal
  BY <1>10 DEF Removed, shutVars, EntryInv, ShutdownJoined, HandlerHolds, Closers,
     CloserType, FlagType, EntryType, TypeOK
<1>11. CASE UserStep
  BY <1>11, <1>1 DEF UserStep, Frame, SetupBegins, flagVars, holdVars, Reload,
     shutVars, UnloadBegins, RemoveBegins, AddAgain
<1>12. CASE Restart
  BY <1>12, <1>2
<1>13. CASE StorageNotReady \/ BeginReplace \/ CallbacksEnd \/ RemoveEntry
  BY <1>13, <1>1, <1>3, <1>4 DEF Frame, StorageNotReady, flagVars, holdVars,
     CallbacksEnd, shutVars
<1>14. CASE \E c \in Coords : WaitStep(c)
  BY <1>14, <1>1, <1>5, <1>6 DEF WaitStep, Frame, JoinCancelled, holdVars, shutVars,
     WaitSlice, FenceFirst, StartOver, Joined, JoinTimeout, flagVars, FenceWorks,
     FenceFails, SliceTimeout
<1>15. CASE \E c \in Coords : EntryStep(c)
  BY <1>15, <1>1, <1>7, <1>8, <1>9, <1>10 DEF EntryStep, Frame, Proved, holdVars,
     shutVars, ProofFails, flagVars, ProofTimeout, Loads, PlatformsStay, Closed,
     CloseFails
<1>16. CASE \E c \in Coords : StartupStep(c) \/ CleanupEnds(c)
  BY <1>16, <1>1 DEF StartupStep, Frame, StartupRuns, entryVars, flagVars,
     StartupConnects, StartupReads, StartupSucceeds, StartupFails, StartupCleansUp,
     StartupEnds, shutVars, StartupCleanupFails, StartupBudget, StartupInterrupted,
     CleanupEnds, holdVars
<1>17. CASE \E c \in Coords, z \in ZoneTasks : ZoneStep(c, z)
  BY <1>17, <1>1 DEF ZoneStep, Frame, ZoneWakes, entryVars, flagVars, ZoneReads,
     ZonePassEnds, ZoneInterrupted
<1>18. CASE \E c \in Coords, w \in Readers : ReadBegins(c, w) \/ ReadReturns(c, w)
  BY <1>18, <1>1 DEF Frame, ReadBegins, entryVars, flagVars, ReadReturns
<1>19. CASE \E c \in Coords, k \in Closers : CloserStep(c, k)
  BY <1>19, <1>1 DEF CloserStep, Frame, CloserJoins, entryVars, flagVars,
     CloserJoinTimeout, CloserPreStops, CloserPreStopped, CloserPreStopFails,
     shutVars, CloserJoinsZones, CloserJoinsPollers, CloserPollersTimeout,
     CloserStopped, CloserStopFails
<1>20. CASE \E s \in Services : ServiceCalls(s) \/ ServiceReturns(s)
  BY <1>20, <1>1 DEF Frame, ServiceCalls, entryVars, flagVars, ServiceReturns
<1>21. CASE UNCHANGED vars
  BY <1>21, <1>1 DEF Frame, vars, entryVars, flagVars
<1>22. QED
  BY <1>11, <1>12, <1>13, <1>14, <1>15, <1>16, <1>17, <1>18, <1>19, <1>20, <1>21 DEF
     Next, HandlerStep

-----------------------------------------------------------------------------
(* The parts of OwnerInv, each from those before it.                       *)

\* No action lets a startup succeed over a cancellation.
LEMMA CancelArrivesStep ==
    ASSUME TypeOK, TypeOK', CancelArrives, [Next]_vars
  PROVE  CancelArrives'
<1> DEFINE Frame == UNCHANGED <<retryable, startup, outcome, asked, hit>>
<1>1. ASSUME Frame PROVE CancelArrives'
  BY <1>1 DEF CancelArrives, Live, TypeOK, StartType, FlagType
<1>2. ASSUME Reload PROVE CancelArrives'
  BY <1>2 DEF Reload, ListenersFire, CancelStartups, CancelArrives, Live, TypeOK,
     StartType, FlagType
<1>3. ASSUME UnloadBegins PROVE CancelArrives'
  BY <1>3 DEF UnloadBegins, ListenersFire, CancelStartups, CancelArrives, Live,
     TypeOK, StartType, FlagType
<1>4. ASSUME RemoveBegins PROVE CancelArrives'
  BY <1>4 DEF RemoveBegins, ListenersFire, CancelStartups, startVars, CancelArrives,
     Live, TypeOK, StartType, FlagType
<1>5. ASSUME Restart PROVE CancelArrives'
  BY <1>5 DEF Restart, CancelArrives, Live, TypeOK, StartType, FlagType
<1>6. ASSUME BeginReplace PROVE CancelArrives'
  BY <1>6 DEF BeginReplace, StartClose, CancelStartups, startVars, CancelArrives,
     Live, TypeOK, StartType, FlagType
<1>7. ASSUME CallbacksEnd PROVE CancelArrives'
  BY <1>7 DEF CallbacksEnd, ListenersFire, CancelStartups, startVars, CancelArrives,
     Live, TypeOK, StartType, FlagType
<1>8. ASSUME RemoveEntry PROVE CancelArrives'
  BY <1>8 DEF RemoveEntry, StartClose, CancelStartups, startVars, CancelArrives, Live,
     TypeOK, StartType, FlagType
<1>9. ASSUME NEW c \in Coords, StartOver(c) PROVE CancelArrives'
  BY <1>9 DEF StartOver, NewStartup, Reused, CancelArrives, Live, TypeOK, StartType,
     FlagType
<1>10. ASSUME NEW c \in Coords, UseResult(c) PROVE CancelArrives'
  BY <1>10 DEF UseResult, SetupFails, StartClose, CancelStartups, Reused, startVars,
     CancelArrives, Live, TypeOK, StartType, FlagType
<1>11. ASSUME NEW c \in Coords, Joined(c) PROVE CancelArrives'
  BY <1>11 DEF Joined, NewStartup, startVars, CancelArrives, Live, TypeOK, StartType,
     FlagType
<1>12. ASSUME NEW c \in Coords, JoinTimeout(c) PROVE CancelArrives'
  BY <1>12 DEF JoinTimeout, CancelStartups, flagVars, CancelArrives, Live, TypeOK,
     StartType, FlagType
<1>13. ASSUME NEW c \in Coords, FenceWorks(c) PROVE CancelArrives'
  BY <1>13 DEF FenceWorks, NewStartup, CancelArrives, Live, TypeOK, StartType,
     FlagType
<1>14. ASSUME NEW c \in Coords, SliceEnds(c) PROVE CancelArrives'
  BY <1>14 DEF SliceEnds, SetupFails, StartClose, CancelStartups, startVars,
     CancelArrives, Live, TypeOK, StartType, FlagType
<1>15. ASSUME NEW c \in Coords, ProofTimeout(c) PROVE CancelArrives'
  BY <1>15 DEF ProofTimeout, CancelStartups, flagVars, startVars, CancelArrives, Live,
     TypeOK, StartType, FlagType
<1>16. ASSUME NEW c \in Coords, Create(c) PROVE CancelArrives'
  BY <1>16 DEF Create, NewStartup, Unused, CancelArrives, Live, TypeOK, StartType,
     FlagType
<1>17. ASSUME NEW c \in Coords, ForwardFails(c) PROVE CancelArrives'
  BY <1>17 DEF ForwardFails, SetupFails, StartClose, CancelStartups, startVars,
     CancelArrives, Live, TypeOK, StartType, FlagType
<1>18. ASSUME NEW c \in Coords, PlatformsUnload(c) PROVE CancelArrives'
  BY <1>18 DEF PlatformsUnload, StartClose, CancelStartups, startVars, CancelArrives,
     Live, TypeOK, StartType, FlagType
<1>19. ASSUME NEW c \in Coords, PlatformsStay(c) PROVE CancelArrives'
  BY <1>19 DEF PlatformsStay, ListenersFire, CancelStartups, CancelArrives, Live,
     TypeOK, StartType, FlagType
<1>20. ASSUME NEW c \in Coords, CloseFails(c) PROVE CancelArrives'
  BY <1>20 DEF CloseFails, ListenersFire, CancelStartups, CancelArrives, Live, TypeOK,
     StartType, FlagType
<1>21. ASSUME NEW c \in Coords, StartupRuns(c) PROVE CancelArrives'
  BY <1>21 DEF StartupRuns, flagVars, CancelArrives, Live, TypeOK, StartType, FlagType
<1>22. ASSUME NEW c \in Coords, StartupConnects(c) PROVE CancelArrives'
  BY <1>22 DEF StartupConnects, flagVars, CancelArrives, Live, TypeOK, StartType,
     FlagType
<1>23. ASSUME NEW c \in Coords, StartupSucceeds(c) PROVE CancelArrives'
  BY <1>23 DEF StartupSucceeds, flagVars, CancelArrives, Live, TypeOK, StartType,
     FlagType
<1>24. ASSUME NEW c \in Coords, StartupFails(c) PROVE CancelArrives'
  BY <1>24 DEF StartupFails, flagVars, CancelArrives, Live, TypeOK, StartType,
     FlagType
<1>25. ASSUME NEW c \in Coords, StartupCleansUp(c) PROVE CancelArrives'
  BY <1>25 DEF StartupCleansUp, StartupEnds, Retryable, CancelArrives, Live, TypeOK,
     StartType, FlagType
<1>26. ASSUME NEW c \in Coords, StartupCleanupFails(c) PROVE CancelArrives'
  BY <1>26 DEF StartupCleanupFails, StartupEnds, Retryable, CancelArrives, Live,
     TypeOK, StartType, FlagType
<1>27. ASSUME NEW c \in Coords, StartupBudget(c) PROVE CancelArrives'
  BY <1>27 DEF StartupBudget, Retryable, CancelArrives, Live, TypeOK, StartType,
     FlagType
<1>28. ASSUME NEW c \in Coords, StartupInterrupted(c) PROVE CancelArrives'
  BY <1>28 DEF StartupInterrupted, Retryable, CancelArrives, Live, TypeOK, StartType,
     FlagType
<1>29. ASSUME NEW c \in Coords, NEW k \in Closers, CloserJoinTimeout(c, k)
       PROVE  CancelArrives'
  BY <1>29 DEF CloserJoinTimeout, CancelStartups, flagVars, CancelArrives, Live,
     TypeOK, StartType, FlagType
<1>30. CASE UserStep
  BY <1>30, <1>1, <1>2, <1>3, <1>4 DEF UserStep, Frame, SetupBegins, flagVars,
     taskVars, startVars, AddAgain
<1>31. CASE Restart
  BY <1>31, <1>5
<1>32. CASE StorageNotReady \/ BeginReplace \/ CallbacksEnd \/ RemoveEntry
  BY <1>32, <1>1, <1>6, <1>7, <1>8 DEF Frame, StorageNotReady, flagVars, startVars
<1>33. CASE \E c \in Coords : WaitStep(c)
  BY <1>33, <1>1, <1>9, <1>10, <1>11, <1>12, <1>13, <1>14 DEF WaitStep, Frame,
     JoinCancelled, taskVars, startVars, WaitSlice, FenceFirst, FenceFails,
     SliceTimeout, flagVars
<1>34. CASE \E c \in Coords : EntryStep(c)
  BY <1>34, <1>1, <1>15, <1>16, <1>17, <1>18, <1>19, <1>20 DEF EntryStep, Frame,
     Proved, taskVars, startVars, ProofFails, flagVars, Loads, Closed, Removed
<1>35. CASE \E c \in Coords : StartupStep(c) \/ CleanupEnds(c)
  BY <1>35, <1>1, <1>21, <1>22, <1>23, <1>24, <1>25, <1>26, <1>27, <1>28 DEF
     StartupStep, Frame, StartupReads, flagVars, taskVars, startVars, CleanupEnds
<1>36. CASE \E c \in Coords, z \in ZoneTasks : ZoneStep(c, z)
  BY <1>36, <1>1 DEF ZoneStep, Frame, ZoneWakes, flagVars, startVars, ZoneReads,
     taskVars, ZonePassEnds, ZoneInterrupted
<1>37. CASE \E c \in Coords, w \in Readers : ReadBegins(c, w) \/ ReadReturns(c, w)
  BY <1>37, <1>1 DEF Frame, ReadBegins, flagVars, startVars, ReadReturns
<1>38. CASE \E c \in Coords, k \in Closers : CloserStep(c, k)
  BY <1>38, <1>1, <1>29 DEF CloserStep, Frame, CloserJoins, flagVars, taskVars,
     startVars, CloserPreStops, CloserPreStopped, CloserPreStopFails,
     CloserJoinsZones, CloserJoinsPollers, CloserPollersTimeout, CloserStopped,
     CloserStopFails
<1>39. CASE \E s \in Services : ServiceCalls(s) \/ ServiceReturns(s)
  BY <1>39, <1>1 DEF Frame, ServiceCalls, flagVars, startVars, ServiceReturns
<1>40. CASE UNCHANGED vars
  BY <1>40, <1>1 DEF Frame, vars, flagVars, startVars
<1>41. QED
  BY <1>30, <1>31, <1>32, <1>33, <1>34, <1>35, <1>36, <1>37, <1>38, <1>39, <1>40 DEF
     Next, HandlerStep

\* Listeners belong to the coordinator of the entry and end with its setup.
LEMMA ListensForEntryStep ==
    ASSUME TypeOK, TypeOK', EntryInv, ListensForEntry, [Next]_vars
  PROVE  ListensForEntry'
<1> DEFINE Frame == UNCHANGED <<entry, runtime, ha, listening, shutting>>
<1>1. ASSUME Frame PROVE ListensForEntry'
  BY <1>1 DEF ListensForEntry, TypeOK, EntryType, FlagType
<1>2. ASSUME SetupBegins PROVE ListensForEntry'
  BY <1>2 DEF SetupBegins, HaTo, flagVars, EntryInv, ShutdownJoined, HandlerHolds,
     LoadedIsLive, RuntimeLives, ListensForEntry, TypeOK, EntryType, FlagType
<1>3. ASSUME Reload PROVE ListensForEntry'
  BY <1>3 DEF Reload, shutVars, EntryInv, ShutdownJoined, HandlerHolds, LoadedIsLive,
     RuntimeLives, ListensForEntry, TypeOK, EntryType, FlagType
<1>4. ASSUME UnloadBegins PROVE ListensForEntry'
  BY <1>4 DEF UnloadBegins, HaTo, shutVars, EntryInv, ShutdownJoined, HandlerHolds,
     LoadedIsLive, RuntimeLives, ListensForEntry, TypeOK, EntryType, FlagType
<1>5. ASSUME RemoveBegins PROVE ListensForEntry'
  BY <1>5 DEF RemoveBegins, HaTo, shutVars, EntryInv, ShutdownJoined, HandlerHolds,
     LoadedIsLive, RuntimeLives, ListensForEntry, TypeOK, EntryType, FlagType
<1>6. ASSUME AddAgain PROVE ListensForEntry'
  BY <1>6 DEF AddAgain, flagVars, EntryInv, ShutdownJoined, HandlerHolds,
     LoadedIsLive, RuntimeLives, ListensForEntry, TypeOK, EntryType, FlagType
<1>7. ASSUME Restart PROVE ListensForEntry'
  BY <1>7 DEF Restart, HaTo, EntryInv, ShutdownJoined, HandlerHolds, LoadedIsLive,
     RuntimeLives, ListensForEntry, TypeOK, EntryType, FlagType
<1>8. ASSUME StorageNotReady PROVE ListensForEntry'
  BY <1>8 DEF StorageNotReady, NotReady, HaTo, flagVars, EntryInv, ShutdownJoined,
     HandlerHolds, LoadedIsLive, RuntimeLives, ListensForEntry, TypeOK, EntryType,
     FlagType
<1>9. ASSUME BeginReplace PROVE ListensForEntry'
  BY <1>9 DEF BeginReplace, HaTo, StartClose, EntryInv, ShutdownJoined, HandlerHolds,
     LoadedIsLive, RuntimeLives, ListensForEntry, TypeOK, EntryType, FlagType
<1>10. ASSUME CallbacksEnd PROVE ListensForEntry'
  BY <1>10 DEF CallbacksEnd, HaTo, shutVars, EntryInv, ShutdownJoined, HandlerHolds,
     LoadedIsLive, RuntimeLives, ListensForEntry, TypeOK, EntryType, FlagType
<1>11. ASSUME RemoveEntry PROVE ListensForEntry'
  BY <1>11 DEF RemoveEntry, HaTo, StartClose, EntryInv, ShutdownJoined, HandlerHolds,
     LoadedIsLive, RuntimeLives, ListensForEntry, TypeOK, EntryType, FlagType
<1>12. ASSUME NEW c \in Coords, JoinCancelled(c) PROVE ListensForEntry'
  BY <1>12 DEF JoinCancelled, HaTo, Listens, Reused, shutVars, EntryInv,
     ShutdownJoined, HandlerHolds, LoadedIsLive, RuntimeLives, ListensForEntry,
     TypeOK, EntryType, FlagType
<1>13. ASSUME NEW c \in Coords, WaitSlice(c) PROVE ListensForEntry'
  BY <1>13 DEF WaitSlice, HaTo, Listens, Reused, shutVars, EntryInv, ShutdownJoined,
     HandlerHolds, LoadedIsLive, RuntimeLives, ListensForEntry, TypeOK, EntryType,
     FlagType
<1>14. ASSUME NEW c \in Coords, FenceFirst(c) PROVE ListensForEntry'
  BY <1>14 DEF FenceFirst, HaTo, Listens, Reused, shutVars, EntryInv, ShutdownJoined,
     HandlerHolds, LoadedIsLive, RuntimeLives, ListensForEntry, TypeOK, EntryType,
     FlagType
<1>15. ASSUME NEW c \in Coords, StartOver(c) PROVE ListensForEntry'
  BY <1>15 DEF StartOver, NewStartup, HaTo, Listens, Reused, shutVars, EntryInv,
     ShutdownJoined, HandlerHolds, LoadedIsLive, RuntimeLives, ListensForEntry,
     TypeOK, EntryType, FlagType
<1>16. ASSUME NEW c \in Coords, UseResult(c) PROVE ListensForEntry'
  BY <1>16 DEF UseResult, HaTo, SetupFails, StartClose, Listens, Reused, EntryInv,
     ShutdownJoined, HandlerHolds, LoadedIsLive, RuntimeLives, ListensForEntry,
     TypeOK, EntryType, FlagType
<1>17. ASSUME NEW c \in Coords, Joined(c) PROVE ListensForEntry'
  BY <1>17 DEF Joined, HaTo, NewStartup, shutVars, EntryInv, ShutdownJoined,
     HandlerHolds, LoadedIsLive, RuntimeLives, ListensForEntry, TypeOK, EntryType,
     FlagType
<1>18. ASSUME NEW c \in Coords, JoinTimeout(c) PROVE ListensForEntry'
  BY <1>18 DEF JoinTimeout, NotReady, HaTo, flagVars, EntryInv, ShutdownJoined,
     HandlerHolds, LoadedIsLive, RuntimeLives, ListensForEntry, TypeOK, EntryType,
     FlagType
<1>19. ASSUME NEW c \in Coords, FenceWorks(c) PROVE ListensForEntry'
  BY <1>19 DEF FenceWorks, NewStartup, HaTo, shutVars, EntryInv, ShutdownJoined,
     HandlerHolds, LoadedIsLive, RuntimeLives, ListensForEntry, TypeOK, EntryType,
     FlagType
<1>20. ASSUME NEW c \in Coords, FenceFails(c) PROVE ListensForEntry'
  BY <1>20 DEF FenceFails, NotReady, HaTo, shutVars, EntryInv, ShutdownJoined,
     HandlerHolds, LoadedIsLive, RuntimeLives, ListensForEntry, TypeOK, EntryType,
     FlagType
<1>21. ASSUME NEW c \in Coords, SliceEnds(c) PROVE ListensForEntry'
  BY <1>21 DEF SliceEnds, HaTo, NotReady, SetupFails, StartClose, EntryInv,
     ShutdownJoined, HandlerHolds, LoadedIsLive, RuntimeLives, ListensForEntry,
     TypeOK, EntryType, FlagType
<1>22. ASSUME NEW c \in Coords, SliceTimeout(c) PROVE ListensForEntry'
  BY <1>22 DEF SliceTimeout, NotReady, HaTo, flagVars, EntryInv, ShutdownJoined,
     HandlerHolds, LoadedIsLive, RuntimeLives, ListensForEntry, TypeOK, EntryType,
     FlagType
<1>23. ASSUME NEW c \in Coords, Proved(c) PROVE ListensForEntry'
  BY <1>23 DEF Proved, HaTo, shutVars, EntryInv, ShutdownJoined, HandlerHolds,
     LoadedIsLive, RuntimeLives, ListensForEntry, TypeOK, EntryType, FlagType
<1>24. ASSUME NEW c \in Coords, ProofFails(c) PROVE ListensForEntry'
  BY <1>24 DEF ProofFails, NotReady, HaTo, flagVars, EntryInv, ShutdownJoined,
     HandlerHolds, LoadedIsLive, RuntimeLives, ListensForEntry, TypeOK, EntryType,
     FlagType
<1>25. ASSUME NEW c \in Coords, ProofTimeout(c) PROVE ListensForEntry'
  BY <1>25 DEF ProofTimeout, NotReady, HaTo, flagVars, EntryInv, ShutdownJoined,
     HandlerHolds, LoadedIsLive, RuntimeLives, ListensForEntry, TypeOK, EntryType,
     FlagType
<1>26. ASSUME NEW c \in Coords, Create(c) PROVE ListensForEntry'
  BY <1>26, ModelAssumption DEF Create, NewStartup, HaTo, NewStartup, ListensForEntry,
     TypeOK, EntryType, FlagType
<1>27. ASSUME NEW c \in Coords, Loads(c) PROVE ListensForEntry'
  BY <1>27 DEF Loads, HaTo, shutVars, EntryInv, ShutdownJoined, HandlerHolds,
     LoadedIsLive, RuntimeLives, ListensForEntry, TypeOK, EntryType, FlagType
<1>28. ASSUME NEW c \in Coords, ForwardFails(c) PROVE ListensForEntry'
  BY <1>28 DEF ForwardFails, SetupFails, HaTo, StartClose, EntryInv, ShutdownJoined,
     HandlerHolds, LoadedIsLive, RuntimeLives, ListensForEntry, TypeOK, EntryType,
     FlagType
<1>29. ASSUME NEW c \in Coords, PlatformsUnload(c) PROVE ListensForEntry'
  BY <1>29 DEF PlatformsUnload, HaTo, StartClose, EntryInv, ShutdownJoined,
     HandlerHolds, LoadedIsLive, RuntimeLives, ListensForEntry, TypeOK, EntryType,
     FlagType
<1>30. ASSUME NEW c \in Coords, PlatformsStay(c) PROVE ListensForEntry'
  BY <1>30 DEF PlatformsStay, HaTo, shutVars, EntryInv, ShutdownJoined, HandlerHolds,
     LoadedIsLive, RuntimeLives, ListensForEntry, TypeOK, EntryType, FlagType
<1>31. ASSUME NEW c \in Coords, Closed(c) PROVE ListensForEntry'
  BY <1>31 DEF Closed, HaTo, shutVars, EntryInv, ShutdownJoined, HandlerHolds,
     LoadedIsLive, RuntimeLives, ListensForEntry, TypeOK, EntryType, FlagType
<1>32. ASSUME NEW c \in Coords, CloseFails(c) PROVE ListensForEntry'
  BY <1>32 DEF CloseFails, HaTo, shutVars, EntryInv, ShutdownJoined, HandlerHolds,
     LoadedIsLive, RuntimeLives, ListensForEntry, TypeOK, EntryType, FlagType
<1>33. ASSUME NEW c \in Coords, Removed(c) PROVE ListensForEntry'
  BY <1>33 DEF Removed, HaTo, shutVars, EntryInv, ShutdownJoined, HandlerHolds,
     LoadedIsLive, RuntimeLives, ListensForEntry, TypeOK, EntryType, FlagType
<1>34. ASSUME NEW c \in Coords, CleanupEnds(c) PROVE ListensForEntry'
  BY <1>34 DEF CleanupEnds, shutVars, EntryInv, ShutdownJoined, HandlerHolds,
     LoadedIsLive, RuntimeLives, ListensForEntry, TypeOK, EntryType, FlagType
<1>35. CASE UserStep
  BY <1>35, <1>2, <1>3, <1>4, <1>5, <1>6 DEF UserStep
<1>36. CASE Restart
  BY <1>36, <1>7
<1>37. CASE StorageNotReady \/ BeginReplace \/ CallbacksEnd \/ RemoveEntry
  BY <1>37, <1>8, <1>9, <1>10, <1>11
<1>38. CASE \E c \in Coords : WaitStep(c)
  BY <1>38, <1>12, <1>13, <1>14, <1>15, <1>16, <1>17, <1>18, <1>19, <1>20, <1>21,
     <1>22 DEF WaitStep
<1>39. CASE \E c \in Coords : EntryStep(c)
  BY <1>39, <1>23, <1>24, <1>25, <1>26, <1>27, <1>28, <1>29, <1>30, <1>31, <1>32,
     <1>33 DEF EntryStep
<1>40. CASE \E c \in Coords : StartupStep(c) \/ CleanupEnds(c)
  BY <1>40, <1>1, <1>34 DEF StartupStep, Frame, StartupRuns, entryVars, flagVars,
     StartupConnects, StartupReads, StartupSucceeds, StartupFails, StartupCleansUp,
     StartupEnds, shutVars, StartupCleanupFails, StartupBudget, StartupInterrupted
<1>41. CASE \E c \in Coords, z \in ZoneTasks : ZoneStep(c, z)
  BY <1>41, <1>1 DEF ZoneStep, Frame, ZoneWakes, entryVars, flagVars, ZoneReads,
     ZonePassEnds, ZoneInterrupted
<1>42. CASE \E c \in Coords, w \in Readers : ReadBegins(c, w) \/ ReadReturns(c, w)
  BY <1>42, <1>1 DEF Frame, ReadBegins, entryVars, flagVars, ReadReturns
<1>43. CASE \E c \in Coords, k \in Closers : CloserStep(c, k)
  BY <1>43, <1>1 DEF CloserStep, Frame, CloserJoins, entryVars, flagVars,
     CloserJoinTimeout, CloserPreStops, CloserPreStopped, CloserPreStopFails,
     shutVars, CloserJoinsZones, CloserJoinsPollers, CloserPollersTimeout,
     CloserStopped, CloserStopFails
<1>44. CASE \E s \in Services : ServiceCalls(s) \/ ServiceReturns(s)
  BY <1>44, <1>1 DEF Frame, ServiceCalls, entryVars, flagVars, ServiceReturns
<1>45. CASE UNCHANGED vars
  BY <1>45, <1>1 DEF Frame, vars, entryVars, flagVars
<1>46. QED
  BY <1>35, <1>36, <1>37, <1>38, <1>39, <1>40, <1>41, <1>42, <1>43, <1>44, <1>45 DEF
     Next, HandlerStep

\* A retried setup takes over a startup that has not succeeded.
LEMMA StartedOnceStep ==
    ASSUME TypeOK, TypeOK', EntryInv, CancelArrives, ListensForEntry, NoRevival,
         StartedOnce, [Next]_vars
  PROVE  StartedOnce'
<1> DEFINE Frame == UNCHANGED <<runtime, ha, retryable, shutting, startup, outcome, hit>>
<1>1. ASSUME Frame PROVE StartedOnce'
  BY <1>1 DEF StartedOnce, Live, TypeOK, StartType, FlagType, EntryType
<1>2. ASSUME SetupBegins PROVE StartedOnce'
  BY <1>2 DEF SetupBegins, HaTo, flagVars, taskVars, startVars, EntryInv,
     ShutdownJoined, HandlerHolds, LoadedIsLive, RuntimeLives, CancelArrives,
     ListensForEntry, NoRevival, StartedOnce, Live, TypeOK, StartType, FlagType,
     EntryType
<1>3. ASSUME Reload PROVE StartedOnce'
  <2>1. \A d \in Coords \ shutting' :
          outcome'[d] = "ok" /\ d \in retryable' => ha'.pc = "removing" /\ d = runtime'
    BY <1>3, ModelAssumption DEF Reload, ListenersFire, CancelStartups, shutVars,
       EntryInv, ShutdownJoined, HandlerHolds, Closers, LoadedIsLive, CancelArrives,
       ListensForEntry, NoRevival, StartedOnce, Live, TypeOK, StartType, FlagType,
       EntryType
  <2>2. /\ ha'.pc \in {"join", "fence"} => outcome'[ha'.coord] # "ok"
        /\ ha'.pc = "join" /\ startup'[ha'.coord] \in {"created", "start", "zones"} =>
                ha'.coord \in hit'
        /\ ha'.pc = "fence" => startup'[ha'.coord] \in {"none", "done"}
    BY <1>3 DEF Reload, ListenersFire, CancelStartups, shutVars, StartedOnce, Live,
       TypeOK, StartType, FlagType, EntryType
  <2>3. QED BY <2>1, <2>2 DEF StartedOnce, Live
<1>4. ASSUME UnloadBegins PROVE StartedOnce'
  BY <1>4 DEF UnloadBegins, HaTo, ListenersFire, CancelStartups, shutVars, EntryInv,
     ShutdownJoined, HandlerHolds, LoadedIsLive, RuntimeLives, CancelArrives,
     ListensForEntry, NoRevival, StartedOnce, Live, TypeOK, StartType, FlagType,
     EntryType
<1>5. ASSUME RemoveBegins PROVE StartedOnce'
  BY <1>5 DEF RemoveBegins, HaTo, ListenersFire, CancelStartups, startVars, shutVars,
     EntryInv, ShutdownJoined, HandlerHolds, LoadedIsLive, RuntimeLives,
     CancelArrives, ListensForEntry, NoRevival, StartedOnce, Live, TypeOK, StartType,
     FlagType, EntryType
<1>6. ASSUME Restart PROVE StartedOnce'
  BY <1>6 DEF Restart, HaTo, EntryInv, ShutdownJoined, HandlerHolds, LoadedIsLive,
     RuntimeLives, CancelArrives, ListensForEntry, NoRevival, StartedOnce, Live,
     TypeOK, StartType, FlagType, EntryType
<1>7. ASSUME StorageNotReady PROVE StartedOnce'
  BY <1>7 DEF StorageNotReady, NotReady, HaTo, flagVars, startVars, EntryInv,
     ShutdownJoined, HandlerHolds, LoadedIsLive, RuntimeLives, CancelArrives,
     ListensForEntry, NoRevival, StartedOnce, Live, TypeOK, StartType, FlagType,
     EntryType
<1>8. ASSUME BeginReplace PROVE StartedOnce'
  BY <1>8 DEF BeginReplace, HaTo, StartClose, CancelStartups, startVars, EntryInv,
     ShutdownJoined, HandlerHolds, LoadedIsLive, RuntimeLives, CancelArrives,
     ListensForEntry, NoRevival, StartedOnce, Live, TypeOK, StartType, FlagType,
     EntryType
<1>9. ASSUME CallbacksEnd PROVE StartedOnce'
  <2>1. \A d \in Coords \ shutting' :
          outcome'[d] = "ok" /\ d \in retryable' => ha'.pc = "removing" /\ d = runtime'
    BY <1>9, ModelAssumption DEF CallbacksEnd, HaTo, ListenersFire, CancelStartups,
       startVars, shutVars, EntryInv, ShutdownJoined, HandlerHolds, Closers,
       LoadedIsLive, CancelArrives, ListensForEntry, NoRevival, StartedOnce, Live,
       TypeOK, StartType, FlagType, EntryType
  <2>2. /\ ha'.pc \in {"join", "fence"} => outcome'[ha'.coord] # "ok"
        /\ ha'.pc = "join" /\ startup'[ha'.coord] \in {"created", "start", "zones"} =>
                ha'.coord \in hit'
        /\ ha'.pc = "fence" => startup'[ha'.coord] \in {"none", "done"}
    BY <1>9 DEF CallbacksEnd, HaTo, ListenersFire, CancelStartups, startVars,
       shutVars, StartedOnce, Live, TypeOK, StartType, FlagType, EntryType
  <2>3. QED BY <2>1, <2>2 DEF StartedOnce, Live
<1>10. ASSUME RemoveEntry PROVE StartedOnce'
  <2>1. \A d \in Coords \ shutting' :
          outcome'[d] = "ok" /\ d \in retryable' => ha'.pc = "removing" /\ d = runtime'
    BY <1>10, ModelAssumption DEF RemoveEntry, HaTo, StartClose, CancelStartups,
       startVars, EntryInv, ShutdownJoined, HandlerHolds, Closers, LoadedIsLive,
       CancelArrives, ListensForEntry, NoRevival, StartedOnce, Live, TypeOK,
       StartType, FlagType, EntryType
  <2>2. /\ ha'.pc \in {"join", "fence"} => outcome'[ha'.coord] # "ok"
        /\ ha'.pc = "join" /\ startup'[ha'.coord] \in {"created", "start", "zones"} =>
                ha'.coord \in hit'
        /\ ha'.pc = "fence" => startup'[ha'.coord] \in {"none", "done"}
    BY <1>10 DEF RemoveEntry, HaTo, StartClose, CancelStartups, startVars,
       StartedOnce, Live, TypeOK, StartType, FlagType, EntryType
  <2>3. QED BY <2>1, <2>2 DEF StartedOnce, Live
<1>11. ASSUME NEW c \in Coords, JoinCancelled(c) PROVE StartedOnce'
  BY <1>11 DEF JoinCancelled, HaTo, Reused, shutVars, taskVars, startVars, EntryInv,
     ShutdownJoined, HandlerHolds, LoadedIsLive, RuntimeLives, CancelArrives,
     ListensForEntry, NoRevival, StartedOnce, Live, TypeOK, StartType, FlagType,
     EntryType
<1>12. ASSUME NEW c \in Coords, WaitSlice(c) PROVE StartedOnce'
  BY <1>12 DEF WaitSlice, HaTo, Reused, shutVars, taskVars, startVars, EntryInv,
     ShutdownJoined, HandlerHolds, LoadedIsLive, RuntimeLives, CancelArrives,
     ListensForEntry, NoRevival, StartedOnce, Live, TypeOK, StartType, FlagType,
     EntryType
<1>13. ASSUME NEW c \in Coords, FenceFirst(c) PROVE StartedOnce'
  BY <1>13 DEF FenceFirst, HaTo, Reused, shutVars, taskVars, startVars, EntryInv,
     ShutdownJoined, HandlerHolds, LoadedIsLive, RuntimeLives, CancelArrives,
     ListensForEntry, NoRevival, StartedOnce, Live, TypeOK, StartType, FlagType,
     EntryType
<1>14. ASSUME NEW c \in Coords, StartOver(c) PROVE StartedOnce'
  BY <1>14 DEF StartOver, NewStartup, HaTo, Reused, shutVars, EntryInv,
     ShutdownJoined, HandlerHolds, LoadedIsLive, RuntimeLives, CancelArrives,
     ListensForEntry, NoRevival, StartedOnce, Live, TypeOK, StartType, FlagType,
     EntryType
<1>15. ASSUME NEW c \in Coords, UseResult(c) PROVE StartedOnce'
  BY <1>15 DEF UseResult, HaTo, SetupFails, StartClose, CancelStartups, Reused,
     startVars, EntryInv, ShutdownJoined, HandlerHolds, LoadedIsLive, RuntimeLives,
     CancelArrives, ListensForEntry, NoRevival, StartedOnce, Live, TypeOK, StartType,
     FlagType, EntryType
<1>16. ASSUME NEW c \in Coords, Joined(c) PROVE StartedOnce'
  BY <1>16 DEF Joined, HaTo, NewStartup, startVars, shutVars, EntryInv,
     ShutdownJoined, HandlerHolds, LoadedIsLive, RuntimeLives, CancelArrives,
     ListensForEntry, NoRevival, StartedOnce, Live, TypeOK, StartType, FlagType,
     EntryType
<1>17. ASSUME NEW c \in Coords, JoinTimeout(c) PROVE StartedOnce'
  BY <1>17 DEF JoinTimeout, CancelStartups, NotReady, HaTo, flagVars, EntryInv,
     ShutdownJoined, HandlerHolds, LoadedIsLive, RuntimeLives, CancelArrives,
     ListensForEntry, NoRevival, StartedOnce, Live, TypeOK, StartType, FlagType,
     EntryType
<1>18. ASSUME NEW c \in Coords, FenceWorks(c) PROVE StartedOnce'
  BY <1>18 DEF FenceWorks, NewStartup, HaTo, shutVars, EntryInv, ShutdownJoined,
     HandlerHolds, LoadedIsLive, RuntimeLives, CancelArrives, ListensForEntry,
     NoRevival, StartedOnce, Live, TypeOK, StartType, FlagType, EntryType
<1>19. ASSUME NEW c \in Coords, FenceFails(c) PROVE StartedOnce'
  BY <1>19 DEF FenceFails, NotReady, HaTo, startVars, shutVars, EntryInv,
     ShutdownJoined, HandlerHolds, LoadedIsLive, RuntimeLives, CancelArrives,
     ListensForEntry, NoRevival, StartedOnce, Live, TypeOK, StartType, FlagType,
     EntryType
<1>20. ASSUME NEW c \in Coords, SliceEnds(c) PROVE StartedOnce'
  BY <1>20 DEF SliceEnds, HaTo, NotReady, SetupFails, StartClose, CancelStartups,
     startVars, EntryInv, ShutdownJoined, HandlerHolds, LoadedIsLive, RuntimeLives,
     CancelArrives, ListensForEntry, NoRevival, StartedOnce, Live, TypeOK, StartType,
     FlagType, EntryType
<1>21. ASSUME NEW c \in Coords, SliceTimeout(c) PROVE StartedOnce'
  BY <1>21 DEF SliceTimeout, NotReady, HaTo, flagVars, startVars, EntryInv,
     ShutdownJoined, HandlerHolds, LoadedIsLive, RuntimeLives, CancelArrives,
     ListensForEntry, NoRevival, StartedOnce, Live, TypeOK, StartType, FlagType,
     EntryType
<1>22. ASSUME NEW c \in Coords, Proved(c) PROVE StartedOnce'
  BY <1>22 DEF Proved, HaTo, shutVars, taskVars, startVars, EntryInv, ShutdownJoined,
     HandlerHolds, LoadedIsLive, RuntimeLives, CancelArrives, ListensForEntry,
     NoRevival, StartedOnce, Live, TypeOK, StartType, FlagType, EntryType
<1>23. ASSUME NEW c \in Coords, ProofFails(c) PROVE StartedOnce'
  BY <1>23 DEF ProofFails, NotReady, HaTo, flagVars, startVars, EntryInv,
     ShutdownJoined, HandlerHolds, LoadedIsLive, RuntimeLives, CancelArrives,
     ListensForEntry, NoRevival, StartedOnce, Live, TypeOK, StartType, FlagType,
     EntryType
<1>24. ASSUME NEW c \in Coords, ProofTimeout(c) PROVE StartedOnce'
  BY <1>24 DEF ProofTimeout, CancelStartups, NotReady, HaTo, flagVars, startVars,
     EntryInv, ShutdownJoined, HandlerHolds, LoadedIsLive, RuntimeLives,
     CancelArrives, ListensForEntry, NoRevival, StartedOnce, Live, TypeOK, StartType,
     FlagType, EntryType
<1>25. ASSUME NEW c \in Coords, Create(c) PROVE StartedOnce'
  BY <1>25 DEF Create, NewStartup, HaTo, Unused, EntryInv, ShutdownJoined,
     HandlerHolds, LoadedIsLive, RuntimeLives, CancelArrives, ListensForEntry,
     NoRevival, StartedOnce, Live, TypeOK, StartType, FlagType, EntryType
<1>26. ASSUME NEW c \in Coords, Loads(c) PROVE StartedOnce'
  BY <1>26 DEF Loads, HaTo, shutVars, taskVars, startVars, EntryInv, ShutdownJoined,
     HandlerHolds, LoadedIsLive, RuntimeLives, CancelArrives, ListensForEntry,
     NoRevival, StartedOnce, Live, TypeOK, StartType, FlagType, EntryType
<1>27. ASSUME NEW c \in Coords, ForwardFails(c) PROVE StartedOnce'
  BY <1>27 DEF ForwardFails, SetupFails, HaTo, StartClose, CancelStartups, startVars,
     EntryInv, ShutdownJoined, HandlerHolds, LoadedIsLive, RuntimeLives,
     CancelArrives, ListensForEntry, NoRevival, StartedOnce, Live, TypeOK, StartType,
     FlagType, EntryType
<1>28. ASSUME NEW c \in Coords, PlatformsUnload(c) PROVE StartedOnce'
  BY <1>28 DEF PlatformsUnload, HaTo, StartClose, CancelStartups, startVars, EntryInv,
     ShutdownJoined, HandlerHolds, LoadedIsLive, RuntimeLives, CancelArrives,
     ListensForEntry, NoRevival, StartedOnce, Live, TypeOK, StartType, FlagType,
     EntryType
<1>29. ASSUME NEW c \in Coords, PlatformsStay(c) PROVE StartedOnce'
  BY <1>29 DEF PlatformsStay, HaTo, ListenersFire, CancelStartups, shutVars, EntryInv,
     ShutdownJoined, HandlerHolds, LoadedIsLive, RuntimeLives, CancelArrives,
     ListensForEntry, NoRevival, StartedOnce, Live, TypeOK, StartType, FlagType,
     EntryType
<1>30. ASSUME NEW c \in Coords, Closed(c) PROVE StartedOnce'
  BY <1>30 DEF Closed, HaTo, startVars, shutVars, EntryInv, ShutdownJoined,
     HandlerHolds, LoadedIsLive, RuntimeLives, CancelArrives, ListensForEntry,
     NoRevival, StartedOnce, Live, TypeOK, StartType, FlagType, EntryType
<1>31. ASSUME NEW c \in Coords, CloseFails(c) PROVE StartedOnce'
  <2>1. \A d \in Coords \ shutting' :
          outcome'[d] = "ok" /\ d \in retryable' => ha'.pc = "removing" /\ d = runtime'
    BY <1>31, ModelAssumption DEF CloseFails, HaTo, ListenersFire, CancelStartups,
       shutVars, EntryInv, ShutdownJoined, HandlerHolds, Closers, LoadedIsLive,
       CancelArrives, ListensForEntry, NoRevival, StartedOnce, Live, TypeOK,
       StartType, FlagType, EntryType
  <2>2. /\ ha'.pc \in {"join", "fence"} => outcome'[ha'.coord] # "ok"
        /\ ha'.pc = "join" /\ startup'[ha'.coord] \in {"created", "start", "zones"} =>
                ha'.coord \in hit'
        /\ ha'.pc = "fence" => startup'[ha'.coord] \in {"none", "done"}
    BY <1>31 DEF CloseFails, HaTo, ListenersFire, CancelStartups, shutVars,
       StartedOnce, Live, TypeOK, StartType, FlagType, EntryType
  <2>3. QED BY <2>1, <2>2 DEF StartedOnce, Live
<1>32. ASSUME NEW c \in Coords, Removed(c) PROVE StartedOnce'
  BY <1>32 DEF Removed, HaTo, shutVars, taskVars, startVars, EntryInv, ShutdownJoined,
     HandlerHolds, LoadedIsLive, RuntimeLives, CancelArrives, ListensForEntry,
     NoRevival, StartedOnce, Live, TypeOK, StartType, FlagType, EntryType
<1>33. ASSUME NEW c \in Coords, StartupRuns(c) PROVE StartedOnce'
  BY <1>33 DEF StartupRuns, entryVars, flagVars, EntryInv, ShutdownJoined,
     HandlerHolds, LoadedIsLive, RuntimeLives, CancelArrives, ListensForEntry,
     NoRevival, StartedOnce, Live, TypeOK, StartType, FlagType, EntryType
<1>34. ASSUME NEW c \in Coords, StartupConnects(c) PROVE StartedOnce'
  BY <1>34 DEF StartupConnects, entryVars, flagVars, EntryInv, ShutdownJoined,
     HandlerHolds, LoadedIsLive, RuntimeLives, CancelArrives, ListensForEntry,
     NoRevival, StartedOnce, Live, TypeOK, StartType, FlagType, EntryType
<1>35. ASSUME NEW c \in Coords, StartupSucceeds(c) PROVE StartedOnce'
  BY <1>35 DEF StartupSucceeds, entryVars, flagVars, EntryInv, ShutdownJoined,
     HandlerHolds, LoadedIsLive, RuntimeLives, CancelArrives, ListensForEntry,
     NoRevival, StartedOnce, Live, TypeOK, StartType, FlagType, EntryType
<1>36. ASSUME NEW c \in Coords, StartupFails(c) PROVE StartedOnce'
  BY <1>36 DEF StartupFails, entryVars, flagVars, EntryInv, ShutdownJoined,
     HandlerHolds, LoadedIsLive, RuntimeLives, CancelArrives, ListensForEntry,
     NoRevival, StartedOnce, Live, TypeOK, StartType, FlagType, EntryType
<1>37. ASSUME NEW c \in Coords, StartupCleansUp(c) PROVE StartedOnce'
  BY <1>37 DEF StartupCleansUp, StartupEnds, Retryable, entryVars, shutVars, EntryInv,
     ShutdownJoined, HandlerHolds, LoadedIsLive, RuntimeLives, CancelArrives,
     ListensForEntry, NoRevival, StartedOnce, Live, TypeOK, StartType, FlagType,
     EntryType
<1>38. ASSUME NEW c \in Coords, StartupCleanupFails(c) PROVE StartedOnce'
  BY <1>38 DEF StartupCleanupFails, StartupEnds, Retryable, entryVars, shutVars,
     EntryInv, ShutdownJoined, HandlerHolds, LoadedIsLive, RuntimeLives,
     CancelArrives, ListensForEntry, NoRevival, StartedOnce, Live, TypeOK, StartType,
     FlagType, EntryType
<1>39. ASSUME NEW c \in Coords, StartupBudget(c) PROVE StartedOnce'
  BY <1>39 DEF StartupBudget, Retryable, entryVars, shutVars, EntryInv,
     ShutdownJoined, HandlerHolds, LoadedIsLive, RuntimeLives, CancelArrives,
     ListensForEntry, NoRevival, StartedOnce, Live, TypeOK, StartType, FlagType,
     EntryType
<1>40. ASSUME NEW c \in Coords, StartupInterrupted(c) PROVE StartedOnce'
  BY <1>40 DEF StartupInterrupted, Retryable, entryVars, shutVars, EntryInv,
     ShutdownJoined, HandlerHolds, LoadedIsLive, RuntimeLives, CancelArrives,
     ListensForEntry, NoRevival, StartedOnce, Live, TypeOK, StartType, FlagType,
     EntryType
<1>41. ASSUME NEW c \in Coords, CleanupEnds(c) PROVE StartedOnce'
  <2>1. \A d \in Coords \ shutting' :
          outcome'[d] = "ok" /\ d \in retryable' => ha'.pc = "removing" /\ d = runtime'
    BY <1>41, ModelAssumption DEF CleanupEnds, shutVars, taskVars, startVars,
       EntryInv, ShutdownJoined, HandlerHolds, Closers, LoadedIsLive, CancelArrives,
       ListensForEntry, NoRevival, StartedOnce, Live, TypeOK, StartType, FlagType,
       EntryType
  <2>2. /\ ha'.pc \in {"join", "fence"} => outcome'[ha'.coord] # "ok"
        /\ ha'.pc = "join" /\ startup'[ha'.coord] \in {"created", "start", "zones"} =>
                ha'.coord \in hit'
        /\ ha'.pc = "fence" => startup'[ha'.coord] \in {"none", "done"}
    BY <1>41 DEF CleanupEnds, shutVars, taskVars, startVars, StartedOnce, Live,
       TypeOK, StartType, FlagType, EntryType
  <2>3. QED BY <2>1, <2>2 DEF StartedOnce, Live
<1>42. ASSUME NEW c \in Coords, NEW k \in Closers, CloserJoinTimeout(c, k)
       PROVE  StartedOnce'
  BY <1>42 DEF CloserJoinTimeout, CancelStartups, entryVars, flagVars, EntryInv,
     ShutdownJoined, HandlerHolds, LoadedIsLive, RuntimeLives, CancelArrives,
     ListensForEntry, NoRevival, StartedOnce, Live, TypeOK, StartType, FlagType,
     EntryType
<1>43. CASE UserStep
  BY <1>43, <1>1, <1>2, <1>3, <1>4, <1>5 DEF UserStep, Frame, AddAgain, flagVars,
     taskVars, startVars
<1>44. CASE Restart
  BY <1>44, <1>6
<1>45. CASE StorageNotReady \/ BeginReplace \/ CallbacksEnd \/ RemoveEntry
  BY <1>45, <1>7, <1>8, <1>9, <1>10
<1>46. CASE \E c \in Coords : WaitStep(c)
  BY <1>46, <1>11, <1>12, <1>13, <1>14, <1>15, <1>16, <1>17, <1>18, <1>19, <1>20,
     <1>21 DEF WaitStep
<1>47. CASE \E c \in Coords : EntryStep(c)
  BY <1>47, <1>22, <1>23, <1>24, <1>25, <1>26, <1>27, <1>28, <1>29, <1>30, <1>31,
     <1>32 DEF EntryStep
<1>48. CASE \E c \in Coords : StartupStep(c) \/ CleanupEnds(c)
  BY <1>48, <1>1, <1>33, <1>34, <1>35, <1>36, <1>37, <1>38, <1>39, <1>40, <1>41 DEF
     StartupStep, Frame, StartupReads, entryVars, flagVars, taskVars, startVars
<1>49. CASE \E c \in Coords, z \in ZoneTasks : ZoneStep(c, z)
  BY <1>49, <1>1 DEF ZoneStep, Frame, ZoneWakes, entryVars, flagVars, startVars,
     ZoneReads, taskVars, ZonePassEnds, ZoneInterrupted
<1>50. CASE \E c \in Coords, w \in Readers : ReadBegins(c, w) \/ ReadReturns(c, w)
  BY <1>50, <1>1 DEF Frame, ReadBegins, entryVars, flagVars, startVars, ReadReturns
<1>51. CASE \E c \in Coords, k \in Closers : CloserStep(c, k)
  BY <1>51, <1>1, <1>42 DEF CloserStep, Frame, CloserJoins, entryVars, flagVars,
     taskVars, startVars, CloserPreStops, CloserPreStopped, CloserPreStopFails,
     shutVars, CloserJoinsZones, CloserJoinsPollers, CloserPollersTimeout,
     CloserStopped, CloserStopFails
<1>52. CASE \E s \in Services : ServiceCalls(s) \/ ServiceReturns(s)
  BY <1>52, <1>1 DEF Frame, ServiceCalls, entryVars, flagVars, startVars,
     ServiceReturns
<1>53. CASE UNCHANGED vars
  BY <1>53, <1>1 DEF Frame, vars, entryVars, flagVars, startVars
<1>54. QED
  BY <1>43, <1>44, <1>45, <1>46, <1>47, <1>48, <1>49, <1>50, <1>51, <1>52, <1>53 DEF
     Next, HandlerStep

\* Entities go before the coordinator is shut down or replaced.
LEMMA EntitiesServedStep ==
    ASSUME TypeOK, TypeOK', EntryInv, CancelArrives, NoStrays, EntitiesServed,
         [Next]_vars
  PROVE  EntitiesServed'
<1> DEFINE Frame == UNCHANGED <<entry, runtime, ha, platforms, shutting, outcome>>
<1>1. ASSUME Frame PROVE EntitiesServed'
  BY <1>1 DEF EntitiesServed, TypeOK, StartType, EntryType
<1>2. ASSUME SetupBegins PROVE EntitiesServed'
  BY <1>2 DEF SetupBegins, HaTo, flagVars, holdVars, taskVars, startVars, EntryInv,
     ShutdownJoined, HandlerHolds, LoadedIsLive, CancelArrives, NoStrays, Closers,
     EntitiesServed, TypeOK, StartType, EntryType
<1>3. ASSUME Reload PROVE EntitiesServed'
  BY <1>3 DEF Reload, ListenersFire, CancelStartups, holdVars, shutVars, EntryInv,
     ShutdownJoined, HandlerHolds, LoadedIsLive, CancelArrives, NoStrays, Closers,
     EntitiesServed, TypeOK, StartType, EntryType
<1>4. ASSUME UnloadBegins PROVE EntitiesServed'
  BY <1>4 DEF UnloadBegins, HaTo, ListenersFire, CancelStartups, holdVars, shutVars,
     EntryInv, ShutdownJoined, HandlerHolds, LoadedIsLive, CancelArrives, NoStrays,
     Closers, EntitiesServed, TypeOK, StartType, EntryType
<1>5. ASSUME RemoveBegins PROVE EntitiesServed'
  BY <1>5 DEF RemoveBegins, HaTo, ListenersFire, CancelStartups, startVars, holdVars,
     shutVars, EntryInv, ShutdownJoined, HandlerHolds, LoadedIsLive, CancelArrives,
     NoStrays, Closers, EntitiesServed, TypeOK, StartType, EntryType
<1>6. ASSUME AddAgain PROVE EntitiesServed'
  BY <1>6 DEF AddAgain, flagVars, holdVars, taskVars, startVars, EntryInv,
     ShutdownJoined, HandlerHolds, LoadedIsLive, CancelArrives, NoStrays, Closers,
     EntitiesServed, TypeOK, StartType, EntryType
<1>7. ASSUME Restart PROVE EntitiesServed'
  BY <1>7 DEF Restart, HaTo, EntryInv, ShutdownJoined, HandlerHolds, LoadedIsLive,
     CancelArrives, NoStrays, Closers, EntitiesServed, TypeOK, StartType, EntryType
<1>8. ASSUME StorageNotReady PROVE EntitiesServed'
  BY <1>8 DEF StorageNotReady, NotReady, HaTo, flagVars, startVars, holdVars,
     EntryInv, ShutdownJoined, HandlerHolds, LoadedIsLive, CancelArrives, NoStrays,
     Closers, EntitiesServed, TypeOK, StartType, EntryType
<1>9. ASSUME BeginReplace PROVE EntitiesServed'
  BY <1>9 DEF BeginReplace, HaTo, StartClose, CancelStartups, startVars, holdVars,
     EntryInv, ShutdownJoined, HandlerHolds, LoadedIsLive, CancelArrives, NoStrays,
     Closers, EntitiesServed, TypeOK, StartType, EntryType
<1>10. ASSUME CallbacksEnd PROVE EntitiesServed'
  BY <1>10 DEF CallbacksEnd, HaTo, ListenersFire, CancelStartups, startVars, holdVars,
     shutVars, EntryInv, ShutdownJoined, HandlerHolds, LoadedIsLive, CancelArrives,
     NoStrays, Closers, EntitiesServed, TypeOK, StartType, EntryType
<1>11. ASSUME RemoveEntry PROVE EntitiesServed'
  BY <1>11 DEF RemoveEntry, HaTo, StartClose, CancelStartups, startVars, holdVars,
     EntryInv, ShutdownJoined, HandlerHolds, LoadedIsLive, CancelArrives, NoStrays,
     Closers, EntitiesServed, TypeOK, StartType, EntryType
<1>12. ASSUME NEW c \in Coords, JoinCancelled(c) PROVE EntitiesServed'
  BY <1>12 DEF JoinCancelled, HaTo, Reused, holdVars, shutVars, taskVars, startVars,
     EntryInv, ShutdownJoined, HandlerHolds, LoadedIsLive, CancelArrives, NoStrays,
     Closers, EntitiesServed, TypeOK, StartType, EntryType
<1>13. ASSUME NEW c \in Coords, WaitSlice(c) PROVE EntitiesServed'
  BY <1>13 DEF WaitSlice, HaTo, Reused, holdVars, shutVars, taskVars, startVars,
     EntryInv, ShutdownJoined, HandlerHolds, LoadedIsLive, CancelArrives, NoStrays,
     Closers, EntitiesServed, TypeOK, StartType, EntryType
<1>14. ASSUME NEW c \in Coords, FenceFirst(c) PROVE EntitiesServed'
  BY <1>14 DEF FenceFirst, HaTo, Reused, holdVars, shutVars, taskVars, startVars,
     EntryInv, ShutdownJoined, HandlerHolds, LoadedIsLive, CancelArrives, NoStrays,
     Closers, EntitiesServed, TypeOK, StartType, EntryType
<1>15. ASSUME NEW c \in Coords, StartOver(c) PROVE EntitiesServed'
  BY <1>15 DEF StartOver, NewStartup, HaTo, Reused, holdVars, shutVars, EntryInv,
     ShutdownJoined, HandlerHolds, LoadedIsLive, CancelArrives, NoStrays, Closers,
     EntitiesServed, TypeOK, StartType, EntryType
<1>16. ASSUME NEW c \in Coords, UseResult(c) PROVE EntitiesServed'
  BY <1>16 DEF UseResult, HaTo, SetupFails, StartClose, CancelStartups, Reused,
     startVars, EntryInv, ShutdownJoined, HandlerHolds, LoadedIsLive, CancelArrives,
     NoStrays, Closers, EntitiesServed, TypeOK, StartType, EntryType
<1>17. ASSUME NEW c \in Coords, Joined(c) PROVE EntitiesServed'
  BY <1>17 DEF Joined, HaTo, NewStartup, startVars, holdVars, shutVars, EntryInv,
     ShutdownJoined, HandlerHolds, LoadedIsLive, CancelArrives, NoStrays, Closers,
     EntitiesServed, TypeOK, StartType, EntryType
<1>18. ASSUME NEW c \in Coords, JoinTimeout(c) PROVE EntitiesServed'
  BY <1>18 DEF JoinTimeout, CancelStartups, NotReady, HaTo, flagVars, holdVars,
     EntryInv, ShutdownJoined, HandlerHolds, LoadedIsLive, CancelArrives, NoStrays,
     Closers, EntitiesServed, TypeOK, StartType, EntryType
<1>19. ASSUME NEW c \in Coords, FenceWorks(c) PROVE EntitiesServed'
  BY <1>19 DEF FenceWorks, NewStartup, HaTo, shutVars, EntryInv, ShutdownJoined,
     HandlerHolds, LoadedIsLive, CancelArrives, NoStrays, Closers, EntitiesServed,
     TypeOK, StartType, EntryType
<1>20. ASSUME NEW c \in Coords, FenceFails(c) PROVE EntitiesServed'
  BY <1>20 DEF FenceFails, NotReady, HaTo, startVars, shutVars, EntryInv,
     ShutdownJoined, HandlerHolds, LoadedIsLive, CancelArrives, NoStrays, Closers,
     EntitiesServed, TypeOK, StartType, EntryType
<1>21. ASSUME NEW c \in Coords, SliceEnds(c) PROVE EntitiesServed'
  <2>1. platforms = {}
    BY <1>21 DEF SliceEnds, EntitiesServed, EntryInv, HandlerHolds
  <2>2. CASE outcome[c] = "ok"
    BY <1>21, <2>1, <2>2 DEF SliceEnds, HaTo, startVars, NotReady, SetupFails,
       EntitiesServed, TypeOK, StartType, EntryType, EntryInv, ShutdownJoined,
       HandlerHolds, LoadedIsLive, CancelArrives, NoStrays, Closers
  <2>3. CASE outcome[c] # "ok"
    <3>1. platforms' = platforms
      BY <1>21, <2>3 DEF SliceEnds
    <3>2. QED BY <2>1, <3>1 DEF EntitiesServed
  <2>4. QED BY <2>2, <2>3
<1>22. ASSUME NEW c \in Coords, SliceTimeout(c) PROVE EntitiesServed'
  BY <1>22 DEF SliceTimeout, NotReady, HaTo, flagVars, startVars, holdVars, EntryInv,
     ShutdownJoined, HandlerHolds, LoadedIsLive, CancelArrives, NoStrays, Closers,
     EntitiesServed, TypeOK, StartType, EntryType
<1>23. ASSUME NEW c \in Coords, Proved(c) PROVE EntitiesServed'
  BY <1>23 DEF Proved, HaTo, holdVars, shutVars, taskVars, startVars, EntryInv,
     ShutdownJoined, HandlerHolds, LoadedIsLive, CancelArrives, NoStrays, Closers,
     EntitiesServed, TypeOK, StartType, EntryType
<1>24. ASSUME NEW c \in Coords, ProofFails(c) PROVE EntitiesServed'
  BY <1>24 DEF ProofFails, NotReady, HaTo, flagVars, startVars, holdVars, EntryInv,
     ShutdownJoined, HandlerHolds, LoadedIsLive, CancelArrives, NoStrays, Closers,
     EntitiesServed, TypeOK, StartType, EntryType
<1>25. ASSUME NEW c \in Coords, ProofTimeout(c) PROVE EntitiesServed'
  BY <1>25 DEF ProofTimeout, CancelStartups, NotReady, HaTo, flagVars, startVars,
     holdVars, EntryInv, ShutdownJoined, HandlerHolds, LoadedIsLive, CancelArrives,
     NoStrays, Closers, EntitiesServed, TypeOK, StartType, EntryType
<1>26. ASSUME NEW c \in Coords, Create(c) PROVE EntitiesServed'
  BY <1>26 DEF Create, NewStartup, HaTo, Unused, EntryInv, ShutdownJoined,
     HandlerHolds, LoadedIsLive, CancelArrives, NoStrays, Closers, EntitiesServed,
     TypeOK, StartType, EntryType
<1>27. ASSUME NEW c \in Coords, Loads(c) PROVE EntitiesServed'
  BY <1>27 DEF Loads, HaTo, holdVars, shutVars, taskVars, startVars, EntryInv,
     ShutdownJoined, HandlerHolds, LoadedIsLive, CancelArrives, NoStrays, Closers,
     EntitiesServed, TypeOK, StartType, EntryType
<1>28. ASSUME NEW c \in Coords, ForwardFails(c) PROVE EntitiesServed'
  BY <1>28 DEF ForwardFails, SetupFails, HaTo, StartClose, CancelStartups, startVars,
     holdVars, EntryInv, ShutdownJoined, HandlerHolds, LoadedIsLive, CancelArrives,
     NoStrays, Closers, EntitiesServed, TypeOK, StartType, EntryType
<1>29. ASSUME NEW c \in Coords, PlatformsUnload(c) PROVE EntitiesServed'
  <2>1. ha.pc = "platforms" /\ ha.coord = c /\ platforms' = platforms \ {c}
    BY <1>29 DEF PlatformsUnload
  <2>2. runtime \in {c, NoCoord}
    BY <2>1 DEF EntryInv, HandlerHolds
  <2>3. platforms' = {}
    BY <2>1, <2>2, ModelAssumption DEF EntitiesServed, TypeOK, EntryType
  <2>4. QED BY <2>3 DEF EntitiesServed
<1>30. ASSUME NEW c \in Coords, PlatformsStay(c) PROVE EntitiesServed'
  BY <1>30 DEF PlatformsStay, HaTo, ListenersFire, CancelStartups, holdVars, shutVars,
     EntryInv, ShutdownJoined, HandlerHolds, LoadedIsLive, CancelArrives, NoStrays,
     Closers, EntitiesServed, TypeOK, StartType, EntryType
<1>31. ASSUME NEW c \in Coords, Closed(c) PROVE EntitiesServed'
  BY <1>31 DEF Closed, HaTo, startVars, holdVars, shutVars, EntryInv, ShutdownJoined,
     HandlerHolds, LoadedIsLive, CancelArrives, NoStrays, Closers, EntitiesServed,
     TypeOK, StartType, EntryType
<1>32. ASSUME NEW c \in Coords, CloseFails(c) PROVE EntitiesServed'
  BY <1>32 DEF CloseFails, HaTo, ListenersFire, CancelStartups, holdVars, shutVars,
     EntryInv, ShutdownJoined, HandlerHolds, LoadedIsLive, CancelArrives, NoStrays,
     Closers, EntitiesServed, TypeOK, StartType, EntryType
<1>33. ASSUME NEW c \in Coords, Removed(c) PROVE EntitiesServed'
  BY <1>33 DEF Removed, HaTo, shutVars, taskVars, startVars, EntryInv, ShutdownJoined,
     HandlerHolds, LoadedIsLive, CancelArrives, NoStrays, Closers, EntitiesServed,
     TypeOK, StartType, EntryType
<1>34. ASSUME NEW c \in Coords, StartupSucceeds(c) PROVE EntitiesServed'
  BY <1>34 DEF StartupSucceeds, entryVars, flagVars, EntryInv, ShutdownJoined,
     HandlerHolds, LoadedIsLive, CancelArrives, NoStrays, Closers, EntitiesServed,
     TypeOK, StartType, EntryType
<1>35. ASSUME NEW c \in Coords, StartupFails(c) PROVE EntitiesServed'
  BY <1>35 DEF StartupFails, entryVars, flagVars, EntryInv, ShutdownJoined,
     HandlerHolds, LoadedIsLive, CancelArrives, NoStrays, Closers, EntitiesServed,
     TypeOK, StartType, EntryType
<1>36. ASSUME NEW c \in Coords, StartupBudget(c) PROVE EntitiesServed'
  BY <1>36 DEF StartupBudget, entryVars, shutVars, EntryInv, ShutdownJoined,
     HandlerHolds, LoadedIsLive, CancelArrives, NoStrays, Closers, EntitiesServed,
     TypeOK, StartType, EntryType
<1>37. ASSUME NEW c \in Coords, StartupInterrupted(c) PROVE EntitiesServed'
  BY <1>37 DEF StartupInterrupted, entryVars, shutVars, EntryInv, ShutdownJoined,
     HandlerHolds, LoadedIsLive, CancelArrives, NoStrays, Closers, EntitiesServed,
     TypeOK, StartType, EntryType
<1>38. ASSUME NEW c \in Coords, CleanupEnds(c) PROVE EntitiesServed'
  BY <1>38 DEF CleanupEnds, holdVars, shutVars, taskVars, startVars, EntryInv,
     ShutdownJoined, HandlerHolds, LoadedIsLive, CancelArrives, NoStrays, Closers,
     EntitiesServed, TypeOK, StartType, EntryType
<1>39. CASE UserStep
  BY <1>39, <1>2, <1>3, <1>4, <1>5, <1>6 DEF UserStep
<1>40. CASE Restart
  BY <1>40, <1>7
<1>41. CASE StorageNotReady \/ BeginReplace \/ CallbacksEnd \/ RemoveEntry
  BY <1>41, <1>8, <1>9, <1>10, <1>11
<1>42. CASE \E c \in Coords : WaitStep(c)
  BY <1>42, <1>12, <1>13, <1>14, <1>15, <1>16, <1>17, <1>18, <1>19, <1>20, <1>21,
     <1>22 DEF WaitStep
<1>43. CASE \E c \in Coords : EntryStep(c)
  BY <1>43, <1>23, <1>24, <1>25, <1>26, <1>27, <1>28, <1>29, <1>30, <1>31, <1>32,
     <1>33 DEF EntryStep
<1>44. CASE \E c \in Coords : StartupStep(c) \/ CleanupEnds(c)
  BY <1>44, <1>1, <1>34, <1>35, <1>36, <1>37, <1>38 DEF StartupStep, Frame,
     StartupRuns, entryVars, flagVars, StartupConnects, StartupReads, taskVars,
     startVars, StartupCleansUp, StartupEnds, shutVars, StartupCleanupFails
<1>45. CASE \E c \in Coords, z \in ZoneTasks : ZoneStep(c, z)
  BY <1>45, <1>1 DEF ZoneStep, Frame, ZoneWakes, entryVars, flagVars, startVars,
     ZoneReads, taskVars, ZonePassEnds, ZoneInterrupted
<1>46. CASE \E c \in Coords, w \in Readers : ReadBegins(c, w) \/ ReadReturns(c, w)
  BY <1>46, <1>1 DEF Frame, ReadBegins, entryVars, flagVars, startVars, ReadReturns
<1>47. CASE \E c \in Coords, k \in Closers : CloserStep(c, k)
  BY <1>47, <1>1 DEF CloserStep, Frame, CloserJoins, entryVars, flagVars, taskVars,
     startVars, CloserJoinTimeout, CancelStartups, CloserPreStops, CloserPreStopped,
     CloserPreStopFails, shutVars, CloserJoinsZones, CloserJoinsPollers,
     CloserPollersTimeout, CloserStopped, CloserStopFails
<1>48. CASE \E s \in Services : ServiceCalls(s) \/ ServiceReturns(s)
  BY <1>48, <1>1 DEF Frame, ServiceCalls, entryVars, flagVars, startVars,
     ServiceReturns
<1>49. CASE UNCHANGED vars
  BY <1>49, <1>1 DEF Frame, vars, entryVars, flagVars, startVars
<1>50. QED
  BY <1>39, <1>40, <1>41, <1>42, <1>43, <1>44, <1>45, <1>46, <1>47, <1>48, <1>49 DEF
     Next, HandlerStep

\* No call but the refresh's own takes it from the queue or from before a stop.
LEMMA QueueKeeps ==
  ASSUME TypeOK, StopIsLast, NEW c \in Coords, NEW w \in Callers \ {"bridge"},
         \A d \in Coords : "bridge" \in reading'[d] => "bridge" \in reading[d],
         \A d \in Coords, k \in Closers : closer'[d][k] = "stop" => closer[d][k] = "stop",
         \/ Call(c, w) \/ Return(c, w) \/ UNCHANGED queueVars
         \/ CallAgain(c, w) /\ w \notin Closers
  PROVE  StopIsLast'
<1> SUFFICES ASSUME NEW d \in Coords, "bridge" \in reading[d]
             PROVE  /\ "bridge" \in waiting'[d]
                    /\ \A k \in Closers : closer[d][k] = "stop" => "bridge" \in ahead'[d][k]
  BY DEF StopIsLast
<1>1. /\ "bridge" \in waiting[d]
      /\ \A k \in Closers : closer[d][k] = "stop" => "bridge" \in ahead[d][k]
  BY DEF StopIsLast
<1>2. CASE UNCHANGED queueVars
  BY <1>1, <1>2 DEF queueVars
<1>3. CASE Call(c, w)
  BY <1>1, <1>3 DEF Call, TypeOK, QueueType, Callers
<1>4. CASE Return(c, w)
  BY <1>1, <1>4 DEF Return, TypeOK, QueueType, Callers
<1>5. CASE CallAgain(c, w) /\ w \notin Closers
  BY <1>1, <1>5 DEF CallAgain, TypeOK, QueueType, Callers
<1>6. QED BY <1>2, <1>3, <1>4, <1>5

\* A shutdown that begins is not yet at its final stop.
LEMMA StartCloseStops ==
  ASSUME TypeOK, NEW c \in Coords, NEW k \in Closers, StartClose(c, k)
  PROVE  \A d \in Coords, j \in Closers : closer'[d][j] = "stop" => closer[d][j] = "stop"
<1>1. CASE c \in complete
  BY <1>1 DEF StartClose, CloserTo, TypeOK, CloserType
<1>2. CASE c \notin complete
  BY <1>2 DEF StartClose, CloserTo, TypeOK, CloserType
<1>3. QED BY <1>1, <1>2

\* The bridge joins the queue while no final stop stands in it.
LEMMA StopIsLastStep ==
    ASSUME TypeOK, TypeOK', EntryInv, EntitiesServed, NoStrays, StopIsLast, [Next]_vars
  PROVE  StopIsLast'
<1> DEFINE Frame == UNCHANGED <<reading, closer, waiting, ahead>>
<1>1. ASSUME Frame PROVE StopIsLast'
  BY <1>1 DEF StopIsLast, TypeOK, QueueType, ReadType, CloserType
<1>2. ASSUME Restart PROVE StopIsLast'
  BY <1>2 DEF Restart, EntryInv, ShutdownJoined, HandlerHolds, LoadedIsLive,
     RuntimeLives, EntitiesServed, NoStrays, StopIsLast, TypeOK, QueueType, ReadType,
     CloserType
<1>3. ASSUME BeginReplace PROVE StopIsLast'
  <2>1. closer' = closer \/ (runtime \in Coords /\ StartClose(runtime, "ha"))
    BY <1>3 DEF BeginReplace, TypeOK, EntryType
  <2>2. \A d \in Coords, k \in Closers : closer'[d][k] = "stop" => closer[d][k] = "stop"
    BY <2>1, StartCloseStops DEF Closers
  <2>3. UNCHANGED <<reading, waiting, ahead>>
    BY <1>3 DEF BeginReplace, readVars, queueVars
  <2>4. QED BY <2>2, <2>3 DEF StopIsLast
<1>4. ASSUME RemoveEntry PROVE StopIsLast'
  <2>1. closer' = closer \/ (runtime \in Coords /\ StartClose(runtime, "ha"))
    BY <1>4 DEF RemoveEntry, TypeOK, EntryType
  <2>2. \A d \in Coords, k \in Closers : closer'[d][k] = "stop" => closer[d][k] = "stop"
    BY <2>1, StartCloseStops DEF Closers
  <2>3. UNCHANGED <<reading, waiting, ahead>>
    BY <1>4 DEF RemoveEntry, readVars, queueVars
  <2>4. QED BY <2>2, <2>3 DEF StopIsLast
<1>5. ASSUME NEW c \in Coords, FenceFirst(c) PROVE StopIsLast'
  BY <1>5 DEF FenceFirst, Call, Reused, taskVars, readVars, EntryInv, ShutdownJoined,
     HandlerHolds, LoadedIsLive, RuntimeLives, EntitiesServed, NoStrays, StopIsLast,
     TypeOK, QueueType, ReadType, CloserType
<1>6. ASSUME NEW c \in Coords, UseResult(c) PROVE StopIsLast'
  <2>1. \A d \in Coords, j \in Closers : closer'[d][j] = "stop" => closer[d][j] = "stop"
    BY <1>6 DEF UseResult, SetupFails, StartClose, CloserTo, TypeOK, CloserType
  <2>2. UNCHANGED <<reading, waiting, ahead>>
    BY <1>6 DEF UseResult, readVars, queueVars
  <2>3. QED BY <2>1, <2>2 DEF StopIsLast
<1>7. ASSUME NEW c \in Coords, Joined(c) PROVE StopIsLast'
  BY <1>7 DEF Joined, Call, readVars, queueVars, EntryInv, ShutdownJoined,
     HandlerHolds, LoadedIsLive, RuntimeLives, EntitiesServed, NoStrays, StopIsLast,
     TypeOK, QueueType, ReadType, CloserType
<1>8. ASSUME NEW c \in Coords, FenceWorks(c) PROVE StopIsLast'
  BY <1>8 DEF FenceWorks, Return, readVars, EntryInv, ShutdownJoined, HandlerHolds,
     LoadedIsLive, RuntimeLives, EntitiesServed, NoStrays, StopIsLast, TypeOK,
     QueueType, ReadType, CloserType
<1>9. ASSUME NEW c \in Coords, FenceFails(c) PROVE StopIsLast'
  BY <1>9 DEF FenceFails, Return, readVars, EntryInv, ShutdownJoined, HandlerHolds,
     LoadedIsLive, RuntimeLives, EntitiesServed, NoStrays, StopIsLast, TypeOK,
     QueueType, ReadType, CloserType
<1>10. ASSUME NEW c \in Coords, SliceEnds(c) PROVE StopIsLast'
  BY <1>10 DEF SliceEnds, SetupFails, StartClose, CloserTo, readVars, queueVars,
     EntryInv, ShutdownJoined, HandlerHolds, LoadedIsLive, RuntimeLives,
     EntitiesServed, NoStrays, StopIsLast, TypeOK, QueueType, ReadType, CloserType
<1>11. ASSUME NEW c \in Coords, Proved(c) PROVE StopIsLast'
  BY <1>11 DEF Proved, CloserTo, queueVars, taskVars, readVars, EntryInv,
     ShutdownJoined, HandlerHolds, LoadedIsLive, RuntimeLives, EntitiesServed,
     NoStrays, StopIsLast, TypeOK, QueueType, ReadType, CloserType
<1>12. ASSUME NEW c \in Coords, ProofFails(c) PROVE StopIsLast'
  BY <1>12 DEF ProofFails, CloserTo, readVars, queueVars, EntryInv, ShutdownJoined,
     HandlerHolds, LoadedIsLive, RuntimeLives, EntitiesServed, NoStrays, StopIsLast,
     TypeOK, QueueType, ReadType, CloserType
<1>13. ASSUME NEW c \in Coords, ProofTimeout(c) PROVE StopIsLast'
  <2>1. \A d \in Coords : "bridge" \in reading'[d] => "bridge" \in reading[d]
    BY <1>13 DEF ProofTimeout, readVars
  <2>2. \A d \in Coords, j \in Closers : closer'[d][j] = "stop" => closer[d][j] = "stop"
    BY <1>13 DEF ProofTimeout, CloserTo, TypeOK, CloserType, EntryType
  <2>3. "ha" \in Callers \ {"bridge"}
    BY ModelAssumption DEF Callers, Closers
  <2>4. \/ Call(c, "ha") \/ Return(c, "ha") \/ UNCHANGED queueVars
        \/ CallAgain(c, "ha") /\ "ha" \notin Closers
    BY <1>13, <2>3 DEF ProofTimeout, queueVars
  <2>5. QED BY <2>1, <2>2, <2>3, <2>4, QueueKeeps
<1>14. ASSUME NEW c \in Coords, ForwardFails(c) PROVE StopIsLast'
  BY <1>14 DEF ForwardFails, SetupFails, StartClose, CloserTo, readVars, queueVars,
     EntryInv, ShutdownJoined, HandlerHolds, LoadedIsLive, RuntimeLives,
     EntitiesServed, NoStrays, StopIsLast, TypeOK, QueueType, ReadType, CloserType
<1>15. ASSUME NEW c \in Coords, PlatformsUnload(c) PROVE StopIsLast'
  <2>1. \A d \in Coords : "bridge" \in reading'[d] => "bridge" \in reading[d]
    BY <1>15 DEF PlatformsUnload, readVars
  <2>2. \A d \in Coords, j \in Closers : closer'[d][j] = "stop" => closer[d][j] = "stop"
    BY <1>15 DEF PlatformsUnload, StartClose, CloserTo, TypeOK, CloserType,
       EntryType
  <2>3. "ha" \in Callers \ {"bridge"}
    BY ModelAssumption DEF Callers, Closers
  <2>4. \/ Call(c, "ha") \/ Return(c, "ha") \/ UNCHANGED queueVars
        \/ CallAgain(c, "ha") /\ "ha" \notin Closers
    BY <1>15, <2>3 DEF PlatformsUnload, queueVars
  <2>5. QED BY <2>1, <2>2, <2>3, <2>4, QueueKeeps
<1>16. ASSUME NEW c \in Coords, Closed(c) PROVE StopIsLast'
  <2>1. "bridge" \notin reading[c]
    BY <1>16 DEF Closed, Served, StopIsLast, Closers
  <2>2. UNCHANGED reading
    BY <1>16 DEF Closed, readVars
  <2>3. ASSUME NEW d \in Coords, d # c
        PROVE  UNCHANGED <<waiting[d], ahead[d], closer[d]>>
    BY <1>16, <2>3 DEF Closed, ReturnAll, CloserTo, TypeOK, QueueType, CloserType
  <2>4. QED BY <2>1, <2>2, <2>3 DEF StopIsLast
<1>17. ASSUME NEW c \in Coords, CloseFails(c) PROVE StopIsLast'
  BY <1>17 DEF CloseFails, CloserTo, readVars, queueVars, EntryInv, ShutdownJoined,
     HandlerHolds, LoadedIsLive, RuntimeLives, EntitiesServed, NoStrays, StopIsLast,
     TypeOK, QueueType, ReadType, CloserType
<1>18. ASSUME NEW c \in Coords, Removed(c) PROVE StopIsLast'
  BY <1>18 DEF Removed, CloserTo, queueVars, taskVars, readVars, EntryInv,
     ShutdownJoined, HandlerHolds, LoadedIsLive, RuntimeLives, EntitiesServed,
     NoStrays, StopIsLast, TypeOK, QueueType, ReadType, CloserType
<1>19. ASSUME NEW c \in Coords, StartupRuns(c) PROVE StopIsLast'
  BY <1>19 DEF StartupRuns, Call, readVars, EntryInv, ShutdownJoined, HandlerHolds,
     LoadedIsLive, RuntimeLives, EntitiesServed, NoStrays, StopIsLast, TypeOK,
     QueueType, ReadType, CloserType
<1>20. ASSUME NEW c \in Coords, StartupConnects(c) PROVE StopIsLast'
  <2>1. \A d \in Coords : "bridge" \in reading'[d] => "bridge" \in reading[d]
    BY <1>20 DEF StartupConnects, readVars
  <2>2. \A d \in Coords, j \in Closers : closer'[d][j] = "stop" => closer[d][j] = "stop"
    BY <1>20 DEF StartupConnects, TypeOK, CloserType, EntryType
  <2>3. "startup" \in Callers \ {"bridge"} /\ "startup" \notin Closers
    BY ModelAssumption DEF Callers, Closers
  <2>4. \/ Call(c, "startup") \/ Return(c, "startup") \/ UNCHANGED queueVars
        \/ CallAgain(c, "startup") /\ "startup" \notin Closers
    BY <1>20, <2>3 DEF StartupConnects, queueVars
  <2>5. QED BY <2>1, <2>2, <2>3, <2>4, QueueKeeps
<1>21. ASSUME NEW c \in Coords, StartupReads(c) PROVE StopIsLast'
  <2>1. \A d \in Coords : "bridge" \in reading'[d] => "bridge" \in reading[d]
    BY <1>21 DEF StartupReads, taskVars, readVars
  <2>2. \A d \in Coords, j \in Closers : closer'[d][j] = "stop" => closer[d][j] = "stop"
    BY <1>21 DEF StartupReads, TypeOK, CloserType, EntryType
  <2>3. "startup" \in Callers \ {"bridge"} /\ "startup" \notin Closers
    BY ModelAssumption DEF Callers, Closers
  <2>4. \/ Call(c, "startup") \/ Return(c, "startup") \/ UNCHANGED queueVars
        \/ CallAgain(c, "startup") /\ "startup" \notin Closers
    BY <1>21, <2>3 DEF StartupReads, queueVars
  <2>5. QED BY <2>1, <2>2, <2>3, <2>4, QueueKeeps
<1>22. ASSUME NEW c \in Coords, StartupSucceeds(c) PROVE StopIsLast'
  <2>1. \A d \in Coords : "bridge" \in reading'[d] => "bridge" \in reading[d]
    BY <1>22 DEF StartupSucceeds, readVars
  <2>2. \A d \in Coords, j \in Closers : closer'[d][j] = "stop" => closer[d][j] = "stop"
    BY <1>22 DEF StartupSucceeds, TypeOK, CloserType, EntryType
  <2>3. "startup" \in Callers \ {"bridge"} /\ "startup" \notin Closers
    BY ModelAssumption DEF Callers, Closers
  <2>4. \/ Call(c, "startup") \/ Return(c, "startup") \/ UNCHANGED queueVars
        \/ CallAgain(c, "startup") /\ "startup" \notin Closers
    BY <1>22, <2>3 DEF StartupSucceeds, queueVars
  <2>5. QED BY <2>1, <2>2, <2>3, <2>4, QueueKeeps
<1>23. ASSUME NEW c \in Coords, StartupFails(c) PROVE StopIsLast'
  <2>1. \A d \in Coords : "bridge" \in reading'[d] => "bridge" \in reading[d]
    BY <1>23 DEF StartupFails, readVars
  <2>2. \A d \in Coords, j \in Closers : closer'[d][j] = "stop" => closer[d][j] = "stop"
    BY <1>23 DEF StartupFails, TypeOK, CloserType, EntryType
  <2>3. "startup" \in Callers \ {"bridge"} /\ "startup" \notin Closers
    BY ModelAssumption DEF Callers, Closers
  <2>4. \/ Call(c, "startup") \/ Return(c, "startup") \/ UNCHANGED queueVars
        \/ CallAgain(c, "startup") /\ "startup" \notin Closers
    BY <1>23, <2>3 DEF StartupFails, queueVars
  <2>5. QED BY <2>1, <2>2, <2>3, <2>4, QueueKeeps
<1>24. ASSUME NEW c \in Coords, StartupCleansUp(c) PROVE StopIsLast'
  <2>1. \A d \in Coords : "bridge" \in reading'[d] => "bridge" \in reading[d]
    BY <1>24 DEF StartupCleansUp, StartupEnds, readVars
  <2>2. \A d \in Coords, j \in Closers : closer'[d][j] = "stop" => closer[d][j] = "stop"
    BY <1>24 DEF StartupCleansUp, StartupEnds, TypeOK, CloserType, EntryType
  <2>3. "startup" \in Callers \ {"bridge"} /\ "startup" \notin Closers
    BY ModelAssumption DEF Callers, Closers
  <2>4. \/ Call(c, "startup") \/ Return(c, "startup") \/ UNCHANGED queueVars
        \/ CallAgain(c, "startup") /\ "startup" \notin Closers
    BY <1>24, <2>3 DEF StartupCleansUp, StartupEnds, queueVars
  <2>5. QED BY <2>1, <2>2, <2>3, <2>4, QueueKeeps
<1>25. ASSUME NEW c \in Coords, StartupCleanupFails(c) PROVE StopIsLast'
  <2>1. \A d \in Coords : "bridge" \in reading'[d] => "bridge" \in reading[d]
    BY <1>25 DEF StartupCleanupFails, StartupEnds, readVars
  <2>2. \A d \in Coords, j \in Closers : closer'[d][j] = "stop" => closer[d][j] = "stop"
    BY <1>25 DEF StartupCleanupFails, StartupEnds, TypeOK, CloserType, EntryType
  <2>3. "startup" \in Callers \ {"bridge"} /\ "startup" \notin Closers
    BY ModelAssumption DEF Callers, Closers
  <2>4. \/ Call(c, "startup") \/ Return(c, "startup") \/ UNCHANGED queueVars
        \/ CallAgain(c, "startup") /\ "startup" \notin Closers
    BY <1>25, <2>3 DEF StartupCleanupFails, StartupEnds, queueVars
  <2>5. QED BY <2>1, <2>2, <2>3, <2>4, QueueKeeps
<1>26. ASSUME NEW c \in Coords, StartupBudget(c) PROVE StopIsLast'
  <2>1. \A d \in Coords : "bridge" \in reading'[d] => "bridge" \in reading[d]
    BY <1>26 DEF StartupBudget, readVars
  <2>2. \A d \in Coords, j \in Closers : closer'[d][j] = "stop" => closer[d][j] = "stop"
    BY <1>26 DEF StartupBudget, TypeOK, CloserType, EntryType
  <2>3. "startup" \in Callers \ {"bridge"} /\ "startup" \notin Closers
    BY ModelAssumption DEF Callers, Closers
  <2>4. \/ Call(c, "startup") \/ Return(c, "startup") \/ UNCHANGED queueVars
        \/ CallAgain(c, "startup") /\ "startup" \notin Closers
    BY <1>26, <2>3 DEF StartupBudget, queueVars
  <2>5. QED BY <2>1, <2>2, <2>3, <2>4, QueueKeeps
<1>27. ASSUME NEW c \in Coords, StartupInterrupted(c) PROVE StopIsLast'
  <2>1. \A d \in Coords : "bridge" \in reading'[d] => "bridge" \in reading[d]
    BY <1>27 DEF StartupInterrupted, readVars
  <2>2. \A d \in Coords, j \in Closers : closer'[d][j] = "stop" => closer[d][j] = "stop"
    BY <1>27 DEF StartupInterrupted, TypeOK, CloserType, EntryType
  <2>3. "startup" \in Callers \ {"bridge"} /\ "startup" \notin Closers
    BY ModelAssumption DEF Callers, Closers
  <2>4. \/ Call(c, "startup") \/ Return(c, "startup") \/ UNCHANGED queueVars
        \/ CallAgain(c, "startup") /\ "startup" \notin Closers
    BY <1>27, <2>3 DEF StartupInterrupted, queueVars
  <2>5. QED BY <2>1, <2>2, <2>3, <2>4, QueueKeeps
<1>28. ASSUME NEW c \in Coords, CleanupEnds(c) PROVE StopIsLast'
  BY <1>28 DEF CleanupEnds, CloserTo, queueVars, taskVars, readVars, EntryInv,
     ShutdownJoined, HandlerHolds, LoadedIsLive, RuntimeLives, EntitiesServed,
     NoStrays, StopIsLast, TypeOK, QueueType, ReadType, CloserType
<1>29. ASSUME NEW c \in Coords, NEW z \in ZoneTasks, ZoneWakes(c, z) PROVE StopIsLast'
  BY <1>29 DEF ZoneWakes, Call, readVars, queueVars, EntryInv, ShutdownJoined,
     HandlerHolds, LoadedIsLive, RuntimeLives, EntitiesServed, NoStrays, StopIsLast,
     TypeOK, QueueType, ReadType, CloserType
<1>30. ASSUME NEW c \in Coords, NEW z \in ZoneTasks, ZoneReads(c, z) PROVE StopIsLast'
  <2>1. \A d \in Coords : "bridge" \in reading'[d] => "bridge" \in reading[d]
    BY <1>30 DEF ZoneReads, taskVars, readVars
  <2>2. \A d \in Coords, j \in Closers : closer'[d][j] = "stop" => closer[d][j] = "stop"
    BY <1>30 DEF ZoneReads, TypeOK, CloserType, EntryType
  <2>3. z \in Callers \ {"bridge"} /\ z \notin Closers
    BY ModelAssumption DEF Callers, Closers
  <2>4. \/ Call(c, z) \/ Return(c, z) \/ UNCHANGED queueVars
        \/ CallAgain(c, z) /\ z \notin Closers
    BY <1>30, <2>3 DEF ZoneReads, queueVars
  <2>5. QED BY <2>1, <2>2, <2>3, <2>4, QueueKeeps
<1>31. ASSUME NEW c \in Coords, NEW z \in ZoneTasks, ZonePassEnds(c, z)
       PROVE  StopIsLast'
  <2>1. \A d \in Coords : "bridge" \in reading'[d] => "bridge" \in reading[d]
    BY <1>31 DEF ZonePassEnds, readVars
  <2>2. \A d \in Coords, j \in Closers : closer'[d][j] = "stop" => closer[d][j] = "stop"
    BY <1>31 DEF ZonePassEnds, TypeOK, CloserType, EntryType
  <2>3. z \in Callers \ {"bridge"} /\ z \notin Closers
    BY ModelAssumption DEF Callers, Closers
  <2>4. \/ Call(c, z) \/ Return(c, z) \/ UNCHANGED queueVars
        \/ CallAgain(c, z) /\ z \notin Closers
    BY <1>31, <2>3 DEF ZonePassEnds, queueVars
  <2>5. QED BY <2>1, <2>2, <2>3, <2>4, QueueKeeps
<1>32. ASSUME NEW c \in Coords, NEW z \in ZoneTasks, ZoneInterrupted(c, z)
       PROVE  StopIsLast'
  <2>1. \A d \in Coords : "bridge" \in reading'[d] => "bridge" \in reading[d]
    BY <1>32 DEF ZoneInterrupted, readVars
  <2>2. \A d \in Coords, j \in Closers : closer'[d][j] = "stop" => closer[d][j] = "stop"
    BY <1>32 DEF ZoneInterrupted, TypeOK, CloserType, EntryType
  <2>3. z \in Callers \ {"bridge"} /\ z \notin Closers
    BY ModelAssumption DEF Callers, Closers
  <2>4. \/ Call(c, z) \/ Return(c, z) \/ UNCHANGED queueVars
        \/ CallAgain(c, z) /\ z \notin Closers
    BY <1>32, <2>3 DEF ZoneInterrupted, queueVars
  <2>5. QED BY <2>1, <2>2, <2>3, <2>4, QueueKeeps
<1>33. ASSUME NEW c \in Coords, NEW w \in Readers, ReadBegins(c, w) PROVE StopIsLast'
  BY <1>33 DEF ReadBegins, Call, EntryInv, ShutdownJoined, HandlerHolds, LoadedIsLive,
     RuntimeLives, EntitiesServed, NoStrays, StopIsLast, TypeOK, QueueType, ReadType,
     CloserType
<1>34. ASSUME NEW c \in Coords, NEW w \in Readers, ReadReturns(c, w) PROVE StopIsLast'
  <2>1. closer' = closer
    BY <1>34 DEF ReadReturns
  <2>2. CASE w # "bridge"
    <3>1. \A d \in Coords : "bridge" \in reading'[d] => "bridge" \in reading[d]
      BY <1>34 DEF ReadReturns, TypeOK, ReadType
    <3>2. w \in Callers \ {"bridge"} /\ w \notin Closers
      BY <2>2, ModelAssumption DEF Callers, Closers
    <3>3. Return(c, w) \/ CallAgain(c, w)
      BY <1>34 DEF ReadReturns
    <3>4. QED BY <2>1, <3>1, <3>2, <3>3, QueueKeeps
  <2>3. CASE w = "bridge"
    <3>1. Return(c, w) /\ reading' = [reading EXCEPT ![c] = @ \ {"bridge"}]
      BY <1>34, <2>3 DEF ReadReturns
    <3>2. SUFFICES ASSUME NEW d \in Coords, "bridge" \in reading'[d]
                   PROVE  d # c /\ "bridge" \in reading[d]
      BY <2>1, <3>1 DEF StopIsLast, Return, TypeOK, QueueType
    <3>3. QED BY <3>1, <3>2 DEF TypeOK, ReadType
  <2>4. QED BY <2>2, <2>3
<1>35. ASSUME NEW c \in Coords, NEW k \in Closers, CloserJoins(c, k) PROVE StopIsLast'
  BY <1>35 DEF CloserJoins, CloserTo, queueVars, taskVars, readVars, EntryInv,
     ShutdownJoined, HandlerHolds, LoadedIsLive, RuntimeLives, EntitiesServed,
     NoStrays, StopIsLast, TypeOK, QueueType, ReadType, CloserType
<1>36. ASSUME NEW c \in Coords, NEW k \in Closers, CloserJoinTimeout(c, k)
       PROVE  StopIsLast'
  BY <1>36 DEF CloserJoinTimeout, CloserTo, readVars, queueVars, EntryInv,
     ShutdownJoined, HandlerHolds, LoadedIsLive, RuntimeLives, EntitiesServed,
     NoStrays, StopIsLast, TypeOK, QueueType, ReadType, CloserType
<1>37. ASSUME NEW c \in Coords, NEW k \in Closers, CloserPreStops(c, k)
       PROVE  StopIsLast'
  <2>1. \A d \in Coords : "bridge" \in reading'[d] => "bridge" \in reading[d]
    BY <1>37 DEF CloserPreStops, readVars
  <2>2. \A d \in Coords, j \in Closers : closer'[d][j] = "stop" => closer[d][j] = "stop"
    BY <1>37 DEF CloserPreStops, CloserTo, TypeOK, CloserType, EntryType
  <2>3. k \in Callers \ {"bridge"}
    BY ModelAssumption DEF Callers, Closers
  <2>4. \/ Call(c, k) \/ Return(c, k) \/ UNCHANGED queueVars
        \/ CallAgain(c, k) /\ k \notin Closers
    BY <1>37, <2>3 DEF CloserPreStops, queueVars
  <2>5. QED BY <2>1, <2>2, <2>3, <2>4, QueueKeeps
<1>38. ASSUME NEW c \in Coords, NEW k \in Closers, CloserPreStopped(c, k)
       PROVE  StopIsLast'
  <2>1. \A d \in Coords : "bridge" \in reading'[d] => "bridge" \in reading[d]
    BY <1>38 DEF CloserPreStopped, readVars
  <2>2. \A d \in Coords, j \in Closers : closer'[d][j] = "stop" => closer[d][j] = "stop"
    BY <1>38 DEF CloserPreStopped, CloserTo, TypeOK, CloserType, EntryType
  <2>3. k \in Callers \ {"bridge"}
    BY ModelAssumption DEF Callers, Closers
  <2>4. \/ Call(c, k) \/ Return(c, k) \/ UNCHANGED queueVars
        \/ CallAgain(c, k) /\ k \notin Closers
    BY <1>38, <2>3 DEF CloserPreStopped, queueVars
  <2>5. QED BY <2>1, <2>2, <2>3, <2>4, QueueKeeps
<1>39. ASSUME NEW c \in Coords, NEW k \in Closers, CloserPreStopFails(c, k)
       PROVE  StopIsLast'
  <2>1. \A d \in Coords : "bridge" \in reading'[d] => "bridge" \in reading[d]
    BY <1>39 DEF CloserPreStopFails, taskVars, readVars
  <2>2. \A d \in Coords, j \in Closers : closer'[d][j] = "stop" => closer[d][j] = "stop"
    BY <1>39 DEF CloserPreStopFails, CloserTo, TypeOK, CloserType, EntryType
  <2>3. k \in Callers \ {"bridge"}
    BY ModelAssumption DEF Callers, Closers
  <2>4. \/ Call(c, k) \/ Return(c, k) \/ UNCHANGED queueVars
        \/ CallAgain(c, k) /\ k \notin Closers
    BY <1>39, <2>3 DEF CloserPreStopFails, queueVars
  <2>5. QED BY <2>1, <2>2, <2>3, <2>4, QueueKeeps
<1>40. ASSUME NEW c \in Coords, NEW k \in Closers, CloserJoinsZones(c, k)
       PROVE  StopIsLast'
  BY <1>40 DEF CloserJoinsZones, CloserTo, readVars, queueVars, EntryInv,
     ShutdownJoined, HandlerHolds, LoadedIsLive, RuntimeLives, EntitiesServed,
     NoStrays, StopIsLast, TypeOK, QueueType, ReadType, CloserType
<1>41. ASSUME NEW c \in Coords, NEW k \in Closers, CloserJoinsPollers(c, k)
       PROVE  StopIsLast'
  BY <1>41 DEF CloserJoinsPollers, CloserTo, Call, taskVars, readVars, EntryInv,
     ShutdownJoined, HandlerHolds, LoadedIsLive, RuntimeLives, EntitiesServed,
     NoStrays, StopIsLast, TypeOK, QueueType, ReadType, CloserType
<1>42. ASSUME NEW c \in Coords, NEW k \in Closers, CloserPollersTimeout(c, k)
       PROVE  StopIsLast'
  BY <1>42 DEF CloserPollersTimeout, CloserTo, queueVars, taskVars, readVars,
     EntryInv, ShutdownJoined, HandlerHolds, LoadedIsLive, RuntimeLives,
     EntitiesServed, NoStrays, StopIsLast, TypeOK, QueueType, ReadType, CloserType
<1>43. ASSUME NEW c \in Coords, NEW k \in Closers, CloserStopped(c, k) PROVE StopIsLast'
  <2>1. \A d \in Coords : "bridge" \in reading'[d] => "bridge" \in reading[d]
    BY <1>43 DEF CloserStopped, taskVars, readVars
  <2>2. \A d \in Coords, j \in Closers : closer'[d][j] = "stop" => closer[d][j] = "stop"
    BY <1>43 DEF CloserStopped, CloserTo, TypeOK, CloserType, EntryType
  <2>3. k \in Callers \ {"bridge"}
    BY ModelAssumption DEF Callers, Closers
  <2>4. \/ Call(c, k) \/ Return(c, k) \/ UNCHANGED queueVars
        \/ CallAgain(c, k) /\ k \notin Closers
    BY <1>43, <2>3 DEF CloserStopped, queueVars
  <2>5. QED BY <2>1, <2>2, <2>3, <2>4, QueueKeeps
<1>44. ASSUME NEW c \in Coords, NEW k \in Closers, CloserStopFails(c, k)
       PROVE  StopIsLast'
  <2>1. \A d \in Coords : "bridge" \in reading'[d] => "bridge" \in reading[d]
    BY <1>44 DEF CloserStopFails, taskVars, readVars
  <2>2. \A d \in Coords, j \in Closers : closer'[d][j] = "stop" => closer[d][j] = "stop"
    BY <1>44 DEF CloserStopFails, CloserTo, TypeOK, CloserType, EntryType
  <2>3. k \in Callers \ {"bridge"}
    BY ModelAssumption DEF Callers, Closers
  <2>4. \/ Call(c, k) \/ Return(c, k) \/ UNCHANGED queueVars
        \/ CallAgain(c, k) /\ k \notin Closers
    BY <1>44, <2>3 DEF CloserStopFails, queueVars
  <2>5. QED BY <2>1, <2>2, <2>3, <2>4, QueueKeeps
<1>45. ASSUME NEW s \in Services, ServiceCalls(s) PROVE StopIsLast'
  BY <1>45 DEF ServiceCalls, Call, EntryInv, ShutdownJoined, HandlerHolds,
     LoadedIsLive, RuntimeLives, EntitiesServed, NoStrays, StopIsLast, TypeOK,
     QueueType, ReadType, CloserType
<1>46. ASSUME NEW s \in Services, ServiceReturns(s) PROVE StopIsLast'
  BY <1>46 DEF ServiceReturns, Return, EntryInv, ShutdownJoined, HandlerHolds,
     LoadedIsLive, RuntimeLives, EntitiesServed, NoStrays, StopIsLast, TypeOK,
     QueueType, ReadType, CloserType
<1>47. CASE UserStep
  BY <1>47, <1>1 DEF UserStep, Frame, SetupBegins, queueVars, taskVars, readVars,
     Reload, UnloadBegins, RemoveBegins, AddAgain
<1>48. CASE Restart
  BY <1>48, <1>2
<1>49. CASE StorageNotReady \/ BeginReplace \/ CallbacksEnd \/ RemoveEntry
  BY <1>49, <1>1, <1>3, <1>4 DEF Frame, StorageNotReady, readVars, queueVars,
     CallbacksEnd
<1>50. CASE \E c \in Coords : WaitStep(c)
  BY <1>50, <1>1, <1>5, <1>6, <1>7, <1>8, <1>9, <1>10 DEF WaitStep, Frame,
     JoinCancelled, queueVars, taskVars, readVars, WaitSlice, StartOver, JoinTimeout,
     SliceTimeout
<1>51. CASE \E c \in Coords : EntryStep(c)
  BY <1>51, <1>1, <1>11, <1>12, <1>13, <1>14, <1>15, <1>16, <1>17, <1>18 DEF
     EntryStep, Frame, Create, readVars, queueVars, Loads, taskVars, PlatformsStay
<1>52. CASE \E c \in Coords : StartupStep(c) \/ CleanupEnds(c)
  BY <1>52, <1>19, <1>20, <1>21, <1>22, <1>23, <1>24, <1>25, <1>26, <1>27, <1>28 DEF
     StartupStep
<1>53. CASE \E c \in Coords, z \in ZoneTasks : ZoneStep(c, z)
  BY <1>53, <1>29, <1>30, <1>31, <1>32 DEF ZoneStep
<1>54. CASE \E c \in Coords, w \in Readers : ReadBegins(c, w) \/ ReadReturns(c, w)
  BY <1>54, <1>33, <1>34
<1>55. CASE \E c \in Coords, k \in Closers : CloserStep(c, k)
  BY <1>55, <1>35, <1>36, <1>37, <1>38, <1>39, <1>40, <1>41, <1>42, <1>43, <1>44 DEF
     CloserStep
<1>56. CASE \E s \in Services : ServiceCalls(s) \/ ServiceReturns(s)
  BY <1>56, <1>45, <1>46
<1>57. CASE UNCHANGED vars
  BY <1>57, <1>1 DEF Frame, vars, readVars, queueVars
<1>58. QED
  BY <1>47, <1>48, <1>49, <1>50, <1>51, <1>52, <1>53, <1>54, <1>55, <1>56, <1>57 DEF
     Next, HandlerStep

\* Only a started coordinator gets entities.
LEMMA EntitiesBegin ==
  ASSUME EntryInv, NEW d \in Coords, d \in platforms', d \notin platforms, [Next]_vars
  PROVE  outcome[d] = "ok"
<1> DEFINE Frame == UNCHANGED <<platforms>>
<1>1. ~Frame
  OBVIOUS
<1>2. ASSUME NEW c \in Coords, UseResult(c) PROVE outcome[d] = "ok"
  BY <1>2 DEF UseResult
<1>3. ASSUME NEW c \in Coords, SliceEnds(c) PROVE outcome[d] = "ok"
  BY <1>3 DEF SliceEnds
<1>4. ASSUME NEW c \in Coords, Create(c) PROVE outcome[d] = "ok"
  BY <1>4 DEF Create
<1>5. ASSUME NEW c \in Coords, PlatformsUnload(c) PROVE outcome[d] = "ok"
  BY <1>5 DEF PlatformsUnload
<1>6. ~Restart
  BY DEF Restart
<1>7. CASE UserStep
  BY <1>7, <1>1 DEF UserStep, SetupBegins, holdVars, Reload, UnloadBegins, RemoveBegins,
     AddAgain
<1>8. CASE StorageNotReady \/ BeginReplace \/ CallbacksEnd \/ RemoveEntry
  BY <1>8, <1>1 DEF StorageNotReady, BeginReplace, CallbacksEnd, RemoveEntry, holdVars
<1>9. CASE \E c \in Coords : WaitStep(c)
  BY <1>9, <1>1, <1>2, <1>3 DEF WaitStep, JoinCancelled, holdVars, WaitSlice,
     FenceFirst, StartOver, Joined, JoinTimeout, FenceWorks, FenceFails, SliceTimeout
<1>10. CASE \E c \in Coords : EntryStep(c)
  BY <1>10, <1>1, <1>4, <1>5 DEF EntryStep, Proved, holdVars, ProofFails, ProofTimeout,
     Loads, ForwardFails, PlatformsStay, Closed, CloseFails, Removed
<1>11. CASE \E c \in Coords : StartupStep(c) \/ CleanupEnds(c)
  BY <1>11, <1>1 DEF StartupStep, StartupRuns, entryVars, StartupConnects, StartupReads,
     StartupSucceeds, StartupFails, StartupCleansUp, StartupEnds, StartupCleanupFails,
     StartupBudget, StartupInterrupted, CleanupEnds, holdVars
<1>12. CASE \E c \in Coords, z \in ZoneTasks : ZoneStep(c, z)
  BY <1>12, <1>1 DEF ZoneStep, ZoneWakes, entryVars, ZoneReads, ZonePassEnds,
     ZoneInterrupted
<1>13. CASE \E c \in Coords, w \in Readers : ReadBegins(c, w) \/ ReadReturns(c, w)
  BY <1>13, <1>1 DEF ReadBegins, entryVars, ReadReturns
<1>14. CASE \E c \in Coords, k \in Closers : CloserStep(c, k)
  BY <1>14, <1>1 DEF CloserStep, CloserJoins, entryVars, CloserJoinTimeout,
     CloserPreStops, CloserPreStopped, CloserPreStopFails, CloserJoinsZones,
     CloserJoinsPollers, CloserPollersTimeout, CloserStopped, CloserStopFails
<1>15. CASE \E s \in Services : ServiceCalls(s) \/ ServiceReturns(s)
  BY <1>15, <1>1 DEF ServiceCalls, entryVars, ServiceReturns
<1>16. CASE UNCHANGED vars
  BY <1>16, <1>1 DEF vars, entryVars
<1>17. QED
  BY <1>6, <1>7, <1>8, <1>9, <1>10, <1>11, <1>12, <1>13, <1>14, <1>15, <1>16 DEF Next,
     HandlerStep

\* A coordinator with entities keeps its result, and loses them with its name.
LEMMA EntitiesStartedStep ==
  ASSUME TypeOK, TypeOK', EntryInv, CancelArrives, StartedOnce, EntitiesStarted, [Next]_vars
  PROVE  EntitiesStarted'
<1> SUFFICES ASSUME NEW d \in Coords, d \in platforms'
             PROVE  outcome'[d] = "ok"
  BY DEF EntitiesStarted, TypeOK, EntryType
<1>1. outcome[d] = "ok"
  BY EntitiesBegin DEF EntitiesStarted
<1>2. ~Restart /\ ~Create(d)
  BY DEF Restart, Create
<1>3. QED BY <1>1, <1>2, OkStays

\* What begins to read does so with the success of the startup behind it.
LEMMA WorkAfterSuccessStep ==
  ASSUME TypeOK, EntryInv, CancelArrives, StartedOnce, EntitiesStarted, WorkAfterSuccess,
         [Next]_vars
  PROVE  WorkAfterSuccess'
<1> SUFFICES ASSUME NEW d \in Coords, Busy(d)' \/ Tracked(d)' # {}
             PROVE  outcome'[d] = "ok"
  BY LostStep DEF WorkAfterSuccess
<1>1. ~Restart
  BY DEF Restart, Busy, Tracked
<1>2. ~Create(d)
  BY DEF Create, Unused, Busy, Tracked, readVars, TypeOK, ZoneType
<1>3. ASSUME StartupSucceeds(d) PROVE outcome'[d] = "ok"
  BY <1>3 DEF StartupSucceeds, TypeOK, StartType
<1>4. CASE Busy(d) \/ Tracked(d) # {}
  BY <1>1, <1>2, <1>4, OkStays DEF WorkAfterSuccess
<1>5. CASE Busy(d)' /\ ~Busy(d)
  <2>1. d \in platforms \/ StartupSucceeds(d)
    BY <1>5, BusyBegins
  <2>2. CASE d \in platforms
    BY <1>1, <1>2, <2>2, OkStays DEF EntitiesStarted
  <2>3. QED BY <1>3, <2>1, <2>2
<1>6. CASE Tracked(d)' # {} /\ Tracked(d) = {}
  <2>1. StartupSucceeds(d) \/ \E x \in ZoneTasks : ZonePassEnds(d, x)
    BY <1>6, TrackedBegins
  <2>2. CASE \E x \in ZoneTasks : ZonePassEnds(d, x)
    BY <1>4, <2>2 DEF ZonePassEnds, Busy
  <2>3. QED BY <1>3, <2>1, <2>2
<1>7. QED BY <1>4, <1>5, <1>6

\* Whoever still works is found, and nobody works behind a complete shutdown.
LEMMA WorkersKnownStep ==
  ASSUME TypeOK, EntryInv, JoinedStaysJoined, WorkAfterSuccess, EntitiesServed,
         StopIsLast, WorkersKnown, [Next]_vars
  PROVE  WorkersKnown'
<1>1. ASSUME NEW d \in complete' PROVE ~Works(d)'
  <2>1. CASE d \in complete
    <3>1. d \in shutting /\ ~Works(d) /\ d \in Coords
      BY <2>1 DEF EntryInv, ShutdownJoined, WorkersKnown, TypeOK, FlagType
    <3>2. ~Live(d)'
      BY <1>1, <3>1, LiveBegins DEF Works
    <3>3. ~Busy(d)'
      <4>1. d \notin platforms
        BY <3>1 DEF EntitiesServed
      <4>2. ~StartupSucceeds(d)
        BY <3>1 DEF StartupSucceeds, Works, Live
      <4>3. QED BY <3>1, <4>1, <4>2, BusyBegins DEF Works
    <3>4. QED BY <3>2, <3>3 DEF Works
  <2>2. CASE d \notin complete
    <3>1. d \in Coords
      BY <1>1, TypeStep DEF TypeOK, FlagType
    <3>2. Closed(d) \/ \E k \in Closers : CloserStopped(d, k)
      BY <1>1, <2>2, <3>1, CompleteBegins
    <3>3. PICK k \in Closers :
            /\ closer[d][k] = "stop" /\ ahead[d][k] = {}
            /\ UNCHANGED <<startup, zone, reading>>
      BY <3>2 DEF CloserStopped, Closed, Served, Closers, taskVars, startVars, zoneVars, readVars
    <3>4. ~Live(d)
      BY <3>1, <3>3 DEF EntryInv, ShutdownJoined
    <3>5. "bridge" \notin reading[d]
      BY <3>1, <3>3 DEF StopIsLast
    <3>6. /\ "poll" \notin reading[d]
          /\ \A z \in ZoneTasks : zone[d][z] # "off" => z \in lost[d]
      BY <3>1, <3>3 DEF JoinedStaysJoined, PollersJoined, ZonesJoined
    <3>7. lost[d] = {}
      BY <3>1 DEF WorkAfterSuccess
    <3>8. reading[d] = {}
      BY <3>1, <3>5, <3>6, ModelAssumption DEF TypeOK, ReadType
    <3>9. QED
      BY <3>3, <3>4, <3>6, <3>7, <3>8 DEF Works, Live, Busy
  <2>3. QED BY <2>1, <2>2
<1>2. ASSUME NEW d \in Coords, Works(d)' PROVE d = runtime' \/ d \in abandoned'
  <2>1. CASE Live(d)' /\ ~Live(d)
    BY <2>1, LiveBegins
  <2>2. CASE Works(d) \/ d \in platforms
    <3>1. (d = runtime \/ d \in abandoned) /\ d \notin complete
      BY <2>2 DEF WorkersKnown, EntitiesServed, EntryInv, ShutdownJoined
    <3>2. ~Restart
      BY <1>2 DEF Restart, Works, Live, Busy
    <3>3. Create(d) => d = runtime'
      BY DEF Create
    <3>4. d \notin complete'
      BY <1>1, <1>2
    <3>5. QED BY <3>1, <3>2, <3>3, <3>4, KnownStays
  <2>3. CASE Busy(d)' /\ ~Busy(d)
    BY <2>2, <2>3, BusyBegins DEF StartupSucceeds, Works, Live
  <2>4. QED BY <1>2, <2>1, <2>2, <2>3 DEF Works
<1>3. abandoned' \subseteq shutting'
  BY AbandonedStep DEF WorkersKnown
<1>4. QED BY <1>1, <1>2, <1>3 DEF WorkersKnown

\* Without service calls every caller of the backend is a worker.
LEMMA UserWorks ==
  ASSUME Services = {}, NEW d \in Coords, NEW x \in Callers, User(d, x)
  PROVE  Works(d)
BY DEF User, Works, Busy

\* Only a worker takes the controller, and complete follows the release.
LEMMA CompleteMeansReleasedStep ==
  ASSUME TypeOK, WorkersKnown, CompleteMeansReleased, NoStrays, [Next]_vars
  PROVE  CompleteMeansReleased'
<1> SUFFICES ASSUME NEW d \in complete', owner' = d
             PROVE  FALSE
  BY DEF CompleteMeansReleased
<1>1. d \in Coords
  BY TypeStep DEF TypeOK, FlagType
<1>2. CASE d \in complete
  <2>1. owner # d /\ ~Works(d)
    BY <1>2 DEF CompleteMeansReleased, WorkersKnown
  <2>2. QED BY <1>1, <2>1, OwnerUsed, UserWorks DEF NoStrays
<1>3. CASE d \notin complete
  BY <1>1, <1>3, CompleteBegins, ModelAssumption DEF CloserStopped, Closed, StopWorks
<1>4. QED BY <1>2, <1>3

\* An owner is found because it was found before or works now.
LEMMA NoForgottenOwnerStep ==
  ASSUME TypeOK, EntryInv, WorkersKnown, CompleteMeansReleased, NoForgottenOwner,
         NoStrays, [Next]_vars
  PROVE  NoForgottenOwner'
<1> SUFFICES ASSUME NEW d \in Coords, owner' = d
             PROVE  d = runtime' \/ d \in abandoned'
  BY TypeStep DEF NoForgottenOwner, TypeOK, EntryType
<1>1. (d = runtime \/ d \in abandoned) /\ d \notin complete
  <2>1. CASE owner = d
    BY <2>1, ModelAssumption DEF NoForgottenOwner, CompleteMeansReleased
  <2>2. CASE owner # d
    BY <2>2, OwnerUsed, UserWorks DEF NoStrays, WorkersKnown
  <2>3. QED BY <2>1, <2>2
<1>2. ~Restart
  BY ModelAssumption DEF Restart
<1>3. Create(d) => d = runtime'
  BY DEF Create
<1>4. d \notin complete'
  BY CompleteMeansReleasedStep DEF CompleteMeansReleased
<1>5. QED BY <1>1, <1>2, <1>3, <1>4, KnownStays

\* A startup that ends without success releases, raises the fence or was cancelled.
LEMMA UnprovenStep ==
    ASSUME TypeOK, CancelArrives, WorkAfterSuccess, Services = {},
         UnprovenIsRemembered, NEW d \in Coords, d \notin shutting', startup'[d] = "done",
         outcome'[d] # "ok", owner' = d, [Next]_vars
  PROVE  d \in fenced' \/ d \in asked'
<1> DEFINE Goal == d \in fenced' \/ d \in asked'
<1> DEFINE Frame == UNCHANGED <<owner, fenced, shutting, startup, outcome, asked>>
<1>1. ASSUME Frame PROVE Goal
  BY <1>1 DEF UnprovenIsRemembered
<1>2. ASSUME Reload PROVE Goal
  BY <1>2 DEF Reload, ListenersFire, CancelStartups, holdVars, shutVars,
     UnprovenIsRemembered, CancelArrives, Live, TypeOK, StartType, FlagType,
     UnprovenIsRemembered
<1>3. ASSUME UnloadBegins PROVE Goal
  BY <1>3 DEF UnloadBegins, ListenersFire, CancelStartups, holdVars, shutVars,
     UnprovenIsRemembered, CancelArrives, Live, TypeOK, StartType, FlagType,
     UnprovenIsRemembered
<1>4. ASSUME RemoveBegins PROVE Goal
  BY <1>4 DEF RemoveBegins, ListenersFire, CancelStartups, startVars, holdVars,
     shutVars, UnprovenIsRemembered, CancelArrives, Live, TypeOK, StartType, FlagType,
     UnprovenIsRemembered
<1>5. ASSUME Restart PROVE Goal
  BY <1>5, ModelAssumption DEF Restart, UnprovenIsRemembered, CancelArrives, Live,
     TypeOK, StartType, FlagType, UnprovenIsRemembered
<1>6. ASSUME BeginReplace PROVE Goal
  BY <1>6 DEF BeginReplace, StartClose, CancelStartups, startVars, holdVars,
     UnprovenIsRemembered, CancelArrives, Live, TypeOK, StartType, FlagType,
     UnprovenIsRemembered
<1>7. ASSUME CallbacksEnd PROVE Goal
  BY <1>7 DEF CallbacksEnd, ListenersFire, CancelStartups, startVars, holdVars,
     shutVars, UnprovenIsRemembered, CancelArrives, Live, TypeOK, StartType, FlagType,
     UnprovenIsRemembered
<1>8. ASSUME RemoveEntry PROVE Goal
  BY <1>8 DEF RemoveEntry, StartClose, CancelStartups, startVars, holdVars,
     UnprovenIsRemembered, CancelArrives, Live, TypeOK, StartType, FlagType,
     UnprovenIsRemembered
<1>9. ASSUME NEW c \in Coords, StartOver(c) PROVE Goal
  BY <1>9 DEF StartOver, NewStartup, holdVars, shutVars, UnprovenIsRemembered,
     CancelArrives, Live, TypeOK, StartType, FlagType, UnprovenIsRemembered
<1>10. ASSUME NEW c \in Coords, UseResult(c) PROVE Goal
  BY <1>10 DEF UseResult, SetupFails, StartClose, CancelStartups, startVars,
     UnprovenIsRemembered, CancelArrives, Live, TypeOK, StartType, FlagType,
     UnprovenIsRemembered
<1>11. ASSUME NEW c \in Coords, Joined(c) PROVE Goal
  BY <1>11 DEF Joined, NewStartup, startVars, holdVars, shutVars,
     UnprovenIsRemembered, CancelArrives, Live, TypeOK, StartType, FlagType,
     UnprovenIsRemembered
<1>12. ASSUME NEW c \in Coords, JoinTimeout(c) PROVE Goal
  BY <1>12 DEF JoinTimeout, CancelStartups, flagVars, holdVars, UnprovenIsRemembered,
     CancelArrives, Live, TypeOK, StartType, FlagType, UnprovenIsRemembered
<1>13. ASSUME NEW c \in Coords, FenceWorks(c) PROVE Goal
  BY <1>13, ModelAssumption DEF FenceWorks, NewStartup, StopWorks, shutVars,
     UnprovenIsRemembered, CancelArrives, Live, TypeOK, StartType, FlagType,
     UnprovenIsRemembered
<1>14. ASSUME NEW c \in Coords, FenceFails(c) PROVE Goal
  BY <1>14 DEF FenceFails, StopFails, startVars, shutVars, UnprovenIsRemembered,
     CancelArrives, Live, TypeOK, StartType, FlagType, UnprovenIsRemembered
<1>15. ASSUME NEW c \in Coords, SliceEnds(c) PROVE Goal
  BY <1>15 DEF SliceEnds, SetupFails, StartClose, CancelStartups, startVars,
     UnprovenIsRemembered, CancelArrives, Live, TypeOK, StartType, FlagType,
     UnprovenIsRemembered
<1>16. ASSUME NEW c \in Coords, ProofTimeout(c) PROVE Goal
  BY <1>16 DEF ProofTimeout, CancelStartups, flagVars, startVars, holdVars,
     UnprovenIsRemembered, CancelArrives, Live, TypeOK, StartType, FlagType,
     UnprovenIsRemembered
<1>17. ASSUME NEW c \in Coords, Create(c) PROVE Goal
  BY <1>17 DEF Create, NewStartup, UnprovenIsRemembered, CancelArrives, Live, TypeOK,
     StartType, FlagType, UnprovenIsRemembered
<1>18. ASSUME NEW c \in Coords, ForwardFails(c) PROVE Goal
  BY <1>18 DEF ForwardFails, SetupFails, StartClose, CancelStartups, startVars,
     holdVars, UnprovenIsRemembered, CancelArrives, Live, TypeOK, StartType, FlagType,
     UnprovenIsRemembered
<1>19. ASSUME NEW c \in Coords, PlatformsUnload(c) PROVE Goal
  BY <1>19 DEF PlatformsUnload, StartClose, CancelStartups, startVars,
     UnprovenIsRemembered, CancelArrives, Live, TypeOK, StartType, FlagType,
     UnprovenIsRemembered
<1>20. ASSUME NEW c \in Coords, PlatformsStay(c) PROVE Goal
  BY <1>20 DEF PlatformsStay, ListenersFire, CancelStartups, holdVars, shutVars,
     UnprovenIsRemembered, CancelArrives, Live, TypeOK, StartType, FlagType,
     UnprovenIsRemembered
<1>21. ASSUME NEW c \in Coords, CloseFails(c) PROVE Goal
  BY <1>21 DEF CloseFails, ListenersFire, CancelStartups, holdVars, shutVars,
     UnprovenIsRemembered, CancelArrives, Live, TypeOK, StartType, FlagType,
     UnprovenIsRemembered
<1>22. ASSUME NEW c \in Coords, StartupRuns(c) PROVE Goal
  BY <1>22 DEF StartupRuns, flagVars, UnprovenIsRemembered, CancelArrives, Live,
     TypeOK, StartType, FlagType, UnprovenIsRemembered
<1>23. ASSUME NEW c \in Coords, StartupConnects(c) PROVE Goal
  <2>1. CASE c = d
    BY <1>23, <2>1 DEF StartupConnects, flagVars, CancelArrives,
       UnprovenIsRemembered, WorkAfterSuccess, Busy, Live, TypeOK, StartType,
       FlagType
  <2>2. CASE c # d
    <3>1. owner = d
      BY <1>23, <2>2, UseOwns DEF StartupConnects
    <3>2. QED
      BY <1>23, <2>2, <3>1 DEF StartupConnects, flagVars, UnprovenIsRemembered,
         TypeOK, StartType, FlagType
  <2>3. QED BY <2>1, <2>2
<1>24. ASSUME NEW c \in Coords, StartupReads(c) PROVE Goal
  <2>1. CASE c = d
    BY <1>24, <2>1 DEF StartupReads, flagVars, taskVars, startVars, CancelArrives,
       UnprovenIsRemembered, WorkAfterSuccess, Busy, Live, TypeOK, StartType,
       FlagType
  <2>2. CASE c # d
    <3>1. owner = d
      BY <1>24, <2>2, UseOwns DEF StartupReads
    <3>2. QED
      BY <1>24, <2>2, <3>1 DEF StartupReads, flagVars, taskVars, startVars,
         UnprovenIsRemembered, TypeOK, StartType, FlagType
  <2>3. QED BY <2>1, <2>2
<1>25. ASSUME NEW c \in Coords, StartupSucceeds(c) PROVE Goal
  <2>1. CASE c = d
    BY <1>25, <2>1 DEF StartupSucceeds, flagVars, CancelArrives,
       UnprovenIsRemembered, WorkAfterSuccess, Busy, Live, TypeOK, StartType,
       FlagType
  <2>2. CASE c # d
    <3>1. owner = d
      BY <1>25, <2>2, UseOwns DEF StartupSucceeds
    <3>2. QED
      BY <1>25, <2>2, <3>1 DEF StartupSucceeds, flagVars, UnprovenIsRemembered,
         TypeOK, StartType, FlagType
  <2>3. QED BY <2>1, <2>2
<1>26. ASSUME NEW c \in Coords, StartupFails(c) PROVE Goal
  <2>1. CASE c = d
    BY <1>26, <2>1 DEF StartupFails, flagVars, CancelArrives, UnprovenIsRemembered,
       WorkAfterSuccess, Busy, Live, TypeOK, StartType, FlagType
  <2>2. CASE c # d
    <3>1. owner = d
      BY <1>26, <2>2, UseOwns DEF StartupFails
    <3>2. QED
      BY <1>26, <2>2, <3>1 DEF StartupFails, flagVars, UnprovenIsRemembered,
         TypeOK, StartType, FlagType
  <2>3. QED BY <2>1, <2>2
<1>27. ASSUME NEW c \in Coords, StartupCleansUp(c) PROVE Goal
  BY <1>27, ModelAssumption DEF StartupCleansUp, StopWorks, StartupEnds, shutVars,
     UnprovenIsRemembered, CancelArrives, Live, TypeOK, StartType, FlagType,
     UnprovenIsRemembered
<1>28. ASSUME NEW c \in Coords, StartupCleanupFails(c) PROVE Goal
  BY <1>28 DEF StartupCleanupFails, StopFails, StartupEnds, shutVars,
     UnprovenIsRemembered, CancelArrives, Live, TypeOK, StartType, FlagType,
     UnprovenIsRemembered
<1>29. ASSUME NEW c \in Coords, StartupBudget(c) PROVE Goal
  <2>1. CASE c = d
    BY <1>29, <2>1 DEF StartupBudget, shutVars, CancelArrives, UnprovenIsRemembered,
       WorkAfterSuccess, Busy, Live, TypeOK, StartType, FlagType
  <2>2. CASE c # d
    <3>1. owner = d
      BY <1>29, <2>2, UseOwns DEF StartupBudget, UseInterrupted
    <3>2. QED
      BY <1>29, <2>2, <3>1 DEF StartupBudget, shutVars, UnprovenIsRemembered,
         TypeOK, StartType, FlagType
  <2>3. QED BY <2>1, <2>2
<1>30. ASSUME NEW c \in Coords, StartupInterrupted(c) PROVE Goal
  <2>1. CASE c = d
    BY <1>30, <2>1 DEF StartupInterrupted, shutVars, CancelArrives,
       UnprovenIsRemembered, WorkAfterSuccess, Busy, Live, TypeOK, StartType,
       FlagType
  <2>2. CASE c # d
    <3>1. owner = d
      BY <1>30, <2>2, UseOwns DEF StartupInterrupted, UseInterrupted
    <3>2. QED
      BY <1>30, <2>2, <3>1 DEF StartupInterrupted, shutVars, UnprovenIsRemembered,
         TypeOK, StartType, FlagType
  <2>3. QED BY <2>1, <2>2
<1>31. ASSUME NEW c \in Coords, NEW z \in ZoneTasks, ZoneReads(c, z) PROVE Goal
  <2>1. CASE c = d
    BY <1>31, <2>1 DEF ZoneReads, flagVars, taskVars, startVars, CancelArrives,
       UnprovenIsRemembered, WorkAfterSuccess, Busy, Live, TypeOK, StartType,
       FlagType
  <2>2. CASE c # d
    <3>1. owner = d
      BY <1>31, <2>2, UseOwns DEF ZoneReads
    <3>2. QED
      BY <1>31, <2>2, <3>1 DEF ZoneReads, flagVars, taskVars, startVars,
         UnprovenIsRemembered, TypeOK, StartType, FlagType
  <2>3. QED BY <2>1, <2>2
<1>32. ASSUME NEW c \in Coords, NEW z \in ZoneTasks, ZonePassEnds(c, z) PROVE Goal
  <2>1. CASE c = d
    BY <1>32, <2>1 DEF ZonePassEnds, flagVars, startVars, CancelArrives,
       UnprovenIsRemembered, WorkAfterSuccess, Busy, Live, TypeOK, StartType,
       FlagType
  <2>2. CASE c # d
    <3>1. owner = d
      BY <1>32, <2>2, UseOwns DEF ZonePassEnds
    <3>2. QED
      BY <1>32, <2>2, <3>1 DEF ZonePassEnds, flagVars, startVars,
         UnprovenIsRemembered, TypeOK, StartType, FlagType
  <2>3. QED BY <2>1, <2>2
<1>33. ASSUME NEW c \in Coords, NEW z \in ZoneTasks, ZoneInterrupted(c, z) PROVE Goal
  <2>1. CASE c = d
    BY <1>33, <2>1 DEF ZoneInterrupted, flagVars, startVars, CancelArrives,
       UnprovenIsRemembered, WorkAfterSuccess, Busy, Live, TypeOK, StartType,
       FlagType
  <2>2. CASE c # d
    <3>1. owner = d
      BY <1>33, <2>2, UseOwns DEF ZoneInterrupted, UseInterrupted
    <3>2. QED
      BY <1>33, <2>2, <3>1 DEF ZoneInterrupted, flagVars, startVars,
         UnprovenIsRemembered, TypeOK, StartType, FlagType
  <2>3. QED BY <2>1, <2>2
<1>34. ASSUME NEW c \in Coords, NEW w \in Readers, ReadReturns(c, w) PROVE Goal
  <2>1. CASE c = d
    BY <1>34, <2>1 DEF ReadReturns, flagVars, startVars, CancelArrives,
       UnprovenIsRemembered, WorkAfterSuccess, Busy, Live, TypeOK, StartType,
       FlagType
  <2>2. CASE c # d
    <3>1. owner = d
      BY <1>34, <2>2, UseOwns DEF ReadReturns
    <3>2. QED
      BY <1>34, <2>2, <3>1 DEF ReadReturns, flagVars, startVars,
         UnprovenIsRemembered, TypeOK, StartType, FlagType
  <2>3. QED BY <2>1, <2>2
<1>35. ASSUME NEW c \in Coords, NEW k \in Closers, CloserJoinTimeout(c, k) PROVE Goal
  BY <1>35 DEF CloserJoinTimeout, CancelStartups, flagVars, UnprovenIsRemembered,
     CancelArrives, Live, TypeOK, StartType, FlagType, UnprovenIsRemembered
<1>36. ASSUME NEW c \in Coords, NEW k \in Closers, CloserPreStopped(c, k) PROVE Goal
  BY <1>36, ModelAssumption DEF CloserPreStopped, StopWorks, flagVars, startVars,
     UnprovenIsRemembered, CancelArrives, Live, TypeOK, StartType, FlagType,
     UnprovenIsRemembered
<1>37. ASSUME NEW c \in Coords, NEW k \in Closers, CloserPreStopFails(c, k) PROVE Goal
  BY <1>37 DEF CloserPreStopFails, StopFails, shutVars, taskVars, startVars,
     UnprovenIsRemembered, CancelArrives, Live, TypeOK, StartType, FlagType,
     UnprovenIsRemembered
<1>38. ASSUME NEW c \in Coords, NEW k \in Closers, CloserStopped(c, k) PROVE Goal
  BY <1>38, ModelAssumption DEF CloserStopped, StopWorks, taskVars, startVars,
     UnprovenIsRemembered, CancelArrives, Live, TypeOK, StartType, FlagType,
     UnprovenIsRemembered
<1>39. ASSUME NEW c \in Coords, NEW k \in Closers, CloserStopFails(c, k) PROVE Goal
  BY <1>39 DEF CloserStopFails, StopFails, flagVars, taskVars, startVars,
     UnprovenIsRemembered, CancelArrives, Live, TypeOK, StartType, FlagType,
     UnprovenIsRemembered
<1>40. ASSUME NEW s \in Services, ServiceReturns(s) PROVE Goal
  BY <1>40 DEF ServiceReturns, UseWorks, Free, UseFails, OwnersAfterFailure, flagVars,
     startVars, UnprovenIsRemembered
<1>41. CASE UserStep
  BY <1>41, <1>1, <1>2, <1>3, <1>4 DEF UserStep, Frame, SetupBegins, flagVars,
     holdVars, taskVars, startVars, AddAgain
<1>42. CASE Restart
  BY <1>42, <1>5
<1>43. CASE StorageNotReady \/ BeginReplace \/ CallbacksEnd \/ RemoveEntry
  BY <1>43, <1>1, <1>6, <1>7, <1>8 DEF Frame, StorageNotReady, flagVars, startVars,
     holdVars
<1>44. CASE \E c \in Coords : WaitStep(c)
  BY <1>44, <1>1, <1>9, <1>10, <1>11, <1>12, <1>13, <1>14, <1>15 DEF WaitStep, Frame,
     JoinCancelled, holdVars, shutVars, taskVars, startVars, WaitSlice, FenceFirst,
     SliceTimeout, flagVars
<1>53. ASSUME NEW c \in Coords, Closed(c) PROVE Goal
  BY <1>53, ModelAssumption DEF Closed, StopWorks, startVars, UnprovenIsRemembered,
     CancelArrives, Live, TypeOK, StartType, FlagType
<1>45. CASE \E c \in Coords : EntryStep(c)
  BY <1>45, <1>1, <1>16, <1>17, <1>18, <1>19, <1>20, <1>21, <1>53 DEF EntryStep, Frame,
     Proved, holdVars, shutVars, taskVars, startVars, ProofFails, flagVars, Loads,
     Removed
<1>46. CASE \E c \in Coords : StartupStep(c) \/ CleanupEnds(c)
  BY <1>46, <1>1, <1>22, <1>23, <1>24, <1>25, <1>26, <1>27, <1>28, <1>29, <1>30 DEF
     StartupStep, Frame, CleanupEnds, holdVars, shutVars, taskVars, startVars
<1>47. CASE \E c \in Coords, z \in ZoneTasks : ZoneStep(c, z)
  BY <1>47, <1>1, <1>31, <1>32, <1>33 DEF ZoneStep, Frame, ZoneWakes, flagVars,
     startVars
<1>48. CASE \E c \in Coords, w \in Readers : ReadBegins(c, w) \/ ReadReturns(c, w)
  BY <1>48, <1>1, <1>34 DEF Frame, ReadBegins, flagVars, startVars
<1>49. CASE \E c \in Coords, k \in Closers : CloserStep(c, k)
  BY <1>49, <1>1, <1>35, <1>36, <1>37, <1>38, <1>39 DEF CloserStep, Frame,
     CloserJoins, flagVars, taskVars, startVars, CloserPreStops, CloserJoinsZones,
     CloserJoinsPollers, CloserPollersTimeout
<1>50. CASE \E s \in Services : ServiceCalls(s) \/ ServiceReturns(s)
  BY <1>50, <1>1, <1>40 DEF Frame, ServiceCalls, flagVars, startVars
<1>51. CASE UNCHANGED vars
  BY <1>51, <1>1 DEF Frame, vars, flagVars, startVars
<1>52. QED
  BY <1>41, <1>42, <1>43, <1>44, <1>45, <1>46, <1>47, <1>48, <1>49, <1>50, <1>51 DEF
     Next, HandlerStep

-----------------------------------------------------------------------------
(* The theorems.                                                           *)

(* What a shutdown has joined stays joined, whatever happens: no poll      *)
(* begins again, and only a zone task that deferred had forgotten lives.   *)
THEOREM JoinedStays == Spec => []JoinedStaysJoined
<1>1. Init => JoinedStaysJoined
  BY DEF Init, JoinedStaysJoined, PollersJoined, ZonesJoined
<1>2. TypeOK /\ TypeOK' /\ EntryInv /\ JoinedStaysJoined /\ [Next]_vars
        => JoinedStaysJoined'
  BY JoinedStep
<1>3. QED BY <1>1, <1>2, TypeCorrect, EntrySafe, PTL DEF Spec

(* After a completed async_shutdown neither the startup task, nor a        *)
(* register poll, nor a zone task the coordinator knows of takes the       *)
(* controller back: only a caller async_shutdown neither cancels nor       *)
(* awaits does.                                                            *)
THEOREM StraysOnly == Spec => OnlyStraysReclaim
<1> DEFINE Reclaim == \A c \in complete : owner # c /\ owner' = c =>
                          \E w \in Strays(c) : w \in waiting[c] /\ Served(c, w)
<1>1. TypeOK /\ EntryInv /\ JoinedStaysJoined /\ [Next]_vars => [Reclaim]_vars
  <2> SUFFICES ASSUME TypeOK, EntryInv, JoinedStaysJoined, [Next]_vars,
                      NEW c \in complete, owner # c, owner' = c
               PROVE  \E w \in Strays(c) : w \in waiting[c] /\ Served(c, w)
    OBVIOUS
  <2>1. c \in Coords
    BY DEF TypeOK, FlagType
  <2>2. PICK w \in Callers : User(c, w) /\ Served(c, w)
    BY <2>1, OwnerUsed
  <2>3. ~Live(c)
    BY <2>1 DEF EntryInv, ShutdownJoined
  <2>4. /\ "poll" \notin reading[c]
        /\ \A z \in ZoneTasks : zone[c][z] # "off" => z \in lost[c]
    BY <2>1 DEF JoinedStaysJoined, PollersJoined, ZonesJoined
  <2>5. w \in Strays(c)
    BY <2>1, <2>2, <2>3, <2>4, ModelAssumption DEF User, Strays, TypeOK, ReadType
  <2>6. QED BY <2>2, <2>5 DEF Served
<1>2. QED BY <1>1, TypeCorrect, EntrySafe, JoinedStays, PTL DEF Spec, OnlyStraysReclaim

LEMMA StartStep ==
  ASSUME NoRevival, TypeOK, TypeOK', EntryInv, StartInv, [Next]_vars
  PROVE  StartInv'
<1> USE DEF StartInv
<1>1. CancelArrives' BY CancelArrivesStep
<1>2. ListensForEntry' BY ListensForEntryStep
<1>3. StartedOnce' BY StartedOnceStep
<1>4. WorkAfterSuccess' BY WorkAfterSuccessStep
<1>5. EntitiesStarted' BY EntitiesStartedStep
<1>6. QED BY <1>1, <1>2, <1>3, <1>4, <1>5

(* A startup succeeds once, and whatever reads follows its success, unless *)
(* the user reloads an entry that waits for its retry.                     *)
THEOREM StartsOnce ==
  ASSUME NoRevival
  PROVE  Spec => []StartInv
<1>1. Init => StartInv
  BY DEF Init, StartInv, CancelArrives, ListensForEntry, StartedOnce, WorkAfterSuccess,
     EntitiesStarted, Busy, Tracked, Live
<1>2. TypeOK /\ TypeOK' /\ EntryInv /\ StartInv /\ [Next]_vars => StartInv'
  BY StartStep
<1>3. QED BY <1>1, <1>2, TypeCorrect, EntrySafe, PTL DEF Spec

(* A failed startup that still holds the controller is remembered by its   *)
(* fence or by its cancellation, whatever the platforms do.                *)
THEOREM FailureRemembered ==
  ASSUME NoRevival, Services = {}
  PROVE  Spec => []UnprovenIsRemembered
<1>1. Init => UnprovenIsRemembered
  BY DEF Init, UnprovenIsRemembered
<1>2. TypeOK /\ StartInv /\ UnprovenIsRemembered /\ [Next]_vars => UnprovenIsRemembered'
  BY UnprovenStep DEF StartInv, UnprovenIsRemembered
<1>3. QED BY <1>1, <1>2, TypeCorrect, StartsOnce, PTL DEF Spec

(* The inductive invariant where nothing leaves a stray behind: entities   *)
(* are in service, and the final stop of a shutdown is the last that the   *)
(* backend serves.                                                         *)
LEMMA OwnerStep ==
  ASSUME NoStrays, TypeOK, TypeOK', EntryInv, OwnerInv, [Next]_vars
  PROVE  OwnerInv'
<1>1. JoinedStaysJoined' BY JoinedStep DEF OwnerInv
<1>2. StartInv' BY StartStep DEF OwnerInv, NoStrays
<1>3. EntitiesServed' BY EntitiesServedStep DEF OwnerInv, StartInv
<1>4. StopIsLast' BY StopIsLastStep DEF OwnerInv
<1>5. WorkersKnown' BY WorkersKnownStep DEF OwnerInv, StartInv
<1>6. CompleteMeansReleased' BY CompleteMeansReleasedStep DEF OwnerInv
<1>7. NoForgottenOwner' BY NoForgottenOwnerStep DEF OwnerInv
<1>8. UnprovenIsRemembered'
  BY UnprovenStep DEF OwnerInv, StartInv, UnprovenIsRemembered, NoStrays
<1>9. QED BY <1>1, <1>2, <1>3, <1>4, <1>5, <1>6, <1>7, <1>8 DEF OwnerInv

(* Where nothing leaves a stray behind, whoever works for a coordinator is *)
(* found through the entry, and nobody works for one that is complete.     *)
THEOREM OwnershipSafe ==
  ASSUME NoStrays
  PROVE  Spec => []OwnerInv
<1>1. Init => OwnerInv
  <2> USE DEF Init
  <2>1. Init => JoinedStaysJoined
    BY DEF JoinedStaysJoined, PollersJoined, ZonesJoined
  <2>2. Init => StartInv
    BY DEF StartInv, CancelArrives, ListensForEntry, StartedOnce, WorkAfterSuccess,
       EntitiesStarted, Busy, Tracked, Live
  <2>3. Init => EntitiesServed /\ StopIsLast /\ WorkersKnown
    BY DEF EntitiesServed, StopIsLast, WorkersKnown, Works, Live, Busy
  <2>4. Init => CompleteMeansReleased /\ NoForgottenOwner /\ UnprovenIsRemembered
    BY DEF CompleteMeansReleased, NoForgottenOwner, UnprovenIsRemembered
  <2>5. QED BY <2>1, <2>2, <2>3, <2>4 DEF OwnerInv
<1>2. TypeOK /\ TypeOK' /\ EntryInv /\ OwnerInv /\ [Next]_vars => OwnerInv'
  BY OwnerStep
<1>3. QED BY <1>1, <1>2, TypeCorrect, EntrySafe, PTL DEF Spec

(* A completed async_shutdown means that the controller is released, and   *)
(* that no task of the coordinator takes it back.                          *)
THEOREM CompleteReleases ==
  ASSUME NoStrays
  PROVE  Spec => []CompleteMeansReleased
<1>1. OwnerInv => CompleteMeansReleased
  BY DEF OwnerInv
<1>2. QED BY <1>1, OwnershipSafe, PTL

(* Whoever holds the controller can be found through entry.runtime_data,   *)
(* unless the removal of the entry has dropped it unproven.                *)
THEOREM OwnerIsFound ==
  ASSUME NoStrays
  PROVE  Spec => []NoForgottenOwner
<1>1. OwnerInv => NoForgottenOwner
  BY DEF OwnerInv
<1>2. QED BY <1>1, OwnershipSafe, PTL

=============================================================================
