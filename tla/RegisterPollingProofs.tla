------------------------ MODULE RegisterPollingProofs ------------------------
(***************************************************************************)
(* Theorems about RegisterPolling, for every set of registers, rows,       *)
(* refreshes, writes and scopes, every period and every environment.       *)
(***************************************************************************)
EXTENDS RegisterPolling, TLAPS

USE PollAssumption

(* A lost object waits for the recovery of the chunk it is in: the others   *)
(* of the chunk have their answers, and no refresh publishes a loss.       *)
Recovers(rec, r) == rec.at = "recover" /\ r \in rec.chunk
Settled(rec) ==
    \A r \in Registers : /\ rec.result[r] = "lost" => Recovers(rec, r)
                         /\ rec.result[r] = "none" => ~Recovers(rec, r)
ResultSettled == \A p \in Pollers : Settled(poll[p])

(* The evidence behind an interval is at least as old as the interval.     *)
EvidenceKept ==
    \A r \in Registers :
        /\ invalid[r] # NoTimer => invalid[r] <= validAge[r]
        /\ itemErrors[r] # NoTimer => itemErrors[r] <= brokenAge[r] /\ itemErrors[r] <= validAge[r]

PollRec == [at : {"idle", "next", "read", "recover"}, todo : SUBSET Registers,
            chunk : SUBSET Registers, scope : Scopes \cup {NoScope},
            result : [Registers -> Answers]]
WriteRec == [at : {"idle", "level", "write", "readback"}, by : Origins,
             register : Registers \cup {0}]

(* The type invariant by the step that can disturb each part.              *)
TrackerTyped ==
    /\ invalid \in [Registers -> NoTimer..Period]
    /\ itemErrors \in [Registers -> NoTimer..Period]
    /\ expired \subseteq Registers
    /\ quarantined \in [Registers -> Scopes \cup {NoScope}]
RowsTyped ==
    /\ rows = [r \in Registers |-> rows[r]]
    /\ \A r \in Registers : rows[r] \in [Rows[r] -> RowStates]
HistoryTyped ==
    /\ validAge \in [Registers -> 0..Period] /\ brokenAge \in [Registers -> 0..Period]
    /\ failedNow \subseteq Registers
SessionTyped ==
    /\ scope \in Scopes \cup {NoScope}
    /\ zoneUp \in BOOLEAN /\ shutting \in BOOLEAN /\ level \in 0..3 /\ captured \in 0..3
PollTyped == poll \in [Pollers -> PollRec]
WriteTyped == write \in [Writers -> WriteRec]
DataTyped == data \in [Registers -> Answers \ {"lost"}]
EnvTyped == env \in Environments /\ registers \subseteq Registers

QueueTyped == queue \in Seq(Callers)

(* The inductive invariant.                                                *)
PollInv ==
    /\ EnvTyped /\ DataTyped /\ TrackerTyped /\ RowsTyped /\ SessionTyped
    /\ PollTyped /\ WriteTyped /\ QueueTyped /\ HistoryTyped
    /\ ResultSettled /\ EvidenceKept

LEMMA InvTyped == PollInv => PollTypeOK
BY DEF PollInv, PollTypeOK, EnvTyped, DataTyped, TrackerTyped, RowsTyped, SessionTyped, PollTyped,
       WriteTyped, QueueTyped, HistoryTyped, PollRec, WriteRec

(* The environment is one that was assumed.                                *)
LEMMA EnvParts ==
  ASSUME env \in Environments
  PROVE  /\ env.registers \subseteq Registers
         /\ env.levels \subseteq 0..3
OBVIOUS

LEMMA InitInv == PollInit => PollInv
<1> SUFFICES ASSUME PollInit PROVE PollInv
  OBVIOUS
<1> USE DEF PollInit
<1>1. EnvTyped /\ DataTyped
  BY EnvParts DEF EnvTyped, DataTyped, Answers
<1>2. TrackerTyped
  BY DEF TrackerTyped, NoTimers, NoTimer, NoRecords
<1>3. RowsTyped
  BY DEF RowsTyped, RowStates
<1>4. SessionTyped
  <2>1. zoneUp \in BOOLEAN
    BY Zenon
  <2>2. level \in 0..3
    BY EnvParts
  <2>3. captured \in 0..3
    BY <2>2 DEF CapturedLevel
  <2> QED BY <2>1, <2>2, <2>3 DEF SessionTyped
<1>5. PollTyped /\ WriteTyped
  BY DEF PollTyped, WriteTyped, PollRec, WriteRec, Idle, NoWrite, Origins, Answers
<1>6. QueueTyped /\ HistoryTyped
  BY DEF QueueTyped, HistoryTyped
<1>7. ResultSettled
  BY DEF ResultSettled, Settled, Recovers, Idle
<1>8. EvidenceKept
  BY DEF EvidenceKept, NoTimers, NoTimer
<1> QED BY <1>1, <1>2, <1>3, <1>4, <1>5, <1>6, <1>7, <1>8 DEF PollInv

(* A step that leaves the refreshes as they are keeps their results.       *)
LEMMA SettledUntouched == ASSUME ResultSettled, UNCHANGED poll PROVE ResultSettled'
BY DEF ResultSettled

LEMMA EvidenceUntouched ==
  ASSUME EvidenceKept, UNCHANGED <<invalid, itemErrors, validAge, brokenAge>>
  PROVE  EvidenceKept'
BY DEF EvidenceKept

(* Replacing the record of one refresh.                                    *)
LEMMA PutPoll ==
  ASSUME PollTyped, ResultSettled, NEW p \in Pollers, NEW rec \in PollRec,
         Settled(rec), poll' = [poll EXCEPT ![p] = rec]
  PROVE  PollTyped' /\ ResultSettled'
<1>1. PollTyped'
  BY DEF PollTyped
<1>2. poll'[p] = rec /\ \A q \in Pollers : q # p => poll'[q] = poll[q]
  BY DEF PollTyped
<1>3. ResultSettled'
  <2> SUFFICES ASSUME NEW q \in Pollers PROVE Settled(poll'[q])
    BY DEF ResultSettled, Settled, Recovers
  <2> QED BY <1>2 DEF ResultSettled
<1> QED BY <1>1, <1>3

-----------------------------------------------------------------------------
(* What an answer teaches.                                                 *)

LEMMA LearnTyped ==
  ASSUME PollInv, NEW p \in Pollers,
         NEW answers \in [poll[p].chunk -> DeviceAnswers], Learn(p, answers)
  PROVE  /\ TrackerTyped' /\ RowsTyped' /\ PollTyped' /\ ResultSettled' /\ EvidenceKept'
         /\ validAge' \in [Registers -> 0..Period] /\ brokenAge' \in [Registers -> 0..Period]
<1>0. /\ TrackerTyped /\ RowsTyped /\ PollTyped /\ HistoryTyped
      /\ ResultSettled /\ EvidenceKept
      /\ poll[p] \in PollRec /\ poll[p].chunk \subseteq Registers
      /\ poll[p].scope \in Scopes \cup {NoScope}
  BY DEF PollInv, PollTyped, PollRec
<1>1. TrackerTyped'
  <2>1. \A r \in Registers : \A a \in DeviceAnswers :
            InvalidAfter(r, a) \in NoTimer..Period /\ ItemErrorsAfter(r, a) \in NoTimer..Period
    BY <1>0 DEF InvalidAfter, ItemErrorsAfter, Started, TrackerTyped, NoTimer
  <2>2. invalid' \in [Registers -> NoTimer..Period] /\ itemErrors' \in [Registers -> NoTimer..Period]
    BY <1>0, <2>1 DEF Learn, TrackerTyped
  <2>3. expired' \subseteq Registers
    BY <1>0 DEF Learn, TrackerTyped
  <2>4. quarantined' \in [Registers -> Scopes \cup {NoScope}]
    BY <1>0 DEF Learn, TrackerTyped
  <2> QED BY <2>2, <2>3, <2>4 DEF TrackerTyped
<1>2. RowsTyped'
  <2>1. \A r \in Registers : Disabled(rows[r]) \in [Rows[r] -> RowStates]
    BY <1>0 DEF RowsTyped, Disabled, RowStates
  <2>2. rows' = [r \in Registers |-> IF r \in poll[p].chunk /\ Expires(r, answers[r])
                                     THEN Disabled(rows[r]) ELSE rows[r]]
    BY DEF Learn
  <2>3. \A r \in Registers : rows'[r] \in {Disabled(rows[r]), rows[r]}
    BY <2>2
  <2>4. \A r \in Registers : rows'[r] \in [Rows[r] -> RowStates]
    BY <1>0, <2>1, <2>3 DEF RowsTyped
  <2>5. rows' = [r \in Registers |-> rows'[r]]
    BY <2>2
  <2> QED BY <2>4, <2>5 DEF RowsTyped
<1>3. /\ validAge' \in [Registers -> 0..Period] /\ brokenAge' \in [Registers -> 0..Period]
  BY <1>0 DEF Learn, HistoryTyped
<1>4. PollTyped' /\ ResultSettled'
  <2> DEFINE res == [r \in Registers |-> IF r \in poll[p].chunk THEN answers[r]
                                         ELSE poll[p].result[r]]
  <2>1. res \in [Registers -> Answers]
    BY <1>0 DEF PollRec, Answers
  <2>2. \A r \in Registers : res[r] # "lost"
    BY <1>0 DEF PollRec, ResultSettled, Settled, Recovers, DeviceAnswers, Values, ItemErrors
  <2> DEFINE rec == [poll[p] EXCEPT !.at = "next", !.chunk = {}, !.result = res]
  <2>3. rec \in PollRec /\ rec.result = res
    BY <1>0, <2>1 DEF PollRec
  <2>4. poll' = [poll EXCEPT ![p] = rec]
    BY <1>0 DEF Learn, PollTyped
  <2>5. Settled(rec)
    BY <2>2, <2>3 DEF Settled, Recovers
  <2> HIDE DEF rec, res
  <2> QED BY <1>0, <2>3, <2>4, <2>5, PutPoll
<1>5. EvidenceKept'
  <2> SUFFICES ASSUME NEW r \in Registers
               PROVE  /\ invalid'[r] # NoTimer => invalid'[r] <= validAge'[r]
                      /\ itemErrors'[r] # NoTimer =>
                            itemErrors'[r] <= brokenAge'[r] /\ itemErrors'[r] <= validAge'[r]
    BY DEF EvidenceKept
  <2>1. CASE r \notin poll[p].chunk
    BY <1>0, <2>1 DEF Learn, EvidenceKept, TrackerTyped, HistoryTyped
  <2>2. CASE r \in poll[p].chunk
    <3>1. /\ invalid'[r] = InvalidAfter(r, answers[r])
          /\ itemErrors'[r] = ItemErrorsAfter(r, answers[r])
          /\ validAge'[r] = IF answers[r] = "valid" THEN 0 ELSE validAge[r]
          /\ brokenAge'[r] = IF answers[r] \notin ItemErrors THEN 0 ELSE brokenAge[r]
      BY <2>2 DEF Learn
    <3>2. /\ invalid[r] \in NoTimer..Period /\ itemErrors[r] \in NoTimer..Period
          /\ validAge[r] \in 0..Period /\ brokenAge[r] \in 0..Period
      BY <1>0 DEF TrackerTyped, HistoryTyped
    <3> QED BY <1>0, <3>1, <3>2 DEF EvidenceKept, InvalidAfter, ItemErrorsAfter, Started, NoTimer,
                              ItemErrors
  <2> QED BY <2>1, <2>2
<1> QED BY <1>1, <1>2, <1>3, <1>4, <1>5

-----------------------------------------------------------------------------
(* Every step keeps types, results and evidence.                            *)

LEMMA NextChunkIn == ASSUME NEW rest \in SUBSET Registers PROVE NextChunk(rest) \subseteq rest
BY DEF NextChunk

LEMMA IdleTyped ==
  Idle \in PollRec /\ \A r \in Registers : Idle.result[r] = "none"
BY DEF Idle, PollRec, Answers

LEMMA PollBeginsInv ==
  ASSUME PollInv, NEW p \in Pollers, PollBegins(p) PROVE PollInv'
<1> USE DEF PollInv
<1>1. UNCHANGED <<env, registers, rows, scope, zoneUp, level, captured, shutting, write, queue,
                  validAge, brokenAge, failedNow>>
  BY DEF PollBegins, session, history
<1>2. EnvTyped' /\ RowsTyped' /\ SessionTyped' /\ WriteTyped' /\ QueueTyped' /\ HistoryTyped'
  BY <1>1 DEF EnvTyped, RowsTyped, SessionTyped, WriteTyped, QueueTyped, HistoryTyped
<1>3. CASE shutting
  <2>1. data' = [r \in Registers |-> "none"] /\ UNCHANGED <<poll, tracker>>
    BY <1>3 DEF PollBegins
  <2>2. DataTyped'
    BY <2>1 DEF DataTyped, Answers
  <2>3. TrackerTyped' /\ PollTyped' /\ ResultSettled' /\ EvidenceKept'
    BY <1>1, <2>1, SettledUntouched, EvidenceUntouched DEF TrackerTyped, PollTyped, tracker
  <2> QED BY <1>2, <2>2, <2>3
<1>4. CASE ~shutting
  <2>1. TrackerTyped'
    <3>1. /\ quarantined' = [r \in Registers |->
                                IF r \in Released THEN NoScope ELSE quarantined[r]]
          /\ invalid' = [r \in Registers |-> IF r \in Released THEN NoTimer ELSE invalid[r]]
          /\ itemErrors' = [r \in Registers |->
                               IF r \in Released THEN NoTimer ELSE itemErrors[r]]
          /\ expired' = expired
      BY <1>4 DEF PollBegins
    <3> QED BY <3>1 DEF TrackerTyped, NoTimer
  <2>2. EvidenceKept'
    BY <1>1, <1>4 DEF PollBegins, EvidenceKept, NoTimer, TrackerTyped
  <2>3. PollTyped' /\ ResultSettled'
    <3> DEFINE rec == [Idle EXCEPT !.at = "next", !.scope = scope,
                                   !.todo = {r \in Considered : ~StillQuarantined(r)}]
    <3>1. rec \in PollRec /\ rec.result = Idle.result
      BY IdleTyped DEF PollRec, Considered, SessionTyped, EnvTyped
    <3>2. poll' = [poll EXCEPT ![p] = rec]
      BY <1>4 DEF PollBegins
    <3>3. Settled(rec)
      BY <3>1, IdleTyped DEF Settled, Recovers
    <3> HIDE DEF rec
    <3> QED BY <3>1, <3>2, <3>3, PutPoll
  <2>4. DataTyped'
    BY <1>4 DEF PollBegins, DataTyped
  <2> QED BY <1>2, <2>1, <2>2, <2>3, <2>4
<1> QED BY <1>3, <1>4

(* A refresh takes its next chunk, or ends.                                *)
LEMMA ChunkBeginsInv ==
  ASSUME PollInv, NEW p \in Pollers, ChunkBegins(p) PROVE PollInv'
<1> USE DEF PollInv
<1>1. UNCHANGED <<env, registers, data, invalid, itemErrors, expired, quarantined, rows, scope,
                  zoneUp, level, captured, shutting, write, validAge, brokenAge, failedNow>>
  BY DEF ChunkBegins, tracker, session, history
<1>2. /\ EnvTyped' /\ DataTyped' /\ TrackerTyped' /\ RowsTyped' /\ SessionTyped' /\ WriteTyped'
      /\ HistoryTyped'
  BY <1>1 DEF EnvTyped, DataTyped, TrackerTyped, RowsTyped, SessionTyped, WriteTyped, HistoryTyped
<1>3. QueueTyped'
  BY DEF ChunkBegins, QueueTyped, Callers
<1>4. PollTyped' /\ ResultSettled'
  <2> DEFINE rec == [poll[p] EXCEPT !.at = "read", !.chunk = NextChunk(poll[p].todo),
                                    !.todo = @ \ NextChunk(poll[p].todo)]
  <2>1. poll[p] \in PollRec
    BY DEF PollTyped
  <2>2. rec \in PollRec /\ rec.result = poll[p].result
    BY <2>1, NextChunkIn DEF PollRec
  <2>3. poll' = [poll EXCEPT ![p] = rec]
    BY DEF ChunkBegins, PollTyped
  <2>4. rec.at = "read" /\ \A r \in Registers : rec.result[r] # "lost"
    BY <2>1, <2>2 DEF ChunkBegins, ResultSettled, Settled, Recovers, PollRec
  <2>5. Settled(rec)
    BY <2>4 DEF Settled, Recovers
  <2> HIDE DEF rec
  <2> QED BY <2>2, <2>3, <2>5, PutPoll
<1>5. EvidenceKept'
  BY <1>1, EvidenceUntouched
<1> QED BY <1>2, <1>3, <1>4, <1>5

LEMMA PollEndsInv ==
  ASSUME PollInv, NEW p \in Pollers, PollEnds(p) PROVE PollInv'
<1> USE DEF PollInv
<1>1. UNCHANGED <<env, registers, invalid, itemErrors, expired, quarantined, rows, scope,
                  zoneUp, level, captured, shutting, write, queue, validAge, brokenAge, failedNow>>
  BY DEF PollEnds, tracker, session, history
<1>2. /\ EnvTyped' /\ TrackerTyped' /\ RowsTyped' /\ SessionTyped' /\ WriteTyped'
      /\ QueueTyped' /\ HistoryTyped'
  BY <1>1 DEF EnvTyped, TrackerTyped, RowsTyped, SessionTyped, WriteTyped, QueueTyped, HistoryTyped
<1>3. DataTyped'
  <2>1. poll[p].result \in [Registers -> Answers]
    BY DEF PollTyped, PollRec
  <2>2. \A r \in Registers : poll[p].result[r] # "lost"
    BY DEF PollEnds, ResultSettled, Settled, Recovers
  <2>3. data' = poll[p].result
    BY DEF PollEnds
  <2> QED BY <2>1, <2>2, <2>3 DEF DataTyped
<1>4. PollTyped' /\ ResultSettled'
  <2>1. poll' = [poll EXCEPT ![p] = Idle]
    BY DEF PollEnds
  <2>2. Idle \in PollRec /\ Settled(Idle)
    BY IdleTyped DEF Settled, Recovers, Idle
  <2> QED BY <2>1, <2>2, PutPoll
<1>5. EvidenceKept'
  BY <1>1, EvidenceUntouched
<1> QED BY <1>2, <1>3, <1>4, <1>5

(* A chunk is answered, fails, or is read again in part.                   *)
LEMMA TailTyped == ASSUME QueueTyped, NEW c, Serves(c), queue' = Tail(queue) PROVE QueueTyped'
BY DEF QueueTyped, Serves

LEMMA ChunkAnsweredInv ==
  ASSUME PollInv, NEW p \in Pollers, ChunkAnswered(p) PROVE PollInv'
<1> USE DEF PollInv
<1>1. UNCHANGED <<env, registers, data, scope, zoneUp, level, captured, shutting, write>>
  BY DEF ChunkAnswered, session
<1>2. EnvTyped' /\ DataTyped' /\ SessionTyped' /\ WriteTyped'
  BY <1>1 DEF EnvTyped, DataTyped, SessionTyped, WriteTyped
<1>3. QueueTyped'
  BY TailTyped DEF ChunkAnswered
<1>4. PICK answers \in AnswersFor(poll[p].chunk) :
          Learn(p, answers) /\ failedNow' = failedNow \cup Failing(answers)
  BY DEF ChunkAnswered
<1>5. answers \in [poll[p].chunk -> DeviceAnswers] /\ Failing(answers) \subseteq Registers
  BY <1>4 DEF AnswersFor, Failing, PollTyped, PollRec
<1>6. failedNow' \subseteq Registers
  BY <1>4, <1>5 DEF HistoryTyped
<1> QED BY <1>2, <1>3, <1>4, <1>5, <1>6, LearnTyped DEF HistoryTyped

LEMMA ChunkRaisesInv ==
  ASSUME PollInv, NEW p \in Pollers, ChunkRaises(p) PROVE PollInv'
<1> USE DEF PollInv
<1>1. UNCHANGED <<env, registers, data, zoneUp, level, captured, shutting, write>>
      /\ scope' \in {scope, NoScope}
  BY DEF ChunkRaises
<1>2. EnvTyped' /\ DataTyped' /\ SessionTyped' /\ WriteTyped'
  BY <1>1 DEF EnvTyped, DataTyped, SessionTyped, WriteTyped
<1>3. QueueTyped'
  BY TailTyped DEF ChunkRaises
<1>4. Learn(p, [r \in poll[p].chunk |-> "broken"])
  BY DEF ChunkRaises
<1>5. [r \in poll[p].chunk |-> "broken"] \in [poll[p].chunk -> DeviceAnswers]
  BY DEF DeviceAnswers
<1>6. failedNow' \subseteq Registers
  BY DEF HistoryTyped, ChunkRaises
<1> QED BY <1>2, <1>3, <1>4, <1>5, <1>6, LearnTyped DEF HistoryTyped

LEMMA SessionFailsInv ==
  ASSUME PollInv, NEW p \in Pollers, SessionFails(p) PROVE PollInv'
<1> USE DEF PollInv
<1>1. UNCHANGED <<env, registers, data, invalid, itemErrors, expired, quarantined, rows, scope,
                  zoneUp, level, captured, shutting, write, queue, validAge, brokenAge, failedNow>>
  BY DEF SessionFails, tracker, session, history
<1>2. /\ EnvTyped' /\ DataTyped' /\ TrackerTyped' /\ RowsTyped' /\ SessionTyped' /\ WriteTyped'
      /\ QueueTyped' /\ HistoryTyped'
  BY <1>1 DEF EnvTyped, DataTyped, TrackerTyped, RowsTyped, SessionTyped, WriteTyped, QueueTyped,
              HistoryTyped
<1>3. PICK failed \in SUBSET poll[p].chunk, answers \in AnswersFor(poll[p].chunk) :
        poll' = [poll EXCEPT ![p].at = "recover",
                             ![p].result = [r \in Registers |->
                                 IF r \in failed THEN "lost"
                                 ELSE IF r \in poll[p].chunk THEN answers[r]
                                 ELSE poll[p].result[r]]]
  BY DEF SessionFails
<1>4. PollTyped' /\ ResultSettled'
  <2> DEFINE res == [r \in Registers |-> IF r \in failed THEN "lost"
                                         ELSE IF r \in poll[p].chunk THEN answers[r]
                                         ELSE poll[p].result[r]]
             rec == [poll[p] EXCEPT !.at = "recover", !.result = res]
  <2>1. poll[p] \in PollRec
    BY DEF PollTyped
  <2>2. answers \in [poll[p].chunk -> DeviceAnswers]
    BY DEF AnswersFor
  <2>3. res \in [Registers -> Answers]
    BY <2>1, <2>2 DEF PollRec, Answers
  <2>4. rec \in PollRec /\ rec.result = res /\ rec.at = "recover" /\ rec.chunk = poll[p].chunk
    BY <2>1, <2>3 DEF PollRec
  <2>5. poll' = [poll EXCEPT ![p] = rec]
    BY <1>3 DEF PollTyped
  <2>6. \A r \in Registers : /\ res[r] = "lost" => r \in poll[p].chunk
                             /\ r \in poll[p].chunk => res[r] # "none"
    <3>1. poll[p].at = "read" /\ Settled(poll[p])
      BY DEF SessionFails, ResultSettled
    <3>2. \A r \in poll[p].chunk : answers[r] # "none"
      BY <2>2 DEF DeviceAnswers, Values, ItemErrors
    <3> QED BY <3>1, <3>2 DEF Settled, Recovers
  <2> HIDE DEF rec, res
  <2>7. Settled(rec)
    <3>1. \A r \in Registers : rec.result[r] = "lost" => Recovers(rec, r)
      BY <2>4, <2>6 DEF Recovers
    <3>2. \A r \in Registers : rec.result[r] = "none" => ~Recovers(rec, r)
      BY <2>4, <2>6 DEF Recovers
    <3> QED BY <3>1, <3>2 DEF Settled
  <2> QED BY <2>4, <2>5, <2>7, PutPoll
<1>5. EvidenceKept'
  BY <1>1, EvidenceUntouched
<1> QED BY <1>2, <1>4, <1>5

LEMMA RecoveredLearns ==
  ASSUME PollInv, NEW p \in Pollers, Recovered(p)
  PROVE  /\ \E answers \in [poll[p].chunk -> DeviceAnswers] : Learn(p, answers)
         /\ failedNow' \subseteq Registers
<1> USE DEF PollInv
<1> DEFINE lost == {r \in poll[p].chunk : poll[p].result[r] = "lost"}
<1>4. PICK again \in AnswersFor(lost) :
          /\ Learn(p, [r \in poll[p].chunk |->
                         IF r \in DOMAIN again THEN again[r] ELSE poll[p].result[r]])
          /\ failedNow' = Failing(again)
  BY DEF Recovered
<1>5. again \in [lost -> DeviceAnswers]
  BY <1>4 DEF AnswersFor
<1>6. poll[p].chunk \subseteq Registers /\ poll[p].result \in [Registers -> Answers]
  BY DEF PollTyped, PollRec
<1>7. failedNow' \subseteq Registers
  BY <1>4, <1>5, <1>6 DEF Failing
<1> DEFINE all == [r \in poll[p].chunk |->
                     IF r \in DOMAIN again THEN again[r] ELSE poll[p].result[r]]
<1>8. all \in [poll[p].chunk -> DeviceAnswers]
  <2>1. \A r \in poll[p].chunk \ lost : poll[p].result[r] \in DeviceAnswers
    BY <1>6 DEF Recovered, ResultSettled, Settled, Recovers, Answers
  <2> QED BY <1>5, <2>1
<1>9. Learn(p, all)
  BY <1>4
<1> HIDE DEF all
<1> QED BY <1>7, <1>8, <1>9

LEMMA RecoveredInv ==
  ASSUME PollInv, NEW p \in Pollers, Recovered(p) PROVE PollInv'
<1> USE DEF PollInv
<1>1. UNCHANGED <<env, registers, data, zoneUp, level, captured, shutting, write>>
      /\ scope' \in FreshScopes \cup {NoScope}
  BY DEF Recovered
<1>2. EnvTyped' /\ DataTyped' /\ SessionTyped' /\ WriteTyped'
  BY <1>1 DEF EnvTyped, DataTyped, SessionTyped, WriteTyped, FreshScopes
<1>3. QueueTyped'
  BY TailTyped DEF Recovered
<1> QED BY <1>2, <1>3, LearnTyped, RecoveredLearns DEF HistoryTyped

(* Writes.                                                                 *)
LEMMA WriteSteps ==
  ASSUME PollInv, NEW w \in Writers,
         \/ \E r \in Registers, by \in Origins : WriteBegins(w, r, by)
         \/ WriteStep(w)
  PROVE  PollInv'
<1> USE DEF PollInv
<1> DEFINE Calm == UNCHANGED <<env, registers, invalid, itemErrors, expired, quarantined, rows,
                               scope, zoneUp, captured, shutting, poll, validAge, brokenAge,
                               failedNow>>
<1>1. Calm => /\ EnvTyped' /\ TrackerTyped' /\ RowsTyped' /\ PollTyped' /\ HistoryTyped'
              /\ ResultSettled' /\ EvidenceKept'
  BY SettledUntouched, EvidenceUntouched
     DEF EnvTyped, TrackerTyped, RowsTyped, PollTyped, HistoryTyped
<1>2. NoWrite \in WriteRec
  BY DEF NoWrite, WriteRec, Origins
<1>3. ASSUME NEW r \in Registers, NEW by \in Origins, WriteBegins(w, r, by) PROVE PollInv'
  <2>1. Calm /\ UNCHANGED <<data, level>>
    BY <1>3 DEF WriteBegins, tracker, session, history
  <2>2. DataTyped' /\ SessionTyped'
    BY <2>1 DEF DataTyped, SessionTyped
  <2>3. WriteTyped'
    BY <1>3 DEF WriteBegins, WriteTyped, WriteRec
  <2>4. QueueTyped'
    BY <1>3 DEF WriteBegins, QueueTyped, Callers
  <2> QED BY <1>1, <2>1, <2>2, <2>3, <2>4
<1>4. ASSUME LevelRead(w) PROVE PollInv'
  <2>1. Calm /\ UNCHANGED data /\ level' \in 0..3
    BY <1>4, EnvParts DEF LevelRead, tracker, history, EnvTyped
  <2>2. DataTyped' /\ SessionTyped'
    BY <2>1 DEF DataTyped, SessionTyped
  <2>3. WriteTyped'
    <3>1. \/ write' = [write EXCEPT ![w].at = "write"] \/ write' = [write EXCEPT ![w] = NoWrite]
      BY <1>4 DEF LevelRead, WriteTo
    <3> QED BY <1>2, <3>1 DEF WriteTyped, WriteRec
  <2>4. QueueTyped'
    BY <1>4 DEF LevelRead, QueueTyped, Serves, Callers
  <2> QED BY <1>1, <2>1, <2>2, <2>3, <2>4
<1>5. ASSUME WriteFails(w) \/ WriteVerified(w) PROVE PollInv'
  <2>1. Calm /\ UNCHANGED <<data, level>>
    BY <1>5 DEF WriteFails, WriteVerified, tracker, session, history
  <2>2. DataTyped' /\ SessionTyped'
    BY <2>1 DEF DataTyped, SessionTyped
  <2>3. WriteTyped'
    BY <1>2, <1>5 DEF WriteFails, WriteVerified, WriteTo, WriteTyped, WriteRec
  <2>4. QueueTyped'
    <3>1. queue # <<>> /\ queue' \in {Tail(queue), Append(Tail(queue), w)}
      BY <1>5 DEF WriteFails, WriteVerified, Serves
    <3> QED BY <3>1 DEF QueueTyped, Callers
  <2> QED BY <1>1, <2>1, <2>2, <2>3, <2>4
<1>6. ASSUME ReadBack(w) PROVE PollInv'
  <2>1. Calm /\ UNCHANGED level
    BY <1>6 DEF ReadBack, tracker, session, history
  <2>2. SessionTyped'
    BY <2>1 DEF SessionTyped
  <2>3. DataTyped'
    BY <1>6 DEF ReadBack, DataTyped, Values, Answers, DeviceAnswers
  <2>4. WriteTyped'
    BY <1>2, <1>6 DEF ReadBack, WriteTyped
  <2>5. QueueTyped'
    BY <1>6 DEF ReadBack, QueueTyped, Serves
  <2> QED BY <1>1, <2>1, <2>2, <2>3, <2>4, <2>5
<1> QED BY <1>3, <1>4, <1>5, <1>6 DEF WriteStep

(* Reactivation, the user, time and the session.                           *)
LEMMA ReactivateInv ==
  ASSUME PollInv, NEW r \in Registers, Reactivate(r) PROVE PollInv'
<1> USE DEF PollInv
<1>1. UNCHANGED <<env, registers, data, scope, zoneUp, level, captured, shutting, poll, write,
                  queue, validAge, brokenAge, failedNow>>
  BY DEF Reactivate, session, history
<1>2. /\ EnvTyped' /\ DataTyped' /\ SessionTyped' /\ PollTyped' /\ WriteTyped' /\ QueueTyped'
      /\ HistoryTyped' /\ ResultSettled'
  BY <1>1, SettledUntouched
     DEF EnvTyped, DataTyped, SessionTyped, PollTyped, WriteTyped, QueueTyped, HistoryTyped
<1>3. TrackerTyped'
  BY DEF Reactivate, TrackerTyped, NoTimer
<1>4. RowsTyped'
  <2> DEFINE row == [x \in Rows[r] |-> IF rows[r][x] = "integration" THEN "enabled"
                                                                    ELSE rows[r][x]]
  <2>1. row \in [Rows[r] -> RowStates]
    BY DEF RowsTyped, RowStates
  <2>2. rows' = [rows EXCEPT ![r] = row]
    BY DEF Reactivate
  <2> HIDE DEF row
  <2> QED BY <2>1, <2>2 DEF RowsTyped
<1>5. EvidenceKept'
  BY <1>1 DEF Reactivate, EvidenceKept, TrackerTyped
<1> QED BY <1>2, <1>3, <1>4, <1>5

LEMMA UserSetsInv ==
  ASSUME PollInv, NEW r \in Registers, NEW x \in Rows[r], UserSets(r, x) PROVE PollInv'
<1> USE DEF PollInv
<1>1. UNCHANGED <<env, registers, data, invalid, itemErrors, expired, quarantined, scope, zoneUp,
                  level, captured, shutting, poll, write, queue, validAge, brokenAge, failedNow>>
  BY DEF UserSets, tracker, session, history
<1>2. /\ EnvTyped' /\ DataTyped' /\ TrackerTyped' /\ SessionTyped' /\ PollTyped' /\ WriteTyped'
      /\ QueueTyped' /\ HistoryTyped' /\ ResultSettled' /\ EvidenceKept'
  BY <1>1, SettledUntouched, EvidenceUntouched
     DEF EnvTyped, DataTyped, TrackerTyped, SessionTyped, PollTyped, WriteTyped, QueueTyped,
         HistoryTyped
<1>3. RowsTyped'
  <2> DEFINE row == [rows[r] EXCEPT ![x] = IF @ = "enabled" THEN "user" ELSE "enabled"]
  <2>1. row \in [Rows[r] -> RowStates]
    BY DEF RowsTyped, RowStates
  <2>2. rows' = [rows EXCEPT ![r] = row]
    BY DEF UserSets, RowsTyped
  <2> HIDE DEF row
  <2> QED BY <2>1, <2>2 DEF RowsTyped
<1> QED BY <1>2, <1>3

LEMMA TickInv == ASSUME PollInv, Tick PROVE PollInv'
<1> USE DEF PollInv
<1>1. UNCHANGED <<env, registers, data, expired, quarantined, rows, scope, zoneUp, level,
                  captured, shutting, poll, write, queue, failedNow>>
  BY DEF Tick, session
<1>2. /\ EnvTyped' /\ DataTyped' /\ RowsTyped' /\ SessionTyped' /\ PollTyped' /\ WriteTyped'
      /\ QueueTyped' /\ ResultSettled'
  BY <1>1, SettledUntouched
     DEF EnvTyped, DataTyped, RowsTyped, SessionTyped, PollTyped, WriteTyped, QueueTyped
<1>3. /\ \A age \in NoTimer..Period : Older(age) \in NoTimer..Period
      /\ \A age \in 0..Period : Older(age) \in 0..Period
  BY DEF Older, NoTimer
<1>4. TrackerTyped' /\ HistoryTyped'
  BY <1>1, <1>3 DEF Tick, TrackerTyped, HistoryTyped
<1>5. \A a \in NoTimer..Period, b \in 0..Period :
        /\ Older(a) # NoTimer => a # NoTimer
        /\ a <= b => Older(a) <= Older(b)
  BY DEF Older, NoTimer
<1>6. EvidenceKept'
  BY <1>5 DEF Tick, EvidenceKept, TrackerTyped, HistoryTyped
<1> QED BY <1>2, <1>4, <1>6

LEMMA OutsideInv ==
  ASSUME PollInv,
         \/ \E more \in SUBSET Registers : AddRegisters(more)
         \/ ZoneChanges \/ SessionChanges \/ ShutdownBegins
  PROVE  PollInv'
<1> USE DEF PollInv
<1>1. UNCHANGED <<env, data, invalid, itemErrors, expired, quarantined, rows, captured, level,
                  poll, write, queue, validAge, brokenAge>>
  BY DEF AddRegisters, ZoneChanges, SessionChanges, ShutdownBegins, tracker, session, history
<1>2. /\ DataTyped' /\ TrackerTyped' /\ RowsTyped' /\ PollTyped' /\ WriteTyped' /\ QueueTyped'
      /\ ResultSettled' /\ EvidenceKept'
  BY <1>1, SettledUntouched, EvidenceUntouched
     DEF DataTyped, TrackerTyped, RowsTyped, PollTyped, WriteTyped, QueueTyped
<1>3. EnvTyped'
  BY <1>1 DEF AddRegisters, ZoneChanges, SessionChanges, ShutdownBegins, EnvTyped
<1>4. SessionTyped'
  BY <1>1 DEF AddRegisters, ZoneChanges, SessionChanges, ShutdownBegins, SessionTyped, session,
              FreshScopes
<1>5. failedNow' \subseteq Registers
  BY DEF AddRegisters, ZoneChanges, SessionChanges, ShutdownBegins, HistoryTyped, history
<1> QED BY <1>1, <1>2, <1>3, <1>4, <1>5 DEF HistoryTyped

LEMMA ReloadInv == ASSUME PollInv, Reload PROVE PollInv'
<1> USE DEF PollInv
<1>1. UNCHANGED <<env, rows, zoneUp, poll, write, queue>>
  BY DEF Reload
<1>2. RowsTyped' /\ PollTyped' /\ WriteTyped' /\ QueueTyped' /\ ResultSettled'
  BY <1>1, SettledUntouched DEF RowsTyped, PollTyped, WriteTyped, QueueTyped
<1>3. EnvTyped' /\ DataTyped'
  BY <1>1, EnvParts DEF Reload, EnvTyped, DataTyped, Answers
<1>4. TrackerTyped' /\ HistoryTyped'
  BY DEF Reload, TrackerTyped, HistoryTyped, NoTimers, NoTimer, NoRecords
<1>5. SessionTyped'
  <2>1. level' \in 0..3
    BY EnvParts DEF Reload, EnvTyped
  <2>2. captured' \in 0..3
    BY <2>1 DEF Reload, CapturedLevel
  <2> QED BY <1>1, <2>1, <2>2 DEF Reload, SessionTyped, FreshScopes
<1>6. EvidenceKept'
  BY DEF Reload, EvidenceKept, NoTimers
<1> QED BY <1>2, <1>3, <1>4, <1>5, <1>6

LEMMA StutterInv == ASSUME PollInv, UNCHANGED vars PROVE PollInv'
<1>1. UNCHANGED <<env, registers, data, invalid, itemErrors, expired, quarantined, rows, scope,
                  zoneUp, level, captured, shutting, poll, write, queue, validAge, brokenAge,
                  failedNow>>
  BY DEF vars, tracker, session, history
<1> QED BY <1>1, SettledUntouched, EvidenceUntouched
        DEF PollInv, EnvTyped, DataTyped, TrackerTyped, RowsTyped, SessionTyped, PollTyped,
            WriteTyped, QueueTyped, HistoryTyped

(* Every step keeps the invariant.                                         *)
LEMMA StepInv == PollInv /\ [PollNext]_vars => PollInv'
<1> SUFFICES ASSUME PollInv, [PollNext]_vars PROVE PollInv'
  OBVIOUS
<1>1. ASSUME NEW p \in Pollers, PollBegins(p) \/ PollStep(p) PROVE PollInv'
  BY <1>1, PollBeginsInv, ChunkBeginsInv, PollEndsInv, ChunkAnsweredInv, ChunkRaisesInv,
     SessionFailsInv, RecoveredInv DEF PollStep
<1>2. ASSUME NEW w \in Writers,
             \/ \E r \in Registers, by \in Origins : WriteBegins(w, r, by)
             \/ WriteStep(w)
      PROVE  PollInv'
  BY <1>2, WriteSteps
<1>3. ASSUME NEW r \in Registers, Reactivate(r) \/ \E x \in Rows[r] : UserSets(r, x)
      PROVE  PollInv'
  BY <1>3, ReactivateInv, UserSetsInv
<1>4. ASSUME \/ \E more \in SUBSET Registers : AddRegisters(more)
             \/ ZoneChanges \/ SessionChanges \/ ShutdownBegins
      PROVE  PollInv'
  BY <1>4, OutsideInv
<1> QED BY <1>1, <1>2, <1>3, <1>4, TickInv, ReloadInv, StutterInv DEF PollNext

(* Every reachable state is well-typed and what it holds of an answer is   *)
(* backed by evidence.                                                     *)
THEOREM PollSafe == PollSpec => []PollInv
<1>1. PollInit => PollInv
  BY InitInv
<1>2. PollInv /\ [PollNext]_vars => PollInv'
  BY StepInv
<1> QED BY <1>1, <1>2, PTL DEF PollSpec

(* Type correctness.  In particular no refresh publishes the loss of an    *)
(* object, and no age leaves its interval.                                 *)
THEOREM PollTypes == PollSpec => []PollTypeOK
<1>1. PollInv => PollTypeOK
  BY InvTyped
<1> QED BY <1>1, PollSafe, PTL

-----------------------------------------------------------------------------
(* Quarantine.                                                             *)

(* What an answer records is about the scope its refresh started in.       *)
LEMMA LearnQuarantines ==
  ASSUME PollInv, NEW p \in Pollers,
         NEW answers \in [poll[p].chunk -> DeviceAnswers], Learn(p, answers), NEW r \in Registers
  PROVE  \/ quarantined'[r] = quarantined[r]
         \/ quarantined'[r] = poll[p].scope /\ r \in Failing(answers)
BY DEF Learn, Quarantines, Failing

LEMMA FreshReleases ==
  ASSUME PollInv, scope' \in FreshScopes \cup {NoScope},
         \A r \in Registers : \/ quarantined'[r] \in {quarantined[r], NoScope}
                             \/ \E p \in Pollers : quarantined'[r] = poll[p].scope
  PROVE  \A r \in Registers : ~StillQuarantined(r)'
BY DEF StillQuarantined, FreshScopes

LEMMA QuarantineStep ==
  PollInv /\ QuarantineIsCurrent /\ [PollNext]_vars => QuarantineIsCurrent'
<1> SUFFICES ASSUME PollInv, QuarantineIsCurrent, [PollNext]_vars PROVE QuarantineIsCurrent'
  OBVIOUS
<1> USE DEF PollInv
<1>1. ASSUME UNCHANGED <<scope, failedNow>>,
             \A r \in Registers : quarantined'[r] \in {quarantined[r], NoScope}
      PROVE  QuarantineIsCurrent'
  BY <1>1 DEF QuarantineIsCurrent, StillQuarantined
<1>2. ASSUME NEW p \in Pollers, PollBegins(p) PROVE QuarantineIsCurrent'
  <2>1. UNCHANGED <<scope, failedNow>>
    BY <1>2 DEF PollBegins, session, history
  <2>2. \A r \in Registers : quarantined'[r] \in {quarantined[r], NoScope}
    BY <1>2 DEF PollBegins, tracker
  <2> QED BY <1>1, <2>1, <2>2
<1>3. ASSUME NEW p \in Pollers, ChunkBegins(p) \/ PollEnds(p) \/ SessionFails(p)
      PROVE  QuarantineIsCurrent'
  BY <1>1, <1>3 DEF ChunkBegins, PollEnds, SessionFails, tracker, session, history
<1>4. ASSUME NEW p \in Pollers, ChunkAnswered(p) PROVE QuarantineIsCurrent'
  <2>1. PICK answers \in AnswersFor(poll[p].chunk) :
            Learn(p, answers) /\ failedNow' = failedNow \cup Failing(answers)
    BY <1>4 DEF ChunkAnswered
  <2>2. answers \in [poll[p].chunk -> DeviceAnswers]
    BY DEF AnswersFor
  <2>3. UNCHANGED scope
    BY <1>4 DEF ChunkAnswered, session
  <2> QED BY <2>1, <2>2, <2>3, LearnQuarantines DEF QuarantineIsCurrent, StillQuarantined
<1>5. ASSUME NEW p \in Pollers, ChunkRaises(p) PROVE QuarantineIsCurrent'
  <2>1. Learn(p, [r \in poll[p].chunk |-> "broken"])
    BY <1>5 DEF ChunkRaises
  <2>2. /\ [r \in poll[p].chunk |-> "broken"] \in [poll[p].chunk -> DeviceAnswers]
        /\ Failing([r \in poll[p].chunk |-> "broken"]) = {}
    BY DEF DeviceAnswers, Failing, Deterministic
  <2>3. \A r \in Registers : quarantined'[r] = quarantined[r]
    BY <2>1, <2>2, LearnQuarantines
  <2>4. scope' \in {scope, NoScope} /\ (scope' = scope => failedNow' = failedNow)
    BY <1>5 DEF ChunkRaises
  <2> QED BY <2>3, <2>4 DEF QuarantineIsCurrent, StillQuarantined
<1>6. ASSUME NEW p \in Pollers, Recovered(p) PROVE QuarantineIsCurrent'
  <2>1. \A r \in Registers : quarantined'[r] \in {quarantined[r], poll[p].scope}
    BY <1>6 DEF Recovered, Learn
  <2>2. scope' \in FreshScopes \cup {NoScope}
    BY <1>6 DEF Recovered
  <2> QED BY <2>1, <2>2, FreshReleases DEF QuarantineIsCurrent
<1>7. ASSUME NEW w \in Writers,
             \/ \E r \in Registers, by \in Origins : WriteBegins(w, r, by)
             \/ WriteStep(w)
      PROVE  QuarantineIsCurrent'
  BY <1>1, <1>7 DEF WriteBegins, WriteStep, LevelRead, WriteFails, WriteVerified, ReadBack,
                    tracker, session, history
<1>8. ASSUME NEW r \in Registers, Reactivate(r) \/ \E x \in Rows[r] : UserSets(r, x)
      PROVE  QuarantineIsCurrent'
  <2>1. UNCHANGED <<scope, failedNow>>
    BY <1>8 DEF Reactivate, UserSets, session, history
  <2>2. \A q \in Registers : quarantined'[q] \in {quarantined[q], NoScope}
    BY <1>8 DEF Reactivate, UserSets, tracker, TrackerTyped
  <2> QED BY <1>1, <2>1, <2>2
<1>9. ASSUME \/ \E more \in SUBSET Registers : AddRegisters(more)
             \/ ZoneChanges \/ ShutdownBegins \/ Tick \/ UNCHANGED vars
      PROVE  QuarantineIsCurrent'
  BY <1>1, <1>9 DEF AddRegisters, ZoneChanges, ShutdownBegins, Tick, tracker, session, history, vars
<1>10. ASSUME SessionChanges \/ Reload PROVE QuarantineIsCurrent'
  <2>1. scope' \in FreshScopes \cup {NoScope}
    BY <1>10 DEF SessionChanges, Reload
  <2>2. \A r \in Registers : quarantined'[r] \in {quarantined[r], NoScope}
    BY <1>10 DEF SessionChanges, Reload, tracker, NoRecords
  <2> QED BY <2>1, <2>2, FreshReleases DEF QuarantineIsCurrent
<1> QED BY <1>2, <1>3, <1>4, <1>5, <1>6, <1>7, <1>8, <1>9, <1>10 DEF PollNext, PollStep

(* A quarantine that still counts is for a failure of the present session. *)
THEOREM QuarantineCurrent == PollSpec => []QuarantineIsCurrent
<1>1. PollInit => QuarantineIsCurrent
  BY DEF PollInit, QuarantineIsCurrent, StillQuarantined, NoRecords
<1> QED BY <1>1, PollSafe, QuarantineStep, PTL DEF PollSpec

-----------------------------------------------------------------------------
(* Rows.                                                                   *)

(* Who may change a row: an answer, a reactivation and the user.           *)
LEMMA RowsChange ==
  ASSUME PollInv, [PollNext]_vars, NEW r \in Registers, NEW x \in Rows[r],
         rows'[r][x] # rows[r][x]
  PROVE  \/ /\ rows[r][x] = "enabled" /\ rows'[r][x] = "integration"
            /\ \E a \in DeviceAnswers : Expires(r, a)
         \/ rows[r][x] = "integration" /\ rows'[r][x] = "enabled"
         \/ UserSets(r, x)
<1> USE DEF PollInv
<1>1. ASSUME NEW p \in Pollers, NEW answers \in [poll[p].chunk -> DeviceAnswers], Learn(p, answers)
      PROVE  /\ rows[r][x] = "enabled" /\ rows'[r][x] = "integration"
             /\ \E a \in DeviceAnswers : Expires(r, a)
  <2>1. rows'[r] = IF r \in poll[p].chunk /\ Expires(r, answers[r])
                   THEN Disabled(rows[r]) ELSE rows[r]
    BY <1>1 DEF Learn
  <2>2. r \in poll[p].chunk /\ Expires(r, answers[r]) /\ rows'[r] = Disabled(rows[r])
    BY <2>1
  <2>3. rows'[r][x] = IF rows[r][x] = "enabled" THEN "integration" ELSE rows[r][x]
    BY <2>2 DEF RowsTyped, Disabled
  <2> QED BY <2>2, <2>3
<1>2. ASSUME NEW p \in Pollers, ChunkAnswered(p) \/ ChunkRaises(p) \/ Recovered(p)
      PROVE  \E answers \in [poll[p].chunk -> DeviceAnswers] : Learn(p, answers)
  <2>1. ASSUME ChunkAnswered(p) PROVE \E answers \in [poll[p].chunk -> DeviceAnswers] : Learn(p, answers)
    BY <2>1 DEF ChunkAnswered, AnswersFor
  <2>2. ASSUME ChunkRaises(p) PROVE \E answers \in [poll[p].chunk -> DeviceAnswers] : Learn(p, answers)
    <3>1. [q \in poll[p].chunk |-> "broken"] \in [poll[p].chunk -> DeviceAnswers]
      BY DEF DeviceAnswers
    <3> QED BY <2>2, <3>1 DEF ChunkRaises
  <2>3. ASSUME Recovered(p) PROVE \E answers \in [poll[p].chunk -> DeviceAnswers] : Learn(p, answers)
    BY <2>3, RecoveredLearns
  <2> QED BY <1>2, <2>1, <2>2, <2>3
<1>3. ASSUME NEW p \in Pollers,
             PollBegins(p) \/ ChunkBegins(p) \/ PollEnds(p) \/ SessionFails(p)
      PROVE  FALSE
  BY <1>3 DEF PollBegins, ChunkBegins, PollEnds, SessionFails
<1>4. ASSUME NEW w \in Writers,
             \/ \E q \in Registers, by \in Origins : WriteBegins(w, q, by)
             \/ WriteStep(w)
      PROVE  FALSE
  BY <1>4 DEF WriteBegins, WriteStep, LevelRead, WriteFails, WriteVerified, ReadBack
<1>5. ASSUME NEW q \in Registers, Reactivate(q)
      PROVE  rows[r][x] = "integration" /\ rows'[r][x] = "enabled"
  BY <1>5 DEF Reactivate, RowsTyped
<1>6. ASSUME NEW q \in Registers, NEW y \in Rows[q], UserSets(q, y)
      PROVE  UserSets(r, x)
  <2>1. rows' = [rows EXCEPT ![q][y] = IF @ = "enabled" THEN "user" ELSE "enabled"]
    BY <1>6 DEF UserSets
  <2>2. q = r /\ y = x
    BY <2>1 DEF RowsTyped
  <2> QED BY <1>6, <2>2
<1>7. ASSUME \/ \E more \in SUBSET Registers : AddRegisters(more)
             \/ ZoneChanges \/ ShutdownBegins \/ Tick \/ SessionChanges \/ Reload
             \/ UNCHANGED vars
      PROVE  FALSE
  BY <1>7 DEF AddRegisters, ZoneChanges, ShutdownBegins, Tick, SessionChanges, Reload, vars
<1> QED BY <1>1, <1>2, <1>3, <1>4, <1>5, <1>6, <1>7 DEF PollNext, PollStep

(* A row is retired only on evidence of the whole period.                  *)
THEOREM RetirementEvident == PollSpec => RetiredOnEvidence
<1>1. ASSUME PollInv, [PollNext]_vars, NEW r \in Registers, NEW x \in Rows[r],
             rows[r][x] = "enabled", rows'[r][x] = "integration"
      PROVE  validAge[r] = Period /\ (invalid[r] = Period \/ brokenAge[r] = Period)
  <2>1. PICK a \in DeviceAnswers : Expires(r, a)
    BY <1>1, RowsChange DEF UserSets, PollInv, RowsTyped
  <2>2. /\ invalid[r] \in NoTimer..Period /\ itemErrors[r] \in NoTimer..Period
        /\ validAge[r] \in 0..Period /\ brokenAge[r] \in 0..Period
    BY <1>1 DEF PollInv, TrackerTyped, HistoryTyped
  <2>3. invalid[r] = Period \/ itemErrors[r] = Period
    BY <2>1, <2>2 DEF Expires, InvalidAfter, ItemErrorsAfter, Started, NoTimer
  <2> QED BY <1>1, <2>2, <2>3 DEF PollInv, EvidenceKept, NoTimer
<1>2. PollInv /\ [PollNext]_vars =>
        [\A r \in Registers : \A x \in Rows[r] :
            rows[r][x] = "enabled" /\ rows'[r][x] = "integration" =>
               /\ validAge[r] = Period
               /\ invalid[r] = Period \/ brokenAge[r] = Period]_vars
  BY <1>1
<1> QED BY <1>2, PollSafe, PTL DEF PollSpec, RetiredOnEvidence

(* Only the user enables what the user disabled.                           *)
THEOREM UserAuthoritative == PollSpec => UserStaysAuthoritative
<1>1. PollInv /\ [PollNext]_vars =>
        [\A r \in Registers : \A x \in Rows[r] :
            rows[r][x] = "user" /\ rows'[r][x] # "user" => UserSets(r, x)]_vars
  BY RowsChange
<1> QED BY <1>1, PollSafe, PTL DEF PollSpec, UserStaysAuthoritative

-----------------------------------------------------------------------------
(* Reactivation and writes.                                                *)

(* A reactivated register is read by the next refresh.                     *)
THEOREM Reactivated == PollSpec => ReactivationResumes
<1>1. ASSUME PollInv, NEW r \in registers, Reactivate(r), ZoneAllows(r),
             NEW x \in Rows[r], rows[r][x] # "user"
      PROVE  (r \in Considered /\ ~StillQuarantined(r))'
  <2>1. r \in Registers
    BY <1>1 DEF PollInv, EnvTyped
  <2>2. registers' = registers /\ zoneUp' = zoneUp
    BY <1>1 DEF Reactivate, session
  <2>3. r \notin expired' /\ quarantined'[r] = NoScope
    BY <1>1, <2>1 DEF Reactivate, PollInv, TrackerTyped
  <2>4. rows'[r][x] = "enabled"
    BY <1>1, <2>1 DEF Reactivate, PollInv, RowsTyped, RowStates
  <2>5. ShouldPoll(r)'
    BY <2>4 DEF ShouldPoll
  <2>6. ZoneAllows(r)'
    BY <1>1, <2>2 DEF ZoneAllows
  <2> QED BY <1>1, <2>2, <2>3, <2>5, <2>6 DEF Considered, StillQuarantined
<1>2. PollInv /\ [PollNext]_vars =>
        [\A r \in registers :
            Reactivate(r) /\ ZoneAllows(r) /\ (\E x \in Rows[r] : rows[r][x] # "user")
               => (r \in Considered /\ ~StillQuarantined(r))']_vars
  BY <1>1
<1> QED BY <1>2, PollSafe, PTL DEF PollSpec, ReactivationResumes

(* No write goes out on a level nobody has proven.                         *)
THEOREM WritesProven == PollSpec => WritesAreProven
<1>1. ASSUME PollInv, PollNext, NEW v \in Writers, write[v].at # "write", write'[v].at = "write"
      PROVE  IF level' = 0 THEN AccessLevel = 1 ELSE Sufficient(level', write'[v].register)
  <2>1. ASSUME NEW w \in Writers, NEW r \in Registers, NEW by \in Origins, WriteBegins(w, r, by)
        PROVE  IF level' = 0 THEN AccessLevel = 1 ELSE Sufficient(level', write'[v].register)
    <3>1. /\ v = w /\ ~NeedsLevel /\ write'[v].register = r
      BY <1>1, <2>1 DEF WriteBegins, PollInv, WriteTyped
    <3>2. level' = level
      BY <2>1 DEF WriteBegins, session
    <3> QED BY <2>1, <3>1, <3>2 DEF WriteBegins, NeedsLevel, LevelAllows, Sufficient, PollInv, SessionTyped
  <2>2. ASSUME NEW w \in Writers, LevelRead(w)
        PROVE  IF level' = 0 THEN AccessLevel = 1 ELSE Sufficient(level', write'[v].register)
    <3>1. /\ v = w /\ Sufficient(level', write[v].register)
          /\ write'[v].register = write[v].register
      BY <1>1, <2>2 DEF LevelRead, WriteTo, PollInv, WriteTyped, WriteRec, NoWrite
    <3>2. level' # 0
      BY <2>2 DEF LevelRead
    <3> QED BY <3>1, <3>2
  <2>3. ASSUME NEW w \in Writers, WriteFails(w) \/ WriteVerified(w) \/ ReadBack(w) PROVE FALSE
    BY <1>1, <2>3 DEF WriteFails, WriteVerified, ReadBack, WriteTo, PollInv, WriteTyped, WriteRec,
                      NoWrite
  <2>4. write' # write
    BY <1>1
  <2>5. ASSUME NEW p \in Pollers, PollBegins(p) \/ PollStep(p) PROVE FALSE
    BY <2>4, <2>5 DEF PollBegins, PollStep, ChunkBegins, PollEnds, ChunkAnswered, ChunkRaises,
                      SessionFails, Recovered
  <2>6. ASSUME \/ \E r \in Registers : Reactivate(r) \/ (\E x \in Rows[r] : UserSets(r, x))
               \/ \E more \in SUBSET Registers : AddRegisters(more)
               \/ Tick \/ ZoneChanges \/ SessionChanges \/ ShutdownBegins \/ Reload
        PROVE  FALSE
    BY <2>4, <2>6 DEF Reactivate, UserSets, AddRegisters, Tick, ZoneChanges, SessionChanges,
                      ShutdownBegins, Reload
  <2> QED BY <1>1, <2>1, <2>2, <2>3, <2>5, <2>6 DEF PollNext, WriteStep
<1>2. PollInv /\ [PollNext]_vars =>
        [\A w \in Writers : write[w].at # "write" /\ write'[w].at = "write" =>
            IF level' = 0 THEN AccessLevel = 1
                          ELSE Sufficient(level', write'[w].register)]_vars
  BY <1>1
<1> QED BY <1>2, PollSafe, PTL DEF PollSpec, WritesAreProven
=============================================================================
