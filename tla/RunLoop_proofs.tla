-------------------------- MODULE RunLoop_proofs --------------------------
(* Theorems about the run loop, for every set of goals and every limit. *)
EXTENDS RunLoop, FiniteSetTheorems, TLAPS

(***************************************************************************)
(* The inductive invariant: the type, and what each phase knows.           *)
(***************************************************************************)
Asking   == phase = "judge" => guards.unfinished < MaxUnfinished
Blocking == phase = "hook" => guards.blocks < MaxStopHookBlocks

(* The live cycle count is the one on record; a handoff carries it. *)
Counted == /\ phase \in Running \ {"linking"} => golden.cycle = Cycles
           /\ phase = "linking" => spec.cycle = Cycles

Verifying == {"verify", "passed", "failed"}
Leaving   == {"settle", "hook", "closed"}

(* What is known of the goals and of the files between the finish line's  *)
(* decision and the Done event.                                           *)
Judged ==
  /\ phase \in Verifying => stopReason = "end_turn"
  /\ phase \in Verifying \cup Leaving /\ stopReason = "end_turn" => pending = <<>>
  /\ phase = "passed" => excused \/ evidence = "green"
  /\ phase \in Leaving /\ stopReason = "end_turn" => excused \/ GateOpen \/ ~VerificationRequired

(* The finish line is reached by a reply: no injected message is open. *)
Answered == phase \in Finishing => ~unanswered

IInv == TypeOK /\ Asking /\ Blocking /\ Counted /\ Judged /\ Answered

(* The empty task list is a task list: the harness can have no goal. *)
LEMMA NoGoals == <<>> \in GoalLists
<1>1. Cardinality(Goals) \in Nat
  BY GoalsAssumption, FS_CardinalityType
<1>2. <<>> \in [1..0 -> Goals]
  OBVIOUS
<1>3. 0 \in 0..Cardinality(Goals)
  BY <1>1
<1>. QED
  BY <1>2, <1>3 DEF GoalLists

(* The golden state a run starts from is well typed. *)
LEMMA RecordsGiveGolden == TypeOK => GoldenFromRecords \in GoldenType
BY LimitsAssumption DEF TypeOK, Values, GoldenType, GoldenFromRecords, Larger

(* A run starts with guards and golden counters within their bounds. *)
LEMMA NoGuardsType == NoGuards \in GuardType
BY LimitsAssumption DEF NoGuards, GuardType

(* No golden cycle and an empty list are a golden state. *)
LEMMA NoGoldenType == NoGolden \in GoldenType
BY LimitsAssumption, NoGoals DEF NoGolden, GoldenType

(* The names the steps assign are names of the type. *)
LEMMA Names ==
  /\ "idle" \in Phases /\ "head" \in Phases /\ "stream" \in Phases /\ "tools" \in Phases
  /\ "watch" \in Phases /\ "linking" \in Phases /\ "judge" \in Phases /\ "finish" \in Phases
  /\ "verify" \in Phases /\ "passed" \in Phases /\ "failed" \in Phases /\ "settle" \in Phases
  /\ "hook" \in Phases /\ "closed" \in Phases
  /\ "none" \in StopReasons /\ "end_turn" \in StopReasons /\ "golden_stalled" \in StopReasons
  /\ "max_golden_cycles" \in StopReasons /\ "quality_failed" \in StopReasons /\ "hook_stop" \in StopReasons
  /\ "hook_blocked" \in StopReasons /\ "interrupted" \in StopReasons /\ "max_tokens" \in StopReasons
  /\ "tool_loop" \in StopReasons /\ "max_rounds" \in StopReasons /\ "error" \in StopReasons
  /\ "off" \in EvidenceStates /\ "missing" \in EvidenceStates /\ "stale" \in EvidenceStates
  /\ "green" \in EvidenceStates /\ "red" \in EvidenceStates
BY DEF Phases, Running, Finishing, StopReasons, EvidenceStates

(* An edit leaves the quality run's evidence one of its states. *)
LEMMA Edits == evidence \in EvidenceStates => AfterEdit \subseteq EvidenceStates
BY Names DEF AfterEdit

(* The invariant holds before the first run. *)
LEMMA InitIInv == Init => IInv
<1>. SUFFICES ASSUME Init PROVE IInv
  OBVIOUS
<1>. USE DEF Init
<1>1. TypeOK
  <2>1. Values
    BY LimitsAssumption, Names, NoGoals, NoGuardsType, NoGoldenType DEF Values
  <2>2. Flags
    BY DEF Flags
  <2>. QED
    BY <2>1, <2>2 DEF TypeOK
<1>2. Asking /\ Blocking /\ Counted /\ Judged /\ Answered
  BY DEF Asking, Blocking, Counted, Judged, Answered, Running, Finishing, Verifying, Leaving
<1>. QED
  BY <1>1, <1>2 DEF IInv

(* The streaks are counted and reset within their bounds. *)
LEMMA Streaks ==
  ASSUME guards \in GuardType, NEW t \in 0..2, NEW e \in 0..3
  PROVE  WithStreaks(t, e) \in GuardType
BY LimitsAssumption DEF GuardType, WithStreaks

(* The judge's guard starts over. *)
LEMMA NothingAnnounced ==
  ASSUME NEW g \in GuardType PROVE [g EXCEPT !.unfinished = 0] \in GuardType
<1>1. 0 \in 0..MaxUnfinished
  BY LimitsAssumption
<1>. QED
  BY <1>1 DEF GuardType

(* A failing report spends a retry, or ends the run. *)
LEMMA ReportStep ==
  ASSUME TypeOK, FailingReport
  PROVE  guards' \in GuardType /\ phase' \in Phases /\ stopReason' \in StopReasons
<1>. USE Names DEF TypeOK, Values
<1>1. CASE guards.retries < MaxQualityRetries
  BY <1>1, LimitsAssumption DEF FailingReport, SendBack, GuardType
<1>2. CASE ~(guards.retries < MaxQualityRetries)
  BY <1>2, LimitsAssumption DEF FailingReport, SendBack, GuardType
<1>. QED
  BY <1>1, <1>2

(* Every step keeps the type; two of the guards are bounded only by what the *)
(* phase has already checked.                                                *)
LEMMA ValuesStep == TypeOK /\ Asking /\ Blocking /\ [Next]_vars => Values'
<1>. SUFFICES ASSUME TypeOK, Asking, Blocking, [Next]_vars PROVE Values'
  OBVIOUS
<1>. USE LimitsAssumption, Names DEF TypeOK, Values, sessionVars, goldenVars, userVars
<1>1. CASE SendRequest
  BY <1>1 DEF SendRequest
<1>2. CASE RoundCap
  BY <1>2, NoGuardsType, NoGoldenType DEF RoundCap, Close
<1>3. CASE ContextHandoff
  BY <1>3, RecordsGiveGolden DEF ContextHandoff
<1>4. CASE FailRun
  BY <1>4, NoGuardsType, NoGoldenType DEF FailRun, Close
<1>5. CASE StreamInterrupted
  BY <1>5, NoGuardsType, NoGoldenType DEF StreamInterrupted, Close, InjectSteering,
    TakeInterrupt
<1>6. CASE StreamTruncated
  BY <1>6, NoGuardsType, NoGoldenType DEF StreamTruncated, Close, GuardType
<1>7. CASE StreamEmpty
  <2>1. guards.empties \in 0..3 /\ 0 \in 0..2
    BY DEF GuardType
  <2>2. \E e \in 0..3 : guards' = WithStreaks(0, e)
    BY <1>7, <2>1 DEF StreamEmpty
  <2>3. guards' \in GuardType
    BY <2>1, <2>2, Streaks
  <2>4. phase' \in Phases /\ queue' \in 0..MaxQueue
    BY <1>7 DEF StreamEmpty, InjectSteering
  <2>. QED
    BY <1>7, <2>3, <2>4 DEF StreamEmpty
<1>8. CASE StreamText
  <2>1. WithStreaks(0, 0) \in GuardType
    BY Streaks
  <2>2. phase' \in Phases /\ queue' \in 0..MaxQueue
    BY <1>8 DEF StreamText, InjectSteering
  <2>. QED
    BY <1>8, <2>1, <2>2 DEF StreamText
<1>9. CASE StreamTools
  <2>1. guards.truncations \in 0..2
    BY DEF GuardType
  <2>2. PICK kept \in 0..2 : guards' = [WithStreaks(kept, 0) EXCEPT !.unfinished = 0]
    BY <1>9, <2>1 DEF StreamTools
  <2>3. guards' \in GuardType
    <3>1. WithStreaks(kept, 0) \in GuardType
      BY Streaks
    <3>. QED
      BY <2>2, <3>1, NothingAnnounced
  <2>. QED
    BY <1>9, <2>3 DEF StreamTools
<1>10. CASE Judge
  BY <1>10 DEF Judge, SendBack, GuardType, Asking
<1>11. CASE StillDoing
  BY <1>11 DEF StillDoing, SendBack, ReminderDue, GuardType
<1>12. CASE GoldenContinue
  BY <1>12 DEF GoldenContinue, SendBack, GoldenMayContinue, Stalls, Larger, GoldenType
<1>13. CASE GoldenGivesUp
  <2>1. Stalls \in Nat
    BY DEF Stalls, GoldenType
  <2>2. golden' \in GoldenType
    BY <1>13, <2>1 DEF GoldenGivesUp, GoldenType
  <2>3. GiveUpReason \in StopReasons
    BY DEF GiveUpReason
  <2>. QED
    BY <1>13, <2>2, <2>3 DEF GoldenGivesUp
<1>14. CASE CheckEvidence
  BY <1>14 DEF CheckEvidence, NothingToVerify
<1>15. CASE KnownRed
  <2>1. guards' \in GuardType /\ phase' \in Phases /\ stopReason' \in StopReasons
    BY <1>15, ReportStep DEF KnownRed
  <2>. QED
    BY <1>15, <2>1 DEF KnownRed, FailingReport, SendBack
<1>16. CASE ChecksRecorded
  BY <1>16 DEF ChecksRecorded
<1>17. CASE ChecksReturn
  BY <1>17 DEF ChecksReturn, FailingReport, SendBack, GuardType
<1>18. CASE ChecksGiveNothing
  BY <1>18 DEF ChecksGiveNothing
<1>19. CASE AnswerInstead
  BY <1>19 DEF AnswerInstead, InjectSteering, TakeInterrupt
<1>20. CASE FireStopHook
  BY <1>20 DEF FireStopHook, HookMayBlock
<1>21. CASE StopHookBlocks
  BY <1>21 DEF StopHookBlocks, SendBack, GuardType, Blocking
<1>22. CASE Finish
  BY <1>22, NoGuardsType, NoGoldenType DEF Finish, Close, NothingQueued, HookMayBlock
<1>23. CASE EndRound
  BY <1>23 DEF EndRound
<1>24. CASE ToolHookStop
  BY <1>24, NoGuardsType, NoGoldenType DEF ToolHookStop, Close
<1>25. CASE DocumentHandoff
  BY <1>25, RecordsGiveGolden DEF DocumentHandoff
<1>26. CASE ToolLoopStop
  BY <1>26, NoGuardsType, NoGoldenType DEF ToolLoopStop, Close
<1>27. CASE NextRound
  BY <1>27 DEF NextRound, InjectSteering, TakeInterrupt, GuardType
<1>28. CASE PauseAfterTools
  BY <1>28, NoGuardsType, NoGoldenType DEF PauseAfterTools, Close, TakeInterrupt
<1>29. CASE StartSuccessor
  BY <1>29, NoGuardsType, NoGoldenType DEF StartSuccessor, EnterLoop
<1>30. CASE LinkFails
  BY <1>30, NoGuardsType, NoGoldenType DEF LinkFails, Close
<1>31. CASE DropSteering
  BY <1>31 DEF DropSteering
<1>32. CASE EditCode
  BY <1>32, Edits DEF EditCode
<1>33. CASE RunQuality
  BY <1>33 DEF RunQuality
<1>34. CASE SetTasks
  BY <1>34 DEF SetTasks
<1>35. CASE StartRun
  BY <1>35, NoGuardsType, NoGoldenType, RecordsGiveGolden DEF StartRun, SendMessage,
    EnterLoop
<1>36. CASE RefuseRun
  BY <1>36, NoGuardsType, NoGoldenType DEF RefuseRun, Close, SendMessage
<1>37. CASE QueueSteering
  BY <1>37 DEF QueueSteering
<1>38. CASE InterruptSession
  BY <1>38 DEF InterruptSession
<1>39. CASE UserEdits
  BY <1>39, Edits DEF UserEdits
<1>40. CASE Crash
  BY <1>40, NoGuardsType, NoGoldenType DEF Crash
<1>41. CASE UNCHANGED vars
  BY <1>41 DEF vars
<1>. QED
  BY <1>1, <1>2, <1>3, <1>4, <1>5, <1>6, <1>7, <1>8, <1>9, <1>10, <1>11, <1>12, <1>13,
    <1>14, <1>15, <1>16, <1>17, <1>18, <1>19, <1>20, <1>21, <1>22, <1>23, <1>24, <1>25,
    <1>26, <1>27, <1>28, <1>29, <1>30, <1>31, <1>32, <1>33, <1>34, <1>35, <1>36, <1>37,
    <1>38, <1>39, <1>40, <1>41 DEF Next, RunStep, ToolCall, UserStep

(* Every step leaves the flags Boolean. *)
LEMMA FlagsStep == Flags /\ [Next]_vars => Flags'
<1>. SUFFICES ASSUME Flags, [Next]_vars PROVE Flags'
  OBVIOUS
<1>. USE DEF Flags, sessionVars, goldenVars, userVars
<1>1. CASE SendRequest
  BY <1>1 DEF SendRequest
<1>2. CASE RoundCap
  BY <1>2 DEF RoundCap, Close
<1>3. CASE ContextHandoff
  BY <1>3 DEF ContextHandoff
<1>4. CASE FailRun
  BY <1>4 DEF FailRun, Close
<1>5. CASE StreamInterrupted
  BY <1>5 DEF StreamInterrupted, Close, InjectSteering, TakeInterrupt
<1>6. CASE StreamTruncated
  BY <1>6 DEF StreamTruncated, Close
<1>7. CASE StreamEmpty
  BY <1>7 DEF StreamEmpty, InjectSteering
<1>8. CASE StreamText
  BY <1>8 DEF StreamText, InjectSteering
<1>9. CASE StreamTools
  BY <1>9 DEF StreamTools
<1>10. CASE Judge
  BY <1>10 DEF Judge, SendBack
<1>11. CASE StillDoing
  BY <1>11 DEF StillDoing, SendBack, ReminderDue
<1>12. CASE GoldenContinue
  BY <1>12 DEF GoldenContinue, SendBack, GoldenMayContinue, Stalls, Larger
<1>13. CASE GoldenGivesUp
  BY <1>13 DEF GoldenGivesUp, GiveUpReason, GoldenMayContinue, Stalls
<1>14. CASE CheckEvidence
  BY <1>14 DEF CheckEvidence, NothingToVerify
<1>15. CASE KnownRed
  BY <1>15 DEF KnownRed, FailingReport, SendBack
<1>16. CASE ChecksRecorded
  BY <1>16 DEF ChecksRecorded
<1>17. CASE ChecksReturn
  BY <1>17 DEF ChecksReturn, FailingReport, SendBack
<1>18. CASE ChecksGiveNothing
  BY <1>18 DEF ChecksGiveNothing
<1>19. CASE AnswerInstead
  BY <1>19 DEF AnswerInstead, InjectSteering, TakeInterrupt
<1>20. CASE FireStopHook
  BY <1>20 DEF FireStopHook, HookMayBlock
<1>21. CASE StopHookBlocks
  BY <1>21 DEF StopHookBlocks, SendBack
<1>22. CASE Finish
  BY <1>22 DEF Finish, Close, NothingQueued, HookMayBlock
<1>23. CASE EndRound
  BY <1>23 DEF EndRound
<1>24. CASE ToolHookStop
  BY <1>24 DEF ToolHookStop, Close
<1>25. CASE DocumentHandoff
  BY <1>25 DEF DocumentHandoff
<1>26. CASE ToolLoopStop
  BY <1>26 DEF ToolLoopStop, Close
<1>27. CASE NextRound
  BY <1>27 DEF NextRound, InjectSteering, TakeInterrupt
<1>28. CASE PauseAfterTools
  BY <1>28 DEF PauseAfterTools, Close, TakeInterrupt
<1>29. CASE StartSuccessor
  BY <1>29 DEF StartSuccessor, EnterLoop
<1>30. CASE LinkFails
  BY <1>30 DEF LinkFails, Close
<1>31. CASE DropSteering
  BY <1>31 DEF DropSteering
<1>32. CASE EditCode
  BY <1>32 DEF EditCode
<1>33. CASE RunQuality
  BY <1>33 DEF RunQuality
<1>34. CASE SetTasks
  BY <1>34 DEF SetTasks
<1>35. CASE StartRun
  BY <1>35 DEF StartRun, SendMessage, EnterLoop
<1>36. CASE RefuseRun
  BY <1>36 DEF RefuseRun, Close, SendMessage
<1>37. CASE QueueSteering
  BY <1>37 DEF QueueSteering
<1>38. CASE InterruptSession
  BY <1>38 DEF InterruptSession
<1>39. CASE UserEdits
  BY <1>39 DEF UserEdits
<1>40. CASE Crash
  BY <1>40 DEF Crash
<1>41. CASE UNCHANGED vars
  BY <1>41 DEF vars
<1>. QED
  BY <1>1, <1>2, <1>3, <1>4, <1>5, <1>6, <1>7, <1>8, <1>9, <1>10, <1>11, <1>12, <1>13,
    <1>14, <1>15, <1>16, <1>17, <1>18, <1>19, <1>20, <1>21, <1>22, <1>23, <1>24, <1>25,
    <1>26, <1>27, <1>28, <1>29, <1>30, <1>31, <1>32, <1>33, <1>34, <1>35, <1>36, <1>37,
    <1>38, <1>39, <1>40, <1>41 DEF Next, RunStep, ToolCall, UserStep

(* The three rules about steps, as the properties state them. *)
NudgeRule == /\ SelfNudge => NudgeBudget' < NudgeBudget /\ NudgeBudget' >= 0
             /\ NudgeBudget' > NudgeBudget => Refills
CycleRule == /\ Cycles' >= Cycles
             /\ golden'.cycle > golden.cycle /\ phase = "finish" => Cycles' = Cycles + 1
AnswerRule == phase # "closed" /\ phase' = "closed" =>
                /\ stopReason' \in FinishLine => queue' = 0 /\ ~unanswered'
                /\ stopReason' = "interrupted" => queue' = 0

(* What each phase has checked stays true while the run is in it. *)
LEMMA PhaseStep == IInv /\ [Next]_vars => Asking' /\ Blocking' /\ Answered'
<1>. SUFFICES ASSUME IInv, [Next]_vars
                 PROVE  Asking' /\ Blocking' /\ Answered'
  OBVIOUS
<1>. USE DEF IInv, TypeOK, Values, Asking, Blocking, Answered, Finishing, GuardType,
         WithStreaks, sessionVars, goldenVars, userVars
<1>1. CASE SendRequest
  BY <1>1 DEF SendRequest
<1>2. CASE RoundCap
  BY <1>2 DEF RoundCap, Close
<1>3. CASE ContextHandoff
  BY <1>3 DEF ContextHandoff
<1>4. CASE FailRun
  BY <1>4 DEF FailRun, Close
<1>5. CASE StreamInterrupted
  BY <1>5 DEF StreamInterrupted, Close, InjectSteering, TakeInterrupt
<1>6. CASE StreamTruncated
  BY <1>6 DEF StreamTruncated, Close
<1>7. CASE StreamEmpty
  BY <1>7 DEF StreamEmpty, InjectSteering
<1>8. CASE StreamText
  BY <1>8 DEF StreamText, InjectSteering
<1>9. CASE StreamTools
  BY <1>9 DEF StreamTools
<1>10. CASE Judge
  BY <1>10 DEF Judge, SendBack
<1>11. CASE StillDoing
  BY <1>11 DEF StillDoing, SendBack, ReminderDue
<1>12. CASE GoldenContinue
  BY <1>12 DEF GoldenContinue, SendBack, GoldenMayContinue, Stalls, Larger
<1>13. CASE GoldenGivesUp
  BY <1>13 DEF GoldenGivesUp, GiveUpReason, GoldenMayContinue, Stalls
<1>14. CASE CheckEvidence
  BY <1>14 DEF CheckEvidence, NothingToVerify
<1>15. CASE KnownRed
  BY <1>15 DEF KnownRed, FailingReport, SendBack
<1>16. CASE ChecksRecorded
  BY <1>16 DEF ChecksRecorded
<1>17. CASE ChecksReturn
  BY <1>17 DEF ChecksReturn, FailingReport, SendBack
<1>18. CASE ChecksGiveNothing
  BY <1>18 DEF ChecksGiveNothing
<1>19. CASE AnswerInstead
  BY <1>19 DEF AnswerInstead, InjectSteering, TakeInterrupt
<1>20. CASE FireStopHook
  BY <1>20 DEF FireStopHook, HookMayBlock
<1>21. CASE StopHookBlocks
  BY <1>21 DEF StopHookBlocks, SendBack
<1>22. CASE Finish
  BY <1>22 DEF Finish, Close, NothingQueued, HookMayBlock
<1>23. CASE EndRound
  BY <1>23 DEF EndRound
<1>24. CASE ToolHookStop
  BY <1>24 DEF ToolHookStop, Close
<1>25. CASE DocumentHandoff
  BY <1>25 DEF DocumentHandoff
<1>26. CASE ToolLoopStop
  BY <1>26 DEF ToolLoopStop, Close
<1>27. CASE NextRound
  BY <1>27 DEF NextRound, InjectSteering, TakeInterrupt
<1>28. CASE PauseAfterTools
  BY <1>28 DEF PauseAfterTools, Close, TakeInterrupt
<1>29. CASE StartSuccessor
  BY <1>29 DEF StartSuccessor, EnterLoop
<1>30. CASE LinkFails
  BY <1>30 DEF LinkFails, Close
<1>31. CASE DropSteering
  BY <1>31 DEF DropSteering
<1>32. CASE EditCode
  BY <1>32 DEF EditCode
<1>33. CASE RunQuality
  BY <1>33 DEF RunQuality
<1>34. CASE SetTasks
  BY <1>34 DEF SetTasks
<1>35. CASE StartRun
  BY <1>35 DEF StartRun, SendMessage, EnterLoop
<1>36. CASE RefuseRun
  BY <1>36 DEF RefuseRun, Close, SendMessage
<1>37. CASE QueueSteering
  BY <1>37 DEF QueueSteering
<1>38. CASE InterruptSession
  BY <1>38 DEF InterruptSession
<1>39. CASE UserEdits
  BY <1>39 DEF UserEdits
<1>40. CASE Crash
  BY <1>40 DEF Crash
<1>41. CASE UNCHANGED vars
  BY <1>41 DEF vars
<1>. QED
  BY <1>1, <1>2, <1>3, <1>4, <1>5, <1>6, <1>7, <1>8, <1>9, <1>10, <1>11, <1>12, <1>13,
    <1>14, <1>15, <1>16, <1>17, <1>18, <1>19, <1>20, <1>21, <1>22, <1>23, <1>24, <1>25,
    <1>26, <1>27, <1>28, <1>29, <1>30, <1>31, <1>32, <1>33, <1>34, <1>35, <1>36, <1>37,
    <1>38, <1>39, <1>40, <1>41 DEF Next, RunStep, ToolCall, UserStep

(* The records and the live counter agree on the cycles spent. *)
LEMMA CountedStep == IInv /\ [Next]_vars => Counted'
<1>. SUFFICES ASSUME IInv, [Next]_vars
                 PROVE  Counted'
  OBVIOUS
<1>. USE DEF IInv, TypeOK, Values, Counted, Cycles, GoldenFromRecords, GoldenType, Larger,
         NoGolden, Running, Finishing, sessionVars, goldenVars, userVars
<1>1. CASE SendRequest
  BY <1>1 DEF SendRequest
<1>2. CASE RoundCap
  BY <1>2 DEF RoundCap, Close
<1>3. CASE ContextHandoff
  BY <1>3 DEF ContextHandoff
<1>4. CASE FailRun
  BY <1>4 DEF FailRun, Close
<1>5. CASE StreamInterrupted
  BY <1>5 DEF StreamInterrupted, Close, InjectSteering, TakeInterrupt
<1>6. CASE StreamTruncated
  BY <1>6 DEF StreamTruncated, Close
<1>7. CASE StreamEmpty
  BY <1>7 DEF StreamEmpty, InjectSteering
<1>8. CASE StreamText
  BY <1>8 DEF StreamText, InjectSteering
<1>9. CASE StreamTools
  BY <1>9 DEF StreamTools
<1>10. CASE Judge
  BY <1>10 DEF Judge, SendBack
<1>11. CASE StillDoing
  BY <1>11 DEF StillDoing, SendBack, ReminderDue
<1>12. CASE GoldenContinue
  BY <1>12 DEF GoldenContinue, SendBack, GoldenMayContinue, Stalls, Larger
<1>13. CASE GoldenGivesUp
  BY <1>13 DEF GoldenGivesUp, GiveUpReason, GoldenMayContinue, Stalls
<1>14. CASE CheckEvidence
  BY <1>14 DEF CheckEvidence, NothingToVerify
<1>15. CASE KnownRed
  BY <1>15 DEF KnownRed, FailingReport, SendBack
<1>16. CASE ChecksRecorded
  BY <1>16 DEF ChecksRecorded
<1>17. CASE ChecksReturn
  BY <1>17 DEF ChecksReturn, FailingReport, SendBack
<1>18. CASE ChecksGiveNothing
  BY <1>18 DEF ChecksGiveNothing
<1>19. CASE AnswerInstead
  BY <1>19 DEF AnswerInstead, InjectSteering, TakeInterrupt
<1>20. CASE FireStopHook
  BY <1>20 DEF FireStopHook, HookMayBlock
<1>21. CASE StopHookBlocks
  BY <1>21 DEF StopHookBlocks, SendBack
<1>22. CASE Finish
  BY <1>22 DEF Finish, Close, NothingQueued, HookMayBlock
<1>23. CASE EndRound
  BY <1>23 DEF EndRound
<1>24. CASE ToolHookStop
  BY <1>24 DEF ToolHookStop, Close
<1>25. CASE DocumentHandoff
  BY <1>25 DEF DocumentHandoff
<1>26. CASE ToolLoopStop
  BY <1>26 DEF ToolLoopStop, Close
<1>27. CASE NextRound
  BY <1>27 DEF NextRound, InjectSteering, TakeInterrupt
<1>28. CASE PauseAfterTools
  BY <1>28 DEF PauseAfterTools, Close, TakeInterrupt
<1>29. CASE StartSuccessor
  BY <1>29 DEF StartSuccessor, EnterLoop
<1>30. CASE LinkFails
  BY <1>30 DEF LinkFails, Close
<1>31. CASE DropSteering
  BY <1>31 DEF DropSteering
<1>32. CASE EditCode
  BY <1>32 DEF EditCode
<1>33. CASE RunQuality
  BY <1>33 DEF RunQuality
<1>34. CASE SetTasks
  BY <1>34 DEF SetTasks
<1>35. CASE StartRun
  BY <1>35 DEF StartRun, SendMessage, EnterLoop
<1>36. CASE RefuseRun
  BY <1>36 DEF RefuseRun, Close, SendMessage
<1>37. CASE QueueSteering
  BY <1>37 DEF QueueSteering
<1>38. CASE InterruptSession
  BY <1>38 DEF InterruptSession
<1>39. CASE UserEdits
  BY <1>39 DEF UserEdits
<1>40. CASE Crash
  BY <1>40 DEF Crash
<1>41. CASE UNCHANGED vars
  BY <1>41 DEF vars
<1>. QED
  BY <1>1, <1>2, <1>3, <1>4, <1>5, <1>6, <1>7, <1>8, <1>9, <1>10, <1>11, <1>12, <1>13,
    <1>14, <1>15, <1>16, <1>17, <1>18, <1>19, <1>20, <1>21, <1>22, <1>23, <1>24, <1>25,
    <1>26, <1>27, <1>28, <1>29, <1>30, <1>31, <1>32, <1>33, <1>34, <1>35, <1>36, <1>37,
    <1>38, <1>39, <1>40, <1>41 DEF Next, RunStep, ToolCall, UserStep

(* The finish line decides on the goals and the files as they are. *)
LEMMA JudgedStep == IInv /\ [Next]_vars => Judged'
<1>. SUFFICES ASSUME IInv, [Next]_vars
                 PROVE  Judged'
  OBVIOUS
<1>. USE DEF IInv, Judged, Verifying, Leaving, GateOpen, VerificationRequired,
         sessionVars, goldenVars, userVars
<1>1. CASE SendRequest
  BY <1>1 DEF SendRequest
<1>2. CASE RoundCap
  BY <1>2 DEF RoundCap, Close
<1>3. CASE ContextHandoff
  BY <1>3 DEF ContextHandoff
<1>4. CASE FailRun
  BY <1>4 DEF FailRun, Close
<1>5. CASE StreamInterrupted
  BY <1>5 DEF StreamInterrupted, Close, InjectSteering, TakeInterrupt
<1>6. CASE StreamTruncated
  BY <1>6 DEF StreamTruncated, Close
<1>7. CASE StreamEmpty
  BY <1>7 DEF StreamEmpty, InjectSteering
<1>8. CASE StreamText
  BY <1>8 DEF StreamText, InjectSteering
<1>9. CASE StreamTools
  BY <1>9 DEF StreamTools
<1>10. CASE Judge
  BY <1>10 DEF Judge, SendBack
<1>11. CASE StillDoing
  BY <1>11 DEF StillDoing, SendBack, ReminderDue
<1>12. CASE GoldenContinue
  BY <1>12 DEF GoldenContinue, SendBack, GoldenMayContinue, Stalls, Larger
<1>13. CASE GoldenGivesUp
  BY <1>13 DEF GoldenGivesUp, GiveUpReason, GoldenMayContinue, Stalls
<1>14. CASE CheckEvidence
  BY <1>14 DEF CheckEvidence, NothingToVerify
<1>15. CASE KnownRed
  BY <1>15 DEF KnownRed, FailingReport, SendBack
<1>16. CASE ChecksRecorded
  BY <1>16 DEF ChecksRecorded
<1>17. CASE ChecksReturn
  BY <1>17 DEF ChecksReturn, FailingReport, SendBack
<1>18. CASE ChecksGiveNothing
  BY <1>18 DEF ChecksGiveNothing
<1>19. CASE AnswerInstead
  BY <1>19 DEF AnswerInstead, InjectSteering, TakeInterrupt
<1>20. CASE FireStopHook
  BY <1>20 DEF FireStopHook, HookMayBlock
<1>21. CASE StopHookBlocks
  BY <1>21 DEF StopHookBlocks, SendBack
<1>22. CASE Finish
  BY <1>22 DEF Finish, Close, NothingQueued, HookMayBlock
<1>23. CASE EndRound
  BY <1>23 DEF EndRound
<1>24. CASE ToolHookStop
  BY <1>24 DEF ToolHookStop, Close
<1>25. CASE DocumentHandoff
  BY <1>25 DEF DocumentHandoff
<1>26. CASE ToolLoopStop
  BY <1>26 DEF ToolLoopStop, Close
<1>27. CASE NextRound
  BY <1>27 DEF NextRound, InjectSteering, TakeInterrupt
<1>28. CASE PauseAfterTools
  BY <1>28 DEF PauseAfterTools, Close, TakeInterrupt
<1>29. CASE StartSuccessor
  BY <1>29 DEF StartSuccessor, EnterLoop
<1>30. CASE LinkFails
  BY <1>30 DEF LinkFails, Close
<1>31. CASE DropSteering
  BY <1>31 DEF DropSteering
<1>32. CASE EditCode
  BY <1>32 DEF EditCode
<1>33. CASE RunQuality
  BY <1>33 DEF RunQuality
<1>34. CASE SetTasks
  BY <1>34 DEF SetTasks
<1>35. CASE StartRun
  BY <1>35 DEF StartRun, SendMessage, EnterLoop
<1>36. CASE RefuseRun
  BY <1>36 DEF RefuseRun, Close, SendMessage
<1>37. CASE QueueSteering
  BY <1>37 DEF QueueSteering
<1>38. CASE InterruptSession
  BY <1>38 DEF InterruptSession
<1>39. CASE UserEdits
  BY <1>39 DEF UserEdits
<1>40. CASE Crash
  BY <1>40 DEF Crash
<1>41. CASE UNCHANGED vars
  BY <1>41 DEF vars
<1>. QED
  BY <1>1, <1>2, <1>3, <1>4, <1>5, <1>6, <1>7, <1>8, <1>9, <1>10, <1>11, <1>12, <1>13,
    <1>14, <1>15, <1>16, <1>17, <1>18, <1>19, <1>20, <1>21, <1>22, <1>23, <1>24, <1>25,
    <1>26, <1>27, <1>28, <1>29, <1>30, <1>31, <1>32, <1>33, <1>34, <1>35, <1>36, <1>37,
    <1>38, <1>39, <1>40, <1>41 DEF Next, RunStep, ToolCall, UserStep

(* Each nudge spends; what refills is the model acting or someone speaking. *)
LEMMA NudgeStep == IInv /\ [Next]_vars => NudgeRule
<1>. SUFFICES ASSUME IInv, [Next]_vars
                 PROVE  NudgeRule
  OBVIOUS
<1>. USE LimitsAssumption DEF IInv, TypeOK, Values, Flags, Asking, Blocking, Answered, GuardType, GoldenType,
         NudgeRule, SelfNudge, NudgeBudget, FinishBudget, StreakBudget, Refills, Finishing,
         WithStreaks, sessionVars, goldenVars, userVars
<1>1. CASE SendRequest
  BY <1>1 DEF SendRequest
<1>2. CASE RoundCap
  BY <1>2 DEF RoundCap, Close
<1>3. CASE ContextHandoff
  BY <1>3 DEF ContextHandoff
<1>4. CASE FailRun
  BY <1>4 DEF FailRun, Close
<1>5. CASE StreamInterrupted
  BY <1>5 DEF StreamInterrupted, Close, InjectSteering, TakeInterrupt
<1>6. CASE StreamTruncated
  BY <1>6 DEF StreamTruncated, Close
<1>7. CASE StreamEmpty
  BY <1>7 DEF StreamEmpty, InjectSteering
<1>8. CASE StreamText
  BY <1>8 DEF StreamText, InjectSteering
<1>9. CASE StreamTools
  BY <1>9 DEF StreamTools
<1>10. CASE Judge
  BY <1>10 DEF Judge, SendBack
<1>11. CASE StillDoing
  BY <1>11 DEF StillDoing, SendBack, ReminderDue
<1>12. CASE GoldenContinue
  <2>1. /\ phase = "finish" /\ phase' = "head" /\ guards' = guards
        /\ golden'.cycle = golden.cycle + 1 /\ golden.cycle < MaxGoldenCycles
    BY <1>12 DEF GoldenContinue, SendBack, GoldenMayContinue
  <2>. QED
    BY <2>1
<1>13. CASE GoldenGivesUp
  <2>1. /\ phase = "finish" /\ phase' = "settle" /\ guards' = guards
        /\ golden'.cycle = golden.cycle
    BY <1>13 DEF GoldenGivesUp
  <2>. QED
    BY <2>1
<1>14. CASE CheckEvidence
  <2>1. /\ phase = "finish" /\ phase' \in {"settle", "verify"} /\ guards' = guards
        /\ golden' = golden
    BY <1>14 DEF CheckEvidence
  <2>. QED
    BY <2>1
<1>15. CASE KnownRed
  <2>1. /\ phase = "finish" /\ golden' = golden
        /\ \/ /\ phase' = "head" /\ guards.retries < MaxQualityRetries
              /\ guards' = [guards EXCEPT !.retries = @ + 1]
           \/ phase' = "settle" /\ guards' = guards
    BY <1>15 DEF KnownRed, FailingReport, SendBack
  <2>2. CASE phase' = "settle" /\ guards' = guards
    BY <2>1, <2>2
  <2>3. CASE /\ phase' = "head" /\ guards.retries < MaxQualityRetries
             /\ guards' = [guards EXCEPT !.retries = @ + 1]
    BY <2>1, <2>3
  <2>. QED
    BY <2>1, <2>2, <2>3
<1>16. CASE ChecksRecorded
  BY <1>16 DEF ChecksRecorded
<1>17. CASE ChecksReturn
  BY <1>17 DEF ChecksReturn, FailingReport, SendBack
<1>18. CASE ChecksGiveNothing
  BY <1>18 DEF ChecksGiveNothing
<1>19. CASE AnswerInstead
  BY <1>19 DEF AnswerInstead, InjectSteering, TakeInterrupt
<1>20. CASE FireStopHook
  BY <1>20 DEF FireStopHook, HookMayBlock
<1>21. CASE StopHookBlocks
  BY <1>21 DEF StopHookBlocks, SendBack
<1>22. CASE Finish
  BY <1>22 DEF Finish, Close, NothingQueued, HookMayBlock
<1>23. CASE EndRound
  BY <1>23 DEF EndRound
<1>24. CASE ToolHookStop
  BY <1>24 DEF ToolHookStop, Close
<1>25. CASE DocumentHandoff
  BY <1>25 DEF DocumentHandoff
<1>26. CASE ToolLoopStop
  BY <1>26 DEF ToolLoopStop, Close
<1>27. CASE NextRound
  BY <1>27 DEF NextRound, InjectSteering, TakeInterrupt
<1>28. CASE PauseAfterTools
  BY <1>28 DEF PauseAfterTools, Close, TakeInterrupt
<1>29. CASE StartSuccessor
  BY <1>29 DEF StartSuccessor, EnterLoop
<1>30. CASE LinkFails
  BY <1>30 DEF LinkFails, Close
<1>31. CASE DropSteering
  BY <1>31 DEF DropSteering
<1>32. CASE EditCode
  BY <1>32 DEF EditCode
<1>33. CASE RunQuality
  BY <1>33 DEF RunQuality
<1>34. CASE SetTasks
  BY <1>34 DEF SetTasks
<1>35. CASE StartRun
  BY <1>35 DEF StartRun, SendMessage, EnterLoop
<1>36. CASE RefuseRun
  BY <1>36 DEF RefuseRun, Close, SendMessage
<1>37. CASE QueueSteering
  BY <1>37 DEF QueueSteering
<1>38. CASE InterruptSession
  BY <1>38 DEF InterruptSession
<1>39. CASE UserEdits
  BY <1>39 DEF UserEdits
<1>40. CASE Crash
  BY <1>40 DEF Crash
<1>41. CASE UNCHANGED vars
  BY <1>41 DEF vars
<1>. QED
  BY <1>1, <1>2, <1>3, <1>4, <1>5, <1>6, <1>7, <1>8, <1>9, <1>10, <1>11, <1>12, <1>13,
    <1>14, <1>15, <1>16, <1>17, <1>18, <1>19, <1>20, <1>21, <1>22, <1>23, <1>24, <1>25,
    <1>26, <1>27, <1>28, <1>29, <1>30, <1>31, <1>32, <1>33, <1>34, <1>35, <1>36, <1>37,
    <1>38, <1>39, <1>40, <1>41 DEF Next, RunStep, ToolCall, UserStep

(* Cycles are counted as they are spent, and carried. *)
LEMMA CycleStep == IInv /\ [Next]_vars => CycleRule
<1>. SUFFICES ASSUME IInv, [Next]_vars
                 PROVE  CycleRule
  OBVIOUS
<1>. USE DEF IInv, TypeOK, Values, Counted, CycleRule, Cycles, GoldenFromRecords, GoldenType,
         Larger, NoGolden, Running, Finishing, sessionVars, goldenVars, userVars
<1>1. CASE SendRequest
  BY <1>1 DEF SendRequest
<1>2. CASE RoundCap
  BY <1>2 DEF RoundCap, Close
<1>3. CASE ContextHandoff
  BY <1>3 DEF ContextHandoff
<1>4. CASE FailRun
  BY <1>4 DEF FailRun, Close
<1>5. CASE StreamInterrupted
  BY <1>5 DEF StreamInterrupted, Close, InjectSteering, TakeInterrupt
<1>6. CASE StreamTruncated
  BY <1>6 DEF StreamTruncated, Close
<1>7. CASE StreamEmpty
  BY <1>7 DEF StreamEmpty, InjectSteering
<1>8. CASE StreamText
  BY <1>8 DEF StreamText, InjectSteering
<1>9. CASE StreamTools
  BY <1>9 DEF StreamTools
<1>10. CASE Judge
  BY <1>10 DEF Judge, SendBack
<1>11. CASE StillDoing
  BY <1>11 DEF StillDoing, SendBack, ReminderDue
<1>12. CASE GoldenContinue
  BY <1>12 DEF GoldenContinue, SendBack, GoldenMayContinue, Stalls, Larger
<1>13. CASE GoldenGivesUp
  BY <1>13 DEF GoldenGivesUp, GiveUpReason, GoldenMayContinue, Stalls
<1>14. CASE CheckEvidence
  BY <1>14 DEF CheckEvidence, NothingToVerify
<1>15. CASE KnownRed
  BY <1>15 DEF KnownRed, FailingReport, SendBack
<1>16. CASE ChecksRecorded
  BY <1>16 DEF ChecksRecorded
<1>17. CASE ChecksReturn
  BY <1>17 DEF ChecksReturn, FailingReport, SendBack
<1>18. CASE ChecksGiveNothing
  BY <1>18 DEF ChecksGiveNothing
<1>19. CASE AnswerInstead
  BY <1>19 DEF AnswerInstead, InjectSteering, TakeInterrupt
<1>20. CASE FireStopHook
  BY <1>20 DEF FireStopHook, HookMayBlock
<1>21. CASE StopHookBlocks
  BY <1>21 DEF StopHookBlocks, SendBack
<1>22. CASE Finish
  BY <1>22 DEF Finish, Close, NothingQueued, HookMayBlock
<1>23. CASE EndRound
  BY <1>23 DEF EndRound
<1>24. CASE ToolHookStop
  BY <1>24 DEF ToolHookStop, Close
<1>25. CASE DocumentHandoff
  BY <1>25 DEF DocumentHandoff
<1>26. CASE ToolLoopStop
  BY <1>26 DEF ToolLoopStop, Close
<1>27. CASE NextRound
  BY <1>27 DEF NextRound, InjectSteering, TakeInterrupt
<1>28. CASE PauseAfterTools
  BY <1>28 DEF PauseAfterTools, Close, TakeInterrupt
<1>29. CASE StartSuccessor
  BY <1>29 DEF StartSuccessor, EnterLoop
<1>30. CASE LinkFails
  BY <1>30 DEF LinkFails, Close
<1>31. CASE DropSteering
  BY <1>31 DEF DropSteering
<1>32. CASE EditCode
  BY <1>32 DEF EditCode
<1>33. CASE RunQuality
  BY <1>33 DEF RunQuality
<1>34. CASE SetTasks
  BY <1>34 DEF SetTasks
<1>35. CASE StartRun
  BY <1>35 DEF StartRun, SendMessage, EnterLoop
<1>36. CASE RefuseRun
  BY <1>36 DEF RefuseRun, Close, SendMessage
<1>37. CASE QueueSteering
  BY <1>37 DEF QueueSteering
<1>38. CASE InterruptSession
  BY <1>38 DEF InterruptSession
<1>39. CASE UserEdits
  BY <1>39 DEF UserEdits
<1>40. CASE Crash
  BY <1>40 DEF Crash
<1>41. CASE UNCHANGED vars
  BY <1>41 DEF vars
<1>. QED
  BY <1>1, <1>2, <1>3, <1>4, <1>5, <1>6, <1>7, <1>8, <1>9, <1>10, <1>11, <1>12, <1>13,
    <1>14, <1>15, <1>16, <1>17, <1>18, <1>19, <1>20, <1>21, <1>22, <1>23, <1>24, <1>25,
    <1>26, <1>27, <1>28, <1>29, <1>30, <1>31, <1>32, <1>33, <1>34, <1>35, <1>36, <1>37,
    <1>38, <1>39, <1>40, <1>41 DEF Next, RunStep, ToolCall, UserStep

(* The finish line looks at the queue last. *)
LEMMA AnswerStep == IInv /\ [Next]_vars => AnswerRule
<1>. SUFFICES ASSUME IInv, [Next]_vars
                 PROVE  AnswerRule
  OBVIOUS
<1>. USE DEF IInv, Answered, AnswerRule, FinishLine, Finishing, Judged, Verifying, Leaving,
         sessionVars, goldenVars, userVars
<1>1. CASE SendRequest
  BY <1>1 DEF SendRequest
<1>2. CASE RoundCap
  BY <1>2 DEF RoundCap, Close
<1>3. CASE ContextHandoff
  BY <1>3 DEF ContextHandoff
<1>4. CASE FailRun
  BY <1>4 DEF FailRun, Close
<1>5. CASE StreamInterrupted
  BY <1>5 DEF StreamInterrupted, Close, InjectSteering, TakeInterrupt
<1>6. CASE StreamTruncated
  BY <1>6 DEF StreamTruncated, Close
<1>7. CASE StreamEmpty
  BY <1>7 DEF StreamEmpty, InjectSteering
<1>8. CASE StreamText
  BY <1>8 DEF StreamText, InjectSteering
<1>9. CASE StreamTools
  BY <1>9 DEF StreamTools
<1>10. CASE Judge
  BY <1>10 DEF Judge, SendBack
<1>11. CASE StillDoing
  BY <1>11 DEF StillDoing, SendBack, ReminderDue
<1>12. CASE GoldenContinue
  BY <1>12 DEF GoldenContinue, SendBack, GoldenMayContinue, Stalls, Larger
<1>13. CASE GoldenGivesUp
  BY <1>13 DEF GoldenGivesUp, GiveUpReason, GoldenMayContinue, Stalls
<1>14. CASE CheckEvidence
  BY <1>14 DEF CheckEvidence, NothingToVerify
<1>15. CASE KnownRed
  BY <1>15 DEF KnownRed, FailingReport, SendBack
<1>16. CASE ChecksRecorded
  BY <1>16 DEF ChecksRecorded
<1>17. CASE ChecksReturn
  BY <1>17 DEF ChecksReturn, FailingReport, SendBack
<1>18. CASE ChecksGiveNothing
  BY <1>18 DEF ChecksGiveNothing
<1>19. CASE AnswerInstead
  BY <1>19 DEF AnswerInstead, InjectSteering, TakeInterrupt
<1>20. CASE FireStopHook
  BY <1>20 DEF FireStopHook, HookMayBlock
<1>21. CASE StopHookBlocks
  BY <1>21 DEF StopHookBlocks, SendBack
<1>22. CASE Finish
  BY <1>22 DEF Finish, Close, NothingQueued, HookMayBlock
<1>23. CASE EndRound
  BY <1>23 DEF EndRound
<1>24. CASE ToolHookStop
  BY <1>24 DEF ToolHookStop, Close
<1>25. CASE DocumentHandoff
  BY <1>25 DEF DocumentHandoff
<1>26. CASE ToolLoopStop
  BY <1>26 DEF ToolLoopStop, Close
<1>27. CASE NextRound
  BY <1>27 DEF NextRound, InjectSteering, TakeInterrupt
<1>28. CASE PauseAfterTools
  BY <1>28 DEF PauseAfterTools, Close, TakeInterrupt
<1>29. CASE StartSuccessor
  BY <1>29 DEF StartSuccessor, EnterLoop
<1>30. CASE LinkFails
  BY <1>30 DEF LinkFails, Close
<1>31. CASE DropSteering
  BY <1>31 DEF DropSteering
<1>32. CASE EditCode
  BY <1>32 DEF EditCode
<1>33. CASE RunQuality
  BY <1>33 DEF RunQuality
<1>34. CASE SetTasks
  BY <1>34 DEF SetTasks
<1>35. CASE StartRun
  BY <1>35 DEF StartRun, SendMessage, EnterLoop
<1>36. CASE RefuseRun
  BY <1>36 DEF RefuseRun, Close, SendMessage
<1>37. CASE QueueSteering
  BY <1>37 DEF QueueSteering
<1>38. CASE InterruptSession
  BY <1>38 DEF InterruptSession
<1>39. CASE UserEdits
  BY <1>39 DEF UserEdits
<1>40. CASE Crash
  BY <1>40 DEF Crash
<1>41. CASE UNCHANGED vars
  BY <1>41 DEF vars
<1>. QED
  BY <1>1, <1>2, <1>3, <1>4, <1>5, <1>6, <1>7, <1>8, <1>9, <1>10, <1>11, <1>12, <1>13,
    <1>14, <1>15, <1>16, <1>17, <1>18, <1>19, <1>20, <1>21, <1>22, <1>23, <1>24, <1>25,
    <1>26, <1>27, <1>28, <1>29, <1>30, <1>31, <1>32, <1>33, <1>34, <1>35, <1>36, <1>37,
    <1>38, <1>39, <1>40, <1>41 DEF Next, RunStep, ToolCall, UserStep

-----------------------------------------------------------------------------
(* The invariant holds of every behaviour of the run loop. *)
THEOREM Invariance == Spec => []IInv
<1>1. IInv /\ [Next]_vars => IInv'
  <2>. SUFFICES ASSUME IInv, [Next]_vars PROVE IInv'
    OBVIOUS
  <2>1. TypeOK /\ Asking /\ Blocking /\ Flags
    BY DEF IInv, TypeOK
  <2>2. TypeOK'
    BY <2>1, ValuesStep, FlagsStep DEF TypeOK
  <2>. QED
    BY <2>2, PhaseStep, CountedStep, JudgedStep DEF IInv
<1>. QED
  BY <1>1, InitIInv, PTL DEF Spec

(* Whatever the limits, every counter of a run (GuardState, GoldenLoopState) *)
(* and of the records stays within its cap, in every phase of the loop.      *)
THEOREM CountersStayInBounds == Spec => []TypeOK
<1>1. IInv => TypeOK
  BY DEF IInv
<1>. QED
  BY <1>1, Invariance, PTL

(* A run that reports end_turn has no golden goal pending and, unless it went *)
(* on without a verdict, no unverified code that had to be checked.           *)
THEOREM HonestEnd == Spec => []EndTurnIsHonest
<1>1. IInv => EndTurnIsHonest
  BY DEF IInv, Judged, Verifying, Leaving, EndTurnIsHonest
<1>. QED
  BY <1>1, Invariance, PTL

(* The guards of the loop together bound what the harness says by itself. *)
THEOREM NudgesAreBounded == Spec => NudgesSpendTheBudget
<1>1. [Next]_vars /\ IInv => [NudgeRule]_vars
  BY NudgeStep
<1>. QED
  BY <1>1, Invariance, PTL DEF Spec, NudgesSpendTheBudget, NudgeRule

(* Golden cycles survive restarts, crashes and handoffs. *)
THEOREM CyclesAreKept == Spec => CyclesAreNeverRefunded
<1>1. [Next]_vars /\ IInv => [CycleRule]_vars
  BY CycleStep
<1>. QED
  BY <1>1, Invariance, PTL DEF Spec, CyclesAreNeverRefunded, CycleRule

(* Nobody who wrote to a run that ends at the finish line is left behind. *)
THEOREM FinishAnswers == Spec => FinishAnswersTheUser
<1>1. [Next]_vars /\ IInv => [AnswerRule]_vars
  BY AnswerStep
<1>. QED
  BY <1>1, Invariance, PTL DEF Spec, FinishAnswersTheUser, AnswerRule

-----------------------------------------------------------------------------
(* How far a run is from the place where a raised Stop is taken: the request *)
(* it has sent or is about to send, or the end of its round.                 *)
ToTheStop ==
  CASE phase = "judge" -> 12
    [] phase = "finish" -> 11
    [] phase = "verify" -> 10
    [] phase \in {"passed", "failed"} -> 9
    [] phase = "settle" -> 8
    [] phase \in {"hook", "tools"} -> 7
    [] phase = "watch" -> 6
    [] phase = "head" -> IF grown THEN 5 ELSE 3
    [] phase = "linking" -> 4
    [] phase = "stream" -> 2
    [] phase = "closed" -> 1
    [] OTHER -> 0

StopRule ==
  interrupt /\ interrupt' =>
    /\ RunStep => ToTheStop' < ToTheStop
    /\ ToTheStop' < ToTheStop \/ UNCHANGED <<phase, grown>>

(* What a run nobody speaks to may still do: leave the end of a round or a   *)
(* handoff, be nudged, and go through one reply and its finish line.         *)
KindOfPhase ==
  CASE phase \in {"watch", "linking"} -> 4
    [] phase \in {"head", "stream"} \cup Finishing -> 3
    [] phase = "tools" -> 2
    [] phase = "closed" -> 1
    [] OTHER -> 0

ToTheNudge ==
  CASE phase = "head" -> 8
    [] phase = "stream" -> 7
    [] phase = "judge" -> 6
    [] phase = "finish" -> 5
    [] phase = "verify" -> 4
    [] phase \in {"passed", "failed"} -> 3
    [] phase = "settle" -> 2
    [] phase = "hook" -> 1
    [] OTHER -> 0

Quieter ==
  \/ KindOfPhase' < KindOfPhase
  \/ KindOfPhase' = KindOfPhase /\ NudgeBudget' < NudgeBudget
  \/ KindOfPhase' = KindOfPhase /\ NudgeBudget' = NudgeBudget /\ ToTheNudge' < ToTheNudge

AsQuiet == UNCHANGED <<KindOfPhase, NudgeBudget, ToTheNudge>>

QuietRule ==
  ~Speaks =>
    /\ RunStep => Quieter
    /\ phase # "idle" => Quieter \/ AsQuiet

QuietCount == KindOfPhase \in Nat /\ NudgeBudget \in Nat /\ ToTheNudge \in Nat

(* With a Stop raised every step of the run takes it, or comes nearer. *)
LEMMA StopStep ==
  ASSUME TypeOK, interrupt, interrupt', RunStep
  PROVE  ToTheStop' < ToTheStop
<1>. USE DEF TypeOK, Flags, ToTheStop
<1>1. CASE SendRequest
  BY <1>1 DEF SendRequest
<1>2. CASE RoundCap
  BY <1>2 DEF RoundCap, Close
<1>3. CASE ContextHandoff
  BY <1>3 DEF ContextHandoff
<1>4. CASE FailRun
  BY <1>4 DEF FailRun, Close
<1>5. CASE StreamInterrupted
  BY <1>5 DEF StreamInterrupted, Close, InjectSteering, TakeInterrupt
<1>6. CASE StreamTruncated
  BY <1>6 DEF StreamTruncated, Close
<1>7. CASE StreamEmpty
  BY <1>7 DEF StreamEmpty, InjectSteering
<1>8. CASE StreamText
  BY <1>8 DEF StreamText, InjectSteering
<1>9. CASE StreamTools
  BY <1>9 DEF StreamTools
<1>10. CASE Judge
  BY <1>10 DEF Judge, SendBack
<1>11. CASE StillDoing
  BY <1>11 DEF StillDoing, SendBack, ReminderDue
<1>12. CASE GoldenContinue
  BY <1>12 DEF GoldenContinue, SendBack
<1>13. CASE GoldenGivesUp
  BY <1>13 DEF GoldenGivesUp
<1>14. CASE CheckEvidence
  BY <1>14 DEF CheckEvidence
<1>15. CASE KnownRed
  BY <1>15 DEF KnownRed, FailingReport, SendBack
<1>16. CASE ChecksRecorded
  BY <1>16 DEF ChecksRecorded
<1>17. CASE ChecksReturn
  BY <1>17 DEF ChecksReturn, FailingReport, SendBack
<1>18. CASE ChecksGiveNothing
  BY <1>18 DEF ChecksGiveNothing
<1>19. CASE AnswerInstead
  BY <1>19 DEF AnswerInstead, InjectSteering, TakeInterrupt
<1>20. CASE FireStopHook
  BY <1>20 DEF FireStopHook
<1>21. CASE StopHookBlocks
  BY <1>21 DEF StopHookBlocks, SendBack
<1>22. CASE Finish
  BY <1>22 DEF Finish, Close
<1>23. CASE EndRound
  BY <1>23 DEF EndRound
<1>24. CASE ToolHookStop
  BY <1>24 DEF ToolHookStop, Close
<1>25. CASE DocumentHandoff
  BY <1>25 DEF DocumentHandoff
<1>26. CASE ToolLoopStop
  BY <1>26 DEF ToolLoopStop, Close
<1>27. CASE NextRound
  BY <1>27 DEF NextRound, InjectSteering, TakeInterrupt
<1>28. CASE PauseAfterTools
  BY <1>28 DEF PauseAfterTools, Close, TakeInterrupt
<1>29. CASE StartSuccessor
  BY <1>29 DEF StartSuccessor, EnterLoop
<1>30. CASE LinkFails
  BY <1>30 DEF LinkFails, Close
<1>31. CASE DropSteering
  BY <1>31 DEF DropSteering
<1>. QED
  BY <1>1, <1>2, <1>3, <1>4, <1>5, <1>6, <1>7, <1>8, <1>9, <1>10, <1>11, <1>12, <1>13,
    <1>14, <1>15, <1>16, <1>17, <1>18, <1>19, <1>20, <1>21, <1>22, <1>23, <1>24, <1>25,
    <1>26, <1>27, <1>28, <1>29, <1>30, <1>31 DEF RunStep

(* Nobody else takes the run away from it: no tool starts, and a message, an *)
(* edit or a second Stop leaves the run where it is.                         *)
LEMMA StopKeeps ==
  ASSUME interrupt, interrupt', ToolCall \/ UserStep \/ Crash
  PROVE  UNCHANGED <<phase, grown>>
<1>. USE DEF sessionVars
<1>1. CASE EditCode
  BY <1>1 DEF EditCode
<1>2. CASE RunQuality
  BY <1>2 DEF RunQuality
<1>3. CASE SetTasks
  BY <1>3 DEF SetTasks
<1>4. CASE StartRun
  BY <1>4 DEF StartRun, SendMessage, EnterLoop
<1>5. CASE RefuseRun
  BY <1>5 DEF RefuseRun, Close, SendMessage
<1>6. CASE QueueSteering
  BY <1>6 DEF QueueSteering
<1>7. CASE InterruptSession
  BY <1>7 DEF InterruptSession
<1>8. CASE UserEdits
  BY <1>8 DEF UserEdits
<1>9. CASE Crash
  BY <1>9 DEF Crash
<1>. QED
  BY <1>1, <1>2, <1>3, <1>4, <1>5, <1>6, <1>7, <1>8, <1>9 DEF ToolCall, UserStep

(* On its way along the finish line a run is nudged no more. *)
LEMMA FinishGoesOn ==
  ASSUME CheckEvidence
  PROVE  Quieter
<1>1. phase = "finish" /\ phase' \in {"settle", "verify"} /\ UNCHANGED <<guards, golden>>
  BY DEF CheckEvidence, goldenVars
<1>2. NudgeBudget' = NudgeBudget
  BY <1>1 DEF NudgeBudget, FinishBudget, Finishing
<1>3. ToTheNudge' < ToTheNudge
  BY <1>1 DEF ToTheNudge
<1>4. KindOfPhase' = KindOfPhase
  BY <1>1 DEF KindOfPhase, Finishing
<1>. QED
  BY <1>2, <1>3, <1>4 DEF Quieter

(* Each step of the run leaves it less to do, unless it hears somebody. *)
LEMMA QuietStep ==
  ASSUME IInv, RunStep, ~Speaks
  PROVE  Quieter
<1>. USE LimitsAssumption DEF IInv, TypeOK, Values, Flags, Asking, Blocking, Answered, GuardType, GoldenType,
         Quieter, KindOfPhase, ToTheNudge, NudgeBudget, FinishBudget, StreakBudget, Finishing,
         WithStreaks, sessionVars, goldenVars, userVars, Speaks
<1>1. CASE SendRequest
  BY <1>1 DEF SendRequest
<1>2. CASE RoundCap
  BY <1>2 DEF RoundCap, Close
<1>3. CASE ContextHandoff
  BY <1>3 DEF ContextHandoff
<1>4. CASE FailRun
  BY <1>4 DEF FailRun, Close
<1>5. CASE StreamInterrupted
  BY <1>5 DEF StreamInterrupted, Close, InjectSteering, TakeInterrupt
<1>6. CASE StreamTruncated
  BY <1>6 DEF StreamTruncated, Close
<1>7. CASE StreamEmpty
  BY <1>7 DEF StreamEmpty, InjectSteering
<1>8. CASE StreamText
  BY <1>8 DEF StreamText, InjectSteering
<1>9. CASE StreamTools
  BY <1>9 DEF StreamTools
<1>10. CASE Judge
  BY <1>10 DEF Judge, SendBack
<1>11. CASE StillDoing
  BY <1>11 DEF StillDoing, SendBack, ReminderDue
<1>12. CASE GoldenContinue
  <2>1. /\ phase = "finish" /\ phase' = "head" /\ guards' = guards
        /\ golden'.cycle = golden.cycle + 1 /\ golden.cycle < MaxGoldenCycles
    BY <1>12 DEF GoldenContinue, SendBack, GoldenMayContinue
  <2>. QED
    BY <2>1
<1>13. CASE GoldenGivesUp
  BY <1>13 DEF GoldenGivesUp
<1>14. CASE CheckEvidence
  BY <1>14, FinishGoesOn
<1>15. CASE KnownRed
  <2>1. /\ phase = "finish" /\ golden' = golden
        /\ \/ /\ phase' = "head" /\ guards.retries < MaxQualityRetries
              /\ guards' = [guards EXCEPT !.retries = @ + 1]
           \/ phase' = "settle" /\ guards' = guards
    BY <1>15 DEF KnownRed, FailingReport, SendBack
  <2>. QED
    BY <2>1
<1>16. CASE ChecksRecorded
  BY <1>16 DEF ChecksRecorded
<1>17. CASE ChecksReturn
  BY <1>17 DEF ChecksReturn, FailingReport, SendBack
<1>18. CASE ChecksGiveNothing
  BY <1>18 DEF ChecksGiveNothing
<1>19. CASE AnswerInstead
  BY <1>19 DEF AnswerInstead, InjectSteering, TakeInterrupt
<1>20. CASE FireStopHook
  BY <1>20 DEF FireStopHook
<1>21. CASE StopHookBlocks
  BY <1>21 DEF StopHookBlocks, SendBack
<1>22. CASE Finish
  BY <1>22 DEF Finish, Close
<1>23. CASE EndRound
  BY <1>23 DEF EndRound
<1>24. CASE ToolHookStop
  BY <1>24 DEF ToolHookStop, Close
<1>25. CASE DocumentHandoff
  BY <1>25 DEF DocumentHandoff
<1>26. CASE ToolLoopStop
  BY <1>26 DEF ToolLoopStop, Close
<1>27. CASE NextRound
  BY <1>27 DEF NextRound, InjectSteering, TakeInterrupt
<1>28. CASE PauseAfterTools
  BY <1>28 DEF PauseAfterTools, Close, TakeInterrupt
<1>29. CASE StartSuccessor
  BY <1>29 DEF StartSuccessor, EnterLoop
<1>30. CASE LinkFails
  BY <1>30 DEF LinkFails, Close
<1>31. CASE DropSteering
  BY <1>31 DEF DropSteering
<1>. QED
  BY <1>1, <1>2, <1>3, <1>4, <1>5, <1>6, <1>7, <1>8, <1>9, <1>10, <1>11, <1>12, <1>13,
    <1>14, <1>15, <1>16, <1>17, <1>18, <1>19, <1>20, <1>21, <1>22, <1>23, <1>24, <1>25,
    <1>26, <1>27, <1>28, <1>29, <1>30, <1>31 DEF RunStep

(* The others leave it what it has. *)
LEMMA QuietKeeps ==
  ASSUME IInv, ToolCall \/ UserStep \/ Crash, phase # "idle", ~Speaks
  PROVE  Quieter \/ AsQuiet
<1>. USE DEF IInv, TypeOK, Values, Quieter, AsQuiet, KindOfPhase, ToTheNudge, NudgeBudget, FinishBudget, StreakBudget, Finishing,
         sessionVars, goldenVars, userVars, Phases, Running
<1>1. CASE EditCode
  BY <1>1 DEF EditCode
<1>2. CASE RunQuality
  BY <1>2 DEF RunQuality
<1>3. CASE SetTasks
  BY <1>3 DEF SetTasks
<1>4. CASE StartRun
  BY <1>4 DEF StartRun, SendMessage, EnterLoop
<1>5. CASE RefuseRun
  BY <1>5 DEF RefuseRun, Close, SendMessage
<1>6. CASE QueueSteering
  BY <1>6 DEF QueueSteering
<1>7. CASE InterruptSession
  BY <1>7 DEF InterruptSession
<1>8. CASE UserEdits
  BY <1>8 DEF UserEdits
<1>9. CASE Crash
  BY <1>9 DEF Crash
<1>. QED
  BY <1>1, <1>2, <1>3, <1>4, <1>5, <1>6, <1>7, <1>8, <1>9 DEF ToolCall, UserStep

(* What is left is a number. *)
LEMMA QuietIsCounted == IInv => QuietCount
BY LimitsAssumption DEF IInv, TypeOK, Values, GuardType, GoldenType, QuietCount, KindOfPhase,
   ToTheNudge, NudgeBudget, FinishBudget, StreakBudget

(* A Stop is taken within twelve steps of the run (interrupt_session, and    *)
(* the places run_loop.rs reads the flag): each step of the run until then   *)
(* brings it nearer, and no nudge, handoff, message or edit puts it off.     *)
THEOREM StopIsNear == Spec => [](ToTheStop \in 0..12) /\ [][StopRule]_vars
<1>1. IInv => ToTheStop \in 0..12
  BY DEF ToTheStop
<1>2. IInv /\ [Next]_vars => [StopRule]_vars
  <2>. SUFFICES ASSUME IInv, Next, interrupt, interrupt'
                PROVE  /\ RunStep => ToTheStop' < ToTheStop
                       /\ ToTheStop' < ToTheStop \/ UNCHANGED <<phase, grown>>
    BY DEF StopRule
  <2>1. RunStep => ToTheStop' < ToTheStop
    BY StopStep DEF IInv
  <2>2. ToolCall \/ UserStep \/ Crash => UNCHANGED <<phase, grown>>
    BY StopKeeps
  <2>. QED
    BY <2>1, <2>2 DEF Next
<1>. QED
  BY <1>1, <1>2, Invariance, PTL DEF Spec

(* A run nobody speaks to does not go on for ever: until a round of tools    *)
(* ends, the session is handed over or a message is taken, each of its steps *)
(* leaves it less to do, whatever the judge, the goals, the checks and the   *)
(* hooks answer, and no edit of the user's files gives it more.              *)
THEOREM QuietRunsWindDown == Spec => []QuietCount /\ [][QuietRule]_vars
<1>1. IInv /\ [Next]_vars => [QuietRule]_vars
  <2>. SUFFICES ASSUME IInv, Next, ~Speaks
                PROVE  /\ RunStep => Quieter
                       /\ phase # "idle" => Quieter \/ AsQuiet
    BY DEF QuietRule
  <2>. QED
    BY QuietStep, QuietKeeps DEF Next
<1>. QED
  BY <1>1, QuietIsCounted, Invariance, PTL DEF Spec
=============================================================================
