------------------------------ MODULE RunLoop ------------------------------
(***************************************************************************)
(* The agent's run loop (agent/run_loop.rs): one run of a session, round   *)
(* after round, with the guards that keep the model from looping, the      *)
(* golden goals, the quality gate at the finish line, the user's queued    *)
(* messages and Stop, handoffs to a linked session, and process crashes.   *)
(* The model (the LLM), the judge, the hooks, the checks and the user are  *)
(* the environment: each of their answers is a choice.  The profile is a   *)
(* chat one (Standard or Compact); texts, tokens and costs are left out.   *)
(***************************************************************************)
EXTENDS Integers, Sequences, FiniteSets

CONSTANTS
  Goals,               \* golden goals the user may tag
  MaxGoldenCycles,     \* config.max_golden_cycles (5 when unset)
  MaxGoldenStalls,     \* config.max_golden_stalls (2 when unset)
  Capped, MaxRounds,   \* config.max_rounds: set or not, and its value
  MaxUnfinished,       \* 2 in the source
  MaxQualityRetries,   \* 3
  MaxStopHookBlocks,   \* 3
  MaxLoopNudges,       \* loop_watch::MAX_NUDGES, 2
  MaxQueue             \* bound of the model: messages queued at once

ASSUME GoalsAssumption == IsFiniteSet(Goals)

ASSUME LimitsAssumption ==
  /\ MaxGoldenCycles \in Nat /\ MaxGoldenStalls \in Nat
  /\ Capped \in BOOLEAN /\ MaxRounds \in Nat
  /\ MaxUnfinished \in Nat /\ MaxQualityRetries \in Nat
  /\ MaxStopHookBlocks \in Nat /\ MaxLoopNudges \in Nat
  /\ MaxQueue \in Nat

VARIABLES
  phase,       \* where the run is: the await it is parked on, or its next block
  stopReason,  \* the reason of the last (or the coming) Done event
  queue,       \* SteeringCtl.queue: messages waiting to be injected
  interrupt,   \* SteeringCtl.interrupt: the Stop flag
  unanswered,  \* history holds an injected message the model has not replied to
  guards,      \* GuardState
  golden,      \* GoldenLoopState of the run
  recorded,    \* highest GoldenCycle record of the session's file
  linked,      \* golden state of the session's LinkedFrom record
  spec,        \* golden state of the HandoffSpec being followed
  pending,     \* golden goals not done, in task-list order
  tagged,      \* the task list holds golden goals, done or not
  evidence,    \* what the session's last quality run says of the worktree
  touched,     \* enforce_on = code_change, and the session changed source
  excused,     \* this finish went on without a verdict on the current files
  hasText,     \* last_text is not empty
  grown,       \* history.len() > 1
  round        \* iterations of the loop, counted when capped

vars == <<phase, stopReason, queue, interrupt, unanswered, guards, golden, recorded,
          linked, spec, pending, tagged, evidence, touched, excused, hasText, grown, round>>

sessionVars == <<recorded, linked, pending, tagged, touched>>
goldenVars  == <<golden, spec>>
userVars    == <<queue, interrupt>>

Finishing == {"judge", "finish", "verify", "passed", "failed", "settle", "hook"}
Running   == {"head", "stream", "tools", "watch", "linking"} \cup Finishing

Phases    == Running \cup {"idle", "closed"}

StopReasons == {"none", "end_turn", "golden_stalled", "max_golden_cycles", "quality_failed",
                "hook_stop", "hook_blocked", "interrupted", "max_tokens", "tool_loop",
                "max_rounds", "error"}

EvidenceStates == {"off", "missing", "stale", "green", "red"}

(* Task lists: every order of every set of goals. *)
GoalLists == {s \in UNION {[1..n -> Goals] : n \in 0..Cardinality(Goals)} :
                \A i, j \in DOMAIN s : i # j => s[i] # s[j]}
GoalsIn(list) == {list[i] : i \in DOMAIN list}

NoGuards == [truncations |-> 0, empties |-> 0, unfinished |-> 0, doingNudged |-> FALSE,
             retries |-> 0, blocks |-> 0, loopNudges |-> 0]
NoGolden == [cycle |-> 0, stalls |-> 0, lastPending |-> <<>>]

Larger(m, n) == IF m > n THEN m ELSE n

(* Mutant: a linked session counts its own cycles only. *)
OwnCyclesOnly == [linked EXCEPT !.cycle = recorded]

(* persist::golden_cycle_count and linked_golden_state: what the records of *)
(* the session say; a run starts from it and a handoff carries it.          *)
GoldenFromRecords == [linked EXCEPT !.cycle = Larger(recorded, linked.cycle)]

(* tools::quality: is a finish held to the checks, and are they known green? *)
VerificationRequired == evidence # "off" /\ (tagged \/ touched)
GateOpen == evidence \in {"off", "green"}

-----------------------------------------------------------------------------
(* How a step leaves a round. *)

(* Mutant: the flag is read and left raised. *)
PeekInterrupt == UNCHANGED interrupt

(* The Stop flag is consumed by whoever acts on it. *)
TakeInterrupt == interrupt' = FALSE

(* push_user_blocks of a harness message, then the next iteration. *)
SendBack == /\ phase' = "head"
            /\ stopReason' = "none"
            /\ UNCHANGED <<queue, interrupt, unanswered, excused, round>>

(* inject_steering with something to inject, then the next iteration. *)
InjectSteering == /\ queue > 0
                  /\ queue' = 0
                  /\ unanswered' = TRUE

(* The Done record and event; what the loop held in memory is gone. *)
Close(reason) ==
  /\ phase' = "closed"
  /\ stopReason' = reason
  /\ guards' = NoGuards
  /\ golden' = NoGolden
  /\ spec' = NoGolden
  /\ hasText' = FALSE
  /\ round' = 0

-----------------------------------------------------------------------------
Init ==
  /\ phase = "idle"
  /\ stopReason = "none"
  /\ queue = 0
  /\ interrupt = FALSE
  /\ unanswered = FALSE
  /\ guards = NoGuards
  /\ golden = NoGolden
  /\ recorded = 0
  /\ linked = NoGolden
  /\ spec = NoGolden
  /\ pending = <<>>
  /\ tagged = FALSE
  /\ evidence \in {"off", "missing"}
  /\ touched = FALSE
  /\ excused = FALSE
  /\ hasText = FALSE
  /\ grown = FALSE
  /\ round = 0

(* The run's prologue: guards start over, the golden loop resumes from the  *)
(* records of the session.                                                  *)
EnterLoop(fromRecords) ==
  /\ phase' = "head"
  /\ stopReason' = "none"
  /\ guards' = NoGuards
  /\ golden' = fromRecords
  /\ spec' = NoGolden
  /\ unanswered' = FALSE
  /\ excused' = FALSE
  /\ hasText' = FALSE
  /\ round' = 0

(* send_message: the steering of the session starts empty, and tagged goals *)
(* replace its golden tasks.                                                *)
SendMessage ==
  /\ phase = "idle"
  /\ queue' = 0
  /\ interrupt' = FALSE
  /\ \/ UNCHANGED <<pending, tagged>>
     \/ /\ pending' \in GoalLists \ {<<>>}
        /\ tagged' = TRUE
  /\ UNCHANGED <<recorded, linked, evidence, touched, grown>>

StartRun == SendMessage /\ EnterLoop(GoldenFromRecords)

(* UserPromptSubmit refused the message, or the prefix overflows the budget. *)
RefuseRun ==
  /\ SendMessage
  /\ \E reason \in {"hook_blocked", "error"} : Close(reason)
  /\ unanswered' = FALSE
  /\ excused' = FALSE

(* One iteration up to the request: compaction may leave a single message. *)
SendRequest ==
  /\ phase = "head"
  /\ ~Capped \/ round < MaxRounds
  /\ phase' = "stream"
  /\ round' = IF Capped THEN round + 1 ELSE round
  /\ grown' \in {grown, FALSE}
  /\ UNCHANGED <<stopReason, userVars, unanswered, guards, goldenVars, sessionVars,
                 evidence, excused, hasText>>

(* The for loop is exhausted. *)
RoundCap ==
  /\ phase = "head"
  /\ Capped
  /\ round = MaxRounds
  /\ Close("max_rounds")
  /\ UNCHANGED <<userVars, unanswered, sessionVars, evidence, excused, grown>>

(* maybe_context_handoff: the session hands over to a linked successor. *)
ContextHandoff ==
  /\ phase = "head"
  /\ ~Capped \/ round < MaxRounds
  /\ grown
  /\ phase' = "linking"
  /\ spec' = GoldenFromRecords
  /\ UNCHANGED <<stopReason, userVars, unanswered, guards, golden, sessionVars,
                 evidence, excused, hasText, grown, round>>

(* Over the ceiling, or the provider failed past its retries. *)
FailRun ==
  /\ phase \in {"head", "stream"}
  /\ Close("error")
  /\ UNCHANGED <<userVars, unanswered, sessionVars, evidence, excused, grown>>

-----------------------------------------------------------------------------
(* What the stream brought.  A raised Stop always wins: it is polled while  *)
(* the request is parked and read before every chunk.                       *)

StreamInterrupted ==
  /\ phase = "stream"
  /\ interrupt
  /\ TakeInterrupt
  /\ \E text \in BOOLEAN :
       /\ grown' = (grown \/ text)
       /\ \/ /\ InjectSteering
             /\ phase' = "head"
             /\ hasText' = (hasText \/ text)
             /\ UNCHANGED <<stopReason, guards, goldenVars, round>>
          \/ /\ queue = 0
             /\ Close("interrupted")
             /\ UNCHANGED <<queue, unanswered>>
  /\ UNCHANGED <<sessionVars, evidence, excused>>

(* The streaks of replies that were cut off and of empty ones. *)
WithStreaks(truncations, empties) ==
  [guards EXCEPT !.truncations = truncations, !.empties = empties]

(* Cut off at the output cap with no tool call. *)
StreamTruncated ==
  /\ phase = "stream"
  /\ ~interrupt
  /\ unanswered' = FALSE
  /\ excused' = FALSE
  /\ \E text \in BOOLEAN :
       /\ grown' = (grown \/ text)
       /\ \/ /\ guards.truncations + 1 < 3
             /\ guards' = [guards EXCEPT !.truncations = @ + 1]
             /\ phase' = "head"
             /\ hasText' = (hasText \/ text)
             /\ UNCHANGED <<stopReason, goldenVars, round>>
          \/ /\ guards.truncations + 1 >= 3
             /\ Close("max_tokens")
  /\ UNCHANGED <<userVars, sessionVars, evidence>>

(* Neither text nor tool call: two nudges in a row, then a terminal turn.  *)
(* The streak is counted up to 3: it is only compared with 3.              *)
StreamEmpty ==
  /\ phase = "stream"
  /\ ~interrupt
  /\ LET streak == IF guards.empties < 3 THEN guards.empties + 1 ELSE 3
     IN  /\ guards' = WithStreaks(0, streak)
         /\ \/ /\ streak < 3
               /\ phase' = "head"
               /\ unanswered' = FALSE
               /\ UNCHANGED queue
            \/ /\ streak = 3
               /\ InjectSteering
               /\ phase' = "head"
            \/ /\ streak = 3
               /\ queue = 0
               /\ phase' = IF hasText /\ guards.unfinished < MaxUnfinished
                           THEN "judge" ELSE "finish"
               /\ unanswered' = FALSE
               /\ UNCHANGED queue
  /\ excused' = FALSE
  /\ UNCHANGED <<stopReason, interrupt, goldenVars, sessionVars, evidence, hasText,
                 grown, round>>

(* A reply without a tool call: queued messages first, then the finish. *)
StreamText ==
  /\ phase = "stream"
  /\ ~interrupt
  /\ guards' = WithStreaks(0, 0)
  /\ hasText' = TRUE
  /\ grown' = TRUE
  /\ \/ /\ InjectSteering
        /\ phase' = "head"
     \/ /\ queue = 0
        /\ phase' = IF guards.unfinished < MaxUnfinished THEN "judge" ELSE "finish"
        /\ unanswered' = FALSE
        /\ UNCHANGED queue
  /\ excused' = FALSE
  /\ UNCHANGED <<stopReason, interrupt, goldenVars, sessionVars, evidence, round>>

(* Tool calls; a truncated reply that carries complete calls keeps its streak. *)
StreamTools ==
  /\ phase = "stream"
  /\ ~interrupt
  /\ phase' = "tools"
  /\ \E kept \in {0, guards.truncations} :
       guards' = [WithStreaks(kept, 0) EXCEPT !.unfinished = 0]
  /\ unanswered' = FALSE
  /\ excused' = FALSE
  /\ UNCHANGED <<stopReason, userVars, goldenVars, sessionVars, evidence, hasText, grown, round>>

-----------------------------------------------------------------------------
(* The finish line. *)

(* The continuation judge (Jev or the LLM) on the last text. *)
Judge ==
  /\ phase = "judge"
  /\ \/ /\ guards' = [guards EXCEPT !.unfinished = @ + 1]
        /\ SendBack
     \/ /\ phase' = "finish"
        /\ UNCHANGED <<stopReason, userVars, unanswered, guards, excused, round>>
  /\ UNCHANGED <<goldenVars, sessionVars, evidence, hasText, grown>>

(* Mutant: the reminder is sent at every finish. *)
AlwaysRemind == TRUE

ReminderDue == ~guards.doingNudged

(* One reminder of a task left doing. *)
StillDoing ==
  /\ phase = "finish"
  /\ ReminderDue
  /\ guards' = [guards EXCEPT !.doingNudged = TRUE]
  /\ SendBack
  /\ UNCHANGED <<goldenVars, sessionVars, evidence, hasText, grown>>

Stalls == IF pending = golden.lastPending THEN golden.stalls + 1 ELSE 0

GoldenMayContinue == golden.cycle < MaxGoldenCycles /\ Stalls < MaxGoldenStalls

(* Golden goals still pending: back to work, the cycle logged at once. *)
GoldenContinue ==
  /\ phase = "finish"
  /\ pending # <<>>
  /\ GoldenMayContinue
  /\ golden' = [cycle |-> golden.cycle + 1, stalls |-> Stalls, lastPending |-> pending]
  /\ recorded' = Larger(recorded, golden.cycle + 1)
  /\ SendBack
  /\ UNCHANGED <<guards, spec, linked, pending, tagged, touched, evidence, hasText, grown>>

GiveUpReason == IF Stalls >= MaxGoldenStalls THEN "golden_stalled" ELSE "max_golden_cycles"

(* A cap is hit with goals unmet: the finish goes on, and says why. *)
GoldenGivesUp ==
  /\ phase = "finish"
  /\ pending # <<>>
  /\ ~GoldenMayContinue
  /\ golden' = [golden EXCEPT !.stalls = Stalls, !.lastPending = pending]
  /\ stopReason' = GiveUpReason
  /\ phase' = "settle"
  /\ UNCHANGED <<userVars, unanswered, guards, spec, sessionVars, evidence, excused,
                 hasText, grown, round>>

(* Mutant: a green run counts whatever was edited since. *)
AnyRunWillDo == ~VerificationRequired \/ evidence \in {"off", "green", "stale"}

NothingToVerify == ~VerificationRequired \/ GateOpen

(* No goal is pending: is the code known to pass the checks? *)
CheckEvidence ==
  /\ phase = "finish"
  /\ pending = <<>>
  /\ stopReason' = "end_turn"
  /\ \/ /\ NothingToVerify
        /\ phase' = "settle"
     \/ /\ VerificationRequired
        /\ evidence \in {"missing", "stale"}
        /\ phase' = "verify"
  /\ UNCHANGED <<userVars, unanswered, guards, goldenVars, sessionVars, evidence, excused,
                 hasText, grown, round>>

(* A failing report on the files as they are. *)
FailingReport ==
  \/ /\ guards.retries < MaxQualityRetries
     /\ guards' = [guards EXCEPT !.retries = @ + 1]
     /\ SendBack
  \/ /\ guards.retries >= MaxQualityRetries
     /\ stopReason' = "quality_failed"
     /\ phase' = "settle"
     /\ UNCHANGED <<userVars, unanswered, guards, excused, round>>

KnownRed ==
  /\ phase = "finish"
  /\ pending = <<>>
  /\ VerificationRequired
  /\ evidence = "red"
  /\ FailingReport
  /\ UNCHANGED <<goldenVars, sessionVars, evidence, hasText, grown>>

(* run_and_record files the report before the watcher of the user's input  *)
(* has raised the stop of the checks.                                      *)
ChecksRecorded ==
  /\ phase = "verify"
  /\ \/ evidence' = "green" /\ phase' = "passed"
     \/ evidence' = "red" /\ phase' = "failed"
  /\ UNCHANGED <<stopReason, userVars, unanswered, guards, goldenVars, sessionVars, excused,
                 hasText, grown, round>>

(* The report reaches the loop. *)
ChecksReturn ==
  /\ \/ /\ phase = "failed"
        /\ FailingReport
     \/ /\ phase = "passed"
        /\ phase' = "settle"
        /\ UNCHANGED <<stopReason, userVars, unanswered, guards, excused, round>>
  /\ UNCHANGED <<goldenVars, sessionVars, evidence, hasText, grown>>

(* The user spoke or paused (the report, filed or not, is dropped), or the  *)
(* checks could not run: the finish goes on without a verdict.              *)
ChecksGiveNothing ==
  /\ \/ phase \in {"verify", "passed", "failed"} /\ (interrupt \/ queue > 0)
     \/ phase = "verify"
  /\ phase' = "settle"
  /\ excused' = TRUE
  /\ UNCHANGED <<stopReason, userVars, unanswered, guards, goldenVars, sessionVars, evidence,
                 hasText, grown, round>>

(* The user's message outranks the finish and an earlier pause. *)
AnswerInstead ==
  /\ phase \in {"settle", "hook"}
  /\ InjectSteering
  /\ TakeInterrupt
  /\ phase' = "head"
  /\ stopReason' = "none"
  /\ UNCHANGED <<guards, goldenVars, sessionVars, evidence, excused, hasText, grown, round>>

(* Mutant: one refusal too many. *)
OneMoreBlock == guards.blocks <= MaxStopHookBlocks

HookMayBlock == guards.blocks < MaxStopHookBlocks

FireStopHook ==
  /\ phase = "settle"
  /\ queue = 0
  /\ HookMayBlock
  /\ phase' = "hook"
  /\ UNCHANGED <<stopReason, userVars, unanswered, guards, goldenVars, sessionVars, evidence,
                 excused, hasText, grown, round>>

StopHookBlocks ==
  /\ phase = "hook"
  /\ guards' = [guards EXCEPT !.blocks = @ + 1]
  /\ SendBack
  /\ UNCHANGED <<goldenVars, sessionVars, evidence, hasText, grown>>

(* Mutant: no second look at the queue after the Stop hook. *)
NoSecondLook == TRUE

NothingQueued == queue = 0

(* The finish line is crossed. *)
Finish ==
  /\ \/ /\ phase = "settle"
        /\ queue = 0
        /\ ~HookMayBlock
        /\ Close(stopReason)
     \/ /\ phase = "hook"
        /\ NothingQueued
        /\ Close(stopReason)
     \/ /\ phase = "hook"
        /\ Close("hook_stop")
  /\ UNCHANGED <<userVars, unanswered, sessionVars, evidence, excused, grown>>

-----------------------------------------------------------------------------
(* The round's tool calls.  A raised Stop starts no further call. *)

(* current_evidence compares digests: an edit makes a run stale, and an edit *)
(* that restores the files it saw makes its verdict (which one is a choice)  *)
(* current again.                                                            *)
AfterEdit == IF evidence \in {"off", "missing"} THEN {evidence}
             ELSE {"stale"} \cup (IF evidence = "stale" THEN {"green", "red"} ELSE {evidence})

EditCode ==
  /\ phase = "tools"
  /\ ~interrupt
  /\ evidence' \in AfterEdit
  /\ touched' \in BOOLEAN
  /\ UNCHANGED <<phase, stopReason, userVars, unanswered, guards, goldenVars, recorded, linked,
                 pending, tagged, excused, hasText, grown, round>>

RunQuality ==
  /\ phase = "tools"
  /\ ~interrupt
  /\ evidence # "off"
  /\ evidence' \in {"green", "red"}
  /\ UNCHANGED <<phase, stopReason, userVars, unanswered, guards, goldenVars, sessionVars,
                 excused, hasText, grown, round>>

(* tasks_set: no golden task can be dropped, and one is closed only by a   *)
(* gate that is open; it can be reordered and reopened.                    *)
SetTasks ==
  /\ phase = "tools"
  /\ ~interrupt
  /\ tagged
  /\ pending' \in GoalLists
  /\ GoalsIn(pending) \subseteq GoalsIn(pending') \/ GateOpen
  /\ UNCHANGED <<phase, stopReason, userVars, unanswered, guards, goldenVars, recorded, linked,
                 tagged, evidence, touched, excused, hasText, grown, round>>

(* Every call has its result in history. *)
EndRound ==
  /\ phase = "tools"
  /\ phase' = "watch"
  /\ grown' = TRUE
  /\ UNCHANGED <<stopReason, userVars, unanswered, guards, goldenVars, sessionVars, evidence,
                 excused, hasText, round>>

(* A tool hook asked the run to end: that outranks a handoff. *)
ToolHookStop ==
  /\ phase = "tools"
  /\ grown' = TRUE
  /\ Close("hook_stop")
  /\ UNCHANGED <<userVars, unanswered, sessionVars, evidence, excused>>

(* doc_create on a new topic: the round's handoff. *)
DocumentHandoff ==
  /\ phase = "tools"
  /\ phase' = "linking"
  /\ spec' = GoldenFromRecords
  /\ grown' = TRUE
  /\ UNCHANGED <<stopReason, userVars, unanswered, guards, golden, sessionVars, evidence,
                 excused, hasText, round>>

(* The loop watch's verdict, then the pause and the queue. *)
ToolLoopStop ==
  /\ phase = "watch"
  /\ guards.loopNudges >= MaxLoopNudges
  /\ Close("tool_loop")
  /\ UNCHANGED <<userVars, unanswered, sessionVars, evidence, excused, grown>>

NextRound ==
  /\ phase = "watch"
  /\ \/ UNCHANGED guards
     \/ /\ guards.loopNudges < MaxLoopNudges
        /\ guards' = [guards EXCEPT !.loopNudges = @ + 1]
  /\ TakeInterrupt
  /\ \/ InjectSteering
     \/ /\ queue = 0
        /\ ~interrupt
        /\ UNCHANGED <<queue, unanswered>>
  /\ phase' = "head"
  /\ UNCHANGED <<stopReason, goldenVars, sessionVars, evidence, excused, hasText, grown, round>>

PauseAfterTools ==
  /\ phase = "watch"
  /\ interrupt
  /\ queue = 0
  /\ TakeInterrupt
  /\ Close("interrupted")
  /\ UNCHANGED <<queue, unanswered, sessionVars, evidence, excused, grown>>

-----------------------------------------------------------------------------
(* The driver: handoffs and the end of the run. *)

(* link_session, then the successor's prologue; it has no quality run yet. *)
StartSuccessor ==
  /\ phase = "linking"
  /\ linked' = spec
  /\ recorded' = 0
  /\ evidence' = IF evidence = "off" THEN "off" ELSE "missing"
  /\ grown' = FALSE
  /\ EnterLoop(spec)
  /\ UNCHANGED <<userVars, pending, tagged, touched>>

LinkFails ==
  /\ phase = "linking"
  /\ Close("error")
  /\ UNCHANGED <<userVars, unanswered, sessionVars, evidence, excused, grown>>

(* spawn_run_loop drops the steering entry, and whatever it still holds. *)
DropSteering ==
  /\ phase = "closed"
  /\ phase' = "idle"
  /\ queue' = 0
  /\ interrupt' = FALSE
  /\ UNCHANGED <<stopReason, unanswered, guards, goldenVars, sessionVars, evidence, excused,
                 hasText, grown, round>>

(* The process dies: the records stay, the memory of the run does not. *)
Crash ==
  /\ phase # "idle"
  /\ phase' = "idle"
  /\ stopReason' = "none"
  /\ guards' = NoGuards
  /\ golden' = NoGolden
  /\ spec' = NoGolden
  /\ hasText' = FALSE
  /\ round' = 0
  /\ queue' = 0
  /\ interrupt' = FALSE
  /\ unanswered' = FALSE
  /\ excused' = FALSE
  /\ UNCHANGED <<sessionVars, evidence, grown>>

-----------------------------------------------------------------------------
(* The user. *)

QueueSteering ==
  /\ phase # "idle"
  /\ queue < MaxQueue
  /\ queue' = queue + 1
  /\ UNCHANGED <<phase, stopReason, interrupt, unanswered, guards, goldenVars, sessionVars,
                 evidence, excused, hasText, grown, round>>

InterruptSession ==
  /\ phase # "idle"
  /\ ~interrupt
  /\ interrupt' = TRUE
  /\ UNCHANGED <<phase, stopReason, queue, unanswered, guards, goldenVars, sessionVars,
                 evidence, excused, hasText, grown, round>>

(* Files change outside the run: an editor, another session, git. *)
UserEdits ==
  /\ evidence \in {"green", "red", "stale"}
  /\ evidence' \in AfterEdit
  /\ excused' = (excused \/ phase \in {"passed", "failed", "settle", "hook", "closed", "idle"})
  /\ UNCHANGED <<phase, stopReason, userVars, unanswered, guards, goldenVars, sessionVars,
                 hasText, grown, round>>

-----------------------------------------------------------------------------
RunStep ==
  \/ SendRequest \/ RoundCap \/ ContextHandoff \/ FailRun
  \/ StreamInterrupted \/ StreamTruncated \/ StreamEmpty \/ StreamText \/ StreamTools
  \/ Judge \/ StillDoing \/ GoldenContinue \/ GoldenGivesUp \/ CheckEvidence \/ KnownRed
  \/ ChecksRecorded \/ ChecksReturn \/ ChecksGiveNothing
  \/ AnswerInstead \/ FireStopHook \/ StopHookBlocks \/ Finish
  \/ EndRound \/ ToolHookStop \/ DocumentHandoff \/ ToolLoopStop \/ NextRound \/ PauseAfterTools
  \/ StartSuccessor \/ LinkFails \/ DropSteering

ToolCall == EditCode \/ RunQuality \/ SetTasks

UserStep == StartRun \/ RefuseRun \/ QueueSteering \/ InterruptSession \/ UserEdits

Next == RunStep \/ ToolCall \/ UserStep \/ Crash

(* The runtime polls a task that can go on; the user owes the run nothing. *)
Fairness == WF_vars(RunStep)

Spec     == Init /\ [][Next]_vars
FairSpec == Spec /\ Fairness
-----------------------------------------------------------------------------
(* Types. *)

GuardType  == [truncations : 0..2, empties : 0..3, unfinished : 0..MaxUnfinished,
               doingNudged : BOOLEAN, retries : 0..MaxQualityRetries,
               blocks : 0..MaxStopHookBlocks, loopNudges : 0..MaxLoopNudges]
GoldenType == [cycle : 0..MaxGoldenCycles, stalls : Nat, lastPending : GoalLists]

Flags == /\ interrupt \in BOOLEAN /\ unanswered \in BOOLEAN /\ tagged \in BOOLEAN
         /\ touched \in BOOLEAN /\ excused \in BOOLEAN
         /\ hasText \in BOOLEAN /\ grown \in BOOLEAN

Values == /\ phase \in Phases /\ stopReason \in StopReasons
          /\ queue \in 0..MaxQueue /\ round \in Nat
          /\ guards \in GuardType
          /\ golden \in GoldenType /\ linked \in GoldenType /\ spec \in GoldenType
          /\ recorded \in 0..MaxGoldenCycles
          /\ pending \in GoalLists
          /\ evidence \in EvidenceStates

(* Every counter of the run and of the records stays within its cap. *)
TypeOK == Values /\ Flags

-----------------------------------------------------------------------------
(* Safety. *)

(* A run that reports end_turn has no golden goal left, and if its files had *)
(* to be checked they are known green: whatever was edited after a goal was  *)
(* closed, however often the judge, the goals, the hooks or a message sent   *)
(* the run back.  Only a finish that said it had no verdict is excused.      *)
EndTurnIsHonest ==
  phase = "closed" /\ stopReason = "end_turn" =>
    /\ pending = <<>>
    /\ excused \/ GateOpen \/ ~VerificationRequired

(* Golden cycles spent so far in the chain of sessions the run continues. *)
Cycles == GoldenFromRecords.cycle

(* The golden budget is spent once for a whole chain of sessions: no restart, *)
(* crash, handoff or new message gives a cycle back, and every time the loop  *)
(* goes back to pending goals the records say so at once.                     *)
CyclesAreNeverRefunded ==
  [][ /\ Cycles' >= Cycles
      /\ golden'.cycle > golden.cycle /\ phase = "finish" => Cycles' = Cycles + 1 ]_vars

(* The harness goes back to the model on its own account: a nudge. *)
SelfNudge == /\ phase \in Finishing \cup {"stream"}
             /\ phase' = "head"
             /\ ~unanswered'

(* What the run may still spend on nudges before its finish is let through:  *)
(* two cut-off or empty replies in a row for each one the finish line sends  *)
(* back, and a budget for each of the finish line's reasons.                 *)
FinishBudget == (MaxUnfinished - guards.unfinished) + (IF guards.doingNudged THEN 0 ELSE 1)
                + (MaxGoldenCycles - golden.cycle) + (MaxQualityRetries - guards.retries)
                + (MaxStopHookBlocks - guards.blocks)
StreakBudget == 3 * (IF guards.empties < 2 THEN 2 - guards.empties ELSE 0)
                + (2 - guards.truncations)
NudgeBudget  == 9 * FinishBudget + (IF phase \in Finishing THEN 0 ELSE StreakBudget)

(* Steps that refill the budget: the model acts, the user speaks, a run *)
(* starts or ends.                                                      *)
Refills == phase' \in {"tools", "closed", "idle"} \/ phase \in {"idle", "linking"} \/ unanswered'

(* No guard can be played against another: each nudge spends from one finite *)
(* budget that only a tool call, a user's message or a new run refills, so   *)
(* the harness can never talk to the model forever by itself.                *)
NudgesSpendTheBudget ==
  [][ /\ SelfNudge => NudgeBudget' < NudgeBudget /\ NudgeBudget' >= 0
      /\ NudgeBudget' > NudgeBudget => Refills ]_vars

FinishLine == {"end_turn", "golden_stalled", "max_golden_cycles", "quality_failed"}

(* A run that ends at the finish line leaves no message of the user behind:  *)
(* none queued while the judge, the checks or the Stop hook ran, none        *)
(* injected and then not answered by the model.  A pause keeps none queued.  *)
FinishAnswersTheUser ==
  [][ phase # "closed" /\ phase' = "closed" =>
        /\ stopReason' \in FinishLine => queue' = 0 /\ ~unanswered'
        /\ stopReason' = "interrupted" => queue' = 0 ]_vars

(* "without this one the run would end with the message still in the queue -- *)
(* and the queue is dropped when a run ends.  Answer it instead."             *)
NoQueuedMessageIsDropped ==
  [][ phase # "closed" /\ phase' = "closed" /\ stopReason' \notin {"error", "hook_stop"} => queue' = 0 ]_vars

(* "recomputing is exact": what a handoff carries is the live golden state. *)
GoldenStateIsCarried == phase = "linking" => spec = golden

-----------------------------------------------------------------------------
(* Liveness, under Fairness. *)

Speaks == (EndRound \/ DocumentHandoff \/ ContextHandoff \/ StartRun
           \/ (queue' < queue /\ phase # "closed"))

(* Whatever the model, the judge, the hooks and the checks answer, a run ends *)
(* unless the model keeps calling tools, the session keeps being handed over, *)
(* or the user keeps talking: no nudge, gate or cap waits for another.        *)
QuietRunEnds == (phase # "idle" ~> phase = "idle") \/ []<><<Speaks>>_vars

(* A Stop is never lost and never starves: it is consumed, or the run ends,  *)
(* however many tool rounds, messages and nudges come between.               *)
PauseIsHonoured == interrupt ~> (~interrupt \/ phase = "idle")
=============================================================================
