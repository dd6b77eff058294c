----------------------------- MODULE ToolBatch -----------------------------
(***************************************************************************)
(* One round's tool calls as the loop runs them (agent/tool_batch.rs and   *)
(* the per-call loop of agent/run_loop.rs; a subagent's loop is the same): *)
(* a stretch of consecutive read-only calls is run ahead, at most          *)
(* MaxConcurrent at a time on the blocking pool, and every other call runs *)
(* on its own.  A "read" is a call runs_in_parallel accepts; an "edit" is  *)
(* any other call, which may change the files or not.  The user may press  *)
(* Stop at any moment, and a new send_message lowers the flag again.       *)
(***************************************************************************)
EXTENDS Naturals, Sequences, FiniteSets

CONSTANTS
  MaxCalls,        \* bound of the model: calls of a round
  MaxConcurrent    \* MAX_CONCURRENT_TOOLS, 4 in the source

ASSUME BatchAssumption == MaxCalls \in Nat /\ MaxConcurrent \in Nat \ {0}

VARIABLES
  calls,      \* tool_uses: the kind of each call of the round
  next,       \* ti, the call the loop is at
  phase,      \* where the loop is
  interrupt,  \* steering.interrupt
  ready,      \* results of calls run ahead, by call
  end,        \* the first call after the stretch run ahead
  waiting,    \* the next call of the stretch to start
  started,    \* calls in the JoinSet that are still running
  ended,      \* calls in the JoinSet that ended and were not joined
  slots,      \* results of the calls joined so far
  world,      \* version of the files
  answers,    \* tool_result_blocks
  reported    \* ToolResult events sent for each call

vars == <<calls, next, phase, interrupt, ready, end, waiting, started, ended, slots, world,
          answers, reported>>

batchVars == <<end, waiting, started, ended, slots>>

Rounds == UNION {[1..n -> {"read", "edit"}] : n \in 1..MaxCalls}

(* What the round promises; the results are named there. *)
Sequential == INSTANCE ToolRound WITH Rounds <- Rounds, calls <- calls, answers <- answers, world <- world

Ran(version) == Sequential!Ran(version)
Failed       == Sequential!Failed
Skipped      == Sequential!Skipped
Nothing      == [how |-> "nothing", saw |-> 0]

NoResults == [i \in 1..MaxCalls |-> Nothing]

Report(i) == reported' = [reported EXCEPT ![i] = @ + 1]

(* A tool body runs on the files as they are; an edit may change them. *)
Execute(i) == \/ world' = world
              \/ calls[i] = "edit" /\ world' = world + 1

(* Mutant: the stretch runs over the calls that are not read-only. *)
WholeRound(i, e) == e = Len(calls) + 1

(* e is the end of the stretch of read-only calls that starts at i. *)
EndsRun(i, e) == /\ \A j \in i..e - 1 : calls[j] = "read"
                 /\ e = Len(calls) + 1 \/ calls[e] # "read"

(* Where the stretch at the head of the loop ends, if it has two calls. *)
RunEnds == {e \in next + 2..Len(calls) + 1 : EndsRun(next, e)}

-----------------------------------------------------------------------------
Init ==
  /\ calls \in Rounds
  /\ next = 1
  /\ phase = "loop"
  /\ interrupt = FALSE
  /\ ready = NoResults
  /\ end = 1
  /\ waiting = 1
  /\ started = {}
  /\ ended = {}
  /\ slots = NoResults
  /\ world = 0
  /\ answers = <<>>
  /\ reported = [i \in 1..MaxCalls |-> 0]

(* The head of an iteration: a stretch of two or more reads is run ahead. *)
RunAhead ==
  /\ phase = "loop"
  /\ next <= Len(calls)
  /\ ready[next] = Nothing
  /\ ~interrupt
  /\ end' \in RunEnds
  /\ phase' = "spawn"
  /\ waiting' = next
  /\ slots' = NoResults
  /\ UNCHANGED <<calls, next, interrupt, ready, started, ended, world, answers, reported>>

NoRunAhead ==
  /\ phase = "loop"
  /\ next <= Len(calls)
  /\ \/ ready[next] # Nothing
     \/ interrupt
     \/ RunEnds = {}
  /\ phase' = "check"
  /\ UNCHANGED <<calls, next, interrupt, ready, batchVars, world, answers, reported>>

-----------------------------------------------------------------------------
(* run_bounded. *)

InSet == Cardinality(started) + Cardinality(ended)

(* Mutant: one job more than the limit. *)
RoomForOneMore == InSet <= MaxConcurrent

RoomInSet == InSet < MaxConcurrent

MayStart == RoomInSet /\ ~interrupt /\ waiting < end

SpawnJob ==
  /\ phase = "spawn"
  /\ MayStart
  /\ started' = started \cup {waiting}
  /\ waiting' = waiting + 1
  /\ UNCHANGED <<calls, next, phase, interrupt, ready, end, ended, slots, world, answers, reported>>

WaitForJob ==
  /\ phase = "spawn"
  /\ ~MayStart
  /\ phase' = "join"
  /\ UNCHANGED <<calls, next, interrupt, ready, batchVars, world, answers, reported>>

(* A job ends on its own thread, and sends its own ToolResult event. *)
JobEnds(i) ==
  /\ i \in started
  /\ started' = started \ {i}
  /\ ended' = ended \cup {i}
  /\ Execute(i)
  /\ slots' = [slots EXCEPT ![i] = Ran(world)]
  /\ Report(i)
  /\ UNCHANGED <<calls, next, phase, interrupt, ready, end, waiting, answers>>

(* A job panics: run_ahead answers it, event included, when it returns. *)
JobPanics(i) ==
  /\ i \in started
  /\ started' = started \ {i}
  /\ ended' = ended \cup {i}
  /\ slots' = [slots EXCEPT ![i] = Failed]
  /\ UNCHANGED <<calls, next, phase, interrupt, ready, end, waiting, world, answers, reported>>

JoinJob ==
  /\ phase = "join"
  /\ \E i \in ended : ended' = ended \ {i}
  /\ phase' = "spawn"
  /\ UNCHANGED <<calls, next, interrupt, ready, end, waiting, started, slots, world, answers,
                 reported>>

(* Mutant: a pause does not wait for the jobs under way. *)
PauseAbandonsJobs == InSet = 0 \/ interrupt

(* Mutant: the whole stretch has to run, paused or not. *)
WholeStretchRan == InSet = 0 /\ waiting = end

(* The JoinSet is empty. *)
Drained == InSet = 0

(* run_ahead puts the results in their slots; a panic is reported here. *)
Return ==
  /\ phase = "join"
  /\ Drained
  /\ phase' = "check"
  /\ ready' = [i \in 1..MaxCalls |-> IF i \in next..end - 1 THEN slots[i] ELSE ready[i]]
  /\ reported' = [i \in 1..MaxCalls |->
                    IF i \in next..end - 1 /\ slots[i] = Failed THEN reported[i] + 1
                                                               ELSE reported[i]]
  /\ UNCHANGED <<calls, next, interrupt, batchVars, world, answers>>

-----------------------------------------------------------------------------
(* The loop's own path, in the model's order. *)

(* Mutant: a call is answered and then answered as not run. *)
AnswerTwice(result) ==
  /\ answers' = answers \o <<result, Skipped>>
  /\ next' = next + 1
  /\ ready' = [ready EXCEPT ![next] = Nothing]

(* A result goes into the user turn, and the loop moves on. *)
Answer(result) ==
  /\ answers' = Append(answers, result)
  /\ next' = next + 1
  /\ ready' = [ready EXCEPT ![next] = Nothing]

SeePause ==
  /\ phase = "check"
  /\ interrupt
  /\ phase' = "unrun"
  /\ UNCHANGED <<calls, next, interrupt, ready, batchVars, world, answers, reported>>

TakeReady ==
  /\ phase = "check"
  /\ ~interrupt
  /\ ready[next] # Nothing
  /\ Answer(ready[next])
  /\ phase' = "loop"
  /\ UNCHANGED <<calls, interrupt, batchVars, world, reported>>

StartCall ==
  /\ phase = "check"
  /\ ~interrupt
  /\ ready[next] = Nothing
  /\ phase' = "call"
  /\ UNCHANGED <<calls, next, interrupt, ready, batchVars, world, answers, reported>>

(* Denied, approved, loaded, run or handed to subagents: one result. *)
EndCall ==
  /\ phase = "call"
  /\ Execute(next)
  /\ \E result \in {Ran(world), Failed} : Answer(result)
  /\ Report(next)
  /\ phase' = "loop"
  /\ UNCHANGED <<calls, interrupt, batchVars>>

(* answer_unrun: results already there are kept, the other calls are not run. *)
AnswerUnrun ==
  /\ phase = "unrun"
  /\ next <= Len(calls)
  /\ \/ /\ ready[next] # Nothing
        /\ Answer(ready[next])
        /\ UNCHANGED reported
     \/ /\ ready[next] = Nothing
        /\ Answer(Skipped)
        /\ Report(next)
  /\ UNCHANGED <<calls, phase, interrupt, batchVars, world>>

EndRound ==
  /\ phase \in {"loop", "unrun"}
  /\ next > Len(calls)
  /\ phase' = "done"
  /\ UNCHANGED <<calls, next, interrupt, ready, batchVars, world, answers, reported>>

(* The next reply; the pause was consumed after the results were pushed. *)
NewRound ==
  /\ phase = "done"
  /\ calls' \in Rounds
  /\ next' = 1
  /\ phase' = "loop"
  /\ interrupt' = FALSE
  /\ ready' = NoResults
  /\ slots' = NoResults
  /\ world' = 0
  /\ answers' = <<>>
  /\ reported' = [i \in 1..MaxCalls |-> 0]
  /\ end' = 1
  /\ waiting' = 1
  /\ UNCHANGED <<started, ended>>

(* interrupt_session; SteeringCtl::clear by a send_message to this session. *)
Interrupt ==
  /\ interrupt' = ~interrupt
  /\ phase # "done"
  /\ UNCHANGED <<calls, next, phase, ready, batchVars, world, answers, reported>>

LoopStep == \/ RunAhead \/ NoRunAhead \/ SpawnJob \/ WaitForJob \/ JoinJob \/ Return
            \/ SeePause \/ TakeReady \/ StartCall \/ EndCall \/ AnswerUnrun \/ EndRound

JobStep(i) == JobEnds(i) \/ JobPanics(i)

Next == LoopStep \/ (\E i \in 1..MaxCalls : JobStep(i)) \/ NewRound \/ Interrupt

(* The task is polled when it can go on, tools end and prompts are answered. *)
Fairness == WF_vars(LoopStep) /\ \A i \in 1..MaxCalls : WF_vars(JobStep(i))

Spec     == Init /\ [][Next]_vars
FairSpec == Spec /\ Fairness

-----------------------------------------------------------------------------
ResultType == [how : {"ran", "failed", "skipped", "nothing"}, saw : Nat]

TypeOK ==
  /\ calls \in Rounds
  /\ next \in 1..Len(calls) + 1
  /\ phase \in {"loop", "spawn", "join", "check", "call", "unrun", "done"}
  /\ interrupt \in BOOLEAN
  /\ ready \in [1..MaxCalls -> ResultType]
  /\ slots \in [1..MaxCalls -> ResultType]
  /\ end \in 1..Len(calls) + 1
  /\ waiting \in 1..end
  /\ started \subseteq 1..waiting - 1
  /\ ended \subseteq 1..waiting - 1
  /\ world \in Nat
  /\ answers \in Seq(ResultType)
  /\ Len(answers) = next - 1
  /\ reported \in [1..MaxCalls -> Nat]

(* Every call the model asked for is answered once and reported to the user *)
(* once, whatever was run ahead, panicked or was kept from running by a      *)
(* pause: a second, contradicting result never follows the first.            *)
OneResultEach ==
  /\ \A i \in 1..MaxCalls : reported[i] <= 1
  /\ phase = "done" => \A i \in 1..Len(calls) : reported[i] = 1

(* At most MaxConcurrent jobs at once, only inside run_ahead, and no edit    *)
(* is ever under way beside them: nothing outlives the stretch it is part of. *)
JobsStayInTheirRun ==
  /\ InSet <= MaxConcurrent
  /\ started \cup ended # {} => phase \in {"spawn", "join"}
  /\ \A i \in started : calls[i] = "read"

(* "so the transcript cannot tell the difference": the results are those of  *)
(* calls run one by one in the model's order, up to the pause and no further. *)
LooksSequential == Sequential!Spec

(* A pause, a panic or a full JoinSet never leaves the round hanging. *)
RoundEnds == phase = "loop" ~> phase = "done"
=============================================================================
