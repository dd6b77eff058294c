-------------------------- MODULE ToolBatch_proofs --------------------------
(* Theorems about a round of tool calls, for every number of calls and every *)
(* limit on the jobs: what is run side by side looks as if run in order.     *)
EXTENDS ToolBatch, FiniteSetTheorems, SequenceTheorems, TLAPS

Busy == phase \in {"spawn", "join"}

(* A stretch is made of reads; jobs exist only while it is run. *)
Stretch ==
  /\ started \cup ended # {} => Busy
  /\ Busy => /\ next <= Len(calls)
             /\ next <= waiting
             /\ \A j \in next..end - 1 : calls[j] = "read"
             /\ \A j \in next..MaxCalls : ready[j] = Nothing
             /\ started \subseteq next..waiting - 1
             /\ ended \subseteq next..waiting - 1
             /\ \A j \in started : slots[j] = Nothing
             /\ \A j \in next..waiting - 1 :
                  j \notin started => slots[j] \in {Ran(world), Failed}
             /\ \A j \in 1..MaxCalls : j < next \/ j >= waiting => slots[j] = Nothing

(* Results run ahead are those of a first part of the calls left, and the *)
(* files have not changed since.                                          *)
Ahead ==
  \A j \in next..MaxCalls : ready[j] # Nothing =>
     /\ j <= Len(calls)
     /\ calls[j] = "read"
     /\ ready[j] \in {Ran(world), Failed}
     /\ \A k \in next..j : ready[k] # Nothing

(* No call runs after one the pause kept from running. *)
InOrder ==
  /\ phase \in {"check", "call"} => next <= Len(calls)
  /\ phase = "done" => next = Len(calls) + 1
  /\ Sequential!Paused => /\ phase \in {"unrun", "done"}
                          /\ \A j \in next..MaxCalls : ready[j] = Nothing
  /\ phase = "call" => ready[next] = Nothing

(* The calls whose result the user has been told. *)
Told(i) == \/ i < next
           \/ ready[i] # Nothing
           \/ Busy /\ slots[i].how = "ran"

Reports == \A i \in 1..MaxCalls : reported[i] = IF Told(i) THEN 1 ELSE 0

IInv == TypeOK /\ Stretch /\ Ahead /\ InOrder

-----------------------------------------------------------------------------
(* A round is a sequence of at most MaxCalls calls. *)
LEMMA RoundShape ==
  ASSUME NEW c \in Rounds
  PROVE  Len(c) \in 1..MaxCalls /\ c \in [1..Len(c) -> {"read", "edit"}]
BY BatchAssumption DEF Rounds

(* The results differ, and each is a result. *)
LEMMA Results ==
  ASSUME NEW w \in Nat
  PROVE  /\ Ran(w) \in ResultType /\ Failed \in ResultType
         /\ Skipped \in ResultType /\ Nothing \in ResultType
         /\ Ran(w) # Skipped /\ Ran(w) # Nothing /\ Failed # Skipped /\ Failed # Nothing
         /\ Skipped # Nothing /\ Ran(w) # Failed
         /\ Ran(w).how = "ran" /\ Failed.how # "ran" /\ Nothing.how # "ran"
BY DEF Ran, Failed, Skipped, Nothing, ResultType, Sequential!Ran, Sequential!Failed,
       Sequential!Skipped

(* Appending a result pauses a round exactly when the call was skipped. *)
LEMMA AppendPauses ==
  ASSUME answers \in Seq(ResultType), NEW r \in ResultType, answers' = Append(answers, r)
  PROVE  /\ Sequential!Paused' <=> Sequential!Paused \/ r = Skipped
         /\ answers' \in Seq(ResultType) /\ Len(answers') = Len(answers) + 1
<1>1. /\ DOMAIN answers = 1..Len(answers) /\ Len(answers) \in Nat
      /\ DOMAIN answers' = 1..Len(answers) + 1
      /\ answers'[Len(answers) + 1] = r
      /\ \A i \in 1..Len(answers) : answers'[i] = answers[i]
  OBVIOUS
<1>2. answers' \in Seq(ResultType) /\ Len(answers') = Len(answers) + 1
  OBVIOUS
<1>3. Sequential!Paused => Sequential!Paused'
  BY <1>1 DEF Sequential!Paused, Sequential!Skipped
<1>4. r = Skipped => Sequential!Paused'
  BY <1>1 DEF Sequential!Paused, Skipped
<1>5. Sequential!Paused' => Sequential!Paused \/ r = Skipped
  BY <1>1 DEF Sequential!Paused, Skipped
<1>. QED
  BY <1>2, <1>3, <1>4, <1>5

(* The invariant holds when the round's calls arrive. *)
LEMMA InitIInv == Init => IInv /\ Reports
<1>. SUFFICES ASSUME Init PROVE IInv /\ Reports
  OBVIOUS
<1>. USE BatchAssumption, RoundShape, Results DEF Init, NoResults
<1>1. TypeOK
  <2>1. NoResults \in [1..MaxCalls -> ResultType]
    OBVIOUS
  <2>2. <<>> \in Seq(ResultType) /\ Len(<<>>) = 0
    OBVIOUS
  <2>3. Len(calls) \in 1..MaxCalls
    BY RoundShape
  <2>4. [i \in 1..MaxCalls |-> 0] \in [1..MaxCalls -> Nat]
    OBVIOUS
  <2>5. /\ calls \in Rounds /\ next \in 1..Len(calls) + 1 /\ end \in 1..Len(calls) + 1
        /\ waiting \in 1..end /\ started \subseteq 1..waiting - 1
        /\ ended \subseteq 1..waiting - 1
    BY <2>3
  <2>6. Len(answers) = next - 1 /\ answers \in Seq(ResultType)
    BY <2>2
  <2>7. /\ phase \in {"loop", "spawn", "join", "check", "call", "unrun", "done"}
        /\ interrupt \in BOOLEAN /\ world \in Nat
        /\ ready \in [1..MaxCalls -> ResultType] /\ slots \in [1..MaxCalls -> ResultType]
        /\ reported \in [1..MaxCalls -> Nat]
    BY <2>1, <2>4
  <2>. QED
    BY <2>5, <2>6, <2>7 DEF TypeOK
<1>2. Stretch /\ Ahead
  BY DEF Stretch, Ahead, Busy
<1>3. InOrder
  BY DEF InOrder, Sequential!Paused
<1>4. Reports
  BY DEF Reports, Told, Busy
<1>. QED
  BY <1>1, <1>2, <1>3, <1>4 DEF IInv

(* A report keeps the counts numbers, and running a call the version one. *)
LEMMA Counts ==
  /\ \A i : reported \in [1..MaxCalls -> Nat] /\ Report(i)
               => reported' \in [1..MaxCalls -> Nat]
  /\ \A i : world \in Nat /\ Execute(i) => world' \in Nat
<1>1. ASSUME NEW i, reported \in [1..MaxCalls -> Nat], Report(i)
      PROVE  reported' \in [1..MaxCalls -> Nat]
  <2>1. CASE i \in 1..MaxCalls
    <3>1. reported[i] + 1 \in Nat
      BY <1>1, <2>1
    <3>. QED
      BY <1>1, <2>1, <3>1 DEF Report
  <2>2. CASE i \notin 1..MaxCalls
    BY <1>1, <2>2 DEF Report
  <2>. QED
    BY <2>1, <2>2
<1>2. ASSUME NEW i, world \in Nat, Execute(i) PROVE world' \in Nat
  BY <1>2 DEF Execute
<1>. QED
  BY <1>1, <1>2

(* Every step keeps the types. *)
LEMMA TypeStep == IInv /\ [Next]_vars => TypeOK'
<1>. SUFFICES ASSUME IInv, [Next]_vars PROVE TypeOK'
  OBVIOUS
<1>. USE BatchAssumption, RoundShape, Results DEF IInv, TypeOK, batchVars
<1>1. CASE RunAhead
  <2>1. NoResults \in [1..MaxCalls -> ResultType]
    BY DEF NoResults
  <2>2. end' \in next + 2..Len(calls) + 1
    BY <1>1 DEF RunAhead, RunEnds
  <2>3. started = {} /\ ended = {}
    BY <1>1 DEF RunAhead, Stretch, Busy
  <2>. QED
    BY <1>1, <2>1, <2>2, <2>3 DEF RunAhead
<1>2. CASE NoRunAhead
  BY <1>2 DEF NoRunAhead
<1>3. CASE SpawnJob
  BY <1>3 DEF SpawnJob, MayStart, Stretch, Busy
<1>4. CASE WaitForJob
  BY <1>4 DEF WaitForJob
<1>5. CASE JoinJob
  BY <1>5 DEF JoinJob
<1>6. CASE Return
  <2>1. reported' \in [1..MaxCalls -> Nat] /\ ready' \in [1..MaxCalls -> ResultType]
    BY <1>6 DEF Return
  <2>. QED
    BY <1>6, <2>1 DEF Return
<1>7. CASE SeePause
  BY <1>7 DEF SeePause
<1>8. CASE TakeReady
  <2>1. \E r \in ResultType : answers' = Append(answers, r)
    BY <1>8 DEF TakeReady, Answer, InOrder
  <2>2. answers' \in Seq(ResultType) /\ Len(answers') = Len(answers) + 1
    BY <2>1, AppendPauses
  <2>3. reported' \in [1..MaxCalls -> Nat] /\ world' \in Nat
    BY <1>8, Counts DEF TakeReady
  <2>4. ready' \in [1..MaxCalls -> ResultType]
    BY <1>8 DEF TakeReady, Answer
  <2>5. next \in 1..Len(calls) /\ next' = next + 1
    BY <1>8 DEF TakeReady, Answer, InOrder
  <2>6. UNCHANGED <<calls, interrupt, batchVars>> /\ phase' \in {phase, "loop"}
    BY <1>8 DEF TakeReady
  <2>. QED
    BY <2>2, <2>3, <2>4, <2>5, <2>6
<1>9. CASE StartCall
  BY <1>9 DEF StartCall
<1>10. CASE EndCall
  <2>1. \E r \in ResultType : answers' = Append(answers, r)
    BY <1>10 DEF EndCall, Answer
  <2>2. answers' \in Seq(ResultType) /\ Len(answers') = Len(answers) + 1
    BY <2>1, AppendPauses
  <2>3. reported' \in [1..MaxCalls -> Nat] /\ world' \in Nat
    BY <1>10, Counts DEF EndCall
  <2>4. ready' \in [1..MaxCalls -> ResultType]
    BY <1>10 DEF EndCall, Answer
  <2>5. next \in 1..Len(calls) /\ next' = next + 1
    BY <1>10 DEF EndCall, Answer, InOrder
  <2>6. UNCHANGED <<calls, interrupt, batchVars>> /\ phase' \in {phase, "loop"}
    BY <1>10 DEF EndCall
  <2>. QED
    BY <2>2, <2>3, <2>4, <2>5, <2>6
<1>11. CASE AnswerUnrun
  <2>1. \E r \in ResultType : answers' = Append(answers, r)
    BY <1>11 DEF AnswerUnrun, Answer
  <2>2. answers' \in Seq(ResultType) /\ Len(answers') = Len(answers) + 1
    BY <2>1, AppendPauses
  <2>3. reported' \in [1..MaxCalls -> Nat] /\ world' \in Nat
    BY <1>11, Counts DEF AnswerUnrun
  <2>4. ready' \in [1..MaxCalls -> ResultType]
    BY <1>11 DEF AnswerUnrun, Answer
  <2>5. next \in 1..Len(calls) /\ next' = next + 1
    BY <1>11 DEF AnswerUnrun, Answer, InOrder
  <2>6. UNCHANGED <<calls, interrupt, batchVars>> /\ phase' \in {phase, "loop"}
    BY <1>11 DEF AnswerUnrun
  <2>. QED
    BY <2>2, <2>3, <2>4, <2>5, <2>6
<1>12. CASE EndRound
  BY <1>12 DEF EndRound
<1>13. CASE NewRound
  <2>1. NoResults \in [1..MaxCalls -> ResultType]
    BY DEF NoResults
  <2>2. <<>> \in Seq(ResultType) /\ Len(<<>>) = 0
    OBVIOUS
  <2>3. started = {} /\ ended = {}
    BY <1>13 DEF NewRound, Stretch, Busy
  <2>4. calls' \in Rounds /\ Len(calls') \in 1..MaxCalls
    BY <1>13, RoundShape DEF NewRound
  <2>5. [i \in 1..MaxCalls |-> 0] \in [1..MaxCalls -> Nat]
    OBVIOUS
  <2>6. /\ calls' \in Rounds /\ next' \in 1..Len(calls') + 1 /\ end' \in 1..Len(calls') + 1
        /\ waiting' \in 1..end' /\ started' \subseteq 1..waiting' - 1
        /\ ended' \subseteq 1..waiting' - 1
    BY <1>13, <2>3, <2>4 DEF NewRound
  <2>7. Len(answers') = next' - 1 /\ answers' \in Seq(ResultType)
    BY <1>13, <2>2 DEF NewRound
  <2>8. /\ phase' \in {"loop", "spawn", "join", "check", "call", "unrun", "done"}
        /\ interrupt' \in BOOLEAN /\ world' \in Nat
        /\ ready' \in [1..MaxCalls -> ResultType] /\ slots' \in [1..MaxCalls -> ResultType]
        /\ reported' \in [1..MaxCalls -> Nat]
    BY <1>13, <2>1, <2>5 DEF NewRound
  <2>. QED
    BY <2>6, <2>7, <2>8
<1>14. CASE Interrupt
  BY <1>14 DEF Interrupt
<1>15. ASSUME NEW i \in 1..MaxCalls, JobEnds(i) PROVE TypeOK'
  <2>1. world' \in Nat /\ reported' \in [1..MaxCalls -> Nat]
    BY <1>15, Counts DEF JobEnds
  <2>2. slots' \in [1..MaxCalls -> ResultType]
    BY <1>15 DEF JobEnds
  <2>. QED
    BY <1>15, <2>1, <2>2 DEF JobEnds
<1>16. ASSUME NEW i \in 1..MaxCalls, JobPanics(i) PROVE TypeOK'
  BY <1>16 DEF JobPanics
<1>17. CASE UNCHANGED vars
  BY <1>17 DEF vars
<1>. QED
  BY <1>1, <1>2, <1>3, <1>4, <1>5, <1>6, <1>7, <1>8, <1>9, <1>10, <1>11, <1>12, <1>13, <1>14, <1>15, <1>16, <1>17 DEF Next, LoopStep, JobStep

(* What the type says of the indices, in the form the steps need. *)
LEMMA Indices ==
  ASSUME TypeOK
  PROVE  /\ Len(calls) \in 1..MaxCalls /\ calls \in [1..Len(calls) -> {"read", "edit"}]
         /\ next \in Nat /\ end \in Nat /\ waiting \in Nat /\ MaxCalls \in Nat
         /\ next <= Len(calls) + 1 /\ waiting <= end /\ end <= Len(calls) + 1
         /\ 1 <= next /\ 1 <= waiting
         /\ Ran(world) \in ResultType /\ Ran(world) # Skipped /\ Ran(world) # Nothing
         /\ Failed # Skipped /\ Failed # Nothing /\ Skipped # Nothing /\ Ran(world) # Failed
         /\ Ran(world).how = "ran" /\ Failed.how # "ran" /\ Nothing.how # "ran"
BY BatchAssumption, RoundShape, Results DEF TypeOK

(* A job is a read of the stretch under way. *)
LEMMA JobsAreReads ==
  ASSUME TypeOK, Stretch, NEW i \in started
  PROVE  Busy /\ i \in next..waiting - 1 /\ i < end /\ calls[i] = "read"
BY Indices DEF Stretch

(* A job leaves the files as they are. *)
LEMMA JobsKeepFiles ==
  ASSUME TypeOK, Stretch, NEW i \in started, Execute(i)
  PROVE  world' = world
BY JobsAreReads DEF Execute

(* With nothing ready for this call, nothing is ready for a later one. *)
LEMMA NothingAhead ==
  ASSUME TypeOK, Ahead, next <= Len(calls), ready[next] = Nothing
  PROVE  \A j \in next..MaxCalls : ready[j] = Nothing
BY Indices DEF Ahead

(* The JoinSet is finite, and an empty one holds no job. *)
LEMMA JobSets ==
  ASSUME TypeOK
  PROVE  /\ IsFiniteSet(started) /\ IsFiniteSet(ended)
         /\ Cardinality(started) \in Nat /\ Cardinality(ended) \in Nat
         /\ Drained => started = {} /\ ended = {}
<1>1. IsFiniteSet(1..waiting - 1)
  BY Indices, FS_Interval
<1>2. IsFiniteSet(started) /\ IsFiniteSet(ended)
  BY <1>1, FS_Subset DEF TypeOK
<1>. QED
  BY <1>2, FS_CardinalityType, FS_EmptySet DEF Drained, InSet

(* A step that adds no result keeps the round paused or not. *)
LEMMA SamePause ==
  ASSUME answers' = answers
  PROVE  Sequential!Paused' <=> Sequential!Paused
BY DEF Sequential!Paused

(* Jobs belong to the stretch that is run ahead, and it is made of reads. *)
LEMMA StretchStep == IInv /\ [Next]_vars => Stretch'
<1>. SUFFICES ASSUME IInv, [Next]_vars PROVE Stretch'
  OBVIOUS
<1>. USE Indices DEF IInv, Stretch, Busy, batchVars
<1>1. CASE RunAhead
  <2>1. end' \in next + 2..Len(calls) + 1 /\ \A j \in next..end' - 1 : calls[j] = "read"
    BY <1>1 DEF RunAhead, RunEnds, EndsRun
  <2>2. \A j \in next..MaxCalls : ready[j] = Nothing
    BY <1>1, NothingAhead DEF RunAhead
  <2>3. \A j \in 1..MaxCalls : slots'[j] = Nothing
    BY <1>1 DEF RunAhead, NoResults
  <2>4. started' = {} /\ ended' = {}
    BY <1>1 DEF RunAhead
  <2>5. UNCHANGED <<next, calls, ready>> /\ waiting' = next /\ next <= Len(calls)
    BY <1>1 DEF RunAhead
  <2>6. next \in Nat /\ next..next - 1 = {}
    OBVIOUS
  <2>7. \A j \in next'..end' - 1 : calls'[j] = "read"
    BY <2>1, <2>5
  <2>8. \A j \in next'..MaxCalls : ready'[j] = Nothing
    BY <2>2, <2>5
  <2>9. next'..waiting' - 1 = {} /\ next' <= waiting' /\ next' <= Len(calls')
    BY <2>5, <2>6
  <2>. HIDE DEF IInv, Stretch
  <2>. QED
    BY <2>3, <2>4, <2>7, <2>8, <2>9 DEF Stretch
<1>2. CASE NoRunAhead
  BY <1>2 DEF NoRunAhead
<1>3. CASE SpawnJob
  <2>1. waiting < end /\ waiting \in 1..MaxCalls /\ slots[waiting] = Nothing
    BY <1>3 DEF SpawnJob, MayStart
  <2>. QED
    BY <1>3, <2>1 DEF SpawnJob
<1>4. CASE WaitForJob
  BY <1>4 DEF WaitForJob
<1>5. CASE JoinJob
  BY <1>5 DEF JoinJob
<1>6. CASE Return
  <2>1. started = {} /\ ended = {}
    BY <1>6, JobSets DEF Return
  <2>. QED
    BY <1>6, <2>1 DEF Return
<1>7. CASE SeePause
  BY <1>7 DEF SeePause
<1>8. CASE TakeReady
  BY <1>8 DEF TakeReady, Answer
<1>9. CASE StartCall
  BY <1>9 DEF StartCall
<1>10. CASE EndCall
  BY <1>10 DEF EndCall, Answer
<1>11. CASE AnswerUnrun
  BY <1>11 DEF AnswerUnrun, Answer
<1>12. CASE EndRound
  BY <1>12 DEF EndRound
<1>13. CASE NewRound
  BY <1>13 DEF NewRound
<1>14. CASE Interrupt
  BY <1>14 DEF Interrupt
<1>15. ASSUME NEW i \in 1..MaxCalls, JobEnds(i) PROVE Stretch'
  <2>1. world' = world
    BY <1>15, JobsKeepFiles DEF JobEnds
  <2>2. i \in next..waiting - 1 /\ Busy /\ slots \in [1..MaxCalls -> ResultType]
    BY <1>15 DEF JobEnds, TypeOK
  <2>. QED
    BY <1>15, <2>1, <2>2 DEF JobEnds
<1>16. ASSUME NEW i \in 1..MaxCalls, JobPanics(i) PROVE Stretch'
  <2>2. i \in next..waiting - 1 /\ Busy /\ slots \in [1..MaxCalls -> ResultType]
    BY <1>16 DEF JobPanics, TypeOK
  <2>. QED
    BY <1>16, <2>2 DEF JobPanics
<1>17. CASE UNCHANGED vars
  BY <1>17 DEF vars
<1>. QED
  BY <1>1, <1>2, <1>3, <1>4, <1>5, <1>6, <1>7, <1>8, <1>9, <1>10, <1>11, <1>12, <1>13, <1>14, <1>15, <1>16, <1>17 DEF Next, LoopStep, JobStep

(* What is ready was read from the files as they still are. *)
LEMMA AheadStep == IInv /\ [Next]_vars => Ahead'
<1>. SUFFICES ASSUME IInv, [Next]_vars PROVE Ahead'
  OBVIOUS
<1>. USE Indices DEF IInv, Ahead, batchVars
<1>1. CASE RunAhead
  BY <1>1 DEF RunAhead
<1>2. CASE NoRunAhead
  BY <1>2 DEF NoRunAhead
<1>3. CASE SpawnJob
  BY <1>3 DEF SpawnJob
<1>4. CASE WaitForJob
  BY <1>4 DEF WaitForJob
<1>5. CASE JoinJob
  BY <1>5 DEF JoinJob
<1>6. CASE Return
  <2>1. started = {}
    BY <1>6, JobSets DEF Return
  <2>2. \A j \in next..MaxCalls : ready[j] = Nothing
    BY <1>6 DEF Return, Stretch, Busy
  <2>3. \A j \in next..end - 1 : calls[j] = "read"
    BY <1>6 DEF Return, Stretch, Busy
  <2>4. \A j \in next..waiting - 1 : slots[j] \in {Ran(world), Failed}
    BY <1>6, <2>1 DEF Return, Stretch, Busy
  <2>5. \A j \in waiting..MaxCalls : slots[j] = Nothing
    BY <1>6 DEF Return, Stretch, Busy
  <2>6. \A j \in next..MaxCalls : ready'[j] = IF j < waiting THEN slots[j] ELSE Nothing
    BY <1>6, <2>2, <2>5 DEF Return
  <2>7. UNCHANGED <<next, calls, world>>
    BY <1>6 DEF Return
  <2>8. \A j \in next..MaxCalls : ready'[j] # Nothing =>
           j < waiting /\ j \in next..end - 1 /\ ready'[j] \in {Ran(world), Failed}
    BY <2>4, <2>6
  <2>9. \A j \in next..MaxCalls : j < waiting => ready'[j] # Nothing
    BY <2>4, <2>6
  <2>10. \A j \in next..end - 1 : j <= Len(calls)
    OBVIOUS
  <2>11. \A j \in next..MaxCalls : \A k \in next..j : j < waiting => k \in next..MaxCalls /\ k < waiting
    OBVIOUS
  <2>. QED
    BY <2>3, <2>7, <2>8, <2>9, <2>10, <2>11
<1>7. CASE SeePause
  BY <1>7 DEF SeePause
<1>8. CASE TakeReady
  <2>1. \A j \in 1..MaxCalls : j # next => ready'[j] = ready[j]
    BY <1>8 DEF TakeReady, Answer, TypeOK
  <2>2. next' = next + 1 /\ UNCHANGED <<calls, world>>
    BY <1>8 DEF TakeReady, Answer
  <2>. QED
    BY <2>1, <2>2
<1>9. CASE StartCall
  BY <1>9 DEF StartCall
<1>10. CASE EndCall
  <2>1. \A j \in next..MaxCalls : ready[j] = Nothing
    BY <1>10, NothingAhead DEF EndCall, InOrder
  <2>2. \A j \in 1..MaxCalls : j # next => ready'[j] = ready[j]
    BY <1>10 DEF EndCall, Answer, TypeOK
  <2>3. next' = next + 1
    BY <1>10 DEF EndCall, Answer
  <2>. QED
    BY <2>1, <2>2, <2>3
<1>11. CASE AnswerUnrun
  <2>1. \A j \in 1..MaxCalls : j # next => ready'[j] = ready[j]
    BY <1>11 DEF AnswerUnrun, Answer, TypeOK
  <2>2. next' = next + 1 /\ UNCHANGED <<calls, world>>
    BY <1>11 DEF AnswerUnrun, Answer
  <2>. QED
    BY <2>1, <2>2
<1>12. CASE EndRound
  BY <1>12 DEF EndRound
<1>13. CASE NewRound
  <2>1. \A j \in 1..MaxCalls : ready'[j] = Nothing
    BY <1>13 DEF NewRound, NoResults
  <2>2. next' = 1
    BY <1>13 DEF NewRound
  <2>. QED
    BY <2>1, <2>2
<1>14. CASE Interrupt
  BY <1>14 DEF Interrupt
<1>15. ASSUME NEW i \in 1..MaxCalls, JobEnds(i) PROVE Ahead'
  BY <1>15, JobsKeepFiles DEF JobEnds
<1>16. ASSUME NEW i \in 1..MaxCalls, JobPanics(i) PROVE Ahead'
  BY <1>16 DEF JobPanics
<1>17. CASE UNCHANGED vars
  BY <1>17 DEF vars
<1>. QED
  BY <1>1, <1>2, <1>3, <1>4, <1>5, <1>6, <1>7, <1>8, <1>9, <1>10, <1>11, <1>12, <1>13, <1>14, <1>15, <1>16, <1>17 DEF Next, LoopStep, JobStep

(* Answers come in order, and none runs after one that was skipped. *)
LEMMA InOrderStep == IInv /\ [Next]_vars => InOrder'
<1>. SUFFICES ASSUME IInv, [Next]_vars PROVE InOrder'
  OBVIOUS
<1>. USE Indices, SamePause DEF IInv, InOrder, batchVars
<1>1. CASE RunAhead
  BY <1>1 DEF RunAhead
<1>2. CASE NoRunAhead
  BY <1>2 DEF NoRunAhead
<1>3. CASE SpawnJob
  BY <1>3 DEF SpawnJob
<1>4. CASE WaitForJob
  BY <1>4 DEF WaitForJob
<1>5. CASE JoinJob
  BY <1>5 DEF JoinJob
<1>6. CASE Return
  BY <1>6 DEF Return, Stretch, Busy
<1>7. CASE SeePause
  BY <1>7 DEF SeePause
<1>8. CASE TakeReady
  <2>1. answers \in Seq(ResultType) /\ ready \in [1..MaxCalls -> ResultType]
    BY DEF TypeOK
  <2>2. ~Sequential!Paused
    BY <1>8 DEF TakeReady
  <2>3. \E r \in ResultType \ {Skipped} : answers' = Append(answers, r)
    BY <1>8, <2>1 DEF TakeReady, Answer, Ahead
  <2>4. ~Sequential!Paused'
    BY <2>1, <2>2, <2>3, AppendPauses
  <2>. QED
    BY <1>8, <2>4 DEF TakeReady
<1>9. CASE StartCall
  BY <1>9 DEF StartCall
<1>10. CASE EndCall
  <2>1. answers \in Seq(ResultType) /\ ready \in [1..MaxCalls -> ResultType]
    BY DEF TypeOK
  <2>2. ~Sequential!Paused
    BY <1>10 DEF EndCall
  <2>3. \E r \in ResultType \ {Skipped} : answers' = Append(answers, r)
    BY <1>10, Results DEF EndCall, Answer, TypeOK
  <2>4. ~Sequential!Paused'
    BY <2>1, <2>2, <2>3, AppendPauses
  <2>. QED
    BY <1>10, <2>4 DEF EndCall
<1>11. CASE AnswerUnrun
  <2>1. answers \in Seq(ResultType) /\ ready \in [1..MaxCalls -> ResultType]
    BY DEF TypeOK
  <2>2. next' = next + 1 /\ phase' = "unrun"
    BY <1>11 DEF AnswerUnrun, Answer
  <2>3. \A j \in 1..MaxCalls : j # next => ready'[j] = ready[j]
    BY <1>11, <2>1 DEF AnswerUnrun, Answer
  <2>4. CASE ready[next] # Nothing
    <3>1. ~Sequential!Paused
      BY <1>11, <2>4 DEF AnswerUnrun
    <3>2. \E r \in ResultType \ {Skipped} : answers' = Append(answers, r)
      BY <1>11, <2>1, <2>4 DEF AnswerUnrun, Answer, Ahead
    <3>3. ~Sequential!Paused'
      BY <2>1, <3>1, <3>2, AppendPauses
    <3>. QED
      BY <2>2, <3>3
  <2>5. CASE ready[next] = Nothing
    <3>1. \A j \in next..MaxCalls : ready[j] = Nothing
      BY <1>11, <2>5, NothingAhead DEF AnswerUnrun
    <3>. QED
      BY <2>2, <2>3, <3>1
  <2>. QED
    BY <2>4, <2>5
<1>12. CASE EndRound
  BY <1>12 DEF EndRound
<1>13. CASE NewRound
  <2>1. ~Sequential!Paused'
    BY <1>13 DEF NewRound, Sequential!Paused
  <2>. QED
    BY <1>13, <2>1 DEF NewRound
<1>14. CASE Interrupt
  BY <1>14 DEF Interrupt
<1>15. ASSUME NEW i \in 1..MaxCalls, JobEnds(i) PROVE InOrder'
  BY <1>15 DEF JobEnds
<1>16. ASSUME NEW i \in 1..MaxCalls, JobPanics(i) PROVE InOrder'
  BY <1>16 DEF JobPanics
<1>17. CASE UNCHANGED vars
  BY <1>17 DEF vars
<1>. QED
  BY <1>1, <1>2, <1>3, <1>4, <1>5, <1>6, <1>7, <1>8, <1>9, <1>10, <1>11, <1>12, <1>13, <1>14, <1>15, <1>16, <1>17 DEF Next, LoopStep, JobStep

(* A result is reported when it is told, and never again. *)
LEMMA ReportsStep == IInv /\ Reports /\ [Next]_vars => Reports'
<1>. SUFFICES ASSUME IInv, Reports, [Next]_vars PROVE Reports'
  OBVIOUS
<1>. USE Indices DEF IInv, Reports, Told, Busy, batchVars
<1>1. CASE RunAhead
  <2>1. \A j \in 1..MaxCalls : slots'[j].how # "ran"
    BY <1>1 DEF RunAhead, NoResults
  <2>. QED
    BY <1>1, <2>1 DEF RunAhead
<1>2. CASE NoRunAhead
  BY <1>2 DEF NoRunAhead
<1>3. CASE SpawnJob
  BY <1>3 DEF SpawnJob
<1>4. CASE WaitForJob
  BY <1>4 DEF WaitForJob
<1>5. CASE JoinJob
  BY <1>5 DEF JoinJob
<1>6. CASE Return
  <2>1. started = {}
    BY <1>6, JobSets DEF Return
  <2>2. /\ \A j \in next..MaxCalls : ready[j] = Nothing
        /\ \A j \in next..waiting - 1 : slots[j] \in {Ran(world), Failed}
        /\ \A j \in 1..MaxCalls : j < next \/ j >= waiting => slots[j] = Nothing
    BY <1>6, <2>1 DEF Return, Stretch
  <2>3. \A j \in 1..MaxCalls :
          /\ j \in next..end - 1 => ready'[j] = slots[j]
          /\ j \notin next..end - 1 => ready'[j] = ready[j]
          /\ reported'[j] = IF j \in next..end - 1 /\ slots[j] = Failed
                            THEN reported[j] + 1 ELSE reported[j]
    BY <1>6 DEF Return
  <2>4. next' = next /\ phase' = "check" /\ phase = "join"
    BY <1>6 DEF Return
  <2>. QED
    BY <2>2, <2>3, <2>4
<1>7. CASE SeePause
  BY <1>7 DEF SeePause
<1>8. CASE TakeReady
  <2>1. next' = next + 1 /\ reported' = reported /\ phase' = "loop" /\ phase = "check"
    BY <1>8 DEF TakeReady, Answer
  <2>2. \A j \in 1..MaxCalls : j # next => ready'[j] = ready[j]
    BY <1>8 DEF TakeReady, Answer, TypeOK
  <2>. QED
    BY <1>8, <2>1, <2>2 DEF TakeReady
<1>9. CASE StartCall
  BY <1>9 DEF StartCall
<1>10. CASE EndCall
  <2>1. next' = next + 1 /\ phase' = "loop" /\ phase = "call" /\ ready[next] = Nothing
    BY <1>10 DEF EndCall, Answer, InOrder
  <2>2. \A j \in 1..MaxCalls : j # next => ready'[j] = ready[j] /\ reported'[j] = reported[j]
    BY <1>10 DEF EndCall, Answer, Report, TypeOK
  <2>3. next \in 1..MaxCalls => reported'[next] = reported[next] + 1
    BY <1>10 DEF EndCall, Report, TypeOK
  <2>. QED
    BY <2>1, <2>2, <2>3
<1>11. CASE AnswerUnrun
  <2>1. next' = next + 1 /\ phase' = "unrun" /\ phase = "unrun" /\ next \in 1..MaxCalls
    BY <1>11 DEF AnswerUnrun, Answer
  <2>2. \A j \in 1..MaxCalls : j # next => ready'[j] = ready[j] /\ reported'[j] = reported[j]
    BY <1>11 DEF AnswerUnrun, Answer, Report, TypeOK
  <2>3. reported'[next] = IF ready[next] = Nothing THEN reported[next] + 1 ELSE reported[next]
    BY <1>11, <2>1 DEF AnswerUnrun, Report, TypeOK
  <2>. QED
    BY <2>1, <2>2, <2>3
<1>12. CASE EndRound
  BY <1>12 DEF EndRound
<1>13. CASE NewRound
  <2>1. \A j \in 1..MaxCalls : ready'[j] = Nothing /\ reported'[j] = 0
    BY <1>13 DEF NewRound, NoResults
  <2>. QED
    BY <1>13, <2>1 DEF NewRound
<1>14. CASE Interrupt
  BY <1>14 DEF Interrupt
<1>15. ASSUME NEW i \in 1..MaxCalls, JobEnds(i) PROVE Reports'
  <2>1. i \in next..waiting - 1 /\ ready[i] = Nothing /\ slots[i] = Nothing /\ Busy
    BY <1>15 DEF JobEnds, Stretch
  <2>2. \A j \in 1..MaxCalls : j # i => slots'[j] = slots[j] /\ reported'[j] = reported[j]
    BY <1>15 DEF JobEnds, Report, TypeOK
  <2>3. slots'[i] = Ran(world) /\ reported'[i] = reported[i] + 1
    BY <1>15 DEF JobEnds, Report, TypeOK
  <2>. QED
    BY <1>15, <2>1, <2>2, <2>3 DEF JobEnds
<1>16. ASSUME NEW i \in 1..MaxCalls, JobPanics(i) PROVE Reports'
  <2>1. i \in next..waiting - 1 /\ ready[i] = Nothing /\ slots[i] = Nothing /\ Busy
    BY <1>16 DEF JobPanics, Stretch
  <2>2. \A j \in 1..MaxCalls : j # i => slots'[j] = slots[j]
    BY <1>16 DEF JobPanics, TypeOK
  <2>3. slots'[i] = Failed
    BY <1>16 DEF JobPanics, TypeOK
  <2>. QED
    BY <1>16, <2>1, <2>2, <2>3 DEF JobPanics
<1>17. CASE UNCHANGED vars
  BY <1>17 DEF vars
<1>. QED
  BY <1>1, <1>2, <1>3, <1>4, <1>5, <1>6, <1>7, <1>8, <1>9, <1>10, <1>11, <1>12, <1>13, <1>14, <1>15, <1>16, <1>17 DEF Next, LoopStep, JobStep

(* One more element makes a finite set at most one larger. *)
LEMMA OneMore ==
  ASSUME NEW S, IsFiniteSet(S), NEW x
  PROVE  Cardinality(S \cup {x}) \in Nat /\ Cardinality(S \cup {x}) <= Cardinality(S) + 1
<1>1. Cardinality(S) \in Nat
  BY FS_CardinalityType
<1>2. CASE x \in S
  BY <1>1, <1>2, FS_AddElement
<1>3. CASE x \notin S
  BY <1>1, <1>3, FS_AddElement
<1>. QED
  BY <1>2, <1>3

(* The JoinSet never holds more jobs than the limit. *)
LEMMA BoundStep ==
  IInv /\ InSet <= MaxConcurrent /\ [Next]_vars => (InSet <= MaxConcurrent)'
<1>. SUFFICES ASSUME IInv, InSet <= MaxConcurrent, [Next]_vars PROVE (InSet <= MaxConcurrent)'
  OBVIOUS
<1>. USE JobSets, BatchAssumption DEF IInv, InSet, batchVars
<1>1. CASE RunAhead
  BY <1>1 DEF RunAhead
<1>2. CASE NoRunAhead
  BY <1>2 DEF NoRunAhead
<1>3. CASE SpawnJob
  <2>1. started' = started \cup {waiting} /\ ended' = ended
    BY <1>3 DEF SpawnJob
  <2>2. Cardinality(started') <= Cardinality(started) + 1
    BY <2>1, OneMore
  <2>3. Cardinality(started') \in Nat
    BY <2>1, OneMore
  <2>. QED
    BY <1>3, <2>1, <2>2, <2>3 DEF SpawnJob, MayStart, RoomInSet
<1>4. CASE WaitForJob
  BY <1>4 DEF WaitForJob
<1>5. CASE JoinJob
  <2>1. PICK i \in ended : ended' = ended \ {i}
    BY <1>5 DEF JoinJob
  <2>2. Cardinality(ended') = Cardinality(ended) - 1
    BY <2>1, FS_RemoveElement
  <2>. QED
    BY <1>5, <2>2 DEF JoinJob
<1>6. CASE Return
  BY <1>6 DEF Return
<1>7. CASE SeePause
  BY <1>7 DEF SeePause
<1>8. CASE TakeReady
  BY <1>8 DEF TakeReady
<1>9. CASE StartCall
  BY <1>9 DEF StartCall
<1>10. CASE EndCall
  BY <1>10 DEF EndCall
<1>11. CASE AnswerUnrun
  BY <1>11 DEF AnswerUnrun
<1>12. CASE EndRound
  BY <1>12 DEF EndRound
<1>13. CASE NewRound
  BY <1>13 DEF NewRound
<1>14. CASE Interrupt
  BY <1>14 DEF Interrupt
<1>15. ASSUME NEW i \in 1..MaxCalls, JobEnds(i) PROVE (InSet <= MaxConcurrent)'
  <2>1. Cardinality(started') = Cardinality(started) - 1
    BY <1>15, FS_RemoveElement DEF JobEnds
  <2>2. Cardinality(ended') \in Nat /\ Cardinality(ended') <= Cardinality(ended) + 1
    BY <1>15, OneMore DEF JobEnds
  <2>. QED
    BY <2>1, <2>2
<1>16. ASSUME NEW i \in 1..MaxCalls, JobPanics(i) PROVE (InSet <= MaxConcurrent)'
  <2>1. Cardinality(started') = Cardinality(started) - 1
    BY <1>16, FS_RemoveElement DEF JobPanics
  <2>2. Cardinality(ended') \in Nat /\ Cardinality(ended') <= Cardinality(ended) + 1
    BY <1>16, OneMore DEF JobPanics
  <2>. QED
    BY <2>1, <2>2
<1>17. CASE UNCHANGED vars
  BY <1>17 DEF vars
<1>. QED
  BY <1>1, <1>2, <1>3, <1>4, <1>5, <1>6, <1>7, <1>8, <1>9, <1>10, <1>11, <1>12, <1>13, <1>14, <1>15, <1>16, <1>17 DEF Next, LoopStep, JobStep

-----------------------------------------------------------------------------
(* Everything the invariants need holds in every reachable state. *)
THEOREM Invariant == Spec => [](IInv /\ Reports /\ InSet <= MaxConcurrent)
<1>1. Init => IInv /\ Reports /\ InSet <= MaxConcurrent
  BY InitIInv, FS_EmptySet, BatchAssumption DEF Init, InSet
<1>2. /\ IInv /\ Reports /\ InSet <= MaxConcurrent
      /\ [Next]_vars
      => (IInv /\ Reports /\ InSet <= MaxConcurrent)'
  BY TypeStep, StretchStep, AheadStep, InOrderStep, ReportsStep, BoundStep DEF IInv
<1>. QED
  BY <1>1, <1>2, PTL DEF Spec

(* Indices, results and job sets keep their types, and one answer is pushed *)
(* for each call the loop has passed (run_loop.rs's tool_result_blocks).     *)
THEOREM TypeCorrect == Spec => []TypeOK
<1>1. IInv => TypeOK
  BY DEF IInv
<1>. QED
  BY <1>1, Invariant, PTL

(* Every call is reported to the user exactly once by the end of its round, *)
(* whichever path answered it: ahead, in order, panicked or kept from running *)
(* (run_ahead's dead slots, answer_unrun).                                    *)
THEOREM AnsweredOnce == Spec => []OneResultEach
<1>1. ASSUME IInv, Reports PROVE OneResultEach
  <2>1. \A i \in 1..MaxCalls : reported[i] <= 1
    BY <1>1 DEF Reports
  <2>2. ASSUME phase = "done", NEW i \in 1..Len(calls) PROVE reported[i] = 1
    <3>1. i \in 1..MaxCalls /\ i < next
      BY <1>1, <2>2, Indices DEF IInv, InOrder
    <3>. QED
      BY <1>1, <3>1 DEF Reports, Told
  <2>. QED
    BY <2>1, <2>2 DEF OneResultEach
<1>. QED
  BY <1>1, Invariant, PTL

(* run_bounded never has more than MaxConcurrent jobs, none of them an edit, *)
(* and none is left when run_ahead returns, paused or not.                    *)
THEOREM JobsContained == Spec => []JobsStayInTheirRun
<1>1. ASSUME IInv, InSet <= MaxConcurrent PROVE JobsStayInTheirRun
  BY <1>1, JobsAreReads DEF IInv, Stretch, Busy, JobsStayInTheirRun
<1>. QED
  BY <1>1, Invariant, PTL

-----------------------------------------------------------------------------
(* A call answered by the loop is the next call of the sequential round. *)
LEMMA AnswersNext ==
  ASSUME TypeOK, NEW r, Answer(r), next <= Len(calls), calls' = calls,
         ~Sequential!Paused, r \in {Ran(world), Failed},
         world' = world \/ (calls[next] = "edit" /\ world' = world + 1)
  PROVE  Sequential!Run
<1>1. Len(answers) + 1 = next /\ Len(answers) < Len(calls)
  BY Indices DEF TypeOK
<1>2. answers' = Append(answers, r)
  BY DEF Answer
<1>. QED
  BY <1>1, <1>2 DEF Sequential!Run, Ran, Failed

(* Each step is a step of the sequential round, or changes none of it. *)
LEMMA StepIsSequential ==
  IInv /\ [Next]_vars => [Sequential!Next]_Sequential!roundVars
<1>. SUFFICES ASSUME IInv, [Next]_vars PROVE [Sequential!Next]_(Sequential!roundVars)
  OBVIOUS
<1>. USE DEF IInv, Sequential!roundVars, batchVars
<1>1. CASE RunAhead
  BY <1>1 DEF RunAhead
<1>2. CASE NoRunAhead
  BY <1>2 DEF NoRunAhead
<1>3. CASE SpawnJob
  BY <1>3 DEF SpawnJob
<1>4. CASE WaitForJob
  BY <1>4 DEF WaitForJob
<1>5. CASE JoinJob
  BY <1>5 DEF JoinJob
<1>6. CASE Return
  BY <1>6 DEF Return
<1>7. CASE SeePause
  BY <1>7 DEF SeePause
<1>8. CASE TakeReady
  <2>1. next <= Len(calls) /\ ~Sequential!Paused
    BY <1>8 DEF TakeReady, InOrder
  <2>2. ready[next] \in {Ran(world), Failed}
    BY <1>8, <2>1, Indices DEF TakeReady, Ahead
  <2>3. Answer(ready[next]) /\ calls' = calls /\ world' = world
    BY <1>8 DEF TakeReady
  <2>4. Sequential!Run
    BY <2>1, <2>2, <2>3, AnswersNext
  <2>. QED
    BY <2>4 DEF Sequential!Next
<1>9. CASE StartCall
  BY <1>9 DEF StartCall
<1>10. CASE EndCall
  <2>1. next <= Len(calls) /\ ~Sequential!Paused
    BY <1>10 DEF EndCall, InOrder
  <2>2. PICK r \in {Ran(world), Failed} : Answer(r)
    BY <1>10 DEF EndCall
  <2>3. calls' = calls /\ Execute(next)
    BY <1>10 DEF EndCall
  <2>4. Sequential!Run
    BY <2>1, <2>2, <2>3, AnswersNext DEF Execute
  <2>. QED
    BY <2>4 DEF Sequential!Next
<1>11. CASE AnswerUnrun
  <2>1. next <= Len(calls) /\ calls' = calls /\ world' = world
    BY <1>11 DEF AnswerUnrun
  <2>2. CASE ready[next] # Nothing
    <3>1. ~Sequential!Paused
      BY <2>1, <2>2, Indices DEF InOrder
    <3>2. ready[next] \in {Ran(world), Failed}
      BY <2>1, <2>2, Indices DEF Ahead
    <3>3. Sequential!Run
      BY <1>11, <2>1, <2>2, <3>1, <3>2, AnswersNext DEF AnswerUnrun
    <3>. QED
      BY <3>3 DEF Sequential!Next
  <2>3. CASE ready[next] = Nothing
    <3>1. answers' = Append(answers, Sequential!Skipped)
      BY <1>11, <2>3 DEF AnswerUnrun, Answer, Skipped
    <3>2. Len(answers) < Len(calls)
      BY <2>1, Indices DEF TypeOK
    <3>3. Sequential!Skip
      BY <2>1, <3>1, <3>2 DEF Sequential!Skip
    <3>. QED
      BY <3>3 DEF Sequential!Next
  <2>. QED
    BY <2>2, <2>3
<1>12. CASE EndRound
  BY <1>12 DEF EndRound
<1>13. CASE NewRound
  <2>1. Len(answers) = Len(calls)
    BY <1>13, Indices DEF NewRound, InOrder, TypeOK
  <2>2. Sequential!NewRound
    BY <1>13, <2>1 DEF NewRound, Sequential!NewRound
  <2>. QED
    BY <2>2 DEF Sequential!Next
<1>14. CASE Interrupt
  BY <1>14 DEF Interrupt
<1>15. ASSUME NEW i \in 1..MaxCalls, JobEnds(i) PROVE [Sequential!Next]_(Sequential!roundVars)
  <2>1. world' = world
    BY <1>15, JobsKeepFiles DEF JobEnds
  <2>. QED
    BY <1>15, <2>1 DEF JobEnds
<1>16. ASSUME NEW i \in 1..MaxCalls, JobPanics(i) PROVE [Sequential!Next]_(Sequential!roundVars)
  BY <1>16 DEF JobPanics
<1>17. CASE UNCHANGED vars
  BY <1>17 DEF vars
<1>. QED
  BY <1>1, <1>2, <1>3, <1>4, <1>5, <1>6, <1>7, <1>8, <1>9, <1>10, <1>11, <1>12, <1>13, <1>14, <1>15, <1>16, <1>17 DEF Next, LoopStep, JobStep

(* "so the transcript cannot tell the difference": a round run in stretches *)
(* implements the round run one call at a time.                              *)
THEOREM Implements == Spec => LooksSequential
<1>1. Init => Sequential!Init
  BY DEF Init, Sequential!Init
<1>. QED
  BY <1>1, Invariant, StepIsSequential, PTL DEF Spec, LooksSequential, Sequential!Spec

-----------------------------------------------------------------------------
(* How much of a round is left: calls, the stage of the call the loop is at, *)
(* and the work of its stretch.  A job weighs less started than waiting, and *)
(* less ended than started; the driver's two stages take turns.              *)
CallsLeft == Len(calls) + 1 - next

StageLeft == CASE phase = "loop" -> 4
               [] phase \in {"spawn", "join"} -> 3
               [] phase = "check" -> 2
               [] phase \in {"call", "unrun"} -> 1
               [] OTHER -> 0

TurnLeft == IF phase = "spawn" THEN 1 ELSE 0

JobsLeft == 4 * (end - waiting) + 3 * Cardinality(started) + 2 * Cardinality(ended) + TurnLeft

LessIsLeft ==
  \/ CallsLeft' < CallsLeft
  \/ CallsLeft' = CallsLeft /\ StageLeft' < StageLeft
  \/ CallsLeft' = CallsLeft /\ StageLeft' = StageLeft /\ JobsLeft' < JobsLeft

AsMuchIsLeft == CallsLeft' = CallsLeft /\ StageLeft' = StageLeft /\ JobsLeft' = JobsLeft

Counted == CallsLeft \in Nat /\ StageLeft \in Nat /\ JobsLeft \in Nat

WindsDown == \/ LessIsLeft
             \/ interrupt' # interrupt /\ AsMuchIsLeft
             \/ NewRound

(* What is left is a number. *)
LEMMA LeftIsCounted == ASSUME TypeOK PROVE Counted
<1>1. CallsLeft \in Nat /\ StageLeft \in Nat
  BY Indices DEF CallsLeft, StageLeft, TypeOK
<1>2. end - waiting \in Nat /\ TurnLeft \in Nat
  BY Indices DEF TurnLeft
<1>. QED
  BY <1>1, <1>2, JobSets DEF Counted, JobsLeft

(* A call that is answered is one fewer, whatever the stage. *)
LEMMA AnsweringCounts ==
  ASSUME TypeOK, NEW r, Answer(r), calls' = calls
  PROVE  LessIsLeft
BY Indices DEF Answer, CallsLeft, LessIsLeft

(* Starting a job, and ending one, lowers the weight of the stretch. *)
LEMMA Weights ==
  ASSUME NEW w \in Nat, NEW s \in Nat, NEW e \in Nat, NEW t \in Nat, NEW n \in Nat
  PROVE  /\ n <= s + 1 => 4 * (w - 1) + 3 * n + 2 * e + t < 4 * w + 3 * s + 2 * e + t
         /\ n <= e + 1 => 4 * w + 3 * (s - 1) + 2 * n + t < 4 * w + 3 * s + 2 * e + t
OBVIOUS

(* A job that is started leaves less of the stretch. *)
LEMMA SpawningCounts ==
  ASSUME TypeOK, SpawnJob
  PROVE  LessIsLeft
<1>1. /\ started' = started \cup {waiting} /\ waiting' = waiting + 1 /\ phase = "spawn"
      /\ waiting < end /\ UNCHANGED <<calls, next, phase, end, ended>>
  BY DEF SpawnJob, MayStart
<1>2. Cardinality(started') \in Nat /\ Cardinality(started') <= Cardinality(started) + 1
  BY <1>1, JobSets, OneMore
<1>3. end - waiting \in Nat /\ (end - waiting)' = (end - waiting) - 1
  BY <1>1, Indices
<1>4. JobsLeft' = 4 * ((end - waiting) - 1) + 3 * Cardinality(started') + 2 * Cardinality(ended) + 1
  BY <1>1, <1>3 DEF JobsLeft, TurnLeft
<1>5. JobsLeft = 4 * (end - waiting) + 3 * Cardinality(started) + 2 * Cardinality(ended) + 1
  BY <1>1 DEF JobsLeft, TurnLeft
<1>6. JobsLeft' < JobsLeft
  <2>1. Cardinality(started) \in Nat /\ Cardinality(ended) \in Nat /\ 1 \in Nat
    BY JobSets
  <2>. QED
    BY <1>2, <1>3, <1>4, <1>5, <2>1, Weights
<1>. QED
  BY <1>1, <1>6 DEF LessIsLeft, CallsLeft, StageLeft

(* So does one that ends or panics. *)
LEMMA EndingCounts ==
  ASSUME TypeOK, NEW i, JobStep(i)
  PROVE  LessIsLeft
<1>1. /\ i \in started /\ started' = started \ {i} /\ ended' = ended \cup {i}
      /\ UNCHANGED <<calls, next, phase, end, waiting>>
  BY DEF JobStep, JobEnds, JobPanics
<1>2. Cardinality(started') = Cardinality(started) - 1
  BY <1>1, JobSets, FS_RemoveElement
<1>3. Cardinality(ended') \in Nat /\ Cardinality(ended') <= Cardinality(ended) + 1
  BY <1>1, JobSets, OneMore
<1>4. end - waiting \in Nat /\ TurnLeft \in Nat
  BY Indices DEF TurnLeft
<1>5. JobsLeft' = 4 * (end - waiting) + 3 * (Cardinality(started) - 1) + 2 * Cardinality(ended') + TurnLeft
  BY <1>1, <1>2 DEF JobsLeft, TurnLeft
<1>6. JobsLeft' < JobsLeft
  <2>1. Cardinality(started) \in Nat /\ Cardinality(ended) \in Nat
    BY JobSets
  <2>2. JobsLeft = 4 * (end - waiting) + 3 * Cardinality(started) + 2 * Cardinality(ended) + TurnLeft
    BY DEF JobsLeft
  <2>. QED
    BY <1>3, <1>4, <1>5, <2>1, <2>2, Weights
<1>. QED
  BY <1>1, <1>6 DEF LessIsLeft, CallsLeft, StageLeft

(* And one that is joined. *)
LEMMA JoiningCounts ==
  ASSUME TypeOK, JoinJob
  PROVE  LessIsLeft
<1>1. PICK i \in ended : ended' = ended \ {i}
  BY DEF JoinJob
<1>2. Cardinality(ended') = Cardinality(ended) - 1
  BY <1>1, JobSets, FS_RemoveElement
<1>3. /\ phase = "join" /\ phase' = "spawn"
      /\ UNCHANGED <<calls, next, end, waiting, started>>
  BY DEF JoinJob
<1>4. Cardinality(started) \in Nat /\ Cardinality(ended) \in Nat /\ end - waiting \in Nat
  BY JobSets, Indices
<1>5. JobsLeft = 4 * (end - waiting) + 3 * Cardinality(started) + 2 * Cardinality(ended) + 0
  BY <1>3 DEF JobsLeft, TurnLeft
<1>6. JobsLeft' = 4 * (end - waiting) + 3 * Cardinality(started) + 2 * (Cardinality(ended) - 1) + 1
  BY <1>2, <1>3 DEF JobsLeft, TurnLeft
<1>7. JobsLeft' < JobsLeft
  BY <1>4, <1>5, <1>6
<1>. QED
  BY <1>3, <1>7 DEF LessIsLeft, CallsLeft, StageLeft

(* Every step of the loop or of a job leaves less, and a pause as much. *)
LEMMA WindingStep ==
  ASSUME IInv, Next
  PROVE  WindsDown
<1>. USE JobSets, Indices DEF IInv, batchVars, CallsLeft, StageLeft, LessIsLeft, WindsDown
<1>1. CASE RunAhead
  BY <1>1 DEF RunAhead
<1>2. CASE NoRunAhead
  BY <1>2 DEF NoRunAhead
<1>3. CASE SpawnJob
  BY <1>3, SpawningCounts
<1>4. CASE WaitForJob
  <2>1. JobsLeft' < JobsLeft
    BY <1>4 DEF WaitForJob, JobsLeft, TurnLeft
  <2>. QED
    BY <1>4, <2>1 DEF WaitForJob
<1>5. CASE JoinJob
  BY <1>5, JoiningCounts
<1>6. CASE Return
  BY <1>6 DEF Return
<1>7. CASE SeePause
  BY <1>7 DEF SeePause
<1>8. CASE TakeReady
  BY <1>8, AnsweringCounts DEF TakeReady
<1>9. CASE StartCall
  BY <1>9 DEF StartCall
<1>10. CASE EndCall
  BY <1>10, AnsweringCounts DEF EndCall
<1>11. CASE AnswerUnrun
  BY <1>11, AnsweringCounts DEF AnswerUnrun
<1>12. CASE EndRound
  BY <1>12 DEF EndRound
<1>13. CASE NewRound
  BY <1>13 DEF NewRound
<1>14. CASE Interrupt
  <2>1. interrupt' # interrupt
    BY <1>14 DEF Interrupt, TypeOK
  <2>2. AsMuchIsLeft
    BY <1>14 DEF Interrupt, AsMuchIsLeft, JobsLeft, TurnLeft
  <2>. QED
    BY <2>1, <2>2
<1>15. ASSUME NEW i \in 1..MaxCalls, JobStep(i) PROVE WindsDown
  BY <1>15, EndingCounts
<1>. QED
  BY <1>1, <1>2, <1>3, <1>4, <1>5, <1>6, <1>7, <1>8, <1>9, <1>10, <1>11, <1>12, <1>13, <1>14, <1>15 DEF Next, LoopStep

(* A round cannot go on for ever, however its calls are grouped, which of its *)
(* jobs panic and how often Stop is pressed and taken back: every step of the *)
(* loop (tool_batch.rs, run_loop.rs) or of a job leaves less of it.           *)
THEOREM RoundsWindDown == Spec => []Counted /\ [][WindsDown]_vars
<1>1. IInv => Counted
  BY LeftIsCounted DEF IInv
<1>2. IInv /\ [Next]_vars => [WindsDown]_vars
  BY WindingStep
<1>. QED
  BY <1>1, <1>2, Invariant, PTL DEF Spec
=============================================================================
