----------------------------- MODULE ToolRound -----------------------------
(***************************************************************************)
(* What a round of tool calls promises (the rules at the head of           *)
(* agent/tool_batch.rs, "so the transcript cannot tell the difference"):   *)
(* the calls are answered one after another in the model's order, each     *)
(* seeing the files the ones before it left; from the moment the user's    *)
(* pause takes effect every call left is answered without being run.       *)
(***************************************************************************)
EXTENDS Naturals, Sequences

CONSTANT Rounds      \* the rounds a model may send: sequences of "read" and "edit"

VARIABLES
  calls,     \* the round
  answers,   \* the tool results so far, one per call
  world      \* version of the files

roundVars == <<calls, answers, world>>

Ran(version) == [how |-> "ran", saw |-> version]
Failed       == [how |-> "failed", saw |-> 0]
Skipped      == [how |-> "skipped", saw |-> 0]

Init ==
  /\ calls \in Rounds
  /\ answers = <<>>
  /\ world = 0

(* The pause is in effect once it has kept a call from running. *)
Paused == \E i \in DOMAIN answers : answers[i] = Skipped

(* The next call runs on the files as they are; only an edit changes them. *)
Run ==
  /\ ~Paused
  /\ Len(answers) < Len(calls)
  /\ \E answer \in {Ran(world), Failed} : answers' = Append(answers, answer)
  /\ \/ world' = world
     \/ calls[Len(answers) + 1] = "edit" /\ world' = world + 1
  /\ UNCHANGED calls

(* A call the pause kept from running gets an answer all the same. *)
Skip ==
  /\ Len(answers) < Len(calls)
  /\ answers' = Append(answers, Skipped)
  /\ UNCHANGED <<calls, world>>

NewRound ==
  /\ Len(answers) = Len(calls)
  /\ calls' \in Rounds
  /\ answers' = <<>>
  /\ world' = 0

Next == Run \/ Skip \/ NewRound

Spec == Init /\ [][Next]_roundVars
=============================================================================
