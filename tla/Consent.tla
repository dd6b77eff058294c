------------------------------ MODULE Consent ------------------------------
(***************************************************************************)
(* What a tool call may do without the person, and how it waits for them:  *)
(* agent/tool_exec.rs (run_tool and its arms), the approve, reject and     *)
(* submit commands, the spawn of subagents (agent/subagent.rs) whose calls *)
(* wait at the same time, and the cards of components/ChatPanel.tsx.  A    *)
(* call is known by its tool id.  Events reach the panel in the order they *)
(* were sent; a click is a command that arrives when it arrives.           *)
(***************************************************************************)
EXTENDS Naturals, Sequences, FiniteSets

CONSTANTS
  Subs,      \* subagents a spawn_agents call may start
  MaxCalls   \* bound of the model: tool calls

ASSUME ConsentAssumption == MaxCalls \in Nat /\ "main" \notin Subs

VARIABLES
  run,        \* an agent run of the session is going on
  stop,       \* steering.interrupt
  team,       \* subagents running, main waiting for them
  calls,      \* the calls so far: whose, how run_tool takes it
  stage,      \* where each call is
  approvals,  \* keys of the approvals map
  answers,    \* keys of the answers map
  reply,      \* what came through the oneshot of a call
  ran,        \* calls whose effect began
  events,     \* sent to the panel and not delivered
  cards,      \* pendingApprovals: how many cards each call has
  question,   \* currentAskUser, 0 when none
  status,     \* the panel's status; "idle" is also done and error
  clicks,     \* approve_tool, reject_tool and submit_answers on their way
  decided,    \* history: the first click of the person on a card of the call
  clashed     \* history: a click hid the card of a call that still waits

vars == <<run, stop, team, calls, stage, approvals, answers, reply, ran, events, cards, question,
          status, clicks, decided, clashed>>

panelVars == <<cards, question, status, clicks, decided, clashed>>
mapVars   == <<approvals, answers, reply>>

Agents == Subs \cup {"main"}
Ids    == 1..MaxCalls

NoCards == [c \in Ids |-> 0]

(***************************************************************************)
(* The policy.  A tool is a read, a file edit, a command that must be      *)
(* asked for (a shell line outside the list, a navigation outside this     *)
(* machine, an MCP tool), a listed command (the policy lets it run), a     *)
(* refused one (the deny-list, a scheme that is not http) or a question.   *)
(***************************************************************************)
Tools    == {"read", "edit", "command", "listed", "refused", "question"}
Verdicts == {"none", "allow", "ask", "deny"}

(* tool_permission: a name alone. *)
ByName(tool) == IF tool \in {"read", "question"} THEN "auto" ELSE "ask"

(* effective_permission: the policy's denial first, then YOLO or a hook's allow relaxes, then a
   hook's ask tightens. *)
NeverDenies(tool)  == FALSE   \* mutant: a relaxation is looked at before the policy
PolicyDenies(tool) == tool = "refused"

Relaxed(tool, verdict, yolo) ==
  IF ByName(tool) = "ask" /\ (yolo \/ verdict = "allow") THEN "auto" ELSE ByName(tool)

Effective(tool, verdict, yolo) ==
  IF PolicyDenies(tool) THEN "denied"
  ELSE IF verdict = "ask" THEN "ask"
  ELSE Relaxed(tool, verdict, yolo)

(* A subagent is offered neither ask_user nor spawn_agents. *)
Offered(a, tool) == a = "main" \/ tool # "question"

(* The arm of run_tool, or deny_tool before it, that a call ends up in. *)
Arm(a, tool, verdict, yolo) ==
  LET perm == Effective(tool, verdict, yolo)
  IN  IF ~Offered(a, tool) THEN "denied"
      ELSE IF tool = "question" THEN IF verdict = "deny" THEN "deniedQuestion" ELSE "question"
      ELSE IF verdict = "deny" THEN "denied"
      ELSE IF perm = "denied" THEN "denied"
      ELSE IF perm = "auto" THEN "free"
      ELSE IF verdict = "ask" THEN IF tool = "edit" THEN "promptEdit" ELSE "prompt"
      ELSE CASE tool = "listed"  -> "free"
             [] tool = "edit"    -> "propose"
             [] tool = "refused" -> "denied"
             [] OTHER            -> "gate"

(* What the person, their hooks and their settings let a call do: the yardstick of the property
   and not code. *)
Due(tool, verdict, yolo) ==
  CASE tool \in {"refused", "question"} \/ verdict = "deny" -> "never"
    [] tool \in {"read", "listed"} /\ verdict \in {"none", "allow"} -> "unasked"
    [] tool \in {"edit", "command"} /\ (verdict = "allow" \/ (verdict = "none" /\ yolo)) -> "unasked"
    [] OTHER -> "asked"

Gated  == {"gate", "propose", "prompt", "promptEdit"}
Asking == {"question", "deniedQuestion"}
Arms   == Gated \cup Asking \cup {"free", "denied"}

-----------------------------------------------------------------------------
Init ==
  /\ run = FALSE
  /\ stop = FALSE
  /\ team = {}
  /\ calls = <<>>
  /\ stage = [c \in Ids |-> "unused"]
  /\ approvals = {}
  /\ answers = {}
  /\ reply = [c \in Ids |-> "none"]
  /\ ran = {}
  /\ events = <<>>
  /\ cards = NoCards
  /\ question = 0
  /\ status = "idle"
  /\ clicks = {}
  /\ decided = [c \in Ids |-> "none"]
  /\ clashed = FALSE

At(c, s)   == c \in DOMAIN calls /\ stage[c] = s
Goes(c, s) == stage' = [stage EXCEPT ![c] = s]
Tell(seq)  == events' = events \o seq
Card(c)    == [kind |-> "card", call |-> c]

(* Between two calls: none of the agent's calls is open. *)
AtLeisure(a) == \A c \in DOMAIN calls : calls[c].by = a => stage[c] = "over"

(* send in the panel: refused while a card or a question is on screen. *)
Send ==
  /\ ~run
  /\ status = "idle"
  /\ run' = TRUE
  /\ status' = "thinking"
  /\ UNCHANGED <<stop, team, calls, stage, mapVars, ran, events, cards, question, clicks, decided,
                 clashed>>

(* Who may make the next call: main, unless it waits for its subagents. *)
Working(a) == IF a = "main" THEN run /\ team = {} ELSE a \in team

(* The model asks for a tool; the interrupt is looked at before each call. *)
Call(a) ==
  /\ Working(a)
  /\ AtLeisure(a)
  /\ ~stop
  /\ Len(calls) < MaxCalls
  /\ \E tool \in Tools, verdict \in Verdicts, yolo \in BOOLEAN :
       calls' = Append(calls, [by |-> a, arm |-> Arm(a, tool, verdict, yolo),
                               due |-> Due(tool, verdict, yolo)])
  /\ stage' = [stage EXCEPT ![Len(calls) + 1] = "new"]
  /\ UNCHANGED <<run, stop, team, mapVars, ran, events, panelVars>>

(* deny_tool and the Denied arms; an edit whose execute fails; a question that is not one.  The
   panel takes any result of main's ask_user for an answer. *)
Refuse(c) ==
  /\ At(c, "new")
  /\ calls[c].arm \in Asking \cup {"denied", "propose"}
  /\ Tell(IF calls[c].arm \in Asking THEN <<[kind |-> "answered", call |-> c]>> ELSE <<>>)
  /\ Goes(c, "over")
  /\ UNCHANGED <<run, stop, team, calls, mapVars, ran, panelVars>>

(* The Auto arms. *)
RunFree(c) ==
  /\ At(c, "new")
  /\ calls[c].arm = "free"
  /\ ran' = ran \cup {c}
  /\ Goes(c, "running")
  /\ UNCHANGED <<run, stop, team, calls, mapVars, events, panelVars>>

(* The asking arms leave their sender in the map first. *)
Register(c) ==
  /\ At(c, "new")
  /\ calls[c].arm \in Gated
  /\ approvals' = approvals \cup {c}
  /\ Goes(c, "registered")
  /\ UNCHANGED <<run, stop, team, calls, answers, reply, ran, events, panelVars>>

(* Then they tell the panel and wait. *)
Announce(c) ==
  /\ At(c, "registered")
  /\ Tell(<<Card(c)>>)
  /\ Goes(c, "waiting")
  /\ UNCHANGED <<run, stop, team, calls, mapVars, ran, panelVars>>

(* A hook's prompt reports the call a second time as it runs, with the same label: the panel
   shows a card nobody waits for. *)
Ghost(c) == IF calls[c].arm \in {"prompt", "promptEdit"} THEN <<Card(c)>> ELSE <<>>

Approved(c) ==
  /\ At(c, "waiting")
  /\ calls[c].arm \in Gated
  /\ reply[c] = "yes"
  /\ ran' = ran \cup {c}
  /\ Tell(Ghost(c))
  /\ Goes(c, "running")
  /\ UNCHANGED <<run, stop, team, calls, mapVars, panelVars>>

Rejected(c) ==
  /\ At(c, "waiting")
  /\ calls[c].arm \in Gated
  /\ reply[c] = "no"
  /\ Goes(c, "over")
  /\ UNCHANGED <<run, stop, team, calls, mapVars, ran, events, panelVars>>

(* The tool is done.  An edit behind a hook's prompt is reported a third time, with its
   proposal, before it is applied. *)
Finish(c) ==
  /\ At(c, "running")
  /\ Tell(IF calls[c].arm = "promptEdit" THEN <<Card(c)>> ELSE <<>>)
  /\ Goes(c, "over")
  /\ UNCHANGED <<run, stop, team, calls, mapVars, ran, panelVars>>

(* ask_user: the panel is told first, the sender is left in the map after. *)
AskUser(c) ==
  /\ At(c, "new")
  /\ calls[c].arm = "question"
  /\ Tell(<<[kind |-> "question", call |-> c]>>)
  /\ Goes(c, "asked")
  /\ UNCHANGED <<run, stop, team, calls, mapVars, ran, panelVars>>

AwaitAnswer(c) ==
  /\ At(c, "asked")
  /\ answers' = answers \cup {c}
  /\ Goes(c, "waiting")
  /\ UNCHANGED <<run, stop, team, calls, approvals, reply, ran, events, panelVars>>

Answered(c) ==
  /\ At(c, "waiting")
  /\ calls[c].arm = "question"
  /\ reply[c] = "yes"
  /\ Tell(<<[kind |-> "answered", call |-> c]>>)
  /\ Goes(c, "over")
  /\ UNCHANGED <<run, stop, team, calls, mapVars, ran, panelVars>>

(* spawn_agents: the subagents start together and main waits for all of them. *)
Spawn ==
  /\ run
  /\ team = {}
  /\ AtLeisure("main")
  /\ ~stop
  /\ \E started \in SUBSET Subs \ {{}} : team' = started
  /\ UNCHANGED <<run, stop, calls, stage, mapVars, ran, events, panelVars>>

SubagentEnds(a) ==
  /\ a \in team
  /\ AtLeisure(a)
  /\ team' = team \ {a}
  /\ UNCHANGED <<run, stop, calls, stage, mapVars, ran, events, panelVars>>

(* The run ends, in a Done or in an Error. *)
RunEnds ==
  /\ run
  /\ team = {}
  /\ AtLeisure("main")
  /\ run' = FALSE
  /\ stop' = FALSE
  /\ \E kind \in {"done", "error"} : Tell(<<[kind |-> kind, call |-> 0]>>)
  /\ UNCHANGED <<team, calls, stage, mapVars, ran, panelVars>>

(* Esc or the Stop button: a flag no waiting tool looks at. *)
Stop ==
  /\ run
  /\ ~stop
  /\ status \in {"thinking", "awaiting_approval"}
  /\ stop' = TRUE
  /\ UNCHANGED <<run, team, calls, stage, mapVars, ran, events, panelVars>>

-----------------------------------------------------------------------------
(* Mutants: one card at a time; a list that is not empty is taken to be on the screen. *)
ReplaceCard(c) ==
  /\ cards' = [NoCards EXCEPT ![c] = 1]
  /\ status' = "awaiting_approval"
  /\ UNCHANGED question

QueueCard(c) ==
  /\ cards' = [cards EXCEPT ![c] = @ + 1]
  /\ status' = IF cards = NoCards THEN "awaiting_approval" ELSE status
  /\ UNCHANGED question

(* handleEvent. *)
ShowCard(c) ==
  /\ cards' = [cards EXCEPT ![c] = @ + 1]
  /\ status' = "awaiting_approval"
  /\ UNCHANGED question

Deliver ==
  /\ events # <<>>
  /\ events' = Tail(events)
  /\ LET e == Head(events)
     IN  \/ /\ e.kind = "card"
            /\ ShowCard(e.call)
         \/ /\ e.kind = "question"
            /\ question' = e.call
            /\ status' = "awaiting_input"
            /\ UNCHANGED cards
         \/ /\ e.kind = "answered"
            /\ question' = 0
            /\ status' = "thinking"
            /\ UNCHANGED cards
         \/ /\ e.kind = "done"
            /\ question' = 0
            /\ cards' = NoCards
            /\ status' = "idle"
         \/ /\ e.kind = "error"
            /\ status' = "idle"
            /\ UNCHANGED <<cards, question>>
  /\ UNCHANGED <<run, stop, team, calls, stage, mapVars, ran, clicks, decided, clashed>>

Others(c) == [cards EXCEPT ![c] = 0]

AtMostOne(left) == \A d, e \in Ids : left[d] > 0 /\ left[e] > 0 => d = e /\ left[d] = 1

Undecided(c) == stage[c] = "waiting" /\ reply[c] = "none" /\ \A k \in clicks : k.call # c

(* handleApprove and handleReject: the call's cards go, and the status is worked out from the
   list they have left already. *)
AfterClick(left) == IF AtMostOne(left) THEN "thinking" ELSE status

Click(c, yes) ==
  /\ status = "awaiting_approval"
  /\ cards[c] > 0
  /\ cards' = Others(c)
  /\ status' = AfterClick(Others(c))
  /\ clicks' = clicks \cup {[call |-> c, answer |-> yes]}
  /\ decided' = [decided EXCEPT ![c] = IF @ = "none" THEN yes ELSE @]
  /\ clashed' = (clashed \/ (/\ status' = "thinking"
                           /\ \E d \in Ids : cards'[d] > 0 /\ Undecided(d)))
  /\ UNCHANGED <<run, stop, team, calls, stage, mapVars, ran, events, question>>

(* handleAnswers; a person answers no sooner than the tool waits. *)
Answer ==
  /\ status = "awaiting_input"
  /\ question \in answers
  /\ status' = "thinking"
  /\ question' = 0
  /\ clicks' = clicks \cup {[call |-> question, answer |-> "yes"]}
  /\ decided' = [decided EXCEPT ![question] = "yes"]
  /\ UNCHANGED <<run, stop, team, calls, stage, mapVars, ran, events, cards, clashed>>

(* Mutants: the key is read and left; the map is drained. *)
Peeked(map, c)  == map
Drained(map, c) == {}

Removed(map, c) == map \ {c}

(* approve_tool, reject_tool, submit_answers: whoever removes the key answers the call; nobody
   is told apart from the caller when there is no key. *)
Command(k) ==
  /\ k \in clicks
  /\ clicks' = clicks \ {k}
  /\ IF k.call \in approvals \cup answers
     THEN /\ approvals' = Removed(approvals, k.call)
          /\ answers' = Removed(answers, k.call)
          /\ reply' = [reply EXCEPT ![k.call] = k.answer]
     ELSE UNCHANGED mapVars
  /\ UNCHANGED <<run, stop, team, calls, stage, ran, events, cards, question, status, decided,
                 clashed>>

ToolStep(c) == \/ Refuse(c) \/ RunFree(c) \/ Register(c) \/ Announce(c) \/ Approved(c)
               \/ Rejected(c) \/ Finish(c) \/ AskUser(c) \/ AwaitAnswer(c) \/ Answered(c)

Next ==
  \/ Send \/ Spawn \/ RunEnds \/ Stop \/ Deliver \/ Answer
  \/ \E a \in Agents : Call(a)
  \/ \E a \in Subs : SubagentEnds(a)
  \/ \E c \in Ids : ToolStep(c)
  \/ \E c \in Ids, yes \in {"yes", "no"} : Click(c, yes)
  \/ \E k \in clicks : Command(k)

Spec == Init /\ [][Next]_vars

(* The tools' own tasks go on, the channel and the commands deliver, agents end, and a person
   answers what is on the screen. *)
Fairness ==
  /\ \A c \in Ids : WF_vars(ToolStep(c))
  /\ \A a \in Subs : WF_vars(SubagentEnds(a))
  /\ WF_vars(RunEnds)
  /\ WF_vars(Deliver)
  /\ WF_vars(\E k \in clicks : Command(k))
  /\ WF_vars(\E c \in Ids, yes \in {"yes", "no"} : Click(c, yes))
  /\ WF_vars(Answer)

FairSpec == Spec /\ Fairness

-----------------------------------------------------------------------------
Events == [kind : {"card", "question", "answered"}, call : Ids]
            \cup [kind : {"done", "error"}, call : {0}]

(* Every variable has its type; a key is in a map only while its call waits, or is about to. *)
TypeOK ==
  /\ run \in BOOLEAN /\ stop \in BOOLEAN /\ clashed \in BOOLEAN
  /\ team \subseteq Subs
  /\ calls \in Seq([by : Agents, arm : Arms, due : {"never", "unasked", "asked"}])
  /\ Len(calls) <= MaxCalls
  /\ stage \in [Ids -> {"unused", "new", "registered", "asked", "waiting", "running", "over"}]
  /\ \A c \in Ids : stage[c] = "unused" <=> c \notin DOMAIN calls
  /\ approvals \subseteq {c \in Ids : stage[c] \in {"registered", "waiting"} /\ calls[c].arm \in Gated}
  /\ answers \subseteq {c \in Ids : stage[c] = "waiting" /\ calls[c].arm = "question"}
  /\ reply \in [Ids -> {"none", "yes", "no"}]
  /\ ran \subseteq DOMAIN calls
  /\ events \in Seq(Events)
  /\ cards \in [Ids -> Nat]
  /\ question \in Ids \cup {0}
  /\ status \in {"idle", "thinking", "awaiting_approval", "awaiting_input"}
  /\ clicks \subseteq [call : DOMAIN calls, answer : {"yes", "no"}]
  /\ decided \in [Ids -> {"none", "yes", "no"}]

(* No tool has an effect the person did not let it have (SECURITY.md, "Shell approval" and "Edit
   approval"): it ran because the policy, YOLO or a hook lets it run unasked, or because the
   person's first click on its card was an approval; and what the policy or a hook refuses never
   ran, whoever relaxed or tightened what. *)
ConsentBeforeEffect ==
  \A c \in ran : \/ calls[c].due = "unasked"
                 \/ calls[c].due = "asked" /\ decided[c] = "yes"

(* A click is neither lost nor turned round: what a tool is told is what the person clicked
   first on its card, and a call that still waits after a click has it on its way, however the
   commands of several cards arrive (approve_tool and reject_tool by key). *)
DecisionsCount ==
  \A c \in DOMAIN calls :
    /\ reply[c] \in {"none", decided[c]}
    /\ stage[c] = "waiting" /\ reply[c] = "none" /\ decided[c] # "none" =>
         \E k \in clicks : k.call = c /\ k.answer = decided[c]

(* A call that waits for the person is not forgotten by the panel: until it is clicked, its card
   or its question is in the channel, or is on the screen of a panel that takes clicks on it,
   whatever the subagents of the same call and the run's other events do to the lists.  A click
   that hid a card (clashed) is the exception. *)
WaitsAreInHand ==
  \A c \in DOMAIN calls : Undecided(c) =>
    \/ \E i \in DOMAIN events : events[i].kind \in {"card", "question"} /\ events[i].call = c
    \/ cards[c] > 0 /\ (status = "awaiting_approval" \/ clashed)
    \/ question = c /\ status = "awaiting_input"

(* Nobody waits for ever on somebody who answers what is on the screen: a call that waits is
   over some day, Stop or no Stop, unless a click hid its card (the <= 1 of handleApprove and
   handleReject, which look at the list the card has left). *)
EveryWaitEnds == \A c \in Ids : stage[c] = "waiting" ~> (stage[c] = "over" \/ clashed)
=============================================================================
