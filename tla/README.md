# TLA+ models of the Claudinio Code agent

Claudinio Code is a desktop coding agent: a Rust backend (Tauri) that talks to a
language model, runs the tools the model asks for and keeps its sessions in JSONL
files, under a SolidJS panel. This directory holds TLA+ modules of the parts of
the backend where order, failure and interleaving decide whether the program is
correct, TLC configurations that check them on small instances, and TLAPS proofs
of the main results for every instance. Paths below are relative to
`src/src-tauri/src/` unless they start with `src/`.

    tlc -config SessionControl.cfg MCSessionControl      # one run
    tlapm ToolBatch_proofs.tla                           # one proof module

`PROJECT.json` lists the components, runs, theorems, findings and hazards, and
ties every definition of the models to the lines of source it stands for.

## 1. The system

| part | state it keeps | operations | where it is hard |
|---|---|---|---|
| Run loop (`agent/run_loop.rs`, `run_state.rs`, `loop_watch.rs`, `nudges.rs`) | guard counters, golden loop, stop reason, rounds; all in the memory of one task | one round: compaction or handoff, request, stream, tool calls, loop watch; the finish line: judge, task reminder, golden goals, quality gate, Stop hook | seven guards send the model back to work, and every await between them lets a message, a Stop, an edit or a crash in |
| Session commands and driver (`commands/agent.rs`, `state.rs`, `agent/session.rs`) | `active_session`, the steering map, `session_started`, `cleared` | `send_message`, `queue_steering`, `interrupt_session`, `new_session`, `load_session`; `spawn_run_loop` | commands and drivers are tasks that meet at locks held for one statement each |
| Golden goals and task list (`agent/tools/tasks.rs`, `task_recital.rs`) | the `Tasks` records | `tasks_set`, the merge that protects golden tasks | goals may be closed only on green checks, and work goes on after that |
| Quality gate (`quality/`, `agent/tools/quality.rs`) | evidence records with a digest of the worktree | run layers, judge evidence against the files | files change while checks run and after them |
| Tool batches (`agent/tool_batch.rs`) | a JoinSet, result slots | run a stretch of reads side by side, answer the rest in order | jobs end in any order, panic, or race a Stop |
| Tool execution, approvals, questions (`agent/tool_exec.rs`, `permissions.rs`, `jev.rs`) | maps of waiting approvals and answers | permission, hooks, wait for the user, run | waiting entries against answers, Stop and dropped senders |
| Transcript (`agent/persist.rs`, `session.rs`, `prune.rs`) | JSONL records, the history in memory | append, prune, compact, rebuild the history, walk chains | the history rebuilt after a restart must be the one the run had |
| Chains, compaction (`agent/transition.rs`, `handoff.rs`, `budget.rs`, `prune.rs`) | `HandoffTo` and `LinkedFrom` records, golden counters, costs | context handoff, document handoff, `link_session` | a handoff is ten writes and locks, and the process may die between any two |
| Provider streaming (`agent/provider.rs`, `provider/openai.rs`, `retry.rs`) | a connection, partial blocks | request, stream, retry | partial replies, retries after output |
| Continuation judge (`agent/judge.rs`) | none | one question to a model | its answer is arbitrary |
| Subagents (`agent/subagent.rs`, `delegation.rs`) | a set of tasks, their transcripts | spawn a batch, collect results | partial failure, Stop |
| Living document (`agent/document.rs`, `doc_session.rs`) | a Markdown file of numbered sections, a memory of it beside the session | read, write and claim sections, note changes, hand over, save from the app | the person edits the file at any time, subagents write it side by side, the app may die between the file and its memory |
| Hooks (`agent/hooks/`) | trust store, hook sets | discover, trust, run, merge outcomes | external commands of any duration and verdict |
| MCP, LSP, browser (`agent/mcp.rs`, `lsp/`, `browser/`) | connections, request maps | connect, call, shut down | concurrent start-up, replies that never come |
| Local LLM supervisor (`llama/`, `commands/local_llm.rs`) | a registry of child processes behind one lock, a file with the process id of each model | start on first use, wait for health, evict, stop, clear orphans | starts, stops, deaths and a restarted app race over the same processes |
| Plugins, skills, project memory, settings, network activity, askpass, code index, evaluation harness | files, counters | read, write | little interleaving |
| Chat panel (`src/src/components/ChatPanel.tsx`) | `status`, the shown thread | calls the commands, follows the event channel | its status is the only lock between two runs on one session |

How they interact. The panel calls `send_message`; the command picks or makes the
session, takes its steering controls and spawns the driver. The driver runs the
loop, which asks the provider, runs tools (alone or in a batch), appends every
fact to the session's file, and sends events to the panel over one channel. The
user's later messages and Stop reach the run through the steering controls only,
and it looks at them at fixed places. A run ends with `Done` or `Error`, or asks
for a handoff; the driver then links a successor session and goes on there.

What makes each part correct:

* run loop: it ends, it does not end with the user's words unread, what it says
  when it ends is true of the goals and the files, its budgets are spent once;
* session control: one run to a session, the workspace on the session the user
  watches, every run in reach of Stop, chains whose records agree, an input that
  does not stay locked (section 4 says where the code falls short of it);
* tool batch: indistinguishable from running the calls one after another;
* quality gate: a green mark is about the files it marks;
* transcript: reload gives the history the run had;
* approvals: a call runs only after the answer that allows it, a decision reaches
  the call it was made for, and no wait is left behind;
* living document: the person's text is not overwritten unseen, the model is told
  of every change, an id means one section for ever, no section waits on an agent
  that is gone;
* supervisor: one server to a model, none of them out of reach, and a request
  that gets its server or an error.

## 2. Modules

| module | role | instance, theorems |
|---|---|---|
| `RunLoop` | one run of a session, its finish line, and the records that outlive it | `MCRunLoop`, `RunLoop_proofs` |
| `ToolRound` | abstract: a round of tool calls answered one by one | |
| `ToolBatch` | the loop of a round with `run_ahead` and `run_bounded`; refines `ToolRound` (`INSTANCE ToolRound WITH ...`) | `MCToolBatch`, `ToolBatch_proofs` |
| `SessionControl` | commands, drivers, handoffs and crashes over several sessions and runs | `MCSessionControl`, `SessionControl_proofs` |
| `Transcript` | the file that only grows and the history the model is shown | `MCTranscript`, `Transcript_proofs` |
| `LivingDocument` | the session's document, edited by agents and by the person | `MCLivingDocument`, `LivingDocument_proofs` |
| `Consent` | what a tool call may do unasked, and how it waits for the person | `MCConsent`, `Consent_proofs` |
| `LocalServers` | the registry of local model servers, its lock and the processes | `MCLocalServers`, `LocalServers_proofs` |

Each model keeps the control of its code and abstracts the data: a message is a
count in a queue, a goal a model value, a file's content a version number, a
session an id. The language model, the judge, hooks, tools, checks and the user
are the environment: each of their answers is a disjunct or an `\E`. A definition
marked "mutant" is no part of the specification: it is the slip under which a
property must fail.

### RunLoop

`phase` is the await the run is parked on or the block it runs next: `head` (top
of an iteration), `stream`, `tools`, `watch` (after the results are pushed),
`judge`, `finish` (reminder, golden goals, evidence), `verify`/`passed`/`failed`
(the checks), `settle` (the last look at the queue), `hook` (Stop hook),
`linking`, `closed` (Done was sent), `idle` (no run). One action stands for the
code between two such places. `guards` is `GuardState`, `golden` the
`GoldenLoopState`; `recorded` and `linked` are what the session's `GoldenCycle`
and `LinkedFrom` records hold, and survive a `Crash`; `evidence` is what the last
quality run says of the worktree as it is (`stale` once a source file changed).
`excused` marks a finish that went on without a verdict on the current files:
the checks gave nothing, or an edit came after the last look. It makes
`EndTurnIsHonest` state what the code can know.

The streaks of cut-off and empty replies are counted to 3, the value they are
compared with. Stop is polled before each chunk, so a raised flag wins over the
reply; it is consumed in the four places the code consumes it.

### ToolRound and ToolBatch

`ToolRound` has one step per answer: run the next call on the files as they are,
or, once the user's pause has taken effect, answer it without running it.
`ToolBatch` is the code: at the head of an iteration `run_ahead` may take the
stretch of two or more consecutive read-only calls, `SpawnJob`/`JobEnds`/
`JobPanics`/`JoinJob` are `run_bounded` and its threads, `Return` fills `ready`,
and the loop then takes a ready result or runs the call itself. `answer_unrun`
keeps the results already there. A result records the version of the files the
call saw, so a read that ran beside or after an edit it should precede shows.
The refinement mapping is the identity on `calls`, `answers` and `world`.

### SessionControl

`phase[r]` follows one `send_message` and its driver: `sent`, `picked` (session
chosen under the `active_session` lock), `steered` (controls taken), `running`,
the steps of `link_session` in the code's order (`superseded`, `created`,
`linking`, `moved`, `swapped`), `ending` (Done or Error sent, steering entry not
yet removed), `over`. `files`, `written`, `superseded` and `linked` are on disk
and survive `Crash`; the rest does not. `registry` is the steering map: which
run's controls are registered under each session. `status` is the panel's lock
on the input, `shown` the session it names in `interrupt_session` and
`queue_steering`: it learns it from the reply of `send_message` (`Reply`, which may
come after events of the run; `awaited` is the message it is owed to), from
`SessionLinked` and from the sessions it opens. Two history variables mark what
properties except: `lost` the successors that a crash, a failed create or a
clearing left unlinked or took away, `robbed` the runs whose entry an ending
driver removed. The loop itself is one step here (`EndRun`, `WriteHandoffTo`):
what it does inside is `RunLoop`'s matter, and the queue and the interrupt flag
of the controls are there.

Modelling decisions: the reply of a message is there before the run's first
handoff starts and before the next message is typed; `load_session` and
`new_session` are single steps, which
takes it that the panel is left alone while it awaits one of them (its input is
not locked then, see section 4); the walk to the tip has no cap (64 hops in the
code, more sessions than a run has here); ids are fresh, as UUIDs are; a session
id is never reused.

### Transcript

A history is a sequence of pieces and a message a maximal run of pieces of one
role, which is how `history_from_records` and `fold_into_history` build it.
`turns`, `mark` (the last `Compacted` record) and `pruned` are on disk and
survive `Crash`; `history` and `form` (how each call is shown: whole, cut or
dropped) are the run's. `PushTurn`, `PushUser`, `Inject` and `Nudge` act on both
and not alike: a text merged into a user message is in the history only.
`phase` walks the code's order at the top of a round: `Prune` (`plan_by_age`),
`HandOff`, `Compact`, request; `pass` says whether it is the look before a run or
that of a round. `Rebuilt` and `FormOnDisk` are the reload, `TailStarts` is
`compute_tail_turns` with `tail_start_index`. The turn that asks and the turn
that answers are two appends, so the app may die in between (`torn`).

### LivingDocument

`file` is the document, `mem` the memory kept beside the session (`DocState`:
what it knows of each section, what agents have not read, what the model has not
been told, the next id, the claims), `heir` the copy a handoff makes. `Synced` is
the `sync` that every access begins with, ids for new sections included. `seen`,
`told`, `heard` and `brought` are history variables: what agents wrote or read,
what the model was told, the ids it knows, the sections the person brought in.
`DocWrite`, `DocRead`, `Outline`, `DocAdd` are the tools; `NoteRound` the note at
a round; `Claim`, `SubEnds`, `Join` what `spawn_agents` does with a section;
`RunStarts` frees the claims of runs that died; `Carry` and `Swap` are a handoff;
`SaveFromApp` merges the editor's text with what was written meanwhile; the
person's editor writes, cuts, puts back or adds. `Crash` may fall between the
write of the file and that of the memory (`Torn`).

### Consent

`Arm` is the policy of `run_tool`: `tool_permission`, `effective_permission` and
the arms, by kind of tool, hook verdict and YOLO; `Due` says the same from the
person's side and is the yardstick. `stage` follows a call from `new` through the
maps (`Register` before `Announce`; for a question `AskUser` before
`AwaitAnswer`, the order of the code) to `over`. `events` is the one channel to
the panel, `cards` and `question` what the panel holds, `clicks` the commands on
their way. `Click` works out the status from the list that has already lost the
card, as `handleApprove` does, and `clashed` records that this hid another card.

### LocalServers

`servers` are the processes ever started, `live` those alive, `doomed` those told
to die. `lock` is the registry's mutex, held over a whole start: `TakeNone` or
`TakeStale`, `Evict` and `Cleared` for room, `Spawn`, then `Loaded`, `NotLoaded`
or `Abandon` (Stop pressed: the future is dropped and its process killed). Stops
take servers out under the lock and end them after it (`StopKills`, `StopEnds`),
by any number of callers at once. `record` is the file with a process id per
model, which `OrphanCleared` reads in this life or the next; `same` says whether
the process still runs our executable. `lost` is a history variable: processes
whose record went while they lived.

## 3. Runs

| run | instance | properties | states |
|---|---|---|---|
| `RunLoopGuards` | no goals, caps 2/2/2/1, one queued message, fair | `TypeOK`, `NudgesSpendTheBudget`, `FinishAnswersTheUser`, `QuietRunEnds`, `PauseIsHonoured` | 646 k |
| `RunLoopGolden` | two goals, caps 2/2, four rounds a run | `EndTurnIsHonest`, `CyclesAreNeverRefunded` | 817 k |
| `ToolBatch` | rounds of up to 5 calls, 2 jobs at a time, fair | `TypeOK`, `OneResultEach`, `JobsStayInTheirRun`, `LooksSequential`, `RoundEnds` | 301 k |
| `SessionControl` | 3 messages, 3 sessions, 1 crash, fair | `TypeOK`, `OneRunPerSession`, `ActiveFollowsTheRun`, `ActiveIsTheTip`, `StartedOnce`, `ChainsReadBothWays`, `StaysWithinReach`, `InputUnlocks` | 209 k |
| `Transcript` | 2 prompts, 1 queued message, 3 calls, 2 prunes, 2 compactions, 1 crash | `TypeOK`, `RequestIsWellFormed`, `ReloadAgrees`, `ListAndAnswersKept`, `NothingComesBack` | 3.09 M |
| `LivingDocument` | 2 ids, 1 section to begin with, 2 texts, a subagent, 4 events | `TypeOK`, `NoChangeUntold`, `NumbersMeanOneTopic`, `HumanWins`, `ClaimsHaveWriters`, `SaveKeepsTheRest` | 677 k |
| `Consent` | main and 2 subagents, 2 calls, fair | `TypeOK`, `ConsentBeforeEffect`, `DecisionsCount`, `WaitsAreInHand`, `EveryWaitEnds` | 166 k |
| `LocalServers` | 2 agents, 2 models of which one fits, 2 starts, 1 crash, fair | `TypeOK`, `OneServerEach`, `ServersAreFound`, `RequestsAreServed` | 317 k |
| `RunLoopHandoff` | one goal | `GoldenStateIsCarried` is violated | |
| `RunLoopDropped` | no goals | `NoQueuedMessageIsDropped` is violated | |
| `SessionControlAbandoned` | the user confirms "New" during a run | `ActiveFollowsTheRun` is violated | |
| `TranscriptPrompt` | one answered message and a second | `PromptIsAsked` is violated | |

What they show.

* `EndTurnIsHonest`: a run that reports `end_turn` has no golden goal pending
  and, if its code had to be checked, the code is known green, although edits,
  the judge, hooks and messages may send it around again after a goal closed.
* `NudgesSpendTheBudget`: every time the harness goes back to the model on its
  own account a single finite measure falls, although several guards reset each
  other's counters (a text reply ends the empty streak, a tool call the
  announcement streak). Only the model's tool calls, the user's words or a new
  run refill it. `QuietRunEnds` is the liveness side of the same fact.
* `CyclesAreNeverRefunded`: crashes, restarts, new messages and handoffs over a
  chain of sessions never give a golden cycle back.
* `FinishAnswersTheUser`: the ends of a run at the finish line leave no message
  queued and none injected and unanswered. The other ends do (finding below).
* `PauseIsHonoured`: no step swallows a Stop without acting on it.
* `LooksSequential`: the comment "so the transcript cannot tell the difference"
  as a refinement. `OneResultEach` adds the user's view, which the refinement
  does not see: each call is reported once. `RoundEnds`: the wait on the JoinSet
  always ends, for jobs that panic or a pause before the first of them.
* `SessionControl`: with the panel's status as the only lock, runs do not meet
  on a session, the workspace is on the session of the run that works, reopening
  never resumes a superseded session, and the input unlocks. `ChainsReadBothWays`:
  the `LinkedFrom` of a session and the `HandoffTo` of its predecessor name each
  other, both ways, but for a handoff between its two records and for successors
  that are `lost`: a crash, a failed create or a clearing in between leaves the old
  session pointing at a file that is not there or does not point back (section 4).
  `StaysWithinReach`: the id the panel names leads to the run's controls from the
  reply to the end of the run, but for the moment between the move of the controls
  and `SessionLinked`, when they are under an id the panel does not know, and for
  runs that are `robbed` (both in section 4).
  `StartedOnce` is stated as the code has it: a successor made by a handoff is not
  entered in `session_started`, so its SessionStart hooks fire a second time, as a
  resume, with the user's next message (`commands/agent.rs:230-233`).
* `Transcript`: what is sent is a conversation, whatever was merged, pruned,
  compacted or reloaded before (`RequestIsWellFormed`), but for rounds torn by a
  crash: their calls are sent unanswered (section 4), are never answered in the
  file, and without a crash there are none; a reload in the
  middle of a run would show what the run shows, but for merged texts
  (`ReloadAgrees`); no chain of prunes takes the user's answers or the task list
  (`ListAndAnswersKept`); and what was cut stays cut (`NothingComesBack`).
* `LivingDocument`: no agent's write takes away a text of the person that no agent
  was shown, the model is told of every change, an id once given out keeps its
  meaning, a claim ends with its holder and a save from the app touches only what
  the person touched; through handoffs, and through a crash between the file and
  its memory.
* `Consent`: no edit or command takes effect that the person, their settings or
  their hooks did not allow, whatever the verdicts and however the cards of agents
  working side by side arrive; the first decision counts; the card or question of a
  waiting call is, until clicked, in the channel or on the screen of a panel that
  takes clicks on it, unless a click hid a card. `EveryWaitEnds` excepts a call whose card a
  click on another one hid: `handleApprove` tests `<= 1` on the list the card has
  left (`ChatPanel.tsx:1370`), and cards show only under `awaiting_approval`.
* `LocalServers`: one lock held over a whole start is enough to keep a model on
  one server and the number of servers under the setting, although stops end
  their servers after the lock and requests are dropped in the middle of a start;
  every server that stays can be found by this life of the app or the next, but
  for the record a late stop removes; and a request gets a server or an error.

Why these bounds. The caps are the smallest at which every guard can be hit,
missed and hit after being reset; two goals are the fewest that can be pending in
two orders, which is what the stall test compares; the queue needs one message,
since an injection takes all of them. Five calls give two stretches with an edit
between them, and two jobs at a time leave a third waiting. Three messages over
three sessions give a handoff of a handoff, a message that meets an earlier run
still ending, and a reopened session; one crash may fall at any step. In
`Transcript` three calls give a snapshot of the list, a change after it and a read
to prune, and two compactions a summary of a summary. In `LivingDocument` four
events are an edit, a write over it, a handoff and a crash, in any order; the
second id is what a cut and an added section may compete for. Two calls of any
kind meet in every pair in `Consent`, and `LocalServers` needs two models for an
eviction, two sizes for a stale server, and a crash for an orphan. TLC's instances
are only examples: the safety results listed below are proved for all.

Fairness. `RunLoop` and `SessionControl` assume weak fairness of the run's own
steps: the runtime polls a task whose await is over, requests and checks end or
time out, and a hook has a timeout. The loop may choose its step, so the fairness
is of their disjunction and not of any one answer of the environment. Nothing is
assumed of the user, the model's tool calls or crashes; in `ToolBatch` jobs end,
and prompts are answered (a prompt holds the round, as it does in the code).
`InputUnlocks` takes from `RunLoop` that a run ends or hands off; ids run out in
the model, so the handoffs of a run are finite there. `Consent` assumes that tools,
the channel and commands go on and that the person answers what is on the screen;
nobody is assumed to press Stop, to send or to call. `LocalServers` assumes strong
fairness of an agent's turn at the lock (tokio's mutex is first come, first
served), weak fairness of the holder's steps, and that the health deadline comes;
that a server gets ready, that processes die or that requests end is not assumed.
`Transcript` and `LivingDocument` state no liveness: all their steps are those of
the run, the model or the person, whose going on is the other modules' matter.

Every property of these runs has a mutant in `PROJECT.json`: a plausible slip in
the code (a dropped second look at the queue, a job limit off by one, a steering
entry left behind, a lock let go after the look) under which TLC finds the
property violated.

## 4. Findings

* **A handoff forgets the stalls.** `agent/handoff.rs:555` says that recomputing
  the golden state from the records "is exact"; only the cycle count is on
  record. The stall count and the last pending list start over, so goals without
  progress across a handoff are stopped by the cycle cap only.
* **A queued message is dropped.** A run that the loop watch, the third cut-off
  reply in a row (none of the three looks at the queue) or the round cap stops
  leaves the queue as it is, and the driver drops it, against `run_loop.rs:1141-1146` and `README.md:390`.
* **"New" does not stop the run.** `NewSessionPopover.tsx:15` says the current
  session will be stopped; `new_session` only removes its controls. The run goes
  on unseen, cannot be stopped, unlocks the panel of the next conversation, and a
  handoff of its takes the workspace back.
* **A compaction before the first request can lose the prompt.** The comment at
  `run_loop.rs:369-371` says the rebuilt history's tail "already contains the
  just-persisted user message". It has no tail when the newest exchange alone is
  over the tail's tokens (`handoff.rs:30-60`), and `push_user_blocks` writes no
  Turn when the history ends on a user message already, so the rebuild leaves the
  prompt out.

Seen while modelling, with no run of their own; where a property meets one, it
excepts it by name:

* A handoff that stops between `HandoffTo` (`transition.rs:69`) and `LinkedFrom`
  (81), because the app dies or `SessionStore::create` fails (78), leaves the old
  session superseded by a file that is missing or does not point back; clearing a
  successor nothing was written to (`commands/agent.rs:529-541`) does the same.
  `list_sessions` hides superseded sessions and those without contents
  (`persist.rs:1346-1357`, 1389-1395), so the conversation is gone from History, and
  opening the old id opens the empty tip and prepends nothing: the conversation is
  split (`lost` in `ChainsReadBothWays`).
* `load_session`'s cycle guard `seen` (`commands/agent.rs:593`, 616) is shared by its
  two walks: opened by a superseded id, a chain of two shows its tip alone, because
  the way back meets an id the way forward has left there, against its doc (564-570).
* From the move of the controls (`transition.rs:144`) to `SessionLinked` (162), with
  an await of `active_session` in between, Stop and queued messages name the old id
  and find nothing, against the comment at 141-143 (phase "moved" in
  `StaysWithinReach`).
* An ending driver removes the steering entry after its `Done`
  (`commands/agent.rs:493-497`); a message sent in between shares the entry, loses it,
  and Stop answers "session not running" (`robbed` in `StaysWithinReach`).
* A round the app died in (`run_loop.rs:1520-1547`) stays a call without an answer:
  `history_from_records` repairs nothing, and every request until a compaction drops it holds it (`torn` in
  `RequestIsWellFormed`).
* The panel does not lock its input while it awaits `new_session` (which runs the
  SessionEnd hooks) or `load_session`, and sets its status to idle afterwards, so
  that a message sent meanwhile has its run unlocked, and the next one starts a
  second run on its session (`ChatPanel.tsx:1400-1420`, the hazard at
  `commands/agent.rs:528`).
* SessionStart fires twice for a handoff's successor (the exception of
  `StartedOnce`); a click can hide another call's card (the exception of
  `WaitsAreInHand` and `EveryWaitEnds`); a stop that ends late removes the record of
  the server started after it (`lost` in `ServersAreFound`).
* A queued message that opened a message of its own is in the file twice and shown
  twice after a reload; texts merged into a user message are missing from rebuilt
  histories (`handoff.rs:342-347`); `attachment_blocks` is shadowed inside
  `send_message`.

## 5. Proofs

TLAPS checks them for every value of the constants that satisfies the named
assumptions: `GoalsAssumption` (the goals are finite), `LimitsAssumption`,
`BatchAssumption`, `ControlAssumption`, `TranscriptAssumption`,
`DocumentAssumption`, `ConsentAssumption`, `ServersAssumption` (limits are
naturals, positive where the code divides or waits by them, and the special
values are apart from the others).

**RunLoop** (`CountersStayInBounds`, `HonestEnd`, `NudgesAreBounded`,
`CyclesAreKept`, `FinishAnswers`). `TypeOK` alone is not inductive: the judge and
the Stop hook bump a counter that was compared with its cap one await earlier, so
`Asking` and `Blocking` carry the comparison over the await. `Counted` says that
the live golden cycle is the recorded one except while a handoff is under way,
when the handoff's copy is; `Judged` carries what the finish line knew of goals
and files from the decision to the Done event; `Answered` says that no injected
message is open at the finish line. The action properties follow from the
invariant, one case per action of `Next`.

Two more theorems state the safety part of the liveness properties. `StopIsNear`:
while a Stop stays raised, `ToTheStop`, at most 12, falls with every step of the
run and rises with nobody's, so that no path from one reading of the flag to the
next is endless. `QuietRunsWindDown`: until a round of tools ends, the session is
handed over or a message is taken, every step of the run lowers `KindOfPhase`,
`NudgeBudget` and `ToTheNudge` in lexicographic order. The middle one is the budget of
`NudgesSpendTheBudget`; the outer one says what the run may still do, the inner
one how far the next nudge is.

**ToolBatch** (`Invariant`, `TypeCorrect`, `AnsweredOnce`, `JobsContained`,
`Implements`). `Stretch` says what the slots and the two sets of jobs hold while
a stretch runs, and that its calls are reads, so the files do not change under
them; `Ahead` that the results run ahead belong to a first part of the calls left
and saw the files as they still are; `InOrder` that nothing runs after a call the
pause skipped. `Ahead` is what makes taking a ready result a step of `ToolRound`.
`AnsweredOnce` needs `Reports` as well: a call has been reported exactly when its
result is taken, ready, or in a slot of a job that did not panic.
`RoundsWindDown` is the safety part of `RoundEnds`: each step of the loop or of a
job lowers `CallsLeft`, `StageLeft` and `JobsLeft` in lexicographic order, where a
job weighs less started than waiting and less ended than started; pressing Stop
and taking it back leaves them alone.

**SessionControl** (`TypeCorrect`, `RunsAreAlone`, `WorkspaceFollows`,
`ChainsHold`, `ChainsAgree`, `ReachIsKept`, `HooksStartOnce`), all under the assumption that no run is
abandoned (`~MayAbandon`; with it they are false, see the findings). `Locked` is
the heart: a busy run keeps the status at "thinking" and is alone, because a
message, a clear and a reopening all wait for "idle". `HandoffState` then tells
how far the one handoff has come from the records and files alone, `FreshIds` and
`NoLoop` that a new id stands in no record, and `WrittenFirst` that a session is
written to before it is superseded, so that clearing an empty one takes no
predecessor away: a crash or a reopening finds a chain half linked only at a
successor that is `lost`. `Named` ties the id the panel shows to the run it is
about, `Entry` follows that run's entry in the steering map from session to
session (both in `Reach`), and `Started` which sessions the hooks have seen. `LockHasAnOwner` needs no such assumption: a panel that is "thinking" has a
busy run, whose end, failure or refusal unlocks it, also when the user abandons a
run that works.

**Transcript** (`TypeCorrect`, `WellFormed`, `KeptWhole`, `NeverBack`,
`ReloadIsFaithful`). `FileOK`
says of the turns on disk what `Shows` says of a history cut from them at a legal
place: calls and results alternate in pairs, but for the torn rounds. `PairOpen`
is the moment between the two turns of a round. `TornInv` says that the calls of
torn rounds have no answer on file and that only a crash makes one, which keeps the
exception of `WellFormed` to what the code cannot repair. `FormInv` relates what the run
shows to what the file would give: a prune is recorded as it is applied, and a
drop outlives a cut. The rest is arithmetic of sequences, stated as lemmas on
`Rebuilt`, `PushTurn`, `PushUser` and `Inject`. `ReloadIsFaithful` carries one more
relation through the run (`Agrees`): the history and what the file rebuilds hold
the same saved pieces in the same order. Selecting them with a filter would need
induction over the sequence; `Saved` gives each piece with the number of saved
ones before it instead, which says the same and is moved by counting alone.

**LivingDocument** (`TypeCorrect`, `ChangesAreTold`, `NumbersKept`, `HumanIsKept`,
`SaveChangesItsOwn`, `ClaimsAreFreed`). `Remembering` is stated of the memory that
goes on, which a handoff changes before the session does (`Lasting`): each change
is pending in it or found by its next read, each text it knows was seen, and its
ids are above those given out. `Alone` says that no run works while the
memory is being carried, and no subagent outside a run; `FirstTextKept` covers an empty section the person typed
as a handoff carried the memory, a case that needs more ids than TLC's instance.

**Consent** (`TypeCorrect`, `ConsentIsAsked`, `DecisionsAreKept`, `WaitsAreShown`).
`ArmsAllow`
is the policy alone: whatever an arm lets run unasked is due unasked, and the
asking arms are reached only by what may be asked. `MapsOK` says that an entry of
a map is there from registration to the reply, and `ClicksAgree` that a click on
its way to a call that still has its entry is the first decision; the rest follows because whoever
removes the entry answers the call. `WaitsAreShown` needs the order of the channel
(`Shown`): an agent has one call at a time and main none while its subagents work
(`AgentsOK`), so that no second question overwrites the first; the end of a run, which
clears the lists, is behind every card of it (`EndsOK`); and no question or answer,
which would set another status, is in the channel behind the card of a call that
waits (`CardSeen`, `QuestionSeen`).

**LocalServers** (`TypeCorrect`, `ServedOnce`, `NoServerIsLost`,
`LockIsLetGo`). `LockOK` says
that the lock is held exactly by the agent that clears, places or loads;
`RegistryOK` that the registry has one entry per model, below the setting;
`RecordsOK` that a process in a model's file is one of that model, and `HandsOK`
what an agent at each stage has in its hands. The processes that stay are then
those of the registry and the one being loaded. `LockIsLetGo` is the safety part of
`RequestsAreServed`: a step of the holder leaves it fewer ports to try, fewer
servers to evict or a shorter wait, or frees the lock, and nobody else's step
gives it more.

Only model-checked: the six liveness properties `QuietRunEnds`, `PauseIsHonoured`,
`RoundEnds`, `InputUnlocks`, `EveryWaitEnds` and `RequestsAreServed`. They rest on
fairness and `ENABLED`, which TLAPS does not reach here. Proved of each is what
does not: the measure that falls (`QuietRunsWindDown`, `StopIsNear`,
`RoundsWindDown`, `LockIsLetGo`), or the one whose step is awaited
(`LockHasAnOwner`, `WaitsAreShown`). Left to TLC is that some step is always
possible and is taken. Every invariant and action property of the passing runs is
proved.

## 6. Not modelled

* `RunLoop`: texts, tokens and costs; the budget that triggers compaction (a
  handoff may come at the top of any round with more than one message); the
  GitSync profile; retries of the provider; approvals inside a tool call; the
  layers of the quality gate and the subsets of them a run may leave out
  (`quality/config.rs:174`).
* `ToolBatch`: files changed by somebody outside the round; what a tool does.
* `SessionControl`: MCP start-up inside `send_message`; attachments; the awaits
  inside `new_session` (its SessionEnd hook) and `load_session`; several
  workspaces, which share only the maps keyed by session; the queue the panel
  shows to the user, and a message typed before the reply of the last; what
  `list_sessions` lists and `load_session` prepends; git-sync and manual compaction.
* `Transcript`: texts of the harness merged into a user message and the restated
  task list; the sizes that decide what is cut or compacted (any legal choice may
  be made); documents of a handoff; what a chain of sessions shows and costs.
* `LivingDocument`: the order and nesting of sections, their topics, the prose
  around them; the few milliseconds between a tool's own read and write of the
  file, and an `fs::write` torn in its middle; `doc_read` by main before it
  delegates. Known limits of the code that the properties except: a section the
  person cuts and pastes is taken for a new one and may be overwritten unseen
  (`brought`); a section put back brings its old claim back until the next run; a
  crash after the note was drained and before the results are on file loses the
  note; after a torn claim the section is given back as "todo".
* `Consent`: the shell gate's parsing (a command is listed, to be asked, or
  refused); panics inside a tool; `config.yolo` changed between two reads of one
  call; the status a SessionLinked event sets; the ToolResult events of tools other
  than main's `ask_user`, which change no status; "New" confirmed while a card waits, which leaves the run waiting
  (`ChatPanel.tsx:1423`). `ask_user` sends its event before it inserts its entry:
  the model takes it that a person answers no sooner than the entry is there.
* `LocalServers`: the phases and statistics shown, benchmarks, downloads and
  removal of models; admission by memory is one refusal; the eight retries of a
  request are not counted; status queries and the app's exit wait on the same lock
  for a whole load, which is a delay and no fault of order.
* Components with status `not_modelled` in `PROJECT.json`: each has its reason
  there. Hazards without a property carry a note saying why.

## 7. Plan

Done: the run loop, the tool round, session control, the transcript, the living
document, consent and the local servers, each with its proofs. What is left, in
order:

1. `QualityGate`: layers, subsets of layers, edits between the checks and the
   digest, the finish line's acceptance of a tool's run (`quality/mod.rs`,
   `agent/tools/quality.rs`). It refines the `evidence` variable of `RunLoop`.
2. The awaits inside `new_session` and `load_session` in `SessionControl`, and the
   queue of the panel with them.
3. The loop of a subagent and the collection of a batch (`agent/subagent.rs`),
   between `Consent`, which has the calls, and `RunLoop`, whose guards it shares in
   part.
4. MCP start-up (`state.rs:113`), the provider's retry rule, and
   `chain_cumulative_cost` as an operator beside `Transcript`.
5. Proofs: the refinement of `RunLoop`'s `evidence` by `QualityGate` when that is
   written, and the invariants of the steps that 2 and 3 add. Liveness stays with
   TLC.
