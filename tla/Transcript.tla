----------------------------- MODULE Transcript -----------------------------
(* One session's transcript: the file that only grows and the history the     *)
(* model is shown.  Every message rebuilds the history from the file; the run  *)
(* then changes both, not always alike: a text merged into a user message is   *)
(* only in the history, a message queued by the user is a record of its own,   *)
(* a prune and a compaction are markers the next rebuild must apply again.     *)
(*                                                                             *)
(* A history is a sequence of pieces; a message is a maximal run of pieces of  *)
(* one role (Opens).  Calls are numbered in the order the model made them.     *)
(* Not tracked: harness text merged into a user message, and the restated      *)
(* task list, which every rebuild derives from the task records.               *)
EXTENDS Integers, Sequences, FiniteSets

CONSTANTS
  RecentMessages,   \* PRESERVE_RECENT_MESSAGES: newest messages no lossless cut touches
  TailUserTurns,    \* TAIL_USER_TURNS: exchanges a compaction may keep verbatim
  MaxTurns,         \* no request once the file holds this many turns
  MaxPrompts, MaxSteers, MaxCalls, MaxPrunes, MaxMarks, MaxCrashes

ASSUME TranscriptAssumption ==
  /\ RecentMessages \in Nat \ {0, 1} /\ TailUserTurns \in Nat
  /\ \A m \in {MaxTurns, MaxPrompts, MaxSteers, MaxCalls, MaxPrunes, MaxMarks, MaxCrashes} :
       m \in Nat

VARIABLES
  turns,     \* the Turn and Steering records of the file, in order
  mark,      \* the last Compacted record: what it keeps starts at mark.start
  pruned,    \* calls the Pruned records cut or drop
  history,   \* what the model is shown while a run works
  form,      \* how each call was last shown
  tool,      \* the tool of each call made so far
  phase, pass, queued,
  torn,      \* calls whose round the app died in, between its two turns
  prompts, steers, prunes, marks, crashes

vars == <<turns, mark, pruned, history, form, tool, phase, pass, queued, torn,
          prompts, steers, prunes, marks, crashes>>
file == <<turns, mark, pruned>>
bounds == <<prompts, steers, prunes, marks, crashes>>

Snapshots == {"tasks", "longtasks"}        \* tasks_get, tasks_set; long: cut by the result cap
TaskTools == Snapshots \cup {"update"}
Tools == TaskTools \cup {"ask", "read"}
Phases == {"idle", "head", "shed", "compress", "request", "pair", "linked"}
InRun == phase \notin {"idle", "linked"}

-----------------------------------------------------------------------------
(* Pieces and messages. *)

Piece(rec, kind, n, calls) == [rec |-> rec, kind |-> kind, n |-> n, calls |-> calls]
Summary == Piece("mark", "summary", 0, {})

ByUser(p) == p.kind \notin {"reply", "calls"}
EndsByUser(h) == h # <<>> /\ ByUser(h[Len(h)])

(* A Turn opens a message of its own; anything else joins the role before it. *)
Opens(h, i) == i = 1 \/ h[i].rec = "turn" \/ ByUser(h[i]) # ByUser(h[i - 1])
MessageOf(h, i) == Cardinality({j \in 1..i : Opens(h, j)})
Messages(h) == MessageOf(h, Len(h))

AnsweredFrom(h, k) == UNION {h[i].calls : i \in {j \in k..Len(h) : h[j].kind = "results"}}
Answered(h) == AnsweredFrom(h, 1)
PlaceOf(h, kind, c) == CHOOSE i \in DOMAIN h : h[i].kind = kind /\ c \in h[i].calls

(* push_turn, push_user_blocks, inject_steering, on the file and the history *)
(* together: pg is a record of the two.                                       *)
Page == [turns |-> turns, history |-> history]

PushTurn(pg, kind, n, calls) ==
  LET p == Piece("turn", kind, n, calls)
  IN  [turns |-> Append(pg.turns, p), history |-> Append(pg.history, p)]

PushUser(pg, kind, n) ==
  IF EndsByUser(pg.history)
  THEN [pg EXCEPT !.history = Append(@, Piece("none", kind, n, {}))]
  ELSE PushTurn(pg, kind, n, {})

Nudge(pg) == IF EndsByUser(pg.history) THEN pg ELSE PushTurn(pg, "note", 0, {})

InjectUnrecorded(pg) == PushUser(pg, "steer", steers)

Inject(pg) ==
  LET p == Piece("steer", "steer", steers, {})
      written == Append(pg.turns, p)
  IN  [turns |-> IF EndsByUser(pg.history) THEN written
                 ELSE Append(written, Piece("turn", "steer", steers, {})),
       history |-> Append(pg.history, p)]

Write(pg) == turns' = pg.turns /\ history' = pg.history

-----------------------------------------------------------------------------
(* Rebuilding: history_from_records and apply_prunes. *)

Rebuilt(t, m) == (IF m.made THEN <<Summary>> ELSE <<>>) \o SubSeq(t, m.start, Len(t))

CutsFirst(p) == [c \in DOMAIN tool |-> IF c \in p.cut THEN "cut"
                                       ELSE IF c \in p.dropped THEN "dropped" ELSE "whole"]

FormOnDisk(p) == [c \in DOMAIN tool |-> IF c \in p.dropped THEN "dropped"
                                        ELSE IF c \in p.cut THEN "cut" ELSE "whole"]

(* is_real_user_turn: a Turn of the user's side that does not carry results. *)
AnyUserTurn(p) == p.rec = "turn" /\ ByUser(p)

RealUserTurn(p) == p.rec = "turn" /\ ByUser(p) /\ p.kind # "results"

(* compute_tail_turns and tail_start_index: the kept tail begins at a real user *)
(* turn since the last compaction, or there is no tail.                         *)
TailStarts ==
  {k \in (mark.at + 1)..Len(turns) :
     /\ RealUserTurn(turns[k])
     /\ Cardinality({j \in k..Len(turns) : RealUserTurn(turns[j])}) <= TailUserTurns}
  \cup {Len(turns) + 1}

-----------------------------------------------------------------------------
(* What a prune may cut: plan_lossless, then plan_by_age over what is left.  *)

(* collect_tool_calls: answered calls that no prune dropped. *)
Candidates == {c \in Answered(history) : form[c] # "dropped"}

Pinned(i) == \/ MessageOf(history, i) = 1
             \/ MessageOf(history, i) + RecentMessages > Messages(history)

ShownSnapshots == {c \in Candidates : tool[c] \in Snapshots /\ form[c] = "whole"}

Superseded ==
  {c \in Candidates :
     /\ tool[c] \in TaskTools
     /\ \E s \in ShownSnapshots : tool[s] = "tasks" /\ c < s
     /\ ~Pinned(PlaceOf(history, "calls", c)) /\ ~Pinned(PlaceOf(history, "results", c))}

WholeList ==
  {c \in Candidates : /\ tool[c] \in TaskTools
                      /\ \E s \in ShownSnapshots : tool[s] = "tasks"
                      /\ \A s \in ShownSnapshots : tool[s] = "tasks" => s <= c}

CurrentList ==
  {c \in Candidates : /\ tool[c] \in TaskTools /\ ShownSnapshots # {}
                      /\ \A s \in ShownSnapshots : s <= c}

Old(c) == LET m == MessageOf(history, PlaceOf(history, "results", c))
          IN  m # 1 /\ m + 2 <= Messages(history)

Maskable == {c \in Candidates \ CurrentList : tool[c] # "ask" /\ form[c] = "whole" /\ Old(c)}

-----------------------------------------------------------------------------
Init ==
  /\ turns = <<>> /\ mark = [made |-> FALSE, at |-> 0, start |-> 1]
  /\ pruned = [cut |-> {}, dropped |-> {}]
  /\ history = <<>> /\ form = <<>> /\ tool = <<>>
  /\ phase = "idle" /\ pass = "later" /\ queued = FALSE /\ torn = {}
  /\ prompts = 0 /\ steers = 0 /\ prunes = 0 /\ marks = 0 /\ crashes = 0

(* A message of the user: the history is rebuilt, the prompt added. *)
Send ==
  /\ phase = "idle" /\ prompts < MaxPrompts /\ Len(turns) < MaxTurns
  /\ Write(PushUser([turns |-> turns, history |-> Rebuilt(turns, mark)],
                    "prompt", prompts + 1))
  /\ form' = FormOnDisk(pruned)
  /\ prompts' = prompts + 1 /\ phase' = "head" /\ pass' = "opening"
  /\ UNCHANGED <<mark, pruned, tool, queued, torn, steers, prunes, marks, crashes>>

Queue ==
  /\ InRun /\ ~queued /\ steers < MaxSteers
  /\ queued' = TRUE /\ steers' = steers + 1
  /\ UNCHANGED <<file, history, form, tool, phase, pass, torn,
                 prompts, prunes, marks, crashes>>

(* Before a request, first the verbatim way.  The record is written, then the *)
(* same decision is applied to the history in memory.                          *)
Prune(cuts) ==
  /\ phase = "head" /\ prunes < MaxPrunes
  /\ cuts \cup Superseded # {}
  /\ pruned' = [cut |-> pruned.cut \cup cuts, dropped |-> pruned.dropped \cup Superseded]
  /\ form' = [c \in DOMAIN form |-> IF c \in Superseded THEN "dropped"
                                    ELSE IF c \in cuts THEN "cut" ELSE form[c]]
  /\ prunes' = prunes + 1 /\ phase' = "shed"
  /\ UNCHANGED <<turns, mark, history, tool, pass, queued, torn,
                 prompts, steers, marks, crashes>>

NoPrune ==
  /\ phase = "head" /\ phase' = "shed"
  /\ UNCHANGED <<file, history, form, tool, pass, queued, torn, bounds>>

(* Then the handoff: on success its document is the session's last turn.  On  *)
(* failure only its request stays, merged into the last user message.          *)
HandOff ==
  /\ phase = "shed" /\ Messages(history) > 1
  /\ Write(PushTurn(Page, "reply", 0, {}))
  /\ phase' = "linked" /\ queued' = FALSE
  /\ UNCHANGED <<mark, pruned, form, tool, pass, torn, bounds>>

NoHandOff ==
  /\ phase = "shed" /\ phase' = "compress"
  /\ UNCHANGED <<file, history, form, tool, pass, queued, torn, bounds>>

(* The prologue looks at the context once and every round once more. *)
Go(now, next) == IF pass = "opening" THEN now = "head" /\ next = "first"
                 ELSE now = "request" /\ next = pass

(* Then the summary.  The marker is written and the history rebuilt. *)
MarkPastTheEnd(k) == [made |-> TRUE, at |-> Len(turns) + 1, start |-> k]

Mark(k) == [made |-> TRUE, at |-> Len(turns), start |-> k]

Compact(k) ==
  /\ phase = "compress" /\ marks < MaxMarks /\ Messages(history) > 1
  /\ mark' = Mark(k) /\ marks' = marks + 1
  /\ history' = Rebuilt(turns, Mark(k)) /\ form' = FormOnDisk(pruned)
  /\ Go(phase', pass')
  /\ UNCHANGED <<turns, pruned, tool, queued, torn, prompts, steers, prunes, crashes>>

NoCompact ==
  /\ phase = "compress" /\ Go(phase', pass')
  /\ UNCHANGED <<file, history, form, tool, queued, torn, bounds>>

(* The user compacts between runs. *)
CompactAtRest(k) ==
  /\ phase = "idle" /\ turns # <<>> /\ marks < MaxMarks
  /\ mark' = Mark(k) /\ marks' = marks + 1
  /\ UNCHANGED <<turns, pruned, history, form, tool, phase, pass, queued, torn,
                 prompts, steers, prunes, crashes>>

-----------------------------------------------------------------------------
Rest == /\ phase' = "idle" /\ history' = <<>> /\ queued' = FALSE

(* What a run does after its turn is written: answer what was queued, send    *)
(* the model back to work, or end.                                            *)
Onward(pg, then) ==
  CASE then = "inject" -> /\ queued /\ Write(Inject(pg))
                          /\ queued' = FALSE /\ phase' = "head"
    [] then = "nudge"  -> /\ Write(Nudge(pg)) /\ phase' = "head" /\ UNCHANGED queued
    [] then = "end"    -> turns' = pg.turns /\ Rest

(* A reply without calls: an answer, one cut short by Stop or by the token    *)
(* cap, or nothing at all.                                                    *)
Reply(text, then) ==
  /\ phase = "request" /\ Len(turns) < MaxTurns
  /\ Onward(IF text THEN PushTurn(Page, "reply", 0, {}) ELSE Page, then)
  /\ pass' = "later"
  /\ UNCHANGED <<mark, pruned, form, tool, torn, bounds>>

(* A round of calls: once every tool has answered, the turn that asks ... *)
CallTurn(asked) ==
  /\ phase = "request" /\ Len(turns) < MaxTurns
  /\ Len(tool) + Len(asked) <= MaxCalls
  /\ Write(PushTurn(Page, "calls", 0, (Len(tool) + 1)..(Len(tool) + Len(asked))))
  /\ tool' = tool \o asked
  /\ form' = [c \in DOMAIN tool' |-> IF c \in DOMAIN form THEN form[c] ELSE "whole"]
  /\ phase' = "pair" /\ pass' = "later"
  /\ UNCHANGED <<mark, pruned, queued, torn, bounds>>

(* ... and the turn that answers, back to back. *)
ResultTurn(then) ==
  /\ phase = "pair" /\ (then = "nudge" => ~queued)
  /\ LET pg == PushTurn(Page, "results", 0, history[Len(history)].calls)
     IN  \/ Onward(pg, then)
         \/ then = "end" /\ Write(pg) /\ phase' = "linked" /\ queued' = FALSE
  /\ UNCHANGED <<mark, pruned, form, tool, pass, torn, bounds>>

(* The context is over the ceiling, or the request fails. *)
Refuse ==
  /\ phase = "request" /\ Rest
  /\ UNCHANGED <<file, form, tool, pass, torn, bounds>>

Crash ==
  /\ InRun /\ crashes < MaxCrashes /\ Rest
  /\ crashes' = crashes + 1
  /\ torn' = IF phase = "pair" THEN torn \cup history[Len(history)].calls ELSE torn
  /\ UNCHANGED <<file, form, tool, pass, prompts, steers, prunes, marks>>

(* Rounds of one call, and two of two: enough for a turn to hold more than one. *)
Asks == {<<a>> : a \in Tools} \cup {<<"ask", "read">>, <<"tasks", "update">>}
Thens == {"inject", "nudge", "end"}

Next ==
  \/ Send \/ Queue \/ NoPrune \/ HandOff \/ NoHandOff \/ NoCompact \/ Refuse \/ Crash
  \/ \E cuts \in SUBSET (Maskable \ Superseded) : Prune(cuts)
  \/ \E k \in TailStarts : Compact(k) \/ CompactAtRest(k)
  \/ \E text \in BOOLEAN, then \in Thens : Reply(text, then)
  \/ \E asked \in Asks : CallTurn(asked)
  \/ \E then \in Thens : ResultTurn(then)

Spec == Init /\ [][Next]_vars
-----------------------------------------------------------------------------
(* Type invariant.  The marker points into the file (Compacted.tail_turns     *)
(* counts turns back from the marker) and every call is known.                *)
Kinds == {"prompt", "steer", "note", "results", "summary", "reply", "calls"}
Pieces == [rec : {"turn", "steer", "mark", "none"}, kind : Kinds, n : Nat,
           calls : SUBSET (1..MaxCalls)]

TypeOK ==
  /\ turns \in Seq(Pieces) /\ history \in Seq(Pieces)
  /\ mark \in [made : BOOLEAN, at : 0..Len(turns), start : 1..(Len(turns) + 1)]
  /\ tool \in Seq(Tools) /\ Len(tool) <= MaxCalls
  /\ form \in [DOMAIN tool -> {"whole", "cut", "dropped"}]
  /\ pruned \in [cut : SUBSET DOMAIN tool, dropped : SUBSET DOMAIN tool]
  /\ torn \subseteq DOMAIN tool
  /\ phase \in Phases /\ pass \in {"opening", "first", "later"} /\ queued \in BOOLEAN
  /\ prompts \in Nat /\ steers \in Nat /\ prunes \in Nat /\ marks \in Nat /\ crashes \in Nat

(* What the model is sent is a conversation: it opens and ends on the user's  *)
(* side, every call is answered by the message after it and no answer lacks   *)
(* its call, whatever was merged, cut, summarized or reloaded before          *)
(* (tail_start_index never "splits a tool_use/tool_result pair").  The one    *)
(* exception is a round the app died in between its two turns: no rebuild     *)
(* repairs it, and its calls are sent again and again without an answer.  A   *)
(* call answered in the file, or made where nothing crashed, is never one of  *)
(* those.                                                                     *)
CallsAnswered(h) ==
  \A i \in DOMAIN h : h[i].kind = "calls" =>
    \/ i < Len(h) /\ h[i + 1].kind = "results" /\ h[i + 1].calls = h[i].calls
    \/ h[i].calls \subseteq torn
ResultsAsked(h) ==
  \A i \in DOMAIN h : h[i].kind = "results" =>
    i > 1 /\ h[i - 1].kind = "calls" /\ h[i - 1].calls = h[i].calls

RequestIsWellFormed ==
  phase = "request" =>
    /\ history # <<>> /\ ByUser(history[1]) /\ EndsByUser(history)
    /\ CallsAnswered(history) /\ ResultsAsked(history)
    /\ torn \cap Answered(turns) = {} /\ (crashes = 0 => torn = {})

(* A reload gives what the run was showing, merged texts excepted: "A reload  *)
(* applies the same decision to the same turns and differs only by those      *)
(* merges" (try_verbatim_compaction).  A queued message that opened a message *)
(* of its own is in the file twice, as its record and as its Turn; its Turn    *)
(* is left out of the comparison.                                             *)
IsSaved(p) == IF p.kind = "steer" THEN p.rec # "turn" ELSE p.rec # "none"

SavedPlaces(h) == {i \in 1..Len(h) : IsSaved(h[i])}
SavedBefore(h, i) == {j \in SavedPlaces(h) : j < i}

(* The saved pieces, each with how many come before it. *)
Saved(h) == {<<Cardinality(SavedBefore(h, i)), h[i]>> : i \in SavedPlaces(h)}

ReloadAgrees ==
  InRun => /\ Saved(history) = Saved(Rebuilt(turns, mark))
           /\ form = FormOnDisk(pruned)

(* No prune takes the user's answer to a question, nor the task list as the   *)
(* model knows it: the newest snapshot it was shown, even one the result cap   *)
(* cut, and the changes made to it since (plan_by_age), on any chain of        *)
(* prunes, compactions and reloads.                                            *)
Kept == AnsweredFrom(turns, mark.start)
Newest(s) == tool[s] \in Snapshots /\ \A t \in Kept : tool[t] \in Snapshots => t <= s

ListAndAnswersKept ==
  /\ \A c \in Kept : tool[c] = "ask" => form[c] = "whole"
  /\ \A s \in Kept, c \in Kept :
       Newest(s) /\ tool[c] \in TaskTools /\ s <= c => form[c] = "whole"

(* What was cut stays cut and what was dropped stays dropped: no later prune,  *)
(* compaction, crash or reload shows a call again as it was, which would       *)
(* change the prefix the provider has cached and undo what was freed.          *)
Rank(f) == CASE f = "whole" -> 0 [] f = "cut" -> 1 [] f = "dropped" -> 2

NothingComesBack ==
  [][\A c \in DOMAIN form : Rank(form[c]) <= Rank(form'[c])]_vars

(* The first request of a run shows the prompt the run was started with: the  *)
(* rebuilt history's kept tail "already contains the just-persisted user      *)
(* message" (run_workflow_with_profile, on the compaction before a run).       *)
PromptIsAsked ==
  phase = "request" /\ pass = "first" =>
    \E i \in DOMAIN history : history[i].kind = "prompt" /\ history[i].n = prompts
=============================================================================
