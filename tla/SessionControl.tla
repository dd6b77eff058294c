--------------------------- MODULE SessionControl ---------------------------
(***************************************************************************)
(* Which session the user talks to and which run works on it: the commands *)
(* send_message, new_session and load_session (commands/agent.rs), the run *)
(* driver spawn_run_loop, the handoff to a linked session (link_session,    *)
(* agent/transition.rs) and the panel's lock on the input (ChatPanel.tsx). *)
(* Commands and drivers are tasks that meet at the awaits between their     *)
(* steps; the app may die at any of them, and the files survive.            *)
(***************************************************************************)
EXTENDS Naturals

CONSTANTS
  MaxRuns,        \* bound of the model: messages sent
  MaxSessions,    \* bound of the model: session ids handed out
  MaxCrashes,     \* bound of the model: crashes of the app
  MayAbandon      \* whether the user confirms "Create new" while a run works

ASSUME ControlAssumption ==
  /\ MaxRuns \in Nat /\ MaxSessions \in Nat /\ MaxCrashes \in Nat
  /\ MayAbandon \in BOOLEAN

Runs      == 1..MaxRuns
Sessions  == 1..MaxSessions
NoSession == 0
NoRun     == 0

VARIABLES
  status,      \* the panel's status: "thinking" keeps the input queued
  shown,       \* the panel's activeSessionId: what Stop and queued messages name
  awaited,     \* the run whose send_message the panel still awaits the reply of
  active,      \* WorkspaceState.active_session
  given,       \* session ids handed out
  files,       \* session files on disk
  written,     \* files with a User or Turn record
  superseded,  \* the last HandoffTo record of each file
  linked,      \* the LinkedFrom record of each file
  registry,    \* AppState.steering: the controls of each session, by their first run
  startedSet,  \* AppState.session_started
  cleared,     \* WorkspaceState.cleared
  starts,      \* SessionStart hooks fired for each session since it was (re)opened
  phase,       \* where each run is, from its send_message to its end
  session,     \* handle: the session each run is on
  target,      \* the successor a handoff is making
  control,     \* the SteeringCtl each run holds
  lost,        \* history: sessions whose file went, or never came to be or to be linked
  robbed,      \* history: runs whose entry the driver of an earlier one took away
  crashes

disk   == <<files, written, superseded, linked>>
hooks  == <<startedSet, cleared, starts>>
driver == <<session, target, control>>
panel  == <<status, shown, awaited>>
past   == <<lost, robbed>>
vars   == <<panel, active, given, disk, registry, hooks, phase, driver, past, crashes>>

Phases == {"unused", "sent", "picked", "steered", "running", "superseded", "created",
           "linking", "moved", "swapped", "ending", "over"}

(* A run that works, from steering_for to its end, and one whose handoff has *)
(* told the old session of a successor that is not yet told of it.           *)
HandingOff == {"superseded", "created", "linking", "moved", "swapped"}
Steered    == {"steered", "running"} \cup HandingOff
Working    == {"picked"} \cup Steered
Unlinked   == {"superseded", "created"}

Go(r, next) == phase' = [phase EXCEPT ![r] = next]

(* A fresh id; the model hands out no more than MaxSessions of them. *)
IdsLeft == given # Sessions

NewId == CHOOSE s \in Sessions : s \notin given

Init ==
  /\ status = "idle"
  /\ shown = NoSession
  /\ awaited = NoRun
  /\ active = NoSession
  /\ given = {}
  /\ files = {}
  /\ written = {}
  /\ superseded = [s \in Sessions |-> NoSession]
  /\ linked = [s \in Sessions |-> NoSession]
  /\ registry = [s \in Sessions |-> NoRun]
  /\ startedSet = {}
  /\ cleared = FALSE
  /\ starts = [s \in Sessions |-> 0]
  /\ phase = [r \in Runs |-> "unused"]
  /\ session = [r \in Runs |-> NoSession]
  /\ target = [r \in Runs |-> NoSession]
  /\ control = [r \in Runs |-> NoRun]
  /\ lost = {}
  /\ robbed = {}
  /\ crashes = 0

-----------------------------------------------------------------------------
(* send_message. *)

(* The panel locks its input and calls the command.  The reply to the last *)
(* call is in before the user has typed another message.                   *)
Send(r) ==
  /\ status = "idle"
  /\ awaited = NoRun
  /\ phase[r] = "unused"
  /\ \A q \in 1..r - 1 : phase[q] # "unused"
  /\ status' = "thinking"
  /\ awaited' = r
  /\ Go(r, "sent")
  /\ UNCHANGED <<shown, active, given, disk, registry, hooks, driver, past, crashes>>

(* No API key, the workspace is closed, or the file cannot be made. *)
SendFails(r) ==
  /\ phase[r] = "sent"
  /\ status' = "idle"
  /\ awaited' = NoRun
  /\ Go(r, "over")
  /\ UNCHANGED <<shown, active, given, disk, registry, hooks, driver, past, crashes>>

(* Under the active_session lock: the active session, or a fresh one. *)
PickSession(r) ==
  /\ phase[r] = "sent"
  /\ \/ /\ active # NoSession
        /\ session' = [session EXCEPT ![r] = active]
        /\ UNCHANGED <<active, given, files>>
     \/ /\ active = NoSession
        /\ IdsLeft
        /\ session' = [session EXCEPT ![r] = NewId]
        /\ active' = NewId
        /\ given' = given \cup {NewId}
        /\ files' = files \cup {NewId}
  /\ Go(r, "picked")
  /\ UNCHANGED <<panel, written, superseded, linked, registry, hooks, target, control, past,
                 crashes>>

(* steering_for: the controls registered for the session, or new ones. *)
GetSteering(r) ==
  /\ phase[r] = "picked"
  /\ LET s == session[r]
         c == IF registry[s] # NoRun THEN registry[s] ELSE r
     IN  /\ registry' = [registry EXCEPT ![s] = c]
         /\ control' = [control EXCEPT ![r] = c]
  /\ Go(r, "steered")
  /\ UNCHANGED <<panel, active, given, disk, hooks, session, target, past, crashes>>

(* SessionStarted: the panel learns the session of the run it has started, *)
(* maybe after events of that run, even its last.                          *)
Reply(r) ==
  /\ awaited = r
  /\ phase[r] \notin {"sent", "picked"}
  /\ shown' = session[r]
  /\ awaited' = NoRun
  /\ UNCHANGED <<status, active, given, disk, registry, hooks, phase, driver, past, crashes>>

(* The SessionStart a run owes the hooks: the first run here of its session. *)
FireStart(s) ==
  /\ startedSet' = startedSet \cup {s}
  /\ cleared' = FALSE
  /\ starts' = [starts EXCEPT ![s] = IF s \in startedSet THEN @ ELSE @ + 1]

(* spawn_run_loop: the run fires its hooks, and a prompt hook may block it. *)
StartRun(r) ==
  /\ phase[r] = "steered"
  /\ FireStart(session[r])
  /\ \/ /\ Go(r, "running")
        /\ written' = written \cup {session[r]}
        /\ UNCHANGED status
     \/ /\ Go(r, "ending")
        /\ status' = "idle"
        /\ UNCHANGED written
  /\ UNCHANGED <<shown, awaited, active, given, files, superseded, linked, registry, driver, past,
                 crashes>>

-----------------------------------------------------------------------------
(* The driver. *)

(* Done, or Error: the panel unlocks, whichever run of the panel it came from. *)
EndRun(r) ==
  /\ phase[r] = "running"
  /\ Go(r, "ending")
  /\ status' = "idle"
  /\ UNCHANGED <<shown, awaited, active, given, disk, registry, hooks, driver, past, crashes>>

(* The last step of the driver: its session's entry goes, though a message *)
(* sent since its Done may have found it there and be using it.            *)
DropSteering(r) ==
  /\ phase[r] = "ending"
  /\ Go(r, "over")
  /\ registry' = [registry EXCEPT ![session[r]] = NoRun]
  /\ robbed' = robbed \cup {q \in Runs : /\ phase[q] \in Steered
                                         /\ session[q] = session[r]
                                         /\ registry[session[r]] = control[q]}
  /\ UNCHANGED <<panel, active, given, disk, hooks, driver, lost, crashes>>

(* link_session, one step per write and lock it takes, in its order. *)

(* Mutant: the old session is not told that it has a successor. *)
KeepOldRecords(r) == superseded

NowSuperseded(r) == [superseded EXCEPT ![session[r]] = target'[r]]

(* A handoff takes an answer of the model, so it comes after the reply. *)
WriteHandoffTo(r) ==
  /\ phase[r] = "running"
  /\ awaited # r
  /\ IdsLeft
  /\ target' = [target EXCEPT ![r] = NewId]
  /\ given' = given \cup {NewId}
  /\ superseded' = NowSuperseded(r)
  /\ Go(r, "superseded")
  /\ UNCHANGED <<panel, active, files, written, linked, registry, hooks, session, control, past,
                 crashes>>

CreateSuccessor(r) ==
  /\ phase[r] = "superseded"
  /\ files' = files \cup {target[r]}
  /\ Go(r, "created")
  /\ UNCHANGED <<panel, active, given, written, superseded, linked, registry, hooks, driver, past,
                 crashes>>

(* Mutant: a handoff that fails says nothing to the panel. *)
SilentFailure == "thinking"

(* What a failed handoff makes of the panel: its Error event unlocks it. *)
AfterFailure == "idle"

(* The file cannot be made: the HandoffTo record stays, and names nothing. *)
CannotCreate(r) ==
  /\ phase[r] = "superseded"
  /\ status' = AfterFailure
  /\ lost' = lost \cup {target[r]}
  /\ Go(r, "ending")
  /\ UNCHANGED <<shown, awaited, active, given, disk, registry, hooks, driver, robbed, crashes>>

(* Mutant: the successor is not told which session it continues. *)
KeepUnlinked(r) == linked

NowLinked(r) == [linked EXCEPT ![target[r]] = session[r]]

WriteLinkedFrom(r) ==
  /\ phase[r] = "created"
  /\ linked' = NowLinked(r)
  /\ Go(r, "linking")
  /\ UNCHANGED <<panel, active, given, files, written, superseded, registry, hooks, driver, past,
                 crashes>>

(* Mutant: the controls stay with the session the run has left. *)
LeaveControls(r) == registry

(* The entry of the old session, if there is one, becomes the new one's. *)
MovedControls(r) ==
  LET c == registry[session[r]]
  IN  IF c = NoRun THEN registry
      ELSE [registry EXCEPT ![session[r]] = NoRun, ![target[r]] = c]

MoveSteering(r) ==
  /\ phase[r] = "linking"
  /\ registry' = MovedControls(r)
  /\ Go(r, "moved")
  /\ UNCHANGED <<panel, active, given, disk, hooks, driver, past, crashes>>

(* Mutant: the workspace keeps the session the run has left. *)
StayActive(r) == active

NowActive(r) == target[r]

(* The swap, and SessionLinked: from here on the panel names the new session. *)
SwapActive(r) ==
  /\ phase[r] = "moved"
  /\ active' = NowActive(r)
  /\ shown' = target[r]
  /\ Go(r, "swapped")
  /\ UNCHANGED <<status, awaited, given, disk, registry, hooks, driver, past, crashes>>

(* Mutant: a handoff ends like any other run, with a Done event. *)
DoneAtHandoff == "idle"

(* A handoff sends SessionLinked and no Done: the input stays locked. *)
AfterHandoff == "thinking"

(* The loop goes on there: a "compact" SessionStart, and its first message. *)
Continue(r) ==
  /\ phase[r] = "swapped"
  /\ session' = [session EXCEPT ![r] = target[r]]
  /\ starts' = [starts EXCEPT ![target[r]] = @ + 1]
  /\ \/ /\ Go(r, "running")
        /\ written' = written \cup {target[r]}
        /\ status' = AfterHandoff
     \/ /\ Go(r, "ending")
        /\ status' = "idle"
        /\ UNCHANGED written
  /\ UNCHANGED <<shown, awaited, active, given, files, superseded, linked, registry, startedSet,
                 cleared, target, control, past, crashes>>

-----------------------------------------------------------------------------
(* The user's other commands; the panel awaits each, which is one step here. *)

(* Mutant: a session with content is taken for an empty one. *)
AlwaysEmpty(s) == TRUE

IsEmpty(s) == s \notin written

(* Mutant: the session stays among those that had their SessionStart. *)
StillStarted(s) == startedSet

NotStarted(s) == startedSet \ {s}

(* new_session: "New", confirmed in the popover while a run works. *)
NewSession ==
  /\ status = "idle" \/ MayAbandon
  /\ status' = "idle"
  /\ shown' = NoSession
  /\ active' = NoSession
  /\ cleared' = TRUE
  /\ \/ /\ active = NoSession
        /\ UNCHANGED <<files, registry, startedSet, starts, lost>>
     \/ /\ active # NoSession
        /\ registry' = [registry EXCEPT ![active] = NoRun]
        /\ startedSet' = NotStarted(active)
        /\ starts' = [starts EXCEPT ![active] = 0]
        /\ LET gone == {s \in {active} : IsEmpty(s)}
           IN  /\ files' = files \ gone
               /\ lost' = lost \cup gone
  /\ UNCHANGED <<awaited, given, written, superseded, linked, phase, driver, robbed, crashes>>

(* Mutant: the session the user picked is opened as it is. *)
PickedItself(s) == {s}

Hop(s) == IF superseded[s] \in files THEN superseded[s] ELSE s

(* load_session follows the HandoffTo records while their file is there: *)
(* the session at the end of that walk (the only one, a session knowing   *)
(* no successor but the one made last).                                   *)
Tips(s) ==
  {t \in files : \E n \in 0..MaxSessions : \E walk \in [0..n -> files] :
     /\ walk[0] = s
     /\ \A i \in 1..n : walk[i] = superseded[walk[i - 1]]
     /\ walk[n] = t /\ Hop(t) = t}

LoadSession(s) ==
  /\ status = "idle"
  /\ s \in files
  /\ active' \in Tips(s)
  /\ shown' = s
  /\ UNCHANGED <<status, awaited, given, disk, registry, hooks, phase, driver, past, crashes>>

(* The app dies and starts again: what is not on disk is gone. *)
Crash ==
  /\ crashes < MaxCrashes
  /\ crashes' = crashes + 1
  /\ status' = "idle"
  /\ shown' = NoSession
  /\ awaited' = NoRun
  /\ active' = NoSession
  /\ registry' = [s \in Sessions |-> NoRun]
  /\ startedSet' = {}
  /\ cleared' = FALSE
  /\ starts' = [s \in Sessions |-> 0]
  /\ phase' = [r \in Runs |-> IF phase[r] = "unused" THEN "unused" ELSE "over"]
  /\ lost' = lost \cup {target[r] : r \in {q \in Runs : phase[q] \in Unlinked}}
  /\ robbed' = {}
  /\ UNCHANGED <<given, disk, driver>>

-----------------------------------------------------------------------------
Handoff(r) == \/ WriteHandoffTo(r) \/ CreateSuccessor(r) \/ CannotCreate(r)
              \/ WriteLinkedFrom(r) \/ MoveSteering(r) \/ SwapActive(r) \/ Continue(r)

RunStep(r) == \/ SendFails(r) \/ PickSession(r) \/ GetSteering(r) \/ StartRun(r)
              \/ EndRun(r) \/ DropSteering(r) \/ Handoff(r)

Next == \/ \E r \in Runs : Send(r) \/ Reply(r) \/ RunStep(r)
        \/ NewSession
        \/ \E s \in Sessions : LoadSession(s)
        \/ Crash

(* Tasks are polled, and a run ends or hands off (module RunLoop). *)
Fairness == \A r \in Runs : WF_vars(RunStep(r))

Spec     == Init /\ [][Next]_vars
FairSpec == Spec /\ Fairness

-----------------------------------------------------------------------------
TypeOK ==
  /\ status \in {"idle", "thinking"}
  /\ shown \in given \cup {NoSession}
  /\ awaited \in Runs \cup {NoRun}
  /\ active \in files \cup {NoSession}
  /\ given \subseteq Sessions
  /\ files \subseteq given
  /\ written \subseteq files
  /\ superseded \in [Sessions -> given \cup {NoSession}]
  /\ linked \in [Sessions -> given \cup {NoSession}]
  /\ registry \in [Sessions -> Runs \cup {NoRun}]
  /\ startedSet \subseteq given
  /\ cleared \in BOOLEAN
  /\ starts \in [Sessions -> Nat]
  /\ phase \in [Runs -> Phases]
  /\ session \in [Runs -> given \cup {NoSession}]
  /\ target \in [Runs -> given \cup {NoSession}]
  /\ control \in [Runs -> Runs \cup {NoRun}]
  /\ lost \subseteq given
  /\ robbed \subseteq Runs
  /\ crashes \in 0..MaxCrashes

(* Two runs never work on one session: they would both append to its        *)
(* transcript, and its provider would see turns of two conversations.       *)
OneRunPerSession ==
  \A q, r \in Runs : q # r /\ phase[q] \in Working /\ phase[r] \in Working
                       => session[q] # session[r]

(* While a run works the workspace is on its session, so that the task list, *)
(* the document and the next message are those of what the user watches.     *)
ActiveFollowsTheRun ==
  \A r \in Runs :
    /\ phase[r] \in Working \ {"swapped"} => active = session[r]
    /\ phase[r] = "swapped" => active = target[r]

(* "reopening a superseded link must never resume a stale session": the      *)
(* workspace is on the last session of its chain, whenever the app died,     *)
(* but for the moment the run there is making the next one.                  *)
ActiveIsTheTip ==
  active # NoSession /\ Hop(active) # active =>
    \E r \in Runs : session[r] = active /\ phase[r] \in {"created", "linking", "moved"}

(* The two records that tie a chain together agree: the session that one     *)
(* continues is on disk and names it, and the one that a session names as    *)
(* its successor is on disk and continues it.  The exceptions are a handoff  *)
(* on its way to the LinkedFrom record, and a successor lost: link_session   *)
(* failed or died before that record, or the successor, never written to,    *)
(* was cleared away.  Nothing else may take either record or file away.      *)
ChainsReadBothWays ==
  \A s \in files :
    /\ linked[s] # NoSession => linked[s] \in files /\ superseded[linked[s]] = s
    /\ superseded[s] # NoSession =>
         \/ superseded[s] \in files /\ linked[superseded[s]] = s
         \/ superseded[s] \in lost
         \/ \E r \in Runs : session[r] = s /\ phase[r] \in Unlinked

(* The session that Stop and queued messages name leads to the controls of   *)
(* the run, from the reply that told the panel of it until the run ends,     *)
(* whatever was opened or cleared before and through all its handoffs.  The  *)
(* exceptions are the moment between the move of the controls and            *)
(* SessionLinked, when they are found under a session the panel does not     *)
(* know, and a run robbed by the driver of an earlier one of its session.    *)
StaysWithinReach ==
  \A r \in Runs :
    phase[r] \in Steered /\ awaited # r /\ r \notin robbed =>
      /\ control[r] # NoRun
      /\ IF phase[r] = "moved"
           THEN registry[target[r]] = control[r]
           ELSE shown # NoSession /\ registry[shown] = control[r]

(* A session that the HandoffTo record of another names. *)
Successor(s) == \E t \in Sessions : superseded[t] = s

(* "Only the first message of a session starts it": no session is worked on  *)
(* whose hooks have not had their SessionStart since it was opened, cleared  *)
(* and opened again, or the app started, and none has a second one, but for  *)
(* the successor of a handoff: the first message sent to it fires another.   *)
StartedOnce ==
  /\ \A r \in Runs : phase[r] = "running" => starts[session[r]] > 0
  /\ \A s \in Sessions : starts[s] <= 1 \/ (starts[s] = 2 /\ Successor(s))

(* The input does not stay locked: every message sent is answered by the end *)
(* of a run, a failure or a refusal that unlocks it.                         *)
InputUnlocks == status = "thinking" ~> status = "idle"
=============================================================================
