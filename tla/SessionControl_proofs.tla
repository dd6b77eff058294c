------------------------ MODULE SessionControl_proofs ------------------------
(***************************************************************************)
(* What SessionControl promises for any number of messages, sessions and    *)
(* crashes, as long as the user never abandons a working run.  The argument *)
(* is the panel's lock: a run that works keeps the status at "thinking", so *)
(* no command starts, opens or clears a session beside it, and the handoff  *)
(* of that one run finds the records and files as it left them.             *)
(***************************************************************************)
EXTENDS SessionControl, TLAPS

(* A run that keeps the input locked. *)
Busy(r) == phase[r] \in {"sent"} \cup Working

(* The lock: a busy run is alone, and the panel knows of it. *)
Locked ==
  /\ \A r \in Runs : Busy(r) => status = "thinking"
  /\ \A q, r \in Runs : Busy(q) /\ Busy(r) => q = r

(* An id that was never handed out stands in no record. *)
FreshIds ==
  \A s \in Sessions \ given : superseded[s] = NoSession /\ linked[s] = NoSession

(* No session is its own successor. *)
NoLoop == \A s \in Sessions : superseded[s] # s

(* How far a handoff has come, told by the files. *)
HandoffState ==
  \A r \in Runs :
    /\ phase[r] \in Working => session[r] \in files
    /\ phase[r] \in HandingOff =>
         /\ target[r] \in given
         /\ superseded[session[r]] = target[r]
         /\ superseded[target[r]] = NoSession
    /\ phase[r] = "superseded" => target[r] \notin files
    /\ phase[r] \in Unlinked => linked[target[r]] = NoSession
    /\ phase[r] \in HandingOff \ {"superseded"} => target[r] \in files

(* A session this process has counted as started has had its hook; another has  *)
(* had none, unless it is a successor the handoff has reached.                  *)
Started ==
  /\ StartedOnce
  /\ \A s \in startedSet : starts[s] > 0
  /\ \A s \in Sessions \ startedSet : starts[s] = 0 \/ (starts[s] = 1 /\ Successor(s))
  /\ \A s \in Sessions \ files : starts[s] = 0
  /\ \A r \in Runs : phase[r] \in HandingOff => target[r] \notin startedSet /\ starts[target[r]] = 0

(* A session that was handed on has content, so that no clearing deletes it. *)
WrittenFirst ==
  /\ \A r \in Runs : phase[r] \in {"running"} \cup HandingOff => session[r] \in written
  /\ \A s \in Sessions : superseded[s] # NoSession => s \in written

IInv ==
  /\ TypeOK
  /\ Locked
  /\ ActiveFollowsTheRun
  /\ FreshIds /\ NoLoop
  /\ HandoffState /\ WrittenFirst
  /\ ActiveIsTheTip
  /\ ChainsReadBothWays
  /\ Started

-----------------------------------------------------------------------------
(* A fresh id is a session nobody has. *)
LEMMA NewIdIsFresh ==
  ASSUME given \subseteq Sessions, IdsLeft
  PROVE  NewId \in Sessions /\ NewId \notin given
BY DEF NewId, IdsLeft

(* What load_session opens is a session on disk with no successor there. *)
LEMMA TipsAreTips ==
  ASSUME NEW s, NEW t \in Tips(s)
  PROVE  t \in files /\ Hop(t) = t
BY DEF Tips

(* Session ids and run numbers are not the values that stand for none. *)
LEMMA None == NoSession \notin Sessions /\ NoRun \notin Runs
BY ControlAssumption DEF NoSession, NoRun, Sessions, Runs

(* The lock is kept: what starts a run, or clears a session, waits for idle. *)
LEMMA LockedStep ==
  ASSUME ~MayAbandon, IInv, Next
  PROVE  Locked'
<1>. USE DEF panel, past, IInv, Locked, Busy, Working, Steered, HandingOff, TypeOK, Phases
<1>1. ASSUME NEW r \in Runs, Send(r) PROVE Locked'
  BY <1>1 DEF Send, Go
<1>2. ASSUME NEW r \in Runs, SendFails(r) PROVE Locked'
  BY <1>2 DEF SendFails, Go
<1>3. ASSUME NEW r \in Runs, PickSession(r) PROVE Locked'
  BY <1>3 DEF PickSession, Go
<1>4. ASSUME NEW r \in Runs, GetSteering(r) PROVE Locked'
  BY <1>4 DEF GetSteering, Go
<1>5. ASSUME NEW r \in Runs, StartRun(r) PROVE Locked'
  BY <1>5 DEF StartRun, Go
<1>6. ASSUME NEW r \in Runs, EndRun(r) PROVE Locked'
  BY <1>6 DEF EndRun, Go
<1>7. ASSUME NEW r \in Runs, DropSteering(r) PROVE Locked'
  BY <1>7 DEF DropSteering, Go
<1>8. ASSUME NEW r \in Runs, WriteHandoffTo(r) PROVE Locked'
  BY <1>8 DEF WriteHandoffTo, Go
<1>9. ASSUME NEW r \in Runs, CreateSuccessor(r) PROVE Locked'
  BY <1>9 DEF CreateSuccessor, Go
<1>10. ASSUME NEW r \in Runs, CannotCreate(r) PROVE Locked'
  BY <1>10 DEF CannotCreate, AfterFailure, Go
<1>11. ASSUME NEW r \in Runs, WriteLinkedFrom(r) PROVE Locked'
  BY <1>11 DEF WriteLinkedFrom, Go
<1>12. ASSUME NEW r \in Runs, MoveSteering(r) PROVE Locked'
  BY <1>12 DEF MoveSteering, Go
<1>13. ASSUME NEW r \in Runs, SwapActive(r) PROVE Locked'
  BY <1>13 DEF SwapActive, Go
<1>14. ASSUME NEW r \in Runs, Continue(r) PROVE Locked'
  BY <1>14 DEF Continue, AfterHandoff, Go
<1>15. CASE NewSession
  BY <1>15 DEF NewSession
<1>16. ASSUME NEW s \in Sessions, LoadSession(s) PROVE Locked'
  BY <1>16 DEF LoadSession
<1>17. CASE Crash
  BY <1>17 DEF Crash
<1>18. ASSUME NEW r \in Runs, Reply(r) PROVE Locked'
  BY <1>18 DEF Reply
<1>. QED
  BY <1>1, <1>2, <1>3, <1>4, <1>5, <1>6, <1>7, <1>8, <1>9, <1>10, <1>11, <1>12, <1>13, <1>14,
     <1>15, <1>16, <1>17, <1>18 DEF Next, RunStep, Handoff

(* Every step keeps the types: what a handoff works on is there when it does. *)
LEMMA TypeStep ==
  ASSUME ~MayAbandon, IInv, Next
  PROVE  TypeOK'
<1>. USE DEF panel, past, IInv, TypeOK
<1>1. ASSUME NEW r \in Runs, Send(r) PROVE TypeOK'
  BY <1>1 DEF Send, Go, disk, hooks, driver, Phases
<1>2. ASSUME NEW r \in Runs, SendFails(r) PROVE TypeOK'
  BY <1>2 DEF SendFails, Go, disk, hooks, driver, Phases
<1>3. ASSUME NEW r \in Runs, PickSession(r) PROVE TypeOK'
  BY <1>3, NewIdIsFresh DEF PickSession, IdsLeft, Go, hooks, Phases
<1>4. ASSUME NEW r \in Runs, GetSteering(r) PROVE TypeOK'
  BY <1>4 DEF GetSteering, Go, disk, hooks, HandoffState, Working, Steered, HandingOff, Phases
<1>5. ASSUME NEW r \in Runs, StartRun(r) PROVE TypeOK'
  <2>1. session[r] \in files
    BY <1>5 DEF StartRun, HandoffState, Working, Steered
  <2>2. phase' \in [Runs -> Phases]
    BY <1>5 DEF StartRun, Go, Phases
  <2>3. starts' \in [Sessions -> Nat]
    BY <1>5, <2>1 DEF StartRun, FireStart
  <2>. QED
    BY <1>5, <2>1, <2>2, <2>3 DEF StartRun, FireStart, driver
<1>6. ASSUME NEW r \in Runs, EndRun(r) PROVE TypeOK'
  BY <1>6 DEF EndRun, Go, disk, hooks, driver, Phases
<1>7. ASSUME NEW r \in Runs, DropSteering(r) PROVE TypeOK'
  BY <1>7 DEF DropSteering, Go, disk, hooks, driver, Phases
<1>8. ASSUME NEW r \in Runs, WriteHandoffTo(r) PROVE TypeOK'
  BY <1>8, NewIdIsFresh DEF WriteHandoffTo, NowSuperseded, IdsLeft, Go, hooks, Phases
<1>9. ASSUME NEW r \in Runs, CreateSuccessor(r) PROVE TypeOK'
  BY <1>9 DEF CreateSuccessor, Go, hooks, driver, HandoffState, Working, Steered, HandingOff, Phases
<1>10. ASSUME NEW r \in Runs, CannotCreate(r) PROVE TypeOK'
  BY <1>10 DEF CannotCreate, AfterFailure, Go, disk, hooks, driver, HandoffState, HandingOff, Phases
<1>11. ASSUME NEW r \in Runs, WriteLinkedFrom(r) PROVE TypeOK'
  BY <1>11 DEF WriteLinkedFrom, NowLinked, Go, hooks, driver, HandoffState, Working, Steered,
     HandingOff, Phases
<1>12. ASSUME NEW r \in Runs, MoveSteering(r) PROVE TypeOK'
  BY <1>12 DEF MoveSteering, MovedControls, Go, disk, hooks, driver, HandoffState, Working, Steered,
     HandingOff, Phases
<1>13. ASSUME NEW r \in Runs, SwapActive(r) PROVE TypeOK'
  BY <1>13 DEF SwapActive, NowActive, Go, disk, hooks, driver, HandoffState, Working, Steered, HandingOff,
     Phases
<1>14. ASSUME NEW r \in Runs, Continue(r) PROVE TypeOK'
  BY <1>14 DEF Continue, AfterHandoff, Go, HandoffState, Working, Steered, HandingOff, Phases
<1>15. CASE NewSession
  BY <1>15 DEF NewSession, NotStarted, driver, IsEmpty, Phases
<1>16. ASSUME NEW s \in Sessions, LoadSession(s) PROVE TypeOK'
  BY <1>16, TipsAreTips DEF LoadSession, disk, hooks, driver, Phases
<1>17. CASE Crash
  <2>1. crashes' \in 0..MaxCrashes
    BY <1>17, ControlAssumption DEF Crash
  <2>2. phase' \in [Runs -> Phases]
    BY <1>17 DEF Crash, Phases
  <2>3. lost' \subseteq given'
    <3>1. \A r \in Runs : phase[r] \in Unlinked => target[r] \in given
      BY DEF HandoffState, HandingOff, Unlinked
    <3>. QED
      BY <1>17, <3>1 DEF Crash
  <2>. QED
    BY <1>17, <2>1, <2>2, <2>3 DEF Crash, disk, driver
<1>18. ASSUME NEW r \in Runs, Reply(r) PROVE TypeOK'
  BY <1>18 DEF Reply, disk, hooks, driver, Phases
<1>. QED
  BY <1>1, <1>2, <1>3, <1>4, <1>5, <1>6, <1>7, <1>8, <1>9, <1>10, <1>11, <1>12, <1>13, <1>14,
     <1>15, <1>16, <1>17, <1>18 DEF Next, RunStep, Handoff

(* Only the one busy run moves the workspace to another session. *)
LEMMA ActiveStep ==
  ASSUME ~MayAbandon, IInv, Next
  PROVE  ActiveFollowsTheRun'
<1>. USE DEF panel, past, IInv, ActiveFollowsTheRun, Working, Steered, HandingOff, Locked, Busy, TypeOK
<1>1. ASSUME NEW r \in Runs, Send(r) PROVE ActiveFollowsTheRun'
  BY <1>1 DEF Send, Go, driver
<1>2. ASSUME NEW r \in Runs, SendFails(r) PROVE ActiveFollowsTheRun'
  BY <1>2 DEF SendFails, Go, driver
<1>3. ASSUME NEW r \in Runs, PickSession(r) PROVE ActiveFollowsTheRun'
  BY <1>3 DEF PickSession, Go
<1>4. ASSUME NEW r \in Runs, GetSteering(r) PROVE ActiveFollowsTheRun'
  BY <1>4 DEF GetSteering, Go
<1>5. ASSUME NEW r \in Runs, StartRun(r) PROVE ActiveFollowsTheRun'
  BY <1>5 DEF StartRun, Go, driver
<1>6. ASSUME NEW r \in Runs, EndRun(r) PROVE ActiveFollowsTheRun'
  BY <1>6 DEF EndRun, Go, driver
<1>7. ASSUME NEW r \in Runs, DropSteering(r) PROVE ActiveFollowsTheRun'
  BY <1>7 DEF DropSteering, Go, driver
<1>8. ASSUME NEW r \in Runs, WriteHandoffTo(r) PROVE ActiveFollowsTheRun'
  BY <1>8 DEF WriteHandoffTo, Go
<1>9. ASSUME NEW r \in Runs, CreateSuccessor(r) PROVE ActiveFollowsTheRun'
  BY <1>9 DEF CreateSuccessor, Go, driver
<1>10. ASSUME NEW r \in Runs, CannotCreate(r) PROVE ActiveFollowsTheRun'
  BY <1>10 DEF CannotCreate, Go, driver
<1>11. ASSUME NEW r \in Runs, WriteLinkedFrom(r) PROVE ActiveFollowsTheRun'
  BY <1>11 DEF WriteLinkedFrom, Go, driver
<1>12. ASSUME NEW r \in Runs, MoveSteering(r) PROVE ActiveFollowsTheRun'
  BY <1>12 DEF MoveSteering, Go, driver
<1>13. ASSUME NEW r \in Runs, SwapActive(r) PROVE ActiveFollowsTheRun'
  BY <1>13 DEF SwapActive, NowActive, Go, driver
<1>14. ASSUME NEW r \in Runs, Continue(r) PROVE ActiveFollowsTheRun'
  BY <1>14 DEF Continue, Go
<1>15. CASE NewSession
  BY <1>15 DEF NewSession, driver
<1>16. ASSUME NEW s \in Sessions, LoadSession(s) PROVE ActiveFollowsTheRun'
  BY <1>16 DEF LoadSession, driver
<1>17. CASE Crash
  BY <1>17 DEF Crash, driver
<1>18. ASSUME NEW r \in Runs, Reply(r) PROVE ActiveFollowsTheRun'
  BY <1>18 DEF Reply, driver
<1>. QED
  BY <1>1, <1>2, <1>3, <1>4, <1>5, <1>6, <1>7, <1>8, <1>9, <1>10, <1>11, <1>12, <1>13, <1>14,
     <1>15, <1>16, <1>17, <1>18 DEF Next, RunStep, Handoff

(* Records name sessions that were handed out, and never the one they are in. *)
LEMMA FreshStep ==
  ASSUME ~MayAbandon, IInv, Next
  PROVE  (FreshIds /\ NoLoop)'
<1>. USE DEF panel, past, IInv, FreshIds, NoLoop, TypeOK
<1>1. ASSUME NEW r \in Runs, Send(r) PROVE (FreshIds /\ NoLoop)'
  BY <1>1 DEF Send, disk
<1>2. ASSUME NEW r \in Runs, SendFails(r) PROVE (FreshIds /\ NoLoop)'
  BY <1>2 DEF SendFails, disk
<1>3. ASSUME NEW r \in Runs, PickSession(r) PROVE (FreshIds /\ NoLoop)'
  BY <1>3, NewIdIsFresh DEF PickSession, IdsLeft
<1>4. ASSUME NEW r \in Runs, GetSteering(r) PROVE (FreshIds /\ NoLoop)'
  BY <1>4 DEF GetSteering, disk
<1>5. ASSUME NEW r \in Runs, StartRun(r) PROVE (FreshIds /\ NoLoop)'
  BY <1>5 DEF StartRun
<1>6. ASSUME NEW r \in Runs, EndRun(r) PROVE (FreshIds /\ NoLoop)'
  BY <1>6 DEF EndRun, disk
<1>7. ASSUME NEW r \in Runs, DropSteering(r) PROVE (FreshIds /\ NoLoop)'
  BY <1>7 DEF DropSteering, disk
<1>8. ASSUME NEW r \in Runs, WriteHandoffTo(r) PROVE (FreshIds /\ NoLoop)'
  BY <1>8, NewIdIsFresh, None DEF WriteHandoffTo, NowSuperseded, IdsLeft, HandoffState, Working, Steered,
     HandingOff
<1>9. ASSUME NEW r \in Runs, CreateSuccessor(r) PROVE (FreshIds /\ NoLoop)'
  BY <1>9 DEF CreateSuccessor
<1>10. ASSUME NEW r \in Runs, CannotCreate(r) PROVE (FreshIds /\ NoLoop)'
  BY <1>10 DEF CannotCreate, disk
<1>11. ASSUME NEW r \in Runs, WriteLinkedFrom(r) PROVE (FreshIds /\ NoLoop)'
  BY <1>11 DEF WriteLinkedFrom, NowLinked, HandoffState, Working, Steered, HandingOff
<1>12. ASSUME NEW r \in Runs, MoveSteering(r) PROVE (FreshIds /\ NoLoop)'
  BY <1>12 DEF MoveSteering, disk
<1>13. ASSUME NEW r \in Runs, SwapActive(r) PROVE (FreshIds /\ NoLoop)'
  BY <1>13 DEF SwapActive, disk
<1>14. ASSUME NEW r \in Runs, Continue(r) PROVE (FreshIds /\ NoLoop)'
  BY <1>14 DEF Continue
<1>15. CASE NewSession
  BY <1>15 DEF NewSession
<1>16. ASSUME NEW s \in Sessions, LoadSession(s) PROVE (FreshIds /\ NoLoop)'
  BY <1>16 DEF LoadSession, disk
<1>17. CASE Crash
  BY <1>17 DEF Crash, disk
<1>18. ASSUME NEW r \in Runs, Reply(r) PROVE (FreshIds /\ NoLoop)'
  BY <1>18 DEF Reply, disk
<1>. QED
  BY <1>1, <1>2, <1>3, <1>4, <1>5, <1>6, <1>7, <1>8, <1>9, <1>10, <1>11, <1>12, <1>13, <1>14,
     <1>15, <1>16, <1>17, <1>18 DEF Next, RunStep, Handoff

(* A handoff finds its records and files as it left them. *)
LEMMA HandoffStep ==
  ASSUME ~MayAbandon, IInv, Next
  PROVE  HandoffState'
<1>. USE DEF panel, past, IInv, HandoffState, Unlinked, Locked, Busy, Working, Steered,
             HandingOff, TypeOK
<1>1. ASSUME NEW r \in Runs, Send(r) PROVE HandoffState'
  BY <1>1 DEF Send, Go, disk, driver
<1>2. ASSUME NEW r \in Runs, SendFails(r) PROVE HandoffState'
  BY <1>2 DEF SendFails, Go, disk, driver
<1>3. ASSUME NEW r \in Runs, PickSession(r) PROVE HandoffState'
  BY <1>3, NewIdIsFresh DEF PickSession, IdsLeft, Go, ActiveFollowsTheRun, FreshIds
<1>4. ASSUME NEW r \in Runs, GetSteering(r) PROVE HandoffState'
  BY <1>4 DEF GetSteering, Go, disk
<1>5. ASSUME NEW r \in Runs, StartRun(r) PROVE HandoffState'
  BY <1>5 DEF StartRun, Go, driver
<1>6. ASSUME NEW r \in Runs, EndRun(r) PROVE HandoffState'
  BY <1>6 DEF EndRun, Go, disk, driver
<1>7. ASSUME NEW r \in Runs, DropSteering(r) PROVE HandoffState'
  BY <1>7 DEF DropSteering, Go, disk, driver
<1>8. ASSUME NEW r \in Runs, WriteHandoffTo(r) PROVE HandoffState'
  BY <1>8, NewIdIsFresh DEF WriteHandoffTo, NowSuperseded, IdsLeft, Go, FreshIds, NoLoop
<1>9. ASSUME NEW r \in Runs, CreateSuccessor(r) PROVE HandoffState'
  BY <1>9 DEF CreateSuccessor, Go, driver
<1>10. ASSUME NEW r \in Runs, CannotCreate(r) PROVE HandoffState'
  BY <1>10 DEF CannotCreate, Go, disk, driver
<1>11. ASSUME NEW r \in Runs, WriteLinkedFrom(r) PROVE HandoffState'
  BY <1>11 DEF WriteLinkedFrom, Go, driver
<1>12. ASSUME NEW r \in Runs, MoveSteering(r) PROVE HandoffState'
  BY <1>12 DEF MoveSteering, Go, disk, driver
<1>13. ASSUME NEW r \in Runs, SwapActive(r) PROVE HandoffState'
  BY <1>13 DEF SwapActive, Go, disk, driver
<1>14. ASSUME NEW r \in Runs, Continue(r) PROVE HandoffState'
  BY <1>14 DEF Continue, Go
<1>15. CASE NewSession
  BY <1>15 DEF NewSession, driver
<1>16. ASSUME NEW s \in Sessions, LoadSession(s) PROVE HandoffState'
  BY <1>16 DEF LoadSession, disk, driver
<1>17. CASE Crash
  BY <1>17 DEF Crash, disk, driver
<1>18. ASSUME NEW r \in Runs, Reply(r) PROVE HandoffState'
  BY <1>18 DEF Reply, disk, driver
<1>. QED
  BY <1>1, <1>2, <1>3, <1>4, <1>5, <1>6, <1>7, <1>8, <1>9, <1>10, <1>11, <1>12, <1>13, <1>14,
     <1>15, <1>16, <1>17, <1>18 DEF Next, RunStep, Handoff

(* The workspace is on the tip, or the run there has just made the next one. *)
LEMMA TipStep ==
  ASSUME ~MayAbandon, IInv, Next
  PROVE  ActiveIsTheTip'
<1>. USE DEF panel, past, IInv, ActiveIsTheTip, Hop, Locked, Busy, Working, Steered, HandingOff, TypeOK
<1>1. ASSUME NEW r \in Runs, Send(r) PROVE ActiveIsTheTip'
  BY <1>1 DEF Send, Go, disk, driver
<1>2. ASSUME NEW r \in Runs, SendFails(r) PROVE ActiveIsTheTip'
  BY <1>2 DEF SendFails, Go, disk, driver
<1>3. ASSUME NEW r \in Runs, PickSession(r) PROVE ActiveIsTheTip'
  BY <1>3, NewIdIsFresh, None DEF PickSession, IdsLeft, Go, FreshIds
<1>4. ASSUME NEW r \in Runs, GetSteering(r) PROVE ActiveIsTheTip'
  BY <1>4 DEF GetSteering, Go, disk
<1>5. ASSUME NEW r \in Runs, StartRun(r) PROVE ActiveIsTheTip'
  BY <1>5 DEF StartRun, Go, driver
<1>6. ASSUME NEW r \in Runs, EndRun(r) PROVE ActiveIsTheTip'
  BY <1>6 DEF EndRun, Go, disk, driver
<1>7. ASSUME NEW r \in Runs, DropSteering(r) PROVE ActiveIsTheTip'
  BY <1>7 DEF DropSteering, Go, disk, driver
<1>8. ASSUME NEW r \in Runs, WriteHandoffTo(r) PROVE ActiveIsTheTip'
  BY <1>8, NewIdIsFresh DEF WriteHandoffTo, NowSuperseded, IdsLeft, Go, ActiveFollowsTheRun
<1>9. ASSUME NEW r \in Runs, CreateSuccessor(r) PROVE ActiveIsTheTip'
  BY <1>9 DEF CreateSuccessor, Go, driver, ActiveFollowsTheRun, HandoffState
<1>10. ASSUME NEW r \in Runs, CannotCreate(r) PROVE ActiveIsTheTip'
  BY <1>10 DEF CannotCreate, Go, disk, driver
<1>11. ASSUME NEW r \in Runs, WriteLinkedFrom(r) PROVE ActiveIsTheTip'
  BY <1>11 DEF WriteLinkedFrom, Go, driver
<1>12. ASSUME NEW r \in Runs, MoveSteering(r) PROVE ActiveIsTheTip'
  BY <1>12 DEF MoveSteering, Go, disk, driver
<1>13. ASSUME NEW r \in Runs, SwapActive(r) PROVE ActiveIsTheTip'
  BY <1>13, None DEF SwapActive, NowActive, Go, disk, driver, HandoffState
<1>14. ASSUME NEW r \in Runs, Continue(r) PROVE ActiveIsTheTip'
  BY <1>14 DEF Continue, Go, HandoffState, ActiveFollowsTheRun
<1>15. CASE NewSession
  BY <1>15 DEF NewSession, driver
<1>16. ASSUME NEW s \in Sessions, LoadSession(s) PROVE ActiveIsTheTip'
  BY <1>16, TipsAreTips DEF LoadSession, disk, driver
<1>17. CASE Crash
  BY <1>17 DEF Crash, disk, driver
<1>18. ASSUME NEW r \in Runs, Reply(r) PROVE ActiveIsTheTip'
  BY <1>18 DEF Reply, disk, driver
<1>. QED
  BY <1>1, <1>2, <1>3, <1>4, <1>5, <1>6, <1>7, <1>8, <1>9, <1>10, <1>11, <1>12, <1>13, <1>14,
     <1>15, <1>16, <1>17, <1>18 DEF Next, RunStep, Handoff

(* What is handed on was written first, and no clearing takes it. *)
LEMMA WrittenStep ==
  ASSUME ~MayAbandon, IInv, Next
  PROVE  WrittenFirst'
<1>. USE DEF panel, past, disk, driver, IInv, WrittenFirst, HandingOff, TypeOK
<1>1. ASSUME NEW r \in Runs, Send(r) PROVE WrittenFirst'
  BY <1>1 DEF Send, Go
<1>2. ASSUME NEW r \in Runs, SendFails(r) PROVE WrittenFirst'
  BY <1>2 DEF SendFails, Go
<1>3. ASSUME NEW r \in Runs, PickSession(r) PROVE WrittenFirst'
  BY <1>3 DEF PickSession, Go
<1>4. ASSUME NEW r \in Runs, GetSteering(r) PROVE WrittenFirst'
  BY <1>4 DEF GetSteering, Go
<1>5. ASSUME NEW r \in Runs, StartRun(r) PROVE WrittenFirst'
  BY <1>5 DEF StartRun, Go
<1>6. ASSUME NEW r \in Runs, EndRun(r) PROVE WrittenFirst'
  BY <1>6 DEF EndRun, Go
<1>7. ASSUME NEW r \in Runs, DropSteering(r) PROVE WrittenFirst'
  BY <1>7 DEF DropSteering, Go
<1>8. ASSUME NEW r \in Runs, WriteHandoffTo(r) PROVE WrittenFirst'
  BY <1>8 DEF WriteHandoffTo, Go, NowSuperseded
<1>9. ASSUME NEW r \in Runs, CreateSuccessor(r) PROVE WrittenFirst'
  BY <1>9 DEF CreateSuccessor, Go
<1>10. ASSUME NEW r \in Runs, CannotCreate(r) PROVE WrittenFirst'
  BY <1>10 DEF CannotCreate, Go, AfterFailure
<1>11. ASSUME NEW r \in Runs, WriteLinkedFrom(r) PROVE WrittenFirst'
  BY <1>11 DEF WriteLinkedFrom, Go
<1>12. ASSUME NEW r \in Runs, MoveSteering(r) PROVE WrittenFirst'
  BY <1>12 DEF MoveSteering, Go
<1>13. ASSUME NEW r \in Runs, SwapActive(r) PROVE WrittenFirst'
  BY <1>13 DEF SwapActive, Go
<1>14. ASSUME NEW r \in Runs, Continue(r) PROVE WrittenFirst'
  BY <1>14 DEF Continue, Go, HandoffState, Working, Steered
<1>15. CASE NewSession
  BY <1>15 DEF NewSession
<1>16. ASSUME NEW s \in Sessions, LoadSession(s) PROVE WrittenFirst'
  BY <1>16 DEF LoadSession
<1>17. CASE Crash
  BY <1>17 DEF Crash
<1>18. ASSUME NEW r \in Runs, Reply(r) PROVE WrittenFirst'
  BY <1>18 DEF Reply
<1>. QED
  BY <1>1, <1>2, <1>3, <1>4, <1>5, <1>6, <1>7, <1>8, <1>9, <1>10, <1>11, <1>12, <1>13, <1>14,
     <1>15, <1>16, <1>17, <1>18 DEF Next, RunStep, Handoff

(* Each LinkedFrom answers the HandoffTo that is in force, and the HandoffTo has its *)
(* LinkedFrom unless the handoff is on its way there or was cut short.             *)
LEMMA ChainStep ==
  ASSUME ~MayAbandon, IInv, Next
  PROVE  ChainsReadBothWays'
<1>. USE None DEF panel, past, disk, driver, IInv, ChainsReadBothWays, TypeOK, Unlinked, Go
<1>1. ASSUME NEW r \in Runs, Send(r) PROVE ChainsReadBothWays'
  BY <1>1 DEF Send
<1>2. ASSUME NEW r \in Runs, SendFails(r) PROVE ChainsReadBothWays'
  BY <1>2 DEF SendFails
<1>3. ASSUME NEW r \in Runs, PickSession(r) PROVE ChainsReadBothWays'
  BY <1>3, NewIdIsFresh DEF PickSession, IdsLeft, FreshIds
<1>4. ASSUME NEW r \in Runs, GetSteering(r) PROVE ChainsReadBothWays'
  BY <1>4 DEF GetSteering
<1>5. ASSUME NEW r \in Runs, StartRun(r) PROVE ChainsReadBothWays'
  BY <1>5 DEF StartRun
<1>6. ASSUME NEW r \in Runs, EndRun(r) PROVE ChainsReadBothWays'
  BY <1>6 DEF EndRun
<1>7. ASSUME NEW r \in Runs, DropSteering(r) PROVE ChainsReadBothWays'
  BY <1>7 DEF DropSteering
<1>8. ASSUME NEW r \in Runs, WriteHandoffTo(r) PROVE ChainsReadBothWays'
  BY <1>8, NewIdIsFresh DEF WriteHandoffTo, NowSuperseded, IdsLeft, ActiveFollowsTheRun,
     ActiveIsTheTip, NoLoop, Hop, Locked, Busy, HandoffState, Working, Steered, HandingOff
<1>9. ASSUME NEW r \in Runs, CreateSuccessor(r) PROVE ChainsReadBothWays'
  BY <1>9 DEF CreateSuccessor, HandoffState, Locked, Busy, Working, Steered, HandingOff
<1>10. ASSUME NEW r \in Runs, CannotCreate(r) PROVE ChainsReadBothWays'
  BY <1>10 DEF CannotCreate, HandoffState, Working, Steered, HandingOff
<1>11. ASSUME NEW r \in Runs, WriteLinkedFrom(r) PROVE ChainsReadBothWays'
  BY <1>11 DEF WriteLinkedFrom, NowLinked, HandoffState, Locked, Busy, Working, Steered,
     HandingOff
<1>12. ASSUME NEW r \in Runs, MoveSteering(r) PROVE ChainsReadBothWays'
  BY <1>12 DEF MoveSteering
<1>13. ASSUME NEW r \in Runs, SwapActive(r) PROVE ChainsReadBothWays'
  BY <1>13 DEF SwapActive
<1>14. ASSUME NEW r \in Runs, Continue(r) PROVE ChainsReadBothWays'
  BY <1>14 DEF Continue
<1>15. CASE NewSession
  BY <1>15 DEF NewSession, IsEmpty, WrittenFirst
<1>16. ASSUME NEW s \in Sessions, LoadSession(s) PROVE ChainsReadBothWays'
  BY <1>16 DEF LoadSession
<1>17. CASE Crash
  BY <1>17 DEF Crash, HandoffState, HandingOff
<1>18. ASSUME NEW r \in Runs, Reply(r) PROVE ChainsReadBothWays'
  BY <1>18 DEF Reply
<1>. QED
  BY <1>1, <1>2, <1>3, <1>4, <1>5, <1>6, <1>7, <1>8, <1>9, <1>10, <1>11, <1>12, <1>13, <1>14,
     <1>15, <1>16, <1>17, <1>18 DEF Next, RunStep, Handoff

(* The hooks of a session have fired by the time a run of it is at work. *)
LEMMA StartStep ==
  ASSUME ~MayAbandon, IInv, Next
  PROVE  Started'
<1>. USE DEF panel, past, IInv, Started, StartedOnce, TypeOK, Working, Steered, HandingOff, Successor
<1>1. ASSUME NEW r \in Runs, Send(r) PROVE Started'
  BY <1>1 DEF Send, Go, hooks, driver, disk
<1>2. ASSUME NEW r \in Runs, SendFails(r) PROVE Started'
  BY <1>2 DEF SendFails, Go, hooks, driver, disk
<1>3. ASSUME NEW r \in Runs, PickSession(r) PROVE Started'
  BY <1>3, NewIdIsFresh DEF PickSession, IdsLeft, Go, hooks, driver, disk
<1>4. ASSUME NEW r \in Runs, GetSteering(r) PROVE Started'
  BY <1>4 DEF GetSteering, Go, hooks, driver, disk
<1>5. ASSUME NEW r \in Runs, StartRun(r) PROVE Started'
  BY <1>5 DEF StartRun, FireStart, Go, driver, disk, HandoffState, Locked, Busy
<1>6. ASSUME NEW r \in Runs, EndRun(r) PROVE Started'
  BY <1>6 DEF EndRun, Go, hooks, driver, disk
<1>7. ASSUME NEW r \in Runs, DropSteering(r) PROVE Started'
  BY <1>7 DEF DropSteering, Go, hooks, driver, disk
<1>8. ASSUME NEW r \in Runs, WriteHandoffTo(r) PROVE Started'
  <2>1. superseded[session[r]] \notin files
    <3>1. active = session[r] /\ phase[r] = "running"
      BY <1>8 DEF WriteHandoffTo, ActiveFollowsTheRun
    <3>2. session[r] \in files /\ session[r] # NoSession
      BY <1>8, <3>1, None DEF HandoffState
    <3>3. Hop(active) = active
      BY <3>1, <3>2 DEF ActiveIsTheTip, Locked, Busy
    <3>. QED
      BY <3>1, <3>2, <3>3 DEF Hop, NoLoop
  <2>. QED
    BY <1>8, <2>1, NewIdIsFresh DEF WriteHandoffTo, NowSuperseded, IdsLeft, Go, hooks, driver
<1>9. ASSUME NEW r \in Runs, CreateSuccessor(r) PROVE Started'
  BY <1>9 DEF CreateSuccessor, Go, hooks, driver, disk
<1>10. ASSUME NEW r \in Runs, CannotCreate(r) PROVE Started'
  BY <1>10 DEF CannotCreate, Go, hooks, driver, disk
<1>11. ASSUME NEW r \in Runs, WriteLinkedFrom(r) PROVE Started'
  BY <1>11 DEF WriteLinkedFrom, Go, hooks, driver, disk
<1>12. ASSUME NEW r \in Runs, MoveSteering(r) PROVE Started'
  BY <1>12 DEF MoveSteering, Go, hooks, driver, disk
<1>13. ASSUME NEW r \in Runs, SwapActive(r) PROVE Started'
  BY <1>13 DEF SwapActive, Go, hooks, driver, disk
<1>14. ASSUME NEW r \in Runs, Continue(r) PROVE Started'
  BY <1>14 DEF Continue, Go, driver, disk, HandoffState, Locked, Busy
<1>15. CASE NewSession
  BY <1>15 DEF NewSession, NotStarted, driver, Locked, Busy, HandoffState
<1>16. ASSUME NEW s \in Sessions, LoadSession(s) PROVE Started'
  BY <1>16 DEF LoadSession, hooks, driver, disk
<1>17. CASE Crash
  BY <1>17 DEF Crash, driver, disk
<1>18. ASSUME NEW r \in Runs, Reply(r) PROVE Started'
  BY <1>18 DEF Reply, hooks, driver, disk
<1>. QED
  BY <1>1, <1>2, <1>3, <1>4, <1>5, <1>6, <1>7, <1>8, <1>9, <1>10, <1>11, <1>12, <1>13, <1>14,
     <1>15, <1>16, <1>17, <1>18 DEF Next, RunStep, Handoff

-----------------------------------------------------------------------------
(* IInv is inductive as long as nobody abandons a run. *)
THEOREM Invariant ==
  ASSUME ~MayAbandon
  PROVE  Spec => []IInv
<1>1. Init => IInv
  <2>1. Init => TypeOK
    <3>1. Init => phase \in [Runs -> Phases]
      BY DEF Init, Phases
    <3>2. Init => crashes \in 0..MaxCrashes
      BY ControlAssumption DEF Init
    <3>3. Init => /\ given \subseteq Sessions /\ active \in files \cup {NoSession}
                  /\ files \subseteq given /\ written \subseteq files
      BY DEF Init
    <3>4. Init => /\ superseded \in [Sessions -> given \cup {NoSession}]
                  /\ linked \in [Sessions -> given \cup {NoSession}]
                  /\ registry \in [Sessions -> Runs \cup {NoRun}]
                  /\ starts \in [Sessions -> Nat]
      BY DEF Init
    <3>5. Init => /\ session \in [Runs -> given \cup {NoSession}]
                  /\ target \in [Runs -> given \cup {NoSession}]
                  /\ control \in [Runs -> Runs \cup {NoRun}]
      BY DEF Init
    <3>6. Init => /\ shown \in given \cup {NoSession} /\ awaited \in Runs \cup {NoRun}
                  /\ lost \subseteq given /\ robbed \subseteq Runs
      BY DEF Init
    <3>. QED
      BY <3>1, <3>2, <3>3, <3>4, <3>5, <3>6 DEF Init, TypeOK
  <2>2. Init => \A r \in Runs : phase[r] = "unused"
    BY DEF Init
  <2>3. Init => Locked /\ ActiveFollowsTheRun /\ HandoffState
    BY <2>2 DEF Locked, Busy, ActiveFollowsTheRun, HandoffState, Unlinked, Working, Steered,
       HandingOff
  <2>4. Init => FreshIds /\ NoLoop /\ WrittenFirst
    BY <2>2, None DEF Init, FreshIds, NoLoop, WrittenFirst, HandingOff
  <2>5. Init => ActiveIsTheTip /\ ChainsReadBothWays /\ Started
    BY <2>2 DEF Init, ActiveIsTheTip, ChainsReadBothWays, Started, StartedOnce, HandingOff
  <2>. QED
    BY <2>1, <2>3, <2>4, <2>5 DEF IInv
<1>2. IInv /\ [Next]_vars => IInv'
  <2>1. CASE UNCHANGED vars
    BY <2>1 DEF vars, panel, past, disk, hooks, driver, IInv, TypeOK, Locked, Busy, Working, Steered, HandingOff,
       Steered, ActiveFollowsTheRun, FreshIds, NoLoop, HandoffState, Unlinked, WrittenFirst,
       ActiveIsTheTip, Hop,
       ChainsReadBothWays, Started, StartedOnce, Successor
  <2>2. ASSUME IInv, Next PROVE IInv'
    BY <2>2, LockedStep, TypeStep, ActiveStep, FreshStep, HandoffStep, WrittenStep, TipStep,
       ChainStep, StartStep DEF IInv
  <2>. QED
    BY <2>1, <2>2
<1>. QED
  BY <1>1, <1>2, PTL DEF Spec

(* Every variable of SessionControl keeps its type: the workspace is on a  *)
(* session whose file exists, records name ids that were handed out.       *)
THEOREM TypeCorrect ==
  ASSUME ~MayAbandon
  PROVE  Spec => []TypeOK
<1>1. IInv => TypeOK
  BY DEF IInv
<1>. QED
  BY <1>1, Invariant, PTL

(* The panel's lock is enough: no two runs work on one session. *)
THEOREM RunsAreAlone ==
  ASSUME ~MayAbandon
  PROVE  Spec => []OneRunPerSession
<1>1. IInv => OneRunPerSession
  BY DEF IInv, Locked, Busy, OneRunPerSession
<1>. QED
  BY <1>1, Invariant, PTL

(* The workspace is on the session of the run that works, through every *)
(* step of a handoff.                                                   *)
THEOREM WorkspaceFollows ==
  ASSUME ~MayAbandon
  PROVE  Spec => []ActiveFollowsTheRun
<1>1. IInv => ActiveFollowsTheRun
  BY DEF IInv
<1>. QED
  BY <1>1, Invariant, PTL

(* "reopening a superseded link must never resume a stale session", however *)
(* often the app dies between two writes of a handoff.                      *)
THEOREM ChainsHold ==
  ASSUME ~MayAbandon
  PROVE  Spec => []ActiveIsTheTip
<1>1. IInv => ActiveIsTheTip
  BY DEF IInv
<1>. QED
  BY <1>1, Invariant, PTL

(* The HandoffTo and LinkedFrom records of a chain agree, and both files are there, but for a  *)
(* handoff between the two and a successor lost: no crash, failure or clearing anywhere else  *)
(* parts a chain, and those parts it in no other way.                                         *)
THEOREM ChainsAgree ==
  ASSUME ~MayAbandon
  PROVE  Spec => []ChainsReadBothWays
<1>1. IInv => ChainsReadBothWays
  BY DEF IInv
<1>. QED
  BY <1>1, Invariant, PTL

(* The SessionStart of a session comes before its runs, and once, but for the   *)
(* second one of a handoff's successor.                                         *)
THEOREM HooksStartOnce ==
  ASSUME ~MayAbandon
  PROVE  Spec => []StartedOnce
<1>1. IInv => StartedOnce
  BY DEF IInv, Started
<1>. QED
  BY <1>1, Invariant, PTL
-----------------------------------------------------------------------------
(* The session the panel names while a run of it works, and the one whose    *)
(* entry has the controls of that run: they part while link_session is       *)
(* between moving the controls and telling the panel.                        *)
Named(r) == IF phase[r] = "swapped" THEN target[r] ELSE session[r]

Entry(r) == IF phase[r] \in {"moved", "swapped"} THEN target[r] ELSE session[r]

(* What the panel and the registry know of the busy run.  A handoff comes after *)
(* the reply, and its successor is a session no run has been on.                *)
Reach ==
  /\ \A r \in Runs : Busy(r) => awaited \in {r, NoRun}
  /\ \A r \in Runs : phase[r] \in {"sent", "picked"} => awaited = r
  /\ \A r \in Runs : phase[r] \in HandingOff =>
                       awaited # r /\ \A q \in Runs : session[q] # target[r]
  /\ \A r \in Runs : phase[r] \in Steered =>
       /\ control[r] \in Runs
       /\ awaited # r => shown = Named(r)
       /\ r \notin robbed => registry[Entry(r)] = control[r]

(* The lock keeps every other run away from the panel's id and the registry. *)
LEMMA ReachStep ==
  ASSUME ~MayAbandon, IInv, Reach, Next
  PROVE  Reach'
<1>. USE None DEF panel, past, driver, IInv, Reach, Named, Entry, Locked, Busy, NoLoop, HandoffState,
                  Working, Steered, HandingOff, TypeOK, Phases
<1>1. ASSUME NEW r \in Runs, Send(r) PROVE Reach'
  BY <1>1 DEF Send, Go
<1>2. ASSUME NEW r \in Runs, SendFails(r) PROVE Reach'
  BY <1>2 DEF SendFails, Go
<1>3. ASSUME NEW r \in Runs, PickSession(r) PROVE Reach'
  BY <1>3 DEF PickSession, Go
<1>4. ASSUME NEW r \in Runs, GetSteering(r) PROVE Reach'
  BY <1>4 DEF GetSteering, Go
<1>5. ASSUME NEW r \in Runs, StartRun(r) PROVE Reach'
  BY <1>5 DEF StartRun, Go
<1>6. ASSUME NEW r \in Runs, EndRun(r) PROVE Reach'
  BY <1>6 DEF EndRun, Go
<1>7. ASSUME NEW r \in Runs, DropSteering(r) PROVE Reach'
  BY <1>7 DEF DropSteering, Go
<1>8. ASSUME NEW r \in Runs, WriteHandoffTo(r) PROVE Reach'
  BY <1>8, NewIdIsFresh DEF WriteHandoffTo, Go, IdsLeft
<1>9. ASSUME NEW r \in Runs, CreateSuccessor(r) PROVE Reach'
  BY <1>9 DEF CreateSuccessor, Go
<1>10. ASSUME NEW r \in Runs, CannotCreate(r) PROVE Reach'
  BY <1>10 DEF CannotCreate, Go, AfterFailure
<1>11. ASSUME NEW r \in Runs, WriteLinkedFrom(r) PROVE Reach'
  BY <1>11 DEF WriteLinkedFrom, Go
<1>12. ASSUME NEW r \in Runs, MoveSteering(r) PROVE Reach'
  BY <1>12 DEF MoveSteering, Go, MovedControls
<1>13. ASSUME NEW r \in Runs, SwapActive(r) PROVE Reach'
  BY <1>13 DEF SwapActive, Go
<1>14. ASSUME NEW r \in Runs, Continue(r) PROVE Reach'
  BY <1>14 DEF Continue, Go, AfterHandoff
<1>15. CASE NewSession
  BY <1>15 DEF NewSession
<1>16. ASSUME NEW s \in Sessions, LoadSession(s) PROVE Reach'
  BY <1>16 DEF LoadSession
<1>17. CASE Crash
  BY <1>17 DEF Crash
<1>18. ASSUME NEW r \in Runs, Reply(r) PROVE Reach'
  BY <1>18 DEF Reply
<1>. QED
  BY <1>1, <1>2, <1>3, <1>4, <1>5, <1>6, <1>7, <1>8, <1>9, <1>10, <1>11, <1>12, <1>13, <1>14,
     <1>15, <1>16, <1>17, <1>18 DEF Next, RunStep, Handoff

(* The session the panel names leads Stop and queued messages to the run, from the  *)
(* reply of send_message on and through any number of handoffs, but between the    *)
(* move of the controls and SessionLinked and but for a run whose entry an earlier *)
(* driver took.                                                                    *)
THEOREM ReachIsKept ==
  ASSUME ~MayAbandon
  PROVE  Spec => []StaysWithinReach
<1>1. Init => Reach
  BY DEF Init, Reach, Busy, Working, Steered, HandingOff
<1>2. IInv /\ Reach /\ [Next]_vars => Reach'
  <2>1. CASE UNCHANGED vars
    BY <2>1 DEF vars, Reach, Busy, Named, Entry, panel, past, driver, disk, hooks
  <2>. QED
    BY <2>1, ReachStep
<1>3. IInv /\ Reach => StaysWithinReach
  BY None DEF IInv, TypeOK, HandoffState, Reach, StaysWithinReach, Named, Entry, Working, Steered,
     HandingOff
<1>. QED
  BY <1>1, <1>2, <1>3, Invariant, PTL DEF Spec

-----------------------------------------------------------------------------
(* A locked input has a run to wait for. *)
Owned ==
  /\ phase \in [Runs -> Phases]
  /\ status = "thinking" => \E r \in Runs : Busy(r)

(* A run stops being busy only in a step that unlocks the input. *)
LEMMA OwnedStep ==
  ASSUME Owned, Next
  PROVE  Owned'
<1>. USE DEF panel, past, Owned, Busy, Working, Steered, HandingOff, Phases
<1>1. ASSUME NEW r \in Runs, Send(r) PROVE Owned'
  BY <1>1 DEF Send, Go
<1>2. ASSUME NEW r \in Runs, SendFails(r) PROVE Owned'
  BY <1>2 DEF SendFails, Go
<1>3. ASSUME NEW r \in Runs, PickSession(r) PROVE Owned'
  BY <1>3 DEF PickSession, Go
<1>4. ASSUME NEW r \in Runs, GetSteering(r) PROVE Owned'
  BY <1>4 DEF GetSteering, Go
<1>5. ASSUME NEW r \in Runs, StartRun(r) PROVE Owned'
  BY <1>5 DEF StartRun, Go
<1>6. ASSUME NEW r \in Runs, EndRun(r) PROVE Owned'
  BY <1>6 DEF EndRun, Go
<1>7. ASSUME NEW r \in Runs, DropSteering(r) PROVE Owned'
  BY <1>7 DEF DropSteering, Go
<1>8. ASSUME NEW r \in Runs, WriteHandoffTo(r) PROVE Owned'
  BY <1>8 DEF WriteHandoffTo, Go
<1>9. ASSUME NEW r \in Runs, CreateSuccessor(r) PROVE Owned'
  BY <1>9 DEF CreateSuccessor, Go
<1>10. ASSUME NEW r \in Runs, CannotCreate(r) PROVE Owned'
  BY <1>10 DEF CannotCreate, AfterFailure, Go
<1>11. ASSUME NEW r \in Runs, WriteLinkedFrom(r) PROVE Owned'
  BY <1>11 DEF WriteLinkedFrom, Go
<1>12. ASSUME NEW r \in Runs, MoveSteering(r) PROVE Owned'
  BY <1>12 DEF MoveSteering, Go
<1>13. ASSUME NEW r \in Runs, SwapActive(r) PROVE Owned'
  BY <1>13 DEF SwapActive, Go
<1>14. ASSUME NEW r \in Runs, Continue(r) PROVE Owned'
  BY <1>14 DEF Continue, AfterHandoff, Go
<1>15. CASE NewSession
  BY <1>15 DEF NewSession
<1>16. ASSUME NEW s \in Sessions, LoadSession(s) PROVE Owned'
  BY <1>16 DEF LoadSession
<1>17. CASE Crash
  BY <1>17 DEF Crash
<1>18. ASSUME NEW r \in Runs, Reply(r) PROVE Owned'
  BY <1>18 DEF Reply
<1>. QED
  BY <1>1, <1>2, <1>3, <1>4, <1>5, <1>6, <1>7, <1>8, <1>9, <1>10, <1>11, <1>12, <1>13, <1>14,
     <1>15, <1>16, <1>17, <1>18 DEF Next, RunStep, Handoff

(* The input is never locked for nothing, also when the user abandons a run that works: there is  *)
(* a run whose end, failure or refusal unlocks it (ChatPanel.tsx's status, spawn_run_loop).       *)
THEOREM LockHasAnOwner == Spec => [](status = "thinking" => \E r \in Runs : Busy(r))
<1>1. Init => Owned
  BY DEF Init, Owned, Phases
<1>2. Owned /\ [Next]_vars => Owned'
  <2>1. CASE UNCHANGED vars
    BY <2>1 DEF vars, panel, Owned, Busy
  <2>. QED
    BY <2>1, OwnedStep
<1>3. Owned => (status = "thinking" => \E r \in Runs : Busy(r))
  BY DEF Owned
<1>. QED
  BY <1>1, <1>2, <1>3, PTL DEF Spec
=============================================================================
