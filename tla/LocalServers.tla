---------------------------- MODULE LocalServers ----------------------------
(***************************************************************************)
(* The servers of local models: llama/supervisor.rs and the requests that  *)
(* start them on first use (agent/provider.rs).  The registry's lock is    *)
(* held over a whole start, evictions included; a stop takes servers out   *)
(* of the registry under the lock and ends them after it.  A process told  *)
(* to die lives on for a while; a process id is kept in one file for each  *)
(* model, which the next life of the app reads.                            *)
(***************************************************************************)
EXTENDS Integers, Sequences, FiniteSets

CONSTANTS
  Models,
  Sizes,         \* context sizes
  Wants,         \* what a request may want: a model, served with a size
  Agents,        \* tasks that send requests to local models
  MaxLoaded,     \* prefs.max_loaded_models
  PortAttempts,  \* PORT_ATTEMPTS
  MaxStarts,     \* bound of the model: processes started
  MaxCrashes     \* bound of the model: crashes of the app

ASSUME ServersAssumption ==
  /\ Wants \subseteq [model : Models, size : Sizes]
  /\ MaxLoaded \in Nat \ {0} /\ PortAttempts \in Nat \ {0}
  /\ MaxStarts \in Nat /\ MaxCrashes \in Nat
  /\ 0 \notin Agents

VARIABLES
  servers,   \* every process started so far: its model and size
  live,      \* processes alive
  doomed,    \* processes told to die
  record,    \* the process id in the file of each model, 0 when there is none
  resident,  \* the registry: its processes, the one used longest ago first
  lock,      \* the agent that holds the registry's lock over its awaits
  attempts,  \* ports the start under way has tried
  at, want, holds,   \* each agent: its stage, the model and size it wants, its process
  leaving,   \* processes a stop took out of the registry and has not told to die
  ending,    \* processes a stop waits for
  born,      \* history: processes of earlier lives of the app are 1..born
  lost,      \* history: processes whose record went while they lived
  crashes

osVars    == <<servers, live, doomed, record>>
agentVars == <<lock, attempts, at, want, holds>>
stopVars  == <<leaving, ending>>
vars == <<osVars, resident, agentVars, stopVars, born, lost, crashes>>

Nobody  == 0
NoWant  == [model |-> Nobody, size |-> Nobody]
Free    == lock = Nobody
ModelOf(p) == servers[p].model
Listed  == {resident[i] : i \in DOMAIN resident}

(* Where the registry has a model, and the registry without that entry. *)
Find(m)    == {i \in DOMAIN resident : ModelOf(resident[i]) = m}
Removed(i) == [j \in 1..Len(resident) - 1 |-> IF j < i THEN resident[j] ELSE resident[j + 1]]

Go(a, stage)  == at' = [at EXCEPT ![a] = stage]
Hold(a, p)    == holds' = [holds EXCEPT ![a] = p]
Leave(a)      == Go(a, "idle") /\ want' = [want EXCEPT ![a] = NoWant] /\ Hold(a, 0)
Unlock        == lock' = Nobody /\ attempts' = 0
Forget(p)     == record' = [record EXCEPT ![ModelOf(p)] = 0]

(* Alive, and nobody has told it to die. *)
Untouched == live \ doomed

(* The process was alive under a record that is overwritten or removed by somebody else. *)
LostBy(q) == IF q \in Untouched THEN {q} ELSE {}

Init ==
  /\ servers = <<>>
  /\ live = {} /\ doomed = {}
  /\ record = [m \in Models |-> 0]
  /\ resident = <<>>
  /\ lock = Nobody
  /\ attempts = 0
  /\ at = [a \in Agents |-> "idle"]
  /\ want = [a \in Agents |-> NoWant]
  /\ holds = [a \in Agents |-> 0]
  /\ leaving = {} /\ ending = {}
  /\ born = 0 /\ lost = {} /\ crashes = 0

-----------------------------------------------------------------------------
(* A request and ensure_serving. *)

Ask(a) ==
  /\ at[a] = "idle"
  /\ \E w \in Wants : want' = [want EXCEPT ![a] = w]
  /\ Go(a, "wants")
  /\ UNCHANGED <<osVars, resident, lock, attempts, holds, stopVars, born, lost, crashes>>

Reusable(a, p) == p \in live /\ servers[p].size = want[a].size

(* A server of the model is up, with the size that is wanted: it is used last. *)
Reuse(a) ==
  /\ at[a] = "wants" /\ Free
  /\ \E i \in Find(want[a].model) :
       /\ Reusable(a, resident[i])
       /\ resident' = Append(Removed(i), resident[i])
  /\ Go(a, "using")
  /\ UNCHANGED <<osVars, lock, attempts, want, holds, stopVars, born, lost, crashes>>

(* Mutant: the lock is let go once the registry was looked at. *)
LockFree(a) == Nobody

LockKept(a) == a

(* There is none, or it is dead ... *)
TakeNone(a) ==
  /\ at[a] = "wants" /\ Free
  /\ \/ /\ Find(want[a].model) = {}
        /\ UNCHANGED resident
     \/ \E i \in Find(want[a].model) :
          /\ resident[i] \notin live
          /\ resident' = Removed(i)
  /\ lock' = LockKept(a)
  /\ Go(a, "placing")
  /\ UNCHANGED <<osVars, attempts, want, holds, stopVars, born, lost, crashes>>

(* ... or it has another size, and must go. *)
TakeStale(a) ==
  /\ at[a] = "wants" /\ Free
  /\ \E i \in Find(want[a].model) :
       /\ resident[i] \in live /\ ~Reusable(a, resident[i])
       /\ resident' = Removed(i)
       /\ doomed' = doomed \cup {resident[i]}
       /\ Hold(a, resident[i])
  /\ lock' = LockKept(a)
  /\ Go(a, "clearing")
  /\ UNCHANGED <<servers, live, record, attempts, want, stopVars, born, lost, crashes>>

(* The model was removed, no engine can load it, or it would not fit in memory. *)
Refuse(a) ==
  /\ \/ at[a] = "wants" /\ Free
     \/ at[a] = "placing" /\ attempts = 0
  /\ Unlock
  /\ Leave(a)
  /\ UNCHANGED <<osVars, resident, stopVars, born, lost, crashes>>

(* Room is made one server at a time. *)
Evict(a) ==
  /\ at[a] = "placing"
  /\ Len(resident) >= MaxLoaded
  /\ doomed' = doomed \cup ({resident[1]} \cap live)
  /\ resident' = Removed(1)
  /\ Hold(a, resident[1])
  /\ Go(a, "clearing")
  /\ UNCHANGED <<servers, live, record, lock, attempts, want, stopVars, born, lost, crashes>>

(* terminate, under the lock: the process is dead, or three seconds have passed. *)
Cleared(a) ==
  /\ at[a] = "clearing"
  /\ Forget(holds[a])
  /\ Hold(a, 0)
  /\ Go(a, "placing")
  /\ UNCHANGED <<servers, live, doomed, resident, lock, attempts, want, stopVars, born, lost,
                 crashes>>

(* kill_recorded_orphan: only a process that runs our executable is ours, and the executable may *)
(* have changed since it was recorded.  The record goes either way.                              *)
OrphanCleared(m, same) ==
  /\ doomed' = IF same THEN doomed \cup ({record[m]} \cap live) ELSE doomed
  /\ lost' = IF same THEN lost ELSE lost \cup LostBy(record[m])

Spawn(a) ==
  /\ at[a] = "placing"
  /\ Len(resident) < MaxLoaded
  /\ Len(servers) < MaxStarts
  /\ LET m == want[a].model
         p == Len(servers) + 1
     IN  /\ \E same \in BOOLEAN : OrphanCleared(m, same)
         /\ servers' = Append(servers, want[a])
         /\ live' = live \cup {p}
         /\ record' = [record EXCEPT ![m] = p]
         /\ Hold(a, p)
  /\ attempts' = attempts + 1
  /\ Go(a, "loading")
  /\ UNCHANGED <<resident, lock, want, stopVars, born, crashes>>

(* The program could not be started. *)
CannotSpawn(a) ==
  /\ at[a] = "placing"
  /\ Len(resident) < MaxLoaded
  /\ \E same \in BOOLEAN : OrphanCleared(want[a].model, same)
  /\ record' = [record EXCEPT ![want[a].model] = 0]
  /\ Unlock
  /\ Leave(a)
  /\ UNCHANGED <<servers, live, resident, stopVars, born, crashes>>

Loaded(a) ==
  /\ at[a] = "loading"
  /\ resident' = Append(resident, holds[a])
  /\ Unlock
  /\ Hold(a, 0)
  /\ Go(a, "using")
  /\ UNCHANGED <<osVars, want, stopVars, born, lost, crashes>>

(* Mutant: the start waits for as long as the process lives. *)
OnlyExit(p) == p \notin live

(* wait_for_health gives up: the process is gone, or its deadline is. *)
GivesUp(p) == TRUE

PortsLeft == attempts < PortAttempts

(* Another port is tried when this one was taken. *)
NotLoaded(a) ==
  /\ at[a] = "loading"
  /\ GivesUp(holds[a])
  /\ doomed' = doomed \cup ({holds[a]} \cap live)
  /\ Forget(holds[a])
  /\ \/ /\ PortsLeft
        /\ Go(a, "placing")
        /\ Hold(a, 0)
        /\ UNCHANGED <<lock, attempts, want>>
     \/ Unlock /\ Leave(a)
  /\ UNCHANGED <<servers, live, resident, stopVars, born, lost, crashes>>

(* Mutant: the process of a start that is given up is left behind. *)
LeftBehind(p) == {}

(* Mutant: the number is killed that the process had, alive or not. *)
KilledByNumber(p) == {p}

(* kill_on_drop. *)
Dropped(p) == {p} \cap live

(* Stop pressed while the request waits for the lock or for its server. *)
Abandon(a) ==
  /\ at[a] \in {"wants", "clearing", "loading"}
  /\ doomed' = IF at[a] = "loading" THEN doomed \cup Dropped(holds[a]) ELSE doomed
  /\ IF at[a] = "wants" THEN UNCHANGED <<lock, attempts>> ELSE Unlock
  /\ Leave(a)
  /\ UNCHANGED <<servers, live, record, resident, stopVars, born, lost, crashes>>

(* The request ends, in a reply or an error ... *)
Finish(a) ==
  /\ at[a] = "using"
  /\ Leave(a)
  /\ UNCHANGED <<osVars, resident, lock, attempts, stopVars, born, lost, crashes>>

(* ... or is sent again, which asks for the server again. *)
Retry(a) ==
  /\ at[a] = "using"
  /\ Go(a, "wants")
  /\ UNCHANGED <<osVars, resident, lock, attempts, want, holds, stopVars, born, lost, crashes>>

-----------------------------------------------------------------------------
(* stop and stop_all, by any number of callers. *)

StopOne(m) ==
  /\ Free
  /\ \E i \in Find(m) :
       /\ resident' = Removed(i)
       /\ leaving' = leaving \cup {resident[i]}
  /\ UNCHANGED <<osVars, agentVars, ending, born, lost, crashes>>

StopAll ==
  /\ Free
  /\ resident # <<>>
  /\ resident' = <<>>
  /\ leaving' = leaving \cup Listed
  /\ UNCHANGED <<osVars, agentVars, ending, born, lost, crashes>>

StopKills(p) ==
  /\ p \in leaving
  /\ leaving' = leaving \ {p}
  /\ ending' = ending \cup {p}
  /\ doomed' = doomed \cup ({p} \cap live)
  /\ UNCHANGED <<servers, live, record, resident, agentVars, born, lost, crashes>>

(* The file goes, whichever process it names by now. *)
StopEnds(p) ==
  /\ p \in ending
  /\ Forget(p)
  /\ lost' = lost \cup LostBy(record[ModelOf(p)])
  /\ ending' = ending \ {p}
  /\ UNCHANGED <<servers, live, doomed, resident, agentVars, leaving, born, crashes>>

-----------------------------------------------------------------------------
(* A process dies, told or not; what is told to die does. *)
Dies(p) ==
  /\ p \in live
  /\ live' = live \ {p}
  /\ doomed' = doomed \ {p}
  /\ lost' = lost \ {p}
  /\ UNCHANGED <<servers, record, resident, agentVars, stopVars, born, crashes>>

(* The app dies: nothing is dropped, the processes go on. *)
Crash ==
  /\ crashes < MaxCrashes
  /\ crashes' = crashes + 1
  /\ born' = Len(servers)
  /\ resident' = <<>>
  /\ Unlock
  /\ at' = [a \in Agents |-> "idle"]
  /\ want' = [a \in Agents |-> NoWant]
  /\ holds' = [a \in Agents |-> 0]
  /\ leaving' = {} /\ ending' = {}
  /\ UNCHANGED <<osVars, lost>>

-----------------------------------------------------------------------------
AgentStep(a) == \/ Reuse(a) \/ TakeNone(a) \/ TakeStale(a) \/ Refuse(a) \/ Evict(a) \/ Cleared(a) \/ Spawn(a)
                \/ CannotSpawn(a) \/ Loaded(a) \/ NotLoaded(a) \/ Finish(a)

Next ==
  \/ \E a \in Agents : Ask(a) \/ AgentStep(a) \/ Abandon(a) \/ Retry(a)
  \/ \E m \in Models : StopOne(m)
  \/ StopAll
  \/ \E p \in leaving : StopKills(p)
  \/ \E p \in ending : StopEnds(p)
  \/ \E p \in live : Dies(p)
  \/ Crash

Spec == Init /\ [][Next]_vars

(* The registry's lock is handed on in the order it was asked for; a server may never get ready,  *)
(* but its deadline comes.                                                                        *)
Fairness == \A a \in Agents :
  /\ SF_vars(Reuse(a) \/ TakeNone(a) \/ TakeStale(a) \/ Refuse(a))
  /\ WF_vars(Evict(a) \/ Cleared(a) \/ Spawn(a) \/ CannotSpawn(a))
  /\ WF_vars(NotLoaded(a))

FairSpec == Spec /\ Fairness

-----------------------------------------------------------------------------
Stages == {"idle", "wants", "clearing", "placing", "loading", "using"}

TypeOK ==
  /\ servers \in Seq([model : Models, size : Sizes])
  /\ Len(servers) <= MaxStarts
  /\ live \subseteq DOMAIN servers
  /\ doomed \subseteq live
  /\ record \in [Models -> DOMAIN servers \cup {0}]
  /\ resident \in Seq(DOMAIN servers)
  /\ lock \in Agents \cup {Nobody}
  /\ attempts \in 0..PortAttempts
  /\ at \in [Agents -> Stages]
  /\ want \in [Agents -> Wants \cup {NoWant}]
  /\ holds \in [Agents -> DOMAIN servers \cup {0}]
  /\ leaving \subseteq DOMAIN servers
  /\ ending \subseteq DOMAIN servers
  /\ born \in 0..Len(servers)
  /\ lost \subseteq live
  /\ crashes \in 0..MaxCrashes

(* Servers of this life that stay: nobody has told them to die, or is about to. *)
Staying == {p \in Untouched : p > born /\ p \notin leaving}

(* "two parallel agents asking for the same model wait on one process rather than racing to      *)
(* spawn two", and no more models than the setting allows are up at a time, whoever starts,      *)
(* stops, gives up or loses a server meanwhile.                                                  *)
OneServerEach ==
  /\ \A p, q \in Staying : ModelOf(p) = ModelOf(q) => p = q
  /\ Cardinality(Staying) <= MaxLoaded

(* A server that stays can be found: by this life in the registry or in the hands of the agent   *)
(* that starts it, and by the next in the file of its model, but for the one whose record a stop *)
(* of its predecessor removed, or a changed executable hid.                                      *)
ServersAreFound ==
  /\ \A p \in Staying : p \in Listed \/ \E a \in Agents : at[a] = "loading" /\ holds[a] = p
  /\ \A p \in Untouched : record[ModelOf(p)] = p \/ p \in lost

(* No request waits for ever for its server: it gets one, an error, or was stopped. *)
RequestsAreServed == \A a \in Agents : at[a] = "wants" ~> at[a] \in {"idle", "using"}
=============================================================================
