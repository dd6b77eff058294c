------------------------- MODULE LocalServers_proofs -------------------------
(***************************************************************************)
(* What LocalServers promises for any number of models, agents, starts,    *)
(* stops and crashes.  The argument: whoever starts a server holds the     *)
(* registry's lock until the server is in the registry or told to die, and *)
(* a stop only touches what it has taken out of the registry under the     *)
(* lock; so the processes that stay are those of the registry and at most  *)
(* the one that the lock's holder waits for.                               *)
(***************************************************************************)
EXTENDS LocalServers, FiniteSetTheorems, TLAPS

Starting == {"clearing", "placing", "loading"}

(* The lock is held by the agent that starts a server, and by no other. *)
LockOK ==
  /\ \A a \in Agents : at[a] \in Starting <=> lock = a
  /\ Free => attempts = 0
  /\ \A a \in Agents : at[a] \in {"clearing", "placing"} => attempts < PortAttempts

(* No process stands twice in the registry. *)
OneEntryEach == \A i, j \in DOMAIN resident : resident[i] = resident[j] => i = j

(* The registry has one server of each model, none of which anybody ends. *)
RegistryOK ==
  /\ OneEntryEach
  /\ Len(resident) <= MaxLoaded
  /\ \A p, q \in Listed : ModelOf(p) = ModelOf(q) => p = q
  /\ \A p \in Listed : /\ p > born
                       /\ p \notin doomed \cup leaving \cup ending
                       /\ record[ModelOf(p)] \in {0, p}

(* A file names a process of its model. *)
RecordsOK == \A m \in Models : record[m] # 0 => ModelOf(record[m]) = m

(* What the holder of the lock knows of its model and of its process. *)
HandsOK ==
  \A a \in Agents :
    /\ at[a] # "idle" => want[a] \in Wants
    /\ at[a] \in Starting => \A p \in Listed : ModelOf(p) # want[a].model
    /\ at[a] = "clearing" => /\ holds[a] \in DOMAIN servers
                             /\ holds[a] \notin Untouched
                             /\ record[ModelOf(holds[a])] \in {0, holds[a]}
    /\ at[a] = "loading" => /\ holds[a] \in DOMAIN servers
                            /\ holds[a] > born
                            /\ holds[a] \notin doomed \cup leaving \cup ending
                            /\ ModelOf(holds[a]) = want[a].model
                            /\ record[ModelOf(holds[a])] \in {0, holds[a]}
                            /\ Len(resident) < MaxLoaded

IInv == TypeOK /\ LockOK /\ RegistryOK /\ RecordsOK /\ HandsOK /\ ServersAreFound

-----------------------------------------------------------------------------
(* Sequences. *)

(* A sequence without one of its elements, when none stands in it twice. *)
LEMMA RemovedFacts ==
  ASSUME NEW S, resident \in Seq(S), NEW i \in DOMAIN resident,
         \A j, k \in DOMAIN resident : resident[j] = resident[k] => j = k
  PROVE  /\ Removed(i) \in Seq(S)
         /\ Len(Removed(i)) = Len(resident) - 1
         /\ {Removed(i)[j] : j \in DOMAIN Removed(i)} = Listed \ {resident[i]}
         /\ \A j, k \in DOMAIN Removed(i) : Removed(i)[j] = Removed(i)[k] => j = k
<1>. DEFINE s == Removed(i)
<1>1. Len(resident) \in Nat /\ DOMAIN resident = 1..Len(resident) /\ i \in 1..Len(resident)
  OBVIOUS
<1>2. s \in [1..Len(resident) - 1 -> S]
  BY <1>1 DEF Removed
<1>3. s \in Seq(S) /\ Len(s) = Len(resident) - 1 /\ DOMAIN s = 1..Len(resident) - 1
  <2>1. Len(resident) - 1 \in Nat
    BY <1>1
  <2>. HIDE DEF s
  <2>. QED
    BY <1>2, <2>1
<1>4. \A j \in DOMAIN s : s[j] = IF j < i THEN resident[j] ELSE resident[j + 1]
  BY <1>1, <1>3 DEF Removed
<1>5. \A j, k \in DOMAIN s : s[j] = s[k] => j = k
  BY <1>1, <1>3, <1>4
<1>6. \A j \in DOMAIN s : s[j] \in Listed \ {resident[i]}
  BY <1>1, <1>3, <1>4 DEF Listed
<1>7. ASSUME NEW k \in DOMAIN resident, k # i PROVE \E j \in DOMAIN s : s[j] = resident[k]
  <2>1. CASE k < i
    BY <2>1, <1>1, <1>3, <1>4
  <2>2. CASE k > i
    <3>1. k - 1 \in DOMAIN s /\ s[k - 1] = resident[k]
      BY <2>2, <1>1, <1>3, <1>4
    <3>. QED
      BY <3>1
  <2>. QED
    BY <2>1, <2>2, <1>1, <1>7
<1>8. {s[j] : j \in DOMAIN s} = Listed \ {resident[i]}
  BY <1>6, <1>7 DEF Listed
<1>. QED
  BY <1>3, <1>5, <1>8

(* A sequence with one more element, which it did not have. *)
LEMMA AppendFacts ==
  ASSUME NEW S, NEW s \in Seq(S), NEW p \in S, \A j \in DOMAIN s : s[j] # p,
         \A j, k \in DOMAIN s : s[j] = s[k] => j = k
  PROVE  /\ Append(s, p) \in Seq(S)
         /\ Len(Append(s, p)) = Len(s) + 1
         /\ {Append(s, p)[j] : j \in DOMAIN Append(s, p)} = {s[j] : j \in DOMAIN s} \cup {p}
         /\ \A j, k \in DOMAIN Append(s, p) : Append(s, p)[j] = Append(s, p)[k] => j = k
<1>. DEFINE t == Append(s, p)
<1>1. Len(s) \in Nat /\ DOMAIN s = 1..Len(s)
  OBVIOUS
<1>2. t \in Seq(S) /\ Len(t) = Len(s) + 1 /\ DOMAIN t = 1..Len(s) + 1
  OBVIOUS
<1>3. \A j \in DOMAIN s : t[j] = s[j]
  OBVIOUS
<1>4. t[Len(s) + 1] = p
  OBVIOUS
<1>5. \A j \in DOMAIN t : j \in DOMAIN s \/ j = Len(s) + 1
  BY <1>1, <1>2
<1>6. \A j, k \in DOMAIN t : t[j] = t[k] => j = k
  BY <1>1, <1>3, <1>4, <1>5
<1>7. {t[j] : j \in DOMAIN t} = {s[j] : j \in DOMAIN s} \cup {p}
  <2>1. \A j \in DOMAIN s : j \in DOMAIN t
    BY <1>1, <1>2
  <2>2. Len(s) + 1 \in DOMAIN t
    BY <1>1, <1>2
  <2>. QED
    BY <2>1, <2>2, <1>3, <1>4, <1>5
<1>. QED
  BY <1>2, <1>6, <1>7
-----------------------------------------------------------------------------
(* The registry after a server was taken out, put in or used. *)

(* The elements of a sequence are those of its set. *)
LEMMA ElementsAreIn == \A S : \A s \in Seq(S) : \A i \in DOMAIN s : s[i] \in S
OBVIOUS

(* What the registry lists are servers, and each serves a model. *)
LEMMA ListedAreServers ==
  ASSUME TypeOK
  PROVE  /\ \A p \in Listed : p \in DOMAIN servers
         /\ \A p \in DOMAIN servers : ModelOf(p) \in Models /\ p \in Nat \ {0}
<1>0. servers \in Seq([model : Models, size : Sizes])
  BY DEF TypeOK
<1>1. DOMAIN servers = 1..Len(servers) /\ Len(servers) \in Nat
  BY <1>0
<1>2. \A p \in Listed : p \in DOMAIN servers
  BY DEF TypeOK, Listed
<1>3. \A p \in DOMAIN servers : servers[p] \in [model : Models, size : Sizes]
  BY <1>0, ElementsAreIn
<1>. QED
  BY <1>1, <1>2, <1>3 DEF ModelOf

(* A registry nobody touched. *)
LEMMA Unmoved ==
  ASSUME UNCHANGED resident, OneEntryEach
  PROVE  Listed' = Listed /\ OneEntryEach'
BY DEF Listed, OneEntryEach

(* A server is taken out. *)
LEMMA TakenOut ==
  ASSUME IInv, NEW i \in DOMAIN resident, resident' = Removed(i)
  PROVE  /\ resident' \in Seq(DOMAIN servers)
         /\ Len(resident') = Len(resident) - 1
         /\ Listed' = Listed \ {resident[i]}
         /\ OneEntryEach'
<1>1. resident \in Seq(DOMAIN servers)
  BY DEF IInv, TypeOK
<1>2. \A j, k \in DOMAIN resident : resident[j] = resident[k] => j = k
  BY DEF IInv, RegistryOK, OneEntryEach
<1>. HIDE DEF IInv
<1>3. /\ Removed(i) \in Seq(DOMAIN servers)
      /\ Len(Removed(i)) = Len(resident) - 1
      /\ {Removed(i)[j] : j \in DOMAIN Removed(i)} = Listed \ {resident[i]}
      /\ \A j, k \in DOMAIN Removed(i) : Removed(i)[j] = Removed(i)[k] => j = k
  BY <1>1, <1>2, RemovedFacts
<1>. QED
  BY <1>3 DEF Listed, OneEntryEach

(* A server is put in. *)
LEMMA PutIn ==
  ASSUME IInv, NEW p \in DOMAIN servers, p \notin Listed, resident' = Append(resident, p)
  PROVE  /\ resident' \in Seq(DOMAIN servers)
         /\ Len(resident') = Len(resident) + 1
         /\ Listed' = Listed \cup {p}
         /\ OneEntryEach'
<1>1. resident \in Seq(DOMAIN servers)
  BY DEF IInv, TypeOK
<1>2. \A j, k \in DOMAIN resident : resident[j] = resident[k] => j = k
  BY DEF IInv, RegistryOK, OneEntryEach
<1>3. \A j \in DOMAIN resident : resident[j] # p
  BY DEF Listed
<1>. HIDE DEF IInv
<1>4. /\ Append(resident, p) \in Seq(DOMAIN servers)
      /\ Len(Append(resident, p)) = Len(resident) + 1
      /\ {Append(resident, p)[j] : j \in DOMAIN Append(resident, p)}
           = {resident[j] : j \in DOMAIN resident} \cup {p}
      /\ \A j, k \in DOMAIN Append(resident, p) :
            Append(resident, p)[j] = Append(resident, p)[k] => j = k
  BY <1>1, <1>2, <1>3, AppendFacts
<1>. QED
  BY <1>4 DEF Listed, OneEntryEach

(* A server is used, and goes to the end. *)
LEMMA UsedLast ==
  ASSUME IInv, NEW i \in DOMAIN resident, resident' = Append(Removed(i), resident[i])
  PROVE  /\ resident' \in Seq(DOMAIN servers)
         /\ Len(resident') = Len(resident)
         /\ Listed' = Listed
         /\ OneEntryEach'
<1>. DEFINE s == Removed(i)
            p == resident[i]
<1>1. resident \in Seq(DOMAIN servers)
  BY DEF IInv, TypeOK
<1>2. \A j, k \in DOMAIN resident : resident[j] = resident[k] => j = k
  BY DEF IInv, RegistryOK, OneEntryEach
<1>3. p \in DOMAIN servers /\ p \in Listed
  BY <1>1 DEF Listed
<1>. HIDE DEF IInv
<1>4. /\ s \in Seq(DOMAIN servers)
      /\ Len(s) = Len(resident) - 1
      /\ {s[j] : j \in DOMAIN s} = Listed \ {p}
      /\ \A j, k \in DOMAIN s : s[j] = s[k] => j = k
  BY <1>1, <1>2, RemovedFacts
<1>5. \A j \in DOMAIN s : s[j] # p
  BY <1>4
<1>. HIDE DEF s, p
<1>6. /\ Append(s, p) \in Seq(DOMAIN servers)
      /\ Len(Append(s, p)) = Len(s) + 1
      /\ {Append(s, p)[j] : j \in DOMAIN Append(s, p)} = {s[j] : j \in DOMAIN s} \cup {p}
      /\ \A j, k \in DOMAIN Append(s, p) : Append(s, p)[j] = Append(s, p)[k] => j = k
  BY <1>3, <1>4, <1>5, AppendFacts
<1>7. resident' = Append(s, p)
  BY DEF s, p
<1>8. Listed' = Listed
  <2>1. Listed' = {s[j] : j \in DOMAIN s} \cup {p}
    BY <1>6, <1>7 DEF Listed
  <2>. QED
    BY <2>1, <1>3, <1>4
<1>9. Len(resident) \in Nat
  BY <1>1
<1>. QED
  BY <1>4, <1>6, <1>7, <1>8, <1>9 DEF OneEntryEach

(* The registry is emptied. *)
LEMMA Emptied ==
  ASSUME resident' = <<>>
  PROVE  /\ resident' \in Seq(DOMAIN servers)
         /\ Len(resident') = 0
         /\ Listed' = {}
         /\ OneEntryEach'
BY DEF Listed, OneEntryEach

(* The lock is taken free, and given back by the agent that holds it. *)
LEMMA LockStep ==
  ASSUME IInv, Next
  PROVE  LockOK'
<1>. USE DEF IInv, TypeOK, LockOK, Free, Starting, Stages, Nobody
<1>1. ASSUME NEW a \in Agents, Ask(a) PROVE LockOK'
  BY <1>1 DEF Ask, Go, osVars, stopVars
<1>2. ASSUME NEW a \in Agents, Reuse(a) PROVE LockOK'
  BY <1>2 DEF Reuse, Go, osVars, stopVars
<1>3. ASSUME NEW a \in Agents, TakeNone(a) PROVE LockOK'
  BY <1>3, ServersAssumption DEF TakeNone, LockKept, Go, osVars, stopVars
<1>4. ASSUME NEW a \in Agents, TakeStale(a) PROVE LockOK'
  BY <1>4, ServersAssumption DEF TakeStale, LockKept, Go, Hold, stopVars
<1>5. ASSUME NEW a \in Agents, Refuse(a) PROVE LockOK'
  BY <1>5, ServersAssumption DEF Refuse, Leave, Unlock, osVars, stopVars, Go, Hold
<1>6. ASSUME NEW a \in Agents, Evict(a) PROVE LockOK'
  BY <1>6 DEF Evict, Go, Hold, stopVars
<1>7. ASSUME NEW a \in Agents, Cleared(a) PROVE LockOK'
  BY <1>7 DEF Cleared, Go, Hold, Forget, stopVars
<1>8. ASSUME NEW a \in Agents, Spawn(a) PROVE LockOK'
  BY <1>8 DEF Spawn, Go, Hold, stopVars
<1>9. ASSUME NEW a \in Agents, CannotSpawn(a) PROVE LockOK'
  BY <1>9, ServersAssumption DEF CannotSpawn, Leave, Unlock, stopVars, Go, Hold
<1>10. ASSUME NEW a \in Agents, Loaded(a) PROVE LockOK'
  BY <1>10, ServersAssumption DEF Loaded, Go, Hold, Unlock, osVars, stopVars
<1>11. ASSUME NEW a \in Agents, NotLoaded(a) PROVE LockOK'
  BY <1>11, ServersAssumption DEF NotLoaded, PortsLeft, GivesUp, Go, Leave, Hold, Unlock, Forget,
     stopVars
<1>12. ASSUME NEW a \in Agents, Finish(a) PROVE LockOK'
  BY <1>12 DEF Finish, Leave, osVars, stopVars, Go, Hold
<1>13. ASSUME NEW a \in Agents, Abandon(a) PROVE LockOK'
  BY <1>13, ServersAssumption DEF Abandon, Dropped, Leave, Unlock, stopVars, Go, Hold
<1>14. ASSUME NEW a \in Agents, Retry(a) PROVE LockOK'
  BY <1>14 DEF Retry, Go, osVars, stopVars
<1>15. ASSUME NEW m \in Models, StopOne(m) PROVE LockOK'
  BY <1>15 DEF StopOne, osVars, agentVars
<1>16. CASE StopAll
  BY <1>16 DEF StopAll, osVars, agentVars
<1>17. ASSUME NEW p \in leaving, StopKills(p) PROVE LockOK'
  BY <1>17 DEF StopKills, agentVars
<1>18. ASSUME NEW p \in ending, StopEnds(p) PROVE LockOK'
  BY <1>18 DEF StopEnds, Forget, agentVars
<1>19. ASSUME NEW p \in live, Dies(p) PROVE LockOK'
  BY <1>19 DEF Dies, agentVars, stopVars
<1>20. CASE Crash
  BY <1>20 DEF Crash, Unlock, osVars
<1>. QED
  BY <1>1, <1>2, <1>3, <1>4, <1>5, <1>6, <1>7, <1>8, <1>9, <1>10, <1>11,
     <1>12, <1>13, <1>14, <1>15, <1>16, <1>17, <1>18, <1>19, <1>20 DEF Next, AgentStep

(* Every step keeps the types. *)
LEMMA TypeStep ==
  ASSUME IInv, Next
  PROVE  TypeOK'
<1>. USE DEF IInv, TypeOK, Stages, Nobody, NoWant, LostBy, Untouched
<1>1. ASSUME NEW a \in Agents, Ask(a) PROVE TypeOK'
  BY <1>1, ServersAssumption DEF Ask, Go, osVars, stopVars
<1>2. ASSUME NEW a \in Agents, Reuse(a) PROVE TypeOK'
  <2>1. PICK i \in DOMAIN resident : resident' = Append(Removed(i), resident[i])
    BY <1>2 DEF Reuse, Find
  <2>2. resident' \in Seq(DOMAIN servers)
    BY <2>1, UsedLast
  <2>. QED
    BY <1>2, <2>2 DEF Reuse, Go, osVars, stopVars
<1>3. ASSUME NEW a \in Agents, TakeNone(a) PROVE TypeOK'
  <2>1. resident' \in Seq(DOMAIN servers)
    <3>1. CASE UNCHANGED resident
      BY <3>1
    <3>2. CASE \E i \in DOMAIN resident : resident' = Removed(i)
      BY <3>2, TakenOut
    <3>. QED
      BY <1>3, <3>1, <3>2 DEF TakeNone, Find
  <2>. QED
    BY <1>3, <2>1 DEF TakeNone, LockKept, Go, osVars, stopVars
<1>4. ASSUME NEW a \in Agents, TakeStale(a) PROVE TypeOK'
  <2>1. PICK i \in DOMAIN resident :
          /\ resident[i] \in live
          /\ resident' = Removed(i)
          /\ doomed' = doomed \cup {resident[i]}
          /\ Hold(a, resident[i])
    BY <1>4 DEF TakeStale, Find
  <2>2. resident' \in Seq(DOMAIN servers)
    BY <2>1, TakenOut
  <2>. QED
    BY <1>4, <2>1, <2>2 DEF TakeStale, LockKept, Go, Hold, stopVars
<1>5. ASSUME NEW a \in Agents, Refuse(a) PROVE TypeOK'
  BY <1>5, ServersAssumption DEF Refuse, Leave, Unlock, osVars, stopVars, Go, Hold
<1>6. ASSUME NEW a \in Agents, Evict(a) PROVE TypeOK'
  <2>1. 1 \in DOMAIN resident
    BY <1>6, ServersAssumption DEF Evict
  <2>2. resident' \in Seq(DOMAIN servers)
    BY <1>6, <2>1, TakenOut DEF Evict
  <2>. QED
    BY <1>6, <2>1, <2>2 DEF Evict, Go, Hold, stopVars
<1>7. ASSUME NEW a \in Agents, Cleared(a) PROVE TypeOK'
  BY <1>7 DEF Cleared, Go, Hold, Forget, stopVars
<1>8. ASSUME NEW a \in Agents, Spawn(a) PROVE TypeOK'
  <2>. DEFINE p == Len(servers) + 1
  <2>1. /\ servers' = Append(servers, want[a])
        /\ live' = live \cup {p}
        /\ record' = [record EXCEPT ![want[a].model] = p]
        /\ holds' = [holds EXCEPT ![a] = p]
    BY <1>8 DEF Spawn, Hold
  <2>2. want[a] \in Wants /\ want[a] \in [model : Models, size : Sizes]
    BY <1>8, ServersAssumption DEF Spawn, HandsOK
  <2>3. Len(servers) \in Nat /\ DOMAIN servers = 1..Len(servers)
    OBVIOUS
  <2>4. /\ servers' \in Seq([model : Models, size : Sizes])
        /\ Len(servers') = p /\ DOMAIN servers' = 1..p
    BY <2>1, <2>2
  <2>5. p <= MaxStarts
    BY <1>8, <2>3, ServersAssumption DEF Spawn
  <2>6. doomed' \subseteq live /\ lost' \subseteq live
    BY <1>8 DEF Spawn, OrphanCleared
  <2>7. resident \in Seq(1..p)
    BY <2>3
  <2>8. attempts' \in 0..PortAttempts
    BY <1>8, ServersAssumption DEF Spawn, LockOK
  <2>9. UNCHANGED <<resident, lock, want, stopVars, born, crashes>> /\ Go(a, "loading")
    BY <1>8 DEF Spawn
  <2>10. p \in 1..p /\ 1..Len(servers) \subseteq 1..p
    BY <2>3
  <2>. HIDE DEF p
  <2>. QED
    BY <2>1, <2>3, <2>4, <2>5, <2>6, <2>7, <2>8, <2>9, <2>10 DEF Go, stopVars
<1>9. ASSUME NEW a \in Agents, CannotSpawn(a) PROVE TypeOK'
  <2>1. doomed' \subseteq live /\ lost' \subseteq live
    BY <1>9 DEF CannotSpawn, OrphanCleared
  <2>2. record' \in [Models -> DOMAIN servers \cup {0}]
    BY <1>9 DEF CannotSpawn
  <2>3. Unlock /\ Leave(a) /\ UNCHANGED <<servers, live, resident, stopVars, born, crashes>>
    BY <1>9 DEF CannotSpawn
  <2>. QED
    BY <2>1, <2>2, <2>3, ServersAssumption DEF Leave, Unlock, stopVars, Go, Hold
<1>10. ASSUME NEW a \in Agents, Loaded(a) PROVE TypeOK'
  <2>1. holds[a] \in DOMAIN servers /\ holds[a] \notin Listed
    BY <1>10 DEF Loaded, HandsOK, RegistryOK, Starting
  <2>2. resident' \in Seq(DOMAIN servers)
    BY <1>10, <2>1, PutIn DEF Loaded
  <2>. QED
    BY <1>10, <2>2, ServersAssumption DEF Loaded, Go, Hold, Unlock, osVars, stopVars
<1>11. ASSUME NEW a \in Agents, NotLoaded(a) PROVE TypeOK'
  <2>1. /\ doomed' \subseteq live
        /\ record' \in [Models -> DOMAIN servers \cup {0}]
    BY <1>11 DEF NotLoaded, Forget
  <2>2. UNCHANGED <<servers, live, resident, stopVars, born, lost, crashes>>
    BY <1>11 DEF NotLoaded
  <2>3. CASE Go(a, "placing") /\ Hold(a, 0) /\ UNCHANGED <<lock, attempts, want>>
    BY <2>1, <2>2, <2>3 DEF Go, Hold, stopVars
  <2>4. CASE Unlock /\ Leave(a)
    BY <2>1, <2>2, <2>4, ServersAssumption DEF PortsLeft, GivesUp, Go, Leave, Hold, Unlock, Forget,
       stopVars
  <2>. QED
    BY <1>11, <2>3, <2>4 DEF NotLoaded
<1>12. ASSUME NEW a \in Agents, Finish(a) PROVE TypeOK'
  BY <1>12 DEF Finish, Leave, osVars, stopVars, Go, Hold
<1>13. ASSUME NEW a \in Agents, Abandon(a) PROVE TypeOK'
  BY <1>13, ServersAssumption DEF Abandon, Dropped, Leave, Unlock, stopVars, Go, Hold
<1>14. ASSUME NEW a \in Agents, Retry(a) PROVE TypeOK'
  BY <1>14 DEF Retry, Go, osVars, stopVars
<1>15. ASSUME NEW m \in Models, StopOne(m) PROVE TypeOK'
  <2>1. PICK i \in DOMAIN resident :
          /\ resident' = Removed(i)
          /\ leaving' = leaving \cup {resident[i]}
    BY <1>15 DEF StopOne, Find
  <2>2. resident' \in Seq(DOMAIN servers)
    BY <2>1, TakenOut
  <2>. QED
    BY <1>15, <2>1, <2>2 DEF StopOne, osVars, agentVars
<1>16. CASE StopAll
  <2>1. resident' \in Seq(DOMAIN servers)
    BY <1>16, Emptied DEF StopAll
  <2>. QED
    BY <1>16, <2>1 DEF StopAll, Listed, osVars, agentVars
<1>17. ASSUME NEW p \in leaving, StopKills(p) PROVE TypeOK'
  BY <1>17 DEF StopKills, agentVars
<1>18. ASSUME NEW p \in ending, StopEnds(p) PROVE TypeOK'
  BY <1>18 DEF StopEnds, Forget, agentVars
<1>19. ASSUME NEW p \in live, Dies(p) PROVE TypeOK'
  BY <1>19 DEF Dies, agentVars, stopVars
<1>20. CASE Crash
  <2>1. resident' \in Seq(DOMAIN servers)
    BY <1>20, Emptied DEF Crash
  <2>. QED
    BY <1>20, <2>1, ServersAssumption DEF Crash, Unlock, osVars
<1>. QED
  BY <1>1, <1>2, <1>3, <1>4, <1>5, <1>6, <1>7, <1>8, <1>9, <1>10, <1>11,
     <1>12, <1>13, <1>14, <1>15, <1>16, <1>17, <1>18, <1>19, <1>20 DEF Next, AgentStep

(* The registry keeps one server of each model, and none that is being ended. *)
LEMMA RegistryStep ==
  ASSUME IInv, Next
  PROVE  RegistryOK'
<1>. USE DEF IInv, RegistryOK, ModelOf
<1>1. ASSUME NEW a \in Agents, Ask(a) PROVE RegistryOK'
  <2>1. UNCHANGED resident /\ Listed' = Listed /\ OneEntryEach'
    BY <1>1, Unmoved DEF Ask, Go, osVars, stopVars
  <2>. QED
    BY <1>1, <2>1, ListedAreServers DEF Ask, Go, osVars, stopVars
<1>2. ASSUME NEW a \in Agents, Reuse(a) PROVE RegistryOK'
  <2>1. PICK i \in DOMAIN resident : resident' = Append(Removed(i), resident[i])
    BY <1>2 DEF Reuse, Find
  <2>2. Listed' = Listed /\ Len(resident') = Len(resident) /\ OneEntryEach'
    BY <2>1, UsedLast
  <2>. QED
    BY <1>2, <2>2 DEF Reuse, Go, osVars, stopVars
<1>3. ASSUME NEW a \in Agents, TakeNone(a) PROVE RegistryOK'
  <2>1. CASE UNCHANGED resident
    <3>1. Listed' = Listed /\ OneEntryEach'
      BY <2>1, Unmoved
    <3>. QED
      BY <1>3, <2>1, <3>1 DEF TakeNone, LockKept, Go, osVars, stopVars
  <2>2. CASE \E i \in DOMAIN resident : resident' = Removed(i)
    <3>1. PICK i \in DOMAIN resident : resident' = Removed(i)
      BY <2>2
    <3>2. Listed' = Listed \ {resident[i]} /\ Len(resident') = Len(resident) - 1 /\ OneEntryEach'
      BY <3>1, TakenOut
    <3>3. Len(resident) \in Nat
      BY DEF TypeOK
    <3>. QED
      BY <1>3, <3>2, <3>3, ServersAssumption DEF TakeNone, LockKept, Go, osVars, stopVars
  <2>. QED
    BY <1>3, <2>1, <2>2 DEF TakeNone, Find
<1>4. ASSUME NEW a \in Agents, TakeStale(a) PROVE RegistryOK'
  <2>1. PICK i \in DOMAIN resident :
          /\ resident' = Removed(i)
          /\ doomed' = doomed \cup {resident[i]}
    BY <1>4 DEF TakeStale, Find, Hold
  <2>2. Listed' = Listed \ {resident[i]} /\ Len(resident') = Len(resident) - 1 /\ OneEntryEach'
    BY <2>1, TakenOut
  <2>3. resident[i] \in Listed
    BY DEF Listed
  <2>4. Len(resident) \in Nat
    BY DEF TypeOK
  <2>. QED
    BY <1>4, <2>1, <2>2, <2>3, <2>4, ListedAreServers, ServersAssumption DEF TakeStale, LockKept,
       Go, Hold, stopVars
<1>5. ASSUME NEW a \in Agents, Refuse(a) PROVE RegistryOK'
  <2>1. UNCHANGED resident /\ Listed' = Listed /\ OneEntryEach'
    BY <1>5, Unmoved DEF Refuse, Leave, Unlock, osVars, stopVars, Go, Hold
  <2>. QED
    BY <1>5, <2>1, ListedAreServers DEF Refuse, Leave, Unlock, osVars, stopVars, Go, Hold
<1>6. ASSUME NEW a \in Agents, Evict(a) PROVE RegistryOK'
  <2>1. 1 \in DOMAIN resident /\ Len(resident) \in Nat
    BY <1>6, ServersAssumption DEF Evict, TypeOK
  <2>2. Listed' = Listed \ {resident[1]} /\ Len(resident') = Len(resident) - 1 /\ OneEntryEach'
    BY <1>6, <2>1, TakenOut DEF Evict
  <2>3. resident[1] \in Listed
    BY <2>1 DEF Listed
  <2>4. doomed' \subseteq doomed \cup {resident[1]}
    BY <1>6 DEF Evict
  <2>. QED
    BY <2>1, <2>2, <2>3, <2>4, <1>6, ServersAssumption DEF Evict, Go, Hold, stopVars
<1>7. ASSUME NEW a \in Agents, Cleared(a) PROVE RegistryOK'
  <2>1. UNCHANGED resident /\ Listed' = Listed /\ OneEntryEach'
    BY <1>7, Unmoved DEF Cleared, Go, Hold, Forget, stopVars
  <2>2. \A p \in Listed : ModelOf(p) \in Models
    BY ListedAreServers
  <2>. QED
    BY <1>7, <2>1, <2>2 DEF Cleared, TypeOK, Go, Hold, Forget, stopVars
<1>8. ASSUME NEW a \in Agents, Spawn(a) PROVE RegistryOK'
  <2>1. UNCHANGED resident /\ Listed' = Listed /\ OneEntryEach'
    BY <1>8, Unmoved DEF Spawn, Go, Hold, stopVars
  <2>2. \A p \in Listed : /\ p \in DOMAIN servers /\ ModelOf(p) \in Models
                          /\ ModelOf(p) # want[a].model
    BY <1>8, ListedAreServers DEF Spawn, HandsOK, Starting
  <2>3. \A p \in Listed : p # record[want[a].model]
    <3>1. want[a].model \in Models
      BY <1>8, ServersAssumption DEF Spawn, HandsOK
    <3>2. \A p \in Listed : p # 0
      BY <2>2, ListedAreServers
    <3>. QED
      BY <2>2, <3>1, <3>2 DEF RecordsOK
  <2>4. \A p \in Listed : p \notin doomed'
    BY <1>8, <2>3 DEF Spawn, OrphanCleared
  <2>5. \A p \in Listed : ModelOf(p)' = ModelOf(p)
    BY <1>8, <2>2 DEF Spawn, TypeOK
  <2>6. \A p \in Listed : record'[ModelOf(p)] = record[ModelOf(p)]
    BY <1>8, <2>2 DEF Spawn, TypeOK
  <2>7. UNCHANGED <<leaving, ending, born>>
    BY <1>8 DEF Spawn, stopVars
  <2>. QED
    BY <2>1, <2>2, <2>4, <2>5, <2>6, <2>7
<1>9. ASSUME NEW a \in Agents, CannotSpawn(a) PROVE RegistryOK'
  <2>1. UNCHANGED resident /\ Listed' = Listed /\ OneEntryEach'
    BY <1>9, Unmoved DEF CannotSpawn, Leave, Unlock, stopVars, Go, Hold
  <2>2. \A p \in Listed : /\ p \in DOMAIN servers /\ ModelOf(p) \in Models
                          /\ ModelOf(p) # want[a].model
    BY <1>9, ListedAreServers DEF CannotSpawn, HandsOK, Starting
  <2>3. \A p \in Listed : p # record[want[a].model]
    <3>1. want[a].model \in Models
      BY <1>9, ServersAssumption DEF CannotSpawn, HandsOK
    <3>2. \A p \in Listed : p # 0
      BY <2>2, ListedAreServers
    <3>. QED
      BY <2>2, <3>1, <3>2 DEF RecordsOK
  <2>4. \A p \in Listed : p \notin doomed'
    BY <1>9, <2>3 DEF CannotSpawn, OrphanCleared
  <2>5. UNCHANGED <<servers, leaving, ending, born>>
    BY <1>9 DEF CannotSpawn, stopVars
  <2>6. \A p \in Listed : record'[ModelOf(p)] = record[ModelOf(p)]
    BY <1>9, <2>2 DEF CannotSpawn, TypeOK
  <2>. QED
    BY <2>1, <2>2, <2>4, <2>5, <2>6
<1>10. ASSUME NEW a \in Agents, Loaded(a) PROVE RegistryOK'
  <2>1. /\ holds[a] \in DOMAIN servers /\ holds[a] \notin Listed
        /\ holds[a] > born
        /\ holds[a] \notin doomed \cup leaving \cup ending
        /\ record[ModelOf(holds[a])] \in {0, holds[a]}
        /\ Len(resident) < MaxLoaded
        /\ \A p \in Listed : ModelOf(p) # ModelOf(holds[a])
    BY <1>10 DEF Loaded, HandsOK, Starting
  <2>2. resident' = Append(resident, holds[a])
    BY <1>10 DEF Loaded
  <2>3. /\ Listed' = Listed \cup {holds[a]} /\ Len(resident') = Len(resident) + 1
        /\ OneEntryEach'
    BY <2>1, <2>2, PutIn
  <2>4. Len(resident) \in Nat
    BY DEF TypeOK
  <2>. QED
    BY <1>10, <2>1, <2>3, <2>4, ServersAssumption DEF Loaded, Go, Hold, Unlock, osVars, stopVars
<1>11. ASSUME NEW a \in Agents, NotLoaded(a) PROVE RegistryOK'
  <2>1. UNCHANGED resident /\ Listed' = Listed /\ OneEntryEach'
    BY <1>11, Unmoved DEF NotLoaded, PortsLeft, GivesUp, Go, Leave, Hold, Unlock, Forget, stopVars
  <2>2. holds[a] \notin Listed
    BY <1>11 DEF NotLoaded, HandsOK, Starting
  <2>3. \A p \in Listed : record'[ModelOf(p)] \in {0, record[ModelOf(p)]}
    BY <1>11, ListedAreServers DEF NotLoaded, TypeOK, Forget
  <2>. QED
    BY <1>11, <2>1, <2>2, <2>3 DEF NotLoaded, PortsLeft, GivesUp, Go, Leave, Hold, Unlock, Forget,
       stopVars
<1>12. ASSUME NEW a \in Agents, Finish(a) PROVE RegistryOK'
  <2>1. UNCHANGED resident /\ Listed' = Listed /\ OneEntryEach'
    BY <1>12, Unmoved DEF Finish, Leave, osVars, stopVars, Go, Hold
  <2>. QED
    BY <1>12, <2>1, ListedAreServers DEF Finish, Leave, osVars, stopVars, Go, Hold
<1>13. ASSUME NEW a \in Agents, Abandon(a) PROVE RegistryOK'
  <2>1. UNCHANGED resident /\ Listed' = Listed /\ OneEntryEach'
    BY <1>13, Unmoved DEF Abandon, Dropped, Leave, Unlock, stopVars, Go, Hold
  <2>2. at[a] = "loading" => holds[a] \notin Listed
    BY DEF HandsOK, Starting
  <2>. QED
    BY <1>13, <2>1, <2>2 DEF Abandon, Dropped, Leave, Unlock, stopVars, Go, Hold
<1>14. ASSUME NEW a \in Agents, Retry(a) PROVE RegistryOK'
  <2>1. UNCHANGED resident /\ Listed' = Listed /\ OneEntryEach'
    BY <1>14, Unmoved DEF Retry, Go, osVars, stopVars
  <2>. QED
    BY <1>14, <2>1, ListedAreServers DEF Retry, Go, osVars, stopVars
<1>15. ASSUME NEW m \in Models, StopOne(m) PROVE RegistryOK'
  <2>1. PICK i \in DOMAIN resident :
          /\ resident' = Removed(i)
          /\ leaving' = leaving \cup {resident[i]}
    BY <1>15 DEF StopOne, Find, Hold
  <2>2. Listed' = Listed \ {resident[i]} /\ Len(resident') = Len(resident) - 1 /\ OneEntryEach'
    BY <2>1, TakenOut
  <2>3. resident[i] \in Listed
    BY DEF Listed
  <2>4. Len(resident) \in Nat
    BY DEF TypeOK
  <2>. QED
    BY <1>15, <2>1, <2>2, <2>3, <2>4, ListedAreServers, ServersAssumption DEF StopOne, osVars,
       agentVars
<1>16. CASE StopAll
  <2>1. Listed' = {} /\ Len(resident') = 0 /\ OneEntryEach'
    BY <1>16, Emptied DEF StopAll
  <2>. QED
    BY <2>1, ServersAssumption
<1>17. ASSUME NEW p \in leaving, StopKills(p) PROVE RegistryOK'
  <2>1. UNCHANGED resident /\ Listed' = Listed /\ OneEntryEach'
    BY <1>17, Unmoved DEF StopKills, agentVars
  <2>2. \A q \in Listed : q # p
    BY <1>17 DEF StopKills
  <2>. QED
    BY <1>17, <2>1, <2>2 DEF StopKills, agentVars
<1>18. ASSUME NEW p \in ending, StopEnds(p) PROVE RegistryOK'
  <2>1. UNCHANGED resident /\ Listed' = Listed /\ OneEntryEach'
    BY <1>18, Unmoved DEF StopEnds, Forget, agentVars
  <2>2. \A q \in Listed : record'[ModelOf(q)] \in {0, record[ModelOf(q)]}
    BY <1>18, ListedAreServers DEF StopEnds, TypeOK, Forget
  <2>. QED
    BY <1>18, <2>1, <2>2 DEF StopEnds, Forget, agentVars
<1>19. ASSUME NEW p \in live, Dies(p) PROVE RegistryOK'
  <2>1. UNCHANGED resident /\ Listed' = Listed /\ OneEntryEach'
    BY <1>19, Unmoved DEF Dies, agentVars, stopVars
  <2>. QED
    BY <1>19, <2>1, ListedAreServers DEF Dies, agentVars, stopVars
<1>20. CASE Crash
  <2>1. Listed' = {} /\ Len(resident') = 0 /\ OneEntryEach'
    BY <1>20, Emptied DEF Crash
  <2>. QED
    BY <2>1, ServersAssumption
<1>. QED
  BY <1>1, <1>2, <1>3, <1>4, <1>5, <1>6, <1>7, <1>8, <1>9, <1>10, <1>11,
     <1>12, <1>13, <1>14, <1>15, <1>16, <1>17, <1>18, <1>19, <1>20 DEF Next, AgentStep

(* A file goes on naming a process of its model. *)
LEMMA RecordsStep ==
  ASSUME IInv, Next
  PROVE  RecordsOK'
<1>. USE DEF IInv, RecordsOK, ModelOf
<1>1. ASSUME NEW a \in Agents, Ask(a) PROVE RecordsOK'
  BY <1>1 DEF Ask, Go, osVars, stopVars
<1>2. ASSUME NEW a \in Agents, Reuse(a) PROVE RecordsOK'
  BY <1>2 DEF Reuse, Go, osVars, stopVars
<1>3. ASSUME NEW a \in Agents, TakeNone(a) PROVE RecordsOK'
  BY <1>3 DEF TakeNone, LockKept, Go, osVars, stopVars
<1>4. ASSUME NEW a \in Agents, TakeStale(a) PROVE RecordsOK'
  BY <1>4 DEF TakeStale, LockKept, Go, Hold, stopVars
<1>5. ASSUME NEW a \in Agents, Refuse(a) PROVE RecordsOK'
  BY <1>5 DEF Refuse, Leave, Unlock, osVars, stopVars, Go, Hold
<1>6. ASSUME NEW a \in Agents, Evict(a) PROVE RecordsOK'
  BY <1>6 DEF Evict, Go, Hold, stopVars
<1>7. ASSUME NEW a \in Agents, Cleared(a) PROVE RecordsOK'
  BY <1>7 DEF Cleared, TypeOK, Go, Hold, Forget, stopVars
<1>8. ASSUME NEW a \in Agents, Spawn(a) PROVE RecordsOK'
  <2>1. want[a].model \in Models
    BY <1>8, ServersAssumption DEF Spawn, HandsOK
  <2>2. \A p \in DOMAIN servers : servers'[p] = servers[p]
    BY <1>8 DEF Spawn, TypeOK
  <2>3. servers'[Len(servers) + 1] = want[a]
    BY <1>8 DEF Spawn, TypeOK
  <2>4. \A m \in Models : record'[m] = IF m = want[a].model THEN Len(servers) + 1 ELSE record[m]
    BY <1>8 DEF Spawn, TypeOK
  <2>5. \A m \in Models : record[m] \in DOMAIN servers \cup {0}
    BY DEF TypeOK
  <2>. QED
    BY <2>1, <2>2, <2>3, <2>4, <2>5
<1>9. ASSUME NEW a \in Agents, CannotSpawn(a) PROVE RecordsOK'
  BY <1>9 DEF CannotSpawn, TypeOK, Leave, Unlock, stopVars, Go, Hold
<1>10. ASSUME NEW a \in Agents, Loaded(a) PROVE RecordsOK'
  BY <1>10 DEF Loaded, Go, Hold, Unlock, osVars, stopVars
<1>11. ASSUME NEW a \in Agents, NotLoaded(a) PROVE RecordsOK'
  BY <1>11 DEF NotLoaded, TypeOK, PortsLeft, GivesUp, Go, Leave, Hold, Unlock, Forget, stopVars
<1>12. ASSUME NEW a \in Agents, Finish(a) PROVE RecordsOK'
  BY <1>12 DEF Finish, Leave, osVars, stopVars, Go, Hold
<1>13. ASSUME NEW a \in Agents, Abandon(a) PROVE RecordsOK'
  BY <1>13 DEF Abandon, Dropped, Leave, Unlock, stopVars, Go, Hold
<1>14. ASSUME NEW a \in Agents, Retry(a) PROVE RecordsOK'
  BY <1>14 DEF Retry, Go, osVars, stopVars
<1>15. ASSUME NEW m \in Models, StopOne(m) PROVE RecordsOK'
  BY <1>15 DEF StopOne, osVars, agentVars
<1>16. CASE StopAll
  BY <1>16 DEF StopAll, osVars, agentVars
<1>17. ASSUME NEW p \in leaving, StopKills(p) PROVE RecordsOK'
  BY <1>17 DEF StopKills, agentVars
<1>18. ASSUME NEW p \in ending, StopEnds(p) PROVE RecordsOK'
  BY <1>18 DEF StopEnds, TypeOK, Forget, agentVars
<1>19. ASSUME NEW p \in live, Dies(p) PROVE RecordsOK'
  BY <1>19 DEF Dies, agentVars, stopVars
<1>20. CASE Crash
  BY <1>20 DEF Crash, Unlock, osVars
<1>. QED
  BY <1>1, <1>2, <1>3, <1>4, <1>5, <1>6, <1>7, <1>8, <1>9, <1>10, <1>11,
     <1>12, <1>13, <1>14, <1>15, <1>16, <1>17, <1>18, <1>19, <1>20 DEF Next, AgentStep

(* Nobody but the lock's holder and the process itself changes what it knows. *)
LEMMA HandsStep ==
  ASSUME IInv, Next
  PROVE  HandsOK'
<1>. USE DEF IInv, HandsOK, ModelOf
<1>1. ASSUME NEW a \in Agents, Ask(a) PROVE HandsOK'
  <2>1. UNCHANGED resident /\ Listed' = Listed
    BY <1>1, Unmoved DEF Ask, RegistryOK, Go, osVars, stopVars
  <2>2. /\ \A b \in Agents : b # a => at'[b] = at[b] /\ want'[b] = want[b] /\ holds'[b] = holds[b]
        /\ at'[a] \notin Starting
        /\ at'[a] # "idle" => want'[a] \in Wants
    BY <1>1 DEF Ask, TypeOK, Starting, Go, osVars, stopVars
  <2>3. \A b \in Agents : b # a /\ at[b] \in Starting => at[a] # "loading"
    BY DEF LockOK, Starting
  <2>4. /\ doomed \subseteq doomed'
        /\ at[a] # "loading" => doomed' = doomed
        /\ UNCHANGED <<servers, live, record, leaving, ending, born>>
    BY <1>1 DEF Ask, Go, osVars, stopVars
  <2>5. ASSUME NEW b \in Agents, b # a, at[b] \in Starting
        PROVE  UNCHANGED <<doomed, servers, live, record, leaving, ending, born, resident>>
    BY <2>1, <2>3, <2>4, <2>5
  <2>6. ASSUME NEW b \in Agents, b # a
        PROVE  at'[b] = at[b] /\ want'[b] = want[b] /\ holds'[b] = holds[b]
    BY <2>2, <2>6
  <2>7. at'[a] \notin Starting /\ (at'[a] # "idle" => want'[a] \in Wants)
    BY <2>2
  <2>. QED
    BY <2>1, <2>5, <2>6, <2>7 DEF Untouched, Starting
<1>2. ASSUME NEW a \in Agents, Reuse(a) PROVE HandsOK'
  <2>1. \A b \in Agents : at'[b] \notin Starting
    BY <1>2, ServersAssumption DEF Reuse, LockOK, Free, Nobody, TypeOK, Starting, Go, osVars,
       stopVars
  <2>2. \A b \in Agents : at'[b] # "idle" => want'[b] \in Wants
    BY <1>2 DEF Reuse, TypeOK, Go, osVars, stopVars
  <2>. QED
    BY <2>1, <2>2 DEF Starting
<1>3. ASSUME NEW a \in Agents, TakeNone(a) PROVE HandsOK'
  <2>1. \A b \in Agents : b # a => at'[b] \notin Starting
    BY <1>3, ServersAssumption DEF TakeNone, LockOK, Free, Nobody, TypeOK, Starting, LockKept, Go,
       osVars, stopVars
  <2>2. \A b \in Agents : at'[b] # "idle" => want'[b] \in Wants
    BY <1>3 DEF TakeNone, TypeOK, LockKept, Go, osVars, stopVars
  <2>3. at'[a] = "placing" /\ want'[a] = want[a] /\ UNCHANGED servers
    BY <1>3 DEF TakeNone, TypeOK, LockKept, Go, osVars, stopVars
  <2>4. \A p \in Listed' : ModelOf(p) # want[a].model
    <3>1. CASE Find(want[a].model) = {} /\ UNCHANGED resident
      BY <3>1 DEF Find, Listed
    <3>2. CASE \E i \in Find(want[a].model) : resident' = Removed(i)
      <4>1. PICK i \in DOMAIN resident : ModelOf(resident[i]) = want[a].model /\ resident' = Removed(i)
        BY <3>2 DEF Find
      <4>2. Listed' = Listed \ {resident[i]}
        BY <4>1, TakenOut
      <4>3. resident[i] \in Listed
        BY DEF Listed
      <4>. QED
        BY <4>1, <4>2, <4>3 DEF RegistryOK
    <3>. QED
      BY <1>3, <3>1, <3>2 DEF TakeNone
  <2>. QED
    BY <2>1, <2>2, <2>3, <2>4 DEF Starting
<1>4. ASSUME NEW a \in Agents, TakeStale(a) PROVE HandsOK'
  <2>1. \A b \in Agents : b # a => at'[b] \notin Starting
    BY <1>4, ServersAssumption DEF TakeStale, LockOK, Free, Nobody, TypeOK, Starting, LockKept, Go,
       Hold, stopVars
  <2>2. \A b \in Agents : at'[b] # "idle" => want'[b] \in Wants
    BY <1>4 DEF TakeStale, TypeOK, LockKept, Go, Hold, stopVars
  <2>3. /\ at'[a] = "clearing" /\ want'[a] = want[a]
        /\ UNCHANGED <<servers, record, live>>
    BY <1>4 DEF TakeStale, TypeOK, LockKept, Go, Hold, stopVars
  <2>4. PICK i \in DOMAIN resident :
          /\ ModelOf(resident[i]) = want[a].model
          /\ resident' = Removed(i)
          /\ doomed' = doomed \cup {resident[i]}
          /\ holds'[a] = resident[i]
    BY <1>4 DEF TakeStale, Find, Hold, TypeOK
  <2>5. Listed' = Listed \ {resident[i]} /\ resident[i] \in Listed
    BY <2>4, TakenOut DEF Listed
  <2>. QED
    BY <2>1, <2>2, <2>3, <2>4, <2>5, ListedAreServers DEF Starting, RegistryOK, Untouched
<1>5. ASSUME NEW a \in Agents, Refuse(a) PROVE HandsOK'
  <2>1. \A b \in Agents : at'[b] \notin Starting
    BY <1>5, ServersAssumption DEF Refuse, LockOK, Free, Nobody, TypeOK, Starting, Leave, Unlock,
       osVars, stopVars, Go, Hold
  <2>2. \A b \in Agents : at'[b] # "idle" => want'[b] \in Wants
    BY <1>5 DEF Refuse, TypeOK, Leave, Unlock, osVars, stopVars, Go, Hold
  <2>. QED
    BY <2>1, <2>2 DEF Starting
<1>6. ASSUME NEW a \in Agents, Evict(a) PROVE HandsOK'
  <2>1. \A b \in Agents : b # a => at'[b] \notin Starting
    BY <1>6, ServersAssumption DEF Evict, LockOK, Free, Nobody, TypeOK, Starting, Go, Hold, stopVars
  <2>2. \A b \in Agents : at'[b] # "idle" => want'[b] \in Wants
    BY <1>6 DEF Evict, TypeOK, Go, Hold, stopVars
  <2>3. /\ at[a] = "placing" /\ at'[a] = "clearing" /\ want'[a] = want[a]
        /\ UNCHANGED <<servers, record, live>>
        /\ holds'[a] = resident[1]
    BY <1>6 DEF Evict, TypeOK, Go, Hold, stopVars
  <2>4. 1 \in DOMAIN resident
    BY <1>6, ServersAssumption DEF Evict, TypeOK
  <2>5. Listed' = Listed \ {resident[1]} /\ resident[1] \in Listed
    BY <1>6, <2>4, TakenOut DEF Evict, Listed
  <2>6. resident[1] \in live => resident[1] \in doomed'
    BY <1>6 DEF Evict
  <2>. QED
    BY <2>1, <2>2, <2>3, <2>5, <2>6, ListedAreServers DEF Starting, RegistryOK, Untouched
<1>7. ASSUME NEW a \in Agents, Cleared(a) PROVE HandsOK'
  <2>1. \A b \in Agents : b # a => at'[b] \notin Starting
    BY <1>7, ServersAssumption DEF Cleared, LockOK, Free, Nobody, TypeOK, Starting, Go, Hold,
       Forget, stopVars
  <2>2. \A b \in Agents : at'[b] # "idle" => want'[b] \in Wants
    BY <1>7 DEF Cleared, TypeOK, Go, Hold, Forget, stopVars
  <2>3. /\ at[a] = "clearing" /\ at'[a] = "placing" /\ want'[a] = want[a]
        /\ UNCHANGED servers
    BY <1>7 DEF Cleared, TypeOK, Go, Hold, Forget, stopVars
  <2>4. Listed' = Listed
    BY <1>7, Unmoved DEF Cleared, RegistryOK
  <2>. QED
    BY <2>1, <2>2, <2>3, <2>4 DEF Starting
<1>8. ASSUME NEW a \in Agents, Spawn(a) PROVE HandsOK'
  <2>1. \A b \in Agents : b # a => at'[b] \notin Starting
    BY <1>8, ServersAssumption DEF Spawn, LockOK, Free, Nobody, TypeOK, Starting, Go, Hold, stopVars
  <2>2. \A b \in Agents : at'[b] # "idle" => want'[b] \in Wants
    BY <1>8 DEF Spawn, TypeOK, Go, Hold, stopVars
  <2>. DEFINE p == Len(servers) + 1
  <2>3. /\ at[a] = "placing" /\ at'[a] = "loading" /\ want'[a] = want[a]
        /\ holds'[a] = p
        /\ UNCHANGED <<leaving, ending, born>>
        /\ UNCHANGED resident /\ Len(resident) < MaxLoaded
        /\ record'[want[a].model] = p
    <3>1. want[a].model \in Models
      BY <1>8, ServersAssumption DEF Spawn
    <3>. QED
      BY <1>8, <3>1 DEF Spawn, TypeOK, Go, Hold, stopVars
  <2>4. Listed' = Listed
    BY <2>3, Unmoved DEF RegistryOK
  <2>5. /\ \A q \in DOMAIN servers : servers'[q] = servers[q]
        /\ servers'[p] = want[a] /\ p \in DOMAIN servers'
    BY <1>8 DEF Spawn, TypeOK
  <2>6. \A q \in doomed' \cup leaving \cup ending : q \in DOMAIN servers
    BY <1>8 DEF Spawn, OrphanCleared, TypeOK
  <2>7. p \notin DOMAIN servers /\ p > born
    BY DEF TypeOK
  <2>8. \A q \in Listed : q \in DOMAIN servers /\ ModelOf(q) # want[a].model
    BY <2>3, ListedAreServers DEF Starting
  <2>. HIDE DEF p
  <2>. QED
    BY <2>1, <2>2, <2>3, <2>4, <2>5, <2>6, <2>7, <2>8 DEF Starting
<1>9. ASSUME NEW a \in Agents, CannotSpawn(a) PROVE HandsOK'
  <2>1. \A b \in Agents : at'[b] \notin Starting
    BY <1>9, ServersAssumption DEF CannotSpawn, LockOK, Free, Nobody, TypeOK, Starting, Leave,
       Unlock, stopVars, Go, Hold
  <2>2. \A b \in Agents : at'[b] # "idle" => want'[b] \in Wants
    BY <1>9 DEF CannotSpawn, TypeOK, Leave, Unlock, stopVars, Go, Hold
  <2>. QED
    BY <2>1, <2>2 DEF Starting
<1>10. ASSUME NEW a \in Agents, Loaded(a) PROVE HandsOK'
  <2>1. \A b \in Agents : at'[b] \notin Starting
    BY <1>10, ServersAssumption DEF Loaded, LockOK, Free, Nobody, TypeOK, Starting, Go, Hold,
       Unlock, osVars, stopVars
  <2>2. \A b \in Agents : at'[b] # "idle" => want'[b] \in Wants
    BY <1>10 DEF Loaded, TypeOK, Go, Hold, Unlock, osVars, stopVars
  <2>. QED
    BY <2>1, <2>2 DEF Starting
<1>11. ASSUME NEW a \in Agents, NotLoaded(a) PROVE HandsOK'
  <2>1. \A b \in Agents : b # a => at'[b] \notin Starting
    BY <1>11, ServersAssumption DEF NotLoaded, LockOK, Free, Nobody, TypeOK, Starting, PortsLeft,
       GivesUp, Go, Leave, Hold, Unlock, Forget, stopVars
  <2>2. \A b \in Agents : at'[b] # "idle" => want'[b] \in Wants
    BY <1>11 DEF NotLoaded, TypeOK, PortsLeft, GivesUp, Go, Leave, Hold, Unlock, Forget, stopVars
  <2>3. /\ at[a] = "loading" /\ at'[a] \in {"placing", "idle"} /\ UNCHANGED servers
        /\ at'[a] = "placing" => want'[a] = want[a]
    BY <1>11 DEF NotLoaded, TypeOK, PortsLeft, GivesUp, Go, Leave, Hold, Unlock, Forget, stopVars
  <2>4. Listed' = Listed
    BY <1>11, Unmoved DEF NotLoaded, RegistryOK
  <2>. QED
    BY <2>1, <2>2, <2>3, <2>4 DEF Starting
<1>12. ASSUME NEW a \in Agents, Finish(a) PROVE HandsOK'
  <2>1. UNCHANGED resident /\ Listed' = Listed
    BY <1>12, Unmoved DEF Finish, RegistryOK, Leave, osVars, stopVars, Go, Hold
  <2>2. /\ \A b \in Agents : b # a => at'[b] = at[b] /\ want'[b] = want[b] /\ holds'[b] = holds[b]
        /\ at'[a] \notin Starting
        /\ at'[a] # "idle" => want'[a] \in Wants
    BY <1>12 DEF Finish, TypeOK, Starting, Leave, osVars, stopVars, Go, Hold
  <2>3. \A b \in Agents : b # a /\ at[b] \in Starting => at[a] # "loading"
    BY DEF LockOK, Starting
  <2>4. /\ doomed \subseteq doomed'
        /\ at[a] # "loading" => doomed' = doomed
        /\ UNCHANGED <<servers, live, record, leaving, ending, born>>
    BY <1>12 DEF Finish, Leave, osVars, stopVars, Go, Hold
  <2>5. ASSUME NEW b \in Agents, b # a, at[b] \in Starting
        PROVE  UNCHANGED <<doomed, servers, live, record, leaving, ending, born, resident>>
    BY <2>1, <2>3, <2>4, <2>5
  <2>6. ASSUME NEW b \in Agents, b # a
        PROVE  at'[b] = at[b] /\ want'[b] = want[b] /\ holds'[b] = holds[b]
    BY <2>2, <2>6
  <2>7. at'[a] \notin Starting /\ (at'[a] # "idle" => want'[a] \in Wants)
    BY <2>2
  <2>. QED
    BY <2>1, <2>5, <2>6, <2>7 DEF Untouched, Starting
<1>13. ASSUME NEW a \in Agents, Abandon(a) PROVE HandsOK'
  <2>1. UNCHANGED resident /\ Listed' = Listed
    BY <1>13, Unmoved DEF Abandon, RegistryOK, Dropped, Leave, Unlock, stopVars, Go, Hold
  <2>2. /\ \A b \in Agents : b # a => at'[b] = at[b] /\ want'[b] = want[b] /\ holds'[b] = holds[b]
        /\ at'[a] \notin Starting
        /\ at'[a] # "idle" => want'[a] \in Wants
    BY <1>13 DEF Abandon, TypeOK, Starting, Dropped, Leave, Unlock, stopVars, Go, Hold
  <2>3. \A b \in Agents : b # a /\ at[b] \in Starting => at[a] # "loading"
    BY DEF LockOK, Starting
  <2>4. /\ doomed \subseteq doomed'
        /\ at[a] # "loading" => doomed' = doomed
        /\ UNCHANGED <<servers, live, record, leaving, ending, born>>
    BY <1>13 DEF Abandon, Dropped, Leave, Unlock, stopVars, Go, Hold
  <2>5. ASSUME NEW b \in Agents, b # a, at[b] \in Starting
        PROVE  UNCHANGED <<doomed, servers, live, record, leaving, ending, born, resident>>
    BY <2>1, <2>3, <2>4, <2>5
  <2>6. ASSUME NEW b \in Agents, b # a
        PROVE  at'[b] = at[b] /\ want'[b] = want[b] /\ holds'[b] = holds[b]
    BY <2>2, <2>6
  <2>7. at'[a] \notin Starting /\ (at'[a] # "idle" => want'[a] \in Wants)
    BY <2>2
  <2>. QED
    BY <2>1, <2>5, <2>6, <2>7 DEF Untouched, Starting
<1>14. ASSUME NEW a \in Agents, Retry(a) PROVE HandsOK'
  <2>1. UNCHANGED resident /\ Listed' = Listed
    BY <1>14, Unmoved DEF Retry, RegistryOK, Go, osVars, stopVars
  <2>2. /\ \A b \in Agents : b # a => at'[b] = at[b] /\ want'[b] = want[b] /\ holds'[b] = holds[b]
        /\ at'[a] \notin Starting
        /\ at'[a] # "idle" => want'[a] \in Wants
    BY <1>14 DEF Retry, TypeOK, Starting, Go, osVars, stopVars
  <2>3. \A b \in Agents : b # a /\ at[b] \in Starting => at[a] # "loading"
    BY DEF LockOK, Starting
  <2>4. /\ doomed \subseteq doomed'
        /\ at[a] # "loading" => doomed' = doomed
        /\ UNCHANGED <<servers, live, record, leaving, ending, born>>
    BY <1>14 DEF Retry, Go, osVars, stopVars
  <2>5. ASSUME NEW b \in Agents, b # a, at[b] \in Starting
        PROVE  UNCHANGED <<doomed, servers, live, record, leaving, ending, born, resident>>
    BY <2>1, <2>3, <2>4, <2>5
  <2>6. ASSUME NEW b \in Agents, b # a
        PROVE  at'[b] = at[b] /\ want'[b] = want[b] /\ holds'[b] = holds[b]
    BY <2>2, <2>6
  <2>7. at'[a] \notin Starting /\ (at'[a] # "idle" => want'[a] \in Wants)
    BY <2>2
  <2>. QED
    BY <2>1, <2>5, <2>6, <2>7 DEF Untouched, Starting
<1>15. ASSUME NEW m \in Models, StopOne(m) PROVE HandsOK'
  <2>1. \A b \in Agents : at'[b] \notin Starting
    BY <1>15, ServersAssumption DEF StopOne, LockOK, Free, Nobody, TypeOK, Starting, osVars,
       agentVars
  <2>2. \A b \in Agents : at'[b] # "idle" => want'[b] \in Wants
    BY <1>15 DEF StopOne, TypeOK, osVars, agentVars
  <2>. QED
    BY <2>1, <2>2 DEF Starting
<1>16. CASE StopAll
  <2>1. \A b \in Agents : at'[b] \notin Starting
    BY <1>16, ServersAssumption DEF StopAll, LockOK, Free, Nobody, TypeOK, Starting, osVars,
       agentVars
  <2>2. \A b \in Agents : at'[b] # "idle" => want'[b] \in Wants
    BY <1>16 DEF StopAll, TypeOK, osVars, agentVars
  <2>. QED
    BY <2>1, <2>2 DEF Starting
<1>17. ASSUME NEW p \in leaving, StopKills(p) PROVE HandsOK'
  <2>1. UNCHANGED <<resident, agentVars, servers, record, born>> /\ Listed' = Listed
    BY <1>17, Unmoved DEF StopKills, RegistryOK, agentVars
  <2>3. Untouched' \subseteq Untouched
    BY <1>17 DEF StopKills, Untouched
  <2>4. \A q : q \in doomed' \cup leaving' \cup ending' =>
          q \in doomed \cup leaving \cup ending
    BY <1>17 DEF StopKills, stopVars
  <2>. QED
    BY <2>1, <2>3, <2>4 DEF agentVars, Starting
<1>18. ASSUME NEW p \in ending, StopEnds(p) PROVE HandsOK'
  <2>1. /\ UNCHANGED <<resident, agentVars, servers, doomed, live, leaving, born>>
        /\ Listed' = Listed /\ ending' \subseteq ending
    BY <1>18, Unmoved DEF StopEnds, RegistryOK, Forget, agentVars
  <2>2. \A m \in Models : record'[m] \in {0, record[m]}
    BY <1>18 DEF StopEnds, TypeOK, Forget
  <2>3. \A b \in Agents : at[b] \in {"clearing", "loading"} => ModelOf(holds[b]) \in Models
    BY ListedAreServers
  <2>. QED
    BY <2>1, <2>2, <2>3 DEF agentVars, Starting, Untouched
<1>19. ASSUME NEW p \in live, Dies(p) PROVE HandsOK'
  <2>1. UNCHANGED <<resident, agentVars, servers, record, born>> /\ Listed' = Listed
    BY <1>19, Unmoved DEF Dies, RegistryOK, agentVars, stopVars
  <2>3. Untouched' \subseteq Untouched
    BY <1>19 DEF Dies, Untouched
  <2>4. \A q : q \in doomed' \cup leaving' \cup ending' =>
          q \in doomed \cup leaving \cup ending
    BY <1>19 DEF Dies, stopVars
  <2>. QED
    BY <2>1, <2>3, <2>4 DEF agentVars, Starting
<1>20. CASE Crash
  <2>1. \A b \in Agents : at'[b] \notin Starting
    BY <1>20, ServersAssumption DEF Crash, LockOK, Free, Nobody, TypeOK, Starting, Unlock, osVars
  <2>2. \A b \in Agents : at'[b] # "idle" => want'[b] \in Wants
    BY <1>20 DEF Crash, TypeOK, Unlock, osVars
  <2>. QED
    BY <2>1, <2>2 DEF Starting
<1>. QED
  BY <1>1, <1>2, <1>3, <1>4, <1>5, <1>6, <1>7, <1>8, <1>9, <1>10, <1>11,
     <1>12, <1>13, <1>14, <1>15, <1>16, <1>17, <1>18, <1>19, <1>20 DEF Next, AgentStep

(* The two halves of ServersAreFound. *)
InReach == \A p \in Staying : p \in Listed \/ \E a \in Agents : at[a] = "loading" /\ holds[a] = p

Recorded == \A p \in Untouched : record[ModelOf(p)] = p \/ p \in lost

(* A server leaves the registry, or the hands of the agent that starts it, only to be ended. *)
LEMMA ReachStep ==
  ASSUME IInv, Next
  PROVE  InReach'
<1>. USE DEF IInv, ServersAreFound, InReach
<1>1. ASSUME NEW a \in Agents, Ask(a) PROVE InReach'
  <2>1. Listed' = Listed /\ Staying' \subseteq Staying
    BY <1>1, Unmoved DEF Ask, RegistryOK, Staying, Untouched, Go, osVars, stopVars
  <2>2. \A b \in Agents : at[b] = "loading" => at'[b] = "loading" /\ holds'[b] = holds[b]
    BY <1>1 DEF Ask, TypeOK, Go, osVars, stopVars
  <2>. QED
    BY <2>1, <2>2
<1>2. ASSUME NEW a \in Agents, Reuse(a) PROVE InReach'
  <2>1. PICK i \in DOMAIN resident : resident' = Append(Removed(i), resident[i])
    BY <1>2 DEF Reuse, Find
  <2>2. Listed' = Listed
    BY <2>1, UsedLast
  <2>3. Staying' = Staying /\ UNCHANGED holds
    BY <1>2 DEF Reuse, Staying, Untouched, Go, osVars, stopVars
  <2>4. \A b \in Agents : at[b] = "loading" => at'[b] = "loading"
    BY <1>2 DEF Reuse, TypeOK, Go, osVars, stopVars
  <2>. QED
    BY <2>2, <2>3, <2>4
<1>3. ASSUME NEW a \in Agents, TakeNone(a) PROVE InReach'
  <2>1. Staying' = Staying /\ UNCHANGED holds
    BY <1>3 DEF TakeNone, Staying, Untouched, LockKept, Go, osVars, stopVars
  <2>2. \A b \in Agents : at[b] = "loading" => at'[b] = "loading"
    BY <1>3 DEF TakeNone, TypeOK, LockKept, Go, osVars, stopVars
  <2>3. \A p \in Listed : p \in Listed' \/ p \notin live
    <3>1. CASE UNCHANGED resident
      BY <3>1 DEF Listed
    <3>2. CASE \E i \in Find(want[a].model) : resident[i] \notin live /\ resident' = Removed(i)
      BY <3>2, TakenOut DEF Find
    <3>. QED
      BY <1>3, <3>1, <3>2 DEF TakeNone
  <2>. QED
    BY <2>1, <2>2, <2>3 DEF Staying, Untouched
<1>4. ASSUME NEW a \in Agents, TakeStale(a) PROVE InReach'
  <2>1. PICK i \in DOMAIN resident :
          resident' = Removed(i) /\ doomed' = doomed \cup {resident[i]}
    BY <1>4 DEF TakeStale, Find
  <2>2. Listed' = Listed \ {resident[i]}
    BY <2>1, TakenOut
  <2>3. Staying' = Staying \ {resident[i]}
    BY <1>4, <2>1 DEF TakeStale, Staying, Untouched, LockKept, Go, Hold, stopVars
  <2>4. \A b \in Agents : at[b] = "loading" => at'[b] = "loading" /\ holds'[b] = holds[b]
    BY <1>4 DEF TakeStale, TypeOK, LockKept, Go, Hold, stopVars
  <2>. QED
    BY <2>2, <2>3, <2>4
<1>5. ASSUME NEW a \in Agents, Refuse(a) PROVE InReach'
  <2>1. Listed' = Listed /\ Staying' \subseteq Staying
    BY <1>5, Unmoved DEF Refuse, RegistryOK, Staying, Untouched, Leave, Unlock, osVars, stopVars,
       Go, Hold
  <2>2. \A b \in Agents : at[b] = "loading" => at'[b] = "loading" /\ holds'[b] = holds[b]
    BY <1>5 DEF Refuse, TypeOK, Leave, Unlock, osVars, stopVars, Go, Hold
  <2>. QED
    BY <2>1, <2>2
<1>6. ASSUME NEW a \in Agents, Evict(a) PROVE InReach'
  <2>1. 1 \in DOMAIN resident
    BY <1>6, ServersAssumption DEF Evict, TypeOK
  <2>2. Listed' = Listed \ {resident[1]}
    BY <1>6, <2>1, TakenOut DEF Evict
  <2>3. Staying' = Staying \ {resident[1]}
    BY <1>6 DEF Evict, Staying, Untouched, Go, Hold, stopVars
  <2>4. \A b \in Agents : at[b] = "loading" => at'[b] = "loading" /\ holds'[b] = holds[b]
    BY <1>6 DEF Evict, TypeOK, Go, Hold, stopVars
  <2>. QED
    BY <2>2, <2>3, <2>4
<1>7. ASSUME NEW a \in Agents, Cleared(a) PROVE InReach'
  <2>1. Listed' = Listed /\ Staying' \subseteq Staying
    BY <1>7, Unmoved DEF Cleared, RegistryOK, Staying, Untouched, Go, Hold, Forget, stopVars
  <2>2. \A b \in Agents : at[b] = "loading" => at'[b] = "loading" /\ holds'[b] = holds[b]
    BY <1>7 DEF Cleared, TypeOK, Go, Hold, Forget, stopVars
  <2>. QED
    BY <2>1, <2>2
<1>8. ASSUME NEW a \in Agents, Spawn(a) PROVE InReach'
  <2>1. Listed' = Listed /\ UNCHANGED <<born, leaving>>
    BY <1>8, Unmoved DEF Spawn, RegistryOK, stopVars
  <2>2. live' = live \cup {Len(servers) + 1} /\ doomed \subseteq doomed'
    BY <1>8 DEF Spawn, OrphanCleared
  <2>3. at'[a] = "loading" /\ holds'[a] = Len(servers) + 1
    BY <1>8 DEF Spawn, TypeOK, Go, Hold, stopVars
  <2>4. \A b \in Agents : at[b] # "loading"
    BY <1>8 DEF Spawn, LockOK, Starting
  <2>. QED
    BY <2>1, <2>2, <2>3, <2>4 DEF Staying, Untouched
<1>9. ASSUME NEW a \in Agents, CannotSpawn(a) PROVE InReach'
  <2>1. Listed' = Listed /\ UNCHANGED <<born, leaving, live>>
    BY <1>9, Unmoved DEF CannotSpawn, RegistryOK, stopVars
  <2>2. doomed \subseteq doomed'
    BY <1>9 DEF CannotSpawn, OrphanCleared
  <2>3. \A b \in Agents : at[b] # "loading"
    BY <1>9 DEF CannotSpawn, LockOK, Starting
  <2>. QED
    BY <2>1, <2>2, <2>3 DEF Staying, Untouched
<1>10. ASSUME NEW a \in Agents, Loaded(a) PROVE InReach'
  <2>1. holds[a] \in DOMAIN servers /\ holds[a] \notin Listed /\ resident' = Append(resident, holds[a])
    BY <1>10 DEF Loaded, HandsOK, RegistryOK, Starting
  <2>2. Listed' = Listed \cup {holds[a]}
    BY <2>1, PutIn
  <2>3. Staying' = Staying
    BY <1>10 DEF Loaded, Staying, Untouched, Go, Hold, Unlock, osVars, stopVars
  <2>4. \A b \in Agents : at[b] = "loading" => b = a
    BY <1>10 DEF Loaded, LockOK, Starting
  <2>. QED
    BY <2>2, <2>3, <2>4
<1>11. ASSUME NEW a \in Agents, NotLoaded(a) PROVE InReach'
  <2>1. Listed' = Listed
    BY <1>11, Unmoved DEF NotLoaded, RegistryOK, PortsLeft, GivesUp, Go, Leave, Hold, Unlock,
       Forget, stopVars
  <2>2. \A p \in Staying' : p \in Staying /\ ~(at[a] = "loading" /\ p = holds[a])
    BY <1>11 DEF NotLoaded, Staying, Untouched, PortsLeft, GivesUp, Go, Leave, Hold, Unlock,
       Forget, stopVars
  <2>3. \A b \in Agents \ {a} : at'[b] = at[b] /\ holds'[b] = holds[b]
    BY <1>11 DEF NotLoaded, TypeOK, PortsLeft, GivesUp, Go, Leave, Hold, Unlock, Forget, stopVars
  <2>. QED
    BY <2>1, <2>2, <2>3
<1>12. ASSUME NEW a \in Agents, Finish(a) PROVE InReach'
  <2>1. Listed' = Listed /\ Staying' \subseteq Staying
    BY <1>12, Unmoved DEF Finish, RegistryOK, Staying, Untouched, Leave, osVars, stopVars, Go, Hold
  <2>2. \A b \in Agents : at[b] = "loading" => at'[b] = "loading" /\ holds'[b] = holds[b]
    BY <1>12 DEF Finish, TypeOK, Leave, osVars, stopVars, Go, Hold
  <2>. QED
    BY <2>1, <2>2
<1>13. ASSUME NEW a \in Agents, Abandon(a) PROVE InReach'
  <2>1. Listed' = Listed
    BY <1>13, Unmoved DEF Abandon, RegistryOK, Dropped, Leave, Unlock, stopVars, Go, Hold
  <2>2. \A p \in Staying' : p \in Staying /\ ~(at[a] = "loading" /\ p = holds[a])
    BY <1>13 DEF Abandon, Staying, Untouched, Dropped, Leave, Unlock, stopVars, Go, Hold
  <2>3. \A b \in Agents \ {a} : at'[b] = at[b] /\ holds'[b] = holds[b]
    BY <1>13 DEF Abandon, TypeOK, Dropped, Leave, Unlock, stopVars, Go, Hold
  <2>. QED
    BY <2>1, <2>2, <2>3
<1>14. ASSUME NEW a \in Agents, Retry(a) PROVE InReach'
  <2>1. Listed' = Listed /\ Staying' \subseteq Staying
    BY <1>14, Unmoved DEF Retry, RegistryOK, Staying, Untouched, Go, osVars, stopVars
  <2>2. \A b \in Agents : at[b] = "loading" => at'[b] = "loading" /\ holds'[b] = holds[b]
    BY <1>14 DEF Retry, TypeOK, Go, osVars, stopVars
  <2>. QED
    BY <2>1, <2>2
<1>15. ASSUME NEW m \in Models, StopOne(m) PROVE InReach'
  <2>1. PICK i \in DOMAIN resident :
          resident' = Removed(i) /\ leaving' = leaving \cup {resident[i]}
    BY <1>15 DEF StopOne, Find
  <2>2. Listed' = Listed \ {resident[i]}
    BY <2>1, TakenOut
  <2>3. Staying' = Staying \ {resident[i]}
    BY <1>15, <2>1 DEF StopOne, Staying, Untouched, osVars
  <2>. QED
    BY <1>15, <2>2, <2>3 DEF StopOne, agentVars
<1>16. CASE StopAll
  <2>1. Staying' = Staying \ Listed
    BY <1>16 DEF StopAll, Staying, Untouched, osVars
  <2>. QED
    BY <1>16, <2>1 DEF StopAll, agentVars
<1>17. ASSUME NEW p \in leaving, StopKills(p) PROVE InReach'
  <2>1. Listed' = Listed /\ Staying' \subseteq Staying
    BY <1>17, Unmoved DEF StopKills, RegistryOK, Staying, Untouched, agentVars
  <2>2. \A b \in Agents : at[b] = "loading" => at'[b] = "loading" /\ holds'[b] = holds[b]
    BY <1>17 DEF StopKills, TypeOK, agentVars
  <2>. QED
    BY <2>1, <2>2
<1>18. ASSUME NEW p \in ending, StopEnds(p) PROVE InReach'
  <2>1. Listed' = Listed /\ Staying' \subseteq Staying
    BY <1>18, Unmoved DEF StopEnds, RegistryOK, Staying, Untouched, Forget, agentVars
  <2>2. \A b \in Agents : at[b] = "loading" => at'[b] = "loading" /\ holds'[b] = holds[b]
    BY <1>18 DEF StopEnds, TypeOK, Forget, agentVars
  <2>. QED
    BY <2>1, <2>2
<1>19. ASSUME NEW p \in live, Dies(p) PROVE InReach'
  <2>1. Listed' = Listed /\ Staying' \subseteq Staying
    BY <1>19, Unmoved DEF Dies, RegistryOK, Staying, Untouched, agentVars, stopVars
  <2>2. \A b \in Agents : at[b] = "loading" => at'[b] = "loading" /\ holds'[b] = holds[b]
    BY <1>19 DEF Dies, TypeOK, agentVars, stopVars
  <2>. QED
    BY <2>1, <2>2
<1>20. CASE Crash
  <2>1. \A p \in live : ~(p > Len(servers))
    BY DEF TypeOK
  <2>. QED
    BY <1>20, <2>1 DEF Crash, Staying, Untouched, osVars
<1>. QED
  BY <1>1, <1>2, <1>3, <1>4, <1>5, <1>6, <1>7, <1>8, <1>9, <1>10, <1>11,
     <1>12, <1>13, <1>14, <1>15, <1>16, <1>17, <1>18, <1>19, <1>20 DEF Next, AgentStep

(* A record is written over or removed when its process is ended, or counted as lost. *)
LEMMA RecordedStep ==
  ASSUME IInv, Next
  PROVE  Recorded'
<1>. USE DEF IInv, ServersAreFound, Recorded, ModelOf
<1>1. ASSUME NEW a \in Agents, Ask(a) PROVE Recorded'
  <2>1. Untouched' \subseteq Untouched /\ UNCHANGED <<servers, record, lost>>
    BY <1>1 DEF Ask, Untouched, Go, osVars, stopVars
  <2>. QED
    BY <2>1
<1>2. ASSUME NEW a \in Agents, Reuse(a) PROVE Recorded'
  <2>1. Untouched' \subseteq Untouched /\ UNCHANGED <<servers, record, lost>>
    BY <1>2 DEF Reuse, Untouched, Go, osVars, stopVars
  <2>. QED
    BY <2>1
<1>3. ASSUME NEW a \in Agents, TakeNone(a) PROVE Recorded'
  <2>1. Untouched' \subseteq Untouched /\ UNCHANGED <<servers, record, lost>>
    BY <1>3 DEF TakeNone, Untouched, LockKept, Go, osVars, stopVars
  <2>. QED
    BY <2>1
<1>4. ASSUME NEW a \in Agents, TakeStale(a) PROVE Recorded'
  <2>1. Untouched' \subseteq Untouched /\ UNCHANGED <<servers, record, lost>>
    BY <1>4 DEF TakeStale, Untouched, LockKept, Go, Hold, stopVars
  <2>. QED
    BY <2>1
<1>5. ASSUME NEW a \in Agents, Refuse(a) PROVE Recorded'
  <2>1. Untouched' \subseteq Untouched /\ UNCHANGED <<servers, record, lost>>
    BY <1>5 DEF Refuse, Untouched, Leave, Unlock, osVars, stopVars, Go, Hold
  <2>. QED
    BY <2>1
<1>6. ASSUME NEW a \in Agents, Evict(a) PROVE Recorded'
  <2>1. Untouched' \subseteq Untouched /\ UNCHANGED <<servers, record, lost>>
    BY <1>6 DEF Evict, Untouched, Go, Hold, stopVars
  <2>. QED
    BY <2>1
<1>7. ASSUME NEW a \in Agents, Cleared(a) PROVE Recorded'
  <2>1. Untouched' \subseteq Untouched /\ UNCHANGED <<servers, lost>>
    BY <1>7 DEF Cleared, Untouched, Go, Hold, Forget, stopVars
  <2>2. /\ holds[a] \in DOMAIN servers /\ holds[a] \notin Untouched'
        /\ record[ModelOf(holds[a])] \in {0, holds[a]}
    BY <1>7 DEF Cleared, HandsOK, Untouched
  <2>3. record' = [record EXCEPT ![ModelOf(holds[a])] = 0]
    BY <1>7 DEF Cleared, Forget
  <2>4. ASSUME NEW q \in Untouched' PROVE record'[ModelOf(q)] = q \/ q \in lost
    <3>1. q \in DOMAIN servers /\ q # 0 /\ q # holds[a] /\ ModelOf(q) \in Models
      BY <2>1, <2>2, ListedAreServers DEF TypeOK, Untouched
    <3>2. ModelOf(q) # ModelOf(holds[a]) => record'[ModelOf(q)] = record[ModelOf(q)]
      BY <2>3, <3>1 DEF TypeOK
    <3>3. record[ModelOf(q)] = q \/ q \in lost
      BY <2>1
    <3>. QED
      BY <2>2, <3>1, <3>2, <3>3
  <2>. QED
    BY <2>1, <2>4
<1>8. ASSUME NEW a \in Agents, Spawn(a) PROVE Recorded'
  <2>1. PICK same \in BOOLEAN : OrphanCleared(want[a].model, same)
    BY <1>8 DEF Spawn
  <2>2. ASSUME NEW q \in Untouched, q \notin doomed' PROVE record'[ModelOf(q)] = q \/ q \in lost'
    <3>1. ModelOf(q) \in Models /\ q \in live
      BY ListedAreServers DEF TypeOK, Untouched
    <3>2. CASE ModelOf(q) # want[a].model
      <4>1. record'[ModelOf(q)] = record[ModelOf(q)]
        BY <1>8, <3>1, <3>2 DEF Spawn, TypeOK
      <4>. QED
        BY <2>1, <4>1 DEF OrphanCleared
    <3>3. CASE ModelOf(q) = want[a].model
      BY <2>1, <2>2, <3>1, <3>3 DEF OrphanCleared, LostBy
    <3>. QED
      BY <3>2, <3>3
  <2>. DEFINE n == Len(servers) + 1
  <2>3. \A q \in Untouched' : q = n \/ q \in Untouched
    BY <1>8 DEF Spawn, OrphanCleared, Untouched
  <2>4. /\ \A q \in DOMAIN servers : servers'[q] = servers[q]
        /\ servers'[n] = want[a]
    BY <1>8 DEF Spawn, TypeOK
  <2>5. record'[want[a].model] = n
    <3>1. want[a].model \in Models
      BY <1>8, ServersAssumption DEF Spawn, HandsOK
    <3>. QED
      BY <1>8, <3>1 DEF Spawn, TypeOK
  <2>6. Untouched \subseteq DOMAIN servers
    BY DEF Untouched, TypeOK
  <2>. HIDE DEF n
  <2>. QED
    BY <2>2, <2>3, <2>4, <2>5, <2>6 DEF Untouched
<1>9. ASSUME NEW a \in Agents, CannotSpawn(a) PROVE Recorded'
  <2>1. PICK same \in BOOLEAN : OrphanCleared(want[a].model, same)
    BY <1>9 DEF CannotSpawn
  <2>2. ASSUME NEW q \in Untouched, q \notin doomed' PROVE record'[ModelOf(q)] = q \/ q \in lost'
    <3>1. ModelOf(q) \in Models /\ q \in live
      BY ListedAreServers DEF TypeOK, Untouched
    <3>2. CASE ModelOf(q) # want[a].model
      <4>1. record'[ModelOf(q)] = record[ModelOf(q)]
        BY <1>9, <3>1, <3>2 DEF CannotSpawn, TypeOK
      <4>. QED
        BY <2>1, <4>1 DEF OrphanCleared
    <3>3. CASE ModelOf(q) = want[a].model
      BY <2>1, <2>2, <3>1, <3>3 DEF OrphanCleared, LostBy
    <3>. QED
      BY <3>2, <3>3
  <2>3. Untouched' \subseteq Untouched /\ UNCHANGED servers
    BY <1>9 DEF CannotSpawn, OrphanCleared, Untouched
  <2>. QED
    BY <2>2, <2>3 DEF Untouched
<1>10. ASSUME NEW a \in Agents, Loaded(a) PROVE Recorded'
  <2>1. Untouched' \subseteq Untouched /\ UNCHANGED <<servers, record, lost>>
    BY <1>10 DEF Loaded, Untouched, Go, Hold, Unlock, osVars, stopVars
  <2>. QED
    BY <2>1
<1>11. ASSUME NEW a \in Agents, NotLoaded(a) PROVE Recorded'
  <2>1. Untouched' \subseteq Untouched /\ UNCHANGED <<servers, lost>>
    BY <1>11 DEF NotLoaded, Untouched, PortsLeft, GivesUp, Go, Leave, Hold, Unlock, Forget, stopVars
  <2>2. /\ holds[a] \in DOMAIN servers /\ holds[a] \notin Untouched'
        /\ record[ModelOf(holds[a])] \in {0, holds[a]}
    BY <1>11 DEF NotLoaded, HandsOK, Untouched
  <2>3. record' = [record EXCEPT ![ModelOf(holds[a])] = 0]
    BY <1>11 DEF NotLoaded, Forget
  <2>4. ASSUME NEW q \in Untouched' PROVE record'[ModelOf(q)] = q \/ q \in lost
    <3>1. q \in DOMAIN servers /\ q # 0 /\ q # holds[a] /\ ModelOf(q) \in Models
      BY <2>1, <2>2, ListedAreServers DEF TypeOK, Untouched
    <3>2. ModelOf(q) # ModelOf(holds[a]) => record'[ModelOf(q)] = record[ModelOf(q)]
      BY <2>3, <3>1 DEF TypeOK
    <3>3. record[ModelOf(q)] = q \/ q \in lost
      BY <2>1
    <3>. QED
      BY <2>2, <3>1, <3>2, <3>3
  <2>. QED
    BY <2>1, <2>4
<1>12. ASSUME NEW a \in Agents, Finish(a) PROVE Recorded'
  <2>1. Untouched' \subseteq Untouched /\ UNCHANGED <<servers, record, lost>>
    BY <1>12 DEF Finish, Untouched, Leave, osVars, stopVars, Go, Hold
  <2>. QED
    BY <2>1
<1>13. ASSUME NEW a \in Agents, Abandon(a) PROVE Recorded'
  <2>1. Untouched' \subseteq Untouched /\ UNCHANGED <<servers, record, lost>>
    BY <1>13 DEF Abandon, Untouched, Dropped, Leave, Unlock, stopVars, Go, Hold
  <2>. QED
    BY <2>1
<1>14. ASSUME NEW a \in Agents, Retry(a) PROVE Recorded'
  <2>1. Untouched' \subseteq Untouched /\ UNCHANGED <<servers, record, lost>>
    BY <1>14 DEF Retry, Untouched, Go, osVars, stopVars
  <2>. QED
    BY <2>1
<1>15. ASSUME NEW m \in Models, StopOne(m) PROVE Recorded'
  <2>1. Untouched' \subseteq Untouched /\ UNCHANGED <<servers, record, lost>>
    BY <1>15 DEF StopOne, Untouched, osVars, agentVars
  <2>. QED
    BY <2>1
<1>16. CASE StopAll
  <2>1. Untouched' \subseteq Untouched /\ UNCHANGED <<servers, record, lost>>
    BY <1>16 DEF StopAll, Untouched, osVars, agentVars
  <2>. QED
    BY <2>1
<1>17. ASSUME NEW p \in leaving, StopKills(p) PROVE Recorded'
  <2>1. Untouched' \subseteq Untouched /\ UNCHANGED <<servers, record, lost>>
    BY <1>17 DEF StopKills, Untouched, agentVars
  <2>. QED
    BY <2>1
<1>18. ASSUME NEW p \in ending, StopEnds(p) PROVE Recorded'
  <2>1. Untouched' = Untouched /\ UNCHANGED servers
    BY <1>18 DEF StopEnds, Untouched
  <2>2. /\ record' = [record EXCEPT ![ModelOf(p)] = 0]
        /\ lost' = lost \cup LostBy(record[ModelOf(p)])
    BY <1>18 DEF StopEnds, Forget
  <2>3. ASSUME NEW q \in Untouched PROVE record'[ModelOf(q)] = q \/ q \in lost'
    <3>1. ModelOf(q) \in Models
      BY ListedAreServers DEF TypeOK, Untouched
    <3>2. ModelOf(q) # ModelOf(p) => record'[ModelOf(q)] = record[ModelOf(q)]
      BY <2>2, <3>1 DEF TypeOK
    <3>. QED
      BY <2>2, <3>2 DEF LostBy
  <2>. QED
    BY <2>1, <2>3
<1>19. ASSUME NEW p \in live, Dies(p) PROVE Recorded'
  <2>1. Untouched' \subseteq Untouched \ {p} /\ UNCHANGED <<servers, record>> /\ lost' = lost \ {p}
    BY <1>19 DEF Dies, Untouched
  <2>. QED
    BY <2>1
<1>20. CASE Crash
  <2>1. Untouched' \subseteq Untouched /\ UNCHANGED <<servers, record, lost>>
    BY <1>20 DEF Crash, Untouched, Unlock, osVars
  <2>. QED
    BY <2>1
<1>. QED
  BY <1>1, <1>2, <1>3, <1>4, <1>5, <1>6, <1>7, <1>8, <1>9, <1>10, <1>11,
     <1>12, <1>13, <1>14, <1>15, <1>16, <1>17, <1>18, <1>19, <1>20 DEF Next, AgentStep

-----------------------------------------------------------------------------
(* IInv is inductive. *)
THEOREM Invariant == Spec => []IInv
<1>1. Init => IInv
  <2>1. Init => TypeOK
    BY ServersAssumption DEF Init, TypeOK, Stages, Nobody, NoWant
  <2>2. Init => LockOK
    BY ServersAssumption DEF Init, LockOK, Free, Nobody, Starting
  <2>3. Init => Listed = {} /\ Len(resident) = 0 /\ OneEntryEach
    BY DEF Init, Listed, OneEntryEach
  <2>4. Init => RegistryOK /\ RecordsOK /\ HandsOK /\ ServersAreFound
    BY <2>3, ServersAssumption DEF Init, RegistryOK, RecordsOK, HandsOK, ServersAreFound, Starting,
       Staying, Untouched
  <2>. QED
    BY <2>1, <2>2, <2>4 DEF IInv
<1>2. IInv /\ [Next]_vars => IInv'
  <2>. SUFFICES ASSUME IInv, [Next]_vars PROVE IInv'
    OBVIOUS
  <2>1. CASE UNCHANGED vars
    <3>1. TypeOK' /\ LockOK' /\ RecordsOK'
      BY <2>1 DEF IInv, vars, osVars, agentVars, stopVars, TypeOK, LockOK, Free, RecordsOK, ModelOf
    <3>2. Listed' = Listed /\ Staying' = Staying /\ Untouched' = Untouched
      BY <2>1 DEF vars, osVars, agentVars, stopVars, Listed, Staying, Untouched
    <3>3. RegistryOK' /\ HandsOK' /\ ServersAreFound'
      BY <2>1, <3>2 DEF IInv, vars, osVars, agentVars, stopVars, RegistryOK, OneEntryEach, HandsOK,
         ServersAreFound, ModelOf
    <3>. QED
      BY <3>1, <3>3 DEF IInv
  <2>2. CASE Next
    <3>1. InReach' /\ Recorded' => ServersAreFound'
      BY DEF InReach, Recorded, ServersAreFound
    <3>. QED
      BY <2>2, <3>1, TypeStep, LockStep, RegistryStep, RecordsStep, HandsStep, ReachStep,
         RecordedStep DEF IInv
  <2>. QED
    BY <2>1, <2>2
<1>. QED
  BY <1>1, <1>2, PTL DEF Spec

(* The registry, the lock, the records and the processes keep their types. *)
THEOREM TypeCorrect == Spec => []TypeOK
<1>1. IInv => TypeOK
  BY DEF IInv
<1>. QED
  BY <1>1, Invariant, PTL

(* The servers that stay are those of the registry and the one its lock's holder waits for. *)
LEMMA OneEach ==
  ASSUME IInv
  PROVE  OneServerEach
<1>1. \A p \in Staying : p \in Listed \/ \E a \in Agents : at[a] = "loading" /\ holds[a] = p
  BY DEF IInv, ServersAreFound
<1>2. \A a, b \in Agents : at[a] = "loading" /\ at[b] = "loading" => a = b
  BY DEF IInv, LockOK, Starting
<1>3. \A a \in Agents : at[a] = "loading" =>
        /\ \A p \in Listed : ModelOf(p) # ModelOf(holds[a])
        /\ Len(resident) < MaxLoaded
  BY DEF IInv, HandsOK, Starting
<1>4. \A p, q \in Staying : ModelOf(p) = ModelOf(q) => p = q
  BY <1>1, <1>2, <1>3 DEF IInv, RegistryOK
<1>5. Len(resident) \in Nat /\ DOMAIN resident = 1..Len(resident) /\ Len(resident) <= MaxLoaded
  BY DEF IInv, TypeOK, RegistryOK
<1>6. IsFiniteSet(Listed) /\ Cardinality(Listed) <= Len(resident) /\ Cardinality(Listed) \in Nat
  <2>1. IsFiniteSet(1..Len(resident)) /\ Cardinality(1..Len(resident)) = Len(resident)
    <3>. DEFINE n == Len(resident)
    <3>1. 1 \in Int /\ n \in Int
      BY <1>5
    <3>. HIDE DEF n
    <3>2. IsFiniteSet(1..n) /\ Cardinality(1..n) = IF 1 > n THEN 0 ELSE n - 1 + 1
      BY <3>1, FS_Interval
    <3>3. n >= 0
      BY <1>5 DEF n
    <3>4. Cardinality(1..n) = n
      BY <3>1, <3>2, <3>3
    <3>. QED
      BY <3>2, <3>4 DEF n
  <2>2. PICK f : f \in [1..Len(resident) -> Listed] /\ \A p \in Listed : \E i \in 1..Len(resident) : f[i] = p
    <3>. DEFINE f == [i \in 1..Len(resident) |-> resident[i]]
    <3>1. f \in [1..Len(resident) -> Listed] /\ \A p \in Listed : \E i \in 1..Len(resident) : f[i] = p
      BY <1>5 DEF Listed
    <3>. QED
      BY <3>1
  <2>3. IsFiniteSet(Listed) /\ Cardinality(Listed) <= Cardinality(1..Len(resident))
    <3>1. f \in Surjection(1..Len(resident), Listed)
      BY <2>2 DEF Surjection
    <3>. QED
      BY <2>1, <3>1, FS_Surjection
  <2>. QED
    BY <2>1, <2>3, FS_CardinalityType
<1>7. Cardinality(Staying) <= MaxLoaded
  <2>1. CASE \A a \in Agents : at[a] # "loading"
    <3>1. Staying \subseteq Listed
      BY <1>1, <2>1
    <3>2. IsFiniteSet(Staying) /\ Cardinality(Staying) <= Cardinality(Listed)
      BY <1>6, <3>1, FS_Subset
    <3>3. Cardinality(Staying) \in Nat
      BY <3>2, FS_CardinalityType
    <3>. QED
      BY <1>5, <1>6, <3>2, <3>3, ServersAssumption
  <2>2. ASSUME NEW a \in Agents, at[a] = "loading" PROVE Cardinality(Staying) <= MaxLoaded
    <3>1. Staying \subseteq Listed \cup {holds[a]}
      BY <1>1, <1>2, <2>2
    <3>2. /\ IsFiniteSet(Listed \cup {holds[a]})
          /\ Cardinality(Listed \cup {holds[a]}) <= Cardinality(Listed) + 1
      <4>. DEFINE T == Listed
                  q == holds[a]
      <4>1. IsFiniteSet(T) /\ Cardinality(T) \in Nat
        BY <1>6
      <4>. HIDE DEF T, q
      <4>2. /\ IsFiniteSet(T \cup {q})
            /\ Cardinality(T \cup {q}) = IF q \in T THEN Cardinality(T) ELSE Cardinality(T) + 1
        BY <4>1, FS_AddElement
      <4>3. Cardinality(T \cup {q}) <= Cardinality(T) + 1
        BY <4>1, <4>2
      <4>. QED
        BY <4>2, <4>3 DEF T, q
    <3>3. IsFiniteSet(Staying) /\ Cardinality(Staying) <= Cardinality(Listed \cup {holds[a]})
      BY <3>1, <3>2, FS_Subset
    <3>4. Cardinality(Staying) \in Nat /\ Cardinality(Listed \cup {holds[a]}) \in Nat
      BY <3>2, <3>3, FS_CardinalityType
    <3>5. Len(resident) < MaxLoaded
      BY <1>3, <2>2
    <3>. QED
      BY <1>5, <1>6, <3>2, <3>3, <3>4, <3>5, ServersAssumption
  <2>. QED
    BY <2>1, <2>2
<1>. QED
  BY <1>4, <1>7 DEF OneServerEach

(* A model is never served twice, nor more models than the setting allows, for any number of    *)
(* agents, starts, stops and crashes.                                                           *)
THEOREM ServedOnce == Spec => []OneServerEach
BY Invariant, OneEach, PTL

(* No server that stays is out of reach of the app that started it. *)
THEOREM NoServerIsLost == Spec => []ServersAreFound
<1>1. IInv => ServersAreFound
  BY DEF IInv
<1>. QED
  BY <1>1, Invariant, PTL

-----------------------------------------------------------------------------
(* What the agent that starts a server may still do before it lets go of the lock: ports to try, *)
(* servers to evict, and a process to wait for.                                                  *)
PortsToTry  == PortAttempts - attempts
ToEvict     == Len(resident)
ToWaitFor(a) == IF at[a] = "placing" THEN 0 ELSE 1

LessToDo(a) ==
  \/ PortsToTry' < PortsToTry
  \/ PortsToTry' = PortsToTry /\ ToEvict' < ToEvict
  \/ PortsToTry' = PortsToTry /\ ToEvict' = ToEvict /\ ToWaitFor(a)' < ToWaitFor(a)

CountedToDo == PortsToTry \in Nat /\ ToEvict \in Nat

LetsGo ==
  \A a \in Agents : lock = a /\ lock' = a =>
    LessToDo(a) \/ UNCHANGED <<at[a], holds[a], attempts, resident>>

(* Every step of the holder leaves less to do or frees the lock; no other step touches it. *)
LEMMA LettingGoStep ==
  ASSUME IInv, Next
  PROVE  LetsGo
<1>. SUFFICES ASSUME NEW b \in Agents, lock = b, lock' = b
              PROVE  LessToDo(b) \/ UNCHANGED <<at[b], holds[b], attempts, resident>>
  BY DEF LetsGo
<1>. DEFINE Goal == LessToDo(b) \/ UNCHANGED <<at[b], holds[b], attempts, resident>>
<1>0. /\ b # Nobody /\ ~Free /\ at[b] \in Starting
      /\ \A a \in Agents : at[a] \in Starting => a = b
      /\ at \in [Agents -> Stages] /\ holds \in [Agents -> DOMAIN servers \cup {0}]
      /\ attempts \in 0..PortAttempts /\ PortAttempts \in Nat /\ MaxLoaded \in Nat \ {0}
      /\ Len(resident) \in Nat
  BY ServersAssumption DEF IInv, TypeOK, LockOK, Free, Nobody
<1>. USE <1>0 DEF Starting
<1>1. ASSUME NEW a \in Agents, Ask(a) \/ Finish(a) \/ Retry(a) PROVE Goal
  BY <1>1 DEF Ask, Finish, Retry, Go, Leave, Hold
<1>2. ASSUME NEW a \in Agents, Reuse(a) \/ TakeNone(a) \/ TakeStale(a) PROVE Goal
  BY <1>2 DEF Reuse, TakeNone, TakeStale
<1>3. ASSUME NEW a \in Agents, Refuse(a) \/ CannotSpawn(a) \/ Loaded(a) PROVE Goal
  BY <1>3 DEF Refuse, CannotSpawn, Loaded, Unlock
<1>4. ASSUME NEW a \in Agents, Evict(a) PROVE Goal
  <2>1. 1 \in DOMAIN resident /\ OneEntryEach /\ resident \in Seq(DOMAIN servers)
    BY <1>4 DEF Evict, IInv, TypeOK, RegistryOK
  <2>2. Len(Removed(1)) = Len(resident) - 1
    BY <2>1, RemovedFacts DEF OneEntryEach
  <2>3. PortsToTry' = PortsToTry /\ ToEvict' < ToEvict
    BY <1>4, <2>2 DEF Evict, PortsToTry, ToEvict
  <2>. QED
    BY <2>3 DEF LessToDo
<1>5. ASSUME NEW a \in Agents, Cleared(a) PROVE Goal
  <2>1. a = b /\ at[a] = "clearing" /\ at'[a] = "placing" /\ UNCHANGED <<attempts, resident>>
    BY <1>5 DEF Cleared, Go
  <2>. QED
    BY <2>1 DEF LessToDo, PortsToTry, ToEvict, ToWaitFor
<1>6. ASSUME NEW a \in Agents, Spawn(a) PROVE Goal
  <2>1. PortsToTry' < PortsToTry
    BY <1>6 DEF Spawn, PortsToTry
  <2>. QED
    BY <2>1 DEF LessToDo
<1>7. ASSUME NEW a \in Agents, NotLoaded(a) PROVE Goal
  <2>1. a = b /\ at[a] = "loading" /\ UNCHANGED resident
    BY <1>7 DEF NotLoaded
  <2>2. UNCHANGED attempts /\ at'[a] = "placing"
    BY <1>7 DEF NotLoaded, Go, Unlock
  <2>. QED
    BY <2>1, <2>2 DEF LessToDo, PortsToTry, ToEvict, ToWaitFor
<1>8. ASSUME NEW a \in Agents, Abandon(a) PROVE Goal
  BY <1>8 DEF Abandon, Unlock, Leave, Go, Hold
<1>9. ASSUME NEW m \in Models, StopOne(m) PROVE Goal
  BY <1>9 DEF StopOne
<1>10. CASE StopAll
  BY <1>10 DEF StopAll
<1>11. ASSUME NEW p \in leaving, StopKills(p) PROVE Goal
  BY <1>11 DEF StopKills, agentVars
<1>12. ASSUME NEW p \in ending, StopEnds(p) PROVE Goal
  BY <1>12 DEF StopEnds, agentVars
<1>13. ASSUME NEW p \in live, Dies(p) PROVE Goal
  BY <1>13 DEF Dies, agentVars
<1>14. CASE Crash
  BY <1>14 DEF Crash, Unlock
<1>. QED
  BY <1>1, <1>2, <1>3, <1>4, <1>5, <1>6, <1>7, <1>8, <1>9, <1>10, <1>11, <1>12, <1>13, <1>14
     DEF Next, AgentStep

(* Nobody holds the registry's lock for ever: what its holder does, evictions and lost ports     *)
(* included (supervisor.rs, ensure_serving), leaves it less to do each time, and nothing that    *)
(* anybody else does meanwhile gives it more.                                                    *)
THEOREM LockIsLetGo == Spec => []CountedToDo /\ [][LetsGo]_vars
<1>1. IInv => CountedToDo
  BY ServersAssumption DEF IInv, TypeOK, CountedToDo, PortsToTry, ToEvict
<1>2. IInv /\ [Next]_vars => [LetsGo]_vars
  BY LettingGoStep
<1>. QED
  BY <1>1, <1>2, Invariant, PTL DEF Spec
=============================================================================
