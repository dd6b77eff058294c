--------------------------- MODULE LivingDocument ---------------------------
(* The session's living document (agent/doc_session.rs, agent/document.rs): a  *)
(* file agents and a person edit, and the harness's memory of it beside the    *)
(* session.  The person edits the file in any editor, or saves it from the app *)
(* over what agents wrote meanwhile; the main agent and the subagents of a     *)
(* spawn_agents call write sections; a handoff copies the memory to the next   *)
(* session; the app may die, also between the write of the file and that of    *)
(* the memory.  The order of sections, their topics and the prose around them  *)
(* are left out; a read and write under DOC_LOCK is one step.                  *)
EXTENDS Integers

CONSTANTS
  Texts,         \* what a section may say
  Empty,         \* the text of a placeholder
  Nothing,       \* no section there
  MaxSections,   \* bound of the model: section numbers
  Topics,        \* sections the document is created with
  MaxSubs,       \* subagents a call spawns, numbered in the order of its specs
  MaxEvents      \* bound of the model: edits of the person and opened editors,
                 \* writes of agents, handoffs and crashes, together

ASSUME DocumentAssumption ==
  /\ Empty \notin Texts /\ Nothing \notin Texts /\ Nothing # Empty
  /\ MaxSections \in Nat /\ MaxSubs \in Nat
  /\ Topics \in 0..MaxSections
  /\ MaxEvents \in Nat

Ids    == 1..MaxSections
Subs   == 1..MaxSubs
Nobody == 0
Main   == MaxSubs + 1
Agents == Subs \cup {Main}
AnyText == Texts \cup {Empty}

VARIABLES
  file,      \* the sections of the file, by id
  typed,     \* the text of a section a person added that has no id yet
  mem,       \* DocState of the active session
  heir,      \* the copy a handoff made for the next session, until that is active
  carried,   \* whether that copy is made and the active session not yet swapped
  running,   \* whether a run of the session works
  writer,    \* the subagents of the call: off, on, ended but not yet joined
  section,   \* the section each of them was given
  base,      \* the document the app's editor loaded, if it is open
  seen,      \* the text of each section an agent last wrote or was shown, and
             \* those it wrote since as the app died
  told,      \* what the model was last told of each section, or wrote in it
  heard,     \* ids the model has been given
  brought,   \* sections a person added with a text or put back, which the memory
             \* takes for new
  events     \* counts them

agents  == <<running, writer, section>>
history == <<seen, told, heard, brought>>
vars == <<file, typed, mem, heir, carried, agents, base, history, events>>

Statuses == {"gone", "todo", "doing", "done", "human"}
Section(text, status, owner) == [text |-> text, status |-> status, owner |-> owner]
Gone == Section(Nothing, "gone", Nobody)
Placeholder(text) == Section(text, "todo", Nobody)

Present(doc) == {s \in Ids : doc[s].status # "gone"}
TextsOf(doc) == [s \in Ids |-> doc[s].text]
Shut == [s \in Ids |-> Gone]
Memory(doc) == [known |-> TextsOf(doc), unread |-> {}, pending |-> {}, next |-> 1, claimed |-> Shut]
Created == [s \in Ids |-> IF s <= Topics THEN Placeholder(Empty) ELSE Gone]

Init ==
  /\ file = Created
  /\ typed = Nothing
  /\ mem = Memory(Created)
  /\ heir = Memory(Shut)
  /\ carried = FALSE
  /\ running = TRUE
  /\ writer = [a \in Subs |-> "off"]
  /\ section = [a \in Subs |-> 0]
  /\ base = Shut
  /\ seen = [s \in Ids |-> {Empty}]
  /\ told = TextsOf(Created)
  /\ heard = Present(Created)
  /\ brought = {}
  /\ events = 0

-----------------------------------------------------------------------------
(* Reading the file against the memory: with_doc and sync. *)

Smallest(S) == CHOOSE n \in S : \A m \in S : n <= m

(* Mutant: a new id continues after the sections that are there. *)
AfterPresent(doc, m) == Smallest({n \in 1..MaxSections + 1 : \A s \in Present(doc) : s < n})

(* next_number over the floor set by reserve_ids_of and reserve_from. *)
NextNumber(doc, m) ==
  Smallest({n \in m.next..MaxSections + 1 :
              /\ \A s \in Present(doc) : s < n
              /\ \A s \in Ids : m.known[s] # Nothing => s < n})

(* assign_ids: the model goes no further than MaxSections. *)
IdsLeft == typed = Nothing \/ NextNumber(file, mem) <= MaxSections

Named(doc, m) ==
  [s \in Ids |-> IF typed # Nothing /\ s = NextNumber(doc, m) THEN Placeholder(typed) ELSE doc[s]]

Changed(doc, m) == {s \in Ids : m.known[s] # doc[s].text}
Edited(doc, m)  == {s \in Changed(doc, m) : m.known[s] # Nothing /\ doc[s].text # Nothing}
Removed(doc, m) == Changed(doc, m) \ Present(doc)

(* Mutant: only a section an agent may still be writing is marked. *)
MarkDoing(doc, m) == m.unread \cup {s \in Edited(doc, m) : doc[s].status = "doing"}

Marked(doc, m) == (m.unread \cup Edited(doc, m)) \ Removed(doc, m)

(* Mutant: what this read found is all there is to tell. *)
PendingNow(doc, m) == Changed(doc, m)

Pending(doc, m) == m.pending \cup Changed(doc, m)

(* Mutant: a section a person edited keeps the agent that wrote it. *)
SyncedToAgent ==
  LET doc == Named(file, mem)
  IN  [doc |-> [s \in Ids |-> IF s \in Edited(doc, mem) THEN [doc[s] EXCEPT !.status = "human"]
                              ELSE doc[s]],
       mem |-> [mem EXCEPT !.unread = Marked(doc, mem), !.pending = Pending(doc, mem)]]

Synced ==
  LET doc == Named(file, mem)
  IN  [doc |-> [s \in Ids |-> IF s \in Edited(doc, mem)
                              THEN Section(doc[s].text, "human", Nobody) ELSE doc[s]],
       mem |-> [mem EXCEPT !.unread = Marked(doc, mem), !.pending = Pending(doc, mem)]]

(* The file is written, then the memory. *)
Commit(w) ==
  /\ file' = w.doc
  /\ typed' = Nothing
  /\ mem' = [w.mem EXCEPT !.known = TextsOf(w.doc), !.next = NextNumber(w.doc, mem)]

-----------------------------------------------------------------------------
(* What agents are shown and told. *)

(* A section the person added with a text, as it gets its id. *)
NamedNow == {s \in Ids : typed \in Texts /\ s = NextNumber(file, mem)}

Show(S, doc) ==
  /\ seen' = [s \in Ids |-> IF s \in S THEN {doc[s].text} ELSE seen[s]]
  /\ brought' = (brought \cup NamedNow) \ S

Tell(S, doc) == told' = [s \in Ids |-> IF s \in S THEN doc[s].text ELSE told[s]]

Hear(doc) == heard' = heard \cup Present(doc)

Event == events < MaxEvents /\ events' = events + 1

(* One call of with_doc made for an agent, showing it the sections of shown *)
(* and telling it of those of tellnow.                                      *)
AgentCall(w, shown, tellnow) ==
  /\ IdsLeft
  /\ Commit(w)
  /\ Show(shown, w.doc)
  /\ Tell(tellnow, w.doc)
  /\ Hear(w.doc)

(* What the session that goes on remembers: after carry_into, the copy. *)
Lasting == IF carried THEN heir ELSE mem

(* The app dies; reopened, the session is the one at the end of its chain. *)
Restart ==
  /\ Event
  /\ running' = FALSE
  /\ writer' = [a \in Subs |-> "off"]
  /\ base' = Shut
  /\ carried' = FALSE
  /\ section' = [a \in Subs |-> 0]
  /\ mem' = Lasting
  /\ heir' = Memory(Shut)

(* It dies after the file was written and before the memory was. *)
Torn(doc) ==
  /\ IdsLeft
  /\ doc # file
  /\ file' = doc
  /\ typed' = Nothing
  /\ Restart
  /\ seen' = [s \in Ids |-> IF doc[s].text # Synced.doc[s].text
                          THEN seen[s] \cup {doc[s].text} ELSE seen[s]]
  /\ brought' = brought \cup NamedNow
  /\ UNCHANGED <<told, heard>>

Crash ==
  /\ UNCHANGED <<file, typed, history>>
  /\ Restart

-----------------------------------------------------------------------------
(* The agents. *)

Quiet == \A a \in Subs : writer[a] = "off"

(* The main agent waits while the subagents of its call work. *)
Acting(who) == running /\ (IF who = Main THEN Quiet ELSE writer[who] = "on")

(* owner_for: a subagent has its section, the session every one. *)
MayWrite(who, s) == who \in Subs => section[who] = s

Held(doc, s, who) == doc[s].status = "doing" /\ doc[s].owner # who

(* apply_write refuses a missing section, one another agent is writing, and *)
(* to call done what says nothing.                                          *)
Refuses(doc, who, s, body, status) ==
  \/ s \notin Present(doc)
  \/ Held(doc, s, who)
  \/ body = Empty /\ status = "done" /\ doc[s].text = Empty

KeepsAuthor(sec, who, status) ==
  who = Main /\ sec.status = "done" /\ status = "done" /\ sec.owner \in Subs

Written(doc, who, s, body, status) ==
  [doc EXCEPT ![s] = Section(IF body = Empty THEN @.text ELSE body, status,
                             IF KeepsAuthor(@, who, status) THEN @.owner ELSE who)]

(* doc_write: a section a person changed is shown, not written. *)
DocWrite(who, s, body, status) ==
  /\ Acting(who)
  /\ MayWrite(who, s)
  /\ LET w == Synced
         new == Written(w.doc, who, s, body, status)
     IN  \/ /\ s \in w.mem.unread
            /\ AgentCall([w EXCEPT !.mem.unread = @ \ {s}], {s}, {})
            /\ UNCHANGED <<heir, carried, agents, base, events>>
         \/ /\ s \notin w.mem.unread
            /\ Refuses(w.doc, who, s, body, status)
            /\ AgentCall(w, {}, {})
            /\ UNCHANGED <<heir, carried, agents, base, events>>
         \/ /\ s \notin w.mem.unread
            /\ ~Refuses(w.doc, who, s, body, status)
            /\ \/ /\ AgentCall([w EXCEPT !.doc = new], IF body = Empty THEN {} ELSE {s},
                               IF body = Empty THEN {} ELSE {s})
                  /\ Event
                  /\ UNCHANGED <<heir, carried, agents, base>>
               \/ Torn(new)

(* doc_read of a section: one who may write it has then seen it. *)
DocRead(who, s) ==
  /\ Acting(who)
  /\ s \in Present(Synced.doc)
  /\ LET w == Synced
     IN  IF MayWrite(who, s)
         THEN AgentCall([w EXCEPT !.mem.unread = @ \ {s}], {s}, {})
         ELSE AgentCall(w, {}, {})
  /\ UNCHANGED <<heir, carried, agents, base, events>>

(* doc_read without an id, and the outline a compaction restates. *)
Outline ==
  /\ Acting(Main)
  /\ AgentCall(Synced, {}, {})
  /\ UNCHANGED <<heir, carried, agents, base, events>>

(* doc_add, the main agent's. *)
DocAdd ==
  /\ Acting(Main)
  /\ LET w == Synced
         id == NextNumber(w.doc, mem)
         new == [w.doc EXCEPT ![id] = Placeholder(Empty)]
     IN  /\ id <= MaxSections
         /\ \/ /\ AgentCall([w EXCEPT !.doc = new], {id}, {id})
               /\ Event
               /\ UNCHANGED <<heir, carried, agents, base>>
            \/ Torn(new)

(* note_round: a change a person made joins the round's results, once. *)
NoteRound ==
  /\ Acting(Main)
  /\ LET w == Synced
     IN  AgentCall([w EXCEPT !.mem.pending = {}], {}, w.mem.pending)
  /\ UNCHANGED <<heir, carried, agents, base, events>>

-----------------------------------------------------------------------------
(* A spawn_agents call that gives sections away. *)

Claimed(doc, a, s) == Written(doc, a, s, Empty, "doing")

(* claim, before the subagent starts; one that is refused does not start. *)
Claim(a, s) ==
  /\ running
  /\ \A b \in Subs : b >= a => writer[b] = "off"
  /\ a = 1 \/ (a - 1 \in Subs /\ writer[a - 1] # "off")
  /\ \A b \in Subs : writer[b] # "off" => section[b] # s
  /\ LET w == Synced
         new == Claimed(w.doc, a, s)
     IN  IF Refuses(w.doc, a, s, Empty, "doing")
         THEN /\ AgentCall(w, {}, {})
              /\ UNCHANGED <<heir, carried, agents, base, events>>
         ELSE \/ /\ AgentCall([doc |-> new,
                               mem |-> [w.mem EXCEPT !.claimed[s] = w.doc[s]]], {}, {})
                 /\ writer' = [writer EXCEPT ![a] = "on"]
                 /\ section' = [section EXCEPT ![a] = s]
                 /\ UNCHANGED <<heir, carried, running, base, events>>
              \/ Torn(new)

(* It reports, fails or panics. *)
SubEnds(a) ==
  /\ writer[a] = "on"
  /\ writer' = [writer EXCEPT ![a] = "ended"]
  /\ UNCHANGED <<file, typed, mem, heir, carried, running, section, base, history, events>>

GiveBack(sec, before) ==
  IF before.text = sec.text
  THEN Section(sec.text, before.status, before.owner)
  ELSE Section(sec.text, "todo", IF sec.text = Empty THEN Nobody ELSE sec.owner)

(* Mutant: the end of a subagent leaves its section as it is. *)
KeepsIt(doc, a, s) == FALSE

StillHolds(doc, a, s) == doc[s].status = "doing" /\ doc[s].owner = a

(* Joined, in the order of the specs: release. *)
Join(a) ==
  /\ writer[a] = "ended"
  /\ \A b \in Subs : b < a => writer[b] = "off"
  /\ LET w == Synced
         s == section[a]
         new == IF StillHolds(w.doc, a, s)
                THEN [w.doc EXCEPT ![s] = GiveBack(@, w.mem.claimed[s])] ELSE w.doc
     IN  \/ /\ AgentCall([doc |-> new, mem |-> [w.mem EXCEPT !.claimed[s] = Gone]], {}, {})
            /\ writer' = [writer EXCEPT ![a] = "off"]
            /\ section' = [section EXCEPT ![a] = 0]
            /\ UNCHANGED <<heir, carried, running, base, events>>
         \/ Torn(new)

-----------------------------------------------------------------------------
(* Runs. *)

Orphan(doc, s) == doc[s].status = "doing" /\ doc[s].owner \in Subs

(* run_start_blocks: leftover claims are freed, and the note is told. *)
RunStarts ==
  /\ ~running /\ ~carried
  /\ LET w == Synced
         new == [s \in Ids |-> IF Orphan(w.doc, s)
                               THEN GiveBack(w.doc[s], w.mem.claimed[s]) ELSE w.doc[s]]
     IN  \/ /\ AgentCall([doc |-> new,
                          mem |-> [w.mem EXCEPT !.pending = {},
                                                !.claimed = Shut]],
                         {}, w.mem.pending)
            /\ running' = TRUE
            /\ UNCHANGED <<heir, carried, writer, section, base, events>>
         \/ Torn(new)

RunEnds ==
  /\ running /\ Quiet
  /\ running' = FALSE
  /\ UNCHANGED <<file, typed, mem, heir, carried, writer, section, base, history, events>>

(* carry_into: the memory is copied for the successor, ... *)
Carry ==
  /\ running /\ Quiet
  /\ Event
  /\ heir' = mem
  /\ carried' = TRUE
  /\ running' = FALSE
  /\ UNCHANGED <<file, typed, mem, writer, section, base, history>>

(* ... which is the active session some steps later, with that copy. *)
Swap ==
  /\ carried
  /\ carried' = FALSE
  /\ mem' = heir
  /\ heir' = Memory(Shut)
  /\ UNCHANGED <<file, typed, agents, base, history, events>>

-----------------------------------------------------------------------------
(* The person. *)

PersonKeeps == UNCHANGED <<mem, heir, carried, agents, base>>

(* In an editor of their own: another text, a section cut, or put back as they *)
(* had it before, or added.                                                    *)
PersonWrites(s, t) ==
  /\ Event /\ PersonKeeps
  /\ s \in Present(file) /\ t # file[s].text
  /\ file' = [file EXCEPT ![s].text = t]
  /\ brought' = IF Lasting.known[s] = Nothing THEN brought \cup {s} ELSE brought
  /\ UNCHANGED <<typed, seen, told, heard>>

PersonCuts(s) ==
  /\ Event /\ PersonKeeps
  /\ s \in Present(file)
  /\ file' = [file EXCEPT ![s] = Gone]
  /\ UNCHANGED <<typed, history>>

PersonPutsBack(s) ==
  /\ Event /\ PersonKeeps
  /\ s \in Present(base) \ Present(file)
  /\ file' = [file EXCEPT ![s] = base[s]]
  /\ brought' = brought \cup {s}
  /\ UNCHANGED <<typed, seen, told, heard>>

PersonAdds(t) ==
  /\ Event /\ PersonKeeps
  /\ typed = Nothing
  /\ typed' = t
  /\ UNCHANGED <<file, history>>

(* The app's editor loads the file; after a save it loads what it saved. *)
OpenInApp ==
  /\ Event
  /\ base' = file
  /\ UNCHANGED <<file, typed, mem, heir, carried, agents, history>>

(* merge_human_save: base is what was loaded, mine what is saved and theirs  *)
(* the file.  What the person did not touch is theirs; a section not in the  *)
(* file any more stays as it was loaded; one not loaded was added meanwhile. *)
Touched(mine, s) == base[s].text # mine[s].text

(* Mutant: what the person did not touch is what the editor had loaded. *)
MergedFromMine(mine, theirs) ==
  [s \in Ids |-> IF Touched(mine, s) /\ mine[s].status # "gone" /\ theirs[s].status # "gone"
                 THEN Section(mine[s].text, "human", Nobody)
                 ELSE IF base[s].status = "gone" THEN theirs[s] ELSE mine[s]]

Merged(mine, theirs) ==
  [s \in Ids |-> IF base[s].status = "gone" THEN theirs[s]
                 ELSE IF theirs[s].status = "gone" \/ mine[s].status = "gone" THEN mine[s]
                 ELSE IF Touched(mine, s) THEN Section(mine[s].text, "human", Nobody)
                 ELSE theirs[s]]

SavedEdits(doc, new) ==
  {s \in Present(doc) \cap Present(new) :
     doc[s].text # new[s].text /\ new[s].status = "human"}

(* Sections the memory that goes on knows nothing of, or that were gone. *)
Strangers(new, doc) ==
  {s \in Present(new) : \/ s \notin Present(doc)
                        \/ Lasting.known[s] = Nothing /\ new[s].text # doc[s].text}

SaveFromApp(mine) ==
  /\ Event
  /\ base # Shut
  /\ IdsLeft
  /\ LET w == Synced
         new == Merged(mine, w.doc)
         changed == {s \in Ids : w.doc[s].text # new[s].text}
     IN  /\ Commit([doc |-> new,
                    mem |-> [w.mem EXCEPT
                               !.unread = (@ \cup SavedEdits(w.doc, new))
                                          \ (Present(w.doc) \ Present(new)),
                               !.pending = @ \cup changed]])
         /\ base' = Shut
         /\ brought' = brought \cup Strangers(new, w.doc) \cup NamedNow
  /\ UNCHANGED <<heir, carried, agents, seen, told, heard>>

(* What the person may make of what the editor loaded. *)
Drafts == {base} \cup {[base EXCEPT ![s].text = t] : s \in Present(base), t \in AnyText}
                 \cup {[base EXCEPT ![s] = Gone] : s \in Present(base)}

-----------------------------------------------------------------------------
AgentWrites == \E who \in Agents, s \in Ids, body \in AnyText, status \in {"doing", "done"} :
                 DocWrite(who, s, body, status)

AgentStep == \/ AgentWrites
             \/ \E who \in Agents, s \in Ids : DocRead(who, s)
             \/ Outline \/ DocAdd \/ NoteRound

CallStep == \/ \E a \in Subs, s \in Ids : Claim(a, s)
            \/ \E a \in Subs : SubEnds(a) \/ Join(a)

RunStep == RunStarts \/ RunEnds \/ Carry \/ Swap

PersonStep == \/ \E s \in Ids, t \in AnyText : PersonWrites(s, t)
              \/ \E s \in Ids : PersonCuts(s) \/ PersonPutsBack(s)
              \/ \E t \in AnyText : PersonAdds(t)
              \/ OpenInApp
              \/ \E mine \in Drafts : SaveFromApp(mine)

Next == AgentStep \/ CallStep \/ RunStep \/ PersonStep \/ Crash

Spec == Init /\ [][Next]_vars
-----------------------------------------------------------------------------
SectionType == [text : AnyText \cup {Nothing}, status : Statuses, owner : {Nobody} \cup Agents]

(* One being written or done has an agent, one a person changed has none. *)
WellKept(sec) ==
  /\ sec.status = "gone" <=> sec.text = Nothing
  /\ sec.status \in {"doing", "done"} => sec.owner # Nobody
  /\ sec.status \in {"gone", "human"} => sec.owner = Nobody

DocumentType == {doc \in [Ids -> SectionType] : \A s \in Ids : WellKept(doc[s])}

MemoryType ==
  [known : [Ids -> AnyText \cup {Nothing}], unread : SUBSET Ids, pending : SUBSET Ids,
   next : 1..MaxSections + 1, claimed : DocumentType]

TypeOK ==
  /\ file \in DocumentType
  /\ typed \in AnyText \cup {Nothing}
  /\ mem \in MemoryType
  /\ heir \in MemoryType
  /\ carried \in BOOLEAN
  /\ running \in BOOLEAN
  /\ writer \in [Subs -> {"off", "on", "ended"}]
  /\ section \in [Subs -> Ids \cup {0}]
  /\ base \in DocumentType
  /\ seen \in [Ids -> SUBSET (AnyText \cup {Nothing})]
  /\ told \in [Ids -> AnyText \cup {Nothing}]
  /\ heard \subseteq Ids
  /\ brought \subseteq Ids
  /\ events \in 0..MaxEvents

(* "The human wins": no agent's write replaces a text that neither an agent   *)
(* wrote nor was shown, whatever was edited, merged, handed off or lost in a  *)
(* crash since.  A section the person brought in whole, one put back after a  *)
(* cut included, has no such mark (see the README).                           *)
HumanWins ==
  [][\A s \in Present(file) : file'[s].text # file[s].text =>
       file[s].text \in seen[s] \/ s \in brought \/ ~AgentWrites]_vars

(* No change a person made is lost to the model: what it was last told of a   *)
(* section is what is there, or the memory has it to tell, or the next read   *)
(* will find it.                                                              *)
NoChangeUntold ==
  \A s \in Ids : told[s] # file[s].text =>
    s \in Lasting.pending \/ Lasting.known[s] # file[s].text

(* "the model may still know s3 as the topic it was": the next id given out   *)
(* is none the model has heard of, whichever memory it comes from.            *)
NumbersMeanOneTopic == \A s \in heard : s < NextNumber(file, Lasting)

Stranded(s) ==
  /\ running
  /\ Orphan(file, s)
  /\ LET a == file[s].owner IN writer[a] = "off" \/ section[a] # s

(* While a run works no section comes to wait on a subagent that is gone: a    *)
(* claim is freed as its holder ends, or by the next run if the app died       *)
(* meanwhile.  Only the person may bring an old claim back with its section,   *)
(* and one who claims it then gives it back as it was.                         *)
ClaimsHaveWriters ==
  [][\A s \in Ids : Stranded(s)' =>
       Stranded(s) \/ PersonStep \/ mem.claimed[s].status = "doing"]_vars

(* A save from the app changes no text the person did not touch: work agents  *)
(* did while the editor was open is neither rolled back nor dropped.          *)
SaveKeepsTheRest ==
  [][\A s \in Present(file) : file'[s].text # file[s].text =>
       \A mine \in Drafts : SaveFromApp(mine) => Touched(mine, s)]_vars
=============================================================================
