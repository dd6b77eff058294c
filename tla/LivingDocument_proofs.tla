----------------------- MODULE LivingDocument_proofs -----------------------
(* Theorems about LivingDocument and their proofs. *)
EXTENDS LivingDocument, TLAPS, WellFoundedInduction

-----------------------------------------------------------------------------
(* Numbers of sections. *)

Less == {ss \in Nat \X Nat : ss[1] < ss[2]}

(* The order on numbers that Smallest rests on. *)
LEMMA LessIsWellFounded ==
  IsWellFoundedOn(Less, Nat)
BY NatLessThanWellFounded DEF OpToRel, Less

(* A set of numbers has a smallest one. *)
LEMMA SmallestIsThere ==
  ASSUME NEW S, S \subseteq Nat, S # {}
  PROVE  Smallest(S) \in S /\ \A m \in S : Smallest(S) <= m
<1>1. PICK x \in S : \A y \in S : ~ (<<y, x>> \in Less)
  BY LessIsWellFounded, WFMin
<1>2. \A y \in S : x <= y
  <2> SUFFICES ASSUME NEW y \in S PROVE x <= y
    OBVIOUS
  <2>1. <<y, x>> \in Nat \X Nat
    OBVIOUS
  <2>2. ~ (y < x)
    BY <1>1, <2>1 DEF Less
  <2> QED
    BY <2>2
<1> QED
  BY <1>2 DEF Smallest

(* The next id is above every id of the file and of the memory. *)
LEMMA NextIsFree ==
  ASSUME NEW doc \in DocumentType, NEW m \in MemoryType
  PROVE  /\ NextNumber(doc, m) \in m.next..MaxSections + 1
         /\ \A s \in Present(doc) : s < NextNumber(doc, m)
         /\ \A s \in Ids : m.known[s] # Nothing => s < NextNumber(doc, m)
<1> DEFINE S == {n \in m.next..MaxSections + 1 :
                   /\ \A s \in Present(doc) : s < n
                   /\ \A s \in Ids : m.known[s] # Nothing => s < n}
<1>1. m.next \in 1..MaxSections + 1 /\ MaxSections \in Nat
  BY DocumentAssumption DEF MemoryType
<1>2. MaxSections + 1 \in S
  BY <1>1 DEF Present, Ids
<1>3. S \subseteq Nat
  BY <1>1
<1> HIDE DEF S
<1>4. Smallest(S) \in S
  BY <1>2, <1>3, SmallestIsThere
<1> QED
  BY <1>4 DEF NextNumber, S
-----------------------------------------------------------------------------
(* What reading the file against the memory leaves. *)

Texty == AnyText \cup {Nothing}

(* What the types say of a section of a document. *)
LEMMA DocumentFacts ==
  ASSUME NEW doc \in DocumentType, NEW s \in Ids
  PROVE  /\ doc[s] \in SectionType
         /\ doc[s].text \in Texty /\ doc[s].status \in Statuses
         /\ doc[s].owner \in {Nobody} \cup Agents
         /\ WellKept(doc[s])
         /\ s \in Present(doc) <=> doc[s].text # Nothing
BY DEF DocumentType, SectionType, Present, WellKept, Texty

(* A section is made of a text, a status and an owner. *)
LEMMA SectionIsTyped ==
  ASSUME NEW t \in Texty, NEW st \in Statuses, NEW o \in {Nobody} \cup Agents
  PROVE  /\ Section(t, st, o) \in SectionType
         /\ Section(t, st, o).text = t
         /\ Section(t, st, o).status = st
         /\ Section(t, st, o).owner = o
BY DEF Section, SectionType, Texty

(* The section made for a text the person typed is a section to do. *)
LEMMA PlaceholderIsKept ==
  ASSUME NEW t \in AnyText
  PROVE  /\ Placeholder(t) \in SectionType
         /\ WellKept(Placeholder(t))
         /\ Placeholder(t).text = t
         /\ Placeholder(t).status = "todo"
  <1>1. t \in Texty /\ t # Nothing /\ "todo" \in Statuses
    BY DocumentAssumption DEF Texty, AnyText, Statuses
  <1> QED
    BY <1>1, SectionIsTyped DEF Placeholder, WellKept

Synchronised ==
  /\ Synced.doc \in DocumentType
  /\ Synced.mem \in MemoryType
  /\ Synced.mem.known = mem.known
  /\ Synced.mem.next = mem.next
  /\ Synced.mem.claimed = mem.claimed
  /\ mem.pending \subseteq Synced.mem.pending
  /\ mem.unread \cap Present(file) \subseteq Synced.mem.unread
  /\ Synced.mem.unread = Marked(Named(file, mem), mem)
  /\ Synced.mem.unread \subseteq Present(Synced.doc) \cup mem.unread

(* What sync leaves of a section: its text is that of the file, and the        *)
(* memory's difference with it is marked and to be told.                       *)
FollowsFile(s) ==
  /\ s \in Present(file) => /\ Synced.doc[s].text = file[s].text
                            /\ Synced.doc[s] = file[s] \/ Synced.doc[s].status = "human"
  /\ s \notin Present(file) =>
       \/ Synced.doc[s].text = Nothing
       \/ /\ typed # Nothing /\ s = NextNumber(file, mem)
          /\ Synced.doc[s].text = typed /\ Synced.doc[s].status = "todo"
          /\ mem.known[s] = Nothing
  /\ Synced.doc[s].text # mem.known[s] => s \in Synced.mem.pending
  /\ (Synced.doc[s].text # mem.known[s] /\ mem.known[s] # Nothing /\ s \in Present(file))
       => s \in Synced.mem.unread

(* What sync leaves has its types, follows the file and marks every difference. *)
LEMMA SyncFollows ==
  ASSUME TypeOK, IdsLeft
  PROVE  Synchronised /\ \A s \in Ids : FollowsFile(s)
<1> DEFINE n == NextNumber(file, mem)
           named == Named(file, mem)
           doc == [s \in Ids |-> IF s \in Edited(named, mem)
                                 THEN Section(named[s].text, "human", Nobody) ELSE named[s]]
<1>1. /\ file \in DocumentType /\ mem \in MemoryType /\ typed \in Texty
  BY DEF TypeOK, Texty
<1>2. /\ n \in Nat /\ \A s \in Present(file) : s < n
      /\ \A s \in Ids : mem.known[s] # Nothing => s < n
  <2>1. mem.next \in Nat /\ MaxSections \in Nat
    BY <1>1, DocumentAssumption DEF MemoryType
  <2> QED
    BY <1>1, <2>1, NextIsFree
<1> HIDE DEF n
<1>3. Synced.doc = doc
      /\ Synced.mem = [mem EXCEPT !.unread = Marked(named, mem), !.pending = Pending(named, mem)]
  BY DEF Synced
<1>4. named = [s \in Ids |-> IF typed # Nothing /\ s = n THEN Placeholder(typed) ELSE file[s]]
  BY DEF Named, n
<1> HIDE DEF named
<1>5. ASSUME NEW s \in Ids
      PROVE  /\ named[s] \in SectionType /\ WellKept(named[s])
             /\ s \in Present(file) => named[s] = file[s]
             /\ s \notin Present(file) =>
                  \/ named[s] = file[s] /\ file[s].text = Nothing
                  \/ /\ typed # Nothing /\ s = n /\ named[s] = Placeholder(typed)
                     /\ named[s].text = typed /\ named[s].status = "todo"
                     /\ mem.known[s] = Nothing
  <2>1. CASE typed # Nothing /\ s = n
    <3>1. typed \in AnyText
      BY <1>1, <2>1 DEF Texty
    <3>2. s \notin Present(file) /\ mem.known[s] = Nothing
      BY <1>2, <2>1
    <3>3. named[s] = Placeholder(typed)
      BY <1>4, <2>1
    <3> QED
      BY <2>1, <3>1, <3>2, <3>3, PlaceholderIsKept
  <2>2. CASE ~(typed # Nothing /\ s = n)
    <3>1. named[s] = file[s]
      BY <1>4, <2>2
    <3> QED
      BY <1>1, <3>1, DocumentFacts
  <2> QED
    BY <2>1, <2>2
<1>6. ASSUME NEW s \in Ids
      PROVE  /\ doc[s] \in SectionType /\ WellKept(doc[s])
             /\ doc[s].text = named[s].text
             /\ s \in Edited(named, mem) => doc[s].status = "human" /\ doc[s].text # Nothing
             /\ s \notin Edited(named, mem) => doc[s] = named[s]
  <2>1. named[s].text \in Texty /\ WellKept(named[s]) /\ named[s] \in SectionType
    BY <1>5 DEF SectionType, Texty
  <2>2. CASE s \in Edited(named, mem)
    <3>1. doc[s] = Section(named[s].text, "human", Nobody)
      BY <2>2
    <3>2. named[s].text # Nothing
      BY <2>2 DEF Edited
    <3>3. "human" \in Statuses /\ Nobody \in {Nobody} \cup Agents
      BY DEF Statuses
    <3>4. doc[s] \in SectionType /\ doc[s].text = named[s].text /\ doc[s].status = "human"
          /\ doc[s].owner = Nobody
      BY <2>1, <3>1, <3>3, SectionIsTyped
    <3>5. WellKept(doc[s])
      BY <3>2, <3>4 DEF WellKept
    <3> QED
      BY <2>2, <3>2, <3>4, <3>5
  <2>3. CASE s \notin Edited(named, mem)
    BY <2>1, <2>3
  <2> QED
    BY <2>2, <2>3
<1>7. doc \in DocumentType
  BY <1>6 DEF DocumentType
<1>8. Present(doc) = {s \in Ids : named[s].text # Nothing} /\ Present(named) = Present(doc)
  BY <1>5, <1>6, <1>7 DEF Present, WellKept
<1> HIDE DEF doc
<1>9. Marked(named, mem) \subseteq Ids /\ Pending(named, mem) \subseteq Ids
      /\ mem.unread \subseteq Ids /\ mem.pending \subseteq Ids
  BY <1>1 DEF Marked, Pending, Edited, Changed, MemoryType
<1>10. Synced.mem \in MemoryType /\ Synced.mem.known = mem.known /\ Synced.mem.next = mem.next
       /\ Synced.mem.claimed = mem.claimed
       /\ Synced.mem.unread = Marked(named, mem) /\ Synced.mem.pending = Pending(named, mem)
  BY <1>1, <1>3, <1>9 DEF MemoryType
<1>11. Synchronised
  <2>1. mem.unread \cap Present(file) \subseteq Marked(named, mem)
    BY <1>5, <1>8, <1>9 DEF Marked, Removed, Present, WellKept
  <2>2. Marked(named, mem) \subseteq Present(doc) \cup mem.unread
    BY <1>8 DEF Marked, Edited, Changed
  <2>3. mem.pending \subseteq Pending(named, mem)
    BY DEF Pending
  <2> QED
    BY <1>3, <1>7, <1>10, <2>1, <2>2, <2>3 DEF Synchronised, named
<1>12. ASSUME NEW s \in Ids
       PROVE  FollowsFile(s)
  <2>1. doc[s].text # mem.known[s] => s \in Pending(named, mem)
    BY <1>6 DEF Pending, Changed
  <2>2. (doc[s].text # mem.known[s] /\ mem.known[s] # Nothing /\ s \in Present(file))
          => s \in Marked(named, mem)
    <3> SUFFICES ASSUME doc[s].text # mem.known[s], mem.known[s] # Nothing, s \in Present(file)
                 PROVE  s \in Marked(named, mem)
      OBVIOUS
    <3>1. named[s] = file[s] /\ file[s].text # Nothing
      BY <1>1, <1>5, DocumentFacts
    <3>2. s \in Edited(named, mem) /\ s \in Present(named)
      BY <1>6, <1>8, <3>1 DEF Edited, Changed
    <3> QED
      BY <3>2 DEF Marked, Removed
  <2>3. s \in Present(file) => doc[s].text = file[s].text /\ (doc[s] = file[s] \/ doc[s].status = "human")
    BY <1>5, <1>6
  <2>4. s \notin Present(file) =>
           \/ doc[s].text = Nothing
           \/ /\ typed # Nothing /\ s = n
              /\ doc[s].text = typed /\ doc[s].status = "todo"
              /\ mem.known[s] = Nothing
    <3> SUFFICES ASSUME s \notin Present(file), named[s].text # Nothing
                 PROVE  /\ typed # Nothing /\ s = n
                        /\ doc[s].text = typed /\ doc[s].status = "todo"
                        /\ mem.known[s] = Nothing
      BY <1>6
    <3>1. /\ typed # Nothing /\ s = n /\ named[s].text = typed /\ named[s].status = "todo"
          /\ mem.known[s] = Nothing
      BY <1>5
    <3>2. s \notin Edited(named, mem)
      BY <3>1 DEF Edited
    <3> QED
      BY <1>6, <3>1, <3>2
  <2> QED
    BY <1>3, <1>10, <2>1, <2>2, <2>3, <2>4 DEF FollowsFile, n
<1> QED
  BY <1>11, <1>12
-----------------------------------------------------------------------------
(* The inductive invariant.  A text the memory knows was seen, or is marked    *)
(* unread; one it takes for new was seen or the person brought it; and an id   *)
(* whose first, empty text was overwritten is never free again.                *)

Reserved(m, s) == s < m.next \/ m.known[s] # Nothing

Remembers(m) == \A s \in Ids :
  /\ m.known[s] # Nothing => m.known[s] \in seen[s] \/ s \in m.unread \/ s \in brought
  /\ (m.known[s] = Nothing /\ s \in Present(file)) => file[s].text \in seen[s] \/ s \in brought
  /\ s \in m.unread => m.known[s] # Nothing

FirstTextKept(m) == \A s \in Ids : Empty \notin seen[s] => Reserved(m, s)

Tells(m) == \A s \in Ids : m.known[s] # told[s] => s \in m.pending

Reserves(m) == \A s \in heard : Reserved(m, s)

Remembering(m) == Remembers(m) /\ FirstTextKept(m) /\ Tells(m) /\ Reserves(m)

Alone ==
  /\ running => ~carried
  /\ \A a \in Subs : writer[a] # "off" => running

IInv ==
  /\ TypeOK
  /\ Alone
  /\ Remembering(Lasting)
  /\ FirstTextKept(mem)

HistoryOK ==
  /\ seen \in [Ids -> SUBSET (AnyText \cup {Nothing})]
  /\ told \in [Ids -> AnyText \cup {Nothing}]
  /\ heard \subseteq Ids
  /\ brought \subseteq Ids

(* The memory that goes on is a memory. *)
LEMMA LastingIsTyped ==
  ASSUME TypeOK
  PROVE  Lasting \in MemoryType
BY DEF TypeOK, Lasting

(* What the types say of a memory. *)
LEMMA MemoryFacts ==
  ASSUME NEW m \in MemoryType
  PROVE  /\ m.known \in [Ids -> Texty] /\ m.unread \subseteq Ids /\ m.pending \subseteq Ids
         /\ m.next \in 1..MaxSections + 1 /\ m.next \in Nat /\ m.claimed \in DocumentType
<1>1. MaxSections \in Nat
  BY DocumentAssumption
<1> QED
  BY <1>1 DEF MemoryType, Texty

(* What a section is read as, when it has a text. *)
LEMMA SyncShows ==
  ASSUME TypeOK, IdsLeft, ~carried, Remembering(mem),
         NEW s \in Ids, Synced.doc[s].text # Nothing
  PROVE  \/ Synced.doc[s].text \in seen[s]
         \/ s \in Synced.mem.unread
         \/ s \in brought \cup NamedNow
<1>1. FollowsFile(s) /\ Synchronised
  BY SyncFollows
<1>2. mem \in MemoryType /\ file \in DocumentType /\ typed \in Texty
  BY DEF TypeOK, Texty
<1>3. CASE s \in Present(file)
  <2>1. Synced.doc[s].text = file[s].text
    BY <1>1, <1>3 DEF FollowsFile
  <2>2. CASE mem.known[s] = Nothing
    BY <1>3, <2>1, <2>2 DEF Remembering, Remembers
  <2>3. CASE mem.known[s] # Nothing /\ mem.known[s] # file[s].text
    BY <1>1, <1>3, <2>1, <2>3 DEF FollowsFile
  <2>4. CASE mem.known[s] # Nothing /\ mem.known[s] = file[s].text
    <3>1. mem.known[s] \in seen[s] \/ s \in mem.unread \/ s \in brought
      BY <2>4 DEF Remembering, Remembers
    <3>2. s \in mem.unread => s \in Synced.mem.unread
      BY <1>1, <1>3 DEF Synchronised
    <3> QED
      BY <2>1, <2>4, <3>1, <3>2
  <2> QED
    BY <2>2, <2>3, <2>4
<1>4. CASE s \notin Present(file)
  <2>1. /\ typed # Nothing /\ s = NextNumber(file, mem)
        /\ Synced.doc[s].text = typed /\ mem.known[s] = Nothing
    BY <1>1, <1>4 DEF FollowsFile
  <2>2. CASE typed \in Texts
    BY <2>1, <2>2 DEF NamedNow
  <2>3. CASE typed = Empty
    <3>1. NextNumber(file, mem) >= mem.next /\ mem.next \in Nat /\ NextNumber(file, mem) \in Nat
      BY <1>2, NextIsFree, MemoryFacts
    <3>2. ~Reserved(mem, s)
      BY <2>1, <3>1 DEF Reserved
    <3> QED
      BY <2>1, <2>3, <3>2 DEF Remembering, FirstTextKept
  <2> QED
    BY <1>2, <2>1, <2>2, <2>3 DEF Texty, AnyText
<1> QED
  BY <1>3, <1>4

(* An unread section is there once the file is read. *)
LEMMA UnreadIsThere ==
  ASSUME TypeOK, IdsLeft, \A s \in Ids : s \in mem.unread => mem.known[s] # Nothing
  PROVE  Synced.mem.unread \subseteq Present(Synced.doc)
<1>1. Synchronised
  BY SyncFollows
<1>2. Synced.mem.unread \subseteq Ids /\ mem \in MemoryType
  BY <1>1, MemoryFacts DEF Synchronised, TypeOK
<1> SUFFICES ASSUME NEW s \in Ids, s \in Synced.mem.unread, s \notin Present(Synced.doc)
             PROVE  FALSE
  BY <1>2
<1>3. s \in mem.unread /\ mem.known[s] # Nothing
  BY <1>1 DEF Synchronised
<1>4. Synced.doc[s].text = Nothing
  BY <1>1, DocumentFacts DEF Synchronised
<1>5. FollowsFile(s) /\ s \notin Present(file)
  <2>1. FollowsFile(s)
    BY SyncFollows
  <2>2. file \in DocumentType
    BY DEF TypeOK
  <2> QED
    BY <1>4, <2>1, <2>2, DocumentFacts DEF FollowsFile
<1>6. s \notin Marked(Named(file, mem), mem)
  <2>1. Named(file, mem)[s].text = Nothing
    <3>1. Synced.doc[s] = Named(file, mem)[s]
          \/ Synced.doc[s] = Section(Named(file, mem)[s].text, "human", Nobody)
      BY DEF Synced
    <3> QED
      BY <1>4, <3>1 DEF Section
  <2>2. Named(file, mem)[s].status = "gone"
    <3>1. Synced.doc[s].status = "gone"
      BY <1>1, <1>4, DocumentFacts DEF Synchronised, WellKept
    <3>2. s \notin Edited(Named(file, mem), mem)
      BY <2>1 DEF Edited
    <3> QED
      BY <3>1, <3>2 DEF Synced
  <2>3. s \in Removed(Named(file, mem), mem)
    BY <1>3, <2>1, <2>2 DEF Removed, Changed, Present
  <2> QED
    BY <2>3 DEF Marked
<1> QED
  BY <1>1, <1>6 DEF Synchronised
-----------------------------------------------------------------------------
(* A call made for an agent. *)

(* What a tool may leave in the document and the memory: a text it changes, a  *)
(* mark it takes and a note it tells belong to what it shows and tells.        *)
AgentWork(w, shown, tellnow) ==
  /\ w.doc \in DocumentType
  /\ w.mem \in MemoryType
  /\ shown \subseteq Present(w.doc)
  /\ tellnow \subseteq Ids
  /\ w.mem.unread \subseteq Present(w.doc)
  /\ \A s \in Ids \ shown :
       /\ w.doc[s].text = Synced.doc[s].text
       /\ s \in Synced.mem.unread => s \in w.mem.unread
  /\ \A s \in Ids \ tellnow :
       /\ w.doc[s].text = Synced.doc[s].text
       /\ s \in Synced.mem.pending => s \in w.mem.pending

(* A document that is written leaves a memory that knows its texts and ids. *)
LEMMA CommitTypes ==
  ASSUME TypeOK, NEW w, w.doc \in DocumentType, w.mem \in MemoryType, Commit(w)
  PROVE  /\ file' \in DocumentType /\ typed' \in Texty /\ mem' \in MemoryType
         /\ mem'.known = TextsOf(w.doc)
         /\ mem'.next = NextNumber(w.doc, mem)
         /\ mem'.unread = w.mem.unread
         /\ mem'.pending = w.mem.pending
         /\ mem'.claimed = w.mem.claimed
         /\ \A s \in Ids : mem'.known[s] = w.doc[s].text
         /\ \A s \in Present(w.doc) : s < mem'.next
         /\ \A s \in Ids : Reserved(mem, s) => s < mem'.next
<1> DEFINE n == NextNumber(w.doc, mem)
           k == TextsOf(w.doc)
<1>1. mem \in MemoryType
  BY DEF TypeOK
<1>2. MaxSections \in Nat
  BY DocumentAssumption
<1>3. n \in 1..MaxSections + 1 /\ mem.next \in Nat /\ n >= mem.next
      /\ (\A s \in Present(w.doc) : s < n)
      /\ (\A s \in Ids : mem.known[s] # Nothing => s < n)
  BY <1>1, <1>2, NextIsFree, MemoryFacts
<1>4. k \in [Ids -> AnyText \cup {Nothing}] /\ \A s \in Ids : k[s] = w.doc[s].text
  BY DocumentFacts DEF TextsOf, Texty
<1> HIDE DEF n, k
<1>5. mem' = [w.mem EXCEPT !.known = k, !.next = n]
  BY DEF Commit, n, k
<1>6. mem' = [known |-> k, unread |-> w.mem.unread, pending |-> w.mem.pending, next |-> n,
              claimed |-> w.mem.claimed]
  BY <1>5 DEF MemoryType
<1>7. /\ mem'.known = k /\ mem'.next = n /\ mem'.unread = w.mem.unread
      /\ mem'.pending = w.mem.pending /\ mem'.claimed = w.mem.claimed
  BY <1>6
<1>8. mem' \in MemoryType
  BY <1>3, <1>4, <1>6 DEF MemoryType
<1>9. \A s \in Ids : Reserved(mem, s) => s < n
  BY <1>3 DEF Reserved, Ids
<1>10. file' \in DocumentType /\ typed' \in Texty
  BY DEF Commit, Texty
<1> QED
  BY <1>3, <1>4, <1>7, <1>8, <1>9, <1>10 DEF n, k

(* A call of an agent that does its work and no more keeps what is remembered. *)
LEMMA AgentCallKeeps ==
  ASSUME IInv, ~carried, carried' = carried,
         NEW w, NEW shown, NEW tellnow, AgentWork(w, shown, tellnow),
         AgentCall(w, shown, tellnow)
  PROVE  /\ file' \in DocumentType /\ typed' \in Texty /\ mem' \in MemoryType
         /\ HistoryOK'
         /\ Remembering(Lasting)' /\ FirstTextKept(mem)'
<1>1. TypeOK /\ IdsLeft /\ Remembering(mem) /\ Commit(w) /\ Show(shown, w.doc)
      /\ Tell(tellnow, w.doc) /\ Hear(w.doc)
  BY DEF IInv, AgentCall, Lasting
<1>2. w.doc \in DocumentType /\ w.mem \in MemoryType /\ shown \subseteq Ids /\ tellnow \subseteq Ids
  BY DEF AgentWork, Present
<1>3. /\ file' \in DocumentType /\ typed' \in Texty /\ mem' \in MemoryType
      /\ mem'.unread = w.mem.unread
      /\ mem'.pending = w.mem.pending
      /\ \A s \in Ids : mem'.known[s] = w.doc[s].text
      /\ \A s \in Present(w.doc) : s < mem'.next
      /\ \A s \in Ids : Reserved(mem, s) => s < mem'.next
  BY <1>1, <1>2, CommitTypes
<1>4. /\ seen' = [s \in Ids |-> IF s \in shown THEN {w.doc[s].text} ELSE seen[s]]
      /\ brought' = (brought \cup NamedNow) \ shown
      /\ told' = [s \in Ids |-> IF s \in tellnow THEN w.doc[s].text ELSE told[s]]
      /\ heard' = heard \cup Present(w.doc)
  BY <1>1 DEF Show, Tell, Hear
<1>5. \A s \in Ids : w.doc[s].text \in Texty
  BY <1>2, DocumentFacts
<1>6. HistoryOK'
  BY <1>1, <1>4, <1>5 DEF HistoryOK, TypeOK, Texty, NamedNow, Present
<1>7. Remembers(mem)'
  <2> SUFFICES ASSUME NEW s \in Ids
               PROVE  /\ mem'.known[s] # Nothing =>
                           mem'.known[s] \in seen'[s] \/ s \in mem'.unread \/ s \in brought'
                      /\ (mem'.known[s] = Nothing /\ s \in Present(file')) =>
                           file'[s].text \in seen'[s] \/ s \in brought'
                      /\ s \in mem'.unread => mem'.known[s] # Nothing
    BY DEF Remembers
  <2>1. file' = w.doc
    BY <1>1 DEF Commit
  <2>2. s \in Present(w.doc) <=> w.doc[s].text # Nothing
    BY <1>2, DocumentFacts
  <2>3. s \in mem'.unread => mem'.known[s] # Nothing
    BY <1>3, <2>2 DEF AgentWork
  <2>4. ASSUME mem'.known[s] # Nothing
        PROVE  mem'.known[s] \in seen'[s] \/ s \in mem'.unread \/ s \in brought'
    <3>1. CASE s \in shown
      BY <1>3, <1>4, <3>1
    <3>2. CASE s \notin shown
      <4>1. w.doc[s].text = Synced.doc[s].text /\ (s \in Synced.mem.unread => s \in w.mem.unread)
        BY <3>2 DEF AgentWork
      <4>2. Synced.doc[s].text \in seen[s] \/ s \in Synced.mem.unread \/ s \in brought \cup NamedNow
        BY <1>1, <1>3, <2>4, <4>1, SyncShows
      <4> QED
        BY <1>3, <1>4, <3>2, <4>1, <4>2
    <3> QED
      BY <3>1, <3>2
  <2> QED
    BY <1>3, <2>1, <2>2, <2>3, <2>4
<1>8. FirstTextKept(mem)'
  <2> SUFFICES ASSUME NEW s \in Ids, Empty \notin seen'[s]
               PROVE  s < mem'.next
    BY DEF FirstTextKept, Reserved
  <2>1. CASE s \in shown
    BY <1>3, <2>1 DEF AgentWork
  <2>2. CASE s \notin shown
    BY <1>1, <1>3, <1>4, <2>2 DEF Remembering, FirstTextKept
  <2> QED
    BY <2>1, <2>2
<1>9. Tells(mem)'
  <2> SUFFICES ASSUME NEW s \in Ids, mem'.known[s] # told'[s]
               PROVE  s \in mem'.pending
    BY DEF Tells
  <2>1. s \notin tellnow
    BY <1>3, <1>4
  <2>2. w.doc[s].text = Synced.doc[s].text /\ (s \in Synced.mem.pending => s \in w.mem.pending)
    BY <2>1 DEF AgentWork
  <2>3. told'[s] = told[s]
    BY <1>4, <2>1
  <2>4. FollowsFile(s) /\ mem.pending \subseteq Synced.mem.pending
    BY <1>1, SyncFollows DEF Synchronised
  <2>5. Synced.doc[s].text # mem.known[s] \/ mem.known[s] # told[s]
    BY <1>3, <2>2, <2>3
  <2>6. s \in Synced.mem.pending
    BY <1>1, <2>4, <2>5 DEF FollowsFile, Remembering, Tells
  <2> QED
    BY <1>3, <2>2, <2>6
<1>10. Reserves(mem)'
  <2> SUFFICES ASSUME NEW s \in heard'
               PROVE  s < mem'.next
    BY DEF Reserves, Reserved
  <2>1. CASE s \in Present(w.doc)
    BY <1>3, <2>1
  <2>2. CASE s \in heard
    <3>1. s \in Ids
      BY <1>1, <2>2 DEF TypeOK
    <3> QED
      BY <1>1, <1>3, <2>2, <3>1 DEF Remembering, Reserves
  <2> QED
    BY <1>4, <2>1, <2>2
<1>11. Lasting' = mem'
  BY DEF Lasting
<1>12. Remembering(mem)'
  BY <1>7, <1>8, <1>9, <1>10 DEF Remembering
<1> QED
  BY <1>3, <1>6, <1>8, <1>11, <1>12
-----------------------------------------------------------------------------
(* The app dies. *)

(* A session starts with a memory of nothing. *)
LEMMA EmptyMemory ==
  Memory(Shut) \in MemoryType /\ Shut \in DocumentType
<1>1. Gone \in SectionType /\ WellKept(Gone) /\ Gone.text = Nothing
  BY DEF Gone, Section, SectionType, WellKept, Statuses
<1>2. Shut \in DocumentType
  BY <1>1 DEF Shut, DocumentType
<1>3. TextsOf(Shut) \in [Ids -> AnyText \cup {Nothing}]
  BY <1>1 DEF TextsOf, Shut
<1>4. 1 \in 1..MaxSections + 1
  BY DocumentAssumption
<1> QED
  BY <1>2, <1>3, <1>4 DEF Memory, MemoryType

(* A restart leaves the lasting memory and nobody at work. *)
LEMMA RestartTypes ==
  ASSUME TypeOK, Restart
  PROVE  /\ mem' = Lasting /\ mem' \in MemoryType /\ heir' \in MemoryType
         /\ carried' \in BOOLEAN /\ ~carried' /\ running' \in BOOLEAN /\ ~running'
         /\ writer' \in [Subs -> {"off", "on", "ended"}] /\ \A a \in Subs : writer'[a] = "off"
         /\ section' \in [Subs -> Ids \cup {0}]
         /\ base' \in DocumentType
         /\ events' \in 0..MaxEvents
         /\ Lasting' = Lasting /\ Alone'
<1>1. mem' = Lasting /\ heir' = Memory(Shut) /\ base' = Shut /\ carried' = FALSE /\ running' = FALSE
      /\ writer' = [a \in Subs |-> "off"] /\ section' = [a \in Subs |-> 0]
  BY DEF Restart
<1>2. events' \in 0..MaxEvents
  BY DocumentAssumption DEF Restart, Event, TypeOK
<1>3. Lasting' = mem'
  BY <1>1 DEF Lasting
<1>4. \A a \in Subs : writer'[a] = "off"
  BY <1>1
<1> QED
  BY <1>1, <1>2, <1>3, <1>4, EmptyMemory, LastingIsTyped DEF Alone

(* A crash between the file and the memory leaves differences the next sync finds. *)
LEMMA TornKeeps ==
  ASSUME IInv, ~carried, NEW doc \in DocumentType, Torn(doc)
  PROVE  IInv'
<1>1. TypeOK /\ IdsLeft /\ Restart /\ Lasting = mem /\ Remembering(mem)
  BY DEF IInv, Torn, Lasting
<1>2. /\ mem' = mem /\ mem' \in MemoryType /\ heir' \in MemoryType
      /\ carried' \in BOOLEAN /\ running' \in BOOLEAN
      /\ writer' \in [Subs -> {"off", "on", "ended"}]
      /\ section' \in [Subs -> Ids \cup {0}]
      /\ base' \in DocumentType
      /\ events' \in 0..MaxEvents
      /\ Lasting' = mem /\ Alone'
  BY <1>1, RestartTypes
<1>3. /\ file' = doc /\ typed' = Nothing
      /\ seen' = [s \in Ids |-> IF doc[s].text # Synced.doc[s].text
                                THEN seen[s] \cup {doc[s].text} ELSE seen[s]]
      /\ brought' = brought \cup NamedNow
      /\ told' = told /\ heard' = heard
  BY DEF Torn
<1>4. \A s \in Ids : doc[s].text \in Texty /\ (s \in Present(doc) <=> doc[s].text # Nothing)
  BY DocumentFacts
<1>5. /\ \A s \in Ids : seen[s] \subseteq seen'[s]
      /\ seen' \in [Ids -> SUBSET (AnyText \cup {Nothing})]
  BY <1>1, <1>3, <1>4 DEF TypeOK, Texty
<1>6. brought' \subseteq Ids
  BY <1>1, <1>3 DEF TypeOK, NamedNow
<1>7. TypeOK'
  BY <1>1, <1>2, <1>3, <1>5, <1>6 DEF TypeOK
<1>8. Remembers(mem)'
  <2> SUFFICES ASSUME NEW s \in Ids
               PROVE  /\ mem.known[s] # Nothing =>
                           mem.known[s] \in seen'[s] \/ s \in mem.unread \/ s \in brought'
                      /\ (mem.known[s] = Nothing /\ s \in Present(doc)) =>
                           doc[s].text \in seen'[s] \/ s \in brought'
                      /\ s \in mem.unread => mem.known[s] # Nothing
    BY <1>2, <1>3 DEF Remembers
  <2>1. /\ mem.known[s] # Nothing =>
             mem.known[s] \in seen[s] \/ s \in mem.unread \/ s \in brought
        /\ s \in mem.unread => mem.known[s] # Nothing
    BY <1>1 DEF Remembering, Remembers
  <2>2. ASSUME mem.known[s] = Nothing, s \in Present(doc)
        PROVE  doc[s].text \in seen'[s] \/ s \in brought'
    <3>1. CASE doc[s].text # Synced.doc[s].text
      BY <1>3, <3>1
    <3>2. CASE doc[s].text = Synced.doc[s].text
      <4>1. Synced.doc[s].text # Nothing
        BY <1>4, <2>2, <3>2
      <4>2. Synced.doc[s].text \in seen[s] \/ s \in Synced.mem.unread \/ s \in brought \cup NamedNow
        BY <1>1, <4>1, SyncShows
      <4>3. s \notin Synced.mem.unread
        BY <1>1, <2>1, <2>2, SyncFollows DEF Synchronised, Marked, Edited
      <4> QED
        BY <1>3, <1>5, <3>2, <4>2, <4>3
    <3> QED
      BY <3>1, <3>2
  <2> QED
    BY <1>3, <1>5, <2>1, <2>2
<1>9. FirstTextKept(mem)'
  BY <1>1, <1>2, <1>5 DEF Remembering, FirstTextKept, Reserved
<1>10. Tells(mem)' /\ Reserves(mem)'
  BY <1>1, <1>2, <1>3 DEF Remembering, Tells, Reserves, Reserved
<1>11. Remembering(mem)'
  BY <1>8, <1>9, <1>10 DEF Remembering
<1> QED
  BY <1>2, <1>7, <1>9, <1>11 DEF IInv

(* A crash keeps the invariant, torn or not. *)
LEMMA CrashKeeps ==
  ASSUME IInv, Crash
  PROVE  IInv'
<1>1. TypeOK /\ Restart /\ Remembering(Lasting)
  BY DEF IInv, Crash
<1>2. /\ mem' = Lasting /\ mem' \in MemoryType /\ heir' \in MemoryType
      /\ carried' \in BOOLEAN /\ running' \in BOOLEAN
      /\ writer' \in [Subs -> {"off", "on", "ended"}]
      /\ section' \in [Subs -> Ids \cup {0}]
      /\ base' \in DocumentType
      /\ events' \in 0..MaxEvents
      /\ Lasting' = Lasting /\ Alone'
  BY <1>1, RestartTypes
<1>3. file' = file /\ typed' = typed /\ seen' = seen /\ told' = told /\ heard' = heard
      /\ brought' = brought
  BY DEF Crash, history
<1>4. TypeOK'
  BY <1>1, <1>2, <1>3 DEF TypeOK
<1> DEFINE m == Lasting
<1>5. m' = m
  BY <1>2
<1> HIDE DEF m
<1>6. Remembering(m)'
  <2>1. Remembering(m)
    BY <1>1 DEF m
  <2>2. Remembers(m)'
    BY <1>3, <1>5, <2>1 DEF Remembering, Remembers
  <2>3. FirstTextKept(m)' /\ Tells(m)' /\ Reserves(m)'
    BY <1>3, <1>5, <2>1 DEF Remembering, FirstTextKept, Tells, Reserves, Reserved
  <2> QED
    BY <2>2, <2>3 DEF Remembering
<1>7. FirstTextKept(mem)'
  <2>1. mem' = m'
    BY <1>2, <1>5 DEF m
  <2> QED
    BY <1>6, <2>1 DEF Remembering, FirstTextKept, Reserved
<1> QED
  BY <1>2, <1>4, <1>6, <1>7 DEF IInv, m
-----------------------------------------------------------------------------
(* What each tool leaves. *)

(* A step in which an agent does its work keeps the invariant. *)
LEMMA AgentStepKeeps ==
  ASSUME IInv, ~carried, NEW w, NEW shown, NEW tellnow,
         AgentWork(w, shown, tellnow), AgentCall(w, shown, tellnow),
         heir' = heir, carried' = carried, base' = base, running' \in BOOLEAN,
         writer' \in [Subs -> {"off", "on", "ended"}],
         section' \in [Subs -> Ids \cup {0}], events' \in 0..MaxEvents,
         \A a \in Subs : writer'[a] # "off" => running'
  PROVE  IInv'
<1>1. /\ file' \in DocumentType /\ typed' \in Texty /\ mem' \in MemoryType
      /\ HistoryOK'
      /\ Remembering(Lasting)' /\ FirstTextKept(mem)'
  BY AgentCallKeeps
<1>2. TypeOK'
  BY <1>1 DEF IInv, TypeOK, HistoryOK, Texty
<1> QED
  BY <1>1, <1>2 DEF IInv, Alone

(* What sync gives is a document and a memory. *)
LEMMA SyncedIsPair ==
  Synced = [doc |-> Synced.doc, mem |-> Synced.mem]
<1> DEFINE d == [s \in Ids |-> IF s \in Edited(Named(file, mem), mem)
                               THEN Section(Named(file, mem)[s].text, "human", Nobody)
                               ELSE Named(file, mem)[s]]
           m == [mem EXCEPT !.unread = Marked(Named(file, mem), mem),
                            !.pending = Pending(Named(file, mem), mem)]
<1>1. Synced = [doc |-> d, mem |-> m]
  BY DEF Synced
<1> HIDE DEF d, m
<1> QED
  BY <1>1

(* Another document beside the synced memory. *)
LEMMA WithDoc ==
  ASSUME NEW new
  PROVE  LET v == [Synced EXCEPT !.doc = new]
         IN  v.doc = new /\ v.mem = Synced.mem
BY SyncedIsPair

(* The synced memory with a section read. *)
LEMMA WithUnread ==
  ASSUME Synced.mem \in MemoryType, NEW s
  PROVE  LET v == [Synced EXCEPT !.mem.unread = @ \ {s}]
         IN  /\ v.doc = Synced.doc
             /\ v.mem \in MemoryType
             /\ v.mem.unread = Synced.mem.unread \ {s}
             /\ v.mem.pending = Synced.mem.pending
             /\ v.mem.claimed = Synced.mem.claimed
<1> DEFINE v == [Synced EXCEPT !.mem.unread = @ \ {s}]
           m == Synced.mem
<1>1. v = [doc |-> Synced.doc, mem |-> [m EXCEPT !.unread = m.unread \ {s}]]
  BY SyncedIsPair
<1>2. [m EXCEPT !.unread = m.unread \ {s}] =
        [known |-> m.known, unread |-> m.unread \ {s}, pending |-> m.pending, next |-> m.next,
         claimed |-> m.claimed]
  BY DEF MemoryType
<1> HIDE DEF v
<1>3. v.mem \in MemoryType
  BY <1>1, <1>2 DEF MemoryType
<1> QED
  BY <1>1, <1>2, <1>3 DEF v

(* The synced memory with everything told. *)
LEMMA WithPending ==
  ASSUME Synced.mem \in MemoryType
  PROVE  LET v == [Synced EXCEPT !.mem.pending = {}]
         IN  /\ v.doc = Synced.doc
             /\ v.mem \in MemoryType
             /\ v.mem.unread = Synced.mem.unread
             /\ v.mem.pending = {}
<1> DEFINE v == [Synced EXCEPT !.mem.pending = {}]
           m == Synced.mem
<1>1. v = [doc |-> Synced.doc, mem |-> [m EXCEPT !.pending = {}]]
  BY SyncedIsPair
<1>2. [m EXCEPT !.pending = {}] =
        [known |-> m.known, unread |-> m.unread, pending |-> {}, next |-> m.next,
         claimed |-> m.claimed]
  BY DEF MemoryType
<1> HIDE DEF v
<1>3. v.mem \in MemoryType
  BY <1>1, <1>2 DEF MemoryType
<1> QED
  BY <1>1, <1>2, <1>3 DEF v

(* A memory with a claim put in. *)
LEMMA WithClaim ==
  ASSUME NEW m \in MemoryType, NEW s \in Ids, NEW sec \in SectionType, WellKept(sec)
  PROVE  LET v == [m EXCEPT !.claimed[s] = sec]
         IN  /\ v \in MemoryType
             /\ v.unread = m.unread
             /\ v.pending = m.pending
<1> DEFINE v == [m EXCEPT !.claimed[s] = sec]
<1>1. v = [known |-> m.known, unread |-> m.unread, pending |-> m.pending, next |-> m.next,
           claimed |-> [m.claimed EXCEPT ![s] = sec]]
  BY DEF MemoryType
<1>2. [m.claimed EXCEPT ![s] = sec] \in DocumentType
  BY DEF MemoryType, DocumentType
<1> HIDE DEF v
<1>3. v \in MemoryType
  BY <1>1, <1>2 DEF MemoryType
<1> QED
  BY <1>1, <1>3 DEF v

(* A memory with its claims and its news taken out. *)
LEMMA WithoutClaims ==
  ASSUME NEW u \in MemoryType
  PROVE  LET v == [u EXCEPT !.pending = {}, !.claimed = Shut]
         IN  v \in MemoryType /\ v.unread = u.unread /\ v.pending = {}
<1> DEFINE c == Shut
           p == {}
           v == [u EXCEPT !.pending = p, !.claimed = c]
<1>1. c \in DocumentType /\ p \subseteq Ids /\ p = {}
  BY EmptyMemory
<1> HIDE DEF c, p
<1>2. v = [known |-> u.known, unread |-> u.unread, pending |-> p, next |-> u.next,
           claimed |-> c]
  <2> DEFINE q == [u EXCEPT !.pending = p]
  <2>1. q = [known |-> u.known, unread |-> u.unread, pending |-> p, next |-> u.next,
             claimed |-> u.claimed]
    BY DEF MemoryType
  <2>2. v = [q EXCEPT !.claimed = c]
    OBVIOUS
  <2> HIDE DEF q, v
  <2> QED
    BY <2>1, <2>2
<1> HIDE DEF v
<1>3. v \in MemoryType
  BY <1>1, <1>2 DEF MemoryType
<1>4. v.unread = u.unread /\ v.pending = {}
  BY <1>1, <1>2
<1> QED
  BY <1>3, <1>4 DEF v, c, p

(* A tool that keeps every text but those it shows and tells. *)
LEMMA WorkOnSynced ==
  ASSUME IInv, ~carried, IdsLeft,
         NEW v, NEW shown, NEW tellnow \in SUBSET Ids,
         v.doc \in DocumentType, v.mem \in MemoryType,
         shown \subseteq Present(v.doc),
         Present(Synced.doc) \subseteq Present(v.doc),
         v.mem.unread \subseteq Synced.mem.unread,
         \A s \in Ids : s \notin shown => /\ v.doc[s].text = Synced.doc[s].text
                                          /\ s \in Synced.mem.unread => s \in v.mem.unread,
         \A s \in Ids : s \notin tellnow => /\ v.doc[s].text = Synced.doc[s].text
                                            /\ s \in Synced.mem.pending => s \in v.mem.pending
  PROVE  AgentWork(v, shown, tellnow)
<1>1. TypeOK /\ \A s \in Ids : s \in mem.unread => mem.known[s] # Nothing
  BY DEF IInv, Lasting, Remembering, Remembers
<1>2. Synced.mem.unread \subseteq Present(Synced.doc)
  BY <1>1, UnreadIsThere
<1> QED
  BY <1>2 DEF AgentWork

(* What sync gives has its types and follows the file. *)
LEMMA SyncedTypes ==
  ASSUME IInv, IdsLeft
  PROVE  /\ Synced.doc \in DocumentType /\ Synced.mem \in MemoryType
         /\ Synced.mem.claimed = mem.claimed
         /\ \A s \in Ids : FollowsFile(s)
BY SyncFollows DEF IInv, Synchronised

(* To sync is an agent's work. *)
LEMMA ReadingIsWork ==
  ASSUME IInv, ~carried, IdsLeft
  PROVE  AgentWork(Synced, {}, {})
BY SyncedTypes, WorkOnSynced

(* To show a section to an agent is its work. *)
LEMMA ShowingIsWork ==
  ASSUME IInv, ~carried, IdsLeft, NEW s \in Present(Synced.doc)
  PROVE  AgentWork([Synced EXCEPT !.mem.unread = @ \ {s}], {s}, {})
<1> DEFINE v == [Synced EXCEPT !.mem.unread = @ \ {s}]
<1>1. v.doc = Synced.doc /\ v.mem \in MemoryType /\ v.mem.unread = Synced.mem.unread \ {s}
      /\ v.mem.pending = Synced.mem.pending
  BY SyncedTypes, WithUnread
<1> HIDE DEF v
<1>2. AgentWork(v, {s}, {})
  BY <1>1, SyncedTypes, WorkOnSynced
<1> QED
  BY <1>2 DEF v

(* To tell the model the changes is its work. *)
LEMMA TellingIsWork ==
  ASSUME IInv, ~carried, IdsLeft
  PROVE  AgentWork([Synced EXCEPT !.mem.pending = {}], {}, Synced.mem.pending)
<1> DEFINE v == [Synced EXCEPT !.mem.pending = {}]
<1>1. v.doc = Synced.doc /\ v.mem \in MemoryType /\ v.mem.unread = Synced.mem.unread
      /\ v.mem.pending = {}
  BY SyncedTypes, WithPending
<1>2. Synced.mem.pending \subseteq Ids
  BY SyncedTypes, MemoryFacts
<1> HIDE DEF v
<1>3. AgentWork(v, {}, Synced.mem.pending)
  BY <1>1, <1>2, SyncedTypes, WorkOnSynced
<1> QED
  BY <1>3 DEF v

(* To write what it was shown, and nothing else, is an agent's work. *)
LEMMA WritingIsWork ==
  ASSUME IInv, ~carried, IdsLeft, NEW new \in DocumentType,
         Present(Synced.doc) \subseteq Present(new), NEW shown \in SUBSET Present(new),
         \A s \in Ids : s \notin shown => new[s].text = Synced.doc[s].text
  PROVE  AgentWork([Synced EXCEPT !.doc = new], shown, shown)
<1> DEFINE v == [Synced EXCEPT !.doc = new]
<1>1. v.doc = new /\ v.mem = Synced.mem
  BY WithDoc
<1>2. shown \subseteq Ids
  BY DEF Present
<1> HIDE DEF v
<1>3. AgentWork(v, shown, shown)
  BY <1>1, <1>2, SyncedTypes, WorkOnSynced
<1> QED
  BY <1>3 DEF v
-----------------------------------------------------------------------------
(* The agents' actions. *)

(* The agents: main, the subagents, and not nobody. *)
LEMMA AgentsAreOwners ==
  Subs \subseteq Agents /\ Main \in Agents /\ Main \notin Subs /\ Nobody \notin Agents
BY DocumentAssumption DEF Agents, Main, Subs, Nobody

(* A write changes its section only, and an empty body not even its text. *)
LEMMA WrittenKeeps ==
  ASSUME NEW doc \in DocumentType, NEW who \in Agents, NEW s \in Present(doc),
         NEW body \in AnyText, NEW status \in {"doing", "done"}
  PROVE  LET new == Written(doc, who, s, body, status)
         IN  /\ new \in DocumentType
             /\ Present(doc) \subseteq Present(new)
             /\ s \in Present(new)
             /\ \A x \in Ids : x # s => new[x] = doc[x]
             /\ new[s].status = status
             /\ status = "doing" => new[s].owner = who
             /\ body = Empty => new[s].text = doc[s].text
<1> DEFINE new == Written(doc, who, s, body, status)
           t == IF body = Empty THEN doc[s].text ELSE body
           o == IF KeepsAuthor(doc[s], who, status) THEN doc[s].owner ELSE who
<1>1. s \in Ids /\ doc[s].text \in Texty /\ doc[s].text # Nothing
  BY DocumentFacts DEF Present
<1>2. t \in Texty /\ t # Nothing
  BY <1>1, DocumentAssumption DEF Texty, AnyText
<1>3. o \in Agents /\ (status = "doing" => o = who)
  BY AgentsAreOwners DEF KeepsAuthor
<1>4. status \in Statuses /\ o \in {Nobody} \cup Agents
  BY <1>3 DEF Statuses
<1> HIDE DEF t, o
<1>5. new = [doc EXCEPT ![s] = Section(t, status, o)]
  BY DEF Written, t, o
<1> HIDE DEF new
<1>6. doc \in [Ids -> SectionType] /\ \A x \in Ids : WellKept(doc[x])
  BY DEF DocumentType
<1>7. /\ new \in [Ids -> SectionType]
      /\ new[s] = Section(t, status, o)
      /\ \A x \in Ids : x # s => new[x] = doc[x]
  BY <1>1, <1>2, <1>4, <1>5, <1>6, SectionIsTyped
<1>8. new[s].text = t /\ new[s].status = status /\ new[s].owner = o
  BY <1>2, <1>4, <1>7, SectionIsTyped
<1>9. WellKept(new[s])
  BY <1>2, <1>3, <1>8, AgentsAreOwners DEF WellKept
<1>10. new \in DocumentType
  BY <1>6, <1>7, <1>9 DEF DocumentType
<1>11. s \in Present(new) /\ Present(doc) \subseteq Present(new)
  BY <1>1, <1>7, <1>8 DEF Present
<1>12. body = Empty => new[s].text = doc[s].text
  BY <1>8 DEF t
<1> QED
  BY <1>3, <1>7, <1>8, <1>10, <1>11, <1>12 DEF new

(* An agent acts in a run, and no memory is carried meanwhile. *)
LEMMA ActingIsHere ==
  ASSUME IInv, NEW who \in Agents, Acting(who)
  PROVE  running /\ ~carried
BY DEF IInv, Alone, Acting

(* The bound of the model is kept. *)
LEMMA EventCounts ==
  ASSUME TypeOK, Event
  PROVE  events' \in 0..MaxEvents
BY DocumentAssumption DEF Event, TypeOK

(* Nothing but the document, its memory and what agents know changes. *)
LEMMA CallKeeps ==
  ASSUME IInv, ~carried, NEW w, NEW shown, NEW tellnow,
         AgentWork(w, shown, tellnow), AgentCall(w, shown, tellnow),
         heir' = heir, carried' = carried, base' = base, agents' = agents,
         events' = events \/ Event
  PROVE  IInv'
<1>1. running' = running /\ writer' = writer /\ section' = section
  BY DEF agents
<1>2. events' \in 0..MaxEvents
  BY EventCounts DEF IInv, TypeOK
<1>3. /\ running' \in BOOLEAN /\ writer' \in [Subs -> {"off", "on", "ended"}]
      /\ section' \in [Subs -> Ids \cup {0}]
      /\ \A a \in Subs : writer'[a] # "off" => running'
  BY <1>1 DEF IInv, TypeOK, Alone
<1> QED
  BY <1>2, <1>3, AgentStepKeeps

(* The invariant, step by step.  doc_write, refused or not. *)
LEMMA DocWriteKeeps ==
  ASSUME IInv, NEW who \in Agents, NEW s \in Ids, NEW body \in AnyText,
         NEW status \in {"doing", "done"}, DocWrite(who, s, body, status)
  PROVE  IInv'
<1> DEFINE w == Synced
           new == Written(w.doc, who, s, body, status)
           shown == IF body = Empty THEN {} ELSE {s}
<1>1. ~carried /\ TypeOK
  BY ActingIsHere DEF DocWrite, IInv
<1>2. CASE /\ s \in w.mem.unread
           /\ AgentCall([w EXCEPT !.mem.unread = @ \ {s}], {s}, {})
           /\ UNCHANGED <<heir, carried, agents, base, events>>
  <2>1. IdsLeft
    BY <1>2 DEF AgentCall
  <2>2. s \in Present(w.doc)
    BY <1>1, <1>2, <2>1, UnreadIsThere DEF IInv, Lasting, Remembering, Remembers
  <2> QED
    BY <1>1, <1>2, <2>1, <2>2, ShowingIsWork, CallKeeps
<1>3. CASE /\ AgentCall(w, {}, {})
           /\ UNCHANGED <<heir, carried, agents, base, events>>
  <2>1. IdsLeft
    BY <1>3 DEF AgentCall
  <2> QED
    BY <1>1, <1>3, <2>1, ReadingIsWork, CallKeeps
<1>4. CASE /\ ~Refuses(w.doc, who, s, body, status)
           /\ \/ /\ AgentCall([w EXCEPT !.doc = new], shown, shown)
                 /\ Event
                 /\ UNCHANGED <<heir, carried, agents, base>>
              \/ Torn(new)
  <2>1. IdsLeft
    BY <1>4 DEF AgentCall, Torn
  <2>2. w.doc \in DocumentType /\ s \in Present(w.doc)
    BY <1>4, <2>1, SyncedTypes DEF Refuses
  <2>3. /\ new \in DocumentType /\ Present(w.doc) \subseteq Present(new) /\ s \in Present(new)
        /\ \A x \in Ids : x # s => new[x] = w.doc[x]
        /\ body = Empty => new[s].text = w.doc[s].text
    BY <2>2, WrittenKeeps
  <2> HIDE DEF new
  <2>4. CASE Torn(new)
    BY <1>1, <2>3, <2>4, TornKeeps
  <2>5. CASE /\ AgentCall([w EXCEPT !.doc = new], shown, shown)
             /\ Event
             /\ UNCHANGED <<heir, carried, agents, base>>
    <3>1. shown \in SUBSET Present(new) /\ \A x \in Ids : x \notin shown => new[x].text = w.doc[x].text
      BY <2>3
    <3> HIDE DEF shown
    <3>2. AgentWork([w EXCEPT !.doc = new], shown, shown)
      BY <1>1, <2>1, <2>3, <3>1, WritingIsWork
    <3> QED
      BY <1>1, <2>5, <3>2, CallKeeps
  <2> QED
    BY <1>4, <2>4, <2>5
<1> QED
  BY <1>2, <1>3, <1>4 DEF DocWrite

(* doc_read. *)
LEMMA DocReadKeeps ==
  ASSUME IInv, NEW who \in Agents, NEW s \in Ids, DocRead(who, s)
  PROVE  IInv'
<1>1. ~carried /\ s \in Present(Synced.doc) /\ UNCHANGED <<heir, carried, agents, base, events>>
  BY ActingIsHere DEF DocRead
<1>2. CASE AgentCall([Synced EXCEPT !.mem.unread = @ \ {s}], {s}, {})
  <2>1. IdsLeft
    BY <1>2 DEF AgentCall
  <2> QED
    BY <1>1, <1>2, <2>1, ShowingIsWork, CallKeeps
<1>3. CASE AgentCall(Synced, {}, {})
  <2>1. IdsLeft
    BY <1>3 DEF AgentCall
  <2> QED
    BY <1>1, <1>3, <2>1, ReadingIsWork, CallKeeps
<1> QED
  BY <1>2, <1>3 DEF DocRead

(* The outline of the document. *)
LEMMA OutlineKeeps ==
  ASSUME IInv, Outline
  PROVE  IInv'
<1>1. ~carried /\ IdsLeft
  BY ActingIsHere, AgentsAreOwners DEF Outline, AgentCall
<1> QED
  BY <1>1, ReadingIsWork, CallKeeps DEF Outline

(* The note of changes at a round. *)
LEMMA NoteRoundKeeps ==
  ASSUME IInv, NoteRound
  PROVE  IInv'
<1>1. ~carried /\ IdsLeft
  BY ActingIsHere, AgentsAreOwners DEF NoteRound, AgentCall
<1> QED
  BY <1>1, TellingIsWork, CallKeeps DEF NoteRound

(* A section is added under the next id. *)
LEMMA DocAddKeeps ==
  ASSUME IInv, DocAdd
  PROVE  IInv'
<1> DEFINE w == Synced
           id == NextNumber(w.doc, mem)
           new == [w.doc EXCEPT ![id] = Placeholder(Empty)]
<1>1. ~carried /\ IdsLeft /\ TypeOK
  BY ActingIsHere, AgentsAreOwners DEF DocAdd, AgentCall, Torn, IInv
<1>2. w.doc \in DocumentType
  BY <1>1, SyncedTypes
<1>3. id \in Ids
  <2>1. id \in mem.next..MaxSections + 1 /\ mem.next \in 1..MaxSections + 1 /\ MaxSections \in Nat
    BY <1>1, <1>2, NextIsFree, MemoryFacts, DocumentAssumption DEF TypeOK
  <2>2. id <= MaxSections
    BY DEF DocAdd
  <2> QED
    BY <2>1, <2>2 DEF Ids
<1>4. /\ Placeholder(Empty) \in SectionType /\ WellKept(Placeholder(Empty))
      /\ Placeholder(Empty).text = Empty /\ Placeholder(Empty).status = "todo"
  BY PlaceholderIsKept DEF AnyText
<1>5. /\ (AgentCall([w EXCEPT !.doc = new], {id}, {id}) /\ Event
            /\ UNCHANGED <<heir, carried, agents, base>>)
         \/ Torn(new)
  BY DEF DocAdd
<1> HIDE DEF id
<1>6. /\ new \in DocumentType /\ new[id] = Placeholder(Empty)
      /\ \A x \in Ids : x # id => new[x] = w.doc[x]
  BY <1>2, <1>3, <1>4 DEF DocumentType
<1> HIDE DEF new
<1>7. Present(w.doc) \subseteq Present(new) /\ {id} \in SUBSET Present(new)
  BY <1>3, <1>4, <1>6 DEF Present
<1>8. CASE Torn(new)
  BY <1>1, <1>6, <1>8, TornKeeps
<1>9. CASE /\ AgentCall([w EXCEPT !.doc = new], {id}, {id}) /\ Event
           /\ UNCHANGED <<heir, carried, agents, base>>
  <2>1. AgentWork([w EXCEPT !.doc = new], {id}, {id})
    BY <1>1, <1>6, <1>7, WritingIsWork
  <2> QED
    BY <1>1, <1>9, <2>1, CallKeeps
<1> QED
  BY <1>5, <1>8, <1>9
-----------------------------------------------------------------------------
(* Claims and runs. *)

(* The mark of a section that is gone is a section. *)
LEMMA GoneIsKept ==
  Gone \in SectionType /\ WellKept(Gone) /\ Gone.text = Nothing /\ Gone.status = "gone"
BY DEF Gone, Section, SectionType, WellKept, Statuses

(* A section given back keeps its text, and is doing only if it was before the claim. *)
LEMMA GivenBack ==
  ASSUME NEW sec \in SectionType, NEW before \in SectionType, WellKept(sec), WellKept(before),
         sec.text # Nothing
  PROVE  /\ GiveBack(sec, before) \in SectionType
         /\ WellKept(GiveBack(sec, before))
         /\ GiveBack(sec, before).text = sec.text
         /\ GiveBack(sec, before).status = "doing" => before.status = "doing"
<1>1. /\ sec.text \in Texty /\ before.status \in Statuses
      /\ before.owner \in {Nobody} \cup Agents /\ sec.owner \in {Nobody} \cup Agents
      /\ "todo" \in Statuses
  BY DEF SectionType, Texty, Statuses
<1>2. CASE before.text = sec.text
  <2>1. GiveBack(sec, before) = Section(sec.text, before.status, before.owner)
    BY <1>2 DEF GiveBack
  <2>2. /\ GiveBack(sec, before) \in SectionType
        /\ GiveBack(sec, before).text = sec.text
        /\ GiveBack(sec, before).status = before.status
        /\ GiveBack(sec, before).owner = before.owner
    BY <1>1, <2>1, SectionIsTyped
  <2> QED
    BY <1>2, <2>2 DEF WellKept
<1>3. CASE before.text # sec.text
  <2> DEFINE o == IF sec.text = Empty THEN Nobody ELSE sec.owner
  <2>1. GiveBack(sec, before) = Section(sec.text, "todo", o)
    BY <1>3 DEF GiveBack
  <2>2. o \in {Nobody} \cup Agents
    BY <1>1
  <2> HIDE DEF o
  <2>3. /\ GiveBack(sec, before) \in SectionType
        /\ GiveBack(sec, before).text = sec.text
        /\ GiveBack(sec, before).status = "todo"
    BY <1>1, <2>1, <2>2, SectionIsTyped
  <2> QED
    BY <2>3 DEF WellKept
<1> QED
  BY <1>2, <1>3

(* Claims and releases keep every text. *)
LEMMA RelabellingIsWork ==
  ASSUME IInv, ~carried, IdsLeft, NEW new \in DocumentType, NEW m \in MemoryType,
         \A s \in Ids : new[s].text = Synced.doc[s].text,
         m.unread = Synced.mem.unread, NEW tellnow \in SUBSET Ids,
         \A s \in Ids : s \in Synced.mem.pending => s \in m.pending \/ s \in tellnow
  PROVE  AgentWork([doc |-> new, mem |-> m], {}, tellnow)
<1> DEFINE v == [doc |-> new, mem |-> m]
<1>1. v.doc = new /\ v.mem = m
  OBVIOUS
<1>2. Present(Synced.doc) \subseteq Present(new)
  BY SyncedTypes, DocumentFacts DEF Present
<1> HIDE DEF v
<1>3. AgentWork(v, {}, tellnow)
  BY <1>1, <1>2, WorkOnSynced
<1> QED
  BY <1>3 DEF v

(* A section is claimed for a subagent. *)
LEMMA ClaimKeeps ==
  ASSUME IInv, NEW a \in Subs, NEW s \in Ids, Claim(a, s)
  PROVE  IInv'
<1> DEFINE w == Synced
           new == Claimed(w.doc, a, s)
           m == [w.mem EXCEPT !.claimed[s] = w.doc[s]]
<1>1. running /\ ~carried /\ TypeOK
  BY DEF Claim, IInv, Alone
<1>2. CASE AgentCall(w, {}, {}) /\ UNCHANGED <<heir, carried, agents, base, events>>
  <2>1. IdsLeft
    BY <1>2 DEF AgentCall
  <2> QED
    BY <1>1, <1>2, <2>1, ReadingIsWork, CallKeeps
<1>3. CASE /\ ~Refuses(w.doc, a, s, Empty, "doing")
           /\ \/ /\ AgentCall([doc |-> new, mem |-> m], {}, {})
                 /\ writer' = [writer EXCEPT ![a] = "on"]
                 /\ section' = [section EXCEPT ![a] = s]
                 /\ UNCHANGED <<heir, carried, running, base, events>>
              \/ Torn(new)
  <2>1. IdsLeft
    BY <1>3 DEF AgentCall, Torn
  <2>2. w.doc \in DocumentType /\ w.mem \in MemoryType /\ s \in Present(w.doc)
    BY <1>3, <2>1, SyncedTypes DEF Refuses
  <2>3. a \in Agents /\ Empty \in AnyText
    BY AgentsAreOwners DEF AnyText
  <2>4. new \in DocumentType /\ \A x \in Ids : new[x].text = w.doc[x].text
    BY <2>2, <2>3, WrittenKeeps DEF Claimed
  <2>5. m \in MemoryType /\ m.unread = w.mem.unread /\ m.pending = w.mem.pending
    BY <2>2, DocumentFacts, WithClaim
  <2> HIDE DEF new, m
  <2>6. CASE Torn(new)
    BY <1>1, <2>4, <2>6, TornKeeps
  <2>7. CASE /\ AgentCall([doc |-> new, mem |-> m], {}, {})
             /\ writer' = [writer EXCEPT ![a] = "on"]
             /\ section' = [section EXCEPT ![a] = s]
             /\ UNCHANGED <<heir, carried, running, base, events>>
    <3>1. AgentWork([doc |-> new, mem |-> m], {}, {})
      BY <1>1, <2>1, <2>4, <2>5, RelabellingIsWork
    <3>2. /\ running' \in BOOLEAN /\ writer' \in [Subs -> {"off", "on", "ended"}]
          /\ section' \in [Subs -> Ids \cup {0}] /\ events' \in 0..MaxEvents
          /\ \A b \in Subs : writer'[b] # "off" => running'
      BY <1>1, <2>7 DEF TypeOK
    <3> QED
      BY <1>1, <2>7, <3>1, <3>2, AgentStepKeeps
  <2> QED
    BY <1>3, <2>6, <2>7
<1> QED
  BY <1>2, <1>3 DEF Claim

(* The section of a subagent that is gone is given back. *)
LEMMA JoinKeeps ==
  ASSUME IInv, NEW a \in Subs, Join(a)
  PROVE  IInv'
<1> DEFINE w == Synced
           s == section[a]
           new == IF StillHolds(w.doc, a, s)
                  THEN [w.doc EXCEPT ![s] = GiveBack(@, w.mem.claimed[s])] ELSE w.doc
           m == [w.mem EXCEPT !.claimed[s] = Gone]
<1>1. running /\ ~carried /\ TypeOK /\ IdsLeft
  BY DEF Join, IInv, Alone, AgentCall, Torn
<1>2. w.doc \in DocumentType /\ w.mem \in MemoryType /\ w.mem.claimed \in DocumentType
  BY <1>1, SyncedTypes, MemoryFacts
<1>3. s \in Ids \cup {0}
  BY <1>1 DEF TypeOK
<1>4. new \in DocumentType /\ \A x \in Ids : new[x].text = w.doc[x].text
  <2>1. CASE s \in Ids /\ StillHolds(w.doc, a, s)
    <3> DEFINE b == GiveBack(w.doc[s], w.mem.claimed[s])
    <3>1. /\ w.doc[s] \in SectionType /\ WellKept(w.doc[s]) /\ w.doc[s].text # Nothing
          /\ w.mem.claimed[s] \in SectionType /\ WellKept(w.mem.claimed[s])
      BY <1>2, <2>1, DocumentFacts DEF StillHolds, WellKept
    <3>2. b \in SectionType /\ WellKept(b) /\ b.text = w.doc[s].text
      BY <3>1, GivenBack
    <3>3. new = [w.doc EXCEPT ![s] = b]
      BY <2>1
    <3> HIDE DEF b, new
    <3> QED
      BY <1>2, <2>1, <3>2, <3>3 DEF DocumentType
  <2>2. CASE ~StillHolds(w.doc, a, s)
    BY <1>2, <2>2
  <2>3. CASE s = 0
    <3>1. 0 \notin Ids
      BY DEF Ids
    <3>2. \/ new = w.doc \/ new = [w.doc EXCEPT ![0] = GiveBack(@, w.mem.claimed[0])]
      BY <2>3
    <3>3. [w.doc EXCEPT ![0] = GiveBack(@, w.mem.claimed[0])] = w.doc
      BY <1>2, <3>1 DEF DocumentType
    <3> QED
      BY <1>2, <3>2, <3>3
  <2> QED
    BY <1>3, <2>1, <2>2, <2>3
<1>5. m \in MemoryType /\ m.unread = w.mem.unread /\ m.pending = w.mem.pending
  <2>1. CASE s \in Ids
    BY <1>2, <2>1, GoneIsKept, WithClaim
  <2>2. CASE s = 0
    <3>1. w.mem.claimed \in [Ids -> SectionType] /\ 0 \notin Ids
      BY <1>2 DEF DocumentType, Ids
    <3>2. [w.mem.claimed EXCEPT ![0] = Gone] = w.mem.claimed
      BY <3>1
    <3>3. m = [w.mem EXCEPT !.claimed = [w.mem.claimed EXCEPT ![0] = Gone]]
      BY <2>2
    <3>4. m = w.mem
      BY <1>2, <3>2, <3>3 DEF MemoryType
    <3> QED
      BY <1>2, <3>4
  <2> QED
    BY <1>3, <2>1, <2>2
<1>6. \/ /\ AgentCall([doc |-> new, mem |-> m], {}, {})
         /\ writer' = [writer EXCEPT ![a] = "off"]
         /\ section' = [section EXCEPT ![a] = 0]
         /\ UNCHANGED <<heir, carried, running, base, events>>
      \/ Torn(new)
  BY DEF Join
<1> HIDE DEF new, m
<1>7. CASE Torn(new)
  BY <1>1, <1>4, <1>7, TornKeeps
<1>8. CASE /\ AgentCall([doc |-> new, mem |-> m], {}, {})
           /\ writer' = [writer EXCEPT ![a] = "off"]
           /\ section' = [section EXCEPT ![a] = 0]
           /\ UNCHANGED <<heir, carried, running, base, events>>
  <2>1. AgentWork([doc |-> new, mem |-> m], {}, {})
    BY <1>1, <1>4, <1>5, RelabellingIsWork
  <2>2. /\ running' \in BOOLEAN /\ writer' \in [Subs -> {"off", "on", "ended"}]
        /\ section' \in [Subs -> Ids \cup {0}] /\ events' \in 0..MaxEvents
        /\ \A b \in Subs : writer'[b] # "off" => running'
    BY <1>1, <1>8 DEF TypeOK
  <2> QED
    BY <1>1, <1>8, <2>1, <2>2, AgentStepKeeps
<1> QED
  BY <1>6, <1>7, <1>8

(* A run starts by freeing the claims of runs that died. *)
LEMMA RunStartsKeeps ==
  ASSUME IInv, RunStarts
  PROVE  IInv'
<1> DEFINE w == Synced
           new == [s \in Ids |-> IF Orphan(w.doc, s)
                                 THEN GiveBack(w.doc[s], w.mem.claimed[s]) ELSE w.doc[s]]
           m == [w.mem EXCEPT !.pending = {}, !.claimed = Shut]
<1>1. ~running /\ ~carried /\ TypeOK /\ IdsLeft
  BY DEF RunStarts, IInv, AgentCall, Torn
<1>2. /\ w.doc \in DocumentType /\ w.mem \in MemoryType /\ w.mem.claimed \in DocumentType
      /\ w.mem.pending \subseteq Ids
  BY <1>1, SyncedTypes, MemoryFacts
<1>3. new \in DocumentType /\ \A x \in Ids : new[x].text = w.doc[x].text
  <2>1. ASSUME NEW s \in Ids
        PROVE  new[s] \in SectionType /\ WellKept(new[s]) /\ new[s].text = w.doc[s].text
    <3>1. /\ w.doc[s] \in SectionType /\ WellKept(w.doc[s])
          /\ w.mem.claimed[s] \in SectionType /\ WellKept(w.mem.claimed[s])
      BY <1>2, DocumentFacts
    <3>2. CASE Orphan(w.doc, s)
      <4>1. w.doc[s].text # Nothing
        BY <3>1, <3>2 DEF Orphan, WellKept
      <4> QED
        BY <3>1, <3>2, <4>1, GivenBack
    <3>3. CASE ~Orphan(w.doc, s)
      BY <3>1, <3>3
    <3> QED
      BY <3>2, <3>3
  <2> QED
    BY <2>1 DEF DocumentType
<1>4. m \in MemoryType /\ m.unread = w.mem.unread /\ m.pending = {}
  BY <1>2, WithoutClaims
<1>5. \/ /\ AgentCall([doc |-> new, mem |-> m], {}, w.mem.pending)
         /\ running' = TRUE
         /\ UNCHANGED <<heir, carried, writer, section, base, events>>
      \/ Torn(new)
  BY DEF RunStarts
<1> HIDE DEF new, m
<1>6. CASE Torn(new)
  BY <1>1, <1>3, <1>6, TornKeeps
<1>7. CASE /\ AgentCall([doc |-> new, mem |-> m], {}, w.mem.pending)
           /\ running' = TRUE
           /\ UNCHANGED <<heir, carried, writer, section, base, events>>
  <2>1. AgentWork([doc |-> new, mem |-> m], {}, w.mem.pending)
    BY <1>1, <1>2, <1>3, <1>4, RelabellingIsWork
  <2>2. /\ running' \in BOOLEAN /\ writer' \in [Subs -> {"off", "on", "ended"}]
        /\ section' \in [Subs -> Ids \cup {0}] /\ events' \in 0..MaxEvents
        /\ \A b \in Subs : writer'[b] # "off" => running'
    BY <1>1, <1>7 DEF TypeOK
  <2> QED
    BY <1>1, <1>7, <2>1, <2>2, AgentStepKeeps
<1> QED
  BY <1>5, <1>6, <1>7

(* Steps that touch neither the document nor what is known of it. *)
LEMMA OthersKeep ==
  ASSUME IInv,
         \/ \E a \in Subs : SubEnds(a)
         \/ RunEnds \/ Carry \/ Swap \/ OpenInApp
         \/ UNCHANGED vars
  PROVE  IInv'
<1>1. TypeOK /\ Alone /\ Remembering(Lasting) /\ FirstTextKept(mem)
  BY DEF IInv
<1>2. /\ file' = file /\ typed' = typed /\ seen' = seen /\ told' = told /\ heard' = heard
      /\ brought' = brought
  BY DEF SubEnds, RunEnds, Carry, Swap, OpenInApp, vars, history
<1>3. ASSUME NEW m, NEW n, n = m, Remembering(m)
      PROVE  \A s \in Ids :
               /\ n.known[s] # Nothing => n.known[s] \in seen'[s] \/ s \in n.unread \/ s \in brought'
               /\ (n.known[s] = Nothing /\ s \in Present(file')) =>
                    file'[s].text \in seen'[s] \/ s \in brought'
               /\ s \in n.unread => n.known[s] # Nothing
               /\ Empty \notin seen'[s] => Reserved(n, s)
               /\ n.known[s] # told'[s] => s \in n.pending
               /\ s \in heard' => Reserved(n, s)
  BY <1>2, <1>3 DEF Remembering, Remembers, FirstTextKept, Tells, Reserves
<1>4. Lasting' = Lasting /\ (mem' = mem \/ (mem' = Lasting /\ Lasting = heir))
      /\ heir' \in MemoryType /\ mem' \in MemoryType
  <2>1. mem \in MemoryType /\ heir \in MemoryType
    BY <1>1 DEF TypeOK
  <2>2. CASE Carry
    <3>1. ~carried /\ heir' = mem /\ carried' = TRUE /\ mem' = mem
      BY <1>1, <2>2 DEF Carry, Alone
    <3> QED
      BY <2>1, <3>1 DEF Lasting
  <2>3. CASE Swap
    BY <2>1, <2>3, EmptyMemory DEF Swap, Lasting
  <2>4. CASE (\E a \in Subs : SubEnds(a)) \/ RunEnds \/ OpenInApp \/ UNCHANGED vars
    <3>1. mem' = mem /\ heir' = heir /\ carried' = carried
      BY <2>4 DEF SubEnds, RunEnds, OpenInApp, vars
    <3> QED
      BY <2>1, <3>1 DEF Lasting
  <2> QED
    BY <2>2, <2>3, <2>4
<1>5. Remembering(Lasting)'
  <2>1. heard' \subseteq Ids
    BY <1>1, <1>2 DEF TypeOK
  <2> QED
    BY <1>1, <1>3, <1>4, <2>1 DEF Remembering, Remembers, FirstTextKept, Tells, Reserves, Reserved
<1>6. FirstTextKept(mem)'
  BY <1>1, <1>2, <1>4 DEF Remembering, FirstTextKept, Reserved
<1>7. TypeOK' /\ Alone'
  <2>1. CASE \E a \in Subs : SubEnds(a)
    BY <1>1, <2>1 DEF SubEnds, TypeOK, Alone, history
  <2>2. CASE RunEnds
    BY <1>1, <2>2 DEF RunEnds, TypeOK, Alone, history, Quiet
  <2>3. CASE Carry
    BY <1>1, <2>3, EventCounts DEF Carry, TypeOK, Alone, history, Quiet
  <2>4. CASE Swap
    BY <1>1, <1>4, <2>4 DEF Swap, TypeOK, Alone, history, agents
  <2>5. CASE OpenInApp
    BY <1>1, <2>5, EventCounts DEF OpenInApp, TypeOK, Alone, history, agents
  <2>6. CASE UNCHANGED vars
    BY <1>1, <2>6 DEF vars, TypeOK, Alone, history, agents
  <2> QED
    BY <2>1, <2>2, <2>3, <2>4, <2>5, <2>6
<1> QED
  BY <1>5, <1>6, <1>7 DEF IInv
-----------------------------------------------------------------------------
(* The person's edits. *)

(* An edit of the person is found by the next sync. *)
LEMMA EditKeeps ==
  ASSUME IInv, PersonKeeps, Event,
         file' \in DocumentType, typed' \in Texty, brought' \subseteq Ids,
         brought \subseteq brought', seen' = seen, told' = told, heard' = heard,
         \A s \in Ids : Lasting.known[s] = Nothing /\ s \in Present(file') =>
           \/ s \in Present(file) /\ file'[s].text = file[s].text
           \/ s \in brought'
  PROVE  IInv'
<1>1. TypeOK /\ Alone /\ Remembering(Lasting) /\ FirstTextKept(mem)
  BY DEF IInv
<1>2. mem' = mem /\ heir' = heir /\ carried' = carried /\ base' = base
      /\ running' = running /\ writer' = writer /\ section' = section
  BY DEF PersonKeeps, agents
<1>3. events' \in 0..MaxEvents
  BY <1>1, EventCounts
<1>4. TypeOK' /\ Alone'
  BY <1>1, <1>2, <1>3 DEF TypeOK, Alone, Texty
<1> DEFINE m == Lasting
<1>5. Remembering(m) /\ m' = m
  BY <1>1, <1>2 DEF Lasting
<1>6. \A s \in Ids : m.known[s] = Nothing /\ s \in Present(file') =>
        \/ s \in Present(file) /\ file'[s].text = file[s].text
        \/ s \in brought'
  OBVIOUS
<1> HIDE DEF m
<1>7. Remembers(m)'
  BY <1>5, <1>6 DEF Remembering, Remembers
<1>8. FirstTextKept(m)' /\ Tells(m)' /\ Reserves(m)'
  BY <1>5 DEF Remembering, FirstTextKept, Tells, Reserves, Reserved
<1>9. FirstTextKept(mem)'
  BY <1>1, <1>2 DEF FirstTextKept, Reserved
<1>10. Remembering(m)'
  BY <1>7, <1>8 DEF Remembering
<1> QED
  BY <1>4, <1>9, <1>10 DEF IInv, m

Rewritten(doc, s, t) == [doc EXCEPT ![s].text = t]

(* The person's text replaces that of one section. *)
LEMMA RewrittenKeeps ==
  ASSUME NEW doc \in DocumentType, NEW s \in Present(doc), NEW t \in AnyText,
         NEW new, new = Rewritten(doc, s, t)
  PROVE  /\ new \in DocumentType
         /\ Present(new) = Present(doc)
         /\ \A x \in Ids : x # s => new[x] = doc[x]
<1> DEFINE sec == doc[s]
           r == [sec EXCEPT !.text = t]
<1>1. s \in Ids /\ sec \in SectionType /\ WellKept(sec) /\ sec.text # Nothing
  BY DocumentFacts DEF Present
<1>2. t # Nothing /\ t \in AnyText \cup {Nothing}
  BY DocumentAssumption DEF AnyText
<1>3. r = [text |-> t, status |-> sec.status, owner |-> sec.owner]
  BY <1>1 DEF SectionType
<1>4. new = [doc EXCEPT ![s] = r]
  BY DEF Rewritten
<1> HIDE DEF r
<1>5. r \in SectionType /\ WellKept(r) /\ r.status # "gone" /\ sec.status # "gone"
  BY <1>1, <1>2, <1>3 DEF SectionType, WellKept
<1>6. doc \in [Ids -> SectionType] /\ \A x \in Ids : WellKept(doc[x])
  BY DEF DocumentType
<1>7. new \in [Ids -> SectionType] /\ new[s] = r /\ \A x \in Ids : x # s => new[x] = doc[x]
  BY <1>1, <1>4, <1>5, <1>6
<1>8. new \in DocumentType
  BY <1>5, <1>6, <1>7 DEF DocumentType
<1>9. Present(new) = Present(doc)
  BY <1>5, <1>7 DEF Present
<1> QED
  BY <1>7, <1>8, <1>9

(* The person writes. *)
LEMMA PersonWritesKeeps ==
  ASSUME IInv, NEW s \in Ids, NEW t \in AnyText, PersonWrites(s, t)
  PROVE  IInv'
<1>1. /\ file \in DocumentType /\ typed \in Texty /\ brought \subseteq Ids
      /\ s \in Present(file)
  BY DEF IInv, TypeOK, Texty, PersonWrites
<1>2. /\ file' = Rewritten(file, s, t)
      /\ brought' = IF Lasting.known[s] = Nothing THEN brought \cup {s} ELSE brought
      /\ typed' = typed /\ seen' = seen /\ told' = told /\ heard' = heard
      /\ Event /\ PersonKeeps
  BY DEF PersonWrites, Rewritten
<1>3. /\ file' \in DocumentType /\ Present(file') = Present(file)
      /\ \A x \in Ids : x # s => file'[x] = file[x]
  BY <1>1, <1>2, RewrittenKeeps
<1>4. brought' \subseteq Ids /\ brought \subseteq brought'
  BY <1>1, <1>2
<1>5. \A x \in Ids : Lasting.known[x] = Nothing /\ x \in Present(file') =>
        \/ x \in Present(file) /\ file'[x].text = file[x].text
        \/ x \in brought'
  BY <1>2, <1>3
<1> QED
  BY <1>1, <1>2, <1>3, <1>4, <1>5, EditKeeps

(* The person cuts a section. *)
LEMMA PersonCutsKeeps ==
  ASSUME IInv, NEW s \in Ids, PersonCuts(s)
  PROVE  IInv'
<1>1. /\ file \in DocumentType /\ typed \in Texty /\ brought \subseteq Ids
  BY DEF IInv, TypeOK, Texty
<1>2. /\ file' = [file EXCEPT ![s] = Gone]
      /\ typed' = typed /\ seen' = seen /\ told' = told /\ heard' = heard
      /\ brought' = brought /\ Event /\ PersonKeeps
  BY DEF PersonCuts, history
<1>3. file' \in DocumentType /\ file'[s] = Gone /\ \A x \in Ids : x # s => file'[x] = file[x]
  BY <1>1, <1>2, GoneIsKept DEF DocumentType
<1>4. \A x \in Ids : x \in Present(file') => x \in Present(file) /\ file'[x].text = file[x].text
  BY <1>3, GoneIsKept DEF Present
<1> QED
  BY <1>1, <1>2, <1>3, <1>4, EditKeeps

(* The person puts a section back. *)
LEMMA PersonPutsBackKeeps ==
  ASSUME IInv, NEW s \in Ids, PersonPutsBack(s)
  PROVE  IInv'
<1>1. /\ file \in DocumentType /\ base \in DocumentType /\ typed \in Texty /\ brought \subseteq Ids
  BY DEF IInv, TypeOK, Texty
<1>2. /\ file' = [file EXCEPT ![s] = base[s]]
      /\ typed' = typed /\ seen' = seen /\ told' = told /\ heard' = heard
      /\ brought' = brought \cup {s} /\ Event /\ PersonKeeps
  BY DEF PersonPutsBack
<1>3. file' \in DocumentType /\ \A x \in Ids : x # s => file'[x] = file[x]
  BY <1>1, <1>2 DEF DocumentType
<1>4. \A x \in Ids : x \in Present(file') =>
        \/ x \in Present(file) /\ file'[x].text = file[x].text
        \/ x \in brought'
  BY <1>2, <1>3 DEF Present
<1>5. brought' \subseteq Ids /\ brought \subseteq brought'
  BY <1>1, <1>2
<1> QED
  BY <1>1, <1>2, <1>3, <1>4, <1>5, EditKeeps

(* The person adds a text of their own. *)
LEMMA PersonAddsKeeps ==
  ASSUME IInv, NEW t \in AnyText, PersonAdds(t)
  PROVE  IInv'
<1>1. /\ file \in DocumentType /\ brought \subseteq Ids
  BY DEF IInv, TypeOK
<1>2. /\ file' = file /\ typed' = t /\ seen' = seen /\ told' = told /\ heard' = heard
      /\ brought' = brought /\ Event /\ PersonKeeps
  BY DEF PersonAdds, history
<1> QED
  BY <1>1, <1>2, EditKeeps DEF Texty

-----------------------------------------------------------------------------
(* A save from the app. *)

(* What the app's editor holds is a document. *)
LEMMA DraftsAreDocuments ==
  ASSUME TypeOK, NEW mine \in Drafts
  PROVE  mine \in DocumentType
<1>1. base \in DocumentType
  BY DEF TypeOK
<1>2. CASE mine = base
  BY <1>1, <1>2
<1>3. CASE \E s \in Present(base), t \in AnyText : mine = Rewritten(base, s, t)
  <2>1. PICK s \in Present(base), t \in AnyText : mine = Rewritten(base, s, t)
    BY <1>3
  <2> QED
    BY <1>1, <2>1, RewrittenKeeps
<1>4. CASE \E s \in Present(base) : mine = [base EXCEPT ![s] = Gone]
  BY <1>1, <1>4, GoneIsKept DEF DocumentType, Present
<1> QED
  BY <1>2, <1>3, <1>4 DEF Drafts, Rewritten

(* A merge keeps the text of every section the person did not touch. *)
LEMMA MergedKeeps ==
  ASSUME TypeOK, NEW mine \in DocumentType, NEW theirs \in DocumentType
  PROVE  LET new == Merged(mine, theirs)
         IN  /\ new \in DocumentType
             /\ \A s \in Present(theirs) \cap Present(new) :
                  new[s].text = theirs[s].text \/ new[s].status = "human"
             /\ \A s \in Present(theirs) : ~Touched(mine, s) => new[s].text = theirs[s].text
<1> DEFINE new == Merged(mine, theirs)
<1>1. base \in DocumentType
  BY DEF TypeOK
<1>2. ASSUME NEW s \in Ids
      PROVE  /\ new[s] \in SectionType /\ WellKept(new[s])
             /\ (s \in Present(theirs) /\ new[s].status # "gone") =>
                  new[s].text = theirs[s].text \/ new[s].status = "human"
             /\ (s \in Present(theirs) /\ ~Touched(mine, s)) => new[s].text = theirs[s].text
  <2>1. /\ mine[s] \in SectionType /\ WellKept(mine[s]) /\ mine[s].text \in Texty
        /\ theirs[s] \in SectionType /\ WellKept(theirs[s])
        /\ WellKept(base[s])
    BY <1>1, DocumentFacts
  <2>2. CASE base[s].status = "gone"
    BY <2>1, <2>2 DEF Merged
  <2>3. CASE base[s].status # "gone" /\ (theirs[s].status = "gone" \/ mine[s].status = "gone")
    <3>1. new[s] = mine[s]
      BY <2>3 DEF Merged
    <3>2. s \in Present(theirs) => mine[s].status = "gone"
      BY <2>3 DEF Present
    <3>3. mine[s].status = "gone" => Touched(mine, s)
      BY <2>1, <2>3 DEF WellKept, Touched
    <3> QED
      BY <2>1, <3>1, <3>2, <3>3
  <2>4. CASE /\ base[s].status # "gone" /\ theirs[s].status # "gone" /\ mine[s].status # "gone"
             /\ Touched(mine, s)
    <3>1. new[s] = Section(mine[s].text, "human", Nobody)
      BY <2>4 DEF Merged
    <3>2. "human" \in Statuses /\ Nobody \in {Nobody} \cup Agents
      BY DEF Statuses
    <3>3. new[s] \in SectionType /\ new[s].text = mine[s].text /\ new[s].status = "human"
          /\ new[s].owner = Nobody
      BY <2>1, <3>1, <3>2, SectionIsTyped
    <3>4. WellKept(new[s])
      BY <2>1, <2>4, <3>3 DEF WellKept
    <3> QED
      BY <2>4, <3>3, <3>4
  <2>5. CASE /\ base[s].status # "gone" /\ theirs[s].status # "gone" /\ mine[s].status # "gone"
             /\ ~Touched(mine, s)
    <3>1. new[s] = theirs[s]
      BY <2>5 DEF Merged
    <3> QED
      BY <2>1, <3>1
  <2> QED
    BY <2>2, <2>3, <2>4, <2>5
<1>3. new \in [Ids -> SectionType]
  BY <1>2 DEF Merged
<1> HIDE DEF new
<1>4. new \in DocumentType
  BY <1>2, <1>3 DEF DocumentType
<1>5. \A s \in Ids : s \in Present(new) => new[s].status # "gone"
  BY DEF Present
<1>6. Present(theirs) \subseteq Ids
  BY DEF Present
<1> QED
  BY <1>2, <1>4, <1>5, <1>6 DEF new

Remarked(m, u, p) == [m EXCEPT !.unread = u, !.pending = p]

(* A memory with other marks. *)
LEMMA WithMarks ==
  ASSUME NEW m \in MemoryType, NEW u \in SUBSET Ids, NEW p \in SUBSET Ids,
         NEW v, v = Remarked(m, u, p)
  PROVE  v \in MemoryType /\ v.unread = u /\ v.pending = p
<1> DEFINE q == [m EXCEPT !.unread = u]
<1>1. q = [known |-> m.known, unread |-> u, pending |-> m.pending, next |-> m.next,
           claimed |-> m.claimed]
  BY DEF MemoryType
<1>2. v = [q EXCEPT !.pending = p]
  BY DEF Remarked
<1> HIDE DEF q
<1>3. v = [known |-> m.known, unread |-> u, pending |-> p, next |-> m.next,
           claimed |-> m.claimed]
  BY <1>1, <1>2
<1> QED
  BY <1>3 DEF MemoryType

(* What a save commits. *)
Saved(mine) ==
  LET w == Synced
      new == Merged(mine, w.doc)
  IN  /\ IdsLeft
      /\ file' = new /\ typed' = Nothing
      /\ new \in DocumentType /\ mem' \in MemoryType
      /\ mem'.unread = (w.mem.unread \cup SavedEdits(w.doc, new)) \ (Present(w.doc) \ Present(new))
      /\ mem'.pending = w.mem.pending \cup {s \in Ids : w.doc[s].text # new[s].text}
      /\ \A s \in Ids : mem'.known[s] = new[s].text
      /\ \A s \in Ids : Reserved(mem, s) => s < mem'.next
      /\ brought' = brought \cup Strangers(new, w.doc) \cup NamedNow

(* A save writes the merge and the memory of it. *)
LEMMA SaveCommits ==
  ASSUME IInv, NEW mine \in Drafts, SaveFromApp(mine)
  PROVE  Saved(mine)
<1> DEFINE w == Synced
           new == Merged(mine, w.doc)
           u == (w.mem.unread \cup SavedEdits(w.doc, new)) \ (Present(w.doc) \ Present(new))
           p == w.mem.pending \cup {s \in Ids : w.doc[s].text # new[s].text}
           v == Remarked(w.mem, u, p)
<1>1. /\ TypeOK /\ IdsLeft /\ Commit([doc |-> new, mem |-> v])
      /\ brought' = brought \cup Strangers(new, w.doc) \cup NamedNow
  BY DEF SaveFromApp, IInv, Remarked
<1>2. w.doc \in DocumentType /\ w.mem \in MemoryType
  BY <1>1, SyncedTypes
<1>3. new \in DocumentType
  BY <1>1, <1>2, DraftsAreDocuments, MergedKeeps
<1>4. u \in SUBSET Ids /\ p \in SUBSET Ids
  BY <1>2, MemoryFacts DEF SavedEdits, Present
<1> HIDE DEF u, p
<1>5. v \in MemoryType /\ v.unread = u /\ v.pending = p
  BY <1>2, <1>4, WithMarks
<1> HIDE DEF v, new
<1>6. /\ mem' \in MemoryType /\ mem'.unread = u /\ mem'.pending = p
      /\ \A s \in Ids : mem'.known[s] = new[s].text
      /\ \A s \in Ids : Reserved(mem, s) => s < mem'.next
  BY <1>1, <1>3, <1>5, CommitTypes
<1>7. file' = new /\ typed' = Nothing
  BY <1>1 DEF Commit
<1> QED
  BY <1>1, <1>3, <1>6, <1>7 DEF Saved, u, p, new

(* A text the merge changed is an edit of the person. *)
LEMMA MergedFacts ==
  ASSUME IInv, IdsLeft, NEW mine \in Drafts, NEW s \in Ids
  PROVE  LET new == Merged(mine, Synced.doc)
         IN  /\ s \in Present(new) <=> new[s].text # Nothing
             /\ s \in Present(Synced.doc) <=> Synced.doc[s].text # Nothing
             /\ (s \in Present(Synced.doc) /\ s \in Present(new)
                   /\ new[s].text # Synced.doc[s].text) => s \in SavedEdits(Synced.doc, new)
<1> DEFINE new == Merged(mine, Synced.doc)
<1>1. Synced.doc \in DocumentType /\ mine \in DocumentType
  BY SyncedTypes, DraftsAreDocuments DEF IInv
<1>2. /\ new \in DocumentType
      /\ \A x \in Present(Synced.doc) \cap Present(new) :
           new[x].text = Synced.doc[x].text \/ new[x].status = "human"
  BY <1>1, MergedKeeps DEF IInv
<1> HIDE DEF new
<1>3. /\ s \in Present(new) <=> new[s].text # Nothing
      /\ s \in Present(Synced.doc) <=> Synced.doc[s].text # Nothing
  BY <1>1, <1>2, DocumentFacts
<1>4. (s \in Present(Synced.doc) /\ s \in Present(new) /\ new[s].text # Synced.doc[s].text)
        => s \in SavedEdits(Synced.doc, new)
  BY <1>2 DEF SavedEdits
<1> QED
  BY <1>3, <1>4 DEF new

(* After a save what agents have not read is still marked. *)
LEMMA SaveRemembers ==
  ASSUME IInv, ~carried, NEW mine \in Drafts, Saved(mine), seen' = seen
  PROVE  Remembers(mem)'
<1> DEFINE doc == Synced.doc
           new == Merged(mine, doc)
<1>1. TypeOK /\ IdsLeft /\ Remembering(mem)
  BY DEF IInv, Saved, Lasting
<1>2. Synced.mem.unread \subseteq Present(doc)
  BY <1>1, UnreadIsThere DEF Remembering, Remembers
<1> SUFFICES ASSUME NEW s \in Ids
             PROVE  /\ mem'.known[s] # Nothing =>
                         mem'.known[s] \in seen'[s] \/ s \in mem'.unread \/ s \in brought'
                    /\ (mem'.known[s] = Nothing /\ s \in Present(file')) =>
                         file'[s].text \in seen'[s] \/ s \in brought'
                    /\ s \in mem'.unread => mem'.known[s] # Nothing
  BY DEF Remembers
<1>3. /\ s \in Present(new) <=> new[s].text # Nothing
      /\ s \in Present(doc) <=> doc[s].text # Nothing
      /\ (s \in Present(doc) /\ s \in Present(new) /\ new[s].text # doc[s].text)
           => s \in SavedEdits(doc, new)
  BY <1>1, MergedFacts
<1> HIDE DEF new
<1>4. /\ file' = new /\ mem'.known[s] = new[s].text
      /\ mem'.unread = (Synced.mem.unread \cup SavedEdits(doc, new)) \ (Present(doc) \ Present(new))
      /\ brought' = brought \cup Strangers(new, doc) \cup NamedNow
  BY DEF Saved, new
<1>5. s \in mem'.unread => s \in Present(new)
  BY <1>2, <1>4 DEF SavedEdits
<1>6. ASSUME s \in Present(new)
      PROVE  new[s].text \in seen[s] \/ s \in mem'.unread \/ s \in brought'
  <2>1. CASE s \notin Present(doc)
    BY <1>4, <1>6, <2>1 DEF Strangers
  <2>2. CASE s \in Present(doc) /\ new[s].text # doc[s].text
    BY <1>3, <1>4, <1>6, <2>2
  <2>3. CASE s \in Present(doc) /\ new[s].text = doc[s].text
    <3>1. doc[s].text \in seen[s] \/ s \in Synced.mem.unread \/ s \in brought \cup NamedNow
      BY <1>1, <1>3, <2>3, SyncShows
    <3> QED
      BY <1>4, <1>6, <2>3, <3>1
  <2> QED
    BY <2>1, <2>2, <2>3
<1> QED
  BY <1>3, <1>4, <1>5, <1>6

(* After a save what the model was not told is still to be told. *)
LEMMA SaveTells ==
  ASSUME IInv, ~carried, NEW mine \in Drafts, Saved(mine), told' = told
  PROVE  Tells(mem)'
<1> DEFINE new == Merged(mine, Synced.doc)
<1>1. TypeOK /\ IdsLeft /\ Tells(mem)
  BY DEF IInv, Saved, Lasting, Remembering
<1> SUFFICES ASSUME NEW s \in Ids, mem'.known[s] # told'[s]
             PROVE  s \in mem'.pending
  BY DEF Tells
<1>2. /\ mem'.known[s] = new[s].text
      /\ mem'.pending = Synced.mem.pending \cup {x \in Ids : Synced.doc[x].text # new[x].text}
  BY DEF Saved
<1> HIDE DEF new
<1>3. FollowsFile(s) /\ mem.pending \subseteq Synced.mem.pending
  BY <1>1, SyncFollows DEF Synchronised
<1>4. CASE Synced.doc[s].text # new[s].text
  BY <1>2, <1>4
<1>5. CASE Synced.doc[s].text = new[s].text
  <2>1. Synced.doc[s].text # mem.known[s] \/ mem.known[s] # told[s]
    BY <1>2, <1>5
  <2> QED
    BY <1>1, <1>2, <1>3, <2>1 DEF FollowsFile, Tells
<1> QED
  BY <1>4, <1>5

(* After the handoff's copy is made the save is remembered by the session that *)
(* ends, and the one that goes on reads what it left as the person's.          *)
LEMMA SaveAfterCarry ==
  ASSUME IInv, carried, carried' = carried, heir' = heir, seen' = seen,
         NEW mine \in Drafts, Saved(mine)
  PROVE  Remembers(Lasting)'
<1> DEFINE doc == Synced.doc
           new == Merged(mine, doc)
<1>1. TypeOK /\ IdsLeft /\ Remembers(heir) /\ FirstTextKept(mem)
  BY DEF IInv, Saved, Lasting, Remembering
<1>2. Lasting = heir /\ Lasting' = heir
  BY DEF Lasting
<1> SUFFICES ASSUME NEW s \in Ids
             PROVE  (heir.known[s] = Nothing /\ s \in Present(file')) =>
                      file'[s].text \in seen[s] \/ s \in brought'
  <2>1. ASSUME NEW m, m = heir, m' = heir
        PROVE  Remembers(m)'
    BY <1>1, <2>1 DEF Remembers, Saved
  <2> QED
    BY <1>2, <2>1
<1>3. /\ s \in Present(doc) <=> doc[s].text # Nothing
      /\ s \in Present(file) <=> file[s].text # Nothing
  BY <1>1, MergedFacts, DocumentFacts DEF TypeOK
<1> HIDE DEF new
<1>4. file' = new /\ brought' = brought \cup Strangers(new, doc) \cup NamedNow
  BY DEF Saved, new
<1> SUFFICES ASSUME heir.known[s] = Nothing, s \in Present(new), s \notin Strangers(new, doc)
             PROVE  new[s].text \in seen[s] \/ s \in brought'
  BY <1>4
<1>5. s \in Present(doc) /\ new[s].text = doc[s].text
  BY <1>2 DEF Strangers
<1>6. FollowsFile(s)
  BY <1>1, SyncFollows
<1>7. CASE s \in Present(file)
  BY <1>1, <1>4, <1>5, <1>6, <1>7 DEF FollowsFile, Remembers
<1>8. CASE s \notin Present(file)
  <2>1. /\ typed # Nothing /\ s = NextNumber(file, mem)
        /\ doc[s].text = typed /\ mem.known[s] = Nothing
    BY <1>3, <1>5, <1>6, <1>8 DEF FollowsFile
  <2>2. CASE typed \in Texts
    BY <1>4, <2>1, <2>2 DEF NamedNow
  <2>3. CASE typed = Empty
    <3>1. mem \in MemoryType /\ file \in DocumentType
      BY <1>1 DEF TypeOK
    <3>2. NextNumber(file, mem) >= mem.next /\ mem.next \in Nat /\ NextNumber(file, mem) \in Nat
      BY <3>1, NextIsFree, MemoryFacts
    <3>3. ~Reserved(mem, s)
      BY <2>1, <3>2 DEF Reserved
    <3> QED
      BY <1>1, <1>5, <2>1, <2>3, <3>3 DEF FirstTextKept
  <2> QED
    BY <1>1, <2>1, <2>2, <2>3 DEF TypeOK, AnyText
<1> QED
  BY <1>7, <1>8

(* The person saves from the app. *)
LEMMA SaveKeeps ==
  ASSUME IInv, NEW mine \in Drafts, SaveFromApp(mine)
  PROVE  IInv'
<1>1. TypeOK /\ Alone /\ Remembering(Lasting) /\ FirstTextKept(mem)
  BY DEF IInv
<1>2. Saved(mine) /\ Event
  BY SaveCommits DEF SaveFromApp
<1>3. /\ heir' = heir /\ carried' = carried /\ seen' = seen /\ told' = told /\ heard' = heard
      /\ running' = running /\ writer' = writer /\ section' = section /\ base' = Shut
  BY DEF SaveFromApp, agents
<1>4. /\ file' \in DocumentType /\ typed' = Nothing /\ mem' \in MemoryType
      /\ \A s \in Ids : Reserved(mem, s) => s < mem'.next
      /\ brought' \subseteq Ids
  <2>1. brought \subseteq Ids
    BY <1>1 DEF TypeOK
  <2> QED
    BY <1>2, <2>1 DEF Saved, Strangers, NamedNow, Present
<1>5. TypeOK' /\ Alone'
  <2>1. events' \in 0..MaxEvents /\ base' \in DocumentType
    BY <1>1, <1>2, <1>3, EventCounts, EmptyMemory
  <2> QED
    BY <1>1, <1>3, <1>4, <2>1 DEF TypeOK, Alone
<1>6. FirstTextKept(mem)'
  BY <1>1, <1>3, <1>4 DEF FirstTextKept, Reserved
<1>7. CASE ~carried
  <2>1. Lasting' = mem' /\ Remembering(mem)
    BY <1>1, <1>3, <1>7 DEF Lasting
  <2>2. Remembers(mem)' /\ Tells(mem)'
    BY <1>2, <1>3, <1>7, SaveRemembers, SaveTells
  <2>3. Reserves(mem)'
    BY <1>1, <1>3, <1>4, <2>1 DEF TypeOK, Remembering, Reserves, Reserved
  <2>4. Remembering(mem)'
    BY <1>6, <2>2, <2>3 DEF Remembering
  <2> QED
    BY <1>5, <1>6, <2>1, <2>4 DEF IInv
<1>8. CASE carried
  <2>1. Lasting = heir /\ Lasting' = heir' /\ Remembering(heir)
    BY <1>1, <1>3, <1>8 DEF Lasting
  <2>2. Remembers(Lasting)'
    BY <1>2, <1>3, <1>8, SaveAfterCarry
  <2>3. FirstTextKept(heir)' /\ Tells(heir)' /\ Reserves(heir)'
    BY <1>3, <2>1 DEF Remembering, FirstTextKept, Tells, Reserves, Reserved
  <2>4. Remembering(Lasting)'
    BY <2>1, <2>2, <2>3 DEF Remembering
  <2> QED
    BY <1>5, <1>6, <2>4 DEF IInv
<1> QED
  BY <1>7, <1>8
-----------------------------------------------------------------------------
(* The invariant holds. *)

(* The invariant holds of a new session. *)
LEMMA InitKeeps ==
  ASSUME Init
  PROVE  IInv
<1>1. /\ file = Created /\ typed = Nothing /\ mem = Memory(Created) /\ heir = Memory(Shut)
      /\ carried = FALSE /\ running = TRUE /\ base = Shut /\ brought = {} /\ events = 0
      /\ writer = [a \in Subs |-> "off"] /\ section = [a \in Subs |-> 0]
      /\ seen = [s \in Ids |-> {Empty}] /\ told = TextsOf(Created) /\ heard = Present(Created)
  BY DEF Init
<1>2. \A s \in Ids : Created[s] = Placeholder(Empty) \/ Created[s] = Gone
  BY DEF Created
<1>3. Created \in DocumentType
      /\ \A s \in Ids : Created[s].text = Nothing \/ Created[s].text = Empty
  <2>1. Gone \in SectionType /\ WellKept(Gone) /\ Gone.text = Nothing
    BY GoneIsKept
  <2>2. Empty \in AnyText
    BY DEF AnyText
  <2> QED
    BY <1>2, <2>1, <2>2, PlaceholderIsKept DEF Created, DocumentType
<1>4. Memory(Created) \in MemoryType /\ Memory(Shut) \in MemoryType /\ Shut \in DocumentType
      /\ TextsOf(Created) \in [Ids -> AnyText \cup {Nothing}]
  <2>1. TextsOf(Created) \in [Ids -> AnyText \cup {Nothing}]
    BY <1>3, DocumentFacts DEF TextsOf, Texty
  <2>2. 1 \in 1..MaxSections + 1
    BY DocumentAssumption
  <2> QED
    BY <2>1, <2>2, EmptyMemory DEF Memory, MemoryType
<1>5. TypeOK
  <2>1. 0 \in 0..MaxEvents
    BY DocumentAssumption
  <2>2. seen \in [Ids -> SUBSET (AnyText \cup {Nothing})]
    BY <1>1 DEF AnyText
  <2>3. heard \subseteq Ids
    BY <1>1 DEF Present
  <2> QED
    BY <1>1, <1>3, <1>4, <2>1, <2>2, <2>3 DEF TypeOK
<1>6. /\ \A s \in Ids : mem.known[s] = Created[s].text /\ told[s] = Created[s].text
      /\ mem.unread = {} /\ Lasting = mem
  BY <1>1 DEF Memory, TextsOf, Lasting
<1>7. \A s \in Ids : Empty \in seen[s]
  BY <1>1
<1>8. Remembers(mem)
  BY <1>1, <1>3, <1>6, <1>7, DocumentFacts DEF Remembers
<1>9. FirstTextKept(mem) /\ Tells(mem)
  BY <1>6, <1>7 DEF FirstTextKept, Tells
<1>10. Reserves(mem)
  BY <1>1, <1>3, <1>6, DocumentFacts DEF Reserves, Reserved, Present
<1> QED
  BY <1>1, <1>5, <1>6, <1>8, <1>9, <1>10 DEF IInv, Alone, Remembering

(* Every step keeps the invariant. *)
LEMMA NextKeeps ==
  ASSUME IInv, [Next]_vars
  PROVE  IInv'
<1>1. CASE AgentStep
  BY <1>1, DocWriteKeeps, DocReadKeeps, OutlineKeeps, DocAddKeeps, NoteRoundKeeps
     DEF AgentStep, AgentWrites
<1>2. CASE CallStep
  BY <1>2, ClaimKeeps, OthersKeep, JoinKeeps DEF CallStep
<1>3. CASE RunStep
  BY <1>3, RunStartsKeeps, OthersKeep DEF RunStep
<1>4. CASE PersonStep
  BY <1>4, PersonWritesKeeps, PersonCutsKeeps, PersonPutsBackKeeps, PersonAddsKeeps,
     OthersKeep, SaveKeeps DEF PersonStep
<1>5. CASE Crash
  BY <1>5, CrashKeeps
<1>6. CASE UNCHANGED vars
  BY <1>6, OthersKeep
<1> QED
  BY <1>1, <1>2, <1>3, <1>4, <1>5, <1>6 DEF Next

(* The invariant holds in every reachable state. *)
LEMMA Invariant ==
  Spec => []IInv
<1>1. Init => IInv
  BY InitKeeps
<1>2. IInv /\ [Next]_vars => IInv'
  BY NextKeeps
<1> QED
  BY <1>1, <1>2, PTL DEF Spec
-----------------------------------------------------------------------------
(* The theorems. *)

(* Every variable keeps its type, and no section is half kept: what an agent   *)
(* writes or wrote has an author, what a person changed has none.              *)
THEOREM TypeCorrect ==
  Spec => []TypeOK
BY Invariant, PTL DEF IInv

(* A change a person made reaches the model: it is pending in the memory that  *)
(* goes on, or the next read of the file finds it (sync, note_round).          *)
THEOREM ChangesAreTold ==
  Spec => []NoChangeUntold
<1>1. IInv => NoChangeUntold
  BY DEF IInv, Remembering, Tells, NoChangeUntold
<1> QED
  BY <1>1, Invariant, PTL

(* The id next_id gives is none the model has been given, whatever was cut     *)
(* from the file, handed off or lost in a crash since.                         *)
THEOREM NumbersKept ==
  Spec => []NumbersMeanOneTopic
<1>1. IInv => NumbersMeanOneTopic
  <2> SUFFICES ASSUME IInv, NEW s \in heard
               PROVE  s < NextNumber(file, Lasting)
    BY DEF NumbersMeanOneTopic
  <2>1. TypeOK /\ Reserved(Lasting, s)
    BY DEF IInv, Remembering, Reserves
  <2>2. Lasting \in MemoryType /\ file \in DocumentType /\ s \in Ids
    BY <2>1, LastingIsTyped DEF TypeOK
  <2> DEFINE n == NextNumber(file, Lasting)
  <2>3. /\ Lasting.next \in Nat /\ n \in Nat /\ n >= Lasting.next
        /\ \A x \in Ids : Lasting.known[x] # Nothing => x < n
    BY <2>2, NextIsFree, MemoryFacts
  <2> HIDE DEF n
  <2>4. s \in Nat
    BY <2>2 DEF Ids
  <2>5. s < n
    BY <2>1, <2>2, <2>3, <2>4 DEF Reserved
  <2> QED
    BY <2>5 DEF n
<1> QED
  BY <1>1, Invariant, PTL

(* What an agent writes over was seen, or the memory took it for new. *)
LEMMA OnlySeenIsReplaced ==
  ASSUME IInv, ~carried, IdsLeft, NEW s \in Present(file), s \notin Synced.mem.unread
  PROVE  file[s].text \in seen[s] \/ s \in brought
<1>1. TypeOK /\ Remembers(mem) /\ s \in Ids
  BY DEF IInv, Lasting, Remembering, Present
<1>2. FollowsFile(s) /\ Synchronised
  BY <1>1, SyncFollows
<1>3. s \notin mem.unread
  BY <1>2 DEF Synchronised
<1>4. mem.known[s] = Nothing \/ mem.known[s] = file[s].text
  BY <1>2 DEF FollowsFile
<1> QED
  BY <1>1, <1>3, <1>4 DEF Remembers

(* A section whose text an agent's write changes was read, in a run, with the ids it needs. *)
LEMMA WriteLeavesTheRest ==
  ASSUME IInv, NEW who \in Agents, NEW x \in Ids, NEW body \in AnyText,
         NEW status \in {"doing", "done"}, DocWrite(who, x, body, status),
         NEW s \in Present(file), file'[s].text # file[s].text
  PROVE  s \notin Synced.mem.unread /\ ~carried /\ IdsLeft
<1> DEFINE w == Synced
           new == Written(w.doc, who, x, body, status)
<1>1. ~carried /\ TypeOK /\ IdsLeft /\ s \in Ids
  BY ActingIsHere DEF DocWrite, IInv, AgentCall, Torn, Present
<1>2. Synced.doc[s].text = file[s].text
  BY <1>1, SyncFollows DEF FollowsFile
<1>3. \/ file' = w.doc
      \/ /\ x \notin w.mem.unread /\ ~Refuses(w.doc, who, x, body, status)
         /\ file' = new
  <2>1. CASE /\ x \in w.mem.unread
             /\ AgentCall([w EXCEPT !.mem.unread = @ \ {x}], {x}, {})
    <3>1. [w EXCEPT !.mem.unread = @ \ {x}].doc = w.doc
      BY <1>1, SyncedTypes, WithUnread
    <3> QED
      BY <2>1, <3>1 DEF AgentCall, Commit
  <2>2. CASE AgentCall(w, {}, {})
    BY <2>2 DEF AgentCall, Commit
  <2>3. CASE /\ x \notin w.mem.unread
             /\ ~Refuses(w.doc, who, x, body, status)
             /\ \/ AgentCall([w EXCEPT !.doc = new], IF body = Empty THEN {} ELSE {x},
                             IF body = Empty THEN {} ELSE {x})
                \/ Torn(new)
    <3>1. [w EXCEPT !.doc = new].doc = new
      BY WithDoc
    <3> HIDE DEF new
    <3>2. file' = new
      BY <2>3, <3>1 DEF AgentCall, Commit, Torn
    <3> QED
      BY <2>3, <3>2
  <2> QED
    BY <2>1, <2>2, <2>3 DEF DocWrite
<1>4. CASE file' = w.doc
  BY <1>2, <1>4
<1>5. CASE /\ x \notin w.mem.unread /\ ~Refuses(w.doc, who, x, body, status)
           /\ file' = new
  <2>1. w.doc \in DocumentType /\ x \in Present(w.doc)
    BY <1>1, <1>5, SyncedTypes DEF Refuses
  <2>2. \A y \in Ids : y # x => new[y] = w.doc[y]
    BY <2>1, WrittenKeeps
  <2> HIDE DEF new
  <2> QED
    BY <1>1, <1>2, <1>5, <2>2
<1> QED
  BY <1>3, <1>4, <1>5

(* "The human wins": doc_write replaces only a text an agent wrote or was      *)
(* shown, through every save, handoff and crash; a section brought in whole    *)
(* is the exception.                                                           *)
THEOREM HumanIsKept ==
  Spec => HumanWins
<1>1. IInv /\ [Next]_vars =>
        [\A s \in Present(file) : file'[s].text # file[s].text =>
           file[s].text \in seen[s] \/ s \in brought \/ ~AgentWrites]_vars
  <2> SUFFICES ASSUME IInv, NEW s \in Present(file), file'[s].text # file[s].text, AgentWrites
               PROVE  file[s].text \in seen[s] \/ s \in brought
    OBVIOUS
  <2>1. PICK who \in Agents, x \in Ids, body \in AnyText, status \in {"doing", "done"} :
          DocWrite(who, x, body, status)
    BY DEF AgentWrites
  <2> QED
    BY <2>1, WriteLeavesTheRest, OnlySeenIsReplaced
<1> QED
  BY <1>1, Invariant, PTL DEF Spec, HumanWins

(* A save from the app (merge_human_save) changes the text of no section the   *)
(* person did not touch, whatever agents wrote since it was loaded.            *)
THEOREM SaveChangesItsOwn ==
  Spec => SaveKeepsTheRest
<1>1. IInv /\ [Next]_vars =>
        [\A s \in Present(file) : file'[s].text # file[s].text =>
           \A mine \in Drafts : SaveFromApp(mine) => Touched(mine, s)]_vars
  <2> SUFFICES ASSUME IInv, NEW s \in Present(file), NEW mine \in Drafts,
                      SaveFromApp(mine), ~Touched(mine, s)
               PROVE  file'[s].text = file[s].text
    OBVIOUS
  <2>1. TypeOK /\ IdsLeft /\ s \in Ids /\ file' = Merged(mine, Synced.doc)
    BY SaveCommits DEF IInv, Saved, Present
  <2>2. Synced.doc[s].text = file[s].text
    BY <2>1, SyncFollows DEF FollowsFile
  <2>3. Synced.doc \in DocumentType /\ file[s].text # Nothing
    BY <2>1, SyncedTypes, DocumentFacts DEF TypeOK
  <2>4. s \in Present(Synced.doc)
    BY <2>1, <2>2, <2>3, DocumentFacts
  <2>5. mine \in DocumentType
    BY <2>1, DraftsAreDocuments
  <2>6. Merged(mine, Synced.doc)[s].text = Synced.doc[s].text
    BY <2>1, <2>3, <2>4, <2>5, MergedKeeps
  <2> QED
    BY <2>1, <2>2, <2>6
<1> QED
  BY <1>1, Invariant, PTL DEF Spec, SaveKeepsTheRest
-----------------------------------------------------------------------------
(* Claims. *)

(* A section that waits on a subagent once the file is read did so in it. *)
LEMMA OnlyFileIsOrphaned ==
  ASSUME IInv, IdsLeft, NEW s \in Ids, Orphan(Synced.doc, s)
  PROVE  Synced.doc[s] = file[s] /\ Orphan(file, s)
<1>1. FollowsFile(s) /\ Synced.doc \in DocumentType
  BY SyncedTypes
<1>2. Synced.doc[s].status = "doing" /\ Synced.doc[s].text # Nothing
  BY <1>1, DocumentFacts DEF Orphan, WellKept
<1>3. Synced.doc[s] = file[s]
  BY <1>1, <1>2 DEF FollowsFile
<1> QED
  BY <1>3 DEF Orphan

(* No section is stranded by a step that only syncs it. *)
LEMMA ReadStrandsNone ==
  ASSUME IInv, IdsLeft, NEW s \in Ids, file'[s] = Synced.doc[s], agents' = agents, Stranded(s)'
  PROVE  Stranded(s)
<1>1. running' = running /\ writer' = writer /\ section' = section
  BY DEF agents
<1>2. Orphan(Synced.doc, s)
  BY DEF Stranded, Orphan
<1>3. Synced.doc[s] = file[s] /\ Orphan(file, s)
  BY <1>2, OnlyFileIsOrphaned
<1> QED
  BY <1>1, <1>3 DEF Stranded

(* Outside a run no section is stranded. *)
LEMMA StoppedStrandsNone ==
  ASSUME ~running', NEW s
  PROVE  ~Stranded(s)'
BY DEF Stranded

(* Nor after a restart. *)
LEMMA RestartStrandsNone ==
  ASSUME Restart, NEW s
  PROVE  ~Stranded(s)'
BY StoppedStrandsNone DEF Restart

(* A write leaves no section with a holder that is gone. *)
LEMMA WriteStrandsNone ==
  ASSUME IInv, NEW who \in Agents, NEW x \in Ids, NEW body \in AnyText,
         NEW status \in {"doing", "done"}, DocWrite(who, x, body, status),
         NEW s \in Ids, Stranded(s)'
  PROVE  Stranded(s)
<1> DEFINE w == Synced
           new == Written(w.doc, who, x, body, status)
           shown == IF body = Empty THEN {} ELSE {x}
<1>1. ~carried /\ Acting(who) /\ MayWrite(who, x)
  BY ActingIsHere DEF DocWrite
<1>2. CASE /\ AgentCall([w EXCEPT !.mem.unread = @ \ {x}], {x}, {})
           /\ UNCHANGED agents
  <2>1. IdsLeft
    BY <1>2 DEF AgentCall
  <2>2. [w EXCEPT !.mem.unread = @ \ {x}].doc = w.doc
    BY <2>1, SyncedTypes, WithUnread
  <2>3. file' = w.doc
    BY <1>2, <2>2 DEF AgentCall, Commit
  <2> QED
    BY <1>2, <2>1, <2>3, ReadStrandsNone
<1>3. CASE AgentCall(w, {}, {}) /\ UNCHANGED agents
  BY <1>3, ReadStrandsNone DEF AgentCall, Commit
<1>4. CASE Torn(new)
  BY <1>4, RestartStrandsNone DEF Torn
<1>5. CASE /\ ~Refuses(w.doc, who, x, body, status)
           /\ AgentCall([w EXCEPT !.doc = new], shown, shown)
           /\ UNCHANGED agents
  <2>1. IdsLeft
    BY <1>5 DEF AgentCall
  <2>2. w.doc \in DocumentType /\ x \in Present(w.doc)
    BY <1>5, <2>1, SyncedTypes DEF Refuses
  <2>3. /\ \A y \in Ids : y # x => new[y] = w.doc[y]
        /\ new[x].status = status
        /\ status = "doing" => new[x].owner = who
    BY <2>2, WrittenKeeps
  <2>4. [w EXCEPT !.doc = new].doc = new
    BY WithDoc
  <2> HIDE DEF new
  <2>5. file' = new
    BY <1>5, <2>4 DEF AgentCall, Commit
  <2>6. CASE s # x
    BY <1>5, <2>1, <2>3, <2>5, <2>6, ReadStrandsNone
  <2>7. CASE s = x
    <3>1. file'[s].status = "doing" /\ file'[s].owner = who /\ who \in Subs
      BY <2>3, <2>5, <2>7 DEF Stranded, Orphan
    <3>2. writer[who] = "on" /\ section[who] = s
      BY <1>1, <2>7, <3>1, AgentsAreOwners DEF Acting, MayWrite
    <3> QED
      BY <1>5, <3>1, <3>2 DEF Stranded, agents
  <2> QED
    BY <2>6, <2>7
<1> QED
  BY <1>2, <1>3, <1>4, <1>5 DEF DocWrite

(* No call of an agent does. *)
LEMMA AgentStrandsNone ==
  ASSUME IInv, AgentStep, NEW s \in Ids, Stranded(s)'
  PROVE  Stranded(s)
<1>1. CASE AgentWrites
  BY <1>1, WriteStrandsNone DEF AgentWrites
<1>2. CASE \E who \in Agents, x \in Ids : DocRead(who, x)
  <2>1. PICK who \in Agents, x \in Ids : DocRead(who, x)
    BY <1>2
  <2>2. IdsLeft /\ agents' = agents
    BY <2>1 DEF DocRead, AgentCall
  <2>3. [Synced EXCEPT !.mem.unread = @ \ {x}].doc = Synced.doc
    BY <2>2, SyncedTypes, WithUnread
  <2>4. file' = Synced.doc
    BY <2>1, <2>3 DEF DocRead, AgentCall, Commit
  <2> QED
    BY <2>2, <2>4, ReadStrandsNone
<1>3. CASE Outline
  BY <1>3, ReadStrandsNone DEF Outline, AgentCall, Commit
<1>4. CASE NoteRound
  <2>1. IdsLeft /\ agents' = agents
    BY <1>4 DEF NoteRound, AgentCall
  <2>2. [Synced EXCEPT !.mem.pending = {}].doc = Synced.doc
    BY <2>1, SyncedTypes, WithPending
  <2>3. file' = Synced.doc
    BY <1>4, <2>2 DEF NoteRound, AgentCall, Commit
  <2> QED
    BY <2>1, <2>3, ReadStrandsNone
<1>5. CASE DocAdd
  <2> DEFINE id == NextNumber(Synced.doc, mem)
             new == [Synced.doc EXCEPT ![id] = Placeholder(Empty)]
  <2>1. CASE Torn(new)
    BY <2>1, RestartStrandsNone DEF Torn
  <2>2. CASE AgentCall([Synced EXCEPT !.doc = new], {id}, {id}) /\ agents' = agents
    <3>1. IdsLeft
      BY <2>2 DEF AgentCall
    <3>2. Synced.doc \in DocumentType
      BY <3>1, SyncedTypes
    <3>3. [Synced EXCEPT !.doc = new].doc = new
      BY WithDoc
    <3>4. file' = new
      BY <2>2, <3>3 DEF AgentCall, Commit
    <3>5. CASE s = id
      <4>1. Empty \in AnyText
        BY DEF AnyText
      <4>2. new[s] = Placeholder(Empty)
        BY <3>2, <3>5 DEF DocumentType
      <4> QED
        BY <3>4, <4>1, <4>2, PlaceholderIsKept DEF Stranded, Orphan
    <3>6. CASE s # id
      <4>1. new[s] = Synced.doc[s]
        BY <3>2, <3>6 DEF DocumentType
      <4> QED
        BY <2>2, <3>1, <3>4, <4>1, ReadStrandsNone
    <3> QED
      BY <3>5, <3>6
  <2> QED
    BY <1>5, <2>1, <2>2 DEF DocAdd
<1> QED
  BY <1>1, <1>2, <1>3, <1>4, <1>5 DEF AgentStep

(* A claim does not either. *)
LEMMA ClaimStrandsNone ==
  ASSUME IInv, NEW a \in Subs, NEW x \in Ids, Claim(a, x), NEW s \in Ids, Stranded(s)'
  PROVE  Stranded(s)
<1> DEFINE w == Synced
           new == Claimed(w.doc, a, x)
           m == [w.mem EXCEPT !.claimed[x] = w.doc[x]]
<1>1. running /\ writer[a] = "off" /\ TypeOK
  BY DEF Claim, IInv, Subs
<1>2. CASE AgentCall(w, {}, {}) /\ UNCHANGED agents
  BY <1>2, ReadStrandsNone DEF AgentCall, Commit
<1>3. CASE Torn(new)
  BY <1>3, RestartStrandsNone DEF Torn
<1>4. CASE /\ ~Refuses(w.doc, a, x, Empty, "doing")
           /\ AgentCall([doc |-> new, mem |-> m], {}, {})
           /\ writer' = [writer EXCEPT ![a] = "on"]
           /\ section' = [section EXCEPT ![a] = x]
  <2>1. IdsLeft /\ file' = new
    BY <1>4 DEF AgentCall, Commit
  <2>2. w.doc \in DocumentType /\ x \in Present(w.doc) /\ a \in Agents /\ Empty \in AnyText
    BY <1>4, <2>1, SyncedTypes, AgentsAreOwners DEF Refuses, AnyText
  <2>3. (\A y \in Ids : y # x => new[y] = w.doc[y]) /\ new[x].owner = a
    BY <2>2, WrittenKeeps DEF Claimed
  <2> HIDE DEF new
  <2>4. /\ writer'[a] = "on" /\ section'[a] = x
        /\ \A b \in Subs : b # a => writer'[b] = writer[b] /\ section'[b] = section[b]
    BY <1>1, <1>4 DEF TypeOK
  <2>5. s # x
    BY <2>1, <2>3, <2>4 DEF Stranded
  <2>6. Orphan(w.doc, s) /\ w.doc[s].owner = file'[s].owner
    BY <2>1, <2>3, <2>5 DEF Stranded, Orphan
  <2>7. w.doc[s] = file[s] /\ Orphan(file, s)
    BY <2>1, <2>6, OnlyFileIsOrphaned
  <2> QED
    BY <1>1, <2>4, <2>6, <2>7 DEF Stranded, Orphan
<1> QED
  BY <1>2, <1>3, <1>4 DEF Claim

(* What release leaves waits on a subagent only if it did when it was claimed. *)
LEMMA GivenBackIsFree ==
  ASSUME NEW sec, NEW before, GiveBack(sec, before).status = "doing"
  PROVE  before.status = "doing"
BY DEF GiveBack, Section

(* A join gives the section back, unless it was under way before the claim. *)
LEMMA JoinStrandsNone ==
  ASSUME IInv, NEW a \in Subs, Join(a), NEW s \in Ids, Stranded(s)'
  PROVE  Stranded(s) \/ mem.claimed[s].status = "doing"
<1> DEFINE w == Synced
           x == section[a]
           new == IF StillHolds(w.doc, a, x)
                  THEN [w.doc EXCEPT ![x] = GiveBack(@, w.mem.claimed[x])] ELSE w.doc
           m == [w.mem EXCEPT !.claimed[x] = Gone]
<1>1. TypeOK
  BY DEF IInv
<1>2. CASE Torn(new)
  BY <1>2, RestartStrandsNone DEF Torn
<1>3. CASE /\ AgentCall([doc |-> new, mem |-> m], {}, {})
           /\ writer' = [writer EXCEPT ![a] = "off"]
           /\ section' = [section EXCEPT ![a] = 0]
           /\ running' = running
  <2>1. IdsLeft /\ file' = new
    BY <1>3 DEF AgentCall, Commit
  <2>2. w.doc \in DocumentType /\ w.mem.claimed = mem.claimed
    BY <2>1, SyncedTypes
  <2>3. \A b \in Subs : b # a => writer'[b] = writer[b] /\ section'[b] = section[b]
    BY <1>1, <1>3 DEF TypeOK
  <2>4. CASE new[s] = w.doc[s] /\ ~(s = x /\ w.doc[s].owner = a)
    <3>1. Orphan(w.doc, s) /\ file'[s] = w.doc[s]
      BY <2>1, <2>4 DEF Stranded, Orphan
    <3>2. w.doc[s] = file[s] /\ Orphan(file, s)
      BY <2>1, <3>1, OnlyFileIsOrphaned
    <3> QED
      BY <1>3, <2>3, <2>4, <3>1, <3>2 DEF Stranded, Orphan
  <2>5. CASE s = x /\ StillHolds(w.doc, a, x)
    <3>1. new[s] = GiveBack(w.doc[s], mem.claimed[s])
      BY <2>2, <2>5 DEF DocumentType
    <3>2. GiveBack(w.doc[s], mem.claimed[s]).status = "doing"
      BY <2>1, <3>1 DEF Stranded, Orphan
    <3> QED
      BY <3>2, GivenBackIsFree
  <2>6. CASE s # x
    <3>1. new[s] = w.doc[s]
      BY <2>2, <2>6 DEF DocumentType
    <3> QED
      BY <2>4, <2>6, <3>1
  <2>7. CASE s = x /\ ~StillHolds(w.doc, a, x)
    <3>1. new[s] = w.doc[s]
      BY <2>7
    <3>2. w.doc[s].owner # a
      BY <2>1, <2>7, <3>1 DEF StillHolds, Stranded, Orphan
    <3> QED
      BY <2>4, <3>1, <3>2
  <2> QED
    BY <2>5, <2>6, <2>7
<1> QED
  BY <1>2, <1>3 DEF Join

(* Nor do the run's own steps. *)
LEMMA RunStrandsNone ==
  ASSUME IInv, RunStep, NEW s \in Ids, Stranded(s)'
  PROVE  mem.claimed[s].status = "doing"
<1> DEFINE w == Synced
           new == [y \in Ids |-> IF Orphan(w.doc, y)
                                 THEN GiveBack(w.doc[y], w.mem.claimed[y]) ELSE w.doc[y]]
           m == [w.mem EXCEPT !.pending = {}, !.claimed = Shut]
<1>1. CASE RunEnds \/ Carry \/ Swap
  <2>1. ~running'
    BY <1>1 DEF RunEnds, Carry, Swap, IInv, Alone, agents
  <2> QED
    BY <2>1, StoppedStrandsNone
<1>2. CASE Torn(new)
  BY <1>2, RestartStrandsNone DEF Torn
<1>3. CASE AgentCall([doc |-> new, mem |-> m], {}, w.mem.pending)
  <2>1. IdsLeft /\ file' = new
    BY <1>3 DEF AgentCall, Commit
  <2>2. w.mem.claimed = mem.claimed
    BY <2>1, SyncedTypes
  <2>3. CASE Orphan(w.doc, s)
    <3>1. GiveBack(w.doc[s], mem.claimed[s]).status = "doing"
      BY <2>1, <2>2, <2>3 DEF Stranded, Orphan
    <3> QED
      BY <3>1, GivenBackIsFree
  <2>4. CASE ~Orphan(w.doc, s)
    BY <2>1, <2>4 DEF Stranded, Orphan
  <2> QED
    BY <2>3, <2>4
<1> QED
  BY <1>1, <1>2, <1>3 DEF RunStep, RunStarts

(* While a run works no section comes to wait on a subagent that is gone       *)
(* (claim, release, run_start_blocks), but for a claim the person brought      *)
(* back.                                                                       *)
THEOREM ClaimsAreFreed ==
  Spec => ClaimsHaveWriters
<1>1. IInv /\ [Next]_vars =>
        [\A s \in Ids : Stranded(s)' =>
           Stranded(s) \/ PersonStep \/ mem.claimed[s].status = "doing"]_vars
  <2> SUFFICES ASSUME IInv, Next, ~PersonStep, NEW s \in Ids, Stranded(s)'
               PROVE  Stranded(s) \/ mem.claimed[s].status = "doing"
    OBVIOUS
  <2>1. CASE AgentStep
    BY <2>1, AgentStrandsNone
  <2>2. CASE \E a \in Subs, x \in Ids : Claim(a, x)
    BY <2>2, ClaimStrandsNone
  <2>3. CASE \E a \in Subs : SubEnds(a)
    <3>1. PICK a \in Subs : SubEnds(a)
      BY <2>3
    <3>2. \A b \in Subs : writer'[b] = "off" => writer[b] = "off"
      BY <3>1 DEF SubEnds, IInv, TypeOK
    <3> QED
      BY <3>1, <3>2 DEF SubEnds, Stranded, Orphan
  <2>4. CASE \E a \in Subs : Join(a)
    BY <2>4, JoinStrandsNone
  <2>5. CASE RunStep
    BY <2>5, RunStrandsNone
  <2>6. CASE Crash
    BY <2>6, RestartStrandsNone DEF Crash
  <2> QED
    BY <2>1, <2>2, <2>3, <2>4, <2>5, <2>6 DEF Next, CallStep
<1> QED
  BY <1>1, Invariant, PTL DEF Spec, ClaimsHaveWriters
=============================================================================
