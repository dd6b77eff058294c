--------------------------- MODULE Consent_proofs ---------------------------
(* Theorems about Consent and their proofs. *)
EXTENDS Consent, TLAPS

-----------------------------------------------------------------------------
(* The event channel: what sending and delivering do to the cards on their way. *)

Sent(seq, c) == \E i \in DOMAIN seq : seq[i] = Card(c)
Once(seq, c) == \A i, j \in DOMAIN seq : seq[i] = Card(c) /\ seq[j] = Card(c) => i = j

(* One more event in the channel: a card is sent again only if it is the event. *)
LEMMA SendOne ==
  ASSUME NEW s \in Seq(Events), NEW e \in Events, NEW t, t = s \o <<e>>
  PROVE  /\ t \in Seq(Events)
         /\ \A c \in Ids : Sent(t, c) <=> Sent(s, c) \/ e = Card(c)
         /\ \A c \in Ids : Once(s, c) /\ ~ (Sent(s, c) /\ e = Card(c)) => Once(t, c)
<1>1. /\ t \in Seq(Events)
      /\ DOMAIN s = 1..Len(s) /\ Len(s) \in Nat
      /\ DOMAIN t = 1..Len(s) + 1
      /\ \A i \in 1..Len(s) : t[i] = s[i]
      /\ t[Len(s) + 1] = e
  OBVIOUS
<1>2. \A i \in DOMAIN t : i \in DOMAIN s \/ i = Len(s) + 1
  BY <1>1
<1>3. \A c \in Ids : Sent(t, c) <=> Sent(s, c) \/ e = Card(c)
  BY <1>1, <1>2 DEF Sent
<1>4. \A c \in Ids : Once(s, c) /\ ~ (Sent(s, c) /\ e = Card(c)) => Once(t, c)
  <2> SUFFICES ASSUME NEW c \in Ids, Once(s, c), ~ (Sent(s, c) /\ e = Card(c)),
                      NEW i \in DOMAIN t, NEW j \in DOMAIN t, t[i] = Card(c), t[j] = Card(c)
               PROVE  i = j
    BY DEF Once
  <2>1. CASE e = Card(c)
    <3>1. \A k \in DOMAIN s : s[k] # Card(c)
      BY <2>1 DEF Sent
    <3> QED
      BY <1>1, <1>2, <3>1
  <2>2. CASE e # Card(c)
    <3>1. i \in DOMAIN s /\ j \in DOMAIN s
      BY <1>1, <1>2, <2>2
    <3>2. s[i] = Card(c) /\ s[j] = Card(c)
      BY <1>1, <3>1
    <3> QED
      BY <3>1, <3>2 DEF Once
  <2> QED
    BY <2>1, <2>2
<1> QED
  BY <1>1, <1>3, <1>4

(* An empty list of events leaves the channel as it is. *)
LEMMA SendNone ==
  ASSUME NEW s \in Seq(Events), NEW t, t = s \o <<>>
  PROVE  t = s
OBVIOUS

(* What the channel delivers leaves it, and a card sent once does not come again. *)
LEMMA DeliverOne ==
  ASSUME NEW s \in Seq(Events), s # <<>>, NEW t, t = Tail(s)
  PROVE  /\ t \in Seq(Events)
         /\ Head(s) \in Events
         /\ \A c \in Ids : Sent(t, c) => Sent(s, c)
         /\ \A c \in Ids : Head(s) = Card(c) => Sent(s, c)
         /\ \A c \in Ids : Once(s, c) => Once(t, c)
         /\ \A c \in Ids : Once(s, c) /\ Head(s) = Card(c) => ~ Sent(t, c)
<1>1. /\ Len(s) \in Nat \ {0} /\ DOMAIN s = 1..Len(s)
      /\ t \in Seq(Events)
      /\ DOMAIN t = 1..Len(s) - 1
      /\ \A i \in DOMAIN t : t[i] = s[i + 1] /\ i + 1 \in DOMAIN s /\ i + 1 # 1
      /\ Head(s) = s[1] /\ 1 \in DOMAIN s /\ s[1] \in Events
  OBVIOUS
<1>2. \A c \in Ids : Sent(t, c) => Sent(s, c)
  BY <1>1 DEF Sent
<1>3. \A c \in Ids : Head(s) = Card(c) => Sent(s, c)
  BY <1>1 DEF Sent
<1>4. \A c \in Ids : Once(s, c) => Once(t, c)
  <2> SUFFICES ASSUME NEW c \in Ids, Once(s, c), NEW i \in DOMAIN t, NEW j \in DOMAIN t,
                      t[i] = Card(c), t[j] = Card(c)
               PROVE  i = j
    BY DEF Once
  <2>1. i + 1 = j + 1
    BY <1>1 DEF Once
  <2> QED
    BY <1>1, <2>1
<1>5. \A c \in Ids : Once(s, c) /\ Head(s) = Card(c) => ~ Sent(t, c)
  BY <1>1 DEF Once, Sent
<1> QED
  BY <1>1, <1>2, <1>3, <1>4, <1>5

(* A card is an event of its call, and no question, answer or end. *)
LEMMA CardIsEvent ==
  /\ \A c \in Ids : Card(c) \in Events
  /\ \A c, d \in Ids : Card(c) = Card(d) => c = d
  /\ \A c, d \in Ids : /\ Card(c) # [kind |-> "question", call |-> d]
                       /\ Card(c) # [kind |-> "answered", call |-> d]
  /\ \A c \in Ids : /\ Card(c) # [kind |-> "done", call |-> 0]
                    /\ Card(c) # [kind |-> "error", call |-> 0]
BY DEF Card, Events

-----------------------------------------------------------------------------
(* The inductive invariant. *)

(* A call only takes the arm its due allows. *)
ArmsOK ==
  \A c \in DOMAIN calls :
    /\ calls[c].arm = "free" => calls[c].due = "unasked"
    /\ calls[c].arm \in Gated => calls[c].due \in {"unasked", "asked"}

(* Nothing has been shown, clicked or said of a call. *)
Untouched(c) ==
  /\ cards[c] = 0 /\ ~ Sent(events, c)
  /\ decided[c] = "none" /\ reply[c] = "none"
  /\ \A k \in clicks : k.call # c

FreshUntouched ==
  \A c \in Ids : stage[c] \in {"unused", "new", "registered", "asked"} => Untouched(c)

(* Where a call is and which map holds its key. *)
MapsOK ==
  \A c \in Ids :
    /\ c \in approvals \cup answers => reply[c] = "none"
    /\ stage[c] = "registered" => c \in approvals
    /\ stage[c] = "asked" => calls[c].arm = "question"
    /\ stage[c] = "waiting" => calls[c].arm \in Gated \cup {"question"}
    /\ stage[c] = "waiting" /\ reply[c] = "none" => c \in approvals \cup answers
    /\ stage[c] = "running" => calls[c].arm \in Gated \cup {"free"}

(* A question has no card and no rejection. *)
QuestionsOK ==
  \A c \in DOMAIN calls : calls[c].arm = "question" =>
    /\ cards[c] = 0 /\ ~ Sent(events, c)
    /\ decided[c] # "no" /\ reply[c] # "no"
    /\ \A k \in clicks : k.call = c => k.answer = "yes"

(* While a key is in the map its call has one card at most, and none after a click. *)
OneCard ==
  \A c \in approvals :
    /\ decided[c] # "none" => cards[c] = 0 /\ ~ Sent(events, c)
    /\ cards[c] > 0 => ~ Sent(events, c)
    /\ Once(events, c)

ClicksAgree ==
  \A k \in clicks : k.call \in approvals \cup answers => k.answer = decided[k.call]

IInv == /\ TypeOK /\ ArmsOK /\ FreshUntouched /\ MapsOK /\ QuestionsOK /\ OneCard /\ ClicksAgree
        /\ ConsentBeforeEffect /\ DecisionsCount

(* What the types say of the calls made so far and of the clicks on them. *)
LEMMA CallFacts ==
  ASSUME TypeOK
  PROVE  /\ DOMAIN calls = 1..Len(calls) /\ Len(calls) \in Nat /\ DOMAIN calls \subseteq Ids
         /\ \A c \in DOMAIN calls : /\ calls[c].by \in Agents /\ calls[c].arm \in Arms
                                    /\ calls[c].due \in {"never", "unasked", "asked"}
         /\ \A k \in clicks : k.call \in DOMAIN calls /\ k.answer \in {"yes", "no"}
         /\ \A c \in Ids : stage[c] # "unused" => c \in DOMAIN calls
<1> DEFINE R == [by : Agents, arm : Arms, due : {"never", "unasked", "asked"}]
<1>0. calls \in Seq(R) /\ Len(calls) <= MaxCalls
  BY DEF TypeOK
<1> HIDE DEF R
<1>1. DOMAIN calls = 1..Len(calls) /\ Len(calls) \in Nat /\ Len(calls) <= MaxCalls
  BY <1>0
<1>2. DOMAIN calls \subseteq Ids
  BY <1>1, ConsentAssumption DEF Ids
<1>3. \A c \in DOMAIN calls : calls[c] \in R
  BY <1>0
<1>4. \A k \in clicks : k \in [call : DOMAIN calls, answer : {"yes", "no"}]
  BY DEF TypeOK
<1>5. \A c \in Ids : stage[c] # "unused" => c \in DOMAIN calls
  BY DEF TypeOK
<1> QED
  BY <1>1, <1>2, <1>3, <1>4, <1>5 DEF R

(* A card that was never sent was not sent twice. *)
LEMMA UnsentIsOnce ==
  ASSUME NEW s, NEW c, ~ Sent(s, c)
  PROVE  Once(s, c)
BY DEF Sent, Once

(* The invariant, step by step.  A refused call is over and was never asked for. *)
LEMMA RefuseKeeps ==
  ASSUME IInv, NEW c \in Ids, Refuse(c)
  PROVE  IInv'
<1> DEFINE e == [kind |-> "answered", call |-> c]
<1>k. e \in Events /\ \A d \in Ids : e # Card(d)
  BY CardIsEvent DEF Events
<1>e. events' = events \o <<e>> \/ events' = events
  <2>1. events' = events \o <<e>> \/ events' = events \o <<>>
    BY DEF Refuse, Tell
  <2> QED
    BY <2>1, SendNone DEF IInv, TypeOK
<1> HIDE DEF e
<1>s. /\ events' \in Seq(Events)
      /\ \A d \in Ids : Sent(events', d) <=> Sent(events, d)
      /\ \A d \in Ids : Once(events, d) => Once(events', d)
  <2>1. events \in Seq(Events)
    BY DEF IInv, TypeOK
  <2>2. CASE events' = events \o <<e>>
    BY <1>k, <2>1, <2>2, SendOne
  <2>3. CASE events' = events
    BY <2>1, <2>3
  <2> QED
    BY <1>e, <2>2, <2>3
<1>1. TypeOK'
  BY CallFacts, <1>s DEF Refuse, At, Goes, mapVars, panelVars, Gated, Asking, Arms, IInv, TypeOK, MapsOK
<1>2. ArmsOK'
  BY CallFacts, <1>s DEF Refuse, At, Goes, mapVars, panelVars, Gated, Asking, Arms, IInv, ArmsOK
<1>3. FreshUntouched'
  BY CallFacts, <1>s DEF Refuse, At, Goes, mapVars, panelVars, Gated, Asking, Arms, IInv, FreshUntouched, Untouched, TypeOK
<1>4. MapsOK'
  BY CallFacts, <1>s DEF Refuse, At, Goes, mapVars, panelVars, Gated, Asking, Arms, IInv, MapsOK, TypeOK, FreshUntouched, Untouched
<1>5. QuestionsOK'
  BY CallFacts, <1>s DEF Refuse, At, Goes, mapVars, panelVars, Gated, Asking, Arms, IInv, QuestionsOK, TypeOK
<1>6. OneCard'
  BY CallFacts, <1>s, UnsentIsOnce DEF Refuse, At, Goes, mapVars, panelVars, Gated, Asking, Arms, IInv, OneCard, FreshUntouched, Untouched, TypeOK, MapsOK
<1>7. ClicksAgree'
  BY CallFacts, <1>s DEF Refuse, At, Goes, mapVars, panelVars, Gated, Asking, Arms, IInv, ClicksAgree, TypeOK, FreshUntouched, Untouched
<1>8. ConsentBeforeEffect'
  BY CallFacts, <1>s DEF Refuse, At, Goes, mapVars, panelVars, Gated, Asking, Arms, IInv, ConsentBeforeEffect, ArmsOK, DecisionsCount, TypeOK, MapsOK
<1>9. DecisionsCount'
  BY CallFacts, <1>s DEF Refuse, At, Goes, mapVars, panelVars, Gated, Asking, Arms, IInv, DecisionsCount, MapsOK, FreshUntouched, Untouched, TypeOK
<1> QED
  BY <1>1, <1>2, <1>3, <1>4, <1>5, <1>6, <1>7, <1>8, <1>9 DEF IInv

(* A call its arm lets run unasked is due unasked. *)
LEMMA RunFreeKeeps ==
  ASSUME IInv, NEW c \in Ids, RunFree(c)
  PROVE  IInv'
<1>1. TypeOK'
  BY CallFacts DEF RunFree, At, Goes, mapVars, panelVars, Gated, Asking, Arms, IInv, TypeOK, MapsOK
<1>2. ArmsOK'
  BY CallFacts DEF RunFree, At, Goes, mapVars, panelVars, Gated, Asking, Arms, IInv, ArmsOK
<1>3. FreshUntouched'
  BY CallFacts DEF RunFree, At, Goes, mapVars, panelVars, Gated, Asking, Arms, IInv, FreshUntouched, Untouched, TypeOK
<1>4. MapsOK'
  BY CallFacts DEF RunFree, At, Goes, mapVars, panelVars, Gated, Asking, Arms, IInv, MapsOK, TypeOK, FreshUntouched, Untouched
<1>5. QuestionsOK'
  BY CallFacts DEF RunFree, At, Goes, mapVars, panelVars, Gated, Asking, Arms, IInv, QuestionsOK, TypeOK
<1>6. OneCard'
  BY CallFacts, UnsentIsOnce DEF RunFree, At, Goes, mapVars, panelVars, Gated, Asking, Arms, IInv, OneCard, FreshUntouched, Untouched, TypeOK, MapsOK
<1>7. ClicksAgree'
  BY CallFacts DEF RunFree, At, Goes, mapVars, panelVars, Gated, Asking, Arms, IInv, ClicksAgree, TypeOK, FreshUntouched, Untouched
<1>8. ConsentBeforeEffect'
  BY CallFacts DEF RunFree, At, Goes, mapVars, panelVars, Gated, Asking, Arms, IInv, ConsentBeforeEffect, ArmsOK, DecisionsCount, TypeOK, MapsOK
<1>9. DecisionsCount'
  BY CallFacts DEF RunFree, At, Goes, mapVars, panelVars, Gated, Asking, Arms, IInv, DecisionsCount, MapsOK, FreshUntouched, Untouched, TypeOK
<1> QED
  BY <1>1, <1>2, <1>3, <1>4, <1>5, <1>6, <1>7, <1>8, <1>9 DEF IInv

(* The entry of a call is there before its card is. *)
LEMMA RegisterKeeps ==
  ASSUME IInv, NEW c \in Ids, Register(c)
  PROVE  IInv'
<1>1. TypeOK'
  BY CallFacts DEF Register, At, Goes, mapVars, panelVars, Gated, Asking, Arms, IInv, TypeOK, MapsOK
<1>2. ArmsOK'
  BY CallFacts DEF Register, At, Goes, mapVars, panelVars, Gated, Asking, Arms, IInv, ArmsOK
<1>3. FreshUntouched'
  BY CallFacts DEF Register, At, Goes, mapVars, panelVars, Gated, Asking, Arms, IInv, FreshUntouched, Untouched, TypeOK
<1>4. MapsOK'
  BY CallFacts DEF Register, At, Goes, mapVars, panelVars, Gated, Asking, Arms, IInv, MapsOK, TypeOK, FreshUntouched, Untouched
<1>5. QuestionsOK'
  BY CallFacts DEF Register, At, Goes, mapVars, panelVars, Gated, Asking, Arms, IInv, QuestionsOK, TypeOK
<1>6. OneCard'
  BY CallFacts, UnsentIsOnce DEF Register, At, Goes, mapVars, panelVars, Gated, Asking, Arms, IInv, OneCard, FreshUntouched, Untouched, TypeOK, MapsOK
<1>7. ClicksAgree'
  BY CallFacts DEF Register, At, Goes, mapVars, panelVars, Gated, Asking, Arms, IInv, ClicksAgree, TypeOK, FreshUntouched, Untouched
<1>8. ConsentBeforeEffect'
  BY CallFacts DEF Register, At, Goes, mapVars, panelVars, Gated, Asking, Arms, IInv, ConsentBeforeEffect, ArmsOK, DecisionsCount, TypeOK, MapsOK
<1>9. DecisionsCount'
  BY CallFacts DEF Register, At, Goes, mapVars, panelVars, Gated, Asking, Arms, IInv, DecisionsCount, MapsOK, FreshUntouched, Untouched, TypeOK
<1> QED
  BY <1>1, <1>2, <1>3, <1>4, <1>5, <1>6, <1>7, <1>8, <1>9 DEF IInv

(* A no, or a Stop, ends the call. *)
LEMMA RejectedKeeps ==
  ASSUME IInv, NEW c \in Ids, Rejected(c)
  PROVE  IInv'
<1>1. TypeOK'
  BY CallFacts DEF Rejected, At, Goes, mapVars, panelVars, Gated, Asking, Arms, IInv, TypeOK, MapsOK
<1>2. ArmsOK'
  BY CallFacts DEF Rejected, At, Goes, mapVars, panelVars, Gated, Asking, Arms, IInv, ArmsOK
<1>3. FreshUntouched'
  BY CallFacts DEF Rejected, At, Goes, mapVars, panelVars, Gated, Asking, Arms, IInv, FreshUntouched, Untouched, TypeOK
<1>4. MapsOK'
  BY CallFacts DEF Rejected, At, Goes, mapVars, panelVars, Gated, Asking, Arms, IInv, MapsOK, TypeOK, FreshUntouched, Untouched
<1>5. QuestionsOK'
  BY CallFacts DEF Rejected, At, Goes, mapVars, panelVars, Gated, Asking, Arms, IInv, QuestionsOK, TypeOK
<1>6. OneCard'
  BY CallFacts, UnsentIsOnce DEF Rejected, At, Goes, mapVars, panelVars, Gated, Asking, Arms, IInv, OneCard, FreshUntouched, Untouched, TypeOK, MapsOK
<1>7. ClicksAgree'
  BY CallFacts DEF Rejected, At, Goes, mapVars, panelVars, Gated, Asking, Arms, IInv, ClicksAgree, TypeOK, FreshUntouched, Untouched
<1>8. ConsentBeforeEffect'
  BY CallFacts DEF Rejected, At, Goes, mapVars, panelVars, Gated, Asking, Arms, IInv, ConsentBeforeEffect, ArmsOK, DecisionsCount, TypeOK, MapsOK
<1>9. DecisionsCount'
  BY CallFacts DEF Rejected, At, Goes, mapVars, panelVars, Gated, Asking, Arms, IInv, DecisionsCount, MapsOK, FreshUntouched, Untouched, TypeOK
<1> QED
  BY <1>1, <1>2, <1>3, <1>4, <1>5, <1>6, <1>7, <1>8, <1>9 DEF IInv

(* A question's entry is there before its answer is waited for. *)
LEMMA AwaitAnswerKeeps ==
  ASSUME IInv, NEW c \in Ids, AwaitAnswer(c)
  PROVE  IInv'
<1>1. TypeOK'
  BY CallFacts DEF AwaitAnswer, At, Goes, mapVars, panelVars, Gated, Asking, Arms, IInv, TypeOK, MapsOK
<1>2. ArmsOK'
  BY CallFacts DEF AwaitAnswer, At, Goes, mapVars, panelVars, Gated, Asking, Arms, IInv, ArmsOK
<1>3. FreshUntouched'
  BY CallFacts DEF AwaitAnswer, At, Goes, mapVars, panelVars, Gated, Asking, Arms, IInv, FreshUntouched, Untouched, TypeOK
<1>4. MapsOK'
  BY CallFacts DEF AwaitAnswer, At, Goes, mapVars, panelVars, Gated, Asking, Arms, IInv, MapsOK, TypeOK, FreshUntouched, Untouched
<1>5. QuestionsOK'
  BY CallFacts DEF AwaitAnswer, At, Goes, mapVars, panelVars, Gated, Asking, Arms, IInv, QuestionsOK, TypeOK
<1>6. OneCard'
  BY CallFacts, UnsentIsOnce DEF AwaitAnswer, At, Goes, mapVars, panelVars, Gated, Asking, Arms, IInv, OneCard, FreshUntouched, Untouched, TypeOK, MapsOK
<1>7. ClicksAgree'
  BY CallFacts DEF AwaitAnswer, At, Goes, mapVars, panelVars, Gated, Asking, Arms, IInv, ClicksAgree, TypeOK, FreshUntouched, Untouched
<1>8. ConsentBeforeEffect'
  BY CallFacts DEF AwaitAnswer, At, Goes, mapVars, panelVars, Gated, Asking, Arms, IInv, ConsentBeforeEffect, ArmsOK, DecisionsCount, TypeOK, MapsOK
<1>9. DecisionsCount'
  BY CallFacts DEF AwaitAnswer, At, Goes, mapVars, panelVars, Gated, Asking, Arms, IInv, DecisionsCount, MapsOK, FreshUntouched, Untouched, TypeOK
<1> QED
  BY <1>1, <1>2, <1>3, <1>4, <1>5, <1>6, <1>7, <1>8, <1>9 DEF IInv

(* A call is announced once, after it was registered. *)
LEMMA AnnounceKeeps ==
  ASSUME IInv, NEW c \in Ids, Announce(c)
  PROVE  IInv'
<1>e. /\ events' = events \o <<Card(c)>>
      /\ Card(c) \in Events /\ events \in Seq(Events)
  BY CardIsEvent DEF Announce, Tell, IInv, TypeOK
<1>s. /\ events' \in Seq(Events)
      /\ \A d \in Ids : Sent(events', d) <=> Sent(events, d) \/ Card(c) = Card(d)
      /\ \A d \in Ids : Once(events, d) /\ ~ (Sent(events, d) /\ Card(c) = Card(d)) => Once(events', d)
  BY <1>e, SendOne
<1>g. calls[c].arm # "question"
  BY DEF Announce, At, IInv, MapsOK, TypeOK, Gated
<1>q. ASSUME NEW d \in DOMAIN calls, calls[d].arm = "question"
      PROVE  d \in Ids /\ d # c /\ ~ Sent(events', d)
  BY <1>s, <1>g, <1>q, CardIsEvent, CallFacts DEF IInv, QuestionsOK
<1>1. TypeOK'
  BY CallFacts, <1>s, CardIsEvent DEF Announce, At, Goes, mapVars, panelVars, Gated, Asking, Arms, IInv, TypeOK, MapsOK
<1>2. ArmsOK'
  BY CallFacts, <1>s, CardIsEvent DEF Announce, At, Goes, mapVars, panelVars, Gated, Asking, Arms, IInv, ArmsOK
<1>3. FreshUntouched'
  BY CallFacts, <1>s, CardIsEvent DEF Announce, At, Goes, mapVars, panelVars, Gated, Asking, Arms, IInv, FreshUntouched, Untouched, TypeOK
<1>4. MapsOK'
  BY CallFacts, <1>s, CardIsEvent DEF Announce, At, Goes, mapVars, panelVars, Gated, Asking, Arms, IInv, MapsOK, TypeOK, FreshUntouched, Untouched
<1>5. QuestionsOK'
  BY CallFacts, <1>q DEF Announce, At, Goes, mapVars, panelVars, Gated, Asking, Arms, IInv, QuestionsOK
<1>6. OneCard'
  BY CallFacts, UnsentIsOnce, <1>s, CardIsEvent DEF Announce, At, Goes, mapVars, panelVars, Gated, Asking, Arms, IInv, OneCard, FreshUntouched, Untouched, TypeOK, MapsOK
<1>7. ClicksAgree'
  BY CallFacts, <1>s, CardIsEvent DEF Announce, At, Goes, mapVars, panelVars, Gated, Asking, Arms, IInv, ClicksAgree, TypeOK, FreshUntouched, Untouched
<1>8. ConsentBeforeEffect'
  BY CallFacts, <1>s, CardIsEvent DEF Announce, At, Goes, mapVars, panelVars, Gated, Asking, Arms, IInv, ConsentBeforeEffect, ArmsOK, DecisionsCount, TypeOK, MapsOK
<1>9. DecisionsCount'
  BY CallFacts, <1>s, CardIsEvent DEF Announce, At, Goes, mapVars, panelVars, Gated, Asking, Arms, IInv, DecisionsCount, MapsOK, FreshUntouched, Untouched, TypeOK
<1> QED
  BY <1>1, <1>2, <1>3, <1>4, <1>5, <1>6, <1>7, <1>8, <1>9 DEF IInv

(* A question is sent once. *)
LEMMA AskUserKeeps ==
  ASSUME IInv, NEW c \in Ids, AskUser(c)
  PROVE  IInv'
<1> DEFINE e == [kind |-> "question", call |-> c]
<1>k. \A d \in Ids : e # Card(d)
  BY CardIsEvent
<1>e. /\ events' = events \o <<e>>
      /\ e \in Events /\ events \in Seq(Events)
  BY CardIsEvent DEF AskUser, Tell, Events, IInv, TypeOK
<1> HIDE DEF e
<1>s. /\ events' \in Seq(Events)
      /\ \A d \in Ids : Sent(events', d) <=> Sent(events, d) \/ e = Card(d)
      /\ \A d \in Ids : Once(events, d) /\ ~ (Sent(events, d) /\ e = Card(d)) => Once(events', d)
  BY <1>e, SendOne
<1>1. TypeOK'
  BY CallFacts, <1>s, CardIsEvent, <1>k DEF AskUser, At, Goes, mapVars, panelVars, Gated, Asking, Arms, IInv, TypeOK, MapsOK
<1>2. ArmsOK'
  BY CallFacts, <1>s, CardIsEvent, <1>k DEF AskUser, At, Goes, mapVars, panelVars, Gated, Asking, Arms, IInv, ArmsOK
<1>3. FreshUntouched'
  BY CallFacts, <1>s, CardIsEvent, <1>k DEF AskUser, At, Goes, mapVars, panelVars, Gated, Asking, Arms, IInv, FreshUntouched, Untouched, TypeOK
<1>4. MapsOK'
  BY CallFacts, <1>s, CardIsEvent, <1>k DEF AskUser, At, Goes, mapVars, panelVars, Gated, Asking, Arms, IInv, MapsOK, TypeOK, FreshUntouched, Untouched
<1>5. QuestionsOK'
  BY CallFacts, <1>s, CardIsEvent, <1>k DEF AskUser, At, Goes, mapVars, panelVars, Gated, Asking, Arms, IInv, QuestionsOK, TypeOK, MapsOK
<1>6. OneCard'
  BY CallFacts, UnsentIsOnce, <1>s, CardIsEvent, <1>k DEF AskUser, At, Goes, mapVars, panelVars, Gated, Asking, Arms, IInv, OneCard, FreshUntouched, Untouched, TypeOK, MapsOK
<1>7. ClicksAgree'
  BY CallFacts, <1>s, CardIsEvent, <1>k DEF AskUser, At, Goes, mapVars, panelVars, Gated, Asking, Arms, IInv, ClicksAgree, TypeOK, FreshUntouched, Untouched
<1>8. ConsentBeforeEffect'
  BY CallFacts, <1>s, CardIsEvent, <1>k DEF AskUser, At, Goes, mapVars, panelVars, Gated, Asking, Arms, IInv, ConsentBeforeEffect, ArmsOK, DecisionsCount, TypeOK, MapsOK
<1>9. DecisionsCount'
  BY CallFacts, <1>s, CardIsEvent, <1>k DEF AskUser, At, Goes, mapVars, panelVars, Gated, Asking, Arms, IInv, DecisionsCount, MapsOK, FreshUntouched, Untouched, TypeOK
<1> QED
  BY <1>1, <1>2, <1>3, <1>4, <1>5, <1>6, <1>7, <1>8, <1>9 DEF IInv

(* An answered question ends its call. *)
LEMMA AnsweredKeeps ==
  ASSUME IInv, NEW c \in Ids, Answered(c)
  PROVE  IInv'
<1> DEFINE e == [kind |-> "answered", call |-> c]
<1>k. \A d \in Ids : e # Card(d)
  BY CardIsEvent
<1>e. /\ events' = events \o <<e>>
      /\ e \in Events /\ events \in Seq(Events)
  BY CardIsEvent DEF Answered, Tell, Events, IInv, TypeOK
<1> HIDE DEF e
<1>s. /\ events' \in Seq(Events)
      /\ \A d \in Ids : Sent(events', d) <=> Sent(events, d) \/ e = Card(d)
      /\ \A d \in Ids : Once(events, d) /\ ~ (Sent(events, d) /\ e = Card(d)) => Once(events', d)
  BY <1>e, SendOne
<1>1. TypeOK'
  BY CallFacts, <1>s, CardIsEvent, <1>k DEF Answered, At, Goes, mapVars, panelVars, Gated, Asking, Arms, IInv, TypeOK, MapsOK
<1>2. ArmsOK'
  BY CallFacts, <1>s, CardIsEvent, <1>k DEF Answered, At, Goes, mapVars, panelVars, Gated, Asking, Arms, IInv, ArmsOK
<1>3. FreshUntouched'
  BY CallFacts, <1>s, CardIsEvent, <1>k DEF Answered, At, Goes, mapVars, panelVars, Gated, Asking, Arms, IInv, FreshUntouched, Untouched, TypeOK
<1>4. MapsOK'
  BY CallFacts, <1>s, CardIsEvent, <1>k DEF Answered, At, Goes, mapVars, panelVars, Gated, Asking, Arms, IInv, MapsOK, TypeOK, FreshUntouched, Untouched
<1>5. QuestionsOK'
  BY CallFacts, <1>s, CardIsEvent, <1>k DEF Answered, At, Goes, mapVars, panelVars, Gated, Asking, Arms, IInv, QuestionsOK, TypeOK, MapsOK
<1>6. OneCard'
  BY CallFacts, UnsentIsOnce, <1>s, CardIsEvent, <1>k DEF Answered, At, Goes, mapVars, panelVars, Gated, Asking, Arms, IInv, OneCard, FreshUntouched, Untouched, TypeOK, MapsOK
<1>7. ClicksAgree'
  BY CallFacts, <1>s, CardIsEvent, <1>k DEF Answered, At, Goes, mapVars, panelVars, Gated, Asking, Arms, IInv, ClicksAgree, TypeOK, FreshUntouched, Untouched
<1>8. ConsentBeforeEffect'
  BY CallFacts, <1>s, CardIsEvent, <1>k DEF Answered, At, Goes, mapVars, panelVars, Gated, Asking, Arms, IInv, ConsentBeforeEffect, ArmsOK, DecisionsCount, TypeOK, MapsOK
<1>9. DecisionsCount'
  BY CallFacts, <1>s, CardIsEvent, <1>k DEF Answered, At, Goes, mapVars, panelVars, Gated, Asking, Arms, IInv, DecisionsCount, MapsOK, FreshUntouched, Untouched, TypeOK
<1> QED
  BY <1>1, <1>2, <1>3, <1>4, <1>5, <1>6, <1>7, <1>8, <1>9 DEF IInv

(* A yes lets that call run and no other. *)
LEMMA ApprovedKeeps ==
  ASSUME IInv, NEW c \in Ids, Approved(c)
  PROVE  IInv'
<1>g. c \in DOMAIN calls /\ c \in Ids /\ c \notin approvals \cup answers /\ calls[c].arm # "question"
  BY CallFacts DEF Approved, Ghost, At, IInv, TypeOK, MapsOK, Gated
<1>e. events' = events \o <<Card(c)>> \/ events' = events
  <2>1. events' = events \o <<Card(c)>> \/ events' = events \o <<>>
    BY DEF Approved, Ghost, Tell
  <2> QED
    BY <2>1, SendNone DEF IInv, TypeOK
<1>s. /\ events' \in Seq(Events)
      /\ \A d \in Ids : Sent(events', d) => Sent(events, d) \/ d = c
      /\ \A d \in Ids : Once(events, d) => Once(events', d) \/ d = c
  <2>1. CASE events' = events \o <<Card(c)>>
    <3>1. events \in Seq(Events) /\ Card(c) \in Events
      BY CardIsEvent DEF IInv, TypeOK
    <3>2. /\ events' \in Seq(Events)
          /\ \A d \in Ids : Sent(events', d) <=> Sent(events, d) \/ Card(c) = Card(d)
          /\ \A d \in Ids : Once(events, d) /\ ~ (Sent(events, d) /\ Card(c) = Card(d)) => Once(events', d)
      BY <2>1, <3>1, SendOne
    <3> QED
      BY <3>2, CardIsEvent
  <2>2. CASE events' = events
    BY <2>2 DEF IInv, TypeOK
  <2> QED
    BY <1>e, <2>1, <2>2
<1>1. TypeOK'
  BY CallFacts, <1>g, <1>s DEF Approved, At, Goes, mapVars, panelVars, Gated, Asking, Arms, IInv, TypeOK, MapsOK
<1>2. ArmsOK'
  BY CallFacts, <1>g, <1>s DEF Approved, At, Goes, mapVars, panelVars, Gated, Asking, Arms, IInv, ArmsOK
<1>3. FreshUntouched'
  BY CallFacts, <1>g, <1>s DEF Approved, At, Goes, mapVars, panelVars, Gated, Asking, Arms, IInv, FreshUntouched, Untouched, TypeOK
<1>4. MapsOK'
  BY CallFacts, <1>g, <1>s DEF Approved, At, Goes, mapVars, panelVars, Gated, Asking, Arms, IInv, MapsOK, TypeOK, FreshUntouched, Untouched
<1>5. QuestionsOK'
  BY CallFacts, <1>g, <1>s DEF Approved, At, Goes, mapVars, panelVars, Gated, Asking, Arms, IInv, QuestionsOK, TypeOK
<1>6. OneCard'
  BY CallFacts, UnsentIsOnce, <1>g, <1>s DEF Approved, At, Goes, mapVars, panelVars, Gated, Asking, Arms, IInv, OneCard, FreshUntouched, Untouched, TypeOK, MapsOK
<1>7. ClicksAgree'
  BY CallFacts, <1>g, <1>s DEF Approved, At, Goes, mapVars, panelVars, Gated, Asking, Arms, IInv, ClicksAgree, TypeOK, FreshUntouched, Untouched
<1>8. ConsentBeforeEffect'
  BY CallFacts, <1>g, <1>s DEF Approved, At, Goes, mapVars, panelVars, Gated, Asking, Arms, IInv, ConsentBeforeEffect, ArmsOK, DecisionsCount, TypeOK, MapsOK
<1>9. DecisionsCount'
  BY CallFacts, <1>g, <1>s DEF Approved, At, Goes, mapVars, panelVars, Gated, Asking, Arms, IInv, DecisionsCount, MapsOK, FreshUntouched, Untouched, TypeOK
<1> QED
  BY <1>1, <1>2, <1>3, <1>4, <1>5, <1>6, <1>7, <1>8, <1>9 DEF IInv

(* A call that ran leaves nothing in the maps. *)
LEMMA FinishKeeps ==
  ASSUME IInv, NEW c \in Ids, Finish(c)
  PROVE  IInv'
<1>g. c \in DOMAIN calls /\ c \in Ids /\ c \notin approvals \cup answers /\ calls[c].arm # "question"
  BY CallFacts DEF Finish, At, IInv, TypeOK, MapsOK, Gated
<1>e. events' = events \o <<Card(c)>> \/ events' = events
  <2>1. events' = events \o <<Card(c)>> \/ events' = events \o <<>>
    BY DEF Finish, Tell
  <2> QED
    BY <2>1, SendNone DEF IInv, TypeOK
<1>s. /\ events' \in Seq(Events)
      /\ \A d \in Ids : Sent(events', d) => Sent(events, d) \/ d = c
      /\ \A d \in Ids : Once(events, d) => Once(events', d) \/ d = c
  <2>1. CASE events' = events \o <<Card(c)>>
    <3>1. events \in Seq(Events) /\ Card(c) \in Events
      BY CardIsEvent DEF IInv, TypeOK
    <3>2. /\ events' \in Seq(Events)
          /\ \A d \in Ids : Sent(events', d) <=> Sent(events, d) \/ Card(c) = Card(d)
          /\ \A d \in Ids : Once(events, d) /\ ~ (Sent(events, d) /\ Card(c) = Card(d)) => Once(events', d)
      BY <2>1, <3>1, SendOne
    <3> QED
      BY <3>2, CardIsEvent
  <2>2. CASE events' = events
    BY <2>2 DEF IInv, TypeOK
  <2> QED
    BY <1>e, <2>1, <2>2
<1>1. TypeOK'
  BY CallFacts, <1>g, <1>s DEF Finish, At, Goes, mapVars, panelVars, Gated, Asking, Arms, IInv, TypeOK, MapsOK
<1>2. ArmsOK'
  BY CallFacts, <1>g, <1>s DEF Finish, At, Goes, mapVars, panelVars, Gated, Asking, Arms, IInv, ArmsOK
<1>3. FreshUntouched'
  BY CallFacts, <1>g, <1>s DEF Finish, At, Goes, mapVars, panelVars, Gated, Asking, Arms, IInv, FreshUntouched, Untouched, TypeOK
<1>4. MapsOK'
  BY CallFacts, <1>g, <1>s DEF Finish, At, Goes, mapVars, panelVars, Gated, Asking, Arms, IInv, MapsOK, TypeOK, FreshUntouched, Untouched
<1>5. QuestionsOK'
  BY CallFacts, <1>g, <1>s DEF Finish, At, Goes, mapVars, panelVars, Gated, Asking, Arms, IInv, QuestionsOK, TypeOK
<1>6. OneCard'
  BY CallFacts, UnsentIsOnce, <1>g, <1>s DEF Finish, At, Goes, mapVars, panelVars, Gated, Asking, Arms, IInv, OneCard, FreshUntouched, Untouched, TypeOK, MapsOK
<1>7. ClicksAgree'
  BY CallFacts, <1>g, <1>s DEF Finish, At, Goes, mapVars, panelVars, Gated, Asking, Arms, IInv, ClicksAgree, TypeOK, FreshUntouched, Untouched
<1>8. ConsentBeforeEffect'
  BY CallFacts, <1>g, <1>s DEF Finish, At, Goes, mapVars, panelVars, Gated, Asking, Arms, IInv, ConsentBeforeEffect, ArmsOK, DecisionsCount, TypeOK, MapsOK
<1>9. DecisionsCount'
  BY CallFacts, <1>g, <1>s DEF Finish, At, Goes, mapVars, panelVars, Gated, Asking, Arms, IInv, DecisionsCount, MapsOK, FreshUntouched, Untouched, TypeOK
<1> QED
  BY <1>1, <1>2, <1>3, <1>4, <1>5, <1>6, <1>7, <1>8, <1>9 DEF IInv

(* A message starts a run on empty maps. *)
LEMMA SendKeeps ==
  ASSUME IInv, Send
  PROVE  IInv'
<1>1. TypeOK'
  BY CallFacts DEF Send, mapVars, panelVars, IInv, TypeOK, MapsOK
<1>2. ArmsOK'
  BY CallFacts DEF Send, mapVars, panelVars, IInv, ArmsOK
<1>3. FreshUntouched'
  BY CallFacts DEF Send, mapVars, panelVars, IInv, FreshUntouched, Untouched, TypeOK
<1>4. MapsOK'
  BY CallFacts DEF Send, mapVars, panelVars, IInv, MapsOK, TypeOK, FreshUntouched, Untouched
<1>5. QuestionsOK'
  BY CallFacts DEF Send, mapVars, panelVars, IInv, QuestionsOK, TypeOK
<1>6. OneCard'
  BY CallFacts, UnsentIsOnce DEF Send, mapVars, panelVars, IInv, OneCard, FreshUntouched, Untouched, TypeOK, MapsOK
<1>7. ClicksAgree'
  BY CallFacts DEF Send, mapVars, panelVars, IInv, ClicksAgree, TypeOK, FreshUntouched, Untouched
<1>8. ConsentBeforeEffect'
  BY CallFacts DEF Send, mapVars, panelVars, IInv, ConsentBeforeEffect, ArmsOK, DecisionsCount, TypeOK, MapsOK
<1>9. DecisionsCount'
  BY CallFacts DEF Send, mapVars, panelVars, IInv, DecisionsCount, MapsOK, FreshUntouched, Untouched, TypeOK
<1> QED
  BY <1>1, <1>2, <1>3, <1>4, <1>5, <1>6, <1>7, <1>8, <1>9 DEF IInv

(* Subagents start with no call of their own. *)
LEMMA SpawnKeeps ==
  ASSUME IInv, Spawn
  PROVE  IInv'
<1>1. TypeOK'
  BY CallFacts DEF Spawn, mapVars, panelVars, IInv, TypeOK, MapsOK
<1>2. ArmsOK'
  BY CallFacts DEF Spawn, mapVars, panelVars, IInv, ArmsOK
<1>3. FreshUntouched'
  BY CallFacts DEF Spawn, mapVars, panelVars, IInv, FreshUntouched, Untouched, TypeOK
<1>4. MapsOK'
  BY CallFacts DEF Spawn, mapVars, panelVars, IInv, MapsOK, TypeOK, FreshUntouched, Untouched
<1>5. QuestionsOK'
  BY CallFacts DEF Spawn, mapVars, panelVars, IInv, QuestionsOK, TypeOK
<1>6. OneCard'
  BY CallFacts, UnsentIsOnce DEF Spawn, mapVars, panelVars, IInv, OneCard, FreshUntouched, Untouched, TypeOK, MapsOK
<1>7. ClicksAgree'
  BY CallFacts DEF Spawn, mapVars, panelVars, IInv, ClicksAgree, TypeOK, FreshUntouched, Untouched
<1>8. ConsentBeforeEffect'
  BY CallFacts DEF Spawn, mapVars, panelVars, IInv, ConsentBeforeEffect, ArmsOK, DecisionsCount, TypeOK, MapsOK
<1>9. DecisionsCount'
  BY CallFacts DEF Spawn, mapVars, panelVars, IInv, DecisionsCount, MapsOK, FreshUntouched, Untouched, TypeOK
<1> QED
  BY <1>1, <1>2, <1>3, <1>4, <1>5, <1>6, <1>7, <1>8, <1>9 DEF IInv

(* A Stop raises the flag; the calls see it later. *)
LEMMA StopKeeps ==
  ASSUME IInv, Stop
  PROVE  IInv'
<1>1. TypeOK'
  BY CallFacts DEF Stop, mapVars, panelVars, IInv, TypeOK, MapsOK
<1>2. ArmsOK'
  BY CallFacts DEF Stop, mapVars, panelVars, IInv, ArmsOK
<1>3. FreshUntouched'
  BY CallFacts DEF Stop, mapVars, panelVars, IInv, FreshUntouched, Untouched, TypeOK
<1>4. MapsOK'
  BY CallFacts DEF Stop, mapVars, panelVars, IInv, MapsOK, TypeOK, FreshUntouched, Untouched
<1>5. QuestionsOK'
  BY CallFacts DEF Stop, mapVars, panelVars, IInv, QuestionsOK, TypeOK
<1>6. OneCard'
  BY CallFacts, UnsentIsOnce DEF Stop, mapVars, panelVars, IInv, OneCard, FreshUntouched, Untouched, TypeOK, MapsOK
<1>7. ClicksAgree'
  BY CallFacts DEF Stop, mapVars, panelVars, IInv, ClicksAgree, TypeOK, FreshUntouched, Untouched
<1>8. ConsentBeforeEffect'
  BY CallFacts DEF Stop, mapVars, panelVars, IInv, ConsentBeforeEffect, ArmsOK, DecisionsCount, TypeOK, MapsOK
<1>9. DecisionsCount'
  BY CallFacts DEF Stop, mapVars, panelVars, IInv, DecisionsCount, MapsOK, FreshUntouched, Untouched, TypeOK
<1> QED
  BY <1>1, <1>2, <1>3, <1>4, <1>5, <1>6, <1>7, <1>8, <1>9 DEF IInv

(* A subagent ends with its calls over. *)
LEMMA SubagentEndsKeeps ==
  ASSUME IInv, NEW a \in Subs, SubagentEnds(a)
  PROVE  IInv'
<1>1. TypeOK'
  BY CallFacts DEF SubagentEnds, mapVars, panelVars, IInv, TypeOK, MapsOK
<1>2. ArmsOK'
  BY CallFacts DEF SubagentEnds, mapVars, panelVars, IInv, ArmsOK
<1>3. FreshUntouched'
  BY CallFacts DEF SubagentEnds, mapVars, panelVars, IInv, FreshUntouched, Untouched, TypeOK
<1>4. MapsOK'
  BY CallFacts DEF SubagentEnds, mapVars, panelVars, IInv, MapsOK, TypeOK, FreshUntouched, Untouched
<1>5. QuestionsOK'
  BY CallFacts DEF SubagentEnds, mapVars, panelVars, IInv, QuestionsOK, TypeOK
<1>6. OneCard'
  BY CallFacts, UnsentIsOnce DEF SubagentEnds, mapVars, panelVars, IInv, OneCard, FreshUntouched, Untouched, TypeOK, MapsOK
<1>7. ClicksAgree'
  BY CallFacts DEF SubagentEnds, mapVars, panelVars, IInv, ClicksAgree, TypeOK, FreshUntouched, Untouched
<1>8. ConsentBeforeEffect'
  BY CallFacts DEF SubagentEnds, mapVars, panelVars, IInv, ConsentBeforeEffect, ArmsOK, DecisionsCount, TypeOK, MapsOK
<1>9. DecisionsCount'
  BY CallFacts DEF SubagentEnds, mapVars, panelVars, IInv, DecisionsCount, MapsOK, FreshUntouched, Untouched, TypeOK
<1> QED
  BY <1>1, <1>2, <1>3, <1>4, <1>5, <1>6, <1>7, <1>8, <1>9 DEF IInv

(* A run ends with every call over, so nothing is left in the maps. *)
LEMMA RunEndsKeeps ==
  ASSUME IInv, RunEnds
  PROVE  IInv'
<1>e. PICK e \in Events : /\ events' = events \o <<e>> /\ events \in Seq(Events)
                          /\ \A d \in Ids : e # Card(d)
  <2>1. PICK kind \in {"done", "error"} : events' = events \o <<[kind |-> kind, call |-> 0]>>
    BY DEF RunEnds, Tell
  <2> DEFINE e == [kind |-> kind, call |-> 0]
  <2>2. e \in Events /\ \A d \in Ids : e # Card(d)
    BY CardIsEvent DEF Events
  <2> HIDE DEF e
  <2>3. events' = events \o <<e>>
    BY <2>1 DEF e
  <2> QED
    BY <2>2, <2>3 DEF IInv, TypeOK
<1>s. /\ events' \in Seq(Events)
      /\ \A d \in Ids : Sent(events', d) <=> Sent(events, d)
      /\ \A d \in Ids : Once(events, d) => Once(events', d)
  BY <1>e, SendOne
<1>1. TypeOK'
  BY CallFacts, <1>s DEF RunEnds, mapVars, panelVars, IInv, TypeOK, MapsOK
<1>2. ArmsOK'
  BY CallFacts, <1>s DEF RunEnds, mapVars, panelVars, IInv, ArmsOK
<1>3. FreshUntouched'
  BY CallFacts, <1>s DEF RunEnds, mapVars, panelVars, IInv, FreshUntouched, Untouched, TypeOK
<1>4. MapsOK'
  BY CallFacts, <1>s DEF RunEnds, mapVars, panelVars, IInv, MapsOK, TypeOK, FreshUntouched, Untouched
<1>5. QuestionsOK'
  BY CallFacts, <1>s DEF RunEnds, mapVars, panelVars, IInv, QuestionsOK, TypeOK
<1>6. OneCard'
  BY CallFacts, UnsentIsOnce, <1>s DEF RunEnds, mapVars, panelVars, IInv, OneCard, FreshUntouched, Untouched, TypeOK, MapsOK
<1>7. ClicksAgree'
  BY CallFacts, <1>s DEF RunEnds, mapVars, panelVars, IInv, ClicksAgree, TypeOK, FreshUntouched, Untouched
<1>8. ConsentBeforeEffect'
  BY CallFacts, <1>s DEF RunEnds, mapVars, panelVars, IInv, ConsentBeforeEffect, ArmsOK, DecisionsCount, TypeOK, MapsOK
<1>9. DecisionsCount'
  BY CallFacts, <1>s DEF RunEnds, mapVars, panelVars, IInv, DecisionsCount, MapsOK, FreshUntouched, Untouched, TypeOK
<1> QED
  BY <1>1, <1>2, <1>3, <1>4, <1>5, <1>6, <1>7, <1>8, <1>9 DEF IInv

(* What the panel is told changes what it shows, not what was decided. *)
LEMMA DeliverKeeps ==
  ASSUME IInv, Deliver
  PROVE  IInv'
<1>s. /\ events' \in Seq(Events) /\ Head(events) \in Events
      /\ \A d \in Ids : Sent(events', d) => Sent(events, d)
      /\ \A d \in Ids : Head(events) = Card(d) => Sent(events, d)
      /\ \A d \in Ids : Once(events, d) => Once(events', d)
      /\ \A d \in Ids : Once(events, d) /\ Head(events) = Card(d) => ~ Sent(events', d)
  BY DeliverOne DEF Deliver, IInv, TypeOK
<1>c. \/ \E c \in Ids : Head(events) = Card(c) /\ cards' = [cards EXCEPT ![c] = @ + 1]
      \/ cards' = cards
      \/ cards' = NoCards
  BY <1>s DEF Deliver, ShowCard, Events, Card
<1>t. /\ question' \in Ids \cup {0}
      /\ status' \in {"idle", "thinking", "awaiting_approval", "awaiting_input"}
  BY <1>s DEF Deliver, ShowCard, Events, IInv, TypeOK
<1>u. UNCHANGED <<run, stop, team, calls, stage, mapVars, ran, clicks, decided, clashed>>
  BY DEF Deliver
<1>v. /\ cards' \in [Ids -> Nat]
      /\ \A d \in Ids : cards'[d] # 0 => cards[d] # 0 \/ Head(events) = Card(d)
  <2> cards \in [Ids -> Nat]
    BY DEF IInv, TypeOK
  <2>1. CASE \E c \in Ids : Head(events) = Card(c) /\ cards' = [cards EXCEPT ![c] = @ + 1]
    BY <2>1
  <2>2. CASE cards' = cards
    BY <2>2
  <2>3. CASE cards' = NoCards
    BY <2>3 DEF NoCards
  <2> QED
    BY <1>c, <2>1, <2>2, <2>3
<1>1. TypeOK'
  BY CallFacts, <1>s, <1>t, <1>u, <1>v DEF mapVars, IInv, TypeOK, MapsOK
<1>2. ArmsOK'
  BY CallFacts, <1>s, <1>t, <1>u, <1>v DEF mapVars, IInv, ArmsOK
<1>3. FreshUntouched'
  BY CallFacts, <1>s, <1>t, <1>u, <1>v DEF mapVars, IInv, FreshUntouched, Untouched, TypeOK
<1>4. MapsOK'
  BY CallFacts, <1>s, <1>t, <1>u, <1>v DEF mapVars, IInv, MapsOK, TypeOK, FreshUntouched, Untouched
<1>5. QuestionsOK'
  BY CallFacts, <1>s, <1>t, <1>u, <1>v DEF mapVars, IInv, QuestionsOK, TypeOK
<1>6. OneCard'
  BY CallFacts, UnsentIsOnce, <1>s, <1>t, <1>u, <1>v DEF mapVars, IInv, OneCard, FreshUntouched, Untouched, TypeOK, MapsOK
<1>7. ClicksAgree'
  BY CallFacts, <1>s, <1>t, <1>u, <1>v DEF mapVars, IInv, ClicksAgree, TypeOK, FreshUntouched, Untouched
<1>8. ConsentBeforeEffect'
  BY CallFacts, <1>s, <1>t, <1>u, <1>v DEF mapVars, IInv, ConsentBeforeEffect, ArmsOK, DecisionsCount, TypeOK, MapsOK
<1>9. DecisionsCount'
  BY CallFacts, <1>s, <1>t, <1>u, <1>v DEF mapVars, IInv, DecisionsCount, MapsOK, FreshUntouched, Untouched, TypeOK
<1> QED
  BY <1>1, <1>2, <1>3, <1>4, <1>5, <1>6, <1>7, <1>8, <1>9 DEF IInv

(* An answer goes to the question that is shown. *)
LEMMA AnswerKeeps ==
  ASSUME IInv, Answer
  PROVE  IInv'
<1>1. TypeOK'
  BY CallFacts DEF Answer, mapVars, IInv, TypeOK, MapsOK, QuestionsOK
<1>2. ArmsOK'
  BY CallFacts DEF Answer, mapVars, IInv, ArmsOK, QuestionsOK, TypeOK
<1>3. FreshUntouched'
  BY CallFacts DEF Answer, mapVars, IInv, FreshUntouched, Untouched, TypeOK, QuestionsOK
<1>4. MapsOK'
  BY CallFacts DEF Answer, mapVars, IInv, MapsOK, TypeOK, FreshUntouched, Untouched, QuestionsOK
<1>5. QuestionsOK'
  BY CallFacts DEF Answer, mapVars, IInv, QuestionsOK, TypeOK
<1>6. OneCard'
  BY CallFacts, UnsentIsOnce DEF Answer, mapVars, IInv, OneCard, FreshUntouched, Untouched, TypeOK, MapsOK, QuestionsOK
<1>7. ClicksAgree'
  BY CallFacts DEF Answer, mapVars, IInv, ClicksAgree, TypeOK, FreshUntouched, Untouched, QuestionsOK
<1>8. ConsentBeforeEffect'
  BY CallFacts DEF Answer, mapVars, IInv, ConsentBeforeEffect, ArmsOK, DecisionsCount, TypeOK, MapsOK, QuestionsOK
<1>9. DecisionsCount'
  <2> SUFFICES ASSUME NEW c \in DOMAIN calls
               PROVE  /\ reply[c] \in {"none", decided'[c]}
                      /\ stage[c] = "waiting" /\ reply[c] = "none" /\ decided'[c] # "none" =>
                           \E k \in clicks' : k.call = c /\ k.answer = decided'[c]
    BY DEF Answer, mapVars, DecisionsCount
  <2>1. CASE c = question
    <3>1. decided'[c] = "yes" /\ reply[c] \in {"none", "yes"}
      BY <2>1 DEF Answer, IInv, TypeOK, QuestionsOK
    <3>2. [call |-> c, answer |-> "yes"] \in clicks'
      BY <2>1 DEF Answer
    <3> QED
      BY <3>1, <3>2
  <2>2. CASE c # question
    BY <2>2, CallFacts DEF Answer, IInv, DecisionsCount, TypeOK
  <2> QED
    BY <2>1, <2>2
<1> QED
  BY <1>1, <1>2, <1>3, <1>4, <1>5, <1>6, <1>7, <1>8, <1>9 DEF IInv

(* The first click on a card is the decision on its call. *)
LEMMA ClickKeeps ==
  ASSUME IInv, NEW c \in Ids, NEW yes \in {"yes", "no"}, Click(c, yes)
  PROVE  IInv'
<1>c. c \in DOMAIN calls
  BY CallFacts DEF Click, IInv, FreshUntouched, Untouched
<1>n. c \in approvals \cup answers => decided[c] = "none" /\ c \in approvals
  BY <1>c DEF Click, IInv, OneCard, QuestionsOK, TypeOK
<1>o. /\ cards' = [cards EXCEPT ![c] = 0]
      /\ status' \in {"idle", "thinking", "awaiting_approval", "awaiting_input"}
      /\ clashed' \in BOOLEAN
  BY DEF Click, Others, AfterClick, IInv, TypeOK
<1>1. TypeOK'
  BY CallFacts, <1>c, <1>o DEF Click, mapVars, IInv, TypeOK, MapsOK, QuestionsOK
<1>2. ArmsOK'
  BY CallFacts, <1>c, <1>o DEF Click, mapVars, IInv, ArmsOK, QuestionsOK, TypeOK
<1>3. FreshUntouched'
  BY CallFacts, <1>c, <1>o DEF Click, mapVars, IInv, FreshUntouched, Untouched, TypeOK, QuestionsOK
<1>4. MapsOK'
  BY CallFacts, <1>c, <1>o DEF Click, mapVars, IInv, MapsOK, TypeOK, FreshUntouched, Untouched, QuestionsOK
<1>5. QuestionsOK'
  BY CallFacts, <1>c, <1>o DEF Click, mapVars, IInv, QuestionsOK, TypeOK
<1>6. OneCard'
  BY CallFacts, UnsentIsOnce, <1>c, <1>o DEF Click, mapVars, IInv, OneCard, FreshUntouched, Untouched, TypeOK, MapsOK, QuestionsOK
<1>7. ClicksAgree'
  <2> SUFFICES ASSUME NEW k \in clicks', k.call \in approvals \cup answers
               PROVE  k.answer = decided'[k.call]
    BY DEF Click, mapVars, ClicksAgree
  <2>1. CASE k \in clicks /\ k.call # c
    BY <2>1, CallFacts DEF Click, IInv, ClicksAgree, TypeOK
  <2>2. CASE k.call = c
    <3>1. decided[c] = "none" /\ c \in approvals
      BY <1>n, <2>2
    <3>2. decided'[c] = yes
      BY <3>1 DEF Click, IInv, TypeOK
    <3>3. k \notin clicks
      BY <2>2, <3>1, CallFacts DEF IInv, ClicksAgree
    <3>4. k.answer = yes
      BY <3>3 DEF Click
    <3> QED
      BY <2>2, <3>2, <3>4
  <2>3. k \in clicks \/ k.call = c
    BY DEF Click
  <2> QED
    BY <2>1, <2>2, <2>3
<1>8. ConsentBeforeEffect'
  BY CallFacts, <1>c, <1>o DEF Click, mapVars, IInv, ConsentBeforeEffect, ArmsOK, DecisionsCount, TypeOK, MapsOK, QuestionsOK
<1>9. DecisionsCount'
  <2> SUFFICES ASSUME NEW d \in DOMAIN calls
               PROVE  /\ reply[d] \in {"none", decided'[d]}
                      /\ stage[d] = "waiting" /\ reply[d] = "none" /\ decided'[d] # "none" =>
                           \E k \in clicks' : k.call = d /\ k.answer = decided'[d]
    BY DEF Click, mapVars, DecisionsCount
  <2>1. CASE d = c
    <3>1. reply[c] \in {"none", decided'[c]}
      BY <1>c DEF Click, IInv, TypeOK, DecisionsCount
    <3>2. ASSUME stage[c] = "waiting", reply[c] = "none"
          PROVE  decided'[c] = yes /\ [call |-> c, answer |-> yes] \in clicks'
      <4>1. c \in approvals \cup answers
        BY <3>2 DEF IInv, MapsOK
      <4> QED
        BY <1>n, <4>1 DEF Click, IInv, TypeOK
    <3> QED
      BY <2>1, <3>1, <3>2
  <2>2. CASE d # c
    <3>1. decided'[d] = decided[d]
      BY <2>2, CallFacts DEF Click, IInv, TypeOK
    <3>2. clicks \subseteq clicks'
      BY DEF Click
    <3> QED
      BY <3>1, <3>2 DEF IInv, DecisionsCount
  <2> QED
    BY <2>1, <2>2
<1> QED
  BY <1>1, <1>2, <1>3, <1>4, <1>5, <1>6, <1>7, <1>8, <1>9 DEF IInv

(* A click that arrives answers the call that still has its entry, as it was decided. *)
LEMMA CommandKeeps ==
  ASSUME IInv, NEW k \in clicks, Command(k)
  PROVE  IInv'
<1>1. TypeOK'
  <2>1. /\ k.call \in Ids /\ k.answer \in {"yes", "no"}
        /\ clicks' \subseteq clicks
        /\ approvals' \subseteq approvals /\ answers' \subseteq answers
    BY CallFacts DEF Command, Removed, mapVars, IInv
  <2>2. reply' \in [Ids -> {"none", "yes", "no"}]
    BY <2>1 DEF Command, mapVars, IInv, TypeOK
  <2>3. UNCHANGED <<run, stop, team, calls, stage, ran, events, cards, question, status, decided,
                    clashed>>
    BY DEF Command
  <2> QED
    BY <2>1, <2>2, <2>3 DEF IInv, TypeOK
<1>2. ArmsOK'
  BY CallFacts DEF Command, Removed, mapVars, IInv, ArmsOK, QuestionsOK, ClicksAgree, TypeOK
<1>3. FreshUntouched'
  BY CallFacts DEF Command, Removed, mapVars, IInv, FreshUntouched, Untouched, TypeOK, QuestionsOK, ClicksAgree
<1>4. MapsOK'
  BY CallFacts DEF Command, Removed, mapVars, IInv, MapsOK, TypeOK, FreshUntouched, Untouched, QuestionsOK, ClicksAgree
<1>5. QuestionsOK'
  BY CallFacts DEF Command, Removed, mapVars, IInv, QuestionsOK, TypeOK, ClicksAgree
<1>6. OneCard'
  BY CallFacts, UnsentIsOnce DEF Command, Removed, mapVars, IInv, OneCard, FreshUntouched, Untouched, TypeOK, MapsOK, QuestionsOK, ClicksAgree
<1>7. ClicksAgree'
  BY CallFacts DEF Command, Removed, mapVars, IInv, ClicksAgree, TypeOK, FreshUntouched, Untouched, QuestionsOK
<1>8. ConsentBeforeEffect'
  BY CallFacts DEF Command, Removed, mapVars, IInv, ConsentBeforeEffect, ArmsOK, DecisionsCount, TypeOK, MapsOK, QuestionsOK, ClicksAgree
<1>9. DecisionsCount'
  BY CallFacts DEF Command, Removed, mapVars, IInv, DecisionsCount, MapsOK, FreshUntouched, Untouched, TypeOK, QuestionsOK, ClicksAgree
<1> QED
  BY <1>1, <1>2, <1>3, <1>4, <1>5, <1>6, <1>7, <1>8, <1>9 DEF IInv

-----------------------------------------------------------------------------
(* The policy: an arm lets through no more than what is due. *)

(* The policy alone: what an arm lets run unasked is due unasked, and what is asked may be asked. *)
LEMMA ArmsAllow ==
  ASSUME NEW a \in Agents, NEW tool \in Tools, NEW verdict \in Verdicts, NEW yolo \in BOOLEAN
  PROVE  /\ Arm(a, tool, verdict, yolo) \in Arms
         /\ Due(tool, verdict, yolo) \in {"never", "unasked", "asked"}
         /\ Arm(a, tool, verdict, yolo) = "free" => Due(tool, verdict, yolo) = "unasked"
         /\ Arm(a, tool, verdict, yolo) \in Gated =>
              Due(tool, verdict, yolo) \in {"unasked", "asked"}
<1>1. Due(tool, verdict, yolo) \in {"never", "unasked", "asked"}
  BY DEF Due, Tools, Verdicts
<1>2. Arm(a, tool, verdict, yolo) \in Arms
  BY DEF Arm, Arms, Gated, Asking, Tools, Verdicts
<1>3. CASE tool = "refused" \/ tool = "question" \/ verdict = "deny"
  <2>1. Arm(a, tool, verdict, yolo) \in Asking \cup {"denied"}
    BY <1>3 DEF Arm, Asking, Effective, PolicyDenies, Tools, Verdicts
  <2> QED
    BY <1>1, <1>2, <2>1 DEF Gated, Asking
<1>4. CASE tool \notin {"refused", "question"} /\ verdict # "deny"
  <2>1. Due(tool, verdict, yolo) \in {"unasked", "asked"}
    BY <1>4 DEF Due, Tools, Verdicts
  <2>2. ASSUME Arm(a, tool, verdict, yolo) = "free"
        PROVE  Due(tool, verdict, yolo) = "unasked"
    <3>1. verdict \in {"none", "allow"}
      BY <1>4, <2>2 DEF Arm, Effective, PolicyDenies, Tools, Verdicts
    <3>2. CASE tool \in {"read", "listed"}
      BY <3>1, <3>2 DEF Due
    <3>3. CASE tool \in {"edit", "command"}
      <4>1. Relaxed(tool, verdict, yolo) = "auto"
        BY <1>4, <2>2, <3>1, <3>3 DEF Arm, Effective, PolicyDenies, Relaxed, ByName
      <4> QED
        BY <3>1, <3>3, <4>1 DEF Due, Relaxed, ByName
    <3> QED
      BY <1>4, <3>2, <3>3 DEF Tools
  <2> QED
    BY <1>1, <1>2, <2>1, <2>2
<1> QED
  BY <1>3, <1>4

(* A new call has an arm that agrees with what is due. *)
LEMMA CallKeeps ==
  ASSUME IInv, NEW a \in Agents, Call(a)
  PROVE  IInv'
<1>a. PICK tool \in Tools, verdict \in Verdicts, yolo \in BOOLEAN :
        calls' = Append(calls, [by |-> a, arm |-> Arm(a, tool, verdict, yolo),
                                due |-> Due(tool, verdict, yolo)])
  BY DEF Call
<1> DEFINE r == [by |-> a, arm |-> Arm(a, tool, verdict, yolo), due |-> Due(tool, verdict, yolo)]
           n == Len(calls) + 1
           R == [by : Agents, arm : Arms, due : {"never", "unasked", "asked"}]
<1>r. /\ r \in R
      /\ r.arm = "free" => r.due = "unasked"
      /\ r.arm \in Gated => r.due \in {"unasked", "asked"}
  BY ArmsAllow
<1>t. calls \in Seq(R) /\ calls' = Append(calls, r)
  BY <1>a DEF IInv, TypeOK
<1>u. /\ Len(calls) < MaxCalls /\ stage' = [stage EXCEPT ![Len(calls) + 1] = "new"]
      /\ UNCHANGED <<run, stop, team, mapVars, ran, events, panelVars>>
  BY DEF Call
<1> HIDE DEF r, R
<1>v. /\ calls' \in Seq(R) /\ Len(calls') = n /\ Len(calls) \in Nat
      /\ DOMAIN calls = 1..Len(calls) /\ DOMAIN calls' = DOMAIN calls \cup {n}
      /\ \A c \in DOMAIN calls : calls'[c] = calls[c]
      /\ calls'[n] = r
      /\ n \notin DOMAIN calls
  <2> r \in R
    BY <1>r
  <2>1. Len(calls) \in Nat /\ DOMAIN calls = 1..Len(calls)
    BY <1>t
  <2>2. /\ calls' \in Seq(R) /\ Len(calls') = Len(calls) + 1
        /\ \A c \in 1..Len(calls) : calls'[c] = calls[c]
        /\ calls'[Len(calls) + 1] = r
    BY <1>t
  <2>3. DOMAIN calls' = 1..Len(calls) + 1
    BY <2>2
  <2> QED
    BY <2>1, <2>2, <2>3
<1>n. n \in Ids /\ n <= MaxCalls /\ stage[n] = "unused" /\ DOMAIN calls \subseteq Ids
  BY <1>u, <1>v, ConsentAssumption DEF Ids, IInv, TypeOK
<1>w. Untouched(n)
  BY <1>n DEF IInv, FreshUntouched
<1>x. stage' = [stage EXCEPT ![n] = "new"]
  BY <1>u
<1> HIDE DEF n
<1>y. /\ stage' \in [Ids -> {"unused", "new", "registered", "asked", "waiting", "running", "over"}]
      /\ stage'[n] = "new"
      /\ \A c \in Ids : c # n => stage'[c] = stage[c]
  BY <1>n, <1>x DEF IInv, TypeOK
<1>z. \A c \in Ids : c # n /\ stage[c] # "unused" => c \in DOMAIN calls /\ calls'[c] = calls[c]
  BY <1>v DEF IInv, TypeOK
<1>1. TypeOK'
  <2>1. calls' \in Seq([by : Agents, arm : Arms, due : {"never", "unasked", "asked"}])
    BY <1>v DEF R
  <2>2. \A c \in Ids : stage'[c] = "unused" <=> c \notin DOMAIN calls'
    BY <1>v, <1>y, <1>n DEF IInv, TypeOK
  <2>3. approvals' \subseteq {c \in Ids : stage'[c] \in {"registered", "waiting"} /\ calls'[c].arm \in Gated}
    BY <1>u, <1>v, <1>y, <1>z, <1>n DEF IInv, TypeOK, mapVars
  <2>4. answers' \subseteq {c \in Ids : stage'[c] = "waiting" /\ calls'[c].arm = "question"}
    BY <1>u, <1>v, <1>y, <1>z, <1>n DEF IInv, TypeOK, mapVars
  <2>5. ran' \subseteq DOMAIN calls'
    BY <1>u, <1>v DEF IInv, TypeOK
  <2>6. clicks' \subseteq [call : DOMAIN calls', answer : {"yes", "no"}]
    <3>1. clicks' = clicks /\ clicks \subseteq [call : DOMAIN calls, answer : {"yes", "no"}]
      BY <1>u DEF IInv, TypeOK, panelVars
    <3>2. DOMAIN calls \subseteq DOMAIN calls'
      BY <1>v
    <3> QED
      BY <3>1, <3>2
  <2> QED
    BY <1>u, <1>v, <1>n, <1>y, <2>1, <2>2, <2>3, <2>4, <2>5, <2>6 DEF IInv, TypeOK, mapVars, panelVars
<1>2. ArmsOK'
  BY CallFacts, <1>r, <1>u, <1>v, <1>n, <1>w, <1>y, <1>z DEF mapVars, panelVars, IInv, ArmsOK, Untouched
<1>3. FreshUntouched'
  BY CallFacts, <1>r, <1>u, <1>v, <1>n, <1>w, <1>y, <1>z DEF mapVars, panelVars, IInv, FreshUntouched, Untouched, TypeOK
<1>4. MapsOK'
  BY CallFacts, <1>r, <1>u, <1>v, <1>n, <1>w, <1>y, <1>z DEF mapVars, panelVars, IInv, MapsOK, TypeOK, FreshUntouched, Untouched
<1>5. QuestionsOK'
  BY CallFacts, <1>r, <1>u, <1>v, <1>n, <1>w, <1>y, <1>z DEF mapVars, panelVars, IInv, QuestionsOK, TypeOK, Untouched
<1>6. OneCard'
  BY CallFacts, UnsentIsOnce, <1>r, <1>u, <1>v, <1>n, <1>w, <1>y, <1>z DEF mapVars, panelVars, IInv, OneCard, FreshUntouched, Untouched, TypeOK, MapsOK
<1>7. ClicksAgree'
  BY CallFacts, <1>r, <1>u, <1>v, <1>n, <1>w, <1>y, <1>z DEF mapVars, panelVars, IInv, ClicksAgree, TypeOK, FreshUntouched, Untouched
<1>8. ConsentBeforeEffect'
  BY CallFacts, <1>r, <1>u, <1>v, <1>n, <1>w, <1>y, <1>z DEF mapVars, panelVars, IInv, ConsentBeforeEffect, ArmsOK, DecisionsCount, TypeOK, MapsOK, Untouched
<1>9. DecisionsCount'
  BY CallFacts, <1>r, <1>u, <1>v, <1>n, <1>w, <1>y, <1>z DEF mapVars, panelVars, IInv, DecisionsCount, MapsOK, FreshUntouched, Untouched, TypeOK
<1> QED
  BY <1>1, <1>2, <1>3, <1>4, <1>5, <1>6, <1>7, <1>8, <1>9 DEF IInv

-----------------------------------------------------------------------------
(* The invariant holds before the first run. *)
LEMMA StartsWell ==
  ASSUME Init
  PROVE  IInv
<1>1. calls = <<>> /\ DOMAIN calls = {} /\ Len(calls) = 0 /\ events = <<>> /\ DOMAIN events = {}
  BY DEF Init
<1>2. \A c \in Ids : ~ Sent(events, c)
  BY <1>1 DEF Sent
<1>3. TypeOK
  <2>1. calls \in Seq([by : Agents, arm : Arms, due : {"never", "unasked", "asked"}])
    BY <1>1
  <2>2. events \in Seq(Events)
    BY <1>1
  <2>3. /\ stage \in [Ids -> {"unused", "new", "registered", "asked", "waiting", "running", "over"}]
        /\ reply \in [Ids -> {"none", "yes", "no"}] /\ decided \in [Ids -> {"none", "yes", "no"}]
        /\ cards \in [Ids -> Nat]
    BY DEF Init, NoCards
  <2>4. \A c \in Ids : stage[c] = "unused" <=> c \notin DOMAIN calls
    BY <1>1 DEF Init
  <2>5. /\ team = {} /\ approvals = {} /\ answers = {} /\ ran = {} /\ clicks = {}
        /\ question = 0 /\ status = "idle"
    BY DEF Init
  <2>6. run \in BOOLEAN /\ stop \in BOOLEAN /\ clashed \in BOOLEAN
    BY DEF Init
  <2>7. Len(calls) <= MaxCalls
    BY <1>1, ConsentAssumption
  <2> HIDE DEF Init
  <2> QED
    BY <2>1, <2>2, <2>3, <2>4, <2>5, <2>6, <2>7 DEF TypeOK
<1>4. \A c \in Ids : stage[c] = "unused" /\ Untouched(c)
  BY <1>2 DEF Init, Untouched, NoCards
<1>5. ArmsOK /\ QuestionsOK /\ DecisionsCount
  BY <1>1 DEF ArmsOK, QuestionsOK, DecisionsCount
<1>6. FreshUntouched /\ MapsOK /\ OneCard /\ ClicksAgree /\ ConsentBeforeEffect
  BY <1>4 DEF Init, FreshUntouched, MapsOK, OneCard, ClicksAgree, ConsentBeforeEffect
<1> QED
  BY <1>3, <1>5, <1>6 DEF IInv

(* Every step keeps the invariant. *)
LEMMA StepKeeps ==
  ASSUME IInv, [Next]_vars
  PROVE  IInv'
<1>1. CASE UNCHANGED vars
  BY <1>1 DEF vars, IInv, TypeOK, ArmsOK, FreshUntouched, Untouched, MapsOK, QuestionsOK, OneCard,
              ClicksAgree, ConsentBeforeEffect, DecisionsCount, Sent, Once
<1>2. CASE Send \/ Spawn \/ RunEnds \/ Stop \/ Deliver \/ Answer
  BY <1>2, SendKeeps, SpawnKeeps, RunEndsKeeps, StopKeeps, DeliverKeeps, AnswerKeeps
<1>3. CASE \E a \in Agents : Call(a)
  BY <1>3, CallKeeps
<1>4. CASE \E a \in Subs : SubagentEnds(a)
  BY <1>4, SubagentEndsKeeps
<1>5. CASE \E c \in Ids : ToolStep(c)
  BY <1>5, RefuseKeeps, RunFreeKeeps, RegisterKeeps, AnnounceKeeps, ApprovedKeeps, RejectedKeeps,
     FinishKeeps, AskUserKeeps, AwaitAnswerKeeps, AnsweredKeeps DEF ToolStep
<1>6. CASE \E c \in Ids, yes \in {"yes", "no"} : Click(c, yes)
  BY <1>6, ClickKeeps
<1>7. CASE \E k \in clicks : Command(k)
  BY <1>7, CommandKeeps
<1> QED
  BY <1>1, <1>2, <1>3, <1>4, <1>5, <1>6, <1>7 DEF Next

(* The invariant holds in every reachable state. *)
LEMMA Invariance == Spec => []IInv
<1>1. Init => IInv
  BY StartsWell
<1>2. IInv /\ [Next]_vars => IInv'
  BY StepKeeps
<1> QED
  BY <1>1, <1>2, PTL DEF Spec

(* Every variable has its type and every key in the two maps belongs to a call about to wait or
   waiting (the approvals and answers maps of AppState). *)
THEOREM TypeCorrect == Spec => []TypeOK
<1>1. IInv => TypeOK
  BY DEF IInv
<1> QED
  BY <1>1, Invariance, PTL

(* Whatever the subagents, the hooks' verdicts, the order of clicks and of events, no call takes
   effect beyond the policy without the person's approval of that call, and none that is refused
   does (run_tool and the two commands). *)
THEOREM ConsentIsAsked == Spec => []ConsentBeforeEffect
<1>1. IInv => ConsentBeforeEffect
  BY DEF IInv
<1> QED
  BY <1>1, Invariance, PTL

(* A tool is told what the person clicked first, and a click on a waiting call is never lost
   (approve_tool, reject_tool and submit_answers against Register and AwaitAnswer). *)
THEOREM DecisionsAreKept == Spec => []DecisionsCount
<1>1. IInv => DecisionsCount
  BY DEF IInv
<1> QED
  BY <1>1, Invariance, PTL

-----------------------------------------------------------------------------
(* What waits is shown.  The invariant adds who is at work, where the end of a *)
(* run stands in the channel, and how far each card and question has come.     *)

Ends   == {"done", "error"}
Ask(c) == [kind |-> "question", call |-> c]

(* No event after the i-th takes the panel out of the wait for a click on a card. *)
LastWord(seq, i) == \A j \in DOMAIN seq : j > i => seq[j].kind \notin {"question", "answered"}

CardComes(seq, c) == \E i \in DOMAIN seq : seq[i] = Card(c) /\ LastWord(seq, i)
AskComes(seq, c)  == seq # <<>> /\ seq[Len(seq)] = Ask(c)

Stages     == {"unused", "new", "registered", "asked", "waiting", "running", "over"}
Open(c)    == stage[c] # "over"
Unheard(c) == reply[c] = "none" /\ \A k \in clicks : k.call # c

(* An agent has one call at a time, main none while its subagents work, and a run goes on while
   a call is open. *)
AgentsOK ==
  /\ team # {} => run
  /\ \A c \in DOMAIN calls : Open(c) => run /\ calls[c].by \in IF team = {} THEN {"main"} ELSE team
  /\ \A c, d \in DOMAIN calls : Open(c) /\ Open(d) /\ calls[c].by = calls[d].by => c = d
  /\ \A c \in DOMAIN calls : calls[c].arm \in Asking => calls[c].by = "main"

(* The end of a run is the last thing the panel hears, and the next run waits for it. *)
EndsOK ==
  /\ run => status # "idle"
  /\ \A i \in DOMAIN events :
       events[i].kind \in Ends => i = Len(events) /\ ~run /\ status # "idle"

(* What waits and has not been answered is shown, or about to be. *)
CardSeen(c) ==
  stage[c] = "waiting" /\ calls[c].arm \in Gated /\ Unheard(c) =>
    \/ CardComes(events, c)
    \/ cards[c] > 0 /\ LastWord(events, 0) /\ (status = "awaiting_approval" \/ clashed)

QuestionSeen(c) ==
  stage[c] \in {"asked", "waiting"} /\ calls[c].arm = "question" /\ Unheard(c) =>
    \/ AskComes(events, c)
    \/ events = <<>> /\ question = c /\ status = "awaiting_input"

Shown == AgentsOK /\ EndsOK /\ \A c \in DOMAIN calls : CardSeen(c) /\ QuestionSeen(c)

(* An event sent behind it keeps a card or a question coming. *)
LEMMA ComesAfterSending ==
  ASSUME NEW s \in Seq(Events), NEW e \in Events, NEW t, t = s \o <<e>>, NEW c
  PROVE  /\ e.kind = "card" /\ CardComes(s, c) => CardComes(t, c)
         /\ e.kind = "card" /\ LastWord(s, 0) => LastWord(t, 0)
         /\ e = Card(c) => CardComes(t, c)
         /\ e = Ask(c) => AskComes(t, c)
<1>1. /\ DOMAIN s = 1..Len(s) /\ Len(s) \in Nat /\ DOMAIN t = 1..Len(s) + 1 /\ Len(t) = Len(s) + 1
      /\ \A i \in DOMAIN s : t[i] = s[i] /\ i \in DOMAIN t
      /\ t[Len(s) + 1] = e /\ t # <<>>
  OBVIOUS
<1>2. \A i \in DOMAIN t : i \in DOMAIN s \/ i = Len(s) + 1
  BY <1>1
<1>3. e.kind = "card" => \A i : LastWord(s, i) => LastWord(t, i)
  BY <1>1, <1>2 DEF LastWord
<1>4. LastWord(t, Len(s) + 1) /\ Len(s) + 1 \in DOMAIN t
  BY <1>1 DEF LastWord
<1>5. e.kind = "card" /\ CardComes(s, c) => CardComes(t, c)
  BY <1>1, <1>3 DEF CardComes
<1>6. e = Card(c) => CardComes(t, c)
  BY <1>1, <1>4 DEF CardComes
<1>7. e = Ask(c) => AskComes(t, c)
  BY <1>1 DEF AskComes
<1> QED
  BY <1>3, <1>5, <1>6, <1>7

(* A card or a question that came is the event delivered, or comes still. *)
LEMMA ComesAfterDelivering ==
  ASSUME NEW s \in Seq(Events), s # <<>>, NEW t, t = Tail(s), NEW c
  PROVE  /\ CardComes(s, c) => CardComes(t, c) \/ (Head(s) = Card(c) /\ LastWord(t, 0))
         /\ LastWord(s, 0) => LastWord(t, 0) /\ Head(s).kind \notin {"question", "answered"}
         /\ AskComes(s, c) => AskComes(t, c) \/ (Head(s) = Ask(c) /\ t = <<>>)
<1>1. /\ Len(s) \in Nat \ {0} /\ DOMAIN s = 1..Len(s) /\ DOMAIN t = 1..Len(s) - 1
      /\ Len(t) = Len(s) - 1 /\ t \in Seq(Events)
      /\ \A i \in DOMAIN t : t[i] = s[i + 1] /\ i + 1 \in DOMAIN s
      /\ Head(s) = s[1] /\ 1 \in DOMAIN s
  OBVIOUS
<1>2. \A i \in Nat : LastWord(s, i + 1) => LastWord(t, i)
  <2> SUFFICES ASSUME NEW i \in Nat, LastWord(s, i + 1), NEW j \in DOMAIN t, j > i
               PROVE  t[j].kind \notin {"question", "answered"}
    BY DEF LastWord
  <2>1. j + 1 \in DOMAIN s /\ j + 1 > i + 1 /\ t[j] = s[j + 1]
    BY <1>1
  <2> QED
    BY <2>1 DEF LastWord
<1>3. LastWord(s, 0) => LastWord(t, 0) /\ Head(s).kind \notin {"question", "answered"}
  <2> SUFFICES ASSUME LastWord(s, 0)
               PROVE  LastWord(t, 0) /\ Head(s).kind \notin {"question", "answered"}
    OBVIOUS
  <2>1. Head(s).kind \notin {"question", "answered"}
    BY <1>1 DEF LastWord
  <2>2. LastWord(s, 1)
    BY <1>1 DEF LastWord
  <2> QED
    BY <1>2, <2>1, <2>2
<1>4. CardComes(s, c) => CardComes(t, c) \/ (Head(s) = Card(c) /\ LastWord(t, 0))
  <2> SUFFICES ASSUME NEW i \in DOMAIN s, s[i] = Card(c), LastWord(s, i)
               PROVE  CardComes(t, c) \/ (Head(s) = Card(c) /\ LastWord(t, 0))
    BY DEF CardComes
  <2>1. CASE i > 1
    <3> DEFINE k == i - 1
    <3>1. k \in DOMAIN t /\ k \in Nat /\ k + 1 = i
      BY <1>1, <2>1
    <3> HIDE DEF k
    <3>2. t[k] = Card(c)
      BY <1>1, <3>1
    <3>3. LastWord(t, k)
      BY <1>2, <3>1
    <3> QED
      BY <3>1, <3>2, <3>3, Zenon DEF CardComes
  <2>2. CASE i = 1
    <3>1. LastWord(t, 0)
      BY <1>2, <2>2
    <3> QED
      BY <1>1, <2>2, <3>1
  <2> QED
    BY <1>1, <2>1, <2>2
<1>5. AskComes(s, c) => AskComes(t, c) \/ (Head(s) = Ask(c) /\ t = <<>>)
  <2> SUFFICES ASSUME s[Len(s)] = Ask(c)
               PROVE  AskComes(t, c) \/ (Head(s) = Ask(c) /\ t = <<>>)
    BY DEF AskComes
  <2>1. CASE Len(s) = 1
    BY <1>1, <2>1
  <2>2. CASE Len(s) > 1
    <3>1. Len(t) \in DOMAIN t /\ t[Len(t)] = s[Len(s)] /\ t # <<>>
      BY <1>1, <2>2
    <3> QED
      BY <3>1, Zenon DEF AskComes
  <2> QED
    BY <1>1, <2>1, <2>2
<1> QED
  BY <1>3, <1>4, <1>5

(* While a question waits no other call is open. *)
LEMMA QuestionIsAlone ==
  ASSUME IInv, Shown, NEW c \in DOMAIN calls, NEW d \in DOMAIN calls, Open(c), Open(d),
         calls[c].arm \in Asking
  PROVE  c = d
<1>1. team \subseteq Subs /\ "main" \notin Subs
  BY ConsentAssumption DEF IInv, TypeOK
<1>2. calls[c].by = "main" /\ team = {}
  BY <1>1 DEF Shown, AgentsOK
<1> QED
  BY <1>2 DEF Shown, AgentsOK

(* What a tool of c may tell the panel. *)
Concerns(e, c) == \/ e.kind = "card"
                  \/ e.kind \notin Ends /\ calls[c].arm \in Asking

(* A tool of an open call goes on, and may tell the panel of it. *)
LEMMA ToolGoesOn ==
  ASSUME IInv, Shown, NEW c \in DOMAIN calls, Open(c), NEW s, stage' = [stage EXCEPT ![c] = s],
         UNCHANGED <<run, team, calls, reply, clicks, cards, question, status, clashed>>,
         \/ events' = events
         \/ \E e \in Events : Concerns(e, c) /\ events' = events \o <<e>>
  PROVE  AgentsOK' /\ EndsOK' /\ \A d \in DOMAIN calls \ {c} : CardSeen(d)' /\ QuestionSeen(d)'
<1>1. /\ events \in Seq(Events) /\ c \in Ids /\ DOMAIN calls \subseteq Ids /\ stage \in [Ids -> Stages]
      /\ \A d \in DOMAIN calls : d # c => stage'[d] = stage[d]
  BY CallFacts DEF IInv, TypeOK, Stages
<1>2. run
  BY DEF Shown, AgentsOK
<1>3. AgentsOK'
  BY <1>1 DEF Shown, AgentsOK, Open
<1>4. CASE events' = events
  <2>1. EndsOK'
    BY <1>4 DEF Shown, EndsOK
  <2>2. \A d \in DOMAIN calls \ {c} : CardSeen(d)' /\ QuestionSeen(d)'
    BY <1>1, <1>4 DEF Shown, CardSeen, QuestionSeen, Unheard
  <2> QED
    BY <1>3, <2>1, <2>2
<1>5. ASSUME NEW e \in Events, Concerns(e, c), events' = events \o <<e>>
      PROVE  EndsOK' /\ \A d \in DOMAIN calls \ {c} : CardSeen(d)' /\ QuestionSeen(d)'
  <2>1. e.kind \notin Ends
    BY <1>5 DEF Concerns, Ends
  <2>2. EndsOK'
    <3>1. /\ DOMAIN events' = 1..Len(events) + 1 /\ DOMAIN events = 1..Len(events)
          /\ events'[Len(events) + 1] = e
          /\ \A i \in DOMAIN events : events'[i] = events[i]
      BY <1>1, <1>5
    <3>2. \A i \in DOMAIN events' : events'[i].kind \notin Ends
      BY <1>2, <2>1, <3>1 DEF Shown, EndsOK
    <3> QED
      BY <3>2 DEF Shown, EndsOK
  <2>3. ASSUME NEW d \in DOMAIN calls \ {c} PROVE CardSeen(d)'
    <3>1. CASE Open(d)
      <4>1. e.kind = "card"
        BY <1>5, <3>1, QuestionIsAlone DEF Concerns
      <4>2. /\ CardComes(events, d) => CardComes(events', d)
            /\ LastWord(events, 0) => LastWord(events', 0)
        BY <1>1, <1>5, <4>1, ComesAfterSending
      <4> QED
        BY <1>1, <4>2 DEF Shown, CardSeen, Unheard
    <3>2. CASE ~ Open(d)
      BY <1>1, <3>2 DEF CardSeen, Open
    <3> QED
      BY <3>1, <3>2
  <2>4. ASSUME NEW d \in DOMAIN calls \ {c} PROVE QuestionSeen(d)'
    BY <1>1, QuestionIsAlone DEF QuestionSeen, Open, Asking
  <2> QED
    BY <2>2, <2>3, <2>4
<1> QED
  BY <1>3, <1>4, <1>5

(* What an agent does with its call keeps the other calls shown. *)
LEMMA ToolStepShows ==
  ASSUME IInv, Shown, NEW c \in Ids, ToolStep(c)
  PROVE  Shown'
<1>1. /\ UNCHANGED <<run, team, calls, reply, clicks, cards, question, status, clashed>>
      /\ \E s : stage' = [stage EXCEPT ![c] = s]
      /\ c \in DOMAIN calls /\ Open(c)
  BY DEF ToolStep, Refuse, RunFree, Register, Announce, Approved, Rejected, Finish, AskUser,
         AwaitAnswer, Answered, At, Goes, mapVars, panelVars, Open
<1>2. /\ events \in Seq(Events) /\ stage \in [Ids -> Stages] /\ Card(c) \in Events
      /\ Ask(c) \in Events /\ [kind |-> "answered", call |-> c] \in Events
  BY CardIsEvent DEF IInv, TypeOK, Stages, Ask, Events
<1>3. \/ events' = events
      \/ events' = events \o <<Card(c)>>
      \/ calls[c].arm \in Asking /\ events' = events \o <<Ask(c)>>
      \/ calls[c].arm \in Asking /\ events' = events \o <<[kind |-> "answered", call |-> c]>>
  <2>1. CASE RunFree(c) \/ Register(c) \/ Rejected(c) \/ AwaitAnswer(c)
    BY <2>1 DEF RunFree, Register, Rejected, AwaitAnswer
  <2>2. CASE Announce(c) \/ AskUser(c) \/ Answered(c)
    BY <2>2 DEF Announce, AskUser, Answered, Asking, Tell, Ask
  <2>4. CASE Refuse(c)
    BY <1>2, <2>4, SendNone DEF Refuse, Tell
  <2>3. CASE Approved(c) \/ Finish(c)
    BY <1>2, <2>3, SendNone DEF Approved, Finish, Ghost, Tell
  <2> QED
    BY <2>1, <2>2, <2>3, <2>4 DEF ToolStep
<1>4. \/ events' = events
      \/ \E e \in Events : Concerns(e, c) /\ events' = events \o <<e>>
  <2> DEFINE a == [kind |-> "answered", call |-> c]
  <2>1. Card(c).kind = "card" /\ Ask(c).kind \notin Ends /\ a.kind \notin Ends
    BY DEF Card, Ask, Ends
  <2>2. /\ Card(c) \in Events /\ Ask(c) \in Events /\ a \in Events
        /\ \/ events' = events
           \/ events' = events \o <<Card(c)>>
           \/ calls[c].arm \in Asking /\ events' = events \o <<Ask(c)>>
           \/ calls[c].arm \in Asking /\ events' = events \o <<a>>
    BY <1>2, <1>3
  <2> HIDE DEF a
  <2>3. Concerns(Card(c), c) /\ (calls[c].arm \in Asking => Concerns(Ask(c), c) /\ Concerns(a, c))
    BY <2>1 DEF Concerns
  <2> QED
    BY <2>2, <2>3
<1>5. AgentsOK' /\ EndsOK' /\ \A d \in DOMAIN calls \ {c} : CardSeen(d)' /\ QuestionSeen(d)'
  BY <1>1, <1>4, ToolGoesOn
<1>6. CASE Announce(c)
  <2>1. calls[c].arm \in Gated
    BY <1>6 DEF Announce, At, IInv, MapsOK, TypeOK
  <2>2. events' = events \o <<Card(c)>>
    BY <1>6 DEF Announce, Tell
  <2>3. CardComes(events', c)
    BY <1>2, <2>2, ComesAfterSending
  <2> QED
    BY <1>1, <1>5, <2>1, <2>3 DEF Shown, CardSeen, QuestionSeen, Gated
<1>7. CASE AskUser(c)
  <2>1. stage'[c] = "asked"
    BY <1>2, <1>7 DEF AskUser, Goes
  <2>2. calls[c].arm = "question" /\ events' = events \o <<Ask(c)>>
    BY <1>7 DEF AskUser, Tell, Ask
  <2>3. AskComes(events', c)
    BY <1>2, <2>2, ComesAfterSending
  <2> QED
    BY <1>1, <1>5, <2>1, <2>2, <2>3 DEF Shown, CardSeen, QuestionSeen
<1>8. CASE AwaitAnswer(c)
  <2>1. calls[c].arm = "question" /\ stage[c] = "asked" /\ events' = events
    BY <1>8 DEF AwaitAnswer, At, IInv, MapsOK
  <2>2. QuestionSeen(c)'
    BY <1>1, <2>1 DEF Shown, QuestionSeen, Unheard
  <2> QED
    BY <1>1, <1>5, <2>1, <2>2 DEF Shown, CardSeen, Gated
<1>9. CASE \/ Refuse(c) \/ RunFree(c) \/ Register(c) \/ Approved(c) \/ Rejected(c) \/ Finish(c)
           \/ Answered(c)
  <2>1. stage'[c] \notin {"asked", "waiting"}
    BY <1>2, <1>9 DEF Refuse, RunFree, Register, Approved, Rejected, Finish, Answered, Goes
  <2> QED
    BY <1>1, <1>5, <2>1 DEF Shown, CardSeen, QuestionSeen
<1> QED
  BY <1>6, <1>7, <1>8, <1>9 DEF ToolStep

(* The agents come and go. *)
LEMMA AgentsShow ==
  ASSUME IInv, Shown, Send \/ Spawn \/ Stop \/ \E a \in Subs : SubagentEnds(a)
  PROVE  Shown'
<1>1. UNCHANGED <<calls, stage, mapVars, events, cards, question, clicks, clashed>>
  BY DEF Send, Spawn, Stop, SubagentEnds, panelVars
<1>2. AgentsOK'
  <2>1. CASE Send \/ Stop
    BY <2>1 DEF Send, Stop, Shown, AgentsOK, Open
  <2>2. CASE Spawn
    BY <2>2 DEF Spawn, AtLeisure, Shown, AgentsOK, Open
  <2>3. ASSUME NEW a \in Subs, SubagentEnds(a)
        PROVE  AgentsOK'
    BY <2>3 DEF SubagentEnds, AtLeisure, Shown, AgentsOK, Open
  <2> QED
    BY <2>1, <2>2, <2>3
<1>3. EndsOK'
  BY <1>1 DEF Send, Spawn, Stop, SubagentEnds, panelVars, Shown, EndsOK
<1>4. \A c \in DOMAIN calls : Open(c) => status' = status
  BY DEF Send, Spawn, Stop, SubagentEnds, panelVars, Shown, AgentsOK
<1>5. \A c \in DOMAIN calls : CardSeen(c)' /\ QuestionSeen(c)'
  BY <1>1, <1>4 DEF mapVars, Shown, CardSeen, QuestionSeen, Unheard, Open
<1> QED
  BY <1>1, <1>2, <1>3, <1>5 DEF Shown

(* A run ends when nothing waits. *)
LEMMA RunEndsShows ==
  ASSUME IInv, Shown, RunEnds
  PROVE  Shown'
<1>1. /\ UNCHANGED <<team, calls, stage, mapVars, panelVars>>
      /\ run /\ run' = FALSE /\ team = {}
  BY DEF RunEnds
<1>2. \A c \in DOMAIN calls : ~ Open(c)
  BY DEF RunEnds, AtLeisure, Shown, AgentsOK, Open
<1>3. PICK e : events' = events \o <<e>>
  BY DEF RunEnds, Tell
<1>4. events \in Seq(Events)
  BY DEF IInv, TypeOK
<1>5. EndsOK'
  <2>1. /\ DOMAIN events' = 1..Len(events) + 1 /\ DOMAIN events = 1..Len(events)
        /\ Len(events') = Len(events) + 1
        /\ \A i \in DOMAIN events : events'[i] = events[i]
    BY <1>3, <1>4
  <2>2. status' = status /\ status # "idle"
    BY <1>1 DEF panelVars, Shown, EndsOK
  <2>3. \A i \in DOMAIN events : events[i].kind \notin Ends
    BY <1>1 DEF Shown, EndsOK
  <2>4. \A i \in DOMAIN events' : i \in DOMAIN events \/ i = Len(events')
    BY <1>4, <2>1
  <2> QED
    BY <1>1, <2>1, <2>2, <2>3, <2>4 DEF EndsOK
<1>6. AgentsOK' /\ \A c \in DOMAIN calls : CardSeen(c)' /\ QuestionSeen(c)'
  BY <1>1, <1>2 DEF Shown, AgentsOK, Open, CardSeen, QuestionSeen
<1> QED
  BY <1>1, <1>5, <1>6 DEF Shown

(* A new call does not wait yet. *)
LEMMA CallShows ==
  ASSUME IInv, Shown, NEW a \in Agents, Call(a)
  PROVE  Shown'
<1> DEFINE n == Len(calls) + 1
<1>1. PICK tool \in Tools, verdict \in Verdicts, yolo \in BOOLEAN :
        calls' = Append(calls, [by |-> a, arm |-> Arm(a, tool, verdict, yolo),
                                due |-> Due(tool, verdict, yolo)])
  BY DEF Call
<1>2. /\ DOMAIN calls' = DOMAIN calls \cup {n} /\ n \notin DOMAIN calls /\ n \in Ids
      /\ DOMAIN calls \subseteq Ids
      /\ \A c \in DOMAIN calls : calls'[c] = calls[c]
      /\ calls'[n].by = a /\ calls'[n].arm = Arm(a, tool, verdict, yolo)
  <2>1. Len(calls) \in Nat /\ DOMAIN calls = 1..Len(calls) /\ Len(calls) < MaxCalls
    BY DEF Call, IInv, TypeOK
  <2>2. DOMAIN calls' = 1..n
    BY <1>1, <2>1 DEF IInv, TypeOK
  <2>3. DOMAIN calls' = DOMAIN calls \cup {n} /\ n \notin DOMAIN calls
    BY <2>1, <2>2
  <2>4. n \in Ids /\ DOMAIN calls \subseteq Ids
    BY <2>1, ConsentAssumption DEF Ids
  <2> QED
    BY <1>1, <2>1, <2>3, <2>4 DEF IInv, TypeOK
<1>3. /\ UNCHANGED <<run, team, reply, clicks, events, cards, question, status, clashed>>
      /\ stage' = [stage EXCEPT ![n] = "new"]
  BY DEF Call, mapVars, panelVars
<1> HIDE DEF n
<1>4. /\ stage'[n] = "new"
      /\ \A c \in DOMAIN calls : stage'[c] = stage[c]
  BY <1>2, <1>3 DEF IInv, TypeOK
<1>5. AgentsOK'
  <2>1. run /\ a \in IF team = {} THEN {"main"} ELSE team
    BY DEF Call, Working, Shown, AgentsOK, Agents
  <2>2. \A c \in DOMAIN calls : calls[c].by = a => ~ Open(c)
    BY DEF Call, AtLeisure, Open
  <2>3. calls'[n].arm \in Asking => calls'[n].by = "main"
    BY <1>2 DEF Arm, Asking, Offered, Tools, Verdicts
  <2> QED
    BY <1>2, <1>3, <1>4, <2>1, <2>2, <2>3 DEF Shown, AgentsOK, Open
<1>6. EndsOK'
  BY <1>3 DEF Shown, EndsOK
<1>7. \A c \in DOMAIN calls' : CardSeen(c)' /\ QuestionSeen(c)'
  BY <1>2, <1>3, <1>4 DEF Shown, CardSeen, QuestionSeen, Unheard
<1> QED
  BY <1>5, <1>6, <1>7 DEF Shown

(* A delivered card is on the screen of a panel that takes clicks, unless a click hid it. *)
LEMMA DeliverShows ==
  ASSUME IInv, Shown, Deliver
  PROVE  Shown'
<1>1. /\ UNCHANGED <<run, team, calls, stage, mapVars, clicks, clashed>>
      /\ events # <<>> /\ events' = Tail(events) /\ events \in Seq(Events)
  BY DEF Deliver, IInv, TypeOK
<1>2. /\ events' \in Seq(Events) /\ Head(events) \in Events
      /\ Len(events) \in Nat \ {0} /\ DOMAIN events = 1..Len(events)
      /\ Len(events') = Len(events) - 1 /\ DOMAIN events' = 1..Len(events) - 1
      /\ Head(events) = events[1] /\ 1 \in DOMAIN events
      /\ \A i \in DOMAIN events' : events'[i] = events[i + 1] /\ i + 1 \in DOMAIN events
  BY <1>1
<1>3. /\ Head(events).kind \in {"card", "question", "answered", "done", "error"}
      /\ Head(events).kind \notin Ends => status' # "idle"
      /\ Head(events).kind = "card" => status' = "awaiting_approval"
      /\ Head(events).kind = "question" => question' = Head(events).call /\ status' = "awaiting_input"
      /\ Head(events).kind = "card" => cards' = [cards EXCEPT ![Head(events).call] = @ + 1]
  BY <1>2 DEF Deliver, ShowCard, Events, Ends
<1>4. Head(events).kind \in Ends => ~run /\ Len(events) = 1
  BY <1>2 DEF Shown, EndsOK
<1>5. AgentsOK'
  BY <1>1 DEF Shown, AgentsOK, Open
<1>6. EndsOK'
  <2>1. run' => status' # "idle"
    BY <1>1, <1>3, <1>4
  <2>2. ASSUME NEW i \in DOMAIN events', events'[i].kind \in Ends
        PROVE  i = Len(events') /\ ~run' /\ status' # "idle"
    <3>1. i + 1 = Len(events) /\ ~run
      BY <1>2, <2>2 DEF Shown, EndsOK
    <3>2. Head(events).kind \notin Ends
      BY <1>2, <1>4, <2>2
    <3> QED
      BY <1>1, <1>2, <1>3, <3>1, <3>2
  <2> QED
    BY <2>1, <2>2 DEF EndsOK
<1>7. ASSUME NEW c \in DOMAIN calls
      PROVE  CardSeen(c)' /\ QuestionSeen(c)'
  <2>1. c \in Ids
    BY CallFacts DEF IInv
  <2>2. CASE ~ Open(c)
    BY <1>1, <2>2 DEF Open, CardSeen, QuestionSeen
  <2>3. CASE Open(c)
    <3>1. Head(events).kind \notin Ends
      BY <1>4, <2>3 DEF Shown, AgentsOK
    <3>2. /\ CardComes(events, c) =>
               CardComes(events', c) \/ (Head(events) = Card(c) /\ LastWord(events', 0))
          /\ LastWord(events, 0) =>
               LastWord(events', 0) /\ Head(events).kind \notin {"question", "answered"}
          /\ AskComes(events, c) => AskComes(events', c) \/ (Head(events) = Ask(c) /\ events' = <<>>)
      BY <1>1, ComesAfterDelivering
    <3>3. ASSUME Head(events).kind = "card" PROVE CardSeen(c)'
      <4>1. cards \in [Ids -> Nat] /\ cards[c] \in Nat
        BY <2>1 DEF IInv, TypeOK
      <4>2. Head(events) = Card(c) \/ cards[c] > 0 => cards'[c] > 0
        BY <1>3, <2>1, <3>3, <4>1 DEF Card
      <4> QED
        BY <1>1, <1>3, <3>2, <3>3, <4>2 DEF mapVars, Shown, CardSeen, Unheard
    <3>4. ASSUME Head(events).kind \in {"question", "answered"} PROVE CardSeen(c)'
      <4>1. Head(events) # Card(c)
        BY <3>4 DEF Card
      <4> QED
        BY <1>1, <3>2, <3>4, <4>1 DEF mapVars, Shown, CardSeen, Unheard
    <3>5. CardSeen(c)'
      BY <1>3, <3>1, <3>3, <3>4 DEF Ends
    <3>6. Head(events) = Ask(c) => question' = c /\ status' = "awaiting_input"
      BY <1>3 DEF Ask
    <3>7. QuestionSeen(c)'
      BY <1>1, <3>2, <3>6 DEF mapVars, Shown, QuestionSeen, Unheard
    <3> QED
      BY <3>5, <3>7
  <2> QED
    BY <2>2, <2>3
<1> QED
  BY <1>1, <1>5, <1>6, <1>7 DEF Shown

(* What the person does takes off the screen only what it answers. *)
LEMMA AnswerShows ==
  ASSUME IInv, Shown, Answer
  PROVE  Shown'
<1>1. /\ UNCHANGED <<run, team, calls, stage, mapVars, events, cards>>
      /\ status' # "idle" /\ question \in answers
      /\ clicks' = clicks \cup {[call |-> question, answer |-> "yes"]}
  BY DEF Answer
<1>2. AgentsOK' /\ EndsOK'
  BY <1>1 DEF Shown, AgentsOK, EndsOK, Open
<1>3. question \in DOMAIN calls /\ calls[question].arm = "question" /\ Open(question)
  BY <1>1, CallFacts DEF IInv, TypeOK, Open
<1>4. \A c \in DOMAIN calls : Open(c) => c = question
  BY <1>3, QuestionIsAlone DEF Asking
<1>5. ASSUME NEW c \in DOMAIN calls, c = question
      PROVE  ~ Unheard(c)'
  <2> DEFINE k == [call |-> question, answer |-> "yes"]
  <2>1. k \in clicks' /\ k.call = c
    BY <1>1, <1>5
  <2> HIDE DEF k
  <2> QED
    BY <2>1 DEF Unheard
<1>6. \A c \in DOMAIN calls : CardSeen(c)' /\ QuestionSeen(c)'
  BY <1>1, <1>4, <1>5 DEF CardSeen, QuestionSeen, Open
<1> QED
  BY <1>1, <1>2, <1>6 DEF Shown

(* A click answers one call and leaves the others shown, or clashes. *)
LEMMA ClickShows ==
  ASSUME IInv, Shown, NEW c \in Ids, NEW yes \in {"yes", "no"}, Click(c, yes)
  PROVE  Shown'
<1>1. /\ UNCHANGED <<run, team, calls, stage, mapVars, events, question>>
      /\ clicks' = clicks \cup {[call |-> c, answer |-> yes]}
      /\ cards' = [cards EXCEPT ![c] = 0]
      /\ status = "awaiting_approval" /\ status' \in {"awaiting_approval", "thinking"}
      /\ clashed' = (clashed \/ (/\ status' = "thinking"
                                /\ \E d \in Ids : cards'[d] > 0 /\ Undecided(d)))
  BY DEF Click, Others, AfterClick
<1>2. AgentsOK' /\ EndsOK'
  BY <1>1 DEF Shown, AgentsOK, EndsOK, Open
<1>3. \A d \in DOMAIN calls : Unheard(d)' => Unheard(d) /\ d # c
  <2> DEFINE k == [call |-> c, answer |-> yes]
  <2>1. k \in clicks' /\ k.call = c
    BY <1>1
  <2> HIDE DEF k
  <2>2. clicks \subseteq clicks' /\ reply' = reply
    BY <1>1 DEF mapVars
  <2> QED
    BY <2>1, <2>2 DEF Unheard
<1>4. \A d \in DOMAIN calls : d # c => cards'[d] = cards[d]
  BY <1>1, CallFacts DEF IInv, TypeOK
<1>5. ASSUME NEW d \in DOMAIN calls, stage[d] = "waiting", Unheard(d), cards'[d] > 0
      PROVE  status' = "awaiting_approval" \/ clashed'
  BY <1>1, <1>5, CallFacts DEF Undecided, Unheard, IInv
<1>6. \A d \in DOMAIN calls : CardSeen(d)' /\ QuestionSeen(d)'
  BY <1>1, <1>3, <1>4, <1>5 DEF Shown, CardSeen, QuestionSeen
<1> QED
  BY <1>1, <1>2, <1>6 DEF Shown

(* A click that arrives answers its call only. *)
LEMMA CommandShows ==
  ASSUME IInv, Shown, NEW k \in clicks, Command(k)
  PROVE  Shown'
<1>1. /\ UNCHANGED <<run, team, calls, stage, events, cards, question, status, clashed>>
      /\ clicks' = clicks \ {k}
  BY DEF Command
<1>2. AgentsOK' /\ EndsOK'
  BY <1>1 DEF Shown, AgentsOK, EndsOK, Open
<1>3. ASSUME NEW c \in DOMAIN calls, stage[c] \in {"asked", "waiting"}, Unheard(c)'
      PROVE  Unheard(c)
  <2>1. c \in Ids /\ k.call \in Ids
    BY CallFacts DEF IInv
  <2>2. k.call # c
    <3> SUFFICES ASSUME k.call = c PROVE FALSE
      OBVIOUS
    <3>1. stage[c] # "asked"
      BY <2>1 DEF IInv, FreshUntouched, Untouched
    <3>2. reply[c] = "none" => c \in approvals \cup answers
      BY <1>3, <2>1, <3>1 DEF IInv, MapsOK
    <3>3. reply'[c] # "none"
      BY <2>1, <3>2, CallFacts DEF Command, mapVars, IInv, TypeOK
    <3> QED
      BY <1>3, <3>3 DEF Unheard
  <2>3. reply'[c] = reply[c]
    BY <2>1, <2>2 DEF Command, mapVars, IInv, TypeOK
  <2> QED
    BY <1>1, <1>3, <2>2, <2>3 DEF Unheard
<1>4. \A c \in DOMAIN calls : CardSeen(c)' /\ QuestionSeen(c)'
  BY <1>1, <1>3 DEF Shown, CardSeen, QuestionSeen
<1> QED
  BY <1>1, <1>2, <1>4 DEF Shown

(* Every step keeps what waits shown. *)
LEMMA StepShows == IInv /\ Shown /\ [Next]_vars => Shown'
<1> SUFFICES ASSUME IInv, Shown, [Next]_vars PROVE Shown'
  OBVIOUS
<1>1. CASE UNCHANGED vars
  BY <1>1 DEF vars, Shown, AgentsOK, EndsOK, CardSeen, QuestionSeen, Unheard, Open, CardComes,
              AskComes, LastWord
<1>2. CASE Send \/ Spawn \/ Stop \/ \E a \in Subs : SubagentEnds(a)
  BY <1>2, AgentsShow
<1>3. CASE RunEnds \/ Deliver \/ Answer
  BY <1>3, RunEndsShows, DeliverShows, AnswerShows
<1>4. CASE \E a \in Agents : Call(a)
  BY <1>4, CallShows
<1>5. CASE \E c \in Ids : ToolStep(c)
  BY <1>5, ToolStepShows
<1>6. CASE \E c \in Ids, yes \in {"yes", "no"} : Click(c, yes)
  BY <1>6, ClickShows
<1>7. CASE \E k \in clicks : Command(k)
  BY <1>7, CommandShows
<1> QED
  BY <1>1, <1>2, <1>3, <1>4, <1>5, <1>6, <1>7 DEF Next

(* Nothing that waits for the person is forgotten: however the calls of main and its subagents,
   the ends of runs and the clicks interleave, the card or the question of a call nobody has
   answered is in the channel, or on the screen of a panel in the status that takes a click on
   it, unless a click hid a card (handleEvent and handleApprove against Announce and AskUser). *)
THEOREM WaitsAreShown == Spec => []WaitsAreInHand
<1>1. Init => Shown
  BY DEF Init, Shown, AgentsOK, EndsOK
<1>2. IInv /\ Shown => WaitsAreInHand
  <2> SUFFICES ASSUME IInv, Shown, NEW c \in DOMAIN calls, Undecided(c)
               PROVE  \/ \E i \in DOMAIN events : /\ events[i].kind \in {"card", "question"}
                                                  /\ events[i].call = c
                      \/ cards[c] > 0 /\ (status = "awaiting_approval" \/ clashed)
                      \/ question = c /\ status = "awaiting_input"
    BY DEF WaitsAreInHand
  <2>1. stage[c] = "waiting" /\ Unheard(c)
    BY DEF Undecided, Unheard
  <2>2. calls[c].arm \in Gated \cup {"question"}
    BY <2>1, CallFacts DEF IInv, MapsOK
  <2>3. CASE calls[c].arm \in Gated
    BY <2>1, <2>3 DEF Shown, CardSeen, CardComes, Card
  <2>4. CASE calls[c].arm = "question"
    <3>1. ASSUME AskComes(events, c)
          PROVE  \E i \in DOMAIN events : /\ events[i].kind \in {"card", "question"}
                                          /\ events[i].call = c
      <4>1. Len(events) \in DOMAIN events
        BY <3>1 DEF AskComes, IInv, TypeOK
      <4> QED
        BY <3>1, <4>1 DEF AskComes, Ask
    <3> QED
      BY <2>1, <2>4, <3>1 DEF Shown, QuestionSeen
  <2> QED
    BY <2>2, <2>3, <2>4
<1> QED
  BY <1>1, <1>2, Invariance, StepShows, PTL DEF Spec
=============================================================================
