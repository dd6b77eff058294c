------------------------- MODULE Transcript_proofs -------------------------
(* Theorems about Transcript and their proofs. *)
EXTENDS Transcript, FiniteSetTheorems, TLAPS

(* Every call of h is answered by the piece after it, save a round the app    *)
(* died in (T) and, when a round is open, the last piece.                      *)
CallHasAnswer(h, T, open) ==
  \A i \in 1..Len(h) : h[i].kind = "calls" =>
    \/ i < Len(h) /\ h[i + 1].kind = "results" /\ h[i + 1].calls = h[i].calls
    \/ h[i].calls \subseteq T
    \/ open /\ i = Len(h)
AnswerHasCall(h) ==
  \A i \in 1..Len(h) : h[i].kind = "results" =>
    i > 1 /\ h[i - 1].kind = "calls" /\ h[i - 1].calls = h[i].calls
Paired(h, T, open) == CallHasAnswer(h, T, open) /\ AnswerHasCall(h)

Marks == [made : BOOLEAN, at : Nat, start : Nat \ {0}]
Plain == {"prompt", "steer", "note", "reply"}

-----------------------------------------------------------------------------
(* Appending a piece to a paired sequence. *)

(* A piece without calls or results keeps the pairs closed. *)
LEMMA AppendPlain ==
  ASSUME NEW h \in Seq(Pieces), NEW T, NEW p \in Pieces,
         Paired(h, T, FALSE), p.kind \notin {"calls", "results"}
  PROVE  Paired(Append(h, p), T, FALSE)
<1> DEFINE g == Append(h, p)
<1>1. Len(g) = Len(h) + 1 /\ g[Len(h) + 1] = p /\ \A i \in 1..Len(h) : g[i] = h[i]
  OBVIOUS
<1>2. CallHasAnswer(g, T, FALSE)
  BY <1>1 DEF Paired, CallHasAnswer
<1>3. AnswerHasCall(g)
  BY <1>1 DEF Paired, AnswerHasCall
<1> QED
  BY <1>2, <1>3 DEF Paired

(* Calls open a pair. *)
LEMMA AppendCalls ==
  ASSUME NEW h \in Seq(Pieces), NEW T, NEW p \in Pieces,
         Paired(h, T, FALSE), p.kind = "calls"
  PROVE  Paired(Append(h, p), T, TRUE)
<1> DEFINE g == Append(h, p)
<1>1. Len(g) = Len(h) + 1 /\ g[Len(h) + 1] = p /\ \A i \in 1..Len(h) : g[i] = h[i]
  OBVIOUS
<1>2. CallHasAnswer(g, T, TRUE)
  BY <1>1 DEF Paired, CallHasAnswer
<1>3. AnswerHasCall(g)
  BY <1>1 DEF Paired, AnswerHasCall
<1> QED
  BY <1>2, <1>3 DEF Paired

(* Their results close it. *)
LEMMA AppendResults ==
  ASSUME NEW h \in Seq(Pieces), NEW T, NEW p \in Pieces,
         Paired(h, T, TRUE), h # <<>>, h[Len(h)].kind = "calls",
         p.kind = "results", p.calls = h[Len(h)].calls
  PROVE  Paired(Append(h, p), T, FALSE)
<1> DEFINE g == Append(h, p)
<1>1. Len(g) = Len(h) + 1 /\ g[Len(h) + 1] = p /\ \A i \in 1..Len(h) : g[i] = h[i]
  OBVIOUS
<1>2. Len(h) \in Nat \ {0}
  OBVIOUS
<1>3. CallHasAnswer(g, T, FALSE)
  BY <1>1, <1>2 DEF Paired, CallHasAnswer
<1>4. AnswerHasCall(g)
  BY <1>1, <1>2 DEF Paired, AnswerHasCall
<1> QED
  BY <1>3, <1>4 DEF Paired

(* A history with one more piece is a history. *)
LEMMA AppendNonEmpty ==
  ASSUME NEW h \in Seq(Pieces), NEW p \in Pieces
  PROVE  Append(h, p) # <<>> /\ Append(h, p) \in Seq(Pieces)
<1>1. Append(h, p) \in Seq(Pieces) /\ Len(Append(h, p)) = Len(h) + 1 /\ Len(h) \in Nat
  OBVIOUS
<1>2. Len(Append(h, p)) # 0
  BY <1>1
<1>3. Len(<<>>) = 0
  OBVIOUS
<1> QED
  BY <1>1, <1>2, <1>3

(* What is answered after an Append. *)
LEMMA AppendAnswered ==
  ASSUME NEW t \in Seq(Pieces), NEW p \in Pieces, NEW k \in Nat \ {0}, k <= Len(t) + 1
  PROVE  AnsweredFrom(Append(t, p), k) =
           AnsweredFrom(t, k) \cup (IF p.kind = "results" THEN p.calls ELSE {})
<1> DEFINE g == Append(t, p)
<1>1. Len(t) \in Nat /\ Len(g) = Len(t) + 1 /\ g[Len(t) + 1] = p
      /\ \A i \in 1..Len(t) : g[i] = t[i]
  OBVIOUS
<1>2. {j \in k..Len(g) : g[j].kind = "results"} =
        {j \in k..Len(t) : t[j].kind = "results"}
          \cup (IF p.kind = "results" THEN {Len(t) + 1} ELSE {})
  BY <1>1
<1> QED
  BY <1>1, <1>2 DEF AnsweredFrom

-----------------------------------------------------------------------------
(* What a rebuild makes of a file it may start reading at k. *)

MayStart(t, m) ==
  /\ m.start <= Len(t) + 1
  /\ m.start <= Len(t) => t[m.start].kind # "results"

(* A rebuilt history is the summary, if there is one, and the tail of the file. *)
LEMMA RebuiltShape ==
  ASSUME NEW t \in Seq(Pieces), NEW m \in Marks, m.start <= Len(t) + 1
  PROVE  LET o == IF m.made THEN 1 ELSE 0
             r == Rebuilt(t, m)
         IN  /\ r \in Seq(Pieces)
             /\ Len(r) = o + Len(t) + 1 - m.start
             /\ m.made => r[1] = Summary
             /\ \A i \in 1..Len(r) : i > o => r[i] = t[m.start + i - 1 - o]
<1> DEFINE s == SubSeq(t, m.start, Len(t))
<1>1. m.start \in Nat \ {0} /\ Len(t) \in Nat
  BY DEF Marks
<1>2. /\ s \in Seq(Pieces) /\ Len(s) = Len(t) + 1 - m.start
      /\ \A i \in 1..Len(s) : s[i] = t[m.start + i - 1]
  BY <1>1
<1>3. Summary \in Pieces
  BY DEF Summary, Piece, Pieces, Kinds
<1> HIDE DEF s
<1>4. CASE m.made
  <2>1. Rebuilt(t, m) = <<Summary>> \o s
    BY <1>4 DEF Rebuilt, s
  <2>2. <<Summary>> \in Seq(Pieces) /\ Len(<<Summary>>) = 1 /\ <<Summary>>[1] = Summary
    BY <1>3
  <2>3. /\ <<Summary>> \o s \in Seq(Pieces) /\ Len(<<Summary>> \o s) = 1 + Len(s)
        /\ (<<Summary>> \o s)[1] = Summary
        /\ \A i \in 1..(1 + Len(s)) : i > 1 => (<<Summary>> \o s)[i] = s[i - 1]
    BY <1>2, <2>2
  <2>4. \A i \in 1..(1 + Len(s)) : i > 1 => i - 1 \in 1..Len(s) /\ s[i - 1] = t[m.start + i - 1 - 1]
    <3> TAKE i \in 1..(1 + Len(s))
    <3> HAVE i > 1
    <3>1. i - 1 \in 1..Len(s)
      BY <1>2
    <3>2. m.start + (i - 1) - 1 = m.start + i - 1 - 1
      BY <1>1, <3>1
    <3> QED
      BY <1>2, <3>1, <3>2
  <2> QED
    BY <1>1, <1>2, <1>4, <2>1, <2>3, <2>4, SMTT(30)
<1>5. CASE ~m.made
  <2>1. Rebuilt(t, m) = s
    BY <1>2, <1>5 DEF Rebuilt, s
  <2> QED
    BY <1>1, <1>2, <1>5, <2>1
<1> QED
  BY <1>4, <1>5

(* Cut at a legal place the tail has its pairs whole. *)
LEMMA RebuiltPaired ==
  ASSUME NEW t \in Seq(Pieces), NEW m \in Marks, NEW T,
         Paired(t, T, FALSE), MayStart(t, m)
  PROVE  Paired(Rebuilt(t, m), T, FALSE)
<1> DEFINE r == Rebuilt(t, m)
           o == IF m.made THEN 1 ELSE 0
<1>1. /\ r \in Seq(Pieces) /\ Len(r) = o + Len(t) + 1 - m.start
      /\ m.made => r[1] = Summary
      /\ \A i \in 1..Len(r) : i > o => r[i] = t[m.start + i - 1 - o]
  BY RebuiltShape DEF MayStart
<1>2. o \in {0, 1} /\ m.start \in Nat \ {0} /\ Len(t) \in Nat /\ m.start <= Len(t) + 1
  BY DEF Marks, MayStart
<1>3. Summary.kind = "summary"
  BY DEF Summary, Piece
<1>4. \A i \in 1..Len(r) : i <= o => r[i].kind = "summary"
  BY <1>1, <1>2, <1>3
<1> HIDE DEF r, o
<1>5. CallHasAnswer(r, T, FALSE)
  <2> SUFFICES ASSUME NEW i \in 1..Len(r), r[i].kind = "calls"
               PROVE  \/ i < Len(r) /\ r[i + 1].kind = "results" /\ r[i + 1].calls = r[i].calls
                      \/ r[i].calls \subseteq T
    BY DEF CallHasAnswer
  <2> DEFINE j == m.start + i - 1 - o
  <2>1. i > o
    BY <1>4, <1>2
  <2>2. j \in 1..Len(t) /\ r[i] = t[j]
    BY <1>1, <1>2, <2>1
  <2>3. j < Len(t) => i + 1 \in 1..Len(r) /\ i + 1 > o /\ r[i + 1] = t[j + 1]
    <3> SUFFICES ASSUME j < Len(t)
                 PROVE  i + 1 \in 1..Len(r) /\ i + 1 > o /\ r[i + 1] = t[j + 1]
      OBVIOUS
    <3>1. i + 1 \in 1..Len(r) /\ i + 1 > o
      BY <1>1, <1>2, <2>1
    <3>2. m.start + (i + 1) - 1 - o = j + 1
      BY <1>2, <3>1
    <3> QED
      BY <1>1, <3>1, <3>2
  <2> HIDE DEF j
  <2>4. \/ j < Len(t) /\ t[j + 1].kind = "results" /\ t[j + 1].calls = t[j].calls
        \/ t[j].calls \subseteq T
    BY <2>2 DEF Paired, CallHasAnswer
  <2>5. i \in Nat /\ Len(r) \in Nat
    BY <1>1
  <2> QED
    BY <2>2, <2>3, <2>4, <2>5
<1>6. AnswerHasCall(r)
  <2> SUFFICES ASSUME NEW i \in 1..Len(r), r[i].kind = "results"
               PROVE  i > 1 /\ r[i - 1].kind = "calls" /\ r[i - 1].calls = r[i].calls
    BY DEF AnswerHasCall
  <2> DEFINE j == m.start + i - 1 - o
  <2>1. i > o
    BY <1>4, <1>2
  <2>2. j \in 1..Len(t) /\ r[i] = t[j]
    BY <1>1, <1>2, <2>1
  <2>3. j > 1 /\ t[j - 1].kind = "calls" /\ t[j - 1].calls = t[j].calls
    BY <2>2 DEF Paired, AnswerHasCall
  <2>4. j # m.start
    BY <2>2, <1>2 DEF MayStart
  <2>5. i - 1 \in 1..Len(r) /\ i - 1 > o /\ r[i - 1] = t[j - 1]
    <3>1. i - 1 \in 1..Len(r) /\ i - 1 > o
      BY <1>1, <1>2, <2>1, <2>2, <2>4
    <3>2. m.start + (i - 1) - 1 - o = j - 1
      BY <1>2, <3>1
    <3> QED
      BY <1>1, <3>1, <3>2
  <2> QED
    BY <1>2, <2>2, <2>3, <2>5
<1> QED
  BY <1>5, <1>6 DEF Paired, r

(* The calls a rebuilt history answers are those of the tail. *)
LEMMA RebuiltAnswered ==
  ASSUME NEW t \in Seq(Pieces), NEW m \in Marks, m.start <= Len(t) + 1
  PROVE  Answered(Rebuilt(t, m)) = AnsweredFrom(t, m.start)
<1> DEFINE r == Rebuilt(t, m)
           o == IF m.made THEN 1 ELSE 0
<1>1. /\ r \in Seq(Pieces) /\ Len(r) = o + Len(t) + 1 - m.start
      /\ m.made => r[1] = Summary
      /\ \A i \in 1..Len(r) : i > o => r[i] = t[m.start + i - 1 - o]
  BY RebuiltShape
<1>2. o \in {0, 1} /\ m.start \in Nat \ {0} /\ Len(t) \in Nat
  BY DEF Marks
<1>3. Summary.kind = "summary"
  BY DEF Summary, Piece
<1>4. \A i \in 1..Len(r) : i <= o => r[i].kind = "summary"
  BY <1>1, <1>2, <1>3
<1> HIDE DEF r, o
<1>5. \A i \in 1..Len(r) : r[i].kind = "results" =>
        (m.start + i - 1 - o) \in m.start..Len(t) /\ r[i] = t[m.start + i - 1 - o]
  BY <1>1, <1>2, <1>4
<1>6. \A j \in m.start..Len(t) :
        (j - m.start + 1 + o) \in 1..Len(r) /\ r[j - m.start + 1 + o] = t[j]
  <2> TAKE j \in m.start..Len(t)
  <2> DEFINE i == j - m.start + 1 + o
  <2>1. i \in 1..Len(r) /\ i > o
    BY <1>1, <1>2, SMTT(30)
  <2>2. m.start + i - 1 - o = j
    BY <1>2
  <2> HIDE DEF i
  <2>3. r[i] = t[m.start + i - 1 - o]
    BY <1>1, <2>1
  <2> QED
    BY <2>1, <2>2, <2>3 DEF i
<1>7. ASSUME NEW c PROVE c \in AnsweredFrom(r, 1) => c \in AnsweredFrom(t, m.start)
  BY <1>5 DEF AnsweredFrom
<1>8. ASSUME NEW c PROVE c \in AnsweredFrom(t, m.start) => c \in AnsweredFrom(r, 1)
  BY <1>6 DEF AnsweredFrom
<1> QED
  BY <1>7, <1>8 DEF Answered, r

-----------------------------------------------------------------------------
(* What holds of a file t read through the marker m, with the calls T torn and *)
(* n calls made so far; and of a history h shown beside it.                    *)

(* Later answers are answers to later calls. *)
Sorted(t) ==
  \A i \in 1..Len(t), j \in 1..Len(t) :
    i < j /\ t[i].kind = "results" /\ t[j].kind = "results" =>
      \A c \in t[i].calls, d \in t[j].calls : c < d
Known(t, n) == \A i \in 1..Len(t) : t[i].calls \subseteq 1..n

FileOK(t, m, T, n, open) ==
  /\ t \in Seq(Pieces) /\ (t # <<>> => ByUser(t[1]))
  /\ Paired(t, T, open) /\ MayStart(t, m) /\ Sorted(t) /\ Known(t, n)

Shows(t, h, m, T, n, open) ==
  /\ h \in Seq(Pieces) /\ h # <<>> /\ t # <<>> /\ ByUser(h[1])
  /\ Paired(h, T, open) /\ Known(h, n) /\ Answered(h) = AnsweredFrom(t, m.start)

Good(pg, m, T, n) ==
  FileOK(pg.turns, m, T, n, FALSE) /\ Shows(pg.turns, pg.history, m, T, n, FALSE)

(* What the file would show ends on the user's side. *)
DiskEndsByUser(t, m) == m.start <= Len(t) => ByUser(t[Len(t)])
EndsUser(pg, m) == EndsByUser(pg.history) /\ DiskEndsByUser(pg.turns, m)
Level(pg, m) == EndsByUser(pg.history) => DiskEndsByUser(pg.turns, m)

PlainPieces == {p \in Pieces : p.kind \in Plain /\ p.calls = {}}

(* A plain piece written to the file keeps it well formed. *)
LEMMA ExtendFile ==
  ASSUME NEW t, NEW m \in Marks, NEW T, NEW n \in Nat, NEW p \in PlainPieces,
         FileOK(t, m, T, n, FALSE), t = <<>> => ByUser(p)
  PROVE  /\ FileOK(Append(t, p), m, T, n, FALSE)
         /\ AnsweredFrom(Append(t, p), m.start) = AnsweredFrom(t, m.start)
         /\ ByUser(p) => DiskEndsByUser(Append(t, p), m)
<1> DEFINE g == Append(t, p)
<1>1. t \in Seq(Pieces) /\ p \in Pieces /\ p.kind \in Plain /\ p.calls = {}
      /\ m.start \in Nat \ {0} /\ m.start <= Len(t) + 1
  BY DEF FileOK, PlainPieces, Marks, MayStart
<1>2. Len(t) \in Nat /\ g \in Seq(Pieces) /\ Len(g) = Len(t) + 1 /\ g[Len(t) + 1] = p
      /\ \A i \in 1..Len(t) : g[i] = t[i]
  BY <1>1
<1>3. Paired(g, T, FALSE)
  BY <1>1, AppendPlain DEF FileOK, Plain
<1>4. MayStart(g, m)
  BY <1>1, <1>2 DEF FileOK, MayStart, Plain
<1>5. Sorted(g)
  BY <1>1, <1>2 DEF FileOK, Sorted, Plain
<1>6. Known(g, n)
  BY <1>1, <1>2 DEF FileOK, Known
<1>7. g # <<>> => ByUser(g[1])
  <2>1. CASE t = <<>>
    BY <1>2, <2>1
  <2>2. CASE t # <<>>
    BY <1>1, <1>2, <2>2 DEF FileOK
  <2> QED
    BY <2>1, <2>2
<1>8. AnsweredFrom(g, m.start) = AnsweredFrom(t, m.start)
  BY <1>1, AppendAnswered DEF Plain
<1>9. ByUser(p) => DiskEndsByUser(g, m)
  BY <1>2 DEF DiskEndsByUser
<1> QED
  BY <1>2, <1>3, <1>4, <1>5, <1>6, <1>7, <1>8, <1>9 DEF FileOK

(* A plain piece shown keeps the history well formed. *)
LEMMA ExtendShown ==
  ASSUME NEW h \in Seq(Pieces), NEW T, NEW n \in Nat, NEW p \in PlainPieces,
         Paired(h, T, FALSE), Known(h, n), h # <<>>, ByUser(h[1])
  PROVE  LET g == Append(h, p)
         IN  /\ g \in Seq(Pieces) /\ g # <<>> /\ ByUser(g[1])
             /\ Paired(g, T, FALSE) /\ Known(g, n) /\ Answered(g) = Answered(h)
             /\ EndsByUser(g) <=> ByUser(p)
<1> DEFINE g == Append(h, p)
<1>1. p \in Pieces /\ p.kind \in Plain /\ p.calls = {}
  BY DEF PlainPieces
<1>2. Len(h) \in Nat \ {0} /\ g \in Seq(Pieces) /\ Len(g) = Len(h) + 1
      /\ g[Len(h) + 1] = p /\ g # <<>> /\ \A i \in 1..Len(h) : g[i] = h[i]
  BY <1>1
<1>3. Paired(g, T, FALSE)
  BY <1>1, AppendPlain DEF Plain
<1>4. Known(g, n)
  BY <1>1, <1>2 DEF Known
<1>5. Answered(g) = Answered(h)
  <2>1. 1 \in Nat \ {0} /\ 1 <= Len(h) + 1
    BY <1>2
  <2>2. AnsweredFrom(g, 1) = AnsweredFrom(h, 1) \cup (IF p.kind = "results" THEN p.calls ELSE {})
    BY <1>1, <2>1, AppendAnswered
  <2> QED
    BY <1>1, <2>2 DEF Answered, Plain
<1>6. EndsByUser(g) <=> ByUser(p)
  BY <1>2 DEF EndsByUser
<1>7. ByUser(g[1])
  <2>1. g[1] = h[1]
    BY <1>2
  <2> QED
    BY <2>1
<1> QED
  BY <1>2, <1>3, <1>4, <1>5, <1>6, <1>7

(* push_turn of a turn without calls, with the file and the history in step. *)
LEMMA Extend ==
  ASSUME NEW t, NEW h, NEW m \in Marks, NEW T, NEW n \in Nat,
         NEW p \in PlainPieces, NEW q \in PlainPieces,
         Good([turns |-> t, history |-> h], m, T, n)
  PROVE  LET pg == [turns |-> Append(t, p), history |-> Append(h, q)]
         IN  /\ Good(pg, m, T, n)
             /\ AnsweredFrom(pg.turns, m.start) = AnsweredFrom(t, m.start)
             /\ ByUser(p) => DiskEndsByUser(pg.turns, m)
             /\ EndsByUser(pg.history) <=> ByUser(q)
<1>1. FileOK(t, m, T, n, FALSE) /\ Shows(t, h, m, T, n, FALSE) /\ t # <<>>
  BY DEF Good, Shows
<1>2. /\ FileOK(Append(t, p), m, T, n, FALSE)
      /\ AnsweredFrom(Append(t, p), m.start) = AnsweredFrom(t, m.start)
      /\ ByUser(p) => DiskEndsByUser(Append(t, p), m)
  BY <1>1, ExtendFile
<1>3. Append(t, p) # <<>>
  <2>1. t \in Seq(Pieces) /\ p \in Pieces
    BY <1>1 DEF FileOK, PlainPieces
  <2> QED
    BY <2>1, AppendNonEmpty
<1>4. LET g == Append(h, q)
      IN  /\ g \in Seq(Pieces) /\ g # <<>> /\ ByUser(g[1])
          /\ Paired(g, T, FALSE) /\ Known(g, n) /\ Answered(g) = Answered(h)
          /\ EndsByUser(g) <=> ByUser(q)
  BY <1>1, ExtendShown DEF Shows
<1> QED
  BY <1>1, <1>2, <1>3, <1>4 DEF Good, Shows

-----------------------------------------------------------------------------
(* The operations on a page. *)

GoodStep(pg, new, m, T, n) ==
  /\ Good(new, m, T, n)
  /\ AnsweredFrom(new.turns, m.start) = AnsweredFrom(pg.turns, m.start)

(* A plain piece is the user's but for a reply. *)
LEMMA PlainPiece ==
  ASSUME NEW rec \in {"turn", "steer", "none"}, NEW kind \in Plain, NEW k \in Nat
  PROVE  /\ Piece(rec, kind, k, {}) \in PlainPieces
         /\ ByUser(Piece(rec, kind, k, {})) <=> kind # "reply"
BY DEF Piece, PlainPieces, Pieces, Kinds, Plain, ByUser

(* push_turn of a plain piece. *)
LEMMA PushTurnGood ==
  ASSUME NEW t, NEW h, NEW m \in Marks, NEW T, NEW n \in Nat, NEW kind \in Plain, NEW k \in Nat,
         Good([turns |-> t, history |-> h], m, T, n)
  PROVE  LET new == PushTurn([turns |-> t, history |-> h], kind, k, {})
         IN  /\ GoodStep([turns |-> t, history |-> h], new, m, T, n)
             /\ Level(new, m)
             /\ kind # "reply" => EndsUser(new, m)
<1> DEFINE p == Piece("turn", kind, k, {})
<1>1. p \in PlainPieces /\ (ByUser(p) <=> kind # "reply")
  BY PlainPiece
<1>2. PushTurn([turns |-> t, history |-> h], kind, k, {})
        = [turns |-> Append(t, p), history |-> Append(h, p)]
  BY DEF PushTurn
<1> HIDE DEF p
<1>3. LET pg == [turns |-> Append(t, p), history |-> Append(h, p)]
      IN  /\ Good(pg, m, T, n)
          /\ AnsweredFrom(pg.turns, m.start) = AnsweredFrom(t, m.start)
          /\ ByUser(p) => DiskEndsByUser(pg.turns, m)
          /\ EndsByUser(pg.history) <=> ByUser(p)
  BY <1>1, Extend
<1> QED
  BY <1>1, <1>2, <1>3 DEF GoodStep, Level, EndsUser

(* push_user_blocks, merged or not. *)
LEMMA PushUserGood ==
  ASSUME NEW t, NEW h, NEW m \in Marks, NEW T, NEW n \in Nat,
         NEW kind \in {"prompt", "steer", "note"}, NEW k \in Nat,
         Good([turns |-> t, history |-> h], m, T, n), Level([turns |-> t, history |-> h], m)
  PROVE  LET new == PushUser([turns |-> t, history |-> h], kind, k)
         IN  /\ GoodStep([turns |-> t, history |-> h], new, m, T, n)
             /\ EndsUser(new, m)
<1> DEFINE p == Piece("none", kind, k, {})
<1>1. kind \in Plain /\ kind # "reply"
  BY DEF Plain
<1>2. p \in PlainPieces /\ ByUser(p)
  BY <1>1, PlainPiece
<1>3. CASE EndsByUser(h)
  <2>1. PushUser([turns |-> t, history |-> h], kind, k) = [turns |-> t, history |-> Append(h, p)]
    BY <1>3 DEF PushUser
  <2> HIDE DEF p
  <2>2. /\ Append(h, p) \in Seq(Pieces) /\ Append(h, p) # <<>> /\ ByUser(Append(h, p)[1])
        /\ Paired(Append(h, p), T, FALSE) /\ Known(Append(h, p), n)
        /\ Answered(Append(h, p)) = Answered(h) /\ EndsByUser(Append(h, p))
    BY <1>2, ExtendShown DEF Good, Shows
  <2>3. DiskEndsByUser(t, m)
    BY <1>3 DEF Level
  <2>4. FileOK(t, m, T, n, FALSE) /\ Shows(t, h, m, T, n, FALSE)
    BY DEF Good
  <2>5. Shows(t, Append(h, p), m, T, n, FALSE)
    BY <2>2, <2>4 DEF Shows
  <2>6. Good([turns |-> t, history |-> Append(h, p)], m, T, n)
    BY <2>4, <2>5 DEF Good
  <2>7. EndsUser([turns |-> t, history |-> Append(h, p)], m)
    BY <2>2, <2>3 DEF EndsUser
  <2>8. GoodStep([turns |-> t, history |-> h], [turns |-> t, history |-> Append(h, p)], m, T, n)
    BY <2>6 DEF GoodStep
  <2> QED
    BY <2>1, <2>7, <2>8
<1>4. CASE ~EndsByUser(h)
  <2>1. PushUser([turns |-> t, history |-> h], kind, k)
          = PushTurn([turns |-> t, history |-> h], kind, k, {})
    BY <1>4 DEF PushUser
  <2> QED
    BY <1>1, <2>1, PushTurnGood
<1> QED
  BY <1>3, <1>4

(* A nudge. *)
LEMMA NudgeGood ==
  ASSUME NEW t, NEW h, NEW m \in Marks, NEW T, NEW n \in Nat,
         Good([turns |-> t, history |-> h], m, T, n), Level([turns |-> t, history |-> h], m)
  PROVE  LET new == Nudge([turns |-> t, history |-> h])
         IN  /\ GoodStep([turns |-> t, history |-> h], new, m, T, n)
             /\ EndsUser(new, m)
<1>1. CASE EndsByUser(h)
  BY <1>1 DEF Nudge, GoodStep, EndsUser, Level
<1>2. CASE ~EndsByUser(h)
  <2>1. Nudge([turns |-> t, history |-> h])
          = PushTurn([turns |-> t, history |-> h], "note", 0, {})
    BY <1>2 DEF Nudge
  <2> QED
    BY <2>1, PushTurnGood DEF Plain
<1> QED
  BY <1>1, <1>2

(* A queued message. *)
LEMMA InjectGood ==
  ASSUME NEW t, NEW h, NEW m \in Marks, NEW T, NEW n \in Nat, steers \in Nat,
         Good([turns |-> t, history |-> h], m, T, n)
  PROVE  LET new == Inject([turns |-> t, history |-> h])
         IN  /\ GoodStep([turns |-> t, history |-> h], new, m, T, n)
             /\ EndsUser(new, m)
<1> DEFINE p == Piece("steer", "steer", steers, {})
           q == Piece("turn", "steer", steers, {})
           one == [turns |-> Append(t, p), history |-> Append(h, p)]
           two == [turns |-> Append(Append(t, p), q), history |-> Append(h, p)]
<1>1. p \in PlainPieces /\ q \in PlainPieces /\ ByUser(p) /\ ByUser(q)
  BY PlainPiece DEF Plain
<1>2. Inject([turns |-> t, history |-> h]) = IF EndsByUser(h) THEN one ELSE two
  BY DEF Inject
<1> HIDE DEF p, q
<1>3. /\ Good(one, m, T, n)
      /\ AnsweredFrom(one.turns, m.start) = AnsweredFrom(t, m.start)
      /\ DiskEndsByUser(one.turns, m) /\ EndsByUser(one.history)
  BY <1>1, Extend
<1>4. /\ Good(two, m, T, n)
      /\ AnsweredFrom(two.turns, m.start) = AnsweredFrom(t, m.start)
      /\ DiskEndsByUser(two.turns, m) /\ EndsByUser(two.history)
  <2> DEFINE u == Append(t, p)
  <2>1. FileOK(u, m, T, n, FALSE) /\ Shows(u, Append(h, p), m, T, n, FALSE) /\ u # <<>>
    BY <1>3 DEF Good, Shows
  <2> HIDE DEF u
  <2>2. /\ FileOK(Append(u, q), m, T, n, FALSE)
        /\ AnsweredFrom(Append(u, q), m.start) = AnsweredFrom(u, m.start)
        /\ DiskEndsByUser(Append(u, q), m)
    BY <1>1, <2>1, ExtendFile
  <2>3. Append(u, q) # <<>>
    BY <1>1, <2>1, AppendNonEmpty DEF FileOK, PlainPieces
  <2>4. Shows(Append(u, q), Append(h, p), m, T, n, FALSE)
    BY <2>1, <2>2, <2>3 DEF Shows
  <2> QED
    BY <1>3, <2>2, <2>4 DEF Good, u
<1> QED
  BY <1>2, <1>3, <1>4 DEF GoodStep, EndsUser

-----------------------------------------------------------------------------
(* A round: the turn that asks, the turn that answers, the app dying between. *)

PairOpen(t, h, m) ==
  /\ h[Len(h)].kind = "calls" /\ t[Len(t)] = h[Len(h)] /\ m.start <= Len(t)
  /\ \A c \in AnsweredFrom(t, 1), d \in h[Len(h)].calls : c < d

CallDone(t, new, m, T, n, k) ==
  /\ FileOK(new.turns, m, T, k, TRUE) /\ Shows(new.turns, new.history, m, T, k, TRUE)
  /\ PairOpen(new.turns, new.history, m)
  /\ new.history[Len(new.history)].calls = (n + 1)..k
  /\ AnsweredFrom(new.turns, m.start) = AnsweredFrom(t, m.start)

(* The turn of a round's calls opens a pair in file and history. *)
LEMMA CallGood ==
  ASSUME NEW t, NEW h, NEW m \in Marks, NEW T, NEW n \in Nat, NEW k \in Nat,
         n <= k, k <= MaxCalls,
         Good([turns |-> t, history |-> h], m, T, n)
  PROVE  CallDone(t, PushTurn([turns |-> t, history |-> h], "calls", 0, (n + 1)..k), m, T, n, k)
<1> DEFINE p == Piece("turn", "calls", 0, (n + 1)..k)
           u == Append(t, p)
           g == Append(h, p)
<1>1. p \in Pieces /\ p.kind = "calls" /\ p.calls = (n + 1)..k
  BY TranscriptAssumption DEF Piece, Pieces, Kinds
<1>2. FileOK(t, m, T, n, FALSE) /\ Shows(t, h, m, T, n, FALSE)
  BY DEF Good
<1>3. t \in Seq(Pieces) /\ t # <<>> /\ h \in Seq(Pieces) /\ h # <<>>
  BY <1>2 DEF FileOK, Shows
<1>4. PushTurn([turns |-> t, history |-> h], "calls", 0, (n + 1)..k)
        = [turns |-> u, history |-> g]
  BY DEF PushTurn
<1> HIDE DEF p
<1>5. Len(t) \in Nat \ {0} /\ u \in Seq(Pieces) /\ Len(u) = Len(t) + 1 /\ u # <<>>
      /\ u[Len(t) + 1] = p /\ \A i \in 1..Len(t) : u[i] = t[i]
  BY <1>1, <1>3
<1>6. Len(h) \in Nat \ {0} /\ g \in Seq(Pieces) /\ Len(g) = Len(h) + 1 /\ g # <<>>
      /\ g[Len(h) + 1] = p /\ \A i \in 1..Len(h) : g[i] = h[i]
  BY <1>1, <1>3
<1>7. m.start \in Nat \ {0} /\ m.start <= Len(t) + 1
  BY <1>2 DEF FileOK, MayStart, Marks
<1>8. Paired(u, T, TRUE) /\ Paired(g, T, TRUE)
  BY <1>1, <1>2, <1>3, AppendCalls DEF FileOK, Shows
<1>9. AnsweredFrom(u, m.start) = AnsweredFrom(t, m.start)
      /\ AnsweredFrom(u, 1) = AnsweredFrom(t, 1) /\ AnsweredFrom(g, 1) = AnsweredFrom(h, 1)
  <2>1. 1 \in Nat \ {0} /\ 1 <= Len(t) + 1 /\ 1 <= Len(h) + 1
    BY <1>5, <1>6
  <2>2. AnsweredFrom(u, m.start)
          = AnsweredFrom(t, m.start) \cup (IF p.kind = "results" THEN p.calls ELSE {})
    BY <1>1, <1>3, <1>7, AppendAnswered
  <2>3. AnsweredFrom(u, 1) = AnsweredFrom(t, 1) \cup (IF p.kind = "results" THEN p.calls ELSE {})
    BY <1>1, <1>3, <2>1, AppendAnswered
  <2>4. AnsweredFrom(g, 1) = AnsweredFrom(h, 1) \cup (IF p.kind = "results" THEN p.calls ELSE {})
    BY <1>1, <1>3, <2>1, AppendAnswered
  <2> QED
    BY <1>1, <2>2, <2>3, <2>4
<1>10. Known(u, k) /\ Known(g, k)
  <2>1. Known(t, n) /\ Known(h, n)
    BY <1>2 DEF FileOK, Shows
  <2> QED
    BY <1>1, <1>5, <1>6, <2>1 DEF Known
<1>11. Sorted(u) /\ MayStart(u, m) /\ ByUser(u[1]) /\ ByUser(g[1])
  <2>1. Sorted(u)
    BY <1>1, <1>2, <1>5 DEF FileOK, Sorted
  <2>2. MayStart(u, m)
    BY <1>1, <1>2, <1>5, <1>7 DEF FileOK, MayStart
  <2>3. u[1] = t[1] /\ g[1] = h[1]
    BY <1>5, <1>6
  <2> QED
    BY <1>2, <2>1, <2>2, <2>3 DEF FileOK, Shows
<1>12. \A c \in AnsweredFrom(t, 1), d \in (n + 1)..k : c < d
  <2>1. \A c \in AnsweredFrom(t, 1) : c \in 1..n
    BY <1>2 DEF FileOK, Known, AnsweredFrom
  <2> QED
    BY <2>1
<1> HIDE DEF u, g
<1>13. FileOK(u, m, T, k, TRUE) /\ Shows(u, g, m, T, k, TRUE)
  BY <1>2, <1>5, <1>6, <1>8, <1>9, <1>10, <1>11 DEF FileOK, Shows, Answered
<1>14. PairOpen(u, g, m) /\ g[Len(g)].calls = (n + 1)..k
  BY <1>1, <1>5, <1>6, <1>7, <1>9, <1>12 DEF PairOpen
<1> DEFINE new == PushTurn([turns |-> t, history |-> h], "calls", 0, (n + 1)..k)
<1>15. new.turns = u /\ new.history = g
  BY <1>4
<1> HIDE DEF new
<1>16. /\ FileOK(new.turns, m, T, k, TRUE) /\ Shows(new.turns, new.history, m, T, k, TRUE)
       /\ PairOpen(new.turns, new.history, m)
       /\ new.history[Len(new.history)].calls = (n + 1)..k
       /\ AnsweredFrom(new.turns, m.start) = AnsweredFrom(t, m.start)
  BY <1>9, <1>13, <1>14, <1>15
<1> QED
  BY <1>16 DEF new, CallDone

(* The turn of its results closes it. *)
LEMMA ResultGood ==
  ASSUME NEW t, NEW h, NEW m \in Marks, NEW T, NEW n \in Nat,
         FileOK(t, m, T, n, TRUE), Shows(t, h, m, T, n, TRUE), PairOpen(t, h, m)
  PROVE  LET s == h[Len(h)].calls
             new == PushTurn([turns |-> t, history |-> h], "results", 0, s)
         IN  /\ Good(new, m, T, n) /\ EndsUser(new, m)
             /\ AnsweredFrom(new.turns, m.start) = AnsweredFrom(t, m.start) \cup s
<1> DEFINE s == h[Len(h)].calls
           p == Piece("turn", "results", 0, s)
           u == Append(t, p)
           g == Append(h, p)
<1>1. t \in Seq(Pieces) /\ t # <<>> /\ h \in Seq(Pieces) /\ h # <<>>
  BY DEF FileOK, Shows
<1>2. h[Len(h)] \in Pieces /\ h[Len(h)].kind = "calls" /\ t[Len(t)] = h[Len(h)]
      /\ m.start <= Len(t) /\ m.start \in Nat \ {0}
  <2>1. Len(h) \in 1..Len(h)
    BY <1>1
  <2> QED
    BY <1>1, <2>1 DEF PairOpen, Marks
<1>3. p \in Pieces /\ p.kind = "results" /\ p.calls = s
  BY <1>2 DEF Piece, Pieces, Kinds
<1>4. PushTurn([turns |-> t, history |-> h], "results", 0, s) = [turns |-> u, history |-> g]
  BY DEF PushTurn
<1> HIDE DEF p
<1>5. Len(t) \in Nat \ {0} /\ u \in Seq(Pieces) /\ Len(u) = Len(t) + 1 /\ u # <<>>
      /\ u[Len(t) + 1] = p /\ \A i \in 1..Len(t) : u[i] = t[i]
  BY <1>1, <1>3
<1>6. Len(h) \in Nat \ {0} /\ g \in Seq(Pieces) /\ Len(g) = Len(h) + 1 /\ g # <<>>
      /\ g[Len(h) + 1] = p /\ \A i \in 1..Len(h) : g[i] = h[i]
  BY <1>1, <1>3
<1>7. Paired(u, T, FALSE) /\ Paired(g, T, FALSE)
  BY <1>1, <1>2, <1>3, AppendResults DEF FileOK, Shows
<1>8. AnsweredFrom(u, m.start) = AnsweredFrom(t, m.start) \cup s
      /\ AnsweredFrom(g, 1) = AnsweredFrom(h, 1) \cup s
  <2>1. 1 \in Nat \ {0} /\ 1 <= Len(h) + 1 /\ m.start <= Len(t) + 1
    BY <1>2, <1>5, <1>6
  <2>2. AnsweredFrom(u, m.start)
          = AnsweredFrom(t, m.start) \cup (IF p.kind = "results" THEN p.calls ELSE {})
    BY <1>1, <1>2, <1>3, <2>1, AppendAnswered
  <2>3. AnsweredFrom(g, 1) = AnsweredFrom(h, 1) \cup (IF p.kind = "results" THEN p.calls ELSE {})
    BY <1>1, <1>3, <2>1, AppendAnswered
  <2> QED
    BY <1>3, <2>2, <2>3
<1>9. Known(u, n) /\ Known(g, n)
  <2>1. Known(t, n) /\ Known(h, n)
    BY DEF FileOK, Shows
  <2>2. s \subseteq 1..n
    BY <1>6, <2>1 DEF Known
  <2> QED
    BY <1>3, <1>5, <1>6, <2>1, <2>2 DEF Known
<1>10. Sorted(u)
  <2>1. \A i \in 1..Len(t) : t[i].kind = "results" => t[i].calls \subseteq AnsweredFrom(t, 1)
    BY DEF AnsweredFrom
  <2>2. \A i \in 1..Len(t) : t[i].kind = "results" => \A c \in t[i].calls, d \in s : c < d
    BY <2>1 DEF PairOpen
  <2>3. Sorted(t)
    BY DEF FileOK
  <2> HIDE DEF s
  <2> QED
    BY <1>3, <1>5, <2>2, <2>3 DEF Sorted
<1>11. MayStart(u, m) /\ ByUser(u[1]) /\ ByUser(g[1])
  <2>1. u[m.start] = t[m.start] /\ u[1] = t[1] /\ g[1] = h[1]
    BY <1>2, <1>5, <1>6
  <2> QED
    BY <1>1, <1>2, <1>5, <2>1 DEF FileOK, Shows, MayStart
<1>12. EndsByUser(g) /\ DiskEndsByUser(u, m)
  BY <1>3, <1>5, <1>6 DEF EndsByUser, DiskEndsByUser, ByUser
<1> HIDE DEF u, g
<1>13. FileOK(u, m, T, n, FALSE) /\ Shows(u, g, m, T, n, FALSE)
  BY <1>5, <1>6, <1>7, <1>8, <1>9, <1>10, <1>11 DEF FileOK, Shows, Answered
<1> DEFINE new == PushTurn([turns |-> t, history |-> h], "results", 0, s)
<1>14. new.turns = u /\ new.history = g
  BY <1>4
<1> HIDE DEF new
<1>15. Good(new, m, T, n) /\ EndsUser(new, m)
       /\ AnsweredFrom(new.turns, m.start) = AnsweredFrom(t, m.start) \cup s
  BY <1>8, <1>12, <1>13, <1>14 DEF Good, EndsUser
<1> QED
  BY <1>15 DEF new

(* A file whose writer died between the two has a torn round and no open pair. *)
LEMMA TornFile ==
  ASSUME NEW t, NEW h, NEW m, NEW T, NEW n \in Nat,
         FileOK(t, m, T, n, TRUE), PairOpen(t, h, m)
  PROVE  FileOK(t, m, T \cup h[Len(h)].calls, n, FALSE)
BY DEF FileOK, PairOpen, Paired, CallHasAnswer

(* A file and what is rebuilt from it agree. *)
LEMMA RebuiltGood ==
  ASSUME NEW t, NEW m \in Marks, NEW T, NEW n \in Nat,
         FileOK(t, m, T, n, FALSE), t # <<>>, m.made \/ m.start = 1
  PROVE  /\ Good([turns |-> t, history |-> Rebuilt(t, m)], m, T, n)
         /\ EndsByUser(Rebuilt(t, m)) <=> DiskEndsByUser(t, m)
<1> DEFINE r == Rebuilt(t, m)
           o == IF m.made THEN 1 ELSE 0
<1>1. t \in Seq(Pieces) /\ Paired(t, T, FALSE) /\ MayStart(t, m) /\ Known(t, n) /\ ByUser(t[1])
  BY DEF FileOK
<1>2. /\ r \in Seq(Pieces) /\ Len(r) = o + Len(t) + 1 - m.start
      /\ m.made => r[1] = Summary
      /\ \A i \in 1..Len(r) : i > o => r[i] = t[m.start + i - 1 - o]
  BY <1>1, RebuiltShape DEF MayStart
<1>3. o \in {0, 1} /\ m.start \in Nat \ {0} /\ Len(t) \in Nat \ {0} /\ m.start <= Len(t) + 1
  BY <1>1 DEF Marks, MayStart
<1>4. Summary.kind = "summary" /\ Summary.calls = {} /\ ByUser(Summary)
  BY DEF Summary, Piece, ByUser
<1>5. (o = 1 <=> m.made) /\ (o = 0 <=> ~m.made)
  BY DEF Marks
<1>6. Paired(r, T, FALSE) /\ Answered(r) = AnsweredFrom(t, m.start)
  BY <1>1, RebuiltPaired, RebuiltAnswered DEF MayStart
<1> HIDE DEF r, o
<1>7. r # <<>> /\ Len(r) >= 1
  BY <1>2, <1>3, <1>5
<1>8. ByUser(r[1])
  <2>1. CASE m.made
    BY <1>2, <1>4, <2>1
  <2>2. CASE ~m.made
    <3>1. r[1] = t[1]
      <4>1. 1 \in 1..Len(r) /\ 1 > o /\ m.start + 1 - 1 - o = 1
        BY <1>3, <1>5, <1>7, <1>2, <2>2
      <4> QED
        BY <1>2, <4>1
    <3> QED
      BY <1>1, <3>1
  <2> QED
    BY <2>1, <2>2
<1>9. Known(r, n)
  <2> SUFFICES ASSUME NEW i \in 1..Len(r) PROVE r[i].calls \subseteq 1..n
    BY DEF Known
  <2>1. CASE i > o
    <3>1. m.start + i - 1 - o \in 1..Len(t) /\ r[i] = t[m.start + i - 1 - o]
      BY <1>2, <1>3, <2>1
    <3> QED
      BY <1>1, <3>1 DEF Known
  <2>2. CASE ~(i > o)
    <3>1. r[i] = Summary
      BY <1>2, <1>3, <1>5, <2>2
    <3> QED
      BY <1>4, <3>1
  <2> QED
    BY <2>1, <2>2
<1>10. EndsByUser(r) <=> DiskEndsByUser(t, m)
  <2>1. CASE m.start <= Len(t)
    <3>1. Len(r) \in 1..Len(r) /\ Len(r) > o /\ m.start + Len(r) - 1 - o = Len(t)
      BY <1>2, <1>3, <2>1, SMTT(30)
    <3>2. r[Len(r)] = t[Len(t)]
      BY <1>2, <3>1
    <3> QED
      BY <1>7, <2>1, <3>2 DEF EndsByUser, DiskEndsByUser
  <2>2. CASE ~(m.start <= Len(t))
    <3>1. m.made /\ Len(r) = 1
      BY <1>2, <1>3, <1>5, <2>2
    <3> QED
      BY <1>2, <1>4, <1>7, <2>2, <3>1 DEF EndsByUser, DiskEndsByUser
  <2> QED
    BY <2>1, <2>2
<1>11. Shows(t, r, m, T, n, FALSE)
  BY <1>2, <1>6, <1>7, <1>8, <1>9 DEF Shows
<1> QED
  BY <1>10, <1>11 DEF Good, r

-----------------------------------------------------------------------------
(* The inductive invariant. *)

Heads == {"head", "shed", "compress", "request"}

MarkOK ==
  /\ mark \in Marks /\ mark.at <= Len(turns) /\ mark.start <= mark.at + 1
  /\ (mark.made /\ turns # <<>>) \/ (~mark.made /\ mark.start = 1)

FileInv == IF phase = "pair" THEN /\ FileOK(turns, mark, torn, Len(tool), TRUE)
                                  /\ Shows(turns, history, mark, torn, Len(tool), TRUE)
                                  /\ PairOpen(turns, history, mark)
           ELSE FileOK(turns, mark, torn, Len(tool), FALSE)

LiveInv == phase \in Heads =>
  Shows(turns, history, mark, torn, Len(tool), FALSE) /\ EndsUser(Page, mark)

FormInv == /\ form = FormOnDisk(pruned)
           /\ phase = "pair" => \A c \in history[Len(history)].calls : form[c] = "whole"

Inv == TypeOK /\ MarkOK /\ FileInv /\ LiveInv /\ FormInv /\ ListAndAnswersKept

(* A page of the run in its heads is a good one. *)
LEMMA HeadsGood ==
  ASSUME Inv, phase \in Heads
  PROVE  /\ Good([turns |-> turns, history |-> history], mark, torn, Len(tool))
         /\ EndsUser([turns |-> turns, history |-> history], mark)
         /\ mark \in Marks /\ Len(tool) \in Nat
<1>1. FileOK(turns, mark, torn, Len(tool), FALSE)
  BY DEF Inv, FileInv, Heads
<1>2. Shows(turns, history, mark, torn, Len(tool), FALSE) /\ EndsUser(Page, mark)
  BY DEF Inv, LiveInv
<1>3. mark \in Marks /\ Len(tool) \in Nat
  BY DEF Inv, MarkOK, TypeOK
<1> QED
  BY <1>1, <1>2, <1>3 DEF Good, Page

(* The file only grows. *)
LEMMA Grows ==
  ASSUME NEW t \in Seq(Pieces), NEW h, NEW k \in Nat, steers \in Nat,
         NEW kind \in {"prompt", "note", "reply"}
  PROVE  LET pg == [turns |-> t, history |-> h]
         IN  /\ Len(t) <= Len(PushTurn(pg, kind, k, {}).turns)
             /\ Len(t) <= Len(PushUser(pg, kind, k).turns)
             /\ Len(t) <= Len(Nudge(pg).turns)
             /\ Len(t) <= Len(Inject(pg).turns)
<1> DEFINE pg == [turns |-> t, history |-> h]
<1>1. \A x \in Pieces, y \in Pieces :
        Len(t) <= Len(t) /\ Len(t) <= Len(Append(t, x)) /\ Len(t) <= Len(Append(Append(t, x), y))
  <2> TAKE x \in Pieces, y \in Pieces
  <2>1. Append(t, x) \in Seq(Pieces) /\ Len(Append(t, x)) = Len(t) + 1 /\ Len(t) \in Nat
    OBVIOUS
  <2>2. Len(Append(Append(t, x), y)) = Len(Append(t, x)) + 1
    BY <2>1
  <2> QED
    BY <2>1, <2>2
<1>2. /\ Piece("turn", kind, k, {}) \in Pieces /\ Piece("turn", "note", 0, {}) \in Pieces
      /\ Piece("steer", "steer", steers, {}) \in Pieces
      /\ Piece("turn", "steer", steers, {}) \in Pieces
  BY DEF Piece, Pieces, Kinds
<1>3. PushTurn(pg, kind, k, {}).turns = Append(t, Piece("turn", kind, k, {}))
      /\ PushTurn(pg, "note", 0, {}).turns = Append(t, Piece("turn", "note", 0, {}))
  BY DEF PushTurn
<1>4. PushUser(pg, kind, k).turns \in {t, Append(t, Piece("turn", kind, k, {}))}
  <2>1. CASE EndsByUser(h)
    <3>1. PushUser(pg, kind, k)
            = [turns |-> t, history |-> Append(h, Piece("none", kind, k, {}))]
      BY <2>1, Zenon DEF PushUser
    <3> QED
      BY <3>1
  <2>2. CASE ~EndsByUser(h)
    <3>1. PushUser(pg, kind, k) = PushTurn(pg, kind, k, {})
      BY <2>2 DEF PushUser
    <3> QED
      BY <3>1, <1>3
  <2> QED
    BY <2>1, <2>2
<1>5. Nudge(pg).turns \in {t, Append(t, Piece("turn", "note", 0, {}))}
  BY <1>3 DEF Nudge
<1>6. Inject(pg).turns \in {Append(t, Piece("steer", "steer", steers, {})),
        Append(Append(t, Piece("steer", "steer", steers, {})), Piece("turn", "steer", steers, {}))}
  BY DEF Inject
<1> QED
  BY <1>1, <1>2, <1>3, <1>4, <1>5, <1>6

(* After a round the run goes on with a good page, or rests with a good file. *)
LEMMA OnwardGood ==
  ASSUME NEW pg, pg = [turns |-> pg.turns, history |-> pg.history],
         mark \in Marks, Len(tool) \in Nat, steers \in Nat,
         Good(pg, mark, torn, Len(tool)), Level(pg, mark),
         NEW then \in Thens, Onward(pg, then)
  PROVE  /\ \/ /\ phase' = "head"
               /\ Good([turns |-> turns', history |-> history'], mark, torn, Len(tool))
               /\ EndsUser([turns |-> turns', history |-> history'], mark)
            \/ phase' = "idle" /\ history' = <<>> /\ turns' = pg.turns
         /\ FileOK(turns', mark, torn, Len(tool), FALSE) /\ history' \in Seq(Pieces)
         /\ AnsweredFrom(turns', mark.start) = AnsweredFrom(pg.turns, mark.start)
         /\ Len(pg.turns) <= Len(turns') /\ queued' \in {queued, FALSE}
<1>1. pg.turns \in Seq(Pieces)
  BY DEF Good, FileOK
<1>2. ASSUME NEW new, GoodStep(pg, new, mark, torn, Len(tool)), EndsUser(new, mark),
             Len(pg.turns) <= Len(new.turns), Write(new), phase' = "head",
             queued' \in {queued, FALSE}
      PROVE  /\ phase' = "head"
             /\ Good([turns |-> turns', history |-> history'], mark, torn, Len(tool))
             /\ EndsUser([turns |-> turns', history |-> history'], mark)
             /\ FileOK(turns', mark, torn, Len(tool), FALSE) /\ history' \in Seq(Pieces)
             /\ AnsweredFrom(turns', mark.start) = AnsweredFrom(pg.turns, mark.start)
             /\ Len(pg.turns) <= Len(turns') /\ queued' \in {queued, FALSE}
  <2>1. turns' = new.turns /\ history' = new.history
    BY <1>2 DEF Write
  <2>2. Good([turns |-> turns', history |-> history'], mark, torn, Len(tool))
        /\ EndsUser([turns |-> turns', history |-> history'], mark)
    BY <1>2, <2>1 DEF Good, GoodStep, EndsUser
  <2> QED
    BY <1>2, <2>1, <2>2 DEF Good, GoodStep, Shows
<1>3. CASE then = "inject"
  <2>1. Write(Inject(pg)) /\ phase' = "head" /\ queued' = FALSE
    BY <1>3 DEF Onward
  <2>2. GoodStep(pg, Inject(pg), mark, torn, Len(tool)) /\ EndsUser(Inject(pg), mark)
    BY InjectGood
  <2>3. Len(pg.turns) <= Len(Inject(pg).turns)
    BY <1>1, Grows
  <2> QED
    BY <1>2, <2>1, <2>2, <2>3
<1>4. CASE then = "nudge"
  <2>1. Write(Nudge(pg)) /\ phase' = "head" /\ queued' = queued
    BY <1>4 DEF Onward
  <2>2. GoodStep(pg, Nudge(pg), mark, torn, Len(tool)) /\ EndsUser(Nudge(pg), mark)
    BY NudgeGood
  <2>3. Len(pg.turns) <= Len(Nudge(pg).turns)
    BY <1>1, Grows
  <2> QED
    BY <1>2, <2>1, <2>2, <2>3
<1>5. CASE then = "end"
  <2>1. turns' = pg.turns /\ phase' = "idle" /\ history' = <<>> /\ queued' = FALSE
    BY <1>5 DEF Onward, Rest
  <2>2. FileOK(turns', mark, torn, Len(tool), FALSE)
    <3>1. FileOK(pg.turns, mark, torn, Len(tool), FALSE)
      BY DEF Good
    <3> QED
      BY <2>1, <3>1
  <2>4. Len(pg.turns) <= Len(turns')
    <3>1. Len(pg.turns) \in Nat
      BY <1>1
    <3> QED
      BY <2>1, <3>1
  <2>3. <<>> \in Seq(Pieces)
    OBVIOUS
  <2> QED
    BY <2>1, <2>2, <2>3, <2>4
<1> QED
  BY <1>3, <1>4, <1>5 DEF Thens

-----------------------------------------------------------------------------
(* Each action keeps the invariant. *)

Counts == /\ queued \in BOOLEAN /\ pass \in {"opening", "first", "later"}
          /\ prompts \in Nat /\ steers \in Nat /\ prunes \in Nat /\ marks \in Nat
          /\ crashes \in Nat

(* ListAndAnswersKept of the calls S, as their forms are. *)
KeptOK(S) ==
  /\ \A c \in S : tool[c] = "ask" => form[c] = "whole"
  /\ \A s \in S, c \in S :
       (tool[s] \in Snapshots /\ \A t \in S : tool[t] \in Snapshots => t <= s)
         /\ tool[c] \in TaskTools /\ s <= c => form[c] = "whole"

(* What is kept, said of the file. *)
LEMMA KeptNow == ListAndAnswersKept <=> KeptOK(AnsweredFrom(turns, mark.start))
BY DEF ListAndAnswersKept, KeptOK, Kept, Newest

(* A step that changes neither the markers nor the calls. *)
LEMMA FrameKept ==
  ASSUME Inv, mark' = mark, pruned' = pruned, form' = form, tool' = tool,
         torn' \subseteq DOMAIN tool, phase' \in Phases \ {"pair"}, Counts',
         Len(turns) <= Len(turns'), history' \in Seq(Pieces),
         FileOK(turns', mark, torn', Len(tool), FALSE),
         KeptOK(AnsweredFrom(turns', mark.start)),
         phase' \in Heads =>
           /\ Shows(turns', history', mark, torn', Len(tool), FALSE)
           /\ EndsUser([turns |-> turns', history |-> history'], mark)
  PROVE  Inv'
<1>1. /\ turns \in Seq(Pieces) /\ turns' \in Seq(Pieces)
      /\ Len(turns) \in Nat /\ Len(turns') \in Nat
  <2>1. turns \in Seq(Pieces) /\ turns' \in Seq(Pieces)
    BY DEF Inv, TypeOK, FileOK
  <2> QED
    BY <2>1
<1>2. MarkOK'
  <2>1. turns # <<>> => turns' # <<>>
    BY <1>1
  <2>2. mark \in Marks /\ mark.at <= Len(turns')
    BY <1>1 DEF Inv, MarkOK, Marks
  <2> QED
    BY <2>1, <2>2 DEF Inv, MarkOK
<1>3. TypeOK'
  <2>1. mark' \in [made : BOOLEAN, at : 0..Len(turns'), start : 1..(Len(turns') + 1)]
    BY <1>1, <1>2 DEF MarkOK, Marks
  <2> QED
    BY <1>1, <2>1 DEF Inv, TypeOK, Counts
<1>4. FileInv'
  BY DEF FileInv
<1>5. LiveInv'
  BY DEF LiveInv, Page
<1>6. FormInv'
  BY DEF Inv, FormInv, FormOnDisk
<1>7. ListAndAnswersKept'
  <2>1. Kept' = AnsweredFrom(turns', mark.start)
    BY DEF Kept
  <2> QED
    BY <2>1 DEF ListAndAnswersKept, KeptOK, Newest
<1> QED
  BY <1>2, <1>3, <1>4, <1>5, <1>6, <1>7 DEF Inv

(* A step that changes neither the markers nor the calls nor what is answered. *)
LEMMA Frame ==
  ASSUME Inv, mark' = mark, pruned' = pruned, form' = form, tool' = tool,
         torn' \subseteq DOMAIN tool, phase' \in Phases \ {"pair"}, Counts',
         Len(turns) <= Len(turns'), history' \in Seq(Pieces),
         FileOK(turns', mark, torn', Len(tool), FALSE),
         AnsweredFrom(turns', mark.start) = AnsweredFrom(turns, mark.start),
         phase' \in Heads =>
           /\ Shows(turns', history', mark, torn', Len(tool), FALSE)
           /\ EndsUser([turns |-> turns', history |-> history'], mark)
  PROVE  Inv'
<1>1. KeptOK(AnsweredFrom(turns', mark.start))
  BY KeptNow DEF Inv
<1> QED
  BY <1>1, FrameKept

(* Outside a round the file has no open pair, and the forms on disk are those shown. *)
LEMMA FileUnpaired ==
  ASSUME Inv, phase # "pair"
  PROVE  FileOK(turns, mark, torn, Len(tool), FALSE) /\ form = FormOnDisk(pruned)
BY DEF Inv, FileInv, FormInv

(* The invariant holds of an empty session. *)
LEMMA InvInit == Init => Inv
<1> SUFFICES ASSUME Init PROVE Inv
  OBVIOUS
<1>1. turns = <<>> /\ history = <<>> /\ form = <<>> /\ tool = <<>>
      /\ mark = [made |-> FALSE, at |-> 0, start |-> 1]
      /\ pruned = [cut |-> {}, dropped |-> {}] /\ torn = {} /\ phase = "idle"
  BY DEF Init
<1>2. Len(turns) = 0 /\ Len(tool) = 0 /\ DOMAIN tool = {} /\ DOMAIN form = {}
      /\ turns \in Seq(Pieces) /\ history \in Seq(Pieces) /\ tool \in Seq(Tools)
  BY <1>1
<1>3. form = [c \in DOMAIN tool |-> "whole"]
  BY <1>1, <1>2
<1>4. TypeOK
  <2>1. form \in [DOMAIN tool -> {"whole", "cut", "dropped"}]
    BY <1>3
  <2>2. 0 <= MaxCalls
    BY TranscriptAssumption
  <2>3. mark \in [made : BOOLEAN, at : 0..Len(turns), start : 1..(Len(turns) + 1)]
    BY <1>1, <1>2
  <2>4. pruned \in [cut : SUBSET DOMAIN tool, dropped : SUBSET DOMAIN tool]
        /\ torn \subseteq DOMAIN tool
    BY <1>1
  <2>5. phase \in Phases /\ Len(tool) <= MaxCalls
    BY <1>1, <1>2, <2>2 DEF Phases
  <2> QED
    BY <1>2, <2>1, <2>3, <2>4, <2>5 DEF Init, TypeOK
<1>5. MarkOK
  BY <1>1, <1>2 DEF MarkOK, Marks
<1>6. FileInv
  BY <1>1, <1>2 DEF FileInv, FileOK, Paired, CallHasAnswer, AnswerHasCall, MayStart, Sorted, Known
<1>7. LiveInv
  BY <1>1 DEF LiveInv, Heads
<1>8. FormInv
  <2>1. FormOnDisk(pruned) = [c \in DOMAIN tool |-> "whole"]
    BY <1>1, <1>2 DEF FormOnDisk
  <2> QED
    BY <1>1, <1>3, <2>1 DEF FormInv
<1>9. ListAndAnswersKept
  <2>1. \A i \in mark.start..Len(turns) : FALSE
    BY <1>1, <1>2
  <2>2. Kept = {}
    BY <2>1 DEF Kept, AnsweredFrom
  <2> QED
    BY <2>2 DEF ListAndAnswersKept
<1> QED
  BY <1>4, <1>5, <1>6, <1>7, <1>8, <1>9 DEF Inv

(* The prompt of a session's first run is its first turn. *)
LEMMA FirstPrompt ==
  ASSUME Inv, turns = <<>>, phase = "idle", NEW k \in Nat
  PROVE  LET new == PushUser([turns |-> turns, history |-> Rebuilt(turns, mark)], "prompt", k)
         IN  /\ GoodStep(Page, new, mark, torn, Len(tool))
             /\ EndsUser(new, mark)
<1> DEFINE p == Piece("turn", "prompt", k, {})
           g == Append(<<>>, p)
<1>1. p \in PlainPieces /\ ByUser(p)
  BY PlainPiece DEF Plain
<1>2. mark \in Marks /\ mark.start = 1 /\ ~mark.made /\ Len(tool) \in Nat
  BY DEF Inv, MarkOK, TypeOK
<1>3. FileOK(<<>>, mark, torn, Len(tool), FALSE)
  BY FileUnpaired
<1>4. Rebuilt(turns, mark) = <<>>
  <2>1. SubSeq(turns, 1, Len(turns)) = <<>>
    OBVIOUS
  <2>2. <<>> \o <<>> = <<>>
    OBVIOUS
  <2> QED
    BY <1>2, <2>1, <2>2 DEF Rebuilt
<1>5. PushUser([turns |-> turns, history |-> Rebuilt(turns, mark)], "prompt", k)
        = [turns |-> g, history |-> g]
  BY <1>4 DEF PushUser, PushTurn, EndsByUser
<1> HIDE DEF p
<1>6. /\ FileOK(g, mark, torn, Len(tool), FALSE)
      /\ AnsweredFrom(g, mark.start) = AnsweredFrom(<<>>, mark.start)
      /\ DiskEndsByUser(g, mark)
  BY <1>1, <1>2, <1>3, ExtendFile
<1>7. g \in Seq(Pieces) /\ Len(g) = 1 /\ g[1] = p /\ g # <<>>
  BY <1>1 DEF PlainPieces
<1>8. Shows(g, g, mark, torn, Len(tool), FALSE)
  BY <1>1, <1>2, <1>6, <1>7 DEF Shows, FileOK, Answered
<1>9. EndsByUser(g)
  BY <1>1, <1>7 DEF EndsByUser
<1> HIDE DEF g
<1> DEFINE new == PushUser([turns |-> turns, history |-> Rebuilt(turns, mark)], "prompt", k)
<1>10. new.turns = g /\ new.history = g
  BY <1>5
<1> HIDE DEF new
<1>11. GoodStep(Page, new, mark, torn, Len(tool)) /\ EndsUser(new, mark)
  BY <1>6, <1>8, <1>9, <1>10 DEF GoodStep, Good, EndsUser, Page
<1> QED
  BY <1>11 DEF new

(* The invariant, step by step.  A message. *)
LEMMA SendKeeps ==
  ASSUME Inv, Send
  PROVE  Inv'
<1> DEFINE pg == [turns |-> turns, history |-> Rebuilt(turns, mark)]
           new == PushUser(pg, "prompt", prompts + 1)
<1>1. phase = "idle" /\ Write(new) /\ form' = FormOnDisk(pruned) /\ phase' = "head"
      /\ pass' = "opening" /\ prompts' = prompts + 1
      /\ UNCHANGED <<mark, pruned, tool, queued, torn, steers, prunes, marks, crashes>>
  BY DEF Send
<1>2. /\ mark \in Marks /\ Len(tool) \in Nat /\ prompts + 1 \in Nat /\ turns \in Seq(Pieces)
      /\ torn \subseteq DOMAIN tool /\ (mark.made \/ mark.start = 1)
  BY DEF Inv, MarkOK, TypeOK
<1>3. FileOK(turns, mark, torn, Len(tool), FALSE) /\ form = FormOnDisk(pruned)
  BY <1>1, FileUnpaired
<1>4. GoodStep(Page, new, mark, torn, Len(tool)) /\ EndsUser(new, mark)
  <2>1. CASE turns = <<>>
    BY <1>1, <1>2, <2>1, FirstPrompt
  <2>2. CASE turns # <<>>
    <3>1. Good(pg, mark, torn, Len(tool))
          /\ (EndsByUser(Rebuilt(turns, mark)) <=> DiskEndsByUser(turns, mark))
      BY <1>2, <1>3, <2>2, RebuiltGood
    <3>2. Level(pg, mark)
      BY <3>1 DEF Level
    <3>3. GoodStep(pg, new, mark, torn, Len(tool)) /\ EndsUser(new, mark)
      BY <1>2, <3>1, <3>2, PushUserGood
    <3> QED
      BY <3>3 DEF GoodStep, Page
  <2> QED
    BY <2>1, <2>2
<1>5. Len(turns) <= Len(new.turns)
  <2>1. steers \in Nat
    BY DEF Inv, TypeOK
  <2> QED
    BY <1>2, <2>1, Grows
<1> HIDE DEF new
<1>6. turns' = new.turns /\ history' = new.history
  BY <1>1 DEF Write
<1>7. /\ FileOK(turns', mark, torn, Len(tool), FALSE)
      /\ Shows(turns', history', mark, torn, Len(tool), FALSE)
      /\ EndsUser([turns |-> turns', history |-> history'], mark)
      /\ AnsweredFrom(turns', mark.start) = AnsweredFrom(turns, mark.start)
      /\ history' \in Seq(Pieces) /\ Len(turns) <= Len(turns')
  BY <1>4, <1>5, <1>6 DEF GoodStep, Good, Shows, EndsUser, Page
<1>8. Counts'
  BY <1>1, <1>2 DEF Inv, TypeOK, Counts
<1>9. phase' \in Phases \ {"pair"}
  BY <1>1 DEF Phases
<1> HIDE DEF pg
<1>10. mark' = mark /\ pruned' = pruned /\ tool' = tool /\ torn' = torn
  BY <1>1
<1>11. form' = form
  BY <1>1, <1>3
<1>12. torn' \subseteq DOMAIN tool
  BY <1>2, <1>10
<1> QED
  BY <1>7, <1>8, <1>9, <1>10, <1>11, <1>12, Frame

(* Steps that write nothing: a marker may be decided on, or the run ends. *)
LEMMA StillKeeps ==
  ASSUME Inv, phase # "pair", UNCHANGED <<turns, mark, pruned, form, tool, torn>>, Counts',
         \/ phase' = "idle" /\ history' = <<>>
         \/ phase \in Heads /\ phase' \in Heads /\ history' = history
         \/ phase' = phase /\ history' = history
  PROVE  Inv'
<1>1. /\ FileOK(turns, mark, torn, Len(tool), FALSE) /\ turns \in Seq(Pieces)
      /\ history \in Seq(Pieces) /\ torn \subseteq DOMAIN tool /\ phase \in Phases
  BY FileUnpaired DEF Inv, TypeOK
<1>2. Len(turns) \in Nat /\ turns' = turns /\ torn' = torn /\ mark' = mark /\ tool' = tool
      /\ pruned' = pruned /\ form' = form
  BY <1>1
<1>3. phase' \in Phases \ {"pair"}
  BY <1>1 DEF Heads, Phases
<1>4. history' \in Seq(Pieces)
  <2>1. <<>> \in Seq(Pieces)
    OBVIOUS
  <2> QED
    BY <1>1, <2>1
<1>5. ASSUME phase' \in Heads
      PROVE  /\ Shows(turns', history', mark, torn', Len(tool), FALSE)
             /\ EndsUser([turns |-> turns', history |-> history'], mark)
  <2>1. phase \in Heads /\ history' = history
    BY <1>5 DEF Heads
  <2> QED
    BY <1>2, <2>1 DEF Inv, LiveInv, Page
<1>6. FileOK(turns', mark, torn', Len(tool), FALSE) /\ torn' \subseteq DOMAIN tool
  BY <1>1, <1>2
<1>7. Len(turns) <= Len(turns')
  BY <1>2
<1>8. AnsweredFrom(turns', mark.start) = AnsweredFrom(turns, mark.start)
  BY <1>2
<1> QED
  BY <1>2, <1>3, <1>4, <1>5, <1>6, <1>7, <1>8, Frame

(* Nothing to prune. *)
LEMMA NoPruneKeeps == Inv /\ NoPrune => Inv'
<1> SUFFICES ASSUME Inv, NoPrune PROVE Inv'
  OBVIOUS
<1>1. Counts'
  BY DEF NoPrune, Inv, TypeOK, Counts, bounds
<1> QED
  BY <1>1, StillKeeps DEF NoPrune, file, Heads

(* No handoff. *)
LEMMA NoHandOffKeeps == Inv /\ NoHandOff => Inv'
<1> SUFFICES ASSUME Inv, NoHandOff PROVE Inv'
  OBVIOUS
<1>1. Counts'
  BY DEF NoHandOff, Inv, TypeOK, Counts, bounds
<1> QED
  BY <1>1, StillKeeps DEF NoHandOff, file, Heads

(* No compaction. *)
LEMMA NoCompactKeeps == Inv /\ NoCompact => Inv'
<1> SUFFICES ASSUME Inv, NoCompact PROVE Inv'
  OBVIOUS
<1>1. Counts' /\ phase' \in {"head", "request"}
  BY DEF NoCompact, Inv, TypeOK, Counts, bounds, Go
<1> QED
  BY <1>1, StillKeeps DEF NoCompact, file, Heads

(* A request over the ceiling. *)
LEMMA RefuseKeeps == Inv /\ Refuse => Inv'
<1> SUFFICES ASSUME Inv, Refuse PROVE Inv'
  OBVIOUS
<1>1. Counts'
  BY DEF Refuse, Rest, Inv, TypeOK, Counts, bounds
<1> QED
  BY <1>1, StillKeeps DEF Refuse, Rest, file

(* A crash, between the two turns of a round or elsewhere. *)
LEMMA CrashKeeps == Inv /\ Crash => Inv'
<1> SUFFICES ASSUME Inv, Crash PROVE Inv'
  OBVIOUS
<1>1. /\ phase' = "idle" /\ history' = <<>> /\ queued' = FALSE /\ crashes' = crashes + 1
      /\ UNCHANGED <<turns, mark, pruned, form, tool, pass, prompts, steers, prunes, marks>>
  BY DEF Crash, Rest, file
<1>4. Counts'
  <2>1. Counts
    BY DEF Inv, TypeOK, Counts
  <2>2. queued' \in BOOLEAN
    BY <1>1, Zenon
  <2>3. crashes' \in Nat
    BY <1>1, <2>1 DEF Counts
  <2> QED
    BY <1>1, <2>1, <2>2, <2>3 DEF Counts
<1>2. CASE phase = "pair"
  <2>1. torn' = torn \cup history[Len(history)].calls
    BY <1>2 DEF Crash
  <2>2. /\ FileOK(turns, mark, torn, Len(tool), TRUE) /\ PairOpen(turns, history, mark)
        /\ Shows(turns, history, mark, torn, Len(tool), TRUE)
    BY <1>2 DEF Inv, FileInv
  <2>9. Len(tool) \in Nat /\ tool \in Seq(Tools) /\ torn \subseteq DOMAIN tool
    BY DEF Inv, TypeOK
  <2>3. FileOK(turns, mark, torn', Len(tool), FALSE)
    BY <2>1, <2>2, <2>9, TornFile
  <2>4. torn' \subseteq DOMAIN tool
    <3>1. history \in Seq(Pieces) /\ history # <<>> /\ Known(history, Len(tool))
      BY <2>2 DEF Shows
    <3>2. Len(history) \in 1..Len(history)
      BY <3>1
    <3>3. history[Len(history)].calls \subseteq 1..Len(tool)
      BY <3>1, <3>2 DEF Known
    <3>4. DOMAIN tool = 1..Len(tool) /\ torn \subseteq DOMAIN tool
      BY <2>9
    <3> QED
      BY <2>1, <3>3, <3>4
  <2>5. turns \in Seq(Pieces) /\ Len(turns) <= Len(turns') /\ history' \in Seq(Pieces)
    <3>1. turns \in Seq(Pieces) /\ turns' = turns
      BY <1>1 DEF Inv, TypeOK
    <3>2. Len(turns) \in Nat /\ <<>> \in Seq(Pieces)
      BY <3>1
    <3> QED
      BY <1>1, <3>1, <3>2
  <2>6. turns' = turns /\ mark' = mark /\ tool' = tool /\ form' = form /\ pruned' = pruned
    BY <1>1
  <2>7. phase' \in Phases \ {"pair"} /\ phase' \notin Heads
    BY <1>1 DEF Phases, Heads
  <2>8. FileOK(turns', mark, torn', Len(tool), FALSE)
        /\ AnsweredFrom(turns', mark.start) = AnsweredFrom(turns, mark.start)
    BY <2>3, <2>6
  <2> QED
    BY <1>1, <1>4, <2>4, <2>5, <2>6, <2>7, <2>8, Frame
<1>3. CASE phase # "pair"
  <2>1. torn' = torn
    BY <1>3 DEF Crash
  <2> QED
    BY <1>1, <1>3, <1>4, <2>1, StillKeeps
<1> QED
  BY <1>2, <1>3

(* A message is queued. *)
LEMMA QueueKeeps == Inv /\ Queue => Inv'
<1> SUFFICES ASSUME Inv, Queue PROVE Inv'
  OBVIOUS
<1>1. Counts' /\ phase' = phase /\ history' = history
      /\ UNCHANGED <<turns, mark, pruned, form, tool, torn>>
  BY DEF Queue, Inv, TypeOK, Counts, file
<1>2. CASE phase # "pair"
  BY <1>1, <1>2, StillKeeps
<1>3. CASE phase = "pair"
  <2>1. TypeOK'
    BY <1>1 DEF Inv, TypeOK, Counts
  <2>2. MarkOK' /\ FileInv' /\ LiveInv'
    BY <1>1, <1>3 DEF Inv, MarkOK, FileInv, LiveInv, Heads
  <2>3. FormInv' /\ ListAndAnswersKept'
    BY <1>1 DEF Inv, FormInv, FormOnDisk, ListAndAnswersKept, Newest, Kept
  <2> QED
    BY <2>1, <2>2, <2>3 DEF Inv
<1> QED
  BY <1>2, <1>3

(* What a good page makes of the state, whichever way the run goes on. *)
LEMMA OnwardKeeps ==
  ASSUME Inv, NEW pg, pg = [turns |-> pg.turns, history |-> pg.history],
         Good(pg, mark, torn, Len(tool)), Level(pg, mark),
         NEW then \in Thens, Onward(pg, then),
         KeptOK(AnsweredFrom(pg.turns, mark.start)),
         Len(turns) <= Len(pg.turns), pass' \in {"opening", "first", "later"},
         UNCHANGED <<mark, pruned, form, tool, torn, bounds>>
  PROVE  Inv'
<1>1. mark \in Marks /\ Len(tool) \in Nat /\ steers \in Nat /\ torn \subseteq DOMAIN tool
  BY DEF Inv, MarkOK, TypeOK
<1>2. /\ \/ /\ phase' = "head"
            /\ Good([turns |-> turns', history |-> history'], mark, torn, Len(tool))
            /\ EndsUser([turns |-> turns', history |-> history'], mark)
         \/ phase' = "idle" /\ history' = <<>> /\ turns' = pg.turns
      /\ FileOK(turns', mark, torn, Len(tool), FALSE) /\ history' \in Seq(Pieces)
      /\ AnsweredFrom(turns', mark.start) = AnsweredFrom(pg.turns, mark.start)
      /\ Len(pg.turns) <= Len(turns') /\ queued' \in {queued, FALSE}
  BY <1>1, OnwardGood
<1>3. mark' = mark /\ pruned' = pruned /\ form' = form /\ tool' = tool /\ torn' = torn
      /\ UNCHANGED bounds
  OBVIOUS
<1>4. Counts'
  <2>1. Counts
    BY DEF Inv, TypeOK, Counts
  <2>2. queued' \in BOOLEAN
    BY <1>2, <2>1 DEF Counts
  <2> QED
    BY <1>3, <2>1, <2>2 DEF Counts, bounds
<1>5. phase' \in Phases \ {"pair"}
  BY <1>2 DEF Phases
<1>6. Len(turns) <= Len(turns')
  <2>1. turns \in Seq(Pieces) /\ pg.turns \in Seq(Pieces) /\ turns' \in Seq(Pieces)
    BY <1>2 DEF Inv, TypeOK, Good, FileOK
  <2>2. Len(turns) \in Nat /\ Len(pg.turns) \in Nat /\ Len(turns') \in Nat
    BY <2>1
  <2>3. Len(turns) <= Len(pg.turns) /\ Len(pg.turns) <= Len(turns')
    BY <1>2
  <2> QED
    BY <2>2, <2>3
<1>7. phase' \in Heads => /\ Shows(turns', history', mark, torn', Len(tool), FALSE)
                          /\ EndsUser([turns |-> turns', history |-> history'], mark)
  BY <1>2, <1>3 DEF Heads, Good
<1>8. FileOK(turns', mark, torn', Len(tool), FALSE) /\ torn' \subseteq DOMAIN tool
      /\ KeptOK(AnsweredFrom(turns', mark.start))
      /\ history' \in Seq(Pieces)
  BY <1>1, <1>2, <1>3
<1> QED
  BY <1>3, <1>4, <1>5, <1>6, <1>7, <1>8, FrameKept

(* A turn of the model without calls. *)
LEMMA ReplyTurn ==
  ASSUME Inv, phase \in Heads
  PROVE  LET pg == PushTurn(Page, "reply", 0, {})
         IN  /\ pg = [turns |-> pg.turns, history |-> pg.history]
             /\ Good(pg, mark, torn, Len(tool)) /\ Level(pg, mark)
             /\ AnsweredFrom(pg.turns, mark.start) = AnsweredFrom(turns, mark.start)
             /\ Len(turns) <= Len(pg.turns)
<1> DEFINE pg == PushTurn([turns |-> turns, history |-> history], "reply", 0, {})
<1>1. /\ Good([turns |-> turns, history |-> history], mark, torn, Len(tool))
      /\ mark \in Marks /\ Len(tool) \in Nat
  BY HeadsGood
<1>2. GoodStep([turns |-> turns, history |-> history], pg, mark, torn, Len(tool))
      /\ Level(pg, mark)
  BY <1>1, PushTurnGood DEF Plain
<1>3. Len(turns) <= Len(pg.turns)
  <2>1. turns \in Seq(Pieces) /\ steers \in Nat
    BY DEF Inv, TypeOK
  <2> QED
    BY <2>1, Grows
<1>4. pg = [turns |-> pg.turns, history |-> pg.history]
  BY DEF PushTurn
<1> HIDE DEF pg
<1>5. Good(pg, mark, torn, Len(tool)) /\ Level(pg, mark)
      /\ AnsweredFrom(pg.turns, mark.start) = AnsweredFrom(turns, mark.start)
  BY <1>2 DEF GoodStep
<1> QED
  BY <1>3, <1>4, <1>5 DEF pg, Page

(* A reply without calls. *)
LEMMA ReplyKeeps ==
  ASSUME Inv, NEW text \in BOOLEAN, NEW then \in Thens, Reply(text, then)
  PROVE  Inv'
<1>1. phase \in Heads /\ pass' \in {"opening", "first", "later"}
      /\ UNCHANGED <<mark, pruned, form, tool, torn, bounds>>
  BY DEF Reply, Heads
<1>2. CASE text
  <2> DEFINE pg == PushTurn(Page, "reply", 0, {})
  <2>1. Onward(pg, then)
    BY <1>2 DEF Reply
  <2>2. /\ pg = [turns |-> pg.turns, history |-> pg.history]
        /\ Good(pg, mark, torn, Len(tool)) /\ Level(pg, mark)
        /\ AnsweredFrom(pg.turns, mark.start) = AnsweredFrom(turns, mark.start)
        /\ Len(turns) <= Len(pg.turns)
    BY <1>1, ReplyTurn
  <2> HIDE DEF pg
  <2>3. KeptOK(AnsweredFrom(pg.turns, mark.start))
    BY <2>2, KeptNow DEF Inv
  <2> QED
    BY <1>1, <2>1, <2>2, <2>3, OnwardKeeps
<1>3. CASE ~text
  <2>1. Onward(Page, then)
    BY <1>3 DEF Reply
  <2>2. Page = [turns |-> Page.turns, history |-> Page.history]
        /\ Page.turns = turns /\ Page.history = history
    BY DEF Page
  <2>3. Good(Page, mark, torn, Len(tool)) /\ Level(Page, mark)
    BY <1>1, HeadsGood DEF Page, Level, EndsUser
  <2>4. turns \in Seq(Pieces)
    BY DEF Inv, TypeOK
  <2>5. Len(turns) <= Len(Page.turns)
    BY <2>2, <2>4
  <2>6. KeptOK(AnsweredFrom(Page.turns, mark.start))
    BY <2>2, KeptNow DEF Inv
  <2> QED
    BY <1>1, <2>1, <2>2, <2>3, <2>5, <2>6, OnwardKeeps
<1> QED
  BY <1>2, <1>3

(* A handoff. *)
LEMMA HandOffKeeps == Inv /\ HandOff => Inv'
<1> SUFFICES ASSUME Inv, HandOff PROVE Inv'
  OBVIOUS
<1> DEFINE pg == PushTurn(Page, "reply", 0, {})
<1>1. phase \in Heads /\ Write(pg) /\ phase' = "linked" /\ queued' = FALSE
      /\ UNCHANGED <<mark, pruned, form, tool, pass, torn, bounds>>
  BY DEF HandOff, Heads
<1>2. /\ Good(pg, mark, torn, Len(tool))
      /\ AnsweredFrom(pg.turns, mark.start) = AnsweredFrom(turns, mark.start)
      /\ Len(turns) <= Len(pg.turns)
  BY <1>1, ReplyTurn
<1> HIDE DEF pg
<1>3. turns' = pg.turns /\ history' = pg.history
      /\ mark' = mark /\ pruned' = pruned /\ form' = form /\ tool' = tool /\ torn' = torn
  BY <1>1 DEF Write
<1>4. FileOK(turns', mark, torn', Len(tool), FALSE) /\ history' \in Seq(Pieces)
      /\ AnsweredFrom(turns', mark.start) = AnsweredFrom(turns, mark.start)
      /\ Len(turns) <= Len(turns')
  BY <1>2, <1>3 DEF Good, Shows
<1>5. phase' \in Phases \ {"pair"} /\ phase' \notin Heads
  BY <1>1 DEF Phases, Heads
<1>6. Counts' /\ torn' \subseteq DOMAIN tool
  <2>1. Counts /\ torn \subseteq DOMAIN tool
    BY DEF Inv, TypeOK, Counts
  <2> QED
    BY <1>1, <2>1 DEF Counts, bounds
<1> QED
  BY <1>3, <1>4, <1>5, <1>6, Frame

(* The page after the turn of a round's calls. *)
LEMMA CallPage ==
  ASSUME Inv, phase = "request", NEW k \in Nat, Len(tool) <= k, k <= MaxCalls
  PROVE  CallDone(turns, PushTurn([turns |-> turns, history |-> history], "calls", 0,
                                 (Len(tool) + 1)..k), mark, torn, Len(tool), k)
<1>1. /\ Good([turns |-> turns, history |-> history], mark, torn, Len(tool))
      /\ mark \in Marks /\ Len(tool) \in Nat
  BY HeadsGood DEF Heads
<1> QED
  BY <1>1, CallGood

(* The calls of a round. *)
LEMMA CallTurnKeeps ==
  ASSUME Inv, NEW asked \in Asks, CallTurn(asked)
  PROVE  Inv'
<1> DEFINE n == Len(tool)
           k == n + Len(asked)
           pg == PushTurn([turns |-> turns, history |-> history], "calls", 0, (n + 1)..k)
<1>1. asked \in Seq(Tools) /\ tool \in Seq(Tools)
  <2>1. {"ask", "read", "tasks", "update"} \subseteq Tools
    BY DEF Tools, TaskTools, Snapshots
  <2>2. \A a \in Tools, b \in Tools : <<a>> \in Seq(Tools) /\ <<a, b>> \in Seq(Tools)
    OBVIOUS
  <2>3. asked \in Seq(Tools)
    BY <2>1, <2>2 DEF Asks
  <2> QED
    BY <2>3 DEF Inv, TypeOK
<1>2. n \in Nat /\ k \in Nat /\ n <= k /\ k <= MaxCalls
  BY <1>1 DEF CallTurn
<1>3. /\ phase = "request" /\ Write(pg) /\ tool' = tool \o asked
      /\ form' = [c \in DOMAIN tool' |-> IF c \in DOMAIN form THEN form[c] ELSE "whole"]
      /\ phase' = "pair" /\ pass' = "later"
      /\ UNCHANGED <<mark, pruned, queued, torn, bounds>>
  BY DEF CallTurn, Page
<1>4. /\ Good([turns |-> turns, history |-> history], mark, torn, n)
      /\ mark \in Marks
  BY <1>3, HeadsGood DEF Heads
<1>5. /\ FileOK(pg.turns, mark, torn, k, TRUE)
      /\ Shows(pg.turns, pg.history, mark, torn, k, TRUE)
      /\ PairOpen(pg.turns, pg.history, mark)
      /\ pg.history[Len(pg.history)].calls = (n + 1)..k
      /\ AnsweredFrom(pg.turns, mark.start) = AnsweredFrom(turns, mark.start)
  BY <1>2, <1>3, CallPage DEF CallDone
<1>6. Len(turns) <= Len(pg.turns)
  <2>1. pg.turns = Append(turns, Piece("turn", "calls", 0, (n + 1)..k))
    BY DEF PushTurn
  <2>2. Piece("turn", "calls", 0, (n + 1)..k) \in Pieces /\ turns \in Seq(Pieces)
    BY <1>2, TranscriptAssumption DEF Piece, Pieces, Kinds, Inv, TypeOK
  <2>3. \A p \in Pieces : Len(turns) <= Len(Append(turns, p))
    BY <2>2
  <2> QED
    BY <2>1, <2>2, <2>3
<1> HIDE DEF pg
<1>7. turns' = pg.turns /\ history' = pg.history
  BY <1>3 DEF Write
<1>8. /\ FileOK(turns', mark, torn, k, TRUE) /\ Shows(turns', history', mark, torn, k, TRUE)
      /\ PairOpen(turns', history', mark)
      /\ history'[Len(history')].calls = (n + 1)..k
      /\ AnsweredFrom(turns', mark.start) = AnsweredFrom(turns, mark.start)
      /\ Len(turns) <= Len(turns')
  BY <1>5, <1>6, <1>7
<1>9. /\ tool' \in Seq(Tools) /\ Len(tool') = k /\ \A c \in 1..n : tool'[c] = tool[c]
      /\ DOMAIN tool = 1..n /\ DOMAIN tool' = 1..k
  BY <1>1, <1>2, <1>3
<1>10. /\ form \in [1..n -> {"whole", "cut", "dropped"}] /\ torn \subseteq 1..n
       /\ pruned \in [cut : SUBSET (1..n), dropped : SUBSET (1..n)]
       /\ form = FormOnDisk(pruned)
  BY <1>9 DEF Inv, TypeOK, FormInv
<1>11. /\ form' = [c \in 1..k |-> IF c \in 1..n THEN form[c] ELSE "whole"]
       /\ \A c \in 1..n : form'[c] = form[c]
       /\ \A c \in (n + 1)..k : form'[c] = "whole"
  BY <1>2, <1>3, <1>9, <1>10
<1>12. MarkOK'
  <2>1. turns \in Seq(Pieces) /\ turns' \in Seq(Pieces)
    BY <1>8 DEF Inv, TypeOK, FileOK
  <2>2. Len(turns) \in Nat /\ Len(turns') \in Nat /\ (turns # <<>> => turns' # <<>>)
    BY <1>8, <2>1
  <2> QED
    BY <1>3, <1>8, <2>2 DEF Inv, MarkOK, Marks
<1>13. TypeOK'
  <2>1. turns' \in Seq(Pieces) /\ history' \in Seq(Pieces)
    BY <1>8 DEF FileOK, Shows
  <2>2. mark' \in [made : BOOLEAN, at : 0..Len(turns'), start : 1..(Len(turns') + 1)]
    BY <1>12, <2>1 DEF MarkOK, Marks
  <2>3. form' \in [DOMAIN tool' -> {"whole", "cut", "dropped"}]
    BY <1>9, <1>10, <1>11
  <2>4. pruned' \in [cut : SUBSET DOMAIN tool', dropped : SUBSET DOMAIN tool']
        /\ torn' \subseteq DOMAIN tool'
    BY <1>2, <1>3, <1>9, <1>10
  <2>5. Counts
    BY DEF Inv, TypeOK, Counts
  <2>6. Counts'
    BY <1>3, <2>5 DEF Counts, bounds
  <2>7. phase' \in Phases /\ Len(tool') <= MaxCalls
    BY <1>2, <1>3, <1>9 DEF Phases
  <2> QED
    BY <1>9, <2>1, <2>2, <2>3, <2>4, <2>6, <2>7 DEF TypeOK, Counts
<1>14. FileInv' /\ LiveInv'
  BY <1>3, <1>8, <1>9 DEF FileInv, LiveInv, Heads
<1>15. FormInv'
  <2>1. form' = [c \in 1..k |-> IF c \in pruned.dropped THEN "dropped"
                                ELSE IF c \in pruned.cut THEN "cut" ELSE "whole"]
    BY <1>2, <1>9, <1>10, <1>11 DEF FormOnDisk
  <2>2. form' = FormOnDisk(pruned)'
    BY <1>3, <1>9, <2>1 DEF FormOnDisk
  <2> QED
    BY <1>8, <1>11, <2>2 DEF FormInv
<1>16. ListAndAnswersKept'
  <2>1. Kept' = Kept
    BY <1>3, <1>8 DEF Kept
  <2>2. Kept \subseteq 1..n
    <3>1. Known(turns, n) /\ mark.start \in Nat \ {0}
      BY <1>4 DEF Good, FileOK, Marks
    <3> QED
      BY <3>1 DEF Known, Kept, AnsweredFrom
  <2> HIDE DEF n, k
  <2> QED
    BY <1>9, <1>11, <2>1, <2>2 DEF Inv, ListAndAnswersKept, Newest
<1> QED
  BY <1>12, <1>13, <1>14, <1>15, <1>16 DEF Inv

(* The results of a round. *)
LEMMA ResultTurnKeeps ==
  ASSUME Inv, NEW then \in Thens, ResultTurn(then)
  PROVE  Inv'
<1> DEFINE s == history[Len(history)].calls
           pg == PushTurn([turns |-> turns, history |-> history], "results", 0, s)
<1>1. /\ phase = "pair" /\ UNCHANGED <<mark, pruned, form, tool, pass, torn, bounds>>
      /\ \/ Onward(pg, then)
         \/ Write(pg) /\ phase' = "linked" /\ queued' = FALSE
  BY DEF ResultTurn, Page
<1>2. /\ mark \in Marks /\ Len(tool) \in Nat /\ turns \in Seq(Pieces)
      /\ torn \subseteq DOMAIN tool
  BY DEF Inv, MarkOK, TypeOK
<1>3. /\ FileOK(turns, mark, torn, Len(tool), TRUE) /\ PairOpen(turns, history, mark)
      /\ Shows(turns, history, mark, torn, Len(tool), TRUE)
  BY <1>1 DEF Inv, FileInv
<1>4. /\ Good(pg, mark, torn, Len(tool)) /\ EndsUser(pg, mark)
      /\ AnsweredFrom(pg.turns, mark.start) = AnsweredFrom(turns, mark.start) \cup s
  BY <1>2, <1>3, ResultGood
<1>5. Len(turns) <= Len(pg.turns) /\ pg = [turns |-> pg.turns, history |-> pg.history]
  <2>1. pg = [turns |-> Append(turns, Piece("turn", "results", 0, s)),
              history |-> Append(history, Piece("turn", "results", 0, s))]
    BY DEF PushTurn
  <2>2. history[Len(history)] \in Pieces
    <3>1. history \in Seq(Pieces) /\ history # <<>>
      BY <1>3 DEF Shows
    <3>2. Len(history) \in 1..Len(history)
      BY <3>1
    <3> QED
      BY <3>1, <3>2
  <2>3. Piece("turn", "results", 0, s) \in Pieces
    BY <2>2 DEF Piece, Pieces, Kinds
  <2>4. \A p \in Pieces : Len(turns) <= Len(Append(turns, p))
    BY <1>2
  <2> QED
    BY <2>1, <2>3, <2>4
<1>6. KeptOK(AnsweredFrom(pg.turns, mark.start))
  <2> DEFINE S == AnsweredFrom(turns, mark.start)
  <2>1. KeptOK(S)
    BY KeptNow DEF Inv
  <2>2. \A c \in S, d \in s : c < d
    <3>1. S \subseteq AnsweredFrom(turns, 1)
      BY <1>2 DEF AnsweredFrom, Marks
    <3> QED
      BY <1>3, <3>1 DEF PairOpen
  <2>3. \A c \in s : form[c] = "whole"
    BY <1>1 DEF Inv, FormInv
  <2>4. S \subseteq Nat /\ s \subseteq Nat
    <3>1. history \in Seq(Pieces) /\ history # <<>>
          /\ Known(history, Len(tool)) /\ Known(turns, Len(tool))
      BY <1>3 DEF Shows, FileOK
    <3>2. Len(history) \in 1..Len(history)
      BY <3>1
    <3> QED
      BY <1>2, <3>1, <3>2 DEF Known, AnsweredFrom, Marks
  <2> HIDE DEF s, S
  <2>5. ASSUME NEW c \in S \cup s, tool[c] = "ask" PROVE form[c] = "whole"
    BY <2>1, <2>3, <2>5 DEF KeptOK
  <2>6. ASSUME NEW x \in S \cup s, NEW c \in S \cup s, tool[x] \in Snapshots,
               \A t \in S \cup s : tool[t] \in Snapshots => t <= x,
               tool[c] \in TaskTools, x <= c
        PROVE  form[c] = "whole"
    <3>1. CASE c \in s
      BY <2>3, <3>1
    <3>2. CASE c \in S
      <4>1. x \in S
        BY <2>2, <2>4, <2>6, <3>2
      <4> QED
        BY <2>1, <2>6, <3>2, <4>1 DEF KeptOK
    <3> QED
      BY <3>1, <3>2
  <2>7. KeptOK(S \cup s)
    BY <2>5, <2>6 DEF KeptOK
  <2> QED
    BY <1>4, <2>7 DEF S
<1> HIDE DEF pg, s
<1>7. CASE Onward(pg, then)
  <2>1. Level(pg, mark)
    BY <1>4 DEF Level, EndsUser
  <2>2. pass' \in {"opening", "first", "later"}
    BY <1>1 DEF Inv, TypeOK
  <2> QED
    BY <1>1, <1>4, <1>5, <1>6, <1>7, <2>1, <2>2, OnwardKeeps
<1>8. CASE Write(pg) /\ phase' = "linked" /\ queued' = FALSE
  <2>1. turns' = pg.turns /\ history' = pg.history
        /\ mark' = mark /\ pruned' = pruned /\ form' = form /\ tool' = tool /\ torn' = torn
    BY <1>1, <1>8 DEF Write
  <2>2. FileOK(turns', mark, torn', Len(tool), FALSE) /\ history' \in Seq(Pieces)
        /\ KeptOK(AnsweredFrom(turns', mark.start))
        /\ Len(turns) <= Len(turns') /\ torn' \subseteq DOMAIN tool
    BY <1>2, <1>4, <1>5, <1>6, <2>1 DEF Good, Shows
  <2>3. phase' \in Phases \ {"pair"} /\ phase' \notin Heads
    BY <1>8 DEF Phases, Heads
  <2>4. Counts'
    <3>1. Counts
      BY DEF Inv, TypeOK, Counts
    <3> QED
      BY <1>1, <1>8, <3>1 DEF Counts, bounds
  <2> QED
    BY <2>1, <2>2, <2>3, <2>4, FrameKept
<1> QED
  BY <1>1, <1>7, <1>8

(* What the invariant says of the types. *)
LEMMA Basics ==
  ASSUME Inv
  PROVE  /\ turns \in Seq(Pieces) /\ tool \in Seq(Tools) /\ Len(tool) \in Nat
         /\ mark \in Marks /\ mark.at <= Len(turns) /\ mark.start <= mark.at + 1
         /\ form \in [DOMAIN tool -> {"whole", "cut", "dropped"}]
         /\ pruned \in [cut : SUBSET DOMAIN tool, dropped : SUBSET DOMAIN tool]
<1>1. turns \in Seq(Pieces) /\ tool \in Seq(Tools)
      /\ form \in [DOMAIN tool -> {"whole", "cut", "dropped"}]
      /\ pruned \in [cut : SUBSET DOMAIN tool, dropped : SUBSET DOMAIN tool]
  BY DEF Inv, TypeOK
<1>2. mark \in Marks /\ mark.at <= Len(turns) /\ mark.start <= mark.at + 1
  BY DEF Inv, MarkOK
<1> QED
  BY <1>1, <1>2

(* At the head of an iteration the history shows the file and ends on the user's side. *)
LEMMA HeadsShow ==
  ASSUME Inv, phase \in Heads
  PROVE  /\ Shows(turns, history, mark, torn, Len(tool), FALSE) /\ EndsUser(Page, mark)
         /\ turns # <<>> /\ form = FormOnDisk(pruned)
BY DEF Inv, LiveInv, Shows, FormInv

(* A compaction starts what it keeps at k. *)
LEMMA MarkGood ==
  ASSUME Inv, phase # "pair", turns # <<>>, NEW k \in TailStarts
  PROVE  /\ Mark(k) \in Marks /\ Mark(k).made /\ Mark(k).at = Len(turns)
         /\ Mark(k).start = k /\ mark.start <= k /\ k <= Len(turns) + 1
         /\ FileOK(turns, Mark(k), torn, Len(tool), FALSE)
         /\ KeptOK(AnsweredFrom(turns, k))
<1>1. /\ FileOK(turns, mark, torn, Len(tool), FALSE) /\ turns \in Seq(Pieces)
      /\ mark \in Marks /\ mark.at <= Len(turns) /\ mark.start <= mark.at + 1
      /\ Len(tool) \in Nat
  BY FileUnpaired, Basics
<1>2. Len(turns) \in Nat /\ mark.start \in Nat \ {0} /\ mark.at \in Nat
  BY <1>1 DEF Marks
<1>3. k \in Nat \ {0} /\ mark.start <= k /\ k <= Len(turns) + 1
      /\ (k <= Len(turns) => RealUserTurn(turns[k]))
  BY <1>1, <1>2 DEF TailStarts
<1>4. Mark(k) \in Marks /\ Mark(k).made /\ Mark(k).at = Len(turns) /\ Mark(k).start = k
  BY <1>2, <1>3 DEF Mark, Marks
<1>5. MayStart(turns, Mark(k))
  BY <1>3, <1>4 DEF MayStart, RealUserTurn
<1>6. FileOK(turns, Mark(k), torn, Len(tool), FALSE)
  BY <1>1, <1>5 DEF FileOK
<1>7. KeptOK(AnsweredFrom(turns, k))
  <2> DEFINE S == AnsweredFrom(turns, mark.start)
             R == AnsweredFrom(turns, k)
  <2>1. KeptOK(S)
    BY KeptNow DEF Inv
  <2>2. R \subseteq S
    BY <1>2, <1>3 DEF AnsweredFrom
  <2>3. R \subseteq Nat /\ S \subseteq Nat
    BY <1>1, <1>2, <1>3 DEF AnsweredFrom, FileOK, Known
  <2>4. \A t \in S \ R, x \in R : t < x
    <3> SUFFICES ASSUME NEW t \in S, t \notin R, NEW x \in R PROVE t < x
      OBVIOUS
    <3>1. PICK i \in mark.start..Len(turns) : turns[i].kind = "results" /\ t \in turns[i].calls
      BY DEF AnsweredFrom
    <3>2. PICK j \in k..Len(turns) : turns[j].kind = "results" /\ x \in turns[j].calls
      BY DEF AnsweredFrom
    <3>3. ~(i >= k)
      BY <3>1 DEF AnsweredFrom
    <3>4. i \in 1..Len(turns) /\ j \in 1..Len(turns) /\ i < j
      BY <1>2, <1>3, <3>1, <3>2, <3>3
    <3> QED
      BY <1>1, <3>1, <3>2, <3>4 DEF FileOK, Sorted
  <2> HIDE DEF S, R
  <2>5. \A c \in R : tool[c] = "ask" => form[c] = "whole"
    BY <2>1, <2>2 DEF KeptOK
  <2>6. ASSUME NEW x \in R, NEW c \in R, tool[x] \in Snapshots,
               \A t \in R : tool[t] \in Snapshots => t <= x,
               tool[c] \in TaskTools, x <= c
        PROVE  form[c] = "whole"
    <3>1. \A t \in S : tool[t] \in Snapshots => t <= x
      BY <2>2, <2>3, <2>4, <2>6
    <3> QED
      BY <2>1, <2>2, <2>6, <3>1 DEF KeptOK
  <2>7. KeptOK(R)
    BY <2>5, <2>6 DEF KeptOK
  <2> QED
    BY <2>7 DEF R
<1> QED
  BY <1>3, <1>4, <1>6, <1>7

(* A compaction in a run. *)
LEMMA CompactKeeps ==
  ASSUME Inv, NEW k \in TailStarts, Compact(k)
  PROVE  Inv'
<1> DEFINE m == Mark(k)
           r == Rebuilt(turns, m)
<1>1. /\ phase = "compress" /\ mark' = m /\ marks' = marks + 1 /\ history' = r
      /\ form' = FormOnDisk(pruned) /\ Go(phase', pass')
      /\ UNCHANGED <<turns, pruned, tool, queued, torn, prompts, steers, prunes, crashes>>
  BY DEF Compact
<1>2. /\ Shows(turns, history, mark, torn, Len(tool), FALSE) /\ EndsUser(Page, mark)
      /\ turns # <<>> /\ Len(tool) \in Nat /\ turns \in Seq(Pieces)
  BY <1>1, HeadsShow, Basics DEF Heads
<1>3. /\ m \in Marks /\ m.made /\ m.at = Len(turns) /\ m.start = k
      /\ mark.start <= k /\ k <= Len(turns) + 1
      /\ FileOK(turns, m, torn, Len(tool), FALSE) /\ KeptOK(AnsweredFrom(turns, k))
  BY <1>1, <1>2, MarkGood
<1>4. Good([turns |-> turns, history |-> r], m, torn, Len(tool))
      /\ (EndsByUser(r) <=> DiskEndsByUser(turns, m))
  BY <1>2, <1>3, RebuiltGood
<1>5. DiskEndsByUser(turns, m)
  <2>1. DiskEndsByUser(turns, mark) /\ Len(turns) \in Nat /\ mark.start \in Nat /\ k \in Nat
    BY <1>2, <1>3 DEF EndsUser, Page, Inv, MarkOK, Marks
  <2> QED
    BY <1>3, <2>1 DEF DiskEndsByUser
<1> HIDE DEF m, r
<1>6. /\ turns' = turns /\ history' = r /\ mark' = m /\ torn' = torn /\ tool' = tool
      /\ pruned' = pruned /\ form' = form
  BY <1>1, FileUnpaired
<1>7. phase' \in {"head", "request"} /\ pass' \in {"opening", "first", "later"}
  BY <1>1 DEF Go, Inv, TypeOK
<1>8. TypeOK'
  <2>1. r \in Seq(Pieces) /\ Len(turns) \in Nat
    BY <1>2, <1>4 DEF Good, Shows
  <2>2. mark' \in [made : BOOLEAN, at : 0..Len(turns'), start : 1..(Len(turns') + 1)]
    BY <1>3, <1>6, <2>1 DEF Marks
  <2>3. Counts /\ torn \subseteq DOMAIN tool
    BY DEF Inv, TypeOK, Counts
  <2>4. Counts'
    BY <1>1, <1>7, <2>3 DEF Counts
  <2>5. phase' \in Phases
    BY <1>7 DEF Phases
  <2> QED
    BY <1>6, <2>1, <2>2, <2>3, <2>4, <2>5 DEF Inv, TypeOK, Counts
<1>9. MarkOK'
  <2>1. Len(turns) \in Nat
    BY <1>2
  <2> QED
    BY <1>2, <1>3, <1>6, <2>1 DEF MarkOK
<1>10. FileInv'
  BY <1>3, <1>6, <1>7 DEF FileInv
<1>11. LiveInv'
  BY <1>4, <1>5, <1>6 DEF LiveInv, Good, EndsUser, Page
<1>12. FormInv'
  BY <1>6, <1>7 DEF Inv, FormInv, FormOnDisk
<1>13. ListAndAnswersKept'
  <2>1. Kept' = AnsweredFrom(turns, k)
    BY <1>3, <1>6 DEF Kept
  <2> QED
    BY <1>3, <1>6, <2>1 DEF ListAndAnswersKept, KeptOK, Newest
<1> QED
  BY <1>8, <1>9, <1>10, <1>11, <1>12, <1>13 DEF Inv

(* A compaction between runs. *)
LEMMA CompactAtRestKeeps ==
  ASSUME Inv, NEW k \in TailStarts, CompactAtRest(k)
  PROVE  Inv'
<1> DEFINE m == Mark(k)
<1>1. /\ phase = "idle" /\ mark' = m /\ marks' = marks + 1 /\ turns # <<>>
      /\ UNCHANGED <<turns, pruned, history, form, tool, phase, pass, queued, torn,
                     prompts, steers, prunes, crashes>>
  BY DEF CompactAtRest
<1>2. Len(tool) \in Nat /\ turns \in Seq(Pieces)
  BY DEF Inv, TypeOK
<1>3. /\ m \in Marks /\ m.made /\ m.at = Len(turns) /\ m.start = k
      /\ k <= Len(turns) + 1
      /\ FileOK(turns, m, torn, Len(tool), FALSE) /\ KeptOK(AnsweredFrom(turns, k))
  BY <1>1, MarkGood
<1> HIDE DEF m
<1>4. Len(turns) \in Nat
  BY <1>2
<1>5. TypeOK'
  <2>1. mark' \in [made : BOOLEAN, at : 0..Len(turns'), start : 1..(Len(turns') + 1)]
    BY <1>1, <1>3, <1>4 DEF Marks
  <2>2. Counts
    BY DEF Inv, TypeOK, Counts
  <2>3. Counts'
    BY <1>1, <2>2 DEF Counts
  <2> QED
    BY <1>1, <2>1, <2>3 DEF Inv, TypeOK, Counts
<1>6. MarkOK'
  BY <1>1, <1>3, <1>4 DEF MarkOK
<1>7. FileInv' /\ LiveInv'
  BY <1>1, <1>3 DEF FileInv, LiveInv, Heads
<1>8. FormInv'
  BY <1>1 DEF Inv, FormInv, FormOnDisk
<1>9. ListAndAnswersKept'
  <2>1. Kept' = AnsweredFrom(turns, k)
    BY <1>1, <1>3 DEF Kept
  <2> QED
    BY <1>1, <1>3, <2>1 DEF ListAndAnswersKept, KeptOK, Newest
<1> QED
  BY <1>5, <1>6, <1>7, <1>8, <1>9 DEF Inv

(* A prune is on file as it is applied. *)
LEMMA PruneKeeps ==
  ASSUME Inv, NEW cuts \in SUBSET (Maskable \ Superseded), Prune(cuts)
  PROVE  Inv'
<1>1. /\ phase = "head" /\ phase' = "shed" /\ prunes' = prunes + 1
      /\ pruned' = [cut |-> pruned.cut \cup cuts, dropped |-> pruned.dropped \cup Superseded]
      /\ form' = [c \in DOMAIN form |-> IF c \in Superseded THEN "dropped"
                                        ELSE IF c \in cuts THEN "cut" ELSE form[c]]
      /\ UNCHANGED <<turns, mark, history, tool, pass, queued, torn,
                     prompts, steers, marks, crashes>>
  BY DEF Prune
<1>2. /\ Shows(turns, history, mark, torn, Len(tool), FALSE) /\ Len(tool) \in Nat
      /\ tool \in Seq(Tools) /\ form \in [DOMAIN tool -> {"whole", "cut", "dropped"}]
      /\ pruned \in [cut : SUBSET DOMAIN tool, dropped : SUBSET DOMAIN tool]
      /\ form = FormOnDisk(pruned)
  BY <1>1, HeadsShow, Basics DEF Heads
<1>3. Answered(history) = Kept /\ Candidates \subseteq Kept /\ Kept \subseteq DOMAIN tool
  <2>1. history \in Seq(Pieces) /\ Known(history, Len(tool)) /\ Answered(history) = Kept
    BY <1>2 DEF Shows, Kept
  <2>2. Answered(history) \subseteq 1..Len(tool)
    BY <2>1 DEF Answered, AnsweredFrom, Known
  <2>3. DOMAIN tool = 1..Len(tool)
    BY <1>2
  <2> QED
    BY <2>1, <2>2, <2>3 DEF Candidates
<1>4. /\ cuts \subseteq DOMAIN tool /\ Superseded \subseteq DOMAIN tool
      /\ \A c \in cuts : form[c] = "whole" /\ tool[c] # "ask" /\ c \notin CurrentList
      /\ cuts \cap Superseded = {}
  BY <1>3 DEF Maskable, Superseded
<1>5. form' = FormOnDisk(pruned')
  <2>1. \A c \in DOMAIN tool :
          form[c] = IF c \in pruned.dropped THEN "dropped"
                    ELSE IF c \in pruned.cut THEN "cut" ELSE "whole"
    BY <1>2 DEF FormOnDisk
  <2>2. pruned'.cut = pruned.cut \cup cuts /\ pruned'.dropped = pruned.dropped \cup Superseded
        /\ DOMAIN form = DOMAIN tool
    BY <1>1, <1>2
  <2>3. form' = [c \in DOMAIN tool |-> IF c \in Superseded THEN "dropped"
                                        ELSE IF c \in cuts THEN "cut" ELSE form[c]]
    BY <1>1, <2>2
  <2>4. \A c \in DOMAIN tool :
          (IF c \in Superseded THEN "dropped" ELSE IF c \in cuts THEN "cut" ELSE form[c])
            = IF c \in pruned'.dropped THEN "dropped"
              ELSE IF c \in pruned'.cut THEN "cut" ELSE "whole"
    BY <1>4, <2>1, <2>2
  <2> QED
    BY <2>3, <2>4 DEF FormOnDisk
<1>6. \A c \in DOMAIN tool : c \notin cuts \cup Superseded => form'[c] = form[c]
  BY <1>1, <1>2
<1>7. TypeOK'
  <2>1. form' \in [DOMAIN tool -> {"whole", "cut", "dropped"}]
    BY <1>1, <1>2
  <2>2. pruned' \in [cut : SUBSET DOMAIN tool, dropped : SUBSET DOMAIN tool]
    BY <1>1, <1>2, <1>4
  <2>3. Counts
    BY DEF Inv, TypeOK, Counts
  <2>4. Counts'
    BY <1>1, <2>3 DEF Counts
  <2>5. phase' \in Phases
    BY <1>1 DEF Phases
  <2> QED
    BY <1>1, <2>1, <2>2, <2>4, <2>5 DEF Inv, TypeOK, Counts
<1>8. MarkOK' /\ FileInv' /\ LiveInv'
  BY <1>1 DEF Inv, MarkOK, FileInv, LiveInv, Heads, Page
<1>9. FormInv'
  <2>1. FormOnDisk(pruned)' = FormOnDisk(pruned')
    BY <1>1 DEF FormOnDisk
  <2> QED
    BY <1>1, <1>5, <2>1 DEF FormInv
<1>10. ListAndAnswersKept'
  <2>1. Kept' = Kept /\ tool' = tool
    BY <1>1 DEF Kept
  <2>2. ASSUME NEW c \in Kept, tool[c] = "ask" PROVE form'[c] = "whole"
    <3>1. c \notin Superseded
      BY <2>2 DEF Superseded, TaskTools, Snapshots
    <3> QED
      BY <1>3, <1>4, <1>6, <2>2, <3>1 DEF Inv, ListAndAnswersKept
  <2>3. ASSUME NEW s \in Kept, NEW c \in Kept, Newest(s), tool[c] \in TaskTools, s <= c
        PROVE  form'[c] = "whole"
    <3>1. Kept \subseteq Nat
      BY <1>2, <1>3
    <3>2. form[s] = "whole" /\ form[c] = "whole" /\ tool[s] \in Snapshots
      BY <2>3, <3>1 DEF Inv, ListAndAnswersKept, Newest, TaskTools
    <3>3. s \in ShownSnapshots /\ c \in Candidates
          /\ \A t \in ShownSnapshots : t \in Kept /\ tool[t] \in Snapshots
      BY <1>3, <3>2 DEF ShownSnapshots, Candidates
    <3>4. \A t \in ShownSnapshots : t <= c
      <4> TAKE t \in ShownSnapshots
      <4>1. t <= s /\ t \in Nat
        BY <2>3, <3>1, <3>3 DEF Newest
      <4> QED
        BY <2>3, <3>1, <4>1
    <3>5. c \in CurrentList
      BY <2>3, <3>3, <3>4 DEF CurrentList
    <3>6. c \notin Superseded
      BY <3>1, <3>3, <3>4 DEF Superseded
    <3> QED
      BY <1>3, <1>4, <1>6, <3>2, <3>5, <3>6
  <2> QED
    BY <2>1, <2>2, <2>3 DEF ListAndAnswersKept, Newest
<1> QED
  BY <1>7, <1>8, <1>9, <1>10 DEF Inv

(* Every step keeps the invariant. *)
LEMMA NextKeeps == Inv /\ [Next]_vars => Inv'
<1> SUFFICES ASSUME Inv, [Next]_vars PROVE Inv'
  OBVIOUS
<1>1. CASE Send
  BY <1>1, SendKeeps
<1>2. CASE Queue
  BY <1>2, QueueKeeps
<1>3. CASE NoPrune
  BY <1>3, NoPruneKeeps
<1>4. CASE HandOff
  BY <1>4, HandOffKeeps
<1>5. CASE NoHandOff
  BY <1>5, NoHandOffKeeps
<1>6. CASE NoCompact
  BY <1>6, NoCompactKeeps
<1>7. CASE Refuse
  BY <1>7, RefuseKeeps
<1>8. CASE Crash
  BY <1>8, CrashKeeps
<1>9. CASE \E cuts \in SUBSET (Maskable \ Superseded) : Prune(cuts)
  BY <1>9, PruneKeeps
<1>10. CASE \E k \in TailStarts : Compact(k) \/ CompactAtRest(k)
  BY <1>10, CompactKeeps, CompactAtRestKeeps
<1>11. CASE \E text \in BOOLEAN, then \in Thens : Reply(text, then)
  BY <1>11, ReplyKeeps
<1>12. CASE \E asked \in Asks : CallTurn(asked)
  BY <1>12, CallTurnKeeps
<1>13. CASE \E then \in Thens : ResultTurn(then)
  BY <1>13, ResultTurnKeeps
<1>14. CASE UNCHANGED vars
  <2>1. /\ turns' = turns /\ mark' = mark /\ pruned' = pruned /\ history' = history
        /\ form' = form /\ tool' = tool /\ phase' = phase /\ pass' = pass
        /\ queued' = queued /\ torn' = torn /\ prompts' = prompts /\ steers' = steers
        /\ prunes' = prunes /\ marks' = marks /\ crashes' = crashes
    BY <1>14 DEF vars
  <2>2. TypeOK'
    BY <2>1 DEF Inv, TypeOK
  <2>3. MarkOK' /\ FileInv' /\ LiveInv'
    BY <2>1 DEF Inv, MarkOK, FileInv, LiveInv, Page
  <2>4. FormInv' /\ ListAndAnswersKept'
    BY <2>1 DEF Inv, FormInv, FormOnDisk, ListAndAnswersKept, Newest, Kept
  <2> QED
    BY <2>2, <2>3, <2>4 DEF Inv
<1> QED
  BY <1>1, <1>2, <1>3, <1>4, <1>5, <1>6, <1>7, <1>8, <1>9, <1>10, <1>11, <1>12, <1>13, <1>14
     DEF Next

(* The invariant holds in every reachable state. *)
LEMMA Inductive == Spec => []Inv
<1>1. Init => Inv
  BY InvInit
<1>2. Inv /\ [Next]_vars => Inv'
  BY NextKeeps
<1> QED
  BY <1>1, <1>2, PTL DEF Spec

-----------------------------------------------------------------------------
(* The marker always points into the file and every call is known: what        *)
(* Compacted.tail_turns counts back exists at every reload.                    *)
THEOREM TypeCorrect == Spec => []TypeOK
<1>1. Inv => TypeOK
  BY DEF Inv
<1> QED
  BY <1>1, Inductive, PTL

(* The torn calls are those of rounds the app died in, and stay without answer. *)
TornInv ==
  /\ crashes = 0 => torn = {}
  /\ torn \cap Answered(turns) = {}
  /\ phase = "pair" => torn \cap history[Len(history)].calls = {}

(* Only a results turn answers: what the page takes otherwise answers nothing. *)
LEMMA PlainAnswers ==
  ASSUME NEW pg, pg.turns \in Seq(Pieces), steers \in Nat, NEW k \in Nat
  PROVE  /\ Answered(PushTurn(pg, "reply", 0, {}).turns) = Answered(pg.turns)
         /\ pg = [turns |-> pg.turns, history |-> pg.history] =>
              Answered(PushUser(pg, "prompt", k).turns) = Answered(pg.turns)
         /\ Answered(Nudge(pg).turns) = Answered(pg.turns)
         /\ Answered(Inject(pg).turns) = Answered(pg.turns)
<1> DEFINE t == pg.turns
<1>1. ASSUME NEW u \in Seq(Pieces), NEW p \in Pieces, p.kind # "results"
      PROVE  Append(u, p) \in Seq(Pieces) /\ Answered(Append(u, p)) = Answered(u)
  <2>1. Len(u) \in Nat /\ Append(u, p) \in Seq(Pieces)
    OBVIOUS
  <2>2. 1 \in Nat \ {0} /\ 1 <= Len(u) + 1
    BY <2>1
  <2>3. AnsweredFrom(Append(u, p), 1) =
          AnsweredFrom(u, 1) \cup (IF p.kind = "results" THEN p.calls ELSE {})
    BY <1>1, <2>2, AppendAnswered
  <2> QED
    BY <1>1, <2>1, <2>3 DEF Answered
<1>2. \A rec \in {"turn", "steer"}, kind \in {"prompt", "steer", "note", "reply"}, n \in Nat :
        Piece(rec, kind, n, {}) \in Pieces /\ Piece(rec, kind, n, {}).kind # "results"
  BY DEF Piece, Pieces, Kinds
<1>3. ASSUME NEW kind \in {"prompt", "note", "reply"}, NEW n \in Nat
      PROVE  Answered(PushTurn(pg, kind, n, {}).turns) = Answered(t)
  <2> DEFINE p == Piece("turn", kind, n, {})
  <2>1. PushTurn(pg, kind, n, {}).turns = Append(t, p)
    BY DEF PushTurn
  <2>2. p \in Pieces /\ p.kind # "results"
    BY <1>2
  <2> HIDE DEF p
  <2> QED
    BY <1>1, <2>1, <2>2
<1>4. Answered(Nudge(pg).turns) = Answered(t)
  BY <1>3 DEF Nudge
<1>5. Answered(Inject(pg).turns) = Answered(t)
  <2> DEFINE p == Piece("steer", "steer", steers, {})
             q == Piece("turn", "steer", steers, {})
  <2>1. p \in Pieces /\ q \in Pieces /\ p.kind # "results" /\ q.kind # "results"
    BY <1>2
  <2>2. Inject(pg).turns \in {Append(t, p), Append(Append(t, p), q)}
    BY DEF Inject
  <2> HIDE DEF p, q
  <2>3. Append(t, p) \in Seq(Pieces) /\ Answered(Append(t, p)) = Answered(t)
    BY <1>1, <2>1
  <2>4. Answered(Append(Append(t, p), q)) = Answered(Append(t, p))
    BY <1>1, <2>1, <2>3
  <2> QED
    BY <2>2, <2>3, <2>4
<1>6. ASSUME pg = [turns |-> pg.turns, history |-> pg.history]
      PROVE  Answered(PushUser(pg, "prompt", k).turns) = Answered(t)
  <2>1. CASE EndsByUser(pg.history)
    <3>1. PushUser(pg, "prompt", k)
            = [pg EXCEPT !.history = Append(@, Piece("none", "prompt", k, {}))]
      BY <2>1 DEF PushUser
    <3>2. PushUser(pg, "prompt", k).turns = t
      BY <1>6, <3>1
    <3> QED
      BY <3>2
  <2>2. CASE ~EndsByUser(pg.history)
    BY <1>3, <2>2 DEF PushUser
  <2> QED
    BY <2>1, <2>2
<1> QED
  BY <1>3, <1>4, <1>5, <1>6

(* So the way a run goes on after a turn answers nothing either. *)
LEMMA OnwardAnswers ==
  ASSUME NEW pg, pg.turns \in Seq(Pieces), steers \in Nat, NEW then \in Thens, Onward(pg, then)
  PROVE  Answered(turns') = Answered(pg.turns) /\ phase' # "pair"
<1>1. CASE then = "inject"
  BY <1>1, PlainAnswers DEF Onward, Write
<1>2. CASE then = "nudge"
  BY <1>2, PlainAnswers DEF Onward, Write
<1>3. CASE then = "end"
  BY <1>3 DEF Onward, Rest
<1> QED
  BY <1>1, <1>2, <1>3 DEF Thens

(* A round gives new numbers to its calls, its results answer those and no others, *)
(* and a crash between the two tears calls nothing has answered.                   *)
LEMMA TornKeeps == Inv /\ TornInv /\ [Next]_vars => TornInv'
<1> SUFFICES ASSUME Inv, TornInv, [Next]_vars PROVE TornInv'
  OBVIOUS
<1>0. /\ turns \in Seq(Pieces) /\ steers \in Nat /\ prompts \in Nat /\ crashes \in Nat
      /\ tool \in Seq(Tools) /\ Len(tool) \in Nat /\ torn \subseteq 1..Len(tool)
      /\ Page.turns = turns
  BY DEF Inv, TypeOK, Page
<1>1. ASSUME torn' = torn, crashes' = crashes, Answered(turns') = Answered(turns),
             phase' # "pair"
      PROVE  TornInv'
  BY <1>1 DEF TornInv
<1>2. CASE Send
  <2> DEFINE pg == [turns |-> turns, history |-> Rebuilt(turns, mark)]
  <2>1. Write(PushUser(pg, "prompt", prompts + 1)) /\ torn' = torn /\ crashes' = crashes
        /\ phase' = "head"
    BY <1>2 DEF Send
  <2>2. pg.turns = turns /\ pg = [turns |-> pg.turns, history |-> pg.history]
    OBVIOUS
  <2> HIDE DEF pg
  <2>3. Answered(PushUser(pg, "prompt", prompts + 1).turns) = Answered(turns)
    BY <1>0, <2>2, PlainAnswers
  <2> QED
    BY <1>1, <2>1, <2>3 DEF Write
<1>3. CASE Queue
  BY <1>3 DEF Queue, file, TornInv
<1>4. CASE NoPrune \/ NoHandOff \/ NoCompact \/ Refuse
  BY <1>1, <1>4 DEF NoPrune, NoHandOff, NoCompact, Refuse, Rest, Go, file, bounds
<1>5. CASE HandOff
  <2>1. Answered(PushTurn(Page, "reply", 0, {}).turns) = Answered(turns)
    BY <1>0, PlainAnswers
  <2> QED
    BY <1>1, <1>5, <2>1 DEF HandOff, Write, bounds
<1>6. CASE Crash
  <2>1. crashes' # 0 /\ turns' = turns /\ phase' = "idle"
    BY <1>0, <1>6 DEF Crash, Rest, file
  <2>2. CASE phase = "pair"
    <3> DEFINE s == history[Len(history)].calls
    <3>1. \A c \in Answered(turns), d \in s : c < d
      BY <2>2 DEF Inv, FileInv, PairOpen, Answered
    <3>2. Answered(turns) \subseteq Nat
      <4>1. Known(turns, Len(tool))
        BY <2>2 DEF Inv, FileInv, FileOK
      <4> QED
        BY <1>0, <4>1 DEF Known, Answered, AnsweredFrom
    <3>3. torn' = torn \cup s
      BY <1>6, <2>2 DEF Crash
    <3> HIDE DEF s
    <3>4. s \cap Answered(turns) = {}
      BY <3>1, <3>2
    <3> QED
      BY <2>1, <3>3, <3>4 DEF TornInv
  <2>3. CASE phase # "pair"
    BY <1>6, <2>1, <2>3 DEF Crash, TornInv
  <2> QED
    BY <2>2, <2>3
<1>7. ASSUME NEW cuts \in SUBSET (Maskable \ Superseded), Prune(cuts) PROVE TornInv'
  BY <1>1, <1>7 DEF Prune
<1>8. ASSUME NEW k \in TailStarts, Compact(k) PROVE TornInv'
  BY <1>1, <1>8 DEF Compact, Go
<1>9. ASSUME NEW k \in TailStarts, CompactAtRest(k) PROVE TornInv'
  BY <1>1, <1>9 DEF CompactAtRest
<1>10. ASSUME NEW text \in BOOLEAN, NEW then \in Thens, Reply(text, then) PROVE TornInv'
  <2> DEFINE pg == IF text THEN PushTurn(Page, "reply", 0, {}) ELSE Page
  <2>1. Onward(pg, then) /\ torn' = torn /\ crashes' = crashes
    BY <1>10 DEF Reply, bounds
  <2>2. PushTurn(Page, "reply", 0, {}).turns \in Seq(Pieces)
    <3>1. Piece("turn", "reply", 0, {}) \in Pieces
      BY DEF Piece, Pieces, Kinds
    <3> QED
      BY <1>0, <3>1 DEF PushTurn
  <2>3. pg.turns \in Seq(Pieces) /\ Answered(pg.turns) = Answered(turns)
    BY <1>0, <2>2, PlainAnswers
  <2> HIDE DEF pg
  <2> QED
    BY <1>0, <1>1, <2>1, <2>3, OnwardAnswers
<1>11. ASSUME NEW asked \in Asks, CallTurn(asked) PROVE TornInv'
  <2> DEFINE calls == (Len(tool) + 1)..(Len(tool) + Len(asked))
             p == Piece("turn", "calls", 0, calls)
  <2>1. /\ phase = "request" /\ torn' = torn /\ crashes' = crashes
        /\ Write(PushTurn(Page, "calls", 0, calls)) /\ Len(tool) + Len(asked) <= MaxCalls
    BY <1>11 DEF CallTurn, bounds
  <2>2. p \in Pieces /\ p.kind # "results" /\ p.calls = calls
    <3>1. Len(asked) \in Nat
      BY DEF Asks
    <3> QED
      BY <1>0, <2>1, <3>1, TranscriptAssumption DEF Piece, Pieces, Kinds
  <2>3. history \in Seq(Pieces)
    BY DEF Inv, TypeOK
  <2>4. turns' = Append(turns, p) /\ history' = Append(history, p)
    BY <2>1 DEF Write, PushTurn, Page
  <2>5. torn \cap calls = {}
    BY <1>0
  <2> HIDE DEF calls, p
  <2>6. Answered(turns') = Answered(turns)
    <3>1. 1 \in Nat \ {0} /\ 1 <= Len(turns) + 1
      BY <1>0
    <3>2. AnsweredFrom(turns', 1) =
            AnsweredFrom(turns, 1) \cup (IF p.kind = "results" THEN p.calls ELSE {})
      BY <1>0, <2>2, <2>4, <3>1, AppendAnswered
    <3> QED
      BY <2>2, <3>2 DEF Answered
  <2>7. history'[Len(history')] = p
    BY <2>2, <2>3, <2>4
  <2> QED
    BY <2>1, <2>2, <2>5, <2>6, <2>7 DEF TornInv
<1>12. ASSUME NEW then \in Thens, ResultTurn(then) PROVE TornInv'
  <2> DEFINE s == history[Len(history)].calls
             p == Piece("turn", "results", 0, s)
             pg == PushTurn(Page, "results", 0, s)
  <2>1. /\ phase = "pair" /\ torn' = torn /\ crashes' = crashes
        /\ Onward(pg, then) \/ (Write(pg) /\ phase' = "linked")
    BY <1>12 DEF ResultTurn, bounds
  <2>2. p \in Pieces /\ p.kind = "results" /\ p.calls = s
    <3>1. history \in Seq(Pieces) /\ history # <<>>
      BY <2>1 DEF Inv, FileInv, Shows
    <3>2. history[Len(history)] \in Pieces
      BY <3>1
    <3> QED
      BY <3>2 DEF Piece, Pieces, Kinds
  <2>3. pg.turns = Append(turns, p)
    BY DEF PushTurn, Page
  <2>4. torn \cap s = {}
    BY <2>1 DEF TornInv
  <2> HIDE DEF s, p, pg
  <2>5. pg.turns \in Seq(Pieces) /\ Answered(pg.turns) = Answered(turns) \cup s
    BY <1>0, <2>2, <2>3, AppendAnswered DEF Answered
  <2>6. Answered(turns') = Answered(pg.turns) /\ phase' # "pair"
    BY <1>0, <2>1, <2>5, OnwardAnswers DEF Write
  <2> QED
    BY <2>1, <2>4, <2>5, <2>6 DEF TornInv
<1>13. CASE UNCHANGED vars
  BY <1>13 DEF vars, TornInv
<1> QED
  BY <1>2, <1>3, <1>4, <1>5, <1>6, <1>7, <1>8, <1>9, <1>10, <1>11, <1>12, <1>13 DEF Next

(* Every request is a conversation the provider accepts, for any tail, any       *)
(* window of recent messages and any number of prompts, compactions, prunes and  *)
(* crashes, but for the calls of a round the app died in: without a crash there  *)
(* are none, and none of them has an answer in the file.                         *)
THEOREM WellFormed == Spec => []RequestIsWellFormed
<1>1. Inv /\ TornInv => RequestIsWellFormed
  <2> SUFFICES ASSUME Inv, TornInv, phase = "request" PROVE RequestIsWellFormed
    BY DEF RequestIsWellFormed
  <2>1. Shows(turns, history, mark, torn, Len(tool), FALSE) /\ EndsByUser(history)
    BY HeadsShow DEF Heads, EndsUser, Page
  <2>2. history \in Seq(Pieces) /\ history # <<>> /\ ByUser(history[1])
        /\ CallHasAnswer(history, torn, FALSE) /\ AnswerHasCall(history)
    BY <2>1 DEF Shows, Paired
  <2>3. DOMAIN history = 1..Len(history)
    BY <2>2
  <2>4. CallsAnswered(history)
    BY <2>2, <2>3 DEF CallHasAnswer, CallsAnswered
  <2>5. ResultsAsked(history)
    BY <2>2, <2>3 DEF AnswerHasCall, ResultsAsked
  <2> QED
    BY <2>1, <2>2, <2>4, <2>5 DEF RequestIsWellFormed, TornInv
<1>2. Init => TornInv
  BY DEF Init, TornInv, Answered, AnsweredFrom
<1>3. Inv /\ TornInv /\ [Next]_vars => TornInv'
  BY TornKeeps
<1> QED
  BY <1>1, <1>2, <1>3, Inductive, PTL DEF Spec

(* The user's answers and the task list as the model knows it survive every    *)
(* prune: plan_by_age's current block holds for any chain of prunes,           *)
(* compactions and reloads.                                                    *)
THEOREM KeptWhole == Spec => []ListAndAnswersKept
<1>1. Inv => ListAndAnswersKept
  BY DEF Inv
<1> QED
  BY <1>1, Inductive, PTL

(* What a prune cut or dropped is never shown whole again. *)
THEOREM NeverBack == Spec => NothingComesBack
<1> DEFINE Monotone == \A c \in DOMAIN form : Rank(form[c]) <= Rank(form'[c])
<1>1. Inv /\ [Next]_vars => [Monotone]_vars
  <2> SUFFICES ASSUME Inv, Next PROVE Monotone
    OBVIOUS
  <2>1. form \in [DOMAIN tool -> {"whole", "cut", "dropped"}] /\ form = FormOnDisk(pruned)
    BY Basics DEF Inv, FormInv
  <2>2. ASSUME \A c \in DOMAIN form : form'[c] = form[c] PROVE Monotone
    BY <2>1, <2>2 DEF Rank
  <2>3. ASSUME NEW cuts \in SUBSET (Maskable \ Superseded), Prune(cuts) PROVE Monotone
    <3>1. form' = [c \in DOMAIN form |-> IF c \in Superseded THEN "dropped"
                                         ELSE IF c \in cuts THEN "cut" ELSE form[c]]
      BY <2>3 DEF Prune
    <3>2. \A c \in cuts : form[c] = "whole"
      BY DEF Maskable
    <3> QED
      BY <2>1, <3>1, <3>2 DEF Rank
  <2>4. ASSUME NEW asked \in Asks, CallTurn(asked) PROVE Monotone
    <3>1. form' = [c \in DOMAIN tool' |-> IF c \in DOMAIN form THEN form[c] ELSE "whole"]
          /\ tool' = tool \o asked
      BY <2>4 DEF CallTurn
    <3>2. asked \in Seq(Tools) /\ tool \in Seq(Tools)
      <4>1. {"ask", "read", "tasks", "update"} \subseteq Tools
        BY DEF Tools, TaskTools, Snapshots
      <4>2. \A a \in Tools, b \in Tools : <<a>> \in Seq(Tools) /\ <<a, b>> \in Seq(Tools)
        OBVIOUS
      <4>3. asked \in Seq(Tools)
        BY <4>1, <4>2 DEF Asks
      <4> QED
        BY <4>3, Basics
    <3>3. DOMAIN tool \subseteq DOMAIN tool'
      BY <3>1, <3>2
    <3> QED
      BY <2>1, <2>2, <3>1, <3>3
  <2>5. CASE Send \/ \E k \in TailStarts : Compact(k)
    BY <2>1, <2>2, <2>5 DEF Send, Compact
  <2>6. CASE Queue \/ NoPrune \/ HandOff \/ NoHandOff \/ NoCompact \/ Refuse \/ Crash
    BY <2>2, <2>6 DEF Queue, NoPrune, HandOff, NoHandOff, NoCompact, Refuse, Crash
  <2>7. CASE \/ \E k \in TailStarts : CompactAtRest(k)
             \/ \E text \in BOOLEAN, then \in Thens : Reply(text, then)
             \/ \E then \in Thens : ResultTurn(then)
    BY <2>2, <2>7 DEF CompactAtRest, Reply, ResultTurn
  <2> QED
    BY <2>3, <2>4, <2>5, <2>6, <2>7 DEF Next
<1> QED
  BY <1>1, Inductive, PTL DEF Spec, NothingComesBack

-----------------------------------------------------------------------------
(* A reload agrees with the run.  Two histories show the same if they have as  *)
(* many saved pieces, in the same places.                                      *)

Same(h, g) ==
  /\ Saved(h) = Saved(g)
  /\ Cardinality(SavedPlaces(h)) = Cardinality(SavedPlaces(g))

(* The places of saved pieces can be counted. *)
LEMMA PlacesFinite ==
  ASSUME NEW h \in Seq(Pieces)
  PROVE  /\ IsFiniteSet(SavedPlaces(h)) /\ Cardinality(SavedPlaces(h)) \in Nat
         /\ SavedPlaces(h) \subseteq 1..Len(h) /\ Len(h) \in Nat
<1>1. Len(h) \in Nat /\ SavedPlaces(h) \subseteq 1..Len(h)
  BY DEF SavedPlaces
<1>2. IsFiniteSet(1..Len(h))
  BY <1>1, FS_Interval
<1>3. IsFiniteSet(SavedPlaces(h))
  BY <1>1, <1>2, FS_Subset
<1> QED
  BY <1>1, <1>3, FS_CardinalityType

(* What an Append adds to the saved pieces. *)
LEMMA SavedAppend ==
  ASSUME NEW h \in Seq(Pieces), NEW p \in Pieces
  PROVE  LET g == Append(h, p)
             n == Cardinality(SavedPlaces(h))
         IN  /\ ~IsSaved(p) => Saved(g) = Saved(h) /\ Cardinality(SavedPlaces(g)) = n
             /\ IsSaved(p) => /\ Saved(g) = Saved(h) \cup {<<n, p>>}
                              /\ Cardinality(SavedPlaces(g)) = n + 1
<1> DEFINE g == Append(h, p)
           n == Cardinality(SavedPlaces(h))
           l == Len(h)
<1>1. l \in Nat /\ Len(g) = l + 1 /\ g[l + 1] = p /\ \A i \in 1..l : g[i] = h[i]
  OBVIOUS
<1>2. SavedPlaces(h) \subseteq 1..l /\ IsFiniteSet(SavedPlaces(h)) /\ l + 1 \notin SavedPlaces(h)
  BY <1>1, PlacesFinite
<1>3. SavedPlaces(g) = SavedPlaces(h) \cup (IF IsSaved(p) THEN {l + 1} ELSE {})
  BY <1>1 DEF SavedPlaces
<1> HIDE DEF g, l
<1>4. \A i \in SavedPlaces(h) : g[i] = h[i] /\ SavedBefore(g, i) = SavedBefore(h, i)
  BY <1>1, <1>2, <1>3 DEF SavedBefore
<1>5. {<<Cardinality(SavedBefore(g, i)), g[i]>> : i \in SavedPlaces(h)} = Saved(h)
  BY <1>4 DEF Saved
<1>6. CASE ~IsSaved(p)
  <2>1. SavedPlaces(g) = SavedPlaces(h)
    BY <1>3, <1>6
  <2>2. Saved(g) = Saved(h)
    BY <1>5, <2>1 DEF Saved
  <2> QED
    BY <1>6, <2>1, <2>2 DEF g
<1>7. CASE IsSaved(p)
  <2>1. SavedPlaces(g) = SavedPlaces(h) \cup {l + 1}
    BY <1>3, <1>7
  <2>2. Cardinality(SavedPlaces(g)) = n + 1
    BY <1>2, <2>1, FS_AddElement
  <2>3. SavedBefore(g, l + 1) = SavedPlaces(h)
    BY <1>1, <1>2, <2>1 DEF SavedBefore
  <2>4. Saved(g) = {<<Cardinality(SavedBefore(g, i)), g[i]>> : i \in SavedPlaces(h)}
                     \cup {<<Cardinality(SavedBefore(g, l + 1)), g[l + 1]>>}
    BY <2>1 DEF Saved
  <2>5. Saved(g) = Saved(h) \cup {<<n, p>>}
    BY <1>1, <1>5, <2>3, <2>4
  <2> QED
    BY <1>7, <2>2, <2>5 DEF g
<1> QED
  BY <1>6, <1>7 DEF g

(* A turn written to the file is the last piece of what a rebuild shows. *)
LEMMA RebuiltAppend ==
  ASSUME NEW t \in Seq(Pieces), NEW m \in Marks, NEW p \in Pieces, m.start <= Len(t) + 1
  PROVE  Rebuilt(Append(t, p), m) = Append(Rebuilt(t, m), p)
<1> DEFINE u == Append(t, p)
           r == Rebuilt(t, m)
           q == Rebuilt(u, m)
           o == IF m.made THEN 1 ELSE 0
<1>1. /\ Len(t) \in Nat /\ m.start \in Nat \ {0} /\ o \in {0, 1}
      /\ u \in Seq(Pieces) /\ Len(u) = Len(t) + 1 /\ u[Len(t) + 1] = p
      /\ \A i \in 1..Len(t) : u[i] = t[i]
  BY DEF Marks
<1>2. /\ r \in Seq(Pieces) /\ Len(r) = o + Len(t) + 1 - m.start
      /\ m.made => r[1] = Summary
      /\ \A i \in 1..Len(r) : i > o => r[i] = t[m.start + i - 1 - o]
  BY RebuiltShape
<1>3. /\ q \in Seq(Pieces) /\ Len(q) = o + Len(u) + 1 - m.start
      /\ m.made => q[1] = Summary
      /\ \A i \in 1..Len(q) : i > o => q[i] = u[m.start + i - 1 - o]
  <2>1. m.start <= Len(u) + 1
    BY <1>1
  <2> QED
    BY <1>1, <2>1, RebuiltShape
<1>4. o = 1 => m.made
  OBVIOUS
<1> HIDE DEF r, q, u, o
<1>5. Len(q) = Len(r) + 1 /\ Len(r) \in Nat
  BY <1>1, <1>2, <1>3
<1>6. \A i \in 1..Len(r) : q[i] = r[i]
  <2> TAKE i \in 1..Len(r)
  <2>1. CASE i > o
    <3> DEFINE j == m.start + i - 1 - o
    <3>1. j \in 1..Len(t)
      BY <1>1, <1>2, <2>1
    <3>2. i \in 1..Len(q)
      BY <1>5
    <3>3. r[i] = t[j]
      BY <1>2, <2>1
    <3>4. q[i] = u[j]
      BY <1>3, <2>1, <3>2
    <3> HIDE DEF j
    <3> QED
      BY <1>1, <3>1, <3>3, <3>4
  <2>2. CASE ~(i > o)
    <3>1. i = 1 /\ o = 1
      BY <1>1, <2>2
    <3> QED
      BY <1>2, <1>3, <1>4, <3>1
  <2> QED
    BY <2>1, <2>2
<1>7. q[Len(r) + 1] = p
  <2> DEFINE i == Len(r) + 1
             j == m.start + i - 1 - o
  <2>1. i \in 1..Len(q)
    BY <1>5
  <2>2. j = Len(t) + 1
    BY <1>1, <1>2
  <2>3. i > o
    BY <1>1, <1>2
  <2>4. q[i] = u[j]
    BY <1>3, <2>1, <2>3
  <2> HIDE DEF i, j
  <2> QED
    BY <1>1, <2>2, <2>4 DEF i
<1>8. /\ Append(r, p) \in Seq(Pieces) /\ Len(Append(r, p)) = Len(r) + 1
      /\ Append(r, p)[Len(r) + 1] = p /\ \A i \in 1..Len(r) : Append(r, p)[i] = r[i]
  BY <1>2
<1>9. \A i \in 1..Len(q) : q[i] = Append(r, p)[i]
  <2> TAKE i \in 1..Len(q)
  <2>1. i \in 1..Len(r) \/ i = Len(r) + 1
    BY <1>5
  <2> QED
    BY <1>6, <1>7, <1>8, <2>1
<1>10. q = Append(r, p)
  BY <1>3, <1>5, <1>8, <1>9
<1> QED
  BY <1>10 DEF q, u, r

(* A page that a reload would give back. *)
Alike(pg, m) ==
  /\ pg = [turns |-> pg.turns, history |-> pg.history]
  /\ pg.turns \in Seq(Pieces) /\ pg.history \in Seq(Pieces)
  /\ m \in Marks /\ m.start <= Len(pg.turns) + 1
  /\ Same(pg.history, Rebuilt(pg.turns, m))

(* File and history stay alike when both take a piece, or one takes a piece that is not compared. *)
LEMMA AlikeWritten ==
  ASSUME NEW t, NEW h, NEW m, NEW p \in Pieces, Alike([turns |-> t, history |-> h], m)
  PROVE  /\ Alike([turns |-> Append(t, p), history |-> Append(h, p)], m)
         /\ ~IsSaved(p) => /\ Alike([turns |-> t, history |-> Append(h, p)], m)
                           /\ Alike([turns |-> Append(t, p), history |-> h], m)
<1> DEFINE r == Rebuilt(t, m)
<1>1. t \in Seq(Pieces) /\ h \in Seq(Pieces) /\ m \in Marks /\ m.start <= Len(t) + 1 /\ Same(h, r)
  BY DEF Alike
<1>2. /\ Append(t, p) \in Seq(Pieces) /\ Append(h, p) \in Seq(Pieces)
      /\ m.start <= Len(Append(t, p)) + 1
  BY <1>1 DEF Marks
<1>3. Rebuilt(Append(t, p), m) = Append(r, p)
  BY <1>1, RebuiltAppend
<1>4. r \in Seq(Pieces)
  BY <1>1, RebuiltShape
<1> HIDE DEF r
<1> DEFINE n(g) == Cardinality(SavedPlaces(g))
<1>7. \A g \in {h, r} :
        /\ ~IsSaved(p) => Saved(Append(g, p)) = Saved(g) /\ n(Append(g, p)) = n(g)
        /\ IsSaved(p) => /\ Saved(Append(g, p)) = Saved(g) \cup {<<n(g), p>>}
                         /\ n(Append(g, p)) = n(g) + 1
  BY <1>1, <1>4, SavedAppend
<1>8. \A g1, g2 : Same(g1, g2) <=> Saved(g1) = Saved(g2) /\ n(g1) = n(g2)
  BY DEF Same
<1> HIDE DEF n
<1>5. Same(Append(h, p), Append(r, p))
  BY <1>1, <1>7, <1>8
<1>6. ~IsSaved(p) => Same(Append(h, p), r) /\ Same(h, Append(r, p))
  BY <1>1, <1>7, <1>8
<1> QED
  BY <1>1, <1>2, <1>3, <1>5, <1>6 DEF Alike, r

(* push_turn keeps them alike. *)
LEMMA AlikePushTurn ==
  ASSUME NEW pg, NEW m, NEW kind, NEW k, NEW calls, Alike(pg, m),
         Piece("turn", kind, k, calls) \in Pieces
  PROVE  Alike(PushTurn(pg, kind, k, calls), m)
<1>1. Alike([turns |-> pg.turns, history |-> pg.history], m)
  BY DEF Alike
<1> QED
  BY <1>1, AlikeWritten DEF PushTurn

(* A prompt or a nudge merged into a user message is in the history alone, and *)
(* unsaved; a queued message is saved as its record.                           *)
LEMMA AlikePushUser ==
  ASSUME NEW pg, NEW m, NEW k \in Nat, Alike(pg, m)
  PROVE  Alike(PushUser(pg, "prompt", k), m) /\ Alike(Nudge(pg), m)
<1>1. Alike([turns |-> pg.turns, history |-> pg.history], m)
  BY DEF Alike
<1> DEFINE p == Piece("none", "prompt", k, {})
<1>2. p \in Pieces /\ ~IsSaved(p)
  BY DEF Piece, Pieces, Kinds, IsSaved
<1>3. Piece("turn", "prompt", k, {}) \in Pieces /\ Piece("turn", "note", 0, {}) \in Pieces
  BY DEF Piece, Pieces, Kinds
<1> HIDE DEF p
<1>4. [pg EXCEPT !.history = Append(@, p)] = [turns |-> pg.turns, history |-> Append(pg.history, p)]
  <2>1. pg = [turns |-> pg.turns, history |-> pg.history]
    BY DEF Alike
  <2>2. \A t, h, g : [[turns |-> t, history |-> h] EXCEPT !.history = g] = [turns |-> t, history |-> g]
    OBVIOUS
  <2>3. [[turns |-> pg.turns, history |-> pg.history] EXCEPT !.history = Append(pg.history, p)]
          = [turns |-> pg.turns, history |-> Append(pg.history, p)]
    BY <2>2
  <2> QED
    BY <2>1, <2>3, Zenon
<1>8. Alike([turns |-> pg.turns, history |-> Append(pg.history, p)], m)
  BY <1>1, <1>2, AlikeWritten
<1>5. Alike([pg EXCEPT !.history = Append(@, p)], m)
  BY <1>4, <1>8
<1>6. Alike(PushUser(pg, "prompt", k), m)
  BY <1>3, <1>5, AlikePushTurn DEF PushUser, p
<1>7. Alike(Nudge(pg), m)
  BY <1>3, AlikePushTurn DEF Nudge
<1> QED
  BY <1>6, <1>7

(* So does a queued message, merged into the last one or not. *)
LEMMA AlikeInject ==
  ASSUME NEW pg, NEW m, steers \in Nat, Alike(pg, m)
  PROVE  Alike(Inject(pg), m)
<1> DEFINE p == Piece("steer", "steer", steers, {})
           q == Piece("turn", "steer", steers, {})
           once == [turns |-> Append(pg.turns, p), history |-> Append(pg.history, p)]
           twice == [turns |-> Append(Append(pg.turns, p), q), history |-> Append(pg.history, p)]
<1>1. p \in Pieces /\ q \in Pieces /\ ~IsSaved(q)
  BY DEF Piece, Pieces, Kinds, IsSaved
<1>2. Alike([turns |-> pg.turns, history |-> pg.history], m)
  BY DEF Alike
<1> HIDE DEF p, q
<1>3. Alike(once, m)
  BY <1>1, <1>2, AlikeWritten
<1>4. Alike(twice, m)
  BY <1>1, <1>3, AlikeWritten
<1>5. Inject(pg) = once \/ Inject(pg) = twice
  BY DEF Inject, p, q
<1> QED
  BY <1>3, <1>4, <1>5


Agrees == InRun => Alike(Page, mark)

(* What Inv says of every page. *)
LEMMA PageTypes ==
  ASSUME Inv
  PROVE  /\ turns \in Seq(Pieces) /\ history \in Seq(Pieces) /\ mark \in Marks
         /\ mark.start <= Len(turns) + 1 /\ steers \in Nat /\ prompts \in Nat
<1>1. turns \in Seq(Pieces) /\ history \in Seq(Pieces) /\ mark \in Marks
      /\ steers \in Nat /\ prompts \in Nat /\ mark.at <= Len(turns) /\ mark.start <= mark.at + 1
  BY DEF Inv, TypeOK, MarkOK
<1>2. Len(turns) \in Nat /\ mark.at \in Nat /\ mark.start \in Nat
  BY <1>1 DEF Marks
<1> QED
  BY <1>1, <1>2

(* A rebuilt history is like its file. *)
LEMMA RebuiltAlike ==
  ASSUME NEW t \in Seq(Pieces), NEW m \in Marks, m.start <= Len(t) + 1
  PROVE  Alike([turns |-> t, history |-> Rebuilt(t, m)], m)
<1>1. Rebuilt(t, m) \in Seq(Pieces)
  BY RebuiltShape
<1> QED
  BY <1>1 DEF Alike, Same

(* A step that leaves the page, or the run, as it is. *)
LEMMA AlikeStill ==
  ASSUME Agrees, (InRun' => InRun /\ UNCHANGED <<turns, history, mark>>)
  PROVE  Agrees'
BY DEF Agrees, Page

(* A run that goes on after a round keeps them alike. *)
LEMMA AlikeOnward ==
  ASSUME NEW pg, NEW then \in Thens, Alike(pg, mark), steers \in Nat, Onward(pg, then),
         mark' = mark
  PROVE  Agrees'
<1>1. CASE then = "inject"
  <2>1. Write(Inject(pg))
    BY <1>1 DEF Onward
  <2>2. Alike(Inject(pg), mark)
    BY AlikeInject
  <2> QED
    BY <2>1, <2>2 DEF Write, Agrees, Page, Alike
<1>2. CASE then = "nudge"
  <2>1. Write(Nudge(pg))
    BY <1>2 DEF Onward
  <2>2. Alike(Nudge(pg), mark)
    BY AlikePushUser
  <2> QED
    BY <2>1, <2>2 DEF Write, Agrees, Page, Alike
<1>3. CASE then = "end"
  <2>1. phase' = "idle"
    BY <1>3 DEF Onward, Rest
  <2> QED
    BY <2>1 DEF Agrees, InRun
<1> QED
  BY <1>1, <1>2, <1>3 DEF Thens

(* Step by step.  A message starts from the file. *)
LEMMA SendAgrees == Inv /\ Send => Agrees'
<1> SUFFICES ASSUME Inv, Send PROVE Agrees'
  OBVIOUS
<1> DEFINE pg == [turns |-> turns, history |-> Rebuilt(turns, mark)]
<1>1. Write(PushUser(pg, "prompt", prompts + 1)) /\ mark' = mark
  BY DEF Send
<1>2. Alike(pg, mark)
  BY PageTypes, RebuiltAlike
<1>3. prompts + 1 \in Nat
  BY PageTypes
<1> HIDE DEF pg
<1>4. Alike(PushUser(pg, "prompt", prompts + 1), mark)
  BY <1>2, <1>3, AlikePushUser
<1> QED
  BY <1>1, <1>4 DEF Write, Agrees, Page, Alike

(* A compaction rebuilds the history. *)
LEMMA CompactAgrees ==
  ASSUME Inv, NEW k \in TailStarts, Compact(k)
  PROVE  Agrees'
<1>1. mark' = Mark(k) /\ turns' = turns /\ history' = Rebuilt(turns, Mark(k))
  BY DEF Compact
<1>2. turns \in Seq(Pieces) /\ Len(turns) \in Nat /\ mark.at \in Nat
  BY PageTypes DEF Marks
<1>3. k \in Nat \ {0} /\ k <= Len(turns) + 1
  BY <1>2 DEF TailStarts
<1>4. Mark(k) \in Marks /\ Mark(k).start <= Len(turns) + 1
  BY <1>2, <1>3 DEF Mark, Marks
<1> HIDE DEF Mark
<1>5. Alike([turns |-> turns, history |-> Rebuilt(turns, Mark(k))], Mark(k))
  BY <1>2, <1>4, RebuiltAlike
<1> QED
  BY <1>1, <1>5 DEF Agrees, Page

(* A handoff ends the run on this file. *)
LEMMA HandOffAgrees == HandOff => Agrees'
BY DEF HandOff, Agrees, InRun

(* A reply is written and shown. *)
LEMMA ReplyAgrees ==
  ASSUME Inv, Agrees, NEW text \in BOOLEAN, NEW then \in Thens, Reply(text, then)
  PROVE  Agrees'
<1>1. phase = "request" /\ mark' = mark
      /\ Onward(IF text THEN PushTurn(Page, "reply", 0, {}) ELSE Page, then)
  BY DEF Reply
<1>2. Alike(Page, mark)
  BY <1>1 DEF Agrees, InRun
<1>3. Alike(PushTurn(Page, "reply", 0, {}), mark)
  <2>1. Piece("turn", "reply", 0, {}) \in Pieces
    BY DEF Piece, Pieces, Kinds
  <2> QED
    BY <1>2, <2>1, AlikePushTurn
<1>4. Alike(IF text THEN PushTurn(Page, "reply", 0, {}) ELSE Page, mark)
  BY <1>2, <1>3
<1> QED
  BY <1>1, <1>4, PageTypes, AlikeOnward

(* So are a round's calls ... *)
LEMMA CallTurnAgrees ==
  ASSUME Inv, Agrees, NEW asked \in Asks, CallTurn(asked)
  PROVE  Agrees'
<1> DEFINE calls == (Len(tool) + 1)..(Len(tool) + Len(asked))
<1>1. /\ phase = "request" /\ mark' = mark /\ Write(PushTurn(Page, "calls", 0, calls))
      /\ Len(tool) + Len(asked) <= MaxCalls
  BY DEF CallTurn
<1>2. Alike(Page, mark)
  BY <1>1 DEF Agrees, InRun
<1>3. Piece("turn", "calls", 0, calls) \in Pieces
  <2>1. Len(tool) \in Nat /\ Len(asked) \in Nat
    BY DEF Inv, TypeOK, Asks
  <2> QED
    BY <1>1, <2>1, TranscriptAssumption DEF Piece, Pieces, Kinds
<1> HIDE DEF calls
<1>4. Alike(PushTurn(Page, "calls", 0, calls), mark)
  BY <1>2, <1>3, AlikePushTurn
<1> QED
  BY <1>1, <1>4 DEF Write, Agrees, Page, Alike

(* ... and its results. *)
LEMMA ResultTurnAgrees ==
  ASSUME Inv, Agrees, NEW then \in Thens, ResultTurn(then)
  PROVE  Agrees'
<1> DEFINE calls == history[Len(history)].calls
           pg == PushTurn(Page, "results", 0, calls)
<1>1. /\ phase = "pair" /\ mark' = mark
      /\ Onward(pg, then) \/ phase' = "linked"
  BY DEF ResultTurn
<1>2. Alike(Page, mark)
  BY <1>1 DEF Agrees, InRun
<1>3. Piece("turn", "results", 0, calls) \in Pieces
  <2>1. history \in Seq(Pieces) /\ history # <<>>
    BY <1>1 DEF Inv, FileInv, Shows
  <2>2. history[Len(history)] \in Pieces
    BY <2>1
  <2> QED
    BY <2>2 DEF Piece, Pieces, Kinds
<1> HIDE DEF calls
<1>4. Alike(pg, mark)
  BY <1>2, <1>3, AlikePushTurn
<1> HIDE DEF pg
<1>5. CASE Onward(pg, then)
  BY <1>1, <1>4, <1>5, PageTypes, AlikeOnward
<1>6. CASE phase' = "linked"
  BY <1>6 DEF Agrees, InRun
<1> QED
  BY <1>1, <1>5, <1>6

(* Every step keeps file and history alike. *)
LEMMA AgreesKeeps == Inv /\ Agrees /\ [Next]_vars => Agrees'
<1> SUFFICES ASSUME Inv, Agrees, [Next]_vars PROVE Agrees'
  OBVIOUS
<1>1. CASE Send
  BY <1>1, SendAgrees
<1>2. CASE HandOff
  BY <1>2, HandOffAgrees
<1>3. CASE Queue \/ NoPrune \/ NoHandOff \/ NoCompact
  BY <1>3, AlikeStill DEF Queue, NoPrune, NoHandOff, NoCompact, Go, InRun, file, bounds
<1>4. CASE Refuse \/ Crash
  BY <1>4 DEF Refuse, Crash, Rest, Agrees, InRun
<1>5. ASSUME NEW cuts \in SUBSET (Maskable \ Superseded), Prune(cuts) PROVE Agrees'
  BY <1>5, AlikeStill DEF Prune, InRun
<1>6. ASSUME NEW k \in TailStarts, Compact(k) PROVE Agrees'
  BY <1>6, CompactAgrees
<1>7. ASSUME NEW k \in TailStarts, CompactAtRest(k) PROVE Agrees'
  BY <1>7 DEF CompactAtRest, Agrees, InRun
<1>8. ASSUME NEW text \in BOOLEAN, NEW then \in Thens, Reply(text, then) PROVE Agrees'
  BY <1>8, ReplyAgrees
<1>9. ASSUME NEW asked \in Asks, CallTurn(asked) PROVE Agrees'
  BY <1>9, CallTurnAgrees
<1>10. ASSUME NEW then \in Thens, ResultTurn(then) PROVE Agrees'
  BY <1>10, ResultTurnAgrees
<1>11. CASE UNCHANGED vars
  BY <1>11, AlikeStill DEF vars, InRun
<1> QED
  BY <1>1, <1>2, <1>3, <1>4, <1>5, <1>6, <1>7, <1>8, <1>9, <1>10, <1>11 DEF Next

(* The history a run shows is the one its file rebuilds, merged texts excepted, *)
(* through any merges, prunes, compactions, queued messages and torn rounds;    *)
(* and each call is shown as the records of the prunes say.                     *)
THEOREM ReloadIsFaithful == Spec => []ReloadAgrees
<1>1. Init => Agrees
  BY DEF Init, Agrees, InRun
<1>2. Inv /\ Agrees /\ [Next]_vars => Agrees'
  BY AgreesKeeps
<1>3. Inv /\ Agrees => ReloadAgrees
  BY DEF Inv, FormInv, Agrees, ReloadAgrees, Alike, Same, Page
<1> QED
  BY <1>1, <1>2, <1>3, Inductive, PTL DEF Spec
=============================================================================
