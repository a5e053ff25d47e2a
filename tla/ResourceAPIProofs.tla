------------------------- MODULE ResourceAPIProofs --------------------------
(***************************************************************************)
(* Proofs about the resource API, for any number of concurrent requests,   *)
(* tenants, names and machines, and any requests of the routes it serves.  *)
(***************************************************************************)
EXTENDS ResourceAPI, SequenceTheorems, TLAPS

-----------------------------------------------------------------------------
(* Programs. *)

\* Nothing in no sequence.
LEMMA NoPlaces == Len(<<>>) = 0 /\ 1..0 = {}
OBVIOUS

\* The first of a sequence and the rest.
LEMMA HeadTail ==
  ASSUME NEW S, NEW s \in Seq(S), s # <<>>
  PROVE  /\ Head(s) = s[1] /\ Head(s) \in S /\ Tail(s) \in Seq(S) /\ Len(s) \in Nat
         /\ Len(s) >= 1 /\ 1 \in 1..Len(s) /\ Len(Tail(s)) = Len(s) - 1
         /\ \A i \in 1..(Len(s) - 1) : Tail(s)[i] = s[i + 1] /\ i + 1 \in 1..Len(s)
         /\ Tail(s) = <<>> <=> Len(s) = 1
<1>1. Len(s) \in Nat /\ Len(s) >= 1
  BY EmptySeq, LenProperties
<1>2. Head(s) = s[1] /\ s[1] \in S
  BY <1>1
<1>3. Tail(s) \in Seq(S) /\ Len(Tail(s)) = Len(s) - 1
  BY HeadTailProperties
<1>4. \A i \in 1..(Len(s) - 1) : Tail(s)[i] = s[i + 1] /\ i + 1 \in 1..Len(s)
  BY <1>1
<1>5. Tail(s) = <<>> <=> Len(Tail(s)) = 0
  BY <1>3, EmptySeq
<1> QED  BY <1>1, <1>2, <1>3, <1>4, <1>5

\* One step in front of a program.
LEMMA InFront ==
  ASSUME NEW S, NEW s \in S, NEW r \in Seq(S)
  PROVE  /\ <<s>> \o r \in Seq(S) /\ Len(<<s>> \o r) = Len(r) + 1 /\ Len(r) \in Nat
         /\ (<<s>> \o r)[1] = s /\ Head(<<s>> \o r) = s /\ <<s>> \o r # <<>>
         /\ \A i \in 2..(Len(r) + 1) : (<<s>> \o r)[i] = r[i - 1] /\ i - 1 \in 1..Len(r)
<1>1. <<s>> \in Seq(S) /\ Len(<<s>>) = 1 /\ <<s>>[1] = s /\ Len(r) \in Nat
  BY LenProperties
<1>2. <<s>> \o r \in Seq(S) /\ Len(<<s>> \o r) = Len(r) + 1
  BY <1>1, ConcatProperties
<1>3. \A i \in 1..(Len(r) + 1) :
        (<<s>> \o r)[i] = IF i <= 1 THEN <<s>>[i] ELSE r[i - 1]
  BY <1>1, ConcatProperties
<1>4. (<<s>> \o r)[1] = s
  BY <1>1, <1>3
<1>5. <<s>> \o r # <<>>
  BY <1>1, <1>2, EmptySeq
<1>6. Head(<<s>> \o r) = (<<s>> \o r)[1]
  BY <1>2, <1>5, HeadTail
<1> QED  BY <1>1, <1>2, <1>3, <1>4, <1>5, <1>6

\* What the rest of a program is like once its store steps are done.
Bare(r) ==
  /\ r \in Seq(Steps)
  /\ \A i \in 1..Len(r) : StepOK(r[i]) /\ ~StoresOwn(r[i])
  /\ \A i, j \in 1..Len(r) : i < j /\ WritesRow(r[i]) => Harmless(r[j])
  /\ \A i, j \in 1..Len(r) : ActsByName(r[i]) => r[j].act # "need"

LEMMA BareIsOK ==
  ASSUME NEW r, Bare(r)
  PROVE  HandlerOK(r)
<1>1. r # <<>> => 1 \in 1..Len(r)
  BY HeadTail DEF Bare
<1>2. r # <<>> => r[1].act # "reload"
  BY <1>1, Zenon DEF Bare, StoresOwn
<1> QED  BY <1>2 DEF Bare, HandlerOK

\* The rest of a program behind a step that is not a reload.
LEMMA RestIsBare ==
  ASSUME NEW t, HandlerOK(t), t # <<>>, t[1].act # "reload"
  PROVE  /\ Bare(Tail(t))
         /\ WritesRow(t[1]) => \A i \in 1..Len(Tail(t)) : Harmless(Tail(t)[i])
         /\ ActsByName(t[1]) => \A i \in 1..Len(Tail(t)) : Tail(t)[i].act # "need"
<1>1. t \in Seq(Steps)
  BY DEF HandlerOK
<1>2. /\ Tail(t) \in Seq(Steps) /\ Len(Tail(t)) = Len(t) - 1 /\ Len(t) \in Nat /\ 1 \in 1..Len(t)
      /\ \A i \in 1..(Len(t) - 1) : Tail(t)[i] = t[i + 1] /\ i + 1 \in 1..Len(t)
  BY <1>1, HeadTail
<1>3. ASSUME NEW i \in 1..Len(Tail(t))
      PROVE  /\ i + 1 \in 1..Len(t) /\ Tail(t)[i] = t[i + 1] /\ i + 1 # 1 /\ 1 < i + 1
             /\ StepOK(Tail(t)[i]) /\ ~StoresOwn(Tail(t)[i])
  <2>1. i + 1 \in 1..Len(t) /\ Tail(t)[i] = t[i + 1] /\ i + 1 # 1 /\ 1 < i + 1
    BY <1>2
  <2> QED  BY <2>1, Zenon DEF HandlerOK
<1>4. ASSUME NEW i \in 1..Len(Tail(t)), NEW j \in 1..Len(Tail(t)), i < j, WritesRow(Tail(t)[i])
      PROVE  Harmless(Tail(t)[j])
  <2>1. i + 1 < j + 1
    BY <1>2, <1>4
  <2> QED  BY <2>1, <1>3, <1>4, Zenon DEF HandlerOK
<1>5. ASSUME NEW i \in 1..Len(Tail(t)), NEW j \in 1..Len(Tail(t)), ActsByName(Tail(t)[i])
      PROVE  Tail(t)[j].act # "need"
  BY <1>3, <1>5, Zenon DEF HandlerOK
<1>6. ASSUME WritesRow(t[1]), NEW i \in 1..Len(Tail(t)) PROVE Harmless(Tail(t)[i])
  BY <1>2, <1>3, <1>6, Zenon DEF HandlerOK
<1>7. ASSUME ActsByName(t[1]), NEW i \in 1..Len(Tail(t)) PROVE Tail(t)[i].act # "need"
  BY <1>2, <1>3, <1>7, Zenon DEF HandlerOK
<1> QED  BY <1>2, <1>3, <1>4, <1>5, <1>6, <1>7 DEF Bare

\* A store step in front of a bare program.
LEMMA StoreStepInFront ==
  ASSUME NEW r, Bare(r), NEW s \in Steps, StepOK(s), s.act \notin {"reload", "need"},
         WritesRow(s) => \A i \in 1..Len(r) : Harmless(r[i]),
         ActsByName(s) => \A i \in 1..Len(r) : r[i].act # "need"
  PROVE  /\ HandlerOK(<<s>> \o r) /\ Head(<<s>> \o r) = s /\ (<<s>> \o r)[1] = s
         /\ <<s>> \o r # <<>>
         /\ \A i \in 1..Len(<<s>> \o r) :
              (<<s>> \o r)[i] = s \/ \E j \in 1..Len(r) : (<<s>> \o r)[i] = r[j]
<1> DEFINE p == <<s>> \o r
<1>1. r \in Seq(Steps)
  BY DEF Bare
<1>2. /\ p \in Seq(Steps) /\ Len(p) = Len(r) + 1 /\ Len(r) \in Nat /\ p[1] = s /\ Head(p) = s
      /\ p # <<>> /\ \A i \in 2..(Len(r) + 1) : p[i] = r[i - 1] /\ i - 1 \in 1..Len(r)
  BY <1>1, InFront
<1> HIDE DEF p
<1>3. ASSUME NEW i \in 1..Len(p)
      PROVE  (i = 1 /\ p[i] = s) \/ (i # 1 /\ 1 < i /\ p[i] = r[i - 1] /\ i - 1 \in 1..Len(r))
  BY <1>2
<1>4. ASSUME NEW i \in 1..Len(p) PROVE StepOK(p[i]) /\ (StoresOwn(p[i]) => i = 1)
  BY <1>3, Zenon DEF Bare
<1>5. ASSUME NEW i \in 1..Len(p), NEW j \in 1..Len(p), i < j, WritesRow(p[i])
      PROVE  Harmless(p[j])
  <2>1. j # 1 /\ p[j] = r[j - 1] /\ j - 1 \in 1..Len(r)
    BY <1>3, <1>5, <1>2
  <2>2. CASE i = 1
    BY <2>1, <2>2, <1>3, <1>5, Zenon
  <2>3. CASE i # 1
    <3>1. i - 1 < j - 1
      BY <1>5, <1>2
    <3> QED  BY <2>1, <2>3, <3>1, <1>3, <1>5, Zenon DEF Bare
  <2> QED  BY <2>2, <2>3
<1>6. ASSUME NEW i \in 1..Len(p), NEW j \in 1..Len(p), ActsByName(p[i]), p[j].act = "need"
      PROVE  j = 1
  <2>1. SUFFICES ASSUME j # 1 PROVE FALSE
    OBVIOUS
  <2>2. p[j] = r[j - 1] /\ j - 1 \in 1..Len(r)
    BY <2>1, <1>3
  <2>3. CASE i = 1
    BY <2>2, <2>3, <1>2, <1>6, Zenon
  <2>4. CASE i # 1
    BY <2>2, <2>4, <1>3, <1>6, Zenon DEF Bare
  <2> QED  BY <2>3, <2>4
<1>7. HandlerOK(p)
  BY <1>2, <1>4, <1>5, <1>6 DEF HandlerOK
<1> QED  BY <1>2, <1>3, <1>7 DEF p

\* A reload and its publication in front of a bare program.
LEMMA ReloadInFront ==
  ASSUME NEW r, Bare(r), NEW a \in Steps, NEW b \in Steps, StepOK(a), StepOK(b),
         a.act = "reload", b.act = "publish", a.key = b.key
  PROVE  /\ HandlerOK(<<a, b>> \o r) /\ Head(<<a, b>> \o r) = a /\ (<<a, b>> \o r)[1] = a
         /\ <<a, b>> \o r # <<>>
         /\ \A i \in 1..Len(<<a, b>> \o r) :
              \/ (<<a, b>> \o r)[i] \in {a, b}
              \/ \E j \in 1..Len(r) : (<<a, b>> \o r)[i] = r[j]
<1> DEFINE p == <<a, b>> \o r
<1>1. r \in Seq(Steps) /\ <<a, b>> \in Seq(Steps) /\ Len(<<a, b>>) = 2 /\ Len(r) \in Nat
  BY LenProperties DEF Bare
<1>2. p \in Seq(Steps) /\ Len(p) = Len(r) + 2
  BY <1>1, ConcatProperties
<1>3. \A i \in 1..(Len(r) + 2) : p[i] = IF i <= 2 THEN <<a, b>>[i] ELSE r[i - 2]
  BY <1>1, ConcatProperties
<1>4. p[1] = a /\ p[2] = b
  BY <1>1, <1>3
<1>5. p # <<>> /\ Head(p) = a
  BY <1>1, <1>2, <1>4, EmptySeq, HeadTail
<1> HIDE DEF p
<1>6. ASSUME NEW i \in 1..Len(p)
      PROVE  \/ i = 1 /\ p[i] = a
             \/ i = 2 /\ p[i] = b
             \/ i # 1 /\ i # 2 /\ p[i] = r[i - 2] /\ i - 2 \in 1..Len(r) /\ i > 2
  BY <1>1, <1>2, <1>3, <1>4
<1>7. /\ ~WritesRow(a) /\ ~WritesRow(b) /\ ~ActsByName(a) /\ ~ActsByName(b)
      /\ a.act # "need" /\ b.act # "need"
  BY DEF WritesRow, ActsByName
<1>8. ASSUME NEW i \in 1..Len(p)
      PROVE  StepOK(p[i]) /\ (StoresOwn(p[i]) => i = 1 \/ (i = 2 /\ p[1].act = "reload"))
  BY <1>4, <1>6, Zenon DEF Bare
<1>9. ASSUME NEW i \in 1..Len(p), NEW j \in 1..Len(p), i < j, WritesRow(p[i])
      PROVE  Harmless(p[j])
  <2>1. i > 2 /\ p[i] = r[i - 2] /\ i - 2 \in 1..Len(r)
    BY <1>6, <1>7, <1>9
  <2>2. p[j] = r[j - 2] /\ j - 2 \in 1..Len(r) /\ i - 2 < j - 2
    BY <2>1, <1>6, <1>9
  <2> QED  BY <2>1, <2>2, <1>9, Zenon DEF Bare
<1>10. ASSUME NEW i \in 1..Len(p), NEW j \in 1..Len(p), ActsByName(p[i]), p[j].act = "need"
       PROVE  j = 1
  <2>1. p[i] = r[i - 2] /\ i - 2 \in 1..Len(r)
    BY <1>6, <1>7, <1>10
  <2>2. p[j] = r[j - 2] /\ j - 2 \in 1..Len(r)
    BY <1>6, <1>7, <1>10
  <2> QED  BY <2>1, <2>2, <1>10, Zenon DEF Bare
<1>11. Len(p) >= 2
  BY <1>1, <1>2
<1>12. HandlerOK(p)
  BY <1>2, <1>4, <1>8, <1>9, <1>10, <1>11 DEF HandlerOK
<1>13. ASSUME NEW i \in 1..Len(p)
       PROVE  p[i] \in {a, b} \/ \E j \in 1..Len(r) : p[i] = r[j]
  BY <1>6, Zenon
<1> QED  BY <1>4, <1>5, <1>12, <1>13 DEF p

\* Behind a reload comes its publication, and behind that a bare program.
LEMMA BehindReload ==
  ASSUME NEW t, HandlerOK(t), t # <<>>, t[1].act = "reload"
  PROVE  /\ HandlerOK(Tail(t)) /\ Tail(t) # <<>>
         /\ Head(Tail(t)).act = "publish" /\ Head(Tail(t)).key = t[1].key
         /\ Tail(t)[1] = Head(Tail(t)) /\ StepOK(Head(Tail(t)))
         /\ SubSeq(t, 3, Len(t)) = Tail(Tail(t)) /\ Bare(Tail(Tail(t)))
<1>1. t \in Seq(Steps) /\ Len(t) >= 2 /\ t[2].act = "publish" /\ t[2].key = t[1].key
  BY Zenon DEF HandlerOK
<1>2. /\ Tail(t) \in Seq(Steps) /\ Len(Tail(t)) = Len(t) - 1 /\ Len(t) \in Nat /\ 1 \in 1..Len(t)
      /\ \A i \in 1..(Len(t) - 1) : Tail(t)[i] = t[i + 1] /\ i + 1 \in 1..Len(t)
      /\ Tail(t) = <<>> <=> Len(t) = 1
  BY <1>1, HeadTail
<1> DEFINE u == Tail(t)
<1> HIDE DEF u
<1>3. u # <<>> /\ u[1] = t[2] /\ 1 \in 1..Len(u) /\ u \in Seq(Steps)
  BY <1>1, <1>2 DEF u
<1>4. Head(u) = u[1]
  BY <1>3, HeadTail
<1>5. ASSUME NEW i \in 1..Len(u)
      PROVE  /\ i + 1 \in 1..Len(t) /\ u[i] = t[i + 1] /\ i + 1 # 1 /\ 1 < i + 1
             /\ i + 1 = 2 <=> i = 1
  BY <1>2 DEF u
<1>6. ASSUME NEW i \in 1..Len(u) PROVE StepOK(u[i]) /\ (StoresOwn(u[i]) => i = 1)
  BY <1>5, Zenon DEF HandlerOK
<1>7. ASSUME NEW i \in 1..Len(u), NEW j \in 1..Len(u), i < j, WritesRow(u[i])
      PROVE  Harmless(u[j])
  <2>1. i + 1 < j + 1
    BY <1>2, <1>7
  <2> QED  BY <2>1, <1>5, <1>7, ZenonT(90) DEF HandlerOK
<1>8. ASSUME NEW i \in 1..Len(u), NEW j \in 1..Len(u), ActsByName(u[i]), u[j].act = "need"
      PROVE  j = 1
  BY <1>5, <1>8, Zenon DEF HandlerOK
<1>9. u[1].act # "reload"
  BY <1>1, <1>3
<1>10. HandlerOK(u)
  BY <1>3, <1>6, <1>7, <1>8, <1>9 DEF HandlerOK
<1>11. Bare(Tail(u))
  BY <1>3, <1>9, <1>10, RestIsBare
<1>12. SubSeq(t, 3, Len(t)) = Tail(u)
  <2>1. Tail(u) \in Seq(Steps) /\ Len(Tail(u)) = Len(t) - 2
    BY <1>2, <1>3, HeadTail DEF u
  <2>2. \A i \in 1..(Len(t) - 2) : Tail(u)[i] = t[i + 2]
    <3>1. \A i \in 1..(Len(u) - 1) : Tail(u)[i] = u[i + 1] /\ i + 1 \in 1..Len(u)
      BY <1>3, HeadTail
    <3>2. Len(u) = Len(t) - 1
      BY <1>2 DEF u
    <3> SUFFICES ASSUME NEW i \in 1..(Len(t) - 2) PROVE Tail(u)[i] = t[i + 2]
      OBVIOUS
    <3>3. i \in 1..(Len(u) - 1) /\ (i + 1) + 1 = i + 2
      BY <3>2, <1>2
    <3>4. u[i + 1] = t[(i + 1) + 1]
      BY <3>1, <3>3, <1>5, Zenon
    <3> QED  BY <3>1, <3>3, <3>4
  <2> DEFINE w == SubSeq(t, 3, Len(t))
  <2>3. w \in Seq(Steps) /\ Len(w) = Len(t) - 2 /\ \A i \in 1..(Len(t) - 2) : w[i] = t[i + 2]
    BY <1>1, <1>2
  <2> HIDE DEF w
  <2>4. w = Tail(u)
    BY <2>1, <2>2, <2>3, SeqEqual
  <2> QED  BY <2>4 DEF w
<1>13. StepOK(u[1])
  BY <1>3, <1>6
<1> QED  BY <1>1, <1>3, <1>4, <1>10, <1>11, <1>12, <1>13 DEF u

-----------------------------------------------------------------------------
(* What a store call leaves of a program. *)

\* A connection that is as it was, and one whose next step is the store's own.
Same(d) == conn'[d] = conn[d]
OwnStep(c) == conn[c].todo # <<>> /\ StoresOwn(head(c))

\* What is left of a program: steps of it behind the first one, and steps the
\* store adds for the row of the first one.
Stems(c) ==
  \A i \in 1..Len(conn'[c].todo) :
    \/ \E j \in 2..Len(conn[c].todo) : conn'[c].todo[i] = conn[c].todo[j]
    \/ /\ StoresOwn(conn'[c].todo[i]) /\ conn'[c].todo[i].key = head(c).key
       /\ ActsByName(conn'[c].todo[i]) => ActsByName(head(c))
       /\ Harmless(conn'[c].todo[i]) \/ head(c).act = "snapshot"
Moves(c) == HandlerOK(conn'[c].todo) /\ Stems(c) /\ (OwnStep(c)' => head(c)'.key = head(c).key)

\* The step a client is at.
LEMMA ActiveFacts ==
  ASSUME ResourceInv, NEW c \in Clients, conn[c].todo # <<>>
  PROVE  /\ conn[c] \in Connection /\ HandlerOK(conn[c].todo) /\ conn[c].todo \in Seq(Steps)
         /\ head(c) = conn[c].todo[1] /\ head(c) \in Steps /\ StepOK(head(c))
         /\ 1 \in 1..Len(conn[c].todo) /\ Len(conn[c].todo) \in Nat /\ conn[c].answer = 0
<1>1. conn[c] \in Connection /\ HandlerOK(conn[c].todo)
  BY DEF ResourceInv, ResourceTypeOK, HandlerInv
<1>2. conn[c].todo \in Seq(Steps)
  BY <1>1 DEF HandlerOK
<1>3. /\ head(c) = conn[c].todo[1] /\ head(c) \in Steps /\ 1 \in 1..Len(conn[c].todo)
      /\ Len(conn[c].todo) \in Nat
  BY <1>2, HeadTail DEF head
<1>4. StepOK(head(c))
  BY <1>1, <1>3, Zenon DEF HandlerOK
<1>5. conn[c].answer = 0
  BY DEF ResourceInv, AnswerInv, AnswerOK
<1> QED  BY <1>1, <1>2, <1>3, <1>4, <1>5

\* The steps behind the first are steps of the program.
LEMMA TailStems ==
  ASSUME NEW t \in Seq(Steps), t # <<>>, NEW i \in 1..Len(Tail(t))
  PROVE  \E j \in 2..Len(t) : Tail(t)[i] = t[j]
<1>1. /\ Len(Tail(t)) = Len(t) - 1 /\ Len(t) \in Nat
      /\ \A k \in 1..(Len(t) - 1) : Tail(t)[k] = t[k + 1] /\ k + 1 \in 1..Len(t)
  BY HeadTail
<1>2. i + 1 \in 2..Len(t) /\ Tail(t)[i] = t[i + 1]
  BY <1>1
<1> QED  BY <1>2

LEMMA Popped ==
  ASSUME ResourceInv, NEW c \in Clients, conn[c].todo # <<>>, head(c).act # "reload",
         conn'[c].todo = Tail(conn[c].todo)
  PROVE  Moves(c) /\ ~OwnStep(c)'
<1> DEFINE t == conn[c].todo
<1>1. HandlerOK(t) /\ t \in Seq(Steps) /\ t[1] = head(c)
  BY ActiveFacts
<1>2. Bare(Tail(t))
  BY <1>1, RestIsBare
<1>3. HandlerOK(Tail(t))
  BY <1>2, BareIsOK
<1>4. Stems(c)
  <2>1. \A i \in 1..Len(Tail(t)) : \E j \in 2..Len(t) : Tail(t)[i] = t[j]
    BY <1>1, TailStems
  <2> QED  BY <2>1, Zenon DEF Stems
<1>5. ~OwnStep(c)'
  <2>1. Tail(t) # <<>> => Head(Tail(t)) = Tail(t)[1] /\ 1 \in 1..Len(Tail(t))
    BY <1>2, HeadTail DEF Bare
  <2>2. Tail(t) # <<>> => ~StoresOwn(Head(Tail(t)))
    BY <2>1, <1>2, Zenon DEF Bare
  <2> QED  BY <2>2 DEF OwnStep, head
<1> QED  BY <1>3, <1>4, <1>5 DEF Moves

LEMMA Cleared ==
  ASSUME NEW c \in Clients, conn'[c].todo = <<>>
  PROVE  Moves(c) /\ ~OwnStep(c)'
<1>1. <<>> \in Seq(Steps)
  OBVIOUS
<1>2. HandlerOK(<<>>)
  BY <1>1, NoPlaces DEF HandlerOK
<1>3. Stems(c)
  BY NoPlaces DEF Stems
<1>4. ~OwnStep(c)'
  BY DEF OwnStep
<1> QED  BY <1>2, <1>3, <1>4 DEF Moves

LEMMA Skipped ==
  ASSUME ResourceInv, NEW c \in Clients, conn[c].todo # <<>>, head(c).act = "reload",
         conn'[c].todo = SubSeq(conn[c].todo, 3, Len(conn[c].todo))
  PROVE  Moves(c) /\ ~OwnStep(c)'
<1> DEFINE t == conn[c].todo
           u == Tail(t)
<1>1. HandlerOK(t) /\ t \in Seq(Steps) /\ t[1] = head(c)
  BY ActiveFacts
<1>2. u # <<>> /\ conn'[c].todo = Tail(u) /\ Bare(Tail(u)) /\ u \in Seq(Steps)
  BY <1>1, BehindReload DEF HandlerOK
<1>3. HandlerOK(Tail(u))
  BY <1>2, BareIsOK
<1>4. Stems(c)
  <2>1. SUFFICES ASSUME NEW i \in 1..Len(Tail(u))
                 PROVE  \E j \in 2..Len(t) : Tail(u)[i] = t[j]
    BY <1>2 DEF Stems
  <2>2. PICK j \in 2..Len(u) : Tail(u)[i] = u[j]
    BY <1>2, TailStems
  <2>3. j \in 1..Len(u)
    BY <1>2, LenProperties
  <2> QED  BY <2>2, <2>3, <1>1, TailStems
<1>5. ~OwnStep(c)'
  <2>1. Tail(u) # <<>> => Head(Tail(u)) = Tail(u)[1] /\ 1 \in 1..Len(Tail(u))
    BY <1>2, HeadTail DEF Bare
  <2>2. Tail(u) # <<>> => ~StoresOwn(Head(Tail(u)))
    BY <2>1, <1>2, Zenon DEF Bare
  <2> QED  BY <2>2, <1>2 DEF OwnStep, head
<1> QED  BY <1>2, <1>3, <1>4, <1>5 DEF Moves

LEMMA Reloaded ==
  ASSUME ResourceInv, NEW c \in Clients, conn[c].todo # <<>>, head(c).act = "reload",
         conn'[c].todo = Tail(conn[c].todo)
  PROVE  /\ Moves(c) /\ conn'[c].todo # <<>> /\ head(c)'.act = "publish"
         /\ head(c)'.key = head(c).key
<1> DEFINE t == conn[c].todo
<1>1. HandlerOK(t) /\ t \in Seq(Steps) /\ t[1] = head(c)
  BY ActiveFacts
<1>2. /\ HandlerOK(Tail(t)) /\ Tail(t) # <<>>
      /\ Head(Tail(t)).act = "publish" /\ Head(Tail(t)).key = t[1].key
  BY <1>1, BehindReload
<1>3. Stems(c)
  <2>1. \A i \in 1..Len(Tail(t)) : \E j \in 2..Len(t) : Tail(t)[i] = t[j]
    BY <1>1, TailStems
  <2> QED  BY <2>1, Zenon DEF Stems
<1>4. head(c)' = Head(Tail(t))
  BY DEF head
<1> QED  BY <1>1, <1>2, <1>3, <1>4 DEF Moves

LEMMA Pushed ==
  ASSUME ResourceInv, NEW c \in Clients, conn[c].todo # <<>>, head(c).act # "reload",
         NEW s \in Steps, StepOK(s), s.act \in {"remove", "publish", "finalizers"},
         s.key = head(c).key, WritesRow(s) => WritesRow(head(c)),
         ActsByName(s) => ActsByName(head(c)), Harmless(s) \/ head(c).act = "snapshot",
         conn'[c].todo = <<s>> \o Tail(conn[c].todo)
  PROVE  Moves(c) /\ conn'[c].todo # <<>> /\ head(c)' = s
<1> DEFINE t == conn[c].todo
           r == Tail(t)
<1>1. HandlerOK(t) /\ t \in Seq(Steps) /\ t[1] = head(c)
  BY ActiveFacts
<1>2. /\ Bare(r)
      /\ WritesRow(t[1]) => \A i \in 1..Len(r) : Harmless(r[i])
      /\ ActsByName(t[1]) => \A i \in 1..Len(r) : r[i].act # "need"
  BY <1>1, RestIsBare
<1>3. s.act \notin {"reload", "need"} /\ StoresOwn(s)
  BY DEF StoresOwn
<1>4. /\ HandlerOK(<<s>> \o r) /\ Head(<<s>> \o r) = s /\ <<s>> \o r # <<>>
      /\ \A i \in 1..Len(<<s>> \o r) :
           (<<s>> \o r)[i] = s \/ \E j \in 1..Len(r) : (<<s>> \o r)[i] = r[j]
  <2>1. /\ WritesRow(s) => \A i \in 1..Len(r) : Harmless(r[i])
        /\ ActsByName(s) => \A i \in 1..Len(r) : r[i].act # "need"
    BY <1>1, <1>2, Zenon
  <2> HIDE DEF r
  <2> QED  BY <2>1, <1>2, <1>3, StoreStepInFront
<1>5. Stems(c)
  <2>1. \A j \in 1..Len(r) : \E k \in 2..Len(t) : r[j] = t[k]
    BY <1>1, TailStems
  <2> HIDE DEF r
  <2>2. conn'[c].todo = <<s>> \o r
    BY DEF r
  <2> QED  BY <2>1, <2>2, <1>3, <1>4, ZenonT(90) DEF Stems
<1>6. head(c)' = s
  BY <1>4 DEF head
<1> QED  BY <1>4, <1>5, <1>6 DEF Moves

LEMMA PushedReload ==
  ASSUME ResourceInv, NEW c \in Clients, conn[c].todo # <<>>, head(c).act # "reload",
         NEW a \in Steps, NEW b \in Steps, StepOK(a), StepOK(b), a.act = "reload",
         b.act = "publish", a.key = head(c).key, b.key = head(c).key,
         conn'[c].todo = <<a, b>> \o Tail(conn[c].todo)
  PROVE  Moves(c) /\ conn'[c].todo # <<>> /\ head(c)' = a
<1> DEFINE t == conn[c].todo
           r == Tail(t)
           p == <<a, b>> \o r
<1>1. HandlerOK(t) /\ t \in Seq(Steps) /\ t[1] = head(c)
  BY ActiveFacts
<1>2. Bare(r)
  BY <1>1, RestIsBare
<1>3. /\ HandlerOK(p) /\ Head(p) = a /\ p # <<>>
      /\ \A i \in 1..Len(p) : p[i] \in {a, b} \/ \E j \in 1..Len(r) : p[i] = r[j]
  <2> HIDE DEF r
  <2> QED  BY <1>2, ReloadInFront
<1>4. \A s \in {a, b} : StoresOwn(s) /\ s.key = head(c).key /\ ~ActsByName(s) /\ Harmless(s)
  BY DEF StoresOwn, ActsByName, Harmless
<1>5. Stems(c)
  <2>1. \A j \in 1..Len(r) : \E k \in 2..Len(t) : r[j] = t[k]
    BY <1>1, TailStems
  <2>2. conn'[c].todo = p
    OBVIOUS
  <2> HIDE DEF r, p
  <2> QED  BY <2>1, <2>2, <1>3, <1>4, Zenon DEF Stems
<1>6. head(c)' = a
  BY <1>3 DEF head
<1> QED  BY <1>3, <1>5, <1>6 DEF Moves

-----------------------------------------------------------------------------
(* What every part of the invariant asks of a step. *)

\* A request that goes on keeps its answer invariant.
LEMMA AnswerKeeps ==
  ASSUME ResourceInv, NEW c \in Clients, conn[c].todo # <<>>, Moves(c),
         conn'[c].wrote => conn[c].wrote \/ (WritesRow(head(c)) /\ head(c).act # "snapshot"),
         conn'[c].answer = conn[c].answer \/ conn'[c].todo = <<>>,
         conn'[c].answer >= 400 /\ conn'[c].wrote => conn'[c].gone
  PROVE  AnswerOK(c)'
<1> DEFINE t == conn[c].todo
<1>1. HandlerOK(t) /\ t[1] = head(c) /\ 1 \in 1..Len(t) /\ Len(t) \in Nat /\ StepOK(head(c))
  BY ActiveFacts
<1>2. AnswerOK(c) /\ conn[c].answer = 0
  BY ActiveFacts DEF ResourceInv, AnswerInv
<1>3. ASSUME conn'[c].wrote, NEW i \in 1..Len(conn'[c].todo)
      PROVE  Harmless(conn'[c].todo[i])
  <2>1. CASE \E j \in 2..Len(t) : conn'[c].todo[i] = t[j]
    <3>1. PICK j \in 2..Len(t) : conn'[c].todo[i] = t[j]
      BY <2>1
    <3>2. j \in 1..Len(t) /\ 1 < j
      BY <1>1
    <3>3. CASE conn[c].wrote
      BY <3>1, <3>2, <3>3, <1>2, Zenon DEF AnswerOK
    <3>4. CASE WritesRow(head(c))
      BY <3>1, <3>2, <3>4, <1>1, Zenon DEF HandlerOK
    <3> QED  BY <3>3, <3>4, <1>3
  <2>2. CASE head(c).act = "snapshot"
    <3>1. Harmless(head(c))
      BY <2>2, <1>1, <1>2, <1>3, Zenon DEF AnswerOK
    <3> QED  BY <3>1, <2>2, <1>1 DEF Harmless, StepOK
  <2> QED  BY <2>1, <2>2, Zenon DEF Moves, Stems
<1>4. conn'[c].answer # 0 => conn'[c].todo = <<>>
  BY <1>2
<1> QED  BY <1>3, <1>4 DEF AnswerOK

\* How rows may change under the requests that have looked them up.
RowStep(k) ==
  \/ /\ rows'[k].uid = rows[k].uid
     /\ rows'[k].owner = rows[k].owner \/ rows[k].uid \in adopted'
  \/ rows'[k].uid = 0
  \/ rows'[k].uid = uids + 1 /\ uids' = uids + 1
RowSteps == adopted \subseteq adopted' /\ uids' \in Nat /\ uids' >= uids /\ \A k \in Keys : RowStep(k)

LEMMA VouchedKeeps ==
  ASSUME ResourceInv, RowSteps, NEW c \in Clients, NEW k \in Keys, Vouched(c, k),
         conn'[c].checked = conn[c].checked, conn'[c].req = conn[c].req
  PROVE  Vouched(c, k)'
<1>1. conn[c].checked \in Nat /\ uids \in Nat /\ rows[k].uid \in Nat
  BY DEF ResourceInv, ResourceTypeOK, Connection, Rows
<1>2. conn[c].checked <= uids
  BY DEF ResourceInv, OwnerInv
<1>3. conn[c].checked # uids + 1
  BY <1>1, <1>2
<1>4. RowStep(k) /\ adopted \subseteq adopted'
  BY DEF RowSteps
<1> QED  BY <1>3, <1>4 DEF Vouched, RowStep

LEMMA LookedUpSame ==
  ASSUME ResourceInv, RowSteps, NEW d \in Clients, Same(d)
  PROVE  LookedUpOK(d)'
<1> DEFINE t == conn[d].todo
<1>1. SUFFICES ASSUME NEW i \in 1..Len(t), ActsByName(t[i]), NEW k \in Keys, k = t[i].key
               PROVE  IF t[1].act = "need" THEN t[1].how = "owned" /\ t[1].key = k
                      ELSE Vouched(d, k)'
  <2>1. HandlerOK(t)
    BY DEF ResourceInv, HandlerInv
  <2>2. \A i \in 1..Len(t) : ActsByName(t[i]) => t[i].key \in Keys
    BY <2>1 DEF HandlerOK, StepOK, ActsByName
  <2> QED  BY <2>2 DEF LookedUpOK, Same, Vouched
<1>2. LookedUpOK(d)
  BY DEF ResourceInv, OwnerInv
<1>3. CASE t[1].act = "need"
  BY <1>1, <1>2, <1>3 DEF LookedUpOK
<1>4. CASE t[1].act # "need"
  <2>1. Vouched(d, k)
    BY <1>1, <1>2, <1>4 DEF LookedUpOK
  <2>2. conn'[d].checked = conn[d].checked /\ conn'[d].req = conn[d].req
    BY DEF Same
  <2> QED  BY <1>4, <2>1, <2>2, VouchedKeeps
<1> QED  BY <1>3, <1>4

LEMMA LookedUpKeeps ==
  ASSUME ResourceInv, RowSteps, NEW c \in Clients, conn[c].todo # <<>>, Moves(c),
         head(c).act # "need", conn'[c].checked = conn[c].checked, conn'[c].req = conn[c].req
  PROVE  LookedUpOK(c)'
<1> DEFINE t == conn[c].todo
<1>1. HandlerOK(t) /\ t[1] = head(c) /\ 1 \in 1..Len(t) /\ Len(t) \in Nat
  BY ActiveFacts
<1>2. LookedUpOK(c)
  BY DEF ResourceInv, OwnerInv
<1>3. PICK p : p = conn'[c].todo
  OBVIOUS
<1>4. SUFFICES ASSUME NEW i \in 1..Len(p), ActsByName(p[i]), NEW k \in Keys, k = p[i].key
               PROVE  p[1].act # "need" /\ Vouched(c, k)'
  <2>1. HandlerOK(p)
    BY <1>3 DEF Moves
  <2>2. \A i \in 1..Len(p) : ActsByName(p[i]) => p[i].key \in Keys
    BY <2>1 DEF HandlerOK, StepOK, ActsByName
  <2> QED  BY <2>2, <1>3 DEF LookedUpOK, Vouched
<1>5. PICK j \in 1..Len(t) : ActsByName(t[j]) /\ t[j].key = k
  <2>1. CASE \E m \in 2..Len(t) : p[i] = t[m]
    <3>1. PICK m \in 2..Len(t) : p[i] = t[m]
      BY <2>1
    <3>2. m \in 1..Len(t)
      BY <1>1
    <3> QED  BY <3>1, <3>2, <1>4
  <2>2. CASE ActsByName(head(c)) /\ p[i].key = head(c).key
    BY <2>2, <1>1, <1>4
  <2> QED  BY <2>1, <2>2, <1>3, <1>4, Zenon DEF Moves, Stems
<1>6. Vouched(c, k)
  BY <1>1, <1>2, <1>5 DEF LookedUpOK
<1>7. Vouched(c, k)'
  BY <1>6, VouchedKeeps
<1>8. p[1].act # "need"
  <2>1. SUFFICES ASSUME p[1].act = "need" PROVE FALSE
    OBVIOUS
  <2>2. HandlerOK(p)
    BY <1>3 DEF Moves
  <2>3. 1 \in 1..Len(p)
    BY <2>2, LenProperties DEF HandlerOK
  <2>4. PICK m \in 2..Len(t) : p[1] = t[m]
    BY <2>1, <2>3, <1>3 DEF Moves, Stems, StoresOwn
  <2>5. m \in 1..Len(t) /\ m # 1
    BY <1>1
  <2> QED  BY <2>1, <2>4, <2>5, <1>1, <1>5, Zenon DEF HandlerOK
<1> QED  BY <1>7, <1>8

\* One whose announcement of a row nothing disturbs.
LEMMA KeyKeeps ==
  ASSUME NEW c \in Clients, NEW k \in Keys, KeyOK(k), \A d \in Clients : d # c => Same(d),
         rows'[k].uid = rows[k].uid, Announced(rows'[k]) = Announced(rows[k]),
         lastSeen'[k] = lastSeen[k], ~Announces(c, k), ~Announces(c, k)',
         OnKey(c, "remove", k)' /\ conn'[c].event.uid = 0 => ~Exists(k)
  PROVE  KeyOK(k)'
<1>1. Exists(k)' = Exists(k)
  BY DEF Exists
<1>2. SeenAsIs(k) => SeenAsIs(k)'
  BY <1>1 DEF SeenAsIs, Exists, Announced
<1>3. ASSUME NEW d \in Clients, d # c
      PROVE  /\ OnKey(d, "publish", k)' <=> OnKey(d, "publish", k)
             /\ OnKey(d, "reload", k)' <=> OnKey(d, "reload", k)
             /\ OnKey(d, "remove", k)' <=> OnKey(d, "remove", k)
             /\ Announces(d, k)' <=> Announces(d, k)
             /\ HoldsAsIs(d, k) => HoldsAsIs(d, k)'
             /\ conn'[d].event = conn[d].event
  <2>1. conn'[d] = conn[d]
    BY <1>3 DEF Same
  <2> QED  BY <2>1, <1>1 DEF OnKey, AtStep, head, Announces, HoldsAsIs, Exists, Announced
<1>4. \A d, e \in Clients : Announces(d, k)' /\ Announces(e, k)' => d = e
  BY <1>3, Zenon DEF KeyOK
<1>5. (\A d \in Clients : ~Announces(d, k)') => SeenAsIs(k)'
  BY <1>2, <1>3, Zenon DEF KeyOK
<1>6. ASSUME NEW d \in Clients
      PROVE  /\ OnKey(d, "publish", k)' => HoldsAsIs(d, k)'
             /\ OnKey(d, "reload", k)' => Exists(k)'
             /\ OnKey(d, "remove", k)' /\ conn'[d].event.uid = 0 => ~Exists(k)'
  <2>1. CASE d = c
    BY <2>1, <1>1 DEF Announces
  <2>2. CASE d # c
    BY <2>2, <1>1, <1>3 DEF KeyOK
  <2> QED  BY <2>1, <2>2
<1> QED  BY <1>4, <1>5, <1>6 DEF KeyOK

\* A step leaves the keys alone that its client is not at.
LEMMA ElsewhereKeeps ==
  ASSUME NEW c \in Clients, NEW k \in Keys, KeyOK(k), \A d \in Clients : d # c => Same(d),
         rows'[k] = rows[k], lastSeen'[k] = lastSeen[k],
         OwnStep(c) => head(c).key # k, OwnStep(c)' => head(c)'.key # k
  PROVE  KeyOK(k)'
<1>1. ~Announces(c, k) /\ ~Announces(c, k)' /\ ~OnKey(c, "remove", k)'
  BY DEF Announces, OnKey, AtStep, OwnStep, StoresOwn, head
<1> QED  BY <1>1, KeyKeeps

LEMMA ClientStep ==
  ASSUME ResourceInv, NEW c \in Clients, ResourceTypeOK', RowSteps,
         \A d \in Clients : d # c => Same(d), HandlerOK(conn'[c].todo), AnswerOK(c)',
         LookedUpOK(c)', conn'[c].checked <= uids', EventInvariant'
  PROVE  ResourceInv'
<1>1. HandlerInv'
  BY DEF ResourceInv, HandlerInv, Same
<1>2. AnswerInv'
  BY DEF ResourceInv, AnswerInv, AnswerOK, Same
<1>3. ASSUME NEW k \in Keys PROVE rows'[k].uid <= uids'
  <2>1. rows[k].uid \in Nat /\ uids \in Nat /\ uids' \in Nat /\ rows[k].uid <= uids /\ uids' >= uids
    BY DEF ResourceInv, ResourceTypeOK, Rows, OwnerInv, RowSteps
  <2>2. RowStep(k)
    BY DEF RowSteps
  <2> QED  BY <2>1, <2>2 DEF RowStep
<1>4. ASSUME NEW d \in Clients PROVE conn'[d].checked <= uids' /\ LookedUpOK(d)'
  <2>1. CASE d = c
    BY <2>1
  <2>2. CASE d # c
    <3>1. /\ conn[d].checked \in Nat /\ uids \in Nat /\ uids' \in Nat /\ uids' >= uids
          /\ conn[d].checked <= uids
      BY DEF ResourceInv, ResourceTypeOK, Connection, OwnerInv, RowSteps
    <3>2. conn'[d] = conn[d]
      BY <2>2 DEF Same
    <3>3. conn'[d].checked <= uids'
      BY <3>1, <3>2
    <3> QED  BY <2>2, <3>3, LookedUpSame
  <2> QED  BY <2>1, <2>2
<1>5. OwnerInv'
  BY <1>3, <1>4 DEF OwnerInv
<1> QED  BY <1>1, <1>2, <1>5 DEF ResourceInv

\* A step of a client that has nothing to announce, before it or after it.
LEMMA EventCalm ==
  ASSUME ResourceInv, NEW c \in Clients, \A d \in Clients : d # c => Same(d),
         overlap' = overlap, lastSeen' = lastSeen,
         \A k \in Keys : rows'[k].uid = rows[k].uid /\ Announced(rows'[k]) = Announced(rows[k]),
         conn[c].todo # <<>> => head(c).act \notin {"reload", "publish"},
         conn'[c].todo # <<>> => head(c)'.act \notin {"remove", "reload", "publish"}
  PROVE  EventInvariant'
<1>1. SUFFICES ASSUME NEW k \in Keys, k \notin overlap PROVE KeyOK(k)'
  BY DEF EventInvariant
<1>2. KeyOK(k)
  BY <1>1 DEF ResourceInv, EventInvariant
<1>3. ~Announces(c, k) /\ ~Announces(c, k)' /\ ~OnKey(c, "remove", k)'
  BY DEF Announces, OnKey, AtStep, head
<1>4. lastSeen'[k] = lastSeen[k]
  OBVIOUS
<1> QED  BY <1>2, <1>3, <1>4, KeyKeeps

\* A client that may announce a row is one of its unpublished ones.
LEMMA OnKeyIsUnpublished ==
  ASSUME ResourceInv, NEW d \in Clients, NEW k, d \notin Unpublished(k)
  PROVE  ~Announces(d, k) /\ ~OnKey(d, "remove", k)
<1>1. SUFFICES ASSUME conn[d].todo # <<>>, head(d).act \in {"remove", "reload", "publish"},
                      head(d).key = k
               PROVE  FALSE
  BY DEF Announces, OnKey, AtStep, head
<1>2. head(d) = conn[d].todo[1] /\ 1 \in 1..Len(conn[d].todo)
  BY <1>1, ActiveFacts
<1> QED  BY <1>1, <1>2, Zenon DEF Unpublished

\* The other clients have nothing to announce of a row after the step.
LEMMA OthersSilent ==
  ASSUME ResourceInv, NEW c \in Clients, NEW k, Unpublished(k) \ {c} = {},
         \A d \in Clients : d # c => Same(d)
  PROVE  \A d \in Clients : d # c => ~Announces(d, k)' /\ ~OnKey(d, "remove", k)'
<1>1. SUFFICES ASSUME NEW d \in Clients, d # c
               PROVE  ~Announces(d, k)' /\ ~OnKey(d, "remove", k)'
  OBVIOUS
<1>2. d \notin Unpublished(k)
  BY <1>1
<1>3. ~Announces(d, k) /\ ~OnKey(d, "remove", k)
  BY <1>2, OnKeyIsUnpublished
<1>4. conn'[d] = conn[d]
  BY <1>1 DEF Same
<1> QED  BY <1>3, <1>4 DEF Announces, OnKey, AtStep, head

-----------------------------------------------------------------------------
(* How connections change. *)

LEMMA EmptyInFront ==
  ASSUME NEW r \in Seq(Steps)
  PROVE  <<>> \o r = r
BY ConcatEmptySeq

LEMMA ProceedFacts ==
  ASSUME ResourceInv, NEW c \in Clients, conn[c].todo # <<>>, NEW new \in Connection,
         new.todo = conn[c].todo, NEW more \in Seq(Steps), Proceed(c, new, more)
  PROVE  /\ conn' \in [Clients -> Connection] /\ \A d \in Clients : d # c => Same(d)
         /\ conn'[c].todo = more \o Tail(conn[c].todo)
         /\ more = <<>> => conn'[c].todo = Tail(conn[c].todo)
         /\ conn'[c].req = new.req /\ conn'[c].read = new.read /\ conn'[c].checked = new.checked
         /\ conn'[c].event = new.event /\ conn'[c].wrote = new.wrote /\ conn'[c].gone = new.gone
         /\ conn'[c].answer = new.answer
<1>1. conn \in [Clients -> Connection] /\ conn[c].todo \in Seq(Steps)
  BY ActiveFacts DEF ResourceInv, ResourceTypeOK
<1>2. Tail(conn[c].todo) \in Seq(Steps)
  BY <1>1, HeadTail
<1> DEFINE w == more \o Tail(conn[c].todo)
<1>3. w \in Seq(Steps)
  BY <1>2, ConcatProperties
<1>4. more = <<>> => w = Tail(conn[c].todo)
  BY <1>2, EmptyInFront
<1>5. conn' = [conn EXCEPT ![c] = [new EXCEPT !.todo = w]]
  BY DEF Proceed
<1> HIDE DEF w
<1>6. [new EXCEPT !.todo = w] \in Connection
  BY <1>3 DEF Connection
<1>7. conn' \in [Clients -> Connection] /\ \A d \in Clients : d # c => Same(d)
  BY <1>1, <1>5, <1>6 DEF Same
<1>8. conn'[c] = [new EXCEPT !.todo = w]
  BY <1>1, <1>5
<1>9. /\ conn'[c].todo = w
      /\ conn'[c].req = new.req /\ conn'[c].read = new.read /\ conn'[c].checked = new.checked
      /\ conn'[c].event = new.event /\ conn'[c].wrote = new.wrote /\ conn'[c].gone = new.gone
      /\ conn'[c].answer = new.answer
  BY <1>8 DEF Connection
<1> QED  BY <1>4, <1>7, <1>9 DEF w

\* A failed call of a step that is not the store's own.
LEMMA FailedFacts ==
  ASSUME ResourceInv, NEW c \in Clients, conn[c].todo # <<>>,
         head(c).act \notin {"reload", "publish"}, Failed(c)
  PROVE  /\ conn' \in [Clients -> Connection] /\ \A d \in Clients : d # c => Same(d)
         /\ Moves(c) /\ ~OwnStep(c)' /\ AnswerOK(c)'
         /\ conn'[c].todo = Tail(conn[c].todo) \/ conn'[c].todo = <<>>
         /\ head(c).code # 0 => conn'[c].todo = <<>>
         /\ conn'[c].req = conn[c].req /\ conn'[c].checked = conn[c].checked
<1>1. conn \in [Clients -> Connection] /\ conn[c].todo \in Seq(Steps) /\ conn[c] \in Connection
  BY ActiveFacts DEF ResourceInv, ResourceTypeOK
<1>2. Tail(conn[c].todo) \in Seq(Steps) /\ <<>> \in Seq(Steps)
  BY <1>1, HeadTail
<1>3. head(c).code \in Nat /\ head(c) \in Steps
  BY ActiveFacts DEF Steps
<1> DEFINE n == IF head(c).code = 0 THEN [conn[c] EXCEPT !.todo = Tail(@)]
                ELSE [conn[c] EXCEPT !.todo = <<>>, !.answer = head(c).code]
<1>4. conn' = [conn EXCEPT ![c] = n]
  BY DEF Failed
<1>5. n \in Connection
  BY <1>1, <1>2, <1>3 DEF Connection
<1>6. /\ n.todo = IF head(c).code = 0 THEN Tail(conn[c].todo) ELSE <<>>
      /\ n.answer = IF head(c).code = 0 THEN conn[c].answer ELSE head(c).code
      /\ n.req = conn[c].req /\ n.checked = conn[c].checked /\ n.wrote = conn[c].wrote
      /\ n.gone = conn[c].gone
  BY <1>1 DEF Connection
<1> HIDE DEF n
<1>7. conn'[c] = n /\ conn' \in [Clients -> Connection] /\ \A d \in Clients : d # c => Same(d)
  BY <1>1, <1>4, <1>5 DEF Same
<1>8. Moves(c) /\ ~OwnStep(c)'
  BY <1>6, <1>7, Popped, Cleared
<1>9. AnswerOK(c)'
  <2>1. conn[c].answer = 0 /\ AnswerOK(c) /\ head(c) = conn[c].todo[1] /\ 1 \in 1..Len(conn[c].todo)
    BY ActiveFacts DEF ResourceInv, AnswerInv
  <2>2. conn[c].wrote => head(c).code = 0
    BY <2>1 DEF AnswerOK, Harmless
  <2> QED  BY <2>1, <2>2, <1>6, <1>7, <1>8, AnswerKeeps
<1> QED  BY <1>6, <1>7, <1>8, <1>9

-----------------------------------------------------------------------------
(* Steps that leave the rows alone. *)

\* The variables of the rows' state.
StoreKept ==
  /\ rows' = rows /\ lastSeen' = lastSeen /\ overlap' = overlap /\ uids' = uids
  /\ adopted' = adopted /\ served' = served

LEMMA StoreKeptFacts ==
  ASSUME ResourceInv, StoreKept, conn' \in [Clients -> Connection], secrets' \subseteq Tenants
  PROVE  /\ ResourceTypeOK' /\ RowSteps
         /\ \A k \in Keys : rows'[k].uid = rows[k].uid /\ Announced(rows'[k]) = Announced(rows[k])
<1>1. ResourceTypeOK'
  BY DEF ResourceInv, ResourceTypeOK, StoreKept
<1>2. RowSteps
  BY DEF RowSteps, RowStep, StoreKept, ResourceInv, ResourceTypeOK
<1> QED  BY <1>1, <1>2 DEF StoreKept

\* A client's request goes on, and nothing else happens.
LEMMA GoesOn ==
  ASSUME ResourceInv, StoreKept, secrets' \subseteq Tenants, NEW c \in Clients,
         conn' \in [Clients -> Connection], \A d \in Clients : d # c => Same(d), Moves(c),
         AnswerOK(c)', LookedUpOK(c)', conn'[c].checked <= uids,
         conn[c].todo # <<>> => head(c).act \notin {"reload", "publish"},
         conn'[c].todo # <<>> => head(c)'.act \notin {"remove", "reload", "publish"}
  PROVE  ResourceInv'
<1>1. /\ ResourceTypeOK' /\ RowSteps
      /\ \A k \in Keys : rows'[k].uid = rows[k].uid /\ Announced(rows'[k]) = Announced(rows[k])
  BY StoreKeptFacts
<1>2. overlap' = overlap /\ lastSeen' = lastSeen /\ uids' = uids
  BY DEF StoreKept
<1>3. EventInvariant'
  BY <1>1, <1>2, EventCalm
<1>4. HandlerOK(conn'[c].todo)
  BY DEF Moves
<1> QED  BY <1>1, <1>2, <1>3, <1>4, ClientStep

LEMMA NotOwn ==
  ASSUME NEW c \in Clients, ~OwnStep(c)'
  PROVE  conn'[c].todo # <<>> => head(c)'.act \notin {"remove", "reload", "publish"}
BY DEF OwnStep, StoresOwn, head

\* A lookup or another call fails.
LEMMA FailedKeeps ==
  ASSUME ResourceInv, NEW c \in Clients, conn[c].todo # <<>>, StoreKept, secrets' = secrets,
         head(c).act \notin {"reload", "publish"}, Failed(c)
  PROVE  ResourceInv'
<1>1. /\ conn' \in [Clients -> Connection] /\ \A d \in Clients : d # c => Same(d)
      /\ Moves(c) /\ ~OwnStep(c)' /\ AnswerOK(c)'
      /\ head(c).code # 0 => conn'[c].todo = <<>>
      /\ conn'[c].req = conn[c].req /\ conn'[c].checked = conn[c].checked
  BY FailedFacts
<1>2. secrets' \subseteq Tenants
  BY DEF ResourceInv, ResourceTypeOK
<1>3. RowSteps
  BY <1>1, <1>2, StoreKeptFacts
<1>4. LookedUpOK(c)'
  <2>1. CASE head(c).act # "need"
    BY <2>1, <1>1, <1>3, LookedUpKeeps
  <2>2. CASE head(c).act = "need"
    <3>1. head(c).code # 0
      BY <2>2, ActiveFacts DEF StepOK
    <3> QED  BY <3>1, <1>1, NoPlaces DEF LookedUpOK
  <2> QED  BY <2>1, <2>2
<1>5. conn'[c].checked <= uids
  BY <1>1 DEF ResourceInv, OwnerInv
<1>6. conn'[c].todo # <<>> => head(c)'.act \notin {"remove", "reload", "publish"}
  BY <1>1, NotOwn
<1> QED  BY <1>1, <1>2, <1>4, <1>5, <1>6, GoesOn

\* A call succeeds and only the connection knows: the program goes on.
LEMMA ProceedKeeps ==
  ASSUME ResourceInv, NEW c \in Clients, conn[c].todo # <<>>, StoreKept,
         secrets' \subseteq Tenants, head(c).act \notin {"need", "reload", "publish"},
         Proceed(c, conn[c], <<>>)
  PROVE  ResourceInv'
<1>1. conn[c] \in Connection /\ <<>> \in Seq(Steps)
  BY ActiveFacts
<1>2. /\ conn' \in [Clients -> Connection] /\ \A d \in Clients : d # c => Same(d)
      /\ conn'[c].todo = Tail(conn[c].todo)
      /\ conn'[c].req = conn[c].req /\ conn'[c].checked = conn[c].checked
      /\ conn'[c].wrote = conn[c].wrote /\ conn'[c].gone = conn[c].gone
      /\ conn'[c].answer = conn[c].answer
  BY <1>1, ProceedFacts
<1>3. Moves(c) /\ ~OwnStep(c)'
  BY <1>2, Popped
<1>4. RowSteps
  BY <1>2, StoreKeptFacts
<1>5. AnswerOK(c)'
  BY <1>2, <1>3, AnswerKeeps DEF ResourceInv, AnswerInv, AnswerOK
<1>6. LookedUpOK(c)'
  BY <1>2, <1>3, <1>4, LookedUpKeeps
<1>7. conn'[c].checked <= uids
  BY <1>2 DEF ResourceInv, OwnerInv
<1>8. conn'[c].todo # <<>> => head(c)'.act \notin {"remove", "reload", "publish"}
  BY <1>3, NotOwn
<1> QED  BY <1>2, <1>3, <1>5, <1>6, <1>7, <1>8, GoesOn

LEMMA GetResourceKeeps ==
  ASSUME ResourceInv, NEW c \in Clients, GetResource(c)
  PROVE  ResourceInv'
<1> DEFINE k == head(c).key
<1>1. /\ conn[c].todo # <<>> /\ head(c).act = "need" /\ StoreKept /\ secrets' = secrets
      /\ secrets' \subseteq Tenants
  BY DEF GetResource, AtStep, head, StoreKept, ResourceInv, ResourceTypeOK
<1>2. CASE Failed(c)
  BY <1>1, <1>2, FailedKeeps
<1>3. CASE /\ Exists(k) /\ (head(c).how = "owned" => rows[k].owner = conn[c].req.tenant)
           /\ Proceed(c, [conn[c] EXCEPT !.read = rows[k], !.checked = rows[k].uid], <<>>)
  <2>1. conn[c] \in Connection /\ <<>> \in Seq(Steps) /\ StepOK(head(c))
    BY <1>1, ActiveFacts
  <2>2. k \in Keys
    BY <1>1, <2>1 DEF StepOK
  <2>3. rows[k] \in Rows /\ rows[k].uid \in Nat /\ rows[k].uid <= uids
    BY <2>2 DEF ResourceInv, ResourceTypeOK, Rows, OwnerInv
  <2> DEFINE n == [conn[c] EXCEPT !.read = rows[k], !.checked = rows[k].uid]
  <2>4. /\ n \in Connection /\ n.todo = conn[c].todo /\ n.checked = rows[k].uid
        /\ n.req = conn[c].req /\ n.wrote = conn[c].wrote /\ n.gone = conn[c].gone
        /\ n.answer = conn[c].answer
    BY <2>1, <2>3 DEF Connection
  <2>5. Proceed(c, n, <<>>)
    BY <1>3
  <2> HIDE DEF n
  <2>6. /\ conn' \in [Clients -> Connection] /\ \A d \in Clients : d # c => Same(d)
        /\ conn'[c].todo = Tail(conn[c].todo)
        /\ conn'[c].req = conn[c].req /\ conn'[c].checked = rows[k].uid
        /\ conn'[c].wrote = conn[c].wrote /\ conn'[c].gone = conn[c].gone
        /\ conn'[c].answer = conn[c].answer
    BY <1>1, <2>1, <2>4, <2>5, ProceedFacts
  <2>7. Moves(c) /\ ~OwnStep(c)'
    BY <1>1, <2>6, Popped
  <2>8. AnswerOK(c)'
    BY <1>1, <2>6, <2>7, AnswerKeeps DEF ResourceInv, AnswerInv, AnswerOK
  <2>9. LookedUpOK(c)'
    <3> DEFINE t == conn[c].todo
    <3>1. /\ HandlerOK(t) /\ t \in Seq(Steps) /\ t[1] = head(c) /\ 1 \in 1..Len(t)
          /\ LookedUpOK(c)
      BY <1>1, ActiveFacts DEF ResourceInv, OwnerInv
    <3>2. Bare(Tail(t))
      BY <1>1, <3>1, RestIsBare
    <3>3. ASSUME NEW i \in 1..Len(Tail(t)), ActsByName(Tail(t)[i])
          PROVE  /\ Tail(t)[1].act # "need"
                 /\ Tail(t)[i].key = k /\ rows[k].owner = conn[c].req.tenant
      <4>1. PICK j \in 2..Len(t) : Tail(t)[i] = t[j]
        BY <1>1, <3>1, TailStems
      <4>2. j \in 1..Len(t)
        BY <3>1, LenProperties
      <4>3. t[1].how = "owned" /\ t[1].key = t[j].key
        BY <1>1, <3>1, <3>3, <4>1, <4>2 DEF LookedUpOK
      <4>4. 1 \in 1..Len(Tail(t))
        BY <3>2, LenProperties DEF Bare
      <4>5. Tail(t)[1].act # "need"
        BY <3>2, <3>3, <4>4, Zenon DEF Bare
      <4> QED  BY <1>3, <3>1, <4>1, <4>3, <4>5
    <3>4. rows' = rows /\ rows[k].uid # 0
      BY <1>1, <1>3 DEF StoreKept, Exists
    <3>5. SUFFICES ASSUME NEW i \in 1..Len(Tail(t)), ActsByName(Tail(t)[i])
                   PROVE  /\ Tail(t)[1].act # "need" /\ conn'[c].checked # 0
                          /\ rows'[Tail(t)[i].key].owner = conn'[c].req.tenant
      BY <2>6 DEF LookedUpOK, Vouched
    <3> QED  BY <3>3, <3>4, <3>5, <2>6
  <2>10. conn'[c].checked <= uids
    BY <2>3, <2>6
  <2>11. conn'[c].todo # <<>> => head(c)'.act \notin {"remove", "reload", "publish"}
    BY <2>7, NotOwn
  <2>12. head(c).act \notin {"reload", "publish"}
    BY <1>1
  <2> QED  BY <1>1, <2>6, <2>7, <2>8, <2>9, <2>10, <2>11, <2>12, GoesOn
<1> QED  BY <1>2, <1>3 DEF GetResource

LEMMA CheckFreeKeeps ==
  ASSUME ResourceInv, NEW c \in Clients, CheckFree(c)
  PROVE  ResourceInv'
<1>1. /\ conn[c].todo # <<>> /\ head(c).act = "free" /\ StoreKept /\ secrets' = secrets
      /\ secrets' \subseteq Tenants
  BY DEF CheckFree, AtStep, head, StoreKept, ResourceInv, ResourceTypeOK
<1>2. CASE Failed(c)
  BY <1>1, <1>2, FailedKeeps
<1>3. CASE Proceed(c, conn[c], <<>>)
  BY <1>1, <1>3, ProceedKeeps
<1> QED  BY <1>2, <1>3 DEF CheckFree

LEMMA AnswerStepKeeps ==
  ASSUME ResourceInv, NEW c \in Clients, Answer(c)
  PROVE  ResourceInv'
<1>1. /\ conn[c].todo # <<>> /\ head(c).act = "answer" /\ StoreKept /\ secrets' = secrets
      /\ Failed(c)
  BY DEF Answer, AtStep, head, StoreKept
<1> QED  BY <1>1, FailedKeeps

LEMMA TenantSecretsKeeps ==
  ASSUME ResourceInv, NEW c \in Clients, TenantSecrets(c)
  PROVE  ResourceInv'
<1> DEFINE t == head(c).key[2]
<1>1. /\ conn[c].todo # <<>> /\ head(c).act \in {"save", "drop", "bundle"} /\ StoreKept
      /\ secrets \subseteq Tenants
  BY DEF TenantSecrets, AtStep, head, StoreKept, ResourceInv, ResourceTypeOK
<1>2. t \in Tenants
  <2>1. head(c).key \in {"tenant"} \X Tenants
    BY <1>1, ActiveFacts DEF StepOK
  <2> QED  BY <2>1
<1> HIDE DEF t
<1>3. CASE Failed(c) /\ UNCHANGED secrets
  BY <1>1, <1>3, FailedKeeps
<1>4. CASE Proceed(c, conn[c], <<>>) /\ secrets' \in {secrets \cup {t}, secrets \ {t}, secrets}
  <2>1. secrets' \subseteq Tenants
    BY <1>1, <1>2, <1>4
  <2> QED  BY <1>1, <1>4, <2>1, ProceedKeeps
<1> QED  BY <1>3, <1>4 DEF TenantSecrets, t

-----------------------------------------------------------------------------
(* Steps that write a row. *)

\* One row changes as a row may.
LEMMA OneRow ==
  ASSUME ResourceInv, NEW k \in Keys, NEW row \in Rows, rows' = [rows EXCEPT ![k] = row],
         adopted \subseteq adopted', uids' \in {uids, uids + 1}, RowStep(k)
  PROVE  RowSteps /\ rows' \in [Keys -> Rows] /\ rows'[k] = row
<1>1. rows \in [Keys -> Rows] /\ uids \in Nat
  BY DEF ResourceInv, ResourceTypeOK
<1>2. \A j \in Keys : j # k => rows'[j] = rows[j]
  BY <1>1
<1>3. \A j \in Keys : RowStep(j)
  BY <1>2 DEF RowStep
<1>4. rows' \in [Keys -> Rows] /\ rows'[k] = row
  BY <1>1
<1>5. uids' \in Nat /\ uids' >= uids
  BY <1>1
<1> QED  BY <1>3, <1>4, <1>5 DEF RowSteps

LEMMA KeyLists ==
  ASSUME NEW k \in Keys, NEW verb \in {"ADDED", "MODIFIED", "DELETED"}, NEW code \in Nat
  PROVE  /\ Step("reload", k, verb, code) \in Steps /\ Step("publish", k, verb, code) \in Steps
         /\ StepOK(Step("reload", k, verb, code)) /\ StepOK(Step("publish", k, verb, code))
         /\ Step("reload", k, verb, code).act = "reload"
         /\ Step("publish", k, verb, code).act = "publish"
         /\ Step("reload", k, verb, code).key = k /\ Step("publish", k, verb, code).key = k
         /\ Step("publish", k, verb, code).how = verb
BY DEF Step, Steps, StepOK

\* A write that is to be reloaded and published.
LEMMA MutateKeeps ==
  ASSUME ResourceInv, NEW c \in Clients, conn[c].todo # <<>>,
         head(c).act \in {"create", "update", "status", "delete"},
         NEW k \in Keys, k = head(c).key, NEW row \in Rows, row.uid # 0,
         NEW verb \in {"ADDED", "MODIFIED", "DELETED"}, Mutate(c, k, row, verb),
         lastSeen' = lastSeen, secrets' = secrets, served' = served, RowStep(k),
         adopted \subseteq adopted', adopted' \subseteq Nat, uids' \in {uids, uids + 1}
  PROVE  ResourceInv'
<1> DEFINE a == Step("reload", k, verb, head(c).code)
           b == Step("publish", k, verb, head(c).code)
           n == [conn[c] EXCEPT !.wrote = TRUE]
<1>1. conn[c] \in Connection /\ head(c).code \in Nat /\ conn[c].answer = 0
  BY ActiveFacts DEF Steps
<1>2. /\ a \in Steps /\ b \in Steps /\ StepOK(a) /\ StepOK(b) /\ a.act = "reload"
      /\ b.act = "publish" /\ a.key = k /\ b.key = k
  BY <1>1, KeyLists
<1>3. rows' = [rows EXCEPT ![k] = row] /\ Overlapping(c, k, TRUE) /\ Proceed(c, n, <<a, b>>)
  BY DEF Mutate
<1>4. /\ n \in Connection /\ n.todo = conn[c].todo /\ n.checked = conn[c].checked
      /\ n.req = conn[c].req /\ n.wrote = TRUE /\ n.gone = conn[c].gone
      /\ n.answer = conn[c].answer
  BY <1>1 DEF Connection
<1> HIDE DEF a, b, n
<1>5. <<a, b>> \in Seq(Steps)
  BY <1>2
<1>6. /\ conn' \in [Clients -> Connection] /\ \A d \in Clients : d # c => Same(d)
      /\ conn'[c].todo = <<a, b>> \o Tail(conn[c].todo)
      /\ conn'[c].req = conn[c].req /\ conn'[c].checked = conn[c].checked
      /\ conn'[c].wrote = TRUE /\ conn'[c].gone = conn[c].gone
      /\ conn'[c].answer = conn[c].answer
  BY <1>3, <1>4, <1>5, ProceedFacts
<1>7. Moves(c) /\ conn'[c].todo # <<>> /\ head(c)' = a
  BY <1>2, <1>6, PushedReload
<1>8. RowSteps /\ rows' \in [Keys -> Rows] /\ rows'[k] = row
  BY <1>3, OneRow
<1>9. ResourceTypeOK'
  <2>1. overlap' \subseteq Keys
    BY <1>3 DEF Overlapping, ResourceInv, ResourceTypeOK
  <2>2. uids' \in Nat
    BY <1>8 DEF RowSteps
  <2> QED  BY <1>6, <1>8, <2>1, <2>2 DEF ResourceInv, ResourceTypeOK
<1>10. AnswerOK(c)'
  <2>1. WritesRow(head(c)) /\ head(c).act # "snapshot"
    BY DEF WritesRow
  <2>2. ~(conn'[c].answer >= 400)
    BY <1>1, <1>6
  <2> QED  BY <1>6, <1>7, <2>1, <2>2, AnswerKeeps
<1>11. LookedUpOK(c)'
  BY <1>6, <1>7, <1>8, LookedUpKeeps
<1>12. conn'[c].checked <= uids'
  <2>1. conn[c].checked \in Nat /\ uids \in Nat /\ conn[c].checked <= uids
    BY <1>1 DEF ResourceInv, ResourceTypeOK, OwnerInv, Connection
  <2> QED  BY <2>1, <1>6
<1>13. EventInvariant'
  <2>1. SUFFICES ASSUME NEW j \in Keys, j \notin overlap' PROVE KeyOK(j)'
    BY DEF EventInvariant
  <2>2. CASE j # k
    <3>1. j \notin overlap
      BY <1>3, <2>1, <2>2 DEF Overlapping
    <3>2. KeyOK(j)
      BY <3>1 DEF ResourceInv, EventInvariant
    <3>3. rows'[j] = rows[j] /\ lastSeen'[j] = lastSeen[j]
      BY <1>3, <2>2 DEF ResourceInv, ResourceTypeOK
    <3>4. head(c)'.key # j
      BY <1>2, <1>7, <2>2
    <3> QED  BY <2>2, <3>2, <3>3, <3>4, <1>6, ElsewhereKeeps
  <2>3. CASE j = k
    <3>1. Unpublished(k) \ {c} = {}
      BY <1>3, <2>1, <2>3 DEF Overlapping
    <3>2. \A d \in Clients : d # c => ~Announces(d, k)' /\ ~OnKey(d, "remove", k)'
      BY <3>1, <1>6, OthersSilent
    <3>3. Announces(c, k)' /\ ~OnKey(c, "publish", k)' /\ ~OnKey(c, "remove", k)'
      BY <1>2, <1>7 DEF Announces, OnKey, AtStep, head
    <3>4. Exists(k)'
      BY <1>8 DEF Exists
    <3>5. \A d \in Clients : ~OnKey(d, "publish", k)' /\ ~OnKey(d, "remove", k)'
      BY <3>2, <3>3, Zenon DEF Announces
    <3>6. \A d, e \in Clients : Announces(d, k)' /\ Announces(e, k)' => d = e
      BY <3>2, Zenon
    <3>7. KeyOK(k)'
      BY <3>3, <3>4, <3>5, <3>6 DEF KeyOK
    <3> QED  BY <2>3, <3>7
  <2> QED  BY <2>2, <2>3
<1>14. HandlerOK(conn'[c].todo)
  BY <1>7 DEF Moves
<1> QED  BY <1>6, <1>8, <1>9, <1>10, <1>11, <1>12, <1>13, <1>14, ClientStep

LEMMA SpecFacts ==
  /\ NoSpec \in Specs /\ NoRow \in Rows /\ NoRow.uid = 0
  /\ \A s \in Specs : s.role \in Roles /\ s.count \in 0..2
<1>1. NoSpec \in Specs
  BY DEF NoSpec, Specs, Roles
<1>2. NoRow \in Rows /\ NoRow.uid = 0
  BY <1>1 DEF NoRow, Rows, Roles
<1>3. \A s \in Specs : s.role \in Roles /\ s.count \in 0..2
  BY DEF Specs
<1> QED  BY <1>1, <1>2, <1>3

\* What a request carries.
LEMMA RequestFacts ==
  ASSUME ResourceInv, NEW c \in Clients
  PROVE  /\ conn[c].req.tenant \in Tenants \cup {""} /\ conn[c].req.spec \in Specs
         /\ conn[c].req.spec.role \in Roles /\ conn[c].read \in Rows /\ conn[c].event \in Rows
<1>1. conn[c] \in Connection
  BY DEF ResourceInv, ResourceTypeOK
<1>2. conn[c].req \in ResourceRequest \cup {NoRequest} /\ conn[c].read \in Rows /\ conn[c].event \in Rows
  BY <1>1 DEF Connection
<1>3. conn[c].req.tenant \in Tenants \cup {""} /\ conn[c].req.spec \in Specs
  <2>1. CASE conn[c].req \in ResourceRequest
    BY <2>1 DEF ResourceRequest
  <2>2. CASE conn[c].req = NoRequest
    <3>1. NoRequest.tenant = "" /\ NoRequest.spec = NoSpec
      BY DEF NoRequest
    <3> QED  BY <2>2, <3>1, SpecFacts
  <2> QED  BY <1>2, <2>1, <2>2
<1> QED  BY <1>2, <1>3, SpecFacts

LEMMA NewRowFacts ==
  ASSUME NEW uid \in Nat, NEW owner \in Tenants \cup {""}, NEW role \in Roles,
         NEW spec \in Specs, NEW status \in {"", "forming", "reported", "initializing"}
  PROVE  /\ NewRow(uid, owner, role, spec, status) \in Rows
         /\ NewRow(uid, owner, role, spec, status).uid = uid
BY SpecFacts DEF NewRow, NoRow, Rows

LEMMA CreateResourceKeeps ==
  ASSUME ResourceInv, NEW c \in Clients, CreateResource(c)
  PROVE  ResourceInv'
<1>1. /\ conn[c].todo # <<>> /\ head(c).act = "create" /\ secrets' = secrets
      /\ lastSeen' = lastSeen /\ adopted' = adopted /\ served' = served
  BY DEF CreateResource, AtStep, head
<1>2. CASE Exists(head(c).key)
  <2>1. StoreKept /\ Failed(c)
    BY <1>1, <1>2 DEF CreateResource, StoreKept
  <2> QED  BY <1>1, <2>1, FailedKeeps
<1>3. CASE ~Exists(head(c).key)
  <2>1. StepOK(head(c)) /\ head(c).how \in {"", "forming"} /\ head(c).key \in Keys
    BY <1>1, ActiveFacts DEF StepOK
  <2>2. PICK k \in Keys : k = head(c).key
    BY <2>1
  <2> DEFINE q == conn[c].req
             row == NewRow(uids + 1, q.tenant, q.spec.role, q.spec, head(c).how)
  <2>3. uids \in Nat /\ adopted \subseteq Nat /\ rows \in [Keys -> Rows]
    BY DEF ResourceInv, ResourceTypeOK
  <2>4. q.tenant \in Tenants \cup {""} /\ q.spec \in Specs /\ q.spec.role \in Roles
    BY RequestFacts
  <2>5. row \in Rows /\ row.uid = uids + 1
    <3>1. uids + 1 \in Nat
      BY <2>3
    <3>2. head(c).how \in {"", "forming", "reported", "initializing"}
      BY <2>1
    <3>3. PICK u \in Nat, o \in Tenants \cup {""}, r \in Roles, e \in Specs,
               h \in {"", "forming", "reported", "initializing"} :
            u = uids + 1 /\ o = q.tenant /\ r = q.spec.role /\ e = q.spec /\ h = head(c).how
      BY <3>1, <3>2, <2>4, Zenon
    <3>4. NewRow(u, o, r, e, h) \in Rows /\ NewRow(u, o, r, e, h).uid = u
      BY NewRowFacts
    <3>5. row = NewRow(u, o, r, e, h)
      BY <3>3, Zenon
    <3> QED  BY <3>3, <3>4, <3>5
  <2>6. uids' = uids + 1 /\ Mutate(c, k, row, "ADDED")
    BY <1>3, <2>2 DEF CreateResource
  <2> HIDE DEF row
  <2>7. RowStep(k)
    <3>1. rows'[k] = row
      BY <2>3, <2>6 DEF Mutate
    <3> QED  BY <3>1, <2>5, <2>6 DEF RowStep
  <2>8. row.uid # 0
    BY <2>3, <2>5
  <2> QED  BY <1>1, <2>2, <2>3, <2>5, <2>6, <2>7, <2>8, MutateKeeps
<1> QED  BY <1>2, <1>3

LEMMA UpdatedFacts ==
  ASSUME NEW how \in {"client", "patch", "scale", "save", "toggle"}, NEW read \in Rows, NEW q,
         q.spec \in Specs
  PROVE  UpdatedSpec(how, read, q) \in Specs /\ UpdatedRole(how, read, q) \in Roles
<1>1. /\ read.spec \in Specs /\ read.role \in Roles /\ read.spec.role \in Roles
      /\ q.spec.role \in Roles /\ q.spec.count \in 0..2
  BY SpecFacts DEF Rows
<1>2. UpdatedRole(how, read, q) \in Roles
  BY <1>1 DEF UpdatedRole
<1>3. ASSUME NEW r \in Roles, NEW n \in 0..2, NEW e \in {"on", "off"}
      PROVE  /\ [NoSpec EXCEPT !.role = r, !.count = n] \in Specs
             /\ \A s \in Specs : [s EXCEPT !.enabled = e] \in Specs
  BY DEF NoSpec, Specs
<1>4. CASE how \in {"client", "patch", "save"}
  <2>1. UpdatedSpec(how, read, q) = q.spec
    BY <1>4, SMTT(40) DEF UpdatedSpec
  <2> QED  BY <1>2, <2>1
<1>5. CASE how = "scale"
  <2>1. UpdatedSpec(how, read, q) =
          [NoSpec EXCEPT !.role = read.spec.role, !.count = q.spec.count]
    BY <1>5 DEF UpdatedSpec
  <2> QED  BY <1>1, <1>2, <1>3, <2>1, ZenonT(90)
<1>6. CASE how = "toggle"
  <2> DEFINE e == IF read.spec.enabled = "on" THEN "off" ELSE "on"
  <2>1. UpdatedSpec(how, read, q) = [read.spec EXCEPT !.enabled = e] /\ e \in {"on", "off"}
    BY <1>6 DEF UpdatedSpec
  <2> HIDE DEF e
  <2>2. [read.spec EXCEPT !.enabled = e] \in Specs
    BY <1>1, <2>1 DEF Specs
  <2> QED  BY <1>2, <2>1, <2>2
<1> QED  BY <1>2, <1>4, <1>5, <1>6

LEMMA UpdateResourceKeeps ==
  ASSUME ResourceInv, NEW c \in Clients, UpdateResource(c)
  PROVE  ResourceInv'
<1>1. /\ conn[c].todo # <<>> /\ head(c).act = "update" /\ secrets' = secrets
      /\ lastSeen' = lastSeen /\ uids' = uids /\ served' = served
  BY DEF UpdateResource, AtStep, head
<1>2. CASE Failed(c) /\ UNCHANGED <<rows, overlap, adopted>>
  <2>1. StoreKept
    BY <1>1, <1>2 DEF StoreKept
  <2> QED  BY <1>1, <1>2, <2>1, FailedKeeps
<1>3. CASE Exists(head(c).key) /\ rows[head(c).key].version = ExpectedVersion(c)
  <2>1. /\ head(c).how \in {"client", "patch", "scale", "save", "toggle"} /\ head(c).key \in Keys
    BY <1>1, ActiveFacts DEF StepOK
  <2>2. PICK k \in Keys : k = head(c).key
    BY <2>1
  <2> DEFINE q == conn[c].req
             spec == UpdatedSpec(head(c).how, conn[c].read, q)
             role == UpdatedRole(head(c).how, conn[c].read, q)
             row == [rows[k] EXCEPT !.version = @ + 1, !.spec = spec, !.owner = q.tenant,
                                    !.role = role]
  <2>3. uids \in Nat /\ adopted \subseteq Nat /\ rows \in [Keys -> Rows] /\ rows[k] \in Rows
    BY DEF ResourceInv, ResourceTypeOK
  <2>4. q.tenant \in Tenants \cup {""} /\ spec \in Specs /\ role \in Roles
    BY <2>1, RequestFacts, UpdatedFacts
  <2>5. /\ Mutate(c, k, row, "MODIFIED")
        /\ adopted' = IF rows[k].owner = q.tenant THEN adopted ELSE adopted \cup {rows[k].uid}
    BY <1>3, <2>2 DEF UpdateResource
  <2> HIDE DEF spec, role
  <2>6. row \in Rows /\ row.uid = rows[k].uid /\ row.owner = q.tenant
    <3>0. rows[k].version \in Nat
      BY <2>3 DEF Rows
    <3>1. rows[k].version + 1 \in Nat
      BY <3>0
    <3> HIDE DEF q
    <3> QED  BY <2>3, <2>4, <3>1 DEF Rows
  <2> HIDE DEF row
  <2>7. rows[k].uid \in Nat /\ rows[k].uid # 0
    BY <1>3, <2>2, <2>3 DEF Rows, Exists
  <2>8. adopted \subseteq adopted' /\ adopted' \subseteq Nat
    BY <2>3, <2>5, <2>7
  <2>9. RowStep(k)
    <3>1. rows'[k] = row
      BY <2>3, <2>5 DEF Mutate
    <3>2. rows'[k].owner = rows[k].owner \/ rows[k].uid \in adopted'
      BY <3>1, <2>5, <2>6
    <3> QED  BY <3>1, <3>2, <2>6 DEF RowStep
  <2> QED  BY <1>1, <2>2, <2>5, <2>6, <2>7, <2>8, <2>9, MutateKeeps
<1> QED  BY <1>2, <1>3 DEF UpdateResource

LEMMA UpdateResourceStatusKeeps ==
  ASSUME ResourceInv, NEW c \in Clients, UpdateResourceStatus(c)
  PROVE  ResourceInv'
<1>1. /\ conn[c].todo # <<>> /\ head(c).act = "status" /\ secrets' = secrets
      /\ lastSeen' = lastSeen /\ uids' = uids /\ served' = served /\ adopted' = adopted
  BY DEF UpdateResourceStatus, AtStep, head
<1>2. CASE ~Exists(head(c).key)
  <2>1. StoreKept /\ Failed(c)
    BY <1>1, <1>2 DEF UpdateResourceStatus, StoreKept
  <2> QED  BY <1>1, <2>1, FailedKeeps
<1>3. CASE Exists(head(c).key)
  <2>1. head(c).how = "reported" /\ head(c).key \in Keys
    BY <1>1, ActiveFacts DEF StepOK
  <2>2. PICK k \in Keys : k = head(c).key
    BY <2>1
  <2> DEFINE row == [rows[k] EXCEPT !.status = head(c).how]
  <2>3. uids \in Nat /\ adopted \subseteq Nat /\ rows \in [Keys -> Rows] /\ rows[k] \in Rows
    BY DEF ResourceInv, ResourceTypeOK
  <2>4. Mutate(c, k, row, "MODIFIED")
    BY <1>3, <2>2 DEF UpdateResourceStatus
  <2>5. row \in Rows /\ row.uid = rows[k].uid /\ row.owner = rows[k].owner
    BY <2>1, <2>3 DEF Rows
  <2> HIDE DEF row
  <2>6. row.uid # 0
    BY <1>3, <2>2, <2>5 DEF Exists
  <2>7. RowStep(k)
    <3>1. rows'[k] = row
      BY <2>3, <2>4 DEF Mutate
    <3> QED  BY <3>1, <2>5 DEF RowStep
  <2> QED  BY <1>1, <2>2, <2>3, <2>4, <2>5, <2>6, <2>7, MutateKeeps
<1> QED  BY <1>2, <1>3

LEMMA DeleteResourceKeeps ==
  ASSUME ResourceInv, NEW c \in Clients, DeleteResource(c)
  PROVE  ResourceInv'
<1>1. /\ conn[c].todo # <<>> /\ head(c).act = "delete" /\ secrets' = secrets
      /\ lastSeen' = lastSeen /\ uids' = uids /\ served' = served /\ adopted' = adopted
  BY DEF DeleteResource, AtStep, head
<1>2. CASE Failed(c) /\ UNCHANGED <<rows, overlap>>
  <2>1. StoreKept
    BY <1>1, <1>2 DEF StoreKept
  <2> QED  BY <1>1, <1>2, <2>1, FailedKeeps
<1>3. CASE Exists(head(c).key) /\ ~rows[head(c).key].deleted
  <2>1. head(c).key \in Keys
    BY <1>1, ActiveFacts DEF StepOK
  <2>2. PICK k \in Keys : k = head(c).key
    BY <2>1
  <2> DEFINE row == [rows[k] EXCEPT !.deleted = TRUE]
  <2>3. uids \in Nat /\ adopted \subseteq Nat /\ rows \in [Keys -> Rows] /\ rows[k] \in Rows
    BY DEF ResourceInv, ResourceTypeOK
  <2>4. Mutate(c, k, row, "DELETED")
    BY <1>3, <2>2 DEF DeleteResource
  <2>5. row \in Rows /\ row.uid = rows[k].uid /\ row.owner = rows[k].owner
    BY <2>3 DEF Rows
  <2> HIDE DEF row
  <2>6. row.uid # 0
    BY <1>3, <2>2, <2>5 DEF Exists
  <2>7. RowStep(k)
    <3>1. rows'[k] = row
      BY <2>3, <2>4 DEF Mutate
    <3> QED  BY <3>1, <2>5 DEF RowStep
  <2> QED  BY <1>1, <2>2, <2>3, <2>4, <2>5, <2>6, <2>7, MutateKeeps
<1> QED  BY <1>2, <1>3 DEF DeleteResource

\* The first of the two statements of AddFinalizer found something to write.
LEMMA FinalizerPushes ==
  ASSUME ResourceInv, NEW c \in Clients, conn[c].todo # <<>>, head(c).act = "finalizer",
         StoreKept, secrets' = secrets,
         Proceed(c, [conn[c] EXCEPT !.read = rows[head(c).key]],
                 << Step("finalizers", head(c).key, head(c).how, 0) >>)
  PROVE  ResourceInv'
<1> DEFINE k == head(c).key
           f == head(c).how
           s == Step("finalizers", k, f, 0)
           n == [conn[c] EXCEPT !.read = rows[k]]
<1>1. /\ conn[c] \in Connection /\ k \in Keys /\ f \in {"machines", "secrets", "config", "link"}
      /\ conn[c].answer = 0
  BY ActiveFacts DEF StepOK
<1>2. rows[k] \in Rows /\ secrets \subseteq Tenants
  BY <1>1 DEF ResourceInv, ResourceTypeOK
<1> HIDE DEF k, f
<1>3. s \in Steps /\ StepOK(s) /\ s.act = "finalizers" /\ s.key = k /\ Harmless(s) /\ ~WritesRow(s)
  BY <1>1 DEF Step, Steps, StepOK, Harmless, WritesRow
<1>4. ActsByName(s) => ActsByName(head(c))
  BY <1>3 DEF ActsByName, k
<1>5. /\ n \in Connection /\ n.todo = conn[c].todo /\ n.checked = conn[c].checked
      /\ n.req = conn[c].req /\ n.wrote = conn[c].wrote /\ n.gone = conn[c].gone
      /\ n.answer = conn[c].answer
  BY <1>1, <1>2 DEF Connection
<1>6. Proceed(c, n, <<s>>)
  BY DEF k, f
<1> HIDE DEF n, s
<1>7. <<s>> \in Seq(Steps)
  BY <1>3
<1>8. /\ conn' \in [Clients -> Connection] /\ \A d \in Clients : d # c => Same(d)
      /\ conn'[c].todo = <<s>> \o Tail(conn[c].todo)
      /\ conn'[c].req = conn[c].req /\ conn'[c].checked = conn[c].checked
      /\ conn'[c].wrote = conn[c].wrote /\ conn'[c].gone = conn[c].gone
      /\ conn'[c].answer = conn[c].answer
  BY <1>5, <1>6, <1>7, ProceedFacts
<1>9. Moves(c) /\ conn'[c].todo # <<>> /\ head(c)' = s
  BY <1>3, <1>4, <1>8, Pushed DEF k
<1>10. RowSteps
  BY <1>2, <1>8, StoreKeptFacts
<1>11. ~(conn'[c].answer >= 400)
  BY <1>1, <1>8
<1>12. AnswerOK(c)'
  BY <1>8, <1>9, <1>11, AnswerKeeps
<1>13. LookedUpOK(c)'
  BY <1>8, <1>9, <1>10, LookedUpKeeps
<1>14. conn'[c].checked <= uids
  BY <1>8 DEF ResourceInv, OwnerInv
<1>15. secrets' \subseteq Tenants
  BY <1>2
<1>16. head(c)'.act \notin {"remove", "reload", "publish"}
  BY <1>3, <1>9
<1> QED  BY <1>8, <1>9, <1>12, <1>13, <1>14, <1>15, <1>16, GoesOn

LEMMA AddFinalizerKeeps ==
  ASSUME ResourceInv, NEW c \in Clients, AddFinalizer(c)
  PROVE  ResourceInv'
<1>1. CASE /\ AtStep(c, "finalizer") /\ StoreKept /\ secrets' = secrets
           /\ \/ Proceed(c, conn[c], <<>>)
              \/ Proceed(c, [conn[c] EXCEPT !.read = rows[head(c).key]],
                         << Step("finalizers", head(c).key, head(c).how, 0) >>)
  <2>1. conn[c].todo # <<>> /\ head(c).act = "finalizer" /\ secrets' \subseteq Tenants
    BY <1>1 DEF AtStep, head, ResourceInv, ResourceTypeOK
  <2>2. CASE Proceed(c, conn[c], <<>>)
    BY <1>1, <2>1, <2>2, ProceedKeeps
  <2>3. CASE Proceed(c, [conn[c] EXCEPT !.read = rows[head(c).key]],
                     << Step("finalizers", head(c).key, head(c).how, 0) >>)
    BY <1>1, <2>1, <2>3, FinalizerPushes
  <2> QED  BY <1>1, <2>2, <2>3
<1>2. CASE /\ AtStep(c, "finalizers") /\ Proceed(c, conn[c], <<>>)
           /\ rows' = IF Exists(head(c).key)
                      THEN [rows EXCEPT ![head(c).key].finalizers =
                                            conn[c].read.finalizers \cup {head(c).how}]
                      ELSE rows
           /\ UNCHANGED <<secrets, lastSeen, overlap, uids, adopted, served>>
  <2>1. conn[c].todo # <<>> /\ head(c).act = "finalizers"
    BY <1>2 DEF AtStep, head
  <2>2. head(c).key \in Keys /\ head(c).how \in {"machines", "secrets", "config", "link"}
    BY <2>1, ActiveFacts DEF StepOK
  <2>3. PICK k \in Keys : k = head(c).key
    BY <2>2
  <2>4. conn[c] \in Connection /\ <<>> \in Seq(Steps) /\ conn[c].read \in Rows /\ conn[c].answer = 0
    <3>1. conn[c] \in Connection /\ conn[c].answer = 0
      BY <2>1, ActiveFacts
    <3>2. conn[c].read \in Rows
      BY RequestFacts
    <3> QED  BY <3>1, <3>2
  <2>5. /\ conn' \in [Clients -> Connection] /\ \A d \in Clients : d # c => Same(d)
        /\ conn'[c].todo = Tail(conn[c].todo)
        /\ conn'[c].req = conn[c].req /\ conn'[c].checked = conn[c].checked
        /\ conn'[c].wrote = conn[c].wrote /\ conn'[c].gone = conn[c].gone
        /\ conn'[c].answer = conn[c].answer
    BY <1>2, <2>1, <2>4, ProceedFacts
  <2>6. Moves(c) /\ ~OwnStep(c)'
    BY <2>1, <2>5, Popped
  <2>7. rows \in [Keys -> Rows] /\ rows[k] \in Rows /\ uids \in Nat /\ secrets \subseteq Tenants
    BY DEF ResourceInv, ResourceTypeOK
  <2> DEFINE w == conn[c].read.finalizers \cup {head(c).how}
             row == [rows[k] EXCEPT !.finalizers = w]
  <2>8. w \in SUBSET {"machines", "secrets", "config", "link"}
    BY <2>2, <2>4 DEF Rows
  <2>9. rows' = rows \/ rows' = [rows EXCEPT ![k] = row]
    BY <1>2, <2>3
  <2> HIDE DEF w
  <2>10. /\ row \in Rows /\ row.uid = rows[k].uid /\ row.owner = rows[k].owner
         /\ Announced(row) = Announced(rows[k])
    BY <2>7, <2>8 DEF Rows, Announced
  <2> HIDE DEF row
  <2>11. /\ rows' \in [Keys -> Rows]
         /\ \A j \in Keys : /\ rows'[j].uid = rows[j].uid /\ rows'[j].owner = rows[j].owner
                            /\ Announced(rows'[j]) = Announced(rows[j])
    <3>1. CASE rows' = rows
      BY <3>1, <2>7
    <3>2. CASE rows' = [rows EXCEPT ![k] = row]
      <4>1. \A j \in Keys : rows'[j] = rows[j] \/ (j = k /\ rows'[j] = row)
        BY <3>2, <2>7
      <4>2. rows' \in [Keys -> Rows]
        BY <3>2, <2>7, <2>10
      <4> QED  BY <4>1, <4>2, <2>10
    <3> QED  BY <3>1, <3>2, <2>9
  <2>12. RowSteps
    BY <1>2, <2>7, <2>11 DEF RowSteps, RowStep
  <2>13. ResourceTypeOK'
    BY <1>2, <2>5, <2>11 DEF ResourceInv, ResourceTypeOK
  <2>14. ~(conn'[c].answer >= 400)
    BY <2>4, <2>5
  <2>15. AnswerOK(c)'
    BY <2>1, <2>5, <2>6, <2>14, AnswerKeeps
  <2>16. LookedUpOK(c)'
    BY <2>1, <2>5, <2>6, <2>12, LookedUpKeeps
  <2>17. conn'[c].checked <= uids'
    BY <1>2, <2>5 DEF ResourceInv, OwnerInv
  <2>18. conn'[c].todo # <<>> => head(c)'.act \notin {"remove", "reload", "publish"}
    BY <2>6, NotOwn
  <2>19. EventInvariant'
    <3>1. overlap' = overlap /\ lastSeen' = lastSeen /\ head(c).act \notin {"reload", "publish"}
      BY <1>2, <2>1
    <3> QED  BY <2>5, <2>11, <2>18, <3>1, EventCalm
  <2>20. HandlerOK(conn'[c].todo)
    BY <2>6 DEF Moves
  <2> QED  BY <2>5, <2>12, <2>13, <2>15, <2>16, <2>17, <2>19, <2>20, ClientStep
<1> QED  BY <1>1, <1>2 DEF AddFinalizer, StoreKept

-----------------------------------------------------------------------------
(* Steps that announce a row. *)

\* The two steps that RemoveResource adds.
RemoveStep(k) == Step("remove", k, "", 500)
DeletedStep(k) == Step("publish", k, "DELETED", 500)

LEMMA RemoveLists ==
  ASSUME NEW k \in Keys
  PROVE  /\ RemoveStep(k) \in Steps /\ StepOK(RemoveStep(k)) /\ RemoveStep(k).act = "remove"
         /\ RemoveStep(k).key = k
         /\ DeletedStep(k) \in Steps /\ StepOK(DeletedStep(k)) /\ DeletedStep(k).act = "publish"
         /\ DeletedStep(k).key = k /\ DeletedStep(k).how = "DELETED"
<1>1. 500 \in Nat
  OBVIOUS
<1>2. /\ RemoveStep(k).act = "remove" /\ RemoveStep(k).key = k
      /\ DeletedStep(k).act = "publish" /\ DeletedStep(k).key = k
      /\ DeletedStep(k).how = "DELETED"
  BY Zenon DEF RemoveStep, DeletedStep, Step
<1>3. RemoveStep(k) \in Steps
  BY <1>1, Zenon DEF RemoveStep, Step, Steps
<1>4. DeletedStep(k) \in Steps
  BY <1>1, Zenon DEF DeletedStep, Step, Steps
<1>5. StepOK(RemoveStep(k)) /\ StepOK(DeletedStep(k))
  BY <1>2 DEF StepOK
<1> QED  BY <1>2, <1>3, <1>4, <1>5

LEMMA SnapshotKeeps ==
  ASSUME ResourceInv, NEW c \in Clients, AtStep(c, "snapshot"), StoreKept, secrets' = secrets,
         Proceed(c, [conn[c] EXCEPT !.event = rows[head(c).key]], << RemoveStep(head(c).key) >>)
  PROVE  ResourceInv'
<1>0. conn[c].todo # <<>> /\ head(c).act = "snapshot"
  BY DEF AtStep, head
<1>1. conn[c] \in Connection /\ head(c).key \in Keys /\ conn[c].answer = 0
  BY <1>0, ActiveFacts DEF StepOK
<1>2. PICK k \in Keys : k = head(c).key
  BY <1>1
<1>3. rows[k] \in Rows /\ secrets \subseteq Tenants
  BY DEF ResourceInv, ResourceTypeOK
<1> DEFINE s == RemoveStep(k)
           n == [conn[c] EXCEPT !.event = rows[k]]
<1>4. s \in Steps /\ StepOK(s) /\ s.act = "remove" /\ s.key = k
  BY RemoveLists
<1>5. /\ n \in Connection /\ n.todo = conn[c].todo /\ n.checked = conn[c].checked
      /\ n.req = conn[c].req /\ n.wrote = conn[c].wrote /\ n.gone = conn[c].gone
      /\ n.answer = conn[c].answer /\ n.event = rows[k]
  BY <1>1, <1>3 DEF Connection
<1>6. Proceed(c, n, <<s>>)
  BY <1>2
<1> HIDE DEF n, s
<1>7. (ActsByName(s) => ActsByName(head(c))) /\ WritesRow(head(c)) /\ <<s>> \in Seq(Steps)
  BY <1>0, <1>2, <1>4 DEF ActsByName, WritesRow
<1>8. /\ conn' \in [Clients -> Connection] /\ \A d \in Clients : d # c => Same(d)
      /\ conn'[c].todo = <<s>> \o Tail(conn[c].todo)
      /\ conn'[c].req = conn[c].req /\ conn'[c].checked = conn[c].checked
      /\ conn'[c].wrote = conn[c].wrote /\ conn'[c].gone = conn[c].gone
      /\ conn'[c].answer = conn[c].answer /\ conn'[c].event = rows[k]
  BY <1>0, <1>5, <1>6, <1>7, ProceedFacts
<1>9. Moves(c) /\ conn'[c].todo # <<>> /\ head(c)' = s
  BY <1>0, <1>2, <1>4, <1>7, <1>8, Pushed
<1>10. secrets' \subseteq Tenants
  BY <1>3
<1>11. ResourceTypeOK' /\ RowSteps
  BY <1>8, <1>10, StoreKeptFacts
<1>12. ~(conn'[c].answer >= 400)
  BY <1>1, <1>8
<1>13. AnswerOK(c)'
  BY <1>0, <1>8, <1>9, <1>12, AnswerKeeps
<1>14. LookedUpOK(c)'
  BY <1>0, <1>8, <1>9, <1>11, LookedUpKeeps
<1>15. conn'[c].checked <= uids'
  BY <1>8 DEF ResourceInv, OwnerInv, StoreKept
<1>16. EventInvariant'
  <2>1. SUFFICES ASSUME NEW j \in Keys, j \notin overlap PROVE KeyOK(j)'
    BY DEF EventInvariant, StoreKept
  <2>2. KeyOK(j)
    BY <2>1 DEF ResourceInv, EventInvariant
  <2>3. rows'[j] = rows[j] /\ lastSeen'[j] = lastSeen[j]
    BY DEF StoreKept
  <2>4. ~Announces(c, j) /\ ~Announces(c, j)'
    BY <1>0, <1>4, <1>9 DEF Announces, OnKey, AtStep, head
  <2>5. OnKey(c, "remove", j)' /\ conn'[c].event.uid = 0 => ~Exists(j)
    BY <1>4, <1>8, <1>9 DEF OnKey, head, Exists
  <2> QED  BY <2>2, <2>3, <2>4, <2>5, <1>8, KeyKeeps
<1>17. HandlerOK(conn'[c].todo)
  BY <1>9 DEF Moves
<1> QED  BY <1>8, <1>11, <1>13, <1>14, <1>15, <1>16, <1>17, ClientStep

LEMMA RemoveKeeps ==
  ASSUME ResourceInv, NEW c \in Clients, AtStep(c, "remove"),
         rows' = [rows EXCEPT ![head(c).key] = NoRow],
         Overlapping(c, head(c).key, conn[c].event.uid # 0),
         Proceed(c, [conn[c] EXCEPT !.wrote = TRUE],
                 IF conn[c].event.uid # 0 THEN << DeletedStep(head(c).key) >>
                 ELSE <<>>),
         UNCHANGED <<secrets, lastSeen, uids, adopted, served>>
  PROVE  ResourceInv'
<1>0. conn[c].todo # <<>> /\ head(c).act = "remove"
  BY DEF AtStep, head
<1>1. conn[c] \in Connection /\ head(c).key \in Keys /\ conn[c].answer = 0
  BY <1>0, ActiveFacts DEF StepOK
<1>2. PICK k \in Keys : k = head(c).key
  BY <1>1
<1> DEFINE s == DeletedStep(k)
           n == [conn[c] EXCEPT !.wrote = TRUE]
           more == IF conn[c].event.uid # 0 THEN <<s>> ELSE <<>>
<1>4. s \in Steps /\ StepOK(s) /\ s.act = "publish" /\ s.key = k /\ s.how = "DELETED"
  BY RemoveLists
<1>5. /\ n \in Connection /\ n.todo = conn[c].todo /\ n.checked = conn[c].checked
      /\ n.req = conn[c].req /\ n.gone = conn[c].gone
      /\ n.answer = conn[c].answer /\ n.event = conn[c].event
  BY <1>1 DEF Connection
<1>6. Proceed(c, n, more)
  BY <1>2
<1> HIDE DEF n, s
<1>7. /\ ~ActsByName(s) /\ ~WritesRow(s) /\ Harmless(s) /\ more \in Seq(Steps)
      /\ WritesRow(head(c)) /\ head(c).act # "snapshot"
  BY <1>0, <1>4 DEF ActsByName, WritesRow, Harmless
<1> HIDE DEF more
<1>8. /\ conn' \in [Clients -> Connection] /\ \A d \in Clients : d # c => Same(d)
      /\ conn'[c].todo = more \o Tail(conn[c].todo)
      /\ more = <<>> => conn'[c].todo = Tail(conn[c].todo)
      /\ conn'[c].req = conn[c].req /\ conn'[c].checked = conn[c].checked
      /\ conn'[c].gone = conn[c].gone
      /\ conn'[c].answer = conn[c].answer /\ conn'[c].event = conn[c].event
  BY <1>0, <1>5, <1>6, <1>7, ProceedFacts
<1>9. /\ Moves(c)
      /\ conn[c].event.uid # 0 => conn'[c].todo # <<>> /\ head(c)' = s
      /\ conn[c].event.uid = 0 => ~OwnStep(c)'
  <2>1. CASE conn[c].event.uid # 0
    <3>1. conn'[c].todo = <<s>> \o Tail(conn[c].todo)
      BY <2>1, <1>8 DEF more
    <3> QED  BY <2>1, <3>1, <1>0, <1>2, <1>4, <1>7, Pushed
  <2>2. CASE conn[c].event.uid = 0
    <3>1. conn'[c].todo = Tail(conn[c].todo)
      BY <2>2, <1>8 DEF more
    <3> QED  BY <2>2, <3>1, <1>0, Popped
  <2> QED  BY <2>1, <2>2
<1>10. rows \in [Keys -> Rows] /\ rows' = [rows EXCEPT ![k] = NoRow] /\ rows'[k] = NoRow
  BY <1>2 DEF ResourceInv, ResourceTypeOK
<1>11. RowStep(k)
  BY <1>10, SpecFacts DEF RowStep
<1>12. RowSteps /\ rows' \in [Keys -> Rows]
  BY <1>10, <1>11, SpecFacts, OneRow
<1>13. ResourceTypeOK'
  <2>1. overlap' \subseteq Keys
    BY <1>1 DEF Overlapping, ResourceInv, ResourceTypeOK
  <2> QED  BY <1>8, <1>12, <2>1 DEF ResourceInv, ResourceTypeOK
<1>14. ~(conn'[c].answer >= 400)
  BY <1>1, <1>8
<1>15. AnswerOK(c)'
  BY <1>0, <1>7, <1>8, <1>9, <1>14, AnswerKeeps
<1>16. LookedUpOK(c)'
  BY <1>0, <1>8, <1>9, <1>12, LookedUpKeeps
<1>17. conn'[c].checked <= uids'
  BY <1>8 DEF ResourceInv, OwnerInv
<1>18. EventInvariant'
  <2>1. SUFFICES ASSUME NEW j \in Keys, j \notin overlap' PROVE KeyOK(j)'
    BY DEF EventInvariant
  <2>2. CASE j # k
    <3>1. j \notin overlap
      BY <1>2, <2>1, <2>2 DEF Overlapping
    <3>2. KeyOK(j)
      BY <3>1 DEF ResourceInv, EventInvariant
    <3>3. rows'[j] = rows[j] /\ lastSeen'[j] = lastSeen[j]
      BY <1>10, <2>2
    <3>4. OwnStep(c)' => head(c)'.key # j
      BY <1>2, <1>9, <2>2 DEF Moves
    <3>5. head(c).key # j
      BY <1>2, <2>2
    <3> QED  BY <3>2, <3>3, <3>4, <3>5, <1>8, ElsewhereKeeps
  <2>3. CASE j = k
    <3>1. Unpublished(k) \ {c} = {}
      BY <1>2, <2>1, <2>3 DEF Overlapping
    <3>2. \A d \in Clients : d # c => ~Announces(d, k)' /\ ~OnKey(d, "remove", k)'
      BY <3>1, <1>8, OthersSilent
    <3>3. ~Exists(k)'
      BY <1>10, SpecFacts DEF Exists
    <3>4. \A d, e \in Clients : Announces(d, k)' /\ Announces(e, k)' => d = e
      BY <3>2, Zenon
    <3>5. CASE conn[c].event.uid # 0
      <4>1. /\ Announces(c, k)' /\ OnKey(c, "publish", k)' /\ ~OnKey(c, "reload", k)'
            /\ ~OnKey(c, "remove", k)'
        BY <3>5, <1>4, <1>9 DEF Announces, OnKey, AtStep, head
      <4>2. HoldsAsIs(c, k)'
        BY <3>3, <3>5, <1>4, <1>9 DEF HoldsAsIs
      <4>3. \A d \in Clients : ~OnKey(d, "reload", k)' /\ ~OnKey(d, "remove", k)'
        BY <3>2, <4>1, Zenon DEF Announces
      <4>4. \A d \in Clients : OnKey(d, "publish", k)' => HoldsAsIs(d, k)'
        BY <3>2, <4>2, Zenon DEF Announces
      <4>5. KeyOK(k)'
        BY <3>3, <3>4, <4>1, <4>3, <4>4 DEF KeyOK
      <4> QED  BY <2>3, <4>5
    <3>6. CASE conn[c].event.uid = 0
      <4>1. ~Announces(c, k)' /\ ~OnKey(c, "remove", k)'
        BY <3>6, <1>9 DEF OwnStep, StoresOwn, Announces, OnKey, AtStep, head
      <4>2. \A d \in Clients : ~Announces(d, k)' /\ ~OnKey(d, "remove", k)'
        BY <3>2, <4>1, Zenon
      <4>3. k \notin overlap
        BY <1>2, <2>1, <2>3, <3>1, <3>6 DEF Overlapping
      <4>4. KeyOK(k)
        BY <4>3 DEF ResourceInv, EventInvariant
      <4>5. ~Exists(k)
        BY <3>6, <4>4, <1>2 DEF KeyOK, OnKey
      <4>6. \A d \in Clients : ~Announces(d, k)
        <5>1. ~Announces(c, k)
          BY <1>0 DEF Announces, OnKey, AtStep, head
        <5>2. ASSUME NEW d \in Clients, d # c PROVE ~Announces(d, k)
          <6>1. d \notin Unpublished(k)
            BY <3>1, <5>2
          <6> QED  BY <6>1, OnKeyIsUnpublished
        <5> QED  BY <5>1, <5>2
      <4>7. lastSeen[k].verb = "DELETED"
        BY <4>4, <4>5, <4>6 DEF KeyOK, SeenAsIs
      <4>8. SeenAsIs(k)'
        BY <3>3, <4>7 DEF SeenAsIs
      <4>9. KeyOK(k)'
        BY <3>4, <4>2, <4>8, Zenon DEF KeyOK, Announces
      <4> QED  BY <2>3, <4>9
    <3> QED  BY <3>5, <3>6
  <2> QED  BY <2>2, <2>3
<1>19. HandlerOK(conn'[c].todo)
  BY <1>9 DEF Moves
<1> QED  BY <1>8, <1>12, <1>13, <1>15, <1>16, <1>17, <1>18, <1>19, ClientStep

LEMMA RemoveResourceKeeps ==
  ASSUME ResourceInv, NEW c \in Clients, RemoveResource(c)
  PROVE  ResourceInv'
<1>1. \/ /\ AtStep(c, "snapshot") /\ StoreKept /\ secrets' = secrets
         /\ Proceed(c, [conn[c] EXCEPT !.event = rows[head(c).key]], << RemoveStep(head(c).key) >>)
      \/ /\ AtStep(c, "remove") /\ rows' = [rows EXCEPT ![head(c).key] = NoRow]
         /\ Overlapping(c, head(c).key, conn[c].event.uid # 0)
         /\ Proceed(c, [conn[c] EXCEPT !.wrote = TRUE],
                    IF conn[c].event.uid # 0 THEN << DeletedStep(head(c).key) >> ELSE <<>>)
         /\ UNCHANGED <<secrets, lastSeen, uids, adopted, served>>
  BY ZenonT(90) DEF RemoveResource, StoreKept, RemoveStep, DeletedStep
<1> QED  BY <1>1, SnapshotKeeps, RemoveKeeps, Zenon

LEMMA ReloadKeeps ==
  ASSUME ResourceInv, NEW c \in Clients, reload(c)
  PROVE  ResourceInv'
<1>0. conn[c].todo # <<>> /\ head(c).act = "reload" /\ StoreKept /\ secrets' = secrets
  BY DEF reload, AtStep, head, StoreKept
<1>1. conn[c] \in Connection /\ head(c).key \in Keys /\ conn[c].answer = 0
  BY <1>0, ActiveFacts DEF StepOK
<1>2. PICK k \in Keys : k = head(c).key
  BY <1>1
<1>3. rows[k] \in Rows /\ secrets' \subseteq Tenants /\ rows' = rows
  BY <1>0 DEF ResourceInv, ResourceTypeOK, StoreKept
<1>4. \A d \in Clients : d # c => (k \notin overlap => ~Announces(d, k))
  <2>1. Announces(c, k)
    BY <1>0, <1>2 DEF Announces, OnKey, AtStep, head
  <2> QED  BY <2>1 DEF ResourceInv, EventInvariant, KeyOK
<1>5. CASE Exists(k) /\ Proceed(c, [conn[c] EXCEPT !.event = rows[k]], <<>>)
  <2> DEFINE n == [conn[c] EXCEPT !.event = rows[k]]
  <2>1. /\ n \in Connection /\ n.todo = conn[c].todo /\ n.checked = conn[c].checked
        /\ n.req = conn[c].req /\ n.wrote = conn[c].wrote /\ n.gone = conn[c].gone
        /\ n.answer = conn[c].answer /\ n.event = rows[k]
    BY <1>1, <1>3 DEF Connection
  <2>2. Proceed(c, n, <<>>) /\ <<>> \in Seq(Steps)
    BY <1>5
  <2> HIDE DEF n
  <2>3. /\ conn' \in [Clients -> Connection] /\ \A d \in Clients : d # c => Same(d)
        /\ conn'[c].todo = Tail(conn[c].todo)
        /\ conn'[c].req = conn[c].req /\ conn'[c].checked = conn[c].checked
        /\ conn'[c].wrote = conn[c].wrote /\ conn'[c].gone = conn[c].gone
        /\ conn'[c].answer = conn[c].answer /\ conn'[c].event = rows[k]
    BY <1>0, <2>1, <2>2, ProceedFacts
  <2>4. /\ Moves(c) /\ conn'[c].todo # <<>> /\ head(c)'.act = "publish" /\ head(c)'.key = k
    BY <1>0, <1>2, <2>3, Reloaded
  <2>5. ResourceTypeOK' /\ RowSteps
    BY <1>0, <1>3, <2>3, StoreKeptFacts
  <2>6. ~(conn'[c].answer >= 400)
    BY <1>1, <2>3
  <2>7. AnswerOK(c)'
    BY <1>0, <2>3, <2>4, <2>6, AnswerKeeps
  <2>8. LookedUpOK(c)'
    BY <1>0, <2>3, <2>4, <2>5, LookedUpKeeps
  <2>9. conn'[c].checked <= uids'
    BY <1>0, <2>3 DEF ResourceInv, OwnerInv, StoreKept
  <2>10. EventInvariant'
    <3>1. SUFFICES ASSUME NEW j \in Keys, j \notin overlap PROVE KeyOK(j)'
      BY <1>0 DEF EventInvariant, StoreKept
    <3>2. KeyOK(j)
      BY <3>1 DEF ResourceInv, EventInvariant
    <3>3. CASE j # k
      <4>1. rows'[j] = rows[j] /\ lastSeen'[j] = lastSeen[j]
        BY <1>0 DEF StoreKept
      <4>2. head(c).key # j /\ head(c)'.key # j
        BY <1>2, <2>4, <3>3
      <4> QED  BY <3>2, <4>1, <4>2, <2>3, ElsewhereKeeps
    <3>4. CASE j = k
      <4>1. Announces(c, k)' /\ ~OnKey(c, "reload", k)' /\ ~OnKey(c, "remove", k)'
        BY <2>4 DEF Announces, OnKey, AtStep, head
      <4>2. ASSUME NEW d \in Clients, d # c
            PROVE  /\ ~Announces(d, k)'
                   /\ OnKey(d, "remove", k)' /\ conn'[d].event.uid = 0 => ~Exists(k)'
        <5>1. conn'[d] = conn[d]
          BY <4>2, <2>3 DEF Same
        <5>2. ~Announces(d, k)
          BY <4>2, <3>1, <3>4, <1>4
        <5>3. OnKey(d, "remove", k) /\ conn[d].event.uid = 0 => ~Exists(k)
          BY <3>2, <3>4 DEF KeyOK
        <5>4. (OnKey(d, "remove", k)' <=> OnKey(d, "remove", k)) /\ (Exists(k)' <=> Exists(k))
          BY <5>1, <1>3 DEF OnKey, AtStep, head, Exists
        <5> QED  BY <5>1, <5>2, <5>3, <5>4 DEF Announces, OnKey, AtStep, head
      <4>3. HoldsAsIs(c, k)' /\ Exists(k)'
        BY <1>3, <1>5, <2>3 DEF HoldsAsIs, Exists
      <4>4. \A d, e \in Clients : Announces(d, k)' /\ Announces(e, k)' => d = e
        BY <4>2, Zenon
      <4>5. \A d \in Clients : /\ OnKey(d, "publish", k)' => HoldsAsIs(d, k)'
                               /\ OnKey(d, "reload", k)' => Exists(k)'
                               /\ OnKey(d, "remove", k)' /\ conn'[d].event.uid = 0 => ~Exists(k)'
        BY <4>1, <4>2, <4>3, Zenon DEF Announces
      <4>6. KeyOK(k)'
        BY <4>1, <4>4, <4>5, Zenon DEF KeyOK
      <4> QED  BY <3>4, <4>6
    <3> QED  BY <3>3, <3>4
  <2>11. HandlerOK(conn'[c].todo)
    BY <2>4 DEF Moves
  <2> QED  BY <2>3, <2>5, <2>7, <2>8, <2>9, <2>10, <2>11, ClientStep
<1>6. CASE /\ ~Exists(k)
           /\ conn' = [conn EXCEPT ![c] = [conn[c] EXCEPT !.gone = TRUE,
                !.todo = IF head(c).code = 0 THEN SubSeq(@, 3, Len(@)) ELSE <<>>,
                !.answer = IF head(c).code = 0 THEN @ ELSE 500]]
  <2> DEFINE t == conn[c].todo
             w == IF head(c).code = 0 THEN SubSeq(t, 3, Len(t)) ELSE <<>>
             v == IF head(c).code = 0 THEN conn[c].answer ELSE 500
             n == [conn[c] EXCEPT !.gone = TRUE, !.todo = w, !.answer = v]
  <2>1. HandlerOK(t) /\ t \in Seq(Steps) /\ t[1] = head(c) /\ <<>> \in Seq(Steps)
    BY <1>0, ActiveFacts
  <2>2. SubSeq(t, 3, Len(t)) \in Seq(Steps)
    BY <1>0, <2>1, BehindReload DEF Bare
  <2>3. w \in Seq(Steps) /\ v \in Nat
    BY <1>1, <2>1, <2>2
  <2>4. conn' = [conn EXCEPT ![c] = n]
    BY <1>6
  <2>5. (head(c).code = 0 => w = SubSeq(t, 3, Len(t)) /\ v = conn[c].answer) /\ (head(c).code # 0 => w = <<>>)
    OBVIOUS
  <2> HIDE DEF w, v
  <2>6. /\ n \in Connection /\ n.todo = w /\ n.checked = conn[c].checked /\ n.req = conn[c].req
        /\ n.wrote = conn[c].wrote /\ n.gone = TRUE /\ n.answer = v
    BY <1>1, <2>3 DEF Connection
  <2> HIDE DEF n
  <2>7. /\ conn' \in [Clients -> Connection] /\ \A d \in Clients : d # c => Same(d)
        /\ conn'[c] = n
    BY <2>4, <2>6 DEF ResourceInv, ResourceTypeOK, Same
  <2>8. Moves(c) /\ ~OwnStep(c)'
    BY <1>0, <2>5, <2>6, <2>7, Skipped, Cleared
  <2>9. ResourceTypeOK' /\ RowSteps
    BY <1>0, <1>3, <2>7, StoreKeptFacts
  <2>10. AnswerOK(c)'
    BY <1>0, <2>5, <2>6, <2>7, <2>8, AnswerKeeps
  <2>11. LookedUpOK(c)'
    BY <1>0, <2>6, <2>7, <2>8, <2>9, LookedUpKeeps
  <2>12. conn'[c].checked <= uids'
    BY <1>0, <2>6, <2>7 DEF ResourceInv, OwnerInv, StoreKept
  <2>13. EventInvariant'
    <3>1. SUFFICES ASSUME NEW j \in Keys, j \notin overlap PROVE KeyOK(j)'
      BY <1>0 DEF EventInvariant, StoreKept
    <3>2. KeyOK(j)
      BY <3>1 DEF ResourceInv, EventInvariant
    <3>3. j # k
      BY <3>2, <1>0, <1>2, <1>6 DEF KeyOK, OnKey, AtStep, head
    <3>4. rows'[j] = rows[j] /\ lastSeen'[j] = lastSeen[j] /\ head(c).key # j
      BY <1>0, <1>2, <3>3 DEF StoreKept
    <3> QED  BY <3>2, <3>4, <2>7, <2>8, ElsewhereKeeps
  <2>14. HandlerOK(conn'[c].todo)
    BY <2>8 DEF Moves
  <2> QED  BY <2>7, <2>9, <2>10, <2>11, <2>12, <2>13, <2>14, ClientStep
<1> QED  BY <1>2, <1>5, <1>6 DEF reload

LEMMA PublishKeeps ==
  ASSUME ResourceInv, NEW c \in Clients, publish(c)
  PROVE  ResourceInv'
<1>0. conn[c].todo # <<>> /\ head(c).act = "publish" /\ AtStep(c, "publish")
  BY DEF publish, AtStep, head
<1>1. /\ conn[c] \in Connection /\ head(c).key \in Keys /\ conn[c].answer = 0
      /\ head(c).how \in {"ADDED", "MODIFIED", "DELETED"}
  BY <1>0, ActiveFacts DEF StepOK
<1>2. PICK k \in Keys : k = head(c).key
  BY <1>1
<1> DEFINE n == [conn[c] EXCEPT !.event = NoRow]
           e == [verb |-> head(c).how, row |-> conn[c].event]
<1>3. /\ Proceed(c, n, <<>>) /\ lastSeen' = [lastSeen EXCEPT ![k] = e]
      /\ UNCHANGED <<rows, secrets, overlap, uids, adopted, served>>
  BY <1>2, Zenon DEF publish
<1>4. /\ n \in Connection /\ n.todo = conn[c].todo /\ n.checked = conn[c].checked
      /\ n.req = conn[c].req /\ n.wrote = conn[c].wrote /\ n.gone = conn[c].gone
      /\ n.answer = conn[c].answer
  BY <1>1, SpecFacts DEF Connection
<1>5. e \in [verb : {"ADDED", "MODIFIED", "DELETED"}, row : Rows] /\ e.verb = head(c).how /\ e.row = conn[c].event
  BY <1>1 DEF Connection
<1> HIDE DEF n, e
<1>6. /\ conn' \in [Clients -> Connection] /\ \A d \in Clients : d # c => Same(d)
      /\ conn'[c].todo = Tail(conn[c].todo)
      /\ conn'[c].req = conn[c].req /\ conn'[c].checked = conn[c].checked
      /\ conn'[c].wrote = conn[c].wrote /\ conn'[c].gone = conn[c].gone
      /\ conn'[c].answer = conn[c].answer
  <2>1. <<>> \in Seq(Steps)
    OBVIOUS
  <2> QED  BY <1>0, <1>3, <1>4, <2>1, ProceedFacts
<1>7. Moves(c) /\ ~OwnStep(c)'
  BY <1>0, <1>6, Popped
<1>8. /\ lastSeen' \in [Keys -> [verb : {"ADDED", "MODIFIED", "DELETED"}, row : Rows]]
      /\ lastSeen'[k] = e /\ \A j \in Keys : j # k => lastSeen'[j] = lastSeen[j]
  BY <1>3, <1>5 DEF ResourceInv, ResourceTypeOK
<1>9. ResourceTypeOK'
  BY <1>3, <1>6, <1>8 DEF ResourceInv, ResourceTypeOK
<1>10. RowSteps
  BY <1>3 DEF RowSteps, RowStep, ResourceInv, ResourceTypeOK
<1>11. ~(conn'[c].answer >= 400)
  BY <1>1, <1>6
<1>12. AnswerOK(c)'
  BY <1>0, <1>6, <1>7, <1>11, AnswerKeeps
<1>13. LookedUpOK(c)'
  BY <1>0, <1>6, <1>7, <1>10, LookedUpKeeps
<1>14. conn'[c].checked <= uids'
  BY <1>3, <1>6 DEF ResourceInv, OwnerInv
<1>15. EventInvariant'
  <2>1. SUFFICES ASSUME NEW j \in Keys, j \notin overlap PROVE KeyOK(j)'
    BY <1>3 DEF EventInvariant
  <2>2. KeyOK(j)
    BY <2>1 DEF ResourceInv, EventInvariant
  <2>3. CASE j # k
    <3>1. rows'[j] = rows[j] /\ lastSeen'[j] = lastSeen[j] /\ head(c).key # j
      BY <1>2, <1>3, <1>8, <2>3
    <3> QED  BY <2>2, <3>1, <1>6, <1>7, ElsewhereKeeps
  <2>4. CASE j = k
    <3>1. OnKey(c, "publish", k) /\ Announces(c, k)
      BY <1>0, <1>2 DEF Announces, OnKey
    <3>2. HoldsAsIs(c, k) /\ \A d \in Clients : d # c => ~Announces(d, k)
      BY <2>2, <2>4, <3>1 DEF KeyOK
    <3>3. ~Announces(c, k)' /\ ~OnKey(c, "remove", k)'
      BY <1>7 DEF OwnStep, StoresOwn, Announces, OnKey, AtStep, head
    <3>4. ASSUME NEW d \in Clients, d # c
          PROVE  /\ ~Announces(d, k)'
                 /\ OnKey(d, "remove", k)' /\ conn'[d].event.uid = 0 => ~Exists(k)'
      <4>1. conn'[d] = conn[d]
        BY <3>4, <1>6 DEF Same
      <4>2. ~Announces(d, k)
        BY <3>2, <3>4
      <4>3. OnKey(d, "remove", k) /\ conn[d].event.uid = 0 => ~Exists(k)
        BY <2>2, <2>4 DEF KeyOK
      <4>4. (OnKey(d, "remove", k)' <=> OnKey(d, "remove", k)) /\ (Exists(k)' <=> Exists(k))
        BY <4>1, <1>3 DEF OnKey, AtStep, head, Exists
      <4> QED  BY <4>1, <4>2, <4>3, <4>4 DEF Announces, OnKey, AtStep, head
    <3>5. SeenAsIs(k)'
      BY <3>2, <1>2, <1>3, <1>5, <1>8 DEF SeenAsIs, HoldsAsIs, Exists
    <3>6. \A d \in Clients : /\ ~Announces(d, k)'
                             /\ OnKey(d, "remove", k)' /\ conn'[d].event.uid = 0 => ~Exists(k)'
      BY <3>3, <3>4, Zenon
    <3>7. KeyOK(k)'
      BY <3>5, <3>6, Zenon DEF KeyOK, Announces
    <3> QED  BY <2>4, <3>7
  <2> QED  BY <2>3, <2>4
<1>16. HandlerOK(conn'[c].todo)
  BY <1>7 DEF Moves
<1> QED  BY <1>6, <1>9, <1>10, <1>12, <1>13, <1>14, <1>15, <1>16, ClientStep

-----------------------------------------------------------------------------
(* The controllers that write rows beside the requests. *)

LEMMA ControllerStep ==
  ASSUME ResourceInv, ResourceTypeOK', RowSteps, conn' = conn, EventInvariant'
  PROVE  ResourceInv'
<1>1. \A d \in Clients : Same(d)
  BY DEF Same
<1>2. HandlerInv' /\ AnswerInv'
  BY DEF ResourceInv, HandlerInv, AnswerInv, AnswerOK
<1>3. ASSUME NEW k \in Keys PROVE rows'[k].uid <= uids'
  <2>1. rows[k].uid \in Nat /\ uids \in Nat /\ uids' \in Nat /\ rows[k].uid <= uids /\ uids' >= uids
    BY DEF ResourceInv, ResourceTypeOK, Rows, OwnerInv, RowSteps
  <2>2. RowStep(k)
    BY DEF RowSteps
  <2> QED  BY <2>1, <2>2 DEF RowStep
<1>4. ASSUME NEW d \in Clients PROVE conn'[d].checked <= uids' /\ LookedUpOK(d)'
  <2>1. /\ conn[d].checked \in Nat /\ uids \in Nat /\ uids' \in Nat /\ uids' >= uids
        /\ conn[d].checked <= uids
    BY DEF ResourceInv, ResourceTypeOK, Connection, OwnerInv, RowSteps
  <2>2. conn'[d].checked <= uids'
    BY <2>1
  <2> QED  BY <1>1, <2>2, LookedUpSame
<1>5. OwnerInv'
  BY <1>3, <1>4 DEF OwnerInv
<1> QED  BY <1>2, <1>5 DEF ResourceInv

\* A row that a controller leaves alone keeps its announcements.
LEMMA KeyAlone ==
  ASSUME NEW k \in Keys, KeyOK(k), conn' = conn, rows'[k] = rows[k], lastSeen'[k] = lastSeen[k]
  PROVE  KeyOK(k)'
BY DEF KeyOK, Announces, OnKey, AtStep, head, SeenAsIs, HoldsAsIs, Exists, Announced

\* A row that a controller writes and announces at once, when no request has
\* something to announce of it.
LEMMA KeyAnnounced ==
  ASSUME ResourceInv, NEW k \in Keys, Unpublished(k) = {}, conn' = conn, SeenAsIs(k)'
  PROVE  KeyOK(k)'
<1>1. ASSUME NEW d \in Clients PROVE ~Announces(d, k) /\ ~OnKey(d, "remove", k)
  <2>1. d \notin Unpublished(k)
    OBVIOUS
  <2> QED  BY <2>1, OnKeyIsUnpublished
<1>2. \A d \in Clients : ~Announces(d, k)' /\ ~OnKey(d, "remove", k)'
  BY <1>1 DEF Announces, OnKey, AtStep, head
<1> QED  BY <1>2, Zenon DEF KeyOK, Announces

LEMMA CreateMachineKeeps ==
  ASSUME ResourceInv, CreateMachine
  PROVE  ResourceInv'
<1>1. PICK t \in Tenants, n \in Names :
        /\ ~Exists(<<"machine", n>>) /\ Unpublished(<<"machine", n>>) = {}
        /\ uids' = uids + 1
        /\ rows' = [rows EXCEPT ![<<"machine", n>>] =
                NewRow(uids + 1, t, "", NoSpec, "initializing")]
        /\ lastSeen' = [lastSeen EXCEPT ![<<"machine", n>>] =
                [verb |-> "ADDED", row |-> rows'[<<"machine", n>>]]]
        /\ overlap' = overlap \ {<<"machine", n>>}
        /\ UNCHANGED <<secrets, conn, adopted, served>>
  BY Zenon DEF CreateMachine
<1>2. PICK k \in Keys : k = <<"machine", n>>
  <2>1. <<"machine", n>> \in Keys
    BY Zenon DEF Keys
  <2> QED  BY <2>1, Zenon
<1>3. uids \in Nat /\ uids + 1 \in Nat
  BY DEF ResourceInv, ResourceTypeOK
<1>4. PICK row \in Rows : row.uid = uids + 1 /\ row = NewRow(uids + 1, t, "", NoSpec, "initializing")
  <2>1. PICK u \in Nat, o \in Tenants \cup {""}, r \in Roles, e \in Specs,
             h \in {"", "forming", "reported", "initializing"} :
          u = uids + 1 /\ o = t /\ r = "" /\ e = NoSpec /\ h = "initializing"
    BY <1>3, SpecFacts, Zenon DEF Roles
  <2>2. NewRow(u, o, r, e, h) \in Rows /\ NewRow(u, o, r, e, h).uid = u
    BY NewRowFacts
  <2> QED  BY <2>1, <2>2, Zenon
<1>5. /\ rows' = [rows EXCEPT ![k] = row] /\ Unpublished(k) = {} /\ overlap' = overlap \ {k}
      /\ lastSeen' = [lastSeen EXCEPT ![k] = [verb |-> "ADDED", row |-> rows'[k]]]
  BY <1>1, <1>2, <1>4, Zenon
<1>6. /\ uids' = uids + 1 /\ conn' = conn /\ adopted' = adopted /\ secrets' = secrets
      /\ served' = served
  BY <1>1, Zenon
<1>7. rows'[k] = row /\ row.uid = uids + 1
  <2>1. row.uid = uids + 1
    BY <1>4, Zenon
  <2> QED  BY <1>5, <2>1 DEF ResourceInv, ResourceTypeOK
<1>8. RowStep(k)
  BY <1>6, <1>7 DEF RowStep
<1>9. RowSteps /\ rows' \in [Keys -> Rows]
  BY <1>5, <1>6, <1>8, OneRow
<1>10. [verb |-> "ADDED", row |-> row] \in [verb : {"ADDED", "MODIFIED", "DELETED"}, row : Rows]
  OBVIOUS
<1>11. /\ lastSeen' \in [Keys -> [verb : {"ADDED", "MODIFIED", "DELETED"}, row : Rows]]
       /\ lastSeen'[k].row = row
       /\ \A j \in Keys : j # k => lastSeen'[j] = lastSeen[j]
  BY <1>5, <1>7, <1>10 DEF ResourceInv, ResourceTypeOK
<1>12. ResourceTypeOK'
  BY <1>3, <1>5, <1>6, <1>9, <1>11 DEF ResourceInv, ResourceTypeOK
<1>13. EventInvariant'
  <2>1. SUFFICES ASSUME NEW j \in Keys, j \notin overlap' PROVE KeyOK(j)'
    BY DEF EventInvariant
  <2>2. CASE j # k
    <3>1. j \notin overlap
      BY <1>5, <2>1, <2>2
    <3>2. KeyOK(j)
      BY <3>1 DEF ResourceInv, EventInvariant
    <3>3. rows'[j] = rows[j] /\ lastSeen'[j] = lastSeen[j]
      BY <1>5, <1>11, <2>2 DEF ResourceInv, ResourceTypeOK
    <3> QED  BY <3>2, <3>3, <1>6, KeyAlone
  <2>3. CASE j = k
    <3>1. Exists(k)'
      BY <1>3, <1>7 DEF Exists
    <3>2. SeenAsIs(k)'
      BY <3>1, <1>7, <1>11 DEF SeenAsIs
    <3>3. KeyOK(k)'
      BY <3>2, <1>5, <1>6, KeyAnnounced
    <3> QED  BY <2>3, <3>3
  <2> QED  BY <2>2, <2>3
<1> QED  BY <1>6, <1>9, <1>12, <1>13, ControllerStep

LEMMA RemoveResourcesByTenantKeeps ==
  ASSUME ResourceInv, RemoveResourcesByTenant
  PROVE  ResourceInv'
<1>1. PICK t \in Tenants, mine \in SUBSET Keys :
        /\ rows' = [k \in Keys |-> IF k \in mine THEN NoRow ELSE rows[k]]
        /\ lastSeen' = [k \in Keys |->
                IF k \in mine THEN [verb |-> "DELETED", row |-> rows[k]] ELSE lastSeen[k]]
        /\ overlap' = (overlap \ mine) \cup {k \in mine : Unpublished(k) # {}}
        /\ secrets' = secrets \ {t}
        /\ UNCHANGED <<conn, uids, adopted, served>>
  <2>1. PICK t \in Tenants :
          LET mine == {k \in Keys : Exists(k)
                        /\ (k = <<"tenant", t>> \/ (k[1] # "tenant" /\ rows[k].owner = t))}
          IN /\ rows' = [k \in Keys |-> IF k \in mine THEN NoRow ELSE rows[k]]
             /\ lastSeen' = [k \in Keys |->
                  IF k \in mine THEN [verb |-> "DELETED", row |-> rows[k]] ELSE lastSeen[k]]
             /\ overlap' = (overlap \ mine) \cup {k \in mine : Unpublished(k) # {}}
             /\ secrets' = secrets \ {t}
             /\ UNCHANGED <<conn, uids, adopted, served>>
    BY Zenon DEF RemoveResourcesByTenant
  <2> DEFINE mine == {k \in Keys : Exists(k)
                        /\ (k = <<"tenant", t>> \/ (k[1] # "tenant" /\ rows[k].owner = t))}
  <2>2. /\ rows' = [k \in Keys |-> IF k \in mine THEN NoRow ELSE rows[k]]
        /\ lastSeen' = [k \in Keys |->
             IF k \in mine THEN [verb |-> "DELETED", row |-> rows[k]] ELSE lastSeen[k]]
        /\ overlap' = (overlap \ mine) \cup {k \in mine : Unpublished(k) # {}}
        /\ secrets' = secrets \ {t}
        /\ UNCHANGED <<conn, uids, adopted, served>>
    BY <2>1, Zenon
  <2>3. mine \in SUBSET Keys
    OBVIOUS
  <2> HIDE DEF mine
  <2> QED  BY <2>2, <2>3, Zenon
<1>2. ASSUME NEW k \in Keys
      PROVE  /\ rows'[k] \in Rows /\ (k \in mine => rows'[k] = NoRow)
             /\ k \notin mine => rows'[k] = rows[k] /\ lastSeen'[k] = lastSeen[k]
  BY <1>1, SpecFacts DEF ResourceInv, ResourceTypeOK
<1>3. ASSUME NEW k \in Keys
      PROVE  /\ lastSeen'[k] \in [verb : {"ADDED", "MODIFIED", "DELETED"}, row : Rows]
             /\ k \in mine => lastSeen'[k].verb = "DELETED"
  BY <1>1 DEF ResourceInv, ResourceTypeOK
<1>4. rows' \in [Keys -> Rows]
  BY <1>1, <1>2
<1>5. lastSeen' \in [Keys -> [verb : {"ADDED", "MODIFIED", "DELETED"}, row : Rows]]
  BY <1>1, <1>3
<1>6. ResourceTypeOK'
  BY <1>1, <1>4, <1>5 DEF ResourceInv, ResourceTypeOK
<1>7. RowSteps
  <2>1. ASSUME NEW k \in Keys PROVE RowStep(k)
    BY <1>2, SpecFacts DEF RowStep
  <2> QED  BY <1>1, <2>1 DEF RowSteps, ResourceInv, ResourceTypeOK
<1>8. EventInvariant'
  <2>1. SUFFICES ASSUME NEW j \in Keys, j \notin overlap' PROVE KeyOK(j)'
    BY DEF EventInvariant
  <2>2. CASE j \notin mine
    <3>1. KeyOK(j)
      BY <1>1, <2>1, <2>2 DEF ResourceInv, EventInvariant
    <3> QED  BY <1>1, <1>2, <2>2, <3>1, KeyAlone
  <2>3. CASE j \in mine
    <3>1. Unpublished(j) = {}
      BY <1>1, <2>1, <2>3
    <3>2. SeenAsIs(j)'
      BY <1>2, <1>3, <2>3, SpecFacts DEF SeenAsIs, Exists
    <3> QED  BY <1>1, <3>1, <3>2, KeyAnnounced
  <2> QED  BY <2>2, <2>3
<1> QED  BY <1>1, <1>6, <1>7, <1>8, ControllerStep

-----------------------------------------------------------------------------
(* The programs of the handlers. *)

\* A step of a handler's own, one that writes no row by its name, one that
\* looks up the row k of the request's tenant, and one that may write it.
Ready(s) == s \in Steps /\ StepOK(s) /\ ~StoresOwn(s)
Plain(s) == Ready(s) /\ ~ActsByName(s)
Lookup(s, k) ==
  Ready(s) /\ ~ActsByName(s) /\ ~WritesRow(s) /\ s.act = "need" /\ s.how = "owned" /\ s.key = k
Own(s, k) == Ready(s) /\ s.act # "need" /\ (ActsByName(s) => s.key = k)

\* A program that a request may start with.
Startable(p) ==
  /\ p \in Seq(Steps) /\ \A i \in 1..Len(p) : Ready(p[i])
  /\ \A i, j \in 1..Len(p) : i < j /\ WritesRow(p[i]) => Harmless(p[j])
  /\ \/ \A i \in 1..Len(p) : ~ActsByName(p[i])
     \/ /\ p[1].act = "need" /\ p[1].how = "owned"
        /\ \A i \in 1..Len(p) : /\ ActsByName(p[i]) => p[i].key = p[1].key
                                /\ p[i].act = "need" => i = 1

LEMMA StartableIsOK ==
  ASSUME NEW p, Startable(p)
  PROVE  /\ HandlerOK(p)
         /\ \A i \in 1..Len(p) : ActsByName(p[i]) =>
              p[1].act = "need" /\ p[1].how = "owned" /\ p[1].key = p[i].key
         /\ p # <<>> => ~StoresOwn(Head(p))
<1>1. p # <<>> => 1 \in 1..Len(p) /\ Head(p) = p[1]
  BY HeadTail DEF Startable
<1>2. p # <<>> => ~StoresOwn(Head(p)) /\ p[1].act # "reload"
  BY <1>1, Zenon DEF Startable, Ready, StoresOwn
<1>3. \A i \in 1..Len(p) : StepOK(p[i]) /\ ~StoresOwn(p[i])
  BY Zenon DEF Startable, Ready
<1>4. \A i, j \in 1..Len(p) : ActsByName(p[i]) /\ p[j].act = "need" => j = 1
  BY Zenon DEF Startable
<1>5. \A i, j \in 1..Len(p) : i < j /\ WritesRow(p[i]) => Harmless(p[j])
  BY Zenon DEF Startable
<1>6. p \in Seq(Steps)
  BY Zenon DEF Startable
<1>7. HandlerOK(p)
  BY <1>2, <1>3, <1>4, <1>5, <1>6, Zenon DEF HandlerOK
<1>8. \A i \in 1..Len(p) : ActsByName(p[i]) =>
        p[1].act = "need" /\ p[1].how = "owned" /\ p[1].key = p[i].key
  BY Zenon DEF Startable
<1> QED  BY <1>2, <1>7, <1>8

\* Programs of steps that need no lookup.
LEMMA Plain1 ==
  ASSUME NEW a, Plain(a)
  PROVE  Startable(<<a>>)
<1>1. <<a>> \in Seq(Steps) /\ Len(<<a>>) = 1 /\ <<a>>[1] = a
  BY DEF Plain, Ready
<1> DEFINE p == <<a>>
<1> HIDE DEF p
<1>2. \A i \in 1..Len(p) : i = 1 /\ Ready(p[i]) /\ ~ActsByName(p[i])
  BY <1>1 DEF p, Plain
<1>3. \A i, j \in 1..Len(p) : ~(i < j)
  BY <1>1 DEF p
<1>4. Startable(p)
  BY <1>1, <1>2, <1>3 DEF Startable, p
<1> QED  BY <1>4 DEF p

LEMMA Plain2 ==
  ASSUME NEW a, NEW b, Plain(a), Plain(b), WritesRow(a) => Harmless(b)
  PROVE  Startable(<<a, b>>)
<1>1. /\ <<a, b>> \in Seq(Steps) /\ Len(<<a, b>>) = 2 /\ <<a, b>>[1] = a /\ <<a, b>>[2] = b
  BY DEF Plain, Ready
<1> DEFINE p == <<a, b>>
<1> HIDE DEF p
<1>2. ASSUME NEW i \in 1..Len(p) PROVE (i = 1 /\ p[i] = a) \/ (i = 2 /\ p[i] = b)
  BY <1>1 DEF p
<1>3. \A i \in 1..Len(p) : Ready(p[i]) /\ ~ActsByName(p[i])
  BY <1>2, Zenon DEF Plain
<1>4. \A i, j \in 1..Len(p) : i < j => p[i] = a /\ p[j] = b
  BY <1>2
<1>5. Startable(p)
  BY <1>1, <1>3, <1>4 DEF Startable, p
<1> QED  BY <1>5 DEF p

LEMMA Plain3 ==
  ASSUME NEW a, NEW b, NEW e, Plain(a), Plain(b), Plain(e),
         WritesRow(a) => Harmless(b) /\ Harmless(e), WritesRow(b) => Harmless(e)
  PROVE  Startable(<<a, b, e>>)
<1>1. /\ <<a, b, e>> \in Seq(Steps) /\ Len(<<a, b, e>>) = 3
      /\ <<a, b, e>>[1] = a /\ <<a, b, e>>[2] = b /\ <<a, b, e>>[3] = e
  BY DEF Plain, Ready
<1> DEFINE p == <<a, b, e>>
<1> HIDE DEF p
<1>2. ASSUME NEW i \in 1..Len(p)
      PROVE  (i = 1 /\ p[i] = a) \/ (i = 2 /\ p[i] = b) \/ (i = 3 /\ p[i] = e)
  BY <1>1 DEF p
<1>3. \A i \in 1..Len(p) : Ready(p[i]) /\ ~ActsByName(p[i])
  BY <1>2, Zenon DEF Plain
<1>4. \A i, j \in 1..Len(p) : i < j =>
        (p[i] = a /\ p[j] = b) \/ (p[i] = a /\ p[j] = e) \/ (p[i] = b /\ p[j] = e)
  BY <1>2
<1>5. Startable(p)
  BY <1>1, <1>3, <1>4 DEF Startable, p
<1> QED  BY <1>5 DEF p

LEMMA Plain4 ==
  ASSUME NEW a, NEW b, NEW e, NEW f, Plain(a), Plain(b), Plain(e), Plain(f),
         Harmless(b), Harmless(e), Harmless(f)
  PROVE  Startable(<<a, b, e, f>>)
<1>1. /\ <<a, b, e, f>> \in Seq(Steps) /\ Len(<<a, b, e, f>>) = 4
      /\ <<a, b, e, f>>[1] = a /\ <<a, b, e, f>>[2] = b /\ <<a, b, e, f>>[3] = e
      /\ <<a, b, e, f>>[4] = f
  BY DEF Plain, Ready
<1> DEFINE p == <<a, b, e, f>>
<1> HIDE DEF p
<1>2. ASSUME NEW i \in 1..Len(p)
      PROVE  (i = 1 /\ p[i] = a) \/ (i # 1 /\ p[i] \in {b, e, f})
  BY <1>1 DEF p
<1>3. \A i \in 1..Len(p) : Ready(p[i]) /\ ~ActsByName(p[i])
  BY <1>2, Zenon DEF Plain
<1>4. \A i, j \in 1..Len(p) : i < j => j # 1
  BY <1>1 DEF p
<1>5. \A i, j \in 1..Len(p) : i < j => Harmless(p[j])
  BY <1>2, <1>4, Zenon
<1>6. Startable(p)
  BY <1>1, <1>3, <1>5 DEF Startable, p
<1> QED  BY <1>6 DEF p

\* Programs that look the row up first.
LEMMA Owned1 ==
  ASSUME NEW k, NEW a, Lookup(a, k)
  PROVE  Startable(<<a>>)
BY Plain1 DEF Lookup, Plain

LEMMA Owned2 ==
  ASSUME NEW k, NEW a, NEW b, Lookup(a, k), Own(b, k)
  PROVE  Startable(<<a, b>>)
<1>1. /\ <<a, b>> \in Seq(Steps) /\ Len(<<a, b>>) = 2 /\ <<a, b>>[1] = a /\ <<a, b>>[2] = b
  BY DEF Lookup, Own, Ready
<1> DEFINE p == <<a, b>>
<1> HIDE DEF p
<1>2. ASSUME NEW i \in 1..Len(p) PROVE (i = 1 /\ p[i] = a) \/ (i = 2 /\ p[i] = b)
  BY <1>1 DEF p
<1>3. \A i \in 1..Len(p) : /\ Ready(p[i]) /\ (p[i].act = "need" => i = 1)
                           /\ ActsByName(p[i]) => p[i].key = p[1].key
  BY <1>1, <1>2, Zenon DEF Lookup, Own, p
<1>4. \A i, j \in 1..Len(p) : i < j => ~WritesRow(p[i])
  BY <1>2 DEF Lookup
<1>5. Startable(p)
  BY <1>1, <1>3, <1>4, Zenon DEF Startable, Lookup, p
<1> QED  BY <1>5 DEF p

LEMMA Owned4 ==
  ASSUME NEW k, NEW a, NEW b, NEW e, NEW f, Lookup(a, k), Own(b, k), Own(e, k), Own(f, k),
         Harmless(e), Harmless(f)
  PROVE  Startable(<<a, b, e, f>>)
<1>1. /\ <<a, b, e, f>> \in Seq(Steps) /\ Len(<<a, b, e, f>>) = 4
      /\ <<a, b, e, f>>[1] = a /\ <<a, b, e, f>>[2] = b /\ <<a, b, e, f>>[3] = e
      /\ <<a, b, e, f>>[4] = f
  BY DEF Lookup, Own, Ready
<1> DEFINE p == <<a, b, e, f>>
<1> HIDE DEF p
<1>2. ASSUME NEW i \in 1..Len(p)
      PROVE  (i = 1 /\ p[i] = a) \/ (i = 2 /\ p[i] = b) \/ (i > 2 /\ i # 1 /\ i # 2 /\ p[i] \in {e, f})
  BY <1>1 DEF p
<1>3. \A i \in 1..Len(p) : /\ Ready(p[i]) /\ (p[i].act = "need" => i = 1)
                           /\ ActsByName(p[i]) => p[i].key = p[1].key
  BY <1>1, <1>2, Zenon DEF Lookup, Own, p
<1>4. \A i, j \in 1..Len(p) : i < j => j > 2 \/ i = 1
  BY <1>1 DEF p
<1>5. ASSUME NEW i \in 1..Len(p), NEW j \in 1..Len(p), i < j, WritesRow(p[i]) PROVE Harmless(p[j])
  <2>1. i # 1
    BY <1>2, <1>5 DEF Lookup
  <2>2. j > 2
    BY <1>4, <1>5, <2>1
  <2>3. j # 1 /\ j # 2
    BY <2>2
  <2> QED  BY <1>2, <2>3, Zenon
<1>6. Startable(p)
  BY <1>1, <1>3, <1>5, Zenon DEF Startable, Lookup, p
<1> QED  BY <1>6 DEF p

\* Programs put together.
LEMMA JoinedFront ==
  ASSUME NEW S, NEW a \in S, NEW r \in Seq(S), NEW t \in Seq(S), Len(t) = Len(r) + 1, t[1] = a,
         \A i \in 2..(Len(r) + 1) : t[i] = r[i - 1]
  PROVE  <<a>> \o r = t
<1> DEFINE p == <<a>> \o r
<1>1. /\ p \in Seq(S) /\ Len(p) = Len(r) + 1 /\ Len(r) \in Nat /\ p[1] = a
      /\ \A i \in 2..(Len(r) + 1) : p[i] = r[i - 1]
  BY InFront
<1> HIDE DEF p
<1>2. \A i \in 1..Len(p) : p[i] = t[i]
  BY <1>1
<1>3. p = t
  BY <1>1, <1>2, SeqEqual
<1> QED  BY <1>3 DEF p

LEMMA Joined ==
  ASSUME NEW a, NEW b, NEW e
  PROVE  /\ <<a>> \o <<b>> = <<a, b>> /\ <<a>> \o <<b, e>> = <<a, b, e>>
<1> DEFINE S == {a, b, e}
<1>0. /\ a \in S /\ <<b>> \in Seq(S) /\ <<b, e>> \in Seq(S)
      /\ <<a, b>> \in Seq(S) /\ <<a, b, e>> \in Seq(S)
  OBVIOUS
<1> HIDE DEF S
<1>1. <<a>> \o <<b>> = <<a, b>>
  <2>1. Len(<<a, b>>) = Len(<<b>>) + 1 /\ <<a, b>>[1] = a
    OBVIOUS
  <2>2. \A i \in 2..(Len(<<b>>) + 1) : <<a, b>>[i] = <<b>>[i - 1]
    OBVIOUS
  <2> QED  BY <1>0, <2>1, <2>2, JoinedFront
<1>2. <<a>> \o <<b, e>> = <<a, b, e>>
  <2>1. Len(<<a, b, e>>) = Len(<<b, e>>) + 1 /\ <<a, b, e>>[1] = a
    OBVIOUS
  <2>2. \A i \in 2..(Len(<<b, e>>) + 1) : <<a, b, e>>[i] = <<b, e>>[i - 1]
    OBVIOUS
  <2> QED  BY <1>0, <2>1, <2>2, JoinedFront
<1> QED  BY <1>1, <1>2

LEMMA JoinedFour ==
  ASSUME NEW a, NEW b, NEW e, NEW f
  PROVE  <<a>> \o <<b, e, f>> = <<a, b, e, f>>
<1> DEFINE S == {a, b, e, f}
<1>0. a \in S /\ <<b, e, f>> \in Seq(S) /\ <<a, b, e, f>> \in Seq(S)
  OBVIOUS
<1> HIDE DEF S
<1>1. Len(<<a, b, e, f>>) = Len(<<b, e, f>>) + 1 /\ <<a, b, e, f>>[1] = a
  OBVIOUS
<1>2. \A i \in 2..(Len(<<b, e, f>>) + 1) : <<a, b, e, f>>[i] = <<b, e, f>>[i - 1]
  OBVIOUS
<1> QED  BY <1>0, <1>1, <1>2, JoinedFront

LEMMA JoinedLast ==
  ASSUME NEW a, NEW b, NEW e, NEW f
  PROVE  <<a, b, e>> \o <<f>> = <<a, b, e, f>>
<1> DEFINE S == {a, b, e, f}
<1>0. <<a, b, e>> \in Seq(S) /\ <<a, b, e, f>> \in Seq(S) /\ <<f>> \in Seq(S)
  OBVIOUS
<1> HIDE DEF S
<1> DEFINE p == <<a, b, e>> \o <<f>>
           t == <<a, b, e, f>>
<1>1. Len(<<a, b, e>>) = 3 /\ Len(<<f>>) = 1 /\ Len(t) = 4
  OBVIOUS
<1>2. p \in Seq(S) /\ Len(p) = 4
  BY <1>0, <1>1, ConcatProperties
<1>3. \A i \in 1..4 : p[i] = IF i <= 3 THEN <<a, b, e>>[i] ELSE <<f>>[i - 3]
  BY <1>0, <1>1, ConcatProperties
<1>4. \A i \in 1..4 : p[i] = t[i]
  <2> HIDE DEF p
  <2> QED  BY <1>3
<1> HIDE DEF p, t
<1>5. t \in Seq(S)
  BY <1>0 DEF t
<1>6. p = t
  BY <1>1, <1>2, <1>4, <1>5, SeqEqual
<1> QED  BY <1>6 DEF p, t

\* The steps of the programs.
StepActs == {"answer", "need", "free", "create", "update", "status", "delete", "finalizer",
             "finalizers", "snapshot", "remove", "reload", "publish", "save", "drop", "bundle"}
StepHows == {"", "any", "owned", "forming", "client", "patch", "scale", "save", "toggle",
             "reported", "machines", "secrets", "config", "link", "ADDED", "MODIFIED", "DELETED"}

StepKeys == Keys \cup {<<"", "">>}
NoHow == ""
NoKey == <<"", "">>
CreateHows == {"", "forming"}

LEMMA InSteps ==
  ASSUME NEW act \in StepActs, NEW k \in StepKeys, NEW how \in StepHows,
         NEW code \in Nat
  PROVE  /\ Step(act, k, how, code) \in Steps /\ Step(act, k, how, code).act = act
         /\ Step(act, k, how, code).key = k /\ Step(act, k, how, code).how = how
         /\ Step(act, k, how, code).code = code
BY ZenonT(90) DEF Step, Steps, StepActs, StepHows, StepKeys

\* The codes that handlers answer.
Codes == {400, 403, 404, 409, 500}
LEMMA CodeFacts == Codes \subseteq Nat /\ 0 \in Nat /\ \A n \in Codes : n # 0
BY DEF Codes

LEMMA NeedStep ==
  ASSUME NEW k \in Keys, NEW code \in Codes
  PROVE  /\ Lookup(NeedOwned(k, code), k)
         /\ Plain(Step("need", k, "any", code)) /\ ~WritesRow(Step("need", k, "any", code))
<1>1. ASSUME NEW h \in {"any", "owned"}, NEW s, s = Step("need", k, h, code)
      PROVE  /\ Ready(s) /\ ~ActsByName(s) /\ ~WritesRow(s) /\ s.act = "need" /\ s.how = h
             /\ s.key = k
  <2>1. /\ "need" \in StepActs /\ h \in StepHows /\ k \in StepKeys /\ code \in Nat /\ code # 0
    BY CodeFacts, Zenon DEF StepActs, StepHows, StepKeys
  <2>2. s \in Steps /\ s.act = "need" /\ s.key = k /\ s.how = h /\ s.code = code
    BY <1>1, <2>1, InSteps
  <2> QED  BY <2>1, <2>2, Zenon DEF Ready, StepOK, StoresOwn, ActsByName, WritesRow
<1> QED  BY <1>1, Zenon DEF Lookup, Plain, NeedOwned

LEMMA FreeStep ==
  ASSUME NEW k \in Keys, NEW code \in Codes, NEW h \in {"any", "owned"}
  PROVE  Plain(NeedFree(k, h, code)) /\ ~WritesRow(NeedFree(k, h, code))
<1> DEFINE s == NeedFree(k, h, code)
<1>1. "free" \in StepActs /\ h \in StepHows /\ k \in StepKeys /\ code \in Nat
  BY CodeFacts, Zenon DEF StepActs, StepHows, StepKeys
<1>2. s \in Steps /\ s.act = "free" /\ s.key = k
  BY <1>1, InSteps DEF NeedFree
<1> HIDE DEF s
<1>3. Plain(s) /\ ~WritesRow(s)
  BY <1>2, Zenon DEF Plain, Ready, StepOK, StoresOwn, ActsByName, WritesRow
<1> QED  BY <1>3 DEF s

LEMMA CreateStep ==
  ASSUME NEW k \in Keys, NEW code \in Codes, NEW h \in CreateHows
  PROVE  Plain(Step("create", k, h, code))
<1> DEFINE s == Step("create", k, h, code)
<1>1. "create" \in StepActs /\ h \in StepHows /\ k \in StepKeys /\ code \in Nat
  BY CodeFacts, Zenon DEF StepActs, StepHows, StepKeys, CreateHows
<1>2. s \in Steps /\ s.act = "create" /\ s.key = k /\ s.how = h
  BY <1>1, InSteps
<1> HIDE DEF s
<1>3. Plain(s)
  BY <1>2, Zenon DEF Plain, Ready, StepOK, StoresOwn, ActsByName, CreateHows
<1> QED  BY <1>3 DEF s

\* The steps that write the row k of a request, and their kinds.
Hows(act) ==
  CASE act = "update" -> {"client", "patch", "scale", "save", "toggle"}
    [] act = "status" -> {"reported"}
    [] act = "finalizer" -> {"machines", "secrets", "config", "link"}
    [] act \in {"delete", "snapshot"} -> {""}

LEMMA WriteStep ==
  ASSUME NEW k \in Keys, NEW act \in {"update", "status", "finalizer", "delete", "snapshot"},
         NEW h \in Hows(act), NEW code \in Codes \cup {0}, act = "snapshot" => code # 0
  PROVE  /\ Own(Step(act, k, h, code), k)
         /\ code = 0 => Harmless(Step(act, k, h, code))
         /\ k[1] \in {"tenant", "provider"} => Plain(Step(act, k, h, code))
<1> DEFINE s == Step(act, k, h, code)
<1>1. act \in StepActs /\ k \in StepKeys /\ code \in Nat
  BY CodeFacts, Zenon DEF StepActs, StepKeys
<1>2. /\ h \in StepHows /\ (act = "status" => h = "reported")
      /\ act = "update" => h \in {"client", "patch", "scale", "save", "toggle"}
      /\ act = "finalizer" => h \in {"machines", "secrets", "config", "link"}
  <2>1. CASE act = "update"
    <3>1. Hows(act) = {"client", "patch", "scale", "save", "toggle"}
      BY <2>1, Zenon DEF Hows
    <3> QED  BY <2>1, <3>1, Zenon DEF StepHows
  <2>2. CASE act = "status"
    <3>1. Hows(act) = {"reported"}
      BY <2>2, Zenon DEF Hows
    <3> QED  BY <2>2, <3>1, Zenon DEF StepHows
  <2>3. CASE act = "finalizer"
    <3>1. Hows(act) = {"machines", "secrets", "config", "link"}
      BY <2>3, Zenon DEF Hows
    <3> QED  BY <2>3, <3>1, Zenon DEF StepHows
  <2>4. CASE act \in {"delete", "snapshot"}
    <3>1. Hows(act) = {""}
      BY <2>4, Zenon DEF Hows
    <3> QED  BY <2>4, <3>1, Zenon DEF StepHows
  <2> QED  BY <2>1, <2>2, <2>3, <2>4, Zenon
<1>3. s \in Steps /\ s.act = act /\ s.key = k /\ s.how = h /\ s.code = code
  BY <1>1, <1>2, InSteps
<1> HIDE DEF s
<1>4. StepOK(s)
  BY <1>2, <1>3, Zenon DEF StepOK
<1>5. ~StoresOwn(s) /\ s.act # "need"
  BY <1>3, Zenon DEF StoresOwn
<1>6. k[1] \in {"tenant", "provider"} => ~ActsByName(s)
  BY <1>3, Zenon DEF ActsByName
<1>7. /\ Own(s, k) /\ (code = 0 => Harmless(s))
      /\ k[1] \in {"tenant", "provider"} => Plain(s)
  BY <1>3, <1>4, <1>5, <1>6, Zenon DEF Own, Plain, Ready, Harmless
<1> QED  BY <1>7 DEF s

LEMMA SecretStep ==
  ASSUME NEW t \in Tenants, NEW act \in {"save", "drop", "bundle"}, NEW code \in Codes \cup {0}
  PROVE  /\ Plain(Step(act, <<"tenant", t>>, NoHow, code)) /\ ~WritesRow(Step(act, <<"tenant", t>>, NoHow, code))
         /\ code = 0 => Harmless(Step(act, <<"tenant", t>>, NoHow, code))
<1> DEFINE s == Step(act, <<"tenant", t>>, NoHow, code)
<1>1. act \in StepActs /\ NoHow \in StepHows /\ code \in Nat
  BY CodeFacts, Zenon DEF StepActs, StepHows, NoHow
<1>2. /\ <<"tenant", t>> \in Keys /\ <<"tenant", t>> \in {"tenant"} \X Tenants
      /\ <<"tenant", t>> \in StepKeys
  BY Zenon DEF Keys, StepKeys
<1>3. s \in Steps /\ s.act = act /\ s.key = <<"tenant", t>> /\ s.code = code
  BY <1>1, <1>2, InSteps
<1> HIDE DEF s
<1>4. /\ Plain(s) /\ ~WritesRow(s) /\ (code = 0 => Harmless(s))
  BY <1>2, <1>3, Zenon DEF Plain, Ready, StepOK, StoresOwn, ActsByName, WritesRow, Harmless
<1> QED  BY <1>4 DEF s

LEMMA RefuseFacts ==
  ASSUME NEW code \in Codes
  PROVE  Startable(Refuse(code)) /\ Plain(Step("answer", NoKey, NoHow, code))
<1> DEFINE s == Step("answer", NoKey, NoHow, code)
<1>1. "answer" \in StepActs /\ NoHow \in StepHows /\ NoKey \in StepKeys /\ code \in Nat
  BY CodeFacts, Zenon DEF StepActs, StepHows, StepKeys, NoHow, NoKey
<1>2. s \in Steps /\ s.act = "answer"
  BY <1>1, InSteps
<1>3. Refuse(code) = <<s>>
  BY Zenon DEF Refuse, NoHow, NoKey
<1> HIDE DEF s
<1>4. Plain(s)
  BY <1>2, Zenon DEF Plain, Ready, StepOK, StoresOwn, ActsByName
<1>5. Startable(<<s>>)
  BY <1>4, Plain1
<1> QED  BY <1>3, <1>4, <1>5, Zenon DEF s

LEMMA NoHowFacts == NoHow \in Hows("delete") /\ NoHow \in Hows("snapshot") /\ NoHow \in CreateHows /\ "forming" \in CreateHows
<1>1. Hows("delete") = {""} /\ Hows("snapshot") = {""}
  BY Zenon DEF Hows
<1> QED  BY <1>1, Zenon DEF NoHow, CreateHows

LEMMA HowFacts ==
  /\ Hows("update") = {"client", "patch", "scale", "save", "toggle"}
  /\ Hows("status") = {"reported"}
  /\ Hows("finalizer") = {"machines", "secrets", "config", "link"}
<1>1. Hows("update") = {"client", "patch", "scale", "save", "toggle"}
  BY Zenon DEF Hows
<1>2. Hows("status") = {"reported"}
  BY Zenon DEF Hows
<1>3. Hows("finalizer") = {"machines", "secrets", "config", "link"}
  BY Zenon DEF Hows
<1> QED  BY <1>1, <1>2, <1>3

\* The rows a request names.
LEMMA RequestKeys ==
  ASSUME NEW q \in ResourceRequest
  PROVE  /\ Key("nodegroup", q) \in Keys /\ Key("configpatch", q) \in Keys
         /\ Key("machine", q) \in Keys /\ Key("provider", q) \in Keys
         /\ Key("provider", q)[1] = "provider"
         /\ <<"tenant", q.tenant>> \in Keys /\ <<"tenant", q.tenant>>[1] = "tenant"
         /\ q.tenant \in Tenants
<1>1. q.tenant \in Tenants /\ q.name \in Names
  BY Zenon DEF ResourceRequest
<1>2. <<"tenant", q.tenant>> \in Keys
  BY <1>1, Zenon DEF Keys
<1>3. ASSUME NEW kind \in {"nodegroup", "configpatch", "machine", "provider"}
      PROVE  Key(kind, q) \in Keys
  BY <1>1, Zenon DEF Key, Keys
<1>4. Key("provider", q)[1] = "provider" /\ <<"tenant", q.tenant>>[1] = "tenant"
  BY DEF Key
<1> QED  BY <1>1, <1>2, <1>3, <1>4

\* A request is refused or served.
LEMMA Gates ==
  ASSUME NEW q, NEW p, Startable(p)
  PROVE  Startable(WellFormed(q, p)) /\ Startable(CanMutate(q, p))
<1>1. Startable(Refuse(400)) /\ Startable(Refuse(403))
  <2>1. 400 \in Codes /\ 403 \in Codes
    BY DEF Codes
  <2> QED  BY <2>1, RefuseFacts
<1> QED  BY <1>1, Zenon DEF WellFormed, CanMutate

\* The handlers that look a row up and then write it.
LEMMA OwnedGet ==
  ASSUME NEW k \in Keys
  PROVE  Startable(<< NeedOwned(k, 404) >>) /\ Lookup(NeedOwned(k, 404), k)
<1>1. Lookup(NeedOwned(k, 404), k)
  BY NeedStep, ZenonT(90) DEF Codes
<1> QED  BY <1>1, Owned1, Zenon

LEMMA OwnedUpdate ==
  ASSUME NEW k \in Keys, NEW h \in Hows("update"), NEW code \in Codes
  PROVE  Startable(<< NeedOwned(k, 404), Step("update", k, h, code) >>)
<1>1. code \in Codes \cup {0}
  OBVIOUS
<1>2. Own(Step("update", k, h, code), k)
  BY <1>1, WriteStep
<1>3. Lookup(NeedOwned(k, 404), k)
  BY OwnedGet
<1> QED  BY <1>2, <1>3, Owned2, ZenonT(90)

LEMMA OwnedStatus ==
  ASSUME NEW k \in Keys, NEW code \in Codes
  PROVE  Startable(<< NeedOwned(k, 404), Step("status", k, "reported", code) >>)
<1>1. code \in Codes \cup {0} /\ "reported" \in Hows("status")
  BY HowFacts, Zenon
<1>2. Own(Step("status", k, "reported", code), k)
  BY <1>1, WriteStep
<1>3. Lookup(NeedOwned(k, 404), k)
  BY OwnedGet
<1> QED  BY <1>2, <1>3, Owned2, ZenonT(90)

LEMMA OwnedRemove ==
  ASSUME NEW k \in Keys
  PROVE  Startable(<< NeedOwned(k, 404), Step("snapshot", k, NoHow, 500) >>)
<1>1. 500 \in Codes \cup {0} /\ 500 # 0
  BY DEF Codes
<1>2. Own(Step("snapshot", k, NoHow, 500), k)
  BY <1>1, NoHowFacts, WriteStep
<1>3. Lookup(NeedOwned(k, 404), k)
  BY OwnedGet
<1> QED  BY <1>2, <1>3, Owned2, ZenonT(90)

\* The handlers that create a row.
LEMMA CreateUnder ==
  ASSUME NEW k \in Keys, NEW t \in Tenants, NEW how \in {"any", "owned"}, NEW h \in CreateHows
  PROVE  Startable(<< NeedTenant(t, 404), NeedFree(k, how, 409), Step("create", k, h, 500) >>)
<1>0. <<"tenant", t>> \in Keys /\ 404 \in Codes /\ 409 \in Codes /\ 500 \in Codes
  BY ZenonT(90) DEF Keys, Codes
<1>1. Plain(NeedTenant(t, 404)) /\ ~WritesRow(NeedTenant(t, 404))
  BY <1>0, NeedStep DEF NeedTenant
<1>2. Plain(NeedFree(k, how, 409)) /\ ~WritesRow(NeedFree(k, how, 409))
  BY <1>0, FreeStep
<1>3. Plain(Step("create", k, h, 500))
  BY <1>0, CreateStep
<1> QED  BY <1>1, <1>2, <1>3, Plain3

LEMMA CreateAlone ==
  ASSUME NEW k \in Keys, NEW h \in CreateHows
  PROVE  Startable(<< Step("create", k, h, 500) >>) /\ Plain(Step("create", k, h, 500))
<1>1. Plain(Step("create", k, h, 500))
  BY CreateStep DEF Codes
<1> QED  BY <1>1, Plain1

LEMMA CreateTenant ==
  ASSUME NEW t \in Tenants
  PROVE  /\ Startable(<< Step("create", <<"tenant", t>>, "forming", 500),
                         Step("save", <<"tenant", t>>, NoHow, 0) >>)
         /\ Startable(<< NeedFree(<<"tenant", t>>, "any", 409),
                         Step("create", <<"tenant", t>>, "forming", 500),
                         Step("save", <<"tenant", t>>, NoHow, 0) >>)
<1> DEFINE k == <<"tenant", t>>
           a == Step("create", k, "forming", 500)
           b == Step("save", k, NoHow, 0)
           f == NeedFree(k, "any", 409)
<1>0. k \in Keys /\ 409 \in Codes /\ "forming" \in CreateHows
  BY ZenonT(90) DEF Keys, Codes, CreateHows
<1>1. Plain(b) /\ Harmless(b)
  BY SecretStep
<1> HIDE DEF k
<1>2. Plain(f) /\ ~WritesRow(f)
  BY <1>0, FreeStep
<1>3. Plain(a)
  BY <1>0, CreateAlone, ZenonT(90)
<1> HIDE DEF a, b, f
<1>4. Startable(<<a, b>>)
  BY <1>1, <1>3, Plain2
<1>5. Startable(<<f, a, b>>)
  BY <1>1, <1>2, <1>3, Plain3
<1> QED  BY <1>4, <1>5 DEF a, b, f, k

LEMMA NodeGroupPrograms ==
  ASSUME NEW q \in ResourceRequest
  PROVE  /\ Startable(NodeGroupCreate(q)) /\ Startable(NodeGroupGet(q))
         /\ Startable(NodeGroupUpdate(q)) /\ Startable(NodeGroupDelete(q))
         /\ Startable(NodeGroupUpdateStatus(q)) /\ Startable(NodeGroupScale(q))
         /\ Startable(WebNodeGroupCreate(q))
<1> DEFINE k == Key("nodegroup", q)
<1>k. k \in Keys /\ q.tenant \in Tenants
  BY RequestKeys
<1> HIDE DEF k
<1>u. "client" \in Hows("update") /\ "scale" \in Hows("update") /\ 409 \in Codes /\ 500 \in Codes
  BY HowFacts, ZenonT(90) DEF Codes
<1>r. Startable(Refuse(400))
  BY RefuseFacts, ZenonT(90) DEF Codes
<1>1. Startable(NodeGroupCreate(q))
  <2>1. Startable(<< NeedTenant(q.tenant, 404), NeedFree(k, "owned", 409), Step("create", k, "forming", 500) >>)
    BY <1>k, NoHowFacts, CreateUnder
  <2> QED  BY <2>1, <1>r, Zenon DEF NodeGroupCreate, k
<1>2. Startable(NodeGroupGet(q))
  BY <1>k, OwnedGet DEF NodeGroupGet, k
<1>3. Startable(NodeGroupUpdate(q))
  <2>1. Startable(<< NeedOwned(k, 404), Step("update", k, "client", 409) >>)
    BY <1>k, <1>u, OwnedUpdate
  <2> QED  BY <2>1, <1>r, Zenon DEF NodeGroupUpdate, k
<1>4. Startable(NodeGroupDelete(q))
  <2>1. Startable(<< NeedOwned(k, 404), Step("snapshot", k, NoHow, 500) >>)
    BY <1>k, OwnedRemove
  <2> QED  BY <2>1, Zenon DEF NodeGroupDelete, NoHow, k
<1>5. Startable(NodeGroupUpdateStatus(q))
  <2> DEFINE a == NeedOwned(k, 404)
             b == Step("status", k, "reported", 500)
             r == Step("answer", NoKey, NoHow, 400)
  <2>1. Startable(<<a, b>>)
    BY <1>k, <1>u, OwnedStatus
  <2>2. Startable(<<a, r>>)
    <3>1. Plain(r) /\ Plain(a) /\ ~WritesRow(a)
      BY <1>k, NeedStep, RefuseFacts DEF Codes, Lookup, Plain
    <3> QED  BY <3>1, Plain2
  <2>3. NodeGroupUpdateStatus(q) \in {<<a>> \o <<b>>, <<a>> \o <<r>>}
    BY ZenonT(90) DEF NodeGroupUpdateStatus, WellFormed, Refuse, NoHow, NoKey, k
  <2> HIDE DEF a, b, r
  <2>4. <<a>> \o <<b>> = <<a, b>> /\ <<a>> \o <<r>> = <<a, r>>
    BY Joined
  <2> QED  BY <2>1, <2>2, <2>3, <2>4
<1>6. Startable(NodeGroupScale(q))
  <2>1. Startable(<< NeedOwned(k, 404), Step("update", k, "scale", 500) >>)
    BY <1>k, <1>u, OwnedUpdate
  <2> QED  BY <2>1, Gates, ZenonT(90) DEF NodeGroupScale, k
<1>7. Startable(WebNodeGroupCreate(q))
  <2>1. Startable(<< NeedTenant(q.tenant, 404), NeedFree(k, "any", 409), Step("create", k, NoHow, 500) >>)
    BY <1>k, NoHowFacts, CreateUnder
  <2>2. ASSUME NEW p \in {Refuse(400), << NeedTenant(q.tenant, 404), NeedFree(k, "any", 409),
                                         Step("create", k, NoHow, 500) >>}
        PROVE  Startable(CanMutate(q, p))
    BY <2>1, <1>r, Gates, ZenonT(90)
  <2> QED  BY <2>2, ZenonT(90) DEF WebNodeGroupCreate, NoHow, k
<1> QED  BY <1>1, <1>2, <1>3, <1>4, <1>5, <1>6, <1>7

LEMMA PatchPrograms ==
  ASSUME NEW q \in ResourceRequest
  PROVE  /\ Startable(PatchCreate(q)) /\ Startable(PatchGet(q)) /\ Startable(PatchUpdate(q))
         /\ Startable(PatchDelete(q)) /\ Startable(ClusterPatchCreate(q))
         /\ Startable(ClusterPatchSave(q)) /\ Startable(ClusterPatchDelete(q))
         /\ Startable(ClusterPatchToggle(q)) /\ Startable(ClusterPatchEditPage(q))
<1> DEFINE k == Key("configpatch", q)
<1>k. k \in Keys /\ q.tenant \in Tenants
  BY RequestKeys
<1> HIDE DEF k
<1>u. /\ "patch" \in Hows("update") /\ "save" \in Hows("update") /\ "toggle" \in Hows("update")
      /\ 409 \in Codes /\ 500 \in Codes
  BY HowFacts, ZenonT(90) DEF Codes
<1>1. Startable(PatchCreate(q))
  <2>1. Startable(<< NeedTenant(q.tenant, 404), NeedFree(k, "owned", 409), Step("create", k, NoHow, 500) >>)
    BY <1>k, NoHowFacts, CreateUnder
  <2> QED  BY <2>1, Gates, ZenonT(90) DEF PatchCreate, NoHow, k
<1>2. Startable(<< NeedOwned(k, 404) >>)
  BY <1>k, OwnedGet
<1>3. Startable(PatchGet(q)) /\ Startable(ClusterPatchEditPage(q))
  BY <1>2, Zenon DEF PatchGet, ClusterPatchEditPage, k
<1>4. Startable(PatchUpdate(q))
  <2>1. Startable(<< NeedOwned(k, 404), Step("update", k, "patch", 409) >>)
    BY <1>k, <1>u, OwnedUpdate
  <2> QED  BY <2>1, Gates, ZenonT(90) DEF PatchUpdate, k
<1>5. Startable(<< NeedOwned(k, 404), Step("snapshot", k, NoHow, 500) >>)
  BY <1>k, OwnedRemove
<1>6. Startable(PatchDelete(q))
  BY <1>5, Zenon DEF PatchDelete, NoHow, k
<1>7. Startable(ClusterPatchDelete(q))
  BY <1>5, Gates, ZenonT(90) DEF ClusterPatchDelete, NoHow, k
<1>8. Startable(ClusterPatchCreate(q))
  <2>1. Startable(<< Step("create", k, NoHow, 500) >>)
    BY <1>k, NoHowFacts, CreateAlone
  <2> QED  BY <2>1, Gates, ZenonT(90) DEF ClusterPatchCreate, NoHow, k
<1>9. Startable(ClusterPatchSave(q))
  <2>1. Startable(<< NeedOwned(k, 404), Step("update", k, "save", 500) >>)
    BY <1>k, <1>u, OwnedUpdate
  <2> QED  BY <2>1, Gates, ZenonT(90) DEF ClusterPatchSave, k
<1>10. Startable(ClusterPatchToggle(q))
  <2>1. Startable(<< NeedOwned(k, 404), Step("update", k, "toggle", 500) >>)
    BY <1>k, <1>u, OwnedUpdate
  <2> QED  BY <2>1, Gates, ZenonT(90) DEF ClusterPatchToggle, k
<1> QED  BY <1>1, <1>3, <1>4, <1>6, <1>7, <1>8, <1>9, <1>10

LEMMA MachinePrograms ==
  ASSUME NEW q \in ResourceRequest
  PROVE  /\ Startable(MachineGet(q)) /\ Startable(MachineGetByTenant(q))
         /\ Startable(MachineUpdateStatus(q)) /\ Startable(MachineDelete(q))
<1> DEFINE k == Key("machine", q)
<1>k. k \in Keys
  BY RequestKeys
<1> HIDE DEF k
<1>c. 400 \in Codes /\ 404 \in Codes /\ 500 \in Codes \cup {0} /\ 0 \in Codes \cup {0}
  BY DEF Codes
<1>1. Startable(MachineGet(q))
  <2>1. Plain(Step("need", k, "any", 404))
    BY <1>k, <1>c, NeedStep
  <2>2. Startable(<< Step("need", k, "any", 404) >>)
    BY <2>1, Plain1
  <2> QED  BY <2>2, Zenon DEF MachineGet, k
<1>2. Startable(MachineGetByTenant(q))
  <2>1. Startable(<< NeedOwned(k, 404) >>)
    BY <1>k, OwnedGet
  <2> QED  BY <2>1, Zenon DEF MachineGetByTenant, k
<1>3. Startable(MachineUpdateStatus(q))
  <2> DEFINE a == NeedOwned(k, 404)
             b == Step("status", k, "reported", 404)
             r == Step("answer", NoKey, NoHow, 400)
  <2>1. Startable(<<a, b>>)
    BY <1>k, <1>c, OwnedStatus
  <2>2. Startable(<<a, r>>)
    <3>1. Plain(r) /\ Plain(a) /\ ~WritesRow(a)
      BY <1>k, <1>c, NeedStep, RefuseFacts DEF Lookup, Plain
    <3> QED  BY <3>1, Plain2
  <2>3. MachineUpdateStatus(q) \in {<<a>> \o <<b>>, <<a>> \o <<r>>}
    BY ZenonT(90) DEF MachineUpdateStatus, WellFormed, Refuse, NoHow, NoKey, k
  <2> HIDE DEF a, b, r
  <2>4. <<a>> \o <<b>> = <<a, b>> /\ <<a>> \o <<r>> = <<a, r>>
    BY Joined
  <2> QED  BY <2>1, <2>2, <2>3, <2>4
<1>4. Startable(MachineDelete(q))
  <2> DEFINE a == NeedOwned(k, 404)
             b == Step("delete", k, NoHow, 500)
             e == Step("finalizer", k, "config", 0)
             f == Step("finalizer", k, "link", 0)
  <2>1. Lookup(a, k)
    BY <1>k, OwnedGet
  <2>2. Own(b, k)
    BY <1>k, <1>c, NoHowFacts, WriteStep
  <2>3. "config" \in Hows("finalizer") /\ "link" \in Hows("finalizer")
    BY HowFacts, Zenon
  <2>4. Own(e, k) /\ Harmless(e)
    BY <1>k, <1>c, <2>3, WriteStep
  <2>5. Own(f, k) /\ Harmless(f)
    BY <1>k, <1>c, <2>3, WriteStep
  <2>6. MachineDelete(q) = <<a>> \o <<b, e, f>>
    BY Zenon DEF MachineDelete, DeleteMachine, NoHow, k
  <2> HIDE DEF a, b, e, f
  <2>7. Startable(<<a, b, e, f>>)
    BY <2>1, <2>2, <2>4, <2>5, Owned4
  <2>8. <<a>> \o <<b, e, f>> = <<a, b, e, f>>
    BY JoinedFour, Zenon
  <2> QED  BY <2>6, <2>7, <2>8
<1> QED  BY <1>1, <1>2, <1>3, <1>4

LEMMA ProviderPrograms ==
  ASSUME NEW q \in ResourceRequest
  PROVE  Startable(ProviderGet(q)) /\ Startable(ProviderUpdateStatus(q))
<1> DEFINE k == Key("provider", q)
           a == Step("need", k, "any", 404)
           b == Step("status", k, "reported", 404)
<1>k. k \in Keys /\ k[1] = "provider"
  BY RequestKeys
<1>c. 404 \in Codes /\ 404 \in Codes \cup {0} /\ "reported" \in Hows("status")
  BY HowFacts, ZenonT(90) DEF Codes
<1>0. ProviderGet(q) = <<a>> /\ ProviderUpdateStatus(q) = WellFormed(q, <<a>> \o <<a, b>>)
  BY Zenon DEF ProviderGet, ProviderUpdateStatus, UpsertProvider
<1> HIDE DEF k
<1>1. Plain(a) /\ ~WritesRow(a)
  BY <1>k, <1>c, NeedStep
<1>2. Plain(b)
  <2>1. k[1] \in {"tenant", "provider"}
    BY <1>k
  <2> QED  BY <1>k, <1>c, <2>1, WriteStep
<1> HIDE DEF a, b
<1>3. Startable(<<a>>)
  BY <1>1, Plain1
<1>4. Startable(<<a, a, b>>)
  BY <1>1, <1>2, Plain3
<1>5. <<a>> \o <<a, b>> = <<a, a, b>>
  BY Joined
<1> QED  BY <1>0, <1>3, <1>4, <1>5, Gates

LEMMA TenantPrograms ==
  ASSUME NEW q \in ResourceRequest
  PROVE  /\ Startable(TenantCreate(q)) /\ Startable(TenantGet(q)) /\ Startable(TenantUpdate(q))
         /\ Startable(TenantUpdateStatus(q)) /\ Startable(TenantDelete(q))
         /\ Startable(TenantKubeconfig(q)) /\ Startable(TenantTalosconfig(q))
         /\ Startable(ClusterCreateSubmit(q)) /\ Startable(ClusterDelete(q))
         /\ Startable(credentialDownload(q))
<1> DEFINE k == <<"tenant", q.tenant>>
           need == Step("need", k, "any", 404)
           bundle == Step("bundle", k, NoHow, 404)
<1>k. k \in Keys /\ q.tenant \in Tenants /\ k[1] \in {"tenant", "provider"}
  BY RequestKeys
<1>m. /\ 400 \in Codes /\ 404 \in Codes /\ 404 \in Codes \cup {0} /\ 409 \in Codes \cup {0}
      /\ 0 \in Codes \cup {0}
  BY DEF Codes
<1>h. /\ "reported" \in Hows("status") /\ "client" \in Hows("update")
      /\ "machines" \in Hows("finalizer") /\ "secrets" \in Hows("finalizer")
  BY HowFacts, Zenon
<1>c. /\ 400 \in Codes /\ 404 \in Codes /\ 404 \in Codes \cup {0} /\ 409 \in Codes \cup {0}
      /\ 0 \in Codes \cup {0} /\ "reported" \in Hows("status") /\ "client" \in Hows("update")
      /\ "machines" \in Hows("finalizer") /\ "secrets" \in Hows("finalizer")
  BY <1>m, <1>h, Zenon
<1>b. Plain(bundle)
  BY <1>k, <1>c, SecretStep
<1>s. /\ Plain(Step("drop", k, NoHow, 0)) /\ Harmless(Step("drop", k, NoHow, 0))
  BY <1>k, <1>c, SecretStep
<1>r. Startable(Refuse(400))
  BY <1>c, RefuseFacts
<1>1. Startable(TenantCreate(q)) /\ Startable(ClusterCreateSubmit(q))
  <2>1. /\ Startable(<< Step("create", <<"tenant", q.tenant>>, "forming", 500),
                        Step("save", <<"tenant", q.tenant>>, NoHow, 0) >>)
        /\ Startable(<< NeedFree(<<"tenant", q.tenant>>, "any", 409),
                        Step("create", <<"tenant", q.tenant>>, "forming", 500),
                        Step("save", <<"tenant", q.tenant>>, NoHow, 0) >>)
    BY <1>k, CreateTenant, ZenonT(90)
  <2> QED  BY <2>1, Gates, ZenonT(90) DEF TenantCreate, ClusterCreateSubmit, NoHow
<1>0. /\ TenantGet(q) = <<need>> /\ TenantKubeconfig(q) = <<need, bundle>>
      /\ TenantTalosconfig(q) = <<need, bundle>> /\ credentialDownload(q) = <<need, bundle>>
  BY Zenon DEF TenantGet, TenantKubeconfig, TenantTalosconfig, credentialDownload, NeedTenant, NoHow
<1>u. /\ TenantUpdate(q) \in {Refuse(400), <<Step("update", k, "client", 409)>>}
      /\ TenantUpdateStatus(q) = WellFormed(q, <<Step("status", k, "reported", 404)>>)
  BY Zenon DEF TenantUpdate, TenantUpdateStatus
<1>d. /\ TenantDelete(q) = <<Step("delete", k, NoHow, 404), Step("finalizer", k, "machines", 0),
                             Step("finalizer", k, "secrets", 0)>>
      /\ ClusterDelete(q) = CanMutate(q,
            <<Step("delete", k, NoHow, 0), Step("finalizer", k, "machines", 0),
              Step("finalizer", k, "secrets", 0)>> \o <<Step("drop", k, NoHow, 0)>>)
  BY Zenon DEF TenantDelete, ClusterDelete, DeleteTenant, NoHow
<1> HIDE DEF k, bundle
<1>n. Plain(need) /\ ~WritesRow(need)
  BY <1>k, <1>c, NeedStep
<1> HIDE DEF need
<1>2. Startable(<<need>>)
  BY <1>n, Plain1
<1>3. Startable(<<need, bundle>>)
  BY <1>n, <1>b, Plain2
<1>4. Startable(TenantUpdate(q))
  <2>1. Plain(Step("update", k, "client", 409))
    BY <1>k, <1>c, WriteStep
  <2>2. Startable(<<Step("update", k, "client", 409)>>)
    BY <2>1, Plain1
  <2> QED  BY <2>2, <1>r, <1>u
<1>5. Startable(TenantUpdateStatus(q))
  <2>1. Plain(Step("status", k, "reported", 404))
    BY <1>k, <1>c, WriteStep
  <2>2. Startable(<<Step("status", k, "reported", 404)>>)
    BY <2>1, Plain1
  <2> QED  BY <2>2, <1>u, Gates
<1>6. Startable(TenantDelete(q)) /\ Startable(ClusterDelete(q))
  <2> DEFINE a == Step("delete", k, NoHow, 404)
             z == Step("delete", k, NoHow, 0)
             e == Step("finalizer", k, "machines", 0)
             f == Step("finalizer", k, "secrets", 0)
             g == Step("drop", k, NoHow, 0)
  <2>1. Plain(a)
    BY <1>k, <1>c, NoHowFacts, WriteStep
  <2>2. Plain(z)
    BY <1>k, <1>c, NoHowFacts, WriteStep
  <2>3. Plain(e) /\ Harmless(e)
    BY <1>k, <1>c, WriteStep
  <2>4. Plain(f) /\ Harmless(f)
    BY <1>k, <1>c, WriteStep
  <2>5. TenantDelete(q) = <<a, e, f>> /\ ClusterDelete(q) = CanMutate(q, <<z, e, f>> \o <<g>>)
    BY <1>d, Zenon
  <2>6. Plain(g) /\ Harmless(g)
    BY <1>s, Zenon DEF k
  <2> HIDE DEF a, e, f, g, z
  <2>7. Startable(<<a, e, f>>)
    BY <2>1, <2>3, <2>4, Plain3
  <2>8. Startable(<<z, e, f, g>>)
    BY <2>2, <2>3, <2>4, <2>6, Plain4
  <2>9. <<z, e, f>> \o <<g>> = <<z, e, f, g>>
    BY JoinedLast, Zenon
  <2> QED  BY <2>5, <2>7, <2>8, <2>9, Gates
<1>7. /\ Startable(TenantGet(q)) /\ Startable(TenantKubeconfig(q)) /\ Startable(TenantTalosconfig(q))
      /\ Startable(credentialDownload(q))
  BY <1>0, <1>2, <1>3, Zenon
<1> QED  BY <1>1, <1>4, <1>5, <1>6, <1>7

\* Every route starts a program that keeps to the rules.
LEMMA EveryRouteStarts ==
  ASSUME NEW q \in ResourceRequest
  PROVE  Startable(RegisterRoutes(q))
<1>1. q.op \in Routes
  BY Zenon DEF ResourceRequest
<1>2. /\ Startable(NodeGroupCreate(q)) /\ Startable(NodeGroupGet(q))
      /\ Startable(NodeGroupUpdate(q)) /\ Startable(NodeGroupDelete(q))
      /\ Startable(NodeGroupUpdateStatus(q)) /\ Startable(NodeGroupScale(q))
      /\ Startable(WebNodeGroupCreate(q))
  BY NodeGroupPrograms
<1>3. /\ Startable(PatchCreate(q)) /\ Startable(PatchGet(q)) /\ Startable(PatchUpdate(q))
      /\ Startable(PatchDelete(q)) /\ Startable(ClusterPatchCreate(q))
      /\ Startable(ClusterPatchSave(q)) /\ Startable(ClusterPatchDelete(q))
      /\ Startable(ClusterPatchToggle(q)) /\ Startable(ClusterPatchEditPage(q))
  BY PatchPrograms
<1>4. /\ Startable(MachineGet(q)) /\ Startable(MachineGetByTenant(q))
      /\ Startable(MachineUpdateStatus(q)) /\ Startable(MachineDelete(q))
      /\ Startable(ProviderGet(q)) /\ Startable(ProviderUpdateStatus(q))
  BY MachinePrograms, ProviderPrograms
<1>5. /\ Startable(TenantCreate(q)) /\ Startable(TenantGet(q)) /\ Startable(TenantUpdate(q))
      /\ Startable(TenantUpdateStatus(q)) /\ Startable(TenantDelete(q))
      /\ Startable(TenantKubeconfig(q)) /\ Startable(TenantTalosconfig(q))
      /\ Startable(ClusterCreateSubmit(q)) /\ Startable(ClusterDelete(q))
      /\ Startable(credentialDownload(q))
  BY TenantPrograms
<1> QED  BY <1>1, <1>2, <1>3, <1>4, <1>5 DEF Routes, RegisterRoutes

-----------------------------------------------------------------------------
(* Arrivals, the initial state and the theorems. *)

\* The connection of a request that has just arrived.
Arrived(q, p) ==
  [req |-> q, todo |-> p, read |-> NoRow, checked |-> 0, event |-> NoRow, wrote |-> FALSE,
   gone |-> FALSE, answer |-> 0]

LEMMA ArrivedIs ==
  ASSUME NEW q, NEW p
  PROVE  [Idle EXCEPT !.req = q, !.todo = p] = Arrived(q, p)
<1>1. ASSUME NEW r, r = [Idle EXCEPT !.req = q, !.todo = p]
      PROVE  r = [req |-> q, todo |-> p, read |-> NoRow, checked |-> 0, event |-> NoRow,
                  wrote |-> FALSE, gone |-> FALSE, answer |-> 0]
  BY <1>1 DEF Idle
<1> QED  BY <1>1 DEF Arrived

LEMMA ArrivedFields ==
  ASSUME NEW q, NEW p
  PROVE  /\ Arrived(q, p).todo = p /\ Arrived(q, p).answer = 0 /\ Arrived(q, p).wrote = FALSE
         /\ Arrived(q, p).checked = 0
BY DEF Arrived

LEMMA ArrivedType ==
  ASSUME NEW q \in ResourceRequest, NEW p \in Seq(Steps)
  PROVE  Arrived(q, p) \in Connection
<1>1. NoRow \in Rows /\ q \in ResourceRequest \cup {NoRequest}
  BY SpecFacts
<1> QED  BY <1>1 DEF Arrived, Connection

LEMMA ArriveKeeps ==
  ASSUME ResourceInv, NEW c \in Clients, Arrive(c)
  PROVE  ResourceInv'
<1>1. /\ conn[c].todo = <<>> /\ served' = served + 1 /\ rows' = rows /\ secrets' = secrets
      /\ lastSeen' = lastSeen /\ overlap' = overlap /\ uids' = uids /\ adopted' = adopted
  BY DEF Arrive
<1>2. PICK q \in Requests :
        conn' = [conn EXCEPT ![c] = [Idle EXCEPT !.req = q, !.todo = RegisterRoutes(q)]]
  BY Zenon DEF Arrive
<1>3. q \in ResourceRequest
  BY ResourceAssumption
<1>4. PICK p : p = RegisterRoutes(q)
  OBVIOUS
<1>5. Startable(p)
  BY <1>3, <1>4, EveryRouteStarts
<1>6. /\ HandlerOK(p) /\ p \in Seq(Steps)
      /\ \A i \in 1..Len(p) : ActsByName(p[i]) =>
           p[1].act = "need" /\ p[1].how = "owned" /\ p[1].key = p[i].key
      /\ p # <<>> => ~StoresOwn(Head(p))
  BY <1>5, StartableIsOK, Zenon DEF Startable
<1>7. PICK r : r = Arrived(q, p)
  OBVIOUS
<1>8. r \in Connection /\ r.todo = p /\ r.answer = 0 /\ r.wrote = FALSE /\ r.checked = 0
  BY <1>3, <1>6, <1>7, ArrivedFields, ArrivedType, ZenonT(90)
<1>9. conn' = [conn EXCEPT ![c] = r]
  BY <1>2, <1>4, <1>7, ArrivedIs, Zenon
<1>10. conn \in [Clients -> Connection] /\ served \in Nat /\ uids \in Nat
  BY DEF ResourceInv, ResourceTypeOK
<1>11. conn' \in [Clients -> Connection] /\ conn'[c] = r /\ \A d \in Clients : d # c => Same(d)
  BY <1>8, <1>9, <1>10 DEF Same
<1>12. ResourceTypeOK'
  BY <1>1, <1>10, <1>11 DEF ResourceInv, ResourceTypeOK
<1>13. RowSteps
  BY <1>1, <1>10 DEF RowSteps, RowStep
<1>14. HandlerOK(conn'[c].todo)
  BY <1>6, <1>8, <1>11
<1>15. AnswerOK(c)'
  BY <1>8, <1>11 DEF AnswerOK
<1>16. LookedUpOK(c)'
  BY <1>6, <1>8, <1>11 DEF LookedUpOK
<1>17. conn'[c].checked <= uids'
  BY <1>1, <1>8, <1>10, <1>11
<1>18. conn'[c].todo # <<>> => head(c)'.act \notin {"remove", "reload", "publish"}
  BY <1>6, <1>8, <1>11 DEF head, StoresOwn
<1>19. EventInvariant'
  BY <1>1, <1>11, <1>18, EventCalm
<1> QED  BY <1>11, <1>12, <1>13, <1>14, <1>15, <1>16, <1>17, <1>19, ClientStep

LEMMA InitOK == ASSUME ResourceInit PROVE ResourceInv
<1>1. PICK first : first = NewRow(1, "", "", NoSpec, "")
  OBVIOUS
<1>2. first \in Rows /\ first.uid = 1
  <2>1. PICK u \in Nat, o \in Tenants \cup {""}, r \in Roles, e \in Specs,
             h \in {"", "forming", "reported", "initializing"} :
          u = 1 /\ o = "" /\ r = "" /\ e = NoSpec /\ h = ""
    <3>1. 1 \in Nat
      OBVIOUS
    <3> QED  BY <3>1, SpecFacts, Zenon DEF Roles
  <2>2. NewRow(u, o, r, e, h) \in Rows /\ NewRow(u, o, r, e, h).uid = u
    BY NewRowFacts
  <2> QED  BY <1>1, <2>1, <2>2, Zenon
<1>3. NoRow \in Rows /\ NoRow.uid = 0
  BY SpecFacts
<1>4. /\ rows = [k \in Keys |-> IF k[1] \in {"tenant", "provider"} THEN first ELSE NoRow]
      /\ secrets = Tenants /\ conn = [c \in Clients |-> Idle]
      /\ lastSeen = [k \in Keys |->
            [verb |-> IF rows[k].uid # 0 THEN "ADDED" ELSE "DELETED", row |-> rows[k]]]
      /\ overlap = {} /\ uids = 1 /\ adopted = {} /\ served = 0
  BY <1>1, Zenon DEF ResourceInit
<1>5. \A k \in Keys : rows[k] \in Rows /\ rows[k].uid <= uids
  BY <1>2, <1>3, <1>4
<1>6. Idle \in Connection /\ Idle.todo = <<>> /\ Idle.answer = 0 /\ Idle.wrote = FALSE /\ Idle.checked = 0
  <2>1. NoRequest \in ResourceRequest \cup {NoRequest} /\ <<>> \in Seq(Steps)
    OBVIOUS
  <2> QED  BY <1>3, <2>1 DEF Idle, Connection
<1>7. \A c \in Clients : conn[c] = Idle
  BY <1>4
<1>8. \A k \in Keys : lastSeen[k] \in [verb : {"ADDED", "MODIFIED", "DELETED"}, row : Rows] /\ lastSeen[k].row = rows[k]
                      /\ (rows[k].uid = 0 => lastSeen[k].verb = "DELETED")
  BY <1>4, <1>5
<1>9. ResourceTypeOK
  <2>1. rows \in [Keys -> Rows]
    BY <1>4, <1>5
  <2>2. conn \in [Clients -> Connection]
    BY <1>4, <1>6
  <2>3. lastSeen \in [Keys -> [verb : {"ADDED", "MODIFIED", "DELETED"}, row : Rows]]
    BY <1>4, <1>8
  <2> QED  BY <1>4, <2>1, <2>2, <2>3 DEF ResourceTypeOK
<1>10. HandlerOK(<<>>)
  BY NoPlaces DEF HandlerOK
<1>11. HandlerInv
  BY <1>6, <1>7, <1>10 DEF HandlerInv
<1>12. AnswerInv
  BY <1>6, <1>7, NoPlaces DEF AnswerInv, AnswerOK
<1>13. OwnerInv
  <2>1. \A c \in Clients : conn[c].checked <= uids
    BY <1>4, <1>6, <1>7
  <2>2. \A c \in Clients : LookedUpOK(c)
    BY <1>6, <1>7, NoPlaces DEF LookedUpOK
  <2> QED  BY <1>5, <2>1, <2>2 DEF OwnerInv
<1>14. EventInvariant
  <2>1. SUFFICES ASSUME NEW k \in Keys PROVE KeyOK(k)
    BY DEF EventInvariant
  <2>2. \A c \in Clients : ~OnKey(c, "reload", k) /\ ~OnKey(c, "publish", k) /\ ~OnKey(c, "remove", k)
    BY <1>6, <1>7 DEF OnKey, AtStep
  <2>3. SeenAsIs(k)
    BY <1>8 DEF SeenAsIs, Exists
  <2> QED  BY <2>2, <2>3 DEF KeyOK, Announces
<1> QED  BY <1>9, <1>11, <1>12, <1>13, <1>14 DEF ResourceInv

LEMMA StutterKeeps ==
  ASSUME ResourceInv, UNCHANGED resourceVars
  PROVE  ResourceInv'
<1>1. /\ rows' = rows /\ secrets' = secrets /\ conn' = conn /\ lastSeen' = lastSeen
      /\ overlap' = overlap /\ uids' = uids /\ adopted' = adopted /\ served' = served
  BY DEF resourceVars
<1>2. ResourceTypeOK' /\ HandlerInv'
  BY <1>1 DEF ResourceInv, ResourceTypeOK, HandlerInv
<1>3. AnswerInv' /\ OwnerInv'
  BY <1>1 DEF ResourceInv, AnswerInv, AnswerOK, OwnerInv, LookedUpOK, Vouched
<1>4. EventInvariant'
  BY <1>1 DEF ResourceInv, EventInvariant, KeyOK, Announces, OnKey, AtStep, head, SeenAsIs,
              HoldsAsIs, Exists
<1> QED  BY <1>2, <1>3, <1>4 DEF ResourceInv

LEMMA NextKeeps ==
  ASSUME ResourceInv, ResourceNext
  PROVE  ResourceInv'
<1>1. ASSUME NEW c \in Clients, Arrive(c) PROVE ResourceInv'
  BY <1>1, ArriveKeeps
<1>2. ASSUME NEW c \in Clients, Answer(c) PROVE ResourceInv'
  BY <1>2, AnswerStepKeeps
<1>3. ASSUME NEW c \in Clients, StoreCall(c) PROVE ResourceInv'
  <2>1. CASE GetResource(c)
    BY <2>1, GetResourceKeeps
  <2>2. CASE CheckFree(c)
    BY <2>2, CheckFreeKeeps
  <2>3. CASE CreateResource(c)
    BY <2>3, CreateResourceKeeps
  <2>4. CASE UpdateResource(c)
    BY <2>4, UpdateResourceKeeps
  <2>5. CASE UpdateResourceStatus(c)
    BY <2>5, UpdateResourceStatusKeeps
  <2>6. CASE DeleteResource(c)
    BY <2>6, DeleteResourceKeeps
  <2>7. CASE AddFinalizer(c)
    BY <2>7, AddFinalizerKeeps
  <2>8. CASE RemoveResource(c)
    BY <2>8, RemoveResourceKeeps
  <2>9. CASE reload(c)
    BY <2>9, ReloadKeeps
  <2>10. CASE publish(c)
    BY <2>10, PublishKeeps
  <2>11. CASE TenantSecrets(c)
    BY <2>11, TenantSecretsKeeps
  <2> QED  BY <1>3, <2>1, <2>2, <2>3, <2>4, <2>5, <2>6, <2>7, <2>8, <2>9, <2>10, <2>11, Zenon
           DEF StoreCall
<1>4. CASE CreateMachine
  BY <1>4, CreateMachineKeeps
<1>5. CASE RemoveResourcesByTenant
  BY <1>5, RemoveResourcesByTenantKeeps
<1> QED  BY <1>1, <1>2, <1>3, <1>4, <1>5, Zenon DEF ResourceNext

\* The invariant of the resource API is inductive: it holds when the process
\* starts, and every handler step, store call and controller step keeps it.
THEOREM ResourceInvariant == ResourceSpec => []ResourceInv
<1>1. ResourceInit => ResourceInv
  BY InitOK
<1>2. ResourceInv /\ [ResourceNext]_resourceVars => ResourceInv'
  BY NextKeeps, StutterKeeps
<1> QED  BY <1>1, <1>2, PTL DEF ResourceSpec

\* The tables, the events and what every request has left to do keep their
\* types, whichever requests of the routes of RegisterRoutes arrive.
THEOREM ResourceTypeCorrect == ResourceSpec => []ResourceTypeOK
<1>1. ResourceInv => ResourceTypeOK
  BY DEF ResourceInv
<1> QED  BY <1>1, ResourceInvariant, PTL

\* A handler that answers an error has written nothing, unless the row it wrote
\* was removed before updateResourceMetadataAndPublish could read it again.
THEOREM ErrorsLeaveUnchanged == ResourceSpec => []ErrorMeansUnchanged
<1>1. ResourceInv => ErrorMeansUnchanged
  BY DEF ResourceInv, AnswerInv, AnswerOK, ErrorMeansUnchanged
<1> QED  BY <1>1, ResourceInvariant, PTL

\* Once no store call has an event of a row left to publish, the last event of
\* the row is the row as it is, unless mutations of it have overlapped.
THEOREM LastEventIsCurrent == ResourceSpec => []LastEventCurrent
<1>1. ASSUME ResourceInv PROVE LastEventCurrent
  <2>1. SUFFICES ASSUME NEW k \in Keys, Unpublished(k) = {}, k \notin overlap PROVE SeenAsIs(k)
    BY Zenon DEF LastEventCurrent, SeenAsIs
  <2>2. \A c \in Clients : ~Announces(c, k)
    BY <1>1, <2>1, OnKeyIsUnpublished
  <2>3. KeyOK(k)
    BY <1>1, <2>1 DEF ResourceInv, EventInvariant
  <2> QED  BY <2>2, <2>3, Zenon DEF KeyOK
<1> QED  BY <1>1, ResourceInvariant, PTL

\* A request that acts only moves on itself.
LEMMA ActsAlone ==
  ASSUME ResourceInv, NEW d \in Clients, Arrive(d) \/ Answer(d) \/ StoreCall(d), NEW c \in Clients, c # d
  PROVE  conn'[c] = conn[c]
<1>1. conn \in [Clients -> Connection]
  BY DEF ResourceInv, ResourceTypeOK
<1>2. SUFFICES \E r : conn' = [conn EXCEPT ![d] = r]
  BY <1>1
<1>3. \A ch, more : Proceed(d, ch, more) => \E r : conn' = [conn EXCEPT ![d] = r]
  BY Zenon DEF Proceed
<1>4. Failed(d) => \E r : conn' = [conn EXCEPT ![d] = r]
  BY Zenon DEF Failed
<1>5. \A k, row, verb : Mutate(d, k, row, verb) => \E r : conn' = [conn EXCEPT ![d] = r]
  BY <1>3, Zenon DEF Mutate
<1>6. ASSUME Arrive(d) PROVE \E r : conn' = [conn EXCEPT ![d] = r]
  BY <1>6, Zenon DEF Arrive
<1>7. ASSUME Answer(d) PROVE \E r : conn' = [conn EXCEPT ![d] = r]
  BY <1>4, <1>7, Zenon DEF Answer
<1>8. ASSUME StoreCall(d) PROVE \E r : conn' = [conn EXCEPT ![d] = r]
  <2>1. CASE GetResource(d) \/ CheckFree(d)
    BY <1>3, <1>4, <2>1, Zenon DEF GetResource, CheckFree
  <2>2. CASE CreateResource(d) \/ UpdateResource(d)
    BY <1>4, <1>5, <2>2, Zenon DEF CreateResource, UpdateResource
  <2>3. CASE UpdateResourceStatus(d) \/ DeleteResource(d)
    BY <1>4, <1>5, <2>3, Zenon DEF UpdateResourceStatus, DeleteResource
  <2>4. CASE AddFinalizer(d)
    BY <1>3, <2>4, Zenon DEF AddFinalizer
  <2>5. CASE RemoveResource(d)
    BY <1>3, <2>5, ZenonT(90) DEF RemoveResource
  <2>6. CASE reload(d)
    BY <1>3, <2>6, ZenonT(90) DEF reload
  <2>7. CASE publish(d)
    BY <1>3, <2>7, Zenon DEF publish
  <2>8. CASE TenantSecrets(d)
    BY <1>3, <1>4, <2>8, Zenon DEF TenantSecrets
  <2> QED  BY <1>8, <2>1, <2>2, <2>3, <2>4, <2>5, <2>6, <2>7, <2>8, Zenon DEF StoreCall
<1> QED  BY <1>6, <1>7, <1>8

\* A store call changes a row there is by name, and no other.
LEMMA ChangesItsRow ==
  ASSUME ResourceInv, NEW c \in Clients, Answer(c) \/ StoreCall(c), NEW k \in Keys, Exists(k),
         rows'[k] # rows[k]
  PROVE  /\ conn[c].todo # <<>> /\ head(c).key = k
         /\ head(c).act \in {"update", "status", "delete", "finalizer", "finalizers", "snapshot",
                             "remove"}
<1>1. rows \in [Keys -> Rows]
  BY DEF ResourceInv, ResourceTypeOK
<1>2. \A j, row : rows' = [rows EXCEPT ![j] = row] => j = k
  BY <1>1
<1>3. \A row, verb : Mutate(c, head(c).key, row, verb) => head(c).key = k
  BY <1>2, Zenon DEF Mutate
<1>4. ~Answer(c)
  BY DEF Answer
<1>5. ~GetResource(c) /\ ~CheckFree(c) /\ ~reload(c) /\ ~publish(c) /\ ~TenantSecrets(c)
  BY DEF GetResource, CheckFree, reload, publish, TenantSecrets
<1>6. ~CreateResource(c)
  BY <1>3, Zenon DEF CreateResource
<1>7. CASE UpdateResource(c)
  BY <1>3, <1>7, Zenon DEF UpdateResource, AtStep, head
<1>8. CASE UpdateResourceStatus(c)
  BY <1>3, <1>8, Zenon DEF UpdateResourceStatus, AtStep, head
<1>9. CASE DeleteResource(c)
  BY <1>3, <1>9, Zenon DEF DeleteResource, AtStep, head
<1>10. CASE AddFinalizer(c)
  <2>1. AtStep(c, "finalizers") /\ rows' = [rows EXCEPT ![head(c).key].finalizers =
                                              conn[c].read.finalizers \cup {head(c).how}]
    BY <1>10, Zenon DEF AddFinalizer
  <2>2. head(c).key = k
    BY <1>1, <2>1
  <2> QED  BY <2>1, <2>2 DEF AtStep, head
<1>11. CASE RemoveResource(c)
  <2>1. AtStep(c, "remove") /\ rows' = [rows EXCEPT ![head(c).key] = NoRow]
    BY <1>11, Zenon DEF RemoveResource
  <2> QED  BY <2>1, <1>2, Zenon DEF AtStep, head
<1> QED  BY <1>4, <1>5, <1>6, <1>7, <1>8, <1>9, <1>10, <1>11, Zenon DEF StoreCall

\* A request under a tenant's URL changes a node group, patch or machine of
\* another tenant only after getNodeGroup, getPatch or the machine handler found
\* a row of that name to be the tenant's, and only when the row has been created
\* anew since, or has been taken over by an update.
THEOREM ForeignOnly == ResourceSpec => ForeignOnlyAfterRecreate
<1> DEFINE Foreign(c, k) ==
      /\ conn[c].todo # <<>> /\ conn'[c].todo # conn[c].todo
      /\ k[1] \notin {"tenant", "provider"} /\ Exists(k) /\ rows'[k] # rows[k]
      /\ rows[k].owner # conn[c].req.tenant
<1>1. ASSUME ResourceInv, ResourceNext, NEW c \in Clients, NEW k \in Keys, Foreign(c, k)
      PROVE  conn[c].checked # 0 /\ (conn[c].checked # rows[k].uid \/ rows[k].uid \in adopted)
  <2>1. Answer(c) \/ StoreCall(c)
    <3>1. conn' # conn
      BY <1>1
    <3>2. ~CreateMachine /\ ~RemoveResourcesByTenant
      BY <3>1, Zenon DEF CreateMachine, RemoveResourcesByTenant
    <3>3. PICK d \in Clients : Arrive(d) \/ Answer(d) \/ StoreCall(d)
      BY <1>1, <3>2, Zenon DEF ResourceNext
    <3>4. d = c
      BY <1>1, <3>3, ActsAlone
    <3>5. ~Arrive(c)
      BY <1>1 DEF Arrive
    <3> QED  BY <3>3, <3>4, <3>5
  <2>2. /\ head(c).key = k
        /\ head(c).act \in {"update", "status", "delete", "finalizer", "finalizers", "snapshot",
                            "remove"}
    BY <1>1, <2>1, ChangesItsRow
  <2>3. ActsByName(head(c)) /\ head(c).act # "need"
    BY <1>1, <2>2 DEF ActsByName
  <2>4. head(c) = conn[c].todo[1] /\ 1 \in 1..Len(conn[c].todo)
    BY <1>1, ActiveFacts
  <2>5. LookedUpOK(c)
    BY <1>1 DEF ResourceInv, OwnerInv
  <2>6. Vouched(c, k)
    BY <2>2, <2>3, <2>4, <2>5, Zenon DEF LookedUpOK
  <2> QED  BY <1>1, <2>6, Zenon DEF Vouched
<1>2. ResourceInv /\ [ResourceNext]_resourceVars =>
        [\A c \in Clients, k \in Keys :
          Foreign(c, k) =>
            conn[c].checked # 0 /\ (conn[c].checked # rows[k].uid \/ rows[k].uid \in adopted)
        ]_resourceVars
  BY <1>1, Zenon
<1> QED  BY <1>2, ResourceInvariant, PTL DEF ResourceSpec, ForeignOnlyAfterRecreate
=============================================================================
