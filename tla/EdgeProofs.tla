----------------------------- MODULE EdgeProofs -----------------------------
(***************************************************************************)
(* Proofs about the edge of the management plane: that the password, the   *)
(* user and the role behind a request are what was last decided            *)
(* (Identity), that the audit log loses an event only in the ways its      *)
(* recorder admits, to a flush, a reader or a shutdown (Audit), and that a *)
(* watcher ends up with the current state (WatchBus).                      *)
(***************************************************************************)
EXTENDS Identity, Audit, WatchBus, SequenceTheorems, FiniteSetTheorems, TLAPS

-----------------------------------------------------------------------------
(* Programs: the sequences of calls the handlers make. *)

\* Nothing is left to do.
LEMMA ProgramEmpty ==
  ASSUME NEW q
  PROVE  <<>> \in Seq(CallStep) /\ ProgramOK(<<>>, q)
BY DEF ProgramOK

\* A program of one call.
LEMMA Program1 ==
  ASSUME NEW q, NEW a \in CallStep, Suits(a.act, q)
  PROVE  <<a>> \in Seq(CallStep) /\ ProgramOK(<<a>>, q) /\ Head(<<a>>) = a
<1>1. Len(<<a>>) = 1 /\ <<a>>[1] = a /\ <<a>> \in Seq(CallStep)
  OBVIOUS
<1> QED  BY <1>1 DEF ProgramOK

\* A program of two calls.
LEMMA Program2 ==
  ASSUME NEW q, NEW a \in CallStep, NEW b \in CallStep, Suits(a.act, q), Suits(b.act, q),
         <<a.act, b.act>> \in CallOrder
  PROVE  <<a, b>> \in Seq(CallStep) /\ ProgramOK(<<a, b>>, q) /\ Head(<<a, b>>) = a
<1> DEFINE t == <<a, b>>
<1>1. Len(t) = 2 /\ t[1] = a /\ t[2] = b /\ t \in Seq(CallStep) /\ Head(t) = a
  OBVIOUS
<1> HIDE DEF t
<1>2. ProgramOK(t, q)
  BY <1>1 DEF ProgramOK
<1> QED  BY <1>1, <1>2 DEF t

\* A program of three calls.
LEMMA Program3 ==
  ASSUME NEW q, NEW a \in CallStep, NEW b \in CallStep, NEW d \in CallStep,
         Suits(a.act, q), Suits(b.act, q), Suits(d.act, q),
         <<a.act, b.act>> \in CallOrder, <<b.act, d.act>> \in CallOrder
  PROVE  <<a, b, d>> \in Seq(CallStep) /\ ProgramOK(<<a, b, d>>, q) /\ Head(<<a, b, d>>) = a
<1> DEFINE t == <<a, b, d>>
<1>1. Len(t) = 3 /\ t[1] = a /\ t[2] = b /\ t[3] = d /\ t \in Seq(CallStep) /\ Head(t) = a
  OBVIOUS
<1> HIDE DEF t
<1>2. ProgramOK(t, q)
  <2>0. \A i \in 1..Len(t) : i = 1 \/ i = 2 \/ i = 3
    BY <1>1
  <2>1. \A i \in 1..Len(t) : Suits(t[i].act, q)
    BY <1>1, <2>0
  <2>2. Len(t) - 1 = 2 /\ \A i \in 1..2 : i = 1 \/ i = 2
    BY <1>1
  <2>3. <<t[1].act, t[1 + 1].act>> \in CallOrder /\ <<t[2].act, t[2 + 1].act>> \in CallOrder
    <3>1. t[1] = a /\ t[1 + 1] = b /\ t[2] = b /\ t[2 + 1] = d
      BY <1>1
    <3> QED  BY <3>1, Zenon
  <2> QED  BY <2>1, <2>2, <2>3 DEF ProgramOK
<1> QED  BY <1>1, <1>2 DEF t

\* What remains of a program when its first call is done is a program, and its
\* first call is one that may come next.
LEMMA PopProgram ==
  ASSUME NEW q, NEW t \in Seq(CallStep), t # <<>>, ProgramOK(t, q)
  PROVE  /\ Head(t) \in CallStep /\ Suits(Head(t).act, q)
         /\ Tail(t) \in Seq(CallStep) /\ ProgramOK(Tail(t), q)
         /\ Tail(t) # <<>> => <<Head(t).act, Head(Tail(t)).act>> \in CallOrder
<1>1. Len(t) \in Nat /\ Len(t) > 0 /\ Head(t) = t[1] /\ Head(t) \in CallStep
  BY LenProperties, EmptySeq, HeadTailProperties
<1>2. Tail(t) \in Seq(CallStep) /\ Len(Tail(t)) = Len(t) - 1
      /\ \A i \in 1..(Len(t) - 1) : Tail(t)[i] = t[i + 1]
  BY <1>1, HeadTailProperties
<1>3. Suits(Head(t).act, q)
  BY <1>1 DEF ProgramOK
<1>4. ProgramOK(Tail(t), q)
  <2>1. ASSUME NEW i \in 1..Len(Tail(t)) PROVE Suits(Tail(t)[i].act, q)
    <3>1. i + 1 \in 1..Len(t) /\ Tail(t)[i] = t[i + 1]
      BY <1>1, <1>2
    <3> QED  BY <3>1 DEF ProgramOK
  <2>2. ASSUME NEW i \in 1..(Len(Tail(t)) - 1)
        PROVE  <<Tail(t)[i].act, Tail(t)[i + 1].act>> \in CallOrder
    <3>1. i + 1 \in 1..(Len(t) - 1) /\ Tail(t)[i] = t[i + 1] /\ Tail(t)[i + 1] = t[(i + 1) + 1]
      BY <1>1, <1>2
    <3> QED  BY <3>1 DEF ProgramOK
  <2> QED  BY <2>1, <2>2 DEF ProgramOK
<1>5. ASSUME Tail(t) # <<>> PROVE <<Head(t).act, Head(Tail(t)).act>> \in CallOrder
  <2>1. Head(Tail(t)) = Tail(t)[1] /\ Len(Tail(t)) > 0
    BY <1>2, <1>5, HeadTailProperties, EmptySeq
  <2>2. 1 \in 1..(Len(t) - 1) /\ Head(Tail(t)) = t[1 + 1]
    BY <1>1, <1>2, <2>1
  <2> QED  BY <1>1, <2>2 DEF ProgramOK
<1> QED  BY <1>1, <1>2, <1>3, <1>4, <1>5

\* A call put before a program that it may come before.
LEMMA PushProgram ==
  ASSUME NEW q, NEW t \in Seq(CallStep), ProgramOK(t, q), NEW a \in CallStep, Suits(a.act, q),
         t # <<>> => <<a.act, Head(t).act>> \in CallOrder
  PROVE  /\ <<a>> \o t \in Seq(CallStep) /\ ProgramOK(<<a>> \o t, q)
         /\ <<a>> \o t # <<>> /\ Head(<<a>> \o t) = a
<1> DEFINE w == <<a>> \o t
<1>1. Len(t) \in Nat /\ <<a>> \in Seq(CallStep) /\ Len(<<a>>) = 1 /\ <<a>>[1] = a
  OBVIOUS
<1>2. w \in Seq(CallStep) /\ Len(w) = Len(t) + 1 /\ w[1] = a
      /\ \A i \in 1..Len(t) : w[i + 1] = t[i]
  BY <1>1, ConcatProperties
<1> HIDE DEF w
<1>3. w # <<>> /\ Head(w) = a
  BY <1>1, <1>2
<1>4. ASSUME NEW i \in 1..Len(w) PROVE Suits(w[i].act, q)
  <2>1. CASE i = 1
    BY <2>1, <1>2
  <2>2. CASE i # 1
    <3>1. i - 1 \in 1..Len(t) /\ w[i] = t[i - 1]
      BY <1>1, <1>2, <2>2
    <3> QED  BY <3>1 DEF ProgramOK
  <2> QED  BY <2>1, <2>2
<1>5. ASSUME NEW i \in 1..(Len(w) - 1) PROVE <<w[i].act, w[i + 1].act>> \in CallOrder
  <2>1. CASE i = 1
    <3>1. Len(t) > 0 /\ w[1 + 1] = t[1]
      BY <1>1, <1>2, <2>1
    <3>2. t # <<>> /\ Head(t) = t[1]
      BY <3>1
    <3> QED  BY <3>1, <3>2, <2>1, <1>2
  <2>2. CASE i # 1
    <3>1. i - 1 \in 1..(Len(t) - 1) /\ w[i] = t[i - 1] /\ w[i + 1] = t[(i - 1) + 1]
      BY <1>1, <1>2, <2>2
    <3> QED  BY <3>1 DEF ProgramOK
  <2> QED  BY <2>1, <2>2
<1>6. ProgramOK(w, q)
  BY <1>4, <1>5 DEF ProgramOK
<1> QED  BY <1>2, <1>3, <1>6 DEF w

\* The calls that use something an earlier call of the request has read.
Watched == {"update", "password", "mint", "linked", "candidate", "provision", "relink"}

\* A program as a handler starts it: in order, its first call using nothing.
Startable(t, q) ==
  /\ t \in Seq(CallStep) /\ ProgramOK(t, q)
  /\ t # <<>> => Head(t).act \notin Watched \cup {"bearer"}

\* Do makes a step of a call and an answer.
LEMMA DoStep ==
  ASSUME NEW act \in Acts, NEW code \in Nat
  PROVE  Do(act, code) \in CallStep /\ Do(act, code).act = act
BY DEF Do, CallStep

\* A refused request.
LEMMA DenyStarts ==
  ASSUME NEW q, NEW code \in Nat
  PROVE  Startable(Deny(code), q)
<1>1. Do("deny", code) \in CallStep /\ Do("deny", code).act = "deny"
  BY DoStep DEF Acts
<1>2. Suits("deny", q)
  BY DEF Suits, SignInActs
<1> QED  BY <1>1, <1>2, Program1 DEF Deny, Startable, Watched

\* The single calls the router's programs are made of.
LEMMA RouterCalls ==
  /\ \A q : /\ Suits("present", q) /\ Suits("absent", q) /\ Suits("issue", q)
            /\ Suits("deny", q) /\ Suits("remove", q) /\ Suits("token", q)
            /\ Suits("owner", q) /\ Suits("revoke", q)
            /\ q.role \in ValidRoles => Suits("create", q) /\ Suits("update", q)
  /\ {"present", "absent", "issue", "deny", "remove", "token", "owner", "revoke", "create",
      "update"} \subseteq Acts
BY DEF Suits, SignInActs, Acts

\* UserHandlers and the user forms start a proper program.
LEMMA UserProgramsStart ==
  ASSUME NEW q, NEW who, NEW role
  PROVE  /\ Startable(UsersCreate(q, role), q) /\ Startable(UsersUpdate(q, role), q)
         /\ Startable(UsersDelete(q, role), q) /\ Startable(UsersGet(q, role), q)
         /\ Startable(UserDelete(q, who, role), q)
<1>d. Startable(Deny(403), q) /\ Startable(Deny(400), q)
  BY DenyStarts
<1>1. Startable(UsersCreate(q, role), q)
  <2>1. CASE q.role \in ValidRoles
    <3> DEFINE a == Do("absent", 409)
               b == Do("create", 500)
    <3>1. a \in CallStep /\ b \in CallStep /\ a.act = "absent" /\ b.act = "create"
      BY DoStep DEF Acts
    <3> HIDE DEF a, b
    <3>2. Suits(a.act, q) /\ Suits(b.act, q) /\ <<a.act, b.act>> \in CallOrder
      BY <3>1, <2>1, RouterCalls DEF CallOrder
    <3>3. Startable(<<a, b>>, q)
      BY <3>1, <3>2, Program2 DEF Startable, Watched
    <3> QED  BY <3>3, <1>d DEF UsersCreate, RequireRole, a, b
  <2> QED  BY <2>1, <1>d DEF UsersCreate, RequireRole
<1>2. Startable(UsersUpdate(q, role), q)
  <2>1. CASE q.role \in ValidRoles
    <3> DEFINE a == Do("present", 404)
               b == Do("update", 500)
    <3>1. a \in CallStep /\ b \in CallStep /\ a.act = "present" /\ b.act = "update"
      BY DoStep DEF Acts
    <3> HIDE DEF a, b
    <3>2. Suits(a.act, q) /\ Suits(b.act, q) /\ <<a.act, b.act>> \in CallOrder
      BY <3>1, <2>1, RouterCalls DEF CallOrder
    <3>3. Startable(<<a, b>>, q)
      BY <3>1, <3>2, Program2 DEF Startable, Watched
    <3> QED  BY <3>3, <1>d DEF UsersUpdate, RequireRole, a, b
  <2> QED  BY <2>1, <1>d DEF UsersUpdate, RequireRole
<1>3. ASSUME NEW act \in {"remove", "present"}, NEW code \in Nat
      PROVE  Startable(<<Do(act, code)>>, q)
  <2>1. Do(act, code) \in CallStep /\ Do(act, code).act = act
    BY DoStep DEF Acts
  <2>2. Suits(act, q) /\ act \notin Watched
    BY RouterCalls DEF Watched
  <2> QED  BY <2>1, <2>2, Program1 DEF Startable
<1>4. Startable(UsersDelete(q, role), q) /\ Startable(UsersGet(q, role), q)
  BY <1>3, <1>d DEF UsersDelete, UsersGet, RequireRole
<1>5. Startable(UserDelete(q, who, role), q)
  BY <1>4, <1>d DEF UserDelete
<1> QED  BY <1>1, <1>2, <1>4, <1>5

\* APITokenHandlers and the token forms start a proper program.
LEMMA TokenProgramsStart ==
  ASSUME NEW q, NEW who, NEW role
  PROVE  /\ Startable(TokenCreateForUser(q, who, role), q) /\ Startable(TokenDelete(q), q)
         /\ Startable(TokenGet(q), q) /\ Startable(TokenListForUser(q, who, role), q)
         /\ Startable(APITokenCreate(q, who, role), q) /\ Startable(APITokenDelete(q, role), q)
<1>d. Startable(Deny(403), q)
  BY DenyStarts
<1>1. Startable(TokenCreateForUser(q, who, role), q)
  <2> DEFINE a == Do("present", 404)
             b == Do("issue", 500)
             e == Do("deny", 400)
  <2>1. /\ a \in CallStep /\ b \in CallStep /\ e \in CallStep
        /\ a.act = "present" /\ b.act = "issue" /\ e.act = "deny"
    BY DoStep DEF Acts
  <2> HIDE DEF a, b, e
  <2>2. ASSUME NEW x \in {b, e} PROVE Startable(<<a>> \o <<x>>, q)
    <3>1. x \in CallStep /\ Suits(x.act, q) /\ Suits(a.act, q) /\ <<a.act, x.act>> \in CallOrder
      BY <2>1, <2>2, RouterCalls DEF CallOrder
    <3>2. <<x>> \in Seq(CallStep) /\ ProgramOK(<<x>>, q) /\ Head(<<x>>) = x
      BY <3>1, Program1
    <3>3. /\ <<a>> \o <<x>> \in Seq(CallStep) /\ ProgramOK(<<a>> \o <<x>>, q)
          /\ Head(<<a>> \o <<x>>) = a
      BY <3>1, <3>2, <2>1, PushProgram
    <3> QED  BY <3>3, <2>1 DEF Startable, Watched
  <2>3. Startable(<<a>> \o <<b>>, q) /\ Startable(<<a>> \o <<e>>, q)
    BY <2>2
  <2> QED  BY <2>3, <1>d DEF TokenCreateForUser, SelfOrAdmin, Deny, a, b, e
<1>2. Startable(TokenDelete(q), q) /\ Startable(TokenGet(q), q)
  <2> DEFINE a == Do("token", 404)
             b == Do("owner", 403)
             e == Do("revoke", 500)
  <2>1. /\ a \in CallStep /\ b \in CallStep /\ e \in CallStep
        /\ a.act = "token" /\ b.act = "owner" /\ e.act = "revoke"
    BY DoStep DEF Acts
  <2> HIDE DEF a, b, e
  <2>2. /\ Suits(a.act, q) /\ Suits(b.act, q) /\ Suits(e.act, q)
        /\ <<a.act, b.act>> \in CallOrder /\ <<b.act, e.act>> \in CallOrder
    BY <2>1, RouterCalls DEF CallOrder
  <2>3. Startable(<<a, b, e>>, q)
    BY <2>1, <2>2, Program3 DEF Startable, Watched
  <2>4. Startable(<<a, b>>, q)
    BY <2>1, <2>2, Program2 DEF Startable, Watched
  <2> QED  BY <2>3, <2>4 DEF TokenDelete, TokenGet, a, b, e
<1>3. Startable(TokenListForUser(q, who, role), q)
  <2>1. Startable(<<>>, q)
    BY ProgramEmpty DEF Startable
  <2> QED  BY <2>1, <1>d DEF TokenListForUser, SelfOrAdmin
<1>4. Startable(APITokenCreate(q, who, role), q) /\ Startable(APITokenDelete(q, role), q)
  BY <1>1, <1>2, <1>d DEF APITokenCreate, APITokenDelete, CanEdit
<1> QED  BY <1>1, <1>2, <1>3, <1>4

\* Whatever the router serves is a proper program.
LEMMA RouterStarts ==
  ASSUME NEW q, NEW who, NEW role,
         q.op \in Operations \ {"login", "oidc.login", "oidc.callback"}
  PROVE  Startable(Router(q, who, role), q)
BY UserProgramsStart, TokenProgramsStart
   DEF Router, Operations, UserCreate, UserUpdate

\* A sign-in, by password or through the provider, is a proper program.
LEMMA PublicStarts ==
  ASSUME NEW q, q.op \in {"login", "oidc.login", "oidc.callback"}
  PROVE  Startable(Public(q), q)
<1>1. CASE q.op = "login"
  <2> DEFINE a == Do("present", 401)
             b == Do("password", 401)
             e == Do("mint", 500)
  <2>1. /\ a \in CallStep /\ b \in CallStep /\ e \in CallStep
        /\ a.act = "present" /\ b.act = "password" /\ e.act = "mint"
    BY DoStep DEF Acts
  <2> HIDE DEF a, b, e
  <2>2. /\ Suits(a.act, q) /\ Suits(b.act, q) /\ Suits(e.act, q)
        /\ <<a.act, b.act>> \in CallOrder /\ <<b.act, e.act>> \in CallOrder
    BY <2>1, <1>1 DEF CallOrder, Suits, SignInActs
  <2>3. Startable(<<a, b, e>>, q)
    BY <2>1, <2>2, Program3 DEF Startable, Watched
  <2>4. Startable(Deny(400), q)
    BY DenyStarts
  <2> QED  BY <2>3, <2>4, <1>1 DEF Public, Login, a, b, e
<1>2. CASE q.op = "oidc.login"
  <2> DEFINE a == Do("discover", 303)
             b == Do("flow", 303)
  <2>1. a \in CallStep /\ b \in CallStep /\ a.act = "discover" /\ b.act = "flow"
    BY DoStep DEF Acts
  <2> HIDE DEF a, b
  <2>2. Suits(a.act, q) /\ Suits(b.act, q) /\ <<a.act, b.act>> \in CallOrder
    BY <2>1 DEF CallOrder, Suits, SignInActs
  <2>3. Startable(<<a, b>>, q)
    BY <2>1, <2>2, Program2 DEF Startable, Watched
  <2> QED  BY <2>3, <1>2 DEF Public, OIDCLogin, a, b
<1>3. CASE q.op = "oidc.callback"
  <2> DEFINE t == OIDCCallback(q)
  <2>1. /\ t \in Seq(CallStep) /\ Len(t) = 6
        /\ t[1].act = "cookie" /\ t[2].act = "discover" /\ t[3].act = "exchange"
        /\ t[4].act = "verify" /\ t[5].act = "identity" /\ t[6].act = "mint"
    BY DEF OIDCCallback, Do, CallStep, Acts
  <2> HIDE DEF t
  <2>2. \A i \in 1..6 : Suits(t[i].act, q)
    <3>1. \A act \in {"cookie", "discover", "exchange", "verify", "identity", "mint"} : Suits(act, q)
      BY <1>3 DEF Suits, SignInActs
    <3> QED  BY <2>1, <3>1
  <2>3. \A i \in 1..5 : i = 1 \/ i = 2 \/ i = 3 \/ i = 4 \/ i = 5
    OBVIOUS
  <2>4. /\ <<t[1].act, t[1 + 1].act>> \in CallOrder /\ <<t[2].act, t[2 + 1].act>> \in CallOrder
        /\ <<t[3].act, t[3 + 1].act>> \in CallOrder /\ <<t[4].act, t[4 + 1].act>> \in CallOrder
        /\ <<t[5].act, t[5 + 1].act>> \in CallOrder
    BY <2>1 DEF CallOrder
  <2>5. ProgramOK(t, q)
    <3>1. Len(t) - 1 = 5
      BY <2>1
    <3>2. \A i \in 1..(Len(t) - 1) : <<t[i].act, t[i + 1].act>> \in CallOrder
      BY <3>1, <2>3, <2>4
    <3>3. \A i \in 1..Len(t) : Suits(t[i].act, q)
      BY <2>1, <2>2
    <3> QED  BY <3>2, <3>3 DEF ProgramOK
  <2>6. Head(t).act = "cookie"
    BY <2>1
  <2> QED  BY <2>1, <2>5, <2>6, <1>3 DEF Startable, Watched, Public, t
<1> QED  BY <1>1, <1>2, <1>3

-----------------------------------------------------------------------------
(* What a step does to the call that takes it, and to the others. *)

\* The request c has the fields of ch, but for what is left to do.
Carried(c, ch) ==
  /\ calls' \in [Callers -> CallState]
  /\ \A d \in Callers : d # c => calls'[d] = calls[d]
  /\ calls'[c].req = ch.req /\ calls'[c].who = ch.who /\ calls'[c].role = ch.role
  /\ calls'[c].read = ch.read /\ calls'[c].link = ch.link

Unwatched(c) == calls[c].todo # <<>> => Head(calls[c].todo).act \notin Watched

\* The program of one request changes to a proper one: all are proper.
LEMMA ProgramMoves ==
  ASSUME ProgramInv, NEW c \in Callers, NEW ch, Carried(c, ch),
         ProgramOK(calls'[c].todo, calls'[c].req),
         calls'[c].todo # <<>> =>
           /\ calls'[c].req.op \in Operations
           /\ calls'[c].req.op = "oidc.callback" <=> calls'[c].req.sub \in Subjects
  PROVE  ProgramInv'
<1> SUFFICES ASSUME NEW d \in Callers
             PROVE  /\ ProgramOK(calls'[d].todo, calls'[d].req)
                    /\ calls'[d].todo # <<>> =>
                         /\ calls'[d].req.op \in Operations
                         /\ calls'[d].req.op = "oidc.callback" <=> calls'[d].req.sub \in Subjects
  BY DEF ProgramInv, ProgramOK, Suits
<1>1. CASE d = c
  BY <1>1
<1>2. CASE d # c
  BY <1>2 DEF Carried, ProgramInv
<1> QED  BY <1>1, <1>2

\* Then, with nothing put before the rest of the program.
LEMMA ThenStep ==
  ASSUME IdentityTypeOK, ProgramInv, NEW c \in Callers, NEW ch \in CallState,
         ch.req = calls[c].req, ch.todo = calls[c].todo, calls[c].todo # <<>>,
         Then(c, ch, <<>>)
  PROVE  /\ Carried(c, ch) /\ ProgramInv'
         /\ calls'[c].todo # <<>> =>
              /\ Suits(Head(calls'[c].todo).act, calls[c].req)
              /\ <<Head(calls[c].todo).act, Head(calls'[c].todo).act>> \in CallOrder
<1> DEFINE t == calls[c].todo
<1>1. t \in Seq(CallStep) /\ t # <<>> /\ ProgramOK(t, calls[c].req)
  BY DEF IdentityTypeOK, CallState, ProgramInv
<1>2. /\ Tail(t) \in Seq(CallStep) /\ ProgramOK(Tail(t), calls[c].req)
      /\ Tail(t) # <<>> => <<Head(t).act, Head(Tail(t)).act>> \in CallOrder
  BY <1>1, PopProgram
<1>3. Tail(t) # <<>> => Suits(Head(Tail(t)).act, calls[c].req)
  BY <1>2, PopProgram
<1>4. <<>> \o Tail(t) = Tail(t)
  BY <1>2, ConcatEmptySeq
<1>5. calls' = [calls EXCEPT ![c] = [ch EXCEPT !.todo = Tail(t)]]
  BY <1>4 DEF Then
<1>6. Carried(c, ch) /\ calls'[c].todo = Tail(t)
  <2>1. [ch EXCEPT !.todo = Tail(t)] \in CallState
    BY <1>2 DEF CallState
  <2> QED  BY <1>5, <2>1 DEF Carried, IdentityTypeOK, CallState
<1>7. ProgramInv'
  <2>1. ProgramOK(calls'[c].todo, calls'[c].req)
    BY <1>2, <1>6 DEF Carried
  <2>2. /\ calls'[c].req.op \in Operations
        /\ calls'[c].req.op = "oidc.callback" <=> calls'[c].req.sub \in Subjects
    BY <1>1, <1>6 DEF Carried, ProgramInv
  <2> QED  BY <1>6, <2>1, <2>2, ProgramMoves
<1> QED  BY <1>2, <1>3, <1>6, <1>7

\* Then, with a program put before the last call or calls of the old one.
LEMMA ThenMore ==
  ASSUME IdentityTypeOK, ProgramInv, NEW c \in Callers, NEW ch \in CallState, NEW more,
         ch.req = calls[c].req, ch.todo = calls[c].todo, calls[c].todo # <<>>,
         Then(c, ch, more),
         more \o Tail(calls[c].todo) \in Seq(CallStep),
         ProgramOK(more \o Tail(calls[c].todo), calls[c].req)
  PROVE  Carried(c, ch) /\ ProgramInv' /\ calls'[c].todo = more \o Tail(calls[c].todo)
<1>1. calls' = [calls EXCEPT ![c] = [ch EXCEPT !.todo = more \o Tail(calls[c].todo)]]
  BY DEF Then
<1>2. [ch EXCEPT !.todo = more \o Tail(calls[c].todo)] \in CallState
  BY DEF CallState
<1>3. Carried(c, ch) /\ calls'[c].todo = more \o Tail(calls[c].todo)
  BY <1>1, <1>2 DEF Carried, IdentityTypeOK, CallState
<1>4. /\ calls'[c].req.op \in Operations
      /\ calls'[c].req.op = "oidc.callback" <=> calls'[c].req.sub \in Subjects
  BY <1>3 DEF Carried, ProgramInv
<1>5. ProgramOK(calls'[c].todo, calls'[c].req)
  BY <1>3 DEF Carried
<1> QED  BY <1>3, <1>4, <1>5, ProgramMoves

\* An answer ends the request.
LEMMA AnswerStep ==
  ASSUME IdentityTypeOK, ProgramInv, NEW c \in Callers, calls[c].todo # <<>>, Answered(c)
  PROVE  Carried(c, calls[c]) /\ ProgramInv' /\ calls'[c].todo = <<>>
<1>1. calls[c] \in CallState /\ Head(calls[c].todo) \in CallStep
  BY HeadTailProperties DEF IdentityTypeOK, CallState
<1>2. Head(calls[c].todo).code \in Nat
  BY <1>1 DEF CallStep
<1>3. [calls[c] EXCEPT !.todo = <<>>, !.code = Head(calls[c].todo).code] \in CallState
  BY <1>1, <1>2, ProgramEmpty DEF CallState
<1>4. Carried(c, calls[c]) /\ calls'[c].todo = <<>>
  BY <1>1, <1>3 DEF Answered, Carried, IdentityTypeOK, CallState
<1>5. ProgramOK(calls'[c].todo, calls'[c].req)
  BY <1>4, ProgramEmpty
<1> QED  BY <1>4, <1>5, ProgramMoves

\* A request starts, or is let in and starts what it came for.
LEMMA StartStep ==
  ASSUME IdentityTypeOK, ProgramInv, NEW c \in Callers, NEW k \in CallState,
         calls' = [calls EXCEPT ![c] = k], ProgramOK(k.todo, k.req),
         k.todo # <<>> => Head(k.todo).act \notin Watched,
         k.req.op \in Operations, k.req.op = "oidc.callback" <=> k.req.sub \in Subjects
  PROVE  Carried(c, k) /\ ProgramInv' /\ Unwatched(c)' /\ calls'[c].todo = k.todo
<1>1. Carried(c, k) /\ calls'[c] = k
  BY DEF Carried, IdentityTypeOK
<1>2. ProgramInv'
  BY <1>1, ProgramMoves
<1> QED  BY <1>1, <1>2 DEF Unwatched

-----------------------------------------------------------------------------
(* How rows, links and roles may move under a request. *)

UsersGrow ==
  /\ madeUsers' \in Nat /\ madeUsers' >= madeUsers
  /\ users' \in [Users -> UserRow]
  /\ \A u \in Users :
       \/ users'[u] = users[u]
       \/ users'[u].uid = 0
       \/ users'[u].uid > madeUsers
       \/ users'[u].uid = users[u].uid /\ users'[u].version > users[u].version

AdminsGrow ==
  /\ now' = now
  /\ \A u \in Users : lastAdmin'[u] = lastAdmin[u] \/ lastAdmin'[u] = now

LinksGrow ==
  \A s \in Subjects :
    \/ links'[s] = links[s]
    \/ links'[s].version > 0 /\ (links[s].version = 0 \/ links'[s].user = links[s].user)

\* The types of what the invariant speaks of most.
LEMMA BasicTypes ==
  ASSUME IdentityTypeOK
  PROVE  /\ Expiry \in Nat /\ MaxClock \in Nat /\ MaxCalls \in Nat
         /\ "admin" \in Users /\ "" \notin Users /\ "" \notin Subjects
         /\ now \in Nat /\ now <= MaxClock /\ madeUsers \in Nat
         /\ calls \in [Callers -> CallState] /\ users \in [Users -> UserRow]
         /\ links \in [Subjects -> LinkRow] /\ lastAdmin \in [Users -> -1..MaxClock]
<1>1. Expiry \in Nat /\ MaxClock \in Nat /\ MaxCalls \in Nat
  BY IdentityAssumption, Zenon
<1>2. "admin" \in Users /\ "" \notin Users /\ "" \notin Subjects
  BY IdentityAssumption, Zenon
<1>3. now \in 0..MaxClock
  BY DEF IdentityTypeOK
<1>4. now \in Nat /\ now <= MaxClock
  BY <1>1, <1>3
<1> QED  BY <1>1, <1>2, <1>4 DEF IdentityTypeOK

\* Being an admin lately stays lately.
LEMMA StillWithin ==
  ASSUME IdentityTypeOK, AdminsGrow, NEW u \in Users, now <= lastAdmin[u] + Expiry
  PROVE  now' <= lastAdmin'[u] + Expiry
<1>1. lastAdmin[u] \in -1..MaxClock /\ now \in Nat /\ Expiry \in Nat /\ MaxClock \in Nat
  BY BasicTypes
<1>2. now' = now /\ (lastAdmin'[u] = lastAdmin[u] \/ lastAdmin'[u] = now)
  BY DEF AdminsGrow
<1> QED  BY <1>1, <1>2

CallsOK == \A c \in Callers : UpdateOK(c) /\ LinkOK(c) /\ RoleOK(c)

\* A request that does nothing keeps what it may rely on.
LEMMA OthersKeep ==
  ASSUME IdentityInv, NEW d \in Callers, calls'[d] = calls[d], UsersGrow, AdminsGrow, LinksGrow
  PROVE  UpdateOK(d)' /\ LinkOK(d)' /\ RoleOK(d)'
<1>t. /\ calls[d] \in CallState /\ madeUsers \in Nat /\ now \in Nat /\ Expiry \in Nat
      /\ users \in [Users -> UserRow] /\ lastAdmin \in [Users -> -1..MaxClock] /\ MaxClock \in Nat
  BY BasicTypes DEF IdentityInv
<1>1. UpdateOK(d)'
  <2> SUFFICES ASSUME At(d, "update")
               PROVE  /\ Target(d) \in Users /\ calls[d].read.uid \in 1..madeUsers'
                      /\ calls[d].read.uid = users'[Target(d)].uid =>
                           /\ calls[d].read.version <= users'[Target(d)].version
                           /\ calls[d].read.version = users'[Target(d)].version
                                => calls[d].read.hash = users'[Target(d)].hash
    BY DEF UpdateOK, At, Target
  <2>1. /\ Target(d) \in Users /\ calls[d].read.uid \in 1..madeUsers
        /\ calls[d].read.uid = users[Target(d)].uid =>
             /\ calls[d].read.version <= users[Target(d)].version
             /\ calls[d].read.version = users[Target(d)].version
                  => calls[d].read.hash = users[Target(d)].hash
    BY DEF IdentityInv, PasswordInv, UpdateOK
  <2>2. calls[d].read.version \in Nat /\ calls[d].read.uid \in Nat
    BY <1>t DEF CallState, UserRow
  <2>3. users[Target(d)] \in UserRow /\ users'[Target(d)] \in UserRow
    BY <1>t, <2>1 DEF UsersGrow
  <2>4. /\ users[Target(d)].version \in Nat /\ users[Target(d)].uid \in Nat
        /\ users'[Target(d)].version \in Nat /\ users'[Target(d)].uid \in Nat
    BY <2>3 DEF UserRow
  <2>5. madeUsers' \in Nat /\ madeUsers' >= madeUsers
    BY DEF UsersGrow
  <2>6. \/ users'[Target(d)] = users[Target(d)]
        \/ users'[Target(d)].uid = 0
        \/ users'[Target(d)].uid > madeUsers
        \/ /\ users'[Target(d)].uid = users[Target(d)].uid
           /\ users'[Target(d)].version > users[Target(d)].version
    BY <2>1 DEF UsersGrow
  <2> QED  BY <1>t, <2>1, <2>2, <2>4, <2>5, <2>6
<1>2. LinkOK(d)'
  <2>1. ASSUME At(d, "linked") \/ At(d, "relink") \/ (At(d, "mint") /\ calls[d].req.op = "oidc.callback")
        PROVE  calls[d].req.sub \in Subjects
    <3>1. calls[d].todo \in Seq(CallStep) /\ calls[d].todo # <<>>
          /\ ProgramOK(calls[d].todo, calls[d].req)
      BY <2>1, <1>t DEF At, IdentityInv, ProgramInv, CallState
    <3>2. Suits(Head(calls[d].todo).act, calls[d].req)
      BY <3>1, PopProgram
    <3>3. calls[d].req.op = "oidc.callback"
      BY <2>1, <3>2 DEF At, Suits, SignInActs
    <3> QED  BY <3>1, <3>3 DEF IdentityInv, ProgramInv
  <2>2. ASSUME NEW s \in Subjects, NEW u, LinkedTo(s, u)
        PROVE  links'[s].version > 0 /\ links'[s].user = u
    <3>1. links[s].version \in Nat
      BY DEF IdentityInv, IdentityTypeOK, LinkRow
    <3> QED  BY <2>2, <3>1 DEF LinkedTo, LinksGrow
  <2>3. LinkOK(d)
    BY DEF IdentityInv, LinkInv
  <2> QED  BY <2>1, <2>2, <2>3 DEF LinkOK, At, LinkedTo
<1>3. RoleOK(d)'
  <2>1. RoleOK(d) /\ LinkOK(d)
    BY DEF IdentityInv, AdminInv, LinkInv
  <2>2. ASSUME NEW u \in Users, lastAdmin[u] = now PROVE lastAdmin'[u] = now'
    BY <2>2 DEF AdminsGrow
  <2>3. Entitled(d)'
    BY <2>1, StillWithin DEF RoleOK, Entitled, At, IdentityInv
  <2> QED  BY <2>1, <2>2, <2>3 DEF RoleOK, At, Target, ReadNow, LinkOK, AdminsGrow
<1> QED  BY <1>1, <1>2, <1>3

\* The request that takes a step has nothing to rely on afterwards but its
\* role: every request keeps what it may rely on.
LEMMA QuietStep ==
  ASSUME IdentityInv, NEW c \in Callers, NEW ch, Carried(c, ch), Unwatched(c)', Entitled(c)',
         UsersGrow, AdminsGrow, LinksGrow
  PROVE  CallsOK'
<1> SUFFICES ASSUME NEW d \in Callers
             PROVE  UpdateOK(d)' /\ LinkOK(d)' /\ RoleOK(d)'
  BY DEF CallsOK
<1>1. CASE d # c
  BY <1>1, OthersKeep DEF Carried
<1>2. CASE d = c
  BY <1>2 DEF Unwatched, Watched, UpdateOK, LinkOK, RoleOK, At
<1> QED  BY <1>1, <1>2

\* Calls whose result the next call does not use.
Silent == Acts \ {"present", "password", "identity", "linked", "candidate", "provision", "relink"}

\* Such a call has ended well.
LEMMA SilentThen ==
  ASSUME IdentityInv, NEW c \in Callers, NEW ch \in CallState,
         ch.req = calls[c].req, ch.todo = calls[c].todo, ch.who = calls[c].who,
         ch.role = calls[c].role, calls[c].todo # <<>>, Head(calls[c].todo).act \in Silent,
         Then(c, ch, <<>>), UsersGrow, AdminsGrow, LinksGrow
  PROVE  calls' \in [Callers -> CallState] /\ ProgramInv' /\ CallsOK'
<1>1. /\ Carried(c, ch) /\ ProgramInv'
      /\ calls'[c].todo # <<>> =>
           <<Head(calls[c].todo).act, Head(calls'[c].todo).act>> \in CallOrder
  BY ThenStep DEF IdentityInv
<1>2. Unwatched(c)' /\ ~At(c, "bearer")'
  BY <1>1 DEF Unwatched, Watched, Silent, CallOrder, At
<1>3. Entitled(c)'
  <2>1. Entitled(c)
    BY DEF IdentityInv, AdminInv, RoleOK
  <2>2. calls'[c].role = calls[c].role /\ calls'[c].who = calls[c].who
    BY <1>1 DEF Carried
  <2> QED  BY <1>2, <2>1, <2>2, StillWithin DEF Entitled, IdentityInv
<1>4. CallsOK'
  BY <1>1, <1>2, <1>3, QuietStep
<1> QED  BY <1>1, <1>4 DEF Carried

\* A call has failed.
LEMMA SilentAnswer ==
  ASSUME IdentityInv, NEW c \in Callers, calls[c].todo # <<>>, Answered(c),
         UsersGrow, AdminsGrow, LinksGrow
  PROVE  calls' \in [Callers -> CallState] /\ ProgramInv' /\ CallsOK'
<1>1. Carried(c, calls[c]) /\ ProgramInv' /\ calls'[c].todo = <<>>
  BY AnswerStep DEF IdentityInv
<1>2. Unwatched(c)' /\ Entitled(c)'
  BY <1>1 DEF Unwatched, Entitled, At
<1>3. CallsOK'
  BY <1>1, <1>2, QuietStep
<1> QED  BY <1>1, <1>3 DEF Carried

\* What does not change does not shrink.
LEMMA NothingMoves ==
  ASSUME IdentityTypeOK, UNCHANGED <<users, madeUsers, links, lastAdmin, now>>
  PROVE  UsersGrow /\ AdminsGrow /\ LinksGrow
<1>1. madeUsers \in Nat /\ users \in [Users -> UserRow]
  BY BasicTypes
<1> QED  BY <1>1 DEF UsersGrow, AdminsGrow, LinksGrow

\* A step that changes requests, tokens, cookies and keys only.
LEMMA CallsOnly ==
  ASSUME IdentityInv,
         UNCHANGED <<users, links, sessions, now, madeUsers, chosen, lastAdmin, reborn>>,
         tokens' \in [Tokens -> [user : Users \cup {""}, exp : Nat]],
         flow' \in [Callers -> BOOLEAN],
         jwks' \in [signing : {1, 2}, published : SUBSET {1, 2}, cached : SUBSET {1, 2}],
         handled' \in 0..MaxCalls,
         calls' \in [Callers -> CallState], ProgramInv', CallsOK'
  PROVE  IdentityInv'
<1>1. IdentityTypeOK'
  BY DEF IdentityInv, IdentityTypeOK
<1>2. PasswordInv'
  BY DEF IdentityInv, PasswordInv, CallsOK, PasswordIsLastChosen, Known
<1>3. LinkInv'
  BY DEF IdentityInv, LinkInv, CallsOK, LinkedTo
<1>4. AdminInv'
  BY DEF IdentityInv, AdminInv, CallsOK
<1> QED  BY <1>1, <1>2, <1>3, <1>4 DEF IdentityInv

-----------------------------------------------------------------------------
(* The steps. *)

\* What the head of a program says of its request.
LEMMA HeadSuits ==
  ASSUME IdentityInv, NEW c \in Callers, calls[c].todo # <<>>
  PROVE  /\ calls[c] \in CallState /\ Suits(Head(calls[c].todo).act, calls[c].req)
         /\ Head(calls[c].todo) \in CallStep
         /\ calls[c].req.op \in Operations
         /\ calls[c].req.op = "oidc.callback" <=> calls[c].req.sub \in Subjects
<1>1. calls[c] \in CallState /\ ProgramOK(calls[c].todo, calls[c].req)
  BY BasicTypes DEF IdentityInv, ProgramInv
<1>2. calls[c].todo \in Seq(CallStep)
  BY <1>1 DEF CallState
<1> QED  BY <1>1, <1>2, PopProgram DEF IdentityInv, ProgramInv

\* A request that has been let in runs its program.
LEMMA LetIn ==
  ASSUME IdentityInv, NEW c \in Callers, calls[c].todo # <<>>,
         Head(calls[c].todo).act \in {"session", "holder"},
         NEW who \in Users, NEW role \in ValidRoles \cup {""},
         role = "admin" => now <= lastAdmin[who] + Expiry,
         calls' = [calls EXCEPT ![c] = [@ EXCEPT !.who = who, !.role = role,
                     !.todo = Router(calls[c].req, who, role)]],
         UNCHANGED <<users, madeUsers, links, lastAdmin, now>>
  PROVE  calls' \in [Callers -> CallState] /\ ProgramInv' /\ CallsOK'
<1> DEFINE k == [calls[c] EXCEPT !.who = who, !.role = role,
                                 !.todo = Router(calls[c].req, who, role)]
<1>1. /\ calls[c] \in CallState /\ calls[c].req.op \in Operations
      /\ calls[c].req.op = "oidc.callback" <=> calls[c].req.sub \in Subjects
      /\ calls[c].req.op \notin {"login", "oidc.login", "oidc.callback"}
  BY HeadSuits DEF Suits
<1>2. Startable(Router(calls[c].req, who, role), calls[c].req)
  BY <1>1, RouterStarts
<1>3. /\ k \in CallState /\ k.req = calls[c].req /\ k.todo = Router(calls[c].req, who, role)
      /\ k.who = who /\ k.role = role
  BY <1>1, <1>2 DEF CallState, Startable
<1>4. calls' = [calls EXCEPT ![c] = k]
  OBVIOUS
<1> HIDE DEF k
<1>5. /\ ProgramOK(k.todo, k.req)
      /\ k.todo # <<>> => Head(k.todo).act \notin Watched
      /\ k.todo # <<>> => Head(k.todo).act # "bearer"
  BY <1>2, <1>3 DEF Startable
<1>6. Carried(c, k) /\ ProgramInv' /\ Unwatched(c)' /\ calls'[c].todo = k.todo
  <2>1. k \in CallState /\ k.req.op \in Operations
        /\ (k.req.op = "oidc.callback" <=> k.req.sub \in Subjects)
    BY <1>1, <1>3
  <2>2. IdentityTypeOK /\ ProgramInv
    BY DEF IdentityInv
  <2> QED  BY <2>1, <2>2, <1>4, <1>5, StartStep
<1>7. Entitled(c)'
  <2>1. calls'[c].role = role /\ calls'[c].who = who
    BY <1>3, <1>6 DEF Carried
  <2> QED  BY <1>5, <1>6, <2>1 DEF Entitled, At
<1>8. CallsOK'
  BY <1>6, <1>7, NothingMoves, QuietStep DEF IdentityInv
<1> QED  BY <1>6, <1>8 DEF Carried

\* authenticateWith: a session that has not expired was minted for an admin
\* at most an expiry ago.
LEMMA AuthenticateStep ==
  ASSUME IdentityInv, NEW c \in Callers, Authenticate(c)
  PROVE  IdentityInv'
<1>1. calls[c].todo # <<>> /\ Head(calls[c].todo).act = "session"
  BY DEF Authenticate, At
<1>2. PICK s \in sessions :
        IF ValidateToken(s)
        THEN calls' = [calls EXCEPT ![c] = [@ EXCEPT !.who = s.user, !.role = s.role,
               !.todo = Router(calls[c].req, s.user, s.role)]]
        ELSE Answered(c)
  BY DEF Authenticate
<1>3. s.user \in Users /\ s.role \in ValidRoles /\ s.exp \in Nat
  BY DEF IdentityInv, IdentityTypeOK
<1>4. calls' \in [Callers -> CallState] /\ ProgramInv' /\ CallsOK'
  <2>1. CASE ValidateToken(s)
    <3>1. s.role = "admin" => s.exp <= lastAdmin[s.user] + Expiry
      BY DEF IdentityInv, AdminInv
    <3>2. /\ now \in Nat /\ Expiry \in Nat /\ MaxClock \in Nat
          /\ lastAdmin[s.user] \in -1..MaxClock
      BY <1>3, BasicTypes DEF IdentityInv
    <3>3. s.role = "admin" => now <= lastAdmin[s.user] + Expiry
      BY <1>3, <2>1, <3>1, <3>2 DEF ValidateToken
    <3>4. UNCHANGED <<users, madeUsers, links, lastAdmin, now>>
      BY DEF Authenticate
    <3> QED  BY <1>1, <1>2, <1>3, <2>1, <3>3, <3>4, LetIn
  <2>2. CASE ~ValidateToken(s)
    <3>1. UsersGrow /\ AdminsGrow /\ LinksGrow
      BY NothingMoves DEF IdentityInv, Authenticate
    <3> QED  BY <1>1, <1>2, <2>2, <3>1, SilentAnswer
  <2> QED  BY <2>1, <2>2
<1> QED  BY <1>4, CallsOnly DEF Authenticate, IdentityInv, IdentityTypeOK

\* VerifyAPIToken: a token counts for what its user is at the moment.
LEMMA VerifyAPITokenStep ==
  ASSUME IdentityInv, NEW c \in Callers, VerifyAPIToken(c)
  PROVE  IdentityInv'
<1>g. UsersGrow /\ AdminsGrow /\ LinksGrow
  BY NothingMoves DEF IdentityInv, VerifyAPIToken
<1>1. ASSUME At(c, "bearer"), NEW t \in Tokens,
             Then(c, [calls[c] EXCEPT !.who = tokens[t].user], << Do("holder", 401) >>)
      PROVE  calls' \in [Callers -> CallState] /\ ProgramInv' /\ CallsOK'
  <2> DEFINE ch == [calls[c] EXCEPT !.who = tokens[t].user]
             a == Do("holder", 401)
  <2>1. calls[c].todo # <<>> /\ Head(calls[c].todo).act = "bearer" /\ calls[c].role = ""
    BY <1>1 DEF At, IdentityInv, AdminInv, RoleOK, Entitled
  <2>2. calls[c] \in CallState /\ calls[c].todo \in Seq(CallStep) /\ Suits("bearer", calls[c].req)
        /\ ProgramOK(calls[c].todo, calls[c].req)
    BY <2>1, HeadSuits DEF CallState, IdentityInv, ProgramInv
  <2>3. tokens[t].user \in Users \cup {""}
    BY DEF IdentityInv, IdentityTypeOK
  <2>4. /\ ch \in CallState /\ ch.req = calls[c].req /\ ch.todo = calls[c].todo
        /\ ch.role = calls[c].role
    BY <2>2, <2>3 DEF CallState
  <2>5. a \in CallStep /\ a.act = "holder" /\ Suits(a.act, calls[c].req)
    BY <2>2, DoStep DEF Acts, Suits, SignInActs
  <2> HIDE DEF ch, a
  <2>6. Tail(calls[c].todo) \in Seq(CallStep) /\ ProgramOK(Tail(calls[c].todo), calls[c].req)
        /\ Tail(calls[c].todo) = <<>>
    BY <2>1, <2>2, PopProgram DEF CallOrder
  <2>7. /\ <<a>> \o Tail(calls[c].todo) \in Seq(CallStep)
        /\ ProgramOK(<<a>> \o Tail(calls[c].todo), calls[c].req)
        /\ Head(<<a>> \o Tail(calls[c].todo)) = a
    BY <2>5, <2>6, PushProgram
  <2>8. Then(c, ch, <<a>>)
    BY <1>1 DEF ch, a
  <2>9. Carried(c, ch) /\ ProgramInv' /\ calls'[c].todo = <<a>> \o Tail(calls[c].todo)
    BY <2>1, <2>4, <2>7, <2>8, ThenMore DEF IdentityInv
  <2>10. Head(calls'[c].todo).act = "holder" /\ calls'[c].role = ""
    BY <2>1, <2>4, <2>5, <2>7, <2>9 DEF Carried
  <2>11. Unwatched(c)' /\ Entitled(c)'
    BY <2>10 DEF Unwatched, Watched, Entitled, At
  <2> QED  BY <2>9, <2>11, <1>g, QuietStep DEF Carried
<1>2. ASSUME At(c, "holder"), Known(calls[c].who),
             calls' = [calls EXCEPT ![c] = [@ EXCEPT !.role = users[calls[c].who].role,
                    !.todo = Router(calls[c].req, calls[c].who, users[calls[c].who].role)]]
      PROVE  calls' \in [Callers -> CallState] /\ ProgramInv' /\ CallsOK'
  <2> DEFINE u == calls[c].who
             r == users[u].role
  <2>1. calls[c].todo # <<>> /\ Head(calls[c].todo).act = "holder" /\ calls[c] \in CallState
    BY <1>2, HeadSuits DEF At
  <2>2. u \in Users /\ r \in ValidRoles \cup {""}
    BY <1>2, BasicTypes DEF Known, UserRow, IdentityInv
  <2>3. r = "admin" => now <= lastAdmin[u] + Expiry
    <3>1. r = "admin" => lastAdmin[u] = now
      BY <2>2 DEF IdentityInv, AdminInv
    <3>2. now \in Nat /\ Expiry \in Nat
      BY BasicTypes DEF IdentityInv
    <3> QED  BY <3>1, <3>2
  <2>4. [calls[c] EXCEPT !.role = r, !.todo = Router(calls[c].req, u, r)]
        = [calls[c] EXCEPT !.who = u, !.role = r, !.todo = Router(calls[c].req, u, r)]
    BY <2>1 DEF CallState
  <2>5. UNCHANGED <<users, madeUsers, links, lastAdmin, now>>
    BY DEF VerifyAPIToken
  <2>6. calls' = [calls EXCEPT ![c] = [@ EXCEPT !.who = u, !.role = r,
                    !.todo = Router(calls[c].req, u, r)]]
    BY <1>2, <2>4
  <2> QED  BY <2>1, <2>2, <2>3, <2>5, <2>6, LetIn
<1>3. ASSUME At(c, "bearer") \/ At(c, "holder"), Answered(c)
      PROVE  calls' \in [Callers -> CallState] /\ ProgramInv' /\ CallsOK'
  BY <1>3, <1>g, SilentAnswer DEF At
<1>4. calls' \in [Callers -> CallState] /\ ProgramInv' /\ CallsOK'
  BY <1>1, <1>2, <1>3 DEF VerifyAPIToken
<1> QED  BY <1>4, CallsOnly DEF VerifyAPIToken, IdentityInv, IdentityTypeOK

\* Store.GetUser and CheckPassword: what was read is what is stored.
LEMMA GetUserStep ==
  ASSUME IdentityInv, NEW c \in Callers, GetUser(c)
  PROVE  IdentityInv'
<1>g. UsersGrow /\ AdminsGrow /\ LinksGrow
  BY NothingMoves DEF IdentityInv, GetUser
<1>u. UNCHANGED <<users, madeUsers, links, lastAdmin, now>>
  BY DEF GetUser
<1>t. /\ calls[c] \in CallState /\ madeUsers \in Nat /\ users \in [Users -> UserRow]
      /\ IdentityTypeOK /\ ProgramInv
  BY BasicTypes DEF IdentityInv
<1>1. ASSUME At(c, "present"), Known(Target(c)),
             Then(c, [calls[c] EXCEPT !.read = users[Target(c)]], <<>>)
      PROVE  calls' \in [Callers -> CallState] /\ ProgramInv' /\ CallsOK'
  <2> DEFINE ch == [calls[c] EXCEPT !.read = users[Target(c)]]
  <2>1. calls[c].todo # <<>> /\ Head(calls[c].todo).act = "present" /\ Target(c) \in Users
        /\ users[Target(c)].uid # 0
    BY <1>1 DEF At, Known
  <2>2. /\ ch \in CallState /\ ch.req = calls[c].req /\ ch.todo = calls[c].todo
        /\ ch.role = calls[c].role /\ ch.who = calls[c].who /\ ch.read = users[Target(c)]
    BY <1>t, <2>1 DEF CallState
  <2>3. Then(c, ch, <<>>)
    BY <1>1
  <2> HIDE DEF ch
  <2>4. /\ Carried(c, ch) /\ ProgramInv'
        /\ calls'[c].todo # <<>> => <<"present", Head(calls'[c].todo).act>> \in CallOrder
    BY <1>t, <2>1, <2>2, <2>3, ThenStep
  <2>5. calls'[c].todo # <<>> => Head(calls'[c].todo).act \in {"update", "issue", "deny", "password"}
    BY <2>4 DEF CallOrder
  <2>6. /\ calls'[c].req = calls[c].req /\ calls'[c].role = calls[c].role
        /\ calls'[c].who = calls[c].who /\ calls'[c].read = users[Target(c)]
    BY <2>2, <2>4 DEF Carried
  <2>7. UpdateOK(c)'
    <3>1. users[Target(c)] \in UserRow /\ users[Target(c)].uid <= madeUsers
      BY <1>t, <2>1 DEF IdentityInv, PasswordInv
    <3>a. users[Target(c)].uid \in Nat /\ users[Target(c)].version \in Nat
      BY <3>1 DEF UserRow
    <3>2. users[Target(c)].uid \in 1..madeUsers /\ users[Target(c)].version \in Nat
      BY <1>t, <2>1, <3>1, <3>a
    <3> QED  BY <1>u, <2>1, <2>6, <3>2 DEF UpdateOK, Target
  <2>8. LinkOK(c)'
    BY <2>5 DEF LinkOK, At
  <2>9. RoleOK(c)'
    <3>1. Entitled(c)'
      <4>1. Entitled(c)
        BY DEF IdentityInv, AdminInv, RoleOK
      <4> QED  BY <1>u, <2>1, <2>5, <2>6, <4>1 DEF Entitled, At
    <3>2. users[Target(c)].role = "admin" => lastAdmin[Target(c)] = now
      BY <2>1 DEF IdentityInv, AdminInv
    <3> QED  BY <1>u, <2>1, <2>5, <2>6, <3>1, <3>2 DEF RoleOK, At, Target, ReadNow
  <2>10. ASSUME NEW d \in Callers, d # c PROVE UpdateOK(d)' /\ LinkOK(d)' /\ RoleOK(d)'
    BY <1>g, <2>4, <2>10, OthersKeep DEF Carried
  <2>11. CallsOK'
    BY <2>7, <2>8, <2>9, <2>10 DEF CallsOK
  <2> QED  BY <2>4, <2>11 DEF Carried
<1>2. ASSUME At(c, "password"), Then(c, calls[c], <<>>)
      PROVE  calls' \in [Callers -> CallState] /\ ProgramInv' /\ CallsOK'
  <2>1. calls[c].todo # <<>> /\ Head(calls[c].todo).act = "password"
    BY <1>2 DEF At
  <2>2. /\ Carried(c, calls[c]) /\ ProgramInv'
        /\ calls'[c].todo # <<>> => <<"password", Head(calls'[c].todo).act>> \in CallOrder
    BY <1>t, <1>2, <2>1, ThenStep
  <2>3. calls'[c].todo # <<>> => Head(calls'[c].todo).act = "mint"
    BY <2>2 DEF CallOrder
  <2>4. /\ calls'[c].req = calls[c].req /\ calls'[c].role = calls[c].role
        /\ calls'[c].who = calls[c].who /\ calls'[c].read = calls[c].read
    BY <2>2 DEF Carried
  <2>5. calls[c].req.op = "login"
    BY <2>1, HeadSuits DEF Suits
  <2>6. UpdateOK(c)' /\ LinkOK(c)'
    BY <2>3, <2>4, <2>5 DEF UpdateOK, LinkOK, At
  <2>7. RoleOK(c)'
    <3>1. RoleOK(c)
      BY DEF IdentityInv, AdminInv
    <3> QED  BY <1>u, <2>1, <2>3, <2>4, <2>5, <3>1 DEF RoleOK, Entitled, At, Target, ReadNow
  <2>8. ASSUME NEW d \in Callers, d # c PROVE UpdateOK(d)' /\ LinkOK(d)' /\ RoleOK(d)'
    BY <1>g, <2>2, <2>8, OthersKeep DEF Carried
  <2>9. CallsOK'
    BY <2>6, <2>7, <2>8 DEF CallsOK
  <2> QED  BY <2>2, <2>9 DEF Carried
<1>3. ASSUME At(c, "absent"), Then(c, calls[c], <<>>)
      PROVE  calls' \in [Callers -> CallState] /\ ProgramInv' /\ CallsOK'
  BY <1>3, <1>g, <1>t, SilentThen DEF At, Silent, Acts
<1>4. ASSUME calls[c].todo # <<>>, Answered(c)
      PROVE  calls' \in [Callers -> CallState] /\ ProgramInv' /\ CallsOK'
  BY <1>4, <1>g, SilentAnswer
<1>5. calls' \in [Callers -> CallState] /\ ProgramInv' /\ CallsOK'
  <2>1. CASE At(c, "present")
    <3>1. calls[c].todo # <<>>
      BY <2>1 DEF At
    <3> QED  BY <2>1, <3>1, <1>1, <1>4 DEF GetUser, At
  <2>2. CASE At(c, "absent")
    BY <2>2, <1>3, <1>4 DEF GetUser, At
  <2>3. CASE At(c, "password")
    BY <2>3, <1>2, <1>4 DEF GetUser, At
  <2>4. CASE At(c, "deny")
    BY <2>4, <1>4 DEF GetUser, At
  <2> QED  BY <2>1, <2>2, <2>3, <2>4 DEF GetUser
<1> QED  BY <1>5, CallsOnly DEF GetUser, IdentityInv, IdentityTypeOK

\* API tokens are issued, looked up and revoked: no row and no link moves.
LEMMA APITokenStep ==
  ASSUME IdentityInv, NEW c \in Callers, APIToken(c)
  PROVE  IdentityInv'
<1>g. UsersGrow /\ AdminsGrow /\ LinksGrow
  BY NothingMoves DEF IdentityInv, APIToken
<1>t. /\ calls[c] \in CallState /\ now \in Nat
      /\ tokens \in [Tokens -> [user : Users \cup {""}, exp : Nat]]
  BY BasicTypes DEF IdentityInv, IdentityTypeOK
<1>q. calls[c].req.user \in Users \cup {""} /\ calls[c].req.days \in Nat
  BY <1>t DEF CallState, CallRequest
<1>1. tokens' \in [Tokens -> [user : Users \cup {""}, exp : Nat]]
  <2>1. CASE UNCHANGED tokens
    BY <2>1, <1>t
  <2>2. ASSUME NEW t \in Tokens,
               tokens' = [tokens EXCEPT ![t] = [user |-> calls[c].req.user,
                  exp |-> IF calls[c].req.days > 0 THEN now + calls[c].req.days ELSE 0]]
        PROVE  tokens' \in [Tokens -> [user : Users \cup {""}, exp : Nat]]
    <3>a. now \in Nat
      BY <1>t
    <3>b. calls[c].req.days \in Nat
      BY <1>q
    <3>0. now + calls[c].req.days \in Nat
      BY <3>a, <3>b
    <3>1. (IF calls[c].req.days > 0 THEN now + calls[c].req.days ELSE 0) \in Nat
      BY <3>0
    <3> QED  BY <1>t, <1>q, <2>2, <3>1
  <2>3. CASE tokens' = [tokens EXCEPT ![calls[c].req.tok] = NoToken]
    BY <2>3, <1>t DEF NoToken
  <2> QED  BY <2>1, <2>2, <2>3 DEF APIToken
<1>2. ASSUME calls[c].todo # <<>>, Head(calls[c].todo).act \in {"issue", "token", "owner", "revoke"},
             Then(c, calls[c], <<>>)
      PROVE  calls' \in [Callers -> CallState] /\ ProgramInv' /\ CallsOK'
  BY <1>2, <1>g, <1>t, SilentThen DEF Silent, Acts
<1>3. ASSUME At(c, "token"), calls[c].req.tok \in Tokens,
             Then(c, [calls[c] EXCEPT !.tok = tokens[calls[c].req.tok].user], <<>>)
      PROVE  calls' \in [Callers -> CallState] /\ ProgramInv' /\ CallsOK'
  <2> DEFINE ch == [calls[c] EXCEPT !.tok = tokens[calls[c].req.tok].user]
  <2>1. /\ ch \in CallState /\ ch.req = calls[c].req /\ ch.todo = calls[c].todo
        /\ ch.role = calls[c].role /\ ch.who = calls[c].who
    BY <1>t, <1>3 DEF CallState
  <2>2. Then(c, ch, <<>>)
    BY <1>3
  <2> HIDE DEF ch
  <2> QED  BY <1>3, <1>g, <2>1, <2>2, SilentThen DEF At, Silent, Acts
<1>4. ASSUME calls[c].todo # <<>>, Answered(c)
      PROVE  calls' \in [Callers -> CallState] /\ ProgramInv' /\ CallsOK'
  BY <1>4, <1>g, SilentAnswer
<1>5. calls' \in [Callers -> CallState] /\ ProgramInv' /\ CallsOK'
  BY <1>2, <1>3, <1>4 DEF APIToken, At
<1> QED  BY <1>1, <1>5, CallsOnly DEF APIToken, IdentityInv, IdentityTypeOK

\* GenerateToken: the session is for the user the subject is linked to, and of
\* a role that was read in this tick.
LEMMA GenerateTokenStep ==
  ASSUME IdentityInv, NEW c \in Callers, GenerateToken(c)
  PROVE  IdentityInv'
<1> DEFINE q == calls[c].req
           user == IF q.op = "login" THEN q.user ELSE calls[c].link.user
           made == [user |-> user, role |-> calls[c].read.role, exp |-> now + Expiry, sub |-> q.sub]
<1>g. UsersGrow /\ AdminsGrow /\ LinksGrow
  BY NothingMoves DEF IdentityInv, GenerateToken
<1>t. calls[c] \in CallState /\ now \in Nat /\ Expiry \in Nat /\ "" \notin Subjects
  BY BasicTypes DEF IdentityInv
<1>1. calls[c].todo # <<>> /\ Head(calls[c].todo).act = "mint" /\ At(c, "mint")
  BY DEF GenerateToken, At
<1>2. /\ q.op \in {"login", "oidc.callback"}
      /\ q.op = "oidc.callback" <=> q.sub \in Subjects
      /\ q.sub \in Subjects \cup {""}
  BY <1>t, <1>1, HeadSuits DEF Suits, CallState, CallRequest
<1>3. user \in Users /\ (calls[c].read.role = "admin" => lastAdmin[user] = now)
  <2>1. RoleOK(c) /\ LinkOK(c)
    BY DEF IdentityInv, AdminInv, LinkInv
  <2> QED  BY <1>1, <1>2, <2>1 DEF RoleOK, LinkOK, ReadNow, Target
<1>4. q.sub # "" => LinkedTo(q.sub, user)
  <2>1. LinkOK(c)
    BY DEF IdentityInv, LinkInv
  <2> QED  BY <1>1, <1>2, <2>1 DEF LinkOK
<1> HIDE DEF user
<1>5. calls' \in [Callers -> CallState] /\ ProgramInv' /\ CallsOK'
  <2>1. CASE Then(c, calls[c], <<>>)
    BY <1>t, <1>1, <1>g, <2>1, SilentThen DEF Silent, Acts
  <2>2. CASE Answered(c)
    BY <1>1, <1>g, <2>2, SilentAnswer
  <2> QED  BY <2>1, <2>2 DEF GenerateToken
<1>6. CASE UNCHANGED sessions
  BY <1>5, <1>6, CallsOnly DEF GenerateToken, IdentityInv, IdentityTypeOK
<1>7. CASE calls[c].read.role \in ValidRoles /\ sessions' = sessions \cup {made}
  <2>0. now \in Nat /\ Expiry \in Nat
    BY <1>t
  <2>1. now + Expiry \in Nat
    BY <2>0
  <2>2. made \in [user : Users, role : ValidRoles, exp : Nat, sub : Subjects \cup {""}]
    BY <1>2, <1>3, <1>7, <2>1
  <2>3. made.user = user /\ made.sub = q.sub /\ made.role = calls[c].read.role
        /\ made.exp = now + Expiry
    OBVIOUS
  <2> HIDE DEF made
  <2>4. IdentityTypeOK'
    BY <1>5, <1>7, <2>2 DEF GenerateToken, IdentityInv, IdentityTypeOK
  <2>5. PasswordInv'
    BY <1>5 DEF GenerateToken, IdentityInv, PasswordInv, CallsOK, PasswordIsLastChosen, Known
  <2>6. LinkInv'
    <3>1. \A s \in sessions' : s.sub # "" => LinkedTo(s.sub, s.user)
      BY <1>4, <1>7, <2>3 DEF IdentityInv, LinkInv
    <3> QED  BY <1>5, <3>1 DEF GenerateToken, IdentityInv, LinkInv, CallsOK, LinkedTo
  <2>7. AdminInv'
    <3>1. made.role = "admin" => made.exp <= lastAdmin[made.user] + Expiry
      <4>1. made.role = "admin" => lastAdmin[made.user] + Expiry = made.exp
        BY <1>3, <2>3
      <4> QED  BY <4>1, <2>1, <2>3
    <3>2. \A s \in sessions' : s.role = "admin" => s.exp <= lastAdmin[s.user] + Expiry
      BY <1>7, <3>1 DEF IdentityInv, AdminInv
    <3> QED  BY <1>5, <3>2 DEF GenerateToken, IdentityInv, AdminInv, CallsOK
  <2> QED  BY <1>5, <2>4, <2>5, <2>6, <2>7 DEF IdentityInv
<1> QED  BY <1>6, <1>7 DEF GenerateToken, user

\* The browser goes to the provider and comes back: nothing is decided yet.
LEMMA SignInStep ==
  ASSUME IdentityInv, NEW c \in Callers, signIn(c)
  PROVE  IdentityInv'
<1>g. UsersGrow /\ AdminsGrow /\ LinksGrow
  BY NothingMoves DEF IdentityInv, signIn
<1>t. calls[c] \in CallState /\ jwks.signing \in {1, 2} /\ flow \in [Callers -> BOOLEAN]
  BY BasicTypes DEF IdentityInv, IdentityTypeOK
<1>1. ASSUME calls[c].todo # <<>>, Head(calls[c].todo).act \in {"discover", "flow", "cookie"},
             Then(c, calls[c], <<>>)
      PROVE  calls' \in [Callers -> CallState] /\ ProgramInv' /\ CallsOK'
  BY <1>1, <1>g, <1>t, SilentThen DEF Silent, Acts
<1>2. ASSUME At(c, "exchange"), Then(c, [calls[c] EXCEPT !.kid = jwks.signing], <<>>)
      PROVE  calls' \in [Callers -> CallState] /\ ProgramInv' /\ CallsOK'
  <2> DEFINE ch == [calls[c] EXCEPT !.kid = jwks.signing]
  <2>0. jwks.signing \in 0..2
    BY <1>t
  <2>1. /\ ch \in CallState /\ ch.req = calls[c].req /\ ch.todo = calls[c].todo
        /\ ch.role = calls[c].role /\ ch.who = calls[c].who
    BY <1>t, <2>0 DEF CallState
  <2>2. Then(c, ch, <<>>)
    BY <1>2
  <2> HIDE DEF ch
  <2> QED  BY <1>2, <1>g, <2>1, <2>2, SilentThen DEF At, Silent, Acts
<1>3. ASSUME calls[c].todo # <<>>, Answered(c)
      PROVE  calls' \in [Callers -> CallState] /\ ProgramInv' /\ CallsOK'
  BY <1>3, <1>g, SilentAnswer
<1>4. calls' \in [Callers -> CallState] /\ ProgramInv' /\ CallsOK'
  BY <1>1, <1>2, <1>3 DEF signIn, At
<1>5. flow' \in [Callers -> BOOLEAN]
  BY <1>t DEF signIn
<1> QED  BY <1>4, <1>5, CallsOnly DEF signIn, IdentityInv, IdentityTypeOK

\* VerifyIDToken with the provider's keys.
LEMMA KeyAtStep ==
  ASSUME IdentityInv, NEW c \in Callers, keyAt(c)
  PROVE  IdentityInv'
<1>g. UsersGrow /\ AdminsGrow /\ LinksGrow
  BY NothingMoves DEF IdentityInv, keyAt
<1>t. /\ calls[c] \in CallState
      /\ jwks \in [signing : {1, 2}, published : SUBSET {1, 2}, cached : SUBSET {1, 2}]
  BY BasicTypes DEF IdentityInv, IdentityTypeOK
<1>1. calls[c].todo # <<>> /\ Head(calls[c].todo).act = "verify"
  BY DEF keyAt, At
<1>2. calls' \in [Callers -> CallState] /\ ProgramInv' /\ CallsOK'
  <2>1. CASE Then(c, calls[c], <<>>)
    BY <1>t, <1>1, <1>g, <2>1, SilentThen DEF Silent, Acts
  <2>2. CASE Answered(c)
    BY <1>1, <1>g, <2>2, SilentAnswer
  <2> QED  BY <2>1, <2>2 DEF keyAt
<1>3. jwks' \in [signing : {1, 2}, published : SUBSET {1, 2}, cached : SUBSET {1, 2}]
  BY <1>t DEF keyAt
<1> QED  BY <1>2, <1>3, CallsOnly DEF keyAt, IdentityInv, IdentityTypeOK

\* A connection without a request is well-formed.
LEMMA WaitingIsCall == Waiting \in CallState /\ Waiting.role = "" /\ Waiting.todo = <<>>
<1>1. NoCall \in CallRequest
  BY DEF NoCall, CallRequest
<1>2. NoUser \in UserRow /\ NoLink \in LinkRow /\ 0 \in 0..2
  BY DEF NoUser, NoLink, UserRow, LinkRow
<1>3. <<>> \in Seq(CallStep)
  BY ProgramEmpty
<1> QED  BY <1>1, <1>2, <1>3 DEF Waiting, CallState

\* A request arrives with nothing but its credentials.
LEMMA RequestStep ==
  ASSUME IdentityInv, NEW c \in Callers, Request(c)
  PROVE  IdentityInv'
<1>g. UsersGrow /\ AdminsGrow /\ LinksGrow
  BY NothingMoves DEF IdentityInv, Request
<1>1. PICK q \in UserRequests, credential \in {"session", "bearer"} :
        calls' = [calls EXCEPT ![c] = [Waiting EXCEPT !.req = q,
            !.todo = IF q.op \in {"login", "oidc.login", "oidc.callback"} THEN Public(q)
                     ELSE << Do(credential, 401) >>]]
  BY DEF Request
<1> DEFINE t == IF q.op \in {"login", "oidc.login", "oidc.callback"} THEN Public(q)
                ELSE << Do(credential, 401) >>
           k == [Waiting EXCEPT !.req = q, !.todo = t]
<1>2. /\ q \in CallRequest /\ q.op \in Operations
      /\ q.op = "oidc.callback" <=> q.sub \in Subjects
  BY IdentityAssumption
<1>3. /\ t \in Seq(CallStep) /\ ProgramOK(t, q)
      /\ t # <<>> => Head(t).act \notin Watched
  <2>1. CASE q.op \in {"login", "oidc.login", "oidc.callback"}
    BY <2>1, PublicStarts DEF Startable
  <2>2. CASE q.op \notin {"login", "oidc.login", "oidc.callback"}
    <3>1. Do(credential, 401) \in CallStep /\ Do(credential, 401).act = credential
      BY DoStep DEF Acts
    <3>2. Suits(credential, q) /\ credential \notin Watched
      BY <2>2 DEF Suits, SignInActs, Watched
    <3>3. /\ << Do(credential, 401) >> \in Seq(CallStep) /\ ProgramOK(<< Do(credential, 401) >>, q)
          /\ Head(<< Do(credential, 401) >>) = Do(credential, 401)
      BY <3>1, <3>2, Program1
    <3> QED  BY <2>2, <3>1, <3>2, <3>3
  <2> QED  BY <2>1, <2>2
<1>4. calls' = [calls EXCEPT ![c] = k]
  BY <1>1
<1> HIDE DEF t
<1>5. k \in CallState /\ k.req = q /\ k.todo = t /\ k.role = ""
  <2>1. Waiting \in CallState /\ Waiting.role = ""
    BY WaitingIsCall
  <2> QED  BY <1>2, <1>3, <2>1 DEF CallState
<1> HIDE DEF k
<1>6. Carried(c, k) /\ ProgramInv' /\ Unwatched(c)'
  <2>1. IdentityTypeOK /\ ProgramInv
    BY DEF IdentityInv
  <2> QED  BY <1>2, <1>3, <1>4, <1>5, <2>1, StartStep
<1>7. Entitled(c)'
  BY <1>5, <1>6 DEF Carried, Entitled
<1>8. CallsOK'
  BY <1>6, <1>7, <1>g, QuietStep
<1>9. handled' \in 0..MaxCalls
  <2>1. handled \in 0..MaxCalls /\ MaxCalls \in Nat
    BY BasicTypes DEF IdentityInv, IdentityTypeOK
  <2> QED  BY <2>1 DEF Request
<1> QED  BY <1>6, <1>8, <1>9, CallsOnly DEF Request, Carried, IdentityInv, IdentityTypeOK

\* The provider's keys change: no request notices before it verifies.
LEMMA RotateKeysStep ==
  ASSUME IdentityInv, RotateKeys
  PROVE  IdentityInv'
<1>1. /\ jwks \in [signing : {1, 2}, published : SUBSET {1, 2}, cached : SUBSET {1, 2}]
      /\ calls' = calls
  BY DEF IdentityInv, IdentityTypeOK, RotateKeys
<1>2. jwks' \in [signing : {1, 2}, published : SUBSET {1, 2}, cached : SUBSET {1, 2}]
  <2>1. CASE jwks' = [jwks EXCEPT !.signing = 2, !.published = {1, 2}]
    BY <1>1, <2>1
  <2>2. CASE jwks' = [jwks EXCEPT !.published = {2}]
    BY <1>1, <2>2
  <2>3. CASE jwks' = [jwks EXCEPT !.cached = {}]
    BY <1>1, <2>3
  <2> QED  BY <2>1, <2>2, <2>3 DEF RotateKeys
<1>3. UsersGrow /\ AdminsGrow /\ LinksGrow
  BY NothingMoves DEF IdentityInv, RotateKeys
<1>4. CallsOK'
  BY <1>1, <1>3, OthersKeep DEF CallsOK
<1>5. ProgramInv'
  BY <1>1 DEF IdentityInv, ProgramInv, ProgramOK, Suits
<1> QED  BY <1>1, <1>2, <1>4, <1>5, CallsOnly DEF RotateKeys, IdentityInv, IdentityTypeOK

\* A row changes: whoever is an admin before or after is one now.
LEMMA SetUserStep ==
  ASSUME IdentityInv, NEW u, NEW row \in UserRow, SetUser(u, row), now' = now
  PROVE  /\ users' \in [Users -> UserRow] /\ lastAdmin' \in [Users -> -1..MaxClock]
         /\ AdminsGrow
         /\ \A v \in Users : v # u => users'[v] = users[v]
         /\ u \in Users => users'[u] = row
         /\ \A v \in Users : lastAdmin'[v] <= now /\ (users'[v].role = "admin" => lastAdmin'[v] = now)
         /\ \A s \in sessions : s.role = "admin" => s.exp <= lastAdmin'[s.user] + Expiry
<1>t. /\ users \in [Users -> UserRow] /\ lastAdmin \in [Users -> -1..MaxClock]
      /\ now \in Nat /\ now <= MaxClock /\ MaxClock \in Nat /\ Expiry \in Nat
  BY BasicTypes DEF IdentityInv
<1>1. /\ users' \in [Users -> UserRow]
      /\ \A v \in Users : v # u => users'[v] = users[v]
      /\ u \in Users => users'[u] = row
  BY <1>t DEF SetUser
<1>2. ASSUME NEW v \in Users
      PROVE  lastAdmin'[v] = IF v = u /\ (row.role = "admin" \/ users[u].role = "admin")
                             THEN now ELSE lastAdmin[v]
  BY <1>t DEF SetUser
<1>3. lastAdmin' \in [Users -> -1..MaxClock]
  <2>1. now \in -1..MaxClock
    BY <1>t
  <2> QED  BY <1>t, <2>1 DEF SetUser
<1>4. AdminsGrow
  BY <1>2 DEF AdminsGrow
<1>5. ASSUME NEW v \in Users
      PROVE  lastAdmin'[v] <= now /\ (users'[v].role = "admin" => lastAdmin'[v] = now)
  <2>1. lastAdmin[v] <= now /\ (users[v].role = "admin" => lastAdmin[v] = now)
    BY DEF IdentityInv, AdminInv
  <2> QED  BY <1>t, <1>1, <1>2, <2>1
<1>6. ASSUME NEW s \in sessions, s.role = "admin" PROVE s.exp <= lastAdmin'[s.user] + Expiry
  <2>1. s.exp \in Nat /\ s.user \in Users
    BY DEF IdentityInv, IdentityTypeOK
  <2>2. s.exp <= lastAdmin[s.user] + Expiry /\ lastAdmin[s.user] <= now
    BY <1>6, <2>1 DEF IdentityInv, AdminInv
  <2>3. lastAdmin'[s.user] = lastAdmin[s.user] \/ lastAdmin'[s.user] = now
    BY <1>2, <2>1
  <2>4. lastAdmin[s.user] \in -1..MaxClock
    BY <1>t, <2>1
  <2>5. now \in Nat /\ Expiry \in Nat /\ MaxClock \in Nat
    BY <1>t
  <2> QED  BY <2>1, <2>2, <2>3, <2>4, <2>5
<1> QED  BY <1>1, <1>3, <1>4, <1>5, <1>6

\* No uid is ahead of the counter.
LEMMA UidBound ==
  ASSUME IdentityTypeOK, PasswordInv, NEW v \in Users, NEW row,
         users'[v] = row \/ users'[v] = users[v],
         row.uid <= madeUsers', madeUsers' \in Nat, madeUsers' >= madeUsers
  PROVE  users'[v].uid <= madeUsers'
<1>1. users[v] \in UserRow /\ madeUsers \in Nat /\ users[v].uid <= madeUsers
  BY BasicTypes DEF PasswordInv
<1>2. users[v].uid \in Nat
  BY <1>1 DEF UserRow
<1>3. users[v].uid <= madeUsers'
  BY <1>1, <1>2
<1> QED  BY <1>3

\* A step that changes one row, and what was chosen for it.
LEMMA RowStep ==
  ASSUME IdentityInv, NEW u, NEW row \in UserRow, SetUser(u, row),
         UNCHANGED <<tokens, links, sessions, flow, jwks, now, handled>>,
         madeUsers' \in Nat, madeUsers' >= madeUsers, row.uid <= madeUsers',
         chosen' \in [Users -> Passwords \cup {"", "initial"}], reborn' \subseteq Users,
         \A v \in Users : v # u => chosen'[v] = chosen[v],
         \A v \in Users : v # u => (v \in reborn' <=> v \in reborn),
         u \in Users /\ u \notin reborn' /\ row.uid # 0 => row.hash = chosen'[u],
         calls' \in [Callers -> CallState], ProgramInv', CallsOK'
  PROVE  IdentityInv'
<1>1. /\ users' \in [Users -> UserRow] /\ lastAdmin' \in [Users -> -1..MaxClock]
      /\ \A v \in Users : v # u => users'[v] = users[v]
      /\ u \in Users => users'[u] = row
      /\ \A v \in Users : lastAdmin'[v] <= now /\ (users'[v].role = "admin" => lastAdmin'[v] = now)
      /\ \A s \in sessions : s.role = "admin" => s.exp <= lastAdmin'[s.user] + Expiry
  BY SetUserStep
<1>2. IdentityTypeOK'
  BY <1>1 DEF IdentityInv, IdentityTypeOK
<1>3. PasswordInv'
  <2>1. \A v \in Users : users'[v].uid <= madeUsers'
    <3> SUFFICES ASSUME NEW v \in Users PROVE users'[v].uid <= madeUsers'
      OBVIOUS
    <3>1. users'[v] = row \/ users'[v] = users[v]
      BY <1>1
    <3> QED  BY <3>1, UidBound DEF IdentityInv
  <2>2. \A v \in Users : Known(v) /\ v \notin reborn => users[v].hash = chosen[v]
    BY DEF IdentityInv, PasswordInv, PasswordIsLastChosen
  <2>3. PasswordIsLastChosen'
    BY <1>1, <2>2 DEF PasswordIsLastChosen, Known
  <2> QED  BY <2>1, <2>3 DEF PasswordInv, CallsOK
<1>4. LinkInv'
  BY DEF IdentityInv, LinkInv, CallsOK, LinkedTo
<1>5. AdminInv'
  BY <1>1 DEF AdminInv, CallsOK
<1> QED  BY <1>2, <1>3, <1>4, <1>5 DEF IdentityInv

\* CreateUser: a new uid, the password of the request.
LEMMA CreateUserStep ==
  ASSUME IdentityInv, NEW c \in Callers, CreateUser(c)
  PROVE  IdentityInv'
<1> DEFINE u == Target(c)
           q == calls[c].req
           row == [uid |-> madeUsers + 1, version |-> 1, role |-> q.role, hash |-> q.pw]
<1>1. calls[c].todo # <<>> /\ Head(calls[c].todo).act = "create"
  BY DEF CreateUser, At
<1>2. /\ calls[c] \in CallState /\ q.role \in ValidRoles
      /\ q.pw \in Passwords \cup {"", "initial"}
  BY <1>1, HeadSuits DEF Suits, CallState, CallRequest
<1>3. CASE Known(u)
  <2>1. UNCHANGED <<users, madeUsers, links, lastAdmin, now>> /\ Answered(c)
    BY <1>3 DEF CreateUser
  <2>2. calls' \in [Callers -> CallState] /\ ProgramInv' /\ CallsOK'
    BY <1>1, <2>1, NothingMoves, SilentAnswer DEF IdentityInv
  <2> QED  BY <1>3, <2>2, CallsOnly DEF CreateUser, IdentityInv, IdentityTypeOK
<1>4. CASE ~Known(u)
  <2>1. /\ SetUser(u, row) /\ madeUsers' = madeUsers + 1
        /\ chosen' = [chosen EXCEPT ![u] = q.pw] /\ reborn' = reborn \ {u}
        /\ Then(c, calls[c], <<>>)
        /\ UNCHANGED <<tokens, links, sessions, flow, jwks, now, handled>>
    BY <1>4 DEF CreateUser
  <2>m. madeUsers \in Nat /\ madeUsers + 1 \in Nat /\ madeUsers + 1 > madeUsers
    <3>1. madeUsers \in Nat
      BY BasicTypes DEF IdentityInv
    <3> QED  BY <3>1
  <2>2. row \in UserRow
    BY <1>2, <2>m DEF UserRow
  <2>3. row.uid = madeUsers + 1 /\ row.hash = q.pw
    OBVIOUS
  <2> HIDE DEF row, u, q
  <2>4. /\ users' \in [Users -> UserRow] /\ AdminsGrow
        /\ \A v \in Users : v # u => users'[v] = users[v]
        /\ u \in Users => users'[u] = row
    BY <2>1, <2>2, SetUserStep
  <2>5. UsersGrow
    BY <2>1, <2>3, <2>4, <2>m DEF UsersGrow
  <2>6. LinksGrow
    BY <2>1 DEF LinksGrow
  <2>7. calls' \in [Callers -> CallState] /\ ProgramInv' /\ CallsOK'
    BY <1>1, <1>2, <2>1, <2>4, <2>5, <2>6, SilentThen DEF Silent, Acts
  <2>8. /\ chosen' \in [Users -> Passwords \cup {"", "initial"}]
        /\ \A v \in Users : v # u => chosen'[v] = chosen[v]
        /\ u \in Users => chosen'[u] = row.hash
    BY <1>2, <2>1, <2>3 DEF IdentityInv, IdentityTypeOK
  <2>9. /\ reborn' \subseteq Users
        /\ \A v \in Users : v # u => (v \in reborn' <=> v \in reborn)
    BY <2>1 DEF IdentityInv, IdentityTypeOK
  <2>10. madeUsers' \in Nat /\ madeUsers' >= madeUsers /\ row.uid <= madeUsers'
    BY <2>1, <2>3, <2>m
  <2> QED  BY <2>1, <2>2, <2>7, <2>8, <2>9, <2>10, RowStep
<1> QED  BY <1>3, <1>4

\* DeleteUser: the row goes, whoever was an admin was one until now.
LEMMA DeleteUserStep ==
  ASSUME IdentityInv, NEW c \in Callers, DeleteUser(c)
  PROVE  IdentityInv'
<1> DEFINE u == Target(c)
<1>1. calls[c].todo # <<>> /\ Head(calls[c].todo).act = "remove" /\ calls[c] \in CallState
  BY HeadSuits DEF DeleteUser, At
<1>2. CASE ~Known(u)
  <2>1. UNCHANGED <<users, madeUsers, links, lastAdmin, now>> /\ Then(c, calls[c], <<>>)
    BY <1>2 DEF DeleteUser
  <2>2. calls' \in [Callers -> CallState] /\ ProgramInv' /\ CallsOK'
    BY <1>1, <2>1, NothingMoves, SilentThen DEF IdentityInv, Silent, Acts
  <2> QED  BY <2>1, <2>2, CallsOnly DEF DeleteUser, IdentityInv, IdentityTypeOK
<1>3. CASE Known(u)
  <2>1. /\ SetUser(u, NoUser) /\ Then(c, calls[c], <<>>)
        /\ UNCHANGED <<tokens, links, sessions, flow, jwks, now, madeUsers, handled, chosen, reborn>>
    BY <1>3 DEF DeleteUser
  <2>2. NoUser \in UserRow /\ NoUser.uid = 0
    BY DEF NoUser, UserRow
  <2>m. madeUsers \in Nat
    BY BasicTypes DEF IdentityInv
  <2> HIDE DEF u
  <2>4. /\ users' \in [Users -> UserRow] /\ AdminsGrow
        /\ \A v \in Users : v # u => users'[v] = users[v]
        /\ u \in Users => users'[u] = NoUser
    BY <2>1, <2>2, SetUserStep
  <2>5. UsersGrow
    BY <2>1, <2>2, <2>4, <2>m DEF UsersGrow
  <2>6. LinksGrow
    BY <2>1 DEF LinksGrow
  <2>7. calls' \in [Callers -> CallState] /\ ProgramInv' /\ CallsOK'
    BY <1>1, <2>1, <2>4, <2>5, <2>6, SilentThen DEF Silent, Acts
  <2>8. chosen' \in [Users -> Passwords \cup {"", "initial"}] /\ reborn' \subseteq Users
    BY <2>1 DEF IdentityInv, IdentityTypeOK
  <2>9. madeUsers' \in Nat /\ madeUsers' >= madeUsers /\ NoUser.uid <= madeUsers'
    BY <2>1, <2>2, <2>m
  <2>10. /\ \A v \in Users : v # u => chosen'[v] = chosen[v]
         /\ \A v \in Users : v # u => (v \in reborn' <=> v \in reborn)
    BY <2>1
  <2> QED  BY <2>1, <2>2, <2>7, <2>8, <2>9, <2>10, RowStep
<1> QED  BY <1>2, <1>3

\* UpdateUser: the version compared is what makes the hash that was read the
\* hash that is there.
LEMMA UpdateUserStep ==
  ASSUME IdentityInv, NEW c \in Callers, UpdateUser(c)
  PROVE  IdentityInv'
<1> DEFINE u == Target(c)
           q == calls[c].req
           hash == IF q.pw # "" THEN q.pw ELSE calls[c].read.hash
           row == [users[u] EXCEPT !.version = @ + 1, !.role = q.role, !.hash = hash]
<1>1. calls[c].todo # <<>> /\ Head(calls[c].todo).act = "update" /\ At(c, "update")
  BY DEF UpdateUser, At
<1>2. /\ calls[c] \in CallState /\ q.role \in ValidRoles
      /\ q.pw \in Passwords \cup {"", "initial"}
      /\ hash \in Passwords \cup {"", "initial"}
  BY <1>1, HeadSuits DEF Suits, CallState, CallRequest, UserRow
<1>3. CASE ~(Known(u) /\ users[u].version = calls[c].read.version)
  <2>1. UNCHANGED <<users, madeUsers, links, lastAdmin, now>> /\ Answered(c)
    BY <1>3 DEF UpdateUser
  <2>2. calls' \in [Callers -> CallState] /\ ProgramInv' /\ CallsOK'
    BY <1>1, <2>1, NothingMoves, SilentAnswer DEF IdentityInv
  <2>3. UNCHANGED <<chosen, reborn>>
    BY <1>3 DEF UpdateUser
  <2> QED  BY <2>1, <2>2, <2>3, CallsOnly DEF UpdateUser, IdentityInv, IdentityTypeOK
<1>4. CASE Known(u) /\ users[u].version = calls[c].read.version
  <2>1. /\ SetUser(u, row) /\ Then(c, calls[c], <<>>)
        /\ chosen' = [chosen EXCEPT ![u] = IF q.pw # "" THEN q.pw ELSE @]
        /\ reborn' = IF users[u].uid # calls[c].read.uid THEN reborn \cup {u} ELSE reborn
        /\ UNCHANGED <<tokens, links, sessions, flow, jwks, now, madeUsers, handled>>
    BY <1>4 DEF UpdateUser
  <2>m. madeUsers \in Nat /\ u \in Users /\ users[u] \in UserRow /\ users[u].uid <= madeUsers
    BY <1>4, BasicTypes DEF Known, IdentityInv, PasswordInv
  <2>v. users[u].version \in Nat /\ users[u].version + 1 \in Nat
        /\ users[u].version + 1 > users[u].version
    <3>1. users[u].version \in Nat
      BY <2>m DEF UserRow
    <3> QED  BY <3>1
  <2>2. /\ row \in UserRow /\ row.uid = users[u].uid /\ row.version = users[u].version + 1
        /\ row.hash = hash
    BY <1>2, <2>m, <2>v DEF UserRow
  <2>h. calls[c].read.uid = users[u].uid => calls[c].read.hash = users[u].hash
    BY <1>1, <1>4 DEF IdentityInv, PasswordInv, UpdateOK
  <2>c. u \notin reborn => users[u].hash = chosen[u]
    BY <1>4, <2>m DEF IdentityInv, PasswordInv, PasswordIsLastChosen
  <2>n. u \notin reborn' => hash = chosen'[u]
    <3>1. chosen'[u] = IF q.pw # "" THEN q.pw ELSE chosen[u]
      BY <2>1, <2>m DEF IdentityInv, IdentityTypeOK
    <3>2. u \notin reborn' => u \notin reborn /\ users[u].uid = calls[c].read.uid
      BY <2>1
    <3> QED  BY <3>1, <3>2, <2>h, <2>c
  <2>8. /\ chosen' \in [Users -> Passwords \cup {"", "initial"}]
        /\ \A v \in Users : v # u => chosen'[v] = chosen[v]
    BY <1>2, <2>1 DEF IdentityInv, IdentityTypeOK
  <2>9. /\ reborn' \subseteq Users
        /\ \A v \in Users : v # u => (v \in reborn' <=> v \in reborn)
    BY <2>1, <2>m DEF IdentityInv, IdentityTypeOK
  <2>s. SetUser(u, row) /\ now' = now /\ madeUsers' = madeUsers
    BY <2>1
  <2>r. row \in UserRow /\ u \in Users
    BY <2>2, <2>m
  <2>w. row.version > users[u].version /\ row.uid = users[u].uid
    BY <2>2, <2>v
  <2> HIDE DEF row, u, q, hash
  <2>4. /\ users' \in [Users -> UserRow] /\ AdminsGrow
        /\ \A v \in Users : v # u => users'[v] = users[v]
        /\ users'[u] = row
    BY <2>s, <2>r, SetUserStep
  <2>5. UsersGrow
    <3>1. madeUsers' \in Nat /\ madeUsers' >= madeUsers
      BY <2>s, <2>m
    <3> QED  BY <2>4, <2>w, <3>1 DEF UsersGrow
  <2>6. LinksGrow
    BY <2>1 DEF LinksGrow
  <2>7. calls' \in [Callers -> CallState] /\ ProgramInv' /\ CallsOK'
    BY <1>1, <1>2, <2>1, <2>4, <2>5, <2>6, SilentThen DEF Silent, Acts
  <2>10. madeUsers' \in Nat /\ madeUsers' >= madeUsers /\ row.uid <= madeUsers'
    BY <2>s, <2>w, <2>m
  <2>11. u \in Users /\ u \notin reborn' /\ row.uid # 0 => row.hash = chosen'[u]
    BY <2>2, <2>n
  <2> QED  BY <2>1, <2>2, <2>7, <2>8, <2>9, <2>10, <2>11, RowStep
<1> QED  BY <1>3, <1>4

\* The clock moves only between requests.
LEMMA PassTimeStep ==
  ASSUME IdentityInv, PassTime
  PROVE  IdentityInv'
<1>t. /\ now \in Nat /\ now + 1 <= MaxClock /\ now + 1 > now /\ now + 1 \in Nat
      /\ MaxClock \in Nat /\ Expiry \in Nat
      /\ lastAdmin \in [Users -> -1..MaxClock]
  <2>1. now \in Nat /\ MaxClock \in Nat /\ Expiry \in Nat /\ lastAdmin \in [Users -> -1..MaxClock]
    BY BasicTypes DEF IdentityInv
  <2>2. now < MaxClock
    BY DEF PassTime
  <2> QED  BY <2>1, <2>2
<1>1. /\ now' = now + 1 /\ \A c \in Callers : calls[c].todo = <<>>
      /\ lastAdmin' = [u \in Users |-> IF users[u].role = "admin" THEN now + 1 ELSE lastAdmin[u]]
      /\ UNCHANGED <<users, tokens, links, sessions, flow, calls, jwks, madeUsers, handled,
                     chosen, reborn>>
  BY DEF PassTime
<1>2. IdentityTypeOK'
  <2>1. now + 1 \in 0..MaxClock /\ now + 1 \in -1..MaxClock
    BY <1>t
  <2>2. lastAdmin' \in [Users -> -1..MaxClock]
    BY <1>1, <1>t, <2>1
  <2> QED  BY <1>1, <2>1, <2>2 DEF IdentityInv, IdentityTypeOK
<1>3. ProgramInv'
  BY <1>1 DEF IdentityInv, ProgramInv, ProgramOK, Suits
<1>4. CallsOK'
  BY <1>1 DEF CallsOK, UpdateOK, LinkOK, RoleOK, Entitled, At
<1>5. PasswordInv' /\ LinkInv'
  BY <1>1, <1>4 DEF IdentityInv, PasswordInv, LinkInv, LinkedTo, CallsOK, PasswordIsLastChosen, Known
<1>6. AdminInv'
  <2>1. ASSUME NEW u \in Users
        PROVE  lastAdmin'[u] <= now' /\ (users'[u].role = "admin" => lastAdmin'[u] = now')
    <3>1. lastAdmin[u] <= now /\ lastAdmin[u] \in -1..MaxClock
      BY <1>t DEF IdentityInv, AdminInv
    <3>2. lastAdmin'[u] = IF users[u].role = "admin" THEN now + 1 ELSE lastAdmin[u]
      BY <1>1
    <3> QED  BY <1>1, <1>t, <3>1, <3>2
  <2>2. ASSUME NEW s \in sessions, s.role = "admin" PROVE s.exp <= lastAdmin'[s.user] + Expiry
    <3>1. s.exp \in Nat /\ s.user \in Users
      BY DEF IdentityInv, IdentityTypeOK
    <3>2. s.exp <= lastAdmin[s.user] + Expiry /\ lastAdmin[s.user] <= now
      BY <2>2, <3>1 DEF IdentityInv, AdminInv
    <3>3. lastAdmin'[s.user] = lastAdmin[s.user] \/ lastAdmin'[s.user] = now + 1
      BY <1>1, <3>1
    <3>4. lastAdmin[s.user] \in -1..MaxClock
      BY <1>t, <3>1
    <3>5. now \in Nat /\ Expiry \in Nat /\ MaxClock \in Nat
      BY <1>t
    <3> QED  BY <3>1, <3>2, <3>3, <3>4, <3>5
  <2> QED  BY <1>1, <1>4, <2>1, <2>2 DEF AdminInv, CallsOK
<1> QED  BY <1>2, <1>3, <1>5, <1>6 DEF IdentityInv

-----------------------------------------------------------------------------
(* The sign-in: who the subject is, and the link that says so. *)

\* Two calls put before a program that they may come before.
LEMMA PushTwo ==
  ASSUME NEW q, NEW t \in Seq(CallStep), ProgramOK(t, q), NEW a \in CallStep, NEW b \in CallStep,
         Suits(a.act, q), Suits(b.act, q), <<a.act, b.act>> \in CallOrder,
         t # <<>> => <<b.act, Head(t).act>> \in CallOrder
  PROVE  /\ <<a, b>> \o t \in Seq(CallStep) /\ ProgramOK(<<a, b>> \o t, q)
         /\ <<a, b>> \o t # <<>> /\ Head(<<a, b>> \o t) = a
<1> DEFINE w == <<b>> \o t
<1>1. w \in Seq(CallStep) /\ ProgramOK(w, q) /\ w # <<>> /\ Head(w) = b
  BY PushProgram
<1>2. <<a, b>> \o t = <<a>> \o w
  <2>0. <<a>> \in Seq(CallStep) /\ <<b>> \in Seq(CallStep) /\ <<a, b>> \in Seq(CallStep)
    OBVIOUS
  <2>1. <<a>> \o <<b>> = <<a, b>>
    <3> DEFINE v == <<a>> \o <<b>>
               x == <<a, b>>
    <3>1. v \in Seq(CallStep) /\ Len(v) = 2 /\ v[1] = a /\ v[2] = b
      BY <2>0, ConcatProperties
    <3>2. x \in Seq(CallStep) /\ Len(x) = 2 /\ x[1] = a /\ x[2] = b
      OBVIOUS
    <3> HIDE DEF v, x
    <3>3. v = x
      BY <3>1, <3>2, SeqEqual
    <3> QED  BY <3>3 DEF v, x
  <2>2. (<<a>> \o <<b>>) \o t = <<a>> \o (<<b>> \o t)
    BY <2>0, ConcatAssociative
  <2> QED  BY <2>1, <2>2
<1> HIDE DEF w
<1>3. /\ <<a>> \o w \in Seq(CallStep) /\ ProgramOK(<<a>> \o w, q)
      /\ <<a>> \o w # <<>> /\ Head(<<a>> \o w) = a
  BY <1>1, PushProgram
<1> QED  BY <1>2, <1>3

\* A sign-in comes to its next call knowing what that call relies on.
LEMMA SignInMoves ==
  ASSUME IdentityInv, NEW c \in Callers, NEW ch, Carried(c, ch),
         ch.who = calls[c].who, ch.role = calls[c].role, calls[c].todo # <<>>,
         calls'[c].todo # <<>> =>
           Head(calls'[c].todo).act \in {"linked", "candidate", "provision", "relink", "mint"},
         calls'[c].req.op = "oidc.callback", LinkOK(c)',
         (At(c, "relink") \/ At(c, "mint"))' => ReadNow(c, calls[c].link.user)',
         UsersGrow, AdminsGrow, LinksGrow
  PROVE  CallsOK'
<1> SUFFICES ASSUME NEW d \in Callers
             PROVE  UpdateOK(d)' /\ LinkOK(d)' /\ RoleOK(d)'
  BY DEF CallsOK
<1>1. CASE d # c
  BY <1>1, OthersKeep DEF Carried
<1>2. CASE d = c
  <2>1. Entitled(c)'
    <3>1. Entitled(c)
      BY DEF IdentityInv, AdminInv, RoleOK
    <3>2. calls'[c].role = calls[c].role /\ calls'[c].who = calls[c].who
      BY DEF Carried
    <3>3. ~At(c, "bearer")'
      BY DEF At
    <3> QED  BY <3>1, <3>2, <3>3, StillWithin DEF Entitled, IdentityInv
  <2>2. UpdateOK(c)'
    BY DEF UpdateOK, At
  <2>3. RoleOK(c)'
    BY <2>1 DEF RoleOK, At
  <2> QED  BY <1>2, <2>2, <2>3
<1> QED  BY <1>1, <1>2

\* What a sign-in past the provider knows of itself.
LEMMA SignInFacts ==
  ASSUME IdentityInv, NEW c \in Callers, calls[c].todo # <<>>,
         Head(calls[c].todo).act \in SignInActs
  PROVE  /\ calls[c] \in CallState /\ calls[c].req.op = "oidc.callback"
         /\ calls[c].req.sub \in Subjects /\ calls[c].link \in LinkRow
         /\ links[calls[c].req.sub] \in LinkRow
         /\ calls[c].req.claim \in Users \cup {""}
         /\ calls[c].todo \in Seq(CallStep) /\ ProgramOK(calls[c].todo, calls[c].req)
         /\ Tail(calls[c].todo) \in Seq(CallStep)
         /\ ProgramOK(Tail(calls[c].todo), calls[c].req)
         /\ Tail(calls[c].todo) # <<>> =>
              <<Head(calls[c].todo).act, Head(Tail(calls[c].todo)).act>> \in CallOrder
<1>1. /\ calls[c] \in CallState /\ calls[c].req.op = "oidc.callback"
      /\ calls[c].req.sub \in Subjects
  BY HeadSuits DEF Suits
<1>2. /\ calls[c].link \in LinkRow /\ links[calls[c].req.sub] \in LinkRow
      /\ calls[c].todo \in Seq(CallStep) /\ calls[c].req \in CallRequest
  BY <1>1, BasicTypes DEF IdentityInv, CallState
<1>3. calls[c].req.claim \in Users \cup {""}
  BY <1>2 DEF CallRequest
<1>4. ProgramOK(calls[c].todo, calls[c].req)
  BY DEF IdentityInv, ProgramInv
<1> QED  BY <1>1, <1>2, <1>3, <1>4, PopProgram

\* A call that notes a link.
LEMMA NotesLink ==
  ASSUME NEW k \in CallState, NEW l \in LinkRow
  PROVE  LET ch == [k EXCEPT !.link = l] IN
         /\ ch \in CallState /\ ch.req = k.req /\ ch.todo = k.todo
         /\ ch.role = k.role /\ ch.who = k.who /\ ch.link = l
BY DEF CallState

\* A call that notes a row it has read.
LEMMA NotesRow ==
  ASSUME NEW k \in CallState, NEW row \in UserRow
  PROVE  LET ch == [k EXCEPT !.read = row] IN
         /\ ch \in CallState /\ ch.req = k.req /\ ch.todo = k.todo
         /\ ch.role = k.role /\ ch.who = k.who /\ ch.link = k.link /\ ch.read = row
BY DEF CallState

\* ResolveIdentity finds the subject's link.
LEMMA FoundLink ==
  ASSUME IdentityInv, NEW c \in Callers, At(c, "identity"), links[calls[c].req.sub] # NoLink,
         Then(c, [calls[c] EXCEPT !.link = links[calls[c].req.sub]],
              << Do("linked", 303), Do("relink", 303) >>),
         UNCHANGED <<users, madeUsers, links, lastAdmin, now>>
  PROVE  calls' \in [Callers -> CallState] /\ ProgramInv' /\ CallsOK'
<1> DEFINE q == calls[c].req
           ch == [calls[c] EXCEPT !.link = links[q.sub]]
           a == Do("linked", 303)
           b == Do("relink", 303)
           t == Tail(calls[c].todo)
<1>1. calls[c].todo # <<>> /\ Head(calls[c].todo).act = "identity"
  BY DEF At
<1>2. /\ calls[c] \in CallState /\ q.op = "oidc.callback" /\ q.sub \in Subjects
      /\ links[q.sub] \in LinkRow /\ t \in Seq(CallStep) /\ ProgramOK(t, q)
      /\ t # <<>> => <<"identity", Head(t).act>> \in CallOrder
  BY <1>1, SignInFacts DEF SignInActs
<1>3. /\ ch \in CallState /\ ch.req = q /\ ch.todo = calls[c].todo
      /\ ch.role = calls[c].role /\ ch.who = calls[c].who /\ ch.link = links[q.sub]
  BY <1>2, NotesLink
<1>4. a \in CallStep /\ b \in CallStep /\ a.act = "linked" /\ b.act = "relink"
  BY DoStep DEF Acts
<1>5. Then(c, ch, <<a, b>>)
  OBVIOUS
<1> HIDE DEF ch, a, b
<1>6. /\ Suits(a.act, q) /\ Suits(b.act, q) /\ <<a.act, b.act>> \in CallOrder
      /\ t # <<>> => <<b.act, Head(t).act>> \in CallOrder
  <2>1. t # <<>> => Head(t).act = "mint"
    BY <1>2 DEF CallOrder
  <2>2. Suits(a.act, q) /\ Suits(b.act, q)
    BY <1>2, <1>4 DEF Suits, SignInActs
  <2> QED  BY <1>4, <2>1, <2>2 DEF CallOrder
<1>7. /\ <<a, b>> \o t \in Seq(CallStep) /\ ProgramOK(<<a, b>> \o t, q)
      /\ <<a, b>> \o t # <<>> /\ Head(<<a, b>> \o t) = a
  BY <1>2, <1>4, <1>6, PushTwo, ZenonT(60)
<1>8. Carried(c, ch) /\ ProgramInv' /\ calls'[c].todo = <<a, b>> \o t
  BY <1>1, <1>3, <1>5, <1>7, ThenMore DEF IdentityInv
<1>9. /\ Head(calls'[c].todo).act = "linked" /\ calls'[c].req = q
      /\ calls'[c].link = links[q.sub]
  BY <1>3, <1>4, <1>7, <1>8 DEF Carried
<1>10. LinkOK(c)'
  <2>1. links[q.sub].version \in Nat /\ links[q.sub].version # 0
    BY <1>2 DEF LinkRow, IdentityInv, LinkInv
  <2>2. links[q.sub].version > 0
    BY <2>1
  <2> QED  BY <1>9, <2>2 DEF LinkOK, At, LinkedTo
<1>11. CallsOK'
  <2>1. UsersGrow /\ AdminsGrow /\ LinksGrow
    BY NothingMoves DEF IdentityInv
  <2>2. ~(At(c, "relink") \/ At(c, "mint"))'
    BY <1>9 DEF At
  <2>3. calls'[c].req.op = "oidc.callback"
    BY <1>2, <1>9
  <2> QED  BY <1>1, <1>3, <1>8, <1>9, <1>10, <2>1, <2>2, <2>3, SignInMoves
<1> QED  BY <1>8, <1>11 DEF Carried

\* What ResolveIdentity goes on with for a subject it has not met.
LEMMA CandidateStep ==
  Do("candidate", 303) \in CallStep /\ Do("candidate", 303).act = "candidate"
BY DoStep DEF Acts

\* ResolveIdentity takes a new subject for the user its claims name.
LEMMA TakesClaim ==
  ASSUME IdentityInv, NEW c \in Callers, At(c, "identity"), calls[c].req.claim # "",
         Then(c, [calls[c] EXCEPT !.link = [version |-> 0, user |-> calls[c].req.claim]],
              << Do("candidate", 303) >>),
         UNCHANGED <<users, madeUsers, links, lastAdmin, now>>
  PROVE  calls' \in [Callers -> CallState] /\ ProgramInv' /\ CallsOK'
<1> DEFINE q == calls[c].req
           link == [version |-> 0, user |-> q.claim]
           ch == [calls[c] EXCEPT !.link = link]
           a == Do("candidate", 303)
           t == Tail(calls[c].todo)
<1>1. calls[c].todo # <<>> /\ Head(calls[c].todo).act = "identity"
  BY DEF At
<1>2. /\ calls[c] \in CallState /\ q.op = "oidc.callback" /\ q.claim \in Users
      /\ t \in Seq(CallStep) /\ ProgramOK(t, q)
      /\ t # <<>> => <<"identity", Head(t).act>> \in CallOrder
  BY <1>1, SignInFacts DEF SignInActs
<1>3. link \in LinkRow /\ link.version = 0 /\ link.user \in Users
  BY <1>2 DEF LinkRow
<1> HIDE DEF link
<1>4. /\ ch \in CallState /\ ch.req = q /\ ch.todo = calls[c].todo
      /\ ch.role = calls[c].role /\ ch.who = calls[c].who /\ ch.link = link
  BY <1>2, <1>3, NotesLink
<1>5. a \in CallStep /\ a.act = "candidate"
  BY CandidateStep
<1>6. Then(c, ch, <<a>>)
  BY DEF link
<1> HIDE DEF ch, a
<1>7. /\ Suits(a.act, q) /\ (t # <<>> => <<a.act, Head(t).act>> \in CallOrder)
  <2>1. t # <<>> => Head(t).act = "mint"
    BY <1>2 DEF CallOrder
  <2>2. Suits(a.act, q)
    BY <1>2, <1>5 DEF Suits, SignInActs
  <2> QED  BY <1>5, <2>1, <2>2 DEF CallOrder
<1>8. /\ <<a>> \o t \in Seq(CallStep) /\ ProgramOK(<<a>> \o t, q)
      /\ <<a>> \o t # <<>> /\ Head(<<a>> \o t) = a
  BY <1>2, <1>5, <1>7, PushProgram
<1>9. Carried(c, ch) /\ ProgramInv' /\ calls'[c].todo = <<a>> \o t
  BY <1>1, <1>4, <1>6, <1>8, ThenMore DEF IdentityInv
<1>10. /\ Head(calls'[c].todo).act = "candidate" /\ calls'[c].req = q /\ calls'[c].link = link
  BY <1>4, <1>5, <1>8, <1>9 DEF Carried
<1>11. LinkOK(c)'
  BY <1>3, <1>10 DEF LinkOK, At
<1>12. CallsOK'
  <2>1. UsersGrow /\ AdminsGrow /\ LinksGrow
    BY NothingMoves DEF IdentityInv
  <2>2. ~(At(c, "relink") \/ At(c, "mint"))'
    BY <1>10 DEF At
  <2>3. calls'[c].req.op = "oidc.callback"
    BY <1>2, <1>10
  <2> QED  BY <1>1, <1>4, <1>9, <1>10, <1>11, <2>1, <2>2, <2>3, SignInMoves
<1> QED  BY <1>9, <1>12 DEF Carried

\* The user of a link, or of the claims, is read: its role is that of the
\* moment.
LEMMA ReadsLinked ==
  ASSUME IdentityInv, NEW c \in Callers, At(c, "linked"), Known(calls[c].link.user),
         Then(c, [calls[c] EXCEPT !.read = users[calls[c].link.user]], <<>>),
         UNCHANGED <<users, madeUsers, links, lastAdmin, now>>
  PROVE  calls' \in [Callers -> CallState] /\ ProgramInv' /\ CallsOK'
<1> DEFINE q == calls[c].req
           u == calls[c].link.user
           ch == [calls[c] EXCEPT !.read = users[u]]
<1>1. calls[c].todo # <<>> /\ Head(calls[c].todo).act = "linked"
  BY DEF At
<1>2. calls[c] \in CallState /\ q.op = "oidc.callback" /\ q.sub \in Subjects
  BY <1>1, SignInFacts DEF SignInActs
<1>3. u \in Users /\ users[u] \in UserRow
  BY BasicTypes DEF Known, IdentityInv
<1>4. /\ ch \in CallState /\ ch.req = q /\ ch.todo = calls[c].todo /\ ch.role = calls[c].role
      /\ ch.who = calls[c].who /\ ch.link = calls[c].link /\ ch.read = users[u]
  BY <1>2, <1>3, NotesRow
<1>5. Then(c, ch, <<>>)
  OBVIOUS
<1> HIDE DEF ch
<1>6. /\ Carried(c, ch) /\ ProgramInv'
      /\ calls'[c].todo # <<>> => <<"linked", Head(calls'[c].todo).act>> \in CallOrder
  BY <1>1, <1>4, <1>5, ThenStep DEF IdentityInv
<1>7. calls'[c].todo # <<>> => Head(calls'[c].todo).act = "relink"
  BY <1>6 DEF CallOrder
<1>8. calls'[c].req = q /\ calls'[c].link = calls[c].link /\ calls'[c].read = users[u]
  BY <1>4, <1>6 DEF Carried
<1>9. LinkOK(c)'
  <2>1. LinkedTo(q.sub, u)
    BY DEF IdentityInv, LinkInv, LinkOK
  <2> QED  BY <1>3, <1>7, <1>8, <2>1 DEF LinkOK, At, LinkedTo
<1>10. ReadNow(c, calls[c].link.user)'
  <2>1. users[u].role = "admin" => lastAdmin[u] = now
    BY <1>3 DEF IdentityInv, AdminInv
  <2> QED  BY <1>8, <2>1 DEF ReadNow
<1>11. CallsOK'
  <2>1. UsersGrow /\ AdminsGrow /\ LinksGrow
    BY NothingMoves DEF IdentityInv
  <2>2. calls'[c].req.op = "oidc.callback"
    BY <1>2, <1>8
  <2> QED  BY <1>1, <1>4, <1>6, <1>7, <1>9, <1>10, <2>1, <2>2, SignInMoves
<1> QED  BY <1>6, <1>11 DEF Carried

\* The user the claims name exists.
LEMMA ReadsCandidate ==
  ASSUME IdentityInv, NEW c \in Callers, At(c, "candidate"), Known(calls[c].link.user),
         Then(c, [calls[c] EXCEPT !.read = users[calls[c].link.user]], << Do("relink", 303) >>),
         UNCHANGED <<users, madeUsers, links, lastAdmin, now>>
  PROVE  calls' \in [Callers -> CallState] /\ ProgramInv' /\ CallsOK'
<1> DEFINE q == calls[c].req
           u == calls[c].link.user
           ch == [calls[c] EXCEPT !.read = users[u]]
           a == Do("relink", 303)
           t == Tail(calls[c].todo)
<1>1. calls[c].todo # <<>> /\ Head(calls[c].todo).act = "candidate"
  BY DEF At
<1>2. /\ calls[c] \in CallState /\ q.op = "oidc.callback"
      /\ t \in Seq(CallStep) /\ ProgramOK(t, q)
      /\ t # <<>> => <<"candidate", Head(t).act>> \in CallOrder
  BY <1>1, SignInFacts DEF SignInActs
<1>3. u \in Users /\ users[u] \in UserRow
  BY BasicTypes DEF Known, IdentityInv
<1>4. /\ ch \in CallState /\ ch.req = q /\ ch.todo = calls[c].todo /\ ch.role = calls[c].role
      /\ ch.who = calls[c].who /\ ch.link = calls[c].link /\ ch.read = users[u]
  BY <1>2, <1>3, NotesRow
<1>5. a \in CallStep /\ a.act = "relink"
  BY DoStep DEF Acts
<1>6. Then(c, ch, <<a>>)
  OBVIOUS
<1> HIDE DEF ch, a
<1>7. Suits(a.act, q) /\ (t # <<>> => <<a.act, Head(t).act>> \in CallOrder)
  <2>1. t # <<>> => Head(t).act = "mint"
    BY <1>2 DEF CallOrder
  <2>2. Suits(a.act, q)
    BY <1>2, <1>5 DEF Suits, SignInActs
  <2> QED  BY <1>5, <2>1, <2>2 DEF CallOrder
<1>8. /\ <<a>> \o t \in Seq(CallStep) /\ ProgramOK(<<a>> \o t, q)
      /\ <<a>> \o t # <<>> /\ Head(<<a>> \o t) = a
  BY <1>2, <1>5, <1>7, PushProgram
<1>9. Carried(c, ch) /\ ProgramInv' /\ calls'[c].todo = <<a>> \o t
  BY <1>1, <1>4, <1>6, <1>8, ThenMore DEF IdentityInv
<1>10. /\ Head(calls'[c].todo).act = "relink" /\ calls'[c].req = q
       /\ calls'[c].link = calls[c].link /\ calls'[c].read = users[u]
  BY <1>4, <1>5, <1>8, <1>9 DEF Carried
<1>11. LinkOK(c)'
  <2>1. calls[c].link.version = 0
    BY DEF IdentityInv, LinkInv, LinkOK
  <2> QED  BY <1>3, <1>10, <2>1 DEF LinkOK, At
<1>12. ReadNow(c, calls[c].link.user)'
  <2>1. users[u].role = "admin" => lastAdmin[u] = now
    BY <1>3 DEF IdentityInv, AdminInv
  <2> QED  BY <1>10, <2>1 DEF ReadNow
<1>13. CallsOK'
  <2>1. UsersGrow /\ AdminsGrow /\ LinksGrow
    BY NothingMoves DEF IdentityInv
  <2>2. calls'[c].req.op = "oidc.callback"
    BY <1>2, <1>10
  <2> QED  BY <1>1, <1>4, <1>9, <1>10, <1>11, <1>12, <2>1, <2>2, SignInMoves
<1> QED  BY <1>9, <1>13 DEF Carried

\* The user the claims name does not exist and will be provisioned.
LEMMA WillProvision ==
  ASSUME IdentityInv, NEW c \in Callers, At(c, "candidate"),
         Then(c, calls[c], << Do("provision", 303), Do("relink", 303) >>),
         UNCHANGED <<users, madeUsers, links, lastAdmin, now>>
  PROVE  calls' \in [Callers -> CallState] /\ ProgramInv' /\ CallsOK'
<1> DEFINE q == calls[c].req
           a == Do("provision", 303)
           b == Do("relink", 303)
           t == Tail(calls[c].todo)
<1>1. calls[c].todo # <<>> /\ Head(calls[c].todo).act = "candidate"
  BY DEF At
<1>2. /\ calls[c] \in CallState /\ q.op = "oidc.callback"
      /\ t \in Seq(CallStep) /\ ProgramOK(t, q)
      /\ t # <<>> => <<"candidate", Head(t).act>> \in CallOrder
  BY <1>1, SignInFacts DEF SignInActs
<1>3. a \in CallStep /\ b \in CallStep /\ a.act = "provision" /\ b.act = "relink"
  BY DoStep DEF Acts
<1>4. Then(c, calls[c], <<a, b>>)
  OBVIOUS
<1> HIDE DEF a, b
<1>5. /\ Suits(a.act, q) /\ Suits(b.act, q) /\ <<a.act, b.act>> \in CallOrder
      /\ t # <<>> => <<b.act, Head(t).act>> \in CallOrder
  <2>1. t # <<>> => Head(t).act = "mint"
    BY <1>2 DEF CallOrder
  <2>2. Suits(a.act, q) /\ Suits(b.act, q)
    BY <1>2, <1>3 DEF Suits, SignInActs
  <2> QED  BY <1>3, <2>1, <2>2 DEF CallOrder
<1>6. /\ <<a, b>> \o t \in Seq(CallStep) /\ ProgramOK(<<a, b>> \o t, q)
      /\ <<a, b>> \o t # <<>> /\ Head(<<a, b>> \o t) = a
  BY <1>2, <1>3, <1>5, PushTwo, ZenonT(60)
<1>7. Carried(c, calls[c]) /\ ProgramInv' /\ calls'[c].todo = <<a, b>> \o t
  BY <1>1, <1>2, <1>4, <1>6, ThenMore DEF IdentityInv
<1>8. /\ Head(calls'[c].todo).act = "provision" /\ calls'[c].req = q
      /\ calls'[c].link = calls[c].link
  BY <1>3, <1>6, <1>7 DEF Carried
<1>9. LinkOK(c)'
  <2>1. calls[c].link.version = 0 /\ calls[c].link.user \in Users
    BY DEF IdentityInv, LinkInv, LinkOK
  <2> QED  BY <1>8, <2>1 DEF LinkOK, At
<1>10. CallsOK'
  <2>1. UsersGrow /\ AdminsGrow /\ LinksGrow
    BY NothingMoves DEF IdentityInv
  <2>2. ~(At(c, "relink") \/ At(c, "mint"))'
    BY <1>8 DEF At
  <2>3. calls'[c].req.op = "oidc.callback"
    BY <1>2, <1>8
  <2> QED  BY <1>1, <1>7, <1>8, <1>9, <2>1, <2>2, <2>3, SignInMoves
<1> QED  BY <1>7, <1>10 DEF Carried

\* A user is provisioned: a new uid, no password, the role the claims map to.
Provision(c) ==
  LET u == calls[c].link.user IN
  /\ SetUser(u, [uid |-> madeUsers + 1, version |-> 1, role |-> MapRole(calls[c].req),
                 hash |-> ""])
  /\ madeUsers' = madeUsers + 1
  /\ chosen' = [chosen EXCEPT ![u] = ""]
  /\ reborn' = reborn \ {u}
  /\ Then(c, [calls[c] EXCEPT !.read = users'[u]], <<>>)

\* The next uid is ahead of every uid given.
LEMMA NextUid ==
  ASSUME NEW m \in Nat, NEW n, NEW uid, n = m + 1, uid = m + 1
  PROVE  n \in Nat /\ n >= m /\ uid = n /\ uid <= n /\ uid > m
OBVIOUS

\* Whoever is provisioned has no password to be compared, and is an admin now
\* if it is one.
LEMMA Provisions ==
  ASSUME IdentityInv, NEW c \in Callers, At(c, "provision"), Provision(c),
         UNCHANGED <<tokens, links, sessions, flow, jwks, now, handled>>
  PROVE  IdentityInv'
<1> DEFINE q == calls[c].req
           u == calls[c].link.user
           row == [uid |-> madeUsers + 1, version |-> 1, role |-> MapRole(q), hash |-> ""]
           ch == [calls[c] EXCEPT !.read = users'[u]]
<1>1. calls[c].todo # <<>> /\ Head(calls[c].todo).act = "provision"
  BY DEF At
<1>2. calls[c] \in CallState /\ q.op = "oidc.callback"
  BY <1>1, SignInFacts DEF SignInActs
<1>3. u \in Users /\ calls[c].link.version = 0
  BY DEF IdentityInv, LinkInv, LinkOK
<1>m. madeUsers \in Nat /\ madeUsers + 1 \in Nat /\ madeUsers + 1 > madeUsers
  <2>1. madeUsers \in Nat
    BY BasicTypes DEF IdentityInv
  <2> QED  BY <2>1
<1>4. row \in UserRow
  BY <1>m DEF UserRow, MapRole, ValidRoles
<1>5. row.uid = madeUsers + 1 /\ row.hash = ""
  OBVIOUS
<1>6. /\ SetUser(u, row) /\ madeUsers' = madeUsers + 1
      /\ chosen' = [chosen EXCEPT ![u] = ""] /\ reborn' = reborn \ {u}
      /\ Then(c, ch, <<>>)
  BY DEF Provision
<1> HIDE DEF row
<1>7. /\ users' \in [Users -> UserRow] /\ AdminsGrow
      /\ \A v \in Users : v # u => users'[v] = users[v]
      /\ users'[u] = row
      /\ \A v \in Users : users'[v].role = "admin" => lastAdmin'[v] = now
  BY <1>3, <1>4, <1>6, SetUserStep, ZenonT(60)
<1>n. madeUsers' \in Nat /\ madeUsers' >= madeUsers /\ row.uid <= madeUsers' /\ row.uid > madeUsers
  <2>1. madeUsers' = madeUsers + 1
    BY <1>6
  <2> QED  BY <1>5, <1>m, <2>1, NextUid, Zenon
<1>8. UsersGrow
  BY <1>7, <1>n DEF UsersGrow
<1>9. LinksGrow
  BY DEF LinksGrow
<1>10. /\ ch \in CallState /\ ch.req = q /\ ch.todo = calls[c].todo /\ ch.role = calls[c].role
       /\ ch.who = calls[c].who /\ ch.link = calls[c].link /\ ch.read = row
  BY <1>2, <1>4, <1>7, NotesRow
<1> HIDE DEF ch
<1>12. /\ Carried(c, ch) /\ ProgramInv'
       /\ calls'[c].todo # <<>> => <<"provision", Head(calls'[c].todo).act>> \in CallOrder
  BY <1>1, <1>6, <1>10, ThenStep DEF IdentityInv
<1>13. calls'[c].todo # <<>> => Head(calls'[c].todo).act = "relink"
  BY <1>12 DEF CallOrder
<1>14. calls'[c].req = q /\ calls'[c].link = calls[c].link /\ calls'[c].read = row
  BY <1>10, <1>12 DEF Carried
<1>15. LinkOK(c)'
  BY <1>3, <1>13, <1>14 DEF LinkOK, At
<1>16. ReadNow(c, calls[c].link.user)'
  <2>1. row.role = "admin" => lastAdmin'[u] = now'
    BY <1>3, <1>7
  <2> QED  BY <1>14, <2>1 DEF ReadNow
<1>17. CallsOK'
  <2>1. calls'[c].req.op = "oidc.callback"
    BY <1>2, <1>14
  <2> QED  BY <1>1, <1>7, <1>8, <1>9, <1>10, <1>12, <1>13, <1>15, <1>16, <2>1, SignInMoves
<1>18. /\ chosen' \in [Users -> Passwords \cup {"", "initial"}]
       /\ \A v \in Users : v # u => chosen'[v] = chosen[v]
       /\ chosen'[u] = row.hash
  BY <1>3, <1>5, <1>6 DEF IdentityInv, IdentityTypeOK
<1>19. /\ reborn' \subseteq Users
       /\ \A v \in Users : v # u => (v \in reborn' <=> v \in reborn)
  BY <1>6 DEF IdentityInv, IdentityTypeOK
<1>20. madeUsers' \in Nat /\ madeUsers' >= madeUsers /\ row.uid <= madeUsers'
  BY <1>n
<1>21. calls' \in [Callers -> CallState] /\ ProgramInv'
  BY <1>12 DEF Carried
<1> HIDE DEF u
<1> QED  BY <1>4, <1>6, <1>17, <1>18, <1>19, <1>20, <1>21, RowStep

\* ResolveIdentity, in each of its parts.
LEMMA ResolveIdentityStep ==
  ASSUME IdentityInv, NEW c \in Callers, ResolveIdentity(c)
  PROVE  IdentityInv'
<1> DEFINE q == calls[c].req
           u == calls[c].link.user
           Kept == UNCHANGED <<users, lastAdmin, madeUsers, chosen, reborn>>
<1>0. UNCHANGED <<tokens, links, sessions, flow, jwks, now, handled>>
  BY DEF ResolveIdentity
<1>1. ASSUME Kept, calls' \in [Callers -> CallState] /\ ProgramInv' /\ CallsOK'
      PROVE  IdentityInv'
  BY <1>0, <1>1, CallsOnly DEF IdentityInv, IdentityTypeOK
<1>2. ASSUME Kept, calls[c].todo # <<>>, Answered(c)
      PROVE  IdentityInv'
  <2>1. UsersGrow /\ AdminsGrow /\ LinksGrow
    BY <1>0, <1>2, NothingMoves DEF IdentityInv
  <2> QED  BY <1>1, <1>2, <2>1, SilentAnswer
<1>3. CASE At(c, "identity") /\ Kept
  <2>1. calls[c].todo # <<>> /\ ~At(c, "linked") /\ ~At(c, "candidate") /\ ~At(c, "provision")
    BY <1>3 DEF At
  <2>2. CASE links[q.sub] # NoLink
    BY <1>0, <1>1, <1>3, <2>1, <2>2, FoundLink DEF ResolveIdentity
  <2>3. CASE links[q.sub] = NoLink /\ q.claim = ""
    BY <1>2, <1>3, <2>1, <2>3 DEF ResolveIdentity
  <2>4. CASE links[q.sub] = NoLink /\ q.claim # ""
    BY <1>0, <1>1, <1>3, <2>1, <2>4, TakesClaim DEF ResolveIdentity
  <2> QED  BY <2>2, <2>3, <2>4
<1>4. CASE At(c, "linked") /\ Kept
  <2>1. calls[c].todo # <<>> /\ ~At(c, "identity") /\ ~At(c, "candidate") /\ ~At(c, "provision")
    BY <1>4 DEF At
  <2>2. CASE Known(u)
    BY <1>0, <1>1, <1>4, <2>1, <2>2, ReadsLinked DEF ResolveIdentity
  <2>3. CASE ~Known(u)
    BY <1>2, <1>4, <2>1, <2>3 DEF ResolveIdentity
  <2> QED  BY <2>2, <2>3
<1>5. CASE At(c, "candidate") /\ Kept
  <2>1. calls[c].todo # <<>> /\ ~At(c, "identity") /\ ~At(c, "linked") /\ ~At(c, "provision")
    BY <1>5 DEF At
  <2>2. CASE Known(u)
    BY <1>0, <1>1, <1>5, <2>1, <2>2, ReadsCandidate DEF ResolveIdentity
  <2>3. CASE ~Known(u)
    BY <1>0, <1>1, <1>5, <2>1, <2>3, WillProvision DEF ResolveIdentity
  <2> QED  BY <2>2, <2>3
<1>6. CASE At(c, "provision")
  <2>1. calls[c].todo # <<>> /\ ~At(c, "identity") /\ ~At(c, "linked") /\ ~At(c, "candidate")
    BY <1>6 DEF At
  <2>2. CASE Known(u)
    BY <1>2, <1>6, <2>1, <2>2 DEF ResolveIdentity
  <2>3. CASE ~Known(u)
    BY <1>0, <1>6, <2>1, <2>3, Provisions DEF ResolveIdentity, Provision
  <2> QED  BY <2>2, <2>3
<1> QED  BY <1>3, <1>4, <1>5, <1>6 DEF ResolveIdentity

\* Whoever a subject is linked to, it stays linked to.
LEMMA StaysLinked ==
  ASSUME IdentityTypeOK, LinksGrow, NEW s \in Subjects, NEW u, LinkedTo(s, u)
  PROVE  LinkedTo(s, u)'
<1>1. links[s].version \in Nat
  BY DEF IdentityTypeOK, LinkRow
<1> QED  BY <1>1 DEF LinkedTo, LinksGrow

\* putIdentity: the version compared is what makes a new link the first one,
\* and any other link the one that was found.
LEMMA PutIdentityStep ==
  ASSUME IdentityInv, NEW c \in Callers, putIdentity(c)
  PROVE  IdentityInv'
<1> DEFINE s == calls[c].req.sub
           link == calls[c].link
           row == [version |-> links[s].version + 1, user |-> link.user]
<1>1. calls[c].todo # <<>> /\ Head(calls[c].todo).act = "relink" /\ At(c, "relink")
  BY DEF putIdentity, At
<1>2. /\ calls[c] \in CallState /\ calls[c].req.op = "oidc.callback" /\ s \in Subjects
      /\ links[s] \in LinkRow
  BY <1>1, SignInFacts DEF SignInActs
<1>u. UNCHANGED <<users, tokens, sessions, flow, jwks, now, madeUsers, handled, chosen,
                  lastAdmin, reborn>>
  BY DEF putIdentity
<1>3. CASE links[s].version # link.version
  <2>1. Answered(c) /\ UNCHANGED links
    BY <1>3 DEF putIdentity
  <2>2. UsersGrow /\ AdminsGrow /\ LinksGrow
    BY <1>u, <2>1, NothingMoves DEF IdentityInv
  <2>3. calls' \in [Callers -> CallState] /\ ProgramInv' /\ CallsOK'
    BY <1>1, <2>1, <2>2, SilentAnswer
  <2> QED  BY <1>u, <2>1, <2>3, CallsOnly DEF IdentityInv, IdentityTypeOK
<1>4. CASE links[s].version = link.version
  <2>1. links' = [links EXCEPT ![s] = row] /\ Then(c, calls[c], <<>>)
    BY <1>4 DEF putIdentity
  <2>2. link.user \in Users /\ (link.version = 0 \/ LinkedTo(s, link.user))
    BY <1>1 DEF IdentityInv, LinkInv, LinkOK
  <2>v. links[s].version \in Nat
    BY <1>2 DEF LinkRow
  <2>w. links[s].version + 1 \in Nat /\ links[s].version + 1 > 0
    BY <2>v
  <2>3. row \in LinkRow /\ row.version > 0 /\ row.user = link.user
    BY <2>2, <2>w DEF LinkRow
  <2> HIDE DEF row
  <2>4. links \in [Subjects -> LinkRow] /\ links' \in [Subjects -> LinkRow] /\ links'[s] = row
        /\ \A r \in Subjects : r # s => links'[r] = links[r]
    BY <1>2, <2>1, <2>3, BasicTypes DEF IdentityInv
  <2>5. LinksGrow
    <3>1. links[s].version = 0 \/ links'[s].user = links[s].user
      BY <1>4, <2>2, <2>3, <2>4 DEF LinkedTo
    <3> QED  BY <2>3, <2>4, <3>1 DEF LinksGrow
  <2>6. UsersGrow /\ AdminsGrow
    <3>1. madeUsers \in Nat /\ users \in [Users -> UserRow]
      BY BasicTypes DEF IdentityInv
    <3> QED  BY <1>u, <3>1 DEF UsersGrow, AdminsGrow
  <2>7. /\ Carried(c, calls[c]) /\ ProgramInv'
        /\ calls'[c].todo # <<>> => <<"relink", Head(calls'[c].todo).act>> \in CallOrder
    BY <1>1, <1>2, <2>1, ThenStep DEF IdentityInv
  <2>8. calls'[c].todo # <<>> => Head(calls'[c].todo).act = "mint"
    BY <2>7 DEF CallOrder
  <2>9. calls'[c].req = calls[c].req /\ calls'[c].link = link /\ calls'[c].read = calls[c].read
    BY <2>7 DEF Carried
  <2>10. LinkOK(c)'
    <3>1. LinkedTo(s, link.user)'
      BY <2>3, <2>4, <2>9 DEF LinkedTo
    <3> QED  BY <2>2, <2>8, <2>9, <3>1 DEF LinkOK, At
  <2>11. ReadNow(c, calls[c].link.user)'
    <3>1. ReadNow(c, link.user)
      BY <1>1 DEF IdentityInv, AdminInv, RoleOK
    <3> QED  BY <1>u, <2>9, <3>1 DEF ReadNow
  <2>12. CallsOK'
    <3>1. calls'[c].req.op = "oidc.callback"
      BY <1>2, <2>9
    <3> QED  BY <1>1, <2>5, <2>6, <2>7, <2>8, <2>10, <2>11, <3>1, SignInMoves
  <2>13. IdentityTypeOK'
    BY <1>u, <2>4, <2>7 DEF IdentityInv, IdentityTypeOK, Carried
  <2>14. PasswordInv'
    BY <1>u, <2>12 DEF IdentityInv, PasswordInv, CallsOK, PasswordIsLastChosen, Known
  <2>15. LinkInv'
    <3>1. ASSUME NEW r \in Subjects, links'[r].version = 0 PROVE links'[r] = NoLink
      <4>1. r # s
        BY <2>3, <2>4, <3>1
      <4> QED  BY <2>4, <3>1, <4>1 DEF IdentityInv, LinkInv
    <3>2. ASSUME NEW x \in sessions', x.sub # "" PROVE LinkedTo(x.sub, x.user)'
      <4>1. x \in sessions /\ x.sub \in Subjects /\ LinkedTo(x.sub, x.user)
        BY <1>u, <3>2 DEF IdentityInv, IdentityTypeOK, LinkInv
      <4> QED  BY <2>5, <4>1, StaysLinked DEF IdentityInv
    <3> QED  BY <2>12, <3>1, <3>2 DEF LinkInv, CallsOK
  <2>16. AdminInv'
    BY <1>u, <2>12 DEF IdentityInv, AdminInv, CallsOK
  <2> QED  BY <2>7, <2>13, <2>14, <2>15, <2>16 DEF IdentityInv
<1> QED  BY <1>3, <1>4

-----------------------------------------------------------------------------
(* The invariant, and what it is for. *)

\* The first start of the process: "admin", with the session of its first
\* sign-in, and nobody else.
LEMMA IdentityStarts == IdentityInit => IdentityInv
<1> SUFFICES ASSUME IdentityInit PROVE IdentityInv
  OBVIOUS
<1>a. "admin" \in Users /\ "" \notin Users /\ "" \notin Subjects
  BY IdentityAssumption, Zenon
<1>n. Expiry \in Nat /\ MaxClock \in Nat /\ MaxCalls \in Nat
  BY IdentityAssumption, Zenon
<1>z. 0 \in 0..MaxClock /\ 0 \in -1..MaxClock /\ -1 \in -1..MaxClock /\ 0 \in 0..MaxCalls
  BY <1>n
<1>1. /\ users \in [Users -> UserRow]
      /\ \A u \in Users : users[u].uid <= 1 /\ (users[u].role = "admin" => u = "admin")
      /\ \A u \in Users : users[u].uid # 0 => u = "admin" /\ users[u].hash = "initial"
  <2> DEFINE adm == [uid |-> 1, version |-> 1, role |-> "admin", hash |-> "initial"]
  <2>1. /\ adm \in UserRow /\ adm.uid = 1 /\ adm.role = "admin" /\ adm.hash = "initial"
        /\ NoUser \in UserRow /\ NoUser.uid = 0 /\ NoUser.role = ""
    BY DEF UserRow, NoUser, ValidRoles
  <2>2. users = [u \in Users |-> IF u = "admin" THEN adm ELSE NoUser]
    BY DEF IdentityInit, ensureAdminUser
  <2> HIDE DEF adm
  <2>3. ASSUME NEW u \in Users
        PROVE  /\ users[u] \in UserRow /\ users[u].uid <= 1
               /\ users[u].role = "admin" => u = "admin"
               /\ users[u].uid # 0 => u = "admin" /\ users[u].hash = "initial"
    <3>1. CASE u = "admin"
      <4>1. users[u] = adm
        BY <2>2, <3>1
      <4>2. users[u] \in UserRow /\ users[u].uid = 1 /\ users[u].hash = "initial"
        BY <2>1, <4>1
      <4> QED  BY <3>1, <4>2
    <3>2. CASE u # "admin"
      <4>1. users[u] = NoUser
        BY <2>2, <3>2
      <4>2. users[u] \in UserRow /\ users[u].uid = 0 /\ users[u].role # "admin"
        BY <2>1, <4>1
      <4>3. users[u].uid <= 1
        BY <4>2
      <4> QED  BY <4>2, <4>3, Zenon
    <3> QED  BY <3>1, <3>2
  <2> QED  BY <2>2, <2>3
<1>s. /\ sessions \subseteq [user : Users, role : ValidRoles, exp : Nat, sub : Subjects \cup {""}]
      /\ \A s \in sessions : s.exp = Expiry /\ s.user = "admin" /\ s.sub = ""
  <2> DEFINE first == [user |-> "admin", role |-> "admin", exp |-> Expiry, sub |-> ""]
  <2>1. first \in [user : Users, role : ValidRoles, exp : Nat, sub : Subjects \cup {""}]
    BY <1>a, <1>n DEF ValidRoles
  <2>2. first.exp = Expiry /\ first.user = "admin" /\ first.sub = ""
    OBVIOUS
  <2>3. sessions = {first}
    BY DEF IdentityInit
  <2> HIDE DEF first
  <2> QED  BY <2>1, <2>2, <2>3
<1>2. IdentityTypeOK
  <2>1. calls \in [Callers -> CallState]
    BY WaitingIsCall DEF IdentityInit
  <2>2. links \in [Subjects -> LinkRow] /\ tokens \in [Tokens -> [user : Users \cup {""}, exp : Nat]]
    BY DEF IdentityInit, NoLink, NoToken, LinkRow
  <2>3. sessions \subseteq [user : Users, role : ValidRoles, exp : Nat, sub : Subjects \cup {""}]
    BY <1>s
  <2>4. jwks \in [signing : {1, 2}, published : SUBSET {1, 2}, cached : SUBSET {1, 2}]
    BY DEF IdentityInit
  <2>5. /\ flow \in [Callers -> BOOLEAN]
        /\ chosen \in [Users -> Passwords \cup {"", "initial"}]
        /\ reborn \subseteq Users
    BY DEF IdentityInit
  <2>6. lastAdmin \in [Users -> -1..MaxClock]
    BY <1>z DEF IdentityInit
  <2>7. now \in 0..MaxClock /\ madeUsers \in Nat /\ handled \in 0..MaxCalls
    BY <1>z DEF IdentityInit
  <2> QED  BY <1>1, <2>1, <2>2, <2>3, <2>4, <2>5, <2>6, <2>7 DEF IdentityTypeOK
<1>3. \A c \in Callers : calls[c].todo = <<>>
  BY WaitingIsCall DEF IdentityInit
<1>4. ProgramInv
  BY <1>3, ProgramEmpty DEF ProgramInv
<1>5. \A c \in Callers : UpdateOK(c) /\ LinkOK(c) /\ RoleOK(c)
  BY <1>3 DEF UpdateOK, LinkOK, RoleOK, Entitled, At
<1>6. PasswordInv
  <2>1. PasswordIsLastChosen
    BY <1>1, <1>a DEF PasswordIsLastChosen, Known, IdentityInit
  <2> QED  BY <1>1, <1>5, <2>1 DEF PasswordInv, IdentityInit
<1>7. LinkInv
  <2>1. \A s \in Subjects : links[s] = NoLink
    BY DEF IdentityInit
  <2> QED  BY <1>5, <1>s, <2>1 DEF LinkInv
<1>8. AdminInv
  <2>1. lastAdmin["admin"] = 0 /\ now = 0 /\ \A u \in Users : lastAdmin[u] = 0 \/ lastAdmin[u] = -1
    BY <1>a DEF IdentityInit
  <2>2. \A u \in Users : lastAdmin[u] <= now /\ (users[u].role = "admin" => lastAdmin[u] = now)
    BY <1>1, <2>1
  <2>3. \A s \in sessions : s.role = "admin" => s.exp <= lastAdmin[s.user] + Expiry
    <3>1. Expiry <= 0 + Expiry
      BY <1>n
    <3> QED  BY <1>s, <2>1, <3>1
  <2> QED  BY <1>5, <2>2, <2>3 DEF AdminInv
<1> QED  BY <1>2, <1>4, <1>6, <1>7, <1>8 DEF IdentityInv

\* No step breaks it.
LEMMA IdentitySteps == IdentityInv /\ [IdentityNext]_identityVars => IdentityInv'
<1> SUFFICES ASSUME IdentityInv, [IdentityNext]_identityVars PROVE IdentityInv'
  OBVIOUS
<1>1. ASSUME NEW c \in Callers,
             \/ Request(c) \/ Authenticate(c) \/ VerifyAPIToken(c) \/ GetUser(c)
             \/ CreateUser(c) \/ UpdateUser(c) \/ DeleteUser(c) \/ APIToken(c)
             \/ GenerateToken(c) \/ signIn(c) \/ keyAt(c) \/ ResolveIdentity(c)
             \/ putIdentity(c)
      PROVE  IdentityInv'
  BY <1>1, RequestStep, AuthenticateStep, VerifyAPITokenStep, GetUserStep, CreateUserStep,
     UpdateUserStep, DeleteUserStep, APITokenStep, GenerateTokenStep, SignInStep, KeyAtStep,
     ResolveIdentityStep, PutIdentityStep
<1>2. CASE PassTime
  BY <1>2, PassTimeStep
<1>3. CASE RotateKeys
  BY <1>3, RotateKeysStep
<1>4. CASE UNCHANGED identityVars
  <2>1. UNCHANGED <<users, madeUsers, links, lastAdmin, now, calls>>
    BY <1>4 DEF identityVars
  <2>2. UsersGrow /\ AdminsGrow /\ LinksGrow
    BY <2>1, NothingMoves DEF IdentityInv
  <2>3. CallsOK'
    BY <2>1, <2>2, OthersKeep DEF CallsOK
  <2>4. ProgramInv'
    BY <2>1 DEF IdentityInv, ProgramInv, ProgramOK, Suits
  <2> QED  BY <1>4, <2>3, <2>4, CallsOnly DEF identityVars, IdentityInv, IdentityTypeOK
<1> QED  BY <1>1, <1>2, <1>3, <1>4 DEF IdentityNext

\* Whatever requests, sign-ins, rotations and ticks interleave, the requests
\* make their calls in order and what each relies on is so.
THEOREM IdentityInvariant == IdentitySpec => []IdentityInv
BY IdentityStarts, IdentitySteps, PTL DEF IdentitySpec

\* Every row, link, session and request of the edge has its shape.
THEOREM IdentityTypeCorrect == IdentitySpec => []IdentityTypeOK
<1>1. IdentityInv => IdentityTypeOK
  BY DEF IdentityInv
<1> QED  BY <1>1, IdentityInvariant, PTL

\* The password of a user is the one last chosen for it, whoever changes its
\* role meanwhile, unless the user was created again in between.
THEOREM PasswordsAreLastChosen == IdentitySpec => []PasswordIsLastChosen
<1>1. IdentityInv => PasswordIsLastChosen
  BY DEF IdentityInv, PasswordInv
<1> QED  BY <1>1, IdentityInvariant, PTL

\* Every session a subject was given is for the one user it is linked to,
\* whatever its concurrent sign-ins claim.
THEOREM SessionsMatchLinks == IdentitySpec => []SessionMatchesLink
<1>1. IdentityInv => SessionMatchesLink
  BY DEF IdentityInv, LinkInv, LinkedTo, SessionMatchesLink
<1> QED  BY <1>1, IdentityInvariant, PTL

\* Whoever runs an admin's request was an admin at most Expiry ago.
THEOREM AdminsEnd == IdentitySpec => []AdminEndsWithSession
<1>1. IdentityInv => AdminEndsWithSession
  BY DEF IdentityInv, AdminInv, RoleOK, Entitled, AdminEndsWithSession
<1> QED  BY <1>1, IdentityInvariant, PTL

-----------------------------------------------------------------------------
(* The audit log: where an event can be. *)

\* The types of what the invariant speaks of most.
LEMMA AuditTypes ==
  ASSUME AuditTypeOK
  PROVE  /\ MaxAudited \in Nat /\ MaxDay \in Nat /\ PageLimit \in Nat \ {0}
         /\ AuditSize \in Nat \ {0} /\ RetentionDays \in Nat
         /\ audited \in Nat /\ audited <= MaxAudited /\ inserted \in Nat
         /\ auditQueue \in Seq(Event) /\ Len(auditQueue) \in Nat
         /\ DOMAIN table \subseteq 1..inserted /\ table \in [DOMAIN table -> Event]
         /\ fate \in [1..MaxAudited -> Fates]
         /\ Marker \in Event /\ Marker.id = 0
<1>1. MaxAudited \in Nat /\ MaxDay \in Nat /\ RetentionDays \in Nat
  BY AuditAssumption
<1>2. PageLimit \in Nat \ {0} /\ AuditSize \in Nat \ {0}
  BY AuditAssumption
<1>3. audited \in 0..MaxAudited /\ auditQueue \in Seq(Event)
  BY DEF AuditTypeOK
<1>4. audited \in Nat /\ audited <= MaxAudited
  BY <1>1, <1>3
<1>5. Marker \in Event /\ Marker.id = 0
  <2>1. 0 \in 0..MaxAudited /\ 0 \in 0..MaxDay
    BY <1>1
  <2> QED  BY <2>1 DEF Marker, Event
<1>6. Len(auditQueue) \in Nat
  BY <1>3, LenProperties
<1> QED  BY <1>1, <1>2, <1>3, <1>4, <1>5, <1>6 DEF AuditTypeOK

\* An event at the end of the queue.
LEMMA Enqueued ==
  ASSUME NEW e \in Event, auditQueue \in Seq(Event), auditQueue' = Append(auditQueue, e)
  PROVE  /\ auditQueue' \in Seq(Event) /\ Len(auditQueue') = Len(auditQueue) + 1
         /\ Len(auditQueue) \in Nat
         /\ \A i \in 1..Len(auditQueue) : auditQueue'[i] = auditQueue[i]
         /\ auditQueue'[Len(auditQueue) + 1] = e
         /\ \A i \in 1..Len(auditQueue') : i \in 1..Len(auditQueue) \/ i = Len(auditQueue) + 1
<1>1. Len(auditQueue) \in Nat
  BY LenProperties
<1> QED  BY <1>1, AppendProperties

\* The first event off the queue.
LEMMA Dequeued ==
  ASSUME auditQueue \in Seq(Event), auditQueue # <<>>, auditQueue' = Tail(auditQueue)
  PROVE  /\ auditQueue' \in Seq(Event) /\ Len(auditQueue') = Len(auditQueue) - 1
         /\ Len(auditQueue) \in Nat /\ Len(auditQueue) >= 1
         /\ Head(auditQueue) = auditQueue[1] /\ auditQueue[1] \in Event
         /\ \A i \in 1..Len(auditQueue') :
              i + 1 \in 1..Len(auditQueue) /\ auditQueue'[i] = auditQueue[i + 1]
         /\ \A i \in 1..Len(auditQueue) :
              i # 1 => i - 1 \in 1..Len(auditQueue') /\ auditQueue'[i - 1] = auditQueue[i]
<1>1. Len(auditQueue) \in Nat /\ Len(auditQueue) >= 1
  BY LenProperties, EmptySeq
<1>2. /\ auditQueue' \in Seq(Event) /\ Len(auditQueue') = Len(auditQueue) - 1
      /\ Head(auditQueue) = auditQueue[1]
      /\ \A i \in 1..Len(auditQueue') : auditQueue'[i] = auditQueue[i + 1]
  BY <1>1, HeadTailProperties
<1>3. auditQueue[1] \in Event
  BY <1>1, ElementOfSeq
<1>4. ASSUME NEW i \in 1..Len(auditQueue')
      PROVE  i + 1 \in 1..Len(auditQueue) /\ auditQueue'[i] = auditQueue[i + 1]
  BY <1>1, <1>2
<1>5. ASSUME NEW i \in 1..Len(auditQueue), i # 1
      PROVE  i - 1 \in 1..Len(auditQueue') /\ auditQueue'[i - 1] = auditQueue[i]
  <2>1. i - 1 \in 1..Len(auditQueue') /\ (i - 1) + 1 = i
    BY <1>1, <1>2, <1>5
  <2> QED  BY <1>2, <2>1
<1> QED  BY <1>1, <1>2, <1>3, <1>4, <1>5

\* What is left of the queue was in it, behind the first.
LEMMA QueueShrinks ==
  ASSUME auditQueue \in Seq(Event), auditQueue # <<>>, auditQueue' = Tail(auditQueue)
  PROVE  /\ \A n : Queued(n)' => Queued(n)
         /\ \A n : Queued(n) => n = Head(auditQueue).id \/ Queued(n)'
         /\ \A n : BeforeMarker(n) => n = Head(auditQueue).id \/ BeforeMarker(n)'
         /\ Head(auditQueue) = Marker => \A n : ~BeforeMarker(n)
<1>d. /\ Len(auditQueue) \in Nat /\ Len(auditQueue) >= 1
      /\ Len(auditQueue') = Len(auditQueue) - 1 /\ Head(auditQueue) = auditQueue[1]
      /\ \A i \in 1..Len(auditQueue') :
           i + 1 \in 1..Len(auditQueue) /\ auditQueue'[i] = auditQueue[i + 1]
      /\ \A i \in 1..Len(auditQueue) :
           i # 1 => i - 1 \in 1..Len(auditQueue') /\ auditQueue'[i - 1] = auditQueue[i]
  BY Dequeued
<1>1. ASSUME NEW n, Queued(n)' PROVE Queued(n)
  BY <1>1, <1>d DEF Queued
<1>2. ASSUME NEW n, Queued(n) PROVE n = Head(auditQueue).id \/ Queued(n)'
  BY <1>2, <1>d DEF Queued
<1>3. ASSUME NEW n, BeforeMarker(n) PROVE n = Head(auditQueue).id \/ BeforeMarker(n)'
  <2>1. PICK i \in 1..Len(auditQueue) :
          auditQueue[i].id = n /\ \A j \in 1..i : auditQueue[j] # Marker
    BY <1>3 DEF BeforeMarker
  <2>2. CASE i = 1
    BY <1>d, <2>1, <2>2
  <2>3. CASE i # 1
    <3>1. i - 1 \in 1..Len(auditQueue') /\ auditQueue'[i - 1] = auditQueue[i]
      BY <1>d, <2>3
    <3>2. ASSUME NEW j \in 1..(i - 1) PROVE auditQueue'[j] # Marker
      <4>1. j \in 1..Len(auditQueue') /\ j + 1 \in 1..i
        BY <1>d, <3>1
      <4> QED  BY <1>d, <2>1, <4>1
    <3> QED  BY <2>1, <3>1, <3>2 DEF BeforeMarker
  <2> QED  BY <2>2, <2>3
<1>4. ASSUME Head(auditQueue) = Marker, NEW n, BeforeMarker(n) PROVE FALSE
  <2>1. PICK i \in 1..Len(auditQueue) : \A j \in 1..i : auditQueue[j] # Marker
    BY <1>4 DEF BeforeMarker
  <2>2. 1 \in 1..i
    BY <1>d, <2>1
  <2> QED  BY <1>4, <1>d, <2>1, <2>2
<1> QED  BY <1>1, <1>2, <1>3, <1>4

\* What is put at the end of the queue changes nothing before it.
LEMMA QueueGrows ==
  ASSUME NEW e \in Event, auditQueue \in Seq(Event), auditQueue' = Append(auditQueue, e)
  PROVE  /\ \A n : Queued(n)' <=> Queued(n) \/ n = e.id
         /\ \A n : BeforeMarker(n) => BeforeMarker(n)'
<1>d. /\ auditQueue' \in Seq(Event) /\ Len(auditQueue') = Len(auditQueue) + 1
      /\ Len(auditQueue) \in Nat
      /\ \A i \in 1..Len(auditQueue) : auditQueue'[i] = auditQueue[i]
      /\ auditQueue'[Len(auditQueue) + 1] = e
      /\ \A i \in 1..Len(auditQueue') : i \in 1..Len(auditQueue) \/ i = Len(auditQueue) + 1
  BY Enqueued
<1>1. /\ \A i \in 1..Len(auditQueue) : i \in 1..Len(auditQueue')
      /\ Len(auditQueue) + 1 \in 1..Len(auditQueue')
  BY <1>d
<1>2. ASSUME NEW n PROVE Queued(n)' <=> Queued(n) \/ n = e.id
  BY <1>d, <1>1 DEF Queued
<1>3. ASSUME NEW n, BeforeMarker(n) PROVE BeforeMarker(n)'
  <2>1. PICK i \in 1..Len(auditQueue) :
          auditQueue[i].id = n /\ \A j \in 1..i : auditQueue[j] # Marker
    BY <1>3 DEF BeforeMarker
  <2>2. \A j \in 1..i : j \in 1..Len(auditQueue)
    BY <1>d, <2>1
  <2> QED  BY <1>d, <1>1, <2>1, <2>2 DEF BeforeMarker
<1> QED  BY <1>2, <1>3

\* An event is lost for a reason other than the sweep.
Marks(n) ==
  /\ n \in 1..MaxAudited /\ fate[n] # "swept"
  /\ \E why \in Fates \ {"", "swept"} : fate' = [fate EXCEPT ![n] = why]

\* It stays so, and what was swept stays swept.
LEMMA FateMarked ==
  ASSUME AuditTypeOK, NEW n, Marks(n)
  PROVE  /\ fate' \in [1..MaxAudited -> Fates] /\ fate'[n] # ""
         /\ \A m \in 1..MaxAudited : Lost(m) => Lost(m)'
         /\ \A m \in 1..MaxAudited : m # n => fate'[m] = fate[m]
         /\ \A m \in 1..MaxAudited : fate'[m] = "swept" <=> fate[m] = "swept"
<1>1. fate \in [1..MaxAudited -> Fates]
  BY DEF AuditTypeOK
<1>2. PICK why \in Fates \ {"", "swept"} : fate' = [fate EXCEPT ![n] = why]
  BY DEF Marks
<1>3. n \in 1..MaxAudited /\ fate[n] # "swept"
  BY DEF Marks
<1>4. why \in Fates /\ why # "" /\ why # "swept"
  BY <1>2
<1>5. /\ fate' \in [1..MaxAudited -> Fates] /\ fate'[n] = why
      /\ \A m \in 1..MaxAudited : m # n => fate'[m] = fate[m]
  BY <1>1, <1>2, <1>3
<1> QED  BY <1>3, <1>4, <1>5 DEF Lost

\* The reader's part of the invariant, when neither the reader nor the table
\* changes and nothing that was swept is anything else.
LEMMA PagesKeep ==
  ASSUME AuditTypeOK, PageInv, UNCHANGED <<reader, table, inserted>>,
         audited' \in Nat, audited' >= audited, audited' <= MaxAudited,
         \A m \in 1..MaxAudited : fate[m] = "swept" => fate'[m] = "swept"
  PROVE  PageInv'
<1>1. audited \in Nat /\ audited <= MaxAudited /\ MaxAudited \in Nat
  BY AuditTypes
<1>2. \A m \in 1..audited : m \in 1..audited' /\ m \in 1..MaxAudited
  BY <1>1
<1>3. ASSUME NEW r, SweptAbove(r) PROVE SweptAbove(r)'
  BY <1>2, <1>3 DEF SweptAbove
<1>4. ASSUME NEW r, Ahead(r) PROVE Ahead(r)'
  BY <1>4 DEF Ahead, buildQuery
<1>5. \A r \in DOMAIN reader.wanted : reader.wanted[r].id \in 1..audited
  BY DEF PageInv
<1> QED  BY <1>2, <1>3, <1>4, <1>5 DEF PageInv

\* Middleware: a mutation that has been answered is with its goroutine.
LEMMA MiddlewareStep ==
  ASSUME AuditInv, NEW h \in AuditHandlers, Middleware(h),
         audited' = audited + 1,
         request' = [request EXCEPT ![h] =
                       [pc |-> "record", event |-> [id |-> audited + 1, day |-> day]]]
  PROVE  AuditInv'
<1>u. UNCHANGED <<auditQueue, drainer, stopped, table, inserted, fate, flushing, reader, stage, day>>
  BY DEF Middleware
<1>i. AuditTypeOK /\ StageInv /\ EventInv /\ FlushInv /\ OnceInv /\ PageInv
  BY DEF AuditInv
<1>t. /\ audited \in Nat /\ MaxAudited \in Nat /\ audited < MaxAudited
      /\ request[h].pc = "idle" /\ Marker.id = 0 /\ Len(auditQueue) \in Nat
  BY <1>i, AuditTypes DEF Middleware
<1>a. audited' \in Nat /\ audited' >= audited /\ audited' <= MaxAudited /\ audited + 1 \in 0..MaxAudited
      /\ audited + 1 \in 1..MaxAudited /\ audited + 1 > audited
  BY <1>t
<1> DEFINE e == [id |-> audited + 1, day |-> day]
<1>e. e \in Event /\ e.id = audited + 1
  BY <1>i, <1>a DEF Event, AuditTypeOK
<1>r. /\ request' \in [AuditHandlers -> [pc : {"idle", "record", "send"}, event : Event]]
      /\ request'[h].pc = "record" /\ request'[h].event.id = audited + 1
      /\ \A g \in AuditHandlers : g # h => request'[g] = request[g]
  <2> DEFINE k == [pc |-> "record", event |-> e]
  <2>1. request' = [request EXCEPT ![h] = k]
    OBVIOUS
  <2> HIDE DEF e
  <2>2. k \in [pc : {"idle", "record", "send"}, event : Event]
        /\ k.pc = "record" /\ k.event = e
    BY <1>e
  <2> HIDE DEF k
  <2> QED  BY <1>i, <1>e, <2>1, <2>2, ZenonT(60) DEF AuditTypeOK
<1> HIDE DEF e
<1>p. /\ Pending(h)' /\ ~Pending(h)
      /\ \A g \in AuditHandlers : g # h => (Pending(g)' <=> Pending(g))
  BY <1>r, <1>t DEF Pending
<1>1. AuditTypeOK'
  BY <1>i, <1>u, <1>r, <1>a, <1>t DEF AuditTypeOK
<1>2. StageInv'
  BY <1>i, <1>u DEF StageInv
<1>n. \A n \in 1..audited : n \in 1..audited' /\ n # audited + 1
  BY <1>a, <1>t
<1>m. \A n \in 1..audited' : n \in 1..audited \/ n = audited + 1
  BY <1>a, <1>t
<1>3. EventInv'
  <2>1. \A g \in AuditHandlers : Pending(g)' => request'[g].event.id \in 1..audited'
    BY <1>i, <1>r, <1>p, <1>n, <1>a DEF EventInv
  <2>2. \A i \in 1..Len(auditQueue') : auditQueue'[i] = Marker \/ auditQueue'[i].id \in 1..audited'
    BY <1>i, <1>u, <1>n DEF EventInv
  <2>3. \A r \in DOMAIN table' : table'[r].id \in 1..audited'
    BY <1>i, <1>u, <1>n DEF EventInv
  <2>4. ASSUME NEW n \in 1..MaxAudited, Lost(n)' PROVE n <= audited'
    <3>1. n <= audited
      BY <1>i, <1>u, <2>4 DEF EventInv, Lost
    <3>2. n \in Nat
      BY <1>t
    <3> QED  BY <3>1, <3>2, <1>a, <1>t
  <2>5. ASSUME NEW n \in 1..audited'
        PROVE  \/ Decided(n)' \/ Queued(n)'
               \/ \E g \in AuditHandlers : Pending(g)' /\ request'[g].event.id = n
    <3>1. CASE n = audited + 1
      BY <3>1, <1>r, <1>p
    <3>2. CASE n \in 1..audited
      <4>1. Decided(n) => Decided(n)'
        BY <1>u DEF Decided, Lost, Ids
      <4>2. Queued(n) => Queued(n)'
        BY <1>u DEF Queued
      <4>3. (\E g \in AuditHandlers : Pending(g) /\ request[g].event.id = n)
              => \E g \in AuditHandlers : Pending(g)' /\ request'[g].event.id = n
        BY <1>p, <1>r
      <4> QED  BY <1>i, <3>2, <4>1, <4>2, <4>3 DEF EventInv
    <3> QED  BY <3>1, <3>2, <1>m
  <2> QED  BY <2>1, <2>2, <2>3, <2>4, <2>5 DEF EventInv
<1>4. FlushInv'
  <2>1. \A n : (Decided(n)' <=> Decided(n)) /\ (BeforeMarker(n)' <=> BeforeMarker(n))
    BY <1>u DEF Decided, Lost, Ids, BeforeMarker
  <2> QED  BY <1>i, <1>u, <2>1 DEF FlushInv
<1>f. \A n : Queued(n)' <=> Queued(n)
  BY <1>u DEF Queued
<1>g. \A n : Past(n)' <=> Past(n)
  BY <1>u DEF Past, Ids
<1>5. OnceInv'
  <2>1. ~Queued(audited + 1)
    <3>1. \A i \in 1..Len(auditQueue) : auditQueue[i].id = 0 \/ auditQueue[i].id \in 1..audited
      BY <1>i, <1>t DEF EventInv
    <3>2. 0 # audited + 1
      BY <1>t
    <3> QED  BY <3>1, <3>2, <1>n DEF Queued
  <2>2. ~Past(audited + 1)
    <3>1. audited + 1 \notin Ids(table) /\ audited + 1 \notin Ids(reader.wanted)
      BY <1>i, <1>n DEF EventInv, PageInv, Ids
    <3>2. ~Lost(audited + 1)
      <4>1. ~(audited + 1 <= audited)
        BY <1>t
      <4> QED  BY <1>i, <1>a, <4>1 DEF EventInv
    <3> QED  BY <3>1, <3>2 DEF Past, Lost
  <2>3. \A g \in AuditHandlers : Pending(g) => request[g].event.id # audited + 1
    BY <1>i, <1>n DEF EventInv
  <2>4. \A g, k \in AuditHandlers :
          Pending(g)' /\ Pending(k)' /\ request'[g].event.id = request'[k].event.id => g = k
    BY <1>i, <1>r, <1>p, <2>3 DEF OnceInv
  <2>5. ASSUME NEW g \in AuditHandlers, Pending(g)'
        PROVE  ~Queued(request[g].event.id)' /\ ~Past(request[g].event.id)'
    <3> DEFINE n == request'[g].event.id
    <3>1. ~Queued(n) /\ ~Past(n)
      BY <1>i, <1>r, <1>p, <2>1, <2>2, <2>5 DEF OnceInv
    <3> QED  BY <1>f, <1>g, <3>1
  <2> QED  BY <1>i, <1>u, <1>f, <1>g, <2>4, <2>5 DEF OnceInv
<1>6. PageInv'
  BY <1>i, <1>u, <1>a, PagesKeep
<1> QED  BY <1>1, <1>2, <1>3, <1>4, <1>5, <1>6 DEF AuditInv

\* A goroutine goes on with its event.
LEMMA Moves ==
  ASSUME AuditTypeOK, NEW h \in AuditHandlers, NEW pc \in {"idle", "record", "send"},
         request' = [request EXCEPT ![h].pc = pc]
  PROVE  /\ request' \in [AuditHandlers -> [pc : {"idle", "record", "send"}, event : Event]]
         /\ request'[h].pc = pc /\ request'[h].event = request[h].event
         /\ \A g \in AuditHandlers : g # h => request'[g] = request[g]
<1>1. request \in [AuditHandlers -> [pc : {"idle", "record", "send"}, event : Event]]
  BY DEF AuditTypeOK
<1>2. request[h] \in [pc : {"idle", "record", "send"}, event : Event]
  BY <1>1
<1>3. /\ [request[h] EXCEPT !.pc = pc] \in [pc : {"idle", "record", "send"}, event : Event]
      /\ [request[h] EXCEPT !.pc = pc].pc = pc
      /\ [request[h] EXCEPT !.pc = pc].event = request[h].event
  BY <1>2
<1>4. request' = [request EXCEPT ![h] = [request[h] EXCEPT !.pc = pc]]
  OBVIOUS
<1> QED  BY <1>1, <1>3, <1>4

\* Record finds the recorder running and will send.
LEMMA WillSend ==
  ASSUME AuditInv, NEW h \in AuditHandlers, Pending(h),
         request' = [request EXCEPT ![h].pc = "send"],
         UNCHANGED <<auditQueue, drainer, stopped, table, inserted, fate, flushing, reader, stage,
                     day, audited>>
  PROVE  AuditInv'
<1>i. AuditTypeOK /\ StageInv /\ EventInv /\ FlushInv /\ OnceInv /\ PageInv
  BY DEF AuditInv
<1>r. /\ request' \in [AuditHandlers -> [pc : {"idle", "record", "send"}, event : Event]]
      /\ request'[h].pc = "send" /\ request'[h].event = request[h].event
      /\ \A g \in AuditHandlers : g # h => request'[g] = request[g]
  BY <1>i, Moves
<1>p. \A g \in AuditHandlers : (Pending(g)' <=> Pending(g)) /\ request'[g].event = request[g].event
  BY <1>r DEF Pending
<1>f. \A n : /\ Queued(n)' <=> Queued(n)
             /\ Past(n)' <=> Past(n)
             /\ Decided(n)' <=> Decided(n)
             /\ BeforeMarker(n)' <=> BeforeMarker(n)
             /\ Lost(n)' <=> Lost(n)
  BY DEF Queued, Past, Decided, Lost, Ids, BeforeMarker
<1>1. AuditTypeOK'
  BY <1>i, <1>r DEF AuditTypeOK
<1>2. StageInv'
  BY <1>i DEF StageInv
<1>3. EventInv'
  BY <1>i, <1>p, <1>f DEF EventInv
<1>4. FlushInv'
  BY <1>i, <1>f DEF FlushInv
<1>5. OnceInv'
  BY <1>i, <1>p, <1>f DEF OnceInv
<1>6. PageInv'
  <2>1. audited \in Nat /\ audited <= MaxAudited
    BY <1>i, AuditTypes
  <2>2. audited' >= audited
    BY <2>1
  <2> QED  BY <1>i, <2>1, <2>2, PagesKeep
<1> QED  BY <1>1, <1>2, <1>3, <1>4, <1>5, <1>6 DEF AuditInv

\* Record loses the event: the recorder is stopped, or the queue is full.
LEMMA RecordLoses ==
  ASSUME AuditInv, NEW h \in AuditHandlers, Pending(h), NEW e, e = request[h].event,
         request' = [request EXCEPT ![h].pc = "idle"], Marks(e.id),
         UNCHANGED <<auditQueue, drainer, stopped, table, inserted, flushing, reader, stage,
                     day, audited>>
  PROVE  AuditInv'
<1>i. AuditTypeOK /\ StageInv /\ EventInv /\ FlushInv /\ OnceInv /\ PageInv
  BY DEF AuditInv
<1>r. /\ request' \in [AuditHandlers -> [pc : {"idle", "record", "send"}, event : Event]]
      /\ request'[h].pc = "idle"
      /\ \A g \in AuditHandlers : g # h => request'[g] = request[g]
  BY <1>i, Moves
<1>p. ~Pending(h)' /\ \A g \in AuditHandlers : g # h => (Pending(g)' <=> Pending(g))
  BY <1>r DEF Pending
<1>a. audited \in Nat /\ audited <= MaxAudited /\ audited >= audited /\ MaxAudited \in Nat
  BY <1>i, AuditTypes
<1>e. e.id \in 1..audited
  BY <1>i DEF EventInv
<1>m. /\ fate' \in [1..MaxAudited -> Fates] /\ fate'[e.id] # ""
      /\ \A m \in 1..MaxAudited : Lost(m) => Lost(m)'
      /\ \A m \in 1..MaxAudited : m # e.id => fate'[m] = fate[m]
      /\ \A m \in 1..MaxAudited : fate'[m] = "swept" <=> fate[m] = "swept"
  BY <1>i, FateMarked
<1>n. \A n \in 1..audited : n \in 1..MaxAudited
  BY <1>a
<1>f. \A n : (Queued(n)' <=> Queued(n)) /\ (BeforeMarker(n)' <=> BeforeMarker(n))
  BY DEF Queued, BeforeMarker
<1>d. \A n \in 1..MaxAudited : (Decided(n) => Decided(n)') /\ (Past(n)' => Past(n))
  BY <1>m DEF Decided, Past, Ids
<1>1. AuditTypeOK'
  BY <1>i, <1>r, <1>m DEF AuditTypeOK
<1>2. StageInv'
  BY <1>i DEF StageInv
<1>3. EventInv'
  <2>1. \A g \in AuditHandlers : Pending(g)' => request'[g].event.id \in 1..audited'
    BY <1>i, <1>r, <1>p DEF EventInv
  <2>2. ASSUME NEW n \in 1..MaxAudited, Lost(n)' PROVE n <= audited'
    <3>1. CASE n = e.id
      BY <3>1, <1>e, <1>a
    <3>2. CASE n # e.id
      BY <1>i, <1>m, <2>2, <3>2 DEF EventInv, Lost
    <3> QED  BY <3>1, <3>2
  <2>3. ASSUME NEW n \in 1..audited
        PROVE  \/ Decided(n)' \/ Queued(n)'
               \/ \E g \in AuditHandlers : Pending(g)' /\ request'[g].event.id = n
    <3>1. CASE n = e.id
      BY <3>1, <1>m DEF Decided, Lost
    <3>2. CASE n # e.id
      <4>1. (\E g \in AuditHandlers : Pending(g) /\ request[g].event.id = n)
              => \E g \in AuditHandlers : Pending(g)' /\ request'[g].event.id = n
        BY <1>p, <1>r, <3>2
      <4> QED  BY <1>i, <1>d, <1>f, <1>n, <4>1 DEF EventInv
    <3> QED  BY <3>1, <3>2
  <2> QED  BY <1>i, <2>1, <2>2, <2>3 DEF EventInv
<1>4. FlushInv'
  <2>1. \A n \in flushing.before : n \in 1..MaxAudited
    BY <1>i DEF AuditTypeOK
  <2> QED  BY <1>i, <1>f, <1>d, <2>1 DEF FlushInv
<1>5. OnceInv'
  <2>1. \A g, k \in AuditHandlers :
          Pending(g)' /\ Pending(k)' /\ request'[g].event.id = request'[k].event.id => g = k
    BY <1>i, <1>r, <1>p DEF OnceInv
  <2>2. ASSUME NEW g \in AuditHandlers, Pending(g)'
        PROVE  ~Queued(request[g].event.id)' /\ ~Past(request[g].event.id)'
    <3>1. g # h /\ Pending(g) /\ request'[g] = request[g]
      BY <1>p, <1>r, <2>2
    <3>2. request[g].event.id \in 1..MaxAudited
      BY <1>i, <1>n, <3>1 DEF EventInv
    <3> QED  BY <1>i, <1>f, <1>d, <3>1, <3>2 DEF OnceInv
  <2>3. ASSUME NEW i \in 1..Len(auditQueue), auditQueue[i] # Marker
        PROVE  ~Past(auditQueue[i].id)'
    <3>1. auditQueue[i].id \in 1..MaxAudited
      BY <1>i, <1>n, <2>3 DEF EventInv
    <3> QED  BY <1>i, <1>d, <2>3, <3>1 DEF OnceInv
  <2> QED  BY <1>i, <2>1, <2>2, <2>3 DEF OnceInv
<1>6. PageInv'
  BY <1>i, <1>a, <1>m, PagesKeep
<1> QED  BY <1>1, <1>2, <1>3, <1>4, <1>5, <1>6 DEF AuditInv

\* Record puts the event at the end of the queue.
LEMMA RecordSends ==
  ASSUME AuditInv, NEW h \in AuditHandlers, Pending(h), NEW e, e = request[h].event,
         ~stopped, Len(auditQueue) < AuditSize, auditQueue' = Append(auditQueue, e),
         request' = [request EXCEPT ![h].pc = "idle"],
         UNCHANGED <<fate, drainer, stopped, table, inserted, flushing, reader, stage,
                     day, audited>>
  PROVE  AuditInv'
<1>i. AuditTypeOK /\ StageInv /\ EventInv /\ FlushInv /\ OnceInv /\ PageInv
  BY DEF AuditInv
<1>r. /\ request' \in [AuditHandlers -> [pc : {"idle", "record", "send"}, event : Event]]
      /\ request'[h].pc = "idle"
      /\ \A g \in AuditHandlers : g # h => request'[g] = request[g]
  BY <1>i, Moves
<1>p. ~Pending(h)' /\ \A g \in AuditHandlers : g # h => (Pending(g)' <=> Pending(g))
  BY <1>r DEF Pending
<1>a. /\ audited \in Nat /\ audited <= MaxAudited /\ audited >= audited /\ MaxAudited \in Nat
      /\ Marker.id = 0 /\ AuditSize \in Nat /\ auditQueue \in Seq(Event)
  BY <1>i, AuditTypes
<1>e. e.id \in 1..audited /\ e \in Event /\ e # Marker
  <2>1. e.id \in 1..audited /\ e \in Event
    BY <1>i DEF EventInv, AuditTypeOK
  <2>2. e.id # 0
    BY <2>1
  <2> QED  BY <1>a, <2>1, <2>2
<1>q. /\ auditQueue' \in Seq(Event) /\ Len(auditQueue') = Len(auditQueue) + 1
      /\ Len(auditQueue) \in Nat
      /\ \A i \in 1..Len(auditQueue) : auditQueue'[i] = auditQueue[i]
      /\ auditQueue'[Len(auditQueue) + 1] = e
      /\ \A i \in 1..Len(auditQueue') : i \in 1..Len(auditQueue) \/ i = Len(auditQueue) + 1
  BY <1>a, <1>e, Enqueued
<1>g. /\ \A n : Queued(n)' <=> Queued(n) \/ n = e.id
      /\ \A n : BeforeMarker(n) => BeforeMarker(n)'
  BY <1>a, <1>e, QueueGrows
<1>f. \A n : (Decided(n)' <=> Decided(n)) /\ (Past(n)' <=> Past(n)) /\ (Lost(n)' <=> Lost(n))
  BY DEF Decided, Past, Ids, Lost
<1>1. AuditTypeOK'
  <2>1. Len(auditQueue') <= AuditSize
    BY <1>a, <1>q
  <2> QED  BY <1>i, <1>r, <1>q, <2>1 DEF AuditTypeOK
<1>2. StageInv'
  BY <1>i DEF StageInv
<1>3. EventInv'
  <2>1. \A g \in AuditHandlers : Pending(g)' => request'[g].event.id \in 1..audited'
    BY <1>i, <1>r, <1>p DEF EventInv
  <2>2. \A i \in 1..Len(auditQueue') : auditQueue'[i] = Marker \/ auditQueue'[i].id \in 1..audited'
    BY <1>i, <1>q, <1>e DEF EventInv
  <2>3. ASSUME NEW n \in 1..audited
        PROVE  \/ Decided(n)' \/ Queued(n)'
               \/ \E g \in AuditHandlers : Pending(g)' /\ request'[g].event.id = n
    <3>1. CASE n = e.id
      BY <3>1, <1>g
    <3>2. CASE n # e.id
      <4>1. (\E g \in AuditHandlers : Pending(g) /\ request[g].event.id = n)
              => \E g \in AuditHandlers : Pending(g)' /\ request'[g].event.id = n
        BY <1>p, <1>r, <3>2
      <4> QED  BY <1>i, <1>f, <1>g, <4>1 DEF EventInv
    <3> QED  BY <3>1, <3>2
  <2> QED  BY <1>i, <1>f, <2>1, <2>2, <2>3 DEF EventInv
<1>4. FlushInv'
  <2>1. (\A i \in 1..Len(auditQueue) : auditQueue[i] # Marker)
          => \A i \in 1..Len(auditQueue') : auditQueue'[i] # Marker
    BY <1>q, <1>e
  <2> QED  BY <1>i, <1>f, <1>g, <2>1 DEF FlushInv
<1>5. OnceInv'
  <2>1. \A g, k \in AuditHandlers :
          Pending(g)' /\ Pending(k)' /\ request'[g].event.id = request'[k].event.id => g = k
    BY <1>i, <1>r, <1>p DEF OnceInv
  <2>2. ASSUME NEW g \in AuditHandlers, Pending(g)'
        PROVE  ~Queued(request[g].event.id)' /\ ~Past(request[g].event.id)'
    <3>1. g # h /\ Pending(g) /\ request'[g] = request[g]
      BY <1>p, <1>r, <2>2
    <3>2. request[g].event.id # e.id
      BY <1>i, <3>1 DEF OnceInv
    <3> QED  BY <1>i, <1>f, <1>g, <3>1, <3>2 DEF OnceInv
  <2>3. ~Queued(e.id) /\ ~Past(e.id)
    BY <1>i DEF OnceInv
  <2>4. \A i \in 1..Len(auditQueue) : auditQueue[i].id # e.id
    BY <2>3 DEF Queued
  <2>5. \A i, j \in 1..Len(auditQueue') :
          auditQueue'[i] # Marker /\ auditQueue'[i].id = auditQueue'[j].id => i = j
    BY <1>i, <1>q, <2>4 DEF OnceInv
  <2>6. \A i \in 1..Len(auditQueue') : auditQueue'[i] # Marker => ~Past(auditQueue'[i].id)
    BY <1>i, <1>q, <2>3 DEF OnceInv
  <2>7. \A i \in 1..Len(auditQueue') : auditQueue'[i] # Marker => ~Past(auditQueue[i].id)'
    BY <1>f, <2>6
  <2> QED  BY <1>i, <2>1, <2>2, <2>5, <2>7 DEF OnceInv
<1>6. PageInv'
  BY <1>i, <1>a, PagesKeep
<1> QED  BY <1>1, <1>2, <1>3, <1>4, <1>5, <1>6 DEF AuditInv

\* Recorder.Record, both halves.
LEMMA RecordStep ==
  ASSUME AuditInv, NEW h \in AuditHandlers, Record(h)
  PROVE  AuditInv'
<1>1. PICK e : e = request[h].event
  OBVIOUS
<1>2. Pending(h) /\ UNCHANGED <<drainer, stopped, table, inserted, flushing, reader, stage, day,
                                audited>>
  BY DEF Record, Pending
<1>3. e.id \in 1..MaxAudited /\ fate[e.id] # "swept"
  <2>1. e.id \in 1..audited /\ ~Past(e.id)
    BY <1>1, <1>2 DEF AuditInv, EventInv, OnceInv
  <2>2. audited \in Nat /\ MaxAudited \in Nat /\ audited <= MaxAudited
    BY AuditTypes DEF AuditInv
  <2> QED  BY <2>1, <2>2 DEF Past
<1>4. ASSUME NEW why \in {"refused", "panic", "dropped"}, fate' = [fate EXCEPT ![e.id] = why],
             request' = [request EXCEPT ![h].pc = "idle"], UNCHANGED auditQueue
      PROVE  AuditInv'
  <2>1. why \in Fates \ {"", "swept"}
    BY DEF Fates
  <2>2. Marks(e.id)
    BY <1>3, <1>4, <2>1 DEF Marks
  <2> QED  BY <1>1, <1>2, <1>4, <2>2, RecordLoses
<1>5. CASE request[h].pc = "record"
  BY <1>1, <1>2, <1>4, <1>5, WillSend DEF Record
<1>6. CASE request[h].pc = "send"
  BY <1>1, <1>2, <1>4, <1>6, RecordSends DEF Record
<1> QED  BY <1>5, <1>6 DEF Record

\* What is left of a queue without duplicates has none.
LEMMA TailOnce ==
  ASSUME AuditInv, auditQueue # <<>>, auditQueue' = Tail(auditQueue), NEW e, e = Head(auditQueue)
  PROVE  /\ auditQueue' \in Seq(Event) /\ Len(auditQueue') <= AuditSize /\ e \in Event
         /\ e # Marker => e.id \in 1..audited /\ ~Past(e.id)
         /\ e # Marker => \A h \in AuditHandlers : Pending(h) => request[h].event.id # e.id
         /\ e # Marker => \A i \in 1..Len(auditQueue') : auditQueue'[i].id # e.id
         /\ \A i \in 1..Len(auditQueue') :
              /\ auditQueue'[i] = Marker \/ auditQueue'[i].id \in 1..audited
              /\ auditQueue'[i] # Marker => ~Past(auditQueue'[i].id)
         /\ \A i, j \in 1..Len(auditQueue') :
              auditQueue'[i] # Marker /\ auditQueue'[i].id = auditQueue'[j].id => i = j
         /\ (\A i \in 1..Len(auditQueue) : auditQueue[i] # Marker)
              => \A i \in 1..Len(auditQueue') : auditQueue'[i] # Marker
<1>i. AuditTypeOK /\ EventInv /\ OnceInv
  BY DEF AuditInv
<1>t. auditQueue \in Seq(Event) /\ AuditSize \in Nat /\ Len(auditQueue) <= AuditSize
  BY <1>i, AuditTypes DEF AuditTypeOK
<1>d. /\ auditQueue' \in Seq(Event) /\ Len(auditQueue') = Len(auditQueue) - 1
      /\ Len(auditQueue) \in Nat /\ Len(auditQueue) >= 1
      /\ Head(auditQueue) = auditQueue[1] /\ auditQueue[1] \in Event
      /\ \A i \in 1..Len(auditQueue') :
           i + 1 \in 1..Len(auditQueue) /\ auditQueue'[i] = auditQueue[i + 1]
  BY <1>t, Dequeued
<1>1. 1 \in 1..Len(auditQueue) /\ e = auditQueue[1] /\ Len(auditQueue') <= AuditSize
  BY <1>t, <1>d
<1>2. e # Marker => e.id \in 1..audited /\ ~Past(e.id)
  BY <1>i, <1>1 DEF EventInv, OnceInv
<1>3. ASSUME e # Marker, NEW h \in AuditHandlers, Pending(h) PROVE request[h].event.id # e.id
  BY <1>i, <1>1, <1>3 DEF OnceInv, Queued
<1>4. ASSUME e # Marker, NEW i \in 1..Len(auditQueue') PROVE auditQueue'[i].id # e.id
  <2>1. i + 1 \in 1..Len(auditQueue) /\ auditQueue'[i] = auditQueue[i + 1] /\ i + 1 # 1
    BY <1>d
  <2> QED  BY <1>i, <1>1, <1>4, <2>1 DEF OnceInv
<1>5. ASSUME NEW i \in 1..Len(auditQueue')
      PROVE  /\ auditQueue'[i] = Marker \/ auditQueue'[i].id \in 1..audited
             /\ auditQueue'[i] # Marker => ~Past(auditQueue'[i].id)
  BY <1>i, <1>d DEF EventInv, OnceInv
<1>6. ASSUME NEW i \in 1..Len(auditQueue'), NEW j \in 1..Len(auditQueue'),
             auditQueue'[i] # Marker, auditQueue'[i].id = auditQueue'[j].id
      PROVE  i = j
  <2>1. i + 1 = j + 1
    BY <1>i, <1>d, <1>6 DEF OnceInv
  <2>2. i \in Nat /\ j \in Nat
    BY <1>d
  <2> QED  BY <2>1, <2>2
<1> QED  BY <1>d, <1>1, <1>2, <1>3, <1>4, <1>5, <1>6

\* A flush marker comes out of the queue: what was before it is decided.
LEMMA MarkerTaken ==
  ASSUME AuditInv, auditQueue # <<>>, auditQueue' = Tail(auditQueue), Head(auditQueue) = Marker,
         \/ flushing.pc = "waiting" /\ flushing' = [flushing EXCEPT !.pc = "done"]
         \/ flushing.pc # "waiting" /\ UNCHANGED flushing,
         UNCHANGED <<request, drainer, stopped, table, inserted, fate, reader, stage, day, audited>>
  PROVE  AuditInv'
<1>i. AuditTypeOK /\ StageInv /\ EventInv /\ FlushInv /\ OnceInv /\ PageInv
  BY DEF AuditInv
<1>t. /\ auditQueue \in Seq(Event) /\ audited \in Nat /\ audited <= MaxAudited
      /\ audited >= audited /\ Marker.id = 0
  BY <1>i, AuditTypes
<1>q. /\ auditQueue' \in Seq(Event) /\ Len(auditQueue') <= AuditSize
      /\ \A i \in 1..Len(auditQueue') :
           /\ auditQueue'[i] = Marker \/ auditQueue'[i].id \in 1..audited
           /\ auditQueue'[i] # Marker => ~Past(auditQueue'[i].id)
      /\ \A i, j \in 1..Len(auditQueue') :
           auditQueue'[i] # Marker /\ auditQueue'[i].id = auditQueue'[j].id => i = j
      /\ (\A i \in 1..Len(auditQueue) : auditQueue[i] # Marker)
           => \A i \in 1..Len(auditQueue') : auditQueue'[i] # Marker
  BY TailOnce
<1>s. /\ \A n : Queued(n)' => Queued(n)
      /\ \A n : Queued(n) => n = 0 \/ Queued(n)'
      /\ \A n : BeforeMarker(n) => n = 0 \/ BeforeMarker(n)'
      /\ \A n : ~BeforeMarker(n)
  BY <1>t, QueueShrinks
<1>f. \A n : (Decided(n)' <=> Decided(n)) /\ (Past(n)' <=> Past(n)) /\ (Lost(n)' <=> Lost(n))
  BY DEF Decided, Past, Ids, Lost
<1>p. \A h \in AuditHandlers : Pending(h)' <=> Pending(h)
  BY DEF Pending
<1>1. AuditTypeOK'
  <2>1. flushing' \in [pc : {"off", "waiting", "done", "gave up"}, before : SUBSET (1..MaxAudited)]
    BY <1>i DEF AuditTypeOK
  <2> QED  BY <1>i, <1>q, <2>1 DEF AuditTypeOK
<1>2. StageInv'
  BY <1>i DEF StageInv
<1>3. EventInv'
  <2>1. \A n \in 1..audited : n # 0
    OBVIOUS
  <2> QED  BY <1>i, <1>q, <1>s, <1>f, <1>p, <2>1 DEF EventInv
<1>4. FlushInv'
  <2>1. CASE flushing.pc = "waiting"
    <3>1. flushing'.pc = "done" /\ flushing'.before = flushing.before
      BY <1>i, <2>1 DEF AuditTypeOK
    <3> QED  BY <1>i, <1>f, <1>s, <2>1, <3>1 DEF FlushInv
  <2>2. CASE flushing.pc # "waiting"
    BY <1>i, <1>f, <1>q, <2>2 DEF FlushInv
  <2> QED  BY <2>1, <2>2
<1>5. OnceInv'
  <2>1. \A i \in 1..Len(auditQueue') : auditQueue'[i] # Marker => ~Past(auditQueue[i].id)'
    BY <1>f, <1>q
  <2>2. \A h \in AuditHandlers :
          Pending(h) => ~Queued(request[h].event.id)' /\ ~Past(request[h].event.id)'
    BY <1>i, <1>f, <1>s DEF OnceInv
  <2> QED  BY <1>i, <1>p, <1>q, <2>1, <2>2 DEF OnceInv
<1>6. PageInv'
  BY <1>i, <1>t, PagesKeep
<1> QED  BY <1>1, <1>2, <1>3, <1>4, <1>5, <1>6 DEF AuditInv

\* An insert fails: the event is lost.
LEMMA InsertFails ==
  ASSUME AuditInv, auditQueue # <<>>, auditQueue' = Tail(auditQueue),
         NEW e, e = Head(auditQueue), e # Marker, Marks(e.id),
         UNCHANGED <<request, drainer, stopped, table, inserted, flushing, reader, stage, day, audited>>
  PROVE  AuditInv'
<1>i. AuditTypeOK /\ StageInv /\ EventInv /\ FlushInv /\ OnceInv /\ PageInv
  BY DEF AuditInv
<1>t. /\ auditQueue \in Seq(Event) /\ audited \in Nat /\ audited <= MaxAudited
      /\ audited >= audited /\ MaxAudited \in Nat
  BY <1>i, AuditTypes
<1>q. /\ auditQueue' \in Seq(Event) /\ Len(auditQueue') <= AuditSize /\ e.id \in 1..audited
      /\ \A i \in 1..Len(auditQueue') :
           /\ auditQueue'[i] = Marker \/ auditQueue'[i].id \in 1..audited
           /\ auditQueue'[i] # Marker => ~Past(auditQueue'[i].id)
      /\ \A i, j \in 1..Len(auditQueue') :
           auditQueue'[i] # Marker /\ auditQueue'[i].id = auditQueue'[j].id => i = j
      /\ (\A i \in 1..Len(auditQueue) : auditQueue[i] # Marker)
           => \A i \in 1..Len(auditQueue') : auditQueue'[i] # Marker
  BY TailOnce
<1>s. /\ \A n : Queued(n)' => Queued(n)
      /\ \A n : Queued(n) => n = e.id \/ Queued(n)'
      /\ \A n : BeforeMarker(n) => n = e.id \/ BeforeMarker(n)'
  BY <1>t, QueueShrinks
<1>m. /\ fate' \in [1..MaxAudited -> Fates] /\ fate'[e.id] # ""
      /\ \A m \in 1..MaxAudited : Lost(m) => Lost(m)'
      /\ \A m \in 1..MaxAudited : m # e.id => fate'[m] = fate[m]
      /\ \A m \in 1..MaxAudited : fate'[m] = "swept" <=> fate[m] = "swept"
  BY <1>i, FateMarked
<1>n. \A n \in 1..audited : n \in 1..MaxAudited
  BY <1>t
<1>d. \A n \in 1..MaxAudited : (Decided(n) => Decided(n)') /\ (Past(n)' => Past(n))
  BY <1>m DEF Decided, Past, Ids
<1>l. Decided(e.id)'
  BY <1>m DEF Decided, Lost
<1>p. \A h \in AuditHandlers : Pending(h)' <=> Pending(h)
  BY DEF Pending
<1>1. AuditTypeOK'
  BY <1>i, <1>q, <1>m DEF AuditTypeOK
<1>2. StageInv'
  BY <1>i DEF StageInv
<1>3. EventInv'
  <2>1. ASSUME NEW n \in 1..MaxAudited, Lost(n)' PROVE n <= audited'
    <3>1. CASE n = e.id
      BY <3>1, <1>q, <1>t
    <3>2. CASE n # e.id
      BY <1>i, <1>m, <2>1, <3>2 DEF EventInv, Lost
    <3> QED  BY <3>1, <3>2
  <2>2. ASSUME NEW n \in 1..audited
        PROVE  \/ Decided(n)' \/ Queued(n)'
               \/ \E g \in AuditHandlers : Pending(g)' /\ request'[g].event.id = n
    BY <1>i, <1>d, <1>l, <1>n, <1>p, <1>s DEF EventInv
  <2> QED  BY <1>i, <1>p, <1>q, <2>1, <2>2 DEF EventInv
<1>4. FlushInv'
  <2>1. \A n \in flushing.before : n \in 1..MaxAudited
    BY <1>i DEF AuditTypeOK
  <2> QED  BY <1>i, <1>s, <1>d, <1>l, <1>q, <2>1 DEF FlushInv
<1>5. OnceInv'
  <2>1. ASSUME NEW i \in 1..Len(auditQueue'), auditQueue'[i] # Marker
        PROVE  ~Past(auditQueue[i].id)'
    <3>1. auditQueue'[i].id \in 1..MaxAudited /\ ~Past(auditQueue'[i].id)
      BY <1>q, <1>n, <2>1
    <3> QED  BY <1>d, <3>1
  <2>2. ASSUME NEW h \in AuditHandlers, Pending(h)
        PROVE  ~Queued(request[h].event.id)' /\ ~Past(request[h].event.id)'
    <3>1. request[h].event.id \in 1..MaxAudited
      BY <1>i, <1>n, <2>2 DEF EventInv
    <3> QED  BY <1>i, <1>d, <1>s, <2>2, <3>1 DEF OnceInv
  <2> QED  BY <1>i, <1>p, <1>q, <2>1, <2>2 DEF OnceInv
<1>6. PageInv'
  BY <1>i, <1>t, <1>m, PagesKeep
<1> QED  BY <1>1, <1>2, <1>3, <1>4, <1>5, <1>6 DEF AuditInv

\* Counting the rows from one on.
LEMMA RowsAbove ==
  ASSUME NEW n \in Nat, NEW S, S \subseteq 1..n
  PROVE  /\ IsFiniteSet(S) /\ Cardinality(S) \in Nat
         /\ \A r : /\ IsFiniteSet({k \in S : k >= r})
                   /\ Cardinality({k \in S : k >= r}) \in Nat
                   /\ Cardinality({k \in S : k >= r}) <= Cardinality(S)
<1>1. IsFiniteSet(1..n)
  BY FS_Interval
<1>2. IsFiniteSet(S)
  BY <1>1, FS_Subset
<1>3. ASSUME NEW r
      PROVE  /\ IsFiniteSet({k \in S : k >= r})
             /\ Cardinality({k \in S : k >= r}) <= Cardinality(S)
  <2> DEFINE T == {k \in S : k >= r}
  <2>1. T \in SUBSET S
    OBVIOUS
  <2> HIDE DEF T
  <2>2. IsFiniteSet(T) /\ Cardinality(T) <= Cardinality(S)
    BY <1>2, <2>1, FS_Subset
  <2> QED  BY <2>2 DEF T
<1>4. \A T : IsFiniteSet(T) => Cardinality(T) \in Nat
  BY FS_CardinalityType
<1> QED  BY <1>2, <1>3, <1>4

\* What the reader found, when the reader does nothing.
LEMMA RowsWanted ==
  ASSUME reader' = reader,
         \A k \in DOMAIN table', l \in DOMAIN reader.wanted :
           table'[k].id = reader.wanted[l].id <=> k = l
  PROVE  \A k \in DOMAIN table', l \in DOMAIN reader'.wanted :
           table'[k].id = reader'.wanted[l].id <=> k = l
OBVIOUS

\* An event gets its row: the row is above all others, so whatever is ahead of
\* the reader's offset stays ahead of it.
LEMMA RowInserted ==
  ASSUME AuditInv, auditQueue # <<>>, auditQueue' = Tail(auditQueue),
         NEW e, e = Head(auditQueue), e # Marker,
         inserted' = inserted + 1,
         table' = [i \in DOMAIN table \cup {inserted + 1} |->
                     IF i = inserted + 1 THEN e ELSE table[i]],
         UNCHANGED <<request, drainer, stopped, fate, flushing, reader, stage, day, audited>>
  PROVE  AuditInv'
<1>i. AuditTypeOK /\ StageInv /\ EventInv /\ FlushInv /\ OnceInv /\ PageInv
  BY DEF AuditInv
<1>t. /\ auditQueue \in Seq(Event) /\ audited \in Nat /\ audited <= MaxAudited
      /\ MaxAudited \in Nat /\ inserted \in Nat
      /\ DOMAIN table \subseteq 1..inserted /\ table \in [DOMAIN table -> Event]
  BY <1>i, AuditTypes
<1>q. /\ auditQueue' \in Seq(Event) /\ Len(auditQueue') <= AuditSize /\ e \in Event
      /\ e.id \in 1..audited /\ ~Past(e.id)
      /\ \A h \in AuditHandlers : Pending(h) => request[h].event.id # e.id
      /\ \A i \in 1..Len(auditQueue') : auditQueue'[i].id # e.id
      /\ \A i \in 1..Len(auditQueue') :
           /\ auditQueue'[i] = Marker \/ auditQueue'[i].id \in 1..audited
           /\ auditQueue'[i] # Marker => ~Past(auditQueue'[i].id)
      /\ \A i, j \in 1..Len(auditQueue') :
           auditQueue'[i] # Marker /\ auditQueue'[i].id = auditQueue'[j].id => i = j
      /\ (\A i \in 1..Len(auditQueue) : auditQueue[i] # Marker)
           => \A i \in 1..Len(auditQueue') : auditQueue'[i] # Marker
  BY TailOnce
<1>s. /\ \A n : Queued(n)' => Queued(n)
      /\ \A n : Queued(n) => n = e.id \/ Queued(n)'
      /\ \A n : BeforeMarker(n) => n = e.id \/ BeforeMarker(n)'
  BY <1>t, QueueShrinks
<1>p. \A h \in AuditHandlers : Pending(h)' <=> Pending(h)
  BY DEF Pending
<1>o. /\ inserted + 1 \in Nat /\ inserted + 1 \notin DOMAIN table
      /\ inserted + 1 \notin DOMAIN reader.wanted
      /\ 1..inserted \subseteq 1..(inserted + 1) /\ inserted + 1 \in 1..(inserted + 1)
  <2>1. inserted + 1 \notin 1..inserted
    BY <1>t
  <2>2. 1..inserted \subseteq 1..(inserted + 1) /\ inserted + 1 \in 1..(inserted + 1)
        /\ inserted + 1 \in Nat
    BY <1>t
  <2> QED  BY <1>i, <1>t, <2>1, <2>2 DEF PageInv
<1>r. PICK top : top = inserted + 1
  OBVIOUS
<1>w. /\ DOMAIN table' = DOMAIN table \cup {top} /\ table'[top] = e
      /\ \A k \in DOMAIN table : table'[k] = table[k] /\ k # top
      /\ \A k \in DOMAIN table' : k \in DOMAIN table \/ k = top
  BY <1>r, <1>o
<1>d. \A n : (n \in Ids(table))' <=> n \in Ids(table) \/ n = e.id
  BY <1>w DEF Ids
<1>f. \A n : /\ Decided(n)' <=> Decided(n) \/ n = e.id
             /\ Past(n)' <=> Past(n) \/ n = e.id
             /\ Lost(n)' <=> Lost(n)
  <2>1. \A n : (Lost(n)' <=> Lost(n)) /\ ((n \in Ids(reader.wanted))' <=> n \in Ids(reader.wanted))
    BY DEF Lost, Ids
  <2> QED  BY <1>d, <2>1 DEF Decided, Past
<1>1. AuditTypeOK'
  <2>1. DOMAIN table' \subseteq 1..inserted' /\ inserted' \in Nat
    BY <1>t, <1>o, <1>w, <1>r
  <2>2. table' \in [DOMAIN table' -> Event]
    BY <1>t, <1>q
  <2> QED  BY <1>i, <1>q, <2>1, <2>2 DEF AuditTypeOK
<1>2. StageInv'
  BY <1>i DEF StageInv
<1>3. EventInv'
  <2>1. \A k \in DOMAIN table' : table'[k].id \in 1..audited'
    BY <1>i, <1>w, <1>q DEF EventInv
  <2> QED  BY <1>i, <1>p, <1>q, <1>f, <1>s, <2>1 DEF EventInv
<1>4. FlushInv'
  BY <1>i, <1>f, <1>s, <1>q DEF FlushInv
<1>5. OnceInv'
  <2>1. ASSUME NEW i \in 1..Len(auditQueue'), auditQueue'[i] # Marker
        PROVE  ~Past(auditQueue[i].id)'
    <3>1. auditQueue'[i].id # e.id /\ ~Past(auditQueue'[i].id)
      BY <1>q, <2>1
    <3> QED  BY <1>f, <3>1
  <2>2. ASSUME NEW h \in AuditHandlers, Pending(h)
        PROVE  ~Queued(request[h].event.id)' /\ ~Past(request[h].event.id)'
    BY <1>i, <1>f, <1>q, <1>s, <2>2 DEF OnceInv
  <2>n. e.id \notin Ids(table) /\ e.id \notin Ids(reader.wanted)
    BY <1>q DEF Past
  <2>3. ASSUME NEW k \in DOMAIN table', NEW l \in DOMAIN table', table'[k].id = table'[l].id
        PROVE  k = l
    BY <1>i, <1>w, <2>n, <2>3 DEF OnceInv, Ids
  <2>4. ASSUME NEW k \in DOMAIN table', NEW l \in DOMAIN reader.wanted
        PROVE  table'[k].id = reader.wanted[l].id <=> k = l
    <3>1. CASE k = top
      BY <1>w, <1>o, <1>r, <2>n, <3>1 DEF Ids
    <3>2. CASE k # top
      BY <1>i, <1>w, <3>2 DEF OnceInv
    <3> QED  BY <3>1, <3>2
  <2>5. \A h, g \in AuditHandlers :
          Pending(h)' /\ Pending(g)' /\ request'[h].event.id = request'[g].event.id => h = g
    BY <1>i, <1>p DEF OnceInv
  <2>6. \A h \in AuditHandlers :
          Pending(h)' => ~Queued(request[h].event.id)' /\ ~Past(request[h].event.id)'
    BY <1>p, <2>2
  <2>7. \A i, j \in 1..Len(auditQueue') :
          auditQueue'[i] # Marker /\ auditQueue'[i].id = auditQueue'[j].id => i = j
    BY <1>q
  <2>8. \A i \in 1..Len(auditQueue') : auditQueue'[i] # Marker => ~Past(auditQueue[i].id)'
    BY <2>1
  <2>9. \A k, l \in DOMAIN table' : table'[k].id = table'[l].id => k = l
    BY <2>3
  <2>10. \A k \in DOMAIN table', l \in DOMAIN reader'.wanted :
           table'[k].id = reader'.wanted[l].id <=> k = l
    <3>1. reader' = reader
      OBVIOUS
    <3>2. \A k \in DOMAIN table', l \in DOMAIN reader.wanted :
            table'[k].id = reader.wanted[l].id <=> k = l
      BY <2>4, Zenon
    <3> QED  BY <3>1, <3>2, RowsWanted, Zenon
  <2> QED  BY <2>5, <2>6, <2>7, <2>8, <2>9, <2>10 DEF OnceInv
<1>6. PageInv'
  <2>1. ASSUME NEW r, Ahead(r) PROVE Ahead(r)'
    <3> DEFINE A == {k \in DOMAIN table : k >= r}
               B == {k \in DOMAIN table' : k >= r}
    <3>1. A \in SUBSET B
      BY <1>w
    <3>2. IsFiniteSet(B) /\ Cardinality(B) \in Nat
      BY <1>1, RowsAbove DEF AuditTypeOK
    <3>3. Cardinality(A) \in Nat
      BY <1>t, RowsAbove
    <3>4. r \in DOMAIN table' /\ Cardinality(A) > reader.offset /\ reader.offset \in Nat
      BY <1>i, <1>w, <2>1 DEF Ahead, buildQuery, PageInv
    <3> HIDE DEF A, B
    <3>5. Cardinality(A) <= Cardinality(B)
      BY <3>1, <3>2, FS_Subset
    <3>6. Cardinality(B) > reader.offset
      BY <3>2, <3>3, <3>4, <3>5
    <3> QED  BY <3>4, <3>6 DEF Ahead, buildQuery, B
  <2>2. ASSUME NEW r, SweptAbove(r) PROVE SweptAbove(r)'
    BY <2>2 DEF SweptAbove
  <2>3. DOMAIN reader.wanted \subseteq 1..inserted'
    BY <1>i, <1>o DEF PageInv
  <2> QED  BY <1>i, <2>1, <2>2, <2>3 DEF PageInv
<1> QED  BY <1>1, <1>2, <1>3, <1>4, <1>5, <1>6 DEF AuditInv

\* recorder.drain, and its end.
LEMMA DrainStep ==
  ASSUME AuditInv, drain
  PROVE  AuditInv'
<1>u. UNCHANGED <<request, stopped, reader, stage, day, audited>>
  BY DEF drain
<1>1. CASE auditQueue # <<>>
  <2>1. PICK e : e = Head(auditQueue)
    OBVIOUS
  <2>2. auditQueue' = Tail(auditQueue) /\ UNCHANGED drainer
    BY <1>1 DEF drain, InsertEvent
  <2>3. CASE e = Marker /\ UNCHANGED <<table, inserted, fate>>
             /\ (\/ flushing.pc = "waiting" /\ flushing' = [flushing EXCEPT !.pc = "done"]
                 \/ flushing.pc # "waiting" /\ UNCHANGED flushing)
    BY <1>1, <1>u, <2>1, <2>2, <2>3, MarkerTaken
  <2>4. CASE /\ e # Marker /\ inserted' = inserted + 1
             /\ table' = [i \in DOMAIN table \cup {inserted + 1} |->
                            IF i = inserted + 1 THEN e ELSE table[i]]
             /\ UNCHANGED <<fate, flushing>>
    BY <1>1, <1>u, <2>1, <2>2, <2>4, RowInserted
  <2>5. CASE /\ e # Marker /\ UNCHANGED <<table, inserted, flushing>>
             /\ fate' = [fate EXCEPT ![e.id] = IF stage \in {"up", "draining"} THEN "failed"
                                               ELSE "database closed"]
    <3>1. e.id \in 1..audited /\ ~Past(e.id)
      BY <1>1, <2>1, <2>2, <2>5, TailOnce
    <3>2. audited \in Nat /\ MaxAudited \in Nat /\ audited <= MaxAudited
      BY AuditTypes DEF AuditInv
    <3>3. e.id \in 1..MaxAudited /\ fate[e.id] # "swept"
      BY <3>1, <3>2 DEF Past
    <3>4. (IF stage \in {"up", "draining"} THEN "failed" ELSE "database closed")
            \in Fates \ {"", "swept"}
      BY DEF Fates
    <3>5. Marks(e.id)
      BY <2>5, <3>3, <3>4 DEF Marks
    <3> QED  BY <1>1, <1>u, <2>1, <2>2, <2>5, <3>5, InsertFails
  <2> QED  BY <1>1, <2>1, <2>3, <2>4, <2>5 DEF drain, InsertEvent
<1>2. CASE auditQueue = <<>>
  <2>1. /\ stopped /\ drainer' = "gone"
        /\ UNCHANGED <<auditQueue, table, inserted, fate, flushing>>
    BY <1>2 DEF drain
  <2>i. AuditTypeOK /\ StageInv /\ EventInv /\ FlushInv /\ OnceInv /\ PageInv
    BY DEF AuditInv
  <2>f. \A n : /\ Queued(n)' <=> Queued(n)
               /\ Past(n)' <=> Past(n)
               /\ Decided(n)' <=> Decided(n)
               /\ BeforeMarker(n)' <=> BeforeMarker(n)
               /\ Lost(n)' <=> Lost(n)
    BY <1>u, <2>1 DEF Queued, Past, Decided, Lost, Ids, BeforeMarker
  <2>p. \A h \in AuditHandlers : Pending(h)' <=> Pending(h)
    BY <1>u DEF Pending
  <2>2. AuditTypeOK'
    BY <1>u, <2>1, <2>i DEF AuditTypeOK
  <2>3. StageInv'
    BY <1>u, <1>2, <2>1, <2>i DEF StageInv
  <2>4. EventInv' /\ FlushInv' /\ OnceInv'
    BY <1>u, <2>1, <2>f, <2>p, <2>i DEF EventInv, FlushInv, OnceInv
  <2>5. audited' \in Nat /\ audited' >= audited /\ audited' <= MaxAudited
    <3>1. audited \in Nat /\ audited <= MaxAudited
      BY <2>i, AuditTypes
    <3> QED  BY <1>u, <3>1
  <2>6. PageInv'
    BY <1>u, <2>1, <2>5, <2>i, PagesKeep
  <2> QED  BY <2>2, <2>3, <2>4, <2>6 DEF AuditInv
<1> QED  BY <1>1, <1>2

\* A step of the process or of the clock leaves every event where it is.
LEMMA EventsStay ==
  ASSUME AuditInv, AuditTypeOK', StageInv',
         UNCHANGED <<request, auditQueue, table, inserted, fate, flushing, reader, audited>>
  PROVE  AuditInv'
<1>i. AuditTypeOK /\ EventInv /\ FlushInv /\ OnceInv /\ PageInv
  BY DEF AuditInv
<1>f. \A n : /\ Queued(n)' <=> Queued(n)
             /\ Past(n)' <=> Past(n)
             /\ Decided(n)' <=> Decided(n)
             /\ BeforeMarker(n)' <=> BeforeMarker(n)
             /\ Lost(n)' <=> Lost(n)
  BY DEF Queued, Past, Decided, Lost, Ids, BeforeMarker
<1>p. \A h \in AuditHandlers : Pending(h)' <=> Pending(h)
  BY DEF Pending
<1>1. EventInv' /\ FlushInv' /\ OnceInv'
  BY <1>f, <1>p, <1>i DEF EventInv, FlushInv, OnceInv
<1>2. audited' \in Nat /\ audited' >= audited /\ audited' <= MaxAudited
  <2>1. audited \in Nat /\ audited <= MaxAudited
    BY <1>i, AuditTypes
  <2> QED  BY <2>1
<1>3. PageInv'
  BY <1>2, <1>i, PagesKeep
<1> QED  BY <1>1, <1>3 DEF AuditInv

LEMMA ShutdownStep ==
  ASSUME AuditInv, Shutdown
  PROVE  AuditInv'
<1>i. AuditTypeOK /\ StageInv
  BY DEF AuditInv
<1>1. AuditTypeOK'
  BY <1>i DEF AuditTypeOK, Shutdown
<1>2. StageInv'
  <2>1. UNCHANGED <<auditQueue, drainer>>
    BY DEF Shutdown
  <2>2. CASE stage = "up" /\ stage' = "draining" /\ UNCHANGED stopped
    BY <1>i, <2>1, <2>2 DEF StageInv
  <2>3. CASE stage = "draining" /\ stage' = "store closed" /\ UNCHANGED stopped
    BY <1>i, <2>1, <2>3 DEF StageInv
  <2>4. CASE stage = "store closed" /\ stage' = "stopping" /\ stopped' = TRUE
    BY <1>i, <2>1, <2>4 DEF StageInv
  <2>5. CASE stage = "stopping" /\ drainer = "gone" /\ stage' = "stopped" /\ UNCHANGED stopped
    BY <1>i, <2>1, <2>5 DEF StageInv
  <2> QED  BY <2>2, <2>3, <2>4, <2>5 DEF Shutdown
<1> QED  BY <1>1, <1>2, EventsStay DEF Shutdown

LEMMA NextDayStep ==
  ASSUME AuditInv, NextDay
  PROVE  AuditInv'
<1>i. AuditTypeOK /\ StageInv
  BY DEF AuditInv
<1>1. day' \in 0..MaxDay
  <2>1. MaxDay \in Nat /\ day \in 0..MaxDay /\ day < MaxDay /\ day' = day + 1
    BY <1>i, AuditTypes DEF AuditTypeOK, NextDay
  <2> QED  BY <2>1
<1>2. AuditTypeOK' /\ StageInv'
  BY <1>i, <1>1 DEF AuditTypeOK, StageInv, NextDay
<1> QED  BY <1>2, EventsStay DEF NextDay

\* Recorder.Flush: its marker goes behind everything it waits for.
LEMMA FlushStep ==
  ASSUME AuditInv, Flush
  PROVE  AuditInv'
<1>u. UNCHANGED <<request, drainer, stopped, table, inserted, fate, reader, stage, day, audited>>
  BY DEF Flush
<1>i. AuditTypeOK /\ StageInv /\ EventInv /\ FlushInv /\ OnceInv /\ PageInv
  BY DEF AuditInv
<1>t. /\ auditQueue \in Seq(Event) /\ Len(auditQueue) \in Nat /\ audited \in Nat
      /\ audited <= MaxAudited /\ MaxAudited \in Nat /\ AuditSize \in Nat
      /\ Marker \in Event /\ Marker.id = 0
      /\ Len(auditQueue) <= AuditSize
  BY <1>i, AuditTypes DEF AuditTypeOK
<1>f. \A n : /\ Past(n)' <=> Past(n)
             /\ Decided(n)' <=> Decided(n)
             /\ Lost(n)' <=> Lost(n)
  BY <1>u DEF Past, Decided, Lost, Ids
<1>p. \A h \in AuditHandlers : Pending(h)' <=> Pending(h)
  BY <1>u DEF Pending
<1>6. PageInv'
  <2>1. audited' \in Nat /\ audited' >= audited /\ audited' <= MaxAudited
    BY <1>u, <1>t
  <2> QED  BY <1>i, <1>u, <2>1, PagesKeep
<1>1. CASE flushing' = [flushing EXCEPT !.pc = "gave up"] /\ UNCHANGED auditQueue
  <2>1. flushing'.pc = "gave up"
        /\ flushing' \in [pc : {"off", "waiting", "done", "gave up"}, before : SUBSET (1..MaxAudited)]
    BY <1>i, <1>1 DEF AuditTypeOK
  <2>2. \A n : Queued(n)' <=> Queued(n)
    BY <1>1 DEF Queued
  <2>3. AuditTypeOK' /\ StageInv' /\ FlushInv'
    BY <1>i, <1>u, <1>1, <2>1 DEF AuditTypeOK, StageInv, FlushInv
  <2>4. EventInv'
    BY <1>i, <1>u, <1>1, <1>f, <1>p, <2>2 DEF EventInv
  <2>5. OnceInv'
    <3>1. UNCHANGED <<request, auditQueue, table, reader>>
      BY <1>u, <1>1
    <3> QED  BY <1>i, <1>f, <1>p, <2>2, <3>1 DEF OnceInv
  <2> QED  BY <1>6, <2>3, <2>4, <2>5 DEF AuditInv
<1>2. CASE /\ flushing.pc = "off" /\ ~stopped /\ ~(Len(auditQueue) >= AuditSize)
           /\ auditQueue' = Append(auditQueue, Marker)
           /\ flushing' = [pc |-> "waiting", before |-> Ids(auditQueue) \ {0}]
  <2>q. /\ auditQueue' \in Seq(Event) /\ Len(auditQueue') = Len(auditQueue) + 1
        /\ \A i \in 1..Len(auditQueue) : auditQueue'[i] = auditQueue[i]
        /\ auditQueue'[Len(auditQueue) + 1] = Marker
        /\ \A i \in 1..Len(auditQueue') : i \in 1..Len(auditQueue) \/ i = Len(auditQueue) + 1
    BY <1>2, <1>t, Enqueued
  <2>s. /\ \A n : Queued(n)' <=> Queued(n) \/ n = 0
        /\ \A n : BeforeMarker(n) => BeforeMarker(n)'
    BY <1>2, <1>t, QueueGrows
  <2>m. \A i \in 1..Len(auditQueue) : auditQueue[i] # Marker
    BY <1>i, <1>2 DEF FlushInv
  <2>d. DOMAIN auditQueue = 1..Len(auditQueue)
    BY <1>t, LenProperties
  <2>e. \A n \in Ids(auditQueue) : n \in 1..audited /\ BeforeMarker(n)
    <3>1. ASSUME NEW i \in 1..Len(auditQueue) PROVE \A j \in 1..i : auditQueue[j] # Marker
      <4>1. \A j \in 1..i : j \in 1..Len(auditQueue)
        BY <1>t
      <4> QED  BY <2>m, <4>1
    <3>2. \A i \in 1..Len(auditQueue) : auditQueue[i].id \in 1..audited
      BY <1>i, <2>m DEF EventInv
    <3> QED  BY <2>d, <3>1, <3>2 DEF Ids, BeforeMarker
  <2>1. AuditTypeOK'
    <3>1. 1..audited \subseteq 1..MaxAudited
      BY <1>t
    <3>2. PICK b : b = Ids(auditQueue) \ {0}
      OBVIOUS
    <3>3. b \in SUBSET (1..MaxAudited)
      BY <2>e, <3>1, <3>2
    <3>4. flushing' \in [pc : {"off", "waiting", "done", "gave up"}, before : SUBSET (1..MaxAudited)]
      BY <1>2, <3>2, <3>3
    <3>5. Len(auditQueue') <= AuditSize
      BY <1>t, <1>2, <2>q
    <3> QED  BY <1>i, <1>u, <2>q, <3>4, <3>5 DEF AuditTypeOK
  <2>2. StageInv'
    BY <1>i, <1>u, <1>2 DEF StageInv
  <2>3. EventInv'
    <3>1. \A i \in 1..Len(auditQueue') : auditQueue'[i] = Marker \/ auditQueue'[i].id \in 1..audited'
      BY <1>i, <1>u, <2>q DEF EventInv
    <3>2. \A h \in AuditHandlers : Pending(h)' => request'[h].event.id \in 1..audited'
      BY <1>i, <1>u, <1>p DEF EventInv
    <3>3. \A r \in DOMAIN table' : table'[r].id \in 1..audited'
      BY <1>i, <1>u DEF EventInv
    <3>4. \A n \in 1..MaxAudited : Lost(n)' => n <= audited'
      BY <1>i, <1>u, <1>f DEF EventInv
    <3>5. \A n \in 1..audited' :
            \/ Decided(n)' \/ Queued(n)'
            \/ \E h \in AuditHandlers : Pending(h)' /\ request'[h].event.id = n
      BY <1>i, <1>u, <1>f, <1>p, <2>s DEF EventInv
    <3> QED  BY <3>1, <3>2, <3>3, <3>4, <3>5 DEF EventInv
  <2>4. FlushInv'
    <3>1. flushing'.pc = "waiting" /\ flushing'.before = Ids(auditQueue) \ {0}
      BY <1>2
    <3>2. \A n \in flushing'.before : BeforeMarker(n)'
      BY <3>1, <2>e, <2>s
    <3> QED  BY <3>1, <3>2 DEF FlushInv
  <2>5. OnceInv'
    <3>1. ASSUME NEW h \in AuditHandlers, Pending(h)'
          PROVE  ~Queued(request[h].event.id)' /\ ~Past(request[h].event.id)'
      <4>1. request'[h].event.id = request[h].event.id /\ request[h].event.id \in 1..audited
            /\ ~Queued(request[h].event.id) /\ ~Past(request[h].event.id)
        BY <1>i, <1>u, <1>p, <3>1 DEF EventInv, OnceInv
      <4>2. request[h].event.id # 0
        BY <4>1, <1>t
      <4> QED  BY <1>f, <2>s, <4>1, <4>2
    <3>2. \A i, j \in 1..Len(auditQueue') :
            auditQueue'[i] # Marker /\ auditQueue'[i].id = auditQueue'[j].id => i = j
      <4>1. \A i \in 1..Len(auditQueue) : auditQueue[i].id # Marker.id
        <5>1. \A i \in 1..Len(auditQueue) : auditQueue[i].id \in 1..audited
          BY <1>i, <2>m DEF EventInv
        <5>2. 0 \notin 1..audited
          BY <1>t
        <5> QED  BY <5>1, <5>2, <1>t
      <4>2. \A i, j \in 1..Len(auditQueue) : auditQueue[i].id = auditQueue[j].id => i = j
        BY <1>i, <2>m DEF OnceInv
      <4> QED  BY <2>q, <4>1, <4>2
    <3>3. \A i \in 1..Len(auditQueue') : auditQueue'[i] # Marker => ~Past(auditQueue[i].id)'
      BY <1>i, <1>f, <2>q DEF OnceInv
    <3>4. \A h, g \in AuditHandlers :
            Pending(h)' /\ Pending(g)' /\ request'[h].event.id = request'[g].event.id => h = g
      BY <1>i, <1>u, <1>p DEF OnceInv
    <3>5. /\ \A k, l \in DOMAIN table' : table'[k].id = table'[l].id => k = l
          /\ \A k \in DOMAIN table', l \in DOMAIN reader'.wanted :
               table'[k].id = reader'.wanted[l].id <=> k = l
      BY <1>i, <1>u DEF OnceInv
    <3> QED  BY <3>1, <3>2, <3>3, <3>4, <3>5 DEF OnceInv
  <2> QED  BY <1>6, <2>1, <2>2, <2>3, <2>4, <2>5 DEF AuditInv
<1> QED  BY <1>1, <1>2 DEF Flush

\* RetentionPolicy.sweep: a row the reader waits for is swept itself, or moves up
\* only because a row above it is.
LEMMA SweepStep ==
  ASSUME AuditInv, sweep
  PROVE  AuditInv'
<1>u. UNCHANGED <<request, auditQueue, drainer, stopped, inserted, flushing, reader, stage, day,
                  audited>>
  BY DEF sweep
<1>i. AuditTypeOK /\ StageInv /\ EventInv /\ FlushInv /\ OnceInv /\ PageInv
  BY DEF AuditInv
<1>t. /\ audited \in Nat /\ audited <= MaxAudited /\ MaxAudited \in Nat /\ inserted \in Nat
      /\ DOMAIN table \subseteq 1..inserted /\ table \in [DOMAIN table -> Event]
      /\ fate \in [1..MaxAudited -> Fates]
  BY <1>i, AuditTypes
<1>o. PICK old : /\ old \subseteq DOMAIN table
                 /\ table' = [i \in DOMAIN table \ old |-> table[i]]
                 /\ fate' = [n \in DOMAIN fate |->
                      IF n \in {table[i].id : i \in old} THEN "swept" ELSE fate[n]]
  BY DEF sweep
<1>g. PICK gone : gone = {table[i].id : i \in old}
  OBVIOUS
<1>a. 1..audited \subseteq 1..MaxAudited
  BY <1>t
<1>h. gone \subseteq 1..audited /\ gone \subseteq Ids(table)
  BY <1>i, <1>o, <1>g DEF EventInv, Ids
<1>w. /\ DOMAIN table' = DOMAIN table \ old
      /\ \A k \in DOMAIN table' : k \in DOMAIN table /\ k \notin old /\ table'[k] = table[k]
      /\ table' \in [DOMAIN table' -> Event]
  BY <1>o, <1>t
<1>x. /\ fate' \in [1..MaxAudited -> Fates]
      /\ \A n \in 1..MaxAudited : n \in gone => fate'[n] = "swept"
      /\ \A n \in 1..MaxAudited : n \notin gone => fate'[n] = fate[n]
  <2>1. fate' = [n \in 1..MaxAudited |-> IF n \in gone THEN "swept" ELSE fate[n]]
    BY <1>o, <1>g, <1>t
  <2>2. "swept" \in Fates
    BY DEF Fates
  <2> QED  BY <2>1, <2>2, <1>t
<1>d. \A n : n \in Ids(table) => (n \in Ids(table))' \/ n \in gone
  BY <1>o, <1>g, <1>w DEF Ids
<1>e. \A n : (n \in Ids(table))' => n \in Ids(table)
  BY <1>w DEF Ids
<1>f. ASSUME NEW n \in 1..MaxAudited
      PROVE  /\ Lost(n) => Lost(n)'
             /\ Decided(n) => Decided(n)'
             /\ Past(n)' => Past(n)
             /\ fate[n] = "swept" => fate'[n] = "swept"
             /\ Lost(n)' => Lost(n) \/ n \in gone
  <2>1. (Lost(n) => Lost(n)') /\ (Lost(n)' => Lost(n) \/ n \in gone)
        /\ (n \in gone => Lost(n)') /\ (fate[n] = "swept" => fate'[n] = "swept")
    BY <1>x DEF Lost
  <2>2. Decided(n) => Decided(n)'
    BY <1>d, <2>1 DEF Decided
  <2>3. Past(n)' => Past(n)
    <3>1. (n \in Ids(reader.wanted))' => n \in Ids(reader.wanted)
      BY <1>u
    <3>2. fate'[n] = "swept" => fate[n] = "swept" \/ n \in Ids(table)
      BY <1>x, <1>h
    <3> QED  BY <1>e, <3>1, <3>2 DEF Past
  <2> QED  BY <2>1, <2>2, <2>3
<1>q. \A n : /\ Queued(n)' <=> Queued(n)
             /\ BeforeMarker(n)' <=> BeforeMarker(n)
  BY <1>u DEF Queued, BeforeMarker
<1>p. \A h \in AuditHandlers : Pending(h)' <=> Pending(h)
  BY <1>u DEF Pending
<1>1. AuditTypeOK'
  BY <1>i, <1>u, <1>t, <1>w, <1>x DEF AuditTypeOK
<1>2. StageInv'
  BY <1>i, <1>u DEF StageInv
<1>3. EventInv'
  <2>1. ASSUME NEW n \in 1..MaxAudited, Lost(n)' PROVE n <= audited'
    <3>1. CASE Lost(n)
      BY <1>i, <1>u, <3>1 DEF EventInv
    <3>2. CASE n \in gone
      BY <1>u, <1>h, <1>t, <3>2
    <3> QED  BY <1>f, <2>1, <3>1, <3>2
  <2>2. \A r \in DOMAIN table' : table'[r].id \in 1..audited'
    BY <1>i, <1>u, <1>w DEF EventInv
  <2>3. ASSUME NEW n \in 1..audited'
        PROVE  \/ Decided(n)' \/ Queued(n)'
               \/ \E h \in AuditHandlers : Pending(h)' /\ request'[h].event.id = n
    <3>1. n \in 1..audited /\ n \in 1..MaxAudited
      BY <1>u, <1>a
    <3>2. Decided(n) => Decided(n)'
      BY <1>f, <3>1
    <3> QED  BY <1>i, <1>u, <1>p, <1>q, <3>1, <3>2 DEF EventInv
  <2>4. /\ \A h \in AuditHandlers : Pending(h)' => request'[h].event.id \in 1..audited'
        /\ \A i \in 1..Len(auditQueue') :
             auditQueue'[i] = Marker \/ auditQueue'[i].id \in 1..audited'
    BY <1>i, <1>u, <1>p DEF EventInv
  <2> QED  BY <2>1, <2>2, <2>3, <2>4 DEF EventInv
<1>4. FlushInv'
  <2>1. flushing.before \subseteq 1..MaxAudited
    BY <1>i DEF AuditTypeOK
  <2>2. \A n \in flushing.before : Decided(n) => Decided(n)'
    BY <1>f, <2>1
  <2> QED  BY <1>i, <1>u, <1>q, <2>2 DEF FlushInv
<1>5. OnceInv'
  <2>1. ASSUME NEW h \in AuditHandlers, Pending(h)'
        PROVE  ~Queued(request[h].event.id)' /\ ~Past(request[h].event.id)'
    <3>1. /\ request'[h].event.id = request[h].event.id /\ request[h].event.id \in 1..audited
          /\ ~Queued(request[h].event.id) /\ ~Past(request[h].event.id)
      BY <1>i, <1>u, <1>p, <2>1 DEF EventInv, OnceInv
    <3>2. request[h].event.id \in 1..MaxAudited
      BY <1>a, <3>1
    <3> QED  BY <1>f, <1>q, <3>1, <3>2
  <2>2. ASSUME NEW i \in 1..Len(auditQueue'), auditQueue'[i] # Marker
        PROVE  ~Past(auditQueue[i].id)'
    <3>1. /\ auditQueue'[i].id = auditQueue[i].id /\ auditQueue[i].id \in 1..audited
          /\ ~Past(auditQueue[i].id)
      BY <1>i, <1>u, <2>2 DEF EventInv, OnceInv
    <3>2. auditQueue[i].id \in 1..MaxAudited
      BY <1>a, <3>1
    <3> QED  BY <1>f, <3>1, <3>2
  <2>3. /\ \A h, g \in AuditHandlers :
             Pending(h)' /\ Pending(g)' /\ request'[h].event.id = request'[g].event.id => h = g
        /\ \A i, j \in 1..Len(auditQueue') :
             auditQueue'[i] # Marker /\ auditQueue'[i].id = auditQueue'[j].id => i = j
    BY <1>i, <1>u, <1>p DEF OnceInv
  <2>4. \A k, l \in DOMAIN table' : table'[k].id = table'[l].id => k = l
    BY <1>i, <1>w DEF OnceInv
  <2>5. \A k \in DOMAIN table', l \in DOMAIN reader'.wanted :
          table'[k].id = reader'.wanted[l].id <=> k = l
    <3>1. reader' = reader
      BY <1>u
    <3>2. \A k \in DOMAIN table', l \in DOMAIN reader.wanted :
            table'[k].id = reader.wanted[l].id <=> k = l
      BY <1>i, <1>w DEF OnceInv
    <3> QED  BY <3>1, <3>2, RowsWanted, Zenon
  <2> QED  BY <2>1, <2>2, <2>3, <2>4, <2>5 DEF OnceInv
<1>6. PageInv'
  <2>n. DOMAIN reader.wanted \subseteq 1..inserted
        /\ \A r \in DOMAIN reader.wanted : reader.wanted[r].id \in 1..MaxAudited
    BY <1>i, <1>a DEF PageInv
  <2>1. ASSUME NEW r \in DOMAIN reader.wanted, SweptAbove(r) PROVE SweptAbove(r)'
    <3>1. PICK m \in 1..audited : /\ fate[m] = "swept"
                                  /\ \A k \in DOMAIN reader.wanted :
                                       k <= r => reader.wanted[k].id # m
      BY <2>1 DEF SweptAbove
    <3>2. fate'[m] = "swept"
      BY <1>a, <1>f, <3>1
    <3> QED  BY <1>u, <3>1, <3>2 DEF SweptAbove
  <2>2. ASSUME NEW r \in DOMAIN reader.wanted, Ahead(r)
        PROVE  fate'[reader.wanted[r].id] = "swept" \/ SweptAbove(r)' \/ Ahead(r)'
    <3>d. r \in DOMAIN table
      BY <2>2 DEF Ahead
    <3>1. CASE r \in old
      <4>1. reader.wanted[r].id = table[r].id
        BY <1>i, <3>d DEF OnceInv
      <4>2. table[r].id \in gone
        BY <1>g, <3>1
      <4> QED  BY <1>x, <1>h, <1>a, <4>1, <4>2
    <3>2. CASE \E k \in old : k > r
      <4>1. PICK k \in old : k > r
        BY <3>2
      <4>2. PICK m : m = table[k].id
        OBVIOUS
      <4>3. m \in gone /\ m \in 1..audited /\ fate'[m] = "swept" /\ k \in DOMAIN table
        BY <1>g, <1>h, <1>a, <1>x, <1>o, <4>2
      <4>4. ASSUME NEW j \in DOMAIN reader.wanted, j <= r PROVE reader.wanted[j].id # m
        <5>1. j # k
          <6>1. j \in 1..inserted /\ k \in 1..inserted /\ r \in 1..inserted
            BY <1>t, <2>n, <4>3
          <6> QED  BY <1>t, <4>1, <4>4, <6>1
        <5>2. table[k].id = reader.wanted[j].id <=> k = j
          BY <1>i, <4>3 DEF OnceInv
        <5> QED  BY <4>2, <5>1, <5>2
      <4> QED  BY <1>u, <4>3, <4>4 DEF SweptAbove
    <3>3. CASE r \notin old /\ ~(\E k \in old : k > r)
      <4>1. r \in DOMAIN table'
        BY <1>w, <3>d, <3>3
      <4>2. {k \in DOMAIN table' : k >= r} = {k \in DOMAIN table : k >= r}
        <5>1. ASSUME NEW k \in DOMAIN table, k >= r PROVE k \in DOMAIN table'
          <6>1. k \in 1..inserted /\ r \in 1..inserted
            BY <1>t, <2>n
          <6>2. k = r \/ k > r
            BY <1>t, <5>1, <6>1
          <6> QED  BY <1>w, <3>3, <5>1, <6>2
        <5> QED  BY <1>w, <5>1
      <4>3. buildQuery(r)' = buildQuery(r)
        BY <4>2 DEF buildQuery
      <4> QED  BY <1>u, <2>2, <4>1, <4>3 DEF Ahead
    <3> QED  BY <3>1, <3>2, <3>3
  <2>3. ASSUME NEW r \in DOMAIN reader.wanted
        PROVE  fate[reader.wanted[r].id] = "swept" => fate'[reader.wanted[r].id] = "swept"
    BY <1>f, <2>n
  <2>4. ASSUME NEW r \in DOMAIN reader.wanted
        PROVE  \/ reader.wanted[r].id \in reader.seen \/ fate'[reader.wanted[r].id] = "swept"
               \/ SweptAbove(r)'
               \/ reader.pc = "more" /\ Ahead(r)'
    <3>1. \/ reader.wanted[r].id \in reader.seen \/ fate[reader.wanted[r].id] = "swept"
          \/ SweptAbove(r)
          \/ reader.pc = "more" /\ Ahead(r)
      BY <1>i DEF PageInv
    <3> QED  BY <3>1, <2>1, <2>2, <2>3
  <2>5. reader' = reader /\ inserted' = inserted /\ audited' = audited
    BY <1>u
  <2> QED  BY <1>i, <2>4, <2>5 DEF PageInv
<1> QED  BY <1>1, <1>2, <1>3, <1>4, <1>5, <1>6 DEF AuditInv

\* The place of a row, from the end, among the rows S.
Place(S, r) == Cardinality({k \in S : k >= r})

\* The places of the rows are 1 to their number, each taken by one row.
LEMMA Places ==
  ASSUME NEW n \in Nat, NEW S, S \subseteq 1..n
  PROVE  /\ Cardinality(S) \in Nat
         /\ \A r \in S : Place(S, r) \in 1..Cardinality(S)
         /\ \A i \in 1..Cardinality(S) : \E r \in S : Place(S, r) = i
<1>f. /\ IsFiniteSet(S) /\ Cardinality(S) \in Nat
      /\ \A r : /\ IsFiniteSet({k \in S : k >= r})
                /\ Cardinality({k \in S : k >= r}) \in Nat
                /\ Cardinality({k \in S : k >= r}) <= Cardinality(S)
  BY RowsAbove
<1>1. ASSUME NEW r \in S PROVE Place(S, r) \in 1..Cardinality(S)
  <2>1. PICK A : A = {k \in S : k >= r}
    OBVIOUS
  <2>2. r \in A
    <3>1. r >= r
      OBVIOUS
    <3> QED  BY <2>1, <3>1
  <2>3. IsFiniteSet(A) /\ Cardinality(A) \in Nat /\ Cardinality(A) <= Cardinality(S)
    BY <1>f, <2>1
  <2>4. Cardinality(A) # 0
    BY <2>2, <2>3, FS_EmptySet
  <2>5. Cardinality(A) \in 1..Cardinality(S)
    BY <1>f, <2>3, <2>4
  <2> QED  BY <2>1, <2>5 DEF Place
<1>2. ASSUME NEW r \in S, NEW q \in S, r < q PROVE Place(S, r) # Place(S, q)
  <2> DEFINE A == {k \in S : k >= r}
             B == {k \in S : k >= q}
  <2>1. B \in SUBSET A
    <3>1. ASSUME NEW k \in S, k >= q PROVE k >= r
      <4>1. k \in Int /\ q \in Int /\ r \in Int
        OBVIOUS
      <4> QED  BY <1>2, <3>1, <4>1
    <3> QED  BY <3>1
  <2>2. r \in A /\ r \notin B
    BY <1>2
  <2>3. IsFiniteSet(A)
    BY <1>f
  <2> HIDE DEF A, B
  <2>4. Cardinality(A) # Cardinality(B)
    BY <2>1, <2>2, <2>3, FS_Subset
  <2> QED  BY <2>4 DEF Place, A, B
<1>3. ASSUME NEW r \in S, NEW q \in S, Place(S, r) = Place(S, q) PROVE r = q
  <2>1. r = q \/ r < q \/ q < r
    OBVIOUS
  <2> QED  BY <1>2, <1>3, <2>1
<1> DEFINE f == [r \in S |-> Place(S, r)]
           T == 1..Cardinality(S)
<1>4. f \in [S -> T]
  BY <1>1
<1>5. \A r, q \in S : f[r] = f[q] => r = q
  BY <1>3
<1>6. \A r \in S : f[r] = Place(S, r)
  OBVIOUS
<1>7. IsFiniteSet(T) /\ Cardinality(T) = Cardinality(S)
  <2>1. PICK c : c = Cardinality(S)
    OBVIOUS
  <2>2. c \in Nat /\ 1 \in Int /\ c \in Int
    BY <1>f, <2>1
  <2>3. IsFiniteSet(1..c) /\ Cardinality(1..c) = IF 1 > c THEN 0 ELSE c - 1 + 1
    BY <2>2, FS_Interval
  <2>4. Cardinality(1..c) = c
    BY <2>2, <2>3
  <2> QED  BY <2>1, <2>3, <2>4
<1> HIDE DEF f, T
<1>8. f \in Injection(S, T)
  BY <1>4, <1>5 DEF Injection, IsInjective
<1>9. f \in Surjection(S, T)
  BY <1>7, <1>8, FS_Injection
<1>10. \A i \in T : \E r \in S : f[r] = i
  BY <1>9 DEF Surjection
<1> QED  BY <1>f, <1>1, <1>6, <1>10 DEF T

\* A page with a row behind it is full.
LEMMA FullPage ==
  ASSUME NEW n \in Nat, NEW S, S \subseteq 1..n, NEW from \in Nat, NEW limit \in Nat,
         NEW page, page = {k \in S : Place(S, k) \in (from + 1)..(from + limit)},
         NEW r \in S, Place(S, r) > from + limit
  PROVE  Cardinality(page) \in Nat /\ Cardinality(page) >= limit
<1>p. /\ Cardinality(S) \in Nat
      /\ \A k \in S : Place(S, k) \in 1..Cardinality(S)
      /\ \A i \in 1..Cardinality(S) : \E k \in S : Place(S, k) = i
  BY Places
<1>1. IsFiniteSet(page) /\ Cardinality(page) \in Nat
  <2>1. IsFiniteSet(S)
    BY RowsAbove
  <2>2. page \in SUBSET S
    OBVIOUS
  <2> QED  BY <2>1, <2>2, FS_Subset, FS_CardinalityType
<1>2. PICK c : c = Cardinality(S)
  OBVIOUS
<1>3. c \in Nat /\ from + limit < c
  <2>1. PICK p : p = Place(S, r)
    OBVIOUS
  <2>2. p \in 1..c /\ p > from + limit /\ c \in Nat
    BY <1>p, <1>2, <2>1
  <2> QED  BY <2>2
<1> DEFINE T == (from + 1)..(from + limit)
           f == [k \in page |-> Place(S, k)]
<1>4. \A i \in T : i \in 1..c
  BY <1>3
<1>5. f \in [page -> T] /\ \A k \in page : f[k] = Place(S, k)
  OBVIOUS
<1>6. \A i \in T : \E k \in page : f[k] = i
  <2>1. ASSUME NEW i \in T PROVE \E k \in page : f[k] = i
    <3>1. PICK k \in S : Place(S, k) = i
      BY <1>p, <1>2, <1>4
    <3>2. k \in page
      BY <3>1
    <3> QED  BY <1>5, <3>1, <3>2
  <2> QED  BY <2>1
<1>7. IsFiniteSet(T) /\ Cardinality(T) = limit
  <2>1. PICK a, b : a = from + 1 /\ b = from + limit
    OBVIOUS
  <2>2. a \in Int /\ b \in Int
    BY <2>1
  <2>3. IsFiniteSet(a..b) /\ Cardinality(a..b) = IF a > b THEN 0 ELSE b - a + 1
    BY <2>2, FS_Interval
  <2>4. (IF a > b THEN 0 ELSE b - a + 1) = limit
    BY <2>1
  <2> QED  BY <2>1, <2>3, <2>4
<1> HIDE DEF T, f
<1>8. f \in Surjection(page, T)
  BY <1>5, <1>6 DEF Surjection
<1>9. Cardinality(T) <= Cardinality(page)
  BY <1>1, <1>8, FS_Surjection
<1> QED  BY <1>1, <1>7, <1>9

\* Handlers.List: a wanted row that is not on the page is behind it, and then the
\* page is full and the reader goes on.
LEMMA ListStep ==
  ASSUME AuditInv, ListEvents
  PROVE  AuditInv'
<1>u. UNCHANGED <<request, auditQueue, drainer, stopped, table, inserted, fate, flushing, stage,
                  day, audited>>
  BY DEF ListEvents
<1>i. AuditTypeOK /\ StageInv /\ EventInv /\ FlushInv /\ OnceInv /\ PageInv
  BY DEF AuditInv
<1>t. /\ inserted \in Nat /\ DOMAIN table \subseteq 1..inserted /\ PageLimit \in Nat
  BY <1>i, AuditTypes
<1>v. /\ reader.pc \in {"off", "more", "end"} /\ reader.offset \in Nat
      /\ reader.pc = "off" => DOMAIN reader.wanted = {} /\ reader.seen = {}
  BY <1>i DEF PageInv
<1>c. PICK from \in Nat : from = IF reader.pc = "off" THEN 0 ELSE reader.offset
  BY <1>v
<1>g. PICK page : page = {r \in DOMAIN table :
                            Place(DOMAIN table, r) \in (from + 1)..(from + PageLimit)}
  OBVIOUS
<1>l. /\ reader.pc # "end"
      /\ reader'.pc = IF Cardinality(page) < PageLimit THEN "end" ELSE "more"
      /\ reader'.offset = from + PageLimit
      /\ reader'.wanted = IF reader.pc = "off" THEN table ELSE reader.wanted
      /\ reader'.seen = reader.seen \cup {table[r].id : r \in page}
  BY <1>c, <1>g DEF ListEvents, buildQuery, Place
<1>n. /\ reader.pc = "off" => \A k : k \notin DOMAIN reader.wanted
      /\ \A n : reader.pc = "off" => n \notin Ids(reader.wanted)
  BY <1>v DEF Ids
<1>f. \A n : /\ Past(n)' <=> Past(n)
             /\ Decided(n)' <=> Decided(n)
             /\ Lost(n)' <=> Lost(n)
             /\ Queued(n)' <=> Queued(n)
             /\ BeforeMarker(n)' <=> BeforeMarker(n)
  <2>1. \A n : /\ Decided(n)' <=> Decided(n)
               /\ Lost(n)' <=> Lost(n)
               /\ Queued(n)' <=> Queued(n)
               /\ BeforeMarker(n)' <=> BeforeMarker(n)
    BY <1>u DEF Decided, Lost, Ids, Queued, BeforeMarker
  <2>2. ASSUME NEW n PROVE Past(n)' <=> Past(n)
    <3>1. (n \in Ids(table))' <=> n \in Ids(table)
      BY <1>u DEF Ids
    <3>2. CASE reader.pc = "off"
      <4>1. (n \in Ids(reader.wanted))' <=> n \in Ids(table)
        BY <1>l, <3>2 DEF Ids
      <4> QED  BY <1>u, <1>n, <3>1, <3>2, <4>1 DEF Past
    <3>3. CASE reader.pc # "off"
      <4>1. (n \in Ids(reader.wanted))' <=> n \in Ids(reader.wanted)
        BY <1>l, <3>3 DEF Ids
      <4> QED  BY <1>u, <3>1, <4>1 DEF Past
    <3> QED  BY <3>2, <3>3
  <2> QED  BY <2>1, <2>2
<1>p. \A h \in AuditHandlers : Pending(h)' <=> Pending(h)
  BY <1>u DEF Pending
<1>1. AuditTypeOK' /\ StageInv'
  BY <1>i, <1>u DEF AuditTypeOK, StageInv
<1>2. EventInv' /\ FlushInv'
  BY <1>i, <1>u, <1>f, <1>p DEF EventInv, FlushInv
<1>o. \A k \in DOMAIN table', l \in DOMAIN reader'.wanted :
        table'[k].id = reader'.wanted[l].id <=> k = l
  <2>1. CASE reader.pc = "off"
    <3>1. reader'.wanted = table /\ table' = table
      BY <1>l, <1>u, <2>1
    <3> QED  BY <1>i, <3>1 DEF OnceInv
  <2>2. CASE reader.pc # "off"
    <3>1. reader'.wanted = reader.wanted /\ table' = table
      BY <1>l, <1>u, <2>2
    <3> QED  BY <1>i, <3>1 DEF OnceInv
  <2> QED  BY <2>1, <2>2
<1>3. OnceInv'
  <2>1. /\ \A h, g \in AuditHandlers :
             Pending(h)' /\ Pending(g)' /\ request'[h].event.id = request'[g].event.id => h = g
        /\ \A h \in AuditHandlers :
             Pending(h)' => ~Queued(request[h].event.id)' /\ ~Past(request[h].event.id)'
    BY <1>i, <1>u, <1>f, <1>p DEF OnceInv
  <2>2. /\ \A i, j \in 1..Len(auditQueue') :
             auditQueue'[i] # Marker /\ auditQueue'[i].id = auditQueue'[j].id => i = j
        /\ \A i \in 1..Len(auditQueue') : auditQueue'[i] # Marker => ~Past(auditQueue[i].id)'
    BY <1>i, <1>u, <1>f DEF OnceInv
  <2>3. \A k, l \in DOMAIN table' : table'[k].id = table'[l].id => k = l
    BY <1>i, <1>u DEF OnceInv
  <2> QED  BY <1>o, <2>1, <2>2, <2>3 DEF OnceInv
<1>4. PageInv'
  <2>1. reader'.pc \in {"off", "more", "end"} /\ reader'.pc # "off" /\ reader'.offset \in Nat
    BY <1>l, <1>c, <1>t
  <2>2. /\ DOMAIN reader'.wanted \subseteq 1..inserted'
        /\ \A r \in DOMAIN reader'.wanted : reader'.wanted[r].id \in 1..audited'
    BY <1>i, <1>l, <1>t, <1>u DEF PageInv, EventInv
  <2>3. ASSUME NEW r \in DOMAIN reader'.wanted
        PROVE  \/ reader'.wanted[r].id \in reader.seen \/ fate[reader'.wanted[r].id] = "swept"
               \/ SweptAbove(r)'
               \/ r \in DOMAIN table /\ Place(DOMAIN table, r) > from
    <3>1. CASE reader.pc = "off"
      <4>1. r \in DOMAIN table /\ from = 0
        BY <1>l, <1>c, <3>1
      <4>2. Cardinality(DOMAIN table) \in Nat
            /\ Place(DOMAIN table, r) \in 1..Cardinality(DOMAIN table)
        BY <1>t, <4>1, Places
      <4>3. PICK p : p = Place(DOMAIN table, r)
        OBVIOUS
      <4>4. p > 0
        BY <4>2, <4>3
      <4> QED  BY <4>1, <4>3, <4>4
    <3>2. CASE reader.pc = "more"
      <4>1. reader'.wanted = reader.wanted /\ from = reader.offset /\ r \in DOMAIN reader.wanted
        BY <1>l, <1>c, <3>2
      <4>2. SweptAbove(r) => SweptAbove(r)'
        BY <1>u, <4>1 DEF SweptAbove
      <4>3. Ahead(r) => r \in DOMAIN table /\ Place(DOMAIN table, r) > from
        BY <4>1 DEF Ahead, buildQuery, Place
      <4> QED  BY <1>i, <4>1, <4>2, <4>3 DEF PageInv
    <3> QED  BY <1>v, <1>l, <3>1, <3>2
  <2>4. ASSUME NEW r \in DOMAIN reader'.wanted, r \in DOMAIN table,
               Place(DOMAIN table, r) > from
        PROVE  \/ reader'.wanted[r].id \in reader'.seen
               \/ reader'.pc = "more" /\ Ahead(r)'
    <3>1. PICK p \in Nat : p = Place(DOMAIN table, r)
      <4>1. Cardinality(DOMAIN table) \in Nat
            /\ Place(DOMAIN table, r) \in 1..Cardinality(DOMAIN table)
        BY <1>t, <2>4, Places
      <4> QED  BY <4>1
    <3>2. p > from
      BY <2>4, <3>1
    <3>3. CASE p \in (from + 1)..(from + PageLimit)
      <4>1. table[r].id \in reader'.seen
        BY <1>g, <1>l, <2>4, <3>1, <3>3
      <4>2. table[r].id = reader'.wanted[r].id
        BY <1>o, <1>u, <2>4
      <4> QED  BY <4>1, <4>2
    <3>4. CASE p > from + PageLimit
      <4>1. Place(DOMAIN table, r) > from + PageLimit
        BY <3>1, <3>4
      <4>2. Cardinality(page) \in Nat /\ Cardinality(page) >= PageLimit
        BY <1>t, <1>g, <2>4, <4>1, FullPage
      <4>3. ~(Cardinality(page) < PageLimit)
        BY <1>t, <4>2
      <4>4. reader'.pc = "more"
        BY <1>l, <4>3
      <4>5. Ahead(r)'
        BY <1>l, <1>u, <2>4, <4>1 DEF Ahead, buildQuery, Place
      <4> QED  BY <4>4, <4>5
    <3> QED  BY <3>2, <3>3, <3>4, <1>t
  <2>5. ASSUME NEW r \in DOMAIN reader'.wanted
        PROVE  \/ reader'.wanted[r].id \in reader'.seen \/ fate'[reader'.wanted[r].id] = "swept"
               \/ SweptAbove(r)'
               \/ reader'.pc = "more" /\ Ahead(r)'
    <3>1. reader.seen \subseteq reader'.seen /\ fate' = fate
      BY <1>l, <1>u
    <3> QED  BY <2>3, <2>4, <3>1
  <2> QED  BY <2>1, <2>2, <2>5 DEF PageInv
<1> QED  BY <1>1, <1>2, <1>3, <1>4 DEF AuditInv

LEMMA AuditInit_Inv ==
  ASSUME AuditInit
  PROVE  AuditInv
<1>1. /\ Len(auditQueue) = 0 /\ auditQueue \in Seq(Event) /\ 1..0 = {}
      /\ DOMAIN table = {} /\ reader.wanted = table
      /\ MaxAudited \in Nat /\ MaxDay \in Nat /\ AuditSize \in Nat
  <2>1. auditQueue = <<>> /\ table = [i \in {} |-> Marker] /\ reader.wanted = table
    BY DEF AuditInit
  <2>2. Len(auditQueue) = 0 /\ auditQueue \in Seq(Event)
    BY <2>1, EmptySeq
  <2>3. DOMAIN table = {}
    BY <2>1
  <2>4. MaxAudited \in Nat /\ MaxDay \in Nat /\ AuditSize \in Nat /\ 1..0 = {}
    BY AuditAssumption
  <2> QED  BY <2>1, <2>2, <2>3, <2>4
<1>2. 0 \in 0..MaxAudited /\ 0 \in 0..MaxDay /\ 0 <= AuditSize /\ 0 \in Nat /\ 1..0 = {}
  BY <1>1
<1>3. request \in [AuditHandlers -> [pc : {"idle", "record", "send"}, event : Event]]
  <2>1. Marker \in Event
    BY <1>2 DEF Marker, Event
  <2>2. [pc |-> "idle", event |-> Marker] \in [pc : {"idle", "record", "send"}, event : Event]
    BY <2>1
  <2> QED  BY <2>2 DEF AuditInit
<1>4. fate \in [1..MaxAudited -> Fates] /\ \A n \in 1..MaxAudited : ~Lost(n)
  BY DEF AuditInit, Fates, Lost
<1>5. AuditTypeOK
  BY <1>1, <1>2, <1>3, <1>4 DEF AuditInit, AuditTypeOK
<1>6. \A h \in AuditHandlers : ~Pending(h)
  BY DEF AuditInit, Pending
<1>7. StageInv
  BY DEF AuditInit, StageInv
<1>8. EventInv
  <2>1. audited = 0
    BY DEF AuditInit
  <2> QED  BY <1>1, <1>2, <1>4, <1>6, <2>1 DEF EventInv
<1>9. FlushInv
  BY <1>1 DEF AuditInit, FlushInv
<1>10. OnceInv
  BY <1>1, <1>6 DEF OnceInv
<1>11. PageInv
  BY <1>1 DEF AuditInit, PageInv
<1> QED  BY <1>5, <1>7, <1>8, <1>9, <1>10, <1>11 DEF AuditInv

LEMMA AuditNext_Inv ==
  ASSUME AuditInv, [AuditNext]_auditVars
  PROVE  AuditInv'
<1>s. CASE UNCHANGED <<request, auditQueue, drainer, stopped, table, inserted, fate, flushing,
                       reader, stage, day, audited>>
  <2>1. AuditTypeOK /\ StageInv
    BY DEF AuditInv
  <2>2. AuditTypeOK' /\ StageInv'
    BY <1>s, <2>1 DEF AuditTypeOK, StageInv
  <2> QED  BY <1>s, <2>2, EventsStay
<1>1. ASSUME NEW h \in AuditHandlers, Middleware(h) PROVE AuditInv'
  <2>1. CASE UNCHANGED <<audited, request>>
    BY <1>1, <1>s, <2>1 DEF Middleware
  <2>2. CASE /\ audited' = audited + 1
             /\ request' = [request EXCEPT ![h] =
                  [pc |-> "record", event |-> [id |-> audited + 1, day |-> day]]]
    BY <1>1, <2>2, MiddlewareStep
  <2> QED  BY <1>1, <2>1, <2>2 DEF Middleware
<1>2. ASSUME NEW h \in AuditHandlers, Record(h) PROVE AuditInv'
  BY <1>2, RecordStep
<1>3. CASE drain
  BY <1>3, DrainStep
<1>4. CASE Flush
  BY <1>4, FlushStep
<1>5. CASE sweep
  BY <1>5, SweepStep
<1>6. CASE ListEvents
  BY <1>6, ListStep
<1>7. CASE Shutdown
  BY <1>7, ShutdownStep
<1>8. CASE NextDay
  BY <1>8, NextDayStep
<1> QED  BY <1>s, <1>1, <1>2, <1>3, <1>4, <1>5, <1>6, <1>7, <1>8 DEF AuditNext, auditVars

\* An event of the log is in one place, and what its flush and its reader wait for
\* is ahead of them.
THEOREM AuditInvariant == AuditSpec => []AuditInv
<1> QED  BY AuditInit_Inv, AuditNext_Inv, PTL DEF AuditSpec

\* The variables of the recorder, its table and its reader keep their types.
THEOREM AuditTypeCorrect == AuditSpec => []AuditTypeOK
<1>1. AuditInv => AuditTypeOK
  BY DEF AuditInv
<1> QED  BY <1>1, AuditInvariant, PTL

\* Recorder.Flush returns through its marker when everything recorded before it is
\* written or lost.
THEOREM FlushesMeanWritten == AuditSpec => []FlushMeansWritten
<1>1. AuditInv => FlushMeansWritten
  BY DEF AuditInv, FlushInv, FlushMeansWritten, Decided
<1> QED  BY <1>1, AuditInvariant, PTL

\* Handlers.List page by page misses a row of the first moment only when the sweep
\* took it, or a row inserted after it.
THEOREM PagesComplete == AuditSpec => []PagesMissNothing
<1>1. AuditInv => PagesMissNothing
  <2> SUFFICES ASSUME AuditInv, reader.pc = "end", NEW r \in DOMAIN reader.wanted
               PROVE  \/ reader.wanted[r].id \in reader.seen
                      \/ fate[reader.wanted[r].id] = "swept"
                      \/ SweptAbove(r)
    BY DEF PagesMissNothing, SweptAbove
  <2> QED  BY DEF AuditInv, PageInv
<1> QED  BY <1>1, AuditInvariant, PTL

\* When the shutdown of main is over every recorded event is in the table, lost in a
\* way the code admits, or still with its goroutine.
THEOREM StopDecides == AuditSpec => []StoppedMeansDecided
<1>1. AuditInv => StoppedMeansDecided
  <2> SUFFICES ASSUME AuditInv, stage = "stopped", NEW n \in 1..audited
               PROVE  \/ n \in Ids(table) \/ Lost(n)
                      \/ \E h \in AuditHandlers : request[h].pc # "idle" /\ request[h].event.id = n
    BY DEF StoppedMeansDecided
  <2>1. auditQueue = <<>>
    BY DEF AuditInv, StageInv
  <2>2. ~Queued(n)
    <3>1. Len(auditQueue) = 0 /\ 1..0 = {}
      BY <2>1
    <3> QED  BY <3>1 DEF Queued
  <2> QED  BY <2>2 DEF AuditInv, EventInv, Decided, Pending
<1> QED  BY <1>1, AuditInvariant, PTL

-----------------------------------------------------------------------------
(* The watch bus: the last event about an object, on its way to a client. *)

\* The types of what the invariant speaks of most.
LEMMA WatchTypes ==
  ASSUME WatchBusTypeOK
  PROVE  /\ ChanSize \in Nat \ {0} /\ MaxPublishes \in Nat /\ published \in Nat
         /\ published <= MaxPublishes
         /\ \A s \in Subs : /\ wire[s] \in Seq(BusEvent) /\ channel[s] \in Seq(BusEvent)
                            /\ Len(wire[s]) \in Nat /\ Len(channel[s]) \in Nat
         /\ NoEvent \notin BusEvent
         /\ \A w \in Watchers, o \in Objects :
              /\ o.type \in Types /\ <<w, o.type>> \in Subs
              /\ <<w, o.type>>[1] = w /\ <<w, o.type>>[2] = o.type
         /\ \A s \in Subs : s[1] \in Watchers /\ s[2] \in Types /\ s = <<s[1], s[2]>>
<1>1. ChanSize \in Nat \ {0} /\ MaxPublishes \in Nat
  BY WatchBusAssumption
<1>2. published \in 0..MaxPublishes
  BY DEF WatchBusTypeOK
<1>3. published \in Nat /\ published <= MaxPublishes
  BY <1>1, <1>2
<1>4. \A s \in Subs : wire[s] \in Seq(BusEvent) /\ channel[s] \in Seq(BusEvent)
  BY DEF WatchBusTypeOK
<1>5. \A s \in Subs : Len(wire[s]) \in Nat /\ Len(channel[s]) \in Nat
  BY <1>4, LenProperties
<1>6. NoEvent \notin BusEvent
  BY DEF NoEvent, BusEvent
<1>7. \A o \in Objects : o.type \in Types
  BY DEF Types
<1>8. \A w \in Watchers, o \in Objects :
        /\ <<w, o.type>> \in Subs /\ <<w, o.type>>[1] = w /\ <<w, o.type>>[2] = o.type
  BY <1>7 DEF Subs
<1>9. \A s \in Subs : s[1] \in Watchers /\ s[2] \in Types /\ s = <<s[1], s[2]>>
  BY DEF Subs
<1> QED  BY <1>1, <1>3, <1>4, <1>5, <1>6, <1>7, <1>8, <1>9

\* An event put at the end.
LEMMA Put ==
  ASSUME NEW S, NEW q \in Seq(S), NEW e \in S, NEW p, p = Append(q, e)
  PROVE  /\ p \in Seq(S) /\ Len(p) = Len(q) + 1 /\ Len(q) \in Nat
         /\ LastSays(p, e.object, e.version)
         /\ \A o : o # e.object => /\ Mute(q, o) => Mute(p, o)
                                   /\ \A v : LastSays(q, o, v) => LastSays(p, o, v)
         /\ \A i \in 1..Len(p) : (i \in 1..Len(q) /\ p[i] = q[i]) \/ p[i] = e
<1>1. Len(q) \in Nat
  BY LenProperties
<1>2. /\ p \in Seq(S) /\ Len(p) = Len(q) + 1 /\ p[Len(q) + 1] = e
      /\ \A i \in 1..Len(q) : p[i] = q[i]
  BY <1>1, AppendProperties
<1>3. \A i \in 1..Len(p) : (i \in 1..Len(q) /\ p[i] = q[i]) \/ (i = Len(q) + 1 /\ p[i] = e)
  <2>1. \A i \in 1..Len(p) : i \in 1..Len(q) \/ i = Len(q) + 1
    BY <1>1, <1>2
  <2> QED  BY <1>2, <2>1
<1>4. LastSays(p, e.object, e.version)
  <2>1. Len(q) + 1 \in 1..Len(p) /\ \A j \in 1..Len(p) : ~(j > Len(q) + 1)
    BY <1>1, <1>2
  <2> QED  BY <1>2, <2>1 DEF LastSays
<1>5. ASSUME NEW o, o # e.object, Mute(q, o) PROVE Mute(p, o)
  BY <1>3, <1>5 DEF Mute
<1>6. ASSUME NEW o, o # e.object, NEW v, LastSays(q, o, v) PROVE LastSays(p, o, v)
  <2>1. PICK i \in 1..Len(q) : /\ q[i].object = o /\ q[i].version = v
                               /\ \A j \in 1..Len(q) : j > i => q[j].object # o
    BY <1>6 DEF LastSays
  <2>2. i \in 1..Len(p) /\ p[i] = q[i]
    BY <1>1, <1>2
  <2>3. \A j \in 1..Len(p) : j > i => p[j].object # o
    BY <1>3, <1>6, <2>1
  <2> QED  BY <2>1, <2>2, <2>3 DEF LastSays
<1> QED  BY <1>1, <1>2, <1>3, <1>4, <1>5, <1>6

\* What is said of the other objects stays the last that is said of them.
LEMMA PutKeeps ==
  ASSUME NEW S, NEW q \in Seq(S), NEW e \in S, NEW p, p = Append(q, e),
         NEW o, o # e.object
  PROVE  /\ Mute(q, o) => Mute(p, o)
         /\ \A v : LastSays(q, o, v) => LastSays(p, o, v)
BY Put, ZenonT(60)

\* The first event taken off.
LEMMA Taken ==
  ASSUME NEW S, NEW q \in Seq(S), q # <<>>, NEW p, p = Tail(q), NEW e, e = Head(q)
  PROVE  /\ p \in Seq(S) /\ Len(p) = Len(q) - 1 /\ Len(q) \in Nat /\ e \in S
         /\ 1 \in 1..Len(q) /\ q[1] = e
         /\ \A i \in 1..Len(p) : i + 1 \in 1..Len(q) /\ p[i] = q[i + 1]
<1>1. Len(q) \in Nat /\ Len(q) >= 1
  BY LenProperties, EmptySeq
<1>2. /\ p \in Seq(S) /\ Len(p) = Len(q) - 1 /\ e = q[1]
      /\ \A i \in 1..Len(p) : p[i] = q[i + 1]
  BY <1>1, HeadTailProperties
<1>3. 1 \in 1..Len(q) /\ e \in S
  BY <1>1, <1>2, ElementOfSeq
<1>4. \A i \in 1..Len(p) : i + 1 \in 1..Len(q)
  BY <1>1, <1>2
<1> QED  BY <1>1, <1>2, <1>3, <1>4

\* What is said last of an object is said by the rest, or was said by the first.
LEMMA TakenKeeps ==
  ASSUME NEW S, NEW q \in Seq(S), q # <<>>, NEW p, p = Tail(q), NEW e, e = Head(q), NEW o
  PROVE  /\ Mute(q, o) => Mute(p, o) /\ e.object # o
         /\ \A v : LastSays(q, o, v) =>
              \/ LastSays(p, o, v)
              \/ e.object = o /\ e.version = v /\ Mute(p, o)
<1>1. Len(q) \in Nat /\ Len(q) >= 1
  BY LenProperties, EmptySeq
<1>2. /\ Len(p) = Len(q) - 1 /\ e = q[1] /\ 1 \in 1..Len(q)
      /\ \A i \in 1..Len(p) : p[i] = q[i + 1]
  BY Taken
<1>4. \A i \in 1..Len(p) : i + 1 \in 1..Len(q)
  BY Taken
<1>5. ASSUME Mute(q, o) PROVE Mute(p, o) /\ e.object # o
  BY <1>2, <1>4, <1>5 DEF Mute
<1>6. ASSUME NEW v, LastSays(q, o, v)
      PROVE  \/ LastSays(p, o, v)
             \/ e.object = o /\ e.version = v /\ Mute(p, o)
  <2>1. PICK i \in 1..Len(q) : /\ q[i].object = o /\ q[i].version = v
                               /\ \A j \in 1..Len(q) : j > i => q[j].object # o
    BY <1>6 DEF LastSays
  <2>2. CASE i = 1
    <3>1. \A j \in 1..Len(p) : j + 1 > 1
      BY <1>1, <1>2
    <3>2. Mute(p, o)
      BY <1>2, <1>4, <2>1, <2>2, <3>1 DEF Mute
    <3> QED  BY <1>2, <2>1, <2>2, <3>2
  <2>3. CASE i # 1
    <3>1. i - 1 \in 1..Len(p) /\ (i - 1) + 1 = i
      BY <1>1, <1>2, <2>1, <2>3
    <3>2. p[i - 1] = q[i]
      BY <1>2, <3>1
    <3>3. ASSUME NEW j \in 1..Len(p), j > i - 1 PROVE p[j].object # o
      <4>1. j + 1 > i
        BY <1>1, <1>2, <2>1, <3>3
      <4> QED  BY <1>2, <1>4, <2>1, <4>1
    <3> QED  BY <2>1, <3>1, <3>2, <3>3 DEF LastSays
  <2> QED  BY <2>2, <2>3
<1> QED  BY <1>5, <1>6

\* What a connection is told stays, when nothing on its way moves.
LEMMA SameTold ==
  ASSUME NEW w, NEW s, NEW o,
         wire'[s] = wire[s], callback'[s] = callback[s], channel'[s] = channel[s],
         objects'[o] = objects[o], view'[w][o] = view[w][o]
  PROVE  (Tells(w, s, o) => Tells(w, s, o)') /\ (NothingAbout(s, o) => NothingAbout(s, o)')
BY DEF Tells, NothingAbout

\* An endpoint subscribes to types there are.
LEMMA SubscribedTypes ==
  ASSUME NEW e \in Endpoints
  PROVE  Subscribed(e) \subseteq Types
<1>1. e.at \in {"tenants", "machines", "scoped", "machine", "cluster", "stream"}
  BY WatchBusAssumption
<1> QED  BY <1>1 DEF Subscribed

\* Adapter.Publish: the new version is the last that is said of the object, to every
\* connection that is subscribed and has room for it.
LEMMA PublishStep ==
  ASSUME WatchBusInv, NEW x \in Objects, Publish(x)
  PROVE  WatchBusInv'
<1>i. WatchBusTypeOK /\ BusInv /\ ToldInv
  BY DEF WatchBusInv
<1>u. UNCHANGED <<kind, watch, callback, open, view, panicked>>
  BY DEF Publish
<1>t. /\ ChanSize \in Nat \ {0} /\ MaxPublishes \in Nat /\ published \in Nat
      /\ published <= MaxPublishes
      /\ \A s \in Subs : /\ wire[s] \in Seq(BusEvent) /\ channel[s] \in Seq(BusEvent)
                         /\ Len(wire[s]) \in Nat /\ Len(channel[s]) \in Nat
      /\ \A w \in Watchers, o \in Objects :
           /\ o.type \in Types /\ <<w, o.type>> \in Subs
           /\ <<w, o.type>>[1] = w /\ <<w, o.type>>[2] = o.type
      /\ \A s \in Subs : s[1] \in Watchers /\ s[2] \in Types /\ s = <<s[1], s[2]>>
  BY <1>i, WatchTypes
<1>n. published < MaxPublishes /\ published' = published + 1
  BY DEF Publish
<1>m. published' \in 0..MaxPublishes /\ published + 1 \in 0..MaxPublishes /\ 0 \in 0..MaxPublishes
  BY <1>t, <1>n
<1>h. PICK hit : hit = {s \in Subs : Active(s) /\ s[2] = x.type}
  OBVIOUS
<1>c. PICK v \in {0, published + 1} :
        /\ objects' = [objects EXCEPT ![x] = v]
        /\ LET to == {s \in Subs : Active(s) /\ s[2] = x.type}
               c == [object |-> x, version |-> v,
                     form |-> IF kind = "nats" THEN "map" ELSE "struct"]
           IN /\ since' = [w \in Watchers |->
                    IF <<w, x.type>> \in to THEN since[w] \cup {x} ELSE since[w]]
              /\ IF kind = "nats"
                 THEN /\ wire' = [s \in Subs |-> IF s \in to THEN Append(wire[s], c) ELSE wire[s]]
                      /\ UNCHANGED <<channel, missed>>
                 ELSE /\ channel' = [s \in Subs |-> IF s \in to THEN Offer(s, c) ELSE channel[s]]
                      /\ missed' = missed \cup {w \in Watchers :
                            <<w, x.type>> \in to /\ Full(<<w, x.type>>)}
                      /\ UNCHANGED wire
  BY Zenon DEF Publish
<1>d. PICK e : e = [object |-> x, version |-> v,
                    form |-> IF kind = "nats" THEN "map" ELSE "struct"]
  OBVIOUS
<1>e. /\ objects' = [objects EXCEPT ![x] = v]
      /\ since' = [w \in Watchers |->
            IF <<w, x.type>> \in hit THEN since[w] \cup {x} ELSE since[w]]
      /\ IF kind = "nats"
         THEN /\ wire' = [s \in Subs |-> IF s \in hit THEN Append(wire[s], e) ELSE wire[s]]
              /\ UNCHANGED <<channel, missed>>
         ELSE /\ channel' = [s \in Subs |-> IF s \in hit THEN Offer(s, e) ELSE channel[s]]
              /\ missed' = missed \cup {w \in Watchers :
                    <<w, x.type>> \in hit /\ Full(<<w, x.type>>)}
              /\ UNCHANGED wire
  BY <1>c, <1>d, <1>h, Zenon
<1>v. e \in BusEvent /\ e.object = x /\ e.version = v /\ v \in 0..MaxPublishes
  <2>1. v \in 0..MaxPublishes
    BY <1>m, <1>c
  <2>2. (IF kind = "nats" THEN "map" ELSE "struct") \in {"map", "struct"}
    OBVIOUS
  <2> QED  BY <1>d, <2>1, <2>2 DEF BusEvent
<1>o. /\ objects' \in [Objects -> 0..MaxPublishes] /\ objects'[x] = v
      /\ \A o \in Objects : o # x => objects'[o] = objects[o]
  BY <1>e, <1>v, <1>i DEF WatchBusTypeOK
<1>s. /\ since' \in [Watchers -> SUBSET Objects]
      /\ \A w \in Watchers : since'[w] = IF <<w, x.type>> \in hit THEN since[w] \cup {x}
                                          ELSE since[w]
  BY <1>e, <1>i DEF WatchBusTypeOK
<1>a. \A s : Active(s)' <=> Active(s)
  BY <1>u DEF Active
\* What happens to the way to one subscription.
<1>w. ASSUME NEW s \in Subs
      PROVE  /\ s \notin hit => wire'[s] = wire[s] /\ channel'[s] = channel[s]
             /\ s \in hit =>
                  \/ kind = "nats" /\ wire'[s] = Append(wire[s], e) /\ channel'[s] = channel[s]
                  \/ /\ kind # "nats" /\ wire'[s] = wire[s] /\ ~Full(s)
                     /\ channel'[s] = Append(channel[s], e)
                  \/ /\ kind # "nats" /\ wire'[s] = wire[s] /\ Full(s)
                     /\ channel'[s] = channel[s]
  <2>1. CASE kind = "nats"
    BY <1>e, <2>1
  <2>2. CASE kind # "nats"
    <3>1. s \in hit => channel'[s] = Offer(s, e)
      BY <1>e, <2>2
    <3>2. s \notin hit => channel'[s] = channel[s]
      BY <1>e, <2>2
    <3>3. Full(s) => Offer(s, e) = channel[s]
      BY <1>t DEF Full, Offer
    <3>4. ~Full(s) => Offer(s, e) = Append(channel[s], e)
      BY <1>t DEF Full, Offer
    <3>5. wire' = wire
      BY <1>e, <2>2
    <3> QED  BY <2>2, <3>1, <3>2, <3>3, <3>4, <3>5
  <2> QED  BY <2>1, <2>2
<1>k. kind = "local" => kind # "nats"
  OBVIOUS
<1>1. WatchBusTypeOK'
  <2>1. ASSUME NEW s \in Subs
        PROVE  /\ wire'[s] \in Seq(BusEvent) /\ channel'[s] \in Seq(BusEvent)
               /\ Len(channel'[s]) <= ChanSize /\ Len(wire'[s]) <= published'
    <3>0. Len(channel[s]) <= ChanSize /\ Len(wire[s]) <= published
      BY <1>i DEF WatchBusTypeOK
    <3>1. Len(wire[s]) <= published'
      BY <1>n, <1>t, <3>0
    <3>2. CASE wire'[s] = wire[s] /\ channel'[s] = channel[s]
      BY <1>t, <3>0, <3>1, <3>2
    <3>3. CASE wire'[s] = Append(wire[s], e) /\ channel'[s] = channel[s]
      <4>1. wire'[s] \in Seq(BusEvent) /\ Len(wire'[s]) = Len(wire[s]) + 1
        BY <1>t, <1>v, <3>3, Put
      <4>2. Len(wire'[s]) <= published'
        BY <1>n, <1>t, <3>0, <4>1
      <4> QED  BY <1>t, <3>0, <3>3, <4>1, <4>2
    <3>4. CASE wire'[s] = wire[s] /\ ~Full(s) /\ channel'[s] = Append(channel[s], e)
      <4>1. channel'[s] \in Seq(BusEvent) /\ Len(channel'[s]) = Len(channel[s]) + 1
        BY <1>t, <1>v, <3>4, Put
      <4>2. Len(channel[s]) < ChanSize
        BY <1>t, <3>4 DEF Full
      <4>3. Len(channel'[s]) <= ChanSize
        BY <1>t, <4>1, <4>2
      <4> QED  BY <1>t, <3>1, <3>4, <4>1, <4>3
    <3> QED  BY <1>w, <3>2, <3>3, <3>4
  <2>2. wire' \in [Subs -> Seq(BusEvent)] /\ channel' \in [Subs -> Seq(BusEvent)]
    <3>1. DOMAIN wire' = Subs /\ DOMAIN channel' = Subs
          /\ wire' = [s \in Subs |-> wire'[s]] /\ channel' = [s \in Subs |-> channel'[s]]
      <4>1. CASE kind = "nats"
        BY <1>e, <1>i, <4>1 DEF WatchBusTypeOK
      <4>2. CASE kind # "nats"
        BY <1>e, <1>i, <4>2 DEF WatchBusTypeOK
      <4> QED  BY <4>1, <4>2
    <3> QED  BY <2>1, <3>1
  <2>3. missed' \subseteq Watchers
    <3>1. CASE kind = "nats"
      BY <1>e, <1>i, <3>1 DEF WatchBusTypeOK
    <3>2. CASE kind # "nats"
      BY <1>e, <1>i, <3>2 DEF WatchBusTypeOK
    <3> QED  BY <3>1, <3>2
  <2>4. enqueued' \subseteq {tenantOf(o) : o \in Objects}
    BY <1>i DEF WatchBusTypeOK, Publish
  <2> QED  BY <1>i, <1>u, <1>m, <1>o, <1>s, <2>1, <2>2, <2>3, <2>4 DEF WatchBusTypeOK
<1>2. BusInv'
  <2>1. ASSUME NEW s \in Subs, kind' = "local" PROVE wire'[s] = <<>> /\ callback'[s] = NoEvent
    BY <1>i, <1>u, <1>k, <1>w, <2>1 DEF BusInv
  <2>2. ASSUME NEW s \in Subs
        PROVE  /\ \A i \in 1..Len(wire'[s]) : wire'[s][i].object.type = s[2]
               /\ callback'[s] # NoEvent => callback'[s].object.type = s[2]
               /\ \A i \in 1..Len(channel'[s]) : channel'[s][i].object.type = s[2]
    <3>0. /\ \A i \in 1..Len(wire[s]) : wire[s][i].object.type = s[2]
          /\ callback[s] # NoEvent => callback[s].object.type = s[2]
          /\ \A i \in 1..Len(channel[s]) : channel[s][i].object.type = s[2]
      BY <1>i DEF BusInv
    <3>1. CASE wire'[s] = wire[s] /\ channel'[s] = channel[s]
      BY <1>u, <3>0, <3>1
    <3>2. CASE s \in hit /\ wire'[s] = Append(wire[s], e) /\ channel'[s] = channel[s]
      <4>1. \A i \in 1..Len(wire'[s]) : (i \in 1..Len(wire[s]) /\ wire'[s][i] = wire[s][i])
                                         \/ wire'[s][i] = e
        BY <1>t, <1>v, <3>2, Put
      <4>2. e.object.type = s[2]
        BY <1>h, <1>v, <3>2
      <4> QED  BY <1>u, <3>0, <3>2, <4>1, <4>2
    <3>3. CASE s \in hit /\ wire'[s] = wire[s] /\ channel'[s] = Append(channel[s], e)
      <4>1. \A i \in 1..Len(channel'[s]) :
              (i \in 1..Len(channel[s]) /\ channel'[s][i] = channel[s][i]) \/ channel'[s][i] = e
        BY <1>t, <1>v, <3>3, Put
      <4>2. e.object.type = s[2]
        BY <1>h, <1>v, <3>3
      <4> QED  BY <1>u, <3>0, <3>3, <4>1, <4>2
    <3> QED  BY <1>w, <3>1, <3>2, <3>3
  <2>3. ASSUME NEW w \in Watchers, watch'[w].phase = "off" PROVE Quiet(w)' /\ since'[w] = {}
    <3>1. watch[w].phase = "off" /\ Quiet(w) /\ since[w] = {}
      BY <1>i, <1>u, <2>3 DEF BusInv
    <3>2. \A t \in Types : <<w, t>> \in Subs /\ <<w, t>> \notin hit
      BY <1>h, <3>1 DEF Active, Subs
    <3>3. since'[w] = {}
      BY <1>s, <1>t, <3>1, <3>2
    <3>4. \A t \in Types : wire'[<<w, t>>] = wire[<<w, t>>] /\ channel'[<<w, t>>] = channel[<<w, t>>]
      BY <1>w, <3>2
    <3> QED  BY <1>u, <3>1, <3>3, <3>4 DEF Quiet
  <2>4. ASSUME NEW w \in Watchers, watch'[w].phase # "off", NEW o \in since'[w]
        PROVE  o.type \in Subscribed(watch'[w].endpoint)
    <3>1. CASE o \in since[w]
      BY <1>i, <1>u, <2>4, <3>1 DEF BusInv
    <3>2. CASE o = x /\ <<w, x.type>> \in hit
      BY <1>h, <1>u, <1>t, <3>2 DEF Active
    <3> QED  BY <1>s, <2>4, <3>1, <3>2
  <2>5. \A s \in Subs : Active(s)' => s \in open'
    BY <1>i, <1>u, <1>a DEF BusInv
  <2>6. \A w \in Watchers : watch'[w].phase # "off" => watch'[w].endpoint \in Endpoints
    BY <1>i, <1>u DEF BusInv
  <2> QED  BY <2>1, <2>2, <2>3, <2>4, <2>5, <2>6 DEF BusInv, Subscribed
<1>3. ToldInv'
  <2> SUFFICES ASSUME NEW w \in Watchers, Listens(w)', NEW o \in Objects,
                      o.type \in Subscribed(watch'[w].endpoint)
               PROVE  ToldOK(w, o)'
    BY DEF ToldInv, Subscribed
  <2>1. missed \subseteq missed' /\ (kind # "nats" => \A k \in Watchers :
          <<k, x.type>> \in hit /\ Full(<<k, x.type>>) => k \in missed')
    <3>1. CASE kind = "nats"
      BY <1>e, <3>1
    <3>2. CASE kind # "nats"
      BY <1>e, <3>2
    <3> QED  BY <3>1, <3>2
  <2>2. Listens(w) /\ o.type \in Subscribed(watch[w].endpoint) /\ w \notin missed'
    BY <1>u, <2>1 DEF Listens
  <2>3. ToldOK(w, o)
    BY <1>i, <2>2 DEF ToldInv
  <2>4. PICK s : s = <<w, o.type>>
    OBVIOUS
  <2>5. s \in Subs /\ s[1] = w /\ s[2] = o.type
    BY <1>t, <2>4
  <2>6. Active(s)
    BY <2>2, <2>5 DEF Active, Listens
  <2>7. CASE o.type # x.type
    <3>1. s \notin hit /\ o # x
      BY <1>h, <2>5, <2>7
    <3>2. (Tells(w, s, o) => Tells(w, s, o)') /\ (NothingAbout(s, o) => NothingAbout(s, o)')
      <4>1. wire'[s] = wire[s] /\ channel'[s] = channel[s] /\ callback'[s] = callback[s]
        BY <1>u, <1>w, <2>5, <3>1
      <4>2. objects'[o] = objects[o] /\ view'[w][o] = view[w][o]
        BY <1>u, <1>o, <3>1
      <4> QED  BY <4>1, <4>2, SameTold
    <3>3. o \in since'[w] <=> o \in since[w]
      BY <1>s, <3>1
    <3> QED  BY <1>u, <2>3, <2>4, <3>2, <3>3 DEF ToldOK, Owes
  <2>8. CASE o.type = x.type
    <3>1. s \in hit
      BY <1>h, <2>5, <2>6, <2>8
    <3>2. kind # "nats" => ~Full(s)
      BY <2>1, <2>2, <2>4, <2>8, <3>1
    <3>3. kind # "nats" => wire[s] = <<>> /\ callback[s] = NoEvent
      <4>1. kind # "nats" => kind = "local"
        BY <1>i, WatchBusAssumption DEF WatchBusTypeOK
      <4> QED  BY <1>i, <2>5, <4>1 DEF BusInv
    <3>4. CASE o = x
      <4>1. x \in since'[w]
        BY <1>s, <2>4, <2>8, <3>1
      <4>2. Tells(w, s, x)'
        <5>1. CASE kind = "nats"
          <6>1. wire'[s] = Append(wire[s], e)
            BY <1>w, <2>5, <3>1, <5>1
          <6>2. LastSays(wire'[s], x, v)
            BY <1>t, <1>v, <2>5, <6>1, Put, ZenonT(60)
          <6> QED  BY <1>o, <6>2 DEF Tells
        <5>2. CASE kind # "nats"
          <6>1. channel'[s] = Append(channel[s], e) /\ wire'[s] = <<>> /\ callback'[s] = NoEvent
            BY <1>u, <1>w, <2>5, <3>1, <3>2, <3>3, <5>2
          <6>2. LastSays(channel'[s], x, v)
            BY <1>t, <1>v, <2>5, <6>1, Put, ZenonT(60)
          <6>3. Mute(wire'[s], x)
            <7>1. Len(<<>>) = 0 /\ 1..0 = {}
              OBVIOUS
            <7> QED  BY <6>1, <7>1 DEF Mute
          <6>4. ~Carries(callback'[s], x)
            BY <6>1 DEF Carries
          <6> QED  BY <1>o, <6>2, <6>3, <6>4 DEF Tells
        <5> QED  BY <5>1, <5>2
      <4> QED  BY <2>4, <3>4, <4>1, <4>2 DEF ToldOK
    <3>5. CASE o # x
      <4>1. (Tells(w, s, o) => Tells(w, s, o)') /\ (NothingAbout(s, o) => NothingAbout(s, o)')
        <5>1. objects'[o] = objects[o] /\ view'[w][o] = view[w][o] /\ callback'[s] = callback[s]
          BY <1>u, <1>o, <3>5
        <5>2. /\ Mute(wire[s], o) => Mute(wire'[s], o)
              /\ \A n : LastSays(wire[s], o, n) => LastSays(wire'[s], o, n)
              /\ Mute(channel[s], o) => Mute(channel'[s], o)
              /\ \A n : LastSays(channel[s], o, n) => LastSays(channel'[s], o, n)
          <6>1. CASE kind = "nats"
            <7>1. wire'[s] = Append(wire[s], e) /\ channel'[s] = channel[s]
              BY <1>w, <2>5, <3>1, <6>1
            <7>2. wire[s] \in Seq(BusEvent) /\ o # e.object /\ e \in BusEvent
              BY <1>t, <1>v, <2>5, <3>5
            <7>3. /\ Mute(wire[s], o) => Mute(wire'[s], o)
                  /\ \A n : LastSays(wire[s], o, n) => LastSays(wire'[s], o, n)
              BY <7>1, <7>2, PutKeeps
            <7> QED  BY <7>1, <7>3
          <6>2. CASE kind # "nats"
            <7>1. channel'[s] = Append(channel[s], e) /\ wire'[s] = wire[s]
              BY <1>w, <2>5, <3>1, <3>2, <6>2
            <7>2. channel[s] \in Seq(BusEvent) /\ o # e.object /\ e \in BusEvent
              BY <1>t, <1>v, <2>5, <3>5
            <7>3. /\ Mute(channel[s], o) => Mute(channel'[s], o)
                  /\ \A n : LastSays(channel[s], o, n) => LastSays(channel'[s], o, n)
              BY <7>1, <7>2, PutKeeps
            <7> QED  BY <7>1, <7>3
          <6> QED  BY <6>1, <6>2
        <5> QED  BY <5>1, <5>2 DEF Tells, NothingAbout
      <4>2. o \in since'[w] <=> o \in since[w]
        BY <1>s, <3>5
      <4> QED  BY <1>u, <2>3, <2>4, <4>1, <4>2 DEF ToldOK, Owes
    <3> QED  BY <3>4, <3>5
  <2> QED  BY <2>7, <2>8
<1> QED  BY <1>1, <1>2, <1>3 DEF WatchBusInv

\* A connection goes on.
LEMMA PhaseMoves ==
  ASSUME WatchBusTypeOK, NEW w \in Watchers, NEW ph \in Phases,
         watch' = [watch EXCEPT ![w].phase = ph]
  PROVE  /\ watch' \in [Watchers -> [endpoint : Endpoints \cup {NoEndpoint}, phase : Phases]]
         /\ watch'[w].phase = ph /\ watch'[w].endpoint = watch[w].endpoint
         /\ \A k \in Watchers : k # w => watch'[k] = watch[k]
<1>1. watch \in [Watchers -> [endpoint : Endpoints \cup {NoEndpoint}, phase : Phases]]
  BY DEF WatchBusTypeOK
<1>2. PICK c : c = [watch[w] EXCEPT !.phase = ph]
  OBVIOUS
<1>3. watch' = [watch EXCEPT ![w] = c]
  BY <1>1, <1>2
<1>4. /\ c \in [endpoint : Endpoints \cup {NoEndpoint}, phase : Phases]
      /\ c.phase = ph /\ c.endpoint = watch[w].endpoint
  BY <1>1, <1>2
<1> QED  BY <1>1, <1>3, <1>4

\* Its plumbing stays as it is, while it is subscribed.
LEMMA PlumbingStays ==
  ASSUME WatchBusTypeOK, BusInv, NEW w \in Watchers,
         watch[w].phase \in {"subscribed", "listing", "live"},
         NEW ph \in {"listing", "live", "cancelling"},
         watch' = [watch EXCEPT ![w].phase = ph],
         UNCHANGED <<kind, wire, callback, channel, open, since>>
  PROVE  BusInv'
<1>1. /\ watch'[w].phase = ph /\ watch'[w].endpoint = watch[w].endpoint
      /\ \A k \in Watchers : k # w => watch'[k] = watch[k]
  BY PhaseMoves DEF Phases
<1>2. ASSUME NEW s \in Subs, Active(s)' PROVE s \in open'
  <2>1. s[1] \in Watchers
    BY DEF Subs
  <2>2. Active(s)
    <3>1. CASE s[1] = w
      BY <1>1, <1>2, <3>1 DEF Active
    <3>2. CASE s[1] # w
      BY <1>1, <1>2, <2>1, <3>2 DEF Active
    <3> QED  BY <3>1, <3>2
  <2> QED  BY <2>2 DEF BusInv
<1>3. ASSUME NEW k \in Watchers
      PROVE  /\ watch'[k].phase # "off" <=> watch[k].phase # "off"
             /\ watch'[k].endpoint = watch[k].endpoint
  BY <1>1
<1>4. \A k \in Watchers : watch'[k].phase = "off" => Quiet(k)' /\ since'[k] = {}
  <2>1. \A k \in Watchers : Quiet(k) => Quiet(k)'
    BY DEF Quiet
  <2> QED  BY <1>3, <2>1 DEF BusInv
<1>5. \A k \in Watchers : watch'[k].phase # "off" => watch'[k].endpoint \in Endpoints
  BY <1>3 DEF BusInv
<1>6. ASSUME NEW k \in Watchers, watch'[k].phase # "off", NEW o \in since'[k]
      PROVE  o.type \in Subscribed(watch'[k].endpoint)
  BY <1>3, <1>6 DEF BusInv
<1>7. \A s \in Subs :
        /\ kind' = "local" => wire'[s] = <<>> /\ callback'[s] = NoEvent
        /\ \A i \in 1..Len(wire'[s]) : wire'[s][i].object.type = s[2]
        /\ callback'[s] # NoEvent => callback'[s].object.type = s[2]
        /\ \A i \in 1..Len(channel'[s]) : channel'[s][i].object.type = s[2]
  BY DEF BusInv
<1> QED  BY <1>2, <1>4, <1>5, <1>6, <1>7 DEF BusInv, Subscribed

LEMMA SubscribeStep ==
  ASSUME WatchBusInv, NEW w \in Watchers, Subscribe(w)
  PROVE  WatchBusInv'
<1>i. WatchBusTypeOK /\ BusInv /\ ToldInv
  BY DEF WatchBusInv
<1>u. UNCHANGED <<objects, kind, wire, callback, channel, view, since, missed, panicked,
                  enqueued, published>>
  BY DEF Subscribe
<1>e. PICK e \in Endpoints :
        /\ watch' = [watch EXCEPT ![w] = [endpoint |-> e, phase |-> "subscribed"]]
        /\ open' = open \cup {<<w, t>> : t \in Subscribed(e)}
  BY DEF Subscribe
<1>o. watch[w].phase = "off" /\ Quiet(w) /\ since[w] = {}
  BY <1>i DEF Subscribe, BusInv
<1>w. /\ watch' \in [Watchers -> [endpoint : Endpoints \cup {NoEndpoint}, phase : Phases]]
      /\ watch'[w].phase = "subscribed" /\ watch'[w].endpoint = e
      /\ \A k \in Watchers : k # w => watch'[k] = watch[k]
  BY <1>i, <1>e DEF WatchBusTypeOK, Phases
<1>t. /\ \A k \in Watchers, o \in Objects :
           /\ o.type \in Types /\ <<k, o.type>> \in Subs
           /\ <<k, o.type>>[1] = k /\ <<k, o.type>>[2] = o.type
      /\ \A s \in Subs : s[1] \in Watchers /\ s[2] \in Types /\ s = <<s[1], s[2]>>
  BY <1>i, WatchTypes
<1>1. WatchBusTypeOK'
  <2>1. open' \subseteq Subs
    BY <1>i, <1>e, SubscribedTypes DEF WatchBusTypeOK, Subs
  <2> QED  BY <1>i, <1>u, <1>w, <2>1 DEF WatchBusTypeOK
<1>2. BusInv'
  <2>1. ASSUME NEW s \in Subs, Active(s)' PROVE s \in open'
    <3>1. CASE s[1] = w
      BY <1>e, <1>w, <1>t, <2>1, <3>1 DEF Active
    <3>2. CASE s[1] # w
      <4>1. Active(s)
        BY <1>w, <1>t, <2>1, <3>2 DEF Active
      <4> QED  BY <1>i, <1>e, <4>1 DEF BusInv
    <3> QED  BY <3>1, <3>2
  <2>2. \A k \in Watchers : watch'[k].phase = "off" => Quiet(k)' /\ since'[k] = {}
    <3>1. \A k \in Watchers : Quiet(k) => Quiet(k)'
      BY <1>u DEF Quiet
    <3> QED  BY <1>i, <1>u, <1>w, <3>1 DEF BusInv
  <2>3. \A k \in Watchers : watch'[k].phase # "off" => watch'[k].endpoint \in Endpoints
    BY <1>i, <1>w DEF BusInv
  <2>4. ASSUME NEW k \in Watchers, watch'[k].phase # "off", NEW o \in since'[k]
        PROVE  o.type \in Subscribed(watch'[k].endpoint)
    BY <1>i, <1>u, <1>o, <1>w, <2>4 DEF BusInv
  <2>5. \A s \in Subs :
          /\ kind' = "local" => wire'[s] = <<>> /\ callback'[s] = NoEvent
          /\ \A i \in 1..Len(wire'[s]) : wire'[s][i].object.type = s[2]
          /\ callback'[s] # NoEvent => callback'[s].object.type = s[2]
          /\ \A i \in 1..Len(channel'[s]) : channel'[s][i].object.type = s[2]
    BY <1>i, <1>u DEF BusInv
  <2> QED  BY <2>1, <2>2, <2>3, <2>4, <2>5 DEF BusInv, Subscribed
<1>3. ToldInv'
  <2> SUFFICES ASSUME NEW k \in Watchers, Listens(k)', NEW o \in Objects,
                      o.type \in Subscribed(watch'[k].endpoint)
               PROVE  ToldOK(k, o)'
    BY DEF ToldInv, Subscribed
  <2>1. CASE k = w
    <3>1. ~Owes(w, o)'
      BY <1>u, <1>o, <1>w DEF Owes
    <3>2. NothingAbout(<<w, o.type>>, o)'
      <4>1. /\ wire'[<<w, o.type>>] = <<>> /\ callback'[<<w, o.type>>] = NoEvent
            /\ channel'[<<w, o.type>>] = <<>>
        BY <1>o, <1>u, <1>t DEF Quiet
      <4>2. Len(<<>>) = 0 /\ 1..0 = {}
        OBVIOUS
      <4> QED  BY <4>1, <4>2 DEF NothingAbout, Mute, Carries
    <3> QED  BY <2>1, <3>1, <3>2 DEF ToldOK
  <2>2. CASE k # w
    <3>1. ToldOK(k, o)
      BY <1>i, <1>u, <1>w, <2>2 DEF ToldInv, Listens
    <3>2. /\ Tells(k, <<k, o.type>>, o) => Tells(k, <<k, o.type>>, o)'
          /\ NothingAbout(<<k, o.type>>, o) => NothingAbout(<<k, o.type>>, o)'
      BY <1>u, SameTold
    <3> QED  BY <1>u, <1>w, <2>2, <3>1, <3>2 DEF ToldOK, Owes
  <2> QED  BY <2>1, <2>2
<1> QED  BY <1>1, <1>2, <1>3 DEF WatchBusInv

\* The snapshot is the current version of everything, and what is still on its way
\* is not older than it.
LEMMA InitialStateStep ==
  ASSUME WatchBusInv, NEW w \in Watchers, InitialState(w)
  PROVE  WatchBusInv'
<1>i. WatchBusTypeOK /\ BusInv /\ ToldInv
  BY DEF WatchBusInv
<1>u. /\ UNCHANGED <<objects, kind, wire, callback, channel, open, since, panicked, enqueued,
                     published>>
      /\ watch[w].phase = "subscribed" /\ watch' = [watch EXCEPT ![w].phase = "listing"]
  BY DEF InitialState
<1>w. /\ watch' \in [Watchers -> [endpoint : Endpoints \cup {NoEndpoint}, phase : Phases]]
      /\ watch'[w].phase = "listing" /\ watch'[w].endpoint = watch[w].endpoint
      /\ \A k \in Watchers : k # w => watch'[k] = watch[k]
  BY <1>i, <1>u, PhaseMoves DEF Phases
<1>v. /\ view' \in [Watchers -> [Objects -> 0..MaxPublishes]]
      /\ missed \subseteq missed' /\ missed' \subseteq Watchers
      /\ \A k \in Watchers : k # w => view'[k] = view[k]
      /\ w \in missed' \/ view'[w] = IF watch[w].endpoint.at = "tenants" THEN objects ELSE view[w]
  BY <1>i DEF InitialState, WatchBusTypeOK
<1>1. WatchBusTypeOK'
  BY <1>i, <1>u, <1>w, <1>v DEF WatchBusTypeOK
<1>2. BusInv'
  BY <1>i, <1>u, PlumbingStays
<1>3. ToldInv'
  <2> SUFFICES ASSUME NEW k \in Watchers, Listens(k)', NEW o \in Objects,
                      o.type \in Subscribed(watch'[k].endpoint)
               PROVE  ToldOK(k, o)'
    BY DEF ToldInv, Subscribed
  <2>1. k \notin missed' /\ k \notin missed /\ watch'[k].endpoint = watch[k].endpoint
    BY <1>v, <1>w DEF Listens
  <2>2. ToldOK(k, o)
    BY <1>i, <1>u, <1>w, <2>1 DEF ToldInv, Listens
  <2>3. PICK s : s = <<k, o.type>>
    OBVIOUS
  <2>4. CASE k = w /\ watch[w].endpoint.at = "tenants"
    <3>1. view'[w][o] = objects[o]
      BY <1>v, <2>1, <2>4
    <3>2. NothingAbout(s, o) => Tells(w, s, o)'
      BY <1>u, <3>1 DEF Tells, NothingAbout
    <3>3. Tells(w, s, o) => Tells(w, s, o)'
      BY <1>u, <3>1 DEF Tells, NothingAbout
    <3>4. Tells(w, s, o)'
      BY <1>u, <2>2, <2>3, <2>4, <3>2, <3>3 DEF ToldOK, Owes
    <3> QED  BY <1>w, <2>3, <2>4, <3>4 DEF ToldOK
  <2>5. CASE ~(k = w /\ watch[w].endpoint.at = "tenants")
    <3>1. view'[k] = view[k]
      BY <1>v, <2>1, <2>5
    <3>2. (Tells(k, s, o) => Tells(k, s, o)') /\ (NothingAbout(s, o) => NothingAbout(s, o)')
      BY <1>u, <3>1, SameTold
    <3>3. Owes(k, o)' => Owes(k, o)
      BY <1>u, <1>w, <2>1, <2>5 DEF Owes
    <3>4. watch'[k].phase = "subscribed" => watch[k].phase = "subscribed"
      BY <1>u, <1>w
    <3> QED  BY <1>u, <2>2, <2>3, <3>2, <3>3, <3>4 DEF ToldOK
  <2> QED  BY <2>4, <2>5
<1> QED  BY <1>1, <1>2, <1>3 DEF WatchBusInv

LEMMA GoLiveStep ==
  ASSUME WatchBusInv, NEW w \in Watchers, GoLive(w)
  PROVE  WatchBusInv'
<1>i. WatchBusTypeOK /\ BusInv /\ ToldInv
  BY DEF WatchBusInv
<1>u. /\ UNCHANGED <<objects, kind, wire, callback, channel, open, view, since, missed,
                     panicked, enqueued, published>>
      /\ watch[w].phase = "listing" /\ watch' = [watch EXCEPT ![w].phase = "live"]
  BY DEF GoLive
<1>w. /\ watch' \in [Watchers -> [endpoint : Endpoints \cup {NoEndpoint}, phase : Phases]]
      /\ watch'[w].phase = "live" /\ watch'[w].endpoint = watch[w].endpoint
      /\ \A k \in Watchers : k # w => watch'[k] = watch[k]
  BY <1>i, <1>u, PhaseMoves DEF Phases
<1>1. WatchBusTypeOK'
  BY <1>i, <1>u, <1>w DEF WatchBusTypeOK
<1>2. BusInv'
  BY <1>i, <1>u, PlumbingStays
<1>3. ToldInv'
  <2> SUFFICES ASSUME NEW k \in Watchers, Listens(k)', NEW o \in Objects,
                      o.type \in Subscribed(watch'[k].endpoint)
               PROVE  ToldOK(k, o)'
    BY DEF ToldInv, Subscribed
  <2>1. watch'[k].endpoint = watch[k].endpoint
        /\ (watch'[k].phase = "subscribed" <=> watch[k].phase = "subscribed")
    BY <1>u, <1>w
  <2>2. ToldOK(k, o)
    BY <1>i, <1>u, <1>w, <2>1 DEF ToldInv, Listens
  <2>3. PICK s : s = <<k, o.type>>
    OBVIOUS
  <2>4. (Tells(k, s, o) => Tells(k, s, o)') /\ (NothingAbout(s, o) => NothingAbout(s, o)')
    BY <1>u, SameTold
  <2> QED  BY <1>u, <2>1, <2>2, <2>3, <2>4 DEF ToldOK, Owes
<1> QED  BY <1>1, <1>2, <1>3 DEF WatchBusInv

LEMMA DisconnectStep ==
  ASSUME WatchBusInv, NEW w \in Watchers, Disconnect(w)
  PROVE  WatchBusInv'
<1>i. WatchBusTypeOK /\ BusInv /\ ToldInv
  BY DEF WatchBusInv
<1>u. /\ UNCHANGED <<objects, kind, wire, callback, channel, open, view, since, missed,
                     panicked, enqueued, published>>
      /\ watch[w].phase = "live" /\ watch' = [watch EXCEPT ![w].phase = "cancelling"]
  BY DEF Disconnect
<1>w. /\ watch' \in [Watchers -> [endpoint : Endpoints \cup {NoEndpoint}, phase : Phases]]
      /\ watch'[w].phase = "cancelling" /\ watch'[w].endpoint = watch[w].endpoint
      /\ \A k \in Watchers : k # w => watch'[k] = watch[k]
  BY <1>i, <1>u, PhaseMoves DEF Phases
<1>1. WatchBusTypeOK'
  BY <1>i, <1>u, <1>w DEF WatchBusTypeOK
<1>2. BusInv'
  BY <1>i, <1>u, PlumbingStays
<1>3. ToldInv'
  <2> SUFFICES ASSUME NEW k \in Watchers, Listens(k)', NEW o \in Objects,
                      o.type \in Subscribed(watch'[k].endpoint)
               PROVE  ToldOK(k, o)'
    BY DEF ToldInv, Subscribed
  <2>1. k # w
    BY <1>w DEF Listens
  <2>2. watch'[k] = watch[k] /\ ToldOK(k, o)
    BY <1>i, <1>u, <1>w, <2>1 DEF ToldInv, Listens
  <2>3. PICK s : s = <<k, o.type>>
    OBVIOUS
  <2>4. (Tells(k, s, o) => Tells(k, s, o)') /\ (NothingAbout(s, o) => NothingAbout(s, o)')
    BY <1>u, SameTold
  <2> QED  BY <1>u, <2>2, <2>3, <2>4 DEF ToldOK, Owes
<1> QED  BY <1>1, <1>2, <1>3 DEF WatchBusInv

LEMMA CancelStep ==
  ASSUME WatchBusInv, NEW w \in Watchers, Cancel(w)
  PROVE  WatchBusInv'
<1>i. WatchBusTypeOK /\ BusInv /\ ToldInv
  BY DEF WatchBusInv
<1>u. /\ UNCHANGED <<objects, kind, callback, channel, view, since, missed, panicked,
                     enqueued, published>>
      /\ watch[w].phase = "cancelling" /\ watch' = [watch EXCEPT ![w].phase = "gone"]
      /\ wire' = [s \in Subs |-> IF s[1] = w THEN <<>> ELSE wire[s]]
      /\ open' = IF kind = "nats" THEN {s \in open : s[1] # w} ELSE open
  BY DEF Cancel
<1>w. /\ watch' \in [Watchers -> [endpoint : Endpoints \cup {NoEndpoint}, phase : Phases]]
      /\ watch'[w].phase = "gone" /\ watch'[w].endpoint = watch[w].endpoint
      /\ \A k \in Watchers : k # w => watch'[k] = watch[k]
  BY <1>i, <1>u, PhaseMoves DEF Phases
<1>t. /\ \A s \in Subs : wire[s] \in Seq(BusEvent)
      /\ \A k \in Watchers, o \in Objects :
           /\ o.type \in Types /\ <<k, o.type>> \in Subs
           /\ <<k, o.type>>[1] = k /\ <<k, o.type>>[2] = o.type
      /\ \A s \in Subs : s[1] \in Watchers /\ s[2] \in Types /\ s = <<s[1], s[2]>>
      /\ published \in Nat
  BY <1>i, WatchTypes
<1>e. <<>> \in Seq(BusEvent) /\ Len(<<>>) = 0 /\ 1..0 = {}
  OBVIOUS
<1>x. /\ wire' \in [Subs -> Seq(BusEvent)]
      /\ \A s \in Subs : wire'[s] = wire[s] \/ wire'[s] = <<>>
      /\ \A s \in Subs : s[1] # w => wire'[s] = wire[s]
  BY <1>u, <1>t, <1>e
<1>1. WatchBusTypeOK'
  <2>1. ASSUME NEW s \in Subs PROVE Len(wire'[s]) <= published
    <3>1. 0 <= published
      BY <1>t
    <3>2. Len(wire[s]) <= published
      BY <1>i DEF WatchBusTypeOK
    <3> QED  BY <1>x, <1>e, <3>1, <3>2
  <2>2. open' \subseteq Subs
    BY <1>i, <1>u DEF WatchBusTypeOK
  <2> QED  BY <1>i, <1>u, <1>w, <1>x, <2>1, <2>2 DEF WatchBusTypeOK
<1>2. BusInv'
  <2>1. ASSUME NEW s \in Subs, Active(s)' PROVE s \in open'
    <3>1. s[1] # w
      BY <1>w, <2>1 DEF Active
    <3>2. Active(s)
      BY <1>w, <1>t, <2>1, <3>1 DEF Active
    <3>3. s \in open
      BY <1>i, <3>2 DEF BusInv
    <3> QED  BY <1>u, <3>1, <3>3
  <2>2. ASSUME NEW k \in Watchers, watch'[k].phase = "off" PROVE Quiet(k)' /\ since'[k] = {}
    <3>1. k # w /\ Quiet(k) /\ since[k] = {}
      BY <1>i, <1>w, <2>2 DEF BusInv
    <3>2. \A c \in Types : <<k, c>> \in Subs /\ wire'[<<k, c>>] = wire[<<k, c>>]
      BY <1>x, <3>1 DEF Subs
    <3> QED  BY <1>u, <3>1, <3>2 DEF Quiet
  <2>3. \A k \in Watchers : watch'[k].phase # "off" => watch'[k].endpoint \in Endpoints
    BY <1>i, <1>u, <1>w DEF BusInv
  <2>4. ASSUME NEW k \in Watchers, watch'[k].phase # "off", NEW o \in since'[k]
        PROVE  o.type \in Subscribed(watch'[k].endpoint)
    <3>1. watch[k].phase # "off" /\ watch'[k].endpoint = watch[k].endpoint /\ o \in since[k]
      BY <1>u, <1>w, <2>4
    <3> QED  BY <1>i, <3>1 DEF BusInv
  <2>5. ASSUME NEW s \in Subs
        PROVE  /\ kind' = "local" => wire'[s] = <<>> /\ callback'[s] = NoEvent
               /\ \A i \in 1..Len(wire'[s]) : wire'[s][i].object.type = s[2]
               /\ callback'[s] # NoEvent => callback'[s].object.type = s[2]
               /\ \A i \in 1..Len(channel'[s]) : channel'[s][i].object.type = s[2]
    <3>1. CASE wire'[s] = wire[s]
      BY <1>i, <1>u, <3>1 DEF BusInv
    <3>2. CASE wire'[s] = <<>>
      BY <1>i, <1>u, <1>e, <3>2 DEF BusInv
    <3> QED  BY <1>x, <3>1, <3>2
  <2> QED  BY <2>1, <2>2, <2>3, <2>4, <2>5 DEF BusInv, Subscribed
<1>3. ToldInv'
  <2> SUFFICES ASSUME NEW k \in Watchers, Listens(k)', NEW o \in Objects,
                      o.type \in Subscribed(watch'[k].endpoint)
               PROVE  ToldOK(k, o)'
    BY DEF ToldInv, Subscribed
  <2>1. k # w
    BY <1>w DEF Listens
  <2>2. watch'[k] = watch[k] /\ ToldOK(k, o)
    BY <1>i, <1>u, <1>w, <2>1 DEF ToldInv, Listens
  <2>3. PICK s : s = <<k, o.type>>
    OBVIOUS
  <2>4. wire'[s] = wire[s]
    BY <1>t, <1>x, <2>1, <2>3
  <2>5. (Tells(k, s, o) => Tells(k, s, o)') /\ (NothingAbout(s, o) => NothingAbout(s, o)')
    BY <1>u, <2>4, SameTold
  <2> QED  BY <1>u, <2>2, <2>3, <2>5 DEF ToldOK, Owes
<1> QED  BY <1>1, <1>2, <1>3 DEF WatchBusInv

\* The plumbing, when events move on and no connection does.
LEMMA PlumbingCarries ==
  ASSUME BusInv, UNCHANGED <<kind, watch, open, since>>,
         NEW s0 \in Subs, watch[s0[1]].phase # "off",
         \A s \in Subs : s # s0 =>
           wire'[s] = wire[s] /\ callback'[s] = callback[s] /\ channel'[s] = channel[s],
         kind = "local" => wire'[s0] = <<>> /\ callback'[s0] = NoEvent,
         \A i \in 1..Len(wire'[s0]) : wire'[s0][i].object.type = s0[2],
         callback'[s0] # NoEvent => callback'[s0].object.type = s0[2],
         \A i \in 1..Len(channel'[s0]) : channel'[s0][i].object.type = s0[2]
  PROVE  BusInv'
<1>1. ASSUME NEW s \in Subs
      PROVE  /\ kind' = "local" => wire'[s] = <<>> /\ callback'[s] = NoEvent
             /\ \A i \in 1..Len(wire'[s]) : wire'[s][i].object.type = s[2]
             /\ callback'[s] # NoEvent => callback'[s].object.type = s[2]
             /\ \A i \in 1..Len(channel'[s]) : channel'[s][i].object.type = s[2]
  <2>1. CASE s = s0
    BY <2>1
  <2>2. CASE s # s0
    BY <2>2 DEF BusInv
  <2> QED  BY <2>1, <2>2
<1>2. ASSUME NEW k \in Watchers, watch'[k].phase = "off" PROVE Quiet(k)' /\ since'[k] = {}
  <2>1. k # s0[1] /\ Quiet(k) /\ since[k] = {}
    BY <1>2 DEF BusInv
  <2>2. \A c \in Types : <<k, c>> \in Subs /\ <<k, c>> # s0
    BY <2>1 DEF Subs
  <2> QED  BY <2>1, <2>2 DEF Quiet
<1>3. \A s \in Subs : Active(s)' => s \in open'
  <2>1. \A s \in Subs : Active(s)' => Active(s)
    BY DEF Active
  <2> QED  BY <2>1 DEF BusInv
<1>4. ASSUME NEW k \in Watchers, watch'[k].phase # "off"
      PROVE  /\ watch'[k].endpoint \in Endpoints
             /\ \A o \in since'[k] : o.type \in Subscribed(watch'[k].endpoint)
  BY <1>4 DEF BusInv
<1> QED  BY <1>1, <1>2, <1>3, <1>4 DEF BusInv, Subscribed

\* What the connections are told, when only one subscription's events move on.
LEMMA ToldCarries ==
  ASSUME WatchBusTypeOK, ToldInv, UNCHANGED <<objects, watch, since>>, missed \subseteq missed',
         NEW s0 \in Subs,
         \A s \in Subs : s # s0 =>
           wire'[s] = wire[s] /\ callback'[s] = callback[s] /\ channel'[s] = channel[s],
         \A k \in Watchers, o \in Objects : o.type # s0[2] => view'[k][o] = view[k][o],
         \A k \in Watchers : k # s0[1] => view'[k] = view[k],
         \A o \in Objects :
           o.type = s0[2] /\ Listens(s0[1])' /\ o.type \in Subscribed(watch[s0[1]].endpoint) =>
             /\ Tells(s0[1], s0, o) => Tells(s0[1], s0, o)'
             /\ watch[s0[1]].phase = "subscribed" /\ NothingAbout(s0, o) => NothingAbout(s0, o)'
  PROVE  ToldInv'
<1> SUFFICES ASSUME NEW k \in Watchers, Listens(k)', NEW o \in Objects,
                    o.type \in Subscribed(watch'[k].endpoint)
             PROVE  ToldOK(k, o)'
  BY DEF ToldInv, Subscribed
<1>1. ToldOK(k, o) /\ o.type \in Subscribed(watch[k].endpoint)
  BY DEF ToldInv, Listens
<1>2. PICK s : s = <<k, o.type>>
  OBVIOUS
<1>3. s \in Subs /\ s[1] = k /\ s[2] = o.type
  BY <1>2, WatchTypes
<1>4. /\ Tells(k, s, o) => Tells(k, s, o)'
      /\ watch[k].phase = "subscribed" /\ NothingAbout(s, o) => NothingAbout(s, o)'
  <2>1. CASE s = s0
    BY <1>1, <1>3, <2>1
  <2>2. CASE s # s0
    <3>1. view'[k][o] = view[k][o]
      <4>1. k # s0[1] \/ o.type # s0[2]
        BY <1>2, <2>2 DEF Subs
      <4> QED  BY <4>1
    <3>2. wire'[s] = wire[s] /\ callback'[s] = callback[s] /\ channel'[s] = channel[s]
      BY <1>3, <2>2
    <3>3. objects'[o] = objects[o]
      OBVIOUS
    <3> QED  BY <3>1, <3>2, <3>3, SameTold
  <2> QED  BY <2>1, <2>2
<1>5. Owes(k, o)' => Owes(k, o)
  BY DEF Owes
<1> QED  BY <1>1, <1>2, <1>4, <1>5 DEF ToldOK

\* The subscription's goroutine decodes the first message of the wire.
LEMMA DeliverStep ==
  ASSUME WatchBusInv, NEW s \in Subs, Deliver(s)
  PROVE  WatchBusInv'
<1>i. WatchBusTypeOK /\ BusInv /\ ToldInv
  BY DEF WatchBusInv
<1>u. /\ UNCHANGED <<objects, kind, watch, channel, open, view, since, missed, panicked,
                     enqueued, published>>
      /\ Active(s) /\ wire[s] # <<>> /\ callback[s] = NoEvent
      /\ callback' = [callback EXCEPT ![s] = Head(wire[s])]
      /\ wire' = [wire EXCEPT ![s] = Tail(@)]
  BY DEF Deliver
<1>t. /\ wire[s] \in Seq(BusEvent) /\ NoEvent \notin BusEvent /\ published \in Nat
  BY <1>i, WatchTypes
<1>e. PICK e, p : e = Head(wire[s]) /\ p = Tail(wire[s])
  OBVIOUS
<1>h. /\ p \in Seq(BusEvent) /\ Len(p) = Len(wire[s]) - 1 /\ Len(wire[s]) \in Nat
      /\ e \in BusEvent /\ 1 \in 1..Len(wire[s]) /\ wire[s][1] = e
      /\ \A i \in 1..Len(p) : i + 1 \in 1..Len(wire[s]) /\ p[i] = wire[s][i + 1]
  BY <1>u, <1>t, <1>e, Taken
<1>x. /\ wire' \in [Subs -> Seq(BusEvent)] /\ callback' \in [Subs -> BusEvent \cup {NoEvent}]
      /\ wire'[s] = p /\ callback'[s] = e
      /\ \A k \in Subs : k # s => wire'[k] = wire[k] /\ callback'[k] = callback[k]
  BY <1>i, <1>u, <1>e, <1>h DEF WatchBusTypeOK
<1>1. WatchBusTypeOK'
  <2>1. \A k \in Subs : Len(wire'[k]) <= published
    <3>1. \A k \in Subs : Len(wire[k]) <= published
      BY <1>i DEF WatchBusTypeOK
    <3>2. Len(p) <= published
      BY <1>h, <1>t, <3>1
    <3> QED  BY <1>x, <3>1, <3>2
  <2> QED  BY <1>i, <1>u, <1>x, <2>1 DEF WatchBusTypeOK
<1>2. BusInv'
  <2>1. /\ \A i \in 1..Len(wire[s]) : wire[s][i].object.type = s[2]
        /\ \A i \in 1..Len(channel[s]) : channel[s][i].object.type = s[2]
        /\ kind = "local" => wire[s] = <<>>
    BY <1>i DEF BusInv
  <2>2. \A i \in 1..Len(wire'[s]) : wire'[s][i].object.type = s[2]
    BY <1>h, <1>x, <2>1
  <2>3. callback'[s].object.type = s[2]
    BY <1>h, <1>x, <2>1
  <2>4. kind # "local"
    BY <1>u, <2>1
  <2>5. watch[s[1]].phase # "off"
    BY <1>u DEF Active
  <2> QED  BY <1>i, <1>u, <1>x, <2>1, <2>2, <2>3, <2>4, <2>5, PlumbingCarries
<1>3. ToldInv'
  <2>1. ASSUME NEW o \in Objects
        PROVE  /\ Tells(s[1], s, o) => Tells(s[1], s, o)'
               /\ NothingAbout(s, o) => NothingAbout(s, o)'
    <3>1. ~Carries(callback[s], o) /\ (Carries(callback'[s], o) <=> e.object = o)
      BY <1>u, <1>t, <1>h, <1>x DEF Carries
    <3>2. channel'[s] = channel[s] /\ objects'[o] = objects[o] /\ view'[s[1]][o] = view[s[1]][o]
      BY <1>u
    <3>k. /\ Mute(wire[s], o) => Mute(p, o) /\ e.object # o
          /\ \A v : LastSays(wire[s], o, v) =>
               \/ LastSays(p, o, v)
               \/ e.object = o /\ e.version = v /\ Mute(p, o)
      BY <1>u, <1>t, <1>e, TakenKeeps
    <3>3. PICK n : n = objects[o]
      OBVIOUS
    <3>4. LastSays(wire[s], o, n) =>
            \/ LastSays(wire'[s], o, n)
            \/ Carries(callback'[s], o) /\ callback'[s].version = n /\ Mute(wire'[s], o)
      BY <3>k, <1>x, <3>1
    <3>5. Mute(wire[s], o) => Mute(wire'[s], o) /\ ~Carries(callback'[s], o)
      BY <3>k, <1>x, <3>1
    <3>6. NothingAbout(s, o) => NothingAbout(s, o)'
      BY <3>2, <3>5 DEF NothingAbout
    <3> QED  BY <3>1, <3>2, <3>3, <3>4, <3>5, <3>6 DEF Tells
  <2>2. /\ \A k \in Subs : k # s =>
             wire'[k] = wire[k] /\ callback'[k] = callback[k] /\ channel'[k] = channel[k]
        /\ missed \subseteq missed'
    BY <1>u, <1>x
  <2> QED  BY <1>i, <1>u, <2>1, <2>2, ToldCarries
<1> QED  BY <1>1, <1>2, <1>3 DEF WatchBusInv

\* ... and offers it to the channel.
LEMMA SendStep ==
  ASSUME WatchBusInv, NEW s \in Subs, Send(s)
  PROVE  WatchBusInv'
<1>i. WatchBusTypeOK /\ BusInv /\ ToldInv
  BY DEF WatchBusInv
<1>u. /\ UNCHANGED <<objects, kind, watch, wire, open, view, since, enqueued, published>>
      /\ callback[s] # NoEvent
      /\ callback' = [callback EXCEPT ![s] = NoEvent]
  BY DEF Send
<1>e. PICK e \in BusEvent : e = callback[s]
  BY <1>i, <1>u DEF WatchBusTypeOK
<1>t. /\ channel[s] \in Seq(BusEvent) /\ Len(channel[s]) \in Nat /\ ChanSize \in Nat
      /\ s[1] \in Watchers
  BY <1>i, WatchTypes
<1>c. /\ callback' \in [Subs -> BusEvent \cup {NoEvent}] /\ callback'[s] = NoEvent
      /\ \A k \in Subs : k # s => callback'[k] = callback[k]
  BY <1>i, <1>u DEF WatchBusTypeOK
<1>a. /\ missed \subseteq missed' /\ missed' \subseteq Watchers /\ panicked' \subseteq Watchers
      /\ DOMAIN channel' = Subs /\ channel' = [k \in Subs |-> channel'[k]]
      /\ \A k \in Subs : k # s => channel'[k] = channel[k]
      /\ \/ s \notin open /\ channel'[s] = channel[s]
         \/ s \in open /\ Full(s) /\ channel'[s] = channel[s] /\ s[1] \in missed'
         \/ s \in open /\ ~Full(s) /\ channel'[s] = Append(channel[s], e)
  <2>1. CASE s \notin open
    <3>1. channel' = channel /\ missed' = missed /\ panicked' = panicked \cup {s[1]}
      BY <2>1 DEF Send
    <3> QED  BY <1>i, <1>t, <2>1, <3>1 DEF WatchBusTypeOK
  <2>2. CASE s \in open
    <3>1. /\ channel' = [channel EXCEPT ![s] = Offer(s, e)]
          /\ missed' = IF Full(s) THEN missed \cup {s[1]} ELSE missed
          /\ UNCHANGED panicked
      BY <1>e, <2>2 DEF Send
    <3>2. Full(s) => Offer(s, e) = channel[s]
      BY <1>t DEF Full, Offer
    <3>3. ~Full(s) => Offer(s, e) = Append(channel[s], e)
      BY <1>t DEF Full, Offer
    <3> QED  BY <1>i, <1>t, <2>2, <3>1, <3>2, <3>3 DEF WatchBusTypeOK
  <2> QED  BY <2>1, <2>2
<1>p. ASSUME ~Full(s), channel'[s] = Append(channel[s], e)
      PROVE  /\ channel'[s] \in Seq(BusEvent) /\ Len(channel'[s]) <= ChanSize
             /\ \A i \in 1..Len(channel'[s]) :
                  (i \in 1..Len(channel[s]) /\ channel'[s][i] = channel[s][i])
                    \/ channel'[s][i] = e
  <2>1. /\ channel'[s] \in Seq(BusEvent) /\ Len(channel'[s]) = Len(channel[s]) + 1
        /\ \A i \in 1..Len(channel'[s]) :
             (i \in 1..Len(channel[s]) /\ channel'[s][i] = channel[s][i])
               \/ channel'[s][i] = e
    BY <1>t, <1>p, Put
  <2>2. Len(channel[s]) < ChanSize
    BY <1>t, <1>p DEF Full
  <2>3. Len(channel'[s]) <= ChanSize
    BY <1>t, <2>1, <2>2
  <2> QED  BY <2>1, <2>3
<1>1. WatchBusTypeOK'
  <2>1. \A k \in Subs : channel'[k] \in Seq(BusEvent) /\ Len(channel'[k]) <= ChanSize
    <3>1. \A k \in Subs : channel[k] \in Seq(BusEvent) /\ Len(channel[k]) <= ChanSize
      BY <1>i DEF WatchBusTypeOK
    <3> QED  BY <1>a, <1>p, <3>1
  <2>2. channel' \in [Subs -> Seq(BusEvent)]
    BY <1>a, <2>1
  <2> QED  BY <1>i, <1>u, <1>c, <1>a, <2>1, <2>2 DEF WatchBusTypeOK
<1>2. BusInv'
  <2>1. /\ \A i \in 1..Len(wire[s]) : wire[s][i].object.type = s[2]
        /\ \A i \in 1..Len(channel[s]) : channel[s][i].object.type = s[2]
        /\ e.object.type = s[2] /\ kind # "local"
    BY <1>i, <1>u, <1>e DEF BusInv
  <2>2. \A i \in 1..Len(channel'[s]) : channel'[s][i].object.type = s[2]
    BY <1>a, <1>p, <2>1
  <2>3. watch[s[1]].phase # "off"
    <3>1. watch[s[1]].phase = "off" => callback[s] = NoEvent
      <4>1. s = <<s[1], s[2]>> /\ s[2] \in Types
        BY DEF Subs
      <4> QED  BY <1>i, <1>t, <4>1 DEF BusInv, Quiet
    <3> QED  BY <1>u, <3>1
  <2>4. \A i \in 1..Len(wire'[s]) : wire'[s][i].object.type = s[2]
    BY <1>u, <2>1
  <2>5. \A k \in Subs : k # s =>
          wire'[k] = wire[k] /\ callback'[k] = callback[k] /\ channel'[k] = channel[k]
    BY <1>u, <1>c, <1>a
  <2> QED  BY <1>i, <1>u, <1>c, <2>1, <2>2, <2>3, <2>4, <2>5, PlumbingCarries
<1>3. ToldInv'
  <2>1. ASSUME NEW o \in Objects, Listens(s[1])', o.type = s[2],
               o.type \in Subscribed(watch[s[1]].endpoint)
        PROVE  /\ Tells(s[1], s, o) => Tells(s[1], s, o)'
               /\ NothingAbout(s, o) => NothingAbout(s, o)'
    <3>1. Active(s)
      BY <1>u, <2>1 DEF Active, Listens
    <3>2. s \in open /\ s[1] \notin missed'
      BY <1>i, <2>1, <3>1 DEF BusInv, Listens
    <3>3. channel'[s] = Append(channel[s], e)
      BY <1>a, <3>2
    <3>4. ~Carries(callback'[s], o) /\ (Carries(callback[s], o) <=> e.object = o)
      BY <1>u, <1>e, <1>c DEF Carries
    <3>5. wire'[s] = wire[s] /\ objects'[o] = objects[o] /\ view'[s[1]][o] = view[s[1]][o]
      BY <1>u
    <3>6. CASE e.object = o
      <4>1. LastSays(channel'[s], o, e.version)
        BY <1>t, <3>3, <3>6, Put, ZenonT(60)
      <4>2. Carries(callback[s], o) /\ e.version = callback[s].version
        BY <1>e, <3>4, <3>6
      <4>3. ~NothingAbout(s, o)
        BY <4>2 DEF NothingAbout
      <4> QED  BY <3>4, <3>5, <4>1, <4>2, <4>3 DEF Tells
    <3>7. CASE e.object # o
      <4>1. /\ Mute(channel[s], o) => Mute(channel'[s], o)
            /\ \A v : LastSays(channel[s], o, v) => LastSays(channel'[s], o, v)
        BY <1>t, <3>3, <3>7, PutKeeps
      <4>2. ~Carries(callback[s], o)
        BY <3>4, <3>7
      <4>3. NothingAbout(s, o) => NothingAbout(s, o)'
        BY <3>4, <3>5, <4>1 DEF NothingAbout
      <4> QED  BY <3>4, <3>5, <4>1, <4>2, <4>3 DEF Tells
    <3> QED  BY <3>6, <3>7
  <2>2. \A k \in Subs : k # s =>
          wire'[k] = wire[k] /\ callback'[k] = callback[k] /\ channel'[k] = channel[k]
    BY <1>u, <1>c, <1>a
  <2> QED  BY <1>i, <1>u, <1>a, <2>1, <2>2, ToldCarries
<1> QED  BY <1>1, <1>2, <1>3 DEF WatchBusInv

\* ServeWatch: the first event of the channel becomes what the client knows.
LEMMA ServeStep ==
  ASSUME WatchBusInv, NEW s \in Subs, ServeWatch(s)
  PROVE  WatchBusInv'
<1>i. WatchBusTypeOK /\ BusInv /\ ToldInv
  BY DEF WatchBusInv
<1>e. PICK e, p : e = Head(channel[s]) /\ p = Tail(channel[s])
  OBVIOUS
<1>u. /\ UNCHANGED <<objects, kind, watch, wire, callback, open, since, missed, panicked,
                     enqueued, published>>
      /\ watch[s[1]].phase = "live" /\ channel[s] # <<>>
      /\ channel' = [channel EXCEPT ![s] = p]
      /\ view' = IF Keeps(watch[s[1]].endpoint, e)
                 THEN [view EXCEPT ![s[1]][e.object] = e.version] ELSE view
  BY <1>e DEF ServeWatch
<1>t. /\ channel[s] \in Seq(BusEvent) /\ ChanSize \in Nat /\ s[1] \in Watchers
  BY <1>i, WatchTypes
<1>h. /\ p \in Seq(BusEvent) /\ Len(p) = Len(channel[s]) - 1 /\ Len(channel[s]) \in Nat
      /\ e \in BusEvent /\ 1 \in 1..Len(channel[s]) /\ channel[s][1] = e
      /\ \A i \in 1..Len(p) : i + 1 \in 1..Len(channel[s]) /\ p[i] = channel[s][i + 1]
  BY <1>u, <1>t, <1>e, Taken
<1>x. /\ channel' \in [Subs -> Seq(BusEvent)] /\ channel'[s] = p
      /\ \A k \in Subs : k # s => channel'[k] = channel[k]
  BY <1>i, <1>u, <1>h DEF WatchBusTypeOK
<1>y. e.object \in Objects /\ e.version \in 0..MaxPublishes
  BY <1>h DEF BusEvent
<1>v. /\ view' \in [Watchers -> [Objects -> 0..MaxPublishes]]
      /\ \A k \in Watchers : k # s[1] => view'[k] = view[k]
      /\ \A o \in Objects : o # e.object => view'[s[1]][o] = view[s[1]][o]
      /\ Keeps(watch[s[1]].endpoint, e) => view'[s[1]][e.object] = e.version
  <2>1. CASE Keeps(watch[s[1]].endpoint, e)
    <3>1. view' = [view EXCEPT ![s[1]][e.object] = e.version]
      BY <1>u, <2>1
    <3> QED  BY <1>i, <1>t, <1>y, <3>1 DEF WatchBusTypeOK
  <2>2. CASE ~Keeps(watch[s[1]].endpoint, e)
    BY <1>i, <1>u, <2>2 DEF WatchBusTypeOK
  <2> QED  BY <2>1, <2>2
<1>1. WatchBusTypeOK'
  <2>1. \A k \in Subs : Len(channel'[k]) <= ChanSize
    <3>1. \A k \in Subs : Len(channel[k]) <= ChanSize
      BY <1>i DEF WatchBusTypeOK
    <3>2. Len(p) <= ChanSize
      BY <1>h, <1>t, <3>1
    <3> QED  BY <1>x, <3>1, <3>2
  <2> QED  BY <1>i, <1>u, <1>x, <1>v, <2>1 DEF WatchBusTypeOK
<1>f. /\ \A i \in 1..Len(channel[s]) : channel[s][i].object.type = s[2]
      /\ \A i \in 1..Len(wire[s]) : wire[s][i].object.type = s[2]
      /\ callback[s] # NoEvent => callback[s].object.type = s[2]
      /\ kind = "local" => wire[s] = <<>> /\ callback[s] = NoEvent
      /\ e.object.type = s[2]
  BY <1>i, <1>h DEF BusInv
<1>2. BusInv'
  <2>1. \A i \in 1..Len(channel'[s]) : channel'[s][i].object.type = s[2]
    BY <1>h, <1>x, <1>f
  <2>2. watch[s[1]].phase # "off"
    BY <1>u
  <2> QED  BY <1>i, <1>u, <1>x, <1>f, <2>1, <2>2, PlumbingCarries
<1>3. ToldInv'
  <2>1. ASSUME NEW o \in Objects, Listens(s[1])', o.type = s[2]
        PROVE  Tells(s[1], s, o) => Tells(s[1], s, o)'
    <3>1. Keeps(watch[s[1]].endpoint, e)
      BY <1>u, <2>1 DEF Keeps, EventsStream, Listens
    <3>2. /\ wire'[s] = wire[s] /\ callback'[s] = callback[s] /\ objects'[o] = objects[o]
          /\ e.object # o => view'[s[1]][o] = view[s[1]][o]
          /\ e.object = o => view'[s[1]][o] = e.version
      BY <1>u, <1>v, <3>1
    <3>k. /\ Mute(channel[s], o) => Mute(p, o) /\ e.object # o
          /\ \A v : LastSays(channel[s], o, v) =>
               \/ LastSays(p, o, v)
               \/ e.object = o /\ e.version = v /\ Mute(p, o)
      BY <1>u, <1>t, <1>e, TakenKeeps
    <3>3. PICK n : n = objects[o]
      OBVIOUS
    <3>4. LastSays(channel[s], o, n) =>
            \/ LastSays(channel'[s], o, n)
            \/ view'[s[1]][o] = n /\ Mute(channel'[s], o)
      BY <3>k, <1>x, <3>2
    <3>5. Mute(channel[s], o) => Mute(channel'[s], o) /\ view'[s[1]][o] = view[s[1]][o]
      BY <3>k, <1>x, <3>2
    <3> QED  BY <3>2, <3>3, <3>4, <3>5 DEF Tells, NothingAbout
  <2>2. /\ \A k \in Subs : k # s =>
             wire'[k] = wire[k] /\ callback'[k] = callback[k] /\ channel'[k] = channel[k]
        /\ missed \subseteq missed'
    BY <1>u, <1>x
  <2>3. \A k \in Watchers, o \in Objects : o.type # s[2] => view'[k][o] = view[k][o]
    <3>1. \A o \in Objects : o.type # s[2] => o # e.object
      BY <1>f
    <3> QED  BY <1>v, <3>1
  <2>4. watch[s[1]].phase # "subscribed"
    BY <1>u
  <2> QED  BY <1>i, <1>u, <1>v, <2>1, <2>2, <2>3, <2>4, ToldCarries
<1> QED  BY <1>1, <1>2, <1>3 DEF WatchBusInv

\* Nobody watches yet.
LEMMA WatchBusStarts == WatchBusInit => WatchBusInv
<1> SUFFICES ASSUME WatchBusInit PROVE WatchBusInv
  OBVIOUS
<1>1. MaxPublishes \in Nat /\ ChanSize \in Nat /\ Len(<<>>) = 0 /\ <<>> \in Seq(BusEvent) /\ 1..0 = {}
  BY WatchBusAssumption
<1>2. 0 \in 0..MaxPublishes /\ 0 <= ChanSize /\ 0 <= 0
  BY <1>1
<1>3. /\ \A s \in Subs : wire[s] = <<>> /\ channel[s] = <<>> /\ callback[s] = NoEvent
      /\ \A w \in Watchers : watch[w].phase = "off" /\ since[w] = {}
  BY DEF WatchBusInit
<1>4. watch \in [Watchers -> [endpoint : Endpoints \cup {NoEndpoint}, phase : Phases]]
  <2>1. [endpoint |-> NoEndpoint, phase |-> "off"]
          \in [endpoint : Endpoints \cup {NoEndpoint}, phase : Phases]
    BY DEF Phases
  <2> QED  BY <2>1 DEF WatchBusInit
<1>5. WatchBusTypeOK
  <2>1. /\ wire \in [Subs -> Seq(BusEvent)] /\ channel \in [Subs -> Seq(BusEvent)]
        /\ \A s \in Subs : Len(channel[s]) = 0 /\ Len(wire[s]) = 0
    BY <1>1, <1>3 DEF WatchBusInit
  <2> QED  BY <1>1, <1>2, <1>4, <2>1 DEF WatchBusInit, WatchBusTypeOK
<1>6. BusInv
  <2>1. \A w \in Watchers : Quiet(w)
    BY <1>3 DEF Quiet, Subs
  <2>2. \A s \in Subs : ~Active(s)
    BY <1>3 DEF Active, Subs
  <2> QED  BY <1>1, <1>3, <2>1, <2>2 DEF BusInv
<1>7. ToldInv
  BY <1>3 DEF ToldInv, Listens
<1> QED  BY <1>5, <1>6, <1>7 DEF WatchBusInv

\* A step of nobody.
LEMMA WatchBusStutters ==
  ASSUME WatchBusInv, UNCHANGED watchBusVars
  PROVE  WatchBusInv'
<1>u. UNCHANGED <<objects, kind, watch, wire, callback, channel, open, view, since, missed,
                  panicked, enqueued, published>>
  BY DEF watchBusVars
<1>1. WatchBusTypeOK'
  BY <1>u DEF WatchBusInv, WatchBusTypeOK
<1>2. BusInv'
  <2>1. \A s \in Subs : Active(s)' => Active(s)
    BY <1>u DEF Active
  <2>2. \A w \in Watchers : Quiet(w) => Quiet(w)'
    BY <1>u DEF Quiet
  <2> QED  BY <1>u, <2>1, <2>2 DEF WatchBusInv, BusInv, Subscribed
<1>3. ToldInv'
  <2> SUFFICES ASSUME NEW w \in Watchers, Listens(w)', NEW o \in Objects,
                      o.type \in Subscribed(watch'[w].endpoint)
               PROVE  ToldOK(w, o)'
    BY DEF ToldInv, Subscribed
  <2>1. ToldOK(w, o)
    BY <1>u DEF WatchBusInv, ToldInv, Listens
  <2>2. PICK s : s = <<w, o.type>>
    OBVIOUS
  <2>3. (Tells(w, s, o) => Tells(w, s, o)') /\ (NothingAbout(s, o) => NothingAbout(s, o)')
    BY <1>u, SameTold
  <2> QED  BY <1>u, <2>1, <2>2, <2>3 DEF ToldOK, Owes
<1> QED  BY <1>1, <1>2, <1>3 DEF WatchBusInv

LEMMA WatchBusSteps ==
  ASSUME WatchBusInv, [WatchBusNext]_watchBusVars
  PROVE  WatchBusInv'
<1>1. ASSUME NEW o \in Objects, Publish(o) PROVE WatchBusInv'
  BY <1>1, PublishStep
<1>2. ASSUME NEW w \in Watchers, Subscribe(w) PROVE WatchBusInv'
  BY <1>2, SubscribeStep
<1>3. ASSUME NEW w \in Watchers, InitialState(w) PROVE WatchBusInv'
  BY <1>3, InitialStateStep
<1>4. ASSUME NEW w \in Watchers, GoLive(w) PROVE WatchBusInv'
  BY <1>4, GoLiveStep
<1>5. ASSUME NEW w \in Watchers, Disconnect(w) PROVE WatchBusInv'
  BY <1>5, DisconnectStep
<1>6. ASSUME NEW w \in Watchers, Cancel(w) PROVE WatchBusInv'
  BY <1>6, CancelStep
<1>7. ASSUME NEW s \in Subs, ServeWatch(s) PROVE WatchBusInv'
  BY <1>7, ServeStep
<1>8. ASSUME NEW s \in Subs, Deliver(s) PROVE WatchBusInv'
  BY <1>8, DeliverStep
<1>9. ASSUME NEW s \in Subs, Send(s) PROVE WatchBusInv'
  BY <1>9, SendStep
<1> QED  BY <1>1, <1>2, <1>3, <1>4, <1>5, <1>6, <1>7, <1>8, <1>9, WatchBusStutters DEF WatchBusNext

\* The last event about an object that is under way to a client, and its view when
\* there is none, is the current version, unless the client lost an event.
THEOREM WatchBusInvariant == WatchBusSpec => []WatchBusInv
<1> QED  BY WatchBusStarts, WatchBusSteps, PTL DEF WatchBusSpec

\* The variables of the watch bus keep their types.
THEOREM WatchBusTypeCorrect == WatchBusSpec => []WatchBusTypeOK
<1>1. WatchBusInv => WatchBusTypeOK
  BY DEF WatchBusInv
<1> QED  BY <1>1, WatchBusInvariant, PTL

\* ServeWatch catches up: a client to which nothing is under way, and which lost no
\* event to a full channel, knows the tenants, and the objects changed since it
\* subscribed, as they are.
THEOREM WatchersCatchUp == WatchBusSpec => []WatcherCatchesUp
<1>1. WatchBusInv => WatcherCatchesUp
  <2> SUFFICES ASSUME WatchBusInv, NEW w \in Watchers, Follows(w), NEW o \in Objects,
                      \/ watch[w].endpoint.at = "tenants" /\ o.type = "tenant"
                      \/ watch[w].endpoint.at \in {"machines", "stream"} /\ o \in since[w]
               PROVE  view[w][o] = objects[o]
    <3>1. WatchBusInv => \A w \in Watchers : since[w] \subseteq Objects
      BY DEF WatchBusInv, WatchBusTypeOK
    <3> QED  BY <3>1 DEF WatcherCatchesUp
  <2>i. WatchBusTypeOK /\ BusInv /\ ToldInv
    BY DEF WatchBusInv
  <2>1. watch[w].phase = "live" /\ Quiet(w) /\ Listens(w)
    BY DEF Follows, Listens
  <2>2. o.type \in Subscribed(watch[w].endpoint)
    <3>1. CASE watch[w].endpoint.at = "tenants" /\ o.type = "tenant"
      BY <3>1 DEF Subscribed, Types
    <3>2. CASE o \in since[w]
      BY <2>i, <2>1, <3>2 DEF BusInv
    <3> QED  BY <3>1, <3>2
  <2>3. PICK s : s = <<w, o.type>>
    OBVIOUS
  <2>4. Tells(w, s, o)
    BY <2>i, <2>1, <2>2, <2>3 DEF ToldInv, ToldOK, Owes
  <2>5. wire[s] = <<>> /\ callback[s] = NoEvent /\ channel[s] = <<>>
    BY <2>1, <2>3 DEF Quiet, Types
  <2>6. ~LastSays(<<>>, o, objects[o]) /\ ~Carries(NoEvent, o)
    <3>1. Len(<<>>) = 0 /\ 1..0 = {}
      OBVIOUS
    <3> QED  BY <3>1 DEF LastSays, Carries
  <2> QED  BY <2>4, <2>5, <2>6 DEF Tells
<1> QED  BY <1>1, WatchBusInvariant, PTL
=============================================================================
