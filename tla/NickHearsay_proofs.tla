--------------------------- MODULE NickHearsay_proofs ---------------------------
(***************************************************************************)
(* What one link carries of one user, and that reading a line keeps it.    *)
(*                                                                         *)
(* For each server and user there is what the server has been told of the  *)
(* user.  A queue takes its reader from what it has been told to what its  *)
(* writer has: it introduces the user, changes its nick with timestamps    *)
(* that grow, saves it or takes it away.  The reader has just that, or it  *)
(* has refused it for a collision: then a SAVE or a KILL is on its way     *)
(* back, and it is for what was refused, as the timestamp shows.           *)
(*                                                                         *)
(* AInv says so of every link and of all the users of its one side, as     *)
(* long as no split may have come between them: those of the whole side    *)
(* while no link has broken, and those of the server at the end at any     *)
(* time.  NickAgree_proofs shows that every step keeps it.                 *)
(***************************************************************************)
EXTENDS NickDeserved_proofs

-----------------------------------------------------------------------------
(* What a server has been told of a user: its nick and the time it took    *)
(* it, nothing as yet (a time of -1), or that it is gone.                  *)

Hearsay ==
    {h \in [nick : Name \cup {NoNick}, ts : Nat \cup {-1}] : h.ts = -1 => h.nick = NoNick}

Nothing == [nick |-> NoNick, ts |-> -1]

\* m tells of u.
Concerns(m, u) == m.type \in {"UID", "NICK", "SAVE", "QUIT", "KILL"} /\ m.u = u

\* What one has been told who had been told h and is told m.
Since(h, m) ==
    [nick |-> IF m.type \in {"UID", "NICK"} THEN m.nick ELSE IF m.type = "SAVE" THEN m.u ELSE NoNick,
     ts |-> IF m.type \in {"UID", "NICK"} /\ m.nick \in Nick THEN m.ts
            ELSE IF m.type = "UID" THEN 0 ELSE h.ts]

\* m makes sense after h.
Apt(h, m) ==
    /\ m.type = "UID" => h.ts = -1
    /\ m.type = "NICK" =>
         /\ h.nick # NoNick
         /\ m.nick \in Nick => m.nick # h.nick /\ h.ts <= m.ts /\ (CollisionFnc => h.ts < m.ts)
    /\ m.type = "SAVE" => h.nick \in Nick /\ m.ts = h.ts
    /\ m.type \in {"QUIT", "KILL"} => h.nick # NoNick

Older(g, h) == g.ts <= h.ts /\ (CollisionFnc /\ h.nick \in Nick /\ g.ts = h.ts => g = h)

\* The queue q takes what its reader has been told of u from a to b.
Course(q, u, a, b) ==
    \E W \in [0..Len(q) -> Hearsay] :
        /\ W[0] = a /\ W[Len(q)] = b
        /\ \A i \in 1..Len(q) :
             /\ Concerns(q[i], u) => Apt(W[i - 1], q[i]) /\ W[i] = Since(W[i - 1], q[i])
             /\ ~Concerns(q[i], u) => W[i] = W[i - 1]
        /\ \A i, j \in 0..Len(q) : i <= j => Older(W[i], W[j])

\* q says nothing of u, or it says m and no more.
Still(q, u) == \A i \in 1..Len(q) : ~Concerns(q[i], u)

Line(q, u, m) ==
    \E k \in 1..Len(q) :
        /\ q[k] = m /\ Concerns(m, u)
        /\ \A i \in 1..Len(q) : i # k => ~Concerns(q[i], u)

\* What one may have been told of a user.
LEMMA HearsayFacts ==
    /\ Nothing \in Hearsay /\ Nothing.nick = NoNick /\ Nothing.ts = -1
    /\ \A h \in Hearsay : /\ h.ts \in Int /\ (h.ts = -1 \/ h.ts \in Nat) /\ h.nick \in Name \cup {NoNick}
                          /\ h.nick # NoNick => h.ts >= 0
                          /\ h = [nick |-> h.nick, ts |-> h.ts]
    /\ \A n \in Name, ts \in Nat : [nick |-> n, ts |-> ts] \in Hearsay
    /\ \A n \in Nick : n # NoNick /\ n \in Name
    /\ \A u \in User : u # NoNick /\ u \in Name /\ u \notin Nick
  <1>1. NoNick \notin Name
    BY NameAssumption DEF Name
  <1>2. \A n \in Name, ts \in Nat : [nick |-> n, ts |-> ts] \in Hearsay
    BY DEF Hearsay
  <1>3. Nothing \in Hearsay
    BY DEF Hearsay, Nothing
  <1>4. ASSUME NEW h \in Hearsay
        PROVE /\ h.ts \in Int /\ (h.ts = -1 \/ h.ts \in Nat) /\ h.nick \in Name \cup {NoNick}
              /\ h.nick # NoNick => h.ts >= 0
              /\ h = [nick |-> h.nick, ts |-> h.ts]
    BY <1>4 DEF Hearsay
  <1>5. \A u \in User : u # NoNick /\ u \in Name /\ u \notin Nick
    BY NameAssumption, UserAssumption DEF Name
  <1>6. \A n \in Nick : n # NoNick /\ n \in Name
    BY NameAssumption DEF Name
  <1> QED BY <1>2, <1>3, <1>4, <1>5, <1>6 DEF Nothing

\* What one is told later is not earlier than what one was told before.
LEMMA OlderFacts ==
    /\ \A h \in Hearsay : Older(h, h)
    /\ \A g, h, k \in Hearsay : Older(g, h) /\ Older(h, k) => Older(g, k)
  <1>1. \A h \in Hearsay : h.ts \in Int
    BY HearsayFacts
  <1> QED BY <1>1 DEF Older

\* The fields of a line that tells of a user.
LEMMA ConcernFacts ==
    ASSUME NEW m \in Message, NEW u, Concerns(m, u)
    PROVE  /\ u \in User /\ m.u = u
           /\ m.type \in {"UID", "NICK", "SAVE", "QUIT", "KILL"}
           /\ m.type \in {"UID", "NICK"} => m.nick \in NameFor(u) /\ m.nick \in Name /\ m.ts \in Nat
           /\ m.type = "SAVE" => m.ts \in Nat
  <1>1. m.u = u /\ m.type \in {"UID", "NICK", "SAVE", "QUIT", "KILL"}
    BY DEF Concerns
  <1>2. /\ m.type \in {"UID", "NICK"} => m.u \in User /\ m.nick \in NameFor(m.u) /\ m.ts \in Nat
        /\ m.type = "SAVE" => m.u \in User /\ m.ts \in Nat
        /\ m.type = "QUIT" => m.u \in User
        /\ m.type = "KILL" => m.u \in User
    BY ReadMessages
  <1>3. u \in User
    BY <1>1, <1>2
  <1>4. NameFor(u) \subseteq Name
    BY <1>3, NameFacts
  <1> QED BY <1>1, <1>2, <1>3, <1>4

\* A line that makes sense is not earlier than what its reader has been told.
LEMMA UpdateFacts ==
    ASSUME NEW m \in Message, NEW u, Concerns(m, u), NEW h \in Hearsay, Apt(h, m)
    PROVE  Since(h, m) \in Hearsay /\ Older(h, Since(h, m))
  <1>1. /\ u \in User /\ m.u = u
        /\ m.type \in {"UID", "NICK", "SAVE", "QUIT", "KILL"}
        /\ m.type \in {"UID", "NICK"} => m.nick \in NameFor(u) /\ m.nick \in Name /\ m.ts \in Nat
        /\ m.type = "SAVE" => m.ts \in Nat
    BY ConcernFacts
  <1>2. /\ h.ts \in Int /\ (h.ts = -1 \/ h.ts \in Nat) /\ h.nick \in Name \cup {NoNick}
        /\ h.nick # NoNick => h.ts >= 0
        /\ NoNick \notin Nick /\ u \notin Nick /\ u \in Name
    BY <1>1, HearsayFacts
  <1>3. CASE m.type = "UID"
    <2>1. h.ts = -1
      BY <1>3 DEF Apt
    <2>2. PICK k : k = IF m.nick \in Nick THEN m.ts ELSE 0
      OBVIOUS
    <2>3. Since(h, m) = [nick |-> m.nick, ts |-> k] /\ k \in Nat
      BY <1>1, <1>3, <2>2 DEF Since
    <2> QED BY <1>1, <1>3, <2>1, <2>3, HearsayFacts DEF Older
  <1>4. CASE m.type = "NICK" /\ m.nick \in Nick
    <2>1. Since(h, m) = [nick |-> m.nick, ts |-> m.ts]
      BY <1>4 DEF Since
    <2>2. h.ts <= m.ts /\ (CollisionFnc => h.ts < m.ts)
      BY <1>4 DEF Apt
    <2> QED BY <1>1, <1>2, <1>4, <2>1, <2>2, HearsayFacts DEF Older
  <1>5. CASE m.type = "NICK" /\ m.nick \notin Nick
    <2>1. Since(h, m) = [nick |-> m.nick, ts |-> h.ts] /\ h.ts \in Nat
      BY <1>2, <1>5 DEF Since, Apt
    <2> QED BY <1>1, <1>2, <1>5, <2>1, HearsayFacts DEF Older
  <1>6. CASE m.type = "SAVE"
    <2>1. Since(h, m) = [nick |-> u, ts |-> h.ts] /\ h.ts \in Nat
      BY <1>1, <1>2, <1>6 DEF Since, Apt
    <2> QED BY <1>1, <1>2, <1>6, <2>1, HearsayFacts DEF Older
  <1>7. CASE m.type \in {"QUIT", "KILL"}
    <2>1. Since(h, m) = [nick |-> NoNick, ts |-> h.ts] /\ h.ts \in Nat
      BY <1>2, <1>7 DEF Since, Apt
    <2>2. [nick |-> NoNick, ts |-> h.ts] \in Hearsay
      BY <2>1 DEF Hearsay
    <2> QED BY <1>2, <2>1, <2>2 DEF Older
  <1> QED BY <1>1, <1>3, <1>4, <1>5, <1>6, <1>7

\* What a queue makes of what its reader has been told is not earlier than that.
LEMMA CourseEnds ==
    ASSUME NEW q \in Seq(Message), NEW u, NEW a, NEW b, Course(q, u, a, b)
    PROVE  a \in Hearsay /\ b \in Hearsay /\ Older(a, b) /\ (q = <<>> => a = b)
  <1>1. PICK W \in [0..Len(q) -> Hearsay] :
          /\ W[0] = a /\ W[Len(q)] = b
          /\ \A i, j \in 0..Len(q) : i <= j => Older(W[i], W[j])
    BY DEF Course
  <1>2. Len(q) \in Nat /\ 0 \in 0..Len(q) /\ Len(q) \in 0..Len(q) /\ 0 <= Len(q)
    OBVIOUS
  <1> QED BY <1>1, <1>2

\* A queue that does not tell of u leaves its reader with what it has.
LEMMA CourseStill ==
    ASSUME NEW q \in Seq(Message), NEW u, Still(q, u), NEW c \in Hearsay
    PROVE  Course(q, u, c, c)
  <1>1. PICK W : W = [i \in 0..Len(q) |-> c]
    OBVIOUS
  <1>2. W \in [0..Len(q) -> Hearsay] /\ \A i \in 0..Len(q) : W[i] = c
    BY <1>1
  <1>3. Len(q) \in Nat /\ 0 \in 0..Len(q) /\ Len(q) \in 0..Len(q)
        /\ \A i \in 1..Len(q) : i \in 0..Len(q) /\ i - 1 \in 0..Len(q)
    OBVIOUS
  <1>4. W[0] = c /\ W[Len(q)] = c
    BY <1>2, <1>3
  <1>5. \A i \in 1..Len(q) :
             /\ Concerns(q[i], u) => Apt(W[i - 1], q[i]) /\ W[i] = Since(W[i - 1], q[i])
             /\ ~Concerns(q[i], u) => W[i] = W[i - 1]
    BY <1>2, <1>3 DEF Still
  <1>6. \A i, j \in 0..Len(q) : i <= j => Older(W[i], W[j])
    BY <1>2, OlderFacts
  <1> QED BY <1>2, <1>4, <1>5, <1>6 DEF Course

\* Once the first line has been read the others go on from there.
LEMMA CourseRead ==
    ASSUME NEW q \in Seq(Message), q # <<>>, NEW u, NEW a, NEW b, Course(q, u, a, b)
    PROVE  /\ ~Concerns(Head(q), u) => Course(Tail(q), u, a, b)
           /\ Concerns(Head(q), u) => Apt(a, Head(q)) /\ Course(Tail(q), u, Since(a, Head(q)), b)
  <1>1. PICK W \in [0..Len(q) -> Hearsay] :
          /\ W[0] = a /\ W[Len(q)] = b
          /\ \A i \in 1..Len(q) :
               /\ Concerns(q[i], u) => Apt(W[i - 1], q[i]) /\ W[i] = Since(W[i - 1], q[i])
               /\ ~Concerns(q[i], u) => W[i] = W[i - 1]
          /\ \A i, j \in 0..Len(q) : i <= j => Older(W[i], W[j])
    BY DEF Course
  <1>2. PICK p : p = Tail(q)
    OBVIOUS
  <1>3. PICK n \in Nat : Len(q) = n + 1 /\ Len(p) = n
    <2>1. Len(q) \in Nat \ {0} /\ Len(p) = Len(q) - 1
      BY <1>2
    <2> QED BY <2>1
  <1>4. \A i \in 1..n : p[i] = q[i + 1] /\ i + 1 \in 1..(n + 1) /\ (i + 1) - 1 = (i - 1) + 1
    BY <1>2, <1>3
  <1>5. Head(q) = q[1] /\ 1 \in 1..(n + 1)
    BY <1>3
  <1>6. PICK V : V = [i \in 0..n |-> W[i + 1]]
    OBVIOUS
  <1>7. \A i \in 0..n : V[i] = W[i + 1] /\ i + 1 \in 0..(n + 1)
    BY <1>6
  <1>8. V \in [0..n -> Hearsay]
    BY <1>1, <1>3, <1>6
  <1>9. V[0] = W[1] /\ V[n] = b
    BY <1>1, <1>3, <1>7
  <1>10. ASSUME NEW i \in 1..n
         PROVE  /\ Concerns(p[i], u) => Apt(V[i - 1], p[i]) /\ V[i] = Since(V[i - 1], p[i])
                /\ ~Concerns(p[i], u) => V[i] = V[i - 1]
    <2>1. i \in 0..n /\ i - 1 \in 0..n /\ (i + 1) - 1 = (i - 1) + 1
      OBVIOUS
    <2>2. V[i] = W[i + 1] /\ V[i - 1] = W[(i + 1) - 1]
      BY <1>7, <2>1
    <2> QED BY <1>1, <1>3, <1>4, <2>2
  <1>11. \A i, j \in 0..n : i <= j => Older(V[i], V[j])
    BY <1>1, <1>3, <1>7
  <1>12. Course(p, u, W[1], b)
    BY <1>3, <1>8, <1>9, <1>10, <1>11 DEF Course
  <1>13. /\ Concerns(q[1], u) => Apt(a, q[1]) /\ W[1] = Since(a, q[1])
         /\ ~Concerns(q[1], u) => W[1] = a
    BY <1>1, <1>3, <1>5
  <1> QED BY <1>2, <1>5, <1>12, <1>13

\* w, put behind a queue that ends with b, takes it to c.
Leads(w, u, b, c) ==
    \/ Still(w, u) /\ c = b
    \/ \E m : Line(w, u, m) /\ Apt(b, m) /\ c = Since(b, m)

\* What makes sense after a queue can be put behind it.
LEMMA CourseOn ==
    ASSUME NEW q \in Seq(Message), NEW w \in Seq(Message), NEW u, NEW a, NEW b, NEW c,
           Course(q, u, a, b), Leads(w, u, b, c)
    PROVE  Course(q \o w, u, a, c) /\ Older(b, c)
  <1>1. PICK W \in [0..Len(q) -> Hearsay] :
          /\ W[0] = a /\ W[Len(q)] = b
          /\ \A i \in 1..Len(q) :
               /\ Concerns(q[i], u) => Apt(W[i - 1], q[i]) /\ W[i] = Since(W[i - 1], q[i])
               /\ ~Concerns(q[i], u) => W[i] = W[i - 1]
          /\ \A i, j \in 0..Len(q) : i <= j => Older(W[i], W[j])
    BY DEF Course
  <1>2. PICK p : p = q \o w
    OBVIOUS
  <1>3. PICK n \in Nat, d \in Nat : n = Len(q) /\ d = Len(w)
    OBVIOUS
  <1>4. /\ Len(p) = n + d
        /\ \A i \in 1..n : p[i] = q[i]
        /\ \A i \in (n + 1)..(n + d) : p[i] = w[i - n] /\ i - n \in 1..d
    BY <1>2, <1>3
  <1>5. b \in Hearsay
    BY CourseEnds
  <1>6. PICK k \in Nat :
          /\ \A i \in 1..d : i # k => ~Concerns(w[i], u)
          /\ k \in 1..d /\ Concerns(w[k], u) => Apt(b, w[k]) /\ c = Since(b, w[k])
          /\ ~(k \in 1..d /\ Concerns(w[k], u)) => c = b
    <2>1. CASE Still(w, u) /\ c = b
      BY <1>3, <2>1 DEF Still
    <2>2. CASE ~(Still(w, u) /\ c = b)
      <3>1. PICK m : Line(w, u, m) /\ Apt(b, m) /\ c = Since(b, m)
        BY <2>2 DEF Leads
      <3>2. PICK k \in 1..d : /\ w[k] = m /\ Concerns(m, u)
                              /\ \A i \in 1..d : i # k => ~Concerns(w[i], u)
        BY <1>3, <3>1 DEF Line
      <3> QED BY <3>1, <3>2
    <2> QED BY <2>1, <2>2
  <1>7. c \in Hearsay /\ Older(b, c)
    <2>1. CASE k \in 1..d /\ Concerns(w[k], u)
      <3>1. w[k] \in Message
        BY <1>3, <2>1
      <3> QED BY <1>5, <1>6, <2>1, <3>1, UpdateFacts
    <2>2. CASE ~(k \in 1..d /\ Concerns(w[k], u))
      BY <1>5, <1>6, <2>2, OlderFacts
    <2> QED BY <2>1, <2>2
  <1>8. PICK V : V = [i \in 0..(n + d) |-> IF i <= n THEN W[i] ELSE IF i - n < k THEN b ELSE c]
    OBVIOUS
  <1>9. /\ \A i \in 0..n : V[i] = W[i] /\ i \in 0..(n + d)
        /\ \A i \in (n + 1)..(n + d) : V[i] = (IF i - n < k THEN b ELSE c) /\ i \in 0..(n + d)
    BY <1>8
  <1>10. \A i \in 0..(n + d) : i \in 0..n \/ i \in (n + 1)..(n + d)
    OBVIOUS
  <1>11. \A i \in 0..(n + d) : V[i] \in Hearsay
    BY <1>1, <1>3, <1>5, <1>7, <1>9, <1>10
  <1>12. V \in [0..(n + d) -> Hearsay]
    BY <1>8, <1>11
  <1>13. V[0] = a /\ V[n] = b
    BY <1>1, <1>3, <1>9
  <1>14. V[n + d] = c
    <2>1. CASE d = 0
      <3>1. ~(k \in 1..d)
        BY <2>1
      <3> QED BY <1>6, <1>13, <2>1, <3>1
    <2>2. CASE d # 0
      <3>1. n + d \in (n + 1)..(n + d) /\ (n + d) - n = d
        BY <2>2
      <3>2. V[n + d] = (IF d < k THEN b ELSE c)
        BY <1>9, <3>1
      <3>3. d < k => ~(k \in 1..d)
        OBVIOUS
      <3> QED BY <1>6, <3>2, <3>3
    <2> QED BY <2>1, <2>2
  <1>15. ASSUME NEW i \in 1..(n + d)
         PROVE  /\ Concerns(p[i], u) => Apt(V[i - 1], p[i]) /\ V[i] = Since(V[i - 1], p[i])
                /\ ~Concerns(p[i], u) => V[i] = V[i - 1]
    <2>1. CASE i \in 1..n
      <3>1. i \in 0..n /\ i - 1 \in 0..n
        BY <2>1
      <3> QED BY <1>1, <1>3, <1>4, <1>9, <2>1, <3>1
    <2>2. CASE i \in (n + 1)..(n + d)
      <3>1. PICK j \in 1..d : i = n + j /\ i - n = j /\ p[i] = w[j]
        BY <1>4, <2>2
      <3>2. V[i] = (IF j < k THEN b ELSE c)
        BY <1>9, <2>2, <3>1
      <3>3. V[i - 1] = (IF j - 1 < k \/ j = 1 THEN b ELSE c)
        <4>1. CASE j = 1
          <5>1. i - 1 = n
            BY <3>1, <4>1
          <5> QED BY <1>13, <4>1, <5>1
        <4>2. CASE j # 1
          <5>1. i - 1 \in (n + 1)..(n + d) /\ (i - 1) - n = j - 1
            BY <3>1, <4>2
          <5> QED BY <1>9, <4>2, <5>1
        <4> QED BY <4>1, <4>2
      <3>4. CASE j = k
        <4>1. V[i] = c /\ V[i - 1] = b
          BY <3>2, <3>3, <3>4
        <4> QED BY <1>6, <3>1, <3>4, <4>1
      <3>5. CASE j # k
        <4>1. ~Concerns(p[i], u)
          BY <1>6, <3>1, <3>5
        <4>2. CASE j < k
          BY <3>2, <3>3, <4>1, <4>2
        <4>3. CASE j > k
          <5>1. V[i] = c /\ (j # 1 \/ k # 0 => V[i - 1] = c)
            BY <3>2, <3>3, <4>3
          <5>2. k = 0 => c = b
            BY <1>6
          <5> QED BY <3>3, <4>1, <5>1, <5>2
        <4> QED BY <3>5, <4>2, <4>3
      <3> QED BY <3>4, <3>5
    <2> QED BY <2>1, <2>2
  <1>16. ASSUME NEW i \in 0..(n + d), NEW j \in 0..(n + d), i <= j PROVE Older(V[i], V[j])
    <2>1. ASSUME NEW x \in 0..n PROVE V[x] = W[x] /\ Older(W[x], b) /\ W[x] \in Hearsay
      <3>1. x \in 0..Len(q) /\ Len(q) \in 0..Len(q) /\ x <= Len(q)
        BY <1>3
      <3>2. Older(W[x], W[Len(q)])
        BY <1>1, <3>1
      <3> QED BY <1>1, <1>9, <3>1, <3>2
    <2>2. CASE j \in 0..n
      <3>1. i \in 0..n
        BY <2>2, <1>16
      <3> QED BY <1>1, <1>3, <1>9, <1>16, <2>2, <3>1
    <2>3. CASE j \in (n + 1)..(n + d) /\ i \in 0..n
      <3>1. V[j] = b \/ V[j] = c
        BY <1>9, <2>3
      <3> QED BY <1>5, <1>7, <2>1, <2>3, <3>1, OlderFacts
    <2>4. CASE j \in (n + 1)..(n + d) /\ i \in (n + 1)..(n + d)
      <3>1. V[j] = (IF j - n < k THEN b ELSE c) /\ V[i] = (IF i - n < k THEN b ELSE c)
        BY <1>9, <2>4
      <3>2. V[i] = V[j] \/ (V[i] = b /\ V[j] = c)
        BY <1>16, <3>1
      <3> QED BY <1>5, <1>7, <3>2, OlderFacts
    <2> QED BY <1>10, <2>2, <2>3, <2>4
  <1>17. Course(p, u, a, c)
    BY <1>4, <1>12, <1>13, <1>14, <1>15, <1>16 DEF Course
  <1> QED BY <1>2, <1>7, <1>17

\* A queue that has not made its reader any wiser says nothing.
LEMMA CourseCalm ==
    ASSUME CollisionFnc, NEW q \in Seq(Message), NEW u, NEW a, NEW b, Course(q, u, a, b),
           b.nick \in Nick, a.ts = b.ts
    PROVE  a = b /\ Still(q, u)
  <1>1. PICK W \in [0..Len(q) -> Hearsay] :
          /\ W[0] = a /\ W[Len(q)] = b
          /\ \A i \in 1..Len(q) :
               /\ Concerns(q[i], u) => Apt(W[i - 1], q[i]) /\ W[i] = Since(W[i - 1], q[i])
               /\ ~Concerns(q[i], u) => W[i] = W[i - 1]
          /\ \A i, j \in 0..Len(q) : i <= j => Older(W[i], W[j])
    BY DEF Course
  <1>2. Len(q) \in Nat
    OBVIOUS
  <1>3. ASSUME NEW i \in 0..Len(q) PROVE W[i] = b
    <2>1. Older(a, W[i]) /\ Older(W[i], b)
      BY <1>1, <1>2
    <2>2. W[i] \in Hearsay /\ a \in Hearsay /\ b \in Hearsay
      BY <1>1, <1>2
    <2>3. W[i].ts \in Int /\ a.ts \in Int /\ b.ts \in Int
      BY <2>2, HearsayFacts
    <2>4. W[i].ts = b.ts
      BY <2>1, <2>3 DEF Older
    <2> QED BY <2>1, <2>4 DEF Older
  <1>4. a = b
    BY <1>1, <1>2, <1>3
  <1>5. ASSUME NEW i \in 1..Len(q), Concerns(q[i], u) PROVE FALSE
    <2>1. i \in 0..Len(q) /\ i - 1 \in 0..Len(q)
      BY <1>2
    <2>2. W[i] = b /\ W[i - 1] = b
      BY <1>3, <2>1
    <2>3. Apt(b, q[i]) /\ b = Since(b, q[i])
      BY <1>1, <1>5, <2>2
    <2>4. /\ u \in User /\ q[i].u = u
          /\ q[i].type \in {"UID", "NICK", "SAVE", "QUIT", "KILL"}
          /\ q[i].type \in {"UID", "NICK"} => q[i].nick \in Name /\ q[i].ts \in Nat
      BY <1>5, ConcernFacts
    <2>5. /\ b.ts \in Int /\ b.nick # NoNick /\ b.ts >= 0 /\ u \notin Nick /\ NoNick \notin Nick
      <3>1. b \in Hearsay
        BY CourseEnds
      <3> QED BY <2>4, <3>1, HearsayFacts
    <2>6. CASE q[i].type = "UID"
      BY <2>3, <2>5, <2>6 DEF Apt
    <2>7. CASE q[i].type = "NICK"
      <3>1. b.nick = q[i].nick
        BY <2>3, <2>7 DEF Since
      <3> QED BY <2>3, <2>7, <3>1 DEF Apt
    <2>8. CASE q[i].type = "SAVE"
      <3>1. b.nick = u
        BY <2>3, <2>4, <2>8 DEF Since
      <3> QED BY <2>5, <3>1
    <2>9. CASE q[i].type \in {"QUIT", "KILL"}
      <3>1. b.nick = NoNick
        BY <2>3, <2>9 DEF Since
      <3> QED BY <2>5, <3>1
    <2> QED BY <2>4, <2>6, <2>7, <2>8, <2>9
  <1> QED BY <1>4, <1>5 DEF Still

-----------------------------------------------------------------------------
(* The two ends of a link, and a user of one side.  At the user's end the  *)
(* entry is e, and the queue to the other end is D; at the other end the   *)
(* entry is f, the queue back is U, and a is what that end has been told.  *)

Like(e, h) == IsPerson(e) /\ e.nick = h.nick /\ (e.nick \in Nick => e.ts = h.ts)

Killing(q, u) == \E m \in ToSet(q) : m.type = "KILL" /\ m.u = u

Saving(q, u, ts) == \E m \in ToSet(q) : m.type = "SAVE" /\ m.u = u /\ m.ts = ts

\* What comes back about u is a KILL or a SAVE.
Answers(q, u) == \A m \in ToSet(q) : Concerns(m, u) => m.type \in {"SAVE", "KILL"}

\* The other end has what it has been told, or has refused it.
Accepts(u, f, a) ==
    \/ f = Absent
    \/ Like(f, a)
    \/ CollisionFnc /\ IsPerson(f) /\ f.nick = u /\ a.nick \in Nick

\* The user's end has told what it has; only a KILL from the other end is not told back.
Tells(e, b, f, a) ==
    \/ ~IsPerson(e) /\ (b.nick # NoNick => f = Absent /\ a.ts >= 0)
    \/ Like(e, b)

\* What the other end has refused it has answered with a KILL or a SAVE, and such an
\* answer is for what it has refused.
Replies(u, e, f, U, a, b) ==
    /\ Answers(U, u)
    /\ f = Absent /\ a.nick # NoNick /\ IsPerson(e) => Killing(U, u)
    /\ Killing(U, u) => f = Absent /\ a.ts >= 0
    /\ IsPerson(f) /\ f.nick = u /\ a.nick \in Nick /\ a = b /\ IsPerson(e) => Saving(U, u, a.ts)
    /\ \A ts : Saving(U, u, ts) =>
         /\ CollisionFnc /\ ts \in Nat /\ ts <= a.ts
         /\ ts = a.ts /\ a.nick \in Nick => f = Absent \/ f.nick = u

Abreast(u, e, f, D, U, a, ts) ==
    \E b \in Hearsay :
        /\ Course(D, u, a, b) /\ b.ts <= ts
        /\ Accepts(u, f, a)
        /\ Tells(e, b, f, a)
        /\ Replies(u, e, f, U, a, b)

\* An entry for u.
EntryFor(u) == {e \in Entry : e = Absent \/ e.nick \in NameFor(u)}

\* What is in a queue that goes on with w, and in one whose head is read.
LEMMA QueueFacts ==
    ASSUME NEW q \in Seq(Message), NEW w \in Seq(Message)
    PROVE  /\ ToSet(q \o w) = ToSet(q) \cup ToSet(w)
           /\ ToSet(q) \subseteq Message
           /\ q # <<>> => Head(q) \in Message /\ Tail(q) \in Seq(Message)
                          /\ ToSet(q) = {Head(q)} \cup ToSet(Tail(q))
  <1>1. DOMAIN q = 1..Len(q) /\ DOMAIN w = 1..Len(w) /\ Len(q) \in Nat /\ Len(w) \in Nat
    OBVIOUS
  <1>2. /\ DOMAIN (q \o w) = 1..(Len(q) + Len(w))
        /\ \A i \in 1..Len(q) : (q \o w)[i] = q[i]
        /\ \A i \in (Len(q) + 1)..(Len(q) + Len(w)) : (q \o w)[i] = w[i - Len(q)]
    OBVIOUS
  <1>3. ToSet(q \o w) \subseteq ToSet(q) \cup ToSet(w)
    <2> SUFFICES ASSUME NEW i \in DOMAIN (q \o w)
                 PROVE  (q \o w)[i] \in ToSet(q) \cup ToSet(w)
      BY DEF ToSet
    <2>1. CASE i <= Len(q)
      <3>1. i \in 1..Len(q)
        BY <1>1, <1>2, <2>1
      <3> QED BY <1>1, <1>2, <3>1 DEF ToSet
    <2>2. CASE i > Len(q)
      <3>1. i \in (Len(q) + 1)..(Len(q) + Len(w)) /\ i - Len(q) \in 1..Len(w)
        BY <1>1, <1>2, <2>2
      <3> QED BY <1>1, <1>2, <3>1 DEF ToSet
    <2> QED BY <1>1, <1>2, <2>1, <2>2
  <1>4. ToSet(q) \subseteq ToSet(q \o w)
    <2> SUFFICES ASSUME NEW i \in DOMAIN q PROVE q[i] \in ToSet(q \o w)
      BY DEF ToSet
    <2>1. i \in DOMAIN (q \o w) /\ (q \o w)[i] = q[i]
      BY <1>1, <1>2
    <2> QED BY <2>1 DEF ToSet
  <1>5. ToSet(w) \subseteq ToSet(q \o w)
    <2> SUFFICES ASSUME NEW i \in DOMAIN w PROVE w[i] \in ToSet(q \o w)
      BY DEF ToSet
    <2>1. PICK j : j = i + Len(q)
      OBVIOUS
    <2>2. j \in DOMAIN (q \o w) /\ j \in (Len(q) + 1)..(Len(q) + Len(w)) /\ j - Len(q) = i
      BY <1>1, <1>2, <2>1
    <2>3. (q \o w)[j] = w[i]
      BY <1>2, <2>2
    <2> QED BY <2>2, <2>3 DEF ToSet
  <1>6. ToSet(q) \subseteq Message
    BY <1>1 DEF ToSet
  <1>7. ASSUME q # <<>>
        PROVE  Head(q) \in Message /\ Tail(q) \in Seq(Message) /\ ToSet(q) = {Head(q)} \cup ToSet(Tail(q))
    <2>1. /\ Head(q) = q[1] /\ 1 \in DOMAIN q /\ Tail(q) \in Seq(Message)
          /\ DOMAIN Tail(q) = 1..(Len(q) - 1) /\ \A i \in 1..(Len(q) - 1) : Tail(q)[i] = q[i + 1]
      BY <1>7
    <2>2. ToSet(Tail(q)) \subseteq ToSet(q)
      <3> SUFFICES ASSUME NEW i \in DOMAIN Tail(q) PROVE Tail(q)[i] \in ToSet(q)
        BY DEF ToSet
      <3>1. i + 1 \in DOMAIN q /\ Tail(q)[i] = q[i + 1]
        BY <1>1, <2>1
      <3> QED BY <3>1 DEF ToSet
    <2>3. ToSet(q) \subseteq {Head(q)} \cup ToSet(Tail(q))
      <3> SUFFICES ASSUME NEW i \in DOMAIN q, i # 1 PROVE q[i] \in ToSet(Tail(q))
        BY <2>1 DEF ToSet
      <3>1. PICK j : j = i - 1
        OBVIOUS
      <3>2. j \in DOMAIN Tail(q) /\ j \in 1..(Len(q) - 1) /\ j + 1 = i
        BY <1>1, <2>1, <3>1
      <3>3. Tail(q)[j] = q[i]
        BY <2>1, <3>2
      <3> QED BY <3>2, <3>3 DEF ToSet
    <2>4. Head(q) \in ToSet(q) /\ Head(q) \in Message
      BY <1>1, <2>1 DEF ToSet
    <2> QED BY <2>1, <2>2, <2>3, <2>4
  <1> QED BY <1>3, <1>4, <1>5, <1>6, <1>7

\* A queue that says nothing of u, or one line, by what is in it.
LEMMA LineFacts ==
    ASSUME NEW q \in Seq(Message), NEW u
    PROVE  /\ Still(q, u) <=> \A m \in ToSet(q) : ~Concerns(m, u)
           /\ \A m : Line(q, u, m) => /\ m \in Message /\ m \in ToSet(q) /\ Concerns(m, u) /\ u \in User
                                      /\ \A k \in ToSet(q) : Concerns(k, u) => k = m
  <1>1. DOMAIN q = 1..Len(q)
    OBVIOUS
  <1>2. Still(q, u) <=> \A m \in ToSet(q) : ~Concerns(m, u)
    BY <1>1 DEF Still, ToSet
  <1>3. ASSUME NEW m, Line(q, u, m)
        PROVE  /\ m \in Message /\ m \in ToSet(q) /\ Concerns(m, u) /\ u \in User
               /\ \A k \in ToSet(q) : Concerns(k, u) => k = m
    <2>1. PICK i \in 1..Len(q) : /\ q[i] = m /\ Concerns(m, u)
                                 /\ \A j \in 1..Len(q) : j # i => ~Concerns(q[j], u)
      BY <1>3 DEF Line
    <2>2. m \in Message /\ m \in ToSet(q)
      BY <1>1, <2>1 DEF ToSet
    <2>3. \A k \in ToSet(q) : Concerns(k, u) => k = m
      BY <1>1, <2>1 DEF ToSet
    <2>4. u \in User
      BY <2>1, <2>2, ConcernFacts
    <2> QED BY <2>1, <2>2, <2>3, <2>4
  <1> QED BY <1>2, <1>3

\* What a queue says back, once w has been put behind it, and once its head is read.
LEMMA RepliesOn ==
    ASSUME NEW q \in Seq(Message), NEW w \in Seq(Message), NEW u
    PROVE  /\ Killing(q \o w, u) <=> Killing(q, u) \/ Killing(w, u)
           /\ \A ts : Saving(q \o w, u, ts) <=> Saving(q, u, ts) \/ Saving(w, u, ts)
           /\ Answers(q \o w, u) <=> Answers(q, u) /\ Answers(w, u)
  BY QueueFacts DEF Killing, Saving, Answers

\* What a queue says back, by its first line and the others.
LEMMA RepliesRead ==
    ASSUME NEW q \in Seq(Message), q # <<>>, NEW u
    PROVE  /\ Killing(q, u) <=> Killing(Tail(q), u) \/ (Head(q).type = "KILL" /\ Head(q).u = u)
           /\ \A ts : Saving(q, u, ts) <=>
                 Saving(Tail(q), u, ts) \/ (Head(q).type = "SAVE" /\ Head(q).u = u /\ Head(q).ts = ts)
           /\ Answers(q, u) => Answers(Tail(q), u) /\ (Concerns(Head(q), u) => Head(q).type \in {"SAVE", "KILL"})
  BY QueueFacts DEF Killing, Saving, Answers

\* Lines that are not about u say nothing back about it.
LEMMA RepliesStill ==
    ASSUME NEW w \in Seq(Message), NEW u, Still(w, u)
    PROVE  ~Killing(w, u) /\ (\A ts : ~Saving(w, u, ts)) /\ Answers(w, u)
  BY LineFacts DEF Killing, Saving, Answers, Concerns

\* A single KILL or SAVE says that back, and no more.
LEMMA RepliesLine ==
    ASSUME NEW w \in Seq(Message), NEW u, NEW m, Line(w, u, m)
    PROVE  /\ m.type = "KILL" => Killing(w, u) /\ (\A ts : ~Saving(w, u, ts)) /\ Answers(w, u)
           /\ m.type = "SAVE" => /\ ~Killing(w, u) /\ Answers(w, u) /\ Saving(w, u, m.ts)
                                 /\ (\A ts : Saving(w, u, ts) => ts = m.ts)
  <1>1. /\ m \in ToSet(w) /\ Concerns(m, u) /\ m.u = u
        /\ \A k \in ToSet(w) : Concerns(k, u) => k = m
    BY LineFacts DEF Concerns
  <1>2. \A k \in ToSet(w) : k.type \in {"KILL", "SAVE"} /\ k.u = u => k = m
    BY <1>1 DEF Concerns
  <1>3. Killing(w, u) <=> m.type = "KILL"
    BY <1>1, <1>2 DEF Killing
  <1>4. \A ts : Saving(w, u, ts) <=> m.type = "SAVE" /\ m.ts = ts
    BY <1>1, <1>2 DEF Saving
  <1>5. m.type \in {"SAVE", "KILL"} => Answers(w, u)
    BY <1>1 DEF Answers
  <1> QED BY <1>3, <1>4, <1>5

\* The user's end goes from e to e2 and tells the other end of it, if it is told:
\* ts and ts2 are the time of what it has been told itself.
Gives(u, e, e2, ts, ts2, w) ==
    /\ ts <= ts2
    /\ \/ Still(w, u) /\ (e2 = e \/ (~IsPerson(e) /\ ~IsPerson(e2)))
       \/ \E m : Line(w, u, m) /\
            \/ /\ m.type = "UID" /\ ts = -1 /\ 0 <= ts2 /\ ~IsPerson(e) /\ IsPerson(e2)
               /\ e2.nick = m.nick /\ (m.nick \in Nick => e2.ts = m.ts /\ m.ts <= ts2)
            \/ /\ m.type = "NICK" /\ IsPerson(e) /\ IsPerson(e2) /\ e2.nick = m.nick
               /\ m.nick \in Nick => /\ m.nick # e.nick /\ e2.ts = m.ts
                                     /\ ts <= m.ts /\ (CollisionFnc => ts < m.ts) /\ m.ts <= ts2
            \/ /\ m.type = "SAVE" /\ IsPerson(e) /\ e.nick \in Nick /\ m.ts = e.ts
               /\ IsPerson(e2) /\ e2.nick = u
            \/ m.type \in {"QUIT", "KILL"} /\ IsPerson(e) /\ ~IsPerson(e2)

\* A person has a nick of its own: one it has asked for, or its UID.
LEMMA PersonNamed ==
    ASSUME NEW u \in User, NEW e \in EntryFor(u), IsPerson(e)
    PROVE  e.nick \in NameFor(u) /\ e.nick # NoNick /\ (e.nick \notin Nick => e.nick = u) /\ e.ts \in Nat
           /\ e # Absent
  <1>1. e # Absent
    BY DEF IsPerson, Absent
  <1>2. e.nick \in NameFor(u) /\ e.ts \in Nat
    BY <1>1 DEF EntryFor, Entry
  <1> QED BY <1>1, <1>2, NameFacts DEF NameFor

\* What is given makes sense to the other end, and leaves it with what there is.
LEMMA GivesLeads ==
    ASSUME NEW u \in User, NEW e \in EntryFor(u), NEW e2 \in EntryFor(u), NEW ts \in Int, NEW ts2 \in Int,
           NEW w \in Seq(Message), Gives(u, e, e2, ts, ts2, w),
           NEW a \in Hearsay, NEW b \in Hearsay, b.ts <= ts, NEW f, Tells(e, b, f, a)
    PROVE  \E c \in Hearsay :
              /\ Leads(w, u, b, c) /\ c.ts <= ts2 /\ Tells(e2, c, f, a)
              /\ \/ c = b /\ (IsPerson(e2) => IsPerson(e))
                 \/ b.ts = -1 /\ ~IsPerson(e)
                 \/ IsPerson(e) /\ (c.nick \in Nick => b.ts <= c.ts /\ (CollisionFnc => b.ts < c.ts))
  <1>1. b.ts \in Int /\ (b.nick # NoNick => b.ts >= 0) /\ u \notin Nick /\ u # NoNick /\ NoNick \notin Nick
        /\ b.ts \in Nat \cup {-1}
    BY HearsayFacts
  <1>2. CASE Still(w, u) /\ (e2 = e \/ (~IsPerson(e) /\ ~IsPerson(e2)))
    <2>1. Leads(w, u, b, b) /\ b.ts <= ts2
      BY <1>1, <1>2 DEF Leads, Gives
    <2>2. Tells(e2, b, f, a) /\ (IsPerson(e2) => IsPerson(e))
      BY <1>2 DEF Tells, Like
    <2> QED BY <2>1, <2>2
  <1>3. CASE ~(Still(w, u) /\ (e2 = e \/ (~IsPerson(e) /\ ~IsPerson(e2))))
    <2>1. PICK m : Line(w, u, m) /\
            \/ /\ m.type = "UID" /\ ts = -1 /\ 0 <= ts2 /\ ~IsPerson(e) /\ IsPerson(e2)
               /\ e2.nick = m.nick /\ (m.nick \in Nick => e2.ts = m.ts /\ m.ts <= ts2)
            \/ /\ m.type = "NICK" /\ IsPerson(e) /\ IsPerson(e2) /\ e2.nick = m.nick
               /\ m.nick \in Nick => /\ m.nick # e.nick /\ e2.ts = m.ts
                                     /\ ts <= m.ts /\ (CollisionFnc => ts < m.ts) /\ m.ts <= ts2
            \/ /\ m.type = "SAVE" /\ IsPerson(e) /\ e.nick \in Nick /\ m.ts = e.ts
               /\ IsPerson(e2) /\ e2.nick = u
            \/ m.type \in {"QUIT", "KILL"} /\ IsPerson(e) /\ ~IsPerson(e2)
      BY <1>3 DEF Gives
    <2>2. m \in Message /\ Concerns(m, u) /\ m.u = u
      BY <2>1, LineFacts DEF Concerns
    <2>3. m.type \in {"UID", "NICK"} => m.ts \in Nat /\ m.nick \in Name
      BY <2>2, ConcernFacts
    <2>4. IsPerson(e) => e.nick = b.nick /\ (e.nick \in Nick => e.ts = b.ts) /\ b.nick # NoNick
      <3>1. IsPerson(e) => Like(e, b)
        BY DEF Tells
      <3> QED BY <3>1, PersonNamed DEF Like
    <2>5. PICK c : c = Since(b, m)
      OBVIOUS
    <2>6. Apt(b, m) => c \in Hearsay /\ Leads(w, u, b, c)
      BY <2>1, <2>2, <2>5, UpdateFacts DEF Leads
    <2>7. CASE m.type = "UID"
      <3>1. b.ts = -1
        BY <1>1, <2>1, <2>7
      <3>2. Apt(b, m)
        BY <2>7, <3>1 DEF Apt
      <3>3. c.nick = m.nick /\ c.ts = IF m.nick \in Nick THEN m.ts ELSE 0
        BY <2>5, <2>7 DEF Since
      <3>4. c.ts <= ts2
        BY <2>1, <2>7, <3>3
      <3>5. Like(e2, c) /\ ~IsPerson(e)
        BY <2>1, <2>7, <3>3 DEF Like
      <3> QED BY <2>6, <3>1, <3>2, <3>4, <3>5 DEF Tells
    <2>8. CASE m.type = "NICK" /\ m.nick \in Nick
      <3>1. Apt(b, m) /\ b.ts <= m.ts /\ (CollisionFnc => b.ts < m.ts)
        BY <1>1, <2>1, <2>3, <2>4, <2>8 DEF Apt
      <3>2. c.nick = m.nick /\ c.ts = m.ts
        BY <2>5, <2>8 DEF Since
      <3>3. Like(e2, c)
        BY <2>1, <2>8, <3>2 DEF Like
      <3>4. c.ts <= ts2 /\ IsPerson(e)
        BY <2>1, <2>8, <3>2
      <3> QED BY <2>6, <3>1, <3>2, <3>3, <3>4 DEF Tells
    <2>9. CASE m.type = "NICK" /\ m.nick \notin Nick
      <3>1. Apt(b, m)
        BY <2>1, <2>4, <2>9 DEF Apt
      <3>2. c.nick = m.nick /\ c.ts = b.ts
        BY <2>5, <2>9 DEF Since
      <3>3. Like(e2, c) /\ c.nick \notin Nick
        BY <2>1, <2>9, <3>2 DEF Like
      <3>4. c.ts <= ts2 /\ IsPerson(e)
        BY <1>1, <2>1, <2>9, <3>2 DEF Gives
      <3> QED BY <2>6, <3>1, <3>3, <3>4 DEF Tells
    <2>10. CASE m.type = "SAVE"
      <3>1. Apt(b, m)
        BY <2>1, <2>4, <2>10 DEF Apt
      <3>2. c.nick = u /\ c.ts = b.ts
        BY <2>2, <2>5, <2>10 DEF Since
      <3>3. Like(e2, c) /\ c.nick \notin Nick
        BY <1>1, <2>1, <2>10, <3>2 DEF Like
      <3>4. c.ts <= ts2 /\ IsPerson(e)
        BY <1>1, <2>1, <2>10, <3>2 DEF Gives
      <3> QED BY <2>6, <3>1, <3>3, <3>4 DEF Tells
    <2>11. CASE m.type \in {"QUIT", "KILL"}
      <3>1. Apt(b, m)
        BY <2>1, <2>4, <2>11 DEF Apt
      <3>2. c.nick = NoNick /\ c.ts = b.ts
        BY <2>5, <2>11 DEF Since
      <3>3. ~IsPerson(e2) /\ c.nick \notin Nick
        BY <1>1, <2>1, <2>11, <3>2
      <3>4. c.ts <= ts2 /\ IsPerson(e)
        BY <1>1, <2>1, <2>11, <3>2 DEF Gives
      <3> QED BY <2>6, <3>1, <3>2, <3>3, <3>4 DEF Tells
    <2> QED BY <2>1, <2>7, <2>8, <2>9, <2>10, <2>11
  <1> QED BY <1>2, <1>3

\* The user's end tells the other end what has come of the user.
LEMMA AbreastOut ==
    ASSUME NEW u \in User, NEW e \in EntryFor(u), NEW e2 \in EntryFor(u), NEW ts \in Int, NEW ts2 \in Int,
           NEW w \in Seq(Message), Gives(u, e, e2, ts, ts2, w),
           NEW D \in Seq(Message), NEW U, NEW a, NEW f \in EntryFor(u), Abreast(u, e, f, D, U, a, ts)
    PROVE  Abreast(u, e2, f, D \o w, U, a, ts2)
  <1>1. PICK b \in Hearsay :
           /\ Course(D, u, a, b) /\ b.ts <= ts
           /\ Accepts(u, f, a)
           /\ Tells(e, b, f, a)
           /\ Replies(u, e, f, U, a, b)
    BY DEF Abreast
  <1>2. a \in Hearsay /\ Older(a, b)
    BY <1>1, CourseEnds
  <1>3. PICK c \in Hearsay :
              /\ Leads(w, u, b, c) /\ c.ts <= ts2 /\ Tells(e2, c, f, a)
              /\ \/ c = b /\ (IsPerson(e2) => IsPerson(e))
                 \/ b.ts = -1 /\ ~IsPerson(e)
                 \/ IsPerson(e) /\ (c.nick \in Nick => b.ts <= c.ts /\ (CollisionFnc => b.ts < c.ts))
    BY <1>1, <1>2, GivesLeads
  <1>4. Course(D \o w, u, a, c)
    BY <1>1, <1>3, CourseOn
  <1>5. /\ a.ts \in Int /\ b.ts \in Int /\ c.ts \in Int /\ (a.nick # NoNick => a.ts >= 0) /\ NoNick \notin Nick
        /\ a.ts <= b.ts /\ u \notin Nick
    BY <1>2, HearsayFacts DEF Older
  <1>6. a.nick # NoNick /\ IsPerson(e2) => IsPerson(e)
    BY <1>3, <1>5
  <1>7. IsPerson(f) /\ f.nick = u /\ a.nick \in Nick /\ a = c /\ IsPerson(e2) => a = b
    <2> SUFFICES ASSUME IsPerson(f), f.nick = u, a.nick \in Nick, a = c, IsPerson(e2) PROVE a = b
      OBVIOUS
    <2>1. CollisionFnc
      <3>1. f # Absent
        BY PersonNamed
      <3>2. ~Like(f, a)
        BY <1>5 DEF Like
      <3> QED BY <1>1, <3>1, <3>2 DEF Accepts
    <2> QED BY <1>3, <1>5, <1>6, <2>1
  <1>8. IsPerson(f) /\ f.nick = u /\ a.nick \in Nick /\ a = c /\ IsPerson(e2) => Saving(U, u, a.ts)
    <2>1. a.nick \in Nick => a.nick # NoNick
      BY <1>5
    <2> QED BY <1>1, <1>6, <1>7, <2>1 DEF Replies
  <1>9. /\ Answers(U, u)
        /\ f = Absent /\ a.nick # NoNick /\ IsPerson(e2) => Killing(U, u)
        /\ Killing(U, u) => f = Absent /\ a.ts >= 0
    BY <1>1, <1>6 DEF Replies
  <1>10. \A t : Saving(U, u, t) =>
         /\ CollisionFnc /\ t \in Nat /\ t <= a.ts
         /\ t = a.ts /\ a.nick \in Nick => f = Absent \/ f.nick = u
    BY <1>1 DEF Replies
  <1>11. Replies(u, e2, f, U, a, c)
    BY <1>8, <1>9, <1>10 DEF Replies
  <1> QED BY <1>1, <1>3, <1>4, <1>11 DEF Abreast

-----------------------------------------------------------------------------
(* The other end, from f to f2, sends w back.                              *)

\* It is not told anything of u: it keeps what it has, or takes it for a collision.
Minds(u, f, f2, w) ==
    \/ Still(w, u) /\ f2 = f
    \/ /\ CollisionFnc /\ IsPerson(f) /\ f.nick \in Nick /\ IsPerson(f2) /\ f2.nick = u
       /\ \E k : Line(w, u, k) /\ k.type = "SAVE" /\ k.ts = f.ts
    \/ IsPerson(f) /\ f2 = Absent /\ \E k : Line(w, u, k) /\ k.type = "KILL"

\* It is told m of u: it takes it, refuses it, or gives u the nick that is its UID.
Marks(u, m, f, f2, w) ==
    \/ f2 = Absent /\ \/ m.type \in {"QUIT", "KILL"} /\ Still(w, u)
                      \/ \E k : Line(w, u, k) /\ k.type = "KILL"
                      \/ f = Absent /\ m.type = "SAVE" /\ Still(w, u)
    \/ /\ m.type \in {"UID", "NICK"} /\ (m.type = "NICK" => IsPerson(f))
       /\ IsPerson(f2)
       /\ \/ Still(w, u) /\ f2.nick = m.nick /\ f2.ts = m.ts
          \/ Still(w, u) /\ m.type = "NICK" /\ f2 = f /\ f.nick = m.nick
          \/ /\ CollisionFnc /\ m.nick \in Nick /\ f2.nick = u
             /\ \E k : Line(w, u, k) /\ k.type = "SAVE" /\ k.ts = m.ts
    \/ /\ m.type = "SAVE" /\ Still(w, u)
       /\ \/ IsPerson(f) /\ IsPerson(f2) /\ f2.nick = u
          \/ f2 = f /\ ~(IsPerson(f) /\ f.nick \in Nick /\ f.ts = m.ts)

\* A queue that may go on with w.
LEMMA RepliesAfter ==
    ASSUME NEW U \in Seq(Message), NEW w \in Seq(Message), NEW u
    PROVE  /\ Still(w, u) => /\ Killing(U \o w, u) <=> Killing(U, u)
                             /\ \A ts : Saving(U \o w, u, ts) <=> Saving(U, u, ts)
                             /\ Answers(U \o w, u) <=> Answers(U, u)
           /\ \A k : Line(w, u, k) /\ k.type = "KILL" =>
                             /\ Killing(U \o w, u)
                             /\ \A ts : Saving(U \o w, u, ts) <=> Saving(U, u, ts)
                             /\ Answers(U \o w, u) <=> Answers(U, u)
           /\ \A k : Line(w, u, k) /\ k.type = "SAVE" =>
                             /\ Killing(U \o w, u) <=> Killing(U, u)
                             /\ \A ts : Saving(U \o w, u, ts) <=> Saving(U, u, ts) \/ ts = k.ts
                             /\ Answers(U \o w, u) <=> Answers(U, u)
  <1>1. /\ Killing(U \o w, u) <=> Killing(U, u) \/ Killing(w, u)
        /\ \A ts : Saving(U \o w, u, ts) <=> Saving(U, u, ts) \/ Saving(w, u, ts)
        /\ Answers(U \o w, u) <=> Answers(U, u) /\ Answers(w, u)
    BY RepliesOn
  <1>2. Still(w, u) => ~Killing(w, u) /\ (\A ts : ~Saving(w, u, ts)) /\ Answers(w, u)
    BY RepliesStill
  <1>3. \A k : Line(w, u, k) =>
          /\ k.type = "KILL" => Killing(w, u) /\ (\A ts : ~Saving(w, u, ts)) /\ Answers(w, u)
          /\ k.type = "SAVE" => /\ ~Killing(w, u) /\ Answers(w, u) /\ Saving(w, u, k.ts)
                                /\ (\A ts : Saving(w, u, ts) => ts = k.ts)
    BY RepliesLine
  <1>4. \A k : Line(w, u, k) /\ k.type = "KILL" =>
                             /\ Killing(U \o w, u)
                             /\ \A ts : Saving(U \o w, u, ts) <=> Saving(U, u, ts)
                             /\ Answers(U \o w, u) <=> Answers(U, u)
    BY <1>1, <1>3
  <1>5. \A k : Line(w, u, k) /\ k.type = "SAVE" =>
                             /\ Killing(U \o w, u) <=> Killing(U, u)
                             /\ \A ts : Saving(U \o w, u, ts) <=> Saving(U, u, ts) \/ ts = k.ts
                             /\ Answers(U \o w, u) <=> Answers(U, u)
    BY <1>1, <1>3
  <1> QED BY <1>1, <1>2, <1>4, <1>5

\* The other end gives the user up for another, unasked, and says so.
LEMMA AbreastIn ==
    ASSUME NEW u \in User, NEW e, NEW f \in EntryFor(u), NEW f2 \in EntryFor(u), NEW ts,
           NEW U \in Seq(Message), NEW w \in Seq(Message), Minds(u, f, f2, w),
           NEW D \in Seq(Message), NEW a, Abreast(u, e, f, D, U, a, ts)
    PROVE  Abreast(u, e, f2, D, U \o w, a, ts)
  <1>1. PICK b \in Hearsay :
           /\ Course(D, u, a, b) /\ b.ts <= ts
           /\ Accepts(u, f, a)
           /\ Tells(e, b, f, a)
           /\ Replies(u, e, f, U, a, b)
    BY DEF Abreast
  <1>2. a \in Hearsay
    BY <1>1, CourseEnds
  <1>3. a.ts \in Int /\ (a.nick # NoNick => a.ts >= 0) /\ NoNick \notin Nick /\ u \notin Nick
    BY <1>2, HearsayFacts
  <1>4. Accepts(u, f2, a) /\ Tells(e, b, f2, a) /\ Replies(u, e, f2, U \o w, a, b)
    <2>1. CASE Still(w, u) /\ f2 = f
      BY <1>1, <2>1, RepliesAfter DEF Replies
    <2>2. CASE ~(Still(w, u) /\ f2 = f) /\ IsPerson(f)
      <3>1. /\ f.nick # NoNick /\ f # Absent /\ (f.nick \in Nick => f.nick # u)
        BY <1>3, <2>2, PersonNamed
      <3>2. Like(f, a) \/ (CollisionFnc /\ f.nick = u /\ a.nick \in Nick)
        BY <1>1, <3>1 DEF Accepts
      <3>3. a.ts >= 0 /\ a.nick # NoNick
        BY <1>3, <3>1, <3>2 DEF Like
      <3>4. ~Killing(U, u) /\ Answers(U, u)
        BY <1>1, <3>1 DEF Replies
      <3>5. ~IsPerson(e) => b.nick = NoNick
        BY <1>1, <3>1, <1>3 DEF Tells, Like
      <3>6. \A t : Saving(U, u, t) => /\ CollisionFnc /\ t \in Nat /\ t <= a.ts
                                      /\ t = a.ts /\ a.nick \in Nick => f.nick = u
        BY <1>1, <3>1 DEF Replies
      <3>7. CASE f2 = Absent /\ \E k : Line(w, u, k) /\ k.type = "KILL"
        <4>1. /\ Killing(U \o w, u) /\ Answers(U \o w, u)
              /\ \A t : Saving(U \o w, u, t) <=> Saving(U, u, t)
          BY <3>4, <3>7, RepliesAfter
        <4>2. ~IsPerson(f2)
          BY <3>7 DEF IsPerson, Absent
        <4>3. Accepts(u, f2, a)
          BY <3>7 DEF Accepts
        <4>4. Tells(e, b, f2, a)
          BY <1>1, <3>3, <3>7 DEF Tells, Like
        <4>5. Replies(u, e, f2, U \o w, a, b)
          BY <3>3, <3>6, <3>7, <4>1, <4>2 DEF Replies
        <4> QED BY <4>3, <4>4, <4>5
      <3>8. CASE /\ CollisionFnc /\ f.nick \in Nick /\ IsPerson(f2) /\ f2.nick = u
                 /\ \E k : Line(w, u, k) /\ k.type = "SAVE" /\ k.ts = f.ts
        <4>1. f.nick = a.nick /\ f.ts = a.ts
          BY <3>1, <3>2, <3>8 DEF Like
        <4>2. /\ ~Killing(U \o w, u) /\ Answers(U \o w, u)
              /\ \A t : Saving(U \o w, u, t) <=> Saving(U, u, t) \/ t = a.ts
          BY <3>4, <3>8, <4>1, RepliesAfter
        <4>3. f2 # Absent
          BY <3>8 DEF IsPerson, Absent
        <4>4. Accepts(u, f2, a)
          BY <3>8, <4>1 DEF Accepts
        <4>5. Tells(e, b, f2, a)
          BY <1>1, <3>5 DEF Tells
        <4>6. \A t : Saving(U \o w, u, t) =>
                /\ CollisionFnc /\ t \in Nat /\ t <= a.ts
                /\ t = a.ts /\ a.nick \in Nick => f2 = Absent \/ f2.nick = u
          BY <1>3, <3>3, <3>6, <3>8, <4>2
        <4>7. Replies(u, e, f2, U \o w, a, b)
          BY <4>2, <4>3, <4>6 DEF Replies
        <4> QED BY <4>4, <4>5, <4>7
      <3> QED BY <2>2, <3>7, <3>8 DEF Minds
    <2> QED BY <2>1, <2>2 DEF Minds
  <1> QED BY <1>1, <1>4 DEF Abreast

\* The other end reads what it is told of the user, and answers.
LEMMA AbreastHeard ==
    ASSUME NEW u \in User, NEW e, NEW f \in EntryFor(u), NEW f2 \in EntryFor(u), NEW ts,
           NEW U \in Seq(Message), NEW w \in Seq(Message),
           NEW D \in Seq(Message), D # <<>>, Concerns(Head(D), u), Marks(u, Head(D), f, f2, w),
           NEW a, Abreast(u, e, f, D, U, a, ts)
    PROVE  /\ a \in Hearsay /\ Apt(a, Head(D))
           /\ Since(a, Head(D)) \in Hearsay
           /\ Abreast(u, e, f2, Tail(D), U \o w, Since(a, Head(D)), ts)
  <1>1. PICK b \in Hearsay :
           /\ Course(D, u, a, b) /\ b.ts <= ts
           /\ Accepts(u, f, a)
           /\ Tells(e, b, f, a)
           /\ Replies(u, e, f, U, a, b)
    BY DEF Abreast
  <1>2. PICK m : m = Head(D)
    OBVIOUS
  <1>3. PICK c : c = Since(a, m)
    OBVIOUS
  <1>4. m \in Message /\ Concerns(m, u) /\ Marks(u, m, f, f2, w)
    BY <1>2
  <1>5. Apt(a, m) /\ Course(Tail(D), u, c, b) /\ a \in Hearsay /\ c \in Hearsay /\ Older(a, c)
    <2>1. a \in Hearsay
      BY <1>1, CourseEnds
    <2>2. Apt(a, m) /\ Course(Tail(D), u, c, b)
      BY <1>1, <1>2, <1>3, <1>4, CourseRead
    <2> QED BY <1>3, <1>4, <2>1, <2>2, UpdateFacts
  <1>6. /\ a.ts \in Int /\ c.ts \in Int /\ (a.ts = -1 \/ a.ts \in Nat) /\ (c.nick # NoNick => c.ts >= 0)
        /\ (a.nick # NoNick => a.ts >= 0) /\ a.ts <= c.ts
        /\ NoNick \notin Nick /\ u \notin Nick /\ u # NoNick
    BY <1>5, HearsayFacts DEF Older
  <1>7. /\ m.type \in {"UID", "NICK", "SAVE", "QUIT", "KILL"}
        /\ m.type \in {"UID", "NICK"} => m.nick \in NameFor(u) /\ m.ts \in Nat /\ m.nick # NoNick
        /\ m.u = u
    <2>1. m.nick \in Name => m.nick # NoNick
      BY HearsayFacts, NameAssumption DEF Name
    <2> QED BY <1>4, <2>1, ConcernFacts
  <1>8. /\ m.type \in {"UID", "NICK"} => c.nick = m.nick /\ (m.nick \in Nick => c.ts = m.ts)
        /\ m.type = "SAVE" => c.nick = u /\ c.ts = a.ts
        /\ m.type \in {"QUIT", "KILL"} => c.nick = NoNick /\ c.ts = a.ts
    BY <1>3, <1>7 DEF Since
  <1>9. c.ts >= 0
    <2>1. CASE m.type \in {"UID", "NICK"}
      BY <1>6, <1>7, <1>8, <2>1
    <2>2. CASE m.type \in {"SAVE", "QUIT", "KILL"}
      BY <1>5, <1>6, <1>8, <2>2 DEF Apt
    <2> QED BY <1>7, <2>1, <2>2
  <1>10. /\ Answers(U, u)
         /\ f = Absent /\ a.nick # NoNick /\ IsPerson(e) => Killing(U, u)
         /\ Killing(U, u) => f = Absent /\ a.ts >= 0
         /\ \A t : Saving(U, u, t) =>
             /\ CollisionFnc /\ t \in Nat /\ t <= a.ts
             /\ t = a.ts /\ a.nick \in Nick => f = Absent \/ f.nick = u
    BY <1>1 DEF Replies
  <1>11. Accepts(u, f2, c) /\ Tells(e, b, f2, c) /\ Replies(u, e, f2, U \o w, c, b)
    <2>1. CASE f2 = Absent /\ \/ m.type \in {"QUIT", "KILL"} /\ Still(w, u)
                              \/ \E k : Line(w, u, k) /\ k.type = "KILL"
                              \/ f = Absent /\ m.type = "SAVE" /\ Still(w, u)
      <3>1. Accepts(u, f2, c)
        BY <2>1 DEF Accepts
      <3>2. Tells(e, b, f2, c)
        BY <1>1, <1>9, <2>1 DEF Tells
      <3>3. Answers(U \o w, u) /\ \A t : Saving(U \o w, u, t) => Saving(U, u, t)
        BY <1>10, <2>1, RepliesAfter
      <3>4. c.nick # NoNick /\ IsPerson(e) => Killing(U \o w, u)
        <4>1. CASE m.type \in {"QUIT", "KILL"}
          BY <1>8, <4>1
        <4>2. CASE \E k : Line(w, u, k) /\ k.type = "KILL"
          BY <4>2, RepliesAfter
        <4>3. CASE f = Absent /\ m.type = "SAVE" /\ Still(w, u)
          <5>1. a.nick # NoNick
            BY <1>5, <1>6, <4>3 DEF Apt
          <5> QED BY <1>10, <4>3, <5>1, RepliesAfter
        <4> QED BY <2>1, <4>1, <4>2, <4>3
      <3>5. ~IsPerson(f2)
        BY <2>1 DEF IsPerson, Absent
      <3>6. \A t : Saving(U \o w, u, t) =>
                /\ CollisionFnc /\ t \in Nat /\ t <= c.ts
                /\ t = c.ts /\ c.nick \in Nick => f2 = Absent \/ f2.nick = u
        BY <1>6, <1>10, <2>1, <3>3
      <3>7. Replies(u, e, f2, U \o w, c, b)
        BY <1>9, <2>1, <3>3, <3>4, <3>5, <3>6 DEF Replies
      <3> QED BY <3>1, <3>2, <3>7
    <2>2. ASSUME IsPerson(f2), f2 # Absent, ~Killing(U, u), IsPerson(f) \/ a.ts = -1,
                 \/ Still(w, u) /\ f2.nick = c.nick /\ (c.nick \in Nick => f2.ts = c.ts)
                    /\ (c.nick \in Nick => \A t : Saving(U, u, t) => t # c.ts)
                 \/ CollisionFnc /\ c.nick \in Nick /\ f2.nick = u
                    /\ \E k : Line(w, u, k) /\ k.type = "SAVE" /\ k.ts = c.ts
          PROVE  Accepts(u, f2, c) /\ Tells(e, b, f2, c) /\ Replies(u, e, f2, U \o w, c, b)
      <3>1. Accepts(u, f2, c)
        BY <2>2 DEF Accepts, Like
      <3>2. Tells(e, b, f2, c)
        <4>1. IsPerson(f) => f # Absent
          BY DEF IsPerson, Absent
        <4> QED BY <1>1, <2>2, <4>1 DEF Tells
      <3>3. Answers(U \o w, u) /\ ~Killing(U \o w, u)
        BY <1>10, <2>2, RepliesAfter
      <3>4. CASE Still(w, u) /\ f2.nick = c.nick /\ (c.nick \in Nick => \A t : Saving(U, u, t) => t # c.ts)
        <4>1. \A t : Saving(U \o w, u, t) <=> Saving(U, u, t)
          BY <3>4, RepliesAfter
        <4>2. \A t : Saving(U \o w, u, t) =>
                /\ CollisionFnc /\ t \in Nat /\ t <= c.ts
                /\ t = c.ts /\ c.nick \in Nick => f2 = Absent \/ f2.nick = u
          BY <1>6, <1>10, <3>4, <4>1
        <4>3. ~(f2.nick = u /\ c.nick \in Nick)
          BY <1>6, <3>4
        <4> QED BY <2>2, <3>1, <3>2, <3>3, <4>2, <4>3 DEF Replies
      <3>5. CASE CollisionFnc /\ c.nick \in Nick /\ f2.nick = u
                    /\ \E k : Line(w, u, k) /\ k.type = "SAVE" /\ k.ts = c.ts
        <4>1. \A t : Saving(U \o w, u, t) <=> Saving(U, u, t) \/ t = c.ts
          <5>1. PICK k : Line(w, u, k) /\ k.type = "SAVE" /\ k.ts = c.ts
            BY <3>5
          <5>2. \A t : Saving(U \o w, u, t) <=> Saving(U, u, t) \/ t = k.ts
            BY <5>1, RepliesAfter
          <5> QED BY <5>1, <5>2
        <4>2. \A t : Saving(U \o w, u, t) =>
                /\ CollisionFnc /\ t \in Nat /\ t <= c.ts
                /\ t = c.ts /\ c.nick \in Nick => f2 = Absent \/ f2.nick = u
          BY <1>6, <1>9, <1>10, <3>5, <4>1
        <4> QED BY <2>2, <3>1, <3>2, <3>3, <4>1, <4>2 DEF Replies
      <3> QED BY <2>2, <3>4, <3>5
    <2>3. IsPerson(f) => f # Absent /\ ~Killing(U, u)
      BY <1>10 DEF IsPerson, Absent
    <2>4. IsPerson(f2) => f2 # Absent
      BY DEF IsPerson, Absent
    <2>5. CASE /\ m.type \in {"UID", "NICK"} /\ (m.type = "NICK" => IsPerson(f)) /\ IsPerson(f2)
      <3>1. ~Killing(U, u) /\ (IsPerson(f) \/ a.ts = -1)
        BY <1>5, <1>10, <2>3, <2>5 DEF Apt
      <3>2. m.nick \in Nick => \A t : Saving(U, u, t) => t # c.ts
        <4>1. CASE m.type = "UID"
          <5>1. a.ts = -1
            BY <1>5, <4>1 DEF Apt
          <5> QED BY <1>10, <5>1
        <4>2. CASE m.type = "NICK"
          <5>1. m.nick \in Nick /\ CollisionFnc => a.ts < m.ts
            BY <1>5, <4>2 DEF Apt
          <5> QED BY <1>6, <1>7, <1>8, <1>10, <4>2, <5>1
        <4> QED BY <2>5, <4>1, <4>2
      <3>3. CASE Still(w, u) /\ f2.nick = m.nick /\ f2.ts = m.ts
        BY <1>8, <2>2, <2>4, <2>5, <3>1, <3>2, <3>3
      <3>4. CASE Still(w, u) /\ m.type = "NICK" /\ f2 = f /\ f.nick = m.nick
        <4>1. m.nick \notin Nick
          <5>1. Like(f, a) \/ f.nick = u
            BY <1>1, <2>3, <2>5, <3>4 DEF Accepts
          <5> QED BY <1>5, <1>6, <3>4, <5>1 DEF Like, Apt
        <4> QED BY <1>8, <2>2, <2>4, <2>5, <3>1, <3>4, <4>1
      <3>5. CASE /\ CollisionFnc /\ m.nick \in Nick /\ f2.nick = u
                 /\ \E k : Line(w, u, k) /\ k.type = "SAVE" /\ k.ts = m.ts
        BY <1>8, <2>2, <2>4, <2>5, <3>1, <3>5
      <3>6. \/ Still(w, u) /\ f2.nick = m.nick /\ f2.ts = m.ts
            \/ Still(w, u) /\ m.type = "NICK" /\ f2 = f /\ f.nick = m.nick
            \/ /\ CollisionFnc /\ m.nick \in Nick /\ f2.nick = u
               /\ \E k : Line(w, u, k) /\ k.type = "SAVE" /\ k.ts = m.ts
        <4>1. f2 # Absent
          BY <2>4, <2>5
        <4> QED BY <1>4, <2>5, <4>1 DEF Marks
      <3> QED BY <3>3, <3>4, <3>5, <3>6
    <2>6. CASE m.type = "SAVE" /\ Still(w, u) /\ IsPerson(f) /\ IsPerson(f2) /\ f2.nick = u
      BY <1>6, <1>8, <2>2, <2>3, <2>4, <2>6
    <2>7. CASE /\ m.type = "SAVE" /\ Still(w, u) /\ f2 = f /\ f # Absent
               /\ ~(IsPerson(f) /\ f.nick \in Nick /\ f.ts = m.ts)
      <3>1. a.nick \in Nick /\ m.ts = a.ts
        BY <1>5, <2>7 DEF Apt
      <3>2. f.nick = u /\ IsPerson(f)
        BY <1>1, <2>7, <3>1 DEF Accepts, Like
      <3> QED BY <1>6, <1>8, <2>2, <2>3, <2>4, <2>7, <3>2
    <2>8. CASE m.type = "SAVE" /\ Still(w, u) /\ f2 = f /\ f = Absent
      BY <2>1, <2>8
    <2> QED BY <1>4, <2>1, <2>5, <2>6, <2>7, <2>8 DEF Marks
  <1> QED BY <1>1, <1>2, <1>3, <1>5, <1>11 DEF Abreast

-----------------------------------------------------------------------------
(* The user's end reads what comes back.                                   *)

\* It obeys a SAVE.
Heeds(m, u, e) == m.type = "SAVE" /\ IsPerson(e) /\ e.nick \in Nick /\ e.ts = m.ts

\* It is told m of u, and answers with w.
Yields(u, m, e, e2, w) ==
    \/ m.type = "KILL" /\ ~IsPerson(e2) /\ Still(w, u)
    \/ m.type = "SAVE" /\ ~Heeds(m, u, e) /\ e2 = e /\ Still(w, u)
    \/ Heeds(m, u, e) /\ IsPerson(e2) /\ e2.nick = u /\ Still(w, u)
    \/ Heeds(m, u, e) /\ ~IsPerson(e2) /\ \E k : Line(w, u, k) /\ k.type = "KILL"

\* What the other end has been told, once a SAVE it has sent has been obeyed.
Conceded(u, m, e, e2, a) == IF Heeds(m, u, e) /\ IsPerson(e2) THEN [nick |-> u, ts |-> a.ts] ELSE a

\* The next line is not about u.
LEMMA AbreastPassed ==
    ASSUME NEW u, NEW e, NEW f, NEW ts, NEW U \in Seq(Message), NEW D \in Seq(Message),
           NEW a, Abreast(u, e, f, D, U, a, ts)
    PROVE  /\ U # <<>> /\ ~Concerns(Head(U), u) => Abreast(u, e, f, D, Tail(U), a, ts)
           /\ D # <<>> /\ ~Concerns(Head(D), u) => Abreast(u, e, f, Tail(D), U, a, ts)
           /\ U # <<>> /\ Concerns(Head(U), u) => Head(U).type \in {"SAVE", "KILL"}
  <1>1. PICK b \in Hearsay :
           /\ Course(D, u, a, b) /\ b.ts <= ts
           /\ Accepts(u, f, a)
           /\ Tells(e, b, f, a)
           /\ Replies(u, e, f, U, a, b)
    BY DEF Abreast
  <1>2. ASSUME U # <<>>, ~Concerns(Head(U), u) PROVE Abreast(u, e, f, D, Tail(U), a, ts)
    <2>1. /\ Killing(U, u) <=> Killing(Tail(U), u)
          /\ \A t : Saving(U, u, t) <=> Saving(Tail(U), u, t)
          /\ Answers(U, u) => Answers(Tail(U), u)
      BY <1>2, RepliesRead DEF Concerns
    <2>2. Replies(u, e, f, Tail(U), a, b)
      BY <1>1, <2>1 DEF Replies
    <2> QED BY <1>1, <2>2 DEF Abreast
  <1>3. ASSUME D # <<>>, ~Concerns(Head(D), u) PROVE Abreast(u, e, f, Tail(D), U, a, ts)
    BY <1>1, <1>3, CourseRead DEF Abreast
  <1>4. U # <<>> /\ Concerns(Head(U), u) => Head(U).type \in {"SAVE", "KILL"}
    BY <1>1, RepliesRead DEF Replies
  <1> QED BY <1>2, <1>3, <1>4

\* The user's end reads the answer, and obeys it if it is for what is still so.
LEMMA AbreastYields ==
    ASSUME NEW u \in User, NEW e \in EntryFor(u), NEW e2 \in EntryFor(u), NEW f \in EntryFor(u), NEW ts \in Int,
           NEW D \in Seq(Message), NEW w \in Seq(Message),
           NEW U \in Seq(Message), U # <<>>, Concerns(Head(U), u), Yields(u, Head(U), e, e2, w),
           NEW a, Abreast(u, e, f, D, U, a, ts)
    PROVE  /\ Conceded(u, Head(U), e, e2, a) \in Hearsay
           /\ Conceded(u, Head(U), e, e2, a).ts = a.ts
           /\ Abreast(u, e2, f, D \o w, Tail(U), Conceded(u, Head(U), e, e2, a), ts)
  <1>1. PICK b \in Hearsay :
           /\ Course(D, u, a, b) /\ b.ts <= ts
           /\ Accepts(u, f, a)
           /\ Tells(e, b, f, a)
           /\ Replies(u, e, f, U, a, b)
    BY DEF Abreast
  <1>2. PICK m : m = Head(U)
    OBVIOUS
  <1>3. PICK c : c = Conceded(u, m, e, e2, a)
    OBVIOUS
  <1>4. m \in Message /\ Concerns(m, u) /\ Yields(u, m, e, e2, w) /\ m.u = u
    BY <1>2 DEF Concerns
  <1>5. a \in Hearsay /\ Older(a, b)
    BY <1>1, CourseEnds
  <1>6. /\ a.ts \in Int /\ b.ts \in Int /\ (a.ts = -1 \/ a.ts \in Nat) /\ a.ts <= b.ts
        /\ (a.nick # NoNick => a.ts >= 0) /\ (b.nick # NoNick => b.ts >= 0)
        /\ NoNick \notin Nick /\ u \notin Nick /\ u # NoNick
    BY <1>5, HearsayFacts DEF Older
  <1>7. /\ Killing(U, u) <=> Killing(Tail(U), u) \/ m.type = "KILL"
        /\ \A t : Saving(U, u, t) <=> Saving(Tail(U), u, t) \/ (m.type = "SAVE" /\ m.ts = t)
        /\ Answers(Tail(U), u)
    BY <1>1, <1>2, <1>4, RepliesRead DEF Replies
  <1>8. /\ f = Absent /\ a.nick # NoNick /\ IsPerson(e) => Killing(U, u)
        /\ Killing(U, u) => f = Absent /\ a.ts >= 0
        /\ \A t : Saving(U, u, t) =>
             /\ CollisionFnc /\ t \in Nat /\ t <= a.ts
             /\ t = a.ts /\ a.nick \in Nick => f = Absent \/ f.nick = u
        /\ IsPerson(f) /\ f.nick = u /\ a.nick \in Nick /\ a = b /\ IsPerson(e) => Saving(U, u, a.ts)
    BY <1>1 DEF Replies
  <1>9. ASSUME NEW z, ~IsPerson(z) PROVE Replies(u, z, f, Tail(U), a, b)
    BY <1>7, <1>8, <1>9 DEF Replies
  <1>10. Still(w, u) => Course(D \o w, u, a, b)
    BY <1>1, CourseOn DEF Leads
  <1>11. CASE m.type = "KILL" /\ ~IsPerson(e2) /\ Still(w, u)
    <2>1. c = a
      BY <1>3, <1>11 DEF Conceded
    <2>2. Tells(e2, b, f, a)
      BY <1>7, <1>8, <1>11 DEF Tells
    <2>3. Replies(u, e2, f, Tail(U), a, b)
      BY <1>9, <1>11
    <2>4. Abreast(u, e2, f, D \o w, Tail(U), a, ts)
      BY <1>1, <1>10, <1>11, <2>2, <2>3 DEF Abreast
    <2> QED BY <1>2, <1>3, <1>5, <2>1, <2>4
  <1>12. CASE m.type = "SAVE" /\ ~Heeds(m, u, e) /\ e2 = e /\ Still(w, u)
    <2>1. c = a
      BY <1>3, <1>12 DEF Conceded
    <2>2. IsPerson(f) /\ f.nick = u /\ a.nick \in Nick /\ a = b /\ IsPerson(e) => m.ts # a.ts
      BY <1>1, <1>12 DEF Tells, Like, Heeds
    <2>3. Replies(u, e, f, Tail(U), a, b)
      BY <1>7, <1>8, <1>12, <2>2 DEF Replies
    <2>4. Abreast(u, e2, f, D \o w, Tail(U), a, ts)
      BY <1>1, <1>10, <1>12, <2>3 DEF Abreast
    <2> QED BY <1>2, <1>3, <1>5, <2>1, <2>4
  <1>13. ASSUME Heeds(m, u, e)
         PROVE  /\ b.nick = e.nick /\ b.nick \in Nick /\ a = b /\ CollisionFnc /\ Still(D, u)
                /\ f = Absent \/ f.nick = u
    <2>1. Like(e, b) /\ e.nick \in Nick /\ m.type = "SAVE" /\ e.ts = m.ts
      BY <1>1, <1>13 DEF Heeds, Tells
    <2>2. b.nick = e.nick /\ b.ts = m.ts
      BY <2>1 DEF Like
    <2>3. Saving(U, u, m.ts)
      BY <1>7, <2>1
    <2>4. CollisionFnc /\ m.ts <= a.ts /\ m.ts \in Nat
      BY <1>8, <2>3
    <2>5. a.ts = b.ts
      BY <1>6, <2>2, <2>4
    <2>6. a = b /\ Still(D, u)
      BY <1>1, <2>1, <2>2, <2>4, <2>5, CourseCalm
    <2>7. f = Absent \/ f.nick = u
      BY <1>8, <2>1, <2>2, <2>3, <2>6
    <2> QED BY <2>1, <2>2, <2>4, <2>6, <2>7
  <1>14. CASE Heeds(m, u, e) /\ IsPerson(e2) /\ e2.nick = u /\ Still(w, u)
    <2>1. c = [nick |-> u, ts |-> a.ts] /\ c.nick = u /\ c.ts = a.ts
      BY <1>3, <1>14 DEF Conceded
    <2>2. c \in Hearsay /\ a.nick # NoNick
      BY <1>6, <1>13, <1>14, <2>1, HearsayFacts
    <2>3. Course(D \o w, u, c, c)
      BY <1>13, <1>14, <2>2, CourseStill, CourseOn DEF Leads
    <2>4. Accepts(u, f, c)
      <3>1. f = Absent \/ IsPerson(f)
        BY <1>1 DEF Accepts, Like
      <3> QED BY <1>6, <1>13, <1>14, <2>1, <3>1 DEF Accepts, Like
    <2>5. Tells(e2, c, f, c)
      BY <1>6, <1>14, <2>1 DEF Tells, Like
    <2>6. m.type = "SAVE" /\ IsPerson(e)
      BY <1>14 DEF Heeds
    <2>7. Replies(u, e2, f, Tail(U), c, c)
      BY <1>6, <1>7, <1>8, <2>1, <2>2, <2>6 DEF Replies
    <2>8. c.ts <= ts
      BY <1>1, <1>13, <1>14, <2>1
    <2>9. Abreast(u, e2, f, D \o w, Tail(U), c, ts)
      BY <2>2, <2>3, <2>4, <2>5, <2>7, <2>8 DEF Abreast
    <2> QED BY <1>2, <1>3, <2>1, <2>2, <2>9
  <1>15. CASE Heeds(m, u, e) /\ ~IsPerson(e2) /\ \E k : Line(w, u, k) /\ k.type = "KILL"
    <2>1. c = a
      BY <1>3, <1>15 DEF Conceded
    <2>2. PICK k : Line(w, u, k) /\ k.type = "KILL"
      BY <1>15
    <2>3. PICK d : d = Since(b, k)
      OBVIOUS
    <2>4. Apt(b, k) /\ b.nick # NoNick
      BY <1>6, <1>13, <1>15, <2>2 DEF Apt
    <2>5. k \in Message /\ Concerns(k, u)
      BY <2>2, LineFacts
    <2>6. d \in Hearsay /\ d.nick = NoNick /\ d.ts = b.ts
      BY <2>2, <2>3, <2>4, <2>5, UpdateFacts DEF Since
    <2>7. Course(D \o w, u, a, d)
      BY <1>1, <2>2, <2>3, <2>4, CourseOn DEF Leads
    <2>8. Tells(e2, d, f, a) /\ d.ts <= ts
      BY <1>1, <1>15, <2>6 DEF Tells
    <2>9. Replies(u, e2, f, Tail(U), a, d)
      BY <1>7, <1>8, <1>15 DEF Replies
    <2>10. Abreast(u, e2, f, D \o w, Tail(U), a, ts)
      BY <1>1, <2>6, <2>7, <2>8, <2>9 DEF Abreast
    <2> QED BY <1>2, <1>3, <1>5, <2>1, <2>10
  <1> QED BY <1>4, <1>11, <1>12, <1>14, <1>15 DEF Yields

-----------------------------------------------------------------------------
(* The invariant.  A[s][u] is what s has been told of u, at the home of u  *)
(* what u has told.                                                        *)

\* u is on t's side of the link of t and s, and no split may have come between it and t.
Followed(t, s, u) ==
    /\ <<t, s>> \in Edge /\ Home[u] \in Behind[<<s, t>>]
    /\ splits = 0 \/ t = Home[u]

\* What t, s and the queues between them have of u.
Carries(t, s, u, A) ==
    /\ Live(t, s) =>
         Abreast(u, client[t][u], client[s][u], chan[<<t, s>>], chan[<<s, t>>], A[s][u], A[t][u].ts)
    /\ s \notin est[t] => Still(chan[<<s, t>>], u)
    /\ t \notin est[s] => A[s][u] = Nothing
    /\ s \notin est[t] /\ (chan[<<s, t>>] # <<>> \/ splits = 0) => A[s][u] = Nothing

\* What t may send to s.
Due(t, s) ==
    {m \in Message :
        /\ m.type = "SAVE" => CollisionFnc
        /\ m.type = "QUIT" => Home[m.u] \in Behind[<<s, t>>]
        /\ splits = 0 => m.type # "SQUIT"}

\* What u has told its server.
Rooted(u, A) ==
    /\ IsPerson(Self(u)) =>
         /\ 0 <= A[Home[u]][u].ts /\ A[Home[u]][u].ts <= Self(u).ts
         /\ Self(u).nick \in Nick => A[Home[u]][u].ts = Self(u).ts
    /\ u \notin used \/ Self(u).on = "unknown" => A[Home[u]][u].ts = -1

\* While no link has broken, a link is open at both ends.
Whole == splits = 0 => \A t, s : <<t, s>> \in Edge /\ Open(t, s) => Open(s, t)

AInv(A) ==
    /\ A \in [Server -> [User -> Hearsay]]
    /\ \A t, s : <<t, s>> \in Edge => chan[<<t, s>>] \in Seq(Due(t, s))
    /\ \A u \in User : Rooted(u, A)
    /\ \A t, s : \A u \in User : Followed(t, s, u) => Carries(t, s, u, A)
    /\ Whole

\* What a server has of a user has a nick that the user can have.
LEMMA EntriesNamed ==
    ASSUME TypeOK, NEW s \in Server, NEW u \in User
    PROVE  client[s][u] \in EntryFor(u)
  BY DEF TypeOK, Table, EntryFor

\* What a server has been told has a time.
LEMMA ToldTyped ==
    ASSUME NEW A, AInv(A), NEW s \in Server, NEW u \in User
    PROVE  A[s][u] \in Hearsay /\ A[s][u].ts \in Int
  BY HearsayFacts DEF AInv

\* A link whose ends, and the queues between them, are as they were.
LEMMA CarriesKept ==
    ASSUME NEW A, NEW B, NEW t, NEW s, NEW u \in User, Carries(t, s, u, A), splits' = splits,
           s \in est'[t] <=> s \in est[t], t \in est'[s] <=> t \in est[s],
           chan'[<<t, s>>] = chan[<<t, s>>], chan'[<<s, t>>] = chan[<<s, t>>],
           client'[t][u] = client[t][u], client'[s][u] = client[s][u],
           B[s][u] = A[s][u], B[t][u].ts = A[t][u].ts
    PROVE  Carries(t, s, u, B)'
  <1>1. Live(t, s)' <=> Live(t, s)
    BY DEF Live, Open
  <1> QED BY <1>1 DEF Carries

\* The user's end, s, speaks to r.
LEMMA CarriesOut ==
    ASSUME IInv, IInv', NEW A, NEW B, AInv(A), NEW s, NEW r, NEW u \in User,
           <<s, r>> \in Edge, Carries(s, r, u, A), splits' = splits, est' = est,
           B[s][u] \in Hearsay, NEW w \in Seq(Message),
           chan'[<<s, r>>] = IF Open(r, s) THEN chan[<<s, r>>] \o w ELSE chan[<<s, r>>],
           chan'[<<r, s>>] = chan[<<r, s>>],
           client'[r][u] = client[r][u], B[r][u] = A[r][u],
           r \in est[s] => Gives(u, client[s][u], client'[s][u], A[s][u].ts, B[s][u].ts, w)
    PROVE  Carries(s, r, u, B)'
  <1>1. s \in Server /\ r \in Server /\ <<r, s>> \in Edge
    BY EdgeFacts
  <1>2. chan[<<s, r>>] \in Seq(Message) /\ chan[<<r, s>>] \in Seq(Message)
    BY <1>1 DEF IInv, TypeOK
  <1>3. /\ client[s][u] \in EntryFor(u) /\ client'[s][u] \in EntryFor(u) /\ client[r][u] \in EntryFor(u)
        /\ A[s][u].ts \in Int /\ B[s][u].ts \in Int
    <2>1. client[s][u] \in EntryFor(u) /\ client[r][u] \in EntryFor(u)
      BY <1>1, EntriesNamed DEF IInv
    <2>2. client'[s] \in Table
      BY <1>1 DEF IInv, TypeOK
    <2>3. client'[s][u] \in EntryFor(u)
      BY <2>2 DEF Table, EntryFor
    <2> QED BY <1>1, <2>1, <2>3, ToldTyped, HearsayFacts
  <1>4. ASSUME Live(s, r)'
        PROVE  Live(s, r) /\ chan'[<<s, r>>] = chan[<<s, r>>] \o w /\ r \in est[s]
    BY <1>4 DEF Live, Open
  <1>5. ASSUME Live(s, r)'
        PROVE  Abreast(u, client'[s][u], client'[r][u], chan'[<<s, r>>], chan'[<<r, s>>], B[r][u], B[s][u].ts)
    <2>1. Live(s, r) /\ r \in est[s] /\ chan'[<<s, r>>] = chan[<<s, r>>] \o w
      BY <1>4, <1>5
    <2>2. Abreast(u, client[s][u], client[r][u], chan[<<s, r>>], chan[<<r, s>>], A[r][u], A[s][u].ts)
      BY <2>1 DEF Carries
    <2>3. Abreast(u, client'[s][u], client[r][u], chan[<<s, r>>] \o w, chan[<<r, s>>], A[r][u], B[s][u].ts)
      BY <1>2, <1>3, <2>1, <2>2, AbreastOut
    <2> QED BY <2>1, <2>3
  <1>6. /\ r \notin est'[s] => Still(chan'[<<r, s>>], u)
        /\ s \notin est'[r] => B[r][u] = Nothing
        /\ r \notin est'[s] /\ (chan'[<<r, s>>] # <<>> \/ splits' = 0) => B[r][u] = Nothing
    BY DEF Carries
  <1> QED BY <1>5, <1>6 DEF Carries

\* A server that is not linked to r, or has only greeted it, has nobody from r's side.
LEMMA Strange ==
    ASSUME IInv, TInv, NEW s, NEW r, <<s, r>> \in Edge, NEW u \in User, Home[u] \in Behind[<<s, r>>]
    PROVE  /\ r \notin est[s] => client[s][u] = Absent
           /\ s \notin est[r] /\ chan[<<s, r>>] # <<>> => client[s][u] = Absent /\ chan[<<r, s>>] = <<>>
           /\ client[s][u] = Absent \/ IsPerson(client[s][u])
  <1>1. PICK M : Met(M)
    BY DEF TInv
  <1>2. Reach(s, M) /\ Hello(s, r, M) /\ s \in Server /\ r \in Server /\ s # Home[u]
    BY <1>1, EdgeFacts, Opposite DEF Met
  <1>3. client[s][u] = Absent \/ (u \in M[s] /\ IsPerson(client[s][u]))
    <2>1. client[s][u].on \in {"absent", "unknown", "person"}
      BY <1>2 DEF IInv, TypeOK, Table, Entry
    <2> QED BY <1>2, <2>1 DEF Reach, IsPerson
  <1>4. u \in M[s] => r \in est[s]
    <2> SUFFICES ASSUME u \in M[s] PROVE r \in est[s]
      OBVIOUS
    <2>1. Home[u] \in known[s]
      BY <1>2 DEF Reach
    <2>2. PICK t \in est[s] : Home[u] \in Behind[<<s, t>>] /\ <<s, t>> \in Edge
      BY <1>2, <2>1 DEF Reach
    <2>3. t = r
      BY <2>2, Beyond
    <2> QED BY <2>2, <2>3
  <1>5. ASSUME s \notin est[r], chan[<<s, r>>] # <<>> PROVE u \notin M[s] /\ chan[<<r, s>>] = <<>>
    <2>1. Sees(s, r, M).usr = {} /\ chan[<<r, s>>] = <<>>
      BY <1>2, <1>5 DEF Hello
    <2> QED BY <2>1 DEF Sees
  <1> QED BY <1>3, <1>4, <1>5

\* Lines that do not tell of u, put behind others that do not.
LEMMA StillOn ==
    ASSUME NEW q \in Seq(Message), NEW w \in Seq(Message), NEW u, Still(q, u), Still(w, u)
    PROVE  Still(q \o w, u)
  <1>1. q \o w \in Seq(Message) /\ ToSet(q \o w) = ToSet(q) \cup ToSet(w)
    BY QueueFacts
  <1>2. \A m \in ToSet(q) : ~Concerns(m, u)
    BY LineFacts
  <1>3. \A m \in ToSet(w) : ~Concerns(m, u)
    BY LineFacts
  <1> QED BY <1>1, <1>2, <1>3, LineFacts

\* The other end, s, speaks to r, on whose side u is.
LEMMA CarriesIn ==
    ASSUME IInv, IInv', TInv, NEW A, NEW B, AInv(A), NEW s, NEW r, NEW u \in User,
           <<r, s>> \in Edge, Home[u] \in Behind[<<s, r>>], Carries(r, s, u, A), splits' = splits, est' = est,
           NEW w \in Seq(Message),
           chan'[<<s, r>>] = IF Open(r, s) THEN chan[<<s, r>>] \o w ELSE chan[<<s, r>>],
           chan'[<<r, s>>] = chan[<<r, s>>],
           client'[r][u] = client[r][u], B[s][u] = A[s][u], B[r][u].ts = A[r][u].ts,
           Minds(u, client[s][u], client'[s][u], w)
    PROVE  Carries(r, s, u, B)'
  <1>1. s \in Server /\ r \in Server /\ <<s, r>> \in Edge
    BY EdgeFacts
  <1>2. chan[<<s, r>>] \in Seq(Message) /\ chan[<<r, s>>] \in Seq(Message)
    BY <1>1 DEF IInv, TypeOK
  <1>3. client[s][u] \in EntryFor(u) /\ client'[s][u] \in EntryFor(u)
    <2>1. client[s][u] \in EntryFor(u)
      BY <1>1, EntriesNamed DEF IInv
    <2>2. client'[s] \in Table
      BY <1>1 DEF IInv, TypeOK
    <2>3. client'[s][u] \in EntryFor(u)
      BY <2>2 DEF Table, EntryFor
    <2> QED BY <2>1, <2>3
  <1>4. client[s][u] = Absent => Still(w, u) /\ client'[s][u] = client[s][u]
    BY DEF Minds, IsPerson, Absent
  <1>5. Live(r, s)' <=> Live(r, s)
    BY DEF Live, Open
  <1>6. ASSUME Live(r, s)'
        PROVE  Abreast(u, client'[r][u], client'[s][u], chan'[<<r, s>>], chan'[<<s, r>>], B[s][u], B[r][u].ts)
    <2>1. Abreast(u, client[r][u], client[s][u], chan[<<r, s>>], chan[<<s, r>>], A[s][u], A[r][u].ts)
      BY <1>5, <1>6 DEF Carries
    <2>2. chan'[<<s, r>>] = chan[<<s, r>>] \o w
      BY <1>6 DEF Live, Open
    <2>3. Abreast(u, client[r][u], client'[s][u], chan[<<r, s>>], chan[<<s, r>>] \o w, A[s][u], A[r][u].ts)
      BY <1>2, <1>3, <2>1, AbreastIn
    <2> QED BY <2>2, <2>3
  <1>7. ASSUME s \notin est'[r] PROVE Still(chan'[<<s, r>>], u) /\ (chan'[<<s, r>>] # <<>> => chan[<<s, r>>] # <<>>)
    <2>1. Still(chan[<<s, r>>], u)
      BY <1>7 DEF Carries
    <2>2. CASE chan'[<<s, r>>] = chan[<<s, r>>]
      BY <2>1, <2>2
    <2>3. CASE chan'[<<s, r>>] = chan[<<s, r>>] \o w /\ Open(r, s)
      <3>1. chan[<<s, r>>] # <<>>
        BY <1>7, <2>3 DEF Open
      <3>2. client[s][u] = Absent
        BY <1>1, <1>7, <3>1, Strange
      <3>3. Still(w, u)
        BY <1>4, <3>2
      <3>4. Still(chan[<<s, r>>] \o w, u)
        BY <1>2, <2>1, <3>3, StillOn
      <3> QED BY <2>3, <3>1, <3>4
    <2> QED BY <2>2, <2>3
  <1>8. /\ r \notin est'[s] => B[s][u] = Nothing
        /\ s \notin est'[r] /\ (chan'[<<s, r>>] # <<>> \/ splits' = 0) => B[s][u] = Nothing
    BY <1>7 DEF Carries
  <1> QED BY <1>6, <1>7, <1>8 DEF Carries

\* s reads from t, on whose side u is.
LEMMA CarriesHeard ==
    ASSUME IInv, IInv', TInv, NEW A, NEW B, AInv(A), NEW s, NEW t, NEW u \in User,
           <<t, s>> \in Edge, Home[u] \in Behind[<<s, t>>], Carries(t, s, u, A), splits' = splits, est' = est,
           t \in est[s], chan[<<t, s>>] # <<>>,
           NEW w \in Seq(Message), chan'[<<t, s>>] = Tail(chan[<<t, s>>]),
           chan'[<<s, t>>] = IF Open(t, s) THEN chan[<<s, t>>] \o w ELSE chan[<<s, t>>],
           client'[t][u] = client[t][u], B[t][u].ts = A[t][u].ts,
           Live(t, s) => IF Concerns(Msg(s, t), u)
                         THEN /\ Marks(u, Msg(s, t), client[s][u], client'[s][u], w)
                              /\ B[s][u] = Since(A[s][u], Msg(s, t))
                         ELSE Minds(u, client[s][u], client'[s][u], w) /\ B[s][u] = A[s][u],
           ~Live(t, s) => B[s][u] = A[s][u]
    PROVE  Carries(t, s, u, B)'
  <1>1. s \in Server /\ t \in Server /\ <<s, t>> \in Edge
    BY EdgeFacts
  <1>2. chan[<<s, t>>] \in Seq(Message) /\ chan[<<t, s>>] \in Seq(Message) /\ Tail(chan[<<t, s>>]) \in Seq(Message)
    BY <1>1 DEF IInv, TypeOK
  <1>3. client[s][u] \in EntryFor(u) /\ client'[s][u] \in EntryFor(u)
    <2>1. client[s][u] \in EntryFor(u)
      BY <1>1, EntriesNamed DEF IInv
    <2>2. client'[s] \in Table
      BY <1>1 DEF IInv, TypeOK
    <2>3. client'[s][u] \in EntryFor(u)
      BY <2>2 DEF Table, EntryFor
    <2> QED BY <2>1, <2>3
  <1>4. ASSUME Live(t, s)'
        PROVE  Abreast(u, client'[t][u], client'[s][u], chan'[<<t, s>>], chan'[<<s, t>>], B[s][u], B[t][u].ts)
    <2>1. Live(t, s) /\ s \in est[t]
      BY <1>4 DEF Live, Open
    <2>2. Abreast(u, client[t][u], client[s][u], chan[<<t, s>>], chan[<<s, t>>], A[s][u], A[t][u].ts)
      BY <2>1 DEF Carries
    <2>3. chan'[<<s, t>>] = chan[<<s, t>>] \o w
      BY <2>1 DEF Open
    <2>4. CASE Concerns(Msg(s, t), u)
      <3>1. PICK D, U, f, f2, a :
              D = chan[<<t, s>>] /\ U = chan[<<s, t>>] /\ f = client[s][u] /\ f2 = client'[s][u] /\ a = A[s][u]
        OBVIOUS
      <3>2. /\ D \in Seq(Message) /\ U \in Seq(Message) /\ D # <<>> /\ f \in EntryFor(u) /\ f2 \in EntryFor(u)
            /\ Concerns(Head(D), u) /\ Abreast(u, client[t][u], f, D, U, a, A[t][u].ts)
        BY <1>2, <1>3, <2>2, <2>4, <3>1 DEF Msg
      <3>3. Marks(u, Head(D), f, f2, w) /\ B[s][u] = Since(a, Head(D))
        BY <2>1, <2>4, <3>1 DEF Msg
      <3>4. Abreast(u, client[t][u], f2, Tail(D), U \o w, Since(a, Head(D)), A[t][u].ts)
        BY <3>2, <3>3, AbreastHeard
      <3> QED BY <2>3, <3>1, <3>3, <3>4
    <2>5. CASE ~Concerns(Msg(s, t), u)
      <3>1. Abreast(u, client[t][u], client[s][u], Tail(chan[<<t, s>>]), chan[<<s, t>>], A[s][u], A[t][u].ts)
        BY <1>2, <2>2, <2>5, AbreastPassed DEF Msg
      <3>2. Minds(u, client[s][u], client'[s][u], w) /\ B[s][u] = A[s][u]
        BY <2>1, <2>5
      <3>3. Abreast(u, client[t][u], client'[s][u], Tail(chan[<<t, s>>]), chan[<<s, t>>] \o w, A[s][u], A[t][u].ts)
        BY <1>2, <1>3, <3>1, <3>2, AbreastIn
      <3> QED BY <2>3, <3>2, <3>3
    <2> QED BY <2>4, <2>5
  <1>5. ASSUME s \notin est'[t] PROVE chan'[<<s, t>>] = <<>> /\ splits' # 0
    <2>1. chan[<<s, t>>] = <<>>
      BY <1>1, <1>5, Strange
    <2>2. ~Open(t, s)
      BY <1>5, <2>1 DEF Open
    <2>3. Open(s, t)
      BY DEF Open
    <2>4. splits # 0
      BY <1>1, <2>2, <2>3 DEF AInv, Whole
    <2> QED BY <2>1, <2>2, <2>4
  <1>6. Still(<<>>, u)
    BY DEF Still
  <1> QED BY <1>4, <1>5, <1>6 DEF Carries

\* s reads from r what r says back.
LEMMA CarriesReply ==
    ASSUME IInv, IInv', TInv, NEW A, NEW B, AInv(A), NEW s, NEW r, NEW u \in User,
           <<s, r>> \in Edge, Carries(s, r, u, A), splits' = splits, est' = est,
           r \in est[s], chan[<<r, s>>] # <<>>,
           NEW w \in Seq(Message), chan'[<<r, s>>] = Tail(chan[<<r, s>>]),
           chan'[<<s, r>>] = IF Open(r, s) THEN chan[<<s, r>>] \o w ELSE chan[<<s, r>>],
           client'[r][u] = client[r][u], B[s][u] \in Hearsay,
           Live(s, r) =>
             IF Concerns(Msg(s, r), u)
             THEN /\ Yields(u, Msg(s, r), client[s][u], client'[s][u], w) /\ B[s][u] = A[s][u]
                  /\ B[r][u] = Conceded(u, Msg(s, r), client[s][u], client'[s][u], A[r][u])
             ELSE /\ Gives(u, client[s][u], client'[s][u], A[s][u].ts, B[s][u].ts, w)
                  /\ B[r][u] = A[r][u],
           ~Live(s, r) => B[r][u] = A[r][u]
    PROVE  Carries(s, r, u, B)'
  <1>1. s \in Server /\ r \in Server /\ <<r, s>> \in Edge
    BY EdgeFacts
  <1>2. chan[<<s, r>>] \in Seq(Message) /\ chan[<<r, s>>] \in Seq(Message) /\ Tail(chan[<<r, s>>]) \in Seq(Message)
    BY <1>1 DEF IInv, TypeOK
  <1>3. /\ client[s][u] \in EntryFor(u) /\ client'[s][u] \in EntryFor(u) /\ client[r][u] \in EntryFor(u)
        /\ A[s][u].ts \in Int /\ B[s][u].ts \in Int
    <2>1. client[s][u] \in EntryFor(u) /\ client[r][u] \in EntryFor(u)
      BY <1>1, EntriesNamed DEF IInv
    <2>2. client'[s] \in Table
      BY <1>1 DEF IInv, TypeOK
    <2>3. client'[s][u] \in EntryFor(u)
      BY <2>2 DEF Table, EntryFor
    <2> QED BY <1>1, <2>1, <2>3, ToldTyped, HearsayFacts
  <1>4. ASSUME Live(s, r)'
        PROVE  Abreast(u, client'[s][u], client'[r][u], chan'[<<s, r>>], chan'[<<r, s>>], B[r][u], B[s][u].ts)
    <2>1. Live(s, r) /\ chan'[<<s, r>>] = chan[<<s, r>>] \o w
      BY <1>4 DEF Live, Open
    <2>2. Abreast(u, client[s][u], client[r][u], chan[<<s, r>>], chan[<<r, s>>], A[r][u], A[s][u].ts)
      BY <2>1 DEF Carries
    <2>3. CASE Concerns(Msg(s, r), u)
      <3>1. Yields(u, Head(chan[<<r, s>>]), client[s][u], client'[s][u], w) /\ B[s][u] = A[s][u]
            /\ B[r][u] = Conceded(u, Head(chan[<<r, s>>]), client[s][u], client'[s][u], A[r][u])
        BY <2>1, <2>3 DEF Msg
      <3>2. Concerns(Head(chan[<<r, s>>]), u)
        BY <2>3 DEF Msg
      <3>3. PICK a, e, e2, f, D, U, ts :
              /\ a = A[r][u] /\ e = client[s][u] /\ e2 = client'[s][u] /\ f = client[r][u]
              /\ D = chan[<<s, r>>] /\ U = chan[<<r, s>>] /\ ts = A[s][u].ts
        OBVIOUS
      <3>4. /\ e \in EntryFor(u) /\ e2 \in EntryFor(u) /\ f \in EntryFor(u) /\ ts \in Int
            /\ D \in Seq(Message) /\ U \in Seq(Message) /\ U # <<>> /\ Concerns(Head(U), u)
            /\ Yields(u, Head(U), e, e2, w) /\ Abreast(u, e, f, D, U, a, ts)
        BY <1>2, <1>3, <2>2, <3>1, <3>2, <3>3
      <3>5. Abreast(u, e2, f, D \o w, Tail(U), Conceded(u, Head(U), e, e2, a), ts)
        BY <3>4, AbreastYields
      <3>6. Abreast(u, client'[s][u], client[r][u], chan[<<s, r>>] \o w, Tail(chan[<<r, s>>]), B[r][u], A[s][u].ts)
        BY <3>1, <3>3, <3>5
      <3> QED BY <2>1, <3>1, <3>6
    <2>4. CASE ~Concerns(Msg(s, r), u)
      <3>1. Abreast(u, client[s][u], client[r][u], chan[<<s, r>>], Tail(chan[<<r, s>>]), A[r][u], A[s][u].ts)
        BY <1>2, <2>2, <2>4, AbreastPassed DEF Msg
      <3>2. Gives(u, client[s][u], client'[s][u], A[s][u].ts, B[s][u].ts, w) /\ B[r][u] = A[r][u]
        BY <2>1, <2>4
      <3>3. Abreast(u, client'[s][u], client[r][u], chan[<<s, r>>] \o w, Tail(chan[<<r, s>>]), A[r][u], B[s][u].ts)
        BY <1>2, <1>3, <3>1, <3>2, AbreastOut
      <3> QED BY <2>1, <3>2, <3>3
    <2> QED BY <2>3, <2>4
  <1>5. ASSUME s \notin est'[r] PROVE B[r][u] = Nothing
    <2>1. ~Live(s, r)
      <3>1. CASE chan[<<s, r>>] # <<>>
        <4>1. TInv
          OBVIOUS
        <4>2. PICK M : Met(M)
          BY <4>1 DEF TInv
        <4>3. Hello(s, r, M)
          BY <4>2 DEF Met
        <4>4. chan[<<r, s>>] = <<>>
          BY <1>5, <3>1, <4>3 DEF Hello
        <4> QED BY <4>4
      <3>2. CASE chan[<<s, r>>] = <<>>
        BY <1>5, <3>2 DEF Live, Open
      <3> QED BY <3>1, <3>2
    <2>2. A[r][u] = Nothing
      BY <1>5 DEF Carries
    <2> QED BY <2>1, <2>2
  <1>6. r \in est'[s]
    OBVIOUS
  <1> QED BY <1>4, <1>5, <1>6 DEF Carries

-----------------------------------------------------------------------------
(* What an event at s does to u, who goes from e to e2 there, and what s   *)
(* says of it, out[r] to r.                                                *)

\* One line like k in q is about u.
Tidings(q, u, type, nick, ts) ==
    \E k : Line(q, u, k) /\ k.type = type /\ k.nick = nick /\ k.ts = ts

SaveFor(q, u, ts) == \E k : Line(q, u, k) /\ k.type = "SAVE" /\ k.ts = ts

Ending(q, u, type) == \E k : Line(q, u, k) /\ k.type = type

Leaves(u, e, e2, out) ==
    /\ e2 = e \/ (e.on = "unknown" /\ e2 = Absent)
    /\ \A r \in Server : Still(out[r], u)

\* u gets the nick that is its UID.
Saves(s, peers, u, e, e2, out) ==
    /\ CollisionFnc /\ IsPerson(e) /\ e.nick \in Nick
    /\ e2 = [on |-> "person", nick |-> u, ts |-> CurrentTime(s)]
    /\ \A r \in Server :
         IF r \in peers
         THEN SaveFor(out[r], u, e.ts)
              \/ (r \notin Way(s, Home[u]) /\ Tidings(out[r], u, "NICK", u, CurrentTime(s)))
         ELSE Still(out[r], u)

Ends(peers, u, e, e2, out, type) ==
    /\ IsPerson(e) /\ e2 = Absent
    /\ \A r \in Server : IF r \in peers THEN Ending(out[r], u, type) ELSE Still(out[r], u)

\* It is not about u.
Aside(s, u, e, e2, out) ==
    \/ Leaves(u, e, e2, out)
    \/ Saves(s, est[s], u, e, e2, out)
    \/ Ends(est[s], u, e, e2, out, "KILL")

\* All but t hear that u has a nick, or nothing.
Repeats(s, t, u, e2, out, type) ==
    \A r \in Server \ {t} :
        IF r \in est[s] THEN Tidings(out[r], u, type, e2.nick, e2.ts) ELSE Still(out[r], u)

Silent(t, u, out) == \A r \in Server \ {t} : Still(out[r], u)

\* t is told that u cannot have its nick.
Forces(t, u, m, out) == CollisionFnc /\ m.nick \in Nick /\ SaveFor(out[t], u, m.ts)

AccordUid(s, t, u, m, e, e2, out) ==
    /\ e = Absent
    /\ \/ e2 = Absent /\ Ending(out[t], u, "KILL") /\ Silent(t, u, out)
       \/ /\ IsPerson(e2) /\ e2.ts = m.ts /\ Repeats(s, t, u, e2, out, "UID")
          /\ \/ Still(out[t], u) /\ e2.nick = m.nick
             \/ e2.nick = u /\ Forces(t, u, m, out)

AccordNick(s, t, u, m, e, e2, out) ==
    \/ e = Absent /\ e2 = Absent /\ Ending(out[t], u, "KILL") /\ Silent(t, u, out)
    \/ /\ IsPerson(e) /\ e2 = e /\ Silent(t, u, out)
       /\ \/ e.nick = m.nick /\ Still(out[t], u)
          \/ e.nick = u /\ Forces(t, u, m, out)
    \/ /\ IsPerson(e) /\ IsPerson(e2) /\ Repeats(s, t, u, e2, out, "NICK")
       /\ \/ e2.nick = m.nick /\ e2.ts = m.ts /\ m.nick # e.nick /\ Still(out[t], u)
          \/ e2.nick = u /\ Forces(t, u, m, out)
    \/ Ends(est[s], u, e, e2, out, "KILL")

AccordQuit(s, t, u, e, e2, out) ==
    \/ e = Absent /\ e2 = Absent /\ Ending(out[t], u, "KILL") /\ Silent(t, u, out)
    \/ Ends(est[s] \ {t}, u, e, e2, out, "QUIT")

AccordKill(s, t, u, e, e2, out) ==
    \/ ~IsPerson(e) /\ e2 = e /\ \A r \in Server : Still(out[r], u)
    \/ Ends(est[s] \ {t}, u, e, e2, out, "KILL")

AccordSave(s, t, u, m, e, e2, out) ==
    \/ ~Heeds(m, u, e) /\ e2 = e /\ \A r \in Server : Still(out[r], u)
    \/ Heeds(m, u, e) /\ (Saves(s, est[s] \ {t}, u, e, e2, out) \/ Ends(est[s], u, e, e2, out, "KILL"))

\* t says m of u.
Accord(s, t, u, m, e, e2, out) ==
    /\ m.type = "UID" => AccordUid(s, t, u, m, e, e2, out)
    /\ m.type = "NICK" => AccordNick(s, t, u, m, e, e2, out)
    /\ m.type = "QUIT" => AccordQuit(s, t, u, e, e2, out)
    /\ m.type = "KILL" => AccordKill(s, t, u, e, e2, out)
    /\ m.type = "SAVE" => AccordSave(s, t, u, m, e, e2, out)

\* u is saved: what those on either side of s hear of it.
LEMMA SavesSpeaks ==
    ASSUME IInv, NEW s \in Server, NEW peers, NEW u \in User, NEW e \in EntryFor(u), NEW e2, NEW out,
           Saves(s, peers, u, e, e2, out), NEW r, <<s, r>> \in Edge, r \in peers
    PROVE  /\ \A ts \in Int : Gives(u, e, e2, ts, ts, out[r])
           /\ Home[u] \in Behind[<<s, r>>] => Minds(u, e, e2, out[r])
  <1>1. /\ CollisionFnc /\ IsPerson(e) /\ e.nick \in Nick /\ u \notin Nick
        /\ IsPerson(e2) /\ e2.nick = u /\ r \in Server
    BY EdgeFacts, HearsayFacts DEF Saves, IsPerson
  <1>2. \/ SaveFor(out[r], u, e.ts)
        \/ r \notin Way(s, Home[u]) /\ Tidings(out[r], u, "NICK", u, CurrentTime(s))
    BY <1>1 DEF Saves
  <1>3. Home[u] \in Behind[<<s, r>>] => r \in Way(s, Home[u])
    BY WayHop
  <1>4. Home[u] \in Behind[<<s, r>>] => Minds(u, e, e2, out[r])
    BY <1>1, <1>2, <1>3 DEF Minds, SaveFor
  <1>5. ASSUME NEW ts \in Int PROVE Gives(u, e, e2, ts, ts, out[r])
    <2>1. CASE SaveFor(out[r], u, e.ts)
      <3>1. PICK k : Line(out[r], u, k) /\ k.type = "SAVE" /\ k.ts = e.ts
        BY <2>1 DEF SaveFor
      <3> QED BY <1>1, <3>1 DEF Gives
    <2>2. CASE Tidings(out[r], u, "NICK", u, CurrentTime(s))
      <3>1. PICK k : Line(out[r], u, k) /\ k.type = "NICK" /\ k.nick = u
        BY <2>2 DEF Tidings
      <3> QED BY <1>1, <3>1 DEF Gives
    <2> QED BY <1>2, <2>1, <2>2
  <1> QED BY <1>4, <1>5

\* u goes: what those on either side of s hear of it.
LEMMA EndsSpeaks ==
    ASSUME NEW peers, NEW u, NEW e, NEW e2, NEW out, NEW type, type \in {"QUIT", "KILL"},
           Ends(peers, u, e, e2, out, type), NEW r \in Server, r \in peers
    PROVE  /\ \A ts \in Int : Gives(u, e, e2, ts, ts, out[r])
           /\ type = "KILL" => Minds(u, e, e2, out[r])
  <1>1. PICK k : Line(out[r], u, k) /\ k.type = type
    BY DEF Ends, Ending
  <1>2. IsPerson(e) /\ ~IsPerson(e2) /\ e2 = Absent
    BY DEF Ends, IsPerson, Absent
  <1>3. \A ts \in Int : Gives(u, e, e2, ts, ts, out[r])
    BY <1>1, <1>2 DEF Gives
  <1>4. type = "KILL" => Minds(u, e, e2, out[r])
    BY <1>1, <1>2 DEF Minds
  <1> QED BY <1>3, <1>4

\* r is told nothing.
LEMMA StillSpeaks ==
    ASSUME NEW u, NEW w, NEW e, Still(w, u)
    PROVE  /\ \A ts, ts2 \in Int : ts <= ts2 => Gives(u, e, e, ts, ts2, w)
           /\ Minds(u, e, e, w)
           /\ \A ts \in Int : Gives(u, e, e, ts, ts, w)
           /\ \A e2 : ~IsPerson(e) /\ ~IsPerson(e2) => \A ts \in Int : Gives(u, e, e2, ts, ts, w)
  BY DEF Gives, Minds

\* The line is not about u: what those on either side of s hear of u.
LEMMA AsideSpeaks ==
    ASSUME IInv, TInv, NEW s \in Server, NEW u \in User, NEW e2, NEW out, Aside(s, u, client[s][u], e2, out),
           NEW r, <<s, r>> \in Edge
    PROVE  /\ r \in est[s] => \A ts \in Int : Gives(u, client[s][u], e2, ts, ts, out[r])
           /\ Home[u] \in Behind[<<s, r>>] => Minds(u, client[s][u], e2, out[r])
  <1>1. r \in Server /\ client[s][u] \in EntryFor(u)
    BY EdgeFacts, EntriesNamed DEF IInv
  <1>2. PICK e : e = client[s][u]
    OBVIOUS
  <1>3. Home[u] \in Behind[<<s, r>>] => (IsPerson(e) => r \in est[s]) /\ e.on # "unknown"
    <2>1. Home[u] \in Behind[<<s, r>>] => (r \notin est[s] => e = Absent) /\ (e = Absent \/ IsPerson(e))
      BY <1>2, Strange
    <2> QED BY <2>1 DEF IsPerson, Absent
  <1>4. CASE Leaves(u, e, e2, out)
    <2>1. Still(out[r], u)
      BY <1>1, <1>4 DEF Leaves
    <2>2. CASE e2 = e
      BY <1>2, <2>1, <2>2, StillSpeaks
    <2>3. CASE e.on = "unknown" /\ e2 = Absent
      <3>1. ~IsPerson(e) /\ ~IsPerson(e2)
        BY <2>3 DEF IsPerson, Absent
      <3> QED BY <1>2, <1>3, <2>1, <2>3, <3>1, StillSpeaks
    <2> QED BY <1>4, <2>2, <2>3 DEF Leaves
  <1>5. CASE Saves(s, est[s], u, e, e2, out)
    <2>1. IsPerson(e)
      BY <1>5 DEF Saves
    <2>2. r \in est[s] => /\ \A ts \in Int : Gives(u, e, e2, ts, ts, out[r])
                          /\ Home[u] \in Behind[<<s, r>>] => Minds(u, e, e2, out[r])
      BY <1>1, <1>2, <1>5, SavesSpeaks
    <2> QED BY <1>2, <1>3, <2>1, <2>2
  <1>6. CASE Ends(est[s], u, e, e2, out, "KILL")
    <2>1. IsPerson(e)
      BY <1>6 DEF Ends
    <2>2. r \in est[s] => /\ \A ts \in Int : Gives(u, e, e2, ts, ts, out[r])
                          /\ Minds(u, e, e2, out[r])
      BY <1>1, <1>6, EndsSpeaks
    <2> QED BY <1>2, <1>3, <2>1, <2>2
  <1> QED BY <1>2, <1>4, <1>5, <1>6 DEF Aside

\* t, on whose side u is, says m of it.
LEMMA AccordMarks ==
    ASSUME IInv, NEW s \in Server, NEW t \in est[s], <<s, t>> \in Edge, NEW m \in Message, NEW u, Concerns(m, u),
           NEW e \in EntryFor(u), e = Absent \/ IsPerson(e), NEW e2, NEW out,
           Accord(s, t, u, m, e, e2, out)
    PROVE  Marks(u, m, e, e2, out[t])
  <1>1. /\ u \in User /\ m.type \in {"UID", "NICK", "SAVE", "QUIT", "KILL"} /\ t \in Server
        /\ u \notin Nick
    BY ConcernFacts, EdgeFacts, HearsayFacts
  <1>2. \A type, peers : t \in peers /\ Ends(peers, u, e, e2, out, type) => e2 = Absent /\ Ending(out[t], u, type)
    BY <1>1 DEF Ends
  <1>3. CASE m.type = "UID"
    <2>1. AccordUid(s, t, u, m, e, e2, out)
      BY <1>3 DEF Accord
    <2> QED BY <1>3, <2>1 DEF AccordUid, Marks, Ending, Forces, SaveFor
  <1>4. CASE m.type = "NICK"
    <2>1. AccordNick(s, t, u, m, e, e2, out)
      BY <1>4 DEF Accord
    <2>2. CASE Ends(est[s], u, e, e2, out, "KILL")
      BY <1>2, <2>2 DEF Marks, Ending
    <2> QED BY <1>4, <2>1, <2>2 DEF AccordNick, Marks, Ending, Forces, SaveFor
  <1>5. CASE m.type = "QUIT"
    <2>1. AccordQuit(s, t, u, e, e2, out)
      BY <1>5 DEF Accord
    <2>2. Ends(est[s] \ {t}, u, e, e2, out, "QUIT") => e2 = Absent /\ Still(out[t], u)
      BY <1>1 DEF Ends
    <2> QED BY <1>5, <2>1, <2>2 DEF AccordQuit, Marks, Ending
  <1>6. CASE m.type = "KILL"
    <2>1. AccordKill(s, t, u, e, e2, out)
      BY <1>6 DEF Accord
    <2>2. Ends(est[s] \ {t}, u, e, e2, out, "KILL") => e2 = Absent /\ Still(out[t], u)
      BY <1>1 DEF Ends
    <2> QED BY <1>1, <1>6, <2>1, <2>2 DEF AccordKill, Marks
  <1>7. CASE m.type = "SAVE"
    <2>1. AccordSave(s, t, u, m, e, e2, out)
      BY <1>7 DEF Accord
    <2>2. Saves(s, est[s] \ {t}, u, e, e2, out) => IsPerson(e2) /\ e2.nick = u /\ Still(out[t], u)
      BY <1>1 DEF Saves, IsPerson
    <2>3. CASE Ends(est[s], u, e, e2, out, "KILL")
      BY <1>2, <2>3 DEF Marks, Ending
    <2> QED BY <1>1, <1>7, <2>1, <2>2, <2>3 DEF AccordSave, Marks, Heeds
  <1> QED BY <1>1, <1>3, <1>4, <1>5, <1>6, <1>7

\* The others hear of it from s.
LEMMA AccordGives ==
    ASSUME IInv, NEW s \in Server, NEW t, <<s, t>> \in Edge, NEW m \in Message, NEW u, Concerns(m, u),
           NEW e \in EntryFor(u), NEW e2, NEW out, Accord(s, t, u, m, e, e2, out),
           NEW r \in est[s], <<s, r>> \in Edge, r # t, NEW a \in Hearsay, Apt(a, m)
    PROVE  Gives(u, e, e2, a.ts, Since(a, m).ts, out[r])
  <1>1. /\ u \in User /\ m.type \in {"UID", "NICK", "SAVE", "QUIT", "KILL"} /\ r \in Server
        /\ u \notin Nick /\ a.ts \in Int /\ a.ts <= Since(a, m).ts /\ Since(a, m).ts \in Int
        /\ m.type \in {"UID", "NICK"} => m.ts \in Nat
    <2>1. Since(a, m) \in Hearsay /\ Older(a, Since(a, m))
      BY UpdateFacts
    <2> QED BY <2>1, ConcernFacts, EdgeFacts, HearsayFacts DEF Older
  <1>2. PICK b, w : b = Since(a, m).ts /\ w = out[r]
    OBVIOUS
  <1>3. Still(w, u) => Gives(u, e, e, a.ts, b, w)
    BY <1>1, <1>2, StillSpeaks
  <1>4. ASSUME NEW type \in {"QUIT", "KILL"}, Ending(w, u, type), IsPerson(e), e2 = Absent
        PROVE  Gives(u, e, e2, a.ts, b, w)
    <2>1. PICK k : Line(w, u, k) /\ k.type = type
      BY <1>4 DEF Ending
    <2>2. ~IsPerson(e2)
      BY <1>4 DEF IsPerson, Absent
    <2> QED BY <1>1, <1>2, <1>4, <2>1, <2>2 DEF Gives
  <1>5. ASSUME NEW type \in {"QUIT", "KILL"}, NEW peers, r \in peers, Ends(peers, u, e, e2, out, type)
        PROVE  Gives(u, e, e2, a.ts, b, w)
    BY <1>1, <1>2, <1>4, <1>5 DEF Ends
  <1>6. Silent(t, u, out) => Still(w, u)
    BY <1>1, <1>2 DEF Silent
  <1>7. \A type : Repeats(s, t, u, e2, out, type) => Tidings(w, u, type, e2.nick, e2.ts)
    BY <1>1, <1>2 DEF Repeats
  <1>8. CASE m.type = "UID"
    <2>1. AccordUid(s, t, u, m, e, e2, out)
      BY <1>8 DEF Accord
    <2>2. CASE e2 = Absent /\ Silent(t, u, out)
      BY <1>2, <1>3, <1>6, <2>1, <2>2 DEF AccordUid
    <2>3. CASE /\ IsPerson(e2) /\ e2.ts = m.ts /\ Repeats(s, t, u, e2, out, "UID")
               /\ (e2.nick = m.nick \/ e2.nick = u)
      <3>1. PICK k : Line(w, u, k) /\ k.type = "UID" /\ k.nick = e2.nick /\ k.ts = e2.ts
        BY <1>7, <2>3 DEF Tidings
      <3>2. a.ts = -1 /\ ~IsPerson(e)
        BY <1>8, <2>1 DEF Apt, AccordUid, IsPerson, Absent
      <3>3. b = (IF m.nick \in Nick THEN m.ts ELSE 0)
        BY <1>2, <1>8 DEF Since
      <3>4. 0 <= b
        BY <1>1, <1>8, <3>3
      <3>5. ASSUME k.nick \in Nick PROVE e2.ts = k.ts /\ k.ts <= b
        <4>1. e2.nick = m.nick /\ k.ts = m.ts /\ e2.ts = k.ts
          BY <1>1, <2>3, <3>1, <3>5
        <4>2. b = m.ts
          BY <3>1, <3>3, <3>5, <4>1
        <4> QED BY <1>1, <1>8, <4>1, <4>2
      <3> QED BY <1>1, <1>2, <2>3, <3>1, <3>2, <3>4, <3>5 DEF Gives
    <2> QED BY <1>2, <2>1, <2>2, <2>3 DEF AccordUid
  <1>9. CASE m.type = "NICK"
    <2>1. AccordNick(s, t, u, m, e, e2, out)
      BY <1>9 DEF Accord
    <2>2. CASE e2 = e /\ Silent(t, u, out)
      BY <1>2, <1>3, <1>6, <2>2
    <2>3. CASE /\ IsPerson(e) /\ IsPerson(e2) /\ Repeats(s, t, u, e2, out, "NICK")
               /\ (e2.nick = u \/ (e2.nick = m.nick /\ e2.ts = m.ts /\ m.nick # e.nick))
      <3>1. PICK k : Line(w, u, k) /\ k.type = "NICK" /\ k.nick = e2.nick /\ k.ts = e2.ts
        BY <1>7, <2>3 DEF Tidings
      <3>2. m.nick \in Nick => b = m.ts /\ a.ts <= m.ts /\ (CollisionFnc => a.ts < m.ts)
        BY <1>2, <1>9 DEF Since, Apt
      <3>3. ASSUME k.nick \in Nick
            PROVE  /\ k.nick # e.nick /\ e2.ts = k.ts
                   /\ a.ts <= k.ts /\ (CollisionFnc => a.ts < k.ts) /\ k.ts <= b
        <4>1. e2.nick = m.nick /\ e2.ts = m.ts /\ m.nick # e.nick
          BY <1>1, <2>3, <3>1, <3>3
        <4> QED BY <1>1, <1>9, <3>1, <3>2, <3>3, <4>1
      <3> QED BY <1>1, <1>2, <2>3, <3>1, <3>3 DEF Gives
    <2>4. CASE Ends(est[s], u, e, e2, out, "KILL")
      BY <1>2, <1>5, <2>4
    <2> QED BY <1>2, <2>1, <2>2, <2>3, <2>4 DEF AccordNick
  <1>10. CASE m.type = "QUIT"
    <2>1. AccordQuit(s, t, u, e, e2, out)
      BY <1>10 DEF Accord
    <2>2. CASE e2 = e /\ Silent(t, u, out)
      BY <1>2, <1>3, <1>6, <2>2
    <2>3. r \in est[s] \ {t}
      OBVIOUS
    <2> QED BY <1>2, <1>5, <2>1, <2>2, <2>3 DEF AccordQuit
  <1>11. CASE m.type = "KILL"
    <2>1. AccordKill(s, t, u, e, e2, out)
      BY <1>11 DEF Accord
    <2>2. r \in est[s] \ {t}
      OBVIOUS
    <2> QED BY <1>1, <1>2, <1>3, <1>5, <2>1, <2>2 DEF AccordKill
  <1>12. CASE m.type = "SAVE"
    <2>1. AccordSave(s, t, u, m, e, e2, out)
      BY <1>12 DEF Accord
    <2>2. r \in est[s] \ {t} /\ r \in est[s]
      OBVIOUS
    <2>3. CASE Saves(s, est[s] \ {t}, u, e, e2, out)
      <3>1. b = a.ts
        BY <1>2, <1>12 DEF Since
      <3>2. PICK peers : peers = est[s] \ {t}
        OBVIOUS
      <3>3. Gives(u, e, e2, a.ts, a.ts, out[r])
        BY <1>1, <2>2, <2>3, <3>2, SavesSpeaks
      <3> QED BY <1>2, <3>1, <3>3
    <2> QED BY <1>1, <1>2, <1>3, <1>5, <2>1, <2>2, <2>3 DEF AccordSave
  <1> QED BY <1>1, <1>8, <1>9, <1>10, <1>11, <1>12

\* t, on the other side, answers.
LEMMA AccordYields ==
    ASSUME NEW s \in Server, NEW t \in est[s], <<s, t>> \in Edge, NEW m \in Message, NEW u, Concerns(m, u),
           m.type \in {"SAVE", "KILL"}, NEW e, NEW e2, NEW out, Accord(s, t, u, m, e, e2, out)
    PROVE  Yields(u, m, e, e2, out[t])
  <1>1. t \in Server
    BY EdgeFacts
  <1>2. CASE m.type = "KILL"
    <2>1. AccordKill(s, t, u, e, e2, out)
      BY <1>2 DEF Accord
    <2>2. Ends(est[s] \ {t}, u, e, e2, out, "KILL") => ~IsPerson(e2) /\ Still(out[t], u)
      BY <1>1 DEF Ends, IsPerson, Absent
    <2> QED BY <1>1, <1>2, <2>1, <2>2 DEF AccordKill, Yields
  <1>3. CASE m.type = "SAVE"
    <2>1. AccordSave(s, t, u, m, e, e2, out)
      BY <1>3 DEF Accord
    <2>2. Saves(s, est[s] \ {t}, u, e, e2, out) => IsPerson(e2) /\ e2.nick = u /\ Still(out[t], u)
      BY <1>1 DEF Saves, IsPerson
    <2>3. Ends(est[s], u, e, e2, out, "KILL") => ~IsPerson(e2) /\ Ending(out[t], u, "KILL")
      BY <1>1 DEF Ends, IsPerson, Absent
    <2> QED BY <1>1, <1>3, <2>1, <2>2, <2>3 DEF AccordSave, Yields, Ending
  <1> QED BY <1>2, <1>3

\* Those on either side but t hear of it from s.
LEMMA AccordSpeaks ==
    ASSUME IInv, TInv, NEW s \in Server, NEW t, NEW m \in Message, NEW u, Concerns(m, u),
           m.type \in {"SAVE", "KILL"}, NEW e2, NEW out, Accord(s, t, u, m, client[s][u], e2, out),
           NEW r, <<s, r>> \in Edge, r # t
    PROVE  /\ r \in est[s] => \A ts \in Int : Gives(u, client[s][u], e2, ts, ts, out[r])
           /\ Home[u] \in Behind[<<s, r>>] => Minds(u, client[s][u], e2, out[r])
  <1>1. u \in User /\ r \in Server
    BY ConcernFacts, EdgeFacts
  <1>2. PICK e : e = client[s][u]
    OBVIOUS
  <1>3. e \in EntryFor(u) /\ (Home[u] \in Behind[<<s, r>>] /\ IsPerson(e) => r \in est[s])
    <2>1. Home[u] \in Behind[<<s, r>>] => (r \notin est[s] => e = Absent)
      BY <1>1, <1>2, Strange
    <2>2. ~IsPerson(Absent)
      BY DEF IsPerson, Absent
    <2> QED BY <1>1, <1>2, <2>1, <2>2, EntriesNamed DEF IInv
  <1>4. CASE e2 = e /\ \A q \in Server : Still(out[q], u)
    <2>1. Still(out[r], u)
      BY <1>1, <1>4
    <2> QED BY <1>2, <1>4, <2>1, StillSpeaks
  <1>5. ASSUME NEW peers, r \in est[s] => r \in peers, Ends(peers, u, e, e2, out, "KILL")
        PROVE  /\ r \in est[s] => \A ts \in Int : Gives(u, e, e2, ts, ts, out[r])
               /\ Home[u] \in Behind[<<s, r>>] => Minds(u, e, e2, out[r])
    <2>1. IsPerson(e)
      BY <1>5 DEF Ends
    <2>2. r \in peers => /\ \A ts \in Int : Gives(u, e, e2, ts, ts, out[r])
                         /\ Minds(u, e, e2, out[r])
      BY <1>1, <1>5, EndsSpeaks
    <2> QED BY <1>3, <1>5, <2>1, <2>2
  <1>6. ASSUME NEW peers, r \in est[s] => r \in peers, Saves(s, peers, u, e, e2, out)
        PROVE  /\ r \in est[s] => \A ts \in Int : Gives(u, e, e2, ts, ts, out[r])
               /\ Home[u] \in Behind[<<s, r>>] => Minds(u, e, e2, out[r])
    <2>1. IsPerson(e)
      BY <1>6 DEF Saves
    <2>2. r \in peers => /\ \A ts \in Int : Gives(u, e, e2, ts, ts, out[r])
                         /\ Home[u] \in Behind[<<s, r>>] => Minds(u, e, e2, out[r])
      BY <1>1, <1>3, <1>6, SavesSpeaks
    <2> QED BY <1>3, <1>6, <2>1, <2>2
  <1>7. AccordKill(s, t, u, e, e2, out) \/ AccordSave(s, t, u, m, e, e2, out)
    BY <1>2 DEF Accord
  <1>8. r \in est[s] => r \in est[s] \ {t}
    OBVIOUS
  <1>9. PICK peers : peers = est[s] \ {t}
    OBVIOUS
  <1>10. CASE Ends(peers, u, e, e2, out, "KILL")
    BY <1>2, <1>5, <1>8, <1>9, <1>10
  <1>11. CASE Ends(est[s], u, e, e2, out, "KILL")
    BY <1>2, <1>5, <1>11
  <1>12. CASE Saves(s, peers, u, e, e2, out)
    BY <1>2, <1>6, <1>8, <1>9, <1>12
  <1> QED BY <1>4, <1>7, <1>9, <1>10, <1>11, <1>12 DEF AccordKill, AccordSave

-----------------------------------------------------------------------------
(* s reads the first line from t: it has the table c then, and says out.   *)

UserLine == {m \in Message : m.type \in {"UID", "NICK", "SAVE", "QUIT", "KILL"}}

Reads(s, t, c, out) ==
    /\ <<t, s>> \in Edge /\ t \in est[s] /\ chan[<<t, s>>] # <<>>
    /\ Sets(s, c) /\ UNCHANGED <<est, splits, used, now>>
    /\ chan' = Transmit(s, [chan EXCEPT ![<<t, s>>] = Tail(@)], out)
    /\ \A r : <<s, r>> \in Edge => out[r] \in Seq(UserLine) /\ (r \notin est[s] => out[r] = <<>>)

\* It treats each user as the line tells it to.
Treats(s, t, u, c, out) ==
    IF Concerns(Msg(s, t), u) THEN Accord(s, t, u, Msg(s, t), client[s][u], c[u], out)
    ELSE Aside(s, u, client[s][u], c[u], out)

\* While no link has broken one reads only what is still being sent.
LEMMA Attended ==
    ASSUME TInv, NEW A, AInv(A), splits = 0, NEW t, NEW s, <<t, s>> \in Edge,
           t \in est[s], chan[<<t, s>>] # <<>>
    PROVE  Live(t, s)
  <1>1. PICK M : Met(M)
    BY DEF TInv
  <1>2. <<s, t>> \in Edge /\ Open(s, t)
    BY EdgeFacts DEF Open
  <1>3. Open(t, s)
    BY <1>2 DEF AInv, Whole
  <1>4. Hello(s, t, M)
    BY <1>1, <1>2 DEF Met
  <1>5. s \in est[t]
    BY <1>3, <1>4 DEF Open, Hello
  <1> QED BY <1>2, <1>5 DEF Live

\* While no link has broken, reading a line leaves both ends of a link as open as each other.
LEMMA OpenKept ==
    ASSUME IInv, Whole, splits' = splits, est' = est, NEW s \in Server, NEW queues, NEW out,
           chan' = Transmit(s, queues, out),
           \A a, b : <<a, b>> \in Edge =>
               queues[<<a, b>>] = chan[<<a, b>>] \/ (a \in est[b] /\ a # s),
           \A r : <<s, r>> \in Edge => out[r] \in Seq(Message)
    PROVE  Whole'
  <1>1. ASSUME NEW a, NEW b, <<a, b>> \in Edge
        PROVE  Open(b, a)' <=> Open(b, a)
    <2>1. chan[<<a, b>>] \in Seq(Message)
      BY <1>1 DEF IInv, TypeOK
    <2>2. CASE a = s
      <3>1. chan'[<<a, b>>] = IF Open(b, s) THEN chan[<<a, b>>] \o out[b] ELSE chan[<<a, b>>]
        BY <1>1, <2>2, Transmitted
      <3>2. out[b] \in Seq(Message)
        BY <1>1, <2>2
      <3>3. chan[<<a, b>>] # <<>> => chan[<<a, b>>] \o out[b] # <<>>
        BY <2>1, <3>2, ConcatFacts
      <3> QED BY <2>2, <3>1, <3>3 DEF Open
    <2>3. CASE a # s
      <3>1. chan'[<<a, b>>] = queues[<<a, b>>]
        BY <1>1, <2>3, Transmitted
      <3> QED BY <1>1, <2>3, <3>1 DEF Open
    <2> QED BY <2>2, <2>3
  <1>2. \A a, b : <<a, b>> \in Edge => <<b, a>> \in Edge
    BY EdgeFacts
  <1> QED BY <1>1, <1>2 DEF Whole

\* A line of t about one of t's side may be of any type, one about another only an answer.
LEMMA ReadSides ==
    ASSUME IInv, FInv, NEW A, AInv(A), NEW s, NEW t, <<t, s>> \in Edge, chan[<<t, s>>] # <<>>,
           NEW u, Concerns(Msg(s, t), u)
    PROVE  /\ u \in User /\ Msg(s, t) \in Message
           /\ Home[u] \notin Behind[<<s, t>>] => Msg(s, t).type \in {"SAVE", "KILL"}
           /\ Msg(s, t).type = "SAVE" => CollisionFnc
           /\ Msg(s, t) \in Due(t, s)
  <1>1. /\ Msg(s, t) \in Message
        /\ Msg(s, t).type \in {"UID", "NICK"} => Home[Msg(s, t).u] \in Behind[<<s, t>>]
    BY ReadFair
  <1>2. chan[<<t, s>>] \in Seq(Due(t, s))
    BY DEF AInv
  <1>3. Msg(s, t) \in Due(t, s)
    BY <1>2 DEF Msg
  <1>4. /\ u \in User /\ Msg(s, t).u = u
        /\ Msg(s, t).type \in {"UID", "NICK", "SAVE", "QUIT", "KILL"}
    BY <1>1, ConcernFacts
  <1> QED BY <1>1, <1>3, <1>4 DEF Due

\* A line from the side u is on makes sense to s, and s makes of it what it should.
LEMMA HeardApt ==
    ASSUME IInv, IInv', TInv, NEW A, AInv(A), NEW s, NEW t, NEW c, NEW out, Reads(s, t, c, out),
           NEW u, Concerns(Msg(s, t), u), Treats(s, t, u, c, out), Followed(t, s, u)
    PROVE  /\ Marks(u, Msg(s, t), client[s][u], c[u], out[t])
           /\ Live(t, s) => /\ Apt(A[s][u], Msg(s, t))
                            /\ Since(A[s][u], Msg(s, t)) \in Hearsay
  <1>1. /\ <<t, s>> \in Edge /\ <<s, t>> \in Edge /\ s \in Server /\ t \in Server /\ t \in est[s]
        /\ chan[<<t, s>>] # <<>> /\ client'[s] = c /\ out[t] \in Seq(Message)
        /\ Home[u] \in Behind[<<s, t>>]
    <2>1. <<t, s>> \in Edge /\ <<s, t>> \in Edge /\ s \in Server /\ t \in Server
      BY EdgeFacts DEF Reads
    <2>2. out[t] \in Seq(UserLine) /\ UserLine \subseteq Message
      BY <2>1 DEF Reads, UserLine
    <2>3. out[t] \in Seq(Message)
      BY <2>2
    <2> QED BY <2>1, <2>3 DEF Reads, Sets, Followed
  <1>2. chan[<<t, s>>] \in Seq(Message) /\ chan[<<s, t>>] \in Seq(Message) /\ Msg(s, t) \in Message
    BY <1>1, TailTyped DEF IInv, TypeOK, Msg
  <1>3. u \in User
    BY <1>2, ConcernFacts
  <1>4. client[s][u] \in EntryFor(u) /\ c[u] \in EntryFor(u)
    <2>1. client[s] \in Table /\ client'[s] \in Table
      BY <1>1 DEF IInv, TypeOK
    <2> QED BY <1>1, <1>3, <2>1 DEF Table, EntryFor
  <1>5. client[s][u] = Absent \/ IsPerson(client[s][u])
    BY <1>1, <1>3, Strange
  <1>6. Marks(u, Msg(s, t), client[s][u], c[u], out[t])
    <2>1. Accord(s, t, u, Msg(s, t), client[s][u], c[u], out)
      BY DEF Treats
    <2> QED BY <1>1, <1>2, <1>4, <1>5, <2>1, AccordMarks
  <1>7. ASSUME Live(t, s)
        PROVE  Apt(A[s][u], Msg(s, t)) /\ Since(A[s][u], Msg(s, t)) \in Hearsay
    <2>1. Abreast(u, client[t][u], client[s][u], chan[<<t, s>>], chan[<<s, t>>], A[s][u], A[t][u].ts)
      BY <1>3, <1>7 DEF AInv, Carries
    <2> QED BY <1>1, <1>2, <1>3, <1>4, <1>6, <2>1, AbreastHeard DEF Msg
  <1> QED BY <1>6, <1>7

\* A line from the other side is an answer, and s obeys it or not as it should.
LEMMA RepliedTyped ==
    ASSUME IInv, IInv', TInv, FInv, NEW A, AInv(A), NEW s, NEW t, NEW c, NEW out, Reads(s, t, c, out),
           NEW u, Concerns(Msg(s, t), u), Treats(s, t, u, c, out), Followed(s, t, u)
    PROVE  /\ Yields(u, Msg(s, t), client[s][u], c[u], out[t])
           /\ Live(s, t) => /\ Conceded(u, Msg(s, t), client[s][u], c[u], A[t][u]) \in Hearsay
                            /\ Conceded(u, Msg(s, t), client[s][u], c[u], A[t][u]).ts = A[t][u].ts
  <1>1. /\ <<t, s>> \in Edge /\ <<s, t>> \in Edge /\ s \in Server /\ t \in Server /\ t \in est[s]
        /\ chan[<<t, s>>] # <<>> /\ client'[s] = c /\ out[t] \in Seq(Message)
        /\ Home[u] \in Behind[<<t, s>>]
    <2>1. <<t, s>> \in Edge /\ <<s, t>> \in Edge /\ s \in Server /\ t \in Server
      BY EdgeFacts DEF Reads
    <2>2. out[t] \in Seq(UserLine) /\ UserLine \subseteq Message
      BY <2>1 DEF Reads, UserLine
    <2>3. out[t] \in Seq(Message)
      BY <2>2
    <2> QED BY <2>1, <2>3 DEF Reads, Sets, Followed
  <1>2. chan[<<t, s>>] \in Seq(Message) /\ chan[<<s, t>>] \in Seq(Message) /\ Msg(s, t) \in Message
    BY <1>1, TailTyped DEF IInv, TypeOK, Msg
  <1>3. u \in User /\ Msg(s, t).type \in {"SAVE", "KILL"}
    <2>1. Home[u] \notin Behind[<<s, t>>]
      BY <1>1, Opposite
    <2> QED BY <1>1, <2>1, ReadSides
  <1>4. client[s][u] \in EntryFor(u) /\ c[u] \in EntryFor(u) /\ client[t][u] \in EntryFor(u)
    <2>1. client[s] \in Table /\ client'[s] \in Table /\ client[t] \in Table
      BY <1>1 DEF IInv, TypeOK
    <2> QED BY <1>1, <1>3, <2>1 DEF Table, EntryFor
  <1>5. Yields(u, Msg(s, t), client[s][u], c[u], out[t])
    <2>1. Accord(s, t, u, Msg(s, t), client[s][u], c[u], out)
      BY DEF Treats
    <2> QED BY <1>1, <1>2, <1>3, <2>1, AccordYields
  <1>6. ASSUME Live(s, t)
        PROVE  /\ Conceded(u, Msg(s, t), client[s][u], c[u], A[t][u]) \in Hearsay
               /\ Conceded(u, Msg(s, t), client[s][u], c[u], A[t][u]).ts = A[t][u].ts
    <2>1. Abreast(u, client[s][u], client[t][u], chan[<<s, t>>], chan[<<t, s>>], A[t][u], A[s][u].ts)
      BY <1>3, <1>6 DEF AInv, Carries
    <2>2. A[s][u].ts \in Int
      BY <1>1, <1>3, ToldTyped
    <2>3. PICK U, D, w, a, b, e, e2, f :
            /\ U = chan[<<t, s>>] /\ D = chan[<<s, t>>] /\ w = out[t] /\ a = A[t][u] /\ b = A[s][u].ts
            /\ e = client[s][u] /\ e2 = c[u] /\ f = client[t][u]
      OBVIOUS
    <2>4. /\ U \in Seq(Message) /\ D \in Seq(Message) /\ U # <<>> /\ w \in Seq(Message) /\ b \in Int
          /\ e \in EntryFor(u) /\ e2 \in EntryFor(u) /\ f \in EntryFor(u)
          /\ Abreast(u, e, f, D, U, a, b) /\ Concerns(Head(U), u) /\ Yields(u, Head(U), e, e2, w)
      BY <1>1, <1>2, <1>4, <1>5, <2>1, <2>2, <2>3 DEF Msg
    <2>5. /\ Conceded(u, Head(U), e, e2, a) \in Hearsay
          /\ Conceded(u, Head(U), e, e2, a).ts = a.ts
      BY <1>3, <2>4, AbreastYields
    <2> QED BY <2>3, <2>5 DEF Msg
  <1> QED BY <1>5, <1>6

\* What the servers have been told, once s has read the line.
Informs(A, B, s, t, c) ==
    /\ B \in [Server -> [User -> Hearsay]]
    /\ \A u \in User :
         /\ B[s][u] = IF Concerns(Msg(s, t), u) /\ Followed(t, s, u) /\ Live(t, s)
                      THEN Since(A[s][u], Msg(s, t)) ELSE A[s][u]
         /\ B[t][u] = IF Concerns(Msg(s, t), u) /\ Followed(s, t, u) /\ Live(s, t)
                      THEN Conceded(u, Msg(s, t), client[s][u], c[u], A[t][u]) ELSE A[t][u]
         /\ \A r \in Server \ {s, t} : B[r][u] = A[r][u]

\* What the servers have been told, once s has read the line, can be given.
LEMMA Informed ==
    ASSUME IInv, IInv', TInv, FInv, NEW A, AInv(A), NEW s, NEW t, NEW c, NEW out, Reads(s, t, c, out),
           \A u \in User : Treats(s, t, u, c, out)
    PROVE  \E B : Informs(A, B, s, t, c)
  <1>1. s \in Server /\ t \in Server /\ s # t
    BY EdgeFacts DEF Reads
  <1>2. PICK B : B = [r \in Server |-> [u \in User |->
            IF r = s /\ Concerns(Msg(s, t), u) /\ Followed(t, s, u) /\ Live(t, s)
            THEN Since(A[s][u], Msg(s, t))
            ELSE IF r = t /\ Concerns(Msg(s, t), u) /\ Followed(s, t, u) /\ Live(s, t)
            THEN Conceded(u, Msg(s, t), client[s][u], c[u], A[t][u]) ELSE A[r][u]]]
    OBVIOUS
  <1>3. \A r \in Server, u \in User : A[r][u] \in Hearsay
    BY ToldTyped
  <1>4. ASSUME NEW r \in Server, NEW u \in User PROVE B[r][u] \in Hearsay
    <2>1. Treats(s, t, u, c, out)
      OBVIOUS
    <2>2. Concerns(Msg(s, t), u) /\ Followed(t, s, u) /\ Live(t, s)
          => Since(A[s][u], Msg(s, t)) \in Hearsay
      BY <2>1, HeardApt
    <2>3. Concerns(Msg(s, t), u) /\ Followed(s, t, u) /\ Live(s, t)
          => Conceded(u, Msg(s, t), client[s][u], c[u], A[t][u]) \in Hearsay
      BY <2>1, RepliedTyped
    <2> QED BY <1>2, <1>3, <2>2, <2>3
  <1>5. B \in [Server -> [User -> Hearsay]]
    <2>1. B = [r \in Server |-> [u \in User |-> B[r][u]]]
      BY <1>2
    <2>2. \A r \in Server : [u \in User |-> B[r][u]] \in [User -> Hearsay]
      BY <1>4
    <2> HIDE <1>2
    <2> QED BY <2>1, <2>2
  <1> QED BY <1>1, <1>2, <1>5 DEF Informs

\* The queues, once s has read from t.
LEMMA ReadQueues ==
    ASSUME IInv, NEW s, NEW t, NEW c, NEW out, Reads(s, t, c, out)
    PROVE  /\ s \in Server /\ t \in Server /\ s # t /\ <<s, t>> \in Edge /\ <<t, s>> \in Edge
           /\ chan[<<t, s>>] \in Seq(Message) /\ Msg(s, t) \in Message
           /\ chan'[<<t, s>>] = Tail(chan[<<t, s>>])
           /\ \A r : <<s, r>> \in Edge =>
                /\ out[r] \in Seq(Message)
                /\ chan'[<<s, r>>] = IF Open(r, s) THEN chan[<<s, r>>] \o out[r] ELSE chan[<<s, r>>]
           /\ Spread(s, t, out)
           /\ client'[s] = c /\ \A r \in Server \ {s} : client'[r] = client[r]
  <1>1. s \in Server /\ t \in Server /\ s # t /\ <<s, t>> \in Edge /\ <<t, s>> \in Edge
    BY EdgeFacts DEF Reads
  <1>2. chan \in [Edge -> Seq(Message)] /\ chan[<<t, s>>] # <<>>
    BY DEF IInv, TypeOK, Reads
  <1>3. Msg(s, t) \in Message
    BY <1>1, <1>2, TailTyped DEF IInv, Msg
  <1>4. PICK queues : queues = [chan EXCEPT ![<<t, s>>] = Tail(@)]
    OBVIOUS
  <1>5. /\ queues[<<t, s>>] = Tail(chan[<<t, s>>])
        /\ \A e \in Edge : e # <<t, s>> => queues[e] = chan[e]
    BY <1>1, <1>2, <1>4
  <1>6. chan' = Transmit(s, queues, out)
    BY <1>4 DEF Reads
  <1>7. \A a, b : <<a, b>> \in Edge =>
             /\ a # s => chan'[<<a, b>>] = queues[<<a, b>>]
             /\ a = s => chan'[<<a, b>>] = IF Open(b, s) THEN queues[<<a, b>>] \o out[b]
                                                         ELSE queues[<<a, b>>]
    BY <1>6, Transmitted
  <1>8. ASSUME NEW r, <<s, r>> \in Edge
        PROVE  /\ out[r] \in Seq(Message)
               /\ chan'[<<s, r>>] = IF Open(r, s) THEN chan[<<s, r>>] \o out[r] ELSE chan[<<s, r>>]
    <2>1. out[r] \in Seq(UserLine) /\ UserLine \subseteq Message
      BY <1>8 DEF Reads, UserLine
    <2>2. out[r] \in Seq(Message)
      BY <2>1
    <2> QED BY <1>1, <1>5, <1>7, <1>8, <2>2
  <1>9. client'[s] = c /\ \A r \in Server \ {s} : client'[r] = client[r]
    <2>1. client \in [Server -> Table]
      BY DEF IInv, TypeOK
    <2> QED BY <1>1, <2>1 DEF Reads, Sets
  <1>10. Spread(s, t, out)
    BY <1>5, <1>7, <1>8 DEF Spread
  <1> QED BY <1>1, <1>2, <1>3, <1>5, <1>7, <1>8, <1>9, <1>10

\* A link that s does not have is left alone.
LEMMA ReadAway ==
    ASSUME IInv, NEW A, AInv(A), NEW s, NEW t, NEW c, NEW out, Reads(s, t, c, out),
           NEW B, Informs(A, B, s, t, c), NEW u \in User, \A v \in User : Treats(s, t, v, c, out),
           IInv', TInv, FInv, NEW a, NEW b, a # s, b # s, Followed(a, b, u)
    PROVE  Carries(a, b, u, B)'
  <1>1. /\ s \in Server /\ t \in Server /\ s # t /\ <<s, t>> \in Edge /\ <<t, s>> \in Edge
        /\ \A r \in Server \ {s} : client'[r] = client[r]
    BY ReadQueues
  <1>2. /\ <<a, b>> \in Edge /\ <<b, a>> \in Edge /\ a \in Server /\ b \in Server
        /\ Home[u] \in Behind[<<b, a>>]
    BY EdgeFacts DEF Followed
  <1>3. B[b][u] = A[b][u]
    <2>1. CASE b # t
      BY <1>2, <2>1 DEF Informs
    <2>2. CASE b = t
      <3>1. ~Followed(s, t, u)
        BY <1>1, <1>2, <2>2, Beyond DEF Followed
      <3> QED BY <1>1, <2>2, <3>1 DEF Informs
    <2> QED BY <2>1, <2>2
  <1>4. B[a][u].ts = A[a][u].ts
    <2>1. Concerns(Msg(s, t), u) /\ Followed(s, t, u) /\ Live(s, t)
          => Conceded(u, Msg(s, t), client[s][u], c[u], A[t][u]).ts = A[t][u].ts
      BY RepliedTyped
    <2> QED BY <1>2, <2>1 DEF Informs
  <1>5. Carries(a, b, u, A) /\ splits' = splits /\ est' = est
    BY DEF AInv, Reads
  <1>6. chan'[<<a, b>>] = chan[<<a, b>>] /\ chan'[<<b, a>>] = chan[<<b, a>>]
    <2>1. <<a, b>> # <<t, s>> /\ <<b, a>> # <<t, s>>
      OBVIOUS
    <2>2. Spread(s, t, out)
      BY ReadQueues
    <2>3. chan'[<<a, b>>] = chan[<<a, b>>]
      BY <1>2, <2>1, <2>2 DEF Spread
    <2>4. chan'[<<b, a>>] = chan[<<b, a>>]
      BY <1>2, <2>1, <2>2 DEF Spread
    <2> QED BY <2>3, <2>4
  <1>7. client'[a][u] = client[a][u] /\ client'[b][u] = client[b][u]
    BY <1>1, <1>2
  <1> QED BY <1>3, <1>4, <1>5, <1>6, <1>7, CarriesKept

\* A link over which s tells another server than t of u.
LEMMA ReadOut ==
    ASSUME IInv, NEW A, AInv(A), NEW s, NEW t, NEW c, NEW out, Reads(s, t, c, out),
           NEW B, Informs(A, B, s, t, c), NEW u \in User, Treats(s, t, u, c, out),
           IInv', TInv, FInv, NEW r, r # t, Followed(s, r, u)
    PROVE  Carries(s, r, u, B)'
  <1>1. /\ s \in Server /\ t \in Server /\ s # t /\ <<s, t>> \in Edge /\ <<t, s>> \in Edge
        /\ Msg(s, t) \in Message
        /\ client'[s] = c /\ \A x \in Server \ {s} : client'[x] = client[x]
    BY ReadQueues
  <1>2. /\ <<s, r>> \in Edge /\ <<r, s>> \in Edge /\ r \in Server /\ r # s
        /\ Home[u] \in Behind[<<r, s>>] /\ (splits = 0 \/ s = Home[u])
    BY EdgeFacts DEF Followed
  <1>3. /\ out[r] \in Seq(Message) /\ chan'[<<r, s>>] = chan[<<r, s>>]
        /\ chan'[<<s, r>>] = IF Open(r, s) THEN chan[<<s, r>>] \o out[r] ELSE chan[<<s, r>>]
    <2>1. Spread(s, t, out) /\ out[r] \in Seq(Message)
      BY <1>2, ReadQueues
    <2> QED BY <1>1, <1>2, <2>1 DEF Spread
  <1>4. B[r][u] = A[r][u] /\ B[s][u] \in Hearsay /\ A[s][u] \in Hearsay
    BY <1>1, <1>2, ToldTyped DEF Informs
  <1>5. r \in est[s] => Gives(u, client[s][u], client'[s][u], A[s][u].ts, B[s][u].ts, out[r])
    <2>1. CASE ~Concerns(Msg(s, t), u)
      <3>1. Aside(s, u, client[s][u], c[u], out) /\ B[s][u] = A[s][u]
        BY <2>1 DEF Treats, Informs
      <3>2. r \in est[s] => \A ts \in Int : Gives(u, client[s][u], c[u], ts, ts, out[r])
        BY <1>1, <1>2, <3>1, AsideSpeaks
      <3> QED BY <1>1, <1>4, <3>1, <3>2, HearsayFacts
    <2>2. CASE Concerns(Msg(s, t), u) /\ Home[u] \notin Behind[<<s, t>>]
      <3>1. ~Followed(t, s, u) /\ Msg(s, t).type \in {"SAVE", "KILL"}
        BY <2>2, ReadSides DEF Followed, Reads
      <3>2. B[s][u] = A[s][u] /\ Accord(s, t, u, Msg(s, t), client[s][u], c[u], out)
        BY <2>2, <3>1 DEF Treats, Informs
      <3>3. r \in est[s] => \A ts \in Int : Gives(u, client[s][u], c[u], ts, ts, out[r])
        BY <1>1, <1>2, <2>2, <3>1, <3>2, AccordSpeaks
      <3> QED BY <1>1, <1>4, <3>2, <3>3, HearsayFacts
    <2>3. CASE Concerns(Msg(s, t), u) /\ Home[u] \in Behind[<<s, t>>]
      <3>1. s # Home[u]
        BY <1>1, <2>3, Opposite
      <3>2. splits = 0 /\ Followed(t, s, u)
        BY <1>1, <1>2, <2>3, <3>1 DEF Followed
      <3>3. Live(t, s)
        BY <3>2, Attended DEF Reads
      <3>4. Apt(A[s][u], Msg(s, t)) /\ B[s][u] = Since(A[s][u], Msg(s, t))
        BY <2>3, <3>2, <3>3, HeardApt DEF Informs
      <3>5. Accord(s, t, u, Msg(s, t), client[s][u], c[u], out) /\ client[s][u] \in EntryFor(u)
        BY <1>1, <2>3, EntriesNamed DEF Treats, IInv
      <3>6. PICK e, e2, m, a : e = client[s][u] /\ e2 = c[u] /\ m = Msg(s, t) /\ a = A[s][u]
        OBVIOUS
      <3>7. r \in est[s] => Gives(u, e, e2, a.ts, Since(a, m).ts, out[r])
        BY <1>1, <1>2, <1>4, <2>3, <3>4, <3>5, <3>6, AccordGives
      <3> QED BY <1>1, <3>4, <3>6, <3>7
    <2> QED BY <2>1, <2>2, <2>3
  <1>6. Carries(s, r, u, A) /\ splits' = splits /\ est' = est
    BY DEF AInv, Reads
  <1>7. client'[r][u] = client[r][u]
    BY <1>1, <1>2
  <1> QED BY <1>2, <1>3, <1>4, <1>5, <1>6, <1>7, CarriesOut

\* A link over which another server than t tells s of u.
LEMMA ReadIn ==
    ASSUME IInv, NEW A, AInv(A), NEW s, NEW t, NEW c, NEW out, Reads(s, t, c, out),
           NEW B, Informs(A, B, s, t, c), NEW u \in User, Treats(s, t, u, c, out),
           IInv', TInv, FInv, NEW r, r # t, Followed(r, s, u)
    PROVE  Carries(r, s, u, B)'
  <1>1. /\ s \in Server /\ t \in Server /\ s # t /\ <<s, t>> \in Edge /\ <<t, s>> \in Edge
        /\ Msg(s, t) \in Message
        /\ client'[s] = c /\ \A x \in Server \ {s} : client'[x] = client[x]
    BY ReadQueues
  <1>2. /\ <<s, r>> \in Edge /\ <<r, s>> \in Edge /\ r \in Server /\ r # s
        /\ Home[u] \in Behind[<<s, r>>] /\ Home[u] \notin Behind[<<s, t>>]
    <2>1. /\ <<s, r>> \in Edge /\ <<r, s>> \in Edge /\ r \in Server /\ r # s
          /\ Home[u] \in Behind[<<s, r>>]
      BY EdgeFacts DEF Followed
    <2> QED BY <1>1, <2>1, Beyond
  <1>3. /\ out[r] \in Seq(Message) /\ chan'[<<r, s>>] = chan[<<r, s>>]
        /\ chan'[<<s, r>>] = IF Open(r, s) THEN chan[<<s, r>>] \o out[r] ELSE chan[<<s, r>>]
    <2>1. Spread(s, t, out) /\ out[r] \in Seq(Message)
      BY <1>2, ReadQueues
    <2> QED BY <1>1, <1>2, <2>1 DEF Spread
  <1>4. B[r][u] = A[r][u] /\ B[s][u] = A[s][u]
    BY <1>1, <1>2 DEF Informs, Followed
  <1>5. Minds(u, client[s][u], client'[s][u], out[r])
    <2>1. CASE ~Concerns(Msg(s, t), u)
      <3>1. Aside(s, u, client[s][u], c[u], out)
        BY <2>1 DEF Treats
      <3> QED BY <1>1, <1>2, <3>1, AsideSpeaks
    <2>2. CASE Concerns(Msg(s, t), u)
      <3>1. Msg(s, t).type \in {"SAVE", "KILL"}
        BY <1>2, <2>2, ReadSides DEF Reads
      <3>2. Accord(s, t, u, Msg(s, t), client[s][u], c[u], out)
        BY <2>2 DEF Treats
      <3> QED BY <1>1, <1>2, <2>2, <3>1, <3>2, AccordSpeaks
    <2> QED BY <2>1, <2>2
  <1>6. Carries(r, s, u, A) /\ splits' = splits /\ est' = est
    BY DEF AInv, Reads
  <1>7. client'[r][u] = client[r][u]
    BY <1>1, <1>2
  <1> QED BY <1>2, <1>3, <1>4, <1>5, <1>6, <1>7, CarriesIn

\* The link over which t tells s of u.
LEMMA ReadHeard ==
    ASSUME IInv, NEW A, AInv(A), NEW s, NEW t, NEW c, NEW out, Reads(s, t, c, out),
           NEW B, Informs(A, B, s, t, c), NEW u \in User, Treats(s, t, u, c, out),
           IInv', TInv, FInv, Followed(t, s, u)
    PROVE  Carries(t, s, u, B)'
  <1>1. /\ s \in Server /\ t \in Server /\ s # t /\ <<s, t>> \in Edge /\ <<t, s>> \in Edge
        /\ chan'[<<t, s>>] = Tail(chan[<<t, s>>])
        /\ client'[s] = c /\ \A x \in Server \ {s} : client'[x] = client[x]
    BY ReadQueues
  <1>2. /\ out[t] \in Seq(Message)
        /\ chan'[<<s, t>>] = IF Open(t, s) THEN chan[<<s, t>>] \o out[t] ELSE chan[<<s, t>>]
    BY <1>1, ReadQueues
  <1>3. Home[u] \in Behind[<<s, t>>] /\ Home[u] \notin Behind[<<t, s>>]
    BY <1>1, Opposite DEF Followed
  <1>4. /\ Concerns(Msg(s, t), u) /\ Live(t, s) => B[s][u] = Since(A[s][u], Msg(s, t))
        /\ ~(Concerns(Msg(s, t), u) /\ Live(t, s)) => B[s][u] = A[s][u]
        /\ B[t][u] = A[t][u]
    BY <1>1, <1>3 DEF Informs, Followed
  <1>5. Concerns(Msg(s, t), u) => Marks(u, Msg(s, t), client[s][u], client'[s][u], out[t])
    BY <1>1, HeardApt
  <1>6. ~Concerns(Msg(s, t), u) => Minds(u, client[s][u], client'[s][u], out[t])
    <2>1. ~Concerns(Msg(s, t), u) => Aside(s, u, client[s][u], c[u], out)
      BY DEF Treats
    <2> QED BY <1>1, <1>3, <2>1, AsideSpeaks
  <1>7. Carries(t, s, u, A) /\ splits' = splits /\ est' = est /\ t \in est[s] /\ chan[<<t, s>>] # <<>>
    BY DEF AInv, Reads
  <1>8. client'[t][u] = client[t][u]
    BY <1>1
  <1>9. Live(t, s) => IF Concerns(Msg(s, t), u)
                      THEN /\ Marks(u, Msg(s, t), client[s][u], client'[s][u], out[t])
                           /\ B[s][u] = Since(A[s][u], Msg(s, t))
                      ELSE Minds(u, client[s][u], client'[s][u], out[t]) /\ B[s][u] = A[s][u]
    BY <1>4, <1>5, <1>6
  <1>10. PICK w : w = out[t]
    OBVIOUS
  <1> QED BY <1>1, <1>2, <1>3, <1>4, <1>7, <1>8, <1>9, <1>10, CarriesHeard

\* The link over which s tells t of u.
LEMMA ReadReply ==
    ASSUME IInv, NEW A, AInv(A), NEW s, NEW t, NEW c, NEW out, Reads(s, t, c, out),
           NEW B, Informs(A, B, s, t, c), NEW u \in User, Treats(s, t, u, c, out),
           IInv', TInv, FInv, Followed(s, t, u)
    PROVE  Carries(s, t, u, B)'
  <1>1. /\ s \in Server /\ t \in Server /\ s # t /\ <<s, t>> \in Edge /\ <<t, s>> \in Edge
        /\ chan'[<<t, s>>] = Tail(chan[<<t, s>>])
        /\ client'[s] = c /\ \A x \in Server \ {s} : client'[x] = client[x]
    BY ReadQueues
  <1>2. /\ out[t] \in Seq(Message)
        /\ chan'[<<s, t>>] = IF Open(t, s) THEN chan[<<s, t>>] \o out[t] ELSE chan[<<s, t>>]
    BY <1>1, ReadQueues
  <1>3. Home[u] \in Behind[<<t, s>>] /\ Home[u] \notin Behind[<<s, t>>]
    BY <1>1, Opposite DEF Followed
  <1>4. /\ Concerns(Msg(s, t), u) /\ Live(s, t) =>
             B[t][u] = Conceded(u, Msg(s, t), client[s][u], client'[s][u], A[t][u])
        /\ ~(Concerns(Msg(s, t), u) /\ Live(s, t)) => B[t][u] = A[t][u]
        /\ B[s][u] = A[s][u] /\ B[s][u] \in Hearsay
    BY <1>1, <1>3, ToldTyped DEF Informs, Followed
  <1>5. Concerns(Msg(s, t), u) => Yields(u, Msg(s, t), client[s][u], client'[s][u], out[t])
    BY <1>1, RepliedTyped
  <1>6. ~Concerns(Msg(s, t), u) =>
           Gives(u, client[s][u], client'[s][u], A[s][u].ts, B[s][u].ts, out[t])
    <2>1. ~Concerns(Msg(s, t), u) => Aside(s, u, client[s][u], c[u], out)
      BY DEF Treats
    <2>2. t \in est[s] /\ A[s][u].ts \in Int
      BY <1>1, ToldTyped DEF Reads
    <2> QED BY <1>1, <1>4, <2>1, <2>2, AsideSpeaks
  <1>7. Carries(s, t, u, A) /\ splits' = splits /\ est' = est /\ t \in est[s] /\ chan[<<t, s>>] # <<>>
    BY DEF AInv, Reads
  <1>8. client'[t][u] = client[t][u]
    BY <1>1
  <1>9. Live(s, t) =>
          IF Concerns(Msg(s, t), u)
          THEN /\ Yields(u, Msg(s, t), client[s][u], client'[s][u], out[t]) /\ B[s][u] = A[s][u]
               /\ B[t][u] = Conceded(u, Msg(s, t), client[s][u], client'[s][u], A[t][u])
          ELSE /\ Gives(u, client[s][u], client'[s][u], A[s][u].ts, B[s][u].ts, out[t])
               /\ B[t][u] = A[t][u]
    BY <1>4, <1>5, <1>6
  <1>10. PICK w : w = out[t]
    OBVIOUS
  <1> QED BY <1>1, <1>2, <1>4, <1>7, <1>8, <1>9, <1>10, CarriesReply

-----------------------------------------------------------------------------
(* What s says when it reads a line.                                       *)

\* k is what q has about u.
LEMMA LineOnly ==
    ASSUME NEW q, NEW u, NEW k, Line(q, u, k), NEW i \in 1..Len(q), Concerns(q[i], u)
    PROVE  q[i] = k
  BY DEF Line

\* k, which s says to r, is a SAVE only where there is such a thing, and a QUIT only to pass it on.
Sincere(s, t, u, r, k) ==
    /\ k.type = "SAVE" => CollisionFnc
    /\ k.type = "QUIT" => Concerns(Msg(s, t), u) /\ Msg(s, t).type = "QUIT" /\ r # t

\* What s says of u when it reads a line is what may be said to r.
LEMMA ReadSaid ==
    ASSUME NEW s, NEW t, NEW c, NEW out, t \in Server,
           NEW u \in User, Treats(s, t, u, c, out),
           NEW r \in Server, NEW i \in 1..Len(out[r]), Concerns(out[r][i], u)
    PROVE  Sincere(s, t, u, r, out[r][i])
  <1>1. PICK q, k, m, e, e2 : q = out[r] /\ k = out[r][i] /\ m = Msg(s, t) /\ e = client[s][u] /\ e2 = c[u]
    OBVIOUS
  <1>2. ~Still(q, u)
    BY <1>1 DEF Still
  <1>3. \A type : Ending(q, u, type) => k.type = type
    BY <1>1, LineOnly DEF Ending
  <1>4. \A type, nick, ts : Tidings(q, u, type, nick, ts) => k.type = type
    BY <1>1, LineOnly DEF Tidings
  <1>5. \A ts : SaveFor(q, u, ts) => k.type = "SAVE"
    BY <1>1, LineOnly DEF SaveFor
  <1>6. \A peers : Saves(s, peers, u, e, e2, out) => CollisionFnc /\ k.type \in {"SAVE", "NICK"}
    BY <1>1, <1>2, <1>4, <1>5 DEF Saves
  <1>7. \A peers, type : Ends(peers, u, e, e2, out, type) => k.type = type /\ r \in peers
    BY <1>1, <1>2, <1>3 DEF Ends
  <1>8. \A type : Repeats(s, t, u, e2, out, type) => r = t \/ k.type = type
    BY <1>1, <1>2, <1>4 DEF Repeats
  <1>9. Silent(t, u, out) => r = t
    BY <1>1, <1>2 DEF Silent
  <1>10. Forces(t, u, m, out) => CollisionFnc /\ (r = t => k.type = "SAVE")
    BY <1>1, <1>5 DEF Forces
  <1>11. Still(out[t], u) => r # t
    BY <1>1, <1>2
  <1>12. Ending(out[t], u, "KILL") /\ r = t => k.type = "KILL"
    BY <1>1, <1>3
  <1>13. ASSUME ~Concerns(m, u)
         PROVE  (k.type = "SAVE" => CollisionFnc) /\ k.type # "QUIT"
    <2>1. Aside(s, u, e, e2, out)
      BY <1>1, <1>13 DEF Treats
    <2>2. ~Leaves(u, e, e2, out)
      BY <1>1, <1>2 DEF Leaves
    <2> QED BY <1>1, <1>6, <1>7, <2>1, <2>2 DEF Aside
  <1>14. ASSUME Concerns(m, u)
         PROVE  (k.type = "SAVE" => CollisionFnc) /\ (k.type = "QUIT" => Concerns(m, u) /\ m.type = "QUIT" /\ r # t)
    <2>1. Accord(s, t, u, m, e, e2, out) /\ m.type \in {"UID", "NICK", "SAVE", "QUIT", "KILL"}
      BY <1>1, <1>14 DEF Treats, Concerns
    <2>2. CASE m.type = "UID"
      BY <1>1, <1>8, <1>9, <1>10, <1>11, <1>12, <2>1, <2>2 DEF Accord, AccordUid
    <2>3. CASE m.type = "NICK"
      BY <1>1, <1>7, <1>8, <1>9, <1>10, <1>11, <1>12, <2>1, <2>3 DEF Accord, AccordNick
    <2>4. CASE m.type = "QUIT"
      BY <1>1, <1>7, <1>9, <1>12, <1>14, <2>1, <2>4 DEF Accord, AccordQuit
    <2>5. CASE m.type = "KILL"
      BY <1>1, <1>2, <1>7, <2>1, <2>5 DEF Accord, AccordKill
    <2>6. CASE m.type = "SAVE"
      BY <1>1, <1>2, <1>6, <1>7, <2>1, <2>6 DEF Accord, AccordSave
    <2> QED BY <2>1, <2>2, <2>3, <2>4, <2>5, <2>6
  <1>15. k.type = "SAVE" => CollisionFnc
    BY <1>13, <1>14
  <1>16. k.type = "QUIT" => Concerns(m, u) /\ m.type = "QUIT" /\ r # t
    BY <1>13, <1>14
  <1> QED BY <1>1, <1>15, <1>16 DEF Sincere

\* What may be sent may be sent later.
LEMMA DueStays ==
    ASSUME splits' = splits \/ splits' # 0, NEW t, NEW s
    PROVE  Due(t, s) \subseteq Due(t, s)'
  BY DEF Due

\* Queues that hold only what is due, once s has sent out.
LEMMA DuePoured ==
    ASSUME splits' = splits \/ splits' # 0, NEW s, NEW queues, NEW out, chan' = Transmit(s, queues, out),
           \A r : <<s, r>> \in Edge => out[r] \in Seq(Due(s, r)),
           \A a, b : <<a, b>> \in Edge => queues[<<a, b>>] \in Seq(Due(a, b)),
           NEW a, NEW b, <<a, b>> \in Edge
    PROVE  chan'[<<a, b>>] \in Seq(Due(a, b)')
  <1>1. Due(a, b) \subseteq Due(a, b)'
    BY DueStays
  <1>2. PICK S, T : S = Due(a, b) /\ T = Due(a, b)'
    OBVIOUS
  <1>3. chan'[<<a, b>>] \in Seq(S)
    <2>1. /\ a # s => chan'[<<a, b>>] = queues[<<a, b>>]
          /\ a = s => chan'[<<a, b>>] = IF Open(b, s) THEN queues[<<a, b>>] \o out[b]
                                                      ELSE queues[<<a, b>>]
      BY Transmitted
    <2>2. queues[<<a, b>>] \in Seq(S) /\ (a = s => out[b] \in Seq(S))
      BY <1>2
    <2>3. PICK p, w, z : p = queues[<<a, b>>] /\ w = out[b] /\ z = chan'[<<a, b>>]
      OBVIOUS
    <2>4. z = p \/ (a = s /\ z = p \o w)
      BY <2>1, <2>3
    <2>5. p \in Seq(S) /\ (a = s => w \in Seq(S))
      BY <2>2, <2>3
    <2>6. a = s => p \o w \in Seq(S)
      BY <2>5
    <2> QED BY <2>3, <2>4, <2>5, <2>6
  <1>4. Seq(S) \subseteq Seq(T)
    BY <1>1, <1>2
  <1> QED BY <1>2, <1>3, <1>4

\* s's own lines, when it has read one.
LEMMA ReadSaysDue ==
    ASSUME IInv, FInv, NEW A, AInv(A), NEW s, NEW t, NEW c, NEW out, Reads(s, t, c, out),
           \A u \in User : Treats(s, t, u, c, out), NEW r, <<s, r>> \in Edge
    PROVE  out[r] \in Seq(Due(s, r))
  <1>1. /\ s \in Server /\ t \in Server /\ <<s, t>> \in Edge /\ r \in Server /\ Msg(s, t) \in Message
        /\ out[r] \in Seq(UserLine) /\ out[r] \in Seq(Message)
    BY ReadQueues, EdgeFacts DEF Reads
  <1>2. ASSUME NEW i \in 1..Len(out[r])
        PROVE  out[r][i] \in Due(s, r)
    <2>1. PICK k : k = out[r][i]
      OBVIOUS
    <2>2. k \in UserLine /\ k \in Message /\ k.type # "SQUIT"
      <3>1. out[r][i] \in UserLine
        BY <1>1
      <3> QED BY <2>1, <3>1 DEF UserLine
    <2>3. ASSUME k.type \in {"SAVE", "QUIT"}
          PROVE  /\ k.type = "SAVE" => CollisionFnc
                 /\ k.type = "QUIT" => Home[k.u] \in Behind[<<r, s>>]
      <3>1. PICK u : u = k.u
        OBVIOUS
      <3>2. u \in User /\ Concerns(k, u)
        BY <2>2, <2>3, <3>1, ReadMessages DEF Concerns
      <3>3. Treats(s, t, u, c, out) /\ Concerns(out[r][i], u)
        BY <2>1, <3>2
      <3>4. /\ k.type = "SAVE" => CollisionFnc
            /\ k.type = "QUIT" => Concerns(Msg(s, t), u) /\ Msg(s, t).type = "QUIT" /\ r # t
        <4>1. Sincere(s, t, u, r, out[r][i])
          <5>1. t \in Server /\ u \in User /\ r \in Server /\ i \in 1..Len(out[r])
            BY <1>1, <3>2
          <5> QED BY <3>3, <5>1, ReadSaid
        <4> QED BY <2>1, <4>1 DEF Sincere
      <3>5. ASSUME Concerns(Msg(s, t), u), Msg(s, t).type = "QUIT", r # t
            PROVE  Home[u] \in Behind[<<r, s>>]
        <4>1. Home[u] \in Behind[<<s, t>>]
          BY <3>5, ReadSides DEF Reads
        <4> QED BY <1>1, <3>5, <4>1, Beyond
      <3> QED BY <3>1, <3>4, <3>5
    <2> QED BY <2>1, <2>2, <2>3 DEF Due
  <1> QED BY <1>1, <1>2

\* The queues hold what may be sent over them.
LEMMA ReadDue ==
    ASSUME IInv, FInv, NEW A, AInv(A), NEW s, NEW t, NEW c, NEW out, Reads(s, t, c, out),
           \A u \in User : Treats(s, t, u, c, out), NEW a, NEW b, <<a, b>> \in Edge
    PROVE  chan'[<<a, b>>] \in Seq(Due(a, b)')
  <1>1. PICK queues : queues = [chan EXCEPT ![<<t, s>>] = Tail(@)]
    OBVIOUS
  <1>2. ASSUME NEW x, NEW y, <<x, y>> \in Edge
        PROVE  queues[<<x, y>>] \in Seq(Due(x, y))
    <2>1. chan[<<x, y>>] \in Seq(Due(x, y)) /\ chan \in [Edge -> Seq(Message)]
      BY <1>2 DEF AInv, IInv, TypeOK
    <2>2. PICK D, q : D = Due(x, y) /\ q = chan[<<x, y>>]
      OBVIOUS
    <2>3. q # <<>> => Tail(q) \in Seq(D)
      BY <2>1, <2>2
    <2>4. queues[<<x, y>>] = IF <<x, y>> = <<t, s>> THEN Tail(q) ELSE q
      BY <1>1, <1>2, <2>1, <2>2
    <2>5. <<x, y>> = <<t, s>> => q # <<>>
      BY <2>2 DEF Reads
    <2> QED BY <2>1, <2>2, <2>3, <2>4, <2>5
  <1>3. \A r : <<s, r>> \in Edge => out[r] \in Seq(Due(s, r))
    BY ReadSaysDue
  <1>4. chan' = Transmit(s, queues, out) /\ splits' = splits
    BY <1>1 DEF Reads
  <1> QED BY <1>2, <1>3, <1>4, DuePoured

\* A user at home on the server that reads is as it was, or is saved, or gone.
LEMMA ReadHome ==
    ASSUME IInv, FInv, NEW A, AInv(A), NEW s, NEW t, NEW c, NEW out, Reads(s, t, c, out),
           NEW u \in User, Treats(s, t, u, c, out), Home[u] = s
    PROVE  \/ c[u] = client[s][u] \/ c[u] = Absent
           \/ IsPerson(client[s][u]) /\ c[u] = [on |-> "person", nick |-> u, ts |-> CurrentTime(s)]
  <1>1. s \in Server /\ <<s, t>> \in Edge
    BY ReadQueues
  <1>2. CASE ~Concerns(Msg(s, t), u)
    <2>1. Aside(s, u, client[s][u], c[u], out)
      BY <1>2 DEF Treats
    <2> QED BY <2>1 DEF Aside, Leaves, Saves, Ends
  <1>3. CASE Concerns(Msg(s, t), u)
    <2>1. Msg(s, t).type \in {"SAVE", "KILL"}
      <3>1. Home[u] \notin Behind[<<s, t>>]
        BY <1>1, Opposite
      <3> QED BY <1>3, <3>1, ReadSides DEF Reads
    <2>2. Accord(s, t, u, Msg(s, t), client[s][u], c[u], out)
      BY <1>3 DEF Treats
    <2>3. CASE Msg(s, t).type = "KILL"
      BY <2>2, <2>3 DEF Accord, AccordKill, Ends
    <2>4. CASE Msg(s, t).type = "SAVE"
      BY <2>2, <2>4 DEF Accord, AccordSave, Saves, Ends
    <2> QED BY <2>1, <2>3, <2>4
  <1> QED BY <1>2, <1>3

\* What u has told its server is not earlier than what the server has of it.
LEMMA ReadRooted ==
    ASSUME IInv, FInv, NEW A, AInv(A), NEW s, NEW t, NEW c, NEW out, Reads(s, t, c, out),
           NEW B, Informs(A, B, s, t, c), NEW u \in User, Treats(s, t, u, c, out)
    PROVE  Rooted(u, B)'
  <1>1. /\ s \in Server /\ t \in Server /\ s # t /\ <<s, t>> \in Edge /\ <<t, s>> \in Edge
        /\ client'[s] = c /\ \A x \in Server \ {s} : client'[x] = client[x]
    BY ReadQueues
  <1>2. Home[u] \in Server /\ Rooted(u, A) /\ used' = used /\ A[Home[u]][u].ts \in Int
    BY UserAssumption, ToldTyped DEF AInv, Reads
  <1>3. B[Home[u]][u] = A[Home[u]][u]
    <2>1. Home[u] = s => ~Followed(t, s, u)
      BY <1>1, Opposite DEF Followed
    <2>2. Home[u] = t => ~Followed(s, t, u)
      BY <1>1, Opposite DEF Followed
    <2> QED BY <1>1, <1>2, <2>1, <2>2 DEF Informs
  <1>4. CASE Self(u)' = Self(u)
    BY <1>2, <1>3, <1>4 DEF Rooted
  <1>5. CASE Self(u)' = Absent
    <2>1. ~IsPerson(Self(u)') /\ Self(u)'.on # "unknown"
      BY <1>5 DEF IsPerson, Absent
    <2>2. (IsPerson(Self(u)))' <=> IsPerson(Self(u)')
      BY DEF IsPerson
    <2> QED BY <1>2, <1>3, <2>1, <2>2 DEF Rooted
  <1>6. CASE /\ Home[u] = s /\ IsPerson(client[s][u])
             /\ Self(u)' = [on |-> "person", nick |-> u, ts |-> CurrentTime(s)]
    <2>1. /\ 0 <= A[Home[u]][u].ts /\ A[Home[u]][u].ts <= Self(u).ts
          /\ Self(u).ts <= CurrentTime(s) /\ Self(u).ts \in Nat /\ CurrentTime(s) \in Nat
      <3>1. IsPerson(Self(u)) /\ Self(u).on # "absent"
        BY <1>6 DEF Self, IsPerson
      <3>2. Own(u)
        BY DEF FInv
      <3> QED BY <1>1, <1>2, <1>6, <3>1, <3>2, SelfTyped, ClockTyped DEF Rooted, Own, IInv
    <2>2. Self(u)'.ts = CurrentTime(s) /\ Self(u)'.nick \notin Nick /\ Self(u)'.on = "person"
      BY <1>6, HearsayFacts
    <2>3. A[Home[u]][u].ts <= Self(u)'.ts
      BY <1>2, <2>1, <2>2
    <2> QED BY <1>2, <1>3, <2>1, <2>2, <2>3 DEF Rooted
  <1>7. \/ Self(u)' = Self(u) \/ Self(u)' = Absent
        \/ /\ Home[u] = s /\ IsPerson(client[s][u])
           /\ Self(u)' = [on |-> "person", nick |-> u, ts |-> CurrentTime(s)]
    <2>1. Home[u] # s => Self(u)' = Self(u)
      BY <1>1, <1>2 DEF Self
    <2>2. Home[u] = s => Self(u)' = c[u] /\ Self(u) = client[s][u]
      BY <1>1 DEF Self
    <2> QED BY <2>1, <2>2, ReadHome
  <1> QED BY <1>4, <1>5, <1>6, <1>7

\* What AInv asks is kept when a line about users is read as it tells.
LEMMA ReadStep ==
    ASSUME IInv, IInv', TInv, FInv, NEW A, AInv(A), NEW s, NEW t, NEW c, NEW out, Reads(s, t, c, out),
           \A u \in User : Treats(s, t, u, c, out)
    PROVE  \E B : AInv(B)'
  <1>1. PICK B : Informs(A, B, s, t, c)
    BY Informed
  <1>2. B \in [Server -> [User -> Hearsay]]
    BY <1>1 DEF Informs
  <1>3. \A a, b : <<a, b>> \in Edge => chan'[<<a, b>>] \in Seq(Due(a, b)')
    BY ReadDue
  <1>4. \A u \in User : Rooted(u, B)'
    BY <1>1, ReadRooted
  <1>5. ASSUME NEW a, NEW b, NEW u \in User, Followed(a, b, u)'
        PROVE  Carries(a, b, u, B)'
    <2>1. Followed(a, b, u)
      BY <1>5 DEF Followed, Reads
    <2>2. CASE a # s /\ b # s
      BY <1>1, <2>1, <2>2, ReadAway
    <2>3. CASE a = s /\ b = t
      BY <1>1, <2>1, <2>3, ReadReply
    <2>4. CASE a = s /\ b # t
      BY <1>1, <2>1, <2>4, ReadOut
    <2>5. CASE b = s /\ a = t
      BY <1>1, <2>1, <2>5, ReadHeard
    <2>6. CASE b = s /\ a # t
      BY <1>1, <2>1, <2>6, ReadIn
    <2> QED BY <2>2, <2>3, <2>4, <2>5, <2>6
  <1>6. Whole'
    <2>1. PICK queues : queues = [chan EXCEPT ![<<t, s>>] = Tail(@)]
      OBVIOUS
    <2>2. s \in Server /\ s # t /\ t \in est[s] /\ <<t, s>> \in Edge
      BY ReadQueues DEF Reads
    <2>3. \A a, b : <<a, b>> \in Edge =>
               queues[<<a, b>>] = chan[<<a, b>>] \/ (a \in est[b] /\ a # s)
      BY <2>1, <2>2 DEF IInv, TypeOK
    <2>4. \A r : <<s, r>> \in Edge => out[r] \in Seq(Message)
      BY ReadQueues
    <2>5. chan' = Transmit(s, queues, out) /\ est' = est /\ splits' = splits /\ Whole
      BY <2>1 DEF Reads, AInv
    <2> QED BY <2>2, <2>3, <2>4, <2>5, OpenKept
  <1> QED BY <1>2, <1>3, <1>4, <1>5, <1>6 DEF AInv

=============================================================================
