-------------------------- MODULE NickDeserved_proofs --------------------------
(***************************************************************************)
(* Why a user loses its nick or its life: it is saved, or killed without   *)
(* an operator, for a claim that beats its own.  FInv says that what the   *)
(* servers and the lines under way say of a user is no more than what it   *)
(* has claimed, and that a SAVE or KILL under way has such a reason; OInv  *)
(* that on each link a user is brought in before anything else is said of  *)
(* it.  They are inductive together, on top of IInv and TInv.              *)
(***************************************************************************)
EXTENDS NickNet_proofs
-----------------------------------------------------------------------------
(* The invariants.  A claim is <<user, nick, ts>>, a member of claims.     *)

Enrolled(u) == u \in used /\ Self(u).on # "unknown"

Gone(u) == u \in used /\ Self(u).on = "absent"

Bested(u) == \E c, d \in claims : c[1] = u /\ Beats(d, c)

Outdone(u, n, ts) == \E d \in claims : Beats(d, <<u, n, ts>>)

\* A KILL for u may be under way.
Excused(u) == Oper = {} => Gone(u) \/ Bested(u)

\* u has had the nick n since ts: the last nick it had, if it has changed since.
Heard(u, n, ts) ==
    /\ Enrolled(u)
    /\ n \in Nick =>
         /\ <<u, n, ts>> \in claims
         /\ IsPerson(Self(u)) /\ ~SameSecond =>
              /\ ts <= Self(u).ts
              /\ ts = Self(u).ts /\ Self(u).nick \in Nick => n = Self(u).nick

\* A SAVE for u and ts may be under way.
Charged(u, ts) ==
    /\ Enrolled(u) /\ Excused(u)
    /\ IsPerson(Self(u)) /\ ~SameSecond =>
         /\ ts <= Self(u).ts
         /\ ts = Self(u).ts /\ Self(u).nick \in Nick => Outdone(u, Self(u).nick, ts)

Fair(m) ==
    /\ m.type \in {"UID", "NICK"} => Heard(m.u, m.nick, m.ts)
    /\ m.type = "SAVE" => Charged(m.u, m.ts)
    /\ m.type = "QUIT" /\ Oper = {} => Gone(m.u)
    /\ m.type = "KILL" => Excused(m.u) /\ (m.src \in User => Oper # {})

\* What t may send to s: lines that are fair, and tell of users on t's side.
Lines(t, s) ==
    {m \in Message : Fair(m) /\ (m.type \in {"UID", "NICK"} => Home[m.u] \in Behind[<<s, t>>])}

\* u has its last nick by a claim of its own.
Own(u) ==
    Self(u).on # "absent" =>
      /\ u \in used /\ Self(u).ts <= CurrentTime(Home[u])
      /\ Self(u).nick \in Nick => <<u, Self(u).nick, Self(u).ts>> \in claims

Entries(s) ==
    \A u \in User : Home[u] # s /\ client[s][u].on # "absent" =>
         IsPerson(client[s][u]) /\ Heard(u, client[s][u].nick, client[s][u].ts)

FInv ==
    /\ \A u \in User : Own(u)
    /\ \A s \in Server : Entries(s)
    /\ \A t, s : <<t, s>> \in Edge => chan[<<t, s>>] \in Seq(Lines(t, s))

-----------------------------------------------------------------------------
(* What is so stays so.                                                    *)

\* A step of u's own entry, once it has registered.
Evolves(u) ==
    /\ u \in used => u \in used'
    /\ Enrolled(u) =>
         \/ Self(u)' = Self(u)
         \/ Self(u)'.on = "absent"
         \/ /\ IsPerson(Self(u)) /\ Self(u)'.on = "person" /\ Self(u)'.ts >= Self(u).ts
            /\ Self(u)'.nick \in Nick /\ ~SameSecond => Self(u)'.ts > Self(u).ts

LEMMA SelfTyped ==
    ASSUME TypeOK, NEW u \in User
    PROVE  /\ Home[u] \in Server /\ Self(u) = client[Home[u]][u]
           /\ Self(u).ts \in Nat /\ Self(u).on \in {"absent", "unknown", "person"}
           /\ Self(u).on # "absent" => Self(u).nick \in NameFor(u)
  BY UserAssumption DEF TypeOK, Table, Entry, Self, Absent

LEMMA Stays ==
    ASSUME IInv, IInv', claims \subseteq claims', NEW u \in User, Evolves(u)
    PROVE  /\ Enrolled(u) => Enrolled(u)'
           /\ Gone(u) => Gone(u)'
           /\ Excused(u) => Excused(u)'
           /\ \A n, ts : ts \in Nat /\ Heard(u, n, ts) => Heard(u, n, ts)'
           /\ \A ts \in Nat : Charged(u, ts) => Charged(u, ts)'
  <1>1. /\ Self(u).ts \in Nat /\ Self(u)'.ts \in Nat
        /\ Self(u).on \in {"absent", "unknown", "person"}
    <2>1. TypeOK /\ TypeOK'
      BY DEF IInv
    <2>2. Self(u).ts \in Nat /\ Self(u).on \in {"absent", "unknown", "person"}
      BY <2>1, SelfTyped
    <2>3. Self(u)'.ts \in Nat
      BY <2>1, UserAssumption DEF TypeOK, Table, Entry, Self, Absent
    <2> QED BY <2>2, <2>3
  <1>2. Enrolled(u) => Enrolled(u)'
    BY DEF Evolves, Enrolled
  <1>3. Gone(u) => Gone(u)'
    BY DEF Evolves, Enrolled, Gone, IsPerson
  <1>4. Bested(u) => Bested(u)'
    BY DEF Bested, Beats
  <1>5. Excused(u) => Excused(u)'
    BY <1>3, <1>4 DEF Excused
  <1>6. ASSUME NEW n, NEW ts \in Nat, Heard(u, n, ts) PROVE Heard(u, n, ts)'
    <2>1. n \in Nick => <<u, n, ts>> \in claims'
      BY <1>6 DEF Heard
    <2>2. ASSUME n \in Nick, IsPerson(Self(u))', ~SameSecond
          PROVE  /\ ts <= Self(u)'.ts
                 /\ ts = Self(u)'.ts /\ Self(u)'.nick \in Nick => n = Self(u)'.nick
      <3>1. CASE Self(u)' = Self(u)
        BY <1>6, <2>2, <3>1 DEF Heard, IsPerson
      <3>2. CASE IsPerson(Self(u)) /\ Self(u)'.ts >= Self(u).ts
                 /\ (Self(u)'.nick \in Nick => Self(u)'.ts > Self(u).ts)
        <4>1. ts <= Self(u).ts
          BY <1>6, <2>2, <3>2 DEF Heard
        <4> QED BY <1>1, <3>2, <4>1
      <3> QED BY <1>6, <2>2, <3>1, <3>2 DEF Evolves, Heard, IsPerson
    <2> QED BY <1>2, <1>6, <2>1, <2>2 DEF Heard
  <1>7. ASSUME NEW ts \in Nat, Charged(u, ts) PROVE Charged(u, ts)'
    <2>1. ASSUME IsPerson(Self(u))', ~SameSecond
          PROVE  /\ ts <= Self(u)'.ts
                 /\ ts = Self(u)'.ts /\ Self(u)'.nick \in Nick => Outdone(u, Self(u).nick, ts)'
      <3>1. CASE Self(u)' = Self(u)
        <4>1. /\ ts <= Self(u).ts
              /\ ts = Self(u).ts /\ Self(u).nick \in Nick => Outdone(u, Self(u).nick, ts)
          BY <1>7, <2>1, <3>1 DEF Charged, IsPerson
        <4>2. Outdone(u, Self(u).nick, ts) => Outdone(u, Self(u).nick, ts)'
          BY <3>1 DEF Outdone, Beats
        <4> QED BY <3>1, <4>1, <4>2
      <3>2. CASE IsPerson(Self(u)) /\ Self(u)'.ts >= Self(u).ts
                 /\ (Self(u)'.nick \in Nick => Self(u)'.ts > Self(u).ts)
        <4>1. ts <= Self(u).ts
          BY <1>7, <2>1, <3>2 DEF Charged
        <4> QED BY <1>1, <3>2, <4>1
      <3> QED BY <1>7, <2>1, <3>1, <3>2 DEF Evolves, Charged, IsPerson
    <2> QED BY <1>2, <1>5, <1>7, <2>1 DEF Charged
  <1> QED BY <1>2, <1>3, <1>5, <1>6, <1>7

LEMMA LinesStay ==
    ASSUME IInv, IInv', claims \subseteq claims', \A u \in User : Evolves(u), NEW t, NEW s
    PROVE  Lines(t, s) \subseteq Lines(t, s)'
  <1> SUFFICES ASSUME NEW m \in Message, Fair(m) PROVE Fair(m)'
    BY DEF Lines
  <1>1. m.type \in {"UID", "NICK"} => Heard(m.u, m.nick, m.ts)'
    BY ReadMessages, Stays DEF Fair
  <1>2. m.type = "SAVE" => Charged(m.u, m.ts)'
    BY ReadMessages, Stays DEF Fair
  <1>3. m.type = "QUIT" /\ Oper = {} => Gone(m.u)'
    BY ReadMessages, Stays DEF Fair
  <1>4. m.type = "KILL" => Excused(m.u)' /\ (m.src \in User => Oper # {})
    BY ReadMessages, Stays DEF Fair
  <1> QED BY <1>1, <1>2, <1>3, <1>4 DEF Fair
-----------------------------------------------------------------------------
(* What a handler of s may do to a user, and say.                          *)

\* The forced change of u at s, which is deserved if u is at home there.
Saved(s, u, e) ==
    /\ e = [on |-> "person", nick |-> u, ts |-> CurrentTime(s)]
    /\ IsPerson(client[s][u])
    /\ ~SameSecond /\ client[s][u].nick \in Nick => Outdone(u, client[s][u].nick, client[s][u].ts)

\* X are the users that s is being told of.
Fate(s, X, u, e) ==
    \/ e.on = "absent" /\ (IsPerson(client[s][u]) \/ u \in X => Excused(u))
    \/ Home[u] = s /\ (e = client[s][u] \/ Saved(s, u, e))
    \/ /\ Home[u] # s /\ e.on = "person" /\ Heard(u, e.nick, e.ts)
       /\ IsPerson(client[s][u]) \/ u \in X

\* A nick change is told only of a user that s has.
Said(s, r) ==
    {m \in Lines(s, r) : m.type # "SQUIT" /\ (m.type = "NICK" => IsPerson(client[s][m.u]))}

Just(s, X, L) ==
    /\ L = [client |-> L.client, nd |-> L.nd, out |-> L.out]
    /\ L.client = [u \in User |-> L.client[u]]
    /\ L.out = [r \in Server |-> L.out[r]]
    /\ \A u \in User : Fate(s, X, u, L.client[u])
    /\ \A r : <<s, r>> \in Edge => L.out[r] \in Seq(Said(s, r)) /\ (r \notin est[s] => L.out[r] = <<>>)

LEMMA FateEvolves ==
    ASSUME NEW X, IInv, FInv, NEW s \in Server, NEW c, client' = [client EXCEPT ![s] = c],
           used' = used, NEW u \in User, Fate(s, X, u, c[u])
    PROVE  Evolves(u)
  <1>1. Self(u)' = IF Home[u] = s THEN c[u] ELSE Self(u)
    BY UserAssumption DEF Self, IInv, TypeOK
  <1>2. CASE Home[u] = s
    <2>1. Self(u) = client[s][u] /\ Self(u)' = c[u]
      BY <1>1, <1>2 DEF Self
    <2>2. CASE c[u].on = "absent" \/ c[u] = client[s][u]
      BY <2>1, <2>2 DEF Evolves
    <2>3. CASE Saved(s, u, c[u])
      <3>1. Self(u)'.on = "person" /\ Self(u)'.nick = u /\ Self(u)'.ts = CurrentTime(s)
        BY <2>1, <2>3 DEF Saved
      <3>2. IsPerson(Self(u)) /\ Self(u).ts <= CurrentTime(s)
        BY <1>2, <2>1, <2>3 DEF Saved, FInv, Own, IsPerson
      <3>3. u \notin Nick
        BY NameFacts
      <3>4. CurrentTime(s) \in Nat /\ Self(u).ts \in Nat
        BY ClockTyped, SelfTyped DEF IInv
      <3> QED BY <3>1, <3>2, <3>3, <3>4 DEF Evolves
    <2> QED BY <1>2, <2>2, <2>3 DEF Fate
  <1>3. CASE Home[u] # s
    BY <1>1, <1>3 DEF Evolves
  <1> QED BY <1>2, <1>3

LEMMA FateOwn ==
    ASSUME NEW X, IInv, FInv, NEW s \in Server, NEW c, client' = [client EXCEPT ![s] = c],
           used' = used, claims' = claims, now' = now, NEW u \in User, Fate(s, X, u, c[u])
    PROVE  Own(u)'
  <1>1. Self(u)' = IF Home[u] = s THEN c[u] ELSE Self(u)
    BY UserAssumption DEF Self, IInv, TypeOK
  <1>2. Own(u) /\ CurrentTime(Home[u])' = CurrentTime(Home[u])
    BY DEF FInv, CurrentTime
  <1>3. CASE Home[u] # s \/ c[u] = client[s][u]
    <2>1. Self(u)' = Self(u)
      BY <1>1, <1>3 DEF Self
    <2> QED BY <1>2, <2>1 DEF Own
  <1>4. CASE Home[u] = s /\ c[u].on = "absent"
    BY <1>1, <1>4 DEF Own
  <1>5. CASE Home[u] = s /\ Saved(s, u, c[u])
    <2>1. Self(u)'.nick = u /\ Self(u)'.ts = CurrentTime(s)
      BY <1>1, <1>5 DEF Saved
    <2>2. Self(u).on # "absent"
      BY <1>5 DEF Saved, Self, IsPerson
    <2>3. u \notin Nick /\ CurrentTime(s) <= CurrentTime(s)
      BY NameFacts, ClockTyped DEF IInv
    <2> QED BY <1>2, <1>5, <2>1, <2>2, <2>3 DEF Own
  <1> QED BY <1>3, <1>4, <1>5 DEF Fate

\* What is said is put behind what is under way.
LEMMA Poured ==
    ASSUME NEW s, NEW queues, NEW out, chan' = Transmit(s, queues, out),
           \A r : <<s, r>> \in Edge => out[r] \in Seq(Lines(s, r)'),
           \A a, b : <<a, b>> \in Edge => queues[<<a, b>>] \in Seq(Lines(a, b)'),
           NEW a, NEW b, <<a, b>> \in Edge
    PROVE  chan'[<<a, b>>] \in Seq(Lines(a, b)')
  <1>1. /\ a # s => chan'[<<a, b>>] = queues[<<a, b>>]
        /\ a = s => chan'[<<a, b>>] = IF Open(b, s) THEN queues[<<a, b>>] \o out[b]
                                                    ELSE queues[<<a, b>>]
    BY Transmitted
  <1>2. a = s => queues[<<a, b>>] \o out[b] \in Seq(Lines(a, b)')
    OBVIOUS
  <1> QED BY <1>1, <1>2

LEMMA JustKeeps ==
    ASSUME IInv, IInv', FInv, NEW s \in Server, NEW X, NEW L, Just(s, X, L),
           client' = [client EXCEPT ![s] = L.client],
           used' = used, claims' = claims, now' = now,
           NEW queues, chan' = Transmit(s, queues, L.out),
           \A a, b : <<a, b>> \in Edge => queues[<<a, b>>] \in Seq(Lines(a, b))
    PROVE  FInv' /\ \A u \in User : Evolves(u)
  <1>1. \A u \in User : Evolves(u)
    BY FateEvolves DEF Just
  <1>2. \A u \in User : Own(u)'
    BY FateOwn DEF Just
  <1>3. ASSUME NEW r \in Server PROVE Entries(r)'
    <2> SUFFICES ASSUME NEW u \in User, Home[u] # r, client'[r][u].on # "absent"
                 PROVE  IsPerson(client[r][u])' /\ Heard(u, client[r][u].nick, client[r][u].ts)'
      BY DEF Entries
    <2>1. PICK n, ts : n = client'[r][u].nick /\ ts = client'[r][u].ts
      OBVIOUS
    <2>2. ts \in Nat
      BY <2>1 DEF IInv, TypeOK, Table, Entry
    <2>3. Heard(u, n, ts) /\ client'[r][u].on = "person"
      <3>1. CASE r = s
        <4>1. client'[r][u] = L.client[u]
          BY <3>1 DEF IInv, TypeOK
        <4> QED BY <2>1, <3>1, <4>1 DEF Just, Fate
      <3>2. CASE r # s
        <4>1. client'[r] = client[r]
          BY <3>2 DEF IInv, TypeOK
        <4> QED BY <2>1, <4>1 DEF FInv, Entries, IsPerson
      <3> QED BY <3>1, <3>2
    <2>4. Heard(u, n, ts)'
      BY <1>1, <2>2, <2>3, Stays
    <2> QED BY <2>1, <2>3, <2>4 DEF Heard, IsPerson
  <1>4. ASSUME NEW a, NEW b PROVE Lines(a, b) \subseteq Lines(a, b)'
    BY <1>1, LinesStay
  <1>5. ASSUME NEW r, <<s, r>> \in Edge PROVE L.out[r] \in Seq(Lines(s, r)')
    <2>1. L.out[r] \in Seq(Said(s, r))
      BY <1>5 DEF Just
    <2>2. Said(s, r) \subseteq Lines(s, r)'
      BY <1>4 DEF Said
    <2> QED BY <2>1, <2>2
  <1>6. \A a, b : <<a, b>> \in Edge => queues[<<a, b>>] \in Seq(Lines(a, b)')
    BY <1>4
  <1>7. \A a, b : <<a, b>> \in Edge => chan'[<<a, b>>] \in Seq(Lines(a, b)')
    BY <1>5, <1>6, Poured
  <1> QED BY <1>1, <1>2, <1>3, <1>7 DEF FInv

LEMMA OwnJust ==
    ASSUME IInv, IInv', FInv, NEW s \in Server, NEW X, NEW L, Just(s, X, L), Commit(s, L),
           used' = used, claims' = claims, now' = now
    PROVE  FInv' /\ \A u \in User : Evolves(u)
  <1>1. \A a, b : <<a, b>> \in Edge => chan[<<a, b>>] \in Seq(Lines(a, b))
    BY DEF FInv
  <1> QED BY <1>1, JustKeeps DEF Commit

LEMMA ReadJust ==
    ASSUME IInv, IInv', FInv, NEW s \in Server, NEW t, <<t, s>> \in Edge, chan[<<t, s>>] # <<>>,
           NEW X, NEW L, Just(s, X, L), CommitFrom(s, t, L), used' = used, claims' = claims, now' = now
    PROVE  FInv' /\ \A u \in User : Evolves(u)
  <1> DEFINE queues == [chan EXCEPT ![<<t, s>>] = Tail(@)]
  <1>1. ASSUME NEW a, NEW b, <<a, b>> \in Edge
        PROVE  queues[<<a, b>>] \in Seq(Lines(a, b))
    <2>1. chan[<<a, b>>] \in Seq(Lines(a, b))
      BY <1>1 DEF FInv
    <2>2. queues[<<a, b>>] = IF <<a, b>> = <<t, s>> THEN Tail(chan[<<a, b>>]) ELSE chan[<<a, b>>]
      BY <1>1 DEF IInv, TypeOK
    <2>3. <<a, b>> = <<t, s>> => Tail(chan[<<a, b>>]) \in Seq(Lines(a, b))
      BY <2>1
    <2> QED BY <2>1, <2>2, <2>3
  <1>2. chan' = Transmit(s, queues, L.out) /\ client' = [client EXCEPT ![s] = L.client]
    BY DEF CommitFrom
  <1> HIDE DEF queues
  <1> QED BY <1>1, <1>2, JustKeeps
-----------------------------------------------------------------------------
(* The helpers do no more.                                                 *)

\* s may say m to each of the peers.
Sayable(s, peers, m) ==
    peers \subseteq est[s] /\ \A r \in peers : <<s, r>> \in Edge => m \in Said(s, r)

LEMMA KillSayable ==
    ASSUME NEW s \in Server, NEW peers \in SUBSET est[s], NEW u \in User, Excused(u)
    PROVE  Sayable(s, peers, [type |-> "KILL", u |-> u, src |-> s])
  <1> DEFINE m == [type |-> "KILL", u |-> u, src |-> s]
  <1>1. m \in Message /\ m.type = "KILL" /\ m.u = u /\ m.src = s
    BY BuiltMessages
  <1>2. s \notin User
    BY SidAssumption
  <1> HIDE DEF m
  <1>3. m.type \notin {"UID", "NICK", "SAVE", "QUIT"}
    BY <1>1
  <1>4. Fair(m)
    BY <1>1, <1>2, <1>3 DEF Fair
  <1> QED BY <1>1, <1>3, <1>4 DEF Sayable, Said, Lines, m

LEMMA SaveSayable ==
    ASSUME NEW s, NEW peers \in SUBSET est[s], NEW u \in User, NEW ts \in Nat, Charged(u, ts)
    PROVE  Sayable(s, peers, [type |-> "SAVE", u |-> u, ts |-> ts])
  <1> DEFINE m == [type |-> "SAVE", u |-> u, ts |-> ts]
  <1>1. m \in Message /\ m.type = "SAVE" /\ m.u = u /\ m.ts = ts
    BY BuiltMessages
  <1> HIDE DEF m
  <1>3. m.type \notin {"UID", "NICK", "KILL", "QUIT"}
    BY <1>1
  <1>4. Fair(m)
    BY <1>1, <1>3 DEF Fair
  <1> QED BY <1>1, <1>3, <1>4 DEF Sayable, Said, Lines, m

\* Every peer in peers has u on the side of s.
Away(s, peers, u) == \A r \in peers : <<s, r>> \in Edge => Home[u] \in Behind[<<r, s>>]

LEMMA NickSayable ==
    ASSUME NEW s, NEW peers \in SUBSET est[s], NEW u \in User, NEW n \in NameFor(u), NEW ts \in Nat,
           Heard(u, n, ts), Away(s, peers, u), IsPerson(client[s][u])
    PROVE  Sayable(s, peers, [type |-> "NICK", u |-> u, nick |-> n, ts |-> ts])
  <1> DEFINE m == [type |-> "NICK", u |-> u, nick |-> n, ts |-> ts]
  <1>1. m \in Message /\ m.type = "NICK" /\ m.u = u /\ m.nick = n /\ m.ts = ts
    BY BuiltMessages
  <1> HIDE DEF m
  <1>3. m.type \notin {"SAVE", "KILL", "QUIT"}
    BY <1>1
  <1>4. Fair(m)
    BY <1>1, <1>3 DEF Fair
  <1>5. \A r \in peers : <<s, r>> \in Edge => m \in Said(s, r)
    BY <1>1, <1>4 DEF Away, Said, Lines
  <1> QED BY <1>5 DEF Sayable, m

LEMMA UidSayable ==
    ASSUME NEW s, NEW peers \in SUBSET est[s], NEW u \in User, NEW n \in NameFor(u), NEW ts \in Nat,
           Heard(u, n, ts), Away(s, peers, u)
    PROVE  Sayable(s, peers, [type |-> "UID", u |-> u, nick |-> n, ts |-> ts])
  <1> DEFINE m == [type |-> "UID", u |-> u, nick |-> n, ts |-> ts]
  <1>1. m \in Message /\ m.type = "UID" /\ m.u = u /\ m.nick = n /\ m.ts = ts
    BY BuiltMessages
  <1> HIDE DEF m
  <1>3. m.type \notin {"SAVE", "KILL", "QUIT", "NICK"}
    BY <1>1
  <1>4. Fair(m)
    BY <1>1, <1>3 DEF Fair
  <1>5. \A r \in peers : <<s, r>> \in Edge => m \in Said(s, r)
    BY <1>1, <1>3, <1>4 DEF Away, Said, Lines
  <1> QED BY <1>5 DEF Sayable, m

LEMMA SendToJust ==
    ASSUME NEW s, NEW X, NEW L, Just(s, X, L), NEW peers, NEW m, Sayable(s, peers, m)
    PROVE  /\ Just(s, X, SendTo(L, peers, m)) /\ SendTo(L, peers, m).client = L.client
  <1> DEFINE out == [r \in Server |-> IF r \in peers THEN Append(L.out[r], m) ELSE L.out[r]]
  <1>1. ASSUME NEW r, <<s, r>> \in Edge PROVE out[r] \in Seq(Said(s, r)) /\ (r \notin est[s] => out[r] = <<>>)
    <2>1. r \in Server /\ L.out[r] \in Seq(Said(s, r)) /\ (r \notin est[s] => L.out[r] = <<>>)
      BY <1>1 DEF Edge, Just
    <2>2. r \in peers => m \in Said(s, r) /\ r \in est[s]
      BY <1>1 DEF Sayable
    <2>3. out[r] = IF r \in peers THEN Append(L.out[r], m) ELSE L.out[r]
      BY <2>1
    <2> QED BY <2>1, <2>2, <2>3
  <1>2. out = [r \in Server |-> out[r]]
    OBVIOUS
  <1>3. SendTo(L, peers, m) = [L EXCEPT !.out = out]
    BY DEF SendTo, Just
  <1> HIDE DEF out
  <1>4. SendTo(L, peers, m) = [client |-> L.client, nd |-> L.nd, out |-> out]
    BY <1>3, Replaced DEF Just
  <1> QED BY <1>1, <1>2, <1>4 DEF Just

\* Whatever becomes of the names held back.
LEMMA PutJust ==
    ASSUME NEW s, NEW X, NEW L, Just(s, X, L), NEW u \in User, NEW e, Fate(s, X, u, e),
           NEW d, NEW K, K = [client |-> [L.client EXCEPT ![u] = e], nd |-> d, out |-> L.out]
    PROVE  Just(s, X, K) /\ \A v \in User \ {u} : K.client[v] = L.client[v]
  <1> DEFINE c == [L.client EXCEPT ![u] = e]
  <1>1. K = [client |-> c, nd |-> d, out |-> L.out]
    OBVIOUS
  <1>2. c = [v \in User |-> IF v = u THEN e ELSE L.client[v]]
    BY DEF Just
  <1> HIDE DEF c
  <1>3. \A v \in User : c[v] = IF v = u THEN e ELSE L.client[v]
    BY <1>2
  <1>4. c = [v \in User |-> c[v]]
    BY <1>2
  <1>5. \A v \in User : Fate(s, X, v, c[v])
    BY <1>3 DEF Just
  <1>6. \A v \in User \ {u} : c[v] = L.client[v]
    BY <1>3
  <1> QED BY <1>1, <1>4, <1>5, <1>6 DEF Just

LEMMA StoreJust ==
    ASSUME NEW s, NEW X, NEW L, Just(s, X, L), NEW u \in User, NEW e, Fate(s, X, u, e)
    PROVE  Just(s, X, Store(L, u, e)) /\ \A v \in User \ {u} : Store(L, u, e).client[v] = L.client[v]
  BY PutJust DEF Store

LEMMA DropJust ==
    ASSUME NEW s, NEW X, NEW L, Just(s, X, L), NEW u \in User,
           IsPerson(client[s][u]) \/ u \in X => Excused(u)
    PROVE  /\ Just(s, X, Drop(L, u))
           /\ \A v \in User \ {u} : Drop(L, u).client[v] = L.client[v]
  <1> DEFINE c == [L.client EXCEPT ![u] = Absent]
  <1>1. Drop(L, u) = [client |-> c, nd |-> L.nd, out |-> L.out]
    <2>1. Drop(L, u) = [L EXCEPT !.client = c]
      BY DEF Drop
    <2> HIDE DEF c
    <2> QED BY <2>1, Replaced DEF Just
  <1>2. c = [v \in User |-> IF v = u THEN Absent ELSE L.client[v]]
    BY DEF Just
  <1> HIDE DEF c
  <1>3. \A v \in User : c[v] = IF v = u THEN Absent ELSE L.client[v]
    BY <1>2
  <1>4. c = [v \in User |-> c[v]]
    BY <1>2
  <1>5. Fate(s, X, u, Absent)
    BY DEF Fate, Absent
  <1>6. \A v \in User : Fate(s, X, v, c[v])
    BY <1>3, <1>5 DEF Just
  <1> QED BY <1>1, <1>3, <1>4, <1>6 DEF Just

LEMMA KillEverywhereJust ==
    ASSUME NEW s \in Server, NEW X, NEW L, Just(s, X, L), NEW u \in User, Excused(u)
    PROVE  /\ Just(s, X, KillEverywhere(L, s, u))
           /\ \A v \in User \ {u} : KillEverywhere(L, s, u).client[v] = L.client[v]
  <1> DEFINE m == [type |-> "KILL", u |-> u, src |-> s]
             K == SendTo(L, est[s], m)
  <1>1. Sayable(s, est[s], m)
    BY KillSayable
  <1> HIDE DEF m
  <1>2. Just(s, X, K) /\ K.client = L.client
    BY <1>1, SendToJust
  <1>3. KillEverywhere(L, s, u) = Drop(K, u)
    BY DEF KillEverywhere, m
  <1> HIDE DEF K
  <1> QED BY <1>2, <1>3, DropJust

LEMMA KillBackJust ==
    ASSUME NEW s \in Server, NEW X, NEW L, Just(s, X, L), NEW u \in User, Excused(u), NEW t \in est[s]
    PROVE  Just(s, X, KillBack(L, s, t, u)) /\ KillBack(L, s, t, u).client = L.client
  BY KillSayable, SendToJust DEF KillBack

LEMMA SaveBackJust ==
    ASSUME NEW s, NEW X, NEW L, Just(s, X, L), NEW u \in User, NEW ts \in Nat, Charged(u, ts), NEW t \in est[s]
    PROVE  Just(s, X, SaveBack(L, t, u, ts)) /\ SaveBack(L, t, u, ts).client = L.client
  BY SaveSayable, SendToJust DEF SaveBack

\* Who is behind t is on the side of s for every other peer.
LEMMA AwayFrom ==
    ASSUME NEW s, NEW t, <<s, t>> \in Edge, NEW u, Home[u] \in Behind[<<s, t>>], NEW peers,
           t \notin peers
    PROVE  Away(s, peers, u)
  BY Beyond DEF Away

LEMMA ChangeRemoteNickJust ==
    ASSUME NEW s, NEW t, <<s, t>> \in Edge, NEW X, NEW L, Just(s, X, L), NEW u \in User,
           L.client[u].on = "person", IsPerson(client[s][u]), Home[u] \in Behind[<<s, t>>],
           NEW n \in NameFor(u), NEW ts \in Nat, Heard(u, n, ts)
    PROVE  Just(s, X, ChangeRemoteNick(L, s, t, u, n, ts))
  <1> DEFINE m == [type |-> "NICK", u |-> u, nick |-> n, ts |-> ts]
             K == SendTo(L, est[s] \ {t}, m)
             e == [on |-> L.client[u].on, nick |-> n, ts |-> ts]
  <1>1. Away(s, est[s] \ {t}, u)
    BY AwayFrom
  <1>2. Sayable(s, est[s] \ {t}, m)
    BY <1>1, NickSayable
  <1> HIDE DEF m
  <1>3. Just(s, X, K) /\ K.client = L.client
    BY <1>2, SendToJust
  <1>4. Home[u] # s
    BY Opposite
  <1>5. Fate(s, X, u, e)
    BY <1>4 DEF Fate
  <1>6. ChangeRemoteNick(L, s, t, u, n, ts) = Store(K, u, e)
    BY <1>3 DEF ChangeRemoteNick, Rename, m
  <1> HIDE DEF K, e
  <1> QED BY <1>3, <1>5, <1>6, StoreJust

\* u is brought in: it was not among those that s tells of.
LEMMA IntroduceJust ==
    ASSUME NEW s, NEW t, <<s, t>> \in Edge, NEW L, Just(s, {}, L), NEW u \in User,
           Home[u] \in Behind[<<s, t>>], NEW n \in NameFor(u), NEW ts \in Nat, Heard(u, n, ts)
    PROVE  Just(s, {u}, Introduce(L, s, t, u, n, ts))
  <1> DEFINE m == [type |-> "UID", u |-> u, nick |-> n, ts |-> ts]
             e == [on |-> "person", nick |-> n, ts |-> ts]
             K == Store(L, u, e)
             c == [L.client EXCEPT ![u] = e]
  <1>1. Away(s, est[s] \ {t}, u)
    BY AwayFrom
  <1>2. Sayable(s, est[s] \ {t}, m)
    BY <1>1, UidSayable
  <1>3. Home[u] # s
    BY Opposite
  <1>4. Fate(s, {u}, u, e)
    BY <1>3 DEF Fate
  <1>5. Introduce(L, s, t, u, n, ts) = SendTo(K, est[s] \ {t}, m)
    BY DEF Introduce
  <1> HIDE DEF m
  <1>6. K = [client |-> c, nd |-> L.nd \ {e.nick}, out |-> L.out]
    BY DEF Store
  <1>7. c = [v \in User |-> IF v = u THEN e ELSE L.client[v]]
    BY DEF Just
  <1> HIDE DEF c, e, K
  <1>8. \A v \in User : c[v] = IF v = u THEN e ELSE L.client[v]
    BY <1>7
  <1>9. c = [v \in User |-> c[v]]
    BY <1>7
  <1>10. \A v \in User : Fate(s, {u}, v, c[v])
    BY <1>4, <1>8 DEF Just, Fate
  <1>11. Just(s, {u}, K)
    BY <1>6, <1>9, <1>10 DEF Just
  <1> QED BY <1>2, <1>5, <1>11, SendToJust

\* v, whom s holds since ts, may be saved there.
Loser(s, v, ts) ==
    /\ Charged(v, ts) /\ IsPerson(client[s][v])
    /\ Home[v] = s /\ ~SameSecond /\ client[s][v].nick \in Nick => Outdone(v, client[s][v].nick, client[s][v].ts)

\* A peer without SAVE is not on the way to v: it is told that v has changed nick.
LEMMA SaveAway ==
    ASSUME IInv, NEW s \in Server, NEW v \in User, NEW peers,
           Way(s, Home[v]) \cap est[s] \subseteq SaveCap
    PROVE  Away(s, (est[s] \ peers) \ SaveCap, v)
  <1> SUFFICES ASSUME NEW r \in est[s], r \notin SaveCap, <<s, r>> \in Edge
               PROVE  Home[v] \in Behind[<<r, s>>]
    BY DEF Away
  <1>1. Home[v] \in Server /\ <<r, s>> \in Edge
    BY EdgeFacts, UserAssumption
  <1>2. r \notin Way(s, Home[v])
    OBVIOUS
  <1>3. Home[v] \notin Behind[<<s, r>>]
    BY <1>2, WayHop
  <1> QED BY <1>1, <1>3, TwoSides

LEMMA SaveUserJust ==
    ASSUME IInv, NEW s \in Server, NEW t, NEW X, NEW L, Just(s, X, L), NEW v \in User,
           L.client[v].on = "person", L.client[v].ts \in Nat, Loser(s, v, L.client[v].ts)
    PROVE  /\ Just(s, X, SaveUser(L, s, t, v))
           /\ \A u \in User \ {v} : SaveUser(L, s, t, v).client[u] = L.client[u]
  <1>0. Charged(v, L.client[v].ts) /\ IsPerson(client[s][v]) /\ Excused(v)
    BY DEF Loser, Charged
  <1>1. CASE Way(s, Home[v]) \cap est[s] \subseteq SaveCap
    <2> DEFINE m1 == [type |-> "SAVE", u |-> v, ts |-> L.client[v].ts]
               m2 == [type |-> "NICK", u |-> v, nick |-> v, ts |-> CurrentTime(s)]
               K1 == SendTo(L, (est[s] \ {t}) \cap SaveCap, m1)
               K == SendTo(K1, (est[s] \ {t}) \ SaveCap, m2)
               e == [on |-> "person", nick |-> v, ts |-> CurrentTime(s)]
    <2>1. Sayable(s, (est[s] \ {t}) \cap SaveCap, m1)
      BY <1>0, SaveSayable
    <2>2. Heard(v, v, CurrentTime(s)) /\ CurrentTime(s) \in Nat /\ v \in NameFor(v)
      BY <1>0, NameFacts, ClockTyped DEF Charged, Heard, IInv
    <2>3. Away(s, (est[s] \ {t}) \ SaveCap, v)
      BY <1>1, SaveAway
    <2>4. Sayable(s, (est[s] \ {t}) \ SaveCap, m2)
      BY <1>0, <2>2, <2>3, NickSayable
    <2>5. SaveUser(L, s, t, v) \in {Rename(K, v, v, CurrentTime(s)),
                                    ChangeLocalNick(K, v, v, CurrentTime(s))}
      BY <1>1 DEF SaveUser
    <2>6. Fate(s, X, v, e)
      BY <1>0, <2>2 DEF Fate, Saved, Loser
    <2> HIDE DEF m1, m2
    <2>7. Just(s, X, K1) /\ K1.client = L.client
      BY <2>1, SendToJust
    <2> HIDE DEF K1
    <2>8. Just(s, X, K) /\ K.client = L.client
      BY <2>4, <2>7, SendToJust
    <2> HIDE DEF K
    <2>9. PICK d : SaveUser(L, s, t, v) =
                     [client |-> [K.client EXCEPT ![v] = e], nd |-> d, out |-> K.out]
      <3>1. K.client[v].on = "person"
        BY <2>8 DEF Loser
      <3> QED BY <2>5, <3>1 DEF Rename, Store, ChangeLocalNick
    <2> HIDE DEF e
    <2> QED BY <2>6, <2>8, <2>9, PutJust
  <1>2. CASE ~(Way(s, Home[v]) \cap est[s] \subseteq SaveCap)
    <2>1. SaveUser(L, s, t, v) = KillEverywhere(L, s, v)
      BY <1>2 DEF SaveUser
    <2> QED BY <1>0, <2>1, KillEverywhereJust
  <1> QED BY <1>1, <1>2

LEMMA ForceUidNickJust ==
    ASSUME IInv, NEW s \in Server, NEW t, <<s, t>> \in Edge, NEW X, NEW L, Just(s, X, L), NEW u \in User,
           L.client[u].on = "person", IsPerson(client[s][u]), Home[u] \in Behind[<<s, t>>],
           Enrolled(u)
    PROVE  Just(s, X, ForceUidNick(L, s, t, u))
  <1>1. Heard(u, u, CurrentTime(s)) /\ CurrentTime(s) \in Nat /\ u \in NameFor(u)
    BY NameFacts, ClockTyped DEF Heard, IInv
  <1> QED BY <1>1, ChangeRemoteNickJust DEF ForceUidNick
-----------------------------------------------------------------------------
(* The collisions.                                                         *)

LEMMA SilentJust ==
    ASSUME NEW s, NEW X, NEW c, NEW d, c = [u \in User |-> c[u]], \A u \in User : Fate(s, X, u, c[u])
    PROVE  Just(s, X, [client |-> c, nd |-> d, out |-> [t \in Server |-> <<>>]])
  <1> DEFINE out == [t \in Server |-> <<>>]
  <1>0. \A r \in Server : out[r] = <<>>
    OBVIOUS
  <1>2. out = [r \in Server |-> out[r]]
    OBVIOUS
  <1> HIDE DEF out
  <1>1. ASSUME NEW r, <<s, r>> \in Edge PROVE out[r] \in Seq(Said(s, r)) /\ (r \notin est[s] => out[r] = <<>>)
    <2>1. r \in Server
      BY <1>1 DEF Edge
    <2>2. out[r] = <<>>
      BY <1>0, <2>1
    <2>3. <<>> \in Seq(Said(s, r))
      OBVIOUS
    <2> QED BY <2>2, <2>3
  <1> SUFFICES Just(s, X, [client |-> c, nd |-> d, out |-> out])
    BY DEF out
  <1> QED BY <1>1, <1>2 DEF Just

LEMMA HereJust ==
    ASSUME IInv, FInv, NEW s \in Server
    PROVE  /\ Just(s, {}, Here(s)) /\ Here(s).client = client[s]
           /\ \A n : Just(s, {}, Overridden(s, n))
  <1>1. client[s] = [u \in User |-> client[s][u]]
    BY DEF IInv, TypeOK, Table
  <1>2. \A u \in User : Fate(s, {}, u, client[s][u])
    BY DEF FInv, Entries, Fate, IsPerson
  <1>3. \A u \in User : Fate(s, {}, u, Absent) \/ IsPerson(client[s][u])
    BY DEF Fate, Absent
  <1>5. Just(s, {}, Here(s)) /\ Here(s).client = client[s]
    <2>1. PICK c : c = client[s]
      OBVIOUS
    <2>2. Just(s, {}, [client |-> c, nd |-> nd[s], out |-> [t \in Server |-> <<>>]])
      BY <1>1, <1>2, <2>1, SilentJust
    <2> QED BY <2>1, <2>2 DEF Here
  <1>6. ASSUME NEW n PROVE Just(s, {}, Overridden(s, n))
    <2> DEFINE c == [v \in User |-> IF client[s][v].on = "unknown" /\ client[s][v].nick = n
                                    THEN Absent ELSE client[s][v]]
    <2>1. Overridden(s, n) = [client |-> c, nd |-> nd[s], out |-> [t \in Server |-> <<>>]]
      BY DEF Overridden, Here
    <2>2. \A u \in User : Fate(s, {}, u, c[u])
      BY <1>2, <1>3 DEF IsPerson
    <2>3. c = [v \in User |-> c[v]]
      OBVIOUS
    <2> HIDE DEF c
    <2> QED BY <2>1, <2>2, <2>3, SilentJust
  <1> QED BY <1>5, <1>6

\* A person is known under a nick it has had.
LEMMA PersonHeard ==
    ASSUME IInv, FInv, NEW s \in Server, NEW v \in User, IsPerson(client[s][v])
    PROVE  Heard(v, client[s][v].nick, client[s][v].ts) /\ client[s][v].ts \in Nat
  <1>1. client[s][v].ts \in Nat
    BY DEF IInv, TypeOK, Table, Entry
  <1>2. CASE Home[v] # s
    BY <1>1, <1>2 DEF FInv, Entries, IsPerson
  <1>3. CASE Home[v] = s
    <2>1. Self(v) = client[s][v] /\ Own(v)
      BY <1>3 DEF Self, FInv
    <2>2. v \in used /\ Self(v).on = "person"
      BY <2>1 DEF Own, IsPerson
    <2>3. Enrolled(v)
      BY <2>2 DEF Enrolled
    <2>4. Self(v).nick \in Nick => <<v, Self(v).nick, Self(v).ts>> \in claims
      BY <2>1, <2>2 DEF Own
    <2> QED BY <1>1, <2>1, <2>3, <2>4 DEF Heard
  <1> QED BY <1>2, <1>3

\* A claim that another beats can cost its nick, or its life.
LEMMA OutdoneCharged ==
    ASSUME NEW u, NEW n \in Nick, NEW ts, Heard(u, n, ts), Outdone(u, n, ts)
    PROVE  Charged(u, ts)
  <1>1. Bested(u)
    <2>1. PICK d \in claims : Beats(d, <<u, n, ts>>)
      BY DEF Outdone
    <2>2. <<u, n, ts>> \in claims /\ <<u, n, ts>>[1] = u
      BY DEF Heard
    <2> QED BY <2>1, <2>2 DEF Bested
  <1>2. Enrolled(u) /\ Excused(u)
    BY <1>1 DEF Heard, Excused
  <1>3. ASSUME IsPerson(Self(u)), ~SameSecond
        PROVE  /\ ts <= Self(u).ts
               /\ ts = Self(u).ts /\ Self(u).nick \in Nick => Outdone(u, Self(u).nick, ts)
    BY <1>3 DEF Heard
  <1> QED BY <1>2, <1>3 DEF Charged

\* u comes to n, which v holds at s.
Clashes(s, u, v, n, ts) ==
    /\ v \in PersonsHolding(s, n) /\ v # u /\ u \in User /\ n \in NameFor(u) /\ ts \in Nat
    /\ Heard(u, n, ts)

LEMMA Collision ==
    ASSUME IInv, FInv, NEW s \in Server, NEW u, NEW v, NEW n, NEW ts, Clashes(s, u, v, n, ts)
    PROVE  /\ v \in User /\ client[s][v].on = "person" /\ client[s][v].ts \in Nat
           /\ BothLose(s, v, ts) \/ OldLoses(s, u, v, ts) =>
                Loser(s, v, client[s][v].ts) /\ Excused(v)
           /\ BothLose(s, v, ts) \/ NewLoses(s, u, v, ts) => Charged(u, ts) /\ Excused(u)
  <1> DEFINE tv == client[s][v].ts
  <1>1. /\ v \in User /\ IsPerson(client[s][v]) /\ client[s][v].nick = n /\ v # u
        /\ u \in User /\ n \in NameFor(u) /\ ts \in Nat /\ Heard(u, n, ts)
    BY DEF Clashes, PersonsHolding, Holders
  <1>2. Heard(v, n, tv) /\ tv \in Nat
    BY <1>1, PersonHeard
  <1>3. n \in Nick
    <2>1. n \in NameFor(v)
      BY <1>1 DEF IInv, TypeOK, Table, IsPerson, Absent
    <2> QED BY <1>1, <2>1 DEF NameFor
  <1> HIDE DEF tv
  <1>4. <<u, n, ts>> \in claims /\ <<v, n, tv>> \in claims
    BY <1>1, <1>2, <1>3 DEF Heard
  <1>5. ASSUME BothLose(s, v, ts) \/ OldLoses(s, u, v, ts) PROVE Outdone(v, n, tv)
    <2>1. Beats(<<u, n, ts>>, <<v, n, tv>>)
      BY <1>1, <1>2, <1>5 DEF Beats, BothLose, OldLoses, NewLoses, tv
    <2> QED BY <1>4, <2>1 DEF Outdone
  <1>6. ASSUME BothLose(s, v, ts) \/ NewLoses(s, u, v, ts) PROVE Outdone(u, n, ts)
    <2>1. Beats(<<v, n, tv>>, <<u, n, ts>>)
      BY <1>1, <1>2, <1>6 DEF Beats, BothLose, NewLoses, tv
    <2> QED BY <1>4, <2>1 DEF Outdone
  <1>7. ASSUME BothLose(s, v, ts) \/ OldLoses(s, u, v, ts)
        PROVE  Loser(s, v, tv) /\ Excused(v)
    <2>1. Charged(v, tv) /\ Outdone(v, n, tv)
      BY <1>2, <1>3, <1>5, <1>7, OutdoneCharged
    <2> QED BY <1>1, <2>1 DEF Loser, Charged, tv
  <1>8. ASSUME BothLose(s, v, ts) \/ NewLoses(s, u, v, ts)
        PROVE  Charged(u, ts) /\ Excused(u)
    <2>1. Charged(u, ts)
      BY <1>1, <1>3, <1>6, <1>8, OutdoneCharged
    <2> QED BY <2>1 DEF Charged
  <1>9. client[s][v].on = "person"
    BY <1>1 DEF IsPerson
  <1> QED BY <1>1, <1>2, <1>7, <1>8, <1>9 DEF tv

-----------------------------------------------------------------------------
(* Reading.                                                                *)

\* The first line from t.
LEMMA ReadFair ==
    ASSUME IInv, FInv, NEW s, NEW t, <<t, s>> \in Edge, chan[<<t, s>>] # <<>>
    PROVE  /\ s \in Server /\ <<s, t>> \in Edge /\ Msg(s, t) \in Lines(t, s)
           /\ Msg(s, t) \in Message /\ Fair(Msg(s, t))
           /\ Msg(s, t).type \in {"UID", "NICK"} => Home[Msg(s, t).u] \in Behind[<<s, t>>]
  <1>1. chan[<<t, s>>] \in Seq(Lines(t, s)) /\ s \in Server /\ <<s, t>> \in Edge
    BY EdgeFacts DEF FInv
  <1>2. Msg(s, t) \in Lines(t, s)
    BY <1>1 DEF Msg
  <1> QED BY <1>1, <1>2 DEF Lines

\* s handles a line from t that brings it X.
Handles(s, t, X, K) == Just(s, X, K) /\ CommitFrom(s, t, K)

LEMMA SaveHandled ==
    ASSUME IInv, FInv, NEW s, NEW t, MsSave(s, t)
    PROVE  \E K : Handles(s, t, {}, K)
  <1> DEFINE v == Msg(s, t).u
             ts == Msg(s, t).ts
  <1>1. <<t, s>> \in Edge /\ chan[<<t, s>>] # <<>> /\ Msg(s, t).type = "SAVE"
    BY DEF MsSave, First, Msg
  <1>2. s \in Server /\ v \in User /\ ts \in Nat /\ Charged(v, ts)
    BY <1>1, ReadFair, ReadMessages DEF Fair
  <1>3. Just(s, {}, Here(s)) /\ Here(s).client = client[s]
    BY <1>2, HereJust
  <1>4. CASE Obeys(client[s][v], v, ts) /\ CommitFrom(s, t, SaveUser(Here(s), s, t, v))
    <2>1. /\ IsPerson(client[s][v]) /\ client[s][v].on = "person"
          /\ client[s][v].nick # v /\ client[s][v].ts = ts
      BY <1>4 DEF Obeys, IsPerson
    <2> HIDE DEF v, ts
    <2>2. Loser(s, v, ts)
      <3>1. Home[v] = s => Self(v) = client[s][v]
        BY DEF Self
      <3>2. Home[v] = s /\ ~SameSecond /\ client[s][v].nick \in Nick
            => Outdone(v, client[s][v].nick, client[s][v].ts)
        BY <1>2, <2>1, <3>1 DEF Charged
      <3> QED BY <1>2, <2>1, <3>2 DEF Loser
    <2>3. Just(s, {}, SaveUser(Here(s), s, t, v))
      BY <1>2, <1>3, <2>1, <2>2, SaveUserJust
    <2> QED BY <1>4, <2>3 DEF Handles
  <1>5. CASE CommitFrom(s, t, Here(s))
    BY <1>3, <1>5 DEF Handles
  <1> QED BY <1>4, <1>5 DEF MsSave
-----------------------------------------------------------------------------
(* Nothing is said of a user before it is brought in.                      *)

\* s, which has e of u now, will have u once it has read the first i messages of q.
Aware(s, q, u, e, i) ==
    \E j \in 0..i :
        /\ \/ j = 0 /\ e.on # "absent"
           \/ j > 0 /\ q[j].type = "UID" /\ q[j].u = u
        /\ \A k \in (j + 1)..i : ~Cuts(s, q[k], Home[u])

\* s will have u when it reads of its nick changes, and in the end.
InStep(t, s, u) ==
    LET q == chan[<<t, s>>] IN
    /\ \A i \in 1..Len(q) : q[i].type = "NICK" /\ q[i].u = u => Aware(s, q, u, client[s][u], i - 1)
    /\ Live(t, s) /\ IsPerson(client[t][u]) => Aware(s, q, u, client[s][u], Len(q))

Order(t, s) ==
    \A u \in User : Home[u] \in Behind[<<s, t>>] => InStep(t, s, u) \/ Excused(u)

OInv == \A t, s : <<t, s>> \in Edge => Order(t, s)

\* Who is not there when its nick changes has lost it.
LEMMA UnknownExcused ==
    ASSUME IInv, FInv, OInv, NEW s, NEW t, <<t, s>> \in Edge, chan[<<t, s>>] # <<>>,
           Msg(s, t).type = "NICK", client[s][Msg(s, t).u].on = "absent"
    PROVE  Excused(Msg(s, t).u)
  <1> DEFINE q == chan[<<t, s>>]
             u == Msg(s, t).u
  <1>1. q \in Seq(Message) /\ q # <<>>
    BY DEF IInv, TypeOK
  <1>2. Msg(s, t) \in Message /\ Home[u] \in Behind[<<s, t>>]
    BY ReadFair
  <1>3. u \in User
    BY <1>2, ReadMessages
  <1>4. 1 \in 1..Len(q) /\ q[1] = Msg(s, t) /\ 1 - 1 = 0
    BY <1>1 DEF Msg
  <1>5. ~Aware(s, q, u, client[s][u], 0)
    BY DEF Aware
  <1>6. ~InStep(t, s, u)
    BY <1>4, <1>5 DEF InStep
  <1> QED BY <1>2, <1>3, <1>6 DEF OInv, Order

-----------------------------------------------------------------------------
(* Reading, continued.                                                     *)

LEMMA UnknownPrefixHandled ==
    ASSUME IInv, FInv, NEW s \in Server, NEW t \in est[s], NEW u \in User, UnknownPrefix(s, t, u), Excused(u)
    PROVE  \E K : Handles(s, t, {}, K)
  <1>1. Just(s, {}, KillBack(Here(s), s, t, u))
    BY HereJust, KillBackJust
  <1> QED BY <1>1 DEF UnknownPrefix, Handles

LEMMA RelayJust ==
    ASSUME IInv, FInv, NEW s \in Server, NEW t, NEW m \in Message, Fair(m),
           m.type \in {"QUIT", "KILL"}, NEW u \in User, Excused(u)
    PROVE  Just(s, {}, Drop(SendTo(Here(s), est[s] \ {t}, m), u))
  <1>1. Sayable(s, est[s] \ {t}, m)
    BY DEF Sayable, Said, Lines
  <1>2. Just(s, {}, SendTo(Here(s), est[s] \ {t}, m))
    BY <1>1, HereJust, SendToJust
  <1> QED BY <1>2, DropJust

LEMMA MsQuitHandled ==
    ASSUME IInv, FInv, NEW s, NEW t, MsQuit(s, t)
    PROVE  \E K : Handles(s, t, {}, K)
  <1> DEFINE u == Msg(s, t).u
  <1>1. <<t, s>> \in Edge /\ chan[<<t, s>>] # <<>> /\ Msg(s, t).type = "QUIT" /\ t \in est[s]
    BY DEF MsQuit, First, Msg
  <1>2. s \in Server /\ Msg(s, t) \in Message /\ Fair(Msg(s, t))
    BY <1>1, ReadFair
  <1>3. u \in User /\ Excused(u)
    BY <1>1, <1>2, ReadMessages DEF Fair, Excused
  <1>4. CASE UnknownPrefix(s, t, u)
    BY <1>1, <1>2, <1>3, <1>4, UnknownPrefixHandled
  <1>5. CASE CommitFrom(s, t, Drop(SendTo(Here(s), est[s] \ {t}, Msg(s, t)), u))
    <2>1. Just(s, {}, Drop(SendTo(Here(s), est[s] \ {t}, Msg(s, t)), u))
      BY <1>1, <1>2, <1>3, RelayJust
    <2> QED BY <1>5, <2>1 DEF Handles
  <1> QED BY <1>4, <1>5 DEF MsQuit

LEMMA MsKillHandled ==
    ASSUME IInv, FInv, NEW s, NEW t, MsKill(s, t)
    PROVE  \E K : Handles(s, t, {}, K)
  <1> DEFINE v == Msg(s, t).u
             src == Msg(s, t).src
  <1>1. <<t, s>> \in Edge /\ chan[<<t, s>>] # <<>> /\ Msg(s, t).type = "KILL" /\ t \in est[s]
    BY DEF MsKill, First, Msg
  <1>2. s \in Server /\ Msg(s, t) \in Message /\ Fair(Msg(s, t))
    BY <1>1, ReadFair
  <1>3. v \in User /\ Excused(v)
    BY <1>1, <1>2, ReadMessages DEF Fair
  <1>4. CASE src \in User /\ UnknownPrefix(s, t, src)
    <2>1. Excused(src)
      BY <1>1, <1>2, <1>4 DEF Fair, Excused
    <2> QED BY <1>1, <1>2, <1>4, <2>1, UnknownPrefixHandled
  <1>5. CASE CommitFrom(s, t, Here(s))
    <2>1. Just(s, {}, Here(s))
      BY <1>2, HereJust
    <2> QED BY <1>5, <2>1 DEF Handles
  <1>6. CASE CommitFrom(s, t, Drop(SendTo(Here(s), est[s] \ {t}, Msg(s, t)), v))
    <2>1. Just(s, {}, Drop(SendTo(Here(s), est[s] \ {t}, Msg(s, t)), v))
      BY <1>1, <1>2, <1>3, RelayJust
    <2> QED BY <1>6, <2>1 DEF Handles
  <1> QED BY <1>4, <1>5, <1>6 DEF MsKill

LEMMA McNickHandled ==
    ASSUME IInv, FInv, OInv, NEW s, NEW t, McNick(s, t)
    PROVE  \E K : Handles(s, t, {}, K)
  <1> DEFINE u == Msg(s, t).u
             n == Msg(s, t).nick
             ts == Msg(s, t).ts
             L == Here(s)
  <1>1. /\ <<t, s>> \in Edge /\ chan[<<t, s>>] # <<>> /\ Msg(s, t).type = "NICK" /\ t \in est[s]
    BY DEF McNick, First, Msg
  <1>2. s \in Server /\ <<s, t>> \in Edge /\ Msg(s, t) \in Message /\ Fair(Msg(s, t))
        /\ Home[u] \in Behind[<<s, t>>]
    BY <1>1, ReadFair
  <1>3. u \in User /\ n \in NameFor(u) /\ ts \in Nat /\ Heard(u, n, ts)
    BY <1>1, <1>2, ReadMessages DEF Fair
  <1>4. Just(s, {}, L) /\ L.client = client[s] /\ Just(s, {}, Overridden(s, n))
    BY <1>2, HereJust
  <1>6. CASE UnknownPrefix(s, t, u)
    <2>1. Excused(u)
      BY <1>1, <1>6, UnknownExcused DEF UnknownPrefix
    <2> QED BY <1>1, <1>2, <1>3, <1>6, <2>1, UnknownPrefixHandled
  <1>7. CASE IsPerson(client[s][u]) /\ CommitFrom(s, t, ChangeRemoteNick(Overridden(s, n), s, t, u, n, ts))
    <2>1. Overridden(s, n).client[u].on = "person"
      <3>1. Overridden(s, n).client[u] = client[s][u]
        BY <1>3, <1>7 DEF Overridden, Here, IsPerson
      <3> QED BY <1>7, <3>1 DEF IsPerson
    <2> HIDE DEF u, n, ts
    <2>2. Just(s, {}, ChangeRemoteNick(Overridden(s, n), s, t, u, n, ts))
      BY <1>2, <1>3, <1>4, <1>7, <2>1, ChangeRemoteNickJust
    <2> QED BY <1>7, <2>2 DEF Handles
  <1>8. CASE CommitFrom(s, t, L)
    BY <1>4, <1>8 DEF Handles
  <1>9. ASSUME NEW v \in PersonsHolding(s, n) \ {u}, IsPerson(client[s][u]),
               \/ /\ BothLose(s, v, ts)
                  /\ CommitFrom(s, t, ForceUidNick(SaveBack(SaveUser(L, s, s, v), t, u, ts), s, t, u))
               \/ /\ BothLose(s, v, ts)
                  /\ CommitFrom(s, t, KillEverywhere(KillEverywhere(L, s, u), s, v))
               \/ /\ NewLoses(s, u, v, ts)
                  /\ CommitFrom(s, t, ForceUidNick(SaveBack(L, t, u, ts), s, t, u))
               \/ /\ NewLoses(s, u, v, ts)
                  /\ CommitFrom(s, t, KillEverywhere(L, s, u))
               \/ /\ OldLoses(s, u, v, ts)
                  /\ CommitFrom(s, t, ChangeRemoteNick(SaveUser(L, s, s, v), s, t, u, n, ts))
               \/ /\ OldLoses(s, u, v, ts)
                  /\ CommitFrom(s, t, ChangeRemoteNick(KillEverywhere(L, s, v), s, t, u, n, ts))
        PROVE  \E K : Handles(s, t, {}, K)
    <2>0. Clashes(s, u, v, n, ts)
      BY <1>3, <1>9 DEF Clashes
    <2>1. /\ v \in User /\ v # u /\ L.client[u].on = "person" /\ Enrolled(u)
          /\ L.client[v] = client[s][v] /\ client[s][v].on = "person" /\ client[s][v].ts \in Nat
      BY <1>2, <1>3, <1>4, <1>9, <2>0, Collision DEF IsPerson, Heard
    <2>2. /\ BothLose(s, v, ts) \/ OldLoses(s, u, v, ts) =>
               Loser(s, v, client[s][v].ts) /\ Excused(v)
          /\ BothLose(s, v, ts) \/ NewLoses(s, u, v, ts) => Charged(u, ts) /\ Excused(u)
      BY <1>2, <2>0, Collision
    <2>10. Just(s, {}, L) /\ u \in User /\ n \in NameFor(u) /\ ts \in Nat /\ Heard(u, n, ts)
           /\ IsPerson(client[s][u]) /\ Home[u] \in Behind[<<s, t>>]
      BY <1>2, <1>3, <1>4, <1>9
    <2> HIDE DEF u, n, ts, L
    <2>3. Loser(s, v, client[s][v].ts) =>
            /\ Just(s, {}, SaveUser(L, s, s, v))
            /\ SaveUser(L, s, s, v).client[u] = L.client[u]
      BY <1>2, <2>1, <2>10, SaveUserJust
    <2>4. Excused(v) =>
            /\ Just(s, {}, KillEverywhere(L, s, v))
            /\ KillEverywhere(L, s, v).client[u] = L.client[u]
      BY <1>2, <2>1, <2>10, KillEverywhereJust
    <2>5. Excused(u) => Just(s, {}, KillEverywhere(L, s, u))
      BY <1>2, <2>10, KillEverywhereJust
    <2>6. Excused(u) /\ Excused(v) => Just(s, {}, KillEverywhere(KillEverywhere(L, s, u), s, v))
      BY <1>2, <2>1, <2>5, KillEverywhereJust
    <2>7. ASSUME NEW K, Just(s, {}, K), K.client[u] = L.client[u]
          PROVE  /\ Just(s, {}, ChangeRemoteNick(K, s, t, u, n, ts))
                 /\ Charged(u, ts) => Just(s, {}, ForceUidNick(SaveBack(K, t, u, ts), s, t, u))
      <3>1. Just(s, {}, ChangeRemoteNick(K, s, t, u, n, ts))
        BY <1>2, <2>1, <2>7, <2>10, ChangeRemoteNickJust
      <3>2. ASSUME Charged(u, ts)
            PROVE  Just(s, {}, ForceUidNick(SaveBack(K, t, u, ts), s, t, u))
        <4>1. PICK J : J = SaveBack(K, t, u, ts)
          OBVIOUS
        <4>2. Just(s, {}, J) /\ J.client = K.client
          BY <1>1, <1>2, <2>7, <2>10, <3>2, <4>1, SaveBackJust
        <4>3. Just(s, {}, ForceUidNick(J, s, t, u))
          BY <1>2, <2>1, <2>7, <2>10, <4>2, ForceUidNickJust
        <4> QED BY <4>1, <4>3
      <3> QED BY <3>1, <3>2
    <2>8. \/ \E K : CommitFrom(s, t, K) /\ Just(s, {}, K)
      <3>1. CASE /\ BothLose(s, v, ts)
                 /\ CommitFrom(s, t, ForceUidNick(SaveBack(SaveUser(L, s, s, v), t, u, ts), s, t, u))
        BY <2>2, <2>3, <2>7, <3>1
      <3>2. CASE /\ BothLose(s, v, ts)
                 /\ CommitFrom(s, t, KillEverywhere(KillEverywhere(L, s, u), s, v))
        BY <2>2, <2>6, <3>2
      <3>3. CASE /\ NewLoses(s, u, v, ts)
                 /\ CommitFrom(s, t, ForceUidNick(SaveBack(L, t, u, ts), s, t, u))
        BY <2>2, <2>7, <2>10, <3>3
      <3>4. CASE /\ NewLoses(s, u, v, ts)
                 /\ CommitFrom(s, t, KillEverywhere(L, s, u))
        BY <2>2, <2>5, <3>4
      <3>5. CASE /\ OldLoses(s, u, v, ts)
                 /\ CommitFrom(s, t, ChangeRemoteNick(SaveUser(L, s, s, v), s, t, u, n, ts))
        BY <2>2, <2>3, <2>7, <3>5
      <3>6. CASE /\ OldLoses(s, u, v, ts)
                 /\ CommitFrom(s, t, ChangeRemoteNick(KillEverywhere(L, s, v), s, t, u, n, ts))
        BY <2>2, <2>4, <2>7, <3>6
      <3> QED BY <1>9, <3>1, <3>2, <3>3, <3>4, <3>5, <3>6
    <2> QED BY <2>8 DEF Handles
  <1> QED BY <1>6, <1>7, <1>8, <1>9 DEF McNick
-----------------------------------------------------------------------------
(* The introduction.                                                       *)

\* s passes u on to the others if it lets it in.
Passes(s, t, u, L) ==
    IsPerson(L.client[u]) =>
      \A r \in est[s] \ {t} : <<s, r>> \in Edge =>
          \E i \in 1..Len(L.out[r]) : L.out[r][i].type = "UID" /\ L.out[r][i].u = u

LEMMA IntroducePasses ==
    ASSUME IInv, NEW s, NEW t, NEW X, NEW L, Just(s, X, L), NEW u \in User, NEW n, NEW ts
    PROVE  Passes(s, t, u, Introduce(L, s, t, u, n, ts))
  <1> DEFINE m == [type |-> "UID", u |-> u, nick |-> n, ts |-> ts]
             e == [on |-> "person", nick |-> n, ts |-> ts]
             K == Store(L, u, e)
             out == [r \in Server |-> IF r \in est[s] \ {t} THEN Append(L.out[r], m) ELSE L.out[r]]
             I == Introduce(L, s, t, u, n, ts)
  <1>1. I = [K EXCEPT !.out = [r \in Server |-> IF r \in est[s] \ {t} THEN Append(K.out[r], m) ELSE K.out[r]]]
    BY DEF Introduce, SendTo
  <1>2. K = [client |-> K.client, nd |-> K.nd, out |-> L.out]
    BY DEF Store
  <1>3. m.type = "UID" /\ m.u = u
    OBVIOUS
  <1> HIDE DEF I, K, m, e
  <1>8. K.out = L.out
    BY <1>2
  <1>4. I = [K EXCEPT !.out = out]
    BY <1>1, <1>8
  <1>5. ASSUME NEW r \in est[s] \ {t}, <<s, r>> \in Edge
        PROVE  \E i \in 1..Len(out[r]) : out[r][i].type = "UID" /\ out[r][i].u = u
    <2>1. r \in Server /\ L.out[r] \in Seq(Said(s, r))
      BY <1>5 DEF Edge, Just
    <2>2. out[r] = Append(L.out[r], m)
      BY <1>5, <2>1
    <2>3. Len(L.out[r]) \in Nat
      BY <2>1
    <2>4. Len(L.out[r]) + 1 \in 1..Len(out[r]) /\ out[r][Len(L.out[r]) + 1] = m
      BY <2>1, <2>2, <2>3
    <2> QED BY <1>3, <2>4
  <1> HIDE DEF out
  <1>6. I.out = out
    BY <1>2, <1>4, Replaced
  <1>7. Passes(s, t, u, I)
    BY <1>5, <1>6 DEF Passes
  <1> QED BY <1>7 DEF I

\* s takes the introduction of u by t as it should.
Takes(s, t, u, K) == Handles(s, t, {u}, K) /\ Passes(s, t, u, K)

LEMMA RefusedJust ==
    ASSUME NEW s, NEW t, NEW K, Just(s, {}, K), NEW u \in User, client[s][u].on = "absent", Excused(u)
    PROVE  Just(s, {u}, K) /\ Passes(s, t, u, K)
  <1>1. Fate(s, {}, u, K.client[u])
    BY DEF Just
  <1>2. K.client[u].on = "absent"
    BY <1>1 DEF Fate, IsPerson, Saved
  <1>3. \A v \in User : Fate(s, {u}, v, K.client[v])
    <2>1. Fate(s, {u}, u, K.client[u])
      BY <1>2 DEF Fate
    <2>2. ASSUME NEW v \in User, v # u PROVE Fate(s, {u}, v, K.client[v])
      <3>1. Fate(s, {}, v, K.client[v])
        BY DEF Just
      <3> QED BY <2>2, <3>1 DEF Fate
    <2> QED BY <2>1, <2>2
  <1>4. Just(s, {u}, K)
    BY <1>3 DEF Just
  <1>5. Passes(s, t, u, K)
    BY <1>2 DEF Passes, IsPerson
  <1> QED BY <1>4, <1>5

LEMMA MsUidHandled ==
    ASSUME IInv, FInv, NoDuplicateIntro, NEW s, NEW t, MsUid(s, t)
    PROVE  \E K : Takes(s, t, Msg(s, t).u, K)
  <1> DEFINE u == Msg(s, t).u
             n == Msg(s, t).nick
             ts == Msg(s, t).ts
             L == Here(s)
  <1>1. /\ <<t, s>> \in Edge /\ chan[<<t, s>>] # <<>> /\ Msg(s, t).type = "UID" /\ First(s, t, "UID")
        /\ t \in est[s]
    BY DEF MsUid, First, Msg
  <1>2. s \in Server /\ t \in Server /\ <<s, t>> \in Edge /\ Msg(s, t) \in Message /\ Fair(Msg(s, t))
        /\ Home[u] \in Behind[<<s, t>>]
    BY <1>1, ReadFair, EdgeFacts
  <1>3. u \in User /\ n \in NameFor(u) /\ ts \in Nat /\ Heard(u, n, ts)
    BY <1>1, <1>2, ReadMessages DEF Fair
  <1>4. u \in NameFor(u) /\ Heard(u, u, ts) /\ client[s][u].on = "absent"
    <2>1. u \in NameFor(u) /\ Heard(u, u, ts)
      BY <1>3, NameFacts DEF Heard
    <2>2. client[s][u] = Absent
      BY <1>1, <1>2 DEF NoDuplicateIntro
    <2> QED BY <2>1, <2>2 DEF Absent
  <1>5. Just(s, {}, L) /\ L.client = client[s] /\ Just(s, {}, Overridden(s, n))
    BY <1>2, HereJust
  <1> HIDE DEF u, n, ts, L
  <1>6. ASSUME NEW K, Just(s, {}, K), NEW x \in NameFor(u), Heard(u, x, ts),
               CommitFrom(s, t, Introduce(K, s, t, u, x, ts))
        PROVE  Takes(s, t, u, Introduce(K, s, t, u, x, ts))
    <2>1. Just(s, {u}, Introduce(K, s, t, u, x, ts))
      BY <1>2, <1>3, <1>6, IntroduceJust DEF u
    <2>2. Passes(s, t, u, Introduce(K, s, t, u, x, ts))
      BY <1>3, <1>6, IntroducePasses
    <2> QED BY <1>6, <2>1, <2>2 DEF Takes, Handles
  <1>7. ASSUME NEW K, Just(s, {}, K), Excused(u), CommitFrom(s, t, K)
        PROVE  Takes(s, t, u, K)
    BY <1>3, <1>4, <1>7, RefusedJust DEF Takes, Handles
  <1>8. ASSUME CommitFrom(s, t, Introduce(Overridden(s, n), s, t, u, n, ts))
        PROVE  \E K : Takes(s, t, u, K)
    BY <1>3, <1>5, <1>6, <1>8
  <1>9. ASSUME NEW v \in PersonsHolding(s, n),
               \/ /\ BothLose(s, v, ts)
                  /\ CommitFrom(s, t, Introduce(SaveBack(SaveUser(L, s, s, v), t, u, ts), s, t, u, u, ts))
               \/ /\ BothLose(s, v, ts)
                  /\ CommitFrom(s, t, KillEverywhere(KillBack(L, s, t, u), s, v))
               \/ /\ NewLoses(s, u, v, ts)
                  /\ CommitFrom(s, t, Introduce(SaveBack(L, t, u, ts), s, t, u, u, ts))
               \/ /\ NewLoses(s, u, v, ts)
                  /\ CommitFrom(s, t, KillBack(L, s, t, u))
               \/ /\ OldLoses(s, u, v, ts)
                  /\ CommitFrom(s, t, Introduce(SaveUser(L, s, s, v), s, t, u, n, ts))
               \/ /\ OldLoses(s, u, v, ts)
                  /\ CommitFrom(s, t, Introduce(KillEverywhere(L, s, v), s, t, u, n, ts))
        PROVE  \E K : Takes(s, t, u, K)
    <2>0. Clashes(s, u, v, n, ts)
      BY <1>3, <1>4, <1>9 DEF Clashes, PersonsHolding, Holders
    <2>1. /\ v \in User /\ v # u
          /\ L.client[v] = client[s][v] /\ client[s][v].on = "person" /\ client[s][v].ts \in Nat
      BY <1>2, <1>4, <1>5, <2>0, Collision
    <2>2. /\ BothLose(s, v, ts) \/ OldLoses(s, u, v, ts) =>
               Loser(s, v, client[s][v].ts) /\ Excused(v)
          /\ BothLose(s, v, ts) \/ NewLoses(s, u, v, ts) => Charged(u, ts) /\ Excused(u)
      BY <1>2, <2>0, Collision
    <2>3. Loser(s, v, client[s][v].ts) => Just(s, {}, SaveUser(L, s, s, v))
      BY <1>2, <1>5, <2>1, SaveUserJust
    <2>4. Excused(v) => Just(s, {}, KillEverywhere(L, s, v))
      BY <1>2, <1>5, <2>1, KillEverywhereJust
    <2>5. Excused(u) => Just(s, {}, KillBack(L, s, t, u))
      BY <1>1, <1>2, <1>3, <1>5, KillBackJust
    <2>6. Excused(u) /\ Excused(v) => Just(s, {}, KillEverywhere(KillBack(L, s, t, u), s, v))
      BY <1>2, <2>1, <2>5, KillEverywhereJust
    <2>7. ASSUME NEW K, Just(s, {}, K), Charged(u, ts)
          PROVE  Just(s, {}, SaveBack(K, t, u, ts))
      BY <1>1, <1>2, <1>3, <2>7, SaveBackJust
    <2>8. CASE /\ BothLose(s, v, ts)
               /\ CommitFrom(s, t, Introduce(SaveBack(SaveUser(L, s, s, v), t, u, ts), s, t, u, u, ts))
      BY <1>4, <1>6, <2>2, <2>3, <2>7, <2>8
    <2>9. CASE /\ BothLose(s, v, ts)
               /\ CommitFrom(s, t, KillEverywhere(KillBack(L, s, t, u), s, v))
      BY <1>7, <2>2, <2>6, <2>9
    <2>10. CASE /\ NewLoses(s, u, v, ts)
                /\ CommitFrom(s, t, Introduce(SaveBack(L, t, u, ts), s, t, u, u, ts))
      BY <1>4, <1>5, <1>6, <2>2, <2>7, <2>10
    <2>11. CASE NewLoses(s, u, v, ts) /\ CommitFrom(s, t, KillBack(L, s, t, u))
      BY <1>7, <2>2, <2>5, <2>11
    <2>12. CASE /\ OldLoses(s, u, v, ts)
                /\ CommitFrom(s, t, Introduce(SaveUser(L, s, s, v), s, t, u, n, ts))
      BY <1>3, <1>6, <2>2, <2>3, <2>12
    <2>13. CASE /\ OldLoses(s, u, v, ts)
                /\ CommitFrom(s, t, Introduce(KillEverywhere(L, s, v), s, t, u, n, ts))
      BY <1>3, <1>6, <2>2, <2>4, <2>13
    <2> QED BY <1>9, <2>8, <2>9, <2>10, <2>11, <2>12, <2>13
  <1>10. \E K : Takes(s, t, u, K)
    BY <1>8, <1>9 DEF MsUid, u, n, ts, L
  <1> QED BY <1>10 DEF u
-----------------------------------------------------------------------------
(* A server's own events.                                                  *)

\* What was under way is still fair.
Passing(queues) == \A a, b : <<a, b>> \in Edge => queues[<<a, b>>] \in Seq(Lines(a, b))

\* s tells m to the peers, behind what is under way.
Announces(s, queues, peers, m) ==
    /\ chan' = Transmit(s, queues, Tell(peers, m))
    /\ \A r \in peers : <<s, r>> \in Edge => m \in Lines(s, r)'

LEMMA AnnouncedFair ==
    ASSUME NEW s, NEW queues, NEW peers, NEW m, Announces(s, queues, peers, m),
           \A a, b : <<a, b>> \in Edge => queues[<<a, b>>] \in Seq(Lines(a, b)'),
           NEW a, NEW b, <<a, b>> \in Edge
    PROVE  chan'[<<a, b>>] \in Seq(Lines(a, b)')
  <1> DEFINE out == Tell(peers, m)
  <1>1. ASSUME NEW r, <<s, r>> \in Edge PROVE out[r] \in Seq(Lines(s, r)')
    <2>1. r \in Server
      BY <1>1 DEF Edge
    <2>2. out[r] = IF r \in peers THEN <<m>> ELSE <<>>
      BY <2>1 DEF Tell
    <2>3. r \in peers => m \in Lines(s, r)'
      BY <1>1 DEF Announces
    <2> QED BY <2>2, <2>3
  <1>2. chan' = Transmit(s, queues, out)
    BY DEF Announces
  <1> HIDE DEF out
  <1> QED BY <1>1, <1>2, Poured

\* What u does at home is as it should be.
Proper(u) == Evolves(u) /\ Own(u)'

\* s, which has the table c, has let nobody in from elsewhere.
Shuts(s, c) ==
    /\ client' = [client EXCEPT ![s] = c]
    /\ \A u \in User : Home[u] # s /\ c[u].on # "absent" => c[u] = client[s][u]
    /\ used \subseteq used' /\ claims \subseteq claims' /\ now' = now

LEMMA SelfKept ==
    ASSUME FInv, NEW u \in User, Self(u)' = Self(u),
           used \subseteq used', claims \subseteq claims', now' = now
    PROVE  Proper(u)
  <1>1. Own(u) /\ CurrentTime(Home[u])' = CurrentTime(Home[u])
    BY DEF FInv, CurrentTime
  <1>2. Own(u)'
    BY <1>1 DEF Own
  <1> QED BY <1>2 DEF Proper, Evolves

LEMMA ShutProper ==
    ASSUME IInv, FInv, NEW s \in Server, NEW c, Shuts(s, c), NEW u \in User,
           Home[u] # s \/ c[u] = client[s][u]
    PROVE  Proper(u)
  <1>1. Self(u)' = Self(u)
    BY UserAssumption DEF Shuts, Self, IInv, TypeOK
  <1> QED BY <1>1, SelfKept DEF Shuts

LEMMA ShutFair ==
    ASSUME IInv, IInv', FInv, NEW s \in Server, NEW c, Shuts(s, c), \A u \in User : Proper(u)
    PROVE  /\ \A u \in User : Own(u)'
           /\ \A r \in Server : Entries(r)'
           /\ \A a, b : Lines(a, b) \subseteq Lines(a, b)'
  <1>1. \A u \in User : Own(u)' /\ Evolves(u)
    BY DEF Proper
  <1>2. claims \subseteq claims'
    BY DEF Shuts
  <1>3. ASSUME NEW r \in Server PROVE Entries(r)'
    <2> SUFFICES ASSUME NEW u \in User, Home[u] # r, client'[r][u].on # "absent"
                 PROVE  IsPerson(client[r][u])' /\ Heard(u, client[r][u].nick, client[r][u].ts)'
      BY DEF Entries
    <2>1. client'[r][u] = client[r][u]
      BY DEF Shuts, IInv, TypeOK
    <2>2. IsPerson(client[r][u]) /\ Heard(u, client[r][u].nick, client[r][u].ts)
      BY <2>1 DEF FInv, Entries
    <2>3. PICK n, ts : n = client[r][u].nick /\ ts = client[r][u].ts
      OBVIOUS
    <2>4. ts \in Nat
      BY <2>3 DEF IInv, TypeOK, Table, Entry
    <2>5. Heard(u, n, ts)'
      BY <1>1, <1>2, <2>2, <2>3, <2>4, Stays
    <2> QED BY <2>1, <2>2, <2>3, <2>5 DEF Heard, IsPerson
  <1>4. \A a, b : Lines(a, b) \subseteq Lines(a, b)'
    BY <1>1, <1>2, LinesStay
  <1> QED BY <1>1, <1>3, <1>4

LEMMA AnnouncerFair ==
    ASSUME IInv, IInv', FInv, NEW s \in Server, NEW c, Shuts(s, c), \A u \in User : Proper(u),
           NEW queues, Passing(queues), NEW peers, NEW m, Announces(s, queues, peers, m)
    PROVE  FInv'
  <1>1. /\ \A u \in User : Own(u)'
        /\ \A r \in Server : Entries(r)'
        /\ \A a, b : Lines(a, b) \subseteq Lines(a, b)'
    BY ShutFair
  <1>2. \A a, b : <<a, b>> \in Edge => queues[<<a, b>>] \in Seq(Lines(a, b)')
    BY <1>1 DEF Passing
  <1>3. \A a, b : <<a, b>> \in Edge => chan'[<<a, b>>] \in Seq(Lines(a, b)')
    BY <1>2, AnnouncedFair
  <1> QED BY <1>1, <1>3 DEF FInv

LEMMA SilentFair ==
    ASSUME IInv, IInv', FInv, NEW s \in Server, NEW c, Shuts(s, c), \A u \in User : Proper(u),
           chan' = chan
    PROVE  FInv'
  <1>1. /\ \A u \in User : Own(u)'
        /\ \A r \in Server : Entries(r)'
        /\ \A a, b : Lines(a, b) \subseteq Lines(a, b)'
    BY ShutFair
  <1>2. \A a, b : <<a, b>> \in Edge => chan[<<a, b>>] \in Seq(Lines(a, b))
    BY DEF FInv
  <1>3. \A a, b : <<a, b>> \in Edge => chan'[<<a, b>>] \in Seq(Lines(a, b)')
    BY <1>1, <1>2
  <1> QED BY <1>1, <1>3 DEF FInv

-----------------------------------------------------------------------------
(* A server's own events, action by action.                                *)

LEMMA TickFair ==
    ASSUME IInv, IInv', FInv, Tick
    PROVE  FInv' /\ \A u \in User : Evolves(u)
  <1>1. /\ now' = now + 1 /\ now \in Nat
        /\ UNCHANGED <<client, used, claims, chan>>
    BY DEF Tick, IInv, TypeOK
  <1>2. \A u \in User : Evolves(u)
    BY <1>1 DEF Evolves, Self
  <1>3. ASSUME NEW u \in User PROVE Own(u)'
    <2>1. CurrentTime(Home[u])' = CurrentTime(Home[u]) + 1
      BY <1>1, ClockAssumption, UserAssumption DEF CurrentTime
    <2>2. CurrentTime(Home[u]) \in Nat /\ Self(u).ts \in Nat
      BY ClockTyped, SelfTyped, UserAssumption DEF IInv
    <2>3. Self(u)' = Self(u) /\ Own(u)
      BY <1>1 DEF Self, FInv
    <2> QED BY <1>1, <2>1, <2>2, <2>3 DEF Own
  <1>4. ASSUME NEW s \in Server PROVE Entries(s)'
    BY <1>1 DEF FInv, Entries, Heard, Enrolled, IsPerson, Self
  <1>5. ASSUME NEW t, NEW s, <<t, s>> \in Edge PROVE chan'[<<t, s>>] \in Seq(Lines(t, s)')
    <2>1. Lines(t, s) \subseteq Lines(t, s)'
      BY <1>1, <1>2, LinesStay
    <2>2. chan[<<t, s>>] \in Seq(Lines(t, s))
      BY <1>5 DEF FInv
    <2> QED BY <1>1, <2>1, <2>2
  <1> QED BY <1>2, <1>3, <1>4, <1>5 DEF FInv

LEMMA MrNickFair ==
    ASSUME IInv, IInv', FInv, NEW u \in User, NEW n \in Nick, MrNick(u, n)
    PROVE  FInv' /\ \A v \in User : Evolves(v)
  <1> DEFINE s == Home[u]
             e == [on |-> "unknown", nick |-> n, ts |-> CurrentTime(s)]
             c == [client[s] EXCEPT ![u] = e]
  <1>1. /\ u \notin used \/ client[s][u].on = "unknown"
        /\ client' = [client EXCEPT ![s] = c]
        /\ used' = used \cup {u} /\ claims' = claims \cup {<<u, n, CurrentTime(s)>>}
        /\ now' = now /\ chan' = chan
    BY DEF MrNick
  <1>2. s \in Server
    BY UserAssumption
  <1>3. c[u] = e /\ \A v \in User \ {u} : c[v] = client[s][v]
    BY <1>2 DEF IInv, TypeOK, Table
  <1>4. client'[s] = c
    BY <1>1, <1>2 DEF IInv, TypeOK
  <1> HIDE DEF c
  <1>5. Shuts(s, c)
    BY <1>1, <1>3 DEF Shuts
  <1>6. Proper(u)
    <2>1. Self(u)' = e
      BY <1>3, <1>4 DEF Self
    <2>2. Evolves(u)
      BY <1>1 DEF Evolves, Enrolled, Self
    <2>3. CurrentTime(s)' = CurrentTime(s) /\ CurrentTime(s) \in Nat
      BY <1>1, <1>2, ClockTyped DEF CurrentTime, IInv
    <2>4. Own(u)'
      BY <1>1, <2>1, <2>3 DEF Own
    <2> QED BY <2>2, <2>4 DEF Proper
  <1>7. \A v \in User : Proper(v)
    BY <1>2, <1>3, <1>5, <1>6, ShutProper
  <1> QED BY <1>1, <1>2, <1>5, <1>7, SilentFair DEF Proper

LEMMA ExitUnknownFair ==
    ASSUME IInv, IInv', FInv, NEW u \in User, ExitUnknown(u)
    PROVE  FInv' /\ \A v \in User : Evolves(v)
  <1> DEFINE s == Home[u]
             c == [client[s] EXCEPT ![u] = Absent]
  <1>1. /\ client[s][u].on = "unknown"
        /\ client' = [client EXCEPT ![s] = c]
        /\ UNCHANGED <<used, claims, now, chan>>
    BY DEF ExitUnknown, Steady
  <1>2. s \in Server
    BY UserAssumption
  <1>3. c[u] = Absent /\ \A v \in User \ {u} : c[v] = client[s][v]
    BY <1>2 DEF IInv, TypeOK, Table
  <1>4. client'[s] = c
    BY <1>1, <1>2 DEF IInv, TypeOK
  <1> HIDE DEF c
  <1>5. Shuts(s, c)
    BY <1>1, <1>3 DEF Shuts
  <1>6. Proper(u)
    <2>1. Self(u)' = Absent
      BY <1>3, <1>4 DEF Self
    <2> QED BY <1>1, <2>1 DEF Proper, Own, Evolves, Enrolled, Self, Absent
  <1>7. \A v \in User : Proper(v)
    BY <1>2, <1>3, <1>5, <1>6, ShutProper
  <1> QED BY <1>1, <1>2, <1>5, <1>7, SilentFair DEF Proper

LEMMA QueuesPass ==
    ASSUME FInv
    PROVE  Passing(chan)
  BY DEF FInv, Passing

LEMMA RegisterIs ==
    ASSUME IInv, NEW u \in User, Register(u)
    PROVE  \E c : /\ client' = [client EXCEPT ![Home[u]] = c] /\ client'[Home[u]] = c
                  /\ \A v \in User \ {u} : c[v] = client[Home[u]][v]
                  /\ c[u] = [on |-> "person", nick |-> client[Home[u]][u].nick, ts |-> client[Home[u]][u].ts]
                  /\ chan' = Transmit(Home[u], chan,
                       Tell(est[Home[u]], [type |-> "UID", u |-> u, nick |-> client[Home[u]][u].nick,
                                           ts |-> client[Home[u]][u].ts]))
  <1> DEFINE s == Home[u]
             e == client[s][u]
             m == [type |-> "UID", u |-> u, nick |-> e.nick, ts |-> e.ts]
             c == [client[s] EXCEPT ![u].on = "person"]
             I == [Here(s) EXCEPT !.client[u].on = "person"]
  <1>1. s \in Server
    BY UserAssumption
  <1>2. I = [client |-> c, nd |-> nd[s], out |-> Here(s).out] /\ Commit(s, SendTo(I, est[s], m))
    BY DEF Here, Register
  <1>3. c[u] = [on |-> "person", nick |-> e.nick, ts |-> e.ts]
        /\ \A v \in User \ {u} : c[v] = client[s][v]
    <2>1. client[s] \in [User -> Entry]
      BY <1>1 DEF IInv, TypeOK, Table
    <2>2. e \in Entry
      BY <2>1
    <2>3. e = [on |-> e.on, nick |-> e.nick, ts |-> e.ts]
      BY <2>2 DEF Entry
    <2>4. [e EXCEPT !.on = "person"] = [on |-> "person", nick |-> e.nick, ts |-> e.ts]
      BY <2>3
    <2>5. c = [client[s] EXCEPT ![u] = [e EXCEPT !.on = "person"]]
      OBVIOUS
    <2> HIDE DEF c, e, s
    <2> QED BY <2>1, <2>4, <2>5
  <1> HIDE DEF I, c, m
  <1>4. SendTo(I, est[s], m).out = Tell(est[s], m) /\ SendTo(I, est[s], m).client = c
    BY <1>2, HereTells
  <1>5. client' = [client EXCEPT ![s] = c] /\ chan' = Transmit(s, chan, Tell(est[s], m))
    BY <1>2, <1>4 DEF Commit
  <1>6. client'[s] = c
    BY <1>1, <1>5 DEF IInv, TypeOK
  <1> QED BY <1>3, <1>5, <1>6 DEF m

LEMMA RegisterFair ==
    ASSUME IInv, IInv', FInv, NEW u \in User, Register(u)
    PROVE  FInv' /\ \A v \in User : Evolves(v)
  <1> DEFINE s == Home[u]
  <1>0. PICK e, n, ts : e = client[s][u] /\ n = e.nick /\ ts = e.ts
    OBVIOUS
  <1> DEFINE m == [type |-> "UID", u |-> u, nick |-> n, ts |-> ts]
             f == [on |-> "person", nick |-> n, ts |-> ts]
  <1>1. e.on = "unknown" /\ UNCHANGED <<used, claims, now>>
    BY <1>0 DEF Register, Steady
  <1>2. s \in Server /\ ts \in Nat /\ n \in NameFor(u)
    BY <1>0, <1>1, UserAssumption DEF IInv, TypeOK, Table, Entry, Absent
  <1>3. PICK c : /\ client' = [client EXCEPT ![s] = c] /\ client'[s] = c
                 /\ \A v \in User \ {u} : c[v] = client[s][v]
                 /\ c[u] = f
                 /\ chan' = Transmit(s, chan, Tell(est[s], m))
    BY <1>0, RegisterIs
  <1>4. Shuts(s, c)
    BY <1>1, <1>3 DEF Shuts
  <1>5. Self(u) = e /\ Self(u)' = f /\ Own(u)
    BY <1>0, <1>3 DEF Self, FInv
  <1>6. Proper(u)
    <2>1. CurrentTime(s)' = CurrentTime(s)
      BY <1>1 DEF CurrentTime
    <2>2. Own(u)'
      BY <1>0, <1>1, <1>5, <2>1 DEF Own
    <2>3. Evolves(u)
      BY <1>1, <1>5 DEF Evolves, Enrolled
    <2> QED BY <2>2, <2>3 DEF Proper
  <1>7. \A v \in User : Proper(v)
    BY <1>2, <1>3, <1>4, <1>6, ShutProper
  <1>8. \A r \in est[s] : <<s, r>> \in Edge => m \in Lines(s, r)'
    <2>1. m \in Message /\ m.type = "UID" /\ m.u = u /\ m.nick = n /\ m.ts = ts
      BY <1>2, BuiltMessages
    <2>2. Heard(u, n, ts)'
      <3>1. u \in used /\ (n \in Nick => <<u, n, ts>> \in claims)
        BY <1>0, <1>1, <1>5 DEF Own
      <3>3. ts <= ts
        BY <1>2
      <3> QED BY <1>1, <1>5, <3>1, <3>3 DEF Heard, Enrolled
    <2>3. \A r : <<s, r>> \in Edge => Home[u] \in Behind[<<r, s>>]
      BY EdgeFacts
    <2> HIDE DEF m
    <2>4. m.type \notin {"SAVE", "QUIT", "KILL"}
      BY <2>1
    <2>5. Fair(m)'
      BY <2>1, <2>2, <2>4 DEF Fair
    <2> QED BY <2>1, <2>3, <2>5 DEF Lines
  <1> HIDE DEF m, f
  <1>9. Announces(s, chan, est[s], m)
    BY <1>3, <1>8 DEF Announces
  <1> HIDE DEF s
  <1> QED BY <1>2, <1>4, <1>7, <1>9, AnnouncerFair, QueuesPass DEF Proper
-----------------------------------------------------------------------------
(* What a client's step does to its server's table, and tells the peers.   *)

\* s's table is c.
Sets(s, c) == client' = [client EXCEPT ![s] = c] /\ client'[s] = c

\* u, who is at home, takes the nick n; an unregistered holder is thrown out.
Renames(s, c, u, n, ts) ==
    /\ Sets(s, c) /\ ts = CurrentTime(s)
    /\ \A v \in User \ {u} : \/ c[v] = client[s][v]
                             \/ client[s][v].on = "unknown" /\ c[v] = Absent
    /\ c[u] = [on |-> "person", nick |-> n, ts |-> ts]
    /\ chan' = Transmit(s, chan, Tell(est[s], [type |-> "NICK", u |-> u, nick |-> n, ts |-> ts]))

LEMMA MNickIs ==
    ASSUME IInv, NEW u \in User, NEW n \in Nick, MNick(u, n), NEW s, s = Home[u]
    PROVE  \E c, ts : Renames(s, c, u, n, ts)
  <1>0. PICK ts : ts = CurrentTime(s)
    OBVIOUS
  <1> DEFINE others == Holders(client[s], n)
             b == [v \in User |-> IF v \in others THEN Absent ELSE client[s][v]]
             L == [Here(s) EXCEPT !.client = [v \in User |-> IF v \in others THEN Absent ELSE @[v]]]
             m == [type |-> "NICK", u |-> u, nick |-> n, ts |-> ts]
             K == SendTo(L, est[s], m)
             e == [on |-> "person", nick |-> n, ts |-> ts]
             c == [b EXCEPT ![u] = e]
  <1>1. s \in Server
    BY UserAssumption
  <1>2. /\ client[s][u].on = "person" /\ \A v \in others : client[s][v].on = "unknown"
        /\ Commit(s, ChangeLocalNick(K, u, n, ts))
    BY <1>0 DEF MNick, IsPerson
  <1>3. L = [client |-> b, nd |-> nd[s], out |-> Here(s).out]
    BY DEF Here
  <1>4. b[u].on = "person"
    BY <1>2
  <1>5. /\ c[u] = e
        /\ \A v \in User \ {u} : \/ c[v] = client[s][v]
                                 \/ client[s][v].on = "unknown" /\ c[v] = Absent
    BY <1>2
  <1> HIDE DEF L, m, others
  <1>6. K.out = Tell(est[s], m) /\ K.client = b
    BY <1>3, HereTells
  <1> HIDE DEF K, b
  <1>7. /\ ChangeLocalNick(K, u, n, ts).client = c
        /\ ChangeLocalNick(K, u, n, ts).out = Tell(est[s], m)
    BY <1>4, <1>6 DEF ChangeLocalNick
  <1> HIDE DEF c
  <1>8. client' = [client EXCEPT ![s] = c] /\ chan' = Transmit(s, chan, Tell(est[s], m))
    BY <1>2, <1>7 DEF Commit
  <1>9. Sets(s, c)
    BY <1>1, <1>8 DEF Sets, IInv, TypeOK
  <1>10. Renames(s, c, u, n, ts)
    BY <1>0, <1>5, <1>8, <1>9 DEF m, Renames
  <1> QED BY <1>10

LEMMA MNickFair ==
    ASSUME IInv, IInv', FInv, NEW u \in User, NEW n \in Nick, MNick(u, n)
    PROVE  FInv' /\ \A v \in User : Evolves(v)
  <1>0. PICK s : s = Home[u]
    OBVIOUS
  <1>1. /\ IsPerson(client[s][u]) /\ (SameSecond \/ CurrentTime(s) > client[s][u].ts)
        /\ UNCHANGED <<used, now>> /\ claims' = claims \cup {<<u, n, CurrentTime(s)>>}
    BY <1>0 DEF MNick
  <1>2. s \in Server /\ CurrentTime(s) \in Nat
    BY <1>0, UserAssumption, ClockTyped DEF IInv
  <1>13. PICK c, ts : Renames(s, c, u, n, ts)
    BY <1>0, MNickIs
  <1>3. /\ Sets(s, c) /\ ts = CurrentTime(s)
        /\ \A v \in User \ {u} : \/ c[v] = client[s][v]
                                 \/ client[s][v].on = "unknown" /\ c[v] = Absent
        /\ c[u] = [on |-> "person", nick |-> n, ts |-> ts]
        /\ chan' = Transmit(s, chan, Tell(est[s], [type |-> "NICK", u |-> u, nick |-> n, ts |-> ts]))
    BY <1>13 DEF Renames
  <1> DEFINE m == [type |-> "NICK", u |-> u, nick |-> n, ts |-> ts]
             f == [on |-> "person", nick |-> n, ts |-> ts]
  <1>4. Shuts(s, c)
    BY <1>0, <1>1, <1>3 DEF Shuts, Sets, Absent
  <1>5. Self(u) = client[s][u] /\ Self(u)' = f /\ Own(u)
    BY <1>0, <1>3 DEF Self, Sets, FInv
  <1>6. u \in used /\ Self(u).ts <= ts /\ (SameSecond \/ ts > Self(u).ts)
    BY <1>0, <1>1, <1>3, <1>5 DEF Own, IsPerson
  <1>7. Proper(u)
    <2>1. CurrentTime(Home[u])' = ts /\ ts <= ts
      BY <1>0, <1>1, <1>2, <1>3 DEF CurrentTime
    <2>2. <<u, n, ts>> \in claims' /\ u \in used'
      BY <1>1, <1>3, <1>6
    <2>3. Own(u)'
      BY <1>5, <2>1, <2>2 DEF Own
    <2>4. Self(u).ts \in Nat /\ ts \in Nat
      BY <1>2, <1>3, SelfTyped DEF IInv
    <2>5. Evolves(u)
      BY <1>1, <1>5, <1>6, <2>4 DEF Evolves
    <2> QED BY <2>3, <2>5 DEF Proper
  <1>8. ASSUME NEW v \in User PROVE Proper(v)
    <2>1. CASE v = u
      BY <1>7, <2>1
    <2>2. CASE v # u /\ (Home[v] # s \/ c[v] = client[s][v])
      BY <1>2, <1>4, <2>2, ShutProper
    <2>3. CASE v # u /\ Home[v] = s /\ client[s][v].on = "unknown" /\ c[v] = Absent
      <3>1. Self(v)' = Absent /\ Self(v).on = "unknown"
        BY <1>3, <2>3 DEF Self, Sets
      <3> QED BY <1>1, <3>1 DEF Proper, Own, Evolves, Enrolled, Absent
    <2> QED BY <1>3, <2>1, <2>2, <2>3
  <1>9. \A r \in est[s] : <<s, r>> \in Edge => m \in Lines(s, r)'
    <2>1. m \in Message /\ m.type = "NICK" /\ m.u = u /\ m.nick = n /\ m.ts = ts
      BY <1>2, <1>3, BuiltMessages DEF NameFor
    <2>2. Heard(u, n, ts)'
      <3>1. u \in used' /\ <<u, n, ts>> \in claims' /\ ts <= ts
        BY <1>1, <1>2, <1>3, <1>6
      <3> QED BY <1>5, <3>1 DEF Heard, Enrolled
    <2>3. \A r : <<s, r>> \in Edge => Home[u] \in Behind[<<r, s>>]
      BY <1>0, EdgeFacts
    <2> HIDE DEF m
    <2>4. m.type \notin {"SAVE", "QUIT", "KILL"}
      BY <2>1
    <2>5. Fair(m)'
      BY <2>1, <2>2, <2>4 DEF Fair
    <2> QED BY <2>1, <2>3, <2>5 DEF Lines
  <1>10. Announces(s, chan, est[s], m)
    BY <1>3, <1>9 DEF Announces
  <1> HIDE DEF m, f
  <1> QED BY <1>2, <1>4, <1>8, <1>10, AnnouncerFair, QueuesPass DEF Proper

\* A user leaves.
LEMMA LeaveIs ==
    ASSUME IInv, NEW s \in Server, NEW m, NEW v \in User, Commit(s, Drop(SendTo(Here(s), est[s], m), v))
    PROVE  \E c : /\ Sets(s, c) /\ c[v] = Absent /\ \A u \in User \ {v} : c[u] = client[s][u]
                  /\ chan' = Transmit(s, chan, Tell(est[s], m))
  <1> DEFINE L == Here(s)
             K == SendTo(L, est[s], m)
             c == [client[s] EXCEPT ![v] = Absent]
  <1>1. L = [client |-> client[s], nd |-> nd[s], out |-> Here(s).out]
    BY DEF Here
  <1>2. c[v] = Absent /\ \A u \in User \ {v} : c[u] = client[s][u]
    BY DEF IInv, TypeOK, Table
  <1> HIDE DEF L
  <1>3. K.out = Tell(est[s], m) /\ K.client = client[s]
    BY <1>1, HereTells
  <1>4. K = [client |-> K.client, nd |-> K.nd, out |-> K.out]
    <2> DEFINE o == [r \in Server |-> IF r \in est[s] THEN Append(L.out[r], m) ELSE L.out[r]]
    <2>1. K = [L EXCEPT !.out = o]
      BY DEF SendTo
    <2> HIDE DEF o, K
    <2>2. K = [client |-> client[s], nd |-> nd[s], out |-> o]
      BY <1>1, <2>1, Replaced
    <2> QED BY <2>2
  <1> HIDE DEF K
  <1>5. Drop(K, v).out = Tell(est[s], m) /\ Drop(K, v).client = c
    BY <1>3, <1>4 DEF Drop
  <1>6. client' = [client EXCEPT ![s] = c] /\ chan' = Transmit(s, chan, Tell(est[s], m))
    BY <1>5 DEF Commit, K, L
  <1> HIDE DEF c
  <1>7. Sets(s, c)
    BY <1>6 DEF Sets, IInv, TypeOK
  <1> QED BY <1>2, <1>6, <1>7

LEMMA LeaveFair ==
    ASSUME IInv, IInv', FInv, NEW s \in Server, NEW m \in Message, NEW v \in User,
           Commit(s, Drop(SendTo(Here(s), est[s], m), v)), UNCHANGED <<used, claims, now>>,
           m.type \in {"QUIT", "KILL"}, m.type = "QUIT" => m.u = v /\ Home[v] = s /\ v \in used,
           m.type = "KILL" => Oper # {}
    PROVE  FInv' /\ \A u \in User : Evolves(u)
  <1>1. PICK c : /\ Sets(s, c) /\ c[v] = Absent /\ \A u \in User \ {v} : c[u] = client[s][u]
                 /\ chan' = Transmit(s, chan, Tell(est[s], m))
    BY LeaveIs
  <1>2. Shuts(s, c)
    BY <1>1 DEF Shuts, Sets, Absent
  <1>3. Home[v] = s => Proper(v)
    <2>1. Home[v] = s => Self(v)' = Absent
      BY <1>1 DEF Self, Sets
    <2> QED BY <2>1 DEF Proper, Own, Evolves, Absent
  <1>4. \A u \in User : Proper(u)
    BY <1>1, <1>2, <1>3, ShutProper
  <1>5. Fair(m)'
    <2>1. m.type \notin {"UID", "NICK", "SAVE"}
      OBVIOUS
    <2>2. m.type = "QUIT" => Gone(m.u)'
      BY <1>1 DEF Gone, Self, Sets, Absent
    <2>3. m.type = "KILL" => Excused(m.u)'
      BY DEF Excused
    <2> QED BY <2>1, <2>2, <2>3 DEF Fair
  <1>6. Announces(s, chan, est[s], m)
    BY <1>1, <1>5 DEF Announces, Lines
  <1> QED BY <1>2, <1>4, <1>6, AnnouncerFair, QueuesPass DEF Proper

LEMMA QuitFair ==
    ASSUME IInv, IInv', FInv, NEW u \in User, Quit(u)
    PROVE  FInv' /\ \A v \in User : Evolves(v)
  <1>0. PICK s, m : s = Home[u] /\ m = [type |-> "QUIT", u |-> u]
    OBVIOUS
  <1>1. /\ IsPerson(client[s][u]) /\ Commit(s, Drop(SendTo(Here(s), est[s], m), u))
        /\ UNCHANGED <<used, claims, now>>
    BY <1>0 DEF Quit, Steady
  <1>2. s \in Server /\ u \in used
    BY <1>0, <1>1, UserAssumption DEF FInv, Own, Self, IsPerson
  <1>3. m \in Message /\ m.type = "QUIT" /\ m.u = u
    BY <1>0, BuiltMessages
  <1> QED BY <1>0, <1>1, <1>2, <1>3, LeaveFair

LEMMA MoKillFair ==
    ASSUME IInv, IInv', FInv, NEW o \in User, NEW v \in User, MoKill(o, v)
    PROVE  FInv' /\ \A u \in User : Evolves(u)
  <1>0. PICK s, m : s = Home[o] /\ m = IF Home[v] = s THEN [type |-> "QUIT", u |-> v]
                                                     ELSE [type |-> "KILL", u |-> v, src |-> o]
    OBVIOUS
  <1>1. /\ IsPerson(client[s][v]) /\ Commit(s, Drop(SendTo(Here(s), est[s], m), v))
        /\ UNCHANGED <<used, claims, now>> /\ Oper # {}
    BY <1>0 DEF MoKill
  <1>2. s \in Server /\ (Home[v] = s => v \in used)
    BY <1>0, <1>1, UserAssumption DEF FInv, Own, Self, IsPerson
  <1>3. m \in Message /\ m.type \in {"QUIT", "KILL"} /\ (m.type = "QUIT" => m.u = v /\ Home[v] = s)
    BY <1>0, BuiltMessages
  <1> QED BY <1>1, <1>2, <1>3, LeaveFair
-----------------------------------------------------------------------------
(* The servers.                                                            *)

\* s has read the first line from t, has the table c, and has told m to the peers.
Hears(s, t, c, peers, m) ==
    /\ Sets(s, c)
    /\ chan' = Transmit(s, [chan EXCEPT ![<<t, s>>] = Tail(@)], Tell(peers, m))

LEMMA MsSidIs ==
    ASSUME IInv, NEW s \in Server, NEW t, MsSid(s, t)
    PROVE  Hears(s, t, client[s], est[s] \ {t}, Msg(s, t))
  <1> DEFINE m == Msg(s, t)
             L == Here(s)
  <1>1. CommitFrom(s, t, SendTo(L, est[s] \ {t}, m))
    BY DEF MsSid
  <1>2. L = [client |-> client[s], nd |-> nd[s], out |-> Here(s).out]
    BY DEF Here
  <1> HIDE DEF L, m
  <1>3. /\ SendTo(L, est[s] \ {t}, m).out = Tell(est[s] \ {t}, m)
        /\ SendTo(L, est[s] \ {t}, m).client = client[s]
    BY <1>2, HereTells
  <1>4. client' = [client EXCEPT ![s] = client[s]]
        /\ chan' = Transmit(s, [chan EXCEPT ![<<t, s>>] = Tail(@)], Tell(est[s] \ {t}, m))
    BY <1>1, <1>3 DEF CommitFrom
  <1>5. Sets(s, client[s])
    BY <1>4 DEF Sets, IInv, TypeOK
  <1> QED BY <1>4, <1>5 DEF Hears, m

\* s has the clients it had, but for those of lost, which are not its own.
Forgets(s, lost, c) ==
    /\ \A u \in User : c[u] = IF Home[u] \in lost /\ client[s][u].on # "absent"
                              THEN Absent ELSE client[s][u]
    /\ s \notin lost

LEMMA MsSquitIs ==
    ASSUME IInv, NEW M, Met(M), NEW s \in Server, NEW t, MsSquit(s, t)
    PROVE  \E c : /\ Hears(s, t, c, est[s] \ {t}, Msg(s, t))
                  /\ Forgets(s, Lost(s, Msg(s, t).sid), c)
  <1> DEFINE m == Msg(s, t)
             x == m.sid
             L == Forget(Here(s), Lost(s, x))
             c == L.client
  <1>1. <<t, s>> \in Edge /\ t \in est[s] /\ chan[<<t, s>>] # <<>> /\ m.type = "SQUIT"
    BY DEF MsSquit, First, Msg
  <1>2. Fits(s, t, m, Sees(s, t, M)) /\ Reach(s, M)
    BY <1>1, Reading
  <1>3. x \in known[s]
    BY <1>1, <1>2 DEF Fits, Sees
  <1>4. CommitFrom(s, t, SendTo(L, est[s] \ {t}, m))
    BY <1>3 DEF MsSquit
  <1>5. L = [client |-> L.client, nd |-> L.nd, out |-> Here(s).out]
    BY DEF Forget
  <1>6. Forgets(s, Lost(s, x), c)
    <2>1. s \notin known[s]
      BY <1>2, NotSelf
    <2>2. s \notin Lost(s, x)
      BY <2>1 DEF Lost
    <2> QED BY <2>2 DEF Forgets, Forget, Here
  <1> HIDE DEF L, m, x
  <1>7. /\ SendTo(L, est[s] \ {t}, m).out = Tell(est[s] \ {t}, m)
        /\ SendTo(L, est[s] \ {t}, m).client = c
    BY <1>5, HereTells
  <1> HIDE DEF c
  <1>8. client' = [client EXCEPT ![s] = c]
        /\ chan' = Transmit(s, [chan EXCEPT ![<<t, s>>] = Tail(@)], Tell(est[s] \ {t}, m))
    BY <1>4, <1>7 DEF CommitFrom
  <1>9. Sets(s, c)
    BY <1>8 DEF Sets, IInv, TypeOK
  <1>10. Hears(s, t, c, est[s] \ {t}, m)
    BY <1>8, <1>9 DEF Hears
  <1> QED BY <1>6, <1>10 DEF x, m

\* Nobody at home is forgotten.
LEMMA ForgottenProper ==
    ASSUME IInv, FInv, NEW s \in Server, NEW lost, NEW c, Sets(s, c), Forgets(s, lost, c),
           UNCHANGED <<used, claims, now>>
    PROVE  Shuts(s, c) /\ \A u \in User : Proper(u)
  <1>1. Shuts(s, c)
    BY DEF Shuts, Sets, Forgets, Absent
  <1>2. \A u \in User : Home[u] = s => c[u] = client[s][u]
    BY DEF Forgets
  <1> QED BY <1>1, <1>2, ShutProper

LEMMA TailPasses ==
    ASSUME IInv, FInv, NEW s, NEW t, <<t, s>> \in Edge, chan[<<t, s>>] # <<>>
    PROVE  Passing([chan EXCEPT ![<<t, s>>] = Tail(@)])
  <1> DEFINE queues == [chan EXCEPT ![<<t, s>>] = Tail(@)]
  <1>1. ASSUME NEW a, NEW b, <<a, b>> \in Edge
        PROVE  queues[<<a, b>>] \in Seq(Lines(a, b))
    <2>1. chan[<<a, b>>] \in Seq(Lines(a, b))
      BY <1>1 DEF FInv
    <2>2. queues[<<a, b>>] = IF <<a, b>> = <<t, s>> THEN Tail(chan[<<a, b>>]) ELSE chan[<<a, b>>]
      BY <1>1 DEF IInv, TypeOK
    <2>3. <<a, b>> = <<t, s>> => Tail(chan[<<a, b>>]) \in Seq(Lines(a, b))
      BY <2>1
    <2> QED BY <2>1, <2>2, <2>3
  <1> HIDE DEF queues
  <1>2. Passing(queues)
    BY <1>1 DEF Passing
  <1> QED BY <1>2 DEF queues

\* A line about servers is always fair.
LEMMA ServerLine ==
    ASSUME NEW m \in Message, m.type \in {"SERVER", "SID", "SQUIT"}, NEW t, NEW s
    PROVE  m \in Lines(t, s) /\ m \in Lines(t, s)'
  <1>1. m.type \notin {"UID", "NICK", "SAVE", "QUIT", "KILL"}
    OBVIOUS
  <1>2. Fair(m) /\ Fair(m)'
    BY <1>1 DEF Fair
  <1> QED BY <1>1, <1>2 DEF Lines

LEMMA HeardFair ==
    ASSUME IInv, IInv', FInv, NEW s, NEW t, <<t, s>> \in Edge, chan[<<t, s>>] # <<>>,
           Msg(s, t).type \in {"SID", "SQUIT"},
           NEW c, NEW peers, Hears(s, t, c, peers, Msg(s, t)), NEW lost, Forgets(s, lost, c),
           UNCHANGED <<used, claims, now>>
    PROVE  FInv' /\ \A u \in User : Evolves(u)
  <1>1. PICK queues, m : queues = [chan EXCEPT ![<<t, s>>] = Tail(@)] /\ m = Msg(s, t)
    OBVIOUS
  <1>2. s \in Server /\ m \in Message /\ m.type \in {"SID", "SQUIT"}
    BY <1>1, ReadFair
  <1>3. Passing(queues)
    BY <1>1, TailPasses
  <1>4. Announces(s, queues, peers, m)
    <2>1. \A r : m \in Lines(s, r)'
      BY <1>2, ServerLine
    <2> QED BY <1>1, <2>1 DEF Announces, Hears
  <1>5. Shuts(s, c) /\ \A u \in User : Proper(u)
    BY <1>2, ForgottenProper DEF Hears
  <1> QED BY <1>2, <1>3, <1>4, <1>5, AnnouncerFair DEF Proper

LEMMA MsSidFair ==
    ASSUME IInv, IInv', FInv, NEW s, NEW t, MsSid(s, t)
    PROVE  FInv' /\ \A u \in User : Evolves(u)
  <1>1. /\ <<t, s>> \in Edge /\ chan[<<t, s>>] # <<>> /\ Msg(s, t).type = "SID"
        /\ UNCHANGED <<used, claims, now>>
    BY DEF MsSid, First, Msg
  <1>2. s \in Server
    BY <1>1, ReadFair
  <1>3. PICK c, lost : c = client[s] /\ lost = {}
    OBVIOUS
  <1>4. Hears(s, t, c, est[s] \ {t}, Msg(s, t))
    BY <1>2, <1>3, MsSidIs
  <1>5. Forgets(s, lost, c)
    BY <1>3 DEF Forgets
  <1> QED BY <1>1, <1>4, <1>5, HeardFair

LEMMA MsSquitFair ==
    ASSUME IInv, IInv', FInv, NEW M, Met(M), NEW s, NEW t, MsSquit(s, t)
    PROVE  FInv' /\ \A u \in User : Evolves(u)
  <1>1. /\ <<t, s>> \in Edge /\ chan[<<t, s>>] # <<>> /\ Msg(s, t).type = "SQUIT"
        /\ UNCHANGED <<used, claims, now>>
    BY DEF MsSquit, First, Msg
  <1>2. s \in Server
    BY <1>1, ReadFair
  <1>3. PICK lost : lost = Lost(s, Msg(s, t).sid)
    OBVIOUS
  <1>4. PICK c : Hears(s, t, c, est[s] \ {t}, Msg(s, t)) /\ Forgets(s, lost, c)
    BY <1>2, <1>3, MsSquitIs
  <1> QED BY <1>1, <1>4, HeardFair

LEMMA ExpireNdFair ==
    ASSUME IInv, IInv', FInv, NEW s \in Server, ExpireNd(s)
    PROVE  FInv' /\ \A u \in User : Evolves(u)
  <1>1. UNCHANGED <<client, chan, used, claims, now>>
    BY DEF ExpireNd, Steady
  <1>2. PICK c : c = client[s]
    OBVIOUS
  <1>3. Shuts(s, c)
    BY <1>1, <1>2 DEF Shuts, IInv, TypeOK
  <1>4. \A u \in User : Proper(u)
    BY <1>2, <1>3, ShutProper
  <1> QED BY <1>1, <1>3, <1>4, SilentFair DEF Proper
-----------------------------------------------------------------------------
(* The links.                                                              *)

\* w tells of the persons s has, and of servers.
Bursts(s, w) ==
    /\ w \in Seq(Message)
    /\ \A i \in 1..Len(w) :
         \/ w[i].type = "SID"
         \/ /\ w[i].type = "UID" /\ w[i].u \in Persons(s)
            /\ w[i].nick = client[s][w[i].u].nick /\ w[i].ts = client[s][w[i].u].ts
    /\ \A u \in Persons(s) : \E i \in 1..Len(w) : w[i].type = "UID" /\ w[i].u = u

LEMMA BurstBursts ==
    ASSUME IInv, NEW s \in Server,
           NEW sids \in SetToSeqs(known[s]), NEW uids \in SetToSeqs(Persons(s))
    PROVE  Bursts(s, Burst(s, sids, uids))
  <1> DEFINE w == Burst(s, sids, uids)
             k == Len(sids)
             n == Len(uids)
             a == [i \in 1..k |-> [type |-> "SID", sid |-> sids[i]]]
             b == [i \in 1..n |-> [type |-> "UID", u |-> uids[i],
                                  nick |-> client[s][uids[i]].nick, ts |-> client[s][uids[i]].ts]]
  <1>1. /\ w \in Seq(Message) /\ k \in Nat /\ n \in Nat /\ Len(w) = k + n
        /\ \A i \in 1..k : w[i].type = "SID"
        /\ \A i \in (k + 1)..(k + n) : /\ w[i].type = "UID" /\ w[i].u = uids[i - k]
                                       /\ i - k \in 1..n /\ uids[i - k] \in Persons(s)
        /\ \A x \in Persons(s) : \E i \in 1..n : uids[i] = x
    BY BurstIs
  <1>2. w = a \o b
    BY DEF Burst
  <1>3. a = [i \in 1..k |-> a[i]] /\ b = [i \in 1..n |-> b[i]]
    OBVIOUS
  <1>4. \A i \in 1..n : b[i].nick = client[s][uids[i]].nick /\ b[i].ts = client[s][uids[i]].ts
    OBVIOUS
  <1> HIDE DEF w, k, n, a, b
  <1>5. \A i \in (k + 1)..(k + n) : w[i] = b[i - k]
    BY <1>1, <1>2, <1>3, TwoListings
  <1>6. ASSUME NEW i \in 1..Len(w)
        PROVE  \/ w[i].type = "SID"
               \/ /\ w[i].type = "UID" /\ w[i].u \in Persons(s)
                  /\ w[i].nick = client[s][w[i].u].nick /\ w[i].ts = client[s][w[i].u].ts
    <2>1. i \in 1..k \/ i \in (k + 1)..(k + n)
      BY <1>1
    <2>2. CASE i \in 1..k
      BY <1>1, <2>2
    <2>3. CASE i \in (k + 1)..(k + n)
      <3>1. /\ w[i].type = "UID" /\ w[i].u = uids[i - k]
            /\ i - k \in 1..n /\ uids[i - k] \in Persons(s) /\ w[i] = b[i - k]
        BY <1>1, <1>5, <2>3
      <3>2. PICK j \in 1..n : j = i - k
        BY <3>1
      <3>3. w[i].nick = client[s][uids[j]].nick /\ w[i].ts = client[s][uids[j]].ts
        BY <1>4, <3>1, <3>2
      <3> QED BY <3>1, <3>2, <3>3
    <2> QED BY <2>1, <2>2, <2>3
  <1>7. ASSUME NEW u \in Persons(s)
        PROVE  \E i \in 1..Len(w) : w[i].type = "UID" /\ w[i].u = u
    <2>1. PICK i \in 1..n : uids[i] = u
      BY <1>1
    <2>2. i + k \in 1..Len(w) /\ i + k \in (k + 1)..(k + n) /\ (i + k) - k = i
      BY <1>1
    <2> QED BY <1>1, <2>1, <2>2
  <1>8. Bursts(s, w)
    BY <1>1, <1>6, <1>7 DEF Bursts
  <1> QED BY <1>8 DEF w

\* A burst is fair, to one who is not linked yet.
LEMMA BurstFair ==
    ASSUME IInv, FInv, NEW M, NEW s, NEW t, <<s, t>> \in Edge, Reach(s, M), t \notin est[s],
           NEW w, Bursts(s, w)
    PROVE  w \in Seq(Lines(s, t))
  <1>1. s \in Server /\ w \in Seq(Message)
    BY EdgeFacts DEF Bursts
  <1>2. ASSUME NEW i \in 1..Len(w) PROVE w[i] \in Lines(s, t)
    <2>1. w[i] \in Message
      BY <1>1
    <2>2. CASE w[i].type = "SID"
      BY <2>1, <2>2, ServerLine
    <2>3. CASE w[i].type # "SID"
      <3>1. PICK m : m = w[i]
        OBVIOUS
      <3>2. /\ m \in Message /\ m.type = "UID" /\ m.u \in Persons(s)
            /\ m.nick = client[s][m.u].nick /\ m.ts = client[s][m.u].ts
        BY <1>2, <2>1, <2>3, <3>1 DEF Bursts
      <3>3. m.u \in User /\ IsPerson(client[s][m.u])
        BY <3>2 DEF Persons
      <3>4. Heard(m.u, m.nick, m.ts)
        BY <1>1, <3>2, <3>3, PersonHeard
      <3>5. Home[m.u] \in Behind[<<t, s>>]
        <4>1. known[s] \subseteq Behind[<<t, s>>] /\ s \in Behind[<<t, s>>]
          BY NotLinked, EdgeFacts
        <4>2. Home[m.u] = s \/ Home[m.u] \in known[s]
          BY <3>3 DEF Reach, IsPerson
        <4> QED BY <4>1, <4>2
      <3>6. m.type \notin {"SAVE", "QUIT", "KILL"}
        BY <3>2
      <3>7. Fair(m)
        BY <3>2, <3>4, <3>6 DEF Fair
      <3> QED BY <3>1, <3>2, <3>5, <3>7 DEF Lines
    <2> QED BY <2>2, <2>3
  <1> QED BY <1>1, <1>2

\* s rearranges its link to t, and tells the others of it.
LEMMA LinkFair ==
    ASSUME IInv, IInv', FInv, NEW s, NEW t, <<s, t>> \in Edge,
           NEW c, Shuts(s, c), \A u \in User : Proper(u),
           NEW m \in Message, m.type \in {"SID", "SQUIT"}, NEW peers, Spread(s, t, Tell(peers, m)),
           chan'[<<s, t>>] \in Seq(Lines(s, t)), chan'[<<t, s>>] \in Seq(Lines(t, s))
    PROVE  FInv' /\ \A u \in User : Evolves(u)
  <1>0. s \in Server
    BY EdgeFacts
  <1>1. /\ \A u \in User : Own(u)'
        /\ \A r \in Server : Entries(r)'
        /\ \A a, b : Lines(a, b) \subseteq Lines(a, b)'
    BY <1>0, ShutFair
  <1>2. ASSUME NEW a, NEW b, <<a, b>> \in Edge
        PROVE  chan'[<<a, b>>] \in Seq(Lines(a, b)')
    <2>1. chan[<<a, b>>] \in Seq(Lines(a, b)) /\ Lines(a, b) \subseteq Lines(a, b)' /\ a \in Server /\ b \in Server
      BY <1>1, <1>2, EdgeFacts DEF FInv
    <2>2. chan[<<a, b>>] \in Seq(Lines(a, b)')
      BY <2>1
    <2>3. CASE <<a, b>> = <<s, t>> \/ <<a, b>> = <<t, s>>
      <3>1. chan'[<<a, b>>] \in Seq(Lines(a, b))
        BY <2>3
      <3> QED BY <2>1, <3>1
    <2>4. CASE a # s /\ <<a, b>> # <<t, s>>
      <3>1. chan'[<<a, b>>] = chan[<<a, b>>]
        BY <1>2, <2>4 DEF Spread
      <3> QED BY <2>2, <3>1
    <2>5. CASE a = s /\ b # t
      <3>1. PICK w : w = Tell(peers, m)[b]
        OBVIOUS
      <3>2. w = <<m>> \/ w = <<>>
        BY <2>1, <3>1 DEF Tell
      <3>3. m \in Lines(a, b)'
        BY ServerLine
      <3>4. w \in Seq(Lines(a, b)')
        <4>1. \A S : m \in S => <<>> \in Seq(S) /\ <<m>> \in Seq(S)
          OBVIOUS
        <4> QED BY <3>2, <3>3, <4>1
      <3>5. chan'[<<a, b>>] = IF Open(b, s) THEN chan[<<a, b>>] \o w ELSE chan[<<a, b>>]
        BY <1>2, <2>5, <3>1 DEF Spread
      <3>6. chan[<<a, b>>] \o w \in Seq(Lines(a, b)')
        BY <2>2, <3>4
      <3> QED BY <2>2, <3>5, <3>6
    <2> QED BY <2>3, <2>4, <2>5
  <1> QED BY <1>1, <1>2 DEF FInv, Proper

LEMMA SidBuilt ==
    ASSUME NEW t \in Server
    PROVE  /\ [type |-> "SID", sid |-> t] \in Message /\ [type |-> "SID", sid |-> t].type = "SID"
           /\ [type |-> "SQUIT", sid |-> t] \in Message /\ [type |-> "SQUIT", sid |-> t].type = "SQUIT"
           /\ [type |-> "SQUIT", sid |-> t].sid = t
  BY DEF Message

\* s has linked itself to t.
LEMMA JoinFair ==
    ASSUME IInv, IInv', FInv, NEW s, NEW t, <<s, t>> \in Edge, NEW q, NEW p, Joins(s, t, q, p),
           UNCHANGED <<client, used, claims, now>>,
           q \in Seq(Lines(s, t)), p \in Seq(Lines(t, s))
    PROVE  FInv' /\ \A u \in User : Evolves(u)
  <1>1. s \in Server /\ t \in Server
    BY EdgeFacts
  <1>2. PICK c, m : c = client[s] /\ m = [type |-> "SID", sid |-> t]
    OBVIOUS
  <1>3. Shuts(s, c)
    BY <1>1, <1>2 DEF Shuts, IInv, TypeOK
  <1>4. \A u \in User : Proper(u)
    BY <1>1, <1>2, <1>3, ShutProper
  <1>5. m \in Message /\ m.type = "SID"
    BY <1>1, <1>2, SidBuilt
  <1>6. Spread(s, t, Tell(est[s], m))
    BY <1>2 DEF Joins, Relayed
  <1>7. chan'[<<s, t>>] \in Seq(Lines(s, t)) /\ chan'[<<t, s>>] \in Seq(Lines(t, s))
    BY DEF Joins
  <1> QED BY <1>3, <1>4, <1>5, <1>6, <1>7, LinkFair

LEMMA AcceptLinkFair ==
    ASSUME IInv, IInv', FInv, NEW M, Met(M), NEW s \in Server, NEW t \in Server, AcceptLink(s, t)
    PROVE  FInv' /\ \A u \in User : Evolves(u)
  <1>1. <<s, t>> \in Edge /\ t \notin est[s] /\ UNCHANGED <<client, used, claims, now>>
    BY DEF AcceptLink, Open
  <1>2. PICK sids \in SetToSeqs(known[s]), uids \in SetToSeqs(Persons(s)) :
          Joins(s, t, <<Greeting>> \o Burst(s, sids, uids), <<>>)
    BY AcceptLinkIs
  <1>3. PICK w : w = Burst(s, sids, uids)
    OBVIOUS
  <1>4. Bursts(s, w)
    BY <1>3, BurstBursts
  <1>5. Reach(s, M)
    BY DEF Met
  <1>6. w \in Seq(Lines(s, t))
    BY <1>1, <1>4, <1>5, BurstFair
  <1>7. Greeting \in Lines(s, t)
    BY GreetingBuilt, ServerLine
  <1>8. <<Greeting>> \o w \in Seq(Lines(s, t))
    BY <1>6, <1>7
  <1>9. <<>> \in Seq(Lines(t, s))
    OBVIOUS
  <1> QED BY <1>1, <1>2, <1>3, <1>8, <1>9, JoinFair

LEMMA MrServerFair ==
    ASSUME IInv, IInv', FInv, NEW M, Met(M), NEW s \in Server, NEW t \in Server, MrServer(s, t)
    PROVE  FInv' /\ \A u \in User : Evolves(u)
  <1>1. /\ <<t, s>> \in Edge /\ chan[<<t, s>>] # <<>> /\ UNCHANGED <<client, used, claims, now>>
        /\ <<s, t>> \in Edge
    BY EdgeFacts DEF MrServer
  <1>2. t \notin est[s]
    BY MrServerIs
  <1>3. PICK sids \in SetToSeqs(known[s]), uids \in SetToSeqs(Persons(s)) :
          Joins(s, t, IF s \in est[t] THEN Burst(s, sids, uids) ELSE <<>>, Tail(chan[<<t, s>>]))
    BY MrServerIs
  <1>4. PICK w : w = Burst(s, sids, uids)
    OBVIOUS
  <1>5. Bursts(s, w)
    BY <1>4, BurstBursts
  <1>6. Reach(s, M)
    BY DEF Met
  <1>7. w \in Seq(Lines(s, t))
    BY <1>1, <1>2, <1>5, <1>6, BurstFair
  <1>8. <<>> \in Seq(Lines(s, t))
    OBVIOUS
  <1>9. PICK q, p : q = (IF s \in est[t] THEN w ELSE <<>>) /\ p = Tail(chan[<<t, s>>])
    OBVIOUS
  <1>10. q \in Seq(Lines(s, t)) /\ Joins(s, t, q, p)
    BY <1>3, <1>4, <1>7, <1>8, <1>9
  <1>11. p \in Seq(Lines(t, s))
    <2>1. chan[<<t, s>>] \in Seq(Lines(t, s))
      BY <1>1 DEF FInv
    <2> QED BY <1>1, <1>9, <2>1
  <1> QED BY <1>1, <1>10, <1>11, JoinFair

LEMMA CloseLinkFair ==
    ASSUME IInv, IInv', FInv, NEW M, Met(M), NEW s \in Server, NEW t \in Server, CloseLink(s, t)
    PROVE  FInv' /\ \A u \in User : Evolves(u)
  <1>1. <<s, t>> \in Edge /\ <<t, s>> \in Edge /\ UNCHANGED <<used, claims, now>>
    BY EdgeFacts DEF CloseLink
  <1>2. PICK m, tell, lost : /\ m = [type |-> "SQUIT", sid |-> t] /\ lost = Lost(s, t)
                             /\ tell = IF t \in est[s] THEN est[s] \ {t} ELSE {}
    OBVIOUS
  <1>3. PICK c : c = Forget(Here(s), lost).client /\ Parts(s, t, c, tell, m)
    BY <1>2, CloseLinkIs
  <1>4. Forgets(s, lost, c)
    <2>1. s \notin known[s]
      BY NotSelf DEF Met
    <2>2. s \notin lost
      BY <1>2, <2>1 DEF Lost
    <2> QED BY <1>3, <2>2 DEF Forgets, Forget, Here
  <1>5. Sets(s, c)
    BY <1>3 DEF Parts, Sets
  <1>6. Shuts(s, c) /\ \A u \in User : Proper(u)
    BY <1>1, <1>4, <1>5, ForgottenProper
  <1>7. m \in Message /\ m.type = "SQUIT"
    BY <1>2, SidBuilt
  <1>8. chan'[<<s, t>>] \in Seq(Lines(s, t)) /\ chan'[<<t, s>>] \in Seq(Lines(t, s))
    <2>1. <<>> \in Seq(Lines(t, s))
      OBVIOUS
    <2> QED BY <1>1, <1>3, <2>1 DEF Parts, FInv
  <1>9. Spread(s, t, Tell(tell, m))
    BY <1>3 DEF Parts
  <1> QED BY <1>1, <1>6, <1>7, <1>8, <1>9, LinkFair
-----------------------------------------------------------------------------
(* Every step is fair.                                                     *)

LEMMA FInvInit == Init => FInv
  <1> SUFFICES ASSUME Init PROVE FInv
    OBVIOUS
  <1>1. \A s \in Server, u \in User : client[s][u] = Absent
    BY DEF Init
  <1>2. \A u \in User : Own(u)
    BY <1>1, UserAssumption DEF Own, Self, Absent
  <1>3. \A s \in Server : Entries(s)
    BY <1>1 DEF Entries, Absent
  <1>4. ASSUME NEW t, NEW s, <<t, s>> \in Edge PROVE chan[<<t, s>>] \in Seq(Lines(t, s))
    <2>1. chan[<<t, s>>] = <<>>
      BY <1>4 DEF Init
    <2>2. <<>> \in Seq(Lines(t, s))
      OBVIOUS
    <2> QED BY <2>1, <2>2
  <1> QED BY <1>2, <1>3, <1>4 DEF FInv

LEMMA StillFair ==
    ASSUME FInv, UNCHANGED vars
    PROVE  FInv' /\ \A u \in User : Evolves(u)
  <1>1. /\ now' = now /\ client' = client /\ used' = used /\ claims' = claims /\ chan' = chan
    BY DEF vars
  <1>2. \A u \in User : Evolves(u) /\ (Own(u)' <=> Own(u))
    BY <1>1 DEF Evolves, Self, Own, CurrentTime
  <1>3. \A s \in Server : Entries(s)' <=> Entries(s)
    BY <1>1 DEF Entries, IsPerson, Heard, Enrolled, Self
  <1>4. \A t, s : Lines(t, s)' = Lines(t, s)
    <2>1. \A m : Fair(m)' <=> Fair(m)
      <3>1. \A u : /\ Gone(u)' <=> Gone(u)
                   /\ Excused(u)' <=> Excused(u)
        BY <1>1 DEF Gone, Excused, Bested, Self, Beats
      <3>2. \A u, n, ts : Heard(u, n, ts)' <=> Heard(u, n, ts)
        BY <1>1 DEF Heard, Enrolled, Self, IsPerson
      <3>3. \A u, ts : Charged(u, ts)' <=> Charged(u, ts)
        BY <1>1, <3>1 DEF Charged, Enrolled, Self, IsPerson, Outdone, Beats
      <3> QED BY <3>1, <3>2, <3>3 DEF Fair
    <2> QED BY <2>1 DEF Lines
  <1> QED BY <1>1, <1>2, <1>3, <1>4 DEF FInv

LEMMA HandledFair ==
    ASSUME IInv, IInv', FInv, NEW s, NEW t, <<t, s>> \in Edge, chan[<<t, s>>] # <<>>,
           NEW X, NEW K, Handles(s, t, X, K), Steady
    PROVE  FInv' /\ \A u \in User : Evolves(u)
  <1>1. s \in Server
    BY EdgeFacts
  <1> QED BY <1>1, ReadJust DEF Handles, Steady

LEMMA FInvStep ==
    ASSUME IInv, IInv', TInv, FInv, OInv, [Next]_vars
    PROVE  FInv' /\ \A u \in User : Evolves(u)
  <1>0. PICK M : Met(M)
    BY DEF TInv
  <1>1. CASE Tick
    BY <1>1, TickFair
  <1>2. CASE \E s \in Server : ExpireNd(s)
    BY <1>2, ExpireNdFair
  <1>3. CASE UNCHANGED vars
    BY <1>3, StillFair
  <1>4. CASE ClientStep
    <2> SUFFICES ASSUME NEW u \in User, \/ \E n \in Nick : MrNick(u, n) \/ MNick(u, n)
                                        \/ Register(u) \/ ExitUnknown(u) \/ Quit(u)
                                        \/ \E v \in User : MoKill(u, v)
                 PROVE  FInv' /\ \A v \in User : Evolves(v)
      BY <1>4 DEF ClientStep
    <2> QED BY MrNickFair, MNickFair, RegisterFair, ExitUnknownFair, QuitFair, MoKillFair
  <1>5. ASSUME NEW s \in Server, NEW t \in Server, Receive(s, t)
        PROVE  FInv' /\ \A u \in User : Evolves(u)
    <2>1. CASE MrServer(s, t)
      BY <1>0, <2>1, MrServerFair
    <2>2. CASE MsSid(s, t)
      BY <2>2, MsSidFair
    <2>3. CASE MsSquit(s, t)
      BY <1>0, <2>3, MsSquitFair
    <2>4. ASSUME \/ MsUid(s, t) \/ McNick(s, t) \/ MsSave(s, t) \/ MsQuit(s, t) \/ MsKill(s, t)
          PROVE  FInv' /\ \A u \in User : Evolves(u)
      <3>1. <<t, s>> \in Edge /\ chan[<<t, s>>] # <<>> /\ Steady
        BY <2>4 DEF MsUid, McNick, MsSave, MsQuit, MsKill, First
      <3>2. MsUid(s, t) => \E K : Takes(s, t, Msg(s, t).u, K)
        BY TInvNoDuplicate, MsUidHandled
      <3>3. MsUid(s, t) => \E X, K : Handles(s, t, X, K)
        BY <3>2 DEF Takes
      <3>4. ~MsUid(s, t) => \E K : Handles(s, t, {}, K)
        BY <2>4, McNickHandled, SaveHandled, MsQuitHandled, MsKillHandled
      <3>5. \E X, K : Handles(s, t, X, K)
        BY <3>3, <3>4
      <3> QED BY <3>1, <3>5, HandledFair
    <2> QED BY <1>5, <2>1, <2>2, <2>3, <2>4 DEF Receive
  <1>6. ASSUME NEW s \in Server, NEW t \in Server, AcceptLink(s, t)
        PROVE  FInv' /\ \A u \in User : Evolves(u)
    BY <1>0, <1>6, AcceptLinkFair
  <1>7. ASSUME NEW s \in Server, NEW t \in Server, CloseLink(s, t)
        PROVE  FInv' /\ \A u \in User : Evolves(u)
    BY <1>0, <1>7, CloseLinkFair
  <1> QED BY <1>1, <1>2, <1>3, <1>4, <1>5, <1>6, <1>7 DEF Next
-----------------------------------------------------------------------------
(* The order of what is said of a user, over a step.                       *)

LEMMA AwareOf ==
    ASSUME NEW s, NEW q, NEW u, NEW e, NEW f, e.on # "absent" => f.on # "absent",
           NEW i, Aware(s, q, u, e, i)
    PROVE  Aware(s, q, u, f, i)
  BY DEF Aware

\* The first line has been read.
LEMMA AwareRead ==
    ASSUME NEW s, NEW q \in Seq(Message), q # <<>>, NEW u, NEW e, NEW f,
           e.on # "absent" /\ ~Cuts(s, q[1], Home[u]) => f.on # "absent",
           q[1].type = "UID" /\ q[1].u = u => f.on # "absent",
           NEW i \in 1..Len(q), Aware(s, q, u, e, i)
    PROVE  Aware(s, Tail(q), u, f, i - 1)
  <1> DEFINE p == Tail(q)
  <1>1. Len(q) \in Nat /\ 1 \in 1..Len(q) /\ Len(p) = Len(q) - 1
    OBVIOUS
  <1>2. \A k \in 1..Len(p) : p[k] = q[k + 1]
    OBVIOUS
  <1> HIDE DEF p
  <1>3. PICK j \in 0..i : /\ \/ j = 0 /\ e.on # "absent"
                             \/ j > 0 /\ q[j].type = "UID" /\ q[j].u = u
                          /\ \A k \in (j + 1)..i : ~Cuts(s, q[k], Home[u])
    BY DEF Aware
  <1>4. CASE j = 0 \/ j = 1
    <2>1. j = 0 => ~Cuts(s, q[1], Home[u])
      BY <1>1, <1>3
    <2>2. f.on # "absent"
      BY <1>3, <1>4, <2>1
    <2>3. ASSUME NEW k \in (0 + 1)..(i - 1) PROVE ~Cuts(s, p[k], Home[u])
      <3>1. k + 1 \in (j + 1)..i /\ k \in 1..Len(p)
        BY <1>1, <1>4, <2>3
      <3> QED BY <1>2, <1>3, <3>1
    <2>4. 0 \in 0..(i - 1)
      BY <1>1
    <2> QED BY <2>2, <2>3, <2>4 DEF Aware, p
  <1>5. CASE j > 1
    <2>1. j - 1 \in 0..(i - 1) /\ j - 1 > 0 /\ j - 1 \in 1..Len(p) /\ (j - 1) + 1 = j
      BY <1>1, <1>3, <1>5
    <2>2. p[j - 1].type = "UID" /\ p[j - 1].u = u
      BY <1>2, <1>3, <1>5, <2>1
    <2>3. ASSUME NEW k \in ((j - 1) + 1)..(i - 1) PROVE ~Cuts(s, p[k], Home[u])
      <3>1. k + 1 \in (j + 1)..i /\ k \in 1..Len(p)
        BY <1>1, <1>5, <2>3
      <3> QED BY <1>2, <1>3, <3>1
    <2> QED BY <2>1, <2>2, <2>3 DEF Aware, p
  <1> QED BY <1>3, <1>4, <1>5

\* More has been said.
LEMMA AwareMore ==
    ASSUME NEW s, NEW q \in Seq(Message), NEW w \in Seq(Message), NEW u, NEW e
    PROVE  /\ \A i \in 0..Len(q) : Aware(s, q, u, e, i) => Aware(s, q \o w, u, e, i)
           /\ \A n \in 0..Len(w) :
                Aware(s, q, u, e, Len(q)) /\ (\A k \in 1..n : ~Cuts(s, w[k], Home[u]))
                => Aware(s, q \o w, u, e, Len(q) + n)
           /\ \A n \in 0..Len(w) : \A j \in 1..n :
                w[j].type = "UID" /\ w[j].u = u /\ (\A k \in 1..n : ~Cuts(s, w[k], Home[u]))
                => Aware(s, q \o w, u, e, Len(q) + n)
  <1> DEFINE r == q \o w
  <1>1. /\ Len(q) \in Nat /\ Len(w) \in Nat /\ Len(r) = Len(q) + Len(w)
        /\ \A i \in 1..Len(q) : r[i] = q[i]
        /\ \A i \in (Len(q) + 1)..(Len(q) + Len(w)) : r[i] = w[i - Len(q)]
    OBVIOUS
  <1> HIDE DEF r
  <1>2. ASSUME NEW i \in 0..Len(q), NEW n \in 0..Len(w), Aware(s, q, u, e, i),
               i = Len(q) \/ n = 0, \A k \in 1..n : ~Cuts(s, w[k], Home[u])
        PROVE  Aware(s, r, u, e, i + n)
    <2>1. PICK j \in 0..i : /\ \/ j = 0 /\ e.on # "absent"
                               \/ j > 0 /\ q[j].type = "UID" /\ q[j].u = u
                            /\ \A k \in (j + 1)..i : ~Cuts(s, q[k], Home[u])
      BY <1>2 DEF Aware
    <2>2. ASSUME NEW k \in (j + 1)..(i + n) PROVE ~Cuts(s, r[k], Home[u])
      <3>1. CASE k <= i
        <4>1. k \in (j + 1)..i /\ k \in 1..Len(q)
          BY <1>1, <3>1
        <4> QED BY <1>1, <2>1, <4>1
      <3>2. CASE k > i
        <4>1. n # 0 /\ i = Len(q)
          BY <1>1, <1>2, <3>2
        <4>2. k - Len(q) \in 1..n /\ k \in (Len(q) + 1)..(Len(q) + Len(w))
          BY <1>1, <3>2, <4>1
        <4> QED BY <1>1, <1>2, <4>2
      <3> QED BY <1>1, <3>1, <3>2
    <2>3. j \in 0..(i + n) /\ (j > 0 => r[j] = q[j])
      BY <1>1
    <2> QED BY <2>1, <2>2, <2>3 DEF Aware
  <1>3. ASSUME NEW i \in 0..Len(q), Aware(s, q, u, e, i) PROVE Aware(s, r, u, e, i)
    <2>1. 0 \in 0..Len(w) /\ i + 0 = i /\ \A k \in 1..0 : ~Cuts(s, w[k], Home[u])
      BY <1>1
    <2> QED BY <1>2, <1>3, <2>1
  <1>4. ASSUME NEW n \in 0..Len(w), Aware(s, q, u, e, Len(q)), \A k \in 1..n : ~Cuts(s, w[k], Home[u])
        PROVE  Aware(s, r, u, e, Len(q) + n)
    <2>1. Len(q) \in 0..Len(q)
      BY <1>1
    <2> QED BY <1>2, <1>4, <2>1
  <1>5. ASSUME NEW n \in 0..Len(w), NEW j \in 1..n, w[j].type = "UID" /\ w[j].u = u,
               \A k \in 1..n : ~Cuts(s, w[k], Home[u])
        PROVE  Aware(s, r, u, e, Len(q) + n)
    <2>1. PICK l : l = Len(q) + j
      OBVIOUS
    <2>2. l \in 0..(Len(q) + n) /\ l > 0 /\ l \in (Len(q) + 1)..(Len(q) + Len(w)) /\ l - Len(q) = j
      BY <1>1, <2>1
    <2>3. r[l].type = "UID" /\ r[l].u = u
      BY <1>1, <1>5, <2>2
    <2>4. ASSUME NEW k \in (l + 1)..(Len(q) + n) PROVE ~Cuts(s, r[k], Home[u])
      <3>1. k - Len(q) \in 1..n /\ k \in (Len(q) + 1)..(Len(q) + Len(w))
        BY <1>1, <2>1
      <3> QED BY <1>1, <1>5, <3>1
    <2> QED BY <2>2, <2>3, <2>4 DEF Aware
  <1>6. /\ \A i \in 0..Len(q) : Aware(s, q, u, e, i) => Aware(s, r, u, e, i)
        /\ \A n \in 0..Len(w) :
             Aware(s, q, u, e, Len(q)) /\ (\A k \in 1..n : ~Cuts(s, w[k], Home[u]))
             => Aware(s, r, u, e, Len(q) + n)
        /\ \A n \in 0..Len(w) : \A j \in 1..n :
             w[j].type = "UID" /\ w[j].u = u /\ (\A k \in 1..n : ~Cuts(s, w[k], Home[u]))
             => Aware(s, r, u, e, Len(q) + n)
    BY <1>3, <1>4, <1>5
  <1> QED BY <1>6 DEF r
-----------------------------------------------------------------------------
(* One direction of a link.                                                *)

\* Whoever may be killed still may.
Forgiving == \A u \in User : Excused(u) => Excused(u)'

\* To show that a direction stays in order take one user t has to tell s of.
LEMMA OrderOf ==
    ASSUME NEW t, NEW s, Order(t, s), Forgiving,
           \A u \in User : Home[u] \in Behind[<<s, t>>] /\ ~Excused(u) /\ InStep(t, s, u)
                           => InStep(t, s, u)'
    PROVE  Order(t, s)'
  BY DEF Order, Forgiving

\* Whom t has told of is still there at s, and t has nobody new.
Keeps(t, s, u) ==
    /\ client[s][u].on # "absent" => client'[s][u].on # "absent"
    /\ client'[t][u].on = "person" => IsPerson(client[t][u])

LEMMA OrderKept ==
    ASSUME IInv, NEW t, NEW s, <<t, s>> \in Edge, Order(t, s), Forgiving,
           chan'[<<t, s>>] = chan[<<t, s>>], Live(t, s)' => Live(t, s),
           \A u \in User : Home[u] \in Behind[<<s, t>>] /\ ~Excused(u) => Keeps(t, s, u)
    PROVE  Order(t, s)'
  <1> SUFFICES ASSUME NEW u \in User, Keeps(t, s, u), InStep(t, s, u) PROVE InStep(t, s, u)'
    BY OrderOf
  <1>1. PICK q, e, f : q = chan[<<t, s>>] /\ e = client[s][u] /\ f = client'[s][u]
    OBVIOUS
  <1>2. \A i : Aware(s, q, u, e, i) => Aware(s, q, u, f, i)
    BY <1>1, AwareOf DEF Keeps
  <1>3. q = chan'[<<t, s>>]
    BY <1>1
  <1>4. \A i \in 1..Len(q) : q[i].type = "NICK" /\ q[i].u = u => Aware(s, q, u, f, i - 1)
    BY <1>1, <1>2 DEF InStep
  <1>5. Live(t, s)' /\ IsPerson(client[t][u])' => Aware(s, q, u, f, Len(q))
    BY <1>1, <1>2 DEF InStep, Keeps, IsPerson
  <1> QED BY <1>1, <1>3, <1>4, <1>5 DEF InStep

\* s has the first line of t, and lets in whom it tells of.
Obliges(t, s, u) ==
    /\ client[s][u].on # "absent" /\ ~Cuts(s, Msg(s, t), Home[u]) => client'[s][u].on # "absent"
    /\ Msg(s, t).type = "UID" /\ Msg(s, t).u = u => client'[s][u].on # "absent"

LEMMA OrderRead ==
    ASSUME IInv, NEW t, NEW s, <<t, s>> \in Edge, Order(t, s), Forgiving,
           chan[<<t, s>>] # <<>>, chan'[<<t, s>>] = Tail(chan[<<t, s>>]),
           Live(t, s)' => Live(t, s), client'[t] = client[t],
           \A u \in User : Home[u] \in Behind[<<s, t>>] /\ ~Excused(u) => Obliges(t, s, u)
    PROVE  Order(t, s)'
  <1> SUFFICES ASSUME NEW u \in User, Obliges(t, s, u), InStep(t, s, u) PROVE InStep(t, s, u)'
    BY OrderOf
  <1>1. PICK q, e, f : q = chan[<<t, s>>] /\ e = client[s][u] /\ f = client'[s][u]
    OBVIOUS
  <1>2. q \in Seq(Message) /\ q # <<>> /\ Msg(s, t) = q[1]
    BY <1>1 DEF IInv, TypeOK, Msg
  <1>3. \A i \in 1..Len(q) : Aware(s, q, u, e, i) => Aware(s, Tail(q), u, f, i - 1)
    BY <1>1, <1>2, AwareRead DEF Obliges
  <1>4. PICK p : p = Tail(q)
    OBVIOUS
  <1>5. /\ Len(q) \in Nat /\ Len(q) \in 1..Len(q) /\ Len(p) = Len(q) - 1
        /\ \A i \in 1..Len(p) : p[i] = q[i + 1] /\ i + 1 \in 1..Len(q) /\ i \in 1..Len(q)
    BY <1>2, <1>4
  <1>6. ASSUME NEW i \in 1..Len(p), p[i].type = "NICK" /\ p[i].u = u PROVE Aware(s, p, u, f, i - 1)
    <2>1. \A j \in 1..Len(q) : q[j].type = "NICK" /\ q[j].u = u => Aware(s, q, u, e, j - 1)
      BY <1>1 DEF InStep
    <2>2. PICK j : j = i + 1
      OBVIOUS
    <2>3. j \in 1..Len(q) /\ q[j].type = "NICK" /\ q[j].u = u /\ j - 1 = i /\ i \in 1..Len(q)
      BY <1>5, <1>6, <2>2
    <2>4. Aware(s, q, u, e, i)
      BY <2>1, <2>3
    <2> QED BY <1>3, <1>4, <2>3, <2>4
  <1>7. Live(t, s)' /\ IsPerson(client[t][u])' => Aware(s, p, u, f, Len(p))
    BY <1>1, <1>3, <1>4, <1>5 DEF InStep
  <1>8. p = chan'[<<t, s>>]
    BY <1>1, <1>4
  <1> QED BY <1>1, <1>6, <1>7, <1>8 DEF InStep

\* t tells s the nicks of persons it has told of, tells of new persons, and cuts off nobody it keeps.
Speaks(t, s, u, w) ==
    /\ \A k \in 1..Len(w) : w[k].type = "NICK" /\ w[k].u = u => IsPerson(client[t][u])
    /\ client'[t][u].on = "person" /\ s \in est[t] =>
         IsPerson(client[t][u]) \/ \E k \in 1..Len(w) : w[k].type = "UID" /\ w[k].u = u
    /\ \/ \A k \in 1..Len(w) : ~Cuts(s, w[k], Home[u])
       \/ client'[t][u].on # "person" /\ \A k \in 1..Len(w) : w[k].type # "NICK"

LEMMA OrderSent ==
    ASSUME IInv, NEW t, NEW s, <<t, s>> \in Edge, Order(t, s), Forgiving, NEW w \in Seq(Message),
           chan'[<<t, s>>] = IF Open(s, t) THEN chan[<<t, s>>] \o w ELSE chan[<<t, s>>],
           s \notin est[t] => w = <<>>,
           Live(t, s)' => Live(t, s), client'[s] = client[s],
           \A u \in User : Home[u] \in Behind[<<s, t>>] /\ ~Excused(u) => Speaks(t, s, u, w)
    PROVE  Order(t, s)'
  <1> SUFFICES ASSUME NEW u \in User, Speaks(t, s, u, w), InStep(t, s, u) PROVE InStep(t, s, u)'
    BY OrderOf
  <1>1. PICK q, e : q = chan[<<t, s>>] /\ e = client[s][u]
    OBVIOUS
  <1>2. PICK r : r = chan'[<<t, s>>]
    OBVIOUS
  <1>3. q \in Seq(Message) /\ Len(q) \in Nat /\ Len(w) \in Nat
    BY <1>1 DEF IInv, TypeOK
  <1>4. CASE ~Live(t, s)
    <2>1. r = q
      <3>1. Open(s, t) => w = <<>>
        BY <1>4 DEF Live
      <3>2. q \o <<>> = q
        BY <1>3
      <3> QED BY <1>1, <1>2, <3>1, <3>2
    <2> QED BY <1>1, <1>2, <1>4, <2>1 DEF InStep
  <1>5. CASE Live(t, s)
    <2>1. r = q \o w /\ s \in est[t]
      BY <1>1, <1>2, <1>5 DEF Live
    <2>2. /\ Len(r) = Len(q) + Len(w)
          /\ \A i \in 1..Len(q) : r[i] = q[i]
          /\ \A i \in 1..Len(r) : i \notin 1..Len(q) => r[i] = w[i - Len(q)] /\ i - Len(q) \in 1..Len(w)
      BY <1>3, <2>1
    <2>3. IsPerson(client[t][u]) => Aware(s, q, u, e, Len(q))
      BY <1>1, <1>5 DEF InStep
    <2>4. ASSUME NEW i \in 1..Len(r), r[i].type = "NICK" /\ r[i].u = u PROVE Aware(s, r, u, e, i - 1)
      <3>1. CASE i \in 1..Len(q)
        <4>2. \A j \in 1..Len(q) : q[j].type = "NICK" /\ q[j].u = u => Aware(s, q, u, e, j - 1)
          BY <1>1 DEF InStep
        <4>1. Aware(s, q, u, e, i - 1) /\ i - 1 \in 0..Len(q)
          BY <1>3, <2>2, <2>4, <3>1, <4>2
        <4> QED BY <1>3, <2>1, <4>1, AwareMore
      <3>2. CASE i \notin 1..Len(q)
        <4>1. PICK k : k = i - Len(q)
          OBVIOUS
        <4>2. /\ k \in 1..Len(w) /\ w[k].type = "NICK" /\ w[k].u = u
              /\ k - 1 \in 0..Len(w) /\ i - 1 = Len(q) + (k - 1) /\ 1..(k - 1) \subseteq 1..Len(w)
          <5>1. r[i] = w[k] /\ k \in 1..Len(w)
            BY <2>2, <3>2, <4>1
          <5>2. i \in Nat
            BY <1>3, <2>2
          <5> QED BY <1>3, <2>4, <4>1, <5>1, <5>2
        <4>3. Aware(s, q, u, e, Len(q)) /\ \A j \in 1..(k - 1) : ~Cuts(s, w[j], Home[u])
          BY <2>3, <4>2 DEF Speaks
        <4> QED BY <1>3, <2>1, <4>2, <4>3, AwareMore
      <3> QED BY <3>1, <3>2
    <2>5. ASSUME client'[t][u].on = "person" PROVE Aware(s, r, u, e, Len(r))
      <3>1. /\ \A k \in 1..Len(w) : ~Cuts(s, w[k], Home[u])
            /\ IsPerson(client[t][u]) \/ \E k \in 1..Len(w) : w[k].type = "UID" /\ w[k].u = u
        BY <2>1, <2>5 DEF Speaks
      <3>2. Len(w) \in 0..Len(w)
        BY <1>3
      <3>3. CASE IsPerson(client[t][u])
        BY <1>3, <2>1, <2>2, <2>3, <3>1, <3>2, <3>3, AwareMore
      <3>4. CASE \E k \in 1..Len(w) : w[k].type = "UID" /\ w[k].u = u
        <4>1. PICK k \in 1..Len(w) : w[k].type = "UID" /\ w[k].u = u
          BY <3>4
        <4>2. k \in 1..Len(w) /\ Len(q) + Len(w) = Len(r) /\ 1..Len(w) \subseteq 1..Len(w)
          BY <2>2, <4>1
        <4> QED BY <1>3, <2>1, <3>1, <3>2, <4>1, <4>2, AwareMore
      <3> QED BY <3>1, <3>3, <3>4
    <2> QED BY <1>1, <1>2, <2>4, <2>5 DEF InStep, IsPerson
  <1> QED BY <1>4, <1>5

\* Nothing more is said.
LEMMA OrderEmpty ==
    ASSUME NEW t, NEW s, chan'[<<t, s>>] = <<>>, ~Live(t, s)'
    PROVE  Order(t, s)'
  <1>1. 1..Len(<<>>) = {}
    OBVIOUS
  <1> QED BY <1>1 DEF Order, InStep

\* All is said anew.
LEMMA OrderBurst ==
    ASSUME NEW t, NEW s, NEW h \in Seq(Message), NEW w, Bursts(t, w), chan'[<<t, s>>] = h \o w,
           \A i \in 1..Len(h) : h[i].type = "SERVER", client' = client
    PROVE  Order(t, s)'
  <1> SUFFICES ASSUME NEW u \in User PROVE InStep(t, s, u)'
    BY DEF Order
  <1>1. w \in Seq(Message) /\ Len(w) \in Nat /\ Len(h) \in Nat /\ Len(w) \in 0..Len(w)
    BY DEF Bursts
  <1>2. PICK r, e : r = h \o w /\ e = client[s][u]
    OBVIOUS
  <1>3. /\ Len(r) = Len(h) + Len(w)
        /\ \A i \in 1..Len(r) : \/ r[i] = h[i] /\ i \in 1..Len(h)
                                \/ r[i] = w[i - Len(h)] /\ i - Len(h) \in 1..Len(w)
    BY <1>1, <1>2
  <1>4. \A i \in 1..Len(r) : r[i].type # "NICK"
    BY <1>3 DEF Bursts
  <1>5. \A k \in 1..Len(w) : ~Cuts(s, w[k], Home[u])
    BY DEF Bursts, Cuts
  <1>6. IsPerson(client[t][u]) => Aware(s, r, u, e, Len(r))
    <2>1. IsPerson(client[t][u]) => \E k \in 1..Len(w) : w[k].type = "UID" /\ w[k].u = u
      BY DEF Bursts, Persons
    <2> QED BY <1>1, <1>2, <1>3, <1>5, <2>1, AwareMore
  <1> QED BY <1>2, <1>4, <1>6 DEF InStep, IsPerson
-----------------------------------------------------------------------------
(* All directions, over a step of s.                                       *)

\* What s says to its peers but t.
Talks(s, t, out) ==
    \A r : <<s, r>> \in Edge /\ r # t =>
        /\ out[r] \in Seq(Message) /\ (r \notin est[s] => out[r] = <<>>)
        /\ \A u \in User : Home[u] \in Behind[<<r, s>>] /\ ~Excused(u) => Speaks(s, r, u, out[r])

\* s keeps whom its peers but t have told it of.
Retains(s, t) ==
    \A r : <<s, r>> \in Edge /\ r # t =>
        \A u \in User : Home[u] \in Behind[<<s, r>>] /\ ~Excused(u) /\ client[s][u].on # "absent"
                        => client'[s][u].on # "absent"

\* Only the link of s to t may have come or gone.
Near(s, t) == \A a, b : a # s \/ b # t => (b \in est'[a] <=> b \in est[a])

LEMMA LinkOrder ==
    ASSUME IInv, OInv, Forgiving, NEW s \in Server, NEW t, NEW c, Sets(s, c), Near(s, t),
           NEW out, Spread(s, t, out), Talks(s, t, out), Retains(s, t),
           <<s, t>> \in Edge => Order(s, t)' /\ Order(t, s)'
    PROVE  OInv'
  <1> SUFFICES ASSUME NEW a, NEW b, <<a, b>> \in Edge PROVE Order(a, b)'
    BY DEF OInv
  <1>1. a \in Server /\ b \in Server /\ a # b /\ <<b, a>> \in Edge /\ Order(a, b)
    BY EdgeFacts DEF OInv
  <1>2. \A r \in Server \ {s} : client'[r] = client[r]
    BY DEF Sets, IInv, TypeOK
  <1>3. CASE <<a, b>> = <<s, t>> \/ <<a, b>> = <<t, s>>
    BY <1>1, <1>3
  <1>4. CASE a = s /\ b # t
    <2>1. PICK w : w = out[b]
      OBVIOUS
    <2>2. /\ w \in Seq(Message) /\ (b \notin est[a] => w = <<>>)
          /\ \A u \in User : Home[u] \in Behind[<<b, a>>] /\ ~Excused(u) => Speaks(a, b, u, w)
      BY <1>4, <2>1 DEF Talks
    <2>3. chan'[<<a, b>>] = IF Open(b, a) THEN chan[<<a, b>>] \o w ELSE chan[<<a, b>>]
      BY <1>4, <2>1 DEF Spread
    <2>4. (b \in est'[a] <=> b \in est[a]) /\ (a \in est'[b] <=> a \in est[b])
      BY <1>1, <1>4 DEF Near
    <2>5. Live(a, b)' => Live(a, b)
      <3>1. CASE Open(b, a)
        BY <2>4, <3>1 DEF Live
      <3>2. CASE ~Open(b, a)
        <4>1. chan'[<<a, b>>] = chan[<<a, b>>]
          BY <2>3, <3>2
        <4> QED BY <2>4, <4>1 DEF Live, Open
      <3> QED BY <3>1, <3>2
    <2>6. client'[b] = client[b]
      BY <1>1, <1>2, <1>4
    <2> QED BY <1>1, <2>2, <2>3, <2>5, <2>6, OrderSent
  <1>5. CASE a # s /\ <<a, b>> # <<t, s>>
    <2>1. chan'[<<a, b>>] = chan[<<a, b>>]
      BY <1>5 DEF Spread
    <2>2. (b \in est'[a] <=> b \in est[a]) /\ (a \in est'[b] <=> a \in est[b])
      BY <1>1, <1>5 DEF Near
    <2>3. Live(a, b)' => Live(a, b)
      BY <2>1, <2>2 DEF Live, Open
    <2>4. ASSUME NEW u \in User, Home[u] \in Behind[<<b, a>>], ~Excused(u)
          PROVE  Keeps(a, b, u)
      <3>1. client'[a] = client[a]
        BY <1>1, <1>2, <1>5
      <3>2. client[b][u].on # "absent" => client'[b][u].on # "absent"
        <4>1. CASE b # s
          BY <1>1, <1>2, <4>1
        <4>2. CASE b = s
          BY <1>1, <1>5, <2>4, <4>2 DEF Retains
        <4> QED BY <4>1, <4>2
      <3> QED BY <3>1, <3>2 DEF Keeps, IsPerson
    <2> QED BY <1>1, <2>1, <2>3, <2>4, OrderKept
  <1> QED BY <1>3, <1>4, <1>5

\* The queues before s speaks: it may have read from t.
Readied(s, t, queues) ==
    \A a, b : <<a, b>> \in Edge /\ <<a, b>> # <<t, s>> => queues[<<a, b>>] = chan[<<a, b>>]

LEMMA ActedOrder ==
    ASSUME IInv, OInv, Forgiving, NEW s \in Server, NEW t, NEW c, Sets(s, c), est' = est,
           NEW queues, Readied(s, t, queues), NEW out, chan' = Transmit(s, queues, out),
           Talks(s, s, out), Retains(s, t), <<t, s>> \in Edge => Order(t, s)'
    PROVE  OInv'
  <1>1. \A a, b : <<a, b>> \in Edge /\ a # s /\ <<a, b>> # <<t, s>> => chan'[<<a, b>>] = chan[<<a, b>>]
    BY Transmitted DEF Readied
  <1>2. ASSUME NEW r, <<s, r>> \in Edge
        PROVE  chan'[<<s, r>>] = IF Open(r, s) THEN chan[<<s, r>>] \o out[r] ELSE chan[<<s, r>>]
    <2>1. queues[<<s, r>>] = chan[<<s, r>>]
      BY <1>2, EdgeFacts DEF Readied
    <2>2. chan'[<<s, r>>] = IF Open(r, s) THEN queues[<<s, r>>] \o out[r] ELSE queues[<<s, r>>]
      BY <1>2, Transmitted
    <2> QED BY <2>1, <2>2
  <1>3. Spread(s, t, out)
    BY <1>1, <1>2 DEF Spread
  <1>4. Talks(s, t, out)
    BY EdgeFacts DEF Talks
  <1>5. ASSUME <<s, t>> \in Edge PROVE Order(s, t)'
    <2>1. PICK w : w = out[t]
      OBVIOUS
    <2>2. <<t, s>> \in Edge /\ t # s /\ t \in Server /\ Order(s, t)
      BY <1>5, EdgeFacts DEF OInv
    <2>3. /\ w \in Seq(Message) /\ (t \notin est[s] => w = <<>>)
          /\ \A u \in User : Home[u] \in Behind[<<t, s>>] /\ ~Excused(u) => Speaks(s, t, u, w)
      BY <1>5, <2>1, <2>2 DEF Talks
    <2>4. chan'[<<s, t>>] = IF Open(t, s) THEN chan[<<s, t>>] \o w ELSE chan[<<s, t>>]
      BY <1>2, <1>5, <2>1
    <2>5. Live(s, t)' => Live(s, t)
      <3>1. CASE Open(t, s)
        BY <3>1 DEF Live
      <3>2. CASE ~Open(t, s)
        <4>1. chan'[<<s, t>>] = chan[<<s, t>>]
          BY <2>4, <3>2
        <4> QED BY <4>1 DEF Live, Open
      <3> QED BY <3>1, <3>2
    <2>6. client'[t] = client[t]
      BY <2>2 DEF Sets, IInv, TypeOK
    <2> QED BY <1>5, <2>2, <2>3, <2>4, <2>5, <2>6, OrderSent
  <1>6. Near(s, t)
    BY DEF Near
  <1>7. <<s, t>> \in Edge => Order(s, t)' /\ Order(t, s)'
    BY <1>5, EdgeFacts
  <1> QED BY <1>3, <1>4, <1>6, <1>7, LinkOrder

LEMMA ReadLive ==
    ASSUME NEW t, NEW s, chan[<<t, s>>] # <<>>, est' = est, Live(t, s)'
    PROVE  Live(t, s)
  BY DEF Live, Open
-----------------------------------------------------------------------------
(* Lines read, of users.                                                   *)

\* X is whom the first line from t brings in.
Welcomes(s, t, X, K) ==
    \/ X = {} /\ Msg(s, t).type \notin {"UID", "SQUIT"}
    \/ X = {Msg(s, t).u} /\ Msg(s, t).type = "UID" /\ Passes(s, t, Msg(s, t).u, K)

\* Who is here from elsewhere and not to be killed stays; who is new is among those brought in.
LEMMA FateKeeps ==
    ASSUME FInv, NEW s \in Server, NEW X, NEW L, Just(s, X, L), NEW c, c = L.client, Sets(s, c),
           NEW u \in User, ~Excused(u)
    PROVE  /\ Home[u] # s /\ (client[s][u].on # "absent" \/ u \in X) => client'[s][u].on # "absent"
           /\ client'[s][u].on = "person" => IsPerson(client[s][u]) \/ u \in X
  <1>1. Fate(s, X, u, c[u]) /\ client'[s] = c
    BY DEF Just, Sets
  <1>2. Home[u] # s /\ client[s][u].on # "absent" => IsPerson(client[s][u])
    BY DEF FInv, Entries
  <1> QED BY <1>1, <1>2 DEF Fate, Saved, IsPerson

LEMMA HandledOrder ==
    ASSUME IInv, FInv, OInv, Forgiving, NEW s, NEW t, <<t, s>> \in Edge, chan[<<t, s>>] # <<>>,
           NEW X, NEW K, Handles(s, t, X, K), Welcomes(s, t, X, K), Steady
    PROVE  OInv'
  <1>0. PICK m : m = Msg(s, t)
    OBVIOUS
  <1>1. /\ s \in Server /\ t \in Server /\ s # t /\ <<s, t>> \in Edge /\ m \in Message
        /\ m.type = "UID" => m.u \in User /\ Home[m.u] \in Behind[<<s, t>>]
    BY <1>0, EdgeFacts, ReadFair, ReadMessages
  <1>2. PICK c, out, queues : c = K.client /\ out = K.out /\ queues = [chan EXCEPT ![<<t, s>>] = Tail(@)]
    OBVIOUS
  <1>3. /\ client' = [client EXCEPT ![s] = c] /\ chan' = Transmit(s, queues, out)
        /\ Just(s, X, K) /\ est' = est
    BY <1>2 DEF Handles, CommitFrom, Steady
  <1>4. Sets(s, c)
    BY <1>1, <1>3 DEF Sets, IInv, TypeOK
  <1>5. \A a, b : <<a, b>> \in Edge =>
          queues[<<a, b>>] = IF <<a, b>> = <<t, s>> THEN Tail(chan[<<a, b>>]) ELSE chan[<<a, b>>]
    BY <1>2 DEF IInv, TypeOK
  <1>6. Readied(s, t, queues)
    BY <1>5 DEF Readied
  <1>7. \A u \in User : ~Excused(u) =>
          /\ Home[u] # s /\ (client[s][u].on # "absent" \/ u \in X) => client'[s][u].on # "absent"
          /\ client'[s][u].on = "person" => IsPerson(client[s][u]) \/ u \in X
    BY <1>1, <1>2, <1>3, <1>4, FateKeeps
  <1>8. ASSUME NEW r, <<s, r>> \in Edge
        PROVE  /\ out[r] \in Seq(Message) /\ (r \notin est[s] => out[r] = <<>>)
               /\ \A u \in User : Home[u] \in Behind[<<r, s>>] /\ ~Excused(u) => Speaks(s, r, u, out[r])
    <2>1. PICK w : w = out[r]
      OBVIOUS
    <2>2. w \in Seq(Said(s, r)) /\ (r \notin est[s] => w = <<>>)
      BY <1>2, <1>3, <1>8, <2>1 DEF Just
    <2>3. Said(s, r) \subseteq Message
      BY DEF Said, Lines
    <2>4. w \in Seq(Message) /\ \A k \in 1..Len(w) : w[k] \in Said(s, r)
      BY <2>2, <2>3
    <2>5. \A k \in 1..Len(w) : w[k].type # "SQUIT" /\ (w[k].type = "NICK" => IsPerson(client[s][w[k].u]))
      BY <2>4 DEF Said
    <2>6. ASSUME NEW u \in User, Home[u] \in Behind[<<r, s>>], ~Excused(u)
          PROVE  Speaks(s, r, u, w)
      <3>1. ASSUME client'[s][u].on = "person", r \in est[s], ~IsPerson(client[s][u])
            PROVE  \E k \in 1..Len(w) : w[k].type = "UID" /\ w[k].u = u
        <4>1. u \in X
          BY <1>7, <2>6, <3>1
        <4>2. X = {m.u} /\ m.type = "UID" /\ Passes(s, t, m.u, K) /\ u = m.u
          BY <1>0, <4>1 DEF Welcomes
        <4>3. r # t
          BY <1>1, <2>6, <4>2, Opposite
        <4>4. IsPerson(c[u])
          BY <1>4, <3>1 DEF Sets, IsPerson
        <4> QED BY <1>2, <1>8, <2>1, <3>1, <4>2, <4>3, <4>4 DEF Passes
      <3>2. \A k \in 1..Len(w) : ~Cuts(r, w[k], Home[u])
        BY <2>5 DEF Cuts
      <3> QED BY <2>5, <3>1, <3>2 DEF Speaks
    <2> QED BY <2>1, <2>2, <2>4, <2>6
  <1>9. Talks(s, s, out)
    BY <1>8 DEF Talks
  <1>10. Retains(s, t)
    BY <1>7, EdgeFacts, Opposite DEF Retains
  <1>11. Order(t, s)'
    <2>1. chan'[<<t, s>>] = Tail(chan[<<t, s>>])
      BY <1>1, <1>3, <1>5, Transmitted
    <2>2. client'[t] = client[t]
      BY <1>1, <1>4 DEF Sets, IInv, TypeOK
    <2>3. ASSUME NEW u \in User, Home[u] \in Behind[<<s, t>>], ~Excused(u)
          PROVE  Obliges(t, s, u)
      <3>1. Home[u] # s
        BY <1>1, <2>3, Opposite
      <3>2. m.type = "UID" => X = {m.u}
        BY <1>0 DEF Welcomes
      <3> QED BY <1>0, <1>7, <2>3, <3>1, <3>2 DEF Obliges
    <2>4. Live(t, s)' => Live(t, s)
      BY <1>3, ReadLive
    <2>5. Order(t, s)
      BY DEF OInv
    <2> QED BY <2>1, <2>2, <2>3, <2>4, <2>5, OrderRead
  <1> QED BY <1>1, <1>3, <1>4, <1>6, <1>9, <1>10, <1>11, ActedOrder

-----------------------------------------------------------------------------
(* What happens at home.                                                   *)

LEMMA OneLine ==
    ASSUME NEW m \in Message, NEW peers, NEW r \in Server
    PROVE  /\ Tell(peers, m)[r] = IF r \in peers THEN <<m>> ELSE <<>>
           /\ Tell(peers, m)[r] \in Seq(Message)
           /\ \A k \in 1..Len(Tell(peers, m)[r]) : Tell(peers, m)[r][k] = m /\ r \in peers
           /\ r \in peers => 1 \in 1..Len(Tell(peers, m)[r])
  <1>1. PICK w : w = Tell(peers, m)[r]
    OBVIOUS
  <1>2. w = IF r \in peers THEN <<m>> ELSE <<>>
    BY <1>1 DEF Tell
  <1>3. w \in Seq(Message)
    BY <1>2
  <1>4. \A k \in 1..Len(w) : w[k] = m /\ r \in peers
    BY <1>2
  <1>5. r \in peers => 1 \in 1..Len(w)
    BY <1>2
  <1> QED BY <1>1, <1>2, <1>3, <1>4, <1>5

\* s tells everybody m.
LEMMA ToldOrder ==
    ASSUME IInv, OInv, Forgiving, NEW s \in Server, NEW c, Sets(s, c), est' = est,
           NEW m \in Message, chan' = Transmit(s, chan, Tell(est[s], m)), m.type # "SQUIT",
           m.type = "NICK" => IsPerson(client[s][m.u]),
           \A u \in User : /\ Home[u] # s /\ client[s][u].on # "absent" => c[u].on # "absent" \/ Excused(u)
                           /\ c[u].on = "person" => IsPerson(client[s][u]) \/ (m.type = "UID" /\ m.u = u)
    PROVE  OInv'
  <1>1. PICK out : out = Tell(est[s], m)
    OBVIOUS
  <1>2. client'[s] = c /\ chan' = Transmit(s, chan, out)
    BY <1>1 DEF Sets
  <1>3. ASSUME NEW r, <<s, r>> \in Edge
        PROVE  /\ out[r] \in Seq(Message) /\ (r \notin est[s] => out[r] = <<>>)
               /\ \A u \in User : Home[u] \in Behind[<<r, s>>] /\ ~Excused(u) => Speaks(s, r, u, out[r])
    <2>1. r \in Server
      BY <1>3, EdgeFacts
    <2>2. PICK w : w = out[r]
      OBVIOUS
    <2>3. /\ w = IF r \in est[s] THEN <<m>> ELSE <<>>
          /\ w \in Seq(Message) /\ \A k \in 1..Len(w) : w[k] = m
          /\ r \in est[s] => 1 \in 1..Len(w)
      BY <1>1, <2>1, <2>2, OneLine
    <2>4. ASSUME NEW u \in User PROVE Speaks(s, r, u, w)
      <3>1. \A k \in 1..Len(w) : w[k].type = "NICK" /\ w[k].u = u => IsPerson(client[s][u])
        BY <2>3
      <3>2. client'[s][u].on = "person" /\ r \in est[s] =>
              IsPerson(client[s][u]) \/ \E k \in 1..Len(w) : w[k].type = "UID" /\ w[k].u = u
        BY <1>2, <2>3
      <3>3. \A k \in 1..Len(w) : ~Cuts(r, w[k], Home[u])
        BY <2>3 DEF Cuts
      <3> QED BY <3>1, <3>2, <3>3 DEF Speaks
    <2> QED BY <2>2, <2>3, <2>4
  <1>4. Talks(s, s, out)
    BY <1>3 DEF Talks
  <1>5. Retains(s, s)
    <2> SUFFICES ASSUME NEW r, <<s, r>> \in Edge, NEW u \in User, Home[u] \in Behind[<<s, r>>],
                        ~Excused(u), client[s][u].on # "absent"
                 PROVE  client'[s][u].on # "absent"
      BY DEF Retains
    <2>1. Home[u] # s
      BY Opposite
    <2> QED BY <1>2, <2>1
  <1>6. Readied(s, s, chan) /\ <<s, s>> \notin Edge
    BY EdgeFacts DEF Readied
  <1> QED BY <1>2, <1>4, <1>5, <1>6, ActedOrder

LEMMA SilentOrder ==
    ASSUME IInv, OInv, Forgiving, NEW s \in Server, NEW c, Sets(s, c), est' = est, chan' = chan,
           \A u \in User : /\ Home[u] # s /\ client[s][u].on # "absent" => c[u].on # "absent"
                           /\ c[u].on = "person" => IsPerson(client[s][u])
    PROVE  OInv'
  <1> SUFFICES ASSUME NEW a, NEW b, <<a, b>> \in Edge PROVE Order(a, b)'
    BY DEF OInv
  <1>1. a \in Server /\ b \in Server /\ Order(a, b)
    BY EdgeFacts DEF OInv
  <1>2. \A r \in Server : client'[r] = IF r = s THEN c ELSE client[r]
    BY DEF Sets, IInv, TypeOK
  <1>3. Live(a, b)' => Live(a, b)
    BY DEF Live, Open
  <1>4. ASSUME NEW u \in User, Home[u] \in Behind[<<b, a>>] PROVE Keeps(a, b, u)
    <2>1. Home[u] # b
      BY <1>4, EdgeFacts, Opposite
    <2> QED BY <1>1, <1>2, <2>1 DEF Keeps, IsPerson
  <1> QED BY <1>1, <1>3, <1>4, OrderKept
-----------------------------------------------------------------------------
(* A server's own events do not spoil the order.                           *)

LEMMA TickOrder ==
    ASSUME IInv, OInv, Forgiving, NEW s \in Server, client' = client, est' = est, chan' = chan
    PROVE  OInv'
  <1>1. PICK c : c = client[s]
    OBVIOUS
  <1>2. Sets(s, c)
    BY <1>1 DEF Sets, IInv, TypeOK
  <1> QED BY <1>1, <1>2, SilentOrder DEF IsPerson

LEMMA MrNickOrder ==
    ASSUME IInv, OInv, Forgiving, NEW u \in User, NEW n \in Nick, MrNick(u, n)
    PROVE  OInv'
  <1> DEFINE s == Home[u]
             e == [on |-> "unknown", nick |-> n, ts |-> CurrentTime(s)]
             c == [client[s] EXCEPT ![u] = e]
  <1>1. s \in Server /\ client' = [client EXCEPT ![s] = c] /\ est' = est /\ chan' = chan
    BY UserAssumption DEF MrNick
  <1>2. c[u] = e /\ \A v \in User \ {u} : c[v] = client[s][v]
    BY <1>1 DEF IInv, TypeOK, Table
  <1> HIDE DEF c
  <1>3. Sets(s, c)
    BY <1>1 DEF Sets, IInv, TypeOK
  <1>4. \A v \in User : /\ Home[v] # s /\ client[s][v].on # "absent" => c[v].on # "absent"
                        /\ c[v].on = "person" => IsPerson(client[s][v])
    BY <1>2 DEF IsPerson
  <1> HIDE DEF s
  <1> QED BY <1>1, <1>3, <1>4, SilentOrder

LEMMA ExitUnknownOrder ==
    ASSUME IInv, OInv, Forgiving, NEW u \in User, ExitUnknown(u)
    PROVE  OInv'
  <1> DEFINE s == Home[u]
             c == [client[s] EXCEPT ![u] = Absent]
  <1>1. s \in Server /\ client' = [client EXCEPT ![s] = c] /\ est' = est /\ chan' = chan
    BY UserAssumption DEF ExitUnknown, Steady
  <1>2. c[u] = Absent /\ \A v \in User \ {u} : c[v] = client[s][v]
    BY <1>1 DEF IInv, TypeOK, Table
  <1> HIDE DEF c
  <1>3. Sets(s, c)
    BY <1>1 DEF Sets, IInv, TypeOK
  <1>4. \A v \in User : /\ Home[v] # s /\ client[s][v].on # "absent" => c[v].on # "absent"
                        /\ c[v].on = "person" => IsPerson(client[s][v])
    BY <1>2 DEF IsPerson, Absent
  <1> HIDE DEF s
  <1> QED BY <1>1, <1>3, <1>4, SilentOrder

LEMMA RegisterOrder ==
    ASSUME IInv, OInv, Forgiving, NEW u \in User, Register(u)
    PROVE  OInv'
  <1>0. PICK s, n, ts : s = Home[u] /\ n = client[s][u].nick /\ ts = client[s][u].ts
    OBVIOUS
  <1>1. s \in Server /\ client[s][u].on = "unknown" /\ est' = est
    BY <1>0, UserAssumption DEF Register, Steady
  <1>2. ts \in Nat /\ n \in NameFor(u)
    BY <1>0, <1>1 DEF IInv, TypeOK, Table, Entry, Absent
  <1>3. PICK m : m = [type |-> "UID", u |-> u, nick |-> n, ts |-> ts]
    OBVIOUS
  <1>4. m \in Message /\ m.type = "UID" /\ m.u = u
    BY <1>2, <1>3, BuiltMessages
  <1>5. PICK c : /\ client' = [client EXCEPT ![s] = c] /\ client'[s] = c
                 /\ \A v \in User \ {u} : c[v] = client[s][v]
                 /\ c[u] = [on |-> "person", nick |-> n, ts |-> ts]
                 /\ chan' = Transmit(s, chan, Tell(est[s], m))
    BY <1>0, <1>3, RegisterIs
  <1>6. Sets(s, c)
    BY <1>5 DEF Sets
  <1>7. \A v \in User : /\ Home[v] # s /\ client[s][v].on # "absent" => c[v].on # "absent" \/ Excused(v)
                        /\ c[v].on = "person" => IsPerson(client[s][v]) \/ (m.type = "UID" /\ m.u = v)
    BY <1>0, <1>4, <1>5 DEF IsPerson
  <1> QED BY <1>1, <1>4, <1>5, <1>6, <1>7, ToldOrder

LEMMA MNickOrder ==
    ASSUME IInv, FInv, OInv, Forgiving, NEW u \in User, NEW n \in Nick, MNick(u, n)
    PROVE  OInv'
  <1>0. PICK s : s = Home[u]
    OBVIOUS
  <1>1. s \in Server /\ IsPerson(client[s][u]) /\ est' = est /\ CurrentTime(s) \in Nat
    BY <1>0, UserAssumption, ClockTyped DEF MNick, IInv
  <1>2. PICK c, ts : Renames(s, c, u, n, ts)
    BY <1>0, MNickIs
  <1>3. PICK m : m = [type |-> "NICK", u |-> u, nick |-> n, ts |-> ts]
    OBVIOUS
  <1>4. /\ Sets(s, c) /\ ts = CurrentTime(s)
        /\ \A v \in User \ {u} : \/ c[v] = client[s][v]
                                 \/ client[s][v].on = "unknown" /\ c[v] = Absent
        /\ c[u] = [on |-> "person", nick |-> n, ts |-> ts]
        /\ chan' = Transmit(s, chan, Tell(est[s], m))
    BY <1>2, <1>3 DEF Renames
  <1>5. m \in Message /\ m.type = "NICK" /\ m.u = u
    BY <1>1, <1>3, <1>4, BuiltMessages DEF NameFor
  <1>6. ASSUME NEW v \in User
        PROVE  /\ Home[v] # s /\ client[s][v].on # "absent" => c[v].on # "absent" \/ Excused(v)
               /\ c[v].on = "person" => IsPerson(client[s][v]) \/ (m.type = "UID" /\ m.u = v)
    <2>1. client[s][v].on = "unknown" => Home[v] = s
      BY <1>1 DEF FInv, Entries, IsPerson
    <2> QED BY <1>0, <1>1, <1>4, <2>1 DEF IsPerson, Absent
  <1> QED BY <1>1, <1>4, <1>5, <1>6, ToldOrder

LEMMA LeaveOrder ==
    ASSUME IInv, OInv, Forgiving, NEW s \in Server, NEW m \in Message, NEW v \in User,
           Commit(s, Drop(SendTo(Here(s), est[s], m), v)), est' = est,
           m.type \in {"QUIT", "KILL"}, Home[v] = s \/ Excused(v)
    PROVE  OInv'
  <1>1. PICK c : /\ Sets(s, c) /\ c[v] = Absent /\ \A u \in User \ {v} : c[u] = client[s][u]
                 /\ chan' = Transmit(s, chan, Tell(est[s], m))
    BY LeaveIs
  <1>2. \A u \in User : /\ Home[u] # s /\ client[s][u].on # "absent" => c[u].on # "absent" \/ Excused(u)
                        /\ c[u].on = "person" => IsPerson(client[s][u]) \/ (m.type = "UID" /\ m.u = u)
    BY <1>1 DEF IsPerson, Absent
  <1>3. m.type # "SQUIT" /\ m.type # "NICK"
    OBVIOUS
  <1> QED BY <1>1, <1>2, <1>3, ToldOrder

LEMMA QuitOrder ==
    ASSUME IInv, OInv, Forgiving, NEW u \in User, Quit(u)
    PROVE  OInv'
  <1>0. PICK s, m : s = Home[u] /\ m = [type |-> "QUIT", u |-> u]
    OBVIOUS
  <1>1. /\ s \in Server /\ Commit(s, Drop(SendTo(Here(s), est[s], m), u)) /\ est' = est
    BY <1>0, UserAssumption DEF Quit, Steady
  <1>2. m \in Message /\ m.type = "QUIT"
    BY <1>0, BuiltMessages
  <1> QED BY <1>0, <1>1, <1>2, LeaveOrder

LEMMA MoKillOrder ==
    ASSUME IInv, OInv, Forgiving, NEW o \in User, NEW v \in User, MoKill(o, v)
    PROVE  OInv'
  <1>0. PICK s, m : s = Home[o] /\ m = IF Home[v] = s THEN [type |-> "QUIT", u |-> v]
                                                     ELSE [type |-> "KILL", u |-> v, src |-> o]
    OBVIOUS
  <1>1. /\ s \in Server /\ Commit(s, Drop(SendTo(Here(s), est[s], m), v)) /\ est' = est /\ Oper # {}
    BY <1>0, UserAssumption DEF MoKill
  <1>2. m \in Message /\ m.type \in {"QUIT", "KILL"}
    BY <1>0, BuiltMessages
  <1>3. Excused(v)
    BY <1>1 DEF Excused
  <1> QED BY <1>1, <1>2, <1>3, LeaveOrder

-----------------------------------------------------------------------------
(* Servers told of.                                                        *)

\* s has lost at most those who are where x cut it off, and tells the others of that.
LEMMA CutSpoken ==
    ASSUME IInv, NEW M, NEW s \in Server, Reach(s, M), NEW x, NEW c, Sets(s, c), Forgets(s, Lost(s, x), c),
           NEW r, <<s, r>> \in Edge, x # s,
           NEW w, \A k \in 1..Len(w) : w[k].type = "SQUIT" /\ w[k].sid = x,
           NEW u \in User, Home[u] \in Behind[<<r, s>>]
    PROVE  Speaks(s, r, u, w)
  <1>1. c[u].on = "person" => IsPerson(client[s][u])
    BY DEF Forgets, Absent, IsPerson
  <1>2. client'[s] = c
    BY DEF Sets
  <1>3. CASE x \notin Way(r, Home[u])
    <2>1. \A k \in 1..Len(w) : ~Cuts(r, w[k], Home[u])
      BY <1>3 DEF Cuts
    <2> QED BY <1>1, <1>2, <2>1 DEF Speaks
  <1>4. CASE x \in Way(r, Home[u])
    <2>1. x \in Way(s, Home[u])
      BY <1>4, WayBeyond, EdgeFacts
    <2>2. Home[u] # s
      BY <2>1, NoWay
    <2>3. client[s][u].on # "absent" => Home[u] \in known[s]
      BY <2>2 DEF Reach
    <2>4. c[u].on # "person"
      BY <2>1, <2>3 DEF Forgets, Lost, Absent
    <2> QED BY <1>1, <1>2, <2>4 DEF Speaks
  <1> QED BY <1>3, <1>4

LEMMA MsSquitOrder ==
    ASSUME IInv, FInv, OInv, Forgiving, NEW M, Met(M), NEW s, NEW t, MsSquit(s, t)
    PROVE  OInv'
  <1>1. /\ <<t, s>> \in Edge /\ t \in est[s] /\ chan[<<t, s>>] # <<>> /\ Msg(s, t).type = "SQUIT"
        /\ est' = est
    BY DEF MsSquit, First, Msg
  <1>2. /\ s \in Server /\ t \in Server /\ s # t /\ <<s, t>> \in Edge
        /\ Reach(s, M) /\ Msg(s, t) \in Message /\ Fits(s, t, Msg(s, t), Sees(s, t, M))
    BY <1>1, Reading
  <1>3. PICK m, x : m = Msg(s, t) /\ x = m.sid
    OBVIOUS
  <1>4. x \in Behind[<<s, t>>] /\ x # s /\ m.type = "SQUIT" /\ m \in Message
    BY <1>1, <1>2, <1>3, Opposite DEF Fits
  <1>5. PICK c : Hears(s, t, c, est[s] \ {t}, m) /\ Forgets(s, Lost(s, x), c)
    BY <1>2, <1>3, MsSquitIs
  <1>6. PICK out, queues, peers : /\ out = Tell(peers, m) /\ queues = [chan EXCEPT ![<<t, s>>] = Tail(@)]
                                  /\ peers = est[s] \ {t}
    OBVIOUS
  <1>7. Sets(s, c) /\ chan' = Transmit(s, queues, out)
    BY <1>5, <1>6 DEF Hears
  <1>8. \A a, b : <<a, b>> \in Edge =>
          queues[<<a, b>>] = IF <<a, b>> = <<t, s>> THEN Tail(chan[<<a, b>>]) ELSE chan[<<a, b>>]
    BY <1>6 DEF IInv, TypeOK
  <1>9. Readied(s, t, queues)
    BY <1>8 DEF Readied
  <1>10. ASSUME NEW r, <<s, r>> \in Edge
         PROVE  /\ out[r] \in Seq(Message) /\ (r \notin est[s] => out[r] = <<>>)
                /\ \A u \in User : Home[u] \in Behind[<<r, s>>] /\ ~Excused(u) => Speaks(s, r, u, out[r])
    <2>1. PICK w : w = out[r]
      OBVIOUS
    <2>5. r \in Server
      BY <1>10, EdgeFacts
    <2>2. /\ w = IF r \in peers THEN <<m>> ELSE <<>>
          /\ w \in Seq(Message) /\ \A k \in 1..Len(w) : w[k] = m
      BY <1>4, <1>6, <2>1, <2>5, OneLine
    <2>3. \A k \in 1..Len(w) : w[k].type = "SQUIT" /\ w[k].sid = x
      BY <1>3, <1>4, <2>2
    <2>4. \A u \in User : Home[u] \in Behind[<<r, s>>] => Speaks(s, r, u, w)
      BY <1>2, <1>4, <1>5, <1>7, <1>10, <2>3, CutSpoken
    <2> QED BY <1>6, <2>1, <2>2, <2>4
  <1>11. Talks(s, s, out)
    BY <1>10 DEF Talks
  <1>12. Retains(s, t)
    <2> SUFFICES ASSUME NEW r, <<s, r>> \in Edge, r # t, NEW u \in User, Home[u] \in Behind[<<s, r>>],
                        client[s][u].on # "absent"
                 PROVE  client'[s][u].on # "absent"
      BY DEF Retains
    <2>1. x \notin Way(s, Home[u])
      BY <1>2, <1>4, WayIn, Beyond
    <2>2. c[u] = client[s][u]
      BY <1>5, <2>1 DEF Forgets, Lost
    <2> QED BY <1>7, <2>2 DEF Sets
  <1>13. Order(t, s)'
    <2>1. chan'[<<t, s>>] = Tail(chan[<<t, s>>])
      BY <1>1, <1>2, <1>7, <1>8, Transmitted
    <2>2. client'[t] = client[t]
      BY <1>2, <1>7 DEF Sets, IInv, TypeOK
    <2>3. ASSUME NEW u \in User PROVE Obliges(t, s, u)
      <3>1. ~Cuts(s, Msg(s, t), Home[u]) => c[u] = client[s][u]
        BY <1>3, <1>4, <1>5 DEF Forgets, Lost, Cuts
      <3> QED BY <1>1, <1>7, <3>1 DEF Obliges, Sets
    <2>4. Live(t, s)' => Live(t, s)
      BY <1>1, ReadLive
    <2>5. Order(t, s)
      BY <1>1 DEF OInv
    <2> QED BY <1>1, <2>1, <2>2, <2>3, <2>4, <2>5, OrderRead
  <1> QED BY <1>1, <1>2, <1>7, <1>9, <1>11, <1>12, <1>13, ActedOrder

LEMMA MsSidOrder ==
    ASSUME IInv, FInv, OInv, Forgiving, NEW s, NEW t, MsSid(s, t)
    PROVE  OInv'
  <1>1. /\ <<t, s>> \in Edge /\ chan[<<t, s>>] # <<>> /\ Msg(s, t).type = "SID" /\ est' = est
    BY DEF MsSid, First, Msg
  <1>2. s \in Server /\ t \in Server /\ s # t /\ <<s, t>> \in Edge /\ Msg(s, t) \in Message
    BY <1>1, EdgeFacts, ReadFair
  <1>3. PICK m, c : m = Msg(s, t) /\ c = client[s]
    OBVIOUS
  <1>5. Hears(s, t, c, est[s] \ {t}, m)
    BY <1>2, <1>3, MsSidIs
  <1>6. PICK out, queues, peers : /\ out = Tell(peers, m) /\ queues = [chan EXCEPT ![<<t, s>>] = Tail(@)]
                                  /\ peers = est[s] \ {t}
    OBVIOUS
  <1>7. Sets(s, c) /\ chan' = Transmit(s, queues, out) /\ client'[s] = client[s]
    BY <1>3, <1>5, <1>6 DEF Hears, Sets
  <1>8. \A a, b : <<a, b>> \in Edge =>
          queues[<<a, b>>] = IF <<a, b>> = <<t, s>> THEN Tail(chan[<<a, b>>]) ELSE chan[<<a, b>>]
    BY <1>6 DEF IInv, TypeOK
  <1>9. Readied(s, t, queues)
    BY <1>8 DEF Readied
  <1>10. ASSUME NEW r, <<s, r>> \in Edge
         PROVE  /\ out[r] \in Seq(Message) /\ (r \notin est[s] => out[r] = <<>>)
                /\ \A u \in User : Home[u] \in Behind[<<r, s>>] /\ ~Excused(u) => Speaks(s, r, u, out[r])
    <2>1. PICK w : w = out[r]
      OBVIOUS
    <2>5. r \in Server
      BY <1>10, EdgeFacts
    <2>2. /\ w = IF r \in peers THEN <<m>> ELSE <<>>
          /\ w \in Seq(Message) /\ \A k \in 1..Len(w) : w[k] = m
      BY <1>2, <1>3, <1>6, <2>1, <2>5, OneLine
    <2>3. \A k \in 1..Len(w) : w[k].type = "SID"
      BY <1>1, <1>3, <2>2
    <2>4. \A u \in User : Speaks(s, r, u, w)
      BY <1>7, <2>3 DEF Speaks, Cuts, IsPerson
    <2> QED BY <1>6, <2>1, <2>2, <2>4
  <1>11. Talks(s, s, out)
    BY <1>10 DEF Talks
  <1>12. Retains(s, t)
    BY <1>7 DEF Retains
  <1>13. Order(t, s)'
    <2>1. chan'[<<t, s>>] = Tail(chan[<<t, s>>])
      BY <1>1, <1>2, <1>7, <1>8, Transmitted
    <2>2. client'[t] = client[t]
      BY <1>2, <1>7 DEF Sets, IInv, TypeOK
    <2>3. \A u \in User : Obliges(t, s, u)
      BY <1>1, <1>7 DEF Obliges
    <2>4. Live(t, s)' => Live(t, s)
      BY <1>1, ReadLive
    <2>5. Order(t, s)
      BY <1>1 DEF OInv
    <2> QED BY <1>1, <2>1, <2>2, <2>3, <2>4, <2>5, OrderRead
  <1> QED BY <1>1, <1>2, <1>7, <1>9, <1>11, <1>12, <1>13, ActedOrder
-----------------------------------------------------------------------------
(* The links.                                                              *)

LEMMA JoinOrder ==
    ASSUME IInv, OInv, Forgiving, NEW s, NEW t, <<s, t>> \in Edge, NEW q, NEW p, Joins(s, t, q, p),
           client' = client, Near(s, t), Order(s, t)', Order(t, s)'
    PROVE  OInv'
  <1>1. s \in Server /\ t \in Server
    BY EdgeFacts
  <1>2. PICK c, m, out : c = client[s] /\ m = [type |-> "SID", sid |-> t] /\ out = Relayed(s, t)
    OBVIOUS
  <1>3. Sets(s, c) /\ client'[s] = client[s]
    BY <1>1, <1>2 DEF Sets, IInv, TypeOK
  <1>4. m \in Message /\ m.type = "SID" /\ out = Tell(est[s], m)
    BY <1>1, <1>2, SidBuilt DEF Relayed
  <1>5. ASSUME NEW r, <<s, r>> \in Edge
        PROVE  /\ out[r] \in Seq(Message) /\ (r \notin est[s] => out[r] = <<>>)
               /\ \A u \in User : Speaks(s, r, u, out[r])
    <2>1. r \in Server
      BY <1>5, EdgeFacts
    <2>2. PICK w : w = out[r]
      OBVIOUS
    <2>3. /\ w = IF r \in est[s] THEN <<m>> ELSE <<>>
          /\ w \in Seq(Message) /\ \A k \in 1..Len(w) : w[k] = m
      BY <1>4, <2>1, <2>2, OneLine
    <2>4. \A k \in 1..Len(w) : w[k].type = "SID"
      BY <1>4, <2>3
    <2>5. \A u \in User : Speaks(s, r, u, w)
      BY <1>3, <2>4 DEF Speaks, Cuts, IsPerson
    <2> QED BY <2>2, <2>3, <2>5
  <1>6. Talks(s, t, out) /\ Retains(s, t)
    BY <1>3, <1>5 DEF Talks, Retains
  <1>7. Spread(s, t, out)
    BY <1>2 DEF Joins
  <1> QED BY <1>1, <1>3, <1>6, <1>7, LinkOrder

LEMMA AcceptLinkOrder ==
    ASSUME IInv, OInv, Forgiving, NEW s \in Server, NEW t \in Server, AcceptLink(s, t)
    PROVE  OInv'
  <1>1. /\ <<s, t>> \in Edge /\ s # t /\ client' = client
        /\ est' = [est EXCEPT ![s] = @ \cup {t}] /\ s \notin est[t]
    BY EdgeFacts DEF AcceptLink, ServerEstab, Open
  <1>2. PICK sids \in SetToSeqs(known[s]), uids \in SetToSeqs(Persons(s)) :
          Joins(s, t, <<Greeting>> \o Burst(s, sids, uids), <<>>)
    BY AcceptLinkIs
  <1>3. PICK w, q, p, h : w = Burst(s, sids, uids) /\ h = <<Greeting>> /\ q = h \o w /\ p = <<>>
    OBVIOUS
  <1>4. Bursts(s, w) /\ Joins(s, t, q, p)
    BY <1>2, <1>3, BurstBursts
  <1>5. h \in Seq(Message) /\ \A i \in 1..Len(h) : h[i].type = "SERVER"
    BY <1>3, GreetingBuilt
  <1>6. Order(s, t)'
    <2>1. chan'[<<s, t>>] = h \o w
      BY <1>3, <1>4 DEF Joins
    <2> QED BY <1>1, <1>4, <1>5, <2>1, OrderBurst
  <1>7. Order(t, s)'
    <2>1. chan'[<<t, s>>] = <<>>
      BY <1>3, <1>4 DEF Joins
    <2>2. s \notin est'[t]
      BY <1>1 DEF IInv, TypeOK
    <2>3. ~Live(t, s)'
      BY <2>2 DEF Live
    <2> QED BY <2>1, <2>3, OrderEmpty
  <1>8. Near(s, t)
    BY <1>1 DEF Near, IInv, TypeOK
  <1> QED BY <1>1, <1>4, <1>6, <1>7, <1>8, JoinOrder

LEMMA MrServerOrder ==
    ASSUME IInv, OInv, Forgiving, NEW M, Met(M), NEW s \in Server, NEW t \in Server, MrServer(s, t)
    PROVE  OInv'
  <1>1. /\ <<s, t>> \in Edge /\ <<t, s>> \in Edge /\ s # t /\ client' = client
        /\ est' = [est EXCEPT ![s] = @ \cup {t}] /\ chan[<<t, s>>] # <<>> /\ Msg(s, t).type = "SERVER"
    BY EdgeFacts DEF MrServer, ServerEstab
  <1>2. PICK sids \in SetToSeqs(known[s]), uids \in SetToSeqs(Persons(s)) :
          Joins(s, t, IF s \in est[t] THEN Burst(s, sids, uids) ELSE <<>>, Tail(chan[<<t, s>>]))
    BY MrServerIs
  <1>3. PICK w, q, p : w = Burst(s, sids, uids) /\ q = (IF s \in est[t] THEN w ELSE <<>>)
                       /\ p = Tail(chan[<<t, s>>])
    OBVIOUS
  <1>4. Bursts(s, w) /\ Joins(s, t, q, p)
    BY <1>2, <1>3, BurstBursts
  <1>5. est'[t] = est[t]
    BY <1>1 DEF IInv, TypeOK
  <1>6. Order(s, t)'
    <2>1. CASE s \in est[t]
      <3>1. PICK h : h = <<>>
        OBVIOUS
      <3>2. w \in Seq(Message) /\ chan'[<<s, t>>] = w
        BY <1>3, <1>4, <2>1 DEF Joins, Bursts
      <3>3. chan'[<<s, t>>] = h \o w
        BY <3>1, <3>2
      <3>4. h \in Seq(Message) /\ \A i \in 1..Len(h) : h[i].type = "SERVER"
        BY <3>1
      <3> QED BY <1>1, <1>4, <3>3, <3>4, OrderBurst
    <2>2. CASE s \notin est[t]
      <3>1. chan'[<<s, t>>] = <<>>
        BY <1>3, <1>4, <2>2 DEF Joins
      <3>2. ~Live(s, t)'
        BY <1>5, <2>2, <3>1 DEF Live, Open
      <3> QED BY <3>1, <3>2, OrderEmpty
    <2> QED BY <2>1, <2>2
  <1>7. Order(t, s)'
    <2>1. chan'[<<t, s>>] = Tail(chan[<<t, s>>])
      BY <1>3, <1>4 DEF Joins
    <2>2. Live(t, s)' => Live(t, s)
      BY <1>1, <1>5 DEF Live, Open
    <2>3. \A u \in User : Obliges(t, s, u)
      BY <1>1 DEF Obliges
    <2>4. Order(t, s) /\ client'[t] = client[t]
      BY <1>1 DEF OInv
    <2> QED BY <1>1, <2>1, <2>2, <2>3, <2>4, OrderRead
  <1>8. Near(s, t)
    BY <1>1 DEF Near, IInv, TypeOK
  <1> QED BY <1>1, <1>4, <1>6, <1>7, <1>8, JoinOrder

LEMMA CloseLinkOrder ==
    ASSUME IInv, OInv, Forgiving, NEW M, Met(M), NEW s \in Server, NEW t \in Server, CloseLink(s, t)
    PROVE  OInv'
  <1>1. /\ <<s, t>> \in Edge /\ <<t, s>> \in Edge /\ s # t /\ t \in Behind[<<s, t>>]
        /\ est' = [est EXCEPT ![s] = @ \ {t}]
    BY EdgeFacts DEF CloseLink
  <1>2. PICK m, tell, lost : /\ m = [type |-> "SQUIT", sid |-> t] /\ lost = Lost(s, t)
                             /\ tell = IF t \in est[s] THEN est[s] \ {t} ELSE {}
    OBVIOUS
  <1>3. PICK c, out : c = Forget(Here(s), lost).client /\ Parts(s, t, c, tell, m) /\ out = Tell(tell, m)
    BY <1>2, CloseLinkIs
  <1>4. Forgets(s, Lost(s, t), c)
    <2>1. s \notin known[s]
      BY NotSelf DEF Met
    <2>2. s \notin lost
      BY <1>2, <2>1 DEF Lost
    <2> QED BY <1>2, <1>3, <2>2 DEF Forgets, Forget, Here
  <1>5. Sets(s, c) /\ Spread(s, t, out)
    BY <1>3 DEF Parts, Sets
  <1>6. m \in Message /\ m.type = "SQUIT" /\ m.sid = t
    BY <1>2, SidBuilt
  <1>7. Reach(s, M)
    BY DEF Met
  <1>8. tell \subseteq est[s]
    BY <1>2
  <1>9. ASSUME NEW r, <<s, r>> \in Edge
        PROVE  /\ out[r] \in Seq(Message) /\ (r \notin est[s] => out[r] = <<>>)
               /\ \A u \in User : Home[u] \in Behind[<<r, s>>] /\ ~Excused(u) => Speaks(s, r, u, out[r])
    <2>1. r \in Server
      BY <1>9, EdgeFacts
    <2>2. PICK w : w = out[r]
      OBVIOUS
    <2>3. /\ w = IF r \in tell THEN <<m>> ELSE <<>>
          /\ w \in Seq(Message) /\ \A k \in 1..Len(w) : w[k] = m
      BY <1>3, <1>6, <2>1, <2>2, OneLine
    <2>4. \A k \in 1..Len(w) : w[k].type = "SQUIT" /\ w[k].sid = t
      BY <1>6, <2>3
    <2>5. \A u \in User : Home[u] \in Behind[<<r, s>>] => Speaks(s, r, u, w)
      BY <1>1, <1>4, <1>5, <1>7, <1>9, <2>4, CutSpoken
    <2> QED BY <1>8, <2>2, <2>3, <2>5
  <1>10. Talks(s, t, out)
    BY <1>9 DEF Talks
  <1>11. Retains(s, t)
    <2> SUFFICES ASSUME NEW r, <<s, r>> \in Edge, r # t, NEW u \in User, Home[u] \in Behind[<<s, r>>],
                        client[s][u].on # "absent"
                 PROVE  client'[s][u].on # "absent"
      BY DEF Retains
    <2>1. t \notin Way(s, Home[u])
      BY <1>1, WayIn, Beyond
    <2>2. c[u] = client[s][u]
      BY <1>4, <2>1 DEF Forgets, Lost
    <2> QED BY <1>5, <2>2 DEF Sets
  <1>12. t \notin est'[s] /\ est'[t] = est[t]
    BY <1>1 DEF IInv, TypeOK
  <1>13. Order(s, t)'
    <2>1. chan'[<<s, t>>] = chan[<<s, t>>]
      BY <1>3 DEF Parts
    <2>2. ~Live(s, t)'
      BY <1>12 DEF Live
    <2>3. client'[t] = client[t]
      BY <1>1, <1>5 DEF Sets, IInv, TypeOK
    <2>4. \A u \in User : client'[s][u].on = "person" => IsPerson(client[s][u])
      BY <1>4, <1>5 DEF Forgets, Sets, IsPerson, Absent
    <2>5. \A u \in User : Keeps(s, t, u)
      BY <2>3, <2>4 DEF Keeps
    <2>6. Order(s, t)
      BY <1>1 DEF OInv
    <2> QED BY <1>1, <2>1, <2>2, <2>5, <2>6, OrderKept
  <1>14. Order(t, s)'
    <2>1. chan'[<<t, s>>] = <<>>
      BY <1>3 DEF Parts
    <2>2. ~Live(t, s)'
      BY <1>12, <2>1 DEF Live, Open
    <2> QED BY <2>1, <2>2, OrderEmpty
  <1>15. Near(s, t)
    BY <1>1 DEF Near, IInv, TypeOK
  <1> QED BY <1>5, <1>10, <1>11, <1>13, <1>14, <1>15, LinkOrder
-----------------------------------------------------------------------------
(* The invariants, and what they give.                                     *)

LEMMA ClaimsGrow ==
    ASSUME [Next]_vars
    PROVE  claims \subseteq claims'
  <1>1. Tick \/ (\E s \in Server : ExpireNd(s)) \/ UNCHANGED vars => claims' = claims
    BY DEF Tick, ExpireNd, Steady, vars
  <1>2. \A u, n : MrNick(u, n) \/ MNick(u, n) => claims \subseteq claims'
    BY DEF MrNick, MNick
  <1>3. \A u, v : Register(u) \/ ExitUnknown(u) \/ Quit(u) \/ MoKill(u, v) => claims' = claims
    BY DEF Register, ExitUnknown, Quit, MoKill, Steady
  <1>4. ClientStep => claims \subseteq claims'
    BY <1>2, <1>3 DEF ClientStep
  <1>5. \A s, t : MrServer(s, t) \/ MsSid(s, t) \/ MsSquit(s, t) \/ AcceptLink(s, t) \/ CloseLink(s, t)
                 => claims' = claims
    <2>1. \A s, t : MrServer(s, t) => claims' = claims
      BY DEF MrServer
    <2>2. \A s, t : MsSid(s, t) => claims' = claims
      BY DEF MsSid
    <2>3. \A s, t : MsSquit(s, t) => claims' = claims
      BY DEF MsSquit
    <2>4. \A s, t : AcceptLink(s, t) => claims' = claims
      BY DEF AcceptLink
    <2>5. \A s, t : CloseLink(s, t) => claims' = claims
      BY DEF CloseLink
    <2> QED BY <2>1, <2>2, <2>3, <2>4, <2>5
  <1>6. \A s, t : MsUid(s, t) \/ McNick(s, t) \/ MsSave(s, t) \/ MsQuit(s, t) \/ MsKill(s, t)
                 => claims' = claims
    BY DEF MsUid, McNick, MsSave, MsQuit, MsKill, Steady
  <1> QED BY <1>1, <1>4, <1>5, <1>6 DEF Next, Receive

\* Every line from a peer about a user is handled.
LEMMA LineHandled ==
    ASSUME IInv, TInv, FInv, OInv, NEW s, NEW t,
           \/ MsUid(s, t) \/ McNick(s, t) \/ MsSave(s, t) \/ MsQuit(s, t) \/ MsKill(s, t)
    PROVE  /\ <<t, s>> \in Edge /\ chan[<<t, s>>] # <<>> /\ Steady
           /\ \E X, K : Handles(s, t, X, K) /\ Welcomes(s, t, X, K)
  <1>1. <<t, s>> \in Edge /\ chan[<<t, s>>] # <<>> /\ Steady
    BY DEF MsUid, McNick, MsSave, MsQuit, MsKill, First
  <1>2. CASE MsUid(s, t)
    <2>1. PICK K : Takes(s, t, Msg(s, t).u, K)
      BY <1>2, TInvNoDuplicate, MsUidHandled
    <2>2. Msg(s, t).type = "UID"
      BY <1>2 DEF MsUid, First, Msg
    <2>3. Handles(s, t, {Msg(s, t).u}, K) /\ Welcomes(s, t, {Msg(s, t).u}, K)
      BY <2>1, <2>2 DEF Takes, Welcomes
    <2> QED BY <1>1, <2>3
  <1>3. CASE ~MsUid(s, t)
    <2>1. PICK K : Handles(s, t, {}, K)
      BY <1>3, McNickHandled, SaveHandled, MsQuitHandled, MsKillHandled
    <2>2. Msg(s, t).type \notin {"UID", "SQUIT"}
      BY <1>3 DEF McNick, MsSave, MsQuit, MsKill, First, Msg
    <2>3. Welcomes(s, t, {}, K)
      BY <2>2 DEF Welcomes
    <2> QED BY <1>1, <2>1, <2>3
  <1> QED BY <1>2, <1>3

LEMMA OInvInit == Init => OInv
  <1> SUFFICES ASSUME Init, NEW t, NEW s, <<t, s>> \in Edge, NEW u \in User PROVE InStep(t, s, u)
    BY DEF OInv, Order
  <1>1. chan[<<t, s>>] = <<>> /\ t \in Server
    BY EdgeFacts DEF Init
  <1>2. client[t][u] = Absent /\ 1..Len(<<>>) = {}
    BY <1>1 DEF Init
  <1> QED BY <1>1, <1>2 DEF InStep, IsPerson, Absent

LEMMA OInvStep ==
    ASSUME IInv, IInv', TInv, FInv, OInv, [Next]_vars
    PROVE  OInv'
  <1>0. PICK M : Met(M)
    BY DEF TInv
  <1>00. Forgiving
    <2>1. \A u \in User : Evolves(u)
      BY FInvStep
    <2> QED BY <2>1, ClaimsGrow, Stays DEF Forgiving
  <1>1. ASSUME Tick \/ (\E s \in Server : ExpireNd(s)) \/ UNCHANGED vars PROVE OInv'
    <2>1. client' = client /\ est' = est /\ chan' = chan
      BY <1>1 DEF Tick, ExpireNd, Steady, vars
    <2>2. CASE Server = {}
      BY <2>2, EdgeFacts DEF OInv
    <2>3. CASE Server # {}
      BY <1>00, <2>1, <2>3, TickOrder
    <2> QED BY <2>2, <2>3
  <1>4. CASE ClientStep
    <2> SUFFICES ASSUME NEW u \in User, \/ \E n \in Nick : MrNick(u, n) \/ MNick(u, n)
                                        \/ Register(u) \/ ExitUnknown(u) \/ Quit(u)
                                        \/ \E v \in User : MoKill(u, v)
                 PROVE  OInv'
      BY <1>4 DEF ClientStep
    <2> QED BY <1>00, MrNickOrder, MNickOrder, RegisterOrder, ExitUnknownOrder, QuitOrder, MoKillOrder
  <1>5. ASSUME NEW s \in Server, NEW t \in Server, Receive(s, t)
        PROVE  OInv'
    <2>1. CASE MrServer(s, t)
      BY <1>0, <1>00, <2>1, MrServerOrder
    <2>2. CASE MsSid(s, t)
      BY <1>00, <2>2, MsSidOrder
    <2>3. CASE MsSquit(s, t)
      BY <1>0, <1>00, <2>3, MsSquitOrder
    <2>4. ASSUME \/ MsUid(s, t) \/ McNick(s, t) \/ MsSave(s, t) \/ MsQuit(s, t) \/ MsKill(s, t)
          PROVE  OInv'
      BY <1>00, <2>4, LineHandled, HandledOrder
    <2> QED BY <1>5, <2>1, <2>2, <2>3, <2>4 DEF Receive
  <1>6. ASSUME NEW s \in Server, NEW t \in Server, AcceptLink(s, t) PROVE OInv'
    BY <1>00, <1>6, AcceptLinkOrder
  <1>7. ASSUME NEW s \in Server, NEW t \in Server, CloseLink(s, t) PROVE OInv'
    BY <1>0, <1>00, <1>7, CloseLinkOrder
  <1> QED BY <1>1, <1>4, <1>5, <1>6, <1>7 DEF Next

LEMMA WInvHolds == Spec => [](FInv /\ OInv)
  <1>1. Init => FInv /\ OInv
    BY FInvInit, OInvInit
  <1>2. IInv /\ IInv' /\ TInv /\ (FInv /\ OInv) /\ [Next]_vars => (FInv /\ OInv)'
    BY FInvStep, OInvStep
  <1> QED BY <1>1, <1>2, IInvHolds, TInvHolds, PTL DEF Spec

-----------------------------------------------------------------------------

\* What a step does to u's own entry, if u is a person.
HomeStep(u) ==
    IsPerson(Self(u)) =>
      /\ Self(u)'.on = "absent" => Quit(u) \/ Excused(u)
      /\ \/ Self(u)' = Self(u)
         \/ Self(u)'.on = "absent"
         \/ Self(u)'.nick \in Nick
         \/ Saved(Home[u], u, Self(u)')

LEMMA SelfSet ==
    ASSUME IInv, NEW s \in Server, NEW c, Sets(s, c), NEW u \in User
    PROVE  Self(u)' = IF Home[u] = s THEN c[u] ELSE Self(u)
  BY UserAssumption DEF Sets, Self, IInv, TypeOK

LEMMA SelfStill ==
    ASSUME NEW u \in User, Self(u)' = Self(u)
    PROVE  HomeStep(u)
  BY DEF HomeStep, IsPerson

LEMMA HandledHome ==
    ASSUME IInv, NEW s, NEW t, <<t, s>> \in Edge, NEW X, NEW K, Handles(s, t, X, K), NEW u \in User
    PROVE  HomeStep(u)
  <1>1. s \in Server
    BY EdgeFacts
  <1>2. PICK c : c = K.client
    OBVIOUS
  <1>3. Sets(s, c) /\ Fate(s, X, u, c[u])
    BY <1>1, <1>2 DEF Handles, Just, CommitFrom, Sets, IInv, TypeOK
  <1>4. Self(u)' = IF Home[u] = s THEN c[u] ELSE Self(u)
    BY <1>1, <1>3, SelfSet
  <1>5. CASE Home[u] # s
    BY <1>4, <1>5, SelfStill
  <1>6. CASE Home[u] = s
    <2>1. Self(u) = client[s][u] /\ Self(u)' = c[u]
      BY <1>4, <1>6 DEF Self
    <2>2. CASE c[u].on = "absent" /\ (IsPerson(client[s][u]) \/ u \in X => Excused(u))
      BY <2>1, <2>2 DEF HomeStep
    <2>3. CASE c[u] = client[s][u]
      BY <2>1, <2>3, SelfStill
    <2>4. CASE Saved(s, u, c[u])
      <3>1. Self(u)'.on # "absent"
        BY <2>1, <2>4 DEF Saved
      <3> QED BY <1>6, <2>1, <2>4, <3>1 DEF HomeStep
    <2> QED BY <1>3, <1>6, <2>2, <2>3, <2>4 DEF Fate
  <1> QED BY <1>5, <1>6

LEMMA ForgetsHome ==
    ASSUME IInv, NEW s \in Server, NEW c, Sets(s, c), NEW lost, Forgets(s, lost, c), NEW u \in User
    PROVE  HomeStep(u)
  <1>1. Self(u)' = Self(u)
    BY SelfSet DEF Forgets, Self
  <1> QED BY <1>1, SelfStill

LEMMA ClientHome ==
    ASSUME IInv, FInv, NEW v \in User,
           \/ \E n \in Nick : MrNick(v, n) \/ MNick(v, n)
           \/ Register(v) \/ ExitUnknown(v) \/ Quit(v)
           \/ \E w \in User : MoKill(v, w),
           NEW u \in User
    PROVE  HomeStep(u)
  <1>0. PICK s : s = Home[v]
    OBVIOUS
  <1>1. s \in Server
    BY <1>0, UserAssumption
  <1>2. ASSUME NEW c, Sets(s, c), Home[u] # s \/ c[u] = client[s][u] PROVE HomeStep(u)
    BY <1>1, <1>2, SelfSet, SelfStill DEF Self
  <1>3. ASSUME NEW c, Sets(s, c), Home[u] = s PROVE Self(u) = client[s][u] /\ Self(u)' = c[u]
    BY <1>1, <1>3, SelfSet DEF Self
  <1>4. ASSUME NEW n \in Nick, MrNick(v, n) PROVE HomeStep(u)
    <2>1. CASE u = v
      <3>1. ~IsPerson(Self(u))
        BY <1>0, <1>4, <2>1 DEF MrNick, FInv, Own, Self, IsPerson
      <3> QED BY <3>1 DEF HomeStep
    <2>2. CASE u # v
      <3>1. Self(u)' = Self(u)
        BY <1>4, <2>2, UserAssumption DEF MrNick, Self, IInv, TypeOK, Table
      <3> QED BY <3>1, SelfStill
    <2> QED BY <2>1, <2>2
  <1>5. ASSUME NEW n \in Nick, MNick(v, n) PROVE HomeStep(u)
    <2>1. PICK c, ts : Renames(s, c, v, n, ts)
      BY <1>0, <1>5, MNickIs
    <2>2. /\ Sets(s, c) /\ c[v] = [on |-> "person", nick |-> n, ts |-> ts]
          /\ \A w \in User \ {v} : c[w] = client[s][w] \/ client[s][w].on = "unknown"
      BY <2>1 DEF Renames
    <2>3. CASE Home[u] # s \/ c[u] = client[s][u]
      BY <1>2, <2>2, <2>3
    <2>4. CASE Home[u] = s /\ u = v
      <3>1. Self(u)'.on = "person" /\ Self(u)'.nick \in Nick
        BY <1>3, <2>2, <2>4
      <3> QED BY <3>1 DEF HomeStep
    <2>5. CASE Home[u] = s /\ client[s][u].on = "unknown"
      <3>1. ~IsPerson(Self(u))
        BY <2>5 DEF Self, IsPerson
      <3> QED BY <3>1 DEF HomeStep
    <2> QED BY <2>2, <2>3, <2>4, <2>5
  <1>6. ASSUME Register(v) PROVE HomeStep(u)
    <2>1. CASE u = v
      <3>1. ~IsPerson(Self(u))
        BY <1>6, <2>1 DEF Register, Self, IsPerson
      <3> QED BY <3>1 DEF HomeStep
    <2>2. CASE u # v
      <3>1. PICK n, ts, m : /\ n = client[s][v].nick /\ ts = client[s][v].ts
                            /\ m = [type |-> "UID", u |-> v, nick |-> n, ts |-> ts]
        OBVIOUS
      <3>2. PICK c : /\ client' = [client EXCEPT ![s] = c] /\ client'[s] = c
                     /\ \A w \in User \ {v} : c[w] = client[s][w]
                     /\ c[v] = [on |-> "person", nick |-> n, ts |-> ts]
                     /\ chan' = Transmit(s, chan, Tell(est[s], m))
        BY <1>0, <1>6, <3>1, RegisterIs
      <3>3. Sets(s, c)
        BY <3>2 DEF Sets
      <3> QED BY <1>2, <2>2, <3>2, <3>3
    <2> QED BY <2>1, <2>2
  <1>7. ASSUME ExitUnknown(v) PROVE HomeStep(u)
    <2>1. CASE u = v
      <3>1. ~IsPerson(Self(u))
        BY <1>7, <2>1 DEF ExitUnknown, Self, IsPerson
      <3> QED BY <3>1 DEF HomeStep
    <2>2. CASE u # v
      <3>1. Self(u)' = Self(u)
        BY <1>7, <2>2, UserAssumption DEF ExitUnknown, Self, IInv, TypeOK, Table
      <3> QED BY <3>1, SelfStill
    <2> QED BY <2>1, <2>2
  <1>8. ASSUME NEW m, NEW w \in User, Commit(s, Drop(SendTo(Here(s), est[s], m), w)),
               u = w => Quit(u) \/ Excused(u)
        PROVE  HomeStep(u)
    <2>1. PICK c : /\ Sets(s, c) /\ c[w] = Absent /\ \A x \in User \ {w} : c[x] = client[s][x]
                   /\ chan' = Transmit(s, chan, Tell(est[s], m))
      BY <1>1, <1>8, LeaveIs
    <2>2. CASE Home[u] # s \/ u # w
      BY <1>2, <2>1, <2>2
    <2>3. CASE Home[u] = s /\ u = w
      <3>1. Self(u)' = Absent
        BY <1>3, <2>1, <2>3
      <3> QED BY <1>8, <2>3, <3>1 DEF HomeStep, Absent
    <2> QED BY <2>2, <2>3
  <1>9. ASSUME Quit(v) PROVE HomeStep(u)
    <2>1. PICK m : m = [type |-> "QUIT", u |-> v]
      OBVIOUS
    <2>2. Commit(s, Drop(SendTo(Here(s), est[s], m), v))
      BY <1>0, <1>9, <2>1 DEF Quit
    <2> QED BY <1>8, <1>9, <2>2
  <1>10. ASSUME NEW w \in User, MoKill(v, w) PROVE HomeStep(u)
    <2>1. PICK m : m = IF Home[w] = s THEN [type |-> "QUIT", u |-> w]
                                      ELSE [type |-> "KILL", u |-> w, src |-> v]
      OBVIOUS
    <2>2. Commit(s, Drop(SendTo(Here(s), est[s], m), w)) /\ Oper # {}
      BY <1>0, <1>10, <2>1 DEF MoKill
    <2> QED BY <1>8, <2>2 DEF Excused
  <1> QED BY <1>4, <1>5, <1>6, <1>7, <1>9, <1>10

LEMMA StepHome ==
    ASSUME IInv, TInv, FInv, OInv, [Next]_vars, NEW u \in User
    PROVE  HomeStep(u)
  <1>0. PICK M : Met(M)
    BY DEF TInv
  <1>1. ASSUME client' = client PROVE HomeStep(u)
    BY <1>1, SelfStill DEF Self
  <1>2. ASSUME Tick \/ (\E s \in Server : ExpireNd(s)) \/ UNCHANGED vars PROVE HomeStep(u)
    BY <1>1, <1>2 DEF Tick, ExpireNd, Steady, vars
  <1>3. CASE ClientStep
    BY <1>3, ClientHome DEF ClientStep
  <1>4. ASSUME NEW s \in Server, NEW t \in Server, AcceptLink(s, t) \/ MrServer(s, t)
        PROVE  HomeStep(u)
    BY <1>1, <1>4 DEF AcceptLink, MrServer
  <1>5. ASSUME NEW s \in Server, NEW t \in Server, MsSid(s, t) PROVE HomeStep(u)
    <2>1. Sets(s, client[s])
      BY <1>5, MsSidIs DEF Hears
    <2>2. Forgets(s, {}, client[s])
      BY DEF Forgets
    <2> QED BY <2>1, <2>2, ForgetsHome
  <1>6. ASSUME NEW s \in Server, NEW t \in Server, MsSquit(s, t) PROVE HomeStep(u)
    <2>1. PICK c, lost : Sets(s, c) /\ Forgets(s, lost, c)
      BY <1>0, <1>6, MsSquitIs DEF Hears
    <2> QED BY <2>1, ForgetsHome
  <1>7. ASSUME NEW s \in Server, NEW t \in Server, CloseLink(s, t) PROVE HomeStep(u)
    <2>1. PICK m, tell, lost : /\ m = [type |-> "SQUIT", sid |-> t] /\ lost = Lost(s, t)
                               /\ tell = IF t \in est[s] THEN est[s] \ {t} ELSE {}
      OBVIOUS
    <2>5. PICK c : c = Forget(Here(s), lost).client /\ Parts(s, t, c, tell, m)
      BY <1>0, <1>7, <2>1, CloseLinkIs
    <2>2. Sets(s, c) /\ c = Forget(Here(s), lost).client
      BY <2>5 DEF Parts, Sets
    <2>3. s \notin lost
      BY <1>0, <2>1, NotSelf DEF Met, Lost
    <2>4. Forgets(s, lost, c)
      BY <2>2, <2>3 DEF Forgets, Forget, Here
    <2> QED BY <2>2, <2>4, ForgetsHome
  <1>8. ASSUME NEW s \in Server, NEW t \in Server,
               \/ MsUid(s, t) \/ McNick(s, t) \/ MsSave(s, t) \/ MsQuit(s, t) \/ MsKill(s, t)
        PROVE  HomeStep(u)
    BY <1>8, LineHandled, HandledHome
  <1> QED BY <1>2, <1>3, <1>4, <1>5, <1>6, <1>7, <1>8 DEF Next, Receive

\* Of a user forced onto its UID at home a claim has come that wins, by the clock of
\* its server: save_user sends the timestamp of the nick that lost, and ms_save
\* compares it, so that a SAVE that is late finds another one and is ignored.  This
\* takes nick changes of one client within a second to be ruled out.
THEOREM SaveDeservedHolds == ~SameSecond => (Spec => SaveDeserved)
  <1> SUFFICES ASSUME ~SameSecond PROVE Spec => SaveDeserved
    OBVIOUS
  <1>1. ASSUME IInv, TInv, TInv', FInv, OInv, [Next]_vars, NEW u \in User,
               IsPerson(Self(u)), Self(u).nick \in Nick, Self(u)'.nick = u
        PROVE  \E d \in claims : Beats(d, <<u, Self(u).nick, Self(u).ts>>)
    <2>1. HomeStep(u)
      BY <1>1, StepHome
    <2>2. u \notin Nick /\ u # NoNick
      BY NameAssumption, UserAssumption
    <2>3. Self(u)'.on # "absent"
      <3>1. Self(u)'.on = "absent" => Self(u)' = Absent
        BY <1>1, UserAssumption DEF TInv, Met, Reach, Self
      <3> QED BY <1>1, <2>2, <3>1 DEF Absent
    <2>4. Saved(Home[u], u, Self(u)')
      BY <1>1, <2>1, <2>2, <2>3 DEF HomeStep
    <2>5. Outdone(u, Self(u).nick, Self(u).ts)
      BY <1>1, <2>4 DEF Saved, Self
    <2> QED BY <2>5 DEF Outdone
  <1>2. IInv /\ TInv /\ TInv' /\ (FInv /\ OInv) /\ [Next]_vars =>
          [\A u \in User : IsPerson(Self(u)) /\ Self(u).nick \in Nick /\ Self(u)'.nick = u
             => \E d \in claims : Beats(d, <<u, Self(u).nick, Self(u).ts>>)]_vars
    BY <1>1
  <1> QED BY <1>2, IInvHolds, TInvHolds, WInvHolds, PTL DEF Spec, SaveDeserved

\* Without operators nobody is killed at home but for a nick: perform_nick_collides and
\* perform_nickchange_collides only kill a user whose claim to it does not win, and the
\* KILLs that remove_unknown sends are for users that have quit or have lost like that.
THEOREM KillDeservedHolds == Spec => KillDeserved
  <1>1. ASSUME IInv, TInv, FInv, OInv, [Next]_vars, NEW u \in User,
               IsPerson(Self(u)), Self(u)'.on = "absent", ~Quit(u), Oper = {}
        PROVE  \E c, d \in claims : c[1] = u /\ Beats(d, c)
    <2>1. Excused(u)
      BY <1>1, StepHome DEF HomeStep
    <2>2. ~Gone(u)
      BY <1>1 DEF Gone, IsPerson
    <2> QED BY <1>1, <2>1, <2>2 DEF Excused, Bested
  <1>2. IInv /\ TInv /\ (FInv /\ OInv) /\ [Next]_vars =>
          [\A u \in User :
             IsPerson(Self(u)) /\ Self(u)'.on = "absent" /\ ~Quit(u) /\ Oper = {}
             => \E c, d \in claims : c[1] = u /\ Beats(d, c)]_vars
    BY <1>1
  <1> QED BY <1>2, IInvHolds, TInvHolds, WInvHolds, PTL DEF Spec, KillDeserved
=============================================================================
