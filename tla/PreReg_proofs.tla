----------------------------- MODULE PreReg_proofs -----------------------------
(***************************************************************************)
(* The gate of registration is kept, the resolver's list and the blacklist *)
(* counts are right, and a timer loses its place only by the hand of one   *)
(* who registered in its callback, for any number of connections,          *)
(* blacklists, retries and rehashes, with and without ping cookies.        *)
(*                                                                         *)
(* What the invariants need besides each other: a connection that has said *)
(* both NICK and USER was asked for its cookie, one that has not been      *)
(* released has said nothing, and one whose first lines are being read has *)
(* no entry among those that the loop has left to visit.                   *)
(***************************************************************************)
EXTENDS PreReg, FiniteSetTheorems, TLAPS

\* What has been said at each stage.
SaidInTime ==
    \A c \in Conn :
        /\ phase[c] \in {"none", "lookup"} => got[c] = {}
        /\ c \in dying => phase[c] \in {"lookup", "open"}
        /\ queries[c] # {} => "user" \in got[c]
        /\ "cookie" \in got[c] => "ping" \in got[c]

\* Who has said who he is was asked for the cookie.
AskedInTime ==
    \A c \in Conn :
        Waits(c) /\ PingCookie /\ {"nick", "user"} \subseteq got[c] => "ping" \in got[c]

\* Whoever waits still owes something.
NobodyForgotten == \A c \in Conn : Waits(c) => Owes(c) # {}

\* Whose lines are read, and whose callback runs.
Hands ==
    /\ reader # NoConn => phase[reader] # "lookup"
    /\ hand # NoItem => reader # NoConn /\ hand = <<reader, "host">>

GateInv ==
    /\ TypeOK /\ RequestsOwned /\ BlackRefs
    /\ SaidInTime /\ AskedInTime /\ NobodyForgotten /\ Hands

-----------------------------------------------------------------------------
(* Names and numbers.                                                      *)

\* Connections, blacklists and entries of the two lists are told apart.
LEMMA Items ==
    /\ NoItem \notin Item /\ Lookup \subseteq Item /\ NoConn \notin Conn
    /\ \A c \in Conn : <<c, "host">> \in Lookup /\ <<c, "auth">> \in Item
    /\ \A c \in Conn, b \in Black :
          <<c, b>> \in Lookup /\ <<c, b>> # <<c, "host">> /\ b # "host" /\ b # "auth"
    /\ \A i \in Lookup :
          /\ i[1] \in Conn /\ (i[2] = "host" \/ i[2] \in Black) /\ i[2] # "auth"
          /\ i = <<i[1], i[2]>>
  <1>1. "host" \notin Black /\ "auth" \notin Black /\ NoConn \notin Conn
    BY PreRegAssumption
  <1>2. NoItem \notin Item
    <2>1. \A i \in Item : i[2] \in {"host", "auth"} \cup Black /\ DOMAIN i = 1..2
      BY DEF Item
    <2>2. DOMAIN NoItem = 1..1 /\ 2 \notin 1..1 /\ 2 \in 1..2
      BY DEF NoItem
    <2> QED BY <2>1, <2>2
  <1>3. Lookup \subseteq Item
    BY DEF Item, Lookup
  <1>4. \A c \in Conn : <<c, "host">> \in Lookup /\ <<c, "auth">> \in Item
    BY DEF Item, Lookup
  <1>5. \A c \in Conn, b \in Black : <<c, b>> \in Lookup /\ <<c, b>> # <<c, "host">>
    BY <1>1 DEF Lookup
  <1>6. \A i \in Lookup :
            /\ i[1] \in Conn /\ (i[2] = "host" \/ i[2] \in Black) /\ i[2] # "auth"
            /\ i = <<i[1], i[2]>>
    BY <1>1 DEF Lookup
  <1> QED BY <1>1, <1>2, <1>3, <1>4, <1>5, <1>6

\* One element less.
LEMMA OneLess ==
    ASSUME NEW S, IsFiniteSet(S), NEW x
    PROVE  /\ Cardinality(S) \in Nat /\ IsFiniteSet(S \ {x})
           /\ x \in S => Cardinality(S) > 0 /\ Cardinality(S \ {x}) = Cardinality(S) - 1
           /\ x \notin S => S \ {x} = S
           /\ Cardinality(S) = 0 <=> S = {}
           /\ Cardinality(S \ {x}) = 0 <=> S \ {x} = {}
  <1>1. IsFiniteSet(S \ {x})
    BY FS_Subset
  <1>2. x \in S => Cardinality(S \ {x}) = Cardinality(S) - 1
    BY FS_RemoveElement
  <1> QED BY <1>1, <1>2, FS_CardinalityType, FS_EmptySet

\* One element more.
LEMMA OneMore ==
    ASSUME NEW S, IsFiniteSet(S), NEW x, x \notin S
    PROVE  IsFiniteSet(S \cup {x}) /\ Cardinality(S \cup {x}) = Cardinality(S) + 1
  BY FS_AddElement

-----------------------------------------------------------------------------
(* The blacklists: who holds them, for any queries Q and listings L.       *)

HoldersIn(Q, L, b) ==
    {<<c, "query">> : c \in {d \in Conn : b \in Q[d]}}
    \cup {<<c, "listed">> : c \in {d \in Conn : b \in L[d]}}

RefOK(b, H, r, s) ==
    /\ r[b] = Cardinality(H)
    /\ s[b] = "absent" => H = {}
    /\ s[b] = "illegal" => H # {}

BlackOK(Q, L, r, s) == \A b \in Black : RefOK(b, HoldersIn(Q, L, b), r, s)

Sets == [Conn -> SUBSET Black]

\* A blacklist has finitely many holders.
LEMMA HoldersAreFinite ==
    \A Q, L, b : IsFiniteSet(HoldersIn(Q, L, b))
  <1>1. IsFiniteSet({"query", "listed"})
    <2>1. IsFiniteSet({"query"}) /\ {"query", "listed"} = {"query"} \cup {"listed"}
      BY FS_Singleton
    <2> QED BY <2>1, FS_AddElement
  <1>2. IsFiniteSet(Conn \X {"query", "listed"})
    BY <1>1, FS_Product, PreRegAssumption
  <1>3. \A Q, L, b : HoldersIn(Q, L, b) \subseteq Conn \X {"query", "listed"}
    BY DEF HoldersIn
  <1> QED BY <1>2, <1>3, FS_Subset

\* One holder fewer of a blacklist that is referenced, or none fewer.
LEMMA OneHolderLess ==
    ASSUME NEW b \in Black, NEW H, IsFiniteSet(H), NEW x,
           NEW r \in [Black -> Nat], NEW s \in [Black -> Status], RefOK(b, H, r, s),
           NEW S \in SUBSET Black, b \in S <=> x \in H
    PROVE  /\ RefOK(b, H \ {x}, RefDown(r, S), Unlisted(s, r, S))
           /\ RefDown(r, S)[b] \in Nat /\ Unlisted(s, r, S)[b] \in Status
  <1>1. RefDown(r, S)[b] = IF b \in S THEN r[b] - 1 ELSE r[b]
    BY DEF RefDown
  <1>2. Unlisted(s, r, S)[b] = IF b \in S /\ s[b] = "illegal" /\ r[b] <= 1 THEN "absent" ELSE s[b]
    BY DEF Unlisted
  <1>3. PICK n \in Nat : n = r[b]
    OBVIOUS
  <1>4. CASE b \in S
    BY <1>1, <1>2, <1>3, <1>4, OneLess DEF RefOK, Status
  <1>5. CASE b \notin S
    BY <1>1, <1>2, <1>3, <1>5, OneLess DEF RefOK
  <1> QED BY <1>4, <1>5

\* unref_blacklist for some of the queries of c.
LEMMA DropQueries ==
    ASSUME NEW Q \in Sets, NEW L \in Sets, NEW r \in [Black -> Nat], NEW s \in [Black -> Status],
           BlackOK(Q, L, r, s), NEW c \in Conn, NEW S \in SUBSET Q[c]
    PROVE  /\ BlackOK([Q EXCEPT ![c] = Q[c] \ S], L, RefDown(r, S), Unlisted(s, r, S))
           /\ RefDown(r, S) \in [Black -> Nat] /\ Unlisted(s, r, S) \in [Black -> Status]
  <1> SUFFICES ASSUME NEW b \in Black
               PROVE  /\ RefOK(b, HoldersIn([Q EXCEPT ![c] = Q[c] \ S], L, b), RefDown(r, S), Unlisted(s, r, S))
                      /\ RefDown(r, S)[b] \in Nat /\ Unlisted(s, r, S)[b] \in Status
    BY DEF BlackOK, RefDown, Unlisted
  <1>1. PICK H : H = HoldersIn(Q, L, b)
    OBVIOUS
  <1>2. IsFiniteSet(H) /\ RefOK(b, H, r, s)
    BY <1>1, HoldersAreFinite DEF BlackOK
  <1>3. CASE b \in S
    <2>1. HoldersIn([Q EXCEPT ![c] = Q[c] \ S], L, b) = H \ {<<c, "query">>}
      BY <1>1, <1>3 DEF HoldersIn, Sets
    <2>2. <<c, "query">> \in H
      BY <1>1, <1>3 DEF HoldersIn, Sets
    <2>3. S \in SUBSET Black
      BY DEF Sets
    <2>4. PICK x : x = <<c, "query">>
      OBVIOUS
    <2>5. x \in H /\ (b \in S <=> x \in H)
      BY <1>3, <2>2, <2>4
    <2>6. RefOK(b, H \ {x}, RefDown(r, S), Unlisted(s, r, S))
      BY <1>2, <2>3, <2>5, OneHolderLess
    <2>7. RefDown(r, S)[b] \in Nat /\ Unlisted(s, r, S)[b] \in Status
      BY <1>2, <2>3, <2>5, OneHolderLess
    <2> QED BY <2>1, <2>4, <2>6, <2>7
  <1>4. CASE b \notin S
    <2>1. HoldersIn([Q EXCEPT ![c] = Q[c] \ S], L, b) = H
      BY <1>1, <1>4 DEF HoldersIn, Sets
    <2> QED BY <1>2, <1>4, <2>1 DEF RefOK, RefDown, Unlisted
  <1> QED BY <1>3, <1>4

\* unref_blacklist for the listing of c.
LEMMA DropListing ==
    ASSUME NEW Q \in Sets, NEW L \in Sets, NEW r \in [Black -> Nat], NEW s \in [Black -> Status],
           BlackOK(Q, L, r, s), NEW c \in Conn
    PROVE  /\ BlackOK(Q, [L EXCEPT ![c] = {}], RefDown(r, L[c]), Unlisted(s, r, L[c]))
           /\ RefDown(r, L[c]) \in [Black -> Nat] /\ Unlisted(s, r, L[c]) \in [Black -> Status]
  <1>1. PICK S \in SUBSET Black : S = L[c]
    BY DEF Sets
  <1> SUFFICES ASSUME NEW b \in Black
               PROVE  /\ RefOK(b, HoldersIn(Q, [L EXCEPT ![c] = {}], b), RefDown(r, S), Unlisted(s, r, S))
                      /\ RefDown(r, S)[b] \in Nat /\ Unlisted(s, r, S)[b] \in Status
    BY <1>1 DEF BlackOK, RefDown, Unlisted
  <1>2. PICK H : H = HoldersIn(Q, L, b)
    OBVIOUS
  <1>3. IsFiniteSet(H) /\ RefOK(b, H, r, s)
    BY <1>2, HoldersAreFinite DEF BlackOK
  <1>4. HoldersIn(Q, [L EXCEPT ![c] = {}], b) = H \ {<<c, "listed">>}
    BY <1>2 DEF HoldersIn, Sets
  <1>5. b \in S <=> <<c, "listed">> \in H
    BY <1>1, <1>2 DEF HoldersIn, Sets
  <1>6. PICK x : x = <<c, "listed">>
    OBVIOUS
  <1>7. RefOK(b, H \ {x}, RefDown(r, S), Unlisted(s, r, S))
    BY <1>3, <1>5, <1>6, OneHolderLess
  <1>8. RefDown(r, S)[b] \in Nat /\ Unlisted(s, r, S)[b] \in Status
    BY <1>3, <1>5, <1>6, OneHolderLess
  <1> QED BY <1>4, <1>6, <1>7, <1>8

\* lookup_blacklists: c holds each of S.
LEMMA AddQueries ==
    ASSUME NEW Q \in Sets, NEW L \in Sets, NEW r \in [Black -> Nat], NEW s \in [Black -> Status],
           BlackOK(Q, L, r, s), NEW c \in Conn, NEW S \in SUBSET Black, S \cap Q[c] = {},
           \A b \in S : s[b] = "conf"
    PROVE  LET R == [b \in Black |-> IF b \in S THEN r[b] + 1 ELSE r[b]] IN
           BlackOK([Q EXCEPT ![c] = Q[c] \cup S], L, R, s) /\ R \in [Black -> Nat]
  <1> DEFINE R == [b \in Black |-> IF b \in S THEN r[b] + 1 ELSE r[b]]
  <1>1. R \in [Black -> Nat]
    OBVIOUS
  <1>2. ASSUME NEW b \in Black
        PROVE  RefOK(b, HoldersIn([Q EXCEPT ![c] = Q[c] \cup S], L, b), R, s)
    <2>1. PICK H : H = HoldersIn(Q, L, b)
      OBVIOUS
    <2>2. IsFiniteSet(H) /\ RefOK(b, H, r, s)
      BY <2>1, HoldersAreFinite DEF BlackOK
    <2>3. CASE b \in S
      <3>1. HoldersIn([Q EXCEPT ![c] = Q[c] \cup S], L, b) = H \cup {<<c, "query">>}
        BY <2>1, <2>3 DEF HoldersIn, Sets
      <3>2. <<c, "query">> \notin H
        BY <2>1, <2>3 DEF HoldersIn, Sets
      <3>3. R[b] = r[b] + 1 /\ s[b] = "conf"
        BY <2>3
      <3> QED BY <2>2, <3>1, <3>2, <3>3, OneMore DEF RefOK
    <2>4. CASE b \notin S
      <3>1. HoldersIn([Q EXCEPT ![c] = Q[c] \cup S], L, b) = H
        BY <2>1, <2>4 DEF HoldersIn, Sets
      <3> QED BY <2>2, <2>4, <3>1 DEF RefOK
    <2> QED BY <2>3, <2>4
  <1> QED BY <1>1, <1>2 DEF BlackOK

\* The reference of a first listing: c holds b by another pointer.
LEMMA MoveQuery ==
    ASSUME NEW Q \in Sets, NEW L \in Sets, NEW r \in [Black -> Nat], NEW s \in [Black -> Status],
           BlackOK(Q, L, r, s), NEW c \in Conn, NEW b \in Q[c], L[c] = {}
    PROVE  BlackOK([Q EXCEPT ![c] = Q[c] \ {b}], [L EXCEPT ![c] = {b}], r, s)
  <1> SUFFICES ASSUME NEW d \in Black
               PROVE  RefOK(d, HoldersIn([Q EXCEPT ![c] = Q[c] \ {b}], [L EXCEPT ![c] = {b}], d), r, s)
    BY DEF BlackOK
  <1>1. PICK H : H = HoldersIn(Q, L, d)
    OBVIOUS
  <1>2. IsFiniteSet(H) /\ RefOK(d, H, r, s)
    BY <1>1, HoldersAreFinite DEF BlackOK
  <1>3. CASE d = b
    <2>1. /\ HoldersIn([Q EXCEPT ![c] = Q[c] \ {b}], [L EXCEPT ![c] = {b}], d)
                = (H \ {<<c, "query">>}) \cup {<<c, "listed">>}
          /\ <<c, "query">> \in H /\ <<c, "listed">> \notin H \ {<<c, "query">>}
      BY <1>1, <1>3 DEF HoldersIn, Sets
    <2>2. PICK x, y : x = <<c, "query">> /\ y = <<c, "listed">>
      OBVIOUS
    <2>3. PICK H1 : H1 = H \ {x}
      OBVIOUS
    <2>4. IsFiniteSet(H1) /\ Cardinality(H1) = Cardinality(H) - 1 /\ Cardinality(H) \in Nat
      BY <1>2, <2>1, <2>2, <2>3, OneLess
    <2>5. y \notin H1
      BY <2>1, <2>2, <2>3
    <2>6. Cardinality(H1 \cup {y}) = Cardinality(H1) + 1
      BY <2>4, <2>5, OneMore
    <2>7. Cardinality(H1 \cup {y}) = Cardinality(H)
      BY <2>4, <2>6
    <2> QED BY <1>2, <2>1, <2>2, <2>3, <2>7 DEF RefOK
  <1>4. CASE d # b
    <2>1. HoldersIn([Q EXCEPT ![c] = Q[c] \ {b}], [L EXCEPT ![c] = {b}], d) = H
      BY <1>1, <1>4 DEF HoldersIn, Sets
    <2> QED BY <1>2, <2>1
  <1> QED BY <1>3, <1>4

-----------------------------------------------------------------------------
(* The gate, as each of the handlers leaves it.                            *)

\* What is owed with a pending, g said and q unanswered.
Debts(a, g, q) ==
    {d \in G!Debt :
        \/ d = "host" /\ a \cap Dns # {}
        \/ d = "ident" /\ a \cap Ident # {}
        \/ d \in {"nick", "user"} /\ d \notin g
        \/ d = "cookie" /\ PingCookie /\ "cookie" \notin g
        \/ d = "cap" /\ "clicap" \in g
        \/ d = "dnsbl" /\ q # {}}

\* The seven debts, and which of them are lookups.
LEMMA DebtNames ==
    /\ G!Debt = {"host", "ident", "nick", "user", "cookie", "cap", "dnsbl"}
    /\ G!Lookups = {"ident", "host"}
  BY DEF G!Debt, G!Lookups

\* The cookie is owed from the start, since whoever can be asked for it has been.
LEMMA OwesDebts ==
    ASSUME NEW c \in Conn,
           PingCookie /\ {"nick", "user"} \subseteq got[c] => "ping" \in got[c]
    PROVE  Owes(c) = Debts(auth[c], got[c], queries[c])
  <1>1. OwesCookie(c) <=> PingCookie /\ "cookie" \notin got[c]
    BY DEF OwesCookie
  <1>2. ASSUME NEW d \in Owes(c) PROVE d \in Debts(auth[c], got[c], queries[c])
    BY <1>1, <1>2, DebtNames DEF Owes, Debts
  <1>3. ASSUME NEW d \in Debts(auth[c], got[c], queries[c]) PROVE d \in Owes(c)
    BY <1>1, <1>3, DebtNames DEF Owes, Debts
  <1> QED BY <1>2, <1>3

\* Who stays at the gate was asked for the cookie, and owes something.
Settled(g, q) ==
    /\ PingCookie /\ {"nick", "user"} \subseteq g => "ping" \in g
    /\ Debts({}, g, q) # {}

\* What becomes of the debts of one who stays.
GateMove(c, g, q) ==
    /\ "login" \in got[c] => "login" \in g
    /\ \/ Debts({}, g, q) = Debts({}, got[c], queries[c])
       \/ /\ "login" \in g => "login" \in got[c]
          /\ \/ Debts({}, g, q) = Debts({}, got[c], queries[c]) \cup {"cap"}
             \/ \E paid \in (SUBSET Debts({}, got[c], queries[c])) \ {{}}, more \in SUBSET {"dnsbl"} :
                   /\ more # {} => "user" \in paid
                   /\ Debts({}, g, q) = (Debts({}, got[c], queries[c]) \ paid) \cup more

LastDebt(c) ==
    \E last \in G!Debt :
        Debts({}, got[c], queries[c])
            \subseteq {last} \cup (IF "login" \in got[c] THEN {"user"} ELSE {})

GateStep(c, g, q, l, r, s) ==
    /\ phase[c] = "open" /\ UNCHANGED <<auth, hand, reader>>
    /\ g \in SUBSET Said /\ q \in SUBSET Black /\ l \in SUBSET Black
    /\ \A a, b \in l : a = b
    /\ r \in [Black -> Nat] /\ s \in [Black -> Status]
    /\ BlackOK([queries EXCEPT ![c] = q], [listed EXCEPT ![c] = l], r, s)
    /\ requests' \in [Lookup -> 0..Retries]
    /\ \A i \in Lookup : i[1] # c \/ i[2] = "host" => requests'[i] = requests[i]
    /\ \A b \in Black : requests'[<<c, b>>] > 0 <=> b \in q
    /\ "cookie" \in g => "ping" \in g
    /\ q # {} => "user" \in g
    /\ \/ /\ Keep(c, g, q, l, r, s) /\ UNCHANGED <<phase, dying>>
          /\ c \notin dying => Settled(g, q) /\ GateMove(c, g, q)
       \/ /\ Conclude(c, g, l, r, s)
          /\ q = {} /\ c \notin dying /\ LastDebt(c)

\* register_local_user either leaves the client where it is, who owes something
\* then, or concludes.
LEMMA RegisterOutcome ==
    ASSUME NEW c, NEW g \in SUBSET Said, NEW q, NEW l, NEW r, NEW s,
           "cookie" \in g => "ping" \in g, RegisterLocalUser(c, g, q, l, r, s)
    PROVE  \/ \E h \in {g, g \cup {"ping"}} :
                 /\ Keep(c, h, q, l, r, s) /\ UNCHANGED <<phase, dying>>
                 /\ c \notin dying => Settled(h, q)
           \/ Conclude(c, g, l, r, s) /\ Ready(g, q) /\ (PingCookie => "ping" \in g) /\ c \notin dying
  <1>1. CASE /\ c \notin dying /\ PingCookie /\ "ping" \notin g
             /\ Keep(c, g \cup {"ping"}, q, l, r, s) /\ UNCHANGED <<phase, dying>>
    <2>1. "cookie" \in Debts({}, g \cup {"ping"}, q)
      BY <1>1, DebtNames DEF Debts
    <2> QED BY <1>1, <2>1 DEF Settled
  <1>2. CASE /\ c \in dying \/ (~(PingCookie /\ "ping" \notin g) /\ ~Ready(g, q))
             /\ Keep(c, g, q, l, r, s) /\ UNCHANGED <<phase, dying>>
    <2>1. ASSUME c \notin dying PROVE Settled(g, q)
      <3>1. "cookie" \in Debts({}, g, q) \/ "cap" \in Debts({}, g, q) \/ "dnsbl" \in Debts({}, g, q)
        BY <1>2, <2>1, DebtNames DEF Ready, Debts
      <3> QED BY <1>2, <2>1, <3>1 DEF Settled
    <2> QED BY <1>2, <2>1
  <1>3. CASE /\ c \notin dying /\ ~(PingCookie /\ "ping" \notin g) /\ Ready(g, q)
             /\ Conclude(c, g, l, r, s)
    BY <1>3
  <1> QED BY <1>1, <1>2, <1>3 DEF RegisterLocalUser

\* Being asked for the cookie is not a debt of its own.
LEMMA PingIsNoDebt ==
    \A g, q : Debts({}, g \cup {"ping"}, q) = Debts({}, g, q)
  BY DebtNames DEF Debts

\* How things stand with an open connection.
LEMMA AtGate ==
    ASSUME GateInv, NEW c \in Conn, phase[c] = "open"
    PROVE  /\ got[c] \in SUBSET Said /\ queries \in Sets /\ listed \in Sets
           /\ ref \in [Black -> Nat] /\ status \in [Black -> Status]
           /\ \A a, b \in listed[c] : a = b
           /\ BlackOK(queries, listed, ref, status)
           /\ requests \in [Lookup -> 0..Retries] /\ Retries \in Nat \ {0}
           /\ \A b \in Black : requests[<<c, b>>] > 0 <=> b \in queries[c]
           /\ "cookie" \in got[c] => "ping" \in got[c]
           /\ queries[c] # {} => "user" \in got[c]
           /\ auth[c] = {}
           /\ c \notin dying => Settled(got[c], queries[c])
  <1>1. /\ got[c] \in SUBSET Said /\ queries \in Sets /\ listed \in Sets
        /\ ref \in [Black -> Nat] /\ status \in [Black -> Status]
        /\ \A a, b \in listed[c] : a = b
        /\ requests \in [Lookup -> 0..Retries] /\ Retries \in Nat \ {0}
    BY PreRegAssumption DEF GateInv, TypeOK, Sets
  <1>2. BlackOK(queries, listed, ref, status)
    BY DEF GateInv, BlackRefs, Holders, BlackOK, RefOK, HoldersIn
  <1>3. \A b \in Black : requests[<<c, b>>] > 0 <=> b \in queries[c]
    BY DEF GateInv, RequestsOwned, Asked
  <1>4. ("cookie" \in got[c] => "ping" \in got[c]) /\ (queries[c] # {} => "user" \in got[c])
    BY DEF GateInv, SaidInTime
  <1>5. auth[c] = {}
    BY DEF GateInv, RequestsOwned
  <1>6. ASSUME c \notin dying PROVE Settled(got[c], queries[c])
    <2>1. Waits(c)
      BY <1>6 DEF Waits, Unregistered
    <2>2. (PingCookie /\ {"nick", "user"} \subseteq got[c] => "ping" \in got[c]) /\ Owes(c) # {}
      BY <2>1 DEF GateInv, AskedInTime, NobodyForgotten
    <2> QED BY <1>5, <2>2, OwesDebts DEF Settled
  <1> QED BY <1>1, <1>2, <1>3, <1>4, <1>5, <1>6

\* A handler that registers c, or leaves it there, with what it has changed before.
LEMMA RegisterStep ==
    ASSUME NEW c \in Conn, phase[c] = "open", UNCHANGED <<auth, hand, reader>>,
           NEW g \in SUBSET Said, NEW q \in SUBSET Black, NEW l \in SUBSET Black,
           \A a, b \in l : a = b,
           NEW r \in [Black -> Nat], NEW s \in [Black -> Status],
           BlackOK([queries EXCEPT ![c] = q], [listed EXCEPT ![c] = l], r, s),
           requests' \in [Lookup -> 0..Retries],
           \A i \in Lookup : i[1] # c \/ i[2] = "host" => requests'[i] = requests[i],
           \A b \in Black : requests'[<<c, b>>] > 0 <=> b \in q,
           "cookie" \in g => "ping" \in g,
           q # {} => "user" \in g,
           GateMove(c, g, q),
           \/ RegisterLocalUser(c, g, q, l, r, s) /\ (Ready(g, q) => LastDebt(c))
           \/ /\ Keep(c, g, q, l, r, s) /\ UNCHANGED <<phase, dying>>
              /\ c \notin dying => Settled(g, q)
    PROVE  \E h \in SUBSET Said : GateStep(c, h, q, l, r, s)
  <1>1. "ping" \in Said
    BY DEF Said
  <1>2. CASE \E h \in {g, g \cup {"ping"}} :
                 /\ Keep(c, h, q, l, r, s) /\ UNCHANGED <<phase, dying>>
                 /\ c \notin dying => Settled(h, q)
    <2>1. PICK h \in {g, g \cup {"ping"}} :
              /\ Keep(c, h, q, l, r, s) /\ UNCHANGED <<phase, dying>>
              /\ c \notin dying => Settled(h, q)
      BY <1>2
    <2>2. h \in SUBSET Said /\ ("cookie" \in h => "ping" \in h) /\ (q # {} => "user" \in h)
      BY <1>1, <2>1
    <2>3. Debts({}, h, q) = Debts({}, g, q) /\ ("login" \in h <=> "login" \in g)
      BY <2>1, PingIsNoDebt
    <2>4. GateMove(c, h, q)
      BY <2>3 DEF GateMove
    <2>5. GateStep(c, h, q, l, r, s)
      BY <2>1, <2>2, <2>4 DEF GateStep
    <2> QED BY <2>2, <2>5
  <1>3. CASE Conclude(c, g, l, r, s) /\ Ready(g, q) /\ LastDebt(c) /\ c \notin dying
    <2>1. q = {}
      BY <1>3 DEF Ready
    <2>2. GateStep(c, g, q, l, r, s)
      BY <1>3, <2>1 DEF GateStep
    <2> QED BY <2>2
  <1>4. CASE RegisterLocalUser(c, g, q, l, r, s) /\ (Ready(g, q) => LastDebt(c))
    BY <1>2, <1>3, <1>4, RegisterOutcome
  <1>5. CASE /\ Keep(c, g, q, l, r, s) /\ UNCHANGED <<phase, dying>>
             /\ c \notin dying => Settled(g, q)
    BY <1>2, <1>5
  <1> QED BY <1>4, <1>5

\* A handler that changes what c has said, and perhaps registers it.
LEMMA TryStep ==
    ASSUME GateInv, NEW c \in Conn, phase[c] = "open", UNCHANGED <<auth, requests, hand, reader>>,
           NEW g \in SUBSET Said, NEW may \in BOOLEAN, Try(c, may, g),
           got[c] \ {"clicap"} \subseteq g, "cookie" \in g => "ping" \in g,
           GateMove(c, g, queries[c]),
           ~may /\ c \notin dying => Settled(g, queries[c]),
           may /\ Ready(g, queries[c]) => LastDebt(c)
    PROVE  \E h \in SUBSET Said : GateStep(c, h, queries[c], listed[c], ref, status)
  <1>1. PICK q, l : q = queries[c] /\ l = listed[c]
    OBVIOUS
  <1>2. /\ q \in SUBSET Black /\ l \in SUBSET Black /\ (\A a, b \in l : a = b)
        /\ ref \in [Black -> Nat] /\ status \in [Black -> Status]
        /\ BlackOK([queries EXCEPT ![c] = q], [listed EXCEPT ![c] = l], ref, status)
        /\ requests' \in [Lookup -> 0..Retries]
        /\ \A i \in Lookup : requests'[i] = requests[i]
        /\ \A b \in Black : requests'[<<c, b>>] > 0 <=> b \in q
        /\ q # {} => "user" \in got[c]
    <2>1. [queries EXCEPT ![c] = q] = queries /\ [listed EXCEPT ![c] = l] = listed
      BY <1>1, AtGate DEF Sets
    <2> QED BY <1>1, <2>1, AtGate DEF Sets
  <1>3. \/ RegisterLocalUser(c, g, q, l, ref, status) /\ (Ready(g, q) => LastDebt(c))
        \/ /\ Keep(c, g, q, l, ref, status) /\ UNCHANGED <<phase, dying>>
           /\ c \notin dying => Settled(g, q)
    BY <1>1 DEF Try
  <1>4. (q # {} => "user" \in g) /\ GateMove(c, g, q)
    BY <1>1, <1>2
  <1>5. \E h \in SUBSET Said : GateStep(c, h, q, l, ref, status)
    BY <1>2, <1>3, <1>4, RegisterStep
  <1> QED BY <1>1, <1>5

\* Paying one debt, or none that is owed.
LEMMA PayOne ==
    ASSUME NEW c \in Conn, NEW g, NEW q, NEW d,
           Debts({}, g, q) = Debts({}, got[c], queries[c]) \ {d},
           "login" \in g <=> "login" \in got[c]
    PROVE  GateMove(c, g, q)
  <1>1. PICK D : D = Debts({}, got[c], queries[c])
    OBVIOUS
  <1>2. CASE d \in D
    <2>1. {d} \in (SUBSET D) \ {{}} /\ {} \in SUBSET {"dnsbl"}
      <3>1. {d} \subseteq D /\ d \in {d}
        BY <1>2
      <3>2. {d} # {}
        BY <3>1
      <3> QED BY <3>1, <3>2
    <2>2. Debts({}, g, q) = (D \ {d}) \cup {} /\ ({} # {} => "user" \in {d})
      BY <1>1
    <2>3. \E paid \in (SUBSET D) \ {{}}, more \in SUBSET {"dnsbl"} :
             (more # {} => "user" \in paid) /\ Debts({}, g, q) = (D \ paid) \cup more
      BY <2>1, <2>2
    <2> QED BY <1>1, <2>3 DEF GateMove
  <1>3. CASE d \notin D
    BY <1>1, <1>3 DEF GateMove
  <1> QED BY <1>2, <1>3

\* NICK, CAP, CAP END, PONG and a login by services.
LEMMA LineSteps ==
    ASSUME GateInv, NEW c \in Conn,
           \/ MrNick(c) \/ MCap(c) \/ CapEnd(c) \/ MrPong(c)
           \/ MeSvslogin(c)
    PROVE  \E g \in SUBSET Said : GateStep(c, g, queries[c], listed[c], ref, status)
  <1>1. phase[c] = "open" /\ UNCHANGED <<auth, requests, hand, reader>>
    BY DEF MrNick, MCap, CapEnd, MrPong, MeSvslogin, Reads, control
  <1>2. PICK G0, q : G0 = got[c] /\ q = queries[c] /\ G0 \in SUBSET Said
    BY <1>1, AtGate
  <1>3. /\ "cookie" \in G0 => "ping" \in G0
        /\ c \notin dying => Settled(G0, q)
    BY <1>1, <1>2, AtGate
  <1>4. PICK D : D = Debts({}, G0, q)
    OBVIOUS
  <1>5. CASE MrNick(c)
    <2>1. PICK g \in SUBSET Said : g = G0 \cup {"nick"}
      BY <1>2 DEF Said
    <2>2. Debts({}, g, q) = D \ {"nick"}
      BY <1>4, <2>1, DebtNames DEF Debts
    <2>3. GateMove(c, g, q)
      <3>1. "login" \in g <=> "login" \in got[c]
        BY <1>2, <2>1
      <3> QED BY <1>2, <1>4, <2>2, <3>1, PayOne
    <2>4. PICK may \in BOOLEAN : may <=> "user" \in got[c]
      OBVIOUS
    <2>5. ~may => Settled(g, q)
      <3>1. "user" \notin g => "user" \in Debts({}, g, q)
        BY DebtNames DEF Debts
      <3> QED BY <1>2, <2>1, <2>4, <3>1 DEF Settled
    <2>6. may /\ Ready(g, q) => LastDebt(c)
      <3>1. may /\ Ready(g, q) => D \subseteq {"nick"}
        BY <1>2, <1>4, <2>1, <2>4, DebtNames DEF Debts, Ready
      <3> QED BY <1>2, <1>4, <3>1, DebtNames DEF LastDebt
    <2>7. Try(c, may, g)
      BY <1>2, <1>5, <2>1, <2>4 DEF MrNick, Try
    <2> QED BY <1>1, <1>2, <1>3, <2>1, <2>3, <2>5, <2>6, <2>7, TryStep
  <1>6. CASE MCap(c)
    <2>1. PICK g \in SUBSET Said : g = G0 \cup {"clicap"}
      BY <1>2 DEF Said
    <2>2. Debts({}, g, q) = D \cup {"cap"}
      BY <1>4, <2>1, DebtNames DEF Debts
    <2>3. GateMove(c, g, q)
      BY <1>2, <1>4, <2>1, <2>2 DEF GateMove
    <2>4. c \notin dying => Settled(g, q)
      BY <1>3, <1>4, <2>1, <2>2 DEF Settled
    <2>5. Try(c, FALSE, g)
      BY <1>2, <1>6, <2>1 DEF MCap
    <2> QED BY <1>1, <1>2, <1>3, <2>1, <2>3, <2>4, <2>5, TryStep
  <1>7. CASE CapEnd(c)
    <2>1. PICK g \in SUBSET Said : g = G0 \ {"clicap"}
      BY <1>2
    <2>2. Debts({}, g, q) = D \ {"cap"}
      BY <1>4, <2>1, DebtNames DEF Debts
    <2>3. GateMove(c, g, q)
      <3>1. "login" \in g <=> "login" \in got[c]
        BY <1>2, <2>1
      <3> QED BY <1>2, <1>4, <2>2, <3>1, PayOne
    <2>4. PICK may \in BOOLEAN : may <=> "nick" \in got[c] /\ HasUser(c)
      OBVIOUS
    <2>5. ~may => Settled(g, q)
      <3>1. ~may => "nick" \in Debts({}, g, q) \/ "user" \in Debts({}, g, q)
        BY <1>2, <2>1, <2>4, DebtNames DEF Debts, HasUser
      <3>2. ~may => ~({"nick", "user"} \subseteq g)
        BY <1>2, <2>1, <2>4 DEF HasUser
      <3> QED BY <3>1, <3>2 DEF Settled
    <2>6. may /\ Ready(g, q) => LastDebt(c)
      <3>1. may /\ Ready(g, q) =>
                D \subseteq {"cap"} \cup (IF "login" \in got[c] THEN {"user"} ELSE {})
        BY <1>2, <1>4, <2>1, <2>4, DebtNames DEF Debts, Ready, HasUser
      <3> QED BY <1>2, <1>4, <3>1, DebtNames DEF LastDebt
    <2>7. Try(c, may, g)
      BY <1>2, <1>7, <2>1, <2>4 DEF CapEnd, Try
    <2> QED BY <1>1, <1>2, <1>3, <2>1, <2>3, <2>5, <2>6, <2>7, TryStep
  <1>8. CASE MrPong(c)
    <2>1. PICK g \in SUBSET Said : g = G0 \cup {"cookie"}
      BY <1>2 DEF Said
    <2>2. Debts({}, g, q) = D \ {"cookie"}
      BY <1>4, <2>1, DebtNames DEF Debts
    <2>3. GateMove(c, g, q)
      <3>1. "login" \in g <=> "login" \in got[c]
        BY <1>2, <2>1
      <3> QED BY <1>2, <1>4, <2>2, <3>1, PayOne
    <2>4. Ready(g, q) => LastDebt(c)
      <3>1. Ready(g, q) => D \subseteq {"cookie"} \cup (IF "login" \in got[c] THEN {"user"} ELSE {})
        BY <1>2, <1>4, <1>8, <2>1, DebtNames DEF Debts, Ready, HasUser, MrPong
      <3> QED BY <1>2, <1>4, <3>1, DebtNames DEF LastDebt
    <2>5. Try(c, TRUE, g) /\ "ping" \in g
      BY <1>2, <1>8, <2>1 DEF MrPong
    <2> QED BY <1>1, <1>2, <2>1, <2>3, <2>4, <2>5, TryStep
  <1>9. CASE MeSvslogin(c)
    <2>1. PICK g \in SUBSET Said : g = G0 \cup {"login"}
      BY <1>2 DEF Said
    <2>2. Debts({}, g, q) = D
      BY <1>4, <2>1, DebtNames DEF Debts
    <2>3. GateMove(c, g, q)
      BY <1>2, <1>4, <2>1, <2>2 DEF GateMove
    <2>4. c \notin dying => Settled(g, q)
      BY <1>3, <1>4, <2>1, <2>2 DEF Settled
    <2>5. Try(c, FALSE, g)
      BY <1>2, <1>9, <2>1 DEF MeSvslogin
    <2> QED BY <1>1, <1>2, <1>3, <2>1, <2>3, <2>4, <2>5, TryStep
  <1> QED BY <1>5, <1>6, <1>7, <1>8, <1>9

\* USER.
LEMMA UserStep ==
    ASSUME GateInv, NEW c \in Conn, MrUser(c)
    PROVE  \E g \in SUBSET Said, q \in SUBSET Black, r \in [Black -> Nat] :
               GateStep(c, g, q, listed[c], r, status)
  <1>1. phase[c] = "open" /\ UNCHANGED <<auth, hand, reader>>
    BY DEF MrUser, Reads, control
  <1>2. PICK asked : asked = IF "user" \in got[c] \/ c \in V6 THEN {}
                             ELSE {b \in Black : status[b] = "conf"}
    OBVIOUS
  <1>3. PICK r : r = [b \in Black |-> IF b \in asked THEN ref[b] + 1 ELSE ref[b]]
    OBVIOUS
  <1>4. PICK G0, g : G0 = got[c] /\ g = got[c] \cup {"user"} /\ G0 \in SUBSET Said /\ g \in SUBSET Said
    <2>1. got[c] \in SUBSET Said
      BY <1>1, AtGate
    <2>2. got[c] \cup {"user"} \in SUBSET Said
      BY <2>1 DEF Said
    <2> QED BY <2>1, <2>2
  <1>5. PICK Q0, q : Q0 = queries[c] /\ q = queries[c] \cup asked
    OBVIOUS
  <1>6. Q0 \in SUBSET Black /\ asked \in SUBSET Black /\ asked \cap Q0 = {} /\ q \in SUBSET Black
    <2>1. Q0 \in SUBSET Black /\ (Q0 # {} => "user" \in G0)
      BY <1>1, <1>4, <1>5, AtGate DEF Sets
    <2> QED BY <1>2, <1>4, <1>5, <2>1
  <1>7. /\ requests' = [i \in Lookup |-> IF i[1] = c /\ i[2] \in asked THEN Retries ELSE requests[i]]
        /\ IF "nick" \in got[c] THEN RegisterLocalUser(c, g, q, listed[c], r, status)
           ELSE Keep(c, g, q, listed[c], r, status) /\ UNCHANGED <<phase, dying>>
    BY <1>2, <1>3, <1>4, <1>5 DEF MrUser
  <1>8. /\ BlackOK([queries EXCEPT ![c] = q], listed, r, status)
        /\ r \in [Black -> Nat]
    <2>1. \A b \in asked : status[b] = "conf"
      BY <1>2
    <2>2. /\ queries \in Sets /\ listed \in Sets /\ ref \in [Black -> Nat]
          /\ status \in [Black -> Status] /\ BlackOK(queries, listed, ref, status)
      BY <1>1, AtGate
    <2>3. PICK S \in SUBSET Black : S = asked
      BY <1>6
    <2>4. /\ BlackOK([queries EXCEPT ![c] = queries[c] \cup S], listed,
                     [b \in Black |-> IF b \in S THEN ref[b] + 1 ELSE ref[b]], status)
          /\ [b \in Black |-> IF b \in S THEN ref[b] + 1 ELSE ref[b]] \in [Black -> Nat]
      BY <1>5, <1>6, <2>1, <2>2, <2>3, AddQueries
    <2> QED BY <1>3, <1>5, <2>3, <2>4
  <1>9. PICK l : l = listed[c]
    OBVIOUS
  <1>10. /\ l \in SUBSET Black /\ (\A a, b \in l : a = b)
         /\ [listed EXCEPT ![c] = l] = listed /\ status \in [Black -> Status]
    BY <1>1, <1>9, AtGate DEF Sets
  <1>11. /\ requests' \in [Lookup -> 0..Retries]
         /\ \A i \in Lookup : i[1] # c \/ i[2] = "host" => requests'[i] = requests[i]
         /\ \A b \in Black : requests'[<<c, b>>] > 0 <=> b \in q
    <2>1. /\ requests \in [Lookup -> 0..Retries] /\ Retries \in Nat \ {0}
          /\ \A b \in Black : requests[<<c, b>>] > 0 <=> b \in Q0
      BY <1>1, <1>5, AtGate
    <2>2. Retries \in 0..Retries /\ Retries > 0
      BY <2>1
    <2>3. requests' \in [Lookup -> 0..Retries]
      BY <1>7, <2>1, <2>2
    <2>4. \A i \in Lookup : i[1] # c \/ i[2] = "host" => requests'[i] = requests[i]
      <3>1. "host" \notin asked
        BY <1>6, PreRegAssumption
      <3> QED BY <1>7, <3>1
    <2>5. ASSUME NEW b \in Black PROVE requests'[<<c, b>>] > 0 <=> b \in q
      <3>1. <<c, b>> \in Lookup /\ <<c, b>>[1] = c /\ <<c, b>>[2] = b
        BY Items
      <3>2. requests'[<<c, b>>] = IF b \in asked THEN Retries ELSE requests[<<c, b>>]
        BY <1>7, <3>1
      <3> QED BY <1>5, <2>1, <2>2, <3>2
    <2> QED BY <2>3, <2>4, <2>5
  <1>12. /\ "cookie" \in G0 => "ping" \in G0
         /\ Q0 # {} => "user" \in G0
         /\ c \notin dying => Settled(G0, Q0)
    BY <1>1, <1>4, <1>5, AtGate
  <1>13. PICK D : D = Debts({}, G0, Q0)
    OBVIOUS
  <1>14. "login" \in g <=> "login" \in G0
    BY <1>4
  <1>15. GateMove(c, g, q)
    <2>1. CASE "user" \in G0
      <3>1. g = G0 /\ q = Q0
        BY <1>2, <1>4, <1>5, <2>1
      <3> QED BY <1>4, <1>5, <3>1 DEF GateMove
    <2>2. CASE "user" \notin G0
      <3>1. Q0 = {} /\ q = asked
        BY <1>5, <1>12, <2>2
      <3>2. PICK more : more = IF q # {} THEN {"dnsbl"} ELSE {}
        OBVIOUS
      <3>3. "user" \in D /\ "dnsbl" \notin D
        BY <1>13, <2>2, <3>1, DebtNames DEF Debts
      <3>4. Debts({}, g, q) = (D \ {"user"}) \cup more
        <4>1. ASSUME NEW d PROVE d \in Debts({}, g, q) <=> d \in (D \ {"user"}) \cup more
          BY <1>4, <1>13, <2>2, <3>1, <3>2, DebtNames DEF Debts
        <4> QED BY <4>1
      <3>5. {"user"} \in (SUBSET D) \ {{}} /\ more \in SUBSET {"dnsbl"} /\ "user" \in {"user"}
        <4>1. {"user"} \subseteq D /\ "user" \in {"user"}
          BY <3>3
        <4>2. {"user"} # {}
          BY <4>1
        <4> QED BY <3>2, <4>1, <4>2
      <3>6. \E paid \in (SUBSET D) \ {{}}, m \in SUBSET {"dnsbl"} :
               (m # {} => "user" \in paid) /\ Debts({}, g, q) = (D \ paid) \cup m
        BY <3>4, <3>5
      <3> QED BY <1>4, <1>5, <1>13, <1>14, <3>6 DEF GateMove
    <2> QED BY <2>1, <2>2
  <1>16. ("cookie" \in g => "ping" \in g) /\ "user" \in g
    BY <1>4, <1>12
  <1>17. "nick" \notin got[c] => Settled(g, q)
    <2>1. "nick" \notin got[c] => "nick" \in Debts({}, g, q)
      BY <1>4, DebtNames DEF Debts
    <2> QED BY <1>4, <2>1 DEF Settled
  <1>18. "nick" \in got[c] /\ Ready(g, q) => LastDebt(c)
    <2>1. "nick" \in got[c] /\ Ready(g, q) => D \subseteq {"user"}
      BY <1>4, <1>5, <1>13, DebtNames DEF Debts, Ready
    <2> QED BY <1>4, <1>5, <1>13, <2>1, DebtNames DEF LastDebt
  <1>19. BlackOK([queries EXCEPT ![c] = q], [listed EXCEPT ![c] = l], r, status)
    BY <1>8, <1>10
  <1>20. \/ RegisterLocalUser(c, g, q, l, r, status) /\ (Ready(g, q) => LastDebt(c))
         \/ /\ Keep(c, g, q, l, r, status) /\ UNCHANGED <<phase, dying>>
            /\ c \notin dying => Settled(g, q)
    BY <1>7, <1>9, <1>17, <1>18
  <1>21. \E h \in SUBSET Said : GateStep(c, h, q, l, r, status)
    BY <1>1, <1>4, <1>6, <1>8, <1>10, <1>11, <1>15, <1>16, <1>19, <1>20, RegisterStep
  <1> QED BY <1>6, <1>8, <1>9, <1>21

\* An answer of a blacklist, or none after the last retry.
LEMMA AnswerStep ==
    ASSUME GateInv, NEW c \in Conn, NEW b \in Black, NEW found \in BOOLEAN,
           requests[<<c, b>>] > 0, BlacklistDnsCallback(c, b, found)
    PROVE  \E g \in SUBSET Said, q \in SUBSET Black, l \in SUBSET Black,
              r \in [Black -> Nat], s \in [Black -> Status] : GateStep(c, g, q, l, r, s)
  <1>1. b \in queries[c] /\ phase[c] = "open"
    BY DEF GateInv, RequestsOwned, Asked
  <1>2. UNCHANGED <<auth, hand, reader>>
    BY DEF BlacklistDnsCallback
  <1>3. PICK kept \in BOOLEAN : kept <=> found /\ listed[c] = {}
    OBVIOUS
  <1>4. PICK gone : gone = IF kept THEN {} ELSE {b}
    OBVIOUS
  <1>5. PICK l : l = IF kept THEN {b} ELSE listed[c]
    OBVIOUS
  <1>6. PICK r, s : r = RefDown(ref, gone) /\ s = Unlisted(status, ref, gone)
    OBVIOUS
  <1>7. PICK q, Q0, g : q = queries[c] \ {b} /\ Q0 = queries[c] /\ g = got[c]
    OBVIOUS
  <1>8. /\ requests' = [requests EXCEPT ![<<c, b>>] = 0]
        /\ IF q = {} /\ {"user", "nick"} \subseteq g
           THEN RegisterLocalUser(c, g, q, l, r, s)
           ELSE Keep(c, g, q, l, r, s) /\ UNCHANGED <<phase, dying>>
    <2>1. gone = IF found /\ listed[c] = {} THEN {} ELSE {b}
      BY <1>3, <1>4
    <2>2. l = IF found /\ listed[c] = {} THEN {b} ELSE listed[c]
      BY <1>3, <1>5
    <2> QED BY <1>6, <1>7, <2>1, <2>2 DEF BlacklistDnsCallback
  <1>9. /\ queries \in Sets /\ listed \in Sets /\ ref \in [Black -> Nat]
        /\ status \in [Black -> Status] /\ BlackOK(queries, listed, ref, status)
        /\ g \in SUBSET Said /\ requests \in [Lookup -> 0..Retries] /\ Retries \in Nat \ {0}
        /\ \A a, d \in listed[c] : a = d
    BY <1>1, <1>7, AtGate
  <1>10. /\ \A d \in Black : requests[<<c, d>>] > 0 <=> d \in Q0
         /\ "cookie" \in g => "ping" \in g
         /\ "user" \in g
         /\ c \notin dying => Settled(g, Q0)
    BY <1>1, <1>7, AtGate
  <1>11. Q0 \in SUBSET Black /\ q \in SUBSET Black /\ l \in SUBSET Black /\ b \in Q0
    BY <1>1, <1>5, <1>7, <1>9 DEF Sets
  <1>12. \A a, d \in l : a = d
    BY <1>5, <1>9
  <1>13. /\ BlackOK([queries EXCEPT ![c] = q], [listed EXCEPT ![c] = l], r, s)
         /\ r \in [Black -> Nat] /\ s \in [Black -> Status]
    <2>1. CASE kept
      <3>1. gone = {} /\ l = {b} /\ listed[c] = {}
        BY <1>3, <1>4, <1>5, <2>1
      <3>2. BlackOK([queries EXCEPT ![c] = queries[c] \ {b}], [listed EXCEPT ![c] = {b}], ref, status)
        BY <1>1, <1>9, <3>1, MoveQuery
      <3>3. r = ref /\ s = status
        BY <1>6, <1>9, <3>1 DEF RefDown, Unlisted
      <3> QED BY <1>7, <1>9, <3>1, <3>2, <3>3
    <2>2. CASE ~kept
      <3>1. gone = {b} /\ l = listed[c]
        BY <1>4, <1>5, <2>2
      <3>2. PICK S \in SUBSET queries[c] : S = {b}
        BY <1>1
      <3>3. /\ BlackOK([queries EXCEPT ![c] = queries[c] \ S], listed, RefDown(ref, S), Unlisted(status, ref, S))
            /\ RefDown(ref, S) \in [Black -> Nat] /\ Unlisted(status, ref, S) \in [Black -> Status]
        BY <1>9, DropQueries
      <3>4. [listed EXCEPT ![c] = l] = listed
        BY <1>9, <3>1 DEF Sets
      <3> QED BY <1>6, <1>7, <3>1, <3>2, <3>3, <3>4
    <2> QED BY <2>1, <2>2
  <1>14. /\ requests' \in [Lookup -> 0..Retries]
         /\ \A i \in Lookup : i[1] # c \/ i[2] = "host" => requests'[i] = requests[i]
         /\ \A d \in Black : requests'[<<c, d>>] > 0 <=> d \in q
    <2>1. 0 \in 0..Retries
      BY <1>9
    <2>2. requests' \in [Lookup -> 0..Retries]
      BY <1>8, <1>9, <2>1
    <2>3. <<c, b>> \in Lookup /\ b # "host"
      BY Items
    <2>4. \A i \in Lookup : i[1] # c \/ i[2] = "host" => requests'[i] = requests[i]
      BY <1>8, <1>9, <2>3
    <2>5. ASSUME NEW d \in Black PROVE requests'[<<c, d>>] > 0 <=> d \in q
      <3>1. <<c, d>> \in Lookup /\ (<<c, d>> = <<c, b>> <=> d = b)
        BY Items
      <3>2. requests'[<<c, d>>] = IF d = b THEN 0 ELSE requests[<<c, d>>]
        BY <1>8, <1>9, <3>1
      <3> QED BY <1>7, <1>10, <3>2
    <2> QED BY <2>2, <2>4, <2>5
  <1>15. PICK D : D = Debts({}, g, Q0)
    OBVIOUS
  <1>16. GateMove(c, g, q)
    <2>1. CASE q = {}
      <3>1. Debts({}, g, q) = D \ {"dnsbl"}
        BY <1>15, <2>1, DebtNames DEF Debts
      <3> QED BY <1>7, <1>15, <3>1, PayOne
    <2>2. CASE q # {}
      <3>1. Debts({}, g, q) = D
        BY <1>11, <1>15, <2>2, DebtNames DEF Debts
      <3> QED BY <1>7, <1>15, <3>1 DEF GateMove
    <2> QED BY <2>1, <2>2
  <1>17. CASE q = {} /\ {"user", "nick"} \subseteq g
    <2>1. Ready(g, q) => LastDebt(c)
      <3>1. Ready(g, q) => D \subseteq {"dnsbl"}
        BY <1>15, <1>17, DebtNames DEF Debts, Ready
      <3> QED BY <1>7, <1>15, <3>1, DebtNames DEF LastDebt
    <2>2. RegisterLocalUser(c, g, q, l, r, s)
      BY <1>8, <1>17
    <2>3. \E h \in SUBSET Said : GateStep(c, h, q, l, r, s)
      BY <1>1, <1>2, <1>9, <1>10, <1>11, <1>12, <1>13, <1>14, <1>16, <2>1, <2>2, RegisterStep
    <2> QED BY <1>11, <1>13, <2>3
  <1>18. CASE ~(q = {} /\ {"user", "nick"} \subseteq g)
    <2>1. c \notin dying => Settled(g, q)
      <3>1. "nick" \in Debts({}, g, q) \/ "user" \in Debts({}, g, q) \/ "dnsbl" \in Debts({}, g, q)
        BY <1>18, DebtNames DEF Debts
      <3> QED BY <1>10, <3>1 DEF Settled
    <2>2. Keep(c, g, q, l, r, s) /\ UNCHANGED <<phase, dying>>
      BY <1>8, <1>18
    <2>3. \E h \in SUBSET Said : GateStep(c, h, q, l, r, s)
      BY <1>1, <1>2, <1>9, <1>10, <1>11, <1>12, <1>13, <1>14, <1>16, <2>1, <2>2, RegisterStep
    <2> QED BY <1>11, <1>13, <2>3
  <1> QED BY <1>17, <1>18

-----------------------------------------------------------------------------
(* The invariant, connection by connection.                                *)

\* Everything of the invariant that is about c alone.
Stands(c) ==
    /\ Asked(c, "host") <=> auth[c] \cap Dns # {} \/ hand = <<c, "host">>
    /\ auth[c] # {} <=> phase[c] = "lookup"
    /\ \A b \in Black : Asked(c, b) <=> b \in queries[c]
    /\ queries[c] \cup listed[c] # {} => phase[c] = "open"
    /\ phase[c] \in {"none", "lookup"} => got[c] = {}
    /\ c \in dying => phase[c] \in {"lookup", "open"}
    /\ queries[c] # {} => "user" \in got[c]
    /\ "cookie" \in got[c] => "ping" \in got[c]
    /\ Waits(c) /\ PingCookie /\ {"nick", "user"} \subseteq got[c] => "ping" \in got[c]
    /\ Waits(c) => Owes(c) # {}

LoopType ==
    /\ loop \in [next : Item \cup {NoItem}, rest : SUBSET Item, ousted : SUBSET Conn]
    /\ others \in 0..MaxOthers

\* The rest of TypeOK.
Shape ==
    /\ phase \in [Conn -> Phase]
    /\ auth \in [Conn -> SUBSET Pending]
    /\ got \in [Conn -> SUBSET Said]
    /\ queries \in Sets /\ listed \in Sets
    /\ \A c \in Conn : \A a, b \in listed[c] : a = b
    /\ status \in [Black -> Status]
    /\ ref \in [Black -> Nat]
    /\ requests \in [Lookup -> 0..Retries]
    /\ hand \in Lookup \cup {NoItem}
    /\ reader \in Conn \cup {NoConn}
    /\ dying \subseteq Conn

\* GateInv, taken apart.
LEMMA Parts ==
    ASSUME GateInv
    PROVE  /\ Shape /\ LoopType /\ BlackOK(queries, listed, ref, status) /\ Hands
           /\ \A c \in Conn : Stands(c)
  <1>1. Shape /\ LoopType
    BY DEF GateInv, TypeOK, Shape, LoopType, Sets
  <1>2. BlackOK(queries, listed, ref, status) /\ Hands
    BY DEF GateInv, BlackRefs, Holders, BlackOK, RefOK, HoldersIn
  <1>3. ASSUME NEW c \in Conn PROVE Stands(c)
    BY DEF GateInv, RequestsOwned, SaidInTime, AskedInTime, NobodyForgotten, Stands
  <1> QED BY <1>1, <1>2, <1>3


\* GateInv after a step, put together.
LEMMA PartsMakeNext ==
    Shape' /\ LoopType' /\ BlackOK(queries', listed', ref', status') /\ Hands'
        /\ (\A c \in Conn : Stands(c)')
    => GateInv'
  <1> SUFFICES ASSUME Shape', LoopType', BlackOK(queries', listed', ref', status'), Hands',
                      \A c \in Conn : Stands(c)'
               PROVE  GateInv'
    OBVIOUS
  <1>1. TypeOK'
    BY DEF TypeOK, Shape, LoopType, Sets
  <1>2. BlackRefs'
    BY DEF BlackRefs, Holders, BlackOK, RefOK, HoldersIn
  <1>3. RequestsOwned'
    BY DEF RequestsOwned, Stands
  <1>4. SaidInTime' /\ AskedInTime' /\ NobodyForgotten'
    BY DEF SaidInTime, AskedInTime, NobodyForgotten, Stands
  <1> QED BY <1>1, <1>2, <1>3, <1>4 DEF GateInv

\* As OwesDebts, after a step.
LEMMA OwesDebtsNext ==
    ASSUME NEW c \in Conn,
           PingCookie /\ {"nick", "user"} \subseteq got'[c] => "ping" \in got'[c]
    PROVE  Owes(c)' = Debts(auth'[c], got'[c], queries'[c])
  <1>1. OwesCookie(c)' <=> PingCookie /\ "cookie" \notin got'[c]
    BY DEF OwesCookie
  <1>2. ASSUME NEW d, d \in Owes(c)' PROVE d \in Debts(auth'[c], got'[c], queries'[c])
    BY <1>1, <1>2, DebtNames DEF Owes, Debts
  <1>3. ASSUME NEW d, d \in Debts(auth'[c], got'[c], queries'[c]) PROVE d \in Owes(c)'
    BY <1>1, <1>3, DebtNames DEF Owes, Debts
  <1> QED BY <1>2, <1>3

\* A step that leaves c alone.
Same(c) ==
    /\ phase'[c] = phase[c] /\ auth'[c] = auth[c] /\ got'[c] = got[c]
    /\ queries'[c] = queries[c] /\ listed'[c] = listed[c]
    /\ \A k \in {"host"} \cup Black : requests'[<<c, k>>] > 0 <=> requests[<<c, k>>] > 0
    /\ c \in dying' <=> c \in dying
    /\ hand' = <<c, "host">> <=> hand = <<c, "host">>

\* How c stands at the gate.
GP(c) ==
    IF Unregistered(c) THEN IF c \in dying THEN "leaving" ELSE "waiting"
    ELSE IF phase[c] = "user" THEN "in" ELSE phase[c]

GO(c) == IF Waits(c) THEN Owes(c) ELSE {}

GV(c) == Waits(c) /\ "login" \in got[c]

\* Whoever is left alone stands as before.
LEMMA SameStands ==
    ASSUME NEW c \in Conn, Stands(c), Same(c)
    PROVE  Stands(c)' /\ GP(c)' = GP(c) /\ GO(c)' = GO(c) /\ (GV(c)' <=> GV(c))
  <1>1. /\ phase'[c] = phase[c] /\ auth'[c] = auth[c] /\ got'[c] = got[c]
        /\ queries'[c] = queries[c] /\ listed'[c] = listed[c]
        /\ c \in dying' <=> c \in dying
        /\ hand' = <<c, "host">> <=> hand = <<c, "host">>
    BY DEF Same
  <1>2. Owes(c)' = Owes(c) /\ (Waits(c)' <=> Waits(c)) /\ (Unregistered(c)' <=> Unregistered(c))
    BY <1>1 DEF Owes, OwesCookie, Waits, Unregistered
  <1>3. (Asked(c, "host")' <=> Asked(c, "host")) /\ \A b \in Black : Asked(c, b)' <=> Asked(c, b)
    BY DEF Same, Asked
  <1>4. GP(c)' = GP(c) /\ GO(c)' = GO(c) /\ (GV(c)' <=> GV(c))
    BY <1>1, <1>2 DEF GP, GO, GV
  <1>5. Stands(c)'
    BY <1>1, <1>2, <1>3 DEF Stands
  <1> QED BY <1>4, <1>5


\* If all but c are left alone, the gate sees c move.
LEMMA OneMoves ==
    ASSUME NEW c \in Conn, \A d \in Conn : Stands(d), \A d \in Conn \ {c} : Same(d)
    PROVE  /\ GatePhase' = [GatePhase EXCEPT ![c] = GP(c)']
           /\ GateOwes' = [GateOwes EXCEPT ![c] = GO(c)']
           /\ GateVouched' = IF GV(c)' THEN GateVouched \cup {c} ELSE GateVouched \ {c}
           /\ GatePhase[c] = GP(c) /\ GateOwes[c] = GO(c) /\ (c \in GateVouched <=> GV(c))
           /\ \A d \in Conn \ {c} : Stands(d)'
  <1>1. \A d \in Conn \ {c} : Stands(d)' /\ GP(d)' = GP(d) /\ GO(d)' = GO(d) /\ (GV(d)' <=> GV(d))
    BY SameStands
  <1>2. GatePhase = [d \in Conn |-> GP(d)] /\ GatePhase' = [d \in Conn |-> GP(d)']
    BY DEF GatePhase, GP
  <1>3. GateOwes = [d \in Conn |-> GO(d)] /\ GateOwes' = [d \in Conn |-> GO(d)']
    BY DEF GateOwes, GO
  <1>4. GateVouched = {d \in Conn : GV(d)} /\ GateVouched' = {d \in Conn : GV(d)'}
    BY DEF GateVouched, GV
  <1>5. GatePhase' = [GatePhase EXCEPT ![c] = GP(c)'] /\ GatePhase[c] = GP(c)
    BY <1>1, <1>2
  <1>6. GateOwes' = [GateOwes EXCEPT ![c] = GO(c)'] /\ GateOwes[c] = GO(c)
    BY <1>1, <1>3
  <1>7. /\ GateVouched' = IF GV(c)' THEN GateVouched \cup {c} ELSE GateVouched \ {c}
        /\ c \in GateVouched <=> GV(c)
    BY <1>1, <1>4
  <1> QED BY <1>1, <1>5, <1>6, <1>7

\* A step that leaves all alone.
LEMMA NoneMoves ==
    ASSUME \A d \in Conn : Stands(d), \A d \in Conn : Same(d)
    PROVE  UNCHANGED G!vars /\ \A d \in Conn : Stands(d)'
  <1>1. \A d \in Conn : Stands(d)' /\ GP(d)' = GP(d) /\ GO(d)' = GO(d) /\ (GV(d)' <=> GV(d))
    BY SameStands
  <1>2. GatePhase = [d \in Conn |-> GP(d)] /\ GatePhase' = [d \in Conn |-> GP(d)']
    BY DEF GatePhase, GP
  <1>3. GateOwes = [d \in Conn |-> GO(d)] /\ GateOwes' = [d \in Conn |-> GO(d)']
    BY DEF GateOwes, GO
  <1>4. GateVouched = {d \in Conn : GV(d)} /\ GateVouched' = {d \in Conn : GV(d)'}
    BY DEF GateVouched, GV
  <1> QED BY <1>1, <1>2, <1>3, <1>4 DEF G!vars

-----------------------------------------------------------------------------
(* The steps at the gate.                                                  *)

\* All but c stand where they stood.
LEMMA GateFrame ==
    ASSUME GateInv, NEW c \in Conn, NEW g, NEW q, NEW l, NEW r, NEW s,
           GateStep(c, g, q, l, r, s)
    PROVE  \A d \in Conn \ {c} : Same(d)
  <1> SUFFICES ASSUME NEW d \in Conn, d # c PROVE Same(d)
    OBVIOUS
  <1>1. Shape
    BY Parts
  <1>2. auth' = auth /\ hand' = hand
    BY DEF GateStep
  <1>3. \A k \in {"host"} \cup Black : requests'[<<d, k>>] = requests[<<d, k>>]
    <2>1. \A k \in {"host"} \cup Black : <<d, k>> \in Lookup /\ <<d, k>>[1] # c
      BY DEF Lookup
    <2> QED BY <2>1 DEF GateStep
  <1>4. phase'[d] = phase[d] /\ (d \in dying' <=> d \in dying)
    BY <1>1 DEF GateStep, Conclude, Shape
  <1>5. got'[d] = got[d] /\ queries'[d] = queries[d] /\ listed'[d] = listed[d]
    BY <1>1 DEF GateStep, Conclude, Keep, Shape, Sets
  <1> QED BY <1>2, <1>3, <1>4, <1>5 DEF Same

\* c stays: it has paid, or asked for something, or died before.
LEMMA GateStay ==
    ASSUME GateInv, LoopType', NEW c \in Conn, NEW g, NEW q, NEW l, NEW r, NEW s,
           GateStep(c, g, q, l, r, s), Keep(c, g, q, l, r, s), UNCHANGED <<phase, dying>>,
           c \notin dying => Settled(g, q) /\ GateMove(c, g, q)
    PROVE  GateInv' /\ [G!Next]_(G!vars)
  <1>1. Shape /\ Hands /\ (\A d \in Conn : Stands(d)) /\ phase[c] = "open"
    BY Parts DEF GateStep
  <1>2. /\ got'[c] = g /\ queries'[c] = q /\ listed'[c] = l
        /\ got' = [got EXCEPT ![c] = g]
        /\ queries' = [queries EXCEPT ![c] = q]
        /\ listed' = [listed EXCEPT ![c] = l]
        /\ ref' = r /\ status' = s /\ phase' = phase /\ dying' = dying
        /\ auth' = auth /\ hand' = hand /\ reader' = reader
    BY <1>1 DEF Keep, Shape, Sets, GateStep
  <1>3. auth[c] = {} /\ auth'[c] = {}
    BY <1>1, <1>2 DEF Stands
  <1>4. c \notin dying => Owes(c) = Debts({}, got[c], queries[c]) /\ Owes(c)' = Debts({}, g, q)
    <2>1. c \notin dying => Waits(c)
      BY <1>1 DEF Waits, Unregistered
    <2>2. c \notin dying => Owes(c) = Debts({}, got[c], queries[c])
      BY <1>1, <1>3, <2>1, OwesDebts DEF Stands
    <2>3. c \notin dying => Owes(c)' = Debts({}, g, q)
      BY <1>2, <1>3, OwesDebtsNext DEF Settled
    <2> QED BY <2>2, <2>3
  <1>5. Stands(c)'
    <2>1. Asked(c, "host")' <=> auth'[c] \cap Dns # {} \/ hand' = <<c, "host">>
      <3>1. Asked(c, "host")' <=> Asked(c, "host")
        BY Items DEF GateStep, Asked
      <3> QED BY <1>1, <1>2, <1>3, <3>1 DEF Stands
    <2>2. \A b \in Black : Asked(c, b)' <=> b \in queries'[c]
      BY <1>2 DEF GateStep, Asked
    <2>3. /\ auth'[c] # {} <=> phase'[c] = "lookup"
          /\ queries'[c] \cup listed'[c] # {} => phase'[c] = "open"
          /\ phase'[c] \in {"none", "lookup"} => got'[c] = {}
          /\ c \in dying' => phase'[c] \in {"lookup", "open"}
      BY <1>1, <1>2, <1>3
    <2>4. /\ queries'[c] # {} => "user" \in got'[c]
          /\ "cookie" \in got'[c] => "ping" \in got'[c]
      BY <1>2 DEF GateStep
    <2>5. Waits(c)' => c \notin dying
      BY <1>2 DEF Waits
    <2>6. /\ Waits(c)' /\ PingCookie /\ {"nick", "user"} \subseteq got'[c] => "ping" \in got'[c]
          /\ Waits(c)' => Owes(c)' # {}
      BY <1>2, <1>4, <2>5 DEF Settled
    <2> QED BY <2>1, <2>2, <2>3, <2>4, <2>6 DEF Stands
  <1>6. \A d \in Conn \ {c} : Same(d)
    BY GateFrame
  <1>7. \A d \in Conn : Stands(d)'
    BY <1>1, <1>5, <1>6, SameStands
  <1>8. Shape'
    BY <1>1, <1>2 DEF Shape, GateStep, Sets
  <1>9. BlackOK(queries', listed', ref', status')
    BY <1>2 DEF GateStep
  <1>10. Hands'
    BY <1>1, <1>2 DEF Hands
  <1>11. GateInv'
    BY <1>7, <1>8, <1>9, <1>10, PartsMakeNext
  <1>12. /\ GP(c)' = GP(c) /\ (GP(c) = "waiting" <=> c \notin dying)
         /\ GO(c) = IF c \in dying THEN {} ELSE Owes(c)
         /\ GO(c)' = IF c \in dying THEN {} ELSE Owes(c)'
         /\ GV(c) <=> c \notin dying /\ "login" \in got[c]
         /\ GV(c)' <=> c \notin dying /\ "login" \in g
    BY <1>1, <1>2 DEF GP, GO, GV, Waits, Unregistered
  <1>13. /\ GatePhase' = [GatePhase EXCEPT ![c] = GP(c)']
         /\ GateOwes' = [GateOwes EXCEPT ![c] = GO(c)']
         /\ GateVouched' = IF GV(c)' THEN GateVouched \cup {c} ELSE GateVouched \ {c}
         /\ GatePhase[c] = GP(c) /\ GateOwes[c] = GO(c) /\ (c \in GateVouched <=> GV(c))
    BY <1>1, <1>6, OneMoves
  <1>14. GatePhase' = GatePhase
    BY <1>12, <1>13 DEF GatePhase
  <1>15. CASE c \in dying
    <2>1. UNCHANGED G!vars
      BY <1>12, <1>13, <1>14, <1>15 DEF G!vars, GateOwes
    <2> QED BY <1>11, <2>1
  <1>16. CASE c \notin dying
    <2>1. PICK D, E : D = Debts({}, got[c], queries[c]) /\ E = Debts({}, g, q)
      OBVIOUS
    <2>2. /\ GateOwes[c] = D /\ GateOwes' = [GateOwes EXCEPT ![c] = E]
          /\ GatePhase[c] = "waiting" /\ E # {}
      BY <1>4, <1>12, <1>13, <1>16, <2>1 DEF Settled
    <2>3. G!Heard(c)
      <3>1. D \cap G!Lookups = {}
        BY <2>1, DebtNames DEF Debts
      <3> QED BY <2>2, <3>1 DEF G!Heard
    <2>4. "login" \in got[c] => "login" \in g
      BY <1>16 DEF GateMove
    <2>5. CASE E = D
      <3>1. GateOwes' = GateOwes
        BY <2>2, <2>5 DEF GateOwes
      <3>2. CASE "login" \in g
        <4>1. GateVouched' = GateVouched \cup {c}
          BY <1>12, <1>13, <1>16, <3>2
        <4>2. G!Vouch(c)
          BY <1>14, <2>3, <3>1, <4>1 DEF G!Vouch
        <4> QED BY <1>11, <4>2 DEF G!Next
      <3>3. CASE "login" \notin g
        <4>1. GateVouched' = GateVouched
          BY <1>12, <1>13, <1>16, <2>4, <3>3
        <4> QED BY <1>11, <1>14, <3>1, <4>1 DEF G!vars
      <3> QED BY <3>2, <3>3
    <2>6. CASE /\ "login" \in g => "login" \in got[c]
               /\ \/ E = D \cup {"cap"}
                  \/ \E paid \in (SUBSET D) \ {{}}, more \in SUBSET {"dnsbl"} :
                        /\ more # {} => "user" \in paid
                        /\ E = (D \ paid) \cup more
      <3>1. GateVouched' = GateVouched
        BY <1>12, <1>13, <1>16, <2>4, <2>6
      <3>2. CASE E = D \cup {"cap"}
        <4>1. G!Negotiate(c)
          BY <1>14, <2>2, <2>3, <3>1, <3>2 DEF G!Negotiate
        <4> QED BY <1>11, <4>1 DEF G!Next
      <3>3. CASE \E paid \in (SUBSET D) \ {{}}, more \in SUBSET {"dnsbl"} :
                    /\ more # {} => "user" \in paid
                    /\ E = (D \ paid) \cup more
        <4>1. G!Pay(c)
          BY <1>14, <2>2, <2>3, <3>1, <3>3 DEF G!Pay
        <4> QED BY <1>11, <4>1 DEF G!Next
      <3> QED BY <2>6, <3>2, <3>3
    <2> QED BY <1>16, <2>1, <2>5, <2>6 DEF GateMove
  <1> QED BY <1>15, <1>16

\* c goes in, is sent away, or dies at the gate.
LEMMA GateConclude ==
    ASSUME GateInv, LoopType', NEW c \in Conn, NEW g, NEW q, NEW l, NEW r, NEW s,
           GateStep(c, g, q, l, r, s), Conclude(c, g, l, r, s),
           q = {}, c \notin dying, LastDebt(c)
    PROVE  GateInv' /\ [G!Next]_(G!vars)
  <1>1. Shape /\ Hands /\ (\A d \in Conn : Stands(d)) /\ phase[c] = "open"
    BY Parts DEF GateStep
  <1>2. /\ auth' = auth /\ hand' = hand /\ reader' = reader /\ queries' = [queries EXCEPT ![c] = {}]
        /\ queries'[c] = {}
    BY <1>1 DEF Conclude, Keep, GateStep, Shape, Sets
  <1>3. auth[c] = {} /\ auth'[c] = {}
    BY <1>1, <1>2 DEF Stands
  <1>4. /\ \A a, b \in l : a = b
        /\ BlackOK([queries EXCEPT ![c] = {}], [listed EXCEPT ![c] = l], r, s)
        /\ l \in SUBSET Black /\ g \in SUBSET Said
        /\ r \in [Black -> Nat] /\ s \in [Black -> Status]
        /\ requests' \in [Lookup -> 0..Retries]
        /\ "cookie" \in g => "ping" \in g
    BY DEF GateStep
  <1>5. /\ Asked(c, "host")' <=> Asked(c, "host")
        /\ \A b \in Black : ~Asked(c, b)'
    BY Items DEF GateStep, Asked
  <1>6. \/ /\ phase' = [phase EXCEPT ![c] = "user"] /\ dying' = dying
           /\ Keep(c, g, {}, {}, RefDown(r, l), Unlisted(s, r, l))
        \/ /\ phase' = [phase EXCEPT ![c] = "gone"] /\ dying' = dying
           /\ Keep(c, {}, {}, {}, RefDown(r, l), Unlisted(s, r, l))
        \/ /\ Keep(c, g, {}, l, r, s) /\ dying' = dying \cup {c} /\ phase' = phase
    BY DEF Conclude
  <1>7. PICK p, h, k : /\ phase' = [phase EXCEPT ![c] = p] /\ got' = [got EXCEPT ![c] = h]
                       /\ listed' = [listed EXCEPT ![c] = k]
                       /\ h \in {g, {}} /\ k \in {{}, l}
                       /\ \/ p \in {"user", "gone"} /\ dying' = dying /\ k = {}
                          \/ p = "open" /\ dying' = dying \cup {c}
    <2>1. phase = [phase EXCEPT ![c] = "open"]
      BY <1>1 DEF Shape
    <2> QED BY <1>6, <2>1 DEF Keep
  <1>8. phase'[c] = p /\ got'[c] = h /\ listed'[c] = k
    BY <1>1, <1>7 DEF Shape, Sets
  <1>9. ref' \in [Black -> Nat] /\ status' \in [Black -> Status] /\ BlackOK(queries', listed', ref', status')
    <2>1. CASE Keep(c, g, {}, l, r, s)
      BY <1>4, <2>1 DEF Keep
    <2>2. CASE \E j : Keep(c, j, {}, {}, RefDown(r, l), Unlisted(s, r, l))
      <3>1. PICK Q, L : Q = [queries EXCEPT ![c] = {}] /\ L = [listed EXCEPT ![c] = l]
        OBVIOUS
      <3>2. Q \in Sets /\ L \in Sets /\ L[c] = l /\ BlackOK(Q, L, r, s)
        BY <1>1, <1>4, <3>1 DEF Shape, Sets
      <3>3. /\ BlackOK(Q, [L EXCEPT ![c] = {}], RefDown(r, l), Unlisted(s, r, l))
            /\ RefDown(r, l) \in [Black -> Nat] /\ Unlisted(s, r, l) \in [Black -> Status]
        BY <1>4, <3>2, DropListing
      <3>4. [L EXCEPT ![c] = {}] = [listed EXCEPT ![c] = {}]
        BY <3>1
      <3> QED BY <2>2, <3>1, <3>3, <3>4 DEF Keep
    <2> QED BY <1>6, <2>1, <2>2
  <1>10. Stands(c)'
    <2>1. Asked(c, "host")' <=> auth'[c] \cap Dns # {} \/ hand' = <<c, "host">>
      BY <1>1, <1>2, <1>3, <1>5 DEF Stands
    <2>2. \A b \in Black : Asked(c, b)' <=> b \in queries'[c]
      BY <1>2, <1>5
    <2>3. /\ auth'[c] # {} <=> phase'[c] = "lookup"
          /\ queries'[c] \cup listed'[c] # {} => phase'[c] = "open"
          /\ phase'[c] \in {"none", "lookup"} => got'[c] = {}
          /\ c \in dying' => phase'[c] \in {"lookup", "open"}
      BY <1>2, <1>3, <1>7, <1>8
    <2>4. /\ queries'[c] # {} => "user" \in got'[c]
          /\ "cookie" \in got'[c] => "ping" \in got'[c]
      BY <1>2, <1>4, <1>7, <1>8
    <2>5. ~Waits(c)'
      BY <1>7, <1>8 DEF Waits, Unregistered
    <2> QED BY <2>1, <2>2, <2>3, <2>4, <2>5 DEF Stands
  <1>11. \A d \in Conn \ {c} : Same(d)
    BY GateFrame
  <1>12. \A d \in Conn : Stands(d)'
    BY <1>1, <1>10, <1>11, SameStands
  <1>13. Shape'
    <2>1. phase' \in [Conn -> Phase] /\ auth' \in [Conn -> SUBSET Pending]
      BY <1>1, <1>2, <1>7 DEF Shape, Phase
    <2>2. got' \in [Conn -> SUBSET Said] /\ queries' \in Sets /\ listed' \in Sets
      BY <1>1, <1>2, <1>4, <1>7 DEF Shape, Sets
    <2>3. \A d \in Conn : \A a, b \in listed'[d] : a = b
      BY <1>1, <1>4, <1>7 DEF Shape, Sets
    <2>4. requests' \in [Lookup -> 0..Retries] /\ dying' \subseteq Conn
      BY <1>1, <1>4, <1>7 DEF Shape
    <2>5. hand' \in Lookup \cup {NoItem} /\ reader' \in Conn \cup {NoConn}
      BY <1>1, <1>2 DEF Shape
    <2> QED BY <1>9, <2>1, <2>2, <2>3, <2>4, <2>5 DEF Shape
  <1>14. Hands'
    <2>1. reader # NoConn => phase'[reader] # "lookup"
      BY <1>1, <1>7, <1>8 DEF Hands, Shape
    <2> QED BY <1>1, <1>2, <2>1 DEF Hands
  <1>15. GateInv'
    BY <1>9, <1>12, <1>13, <1>14, PartsMakeNext
  <1>16. /\ GP(c)' = (IF p = "open" THEN "leaving" ELSE IF p = "user" THEN "in" ELSE "gone")
         /\ GO(c)' = {} /\ ~GV(c)'
         /\ GP(c) = "waiting" /\ GO(c) = Owes(c) /\ (GV(c) <=> "login" \in got[c])
    BY <1>1, <1>7, <1>8 DEF GP, GO, GV, Waits, Unregistered
  <1>17. Owes(c) = Debts({}, got[c], queries[c])
    <2>1. Waits(c)
      BY <1>1 DEF Waits, Unregistered
    <2> QED BY <1>1, <1>3, <2>1, OwesDebts DEF Stands
  <1>18. /\ GatePhase' = [GatePhase EXCEPT ![c] = GP(c)']
         /\ GateOwes' = [GateOwes EXCEPT ![c] = {}]
         /\ GateVouched' = GateVouched \ {c}
         /\ GatePhase[c] = "waiting" /\ GateOwes[c] = Debts({}, got[c], queries[c])
         /\ c \in GateVouched <=> "login" \in got[c]
    BY <1>1, <1>11, <1>16, <1>17, OneMoves
  <1>19. G!Decide(c)
    <2>1. G!Heard(c)
      <3>1. Debts({}, got[c], queries[c]) \cap G!Lookups = {}
        BY DebtNames DEF Debts
      <3> QED BY <1>18, <3>1 DEF G!Heard
    <2>2. \E last \in G!Debt :
              GateOwes[c] \subseteq {last} \cup (IF c \in GateVouched THEN {"user"} ELSE {})
      BY <1>18 DEF LastDebt
    <2>3. \E x \in {"in", "gone", "leaving"} : G!End(c, x)
      BY <1>16, <1>18 DEF G!End
    <2> QED BY <2>1, <2>2, <2>3 DEF G!Decide
  <1> QED BY <1>15, <1>19 DEF G!Next

\* What a handler at the gate does is right.
LEMMA GateStepKeeps ==
    ASSUME GateInv, LoopType', NEW c \in Conn, NEW g, NEW q, NEW l, NEW r, NEW s,
           GateStep(c, g, q, l, r, s)
    PROVE  GateInv' /\ [G!Next]_(G!vars)
  <1>1. CASE /\ Keep(c, g, q, l, r, s) /\ UNCHANGED <<phase, dying>>
             /\ c \notin dying => Settled(g, q) /\ GateMove(c, g, q)
    BY <1>1, GateStay
  <1>2. CASE /\ Conclude(c, g, l, r, s)
             /\ q = {} /\ c \notin dying /\ LastDebt(c)
    BY <1>2, GateConclude
  <1> QED BY <1>1, <1>2 DEF GateStep

-----------------------------------------------------------------------------
(* The other steps.                                                        *)

\* One that no connection notices.
LEMMA Quiet ==
    ASSUME GateInv, LoopType', \A d \in Conn : Same(d),
           UNCHANGED <<phase, got, queries, listed, dying>>,
           auth' \in [Conn -> SUBSET Pending],
           ref' \in [Black -> Nat], status' \in [Black -> Status],
           BlackOK(queries, listed, ref', status'),
           requests' \in [Lookup -> 0..Retries],
           hand' \in Lookup \cup {NoItem}, reader' \in Conn \cup {NoConn}, Hands'
    PROVE  GateInv' /\ [G!Next]_(G!vars)
  <1>1. Shape /\ (\A d \in Conn : Stands(d))
    BY Parts
  <1>2. UNCHANGED G!vars /\ \A d \in Conn : Stands(d)'
    BY <1>1, NoneMoves
  <1>3. Shape'
    BY <1>1 DEF Shape
  <1>4. BlackOK(queries', listed', ref', status')
    OBVIOUS
  <1>5. GateInv'
    BY <1>2, <1>3, <1>4, PartsMakeNext
  <1> QED BY <1>2, <1>5

\* One or both of the lookups of c end.
LEMMA Release ==
    ASSUME GateInv, LoopType', NEW c \in Conn, NEW a \in SUBSET auth[c], a # auth[c],
           \/ a = auth[c] \ Ident
           \/ a = auth[c] \ Dns
           \/ a = {},
           ReleaseAuthClient(c, a), UNCHANGED <<got, queries, listed, ref, status, dying>>,
           reader = NoConn,
           requests' \in [Lookup -> 0..Retries],
           \A i \in Lookup : i # <<c, "host">> => requests'[i] = requests[i],
           requests'[<<c, "host">>] > 0 <=> a \cap Dns # {} \/ hand' = <<c, "host">>,
           hand' \in {NoItem, <<c, "host">>}, hand' # NoItem => reader' = c
    PROVE  GateInv' /\ [G!Next]_(G!vars)
  <1>1. Shape /\ Hands /\ (\A d \in Conn : Stands(d)) /\ BlackOK(queries, listed, ref, status)
    BY Parts
  <1>2. phase[c] = "lookup" /\ hand = NoItem /\ got[c] = {} /\ queries[c] = {} /\ listed[c] = {}
    BY <1>1 DEF Stands, Hands
  <1>3. PICK p : /\ phase' = [phase EXCEPT ![c] = p] /\ p = (IF a = {} THEN "open" ELSE "lookup")
                 /\ auth' = [auth EXCEPT ![c] = a]
                 /\ reader' \in {c, NoConn} /\ (reader' = c => a = {})
    <2>1. phase = [phase EXCEPT ![c] = "lookup"]
      BY <1>1, <1>2 DEF Shape
    <2>2. c # NoConn
      BY Items
    <2> QED BY <2>1, <2>2 DEF ReleaseAuthClient
  <1>4. /\ phase'[c] = p /\ auth'[c] = a /\ got'[c] = {} /\ queries'[c] = {} /\ listed'[c] = {}
        /\ c \in dying' <=> c \in dying
    BY <1>1, <1>2, <1>3 DEF Shape
  <1>5. Owes(c) = Debts(auth[c], {}, {}) /\ Owes(c)' = Debts(a, {}, {})
    BY <1>2, <1>4, OwesDebts, OwesDebtsNext
  <1>6. Stands(c)'
    <2>1. Asked(c, "host")' <=> auth'[c] \cap Dns # {} \/ hand' = <<c, "host">>
      BY <1>4 DEF Asked
    <2>2. \A b \in Black : Asked(c, b)' <=> b \in queries'[c]
      <3>1. \A b \in Black : Asked(c, b) <=> b \in queries[c]
        BY <1>1 DEF Stands
      <3> QED BY <1>2, <1>4, <3>1, Items DEF Asked
    <2>3. /\ auth'[c] # {} <=> phase'[c] = "lookup"
          /\ queries'[c] \cup listed'[c] # {} => phase'[c] = "open"
          /\ phase'[c] \in {"none", "lookup"} => got'[c] = {}
          /\ c \in dying' => phase'[c] \in {"lookup", "open"}
          /\ queries'[c] # {} => "user" \in got'[c]
          /\ "cookie" \in got'[c] => "ping" \in got'[c]
      BY <1>3, <1>4
    <2>4. Owes(c)' # {}
      <3>1. "nick" \in Debts(a, {}, {})
        BY DebtNames DEF Debts
      <3> QED BY <1>5, <3>1
    <2> QED BY <1>4, <2>1, <2>2, <2>3, <2>4 DEF Stands
  <1>7. \A d \in Conn \ {c} : Same(d)
    <2> SUFFICES ASSUME NEW d \in Conn, d # c PROVE Same(d)
      OBVIOUS
    <2>1. \A k \in {"host"} \cup Black : <<d, k>> \in Lookup /\ <<d, k>> # <<c, "host">>
      BY DEF Lookup
    <2>2. \A k \in {"host"} \cup Black : requests'[<<d, k>>] = requests[<<d, k>>]
      BY <2>1
    <2>3. hand # <<d, "host">> /\ hand' # <<d, "host">>
      BY <1>2, <2>1, Items
    <2> QED BY <1>1, <1>3, <2>2, <2>3 DEF Same, Shape
  <1>8. \A d \in Conn : Stands(d)'
    BY <1>1, <1>6, <1>7, SameStands
  <1>9. Shape'
    <2>1. phase' \in [Conn -> Phase] /\ auth' \in [Conn -> SUBSET Pending]
      BY <1>1, <1>3 DEF Shape, Phase
    <2>2. hand' \in Lookup \cup {NoItem} /\ reader' \in Conn \cup {NoConn}
      BY <1>3, Items
    <2> QED BY <1>1, <2>1, <2>2 DEF Shape
  <1>10. Hands'
    <2>1. c # NoConn
      BY Items
    <2> QED BY <1>3, <1>4, <2>1 DEF Hands
  <1>11. GateInv'
    BY <1>1, <1>8, <1>9, <1>10, PartsMakeNext
  <1>12. /\ GP(c)' = GP(c) /\ (GP(c) = "waiting" <=> c \notin dying)
         /\ GO(c) = IF c \in dying THEN {} ELSE Owes(c)
         /\ GO(c)' = IF c \in dying THEN {} ELSE Owes(c)'
         /\ ~GV(c) /\ ~GV(c)'
    BY <1>2, <1>3, <1>4 DEF GP, GO, GV, Waits, Unregistered
  <1>13. /\ GatePhase' = [GatePhase EXCEPT ![c] = GP(c)']
         /\ GateOwes' = [GateOwes EXCEPT ![c] = GO(c)']
         /\ GateVouched' = IF GV(c)' THEN GateVouched \cup {c} ELSE GateVouched \ {c}
         /\ GatePhase[c] = GP(c) /\ GateOwes[c] = GO(c) /\ (c \in GateVouched <=> GV(c))
    BY <1>1, <1>7, OneMoves
  <1>14. GatePhase' = GatePhase /\ GateVouched' = GateVouched
    BY <1>12, <1>13 DEF GatePhase
  <1>15. CASE c \in dying
    <2>1. GateOwes' = [GateOwes EXCEPT ![c] = GateOwes[c]]
      BY <1>12, <1>13, <1>15
    <2>2. GateOwes' = GateOwes
      BY <2>1 DEF GateOwes
    <2> QED BY <1>11, <1>14, <2>2 DEF G!vars
  <1>16. CASE c \notin dying
    <2>1. PICK D, E, paid : /\ D = Debts(auth[c], {}, {}) /\ E = Debts(a, {}, {})
                            /\ paid = D \ E
      OBVIOUS
    <2>2. paid \subseteq G!Lookups /\ E = D \ paid /\ "nick" \in E
      BY <2>1, DebtNames DEF Debts
    <2>3. paid # {}
      <3>1. PICK x \in auth[c] : x \notin a
        OBVIOUS
      <3>2. x \in Dns \/ x \in Ident
        BY <1>1 DEF Shape, Pending, Dns, Ident
      <3>3. CASE x \in Dns
        <4>1. a \cap Dns = {}
          BY <3>1, <3>3 DEF Dns, Ident
        <4>2. "host" \in D /\ "host" \notin E
          BY <2>1, <3>1, <3>3, <4>1, DebtNames DEF Debts
        <4> QED BY <2>1, <4>2
      <3>4. CASE x \in Ident
        <4>1. a \cap Ident = {}
          BY <3>1, <3>4 DEF Dns, Ident
        <4>2. "ident" \in D /\ "ident" \notin E
          BY <2>1, <3>1, <3>4, <4>1, DebtNames DEF Debts
        <4> QED BY <2>1, <4>2
      <3> QED BY <3>2, <3>3, <3>4
    <2>4. paid \in (SUBSET D) \ {{}} /\ {} \in SUBSET {"dnsbl"}
      BY <2>1, <2>3
    <2>5. /\ GateOwes[c] = D /\ GateOwes' = [GateOwes EXCEPT ![c] = (D \ paid) \cup {}]
          /\ GatePhase[c] = "waiting" /\ (D \ paid) \cup {} # {}
      BY <1>5, <1>12, <1>13, <1>16, <2>1, <2>2
    <2>6. G!Pay(c)
      BY <1>14, <2>2, <2>4, <2>5 DEF G!Pay
    <2> QED BY <1>11, <2>6 DEF G!Next
  <1> QED BY <1>15, <1>16

\* c is no longer an unregistered client.
LEMMA Vanish ==
    ASSUME GateInv, LoopType', NEW c \in Conn, phase[c] \in {"lookup", "open"},
           NEW p \in {"gone", "link"}, NEW h \in {got[c], {}},
           phase' = [phase EXCEPT ![c] = p], auth' = [auth EXCEPT ![c] = {}],
           got' = [got EXCEPT ![c] = h], FreePreClient(c),
           requests' = WithoutRequests(c), dying' = dying \ {c},
           UNCHANGED <<hand, reader>>
    PROVE  GateInv' /\ G!End(c, p) /\ GatePhase[c] = GP(c) /\ GateOwes[c] = GO(c)
  <1>1. Shape /\ Hands /\ (\A d \in Conn : Stands(d)) /\ BlackOK(queries, listed, ref, status)
    BY Parts
  <1>2. /\ queries' = [queries EXCEPT ![c] = {}] /\ listed' = [listed EXCEPT ![c] = {}]
        /\ ref' = RefDown(RefDown(ref, listed[c]), queries[c])
        /\ status' = Unlisted(Unlisted(status, ref, listed[c]), RefDown(ref, listed[c]), queries[c])
    BY DEF FreePreClient
  <1>3. /\ phase'[c] = p /\ auth'[c] = {} /\ got'[c] = h /\ queries'[c] = {} /\ listed'[c] = {}
        /\ c \notin dying'
    BY <1>1, <1>2 DEF Shape, Sets
  <1>4. requests' = [i \in Lookup |->
            IF i[1] = c /\ (i[2] \in queries[c] \/ (i[2] = "host" /\ auth[c] \cap Dns # {}))
            THEN 0 ELSE requests[i]]
    BY DEF WithoutRequests
  <1>5. requests' \in [Lookup -> 0..Retries]
    BY <1>1, <1>4, PreRegAssumption DEF Shape
  <1>6. ref' \in [Black -> Nat] /\ status' \in [Black -> Status] /\ BlackOK(queries', listed', ref', status')
    <2>1. PICK L, r, s : /\ L = [listed EXCEPT ![c] = {}]
                         /\ r = RefDown(ref, listed[c]) /\ s = Unlisted(status, ref, listed[c])
      OBVIOUS
    <2>2. L \in Sets /\ r \in [Black -> Nat] /\ s \in [Black -> Status] /\ BlackOK(queries, L, r, s)
      <3>1. L \in Sets
        BY <1>1, <2>1 DEF Shape, Sets
      <3>2. BlackOK(queries, L, r, s) /\ r \in [Black -> Nat] /\ s \in [Black -> Status]
        BY <1>1, <2>1, DropListing DEF Shape
      <3> QED BY <3>1, <3>2
    <2>3. PICK S \in SUBSET queries[c] : S = queries[c]
      OBVIOUS
    <2>4. queries[c] \ S = {} /\ queries \in Sets
      BY <1>1, <2>3 DEF Shape
    <2>5. /\ BlackOK([queries EXCEPT ![c] = queries[c] \ S], L, RefDown(r, S), Unlisted(s, r, S))
          /\ RefDown(r, S) \in [Black -> Nat] /\ Unlisted(s, r, S) \in [Black -> Status]
      BY <2>2, <2>4, DropQueries
    <2> QED BY <1>2, <2>1, <2>3, <2>4, <2>5
  <1>7. Stands(c)'
    <2>1. <<c, "host">> \in Lookup /\ \A b \in Black : <<c, b>> \in Lookup /\ b # "host"
      BY Items
    <2>2. ~(0 > 0)
      OBVIOUS
    <2>3. Asked(c, "host")' <=> hand' = <<c, "host">>
      <3>1. "host" \notin queries[c]
        BY <1>1, PreRegAssumption DEF Shape, Sets
      <3>2. requests'[<<c, "host">>] = IF auth[c] \cap Dns # {} THEN 0 ELSE requests[<<c, "host">>]
        BY <1>4, <2>1, <3>1
      <3>3. auth[c] \cap Dns # {} => hand # <<c, "host">>
        <4>1. auth[c] # {} => phase[c] = "lookup"
          BY <1>1 DEF Stands
        <4>2. hand = <<c, "host">> => phase[c] # "lookup"
          <5>1. <<c, "host">> # NoItem
            BY Items
          <5>2. hand = <<c, "host">> => reader = c /\ reader # NoConn
            BY <1>1, <5>1, Items DEF Hands
          <5> QED BY <1>1, <5>2 DEF Hands
        <4> QED BY <4>1, <4>2
      <3> QED BY <1>1, <2>2, <3>2, <3>3 DEF Stands, Asked
    <2>4. \A b \in Black : ~Asked(c, b)'
      <3> SUFFICES ASSUME NEW b \in Black PROVE ~Asked(c, b)'
        OBVIOUS
      <3>1. requests'[<<c, b>>] = IF b \in queries[c] THEN 0 ELSE requests[<<c, b>>]
        BY <1>4, <2>1
      <3>2. Asked(c, b) <=> b \in queries[c]
        BY <1>1 DEF Stands
      <3> QED BY <2>2, <3>1, <3>2 DEF Asked
    <2>5. "cookie" \in got'[c] => "ping" \in got'[c]
      BY <1>1, <1>3 DEF Stands
    <2>6. ~Waits(c)'
      BY <1>3 DEF Waits, Unregistered
    <2> QED BY <1>3, <2>3, <2>4, <2>5, <2>6 DEF Stands
  <1>8. \A d \in Conn \ {c} : Same(d)
    <2> SUFFICES ASSUME NEW d \in Conn, d # c PROVE Same(d)
      OBVIOUS
    <2>1. \A k \in {"host"} \cup Black : <<d, k>> \in Lookup /\ <<d, k>>[1] # c
      BY DEF Lookup
    <2>2. \A k \in {"host"} \cup Black : requests'[<<d, k>>] = requests[<<d, k>>]
      BY <1>4, <2>1
    <2> QED BY <1>1, <1>2, <2>2 DEF Same, Shape, Sets
  <1>9. \A d \in Conn : Stands(d)'
    BY <1>1, <1>7, <1>8, SameStands
  <1>10. Shape'
    <2>1. phase' \in [Conn -> Phase] /\ auth' \in [Conn -> SUBSET Pending]
      BY <1>1 DEF Shape, Phase
    <2>2. got' \in [Conn -> SUBSET Said] /\ queries' \in Sets /\ listed' \in Sets
      BY <1>1, <1>2 DEF Shape, Sets
    <2>3. \A d \in Conn : \A x, y \in listed'[d] : x = y
      BY <1>1, <1>2 DEF Shape, Sets
    <2> QED BY <1>1, <1>5, <1>6, <2>1, <2>2, <2>3 DEF Shape
  <1>11. Hands'
    <2>1. reader # NoConn => phase'[reader] # "lookup"
      BY <1>1, <1>3 DEF Hands, Shape
    <2> QED BY <1>1, <2>1 DEF Hands
  <1>12. GateInv'
    BY <1>6, <1>9, <1>10, <1>11, PartsMakeNext
  <1>13. GP(c)' = p /\ GO(c)' = {} /\ ~GV(c)'
    BY <1>3 DEF GP, GO, GV, Waits, Unregistered
  <1>14. /\ GatePhase' = [GatePhase EXCEPT ![c] = p]
         /\ GateOwes' = [GateOwes EXCEPT ![c] = {}]
         /\ GateVouched' = GateVouched \ {c}
         /\ GatePhase[c] = GP(c) /\ GateOwes[c] = GO(c)
    BY <1>1, <1>8, <1>13, OneMoves
  <1> QED BY <1>12, <1>14 DEF G!End

\* Idle and reading: no callback runs, or that of the reader.
LEMMA NoHand ==
    ASSUME GateInv, reader = NoConn
    PROVE  hand = NoItem /\ \A c \in Conn : hand # <<c, "host">>
  <1>1. hand = NoItem
    BY Parts DEF Hands
  <1>2. \A c \in Conn : <<c, "host">> # NoItem
    BY Items
  <1> QED BY <1>1, <1>2

\* The loop and the bound.
LEMMA LoopTyped ==
    ASSUME GateInv, Next
    PROVE  LoopType'
  <1>1. /\ loop \in [next : Item \cup {NoItem}, rest : SUBSET Item, ousted : SUBSET Conn]
        /\ others \in 0..MaxOthers /\ MaxOthers \in Nat
    BY Parts, PreRegAssumption DEF LoopType
  <1>2. \/ UNCHANGED loop \/ Advance \/ (\E due \in SUBSET Item : Start(due))
        \/ \E d \in Conn : Displace(d)
    BY DEF Next, Accept, Line, MrNick, MrUser, MCap, CapEnd, MrPong, MrServer, Leave,
           LookupStep, IdentConnected, IdentDone, ReplyHost, ReplyBlacklist, TimerStart,
           TimeoutResolver, TimeoutAuthQueries, LoopStep, ResendQuery, ExpireHost,
           ExpireAuth, ExpireBlacklist, ReadDone, OtherStep, MeSvslogin,
           WriteError, ExitAborted, Rehash, control
  <1>3. UNCHANGED others \/ Other
    BY DEF Next, Accept, Line, MrNick, MrUser, MCap, CapEnd, MrPong, MrServer, Leave,
           LookupStep, IdentConnected, IdentDone, ReplyHost, ReplyBlacklist, TimerStart,
           TimeoutResolver, TimeoutAuthQueries, LoopStep, ResendQuery, ExpireHost,
           ExpireAuth, ExpireBlacklist, ReadDone, OtherStep, Displace, MeSvslogin,
           WriteError, ExitAborted, Rehash, AuthDnsCallback, BlacklistDnsCallback, Start
  <1>4. loop' \in [next : Item \cup {NoItem}, rest : SUBSET Item, ousted : SUBSET Conn]
    <2>1. CASE Advance
      <3>1. Following \subseteq Item \cup {NoItem}
        BY <1>1 DEF Following
      <3>2. PICK n \in Following : loop' = IF n = NoItem THEN NoLoop
                                           ELSE [loop EXCEPT !.next = n, !.rest = @ \ {n}]
        BY <2>1 DEF Advance
      <3>3. NoLoop \in [next : Item \cup {NoItem}, rest : SUBSET Item, ousted : SUBSET Conn]
        BY DEF NoLoop
      <3> QED BY <1>1, <3>1, <3>2, <3>3
    <2>2. CASE \E due \in SUBSET Item : Start(due)
      <3>1. PICK due \in SUBSET Item : Start(due)
        BY <2>2
      <3>2. PICK i \in due : loop' = [next |-> i, rest |-> due \ {i}, ousted |-> {}]
        BY <3>1 DEF Start
      <3> QED BY <3>2
    <2>3. CASE \E d \in Conn : Displace(d)
      <3>1. PICK d \in Conn : loop' = loop \/ loop' = [loop EXCEPT !.ousted = @ \cup {d}]
        BY <2>3 DEF Displace
      <3> QED BY <1>1, <3>1
    <2> QED BY <1>1, <1>2, <2>1, <2>2, <2>3
  <1>5. others' \in 0..MaxOthers
    BY <1>1, <1>3 DEF Other
  <1> QED BY <1>4, <1>5 DEF LoopType

\* A connection comes.
LEMMA AcceptStep ==
    ASSUME GateInv, LoopType', NEW c \in Conn, Accept(c)
    PROVE  GateInv' /\ [G!Next]_(G!vars)
  <1>1. Shape /\ Hands /\ (\A d \in Conn : Stands(d)) /\ BlackOK(queries, listed, ref, status)
    BY Parts
  <1>2. PICK ident \in SUBSET {"connect"} : auth' = [auth EXCEPT ![c] = {"ptr"} \cup ident]
    BY DEF Accept
  <1>3. /\ reader = NoConn /\ phase[c] = "none" /\ phase' = [phase EXCEPT ![c] = "lookup"]
        /\ requests' = [requests EXCEPT ![<<c, "host">>] = Retries]
        /\ UNCHANGED <<got, queries, listed, ref, status, hand, reader, dying>>
    BY DEF Accept, Idle, pre, black, control
  <1>4. got[c] = {} /\ queries[c] = {} /\ listed[c] = {} /\ c \notin dying
    BY <1>1, <1>3 DEF Stands
  <1>5. PICK a : a = {"ptr"} \cup ident /\ a \in SUBSET Pending /\ a \cap Dns # {} /\ a # {}
    BY DEF Pending, Dns
  <1>6. phase'[c] = "lookup" /\ auth'[c] = a
    BY <1>1, <1>2, <1>3, <1>5 DEF Shape
  <1>7. /\ <<c, "host">> \in Lookup /\ Retries > 0 /\ Retries \in 0..Retries
        /\ requests \in [Lookup -> 0..Retries]
    <2>1. Retries > 0 /\ Retries \in 0..Retries
      BY PreRegAssumption
    <2> QED BY <1>1, <2>1, Items DEF Shape
  <1>8. requests' \in [Lookup -> 0..Retries] /\ requests'[<<c, "host">>] > 0
    BY <1>3, <1>7
  <1>9. Owes(c)' = Debts(a, {}, {})
    BY <1>3, <1>4, <1>6, OwesDebtsNext
  <1>10. Stands(c)'
    <2>1. \A b \in Black : ~Asked(c, b)'
      <3>1. \A b \in Black : ~Asked(c, b) /\ <<c, b>> \in Lookup /\ <<c, b>> # <<c, "host">>
        BY <1>1, <1>4, Items DEF Stands
      <3> QED BY <1>3, <1>7, <3>1 DEF Asked
    <2>2. Owes(c)' # {}
      <3>1. "nick" \in Debts(a, {}, {})
        BY DebtNames DEF Debts
      <3> QED BY <1>9, <3>1
    <2>3. Asked(c, "host")'
      BY <1>8 DEF Asked
    <2> QED BY <1>3, <1>4, <1>5, <1>6, <2>1, <2>2, <2>3 DEF Stands
  <1>11. \A d \in Conn \ {c} : Same(d)
    <2> SUFFICES ASSUME NEW d \in Conn, d # c PROVE Same(d)
      OBVIOUS
    <2>1. \A k \in {"host"} \cup Black : <<d, k>> \in Lookup /\ <<d, k>> # <<c, "host">>
      BY DEF Lookup
    <2>2. \A k \in {"host"} \cup Black : requests'[<<d, k>>] = requests[<<d, k>>]
      BY <1>3, <1>7, <2>1
    <2> QED BY <1>1, <1>2, <1>3, <2>2 DEF Same, Shape
  <1>12. \A d \in Conn : Stands(d)'
    BY <1>1, <1>10, <1>11, SameStands
  <1>13. Shape'
    <2>1. phase' \in [Conn -> Phase] /\ auth' \in [Conn -> SUBSET Pending]
      BY <1>1, <1>2, <1>3, <1>5 DEF Shape, Phase
    <2> QED BY <1>1, <1>3, <1>8, <2>1 DEF Shape
  <1>14. Hands'
    BY <1>3, NoHand DEF Hands
  <1>15. GateInv'
    BY <1>1, <1>3, <1>12, <1>13, <1>14, PartsMakeNext
  <1>16. /\ GP(c) = "none" /\ GP(c)' = "waiting" /\ GO(c)' = Debts(a, {}, {})
         /\ ~GV(c) /\ ~GV(c)'
    BY <1>3, <1>4, <1>6, <1>9 DEF GP, GO, GV, Waits, Unregistered
  <1>17. /\ GatePhase' = [GatePhase EXCEPT ![c] = GP(c)']
         /\ GateOwes' = [GateOwes EXCEPT ![c] = GO(c)']
         /\ GateVouched' = IF GV(c)' THEN GateVouched \cup {c} ELSE GateVouched \ {c}
         /\ GatePhase[c] = GP(c) /\ GateOwes[c] = GO(c) /\ (c \in GateVouched <=> GV(c))
    BY <1>1, <1>11, OneMoves
  <1>18. GateVouched' = GateVouched
    BY <1>16, <1>17
  <1>19. \E S \in SUBSET {"ident", "cookie"} : Debts(a, {}, {}) = {"host", "nick", "user"} \cup S
    <2>1. PICK S : S = (IF a \cap Ident # {} THEN {"ident"} ELSE {})
                       \cup (IF PingCookie THEN {"cookie"} ELSE {})
      OBVIOUS
    <2>2. S \in SUBSET {"ident", "cookie"}
      BY <2>1
    <2>3. ASSUME NEW d PROVE d \in Debts(a, {}, {}) <=> d \in {"host", "nick", "user"} \cup S
      BY <1>5, <2>1, DebtNames DEF Debts
    <2> QED BY <2>2, <2>3
  <1>20. G!Arrive(c)
    BY <1>16, <1>17, <1>18, <1>19 DEF G!Arrive
  <1> QED BY <1>15, <1>20 DEF G!Next

\* The lookups of a connection end, by an answer or by a timer.
LEMMA AuthSteps ==
    ASSUME GateInv, LoopType', NEW c \in Conn,
           \/ IdentDone(c)
           \/ reader = NoConn /\ requests[<<c, "host">>] > 0 /\ AuthDnsCallback(c)
           \/ ExpireAuth(c)
    PROVE  GateInv' /\ [G!Next]_(G!vars)
  <1>1. Shape /\ (\A d \in Conn : Stands(d))
    BY Parts
  <1>2. reader = NoConn
    BY DEF IdentDone, ExpireAuth, Looping, Idle
  <1>3. hand = NoItem /\ hand # <<c, "host">> /\ <<c, "host">> \in Lookup /\ c # NoConn
    BY <1>2, NoHand, Items
  <1>4. Asked(c, "host") <=> auth[c] \cap Dns # {}
    BY <1>1, <1>3 DEF Stands
  <1>5. requests \in [Lookup -> 0..Retries] /\ 0 \in 0..Retries /\ ~(0 > 0)
    BY <1>1, PreRegAssumption DEF Shape
  <1>6. CASE IdentDone(c)
    <2>1. PICK a : a = auth[c] \ Ident
      OBVIOUS
    <2>2. a \in SUBSET auth[c] /\ a # auth[c] /\ a \cap Dns = auth[c] \cap Dns
      BY <1>6, <2>1 DEF IdentDone, Ident, Dns
    <2>3. /\ ReleaseAuthClient(c, a)
          /\ UNCHANGED <<got, queries, listed, ref, status, dying, requests, hand>>
      BY <1>6, <2>1 DEF IdentDone, pre, black
    <2>4. requests'[<<c, "host">>] > 0 <=> a \cap Dns # {} \/ hand' = <<c, "host">>
      BY <1>3, <1>4, <2>2, <2>3 DEF Asked
    <2> QED BY <1>2, <1>3, <1>5, <2>1, <2>2, <2>3, <2>4, Release
  <1>7. CASE requests[<<c, "host">>] > 0 /\ AuthDnsCallback(c)
    <2>1. PICK a : a = auth[c] \ Dns
      OBVIOUS
    <2>2. a \in SUBSET auth[c] /\ a # auth[c] /\ a \cap Dns = {}
      BY <1>4, <1>7, <2>1 DEF Asked
    <2>3. /\ ReleaseAuthClient(c, a)
          /\ IF reader' = NoConn
             THEN requests' = [requests EXCEPT ![<<c, "host">>] = 0] /\ hand' = hand
             ELSE hand' = <<c, "host">> /\ requests' = requests
          /\ UNCHANGED <<got, queries, listed, ref, status, dying>>
      BY <1>7, <2>1 DEF AuthDnsCallback, pre, black
    <2>4. reader' \in {c, NoConn}
      BY <1>2, <2>3 DEF ReleaseAuthClient
    <2>5. CASE reader' = NoConn
      <3>1. requests' = [requests EXCEPT ![<<c, "host">>] = 0] /\ hand' = NoItem /\ hand' # <<c, "host">>
        BY <1>3, <2>3, <2>5
      <3>2. requests'[<<c, "host">>] = 0
        BY <1>3, <1>5, <3>1
      <3>3. requests' \in [Lookup -> 0..Retries]
            /\ \A i \in Lookup : i # <<c, "host">> => requests'[i] = requests[i]
        BY <1>3, <1>5, <3>1
      <3> QED BY <1>2, <1>5, <2>1, <2>2, <2>3, <3>1, <3>2, <3>3, Release
    <2>6. CASE reader' = c
      <3>1. hand' = <<c, "host">> /\ requests' = requests
        BY <1>3, <2>3, <2>6
      <3> QED BY <1>2, <1>5, <1>7, <2>1, <2>2, <2>3, <2>6, <3>1, Release
    <2> QED BY <2>4, <2>5, <2>6
  <1>8. CASE ExpireAuth(c)
    <2>1. PICK a : a = {}
      OBVIOUS
    <2>2. a \in SUBSET auth[c] /\ a \cap Dns = {} /\ a # auth[c]
      <3>1. phase[c] = "lookup"
        BY <1>8 DEF ExpireAuth, Looping, OnList
      <3> QED BY <1>1, <2>1, <3>1 DEF Stands
    <2>3. /\ ReleaseAuthClient(c, a)
          /\ requests' = IF auth[c] \cap Dns # {} THEN [requests EXCEPT ![<<c, "host">>] = 0] ELSE requests
          /\ UNCHANGED <<got, queries, listed, ref, status, dying, hand>>
      BY <1>8, <2>1 DEF ExpireAuth, pre, black
    <2>4. ~(requests'[<<c, "host">>] > 0) /\ requests' \in [Lookup -> 0..Retries]
          /\ \A i \in Lookup : i # <<c, "host">> => requests'[i] = requests[i]
      BY <1>3, <1>4, <1>5, <2>3 DEF Asked
    <2>5. hand' = NoItem /\ hand' # <<c, "host">>
      BY <1>3, <2>3
    <2> QED BY <1>2, <2>1, <2>2, <2>3, <2>4, <2>5, Release
  <1> QED BY <1>6, <1>7, <1>8

\* The ident port is connected, or the host name is known and not yet its address.
LEMMA LookupGoesOn ==
    ASSUME GateInv, LoopType', NEW c \in Conn,
           NEW x \in Pending, NEW y \in Pending, x \in auth[c], x \in Dns <=> y \in Dns,
           auth' = [auth EXCEPT ![c] = (@ \ {x}) \cup {y}],
           requests' \in [Lookup -> 0..Retries],
           \A i \in Lookup : requests'[i] > 0 <=> requests[i] > 0,
           reader = NoConn,
           UNCHANGED <<phase, got, queries, listed, ref, status, dying, hand, reader>>
    PROVE  GateInv' /\ [G!Next]_(G!vars)
  <1>1. Shape /\ Hands /\ (\A d \in Conn : Stands(d)) /\ BlackOK(queries, listed, ref, status)
    BY Parts
  <1>2. PICK a : a = (auth[c] \ {x}) \cup {y} /\ a \in SUBSET Pending
    BY <1>1 DEF Shape
  <1>3. auth' = [auth EXCEPT ![c] = a] /\ auth'[c] = a /\ auth' \in [Conn -> SUBSET Pending]
    BY <1>1, <1>2 DEF Shape
  <1>4. /\ a # {} /\ auth[c] # {}
        /\ a \cap Dns # {} <=> auth[c] \cap Dns # {}
        /\ a \cap Ident # {} <=> auth[c] \cap Ident # {}
    BY <1>2 DEF Pending, Dns, Ident
  <1>5. phase[c] = "lookup" /\ got[c] = {}
    BY <1>1, <1>4 DEF Stands
  <1>6. Owes(c)' = Owes(c)
    <2>1. Owes(c) = Debts(auth[c], got[c], queries[c])
      BY <1>5, OwesDebts
    <2>2. Owes(c)' = Debts(a, got[c], queries[c])
      BY <1>3, <1>5, OwesDebtsNext
    <2>3. Debts(a, got[c], queries[c]) = Debts(auth[c], got[c], queries[c])
      BY <1>4 DEF Debts
    <2> QED BY <2>1, <2>2, <2>3
  <1>7. (Waits(c)' <=> Waits(c)) /\ (Unregistered(c)' <=> Unregistered(c))
    BY DEF Waits, Unregistered
  <1>8. \A k \in {"host"} \cup Black : <<c, k>> \in Lookup /\ (Asked(c, k)' <=> Asked(c, k))
    BY DEF Lookup, Asked
  <1>9. Stands(c)'
    BY <1>1, <1>3, <1>4, <1>5, <1>6, <1>7, <1>8 DEF Stands
  <1>10. GP(c)' = GP(c) /\ GO(c)' = GO(c) /\ (GV(c)' <=> GV(c))
    BY <1>6, <1>7 DEF GP, GO, GV
  <1>11. \A d \in Conn \ {c} : Same(d)
    <2> SUFFICES ASSUME NEW d \in Conn, d # c PROVE Same(d)
      OBVIOUS
    <2>1. \A k \in {"host"} \cup Black : <<d, k>> \in Lookup
      BY DEF Lookup
    <2> QED BY <1>1, <1>3, <2>1 DEF Same, Shape
  <1>12. \A d \in Conn : Stands(d)'
    BY <1>1, <1>9, <1>11, SameStands
  <1>13. Shape'
    BY <1>1, <1>3 DEF Shape
  <1>14. Hands'
    BY <1>1 DEF Hands
  <1>15. GateInv'
    BY <1>1, <1>12, <1>13, <1>14, PartsMakeNext
  <1>16. /\ GatePhase' = [GatePhase EXCEPT ![c] = GP(c)']
         /\ GateOwes' = [GateOwes EXCEPT ![c] = GO(c)']
         /\ GateVouched' = IF GV(c)' THEN GateVouched \cup {c} ELSE GateVouched \ {c}
         /\ GatePhase[c] = GP(c) /\ GateOwes[c] = GO(c) /\ (c \in GateVouched <=> GV(c))
    BY <1>1, <1>11, OneMoves
  <1>17. GatePhase' = GatePhase /\ GateOwes' = GateOwes /\ GateVouched' = GateVouched
    <2>1. GatePhase' = GatePhase
      BY <1>10, <1>16 DEF GatePhase
    <2>2. GateOwes' = GateOwes
      BY <1>10, <1>16 DEF GateOwes
    <2>3. GateVouched' = GateVouched
      BY <1>10, <1>16
    <2> QED BY <2>1, <2>2, <2>3
  <1> QED BY <1>15, <1>17 DEF G!vars

\* auth_connect_callback, and res_readreply for the name.
LEMMA GoesOnSteps ==
    ASSUME GateInv, LoopType', NEW c \in Conn,
           \/ IdentConnected(c)
           \/ ReplyHost(c) /\ ~AuthDnsCallback(c)
    PROVE  GateInv' /\ [G!Next]_(G!vars)
  <1>1. Shape
    BY Parts
  <1>2. CASE IdentConnected(c)
    <2>1. PICK x, y : x = "connect" /\ y = "reply"
      OBVIOUS
    <2>2. x \in Pending /\ y \in Pending /\ x \notin Dns /\ y \notin Dns
      BY <2>1 DEF Pending, Dns
    <2>3. /\ reader = NoConn /\ x \in auth[c] /\ auth' = [auth EXCEPT ![c] = (@ \ {x}) \cup {y}]
          /\ UNCHANGED <<phase, got, queries, listed, ref, status, requests, dying, hand, reader>>
      BY <1>2, <2>1 DEF IdentConnected, Idle, pre, black, control
    <2>4. requests' \in [Lookup -> 0..Retries] /\ \A i \in Lookup : requests'[i] > 0 <=> requests[i] > 0
      BY <1>1, <2>3 DEF Shape
    <2> QED BY <2>2, <2>3, <2>4, LookupGoesOn
  <1>3. CASE ReplyHost(c) /\ ~AuthDnsCallback(c)
    <2>1. PICK x, y : x = "ptr" /\ y = "addr"
      OBVIOUS
    <2>2. x \in Pending /\ y \in Pending /\ x \in Dns /\ y \in Dns
      BY <2>1 DEF Pending, Dns
    <2>3. /\ reader = NoConn /\ x \in auth[c] /\ auth' = [auth EXCEPT ![c] = (@ \ {x}) \cup {y}]
          /\ requests[<<c, "host">>] > 0 /\ requests' = [requests EXCEPT ![<<c, "host">>] = Retries]
          /\ UNCHANGED <<phase, got, queries, listed, ref, status, dying, hand, reader>>
      BY <1>3, <2>1 DEF ReplyHost, Idle, pre, black, control
    <2>4. Retries > 0 /\ Retries \in 0..Retries
      BY PreRegAssumption
    <2>5. requests' \in [Lookup -> 0..Retries] /\ \A i \in Lookup : requests'[i] > 0 <=> requests[i] > 0
      BY <1>1, <2>3, <2>4 DEF Shape
    <2> QED BY <2>2, <2>3, <2>5, LookupGoesOn
  <1> QED BY <1>2, <1>3

\* A retry, a timer that starts, a callback that returns, a rehash.
LEMMA QuietSteps ==
    ASSUME GateInv, LoopType',
           \/ TimerStart
           \/ \E i \in Lookup : ResendQuery(i)
           \/ ReadDone
           \/ \E S \in Configs : Rehash(S)
    PROVE  GateInv' /\ [G!Next]_(G!vars)
  <1>1. Shape /\ Hands /\ (\A d \in Conn : Stands(d)) /\ BlackOK(queries, listed, ref, status)
    BY Parts
  <1>2. CASE TimerStart
    <2>1. UNCHANGED <<phase, auth, got, queries, listed, ref, status, requests, hand, reader, dying>>
      BY <1>2 DEF TimerStart, TimeoutResolver, TimeoutAuthQueries, Start, pre, black
    <2>2. (\A d \in Conn : Same(d)) /\ Hands'
      BY <1>1, <2>1 DEF Same, Hands
    <2> QED BY <1>1, <2>1, <2>2, Quiet DEF Shape
  <1>3. ASSUME NEW i \in Lookup, ResendQuery(i) PROVE GateInv' /\ [G!Next]_(G!vars)
    <2>1. /\ UNCHANGED <<phase, auth, got, queries, listed, ref, status, hand, reader, dying>>
          /\ requests[i] > 1 /\ requests' = [requests EXCEPT ![i] = @ - 1]
      BY <1>3 DEF ResendQuery, pre, black
    <2>2. requests \in [Lookup -> 0..Retries] /\ Retries \in Nat
      BY <1>1, PreRegAssumption DEF Shape
    <2>3. requests' \in [Lookup -> 0..Retries] /\ \A j \in Lookup : requests'[j] > 0 <=> requests[j] > 0
      <3>1. requests[i] - 1 \in 0..Retries /\ requests[i] - 1 > 0 /\ requests[i] > 0
        BY <2>1, <2>2
      <3> QED BY <2>1, <2>2, <3>1
    <2>4. \A d \in Conn : \A k \in {"host"} \cup Black : <<d, k>> \in Lookup
      BY DEF Lookup
    <2>5. (\A d \in Conn : Same(d)) /\ Hands'
      BY <1>1, <2>1, <2>3, <2>4 DEF Same, Hands
    <2> QED BY <1>1, <2>1, <2>3, <2>5, Quiet DEF Shape
  <1>4. ASSUME NEW S \in Configs, Rehash(S) PROVE GateInv' /\ [G!Next]_(G!vars)
    <2>1. /\ UNCHANGED <<phase, auth, got, queries, listed, requests, hand, reader, dying>>
          /\ status' = [b \in Black |->
                 IF b \in S THEN "conf"
                 ELSE IF status[b] # "absent" /\ ref[b] > 0 THEN "illegal" ELSE "absent"]
          /\ ref' = [b \in Black |-> IF status[b] = "absent" \/ ref[b] <= 0 THEN 0 ELSE ref[b]]
      BY <1>4 DEF Rehash, pre, control
    <2>2. ref' \in [Black -> Nat] /\ status' \in [Black -> Status]
      BY <1>1, <2>1 DEF Shape, Status
    <2>3. ASSUME NEW b \in Black PROVE RefOK(b, HoldersIn(queries, listed, b), ref', status')
      <3>1. PICK H : H = HoldersIn(queries, listed, b)
        OBVIOUS
      <3>2. IsFiniteSet(H) /\ RefOK(b, H, ref, status) /\ ref[b] \in Nat
        BY <1>1, <3>1, HoldersAreFinite DEF BlackOK, Shape
      <3>3. (ref[b] = 0 <=> H = {}) /\ (status[b] = "absent" => ref[b] = 0)
        BY <3>2, FS_EmptySet DEF RefOK
      <3>4. ref'[b] = ref[b]
        BY <2>1, <3>2, <3>3
      <3>5. /\ status'[b] = "absent" => H = {}
            /\ status'[b] = "illegal" => H # {}
        BY <2>1, <3>2, <3>3
      <3> QED BY <3>1, <3>2, <3>4, <3>5 DEF RefOK
    <2>4. BlackOK(queries, listed, ref', status')
      BY <2>3 DEF BlackOK
    <2>5. (\A d \in Conn : Same(d)) /\ Hands'
      BY <1>1, <2>1 DEF Same, Hands
    <2> QED BY <1>1, <2>1, <2>2, <2>4, <2>5, Quiet DEF Shape
  <1>5. CASE ReadDone
    <2>1. /\ UNCHANGED <<phase, auth, got, queries, listed, ref, status, dying>>
          /\ reader # NoConn /\ reader' = NoConn /\ hand' = NoItem
          /\ requests' = IF hand = NoItem THEN requests ELSE [requests EXCEPT ![hand] = 0]
      BY <1>5 DEF ReadDone, pre, black
    <2>2. Hands' /\ hand' \in Lookup \cup {NoItem} /\ reader' \in Conn \cup {NoConn}
      BY <2>1 DEF Hands
    <2>3. CASE hand = NoItem
      <3>1. \A d \in Conn : Same(d)
        BY <2>1, <2>3 DEF Same
      <3> QED BY <1>1, <2>1, <2>2, <2>3, <3>1, Quiet DEF Shape
    <2>4. CASE hand # NoItem
      <3>1. PICK c \in Conn : c = reader /\ hand = <<c, "host">> /\ phase[c] # "lookup"
        BY <1>1, <2>1, <2>4 DEF Hands, Shape
      <3>2. auth[c] = {}
        BY <1>1, <3>1 DEF Stands
      <3>3. /\ requests \in [Lookup -> 0..Retries] /\ Retries \in Nat /\ <<c, "host">> \in Lookup
            /\ requests' = [requests EXCEPT ![<<c, "host">>] = 0]
        BY <1>1, <2>1, <2>4, <3>1, Items, PreRegAssumption DEF Shape
      <3>4. requests' \in [Lookup -> 0..Retries] /\ requests'[<<c, "host">>] = 0
        BY <3>3
      <3>5. \A d \in Conn \ {c} : Same(d)
        <4> SUFFICES ASSUME NEW d \in Conn, d # c PROVE Same(d)
          OBVIOUS
        <4>1. \A k \in {"host"} \cup Black : <<d, k>> \in Lookup /\ <<d, k>> # <<c, "host">>
          BY DEF Lookup
        <4>2. \A k \in {"host"} \cup Black : requests'[<<d, k>>] = requests[<<d, k>>]
          BY <3>3, <4>1
        <4>3. hand # <<d, "host">> /\ hand' # <<d, "host">>
          BY <2>1, <3>1, <4>1, Items
        <4> QED BY <2>1, <4>2, <4>3 DEF Same
      <3>6. Owes(c)' = Owes(c) /\ (Waits(c)' <=> Waits(c)) /\ (Unregistered(c)' <=> Unregistered(c))
        BY <2>1 DEF Owes, OwesCookie, Waits, Unregistered
      <3>7. Stands(c)'
        <4>1. ~Asked(c, "host")' /\ ~(auth'[c] \cap Dns # {}) /\ hand' # <<c, "host">>
          BY <2>1, <3>2, <3>3, <3>4, Items DEF Asked
        <4>2. \A b \in Black : Asked(c, b)' <=> Asked(c, b)
          BY <3>3, Items DEF Asked
        <4> QED BY <1>1, <2>1, <3>6, <4>1, <4>2 DEF Stands
      <3>8. \A d \in Conn : Stands(d)'
        BY <1>1, <3>5, <3>7, SameStands
      <3>9. Shape'
        BY <1>1, <2>1, <2>2, <3>4 DEF Shape
      <3>10. GateInv'
        BY <1>1, <2>1, <2>2, <3>8, <3>9, PartsMakeNext
      <3>11. UNCHANGED G!vars
        <4>1. UNCHANGED <<phase, auth, got, queries, dying>>
          BY <2>1
        <4> QED BY <4>1 DEF G!vars, GatePhase, GateOwes, GateVouched, Owes, OwesCookie, Waits, Unregistered
      <3> QED BY <3>10, <3>11
    <2> QED BY <2>3, <2>4
  <1> QED BY <1>2, <1>3, <1>4, <1>5

\* A write fails.
LEMMA WriteErrorStep ==
    ASSUME GateInv, LoopType', NEW c \in Conn, WriteError(c)
    PROVE  GateInv' /\ [G!Next]_(G!vars)
  <1>1. Shape /\ Hands /\ (\A d \in Conn : Stands(d)) /\ BlackOK(queries, listed, ref, status)
    BY Parts
  <1>2. /\ phase[c] \in {"lookup", "open"} /\ c \notin dying /\ dying' = dying \cup {c}
        /\ UNCHANGED <<phase, auth, got, queries, listed, ref, status, requests, hand, reader>>
    BY DEF WriteError, Unregistered, pre, black, control
  <1>3. \A d \in Conn \ {c} : Same(d)
    BY <1>2 DEF Same
  <1>4. Stands(c)'
    <2>1. ~Waits(c)' /\ \A k : Asked(c, k)' <=> Asked(c, k)
      BY <1>2 DEF Waits, Asked
    <2> QED BY <1>1, <1>2, <2>1 DEF Stands
  <1>5. \A d \in Conn : Stands(d)'
    BY <1>1, <1>3, <1>4, SameStands
  <1>6. Shape' /\ Hands'
    BY <1>1, <1>2 DEF Shape, Hands
  <1>7. GateInv'
    BY <1>1, <1>2, <1>5, <1>6, PartsMakeNext
  <1>8. GP(c) = "waiting" /\ GP(c)' = "leaving" /\ GO(c)' = {} /\ ~GV(c)'
    BY <1>2 DEF GP, GO, GV, Waits, Unregistered
  <1>9. /\ GatePhase' = [GatePhase EXCEPT ![c] = "leaving"]
        /\ GateOwes' = [GateOwes EXCEPT ![c] = {}]
        /\ GateVouched' = GateVouched \ {c}
        /\ GatePhase[c] = "waiting"
    BY <1>1, <1>3, <1>8, OneMoves
  <1>10. G!Drop(c)
    BY <1>9 DEF G!Drop, G!End
  <1> QED BY <1>7, <1>10 DEF G!Next

\* exit_unknown_client, whoever calls it, and SERVER.
LEMMA ExitSteps ==
    ASSUME GateInv, LoopType', NEW c \in Conn,
           Leave(c) \/ Displace(c) \/ ExitAborted(c) \/ MrServer(c)
    PROVE  GateInv' /\ [G!Next]_(G!vars)
  <1>1. Shape /\ (\A d \in Conn : Stands(d))
    BY Parts
  <1>2. phase[c] \in {"lookup", "open"}
    BY <1>1 DEF Leave, Displace, ExitAborted, MrServer, Reads, Unregistered, Stands
  <1>3. CASE Leave(c) \/ Displace(c) \/ ExitAborted(c)
    <2>1. ExitUnknownClient(c) /\ UNCHANGED <<hand, reader>>
      BY <1>3 DEF Leave, Displace, ExitAborted, control
    <2>2. PICK h \in {got[c], {}} : h = {}
      OBVIOUS
    <2>3. PICK p \in {"gone", "link"} : p = "gone"
      OBVIOUS
    <2>4. /\ phase' = [phase EXCEPT ![c] = p] /\ auth' = [auth EXCEPT ![c] = {}]
          /\ got' = [got EXCEPT ![c] = h] /\ FreePreClient(c)
          /\ requests' = WithoutRequests(c) /\ dying' = dying \ {c}
      BY <2>1, <2>2, <2>3 DEF ExitUnknownClient
    <2>5. GateInv' /\ G!End(c, p) /\ GatePhase[c] = GP(c)
      BY <1>2, <2>1, <2>4, Vanish
    <2>6. GatePhase[c] \in {"waiting", "leaving"}
      BY <1>2, <2>5 DEF GP, Unregistered
    <2>7. G!Drop(c) \/ G!Leave(c)
      BY <2>3, <2>5, <2>6 DEF G!Drop, G!Leave
    <2> QED BY <2>5, <2>7 DEF G!Next
  <1>4. CASE MrServer(c)
    <2>1. PICK h \in {got[c], {}} : h = got[c]
      OBVIOUS
    <2>2. PICK p \in {"gone", "link"} : p = "link"
      OBVIOUS
    <2>3. phase[c] = "open" /\ c \notin dying /\ UNCHANGED <<hand, reader>>
      BY <1>4 DEF MrServer, Reads, control
    <2>4. auth[c] = {}
      BY <1>1, <2>3 DEF Stands
    <2>5. /\ phase' = [phase EXCEPT ![c] = p] /\ auth' = [auth EXCEPT ![c] = {}]
          /\ got' = [got EXCEPT ![c] = h] /\ FreePreClient(c)
          /\ requests' = WithoutRequests(c) /\ dying' = dying \ {c}
      <3>1. auth' = auth /\ got' = got /\ dying' = dying
        BY <1>4 DEF MrServer
      <3>2. auth = [auth EXCEPT ![c] = {}] /\ got = [got EXCEPT ![c] = got[c]] /\ dying = dying \ {c}
        BY <1>1, <2>3, <2>4 DEF Shape
      <3> QED BY <1>4, <2>1, <2>2, <3>1, <3>2 DEF MrServer
    <2>6. GateInv' /\ G!End(c, p) /\ GatePhase[c] = GP(c) /\ GateOwes[c] = GO(c)
      BY <1>2, <2>3, <2>5, Vanish
    <2>7. GP(c) = "waiting" /\ GO(c) \cap G!Lookups = {}
      <3>1. Owes(c) = Debts({}, got[c], queries[c])
        BY <1>1, <2>3, <2>4, OwesDebts DEF Stands, Waits, Unregistered
      <3>2. Debts({}, got[c], queries[c]) \cap G!Lookups = {}
        BY DebtNames DEF Debts
      <3> QED BY <2>3, <3>1, <3>2 DEF GP, GO, Unregistered, Waits
    <2>8. G!Link(c)
      BY <2>2, <2>6, <2>7 DEF G!Link, G!Heard
    <2> QED BY <2>6, <2>8 DEF G!Next
  <1> QED BY <1>3, <1>4

-----------------------------------------------------------------------------
(* The theorems of the gate.                                               *)

\* Nobody has come yet.
LEMMA AtFirst ==
    ASSUME Init
    PROVE  GateInv /\ G!Init
  <1>1. TypeOK
    <2>1. \E S \in Configs : status = [b \in Black |-> IF b \in S THEN "conf" ELSE "absent"]
      BY DEF Init
    <2>2. status \in [Black -> Status]
      BY <2>1 DEF Status
    <2>3. 0 \in 0..Retries /\ 0 \in 0..MaxOthers
      BY PreRegAssumption
    <2>4. phase \in [Conn -> Phase] /\ auth \in [Conn -> SUBSET Pending] /\ got \in [Conn -> SUBSET Said]
      BY DEF Init, Phase
    <2>5. /\ queries \in [Conn -> SUBSET Black] /\ listed \in [Conn -> SUBSET Black]
          /\ \A c \in Conn : \A a, b \in listed[c] : a = b
      BY DEF Init
    <2>6. ref \in [Black -> Nat] /\ requests \in [Lookup -> 0..Retries]
      BY <2>3 DEF Init
    <2>7. loop \in [next : Item \cup {NoItem}, rest : SUBSET Item, ousted : SUBSET Conn]
      BY DEF Init, NoLoop
    <2>8. hand \in Lookup \cup {NoItem} /\ reader \in Conn \cup {NoConn} /\ dying \subseteq Conn
      BY DEF Init
    <2>9. others \in 0..MaxOthers
      BY <2>3 DEF Init
    <2> QED BY <2>2, <2>4, <2>5, <2>6, <2>7, <2>8, <2>9 DEF TypeOK
  <1>2. RequestsOwned
    <2>1. \A c \in Conn : <<c, "host">> \in Lookup /\ <<c, "host">> # NoItem
      BY Items
    <2>3. ~(0 > 0)
      OBVIOUS
    <2>2. \A c \in Conn, b \in Black : <<c, b>> \in Lookup
      BY Items
    <2> QED BY <2>1, <2>2, <2>3 DEF Init, RequestsOwned, Asked
  <1>3. BlackRefs
    <2> SUFFICES ASSUME NEW b \in Black
                 PROVE  /\ ref[b] = Cardinality(Holders(b))
                        /\ status[b] = "illegal" => Holders(b) # {}
                        /\ Holders(b) = {}
      BY DEF BlackRefs
    <2>1. Holders(b) = {}
      BY DEF Init, Holders
    <2>2. \E S \in Configs : status = [x \in Black |-> IF x \in S THEN "conf" ELSE "absent"]
      BY DEF Init
    <2>3. status[b] # "illegal"
      BY <2>2
    <2> QED BY <2>1, <2>3, FS_EmptySet DEF Init
  <1>4. SaidInTime /\ Hands
    BY DEF Init, SaidInTime, Hands
  <1>5. \A c \in Conn : ~Waits(c)
    BY DEF Init, Waits, Unregistered
  <1>6. AskedInTime /\ NobodyForgotten
    BY <1>5 DEF AskedInTime, NobodyForgotten
  <1>7. G!Init
    <2>1. GateOwes = [c \in Conn |-> {}] /\ GateVouched = {}
      BY <1>5 DEF GateOwes, GateVouched
    <2>2. GatePhase = [c \in Conn |-> "none"]
      BY DEF Init, GatePhase, Unregistered
    <2> QED BY <2>1, <2>2 DEF G!Init
  <1> QED BY <1>1, <1>2, <1>3, <1>4, <1>6, <1>7 DEF GateInv

\* Every step keeps the invariant, and is a step of the gate or none.
LEMMA StepKeeps ==
    ASSUME GateInv, [Next]_vars
    PROVE  GateInv' /\ [G!Next]_(G!vars)
  <1>1. CASE UNCHANGED vars
    <2>1. UNCHANGED <<phase, auth, got, queries, listed, ref, status, requests, loop, hand, reader, dying, others>>
      BY <1>1 DEF vars, pre, black, control
    <2>2. Shape /\ LoopType /\ Hands /\ BlackOK(queries, listed, ref, status)
      BY Parts
    <2>3. (\A d \in Conn : Same(d)) /\ LoopType' /\ Hands'
      BY <2>1, <2>2 DEF Same, LoopType, Hands
    <2> QED BY <2>1, <2>2, <2>3, Quiet DEF Shape
  <1>2. CASE Next
    <2>1. LoopType'
      BY <1>2, LoopTyped
    <2>2. ASSUME NEW c \in Conn, Accept(c) PROVE GateInv' /\ [G!Next]_(G!vars)
      BY <2>1, <2>2, AcceptStep
    <2>3. ASSUME NEW c \in Conn,
                 MrNick(c) \/ MCap(c) \/ CapEnd(c) \/ MrPong(c) \/ MeSvslogin(c)
          PROVE  GateInv' /\ [G!Next]_(G!vars)
      <3>1. PICK g \in SUBSET Said : GateStep(c, g, queries[c], listed[c], ref, status)
        BY <2>3, LineSteps
      <3>2. PICK q, l, r, s : q = queries[c] /\ l = listed[c] /\ r = ref /\ s = status
        OBVIOUS
      <3>3. GateStep(c, g, q, l, r, s)
        BY <3>1, <3>2
      <3> QED BY <2>1, <3>3, GateStepKeeps
    <2>4. ASSUME NEW c \in Conn, MrUser(c) PROVE GateInv' /\ [G!Next]_(G!vars)
      <3>1. PICK g \in SUBSET Said, q \in SUBSET Black, r \in [Black -> Nat] :
                GateStep(c, g, q, listed[c], r, status)
        BY <2>4, UserStep
      <3>2. PICK l, s : l = listed[c] /\ s = status
        OBVIOUS
      <3>3. GateStep(c, g, q, l, r, s)
        BY <3>1, <3>2
      <3> QED BY <2>1, <3>3, GateStepKeeps
    <2>5. ASSUME NEW c \in Conn, MrServer(c) \/ Leave(c) \/ Displace(c) \/ ExitAborted(c)
          PROVE  GateInv' /\ [G!Next]_(G!vars)
      BY <2>1, <2>5, ExitSteps
    <2>6. ASSUME NEW c \in Conn, IdentConnected(c) \/ IdentDone(c) \/ ReplyHost(c)
          PROVE  GateInv' /\ [G!Next]_(G!vars)
      <3>1. CASE IdentConnected(c) \/ (ReplyHost(c) /\ ~AuthDnsCallback(c))
        BY <2>1, <3>1, GoesOnSteps
      <3>2. CASE ReplyHost(c) /\ AuthDnsCallback(c)
        <4>1. reader = NoConn /\ requests[<<c, "host">>] > 0
          BY <3>2 DEF ReplyHost, Idle
        <4> QED BY <2>1, <3>2, <4>1, AuthSteps
      <3>3. CASE IdentDone(c)
        BY <2>1, <3>3, AuthSteps
      <3> QED BY <2>6, <3>1, <3>2, <3>3
    <2>7. ASSUME NEW c \in Conn, NEW b \in Black, ReplyBlacklist(c, b) \/ ExpireBlacklist(c, b)
          PROVE  GateInv' /\ [G!Next]_(G!vars)
      <3>1. PICK found \in BOOLEAN : requests[<<c, b>>] > 0 /\ BlacklistDnsCallback(c, b, found)
        <4>1. CASE ReplyBlacklist(c, b)
          BY <4>1 DEF ReplyBlacklist
        <4>2. CASE ExpireBlacklist(c, b)
          <5>1. requests[<<c, b>>] = 1 /\ 1 > 0
            BY <4>2 DEF ExpireBlacklist
          <5> QED BY <4>2, <5>1 DEF ExpireBlacklist
        <4> QED BY <2>7, <4>1, <4>2
      <3>2. PICK g \in SUBSET Said, q \in SUBSET Black, l \in SUBSET Black,
                 r \in [Black -> Nat], s \in [Black -> Status] : GateStep(c, g, q, l, r, s)
        BY <3>1, AnswerStep
      <3> QED BY <2>1, <3>2, GateStepKeeps
    <2>8. ASSUME NEW c \in Conn, ExpireHost(c) \/ ExpireAuth(c)
          PROVE  GateInv' /\ [G!Next]_(G!vars)
      <3>1. CASE ExpireHost(c)
        <4>1. reader = NoConn /\ AuthDnsCallback(c) /\ requests[<<c, "host">>] = 1 /\ 1 > 0
          BY <3>1 DEF ExpireHost, Looping
        <4> QED BY <2>1, <4>1, AuthSteps
      <3>2. CASE ExpireAuth(c)
        BY <2>1, <3>2, AuthSteps
      <3> QED BY <2>8, <3>1, <3>2
    <2>9. ASSUME NEW c \in Conn, WriteError(c) PROVE GateInv' /\ [G!Next]_(G!vars)
      BY <2>1, <2>9, WriteErrorStep
    <2>10. CASE TimerStart \/ (\E i \in Lookup : ResendQuery(i)) \/ ReadDone \/ (\E S \in Configs : Rehash(S))
      BY <2>1, <2>10, QuietSteps
    <2> QED BY <1>2, <2>2, <2>3, <2>4, <2>5, <2>6, <2>7, <2>8, <2>9, <2>10
            DEF Next, Line, LookupStep, LoopStep, OtherStep
  <1> QED BY <1>1, <1>2

\* The gate's invariant, and all that is said of one connection or blacklist.
THEOREM GateInvariant == Spec => []GateInv
  <1>1. Init => GateInv
    BY AtFirst
  <1>2. GateInv /\ [Next]_vars => GateInv'
    BY StepKeeps
  <1> QED BY <1>1, <1>2, PTL DEF Spec

\* Every variable has its type (the state of src/s_auth.c, src/res.c and
\* src/blacklist.c, and the retries of src/res.c:58).
THEOREM PreRegTypes == Spec => []TypeOK
  <1>1. GateInv => TypeOK
    BY DEF GateInv
  <1> QED BY <1>1, GateInvariant, PTL

\* No answer and no timeout reaches a request of a connection that is gone, and no
\* connection waits for a request that nobody sent (src/s_auth.c:453-456, 598-618).
THEOREM PreRegRequests == Spec => []RequestsOwned
  <1>1. GateInv => RequestsOwned
    BY DEF GateInv
  <1> QED BY <1>1, GateInvariant, PTL

\* The refcounts of the blacklists are right, through rehashes, answers and exits
\* (src/blacklist.c:138-146, 182-199).
THEOREM PreRegBlack == Spec => []BlackRefs
  <1>1. GateInv => BlackRefs
    BY DEF GateInv
  <1> QED BY <1>1, GateInvariant, PTL

\* Registration implements its abstract specification: nobody registers or is
\* refused before the last debt is paid, and nobody is forgotten
\* (register_local_user and its five callers, src/s_user.c:199-264).
THEOREM PreRegGate == Spec => GateSpec
  <1>1. Init => G!Init
    BY AtFirst
  <1>2. GateInv /\ [Next]_vars => [G!Next]_(G!vars)
    BY StepKeeps
  <1> QED BY <1>1, <1>2, GateInvariant, PTL DEF Spec, GateSpec, G!Spec

-----------------------------------------------------------------------------
(* The timers' loops.                                                      *)

\* What the loop has left to visit: entries of one list, all of which were on it
\* when the loop began and still are unless their owner was put out, and none of
\* the connection whose lines are read.
LoopInv ==
    /\ loop.next \notin loop.rest
    /\ loop.next = NoItem => loop.rest = {}
    /\ loop.next \in Lookup => loop.rest \subseteq Lookup
    /\ loop.next \notin Lookup => loop.rest \subseteq Conn \X {"auth"}
    /\ \A i \in loop.rest \cup {loop.next} : i # NoItem =>
          /\ i[1] # reader
          /\ i[2] \in Black => phase[i[1]] \notin {"none", "lookup"}
          /\ OnList(i) \/ i[1] \in loop.ousted

\* What is on a list: requests and connections.
LEMMA Listed ==
    /\ \A i \in Lookup : OnList(i) <=> requests[i] > 0
    /\ \A i \in Lookup : OnList(i)' <=> requests'[i] > 0
    /\ \A i \in Conn \X {"auth"} : OnList(i) <=> phase[i[1]] = "lookup"
    /\ \A i \in Conn \X {"auth"} : OnList(i)' <=> phase'[i[1]] = "lookup"
    /\ \A i \in Conn \X {"auth"} : i[1] \in Conn /\ i[2] = "auth" /\ i = <<i[1], "auth">>
    /\ \A i \in Item : i \in Lookup \/ i \in Conn \X {"auth"}
  <1>1. \A i \in Lookup : i[2] # "auth"
    BY Items
  <1> QED BY <1>1 DEF OnList, Item, Lookup

\* Nothing is looped over.
LEMMA LoopRests ==
    ASSUME LoopInv, loop' = loop, loop.next = NoItem
    PROVE  LoopInv'
  <1>1. loop'.next = NoItem /\ loop'.rest = {} /\ NoItem \notin Lookup
    BY Items DEF LoopInv
  <1> QED BY <1>1 DEF LoopInv

\* The loop is not where something happens: with C, the connections whose entries
\* and phases may change, and D, those put out.
LEMMA LoopStays ==
    ASSUME GateInv, LoopInv, reader # NoConn, reader' \in {reader, NoConn},
           NEW C \in SUBSET Conn, NEW D \in SUBSET Conn, C \subseteq {reader} \cup D,
           loop' = [loop EXCEPT !.ousted = @ \cup D],
           \A i \in Lookup : i[1] \notin C => requests'[i] = requests[i],
           \A d \in Conn : d \notin C => phase'[d] = phase[d],
           \A d \in D : phase'[d] = "gone"
    PROVE  LoopInv'
  <1>1. /\ loop \in [next : Item \cup {NoItem}, rest : SUBSET Item, ousted : SUBSET Conn]
        /\ NoConn \notin Conn
    BY Parts, Items DEF LoopType
  <1>2. loop'.next = loop.next /\ loop'.rest = loop.rest /\ loop'.ousted = loop.ousted \cup D
    BY <1>1
  <1>3. \A i \in Item : i[1] \in Conn
    BY DEF Item
  <1>4. \A i \in loop.rest \cup {loop.next} : i # NoItem =>
            /\ i \in Item /\ i[1] # reader /\ i[1] # reader' /\ i[1] \in Conn
            /\ i[2] \in Black => phase[i[1]] \notin {"none", "lookup"}
    BY <1>1, <1>3 DEF LoopInv
  <1>5. ASSUME NEW i \in loop.rest \cup {loop.next}, i # NoItem
        PROVE  /\ i[2] \in Black => phase'[i[1]] \notin {"none", "lookup"}
               /\ OnList(i)' \/ i[1] \in loop'.ousted
    <2>1. i \in Item /\ i[1] # reader /\ (OnList(i) \/ i[1] \in loop.ousted)
      BY <1>4, <1>5 DEF LoopInv
    <2>2. CASE i[1] \in D
      BY <1>2, <2>2
    <2>3. CASE i[1] \notin D
      <3>1. i[1] \notin C /\ phase'[i[1]] = phase[i[1]]
        BY <1>4, <1>5, <2>1, <2>3
      <3>2. OnList(i) => OnList(i)'
        <4>1. CASE i \in Lookup
          BY <3>1, <4>1, Listed
        <4>2. CASE i \in Conn \X {"auth"}
          BY <3>1, <4>2, Listed
        <4> QED BY <2>1, <4>1, <4>2, Listed
      <3> QED BY <1>2, <1>4, <1>5, <2>1, <3>1, <3>2
    <2> QED BY <2>2, <2>3
  <1> QED BY <1>2, <1>4, <1>5 DEF LoopInv

\* The same where nobody is put out.
LEMMA ReaderOnly ==
    ASSUME GateInv, LoopInv, reader # NoConn, reader' \in {reader, NoConn}, loop' = loop,
           \A i \in Lookup : i[1] # reader => requests'[i] = requests[i],
           \A d \in Conn : d # reader => phase'[d] = phase[d]
    PROVE  LoopInv'
  <1>1. /\ loop \in [next : Item \cup {NoItem}, rest : SUBSET Item, ousted : SUBSET Conn]
        /\ reader \in Conn
    BY Parts DEF LoopType, Shape
  <1>2. PICK C \in SUBSET Conn, D \in SUBSET Conn : C = {reader} /\ D = {}
    BY <1>1
  <1>3. loop' = [loop EXCEPT !.ousted = @ \cup D]
    BY <1>1, <1>2
  <1>4. /\ C \subseteq {reader} \cup D
        /\ \A i \in Lookup : i[1] \notin C => requests'[i] = requests[i]
        /\ \A d \in Conn : d \notin C => phase'[d] = phase[d]
        /\ \A d \in D : phase'[d] = "gone"
    BY <1>2
  <1> QED BY <1>3, <1>4, LoopStays

\* The loop goes on.
LEMMA LoopAdvances ==
    ASSUME GateInv, LoopInv, loop.next # NoItem, Advance,
           \A i \in loop.rest : OnList(i) => OnList(i)',
           \A d \in Conn : phase[d] \notin {"none", "lookup"} => phase'[d] \notin {"none", "lookup"},
           \A i \in loop.rest : i[1] # reader'
    PROVE  LoopInv'
  <1>1. /\ loop \in [next : Item \cup {NoItem}, rest : SUBSET Item, ousted : SUBSET Conn]
        /\ NoItem \notin Item
    BY Parts, Items DEF LoopType
  <1>2. PICK n \in Following : loop' = IF n = NoItem THEN NoLoop
                                       ELSE [loop EXCEPT !.next = n, !.rest = @ \ {n}]
    BY DEF Advance
  <1>3. CASE n \in loop.rest
    <2>1. n \in Item /\ n # NoItem
      BY <1>1, <1>3
    <2>2. loop'.next = n /\ loop'.rest = loop.rest \ {n} /\ loop'.ousted = loop.ousted
      BY <1>1, <1>2, <2>1
    <2>3. /\ n \in Lookup => loop'.rest \subseteq Lookup
          /\ n \notin Lookup => loop'.rest \subseteq Conn \X {"auth"}
      <3>1. Lookup \cap (Conn \X {"auth"}) = {}
        <4>1. \A i \in Lookup : i[2] # "auth"
          BY Items
        <4> QED BY <4>1
      <3> QED BY <1>3, <2>2, <3>1 DEF LoopInv
    <2>4. \A i \in loop'.rest \cup {n} :
              /\ i[1] # reader'
              /\ i[2] \in Black => phase'[i[1]] \notin {"none", "lookup"}
              /\ OnList(i)' \/ i[1] \in loop'.ousted
      <3>1. \A i \in loop'.rest \cup {n} : i \in loop.rest /\ i \in Item /\ i # NoItem /\ i[1] \in Conn
        BY <1>1, <1>3, <2>2 DEF Item
      <3> QED BY <2>2, <3>1 DEF LoopInv
    <2> QED BY <2>1, <2>2, <2>3, <2>4 DEF LoopInv
  <1>4. CASE n = NoItem
    <2>1. loop'.next = NoItem /\ loop'.rest = {} /\ NoItem \notin Lookup
      BY <1>2, <1>4, Items DEF NoLoop
    <2> QED BY <2>1 DEF LoopInv
  <1> QED BY <1>2, <1>3, <1>4 DEF Following

\* Whatever a handler does at the gate, it does to c.
LEMMA RegisterOnly ==
    ASSUME phase \in [Conn -> Phase], NEW c \in Conn,
           NEW g, NEW q, NEW l, NEW r, NEW s,
           \/ RegisterLocalUser(c, g, q, l, r, s)
           \/ Keep(c, g, q, l, r, s) /\ UNCHANGED <<phase, dying>>
    PROVE  \A d \in Conn : d # c => phase'[d] = phase[d]
  <1>1. phase' = phase \/ \E p \in {"user", "gone"} : phase' = [phase EXCEPT ![c] = p]
    BY DEF RegisterLocalUser, Conclude
  <1> QED BY <1>1

\* The first lines of a connection, read in a callback.
LEMMA FirstLines ==
    ASSUME GateInv, LoopInv, NEW c \in Conn, reader = c, Line(c)
    PROVE  LoopInv'
  <1>1. Shape /\ c # NoConn
    BY Parts, Items
  <1>2. UNCHANGED <<loop, reader>>
    BY DEF Line, MrNick, MrUser, MCap, CapEnd, MrPong, MrServer, Leave, control
  <1>3. \A i \in Lookup : i[1] # c => requests'[i] = requests[i]
    BY <1>1 DEF Line, MrNick, MrUser, MCap, CapEnd, MrPong, MrServer, Leave,
                ExitUnknownClient, WithoutRequests, Shape
  <1>4. \A d \in Conn : d # c => phase'[d] = phase[d]
    <2>1. CASE MrNick(c) \/ MCap(c) \/ CapEnd(c)
      <3>1. PICK g, may : Try(c, may, g)
        BY <2>1 DEF MrNick, MCap, CapEnd
      <3>2. PICK q, l : q = queries[c] /\ l = listed[c]
        OBVIOUS
      <3>3. \/ RegisterLocalUser(c, g, q, l, ref, status)
            \/ Keep(c, g, q, l, ref, status) /\ UNCHANGED <<phase, dying>>
        BY <3>1, <3>2 DEF Try
      <3> QED BY <1>1, <3>3, RegisterOnly DEF Shape
    <2>2. CASE MrUser(c)
      <3>1. PICK g, q, l, r : \/ RegisterLocalUser(c, g, q, l, r, status)
                              \/ Keep(c, g, q, l, r, status) /\ UNCHANGED <<phase, dying>>
        BY <2>2 DEF MrUser
      <3> QED BY <1>1, <3>1, RegisterOnly DEF Shape
    <2>3. CASE MrPong(c)
      BY <2>3 DEF MrPong
    <2>4. CASE MrServer(c) \/ Leave(c)
      <3>1. PICK p : phase' = [phase EXCEPT ![c] = p]
        BY <2>4 DEF MrServer, Leave, ExitUnknownClient
      <3> QED BY <1>1, <3>1 DEF Shape
    <2> QED BY <2>1, <2>2, <2>3, <2>4 DEF Line
  <1> QED BY <1>1, <1>2, <1>3, <1>4, ReaderOnly

\* What one who registered in a callback does to others.
LEMMA OthersReached ==
    ASSUME GateInv, LoopInv, reader # NoConn,
           \/ \E c \in Conn : Displace(c) \/ MeSvslogin(c) \/ WriteError(c)
           \/ \E S \in Configs : Rehash(S)
    PROVE  LoopInv'
  <1>1. Shape /\ loop \in [next : Item \cup {NoItem}, rest : SUBSET Item, ousted : SUBSET Conn]
    BY Parts DEF LoopType
  <1>2. ASSUME NEW c \in Conn, Displace(c) PROVE LoopInv'
    <2>1. /\ phase' = [phase EXCEPT ![c] = "gone"] /\ requests' = WithoutRequests(c)
          /\ reader' = reader
      BY <1>2 DEF Displace, ExitUnknownClient
    <2>2. /\ \A i \in Lookup : i[1] \notin {c} => requests'[i] = requests[i]
          /\ \A d \in Conn : d \notin {c} => phase'[d] = phase[d]
          /\ \A d \in {c} : phase'[d] = "gone"
      BY <1>1, <2>1 DEF WithoutRequests, Shape
    <2>3. CASE loop.next = NoItem
      <3>1. loop' = loop
        BY <1>2, <2>3 DEF Displace
      <3> QED BY <2>3, <3>1, LoopRests
    <2>4. CASE loop.next # NoItem
      <3>1. loop' = [loop EXCEPT !.ousted = @ \cup {c}]
        BY <1>2, <2>4 DEF Displace
      <3>2. PICK C \in SUBSET Conn : C = {c}
        OBVIOUS
      <3> QED BY <2>1, <2>2, <3>1, <3>2, LoopStays
    <2> QED BY <2>3, <2>4
  <1>3. CASE \/ \E c \in Conn : MeSvslogin(c) \/ WriteError(c)
             \/ \E S \in Configs : Rehash(S)
    <2>1. UNCHANGED <<loop, reader, phase, requests>>
      BY <1>3 DEF MeSvslogin, WriteError, Rehash, Try, control
    <2> QED BY <2>1, ReaderOnly
  <1> QED BY <1>2, <1>3

\* release_auth_client.
LEMMA Released ==
    ASSUME GateInv, NEW c \in Conn, auth[c] # {}, reader = NoConn, NEW a,
           ReleaseAuthClient(c, a)
    PROVE  /\ phase[c] = "lookup"
           /\ reader' \in {c, NoConn}
           /\ \A d \in Conn : phase[d] \notin {"none", "lookup"} => phase'[d] = phase[d]
           /\ \A d \in Conn : d # c => phase'[d] = phase[d]
  <1>1. Shape /\ Stands(c) /\ c # NoConn
    BY Parts, Items
  <1>2. phase[c] = "lookup"
    BY <1>1 DEF Stands
  <1>3. CASE a = {}
    <2>1. phase' = [phase EXCEPT ![c] = "open"] /\ reader' \in {c, NoConn}
      BY <1>3 DEF ReleaseAuthClient
    <2> QED BY <1>1, <1>2, <2>1 DEF Shape
  <1>4. CASE a # {}
    <2>1. phase' = phase /\ reader' = NoConn
      BY <1>4 DEF ReleaseAuthClient
    <2> QED BY <1>2, <2>1
  <1> QED BY <1>3, <1>4

\* An entry of the loop is handled.
LEMMA EntryHandled ==
    ASSUME GateInv, LoopInv, reader = NoConn, LoopStep
    PROVE  LoopInv'
  <1>1. /\ Shape /\ \A d \in Conn : Stands(d)
        /\ NoItem \notin Item /\ Lookup \subseteq Item /\ NoConn \notin Conn
        /\ loop.rest \subseteq Item /\ loop.next \notin loop.rest
    BY Parts, Items DEF LoopType, LoopInv
  <1>2. \A i \in loop.rest : i \in Item /\ i # NoItem /\ i[1] \in Conn
    BY <1>1 DEF Item
  <1>3. ASSUME NEW i \in Lookup, ResendQuery(i) PROVE LoopInv'
    <2>1. /\ loop.next = i /\ Advance /\ requests' = [requests EXCEPT ![i] = @ - 1]
          /\ UNCHANGED <<phase, reader>>
      BY <1>3 DEF ResendQuery, Looping
    <2>2. loop.next # NoItem /\ loop.rest \subseteq Lookup
      BY <1>1, <1>3, <2>1 DEF LoopInv
    <2>3. \A j \in loop.rest : OnList(j) => OnList(j)'
      <3>1. \A j \in loop.rest : requests'[j] = requests[j]
        BY <1>1, <2>1, <2>2 DEF Shape
      <3> QED BY <2>2, <3>1, Listed
    <2> QED BY <1>1, <1>2, <2>1, <2>2, <2>3, LoopAdvances
  <1>4. ASSUME NEW c \in Conn, ExpireHost(c) PROVE LoopInv'
    <2>1. PICK i \in Lookup : i = <<c, "host">>
      BY Items
    <2>2. /\ loop.next = i /\ Advance /\ requests[i] = 1 /\ AuthDnsCallback(c)
      BY <1>4, <2>1 DEF ExpireHost, Looping
    <2>3. loop.next # NoItem /\ loop.rest \subseteq Lookup
      BY <1>1, <2>1, <2>2 DEF LoopInv
    <2>4. auth[c] # {}
      <3>1. 1 > 0 /\ hand # <<c, "host">>
        BY NoHand
      <3> QED BY <1>1, <2>1, <2>2, <3>1 DEF Stands, Asked
    <2>5. PICK a : ReleaseAuthClient(c, a)
      BY <2>2 DEF AuthDnsCallback
    <2>6. requests' = requests \/ requests' = [requests EXCEPT ![i] = 0]
      BY <2>1, <2>2 DEF AuthDnsCallback
    <2>7. /\ phase[c] = "lookup"
          /\ reader' \in {c, NoConn}
          /\ \A d \in Conn : phase[d] \notin {"none", "lookup"} => phase'[d] = phase[d]
      BY <2>4, <2>5, Released
    <2>8. \A j \in loop.rest : OnList(j) => OnList(j)'
      <3>1. \A j \in loop.rest : requests'[j] = requests[j]
        BY <1>1, <2>2, <2>3, <2>6 DEF Shape
      <3> QED BY <2>3, <3>1, Listed
    <2>9. \A j \in loop.rest : j[1] # c
      <3> SUFFICES ASSUME NEW j \in loop.rest, j[1] = c PROVE FALSE
        OBVIOUS
      <3>1. j \in Lookup /\ j # i
        BY <1>1, <2>2, <2>3
      <3>2. j[2] \in Black
        BY <2>1, <3>1, Items
      <3> QED BY <1>2, <2>7, <3>2 DEF LoopInv
    <2>10. \A j \in loop.rest : j[1] # reader'
      BY <1>1, <1>2, <2>7, <2>9
    <2>11. \A d \in Conn : phase[d] \notin {"none", "lookup"} => phase'[d] \notin {"none", "lookup"}
      BY <2>7
    <2> QED BY <2>2, <2>3, <2>8, <2>10, <2>11, LoopAdvances
  <1>5. ASSUME NEW c \in Conn, ExpireAuth(c) PROVE LoopInv'
    <2>1. PICK i \in Conn \X {"auth"} : i = <<c, "auth">>
      OBVIOUS
    <2>2. /\ loop.next = i /\ Advance /\ OnList(i) /\ ReleaseAuthClient(c, {})
      BY <1>5, <2>1 DEF ExpireAuth, Looping
    <2>3. loop.next # NoItem /\ loop.rest \subseteq Conn \X {"auth"}
      <3>1. i \in Item /\ i[2] = "auth"
        BY <2>1, Items
      <3>2. i \notin Lookup
        BY <3>1, Items
      <3> QED BY <1>1, <2>2, <3>1, <3>2 DEF LoopInv
    <2>4. auth[c] # {}
      <3>1. phase[c] = "lookup"
        BY <2>1, <2>2, Listed
      <3> QED BY <1>1, <3>1 DEF Stands
    <2>5. PICK a : a = {}
      OBVIOUS
    <2>6. /\ phase[c] = "lookup"
          /\ reader' \in {c, NoConn}
          /\ \A d \in Conn : phase[d] \notin {"none", "lookup"} => phase'[d] = phase[d]
          /\ \A d \in Conn : d # c => phase'[d] = phase[d]
      BY <2>2, <2>4, <2>5, Released
    <2>7. \A j \in loop.rest : j[1] # c /\ (OnList(j) => OnList(j)')
      <3> SUFFICES ASSUME NEW j \in loop.rest PROVE j[1] # c /\ (OnList(j) => OnList(j)')
        OBVIOUS
      <3>1. j \in Conn \X {"auth"} /\ j # i
        BY <1>1, <2>2, <2>3
      <3>2. j[1] # c /\ j[1] \in Conn
        BY <2>1, <3>1, Listed
      <3> QED BY <2>6, <3>1, <3>2, Listed
    <2>8. \A j \in loop.rest : j[1] # reader'
      BY <1>1, <1>2, <2>6, <2>7
    <2>9. \A d \in Conn : phase[d] \notin {"none", "lookup"} => phase'[d] \notin {"none", "lookup"}
      BY <2>6
    <2> QED BY <2>2, <2>3, <2>7, <2>8, <2>9, LoopAdvances
  <1>6. ASSUME NEW c \in Conn, NEW b \in Black, ExpireBlacklist(c, b) PROVE LoopInv'
    <2>1. PICK i \in Lookup : i = <<c, b>>
      BY Items
    <2>2. /\ loop.next = i /\ Advance /\ requests[i] = 1 /\ BlacklistDnsCallback(c, b, FALSE)
      BY <1>6, <2>1 DEF ExpireBlacklist, Looping
    <2>3. loop.next # NoItem /\ loop.rest \subseteq Lookup
      BY <1>1, <2>1, <2>2 DEF LoopInv
    <2>4. requests' = [requests EXCEPT ![i] = 0] /\ reader' = NoConn
      BY <2>1, <2>2 DEF BlacklistDnsCallback
    <2>5. \A j \in loop.rest : OnList(j) => OnList(j)'
      <3>1. \A j \in loop.rest : requests'[j] = requests[j]
        BY <1>1, <2>2, <2>3, <2>4 DEF Shape
      <3> QED BY <2>3, <3>1, Listed
    <2>6. phase' = phase \/ \E p \in {"user", "gone"} : phase' = [phase EXCEPT ![c] = p]
      BY <2>2 DEF BlacklistDnsCallback, RegisterLocalUser, Conclude
    <2>7. \A d \in Conn : phase[d] \notin {"none", "lookup"} => phase'[d] \notin {"none", "lookup"}
      BY <1>1, <2>6 DEF Shape
    <2> QED BY <1>1, <1>2, <2>2, <2>3, <2>4, <2>5, <2>7, LoopAdvances
  <1> QED BY <1>3, <1>4, <1>5, <1>6 DEF LoopStep

\* A timer starts.
LEMMA TimerStarts ==
    ASSUME GateInv, TimerStart
    PROVE  LoopInv'
  <1>1. \A d \in Conn : Stands(d)
    BY Parts
  <1>2. PICK due \in SUBSET Item : TimeoutResolver(due) \/ TimeoutAuthQueries(due)
    BY DEF TimerStart
  <1>3. Start(due)
    BY <1>2 DEF TimeoutResolver, TimeoutAuthQueries
  <1>4. PICK n \in due : loop' = [next |-> n, rest |-> due \ {n}, ousted |-> {}]
    BY <1>3 DEF Start
  <1>5. /\ loop'.next = n /\ loop'.rest = due \ {n} /\ reader' = NoConn
        /\ UNCHANGED <<phase, requests>>
    BY <1>3, <1>4 DEF Start, Idle
  <1>6. \A i \in due : i \in Item /\ i # NoItem /\ i[1] \in Conn /\ i[1] # NoConn /\ OnList(i)
    <2>1. \A i \in Item : i # NoItem /\ i[1] \in Conn /\ NoConn \notin Conn
      BY Items DEF Item
    <2> QED BY <1>2, <2>1 DEF TimeoutResolver, TimeoutAuthQueries
  <1>7. \A i \in due : OnList(i)'
    <2> SUFFICES ASSUME NEW i \in due PROVE OnList(i)'
      OBVIOUS
    <2>1. CASE i \in Lookup
      BY <1>5, <1>6, <2>1, Listed
    <2>2. CASE i \in Conn \X {"auth"}
      BY <1>5, <1>6, <2>2, Listed
    <2> QED BY <1>6, <2>1, <2>2, Listed
  <1>8. \A i \in due : i[2] \in Black => phase[i[1]] = "open"
    <2> SUFFICES ASSUME NEW i \in due, i[2] \in Black PROVE phase[i[1]] = "open"
      OBVIOUS
    <2>1. i \notin Conn \X {"auth"}
      BY <1>6, Listed, PreRegAssumption
    <2>2. i \in Lookup /\ requests[i] > 0 /\ i = <<i[1], i[2]>>
      BY <1>6, <2>1, Listed, Items
    <2>3. PICK c \in Conn, b \in Black : i = <<c, b>> /\ c = i[1] /\ b = i[2]
      BY <1>6, <2>2
    <2>4. Asked(c, b)
      BY <2>2, <2>3 DEF Asked
    <2>5. b \in queries[c]
      BY <1>1, <2>4 DEF Stands
    <2> QED BY <1>1, <2>3, <2>5 DEF Stands
  <1>9. /\ n \in Lookup => due \subseteq Lookup
        /\ n \notin Lookup => due \subseteq Conn \X {"auth"}
    <2>1. due \subseteq Lookup \/ due \subseteq Conn \X {"auth"}
      BY <1>2 DEF TimeoutResolver, TimeoutAuthQueries
    <2>2. \A i \in Lookup : i \notin Conn \X {"auth"}
      BY Items
    <2> QED BY <2>1, <2>2
  <1> QED BY <1>5, <1>6, <1>7, <1>8, <1>9 DEF LoopInv

\* Every step leaves the loop its place, or has put out the owner of what it loses.
LEMMA LoopStepKeeps ==
    ASSUME GateInv, LoopInv, [Next]_vars
    PROVE  LoopInv'
  <1>1. Shape /\ Hands
    BY Parts
  <1>2. CASE UNCHANGED vars
    <2>1. UNCHANGED <<phase, requests, loop, reader>>
      BY <1>2 DEF vars, control
    <2> QED BY <2>1 DEF LoopInv, OnList
  <1>3. CASE TimerStart
    BY <1>3, TimerStarts
  <1>4. CASE LoopStep
    <2>1. reader = NoConn
      BY <1>4 DEF LoopStep, ResendQuery, ExpireHost, ExpireAuth, ExpireBlacklist, Looping
    <2> QED BY <1>4, <2>1, EntryHandled
  <1>5. CASE ReadDone
    <2>1. /\ reader # NoConn /\ reader' = NoConn /\ UNCHANGED <<phase, loop>>
          /\ requests' = IF hand = NoItem THEN requests ELSE [requests EXCEPT ![hand] = 0]
      BY <1>5 DEF ReadDone
    <2>2. \A i \in Lookup : i[1] # reader => requests'[i] = requests[i]
      <3>1. hand # NoItem => hand = <<reader, "host">>
        BY <1>1 DEF Hands
      <3> QED BY <1>1, <2>1, <3>1 DEF Shape
    <2> QED BY <2>1, <2>2, ReaderOnly
  <1>6. ASSUME NEW c \in Conn, Line(c) PROVE LoopInv'
    <2>1. Idle \/ reader = c
      BY <1>6 DEF Line, MrNick, MrUser, MCap, CapEnd, MrPong, MrServer, Leave, Reads
    <2>2. UNCHANGED loop
      BY <1>6 DEF Line, MrNick, MrUser, MCap, CapEnd, MrPong, MrServer, Leave, control
    <2>3. CASE Idle
      BY <2>2, <2>3, LoopRests DEF Idle
    <2>4. CASE reader = c
      BY <1>6, <2>4, FirstLines
    <2> QED BY <2>1, <2>3, <2>4
  <1>7. CASE \/ \E c \in Conn :
                  \/ Accept(c) \/ IdentConnected(c) \/ IdentDone(c) \/ ReplyHost(c)
                  \/ \E b \in Black : ReplyBlacklist(c, b)
                  \/ ExitAborted(c)
    <2>1. Idle /\ UNCHANGED loop
      BY <1>7 DEF Accept, IdentConnected, IdentDone, ReplyHost, ReplyBlacklist, ExitAborted, control
    <2> QED BY <2>1, LoopRests DEF Idle
  <1>8. CASE \/ \E c \in Conn : Displace(c) \/ MeSvslogin(c) \/ WriteError(c)
             \/ \E S \in Configs : Rehash(S)
    <2>1. CASE reader # NoConn
      BY <1>8, <2>1, OthersReached
    <2>2. CASE reader = NoConn
      <3>1. Idle
        <4>1. ASSUME NEW c \in Conn PROVE ~(reader = c)
          BY <2>2, Items
        <4> QED BY <1>8, <2>2, <4>1 DEF Displace, MeSvslogin, WriteError, Rehash, Reaches
      <3>2. loop' = loop
        BY <1>8, <3>1 DEF Displace, MeSvslogin, WriteError, Rehash, Idle, control
      <3> QED BY <3>1, <3>2, LoopRests DEF Idle
    <2> QED BY <2>1, <2>2
  <1> QED BY <1>2, <1>3, <1>4, <1>5, <1>6, <1>7, <1>8 DEF Next, LookupStep, OtherStep

\* Whoever waits to be registered still owes something: nobody is forgotten at the
\* gate, whatever comes last (the callers of register_local_user).
THEOREM PreRegForgetsNobody == Spec => []G!NobodyForgotten
  <1>1. GateInv => G!NobodyForgotten
    <2> SUFFICES ASSUME GateInv, NEW c \in Conn, GatePhase[c] = "waiting"
                 PROVE  GateOwes[c] # {}
      BY DEF G!NobodyForgotten
    <2>1. phase[c] # "waiting"
      BY Parts DEF Shape, Phase
    <2>2. Waits(c)
      BY <2>1 DEF GatePhase, Waits, Unregistered
    <2> QED BY <2>2 DEF GateInv, NobodyForgotten, GateOwes
  <1> QED BY <1>1, GateInvariant, PTL

\* The entry that a loop has saved goes from its list only where one who registered
\* in a callback of that loop put its owner out, and the request whose callback
\* runs never does (DLINK_FOREACH_SAFE in src/res.c:183 and src/s_auth.c:436).
THEOREM PreRegLoops == Spec => []LoopSafe
  <1>1. Init => GateInv /\ LoopInv
    <2>1. Init => GateInv
      BY AtFirst
    <2>2. Init => LoopInv
      BY Items DEF Init, LoopInv, NoLoop
    <2> QED BY <2>1, <2>2
  <1>2. GateInv /\ LoopInv /\ [Next]_vars => GateInv' /\ LoopInv'
    BY StepKeeps, LoopStepKeeps
  <1>3. GateInv /\ LoopInv => LoopSafe
    <2> SUFFICES ASSUME GateInv, LoopInv PROVE LoopSafe
      OBVIOUS
    <2>1. Wild => loop.next[1] \in loop.ousted
      BY DEF LoopInv, Wild
    <2>2. hand # NoItem => OnList(hand)
      <3> SUFFICES ASSUME hand # NoItem PROVE OnList(hand)
        OBVIOUS
      <3>1. PICK c \in Conn : hand = <<c, "host">>
        BY Parts DEF Hands, Shape
      <3>2. Asked(c, "host")
        BY <3>1, Parts DEF Stands
      <3>3. PICK i \in Lookup : i = <<c, "host">>
        BY Items
      <3> QED BY <3>1, <3>2, <3>3, Listed DEF Asked
    <2> QED BY <2>1, <2>2 DEF LoopSafe
  <1> QED BY <1>1, <1>2, <1>3, PTL DEF Spec

===============================================================================
