---------------------------- MODULE NickAgree_proofs ----------------------------
(***************************************************************************)
(* The servers agree on who holds which nick, when nothing is under way:   *)
(* in any network while no link has broken, and next to the user's own     *)
(* server over any number of splits and rejoins.  For any set of users and *)
(* nicks, any clocks, any choice of SAVE or KILL; without operators, and   *)
(* without two nick changes of a client in a second where SAVE is used.    *)
(*                                                                         *)
(* Each handler is followed user by user: what it does to the user its     *)
(* line is about, to the one who holds the nick, and that it leaves the    *)
(* others alone.  ReadStep of NickHearsay_proofs does the rest.            *)
(***************************************************************************)
EXTENDS NickHearsay_proofs

-----------------------------------------------------------------------------
(* What a handler does to one user leaves the others alone.                *)

\* A server while it handles an event about users.
Plain(s, L) ==
    /\ L = [client |-> L.client, nd |-> L.nd, out |-> L.out]
    /\ L.client = [u \in User |-> L.client[u]]
    /\ L.out \in [Server -> Seq(UserLine)]
    /\ \A r \in Server : r \notin est[s] => L.out[r] = <<>>

\* v is as it was, and what is said of it.
Mute(L, K, v) ==
    /\ K.client[v] = L.client[v]
    /\ \A r \in Server : /\ Still(L.out[r], v) => Still(K.out[r], v)
                         /\ \A k : Line(L.out[r], v, k) => Line(K.out[r], v, k)

\* v is e, and nothing has been said of it.
Fresh(L, v, e) == L.client[v] = e /\ \A r \in Server : Still(L.out[r], v)

\* A line about users, put behind others.
LEMMA LinesAppend ==
    ASSUME NEW q \in Seq(UserLine), NEW m \in UserLine, NEW v
    PROVE  /\ Append(q, m) \in Seq(UserLine)
           /\ ~Concerns(m, v) => /\ Still(q, v) => Still(Append(q, m), v)
                                 /\ \A k : Line(q, v, k) => Line(Append(q, m), v, k)
           /\ Concerns(m, v) /\ Still(q, v) => Line(Append(q, m), v, m)
  <1>1. PICK p : p = Append(q, m)
    OBVIOUS
  <1>2. PICK n \in Nat : n = Len(q)
    OBVIOUS
  <1>3. /\ p \in Seq(UserLine) /\ Len(p) = n + 1 /\ p[n + 1] = m
        /\ \A i \in 1..n : p[i] = q[i]
    BY <1>1, <1>2
  <1>4. \A i \in 1..(n + 1) : i = n + 1 \/ i \in 1..n
    OBVIOUS
  <1>5. ~Concerns(m, v) /\ Still(q, v) => Still(p, v)
    BY <1>2, <1>3, <1>4 DEF Still
  <1>6. ASSUME ~Concerns(m, v), NEW k, Line(q, v, k)
        PROVE  Line(p, v, k)
    <2>1. PICK j \in 1..n : q[j] = k /\ Concerns(k, v) /\ \A i \in 1..n : i # j => ~Concerns(q[i], v)
      BY <1>2, <1>6 DEF Line
    <2>2. j \in 1..(n + 1) /\ p[j] = k /\ \A i \in 1..(n + 1) : i # j => ~Concerns(p[i], v)
      BY <1>3, <1>4, <1>6, <2>1
    <2> QED BY <1>3, <2>1, <2>2 DEF Line
  <1>7. ASSUME Concerns(m, v), Still(q, v)
        PROVE  Line(p, v, m)
    <2>1. n + 1 \in 1..(n + 1) /\ \A i \in 1..(n + 1) : i # n + 1 => ~Concerns(p[i], v)
      BY <1>2, <1>3, <1>4, <1>7 DEF Still
    <2> QED BY <1>3, <1>7, <2>1 DEF Line
  <1> QED BY <1>1, <1>3, <1>5, <1>6, <1>7

\* One who is left alone by two steps is left alone by both.
LEMMA MuteFacts ==
    /\ \A L, v : Mute(L, L, v)
    /\ \A L, K, J, v : Mute(L, K, v) /\ Mute(K, J, v) => Mute(L, J, v)
    /\ \A L, K, v, e : Mute(L, K, v) /\ Fresh(L, v, e) => Fresh(K, v, e)
  <1>1. ASSUME NEW L, NEW v PROVE Mute(L, L, v)
    BY DEF Mute
  <1>2. ASSUME NEW L, NEW K, NEW J, NEW v, Mute(L, K, v), Mute(K, J, v) PROVE Mute(L, J, v)
    BY <1>2 DEF Mute
  <1>3. ASSUME NEW L, NEW K, NEW v, NEW e, Mute(L, K, v), Fresh(L, v, e) PROVE Fresh(K, v, e)
    BY <1>3 DEF Mute, Fresh
  <1> QED BY <1>1, <1>2, <1>3

\* A line about a user built by a handler from typed parts is one.
LEMMA UserLines ==
    /\ \A u \in User : \A n \in NameFor(u), ts \in Nat :
         /\ [type |-> "UID", u |-> u, nick |-> n, ts |-> ts] \in UserLine
         /\ [type |-> "NICK", u |-> u, nick |-> n, ts |-> ts] \in UserLine
    /\ \A u \in User, ts \in Nat : [type |-> "SAVE", u |-> u, ts |-> ts] \in UserLine
    /\ \A u \in User : [type |-> "QUIT", u |-> u] \in UserLine
    /\ \A u \in User, x \in Server \cup User : [type |-> "KILL", u |-> u, src |-> x] \in UserLine
  BY BuiltMessages DEF UserLine

\* s, which was L, is K now that it has said m to the peers.
Sent(s, L, K, peers, m) ==
    /\ Plain(s, K) /\ K.client = L.client
    /\ \A r \in Server : /\ r \notin peers => K.out[r] = L.out[r]
                         /\ r \in peers => K.out[r] = Append(L.out[r], m)
    /\ \A v : ~Concerns(m, v) => Mute(L, K, v)
    /\ \A v : Concerns(m, v) => \A r \in Server : r \in peers /\ Still(L.out[r], v) => Line(K.out[r], v, m)

\* m is said to some of the peers.
LEMMA SendToPlain ==
    ASSUME NEW s, NEW L, Plain(s, L), NEW peers, peers \subseteq est[s], NEW m \in UserLine,
           NEW K, K = SendTo(L, peers, m)
    PROVE  Sent(s, L, K, peers, m)
  <1> DEFINE out == [t \in Server |-> IF t \in peers THEN Append(L.out[t], m) ELSE L.out[t]]
  <1>1. \A r \in Server : /\ out[r] = IF r \in peers THEN Append(L.out[r], m) ELSE L.out[r]
                          /\ L.out[r] \in Seq(UserLine)
    BY DEF Plain
  <1>2. out \in [Server -> Seq(UserLine)]
    <2>1. \A r \in Server : out[r] \in Seq(UserLine)
      BY <1>1, LinesAppend
    <2> QED BY <2>1
  <1>3. \A r \in Server : r \notin est[s] => out[r] = <<>>
    BY <1>1 DEF Plain
  <1>4. K = [L EXCEPT !.out = out]
    BY DEF SendTo
  <1> HIDE DEF out
  <1>5. K = [client |-> L.client, nd |-> L.nd, out |-> out]
    BY <1>4, Replaced DEF Plain
  <1>6. K.client = L.client /\ K.out = out /\ K.nd = L.nd
    BY <1>5
  <1>7. Plain(s, K)
    BY <1>2, <1>3, <1>5, <1>6 DEF Plain
  <1>8. ASSUME NEW v, ~Concerns(m, v) PROVE Mute(L, K, v)
    <2>1. ASSUME NEW r \in Server
          PROVE /\ Still(L.out[r], v) => Still(K.out[r], v)
                /\ \A k : Line(L.out[r], v, k) => Line(K.out[r], v, k)
      <3>1. PICK q : q = L.out[r]
        OBVIOUS
      <3>2. q \in Seq(UserLine) /\ K.out[r] = IF r \in peers THEN Append(q, m) ELSE q
        BY <1>1, <1>6, <3>1
      <3>3. /\ Still(q, v) => Still(Append(q, m), v)
            /\ \A k : Line(q, v, k) => Line(Append(q, m), v, k)
        BY <1>8, <3>2, LinesAppend
      <3> QED BY <3>1, <3>2, <3>3
    <2> QED BY <1>6, <2>1 DEF Mute
  <1>9. ASSUME NEW v, Concerns(m, v), NEW r \in Server, r \in peers, Still(L.out[r], v)
        PROVE  Line(K.out[r], v, m)
    BY <1>1, <1>6, <1>9, LinesAppend
  <1> QED BY <1>1, <1>6, <1>7, <1>8, <1>9 DEF Sent

\* s changes what it has of u, and perhaps the names it holds back.
LEMMA PutPlain ==
    ASSUME NEW s, NEW L, Plain(s, L), NEW u \in User, NEW f, NEW d, NEW K,
           K = [client |-> [L.client EXCEPT ![u] = f], nd |-> d, out |-> L.out]
    PROVE  /\ Plain(s, K) /\ K.out = L.out /\ K.client[u] = f
           /\ \A v \in User \ {u} : Mute(L, K, v)
  <1>1. PICK c : c = [L.client EXCEPT ![u] = f]
    OBVIOUS
  <1>2. c = [v \in User |-> IF v = u THEN f ELSE L.client[v]]
    BY <1>1 DEF Plain
  <1>3. K = [client |-> c, nd |-> d, out |-> L.out]
    BY <1>1
  <1>4. K.client = c /\ K.out = L.out /\ K.nd = d
    BY <1>3
  <1>5. c = [v \in User |-> c[v]] /\ c[u] = f /\ \A v \in User \ {u} : c[v] = L.client[v]
    BY <1>2
  <1>6. Plain(s, K)
    BY <1>3, <1>4, <1>5 DEF Plain
  <1> QED BY <1>4, <1>5, <1>6 DEF Mute

\* It drops u, or stores it anew.
LEMMA SetPlain ==
    ASSUME NEW s, NEW L, Plain(s, L), NEW u \in User, NEW e, NEW K, K = Drop(L, u) \/ K = Store(L, u, e)
    PROVE  /\ Plain(s, K) /\ K.out = L.out
           /\ K.client[u] = (IF K = Drop(L, u) THEN Absent ELSE e)
           /\ \A v \in User \ {u} : Mute(L, K, v)
  <1>1. CASE K = Drop(L, u)
    <2>1. Drop(L, u) = [client |-> [L.client EXCEPT ![u] = Absent], nd |-> L.nd, out |-> L.out]
      <3>1. PICK c : c = [L.client EXCEPT ![u] = Absent]
        OBVIOUS
      <3>2. Drop(L, u) = [L EXCEPT !.client = c]
        BY <3>1 DEF Drop
      <3>3. Drop(L, u) = [client |-> c, nd |-> L.nd, out |-> L.out]
        BY <3>2, Replaced DEF Plain
      <3> QED BY <3>1, <3>3
    <2> QED BY <1>1, <2>1, PutPlain
  <1>2. CASE K = Store(L, u, e) /\ K # Drop(L, u)
    BY <1>2, PutPlain DEF Store
  <1> QED BY <1>1, <1>2

\* What is so of a user is so when the others have been seen to.
LEMMA MuteKeeps ==
    ASSUME NEW L, NEW K, NEW v, Mute(L, K, v), NEW e
    PROVE  /\ Leaves(v, e, L.client[v], L.out) => Leaves(v, e, K.client[v], K.out)
           /\ \A s, peers : Saves(s, peers, v, e, L.client[v], L.out) => Saves(s, peers, v, e, K.client[v], K.out)
           /\ \A peers, type : Ends(peers, v, e, L.client[v], L.out, type) => Ends(peers, v, e, K.client[v], K.out, type)
           /\ \A t : Silent(t, v, L.out) => Silent(t, v, K.out)
           /\ \A t \in Server : /\ \A type : Ending(L.out[t], v, type) => Ending(K.out[t], v, type)
                                /\ \A ts : SaveFor(L.out[t], v, ts) => SaveFor(K.out[t], v, ts)
                                /\ Still(L.out[t], v) => Still(K.out[t], v)
  <1>1. K.client[v] = L.client[v] /\ \A r \in Server : Still(L.out[r], v) => Still(K.out[r], v)
    BY DEF Mute
  <1>2. ASSUME NEW r \in Server
        PROVE  /\ \A type : Ending(L.out[r], v, type) => Ending(K.out[r], v, type)
               /\ \A ts : SaveFor(L.out[r], v, ts) => SaveFor(K.out[r], v, ts)
               /\ \A type, nick, ts : Tidings(L.out[r], v, type, nick, ts) => Tidings(K.out[r], v, type, nick, ts)
    <2>1. \A k : Line(L.out[r], v, k) => Line(K.out[r], v, k)
      BY DEF Mute
    <2>2. \A type : Ending(L.out[r], v, type) => Ending(K.out[r], v, type)
      BY <2>1 DEF Ending
    <2>3. \A ts : SaveFor(L.out[r], v, ts) => SaveFor(K.out[r], v, ts)
      BY <2>1 DEF SaveFor
    <2>4. \A type, nick, ts : Tidings(L.out[r], v, type, nick, ts) => Tidings(K.out[r], v, type, nick, ts)
      BY <2>1 DEF Tidings
    <2> QED BY <2>2, <2>3, <2>4
  <1>3. Leaves(v, e, L.client[v], L.out) => Leaves(v, e, K.client[v], K.out)
    BY <1>1 DEF Leaves
  <1>4. ASSUME NEW s, NEW peers, Saves(s, peers, v, e, L.client[v], L.out)
        PROVE  Saves(s, peers, v, e, K.client[v], K.out)
    BY <1>1, <1>2, <1>4 DEF Saves
  <1>5. ASSUME NEW peers, NEW type, Ends(peers, v, e, L.client[v], L.out, type)
        PROVE  Ends(peers, v, e, K.client[v], K.out, type)
    BY <1>1, <1>2, <1>5 DEF Ends
  <1>6. \A t : Silent(t, v, L.out) => Silent(t, v, K.out)
    BY <1>1 DEF Silent
  <1> QED BY <1>1, <1>2, <1>3, <1>4, <1>5, <1>6

\* s has seen to some of the users, but not yet to u, about whom it has got a line.
Ready(s, u, L) ==
    /\ Plain(s, L) /\ Fresh(L, u, client[s][u])
    /\ \A v \in User \ {u} : Aside(s, v, client[s][v], L.client[v], L.out)

\* The others have been seen to.
Rest(s, u, L) == \A v \in User \ {u} : Aside(s, v, client[s][v], L.client[v], L.out)

\* The others have still been seen to when a step leaves them alone.
LEMMA RestKept ==
    ASSUME NEW s, NEW u, NEW L, Rest(s, u, L), NEW K, \A v \in User \ {u} : Mute(L, K, v)
    PROVE  Rest(s, u, K)
  <1>1. ASSUME NEW v \in User \ {u}
        PROVE  Aside(s, v, client[s][v], K.client[v], K.out)
    <2>1. Aside(s, v, client[s][v], L.client[v], L.out) /\ Mute(L, K, v)
      BY DEF Rest
    <2>2. PICK e : e = client[s][v]
      OBVIOUS
    <2>3. /\ Leaves(v, e, L.client[v], L.out) => Leaves(v, e, K.client[v], K.out)
          /\ Saves(s, est[s], v, e, L.client[v], L.out) => Saves(s, est[s], v, e, K.client[v], K.out)
          /\ Ends(est[s], v, e, L.client[v], L.out, "KILL") => Ends(est[s], v, e, K.client[v], K.out, "KILL")
      BY <2>1, MuteKeeps
    <2> QED BY <2>1, <2>2, <2>3 DEF Aside
  <1> QED BY <1>1 DEF Rest

\* A handler starts with nobody seen to, and nothing said.
LEMMA HereReady ==
    ASSUME IInv, NEW s \in Server, NEW u \in User
    PROVE  Ready(s, u, Here(s))
  <1>1. PICK L : L = Here(s)
    OBVIOUS
  <1>2. /\ L = [client |-> client[s], nd |-> nd[s], out |-> [t \in Server |-> <<>>]]
        /\ client[s] \in Table
    BY <1>1 DEF Here, IInv, TypeOK
  <1>3. L.client = client[s] /\ L.nd = nd[s] /\ L.out = [t \in Server |-> <<>>]
    BY <1>2
  <1>4. \A r \in Server : L.out[r] = <<>>
    BY <1>3
  <1>5. L.out \in [Server -> Seq(UserLine)]
    <2>1. <<>> \in Seq(UserLine)
      OBVIOUS
    <2> QED BY <1>3, <2>1
  <1>6. Plain(s, L)
    <2>1. L.client = [v \in User |-> L.client[v]]
      BY <1>2, <1>3 DEF Table
    <2>2. L = [client |-> L.client, nd |-> L.nd, out |-> L.out]
      BY <1>2, <1>3
    <2> QED BY <1>4, <1>5, <2>1, <2>2 DEF Plain
  <1>7. \A r \in Server : \A v : Still(L.out[r], v)
    <2>1. \A v : Still(<<>>, v)
      BY DEF Still
    <2> QED BY <1>4, <2>1
  <1>8. \A v : Leaves(v, client[s][v], L.client[v], L.out)
    BY <1>3, <1>7 DEF Leaves
  <1> QED BY <1>1, <1>3, <1>6, <1>7, <1>8 DEF Ready, Fresh, Aside

\* Whoever held the nick without having registered has been thrown out.
LEMMA OverriddenReady ==
    ASSUME IInv, NEW s \in Server, NEW u \in User, client[s][u].on # "unknown", NEW n
    PROVE  Ready(s, u, Overridden(s, n))
  <1>1. PICK H, L, c : /\ H = Here(s) /\ L = Overridden(s, n)
                       /\ c = [v \in User |-> IF H.client[v].on = "unknown" /\ H.client[v].nick = n
                                              THEN Absent ELSE H.client[v]]
    OBVIOUS
  <1>2. Ready(s, u, H) /\ Plain(s, H)
    BY <1>1, HereReady DEF Ready
  <1>3. L = [client |-> c, nd |-> H.nd, out |-> H.out]
    <2>1. L = [H EXCEPT !.client = c]
      BY <1>1 DEF Overridden
    <2>2. H = [client |-> H.client, nd |-> H.nd, out |-> H.out]
      BY <1>2 DEF Plain
    <2> QED BY <2>1, <2>2, Replaced
  <1>4. L.client = c /\ L.nd = H.nd /\ L.out = H.out
    BY <1>3
  <1>5. H.client = client[s] /\ \A r \in Server : \A v : Still(L.out[r], v)
    <2>1. H.client = client[s] /\ \A r \in Server : H.out[r] = <<>>
      BY <1>1 DEF Here
    <2>2. \A v : Still(<<>>, v)
      BY DEF Still
    <2> QED BY <1>4, <2>1, <2>2
  <1>6. Plain(s, L)
    <2>1. c = [v \in User |-> c[v]]
      BY <1>1
    <2> QED BY <1>2, <1>3, <1>4, <2>1 DEF Plain
  <1>7. ASSUME NEW v \in User
        PROVE  c[v] = client[s][v] \/ (client[s][v].on = "unknown" /\ c[v] = Absent)
    BY <1>1, <1>5
  <1>8. ASSUME NEW v \in User
        PROVE  Leaves(v, client[s][v], L.client[v], L.out)
    BY <1>4, <1>5, <1>7 DEF Leaves
  <1> QED BY <1>1, <1>4, <1>5, <1>6, <1>7, <1>8 DEF Ready, Fresh, Aside

\* What Here and Overridden, which have said nothing, have in common.
LEMMA ReadyStill ==
    ASSUME NEW s, NEW u, NEW L, Ready(s, u, L)
    PROVE  /\ Plain(s, L) /\ Rest(s, u, L) /\ L.client[u] = client[s][u]
           /\ \A r \in Server : Still(L.out[r], u)
           /\ \A t : Silent(t, u, L.out)
  BY DEF Ready, Fresh, Rest, Silent

\* s, which was L, is K now that it has said m, about u, to the peers.
Tellingly(s, L, K, u, peers, m) ==
    /\ Plain(s, K) /\ K.client = L.client
    /\ \A r \in Server : /\ r \in peers => Line(K.out[r], u, m)
                         /\ r \notin peers => K.out[r] = L.out[r]
    /\ \A v \in User \ {u} : Mute(L, K, v)

\* Nothing about u has been said to the peers.
Unspoken(L, u, peers) == \A r \in Server : r \in peers => Still(L.out[r], u)

\* m, which is about u, is said to peers who have not heard of u yet.
LEMMA SendToSays ==
    ASSUME NEW s, NEW L, Plain(s, L), NEW peers, peers \subseteq est[s], NEW m \in UserLine,
           NEW u, Concerns(m, u), Unspoken(L, u, peers), NEW K, K = SendTo(L, peers, m)
    PROVE  Tellingly(s, L, K, u, peers, m)
  <1>1. \A v \in User \ {u} : ~Concerns(m, v)
    BY DEF Concerns
  <1>2. Sent(s, L, K, peers, m)
    BY SendToPlain
  <1>3. \A r \in Server : r \in peers /\ Still(L.out[r], u) => Line(K.out[r], u, m)
    BY <1>2 DEF Sent
  <1> QED BY <1>1, <1>2, <1>3 DEF Tellingly, Unspoken, Sent

\* kill_client_serv_butone tells every peer, and takes the user away.
LEMMA KillEverywhereSays ==
    ASSUME NEW s \in Server, NEW L, Plain(s, L), NEW u \in User, NEW e, Fresh(L, u, e), IsPerson(e),
           NEW K, K = KillEverywhere(L, s, u)
    PROVE  /\ Plain(s, K) /\ \A v \in User \ {u} : Mute(L, K, v)
           /\ Ends(est[s], u, e, K.client[u], K.out, "KILL")
  <1>1. PICK m : m = [type |-> "KILL", u |-> u, src |-> s]
    OBVIOUS
  <1>2. m \in UserLine /\ Concerns(m, u) /\ m.type = "KILL"
    BY <1>1, UserLines DEF Concerns
  <1>3. PICK J, P : J = SendTo(L, est[s], m) /\ P = est[s]
    OBVIOUS
  <1>4a. Tellingly(s, L, J, u, P, m)
    <2>1. Unspoken(L, u, P)
      BY DEF Fresh, Unspoken
    <2> QED BY <1>2, <1>3, <2>1, SendToSays
  <1>4. /\ Plain(s, J) /\ J.client = L.client
        /\ \A r \in Server : IF r \in P THEN Line(J.out[r], u, m) ELSE J.out[r] = L.out[r]
        /\ \A v \in User \ {u} : Mute(L, J, v)
    BY <1>4a DEF Tellingly
  <1>5. K = Drop(J, u)
    BY <1>1, <1>3 DEF KillEverywhere
  <1>6. Plain(s, K) /\ K.out = J.out /\ K.client[u] = Absent /\ \A v \in User \ {u} : Mute(J, K, v)
    BY <1>4, <1>5, SetPlain
  <1>7. Ends(P, u, e, K.client[u], K.out, "KILL")
    BY <1>2, <1>4, <1>6 DEF Ends, Ending, Fresh
  <1>8. \A v \in User \ {u} : Mute(L, K, v)
    BY <1>4, <1>6, MuteFacts
  <1> QED BY <1>3, <1>6, <1>7, <1>8

\* The user is refused: only the peer that told of it hears of it.
LEMMA KillBackSays ==
    ASSUME NEW s \in Server, NEW L, Plain(s, L), NEW u \in User, NEW e, Fresh(L, u, e),
           NEW t \in est[s], t \in Server, NEW K, K = KillBack(L, s, t, u)
    PROVE  /\ Plain(s, K) /\ \A v \in User \ {u} : Mute(L, K, v)
           /\ K.client[u] = e /\ Ending(K.out[t], u, "KILL") /\ Silent(t, u, K.out)
  <1>1. PICK m, P : m = [type |-> "KILL", u |-> u, src |-> s] /\ P = {t}
    OBVIOUS
  <1>2. m \in UserLine /\ Concerns(m, u) /\ m.type = "KILL"
    BY <1>1, UserLines DEF Concerns
  <1>3. K = SendTo(L, P, m) /\ P \subseteq est[s]
    BY <1>1 DEF KillBack
  <1>4a. Tellingly(s, L, K, u, P, m)
    <2>1. Unspoken(L, u, P)
      BY DEF Fresh, Unspoken
    <2> QED BY <1>2, <1>3, <2>1, SendToSays
  <1>4. /\ Plain(s, K) /\ K.client = L.client
        /\ \A r \in Server : IF r \in P THEN Line(K.out[r], u, m) ELSE K.out[r] = L.out[r]
        /\ \A v \in User \ {u} : Mute(L, K, v)
    BY <1>4a DEF Tellingly
  <1>5. \A r \in Server : Still(L.out[r], u)
    BY DEF Fresh
  <1>6. Ending(K.out[t], u, "KILL")
    BY <1>1, <1>2, <1>4 DEF Ending
  <1>7. Silent(t, u, K.out)
    BY <1>1, <1>4, <1>5 DEF Silent
  <1> QED BY <1>4, <1>6, <1>7 DEF Fresh

\* The user is forced: only the peer that told of it hears of it.
LEMMA SaveBackSays ==
    ASSUME NEW s, NEW L, Plain(s, L), NEW u \in User, NEW e, Fresh(L, u, e), NEW ts \in Nat,
           NEW t \in est[s], t \in Server, NEW K, K = SaveBack(L, t, u, ts)
    PROVE  /\ Plain(s, K) /\ \A v \in User \ {u} : Mute(L, K, v)
           /\ K.client[u] = e /\ SaveFor(K.out[t], u, ts) /\ Silent(t, u, K.out)
  <1>1. PICK m, P : m = [type |-> "SAVE", u |-> u, ts |-> ts] /\ P = {t}
    OBVIOUS
  <1>2. m \in UserLine /\ Concerns(m, u) /\ m.type = "SAVE" /\ m.ts = ts
    BY <1>1, UserLines DEF Concerns
  <1>3. K = SendTo(L, P, m) /\ P \subseteq est[s]
    BY <1>1 DEF SaveBack
  <1>4a. Tellingly(s, L, K, u, P, m)
    <2>1. Unspoken(L, u, P)
      BY DEF Fresh, Unspoken
    <2> QED BY <1>2, <1>3, <2>1, SendToSays
  <1>4. /\ Plain(s, K) /\ K.client = L.client
        /\ \A r \in Server : IF r \in P THEN Line(K.out[r], u, m) ELSE K.out[r] = L.out[r]
        /\ \A v \in User \ {u} : Mute(L, K, v)
    BY <1>4a DEF Tellingly
  <1>5. \A r \in Server : Still(L.out[r], u)
    BY DEF Fresh
  <1>6. SaveFor(K.out[t], u, ts)
    BY <1>1, <1>2, <1>4 DEF SaveFor
  <1>7. Silent(t, u, K.out)
    BY <1>1, <1>4, <1>5 DEF Silent
  <1> QED BY <1>4, <1>6, <1>7 DEF Fresh

\* u is e now, and all but t have been told; t has had its answer before.
Passed(s, t, L, K, u, e, type) ==
    /\ Plain(s, K) /\ \A v \in User \ {u} : Mute(L, K, v)
    /\ K.client[u] = e /\ Repeats(s, t, u, K.client[u], K.out, type)
    /\ t \in Server => K.out[t] = L.out[t]

\* introduce_client, for a user of another server, tells all but the peer that told of it.
LEMMA IntroduceSays ==
    ASSUME NEW s, NEW t, NEW L, Plain(s, L), NEW u \in User, Silent(t, u, L.out),
           NEW n \in NameFor(u), NEW ts \in Nat, NEW K, K = Introduce(L, s, t, u, n, ts)
    PROVE  Passed(s, t, L, K, u, [on |-> "person", nick |-> n, ts |-> ts], "UID")
  <1>1. PICK m, P, e : /\ m = [type |-> "UID", u |-> u, nick |-> n, ts |-> ts] /\ P = est[s] \ {t}
                       /\ e = [on |-> "person", nick |-> n, ts |-> ts]
    OBVIOUS
  <1>2. m \in UserLine /\ Concerns(m, u) /\ m.type = "UID" /\ m.nick = n /\ m.ts = ts /\ e.nick = n /\ e.ts = ts
    BY <1>1, UserLines DEF Concerns
  <1>3. PICK J : J = Store(L, u, e)
    OBVIOUS
  <1>4. Plain(s, J) /\ J.out = L.out /\ \A v \in User \ {u} : Mute(L, J, v)
    BY <1>3, SetPlain
  <1>5. J.client[u] = e
    <2>1. J.client = [L.client EXCEPT ![u] = e]
      BY <1>3 DEF Store
    <2> QED BY <2>1 DEF Plain
  <1>6. K = SendTo(J, P, m) /\ P \subseteq est[s]
    BY <1>1, <1>3 DEF Introduce
  <1>7. \A r \in Server : r \in P => Still(J.out[r], u)
    BY <1>1, <1>4 DEF Silent
  <1>8a. Tellingly(s, J, K, u, P, m)
    <2>1. Unspoken(J, u, P)
      BY <1>7 DEF Unspoken
    <2> QED BY <1>2, <1>4, <1>6, <1>7, <2>1, SendToSays
  <1>8. /\ Plain(s, K) /\ K.client = J.client
        /\ \A r \in Server : IF r \in P THEN Line(K.out[r], u, m) ELSE K.out[r] = J.out[r]
        /\ \A v \in User \ {u} : Mute(J, K, v)
    BY <1>8a DEF Tellingly
  <1>9. \A v \in User \ {u} : Mute(L, K, v)
    BY <1>4, <1>8, MuteFacts
  <1>10. K.client[u] = e
    BY <1>5, <1>8
  <1>11. Repeats(s, t, u, e, K.out, "UID")
    <2>1. ASSUME NEW r \in Server \ {t}, r \in est[s]
          PROVE  Tidings(K.out[r], u, "UID", e.nick, e.ts)
      BY <1>1, <1>2, <1>8, <2>1 DEF Tidings
    <2>2. ASSUME NEW r \in Server \ {t}, r \notin est[s]
          PROVE  Still(K.out[r], u)
      BY <1>1, <1>4, <1>8, <2>2 DEF Silent
    <2> QED BY <2>1, <2>2 DEF Repeats
  <1> QED BY <1>1, <1>4, <1>8, <1>9, <1>10, <1>11 DEF Passed

\* change_remote_nick tells all but the peer that told of it.
LEMMA ChangeRemoteNickSays ==
    ASSUME NEW s, NEW t, NEW L, Plain(s, L), NEW u \in User, Silent(t, u, L.out), L.client[u].on = "person",
           NEW n \in NameFor(u), NEW ts \in Nat, NEW K, K = ChangeRemoteNick(L, s, t, u, n, ts)
    PROVE  Passed(s, t, L, K, u, [on |-> "person", nick |-> n, ts |-> ts], "NICK")
  <1>1. PICK m, P, e : /\ m = [type |-> "NICK", u |-> u, nick |-> n, ts |-> ts] /\ P = est[s] \ {t}
                       /\ e = [on |-> "person", nick |-> n, ts |-> ts]
    OBVIOUS
  <1>2. m \in UserLine /\ Concerns(m, u) /\ m.type = "NICK" /\ m.nick = n /\ m.ts = ts /\ e.nick = n /\ e.ts = ts
    BY <1>1, UserLines DEF Concerns
  <1>3. PICK J : J = SendTo(L, P, m)
    OBVIOUS
  <1>4. Tellingly(s, L, J, u, P, m)
    <2>1. Unspoken(L, u, P) /\ P \subseteq est[s]
      BY <1>1 DEF Unspoken, Silent
    <2> QED BY <1>2, <1>3, <2>1, SendToSays
  <1>5. /\ Plain(s, J) /\ J.client = L.client /\ \A v \in User \ {u} : Mute(L, J, v)
        /\ \A r \in Server : IF r \in P THEN Line(J.out[r], u, m) ELSE J.out[r] = L.out[r]
    BY <1>4 DEF Tellingly
  <1>6. K = Store(J, u, e)
    BY <1>1, <1>3, <1>5 DEF ChangeRemoteNick, Rename
  <1>7. Plain(s, K) /\ K.out = J.out /\ \A v \in User \ {u} : Mute(J, K, v)
    BY <1>5, <1>6, SetPlain
  <1>8. K.client[u] = e
    <2>1. K.client = [J.client EXCEPT ![u] = e]
      BY <1>6 DEF Store
    <2> QED BY <1>5, <2>1 DEF Plain
  <1>9. \A v \in User \ {u} : Mute(L, K, v)
    BY <1>5, <1>7, MuteFacts
  <1>10. Repeats(s, t, u, e, K.out, "NICK")
    <2>1. ASSUME NEW r \in Server \ {t}, r \in est[s]
          PROVE  Tidings(K.out[r], u, "NICK", e.nick, e.ts)
      BY <1>1, <1>2, <1>5, <1>7, <2>1 DEF Tidings
    <2>2. ASSUME NEW r \in Server \ {t}, r \notin est[s]
          PROVE  Still(K.out[r], u)
      BY <1>1, <1>5, <1>7, <2>2 DEF Silent
    <2> QED BY <2>1, <2>2 DEF Repeats
  <1> QED BY <1>1, <1>5, <1>7, <1>8, <1>9, <1>10 DEF Passed

\* u is renamed, or killed where a server on the way to it could not take a SAVE.
Rid(s, peers, L, K, u, e) ==
    /\ Plain(s, K) /\ \A v \in User \ {u} : Mute(L, K, v)
    /\ Saves(s, peers, u, e, K.client[u], K.out) \/ Ends(est[s], u, e, K.client[u], K.out, "KILL")

\* save_user renames the user, and tells whom it has to, or kills it.
LEMMA SaveUserSays ==
    ASSUME IInv, NEW s \in Server, NEW t, NEW L, Plain(s, L), NEW u \in User, NEW e, Fresh(L, u, e), IsPerson(e),
           e.nick \in Nick, e.ts \in Nat, CollisionFnc, NEW peers, peers = est[s] \ {t},
           NEW K, K = SaveUser(L, s, t, u)
    PROVE  Rid(s, peers, L, K, u, e)
  <1>1. CASE ~(Way(s, Home[u]) \cap est[s] \subseteq SaveCap)
    <2>1. K = KillEverywhere(L, s, u)
      BY <1>1 DEF SaveUser
    <2> QED BY <2>1, KillEverywhereSays DEF Rid
  <1>2. CASE Way(s, Home[u]) \cap est[s] \subseteq SaveCap
    <2>1. PICK m, k, P, R, ts, f :
             /\ m = [type |-> "SAVE", u |-> u, ts |-> e.ts] /\ P = (est[s] \ {t}) \cap SaveCap
             /\ k = [type |-> "NICK", u |-> u, nick |-> u, ts |-> ts] /\ R = (est[s] \ {t}) \ SaveCap
             /\ ts = CurrentTime(s) /\ f = [on |-> "person", nick |-> u, ts |-> ts]
      OBVIOUS
    <2>2. ts \in Nat
      BY <2>1, ClockTyped DEF IInv
    <2>3. m \in UserLine /\ Concerns(m, u) /\ m.type = "SAVE" /\ m.ts = e.ts
      BY <2>1, UserLines DEF Concerns
    <2>4. k \in UserLine /\ Concerns(k, u) /\ k.type = "NICK" /\ k.nick = u /\ k.ts = ts
      BY <2>1, <2>2, UserLines, NameFacts DEF Concerns
    <2>5. PICK J, I : J = SendTo(L, P, m) /\ I = SendTo(J, R, k)
      OBVIOUS
    <2>6. \A r \in Server : Still(L.out[r], u)
      BY DEF Fresh
    <2>7. Tellingly(s, L, J, u, P, m)
      <3>1. Unspoken(L, u, P) /\ P \subseteq est[s]
        BY <2>1, <2>6 DEF Unspoken
      <3> QED BY <2>3, <2>5, <3>1, SendToSays
    <2>8. /\ Plain(s, J) /\ J.client = L.client /\ \A v \in User \ {u} : Mute(L, J, v)
          /\ \A r \in Server : IF r \in P THEN Line(J.out[r], u, m) ELSE J.out[r] = L.out[r]
      BY <2>7 DEF Tellingly
    <2>9. Tellingly(s, J, I, u, R, k)
      <3>1. Unspoken(J, u, R) /\ R \subseteq est[s]
        BY <2>1, <2>6, <2>8 DEF Unspoken
      <3> QED BY <2>4, <2>5, <2>8, <3>1, SendToSays
    <2>10. /\ Plain(s, I) /\ I.client = L.client /\ \A v \in User \ {u} : Mute(J, I, v)
           /\ \A r \in Server : IF r \in R THEN Line(I.out[r], u, k) ELSE I.out[r] = J.out[r]
      BY <2>8, <2>9 DEF Tellingly
    <2>11. PICK d : K = [client |-> [I.client EXCEPT ![u] = f], nd |-> d, out |-> I.out]
      <3>1. L.client[u].ts = e.ts /\ I.client[u].on = "person"
        BY <2>10 DEF Fresh, IsPerson
      <3>2. K \in {Rename(I, u, u, ts), ChangeLocalNick(I, u, u, ts)}
        BY <1>2, <2>1, <2>5, <3>1 DEF SaveUser
      <3> QED BY <2>1, <3>1, <3>2 DEF Rename, Store, ChangeLocalNick
    <2>12. Plain(s, K) /\ K.out = I.out /\ \A v \in User \ {u} : Mute(I, K, v)
      BY <2>10, <2>11, PutPlain
    <2>13. K.client[u] = f
      <3>1. K.client = [I.client EXCEPT ![u] = f]
        BY <2>11
      <3> QED BY <2>10, <3>1 DEF Plain
    <2>14. \A v \in User \ {u} : Mute(L, K, v)
      BY <2>8, <2>10, <2>12, MuteFacts
    <2>15. ASSUME NEW r \in Server
           PROVE  IF r \in peers
                  THEN SaveFor(K.out[r], u, e.ts) \/ (r \notin Way(s, Home[u]) /\ Tidings(K.out[r], u, "NICK", u, CurrentTime(s)))
                  ELSE Still(K.out[r], u)
      <3>1. CASE r \in P
        <4>1. Line(K.out[r], u, m) /\ r \in peers
          BY <2>1, <2>8, <2>10, <2>12, <3>1
        <4> QED BY <2>3, <4>1 DEF SaveFor
      <3>2. CASE r \in R
        <4>1. Line(K.out[r], u, k) /\ r \in peers /\ r \notin Way(s, Home[u])
          BY <1>2, <2>1, <2>10, <2>12, <3>2
        <4> QED BY <2>1, <2>4, <4>1 DEF Tidings
      <3>3. CASE r \notin P /\ r \notin R
        BY <2>1, <2>6, <2>8, <2>10, <2>12, <3>3
      <3> QED BY <3>1, <3>2, <3>3
    <2>16. Saves(s, peers, u, e, f, K.out)
      BY <2>1, <2>15 DEF Saves
    <2> QED BY <2>12, <2>13, <2>14, <2>16 DEF Rid
  <1> QED BY <1>1, <1>2

-----------------------------------------------------------------------------
(* What a handler does to the user its line is about.                      *)

\* Once another user is saved, or killed.
LEMMA ReadySaved ==
    ASSUME IInv, NEW s \in Server, s \notin est[s], NEW u \in User, NEW v \in User, v # u,
           IsPerson(client[s][v]), client[s][v].nick \in Nick, CollisionFnc,
           NEW K, K = SaveUser(Here(s), s, s, v)
    PROVE  Ready(s, u, K)
  <1>1. PICK H, e, P : H = Here(s) /\ e = client[s][v] /\ P = est[s] \ {s}
    OBVIOUS
  <1>2. Ready(s, u, H) /\ Ready(s, v, H)
    BY <1>1, HereReady
  <1>3. Plain(s, H) /\ Fresh(H, v, e) /\ Fresh(H, u, client[s][u]) /\ Rest(s, u, H) /\ Rest(s, v, H)
    BY <1>1, <1>2 DEF Ready, Rest
  <1>4. e.ts \in Nat
    BY <1>1, EntriesNamed, PersonNamed DEF IInv
  <1>5. Rid(s, P, H, K, v, e)
    BY <1>1, <1>3, <1>4, SaveUserSays
  <1>6. /\ Plain(s, K) /\ \A w \in User \ {v} : Mute(H, K, w)
        /\ Saves(s, P, v, e, K.client[v], K.out) \/ Ends(est[s], v, e, K.client[v], K.out, "KILL")
    BY <1>5 DEF Rid
  <1>7. P = est[s]
    BY <1>1
  <1>8. Aside(s, v, client[s][v], K.client[v], K.out)
    BY <1>1, <1>6, <1>7 DEF Aside
  <1>9. Rest(s, v, K)
    BY <1>3, <1>6, RestKept
  <1>10. Fresh(K, u, client[s][u])
    BY <1>3, <1>6, MuteFacts
  <1> QED BY <1>6, <1>8, <1>9, <1>10 DEF Ready, Rest

\* Once another user is killed.
LEMMA ReadyKilled ==
    ASSUME IInv, NEW s \in Server, NEW u \in User, NEW v \in User, v # u,
           IsPerson(client[s][v]), NEW K, K = KillEverywhere(Here(s), s, v)
    PROVE  Ready(s, u, K)
  <1>1. PICK H, e : H = Here(s) /\ e = client[s][v]
    OBVIOUS
  <1>2. Ready(s, u, H) /\ Ready(s, v, H)
    BY <1>1, HereReady
  <1>3. Plain(s, H) /\ Fresh(H, v, e) /\ Fresh(H, u, client[s][u]) /\ Rest(s, u, H) /\ Rest(s, v, H)
    BY <1>1, <1>2 DEF Ready, Rest
  <1>4. /\ Plain(s, K) /\ \A w \in User \ {v} : Mute(H, K, w)
        /\ Ends(est[s], v, e, K.client[v], K.out, "KILL")
    BY <1>1, <1>3, KillEverywhereSays
  <1>5. Aside(s, v, client[s][v], K.client[v], K.out)
    BY <1>1, <1>4 DEF Aside
  <1>6. Rest(s, v, K)
    BY <1>3, <1>4, RestKept
  <1>7. Fresh(K, u, client[s][u])
    BY <1>3, <1>4, MuteFacts
  <1> QED BY <1>4, <1>5, <1>6, <1>7 DEF Ready, Rest

\* t says m of u, and s, which is K then, treats all as it should.
Treated(s, t, u, m, K) ==
    /\ Plain(s, K) /\ Rest(s, u, K)
    /\ Accord(s, t, u, m, client[s][u], K.client[u], K.out)

\* s reads a line of t as it should.
Managed(s, t) == \E c, out : Reads(s, t, c, out) /\ \A u \in User : Treats(s, t, u, c, out)

\* What a handler has come to when it ends is what s has read of the line.
LEMMA TreatedManaged ==
    ASSUME IInv, NEW s \in Server, NEW t, <<t, s>> \in Edge, t \in est[s], chan[<<t, s>>] # <<>>,
           NEW K, CommitFrom(s, t, K), UNCHANGED <<est, splits, used, now>>,
           NEW u \in User, Concerns(Msg(s, t), u), Treated(s, t, u, Msg(s, t), K)
    PROVE  Managed(s, t)
  <1>1. PICK c, out : c = K.client /\ out = K.out
    OBVIOUS
  <1>2. Sets(s, c)
    <2>1. client' = [client EXCEPT ![s] = c] /\ client \in [Server -> Table]
      BY <1>1 DEF CommitFrom, IInv, TypeOK
    <2> QED BY <2>1 DEF Sets
  <1>3. chan' = Transmit(s, [chan EXCEPT ![<<t, s>>] = Tail(@)], out)
    BY <1>1 DEF CommitFrom
  <1>4. \A r : <<s, r>> \in Edge => out[r] \in Seq(UserLine) /\ (r \notin est[s] => out[r] = <<>>)
    <2>1. out \in [Server -> Seq(UserLine)] /\ \A r \in Server : r \notin est[s] => out[r] = <<>>
      BY <1>1 DEF Treated, Plain
    <2> QED BY <2>1, EdgeFacts
  <1>5. Reads(s, t, c, out)
    BY <1>2, <1>3, <1>4 DEF Reads
  <1>6. ASSUME NEW v \in User
        PROVE  Treats(s, t, v, c, out)
    <2>1. CASE v = u
      BY <1>1, <2>1 DEF Treats, Treated
    <2>2. CASE v # u
      <3>1. ~Concerns(Msg(s, t), v)
        BY <2>2 DEF Concerns
      <3>2. Aside(s, v, client[s][v], c[v], out)
        BY <1>1, <2>2 DEF Treated, Rest
      <3> QED BY <3>1, <3>2 DEF Treats
    <2> QED BY <2>1, <2>2
  <1> QED BY <1>5, <1>6 DEF Managed

-----------------------------------------------------------------------------
(* An introduction.                                                        *)

\* The user comes with the nick it has.
LEMMA UidTaken ==
    ASSUME NEW s, NEW t \in Server, NEW u \in User, client[s][u] = Absent, NEW L, Ready(s, u, L),
           NEW m, m.type = "UID", m.nick \in NameFor(u), m.ts \in Nat,
           NEW K, K = Introduce(L, s, t, u, m.nick, m.ts)
    PROVE  Treated(s, t, u, m, K)
  <1>1. PICK n, ts, e : n = m.nick /\ ts = m.ts /\ e = [on |-> "person", nick |-> n, ts |-> ts]
    OBVIOUS
  <1>2. e.nick = n /\ e.ts = ts /\ IsPerson(e)
    BY <1>1 DEF IsPerson
  <1>3. /\ Plain(s, L) /\ Rest(s, u, L) /\ Silent(t, u, L.out) /\ Still(L.out[t], u)
    BY ReadyStill
  <1>4. Passed(s, t, L, K, u, e, "UID")
    BY <1>1, <1>3, IntroduceSays
  <1>5. /\ Plain(s, K) /\ \A v \in User \ {u} : Mute(L, K, v)
        /\ K.client[u] = e /\ Repeats(s, t, u, K.client[u], K.out, "UID")
        /\ K.out[t] = L.out[t]
    BY <1>4 DEF Passed
  <1>6. Rest(s, u, K)
    BY <1>3, <1>5, RestKept
  <1>7. AccordUid(s, t, u, m, client[s][u], K.client[u], K.out)
    BY <1>1, <1>2, <1>3, <1>5 DEF AccordUid
  <1> QED BY <1>5, <1>6, <1>7 DEF Treated, Accord

\* The user comes with its UID for a nick.
LEMMA UidForced ==
    ASSUME NEW s, NEW t \in Server, t \in est[s], NEW u \in User, client[s][u] = Absent, NEW L, Ready(s, u, L),
           NEW m, m.type = "UID", m.nick \in Nick, m.ts \in Nat, CollisionFnc,
           NEW K, K = Introduce(SaveBack(L, t, u, m.ts), s, t, u, u, m.ts)
    PROVE  Treated(s, t, u, m, K)
  <1>1. PICK ts, e, J : ts = m.ts /\ e = [on |-> "person", nick |-> u, ts |-> ts] /\ J = SaveBack(L, t, u, ts)
    OBVIOUS
  <1>2. e.nick = u /\ e.ts = ts /\ IsPerson(e)
    BY <1>1 DEF IsPerson
  <1>3. /\ Plain(s, L) /\ Rest(s, u, L) /\ Fresh(L, u, Absent)
    BY DEF Ready, Rest
  <1>4. /\ Plain(s, J) /\ \A v \in User \ {u} : Mute(L, J, v)
        /\ SaveFor(J.out[t], u, ts) /\ Silent(t, u, J.out)
    BY <1>1, <1>3, SaveBackSays
  <1>5. Passed(s, t, J, K, u, e, "UID")
    BY <1>1, <1>4, IntroduceSays, NameFacts
  <1>6. /\ Plain(s, K) /\ \A v \in User \ {u} : Mute(J, K, v)
        /\ K.client[u] = e /\ Repeats(s, t, u, K.client[u], K.out, "UID")
        /\ K.out[t] = J.out[t]
    BY <1>5 DEF Passed
  <1>7. Rest(s, u, J)
    BY <1>3, <1>4, RestKept
  <1>8. Rest(s, u, K)
    BY <1>6, <1>7, RestKept
  <1>9. AccordUid(s, t, u, m, client[s][u], K.client[u], K.out)
    BY <1>1, <1>2, <1>4, <1>6 DEF AccordUid, Forces
  <1> QED BY <1>6, <1>8, <1>9 DEF Treated, Accord

\* The user does not come.
LEMMA UidSentBack ==
    ASSUME NEW s \in Server, NEW t \in Server, t \in est[s], NEW u \in User, client[s][u] = Absent, NEW L, Ready(s, u, L),
           NEW m, m.type = "UID", NEW K, K = KillBack(L, s, t, u)
    PROVE  Treated(s, t, u, m, K)
  <1>1. /\ Plain(s, L) /\ Rest(s, u, L) /\ Fresh(L, u, Absent)
    BY DEF Ready, Rest
  <1>2. /\ Plain(s, K) /\ \A v \in User \ {u} : Mute(L, K, v)
        /\ K.client[u] = Absent /\ Ending(K.out[t], u, "KILL") /\ Silent(t, u, K.out)
    BY <1>1, KillBackSays
  <1>3. Rest(s, u, K)
    BY <1>1, <1>2, RestKept
  <1> QED BY <1>2, <1>3 DEF Treated, Accord, AccordUid

\* Another user is killed as well.
LEMMA KilledToo ==
    ASSUME NEW s \in Server, NEW u \in User, NEW J, Plain(s, J), Rest(s, u, J),
           NEW v \in User, v # u, Fresh(J, v, client[s][v]), IsPerson(client[s][v]),
           NEW K, K = KillEverywhere(J, s, v)
    PROVE  Plain(s, K) /\ Rest(s, u, K) /\ Mute(J, K, u)
  <1>1. PICK e : e = client[s][v]
    OBVIOUS
  <1>2. /\ Plain(s, K) /\ \A w \in User \ {v} : Mute(J, K, w)
        /\ Ends(est[s], v, e, K.client[v], K.out, "KILL")
    BY <1>1, KillEverywhereSays
  <1>3. Aside(s, v, client[s][v], K.client[v], K.out)
    BY <1>1, <1>2 DEF Aside
  <1>4. ASSUME NEW w \in User \ {u}, w # v
        PROVE  Aside(s, w, client[s][w], K.client[w], K.out)
    <2>1. Aside(s, w, client[s][w], J.client[w], J.out) /\ Mute(J, K, w)
      BY <1>2, <1>4 DEF Rest
    <2>2. PICK f : f = client[s][w]
      OBVIOUS
    <2>3. /\ Leaves(w, f, J.client[w], J.out) => Leaves(w, f, K.client[w], K.out)
          /\ Saves(s, est[s], w, f, J.client[w], J.out) => Saves(s, est[s], w, f, K.client[w], K.out)
          /\ Ends(est[s], w, f, J.client[w], J.out, "KILL") => Ends(est[s], w, f, K.client[w], K.out, "KILL")
      BY <2>1, MuteKeeps
    <2> QED BY <2>1, <2>2, <2>3 DEF Aside
  <1> QED BY <1>2, <1>3, <1>4 DEF Rest

\* Neither the user nor the one who holds its nick stays.
LEMMA UidBothEnd ==
    ASSUME IInv, NEW s \in Server, NEW t \in Server, t \in est[s], NEW u \in User, client[s][u] = Absent,
           NEW v \in User, v # u, IsPerson(client[s][v]), NEW m, m.type = "UID",
           NEW K, K = KillEverywhere(KillBack(Here(s), s, t, u), s, v)
    PROVE  Treated(s, t, u, m, K)
  <1>1. PICK H, J : H = Here(s) /\ J = KillBack(H, s, t, u)
    OBVIOUS
  <1>2. /\ Plain(s, H) /\ Rest(s, u, H) /\ Fresh(H, u, Absent) /\ Fresh(H, v, client[s][v])
    <2>1. Ready(s, u, H) /\ Ready(s, v, H)
      BY <1>1, HereReady
    <2> QED BY <2>1 DEF Ready, Rest
  <1>3. /\ Plain(s, J) /\ \A w \in User \ {u} : Mute(H, J, w)
        /\ J.client[u] = Absent /\ Ending(J.out[t], u, "KILL") /\ Silent(t, u, J.out)
    BY <1>1, <1>2, KillBackSays
  <1>4. Rest(s, u, J)
    BY <1>2, <1>3, RestKept
  <1>5. Fresh(J, v, client[s][v])
    BY <1>2, <1>3, MuteFacts
  <1>6. Plain(s, K) /\ Rest(s, u, K) /\ Mute(J, K, u)
    BY <1>1, <1>3, <1>4, <1>5, KilledToo
  <1>7. Ending(K.out[t], u, "KILL") /\ Silent(t, u, K.out)
    BY <1>3, <1>6, MuteKeeps
  <1>8. K.client[u] = Absent
    BY <1>3, <1>6 DEF Mute
  <1> QED BY <1>6, <1>7, <1>8 DEF Treated, Accord, AccordUid

\* Another holds the nick u comes to.
LEMMA Holder ==
    ASSUME IInv, NEW s \in Server, NEW u \in User, NEW n \in NameFor(u), NEW v \in PersonsHolding(s, n), v # u
    PROVE  /\ v \in User /\ IsPerson(client[s][v]) /\ client[s][v].nick = n /\ n \in Nick
  <1>1. v \in User /\ IsPerson(client[s][v]) /\ client[s][v].nick = n
    BY DEF PersonsHolding, Holders
  <1>2. client[s][v] \in EntryFor(v)
    BY <1>1, EntriesNamed DEF IInv
  <1>3. n \in NameFor(v)
    BY <1>1, <1>2, PersonNamed
  <1>4. u \notin Nick /\ v \notin Nick
    BY <1>1, NameFacts
  <1> QED BY <1>1, <1>3, <1>4 DEF NameFor

\* A line about a user, as it is read.
LEMMA LineRead ==
    ASSUME IInv, TInv, NEW s, NEW t, NEW type, First(s, t, type), type \in {"UID", "NICK", "SAVE", "QUIT", "KILL"}
    PROVE  /\ s \in Server /\ t \in Server /\ <<t, s>> \in Edge /\ <<s, t>> \in Edge
           /\ t \in est[s] /\ chan[<<t, s>>] # <<>> /\ s \notin est[s]
           /\ Msg(s, t) \in Message /\ Msg(s, t).type = type
           /\ Msg(s, t).u \in User /\ Concerns(Msg(s, t), Msg(s, t).u)
           /\ type \in {"UID", "NICK"} => Msg(s, t).nick \in NameFor(Msg(s, t).u) /\ Msg(s, t).ts \in Nat
  <1>1. PICK M : Met(M)
    BY DEF TInv
  <1>2. <<t, s>> \in Edge /\ t \in est[s] /\ chan[<<t, s>>] # <<>> /\ Msg(s, t).type = type
    BY DEF First, Msg
  <1>3. <<s, t>> \in Edge /\ s \in Server /\ t \in Server
    BY <1>2, EdgeFacts
  <1>4. Msg(s, t) \in Message
    BY <1>1, <1>2, Reading
  <1>5. s \notin est[s]
    <2>1. \A r \in est[s] : <<s, r>> \in Edge
      BY <1>1, <1>3 DEF Met, Reach
    <2> QED BY <2>1, EdgeFacts
  <1>6. /\ Msg(s, t).u \in User
        /\ type \in {"UID", "NICK"} => Msg(s, t).nick \in NameFor(Msg(s, t).u) /\ Msg(s, t).ts \in Nat
    BY <1>2, <1>4, ReadMessages
  <1> QED BY <1>2, <1>3, <1>4, <1>5, <1>6 DEF Concerns

\* ms_uid and perform_nick_collides: in every case all the users are treated as they should be.
LEMMA MsUidManaged ==
    ASSUME IInv, TInv, NEW s, NEW t, MsUid(s, t)
    PROVE  Managed(s, t)
  <1>1. PICK m, u, n, ts : m = Msg(s, t) /\ u = m.u /\ n = m.nick /\ ts = m.ts
    OBVIOUS
  <1>2. First(s, t, "UID") /\ UNCHANGED <<est, splits, used, now>>
    BY DEF MsUid, Steady
  <1>3. /\ s \in Server /\ t \in Server /\ <<t, s>> \in Edge /\ t \in est[s] /\ chan[<<t, s>>] # <<>> /\ s \notin est[s]
        /\ m.type = "UID" /\ u \in User /\ Concerns(m, u) /\ n \in NameFor(u) /\ ts \in Nat
    BY <1>1, <1>2, LineRead
  <1>4. client[s][u] = Absent
    BY <1>1, <1>2, <1>3, TInvNoDuplicate DEF NoDuplicateIntro
  <1>5. \A K : CommitFrom(s, t, K) /\ Treated(s, t, u, m, K) => Managed(s, t)
    BY <1>1, <1>2, <1>3, TreatedManaged
  <1>6. CASE CommitFrom(s, t, Introduce(Overridden(s, n), s, t, u, n, ts))
    <2>1. PICK K, L : L = Overridden(s, n) /\ K = Introduce(L, s, t, u, n, ts)
      OBVIOUS
    <2>2. Ready(s, u, L)
      BY <1>3, <1>4, <2>1, OverriddenReady DEF Absent
    <2>3. Treated(s, t, u, m, K)
      BY <1>1, <1>3, <1>4, <2>1, <2>2, UidTaken
    <2> QED BY <1>5, <1>6, <2>1, <2>3
  <1>7. ASSUME NEW v \in PersonsHolding(s, n),
               \/ UseSave(s, u, v) /\ CommitFrom(s, t, Introduce(SaveBack(SaveUser(Here(s), s, s, v), t, u, ts), s, t, u, u, ts))
               \/ CommitFrom(s, t, KillEverywhere(KillBack(Here(s), s, t, u), s, v))
               \/ UseSave(s, u, v) /\ CommitFrom(s, t, Introduce(SaveBack(Here(s), t, u, ts), s, t, u, u, ts))
               \/ CommitFrom(s, t, KillBack(Here(s), s, t, u))
               \/ UseSave(s, u, v) /\ CommitFrom(s, t, Introduce(SaveUser(Here(s), s, s, v), s, t, u, n, ts))
               \/ CommitFrom(s, t, Introduce(KillEverywhere(Here(s), s, v), s, t, u, n, ts))
        PROVE  Managed(s, t)
    <2>1. v # u
      BY <1>4 DEF PersonsHolding, Holders, Absent
    <2>2. v \in User /\ IsPerson(client[s][v]) /\ client[s][v].nick = n /\ n \in Nick
      BY <1>3, <2>1, Holder
    <2>3. PICK H : H = Here(s) /\ Ready(s, u, H)
      BY <1>3, HereReady
    <2>4. UseSave(s, u, v) => CollisionFnc
      BY DEF UseSave
    <2>5. CASE UseSave(s, u, v) /\ CommitFrom(s, t, Introduce(SaveBack(SaveUser(Here(s), s, s, v), t, u, ts), s, t, u, u, ts))
      <3>1. PICK L, K : L = SaveUser(Here(s), s, s, v) /\ K = Introduce(SaveBack(L, t, u, ts), s, t, u, u, ts)
        OBVIOUS
      <3>2. Ready(s, u, L)
        BY <1>3, <2>1, <2>2, <2>4, <2>5, <3>1, ReadySaved
      <3>3. Treated(s, t, u, m, K)
        BY <1>1, <1>3, <1>4, <2>2, <2>4, <2>5, <3>1, <3>2, UidForced
      <3> QED BY <1>5, <2>5, <3>1, <3>3
    <2>6. CASE CommitFrom(s, t, KillEverywhere(KillBack(Here(s), s, t, u), s, v))
      <3>1. PICK K : K = KillEverywhere(KillBack(Here(s), s, t, u), s, v)
        OBVIOUS
      <3>2. Treated(s, t, u, m, K)
        BY <1>3, <1>4, <2>1, <2>2, <3>1, UidBothEnd
      <3> QED BY <1>5, <2>6, <3>1, <3>2
    <2>7. CASE UseSave(s, u, v) /\ CommitFrom(s, t, Introduce(SaveBack(Here(s), t, u, ts), s, t, u, u, ts))
      <3>1. PICK K : K = Introduce(SaveBack(H, t, u, ts), s, t, u, u, ts)
        OBVIOUS
      <3>2. Treated(s, t, u, m, K)
        BY <1>1, <1>3, <1>4, <2>2, <2>3, <2>4, <2>7, <3>1, UidForced
      <3> QED BY <1>5, <2>3, <2>7, <3>1, <3>2
    <2>8. CASE CommitFrom(s, t, KillBack(Here(s), s, t, u))
      <3>1. PICK K : K = KillBack(H, s, t, u)
        OBVIOUS
      <3>2. Treated(s, t, u, m, K)
        BY <1>3, <1>4, <2>3, <3>1, UidSentBack
      <3> QED BY <1>5, <2>3, <2>8, <3>1, <3>2
    <2>9. CASE UseSave(s, u, v) /\ CommitFrom(s, t, Introduce(SaveUser(Here(s), s, s, v), s, t, u, n, ts))
      <3>1. PICK L, K : L = SaveUser(Here(s), s, s, v) /\ K = Introduce(L, s, t, u, n, ts)
        OBVIOUS
      <3>2. Ready(s, u, L)
        BY <1>3, <2>1, <2>2, <2>4, <2>9, <3>1, ReadySaved
      <3>3. Treated(s, t, u, m, K)
        BY <1>1, <1>3, <1>4, <3>1, <3>2, UidTaken
      <3> QED BY <1>5, <2>9, <3>1, <3>3
    <2>10. CASE CommitFrom(s, t, Introduce(KillEverywhere(Here(s), s, v), s, t, u, n, ts))
      <3>1. PICK L, K : L = KillEverywhere(Here(s), s, v) /\ K = Introduce(L, s, t, u, n, ts)
        OBVIOUS
      <3>2. Ready(s, u, L)
        BY <1>3, <2>1, <2>2, <3>1, ReadyKilled
      <3>3. Treated(s, t, u, m, K)
        BY <1>1, <1>3, <1>4, <3>1, <3>2, UidTaken
      <3> QED BY <1>5, <2>10, <3>1, <3>3
    <2> QED BY <1>7, <2>5, <2>6, <2>7, <2>8, <2>9, <2>10
  <1> QED BY <1>1, <1>6, <1>7 DEF MsUid

-----------------------------------------------------------------------------
(* A nick change.                                                          *)

\* A nick change of a user who is not known here.
LEMMA NickUnknown ==
    ASSUME NEW s \in Server, NEW t \in Server, t \in est[s], NEW u \in User, client[s][u] = Absent, NEW L, Ready(s, u, L),
           NEW m, m.type = "NICK", NEW K, K = KillBack(L, s, t, u)
    PROVE  Treated(s, t, u, m, K)
  <1>1. /\ Plain(s, L) /\ Rest(s, u, L) /\ Fresh(L, u, Absent)
    BY DEF Ready, Rest
  <1>2. /\ Plain(s, K) /\ \A v \in User \ {u} : Mute(L, K, v)
        /\ K.client[u] = Absent /\ Ending(K.out[t], u, "KILL") /\ Silent(t, u, K.out)
    BY <1>1, KillBackSays
  <1>3. Rest(s, u, K)
    BY <1>1, <1>2, RestKept
  <1> QED BY <1>2, <1>3 DEF Treated, Accord, AccordNick

\* The user takes the nick.
LEMMA NickTaken ==
    ASSUME NEW s, NEW t \in Server, NEW u \in User, client[s][u].on = "person", NEW L, Ready(s, u, L),
           NEW m, m.type = "NICK", m.nick \in NameFor(u), m.ts \in Nat, m.nick # client[s][u].nick,
           NEW K, K = ChangeRemoteNick(L, s, t, u, m.nick, m.ts)
    PROVE  Treated(s, t, u, m, K)
  <1>1. PICK n, ts, e : n = m.nick /\ ts = m.ts /\ e = [on |-> "person", nick |-> n, ts |-> ts]
    OBVIOUS
  <1>2. e.nick = n /\ e.ts = ts /\ IsPerson(e) /\ IsPerson(client[s][u])
    BY <1>1 DEF IsPerson
  <1>3. /\ Plain(s, L) /\ Rest(s, u, L) /\ Silent(t, u, L.out) /\ Still(L.out[t], u) /\ L.client[u].on = "person"
    BY ReadyStill
  <1>4. Passed(s, t, L, K, u, e, "NICK")
    BY <1>1, <1>3, ChangeRemoteNickSays
  <1>5. /\ Plain(s, K) /\ \A v \in User \ {u} : Mute(L, K, v)
        /\ K.client[u] = e /\ Repeats(s, t, u, K.client[u], K.out, "NICK")
        /\ K.out[t] = L.out[t]
    BY <1>4 DEF Passed
  <1>6. Rest(s, u, K)
    BY <1>3, <1>5, RestKept
  <1>7. AccordNick(s, t, u, m, client[s][u], K.client[u], K.out)
    BY <1>1, <1>2, <1>3, <1>5 DEF AccordNick
  <1> QED BY <1>5, <1>6, <1>7 DEF Treated, Accord

\* u has the nick already.
LEMMA NickHeld ==
    ASSUME NEW s, NEW t \in Server, NEW u \in User, client[s][u].on = "person", NEW K, Ready(s, u, K),
           NEW m, m.type = "NICK", m.nick = client[s][u].nick
    PROVE  Treated(s, t, u, m, K)
  <1>1. /\ Plain(s, K) /\ Rest(s, u, K) /\ Silent(t, u, K.out) /\ Still(K.out[t], u) /\ K.client[u] = client[s][u]
    BY ReadyStill
  <1>2. AccordNick(s, t, u, m, client[s][u], K.client[u], K.out)
    BY <1>1 DEF AccordNick, IsPerson
  <1> QED BY <1>1, <1>2 DEF Treated, Accord

\* The user takes its UID for a nick, unless it has it already.
LEMMA NickForced ==
    ASSUME IInv, NEW s \in Server, NEW t \in Server, t \in est[s], NEW u \in User, client[s][u].on = "person",
           NEW L, Ready(s, u, L), NEW m, m.type = "NICK", m.nick \in Nick, m.ts \in Nat, CollisionFnc,
           NEW K, K = ForceUidNick(SaveBack(L, t, u, m.ts), s, t, u)
    PROVE  Treated(s, t, u, m, K)
  <1>1. PICK ts, J, f : ts = m.ts /\ J = SaveBack(L, t, u, ts) /\ f = client[s][u]
    OBVIOUS
  <1>2. /\ Plain(s, L) /\ Rest(s, u, L) /\ Fresh(L, u, f)
    BY <1>1 DEF Ready, Rest
  <1>3. /\ Plain(s, J) /\ \A v \in User \ {u} : Mute(L, J, v)
        /\ SaveFor(J.out[t], u, ts) /\ Silent(t, u, J.out) /\ J.client[u] = f
    BY <1>1, <1>2, SaveBackSays
  <1>4. Rest(s, u, J)
    BY <1>2, <1>3, RestKept
  <1>5. K = IF f.nick = u THEN J ELSE ChangeRemoteNick(J, s, t, u, u, CurrentTime(s))
    BY <1>1, <1>3 DEF ForceUidNick
  <1>6. CASE f.nick = u
    <2>1. K = J
      BY <1>5, <1>6
    <2>2. AccordNick(s, t, u, m, f, K.client[u], K.out)
      BY <1>1, <1>3, <1>6, <2>1 DEF AccordNick, Forces, IsPerson
    <2> QED BY <1>1, <1>3, <1>4, <2>1, <2>2 DEF Treated, Accord
  <1>7. CASE f.nick # u
    <2>1. PICK now2, e : now2 = CurrentTime(s) /\ e = [on |-> "person", nick |-> u, ts |-> now2]
      OBVIOUS
    <2>2. now2 \in Nat /\ u \in NameFor(u)
      BY <2>1, ClockTyped, NameFacts DEF IInv
    <2>3. K = ChangeRemoteNick(J, s, t, u, u, now2) /\ J.client[u].on = "person"
      BY <1>1, <1>3, <1>5, <1>7, <2>1
    <2>4. Passed(s, t, J, K, u, e, "NICK")
      BY <1>3, <2>1, <2>2, <2>3, ChangeRemoteNickSays
    <2>5. /\ Plain(s, K) /\ \A v \in User \ {u} : Mute(J, K, v)
          /\ K.client[u] = e /\ Repeats(s, t, u, K.client[u], K.out, "NICK")
          /\ K.out[t] = J.out[t]
      BY <2>4 DEF Passed
    <2>6. Rest(s, u, K)
      BY <1>4, <2>5, RestKept
    <2>7. AccordNick(s, t, u, m, f, K.client[u], K.out)
      BY <1>1, <1>3, <2>1, <2>5 DEF AccordNick, Forces, IsPerson
    <2> QED BY <1>1, <2>5, <2>6, <2>7 DEF Treated, Accord
  <1> QED BY <1>6, <1>7

\* The user is killed for the nick.
LEMMA NickKilled ==
    ASSUME NEW s \in Server, NEW t, NEW u \in User, client[s][u].on = "person", NEW L, Ready(s, u, L),
           NEW m, m.type = "NICK", NEW K, K = KillEverywhere(L, s, u)
    PROVE  Treated(s, t, u, m, K)
  <1>1. PICK f : f = client[s][u] /\ IsPerson(f)
    BY DEF IsPerson
  <1>2. /\ Plain(s, L) /\ Rest(s, u, L) /\ Fresh(L, u, f)
    BY <1>1 DEF Ready, Rest
  <1>3. /\ Plain(s, K) /\ \A v \in User \ {u} : Mute(L, K, v)
        /\ Ends(est[s], u, f, K.client[u], K.out, "KILL")
    BY <1>1, <1>2, KillEverywhereSays
  <1>4. Rest(s, u, K)
    BY <1>2, <1>3, RestKept
  <1>5. AccordNick(s, t, u, m, f, K.client[u], K.out)
    BY <1>3 DEF AccordNick
  <1> QED BY <1>1, <1>3, <1>4, <1>5 DEF Treated, Accord

\* The user and the one who holds the nick are killed for it.
LEMMA NickBothEnd ==
    ASSUME IInv, NEW s \in Server, NEW t, NEW u \in User, client[s][u].on = "person",
           NEW v \in User, v # u, IsPerson(client[s][v]), NEW m, m.type = "NICK",
           NEW K, K = KillEverywhere(KillEverywhere(Here(s), s, u), s, v)
    PROVE  Treated(s, t, u, m, K)
  <1>1. PICK H, J, f : H = Here(s) /\ J = KillEverywhere(H, s, u) /\ f = client[s][u] /\ IsPerson(f)
    BY DEF IsPerson
  <1>2. /\ Plain(s, H) /\ Rest(s, u, H) /\ Fresh(H, u, f) /\ Fresh(H, v, client[s][v])
    <2>1. Ready(s, u, H) /\ Ready(s, v, H)
      BY <1>1, HereReady
    <2> QED BY <1>1, <2>1 DEF Ready, Rest
  <1>3. /\ Plain(s, J) /\ \A w \in User \ {u} : Mute(H, J, w)
        /\ Ends(est[s], u, f, J.client[u], J.out, "KILL")
    BY <1>1, <1>2, KillEverywhereSays
  <1>4. Rest(s, u, J)
    BY <1>2, <1>3, RestKept
  <1>5. Fresh(J, v, client[s][v])
    BY <1>2, <1>3, MuteFacts
  <1>6. Plain(s, K) /\ Rest(s, u, K) /\ Mute(J, K, u)
    BY <1>1, <1>3, <1>4, <1>5, KilledToo
  <1>7. Ends(est[s], u, f, K.client[u], K.out, "KILL")
    BY <1>3, <1>6, MuteKeeps
  <1>8. AccordNick(s, t, u, m, f, K.client[u], K.out)
    BY <1>7 DEF AccordNick
  <1> QED BY <1>1, <1>6, <1>8 DEF Treated, Accord

\* u is not what it is said to become.
LEMMA NickNew ==
    ASSUME IInv, NEW s \in Server, NEW u \in User, client[s][u].on = "person", NEW n,
           PersonsHolding(s, n) = {} \/ \E v \in PersonsHolding(s, n) : v # u
    PROVE  n # client[s][u].nick
  <1>1. SUFFICES ASSUME n = client[s][u].nick
        PROVE  FALSE
    OBVIOUS
  <1>2. u \in PersonsHolding(s, n)
    BY <1>1 DEF PersonsHolding, Holders, IsPerson
  <1>3. PICK v \in PersonsHolding(s, n) : v # u
    BY <1>2
  <1>4. v \in User /\ client[s][v].on # "absent" /\ client[s][v].nick = n
    BY <1>3 DEF PersonsHolding, Holders
  <1> QED BY <1>1, <1>3, <1>4 DEF IInv, NickUnique

\* mc_nick and perform_nickchange_collides: in every case all the users are treated as they should be.
LEMMA McNickManaged ==
    ASSUME IInv, TInv, FInv, NEW s, NEW t, McNick(s, t)
    PROVE  Managed(s, t)
  <1>1. PICK m, u, n, ts : m = Msg(s, t) /\ u = m.u /\ n = m.nick /\ ts = m.ts
    OBVIOUS
  <1>2. First(s, t, "NICK") /\ UNCHANGED <<est, splits, used, now>>
    BY DEF McNick, Steady
  <1>3. /\ s \in Server /\ t \in Server /\ <<t, s>> \in Edge /\ t \in est[s] /\ chan[<<t, s>>] # <<>> /\ s \notin est[s]
        /\ m.type = "NICK" /\ u \in User /\ Concerns(m, u) /\ n \in NameFor(u) /\ ts \in Nat
    BY <1>1, <1>2, LineRead
  <1>4. \A K : CommitFrom(s, t, K) /\ Treated(s, t, u, m, K) => Managed(s, t)
    BY <1>1, <1>2, <1>3, TreatedManaged
  <1>5. PICK H : H = Here(s) /\ Ready(s, u, H)
    BY <1>3, HereReady
  <1>6. CASE UnknownPrefix(s, t, u)
    <2>1. client[s][u] = Absent
      <3>1. client[s][u].on = "absent" /\ Home[u] \in Behind[<<s, t>>] /\ <<s, t>> \in Edge
        BY <1>1, <1>3, <1>6, ReadFair, EdgeFacts DEF UnknownPrefix
      <3> QED BY <1>3, <3>1, Strange DEF IsPerson
    <2>2. PICK K : K = KillBack(H, s, t, u)
      OBVIOUS
    <2>3. Treated(s, t, u, m, K)
      BY <1>3, <1>5, <2>1, <2>2, NickUnknown
    <2> QED BY <1>4, <1>5, <1>6, <2>2, <2>3 DEF UnknownPrefix
  <1>7. CASE IsPerson(client[s][u]) /\ PersonsHolding(s, n) = {} /\ CommitFrom(s, t, ChangeRemoteNick(Overridden(s, n), s, t, u, n, ts))
    <2>1. PICK K, L : L = Overridden(s, n) /\ K = ChangeRemoteNick(L, s, t, u, n, ts)
      OBVIOUS
    <2>2. client[s][u].on = "person" /\ n # client[s][u].nick
      BY <1>3, <1>7, NickNew DEF IsPerson
    <2>3. Ready(s, u, L)
      BY <1>3, <2>1, <2>2, OverriddenReady
    <2>4. Treated(s, t, u, m, K)
      BY <1>1, <1>3, <2>1, <2>2, <2>3, NickTaken
    <2> QED BY <1>4, <1>7, <2>1, <2>4
  <1>8. CASE u \in PersonsHolding(s, n) /\ CommitFrom(s, t, Here(s))
    <2>1. client[s][u].on = "person" /\ n = client[s][u].nick
      BY <1>8 DEF PersonsHolding, Holders, IsPerson
    <2>2. Treated(s, t, u, m, H)
      BY <1>1, <1>3, <1>5, <2>1, NickHeld
    <2> QED BY <1>4, <1>5, <1>8, <2>2
  <1>9. ASSUME NEW v \in PersonsHolding(s, n) \ {u}, IsPerson(client[s][u]),
               \/ UseSave(s, u, v) /\ CommitFrom(s, t, ForceUidNick(SaveBack(SaveUser(Here(s), s, s, v), t, u, ts), s, t, u))
               \/ CommitFrom(s, t, KillEverywhere(KillEverywhere(Here(s), s, u), s, v))
               \/ UseSave(s, u, v) /\ CommitFrom(s, t, ForceUidNick(SaveBack(Here(s), t, u, ts), s, t, u))
               \/ CommitFrom(s, t, KillEverywhere(Here(s), s, u))
               \/ UseSave(s, u, v) /\ CommitFrom(s, t, ChangeRemoteNick(SaveUser(Here(s), s, s, v), s, t, u, n, ts))
               \/ CommitFrom(s, t, ChangeRemoteNick(KillEverywhere(Here(s), s, v), s, t, u, n, ts))
        PROVE  Managed(s, t)
    <2>1. v # u
      BY <1>9
    <2>2. v \in User /\ IsPerson(client[s][v]) /\ client[s][v].nick = n /\ n \in Nick
      BY <1>3, <1>9, <2>1, Holder
    <2>3. client[s][u].on = "person" /\ n # client[s][u].nick
      BY <1>3, <1>9, <2>1, NickNew DEF IsPerson
    <2>4. UseSave(s, u, v) => CollisionFnc
      BY DEF UseSave
    <2>5. CASE UseSave(s, u, v) /\ CommitFrom(s, t, ForceUidNick(SaveBack(SaveUser(Here(s), s, s, v), t, u, ts), s, t, u))
      <3>1. PICK L, K : L = SaveUser(Here(s), s, s, v) /\ K = ForceUidNick(SaveBack(L, t, u, ts), s, t, u)
        OBVIOUS
      <3>2. Ready(s, u, L)
        BY <1>3, <2>1, <2>2, <2>4, <2>5, <3>1, ReadySaved
      <3>3. Treated(s, t, u, m, K)
        BY <1>1, <1>3, <2>2, <2>3, <2>4, <2>5, <3>1, <3>2, NickForced
      <3> QED BY <1>4, <2>5, <3>1, <3>3
    <2>6. CASE CommitFrom(s, t, KillEverywhere(KillEverywhere(Here(s), s, u), s, v))
      <3>1. PICK K : K = KillEverywhere(KillEverywhere(Here(s), s, u), s, v)
        OBVIOUS
      <3>2. Treated(s, t, u, m, K)
        BY <1>3, <2>1, <2>2, <2>3, <3>1, NickBothEnd
      <3> QED BY <1>4, <2>6, <3>1, <3>2
    <2>7. CASE UseSave(s, u, v) /\ CommitFrom(s, t, ForceUidNick(SaveBack(Here(s), t, u, ts), s, t, u))
      <3>1. PICK K : K = ForceUidNick(SaveBack(H, t, u, ts), s, t, u)
        OBVIOUS
      <3>2. Treated(s, t, u, m, K)
        BY <1>1, <1>3, <1>5, <2>2, <2>3, <2>4, <2>7, <3>1, NickForced
      <3> QED BY <1>4, <1>5, <2>7, <3>1, <3>2
    <2>8. CASE CommitFrom(s, t, KillEverywhere(Here(s), s, u))
      <3>1. PICK K : K = KillEverywhere(H, s, u)
        OBVIOUS
      <3>2. Treated(s, t, u, m, K)
        BY <1>3, <1>5, <2>3, <3>1, NickKilled
      <3> QED BY <1>4, <1>5, <2>8, <3>1, <3>2
    <2>9. CASE UseSave(s, u, v) /\ CommitFrom(s, t, ChangeRemoteNick(SaveUser(Here(s), s, s, v), s, t, u, n, ts))
      <3>1. PICK L, K : L = SaveUser(Here(s), s, s, v) /\ K = ChangeRemoteNick(L, s, t, u, n, ts)
        OBVIOUS
      <3>2. Ready(s, u, L)
        BY <1>3, <2>1, <2>2, <2>4, <2>9, <3>1, ReadySaved
      <3>3. Treated(s, t, u, m, K)
        BY <1>1, <1>3, <2>3, <3>1, <3>2, NickTaken
      <3> QED BY <1>4, <2>9, <3>1, <3>3
    <2>10. CASE CommitFrom(s, t, ChangeRemoteNick(KillEverywhere(Here(s), s, v), s, t, u, n, ts))
      <3>1. PICK L, K : L = KillEverywhere(Here(s), s, v) /\ K = ChangeRemoteNick(L, s, t, u, n, ts)
        OBVIOUS
      <3>2. Ready(s, u, L)
        BY <1>3, <2>1, <2>2, <3>1, ReadyKilled
      <3>3. Treated(s, t, u, m, K)
        BY <1>1, <1>3, <2>3, <3>1, <3>2, NickTaken
      <3> QED BY <1>4, <2>10, <3>1, <3>3
    <2> QED BY <1>9, <2>5, <2>6, <2>7, <2>8, <2>9, <2>10
  <1> QED BY <1>1, <1>6, <1>7, <1>8, <1>9 DEF McNick

-----------------------------------------------------------------------------
(* A SAVE, a QUIT and a KILL.                                              *)

\* The line is passed on, and the user goes.
LEMMA RelaySays ==
    ASSUME NEW s \in Server, NEW L, Plain(s, L), NEW u \in User, NEW e, Fresh(L, u, e), IsPerson(e),
           NEW m \in UserLine, Concerns(m, u), NEW peers, peers \subseteq est[s],
           NEW K, K = Drop(SendTo(L, peers, m), u)
    PROVE  /\ Plain(s, K) /\ \A v \in User \ {u} : Mute(L, K, v)
           /\ \A type : m.type = type => Ends(peers, u, e, K.client[u], K.out, type)
  <1>1. PICK J : J = SendTo(L, peers, m)
    OBVIOUS
  <1>2. Unspoken(L, u, peers)
    BY DEF Fresh, Unspoken
  <1>3. Tellingly(s, L, J, u, peers, m)
    BY <1>1, <1>2, SendToSays
  <1>4. /\ Plain(s, J)
        /\ \A r \in Server : /\ r \in peers => Line(J.out[r], u, m)
                             /\ r \notin peers => J.out[r] = L.out[r]
        /\ \A v \in User \ {u} : Mute(L, J, v)
    BY <1>3 DEF Tellingly
  <1>5. /\ Plain(s, K) /\ K.out = J.out /\ K.client[u] = Absent
        /\ \A v \in User \ {u} : Mute(J, K, v)
    BY <1>1, <1>4, SetPlain
  <1>6. \A v \in User \ {u} : Mute(L, K, v)
    BY <1>4, <1>5, MuteFacts
  <1>7. ASSUME NEW type, m.type = type
        PROVE  Ends(peers, u, e, K.client[u], K.out, type)
    <2>1. \A r \in Server : IF r \in peers THEN Ending(K.out[r], u, type) ELSE Still(K.out[r], u)
      BY <1>4, <1>5, <1>7 DEF Ending, Fresh
    <2> QED BY <1>5, <2>1 DEF Ends
  <1> QED BY <1>5, <1>6, <1>7

\* ms_save: the user is renamed, or the SAVE is for a nick it no longer has.
LEMMA MsSaveManaged ==
    ASSUME IInv, TInv, FInv, NEW A, AInv(A), NEW s, NEW t, MsSave(s, t)
    PROVE  Managed(s, t)
  <1>1. PICK m, u : m = Msg(s, t) /\ u = m.u
    OBVIOUS
  <1>2. First(s, t, "SAVE") /\ UNCHANGED <<est, splits, used, now>>
    BY DEF MsSave, Steady
  <1>3. /\ s \in Server /\ t \in Server /\ <<t, s>> \in Edge /\ <<s, t>> \in Edge
        /\ t \in est[s] /\ chan[<<t, s>>] # <<>> /\ s \notin est[s]
        /\ m.type = "SAVE" /\ u \in User /\ Concerns(m, u)
    BY <1>1, <1>2, LineRead
  <1>4. \A K : CommitFrom(s, t, K) /\ Treated(s, t, u, m, K) => Managed(s, t)
    BY <1>1, <1>2, <1>3, TreatedManaged
  <1>5. PICK H : H = Here(s) /\ Ready(s, u, H)
    BY <1>3, HereReady
  <1>6. CollisionFnc
    BY <1>1, <1>3, ReadSides
  <1>7. client[s][u] \in EntryFor(u)
    BY <1>3, EntriesNamed DEF IInv
  <1>8. Obeys(client[s][u], u, m.ts) <=> Heeds(m, u, client[s][u])
    <2>1. IsPerson(client[s][u]) => client[s][u].nick \in NameFor(u) /\ u \notin Nick
      BY <1>3, <1>7, PersonNamed, NameFacts
    <2> QED BY <1>3, <2>1 DEF Obeys, Heeds, NameFor
  <1>9. CASE Obeys(client[s][u], u, m.ts) /\ CommitFrom(s, t, SaveUser(Here(s), s, t, u))
    <2>1. PICK K, e, peers : K = SaveUser(H, s, t, u) /\ e = client[s][u] /\ peers = est[s] \ {t}
      OBVIOUS
    <2>2. Plain(s, H) /\ Rest(s, u, H) /\ Fresh(H, u, e)
      BY <1>5, <2>1 DEF Ready, Rest
    <2>3. IsPerson(e) /\ e.nick \in Nick /\ e.ts \in Nat
      <3>1. Heeds(m, u, e)
        BY <1>8, <1>9, <2>1
      <3>2. e.ts \in Nat
        BY <1>3, <1>7, <2>1, <3>1, PersonNamed DEF Heeds
      <3> QED BY <3>1, <3>2 DEF Heeds
    <2>4. Rid(s, peers, H, K, u, e)
      BY <1>3, <1>6, <2>1, <2>2, <2>3, SaveUserSays
    <2>5. /\ Plain(s, K) /\ \A v \in User \ {u} : Mute(H, K, v)
          /\ Saves(s, peers, u, e, K.client[u], K.out) \/ Ends(est[s], u, e, K.client[u], K.out, "KILL")
      BY <2>4 DEF Rid
    <2>6. Rest(s, u, K)
      BY <2>2, <2>5, RestKept
    <2>7. AccordSave(s, t, u, m, client[s][u], K.client[u], K.out)
      BY <1>8, <1>9, <2>1, <2>5 DEF AccordSave
    <2>8. Treated(s, t, u, m, K)
      BY <1>3, <2>5, <2>6, <2>7 DEF Treated, Accord
    <2> QED BY <1>4, <1>5, <1>9, <2>1, <2>8
  <1>10. CASE ~Obeys(client[s][u], u, m.ts) /\ CommitFrom(s, t, Here(s))
    <2>1. Plain(s, H) /\ Rest(s, u, H) /\ H.client[u] = client[s][u] /\ \A r \in Server : Still(H.out[r], u)
      BY <1>5, ReadyStill
    <2>2. AccordSave(s, t, u, m, client[s][u], H.client[u], H.out)
      BY <1>8, <1>10, <2>1 DEF AccordSave
    <2>3. Treated(s, t, u, m, H)
      BY <1>3, <2>1, <2>2 DEF Treated, Accord
    <2> QED BY <1>4, <1>5, <1>10, <2>3
  <1> QED BY <1>1, <1>9, <1>10 DEF MsSave

\* ms_quit: the user goes, or is not known.
LEMMA MsQuitManaged ==
    ASSUME IInv, TInv, FInv, NEW A, AInv(A), NEW s, NEW t, MsQuit(s, t)
    PROVE  Managed(s, t)
  <1>1. PICK m, u : m = Msg(s, t) /\ u = m.u
    OBVIOUS
  <1>2. First(s, t, "QUIT") /\ UNCHANGED <<est, splits, used, now>>
    BY DEF MsQuit, Steady
  <1>3. /\ s \in Server /\ t \in Server /\ <<t, s>> \in Edge /\ <<s, t>> \in Edge
        /\ t \in est[s] /\ chan[<<t, s>>] # <<>>
        /\ m \in Message /\ m.type = "QUIT" /\ u \in User /\ Concerns(m, u)
    BY <1>1, <1>2, LineRead
  <1>4. \A K : CommitFrom(s, t, K) /\ Treated(s, t, u, m, K) => Managed(s, t)
    BY <1>1, <1>2, <1>3, TreatedManaged
  <1>5. PICK H, e : H = Here(s) /\ Ready(s, u, H) /\ e = client[s][u]
    BY <1>3, HereReady
  <1>6. Plain(s, H) /\ Rest(s, u, H) /\ Fresh(H, u, e)
    BY <1>5 DEF Ready, Rest
  <1>7. e = Absent \/ IsPerson(e)
    <2>1. Home[u] \in Behind[<<s, t>>]
      BY <1>1, <1>3, ReadSides
    <2> QED BY <1>3, <1>5, <2>1, Strange
  <1>8. CASE UnknownPrefix(s, t, u)
    <2>1. e = Absent
      BY <1>5, <1>7, <1>8 DEF UnknownPrefix, IsPerson
    <2>2. PICK K : K = KillBack(H, s, t, u)
      OBVIOUS
    <2>3. /\ Plain(s, K) /\ \A v \in User \ {u} : Mute(H, K, v)
          /\ K.client[u] = e /\ Ending(K.out[t], u, "KILL") /\ Silent(t, u, K.out)
      BY <1>3, <1>6, <2>2, KillBackSays
    <2>4. Rest(s, u, K)
      BY <1>6, <2>3, RestKept
    <2>5. Treated(s, t, u, m, K)
      BY <1>3, <1>5, <2>1, <2>3, <2>4 DEF Treated, Accord, AccordQuit
    <2> QED BY <1>4, <1>5, <1>8, <2>2, <2>5 DEF UnknownPrefix
  <1>9. CASE client[s][u].on # "absent" /\ CommitFrom(s, t, Drop(SendTo(Here(s), est[s] \ {t}, m), u))
    <2>1. IsPerson(e)
      BY <1>5, <1>7, <1>9 DEF Absent
    <2>2. PICK K, peers : peers = est[s] \ {t} /\ K = Drop(SendTo(H, peers, m), u)
      OBVIOUS
    <2>3. m \in UserLine
      BY <1>3 DEF UserLine
    <2>4. /\ Plain(s, K) /\ \A v \in User \ {u} : Mute(H, K, v)
          /\ \A type : m.type = type => Ends(peers, u, e, K.client[u], K.out, type)
      BY <1>3, <1>6, <2>1, <2>2, <2>3, RelaySays
    <2>5. Rest(s, u, K)
      BY <1>6, <2>4, RestKept
    <2>6. AccordQuit(s, t, u, e, K.client[u], K.out)
      BY <1>3, <2>2, <2>4 DEF AccordQuit
    <2>7. Treated(s, t, u, m, K)
      BY <1>3, <1>5, <2>4, <2>5, <2>6 DEF Treated, Accord
    <2> QED BY <1>4, <1>5, <1>9, <2>2, <2>7
  <1> QED BY <1>1, <1>8, <1>9 DEF MsQuit

\* ms_kill: the user goes, or is no person here; no operator has sent it.
LEMMA MsKillManaged ==
    ASSUME IInv, TInv, FInv, Oper = {}, NEW s, NEW t, MsKill(s, t)
    PROVE  Managed(s, t)
  <1>1. PICK m, u : m = Msg(s, t) /\ u = m.u
    OBVIOUS
  <1>2. First(s, t, "KILL") /\ UNCHANGED <<est, splits, used, now>>
    BY DEF MsKill, Steady
  <1>3. /\ s \in Server /\ t \in Server /\ <<t, s>> \in Edge /\ <<s, t>> \in Edge
        /\ t \in est[s] /\ chan[<<t, s>>] # <<>>
        /\ m \in Message /\ m.type = "KILL" /\ u \in User /\ Concerns(m, u)
    BY <1>1, <1>2, LineRead
  <1>4. \A K : CommitFrom(s, t, K) /\ Treated(s, t, u, m, K) => Managed(s, t)
    BY <1>1, <1>2, <1>3, TreatedManaged
  <1>5. PICK H, e : H = Here(s) /\ Ready(s, u, H) /\ e = client[s][u]
    BY <1>3, HereReady
  <1>6. Plain(s, H) /\ Rest(s, u, H) /\ Fresh(H, u, e)
    BY <1>5 DEF Ready, Rest
  <1>7. m.src \notin User
    <2>1. Fair(m)
      BY <1>1, <1>3, ReadFair
    <2> QED BY <1>3, <2>1 DEF Fair
  <1>8. CASE ~IsPerson(e) /\ CommitFrom(s, t, Here(s))
    <2>1. Plain(s, H) /\ Rest(s, u, H) /\ H.client[u] = client[s][u] /\ \A r \in Server : Still(H.out[r], u)
      BY <1>5, ReadyStill
    <2>2. Treated(s, t, u, m, H)
      BY <1>3, <1>5, <1>8, <2>1 DEF Treated, Accord, AccordKill
    <2> QED BY <1>4, <1>5, <1>8, <2>2
  <1>9. CASE IsPerson(e) /\ CommitFrom(s, t, Drop(SendTo(Here(s), est[s] \ {t}, m), u))
    <2>1. PICK K, peers : peers = est[s] \ {t} /\ K = Drop(SendTo(H, peers, m), u)
      OBVIOUS
    <2>2. m \in UserLine
      BY <1>3 DEF UserLine
    <2>3. /\ Plain(s, K) /\ \A v \in User \ {u} : Mute(H, K, v)
          /\ \A type : m.type = type => Ends(peers, u, e, K.client[u], K.out, type)
      BY <1>3, <1>6, <1>9, <2>1, <2>2, RelaySays
    <2>4. Rest(s, u, K)
      BY <1>6, <2>3, RestKept
    <2>5. AccordKill(s, t, u, e, K.client[u], K.out)
      BY <1>3, <2>1, <2>3 DEF AccordKill
    <2>6. Treated(s, t, u, m, K)
      BY <1>3, <1>5, <2>3, <2>4, <2>5 DEF Treated, Accord
    <2> QED BY <1>4, <1>5, <1>9, <2>1, <2>6
  <1>10. \/ ~IsPerson(e) /\ CommitFrom(s, t, Here(s))
         \/ IsPerson(e) /\ CommitFrom(s, t, Drop(SendTo(Here(s), est[s] \ {t}, m), u))
    BY <1>1, <1>5, <1>7 DEF MsKill
  <1> QED BY <1>8, <1>9, <1>10

\* Every line about a user is treated as it should be.
LEMMA UserLineStep ==
    ASSUME IInv, IInv', TInv, FInv, Oper = {}, NEW A, AInv(A), NEW s, NEW t,
           \/ MsUid(s, t) \/ McNick(s, t) \/ MsSave(s, t) \/ MsQuit(s, t) \/ MsKill(s, t)
    PROVE  \E B : AInv(B)'
  <1>1. Managed(s, t)
    BY MsUidManaged, McNickManaged, MsSaveManaged, MsQuitManaged, MsKillManaged
  <1>2. PICK c, out : Reads(s, t, c, out) /\ \A u \in User : Treats(s, t, u, c, out)
    BY <1>1 DEF Managed
  <1> QED BY <1>2, ReadStep

-----------------------------------------------------------------------------
(* A server's own events.                                                  *)

\* s has the table c, and says out.
Acts(s, c, out) ==
    /\ Sets(s, c) /\ UNCHANGED <<est, splits>> /\ chan' = Transmit(s, chan, out)
    /\ \A r : <<s, r>> \in Edge => out[r] \in Seq(Due(s, r))

\* It tells what it does to its own users, and leaves the others alone.
Affects(A, B, s, c, out) ==
    /\ B \in [Server -> [User -> Hearsay]]
    /\ \A r \in Server \ {s} : B[r] = A[r]
    /\ \A u \in User :
         /\ Home[u] = s => \A r \in est[s] : <<s, r>> \in Edge =>
               Gives(u, client[s][u], c[u], A[s][u].ts, B[s][u].ts, out[r])
         /\ Home[u] # s => /\ B[s][u] = A[s][u] /\ c[u] = client[s][u]
                           /\ \A r : <<s, r>> \in Edge => Still(out[r], u)

\* The queues, once s has acted.
LEMMA ActQueues ==
    ASSUME IInv, NEW s \in Server, NEW c, NEW out, Acts(s, c, out)
    PROVE  /\ client'[s] = c /\ \A r \in Server \ {s} : client'[r] = client[r]
           /\ \A a, b : <<a, b>> \in Edge /\ a # s => chan'[<<a, b>>] = chan[<<a, b>>]
           /\ \A r : <<s, r>> \in Edge =>
                /\ out[r] \in Seq(Message)
                /\ chan'[<<s, r>>] = IF Open(r, s) THEN chan[<<s, r>>] \o out[r] ELSE chan[<<s, r>>]
  <1>1. client'[s] = c /\ \A r \in Server \ {s} : client'[r] = client[r]
    <2>1. client \in [Server -> Table]
      BY DEF IInv, TypeOK
    <2> QED BY <2>1 DEF Acts, Sets
  <1>2. chan' = Transmit(s, chan, out)
    BY DEF Acts
  <1>3. \A a, b : <<a, b>> \in Edge /\ a # s => chan'[<<a, b>>] = chan[<<a, b>>]
    BY <1>2, Transmitted
  <1>4. ASSUME NEW r, <<s, r>> \in Edge
        PROVE  /\ out[r] \in Seq(Message)
               /\ chan'[<<s, r>>] = IF Open(r, s) THEN chan[<<s, r>>] \o out[r] ELSE chan[<<s, r>>]
    <2>1. out[r] \in Seq(Due(s, r)) /\ Due(s, r) \subseteq Message
      BY <1>4 DEF Acts, Due
    <2>2. out[r] \in Seq(Message)
      BY <2>1
    <2> QED BY <1>2, <1>4, <2>2, Transmitted
  <1> QED BY <1>1, <1>3, <1>4

\* What s tells of its own users makes sense to the others.
LEMMA ActCarries ==
    ASSUME IInv, IInv', TInv, NEW A, AInv(A), NEW s \in Server, NEW c, NEW out, Acts(s, c, out),
           NEW B, Affects(A, B, s, c, out), NEW a, NEW b, NEW u \in User, Followed(a, b, u)
    PROVE  Carries(a, b, u, B)'
  <1>1. /\ <<a, b>> \in Edge /\ <<b, a>> \in Edge /\ a \in Server /\ b \in Server /\ a # b
        /\ Home[u] \in Behind[<<b, a>>] /\ Home[u] # b
    BY EdgeFacts, Opposite DEF Followed
  <1>2. Carries(a, b, u, A) /\ splits' = splits /\ est' = est
    BY DEF AInv, Acts
  <1>3. /\ client'[s] = c /\ \A r \in Server \ {s} : client'[r] = client[r]
        /\ \A x, y : <<x, y>> \in Edge /\ x # s => chan'[<<x, y>>] = chan[<<x, y>>]
        /\ \A r : <<s, r>> \in Edge =>
                /\ out[r] \in Seq(Message)
                /\ chan'[<<s, r>>] = IF Open(r, s) THEN chan[<<s, r>>] \o out[r] ELSE chan[<<s, r>>]
    BY ActQueues
  <1>4. CASE a # s /\ b # s
    <2>1. B[a] = A[a] /\ B[b] = A[b] /\ client'[a] = client[a] /\ client'[b] = client[b]
      BY <1>1, <1>3, <1>4 DEF Affects
    <2>2. chan'[<<a, b>>] = chan[<<a, b>>] /\ chan'[<<b, a>>] = chan[<<b, a>>]
      BY <1>1, <1>3, <1>4
    <2> QED BY <1>2, <2>1, <2>2, CarriesKept
  <1>5. CASE a = s
    <2>1. /\ out[b] \in Seq(Message) /\ chan'[<<b, s>>] = chan[<<b, s>>] /\ client'[b] = client[b] /\ client'[s] = c
          /\ chan'[<<s, b>>] = IF Open(b, s) THEN chan[<<s, b>>] \o out[b] ELSE chan[<<s, b>>]
      BY <1>1, <1>3, <1>5
    <2>2. B[b] = A[b] /\ B[s][u] \in Hearsay /\ A[s][u] \in Hearsay
      BY <1>1, <1>5, ToldTyped DEF Affects
    <2>3. b \in est[s] => Gives(u, client[s][u], client'[s][u], A[s][u].ts, B[s][u].ts, out[b])
      <3>1. CASE Home[u] = s
        BY <1>1, <1>5, <2>1, <3>1 DEF Affects
      <3>2. CASE Home[u] # s
        <4>1. B[s][u] = A[s][u] /\ c[u] = client[s][u] /\ Still(out[b], u)
          BY <1>1, <1>5, <3>2 DEF Affects
        <4>2. \A ts \in Int : Gives(u, client[s][u], client[s][u], ts, ts, out[b])
          BY <4>1, StillSpeaks
        <4> QED BY <2>1, <2>2, <4>1, <4>2, HearsayFacts
      <3> QED BY <3>1, <3>2
    <2> QED BY <1>1, <1>2, <1>5, <2>1, <2>2, <2>3, CarriesOut
  <1>6. CASE b = s
    <2>1. /\ out[a] \in Seq(Message) /\ chan'[<<a, s>>] = chan[<<a, s>>] /\ client'[a] = client[a] /\ client'[s] = c
          /\ chan'[<<s, a>>] = IF Open(a, s) THEN chan[<<s, a>>] \o out[a] ELSE chan[<<s, a>>]
      BY <1>1, <1>3, <1>6
    <2>2. B[a] = A[a] /\ B[s][u] = A[s][u] /\ c[u] = client[s][u] /\ Still(out[a], u)
      BY <1>1, <1>6 DEF Affects
    <2>3. Minds(u, client[s][u], client'[s][u], out[a])
      BY <2>1, <2>2, StillSpeaks
    <2> QED BY <1>1, <1>2, <1>6, <2>1, <2>2, <2>3, CarriesIn
  <1> QED BY <1>4, <1>5, <1>6

\* What AInv asks is kept when s tells what it does to its own users.
LEMMA ActStep ==
    ASSUME IInv, IInv', TInv, NEW A, AInv(A), NEW s \in Server, NEW c, NEW out, Acts(s, c, out),
           NEW B, Affects(A, B, s, c, out), \A u \in User : Rooted(u, B)'
    PROVE  \E C : AInv(C)'
  <1>1. B \in [Server -> [User -> Hearsay]]
    BY DEF Affects
  <1>2. ASSUME NEW a, NEW b, <<a, b>> \in Edge
        PROVE  chan'[<<a, b>>] \in Seq(Due(a, b)')
    BY <1>2, DuePoured DEF Acts, AInv
  <1>3. ASSUME NEW a, NEW b, NEW u \in User, Followed(a, b, u)'
        PROVE  Carries(a, b, u, B)'
    <2>1. Followed(a, b, u)
      BY <1>3 DEF Followed, Acts
    <2> QED BY <2>1, ActCarries
  <1>4. Whole'
    <2>1. PICK queues : queues = chan
      OBVIOUS
    <2>2. chan' = Transmit(s, queues, out) /\ est' = est /\ splits' = splits /\ Whole
      BY <2>1 DEF Acts, AInv
    <2>3. \A r : <<s, r>> \in Edge => out[r] \in Seq(Message)
      BY ActQueues
    <2> QED BY <2>1, <2>2, <2>3, OpenKept
  <1>5. AInv(B)'
    BY <1>1, <1>2, <1>3, <1>4 DEF AInv
  <1> QED BY <1>5

\* out tells m to every peer of s.
Voices(s, m, out) ==
    \A r : <<s, r>> \in Edge =>
        /\ \A v : ~Concerns(m, v) => Still(out[r], v)
        /\ \A v : r \in est[s] /\ Concerns(m, v) => Line(out[r], v, m)

\* s says m to all its peers.
LEMMA TellActs ==
    ASSUME NEW s \in Server, NEW c, Sets(s, c), UNCHANGED <<est, splits>>, NEW m \in Message,
           \A r : <<s, r>> \in Edge => m \in Due(s, r), NEW out, out = Tell(est[s], m), chan' = Transmit(s, chan, out)
    PROVE  Acts(s, c, out) /\ Voices(s, m, out)
  <1>1. ASSUME NEW r, <<s, r>> \in Edge
        PROVE  /\ out[r] = IF r \in est[s] THEN <<m>> ELSE <<>>
               /\ out[r] \in Seq(Due(s, r))
    <2>1. r \in Server
      BY <1>1, EdgeFacts
    <2>2. out[r] = IF r \in est[s] THEN <<m>> ELSE <<>>
      BY <2>1 DEF Tell
    <2>3. PICK D : D = Due(s, r)
      OBVIOUS
    <2>4. <<m>> \in Seq(D) /\ <<>> \in Seq(D)
      BY <1>1, <2>3
    <2> QED BY <2>2, <2>3, <2>4
  <1>2. Acts(s, c, out)
    BY <1>1 DEF Acts
  <1>3. ASSUME NEW r, <<s, r>> \in Edge, NEW v
        PROVE  /\ ~Concerns(m, v) => Still(out[r], v)
               /\ r \in est[s] /\ Concerns(m, v) => Line(out[r], v, m)
    <2>1. out[r] = <<m>> \/ (out[r] = <<>> /\ r \notin est[s])
      BY <1>1, <1>3
    <2>2. ~Concerns(m, v) => Still(<<m>>, v)
      BY DEF Still
    <2>3. Still(<<>>, v)
      BY DEF Still
    <2>4. Concerns(m, v) => Line(<<m>>, v, m)
      <3>1. Len(<<m>>) = 1 /\ <<m>>[1] = m
        OBVIOUS
      <3> QED BY <3>1 DEF Line
    <2> QED BY <2>1, <2>2, <2>3, <2>4
  <1> QED BY <1>2, <1>3 DEF Voices

\* s says nothing.
LEMMA SilentActs ==
    ASSUME IInv, NEW s \in Server, NEW c, Sets(s, c), UNCHANGED <<est, splits, chan>>
    PROVE  \E out : Acts(s, c, out) /\ \A r \in Server : \A v : Still(out[r], v)
  <1>1. PICK out : out = [t \in Server |-> <<>>]
    OBVIOUS
  <1>2. chan' = Transmit(s, chan, out)
    BY <1>1, NothingSent
  <1>3. ASSUME NEW r, <<s, r>> \in Edge
        PROVE  out[r] \in Seq(Due(s, r))
    <2>1. out[r] = <<>>
      BY <1>1, <1>3, EdgeFacts
    <2>2. PICK D : D = Due(s, r)
      OBVIOUS
    <2>3. <<>> \in Seq(D)
      OBVIOUS
    <2> QED BY <2>1, <2>2, <2>3
  <1>4. \A r \in Server : \A v : Still(out[r], v)
    BY <1>1 DEF Still
  <1>5. Acts(s, c, out)
    BY <1>2, <1>3 DEF Acts
  <1> QED BY <1>4, <1>5

\* A user whom nothing happens to at home.
LEMMA RootedKept ==
    ASSUME NEW A, NEW B, NEW u, Rooted(u, A), Self(u)' = Self(u), B[Home[u]][u] = A[Home[u]][u], used \subseteq used'
    PROVE  Rooted(u, B)'
  <1>1. (IsPerson(Self(u)))' <=> IsPerson(Self(u)')
    BY DEF IsPerson
  <1> QED BY <1>1 DEF Rooted, IsPerson

\* What a step of other concerns leaves is as it was.
LEMMA AInvSame ==
    ASSUME NEW A, AInv(A), UNCHANGED <<client, est, chan, used, splits>>
    PROVE  AInv(A)'
  <1>1. A \in [Server -> [User -> Hearsay]]
    BY DEF AInv
  <1>2. \A t, s : <<t, s>> \in Edge => chan'[<<t, s>>] \in Seq(Due(t, s)')
    <2>1. \A t, s : Due(t, s)' = Due(t, s)
      BY DEF Due
    <2> QED BY <2>1 DEF AInv
  <1>3. \A u \in User : Rooted(u, A)'
    BY DEF AInv, Rooted, Self, IsPerson
  <1>4. ASSUME NEW t, NEW s, NEW u \in User, Followed(t, s, u)'
        PROVE  Carries(t, s, u, A)'
    <2>1. Carries(t, s, u, A)
      BY <1>4 DEF AInv, Followed
    <2> QED BY <2>1, CarriesKept
  <1>5. Whole'
    BY DEF AInv, Whole, Open
  <1> QED BY <1>1, <1>2, <1>3, <1>4, <1>5 DEF AInv

\* A with h for what s has told of u.
Alters(A, B, s, u, h) ==
    /\ B \in [Server -> [User -> Hearsay]] /\ B[s][u] = h
    /\ \A r \in Server \ {s} : B[r] = A[r]
    /\ \A v \in User \ {u} : B[s][v] = A[s][v]

\* What has been told can be given with h for u.
LEMMA Altered ==
    ASSUME NEW A, AInv(A), NEW s \in Server, NEW u \in User, NEW h \in Hearsay
    PROVE  \E B : Alters(A, B, s, u, h)
  <1>1. A \in [Server -> [User -> Hearsay]]
    BY DEF AInv
  <1>2. PICK B : B = [A EXCEPT ![s] = [@ EXCEPT ![u] = h]]
    OBVIOUS
  <1>3. Alters(A, B, s, u, h)
    BY <1>1, <1>2 DEF Alters
  <1> QED BY <1>3

\* Everybody at s is as it was, but for u and perhaps for some who had not registered.
OneActs(s, u, c) ==
    \A v \in User \ {u} : c[v] = client[s][v] \/ (client[s][v].on = "unknown" /\ c[v] = Absent)

\* s speaks of u alone, and tells what has come of it.
OneTold(s, u, c, ts, ts2, out) ==
    /\ \A v \in User \ {u} : \A r : <<s, r>> \in Edge => Still(out[r], v)
    /\ \A r \in est[s] : <<s, r>> \in Edge => Gives(u, client[s][u], c[u], ts, ts2, out[r])

\* s tells what it does to u, and does nothing else that has to be told.
LEMMA OnlyOne ==
    ASSUME IInv, TInv, NEW A, AInv(A), NEW s \in Server, NEW u \in User, Home[u] = s,
           NEW c, OneActs(s, u, c), NEW h, NEW B, Alters(A, B, s, u, h),
           NEW out, OneTold(s, u, c, A[s][u].ts, h.ts, out)
    PROVE  Affects(A, B, s, c, out)
  <1>1. /\ B \in [Server -> [User -> Hearsay]] /\ B[s][u] = h
        /\ \A r \in Server \ {s} : B[r] = A[r]
        /\ \A v \in User \ {u} : B[s][v] = A[s][v]
    BY DEF Alters
  <1>2. ASSUME NEW v \in User, Home[v] = s, NEW r \in est[s], <<s, r>> \in Edge
        PROVE  Gives(v, client[s][v], c[v], A[s][v].ts, B[s][v].ts, out[r])
    <2>1. CASE v = u
      BY <1>1, <1>2, <2>1 DEF OneTold
    <2>2. CASE v # u
      <3>1. B[s][v] = A[s][v] /\ Still(out[r], v) /\ A[s][v] \in Hearsay
        BY <1>1, <1>2, <2>2, ToldTyped DEF OneTold
      <3>2. c[v] = client[s][v] \/ (~IsPerson(client[s][v]) /\ ~IsPerson(c[v]))
        BY <2>2 DEF IsPerson, Absent, OneActs
      <3>3. A[s][v].ts <= A[s][v].ts
        BY <3>1, HearsayFacts
      <3> QED BY <3>1, <3>2, <3>3 DEF Gives
    <2> QED BY <2>1, <2>2
  <1>3. ASSUME NEW v \in User, Home[v] # s
        PROVE  /\ B[s][v] = A[s][v] /\ c[v] = client[s][v]
               /\ \A r : <<s, r>> \in Edge => Still(out[r], v)
    <2>1. client[s][v].on # "unknown"
      <3>1. PICK M : Met(M)
        BY DEF TInv
      <3> QED BY <1>3, <3>1 DEF Met, Reach
    <2> QED BY <1>1, <1>3, <2>1 DEF OneActs, OneTold
  <1> QED BY <1>1, <1>2, <1>3 DEF Affects

\* What becomes of the others at home.
LEMMA OthersRooted ==
    ASSUME IInv, FInv, NEW A, AInv(A), NEW s \in Server, NEW u \in User, NEW c, Sets(s, c), OneActs(s, u, c),
           NEW h, NEW B, Alters(A, B, s, u, h), used \subseteq used', NEW v \in User \ {u}
    PROVE  Rooted(v, B)'
  <1>1. B[Home[v]][v] = A[Home[v]][v] /\ Home[v] \in Server
    BY UserAssumption DEF Alters
  <1>2. Self(v)' = Self(v) \/ (Self(v).on = "unknown" /\ Self(v)' = Absent)
    <2>1. client \in [Server -> Table]
      BY DEF IInv, TypeOK
    <2>2. Self(v)' = IF Home[v] = s THEN c[v] ELSE Self(v)
      BY <1>1, <2>1 DEF Self, Sets
    <2> QED BY <2>2 DEF OneActs, Self
  <1>3. CASE Self(v)' = Self(v)
    BY <1>1, <1>3, RootedKept DEF AInv
  <1>4. CASE Self(v).on = "unknown" /\ Self(v)' = Absent
    <2>1. A[Home[v]][v].ts = -1
      BY <1>4 DEF AInv, Rooted
    <2> QED BY <1>1, <1>4, <2>1 DEF Rooted, IsPerson, Absent
  <1> QED BY <1>2, <1>3, <1>4

\* register_local_user and introduce_client keep the agreement.
LEMMA RegisterAgreed ==
    ASSUME IInv, IInv', TInv, FInv, NEW A, AInv(A), NEW u \in User, Register(u)
    PROVE  \E B : AInv(B)'
  <1>1. PICK s, e, m : /\ s = Home[u] /\ e = client[s][u]
                       /\ m = [type |-> "UID", u |-> u, nick |-> e.nick, ts |-> e.ts]
    OBVIOUS
  <1>2. s \in Server /\ UNCHANGED <<est, splits, used>> /\ e.on = "unknown" /\ Self(u) = e
    BY <1>1, UserAssumption DEF Register, Steady, Self
  <1>3. PICK c : /\ client' = [client EXCEPT ![s] = c] /\ client'[s] = c
                 /\ \A v \in User \ {u} : c[v] = client[s][v]
                 /\ c[u] = [on |-> "person", nick |-> e.nick, ts |-> e.ts]
                 /\ chan' = Transmit(s, chan, Tell(est[s], m))
    BY <1>1, RegisterIs
  <1>4. e.nick \in NameFor(u) /\ e.nick \in Name /\ e.ts \in Nat
    <2>1. e.on # "absent"
      BY <1>2
    <2>2. e.nick \in NameFor(u) /\ e.ts \in Nat
      BY <1>2, <2>1, SelfTyped DEF IInv
    <2> QED BY <2>2, NameFacts
  <1>5. m \in Message /\ Concerns(m, u) /\ m.type = "UID" /\ m.nick = e.nick /\ m.ts = e.ts
    BY <1>1, <1>4, BuiltMessages DEF Concerns
  <1>6. PICK out : out = Tell(est[s], m)
    OBVIOUS
  <1>7. Acts(s, c, out) /\ Voices(s, m, out)
    <2>1. \A r : <<s, r>> \in Edge => m \in Due(s, r)
      BY <1>5 DEF Due
    <2>2. Sets(s, c)
      BY <1>3 DEF Sets
    <2> QED BY <1>2, <1>3, <1>5, <1>6, <2>1, <2>2, TellActs
  <1>8. PICK h : h = [nick |-> e.nick, ts |-> e.ts]
    OBVIOUS
  <1>9. h \in Hearsay /\ h.ts = e.ts
    BY <1>4, <1>8, HearsayFacts
  <1>10. A[s][u].ts = -1
    BY <1>1, <1>2 DEF AInv, Rooted
  <1>11. \A v \in User \ {u} : \A r : <<s, r>> \in Edge => Still(out[r], v)
    <2>1. \A v \in User \ {u} : ~Concerns(m, v)
      BY <1>1 DEF Concerns
    <2> QED BY <1>7, <2>1 DEF Voices
  <1>12. \A r \in est[s] : <<s, r>> \in Edge => Gives(u, client[s][u], c[u], A[s][u].ts, h.ts, out[r])
    <2>1. \A r \in est[s] : <<s, r>> \in Edge => Line(out[r], u, m)
      BY <1>5, <1>7 DEF Voices
    <2>2. ~IsPerson(client[s][u]) /\ IsPerson(c[u]) /\ c[u].nick = m.nick /\ c[u].ts = m.ts
      BY <1>1, <1>2, <1>3, <1>5 DEF IsPerson
    <2>3. A[s][u].ts <= h.ts /\ 0 <= h.ts /\ m.ts <= h.ts
      BY <1>4, <1>5, <1>9, <1>10
    <2> QED BY <1>5, <1>10, <2>1, <2>2, <2>3 DEF Gives
  <1>13. OneActs(s, u, c) /\ OneTold(s, u, c, A[s][u].ts, h.ts, out) /\ Sets(s, c)
    BY <1>3, <1>11, <1>12 DEF OneActs, OneTold, Sets
  <1>14. PICK B : Alters(A, B, s, u, h)
    BY <1>2, <1>9, Altered
  <1>16. Affects(A, B, s, c, out)
    BY <1>1, <1>2, <1>13, <1>14, OnlyOne
  <1>15. ASSUME NEW v \in User
         PROVE  Rooted(v, B)'
    <2>1. CASE v = u
      <3>1. Self(u)' = [on |-> "person", nick |-> e.nick, ts |-> e.ts]
        BY <1>1, <1>3 DEF Self
      <3>2. u \in used'
        BY <1>2 DEF FInv, Own
      <3>3. B[Home[u]][u].ts = Self(u)'.ts /\ 0 <= e.ts /\ Self(u)'.ts = e.ts /\ Self(u)'.on = "person"
        BY <1>1, <1>4, <1>9, <1>14, <3>1 DEF Alters
      <3>4. e.ts <= e.ts
        BY <1>4
      <3> QED BY <2>1, <3>2, <3>3, <3>4 DEF Rooted
    <2>2. CASE v # u
      <3>1. v \in User \ {u} /\ used \subseteq used'
        BY <1>2, <2>2
      <3> QED BY <1>2, <1>13, <1>14, <3>1, OthersRooted
    <2> QED BY <2>1, <2>2
  <1> QED BY <1>2, <1>7, <1>15, <1>16, ActStep

\* exit_local_client keeps the agreement.
LEMMA QuitAgreed ==
    ASSUME IInv, IInv', TInv, FInv, NEW A, AInv(A), NEW u \in User, Quit(u)
    PROVE  \E B : AInv(B)'
  <1>1. PICK s, e, m : s = Home[u] /\ e = client[s][u] /\ m = [type |-> "QUIT", u |-> u]
    OBVIOUS
  <1>2. s \in Server /\ UNCHANGED <<est, splits, used>> /\ IsPerson(e) /\ Self(u) = e
    BY <1>1, UserAssumption DEF Quit, Steady, Self
  <1>3. PICK c : /\ Sets(s, c) /\ c[u] = Absent /\ \A v \in User \ {u} : c[v] = client[s][v]
                 /\ chan' = Transmit(s, chan, Tell(est[s], m))
    BY <1>1, <1>2, LeaveIs DEF Quit
  <1>4. m \in Message /\ Concerns(m, u) /\ m.type = "QUIT"
    BY <1>1, BuiltMessages DEF Concerns
  <1>5. PICK out : out = Tell(est[s], m)
    OBVIOUS
  <1>6. Acts(s, c, out) /\ Voices(s, m, out)
    <2>1. \A r : <<s, r>> \in Edge => m \in Due(s, r)
      <3>1. \A r : <<s, r>> \in Edge => Home[m.u] \in Behind[<<r, s>>]
        BY <1>1, EdgeFacts
      <3> QED BY <1>4, <3>1 DEF Due
    <2> QED BY <1>2, <1>3, <1>4, <1>5, <2>1, TellActs
  <1>7. PICK h : h = A[s][u]
    OBVIOUS
  <1>8. h \in Hearsay
    BY <1>2, <1>7, ToldTyped
  <1>9. \A v \in User \ {u} : \A r : <<s, r>> \in Edge => Still(out[r], v)
    <2>1. \A v \in User \ {u} : ~Concerns(m, v)
      BY <1>1 DEF Concerns
    <2> QED BY <1>6, <2>1 DEF Voices
  <1>10. \A r \in est[s] : <<s, r>> \in Edge => Gives(u, client[s][u], c[u], A[s][u].ts, h.ts, out[r])
    <2>1. \A r \in est[s] : <<s, r>> \in Edge => Line(out[r], u, m)
      BY <1>4, <1>6 DEF Voices
    <2>2. IsPerson(client[s][u]) /\ ~IsPerson(c[u])
      BY <1>1, <1>2, <1>3 DEF IsPerson, Absent
    <2>3. A[s][u].ts <= h.ts
      BY <1>7, <1>8, HearsayFacts
    <2> QED BY <1>4, <2>1, <2>2, <2>3 DEF Gives
  <1>11. OneActs(s, u, c) /\ OneTold(s, u, c, A[s][u].ts, h.ts, out)
    BY <1>3, <1>9, <1>10 DEF OneActs, OneTold
  <1>12. PICK B : Alters(A, B, s, u, h)
    BY <1>2, <1>8, Altered
  <1>14. Affects(A, B, s, c, out)
    BY <1>1, <1>2, <1>11, <1>12, OnlyOne
  <1>13. ASSUME NEW v \in User
         PROVE  Rooted(v, B)'
    <2>1. CASE v = u
      <3>1. Self(u)' = Absent
        BY <1>1, <1>3 DEF Self, Sets
      <3>2. u \in used'
        BY <1>2 DEF FInv, Own, IsPerson
      <3> QED BY <2>1, <3>1, <3>2 DEF Rooted, IsPerson, Absent
    <2>2. CASE v # u
      <3>1. v \in User \ {u} /\ used \subseteq used'
        BY <1>2, <2>2
      <3> QED BY <1>2, <1>3, <1>11, <1>12, <3>1, OthersRooted
    <2> QED BY <2>1, <2>2
  <1> QED BY <1>2, <1>6, <1>13, <1>14, ActStep

\* A nick of a later second is a later nick, where collisions are settled by a SAVE.
Orderly == CollisionFnc => ~SameSecond

\* change_local_nick keeps the agreement: its timestamp is later than the last one.
LEMMA MNickAgreed ==
    ASSUME IInv, IInv', TInv, FInv, Orderly, NEW A, AInv(A), NEW u \in User, NEW n \in Nick, MNick(u, n)
    PROVE  \E B : AInv(B)'
  <1>1. PICK s, e : s = Home[u] /\ e = client[s][u]
    OBVIOUS
  <1>2. /\ s \in Server /\ UNCHANGED <<est, splits, used>> /\ IsPerson(e) /\ Self(u) = e
        /\ n # e.nick /\ (SameSecond \/ CurrentTime(s) > e.ts)
    BY <1>1, UserAssumption DEF MNick, Self
  <1>3. PICK c, ts : Renames(s, c, u, n, ts)
    BY <1>1, MNickIs
  <1>4. PICK m : m = [type |-> "NICK", u |-> u, nick |-> n, ts |-> ts]
    OBVIOUS
  <1>5. ts \in Nat /\ ts = CurrentTime(s) /\ n \in NameFor(u) /\ n \in Name /\ e.ts \in Nat
    <2>1. e.ts \in Nat
      BY <1>2, SelfTyped DEF IInv
    <2>2. ts \in Nat /\ ts = CurrentTime(s)
      BY <1>2, <1>3, ClockTyped DEF IInv, Renames
    <2> QED BY <2>1, <2>2 DEF NameFor, Name
  <1>6. m \in Message /\ Concerns(m, u) /\ m.type = "NICK" /\ m.nick = n /\ m.ts = ts
    BY <1>4, <1>5, BuiltMessages DEF Concerns
  <1>7. PICK out : out = Tell(est[s], m)
    OBVIOUS
  <1>8. Acts(s, c, out) /\ Voices(s, m, out)
    <2>1. \A r : <<s, r>> \in Edge => m \in Due(s, r)
      BY <1>6 DEF Due
    <2>2. Sets(s, c) /\ chan' = Transmit(s, chan, out)
      BY <1>3, <1>4, <1>7 DEF Renames
    <2> QED BY <1>2, <1>6, <1>7, <2>1, <2>2, TellActs
  <1>9. PICK h : h = [nick |-> n, ts |-> ts]
    OBVIOUS
  <1>10. h \in Hearsay /\ h.ts = ts
    BY <1>5, <1>9, HearsayFacts
  <1>11. A[s][u].ts \in Int /\ A[s][u].ts <= e.ts /\ e.ts <= ts /\ (CollisionFnc => e.ts < ts)
    <2>1. A[s][u].ts <= e.ts
      BY <1>1, <1>2 DEF AInv, Rooted
    <2>2. e.ts <= ts
      BY <1>1, <1>2, <1>5 DEF FInv, Own, IsPerson
    <2>3. CollisionFnc => e.ts < ts
      BY <1>2, <1>5 DEF Orderly
    <2> QED BY <1>2, <2>1, <2>2, <2>3, ToldTyped
  <1>12. \A v \in User \ {u} : \A r : <<s, r>> \in Edge => Still(out[r], v)
    <2>1. \A v \in User \ {u} : ~Concerns(m, v)
      BY <1>4 DEF Concerns
    <2> QED BY <1>8, <2>1 DEF Voices
  <1>13. \A r \in est[s] : <<s, r>> \in Edge => Gives(u, client[s][u], c[u], A[s][u].ts, h.ts, out[r])
    <2>1. \A r \in est[s] : <<s, r>> \in Edge => Line(out[r], u, m)
      BY <1>6, <1>8 DEF Voices
    <2>2. IsPerson(client[s][u]) /\ IsPerson(c[u]) /\ c[u].nick = m.nick /\ c[u].ts = m.ts /\ m.nick # client[s][u].nick
      BY <1>1, <1>2, <1>3, <1>6 DEF IsPerson, Renames
    <2>3. A[s][u].ts <= h.ts /\ A[s][u].ts <= m.ts /\ m.ts <= h.ts /\ (CollisionFnc => A[s][u].ts < m.ts)
      BY <1>5, <1>6, <1>10, <1>11
    <2> QED BY <1>6, <2>1, <2>2, <2>3 DEF Gives
  <1>14. OneActs(s, u, c) /\ OneTold(s, u, c, A[s][u].ts, h.ts, out) /\ Sets(s, c)
    BY <1>3, <1>12, <1>13 DEF OneActs, OneTold, Renames
  <1>15. PICK B : Alters(A, B, s, u, h)
    BY <1>2, <1>10, Altered
  <1>16. Affects(A, B, s, c, out)
    BY <1>1, <1>2, <1>14, <1>15, OnlyOne
  <1>17. ASSUME NEW v \in User
         PROVE  Rooted(v, B)'
    <2>1. CASE v = u
      <3>1. Self(u)' = [on |-> "person", nick |-> n, ts |-> ts]
        <4>1. Self(u)' = c[u]
          BY <1>1, <1>2, <1>14, SelfSet
        <4> QED BY <4>1, <1>3 DEF Renames
      <3>2. u \in used'
        BY <1>2 DEF FInv, Own, IsPerson
      <3>3. B[Home[u]][u].ts = Self(u)'.ts /\ 0 <= ts /\ Self(u)'.ts = ts /\ Self(u)'.on = "person"
        BY <1>1, <1>5, <1>10, <1>15, <3>1 DEF Alters
      <3>4. ts <= ts
        BY <1>5
      <3> QED BY <2>1, <3>2, <3>3, <3>4 DEF Rooted
    <2>2. CASE v # u
      <3>1. v \in User \ {u} /\ used \subseteq used'
        BY <1>2, <2>2
      <3> QED BY <1>2, <1>14, <1>15, <3>1, OthersRooted
    <2> QED BY <2>1, <2>2
  <1> QED BY <1>2, <1>8, <1>16, <1>17, ActStep

\* A connection that has not registered is told to nobody.
LEMMA UnknownAgreed ==
    ASSUME IInv, IInv', TInv, FInv, NEW A, AInv(A), NEW u \in User, NEW c, Sets(Home[u], c),
           UNCHANGED <<est, splits, chan>>, used \subseteq used', u \notin used \/ Self(u).on = "unknown",
           ~IsPerson(c[u]), \A v \in User \ {u} : c[v] = client[Home[u]][v]
    PROVE  \E B : AInv(B)'
  <1>1. PICK s : s = Home[u] /\ s \in Server /\ Sets(s, c)
    BY UserAssumption
  <1>2. PICK out : Acts(s, c, out) /\ \A r \in Server : \A v : Still(out[r], v)
    BY <1>1, SilentActs
  <1>3. PICK h : h = A[s][u]
    OBVIOUS
  <1>4. h \in Hearsay /\ h.ts = -1
    BY <1>1, <1>3, ToldTyped DEF AInv, Rooted
  <1>5. ~IsPerson(client[s][u])
    BY <1>1 DEF FInv, Own, IsPerson, Self
  <1>6. OneActs(s, u, c) /\ OneTold(s, u, c, A[s][u].ts, h.ts, out)
    <2>1. \A r : <<s, r>> \in Edge => \A v : Still(out[r], v)
      BY <1>2, EdgeFacts
    <2>2. A[s][u].ts <= h.ts
      BY <1>3, <1>4
    <2>3. \A r \in est[s] : <<s, r>> \in Edge => Gives(u, client[s][u], c[u], A[s][u].ts, h.ts, out[r])
      BY <1>5, <2>1, <2>2 DEF Gives
    <2> QED BY <1>1, <2>1, <2>3 DEF OneActs, OneTold
  <1>7. PICK B : Alters(A, B, s, u, h)
    BY <1>1, <1>4, Altered
  <1>8. Affects(A, B, s, c, out)
    BY <1>1, <1>6, <1>7, OnlyOne
  <1>9. ASSUME NEW v \in User
        PROVE  Rooted(v, B)'
    <2>1. CASE v = u
      <3>1. Self(u)' = c[u]
        BY <1>1, SelfSet
      <3> QED BY <1>1, <1>4, <1>7, <2>1, <3>1 DEF Rooted, Alters
    <2>2. CASE v # u
      <3>1. v \in User \ {u}
        BY <2>2
      <3> QED BY <1>1, <1>6, <1>7, <3>1, OthersRooted
    <2> QED BY <2>1, <2>2
  <1> QED BY <1>1, <1>2, <1>8, <1>9, ActStep

\* A NICK from a connection that has not registered keeps the agreement.
LEMMA MrNickAgreed ==
    ASSUME IInv, IInv', TInv, FInv, NEW A, AInv(A), NEW u \in User, NEW n \in Nick, MrNick(u, n)
    PROVE  \E B : AInv(B)'
  <1>1. PICK s, e : s = Home[u] /\ e = [on |-> "unknown", nick |-> n, ts |-> CurrentTime(s)]
    OBVIOUS
  <1>2. PICK c : c = [client[s] EXCEPT ![u] = e]
    OBVIOUS
  <1>3. s \in Server /\ client[s] \in [User -> Entry]
    BY <1>1, UserAssumption DEF IInv, TypeOK, Table
  <1>4. client' = [client EXCEPT ![s][u] = e] /\ UNCHANGED <<est, splits, chan>> /\ used \subseteq used'
        /\ (u \notin used \/ client[s][u].on = "unknown")
    BY <1>1 DEF MrNick
  <1>5. client' = [client EXCEPT ![s] = c]
    BY <1>2, <1>4
  <1>6. c[u] = e /\ \A v \in User \ {u} : c[v] = client[s][v]
    BY <1>2, <1>3
  <1>7. Sets(s, c)
    BY <1>3, <1>5 DEF Sets, IInv, TypeOK
  <1>8. ~IsPerson(c[u])
    BY <1>1, <1>6 DEF IsPerson
  <1> QED BY <1>1, <1>4, <1>6, <1>7, <1>8, UnknownAgreed DEF Self

\* The exit of a connection that has not registered keeps the agreement.
LEMMA ExitUnknownAgreed ==
    ASSUME IInv, IInv', TInv, FInv, NEW A, AInv(A), NEW u \in User, ExitUnknown(u)
    PROVE  \E B : AInv(B)'
  <1>1. PICK s : s = Home[u]
    OBVIOUS
  <1>2. PICK c : c = [client[s] EXCEPT ![u] = Absent]
    OBVIOUS
  <1>3. s \in Server /\ client[s] \in [User -> Entry]
    BY <1>1, UserAssumption DEF IInv, TypeOK, Table
  <1>4. client' = [client EXCEPT ![s][u] = Absent] /\ UNCHANGED <<est, splits, chan, used>>
        /\ client[s][u].on = "unknown"
    BY <1>1 DEF ExitUnknown, Steady
  <1>5. client' = [client EXCEPT ![s] = c]
    BY <1>2, <1>4
  <1>6. c[u] = Absent /\ \A v \in User \ {u} : c[v] = client[s][v]
    BY <1>2, <1>3
  <1>7. Sets(s, c) /\ used \subseteq used'
    BY <1>3, <1>4, <1>5 DEF Sets, IInv, TypeOK
  <1>8. ~IsPerson(c[u])
    BY <1>6 DEF IsPerson, Absent
  <1> QED BY <1>1, <1>4, <1>6, <1>7, <1>8, UnknownAgreed DEF Self

-----------------------------------------------------------------------------
(* What is not about users: servers and links.                             *)

\* q has become q2, by lines that are not about u, and only if it is open.
Adds(q, q2, open, u) ==
    \E w \in Seq(Message) : q2 = q \o w /\ Still(w, u) /\ (open \/ w = <<>>)

\* A queue that stays as it is, and one that goes on with lines that are not about u.
LEMMA AddsSame ==
    ASSUME NEW q \in Seq(Message), NEW q2, NEW open, NEW u
    PROVE  /\ q2 = q => Adds(q, q2, open, u)
           /\ \A w \in Seq(Message) : Still(w, u) /\ q2 = (IF open THEN q \o w ELSE q) => Adds(q, q2, open, u)
  <1>1. <<>> \in Seq(Message) /\ q \o <<>> = q /\ Still(<<>>, u)
    BY DEF Still
  <1>2. ASSUME NEW w \in Seq(Message), Still(w, u), q2 = (IF open THEN q \o w ELSE q)
        PROVE  Adds(q, q2, open, u)
    <2>1. CASE open
      BY <1>2, <2>1 DEF Adds
    <2>2. CASE ~open
      BY <1>1, <1>2, <2>2 DEF Adds
    <2> QED BY <2>1, <2>2
  <1>3. q2 = q => Adds(q, q2, open, u)
    BY <1>1 DEF Adds
  <1> QED BY <1>2, <1>3

\* Nothing is said of u on the link of t and s.
LEMMA CarriesStill ==
    ASSUME IInv, IInv', NEW A, NEW B, AInv(A), NEW t, NEW s, NEW u \in User, <<t, s>> \in Edge,
           Carries(t, s, u, A), splits' = 0 => splits = 0,
           s \in est'[t] <=> s \in est[t], t \in est'[s] <=> t \in est[s],
           Adds(chan[<<t, s>>], chan'[<<t, s>>], Open(s, t), u),
           Adds(chan[<<s, t>>], chan'[<<s, t>>], Open(t, s), u),
           client'[t][u] = client[t][u], client'[s][u] = client[s][u],
           B[s][u] = A[s][u], B[t][u].ts = A[t][u].ts
    PROVE  Carries(t, s, u, B)'
  <1>1. t \in Server /\ s \in Server /\ <<s, t>> \in Edge
    BY EdgeFacts
  <1>2. chan[<<t, s>>] \in Seq(Message) /\ chan[<<s, t>>] \in Seq(Message)
    BY <1>1 DEF IInv, TypeOK
  <1>3. PICK w \in Seq(Message) :
          /\ chan'[<<t, s>>] = chan[<<t, s>>] \o w /\ Still(w, u) /\ (Open(s, t) \/ w = <<>>)
    BY DEF Adds
  <1>4. PICK z \in Seq(Message) :
          /\ chan'[<<s, t>>] = chan[<<s, t>>] \o z /\ Still(z, u) /\ (Open(t, s) \/ z = <<>>)
    BY DEF Adds
  <1>5. /\ w = <<>> => chan'[<<t, s>>] = chan[<<t, s>>]
        /\ z = <<>> => chan'[<<s, t>>] = chan[<<s, t>>]
    <2>1. \A q \in Seq(Message) : q \o <<>> = q
      OBVIOUS
    <2>2. chan[<<t, s>>] \o <<>> = chan[<<t, s>>] /\ chan[<<s, t>>] \o <<>> = chan[<<s, t>>]
      BY <1>2, <2>1
    <2> QED BY <1>3, <1>4, <2>2
  <1>6. PICK e, f, D, U, a, ts :
          /\ e = client[t][u] /\ f = client[s][u] /\ D = chan[<<t, s>>] /\ U = chan[<<s, t>>]
          /\ a = A[s][u] /\ ts = A[t][u].ts
    OBVIOUS
  <1>7. e \in EntryFor(u) /\ f \in EntryFor(u) /\ ts \in Int /\ D \in Seq(Message) /\ U \in Seq(Message)
    BY <1>1, <1>2, <1>6, EntriesNamed, ToldTyped DEF IInv
  <1>8. ASSUME Live(t, s)'
        PROVE  Abreast(u, client'[t][u], client'[s][u], chan'[<<t, s>>], chan'[<<s, t>>], B[s][u], B[t][u].ts)
    <2>1. Live(t, s)
      BY <1>3, <1>5, <1>8 DEF Live, Open
    <2>2. Abreast(u, e, f, D, U, a, ts)
      BY <1>6, <2>1 DEF Carries
    <2>3. Minds(u, f, f, z) /\ Gives(u, e, e, ts, ts, w)
      BY <1>3, <1>4, <1>7, StillSpeaks
    <2>4. Abreast(u, e, f, D, U \o z, a, ts)
      BY <1>4, <1>7, <2>2, <2>3, AbreastIn
    <2>5. Abreast(u, e, f, D \o w, U \o z, a, ts)
      BY <1>3, <1>7, <2>3, <2>4, AbreastOut
    <2> QED BY <1>3, <1>4, <1>6, <2>5
  <1>9. s \notin est'[t] => Still(chan'[<<s, t>>], u)
    <2>1. s \notin est'[t] => Still(chan[<<s, t>>], u)
      BY DEF Carries
    <2> QED BY <1>2, <1>4, <2>1, StillOn
  <1>10. t \notin est'[s] => B[s][u] = Nothing
    BY DEF Carries
  <1>11. s \notin est'[t] /\ (chan'[<<s, t>>] # <<>> \/ splits' = 0) => B[s][u] = Nothing
    <2>1. ASSUME s \notin est'[t], chan'[<<s, t>>] # <<>> \/ splits' = 0
          PROVE  chan[<<s, t>>] # <<>> \/ splits = 0 \/ t \notin est[s]
      BY <1>4, <1>5, <2>1 DEF Open
    <2> QED BY <2>1 DEF Carries
  <1> QED BY <1>8, <1>9, <1>10, <1>11 DEF Carries

\* s, whose clients are c then, has to do with the link to t, and tells the others out,
\* which is about no user: it has whom they may have spoken of.
Hushed(s, t, c, out) ==
    /\ <<s, t>> \in Edge /\ Sets(s, c) /\ used' = used /\ Spread(s, t, out)
    /\ \A r \in Server \ {s} : est'[r] = est[r]
    /\ \A r : r # t => (r \in est'[s] <=> r \in est[s])
    /\ splits' = splits \/ splits' # 0
    /\ \A r : <<s, r>> \in Edge => out[r] \in Seq(Due(s, r)') /\ \A u \in User : Still(out[r], u)
    /\ \A u \in User : splits' = 0 \/ Home[u] = s \/ (Home[u] # t /\ <<s, Home[u]>> \in Edge) => c[u] = client[s][u]

\* What s has been told, but of users of t, is what it was.
Keeping(A, B, s, t) ==
    /\ B \in [Server -> [User -> Hearsay]]
    /\ \A r \in Server : \A u \in User : B[r][u] = A[r][u] \/ (r = s /\ Home[u] = t /\ splits' # 0)

\* The links but that of s and t carry what they did.
LEMMA HushedAway ==
    ASSUME IInv, IInv', NEW A, NEW B, AInv(A), NEW s, NEW t, NEW c, NEW out, Hushed(s, t, c, out),
           Keeping(A, B, s, t), NEW a, NEW b, NEW u \in User, Followed(a, b, u)',
           ~(a = s /\ b = t), ~(a = t /\ b = s)
    PROVE  Carries(a, b, u, B)'
  <1>1. /\ <<a, b>> \in Edge /\ <<b, a>> \in Edge /\ a \in Server /\ b \in Server /\ a # b
        /\ s \in Server /\ t \in Server /\ s # t
        /\ splits' = 0 \/ a = Home[u]
        /\ splits' = 0 => splits = 0
    BY EdgeFacts DEF Followed, Hushed
  <1>2. Carries(a, b, u, A)
    <2>1. Followed(a, b, u)
      BY <1>1 DEF Followed
    <2> QED BY <2>1 DEF AInv
  <1>3. chan[<<a, b>>] \in Seq(Message) /\ chan[<<b, a>>] \in Seq(Message)
    BY <1>1 DEF IInv, TypeOK
  <1>4. b \in est'[a] <=> b \in est[a]
    BY <1>1 DEF Hushed
  <1>5. a \in est'[b] <=> a \in est[b]
    BY <1>1 DEF Hushed
  <1>6. ASSUME NEW x, NEW y, <<x, y>> \in Edge, ~(x = s /\ y = t), ~(x = t /\ y = s)
        PROVE  Adds(chan[<<x, y>>], chan'[<<x, y>>], Open(y, x), u)
    <2>1. chan[<<x, y>>] \in Seq(Message)
      BY <1>6 DEF IInv, TypeOK
    <2>2. CASE x = s
      <3>1. chan'[<<x, y>>] = IF Open(y, x) THEN chan[<<x, y>>] \o out[y] ELSE chan[<<x, y>>]
        BY <1>6, <2>2 DEF Hushed, Spread
      <3>2. out[y] \in Seq(Message) /\ Still(out[y], u)
        <4>1. PICK S : S = Due(s, y)'
          OBVIOUS
        <4>2. S \subseteq Message
          BY <4>1 DEF Due
        <4>3. out[y] \in Seq(S) /\ Still(out[y], u)
          BY <1>6, <2>2, <4>1 DEF Hushed
        <4>4. Seq(S) \subseteq Seq(Message)
          BY <4>2
        <4> QED BY <4>3, <4>4
      <3> QED BY <2>1, <3>1, <3>2, AddsSame
    <2>3. CASE x # s
      <3>1. <<x, y>> # <<t, s>>
        BY <1>6
      <3>2. chan'[<<x, y>>] = chan[<<x, y>>]
        BY <1>6, <2>3, <3>1 DEF Hushed, Spread
      <3> QED BY <2>1, <3>2, AddsSame
    <2> QED BY <2>2, <2>3
  <1>7. Adds(chan[<<a, b>>], chan'[<<a, b>>], Open(b, a), u) /\ Adds(chan[<<b, a>>], chan'[<<b, a>>], Open(a, b), u)
    BY <1>1, <1>6
  <1>8. \A r \in Server \ {s} : client'[r] = client[r]
    BY DEF Hushed, Sets, IInv, TypeOK
  <1>9. client'[a][u] = client[a][u]
    <2>1. a = s => c[u] = client[s][u] /\ client'[s] = c
      BY <1>1 DEF Hushed, Sets
    <2> QED BY <1>1, <1>8, <2>1
  <1>10. client'[b][u] = client[b][u]
    <2>1. b = s => c[u] = client[s][u] /\ client'[s] = c
      BY <1>1 DEF Hushed, Sets
    <2> QED BY <1>1, <1>8, <2>1
  <1>11. B[a][u] = A[a][u]
    BY <1>1 DEF Keeping
  <1>12. B[b][u] = A[b][u]
    BY <1>1 DEF Keeping
  <1> QED BY <1>1, <1>2, <1>4, <1>5, <1>7, <1>9, <1>10, <1>11, <1>12, CarriesStill

\* What AInv asks is kept, if it is kept on the link of s and t.
LEMMA HushedStep ==
    ASSUME IInv, IInv', NEW A, NEW B, AInv(A), NEW s, NEW t, NEW c, NEW out, Hushed(s, t, c, out),
           Keeping(A, B, s, t), Whole',
           chan'[<<s, t>>] \in Seq(Due(s, t)'), chan'[<<t, s>>] \in Seq(Due(t, s)'),
           \A u \in User : Followed(s, t, u)' => Carries(s, t, u, B)',
           \A u \in User : Followed(t, s, u)' => Carries(t, s, u, B)'
    PROVE  AInv(B)'
  <1>1. s \in Server /\ t \in Server /\ s # t
    BY EdgeFacts DEF Hushed
  <1>2. B \in [Server -> [User -> Hearsay]]
    BY DEF Keeping
  <1>3. ASSUME NEW a, NEW b, <<a, b>> \in Edge
        PROVE  chan'[<<a, b>>] \in Seq(Due(a, b)')
    <2>1. Due(a, b) \subseteq Due(a, b)'
      BY DueStays DEF Hushed
    <2>2. PICK S, T : S = Due(a, b) /\ T = Due(a, b)'
      OBVIOUS
    <2>3. PICK p, z : p = chan[<<a, b>>] /\ z = chan'[<<a, b>>]
      OBVIOUS
    <2>4. p \in Seq(T)
      <3>1. Seq(S) \subseteq Seq(T)
        BY <2>1, <2>2
      <3>2. p \in Seq(S)
        BY <1>3, <2>2, <2>3 DEF AInv
      <3> QED BY <3>1, <3>2
    <2>5. CASE a = s /\ b = t
      BY <2>5
    <2>6. CASE a = t /\ b = s
      BY <2>6
    <2>7. CASE a = s /\ b # t
      <3>1. PICK w : w = out[b]
        OBVIOUS
      <3>2. z = p \/ z = p \o w
        BY <1>3, <2>3, <2>7, <3>1 DEF Hushed, Spread
      <3>3. w \in Seq(T)
        BY <1>3, <2>2, <2>7, <3>1 DEF Hushed
      <3>4. p \o w \in Seq(T)
        BY <2>4, <3>3
      <3> QED BY <2>2, <2>3, <2>4, <3>2, <3>4
    <2>8. CASE a # s /\ ~(a = t /\ b = s)
      <3>1. <<a, b>> # <<t, s>>
        BY <2>8
      <3>2. z = p
        BY <1>3, <2>3, <2>8, <3>1 DEF Hushed, Spread
      <3> QED BY <2>2, <2>3, <2>4, <3>2
    <2> QED BY <2>5, <2>6, <2>7, <2>8
  <1>4. ASSUME NEW u \in User
        PROVE  Rooted(u, B)'
    <2>1. Self(u)' = Self(u)
      <3>1. Self(u)' = IF Home[u] = s THEN c[u] ELSE Self(u)
        BY <1>1, SelfSet DEF Hushed
      <3>2. Home[u] = s => c[u] = client[s][u]
        BY DEF Hushed
      <3> QED BY <3>1, <3>2 DEF Self
    <2>2. B[Home[u]][u] = A[Home[u]][u]
      BY <1>1, UserAssumption DEF Keeping
    <2>3. Rooted(u, A) /\ used \subseteq used'
      BY DEF AInv, Hushed
    <2> QED BY <2>1, <2>2, <2>3, RootedKept
  <1>5. ASSUME NEW a, NEW b, NEW u \in User, Followed(a, b, u)'
        PROVE  Carries(a, b, u, B)'
    <2>1. CASE a = s /\ b = t
      BY <1>5, <2>1
    <2>2. CASE a = t /\ b = s
      BY <1>5, <2>2
    <2>3. CASE ~(a = s /\ b = t) /\ ~(a = t /\ b = s)
      BY <1>5, <2>3, HushedAway
    <2> QED BY <2>1, <2>2, <2>3
  <1> QED BY <1>2, <1>3, <1>4, <1>5 DEF AInv

\* s, whose clients are c then, reads of a server from t, and passes it on.
Overhears(s, t, c) ==
    /\ <<t, s>> \in Edge /\ t \in est[s] /\ chan[<<t, s>>] # <<>>
    /\ Msg(s, t).type \in {"SID", "SQUIT"}
    /\ Hears(s, t, c, est[s] \ {t}, Msg(s, t))
    /\ UNCHANGED <<est, splits, used>>
    /\ \A u \in User : splits = 0 \/ Home[u] = s \/ <<s, Home[u]>> \in Edge => c[u] = client[s][u]

\* A line about a server keeps the agreement, with the users that s forgets for it.
LEMMA OverheardStep ==
    ASSUME IInv, IInv', TInv, NEW A, AInv(A), NEW s, NEW t, NEW c, Overhears(s, t, c)
    PROVE  AInv(A)'
  <1>1. s \in Server /\ t \in Server /\ s # t /\ <<s, t>> \in Edge /\ <<t, s>> \in Edge
    BY EdgeFacts DEF Overhears
  <1>2. chan \in [Edge -> Seq(Message)] /\ chan[<<t, s>>] # <<>> /\ t \in est[s]
    BY DEF IInv, TypeOK, Overhears
  <1>3. PICK m : m = Msg(s, t)
    OBVIOUS
  <1>4. m \in Message /\ m.type \in {"SID", "SQUIT"} /\ m \in Due(t, s)
    <2>1. m \in Message
      BY <1>1, <1>2, <1>3, TailTyped DEF IInv, Msg
    <2>2. m \in Due(t, s)
      <3>1. PICK S, q : S = Due(t, s) /\ q = chan[<<t, s>>]
        OBVIOUS
      <3>2. q \in Seq(S) /\ q # <<>>
        BY <1>1, <1>2, <3>1 DEF AInv
      <3>3. Head(q) \in S
        BY <3>2
      <3> QED BY <1>3, <3>1, <3>3 DEF Msg
    <2> QED BY <1>3, <2>1, <2>2 DEF Overhears
  <1>5. \A u : ~Concerns(m, u)
    BY <1>4 DEF Concerns
  <1>6. PICK out : out = Tell(est[s] \ {t}, m)
    OBVIOUS
  <1>7. PICK queues : queues = [chan EXCEPT ![<<t, s>>] = Tail(@)]
    OBVIOUS
  <1>8. /\ chan' = Transmit(s, queues, out) /\ Sets(s, c) /\ UNCHANGED <<est, splits, used>>
    BY <1>3, <1>6, <1>7 DEF Overhears, Hears
  <1>9. /\ queues[<<t, s>>] = Tail(chan[<<t, s>>])
        /\ \A e \in Edge : e # <<t, s>> => queues[e] = chan[e]
    BY <1>1, <1>2, <1>7
  <1>10. \A a, b : <<a, b>> \in Edge =>
             /\ a # s => chan'[<<a, b>>] = queues[<<a, b>>]
             /\ a = s => chan'[<<a, b>>] = IF Open(b, s) THEN queues[<<a, b>>] \o out[b]
                                                         ELSE queues[<<a, b>>]
    BY <1>8, Transmitted
  <1>11. ASSUME NEW r, <<s, r>> \in Edge
         PROVE  /\ out[r] = <<m>> \/ out[r] = <<>>
                /\ out[r] \in Seq(Message) /\ out[r] \in Seq(Due(s, r)')
                /\ \A u : Still(out[r], u)
    <2>1. r \in Server
      BY <1>11, EdgeFacts
    <2>2. out[r] = <<m>> \/ out[r] = <<>>
      BY <1>6, <2>1 DEF Tell
    <2>3. m \in Due(s, r)
      BY <1>4 DEF Due
    <2>4. m \in Due(s, r)'
      BY <1>8, <2>3, DueStays
    <2>5. PICK S : S = Due(s, r)'
      OBVIOUS
    <2>6. <<m>> \in Seq(S) /\ <<>> \in Seq(S)
      BY <2>4, <2>5
    <2>7. <<m>> \in Seq(Message) /\ <<>> \in Seq(Message)
      BY <1>4
    <2>8. \A u : Still(<<m>>, u) /\ Still(<<>>, u)
      BY <1>5 DEF Still
    <2> QED BY <2>2, <2>5, <2>6, <2>7, <2>8
  <1>12. chan'[<<t, s>>] = Tail(chan[<<t, s>>])
    BY <1>1, <1>9, <1>10
  <1>13. \A r : <<s, r>> \in Edge =>
            chan'[<<s, r>>] = IF Open(r, s) THEN chan[<<s, r>>] \o out[r] ELSE chan[<<s, r>>]
    BY <1>1, <1>9, <1>10
  <1>14. Spread(s, t, out)
    BY <1>1, <1>9, <1>10, <1>13 DEF Spread
  <1>15. Hushed(s, t, c, out)
    <2>1. \A r : <<s, r>> \in Edge => out[r] \in Seq(Due(s, r)') /\ \A u \in User : Still(out[r], u)
      BY <1>11
    <2>2. \A u \in User : splits' = 0 \/ Home[u] = s \/ (Home[u] # t /\ <<s, Home[u]>> \in Edge) => c[u] = client[s][u]
      BY <1>8 DEF Overhears
    <2> QED BY <1>1, <1>8, <1>14, <2>1, <2>2 DEF Hushed
  <1>16. Keeping(A, A, s, t)
    BY DEF Keeping, AInv
  <1>17. Whole'
    <2>1. \A a, b : <<a, b>> \in Edge =>
               queues[<<a, b>>] = chan[<<a, b>>] \/ (a \in est[b] /\ a # s)
      BY <1>1, <1>2, <1>9
    <2>2. \A r : <<s, r>> \in Edge => out[r] \in Seq(Message)
      BY <1>11
    <2>3. est' = est /\ splits' = splits /\ Whole
      BY <1>8 DEF AInv
    <2> QED BY <1>1, <1>8, <2>1, <2>2, <2>3, OpenKept
  <1>18. out[t] = <<>>
    BY <1>1, <1>6 DEF Tell
  <1>19. chan'[<<s, t>>] = chan[<<s, t>>] /\ chan[<<s, t>>] \in Seq(Message)
    <2>1. \A q \in Seq(Message) : q \o <<>> = q
      OBVIOUS
    <2>2. chan[<<s, t>>] \in Seq(Message)
      BY <1>1, <1>2
    <2> QED BY <1>1, <1>13, <1>18, <2>1, <2>2
  <1>20. chan'[<<s, t>>] \in Seq(Due(s, t)') /\ chan'[<<t, s>>] \in Seq(Due(t, s)')
    <2>1. Due(s, t) \subseteq Due(s, t)' /\ Due(t, s) \subseteq Due(t, s)'
      BY <1>8, DueStays
    <2>2. PICK S, T, S2, T2, p, q : /\ S = Due(s, t) /\ T = Due(t, s) /\ S2 = Due(s, t)' /\ T2 = Due(t, s)'
                                    /\ p = chan[<<s, t>>] /\ q = chan[<<t, s>>]
      OBVIOUS
    <2>3. p \in Seq(S) /\ q \in Seq(T) /\ q # <<>>
      BY <1>1, <1>2, <2>2 DEF AInv
    <2>4. Seq(S) \subseteq Seq(S2) /\ Seq(T) \subseteq Seq(T2)
      BY <2>1, <2>2
    <2>5. Tail(q) \in Seq(T)
      BY <2>3
    <2> QED BY <1>12, <1>19, <2>2, <2>3, <2>4, <2>5
  <1>21. client'[s] = c /\ client'[t] = client[t]
    BY <1>1, <1>8 DEF Sets, IInv, TypeOK
  <1>22. PICK w : w = out[t] /\ w \in Seq(Message) /\ \A u : Still(w, u)
    BY <1>1, <1>11
  <1>23. chan'[<<s, t>>] = IF Open(t, s) THEN chan[<<s, t>>] \o w ELSE chan[<<s, t>>]
    BY <1>1, <1>13, <1>22
  <1>24. ASSUME NEW u \in User, Followed(s, t, u)'
         PROVE  Carries(s, t, u, A)'
    <2>1. Carries(s, t, u, A)
      BY <1>8, <1>24 DEF AInv, Followed
    <2>2. client'[s][u] = client[s][u]
      BY <1>8, <1>21, <1>24 DEF Followed, Overhears
    <2>3. ~Concerns(Msg(s, t), u)
      BY <1>3, <1>5
    <2>4. A[s][u] \in Hearsay /\ A[s][u].ts \in Int
      BY <1>1, ToldTyped
    <2>5. Gives(u, client[s][u], client'[s][u], A[s][u].ts, A[s][u].ts, w)
      BY <1>22, <2>2, <2>4, StillSpeaks
    <2> QED BY <1>1, <1>2, <1>8, <1>12, <1>21, <1>22, <1>23, <2>1, <2>3, <2>4, <2>5, CarriesReply
  <1>25. ASSUME NEW u \in User, Followed(t, s, u)'
         PROVE  Carries(t, s, u, A)'
    <2>1. Carries(t, s, u, A) /\ Home[u] \in Behind[<<s, t>>]
      BY <1>8, <1>25 DEF AInv, Followed
    <2>2. client'[s][u] = client[s][u]
      BY <1>1, <1>8, <1>21, <1>25 DEF Followed, Overhears
    <2>3. ~Concerns(Msg(s, t), u)
      BY <1>3, <1>5
    <2>4. Minds(u, client[s][u], client'[s][u], w)
      BY <1>22, <2>2, StillSpeaks
    <2> QED BY <1>1, <1>2, <1>8, <1>12, <1>21, <1>22, <1>23, <2>1, <2>3, <2>4, CarriesHeard
  <1> QED BY <1>15, <1>16, <1>17, <1>20, <1>24, <1>25, HushedStep

\* ms_sid keeps the agreement.
LEMMA MsSidAgreed ==
    ASSUME IInv, IInv', TInv, NEW A, AInv(A), NEW s \in Server, NEW t, MsSid(s, t)
    PROVE  AInv(A)'
  <1>1. Hears(s, t, client[s], est[s] \ {t}, Msg(s, t))
    BY MsSidIs
  <1>2. /\ <<t, s>> \in Edge /\ t \in est[s] /\ chan[<<t, s>>] # <<>> /\ Msg(s, t).type = "SID"
        /\ UNCHANGED <<est, splits, used>>
    BY DEF MsSid, First, Msg
  <1>3. PICK c : c = client[s]
    OBVIOUS
  <1>4. Overhears(s, t, c)
    BY <1>1, <1>2, <1>3 DEF Overhears
  <1> QED BY <1>4, OverheardStep

\* ms_squit keeps the agreement: a link has broken, and no server keeps users from beyond it.
LEMMA MsSquitAgreed ==
    ASSUME IInv, IInv', TInv, NEW A, AInv(A), NEW s \in Server, NEW t, MsSquit(s, t)
    PROVE  AInv(A)'
  <1>1. PICK M : Met(M)
    BY DEF TInv
  <1>2. PICK c : /\ Hears(s, t, c, est[s] \ {t}, Msg(s, t))
                 /\ Forgets(s, Lost(s, Msg(s, t).sid), c)
    BY <1>1, MsSquitIs
  <1>3. /\ <<t, s>> \in Edge /\ t \in est[s] /\ chan[<<t, s>>] # <<>> /\ Msg(s, t).type = "SQUIT"
        /\ UNCHANGED <<est, splits, used>>
    BY DEF MsSquit, First, Msg
  <1>4. splits # 0
    <2>1. PICK S, q : S = Due(t, s) /\ q = chan[<<t, s>>]
      OBVIOUS
    <2>2. q \in Seq(S) /\ q # <<>>
      BY <1>3, <2>1 DEF AInv
    <2>3. Head(q) \in S
      BY <2>2
    <2> QED BY <1>3, <2>1, <2>3 DEF Due, Msg
  <1>5. PICK x : x = Msg(s, t).sid
    OBVIOUS
  <1>6. x \in Behind[<<s, t>>] /\ x # t
    <2>1. Fits(s, t, Msg(s, t), Sees(s, t, M))
      BY <1>1, <1>3, Reading
    <2> QED BY <1>3, <1>5, <2>1 DEF Fits
  <1>7. ASSUME NEW u \in User, splits = 0 \/ Home[u] = s \/ <<s, Home[u]>> \in Edge
        PROVE  c[u] = client[s][u]
    <2>1. Home[u] \notin Lost(s, x)
      <3>1. CASE Home[u] = s
        BY <1>2, <1>5, <3>1 DEF Forgets
      <3>2. CASE <<s, Home[u]>> \in Edge
        <4>1. x \notin Way(s, Home[u])
          BY <1>3, <1>6, <3>2, EdgeFacts, WayAside
        <4> QED BY <4>1 DEF Lost
      <3> QED BY <1>4, <1>7, <3>1, <3>2
    <2> QED BY <1>2, <1>5, <2>1 DEF Forgets
  <1>8. Overhears(s, t, c)
    BY <1>2, <1>3, <1>7 DEF Overhears
  <1> QED BY <1>8, OverheardStep

-----------------------------------------------------------------------------
(* Links that come up.                                                     *)

\* What a burst says of u.
LEMMA BurstLine ==
    ASSUME IInv, NEW s \in Server, NEW sids \in SetToSeqs(known[s]), NEW uids \in SetToSeqs(Persons(s)),
           NEW u \in User, NEW w, w = Burst(s, sids, uids)
    PROVE  /\ w \in Seq(Message)
           /\ ~IsPerson(client[s][u]) => Still(w, u)
           /\ IsPerson(client[s][u]) =>
                Tidings(w, u, "UID", client[s][u].nick, client[s][u].ts)
           /\ \A i \in 1..Len(w) : w[i].type \in {"SID", "UID"}
  <1>1. Bursts(s, w)
    BY BurstBursts
  <1>2. ASSUME NEW i \in 1..Len(w), NEW j \in 1..Len(w), Concerns(w[i], u), Concerns(w[j], u)
        PROVE  i = j
    <2>1. PICK k, n : k = Len(sids) /\ n = Len(uids)
      OBVIOUS
    <2>2. LET x == Burst(s, sids, uids)
              k1 == Len(sids)
              n1 == Len(uids) IN
           /\ x \in Seq(Message) /\ k1 \in Nat /\ n1 \in Nat /\ Len(x) = k1 + n1
           /\ \A h \in 1..k1 : x[h].type = "SID" /\ x[h].sid = sids[h] /\ sids[h] \in known[s]
           /\ \A h \in (k1 + 1)..(k1 + n1) : /\ x[h].type = "UID" /\ x[h].u = uids[h - k1]
                                             /\ h - k1 \in 1..n1 /\ uids[h - k1] \in Persons(s)
           /\ \A g, h \in 1..k1 : g # h => sids[g] # sids[h]
           /\ \A g, h \in 1..n1 : g # h => uids[g] # uids[h]
           /\ \A x1 \in known[s] : \E h \in 1..k1 : sids[h] = x1
           /\ \A x1 \in Persons(s) : \E h \in 1..n1 : uids[h] = x1
      BY BurstIs
    <2>3. k \in Nat /\ n \in Nat /\ Len(w) = k + n
      BY <2>1, <2>2
    <2>4. \A h \in 1..k : w[h].type = "SID"
      BY <2>1, <2>2
    <2>5. \A h \in (k + 1)..(k + n) : w[h].u = uids[h - k] /\ h - k \in 1..n
      BY <2>1, <2>2
    <2>6. \A g, h \in 1..n : g # h => uids[g] # uids[h]
      BY <2>1, <2>2
    <2>7. i \in (k + 1)..(k + n) /\ j \in (k + 1)..(k + n)
      BY <1>2, <2>3, <2>4 DEF Concerns
    <2>8. uids[i - k] = u /\ uids[j - k] = u
      BY <1>2, <2>5, <2>7 DEF Concerns
    <2>9. i - k = j - k
      BY <2>5, <2>6, <2>7, <2>8
    <2> QED BY <2>3, <2>7, <2>9
  <1>3. ~IsPerson(client[s][u]) => Still(w, u)
    BY <1>1 DEF Bursts, Still, Concerns, Persons
  <1>4. ASSUME IsPerson(client[s][u])
        PROVE  Tidings(w, u, "UID", client[s][u].nick, client[s][u].ts)
    <2>1. PICK i \in 1..Len(w) : w[i].type = "UID" /\ w[i].u = u
      BY <1>1, <1>4 DEF Bursts, Persons
    <2>2. w[i].nick = client[s][u].nick /\ w[i].ts = client[s][u].ts /\ Concerns(w[i], u)
      BY <1>1, <2>1 DEF Bursts, Concerns
    <2>3. Line(w, u, w[i])
      BY <1>2, <2>2 DEF Line
    <2> QED BY <2>1, <2>2, <2>3 DEF Tidings
  <1>5. \A i \in 1..Len(w) : w[i].type \in {"SID", "UID"}
    BY <1>1 DEF Bursts
  <1> QED BY <1>1, <1>3, <1>4, <1>5 DEF Bursts
\* What one is told of u by a burst is no later than ts.
Past(s, u, ts) ==
    /\ ts \in Int /\ ts >= -1
    /\ IsPerson(client[s][u]) => 0 <= ts /\ (client[s][u].nick \in Nick => client[s][u].ts <= ts)

\* A burst, behind lines that are not about u, tells all there is of u.
LEMMA BurstAbreast ==
    ASSUME IInv, NEW s \in Server, NEW sids \in SetToSeqs(known[s]), NEW uids \in SetToSeqs(Persons(s)),
           NEW u \in User, NEW w, w = Burst(s, sids, uids), NEW ts, Past(s, u, ts),
           NEW p \in Seq(Message), Still(p, u), NEW U \in Seq(Message), Still(U, u)
    PROVE  Abreast(u, client[s][u], Absent, p \o w, U, Nothing, ts)
  <1>1. PICK e : e = client[s][u] /\ e \in EntryFor(u)
    BY EntriesNamed DEF IInv
  <1>2. w \in Seq(Message) /\ Nothing \in Hearsay
    BY BurstLine, HearsayFacts
  <1>3. Course(p, u, Nothing, Nothing)
    BY <1>2, CourseStill
  <1>4. ~Killing(U, u) /\ (\A x : ~Saving(U, u, x)) /\ Answers(U, u)
    BY RepliesStill
  <1>5. Accepts(u, Absent, Nothing)
    BY DEF Accepts
  <1>6. ~IsPerson(Absent) /\ Nothing.nick = NoNick /\ Nothing.ts = -1 /\ NoNick \notin Nick
    BY NameAssumption, HearsayFacts DEF IsPerson, Absent
  <1>7. \A b : Replies(u, e, Absent, U, Nothing, b)
    BY <1>4, <1>6 DEF Replies
  <1>8. CASE ~IsPerson(e)
    <2>1. Still(w, u)
      BY <1>1, <1>8, BurstLine
    <2>2. Course(p \o w, u, Nothing, Nothing)
      BY <1>2, <1>3, <2>1, CourseOn DEF Leads
    <2>3. Tells(e, Nothing, Absent, Nothing) /\ Nothing.ts <= ts
      BY <1>6, <1>8 DEF Tells, Past
    <2> QED BY <1>1, <1>2, <1>5, <1>7, <2>2, <2>3 DEF Abreast
  <1>9. CASE IsPerson(e)
    <2>1. PICK m : Line(w, u, m) /\ m.type = "UID" /\ m.nick = e.nick /\ m.ts = e.ts
      <3>1. Tidings(w, u, "UID", client[s][u].nick, client[s][u].ts)
        BY <1>1, <1>9, BurstLine
      <3> QED BY <1>1, <3>1 DEF Tidings
    <2>2. m \in Message /\ Concerns(m, u)
      BY <1>2, <2>1, LineFacts
    <2>3. Apt(Nothing, m)
      BY <1>6, <2>1 DEF Apt
    <2>4. PICK b : b = Since(Nothing, m)
      OBVIOUS
    <2>5. b \in Hearsay
      BY <1>2, <2>2, <2>3, <2>4, UpdateFacts
    <2>6. Course(p \o w, u, Nothing, b)
      BY <1>2, <1>3, <2>1, <2>3, <2>4, CourseOn DEF Leads
    <2>7. b.nick = e.nick /\ b.ts = IF e.nick \in Nick THEN e.ts ELSE 0
      BY <2>1, <2>4 DEF Since
    <2>8. b.ts <= ts
      BY <1>1, <1>9, <2>7 DEF Past
    <2>9. Tells(e, b, Absent, Nothing)
      BY <1>9, <2>7 DEF Tells, Like
    <2> QED BY <1>1, <1>5, <1>7, <2>5, <2>6, <2>8, <2>9 DEF Abreast
  <1> QED BY <1>8, <1>9
\* What s has of a user, it has been told.
LEMMA Backed ==
    ASSUME IInv, TInv, NEW A, AInv(A), NEW s, NEW t, <<s, t>> \in Edge, t \notin est[s],
           NEW u \in User, Followed(s, t, u)
    PROVE  Past(s, u, A[s][u].ts)
  <1>1. s \in Server /\ t \in Server /\ A[s][u] \in Hearsay /\ client[s][u] \in EntryFor(u)
    BY EdgeFacts, ToldTyped, EntriesNamed DEF IInv
  <1>2. A[s][u].ts \in Int /\ A[s][u].ts >= -1
    BY <1>1, HearsayFacts
  <1>3. ASSUME IsPerson(client[s][u])
        PROVE  0 <= A[s][u].ts /\ (client[s][u].nick \in Nick => client[s][u].ts <= A[s][u].ts)
    <2>1. CASE Home[u] = s
      <3>1. Rooted(u, A) /\ Self(u) = client[s][u] /\ Self(u).ts \in Nat
        BY <2>1, SelfTyped DEF AInv, Self, IInv
      <3>2. 0 <= A[s][u].ts /\ (client[s][u].nick \in Nick => A[s][u].ts = client[s][u].ts)
        BY <1>3, <2>1, <3>1 DEF Rooted
      <3> QED BY <3>1, <3>2
    <2>2. CASE Home[u] # s
      <3>1. PICK M : Met(M)
        BY DEF TInv
      <3>2. Reach(s, M)
        BY <1>1, <3>1 DEF Met
      <3>3. client[s][u].on # "absent"
        BY <1>3 DEF IsPerson
      <3>4. Home[u] \in known[s]
        BY <2>2, <3>2, <3>3 DEF Reach
      <3>5. PICK r \in est[s] : Home[u] \in Behind[<<s, r>>]
        BY <3>2, <3>4 DEF Reach
      <3>6. <<s, r>> \in Edge
        BY <3>2, <3>5 DEF Reach
      <3>7. <<r, s>> \in Edge /\ r \in Server
        BY <3>6, EdgeFacts
      <3>8. splits = 0
        BY <2>2 DEF Followed
      <3>9. Followed(r, s, u)
        BY <3>5, <3>7, <3>8 DEF Followed
      <3>10. s \in est[r] \/ chan[<<s, r>>] # <<>>
        <4>1. Open(s, r)
          BY <3>5 DEF Open
        <4>2. Open(r, s)
          BY <3>6, <3>8, <4>1 DEF AInv, Whole
        <4> QED BY <4>2 DEF Open
      <3>11. s \in est[r]
        <4>1. s \notin est[r] /\ chan[<<s, r>>] # <<>> => client[s][u] = Absent
          BY <3>5, <3>6, Strange
        <4> QED BY <1>3, <3>10, <4>1 DEF IsPerson, Absent
      <3>12. Live(r, s)
        BY <3>5, <3>11 DEF Live, Open
      <3>13. Carries(r, s, u, A)
        BY <3>9 DEF AInv
      <3>14. Abreast(u, client[r][u], client[s][u], chan[<<r, s>>], chan[<<s, r>>], A[s][u], A[r][u].ts)
        BY <3>12, <3>13 DEF Carries
      <3>15. Accepts(u, client[s][u], A[s][u])
        BY <3>14 DEF Abreast
      <3>16. client[s][u].nick # NoNick
        BY <1>1, <1>3, PersonNamed
      <3>17. \A n \in Nick : n # NoNick
        BY HearsayFacts
      <3>18. u \notin Nick
        BY HearsayFacts
      <3>19. CASE Like(client[s][u], A[s][u])
        <4>1. A[s][u].ts >= 0
          BY <1>1, <3>16, <3>19, HearsayFacts DEF Like
        <4>2. client[s][u].nick \in Nick => client[s][u].ts = A[s][u].ts
          BY <3>19 DEF Like
        <4> QED BY <1>2, <4>1, <4>2
      <3>20. CASE client[s][u].nick = u /\ A[s][u].nick \in Nick
        <4>1. A[s][u].ts >= 0
          BY <1>1, <3>17, <3>20, HearsayFacts
        <4> QED BY <3>18, <3>20, <4>1
      <3> QED BY <1>3, <3>15, <3>19, <3>20 DEF Accepts, IsPerson, Absent
    <2> QED BY <2>1, <2>2
  <1> QED BY <1>2, <1>3 DEF Past

\* The other links are as open as they were.
LEMMA OpenSpread ==
    ASSUME IInv, NEW s, NEW t, NEW c, NEW out, Hushed(s, t, c, out), NEW a, NEW b, <<a, b>> \in Edge,
           ~(a = s /\ b = t), ~(a = t /\ b = s)
    PROVE  Open(a, b)' <=> Open(a, b)
  <1>1. /\ <<b, a>> \in Edge /\ a \in Server /\ b \in Server /\ a # b
        /\ s \in Server /\ t \in Server /\ s # t
    BY EdgeFacts DEF Hushed
  <1>2. b \in est'[a] <=> b \in est[a]
    BY <1>1 DEF Hushed
  <1>3. PICK q, q2 : q = chan[<<b, a>>] /\ q2 = chan'[<<b, a>>]
    OBVIOUS
  <1>4. q \in Seq(Message)
    BY <1>1, <1>3 DEF IInv, TypeOK
  <1>5. CASE b = s
    <2>1. PICK w : w = out[a]
      OBVIOUS
    <2>2. q2 = IF Open(a, b) THEN q \o w ELSE q
      BY <1>1, <1>3, <1>5, <2>1 DEF Hushed, Spread
    <2>3. w \in Seq(Message)
      <3>1. PICK S : S = Due(s, a)'
        OBVIOUS
      <3>2. S \subseteq Message
        BY <3>1 DEF Due
      <3>3. w \in Seq(S)
        BY <1>1, <1>5, <2>1, <3>1 DEF Hushed
      <3>4. Seq(S) \subseteq Seq(Message)
        BY <3>2
      <3> QED BY <3>3, <3>4
    <2>4. q # <<>> => q \o w # <<>>
      BY <1>4, <2>3, ConcatFacts
    <2> QED BY <1>2, <1>3, <2>2, <2>4 DEF Open
  <1>6. CASE b # s
    <2>1. <<b, a>> # <<t, s>>
      BY <1>1
    <2>2. q2 = q
      BY <1>1, <1>3, <1>6, <2>1 DEF Hushed, Spread
    <2> QED BY <1>2, <1>3, <2>2 DEF Open
  <1> QED BY <1>5, <1>6

\* While no link has broken, a link is open at both ends.
LEMMA WholeSpread ==
    ASSUME IInv, NEW A, AInv(A), NEW s, NEW t, NEW c, NEW out, Hushed(s, t, c, out),
           splits' = 0 => Open(s, t)' /\ Open(t, s)'
    PROVE  Whole'
  <1>1. ASSUME splits' = 0, NEW a, NEW b, <<a, b>> \in Edge, Open(a, b)'
        PROVE  Open(b, a)'
    <2>1. splits = 0 /\ <<b, a>> \in Edge
      BY <1>1, EdgeFacts DEF Hushed
    <2>2. CASE (a = s /\ b = t) \/ (a = t /\ b = s)
      BY <1>1, <2>2
    <2>3. CASE ~(a = s /\ b = t) /\ ~(a = t /\ b = s)
      <3>1. Open(a, b)
        BY <1>1, <2>3, OpenSpread
      <3>2. Open(b, a)
        BY <1>1, <2>1, <3>1 DEF AInv, Whole
      <3> QED BY <2>1, <2>3, <3>2, OpenSpread
    <2> QED BY <2>2, <2>3
  <1> QED BY <1>1 DEF Whole
\* s has linked itself to t.
Couples(s, t) ==
    /\ <<s, t>> \in Edge /\ t \notin est[s] /\ est' = [est EXCEPT ![s] = @ \cup {t}]
    /\ UNCHANGED <<client, used, splits>>

\* server_estab at s is about t alone, and tells the others of it.
LEMMA CoupleHushed ==
    ASSUME IInv, NEW s, NEW t, Couples(s, t), NEW q, NEW p, Joins(s, t, q, p)
    PROVE  Hushed(s, t, client[s], Relayed(s, t)) /\ t \in est'[s]
  <1>1. s \in Server /\ t \in Server /\ s # t /\ est \in [Server -> SUBSET Server] /\ <<s, t>> \in Edge
    BY EdgeFacts DEF Couples, IInv, TypeOK
  <1>2. PICK m : m = [type |-> "SID", sid |-> t]
    OBVIOUS
  <1>3. m \in Message /\ m.type = "SID" /\ \A u : ~Concerns(m, u)
    BY <1>1, <1>2, BuiltMessages DEF Concerns
  <1>4. ASSUME NEW r, <<s, r>> \in Edge
        PROVE  Relayed(s, t)[r] \in Seq(Due(s, r)') /\ \A u \in User : Still(Relayed(s, t)[r], u)
    <2>1. r \in Server
      BY <1>4, EdgeFacts
    <2>2. Relayed(s, t)[r] = <<m>> \/ Relayed(s, t)[r] = <<>>
      BY <1>2, <2>1 DEF Relayed, Tell
    <2>3. PICK S : S = Due(s, r)'
      OBVIOUS
    <2>4. m \in S
      BY <1>3, <2>3 DEF Due
    <2>5. <<m>> \in Seq(S) /\ <<>> \in Seq(S)
      BY <2>4
    <2>6. \A u : Still(<<m>>, u) /\ Still(<<>>, u)
      BY <1>3 DEF Still
    <2> QED BY <2>2, <2>3, <2>5, <2>6
  <1>5. Sets(s, client[s])
    BY <1>1 DEF Couples, Sets, IInv, TypeOK
  <1>6. /\ \A r \in Server \ {s} : est'[r] = est[r]
        /\ \A r : r # t => (r \in est'[s] <=> r \in est[s])
        /\ t \in est'[s]
    BY <1>1 DEF Couples
  <1>7. Spread(s, t, Relayed(s, t)) /\ used' = used /\ splits' = splits
    BY DEF Joins, Couples
  <1> QED BY <1>1, <1>4, <1>5, <1>6, <1>7 DEF Hushed

\* What AInv asks is kept by server_estab, if it is kept on the new link.
LEMMA CoupleStep ==
    ASSUME IInv, IInv', NEW A, AInv(A), NEW s, NEW t, Couples(s, t), NEW q, NEW p, Joins(s, t, q, p),
           q \in Seq(Due(s, t)), p \in Seq(Due(t, s)), splits' = 0 => Open(t, s)',
           \A u \in User : Followed(s, t, u) => Carries(s, t, u, A)',
           \A u \in User : Followed(t, s, u) => Carries(t, s, u, A)'
    PROVE  AInv(A)'
  <1>1. PICK c, out : c = client[s] /\ out = Relayed(s, t)
    OBVIOUS
  <1>2. Hushed(s, t, c, out) /\ t \in est'[s]
    BY <1>1, CoupleHushed
  <1>3. Keeping(A, A, s, t)
    BY DEF Keeping, AInv
  <1>4. Whole'
    <2>1. splits' = 0 => Open(s, t)' /\ Open(t, s)'
      BY <1>2 DEF Open
    <2> QED BY <1>2, <2>1, WholeSpread
  <1>5. chan'[<<s, t>>] \in Seq(Due(s, t)') /\ chan'[<<t, s>>] \in Seq(Due(t, s)')
    <2>1. Due(s, t)' = Due(s, t) /\ Due(t, s)' = Due(t, s)
      BY DEF Due, Couples
    <2> QED BY <2>1 DEF Joins
  <1>6. \A u \in User : Followed(s, t, u)' => Carries(s, t, u, A)'
    BY DEF Followed, Couples
  <1>7. \A u \in User : Followed(t, s, u)' => Carries(t, s, u, A)'
    BY DEF Followed, Couples
  <1> QED BY <1>2, <1>3, <1>4, <1>5, <1>6, <1>7, HushedStep
\* What tells only of servers and new users may be sent to anyone.
LEMMA WelcomeDue ==
    ASSUME NEW w \in Seq(Message), \A i \in 1..Len(w) : w[i].type \in {"SERVER", "SID", "UID"}, NEW s, NEW t
    PROVE  w \in Seq(Due(s, t))
  <1>1. \A i \in 1..Len(w) : w[i] \in Due(s, t)
    BY DEF Due
  <1>2. PICK S : S = Due(s, t)
    OBVIOUS
  <1>3. \A i \in 1..Len(w) : w[i] \in S
    BY <1>1, <1>2
  <1>4. w \in Seq(S)
    BY <1>3
  <1> QED BY <1>2, <1>4

\* server_estab at the end that accepts, and its burst, keep the agreement.
LEMMA AcceptLinkAgreed ==
    ASSUME IInv, IInv', TInv, NEW A, AInv(A), NEW s \in Server, NEW t, AcceptLink(s, t)
    PROVE  AInv(A)'
  <1>1. /\ Couples(s, t) /\ <<s, t>> \in Edge /\ <<t, s>> \in Edge
        /\ t \notin est[s] /\ s \notin est[t] /\ chan[<<t, s>>] = <<>> /\ chan[<<s, t>>] = <<>>
    <2>1. <<s, t>> \in Edge /\ <<t, s>> \in Edge
      BY EdgeFacts DEF AcceptLink
    <2> QED BY <2>1 DEF AcceptLink, Open, Couples, ServerEstab
  <1>2. PICK sids \in SetToSeqs(known[s]), uids \in SetToSeqs(Persons(s)) :
          Joins(s, t, <<Greeting>> \o Burst(s, sids, uids), <<>>)
    BY AcceptLinkIs
  <1>3. PICK w, p, q, e : w = Burst(s, sids, uids) /\ p = <<Greeting>> /\ q = p \o w /\ e = <<>>
    OBVIOUS
  <1>4. Joins(s, t, q, e) /\ chan'[<<s, t>>] = q /\ chan'[<<t, s>>] = e
    BY <1>2, <1>3 DEF Joins
  <1>5. w \in Seq(Message) /\ \A i \in 1..Len(w) : w[i].type \in {"SID", "UID"}
    <2>1. Bursts(s, w)
      BY <1>3, BurstBursts
    <2> QED BY <2>1 DEF Bursts
  <1>6. p \in Seq(Message) /\ e \in Seq(Message) /\ \A u : Still(p, u) /\ Still(e, u)
    <2>1. Greeting \in Message /\ Greeting.type = "SERVER" /\ p \in Seq(Message)
      BY <1>3, GreetingBuilt
    <2>2. \A u : Still(p, u) /\ Still(e, u)
      BY <1>3, <2>1 DEF Still, Concerns
    <2> QED BY <1>3, <2>1, <2>2
  <1>7. q \in Seq(Due(s, t)) /\ e \in Seq(Due(t, s)) /\ q # <<>>
    <2>1. p \in Seq(Due(s, t)) /\ e \in Seq(Due(t, s))
      <3>1. \A i \in 1..Len(p) : p[i].type \in {"SERVER", "SID", "UID"}
        BY <1>3, GreetingBuilt
      <3>2. \A i \in 1..Len(e) : e[i].type \in {"SERVER", "SID", "UID"}
        BY <1>3
      <3> QED BY <1>6, <3>1, <3>2, WelcomeDue
    <2>2. w \in Seq(Due(s, t))
      BY <1>5, WelcomeDue
    <2>3. PICK S : S = Due(s, t)
      OBVIOUS
    <2>4. p \o w \in Seq(S)
      BY <2>1, <2>2, <2>3
    <2>5. q # <<>>
      BY <1>3, <1>5, <1>6, ConcatFacts
    <2> QED BY <1>3, <2>1, <2>3, <2>4, <2>5
  <1>8. t \in est'[s] /\ s \notin est'[t] /\ s # t /\ client' = client
    <2>1. s # t /\ t \in Server
      BY <1>1, EdgeFacts
    <2> QED BY <1>1, <2>1 DEF Couples, IInv, TypeOK
  <1>9. Open(t, s)'
    BY <1>4, <1>7 DEF Open
  <1>10. ASSUME NEW u \in User, Followed(s, t, u)
         PROVE  Carries(s, t, u, A)'
    <2>1. Carries(s, t, u, A)
      BY <1>10 DEF AInv
    <2>2. A[t][u] = Nothing
      BY <1>1, <2>1 DEF Carries
    <2>3. client[t][u] = Absent
      BY <1>1, <1>10, Strange DEF Followed
    <2>4. PICK ts : ts = A[s][u].ts
      OBVIOUS
    <2>5. Past(s, u, ts)
      BY <1>1, <1>10, <2>4, Backed
    <2>6. Abreast(u, client[s][u], Absent, p \o w, e, Nothing, ts)
      BY <1>3, <1>6, <2>5, BurstAbreast
    <2>7. Abreast(u, client'[s][u], client'[t][u], chan'[<<s, t>>], chan'[<<t, s>>], A[t][u], A[s][u].ts)
      BY <1>3, <1>4, <1>8, <2>2, <2>3, <2>4, <2>6
    <2> QED BY <1>8, <2>2, <2>7 DEF Carries
  <1>11. ASSUME NEW u \in User, Followed(t, s, u)
         PROVE  Carries(t, s, u, A)'
    <2>1. Carries(t, s, u, A)
      BY <1>11 DEF AInv
    <2>2. A[s][u] = Nothing
      BY <1>1, <2>1 DEF Carries
    <2>3. client[s][u] = Absent
      BY <1>1, <1>11, Strange DEF Followed
    <2>4. Still(w, u)
      <3>1. ~IsPerson(client[s][u])
        BY <2>3 DEF IsPerson, Absent
      <3> QED BY <1>3, <3>1, BurstLine
    <2>5. Still(chan'[<<s, t>>], u)
      <3>1. Still(p, u) /\ p \in Seq(Message) /\ w \in Seq(Message)
        BY <1>5, <1>6
      <3>2. Still(p \o w, u)
        BY <2>4, <3>1, StillOn
      <3> QED BY <1>3, <1>4, <3>2
    <2>6. ~Live(t, s)'
      BY <1>8 DEF Live
    <2> QED BY <1>8, <2>2, <2>5, <2>6 DEF Carries
  <1> QED BY <1>1, <1>4, <1>7, <1>9, <1>10, <1>11, CoupleStep

\* A queue that is not about u is not when its head is read.
LEMMA StillRest ==
    ASSUME NEW q \in Seq(Message), q # <<>>, NEW u, Still(q, u)
    PROVE  Tail(q) \in Seq(Message) /\ Still(Tail(q), u)
  <1>1. Tail(q) \in Seq(Message) /\ ToSet(q) = {Head(q)} \cup ToSet(Tail(q))
    BY QueueFacts
  <1> QED BY <1>1, LineFacts

\* server_estab at the other end, and its burst, keep the agreement.
LEMMA MrServerAgreed ==
    ASSUME IInv, IInv', TInv, NEW A, AInv(A), NEW s \in Server, NEW t, MrServer(s, t)
    PROVE  AInv(A)'
  <1>1. PICK M : Met(M)
    BY DEF TInv
  <1>2. /\ <<t, s>> \in Edge /\ <<s, t>> \in Edge /\ chan[<<t, s>>] # <<>> /\ Msg(s, t).type = "SERVER"
        /\ t \notin est[s] /\ chan[<<s, t>>] = <<>>
    <2>1. t \notin est[s] /\ chan[<<s, t>>] = <<>>
      BY <1>1, MrServerIs
    <2> QED BY <2>1, EdgeFacts DEF MrServer
  <1>3. Couples(s, t)
    BY <1>2 DEF MrServer, Couples, ServerEstab
  <1>4. PICK sids \in SetToSeqs(known[s]), uids \in SetToSeqs(Persons(s)) :
          Joins(s, t, IF s \in est[t] THEN Burst(s, sids, uids) ELSE <<>>, Tail(chan[<<t, s>>]))
    BY <1>1, MrServerIs
  <1>5. PICK w, o : w = Burst(s, sids, uids) /\ o = <<>>
    OBVIOUS
  <1>6. PICK q, d, p : q = (IF s \in est[t] THEN w ELSE o) /\ d = chan[<<t, s>>] /\ p = Tail(d)
    OBVIOUS
  <1>7. Joins(s, t, q, p) /\ chan'[<<s, t>>] = q /\ chan'[<<t, s>>] = p
    BY <1>4, <1>5, <1>6 DEF Joins
  <1>8. w \in Seq(Message) /\ \A i \in 1..Len(w) : w[i].type \in {"SID", "UID"}
    <2>1. Bursts(s, w)
      BY <1>5, BurstBursts
    <2> QED BY <2>1 DEF Bursts
  <1>9. o \in Seq(Message) /\ (\A u : Still(o, u)) /\ \A x \in Seq(Message) : o \o x = x
    BY <1>5 DEF Still
  <1>10. d \in Seq(Message) /\ d # <<>> /\ p \in Seq(Message) /\ \A u : ~Concerns(Head(d), u)
    <2>1. d \in Seq(Message) /\ d # <<>>
      BY <1>2, <1>6 DEF IInv, TypeOK
    <2>2. Head(d).type = "SERVER"
      BY <1>2, <1>6 DEF Msg
    <2>3. \A u : ~Concerns(Head(d), u)
      BY <2>2 DEF Concerns
    <2>4. p \in Seq(Message)
      BY <1>6, <2>1
    <2> QED BY <2>1, <2>3, <2>4
  <1>11. q \in Seq(Due(s, t)) /\ p \in Seq(Due(t, s))
    <2>1. w \in Seq(Due(s, t))
      BY <1>8, WelcomeDue
    <2>2. o \in Seq(Due(s, t))
      BY <1>5
    <2>3. p \in Seq(Due(t, s))
      <3>1. PICK S : S = Due(t, s)
        OBVIOUS
      <3>2. d \in Seq(S)
        BY <1>2, <1>6, <3>1 DEF AInv
      <3> QED BY <1>6, <1>10, <3>1, <3>2
    <2> QED BY <1>6, <2>1, <2>2, <2>3
  <1>12. t \in est'[s] /\ est'[t] = est[t] /\ s # t /\ client' = client /\ t \in Server
    <2>1. s # t /\ t \in Server
      BY <1>2, EdgeFacts
    <2> QED BY <1>3, <2>1 DEF Couples, IInv, TypeOK
  <1>13. splits' = 0 => Open(t, s)'
    <2>1. ASSUME splits' = 0
          PROVE  s \in est[t]
      <3>1. splits = 0 /\ Open(s, t)
        BY <1>2, <1>3, <2>1 DEF Couples, Open
      <3>2. Open(t, s)
        BY <1>2, <3>1 DEF AInv, Whole
      <3> QED BY <1>2, <3>2 DEF Open
    <2> QED BY <1>12, <2>1 DEF Open
  <1>14. ASSUME NEW u \in User, Followed(s, t, u)
         PROVE  Carries(s, t, u, A)'
    <2>1. Carries(s, t, u, A)
      BY <1>14 DEF AInv
    <2>2. A[t][u] = Nothing /\ Still(d, u)
      BY <1>2, <1>6, <2>1 DEF Carries
    <2>3. client[t][u] = Absent
      BY <1>2, <1>14, Strange DEF Followed
    <2>4. PICK ts : ts = A[s][u].ts
      OBVIOUS
    <2>5. Past(s, u, ts)
      BY <1>2, <1>14, <2>4, Backed
    <2>6. Still(p, u)
      BY <1>6, <1>10, <2>2, StillRest
    <2>7. Abreast(u, client[s][u], Absent, w, p, Nothing, ts)
      <3>1. Still(o, u) /\ o \o w = w
        BY <1>8, <1>9
      <3>2. Abreast(u, client[s][u], Absent, o \o w, p, Nothing, ts)
        BY <1>5, <1>9, <1>10, <2>5, <2>6, <3>1, BurstAbreast
      <3> QED BY <3>1, <3>2
    <2>8. ASSUME Live(s, t)'
          PROVE  Abreast(u, client'[s][u], client'[t][u], chan'[<<s, t>>], chan'[<<t, s>>], A[t][u], A[s][u].ts)
      <3>1. s \in est[t]
        BY <1>5, <1>6, <1>7, <1>12, <2>8 DEF Live, Open
      <3>2. q = w
        BY <1>6, <3>1
      <3> QED BY <1>7, <1>12, <2>2, <2>3, <2>4, <2>7, <3>2
    <2> QED BY <1>12, <2>2, <2>8 DEF Carries
  <1>15. ASSUME NEW u \in User, Followed(t, s, u)
         PROVE  Carries(t, s, u, A)'
    <2>1. Carries(t, s, u, A)
      BY <1>15 DEF AInv
    <2>2. A[s][u] = Nothing
      BY <1>2, <2>1 DEF Carries
    <2>3. client[s][u] = Absent
      BY <1>2, <1>15, Strange DEF Followed
    <2>4. Still(w, u)
      <3>1. ~IsPerson(client[s][u])
        BY <2>3 DEF IsPerson, Absent
      <3> QED BY <1>5, <3>1, BurstLine
    <2>5. s \notin est'[t] => Still(chan'[<<s, t>>], u)
      BY <1>6, <1>7, <1>9, <1>12
    <2>6. ASSUME Live(t, s)'
          PROVE  Abreast(u, client'[t][u], client'[s][u], chan'[<<t, s>>], chan'[<<s, t>>], A[s][u], A[t][u].ts)
      <3>1. s \in est[t]
        BY <1>12, <2>6 DEF Live
      <3>2. Live(t, s)
        BY <1>2, <3>1 DEF Live, Open
      <3>3. PICK e, f, a, ts : e = client[t][u] /\ f = client[s][u] /\ a = A[s][u] /\ ts = A[t][u].ts
        OBVIOUS
      <3>4. Abreast(u, e, f, d, o, a, ts)
        BY <1>2, <1>5, <1>6, <2>1, <3>2, <3>3 DEF Carries
      <3>5. Abreast(u, e, f, p, o, a, ts)
        <4>1. ~Concerns(Head(d), u)
          BY <1>10
        <4> QED BY <1>6, <1>9, <1>10, <3>4, <4>1, AbreastPassed
      <3>6. f \in EntryFor(u)
        BY <3>3, EntriesNamed DEF IInv
      <3>7. Minds(u, f, f, w)
        BY <2>4, StillSpeaks
      <3>8. Abreast(u, e, f, p, o \o w, a, ts)
        BY <1>8, <1>9, <1>10, <3>5, <3>6, <3>7, AbreastIn
      <3>9. o \o w = w /\ q = w
        BY <1>6, <1>8, <1>9, <3>1
      <3> QED BY <1>7, <1>12, <3>3, <3>8, <3>9
    <2> QED BY <1>12, <2>2, <2>5, <2>6 DEF Carries
  <1> QED BY <1>3, <1>7, <1>11, <1>13, <1>14, <1>15, CoupleStep

-----------------------------------------------------------------------------
(* Links that break.                                                       *)

\* The end of a link is about that link alone, and the others are told of it.
LEMMA ClosedHushed ==
    ASSUME IInv, NEW M, Met(M), NEW A, AInv(A), NEW s \in Server, NEW t \in Server, CloseLink(s, t)
    PROVE  /\ splits' # 0 /\ chan'[<<s, t>>] = chan[<<s, t>>] /\ chan'[<<t, s>>] = <<>>
           /\ \E c, out : Hushed(s, t, c, out)
  <1>1. <<s, t>> \in Edge /\ <<t, s>> \in Edge /\ s # t /\ used' = used
    BY EdgeFacts DEF CloseLink
  <1>2. splits' # 0 /\ (splits' = splits \/ splits' # 0)
    <2>1. splits \in Nat
      BY DEF IInv, TypeOK
    <2>2. \/ ~Open(t, s) /\ splits' = splits
          \/ splits' = splits + 1
      BY DEF CloseLink
    <2>3. splits = 0 => Open(t, s)
      BY <1>1 DEF CloseLink, AInv, Whole
    <2> QED BY <2>1, <2>2, <2>3
  <1>3. PICK m, peers, lost : /\ m = [type |-> "SQUIT", sid |-> t] /\ lost = Lost(s, t)
                              /\ peers = IF t \in est[s] THEN est[s] \ {t} ELSE {}
    OBVIOUS
  <1>4. PICK c : c = Forget(Here(s), lost).client /\ Parts(s, t, c, peers, m)
    BY <1>3, CloseLinkIs
  <1>5. m \in Message /\ m.type = "SQUIT" /\ \A u : ~Concerns(m, u)
    <2>1. m \in Message /\ m.type = "SQUIT"
      BY <1>3, SidBuilt
    <2> QED BY <2>1 DEF Concerns
  <1>6. PICK out : out = Tell(peers, m)
    OBVIOUS
  <1>7. ASSUME NEW r, <<s, r>> \in Edge
        PROVE  out[r] \in Seq(Due(s, r)') /\ \A u \in User : Still(out[r], u)
    <2>1. r \in Server
      BY <1>7, EdgeFacts
    <2>2. out[r] = <<m>> \/ out[r] = <<>>
      BY <1>6, <2>1 DEF Tell
    <2>3. PICK S : S = Due(s, r)'
      OBVIOUS
    <2>4. m \in S
      BY <1>2, <1>5, <2>3 DEF Due
    <2>5. <<m>> \in Seq(S) /\ <<>> \in Seq(S)
      BY <2>4
    <2>6. \A u : Still(<<m>>, u) /\ Still(<<>>, u)
      BY <1>5 DEF Still
    <2> QED BY <2>2, <2>3, <2>5, <2>6
  <1>8. Sets(s, c) /\ Spread(s, t, out)
    BY <1>4, <1>6 DEF Parts, Sets
  <1>9. /\ \A r \in Server \ {s} : est'[r] = est[r]
        /\ \A r : r # t => (r \in est'[s] <=> r \in est[s])
    <2>1. est' = [est EXCEPT ![s] = @ \ {t}] /\ est \in [Server -> SUBSET Server]
      BY DEF CloseLink, IInv, TypeOK
    <2> QED BY <1>1, <2>1
  <1>10. ASSUME NEW u \in User, splits' = 0 \/ Home[u] = s \/ (Home[u] # t /\ <<s, Home[u]>> \in Edge)
         PROVE  c[u] = client[s][u]
    <2>1. Home[u] \notin lost
      <3>1. CASE Home[u] = s
        <4>1. s \notin known[s]
          BY NotSelf DEF Met
        <4> QED BY <1>3, <3>1, <4>1 DEF Lost
      <3>2. CASE Home[u] # t /\ <<s, Home[u]>> \in Edge
        <4>1. t \in Behind[<<s, t>>]
          BY <1>1, EdgeFacts
        <4>2. t \notin Way(s, Home[u])
          BY <1>1, <3>2, <4>1, WayAside
        <4> QED BY <1>3, <4>2 DEF Lost
      <3> QED BY <1>2, <1>10, <3>1, <3>2
    <2> QED BY <1>4, <2>1 DEF Forget, Here
  <1>11. Hushed(s, t, c, out)
    BY <1>1, <1>2, <1>7, <1>8, <1>9, <1>10 DEF Hushed
  <1>12. chan'[<<s, t>>] = chan[<<s, t>>] /\ chan'[<<t, s>>] = <<>>
    BY <1>4 DEF Parts
  <1> QED BY <1>2, <1>11, <1>12

\* exit_client of a server keeps the agreement: what is lost with the link is forgotten at its end.
LEMMA CloseLinkAgreed ==
    ASSUME IInv, IInv', TInv, NEW A, AInv(A), NEW s \in Server, NEW t \in Server, CloseLink(s, t)
    PROVE  \E B : AInv(B)'
  <1>1. PICK M : Met(M)
    BY DEF TInv
  <1>2. <<s, t>> \in Edge /\ <<t, s>> \in Edge /\ s # t
    BY EdgeFacts DEF CloseLink
  <1>3. splits' # 0 /\ chan'[<<s, t>>] = chan[<<s, t>>] /\ chan'[<<t, s>>] = <<>>
    BY <1>1, ClosedHushed
  <1>4. PICK c, out : Hushed(s, t, c, out)
    BY <1>1, ClosedHushed
  <1>5. est'[s] = est[s] \ {t} /\ est'[t] = est[t]
    BY <1>2 DEF CloseLink, IInv, TypeOK
  <1>6. PICK B : B = [r \in Server |-> [u \in User |-> IF r = s /\ Home[u] = t THEN Nothing ELSE A[r][u]]]
    OBVIOUS
  <1>7. A \in [Server -> [User -> Hearsay]] /\ Nothing \in Hearsay
    BY HearsayFacts DEF AInv
  <1>8. Keeping(A, B, s, t)
    BY <1>3, <1>6, <1>7 DEF Keeping
  <1>9. Whole'
    BY <1>3 DEF Whole
  <1>10. chan'[<<s, t>>] \in Seq(Due(s, t)') /\ chan'[<<t, s>>] \in Seq(Due(t, s)')
    <2>1. PICK S, S2, T : S = Due(s, t) /\ S2 = Due(s, t)' /\ T = Due(t, s)'
      OBVIOUS
    <2>2. S \subseteq S2
      BY <1>3, <2>1, DueStays
    <2>3. Seq(S) \subseteq Seq(S2)
      BY <2>2
    <2>4. chan[<<s, t>>] \in Seq(S)
      BY <1>2, <2>1 DEF AInv
    <2>5. <<>> \in Seq(T)
      OBVIOUS
    <2> QED BY <1>3, <2>1, <2>3, <2>4, <2>5
  <1>11. ASSUME NEW u \in User, Followed(s, t, u)'
         PROVE  Carries(s, t, u, B)'
    <2>1. Followed(s, t, u)
      BY <1>3, <1>11 DEF Followed
    <2>2. Carries(s, t, u, A)
      BY <2>1 DEF AInv
    <2>3. B[t][u] = A[t][u]
      BY <1>2, <1>6
    <2>4. t \notin est'[s]
      BY <1>5
    <2>5. ~Live(s, t)'
      BY <2>4 DEF Live
    <2>6. Still(chan'[<<t, s>>], u)
      BY <1>3 DEF Still
    <2>7. s \notin est'[t] => B[t][u] = Nothing
      BY <1>5, <2>2, <2>3 DEF Carries
    <2> QED BY <1>3, <2>5, <2>6, <2>7 DEF Carries
  <1>12. ASSUME NEW u \in User, Followed(t, s, u)'
         PROVE  Carries(t, s, u, B)'
    <2>1. Followed(t, s, u) /\ Home[u] = t
      BY <1>3, <1>12 DEF Followed
    <2>2. Carries(t, s, u, A)
      BY <2>1 DEF AInv
    <2>3. B[s][u] = Nothing
      BY <1>6, <2>1
    <2>4. ~Live(t, s)'
      BY <1>3, <1>5 DEF Live, Open
    <2>5. s \notin est'[t] => Still(chan'[<<s, t>>], u)
      BY <1>3, <1>5, <2>2 DEF Carries
    <2> QED BY <2>3, <2>4, <2>5 DEF Carries
  <1> QED BY <1>4, <1>8, <1>9, <1>10, <1>11, <1>12, HushedStep

-----------------------------------------------------------------------------
(* The invariant.                                                          *)

\* What servers have been told of users can be told for every state.
AgreeInv == \E A : AInv(A)

\* A line from a peer keeps the agreement.
LEMMA ReceiveAgreed ==
    ASSUME IInv, IInv', TInv, FInv, Oper = {}, AgreeInv, NEW s \in Server, NEW t \in Server, Receive(s, t)
    PROVE  AgreeInv'
  <1>1. PICK A : AInv(A)
    BY DEF AgreeInv
  <1>2. CASE MrServer(s, t) \/ MsSid(s, t) \/ MsSquit(s, t)
    <2>1. AInv(A)'
      BY <1>1, <1>2, MrServerAgreed, MsSidAgreed, MsSquitAgreed
    <2> QED BY <2>1 DEF AgreeInv
  <1>3. CASE MsUid(s, t) \/ McNick(s, t) \/ MsSave(s, t) \/ MsQuit(s, t) \/ MsKill(s, t)
    <2>1. \E B : AInv(B)'
      BY <1>1, <1>3, UserLineStep
    <2> QED BY <2>1 DEF AgreeInv
  <1> QED BY <1>2, <1>3 DEF Receive

\* What a client does keeps the agreement.
LEMMA ClientAgreed ==
    ASSUME IInv, IInv', TInv, FInv, Oper = {}, Orderly, AgreeInv, ClientStep
    PROVE  AgreeInv'
  <1>1. PICK A : AInv(A)
    BY DEF AgreeInv
  <1>2. PICK u \in User : \/ \E n \in Nick : MrNick(u, n) \/ MNick(u, n)
                          \/ Register(u) \/ ExitUnknown(u) \/ Quit(u)
                          \/ \E v \in User : MoKill(u, v)
    BY DEF ClientStep
  <1>3. ~\E v \in User : MoKill(u, v)
    BY DEF MoKill
  <1>4. \E B : AInv(B)'
    <2>1. CASE \E n \in Nick : MrNick(u, n) \/ MNick(u, n)
      <3>1. PICK n \in Nick : MrNick(u, n) \/ MNick(u, n)
        BY <2>1
      <3> QED BY <1>1, <3>1, MrNickAgreed, MNickAgreed
    <2>2. CASE Register(u) \/ ExitUnknown(u) \/ Quit(u)
      BY <1>1, <2>2, RegisterAgreed, ExitUnknownAgreed, QuitAgreed
    <2> QED BY <1>2, <1>3, <2>1, <2>2
  <1> QED BY <1>4 DEF AgreeInv

\* Every step keeps the agreement.
LEMMA AgreeInvStep ==
    ASSUME IInv, IInv', TInv, FInv, Oper = {}, Orderly, AgreeInv, [Next]_vars
    PROVE  AgreeInv'
  <1>1. PICK A : AInv(A)
    BY DEF AgreeInv
  <1>2. CASE Tick \/ (\E s \in Server : ExpireNd(s)) \/ UNCHANGED vars
    <2>1. UNCHANGED <<client, est, chan, used, splits>>
      BY <1>2 DEF Tick, ExpireNd, Steady, vars
    <2>2. AInv(A)'
      BY <1>1, <2>1, AInvSame
    <2> QED BY <2>2 DEF AgreeInv
  <1>3. CASE ClientStep
    BY <1>3, ClientAgreed
  <1>4. ASSUME NEW s \in Server, NEW t \in Server, Receive(s, t) \/ AcceptLink(s, t) \/ CloseLink(s, t)
        PROVE  AgreeInv'
    <2>1. CASE Receive(s, t)
      BY <2>1, ReceiveAgreed
    <2>2. CASE AcceptLink(s, t)
      <3>1. AInv(A)'
        BY <1>1, <2>2, AcceptLinkAgreed
      <3> QED BY <3>1 DEF AgreeInv
    <2>3. CASE CloseLink(s, t)
      <3>1. \E B : AInv(B)'
        BY <1>1, <2>3, CloseLinkAgreed
      <3> QED BY <3>1 DEF AgreeInv
    <2> QED BY <1>4, <2>1, <2>2, <2>3
  <1> QED BY <1>2, <1>3, <1>4 DEF Next

\* At the start nothing has been told.
LEMMA AgreeInvInit == Init => AgreeInv
  <1> SUFFICES ASSUME Init PROVE AgreeInv
    OBVIOUS
  <1> DEFINE N == [s \in Server |-> [u \in User |-> Nothing]]
  <1>1. Nothing \in Hearsay /\ Nothing.nick = NoNick /\ Nothing.ts = -1
    BY HearsayFacts
  <1>2. /\ \A s \in Server, u \in User : N[s][u] = Nothing
        /\ N \in [Server -> [User -> Hearsay]]
    BY <1>1
  <1>3. \A t, s : <<t, s>> \in Edge =>
          /\ chan[<<t, s>>] = <<>> /\ t \in Server /\ s \in Server /\ <<s, t>> \in Edge
          /\ s \notin est[t] /\ ~Open(t, s)
    BY EdgeFacts DEF Init, Open
  <1>4. \A t, s : <<t, s>> \in Edge => chan[<<t, s>>] \in Seq(Due(t, s))
    <2>1. \A S : <<>> \in Seq(S)
      OBVIOUS
    <2> QED BY <1>3, <2>1
  <1>5. \A u \in User : Self(u) = Absent /\ u \notin used /\ Home[u] \in Server
    BY UserAssumption DEF Init, Self
  <1>6. \A u \in User : Rooted(u, N)
    <2> HIDE DEF N
    <2>1. ~IsPerson(Absent)
      BY DEF IsPerson, Absent
    <2> QED BY <1>1, <1>2, <1>5, <2>1 DEF Rooted
  <1>7. \A t, s : \A u \in User : Followed(t, s, u) => Carries(t, s, u, N)
    <2> HIDE DEF N
    <2> SUFFICES ASSUME NEW t, NEW s, NEW u \in User, Followed(t, s, u)
                 PROVE  Carries(t, s, u, N)
      OBVIOUS
    <2>1. <<t, s>> \in Edge
      BY DEF Followed
    <2>2. chan[<<s, t>>] = <<>> /\ s \notin est[t] /\ N[s][u] = Nothing
      BY <1>2, <1>3, <2>1
    <2>3. Still(chan[<<s, t>>], u)
      BY <2>2 DEF Still
    <2>4. ~Live(t, s)
      BY <2>2 DEF Live
    <2> QED BY <2>2, <2>3, <2>4 DEF Carries
  <1>8. Whole
    BY <1>3 DEF Whole
  <1> HIDE DEF N
  <1>9. AInv(N)
    BY <1>2, <1>4, <1>6, <1>7, <1>8 DEF AInv
  <1> QED BY <1>9 DEF AgreeInv

\* The agreement of the links holds in every state.
LEMMA AgreeInvHolds == Oper = {} /\ Orderly => (Spec => []AgreeInv)
  <1> SUFFICES ASSUME Oper = {}, Orderly PROVE Spec => []AgreeInv
    OBVIOUS
  <1>1. IInv /\ IInv' /\ TInv /\ FInv /\ AgreeInv /\ [Next]_vars => AgreeInv'
    BY AgreeInvStep
  <1> QED BY <1>1, AgreeInvInit, TInvHolds, WInvHolds, PTL DEF Spec

-----------------------------------------------------------------------------
(* When nothing is under way.                                              *)

\* An empty queue says nothing.
LEMMA NothingSaid ==
    ASSUME NEW u
    PROVE  ~Killing(<<>>, u) /\ \A ts : ~Saving(<<>>, u, ts)
  BY DEF Killing, Saving, ToSet

\* The two ends of a link have the same of a user who is followed over it.
LEMMA AbreastAgrees ==
    ASSUME NEW u \in User, NEW e \in EntryFor(u), NEW f \in EntryFor(u), NEW a, NEW ts,
           Abreast(u, e, f, <<>>, <<>>, a, ts)
    PROVE  /\ IsPerson(f) <=> IsPerson(e)
           /\ IsPerson(f) => f.nick = e.nick
           /\ IsPerson(f) /\ f.nick \in Nick => f.ts = e.ts
  <1>1. PICK b \in Hearsay : /\ Course(<<>>, u, a, b) /\ b.ts <= ts
                             /\ Accepts(u, f, a)
                             /\ Tells(e, b, f, a)
                             /\ Replies(u, e, f, <<>>, a, b)
    BY DEF Abreast
  <1>2. a = b
    <2>1. <<>> \in Seq(Message)
      OBVIOUS
    <2> QED BY <1>1, <2>1, CourseEnds
  <1>3. ~Killing(<<>>, u) /\ \A x : ~Saving(<<>>, u, x)
    BY NothingSaid
  <1>4. NoNick \notin Nick
    BY NameAssumption
  <1>5. IsPerson(f) => f.nick # NoNick /\ f # Absent
    BY PersonNamed
  <1>6. IsPerson(e) => e.nick # NoNick
    BY PersonNamed
  <1>7. ~IsPerson(Absent)
    BY DEF IsPerson, Absent
  <1>8. CASE ~IsPerson(e)
    <2>1. b.nick # NoNick => f = Absent
      BY <1>1, <1>8 DEF Tells, Like
    <2>2. CASE f = Absent
      BY <1>7, <1>8, <2>2
    <2>3. CASE f # Absent
      <3>1. a.nick = NoNick
        BY <1>2, <2>1, <2>3
      <3>2. ~IsPerson(f)
        BY <1>1, <1>4, <1>5, <2>3, <3>1 DEF Accepts, Like
      <3> QED BY <1>8, <3>2
    <2> QED BY <2>2, <2>3
  <1>9. CASE IsPerson(e)
    <2>1. e.nick = a.nick /\ (e.nick \in Nick => e.ts = a.ts)
      BY <1>1, <1>2, <1>9 DEF Tells, Like
    <2>2. f # Absent
      BY <1>1, <1>3, <1>6, <1>9, <2>1 DEF Replies
    <2>3. ~(IsPerson(f) /\ f.nick = u /\ a.nick \in Nick)
      BY <1>1, <1>2, <1>3, <1>9 DEF Replies
    <2>4. Like(f, a)
      BY <1>1, <2>2, <2>3 DEF Accepts
    <2> QED BY <1>9, <2>1, <2>4 DEF Like
  <1> QED BY <1>8, <1>9

\* Once nothing is under way the two ends of a live link have the same of a user.
LEMMA LinkAgrees ==
    ASSUME IInv, NEW A, AInv(A), Quiet, NEW t, NEW s, NEW u \in User, Followed(t, s, u), t \in est[s]
    PROVE  SameView(s, t, u)
  <1>1. <<t, s>> \in Edge /\ <<s, t>> \in Edge /\ s \in Server /\ t \in Server
    BY EdgeFacts DEF Followed
  <1>2. chan[<<t, s>>] = <<>> /\ chan[<<s, t>>] = <<>> /\ s \in est[t]
    BY <1>1 DEF Quiet
  <1>3. Live(t, s)
    BY <1>2 DEF Live, Open
  <1>4. Abreast(u, client[t][u], client[s][u], <<>>, <<>>, A[s][u], A[t][u].ts)
    BY <1>2, <1>3 DEF AInv, Carries
  <1>5. client[t][u] \in EntryFor(u) /\ client[s][u] \in EntryFor(u)
    BY <1>1, EntriesNamed DEF IInv
  <1>6. /\ IsPerson(client[s][u]) <=> IsPerson(client[t][u])
        /\ IsPerson(client[s][u]) => client[s][u].nick = client[t][u].nick
        /\ IsPerson(client[s][u]) /\ client[s][u].nick \in Nick => client[s][u].ts = client[t][u].ts
    BY <1>4, <1>5, AbreastAgrees
  <1> QED BY <1>6 DEF SameView

\* A neighbour of the user's home, over any number of splits.
LEMMA NeighbourAgrees ==
    ASSUME IInv, TInv, AgreeInv, Quiet, NEW u \in User, NEW s, <<s, Home[u]>> \in Edge, Home[u] \in known[s]
    PROVE  SameView(s, Home[u], u)
  <1>1. PICK A : AInv(A)
    BY DEF AgreeInv
  <1>2. PICK M : Met(M)
    BY DEF TInv
  <1>3. <<Home[u], s>> \in Edge /\ Home[u] \in Behind[<<s, Home[u]>>]
    BY EdgeFacts
  <1>4. Home[u] \in est[s]
    BY <1>2, <1>3, QuietLink
  <1>5. Followed(Home[u], s, u)
    BY <1>3 DEF Followed
  <1> QED BY <1>1, <1>4, <1>5, LinkAgrees

\* Two who see a user as a third does see it alike.
LEMMA SameViewOn ==
    ASSUME NEW z, NEW y, NEW x, NEW u, SameView(z, y, u), SameView(y, x, u)
    PROVE  SameView(z, x, u)
  BY DEF SameView

\* All the servers that live links lead to, while none has broken.
LEMMA UnbrokenAgrees ==
    ASSUME IInv, TInv, AgreeInv, Quiet, splits = 0, NEW s \in Server, NEW u \in User, Home[u] \in known[s]
    PROVE  SameView(s, Home[u], u)
  <1>1. PICK A : AInv(A)
    BY DEF AgreeInv
  <1>2. Home[u] \in Server
    BY UserAssumption
  <1>3. PICK x \in Server : x = Home[u]
    BY <1>2
  <1>4. LivePath(s, x)
    <2>1. KnowsItsSide
      BY TInvKnowsSide
    <2> QED BY <1>3, <2>1 DEF KnowsItsSide, LivePath
  <1> DEFINE P == {y \in Server : LivePath(y, x) => SameView(y, x, u)}
             C == {y \in Server : y \in P /\ Way(y, x) \subseteq P}
  <1>5. x \in C
    <2>1. SameView(x, x, u)
      BY DEF SameView
    <2> QED BY <2>1, NoWay
  <1>6. ASSUME NEW e \in Edge, e[1] \in C PROVE e[2] \in C
    <2>1. PICK y, z : e = <<y, z>>
      BY DEF Edge
    <2>2. /\ <<y, z>> \in Edge /\ <<z, y>> \in Edge /\ y \in C /\ e[2] = z
          /\ y \in Server /\ z \in Server
      BY <1>6, <2>1, EdgeFacts
    <2>3. CASE x \in Behind[<<y, z>>]
      <3>1. z \in Way(y, x) /\ \A w : w # z => (w \in Way(y, x) <=> w \in Way(z, x))
        BY <2>2, <2>3, WayHop, WayBeyond
      <3> QED BY <2>2, <3>1
    <2>4. CASE x \in Behind[<<z, y>>]
      <3>1. \A w : w # y => (w \in Way(z, x) <=> w \in Way(y, x))
        BY <2>2, <2>4, WayBeyond
      <3>2. ASSUME LivePath(z, x) PROVE SameView(z, x, u)
        <4>1. y \in est[z] /\ LivePath(y, x)
          BY <2>2, <2>4, <3>2, LivePathHop
        <4>2. SameView(y, x, u)
          BY <2>2, <4>1
        <4>3. Followed(y, z, u)
          BY <1>3, <2>2, <2>4 DEF Followed
        <4>4. SameView(z, y, u)
          BY <1>1, <4>1, <4>3, LinkAgrees
        <4> QED BY <4>2, <4>4, SameViewOn
      <3> QED BY <2>2, <3>1, <3>2
    <2> QED BY <2>2, <2>3, <2>4, TwoSides
  <1>7. C \in SUBSET Server /\ C # {}
    BY <1>5
  <1> HIDE DEF C
  <1>8. C = Server
    BY <1>6, <1>7, ConnectedAssumption
  <1> QED BY <1>3, <1>4, <1>8 DEF C

\* While no link has broken, each server has every user it knows of just as the user's
\* own server has it, once nothing is under way: whatever introductions, nick changes
\* and collisions have crossed on the way, a SAVE or KILL that one end sends back is
\* what the other end makes up for it with.  Any network; no operators, and a client
\* cannot change its nick twice in the second in which a SAVE compares timestamps.
THEOREM AgreementUnbrokenHolds == Oper = {} /\ Orderly => (Spec => []AgreementUnbroken)
  <1> SUFFICES ASSUME Oper = {}, Orderly PROVE Spec => []AgreementUnbroken
    OBVIOUS
  <1>1. IInv /\ TInv /\ AgreeInv => AgreementUnbroken
    BY UnbrokenAgrees DEF AgreementUnbroken, Agreement
  <1> QED BY <1>1, AgreeInvHolds, TInvHolds, PTL

\* The neighbours of a user's server have the user as it has, once nothing is under way,
\* over any number of splits and in any network: a link that breaks takes along what the
\* one end has had from the other, and the burst of server_estab tells it all anew.
THEOREM NeighboursAgree ==
    Oper = {} /\ Orderly =>
      (Spec => [](Quiet => \A u \in User, s \in Server :
                     <<s, Home[u]>> \in Edge /\ Home[u] \in known[s] => SameView(s, Home[u], u)))
  <1> SUFFICES ASSUME Oper = {}, Orderly
               PROVE  Spec => [](Quiet => \A u \in User, s \in Server :
                     <<s, Home[u]>> \in Edge /\ Home[u] \in known[s] => SameView(s, Home[u], u))
    OBVIOUS
  <1>1. IInv /\ TInv /\ AgreeInv => (Quiet => \A u \in User, s \in Server :
                     <<s, Home[u]>> \in Edge /\ Home[u] \in known[s] => SameView(s, Home[u], u))
    BY NeighbourAgrees
  <1> QED BY <1>1, AgreeInvHolds, TInvHolds, PTL

\* Every server is linked to the servers that have users.
Adjacent == \A u \in User : \A s \in Server \ {Home[u]} : <<s, Home[u]>> \in Edge

\* Where no server stands between a user's server and another, all of them agree about
\* it over any number of splits and rejoins, too.
THEOREM AgreementHolds == Oper = {} /\ Orderly /\ Adjacent => (Spec => []Agreement)
  <1> SUFFICES ASSUME Oper = {}, Orderly, Adjacent PROVE Spec => []Agreement
    OBVIOUS
  <1>1. ASSUME IInv, TInv, AgreeInv, Quiet, NEW s \in Server, NEW u \in User, Home[u] \in known[s]
        PROVE  SameView(s, Home[u], u)
    <2>1. s \notin known[s]
      BY <1>1, NotSelf DEF TInv, Met
    <2>2. <<s, Home[u]>> \in Edge
      BY <1>1, <2>1 DEF Adjacent
    <2> QED BY <1>1, <2>2, NeighbourAgrees
  <1>2. IInv /\ TInv /\ AgreeInv => Agreement
    BY <1>1 DEF Agreement
  <1> QED BY <1>2, AgreeInvHolds, TInvHolds, PTL

=============================================================================
