---------------------------- MODULE NickNet_proofs ----------------------------
(***************************************************************************)
(* Part one, for any network, any set of users and nicks and any bounds:   *)
(* type correctness, and that at every server a nick has one holder and a  *)
(* nick that is held is not held back.  The three are inductive together.  *)
(* That a UID is nobody else's nick, in the tables and in the messages,    *)
(* and is not held back at its own server, are the parts of TypeOK that    *)
(* make a forced change to the UID safe.                                   *)
(*                                                                         *)
(* Part two, for any tree, from "The two sides of a link": nobody is       *)
(* introduced twice, and a server at rest knows just its side.  The        *)
(* invariant TInv speaks of whole queues: the lines under way on a link    *)
(* turn what the reader has of the sender's side (Sees) into what the      *)
(* sender has (Has), each making sense when it is read (Fits).  A server   *)
(* need not have a user of whom it has been told: he may be gone, or have  *)
(* been refused.  So it counts whom each server has been told of, M; there *)
(* is such an M in every reachable state.                                  *)
(***************************************************************************)
EXTENDS NickNet, FiniteSetTheorems, TLAPS

(* The state of one server while it handles an event, when it is sound.    *)

Distinct(c) ==
    \A u, v \in User :
        c[u].on # "absent" /\ c[v].on # "absent" /\ c[u].nick = c[v].nick => u = v

Clear(c, d) == \A u \in User : c[u].on # "absent" => c[u].nick \notin d

LocalState == [client : Table, nd : SUBSET Name, out : [Server -> Seq(Message)]]

Good(s, L) ==
    /\ L \in LocalState /\ Distinct(L.client) /\ Clear(L.client, L.nd)
    /\ Local(s) \cap L.nd = {}

\* Nobody but u holds n, or nobody but u and v.
FreeFor(L, u, n) ==
    \A w \in User \ {u} : L.client[w].on # "absent" => L.client[w].nick # n

FreeForBoth(L, u, v, n) ==
    \A w \in User \ {u, v} : L.client[w].on # "absent" => L.client[w].nick # n

IInv == TypeOK /\ NickUnique /\ HeldNotDelayed

-----------------------------------------------------------------------------
(* Messages.                                                               *)

\* A message built by a handler from typed parts is a message.
LEMMA BuiltMessages ==
    /\ \A u \in User : \A n \in NameFor(u), ts \in Nat :
         /\ [type |-> "UID", u |-> u, nick |-> n, ts |-> ts] \in Message
         /\ [type |-> "NICK", u |-> u, nick |-> n, ts |-> ts] \in Message
    /\ \A u \in User, ts \in Nat : [type |-> "SAVE", u |-> u, ts |-> ts] \in Message
    /\ \A u \in User : [type |-> "QUIT", u |-> u] \in Message
    /\ \A u \in User, x \in Server \cup User : [type |-> "KILL", u |-> u, src |-> x] \in Message
    /\ \A x \in Server : /\ [type |-> "SID", sid |-> x] \in Message
                         /\ [type |-> "SQUIT", sid |-> x] \in Message
    /\ [type |-> "SERVER"] \in Message
  BY DEF Message, NameFor, Name

\* The fields of a message that has arrived are typed.
LEMMA ReadMessages ==
    ASSUME NEW m \in Message
    PROVE  /\ m.type \in {"UID", "NICK"} => m.u \in User /\ m.nick \in NameFor(m.u) /\ m.ts \in Nat
           /\ m.type = "SAVE" => m.u \in User /\ m.ts \in Nat
           /\ m.type = "QUIT" => m.u \in User
           /\ m.type = "KILL" => m.u \in User /\ m.src \in Server \cup User
           /\ m.type \in {"SID", "SQUIT"} => m.sid \in Server
  BY DEF Message

\* The names u may have are nicks or its own UID, and no real name is NoNick.
LEMMA NameFacts ==
    ASSUME NEW u \in User
    PROVE  /\ u \in NameFor(u) /\ u \notin Nick /\ u # NoNick /\ NameFor(u) \subseteq Name
           /\ NoNick \notin NameFor(u)
  BY UserAssumption, NameAssumption DEF NameFor, Name

\* The clock of a server is a natural number.
LEMMA ClockTyped ==
    ASSUME TypeOK, NEW s \in Server
    PROVE  CurrentTime(s) \in Nat
  BY ClockAssumption DEF TypeOK, CurrentTime

-----------------------------------------------------------------------------
(* The helpers keep the state of a server sound.                           *)

\* The parts of an updated state.
LEMMA Update ==
    ASSUME NEW L \in LocalState, NEW e
    PROVE  /\ [L EXCEPT !.out = e] = [client |-> L.client, nd |-> L.nd, out |-> e]
           /\ [L EXCEPT !.client = e] = [client |-> e, nd |-> L.nd, out |-> L.out]
  <1>1. [L EXCEPT !.out = e] = [client |-> L.client, nd |-> L.nd, out |-> e]
    BY DEF LocalState
  <1>2. [L EXCEPT !.client = e] = [client |-> e, nd |-> L.nd, out |-> L.out]
    BY DEF LocalState
  <1> QED BY <1>1, <1>2

\* Sending leaves a sound state sound.
LEMMA SendToGood ==
    ASSUME NEW s, NEW L, Good(s, L), NEW peers, NEW m \in Message
    PROVE  /\ Good(s, SendTo(L, peers, m))
           /\ SendTo(L, peers, m).client = L.client
           /\ SendTo(L, peers, m).nd = L.nd
  <1> DEFINE out == [t \in Server |-> IF t \in peers THEN Append(L.out[t], m) ELSE L.out[t]]
  <1>1. out \in [Server -> Seq(Message)]
    BY DEF Good, LocalState
  <1>2. SendTo(L, peers, m) = [L EXCEPT !.out = out]
    BY DEF SendTo
  <1> HIDE DEF out
  <1>3. SendTo(L, peers, m) = [client |-> L.client, nd |-> L.nd, out |-> out]
    BY <1>2, Update DEF Good
  <1> QED BY <1>1, <1>3 DEF Good, LocalState

\* Removing a client leaves a sound state sound, and its nick free.
LEMMA DropGood ==
    ASSUME NEW s, NEW L, Good(s, L), NEW u \in User
    PROVE  /\ Good(s, Drop(L, u))
           /\ \A w \in User, n \in Name : FreeFor(L, w, n) => FreeFor(Drop(L, u), w, n)
           /\ \A w \in User, n \in Name : FreeForBoth(L, w, u, n) => FreeFor(Drop(L, u), w, n)
  <1> DEFINE c == [L.client EXCEPT ![u] = Absent]
  <1>1. c \in Table
    BY DEF Good, LocalState, Table, Entry, Absent
  <1>2. Drop(L, u) = [client |-> c, nd |-> L.nd, out |-> L.out]
    <2>1. Drop(L, u) = [L EXCEPT !.client = c]
      BY DEF Drop
    <2> HIDE DEF c
    <2> QED BY <2>1, Update DEF Good
  <1>3. c[u].on = "absent" /\ \A w \in User \ {u} : c[w] = L.client[w]
    BY DEF Good, LocalState, Table, Absent
  <1>4. Distinct(c) /\ Clear(c, L.nd)
    BY <1>3 DEF Good, Distinct, Clear
  <1> HIDE DEF c
  <1> QED BY <1>1, <1>2, <1>3, <1>4 DEF Good, LocalState, FreeFor, FreeForBoth

\* Storing a nick that nobody else holds, and taking it off the delay list.
LEMMA StoreGood ==
    ASSUME NEW s, NEW L, Good(s, L), NEW u \in User, NEW n \in NameFor(u), NEW ts \in Nat,
           NEW on \in {"absent", "unknown", "person"}, FreeFor(L, u, n)
    PROVE  Good(s, Store(L, u, [on |-> on, nick |-> n, ts |-> ts]))
  <1> DEFINE e == [on |-> on, nick |-> n, ts |-> ts]
             c == [L.client EXCEPT ![u] = e]
  <1>1. e \in Entry
    BY NameFacts DEF Entry
  <1>2. c \in Table
    BY <1>1 DEF Good, LocalState, Table
  <1>3. c[u].on = on /\ c[u].nick = n /\ \A w \in User \ {u} : c[w] = L.client[w]
    BY DEF Good, LocalState, Table
  <1>4. Distinct(c)
    BY <1>3 DEF Good, Distinct, FreeFor
  <1>5. Clear(c, L.nd \ {n})
    BY <1>3 DEF Good, Clear
  <1>6. Store(L, u, e) = [client |-> c, nd |-> L.nd \ {n}, out |-> L.out]
    BY DEF Store
  <1> HIDE DEF c, e
  <1>7. Good(s, Store(L, u, e))
    BY <1>2, <1>4, <1>5, <1>6 DEF Good, LocalState
  <1> QED BY <1>7 DEF e

\* So does renaming a client to a nick that nobody else holds.
LEMMA RenameGood ==
    ASSUME NEW s, NEW L, Good(s, L), NEW u \in User, NEW n \in NameFor(u), NEW ts \in Nat,
           FreeFor(L, u, n)
    PROVE  Good(s, Rename(L, u, n, ts))
  <1>1. L.client[u].on \in {"absent", "unknown", "person"}
    BY DEF Good, LocalState, Table, Entry
  <1> QED BY <1>1, StoreGood DEF Rename

\* A nick that is not held back comes to nothing else by change_local_nick.
LEMMA LocalNick ==
    ASSUME NEW L, NEW u, NEW n, NEW ts, n \notin L.nd
    PROVE  ChangeLocalNick(L, u, n, ts) = Rename(L, u, n, ts)
  <1>1. L.nd \ {n} = L.nd
    OBVIOUS
  <1> QED BY <1>1 DEF ChangeLocalNick, Rename, Store

\* Nobody else has the UID of u for a nick.
LEMMA UidFree ==
    ASSUME NEW s, NEW L, Good(s, L), NEW u \in User
    PROVE  FreeFor(L, u, u)
  BY NameFacts DEF Good, LocalState, Table, FreeFor, NameFor, Absent

\* After a forced change of u nobody but w holds n, if only u and w did.
LEMMA RenameFrees ==
    ASSUME NEW s, NEW L, Good(s, L), NEW u \in User, NEW ts, NEW w \in User, NEW n \in NameFor(w)
    PROVE  /\ FreeFor(L, w, n) => FreeFor(Rename(L, u, u, ts), w, n)
           /\ FreeForBoth(L, w, u, n) => FreeFor(Rename(L, u, u, ts), w, n)
  <1> DEFINE c == Rename(L, u, u, ts).client
  <1>1. c[u].nick = u /\ \A x \in User \ {u} : c[x] = L.client[x]
    BY DEF Rename, Store, Good, LocalState, Table
  <1>2. u # w => n # u
    BY NameFacts DEF NameFor
  <1> QED BY <1>1, <1>2 DEF FreeFor, FreeForBoth

\* A KILL to all servers leaves a sound state sound; the victim is gone.
LEMMA KillEverywhereGood ==
    ASSUME NEW s \in Server, NEW L, Good(s, L), NEW u \in User
    PROVE  /\ Good(s, KillEverywhere(L, s, u))
           /\ \A w \in User, n \in Name : FreeForBoth(L, w, u, n) => FreeFor(KillEverywhere(L, s, u), w, n)
  <1> DEFINE m == [type |-> "KILL", u |-> u, src |-> s]
             M == SendTo(L, est[s], m)
  <1>1. m \in Message
    BY BuiltMessages
  <1>2. Good(s, M) /\ M.client = L.client
    BY <1>1, SendToGood
  <1>3. \A w \in User, n \in Name : FreeForBoth(L, w, u, n) => FreeForBoth(M, w, u, n)
    BY <1>2 DEF FreeForBoth
  <1> HIDE DEF M
  <1>4. /\ Good(s, Drop(M, u))
        /\ \A w \in User, n \in Name : FreeForBoth(M, w, u, n) => FreeFor(Drop(M, u), w, n)
    BY <1>2, DropGood
  <1> QED BY <1>3, <1>4 DEF KillEverywhere, M

\* Answering with a KILL or a SAVE leaves a sound state sound.
LEMMA BackGood ==
    ASSUME NEW s \in Server, NEW t, NEW L, Good(s, L), NEW u \in User, NEW ts \in Nat
    PROVE  /\ Good(s, KillBack(L, s, t, u))
           /\ Good(s, SaveBack(L, t, u, ts)) /\ SaveBack(L, t, u, ts).client = L.client
  <1>1. /\ [type |-> "KILL", u |-> u, src |-> s] \in Message
        /\ [type |-> "SAVE", u |-> u, ts |-> ts] \in Message
    BY BuiltMessages
  <1> QED BY <1>1, SendToGood DEF KillBack, SaveBack

\* Introducing u under a nick that nobody else holds is sound.
LEMMA IntroduceGood ==
    ASSUME NEW s, NEW t, NEW L, Good(s, L), NEW u \in User, NEW n \in NameFor(u), NEW ts \in Nat,
           FreeFor(L, u, n)
    PROVE  Good(s, Introduce(L, s, t, u, n, ts))
  <1>1. Good(s, Store(L, u, [on |-> "person", nick |-> n, ts |-> ts]))
    BY StoreGood
  <1>2. [type |-> "UID", u |-> u, nick |-> n, ts |-> ts] \in Message
    BY BuiltMessages
  <1> QED BY <1>1, <1>2, SendToGood DEF Introduce

\* So is passing on its change to such a nick.
LEMMA ChangeRemoteNickGood ==
    ASSUME NEW s, NEW t, NEW L, Good(s, L), NEW u \in User, NEW n \in NameFor(u), NEW ts \in Nat,
           FreeFor(L, u, n)
    PROVE  Good(s, ChangeRemoteNick(L, s, t, u, n, ts))
  <1> DEFINE m == [type |-> "NICK", u |-> u, nick |-> n, ts |-> ts]
             M == SendTo(L, est[s] \ {t}, m)
  <1>1. m \in Message
    BY BuiltMessages
  <1>2. Good(s, M) /\ M.client = L.client
    BY <1>1, SendToGood
  <1>3. FreeFor(M, u, n)
    BY <1>2 DEF FreeFor
  <1> HIDE DEF M
  <1>4. Good(s, Rename(M, u, n, ts))
    BY <1>2, <1>3, RenameGood
  <1> QED BY <1>4 DEF ChangeRemoteNick, M

\* However v loses n, to a SAVE or to a KILL, nobody holds n afterwards if only
\* v and w did.
LEMMA SaveUserGood ==
    ASSUME TypeOK, NEW s \in Server, NEW t, NEW L, Good(s, L), NEW v \in User
    PROVE  /\ Good(s, SaveUser(L, s, t, v))
           /\ \A w \in User : \A n \in NameFor(w) :
                FreeForBoth(L, w, v, n) => FreeFor(SaveUser(L, s, t, v), w, n)
  <1>1. CASE Way(s, Home[v]) \cap est[s] \subseteq SaveCap
    <2> DEFINE m1 == [type |-> "SAVE", u |-> v, ts |-> L.client[v].ts]
               m2 == [type |-> "NICK", u |-> v, nick |-> v, ts |-> CurrentTime(s)]
               M1 == SendTo(L, (est[s] \ {t}) \cap SaveCap, m1)
               M == SendTo(M1, (est[s] \ {t}) \ SaveCap, m2)
    <2>1. CurrentTime(s) \in Nat /\ L.client[v].ts \in Nat /\ v \in NameFor(v)
      BY ClockTyped, NameFacts DEF Good, LocalState, Table, Entry
    <2>2. m1 \in Message /\ m2 \in Message
      BY <2>1, BuiltMessages
    <2>3. Good(s, M1) /\ M1.client = L.client
      BY <2>2, SendToGood
    <2> HIDE DEF M1, m1, m2
    <2>4. Good(s, M) /\ M.client = L.client
      BY <2>2, <2>3, SendToGood
    <2>5. \A w \in User, n \in Name : FreeForBoth(L, w, v, n) => FreeForBoth(M, w, v, n)
      BY <2>4 DEF FreeForBoth
    <2> HIDE DEF M
    <2>6. Good(s, Rename(M, v, v, CurrentTime(s)))
      BY <2>1, <2>4, UidFree, RenameGood
    <2>7. SaveUser(L, s, t, v) = Rename(M, v, v, CurrentTime(s))
      <3>1. Home[v] = s => v \notin M.nd
        BY <2>4 DEF Good, Local
      <3>2. Home[v] = s =>
              ChangeLocalNick(M, v, v, CurrentTime(s)) = Rename(M, v, v, CurrentTime(s))
        BY <3>1, LocalNick
      <3> QED BY <1>1, <3>2 DEF SaveUser, M, M1, m1, m2
    <2> QED BY <2>4, <2>5, <2>6, <2>7, RenameFrees, NameFacts
  <1>2. CASE ~(Way(s, Home[v]) \cap est[s] \subseteq SaveCap)
    <2>1. SaveUser(L, s, t, v) = KillEverywhere(L, s, v)
      BY <1>2 DEF SaveUser
    <2> QED BY <2>1, KillEverywhereGood, NameFacts
  <1> QED BY <1>1, <1>2

\* Forcing u onto its UID is always sound: the UID is free.
LEMMA ForceUidNickGood ==
    ASSUME TypeOK, NEW s \in Server, NEW t, NEW L, Good(s, L), NEW u \in User
    PROVE  Good(s, ForceUidNick(L, s, t, u))
  BY ClockTyped, NameFacts, UidFree, ChangeRemoteNickGood DEF ForceUidNick

\* Forgetting the users of lost servers is sound: a nick is held back only once
\* its holder is gone.
LEMMA ForgetGood ==
    ASSUME NEW s, NEW L, Good(s, L), NEW lost, s \notin lost
    PROVE  Good(s, Forget(L, lost))
  <1> DEFINE gone == {u \in User : Home[u] \in lost /\ L.client[u].on # "absent"}
             names == {L.client[u].nick : u \in gone}
             c == [u \in User |-> IF u \in gone THEN Absent ELSE L.client[u]]
             d == IF NickDelay THEN L.nd \cup names ELSE L.nd
  <1>1. c \in Table
    BY DEF Good, LocalState, Table, Entry, Absent
  <1>2. \A u \in gone : Home[u] # s /\ L.client[u].nick \in NameFor(u)
    BY DEF Good, LocalState, Table, Absent
  <1>3. d \in SUBSET Name /\ Local(s) \cap d = {}
    <2>1. \A n \in names : n \in Name /\ n \notin Local(s)
      BY <1>2, NameFacts, UserAssumption DEF NameFor, Local
    <2> QED BY <2>1 DEF Good, LocalState
  <1>4. Distinct(c)
    BY DEF Good, Distinct, Absent
  <1>5. Clear(c, d)
    BY DEF Good, Distinct, Clear, Absent
  <1>6. Forget(L, lost) = [client |-> c, nd |-> d, out |-> L.out]
    BY DEF Forget
  <1> HIDE DEF c, d
  <1> QED BY <1>1, <1>3, <1>4, <1>5, <1>6 DEF Good, LocalState

\* A server does not lose itself.
LEMMA NotLost ==
    ASSUME NEW s, NEW x
    PROVE  s \notin Lost(s, x)
  BY DEF Lost, Way

-----------------------------------------------------------------------------
(* A server between two events.                                            *)

\* The invariant makes the state from which each handler starts sound.
LEMMA HereGood ==
    ASSUME IInv, NEW s \in Server
    PROVE  Good(s, Here(s))
  BY DEF IInv, TypeOK, NickUnique, HeldNotDelayed, Good, LocalState, Here, Distinct, Clear

\* Throwing out the unregistered holder leaves a nick free that no person holds.
LEMMA OverriddenGood ==
    ASSUME IInv, NEW s \in Server, NEW n
    PROVE  /\ Good(s, Overridden(s, n))
           /\ PersonsHolding(s, n) = {} => \A u \in User : FreeFor(Overridden(s, n), u, n)
  <1> DEFINE c == [v \in User |-> IF client[s][v].on = "unknown" /\ client[s][v].nick = n
                                  THEN Absent ELSE client[s][v]]
  <1>1. Good(s, Here(s))
    BY HereGood
  <1>2. Overridden(s, n) = [client |-> c, nd |-> nd[s], out |-> Here(s).out]
    <2>1. Overridden(s, n) = [Here(s) EXCEPT !.client = c]
      BY DEF Overridden, Here
    <2> HIDE DEF c
    <2> QED BY <1>1, <2>1, Update DEF Good, Here
  <1>3. c \in Table
    BY DEF IInv, TypeOK, Table, Entry, Absent
  <1>4. Distinct(c) /\ Clear(c, nd[s])
    BY DEF IInv, NickUnique, HeldNotDelayed, Distinct, Clear, Absent
  <1>5. nd[s] \in SUBSET Name /\ Local(s) \cap nd[s] = {} /\ Here(s).out \in [Server -> Seq(Message)]
    BY <1>1 DEF IInv, TypeOK, Good, LocalState
  <1>6. PersonsHolding(s, n) = {} => \A w \in User : c[w].on # "absent" => c[w].nick # n
    BY DEF IInv, TypeOK, Table, Entry, PersonsHolding, Holders, IsPerson, Absent
  <1> HIDE DEF c
  <1> QED BY <1>2, <1>3, <1>4, <1>5, <1>6 DEF Good, LocalState, FreeFor

\* The person that find_named_client returns is the only holder.
LEMMA OnlyHolder ==
    ASSUME IInv, NEW s \in Server, NEW n, NEW v \in PersonsHolding(s, n), NEW u \in User
    PROVE  v \in User /\ FreeForBoth(Here(s), u, v, n)
  BY DEF IInv, NickUnique, PersonsHolding, Holders, IsPerson, FreeForBoth, Here

\* What TypeOK says of the variables a handler leaves to its caller.
RestOK ==
    /\ now \in Nat
    /\ used \subseteq User
    /\ claims \subseteq User \X Nick \X Nat
    /\ known \in [Server -> SUBSET Server]
    /\ est \in [Server -> SUBSET Server]
    /\ {renames, splits, kills} \subseteq Nat

\* A handler that is steady leaves the other parts typed.
LEMMA SteadyRest ==
    ASSUME TypeOK, Steady
    PROVE  RestOK'
  BY DEF TypeOK, Steady, RestOK

\* A handler that leaves its server sound leaves the network sound.
LEMMA SoundChange ==
    ASSUME IInv, RestOK', NEW s \in Server, NEW L, Good(s, L),
           client' = [client EXCEPT ![s] = L.client],
           nd' = [nd EXCEPT ![s] = L.nd],
           chan' \in [Edge -> Seq(Message)]
    PROVE  IInv'
  <1>1. /\ client \in [Server -> Table] /\ nd \in [Server -> SUBSET Name]
        /\ L.client \in Table /\ L.nd \in SUBSET Name
        /\ Distinct(L.client) /\ Clear(L.client, L.nd)
    BY DEF IInv, TypeOK, Good, LocalState
  <1>2. /\ client'[s] = L.client /\ nd'[s] = L.nd
        /\ \A t \in Server \ {s} : client'[t] = client[t] /\ nd'[t] = nd[t]
    BY <1>1
  <1>3. TypeOK'
    <2>1. \A t \in Server : Local(t) \cap nd'[t] = {}
      BY <1>2 DEF IInv, TypeOK, Good
    <2>2. client' \in [Server -> Table] /\ nd' \in [Server -> SUBSET Name]
      BY <1>1
    <2>3. \A t \in Server : Local(t)' = Local(t)
      BY DEF Local
    <2> QED BY <2>1, <2>2, <2>3 DEF TypeOK, RestOK
  <1>4. NickUnique'
    BY <1>1, <1>2 DEF IInv, NickUnique, Distinct
  <1>5. HeldNotDelayed'
    BY <1>1, <1>2 DEF IInv, HeldNotDelayed, Clear
  <1> QED BY <1>3, <1>4, <1>5 DEF IInv

\* Queues stay sequences of messages when typed output is appended.
LEMMA TransmitTyped ==
    ASSUME NEW s, NEW q \in [Edge -> Seq(Message)], NEW out \in [Server -> Seq(Message)]
    PROVE  Transmit(s, q, out) \in [Edge -> Seq(Message)]
  <1>1. \A e \in Edge : e[2] \in Server
    BY DEF Edge
  <1>2. \A e \in Edge : q[e] \in Seq(Message) /\ out[e[2]] \in Seq(Message)
    BY <1>1
  <1>3. \A e \in Edge : q[e] \o out[e[2]] \in Seq(Message)
    BY <1>2
  <1> QED BY <1>2, <1>3 DEF Transmit

\* And when their first message is read.
LEMMA TailTyped ==
    ASSUME TypeOK, NEW e \in Edge, chan[e] # <<>>
    PROVE  /\ [chan EXCEPT ![e] = Tail(@)] \in [Edge -> Seq(Message)]
           /\ Head(chan[e]) \in Message
  BY DEF TypeOK

\* An event of its own that leaves its server sound keeps the invariant.
LEMMA CommitGood ==
    ASSUME IInv, RestOK', NEW s \in Server, NEW L, Good(s, L), Commit(s, L)
    PROVE  IInv'
  <1>1. chan \in [Edge -> Seq(Message)] /\ L.out \in [Server -> Seq(Message)]
    BY DEF IInv, TypeOK, Good, LocalState
  <1>2. chan' \in [Edge -> Seq(Message)]
    BY <1>1, TransmitTyped DEF Commit
  <1> QED BY <1>2, SoundChange DEF Commit

\* So does the handling of a message.
LEMMA CommitFromGood ==
    ASSUME IInv, RestOK', NEW s \in Server, NEW t, <<t, s>> \in Edge, chan[<<t, s>>] # <<>>,
           NEW L, Good(s, L), CommitFrom(s, t, L)
    PROVE  IInv'
  <1>1. /\ [chan EXCEPT ![<<t, s>>] = Tail(@)] \in [Edge -> Seq(Message)]
        /\ L.out \in [Server -> Seq(Message)]
    BY TailTyped DEF IInv, Good, LocalState
  <1>2. chan' \in [Edge -> Seq(Message)]
    BY <1>1, TransmitTyped DEF CommitFrom
  <1> QED BY <1>2, SoundChange DEF CommitFrom

-----------------------------------------------------------------------------
(* Clients.                                                                *)

\* The empty network satisfies the invariant.
LEMMA InitGood == Init => IInv
  <1> SUFFICES ASSUME Init PROVE IInv
    OBVIOUS
  <1>1. [u \in User |-> Absent] \in Table
    BY DEF Table, Entry, Absent
  <1>2. TypeOK
    BY <1>1 DEF Init, TypeOK
  <1>3. NickUnique /\ HeldNotDelayed
    BY DEF Init, NickUnique, HeldNotDelayed, Absent
  <1> QED BY <1>2, <1>3 DEF IInv

\* mr_nick takes only a nick that is free and not held back.
LEMMA MrNickGood ==
    ASSUME IInv, NEW u \in User, NEW n \in Nick, MrNick(u, n)
    PROVE  IInv'
  <1> DEFINE s == Home[u]
             e == [on |-> "unknown", nick |-> n, ts |-> CurrentTime(s)]
             L == Store(Here(s), u, e)
  <1>1. s \in Server /\ n \in NameFor(u)
    BY UserAssumption DEF NameFor
  <1>2. CurrentTime(s) \in Nat
    BY <1>1, ClockTyped DEF IInv
  <1>3. Good(s, Here(s)) /\ FreeFor(Here(s), u, n)
    BY <1>1, HereGood DEF MrNick, Holders, FreeFor, Here
  <1>4. Good(s, L)
    BY <1>1, <1>2, <1>3, StoreGood
  <1>5. client' = [client EXCEPT ![s] = L.client]
    BY <1>1 DEF MrNick, Store, Here, IInv, TypeOK
  <1>6. nd' = [nd EXCEPT ![s] = L.nd]
    BY <1>1 DEF MrNick, Store, Here, IInv, TypeOK
  <1>7. RestOK'
    BY <1>2 DEF MrNick, RestOK, IInv, TypeOK
  <1>8. chan' \in [Edge -> Seq(Message)]
    BY DEF MrNick, IInv, TypeOK
  <1> HIDE DEF L
  <1> QED BY <1>1, <1>4, <1>5, <1>6, <1>7, <1>8, SoundChange

\* Registration keeps the nick the connection has.
LEMMA RegisterGood ==
    ASSUME IInv, NEW u \in User, Register(u)
    PROVE  IInv'
  <1> DEFINE s == Home[u]
             e == client[s][u]
             m == [type |-> "UID", u |-> u, nick |-> e.nick, ts |-> e.ts]
             M == [Here(s) EXCEPT !.client[u].on = "person"]
             c == [client[s] EXCEPT ![u] = [on |-> "person", nick |-> e.nick, ts |-> e.ts]]
  <1>1. s \in Server /\ Good(s, Here(s))
    BY UserAssumption, HereGood
  <1>2. /\ e.on = "unknown" /\ e.ts \in Nat /\ e.nick \in NameFor(u) /\ e \in Entry
        /\ client[s] \in Table
    BY <1>1, NameFacts DEF Register, IInv, TypeOK, Table, Entry, Absent
  <1>3. [e EXCEPT !.on = "person"] = [on |-> "person", nick |-> e.nick, ts |-> e.ts]
    BY <1>2 DEF Entry
  <1>4. M = [client |-> c, nd |-> nd[s], out |-> Here(s).out]
    <2>1. M = [Here(s) EXCEPT !.client = [client[s] EXCEPT ![u] = [e EXCEPT !.on = "person"]]]
      BY DEF Here
    <2>2. M = [Here(s) EXCEPT !.client = c]
      BY <1>3, <2>1
    <2> HIDE DEF M, c
    <2> QED BY <1>1, <2>2, Update DEF Good, Here
  <1>5. Good(s, M)
    <2>1. c \in Table
      BY <1>2, NameFacts DEF Table, Entry
    <2>2. Distinct(c) /\ Clear(c, nd[s])
      BY <1>1, <1>2 DEF IInv, NickUnique, HeldNotDelayed, Distinct, Clear, Table
    <2>3. nd[s] \in SUBSET Name /\ Local(s) \cap nd[s] = {} /\ Here(s).out \in [Server -> Seq(Message)]
      BY <1>1 DEF Good, LocalState, Here
    <2> HIDE DEF c, M
    <2> QED BY <1>4, <2>1, <2>2, <2>3 DEF Good, LocalState
  <1>6. m \in Message
    BY <1>2, BuiltMessages
  <1>7. Commit(s, SendTo(M, est[s], m)) /\ RestOK'
    BY SteadyRest DEF Register, IInv
  <1> HIDE DEF M, m
  <1> QED BY <1>1, <1>5, <1>6, <1>7, SendToGood, CommitGood

\* An unregistered exit only frees a nick.
LEMMA ExitUnknownGood ==
    ASSUME IInv, NEW u \in User, ExitUnknown(u)
    PROVE  IInv'
  <1> DEFINE s == Home[u]
             L == Drop(Here(s), u)
  <1>1. s \in Server /\ Good(s, Here(s))
    BY UserAssumption, HereGood
  <1>2. Good(s, L)
    BY <1>1, DropGood
  <1>3. L.client = [client[s] EXCEPT ![u] = Absent] /\ L.nd = nd[s]
    BY DEF Drop, Here
  <1>4. client' = [client EXCEPT ![s] = L.client] /\ nd' = [nd EXCEPT ![s] = L.nd]
    BY <1>1, <1>3 DEF ExitUnknown, IInv, TypeOK
  <1>5. RestOK' /\ chan' \in [Edge -> Seq(Message)]
    BY SteadyRest DEF ExitUnknown, IInv, TypeOK
  <1> HIDE DEF L
  <1> QED BY <1>1, <1>2, <1>4, <1>5, SoundChange

\* m_nick throws out the unregistered holder before it takes the nick.
LEMMA MNickGood ==
    ASSUME IInv, NEW u \in User, NEW n \in Nick, MNick(u, n)
    PROVE  IInv'
  <1> DEFINE s == Home[u]
             others == Holders(client[s], n)
             ts == CurrentTime(s)
             c == [v \in User |-> IF v \in others THEN Absent ELSE client[s][v]]
             L == [Here(s) EXCEPT !.client = c]
             m == [type |-> "NICK", u |-> u, nick |-> n, ts |-> ts]
             M == SendTo(L, est[s], m)
  <1>1. s \in Server /\ Good(s, Here(s)) /\ ts \in Nat /\ n \in NameFor(u)
    BY UserAssumption, HereGood, ClockTyped DEF IInv, NameFor
  <1>2. L = [client |-> c, nd |-> nd[s], out |-> Here(s).out]
    <2> HIDE DEF c
    <2> QED BY <1>1, Update DEF Good, Here
  <1>3. c \in Table
    <2>1. client[s] \in Table
      BY <1>1 DEF IInv, TypeOK
    <2>2. \A w \in User : c[w] = Absent \/ c[w] = client[s][w]
      OBVIOUS
    <2>3. Absent \in Entry
      BY DEF Absent, Entry
    <2> QED BY <2>1, <2>2, <2>3 DEF Table
  <1>4. Distinct(c) /\ Clear(c, nd[s])
    <2>1. \A w \in User : c[w].on # "absent" => c[w] = client[s][w]
      BY DEF Absent
    <2> HIDE DEF c
    <2> QED BY <1>1, <2>1 DEF IInv, NickUnique, HeldNotDelayed, Distinct, Clear
  <1>5. \A w \in User : c[w].on # "absent" => c[w].nick # n
    BY DEF Holders, Absent
  <1>6. nd[s] \in SUBSET Name /\ Local(s) \cap nd[s] = {} /\ Here(s).out \in [Server -> Seq(Message)]
    BY <1>1 DEF Good, LocalState, Here
  <1> HIDE DEF c
  <1>7. Good(s, L) /\ FreeFor(L, u, n)
    BY <1>2, <1>3, <1>4, <1>5, <1>6 DEF Good, LocalState, FreeFor
  <1> HIDE DEF L
  <1>8. m \in Message
    BY <1>1, BuiltMessages
  <1>9. Good(s, M) /\ M.client = L.client
    BY <1>7, <1>8, SendToGood
  <1>10. FreeFor(M, u, n)
    BY <1>7, <1>9 DEF FreeFor
  <1>11. Commit(s, Rename(M, u, n, ts))
    <2>1. Commit(s, ChangeLocalNick(M, u, n, ts)) /\ n \notin nd[s]
      BY DEF MNick, M, L, c, Here
    <2>2. M.nd = nd[s]
      BY <1>2, <1>7, <1>8, SendToGood DEF M
    <2> QED BY <2>1, <2>2, LocalNick
  <1>12. RestOK'
    BY <1>1 DEF MNick, RestOK, IInv, TypeOK
  <1> HIDE DEF M
  <1>13. Good(s, Rename(M, u, n, ts))
    BY <1>1, <1>9, <1>10, RenameGood
  <1> QED BY <1>1, <1>11, <1>12, <1>13, CommitGood

\* QUIT only frees a nick.
LEMMA QuitGood ==
    ASSUME IInv, NEW u \in User, Quit(u)
    PROVE  IInv'
  <1> DEFINE s == Home[u]
             M == SendTo(Here(s), est[s], [type |-> "QUIT", u |-> u])
  <1>1. s \in Server /\ Good(s, Here(s))
    BY UserAssumption, HereGood
  <1>2. Good(s, M)
    BY <1>1, BuiltMessages, SendToGood
  <1>3. Commit(s, Drop(M, u)) /\ RestOK'
    BY SteadyRest DEF Quit, IInv
  <1> HIDE DEF M
  <1> QED BY <1>1, <1>2, <1>3, DropGood, CommitGood

\* So does an operator's KILL.
LEMMA MoKillGood ==
    ASSUME IInv, NEW o \in User, NEW v \in User, MoKill(o, v)
    PROVE  IInv'
  <1> DEFINE s == Home[o]
             m == IF Home[v] = s THEN [type |-> "QUIT", u |-> v]
                                 ELSE [type |-> "KILL", u |-> v, src |-> o]
             M == SendTo(Here(s), est[s], m)
  <1>1. s \in Server /\ Good(s, Here(s))
    BY UserAssumption, HereGood
  <1>2. m \in Message
    BY BuiltMessages
  <1> HIDE DEF m
  <1>3. Good(s, M)
    BY <1>1, <1>2, SendToGood
  <1>4. Commit(s, Drop(M, v))
    BY DEF MoKill, m
  <1>5. RestOK'
    BY DEF MoKill, RestOK, IInv, TypeOK
  <1> HIDE DEF M
  <1> QED BY <1>1, <1>3, <1>4, <1>5, DropGood, CommitGood

\* So does the expiry of a delay entry.
LEMMA ExpireNdGood ==
    ASSUME IInv, NEW s \in Server, ExpireNd(s)
    PROVE  IInv'
  <1>1. PICK n \in nd[s] : nd' = [nd EXCEPT ![s] = @ \ {n}]
    BY DEF ExpireNd
  <1>2. nd' \in [Server -> SUBSET Name] /\ \A x \in Server : nd'[x] \subseteq nd[x]
    BY <1>1 DEF IInv, TypeOK
  <1>3. TypeOK'
    BY <1>2 DEF ExpireNd, Steady, IInv, TypeOK
  <1> QED BY <1>2, <1>3 DEF ExpireNd, IInv, NickUnique, HeldNotDelayed

-----------------------------------------------------------------------------
(* Messages from a peer.                                                   *)

\* What is known when s handles a message of some type from t.
LEMMA FirstGood ==
    ASSUME IInv, NEW s \in Server, NEW t \in Server, NEW type, First(s, t, type)
    PROVE  /\ <<t, s>> \in Edge /\ chan[<<t, s>>] # <<>>
           /\ Msg(s, t) \in Message /\ Msg(s, t).type = type
           /\ Good(s, Here(s))
  <1>1. <<t, s>> \in Edge /\ chan[<<t, s>>] # <<>> /\ Msg(s, t).type = type
    BY DEF First, Msg
  <1>2. Msg(s, t) \in Message
    BY <1>1, TailTyped DEF IInv, Msg
  <1> QED BY <1>1, <1>2, HereGood

\* Answering an unknown prefix with a KILL changes no table.
LEMMA UnknownPrefixGood ==
    ASSUME IInv, RestOK', NEW s \in Server, NEW t \in Server,
           <<t, s>> \in Edge, chan[<<t, s>>] # <<>>, NEW u \in User, UnknownPrefix(s, t, u)
    PROVE  IInv'
  <1>1. Good(s, Here(s))
    BY HereGood
  <1>2. Good(s, KillBack(Here(s), s, t, u))
    <2> DEFINE ts == 0
    <2> QED BY <1>1, BackGood
  <1> QED BY <1>2, CommitFromGood DEF UnknownPrefix

\* Each of the seven outcomes of an introduction keeps the invariant.
LEMMA MsUidGood ==
    ASSUME IInv, NEW s \in Server, NEW t \in Server, MsUid(s, t)
    PROVE  IInv'
  <1> DEFINE u == Msg(s, t).u
             n == Msg(s, t).nick
             ts == Msg(s, t).ts
             L == Here(s)
  <1>1. /\ <<t, s>> \in Edge /\ chan[<<t, s>>] # <<>> /\ Good(s, L)
        /\ u \in User /\ n \in NameFor(u) /\ ts \in Nat /\ u \in NameFor(u)
    BY FirstGood, ReadMessages, NameFacts DEF MsUid
  <1>2. RestOK'
    BY SteadyRest DEF MsUid, IInv
  <1>3. \E M : Good(s, M) /\ CommitFrom(s, t, M)
    <2>2. CASE PersonsHolding(s, n) = {} /\
               CommitFrom(s, t, Introduce(Overridden(s, n), s, t, u, n, ts))
      BY <1>1, <2>2, OverriddenGood, IntroduceGood
    <2>3. ASSUME NEW v \in PersonsHolding(s, n)
          PROVE  /\ Good(s, Introduce(SaveBack(SaveUser(L, s, s, v), t, u, ts), s, t, u, u, ts))
                 /\ Good(s, KillEverywhere(KillBack(L, s, t, u), s, v))
                 /\ Good(s, Introduce(SaveBack(L, t, u, ts), s, t, u, u, ts))
                 /\ Good(s, KillBack(L, s, t, u))
                 /\ Good(s, Introduce(SaveUser(L, s, s, v), s, t, u, n, ts))
                 /\ Good(s, Introduce(KillEverywhere(L, s, v), s, t, u, n, ts))
      <3>1. v \in User /\ FreeForBoth(L, u, v, n)
        BY <1>1, OnlyHolder
      <3>2. n \in Name /\ TypeOK
        BY <1>1, NameFacts DEF IInv
      <3>3. Good(s, SaveUser(L, s, s, v)) /\ FreeFor(SaveUser(L, s, s, v), u, n)
        BY <1>1, <3>1, <3>2, SaveUserGood
      <3>4. Good(s, KillEverywhere(L, s, v)) /\ FreeFor(KillEverywhere(L, s, v), u, n)
        BY <1>1, <3>1, <3>2, KillEverywhereGood
      <3>5. Good(s, KillBack(L, s, t, u)) /\ Good(s, SaveBack(L, t, u, ts))
        BY <1>1, BackGood
      <3>6. Good(s, SaveBack(SaveUser(L, s, s, v), t, u, ts))
        BY <1>1, <3>3, BackGood
      <3>7. Good(s, KillEverywhere(KillBack(L, s, t, u), s, v))
        BY <3>1, <3>5, KillEverywhereGood
      <3>8. /\ Good(s, Introduce(SaveBack(SaveUser(L, s, s, v), t, u, ts), s, t, u, u, ts))
            /\ Good(s, Introduce(SaveBack(L, t, u, ts), s, t, u, u, ts))
        BY <1>1, <3>5, <3>6, UidFree, IntroduceGood
      <3>9. /\ Good(s, Introduce(SaveUser(L, s, s, v), s, t, u, n, ts))
            /\ Good(s, Introduce(KillEverywhere(L, s, v), s, t, u, n, ts))
        BY <1>1, <3>3, <3>4, IntroduceGood
      <3> QED BY <3>5, <3>7, <3>8, <3>9
    <2> QED BY <2>2, <2>3 DEF MsUid
  <1> QED BY <1>1, <1>2, <1>3, CommitFromGood

\* Each of the nine outcomes of a remote nick change keeps the invariant.
LEMMA McNickGood ==
    ASSUME IInv, NEW s \in Server, NEW t \in Server, McNick(s, t)
    PROVE  IInv'
  <1> DEFINE u == Msg(s, t).u
             n == Msg(s, t).nick
             ts == Msg(s, t).ts
             L == Here(s)
  <1>1. /\ <<t, s>> \in Edge /\ chan[<<t, s>>] # <<>> /\ Good(s, L)
        /\ u \in User /\ n \in NameFor(u) /\ ts \in Nat /\ u \in NameFor(u)
    BY FirstGood, ReadMessages, NameFacts DEF McNick
  <1>2. RestOK' /\ TypeOK /\ n \in Name
    BY <1>1, SteadyRest, NameFacts DEF McNick, IInv
  <1>3. CASE UnknownPrefix(s, t, u)
    BY <1>1, <1>2, <1>3, UnknownPrefixGood
  <1>4. ASSUME ~UnknownPrefix(s, t, u)
        PROVE  \E M : Good(s, M) /\ CommitFrom(s, t, M)
    <2>1. PersonsHolding(s, n) = {} => Good(s, ChangeRemoteNick(Overridden(s, n), s, t, u, n, ts))
      BY <1>1, OverriddenGood, ChangeRemoteNickGood
    <2>2. ASSUME NEW v \in PersonsHolding(s, n) \ {u}
          PROVE  /\ Good(s, ForceUidNick(SaveBack(SaveUser(L, s, s, v), t, u, ts), s, t, u))
                 /\ Good(s, KillEverywhere(KillEverywhere(L, s, u), s, v))
                 /\ Good(s, ForceUidNick(SaveBack(L, t, u, ts), s, t, u))
                 /\ Good(s, KillEverywhere(L, s, u))
                 /\ Good(s, ChangeRemoteNick(SaveUser(L, s, s, v), s, t, u, n, ts))
                 /\ Good(s, ChangeRemoteNick(KillEverywhere(L, s, v), s, t, u, n, ts))
      <3>1. v \in User /\ FreeForBoth(L, u, v, n)
        BY <1>1, OnlyHolder
      <3>2. Good(s, SaveUser(L, s, s, v)) /\ FreeFor(SaveUser(L, s, s, v), u, n)
        BY <1>1, <1>2, <3>1, SaveUserGood
      <3>3. /\ Good(s, KillEverywhere(L, s, v)) /\ FreeFor(KillEverywhere(L, s, v), u, n)
            /\ Good(s, KillEverywhere(L, s, u))
        BY <1>1, <1>2, <3>1, KillEverywhereGood
      <3>4. Good(s, KillEverywhere(KillEverywhere(L, s, u), s, v))
        BY <3>1, <3>3, KillEverywhereGood
      <3>5. Good(s, SaveBack(L, t, u, ts)) /\ Good(s, SaveBack(SaveUser(L, s, s, v), t, u, ts))
        BY <1>1, <3>2, BackGood
      <3>6. /\ Good(s, ForceUidNick(SaveBack(SaveUser(L, s, s, v), t, u, ts), s, t, u))
            /\ Good(s, ForceUidNick(SaveBack(L, t, u, ts), s, t, u))
        BY <1>1, <1>2, <3>5, ForceUidNickGood
      <3>7. /\ Good(s, ChangeRemoteNick(SaveUser(L, s, s, v), s, t, u, n, ts))
            /\ Good(s, ChangeRemoteNick(KillEverywhere(L, s, v), s, t, u, n, ts))
        BY <1>1, <3>2, <3>3, ChangeRemoteNickGood
      <3> QED BY <3>3, <3>4, <3>6, <3>7
    <2> QED BY <1>1, <1>4, <2>1, <2>2 DEF McNick
  <1> QED BY <1>1, <1>2, <1>3, <1>4, CommitFromGood

\* A SAVE keeps the invariant, obeyed or not.
LEMMA MsSaveGood ==
    ASSUME IInv, NEW s \in Server, NEW t \in Server, MsSave(s, t)
    PROVE  IInv'
  <1> DEFINE v == Msg(s, t).u
  <1>1. <<t, s>> \in Edge /\ chan[<<t, s>>] # <<>> /\ Good(s, Here(s)) /\ v \in User
    BY FirstGood, ReadMessages DEF MsSave
  <1>2. RestOK' /\ TypeOK
    BY SteadyRest DEF MsSave, IInv
  <1>3. Good(s, SaveUser(Here(s), s, t, v))
    BY <1>1, <1>2, SaveUserGood
  <1>4. \E M : Good(s, M) /\ CommitFrom(s, t, M)
    BY <1>1, <1>3 DEF MsSave
  <1> QED BY <1>1, <1>2, <1>4, CommitFromGood

\* A remote QUIT keeps the invariant.
LEMMA MsQuitGood ==
    ASSUME IInv, NEW s \in Server, NEW t \in Server, MsQuit(s, t)
    PROVE  IInv'
  <1> DEFINE u == Msg(s, t).u
             M == SendTo(Here(s), est[s] \ {t}, Msg(s, t))
  <1>1. /\ <<t, s>> \in Edge /\ chan[<<t, s>>] # <<>> /\ Good(s, Here(s))
        /\ u \in User /\ Msg(s, t) \in Message
    BY FirstGood, ReadMessages DEF MsQuit
  <1>2. RestOK'
    BY SteadyRest DEF MsQuit, IInv
  <1>3. Good(s, M)
    BY <1>1, SendToGood
  <1> HIDE DEF M
  <1>4. Good(s, Drop(M, u))
    BY <1>1, <1>3, DropGood
  <1>5. UnknownPrefix(s, t, u) \/ CommitFrom(s, t, Drop(M, u))
    BY DEF MsQuit, M
  <1> QED BY <1>1, <1>2, <1>4, <1>5, UnknownPrefixGood, CommitFromGood

\* A KILL from a server or an operator keeps the invariant.
LEMMA MsKillGood ==
    ASSUME IInv, NEW s \in Server, NEW t \in Server, MsKill(s, t)
    PROVE  IInv'
  <1> DEFINE v == Msg(s, t).u
             src == Msg(s, t).src
             M == SendTo(Here(s), est[s] \ {t}, Msg(s, t))
  <1>1. /\ <<t, s>> \in Edge /\ chan[<<t, s>>] # <<>> /\ Good(s, Here(s))
        /\ v \in User /\ Msg(s, t) \in Message
    BY FirstGood, ReadMessages DEF MsKill
  <1>2. RestOK'
    BY SteadyRest DEF MsKill, IInv
  <1>3. Good(s, M)
    BY <1>1, SendToGood
  <1> HIDE DEF M
  <1>4. Good(s, Drop(M, v))
    BY <1>1, <1>3, DropGood
  <1>5. \/ src \in User /\ UnknownPrefix(s, t, src)
        \/ CommitFrom(s, t, Here(s)) \/ CommitFrom(s, t, Drop(M, v))
    BY DEF MsKill, M
  <1> QED BY <1>1, <1>2, <1>4, <1>5, UnknownPrefixGood, CommitFromGood

-----------------------------------------------------------------------------
(* Links.                                                                  *)

\* The orders in which a finite set can be listed are sequences over it.
LEMMA ListingTyped ==
    ASSUME NEW T, IsFiniteSet(T), NEW q \in SetToSeqs(T)
    PROVE  q \in Seq(T)
  <1>1. Cardinality(T) \in Nat
    BY FS_CardinalityType
  <1>2. q \in [1..Cardinality(T) -> T]
    BY DEF SetToSeqs
  <1> QED BY <1>1, <1>2

\* A burst is a sequence of messages.
LEMMA BurstTyped ==
    ASSUME IInv, NEW s \in Server, NEW sids \in SetToSeqs(known[s]),
           NEW uids \in SetToSeqs(Persons(s))
    PROVE  Burst(s, sids, uids) \in Seq(Message)
  <1> DEFINE a == [i \in 1..Len(sids) |-> [type |-> "SID", sid |-> sids[i]]]
             b == [i \in 1..Len(uids) |-> [type |-> "UID", u |-> uids[i],
                                           nick |-> client[s][uids[i]].nick,
                                           ts |-> client[s][uids[i]].ts]]
  <1>1. known[s] \subseteq Server /\ Persons(s) \subseteq User
    BY DEF IInv, TypeOK, Persons
  <1>2. sids \in Seq(known[s]) /\ uids \in Seq(Persons(s))
    BY <1>1, ListingTyped, FiniteAssumption, FS_Subset
  <1>3. a \in Seq(Message)
    <2>1. \A i \in 1..Len(sids) : sids[i] \in Server
      BY <1>1, <1>2
    <2>2. \A i \in 1..Len(sids) : [type |-> "SID", sid |-> sids[i]] \in Message
      BY <2>1, BuiltMessages
    <2> QED BY <1>2, <2>2
  <1>4. b \in Seq(Message)
    <2>1. \A x \in Persons(s) :
            /\ x \in User /\ client[s][x].nick \in NameFor(x) /\ client[s][x].ts \in Nat
      BY <1>1 DEF IInv, TypeOK, Table, Entry, Persons, IsPerson, Absent
    <2>2. \A i \in 1..Len(uids) : uids[i] \in Persons(s)
      BY <1>2
    <2>3. \A i \in 1..Len(uids) : b[i] \in Message
      BY <2>1, <2>2, BuiltMessages
    <2> QED BY <1>2, <2>3
  <1> HIDE DEF a, b
  <1>5. a \o b \in Seq(Message)
    BY <1>3, <1>4
  <1> QED BY <1>5 DEF Burst, a, b

\* Establishing a link changes no table.
LEMMA ServerEstabGood ==
    ASSUME IInv, NEW s \in Server, NEW t \in Server, NEW hello \in Seq(Message), NEW listening,
           NEW queues \in [Edge -> Seq(Message)], ServerEstab(s, t, hello, listening, queues),
           UNCHANGED <<now, client, nd, used, claims, renames, splits, kills>>
    PROVE  IInv'
  <1> DEFINE out == [p \in Server |-> IF p \in est[s] THEN <<[type |-> "SID", sid |-> t]>> ELSE <<>>]
             q == Transmit(s, queues, out)
  <1>1. PICK sids \in SetToSeqs(known[s]), uids \in SetToSeqs(Persons(s)) :
          chan' = [q EXCEPT ![<<s, t>>] = IF listening THEN hello \o Burst(s, sids, uids) ELSE @]
    BY DEF ServerEstab
  <1>2. out \in [Server -> Seq(Message)]
    <2> DEFINE m == [type |-> "SID", sid |-> t]
    <2>1. m \in Message
      BY BuiltMessages
    <2> HIDE DEF m
    <2>2. <<m>> \in Seq(Message) /\ <<>> \in Seq(Message)
      BY <2>1
    <2>3. out = [p \in Server |-> IF p \in est[s] THEN <<m>> ELSE <<>>]
      BY DEF m
    <2> QED BY <2>2, <2>3
  <1> HIDE DEF out
  <1>3. q \in [Edge -> Seq(Message)]
    BY <1>2, TransmitTyped
  <1>4. hello \o Burst(s, sids, uids) \in Seq(Message)
    BY BurstTyped
  <1> HIDE DEF q
  <1>5. chan' \in [Edge -> Seq(Message)]
    BY <1>1, <1>3, <1>4
  <1>6. est' \in [Server -> SUBSET Server] /\ known' \in [Server -> SUBSET Server]
    BY DEF ServerEstab, IInv, TypeOK
  <1> QED BY <1>5, <1>6 DEF IInv, TypeOK, NickUnique, HeldNotDelayed

\* Accepting a link keeps the invariant.
LEMMA AcceptLinkGood ==
    ASSUME IInv, NEW s \in Server, NEW t \in Server, AcceptLink(s, t)
    PROVE  IInv'
  <1>1. <<[type |-> "SERVER"]>> \in Seq(Message)
    BY BuiltMessages
  <1>2. chan \in [Edge -> Seq(Message)]
    BY DEF IInv, TypeOK
  <1> QED BY <1>1, <1>2, ServerEstabGood DEF AcceptLink

\* So does reading the accepter's SERVER.
LEMMA MrServerGood ==
    ASSUME IInv, NEW s \in Server, NEW t \in Server, MrServer(s, t)
    PROVE  IInv'
  <1>1. <<t, s>> \in Edge /\ chan[<<t, s>>] # <<>>
    BY DEF MrServer
  <1>2. [chan EXCEPT ![<<t, s>>] = Tail(@)] \in [Edge -> Seq(Message)]
    BY <1>1, TailTyped DEF IInv
  <1>3. <<>> \in Seq(Message)
    OBVIOUS
  <1> QED BY <1>2, <1>3, ServerEstabGood DEF MrServer

\* So does learning of a server behind the peer.
LEMMA MsSidGood ==
    ASSUME IInv, NEW s \in Server, NEW t \in Server, MsSid(s, t)
    PROVE  IInv'
  <1> DEFINE M == SendTo(Here(s), est[s] \ {t}, Msg(s, t))
  <1>1. /\ <<t, s>> \in Edge /\ chan[<<t, s>>] # <<>> /\ Good(s, Here(s))
        /\ Msg(s, t) \in Message /\ Msg(s, t).sid \in Server
    BY FirstGood, ReadMessages DEF MsSid
  <1>2. RestOK'
    BY <1>1 DEF MsSid, RestOK, IInv, TypeOK
  <1>3. Good(s, M)
    BY <1>1, SendToGood
  <1>4. CommitFrom(s, t, M)
    BY DEF MsSid
  <1> HIDE DEF M
  <1> QED BY <1>1, <1>2, <1>3, <1>4, CommitFromGood

\* A SQUIT keeps the invariant.
LEMMA MsSquitGood ==
    ASSUME IInv, NEW s \in Server, NEW t \in Server, MsSquit(s, t)
    PROVE  IInv'
  <1> DEFINE lost == Lost(s, Msg(s, t).sid)
             M == SendTo(Forget(Here(s), lost), est[s] \ {t}, Msg(s, t))
  <1>1. /\ <<t, s>> \in Edge /\ chan[<<t, s>>] # <<>> /\ Good(s, Here(s))
        /\ Msg(s, t) \in Message
    BY FirstGood DEF MsSquit
  <1>2. known' = known \/ known' = [known EXCEPT ![s] = @ \ lost]
    BY DEF MsSquit
  <1>3. RestOK'
    BY <1>2 DEF MsSquit, RestOK, IInv, TypeOK
  <1>4. CommitFrom(s, t, Here(s)) \/ CommitFrom(s, t, M)
    BY DEF MsSquit
  <1>5. s \notin lost
    BY NotLost
  <1> HIDE DEF lost
  <1>6. Good(s, M)
    BY <1>1, <1>5, ForgetGood, SendToGood
  <1> HIDE DEF M
  <1> QED BY <1>1, <1>3, <1>4, <1>6, CommitFromGood

\* Closing a link keeps the invariant, in the middle of a burst too.
LEMMA CloseLinkGood ==
    ASSUME IInv, NEW s \in Server, NEW t \in Server, CloseLink(s, t)
    PROVE  IInv'
  <1> DEFINE lost == IF t \in est[s] THEN Lost(s, t) ELSE {}
             tell == IF t \in est[s] THEN est[s] \ {t} ELSE {}
             m == [type |-> "SQUIT", sid |-> t]
             L == SendTo(Forget(Here(s), lost), tell, m)
  <1>1. m \in Message /\ Good(s, Here(s)) /\ s \notin lost
    BY BuiltMessages, HereGood, NotLost
  <1> HIDE DEF lost, tell, m
  <1>2. Good(s, L)
    BY <1>1, ForgetGood, SendToGood
  <1>3. /\ client' = [client EXCEPT ![s] = L.client]
        /\ nd' = [nd EXCEPT ![s] = L.nd]
        /\ known' = [known EXCEPT ![s] = @ \ lost]
        /\ chan' = [Transmit(s, chan, L.out) EXCEPT ![<<t, s>>] = <<>>]
    BY DEF CloseLink, lost, tell, m
  <1> HIDE DEF L
  <1>4. chan \in [Edge -> Seq(Message)] /\ L.out \in [Server -> Seq(Message)]
    BY <1>2 DEF IInv, TypeOK, Good, LocalState
  <1>5. chan' \in [Edge -> Seq(Message)]
    <2>1. Transmit(s, chan, L.out) \in [Edge -> Seq(Message)]
      BY <1>4, TransmitTyped
    <2>2. <<>> \in Seq(Message)
      OBVIOUS
    <2> QED BY <1>3, <2>1, <2>2
  <1>6. RestOK'
    BY <1>3 DEF CloseLink, RestOK, IInv, TypeOK
  <1> QED BY <1>2, <1>3, <1>5, <1>6, SoundChange

-----------------------------------------------------------------------------

\* The clock touches no table.
LEMMA TickGood ==
    ASSUME IInv, Tick
    PROVE  IInv'
  BY DEF Tick, IInv, TypeOK, NickUnique, HeldNotDelayed

\* Every step preserves the inductive invariant.
LEMMA IInvStep == IInv /\ [Next]_vars => IInv'
  <1> SUFFICES ASSUME IInv, [Next]_vars PROVE IInv'
    OBVIOUS
  <1>1. CASE ClientStep
    BY <1>1, MrNickGood, MNickGood, RegisterGood, ExitUnknownGood, QuitGood, MoKillGood
       DEF ClientStep
  <1>2. ASSUME NEW s \in Server, NEW t \in Server, Receive(s, t)
        PROVE  IInv'
    BY <1>2, MrServerGood, MsSidGood, MsSquitGood, MsUidGood, McNickGood, MsSaveGood,
       MsQuitGood, MsKillGood DEF Receive
  <1>3. CASE UNCHANGED vars
    BY <1>3 DEF vars, IInv, TypeOK, NickUnique, HeldNotDelayed
  <1> QED
    BY <1>1, <1>2, <1>3, TickGood, ExpireNdGood, AcceptLinkGood, CloseLinkGood DEF Next

\* The inductive invariant holds in every reachable state.
LEMMA IInvHolds == Spec => []IInv
  BY InitGood, IInvStep, PTL DEF Spec

\* Every handler keeps every table and every message typed, and a UID is never
\* the nick of another client.
THEOREM TypeCorrect == Spec => []TypeOK
  BY IInvHolds, PTL DEF IInv

\* Whatever introductions, nick changes, collisions and splits a server sees,
\* no two clients hold one nick there (add_to_client_hash never makes a second
\* holder of a name).
THEOREM NickUniqueHolds == Spec => []NickUnique
  BY IInvHolds, PTL DEF IInv

\* A nick with a holder has no nick delay entry: register_client, set_initial_nick
\* and change_remote_nick all take it off, exit_remote_server adds it only once
\* its holder is gone.
THEOREM HeldNotDelayedHolds == Spec => []HeldNotDelayed
  BY IInvHolds, PTL DEF IInv

-----------------------------------------------------------------------------
(* The two sides of a link.                                                *)

\* The servers of e[2]'s side of a link are in every set that is closed but for it.
LEMMA SideIs ==
    ASSUME NEW e \in Edge, NEW C \in SUBSET Server, e[2] \in C,
           \A l \in Links \ {{e[1], e[2]}} : l \cap C # {} => l \subseteq C
    PROVE  Behind[e] \subseteq C
  BY DEF Behind

\* An edge can be taken in both directions, and joins two servers.
LEMMA EdgeFacts ==
    ASSUME NEW s, NEW t, <<s, t>> \in Edge
    PROVE  /\ <<t, s>> \in Edge /\ s \in Server /\ t \in Server /\ s # t
           /\ {s, t} \in Links
           /\ Behind[<<s, t>>] \subseteq Server
           /\ t \in Behind[<<s, t>>]
  <1>1. <<t, s>> \in Edge /\ s \in Server /\ t \in Server /\ {s, t} \in Links
    BY DEF Edge
  <1>2. s # t
    BY TreeAssumption
  <1>3. Behind[<<s, t>>] \subseteq Server /\ t \in Behind[<<s, t>>]
    BY <1>1 DEF Behind
  <1> QED BY <1>1, <1>2, <1>3

\* A side that a link cuts off, with the other end outside.
LEMMA Side ==
    ASSUME NEW s, NEW t, <<s, t>> \in Edge
    PROVE  \E C \in SUBSET Server :
              /\ t \in C /\ s \notin C /\ Behind[<<s, t>>] \subseteq C
              /\ \A l \in Links \ {{s, t}} : l \cap C # {} => l \subseteq C
  <1>1. PICK C \in SUBSET Server :
           /\ t \in C /\ s \notin C
           /\ \A l \in Links \ {{s, t}} : l \cap C # {} => l \subseteq C
    BY TreeAssumption
  <1>2. Behind[<<s, t>>] \subseteq C
    BY <1>1, SideIs
  <1> QED BY <1>1, <1>2

\* The two sides of one link have nothing in common.
LEMMA Opposite ==
    ASSUME NEW s, NEW t, <<s, t>> \in Edge
    PROVE  /\ Behind[<<s, t>>] \cap Behind[<<t, s>>] = {}
           /\ s \notin Behind[<<s, t>>]
  <1>1. PICK C \in SUBSET Server :
           /\ t \in C /\ s \notin C /\ Behind[<<s, t>>] \subseteq C
           /\ \A l \in Links \ {{s, t}} : l \cap C # {} => l \subseteq C
    BY Side
  <1> DEFINE D == Server \ C
  <1>2. \A l \in Links \ {{t, s}} : l \cap D # {} => l \subseteq D
    BY <1>1, LinkAssumption
  <1>3. s \in D /\ <<t, s>> \in Edge
    BY <1>1, EdgeFacts
  <1>4. Behind[<<t, s>>] \subseteq D
    <2> HIDE DEF D
    <2>1. D \in SUBSET Server
      BY DEF D
    <2> QED BY <1>2, <1>3, <2>1, SideIs
  <1> QED BY <1>1, <1>4

\* What is behind another neighbour of s is on s's side, and not on t's.
LEMMA Beyond ==
    ASSUME NEW s, NEW t, NEW r, <<s, t>> \in Edge, <<s, r>> \in Edge, r # t
    PROVE  /\ Behind[<<s, r>>] \cap Behind[<<s, t>>] = {}
           /\ Behind[<<s, r>>] \subseteq Behind[<<t, s>>]
  <1>1. PICK K \in SUBSET Server :
           /\ r \in K /\ s \notin K /\ Behind[<<s, r>>] \subseteq K
           /\ \A l \in Links \ {{s, r}} : l \cap K # {} => l \subseteq K
    BY Side
  <1>2. PICK C \in SUBSET Server :
           /\ t \in C /\ s \notin C /\ Behind[<<s, t>>] \subseteq C
           /\ \A l \in Links \ {{s, t}} : l \cap C # {} => l \subseteq C
    BY Side
  <1>3. {s, t} \in Links /\ {s, r} \in Links /\ t \in Server /\ r \in Server
        /\ {s, t} # {s, r}
    BY EdgeFacts
  <1>4. t \notin K
    BY <1>1, <1>3
  <1> DEFINE D == C \ K
  <1>5. ASSUME NEW l \in Links \ {{s, t}}, l \cap D # {} PROVE l \subseteq D
    <2>1. l \subseteq C
      BY <1>2, <1>5
    <2>2. s \notin l
      BY <1>2, <2>1
    <2>3. l # {s, r}
      BY <2>2
    <2>4. l \cap K = {}
      BY <1>1, <1>5, <2>3
    <2> QED BY <2>1, <2>4
  <1>6. t \in D
    BY <1>2, <1>4
  <1>7. Behind[<<s, t>>] \subseteq D
    BY <1>5, <1>6, SideIs
  <1>8. ASSUME NEW y \in Behind[<<s, r>>] PROVE y \in Behind[<<t, s>>]
    <2>1. y \in Server /\ <<t, s>> \in Edge
      BY EdgeFacts
    <2>2. ASSUME NEW B \in SUBSET Server, s \in B,
                 \A l \in Links \ {{t, s}} : l \cap B # {} => l \subseteq B
          PROVE  y \in B
      <3> DEFINE E == B \cap K
      <3>1. ASSUME NEW l \in Links \ {{s, r}}, l \cap E # {} PROVE l \subseteq E
        <4>1. l \subseteq K
          BY <1>1, <3>1
        <4>2. l # {t, s}
          BY <1>1, <4>1
        <4> QED BY <2>2, <3>1, <4>1, <4>2
      <3>2. {s, r} \subseteq B
        BY <1>3, <2>2
      <3>3. r \in E
        BY <1>1, <3>2
      <3>4. Behind[<<s, r>>] \subseteq E
        BY <3>1, <3>3, SideIs
      <3> QED BY <3>4
    <2> QED BY <2>1, <2>2 DEF Behind
  <1> QED BY <1>1, <1>7, <1>8

\* What is behind a link that is behind another one, seen from s.
LEMMA Nested ==
    ASSUME NEW s, NEW t, <<s, t>> \in Edge, NEW e \in Edge, s \notin Behind[e],
           e[2] \in Behind[<<s, t>>]
    PROVE  Behind[e] \subseteq Behind[<<s, t>>]
  <1>1. e[1] \in Server /\ e[2] \in Server /\ e = <<e[1], e[2]>> /\ <<e[1], e[2]>> \in Edge
    BY DEF Edge
  <1>2. CASE {e[1], e[2]} = {s, t}
    <2>1. e[2] # s
      BY Opposite
    <2>2. e = <<s, t>>
      BY <1>1, <1>2, <2>1
    <2> QED BY <2>2
  <1>3. CASE {e[1], e[2]} # {s, t}
    <2>1. PICK D \in SUBSET Server :
             /\ e[2] \in D /\ s \notin D
             /\ \A l \in Links \ {{e[1], e[2]}} : l \cap D # {} => l \subseteq D
      <3>1. s \in Server
        BY EdgeFacts
      <3>2. ~(\A D \in SUBSET Server :
                (/\ e[2] \in D
                 /\ \A l \in Links \ {{e[1], e[2]}} : l \cap D # {} => l \subseteq D)
                => s \in D)
        BY <3>1 DEF Behind
      <3> QED BY <3>2
    <2>2. ASSUME NEW C \in SUBSET Server, t \in C,
                 \A l \in Links \ {{s, t}} : l \cap C # {} => l \subseteq C
          PROVE  Behind[e] \subseteq C
      <3>1. e[2] \in C
        BY <2>2, SideIs
      <3>2. ASSUME NEW l \in Links \ {{e[1], e[2]}}, l \cap (C \cap D) # {}
            PROVE  l \subseteq C \cap D
        <4>1. l \subseteq D
          BY <2>1, <3>2
        <4>2. l # {s, t}
          BY <2>1, <4>1
        <4> QED BY <2>2, <3>2, <4>1, <4>2
      <3>3. Behind[e] \subseteq C \cap D
        BY <2>1, <3>1, <3>2, SideIs
      <3> QED BY <3>3
    <2>3. Behind[e] \subseteq Server
      BY <1>1, EdgeFacts
    <2> QED BY <2>2, <2>3 DEF Behind
  <1> QED BY <1>2, <1>3

\* The first server on the way from s to x is the neighbour that x is behind.
LEMMA WayHop ==
    ASSUME NEW s, NEW t, <<s, t>> \in Edge, NEW y
    PROVE  t \in Way(s, y) <=> y \in Behind[<<s, t>>]
  <1>1. ASSUME y \in Behind[<<s, t>>] PROVE t \in Way(s, y)
    <2>1. s \notin Behind[<<s, t>>]
      BY Opposite
    <2> QED BY <1>1, <2>1 DEF Way
  <1>2. ASSUME t \in Way(s, y) PROVE y \in Behind[<<s, t>>]
    <2>1. PICK e \in Edge : e[2] = t /\ s \notin Behind[e] /\ y \in Behind[e]
      BY <1>2 DEF Way
    <2>2. t \in Behind[<<s, t>>]
      BY EdgeFacts
    <2> QED BY <2>1, <2>2, Nested
  <1> QED BY <1>1, <1>2

\* What is reached by way of a server behind t is behind t.
LEMMA WayIn ==
    ASSUME NEW s, NEW t, <<s, t>> \in Edge, NEW x \in Behind[<<s, t>>], NEW y, x \in Way(s, y)
    PROVE  y \in Behind[<<s, t>>]
  <1>1. PICK e \in Edge : e[2] = x /\ s \notin Behind[e] /\ y \in Behind[e]
    BY DEF Way
  <1> QED BY <1>1, Nested

\* From s the way to what is behind t goes on as from t.
LEMMA WayBeyond ==
    ASSUME NEW s, NEW t, <<s, t>> \in Edge, NEW y \in Behind[<<s, t>>], NEW x, x # t
    PROVE  x \in Way(s, y) <=> x \in Way(t, y)
  <1>1. y \notin Behind[<<t, s>>] /\ {s, t} \in Links /\ <<t, s>> \in Edge
    BY Opposite, EdgeFacts
  <1>2. ASSUME NEW e \in Edge, {e[1], e[2]} # {s, t}
        PROVE  s \in Behind[e] <=> t \in Behind[e]
    <2>1. {s, t} \in Links \ {{e[1], e[2]}} /\ s \in Server /\ t \in Server
      BY <1>1, <1>2, EdgeFacts
    <2> QED BY <2>1 DEF Behind
  <1>3. ASSUME NEW e \in Edge, e[2] = x, y \in Behind[e]
        PROVE  {e[1], e[2]} # {s, t}
    <2>1. e = <<e[1], e[2]>>
      BY DEF Edge
    <2>2. e # <<t, s>> /\ e # <<s, t>>
      BY <1>1, <1>3
    <2> QED BY <2>1, <2>2
  <1> QED BY <1>2, <1>3 DEF Way

\* Nothing lies on the way from a server to itself.
LEMMA NoWay ==
    ASSUME NEW s
    PROVE  Way(s, s) = {}
  BY DEF Way

\* A server behind t does not lie on the way to a neighbour, t or another.
LEMMA WayAside ==
    ASSUME NEW s, NEW t, <<s, t>> \in Edge, NEW r, <<s, r>> \in Edge,
           NEW x \in Behind[<<s, t>>], x # t \/ r # t
    PROVE  x \notin Way(s, r)
  <1> SUFFICES ASSUME x \in Way(s, r) PROVE FALSE
    OBVIOUS
  <1>1. r \in Behind[<<s, t>>] /\ r \in Behind[<<s, r>>]
    BY WayIn, EdgeFacts
  <1>2. r = t
    BY <1>1, Beyond
  <1>3. x \in Way(t, t)
    BY <1>1, <1>2, WayBeyond
  <1> QED BY <1>3, NoWay

-----------------------------------------------------------------------------
(* What a server has of one side of a link, and what a queue makes of it:  *)
(* the servers it knows there, and the users of whom it has been told      *)
(* since (some of them may be gone, or have been refused).                 *)

View == [srv : SUBSET Server, usr : SUBSET User]

NewServers(m, t) ==
    IF m.type = "SERVER" THEN {t} ELSE IF m.type = "SID" THEN {m.sid} ELSE {}

NewUsers(m) == IF m.type = "UID" THEN {m.u} ELSE {}

\* m cuts off the server y from s.
Cuts(s, m, y) == m.type = "SQUIT" /\ m.sid \in Way(s, y)

\* m from t makes sense to s, which has T: it tells of nobody whom s has, of users
\* only where s knows their server, and of no loss but that of a server s knows.
Fits(s, t, m, T) ==
    /\ NewServers(m, t) \cap T.srv = {} /\ NewServers(m, t) \subseteq Behind[<<s, t>>]
    /\ m.type = "UID" => m.u \notin T.usr /\ Home[m.u] \in T.srv \cap Behind[<<s, t>>]
    /\ m.type = "SQUIT" => m.sid \in T.srv /\ m.sid \in Behind[<<s, t>>] \ {t}

After(s, t, m, T) ==
    [srv |-> {y \in T.srv : ~Cuts(s, m, y)} \cup NewServers(m, t),
     usr |-> {u \in T.usr : ~Cuts(s, m, Home[u])} \cup NewUsers(m)]

\* The queue q from t takes s from T to T2.
Turns(s, t, q, T, T2) ==
    \E V \in [0..Len(q) -> View] :
        /\ V[0] = T /\ V[Len(q)] = T2
        /\ \A i \in 1..Len(q) : Fits(s, t, q[i], V[i - 1]) /\ V[i] = After(s, t, q[i], V[i - 1])

\* The messages that tell of no server and of no new user.
Idle == {m \in Message : m.type \in {"NICK", "SAVE", "QUIT", "KILL"}}

LEMMA AfterTyped ==
    ASSUME NEW s, NEW t \in Server, NEW m \in Message, NEW T \in View
    PROVE  After(s, t, m, T) \in View
  <1>1. NewServers(m, t) \subseteq Server /\ NewUsers(m) \subseteq User
    BY ReadMessages DEF NewServers, NewUsers
  <1> QED BY <1>1 DEF After, View

LEMMA IdleFits ==
    ASSUME NEW s, NEW t, NEW m \in Idle, NEW T \in View
    PROVE  Fits(s, t, m, T) /\ After(s, t, m, T) = T
  BY DEF Idle, Fits, After, View, NewServers, NewUsers, Cuts

LEMMA TurnsEmpty ==
    ASSUME NEW s, NEW t, NEW T \in View
    PROVE  Turns(s, t, <<>>, T, T)
  <1> DEFINE V == [i \in 0..0 |-> T]
  <1>1. V \in [0..Len(<<>>) -> View] /\ V[0] = T /\ V[Len(<<>>)] = T
    OBVIOUS
  <1>2. 1..Len(<<>>) = {}
    OBVIOUS
  <1> HIDE DEF V
  <1> QED BY <1>1, <1>2 DEF Turns

LEMMA TurnsNothing ==
    ASSUME NEW s, NEW t, NEW T, NEW T2, Turns(s, t, <<>>, T, T2)
    PROVE  T2 = T
  BY DEF Turns

\* The reader takes the first message for what it is.
LEMMA TurnsRead ==
    ASSUME NEW s, NEW t \in Server, NEW q \in Seq(Message), q # <<>>, NEW T, NEW T2,
           Turns(s, t, q, T, T2)
    PROVE  /\ Fits(s, t, Head(q), T)
           /\ Turns(s, t, Tail(q), After(s, t, Head(q), T), T2)
  <1> DEFINE p == Tail(q)
  <1>1. /\ Len(q) \in Nat /\ Len(q) >= 1 /\ Len(p) = Len(q) - 1 /\ Head(q) = q[1]
        /\ \A i \in 1..Len(p) : p[i] = q[i + 1]
    OBVIOUS
  <1>2. PICK V \in [0..Len(q) -> View] :
           /\ V[0] = T /\ V[Len(q)] = T2
           /\ \A i \in 1..Len(q) : Fits(s, t, q[i], V[i - 1]) /\ V[i] = After(s, t, q[i], V[i - 1])
    BY DEF Turns
  <1> HIDE DEF p
  <1> DEFINE W == [i \in 0..Len(p) |-> V[i + 1]]
  <1>3. 1 \in 1..Len(q) /\ 1 - 1 = 0
    BY <1>1
  <1>4. Fits(s, t, q[1], T) /\ V[1] = After(s, t, q[1], T)
    BY <1>2, <1>3
  <1>5. /\ W \in [0..Len(p) -> View] /\ W[0] = V[1] /\ W[Len(p)] = T2
        /\ \A i \in 1..Len(p) : i + 1 \in 1..Len(q) /\ W[i - 1] = V[i] /\ W[i] = V[i + 1] /\ (i + 1) - 1 = i
    BY <1>1, <1>2
  <1> HIDE DEF W
  <1>6. \A i \in 1..Len(p) : Fits(s, t, p[i], W[i - 1]) /\ W[i] = After(s, t, p[i], W[i - 1])
    BY <1>1, <1>2, <1>5
  <1>7. Turns(s, t, p, W[0], T2)
    BY <1>5, <1>6 DEF Turns
  <1> QED BY <1>1, <1>4, <1>5, <1>7 DEF p

\* One queue after the other.
LEMMA TurnsConcat ==
    ASSUME NEW s, NEW t, NEW q \in Seq(Message), NEW w \in Seq(Message), NEW T, NEW T1, NEW T2,
           Turns(s, t, q, T, T1), Turns(s, t, w, T1, T2)
    PROVE  Turns(s, t, q \o w, T, T2)
  <1> DEFINE p == q \o w
             k == Len(q)
             n == Len(w)
  <1>1. /\ k \in Nat /\ n \in Nat /\ Len(p) = k + n
        /\ \A i \in 1..k : p[i] = q[i]
        /\ \A i \in (k + 1)..(k + n) : p[i] = w[i - k]
    OBVIOUS
  <1>2. PICK V \in [0..k -> View] :
           /\ V[0] = T /\ V[k] = T1
           /\ \A i \in 1..k : Fits(s, t, q[i], V[i - 1]) /\ V[i] = After(s, t, q[i], V[i - 1])
    BY DEF Turns
  <1>3. PICK W \in [0..n -> View] :
           /\ W[0] = T1 /\ W[n] = T2
           /\ \A i \in 1..n : Fits(s, t, w[i], W[i - 1]) /\ W[i] = After(s, t, w[i], W[i - 1])
    BY DEF Turns
  <1> HIDE DEF p, k, n
  <1> DEFINE X == [i \in 0..(k + n) |-> IF i <= k THEN V[i] ELSE W[i - k]]
  <1>4. X \in [0..(k + n) -> View]
    BY <1>1
  <1>5. \A i \in 0..k : X[i] = V[i]
    BY <1>1
  <1>6. \A i \in k..(k + n) : X[i] = W[i - k]
    BY <1>1, <1>2, <1>3
  <1> HIDE DEF X
  <1>7. X[0] = T /\ X[k + n] = T2
    BY <1>1, <1>2, <1>3, <1>5, <1>6
  <1>8. ASSUME NEW i \in 1..(k + n)
        PROVE  Fits(s, t, p[i], X[i - 1]) /\ X[i] = After(s, t, p[i], X[i - 1])
    <2>1. CASE i <= k
      <3>1. i \in 1..k /\ X[i] = V[i] /\ X[i - 1] = V[i - 1] /\ p[i] = q[i]
        BY <1>1, <1>5, <2>1
      <3> QED BY <1>2, <3>1
    <2>2. CASE i > k
      <3>1. /\ i - k \in 1..n /\ (i - 1) - k = (i - k) - 1
            /\ i \in (k + 1)..(k + n) /\ i \in k..(k + n) /\ i - 1 \in k..(k + n)
        BY <1>1, <2>2
      <3>2. X[i] = W[i - k] /\ X[i - 1] = W[(i - k) - 1] /\ p[i] = w[i - k]
        BY <1>1, <1>6, <3>1
      <3> QED BY <1>3, <3>1, <3>2
    <2> QED BY <1>1, <2>1, <2>2
  <1> QED BY <1>1, <1>4, <1>7, <1>8 DEF Turns, p

LEMMA TurnsOne ==
    ASSUME NEW s, NEW t \in Server, NEW m \in Message, NEW T \in View, Fits(s, t, m, T)
    PROVE  Turns(s, t, <<m>>, T, After(s, t, m, T))
  <1> DEFINE A == After(s, t, m, T)
             V == [i \in 0..1 |-> IF i = 0 THEN T ELSE A]
  <1>1. A \in View
    BY AfterTyped
  <1> HIDE DEF A
  <1>2. V \in [0..1 -> View] /\ V[0] = T /\ V[1] = A
    BY <1>1
  <1>3. Len(<<m>>) = 1 /\ <<m>>[1] = m /\ \A i \in 1..1 : i = 1 /\ i - 1 = 0
    OBVIOUS
  <1> HIDE DEF V
  <1>4. \A i \in 1..1 : Fits(s, t, <<m>>[i], V[i - 1]) /\ V[i] = After(s, t, <<m>>[i], V[i - 1])
    BY <1>2, <1>3 DEF A
  <1> QED BY <1>2, <1>3, <1>4 DEF Turns, A

LEMMA TurnsIdle ==
    ASSUME NEW s, NEW t, NEW w \in Seq(Idle), NEW T \in View
    PROVE  Turns(s, t, w, T, T)
  <1> DEFINE V == [i \in 0..Len(w) |-> T]
  <1>1. Len(w) \in Nat /\ \A i \in 1..Len(w) : w[i] \in Idle
    OBVIOUS
  <1>2. V \in [0..Len(w) -> View] /\ \A i \in 0..Len(w) : V[i] = T
    OBVIOUS
  <1> HIDE DEF V
  <1>3. \A i \in 1..Len(w) : i \in 0..Len(w) /\ i - 1 \in 0..Len(w)
    BY <1>1
  <1>4. \A i \in 1..Len(w) : Fits(s, t, w[i], V[i - 1]) /\ V[i] = After(s, t, w[i], V[i - 1])
    BY <1>1, <1>2, <1>3, IdleFits
  <1>5. V[0] = T /\ V[Len(w)] = T
    BY <1>1, <1>2
  <1> QED BY <1>2, <1>4, <1>5 DEF Turns

\* What T has grown to after the first n messages of w from t, none of which cuts off.
Grown(t, w, n, T) ==
    [srv |-> T.srv \cup {y \in Server : \E j \in 1..n : y \in NewServers(w[j], t)},
     usr |-> T.usr \cup {u \in User : \E j \in 1..n : u \in NewUsers(w[j])}]

LEMMA TurnsGrow ==
    ASSUME NEW s, NEW t \in Server, NEW w \in Seq(Message), NEW T \in View,
           \A i \in 1..Len(w) : w[i].type # "SQUIT" /\ Fits(s, t, w[i], Grown(t, w, i - 1, T))
    PROVE  Turns(s, t, w, T, Grown(t, w, Len(w), T))
  <1> DEFINE V == [i \in 0..Len(w) |-> Grown(t, w, i, T)]
  <1>1. Len(w) \in Nat /\ \A i \in 1..Len(w) : w[i] \in Message
    OBVIOUS
  <1>2. V \in [0..Len(w) -> View]
    BY DEF Grown, View
  <1>3. \A i \in 0..Len(w) : V[i] = Grown(t, w, i, T)
    OBVIOUS
  <1> HIDE DEF V
  <1>4. V[0] = T
    <2>0. 1..0 = {}
      OBVIOUS
    <2>1. Grown(t, w, 0, T) = [srv |-> T.srv, usr |-> T.usr]
      BY <2>0 DEF Grown
    <2> QED BY <1>1, <1>3, <2>1 DEF View
  <1>5. ASSUME NEW i \in 1..Len(w)
        PROVE  Fits(s, t, w[i], V[i - 1]) /\ V[i] = After(s, t, w[i], V[i - 1])
    <2>1. i - 1 \in 0..Len(w) /\ i \in 0..Len(w) /\ w[i] \in Message /\ i \in Nat
      BY <1>1
    <2>2. V[i - 1] = Grown(t, w, i - 1, T) /\ V[i] = Grown(t, w, i, T)
      BY <1>3, <2>1
    <2>3. \A j : j \in 1..i <=> j \in 1..(i - 1) \/ j = i
      BY <2>1
    <2>4. NewServers(w[i], t) \subseteq Server /\ NewUsers(w[i]) \subseteq User
      BY <2>1, ReadMessages DEF NewServers, NewUsers
    <2>5. \A y : ~Cuts(s, w[i], y)
      BY DEF Cuts
    <2>6. Grown(t, w, i, T).srv = Grown(t, w, i - 1, T).srv \cup NewServers(w[i], t)
      BY <2>3, <2>4 DEF Grown
    <2>7. Grown(t, w, i, T).usr = Grown(t, w, i - 1, T).usr \cup NewUsers(w[i])
      BY <2>3, <2>4 DEF Grown
    <2>8. V[i] = After(s, t, w[i], V[i - 1])
      <3>1. V[i] = [srv |-> V[i].srv, usr |-> V[i].usr]
        BY <2>2 DEF Grown
      <3> QED BY <2>2, <2>5, <2>6, <2>7, <3>1 DEF After
    <2> QED BY <2>2, <2>8
  <1> QED BY <1>1, <1>2, <1>3, <1>4, <1>5 DEF Turns

\* q has each element of S once.
Lists(q, S) ==
    /\ q \in Seq(S)
    /\ \A i, j \in 1..Len(q) : i # j => q[i] # q[j]
    /\ \A x \in S : \E i \in 1..Len(q) : q[i] = x

LEMMA ListingIs ==
    ASSUME NEW S, IsFiniteSet(S), NEW q \in SetToSeqs(S)
    PROVE  Lists(q, S)
  <1> DEFINE n == Cardinality(S)
  <1>1. n \in Nat
    BY FS_CardinalityType
  <1>2. q \in [1..n -> S] /\ \A i, j \in 1..n : i # j => q[i] # q[j]
    BY DEF SetToSeqs
  <1> HIDE DEF n
  <1>3. q \in Seq(S) /\ Len(q) = n
    BY <1>1, <1>2
  <1>4. q \in Injection(1..n, S)
    BY <1>2 DEF Injection, IsInjective
  <1>5. Cardinality(1..n) = n
    BY <1>1, FS_Interval
  <1>6. q \in Surjection(1..n, S)
    BY <1>4, <1>5, FS_Injection DEF n
  <1>7. \A x \in S : \E i \in 1..n : q[i] = x
    BY <1>6 DEF Surjection
  <1> QED BY <1>2, <1>3, <1>7 DEF Lists

\* Two listings one after the other.
LEMMA TwoListings ==
    ASSUME NEW k \in Nat, NEW n \in Nat, NEW a, NEW b,
           a = [i \in 1..k |-> a[i]], b = [i \in 1..n |-> b[i]]
    PROVE  /\ Len(a \o b) = k + n
           /\ \A i \in 1..k : (a \o b)[i] = a[i]
           /\ \A i \in (k + 1)..(k + n) : (a \o b)[i] = b[i - k] /\ i - k \in 1..n
  <1> DEFINE A == {a[i] : i \in 1..k} \cup {b[i] : i \in 1..n}
  <1>1. a \in [1..k -> A] /\ b \in [1..n -> A]
    OBVIOUS
  <1> HIDE DEF A
  <1>2. a \in Seq(A) /\ b \in Seq(A) /\ Len(a) = k /\ Len(b) = n
    BY <1>1
  <1> QED BY <1>2

\* What a burst says: the servers s knows, each once, and then its users, each once.
LEMMA BurstIs ==
    ASSUME IInv, NEW s \in Server,
           NEW sids \in SetToSeqs(known[s]), NEW uids \in SetToSeqs(Persons(s))
    PROVE  LET w == Burst(s, sids, uids)
               k == Len(sids)
               n == Len(uids) IN
           /\ w \in Seq(Message) /\ k \in Nat /\ n \in Nat /\ Len(w) = k + n
           /\ \A i \in 1..k : w[i].type = "SID" /\ w[i].sid = sids[i] /\ sids[i] \in known[s]
           /\ \A i \in (k + 1)..(k + n) : /\ w[i].type = "UID" /\ w[i].u = uids[i - k]
                                          /\ i - k \in 1..n /\ uids[i - k] \in Persons(s)
           /\ \A i, j \in 1..k : i # j => sids[i] # sids[j]
           /\ \A i, j \in 1..n : i # j => uids[i] # uids[j]
           /\ \A x \in known[s] : \E i \in 1..k : sids[i] = x
           /\ \A x \in Persons(s) : \E i \in 1..n : uids[i] = x
  <1>1. IsFiniteSet(known[s]) /\ IsFiniteSet(Persons(s))
    BY FiniteAssumption, FS_Subset DEF IInv, TypeOK, Persons
  <1>2. /\ sids \in Seq(known[s])
        /\ \A i, j \in 1..Len(sids) : i # j => sids[i] # sids[j]
        /\ \A x \in known[s] : \E i \in 1..Len(sids) : sids[i] = x
    <2>1. Lists(sids, known[s])
      BY <1>1, ListingIs
    <2> QED BY <2>1 DEF Lists
  <1>3. /\ uids \in Seq(Persons(s))
        /\ \A i, j \in 1..Len(uids) : i # j => uids[i] # uids[j]
        /\ \A x \in Persons(s) : \E i \in 1..Len(uids) : uids[i] = x
    <2>1. Lists(uids, Persons(s))
      BY <1>1, ListingIs
    <2> QED BY <2>1 DEF Lists
  <1> DEFINE k == Len(sids)
             n == Len(uids)
             a == [i \in 1..k |-> [type |-> "SID", sid |-> sids[i]]]
             b == [i \in 1..n |-> [type |-> "UID", u |-> uids[i],
                                  nick |-> client[s][uids[i]].nick, ts |-> client[s][uids[i]].ts]]
             w == Burst(s, sids, uids)
  <1>4. w \in Seq(Message)
    BY BurstTyped
  <1>5. w = a \o b
    BY DEF Burst
  <1>6. k \in Nat /\ n \in Nat
    BY <1>2, <1>3
  <1>7. (\A i \in 1..k : sids[i] \in known[s]) /\ \A i \in 1..n : uids[i] \in Persons(s)
    BY <1>2, <1>3
  <1>8. a = [i \in 1..k |-> a[i]] /\ b = [i \in 1..n |-> b[i]]
    OBVIOUS
  <1>9. \A i \in 1..k : a[i].type = "SID" /\ a[i].sid = sids[i]
    OBVIOUS
  <1>10. \A i \in 1..n : b[i].type = "UID" /\ b[i].u = uids[i]
    OBVIOUS
  <1> HIDE DEF w, k, n, a, b
  <1>11. /\ Len(w) = k + n
         /\ \A i \in 1..k : w[i] = a[i]
         /\ \A i \in (k + 1)..(k + n) : w[i] = b[i - k] /\ i - k \in 1..n
    BY <1>5, <1>6, <1>8, TwoListings
  <1>12. \A i \in 1..k : w[i].type = "SID" /\ w[i].sid = sids[i] /\ sids[i] \in known[s]
    BY <1>7, <1>9, <1>11
  <1>13. \A i \in (k + 1)..(k + n) : /\ w[i].type = "UID" /\ w[i].u = uids[i - k]
                                     /\ i - k \in 1..n /\ uids[i - k] \in Persons(s)
    BY <1>7, <1>10, <1>11
  <1> USE DEF w, k, n
  <1>14. /\ w \in Seq(Message) /\ k \in Nat /\ n \in Nat /\ Len(w) = k + n
    BY <1>4, <1>6, <1>11
  <1> HIDE DEF w
  <1> QED BY <1>2, <1>3, <1>12, <1>13, <1>14 DEF w

\* What a burst of s makes of a server t that knows only s on that side.
LEMMA BurstTurns ==
    ASSUME IInv, NEW s, NEW t, <<s, t>> \in Edge,
           NEW sids \in SetToSeqs(known[s]), NEW uids \in SetToSeqs(Persons(s)),
           known[s] \cup {s} \subseteq Behind[<<t, s>>], s \notin known[s],
           \A u \in Persons(s) : Home[u] \in known[s] \cup {s}
    PROVE  Turns(t, s, Burst(s, sids, uids), [srv |-> {s}, usr |-> {}],
                 [srv |-> known[s] \cup {s}, usr |-> Persons(s)])
  <1> DEFINE w == Burst(s, sids, uids)
             k == Len(sids)
             n == Len(uids)
             T == [srv |-> {s}, usr |-> {}]
             G(i) == Grown(s, w, i, T)
  <1>1. s \in Server /\ known[s] \subseteq Server /\ Persons(s) \subseteq User
    BY EdgeFacts DEF IInv, TypeOK, Persons
  <1>2. /\ w \in Seq(Message) /\ k \in Nat /\ n \in Nat /\ Len(w) = k + n
        /\ \A i \in 1..k : w[i].type = "SID" /\ w[i].sid = sids[i] /\ sids[i] \in known[s]
        /\ \A i \in (k + 1)..(k + n) : /\ w[i].type = "UID" /\ w[i].u = uids[i - k]
                                       /\ i - k \in 1..n /\ uids[i - k] \in Persons(s)
        /\ \A i, j \in 1..k : i # j => sids[i] # sids[j]
        /\ \A i, j \in 1..n : i # j => uids[i] # uids[j]
        /\ \A x \in known[s] : \E i \in 1..k : sids[i] = x
        /\ \A x \in Persons(s) : \E i \in 1..n : uids[i] = x
    BY <1>1, BurstIs
  <1>6. T \in View /\ T.srv = {s} /\ T.usr = {}
    BY <1>1 DEF View
  <1>7. Len(w) = k + n /\ k \in Nat /\ n \in Nat
    BY <1>2
  <1> HIDE DEF w, T, k, n
  <1>8. ASSUME NEW i \in 1..k
        PROVE  /\ w[i].type = "SID" /\ w[i].sid = sids[i] /\ sids[i] \in known[s]
               /\ NewServers(w[i], s) = {sids[i]} /\ NewUsers(w[i]) = {}
    BY <1>2 DEF NewServers, NewUsers
  <1>9. ASSUME NEW i \in (k + 1)..(k + n)
        PROVE  /\ i - k \in 1..n
               /\ w[i].type = "UID" /\ w[i].u = uids[i - k] /\ uids[i - k] \in Persons(s)
               /\ NewServers(w[i], s) = {} /\ NewUsers(w[i]) = {uids[i - k]}
    BY <1>2 DEF NewServers, NewUsers
  <1>10. ASSUME NEW i \in 1..k
         PROVE  w[i].type # "SQUIT" /\ Fits(t, s, w[i], G(i - 1))
    <2>1. sids[i] # s /\ sids[i] \in known[s]
      BY <1>8
    <2>2. ASSUME NEW j \in 1..(i - 1) PROVE sids[i] \notin NewServers(w[j], s)
      <3>1. j \in 1..k /\ j # i
        BY <1>7
      <3>2. sids[j] # sids[i]
        BY <1>2, <3>1
      <3> QED BY <1>8, <3>1, <3>2
    <2>3. sids[i] \notin G(i - 1).srv
      BY <1>6, <2>1, <2>2 DEF Grown
    <2> QED BY <1>8, <2>1, <2>3 DEF Fits
  <1>11. ASSUME NEW i \in (k + 1)..(k + n)
         PROVE  w[i].type # "SQUIT" /\ Fits(t, s, w[i], G(i - 1))
    <2> DEFINE u == uids[i - k]
    <2>1. u \in Persons(s) /\ i - k \in 1..n /\ w[i].type = "UID" /\ w[i].u = u
      BY <1>9
    <2>2. ASSUME NEW j \in 1..(i - 1) PROVE u \notin NewUsers(w[j])
      <3>1. j \in 1..k \/ (j \in (k + 1)..(k + n) /\ j - k \in 1..n /\ j - k # i - k)
        BY <1>7
      <3>2. CASE j \in 1..k
        BY <1>8, <3>2
      <3>3. CASE j \in (k + 1)..(k + n) /\ j - k \in 1..n /\ j - k # i - k
        <4>1. uids[j - k] # uids[i - k]
          BY <1>2, <2>1, <3>3
        <4> QED BY <1>9, <3>3, <4>1
      <3> QED BY <3>1, <3>2, <3>3
    <2>3. u \notin G(i - 1).usr
      BY <1>6, <2>2 DEF Grown
    <2>4. Home[u] \in G(i - 1).srv
      <3>1. CASE Home[u] = s
        BY <1>6, <3>1 DEF Grown
      <3>2. CASE Home[u] \in known[s]
        <4>1. PICK j \in 1..k : sids[j] = Home[u]
          BY <1>2, <3>2
        <4>2. j \in 1..(i - 1)
          BY <1>7
        <4>3. Home[u] \in NewServers(w[j], s) /\ Home[u] \in Server
          BY <1>1, <1>8, <3>2, <4>1
        <4> QED BY <4>2, <4>3 DEF Grown
      <3> QED BY <2>1, <3>1, <3>2
    <2>5. Home[u] \in Behind[<<t, s>>]
      BY <2>1
    <2>6. NewServers(w[i], s) = {}
      BY <1>9
    <2> HIDE DEF u
    <2> QED BY <2>1, <2>3, <2>4, <2>5, <2>6 DEF Fits
  <1>12. \A i \in 1..Len(w) : w[i].type # "SQUIT" /\ Fits(t, s, w[i], G(i - 1))
    <2>1. \A i \in 1..Len(w) : i \in 1..k \/ i \in (k + 1)..(k + n)
      BY <1>7
    <2> QED BY <1>10, <1>11, <2>1
  <1>13. Turns(t, s, w, T, G(k + n))
    BY <1>1, <1>2, <1>6, <1>7, <1>12, TurnsGrow
  <1>14. G(k + n).srv = known[s] \cup {s}
    <2>1. ASSUME NEW x \in known[s] PROVE \E j \in 1..(k + n) : x \in NewServers(w[j], s)
      <3>1. PICK j \in 1..k : sids[j] = x
        BY <1>2
      <3>2. j \in 1..(k + n)
        BY <1>7
      <3> QED BY <1>8, <3>1, <3>2
    <2>2. ASSUME NEW j \in 1..(k + n) PROVE NewServers(w[j], s) \subseteq known[s]
      <3>1. j \in 1..k \/ j \in (k + 1)..(k + n)
        BY <1>7
      <3> QED BY <1>8, <1>9, <3>1
    <2> QED BY <1>1, <1>6, <2>1, <2>2 DEF Grown
  <1>15. G(k + n).usr = Persons(s)
    <2>1. ASSUME NEW x \in Persons(s) PROVE \E j \in 1..(k + n) : x \in NewUsers(w[j])
      <3>1. PICK j \in 1..n : uids[j] = x
        BY <1>2
      <3>2. j + k \in 1..(k + n) /\ j + k \in (k + 1)..(k + n) /\ (j + k) - k = j
        BY <1>7
      <3> QED BY <1>9, <3>1, <3>2
    <2>2. ASSUME NEW j \in 1..(k + n) PROVE NewUsers(w[j]) \subseteq Persons(s)
      <3>1. j \in 1..k \/ j \in (k + 1)..(k + n)
        BY <1>7
      <3> QED BY <1>8, <1>9, <3>1
    <2> QED BY <1>1, <1>6, <2>1, <2>2 DEF Grown
  <1>16. G(k + n) = [srv |-> known[s] \cup {s}, usr |-> Persons(s)]
    BY <1>14, <1>15 DEF Grown
  <1> QED BY <1>13, <1>16 DEF w, T

-----------------------------------------------------------------------------
(* The links and the servers, M being whom each server has been told of.   *)

\* The clients of t that t has told of, or that will never register.
Registered(t) == {u \in Local(t) : u \in used /\ client[t][u].on # "unknown"}

\* What s has of t's side of their link, and what t has of its own side.
Sees(s, t, M) ==
    [srv |-> known[s] \cap Behind[<<s, t>>],
     usr |-> {u \in M[s] : Home[u] \in Behind[<<s, t>>]}]

Has(t, s, M) ==
    [srv |-> (known[t] \cup {t}) \cap Behind[<<s, t>>],
     usr |-> {u \in M[t] \cup Registered(t) : Home[u] \in Behind[<<s, t>>]}]

Match(T, S) == T.srv = S.srv /\ T.usr \subseteq S.usr

\* What t sends to s arrives.
Live(t, s) == s \in est[t] /\ Open(s, t)

\* What t has sent to s makes sense to s, and leaves s with what t has.
Told(t, s, M) ==
    \E T \in View : /\ Turns(s, t, chan[<<t, s>>], Sees(s, t, M), T)
                    /\ Live(t, s) => Match(T, Has(t, s, M))

\* Until s is linked to t it has SERVER to read first, and has told t nothing.
Hello(t, s, M) ==
    LET q == chan[<<t, s>>] IN
    /\ \A i \in 2..Len(q) : q[i].type # "SERVER"
    /\ q # <<>> /\ t \notin est[s] => q[1].type = "SERVER"
    /\ q # <<>> /\ q[1].type = "SERVER" =>
         /\ t \notin est[s] /\ chan[<<s, t>>] = <<>>
         /\ Sees(t, s, M).srv \subseteq {s} /\ Sees(t, s, M).usr = {}

\* s knows its neighbours, and the rest of the network by way of them; it has been
\* told of its users of other servers.
Reach(s, M) ==
    /\ est[s] \subseteq known[s]
    /\ \A t \in est[s] : <<s, t>> \in Edge
    /\ \A x \in known[s] : \E t \in est[s] : x \in Behind[<<s, t>>]
    /\ \A u \in M[s] : Home[u] \in known[s]
    /\ \A u \in User :
         /\ client[s][u].on = "absent" => client[s][u] = Absent
         /\ client[s][u].on # "absent" => (Home[u] = s /\ u \in used) \/ u \in M[s]
         /\ client[s][u].on = "unknown" => Home[u] = s

Met(M) ==
    /\ M \in [Server -> SUBSET User]
    /\ \A t, s : <<t, s>> \in Edge => Told(t, s, M) /\ Hello(t, s, M)
    /\ \A s \in Server : Reach(s, M)

TInv == \E M : Met(M)

-----------------------------------------------------------------------------
(* One direction of one link, over a step.                                 *)

LEMMA ConcatFacts ==
    ASSUME NEW q \in Seq(Message), NEW w \in Seq(Message)
    PROVE  /\ q = <<>> => q \o w = w
           /\ q # <<>> => q \o w # <<>> /\ (q \o w)[1] = q[1]
           /\ \A i \in 2..Len(q \o w) :
                 \/ i \in 2..Len(q) /\ (q \o w)[i] = q[i]
                 \/ \E k \in 1..Len(w) : (q \o w)[i] = w[k]
  <1>1. /\ Len(q) \in Nat /\ Len(w) \in Nat /\ Len(q \o w) = Len(q) + Len(w)
        /\ \A i \in 1..Len(q) : (q \o w)[i] = q[i]
        /\ \A i \in (Len(q) + 1)..(Len(q) + Len(w)) : (q \o w)[i] = w[i - Len(q)]
    OBVIOUS
  <1>2. q = <<>> => q \o w = w
    OBVIOUS
  <1>3. q # <<>> => 1 \in 1..Len(q) /\ Len(q \o w) # 0
    BY <1>1
  <1>4. ASSUME NEW i \in 2..Len(q \o w)
        PROVE  \/ i \in 2..Len(q) /\ (q \o w)[i] = q[i]
               \/ \E k \in 1..Len(w) : (q \o w)[i] = w[k]
    <2>1. CASE i <= Len(q)
      <3>1. i \in 2..Len(q) /\ i \in 1..Len(q)
        BY <1>1, <2>1
      <3> QED BY <1>1, <3>1
    <2>2. CASE i > Len(q)
      <3>1. i - Len(q) \in 1..Len(w) /\ i \in (Len(q) + 1)..(Len(q) + Len(w))
        BY <1>1, <2>2
      <3> QED BY <1>1, <3>1
    <2> QED BY <1>1, <2>1, <2>2
  <1> QED BY <1>1, <1>2, <1>3, <1>4

\* What there is to tell, and to be told, stays as it is.
LEMMA FlowKept ==
    ASSUME NEW t, NEW s, <<t, s>> \in Edge, NEW M, NEW M2, Told(t, s, M), Hello(t, s, M),
           Sees(s, t, M2)' = Sees(s, t, M), Has(t, s, M2)' = Has(t, s, M),
           Sees(t, s, M2)' = Sees(t, s, M),
           t \in est'[s] <=> t \in est[s], s \in est'[t] <=> s \in est[t],
           chan'[<<t, s>>] = chan[<<t, s>>],
           t \notin est[s] => chan'[<<s, t>>] = chan[<<s, t>>]
    PROVE  Told(t, s, M2)' /\ Hello(t, s, M2)'
  <1>1. Live(t, s)' <=> Live(t, s)
    BY DEF Live, Open
  <1>2. Told(t, s, M2)'
    BY <1>1 DEF Told
  <1>3. Hello(t, s, M2)'
    BY <1>1 DEF Hello
  <1> QED BY <1>2, <1>3

\* w tells a server of t's side, S, that the side is now S2.
Says(t, s, w, S, S2) ==
    \A T \in View : Match(T, S) => \E T2 \in View : Turns(s, t, w, T, T2) /\ Match(T2, S2)

\* t tells s what has changed, if it can.
LEMMA FlowOut ==
    ASSUME IInv, NEW t, NEW s, <<t, s>> \in Edge, NEW M, NEW M2, Told(t, s, M), Hello(t, s, M),
           NEW w \in Seq(Message), \A i \in 1..Len(w) : w[i].type # "SERVER",
           s \in est[t] => Says(t, s, w, Has(t, s, M), Has(t, s, M2)'),
           s \notin est[t] => w = <<>>,
           chan'[<<t, s>>] = IF Open(s, t) THEN chan[<<t, s>>] \o w ELSE chan[<<t, s>>],
           Sees(s, t, M2)' = Sees(s, t, M),
           t \in est'[s] <=> t \in est[s], s \in est'[t] <=> s \in est[t],
           chan[<<s, t>>] = <<>> => chan'[<<s, t>>] = <<>> /\ Sees(t, s, M2)' = Sees(t, s, M)
    PROVE  Told(t, s, M2)' /\ Hello(t, s, M2)'
  <1> DEFINE q == chan[<<t, s>>]
             p == chan'[<<t, s>>]
  <1>1. q \in Seq(Message) /\ q \o w \in Seq(Message)
    BY DEF IInv, TypeOK
  <1>2. PICK T \in View : /\ Turns(s, t, q, Sees(s, t, M), T)
                          /\ Live(t, s) => Match(T, Has(t, s, M))
    BY DEF Told
  <1>3. Told(t, s, M2)'
    <2>1. CASE Live(t, s)
      <3>1. PICK T2 \in View : Turns(s, t, w, T, T2) /\ Match(T2, Has(t, s, M2)')
        BY <1>2, <2>1 DEF Says, Live
      <3>2. p = q \o w
        BY <2>1 DEF Live
      <3>3. Turns(s, t, p, Sees(s, t, M2)', T2)
        BY <1>1, <1>2, <3>1, <3>2, TurnsConcat
      <3> QED BY <3>1, <3>3 DEF Told
    <2>2. CASE ~Live(t, s)
      <3>1. q \o <<>> = q
        BY <1>1
      <3>2. p = q
        BY <2>2, <3>1 DEF Live
      <3>3. ~Live(t, s)'
        BY <2>2, <3>2 DEF Live, Open
      <3> QED BY <1>2, <3>2, <3>3 DEF Told
    <2> QED BY <2>1, <2>2
  <1>4. Hello(t, s, M2)'
    <2>1. /\ p = q \/ (p = q \o w /\ Open(s, t))
      OBVIOUS
    <2>2. \A i \in 2..Len(p) : p[i].type # "SERVER"
      <3>1. CASE p = q
        BY <3>1 DEF Hello
      <3>2. CASE p = q \o w
        <4>1. \A i \in 2..Len(q) : q[i].type # "SERVER"
          BY DEF Hello
        <4> HIDE DEF p, q
        <4>2. \A i \in 2..Len(q \o w) : (i \in 2..Len(q) /\ (q \o w)[i] = q[i])
                                     \/ \E k \in 1..Len(w) : (q \o w)[i] = w[k]
          BY <1>1, ConcatFacts
        <4> QED BY <3>2, <4>1, <4>2
      <3> QED BY <2>1, <3>1, <3>2
    <2>3. q # <<>> => p # <<>> /\ p[1] = q[1]
      BY <1>1, <2>1, ConcatFacts
    <2>4. q = <<>> => p = <<>> \/ (t \in est[s] /\ p = w)
      BY <2>1, ConcatFacts DEF Open
    <2>5. p # <<>> /\ t \notin est'[s] => p[1].type = "SERVER"
      BY <2>3, <2>4 DEF Hello
    <2>6. w # <<>> => w[1].type # "SERVER"
      OBVIOUS
    <2>7. p # <<>> /\ p[1].type = "SERVER" => q # <<>> /\ q[1].type = "SERVER"
      BY <2>3, <2>4, <2>6
    <2>8. p # <<>> /\ p[1].type = "SERVER" =>
            /\ t \notin est'[s] /\ chan'[<<s, t>>] = <<>>
            /\ Sees(t, s, M2)'.srv \subseteq {s} /\ Sees(t, s, M2)'.usr = {}
      BY <2>7 DEF Hello
    <2> QED BY <2>2, <2>5, <2>8 DEF Hello
  <1> QED BY <1>3, <1>4

\* s reads a message from t.
LEMMA FlowIn ==
    ASSUME IInv, NEW t, NEW s, <<t, s>> \in Edge, NEW M, NEW M2, Told(t, s, M), Hello(t, s, M),
           chan[<<t, s>>] # <<>>, chan'[<<t, s>>] = Tail(chan[<<t, s>>]),
           Sees(s, t, M2)' = After(s, t, Head(chan[<<t, s>>]), Sees(s, t, M)),
           Has(t, s, M2)' = Has(t, s, M),
           s \in est'[t] <=> s \in est[t], t \in est'[s]
    PROVE  Told(t, s, M2)' /\ Hello(t, s, M2)'
  <1> DEFINE q == chan[<<t, s>>]
             p == chan'[<<t, s>>]
  <1>1. q \in Seq(Message) /\ q # <<>> /\ p = Tail(q) /\ t \in Server
    BY EdgeFacts DEF IInv, TypeOK
  <1>2. PICK T \in View : /\ Turns(s, t, q, Sees(s, t, M), T)
                          /\ Live(t, s) => Match(T, Has(t, s, M))
    BY DEF Told
  <1>3. Turns(s, t, p, Sees(s, t, M2)', T)
    BY <1>1, <1>2, TurnsRead
  <1>4. Live(t, s)' => Live(t, s)
    BY <1>1 DEF Live, Open
  <1>5. Told(t, s, M2)'
    BY <1>2, <1>3, <1>4 DEF Told
  <1>6. \A i \in 1..Len(p) : i + 1 \in 2..Len(q) /\ p[i] = q[i + 1]
    BY <1>1
  <1>7. \A i \in 1..Len(p) : p[i].type # "SERVER"
    BY <1>6 DEF Hello
  <1>8. p # <<>> => 1 \in 1..Len(p)
    BY <1>1
  <1>9. Hello(t, s, M2)'
    <2>1. Len(p) \in Nat
      BY <1>1
    <2> HIDE DEF p, q
    <2>2. \A i \in 2..Len(p) : i \in 1..Len(p)
      BY <2>1
    <2>3. \A i \in 2..Len(p) : p[i].type # "SERVER"
      BY <1>7, <2>2
    <2> QED BY <1>7, <1>8, <2>3 DEF Hello, p
  <1> QED BY <1>5, <1>9

-----------------------------------------------------------------------------
(* A step of one server that leaves its links as they are.                 *)

\* Nothing has changed at r.
Untouched(r, M, M2) ==
    /\ known'[r] = known[r] /\ est'[r] = est[r] /\ client'[r] = client[r]
    /\ M2[r] = M[r] /\ Registered(r)' = Registered(r)

LEMMA UntouchedFlows ==
    ASSUME NEW M, NEW M2, NEW r, Untouched(r, M, M2)
    PROVE  \A t : Sees(r, t, M2)' = Sees(r, t, M) /\ Has(r, t, M2)' = Has(r, t, M)
  BY DEF Untouched, Sees, Has

LEMMA UntouchedReach ==
    ASSUME NEW M, NEW M2, NEW r, Untouched(r, M, M2), Reach(r, M), used \subseteq used'
    PROVE  Reach(r, M2)'
  BY DEF Untouched, Reach

\* What s tells its neighbours is what has changed, and goes to those linked to it.
Reports(s, out, M, M2) ==
    /\ out \in [Server -> Seq(Message)]
    /\ \A r : <<s, r>> \in Edge =>
         /\ \A i \in 1..Len(out[r]) : out[r][i].type # "SERVER"
         /\ r \notin est[s] => out[r] = <<>>
         /\ r \in est[s] => Says(s, r, out[r], Has(s, r, M), Has(s, r, M2)')

LEMMA Transmitted ==
    ASSUME NEW s, NEW queues, NEW out, chan' = Transmit(s, queues, out),
           NEW a, NEW b, <<a, b>> \in Edge
    PROVE  /\ a # s => chan'[<<a, b>>] = queues[<<a, b>>]
           /\ a = s => chan'[<<a, b>>] = IF Open(b, s) THEN queues[<<a, b>>] \o out[b]
                                                       ELSE queues[<<a, b>>]
  BY DEF Transmit

\* s handles an event of its own, which changes nothing of what it has been told.
LEMMA HandledOwn ==
    ASSUME IInv, NEW M, Met(M), NEW s \in Server, NEW M2 \in [Server -> SUBSET User], NEW out,
           \A r \in Server \ {s} : Untouched(r, M, M2), used \subseteq used',
           est' = est, Reports(s, out, M, M2), chan' = Transmit(s, chan, out),
           \A r : Sees(s, r, M2)' = Sees(s, r, M), Reach(s, M2)'
    PROVE  Met(M2)'
  <1>1. \A r \in Server : Reach(r, M2)'
    BY UntouchedReach DEF Met
  <1>2. ASSUME NEW a, NEW b, <<a, b>> \in Edge
        PROVE  Told(a, b, M2)' /\ Hello(a, b, M2)'
    <2>1. a \in Server /\ b \in Server /\ a # b /\ <<b, a>> \in Edge
      BY <1>2, EdgeFacts
    <2>2. Told(a, b, M) /\ Hello(a, b, M) /\ chan[<<a, b>>] \in Seq(Message)
      BY <1>2 DEF Met, IInv, TypeOK
    <2>3. /\ a # s => chan'[<<a, b>>] = chan[<<a, b>>]
          /\ a = s => chan'[<<a, b>>] = IF Open(b, a) THEN chan[<<a, b>>] \o out[b] ELSE chan[<<a, b>>]
      BY <1>2, Transmitted
    <2>4. /\ b # s => chan'[<<b, a>>] = chan[<<b, a>>]
          /\ b = s => chan'[<<b, a>>] = IF Open(a, b) THEN chan[<<b, a>>] \o out[a] ELSE chan[<<b, a>>]
      BY <2>1, Transmitted
    <2>5. \A r \in Server : \A t : Sees(r, t, M2)' = Sees(r, t, M)
      BY UntouchedFlows
    <2>6. \A r \in Server \ {s} : \A t : Has(r, t, M2)' = Has(r, t, M)
      BY UntouchedFlows
    <2>7. CASE a = s
      <3>1. /\ out[b] \in Seq(Message) /\ \A i \in 1..Len(out[b]) : out[b][i].type # "SERVER"
            /\ b \in est[a] => Says(a, b, out[b], Has(a, b, M), Has(a, b, M2)')
            /\ b \notin est[a] => out[b] = <<>>
        BY <1>2, <2>1, <2>7 DEF Reports
      <3>2. chan[<<b, a>>] = <<>> => chan'[<<b, a>>] = <<>> /\ Sees(a, b, M2)' = Sees(a, b, M)
        BY <2>1, <2>4, <2>5, <2>7
      <3> QED BY <1>2, <2>1, <2>2, <2>3, <2>5, <2>7, <3>1, <3>2, FlowOut
    <2>8. CASE a # s
      <3>1. a \notin est[b] => chan'[<<b, a>>] = chan[<<b, a>>]
        <4>1. CASE b = s
          <5>1. a \notin est[b] => out[a] = <<>>
            BY <2>1, <4>1 DEF Reports
          <5>2. chan[<<b, a>>] \o <<>> = chan[<<b, a>>]
            BY <2>1 DEF IInv, TypeOK
          <5> QED BY <2>4, <4>1, <5>1, <5>2
        <4> QED BY <2>4, <4>1
      <3> QED BY <1>2, <2>1, <2>2, <2>3, <2>5, <2>6, <2>8, <3>1, FlowKept
    <2> QED BY <2>7, <2>8
  <1> QED BY <1>1, <1>2 DEF Met

\* s handles a message from t.
LEMMA HandledMessage ==
    ASSUME IInv, NEW M, Met(M), NEW s \in Server, NEW M2 \in [Server -> SUBSET User], NEW out,
           \A r \in Server \ {s} : Untouched(r, M, M2), used \subseteq used',
           est' = est, Reports(s, out, M, M2),
           NEW t, <<t, s>> \in Edge, t \in est[s], chan[<<t, s>>] # <<>>,
           chan' = Transmit(s, [chan EXCEPT ![<<t, s>>] = Tail(@)], out),
           \A r : <<s, r>> \in Edge /\ r # t => Sees(s, r, M2)' = Sees(s, r, M),
           Sees(s, t, M2)' = After(s, t, Msg(s, t), Sees(s, t, M)), Reach(s, M2)'
    PROVE  Met(M2)'
  <1> PICK queues : queues = [chan EXCEPT ![<<t, s>>] = Tail(@)]
    OBVIOUS
  <1>1. \A r \in Server : Reach(r, M2)'
    BY UntouchedReach DEF Met
  <1>2. queues[<<t, s>>] = Tail(chan[<<t, s>>])
        /\ \A e \in Edge \ {<<t, s>>} : queues[e] = chan[e]
    BY DEF IInv, TypeOK
  <1>4. chan' = Transmit(s, queues, out)
    OBVIOUS
  <1>3. ASSUME NEW a, NEW b, <<a, b>> \in Edge
        PROVE  Told(a, b, M2)' /\ Hello(a, b, M2)'
    <2>1. a \in Server /\ b \in Server /\ a # b /\ <<b, a>> \in Edge /\ s # t
      BY <1>3, EdgeFacts
    <2>2. Told(a, b, M) /\ Hello(a, b, M) /\ chan[<<a, b>>] \in Seq(Message)
      BY <1>3 DEF Met, IInv, TypeOK
    <2>3. /\ a # s => chan'[<<a, b>>] = queues[<<a, b>>]
          /\ a = s => chan'[<<a, b>>] = IF Open(b, a) THEN queues[<<a, b>>] \o out[b] ELSE queues[<<a, b>>]
      BY <1>3, <1>4 DEF Transmit
    <2>4. /\ b # s => chan'[<<b, a>>] = queues[<<b, a>>]
          /\ b = s => chan'[<<b, a>>] = IF Open(a, b) THEN queues[<<b, a>>] \o out[a] ELSE queues[<<b, a>>]
      BY <1>4, <2>1 DEF Transmit
    <2>5. \A r \in Server \ {s} : \A x : Sees(r, x, M2)' = Sees(r, x, M) /\ Has(r, x, M2)' = Has(r, x, M)
      BY UntouchedFlows
    <2>7. CASE a = s
      <3>1. /\ out[b] \in Seq(Message) /\ \A i \in 1..Len(out[b]) : out[b][i].type # "SERVER"
            /\ b \in est[a] => Says(a, b, out[b], Has(a, b, M), Has(a, b, M2)')
            /\ b \notin est[a] => out[b] = <<>>
        BY <1>3, <2>1, <2>7 DEF Reports
      <3>2. chan[<<b, a>>] = <<>> => chan'[<<b, a>>] = <<>> /\ Sees(a, b, M2)' = Sees(a, b, M)
        <4>1. b = t => chan[<<b, a>>] # <<>>
          BY <2>7
        <4>2. b # t => <<b, a>> # <<t, s>>
          OBVIOUS
        <4> QED BY <1>2, <1>3, <2>1, <2>4, <2>7, <4>1, <4>2
      <3>3. <<a, b>> # <<t, s>> /\ queues[<<a, b>>] = chan[<<a, b>>]
        BY <1>2, <1>3, <2>1, <2>7
      <3>4. Sees(b, a, M2)' = Sees(b, a, M)
        BY <2>1, <2>5, <2>7
      <3>5. chan'[<<a, b>>] = IF Open(b, a) THEN chan[<<a, b>>] \o out[b] ELSE chan[<<a, b>>]
        BY <2>3, <2>7, <3>3
      <3>6. (a \in est'[b] <=> a \in est[b]) /\ (b \in est'[a] <=> b \in est[a])
        OBVIOUS
      <3> QED BY <1>3, <2>2, <3>1, <3>2, <3>4, <3>5, <3>6, FlowOut
    <2>8. CASE a = t /\ b = s
      <3>1. chan'[<<a, b>>] = Tail(chan[<<a, b>>])
        BY <1>2, <2>1, <2>3, <2>8
      <3>2. Sees(b, a, M2)' = After(b, a, Head(chan[<<a, b>>]), Sees(b, a, M))
        BY <2>8 DEF Msg
      <3>3. Has(a, b, M2)' = Has(a, b, M)
        BY <2>1, <2>5, <2>8
      <3> QED BY <1>3, <2>2, <2>8, <3>1, <3>2, <3>3, FlowIn
    <2>9. CASE a # s /\ <<a, b>> # <<t, s>>
      <3>1. chan'[<<a, b>>] = chan[<<a, b>>]
        BY <1>2, <1>3, <2>3, <2>9
      <3>2. a \notin est[b] => chan'[<<b, a>>] = chan[<<b, a>>]
        <4>1. CASE b = s
          <5>1. a \notin est[b] => out[a] = <<>>
            BY <2>1, <4>1 DEF Reports
          <5>2. <<b, a>> # <<t, s>>
            BY <2>1, <4>1
          <5>3. chan[<<b, a>>] \o <<>> = chan[<<b, a>>] /\ queues[<<b, a>>] = chan[<<b, a>>]
            BY <1>2, <2>1, <5>2 DEF IInv, TypeOK
          <5> QED BY <2>4, <4>1, <5>1, <5>3
        <4>2. CASE b # s
          <5>1. <<b, a>> # <<t, s>> \/ a \in est[b]
            <6>1. CASE b = t /\ a = s
              BY <2>9, <6>1
            <6> QED BY <6>1
          <5> QED BY <1>2, <2>1, <2>4, <4>2, <5>1
        <4> QED BY <4>1, <4>2
      <3>3. Sees(b, a, M2)' = Sees(b, a, M)
        <4>1. CASE b = s
          <5>1. a # t /\ <<s, a>> \in Edge
            BY <2>1, <2>9, <4>1
          <5> QED BY <4>1, <5>1
        <4> QED BY <2>1, <2>5, <4>1
      <3>4. Sees(a, b, M2)' = Sees(a, b, M) /\ Has(a, b, M2)' = Has(a, b, M)
        BY <2>1, <2>5, <2>9
      <3> QED BY <1>3, <2>1, <2>2, <3>1, <3>2, <3>3, <3>4, FlowKept
    <2> QED BY <2>7, <2>8, <2>9
  <1> QED BY <1>1, <1>3 DEF Met

-----------------------------------------------------------------------------
(* Events that introduce nobody: what a server may do to the clients it    *)
(* has, and say of them.                                                   *)

Mild(s, L) ==
    /\ L = [client |-> L.client, nd |-> L.nd, out |-> L.out]
    /\ L.client = [u \in User |-> L.client[u]]
    /\ \A u \in User : \/ L.client[u] = Absent
                       \/ L.client[u].on = client[s][u].on /\ client[s][u].on # "absent"
    /\ L.out \in [Server -> Seq(Idle)]
    /\ \A r \in Server \ est[s] : L.out[r] = <<>>

Present(L, u) == L.client[u].on # "absent"

LEMMA IdleMessages ==
    /\ \A u \in User : \A n \in NameFor(u), ts \in Nat : [type |-> "NICK", u |-> u, nick |-> n, ts |-> ts] \in Idle
    /\ \A u \in User, ts \in Nat : [type |-> "SAVE", u |-> u, ts |-> ts] \in Idle
    /\ \A u \in User : [type |-> "QUIT", u |-> u] \in Idle
    /\ \A u \in User, x \in Server \cup User : [type |-> "KILL", u |-> u, src |-> x] \in Idle
  BY BuiltMessages DEF Idle

LEMMA HereMild ==
    ASSUME IInv, NEW M, NEW s \in Server, Reach(s, M)
    PROVE  /\ Mild(s, Here(s)) /\ Here(s).client = client[s]
           /\ \A n : Mild(s, Overridden(s, n))
           /\ \A n, u : u \in User /\ client[s][u].on = "person" => Present(Overridden(s, n), u)
  <1>1. client[s] \in [User -> Entry] /\ \A u \in User : client[s][u].on = "absent" => client[s][u] = Absent
    BY DEF IInv, TypeOK, Table, Reach
  <1>2. <<>> \in Seq(Idle)
    OBVIOUS
  <1>3. Mild(s, Here(s)) /\ Here(s).client = client[s]
    BY <1>1, <1>2 DEF Mild, Here
  <1>4. ASSUME NEW n PROVE Mild(s, Overridden(s, n))
    <2>1. Overridden(s, n) =
            [client |-> [v \in User |-> IF client[s][v].on = "unknown" /\ client[s][v].nick = n
                                        THEN Absent ELSE client[s][v]],
             nd |-> nd[s], out |-> [t \in Server |-> <<>>]]
      BY DEF Overridden, Here
    <2> QED BY <1>1, <1>2, <2>1 DEF Mild
  <1>5. \A n, u : u \in User /\ client[s][u].on = "person" => Present(Overridden(s, n), u)
    BY DEF Overridden, Here, Present
  <1> QED BY <1>3, <1>4, <1>5

\* The parts of an updated state, whatever they are.
LEMMA Replaced ==
    ASSUME NEW L, NEW c, NEW d, NEW o, L = [client |-> c, nd |-> d, out |-> o], NEW e
    PROVE  /\ [L EXCEPT !.out = e] = [client |-> c, nd |-> d, out |-> e]
           /\ [L EXCEPT !.client = e] = [client |-> e, nd |-> d, out |-> o]
  <1>1. [L EXCEPT !.out = e] = [client |-> c, nd |-> d, out |-> e]
    OBVIOUS
  <1>2. [L EXCEPT !.client = e] = [client |-> e, nd |-> d, out |-> o]
    OBVIOUS
  <1> QED BY <1>1, <1>2

LEMMA SendToMild ==
    ASSUME NEW s \in Server, NEW L, Mild(s, L), NEW peers, peers \subseteq est[s], NEW m \in Idle
    PROVE  /\ Mild(s, SendTo(L, peers, m)) /\ SendTo(L, peers, m).client = L.client
  <1> DEFINE out == [t \in Server |-> IF t \in peers THEN Append(L.out[t], m) ELSE L.out[t]]
  <1>1. out \in [Server -> Seq(Idle)]
    BY DEF Mild
  <1>2. \A r \in Server \ est[s] : out[r] = <<>>
    BY DEF Mild
  <1>3. SendTo(L, peers, m) = [L EXCEPT !.out = out]
    BY DEF SendTo
  <1> HIDE DEF out
  <1>4. SendTo(L, peers, m) = [client |-> L.client, nd |-> L.nd, out |-> out]
    BY <1>3, Replaced DEF Mild
  <1> QED BY <1>1, <1>2, <1>4 DEF Mild

LEMMA DropMild ==
    ASSUME NEW s \in Server, NEW L, Mild(s, L), NEW u \in User
    PROVE  /\ Mild(s, Drop(L, u))
           /\ \A v \in User \ {u} : Drop(L, u).client[v] = L.client[v]
  <1> DEFINE c == [L.client EXCEPT ![u] = Absent]
  <1>1. Drop(L, u) = [client |-> c, nd |-> L.nd, out |-> L.out]
    <2>1. Drop(L, u) = [L EXCEPT !.client = c]
      BY DEF Drop
    <2> HIDE DEF c
    <2> QED BY <2>1, Replaced DEF Mild
  <1>2. c = [v \in User |-> IF v = u THEN Absent ELSE L.client[v]]
    BY DEF Mild
  <1> HIDE DEF c
  <1>3. \A v \in User : c[v] = IF v = u THEN Absent ELSE L.client[v]
    BY <1>2
  <1>4. c = [v \in User |-> c[v]]
    BY <1>2
  <1> QED BY <1>1, <1>3, <1>4 DEF Mild

LEMMA RenameMild ==
    ASSUME NEW s \in Server, NEW L, Mild(s, L), NEW u \in User, Present(L, u), NEW n, NEW ts
    PROVE  \A K \in {Rename(L, u, n, ts), ChangeLocalNick(L, u, n, ts)} :
               Mild(s, K) /\ \A v \in User : K.client[v].on = L.client[v].on
  <1> DEFINE e == [on |-> L.client[u].on, nick |-> n, ts |-> ts]
             c == [L.client EXCEPT ![u] = e]
  <1>7. SUFFICES ASSUME NEW d, NEW K, K = [client |-> c, nd |-> d, out |-> L.out]
                 PROVE  Mild(s, K) /\ \A v \in User : K.client[v].on = L.client[v].on
    BY DEF Rename, Store, ChangeLocalNick
  <1>1. K = [client |-> c, nd |-> d, out |-> L.out]
    BY <1>7
  <1>2. c = [v \in User |-> IF v = u THEN e ELSE L.client[v]]
    BY DEF Mild
  <1>3. e.on = L.client[u].on
    OBVIOUS
  <1> HIDE DEF c, e
  <1>4. \A v \in User : c[v] = IF v = u THEN e ELSE L.client[v]
    BY <1>2
  <1>5. c = [v \in User |-> c[v]]
    BY <1>2
  <1>6. e.on = client[s][u].on /\ client[s][u].on # "absent"
    BY <1>3 DEF Mild, Present, Absent
  <1> QED BY <1>1, <1>3, <1>4, <1>5, <1>6 DEF Mild

LEMMA KillEverywhereMild ==
    ASSUME NEW s \in Server, NEW L, Mild(s, L), NEW u \in User
    PROVE  /\ Mild(s, KillEverywhere(L, s, u))
           /\ \A v \in User \ {u} : KillEverywhere(L, s, u).client[v] = L.client[v]
  <1> DEFINE m == [type |-> "KILL", u |-> u, src |-> s]
             K == SendTo(L, est[s], m)
  <1>1. m \in Idle
    BY IdleMessages
  <1> HIDE DEF m
  <1>2. Mild(s, K) /\ K.client = L.client
    BY <1>1, SendToMild
  <1>3. KillEverywhere(L, s, u) = Drop(K, u)
    BY DEF KillEverywhere, m
  <1> HIDE DEF K
  <1> QED BY <1>2, <1>3, DropMild

LEMMA BackMild ==
    ASSUME NEW s \in Server, NEW t \in est[s], NEW L, Mild(s, L), NEW u \in User, NEW ts \in Nat
    PROVE  /\ Mild(s, KillBack(L, s, t, u)) /\ KillBack(L, s, t, u).client = L.client
           /\ Mild(s, SaveBack(L, t, u, ts)) /\ SaveBack(L, t, u, ts).client = L.client
  BY IdleMessages, SendToMild DEF KillBack, SaveBack

LEMMA ChangeRemoteNickMild ==
    ASSUME NEW s \in Server, NEW t, NEW L, Mild(s, L), NEW u \in User, Present(L, u),
           NEW n \in NameFor(u), NEW ts \in Nat
    PROVE  Mild(s, ChangeRemoteNick(L, s, t, u, n, ts))
  <1> DEFINE m == [type |-> "NICK", u |-> u, nick |-> n, ts |-> ts]
             K == SendTo(L, est[s] \ {t}, m)
  <1>1. m \in Idle
    BY IdleMessages
  <1> HIDE DEF m
  <1>2. Mild(s, K) /\ K.client = L.client
    BY <1>1, SendToMild
  <1>3. ChangeRemoteNick(L, s, t, u, n, ts) = Rename(K, u, n, ts)
    BY DEF ChangeRemoteNick, m
  <1> HIDE DEF K
  <1>4. Present(K, u)
    BY <1>2 DEF Present
  <1> QED BY <1>2, <1>3, <1>4, RenameMild

LEMMA SaveUserMild ==
    ASSUME IInv, NEW s \in Server, NEW t, NEW L, Mild(s, L), NEW v \in User, Present(L, v),
           L.client[v].ts \in Nat
    PROVE  /\ Mild(s, SaveUser(L, s, t, v))
           /\ \A u \in User \ {v} : Present(L, u) => Present(SaveUser(L, s, t, v), u)
  <1>1. CASE Way(s, Home[v]) \cap est[s] \subseteq SaveCap
    <2> DEFINE m1 == [type |-> "SAVE", u |-> v, ts |-> L.client[v].ts]
               m2 == [type |-> "NICK", u |-> v, nick |-> v, ts |-> CurrentTime(s)]
               K1 == SendTo(L, (est[s] \ {t}) \cap SaveCap, m1)
               K == SendTo(K1, (est[s] \ {t}) \ SaveCap, m2)
    <2>1. m1 \in Idle /\ m2 \in Idle
      BY ClockTyped, NameFacts, IdleMessages DEF IInv
    <2>2. SaveUser(L, s, t, v) \in {Rename(K, v, v, CurrentTime(s)),
                                    ChangeLocalNick(K, v, v, CurrentTime(s))}
      BY <1>1 DEF SaveUser
    <2> HIDE DEF m1, m2
    <2>3. Mild(s, K1) /\ K1.client = L.client
      BY <2>1, SendToMild
    <2> HIDE DEF K1
    <2>4. Mild(s, K) /\ K.client = L.client
      BY <2>1, <2>3, SendToMild
    <2> HIDE DEF K
    <2>5. Present(K, v)
      BY <2>4 DEF Present
    <2>6. /\ Mild(s, SaveUser(L, s, t, v))
          /\ \A u \in User : SaveUser(L, s, t, v).client[u].on = K.client[u].on
      BY <2>2, <2>4, <2>5, RenameMild
    <2> QED BY <2>4, <2>6 DEF Present
  <1>2. CASE ~(Way(s, Home[v]) \cap est[s] \subseteq SaveCap)
    <2>1. SaveUser(L, s, t, v) = KillEverywhere(L, s, v)
      BY <1>2 DEF SaveUser
    <2> QED BY <2>1, KillEverywhereMild DEF Present
  <1> QED BY <1>1, <1>2

LEMMA ForceUidNickMild ==
    ASSUME IInv, NEW s \in Server, NEW t, NEW L, Mild(s, L), NEW u \in User, Present(L, u)
    PROVE  Mild(s, ForceUidNick(L, s, t, u))
  BY ClockTyped, NameFacts, ChangeRemoteNickMild DEF IInv, ForceUidNick

-----------------------------------------------------------------------------
(* What such messages say, and a UID after them.                           *)

LEMMA SeesTyped ==
    ASSUME IInv, NEW M \in [Server -> SUBSET User], NEW s \in Server, NEW t, <<s, t>> \in Edge
    PROVE  Sees(s, t, M) \in View
  BY EdgeFacts DEF IInv, TypeOK, Sees, View

LEMMA IdleSays ==
    ASSUME NEW t, NEW s, NEW w \in Seq(Idle), NEW S, NEW S2, S2.srv = S.srv, S.usr \subseteq S2.usr
    PROVE  Says(t, s, w, S, S2)
  <1> SUFFICES ASSUME NEW T \in View, Match(T, S)
               PROVE  Turns(s, t, w, T, T) /\ Match(T, S2)
    BY DEF Says
  <1>1. Turns(s, t, w, T, T)
    BY TurnsIdle
  <1> QED BY <1>1 DEF Match

LEMMA UidSays ==
    ASSUME NEW t \in Server, NEW s, NEW w \in Seq(Idle), NEW m \in Message, m.type = "UID",
           NEW S, NEW S2, S2.srv = S.srv, S.usr \cup {m.u} \subseteq S2.usr,
           m.u \notin S.usr, Home[m.u] \in S.srv \cap Behind[<<s, t>>]
    PROVE  Says(t, s, Append(w, m), S, S2)
  <1> SUFFICES ASSUME NEW T \in View, Match(T, S)
               PROVE  \E T2 \in View : Turns(s, t, Append(w, m), T, T2) /\ Match(T2, S2)
    BY DEF Says
  <1> DEFINE T2 == After(s, t, m, T)
  <1>1. Turns(s, t, w, T, T)
    BY TurnsIdle
  <1>2. Fits(s, t, m, T) /\ NewServers(m, t) = {} /\ NewUsers(m) = {m.u}
    BY DEF Fits, Match, NewServers, NewUsers
  <1>3. Turns(s, t, <<m>>, T, T2) /\ T2 \in View
    BY <1>2, TurnsOne, AfterTyped
  <1>4. Append(w, m) = w \o <<m>> /\ w \in Seq(Message) /\ <<m>> \in Seq(Message)
    BY DEF Idle
  <1>5. Turns(s, t, Append(w, m), T, T2)
    BY <1>1, <1>3, <1>4, TurnsConcat
  <1>6. T2.srv = T.srv /\ T2.usr = T.usr \cup {m.u}
    BY <1>2 DEF After, Cuts, View
  <1> HIDE DEF T2
  <1>7. Match(T2, S2)
    BY <1>6 DEF Match
  <1> QED BY <1>3, <1>5, <1>7

\* What a server that tells of nobody reports.
LEMMA IdleReports ==
    ASSUME IInv, NEW s \in Server, NEW out \in [Server -> Seq(Idle)], NEW M, NEW M2,
           \A r \in Server \ est[s] : out[r] = <<>>,
           known'[s] = known[s], M[s] \subseteq M2[s], Registered(s) \subseteq Registered(s)'
    PROVE  Reports(s, out, M, M2)
  <1>1. out \in [Server -> Seq(Message)]
    <2>1. Seq(Idle) \subseteq Seq(Message)
      BY DEF Idle
    <2> QED BY <2>1
  <1>2. ASSUME NEW r, <<s, r>> \in Edge
        PROVE  /\ \A i \in 1..Len(out[r]) : out[r][i].type # "SERVER"
               /\ r \notin est[s] => out[r] = <<>>
               /\ r \in est[s] => Says(s, r, out[r], Has(s, r, M), Has(s, r, M2)')
    <2>1. r \in Server /\ out[r] \in Seq(Idle)
      BY <1>2, EdgeFacts
    <2>2. \A i \in 1..Len(out[r]) : out[r][i].type # "SERVER"
      BY <2>1 DEF Idle
    <2>3. Has(s, r, M2)'.srv = Has(s, r, M).srv /\ Has(s, r, M).usr \subseteq Has(s, r, M2)'.usr
      BY DEF Has
    <2>4. Says(s, r, out[r], Has(s, r, M), Has(s, r, M2)')
      BY <2>1, <2>3, IdleSays
    <2> QED BY <2>1, <2>2, <2>4
  <1> QED BY <1>1, <1>2 DEF Reports

\* The servers that s has nothing to do with.
LEMMA OthersUntouched ==
    ASSUME IInv, NEW s \in Server, NEW M, NEW M2, NEW c,
           client' = [client EXCEPT ![s] = c], est' = est, used' = used,
           \A r \in Server \ {s} : known'[r] = known[r] /\ M2[r] = M[r]
    PROVE  \A r \in Server \ {s} : Untouched(r, M, M2)
  <1> SUFFICES ASSUME NEW r \in Server \ {s} PROVE Untouched(r, M, M2)
    OBVIOUS
  <1>1. client'[r] = client[r]
    BY DEF IInv, TypeOK
  <1>2. Registered(r)' = Registered(r)
    BY <1>1 DEF Registered, Local
  <1> QED BY <1>1, <1>2 DEF Untouched

\* The clients a server keeps are those it had, and perhaps u, of whom it is told.
LEMMA KeptReach ==
    ASSUME IInv, NEW s \in Server, NEW M, NEW M2, Reach(s, M), NEW c, NEW X,
           client' = [client EXCEPT ![s] = c], est' = est, used' = used, known' = known,
           M2[s] = M[s] \cup X, \A u \in X : Home[u] \in known[s],
           \A u \in User : \/ c[u] = Absent
                           \/ c[u].on = client[s][u].on /\ client[s][u].on # "absent"
                           \/ u \in X /\ c[u].on = "person"
    PROVE  Reach(s, M2)' /\ Registered(s) \subseteq Registered(s)'
  <1>1. client'[s] = c
    BY DEF IInv, TypeOK
  <1>2. \A u \in User : /\ c[u].on = "absent" => c[u] = Absent
                        /\ c[u].on # "absent" => (Home[u] = s /\ u \in used) \/ u \in M2[s]
                        /\ c[u].on = "unknown" => Home[u] = s
    BY DEF Reach, Absent
  <1>3. Reach(s, M2)'
    BY <1>1, <1>2 DEF Reach
  <1>4. ASSUME NEW u \in Registered(s) PROVE c[u].on # "unknown" /\ u \in User
    <2>1. u \in User /\ client[s][u].on # "unknown"
      BY DEF Registered, Local
    <2> QED BY <2>1 DEF Absent
  <1>5. Registered(s) \subseteq Registered(s)'
    BY <1>1, <1>4 DEF Registered, Local
  <1> QED BY <1>3, <1>5

\* An event of s's own that introduces nobody.
LEMMA OwnMild ==
    ASSUME IInv, NEW M, Met(M), NEW s \in Server, NEW L, Mild(s, L), Commit(s, L),
           used' = used, known' = known, est' = est
    PROVE  Met(M)'
  <1>1. client' = [client EXCEPT ![s] = L.client] /\ chan' = Transmit(s, chan, L.out)
    BY DEF Commit
  <1>2. M \in [Server -> SUBSET User] /\ Reach(s, M)
    BY DEF Met
  <1>3. \A r \in Server \ {s} : Untouched(r, M, M)
    BY <1>1, OthersUntouched
  <1>4. Reach(s, M)' /\ Registered(s) \subseteq Registered(s)'
    <2>1. \A u \in User : \/ L.client[u] = Absent
                          \/ L.client[u].on = client[s][u].on /\ client[s][u].on # "absent"
      BY DEF Mild
    <2>2. PICK X : X = {}
      OBVIOUS
    <2>3. M[s] = M[s] \cup X /\ \A u \in X : Home[u] \in known[s]
      BY <2>2
    <2>4. \A u \in User : \/ L.client[u] = Absent
                          \/ L.client[u].on = client[s][u].on /\ client[s][u].on # "absent"
                          \/ u \in X /\ L.client[u].on = "person"
      BY <2>1
    <2> HIDE <2>1, <2>2
    <2> QED BY <1>1, <1>2, <2>3, <2>4, KeptReach
  <1>5. Reports(s, L.out, M, M)
    BY <1>4, IdleReports DEF Mild
  <1>6. \A r : Sees(s, r, M)' = Sees(s, r, M)
    BY DEF Sees
  <1> QED BY <1>1, <1>2, <1>3, <1>4, <1>5, <1>6, HandledOwn

\* An idle message that introduces nobody.
LEMMA ReadMild ==
    ASSUME IInv, NEW M, Met(M), NEW s \in Server, NEW t, NEW L, Mild(s, L), CommitFrom(s, t, L),
           <<t, s>> \in Edge, t \in est[s], chan[<<t, s>>] # <<>>, Msg(s, t) \in Idle,
           used' = used, known' = known, est' = est
    PROVE  Met(M)'
  <1>1. /\ client' = [client EXCEPT ![s] = L.client]
        /\ chan' = Transmit(s, [chan EXCEPT ![<<t, s>>] = Tail(@)], L.out)
    BY DEF CommitFrom
  <1>2. M \in [Server -> SUBSET User] /\ Reach(s, M)
    BY DEF Met
  <1>3. \A r \in Server \ {s} : Untouched(r, M, M)
    BY <1>1, OthersUntouched
  <1>4. Reach(s, M)' /\ Registered(s) \subseteq Registered(s)'
    <2>1. \A u \in User : \/ L.client[u] = Absent
                          \/ L.client[u].on = client[s][u].on /\ client[s][u].on # "absent"
      BY DEF Mild
    <2>2. PICK X : X = {}
      OBVIOUS
    <2>3. M[s] = M[s] \cup X /\ \A u \in X : Home[u] \in known[s]
      BY <2>2
    <2>4. \A u \in User : \/ L.client[u] = Absent
                          \/ L.client[u].on = client[s][u].on /\ client[s][u].on # "absent"
                          \/ u \in X /\ L.client[u].on = "person"
      BY <2>1
    <2> HIDE <2>1, <2>2
    <2> QED BY <1>1, <1>2, <2>3, <2>4, KeptReach
  <1>5. Reports(s, L.out, M, M)
    BY <1>4, IdleReports DEF Mild
  <1>6. \A r : Sees(s, r, M)' = Sees(s, r, M)
    BY DEF Sees
  <1>7. After(s, t, Msg(s, t), Sees(s, t, M)) = Sees(s, t, M)
    BY <1>2, EdgeFacts, SeesTyped, IdleFits
  <1> QED BY <1>1, <1>2, <1>3, <1>4, <1>5, <1>6, <1>7, HandledMessage

-----------------------------------------------------------------------------
(* The steps of the clients.                                               *)

\* A server does not know itself as another, nor is it told of its own users.
LEMMA NotSelf ==
    ASSUME NEW s, NEW M, Reach(s, M)
    PROVE  s \notin known[s] /\ \A u \in M[s] : Home[u] # s
  BY Opposite DEF Reach

LEMMA NothingSent ==
    ASSUME IInv, NEW s
    PROVE  chan = Transmit(s, chan, [t \in Server |-> <<>>])
  <1>1. \A e \in Edge : e[2] \in Server /\ chan[e] \o <<>> = chan[e]
    BY DEF IInv, TypeOK, Edge
  <1>2. chan = [e \in Edge |-> chan[e]]
    BY DEF IInv, TypeOK
  <1> QED BY <1>1, <1>2 DEF Transmit

LEMMA MetUnchanged ==
    ASSUME NEW M, Met(M), UNCHANGED <<client, used, known, est, chan>>
    PROVE  Met(M)'
  <1>1. \A r : Registered(r)' = Registered(r)
    BY DEF Registered
  <1>2. \A s, t : Sees(s, t, M)' = Sees(s, t, M) /\ Has(s, t, M)' = Has(s, t, M)
    BY <1>1 DEF Sees, Has
  <1>3. \A s, t : <<s, t>> \in Edge => Told(s, t, M)' /\ Hello(s, t, M)'
    <2> SUFFICES ASSUME NEW s, NEW t, <<s, t>> \in Edge PROVE Told(s, t, M)' /\ Hello(s, t, M)'
      OBVIOUS
    <2>1. Told(s, t, M) /\ Hello(s, t, M)
      BY DEF Met
    <2> QED BY <1>2, <2>1, FlowKept
  <1>4. \A s \in Server : Reach(s, M)'
    BY DEF Met, Reach
  <1> QED BY <1>3, <1>4 DEF Met

LEMMA MrNickMet ==
    ASSUME IInv, NEW M, Met(M), NEW u \in User, NEW n, MrNick(u, n)
    PROVE  Met(M)'
  <1> DEFINE s == Home[u]
             c == [on |-> "unknown", nick |-> n, ts |-> CurrentTime(s)]
             out == [t \in Server |-> <<>>]
  <1>1. s \in Server /\ M \in [Server -> SUBSET User] /\ Reach(s, M)
    BY UserAssumption DEF Met
  <1>2. /\ u \notin used \/ client[s][u].on = "unknown"
        /\ client' = [client EXCEPT ![s][u] = c]
        /\ used' = used \cup {u}
        /\ UNCHANGED <<known, est, chan>>
    BY DEF MrNick
  <1>3. client \in [Server -> [User -> Entry]]
    BY DEF IInv, TypeOK, Table
  <1>4. client'[s][u] = c /\ \A v \in User \ {u} : client'[s][v] = client[s][v]
    BY <1>1, <1>2, <1>3
  <1>5. \A r \in Server \ {s} : client'[r] = client[r]
    BY <1>2, <1>3
  <1>6. c.on = "unknown"
    OBVIOUS
  <1>7. \A r \in Server : Registered(r)' = Registered(r)
    <2>1. \A r \in Server \ {s} : Registered(r)' = Registered(r)
      BY <1>2, <1>5 DEF Registered, Local
    <2> HIDE DEF c
    <2>2. Registered(s)' = Registered(s)
      BY <1>2, <1>4, <1>6 DEF Registered, Local
    <2> QED BY <2>1, <2>2
  <1> HIDE DEF c
  <1>8. \A r \in Server \ {s} : Untouched(r, M, M)
    BY <1>2, <1>5, <1>7 DEF Untouched
  <1>9. Reach(s, M)'
    <2>1. \A v \in User : /\ client'[s][v].on = "absent" => client'[s][v] = Absent
                          /\ client'[s][v].on # "absent" => (Home[v] = s /\ v \in used') \/ v \in M[s]
                          /\ client'[s][v].on = "unknown" => Home[v] = s
      BY <1>1, <1>2, <1>4, <1>6 DEF Reach
    <2> QED BY <1>1, <1>2, <2>1 DEF Reach
  <1>10. Reports(s, out, M, M)
    <2>1. out \in [Server -> Seq(Idle)] /\ \A r \in Server : out[r] = <<>>
      OBVIOUS
    <2> HIDE DEF out, s
    <2> QED BY <1>1, <1>2, <1>7, <2>1, IdleReports
  <1>11. chan' = Transmit(s, chan, out)
    BY <1>2, NothingSent
  <1>12. \A r : Sees(s, r, M)' = Sees(s, r, M)
    BY <1>2 DEF Sees
  <1> HIDE DEF out, s
  <1> QED BY <1>1, <1>2, <1>8, <1>9, <1>10, <1>11, <1>12, HandledOwn

LEMMA RegisterMet ==
    ASSUME IInv, NEW M, Met(M), NEW u \in User, Register(u)
    PROVE  Met(M)'
  <1> DEFINE s == Home[u]
             e == client[s][u]
             m == [type |-> "UID", u |-> u, nick |-> e.nick, ts |-> e.ts]
             c == [client[s] EXCEPT ![u].on = "person"]
             out == [t \in Server |-> IF t \in est[s] THEN Append(<<>>, m) ELSE <<>>]
  <1>1. s \in Server /\ M \in [Server -> SUBSET User] /\ Reach(s, M)
    BY UserAssumption DEF Met
  <1>2. e.on = "unknown" /\ UNCHANGED <<used, known, est>>
    BY DEF Register, Steady
  <1> DEFINE I == [Here(s) EXCEPT !.client[u].on = "person"]
             K == SendTo(I, est[s], m)
  <1>3. K = [client |-> c, nd |-> nd[s], out |-> out]
    <2>1. I = [client |-> c, nd |-> nd[s], out |-> [t \in Server |-> <<>>]]
      BY DEF Here
    <2>2. K = [I EXCEPT !.out = [t \in Server |-> IF t \in est[s] THEN Append(I.out[t], m) ELSE I.out[t]]]
      BY DEF SendTo
    <2> HIDE DEF I, K, c, m
    <2>3. \A t \in Server : I.out[t] = <<>>
      BY <2>1
    <2>4. K = [I EXCEPT !.out = out]
      BY <2>2, <2>3
    <2> HIDE DEF out
    <2> QED BY <2>1, <2>4, Replaced
  <1>4. client' = [client EXCEPT ![s] = c] /\ chan' = Transmit(s, chan, out)
    <2>1. Commit(s, K)
      BY DEF Register
    <2> HIDE DEF c, out, s, K
    <2>2. K.client = c /\ K.out = out
      BY <1>3
    <2> QED BY <2>1, <2>2 DEF Commit
  <1> HIDE DEF I, K
  <1>5. client[s] \in [User -> Entry] /\ e \in Entry /\ e.nick \in NameFor(u)
    BY <1>1, <1>2 DEF IInv, TypeOK, Table, Absent
  <1>6. c[u].on = "person" /\ \A v \in User \ {u} : c[v] = client[s][v]
    BY <1>5 DEF Entry
  <1>7. client'[s] = c
    BY <1>1, <1>4 DEF IInv, TypeOK
  <1>8. m \in Message /\ m.type = "UID" /\ m.u = u
    <2>1. e.ts \in Nat
      BY <1>5 DEF Entry
    <2> HIDE DEF e
    <2> QED BY <1>5, <2>1, BuiltMessages
  <1> HIDE DEF c, m
  <1>9. u \notin M[s] /\ s \notin known[s] /\ u \in used
    BY <1>1, <1>2, NotSelf DEF Reach
  <1>10. \A r \in Server \ {s} : Untouched(r, M, M)
    BY <1>1, <1>2, <1>4, OthersUntouched
  <1>11. Reach(s, M)'
    <2>1. \A v \in User : /\ c[v].on = "absent" => c[v] = Absent
                          /\ c[v].on # "absent" => (Home[v] = s /\ v \in used') \/ v \in M[s]
                          /\ c[v].on = "unknown" => Home[v] = s
      BY <1>1, <1>2, <1>6, <1>9 DEF Reach
    <2> QED BY <1>1, <1>2, <1>7, <2>1 DEF Reach
  <1>12. Registered(s)' = Registered(s) \cup {u} /\ u \notin Registered(s)
    BY <1>2, <1>6, <1>7, <1>9 DEF Registered, Local
  <1>13. Reports(s, out, M, M)
    <2>1. out \in [Server -> Seq(Message)]
      BY <1>8
    <2>2. ASSUME NEW r, <<s, r>> \in Edge
          PROVE  /\ \A i \in 1..Len(out[r]) : out[r][i].type # "SERVER"
                 /\ r \notin est[s] => out[r] = <<>>
                 /\ r \in est[s] => Says(s, r, out[r], Has(s, r, M), Has(s, r, M)')
      <3>1. r \in Server /\ s \in Behind[<<r, s>>] /\ <<r, s>> \in Edge
        BY <2>2, EdgeFacts
      <3>2. out[r] = IF r \in est[s] THEN <<m>> ELSE <<>>
        BY <3>1
      <3>3. \A i \in 1..Len(out[r]) : out[r][i].type # "SERVER"
        BY <1>8, <3>2
      <3>4. Has(s, r, M)'.srv = Has(s, r, M).srv /\ Has(s, r, M).usr \cup {u} \subseteq Has(s, r, M)'.usr
        BY <1>2, <1>12, <3>1 DEF Has
      <3>5. u \notin Has(s, r, M).usr /\ s \in Has(s, r, M).srv \cap Behind[<<r, s>>]
        BY <1>9, <1>12, <3>1 DEF Has
      <3>6. Says(s, r, Append(<<>>, m), Has(s, r, M), Has(s, r, M)')
        <4>1. <<>> \in Seq(Idle)
          OBVIOUS
        <4> QED BY <1>1, <1>8, <3>4, <3>5, <4>1, UidSays
      <3> QED BY <3>1, <3>2, <3>3, <3>6
    <2> HIDE DEF out
    <2> QED BY <2>1, <2>2 DEF Reports
  <1>14. \A r : Sees(s, r, M)' = Sees(s, r, M)
    BY <1>2 DEF Sees
  <1> HIDE DEF out, s
  <1> QED BY <1>1, <1>2, <1>4, <1>10, <1>11, <1>13, <1>14, HandledOwn

LEMMA ExitUnknownMet ==
    ASSUME IInv, NEW M, Met(M), NEW u \in User, ExitUnknown(u)
    PROVE  Met(M)'
  <1> DEFINE s == Home[u]
             L == Drop(Here(s), u)
  <1>1. s \in Server /\ Reach(s, M)
    BY UserAssumption DEF Met
  <1>2. Mild(s, L)
    BY <1>1, HereMild, DropMild
  <1>3. L = [client |-> [client[s] EXCEPT ![u] = Absent], nd |-> nd[s], out |-> [t \in Server |-> <<>>]]
    BY DEF Drop, Here
  <1>4. client' = [client EXCEPT ![s] = L.client] /\ nd' = [nd EXCEPT ![s] = L.nd]
    <2>1. L.client = [client[s] EXCEPT ![u] = Absent] /\ L.nd = nd[s]
      BY <1>3
    <2> QED BY <2>1, <1>1 DEF ExitUnknown, IInv, TypeOK
  <1>5. chan' = Transmit(s, chan, L.out)
    <2>1. L.out = [t \in Server |-> <<>>]
      BY <1>3
    <2> QED BY <2>1, NothingSent DEF ExitUnknown
  <1>6. UNCHANGED <<used, known, est>>
    BY DEF ExitUnknown, Steady
  <1> HIDE DEF L
  <1>7. Commit(s, L)
    BY <1>4, <1>5 DEF Commit
  <1> HIDE DEF s
  <1> QED BY <1>1, <1>2, <1>6, <1>7, OwnMild

LEMMA MNickMet ==
    ASSUME IInv, NEW M, Met(M), NEW u \in User, NEW n \in Nick, MNick(u, n)
    PROVE  Met(M)'
  <1> DEFINE s == Home[u]
             others == Holders(client[s], n)
             ts == CurrentTime(s)
             c == [v \in User |-> IF v \in others THEN Absent ELSE client[s][v]]
             L == [Here(s) EXCEPT !.client = [v \in User |-> IF v \in others THEN Absent ELSE @[v]]]
             m == [type |-> "NICK", u |-> u, nick |-> n, ts |-> ts]
             K == SendTo(L, est[s], m)
  <1>1. s \in Server /\ Reach(s, M) /\ n \in NameFor(u) /\ ts \in Nat
    BY UserAssumption, ClockTyped DEF Met, IInv, NameFor
  <1>2. /\ client[s][u].on = "person" /\ \A v \in others : client[s][v].on = "unknown"
        /\ Commit(s, ChangeLocalNick(K, u, n, ts)) /\ UNCHANGED <<used, known, est>>
    BY DEF MNick, IsPerson
  <1>3. L = [client |-> c, nd |-> nd[s], out |-> [t \in Server |-> <<>>]]
    BY DEF Here
  <1>4. Mild(s, L)
    <2>1. \A v \in User : client[s][v].on = "absent" => client[s][v] = Absent
      BY <1>1 DEF Reach
    <2>2. <<>> \in Seq(Idle)
      OBVIOUS
    <2> HIDE DEF L, s
    <2> QED BY <1>3, <2>1, <2>2 DEF Mild
  <1>5. Present(L, u)
    BY <1>2 DEF Present, Here
  <1>6. m \in Idle
    BY <1>1, IdleMessages
  <1> HIDE DEF L, m
  <1>7. Mild(s, K) /\ K.client = L.client
    BY <1>1, <1>4, <1>6, SendToMild
  <1> HIDE DEF K
  <1>8. Mild(s, ChangeLocalNick(K, u, n, ts))
    BY <1>1, <1>5, <1>7, RenameMild DEF Present
  <1> HIDE DEF s, ts
  <1> QED BY <1>1, <1>2, <1>8, OwnMild

LEMMA QuitMet ==
    ASSUME IInv, NEW M, Met(M), NEW u \in User, Quit(u)
    PROVE  Met(M)'
  <1> DEFINE s == Home[u]
             m == [type |-> "QUIT", u |-> u]
             K == SendTo(Here(s), est[s], m)
  <1>1. s \in Server /\ Reach(s, M)
    BY UserAssumption DEF Met
  <1>2. Commit(s, Drop(K, u)) /\ UNCHANGED <<used, known, est>>
    BY DEF Quit, Steady
  <1>3. m \in Idle
    BY IdleMessages
  <1> HIDE DEF m
  <1>4. Mild(s, K)
    BY <1>1, <1>3, HereMild, SendToMild
  <1> HIDE DEF K
  <1>5. Mild(s, Drop(K, u))
    BY <1>1, <1>4, DropMild
  <1> HIDE DEF s
  <1> QED BY <1>1, <1>2, <1>5, OwnMild

LEMMA MoKillMet ==
    ASSUME IInv, NEW M, Met(M), NEW o \in User, NEW v \in User, MoKill(o, v)
    PROVE  Met(M)'
  <1> DEFINE s == Home[o]
             m == IF Home[v] = s THEN [type |-> "QUIT", u |-> v]
                                 ELSE [type |-> "KILL", u |-> v, src |-> o]
             K == SendTo(Here(s), est[s], m)
  <1>1. s \in Server /\ Reach(s, M)
    BY UserAssumption DEF Met
  <1>2. Commit(s, Drop(K, v)) /\ UNCHANGED <<used, known, est>>
    BY DEF MoKill
  <1>3. m \in Idle
    BY IdleMessages
  <1> HIDE DEF m
  <1>4. Mild(s, K)
    BY <1>1, <1>3, HereMild, SendToMild
  <1> HIDE DEF K
  <1>5. Mild(s, Drop(K, v))
    BY <1>1, <1>4, DropMild
  <1> HIDE DEF s
  <1> QED BY <1>1, <1>2, <1>5, OwnMild

-----------------------------------------------------------------------------
(* The messages.                                                           *)

\* A message that is about to be read, and the server it reaches.
LEMMA Reading ==
    ASSUME IInv, NEW M, Met(M), NEW s, NEW t, <<t, s>> \in Edge, t \in est[s], chan[<<t, s>>] # <<>>
    PROVE  /\ s \in Server /\ t \in Server /\ <<t, s>> \in Edge /\ <<s, t>> \in Edge /\ s # t
           /\ Msg(s, t) \in Message
           /\ Msg(s, t).type \in {"NICK", "SAVE", "QUIT", "KILL"} => Msg(s, t) \in Idle
           /\ Fits(s, t, Msg(s, t), Sees(s, t, M))
           /\ Reach(s, M) /\ Reach(t, M) /\ M \in [Server -> SUBSET User]
           /\ Mild(s, Here(s)) /\ Here(s).client = client[s]
           /\ \A u \in User : client[s][u].ts \in Nat
  <1>2. s \in Server /\ t \in Server /\ <<s, t>> \in Edge /\ s # t
    BY EdgeFacts
  <1>3. chan[<<t, s>>] \in Seq(Message) /\ Msg(s, t) \in Message
    BY DEF IInv, TypeOK, Msg
  <1>4. Msg(s, t).type \in {"NICK", "SAVE", "QUIT", "KILL"} => Msg(s, t) \in Idle
    BY <1>3 DEF Idle
  <1>5. Told(t, s, M)
    BY DEF Met
  <1>6. Fits(s, t, Msg(s, t), Sees(s, t, M))
    BY <1>2, <1>3, <1>5, TurnsRead DEF Told, Msg
  <1>7. Reach(s, M) /\ Reach(t, M) /\ M \in [Server -> SUBSET User]
    BY <1>2 DEF Met
  <1>8. Mild(s, Here(s)) /\ Here(s).client = client[s]
    BY <1>2, <1>7, HereMild
  <1>9. \A u \in User : client[s][u].ts \in Nat
    BY <1>2 DEF IInv, TypeOK, Table, Entry
  <1> QED BY <1>2, <1>3, <1>4, <1>6, <1>7, <1>8, <1>9

LEMMA MsSaveMet ==
    ASSUME IInv, NEW M, Met(M), NEW s, NEW t, MsSave(s, t)
    PROVE  Met(M)'
  <1> DEFINE v == Msg(s, t).u
  <1>1. /\ <<t, s>> \in Edge /\ t \in est[s] /\ chan[<<t, s>>] # <<>> /\ Msg(s, t).type = "SAVE"
        /\ UNCHANGED <<used, known, est>>
    BY DEF MsSave, First, Msg, Steady
  <1>2. /\ s \in Server /\ Msg(s, t) \in Message /\ Msg(s, t) \in Idle /\ Mild(s, Here(s))
        /\ Here(s).client = client[s] /\ \A u \in User : client[s][u].ts \in Nat
    BY <1>1, Reading
  <1>3. v \in User
    BY <1>1, <1>2, ReadMessages
  <1>4. CASE Obeys(client[s][v], v, Msg(s, t).ts) /\ CommitFrom(s, t, SaveUser(Here(s), s, t, v))
    <2>1. Present(Here(s), v) /\ Here(s).client[v].ts \in Nat
      BY <1>2, <1>3, <1>4 DEF Obeys, IsPerson, Present
    <2> HIDE DEF v
    <2>2. Mild(s, SaveUser(Here(s), s, t, v))
      BY <1>2, <1>3, <2>1, SaveUserMild
    <2> QED BY <1>1, <1>2, <1>4, <2>2, ReadMild
  <1>5. CASE CommitFrom(s, t, Here(s))
    BY <1>1, <1>2, <1>5, ReadMild
  <1> QED BY <1>4, <1>5 DEF MsSave

LEMMA UnknownPrefixMet ==
    ASSUME IInv, NEW M, Met(M), NEW s, NEW t, <<t, s>> \in Edge, t \in est[s],
           chan[<<t, s>>] # <<>>, Msg(s, t) \in Idle, NEW u \in User, UnknownPrefix(s, t, u),
           UNCHANGED <<used, known, est>>
    PROVE  Met(M)'
  <1>1. s \in Server /\ Mild(s, Here(s))
    BY Reading
  <1>2. 0 \in Nat
    OBVIOUS
  <1>3. Mild(s, KillBack(Here(s), s, t, u))
    BY <1>1, <1>2, BackMild
  <1>4. CommitFrom(s, t, KillBack(Here(s), s, t, u))
    BY DEF UnknownPrefix
  <1> QED BY <1>1, <1>3, <1>4, ReadMild

LEMMA RelayMild ==
    ASSUME NEW s \in Server, NEW t, NEW m \in Idle, Mild(s, Here(s)), NEW u \in User
    PROVE  Mild(s, Drop(SendTo(Here(s), est[s] \ {t}, m), u))
  <1>1. Mild(s, SendTo(Here(s), est[s] \ {t}, m))
    BY SendToMild
  <1> QED BY <1>1, DropMild

LEMMA MsQuitMet ==
    ASSUME IInv, NEW M, Met(M), NEW s, NEW t, MsQuit(s, t)
    PROVE  Met(M)'
  <1> DEFINE u == Msg(s, t).u
  <1>1. /\ <<t, s>> \in Edge /\ t \in est[s] /\ chan[<<t, s>>] # <<>> /\ Msg(s, t).type = "QUIT"
        /\ UNCHANGED <<used, known, est>>
    BY DEF MsQuit, First, Msg, Steady
  <1>2. /\ s \in Server /\ Msg(s, t) \in Message /\ Msg(s, t) \in Idle /\ Mild(s, Here(s))
    BY <1>1, Reading
  <1>3. u \in User
    BY <1>1, <1>2, ReadMessages
  <1>4. CASE UnknownPrefix(s, t, u)
    BY <1>1, <1>2, <1>3, <1>4, UnknownPrefixMet
  <1>5. CASE CommitFrom(s, t, Drop(SendTo(Here(s), est[s] \ {t}, Msg(s, t)), u))
    <2>1. Mild(s, Drop(SendTo(Here(s), est[s] \ {t}, Msg(s, t)), u))
      BY <1>2, <1>3, RelayMild
    <2> QED BY <1>1, <1>2, <1>5, <2>1, ReadMild
  <1> QED BY <1>4, <1>5 DEF MsQuit

LEMMA MsKillMet ==
    ASSUME IInv, NEW M, Met(M), NEW s, NEW t, MsKill(s, t)
    PROVE  Met(M)'
  <1> DEFINE v == Msg(s, t).u
             src == Msg(s, t).src
  <1>1. /\ <<t, s>> \in Edge /\ t \in est[s] /\ chan[<<t, s>>] # <<>> /\ Msg(s, t).type = "KILL"
        /\ UNCHANGED <<used, known, est>>
    BY DEF MsKill, First, Msg, Steady
  <1>2. /\ s \in Server /\ Msg(s, t) \in Message /\ Msg(s, t) \in Idle /\ Mild(s, Here(s))
    BY <1>1, Reading
  <1>3. v \in User
    BY <1>1, <1>2, ReadMessages
  <1>4. CASE src \in User /\ UnknownPrefix(s, t, src)
    BY <1>1, <1>2, <1>4, UnknownPrefixMet
  <1>5. CASE CommitFrom(s, t, Here(s))
    BY <1>1, <1>2, <1>5, ReadMild
  <1>6. CASE CommitFrom(s, t, Drop(SendTo(Here(s), est[s] \ {t}, Msg(s, t)), v))
    <2>1. Mild(s, Drop(SendTo(Here(s), est[s] \ {t}, Msg(s, t)), v))
      BY <1>2, <1>3, RelayMild
    <2> QED BY <1>1, <1>2, <1>6, <2>1, ReadMild
  <1> QED BY <1>4, <1>5, <1>6 DEF MsKill

LEMMA McNickMet ==
    ASSUME IInv, NEW M, Met(M), NEW s, NEW t, McNick(s, t)
    PROVE  Met(M)'
  <1> DEFINE u == Msg(s, t).u
             n == Msg(s, t).nick
             ts == Msg(s, t).ts
             L == Here(s)
  <1>1. /\ <<t, s>> \in Edge /\ t \in est[s] /\ chan[<<t, s>>] # <<>> /\ Msg(s, t).type = "NICK"
        /\ UNCHANGED <<used, known, est>>
    BY DEF McNick, First, Msg, Steady
  <1>2. /\ s \in Server /\ Msg(s, t) \in Message /\ Msg(s, t) \in Idle /\ Mild(s, L)
        /\ L.client = client[s] /\ (\A x \in User : client[s][x].ts \in Nat) /\ Reach(s, M)
    BY <1>1, Reading
  <1>3. u \in User /\ n \in NameFor(u) /\ ts \in Nat
    BY <1>1, <1>2, ReadMessages
  <1>4. SUFFICES ASSUME NEW K, CommitFrom(s, t, K), Mild(s, K) PROVE Met(M)'
    <2>1. CASE UnknownPrefix(s, t, u)
      BY <1>1, <1>2, <1>3, <2>1, UnknownPrefixMet
    <2>2. CASE IsPerson(client[s][u]) /\ CommitFrom(s, t, ChangeRemoteNick(Overridden(s, n), s, t, u, n, ts))
      <3>1. Mild(s, Overridden(s, n)) /\ Present(Overridden(s, n), u)
        BY <1>2, <1>3, <2>2, HereMild DEF IsPerson
      <3>2. Mild(s, ChangeRemoteNick(Overridden(s, n), s, t, u, n, ts))
        <4> HIDE DEF u, n, ts
        <4> QED BY <1>2, <1>3, <3>1, ChangeRemoteNickMild
      <3> QED BY <1>4, <2>2, <3>2
    <2>3. CASE CommitFrom(s, t, L)
      BY <1>2, <1>4, <2>3
    <2>4. ASSUME NEW v \in PersonsHolding(s, n) \ {u}, IsPerson(client[s][u]),
                 \/ CommitFrom(s, t, ForceUidNick(SaveBack(SaveUser(L, s, s, v), t, u, ts), s, t, u))
                 \/ CommitFrom(s, t, KillEverywhere(KillEverywhere(L, s, u), s, v))
                 \/ CommitFrom(s, t, ForceUidNick(SaveBack(L, t, u, ts), s, t, u))
                 \/ CommitFrom(s, t, KillEverywhere(L, s, u))
                 \/ CommitFrom(s, t, ChangeRemoteNick(SaveUser(L, s, s, v), s, t, u, n, ts))
                 \/ CommitFrom(s, t, ChangeRemoteNick(KillEverywhere(L, s, v), s, t, u, n, ts))
          PROVE  Met(M)'
      <3>1. /\ v \in User /\ v # u /\ Present(L, u) /\ Present(L, v)
            /\ L.client[v].ts \in Nat
        BY <1>2, <2>4 DEF PersonsHolding, Holders, IsPerson, Present
      <3> HIDE DEF u, n, ts, L
      <3>2. Mild(s, SaveUser(L, s, s, v)) /\ Present(SaveUser(L, s, s, v), u)
        BY <1>2, <1>3, <3>1, SaveUserMild
      <3>3. /\ Mild(s, SaveBack(SaveUser(L, s, s, v), t, u, ts))
            /\ Present(SaveBack(SaveUser(L, s, s, v), t, u, ts), u)
        <4> DEFINE K == SaveUser(L, s, s, v)
        <4>1. Mild(s, K)
          BY <3>2
        <4> HIDE DEF K
        <4>2. Mild(s, SaveBack(K, t, u, ts)) /\ SaveBack(K, t, u, ts).client = K.client
          BY <1>1, <1>2, <1>3, <4>1, BackMild
        <4> QED BY <3>2, <4>2 DEF Present, K
      <3>4. Mild(s, SaveBack(L, t, u, ts)) /\ Present(SaveBack(L, t, u, ts), u)
        <4>1. Mild(s, SaveBack(L, t, u, ts)) /\ SaveBack(L, t, u, ts).client = L.client
          BY <1>1, <1>2, <1>3, BackMild
        <4> QED BY <3>1, <4>1 DEF Present
      <3>5. Mild(s, ForceUidNick(SaveBack(SaveUser(L, s, s, v), t, u, ts), s, t, u))
        BY <1>2, <1>3, <3>3, ForceUidNickMild
      <3>6. Mild(s, ForceUidNick(SaveBack(L, t, u, ts), s, t, u))
        BY <1>2, <1>3, <3>4, ForceUidNickMild
      <3>7. Mild(s, KillEverywhere(L, s, u)) /\ Mild(s, KillEverywhere(L, s, v)) /\ Present(KillEverywhere(L, s, v), u)
        BY <1>2, <1>3, <3>1, KillEverywhereMild DEF Present
      <3>8. Mild(s, KillEverywhere(KillEverywhere(L, s, u), s, v))
        BY <1>2, <3>1, <3>7, KillEverywhereMild
      <3>9. Mild(s, ChangeRemoteNick(SaveUser(L, s, s, v), s, t, u, n, ts))
        BY <1>2, <1>3, <3>2, ChangeRemoteNickMild
      <3>10. Mild(s, ChangeRemoteNick(KillEverywhere(L, s, v), s, t, u, n, ts))
        BY <1>2, <1>3, <3>7, ChangeRemoteNickMild
      <3> QED BY <1>4, <2>4, <3>5, <3>6, <3>7, <3>8, <3>9, <3>10
    <2> QED BY <2>1, <2>2, <2>3, <2>4 DEF McNick
  <1> HIDE DEF L
  <1> QED BY <1>1, <1>2, <1>4, ReadMild

-----------------------------------------------------------------------------
(* The introduction of a user.                                             *)

\* M once s has been told of u.
Learns(M, s, u) == [M EXCEPT ![s] = @ \cup {u}]

\* t introduces u to s.
Brings(s, t, u) ==
    /\ <<t, s>> \in Edge /\ t \in est[s] /\ chan[<<t, s>>] # <<>>
    /\ Msg(s, t).type = "UID" /\ Msg(s, t).u = u

\* u is new to s, and lives on a server that s knows behind t.
LEMMA UidNew ==
    ASSUME IInv, NEW M, Met(M), NEW s, NEW t, NEW u, Brings(s, t, u)
    PROVE  /\ u \in User /\ u \notin M[s] /\ Home[u] # s /\ Home[u] \in known[s] /\ Home[u] \in Behind[<<s, t>>]
  <1> DEFINE m == Msg(s, t)
  <1>0. <<t, s>> \in Edge /\ t \in est[s] /\ chan[<<t, s>>] # <<>> /\ m.type = "UID" /\ m.u = u
    BY DEF Brings
  <1>1. <<s, t>> \in Edge /\ m \in Message /\ Fits(s, t, m, Sees(s, t, M))
    BY <1>0, Reading
  <1>2. u \in User
    BY <1>0, <1>1, ReadMessages
  <1>3. u \notin Sees(s, t, M).usr /\ Home[u] \in Sees(s, t, M).srv \cap Behind[<<s, t>>]
    BY <1>0, <1>1 DEF Fits
  <1> QED BY <1>1, <1>2, <1>3, Opposite DEF Sees

\* The step in what s has been told.
LEMMA UidLearnt ==
    ASSUME IInv, NEW M, Met(M), NEW s, NEW t, NEW u, Brings(s, t, u), NEW M2, M2 = Learns(M, s, u)
    PROVE  /\ M2 \in [Server -> SUBSET User] /\ M2[s] = M[s] \cup {u}
           /\ \A r \in Server \ {s} : M2[r] = M[r]
  <1>1. u \in User
    BY UidNew
  <1>2. s \in Server /\ M \in [Server -> SUBSET User]
    BY Reading DEF Brings
  <1> QED BY <1>1, <1>2 DEF Learns

\* The step in what s sees behind t, and behind the others.
LEMMA UidSeen ==
    ASSUME IInv, NEW M, Met(M), NEW s, NEW t, NEW u, Brings(s, t, u), NEW M2, M2 = Learns(M, s, u)
    PROVE  /\ Sees(s, t, M2) = After(s, t, Msg(s, t), Sees(s, t, M))
           /\ \A r : <<s, r>> \in Edge /\ r # t => Sees(s, r, M2) = Sees(s, r, M)
  <1> DEFINE m == Msg(s, t)
  <1>1. <<s, t>> \in Edge
    BY Reading DEF Brings
  <1>2. m.type = "UID" /\ m.u = u
    BY DEF Brings
  <1>4. Home[u] \in Behind[<<s, t>>] /\ M2[s] = M[s] \cup {u}
    <2>1. Home[u] \in Behind[<<s, t>>]
      BY UidNew
    <2>2. M2[s] = M[s] \cup {u}
      BY UidLearnt
    <2> QED BY <2>1, <2>2
  <1> HIDE DEF m
  <1>6. Sees(s, t, M2) = After(s, t, m, Sees(s, t, M))
    <2>1. NewServers(m, t) = {} /\ NewUsers(m) = {u} /\ \A y : ~Cuts(s, m, y)
      BY <1>2 DEF NewServers, NewUsers, Cuts
    <2>2. Sees(s, t, M2).usr = Sees(s, t, M).usr \cup {u}
      BY <1>4 DEF Sees
    <2>3. Sees(s, t, M2) = [srv |-> Sees(s, t, M).srv, usr |-> Sees(s, t, M).usr \cup {u}]
      BY <2>2 DEF Sees
    <2> QED BY <2>1, <2>3 DEF After
  <1>7. ASSUME NEW r, <<s, r>> \in Edge, r # t
        PROVE  Sees(s, r, M2) = Sees(s, r, M)
    <2>1. Home[u] \notin Behind[<<s, r>>]
      BY <1>1, <1>4, <1>7, Beyond
    <2> QED BY <1>4, <2>1 DEF Sees
  <1> QED BY <1>6, <1>7 DEF m

\* s has the clients it had, and u.
Admits(s, u, c) ==
    \A v \in User : \/ c[v] = Absent
                    \/ c[v].on = client[s][v].on /\ client[s][v].on # "absent"
                    \/ v = u /\ c[v].on = "person"

\* However s takes it, if it tells the others what it does.
LEMMA ReadUid ==
    ASSUME IInv, NEW M, Met(M), NEW s, NEW t, NEW u, Brings(s, t, u), NEW M2, M2 = Learns(M, s, u),
           NEW L, CommitFrom(s, t, L), used' = used, known' = known, est' = est, Admits(s, u, L.client),
           Registered(s) \subseteq Registered(s)' => Reports(s, L.out, M, M2)
    PROVE  Met(M2)'
  <1>1. /\ client' = [client EXCEPT ![s] = L.client]
        /\ chan' = Transmit(s, [chan EXCEPT ![<<t, s>>] = Tail(@)], L.out)
    BY DEF CommitFrom
  <1>2. u \in User /\ Home[u] \in known[s]
    BY UidNew
  <1>3. /\ M2 \in [Server -> SUBSET User] /\ M2[s] = M[s] \cup {u}
        /\ \A r \in Server \ {s} : M2[r] = M[r]
    BY UidLearnt
  <1>4. /\ Sees(s, t, M2) = After(s, t, Msg(s, t), Sees(s, t, M))
        /\ \A r : <<s, r>> \in Edge /\ r # t => Sees(s, r, M2) = Sees(s, r, M)
    BY UidSeen
  <1>5. <<t, s>> \in Edge /\ t \in est[s] /\ chan[<<t, s>>] # <<>>
    BY DEF Brings
  <1>6. s \in Server /\ Reach(s, M)
    BY <1>5, Reading
  <1>7. \A r : Sees(s, r, M2)' = Sees(s, r, M2)
    BY DEF Sees
  <1>8. \A r \in Server \ {s} : Untouched(r, M, M2)
    BY <1>1, <1>3, <1>6, OthersUntouched
  <1>9. PICK X, c : X = {u} /\ c = L.client
    OBVIOUS
  <1>10. M2[s] = M[s] \cup X /\ \A v \in X : Home[v] \in known[s]
    BY <1>2, <1>3, <1>9
  <1>11. \A v \in User : \/ c[v] = Absent
                         \/ c[v].on = client[s][v].on /\ client[s][v].on # "absent"
                         \/ v \in X /\ c[v].on = "person"
    BY <1>9 DEF Admits
  <1>12. client' = [client EXCEPT ![s] = c]
    BY <1>1, <1>9
  <1>13. Reach(s, M2)' /\ Registered(s) \subseteq Registered(s)'
    <2> HIDE <1>9
    <2> QED BY <1>6, <1>10, <1>11, <1>12, KeptReach
  <1>14. Reports(s, L.out, M, M2)
    BY <1>13
  <1>15. /\ \A r : <<s, r>> \in Edge /\ r # t => Sees(s, r, M2)' = Sees(s, r, M)
         /\ Sees(s, t, M2)' = After(s, t, Msg(s, t), Sees(s, t, M))
    BY <1>4, <1>7
  <1>16. used \subseteq used'
    OBVIOUS
  <1> QED BY <1>1, <1>3, <1>5, <1>6, <1>8, <1>13, <1>14, <1>15, <1>16, HandledMessage

\* u is refused, or killed, and so perhaps are others.
LEMMA UidRefused ==
    ASSUME IInv, NEW M, Met(M), NEW s, NEW t, NEW u, Brings(s, t, u),
           NEW L, Mild(s, L), CommitFrom(s, t, L), used' = used, known' = known, est' = est
    PROVE  \E M2 : Met(M2)'
  <1>1. PICK M2 : M2 = Learns(M, s, u)
    OBVIOUS
  <1>2. M[s] \subseteq M2[s]
    <2>1. M2[s] = M[s] \cup {u}
      BY <1>1, UidLearnt
    <2> QED BY <2>1
  <1>3. s \in Server
    BY Reading DEF Brings
  <1>4. Registered(s) \subseteq Registered(s)' => Reports(s, L.out, M, M2)
    BY <1>2, <1>3, IdleReports DEF Mild
  <1>5. Admits(s, u, L.client)
    BY DEF Mild, Admits
  <1>6. Met(M2)'
    BY <1>1, <1>4, <1>5, ReadUid
  <1> QED BY <1>6

\* u is let in, perhaps under its UID.
LEMMA UidIntroduced ==
    ASSUME IInv, NEW M, Met(M), NEW s, NEW t, NEW u, Brings(s, t, u),
           NEW L, Mild(s, L), NEW n \in NameFor(u), NEW ts \in Nat,
           CommitFrom(s, t, Introduce(L, s, t, u, n, ts)), used' = used, known' = known, est' = est
    PROVE  \E M2 : Met(M2)'
  <1>0. PICK M2 : M2 = Learns(M, s, u)
    OBVIOUS
  <1> DEFINE m == [type |-> "UID", u |-> u, nick |-> n, ts |-> ts]
             e == [on |-> "person", nick |-> n, ts |-> ts]
             c == [L.client EXCEPT ![u] = e]
             out == [r \in Server |-> IF r \in est[s] \ {t} THEN Append(L.out[r], m) ELSE L.out[r]]
             S == Store(L, u, e)
             K == Introduce(L, s, t, u, n, ts)
  <1>1. /\ u \in User /\ u \notin M[s] /\ Home[u] # s /\ Home[u] \in known[s] /\ Home[u] \in Behind[<<s, t>>]
    BY UidNew
  <1>6. M2[s] = M[s] \cup {u}
    BY <1>0, UidLearnt
  <1>2. s \in Server /\ <<s, t>> \in Edge
    BY Reading DEF Brings
  <1>3. m \in Message /\ m.type = "UID" /\ m.u = u
    BY <1>1, BuiltMessages
  <1>4. K = [client |-> c, nd |-> L.nd \ {n}, out |-> out]
    <2>1. S = [client |-> c, nd |-> L.nd \ {n}, out |-> L.out]
      BY DEF Store
    <2>2. K = [S EXCEPT !.out = [r \in Server |-> IF r \in est[s] \ {t} THEN Append(S.out[r], m) ELSE S.out[r]]]
      BY DEF Introduce, SendTo
    <2> HIDE DEF S, K, c, m
    <2>3. S.out = L.out
      BY <2>1
    <2>4. K = [S EXCEPT !.out = out]
      BY <2>2, <2>3
    <2> HIDE DEF out
    <2> QED BY <2>1, <2>4, Replaced
  <1>5. \A v \in User : c[v] = IF v = u THEN e ELSE L.client[v]
    BY DEF Mild
  <1>8. e.on = "person"
    OBVIOUS
  <1> HIDE DEF m, e, c, S, K
  <1>9. ASSUME Registered(s) \subseteq Registered(s)'
        PROVE  Reports(s, out, M, M2)
    <2>1. out \in [Server -> Seq(Message)]
      <3>1. Seq(Idle) \subseteq Seq(Message)
        BY DEF Idle
      <3>2. \A r \in Server : L.out[r] \in Seq(Message)
        BY <3>1 DEF Mild
      <3> QED BY <1>3, <3>2
    <2>2. ASSUME NEW r, <<s, r>> \in Edge
          PROVE  /\ \A i \in 1..Len(out[r]) : out[r][i].type # "SERVER"
                 /\ r \notin est[s] => out[r] = <<>>
                 /\ r \in est[s] => Says(s, r, out[r], Has(s, r, M), Has(s, r, M2)')
      <3>1. r \in Server
        BY <2>2, EdgeFacts
      <3>2. L.out[r] \in Seq(Idle) /\ (r \notin est[s] => L.out[r] = <<>>)
        BY <3>1 DEF Mild
      <3>3. Has(s, r, M2)'.srv = Has(s, r, M).srv /\ Has(s, r, M).usr \subseteq Has(s, r, M2)'.usr
        BY <1>6, <1>9 DEF Has
      <3>4. CASE r \in est[s] \ {t}
        <4>1. out[r] = Append(L.out[r], m)
          BY <3>1, <3>4
        <4>2. Home[u] \in Behind[<<r, s>>]
          BY <1>1, <1>2, <2>2, <3>4, Beyond
        <4>3. Has(s, r, M).usr \cup {u} \subseteq Has(s, r, M2)'.usr
          BY <1>6, <3>3, <4>2 DEF Has
        <4>4. u \notin Has(s, r, M).usr /\ Home[u] \in Has(s, r, M).srv \cap Behind[<<r, s>>]
          BY <1>1, <4>2 DEF Has, Registered, Local
        <4>5. Says(s, r, Append(L.out[r], m), Has(s, r, M), Has(s, r, M2)')
          BY <1>2, <1>3, <3>2, <3>3, <4>3, <4>4, UidSays
        <4>6. \A i \in 1..Len(Append(L.out[r], m)) : Append(L.out[r], m)[i].type # "SERVER"
          BY <1>3, <3>2 DEF Idle
        <4> QED BY <3>4, <4>1, <4>5, <4>6
      <3>5. CASE r \notin est[s] \ {t}
        <4>1. out[r] = L.out[r]
          BY <3>1, <3>5
        <4>2. Says(s, r, L.out[r], Has(s, r, M), Has(s, r, M2)')
          BY <3>2, <3>3, IdleSays
        <4>3. \A i \in 1..Len(L.out[r]) : L.out[r][i].type # "SERVER"
          BY <3>2 DEF Idle
        <4> QED BY <3>2, <4>1, <4>2, <4>3
      <3> QED BY <3>4, <3>5
    <2> HIDE DEF out
    <2> QED BY <2>1, <2>2 DEF Reports
  <1> HIDE DEF out
  <1>10. K.client = c /\ K.out = out
    BY <1>4
  <1>11. Admits(s, u, K.client)
    BY <1>5, <1>8, <1>10 DEF Mild, Admits
  <1>12. CommitFrom(s, t, K)
    BY DEF K
  <1>13. Registered(s) \subseteq Registered(s)' => Reports(s, K.out, M, M2)
    BY <1>9, <1>10
  <1>14. Met(M2)'
    BY <1>0, <1>11, <1>12, <1>13, ReadUid
  <1> QED BY <1>14

LEMMA MsUidMet ==
    ASSUME IInv, NEW M, Met(M), NEW s, NEW t, MsUid(s, t)
    PROVE  \E M2 : Met(M2)'
  <1> DEFINE u == Msg(s, t).u
             n == Msg(s, t).nick
             ts == Msg(s, t).ts
             L == Here(s)
  <1>1. /\ <<t, s>> \in Edge /\ t \in est[s] /\ chan[<<t, s>>] # <<>> /\ Msg(s, t).type = "UID"
        /\ used' = used /\ known' = known /\ est' = est
    BY DEF MsUid, First, Msg, Steady
  <1>2. /\ s \in Server /\ Msg(s, t) \in Message /\ Mild(s, L) /\ Reach(s, M)
        /\ L.client = client[s] /\ (\A x \in User : client[s][x].ts \in Nat)
    BY <1>1, Reading
  <1>3. u \in User /\ n \in NameFor(u) /\ ts \in Nat /\ u \in NameFor(u)
    BY <1>1, <1>2, ReadMessages, NameFacts
  <1>8. Brings(s, t, u)
    BY <1>1 DEF Brings
  <1> HIDE DEF u, n, ts, L
  <1>4. ASSUME NEW K, Mild(s, K), CommitFrom(s, t, K) PROVE \E M2 : Met(M2)'
    BY <1>1, <1>4, <1>8, UidRefused
  <1>5. ASSUME NEW K, Mild(s, K), NEW x \in NameFor(u), CommitFrom(s, t, Introduce(K, s, t, u, x, ts))
        PROVE  \E M2 : Met(M2)'
    BY <1>1, <1>3, <1>5, <1>8, UidIntroduced
  <1>6. CASE CommitFrom(s, t, Introduce(Overridden(s, n), s, t, u, n, ts))
    <2>1. Mild(s, Overridden(s, n))
      BY <1>2, HereMild
    <2> QED BY <1>3, <1>5, <1>6, <2>1
  <1>7. ASSUME NEW v \in PersonsHolding(s, n),
               \/ CommitFrom(s, t, Introduce(SaveBack(SaveUser(L, s, s, v), t, u, ts), s, t, u, u, ts))
               \/ CommitFrom(s, t, KillEverywhere(KillBack(L, s, t, u), s, v))
               \/ CommitFrom(s, t, Introduce(SaveBack(L, t, u, ts), s, t, u, u, ts))
               \/ CommitFrom(s, t, KillBack(L, s, t, u))
               \/ CommitFrom(s, t, Introduce(SaveUser(L, s, s, v), s, t, u, n, ts))
               \/ CommitFrom(s, t, Introduce(KillEverywhere(L, s, v), s, t, u, n, ts))
        PROVE  \E M2 : Met(M2)'
    <2>1. v \in User /\ Present(L, v) /\ L.client[v].ts \in Nat
      BY <1>2, <1>7 DEF PersonsHolding, Holders, IsPerson, Present
    <2>2. Mild(s, SaveUser(L, s, s, v)) /\ Mild(s, KillEverywhere(L, s, v))
      BY <1>2, <2>1, SaveUserMild, KillEverywhereMild
    <2>3. Mild(s, SaveBack(SaveUser(L, s, s, v), t, u, ts))
      BY <1>1, <1>2, <1>3, <2>2, BackMild
    <2>4. Mild(s, SaveBack(L, t, u, ts)) /\ Mild(s, KillBack(L, s, t, u))
      BY <1>1, <1>2, <1>3, BackMild
    <2>5. Mild(s, KillEverywhere(KillBack(L, s, t, u), s, v))
      BY <1>2, <2>1, <2>4, KillEverywhereMild
    <2> QED BY <1>3, <1>4, <1>5, <1>7, <2>2, <2>3, <2>4, <2>5
  <1> QED BY <1>6, <1>7 DEF MsUid, u, n, ts, L

-----------------------------------------------------------------------------
(* The introduction of a server, and its loss.                             *)

LEMMA OneSays ==
    ASSUME NEW t \in Server, NEW s, NEW m \in Message, NEW S, NEW S2,
           \A T \in View : Match(T, S) => Fits(s, t, m, T) /\ Match(After(s, t, m, T), S2)
    PROVE  Says(t, s, <<m>>, S, S2)
  BY TurnsOne, AfterTyped DEF Says

LEMMA NothingSays ==
    ASSUME NEW t, NEW s, NEW S
    PROVE  Says(t, s, <<>>, S, S)
  BY TurnsEmpty DEF Says

LEMMA SidSays ==
    ASSUME NEW t \in Server, NEW s, NEW m \in Message, m.type = "SID", NEW S, NEW S2,
           m.sid \notin S.srv, m.sid \in Behind[<<s, t>>],
           S2.srv = S.srv \cup {m.sid}, S2.usr = S.usr
    PROVE  Says(t, s, <<m>>, S, S2)
  <1> SUFFICES ASSUME NEW T \in View, Match(T, S)
               PROVE  Fits(s, t, m, T) /\ Match(After(s, t, m, T), S2)
    BY OneSays
  <1>1. NewServers(m, t) = {m.sid} /\ NewUsers(m) = {} /\ \A y : ~Cuts(s, m, y)
    BY DEF NewServers, NewUsers, Cuts
  <1>2. Fits(s, t, m, T)
    BY <1>1 DEF Fits, Match
  <1>3. After(s, t, m, T).srv = T.srv \cup {m.sid} /\ After(s, t, m, T).usr = T.usr
    BY <1>1 DEF After, View
  <1> QED BY <1>2, <1>3 DEF Match

LEMMA SquitSays ==
    ASSUME NEW t \in Server, NEW s, NEW m \in Message, m.type = "SQUIT", NEW S, NEW S2,
           m.sid \in S.srv, m.sid \in Behind[<<s, t>>] \ {t},
           S2.srv = {y \in S.srv : m.sid \notin Way(s, y)},
           {u \in S.usr : m.sid \notin Way(s, Home[u])} \subseteq S2.usr
    PROVE  Says(t, s, <<m>>, S, S2)
  <1> SUFFICES ASSUME NEW T \in View, Match(T, S)
               PROVE  Fits(s, t, m, T) /\ Match(After(s, t, m, T), S2)
    BY OneSays
  <1>1. NewServers(m, t) = {} /\ NewUsers(m) = {} /\ \A y : Cuts(s, m, y) <=> m.sid \in Way(s, y)
    BY DEF NewServers, NewUsers, Cuts
  <1>2. Fits(s, t, m, T)
    BY <1>1 DEF Fits, Match
  <1>3. /\ After(s, t, m, T).srv = {y \in T.srv : m.sid \notin Way(s, y)}
        /\ After(s, t, m, T).usr = {u \in T.usr : m.sid \notin Way(s, Home[u])}
    BY <1>1 DEF After
  <1>4. T.usr \subseteq S.usr /\ T.srv = S.srv
    BY DEF Match
  <1>5. After(s, t, m, T).srv = S2.srv
    BY <1>3, <1>4
  <1>6. After(s, t, m, T).usr \subseteq S2.usr
    BY <1>3, <1>4
  <1> QED BY <1>2, <1>5, <1>6 DEF Match

\* The same message m to each of the peers.
Tell(peers, m) == [r \in Server |-> IF r \in peers THEN <<m>> ELSE <<>>]

LEMMA TellReports ==
    ASSUME NEW s \in Server, NEW M, NEW M2, NEW m \in Message, m.type # "SERVER",
           NEW peers, peers \subseteq est[s],
           \A r : <<s, r>> \in Edge /\ r \in peers => Says(s, r, <<m>>, Has(s, r, M), Has(s, r, M2)'),
           \A r : <<s, r>> \in Edge /\ r \in est[s] \ peers => Has(s, r, M2)' = Has(s, r, M)
    PROVE  Reports(s, Tell(peers, m), M, M2)
  <1> DEFINE out == Tell(peers, m)
  <1>1. out \in [Server -> Seq(Message)]
    BY DEF Tell
  <1>2. ASSUME NEW r, <<s, r>> \in Edge
        PROVE  /\ \A i \in 1..Len(out[r]) : out[r][i].type # "SERVER"
               /\ r \notin est[s] => out[r] = <<>>
               /\ r \in est[s] => Says(s, r, out[r], Has(s, r, M), Has(s, r, M2)')
    <2>1. r \in Server
      BY <1>2, EdgeFacts
    <2>2. CASE r \in peers
      <3>1. out[r] = <<m>>
        BY <2>1, <2>2 DEF Tell
      <3>2. \A i \in 1..Len(<<m>>) : <<m>>[i].type # "SERVER"
        OBVIOUS
      <3> QED BY <1>2, <2>2, <3>1, <3>2
    <2>3. CASE r \notin peers
      <3>1. out[r] = <<>>
        BY <2>1, <2>3 DEF Tell
      <3>2. \A i \in 1..Len(<<>>) : <<>>[i].type # "SERVER"
        OBVIOUS
      <3>3. r \in est[s] => Says(s, r, <<>>, Has(s, r, M), Has(s, r, M2)')
        BY <1>2, <2>3, NothingSays
      <3> HIDE DEF out
      <3> QED BY <3>1, <3>2, <3>3
    <2> QED BY <2>2, <2>3
  <1> QED BY <1>1, <1>2 DEF Reports

\* What goes to the peers of a server that has done nothing else yet.
LEMMA HereTells ==
    ASSUME NEW s, NEW L, L = [client |-> L.client, nd |-> L.nd, out |-> Here(s).out], NEW peers, NEW m
    PROVE  /\ SendTo(L, peers, m).out = Tell(peers, m)
           /\ SendTo(L, peers, m).client = L.client
  <1> DEFINE out == [r \in Server |-> IF r \in peers THEN Append(L.out[r], m) ELSE L.out[r]]
  <1>1. L.out = [r \in Server |-> <<>>]
    BY DEF Here
  <1>2. Append(<<>>, m) = <<m>>
    OBVIOUS
  <1>3. out = Tell(peers, m)
    BY <1>1, <1>2 DEF Tell
  <1>4. SendTo(L, peers, m) = [L EXCEPT !.out = out]
    BY DEF SendTo
  <1> HIDE DEF out
  <1>5. SendTo(L, peers, m) = [client |-> L.client, nd |-> L.nd, out |-> out]
    BY <1>4, Replaced
  <1> QED BY <1>3, <1>5

LEMMA MsSidMet ==
    ASSUME IInv, NEW M, Met(M), NEW s, NEW t, MsSid(s, t)
    PROVE  Met(M)'
  <1> DEFINE m == Msg(s, t)
             x == m.sid
             out == Tell(est[s] \ {t}, m)
  <1>1. /\ <<t, s>> \in Edge /\ t \in est[s] /\ chan[<<t, s>>] # <<>> /\ m.type = "SID"
        /\ x \notin known[s] /\ known' = [known EXCEPT ![s] = @ \cup {x}]
        /\ CommitFrom(s, t, SendTo(Here(s), est[s] \ {t}, m))
        /\ used' = used /\ est' = est
    BY DEF MsSid, First, Msg
  <1>2. /\ s \in Server /\ t \in Server /\ <<s, t>> \in Edge /\ m \in Message
        /\ Fits(s, t, m, Sees(s, t, M)) /\ Reach(s, M) /\ M \in [Server -> SUBSET User]
    BY <1>1, Reading
  <1>3. x \in Server
    BY <1>1, <1>2, ReadMessages
  <1>4. x \in Behind[<<s, t>>] /\ x # s
    BY <1>1, <1>2, Opposite DEF Fits, NewServers
  <1>5. SendTo(Here(s), est[s] \ {t}, m).out = out /\ SendTo(Here(s), est[s] \ {t}, m).client = client[s]
    <2>1. Here(s) = [client |-> Here(s).client, nd |-> Here(s).nd, out |-> Here(s).out] /\ Here(s).client = client[s]
      BY DEF Here
    <2> QED BY <2>1, HereTells
  <1>6. /\ client' = [client EXCEPT ![s] = client[s]]
        /\ chan' = Transmit(s, [chan EXCEPT ![<<t, s>>] = Tail(@)], out)
    BY <1>1, <1>5 DEF CommitFrom
  <1>7. known'[s] = known[s] \cup {x} /\ \A r \in Server \ {s} : known'[r] = known[r]
    BY <1>1, <1>2 DEF IInv, TypeOK
  <1>8. client' = client
    BY <1>6 DEF IInv, TypeOK
  <1> HIDE DEF x, m, out
  <1>9. \A r \in Server \ {s} : Untouched(r, M, M)
    <2>1. \A r \in Server \ {s} : known'[r] = known[r] /\ M[r] = M[r]
      BY <1>7
    <2> QED BY <1>1, <1>2, <1>6, <2>1, OthersUntouched
  <1>10. Reach(s, M)'
    <2>1. \A y \in known'[s] : \E r \in est[s] : y \in Behind[<<s, r>>]
      BY <1>1, <1>2, <1>4, <1>7 DEF Reach
    <2> QED BY <1>1, <1>2, <1>7, <1>8, <2>1 DEF Reach
  <1>11. Registered(s)' = Registered(s)
    BY <1>1, <1>8 DEF Registered
  <1>12. Reports(s, out, M, M)
    <2>1. ASSUME NEW r, <<s, r>> \in Edge, r \in est[s] \ {t}
          PROVE  Says(s, r, <<m>>, Has(s, r, M), Has(s, r, M)')
      <3>1. x \in Behind[<<r, s>>]
        BY <1>2, <1>4, <2>1, Beyond
      <3>2. Has(s, r, M)'.srv = Has(s, r, M).srv \cup {x} /\ Has(s, r, M)'.usr = Has(s, r, M).usr
        BY <1>7, <1>11, <3>1 DEF Has
      <3>3. x \notin Has(s, r, M).srv
        BY <1>1, <1>4 DEF Has
      <3> QED BY <1>1, <1>2, <3>1, <3>2, <3>3, SidSays DEF x
    <2>2. ASSUME NEW r, <<s, r>> \in Edge, r \in est[s] \ (est[s] \ {t})
          PROVE  Has(s, r, M)' = Has(s, r, M)
      <3>1. x \notin Behind[<<r, s>>]
        BY <1>4, <2>2, Opposite
      <3> QED BY <1>7, <1>11, <3>1 DEF Has
    <2>3. m.type # "SERVER"
      BY <1>1
    <2> QED BY <1>2, <2>1, <2>2, <2>3, TellReports DEF out
  <1>13. \A r : <<s, r>> \in Edge /\ r # t => Sees(s, r, M)' = Sees(s, r, M)
    <2> SUFFICES ASSUME NEW r, <<s, r>> \in Edge, r # t PROVE Sees(s, r, M)' = Sees(s, r, M)
      OBVIOUS
    <2>1. x \notin Behind[<<s, r>>]
      BY <1>2, <1>4, Beyond
    <2> QED BY <1>7, <2>1 DEF Sees
  <1>14. Sees(s, t, M)' = After(s, t, m, Sees(s, t, M))
    <2>1. NewServers(m, t) = {x} /\ NewUsers(m) = {} /\ \A y : ~Cuts(s, m, y)
      BY <1>1 DEF NewServers, NewUsers, Cuts, x
    <2>2. Sees(s, t, M)'.srv = Sees(s, t, M).srv \cup {x} /\ Sees(s, t, M)'.usr = Sees(s, t, M).usr
      BY <1>4, <1>7 DEF Sees
    <2>3. Sees(s, t, M)' = [srv |-> Sees(s, t, M)'.srv, usr |-> Sees(s, t, M)'.usr]
      BY DEF Sees
    <2> QED BY <2>1, <2>2, <2>3 DEF After
  <1>15. used \subseteq used'
    BY <1>1
  <1> QED BY <1>1, <1>2, <1>6, <1>9, <1>10, <1>12, <1>13, <1>14, <1>15, HandledMessage DEF m

\* M once s has lost x, and who is behind it.
Loses(M, s, x) == [M EXCEPT ![s] = {u \in @ : x \notin Way(s, Home[u])}]

\* The clients of s after it has forgotten those behind x.
LEMMA LostClients ==
    ASSUME IInv, NEW M, NEW s \in Server, Reach(s, M), NEW x, NEW X, X = {u \in M[s] : x \notin Way(s, Home[u])},
           NEW c, c = Forget(Here(s), Lost(s, x)).client
    PROVE  /\ \A u \in User : Home[u] = s => c[u] = client[s][u]
           /\ \A u \in User :
                /\ c[u].on = "absent" => c[u] = Absent
                /\ c[u].on # "absent" => (Home[u] = s /\ u \in used) \/ u \in X
                /\ c[u].on = "unknown" => Home[u] = s
  <1>1. \A u \in User : c[u] = IF Home[u] \in Lost(s, x) /\ client[s][u].on # "absent" THEN Absent ELSE client[s][u]
    BY DEF Forget, Here
  <1>2. s \notin known[s]
    BY NotSelf
  <1>3. \A u \in User : Home[u] = s => c[u] = client[s][u]
    BY <1>1, <1>2 DEF Lost
  <1>4. ASSUME NEW u \in User
        PROVE  /\ c[u].on = "absent" => c[u] = Absent
               /\ c[u].on # "absent" => (Home[u] = s /\ u \in used) \/ u \in X
               /\ c[u].on = "unknown" => Home[u] = s
    <2>1. /\ client[s][u].on = "absent" => client[s][u] = Absent
          /\ client[s][u].on # "absent" => (Home[u] = s /\ u \in used) \/ u \in M[s]
          /\ client[s][u].on = "unknown" => Home[u] = s
          /\ u \in M[s] => Home[u] \in known[s]
      BY DEF Reach
    <2>2. CASE Home[u] \in Lost(s, x) /\ client[s][u].on # "absent"
      BY <1>1, <2>2 DEF Absent
    <2>3. CASE ~(Home[u] \in Lost(s, x) /\ client[s][u].on # "absent")
      <3>1. c[u] = client[s][u]
        BY <1>1, <2>3
      <3>2. client[s][u].on # "absent" /\ u \in M[s] => u \in X
        BY <2>1, <2>3 DEF Lost
      <3> QED BY <2>1, <3>1, <3>2
    <2> QED BY <2>2, <2>3
  <1> QED BY <1>3, <1>4

\* What s tells those on its own side of x.
LEMMA LostSays ==
    ASSUME IInv, NEW M, NEW s \in Server, Reach(s, M), NEW x \in known[s], NEW M2,
           M2[s] = {u \in M[s] : x \notin Way(s, Home[u])}, known'[s] = known[s] \ Lost(s, x),
           Registered(s)' = Registered(s),
           NEW m \in Message, m.type = "SQUIT", m.sid = x,
           NEW r, <<s, r>> \in Edge, x \in Behind[<<r, s>>]
    PROVE  Says(s, r, <<m>>, Has(s, r, M), Has(s, r, M2)')
  <1> DEFINE S == Has(s, r, M)
             S2 == Has(s, r, M2)'
  <1>1. <<r, s>> \in Edge /\ x # s
    BY EdgeFacts, NotSelf
  <1>2. \A y \in Behind[<<r, s>>] : x \in Way(s, y) <=> x \in Way(r, y)
    BY <1>1, WayBeyond
  <1>3. x \notin Way(s, s)
    BY NoWay
  <1>4. S.srv = (known[s] \cup {s}) \cap Behind[<<r, s>>] /\ S2.srv = (known'[s] \cup {s}) \cap Behind[<<r, s>>]
    BY DEF Has
  <1>5. S2.srv = {y \in S.srv : x \notin Way(r, y)}
    BY <1>2, <1>3, <1>4 DEF Lost
  <1>6. {u \in S.usr : x \notin Way(r, Home[u])} \subseteq S2.usr
    <2> SUFFICES ASSUME NEW u \in S.usr, x \notin Way(r, Home[u]) PROVE u \in S2.usr
      OBVIOUS
    <2>1. u \in M[s] \cup Registered(s) /\ Home[u] \in Behind[<<r, s>>]
      BY DEF Has
    <2>2. x \notin Way(s, Home[u])
      BY <1>2, <2>1
    <2> QED BY <2>1, <2>2 DEF Has
  <1>7. x \in S.srv
    BY <1>4
  <1> HIDE DEF S, S2
  <1>8. Says(s, r, <<m>>, S, S2)
    BY <1>1, <1>5, <1>6, <1>7, SquitSays
  <1> QED BY <1>8 DEF S, S2

LEMMA MsSquitMet ==
    ASSUME IInv, NEW M, Met(M), NEW s, NEW t, MsSquit(s, t)
    PROVE  \E M2 : Met(M2)'
  <1> DEFINE m == Msg(s, t)
             x == m.sid
             out == Tell(est[s] \ {t}, m)
             L == Forget(Here(s), Lost(s, x))
             c == L.client
  <1>1. /\ <<t, s>> \in Edge /\ t \in est[s] /\ chan[<<t, s>>] # <<>> /\ m.type = "SQUIT"
        /\ used' = used /\ est' = est
    BY DEF MsSquit, First, Msg
  <1>2. /\ s \in Server /\ t \in Server /\ <<s, t>> \in Edge /\ m \in Message /\ s # t
        /\ Fits(s, t, m, Sees(s, t, M)) /\ Reach(s, M) /\ M \in [Server -> SUBSET User]
    BY <1>1, Reading
  <1>3. x \in known[s] /\ x \in Behind[<<s, t>>] /\ x # t
    BY <1>1, <1>2 DEF Fits, Sees
  <1>4. /\ known' = [known EXCEPT ![s] = @ \ Lost(s, x)]
        /\ CommitFrom(s, t, SendTo(L, est[s] \ {t}, m))
    BY <1>3 DEF MsSquit
  <1>5. SendTo(L, est[s] \ {t}, m).out = out /\ SendTo(L, est[s] \ {t}, m).client = c
    <2>1. L = [client |-> L.client, nd |-> L.nd, out |-> Here(s).out]
      BY DEF Forget
    <2> HIDE DEF L
    <2> QED BY <2>1, HereTells
  <1>6. /\ client' = [client EXCEPT ![s] = c]
        /\ chan' = Transmit(s, [chan EXCEPT ![<<t, s>>] = Tail(@)], out)
    BY <1>4, <1>5 DEF CommitFrom
  <1>7. known'[s] = known[s] \ Lost(s, x) /\ \A r \in Server \ {s} : known'[r] = known[r]
    BY <1>2, <1>4 DEF IInv, TypeOK
  <1>8. PICK M2, X : M2 = Loses(M, s, x) /\ X = M2[s]
    OBVIOUS
  <1>9. /\ M2 \in [Server -> SUBSET User] /\ M2[s] = X
        /\ X = {u \in M[s] : x \notin Way(s, Home[u])}
        /\ \A r \in Server \ {s} : M2[r] = M[r]
    BY <1>2, <1>8 DEF Loses
  <1>10. /\ \A u \in User : Home[u] = s => c[u] = client[s][u]
         /\ \A u \in User :
                /\ c[u].on = "absent" => c[u] = Absent
                /\ c[u].on # "absent" => (Home[u] = s /\ u \in used) \/ u \in X
                /\ c[u].on = "unknown" => Home[u] = s
    <2> HIDE DEF c
    <2>1. c = Forget(Here(s), Lost(s, x)).client
      BY DEF c
    <2> QED BY <1>2, <1>9, <2>1, LostClients
  <1> HIDE <1>8 DEF x, m, out, c
  <1>11. client'[s] = c
    BY <1>2, <1>6 DEF IInv, TypeOK
  <1>12. \A r \in Server \ {s} : Untouched(r, M, M2)
    BY <1>1, <1>2, <1>6, <1>7, <1>9, OthersUntouched
  <1>13. Registered(s)' = Registered(s)
    BY <1>1, <1>10, <1>11 DEF Registered, Local
  <1>14. Reach(s, M2)'
    <2>1. est'[s] \subseteq known'[s]
      <3>1. ASSUME NEW r \in est[s] PROVE r \in known[s] /\ x \notin Way(s, r)
        <4>1. <<s, r>> \in Edge /\ r \in known[s]
          BY <1>2 DEF Reach
        <4> QED BY <1>2, <1>3, <4>1, WayAside
      <3> QED BY <1>1, <1>7, <3>1 DEF Lost
    <2>2. known'[s] \subseteq known[s]
      BY <1>7
    <2>3. \A u \in M2[s] : Home[u] \in known'[s]
      BY <1>2, <1>7, <1>9 DEF Reach, Lost
    <2> QED BY <1>1, <1>2, <1>9, <1>10, <1>11, <2>1, <2>2, <2>3 DEF Reach
  <1>15. Reports(s, out, M, M2)
    <2>1. ASSUME NEW r, <<s, r>> \in Edge, r \in est[s] \ {t}
          PROVE  Says(s, r, <<m>>, Has(s, r, M), Has(s, r, M2)')
      <3>1. x \in Behind[<<r, s>>]
        BY <1>2, <1>3, <2>1, Beyond
      <3>2. m.sid = x
        BY DEF x
      <3>3. M2[s] = {u \in M[s] : x \notin Way(s, Home[u])}
        BY <1>9
      <3> QED BY <1>1, <1>2, <1>3, <1>7, <1>13, <2>1, <3>1, <3>2, <3>3, LostSays
    <2>2. ASSUME NEW r, <<s, r>> \in Edge, r \in est[s] \ (est[s] \ {t})
          PROVE  Has(s, r, M2)' = Has(s, r, M)
      <3>1. r = t
        BY <2>2
      <3>2. \A y \in Behind[<<t, s>>] : x \notin Way(s, y)
        BY <1>2, <1>3, Opposite, WayIn
      <3> QED BY <1>7, <1>9, <1>13, <3>1, <3>2 DEF Has, Lost
    <2>3. m.type # "SERVER"
      BY <1>1
    <2> QED BY <1>2, <2>1, <2>2, <2>3, TellReports DEF out
  <1>16. \A r : /\ Sees(s, r, M2)'.srv = {y \in Sees(s, r, M).srv : x \notin Way(s, y)}
                /\ Sees(s, r, M2)'.usr = {u \in Sees(s, r, M).usr : x \notin Way(s, Home[u])}
    BY <1>7, <1>9 DEF Sees, Lost
  <1>17. \A r : <<s, r>> \in Edge /\ r # t => Sees(s, r, M2)' = Sees(s, r, M)
    <2> SUFFICES ASSUME NEW r, <<s, r>> \in Edge, r # t PROVE Sees(s, r, M2)' = Sees(s, r, M)
      OBVIOUS
    <2>1. \A y \in Behind[<<s, r>>] : x \notin Way(s, y)
      BY <1>2, <1>3, WayIn, Beyond
    <2>2. \A y \in Sees(s, r, M).srv : y \in Behind[<<s, r>>]
      BY DEF Sees
    <2>3. \A u \in Sees(s, r, M).usr : Home[u] \in Behind[<<s, r>>]
      BY DEF Sees
    <2>4. Sees(s, r, M2)'.srv = Sees(s, r, M).srv /\ Sees(s, r, M2)'.usr = Sees(s, r, M).usr
      BY <1>16, <2>1, <2>2, <2>3
    <2> QED BY <2>4 DEF Sees
  <1>18. Sees(s, t, M2)' = After(s, t, m, Sees(s, t, M))
    <2>1. NewServers(m, t) = {} /\ NewUsers(m) = {} /\ \A y : Cuts(s, m, y) <=> x \in Way(s, y)
      BY <1>1 DEF NewServers, NewUsers, Cuts, x
    <2>2. Sees(s, t, M2)' = [srv |-> Sees(s, t, M2)'.srv, usr |-> Sees(s, t, M2)'.usr]
      BY DEF Sees
    <2>3. /\ Sees(s, t, M2)'.srv = {y \in Sees(s, t, M).srv : x \notin Way(s, y)}
          /\ Sees(s, t, M2)'.usr = {u \in Sees(s, t, M).usr : x \notin Way(s, Home[u])}
      BY <1>16
    <2> QED BY <2>1, <2>2, <2>3 DEF After
  <1>19. used \subseteq used'
    BY <1>1
  <1>20. Met(M2)'
    BY <1>1, <1>2, <1>6, <1>9, <1>12, <1>14, <1>15, <1>17, <1>18, <1>19, HandledMessage DEF m
  <1> QED BY <1>20

-----------------------------------------------------------------------------
(* Links that come up.                                                     *)

\* A server that is not linked to t knows nobody on that side.
LEMMA NotLinked ==
    ASSUME NEW s, NEW t, <<s, t>> \in Edge, NEW M, Reach(s, M), t \notin est[s]
    PROVE  /\ known[s] \cap Behind[<<s, t>>] = {} /\ known[s] \subseteq Behind[<<t, s>>]
           /\ \A u \in M[s] : Home[u] \notin Behind[<<s, t>>]
  <1>1. \A x \in known[s] : \E r \in est[s] : <<s, r>> \in Edge /\ x \in Behind[<<s, r>>]
    BY DEF Reach
  <1>2. \A r \in est[s] : <<s, r>> \in Edge =>
           Behind[<<s, r>>] \cap Behind[<<s, t>>] = {} /\ Behind[<<s, r>>] \subseteq Behind[<<t, s>>]
    BY Beyond
  <1> QED BY <1>1, <1>2 DEF Reach

\* What s knows and has been told, once it is linked to t.
LEMMA Linked ==
    ASSUME IInv, NEW s, NEW t, <<s, t>> \in Edge, NEW M, Reach(s, M), t \notin est[s],
           known'[s] = known[s] \cup {t}, est'[s] = est[s] \cup {t}, client' = client, used' = used
    PROVE  /\ Reach(s, M)'
           /\ Sees(s, t, M) = [srv |-> {}, usr |-> {}]
           /\ Sees(s, t, M)' = [srv |-> {t}, usr |-> {}]
           /\ \A r : <<s, r>> \in Edge /\ r # t => Sees(s, r, M)' = Sees(s, r, M)
           /\ \A r : <<s, r>> \in Edge /\ r # t =>
                /\ Has(s, r, M)'.srv = Has(s, r, M).srv \cup {t} /\ Has(s, r, M)'.usr = Has(s, r, M).usr
                /\ t \notin Has(s, r, M).srv /\ t \in Behind[<<r, s>>]
           /\ Has(s, t, M)' = [srv |-> known[s] \cup {s}, usr |-> M[s] \cup Registered(s)]
  <1>1. /\ known[s] \cap Behind[<<s, t>>] = {} /\ known[s] \subseteq Behind[<<t, s>>]
        /\ \A u \in M[s] : Home[u] \notin Behind[<<s, t>>]
    BY NotLinked
  <1>2. t \in Behind[<<s, t>>] /\ s \in Behind[<<t, s>>] /\ t \notin Behind[<<t, s>>] /\ s # t
    BY EdgeFacts, Opposite
  <1>3. \A r : <<s, r>> \in Edge /\ r # t => t \notin Behind[<<s, r>>] /\ t \in Behind[<<r, s>>]
    <2> SUFFICES ASSUME NEW r, <<s, r>> \in Edge, r # t PROVE t \notin Behind[<<s, r>>] /\ t \in Behind[<<r, s>>]
      OBVIOUS
    <2>1. /\ Behind[<<s, t>>] \cap Behind[<<s, r>>] = {}
          /\ Behind[<<s, t>>] \subseteq Behind[<<r, s>>]
      BY Beyond
    <2> QED BY <1>2, <2>1
  <1>4. Registered(s)' = Registered(s)
    BY DEF Registered
  <1>5. Reach(s, M)'
    <2>1. \A x \in known'[s] : \E r \in est'[s] : x \in Behind[<<s, r>>]
      BY <1>2 DEF Reach
    <2>2. /\ est'[s] \subseteq known'[s] /\ (\A r \in est'[s] : <<s, r>> \in Edge)
          /\ \A u \in M[s] : Home[u] \in known'[s]
      BY DEF Reach
    <2> QED BY <2>1, <2>2 DEF Reach
  <1>6. Sees(s, t, M) = [srv |-> {}, usr |-> {}] /\ Sees(s, t, M)' = [srv |-> {t}, usr |-> {}]
    BY <1>1, <1>2 DEF Sees
  <1>7. \A r : <<s, r>> \in Edge /\ r # t => Sees(s, r, M)' = Sees(s, r, M)
    BY <1>3 DEF Sees
  <1>8. t \notin known[s] /\ t # s
    BY <1>1, <1>2
  <1>9. \A r : <<s, r>> \in Edge /\ r # t =>
          /\ Has(s, r, M)'.srv = Has(s, r, M).srv \cup {t} /\ Has(s, r, M)'.usr = Has(s, r, M).usr
          /\ t \notin Has(s, r, M).srv /\ t \in Behind[<<r, s>>]
    BY <1>3, <1>4, <1>8 DEF Has
  <1>10. Has(s, t, M)' = [srv |-> known[s] \cup {s}, usr |-> M[s] \cup Registered(s)]
    <2>1. Has(s, t, M)'.srv = known[s] \cup {s}
      BY <1>1, <1>2 DEF Has
    <2>2. Has(s, t, M)'.usr = M[s] \cup Registered(s)
      <3>1. \A u \in M[s] : Home[u] \in Behind[<<t, s>>]
        BY <1>1 DEF Reach
      <3>2. \A u \in Registered(s) : Home[u] \in Behind[<<t, s>>]
        BY <1>2 DEF Registered, Local
      <3> QED BY <1>4, <3>1, <3>2 DEF Has
    <2> QED BY <2>1, <2>2 DEF Has
  <1> QED BY <1>5, <1>6, <1>7, <1>9, <1>10

\* The messages of a burst, to one who knows s and nothing behind it.
LEMMA BurstTells ==
    ASSUME IInv, NEW s, NEW t, <<s, t>> \in Edge, NEW M, Reach(s, M), t \notin est[s],
           NEW sids \in SetToSeqs(known[s]), NEW uids \in SetToSeqs(Persons(s))
    PROVE  /\ Burst(s, sids, uids) \in Seq(Message)
           /\ \A i \in 1..Len(Burst(s, sids, uids)) : Burst(s, sids, uids)[i].type # "SERVER"
           /\ \E T \in View :
                 /\ Turns(t, s, Burst(s, sids, uids), [srv |-> {s}, usr |-> {}], T)
                 /\ Match(T, [srv |-> known[s] \cup {s}, usr |-> M[s] \cup Registered(s)])
  <1> DEFINE w == Burst(s, sids, uids)
             T == [srv |-> known[s] \cup {s}, usr |-> Persons(s)]
  <1>1. s \in Server /\ s \in Behind[<<t, s>>] /\ s \notin known[s]
    BY EdgeFacts, NotSelf
  <1>2. w \in Seq(Message) /\ \A i \in 1..Len(w) : w[i].type # "SERVER"
    <2> DEFINE k == Len(sids)
               n == Len(uids)
    <2>1. /\ w \in Seq(Message) /\ k \in Nat /\ n \in Nat /\ Len(w) = k + n
          /\ \A i \in 1..k : w[i].type = "SID"
          /\ \A i \in (k + 1)..(k + n) : w[i].type = "UID"
      BY <1>1, BurstIs
    <2> HIDE DEF w, k, n
    <2>2. \A i \in 1..Len(w) : i \in 1..k \/ i \in (k + 1)..(k + n)
      BY <2>1
    <2> QED BY <2>1, <2>2
  <1>3. known[s] \cup {s} \subseteq Behind[<<t, s>>]
    BY <1>1, NotLinked
  <1>4. \A u \in Persons(s) : u \in M[s] \cup Registered(s) /\ Home[u] \in known[s] \cup {s}
    BY DEF Reach, Persons, IsPerson, Registered, Local
  <1>5. Turns(t, s, w, [srv |-> {s}, usr |-> {}], T)
    BY <1>1, <1>3, <1>4, BurstTurns
  <1>6. T \in View
    BY <1>1 DEF View, IInv, TypeOK, Persons
  <1>7. Match(T, [srv |-> known[s] \cup {s}, usr |-> M[s] \cup Registered(s)])
    BY <1>4 DEF Match
  <1> HIDE DEF w, T
  <1>8. \E V \in View :
                 /\ Turns(t, s, w, [srv |-> {s}, usr |-> {}], V)
                 /\ Match(V, [srv |-> known[s] \cup {s}, usr |-> M[s] \cup Registered(s)])
    BY <1>5, <1>6, <1>7
  <1> QED BY <1>2, <1>8 DEF w

\* s has changed what it has to do with t, and has told its other peers: the
\* queues between other servers, and from those to s, are as they were.
Spread(s, t, out) ==
    /\ \A a, b : <<a, b>> \in Edge /\ a # s /\ <<a, b>> # <<t, s>> => chan'[<<a, b>>] = chan[<<a, b>>]
    /\ \A r : <<s, r>> \in Edge /\ r # t =>
         chan'[<<s, r>>] = IF Open(r, s) THEN chan[<<s, r>>] \o out[r] ELSE chan[<<s, r>>]

LEMMA LinkMet ==
    ASSUME IInv, NEW M, Met(M), NEW s, NEW t, <<s, t>> \in Edge,
           NEW M2 \in [Server -> SUBSET User], NEW out,
           \A r \in Server \ {s} : Untouched(r, M, M2), used' = used,
           Reports(s, out, M, M2), Spread(s, t, out), Reach(s, M2)',
           \A r : r # t => (r \in est'[s] <=> r \in est[s]),
           \A r : <<s, r>> \in Edge /\ r # t => Sees(s, r, M2)' = Sees(s, r, M),
           Told(s, t, M2)', Hello(s, t, M2)', Told(t, s, M2)', Hello(t, s, M2)'
    PROVE  Met(M2)'
  <1>1. s \in Server /\ t \in Server /\ s # t /\ <<t, s>> \in Edge
    BY EdgeFacts
  <1>2. /\ M \in [Server -> SUBSET User] /\ \A r \in Server : Reach(r, M)
    BY DEF Met
  <1>3. \A r \in Server \ {s} : known'[r] = known[r] /\ est'[r] = est[r]
    BY DEF Untouched
  <1>4. \A r \in Server : Reach(r, M2)'
    BY <1>2, UntouchedReach
  <1>5. \A r \in Server \ {s} : \A x : Sees(r, x, M2)' = Sees(r, x, M) /\ Has(r, x, M2)' = Has(r, x, M)
    BY UntouchedFlows
  <1>6. ASSUME NEW r, <<s, r>> \in Edge, r # t
        PROVE  Told(s, r, M2)' /\ Hello(s, r, M2)'
    <2>1. r \in Server /\ r # s /\ <<r, s>> \in Edge
      BY <1>6, EdgeFacts
    <2>2. Told(s, r, M) /\ Hello(s, r, M)
      BY <1>6 DEF Met
    <2>3. /\ out[r] \in Seq(Message) /\ \A i \in 1..Len(out[r]) : out[r][i].type # "SERVER"
          /\ r \in est[s] => Says(s, r, out[r], Has(s, r, M), Has(s, r, M2)')
          /\ r \notin est[s] => out[r] = <<>>
      BY <1>6, <2>1 DEF Reports
    <2>4. chan'[<<s, r>>] = IF Open(r, s) THEN chan[<<s, r>>] \o out[r] ELSE chan[<<s, r>>]
      BY <1>6 DEF Spread
    <2>5. chan'[<<r, s>>] = chan[<<r, s>>]
      BY <1>6, <2>1 DEF Spread
    <2>6. (s \in est'[r] <=> s \in est[r]) /\ (r \in est'[s] <=> r \in est[s])
      BY <1>3, <1>6, <2>1
    <2>7. Sees(r, s, M2)' = Sees(r, s, M) /\ Sees(s, r, M2)' = Sees(s, r, M)
      BY <1>5, <1>6, <2>1
    <2>8. chan[<<r, s>>] = <<>> => chan'[<<r, s>>] = <<>> /\ Sees(s, r, M2)' = Sees(s, r, M)
      BY <2>5, <2>7
    <2> QED BY <1>6, <2>2, <2>3, <2>4, <2>6, <2>7, <2>8, FlowOut
  <1>7. ASSUME NEW a, NEW b, <<a, b>> \in Edge, a # s, <<a, b>> # <<t, s>>
        PROVE  Told(a, b, M2)' /\ Hello(a, b, M2)'
    <2>1. a \in Server /\ b \in Server /\ a # b /\ <<b, a>> \in Edge
      BY <1>7, EdgeFacts
    <2>2. Told(a, b, M) /\ Hello(a, b, M) /\ chan[<<b, a>>] \in Seq(Message)
      BY <1>7, <2>1 DEF Met, IInv, TypeOK
    <2>3. Sees(b, a, M2)' = Sees(b, a, M)
      BY <1>5, <1>7, <2>1
    <2>4. Sees(a, b, M2)' = Sees(a, b, M) /\ Has(a, b, M2)' = Has(a, b, M)
      BY <1>5, <1>7, <2>1
    <2>5. (a \in est'[b] <=> a \in est[b]) /\ (b \in est'[a] <=> b \in est[a])
      BY <1>3, <1>7, <2>1
    <2>6. chan'[<<a, b>>] = chan[<<a, b>>]
      BY <1>7 DEF Spread
    <2>7. a \notin est[b] => chan'[<<b, a>>] = chan[<<b, a>>]
      <3>1. CASE b = s
        <4>1. a # t
          BY <1>7, <3>1
        <4>2. a \notin est[s] => out[a] = <<>>
          BY <2>1, <3>1 DEF Reports
        <4>3. chan[<<b, a>>] \o <<>> = chan[<<b, a>>]
          BY <2>2
        <4> QED BY <2>1, <3>1, <4>1, <4>2, <4>3 DEF Spread
      <3>2. CASE b # s /\ <<b, a>> # <<t, s>>
        BY <2>1, <3>2 DEF Spread
      <3>3. CASE b # s /\ <<b, a>> = <<t, s>>
        BY <1>7, <3>3
      <3> QED BY <3>1, <3>2, <3>3
    <2> QED BY <1>7, <2>2, <2>3, <2>4, <2>5, <2>6, <2>7, FlowKept
  <1>8. ASSUME NEW a, NEW b, <<a, b>> \in Edge
        PROVE  Told(a, b, M2)' /\ Hello(a, b, M2)'
    <2>1. CASE a = s /\ b = t
      BY <2>1
    <2>2. CASE a = s /\ b # t
      BY <1>6, <1>8, <2>2
    <2>3. CASE a # s /\ <<a, b>> = <<t, s>>
      BY <2>3
    <2>4. CASE a # s /\ <<a, b>> # <<t, s>>
      BY <1>7, <1>8, <2>4
    <2> QED BY <2>1, <2>2, <2>3, <2>4
  <1> QED BY <1>4, <1>8 DEF Met

\* What s sends its peers when it links itself to t.
Relayed(s, t) == Tell(est[s], [type |-> "SID", sid |-> t])

\* s has linked itself to t.
LEMMA EstabMet ==
    ASSUME IInv, NEW M, Met(M), NEW s, NEW t, <<s, t>> \in Edge, t \notin est[s],
           known' = [known EXCEPT ![s] = @ \cup {t}], est' = [est EXCEPT ![s] = @ \cup {t}],
           client' = client, used' = used, Spread(s, t, Relayed(s, t)),
           Told(s, t, M)', Hello(s, t, M)', Told(t, s, M)', Hello(t, s, M)'
    PROVE  Met(M)'
  <1> DEFINE m == [type |-> "SID", sid |-> t]
             out == Relayed(s, t)
  <1>1. s \in Server /\ t \in Server
    BY EdgeFacts
  <1>2. M \in [Server -> SUBSET User] /\ Reach(s, M)
    BY <1>1 DEF Met
  <1>3. /\ known'[s] = known[s] \cup {t} /\ est'[s] = est[s] \cup {t}
        /\ \A r \in Server \ {s} : known'[r] = known[r] /\ est'[r] = est[r]
    BY <1>1 DEF IInv, TypeOK
  <1>4. /\ Reach(s, M)'
        /\ \A r : <<s, r>> \in Edge /\ r # t => Sees(s, r, M)' = Sees(s, r, M)
        /\ \A r : <<s, r>> \in Edge /\ r # t =>
                /\ Has(s, r, M)'.srv = Has(s, r, M).srv \cup {t} /\ Has(s, r, M)'.usr = Has(s, r, M).usr
                /\ t \notin Has(s, r, M).srv /\ t \in Behind[<<r, s>>]
    BY <1>2, <1>3, Linked
  <1>5. \A r \in Server \ {s} : Untouched(r, M, M)
    BY <1>3 DEF Untouched, Registered
  <1>6. m \in Message /\ m.type = "SID" /\ m.sid = t
    BY <1>1 DEF Message
  <1>7. out = Tell(est[s], m)
    BY DEF Relayed
  <1> HIDE DEF m, out
  <1>8. Reports(s, out, M, M)
    <2>1. ASSUME NEW r, <<s, r>> \in Edge, r \in est[s]
          PROVE  Says(s, r, <<m>>, Has(s, r, M), Has(s, r, M)')
      BY <1>1, <1>4, <1>6, <2>1, SidSays
    <2>2. PICK peers : peers = est[s]
      OBVIOUS
    <2>3. \A r : <<s, r>> \in Edge /\ r \in peers => Says(s, r, <<m>>, Has(s, r, M), Has(s, r, M)')
      BY <2>1, <2>2
    <2>4. \A r : <<s, r>> \in Edge /\ r \in est[s] \ peers => Has(s, r, M)' = Has(s, r, M)
      BY <2>2
    <2>5. out = Tell(peers, m) /\ peers \subseteq est[s] /\ m.type # "SERVER"
      BY <1>6, <1>7, <2>2
    <2> HIDE <2>2
    <2> QED BY <1>1, <1>6, <2>3, <2>4, <2>5, TellReports
  <1>9. \A r : r # t => (r \in est'[s] <=> r \in est[s])
    BY <1>3
  <1> QED BY <1>2, <1>4, <1>5, <1>8, <1>9, LinkMet DEF out

\* What s does to the queues: so far only what t has sent to it has changed,
Begun(s, t, queues) ==
    /\ \A r : <<s, r>> \in Edge => queues[<<s, r>>] = chan[<<s, r>>] /\ chan[<<s, r>>] \in Seq(Message)
    /\ \A a, b : <<a, b>> \in Edge /\ a # s /\ <<a, b>> # <<t, s>> => queues[<<a, b>>] = chan[<<a, b>>]

\* and then it tells its peers, and what it has sent to t is q.
Queued(s, t, queues, q) ==
    \A e \in Edge : chan'[e] = IF e = <<s, t>> THEN q ELSE Transmit(s, queues, Relayed(s, t))[e]

LEMMA EstabQueues ==
    ASSUME NEW s \in Server, NEW t, <<s, t>> \in Edge, t \notin est[s], NEW queues, NEW q,
           Begun(s, t, queues), Queued(s, t, queues, q)
    PROVE  /\ Spread(s, t, Relayed(s, t))
           /\ chan'[<<s, t>>] = q /\ chan'[<<t, s>>] = queues[<<t, s>>]
           /\ Transmit(s, queues, Relayed(s, t))[<<s, t>>] = chan[<<s, t>>]
  <1> DEFINE out == Relayed(s, t)
             C == Transmit(s, queues, out)
  <1>1. <<t, s>> \in Edge /\ t \in Server /\ s # t
    BY EdgeFacts
  <1>2. \A a, b : <<a, b>> \in Edge =>
          C[<<a, b>>] = IF a = s /\ Open(b, s) THEN queues[<<a, b>>] \o out[b]
                                               ELSE queues[<<a, b>>]
    BY DEF Transmit
  <1>3. out[t] = <<>> /\ chan[<<s, t>>] \o <<>> = chan[<<s, t>>]
    BY <1>1 DEF Relayed, Tell, Begun
  <1>4. \A e \in Edge : chan'[e] = IF e = <<s, t>> THEN q ELSE C[e]
    BY DEF Queued
  <1> HIDE DEF out, C
  <1>5. C[<<s, t>>] = chan[<<s, t>>]
    BY <1>2, <1>3 DEF Begun
  <1>6. \A r : <<s, r>> \in Edge /\ r # t =>
           chan'[<<s, r>>] = IF Open(r, s) THEN chan[<<s, r>>] \o out[r] ELSE chan[<<s, r>>]
    <2> SUFFICES ASSUME NEW r, <<s, r>> \in Edge, r # t
                 PROVE  chan'[<<s, r>>] = IF Open(r, s) THEN chan[<<s, r>>] \o out[r] ELSE chan[<<s, r>>]
      OBVIOUS
    <2>1. queues[<<s, r>>] = chan[<<s, r>>]
      BY DEF Begun
    <2> QED BY <1>2, <1>4, <2>1
  <1>7. \A a, b : <<a, b>> \in Edge /\ a # s => chan'[<<a, b>>] = queues[<<a, b>>]
    BY <1>2, <1>4
  <1>8. chan'[<<s, t>>] = q
    BY <1>4
  <1>9. chan'[<<t, s>>] = queues[<<t, s>>]
    BY <1>1, <1>7
  <1>10. \A a, b : <<a, b>> \in Edge /\ a # s /\ <<a, b>> # <<t, s>> => chan'[<<a, b>>] = chan[<<a, b>>]
    BY <1>7 DEF Begun
  <1>11. Spread(s, t, out)
    BY <1>6, <1>10 DEF Spread
  <1> QED BY <1>5, <1>8, <1>9, <1>11 DEF C, out

Greeting == [type |-> "SERVER"]

LEMMA GreetingBuilt ==
    Greeting \in Message /\ Greeting.type = "SERVER" /\ <<Greeting>> \in Seq(Message)
  BY DEF Greeting, Message

\* s has told its other peers of t, has sent q to t, and has p to read from it.
Joins(s, t, q, p) ==
    /\ Spread(s, t, Relayed(s, t))
    /\ chan'[<<s, t>>] = q /\ chan'[<<t, s>>] = p

LEMMA AcceptLinkIs ==
    ASSUME IInv, NEW s \in Server, NEW t, AcceptLink(s, t)
    PROVE  \E sids \in SetToSeqs(known[s]), uids \in SetToSeqs(Persons(s)) :
              Joins(s, t, <<Greeting>> \o Burst(s, sids, uids), <<>>)
  <1>1. /\ <<s, t>> \in Edge /\ t \notin est[s] /\ chan[<<t, s>>] = <<>>
    BY DEF AcceptLink, Open
  <1>2. PICK sids \in SetToSeqs(known[s]), uids \in SetToSeqs(Persons(s)) :
           chan' = [Transmit(s, chan, Relayed(s, t)) EXCEPT ![<<s, t>>] = <<Greeting>> \o Burst(s, sids, uids)]
    BY DEF AcceptLink, ServerEstab, Relayed, Tell, Greeting
  <1>3. PICK q : q = <<Greeting>> \o Burst(s, sids, uids)
    OBVIOUS
  <1>4. Queued(s, t, chan, q)
    <2> DEFINE C == Transmit(s, chan, Relayed(s, t))
    <2>1. C = [e \in Edge |-> C[e]]
      BY DEF Transmit
    <2>2. chan' = [C EXCEPT ![<<s, t>>] = q]
      BY <1>2, <1>3
    <2> HIDE DEF C
    <2>3. \A e \in Edge : chan'[e] = IF e = <<s, t>> THEN q ELSE C[e]
      BY <2>1, <2>2
    <2> QED BY <2>3 DEF Queued, C
  <1>5. Begun(s, t, chan)
    BY DEF Begun, IInv, TypeOK
  <1>6. Joins(s, t, q, <<>>)
    BY <1>1, <1>4, <1>5, EstabQueues DEF Joins
  <1> QED BY <1>3, <1>6

LEMMA AcceptLinkMet ==
    ASSUME IInv, NEW M, Met(M), NEW s \in Server, NEW t \in Server, AcceptLink(s, t)
    PROVE  Met(M)'
  <1>1. /\ <<s, t>> \in Edge /\ t \notin est[s] /\ s \notin est[t]
        /\ chan[<<t, s>>] = <<>> /\ chan[<<s, t>>] = <<>>
        /\ client' = client /\ used' = used
        /\ known' = [known EXCEPT ![s] = @ \cup {t}] /\ est' = [est EXCEPT ![s] = @ \cup {t}]
    BY DEF AcceptLink, Open, ServerEstab
  <1>2. PICK sids \in SetToSeqs(known[s]), uids \in SetToSeqs(Persons(s)) :
           Joins(s, t, <<Greeting>> \o Burst(s, sids, uids), <<>>)
    BY AcceptLinkIs
  <1> DEFINE w == Burst(s, sids, uids)
             q == <<Greeting>> \o w
  <1>3. <<t, s>> \in Edge /\ s # t
    BY <1>1, EdgeFacts
  <1>5. Reach(s, M) /\ Reach(t, M) /\ M \in [Server -> SUBSET User]
    BY DEF Met
  <1>6. /\ known'[s] = known[s] \cup {t} /\ est'[s] = est[s] \cup {t}
        /\ known'[t] = known[t] /\ est'[t] = est[t]
    BY <1>1, <1>3 DEF IInv, TypeOK
  <1>7. /\ w \in Seq(Message) /\ (\A i \in 1..Len(w) : w[i].type # "SERVER")
        /\ \E T \in View :
              /\ Turns(t, s, w, [srv |-> {s}, usr |-> {}], T)
              /\ Match(T, [srv |-> known[s] \cup {s}, usr |-> M[s] \cup Registered(s)])
    BY <1>1, <1>5, BurstTells
  <1> HIDE DEF w, q
  <1>8. q = <<Greeting>> \o w
    BY DEF q
  <1>9. Spread(s, t, Relayed(s, t)) /\ chan'[<<s, t>>] = q /\ chan'[<<t, s>>] = <<>>
    BY <1>2 DEF Joins, q, w
  <1>10. /\ Sees(s, t, M)' = [srv |-> {t}, usr |-> {}]
         /\ Has(s, t, M)' = [srv |-> known[s] \cup {s}, usr |-> M[s] \cup Registered(s)]
    BY <1>1, <1>5, <1>6, Linked
  <1>11. Sees(t, s, M) = [srv |-> {}, usr |-> {}]
    <2>1. known[t] \cap Behind[<<t, s>>] = {} /\ \A u \in M[t] : Home[u] \notin Behind[<<t, s>>]
      BY <1>1, <1>3, <1>5, NotLinked
    <2> QED BY <2>1 DEF Sees
  <1>12. Sees(t, s, M)' = [srv |-> {}, usr |-> {}]
    BY <1>6, <1>11 DEF Sees
  <1>13. Told(s, t, M)'
    <2> DEFINE E == [srv |-> {}, usr |-> {}]
               G == [srv |-> {s}, usr |-> {}]
    <2>1. E \in View /\ E.srv = {} /\ E.usr = {} /\ s \in Behind[<<t, s>>]
      BY <1>3, EdgeFacts DEF View
    <2>2. NewServers(Greeting, s) = {s} /\ NewUsers(Greeting) = {} /\ (\A y : ~Cuts(t, Greeting, y))
      BY GreetingBuilt DEF NewServers, NewUsers, Cuts
    <2> HIDE DEF E
    <2>3. Fits(t, s, Greeting, E)
      BY <2>1, <2>2, GreetingBuilt DEF Fits
    <2>4. After(t, s, Greeting, E) = G
      BY <2>1, <2>2 DEF After
    <2> HIDE DEF G
    <2>5. Turns(t, s, <<Greeting>>, E, G)
      BY <2>1, <2>3, <2>4, GreetingBuilt, TurnsOne
    <2>6. PICK T \in View : Turns(t, s, w, G, T)
                         /\ Match(T, [srv |-> known[s] \cup {s}, usr |-> M[s] \cup Registered(s)])
      BY <1>7 DEF G
    <2>7. Turns(t, s, q, E, T)
      BY <1>7, <1>8, <2>5, <2>6, GreetingBuilt, TurnsConcat
    <2> QED BY <1>9, <1>10, <1>12, <2>6, <2>7 DEF Told, E
  <1>14. Hello(s, t, M)'
    <2>1. /\ \A i \in 2..Len(q) : q[i].type # "SERVER"
          /\ q # <<>> /\ q[1] = Greeting
      <3>1. Len(<<Greeting>>) = 1 /\ <<Greeting>> # <<>> /\ <<Greeting>>[1] = Greeting /\ 2..1 = {}
        OBVIOUS
      <3>2. <<Greeting>> \o w # <<>> /\ (<<Greeting>> \o w)[1] = Greeting
        BY <1>7, <3>1, GreetingBuilt, ConcatFacts
      <3>3. \A i \in 2..Len(<<Greeting>> \o w) : \E k \in 1..Len(w) : (<<Greeting>> \o w)[i] = w[k]
        BY <1>7, <3>1, GreetingBuilt, ConcatFacts
      <3> QED BY <1>7, <1>8, <3>2, <3>3
    <2>2. Sees(s, t, M)'.srv = {t} /\ Sees(s, t, M)'.usr = {} /\ s \notin est'[t]
      BY <1>1, <1>6, <1>10
    <2> QED BY <1>9, <2>1, <2>2, GreetingBuilt DEF Hello
  <1>15. Told(t, s, M)'
    <2> DEFINE T == [srv |-> {t}, usr |-> {}]
    <2>1. T \in View
      BY DEF View
    <2>2. Turns(s, t, <<>>, T, T)
      BY <2>1, TurnsEmpty
    <2>3. ~Live(t, s)'
      BY <1>1, <1>6 DEF Live
    <2> QED BY <1>9, <1>10, <2>1, <2>2, <2>3 DEF Told
  <1>16. Hello(t, s, M)'
    <2>1. 2..Len(<<>>) = {}
      OBVIOUS
    <2> QED BY <1>9, <2>1 DEF Hello
  <1> QED BY <1>1, <1>9, <1>13, <1>14, <1>15, <1>16, EstabMet

LEMMA MrServerIs ==
    ASSUME IInv, NEW M, Met(M), NEW s \in Server, NEW t, MrServer(s, t)
    PROVE  /\ t \notin est[s] /\ chan[<<s, t>>] = <<>>
           /\ \E sids \in SetToSeqs(known[s]), uids \in SetToSeqs(Persons(s)) :
                Joins(s, t, IF s \in est[t] THEN Burst(s, sids, uids) ELSE <<>>, Tail(chan[<<t, s>>]))
  <1> DEFINE p == chan[<<t, s>>]
             queues == [chan EXCEPT ![<<t, s>>] = Tail(@)]
  <1>1. <<t, s>> \in Edge /\ p # <<>> /\ Head(p).type = "SERVER"
    BY DEF MrServer, Msg
  <1>2. PICK sids \in SetToSeqs(known[s]), uids \in SetToSeqs(Persons(s)) :
           chan' = [Transmit(s, queues, Relayed(s, t)) EXCEPT ![<<s, t>>] =
                      IF s \in est[t] THEN <<>> \o Burst(s, sids, uids) ELSE @]
    BY DEF MrServer, ServerEstab, Relayed, Tell
  <1> DEFINE w == Burst(s, sids, uids)
  <1>3. <<s, t>> \in Edge /\ s # t
    BY <1>1, EdgeFacts
  <1>4. chan \in [Edge -> Seq(Message)] /\ p \in Seq(Message) /\ Head(p) = p[1]
    BY <1>1 DEF IInv, TypeOK
  <1>5. Hello(t, s, M)
    BY <1>1 DEF Met
  <1>7. t \notin est[s] /\ chan[<<s, t>>] = <<>>
    BY <1>1, <1>4, <1>5 DEF Hello
  <1>9. <<>> \o w = w
    BY BurstTyped
  <1>10. Begun(s, t, queues) /\ queues[<<t, s>>] = Tail(p)
    <2>1. /\ \A a, b : <<a, b>> \in Edge /\ a # s /\ <<a, b>> # <<t, s>> => queues[<<a, b>>] = chan[<<a, b>>]
          /\ \A r : <<s, r>> \in Edge => queues[<<s, r>>] = chan[<<s, r>>] /\ chan[<<s, r>>] \in Seq(Message)
          /\ queues[<<t, s>>] = Tail(p)
      BY <1>1, <1>3, <1>4
    <2> HIDE DEF queues, p
    <2> QED BY <2>1 DEF Begun
  <1> HIDE DEF queues, p, w
  <1>11. PICK q : q = IF s \in est[t] THEN w ELSE <<>>
    OBVIOUS
  <1>12. Joins(s, t, q, Tail(p))
    <2> DEFINE C == Transmit(s, queues, Relayed(s, t))
    <2>1. C = [e \in Edge |-> C[e]]
      BY DEF Transmit
    <2>2. PICK last : last = IF s \in est[t] THEN w ELSE C[<<s, t>>]
      OBVIOUS
    <2>3. chan' = [C EXCEPT ![<<s, t>>] = last]
      BY <1>2, <1>9, <2>2 DEF w
    <2> HIDE DEF C
    <2>4. \A e \in Edge : chan'[e] = IF e = <<s, t>> THEN last ELSE C[e]
      BY <2>1, <2>3
    <2>5. Queued(s, t, queues, last)
      BY <2>4 DEF Queued, C
    <2>6. /\ Spread(s, t, Relayed(s, t)) /\ chan'[<<s, t>>] = last
          /\ chan'[<<t, s>>] = queues[<<t, s>>]
          /\ Transmit(s, queues, Relayed(s, t))[<<s, t>>] = chan[<<s, t>>]
      <3>1. <<s, t>> \in Edge /\ t \notin est[s] /\ Begun(s, t, queues)
        BY <1>3, <1>7, <1>10
      <3> QED BY <2>5, <3>1, EstabQueues
    <2>7. last = q
      BY <1>7, <1>11, <2>2, <2>6 DEF C
    <2> QED BY <1>10, <2>6, <2>7 DEF Joins
  <1> QED BY <1>7, <1>11, <1>12 DEF p, w

LEMMA MrServerMet ==
    ASSUME IInv, NEW M, Met(M), NEW s \in Server, NEW t \in Server, MrServer(s, t)
    PROVE  Met(M)'
  <1> DEFINE p == chan[<<t, s>>]
  <1>1. /\ <<t, s>> \in Edge /\ p # <<>> /\ Head(p).type = "SERVER"
        /\ client' = client /\ used' = used
        /\ known' = [known EXCEPT ![s] = @ \cup {t}] /\ est' = [est EXCEPT ![s] = @ \cup {t}]
    BY DEF MrServer, Msg, ServerEstab
  <1>2. PICK sids \in SetToSeqs(known[s]), uids \in SetToSeqs(Persons(s)) :
           Joins(s, t, IF s \in est[t] THEN Burst(s, sids, uids) ELSE <<>>, Tail(p))
    BY MrServerIs
  <1> DEFINE w == Burst(s, sids, uids)
             q == chan'[<<s, t>>]
  <1>3. <<s, t>> \in Edge /\ s # t
    BY <1>1, EdgeFacts
  <1>4. chan \in [Edge -> Seq(Message)] /\ p \in Seq(Message) /\ Head(p) = p[1]
    BY <1>1 DEF IInv, TypeOK
  <1>5. Reach(s, M) /\ Reach(t, M) /\ M \in [Server -> SUBSET User] /\ Told(t, s, M) /\ Hello(t, s, M)
    BY <1>1 DEF Met
  <1>6. /\ known'[s] = known[s] \cup {t} /\ est'[s] = est[s] \cup {t}
        /\ known'[t] = known[t] /\ est'[t] = est[t]
    BY <1>1, <1>3 DEF IInv, TypeOK
  <1>7. t \notin est[s] /\ chan[<<s, t>>] = <<>> /\ Sees(t, s, M).srv \subseteq {s} /\ Sees(t, s, M).usr = {}
    BY <1>1, <1>4, <1>5 DEF Hello
  <1>8. /\ w \in Seq(Message) /\ (\A i \in 1..Len(w) : w[i].type # "SERVER")
        /\ \E T \in View :
              /\ Turns(t, s, w, [srv |-> {s}, usr |-> {}], T)
              /\ Match(T, [srv |-> known[s] \cup {s}, usr |-> M[s] \cup Registered(s)])
    BY <1>3, <1>5, <1>7, BurstTells
  <1> HIDE DEF w
  <1> HIDE DEF p, q
  <1>11. Spread(s, t, Relayed(s, t)) /\ q = (IF s \in est[t] THEN w ELSE <<>>) /\ chan'[<<t, s>>] = Tail(p)
    BY <1>2 DEF Joins, q, w
  <1>12. /\ Sees(s, t, M) = [srv |-> {}, usr |-> {}]
         /\ Sees(s, t, M)' = [srv |-> {t}, usr |-> {}]
         /\ Has(s, t, M)' = [srv |-> known[s] \cup {s}, usr |-> M[s] \cup Registered(s)]
    BY <1>1, <1>3, <1>5, <1>6, <1>7, Linked
  <1>13. Sees(t, s, M)' = Sees(t, s, M) /\ Has(t, s, M)' = Has(t, s, M)
    BY <1>1, <1>6 DEF Sees, Has, Registered
  <1>14. Told(s, t, M)'
    <2>1. CASE s \in est[t]
      <3>1. Sees(t, s, M) = [srv |-> {s}, usr |-> {}]
        <4>1. s \in known[t] /\ s \in Behind[<<t, s>>]
          BY <1>3, <1>5, <2>1, EdgeFacts DEF Reach
        <4>2. Sees(t, s, M).srv = {s}
          BY <1>7, <4>1 DEF Sees
        <4> QED BY <1>7, <4>2 DEF Sees
      <3> QED BY <1>8, <1>11, <1>12, <1>13, <2>1, <3>1 DEF Told, q
    <2>2. CASE s \notin est[t]
      <3>1. ~Live(s, t)'
        BY <1>6, <1>11, <2>2 DEF Live, Open, q
      <3>2. Sees(t, s, M) \in View
        BY <1>1, <1>5, SeesTyped
      <3>3. Turns(t, s, <<>>, Sees(t, s, M), Sees(t, s, M))
        BY <3>2, TurnsEmpty
      <3> QED BY <1>11, <1>13, <2>2, <3>1, <3>2, <3>3 DEF Told, q
    <2> QED BY <2>1, <2>2
  <1>15. Hello(s, t, M)'
    <2>1. \A i \in 1..Len(q) : q[i].type # "SERVER"
      <3>1. 1..Len(<<>>) = {}
        OBVIOUS
      <3> QED BY <1>8, <1>11, <3>1
    <2>2. q \in Seq(Message)
      BY <1>8, <1>11
    <2>3. q # <<>> => 1 \in 1..Len(q)
      BY <2>2
    <2>4. \A i \in 2..Len(q) : q[i].type # "SERVER"
      BY <2>1, <2>2
    <2>5. q # <<>> => s \in est'[t]
      BY <1>6, <1>11
    <2> QED BY <2>1, <2>3, <2>4, <2>5 DEF Hello, q
  <1>16. Told(t, s, M)' /\ Hello(t, s, M)'
    <2>1. Sees(s, t, M)' = After(s, t, Head(p), Sees(s, t, M))
      <3>1. NewServers(Head(p), t) = {t} /\ NewUsers(Head(p)) = {} /\ (\A y : ~Cuts(s, Head(p), y))
        BY <1>1 DEF NewServers, NewUsers, Cuts
      <3> QED BY <1>12, <3>1 DEF After
    <2>2. (s \in est'[t] <=> s \in est[t]) /\ t \in est'[s]
      BY <1>6
    <2> QED BY <1>1, <1>5, <1>11, <1>13, <2>1, <2>2, FlowIn DEF p
  <1> QED BY <1>1, <1>3, <1>7, <1>11, <1>14, <1>15, <1>16, EstabMet DEF q

-----------------------------------------------------------------------------
(* Links that break.                                                       *)

\* Those behind t are those t is on the way to.
LEMMA CloseViews ==
    ASSUME IInv, NEW M, NEW s, NEW t, <<s, t>> \in Edge, Reach(s, M), NEW M2,
           M2[s] = {u \in M[s] : t \notin Way(s, Home[u])}, known'[s] = known[s] \ Lost(s, t),
           est'[s] = est[s] \ {t}, used' = used, NEW c, c = Forget(Here(s), Lost(s, t)).client, client'[s] = c
    PROVE  /\ Reach(s, M2)' /\ Registered(s)' = Registered(s)
           /\ Sees(s, t, M2)'.srv = {} /\ Sees(s, t, M2)'.usr = {}
           /\ \A r : <<s, r>> \in Edge /\ r # t => Sees(s, r, M2)' = Sees(s, r, M)
           /\ Has(s, t, M2)' = Has(s, t, M)
           /\ t \notin est[s] => \A r : Has(s, r, M2)' = Has(s, r, M)
  <1>1. s \in Server /\ s # t
    BY EdgeFacts
  <1>2. \A y : t \in Way(s, y) <=> y \in Behind[<<s, t>>]
    BY WayHop
  <1>3. PICK X : X = {u \in M[s] : t \notin Way(s, Home[u])}
    OBVIOUS
  <1>4. M2[s] = X /\ X = {u \in M[s] : Home[u] \notin Behind[<<s, t>>]}
    BY <1>2, <1>3
  <1>5. known'[s] = {y \in known[s] : y \notin Behind[<<s, t>>]}
    BY <1>2 DEF Lost
  <1>6. /\ \A u \in User : Home[u] = s => c[u] = client[s][u]
        /\ \A u \in User :
                /\ c[u].on = "absent" => c[u] = Absent
                /\ c[u].on # "absent" => (Home[u] = s /\ u \in used) \/ u \in X
                /\ c[u].on = "unknown" => Home[u] = s
    BY <1>1, <1>3, LostClients
  <1>7. Registered(s)' = Registered(s)
    BY <1>6 DEF Registered, Local
  <1>8. \A r \in est[s] \ {t} : Behind[<<s, r>>] \cap Behind[<<s, t>>] = {} /\ r \in Behind[<<s, r>>]
    <2> SUFFICES ASSUME NEW r \in est[s] \ {t}
                 PROVE  Behind[<<s, r>>] \cap Behind[<<s, t>>] = {} /\ r \in Behind[<<s, r>>]
      OBVIOUS
    <2>1. <<s, r>> \in Edge /\ r # t
      BY DEF Reach
    <2> QED BY <2>1, Beyond, EdgeFacts
  <1>9. Reach(s, M2)'
    <2>1. est'[s] \subseteq known'[s] /\ \A r \in est'[s] : <<s, r>> \in Edge
      BY <1>5, <1>8 DEF Reach
    <2>2. ASSUME NEW x \in known'[s] PROVE \E r \in est'[s] : x \in Behind[<<s, r>>]
      <3>1. x \in known[s] /\ x \notin Behind[<<s, t>>]
        BY <1>5
      <3>2. PICK r \in est[s] : x \in Behind[<<s, r>>]
        BY <3>1 DEF Reach
      <3> QED BY <3>1, <3>2
    <2>3. \A u \in M2[s] : Home[u] \in known'[s]
      BY <1>4, <1>5 DEF Reach
    <2> QED BY <1>4, <1>6, <2>1, <2>2, <2>3 DEF Reach
  <1>10. Sees(s, t, M2)'.srv = {} /\ Sees(s, t, M2)'.usr = {}
    BY <1>4, <1>5 DEF Sees
  <1>11. ASSUME NEW r, <<s, r>> \in Edge, r # t
         PROVE  Sees(s, r, M2)' = Sees(s, r, M)
    <2>1. Behind[<<s, r>>] \cap Behind[<<s, t>>] = {}
      BY <1>11, Beyond
    <2> QED BY <1>4, <1>5, <2>1 DEF Sees
  <1>12. Has(s, t, M2)' = Has(s, t, M)
    <2>1. Behind[<<s, t>>] \cap Behind[<<t, s>>] = {}
      BY Opposite
    <2> QED BY <1>4, <1>5, <1>7, <2>1 DEF Has
  <1>13. ASSUME t \notin est[s], NEW r PROVE Has(s, r, M2)' = Has(s, r, M)
    <2>1. known[s] \cap Behind[<<s, t>>] = {} /\ \A u \in M[s] : Home[u] \notin Behind[<<s, t>>]
      BY <1>13, NotLinked
    <2>2. known'[s] = known[s] /\ M2[s] = M[s]
      BY <1>4, <1>5, <2>1
    <2> QED BY <1>7, <2>2 DEF Has
  <1> QED BY <1>7, <1>9, <1>10, <1>11, <1>12, <1>13

\* s has dropped its end of the link to t, and told the peers with m.
Parts(s, t, c, peers, m) ==
    /\ client' = [client EXCEPT ![s] = c] /\ client'[s] = c
    /\ Spread(s, t, Tell(peers, m)) /\ chan'[<<s, t>>] = chan[<<s, t>>] /\ chan'[<<t, s>>] = <<>>

LEMMA CloseLinkIs ==
    ASSUME IInv, NEW M, Met(M), NEW s \in Server, NEW t \in Server, CloseLink(s, t)
    PROVE  /\ known' = [known EXCEPT ![s] = @ \ Lost(s, t)]
           /\ \E c : /\ c = Forget(Here(s), Lost(s, t)).client
                     /\ Parts(s, t, c, IF t \in est[s] THEN est[s] \ {t} ELSE {}, [type |-> "SQUIT", sid |-> t])
  <1> DEFINE m == [type |-> "SQUIT", sid |-> t]
             tell == IF t \in est[s] THEN est[s] \ {t} ELSE {}
             out == Tell(tell, m)
             L == Forget(Here(s), Lost(s, t))
             c == L.client
  <1>1. <<s, t>> \in Edge /\ Open(s, t) /\ used' = used /\ est' = [est EXCEPT ![s] = @ \ {t}]
    BY DEF CloseLink
  <1>2. Reach(s, M) /\ M \in [Server -> SUBSET User]
    BY DEF Met
  <1>3. Lost(s, t) = IF t \in est[s] THEN Lost(s, t) ELSE {}
    <2>1. ASSUME t \notin est[s] PROVE Lost(s, t) = {}
      <3>1. known[s] \cap Behind[<<s, t>>] = {}
        BY <1>1, <1>2, <2>1, NotLinked
      <3> QED BY <1>1, <3>1, WayHop DEF Lost
    <2> QED BY <2>1
  <1>4. /\ known' = [known EXCEPT ![s] = @ \ Lost(s, t)]
        /\ client' = [client EXCEPT ![s] = SendTo(L, tell, m).client]
        /\ chan' = [Transmit(s, chan, SendTo(L, tell, m).out) EXCEPT ![<<t, s>>] = <<>>]
    BY <1>3 DEF CloseLink
  <1>5. SendTo(L, tell, m).out = out /\ SendTo(L, tell, m).client = c
    <2>1. L = [client |-> L.client, nd |-> L.nd, out |-> Here(s).out]
      BY DEF Forget
    <2> HIDE DEF L, m, tell
    <2>2. SendTo(L, tell, m).out = Tell(tell, m) /\ SendTo(L, tell, m).client = L.client
      BY <2>1, HereTells
    <2> QED BY <2>2
  <1>6. client' = [client EXCEPT ![s] = c]
    BY <1>4, <1>5
  <1>7. chan' = [Transmit(s, chan, out) EXCEPT ![<<t, s>>] = <<>>]
    BY <1>4, <1>5
  <1>8. m \in Message /\ m.type = "SQUIT" /\ m.sid = t
    BY DEF Message
  <1>9. /\ tell \subseteq est[s] \ {t}
        /\ t \in est[s] => tell = est[s] \ {t}
        /\ t \notin est[s] => tell = {}
    OBVIOUS
  <1>10. <<t, s>> \in Edge /\ s # t
    BY <1>1, EdgeFacts
  <1> HIDE DEF m, tell, out
  <1>11. out[t] = <<>> /\ chan[<<s, t>>] \o <<>> = chan[<<s, t>>]
    BY <1>1, <1>9 DEF IInv, TypeOK, out, Tell
  <1>12. c = Forget(Here(s), Lost(s, t)).client
    OBVIOUS
  <1> HIDE DEF c, L
  <1>13. client'[s] = c
    BY <1>6 DEF IInv, TypeOK
  <1>14. /\ Spread(s, t, out) /\ chan'[<<s, t>>] = chan[<<s, t>>] /\ chan'[<<t, s>>] = <<>>
    <2> DEFINE C == Transmit(s, chan, out)
    <2>1. \A a, b : <<a, b>> \in Edge =>
            C[<<a, b>>] = IF a = s /\ Open(b, s) THEN chan[<<a, b>>] \o out[b]
                                                 ELSE chan[<<a, b>>]
      BY DEF Transmit
    <2>2. C = [e \in Edge |-> C[e]]
      BY DEF Transmit
    <2> HIDE DEF C
    <2>3. chan'[<<t, s>>] = <<>> /\ \A e \in Edge : e # <<t, s>> => chan'[e] = C[e]
      BY <1>7, <1>10, <2>2 DEF C
    <2>4. chan'[<<s, t>>] = chan[<<s, t>>]
      BY <1>1, <1>10, <1>11, <2>1, <2>3
    <2>5. \A r : <<s, r>> \in Edge /\ r # t =>
             chan'[<<s, r>>] = IF Open(r, s) THEN chan[<<s, r>>] \o out[r] ELSE chan[<<s, r>>]
      BY <1>10, <2>1, <2>3
    <2>6. \A a, b : <<a, b>> \in Edge /\ a # s /\ <<a, b>> # <<t, s>> => chan'[<<a, b>>] = chan[<<a, b>>]
      BY <2>1, <2>3
    <2> QED BY <2>3, <2>4, <2>5, <2>6 DEF Spread
  <1>15. Parts(s, t, c, tell, m)
    BY <1>6, <1>13, <1>14 DEF Parts, out
  <1> QED BY <1>4, <1>12, <1>15 DEF tell, m

LEMMA CloseLinkMet ==
    ASSUME IInv, NEW M, Met(M), NEW s \in Server, NEW t \in Server, CloseLink(s, t)
    PROVE  \E M2 : Met(M2)'
  <1> DEFINE m == [type |-> "SQUIT", sid |-> t]
             tell == IF t \in est[s] THEN est[s] \ {t} ELSE {}
             out == Tell(tell, m)
  <1>1. <<s, t>> \in Edge /\ Open(s, t) /\ used' = used /\ est' = [est EXCEPT ![s] = @ \ {t}]
    BY DEF CloseLink
  <1>2. Reach(s, M) /\ M \in [Server -> SUBSET User]
    BY DEF Met
  <1>3. PICK c : c = Forget(Here(s), Lost(s, t)).client /\ Parts(s, t, c, tell, m)
    BY CloseLinkIs
  <1>4. known' = [known EXCEPT ![s] = @ \ Lost(s, t)]
    BY CloseLinkIs
  <1>6. client' = [client EXCEPT ![s] = c]
    BY <1>3 DEF Parts
  <1>8. m \in Message /\ m.type = "SQUIT" /\ m.sid = t
    BY DEF Message
  <1>9. /\ tell \subseteq est[s] \ {t}
        /\ t \in est[s] => tell = est[s] \ {t}
        /\ t \notin est[s] => tell = {}
    OBVIOUS
  <1>10. <<t, s>> \in Edge /\ s # t
    BY <1>1, EdgeFacts
  <1> HIDE DEF m, tell, out
  <1>12. c = Forget(Here(s), Lost(s, t)).client
    BY <1>3
  <1>13. client'[s] = c
    BY <1>3 DEF Parts
  <1>14. /\ Spread(s, t, out) /\ chan'[<<s, t>>] = chan[<<s, t>>] /\ chan'[<<t, s>>] = <<>>
    BY <1>3 DEF Parts, out
  <1>15. PICK M2 : M2 = Loses(M, s, t)
    OBVIOUS
  <1>16. /\ M2 \in [Server -> SUBSET User] /\ M2[s] = {u \in M[s] : t \notin Way(s, Home[u])}
         /\ \A r \in Server \ {s} : M2[r] = M[r]
    BY <1>2, <1>15 DEF Loses
  <1> HIDE <1>15
  <1>17. /\ known'[s] = known[s] \ Lost(s, t) /\ est'[s] = est[s] \ {t}
         /\ \A r \in Server \ {s} : known'[r] = known[r] /\ est'[r] = est[r]
    BY <1>1, <1>4 DEF IInv, TypeOK
  <1>18. \A r \in Server \ {s} : Untouched(r, M, M2)
    <2> SUFFICES ASSUME NEW r \in Server \ {s} PROVE Untouched(r, M, M2)
      OBVIOUS
    <2>1. client'[r] = client[r]
      BY <1>6 DEF IInv, TypeOK
    <2>2. Registered(r)' = Registered(r)
      BY <1>1, <2>1 DEF Registered, Local
    <2> QED BY <1>16, <1>17, <2>1, <2>2 DEF Untouched
  <1>19. /\ Reach(s, M2)' /\ Registered(s)' = Registered(s)
         /\ Sees(s, t, M2)'.srv = {} /\ Sees(s, t, M2)'.usr = {}
         /\ \A r : <<s, r>> \in Edge /\ r # t => Sees(s, r, M2)' = Sees(s, r, M)
         /\ Has(s, t, M2)' = Has(s, t, M)
         /\ t \notin est[s] => \A r : Has(s, r, M2)' = Has(s, r, M)
    BY <1>1, <1>2, <1>12, <1>13, <1>16, <1>17, CloseViews
  <1>20. Reports(s, out, M, M2)
    <2>1. ASSUME NEW r, <<s, r>> \in Edge, r \in tell
          PROVE  Says(s, r, <<m>>, Has(s, r, M), Has(s, r, M2)')
      <3>1. t \in est[s] /\ r # t
        BY <1>9, <2>1
      <3>2. t \in known[s]
        BY <1>2, <3>1 DEF Reach
      <3>3. t \in Behind[<<s, t>>] /\ Behind[<<s, t>>] \subseteq Behind[<<r, s>>]
        BY <1>1, <2>1, <3>1, EdgeFacts, Beyond
      <3>4. t \in Behind[<<r, s>>]
        BY <3>3
      <3> QED BY <1>2, <1>8, <1>16, <1>17, <1>19, <2>1, <3>2, <3>4, LostSays
    <2>2. ASSUME NEW r, <<s, r>> \in Edge, r \in est[s] \ tell
          PROVE  Has(s, r, M2)' = Has(s, r, M)
      <3>1. CASE t \in est[s]
        BY <1>9, <1>19, <2>2, <3>1
      <3>2. CASE t \notin est[s]
        BY <1>19, <3>2
      <3> QED BY <3>1, <3>2
    <2>3. tell \subseteq est[s] /\ m.type # "SERVER"
      BY <1>8, <1>9
    <2> QED BY <1>8, <2>1, <2>2, <2>3, TellReports DEF out
  <1>21. Sees(t, s, M2)' = Sees(t, s, M)
    BY <1>10, <1>18, UntouchedFlows
  <1>22. Told(s, t, M) /\ Hello(s, t, M)
    BY <1>1 DEF Met
  <1>23. t \notin est'[s] /\ (s \in est'[t] <=> s \in est[t])
    BY <1>10, <1>17
  <1>24. Told(s, t, M2)' /\ Hello(s, t, M2)'
    <2>1. ~Live(s, t)'
      BY <1>23 DEF Live
    <2>2. Told(s, t, M2)'
      BY <1>14, <1>21, <1>22, <2>1 DEF Told
    <2>3. Hello(s, t, M2)'
      BY <1>14, <1>19, <1>22, <1>23 DEF Hello
    <2> QED BY <2>2, <2>3
  <1>25. Told(t, s, M2)' /\ Hello(t, s, M2)'
    <2>1. ~Live(t, s)'
      BY <1>14, <1>23 DEF Live, Open
    <2> DEFINE T == [srv |-> {}, usr |-> {}]
    <2>2. T \in View /\ Sees(s, t, M2)' = T
      BY <1>19 DEF Sees, View
    <2> HIDE DEF T
    <2>3. Turns(s, t, <<>>, T, T)
      BY <2>2, TurnsEmpty
    <2>4. Told(t, s, M2)'
      BY <1>14, <2>1, <2>2, <2>3 DEF Told
    <2>5. 2..Len(<<>>) = {}
      OBVIOUS
    <2>6. Hello(t, s, M2)'
      BY <1>14, <2>5 DEF Hello
    <2> QED BY <2>4, <2>6
  <1>26. \A r : r # t => (r \in est'[s] <=> r \in est[s])
    BY <1>17
  <1>27. Met(M2)'
    BY <1>1, <1>14, <1>16, <1>18, <1>19, <1>20, <1>24, <1>25, <1>26, LinkMet
  <1> QED BY <1>27

-----------------------------------------------------------------------------
(* The invariant, and what follows from it.                                *)

LEMMA TInvInit == Init => TInv
  <1> SUFFICES ASSUME Init PROVE TInv
    OBVIOUS
  <1> DEFINE M == [s \in Server |-> {}]
             E == [srv |-> {}, usr |-> {}]
  <1>1. M \in [Server -> SUBSET User] /\ \A s \in Server : M[s] = {}
    OBVIOUS
  <1>2. E \in View /\ E.srv = {} /\ E.usr = {}
    BY DEF View
  <1> HIDE DEF M, E
  <1>3. ASSUME NEW t, NEW s, <<t, s>> \in Edge
        PROVE  Told(t, s, M) /\ Hello(t, s, M)
    <2>1. t \in Server /\ s \in Server /\ chan[<<t, s>>] = <<>> /\ est[t] = {} /\ known[s] = {}
      BY <1>3, EdgeFacts DEF Init
    <2>2. Sees(s, t, M) = E
      BY <1>1, <2>1 DEF Sees, E
    <2>3. Turns(s, t, <<>>, E, E)
      BY <1>2, TurnsEmpty
    <2>4. ~Live(t, s)
      BY <2>1 DEF Live
    <2>5. 2..Len(<<>>) = {}
      OBVIOUS
    <2> QED BY <1>2, <2>1, <2>2, <2>3, <2>4, <2>5 DEF Told, Hello
  <1>4. \A s \in Server : Reach(s, M)
    <2>1. \A s \in Server : /\ est[s] = {} /\ known[s] = {}
                            /\ \A u \in User : client[s][u] = Absent
      BY DEF Init
    <2> QED BY <1>1, <2>1 DEF Reach, Absent
  <1> QED BY <1>1, <1>3, <1>4 DEF TInv, Met

LEMMA TInvStep == IInv /\ TInv /\ [Next]_vars => TInv'
  <1> SUFFICES ASSUME IInv, NEW M, Met(M), [Next]_vars PROVE \E M2 : Met(M2)'
    BY DEF TInv
  <1>1. CASE Tick
    <2>1. UNCHANGED <<client, used, known, est, chan>>
      BY <1>1 DEF Tick
    <2> QED BY <2>1, MetUnchanged
  <1>2. CASE \E s \in Server : ExpireNd(s)
    <2>1. UNCHANGED <<client, used, known, est, chan>>
      BY <1>2 DEF ExpireNd, Steady
    <2> QED BY <2>1, MetUnchanged
  <1>3. CASE UNCHANGED vars
    <2>1. UNCHANGED <<client, used, known, est, chan>>
      BY <1>3 DEF vars
    <2> QED BY <2>1, MetUnchanged
  <1>4. CASE ClientStep
    <2> SUFFICES ASSUME NEW u \in User, \/ \E n \in Nick : MrNick(u, n) \/ MNick(u, n)
                                        \/ Register(u) \/ ExitUnknown(u) \/ Quit(u)
                                        \/ \E v \in User : MoKill(u, v)
                 PROVE  Met(M)'
      BY <1>4 DEF ClientStep
    <2> QED BY MrNickMet, MNickMet, RegisterMet, ExitUnknownMet, QuitMet, MoKillMet
  <1>5. ASSUME NEW s \in Server, NEW t \in Server, Receive(s, t)
        PROVE  \E M2 : Met(M2)'
    <2>1. CASE MrServer(s, t)
      BY <2>1, MrServerMet
    <2>2. CASE MsSid(s, t)
      BY <2>2, MsSidMet
    <2>3. CASE MsSquit(s, t)
      BY <2>3, MsSquitMet
    <2>4. CASE MsUid(s, t)
      BY <2>4, MsUidMet
    <2>5. CASE McNick(s, t)
      BY <2>5, McNickMet
    <2>6. CASE MsSave(s, t)
      BY <2>6, MsSaveMet
    <2>7. CASE MsQuit(s, t)
      BY <2>7, MsQuitMet
    <2>8. CASE MsKill(s, t)
      BY <2>8, MsKillMet
    <2> QED BY <1>5, <2>1, <2>2, <2>3, <2>4, <2>5, <2>6, <2>7, <2>8 DEF Receive
  <1>6. ASSUME NEW s \in Server, NEW t \in Server, AcceptLink(s, t)
        PROVE  \E M2 : Met(M2)'
    BY <1>6, AcceptLinkMet
  <1>7. ASSUME NEW s \in Server, NEW t \in Server, CloseLink(s, t)
        PROVE  \E M2 : Met(M2)'
    BY <1>7, CloseLinkMet
  <1> QED BY <1>1, <1>2, <1>3, <1>4, <1>5, <1>6, <1>7 DEF Next

LEMMA TInvHolds == Spec => [](IInv /\ TInv)
  BY InitGood, IInvStep, TInvInit, TInvStep, PTL DEF Spec

LEMMA TInvNoDuplicate == IInv /\ TInv => NoDuplicateIntro
  <1> SUFFICES ASSUME IInv, NEW M, Met(M), NEW s \in Server, NEW t \in Server
               PROVE  /\ First(s, t, "UID") => client[s][Msg(s, t).u] = Absent
                      /\ First(s, t, "SID") => Msg(s, t).sid \notin known[s]
    BY DEF TInv, NoDuplicateIntro
  <1>1. ASSUME First(s, t, "UID") PROVE client[s][Msg(s, t).u] = Absent
    <2> DEFINE u == Msg(s, t).u
    <2>1. Brings(s, t, u)
      BY <1>1 DEF First, Msg, Brings
    <2> HIDE DEF u
    <2>2. u \in User /\ u \notin M[s] /\ Home[u] # s
      BY <2>1, UidNew
    <2>3. Reach(s, M)
      BY DEF Met
    <2>4. client[s][u] = Absent
      BY <2>2, <2>3 DEF Reach
    <2> QED BY <2>4 DEF u
  <1>2. ASSUME First(s, t, "SID") PROVE Msg(s, t).sid \notin known[s]
    <2>1. <<t, s>> \in Edge /\ t \in est[s] /\ chan[<<t, s>>] # <<>> /\ Msg(s, t).type = "SID"
      BY <1>2 DEF First, Msg
    <2>2. Fits(s, t, Msg(s, t), Sees(s, t, M))
      BY <2>1, Reading
    <2> QED BY <2>1, <2>2 DEF Fits, NewServers, Sees
  <1> QED BY <1>1, <1>2

\* Each link has all the servers on the one or the other side.
LEMMA TwoSides ==
    ASSUME NEW y, NEW z, <<y, z>> \in Edge, NEW x \in Server
    PROVE  x \in Behind[<<y, z>>] \/ x \in Behind[<<z, y>>]
  <1> DEFINE D == Behind[<<y, z>>] \cup Behind[<<z, y>>]
  <1>1. /\ <<z, y>> \in Edge /\ {y, z} \in Links /\ {z, y} = {y, z}
        /\ Behind[<<y, z>>] \subseteq Server /\ Behind[<<z, y>>] \subseteq Server
        /\ z \in Behind[<<y, z>>] /\ y \in Behind[<<z, y>>]
    BY EdgeFacts
  <1>2. ASSUME NEW e \in Edge, e[1] \in D PROVE e[2] \in D
    <2>1. e[1] \in Server /\ e[2] \in Server /\ {e[1], e[2]} \in Links
      BY DEF Edge
    <2>2. CASE {e[1], e[2]} = {y, z}
      BY <1>1, <2>2
    <2>3. ASSUME {e[1], e[2]} # {y, z}, NEW a, NEW b, <<a, b>> \in Edge, {a, b} = {y, z}, e[1] \in Behind[<<a, b>>]
          PROVE  e[2] \in Behind[<<a, b>>]
      <3>1. {e[1], e[2]} \in Links \ {{a, b}}
        BY <2>1, <2>3
      <3>2. \A C \in SUBSET Server :
               (b \in C /\ \A l \in Links \ {{a, b}} : l \cap C # {} => l \subseteq C) => e[1] \in C
        BY <2>3 DEF Behind
      <3>3. \A C \in SUBSET Server :
               (b \in C /\ \A l \in Links \ {{a, b}} : l \cap C # {} => l \subseteq C) => e[2] \in C
        BY <3>1, <3>2
      <3> QED BY <2>1, <2>3, <3>3 DEF Behind
    <2> QED BY <1>1, <1>2, <2>2, <2>3
  <1>3. D \in SUBSET Server /\ D # {}
    BY <1>1
  <1> HIDE DEF D
  <1>4. D = Server
    BY <1>2, <1>3, ConnectedAssumption
  <1> QED BY <1>4 DEF D

\* Every link on the way from y to x is up.
LivePath(y, x) == \A e \in Edge : y \notin Behind[e] /\ x \in Behind[e] => e[2] \in est[e[1]]

LEMMA LivePathHop ==
    ASSUME NEW z, NEW y, <<z, y>> \in Edge, NEW x \in Behind[<<z, y>>]
    PROVE  LivePath(z, x) <=> y \in est[z] /\ LivePath(y, x)
  <1>1. /\ <<y, z>> \in Edge /\ {y, z} \in Links /\ y \in Server /\ z \in Server /\ y # z
        /\ x \notin Behind[<<y, z>>] /\ z \notin Behind[<<z, y>>] /\ y \in Behind[<<z, y>>]
    BY EdgeFacts, Opposite
  <1>2. ASSUME NEW e \in Edge, {e[1], e[2]} # {y, z}
        PROVE  y \in Behind[e] <=> z \in Behind[e]
    <2>1. {y, z} \in Links \ {{e[1], e[2]}}
      BY <1>1, <1>2
    <2> QED BY <1>1, <2>1 DEF Behind
  <1>3. ASSUME NEW e \in Edge, x \in Behind[e], e # <<z, y>>
        PROVE  {e[1], e[2]} # {y, z}
    <2>1. e = <<e[1], e[2]>>
      BY DEF Edge
    <2>2. e # <<y, z>>
      BY <1>1, <1>3
    <2> QED BY <1>3, <2>1, <2>2
  <1>4. ASSUME LivePath(z, x) PROVE y \in est[z] /\ LivePath(y, x)
    <2>1. y \in est[z]
      BY <1>1, <1>4 DEF LivePath
    <2>2. ASSUME NEW e \in Edge, y \notin Behind[e], x \in Behind[e] PROVE e[2] \in est[e[1]]
      <3>1. e # <<z, y>>
        BY <1>1, <2>2
      <3>2. z \notin Behind[e]
        BY <1>2, <1>3, <2>2, <3>1
      <3> QED BY <1>4, <2>2, <3>2 DEF LivePath
    <2> QED BY <2>1, <2>2 DEF LivePath
  <1>5. ASSUME y \in est[z], LivePath(y, x) PROVE LivePath(z, x)
    <2>1. ASSUME NEW e \in Edge, z \notin Behind[e], x \in Behind[e] PROVE e[2] \in est[e[1]]
      <3>1. CASE e = <<z, y>>
        BY <1>5, <3>1
      <3>2. CASE e # <<z, y>>
        <4>1. y \notin Behind[e]
          BY <1>2, <1>3, <2>1, <3>2
        <4> QED BY <1>5, <2>1, <4>1 DEF LivePath
      <3> QED BY <3>1, <3>2
    <2> QED BY <2>1 DEF LivePath
  <1> QED BY <1>4, <1>5

\* When nothing is under way, what s knows of t's side is what t knows of it.
LEMMA QuietLink ==
    ASSUME NEW M, Met(M), Quiet, NEW s, NEW t, <<s, t>> \in Edge, NEW x \in Behind[<<s, t>>]
    PROVE  x \in known[s] <=> t \in est[s] /\ x \in known[t] \cup {t}
  <1>1. s \in Server /\ t \in Server /\ <<t, s>> \in Edge
    BY EdgeFacts
  <1>2. Reach(s, M)
    BY <1>1 DEF Met
  <1>3. CASE t \in est[s]
    <2>1. chan[<<t, s>>] = <<>> /\ s \in est[t]
      BY <1>1, <1>3 DEF Quiet
    <2>2. Live(t, s)
      BY <1>3, <2>1 DEF Live, Open
    <2>3. PICK T \in View : Turns(s, t, chan[<<t, s>>], Sees(s, t, M), T) /\ Match(T, Has(t, s, M))
      BY <1>1, <2>2 DEF Met, Told
    <2>4. T = Sees(s, t, M)
      BY <2>1, <2>3, TurnsNothing
    <2>5. Sees(s, t, M).srv = Has(t, s, M).srv
      BY <2>3, <2>4 DEF Match
    <2>6. known[s] \cap Behind[<<s, t>>] = (known[t] \cup {t}) \cap Behind[<<s, t>>]
      BY <2>5 DEF Sees, Has
    <2> QED BY <1>3, <2>6
  <1>4. CASE t \notin est[s]
    <2>1. known[s] \cap Behind[<<s, t>>] = {}
      BY <1>2, <1>4, NotLinked
    <2> QED BY <1>4, <2>1
  <1> QED BY <1>3, <1>4

LEMMA TInvKnowsSide == IInv /\ TInv => KnowsItsSide
  <1> SUFFICES ASSUME IInv, NEW M, Met(M), Quiet, NEW s \in Server
               PROVE  /\ known[s] = {x \in Server \ {s} : LivePath(s, x)}
                      /\ \A u \in User : client[s][u].on # "absent" => Home[u] \in known[s] \cup {s}
    BY DEF TInv, KnowsItsSide, LivePath
  <1>1. \A r \in Server : Reach(r, M) /\ r \notin known[r] /\ known[r] \subseteq Server
    BY NotSelf DEF Met, IInv, TypeOK
  <1>2. \A u \in User : client[s][u].on # "absent" => Home[u] \in known[s] \cup {s}
    BY <1>1 DEF Reach
  <1>3. ASSUME NEW x \in Server
        PROVE  x \in known[s] \cup {s} <=> LivePath(s, x)
    <2> DEFINE P == {y \in Server : x \in known[y] \cup {y} <=> LivePath(y, x)}
               C == {y \in Server : y \in P /\ Way(y, x) \subseteq P}
    <2>1. x \in C
      <3>1. LivePath(x, x)
        BY DEF LivePath
      <3> QED BY <3>1, NoWay
    <2>2. ASSUME NEW e \in Edge, e[1] \in C PROVE e[2] \in C
      <3>1. PICK y, z : e = <<y, z>>
        BY DEF Edge
      <3>2. /\ <<y, z>> \in Edge /\ <<z, y>> \in Edge /\ y \in C /\ e[2] = z
            /\ y \in Server /\ z \in Server /\ y # z
        BY <2>2, <3>1, EdgeFacts
      <3>3. CASE x \in Behind[<<y, z>>]
        <4>1. z \in Way(y, x) /\ \A w : w # z => (w \in Way(y, x) <=> w \in Way(z, x))
          BY <3>2, <3>3, WayHop, WayBeyond
        <4> QED BY <3>2, <4>1
      <3>4. CASE x \in Behind[<<z, y>>]
        <4>1. \A w : w # y => (w \in Way(z, x) <=> w \in Way(y, x))
          BY <3>2, <3>4, WayBeyond
        <4>2. x \in known[z] <=> y \in est[z] /\ x \in known[y] \cup {y}
          BY <3>2, <3>4, QuietLink
        <4>3. LivePath(z, x) <=> y \in est[z] /\ LivePath(y, x)
          BY <3>2, <3>4, LivePathHop
        <4>4. x # z
          BY <3>2, <3>4, Opposite
        <4>5. z \in P
          BY <3>2, <4>2, <4>3, <4>4
        <4> QED BY <3>2, <4>1, <4>5
      <3> QED BY <3>2, <3>3, <3>4, TwoSides
    <2>3. C \in SUBSET Server /\ C # {}
      BY <2>1
    <2> HIDE DEF C
    <2>4. C = Server
      BY <2>2, <2>3, ConnectedAssumption
    <2> QED BY <2>4 DEF C
  <1>4. known[s] = {x \in Server \ {s} : LivePath(s, x)}
    BY <1>1, <1>3
  <1> QED BY <1>2, <1>4

\* A server is never sent the SID of a server or the UID of a user it has, over
\* any number of splits and rejoins: ms_sid never has to cancel a link for it,
\* and ms_uid, which does not look, never hashes a client twice.
THEOREM NoDuplicateIntroHolds == Spec => []NoDuplicateIntro
  BY TInvHolds, TInvNoDuplicate, PTL

\* When nothing is under way, each server knows exactly the servers that its live
\* links lead to, and only users of those: exit_client and SQUIT have taken away
\* all that a split cut off, and server_estab and SID have brought back the rest.
THEOREM KnowsItsSideHolds == Spec => []KnowsItsSide
  BY TInvHolds, TInvKnowsSide, PTL

=============================================================================
