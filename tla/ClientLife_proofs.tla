-------------------------- MODULE ClientLife_proofs --------------------------
(***************************************************************************)
(* For any number of connections, remote clients and nicks: a marked       *)
(* client is on exactly one list that will collect it (OneFate), what is   *)
(* behind a link hangs on a server that exists (NoOrphans), the loops over *)
(* the client lists stay on their lists (SafeWalk), and of several clients *)
(* with one nick all but one are on abort_list (SharedNick).               *)
(*                                                                         *)
(* The invariant says of each record, and of the tables a handler works    *)
(* on, which combinations of list, flags and queue entries there are.      *)
(***************************************************************************)
EXTENDS ClientLife, TLAPS

-----------------------------------------------------------------------------
(* The tables a handler works on.                                          *)

Shape == [state : [Client -> State], flags : [Client -> SUBSET Flag],
          nick : [Client -> Nick \cup {NoNick}], servptr : [Remote -> Client],
          abort : [Client -> Nat], dead : [Client -> Nat]]

Sound(L, c) == L.state[c] \in Live /\ L.flags[c] = {} /\ L.abort[c] = 0 /\ L.dead[c] = 0

Queued(L, c) ==
    /\ c \in Conn /\ L.state[c] \in Live
    /\ L.flags[c] = Flag /\ L.abort[c] = 1 /\ L.dead[c] = 0

Over(L, c) ==
    /\ L.nick[c] = NoNick /\ L.abort[c] = 0
    /\ \/ L.state[c] = "none" /\ L.flags[c] = {} /\ L.dead[c] = 0
       \/ c \in Conn /\ L.state[c] = "reject" /\ L.flags[c] = {"closing"} /\ L.dead[c] = 0
       \/ L.state[c] = "gone" /\ "dead" \in L.flags[c] /\ L.dead[c] = 1
       \/ L.state[c] = "freed" /\ "dead" \in L.flags[c] /\ L.dead[c] = 0

\* A record is in use, queued on abort_list, or not yet or no longer in use.
Record(L, c) == Sound(L, c) \/ Queued(L, c) \/ Over(L, c)

Hanging(L) == \A r \in Remote : L.state[r] \in Live => L.state[L.servptr[r]] = "server"

Nameless(L) == \A c \in Client : L.state[c] = "server" => L.nick[c] = NoNick

OneSound(L) == \A c, d \in Client :
    L.nick[c] = L.nick[d] /\ L.nick[c] # NoNick /\ L.flags[c] = {} /\ L.flags[d] = {} => c = d

Good(L) ==
    /\ L \in Shape
    /\ \A c \in Client : Record(L, c)
    /\ Hanging(L) /\ Nameless(L) /\ OneSound(L)

WalkOK ==
    /\ walk \in [over : {"person", "server", "unknown", "abort"}, todo : SUBSET Conn]
    /\ SafeWalk

IInv == Good(Table) /\ WalkOK

-----------------------------------------------------------------------------
(* What the operators on tables do.                                        *)

\* Bury changes the records it is given and no other.
LEMMA BuryFields ==
    ASSUME NEW L \in Shape, NEW gone \in SUBSET Client
    PROVE  LET M == Bury(L, gone) IN
           /\ M \in Shape
           /\ \A c \in gone : /\ M.state[c] = "gone" /\ M.nick[c] = NoNick
                              /\ "dead" \in M.flags[c] /\ M.dead[c] = L.dead[c] + 1
           /\ \A c \in Client \ gone :
                 /\ M.state[c] = L.state[c] /\ M.nick[c] = L.nick[c]
                 /\ M.flags[c] = L.flags[c] /\ M.dead[c] = L.dead[c]
           /\ M.abort = L.abort /\ M.servptr = L.servptr
<1> DEFINE M == Bury(L, gone)
<1>1. /\ L.state \in [Client -> State] /\ L.flags \in [Client -> SUBSET Flag]
      /\ L.nick \in [Client -> Nick \cup {NoNick}] /\ L.servptr \in [Remote -> Client]
      /\ L.abort \in [Client -> Nat] /\ L.dead \in [Client -> Nat]
  BY DEF Shape
<1>2. /\ M.state = [c \in Client |-> IF c \in gone THEN "gone" ELSE L.state[c]]
      /\ M.flags = [c \in Client |->
            IF c \notin gone THEN L.flags[c]
            ELSE L.flags[c] \cup (IF c \in Conn THEN {"dead", "ioerror"} ELSE {"dead"})]
      /\ M.nick = [c \in Client |-> IF c \in gone THEN NoNick ELSE L.nick[c]]
      /\ M.dead = [c \in Client |-> IF c \in gone THEN L.dead[c] + 1 ELSE L.dead[c]]
      /\ M.abort = L.abort /\ M.servptr = L.servptr
  BY DEF Bury
<1>3. /\ M.state \in [Client -> State] /\ M.flags \in [Client -> SUBSET Flag]
      /\ M.nick \in [Client -> Nick \cup {NoNick}] /\ M.dead \in [Client -> Nat]
  BY <1>1, <1>2 DEF State, Flag
<1>4. M \in Shape
  <2>1. M = [state |-> M.state, flags |-> M.flags, nick |-> M.nick,
             servptr |-> M.servptr, abort |-> M.abort, dead |-> M.dead]
    BY DEF Bury
  <2> QED BY <1>1, <1>2, <1>3, <2>1 DEF Shape
<1> QED BY <1>1, <1>2, <1>4

\* DeadLink queues sound connections and changes nothing else.
LEMMA DeadLinkFields ==
    ASSUME NEW L \in Shape, NEW F
    PROVE  LET M == DeadLink(L, F) IN
           /\ M \in Shape
           /\ M.state = L.state /\ M.nick = L.nick /\ M.servptr = L.servptr /\ M.dead = L.dead
           /\ \A c \in Client :
                 \/ M.flags[c] = L.flags[c] /\ M.abort[c] = L.abort[c]
                 \/ /\ c \in Conn /\ L.state[c] \in Live /\ L.flags[c] = {}
                    /\ M.flags[c] = Flag /\ M.abort[c] = L.abort[c] + 1
<1> DEFINE M == DeadLink(L, F)
           hit == {c \in F \cap Conn : L.state[c] \in Live /\ L.flags[c] = {}}
<1>1. /\ L.state \in [Client -> State] /\ L.flags \in [Client -> SUBSET Flag]
      /\ L.nick \in [Client -> Nick \cup {NoNick}] /\ L.servptr \in [Remote -> Client]
      /\ L.abort \in [Client -> Nat] /\ L.dead \in [Client -> Nat]
  BY DEF Shape
<1>2. /\ M.state = L.state /\ M.nick = L.nick /\ M.servptr = L.servptr /\ M.dead = L.dead
      /\ M.flags = [c \in Client |-> IF c \in hit THEN Flag ELSE L.flags[c]]
      /\ M.abort = [c \in Client |-> IF c \in hit THEN L.abort[c] + 1 ELSE L.abort[c]]
  BY DEF DeadLink
<1>3. M.flags \in [Client -> SUBSET Flag] /\ M.abort \in [Client -> Nat]
  BY <1>1, <1>2 DEF Flag
<1>4. M \in Shape
  <2>1. M = [state |-> M.state, flags |-> M.flags, nick |-> M.nick,
             servptr |-> M.servptr, abort |-> M.abort, dead |-> M.dead]
    BY DEF DeadLink
  <2> QED BY <1>1, <1>2, <1>3, <2>1 DEF Shape
<1> QED BY <1>1, <1>2, <1>4

\* What the records that a handler builds with EXCEPT hold.
LEMMA SetStateFields ==
    ASSUME NEW L \in Shape, NEW c \in Client, NEW s \in State
    PROVE  LET M == SetState(L, c, s) IN
           /\ M \in Shape
           /\ M.state = [L.state EXCEPT ![c] = s]
           /\ M.flags = L.flags /\ M.nick = L.nick /\ M.servptr = L.servptr
           /\ M.abort = L.abort /\ M.dead = L.dead
<1> DEFINE M == SetState(L, c, s)
<1>1. /\ M.state = [L.state EXCEPT ![c] = s]
      /\ M.flags = L.flags /\ M.nick = L.nick /\ M.servptr = L.servptr
      /\ M.abort = L.abort /\ M.dead = L.dead
  BY DEF SetState, Shape
<1>2. M = [state |-> M.state, flags |-> M.flags, nick |-> M.nick,
           servptr |-> M.servptr, abort |-> M.abort, dead |-> M.dead]
  BY DEF SetState, Shape
<1> HIDE DEF M
<1>3. M \in Shape BY <1>1, <1>2 DEF Shape
<1> QED BY <1>1, <1>3 DEF M

\* The same for a change of the nick.
LEMMA SetNickFields ==
    ASSUME NEW L \in Shape, NEW c \in Client, NEW n \in Nick \cup {NoNick}
    PROVE  LET M == SetNick(L, c, n) IN
           /\ M \in Shape
           /\ M.nick = [L.nick EXCEPT ![c] = n]
           /\ M.flags = L.flags /\ M.state = L.state /\ M.servptr = L.servptr
           /\ M.abort = L.abort /\ M.dead = L.dead
<1> DEFINE M == SetNick(L, c, n)
<1>1. /\ M.nick = [L.nick EXCEPT ![c] = n]
      /\ M.flags = L.flags /\ M.state = L.state /\ M.servptr = L.servptr
      /\ M.abort = L.abort /\ M.dead = L.dead
  BY DEF SetNick, Shape
<1>2. M = [state |-> M.state, flags |-> M.flags, nick |-> M.nick,
           servptr |-> M.servptr, abort |-> M.abort, dead |-> M.dead]
  BY DEF SetNick, Shape
<1> HIDE DEF M
<1>3. M \in Shape BY <1>1, <1>2 DEF Shape
<1> QED BY <1>1, <1>3 DEF M

\* The same for the server a remote client is a client of.
LEMMA SetServptrFields ==
    ASSUME NEW L \in Shape, NEW r \in Remote, NEW s \in Client
    PROVE  LET M == [L EXCEPT !.servptr = [@ EXCEPT ![r] = s]] IN
           /\ M \in Shape
           /\ M.servptr = [L.servptr EXCEPT ![r] = s]
           /\ M.flags = L.flags /\ M.state = L.state /\ M.nick = L.nick
           /\ M.abort = L.abort /\ M.dead = L.dead
<1> DEFINE M == [L EXCEPT !.servptr = [@ EXCEPT ![r] = s]]
<1>1. /\ M.servptr = [L.servptr EXCEPT ![r] = s]
      /\ M.flags = L.flags /\ M.state = L.state /\ M.nick = L.nick
      /\ M.abort = L.abort /\ M.dead = L.dead
  BY DEF Shape
<1>2. M = [state |-> M.state, flags |-> M.flags, nick |-> M.nick,
           servptr |-> M.servptr, abort |-> M.abort, dead |-> M.dead]
  BY DEF Shape
<1> HIDE DEF M
<1>3. M \in Shape BY <1>1, <1>2 DEF Shape
<1> QED BY <1>1, <1>3 DEF M

\* The same for the flags.
LEMMA SetFlagsFields ==
    ASSUME NEW L \in Shape, NEW c \in Client, NEW f \in SUBSET Flag
    PROVE  LET M == SetFlags(L, c, f) IN
           /\ M \in Shape
           /\ M.flags = [L.flags EXCEPT ![c] = f]
           /\ M.servptr = L.servptr /\ M.state = L.state /\ M.nick = L.nick
           /\ M.abort = L.abort /\ M.dead = L.dead
<1> DEFINE M == SetFlags(L, c, f)
<1>1. /\ M.flags = [L.flags EXCEPT ![c] = f]
      /\ M.servptr = L.servptr /\ M.state = L.state /\ M.nick = L.nick
      /\ M.abort = L.abort /\ M.dead = L.dead
  BY DEF SetFlags, Shape
<1>2. M = [state |-> M.state, flags |-> M.flags, nick |-> M.nick,
           servptr |-> M.servptr, abort |-> M.abort, dead |-> M.dead]
  BY DEF SetFlags, Shape
<1> HIDE DEF M
<1>3. M \in Shape BY <1>1, <1>2 DEF Shape
<1> QED BY <1>1, <1>3 DEF M

\* The same for a record that is taken off abort_list.
LEMMA AbortFields ==
    ASSUME NEW L \in Shape, NEW c \in Client, NEW k \in Nat
    PROVE  LET M == [L EXCEPT !.abort = [@ EXCEPT ![c] = k]] IN
           /\ M \in Shape
           /\ M.abort = [L.abort EXCEPT ![c] = k]
           /\ M.servptr = L.servptr /\ M.state = L.state /\ M.nick = L.nick
           /\ M.flags = L.flags /\ M.dead = L.dead
<1> DEFINE M == [L EXCEPT !.abort = [@ EXCEPT ![c] = k]]
<1>1. /\ M.abort = [L.abort EXCEPT ![c] = k]
      /\ M.servptr = L.servptr /\ M.state = L.state /\ M.nick = L.nick
      /\ M.flags = L.flags /\ M.dead = L.dead
  BY DEF Shape
<1>2. M = [state |-> M.state, flags |-> M.flags, nick |-> M.nick,
           servptr |-> M.servptr, abort |-> M.abort, dead |-> M.dead]
  BY DEF Shape
<1> HIDE DEF M
<1>3. M \in Shape BY <1>1, <1>2 DEF Shape
<1> QED BY <1>1, <1>3 DEF M

\* What is behind a server: remote, in use, and everything that hangs on it.
LEMMA BelowFacts ==
    ASSUME NEW L \in Shape, NEW s \in Client
    PROVE  /\ \A r \in Below(L, s) : r \in Remote /\ L.state[r] \in Live
           /\ \A r \in Remote :
                L.state[r] \in Live /\ L.servptr[r] \in Below(L, s) \cup {s} => r \in Below(L, s)
<1>1. ASSUME NEW r \in Below(L, s) PROVE r \in Remote /\ L.state[r] \in Live
  <2> DEFINE C == {s} \cup {d \in Remote : L.state[d] \in Live}
  <2>1. /\ C \in SUBSET Client /\ s \in C
        /\ \A d \in Remote : L.state[d] \in Live /\ L.servptr[d] \in C => d \in C
    BY DEF Client
  <2> HIDE DEF C
  <2> QED BY <2>1 DEF Below
<1>2. ASSUME NEW r \in Remote, L.state[r] \in Live, L.servptr[r] \in Below(L, s) \cup {s}
      PROVE  r \in Below(L, s)
  <2>1. ASSUME NEW C \in SUBSET Client, s \in C,
               \A d \in Remote : L.state[d] \in Live /\ L.servptr[d] \in C => d \in C
        PROVE  r \in C
    <3>1. L.servptr[r] \in C BY <1>2, <2>1 DEF Below
    <3> QED BY <1>2, <2>1, <3>1
  <2> QED BY <1>2, <2>1 DEF Below
<1> QED BY <1>1, <1>2

-----------------------------------------------------------------------------
(* The operators keep the tables good.                                     *)

\* The flags, queues and names of a good table, one record at a time.
LEMMA GoodTypes ==
    ASSUME NEW L, L \in Shape
    PROVE  /\ L.state \in [Client -> State] /\ L.flags \in [Client -> SUBSET Flag]
           /\ L.nick \in [Client -> Nick \cup {NoNick}] /\ L.servptr \in [Remote -> Client]
           /\ L.abort \in [Client -> Nat] /\ L.dead \in [Client -> Nat]
           /\ \A r \in Remote : r \in Client /\ L.servptr[r] \in Client
BY DEF Shape, Client

\* Failed writes leave every record in use or queued.
LEMMA DeadLinkGood ==
    ASSUME NEW L, Good(L), NEW F
    PROVE  Good(DeadLink(L, F))
<1> DEFINE M == DeadLink(L, F)
<1>1. L \in Shape BY DEF Good
<1>2. /\ M \in Shape
      /\ M.state = L.state /\ M.nick = L.nick /\ M.servptr = L.servptr /\ M.dead = L.dead
      /\ \A c \in Client :
            \/ M.flags[c] = L.flags[c] /\ M.abort[c] = L.abort[c]
            \/ /\ c \in Conn /\ L.state[c] \in Live /\ L.flags[c] = {}
               /\ M.flags[c] = Flag /\ M.abort[c] = L.abort[c] + 1
  BY <1>1, DeadLinkFields
<1> HIDE DEF M
<1>3. ASSUME NEW c \in Client PROVE Record(M, c)
  <2>1. Record(L, c) BY DEF Good
  <2>2. CASE M.flags[c] = L.flags[c] /\ M.abort[c] = L.abort[c]
    BY <1>2, <2>1, <2>2 DEF Record, Sound, Queued, Over
  <2>3. CASE /\ c \in Conn /\ L.state[c] \in Live /\ L.flags[c] = {}
             /\ M.flags[c] = Flag /\ M.abort[c] = L.abort[c] + 1
    BY <1>2, <2>1, <2>3 DEF Record, Sound, Queued, Over, Live, Flag
  <2> QED BY <1>2, <2>2, <2>3
<1>4. Hanging(M) BY <1>2 DEF Good, Hanging
<1>5. Nameless(M) BY <1>2 DEF Good, Nameless
<1>6. OneSound(M)
  <2>1. \A c \in Client : M.flags[c] = {} => L.flags[c] = {} BY <1>2 DEF Flag
  <2> QED BY <1>2, <2>1 DEF Good, OneSound
<1> QED BY <1>2, <1>3, <1>4, <1>5, <1>6 DEF Good, M

\* What exit_client needs of the client it is given.
Exitable(L, c) ==
    /\ L \in Shape /\ L.state[c] \in Live /\ "closing" \notin L.flags[c]
    /\ L.abort[c] = 0 /\ L.dead[c] = 0
    /\ \A d \in Client \ {c} : Record(L, d)
    /\ Hanging(L) /\ Nameless(L) /\ OneSound(L)

\* An exit buries the client, and what is behind it if it is a server; other
\* connections are at most queued.
LEMMA ExitFields ==
    ASSUME NEW L, NEW c \in Client, Exitable(L, c), NEW F
    PROVE  \E gone \in SUBSET Client :
           LET X == Exit(L, c, F) IN
           /\ X \in Shape
           /\ c \in gone /\ gone \subseteq {c} \cup Remote
           /\ \A d \in gone \ {c} : L.state[d] \in Live
           /\ L.state[c] # "server" => gone = {c}
           /\ L.state[c] = "server" => \A r \in Remote :
                L.state[r] \in Live /\ L.servptr[r] \in gone => r \in gone
           /\ X.servptr = L.servptr
           /\ \A d \in gone : /\ X.state[d] = "gone" /\ X.nick[d] = NoNick /\ "dead" \in X.flags[d]
                              /\ X.abort[d] = L.abort[d] \/ (d \in Conn /\ d # c)
                              /\ X.dead[d] = L.dead[d] + 1
           /\ \A d \in Client \ gone :
                /\ X.state[d] = L.state[d] /\ X.nick[d] = L.nick[d] /\ X.dead[d] = L.dead[d]
                /\ \/ X.flags[d] = L.flags[d] /\ X.abort[d] = L.abort[d]
                   \/ /\ d \in Conn /\ L.state[d] \in Live /\ L.flags[d] = {}
                      /\ X.flags[d] = Flag /\ X.abort[d] = L.abort[d] + 1
<1> DEFINE K == SetFlags(L, c, L.flags[c] \cup {"closing"})
           M == DeadLink(K, F)
           gone == {c} \cup (IF M.state[c] = "server" THEN Below(M, c) ELSE {})
           X == Bury(M, gone)
<1>1. Exit(L, c, F) = X BY DEF Exit, Exitable
<1>2. L \in Shape /\ L.flags[c] \cup {"closing"} \in SUBSET Flag
  <2>1. L \in Shape BY DEF Exitable
  <2>2. L.flags[c] \in SUBSET Flag BY <2>1, GoodTypes
  <2> QED BY <2>1, <2>2 DEF Flag
<1>3. /\ K \in Shape
      /\ K.flags = [L.flags EXCEPT ![c] = L.flags[c] \cup {"closing"}]
      /\ K.servptr = L.servptr /\ K.state = L.state /\ K.nick = L.nick
      /\ K.abort = L.abort /\ K.dead = L.dead
  BY <1>2, SetFlagsFields
<1> HIDE DEF K
<1>4. /\ M \in Shape
      /\ M.state = K.state /\ M.nick = K.nick /\ M.servptr = K.servptr /\ M.dead = K.dead
      /\ \A d \in Client :
            \/ M.flags[d] = K.flags[d] /\ M.abort[d] = K.abort[d]
            \/ /\ d \in Conn /\ K.state[d] \in Live /\ K.flags[d] = {}
               /\ M.flags[d] = Flag /\ M.abort[d] = K.abort[d] + 1
  BY <1>3, DeadLinkFields
<1> HIDE DEF M
<1>5. /\ \A r \in Below(M, c) : r \in Remote /\ M.state[r] \in Live
      /\ \A r \in Remote :
           M.state[r] \in Live /\ M.servptr[r] \in Below(M, c) \cup {c} => r \in Below(M, c)
  BY <1>4, BelowFacts
<1>6. /\ c \in gone /\ gone \subseteq {c} \cup Remote /\ gone \in SUBSET Client
      /\ \A d \in gone \ {c} : L.state[d] \in Live
      /\ L.state[c] # "server" => gone = {c}
      /\ L.state[c] = "server" => \A r \in Remote :
           L.state[r] \in Live /\ L.servptr[r] \in gone => r \in gone
  BY <1>3, <1>4, <1>5 DEF Client
<1> HIDE DEF gone
<1>7. /\ X \in Shape
      /\ \A d \in gone : /\ X.state[d] = "gone" /\ X.nick[d] = NoNick
                         /\ "dead" \in X.flags[d] /\ X.dead[d] = M.dead[d] + 1
      /\ \A d \in Client \ gone :
           /\ X.state[d] = M.state[d] /\ X.nick[d] = M.nick[d]
           /\ X.flags[d] = M.flags[d] /\ X.dead[d] = M.dead[d]
      /\ X.abort = M.abort /\ X.servptr = M.servptr
  BY <1>4, <1>6, BuryFields
<1> HIDE DEF X
<1>8. /\ K.flags[c] # {} /\ \A d \in Client \ {c} : K.flags[d] = L.flags[d]
      /\ K.abort = L.abort /\ K.state = L.state /\ K.nick = L.nick /\ K.dead = L.dead
  <2>1. L.flags \in [Client -> SUBSET Flag] BY <1>2, GoodTypes
  <2> QED BY <1>3, <2>1
<1>9. \A d \in gone : X.abort[d] = L.abort[d] \/ (d \in Conn /\ d # c)
  BY <1>4, <1>6, <1>7, <1>8
<1>10. \A d \in Client \ gone :
         \/ X.flags[d] = L.flags[d] /\ X.abort[d] = L.abort[d]
         \/ /\ d \in Conn /\ L.state[d] \in Live /\ L.flags[d] = {}
            /\ X.flags[d] = Flag /\ X.abort[d] = L.abort[d] + 1
  BY <1>4, <1>6, <1>7, <1>8
<1> QED BY <1>1, <1>3, <1>4, <1>6, <1>7, <1>9, <1>10

\* What an exit of c leaves of the others.
Frame(L, X, c) ==
    /\ \A d \in Client : X.nick[d] \in {L.nick[d], NoNick}
    /\ \A d \in Client : X.flags[d] = {} => L.flags[d] = {} /\ d # c
    /\ \A d \in Client : L.state[d] = "none" => X.state[d] = "none"
    /\ \A d \in Client \ {c} : (L.state[c] # "server" \/ d \in Conn) =>
         X.state[d] = L.state[d] /\ X.nick[d] = L.nick[d]
    /\ \A d \in Conn \ {c} : X.abort[d] \in {L.abort[d], L.abort[d] + 1}

\* An exit that is carried out keeps the tables good.
LEMMA ExitGood ==
    ASSUME NEW L, NEW c \in Client, Exitable(L, c), NEW F
    PROVE  Good(Exit(L, c, F)) /\ Frame(L, Exit(L, c, F), c)
<1> DEFINE X == Exit(L, c, F)
<1> HIDE DEF X
<1>1. PICK gone \in SUBSET Client :
           /\ X \in Shape
           /\ c \in gone /\ gone \subseteq {c} \cup Remote
           /\ \A d \in gone \ {c} : L.state[d] \in Live
           /\ L.state[c] # "server" => gone = {c}
           /\ L.state[c] = "server" => \A r \in Remote :
                L.state[r] \in Live /\ L.servptr[r] \in gone => r \in gone
           /\ X.servptr = L.servptr
           /\ \A d \in gone : /\ X.state[d] = "gone" /\ X.nick[d] = NoNick /\ "dead" \in X.flags[d]
                              /\ X.abort[d] = L.abort[d] \/ (d \in Conn /\ d # c)
                              /\ X.dead[d] = L.dead[d] + 1
           /\ \A d \in Client \ gone :
                /\ X.state[d] = L.state[d] /\ X.nick[d] = L.nick[d] /\ X.dead[d] = L.dead[d]
                /\ \/ X.flags[d] = L.flags[d] /\ X.abort[d] = L.abort[d]
                   \/ /\ d \in Conn /\ L.state[d] \in Live /\ L.flags[d] = {}
                      /\ X.flags[d] = Flag /\ X.abort[d] = L.abort[d] + 1
  BY ExitFields DEF X
<1>2. /\ L \in Shape /\ L.state[c] \in Live /\ L.abort[c] = 0 /\ L.dead[c] = 0
      /\ \A d \in Client \ {c} : Record(L, d)
      /\ Hanging(L) /\ Nameless(L) /\ OneSound(L)
  BY DEF Exitable
<1>3. gone \cap Conn \subseteq {c} BY <1>1, ClientAssumption
<1>4. ASSUME NEW d \in Client PROVE Record(X, d)
  <2>1. CASE d = c
    BY <1>1, <1>2, <2>1 DEF Record, Over
  <2>2. CASE d \in gone /\ d # c
    <3>1. d \notin Conn BY <1>3, <2>2
    <3>2. Sound(L, d) BY <1>1, <1>2, <2>2, <3>1 DEF Record, Queued, Over, Live
    <3> QED BY <1>1, <2>2, <3>1, <3>2 DEF Record, Over, Sound
  <2>3. CASE d \notin gone
    <3>1. Record(L, d) BY <1>1, <1>2, <2>3
    <3>2. CASE X.flags[d] = L.flags[d] /\ X.abort[d] = L.abort[d]
      BY <1>1, <2>3, <3>1, <3>2 DEF Record, Sound, Queued, Over
    <3>3. CASE /\ d \in Conn /\ L.state[d] \in Live /\ L.flags[d] = {}
               /\ X.flags[d] = Flag /\ X.abort[d] = L.abort[d] + 1
      BY <1>1, <2>3, <3>1, <3>3 DEF Record, Sound, Queued, Over, Live, Flag
    <3> QED BY <1>1, <2>3, <3>2, <3>3
  <2> QED BY <2>1, <2>2, <2>3
<1>5. Hanging(X)
  <2> SUFFICES ASSUME NEW r \in Remote, X.state[r] \in Live
               PROVE  X.state[L.servptr[r]] = "server"
    BY <1>1 DEF Hanging
  <2>1. r \in Client /\ L.servptr[r] \in Client BY <1>2, GoodTypes
  <2>2. r \notin gone BY <1>1 DEF Live
  <2>3. L.state[r] \in Live BY <1>1, <2>1, <2>2
  <2>4. L.state[L.servptr[r]] = "server" BY <1>2, <2>3 DEF Hanging
  <2>5. L.servptr[r] \notin gone
    <3>1. CASE L.state[c] = "server" BY <1>1, <2>2, <2>3, <3>1
    <3>2. CASE L.state[c] # "server" BY <1>1, <2>4, <3>2
    <3> QED BY <3>1, <3>2
  <2> QED BY <1>1, <2>1, <2>4, <2>5
<1>6. Nameless(X)
  <2> SUFFICES ASSUME NEW d \in Client, X.state[d] = "server" PROVE X.nick[d] = NoNick
    BY DEF Nameless
  <2>1. d \notin gone BY <1>1
  <2> QED BY <1>1, <1>2, <2>1 DEF Nameless
<1>7. \A d \in Client : X.flags[d] = {} => L.flags[d] = {} /\ d \notin gone
  BY <1>1 DEF Flag
<1>8. OneSound(X)
  BY <1>1, <1>2, <1>7 DEF OneSound
<1>9. Frame(L, X, c)
  <2>1. \A d \in Client : X.nick[d] \in {L.nick[d], NoNick} BY <1>1
  <2>2. \A d \in Client : L.state[d] = "none" => X.state[d] = "none"
    BY <1>1, <1>2 DEF Live
  <2>3. \A d \in Client \ {c} : (L.state[c] # "server" \/ d \in Conn) =>
          X.state[d] = L.state[d] /\ X.nick[d] = L.nick[d]
    BY <1>1, <1>3
  <2>4. \A d \in Conn \ {c} : X.abort[d] \in {L.abort[d], L.abort[d] + 1}
    BY <1>1, <1>3 DEF Client
  <2> QED BY <1>1, <1>7, <2>1, <2>2, <2>3, <2>4 DEF Frame
<1> QED BY <1>1, <1>4, <1>5, <1>6, <1>8, <1>9 DEF Good, X

\* exit_client keeps the tables good, whether it acts or turns the client away.
LEMMA ExitAny ==
    ASSUME NEW L, Good(L), NEW c \in Client, L.state[c] \in Live, NEW F
    PROVE  /\ Good(Exit(L, c, F))
           /\ (Exit(L, c, F) = L /\ L.flags[c] # {}) \/ Frame(L, Exit(L, c, F), c)
<1>1. CASE "closing" \in L.flags[c]
  BY <1>1 DEF Exit
<1>2. CASE "closing" \notin L.flags[c]
  <2>1. Sound(L, c) BY <1>2 DEF Good, Record, Queued, Over, Live, Flag
  <2>2. Exitable(L, c) BY <1>2, <2>1 DEF Exitable, Good, Sound
  <2> QED BY <2>2, ExitGood
<1> QED BY <1>1, <1>2

\* n can be taken at L: whoever else has it is on abort_list.
Free(L, n) == \A d \in Client : L.nick[d] = n => L.flags[d] # {}

\* A user or an unregistered client takes a free nick, or its UID.
LEMMA SetNickGood ==
    ASSUME NEW L, Good(L), NEW c \in Client, L.state[c] \in {"unknown", "person"},
           NEW n \in Nick \cup {NoNick}, n = NoNick \/ Free(L, n)
    PROVE  Good(SetNick(L, c, n))
<1> DEFINE M == SetNick(L, c, n)
<1> HIDE DEF M
<1>1. L \in Shape BY DEF Good
<1>2. /\ M \in Shape
      /\ M.nick = [L.nick EXCEPT ![c] = n]
      /\ M.flags = L.flags /\ M.state = L.state /\ M.servptr = L.servptr
      /\ M.abort = L.abort /\ M.dead = L.dead
  BY <1>1, SetNickFields DEF M
<1>3. M.nick[c] = n /\ \A d \in Client \ {c} : M.nick[d] = L.nick[d]
  BY <1>1, <1>2, GoodTypes
<1>4. ASSUME NEW d \in Client PROVE Record(M, d)
  <2>1. Record(L, d) BY DEF Good
  <2> QED BY <1>2, <1>3, <2>1 DEF Record, Sound, Queued, Over
<1>5. Hanging(M) BY <1>2 DEF Good, Hanging
<1>6. Nameless(M) BY <1>2, <1>3 DEF Good, Nameless
<1>7. OneSound(M)
  BY <1>2, <1>3 DEF Good, OneSound, Free
<1> QED BY <1>2, <1>4, <1>5, <1>6, <1>7 DEF Good, M

\* A connection is accepted, or registers.
LEMMA SetStateGood ==
    ASSUME NEW L, Good(L), NEW c \in Conn, L.state[c] \in {"none", "unknown"}, L.flags[c] = {},
           NEW s \in Live, s = "server" => L.nick[c] = NoNick
    PROVE  Good(SetState(L, c, s))
<1> DEFINE M == SetState(L, c, s)
<1> HIDE DEF M
<1>1. L \in Shape /\ c \in Client /\ s \in State BY DEF Good, Client, Live, State
<1>2. /\ M \in Shape
      /\ M.state = [L.state EXCEPT ![c] = s]
      /\ M.flags = L.flags /\ M.nick = L.nick /\ M.servptr = L.servptr
      /\ M.abort = L.abort /\ M.dead = L.dead
  BY <1>1, SetStateFields DEF M
<1>3. M.state[c] = s /\ \A d \in Client \ {c} : M.state[d] = L.state[d]
  BY <1>1, <1>2, GoodTypes
<1>4. ASSUME NEW d \in Client PROVE Record(M, d)
  <2>1. Record(L, d) BY DEF Good
  <2>2. CASE d # c BY <1>2, <1>3, <2>1, <2>2 DEF Record, Sound, Queued, Over
  <2>3. CASE d = c BY <1>2, <1>3, <2>1, <2>3 DEF Record, Sound, Queued, Over, Live, Flag
  <2> QED BY <2>2, <2>3
<1>5. Hanging(M)
  <2> SUFFICES ASSUME NEW r \in Remote, M.state[r] \in Live
               PROVE  M.state[L.servptr[r]] = "server"
    BY <1>2 DEF Hanging
  <2>1. r # c /\ r \in Client /\ L.servptr[r] \in Client
    BY <1>1, GoodTypes, ClientAssumption
  <2>2. L.state[L.servptr[r]] = "server" BY <1>3, <2>1 DEF Good, Hanging
  <2> QED BY <1>3, <2>1, <2>2
<1>6. Nameless(M) BY <1>2, <1>3 DEF Good, Nameless
<1>7. OneSound(M) BY <1>2 DEF Good, OneSound
<1> QED BY <1>2, <1>4, <1>5, <1>6, <1>7 DEF Good, M

\* A server, or a user whose nick is free, is introduced behind a server.
LEMMA IntroduceGood ==
    ASSUME NEW L, Good(L), NEW r \in Remote, L.state[r] = "none",
           NEW s \in Client, L.state[s] = "server",
           NEW kind \in {"server", "person"}, NEW n \in Nick \cup {NoNick},
           n = NoNick \/ Free(L, n), kind = "server" => n = NoNick
    PROVE  Good(Introduce(L, r, s, kind, n))
<1> DEFINE A == SetState(L, r, kind)
           B == SetNick(A, r, n)
           M == [B EXCEPT !.servptr = [@ EXCEPT ![r] = s]]
<1>0. Introduce(L, r, s, kind, n) = M BY DEF Introduce
<1> HIDE DEF A, B, M
<1>1. L \in Shape /\ r \in Client /\ kind \in State BY DEF Good, Client, State
<1>2. /\ A \in Shape
      /\ A.state = [L.state EXCEPT ![r] = kind]
      /\ A.flags = L.flags /\ A.nick = L.nick /\ A.servptr = L.servptr
      /\ A.abort = L.abort /\ A.dead = L.dead
  BY <1>1, SetStateFields DEF A
<1>3. /\ B \in Shape
      /\ B.nick = [A.nick EXCEPT ![r] = n]
      /\ B.flags = A.flags /\ B.state = A.state /\ B.servptr = A.servptr
      /\ B.abort = A.abort /\ B.dead = A.dead
  BY <1>1, <1>2, SetNickFields DEF B
<1>4. /\ M \in Shape
      /\ M.servptr = [B.servptr EXCEPT ![r] = s]
      /\ M.flags = B.flags /\ M.state = B.state /\ M.nick = B.nick
      /\ M.abort = B.abort /\ M.dead = B.dead
  BY <1>1, <1>3, SetServptrFields DEF M
<1>5. /\ M.state[r] = kind /\ M.nick[r] = n /\ M.servptr[r] = s
      /\ \A d \in Client \ {r} : M.state[d] = L.state[d] /\ M.nick[d] = L.nick[d]
      /\ \A d \in Remote \ {r} : M.servptr[d] = L.servptr[d]
      /\ M.flags = L.flags /\ M.abort = L.abort /\ M.dead = L.dead
  BY <1>1, <1>2, <1>3, <1>4, GoodTypes
<1>6. Sound(M, r)
  <2>1. Record(L, r) BY <1>1 DEF Good
  <2> QED BY <1>5, <2>1 DEF Record, Sound, Queued, Over, Live
<1>7. ASSUME NEW d \in Client PROVE Record(M, d)
  <2>1. Record(L, d) BY DEF Good
  <2> QED BY <1>5, <1>6, <2>1 DEF Record, Sound, Queued, Over
<1>8. Hanging(M)
  <2> SUFFICES ASSUME NEW d \in Remote, M.state[d] \in Live
               PROVE  M.state[M.servptr[d]] = "server"
    BY DEF Hanging
  <2>1. CASE d = r BY <1>5, <2>1
  <2>2. CASE d # r
    <3>1. d \in Client /\ L.servptr[d] \in Client BY <1>1, GoodTypes
    <3>2. L.state[L.servptr[d]] = "server" BY <1>5, <2>2, <3>1 DEF Good, Hanging
    <3> QED BY <1>5, <2>2, <3>1, <3>2
  <2> QED BY <2>1, <2>2
<1>9. Nameless(M) BY <1>5 DEF Good, Nameless
<1>10. OneSound(M) BY <1>5 DEF Good, OneSound, Free
<1> QED BY <1>0, <1>4, <1>7, <1>8, <1>9, <1>10 DEF Good

-----------------------------------------------------------------------------
(* The holder of a nick.                                                   *)

\* A holder that is found is a user or an unregistered client, and the others
\* that have the nick are on abort_list.
LEMMA FoundFacts ==
    ASSUME Good(Table), NEW n \in Nick, NEW h \in Found(n)
    PROVE  /\ h \in Client /\ nick[h] = n /\ n # NoNick
           /\ state[h] \in {"unknown", "person"} /\ state[h] \in Live
           /\ \A d \in Client : nick[d] = n /\ flags[d] = {} => d = h
<1>1. h \in Client /\ nick[h] = n BY DEF Found, Holders
<1>2. n # NoNick BY ClientAssumption
<1>3. ~Over(Table, h) BY <1>1, <1>2 DEF Over, Table
<1>4. state[h] \in Live
  BY <1>1, <1>3 DEF Good, Record, Sound, Queued, Table
<1>5. state[h] # "server" BY <1>1, <1>2 DEF Good, Nameless, Table
<1>6. ASSUME NEW d \in Client, nick[d] = n, flags[d] = {} PROVE d = h
  <2>1. d \in Holders(n) /\ Unhurt(d) BY <1>6 DEF Holders, Unhurt
  <2>2. Unhurt(h) BY <2>1 DEF Found
  <2> QED BY <1>1, <1>2, <1>6, <2>2 DEF Good, OneSound, Table, Unhurt
<1> QED BY <1>1, <1>2, <1>4, <1>5, <1>6 DEF Live

\* When the holder is exited, or renamed, the nick is free.
LEMMA FoundFreed ==
    ASSUME Good(Table), NEW n \in Nick, NEW h \in Found(n), NEW F
    PROVE  LET X == Exit(Table, h, F)
               Y == SetNick(Table, h, NoNick)
           IN
           /\ Good(X) /\ Free(X, n)
           /\ \A d \in Client \ {h} : X.state[d] = state[d] /\ X.nick[d] = nick[d]
           /\ state[h] = "person" => /\ Good(Y) /\ Free(Y, n)
                                     /\ Y.state = state
                                     /\ \A d \in Client \ {h} : Y.nick[d] = nick[d]
<1> DEFINE X == Exit(Table, h, F)
           Y == SetNick(Table, h, NoNick)
<1> HIDE DEF X, Y
<1>1. /\ h \in Client /\ nick[h] = n /\ n # NoNick
      /\ state[h] \in {"unknown", "person"} /\ state[h] \in Live
      /\ \A d \in Client : nick[d] = n /\ flags[d] = {} => d = h
  BY FoundFacts
<1>2. /\ Table.state = state /\ Table.nick = nick /\ Table.flags = flags
      /\ Table \in Shape
  BY DEF Table, Good
<1>3. Good(X) /\ ((X = Table /\ flags[h] # {}) \/ Frame(Table, X, h))
  BY <1>1, <1>2, ExitAny DEF X
<1>4. Free(X, n)
  <2>1. CASE X = Table /\ flags[h] # {} BY <1>1, <1>2, <2>1 DEF Free
  <2>2. CASE Frame(Table, X, h) BY <1>1, <1>2, <2>2 DEF Free, Frame
  <2> QED BY <1>3, <2>1, <2>2
<1>5. \A d \in Client \ {h} : X.state[d] = state[d] /\ X.nick[d] = nick[d]
  <2>1. CASE X = Table BY <1>2, <2>1
  <2>2. CASE Frame(Table, X, h) BY <1>1, <1>2, <2>2 DEF Frame
  <2> QED BY <1>3, <2>1, <2>2
<1>6. Good(Y) BY <1>1, <1>2, SetNickGood DEF Y
<1>7. /\ Y.state = state /\ Y.flags = flags /\ Y.nick[h] = NoNick
      /\ \A d \in Client \ {h} : Y.nick[d] = nick[d]
  <2>1. Y.nick = [nick EXCEPT ![h] = NoNick] /\ Y.state = state /\ Y.flags = flags
    BY <1>1, <1>2, SetNickFields DEF Y
  <2>2. nick \in [Client -> Nick \cup {NoNick}] BY <1>2, GoodTypes
  <2> QED BY <1>1, <2>1, <2>2
<1>8. Free(Y, n) BY <1>1, <1>7 DEF Free
<1> QED BY <1>3, <1>4, <1>5, <1>6, <1>7, <1>8 DEF X, Y

\* What a handler makes of the tables becomes the tables.
LEMMA BecomeTable ==
    ASSUME NEW L, L \in Shape, Become(L) PROVE Table' = L
<1>1. L = [state |-> L.state, flags |-> L.flags, nick |-> L.nick,
           servptr |-> L.servptr, abort |-> L.abort, dead |-> L.dead]
  BY DEF Shape
<1>2. Table' = [state |-> L.state, flags |-> L.flags, nick |-> L.nick,
                servptr |-> L.servptr, abort |-> L.abort, dead |-> L.dead]
  BY DEF Become, Table
<1> QED BY <1>1, <1>2

-----------------------------------------------------------------------------
(* Each action keeps the invariant.                                        *)

\* Between two steps of a loop nothing is left to be visited, so that any
\* change of the tables will do.
LEMMA IdleStep ==
    ASSUME WalkOK, Idle, UNCHANGED walk PROVE WalkOK'
BY DEF WalkOK, SafeWalk, Idle

\* Good(L) for the table that a handler makes of the present one is enough.
LEMMA BecomeGood ==
    ASSUME NEW L, Good(L), Become(L) PROVE Good(Table)'
<1>1. Table' = L BY BecomeTable DEF Good
<1>2. Good(Table') BY <1>1
<1> QED BY <1>2 DEF Good, Record, Sound, Queued, Over, Hanging, Nameless, OneSound

\* The fields of the present tables.
LEMMA TableFields ==
    /\ Table.state = state /\ Table.flags = flags /\ Table.nick = nick
    /\ Table.servptr = servptr /\ Table.abort = abort /\ Table.dead = dead
BY DEF Table

\* make_client: a new record is unregistered, or parked.
LEMMA AcceptStep == ASSUME IInv, NEW c \in Conn, Accept(c) PROVE Good(Table)'
<1>1. Good(Table) /\ c \in Client /\ state[c] = "none" BY DEF IInv, Accept, Client
<1>2. Over(Table, c) /\ flags[c] = {} BY <1>1, TableFields
      DEF Good, Record, Sound, Queued, Over, Live
<1>3. CASE Become(SetState(Table, c, "unknown"))
  <2>1. Good(SetState(Table, c, "unknown"))
    BY <1>1, <1>2, TableFields, SetStateGood DEF Live
  <2> QED BY <1>3, <2>1, BecomeGood
<1>4. CASE Become(SetFlags(SetState(Table, c, "reject"), c, {"closing"}))
  <2> DEFINE A == SetState(Table, c, "reject")
             B == SetFlags(A, c, {"closing"})
  <2> HIDE DEF A, B
  <2>1. Table \in Shape BY <1>1 DEF Good
  <2>2. /\ A \in Shape
        /\ A.state = [state EXCEPT ![c] = "reject"]
        /\ A.flags = flags /\ A.nick = nick /\ A.servptr = servptr
        /\ A.abort = abort /\ A.dead = dead
    BY <1>1, <2>1, SetStateFields, TableFields DEF A, State
  <2>3. /\ B \in Shape
        /\ B.flags = [A.flags EXCEPT ![c] = {"closing"}]
        /\ B.servptr = A.servptr /\ B.state = A.state /\ B.nick = A.nick
        /\ B.abort = A.abort /\ B.dead = A.dead
    BY <1>1, <2>2, SetFlagsFields DEF B, Flag
  <2>4. /\ B.state[c] = "reject" /\ B.flags[c] = {"closing"}
        /\ \A d \in Client \ {c} : B.state[d] = state[d] /\ B.flags[d] = flags[d]
        /\ B.nick = nick /\ B.servptr = servptr /\ B.abort = abort /\ B.dead = dead
    BY <1>1, <2>1, <2>2, <2>3, GoodTypes, TableFields
  <2>5. ASSUME NEW d \in Client PROVE Record(B, d)
    <3>1. Record(Table, d) BY <1>1 DEF Good
    <3>2. CASE d # c BY <2>4, <3>1, <3>2, TableFields DEF Record, Sound, Queued, Over
    <3>3. CASE d = c BY <1>2, <2>4, <3>3, TableFields DEF Record, Over
    <3> QED BY <3>2, <3>3
  <2>6. Hanging(B)
    <3> SUFFICES ASSUME NEW r \in Remote, B.state[r] \in Live
                 PROVE  B.state[servptr[r]] = "server"
      BY <2>4 DEF Hanging
    <3>1. r # c /\ r \in Client /\ servptr[r] \in Client
      BY <2>1, GoodTypes, TableFields, ClientAssumption
    <3>2. state[servptr[r]] = "server"
      BY <1>1, <2>4, <3>1, TableFields DEF Good, Hanging
    <3> QED BY <1>1, <2>4, <3>1, <3>2
  <2>7. Nameless(B) BY <1>1, <2>4, TableFields DEF Good, Nameless
  <2>8. OneSound(B) BY <1>1, <2>4, TableFields DEF Good, OneSound
  <2>9. Good(B) BY <2>3, <2>5, <2>6, <2>7, <2>8 DEF Good
  <2> QED BY <1>4, <2>9, BecomeGood DEF A, B
<1> QED BY <1>3, <1>4 DEF Accept

\* NICK and registration of a local client.
LEMMA MrNickStep ==
    ASSUME IInv, NEW c \in Conn, NEW n \in Nick, MrNick(c, n) PROVE Good(Table)'
<1>1. Good(Table) /\ c \in Client /\ state[c] = "unknown" /\ Holders(n) = {}
  BY DEF IInv, MrNick, Client
<1>2. Free(Table, n) BY <1>1, TableFields DEF Free, Holders
<1>3. Good(SetNick(Table, c, n)) BY <1>1, <1>2, SetNickGood, TableFields
<1> QED BY <1>3, BecomeGood DEF MrNick

\* The client becomes a user.
LEMMA RegisterStep ==
    ASSUME IInv, NEW c \in Conn, NEW F, Register(c, F) PROVE Good(Table)'
<1>1. Good(Table) /\ state[c] = "unknown" /\ flags[c] = {}
  BY DEF IInv, Register, Unhurt
<1>2. Good(SetState(Table, c, "person")) BY <1>1, SetStateGood, TableFields DEF Live
<1>3. Good(DeadLink(SetState(Table, c, "person"), F)) BY <1>2, DeadLinkGood
<1> QED BY <1>3, BecomeGood DEF Register

\* The connection becomes a server.
LEMMA ServerEstabStep ==
    ASSUME IInv, NEW c \in Conn, NEW F, ServerEstab(c, F) PROVE Good(Table)'
<1> DEFINE N == SetNick(Table, c, NoNick)
<1> HIDE DEF N
<1>1. Good(Table) /\ c \in Client /\ state[c] = "unknown" /\ flags[c] = {}
  BY DEF IInv, ServerEstab, Unhurt, Client
<1>2. Good(N) BY <1>1, SetNickGood, TableFields DEF N
<1>3. N.state[c] = "unknown" /\ N.flags[c] = {} /\ N.nick[c] = NoNick
  <2>1. /\ Table.state = state /\ Table.nick = nick /\ Table.flags = flags
        /\ Table \in Shape
    BY <1>1 DEF Table, Good
  <2>2. N.nick = [nick EXCEPT ![c] = NoNick] /\ N.state = state /\ N.flags = flags
    BY <1>1, <2>1, SetNickFields DEF N
  <2>3. nick \in [Client -> Nick \cup {NoNick}] BY <1>1, <2>1, GoodTypes
  <2> QED BY <1>1, <2>1, <2>2, <2>3
<1>4. Good(SetState(N, c, "server")) BY <1>2, <1>3, SetStateGood DEF Live
<1>5. Good(DeadLink(SetState(N, c, "server"), F)) BY <1>4, DeadLinkGood
<1> QED BY <1>5, BecomeGood DEF ServerEstab, N

\* A local user changes nick; an unregistered holder makes room.
LEMMA MNickStep ==
    ASSUME IInv, NEW c \in Conn, NEW n \in Nick, NEW F, MNick(c, n, F) PROVE Good(Table)'
<1>1. Good(Table) /\ c \in Client /\ state[c] = "person"
  BY DEF IInv, MNick, Client
<1>2. CASE Holders(n) = {} /\ Become(DeadLink(SetNick(Table, c, n), F))
  <2>1. Free(Table, n) BY <1>2, TableFields DEF Free, Holders
  <2>2. Good(SetNick(Table, c, n)) BY <1>1, <2>1, SetNickGood, TableFields
  <2>3. Good(DeadLink(SetNick(Table, c, n), F)) BY <2>2, DeadLinkGood
  <2> QED BY <1>2, <2>3, BecomeGood
<1>3. ASSUME NEW h \in Found(n), state[h] = "unknown",
             Become(SetNick(Exit(Table, h, F), c, n))
      PROVE  Good(Table)'
  <2> DEFINE X == Exit(Table, h, F)
  <2>1. /\ Good(X) /\ Free(X, n)
        /\ \A d \in Client \ {h} : X.state[d] = state[d] /\ X.nick[d] = nick[d]
    BY <1>1, FoundFreed
  <2> HIDE DEF X
  <2>2. X.state[c] = "person" BY <1>1, <1>3, <2>1
  <2>3. Good(SetNick(X, c, n)) BY <1>1, <2>1, <2>2, SetNickGood
  <2> QED BY <1>3, <2>3, BecomeGood DEF X
<1> QED BY <1>2, <1>3 DEF MNick

\* A link introduces a server behind it.
LEMMA MsSidStep ==
    ASSUME IInv, NEW s \in Client, NEW r \in Remote, NEW F, MsSid(s, r, F)
    PROVE  Good(Table)'
<1>1. Good(Table) /\ state[s] = "server" /\ state[r] = "none"
  BY DEF IInv, MsSid, Heard
<1>2. Good(Introduce(Table, r, s, "server", NoNick))
  BY <1>1, IntroduceGood, TableFields
<1>3. Good(DeadLink(Introduce(Table, r, s, "server", NoNick), F)) BY <1>2, DeadLinkGood
<1> QED BY <1>3, BecomeGood DEF MsSid

\* A link introduces a user, whose nick may be held.
LEMMA MsUidStep ==
    ASSUME IInv, NEW s \in Client, NEW r \in Remote, NEW n \in Nick, NEW F, MsUid(s, r, n, F)
    PROVE  Good(Table)'
<1>1. Good(Table) /\ state[s] = "server" /\ state[r] = "none" /\ r \in Client
  BY DEF IInv, MsUid, Heard, Client
<1>2. CASE /\ Holders(n) = {}
           /\ Become(DeadLink(Introduce(Table, r, s, "person", n), F))
  <2>1. Free(Table, n) BY <1>2, TableFields DEF Free, Holders
  <2>2. Good(Introduce(Table, r, s, "person", n)) BY <1>1, <2>1, IntroduceGood, TableFields
  <2>3. Good(DeadLink(Introduce(Table, r, s, "person", n), F)) BY <2>2, DeadLinkGood
  <2> QED BY <1>2, <2>3, BecomeGood
<1>3. ASSUME NEW h \in Found(n),
             \/ Become(Introduce(Exit(Table, h, F), r, s, "person", n))
             \/ /\ state[h] = "person"
                /\ Become(DeadLink(Introduce(SetNick(Table, h, NoNick), r, s, "person", n), F))
             \/ state[h] = "person" /\ Become(Exit(Table, h, F))
             \/ /\ state[h] = "person"
                /\ \E L \in {Table, SetNick(Table, h, NoNick)} :
                     Become(DeadLink(Introduce(L, r, s, "person", NoNick), F))
      PROVE  Good(Table)'
  <2> DEFINE X == Exit(Table, h, F)
             Y == SetNick(Table, h, NoNick)
  <2>1. /\ Good(X) /\ Free(X, n)
        /\ \A d \in Client \ {h} : X.state[d] = state[d] /\ X.nick[d] = nick[d]
        /\ state[h] = "person" => /\ Good(Y) /\ Free(Y, n) /\ Y.state = state
    BY <1>1, FoundFreed
  <2>2. state[h] \in {"unknown", "person"} BY <1>1, FoundFacts
  <2> HIDE DEF X, Y
  <2>3. CASE Become(Introduce(X, r, s, "person", n))
    <3>1. X.state[r] = "none" /\ X.state[s] = "server" BY <1>1, <2>1, <2>2
    <3>2. Good(Introduce(X, r, s, "person", n)) BY <2>1, <3>1, IntroduceGood
    <3> QED BY <2>3, <3>2, BecomeGood
  <2>4. CASE state[h] = "person" /\ Become(DeadLink(Introduce(Y, r, s, "person", n), F))
    <3>1. Good(Introduce(Y, r, s, "person", n)) BY <1>1, <2>1, <2>4, IntroduceGood
    <3>2. Good(DeadLink(Introduce(Y, r, s, "person", n), F)) BY <3>1, DeadLinkGood
    <3> QED BY <2>4, <3>2, BecomeGood
  <2>5. CASE Become(X) BY <2>1, <2>5, BecomeGood
  <2>6. ASSUME state[h] = "person", NEW L \in {Table, Y},
               Become(DeadLink(Introduce(L, r, s, "person", NoNick), F))
        PROVE  Good(Table)'
    <3>1. Good(L) /\ L.state = state BY <1>1, <2>1, <2>6, TableFields
    <3>2. Good(Introduce(L, r, s, "person", NoNick)) BY <1>1, <3>1, IntroduceGood
    <3>3. Good(DeadLink(Introduce(L, r, s, "person", NoNick), F)) BY <3>2, DeadLinkGood
    <3> QED BY <2>6, <3>3, BecomeGood
  <2> QED BY <1>3, <2>3, <2>4, <2>5, <2>6 DEF X, Y
<1> QED BY <1>2, <1>3 DEF MsUid

\* A remote user changes nick, and the new one may be held.
LEMMA McNickStep ==
    ASSUME IInv, NEW r \in Remote, NEW n \in Nick, NEW F, McNick(r, n, F)
    PROVE  Good(Table)'
<1>1. Good(Table) /\ state[r] = "person" /\ r \in Client /\ nick[r] # n
  BY DEF IInv, McNick, Client
<1>2. CASE Holders(n) = {} /\ Become(DeadLink(SetNick(Table, r, n), F))
  <2>1. Free(Table, n) BY <1>2, TableFields DEF Free, Holders
  <2>2. Good(SetNick(Table, r, n)) BY <1>1, <2>1, SetNickGood, TableFields
  <2>3. Good(DeadLink(SetNick(Table, r, n), F)) BY <2>2, DeadLinkGood
  <2> QED BY <1>2, <2>3, BecomeGood
<1>3. ASSUME NEW h \in Found(n),
             \/ Become(SetNick(Exit(Table, h, F), r, n))
             \/ /\ state[h] = "person"
                /\ Become(DeadLink(SetNick(SetNick(Table, h, NoNick), r, n), F))
             \/ state[h] = "person" /\ Become(Exit(Exit(Table, h, F), r, F))
             \/ /\ state[h] = "person"
                /\ \E L \in {Table, SetNick(Table, h, NoNick)} :
                     Become(DeadLink(SetNick(L, r, NoNick), F))
      PROVE  Good(Table)'
  <2> DEFINE X == Exit(Table, h, F)
             Y == SetNick(Table, h, NoNick)
  <2>1. /\ Good(X) /\ Free(X, n)
        /\ \A d \in Client \ {h} : X.state[d] = state[d] /\ X.nick[d] = nick[d]
        /\ state[h] = "person" => /\ Good(Y) /\ Free(Y, n) /\ Y.state = state
    BY <1>1, FoundFreed
  <2>2. r # h BY <1>1, FoundFacts
  <2> HIDE DEF X, Y
  <2>3. CASE Become(SetNick(X, r, n))
    <3>1. X.state[r] = "person" BY <1>1, <2>1, <2>2
    <3>2. Good(SetNick(X, r, n)) BY <1>1, <2>1, <3>1, SetNickGood
    <3> QED BY <2>3, <3>2, BecomeGood
  <2>4. CASE state[h] = "person" /\ Become(DeadLink(SetNick(Y, r, n), F))
    <3>1. Good(SetNick(Y, r, n)) BY <1>1, <2>1, <2>4, SetNickGood
    <3>2. Good(DeadLink(SetNick(Y, r, n), F)) BY <3>1, DeadLinkGood
    <3> QED BY <2>4, <3>2, BecomeGood
  <2>5. CASE Become(Exit(X, r, F))
    <3>1. X.state[r] \in Live BY <1>1, <2>1, <2>2 DEF Live
    <3>2. Good(Exit(X, r, F)) BY <1>1, <2>1, <3>1, ExitAny
    <3> QED BY <2>5, <3>2, BecomeGood
  <2>6. ASSUME state[h] = "person", NEW L \in {Table, Y},
               Become(DeadLink(SetNick(L, r, NoNick), F))
        PROVE  Good(Table)'
    <3>1. Good(L) /\ L.state = state BY <1>1, <2>1, <2>6, TableFields
    <3>2. Good(SetNick(L, r, NoNick)) BY <1>1, <3>1, SetNickGood
    <3>3. Good(DeadLink(SetNick(L, r, NoNick), F)) BY <3>2, DeadLinkGood
    <3> QED BY <2>6, <3>3, BecomeGood
  <2> QED BY <1>3, <2>3, <2>4, <2>5, <2>6 DEF X, Y
<1> QED BY <1>2, <1>3 DEF McNick

\* A failed write, and exit_client from a handler.
LEMMA EndSteps ==
    ASSUME IInv, NEW c \in Client, NEW F, WriteError(c) \/ ExitClient(c, F)
    PROVE  Good(Table)'
<1>1. Good(Table) BY DEF IInv
<1>2. CASE WriteError(c)
  <2>1. Good(DeadLink(Table, {c})) BY <1>1, DeadLinkGood
  <2> QED BY <1>2, <2>1, BecomeGood DEF WriteError
<1>3. CASE ExitClient(c, F)
  <2>1. Good(Exit(Table, c, F)) BY <1>1, <1>3, ExitAny, TableFields DEF ExitClient
  <2> QED BY <1>3, <2>1, BecomeGood DEF ExitClient
<1> QED BY <1>2, <1>3

\* reject_exit: the parked connections are buried.
LEMMA RejectExitStep == ASSUME IInv, RejectExit PROVE Good(Table)'
<1> DEFINE parked == {c \in Conn : state[c] = "reject" /\ "dead" \notin flags[c]}
           M == Bury(Table, parked)
<1>1. Good(Table) /\ Table \in Shape BY DEF IInv, Good
<1>2. parked \in SUBSET Client /\ \A c \in parked : c \in Conn /\ state[c] = "reject"
  BY DEF Client
<1>3. Become(M) BY DEF RejectExit
<1> HIDE DEF parked
<1>4. /\ M \in Shape
      /\ \A c \in parked : /\ M.state[c] = "gone" /\ M.nick[c] = NoNick
                           /\ "dead" \in M.flags[c] /\ M.dead[c] = dead[c] + 1
      /\ \A c \in Client \ parked :
            /\ M.state[c] = state[c] /\ M.nick[c] = nick[c]
            /\ M.flags[c] = flags[c] /\ M.dead[c] = dead[c]
      /\ M.abort = abort /\ M.servptr = servptr
  BY <1>1, <1>2, BuryFields, TableFields
<1> HIDE DEF M
<1>5. ASSUME NEW c \in Client PROVE Record(M, c)
  <2>1. Record(Table, c) BY <1>1 DEF Good
  <2>2. CASE c \in parked
    <3>1. state[c] = "reject" BY <1>2, <2>2
    <3>2. Over(Table, c) /\ dead[c] = 0
      BY <2>1, <3>1, TableFields DEF Record, Sound, Queued, Over, Live
    <3> QED BY <1>4, <2>2, <3>2, TableFields DEF Record, Over
  <2>3. CASE c \notin parked
    BY <1>4, <2>1, <2>3, TableFields DEF Record, Sound, Queued, Over
  <2> QED BY <2>2, <2>3
<1>6. Hanging(M)
  <2> SUFFICES ASSUME NEW r \in Remote, M.state[r] \in Live
               PROVE  M.state[servptr[r]] = "server"
    BY <1>4 DEF Hanging
  <2>1. r \in Client /\ servptr[r] \in Client BY <1>1, GoodTypes, TableFields
  <2>2. r \notin parked BY <1>4 DEF Live
  <2>3. state[servptr[r]] = "server"
    BY <1>1, <1>4, <2>1, <2>2, TableFields DEF Good, Hanging
  <2>4. servptr[r] \notin parked BY <1>2, <2>3
  <2> QED BY <1>4, <2>1, <2>3, <2>4
<1>7. Nameless(M) BY <1>1, <1>4, TableFields DEF Good, Nameless
<1>8. OneSound(M) BY <1>1, <1>4, TableFields DEF Good, OneSound
<1>9. Good(M) BY <1>4, <1>5, <1>6, <1>7, <1>8 DEF Good
<1> QED BY <1>3, <1>9, BecomeGood

\* free_exited_clients frees what is on dead_list, and nothing else.
LEMMA FreeExitedStep == ASSUME IInv, FreeExited PROVE Good(Table)'
<1>1. Good(Table) /\ Table \in Shape BY DEF IInv, Good
<1>2. /\ state \in [Client -> State] /\ flags \in [Client -> SUBSET Flag]
      /\ nick \in [Client -> Nick \cup {NoNick}] /\ servptr \in [Remote -> Client]
      /\ abort \in [Client -> Nat] /\ dead \in [Client -> Nat]
      /\ \A r \in Remote : r \in Client /\ servptr[r] \in Client
  BY <1>1, GoodTypes, TableFields
<1> DEFINE M == [state |-> [c \in Client |-> IF dead[c] > 0 THEN "freed" ELSE state[c]],
                 flags |-> flags, nick |-> nick, servptr |-> servptr, abort |-> abort,
                 dead |-> [c \in Client |-> 0]]
<1>3. Become(M) BY DEF FreeExited, Become
<1>4. M \in Shape
  <2> DEFINE s == [c \in Client |-> IF dead[c] > 0 THEN "freed" ELSE state[c]]
             z == [c \in Client |-> 0]
  <2>1. s \in [Client -> State] /\ z \in [Client -> Nat] BY <1>2 DEF State
  <2> HIDE DEF s, z
  <2>2. [state |-> s, flags |-> flags, nick |-> nick, servptr |-> servptr,
         abort |-> abort, dead |-> z] \in Shape
    BY <1>2, <2>1 DEF Shape
  <2> QED BY <2>2 DEF s, z
<1>5. /\ \A c \in Client : M.state[c] = (IF dead[c] > 0 THEN "freed" ELSE state[c])
      /\ \A c \in Client : M.dead[c] = 0
      /\ M.flags = flags /\ M.nick = nick /\ M.servptr = servptr /\ M.abort = abort
  OBVIOUS
<1> HIDE DEF M
<1>6. ASSUME NEW c \in Client PROVE /\ Record(M, c)
                                    /\ dead[c] > 0 => state[c] = "gone"
  <2>1. Record(Table, c) BY <1>1 DEF Good
  <2>2. CASE dead[c] > 0
    <3>1. Over(Table, c) /\ state[c] = "gone"
      BY <2>1, <2>2, TableFields DEF Record, Sound, Queued, Over
    <3> QED BY <1>5, <2>2, <3>1, TableFields DEF Record, Over
  <2>3. CASE ~(dead[c] > 0)
    <3>1. dead[c] = 0 BY <1>2, <2>3
    <3> QED BY <1>5, <2>1, <2>3, <3>1, TableFields DEF Record, Sound, Queued, Over
  <2> QED BY <2>2, <2>3
<1>7. Hanging(M)
  <2> SUFFICES ASSUME NEW r \in Remote, M.state[r] \in Live
               PROVE  M.state[servptr[r]] = "server"
    BY <1>5 DEF Hanging
  <2>1. state[r] \in Live BY <1>2, <1>5 DEF Live
  <2>2. state[servptr[r]] = "server" BY <1>1, <2>1, TableFields DEF Good, Hanging
  <2> QED BY <1>2, <1>5, <1>6, <2>2
<1>8. Nameless(M) BY <1>1, <1>5, TableFields DEF Good, Nameless
<1>9. OneSound(M) BY <1>1, <1>5, TableFields DEF Good, OneSound
<1>10. Good(M) BY <1>4, <1>6, <1>7, <1>8, <1>9 DEF Good
<1> QED BY <1>3, <1>10, BecomeGood

\* A loop over a list begins.
LEMMA StartWalkStep ==
    ASSUME IInv, NEW list \in {"person", "server", "unknown", "abort"}, StartWalk(list)
    PROVE  IInv'
<1>1. Good(Table)' BY DEF IInv, StartWalk, Table, Good, Record, Sound, Queued, Over,
                          Hanging, Nameless, OneSound
<1>2. WalkOK'
  <2> DEFINE todo == IF list = "abort" THEN {c \in Client : abort[c] > 0}
                     ELSE {c \in Conn : state[c] = list}
  <2>1. \A c \in Client : abort[c] > 0 => c \in Conn
    <3> SUFFICES ASSUME NEW c \in Client, abort[c] > 0 PROVE c \in Conn
      OBVIOUS
    <3>1. Record(Table, c) BY DEF IInv, Good
    <3> QED BY <3>1, TableFields DEF Record, Sound, Queued, Over
  <2>2. walk' = [over |-> list, todo |-> todo] /\ state' = state /\ abort' = abort
    BY DEF StartWalk
  <2>3. todo \in SUBSET Conn BY <2>1
  <2>4. \A c \in todo : IF list = "abort" THEN abort[c] > 0 ELSE state[c] = list
    OBVIOUS
  <2> HIDE DEF todo
  <2> QED BY <2>2, <2>3, <2>4 DEF WalkOK, SafeWalk
<1> QED BY <1>1, <1>2 DEF IInv

\* One client of a loop's list is visited: nothing that is yet to be visited
\* leaves the list, since only c and clients behind links are buried.
LEMMA WalkStepStep == ASSUME IInv, WalkStep PROVE IInv'
<1>1. PICK c \in walk.todo, F \in SUBSET Conn : CheckPings(c, F) \/ ExitAborted(c, F)
  BY DEF WalkStep
<1>2. /\ Good(Table) /\ c \in Conn /\ c \in Client /\ walk.todo \in SUBSET Conn
      /\ walk.over \in {"person", "server", "unknown", "abort"}
      /\ \A d \in walk.todo : IF walk.over = "abort" THEN abort[d] > 0 ELSE state[d] = walk.over
  BY DEF IInv, WalkOK, SafeWalk, Client
<1>3. walk' = [walk EXCEPT !.todo = @ \ {c}] BY <1>1 DEF CheckPings, ExitAborted, Visited
<1>4. ASSUME NEW L, Good(L), Become(L),
             \A d \in Conn \ {c} : L.state[d] = state[d] /\ L.abort[d] \in {abort[d], abort[d] + 1}
      PROVE  IInv'
  <2>1. Good(Table)' BY <1>4, BecomeGood
  <2>2. state' = L.state /\ abort' = L.abort BY <1>4 DEF Become
  <2>3. /\ walk' \in [over : {"person", "server", "unknown", "abort"}, todo : SUBSET Conn]
        /\ walk'.over = walk.over /\ walk'.todo = walk.todo \ {c}
    BY <1>3 DEF IInv, WalkOK
  <2>4. ASSUME NEW d \in walk'.todo
        PROVE  IF walk.over = "abort" THEN abort'[d] > 0 ELSE state'[d] = walk.over
    <3>1. d \in Conn \ {c} /\ d \in walk.todo /\ d \in Client BY <1>2, <2>3 DEF Client
    <3>2. abort[d] \in Nat BY <1>2, <3>1, GoodTypes, TableFields DEF Good
    <3> QED BY <1>2, <1>4, <2>2, <3>1, <3>2
  <2>5. WalkOK' BY <2>3, <2>4 DEF WalkOK, SafeWalk
  <2> QED BY <2>1, <2>5 DEF IInv
<1>5. ASSUME state[c] \in Live, Become(Exit(Table, c, F)) PROVE IInv'
  <2> DEFINE X == Exit(Table, c, F)
  <2>1. Good(X) /\ (X = Table \/ Frame(Table, X, c)) BY <1>2, <1>5, ExitAny, TableFields
  <2> HIDE DEF X
  <2>2. \A d \in Conn \ {c} : X.state[d] = state[d] /\ X.abort[d] \in {abort[d], abort[d] + 1}
    BY <2>1, TableFields DEF Frame, Client
  <2> QED BY <1>4, <1>5, <2>1, <2>2 DEF X
<1>6. ASSUME CheckPings(c, F) PROVE IInv'
  <2>1. walk.over # "abort" /\ state[c] \in Live BY <1>2, <1>6 DEF CheckPings, Live
  <2>2. CASE Become(Table) BY <1>2, <1>4, <2>2, TableFields
  <2>3. CASE Become(DeadLink(Table, {c}))
    <3> DEFINE M == DeadLink(Table, {c})
    <3>1. Good(M) BY <1>2, DeadLinkGood
    <3>2. M.state = state /\ \A d \in Client : M.abort[d] \in {abort[d], abort[d] + 1}
      BY <1>2, DeadLinkFields, TableFields DEF Good
    <3> HIDE DEF M
    <3> QED BY <1>4, <2>3, <3>1, <3>2 DEF M, Client
  <2>4. CASE Become(Exit(Table, c, F)) BY <1>5, <2>1, <2>4
  <2> QED BY <1>6, <2>2, <2>3, <2>4 DEF CheckPings
<1>7. ASSUME ExitAborted(c, F) PROVE IInv'
  <2> DEFINE f == flags[c] \ {"closing"}
             A == SetFlags(Table, c, f)
             k == abort[c] - 1
             R == [A EXCEPT !.abort = [@ EXCEPT ![c] = k]]
             X == Exit(R, c, F)
  <2>1. abort[c] > 0 /\ Queued(Table, c)
    <3>1. abort[c] > 0 BY <1>2, <1>7 DEF ExitAborted
    <3> QED BY <1>2, <3>1, TableFields DEF Good, Record, Sound, Queued, Over
  <2>2. /\ state[c] \in Live /\ f \in SUBSET Flag /\ f # {} /\ "closing" \notin f
        /\ k = 0 /\ k \in Nat /\ dead[c] = 0
    BY <2>1, TableFields DEF Queued, Flag
  <2>3. R = Reopened(Table, c) BY TableFields DEF Reopened
  <2> HIDE DEF f, A, k, X
  <2>4. /\ A \in Shape
        /\ A.flags = [flags EXCEPT ![c] = f]
        /\ A.servptr = servptr /\ A.state = state /\ A.nick = nick
        /\ A.abort = abort /\ A.dead = dead
    BY <1>2, <2>2, SetFlagsFields, TableFields DEF Good, A
  <2>5. /\ R \in Shape
        /\ R.abort = [A.abort EXCEPT ![c] = k]
        /\ R.servptr = A.servptr /\ R.state = A.state /\ R.nick = A.nick
        /\ R.flags = A.flags /\ R.dead = A.dead
    BY <1>2, <2>2, <2>4, AbortFields
  <2> HIDE DEF R
  <2>6. /\ R.flags[c] = f /\ R.abort[c] = 0
        /\ \A d \in Client \ {c} : R.flags[d] = flags[d] /\ R.abort[d] = abort[d]
        /\ R.servptr = servptr /\ R.state = state /\ R.nick = nick /\ R.dead = dead
    BY <1>2, <2>2, <2>4, <2>5, GoodTypes, TableFields DEF Good
  <2>7. Exitable(R, c)
    <3>1. ASSUME NEW d \in Client \ {c} PROVE Record(R, d)
      <4>1. Record(Table, d) BY <1>2 DEF Good
      <4> QED BY <2>6, <4>1, TableFields DEF Record, Sound, Queued, Over
    <3>2. Hanging(R) /\ Nameless(R)
      BY <1>2, <2>6, TableFields DEF Good, Hanging, Nameless
    <3>3. OneSound(R)
      <4>1. \A d \in Client : R.flags[d] = {} => flags[d] = {} BY <2>2, <2>6
      <4> QED BY <1>2, <2>6, <4>1, TableFields DEF Good, OneSound
    <3> QED BY <2>2, <2>5, <2>6, <3>1, <3>2, <3>3 DEF Exitable
  <2>8. Good(X) /\ Frame(R, X, c) BY <1>2, <2>7, ExitGood DEF X
  <2>9. \A d \in Conn \ {c} : X.state[d] = state[d] /\ X.abort[d] \in {abort[d], abort[d] + 1}
    BY <2>6, <2>8 DEF Frame, Client
  <2>10. Become(X) BY <1>7, <2>3 DEF ExitAborted, X
  <2> QED BY <1>4, <2>8, <2>9, <2>10
<1> QED BY <1>1, <1>6, <1>7

-----------------------------------------------------------------------------
(* The theorems.                                                           *)

\* The invariant holds when the server starts.
LEMMA InitIInv == Init => IInv
<1> SUFFICES ASSUME Init PROVE IInv
  OBVIOUS
<1>1. Table \in Shape
  <2>1. /\ state \in [Client -> State] /\ flags \in [Client -> SUBSET Flag]
        /\ nick \in [Client -> Nick \cup {NoNick}] /\ servptr \in [Remote -> Client]
        /\ abort \in [Client -> Nat] /\ dead \in [Client -> Nat]
    BY DEF Init, State, Client
  <2> QED BY <2>1 DEF Shape, Table
<1>2. \A c \in Client : Record(Table, c) BY TableFields DEF Init, Record, Over
<1>3. Hanging(Table) /\ Nameless(Table) /\ OneSound(Table)
  BY TableFields DEF Init, Hanging, Nameless, OneSound, Live, Client
<1>4. WalkOK BY DEF Init, WalkOK, SafeWalk
<1> QED BY <1>1, <1>2, <1>3, <1>4 DEF IInv, Good

\* Every step keeps it.
LEMMA NextIInv == IInv /\ [Next]_vars => IInv'
<1> SUFFICES ASSUME IInv, [Next]_vars PROVE IInv'
  OBVIOUS
<1>1. ASSUME Good(Table)', Idle, UNCHANGED walk PROVE IInv'
  BY <1>1, IdleStep DEF IInv
<1>2. ASSUME NEW c \in Conn, Accept(c) PROVE IInv'
  BY <1>1, <1>2, AcceptStep DEF Accept
<1>3. ASSUME NEW c \in Conn, WriteError(c) PROVE IInv'
  <2>1. c \in Client BY DEF Client
  <2> QED BY <1>1, <1>3, <2>1, EndSteps DEF WriteError
<1>4. ASSUME NEW c \in Conn, NEW n \in Nick, MrNick(c, n) PROVE IInv'
  BY <1>1, <1>4, MrNickStep DEF MrNick
<1>5. ASSUME NEW F \in SUBSET Conn, Step(F) PROVE IInv'
  <2>1. ASSUME NEW c \in Conn, Register(c, F) PROVE IInv'
    BY <1>1, <2>1, RegisterStep DEF Register
  <2>2. ASSUME NEW c \in Conn, ServerEstab(c, F) PROVE IInv'
    BY <1>1, <2>2, ServerEstabStep DEF ServerEstab
  <2>3. ASSUME NEW c \in Conn, NEW n \in Nick, MNick(c, n, F) PROVE IInv'
    BY <1>1, <2>3, MNickStep DEF MNick
  <2>4. ASSUME NEW s \in Client, NEW r \in Remote, MsSid(s, r, F) PROVE IInv'
    BY <1>1, <2>4, MsSidStep DEF MsSid
  <2>5. ASSUME NEW s \in Client, NEW r \in Remote, NEW n \in Nick, MsUid(s, r, n, F) PROVE IInv'
    BY <1>1, <2>5, MsUidStep DEF MsUid
  <2>6. ASSUME NEW r \in Remote, NEW n \in Nick, McNick(r, n, F) PROVE IInv'
    BY <1>1, <2>6, McNickStep DEF McNick
  <2>7. ASSUME NEW c \in Client, ExitClient(c, F) PROVE IInv'
    BY <1>1, <2>7, EndSteps DEF ExitClient
  <2> QED BY <1>5, <2>1, <2>2, <2>3, <2>4, <2>5, <2>6, <2>7 DEF Step
<1>6. CASE RejectExit BY <1>1, <1>6, RejectExitStep DEF RejectExit
<1>7. CASE FreeExited BY <1>1, <1>7, FreeExitedStep DEF FreeExited
<1>8. ASSUME NEW list \in {"person", "server", "unknown", "abort"}, StartWalk(list) PROVE IInv'
  BY <1>8, StartWalkStep
<1>9. CASE WalkStep BY <1>9, WalkStepStep
<1>10. CASE UNCHANGED vars
  BY <1>10 DEF vars, IInv, Table, Good, Record, Sound, Queued, Over, Hanging, Nameless,
               OneSound, WalkOK, SafeWalk
<1> QED BY <1>2, <1>3, <1>4, <1>5, <1>6, <1>7, <1>8, <1>9, <1>10 DEF Next

\* What the invariant says of the records, in the words of the properties.
LEMMA IInvProperties == IInv => TypeOK /\ OneFate /\ NoOrphans /\ SafeWalk /\ SharedNick
<1> SUFFICES ASSUME IInv PROVE TypeOK /\ OneFate /\ NoOrphans /\ SafeWalk /\ SharedNick
  OBVIOUS
<1>1. /\ state \in [Client -> State] /\ flags \in [Client -> SUBSET Flag]
      /\ nick \in [Client -> Nick \cup {NoNick}] /\ servptr \in [Remote -> Client]
      /\ abort \in [Client -> Nat] /\ dead \in [Client -> Nat]
  BY GoodTypes, TableFields DEF IInv, Good
<1>2. ASSUME NEW c \in Client
      PROVE  /\ abort[c] \in 0..1 /\ dead[c] \in 0..1
             /\ Fates(c) = IF state[c] # "freed" /\ flags[c] # {} THEN 1 ELSE 0
  <2>1. Record(Table, c) BY DEF IInv, Good
  <2>2. CASE Sound(Table, c) BY <2>2, TableFields DEF Sound, Fates, Live
  <2>3. CASE Queued(Table, c) BY <2>3, TableFields DEF Queued, Fates, Live, Flag
  <2>4. CASE Over(Table, c) BY <2>4, TableFields DEF Over, Fates
  <2> QED BY <2>1, <2>2, <2>3, <2>4 DEF Record
<1>3. TypeOK
  <2>1. abort \in [Client -> 0..1] /\ dead \in [Client -> 0..1] BY <1>1, <1>2
  <2>2. walk \in [over : {"person", "server", "unknown", "abort"}, todo : SUBSET Client]
    BY DEF IInv, WalkOK, Client
  <2> QED BY <1>1, <2>1, <2>2 DEF TypeOK
<1>4. OneFate BY <1>2 DEF OneFate
<1>5. NoOrphans BY TableFields DEF IInv, Good, Hanging, NoOrphans
<1>6. SafeWalk BY DEF IInv, WalkOK
<1>7. SharedNick BY TableFields DEF IInv, Good, OneSound, SharedNick, Unhurt
<1> QED BY <1>3, <1>4, <1>5, <1>6, <1>7

\* The invariant holds in every reachable state.
THEOREM Invariance == Spec => []IInv
BY InitIInv, NextIInv, PTL DEF Spec

\* The types hold, and no record is on abort_list or on dead_list twice.
THEOREM TypeCorrect == Spec => []TypeOK
BY Invariance, IInvProperties, PTL

\* exit_client, dead_link, exit_aborted_clients, reject_exit and
\* free_exited_clients: a marked client is on exactly one of their lists until
\* it is freed.
THEOREM OneFateHolds == Spec => []OneFate
BY Invariance, IInvProperties, PTL

\* recurse_remove_clients and dead_link: whoever is behind a link hangs on a
\* server that exists.
THEOREM NoOrphansHolds == Spec => []NoOrphans
BY Invariance, IInvProperties, PTL

\* check_pings and exit_aborted_clients: no loop loses the rest of its list.
THEOREM SafeWalkHolds == Spec => []SafeWalk
BY Invariance, IInvProperties, PTL

\* perform_nick_collides and register_client: two clients have one nick only
\* while all but one of them wait on abort_list.
THEOREM SharedNickHolds == Spec => []SharedNick
BY Invariance, IInvProperties, PTL
=============================================================================
