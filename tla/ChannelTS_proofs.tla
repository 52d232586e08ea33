--------------------------- MODULE ChannelTS_proofs ---------------------------
(***************************************************************************)
(* Part one: type correctness of ChannelTS, and the rule that no operator  *)
(* status survives the timestamp it was given under, for any network, any  *)
(* users and modes and any bounds, with kicks, kills and splits.  What the *)
(* proof adds to the two invariants is the same rule for what is under     *)
(* way: an SJOIN shows as operators, and a TMODE makes operators, only     *)
(* those who earned it under the timestamp that the message carries.       *)
(*                                                                         *)
(* Part two: the servers agree on a channel, on its members, as long as    *)
(* nobody is kicked or killed, and on all of it while nobody leaves at     *)
(* all, for any tree of servers, any users and any bounds.  What is under  *)
(* way is read as a promise: the invariants say, for both directions of    *)
(* every link, what the reader will have when it has read its queue, and   *)
(* that it is what the sender has.                                         *)
(***************************************************************************)
EXTENDS ChannelTS, SequenceTheorems, TLAPS

-----------------------------------------------------------------------------
(* Part one: operator status.                                              *)

\* Earned, with the history G.
EarnedIn(G, u, ts) == \E old \in 0..ts : <<u, old>> \in G

\* A message that claims no status that G does not have.
Truthful(G) == {m \in Message :
    /\ m.type = "SJOIN" => \A u \in User : m.status[u] = "op" => EarnedIn(G, u, m.ts)
    /\ m.type = "TMODE" /\ m.change.kind = "op" /\ m.change.dir = "+"
       => EarnedIn(G, m.change.arg, m.ts)}

\* A channel as it may be where the clients U are known.
Sound(G, U, c) ==
    /\ c \in Channel
    /\ Members(c) \subseteq U
    /\ Exists(c) \/ c = NoChannel
    /\ \A u \in Ops(c) : EarnedIn(G, u, c.ts)

Counters == {acts, parts, kicks, kills, splits} \subseteq Nat

IInv ==
    /\ now \in Nat
    /\ granted \subseteq User \X Nat
    /\ users \in [Server -> SUBSET User]
    /\ est \in [Server -> SUBSET Server]
    /\ channel \in [Server -> Channel]
    /\ \A s \in Server : Sound(granted, users[s], channel[s])
    /\ queue \in [Edge -> Seq(Truthful(granted))]
    /\ Counters

-----------------------------------------------------------------------------
(* Messages.                                                               *)

\* The fields of a message that has arrived are typed.
LEMMA ReadMessages ==
    ASSUME NEW m \in Message
    PROVE  /\ m.type \in {"USERS", "GONE"} => m.us \in SUBSET User
           /\ m.type = "SJOIN" => /\ m.ts \in Nat /\ m.modes \in SUBSET Flag
                                  /\ m.zero \in BOOLEAN
                                  /\ m.status \in [User -> {"out", "in", "op"}]
           /\ m.type = "JOIN" => m.u \in User /\ m.ts \in Nat /\ m.modes \in SUBSET Flag
           /\ m.type = "TMODE" => /\ m.u \in User /\ m.ts \in Nat /\ m.change \in Change
                                  /\ m = [type |-> "TMODE", u |-> m.u, ts |-> m.ts, change |-> m.change]
           /\ m.type = "BMASK" => /\ m.ts \in Nat /\ m.bans \in SUBSET User
                                  /\ m = [type |-> "BMASK", ts |-> m.ts, bans |-> m.bans]
           /\ m.type \in {"PART", "KICK"} => m.u \in User /\ m.by \in User
  BY DEF Message

\* Messages that claim no status are truthful.
LEMMA PlainMessages ==
    ASSUME NEW G
    PROVE  /\ [type |-> "SERVER"] \in Truthful(G)
           /\ \A us \in SUBSET User : /\ [type |-> "USERS", us |-> us] \in Truthful(G)
                                      /\ [type |-> "GONE", us |-> us] \in Truthful(G)
           /\ \A u \in User, ts \in Nat, modes \in SUBSET Flag :
                 [type |-> "JOIN", u |-> u, ts |-> ts, modes |-> modes] \in Truthful(G)
           /\ \A ts \in Nat, bans \in SUBSET User :
                 [type |-> "BMASK", ts |-> ts, bans |-> bans] \in Truthful(G)
           /\ \A u, v \in User : /\ [type |-> "PART", u |-> u, by |-> v] \in Truthful(G)
                                 /\ [type |-> "KICK", u |-> u, by |-> v] \in Truthful(G)
  BY DEF Truthful, Message

\* An SJOIN and a TMODE are truthful if what they claim has been earned.
LEMMA ClaimingMessages ==
    ASSUME NEW G, NEW ts \in Nat
    PROVE  /\ \A modes \in SUBSET Flag, zero \in BOOLEAN, status \in [User -> {"out", "in", "op"}] :
                 (\A u \in User : status[u] = "op" => EarnedIn(G, u, ts))
                 => [type |-> "SJOIN", ts |-> ts, modes |-> modes, zero |-> zero,
                     status |-> status] \in Truthful(G)
           /\ \A u \in User, h \in Change :
                 (h.kind = "op" /\ h.dir = "+" => EarnedIn(G, h.arg, ts))
                 => [type |-> "TMODE", u |-> u, ts |-> ts, change |-> h] \in Truthful(G)
  BY DEF Truthful, Message

\* What was true stays true: the history only grows.
LEMMA HistoryGrows ==
    ASSUME NEW G, NEW H, G \subseteq H
    PROVE  /\ \A u, ts : EarnedIn(G, u, ts) => EarnedIn(H, u, ts)
           /\ Truthful(G) \subseteq Truthful(H)
           /\ \A U, c : Sound(G, U, c) => Sound(H, U, c)
  <1>1. \A u, ts : EarnedIn(G, u, ts) => EarnedIn(H, u, ts)
    BY DEF EarnedIn
  <1>2. Truthful(G) \subseteq Truthful(H)
    BY <1>1 DEF Truthful
  <1>3. \A U, c : Sound(G, U, c) => Sound(H, U, c)
    BY <1>1 DEF Sound
  <1> QED BY <1>1, <1>2, <1>3

\* An older timestamp is as good.
LEMMA OlderCounts ==
    ASSUME NEW G, NEW u, NEW ts \in Nat, NEW later \in Nat, ts <= later, EarnedIn(G, u, ts)
    PROVE  EarnedIn(G, u, later)
  BY DEF EarnedIn

-----------------------------------------------------------------------------
(* Queues.                                                                 *)

\* A queue whose messages are of M, after a step that adds messages of M.
LEMMA TransmitTyped ==
    ASSUME NEW M, NEW queues \in [Edge -> Seq(M)], NEW ms \in Seq(M), NEW s, NEW t
    PROVE  Transmit(s, t, queues, ms) \in [Edge -> Seq(M)]
  BY ConcatProperties DEF Transmit

\* A queue without its first message, or emptied.
LEMMA QueueShrinks ==
    ASSUME NEW M, NEW queues \in [Edge -> Seq(M)], NEW e \in Edge
    PROVE  /\ queues[e] # <<>> => /\ Head(queues[e]) \in M
                                  /\ [queues EXCEPT ![e] = Tail(@)] \in [Edge -> Seq(M)]
           /\ [queues EXCEPT ![e] = <<>>] \in [Edge -> Seq(M)]
           /\ \A q \in Seq(M) : [queues EXCEPT ![e] = q] \in [Edge -> Seq(M)]
  <1>1. ASSUME queues[e] # <<>> PROVE Head(queues[e]) \in M /\ Tail(queues[e]) \in Seq(M)
    BY <1>1, HeadTailProperties
  <1>2. \A q \in Seq(M) : [queues EXCEPT ![e] = q] \in [Edge -> Seq(M)]
    OBVIOUS
  <1>3. <<>> \in Seq(M)
    OBVIOUS
  <1> QED BY <1>1, <1>2, <1>3

\* Queues of truthful messages stay so while the history grows.
LEMMA QueuesStay ==
    ASSUME IInv, NEW H, granted \subseteq H
    PROVE  queue \in [Edge -> Seq(Truthful(H))]
  <1>1. Seq(Truthful(granted)) \subseteq Seq(Truthful(H))
    BY HistoryGrows, SeqDef
  <1> QED BY <1>1 DEF IInv

-----------------------------------------------------------------------------
(* The two ways in which a handler ends.                                   *)

\* What a step of one server has to show.
OneServer(s, c) ==
    /\ granted \subseteq granted' /\ granted' \subseteq User \X Nat
    /\ users' \in [Server -> SUBSET User]
    /\ \A x \in Server : x # s => users'[x] = users[x]
    /\ Sound(granted', users'[s], c)
    /\ UNCHANGED est
    /\ now' \in Nat /\ Counters'

LEMMA ChannelsStay ==
    ASSUME IInv, NEW s \in Server, NEW c, OneServer(s, c),
           channel' = [channel EXCEPT ![s] = c]
    PROVE  /\ channel' \in [Server -> Channel]
           /\ \A x \in Server : Sound(granted', users'[x], channel'[x])
  <1>1. c \in Channel
    BY DEF OneServer, Sound
  <1>2. channel' \in [Server -> Channel]
    BY <1>1 DEF IInv
  <1>3. ASSUME NEW x \in Server PROVE Sound(granted', users'[x], channel'[x])
    <2>1. CASE x = s
      BY <2>1 DEF OneServer, IInv
    <2>2. CASE x # s
      <3>1. Sound(granted, users[x], channel[x])
        BY DEF IInv
      <3>2. users'[x] = users[x] /\ channel'[x] = channel[x]
        BY <2>2 DEF OneServer, IInv
      <3>3. Sound(granted', users[x], channel[x])
        BY <3>1, HistoryGrows DEF OneServer
      <3> QED BY <3>2, <3>3
    <2> QED BY <2>1, <2>2
  <1> QED BY <1>2, <1>3

\* An event of s's own.
LEMMA DoKeeps ==
    ASSUME IInv, NEW s \in Server, NEW c, NEW m \in Truthful(granted'),
           OneServer(s, c), Do(s, c, <<m>>)
    PROVE  IInv'
  <1>1. channel' = [channel EXCEPT ![s] = c] /\ queue' = Transmit(s, s, queue, <<m>>)
    BY DEF Do
  <1>2. queue \in [Edge -> Seq(Truthful(granted'))]
    BY QueuesStay DEF OneServer
  <1>3. <<m>> \in Seq(Truthful(granted'))
    OBVIOUS
  <1>4. queue' \in [Edge -> Seq(Truthful(granted'))]
    BY <1>1, <1>2, <1>3, TransmitTyped
  <1> QED BY <1>1, <1>4, ChannelsStay DEF OneServer, IInv

\* A message that is handled, and relayed or not.
LEMMA HandleKeeps ==
    ASSUME IInv, NEW s \in Server, NEW t \in Server, <<t, s>> \in Edge, queue[<<t, s>>] # <<>>,
           NEW c, NEW ms \in Seq(Truthful(granted')), OneServer(s, c), Handle(s, t, c, ms)
    PROVE  IInv'
  <1> DEFINE rest == [queue EXCEPT ![<<t, s>>] = Tail(@)]
  <1>1. channel' = [channel EXCEPT ![s] = c] /\ queue' = Transmit(s, t, rest, ms)
    BY DEF Handle
  <1>2. queue \in [Edge -> Seq(Truthful(granted'))]
    BY QueuesStay DEF OneServer
  <1>3. rest \in [Edge -> Seq(Truthful(granted'))]
    BY <1>2, QueueShrinks
  <1> HIDE DEF rest
  <1>4. queue' \in [Edge -> Seq(Truthful(granted'))]
    BY <1>1, <1>3, TransmitTyped
  <1> QED BY <1>1, <1>4, ChannelsStay DEF OneServer, IInv

-----------------------------------------------------------------------------
(* Channels.                                                               *)

LEMMA NoChannelSound ==
    ASSUME NEW G, NEW U
    PROVE  Sound(G, U, NoChannel)
  BY DEF Sound, NoChannel, Channel, Status, Members, Ops, Exists

LEMMA SoundWider ==
    ASSUME NEW G, NEW U, NEW V, U \subseteq V, NEW c, Sound(G, U, c)
    PROVE  Sound(G, V, c)
  BY DEF Sound

\* Clients leave, and the channel is destroyed with the last.
LEMMA RemoveSound ==
    ASSUME NEW G, NEW U, NEW c, Sound(G, U, c), NEW gone
    PROVE  Sound(G, U \ gone, Remove(c, gone))
  <1> DEFINE st == [u \in User |-> IF u \in gone THEN "out" ELSE c.status[u]]
             d == [ts |-> c.ts, modes |-> c.modes, bans |-> c.bans, status |-> st]
  <1>1. Remove(c, gone) = Settle(d)
    BY DEF Remove, Sound, Channel
  <1>2. CASE Exists(d)
    <2>1. d \in Channel
      BY DEF Sound, Channel, Status
    <2>2. Members(d) \subseteq U \ gone
      BY DEF Sound, Members
    <2>3. \A u \in Ops(d) : EarnedIn(G, u, d.ts)
      BY DEF Sound, Ops
    <2> QED BY <1>1, <1>2, <2>1, <2>2, <2>3 DEF Sound, Settle
  <1>3. CASE ~Exists(d)
    BY <1>1, <1>3, NoChannelSound DEF Settle
  <1> QED BY <1>2, <1>3

\* A merge: operators keep their status under the timestamp that has won.
LEMMA MergeFields ==
    ASSUME NEW G, NEW U, NEW c, Sound(G, U, c), NEW ts \in Nat, NEW modes \in SUBSET Flag
    PROVE  LET d == Merge(c, ts, modes) IN
           /\ d \in Channel
           /\ Members(d) = Members(c) /\ d.bans = c.bans
           /\ d.ts = IF KeepNewModes(c, ts) THEN ts ELSE c.ts
           /\ KeepNewModes(c, ts) => d.ts = ts
           /\ \A u \in Ops(d) : EarnedIn(G, u, d.ts)
  <1> DEFINE d == [ts |-> IF KeepNewModes(c, ts) THEN ts ELSE c.ts,
                   modes |-> (IF KeepNewModes(c, ts) THEN modes ELSE {})
                             \cup (IF KeepOurModes(c, ts) THEN c.modes ELSE {}),
                   bans |-> c.bans,
                   status |-> [u \in User |-> IF c.status[u] = "op" /\ ~KeepOurModes(c, ts)
                                              THEN "in" ELSE c.status[u]]]
  <1>1. Merge(c, ts, modes) = d
    BY DEF Merge
  <1>2. d \in Channel
    BY DEF Sound, Channel, Status
  <1>3. Members(d) = Members(c)
    BY DEF Members
  <1>4. ASSUME NEW u \in Ops(d) PROVE EarnedIn(G, u, d.ts)
    <2>1. u \in User /\ c.status[u] = "op" /\ KeepOurModes(c, ts)
      BY <1>4 DEF Ops
    <2>2. Exists(c) /\ EarnedIn(G, u, c.ts)
      BY <2>1 DEF Exists, Members, Sound, Ops
    <2>3. c.ts \in Nat
      BY DEF Sound, Channel
    <2>4. d.ts = c.ts
      BY <2>1, <2>2, <2>3 DEF KeepOurModes, KeepNewModes
    <2> QED BY <2>2, <2>4
  <1> QED BY <1>1, <1>2, <1>3, <1>4

\* A change of one letter, made by one who may.
LEMMA ApplySound ==
    ASSUME NEW G, NEW U, NEW c, Sound(G, U, c), Exists(c), NEW h \in Change,
           h.kind = "op" /\ h.dir = "+" => EarnedIn(G, h.arg, c.ts)
    PROVE  Sound(G, U, Apply(c, h))
  <1>1. CASE h.kind = "op"
    <2> DEFINE a == h.arg
               old == c.status[a]
               new == IF old = "out" \/ (old = "deop" /\ h.dir = "-") THEN old
                      ELSE IF h.dir = "+" THEN "op" ELSE "in"
               d == [ts |-> c.ts, modes |-> c.modes, bans |-> c.bans,
                     status |-> [c.status EXCEPT ![a] = new]]
    <2>1. a \in User /\ c.status \in [User -> Status] /\ h.dir \in {"+", "-"}
      BY <1>1, ChangeAssumption DEF Sound, Channel
    <2>2. Apply(c, h) = d
      BY <1>1, <2>1 DEF Apply, Sound, Channel
    <2>3. new \in Status /\ (new = "out" <=> old = "out")
      BY <2>1 DEF Status
    <2>4. d \in Channel
      BY <2>1, <2>3 DEF Sound, Channel
    <2>5. Members(d) = Members(c)
      BY <2>1, <2>3 DEF Members
    <2>6. ASSUME NEW u \in Ops(d) PROVE EarnedIn(G, u, d.ts)
      <3>1. CASE u = a /\ h.dir = "+"
        BY <1>1, <3>1
      <3>2. CASE ~(u = a /\ h.dir = "+")
        <4>1. u \in User /\ c.status[u] = "op"
          BY <2>1, <2>6, <3>2 DEF Ops
        <4> QED BY <4>1 DEF Sound, Ops
      <3> QED BY <3>1, <3>2
    <2> HIDE DEF d
    <2> QED BY <2>2, <2>4, <2>5, <2>6 DEF Sound, Exists
  <1>2. CASE h.kind = "ban"
    <2> DEFINE b == IF h.dir = "+" THEN c.bans \cup {h.arg} ELSE c.bans \ {h.arg}
               d == [ts |-> c.ts, modes |-> c.modes, bans |-> b, status |-> c.status]
    <2>1. Apply(c, h) = d
      BY <1>2 DEF Apply, Sound, Channel
    <2>2. b \in SUBSET User
      BY <1>2, ChangeAssumption DEF Sound, Channel
    <2> QED BY <2>1, <2>2 DEF Sound, Channel, Exists, Members, Ops
  <1>3. CASE h.kind = "mode"
    <2> DEFINE b == IF h.dir = "+" THEN c.modes \cup {h.arg} ELSE c.modes \ {h.arg}
               d == [ts |-> c.ts, modes |-> b, bans |-> c.bans, status |-> c.status]
    <2>1. Apply(c, h) = d
      BY <1>3 DEF Apply, Sound, Channel
    <2>2. b \in SUBSET Flag
      BY <1>3 DEF Sound, Channel, Flag
    <2> QED BY <2>1, <2>2 DEF Sound, Channel, Exists, Members, Ops
  <1> QED BY <1>1, <1>2, <1>3, ChangeAssumption

\* The channel with the members `joins' more, whose status st gives.
Joined(c, joins, st, bans) ==
    [ts |-> c.ts, modes |-> c.modes, bans |-> bans,
     status |-> [u \in User |-> IF u \in joins THEN st[u] ELSE c.status[u]]]

\* Members may join with a status that they have earned.
LEMMA JoinSound ==
    ASSUME NEW G, NEW U, NEW c \in Channel, Members(c) \subseteq U,
           \A u \in Ops(c) : EarnedIn(G, u, c.ts),
           NEW joins \in SUBSET U, joins # {}, U \subseteq User, NEW bans \in SUBSET User,
           NEW st \in [User -> Status],
           \A u \in joins : st[u] # "out" /\ (st[u] = "op" => EarnedIn(G, u, c.ts))
    PROVE  Sound(G, U, Joined(c, joins, st, bans))
  <1> DEFINE d == Joined(c, joins, st, bans)
  <1>1. d \in Channel
    BY DEF Joined, Channel
  <1>2. Members(d) \subseteq U /\ Exists(d)
    BY DEF Joined, Members, Exists
  <1>3. \A u \in Ops(d) : EarnedIn(G, u, d.ts)
    BY DEF Joined, Ops
  <1> QED BY <1>1, <1>2, <1>3 DEF Sound

-----------------------------------------------------------------------------
(* What clients do.                                                        *)

LEMMA CountersStep ==
    ASSUME Counters
    PROVE  /\ Counted /\ UNCHANGED <<parts, kicks, kills, splits>> => Counters'
           /\ UNCHANGED <<acts, parts, kicks, kills, splits>> => Counters'
           /\ parts' = parts + 1 /\ UNCHANGED <<acts, kicks, kills, splits>> => Counters'
           /\ kicks' = kicks + 1 /\ UNCHANGED <<acts, parts, kills, splits>> => Counters'
           /\ kills' = kills + 1 /\ UNCHANGED <<acts, parts, kicks, splits>> => Counters'
           /\ splits' = splits + 1 /\ UNCHANGED <<acts, parts, kicks, kills>> => Counters'
  BY DEF Counters, Counted

\* What a server has, and a client's server.
LEMMA AtServer ==
    ASSUME IInv
    PROVE  /\ \A s \in Server : /\ Sound(granted, users[s], channel[s])
                                /\ channel[s] \in Channel /\ channel[s].ts \in Nat
                                /\ channel[s].modes \in SUBSET Flag
                                /\ channel[s].bans \in SUBSET User
                                /\ channel[s].status \in [User -> Status]
                                /\ users[s] \in SUBSET User
                                /\ Exists(channel[s]) \/ channel[s] = NoChannel
           /\ \A u \in User : Home[u] \in Server
  <1>1. ASSUME NEW s \in Server
        PROVE  /\ Sound(granted, users[s], channel[s]) /\ channel[s] \in Channel
               /\ users[s] \in SUBSET User
    BY DEF IInv
  <1>2. ASSUME NEW s \in Server PROVE Exists(channel[s]) \/ channel[s] = NoChannel
    BY <1>1 DEF Sound
  <1>3. \A c \in Channel : /\ c.ts \in Nat /\ c.modes \in SUBSET Flag
                           /\ c.bans \in SUBSET User /\ c.status \in [User -> Status]
    BY DEF Channel
  <1> QED BY <1>1, <1>2, <1>3, HomeAssumption

\* When the history and the clients stay.
LEMMA SameHistory ==
    ASSUME IInv, NEW s \in Server, NEW c, Sound(granted, users[s], c),
           UNCHANGED <<now, granted, users, est>>, Counters'
    PROVE  OneServer(s, c)
  BY DEF OneServer, IInv

LEMMA CreateKeeps ==
    ASSUME IInv, NEW u \in User, Create(u)
    PROVE  IInv'
  <1> DEFINE s == Home[u]
             st == [NoChannel.status EXCEPT ![u] = "op"]
             c == [ts |-> now, modes |-> Created, bans |-> {}, status |-> st]
             m == [type |-> "SJOIN", ts |-> now, modes |-> Created, zero |-> FALSE, status |-> st]
  <1>1. /\ u \in users[s] /\ Do(s, c, <<m>>) /\ granted' = granted \cup {<<u, now>>}
        /\ Counted /\ UNCHANGED <<now, users, est, parts, kicks, kills, splits>>
    BY DEF Create
  <1>2. s \in Server /\ now \in Nat /\ granted \subseteq User \X Nat
    BY AtServer DEF IInv
  <1>3. /\ st \in [User -> {"out", "in", "op"}] /\ st[u] = "op"
        /\ \A v \in User : v # u => st[v] = "out"
    BY DEF NoChannel
  <1>4. EarnedIn(granted', u, now)
    BY <1>1, <1>2 DEF EarnedIn
  <1>5. Created \in SUBSET Flag
    BY DEF Flag
  <1> HIDE DEF st
  <1>6. m \in Truthful(granted')
    BY <1>2, <1>3, <1>4, <1>5, ClaimingMessages
  <1>7. Sound(granted', users'[s], c)
    <2>1. c \in Channel
      BY <1>2, <1>3, <1>5 DEF Channel, Status
    <2>2. Members(c) \subseteq users'[s] /\ Exists(c)
      BY <1>1, <1>3 DEF Members, Exists
    <2>3. \A v \in Ops(c) : EarnedIn(granted', v, c.ts)
      BY <1>3, <1>4 DEF Ops
    <2> QED BY <2>1, <2>2, <2>3 DEF Sound
  <1>8. OneServer(s, c)
    <2>1. Counters'
      BY <1>1, CountersStep DEF IInv
    <2> HIDE DEF c, m
    <2> QED BY <1>1, <1>2, <1>7, <2>1 DEF OneServer, IInv
  <1> HIDE DEF c, m
  <1> QED BY <1>1, <1>2, <1>6, <1>8, DoKeeps

LEMMA JoinKeeps ==
    ASSUME IInv, NEW u \in User, Join(u)
    PROVE  IInv'
  <1> DEFINE s == Home[u]
             c == channel[s]
             d == [c EXCEPT !.status[u] = "in"]
             m == [type |-> "JOIN", u |-> u, ts |-> c.ts, modes |-> c.modes]
  <1>1. /\ u \in users[s] /\ Do(s, d, <<m>>)
        /\ Counted /\ UNCHANGED <<now, users, granted, est, parts, kicks, kills, splits>>
    BY DEF Join
  <1>2. s \in Server /\ c \in Channel /\ Sound(granted, users[s], c) /\ users[s] \in SUBSET User
    BY AtServer
  <1>3. m \in Truthful(granted')
    BY <1>2, PlainMessages DEF Channel
  <1> DEFINE st == [v \in User |-> "in"]
             e == Joined(c, {u}, st, c.bans)
  <1>4. d = e
    BY <1>2 DEF Joined, Channel
  <1>5. Sound(granted, users[s], e)
    <2>1. st \in [User -> Status] /\ c.bans \in SUBSET User
      BY <1>2 DEF Status, Channel
    <2>2. \A v \in {u} : st[v] # "out" /\ (st[v] = "op" => EarnedIn(granted, v, c.ts))
      OBVIOUS
    <2>3. {u} \in SUBSET users[s] /\ {u} # {}
      BY <1>1
    <2>4. Members(c) \subseteq users[s] /\ \A v \in Ops(c) : EarnedIn(granted, v, c.ts)
      BY <1>2 DEF Sound
    <2> HIDE DEF st, c
    <2> QED BY <1>2, <2>1, <2>2, <2>3, <2>4, JoinSound
  <1>6. Counters'
    BY <1>1, CountersStep DEF IInv
  <1> HIDE DEF d, e, m
  <1>7. OneServer(s, d)
    BY <1>1, <1>2, <1>4, <1>5, <1>6, SameHistory
  <1> QED BY <1>1, <1>2, <1>3, <1>7, DoKeeps

\* PART and KICK: a member is removed.
LEMMA LeaveKeeps ==
    ASSUME IInv, NEW s \in Server, NEW u \in User, NEW m \in Truthful(granted),
           Do(s, Remove(channel[s], {u}), <<m>>),
           UNCHANGED <<now, users, granted, est>>, Counters'
    PROVE  IInv'
  <1> DEFINE c == Remove(channel[s], {u})
  <1>1. Sound(granted, users[s], channel[s])
    BY AtServer
  <1>2. Sound(granted, users[s] \ {u}, c)
    BY <1>1, RemoveSound
  <1>3. Sound(granted, users[s], c)
    BY <1>2, SoundWider
  <1> HIDE DEF c
  <1>4. OneServer(s, c)
    BY <1>3, SameHistory
  <1>5. m \in Truthful(granted') /\ Do(s, c, <<m>>)
    BY DEF c
  <1> QED BY <1>4, <1>5, DoKeeps

LEMMA PartKeeps ==
    ASSUME IInv, NEW u \in User, Part(u)
    PROVE  IInv'
  <1>1. [type |-> "PART", u |-> u, by |-> u] \in Truthful(granted)
    BY PlainMessages
  <1>2. Counters'
    BY CountersStep DEF IInv, Part
  <1> QED BY <1>1, <1>2, LeaveKeeps, AtServer DEF Part

LEMMA KickKeeps ==
    ASSUME IInv, NEW o \in User, NEW u \in User, Kick(o, u)
    PROVE  IInv'
  <1>1. [type |-> "KICK", u |-> u, by |-> o] \in Truthful(granted)
    BY PlainMessages
  <1>2. Counters'
    BY CountersStep DEF IInv, Kick
  <1> QED BY <1>1, <1>2, LeaveKeeps, AtServer DEF Kick

LEMMA ModeKeeps ==
    ASSUME IInv, NEW o \in User, NEW h \in Change, Mode(o, h)
    PROVE  IInv'
  <1> DEFINE s == Home[o]
             c == channel[s]
             d == Apply(c, h)
             m == [type |-> "TMODE", u |-> o, ts |-> c.ts, change |-> h]
             gives == h.kind = "op" /\ h.dir = "+"
  <1>1. /\ c.status[o] = "op" /\ Do(s, d, <<m>>)
        /\ granted' = IF gives THEN granted \cup {<<h.arg, c.ts>>} ELSE granted
        /\ Counted /\ UNCHANGED <<now, users, est, parts, kicks, kills, splits>>
    BY DEF Mode
  <1>2. s \in Server /\ c.ts \in Nat /\ Sound(granted, users[s], c)
    BY AtServer
  <1>3. Exists(c)
    BY <1>1 DEF Exists, Members
  <1>4. gives => EarnedIn(granted', h.arg, c.ts)
    BY <1>1, <1>2 DEF EarnedIn
  <1>5. granted \subseteq granted' /\ granted' \subseteq User \X Nat
    BY <1>1, <1>2, ChangeAssumption DEF IInv
  <1>6. Sound(granted', users[s], c)
    BY <1>2, <1>5, HistoryGrows
  <1>7. Sound(granted', users[s], d)
    BY <1>3, <1>4, <1>6, ApplySound
  <1>8. m \in Truthful(granted')
    BY <1>2, <1>4, ClaimingMessages
  <1>9. OneServer(s, d)
    <2>1. Counters'
      BY CountersStep DEF IInv, Mode
    <2> HIDE DEF d, m
    <2> QED BY <1>1, <1>5, <1>7, <2>1 DEF OneServer, IInv
  <1> HIDE DEF d, m
  <1> QED BY <1>1, <1>2, <1>8, <1>9, DoKeeps

LEMMA KillKeeps ==
    ASSUME IInv, NEW s \in Server, NEW u \in User, Kill(s, u)
    PROVE  IInv'
  <1> DEFINE c == Remove(channel[s], {u})
             m == [type |-> "GONE", us |-> {u}]
  <1>1. /\ users' = [users EXCEPT ![s] = @ \ {u}] /\ Do(s, c, <<m>>)
        /\ UNCHANGED <<now, granted, est>> /\ Counters'
    BY CountersStep DEF IInv, Kill
  <1>2. m \in Truthful(granted')
    BY PlainMessages
  <1>3. Sound(granted, users[s] \ {u}, c)
    <2>1. Sound(granted, users[s], channel[s])
      BY AtServer
    <2> QED BY <2>1, RemoveSound
  <1> HIDE DEF c, m
  <1>4. users' \in [Server -> SUBSET User] /\ users'[s] = users[s] \ {u}
        /\ \A x \in Server : x # s => users'[x] = users[x]
    BY <1>1 DEF IInv
  <1>5. OneServer(s, c)
    BY <1>1, <1>3, <1>4 DEF OneServer, IInv
  <1> QED BY <1>1, <1>2, <1>5, DoKeeps

-----------------------------------------------------------------------------
(* Messages from a peer.                                                   *)

\* A message that is read: its link, and what it claims.
LEMMA Arrived ==
    ASSUME IInv, NEW s \in Server, NEW t \in Server, NEW type, First(s, t, type)
    PROVE  /\ <<t, s>> \in Edge /\ queue[<<t, s>>] # <<>>
           /\ Msg(s, t) \in Truthful(granted) /\ Msg(s, t) \in Message
           /\ Msg(s, t).type = type
  <1>1. <<t, s>> \in Edge /\ queue[<<t, s>>] # <<>> /\ Msg(s, t).type = type
    BY DEF First, Msg
  <1>2. Msg(s, t) \in Truthful(granted)
    BY <1>1, QueueShrinks DEF IInv, Msg
  <1> QED BY <1>1, <1>2 DEF Truthful

\* When nothing changes but one channel, and what is relayed is truthful.
LEMMA ReadKeeps ==
    ASSUME IInv, NEW s \in Server, NEW t \in Server, <<t, s>> \in Edge, queue[<<t, s>>] # <<>>,
           NEW c, Sound(granted, users[s], c), NEW ms \in Seq(Truthful(granted)),
           Handle(s, t, c, ms), Steady, UNCHANGED users
    PROVE  IInv'
  <1>1. UNCHANGED <<now, users, granted, est>> /\ Counters'
    BY CountersStep DEF Steady, IInv
  <1>2. OneServer(s, c)
    BY <1>1, SameHistory
  <1>3. ms \in Seq(Truthful(granted'))
    BY <1>1
  <1> QED BY <1>2, <1>3, HandleKeeps

\* A message whose sender is not known.
LEMMA StrangerKeeps ==
    ASSUME IInv, NEW s \in Server, NEW t \in Server, <<t, s>> \in Edge, queue[<<t, s>>] # <<>>,
           NEW u, Stranger(s, t, u), Steady, UNCHANGED users
    PROVE  IInv'
  <1>1. Handle(s, t, channel[s], <<>>)
    BY DEF Stranger
  <1>2. Sound(granted, users[s], channel[s])
    BY AtServer
  <1>3. <<>> \in Seq(Truthful(granted))
    OBVIOUS
  <1> QED BY <1>1, <1>2, <1>3, ReadKeeps

LEMMA SjoinKeeps ==
    ASSUME IInv, NEW s \in Server, NEW t \in Server, MsSjoin(s, t)
    PROVE  IInv'
  <1> DEFINE m == Msg(s, t)
             old == channel[s]
             listed == {u \in users[s] \cap Behind[<<s, t>>] : m.status[u] # "out"}
             joins == listed \ Members(old)
             newModes == KeepNewModes(old, m.ts)
             given == [u \in User |-> IF newModes THEN m.status[u]
                                      ELSE IF m.status[u] = "op" THEN "deop" ELSE "in"]
             merged == Merge(old, m.ts, m.modes)
             zero == m.zero \/ ~newModes
             full == Joined(merged, joins, given, BansAfter(old, m.ts))
             st == [u \in User |-> IF u \notin listed THEN "out"
                                   ELSE IF newModes THEN m.status[u] ELSE "in"]
             modes == IF zero THEN {} ELSE merged.modes
             relay == [type |-> "SJOIN", ts |-> merged.ts, modes |-> modes, zero |-> zero,
                       status |-> st]
  <1>1. /\ <<t, s>> \in Edge /\ queue[<<t, s>>] # <<>>
        /\ m \in Truthful(granted) /\ m \in Message /\ m.type = "SJOIN"
    BY Arrived DEF MsSjoin
  <1>2. \/ joins = {} /\ Handle(s, t, Settle(merged), <<>>)
        \/ joins # {} /\ Handle(s, t, full, <<relay>>)
    BY DEF MsSjoin, Joined
  <1>3. Steady /\ UNCHANGED users
    BY DEF MsSjoin
  <1>4. /\ m.ts \in Nat /\ m.modes \in SUBSET Flag /\ m.zero \in BOOLEAN
        /\ m.status \in [User -> {"out", "in", "op"}]
    BY <1>1, ReadMessages
  <1>5. \A u \in User : m.status[u] = "op" => EarnedIn(granted, u, m.ts)
    BY <1>1 DEF Truthful
  <1>6. Sound(granted, users[s], old) /\ old.bans \in SUBSET User /\ users[s] \in SUBSET User
    BY AtServer
  <1> HIDE DEF m, old
  <1>7. /\ merged \in Channel /\ Members(merged) = Members(old)
        /\ newModes => merged.ts = m.ts
        /\ \A u \in Ops(merged) : EarnedIn(granted, u, merged.ts)
    BY <1>4, <1>6, MergeFields
  <1>8. merged.ts \in Nat /\ merged.modes \in SUBSET Flag
    BY <1>7 DEF Channel
  <1>9. Members(merged) \subseteq users[s]
    BY <1>6, <1>7 DEF Sound
  <1> HIDE DEF merged, newModes
  <1>10. /\ given \in [User -> Status]
         /\ \A u \in joins : given[u] # "out" /\ (given[u] = "op" => EarnedIn(granted, u, merged.ts))
    <2>1. given \in [User -> Status]
      BY <1>4 DEF Status
    <2>2. ASSUME NEW u \in joins
          PROVE  given[u] # "out" /\ (given[u] = "op" => EarnedIn(granted, u, merged.ts))
      <3>1. u \in User /\ m.status[u] # "out"
        BY <1>6
      <3>2. CASE newModes
        BY <1>5, <1>7, <3>1, <3>2
      <3>3. CASE ~newModes
        BY <3>1, <3>3
      <3> QED BY <3>2, <3>3
    <2> QED BY <2>1, <2>2
  <1>11. relay \in Truthful(granted)
    <2>1. st \in [User -> {"out", "in", "op"}]
      BY <1>4
    <2>2. \A u \in User : st[u] = "op" => EarnedIn(granted, u, merged.ts)
      BY <1>5, <1>7
    <2>3. modes \in SUBSET Flag /\ zero \in BOOLEAN
      BY <1>4, <1>8
    <2> HIDE DEF st, modes, zero
    <2> QED BY <1>8, <2>1, <2>2, <2>3, ClaimingMessages
  <1>12. CASE joins = {} /\ Handle(s, t, Settle(merged), <<>>)
    <2>1. Sound(granted, users[s], Settle(merged))
      BY <1>7, <1>9, NoChannelSound DEF Settle, Sound
    <2>2. <<>> \in Seq(Truthful(granted))
      OBVIOUS
    <2> QED BY <1>1, <1>3, <1>12, <2>1, <2>2, ReadKeeps
  <1>13. CASE joins # {} /\ Handle(s, t, full, <<relay>>)
    <2>1. joins \in SUBSET users[s] /\ BansAfter(old, m.ts) \in SUBSET User
      BY <1>6 DEF BansAfter
    <2> HIDE DEF joins, given
    <2>2. Sound(granted, users[s], full)
      BY <1>6, <1>7, <1>9, <1>10, <1>13, <2>1, JoinSound
    <2>3. <<relay>> \in Seq(Truthful(granted))
      BY <1>11
    <2> HIDE DEF full, relay
    <2> QED BY <1>1, <1>3, <1>13, <2>2, <2>3, ReadKeeps
  <1> QED BY <1>2, <1>12, <1>13

LEMMA RemoteJoinKeeps ==
    ASSUME IInv, NEW s \in Server, NEW t \in Server, MsJoin(s, t)
    PROVE  IInv'
  <1> DEFINE m == Msg(s, t)
             u == m.u
             merged == Merge(channel[s], m.ts, m.modes)
             joined == [merged EXCEPT !.status[u] = IF @ = "out" THEN "in" ELSE @]
             relay == [type |-> "JOIN", u |-> u, ts |-> joined.ts, modes |-> joined.modes]
  <1>1. /\ <<t, s>> \in Edge /\ queue[<<t, s>>] # <<>> /\ m \in Message /\ m.type = "JOIN"
    BY Arrived DEF MsJoin
  <1>2. \/ Stranger(s, t, u)
        \/ u \in users[s] /\ Handle(s, t, joined, <<relay>>)
    BY DEF MsJoin
  <1>3. Steady /\ UNCHANGED users
    BY DEF MsJoin
  <1>4. u \in User /\ m.ts \in Nat /\ m.modes \in SUBSET Flag
    BY <1>1, ReadMessages
  <1>5. Sound(granted, users[s], channel[s]) /\ users[s] \in SUBSET User
    BY AtServer
  <1>6. CASE Stranger(s, t, u)
    BY <1>1, <1>3, <1>6, StrangerKeeps
  <1>7. CASE u \in users[s] /\ Handle(s, t, joined, <<relay>>)
    <2>1. /\ merged \in Channel /\ Members(merged) = Members(channel[s])
          /\ \A v \in Ops(merged) : EarnedIn(granted, v, merged.ts)
      BY <1>4, <1>5, MergeFields
    <2>2. Members(merged) \subseteq users[s]
      BY <1>5, <2>1 DEF Sound
    <2> HIDE DEF merged, u, m
    <2> DEFINE st == [v \in User |-> IF merged.status[v] = "out" THEN "in" ELSE merged.status[v]]
               full == Joined(merged, {u}, st, merged.bans)
    <2>3. joined = full
      BY <1>4, <2>1 DEF Joined, Channel
    <2>4. st \in [User -> Status] /\ merged.bans \in SUBSET User
      BY <2>1 DEF Channel, Status
    <2>5. {u} \in SUBSET users[s] /\ {u} # {}
      BY <1>7
    <2>6. \A v \in {u} : st[v] # "out" /\ (st[v] = "op" => EarnedIn(granted, v, merged.ts))
      BY <1>4, <2>1 DEF Ops
    <2> HIDE DEF st
    <2>7. Sound(granted, users[s], full)
      BY <1>5, <2>1, <2>2, <2>4, <2>5, <2>6, JoinSound
    <2>8. joined.ts \in Nat /\ joined.modes \in SUBSET Flag
      BY <2>1, <2>3 DEF Joined, Channel
    <2> HIDE DEF full, joined
    <2>9. relay \in Truthful(granted)
      BY <1>4, <2>8, PlainMessages
    <2>10. <<relay>> \in Seq(Truthful(granted))
      BY <2>9
    <2> HIDE DEF relay
    <2> QED BY <1>1, <1>3, <1>7, <2>3, <2>7, <2>10, ReadKeeps
  <1> QED BY <1>2, <1>6, <1>7

LEMMA TmodeKeeps ==
    ASSUME IInv, NEW s \in Server, NEW t \in Server, MsTmode(s, t)
    PROVE  IInv'
  <1> DEFINE m == Msg(s, t)
             c == channel[s]
             obeyed == MayChange(c, m.ts) /\ c.status[m.u] # "deop" /\ Recorded(c, m.change)
             d == Apply(c, m.change)
             relay == [m EXCEPT !.ts = c.ts]
  <1>1. /\ <<t, s>> \in Edge /\ queue[<<t, s>>] # <<>>
        /\ m \in Truthful(granted) /\ m \in Message /\ m.type = "TMODE"
    BY Arrived DEF MsTmode
  <1>2. \/ Stranger(s, t, m.u)
        \/ Handle(s, t, c, <<>>)
        \/ MayChange(c, m.ts) /\ Handle(s, t, d, <<relay>>)
    BY DEF MsTmode
  <1>3. Steady /\ UNCHANGED users
    BY DEF MsTmode
  <1>4. /\ m.u \in User /\ m.ts \in Nat /\ m.change \in Change
        /\ m = [type |-> "TMODE", u |-> m.u, ts |-> m.ts, change |-> m.change]
    BY <1>1, ReadMessages
  <1>5. m.change.kind = "op" /\ m.change.dir = "+" => EarnedIn(granted, m.change.arg, m.ts)
    BY <1>1 DEF Truthful
  <1>6. Sound(granted, users[s], c) /\ c.ts \in Nat
    BY AtServer
  <1>7. CASE Stranger(s, t, m.u)
    BY <1>1, <1>3, <1>7, StrangerKeeps
  <1>8. CASE Handle(s, t, c, <<>>)
    <2>1. <<>> \in Seq(Truthful(granted))
      OBVIOUS
    <2> QED BY <1>1, <1>3, <1>6, <1>8, <2>1, ReadKeeps
  <1>9. CASE MayChange(c, m.ts) /\ Handle(s, t, d, <<relay>>)
    <2>1. Exists(c) /\ m.ts <= c.ts
      BY <1>9 DEF MayChange
    <2>2. m.change.kind = "op" /\ m.change.dir = "+" => EarnedIn(granted, m.change.arg, c.ts)
      BY <1>4, <1>5, <1>6, <2>1, OlderCounts
    <2>3. Sound(granted, users[s], d)
      BY <1>4, <1>6, <2>1, <2>2, ApplySound
    <2>4. relay = [type |-> "TMODE", u |-> m.u, ts |-> c.ts, change |-> m.change]
      BY <1>4
    <2>5. relay \in Truthful(granted)
      BY <1>4, <1>6, <2>2, <2>4, ClaimingMessages
    <2>6. <<relay>> \in Seq(Truthful(granted))
      BY <2>5
    <2> HIDE DEF d, relay
    <2> QED BY <1>1, <1>3, <1>9, <2>3, <2>6, ReadKeeps
  <1> QED BY <1>2, <1>7, <1>8, <1>9

LEMMA BmaskKeeps ==
    ASSUME IInv, NEW s \in Server, NEW t \in Server, MsBmask(s, t)
    PROVE  IInv'
  <1> DEFINE m == Msg(s, t)
             c == channel[s]
             d == [c EXCEPT !.bans = @ \cup m.bans]
             relay == [m EXCEPT !.ts = c.ts]
  <1>1. <<t, s>> \in Edge /\ queue[<<t, s>>] # <<>> /\ m \in Message /\ m.type = "BMASK"
    BY Arrived DEF MsBmask
  <1>2. \/ Handle(s, t, c, <<>>)
        \/ MayChange(c, m.ts) /\ Handle(s, t, d, <<relay>>)
    BY DEF MsBmask
  <1>3. Steady /\ UNCHANGED users
    BY DEF MsBmask
  <1>4. m.bans \in SUBSET User /\ m = [type |-> "BMASK", ts |-> m.ts, bans |-> m.bans]
    BY <1>1, ReadMessages
  <1>5. Sound(granted, users[s], c) /\ c.ts \in Nat
    BY AtServer
  <1>6. CASE Handle(s, t, c, <<>>)
    <2>1. <<>> \in Seq(Truthful(granted))
      OBVIOUS
    <2> QED BY <1>1, <1>3, <1>5, <1>6, <2>1, ReadKeeps
  <1>7. CASE MayChange(c, m.ts) /\ Handle(s, t, d, <<relay>>)
    <2>1. Exists(c)
      BY <1>7 DEF MayChange
    <2>2. d = [ts |-> c.ts, modes |-> c.modes, bans |-> c.bans \cup m.bans, status |-> c.status]
      BY <1>5 DEF Sound, Channel
    <2>3. Sound(granted, users[s], d)
      BY <1>4, <1>5, <2>1, <2>2 DEF Sound, Channel, Exists, Members, Ops
    <2>4. relay = [type |-> "BMASK", ts |-> c.ts, bans |-> m.bans]
      BY <1>4
    <2>5. relay \in Truthful(granted)
      BY <1>4, <1>5, <2>4, PlainMessages
    <2>6. <<relay>> \in Seq(Truthful(granted))
      BY <2>5
    <2> HIDE DEF d, relay
    <2> QED BY <1>1, <1>3, <1>7, <2>3, <2>6, ReadKeeps
  <1> QED BY <1>2, <1>6, <1>7

LEMMA RemoteLeaveKeeps ==
    ASSUME IInv, NEW s \in Server, NEW t \in Server, MsLeave(s, t)
    PROVE  IInv'
  <1> DEFINE m == Msg(s, t)
             c == channel[s]
             d == Remove(c, {m.u})
  <1>1. /\ <<t, s>> \in Edge /\ queue[<<t, s>>] # <<>> /\ m \in Truthful(granted)
    BY Arrived DEF MsLeave
  <1>2. \/ Stranger(s, t, m.by)
        \/ Handle(s, t, c, <<>>)
        \/ Handle(s, t, d, <<m>>)
    BY DEF MsLeave
  <1>3. Steady /\ UNCHANGED users
    BY DEF MsLeave
  <1>4. Sound(granted, users[s], c)
    BY AtServer
  <1>5. CASE Stranger(s, t, m.by)
    BY <1>1, <1>3, <1>5, StrangerKeeps
  <1>6. CASE Handle(s, t, c, <<>>)
    <2>1. <<>> \in Seq(Truthful(granted))
      OBVIOUS
    <2> QED BY <1>1, <1>3, <1>4, <1>6, <2>1, ReadKeeps
  <1>7. CASE Handle(s, t, d, <<m>>)
    <2>1. Sound(granted, users[s] \ {m.u}, d)
      BY <1>4, RemoveSound
    <2>2. Sound(granted, users[s], d)
      BY <2>1, SoundWider
    <2>3. <<m>> \in Seq(Truthful(granted))
      BY <1>1
    <2> HIDE DEF d, m
    <2> QED BY <1>1, <1>3, <1>7, <2>2, <2>3, ReadKeeps
  <1> QED BY <1>2, <1>5, <1>6, <1>7

\* Clients are introduced, or go: what the server knows of clients changes.
LEMMA KnownKeeps ==
    ASSUME IInv, NEW s \in Server, NEW t \in Server, <<t, s>> \in Edge, queue[<<t, s>>] # <<>>,
           NEW U \in SUBSET User, users' = [users EXCEPT ![s] = U],
           NEW c, Sound(granted, U, c), NEW ms \in Seq(Truthful(granted)),
           Handle(s, t, c, ms), Steady
    PROVE  IInv'
  <1>1. UNCHANGED <<now, granted, est>> /\ Counters'
    BY CountersStep DEF Steady, IInv
  <1>2. users' \in [Server -> SUBSET User] /\ users'[s] = U
        /\ \A x \in Server : x # s => users'[x] = users[x]
    BY DEF IInv
  <1>3. OneServer(s, c)
    BY <1>1, <1>2 DEF OneServer, IInv
  <1>4. ms \in Seq(Truthful(granted'))
    BY <1>1
  <1> QED BY <1>3, <1>4, HandleKeeps

LEMMA UidKeeps ==
    ASSUME IInv, NEW s \in Server, NEW t \in Server, MsUid(s, t)
    PROVE  IInv'
  <1> DEFINE m == Msg(s, t)
             U == users[s] \cup m.us
  <1>1. /\ <<t, s>> \in Edge /\ queue[<<t, s>>] # <<>>
        /\ m \in Truthful(granted) /\ m \in Message /\ m.type = "USERS"
    BY Arrived DEF MsUid
  <1>2. /\ users' = [users EXCEPT ![s] = U]
        /\ Handle(s, t, channel[s], <<m>>) /\ Steady
    BY DEF MsUid
  <1>3. Sound(granted, users[s], channel[s]) /\ users[s] \in SUBSET User
    BY AtServer
  <1>4. m.us \in SUBSET User
    BY <1>1, ReadMessages
  <1>5. U \in SUBSET User
    BY <1>3, <1>4
  <1>6. Sound(granted, U, channel[s])
    BY <1>3, SoundWider
  <1>7. <<m>> \in Seq(Truthful(granted))
    BY <1>1
  <1> HIDE DEF U, m
  <1> QED BY <1>1, <1>2, <1>5, <1>6, <1>7, KnownKeeps

LEMMA QuitKeeps ==
    ASSUME IInv, NEW s \in Server, NEW t \in Server, MsQuit(s, t)
    PROVE  IInv'
  <1> DEFINE gone == Msg(s, t).us \cap users[s]
             U == users[s] \ gone
             c == Remove(channel[s], gone)
             ms == IF gone = {} THEN <<>> ELSE <<[type |-> "GONE", us |-> gone]>>
  <1>1. <<t, s>> \in Edge /\ queue[<<t, s>>] # <<>>
    BY Arrived DEF MsQuit
  <1>2. users' = [users EXCEPT ![s] = U] /\ Handle(s, t, c, ms) /\ Steady
    BY DEF MsQuit
  <1>3. Sound(granted, users[s], channel[s]) /\ users[s] \in SUBSET User
    BY AtServer
  <1>4. U \in SUBSET User /\ gone \in SUBSET User
    BY <1>3
  <1> HIDE DEF gone
  <1>5. Sound(granted, U, c)
    BY <1>3, RemoveSound
  <1>6. ms \in Seq(Truthful(granted))
    <2>1. [type |-> "GONE", us |-> gone] \in Truthful(granted)
      BY <1>4, PlainMessages
    <2> QED BY <2>1
  <1> HIDE DEF U, c, ms
  <1> QED BY <1>1, <1>2, <1>4, <1>5, <1>6, KnownKeeps

-----------------------------------------------------------------------------
(* Links.                                                                  *)

\* A burst tells what is so.
LEMMA BurstTruthful ==
    ASSUME IInv, NEW s \in Server
    PROVE  Burst(s) \in Seq(Truthful(granted))
  <1> DEFINE M == Truthful(granted)
             c == channel[s]
             st == [u \in User |-> IF c.status[u] = "deop" THEN "in" ELSE c.status[u]]
             b1 == <<[type |-> "USERS", us |-> users[s]]>>
             sj == [type |-> "SJOIN", ts |-> c.ts, modes |-> c.modes, zero |-> FALSE, status |-> st]
             b2 == IF Exists(c) THEN <<sj>> ELSE <<>>
             b3 == IF c.bans = {} THEN <<>>
                   ELSE <<[type |-> "BMASK", ts |-> c.ts, bans |-> c.bans]>>
  <1>1. /\ c.ts \in Nat /\ c.modes \in SUBSET Flag /\ c.bans \in SUBSET User
        /\ c.status \in [User -> Status] /\ users[s] \in SUBSET User
        /\ Sound(granted, users[s], c)
    BY AtServer
  <1>2. b1 \in Seq(M)
    <2>1. [type |-> "USERS", us |-> users[s]] \in M
      BY <1>1, PlainMessages
    <2> HIDE DEF M
    <2> QED BY <2>1
  <1>3. b2 \in Seq(M)
    <2>1. st \in [User -> {"out", "in", "op"}]
      BY <1>1 DEF Status
    <2>2. \A u \in User : st[u] = "op" => EarnedIn(granted, u, c.ts)
      BY <1>1 DEF Sound, Ops
    <2> HIDE DEF st
    <2>3. sj \in M
      BY <1>1, <2>1, <2>2, ClaimingMessages
    <2> HIDE DEF M, sj
    <2> QED BY <2>3
  <1>4. b3 \in Seq(M)
    <2>1. [type |-> "BMASK", ts |-> c.ts, bans |-> c.bans] \in M
      BY <1>1, PlainMessages
    <2> HIDE DEF M
    <2> QED BY <2>1
  <1>5. Burst(s) = b1 \o b2 \o b3
    BY DEF Burst
  <1> HIDE DEF M, b1, b2, b3
  <1>6. b1 \o b2 \in Seq(M)
    BY <1>2, <1>3, ConcatProperties
  <1>7. b1 \o b2 \o b3 \in Seq(M)
    BY <1>4, <1>6, ConcatProperties
  <1> QED BY <1>5, <1>7 DEF M

\* One end of a link is established.
LEMMA EstabKeeps ==
    ASSUME IInv, NEW s \in Server, NEW t \in Server, <<s, t>> \in Edge,
           NEW hello \in Seq(Truthful(granted)), NEW listening,
           NEW queues \in [Edge -> Seq(Truthful(granted))],
           ServerEstab(s, t, hello, listening, queues),
           UNCHANGED <<now, channel, users, granted, acts, parts, kicks, kills, splits>>
    PROVE  IInv'
  <1> DEFINE M == Truthful(granted)
             q == IF listening THEN hello \o Burst(s) ELSE queues[<<s, t>>]
  <1>1. est' = [est EXCEPT ![s] = @ \cup {t}] /\ queue' = [queues EXCEPT ![<<s, t>>] = q]
    BY DEF ServerEstab
  <1>2. hello \o Burst(s) \in Seq(M)
    BY BurstTruthful, ConcatProperties
  <1>3. queues[<<s, t>>] \in Seq(M)
    OBVIOUS
  <1>4. q \in Seq(M)
    BY <1>2, <1>3
  <1> HIDE DEF q
  <1>5. queue' \in [Edge -> Seq(M)]
    BY <1>1, <1>4, QueueShrinks DEF M
  <1>6. est' \in [Server -> SUBSET Server]
    BY <1>1 DEF IInv
  <1> QED BY <1>5, <1>6, CountersStep DEF IInv

LEMMA AcceptKeeps ==
    ASSUME IInv, NEW s \in Server, NEW t \in Server, AcceptLink(s, t)
    PROVE  IInv'
  <1>1. <<[type |-> "SERVER"]>> \in Seq(Truthful(granted))
    BY PlainMessages
  <1>2. queue \in [Edge -> Seq(Truthful(granted))]
    BY DEF IInv
  <1> QED BY <1>1, <1>2, EstabKeeps DEF AcceptLink

LEMMA ServerKeeps ==
    ASSUME IInv, NEW s \in Server, NEW t \in Server, MrServer(s, t)
    PROVE  IInv'
  <1> DEFINE rest == [queue EXCEPT ![<<t, s>>] = Tail(@)]
  <1>1. /\ <<t, s>> \in Edge /\ queue[<<t, s>>] # <<>>
        /\ ServerEstab(s, t, <<>>, s \in est[t], rest)
        /\ UNCHANGED <<now, channel, users, granted, acts, parts, kicks, kills, splits>>
    BY DEF MrServer
  <1>2. <<s, t>> \in Edge
    BY <1>1 DEF Edge
  <1>3. rest \in [Edge -> Seq(Truthful(granted))]
    BY <1>1, QueueShrinks DEF IInv
  <1>4. <<>> \in Seq(Truthful(granted))
    OBVIOUS
  <1> HIDE DEF rest
  <1> QED BY <1>1, <1>2, <1>3, <1>4, EstabKeeps

LEMMA CloseKeeps ==
    ASSUME IInv, NEW s \in Server, NEW t \in Server, CloseLink(s, t)
    PROVE  IInv'
  <1> DEFINE gone == Behind[<<s, t>>] \cap users[s]
             c == Remove(channel[s], gone)
             m == [type |-> "GONE", us |-> gone]
             queues == Transmit(s, t, queue, <<m>>)
  <1>1. /\ <<s, t>> \in Edge
        /\ est' = [est EXCEPT ![s] = @ \ {t}]
        /\ users' = [users EXCEPT ![s] = @ \ gone]
        /\ channel' = [channel EXCEPT ![s] = c]
        /\ queue' = [queues EXCEPT ![<<t, s>>] = <<>>]
        /\ UNCHANGED <<now, granted, acts, parts, kicks, kills>>
        /\ UNCHANGED splits \/ splits' = splits + 1
    BY DEF CloseLink
  <1>2. Sound(granted, users[s], channel[s]) /\ users[s] \in SUBSET User
    BY AtServer
  <1>3. gone \in SUBSET User
    BY <1>2
  <1> HIDE DEF gone
  <1>4. Sound(granted, users[s] \ gone, c)
    BY <1>2, RemoveSound
  <1>5. <<m>> \in Seq(Truthful(granted))
    <2>1. m \in Truthful(granted)
      BY <1>3, PlainMessages
    <2> QED BY <2>1
  <1>6. <<t, s>> \in Edge /\ queue \in [Edge -> Seq(Truthful(granted))]
    BY <1>1 DEF Edge, IInv
  <1>7. queues \in [Edge -> Seq(Truthful(granted))]
    BY <1>5, <1>6, TransmitTyped
  <1> HIDE DEF c, queues
  <1>8. queue' \in [Edge -> Seq(Truthful(granted))]
    BY <1>1, <1>6, <1>7, QueueShrinks
  <1>9. Counters'
    BY <1>1, CountersStep DEF IInv
  <1>10. users' \in [Server -> SUBSET User] /\ est' \in [Server -> SUBSET Server]
    BY <1>1 DEF IInv
  <1>11. channel' \in [Server -> Channel]
    BY <1>1, <1>4 DEF IInv, Sound
  <1>12. ASSUME NEW x \in Server PROVE Sound(granted, users'[x], channel'[x])
    <2>1. CASE x = s
      BY <1>1, <1>4, <2>1 DEF IInv
    <2>2. CASE x # s
      BY <1>1, <2>2 DEF IInv
    <2> QED BY <2>1, <2>2
  <1> QED BY <1>1, <1>8, <1>9, <1>10, <1>11, <1>12 DEF IInv

-----------------------------------------------------------------------------
(* The theorems.                                                           *)

LEMMA StartsSound ==
    ASSUME Init
    PROVE  IInv
  <1>1. \A s \in Server : Local(s) \in SUBSET User
    BY DEF Local
  <1>2. users \in [Server -> SUBSET User] /\ est \in [Server -> SUBSET Server]
    BY <1>1 DEF Init
  <1>3. NoChannel \in Channel /\ \A U : Sound(granted, U, NoChannel)
    BY NoChannelSound DEF Sound
  <1>4. channel \in [Server -> Channel] /\ \A s \in Server : Sound(granted, users[s], channel[s])
    BY <1>3 DEF Init
  <1>5. queue \in [Edge -> Seq(Truthful(granted))]
    BY DEF Init
  <1>6. granted \subseteq User \X Nat
    BY DEF Init
  <1> QED BY <1>2, <1>4, <1>5, <1>6 DEF Init, IInv, Counters

LEMMA StaysSound ==
    ASSUME IInv, [Next]_vars
    PROVE  IInv'
  <1>1. CASE UNCHANGED vars
    BY <1>1 DEF vars, IInv, Counters
  <1>2. CASE Tick
    BY <1>2 DEF Tick, IInv, Counters
  <1>3. CASE ClientStep
    BY <1>3, CreateKeeps, JoinKeeps, PartKeeps, KickKeeps, ModeKeeps, KillKeeps DEF ClientStep
  <1>4. ASSUME NEW s \in Server, NEW t \in Server, Receive(s, t) PROVE IInv'
    BY <1>4, SjoinKeeps, RemoteJoinKeeps, TmodeKeeps, BmaskKeeps, RemoteLeaveKeeps, UidKeeps,
       QuitKeeps, ServerKeeps DEF Receive
  <1>5. ASSUME NEW s \in Server, NEW t \in Server, AcceptLink(s, t) \/ CloseLink(s, t) PROVE IInv'
    BY <1>5, AcceptKeeps, CloseKeeps
  <1> QED BY <1>1, <1>2, <1>3, <1>4, <1>5 DEF Next

LEMMA IInvImplies ==
    ASSUME IInv
    PROVE  TypeOK /\ OpsEarned
  <1>1. Seq(Truthful(granted)) \subseteq Seq(Message)
    BY SeqDef DEF Truthful
  <1>2. queue \in [Edge -> Seq(Message)]
    BY <1>1 DEF IInv
  <1>3. \A s \in Server :
           Members(channel[s]) \subseteq users[s] /\ (Exists(channel[s]) \/ channel[s] = NoChannel)
    BY DEF IInv, Sound
  <1>4. TypeOK
    BY <1>2, <1>3 DEF IInv, TypeOK, Counters
  <1>5. OpsEarned
    BY DEF IInv, Sound, OpsEarned, Earned, EarnedIn
  <1> QED BY <1>4, <1>5

\* IInv holds in every state that a network can reach.
THEOREM Inductive == Spec => []IInv
  <1>1. Init => IInv
    BY StartsSound
  <1>2. IInv /\ [Next]_vars => IInv'
    BY StaysSound
  <1> QED BY <1>1, <1>2, PTL DEF Spec

\* Every server's state is typed; a channel has only members that the server knows,
\* and is gone with the last of them (src/channel.c:234).
THEOREM TypeCorrect == Spec => []TypeOK
  <1>1. IInv => TypeOK
    BY IInvImplies
  <1> QED BY <1>1, Inductive, PTL

\* At every server an operator has earned his status under a timestamp that is not
\* above the channel's, whatever SJOINs, JOINs, TMODEs, kicks, kills and splits
\* cross (modules/core/m_sjoin.c:245, modules/core/m_mode.c:192).
THEOREM OpsEarnedHolds == Spec => []OpsEarned
  <1>1. IInv => OpsEarned
    BY IInvImplies
  <1> QED BY <1>1, Inductive, PTL

-----------------------------------------------------------------------------
(* Part two: the two sides of a link.                                      *)

\* The users of e[2]'s side of a link are those of the servers there.
LEMMA BehindIs ==
    ASSUME NEW e \in Edge, NEW C \in SUBSET Server, e[2] \in C,
           \A l \in Links \ {{e[1], e[2]}} : l \cap C # {} => l \subseteq C,
           NEW u \in Behind[e]
    PROVE  u \in User /\ Home[u] \in C
  BY DEF Behind

\* An edge can be taken in both directions, and joins two servers.
LEMMA EdgeFacts ==
    ASSUME NEW s, NEW t, <<s, t>> \in Edge
    PROVE  /\ <<t, s>> \in Edge /\ s \in Server /\ t \in Server /\ s # t
           /\ {s, t} \in Links
           /\ Behind[<<s, t>>] \subseteq User
  <1>1. <<t, s>> \in Edge /\ s \in Server /\ t \in Server /\ {s, t} \in Links
    BY DEF Edge
  <1>2. s # t
    BY TreeAssumption
  <1>3. Behind[<<s, t>>] \subseteq User
    BY DEF Behind
  <1> QED BY <1>1, <1>2, <1>3

\* A side that a link cuts off, with the other end outside.
LEMMA Side ==
    ASSUME NEW s, NEW t, <<s, t>> \in Edge
    PROVE  \E C \in SUBSET Server :
              /\ t \in C /\ s \notin C
              /\ \A l \in Links \ {{s, t}} : l \cap C # {} => l \subseteq C
              /\ \A u \in Behind[<<s, t>>] : u \in User /\ Home[u] \in C
  <1>1. PICK C \in SUBSET Server :
           /\ t \in C /\ s \notin C
           /\ \A l \in Links \ {{s, t}} : l \cap C # {} => l \subseteq C
    BY TreeAssumption
  <1>2. \A u \in Behind[<<s, t>>] : u \in User /\ Home[u] \in C
    BY <1>1, BehindIs
  <1> QED BY <1>1, <1>2

\* The users of s are on no other's side, and on s's side of every link.
LEMMA LocalSide ==
    ASSUME NEW s, NEW t, <<s, t>> \in Edge
    PROVE  /\ Local(s) \cap Behind[<<s, t>>] = {}
           /\ Local(s) \subseteq Behind[<<t, s>>]
  <1>1. Local(s) \cap Behind[<<s, t>>] = {}
    BY Side DEF Local
  <1>2. Local(s) \subseteq Behind[<<t, s>>]
    BY EdgeFacts DEF Local, Behind
  <1> QED BY <1>1, <1>2

\* The two sides of one link have nobody in common.
LEMMA Opposite ==
    ASSUME NEW s, NEW t, <<s, t>> \in Edge
    PROVE  Behind[<<s, t>>] \cap Behind[<<t, s>>] = {}
  <1>1. PICK C \in SUBSET Server :
           /\ t \in C /\ s \notin C
           /\ \A l \in Links \ {{s, t}} : l \cap C # {} => l \subseteq C
           /\ \A u \in Behind[<<s, t>>] : u \in User /\ Home[u] \in C
    BY Side
  <1> DEFINE D == Server \ C
  <1>2. \A l \in Links \ {{t, s}} : l \cap D # {} => l \subseteq D
    BY <1>1, LinkAssumption
  <1>3. s \in D /\ <<t, s>> \in Edge
    BY <1>1, EdgeFacts
  <1>4. \A u \in Behind[<<t, s>>] : Home[u] \in D
    BY <1>2, <1>3, BehindIs
  <1> QED BY <1>1, <1>4

\* What is behind another neighbour of s is on s's side, and not on t's.
LEMMA Beyond ==
    ASSUME NEW s, NEW t, NEW r, <<s, t>> \in Edge, <<s, r>> \in Edge, r # t
    PROVE  /\ Behind[<<s, r>>] \cap Behind[<<s, t>>] = {}
           /\ Behind[<<s, r>>] \subseteq Behind[<<t, s>>]
  <1>1. PICK K \in SUBSET Server :
           /\ r \in K /\ s \notin K
           /\ \A l \in Links \ {{s, r}} : l \cap K # {} => l \subseteq K
           /\ \A u \in Behind[<<s, r>>] : u \in User /\ Home[u] \in K
    BY Side
  <1>2. PICK C \in SUBSET Server :
           /\ t \in C /\ s \notin C
           /\ \A l \in Links \ {{s, t}} : l \cap C # {} => l \subseteq C
           /\ \A u \in Behind[<<s, t>>] : u \in User /\ Home[u] \in C
    BY Side
  <1>3. {s, t} \in Links /\ {s, r} \in Links /\ t \in Server /\ r \in Server
        /\ {s, t} # {s, r}
    BY EdgeFacts
  <1>4. t \notin K
    BY <1>1, <1>3
  <1> DEFINE D == C \ K
  <1>5. ASSUME NEW l \in Links \ {{s, t}}, l \cap D # {} PROVE l \subseteq D
    <2>1. l \subseteq C
      BY <1>2, <1>5
    <2>2. s \notin l
      BY <1>2, <2>1
    <2>3. l # {s, r}
      BY <2>2
    <2>4. l \cap K = {}
      BY <1>1, <1>5, <2>3
    <2> QED BY <2>1, <2>4
  <1>6. t \in D
    BY <1>2, <1>4
  <1>7. \A u \in Behind[<<s, t>>] : Home[u] \in D
    BY <1>5, <1>6, BehindIs
  <1>8. ASSUME NEW u \in Behind[<<s, r>>] PROVE u \in Behind[<<t, s>>]
    <2>1. u \in User /\ <<t, s>> \in Edge
      BY <1>1, EdgeFacts
    <2>2. ASSUME NEW B \in SUBSET Server, s \in B,
                 \A l \in Links \ {{t, s}} : l \cap B # {} => l \subseteq B
          PROVE  Home[u] \in B
      <3> DEFINE E == B \cap K
      <3>1. ASSUME NEW l \in Links \ {{s, r}}, l \cap E # {} PROVE l \subseteq E
        <4>1. l \subseteq K
          BY <1>1, <3>1
        <4>2. l # {t, s}
          BY <1>1, <4>1
        <4> QED BY <2>2, <3>1, <4>1, <4>2
      <3>2. {s, r} \subseteq B
        BY <1>3, <2>2
      <3>3. r \in E
        BY <1>1, <3>2
      <3> QED BY <3>1, <3>3, BehindIs
    <2> QED BY <2>1, <2>2 DEF Behind
  <1> QED BY <1>1, <1>7, <1>8

-----------------------------------------------------------------------------
(* Reading a queue.  The messages of In make something so and those of Out *)
(* undo it; w \in U says whether it is so before the first is read.         *)

\* Is it so after the first n messages of q?
Upto(q, n, In, Out, w, U) ==
    \/ w \in U /\ \A i \in 1..n : q[i] \notin Out
    \/ \E j \in 1..n : q[j] \in In /\ \A i \in (j + 1)..n : q[i] \notin Out

\* A queue with one message more, and without its first.
LEMMA QueueFacts ==
    ASSUME NEW M, NEW q \in Seq(M), NEW m \in M
    PROVE  /\ Len(q) \in Nat
           /\ q \o <<m>> \in Seq(M) /\ Len(q \o <<m>>) = Len(q) + 1
           /\ \A i \in 1..Len(q) : (q \o <<m>>)[i] = q[i] /\ q[i] \in M
           /\ (q \o <<m>>)[Len(q) + 1] = m
           /\ q = <<>> <=> Len(q) = 0
  OBVIOUS

LEMMA TailFacts ==
    ASSUME NEW M, NEW q \in Seq(M), q # <<>>
    PROVE  /\ Len(q) \in Nat /\ Len(q) >= 1
           /\ Head(q) = q[1] /\ Head(q) \in M
           /\ Tail(q) \in Seq(M) /\ Len(Tail(q)) = Len(q) - 1
           /\ \A i \in 1..(Len(q) - 1) : Tail(q)[i] = q[i + 1]
           /\ Tail(q) # <<>> => Len(Tail(q)) >= 1
  OBVIOUS

\* The first n messages are the same when one is added.
LEMMA UptoLonger ==
    ASSUME NEW M, NEW q \in Seq(M), NEW m \in M, NEW n \in 0..Len(q),
           NEW In, NEW Out, NEW w, NEW U
    PROVE  Upto(q \o <<m>>, n, In, Out, w, U) <=> Upto(q, n, In, Out, w, U)
  <1>1. \A i \in 1..n : (q \o <<m>>)[i] = q[i]
    BY QueueFacts
  <1> QED BY <1>1 DEF Upto

\* The last of n + 1 messages has the last word.
LEMMA UptoNext ==
    ASSUME NEW p, NEW q, NEW n \in Nat, \A i \in 1..n : p[i] = q[i],
           NEW In, NEW Out, NEW w, NEW U, In \cap Out = {}
    PROVE  Upto(p, n + 1, In, Out, w, U)
           <=> p[n + 1] \in In \/ (p[n + 1] \notin Out /\ Upto(q, n, In, Out, w, U))
  <1> DEFINE m == p[n + 1]
  <1>1. n + 1 \in 1..(n + 1) /\ \A j \in 1..(n + 1) : j \in 1..n \/ j = n + 1
    OBVIOUS
  <1>2. CASE m \in In
    <2>1. \A i \in (n + 1 + 1)..(n + 1) : p[i] \notin Out
      OBVIOUS
    <2> QED BY <1>1, <1>2, <2>1 DEF Upto
  <1>3. CASE m \notin In /\ m \in Out
    <2>1. \A j \in 1..n : n + 1 \in (j + 1)..(n + 1)
      OBVIOUS
    <2> QED BY <1>1, <1>3, <2>1 DEF Upto
  <1>4. CASE m \notin In /\ m \notin Out
    <2>1. \A i \in 1..n : p[i] \notin Out <=> q[i] \notin Out
      OBVIOUS
    <2>2. (\A i \in 1..(n + 1) : p[i] \notin Out) <=> \A i \in 1..n : q[i] \notin Out
      BY <1>1, <1>4, <2>1
    <2>3. ASSUME NEW j \in 1..n
          PROVE  (\A i \in (j + 1)..(n + 1) : p[i] \notin Out) <=> \A i \in (j + 1)..n : q[i] \notin Out
      <3>1. \A i \in (j + 1)..(n + 1) : i \in (j + 1)..n \/ i = n + 1
        OBVIOUS
      <3>2. \A i \in (j + 1)..n : i \in (j + 1)..(n + 1) /\ p[i] = q[i]
        OBVIOUS
      <3> QED BY <1>4, <3>1, <3>2
    <2>4. (\E j \in 1..(n + 1) : p[j] \in In /\ \A i \in (j + 1)..(n + 1) : p[i] \notin Out)
          <=> \E j \in 1..n : q[j] \in In /\ \A i \in (j + 1)..n : q[i] \notin Out
      BY <1>1, <1>4, <2>3
    <2>5. Upto(p, n + 1, In, Out, w, U) <=> Upto(q, n, In, Out, w, U)
      BY <2>2, <2>4 DEF Upto
    <2> QED BY <1>4, <2>5
  <1> QED BY <1>2, <1>3, <1>4

\* A message that is added.
LEMMA UptoAdded ==
    ASSUME NEW M, NEW q \in Seq(M), NEW m \in M, NEW In, NEW Out, NEW w, NEW U,
           In \cap Out = {}
    PROVE  Upto(q \o <<m>>, Len(q) + 1, In, Out, w, U)
           <=> m \in In \/ (m \notin Out /\ Upto(q, Len(q), In, Out, w, U))
  <1> DEFINE p == q \o <<m>>
             n == Len(q)
  <1>1. n \in Nat /\ p[n + 1] = m /\ \A i \in 1..n : p[i] = q[i]
    BY QueueFacts
  <1> HIDE DEF p, n
  <1>2. Upto(p, n + 1, In, Out, w, U) <=> m \in In \/ (m \notin Out /\ Upto(q, n, In, Out, w, U))
    BY <1>1, UptoNext
  <1> QED BY <1>2 DEF p, n

\* Reading the first message: what it does is no longer a promise.
LEMMA UptoRead ==
    ASSUME NEW M, NEW q \in Seq(M), q # <<>>, NEW n \in 0..(Len(q) - 1),
           NEW In, NEW Out, NEW w, NEW U, NEW V, In \cap Out = {},
           w \in V <=> Head(q) \in In \/ (w \in U /\ Head(q) \notin Out)
    PROVE  Upto(q, n + 1, In, Out, w, U)
           <=> Upto(Tail(q), n, In, Out, w, V)
  <1> DEFINE p == Tail(q)
             h == Head(q)
  <1>1. n \in Nat /\ h = q[1] /\ \A i \in 1..n : p[i] = q[i + 1]
    BY TailFacts
  <1> HIDE DEF p, h
  <1>2. \A i \in 1..(n + 1) : i = 1 \/ (i - 1 \in 1..n /\ q[i] = p[i - 1])
    BY <1>1
  <1>3. \A i \in 1..n : i + 1 \in 1..(n + 1) /\ p[i] = q[i + 1]
    BY <1>1
  <1>4. (\A i \in 1..(n + 1) : q[i] \notin Out) <=> h \notin Out /\ \A i \in 1..n : p[i] \notin Out
    <2>1. 1 \in 1..(n + 1)
      BY <1>1
    <2> QED BY <1>1, <1>2, <1>3, <2>1
  <1>5. ASSUME NEW j \in 1..n
        PROVE  (\A i \in (j + 1)..n : p[i] \notin Out) <=> \A i \in (j + 2)..(n + 1) : q[i] \notin Out
    <2>1. \A i \in (j + 1)..n : i + 1 \in (j + 2)..(n + 1) /\ p[i] = q[i + 1]
      BY <1>1
    <2>2. \A i \in (j + 2)..(n + 1) : i - 1 \in (j + 1)..n /\ q[i] = p[i - 1]
      BY <1>1
    <2> QED BY <2>1, <2>2
  <1>6. (\A i \in 2..(n + 1) : q[i] \notin Out) <=> \A i \in 1..n : p[i] \notin Out
    <2>1. \A i \in 1..n : i + 1 \in 2..(n + 1) /\ p[i] = q[i + 1]
      BY <1>1
    <2>2. \A i \in 2..(n + 1) : i - 1 \in 1..n /\ q[i] = p[i - 1]
      BY <1>1
    <2> QED BY <2>1, <2>2
  <1>7. (\E j \in 1..(n + 1) : q[j] \in In /\ \A i \in (j + 1)..(n + 1) : q[i] \notin Out)
        <=> \/ h \in In /\ \A i \in 1..n : p[i] \notin Out
            \/ \E j \in 1..n : p[j] \in In /\ \A i \in (j + 1)..n : p[i] \notin Out
    <2>1. ASSUME NEW j \in 1..(n + 1), q[j] \in In, \A i \in (j + 1)..(n + 1) : q[i] \notin Out
          PROVE  \/ h \in In /\ \A i \in 1..n : p[i] \notin Out
                 \/ \E k \in 1..n : p[k] \in In /\ \A i \in (k + 1)..n : p[i] \notin Out
      <3>1. CASE j = 1
        BY <1>1, <1>6, <2>1, <3>1
      <3>2. CASE j # 1
        <4>1. j - 1 \in 1..n /\ p[j - 1] \in In /\ (j - 1) + 2 = j + 1
          BY <1>2, <2>1, <3>2
        <4> QED BY <1>5, <2>1, <4>1
      <3> QED BY <3>1, <3>2
    <2>2. ASSUME h \in In, \A i \in 1..n : p[i] \notin Out
          PROVE  \E j \in 1..(n + 1) : q[j] \in In /\ \A i \in (j + 1)..(n + 1) : q[i] \notin Out
      BY <1>1, <1>6, <2>2
    <2>3. ASSUME NEW k \in 1..n, p[k] \in In, \A i \in (k + 1)..n : p[i] \notin Out
          PROVE  \E j \in 1..(n + 1) : q[j] \in In /\ \A i \in (j + 1)..(n + 1) : q[i] \notin Out
      <3>1. k + 1 \in 1..(n + 1) /\ q[k + 1] \in In /\ (k + 1) + 1 = k + 2
        BY <1>3, <2>3
      <3> QED BY <1>5, <2>3, <3>1
    <2> QED BY <2>1, <2>2, <2>3
  <1> QED BY <1>4, <1>7 DEF Upto, p, h

\* With nothing to read it is so if it is so.
LEMMA UptoNothing ==
    ASSUME NEW q, NEW In, NEW Out, NEW w, NEW U
    PROVE  Upto(q, 0, In, Out, w, U) <=> w \in U
  BY DEF Upto

-----------------------------------------------------------------------------
(* What messages do to the clients and the members of their reader.        *)

Introduces(w) == {m \in Message : m.type = "USERS" /\ w \in m.us}

Dismisses(w) == {m \in Message : m.type = "GONE" /\ w \in m.us}

Enters(w) == {m \in Message : \/ m.type = "SJOIN" /\ m.status[w] # "out"
                              \/ m.type = "JOIN" /\ m.u = w}

Leaves(w) == {m \in Message : \/ m.type = "GONE" /\ w \in m.us
                              \/ m.type \in {"PART", "KICK"} /\ m.u = w}

\* The messages that are dropped where w is not known.
Names(w) == {m \in Message : \/ m.type = "SJOIN" /\ m.status[w] # "out"
                             \/ m.type \in {"JOIN", "TMODE"} /\ m.u = w}

\* m is about the clients of one side of a link, and nobody is kicked.
Own(m, side) ==
    /\ m.type \in {"USERS", "GONE"} => m.us \subseteq side
    /\ m.type = "SJOIN" => \A w \in User : m.status[w] # "out" => w \in side
    /\ m.type \in {"JOIN", "TMODE"} => m.u \in side
    /\ m.type = "PART" => m.u \in side /\ m.by = m.u
    /\ m.type # "KICK"

\* The reader of q, which knows U and has the members P, will know w before he is
\* named to it, and does not have him as a member when he enters.
Orderly(q, U, P, w) ==
    \A i \in 1..Len(q) :
        /\ q[i] \in Names(w) => Upto(q, i - 1, Introduces(w), Dismisses(w), w, U)
        /\ q[i] \in Enters(w) => ~Upto(q, i - 1, Enters(w), Leaves(w), w, P)

\* When it has read all of q it agrees on w with its sender, which knows V and has
\* the members Q.
Mirror(q, V, Q, U, P, w) ==
    /\ w \in V <=> Upto(q, Len(q), Introduces(w), Dismisses(w), w, U)
    /\ w \in Q <=> Upto(q, Len(q), Enters(w), Leaves(w), w, P)

\* m makes of the clients U and members P the clients U2 and members P2.
Turns(m, U, P, U2, P2, w) ==
    /\ w \in U2 <=> m \in Introduces(w) \/ (w \in U /\ m \notin Dismisses(w))
    /\ w \in P2 <=> m \in Enters(w) \/ (w \in P /\ m \notin Leaves(w))

\* One message does not introduce and dismiss, or let in and out.
LEMMA OneWay ==
    ASSUME NEW w
    PROVE  Introduces(w) \cap Dismisses(w) = {} /\ Enters(w) \cap Leaves(w) = {}
  BY DEF Introduces, Dismisses, Enters, Leaves

\* The reader takes the first message for what it is.
LEMMA MirrorRead ==
    ASSUME NEW q \in Seq(Message), q # <<>>, NEW w, NEW U, NEW P, NEW U2, NEW P2, NEW V, NEW Q,
           Orderly(q, U, P, w), Turns(Head(q), U, P, U2, P2, w)
    PROVE  /\ Orderly(Tail(q), U2, P2, w)
           /\ Mirror(q, V, Q, U, P, w) => Mirror(Tail(q), V, Q, U2, P2, w)
  <1> DEFINE p == Tail(q)
             In == Introduces(w)
             Out == Dismisses(w)
             In2 == Enters(w)
             Out2 == Leaves(w)
  <1>1. /\ Len(q) \in Nat /\ Len(q) >= 1 /\ Len(p) = Len(q) - 1
        /\ \A i \in 1..(Len(q) - 1) : p[i] = q[i + 1]
    BY TailFacts
  <1>2. ASSUME NEW n \in 0..(Len(q) - 1)
        PROVE  /\ Upto(q, n + 1, In, Out, w, U) <=> Upto(p, n, In, Out, w, U2)
               /\ Upto(q, n + 1, In2, Out2, w, P) <=> Upto(p, n, In2, Out2, w, P2)
    <2>1. /\ w \in U2 <=> Head(q) \in In \/ (w \in U /\ Head(q) \notin Out)
          /\ w \in P2 <=> Head(q) \in In2 \/ (w \in P /\ Head(q) \notin Out2)
      BY DEF Turns
    <2>2. In \cap Out = {} /\ In2 \cap Out2 = {}
      BY OneWay
    <2> HIDE DEF In, Out, In2, Out2, p
    <2>3. Upto(q, n + 1, In, Out, w, U) <=> Upto(p, n, In, Out, w, U2)
      BY <2>1, <2>2, UptoRead DEF p
    <2>4. Upto(q, n + 1, In2, Out2, w, P) <=> Upto(p, n, In2, Out2, w, P2)
      BY <2>1, <2>2, UptoRead DEF p
    <2> QED BY <2>3, <2>4
  <1>3. ASSUME NEW i \in 1..Len(p)
        PROVE  /\ p[i] \in Names(w) => Upto(p, i - 1, In, Out, w, U2)
               /\ p[i] \in Enters(w) => ~Upto(p, i - 1, In2, Out2, w, P2)
    <2>1. i + 1 \in 1..Len(q) /\ p[i] = q[i + 1] /\ i - 1 \in 0..(Len(q) - 1)
          /\ (i + 1) - 1 = (i - 1) + 1
      BY <1>1
    <2> HIDE DEF p
    <2> QED BY <1>2, <2>1 DEF Orderly
  <1>4. Orderly(p, U2, P2, w)
    BY <1>3 DEF Orderly
  <1>5. ASSUME Mirror(q, V, Q, U, P, w) PROVE Mirror(p, V, Q, U2, P2, w)
    <2>1. Len(p) \in 0..(Len(q) - 1) /\ Len(q) = Len(p) + 1
      BY <1>1
    <2> HIDE DEF p
    <2> QED BY <1>2, <1>5, <2>1 DEF Mirror
  <1> QED BY <1>4, <1>5

\* The sender tells of what it does.
LEMMA MirrorSent ==
    ASSUME NEW q \in Seq(Message), NEW m \in Message, NEW w, NEW U, NEW P,
           NEW V, NEW Q, NEW V2, NEW Q2,
           Orderly(q, U, P, w), Mirror(q, V, Q, U, P, w), Turns(m, V, Q, V2, Q2, w),
           m \in Names(w) => w \in V, m \in Enters(w) => w \notin Q
    PROVE  Orderly(q \o <<m>>, U, P, w) /\ Mirror(q \o <<m>>, V2, Q2, U, P, w)
  <1> DEFINE p == q \o <<m>>
             n == Len(q)
             In == Introduces(w)
             Out == Dismisses(w)
             In2 == Enters(w)
             Out2 == Leaves(w)
  <1>1. n \in Nat /\ Len(p) = n + 1 /\ p[n + 1] = m /\ \A i \in 1..n : p[i] = q[i]
    BY QueueFacts
  <1>2. In \cap Out = {} /\ In2 \cap Out2 = {}
    BY OneWay
  <1> HIDE DEF In, Out, In2, Out2
  <1>3. ASSUME NEW i \in 0..n
        PROVE  /\ Upto(p, i, In, Out, w, U) <=> Upto(q, i, In, Out, w, U)
               /\ Upto(p, i, In2, Out2, w, P) <=> Upto(q, i, In2, Out2, w, P)
    BY UptoLonger
  <1>4. /\ Upto(p, n + 1, In, Out, w, U) <=> m \in In \/ (m \notin Out /\ Upto(q, n, In, Out, w, U))
        /\ Upto(p, n + 1, In2, Out2, w, P)
           <=> m \in In2 \/ (m \notin Out2 /\ Upto(q, n, In2, Out2, w, P))
    BY <1>2, UptoAdded
  <1>5. (w \in V <=> Upto(q, n, In, Out, w, U)) /\ (w \in Q <=> Upto(q, n, In2, Out2, w, P))
    BY DEF Mirror, In, Out, In2, Out2
  <1>6. Mirror(p, V2, Q2, U, P, w)
    <2> HIDE DEF p, n
    <2> QED BY <1>1, <1>4, <1>5 DEF Mirror, Turns, In, Out, In2, Out2
  <1>7. ASSUME NEW i \in 1..(n + 1)
        PROVE  /\ p[i] \in Names(w) => Upto(p, i - 1, In, Out, w, U)
               /\ p[i] \in Enters(w) => ~Upto(p, i - 1, In2, Out2, w, P)
    <2>1. i - 1 \in 0..n
      BY <1>1
    <2>2. CASE i \in 1..n
      <3>1. p[i] = q[i]
        BY <1>1, <2>2
      <3>2. /\ q[i] \in Names(w) => Upto(q, i - 1, In, Out, w, U)
            /\ q[i] \in Enters(w) => ~Upto(q, i - 1, In2, Out2, w, P)
        BY <2>2 DEF Orderly, In, Out, In2, Out2
      <3> HIDE DEF p, n
      <3> QED BY <1>3, <2>1, <3>1, <3>2
    <2>3. CASE i = n + 1
      <3>1. p[i] = m /\ i - 1 = n
        BY <1>1, <2>3
      <3> HIDE DEF p, n
      <3> QED BY <1>3, <1>5, <2>1, <3>1
    <2>4. i \in 1..n \/ i = n + 1
      BY <1>1
    <2> QED BY <2>2, <2>3, <2>4
  <1>8. Orderly(p, U, P, w)
    <2> HIDE DEF p, n
    <2> QED BY <1>1, <1>7 DEF Orderly, In, Out, In2, Out2
  <1> QED BY <1>6, <1>8

\* Who has no part in a change of the reader or the sender.
LEMMA MirrorSame ==
    ASSUME NEW q, NEW w, NEW U, NEW P, NEW U2, NEW P2, NEW V, NEW Q, NEW V2, NEW Q2,
           w \in U2 <=> w \in U, w \in P2 <=> w \in P
    PROVE  /\ Orderly(q, U, P, w) <=> Orderly(q, U2, P2, w)
           /\ (w \in V2 <=> w \in V) /\ (w \in Q2 <=> w \in Q) =>
                 (Mirror(q, V, Q, U, P, w) <=> Mirror(q, V2, Q2, U2, P2, w))
  <1>1. \A n, In, Out : /\ Upto(q, n, In, Out, w, U) <=> Upto(q, n, In, Out, w, U2)
                        /\ Upto(q, n, In, Out, w, P) <=> Upto(q, n, In, Out, w, P2)
    BY DEF Upto
  <1>2. Orderly(q, U, P, w) <=> Orderly(q, U2, P2, w)
    BY <1>1 DEF Orderly
  <1>3. (w \in V2 <=> w \in V) /\ (w \in Q2 <=> w \in Q) =>
           (Mirror(q, V, Q, U, P, w) <=> Mirror(q, V2, Q2, U2, P2, w))
    BY <1>1 DEF Mirror
  <1> QED BY <1>2, <1>3

-----------------------------------------------------------------------------
(* The invariant for members.                                              *)

\* Nobody has been kicked or killed.
Gentle == kicks + kills = 0

\* What t does is sent to s.
Live(t, s) == s \in est[t] /\ Open(s, t)

\* A link starts with SERVER: t does not know s's clients when it sends it, and
\* s has sent nothing when it reads it.
Handshake(t, s) ==
    LET q == queue[<<t, s>>] IN
    /\ \A i \in 2..Len(q) : q[i].type # "SERVER"
    /\ q # <<>> /\ t \notin est[s] => q[1].type = "SERVER"
    /\ q # <<>> /\ q[1].type = "SERVER" =>
          /\ t \notin est[s] /\ queue[<<s, t>>] = <<>>
          /\ users[t] \cap Behind[<<t, s>>] = {}

OfItsSide(t, s) ==
    \A i \in 1..Len(queue[<<t, s>>]) : Own(queue[<<t, s>>][i], Behind[<<s, t>>])

\* s will agree with t about the clients of t's side.
Agrees(t, s) ==
    \A w \in Behind[<<s, t>>] :
        /\ Orderly(queue[<<t, s>>], users[s], Members(channel[s]), w)
        /\ Live(t, s) => Mirror(queue[<<t, s>>], users[t], Members(channel[t]),
                                users[s], Members(channel[s]), w)

Flow(t, s) == Handshake(t, s) /\ OfItsSide(t, s) /\ Agrees(t, s)

\* s knows its own clients, and others only through its peers.
Reach(s) ==
    /\ \A t \in est[s] : <<s, t>> \in Edge
    /\ \A u \in users[s] : u \in Local(s) \/ \E t \in est[s] : u \in Behind[<<s, t>>]

AllFlow ==
    /\ \A s \in Server : Reach(s)
    /\ \A e \in Edge : Flow(e[1], e[2])

MInv == Gentle => AllFlow

-----------------------------------------------------------------------------
(* A step of one server.                                                   *)

\* The clients W are on no side but x's, seen from s; W are s's own if x = s.
Apart(s, x, W) ==
    /\ W \subseteq User
    /\ \A y : <<s, y>> \in Edge /\ y # x =>
          W \cap Behind[<<s, y>>] = {} /\ W \subseteq Behind[<<y, s>>]

\* m tells of a change among the clients W.
Tells(m, W, U, P, U2, P2) ==
    /\ m \in Message /\ m.type # "SERVER" /\ Own(m, W)
    /\ \A w \in User : /\ Turns(m, U, P, U2, P2, w)
                       /\ m \in Names(w) => w \in U
                       /\ m \in Enters(w) => w \notin P

\* s sends ms to its peers other than x.
Sends(s, x, ms) ==
    \A e \in Edge : e # <<x, s>> =>
        queue'[e] = IF e[1] = s /\ e[2] # x /\ Live(s, e[2]) THEN queue[e] \o ms ELSE queue[e]

\* s comes to know U and to have the channel c, by itself or by what x has sent,
\* and sends ms to its other peers.
Step(s, x, W, U, c, ms) ==
    /\ Apart(s, x, W)
    /\ users' = [users EXCEPT ![s] = U]
    /\ channel' = [channel EXCEPT ![s] = c]
    /\ \A w \in User \ W : /\ w \in U <=> w \in users[s]
                           /\ w \in Members(c) <=> w \in Members(channel[s])
    /\ \/ ms = <<>> /\ U = users[s] /\ Members(c) = Members(channel[s])
       \/ \E m : ms = <<m>> /\ Tells(m, W, users[s], Members(channel[s]), U, Members(c))
    /\ Sends(s, x, ms)
    /\ \A r \in Server : r # s => est'[r] = est[r]
    /\ \A r \in Server : r # x => (r \in est'[s] <=> r \in est[s])

\* The queues hold messages, and members are known.
LEMMA QueueTyped ==
    ASSUME IInv
    PROVE  /\ \A e \in Edge : queue[e] \in Seq(Message)
           /\ \A s \in Server : /\ users[s] \subseteq User /\ Members(channel[s]) \subseteq users[s]
                                /\ est[s] \subseteq Server
           /\ users \in [Server -> SUBSET User] /\ channel \in [Server -> Channel]
           /\ est \in [Server -> SUBSET Server]
           /\ DOMAIN queue = Edge
  BY IInvImplies DEF TypeOK

\* s's own clients, and those behind a peer.
LEMMA ApartIs ==
    ASSUME NEW s \in Server
    PROVE  /\ Apart(s, s, Local(s))
           /\ \A t : <<s, t>> \in Edge => Apart(s, t, Behind[<<s, t>>])
  <1>1. Apart(s, s, Local(s))
    BY LocalSide DEF Apart, Local
  <1>2. ASSUME NEW t, <<s, t>> \in Edge PROVE Apart(s, t, Behind[<<s, t>>])
    <2>1. Behind[<<s, t>>] \subseteq User
      BY <1>2, EdgeFacts
    <2>2. ASSUME NEW y, <<s, y>> \in Edge, y # t
          PROVE  /\ Behind[<<s, t>>] \cap Behind[<<s, y>>] = {}
                 /\ Behind[<<s, t>>] \subseteq Behind[<<y, s>>]
      BY <1>2, <2>2, Beyond
    <2> QED BY <2>1, <2>2 DEF Apart
  <1> QED BY <1>1, <1>2

\* A link that the step does not touch.
LEMMA ElsewhereFlows ==
    ASSUME IInv, AllFlow, NEW s \in Server, NEW x, NEW W, NEW U, NEW c, NEW ms,
           Step(s, x, W, U, c, ms), NEW y, NEW z, <<y, z>> \in Edge, y # s, z # s
    PROVE  Flow(y, z)'
  <1>1. Flow(y, z) /\ <<z, y>> \in Edge /\ y \in Server /\ z \in Server
    BY EdgeFacts DEF AllFlow
  <1>2. queue'[<<y, z>>] = queue[<<y, z>>] /\ queue'[<<z, y>>] = queue[<<z, y>>]
    BY <1>1 DEF Step, Sends
  <1>3. /\ users'[y] = users[y] /\ users'[z] = users[z]
        /\ channel'[y] = channel[y] /\ channel'[z] = channel[z]
        /\ est'[y] = est[y] /\ est'[z] = est[z]
    BY <1>1, QueueTyped DEF Step, Sends
  <1> QED BY <1>1, <1>2, <1>3 DEF Flow, Handshake, OfItsSide, Agrees, Live, Open

\* What another peer has sent to s.
LEMMA InboundFlows ==
    ASSUME IInv, AllFlow, NEW s \in Server, NEW x, NEW W, NEW U, NEW c, NEW ms,
           Step(s, x, W, U, c, ms), NEW y, <<y, s>> \in Edge, y # x
    PROVE  Flow(y, s)'
  <1>1. Flow(y, s) /\ <<s, y>> \in Edge /\ y \in Server /\ y # s
    BY EdgeFacts DEF AllFlow
  <1>2. /\ queue'[<<y, s>>] = queue[<<y, s>>]
        /\ ~Live(s, y) => queue'[<<s, y>>] = queue[<<s, y>>]
    BY <1>1 DEF Step, Sends
  <1>3. /\ users'[y] = users[y] /\ channel'[y] = channel[y] /\ est'[y] = est[y]
        /\ users'[s] = U /\ channel'[s] = c /\ (y \in est'[s] <=> y \in est[s])
    BY <1>1, QueueTyped DEF Step, Sends
  <1>4. Handshake(y, s)'
    <2>1. y \notin est[s] => ~Live(s, y)
      BY DEF Live
    <2> QED BY <1>1, <1>2, <1>3, <2>1 DEF Flow, Handshake
  <1>5. OfItsSide(y, s)'
    BY <1>1, <1>2 DEF Flow, OfItsSide
  <1>6. Live(y, s)' <=> Live(y, s)
    BY <1>2, <1>3 DEF Live, Open
  <1>7. ASSUME NEW w \in Behind[<<s, y>>]
        PROVE  /\ Orderly(queue'[<<y, s>>], users'[s], Members(channel'[s]), w)
               /\ Live(y, s)' => Mirror(queue'[<<y, s>>], users'[y], Members(channel'[y]),
                                        users'[s], Members(channel'[s]), w)
    <2>1. w \in User /\ w \notin W
      BY <1>1, EdgeFacts DEF Step, Sends, Apart
    <2>2. (w \in U <=> w \in users[s]) /\ (w \in Members(c) <=> w \in Members(channel[s]))
      BY <2>1 DEF Step, Sends
    <2> QED BY <1>1, <1>2, <1>3, <1>6, <2>2, MirrorSame DEF Flow, Agrees
  <1>8. Agrees(y, s)'
    BY <1>7 DEF Agrees
  <1> QED BY <1>4, <1>5, <1>8 DEF Flow

\* What s sends to another peer.
LEMMA OutboundFlows ==
    ASSUME IInv, AllFlow, NEW s \in Server, NEW x, NEW W, NEW U, NEW c, NEW ms,
           Step(s, x, W, U, c, ms), NEW z, <<s, z>> \in Edge, z # x
    PROVE  Flow(s, z)'
  <1> DEFINE q == queue[<<s, z>>]
  <1>1. Flow(s, z) /\ <<z, s>> \in Edge /\ z \in Server /\ z # s
    BY EdgeFacts DEF AllFlow
  <1>2. /\ queue'[<<z, s>>] = queue[<<z, s>>]
        /\ queue'[<<s, z>>] = IF Live(s, z) THEN q \o ms ELSE q
    BY <1>1 DEF Step, Sends
  <1>3. /\ users'[z] = users[z] /\ channel'[z] = channel[z] /\ est'[z] = est[z]
        /\ users'[s] = U /\ channel'[s] = c /\ (z \in est'[s] <=> z \in est[s])
    BY <1>1, QueueTyped DEF Step, Sends
  <1>4. \A w \in Behind[<<s, z>>] : w \in U <=> w \in users[s]
    BY <1>1, EdgeFacts DEF Step, Sends, Apart
  <1>5. q \in Seq(Message)
    BY QueueTyped
  <1>6. CASE ~Live(s, z) \/ ms = <<>>
    <2>1. queue'[<<s, z>>] = q
      BY <1>2, <1>5, <1>6, ConcatEmptySeq
    <2>2. Live(s, z)' <=> Live(s, z)
      BY <1>3, <2>1 DEF Live, Open
    <2>3. Handshake(s, z)'
      BY <1>1, <1>2, <1>3, <1>4, <2>1 DEF Flow, Handshake
    <2>4. OfItsSide(s, z)'
      BY <1>1, <2>1 DEF Flow, OfItsSide
    <2>5. Live(s, z) => users'[s] = users[s] /\ Members(channel'[s]) = Members(channel[s])
      BY <1>3, <1>6 DEF Step, Sends, Tells
    <2>6. Agrees(s, z)'
      BY <1>1, <1>3, <2>1, <2>2, <2>5 DEF Flow, Agrees
    <2> QED BY <2>3, <2>4, <2>6 DEF Flow
  <1>7. CASE Live(s, z) /\ ms # <<>>
    <2>1. PICK m : ms = <<m>> /\ Tells(m, W, users[s], Members(channel[s]), U, Members(c))
      BY <1>7 DEF Step, Sends
    <2> DEFINE p == q \o <<m>>
    <2>2. queue'[<<s, z>>] = p /\ m \in Message /\ m.type # "SERVER" /\ Own(m, W)
      BY <1>2, <1>7, <2>1 DEF Tells
    <2>3. /\ Len(q) \in Nat /\ Len(p) = Len(q) + 1 /\ p # <<>>
          /\ p[Len(q) + 1] = m /\ \A i \in 1..Len(q) : p[i] = q[i]
          /\ q = <<>> <=> Len(q) = 0
      BY <1>5, <2>2, QueueFacts
    <2> HIDE DEF p
    <2>4. \A i \in 1..Len(p) : i \in 1..Len(q) \/ (i = Len(q) + 1 /\ p[i] = m)
      BY <2>3
    <2>5. q = <<>> => s \in est[z]
      BY <1>7 DEF Live, Open
    <2>6. Handshake(s, z)'
      <3>1. \A i \in 2..Len(p) : p[i].type # "SERVER"
        <4>1. ASSUME NEW i \in 2..Len(p) PROVE p[i].type # "SERVER"
          <5>1. CASE i \in 1..Len(q)
            <6>1. i \in 2..Len(q) /\ p[i] = q[i]
              BY <2>3, <4>1, <5>1
            <6> HIDE DEF q
            <6> QED BY <1>1, <6>1 DEF Flow, Handshake, q
          <5>2. CASE i = Len(q) + 1 /\ p[i] = m
            BY <2>2, <5>2
          <5>3. i \in 1..Len(p)
            BY <2>3
          <5> QED BY <2>4, <5>1, <5>2, <5>3
        <4> QED BY <4>1
      <3>2. q # <<>> => p[1] = q[1]
        <4>1. q # <<>> => 1 \in 1..Len(q)
          BY <2>3
        <4> QED BY <2>3, <4>1
      <3>3. q = <<>> => p[1] = m
        BY <2>3
      <3>4. p # <<>> /\ s \notin est[z] => p[1].type = "SERVER"
        BY <1>1, <2>5, <3>2 DEF Flow, Handshake
      <3>5. p[1].type = "SERVER" => /\ s \notin est[z] /\ queue[<<z, s>>] = <<>>
                                    /\ U \cap Behind[<<s, z>>] = {}
        BY <1>1, <1>4, <2>2, <3>2, <3>3 DEF Flow, Handshake
      <3> QED BY <1>2, <1>3, <2>2, <3>1, <3>4, <3>5 DEF Handshake
    <2>7. OfItsSide(s, z)'
      <3>1. W \subseteq Behind[<<z, s>>] /\ Behind[<<z, s>>] \subseteq User
        BY <1>1, EdgeFacts DEF Step, Sends, Apart
      <3>2. Own(m, Behind[<<z, s>>])
        BY <2>2, <3>1 DEF Own
      <3>3. \A i \in 1..Len(p) : Own(p[i], Behind[<<z, s>>])
        BY <1>1, <2>3, <2>4, <3>2 DEF Flow, OfItsSide
      <3> QED BY <2>2, <3>3 DEF OfItsSide
    <2>8. ASSUME NEW w \in Behind[<<z, s>>]
          PROVE  /\ Orderly(p, users[z], Members(channel[z]), w)
                 /\ Mirror(p, U, Members(c), users[z], Members(channel[z]), w)
      <3>1. w \in User
        BY <1>1, EdgeFacts
      <3>2. /\ Orderly(q, users[z], Members(channel[z]), w)
            /\ Mirror(q, users[s], Members(channel[s]), users[z], Members(channel[z]), w)
        BY <1>1, <1>7 DEF Flow, Agrees
      <3>3. /\ Turns(m, users[s], Members(channel[s]), U, Members(c), w)
            /\ m \in Names(w) => w \in users[s]
            /\ m \in Enters(w) => w \notin Members(channel[s])
        BY <2>1, <3>1 DEF Tells
      <3> HIDE DEF q
      <3> QED BY <1>5, <2>2, <3>2, <3>3, MirrorSent DEF p
    <2>9. Agrees(s, z)'
      BY <1>3, <2>2, <2>8 DEF Agrees
    <2> QED BY <2>6, <2>7, <2>9 DEF Flow
  <1> QED BY <1>6, <1>7

\* What s has read from its peer t.
LEMMA ReadFlows ==
    ASSUME IInv, AllFlow, NEW s \in Server, NEW t, NEW U, NEW c,
           <<t, s>> \in Edge, t \in est[s], queue[<<t, s>>] # <<>>,
           queue'[<<t, s>>] = Tail(queue[<<t, s>>]),
           UNCHANGED <<users[t], channel[t], est[t], est[s]>>,
           users'[s] = U, channel'[s] = c,
           \A w \in Behind[<<s, t>>] :
               Turns(Msg(s, t), users[s], Members(channel[s]), U, Members(c), w)
    PROVE  Flow(t, s)'
  <1> DEFINE q == queue[<<t, s>>]
             p == Tail(q)
  <1>1. Flow(t, s)
    BY DEF AllFlow
  <1>2. q \in Seq(Message)
    BY QueueTyped
  <1>3. /\ Len(q) \in Nat /\ Len(p) = Len(q) - 1 /\ \A i \in 1..Len(p) : p[i] = q[i + 1]
        /\ p # <<>> => Len(p) >= 1
    <2>1. q # <<>>
      OBVIOUS
    <2> HIDE DEF q
    <2> QED BY <1>2, <2>1, TailFacts
  <1>4. Head(q) = Msg(s, t)
    BY DEF Msg
  <1> HIDE DEF q, p
  <1>5. \A i \in 1..Len(p) : p[i].type # "SERVER" /\ Own(p[i], Behind[<<s, t>>])
    <2>1. \A i \in 1..Len(p) : i + 1 \in 2..Len(q) /\ i + 1 \in 1..Len(q)
      BY <1>3
    <2> QED BY <1>1, <1>3, <2>1 DEF Flow, Handshake, OfItsSide, q
  <1>6. Handshake(t, s)'
    <2>1. p # <<>> => 1 \in 1..Len(p)
      BY <1>3
    <2>2. \A i \in 2..Len(p) : i \in 1..Len(p)
      BY <1>3
    <2> QED BY <1>5, <2>1, <2>2 DEF Handshake, q, p
  <1>7. OfItsSide(t, s)'
    BY <1>5 DEF OfItsSide, p, q
  <1>8. Live(t, s)' => Live(t, s)
    BY DEF Live, Open
  <1>9. ASSUME NEW w \in Behind[<<s, t>>]
        PROVE  /\ Orderly(p, U, Members(c), w)
               /\ Live(t, s) => Mirror(p, users[t], Members(channel[t]), U, Members(c), w)
    <2>1. /\ Orderly(q, users[s], Members(channel[s]), w)
          /\ Live(t, s) => Mirror(q, users[t], Members(channel[t]), users[s],
                                  Members(channel[s]), w)
      BY <1>1 DEF Flow, Agrees, q
    <2>2. q # <<>> /\ Turns(Head(q), users[s], Members(channel[s]), U, Members(c), w)
      BY <1>4 DEF q
    <2> QED BY <1>2, <2>1, <2>2, MirrorRead DEF p
  <1>10. Agrees(t, s)'
    BY <1>8, <1>9 DEF Agrees, p, q
  <1> QED BY <1>6, <1>7, <1>10 DEF Flow

\* What s sends to the peer x that has made it take the step: nothing.
LEMMA BackFlows ==
    ASSUME IInv, AllFlow, NEW s \in Server, NEW x, NEW U, NEW c, NEW ms,
           <<s, x>> \in Edge, Step(s, x, Behind[<<s, x>>], U, c, ms),
           queue[<<x, s>>] # <<>> \/ (queue'[<<x, s>>] = <<>> /\ U \subseteq users[s]),
           x \in est'[s] => x \in est[s]
    PROVE  Flow(s, x)'
  <1> DEFINE W == Behind[<<s, x>>]
             q == queue[<<s, x>>]
  <1>1. Flow(s, x) /\ <<x, s>> \in Edge /\ x \in Server /\ x # s /\ <<s, x>> # <<x, s>>
    BY EdgeFacts DEF AllFlow
  <1>2. queue'[<<s, x>>] = q
    BY <1>1 DEF Step, Sends
  <1>3. /\ users'[x] = users[x] /\ channel'[x] = channel[x] /\ est'[x] = est[x]
        /\ users'[s] = U /\ channel'[s] = c
    BY <1>1, QueueTyped DEF Step, Sends
  <1>4. Live(s, x)' => Live(s, x)
    BY <1>2, <1>3 DEF Live, Open
  <1>5. Handshake(s, x)'
    <2>1. ASSUME q # <<>>, q[1].type = "SERVER"
          PROVE  queue'[<<x, s>>] = <<>> /\ U \cap Behind[<<s, x>>] = {}
      <3>1. queue[<<x, s>>] = <<>> /\ users[s] \cap Behind[<<s, x>>] = {}
        BY <1>1, <2>1 DEF Flow, Handshake
      <3> QED BY <3>1
    <2> QED BY <1>1, <1>2, <1>3, <2>1 DEF Flow, Handshake
  <1>6. OfItsSide(s, x)'
    BY <1>1, <1>2 DEF Flow, OfItsSide
  <1>7. ASSUME NEW w \in Behind[<<x, s>>]
        PROVE  /\ Orderly(q, users[x], Members(channel[x]), w)
               /\ Live(s, x) => Mirror(q, U, Members(c), users[x], Members(channel[x]), w)
    <2>1. w \in User /\ w \notin W
      BY <1>1, EdgeFacts, Opposite
    <2>2. (w \in U <=> w \in users[s]) /\ (w \in Members(c) <=> w \in Members(channel[s]))
      BY <2>1 DEF Step, Sends
    <2>3. /\ Orderly(q, users[x], Members(channel[x]), w)
          /\ Live(s, x) => Mirror(q, users[s], Members(channel[s]), users[x],
                                  Members(channel[x]), w)
      BY <1>1 DEF Flow, Agrees
    <2> QED BY <2>2, <2>3, MirrorSame
  <1>8. Agrees(s, x)'
    BY <1>2, <1>3, <1>4, <1>7 DEF Agrees
  <1> QED BY <1>5, <1>6, <1>8 DEF Flow

\* What a server knows of.
LEMMA ReachStays ==
    ASSUME IInv, IInv', AllFlow, NEW s \in Server, NEW x, NEW W, NEW U, NEW c, NEW ms,
           Step(s, x, W, U, c, ms), x \in est'[s] => x \in est[s],
           \A u \in U : u \in W => u \in Local(s) \/ (x \in est'[s] /\ u \in Behind[<<s, x>>]),
           \A u \in U : x \notin est'[s] => u \notin Behind[<<s, x>>] \/ x = s
    PROVE  \A r \in Server : Reach(r)'
  <1>1. ASSUME NEW r \in Server, r # s PROVE Reach(r)'
    <2>1. Reach(r) /\ users'[r] = users[r] /\ est'[r] = est[r]
      BY <1>1, QueueTyped DEF AllFlow, Step
    <2> QED BY <2>1 DEF Reach, Local
  <1>2. Reach(s)'
    <2>1. /\ Reach(s) /\ users'[s] = U /\ est[s] \subseteq Server
          /\ est'[s] \subseteq Server /\ U \subseteq User
      <3>1. users'[s] = U
        BY QueueTyped DEF Step, Sends
      <3>2. est'[s] \subseteq Server /\ U \subseteq User
        BY <3>1 DEF IInv
      <3> QED BY <3>1, <3>2, QueueTyped DEF AllFlow
    <2>2. ASSUME NEW u \in U
          PROVE  u \in Local(s) \/ \E t \in est'[s] : u \in Behind[<<s, t>>]
      <3>1. CASE u \in W
        BY <2>2, <3>1
      <3>2. CASE u \notin W
        <4>1. u \in users[s]
          BY <2>1, <2>2, <3>2 DEF Step, Sends
        <4>2. CASE u \notin Local(s)
          <5>1. PICK t \in est[s] : <<s, t>> \in Edge /\ u \in Behind[<<s, t>>]
            BY <2>1, <4>1, <4>2 DEF Reach
          <5>2. t \in Server /\ t # s
            BY <5>1, EdgeFacts
          <5>3. t \in est'[s]
            BY <2>2, <5>1, <5>2 DEF Step, Sends
          <5> QED BY <5>1, <5>3
        <4> QED BY <4>2
      <3> QED BY <3>1, <3>2
    <2>3. \A t \in est'[s] : <<s, t>> \in Edge
      <3>1. \A t \in est'[s] : t \in est[s]
        BY <2>1 DEF Step, Sends
      <3> QED BY <2>1, <3>1 DEF Reach
    <2> QED BY <2>1, <2>2, <2>3 DEF Reach, Local
  <1> QED BY <1>1, <1>2

\* An event of s's own, told to all its peers.
LEMMA DoneFlows ==
    ASSUME IInv, IInv', AllFlow, NEW s \in Server, NEW c, NEW m, Do(s, c, <<m>>),
           UNCHANGED <<users, est>>,
           Tells(m, Local(s), users[s], Members(channel[s]), users[s], Members(c)),
           \A w \in User \ Local(s) : w \in Members(c) <=> w \in Members(channel[s])
    PROVE  AllFlow'
  <1>1. Step(s, s, Local(s), users[s], c, <<m>>)
    <2>1. /\ channel' = [channel EXCEPT ![s] = c] /\ users' = [users EXCEPT ![s] = users[s]]
          /\ queue' = Transmit(s, s, queue, <<m>>)
      BY QueueTyped DEF Do
    <2>2. \A e \in Edge : queue'[e] = IF e[1] = s /\ e[2] # s /\ Live(s, e[2])
                                      THEN queue[e] \o <<m>> ELSE queue[e]
      BY <2>1 DEF Transmit, Live
    <2>3. Apart(s, s, Local(s))
      BY ApartIs
    <2> QED BY <2>1, <2>2, <2>3 DEF Step, Sends
  <1>2. ASSUME NEW y, NEW z, <<y, z>> \in Edge PROVE Flow(y, z)'
    <2>1. y # z
      BY <1>2, EdgeFacts
    <2> QED BY <1>1, <1>2, <2>1, ElsewhereFlows, InboundFlows, OutboundFlows
  <1>3. \A r \in Server : Reach(r)'
    BY <1>1, ReachStays
  <1>4. \A e \in Edge : Flow(e[1], e[2])'
    BY <1>2 DEF Edge
  <1> QED BY <1>3, <1>4 DEF AllFlow

\* A message of t that s has handled.
LEMMA HandledFlows ==
    ASSUME IInv, IInv', AllFlow, NEW s \in Server, NEW t,
           <<t, s>> \in Edge, t \in est[s], queue[<<t, s>>] # <<>>,
           NEW U, NEW c, NEW ms, Handle(s, t, c, ms),
           users' = [users EXCEPT ![s] = U], UNCHANGED est,
           \A w \in User \ Behind[<<s, t>>] : /\ w \in U <=> w \in users[s]
                                              /\ w \in Members(c) <=> w \in Members(channel[s]),
           \/ ms = <<>> /\ U = users[s] /\ Members(c) = Members(channel[s])
           \/ \E m : ms = <<m>> /\ Tells(m, Behind[<<s, t>>], users[s], Members(channel[s]),
                                         U, Members(c)),
           \A w \in Behind[<<s, t>>] :
               Turns(Msg(s, t), users[s], Members(channel[s]), U, Members(c), w)
    PROVE  AllFlow'
  <1> DEFINE rest == [queue EXCEPT ![<<t, s>>] = Tail(@)]
  <1>1. <<s, t>> \in Edge /\ t \in Server /\ t # s /\ <<s, t>> # <<t, s>>
    BY EdgeFacts
  <1>2. channel' = [channel EXCEPT ![s] = c] /\ queue' = Transmit(s, t, rest, ms)
    BY DEF Handle
  <1>3. \A e \in Edge : rest[e] = IF e = <<t, s>> THEN Tail(queue[<<t, s>>]) ELSE queue[e]
    BY QueueTyped
  <1> HIDE DEF rest
  <1>4. Step(s, t, Behind[<<s, t>>], U, c, ms)
    <2>1. \A e \in Edge : e # <<t, s>> =>
             queue'[e] = IF e[1] = s /\ e[2] # t /\ Live(s, e[2]) THEN queue[e] \o ms ELSE queue[e]
      BY <1>2, <1>3 DEF Transmit, Live
    <2>2. Apart(s, t, Behind[<<s, t>>])
      BY <1>1, ApartIs
    <2> QED BY <1>2, <2>1, <2>2 DEF Step, Sends
  <1>5. queue'[<<t, s>>] = Tail(queue[<<t, s>>])
    BY <1>1, <1>2, <1>3 DEF Transmit
  <1>6. Flow(t, s)'
    <2>1. users'[s] = U /\ channel'[s] = c /\ UNCHANGED <<users[t], channel[t], est[t], est[s]>>
      BY <1>1, <1>2, QueueTyped
    <2> QED BY <1>5, <2>1, ReadFlows
  <1>7. Flow(s, t)'
    BY <1>1, <1>4, BackFlows
  <1>8. ASSUME NEW y, NEW z, <<y, z>> \in Edge PROVE Flow(y, z)'
    <2>1. CASE y # s /\ z # s
      BY <1>4, <1>8, <2>1, ElsewhereFlows
    <2>2. CASE y = s
      BY <1>4, <1>7, <1>8, <2>2, OutboundFlows
    <2>3. CASE z = s
      BY <1>4, <1>6, <1>8, <2>3, InboundFlows
    <2> QED BY <2>1, <2>2, <2>3
  <1>9. \A r \in Server : Reach(r)'
    BY <1>4, ReachStays
  <1>10. \A e \in Edge : Flow(e[1], e[2])'
    BY <1>8 DEF Edge
  <1> QED BY <1>9, <1>10 DEF AllFlow

-----------------------------------------------------------------------------
(* What clients do.                                                        *)

LEMMA CreateFlows ==
    ASSUME IInv, IInv', AllFlow, NEW u \in User, Create(u)
    PROVE  AllFlow'
  <1> DEFINE s == Home[u]
             st == [NoChannel.status EXCEPT ![u] = "op"]
             c == [ts |-> now, modes |-> Created, bans |-> {}, status |-> st]
             m == [type |-> "SJOIN", ts |-> now, modes |-> Created, zero |-> FALSE, status |-> st]
  <1>1. /\ u \in users[s] /\ ~Exists(channel[s]) /\ Do(s, c, <<m>>) /\ UNCHANGED <<users, est>>
    BY DEF Create
  <1>2. s \in Server /\ now \in Nat /\ u \in Local(s)
    BY AtServer DEF IInv, Local
  <1>3. /\ st \in [User -> {"out", "in", "op"}] /\ st[u] = "op"
        /\ \A v \in User : v # u => st[v] = "out"
    BY DEF NoChannel
  <1>4. Members(channel[s]) = {} /\ Members(c) = {u}
    BY <1>1, <1>3 DEF Exists, Members
  <1>5. m \in Message
    BY <1>2, <1>3 DEF Message, Flag
  <1> HIDE DEF st
  <1>6. \A w \in User : m \in Enters(w) <=> w = u
    BY <1>3, <1>5 DEF Enters
  <1>7. \A w : (m \in Names(w) <=> m \in Enters(w)) /\ m \notin Introduces(w) /\ m \notin Dismisses(w)
    BY <1>5 DEF Names, Enters, Introduces, Dismisses
  <1>8. Own(m, Local(s)) /\ m.type # "SERVER"
    BY <1>2, <1>3 DEF Own
  <1> HIDE DEF m, c
  <1>9. Tells(m, Local(s), users[s], Members(channel[s]), users[s], Members(c))
    BY <1>1, <1>4, <1>5, <1>6, <1>7, <1>8 DEF Tells, Turns
  <1> QED BY <1>1, <1>2, <1>4, <1>9, DoneFlows

LEMMA JoinFlows ==
    ASSUME IInv, IInv', AllFlow, NEW u \in User, Join(u)
    PROVE  AllFlow'
  <1> DEFINE s == Home[u]
             c == channel[s]
             d == [c EXCEPT !.status[u] = "in"]
             m == [type |-> "JOIN", u |-> u, ts |-> c.ts, modes |-> c.modes]
  <1>1. u \in users[s] /\ c.status[u] = "out" /\ Do(s, d, <<m>>) /\ UNCHANGED <<users, est>>
    BY DEF Join
  <1>2. s \in Server /\ u \in Local(s) /\ c \in Channel
    BY AtServer DEF Local
  <1>3. Members(d) = Members(c) \cup {u} /\ u \notin Members(c)
    BY <1>1, <1>2 DEF Members, Channel
  <1>4. m \in Message
    BY <1>2 DEF Message, Channel
  <1>5. \A w \in User : /\ (m \in Enters(w) <=> w = u) /\ (m \in Names(w) <=> w = u)
                        /\ m \notin Introduces(w) /\ m \notin Dismisses(w) /\ m \notin Leaves(w)
    BY <1>4 DEF Enters, Names, Introduces, Dismisses, Leaves
  <1>6. Own(m, Local(s)) /\ m.type # "SERVER"
    BY <1>2 DEF Own
  <1> HIDE DEF m, d
  <1>7. Tells(m, Local(s), users[s], Members(c), users[s], Members(d))
    BY <1>1, <1>3, <1>4, <1>5, <1>6 DEF Tells, Turns
  <1>8. \A w \in User \ Local(s) : w \in Members(d) <=> w \in Members(c)
    BY <1>2, <1>3
  <1> QED BY <1>1, <1>2, <1>7, <1>8, DoneFlows

\* Who is a member when some have gone.
LEMMA RemoveMembers ==
    ASSUME NEW c \in Channel, NEW gone
    PROVE  Members(Remove(c, gone)) = Members(c) \ gone
  <1> DEFINE st == [u \in User |-> IF u \in gone THEN "out" ELSE c.status[u]]
             d == [ts |-> c.ts, modes |-> c.modes, bans |-> c.bans, status |-> st]
  <1>1. Remove(c, gone) = Settle(d)
    BY DEF Remove, Channel
  <1>2. Members(d) = Members(c) \ gone
    BY DEF Members
  <1>3. Members(NoChannel) = {}
    BY DEF Members, NoChannel
  <1> HIDE DEF d
  <1> QED BY <1>1, <1>2, <1>3 DEF Settle, Exists

LEMMA PartFlows ==
    ASSUME IInv, IInv', AllFlow, NEW u \in User, Part(u)
    PROVE  AllFlow'
  <1> DEFINE s == Home[u]
             c == channel[s]
             d == Remove(c, {u})
             m == [type |-> "PART", u |-> u, by |-> u]
  <1>1. Do(s, d, <<m>>) /\ UNCHANGED <<users, est>>
    BY DEF Part
  <1>2. s \in Server /\ u \in Local(s) /\ c \in Channel
    BY AtServer DEF Local
  <1>3. Members(d) = Members(c) \ {u}
    BY <1>2, RemoveMembers
  <1>4. m \in Message
    BY DEF Message
  <1>5. \A w \in User : /\ (m \in Leaves(w) <=> w = u) /\ m \notin Enters(w) /\ m \notin Names(w)
                        /\ m \notin Introduces(w) /\ m \notin Dismisses(w)
    BY <1>4 DEF Enters, Names, Introduces, Dismisses, Leaves
  <1>6. Own(m, Local(s)) /\ m.type # "SERVER"
    BY <1>2 DEF Own
  <1> HIDE DEF m, d
  <1>7. Tells(m, Local(s), users[s], Members(c), users[s], Members(d))
    BY <1>3, <1>4, <1>5, <1>6 DEF Tells, Turns
  <1>8. \A w \in User \ Local(s) : w \in Members(d) <=> w \in Members(c)
    BY <1>2, <1>3
  <1> QED BY <1>1, <1>2, <1>7, <1>8, DoneFlows

\* A mode change lets nobody in or out.
LEMMA ApplyMembers ==
    ASSUME NEW c \in Channel, NEW h \in Change
    PROVE  Members(Apply(c, h)) = Members(c)
  <1>1. c.status \in [User -> Status]
    BY DEF Channel
  <1>2. CASE h.kind = "op"
    <2> DEFINE a == h.arg
               old == c.status[a]
               new == IF old = "out" \/ (old = "deop" /\ h.dir = "-") THEN old
                      ELSE IF h.dir = "+" THEN "op" ELSE "in"
    <2>1. Apply(c, h) = [ts |-> c.ts, modes |-> c.modes, bans |-> c.bans,
                         status |-> [c.status EXCEPT ![a] = new]]
      BY <1>1, <1>2 DEF Apply, Channel
    <2>2. new = "out" <=> old = "out"
      OBVIOUS
    <2> QED BY <1>1, <2>1, <2>2 DEF Members
  <1>3. CASE h.kind \in {"ban", "mode"}
    BY <1>3 DEF Apply, Members, Channel
  <1> QED BY <1>2, <1>3, ChangeAssumption

LEMMA ModeFlows ==
    ASSUME IInv, IInv', AllFlow, NEW o \in User, NEW h \in Change, Mode(o, h)
    PROVE  AllFlow'
  <1> DEFINE s == Home[o]
             c == channel[s]
             d == Apply(c, h)
             m == [type |-> "TMODE", u |-> o, ts |-> c.ts, change |-> h]
  <1>1. c.status[o] = "op" /\ Do(s, d, <<m>>) /\ UNCHANGED <<users, est>>
    BY DEF Mode
  <1>2. s \in Server /\ o \in Local(s) /\ c \in Channel
    BY AtServer DEF Local
  <1>3. Members(d) = Members(c) /\ o \in users[s]
    <2>1. o \in Members(c)
      BY <1>1 DEF Members
    <2> QED BY <1>2, <2>1, ApplyMembers, QueueTyped
  <1>4. m \in Message
    BY <1>2 DEF Message, Channel
  <1>5. \A w \in User : /\ (m \in Names(w) <=> w = o) /\ m \notin Enters(w) /\ m \notin Leaves(w)
                        /\ m \notin Introduces(w) /\ m \notin Dismisses(w)
    BY <1>4 DEF Enters, Names, Introduces, Dismisses, Leaves
  <1>6. Own(m, Local(s)) /\ m.type # "SERVER"
    BY <1>2 DEF Own
  <1> HIDE DEF m, d
  <1>7. Tells(m, Local(s), users[s], Members(c), users[s], Members(d))
    BY <1>3, <1>4, <1>5, <1>6 DEF Tells, Turns
  <1> QED BY <1>1, <1>2, <1>3, <1>7, DoneFlows

-----------------------------------------------------------------------------
(* Messages from a peer.                                                   *)

\* The first message is about t's side, names clients that s knows, and lets in
\* such as are not members.
LEMMA HeadFits ==
    ASSUME IInv, AllFlow, NEW s \in Server, NEW t, NEW type, First(s, t, type)
    PROVE  LET m == Msg(s, t)
               side == Behind[<<s, t>>] IN
           /\ <<t, s>> \in Edge /\ <<s, t>> \in Edge /\ t \in est[s] /\ t \in Server
           /\ queue[<<t, s>>] # <<>>
           /\ m \in Message /\ m.type = type /\ Own(m, side) /\ side \subseteq User
           /\ \A w \in side : /\ m \in Names(w) => w \in users[s]
                              /\ m \in Enters(w) => w \notin Members(channel[s])
  <1> DEFINE q == queue[<<t, s>>]
             m == Msg(s, t)
             side == Behind[<<s, t>>]
  <1>1. <<t, s>> \in Edge /\ t \in est[s] /\ q # <<>> /\ m = Head(q) /\ m.type = type
    BY DEF First, Msg
  <1>2. <<s, t>> \in Edge /\ t \in Server /\ side \subseteq User
    BY <1>1, EdgeFacts
  <1>3. q \in Seq(Message) /\ Flow(t, s)
    BY <1>1, QueueTyped DEF AllFlow
  <1> HIDE DEF q, m
  <1>4. m \in Message /\ m = q[1] /\ 1 \in 1..Len(q)
    BY <1>1, <1>3, TailFacts
  <1>5. Own(m, side)
    BY <1>3, <1>4 DEF Flow, OfItsSide, q
  <1>6. ASSUME NEW w \in side
        PROVE  /\ m \in Names(w) => w \in users[s]
               /\ m \in Enters(w) => w \notin Members(channel[s])
    <2>1. Orderly(q, users[s], Members(channel[s]), w)
      BY <1>3 DEF Flow, Agrees, q
    <2>2. /\ q[1] \in Names(w) => Upto(q, 1 - 1, Introduces(w), Dismisses(w), w, users[s])
          /\ q[1] \in Enters(w) => ~Upto(q, 1 - 1, Enters(w), Leaves(w), w, Members(channel[s]))
      BY <1>4, <2>1 DEF Orderly
    <2>3. 1 - 1 = 0
      OBVIOUS
    <2> QED BY <1>4, <2>2, <2>3, UptoNothing
  <1> QED BY <1>1, <1>2, <1>4, <1>5, <1>6 DEF q, m

\* What an SJOIN adds.
LEMMA SjoinHead ==
    ASSUME IInv, AllFlow, NEW s \in Server, NEW t, First(s, t, "SJOIN")
    PROVE  LET m == Msg(s, t)
               in == {u \in User : m.status[u] # "out"} IN
           /\ m.ts \in Nat /\ m.modes \in SUBSET Flag /\ m.zero \in BOOLEAN
           /\ m.status \in [User -> {"out", "in", "op"}]
           /\ in \subseteq Behind[<<s, t>>] /\ in \subseteq users[s]
           /\ in \cap Members(channel[s]) = {}
           /\ {u \in users[s] \cap Behind[<<s, t>>] : m.status[u] # "out"} = in
           /\ in \ Members(channel[s]) = in
           /\ \A w : m \in Enters(w) <=> m.status[w] # "out"
           /\ \A w : m \notin Introduces(w) /\ m \notin Dismisses(w) /\ m \notin Leaves(w)
  <1> DEFINE m == Msg(s, t)
             in == {u \in User : m.status[u] # "out"}
  <1>1. /\ m \in Message /\ m.type = "SJOIN" /\ Own(m, Behind[<<s, t>>])
        /\ \A w \in Behind[<<s, t>>] : /\ m \in Names(w) => w \in users[s]
                                       /\ m \in Enters(w) => w \notin Members(channel[s])
    BY HeadFits
  <1> HIDE DEF m
  <1>2. /\ m.ts \in Nat /\ m.modes \in SUBSET Flag /\ m.zero \in BOOLEAN
        /\ m.status \in [User -> {"out", "in", "op"}]
    BY <1>1, ReadMessages
  <1>3. \A w : /\ m \in Enters(w) <=> m.status[w] # "out"
               /\ m \in Names(w) <=> m.status[w] # "out"
               /\ m \notin Introduces(w) /\ m \notin Dismisses(w) /\ m \notin Leaves(w)
    BY <1>1 DEF Enters, Names, Introduces, Dismisses, Leaves
  <1>4. in \subseteq Behind[<<s, t>>]
    BY <1>1 DEF Own
  <1>5. in \subseteq users[s] /\ in \cap Members(channel[s]) = {}
    BY <1>1, <1>3, <1>4
  <1>6. {u \in users[s] \cap Behind[<<s, t>>] : m.status[u] # "out"} = in
    BY <1>4, <1>5, QueueTyped
  <1> QED BY <1>2, <1>3, <1>4, <1>5, <1>6 DEF m

\* What ms_sjoin makes of the channel c, and what it sends on, when the clients
\* `in' join.
SjoinChannel(c, m, in) ==
    [ts |-> Merge(c, m.ts, m.modes).ts, modes |-> Merge(c, m.ts, m.modes).modes,
     bans |-> BansAfter(c, m.ts),
     status |-> [u \in User |->
         IF u \in in THEN IF KeepNewModes(c, m.ts) THEN m.status[u]
                          ELSE IF m.status[u] = "op" THEN "deop" ELSE "in"
         ELSE Merge(c, m.ts, m.modes).status[u]]]

SjoinRelay(c, m, in) ==
    [type |-> "SJOIN", ts |-> Merge(c, m.ts, m.modes).ts,
     modes |-> IF m.zero \/ ~KeepNewModes(c, m.ts) THEN {} ELSE Merge(c, m.ts, m.modes).modes,
     zero |-> m.zero \/ ~KeepNewModes(c, m.ts),
     status |-> [u \in User |-> IF u \notin in THEN "out"
                                ELSE IF KeepNewModes(c, m.ts) THEN m.status[u] ELSE "in"]]

LEMMA SjoinIs ==
    ASSUME IInv, AllFlow, NEW s \in Server, NEW t, MsSjoin(s, t)
    PROVE  LET m == Msg(s, t)
               c == channel[s]
               in == {u \in User : m.status[u] # "out"} IN
           /\ First(s, t, "SJOIN") /\ Steady /\ UNCHANGED users
           /\ \/ in = {} /\ Handle(s, t, Settle(Merge(c, m.ts, m.modes)), <<>>)
              \/ in # {} /\ Handle(s, t, SjoinChannel(c, m, in), <<SjoinRelay(c, m, in)>>)
  <1>1. First(s, t, "SJOIN")
    BY DEF MsSjoin
  <1> DEFINE m == Msg(s, t)
             c == channel[s]
             in == {u \in User : m.status[u] # "out"}
  <1>2. {u \in users[s] \cap Behind[<<s, t>>] : m.status[u] # "out"} = in /\ in \ Members(c) = in
        /\ m.status \in [User -> {"out", "in", "op"}]
    BY <1>1, SjoinHead
  <1> DEFINE newModes == KeepNewModes(c, m.ts)
             given == [u \in User |-> IF newModes THEN m.status[u]
                                      ELSE IF m.status[u] = "op" THEN "deop" ELSE "in"]
             merged == Merge(c, m.ts, m.modes)
             zero == m.zero \/ ~newModes
             st == [u \in User |-> IF u \in in THEN given[u] ELSE merged.status[u]]
             st2 == [u \in User |-> IF u \notin in THEN "out"
                                    ELSE IF newModes THEN m.status[u] ELSE "in"]
             d == [ts |-> merged.ts, modes |-> merged.modes, bans |-> BansAfter(c, m.ts),
                   status |-> st]
             relay == [type |-> "SJOIN", ts |-> merged.ts,
                       modes |-> IF zero THEN {} ELSE merged.modes, zero |-> zero,
                       status |-> st2]
  <1>3. /\ \/ in = {} /\ Handle(s, t, Settle(merged), <<>>)
           \/ in # {} /\ Handle(s, t, d, <<relay>>)
        /\ Steady /\ UNCHANGED users
    BY <1>2 DEF MsSjoin
  <1>4. st = [u \in User |->
                 IF u \in in THEN IF newModes THEN m.status[u]
                                  ELSE IF m.status[u] = "op" THEN "deop" ELSE "in"
                 ELSE merged.status[u]]
    OBVIOUS
  <1>5. d = SjoinChannel(c, m, in)
    BY <1>4 DEF SjoinChannel
  <1>6. relay = SjoinRelay(c, m, in)
    BY DEF SjoinRelay
  <1> QED BY <1>1, <1>3, <1>5, <1>6

\* Members stay when an SJOIN or a JOIN is merged.
LEMMA MergeMembers ==
    ASSUME NEW c \in Channel, NEW ts, NEW modes
    PROVE  /\ Members(Merge(c, ts, modes)) = Members(c)
           /\ \A u \in User : Merge(c, ts, modes).status[u] # "out" <=> u \in Members(c)
           /\ Members(Settle(Merge(c, ts, modes))) = Members(c)
  <1> DEFINE d == Merge(c, ts, modes)
  <1>1. \A u \in User : d.status[u] # "out" <=> u \in Members(c)
    BY DEF Merge, Members
  <1>2. Members(d) = Members(c)
    BY <1>1 DEF Members
  <1>3. Members(NoChannel) = {}
    BY DEF Members, NoChannel
  <1>4. Members(Settle(d)) = Members(c)
    BY <1>2, <1>3 DEF Settle, Exists
  <1> QED BY <1>1, <1>2, <1>4

LEMMA SjoinFlows ==
    ASSUME IInv, IInv', AllFlow, NEW s \in Server, NEW t, MsSjoin(s, t)
    PROVE  AllFlow'
  <1> DEFINE m == Msg(s, t)
             c == channel[s]
             in == {u \in User : m.status[u] # "out"}
             side == Behind[<<s, t>>]
  <1>1. /\ First(s, t, "SJOIN") /\ UNCHANGED est /\ users' = [users EXCEPT ![s] = users[s]]
        /\ \/ in = {} /\ Handle(s, t, Settle(Merge(c, m.ts, m.modes)), <<>>)
           \/ in # {} /\ Handle(s, t, SjoinChannel(c, m, in), <<SjoinRelay(c, m, in)>>)
    BY SjoinIs, QueueTyped DEF Steady
  <1>2. <<t, s>> \in Edge /\ t \in est[s] /\ queue[<<t, s>>] # <<>> /\ side \subseteq User
    BY <1>1, HeadFits
  <1>3. /\ m.ts \in Nat /\ m.modes \in SUBSET Flag /\ m.status \in [User -> {"out", "in", "op"}]
        /\ m.zero \in BOOLEAN
        /\ in \subseteq side /\ in \subseteq users[s] /\ in \cap Members(c) = {}
        /\ \A w : m \in Enters(w) <=> m.status[w] # "out"
        /\ \A w : m \notin Introduces(w) /\ m \notin Dismisses(w) /\ m \notin Leaves(w)
    BY <1>1, SjoinHead
  <1>4. c \in Channel /\ Sound(granted, users[s], c)
    BY AtServer
  <1>5. \A w \in side : m \in Enters(w) <=> w \in in
    BY <1>2, <1>3
  <1> HIDE DEF m, in
  <1>6. CASE in = {} /\ Handle(s, t, Settle(Merge(c, m.ts, m.modes)), <<>>)
    <2> DEFINE d == Settle(Merge(c, m.ts, m.modes))
    <2>1. Members(d) = Members(c)
      BY <1>4, MergeMembers
    <2> HIDE DEF d, side
    <2>2. \A w \in side : Turns(m, users[s], Members(c), users[s], Members(d), w)
      BY <1>3, <1>5, <1>6, <2>1 DEF Turns
    <2>3. Handle(s, t, d, <<>>)
      BY <1>6 DEF d
    <2> QED BY <1>1, <1>2, <2>1, <2>2, <2>3, HandledFlows DEF side, m
  <1>7. CASE in # {} /\ Handle(s, t, SjoinChannel(c, m, in), <<SjoinRelay(c, m, in)>>)
    <2> DEFINE d == SjoinChannel(c, m, in)
               relay == SjoinRelay(c, m, in)
    <2>1. in \subseteq User /\ (\A w \in in : m.status[w] \in {"in", "op"})
      BY <1>3 DEF in
    <2>2. Members(d) = Members(c) \cup in
      <3>1. \A u \in User : d.status[u] # "out" <=> u \in in \/ u \in Members(c)
        BY <1>4, <2>1, MergeMembers DEF SjoinChannel
      <3> QED BY <2>1, <3>1 DEF Members
    <2>3. \A u \in User : relay.status[u] # "out" <=> u \in in
      BY <2>1 DEF SjoinRelay
    <2>4. relay \in Message /\ relay.type = "SJOIN"
      <3>1. Merge(c, m.ts, m.modes) \in Channel
        BY <1>3, <1>4, MergeFields
      <3>2. Merge(c, m.ts, m.modes).ts \in Nat /\ Merge(c, m.ts, m.modes).modes \in SUBSET Flag
        BY <3>1 DEF Channel
      <3> QED BY <1>3, <2>1, <3>2 DEF SjoinRelay, Message
    <2> HIDE DEF d, relay
    <2>5. \A w \in User : /\ relay \in Enters(w) <=> w \in in
                          /\ relay \in Names(w) <=> w \in in
                          /\ relay \notin Introduces(w) /\ relay \notin Dismisses(w)
                          /\ relay \notin Leaves(w)
      BY <2>3, <2>4 DEF Enters, Names, Introduces, Dismisses, Leaves
    <2>6. Own(relay, side)
      BY <1>3, <2>3, <2>4 DEF Own
    <2> HIDE DEF side
    <2>7. Tells(relay, side, users[s], Members(c), users[s], Members(d))
      BY <1>3, <2>2, <2>4, <2>5, <2>6 DEF Tells, Turns
    <2>8. \A w \in side : Turns(m, users[s], Members(c), users[s], Members(d), w)
      BY <1>3, <1>5, <2>2 DEF Turns
    <2>9. Handle(s, t, d, <<relay>>)
      BY <1>7 DEF d, relay
    <2>10. \A w \in User \ side : w \in Members(d) <=> w \in Members(c)
      BY <1>3, <2>2
    <2> QED BY <1>1, <1>2, <2>7, <2>8, <2>9, <2>10, HandledFlows DEF side, m
  <1> QED BY <1>1, <1>6, <1>7

\* A remote JOIN or TMODE comes from a client that s knows, and who joins is no member.
LEMMA NamedHead ==
    ASSUME IInv, AllFlow, NEW s \in Server, NEW t, First(s, t, "JOIN") \/ First(s, t, "TMODE")
    PROVE  LET m == Msg(s, t) IN
           /\ m \in Message /\ m.type \in {"JOIN", "TMODE"} /\ m.u \in User
           /\ m.u \in Behind[<<s, t>>] /\ m.u \in users[s]
           /\ m.type = "JOIN" => m.u \notin Members(channel[s])
           /\ \A w : /\ m \in Enters(w) <=> m.type = "JOIN" /\ w = m.u
                     /\ m \notin Introduces(w) /\ m \notin Dismisses(w) /\ m \notin Leaves(w)
  <1> DEFINE m == Msg(s, t)
  <1>1. /\ m \in Message /\ m.type \in {"JOIN", "TMODE"} /\ Own(m, Behind[<<s, t>>])
        /\ \A w \in Behind[<<s, t>>] : /\ m \in Names(w) => w \in users[s]
                                       /\ m \in Enters(w) => w \notin Members(channel[s])
    BY HeadFits
  <1> HIDE DEF m
  <1>2. m.u \in User /\ m.u \in Behind[<<s, t>>]
    BY <1>1, ReadMessages DEF Own
  <1>3. \A w : /\ m \in Enters(w) <=> m.type = "JOIN" /\ w = m.u
               /\ m \in Names(w) <=> w = m.u
               /\ m \notin Introduces(w) /\ m \notin Dismisses(w) /\ m \notin Leaves(w)
    BY <1>1 DEF Enters, Names, Introduces, Dismisses, Leaves
  <1> QED BY <1>1, <1>2, <1>3 DEF m

\* What ms_join makes of the channel.
JoinChannel(c, m) ==
    [Merge(c, m.ts, m.modes) EXCEPT !.status[m.u] = IF @ = "out" THEN "in" ELSE @]

JoinRelay(c, m) ==
    [type |-> "JOIN", u |-> m.u, ts |-> JoinChannel(c, m).ts, modes |-> JoinChannel(c, m).modes]

LEMMA JoinIs ==
    ASSUME IInv, AllFlow, NEW s \in Server, NEW t, MsJoin(s, t)
    PROVE  /\ First(s, t, "JOIN") /\ Steady /\ UNCHANGED users
           /\ Handle(s, t, JoinChannel(channel[s], Msg(s, t)),
                     <<JoinRelay(channel[s], Msg(s, t))>>)
  <1>1. First(s, t, "JOIN")
    BY DEF MsJoin
  <1>2. Msg(s, t).u \in users[s]
    BY <1>1, NamedHead
  <1> QED BY <1>1, <1>2 DEF MsJoin, Stranger, JoinChannel, JoinRelay

\* The channel after a JOIN.
LEMMA JoinFields ==
    ASSUME NEW c \in Channel, NEW m, m.ts \in Nat, m.modes \in SUBSET Flag, m.u \in User
    PROVE  LET d == JoinChannel(c, m) IN
           /\ d.ts = Merge(c, m.ts, m.modes).ts /\ d.ts \in Nat
           /\ d.modes = Merge(c, m.ts, m.modes).modes /\ d.modes \in SUBSET Flag
           /\ d.bans = c.bans
           /\ Members(d) = Members(c) \cup {m.u}
           /\ \A u \in User \ {m.u} : d.status[u] = Merge(c, m.ts, m.modes).status[u]
           /\ m.u \in Members(c) => d.status[m.u] = Merge(c, m.ts, m.modes).status[m.u]
  <1> DEFINE e == Merge(c, m.ts, m.modes)
             new == IF e.status[m.u] = "out" THEN "in" ELSE e.status[m.u]
             d == [ts |-> e.ts, modes |-> e.modes, bans |-> e.bans,
                   status |-> [e.status EXCEPT ![m.u] = new]]
  <1>1. /\ e.ts \in Nat /\ e.modes \in SUBSET Flag /\ e.bans = c.bans
        /\ e.status = [u \in User |-> e.status[u]]
        /\ e = [ts |-> e.ts, modes |-> e.modes, bans |-> e.bans, status |-> e.status]
    BY DEF Merge, Channel
  <1>2. \A u \in User : e.status[u] # "out" <=> u \in Members(c)
    BY MergeMembers
  <1>3. JoinChannel(c, m) = d
    <2> HIDE DEF e
    <2> QED BY <1>1 DEF JoinChannel, e
  <1> HIDE DEF e
  <1>4. new # "out" /\ (m.u \in Members(c) => new = e.status[m.u])
    BY <1>2
  <1> HIDE DEF new
  <1>5. /\ d.status[m.u] = new
        /\ \A u \in User \ {m.u} : d.status[u] = e.status[u]
    BY <1>1
  <1>6. Members(d) = Members(c) \cup {m.u}
    BY <1>2, <1>4, <1>5 DEF Members
  <1> QED BY <1>1, <1>3, <1>4, <1>5, <1>6 DEF e

LEMMA RemoteJoinFlows ==
    ASSUME IInv, IInv', AllFlow, NEW s \in Server, NEW t, MsJoin(s, t)
    PROVE  AllFlow'
  <1> DEFINE m == Msg(s, t)
             c == channel[s]
             d == JoinChannel(c, m)
             relay == JoinRelay(c, m)
             side == Behind[<<s, t>>]
  <1>1. /\ First(s, t, "JOIN") /\ UNCHANGED est /\ users' = [users EXCEPT ![s] = users[s]]
        /\ Handle(s, t, d, <<relay>>)
    BY JoinIs, QueueTyped DEF Steady
  <1>2. <<t, s>> \in Edge /\ t \in est[s] /\ queue[<<t, s>>] # <<>> /\ side \subseteq User
        /\ m.type = "JOIN"
    BY <1>1, HeadFits
  <1>3. /\ m \in Message /\ m.u \in User /\ m.u \in side /\ m.u \in users[s]
        /\ m.u \notin Members(c)
        /\ \A w : /\ m \in Enters(w) <=> w = m.u
                  /\ m \notin Introduces(w) /\ m \notin Dismisses(w) /\ m \notin Leaves(w)
    BY <1>1, <1>2, NamedHead
  <1> HIDE DEF m
  <1>4. c \in Channel /\ m.ts \in Nat /\ m.modes \in SUBSET Flag
    BY <1>2, <1>3, AtServer, ReadMessages
  <1>5. d.ts \in Nat /\ d.modes \in SUBSET Flag /\ Members(d) = Members(c) \cup {m.u}
    BY <1>3, <1>4, JoinFields
  <1>6. relay = [type |-> "JOIN", u |-> m.u, ts |-> d.ts, modes |-> d.modes]
    BY DEF JoinRelay
  <1> HIDE DEF d, relay
  <1>7. relay \in Message /\ relay.type = "JOIN" /\ relay.u = m.u
    BY <1>3, <1>5, <1>6 DEF Message
  <1>8. \A w \in User : /\ relay \in Enters(w) <=> w = m.u
                        /\ relay \in Names(w) <=> w = m.u
                        /\ relay \notin Introduces(w) /\ relay \notin Dismisses(w)
                        /\ relay \notin Leaves(w)
    BY <1>7 DEF Enters, Names, Introduces, Dismisses, Leaves
  <1>9. Own(relay, side)
    BY <1>3, <1>7 DEF Own
  <1> HIDE DEF side
  <1>10. Tells(relay, side, users[s], Members(c), users[s], Members(d))
    BY <1>3, <1>5, <1>7, <1>8, <1>9 DEF Tells, Turns
  <1>11. \A w \in side : Turns(m, users[s], Members(c), users[s], Members(d), w)
    BY <1>3, <1>5 DEF Turns
  <1>12. \A w \in User \ side : w \in Members(d) <=> w \in Members(c)
    BY <1>3, <1>5
  <1> QED BY <1>1, <1>2, <1>10, <1>11, <1>12, HandledFlows DEF side, m

\* A message that lets nobody in or out, and is passed on or not.
LEMMA IdleFlows ==
    ASSUME IInv, IInv', AllFlow, NEW s \in Server, NEW t, NEW type, First(s, t, type),
           type \in {"TMODE", "BMASK"}, UNCHANGED <<users, est>>,
           NEW c, Members(c) = Members(channel[s]),
           \/ Handle(s, t, c, <<>>)
           \/ \E ts \in Nat : Handle(s, t, c, <<[Msg(s, t) EXCEPT !.ts = ts]>>)
    PROVE  AllFlow'
  <1> DEFINE m == Msg(s, t)
             side == Behind[<<s, t>>]
  <1>1. /\ <<t, s>> \in Edge /\ t \in est[s] /\ queue[<<t, s>>] # <<>>
        /\ m \in Message /\ m.type = type /\ Own(m, side)
        /\ \A w \in side : m \in Names(w) => w \in users[s]
        /\ side \subseteq User
    BY HeadFits
  <1>2. users' = [users EXCEPT ![s] = users[s]]
    BY QueueTyped
  <1> HIDE DEF m
  <1>3. \A w : /\ m \notin Enters(w) /\ m \notin Leaves(w)
               /\ m \notin Introduces(w) /\ m \notin Dismisses(w)
    BY <1>1 DEF Enters, Leaves, Introduces, Dismisses
  <1>4. \A w \in side : Turns(m, users[s], Members(channel[s]), users[s], Members(c), w)
    BY <1>3 DEF Turns
  <1>5. CASE Handle(s, t, c, <<>>)
    <2> HIDE DEF side
    <2> QED BY <1>1, <1>2, <1>4, <1>5, HandledFlows DEF side, m
  <1>6. ASSUME NEW ts \in Nat, Handle(s, t, c, <<[m EXCEPT !.ts = ts]>>) PROVE AllFlow'
    <2> DEFINE relay == [m EXCEPT !.ts = ts]
    <2>1. CASE type = "TMODE"
      <3>1. m.u \in User /\ m.change \in Change
            /\ m = [type |-> "TMODE", u |-> m.u, ts |-> m.ts, change |-> m.change]
        BY <1>1, <2>1, ReadMessages
      <3>2. relay = [type |-> "TMODE", u |-> m.u, ts |-> ts, change |-> m.change]
        BY <3>1
      <3> HIDE DEF relay
      <3>3. relay \in Message /\ relay.type = "TMODE" /\ relay.u = m.u
        BY <3>1, <3>2 DEF Message
      <3>4. \A w : relay \in Names(w) <=> m \in Names(w)
        BY <1>1, <2>1, <3>3 DEF Names
      <3>5. \A w : m \in Names(w) => w \in side
        BY <1>1, <2>1 DEF Names, Own
      <3>6. Own(relay, side)
        BY <1>1, <2>1, <3>3 DEF Own
      <3>7. \A w : /\ relay \notin Enters(w) /\ relay \notin Leaves(w)
                   /\ relay \notin Introduces(w) /\ relay \notin Dismisses(w)
        BY <3>3 DEF Enters, Leaves, Introduces, Dismisses
      <3> HIDE DEF side
      <3>8. Tells(relay, side, users[s], Members(channel[s]), users[s], Members(c))
        BY <1>1, <3>3, <3>4, <3>5, <3>6, <3>7 DEF Tells, Turns
      <3>9. Handle(s, t, c, <<relay>>)
        BY <1>6 DEF relay
      <3> QED BY <1>1, <1>2, <1>4, <3>8, <3>9, HandledFlows DEF side, m
    <2>2. CASE type = "BMASK"
      <3>1. m.bans \in SUBSET User /\ m = [type |-> "BMASK", ts |-> m.ts, bans |-> m.bans]
        BY <1>1, <2>2, ReadMessages
      <3>2. relay = [type |-> "BMASK", ts |-> ts, bans |-> m.bans]
        BY <3>1
      <3> HIDE DEF relay
      <3>3. relay \in Message /\ relay.type = "BMASK" /\ Own(relay, side)
        BY <3>1, <3>2 DEF Message, Own
      <3>4. \A w : /\ relay \notin Enters(w) /\ relay \notin Leaves(w) /\ relay \notin Names(w)
                   /\ relay \notin Introduces(w) /\ relay \notin Dismisses(w)
        BY <3>3 DEF Enters, Leaves, Names, Introduces, Dismisses
      <3> HIDE DEF side
      <3>5. Tells(relay, side, users[s], Members(channel[s]), users[s], Members(c))
        BY <3>3, <3>4 DEF Tells, Turns
      <3>6. Handle(s, t, c, <<relay>>)
        BY <1>6 DEF relay
      <3> QED BY <1>1, <1>2, <1>4, <3>5, <3>6, HandledFlows DEF side, m
    <2> QED BY <2>1, <2>2
  <1> QED BY <1>5, <1>6 DEF m

\* A TMODE is obeyed or not.
LEMMA TmodeIs ==
    ASSUME IInv, AllFlow, NEW s \in Server, NEW t, MsTmode(s, t)
    PROVE  LET m == Msg(s, t)
               c == channel[s]
               obeyed == MayChange(c, m.ts) /\ c.status[m.u] # "deop" /\ Recorded(c, m.change) IN
           /\ First(s, t, "TMODE") /\ Steady /\ UNCHANGED users
           /\ m.change \in Change /\ m.u \in User /\ m.ts \in Nat
           /\ \/ ~obeyed /\ Handle(s, t, c, <<>>)
              \/ obeyed /\ Handle(s, t, Apply(c, m.change), <<[m EXCEPT !.ts = c.ts]>>)
  <1>1. First(s, t, "TMODE")
    BY DEF MsTmode
  <1>2. /\ Msg(s, t).u \in users[s]
        /\ Msg(s, t) \in Message
        /\ Msg(s, t).type = "TMODE"
    <2>1. Msg(s, t).u \in users[s]
      BY <1>1, NamedHead
    <2>2. Msg(s, t) \in Message /\ Msg(s, t).type = "TMODE"
      BY <1>1, HeadFits
    <2> QED BY <2>1, <2>2
  <1>3. Msg(s, t).change \in Change /\ Msg(s, t).u \in User /\ Msg(s, t).ts \in Nat
    BY <1>2, ReadMessages
  <1> QED BY <1>1, <1>2, <1>3 DEF MsTmode, Stranger

LEMMA TmodeFlows ==
    ASSUME IInv, IInv', AllFlow, NEW s \in Server, NEW t, MsTmode(s, t)
    PROVE  AllFlow'
  <1> DEFINE m == Msg(s, t)
             c == channel[s]
  <1>1. /\ First(s, t, "TMODE") /\ UNCHANGED <<users, est>> /\ m.change \in Change
        /\ \/ Handle(s, t, c, <<>>)
           \/ Handle(s, t, Apply(c, m.change), <<[m EXCEPT !.ts = c.ts]>>)
    BY TmodeIs DEF Steady
  <1>2. c.ts \in Nat /\ Members(Apply(c, m.change)) = Members(c)
    BY <1>1, AtServer, ApplyMembers
  <1>3. CASE Handle(s, t, c, <<>>)
    BY <1>1, <1>3, IdleFlows
  <1>4. CASE Handle(s, t, Apply(c, m.change), <<[m EXCEPT !.ts = c.ts]>>)
    <2> DEFINE d == Apply(c, m.change)
    <2>1. \E ts \in Nat : Handle(s, t, d, <<[m EXCEPT !.ts = ts]>>)
      BY <1>2, <1>4
    <2>2. Members(d) = Members(c)
      BY <1>2
    <2> HIDE DEF d
    <2> QED BY <1>1, <2>1, <2>2, IdleFlows
  <1> QED BY <1>1, <1>3, <1>4

LEMMA BmaskFlows ==
    ASSUME IInv, IInv', AllFlow, NEW s \in Server, NEW t, MsBmask(s, t)
    PROVE  AllFlow'
  <1> DEFINE m == Msg(s, t)
             c == channel[s]
             d == [c EXCEPT !.bans = @ \cup m.bans]
  <1>1. /\ First(s, t, "BMASK") /\ UNCHANGED <<users, est>>
        /\ \/ Handle(s, t, c, <<>>)
           \/ Handle(s, t, d, <<[m EXCEPT !.ts = c.ts]>>)
    BY DEF MsBmask, Steady
  <1>2. c.ts \in Nat /\ c \in Channel
    BY AtServer
  <1>3. Members(d) = Members(c)
    BY <1>2 DEF Members, Channel
  <1>4. CASE Handle(s, t, c, <<>>)
    BY <1>1, <1>4, IdleFlows
  <1>5. CASE Handle(s, t, d, <<[m EXCEPT !.ts = c.ts]>>)
    <2>1. \E ts \in Nat : Handle(s, t, d, <<[m EXCEPT !.ts = ts]>>)
      BY <1>2, <1>5
    <2> HIDE DEF d
    <2> QED BY <1>1, <1>3, <2>1, IdleFlows
  <1> QED BY <1>1, <1>4, <1>5

\* A PART: nobody is kicked.
LEMMA RemoteLeaveFlows ==
    ASSUME IInv, IInv', AllFlow, NEW s \in Server, NEW t, MsLeave(s, t)
    PROVE  AllFlow'
  <1> DEFINE m == Msg(s, t)
             c == channel[s]
             d == Remove(c, {m.u})
             side == Behind[<<s, t>>]
  <1>1. /\ First(s, t, "PART") \/ First(s, t, "KICK")
        /\ users' = [users EXCEPT ![s] = users[s]] /\ UNCHANGED est
    BY QueueTyped DEF MsLeave, Steady
  <1>2. \/ (m.by \notin users[s] \/ m.u \notin Members(c) \/ m.u \notin User)
           /\ Handle(s, t, c, <<>>)
        \/ Handle(s, t, d, <<m>>)
    BY DEF MsLeave, Stranger, Members
  <1>3. /\ <<t, s>> \in Edge /\ t \in est[s] /\ queue[<<t, s>>] # <<>>
        /\ m \in Message /\ m.type \in {"PART", "KICK"} /\ Own(m, side) /\ side \subseteq User
    BY <1>1, HeadFits
  <1>4. m.type = "PART" /\ m.u \in side /\ m.by = m.u /\ m.u \in User
    BY <1>3 DEF Own
  <1> HIDE DEF m
  <1>5. \A w : /\ m \in Leaves(w) <=> w = m.u
               /\ m \notin Enters(w) /\ m \notin Names(w)
               /\ m \notin Introduces(w) /\ m \notin Dismisses(w)
    BY <1>3, <1>4 DEF Enters, Names, Leaves, Introduces, Dismisses
  <1>6. c \in Channel /\ Members(c) \subseteq users[s]
    BY AtServer, QueueTyped
  <1>7. CASE m.u \notin Members(c) /\ Handle(s, t, c, <<>>)
    <2>1. \A w \in side : Turns(m, users[s], Members(c), users[s], Members(c), w)
      BY <1>5, <1>7 DEF Turns
    <2> HIDE DEF side
    <2> QED BY <1>1, <1>3, <1>7, <2>1, HandledFlows DEF side, m
  <1>8. CASE Handle(s, t, d, <<m>>)
    <2>1. Members(d) = Members(c) \ {m.u}
      BY <1>6, RemoveMembers
    <2> HIDE DEF d
    <2>2. \A w \in User : Turns(m, users[s], Members(c), users[s], Members(d), w)
      BY <1>5, <2>1 DEF Turns
    <2>3. Tells(m, side, users[s], Members(c), users[s], Members(d))
      BY <1>3, <1>4, <1>5, <2>2 DEF Tells
    <2>4. \A w \in User \ side : w \in Members(d) <=> w \in Members(c)
      BY <1>4, <2>1
    <2>5. \A w \in side : Turns(m, users[s], Members(c), users[s], Members(d), w)
      BY <1>3, <2>2
    <2> HIDE DEF side
    <2> QED BY <1>1, <1>3, <1>8, <2>3, <2>4, <2>5, HandledFlows DEF side, m
  <1> QED BY <1>2, <1>4, <1>6, <1>7, <1>8 DEF m

LEMMA UidFlows ==
    ASSUME IInv, IInv', AllFlow, NEW s \in Server, NEW t, MsUid(s, t)
    PROVE  AllFlow'
  <1> DEFINE m == Msg(s, t)
             c == channel[s]
             U == users[s] \cup m.us
             side == Behind[<<s, t>>]
  <1>1. /\ First(s, t, "USERS") /\ users' = [users EXCEPT ![s] = U] /\ UNCHANGED est
        /\ Handle(s, t, c, <<m>>)
    BY DEF MsUid, Steady
  <1>2. /\ <<t, s>> \in Edge /\ t \in est[s] /\ queue[<<t, s>>] # <<>>
        /\ m \in Message /\ m.type = "USERS" /\ Own(m, side) /\ side \subseteq User
    BY <1>1, HeadFits
  <1>3. m.us \subseteq side
    BY <1>2 DEF Own
  <1> HIDE DEF m
  <1>4. \A w : /\ m \in Introduces(w) <=> w \in m.us
               /\ m \notin Dismisses(w) /\ m \notin Enters(w)
               /\ m \notin Leaves(w) /\ m \notin Names(w)
    BY <1>2 DEF Enters, Names, Leaves, Introduces, Dismisses
  <1>5. \A w : Turns(m, users[s], Members(c), U, Members(c), w)
    BY <1>4 DEF Turns
  <1>6. Tells(m, side, users[s], Members(c), U, Members(c))
    BY <1>2, <1>4, <1>5 DEF Tells
  <1>7. \A w \in User \ side : w \in U <=> w \in users[s]
    BY <1>3
  <1> HIDE DEF U, side
  <1> QED BY <1>1, <1>2, <1>5, <1>6, <1>7, HandledFlows DEF side, m

LEMMA QuitFlows ==
    ASSUME IInv, IInv', AllFlow, NEW s \in Server, NEW t, MsQuit(s, t)
    PROVE  AllFlow'
  <1> DEFINE m == Msg(s, t)
             c == channel[s]
             gone == m.us \cap users[s]
             U == users[s] \ gone
             d == Remove(c, gone)
             relay == [type |-> "GONE", us |-> gone]
             side == Behind[<<s, t>>]
  <1>1. /\ First(s, t, "GONE") /\ users' = [users EXCEPT ![s] = U] /\ UNCHANGED est
        /\ \/ gone = {} /\ Handle(s, t, d, <<>>)
           \/ gone # {} /\ Handle(s, t, d, <<relay>>)
    BY DEF MsQuit, Steady
  <1>2. /\ <<t, s>> \in Edge /\ t \in est[s] /\ queue[<<t, s>>] # <<>>
        /\ m \in Message /\ m.type = "GONE" /\ Own(m, side) /\ side \subseteq User
    BY <1>1, HeadFits
  <1>3. m.us \subseteq side
    BY <1>2 DEF Own
  <1>4. c \in Channel /\ Members(c) \subseteq users[s] /\ users[s] \subseteq User
    BY AtServer, QueueTyped
  <1>5. Members(d) = Members(c) \ gone
    <2> HIDE DEF gone
    <2> QED BY <1>4, RemoveMembers
  <1>6. relay \in Message /\ relay.type = "GONE" /\ relay.us = gone
    BY <1>4 DEF Message
  <1> HIDE DEF m, d, relay
  <1>7. \A w : /\ (m \in Dismisses(w) <=> w \in m.us) /\ (m \in Leaves(w) <=> w \in m.us)
               /\ m \notin Introduces(w) /\ m \notin Enters(w) /\ m \notin Names(w)
    BY <1>2 DEF Enters, Names, Leaves, Introduces, Dismisses
  <1>8. \A w : /\ (relay \in Dismisses(w) <=> w \in gone) /\ (relay \in Leaves(w) <=> w \in gone)
               /\ relay \notin Introduces(w) /\ relay \notin Enters(w) /\ relay \notin Names(w)
    BY <1>6 DEF Enters, Names, Leaves, Introduces, Dismisses
  <1>9. \A w : Turns(m, users[s], Members(c), U, Members(d), w)
    BY <1>4, <1>5, <1>7 DEF Turns
  <1>10. \A w : Turns(relay, users[s], Members(c), U, Members(d), w)
    BY <1>5, <1>8 DEF Turns
  <1>11. Tells(relay, side, users[s], Members(c), U, Members(d))
    <2>1. Own(relay, side)
      BY <1>3, <1>6 DEF Own
    <2> QED BY <1>6, <1>8, <1>10, <2>1 DEF Tells
  <1>12. \A w \in User \ side : (w \in U <=> w \in users[s]) /\ (w \in Members(d) <=> w \in Members(c))
    BY <1>3, <1>5
  <1>13. gone = {} => U = users[s] /\ Members(d) = Members(c)
    BY <1>5
  <1> HIDE DEF U, gone, side
  <1>14. CASE gone = {} /\ Handle(s, t, d, <<>>)
    BY <1>1, <1>2, <1>9, <1>12, <1>13, <1>14, HandledFlows DEF side, m
  <1>15. CASE gone # {} /\ Handle(s, t, d, <<relay>>)
    BY <1>1, <1>2, <1>9, <1>11, <1>12, <1>15, HandledFlows DEF side, m
  <1> QED BY <1>1, <1>14, <1>15

-----------------------------------------------------------------------------
(* Links.                                                                  *)

LEMMA CloseFlows ==
    ASSUME IInv, IInv', AllFlow, NEW s \in Server, NEW t, CloseLink(s, t)
    PROVE  AllFlow'
  <1> DEFINE gone == Behind[<<s, t>>] \cap users[s]
             U == users[s] \ gone
             c == channel[s]
             d == Remove(c, gone)
             m == [type |-> "GONE", us |-> gone]
             side == Behind[<<s, t>>]
  <1>1. /\ <<s, t>> \in Edge
        /\ est' = [est EXCEPT ![s] = @ \ {t}]
        /\ users' = [users EXCEPT ![s] = U]
        /\ channel' = [channel EXCEPT ![s] = d]
        /\ queue' = [Transmit(s, t, queue, <<m>>) EXCEPT ![<<t, s>>] = <<>>]
    BY DEF CloseLink
  <1>2. <<t, s>> \in Edge /\ t \in Server /\ t # s /\ <<s, t>> # <<t, s>> /\ side \subseteq User
    BY <1>1, EdgeFacts
  <1>3. c \in Channel /\ Members(c) \subseteq users[s] /\ users[s] \subseteq User
    BY AtServer, QueueTyped
  <1>4. Members(d) = Members(c) \ gone
    <2> HIDE DEF gone
    <2> QED BY <1>3, RemoveMembers
  <1>5. m \in Message /\ m.type = "GONE" /\ m.us = gone
    BY <1>3 DEF Message
  <1>6. Own(m, side)
    BY <1>5 DEF Own
  <1>7. \A e \in Edge : /\ e # <<t, s>> =>
                              queue'[e] = IF e[1] = s /\ e[2] # t /\ Live(s, e[2])
                                          THEN queue[e] \o <<m>> ELSE queue[e]
                        /\ e = <<t, s>> => queue'[e] = <<>>
    BY <1>1 DEF Transmit, Live
  <1>8. U \cap side = {} /\ U \subseteq users[s]
    OBVIOUS
  <1> HIDE DEF m, d
  <1>9. \A w : /\ (m \in Dismisses(w) <=> w \in gone) /\ (m \in Leaves(w) <=> w \in gone)
               /\ m \notin Introduces(w) /\ m \notin Enters(w) /\ m \notin Names(w)
    BY <1>5 DEF Enters, Names, Leaves, Introduces, Dismisses
  <1>10. Tells(m, side, users[s], Members(c), U, Members(d))
    BY <1>4, <1>5, <1>6, <1>9 DEF Tells, Turns
  <1>11. \A w \in User \ side : (w \in U <=> w \in users[s]) /\ (w \in Members(d) <=> w \in Members(c))
    BY <1>4
  <1>12. /\ \A r \in Server : r # s => est'[r] = est[r]
         /\ \A r \in Server : r # t => (r \in est'[s] <=> r \in est[s])
         /\ t \notin est'[s]
    BY <1>1, QueueTyped
  <1> HIDE DEF U, gone, side
  <1>13. Step(s, t, side, U, d, <<m>>)
    <2>1. Apart(s, t, side)
      BY <1>1, ApartIs DEF side
    <2> QED BY <1>1, <1>7, <1>10, <1>11, <1>12, <2>1 DEF Step, Sends
  <1>14. queue'[<<t, s>>] = <<>>
    BY <1>2, <1>7
  <1>15. Flow(t, s)'
    <2>1. ~Live(t, s)'
      BY <1>12, <1>14 DEF Live, Open
    <2>2. \A w, U2, P2 : Orderly(<<>>, U2, P2, w)
      BY DEF Orderly
    <2> QED BY <1>14, <2>1, <2>2 DEF Flow, Handshake, OfItsSide, Agrees
  <1>16. Flow(s, t)'
    BY <1>1, <1>8, <1>12, <1>13, <1>14, BackFlows DEF side
  <1>17. ASSUME NEW y, NEW z, <<y, z>> \in Edge PROVE Flow(y, z)'
    <2>1. CASE y # s /\ z # s
      BY <1>13, <1>17, <2>1, ElsewhereFlows
    <2>2. CASE y = s
      BY <1>13, <1>16, <1>17, <2>2, OutboundFlows
    <2>3. CASE z = s
      BY <1>13, <1>15, <1>17, <2>3, InboundFlows
    <2> QED BY <2>1, <2>2, <2>3
  <1>18. \A r \in Server : Reach(r)'
    <2>1. \A u \in U : u \notin side
      BY <1>8
    <2> QED BY <1>12, <1>13, <2>1, ReachStays DEF side
  <1>19. \A e \in Edge : Flow(e[1], e[2])'
    BY <1>17 DEF Edge
  <1> QED BY <1>18, <1>19 DEF AllFlow

\* The three messages of a burst.
UsersOf(s) == [type |-> "USERS", us |-> users[s]]

SjoinOf(s) ==
    [type |-> "SJOIN", ts |-> channel[s].ts, modes |-> channel[s].modes, zero |-> FALSE,
     status |-> [u \in User |-> IF channel[s].status[u] = "deop" THEN "in"
                                ELSE channel[s].status[u]]]

BmaskOf(s) == [type |-> "BMASK", ts |-> channel[s].ts, bans |-> channel[s].bans]

LEMMA BurstMessages ==
    ASSUME IInv, NEW s \in Server
    PROVE  UsersOf(s) \in Message /\ SjoinOf(s) \in Message /\ BmaskOf(s) \in Message
  <1>1. UsersOf(s) \in Message
    BY AtServer DEF UsersOf, Message
  <1>2. BmaskOf(s) \in Message
    BY AtServer DEF BmaskOf, Message
  <1>3. SjoinOf(s) \in Message
    <2> DEFINE st == [u \in User |-> IF channel[s].status[u] = "deop" THEN "in"
                                     ELSE channel[s].status[u]]
    <2>1. st \in [User -> {"out", "in", "op"}]
      BY AtServer DEF Status
    <2> HIDE DEF st
    <2>2. [type |-> "SJOIN", ts |-> channel[s].ts, modes |-> channel[s].modes, zero |-> FALSE,
           status |-> st] \in Message
      BY <2>1, AtServer DEF Message
    <2> QED BY <2>2 DEF SjoinOf, st
  <1> QED BY <1>1, <1>2, <1>3

LEMMA Associates ==
    ASSUME NEW x \in Seq(Message), NEW y \in Seq(Message), NEW z \in Seq(Message)
    PROVE  x \o (y \o z) = (x \o y) \o z
  BY ConcatAssociative, SMTT(30)

\* A burst is sent one message after the other.
LEMMA BurstIs ==
    ASSUME IInv, NEW s \in Server, NEW hello \in Seq(Message)
    PROVE  LET c == channel[s]
               one == hello \o <<UsersOf(s)>>
               two == IF Exists(c) THEN one \o <<SjoinOf(s)>> ELSE one IN
           hello \o Burst(s) = IF c.bans = {} THEN two ELSE two \o <<BmaskOf(s)>>
  <1> DEFINE c == channel[s]
             b1 == <<UsersOf(s)>>
             b2 == IF Exists(c) THEN <<SjoinOf(s)>> ELSE <<>>
             b3 == IF c.bans = {} THEN <<>> ELSE <<BmaskOf(s)>>
             one == hello \o b1
             two == IF Exists(c) THEN one \o <<SjoinOf(s)>> ELSE one
  <1>1. Burst(s) = b1 \o b2 \o b3
    BY DEF Burst, UsersOf, SjoinOf, BmaskOf
  <1>2. b1 \in Seq(Message) /\ b2 \in Seq(Message) /\ b3 \in Seq(Message)
    <2>1. UsersOf(s) \in Message /\ SjoinOf(s) \in Message /\ BmaskOf(s) \in Message
      BY BurstMessages
    <2> QED BY <2>1
  <1>3. one \in Seq(Message) /\ one \o b2 \in Seq(Message)
    <2> HIDE DEF b1, b2
    <2> QED BY <1>2, ConcatProperties
  <1>4. one \o b2 = two
    <2>1. Exists(c) => one \o b2 = two
      OBVIOUS
    <2>2. ~Exists(c) => b2 = <<>> /\ two = one
      OBVIOUS
    <2> HIDE DEF one, two, b2
    <2> QED BY <1>3, <2>1, <2>2, ConcatEmptySeq
  <1>5. (one \o b2) \o b3 = IF c.bans = {} THEN two ELSE two \o <<BmaskOf(s)>>
    <2>1. c.bans # {} => (one \o b2) \o b3 = two \o <<BmaskOf(s)>>
      BY <1>4
    <2>2. c.bans = {} => b3 = <<>>
      OBVIOUS
    <2> HIDE DEF one, two, b2, b3
    <2> QED BY <1>3, <1>4, <2>1, <2>2, ConcatEmptySeq
  <1>6. hello \o (b1 \o b2 \o b3) = (one \o b2) \o b3
    <2> HIDE DEF b1, b2, b3
    <2>1. b1 \o b2 \in Seq(Message)
      BY <1>2, ConcatProperties
    <2>2. hello \o ((b1 \o b2) \o b3) = (hello \o (b1 \o b2)) \o b3
      BY <1>2, <2>1, Associates
    <2>3. hello \o (b1 \o b2) = (hello \o b1) \o b2
      BY <1>2, Associates
    <2> QED BY <2>2, <2>3
  <1> QED BY <1>1, <1>5, <1>6

\* q tells the reader, which knows U and has the members P, of the clients V and
\* the members Q, all of one side, after `hello' messages.
Built(q, hello, side, V, Q, U, P) ==
    /\ q \in Seq(Message)
    /\ Len(q) >= hello
    /\ \A i \in 1..Len(q) : Own(q[i], side) /\ (q[i].type = "SERVER" <=> i <= hello)
    /\ \A w \in side : Orderly(q, U, P, w) /\ Mirror(q, V, Q, U, P, w)

LEMMA BuiltMore ==
    ASSUME NEW side \in SUBSET User, NEW V, NEW Q, NEW U, NEW P, NEW q, NEW hello \in Nat,
           Built(q, hello, side, V, Q, U, P), NEW V2, NEW Q2, NEW m, Tells(m, side, V, Q, V2, Q2)
    PROVE  Built(q \o <<m>>, hello, side, V2, Q2, U, P)
  <1> DEFINE p == q \o <<m>>
  <1>1. q \in Seq(Message) /\ m \in Message /\ m.type # "SERVER" /\ Own(m, side) /\ Len(q) >= hello
    BY DEF Built, Tells
  <1>2. /\ Len(q) \in Nat /\ Len(p) = Len(q) + 1 /\ p \in Seq(Message)
        /\ p[Len(q) + 1] = m /\ \A i \in 1..Len(q) : p[i] = q[i]
    BY <1>1, QueueFacts
  <1> HIDE DEF p
  <1>3. \A i \in 1..Len(p) : Own(p[i], side) /\ (p[i].type = "SERVER" <=> i <= hello)
    <2>1. \A i \in 1..Len(p) : i \in 1..Len(q) \/ (i = Len(q) + 1 /\ ~(i <= hello))
      BY <1>1, <1>2
    <2> QED BY <1>1, <1>2, <2>1 DEF Built
  <1>4. ASSUME NEW w \in side PROVE Orderly(p, U, P, w) /\ Mirror(p, V2, Q2, U, P, w)
    <2>1. Orderly(q, U, P, w) /\ Mirror(q, V, Q, U, P, w)
      BY DEF Built
    <2>2. /\ Turns(m, V, Q, V2, Q2, w)
          /\ m \in Names(w) => w \in V
          /\ m \in Enters(w) => w \notin Q
      BY DEF Tells
    <2> QED BY <1>1, <2>1, <2>2, MirrorSent DEF p
  <1>5. Len(p) >= hello
    BY <1>1, <1>2
  <1> QED BY <1>2, <1>3, <1>4, <1>5 DEF Built, p

\* The burst of s tells a peer that knows nobody of its side all that s knows.
LEMMA BurstBuilt ==
    ASSUME IInv, NEW s \in Server, NEW side \in SUBSET User, users[s] \subseteq side,
           NEW U, NEW P, U \cap side = {}, P \subseteq U
    PROVE  /\ Built(Burst(s), 0, side, users[s], Members(channel[s]), U, P)
           /\ Built(<<[type |-> "SERVER"]>> \o Burst(s), 1, side, users[s], Members(channel[s]), U, P)
  <1> DEFINE c == channel[s]
             V == users[s]
             Q == Members(c)
  <1>1. /\ UsersOf(s) \in Message /\ SjoinOf(s) \in Message /\ BmaskOf(s) \in Message
        /\ Q \subseteq V /\ V \subseteq User
    BY BurstMessages, QueueTyped
  <1>2. Tells(UsersOf(s), side, {}, {}, V, {})
    BY <1>1 DEF Tells, Turns, UsersOf, Own, Introduces, Dismisses, Enters, Leaves, Names
  <1>3. Tells(SjoinOf(s), side, V, {}, V, Q)
    <2>1. SjoinOf(s).type = "SJOIN" /\ \A w \in User : SjoinOf(s).status[w] # "out" <=> w \in Q
      BY DEF SjoinOf, Members
    <2>2. \A w \in User : /\ SjoinOf(s) \in Enters(w) <=> w \in Q
                          /\ SjoinOf(s) \in Names(w) <=> w \in Q
                          /\ SjoinOf(s) \notin Introduces(w) /\ SjoinOf(s) \notin Dismisses(w)
                          /\ SjoinOf(s) \notin Leaves(w)
      BY <1>1, <2>1 DEF Introduces, Dismisses, Enters, Leaves, Names
    <2>3. Own(SjoinOf(s), side)
      BY <1>1, <2>1 DEF Own
    <2> HIDE DEF V, Q
    <2> QED BY <1>1, <2>1, <2>2, <2>3 DEF Tells, Turns
  <1>4. \A R : Tells(BmaskOf(s), side, V, R, V, R)
    BY <1>1 DEF Tells, Turns, BmaskOf, Own, Introduces, Dismisses, Enters, Leaves, Names
  <1>5. ~Exists(c) => Q = {}
    BY DEF Exists
  <1>6. ASSUME NEW q, NEW hello \in Nat, Built(q, hello, side, {}, {}, U, P)
        PROVE  Built(q \o Burst(s), hello, side, V, Q, U, P)
    <2> DEFINE one == q \o <<UsersOf(s)>>
               two == IF Exists(c) THEN one \o <<SjoinOf(s)>> ELSE one
               all == IF c.bans = {} THEN two ELSE two \o <<BmaskOf(s)>>
    <2>1. q \in Seq(Message)
      BY <1>6 DEF Built
    <2>2. q \o Burst(s) = all
      BY <2>1, BurstIs
    <2> HIDE DEF V, Q, c
    <2>3. Built(one, hello, side, V, {}, U, P)
      BY <1>2, <1>6, BuiltMore
    <2>4. Built(two, hello, side, V, Q, U, P)
      <3> HIDE DEF one
      <3>1. Exists(c) => Built(one \o <<SjoinOf(s)>>, hello, side, V, Q, U, P)
        BY <1>3, <2>3, BuiltMore
      <3> QED BY <1>5, <2>3, <3>1
    <2>5. Built(all, hello, side, V, Q, U, P)
      <3> HIDE DEF two
      <3>1. Built(two \o <<BmaskOf(s)>>, hello, side, V, Q, U, P)
        BY <1>4, <2>4, BuiltMore
      <3> QED BY <2>4, <3>1
    <2> QED BY <2>2, <2>5
  <1>7. \A w \in side : w \notin U /\ w \notin P
    OBVIOUS
  <1>8. Built(<<>>, 0, side, {}, {}, U, P)
    <2>1. \A w \in side : Orderly(<<>>, U, P, w) /\ Mirror(<<>>, {}, {}, U, P, w)
      BY <1>7, UptoNothing DEF Orderly, Mirror
    <2> QED BY <2>1 DEF Built
  <1>9. Built(<<[type |-> "SERVER"]>>, 1, side, {}, {}, U, P)
    <2> DEFINE m == [type |-> "SERVER"]
               q == <<m>>
    <2>1. m \in Message /\ Own(m, side)
      BY DEF Message, Own
    <2>2. \A w : /\ m \notin Names(w) /\ m \notin Enters(w) /\ m \notin Leaves(w)
                 /\ m \notin Introduces(w) /\ m \notin Dismisses(w)
      BY DEF Names, Enters, Leaves, Introduces, Dismisses
    <2>3. m.type = "SERVER"
      OBVIOUS
    <2> HIDE DEF m
    <2>4. Len(q) = 1 /\ q \in Seq(Message) /\ \A i \in 1..1 : q[i] = m /\ i <= 1
      BY <2>1
    <2> HIDE DEF q
    <2>5. ASSUME NEW w \in side PROVE Orderly(q, U, P, w) /\ Mirror(q, {}, {}, U, P, w)
      <3>1. Orderly(q, U, P, w)
        BY <2>2, <2>4 DEF Orderly
      <3>2. Mirror(q, {}, {}, U, P, w)
        BY <1>7, <2>2, <2>4 DEF Mirror, Upto
      <3> QED BY <3>1, <3>2
    <2>6. Built(q, 1, side, {}, {}, U, P)
      BY <2>1, <2>3, <2>4, <2>5 DEF Built
    <2> QED BY <2>6 DEF q, m
  <1>10. Burst(s) = <<>> \o Burst(s)
    <2>1. Burst(s) \in Seq(Truthful(granted))
      BY BurstTruthful
    <2> QED BY <2>1, ConcatEmptySeq
  <1> QED BY <1>6, <1>8, <1>9, <1>10

\* A server knows nobody behind a link that it has not established, so all that it
\* knows are of its own side of that link.
LEMMA Unlinked ==
    ASSUME IInv, AllFlow, NEW s \in Server, NEW t, <<s, t>> \in Edge, t \notin est[s]
    PROVE  users[s] \cap Behind[<<s, t>>] = {} /\ users[s] \subseteq Behind[<<t, s>>]
  <1>1. Reach(s)
    BY DEF AllFlow
  <1>2. ASSUME NEW u \in users[s] PROVE u \notin Behind[<<s, t>>] /\ u \in Behind[<<t, s>>]
    <2>1. CASE u \in Local(s)
      BY <2>1, LocalSide
    <2>2. CASE u \notin Local(s)
      <3>1. PICK r \in est[s] : <<s, r>> \in Edge /\ u \in Behind[<<s, r>>]
        BY <1>1, <1>2, <2>2 DEF Reach
      <3>2. r # t
        BY <3>1
      <3> QED BY <3>1, <3>2, Beyond
    <2> QED BY <2>1, <2>2
  <1> QED BY <1>2

\* The links that a server's end of a link does not concern.
LEMMA EstabElsewhere ==
    ASSUME IInv, AllFlow, NEW s \in Server, NEW t \in Server, <<s, t>> \in Edge,
           UNCHANGED <<users, channel>>, est' = [est EXCEPT ![s] = @ \cup {t}],
           \A e \in Edge : e # <<s, t>> /\ e # <<t, s>> => queue'[e] = queue[e]
    PROVE  /\ \A r \in Server : Reach(r)'
           /\ \A y, z : <<y, z>> \in Edge /\ <<y, z>> # <<s, t>> /\ <<y, z>> # <<t, s>>
                 => Flow(y, z)'
  <1>1. \A x : \A r \in Server : /\ x \in est[r] => x \in est'[r]
                                 /\ x \in est'[r] => x \in est[r] \/ (r = s /\ x = t)
    BY QueueTyped
  <1>2. ASSUME NEW r \in Server PROVE Reach(r)'
    <2>1. Reach(r)
      BY DEF AllFlow
    <2> QED BY <1>1, <2>1 DEF Reach, Local
  <1>3. ASSUME NEW y, NEW z, <<y, z>> \in Edge, <<y, z>> # <<s, t>>, <<y, z>> # <<t, s>>
        PROVE  Flow(y, z)'
    <2>1. /\ Flow(y, z) /\ <<z, y>> \in Edge /\ y \in Server /\ z \in Server
          /\ <<z, y>> # <<s, t>> /\ <<z, y>> # <<t, s>>
      BY <1>3, EdgeFacts DEF AllFlow
    <2>2. queue'[<<y, z>>] = queue[<<y, z>>] /\ queue'[<<z, y>>] = queue[<<z, y>>]
      BY <1>3, <2>1
    <2>3. (y \in est'[z] <=> y \in est[z]) /\ (z \in est'[y] <=> z \in est[y])
      BY <1>1, <1>3, <2>1
    <2> QED BY <2>1, <2>2, <2>3 DEF Flow, Handshake, OfItsSide, Agrees, Live, Open
  <1> QED BY <1>2, <1>3

LEMMA AcceptFlows ==
    ASSUME IInv, IInv', AllFlow, NEW s \in Server, NEW t \in Server, AcceptLink(s, t)
    PROVE  AllFlow'
  <1> DEFINE q == <<[type |-> "SERVER"]>> \o Burst(s)
             side == Behind[<<t, s>>]
  <1>1. /\ <<s, t>> \in Edge /\ ~Open(s, t) /\ ~Open(t, s)
        /\ est' = [est EXCEPT ![s] = @ \cup {t}]
        /\ queue' = [queue EXCEPT ![<<s, t>>] = q]
        /\ UNCHANGED <<users, channel>>
    BY DEF AcceptLink, ServerEstab
  <1>2. /\ <<t, s>> \in Edge /\ s # t /\ <<s, t>> # <<t, s>> /\ side \subseteq User
    BY <1>1, EdgeFacts
  <1>3. /\ t \notin est[s] /\ s \notin est[t] /\ queue[<<t, s>>] = <<>>
    BY <1>1 DEF Open
  <1>4. /\ users[t] \cap side = {} /\ users[s] \subseteq side
        /\ users[s] \cap Behind[<<s, t>>] = {} /\ Members(channel[t]) \subseteq users[t]
    BY <1>1, <1>2, <1>3, Unlinked, QueueTyped
  <1>5. Built(q, 1, side, users[s], Members(channel[s]), users[t], Members(channel[t]))
    <2> HIDE DEF side
    <2> QED BY <1>2, <1>4, BurstBuilt
  <1> HIDE DEF q
  <1>6. queue'[<<s, t>>] = q /\ queue'[<<t, s>>] = <<>>
        /\ \A e \in Edge : e # <<s, t>> => queue'[e] = queue[e]
    BY <1>1, <1>2, <1>3, QueueTyped
  <1>7. /\ t \in est'[s] /\ s \notin est'[t] /\ est'[t] = est[t]
    BY <1>1, <1>2, <1>3, QueueTyped
  <1>8. Flow(s, t)'
    <2>1. q \in Seq(Message) /\ Len(q) \in Nat /\ Len(q) >= 1 /\ 1 \in 1..Len(q)
      BY <1>5 DEF Built
    <2>2. q[1].type = "SERVER" /\ \A i \in 2..Len(q) : i \in 1..Len(q) /\ ~(i <= 1)
      BY <1>5, <2>1 DEF Built
    <2>3. Handshake(s, t)'
      BY <1>1, <1>4, <1>5, <1>6, <1>7, <2>2 DEF Handshake, Built
    <2>4. OfItsSide(s, t)' /\ Agrees(s, t)'
      BY <1>1, <1>5, <1>6 DEF OfItsSide, Agrees, Built
    <2> QED BY <2>3, <2>4 DEF Flow
  <1>9. Flow(t, s)'
    <2>1. ~Live(t, s)'
      BY <1>7 DEF Live
    <2>2. \A w, U2, P2 : Orderly(<<>>, U2, P2, w)
      BY DEF Orderly
    <2> QED BY <1>6, <2>1, <2>2 DEF Flow, Handshake, OfItsSide, Agrees
  <1>10. \A r \in Server : Reach(r)'
    BY <1>1, <1>6, EstabElsewhere
  <1>11. ASSUME NEW y, NEW z, <<y, z>> \in Edge PROVE Flow(y, z)'
    <2>1. CASE <<y, z>> = <<s, t>> \/ <<y, z>> = <<t, s>>
      BY <1>8, <1>9, <2>1
    <2>2. CASE ~(<<y, z>> = <<s, t>> \/ <<y, z>> = <<t, s>>)
      <3>1. UNCHANGED <<users, channel>> /\ est' = [est EXCEPT ![s] = @ \cup {t}]
        BY <1>1
      <3>2. /\ s \in Server /\ t \in Server /\ <<s, t>> \in Edge
            /\ \A e \in Edge : e # <<s, t>> /\ e # <<t, s>> => queue'[e] = queue[e]
        BY <1>1, <1>6
      <3> QED BY <1>11, <2>2, <3>1, <3>2, EstabElsewhere
    <2> QED BY <2>1, <2>2
  <1>12. \A e \in Edge : Flow(e[1], e[2])'
    BY <1>11 DEF Edge
  <1> QED BY <1>10, <1>12 DEF AllFlow

LEMMA ServerFlows ==
    ASSUME IInv, IInv', AllFlow, NEW s \in Server, NEW t \in Server, MrServer(s, t)
    PROVE  AllFlow'
  <1> DEFINE q == queue[<<t, s>>]
             p == Tail(q)
             m == Msg(s, t)
             side == Behind[<<t, s>>]
             b == IF s \in est[t] THEN <<>> \o Burst(s) ELSE queue[<<s, t>>]
  <1>1. /\ <<t, s>> \in Edge /\ q # <<>> /\ m = Head(q) /\ m.type = "SERVER"
        /\ est' = [est EXCEPT ![s] = @ \cup {t}]
        /\ UNCHANGED <<users, channel>>
    BY DEF MrServer, ServerEstab, Msg
  <1>2. queue' = [[queue EXCEPT ![<<t, s>>] = p] EXCEPT ![<<s, t>>] = b]
    <2>1. queue' = [[queue EXCEPT ![<<t, s>>] = p] EXCEPT
                       ![<<s, t>>] = IF s \in est[t] THEN <<>> \o Burst(s) ELSE @]
      BY DEF MrServer, ServerEstab
    <2>2. <<s, t>> # <<t, s>> /\ <<s, t>> \in Edge
      BY <1>1, EdgeFacts
    <2> QED BY <2>1, <2>2, QueueTyped
  <1>3. /\ <<s, t>> \in Edge /\ s # t /\ <<s, t>> # <<t, s>> /\ side \subseteq User
        /\ Behind[<<s, t>>] \subseteq User
    BY <1>1, EdgeFacts
  <1>4. q \in Seq(Message) /\ Flow(t, s) /\ Flow(s, t)
    BY <1>1, <1>3, QueueTyped DEF AllFlow
  <1>5. /\ queue'[<<t, s>>] = p /\ queue'[<<s, t>>] = b
        /\ \A e \in Edge : e # <<s, t>> /\ e # <<t, s>> => queue'[e] = queue[e]
    BY <1>1, <1>2, <1>3, QueueTyped
  <1> HIDE DEF q, m
  <1>6. /\ Len(q) \in Nat /\ m = q[1] /\ m \in Message
        /\ Len(p) = Len(q) - 1 /\ \A i \in 1..Len(p) : p[i] = q[i + 1]
        /\ p # <<>> => Len(p) >= 1
    BY <1>1, <1>4, TailFacts
  <1>7. /\ t \notin est[s] /\ queue[<<s, t>>] = <<>> /\ users[t] \cap side = {}
    BY <1>1, <1>4, <1>6 DEF Flow, Handshake, q
  <1>8. /\ users[s] \subseteq side /\ users[s] \cap Behind[<<s, t>>] = {}
        /\ Members(channel[t]) \subseteq users[t]
    BY <1>3, <1>7, Unlinked, QueueTyped
  <1>9. /\ t \in est'[s] /\ est'[t] = est[t]
    BY <1>1, <1>3, QueueTyped
  <1> HIDE DEF p, b
  <1>10. Flow(t, s)'
    <2>1. \A i \in 1..Len(p) : p[i].type # "SERVER" /\ Own(p[i], Behind[<<s, t>>])
      <3>1. \A i \in 1..Len(p) : i + 1 \in 2..Len(q) /\ i + 1 \in 1..Len(q)
        BY <1>6
      <3> QED BY <1>4, <1>6, <3>1 DEF Flow, Handshake, OfItsSide, q
    <2>2. Handshake(t, s)'
      <3>1. p # <<>> => 1 \in 1..Len(p)
        BY <1>6
      <3>2. \A i \in 2..Len(p) : i \in 1..Len(p)
        BY <1>6
      <3> QED BY <1>5, <1>9, <2>1, <3>1, <3>2 DEF Handshake
    <2>3. OfItsSide(t, s)'
      BY <1>5, <2>1 DEF OfItsSide
    <2>4. Live(t, s)' => Live(t, s)
      BY <1>1, <1>9 DEF Live, Open, q
    <2>5. \A w : Turns(m, users[s], Members(channel[s]), users[s], Members(channel[s]), w)
      BY <1>1 DEF Turns, Introduces, Dismisses, Enters, Leaves
    <2>6. ASSUME NEW w \in Behind[<<s, t>>]
          PROVE  /\ Orderly(p, users[s], Members(channel[s]), w)
                 /\ Live(t, s) => Mirror(p, users[t], Members(channel[t]),
                                         users[s], Members(channel[s]), w)
      <3>1. /\ Orderly(q, users[s], Members(channel[s]), w)
            /\ Live(t, s) => Mirror(q, users[t], Members(channel[t]),
                                    users[s], Members(channel[s]), w)
        BY <1>4 DEF Flow, Agrees, q
      <3> QED BY <1>1, <1>4, <2>5, <3>1, MirrorRead DEF p
    <2>7. Agrees(t, s)'
      BY <1>1, <1>5, <2>4, <2>6 DEF Agrees
    <2> QED BY <2>2, <2>3, <2>7 DEF Flow
  <1>11. Flow(s, t)'
    <2>1. CASE s \in est[t]
      <3>1. b = Burst(s)
        <4>1. Burst(s) \in Seq(Truthful(granted))
          BY BurstTruthful
        <4> QED BY <2>1, <4>1, ConcatEmptySeq DEF b
      <3>2. Built(b, 0, side, users[s], Members(channel[s]), users[t], Members(channel[t]))
        <4> HIDE DEF side
        <4> QED BY <1>3, <1>7, <1>8, <3>1, BurstBuilt
      <3>3. \A i \in 1..Len(b) : b[i].type # "SERVER"
        <4>1. \A i \in 1..Len(b) : ~(i <= 0)
          OBVIOUS
        <4> QED BY <3>2, <4>1 DEF Built
      <3>4. b # <<>> => 1 \in 1..Len(b)
        BY <3>2 DEF Built
      <3>5. Handshake(s, t)'
        <4>1. \A i \in 2..Len(b) : i \in 1..Len(b)
          OBVIOUS
        <4> QED BY <1>5, <1>9, <2>1, <3>3, <3>4, <4>1 DEF Handshake
      <3>6. OfItsSide(s, t)' /\ Agrees(s, t)'
        BY <1>1, <1>5, <3>2 DEF OfItsSide, Agrees, Built
      <3> QED BY <3>5, <3>6 DEF Flow
    <2>2. CASE s \notin est[t]
      <3>1. queue'[<<s, t>>] = <<>>
        BY <1>5, <1>7, <2>2 DEF b
      <3>2. ~Live(s, t)'
        BY <1>9, <2>2, <3>1 DEF Live, Open
      <3>3. \A w, U2, P2 : Orderly(<<>>, U2, P2, w)
        BY DEF Orderly
      <3> QED BY <3>1, <3>2, <3>3 DEF Flow, Handshake, OfItsSide, Agrees
    <2> QED BY <2>1, <2>2
  <1>12. \A r \in Server : Reach(r)'
    BY <1>1, <1>3, <1>5, EstabElsewhere
  <1>13. \A y, z : <<y, z>> \in Edge => Flow(y, z)'
    BY <1>1, <1>3, <1>5, <1>10, <1>11, EstabElsewhere
  <1>14. \A e \in Edge : Flow(e[1], e[2])'
    BY <1>13 DEF Edge
  <1> QED BY <1>12, <1>14 DEF AllFlow

-----------------------------------------------------------------------------
(* Members agree.                                                          *)

LEMMA StartsFlowing ==
    ASSUME Init
    PROVE  AllFlow
  <1>1. ASSUME NEW e \in Edge PROVE Flow(e[1], e[2])
    <2>1. <<e[1], e[2]>> \in Edge /\ e[1] \in Server /\ e[2] \in Server
      BY DEF Edge
    <2>2. queue[<<e[1], e[2]>>] = <<>> /\ ~Live(e[1], e[2])
      BY <2>1 DEF Init, Live
    <2>3. \A w, U, P : Orderly(<<>>, U, P, w)
      BY DEF Orderly
    <2> QED BY <2>2, <2>3 DEF Flow, Handshake, OfItsSide, Agrees
  <1>2. \A s \in Server : Reach(s)
    BY DEF Init, Reach
  <1> QED BY <1>1, <1>2 DEF AllFlow

LEMMA GentleBefore ==
    ASSUME IInv, [Next]_vars, Gentle'
    PROVE  Gentle /\ UNCHANGED <<kicks, kills>>
  <1>1. kicks \in Nat /\ kills \in Nat
    BY DEF IInv, Counters
  <1> DEFINE Same == UNCHANGED <<kicks, kills>>
             Counts == \/ Same
                       \/ kicks' = kicks + 1 /\ UNCHANGED kills
                       \/ kills' = kills + 1 /\ UNCHANGED kicks
  <1>2. ASSUME UNCHANGED vars \/ Tick PROVE Same
    BY <1>2 DEF vars, Tick
  <1>3. ASSUME ClientStep PROVE Counts
    <2>1. \A u \in User : Create(u) \/ Join(u) \/ Part(u) => Same
      BY DEF Create, Join, Part
    <2>2. \A u \in User, h \in Change : Mode(u, h) => Same
      BY DEF Mode
    <2>3. \A u, v \in User : Kick(u, v) => Counts
      BY DEF Kick
    <2>4. \A u \in User, s \in Server : Kill(s, u) => Counts
      BY DEF Kill
    <2> HIDE DEF Same
    <2> QED BY <1>3, <2>1, <2>2, <2>3, <2>4 DEF ClientStep
  <1>4. ASSUME NEW s \in Server, NEW t \in Server, Receive(s, t) PROVE Same
    <2>1. Steady => Same
      BY DEF Steady
    <2>2. MrServer(s, t) => Same
      BY DEF MrServer
    <2>3. /\ MsSjoin(s, t) \/ MsJoin(s, t) \/ MsTmode(s, t) \/ MsBmask(s, t) => Steady
          /\ MsLeave(s, t) \/ MsUid(s, t) \/ MsQuit(s, t) => Steady
      BY DEF MsSjoin, MsJoin, MsTmode, MsBmask, MsLeave, MsUid, MsQuit
    <2> QED BY <1>4, <2>1, <2>2, <2>3 DEF Receive
  <1>5. ASSUME NEW s \in Server, NEW t \in Server, AcceptLink(s, t) \/ CloseLink(s, t) PROVE Same
    BY <1>5 DEF AcceptLink, CloseLink
  <1>6. Counts
    <2> HIDE DEF Same
    <2> QED BY <1>3, <1>4, <1>5, <1>2 DEF Next, Same
  <1> QED BY <1>1, <1>6 DEF Gentle

LEMMA StaysFlowing ==
    ASSUME IInv, IInv', MInv, [Next]_vars
    PROVE  MInv'
  <1> SUFFICES ASSUME Gentle' PROVE AllFlow'
    BY DEF MInv
  <1>1. AllFlow /\ kicks \in Nat /\ kills \in Nat /\ kicks' = kicks /\ kills' = kills
    BY GentleBefore DEF MInv, IInv, Counters
  <1>2. CASE UNCHANGED vars \/ Tick
    <2>1. UNCHANGED <<channel, users, est, queue>>
      BY <1>2 DEF vars, Tick
    <2> QED BY <1>1, <2>1 DEF AllFlow, Flow, Reach, Handshake, OfItsSide, Agrees, Live, Open, Local
  <1>3. ASSUME NEW u \in User, NEW v \in User, Kick(u, v) PROVE FALSE
    BY <1>1, <1>3 DEF Kick
  <1>4. ASSUME NEW s \in Server, NEW u \in User, Kill(s, u) PROVE FALSE
    BY <1>1, <1>4 DEF Kill
  <1>5. CASE ClientStep
    BY <1>1, <1>3, <1>4, <1>5, CreateFlows, JoinFlows, PartFlows, ModeFlows DEF ClientStep
  <1>6. ASSUME NEW s \in Server, NEW t \in Server, Receive(s, t) PROVE AllFlow'
    BY <1>1, <1>6, SjoinFlows, RemoteJoinFlows, TmodeFlows, BmaskFlows, RemoteLeaveFlows, UidFlows,
       QuitFlows, ServerFlows DEF Receive
  <1>7. ASSUME NEW s \in Server, NEW t \in Server, AcceptLink(s, t) \/ CloseLink(s, t) PROVE AllFlow'
    BY <1>1, <1>7, AcceptFlows, CloseFlows
  <1> QED BY <1>2, <1>5, <1>6, <1>7 DEF Next

\* A client that a server knows is on one of the sides of each of its links.
LEMMA OneSide ==
    ASSUME IInv, AllFlow, NEW a \in Server, NEW b, <<a, b>> \in Edge, NEW w \in users[a]
    PROVE  w \in Behind[<<a, b>>] \/ w \in Behind[<<b, a>>]
  <1>1. Reach(a)
    BY DEF AllFlow
  <1>2. CASE w \in Local(a)
    BY <1>2, LocalSide
  <1>3. CASE w \notin Local(a)
    <2>1. PICK r \in est[a] : <<a, r>> \in Edge /\ w \in Behind[<<a, r>>]
      BY <1>1, <1>3 DEF Reach
    <2> QED BY <2>1, Beyond
  <1> QED BY <1>2, <1>3

\* With nothing under way on a link, both its ends have the same members.
LEMMA QuietMembers ==
    ASSUME IInv, AllFlow, Quiet, NEW s \in Server, NEW t \in Server, Linked(s, t)
    PROVE  Members(channel[s]) = Members(channel[t])
  <1>1. /\ <<s, t>> \in Edge /\ <<t, s>> \in Edge /\ t \in est[s]
    BY EdgeFacts DEF Linked
  <1>2. /\ s \in est[t] /\ queue[<<s, t>>] = <<>> /\ queue[<<t, s>>] = <<>>
    BY <1>1 DEF Quiet
  <1>3. Live(s, t) /\ Live(t, s) /\ Flow(s, t) /\ Flow(t, s)
    BY <1>1, <1>2 DEF Live, Open, AllFlow
  <1>4. Len(<<>>) = 0
    OBVIOUS
  <1>5. \A w \in Behind[<<s, t>>] : w \in Members(channel[t]) <=> w \in Members(channel[s])
    BY <1>2, <1>3, <1>4, UptoNothing DEF Flow, Agrees, Mirror
  <1>6. \A w \in Behind[<<t, s>>] : w \in Members(channel[s]) <=> w \in Members(channel[t])
    BY <1>2, <1>3, <1>4, UptoNothing DEF Flow, Agrees, Mirror
  <1>7. \A b : \A a \in Server : <<a, b>> \in Edge =>
            \A w \in Members(channel[a]) : w \in Behind[<<a, b>>] \/ w \in Behind[<<b, a>>]
    BY OneSide, QueueTyped
  <1> QED BY <1>1, <1>2, <1>5, <1>6, <1>7

\* The inductive invariant of the member lists: while nobody is kicked or killed, what a
\* server has of the members behind a link becomes, message by message, what the server
\* at its other end has (ms_sjoin, ms_join, ms_part, burst_TS6 and remove_dependents).
THEOREM MembersAgree == Spec => [](IInv /\ MInv)
  <1>1. Init => IInv /\ MInv
    BY StartsSound, StartsFlowing DEF MInv
  <1>2. IInv /\ MInv /\ [Next]_vars => IInv' /\ MInv'
    BY StaysSound, StaysFlowing
  <1> QED BY <1>1, <1>2, PTL DEF Spec

\* While nobody is kicked or killed, both ends of a quiet link have the same members,
\* whoever leaves and comes back and however often links break and come back
\* (modules/core/m_sjoin.c:245, modules/core/m_join.c:544, modules/core/m_part.c:151).
THEOREM SameMembersHolds == Spec => []SameMembers
  <1>1. IInv /\ MInv => SameMembers
    BY QuietMembers DEF SameMembers, MInv, Gentle
  <1> QED BY <1>1, MembersAgree, PTL

-----------------------------------------------------------------------------
(* The state of the channel.  What a server has of it is one of a kind: the *)
(* channel itself, and where modes are only given, its operators, modes and *)
(* bans.                                                                   *)

Kinds == IF OnlyGiven THEN {"channel", "op", "mode", "ban"} ELSE {"channel"}

Has(c, k, a) ==
    \/ k = "channel" /\ Exists(c)
    \/ k = "op" /\ a \in User /\ c.status[a] = "op"
    \/ k = "mode" /\ a \in c.modes
    \/ k = "ban" /\ a \in c.bans

Stamped == {"SJOIN", "JOIN", "TMODE", "BMASK"}

Gives(m, k, a) ==
    \/ m.type = "SJOIN" /\ \/ k = "channel"
                           \/ k = "op" /\ a \in User /\ m.status[a] = "op"
                           \/ k = "mode" /\ a \in m.modes
    \/ m.type = "JOIN" /\ k = "mode" /\ a \in m.modes
    \/ m.type = "TMODE" /\ m.change.dir = "+" /\ k = m.change.kind /\ a = m.change.arg
    \/ m.type = "BMASK" /\ k = "ban" /\ a \in m.bans

\* Where the channel is c, what m gives is known, or lost to a lower timestamp.
Backs(c, m) ==
    m.type \in Stamped =>
        /\ Exists(c) /\ c.ts <= m.ts
        /\ c.ts = m.ts => \A a : \A k \in Kinds : Gives(m, k, a) => Has(c, k, a)

\* A reader with the channel d will have this under ts, or a lower timestamp, when
\* it has read the first n messages of q.
Will(q, n, d, k, a, ts) ==
    \/ Exists(d) /\ (d.ts < ts \/ (d.ts = ts /\ Has(d, k, a)))
    \/ \E j \in 1..n : q[j].type = "SJOIN" /\ q[j].ts < ts
    \/ \E j \in 1..n : q[j].type \in Stamped /\ q[j].ts = ts /\ Gives(q[j], k, a)

\* It will have the member w.
Comes(q, n, d, w) == w \in Members(d) \/ \E j \in 1..n : q[j] \in Enters(w)

\* Message i of q does not come before what it depends on: its timestamp, the
\* status of who has made the change, and the membership of who is made operator.
OnTime(q, i, d) ==
    LET m == q[i] IN
    /\ m.type \in {"JOIN", "TMODE", "BMASK"} => Will(q, i - 1, d, "channel", "channel", m.ts)
    /\ m.type = "TMODE" /\ OnlyGiven => Will(q, i - 1, d, "op", m.u, m.ts)
    /\ m.type = "TMODE" /\ m.change.kind = "op" => Comes(q, i - 1, d, m.change.arg)

\* Nobody leaves; an SJOIN adds somebody, and a lone `0' comes without modes.
Plain(m) ==
    /\ m.type \notin {"PART", "KICK", "GONE"}
    /\ m.type = "SJOIN" => /\ \E w \in User : m.status[w] # "out"
                           /\ m.zero => m.modes = {}

\* What t has of the channel s will have.
Covered(t, s) ==
    LET q == queue[<<t, s>>]
        c == channel[t] IN
    \A a : \A k \in Kinds : Exists(c) /\ Has(c, k, a) => Will(q, Len(q), channel[s], k, a, c.ts)

Promise(t, s) ==
    LET q == queue[<<t, s>>] IN
    /\ Open(s, t) => Open(t, s)
    /\ \A i \in 1..Len(q) : Plain(q[i]) /\ Backs(channel[t], q[i]) /\ OnTime(q, i, channel[s])
    /\ s \in est[t] => Covered(t, s)

AllPromised == \A e \in Edge : Promise(e[1], e[2])

KInv == NobodyLeft => AllPromised

-----------------------------------------------------------------------------
(* Promises and queues.                                                    *)

\* A channel only rises: nothing is lost but to a lower timestamp, and no member.
Rises(d, e) ==
    /\ Exists(d) => /\ Exists(e) /\ e.ts <= d.ts
                    /\ e.ts = d.ts => \A a : \A k \in Kinds : Has(d, k, a) => Has(e, k, a)
    /\ Members(d) \subseteq Members(e)

LEMMA RisesSame ==
    ASSUME NEW c \in Channel
    PROVE  Rises(c, c)
  BY DEF Rises, Channel

\* What the sender has told stays backed.
LEMMA BacksStays ==
    ASSUME NEW c \in Channel, NEW e \in Channel, Rises(c, e), NEW m \in Message, Backs(c, m)
    PROVE  Backs(e, m)
  <1>1. m.type \in Stamped => m.ts \in Nat
    BY ReadMessages DEF Stamped
  <1>2. c.ts \in Nat /\ e.ts \in Nat
    BY DEF Channel
  <1> QED BY <1>1, <1>2 DEF Backs, Rises

\* A promise is kept while the reader's channel rises, or the queue grows.
LEMMA WillStays ==
    ASSUME NEW d \in Channel, NEW e \in Channel, Rises(d, e), NEW q, NEW p, NEW n \in Nat, NEW l \in Nat,
           n <= l, \A i \in 1..n : p[i] = q[i],
           NEW k \in Kinds, NEW a, NEW ts \in Nat, Will(q, n, d, k, a, ts)
    PROVE  Will(p, l, e, k, a, ts)
  <1>1. d.ts \in Nat /\ e.ts \in Nat
    BY DEF Channel
  <1>2. \A j \in 1..n : j \in 1..l /\ p[j] = q[j]
    OBVIOUS
  <1>3. CASE Exists(d) /\ (d.ts < ts \/ (d.ts = ts /\ Has(d, k, a)))
    BY <1>1, <1>3 DEF Will, Rises
  <1>4. CASE \E j \in 1..n : q[j].type = "SJOIN" /\ q[j].ts < ts
    BY <1>2, <1>4 DEF Will
  <1>5. CASE \E j \in 1..n : q[j].type \in Stamped /\ q[j].ts = ts /\ Gives(q[j], k, a)
    BY <1>2, <1>5 DEF Will
  <1> QED BY <1>3, <1>4, <1>5 DEF Will

\* It is kept when the first message is read, and taken for what it is.
LEMMA WillRead ==
    ASSUME NEW d \in Channel, NEW e \in Channel, Rises(d, e), NEW q \in Seq(Message), q # <<>>,
           Backs(e, Head(q)), NEW n \in 0..(Len(q) - 1),
           NEW k \in Kinds, NEW a, NEW ts \in Nat, Will(q, n + 1, d, k, a, ts)
    PROVE  Will(Tail(q), n, e, k, a, ts)
  <1> DEFINE p == Tail(q)
             h == Head(q)
  <1>1. h \in Message /\ h = q[1] /\ n \in Nat /\ \A i \in 1..n : p[i] = q[i + 1]
    BY TailFacts
  <1>2. d.ts \in Nat /\ e.ts \in Nat /\ (h.type \in Stamped => h.ts \in Nat)
    BY <1>1, ReadMessages DEF Channel, Stamped
  <1> HIDE DEF p, h
  <1>3. \A j \in 1..(n + 1) : j = 1 \/ (j - 1 \in 1..n /\ p[j - 1] = q[j])
    BY <1>1
  <1>4. Backs(e, h)
    BY DEF h
  <1>5. CASE Exists(d) /\ (d.ts < ts \/ (d.ts = ts /\ Has(d, k, a)))
    BY <1>2, <1>5 DEF Will, Rises, p
  <1>6. CASE \E j \in 1..(n + 1) : q[j].type = "SJOIN" /\ q[j].ts < ts
    <2>1. PICK j \in 1..(n + 1) : q[j].type = "SJOIN" /\ q[j].ts < ts
      BY <1>6
    <2>2. CASE j = 1
      <3>1. h.type = "SJOIN" /\ h.ts < ts
        BY <1>1, <2>1, <2>2
      <3>2. Exists(e) /\ e.ts < ts
        BY <1>2, <1>4, <3>1 DEF Backs, Stamped
      <3> QED BY <3>2 DEF Will
    <2>3. CASE j - 1 \in 1..n /\ p[j - 1] = q[j]
      BY <2>1, <2>3 DEF Will, p
    <2> QED BY <1>3, <2>2, <2>3
  <1>7. CASE \E j \in 1..(n + 1) : q[j].type \in Stamped /\ q[j].ts = ts /\ Gives(q[j], k, a)
    <2>1. PICK j \in 1..(n + 1) : q[j].type \in Stamped /\ q[j].ts = ts /\ Gives(q[j], k, a)
      BY <1>7
    <2>2. CASE j = 1
      <3>1. h.type \in Stamped /\ h.ts = ts /\ Gives(h, k, a)
        BY <1>1, <2>1, <2>2
      <3>2. Exists(e) /\ (e.ts < ts \/ (e.ts = ts /\ Has(e, k, a)))
        BY <1>2, <1>4, <3>1 DEF Backs
      <3> QED BY <3>2 DEF Will
    <2>3. CASE j - 1 \in 1..n /\ p[j - 1] = q[j]
      BY <2>1, <2>3 DEF Will, p
    <2> QED BY <1>3, <2>2, <2>3
  <1>8. \/ Exists(d) /\ (d.ts < ts \/ (d.ts = ts /\ Has(d, k, a)))
        \/ \E j \in 1..(n + 1) : q[j].type = "SJOIN" /\ q[j].ts < ts
        \/ \E j \in 1..(n + 1) : q[j].type \in Stamped /\ q[j].ts = ts /\ Gives(q[j], k, a)
    BY DEF Will
  <1> QED BY <1>5, <1>6, <1>7, <1>8 DEF p

\* Now, with nothing to read.
LEMMA WillNow ==
    ASSUME NEW q, NEW d, NEW k, NEW a, NEW ts, Will(q, 0, d, k, a, ts)
    PROVE  Exists(d) /\ (d.ts < ts \/ (d.ts = ts /\ Has(d, k, a)))
  BY DEF Will

\* The kinds that promises are about.
LEMMA KindFacts ==
    /\ "channel" \in Kinds
    /\ OnlyGiven => "op" \in Kinds /\ "mode" \in Kinds /\ "ban" \in Kinds
    /\ \A k \in Kinds : k = "channel" \/ OnlyGiven
    /\ \A k \in Kinds : k \in {"channel", "op", "mode", "ban"}
  BY DEF Kinds

\* A message stays on time while the reader's channel rises.
LEMMA OnTimeStays ==
    ASSUME NEW d \in Channel, NEW e \in Channel, Rises(d, e), NEW q, NEW p, NEW i \in Nat, i >= 1,
           \A j \in 1..i : p[j] = q[j], q[i] \in Message, OnTime(q, i, d)
    PROVE  OnTime(p, i, e)
  <1> DEFINE m == q[i]
  <1>1. p[i] = m /\ i - 1 \in Nat /\ i - 1 <= i - 1 /\ \A j \in 1..(i - 1) : p[j] = q[j]
    OBVIOUS
  <1>2. m.type \in {"JOIN", "TMODE", "BMASK"} => m.ts \in Nat
    BY ReadMessages
  <1>3. ASSUME NEW k \in Kinds, NEW a, m.type \in {"JOIN", "TMODE", "BMASK"},
               Will(q, i - 1, d, k, a, m.ts)
        PROVE  Will(p, i - 1, e, k, a, m.ts)
    <2> HIDE DEF m
    <2>1. m.ts \in Nat
      BY <1>2, <1>3
    <2> DEFINE n == i - 1
    <2>2. n \in Nat /\ n <= n /\ \A j \in 1..n : p[j] = q[j]
      BY <1>1
    <2>3. Will(q, n, d, k, a, m.ts)
      BY <1>3
    <2> HIDE DEF n
    <2>4. Will(p, n, e, k, a, m.ts)
      BY <2>1, <2>2, <2>3, WillStays
    <2> QED BY <2>4 DEF n
  <1>4. \A w : Comes(q, i - 1, d, w) => Comes(p, i - 1, e, w)
    BY <1>1 DEF Comes, Rises
  <1>5. /\ m.type \in {"JOIN", "TMODE", "BMASK"} => Will(q, i - 1, d, "channel", "channel", m.ts)
        /\ m.type = "TMODE" /\ OnlyGiven => Will(q, i - 1, d, "op", m.u, m.ts)
        /\ m.type = "TMODE" /\ m.change.kind = "op" => Comes(q, i - 1, d, m.change.arg)
    BY DEF OnTime
  <1> HIDE DEF m
  <1> QED BY <1>1, <1>3, <1>4, <1>5, KindFacts DEF OnTime

\* And when the first message is read.
LEMMA OnTimeRead ==
    ASSUME NEW d \in Channel, NEW e \in Channel, Rises(d, e), NEW q \in Seq(Message), q # <<>>,
           Backs(e, Head(q)), \A w \in User : Head(q) \in Enters(w) => w \in Members(e),
           NEW i \in 1..(Len(q) - 1), OnTime(q, i + 1, d)
    PROVE  OnTime(Tail(q), i, e)
  <1> DEFINE p == Tail(q)
             m == q[i + 1]
             h == Head(q)
  <1>1. Len(q) \in Nat /\ h = q[1] /\ \A j \in 1..(Len(q) - 1) : p[j] = q[j + 1]
    BY TailFacts
  <1>2. /\ p[i] = m /\ m \in Message /\ i - 1 \in 0..(Len(q) - 1) /\ (i - 1) + 1 = i
        /\ (i + 1) - 1 = i
    <2> HIDE DEF p
    <2> QED BY <1>1
  <1>3. m.type \in {"JOIN", "TMODE", "BMASK"} => m.ts \in Nat
    BY <1>2, ReadMessages
  <1>4. /\ m.type \in {"JOIN", "TMODE", "BMASK"} => Will(q, i, d, "channel", "channel", m.ts)
        /\ m.type = "TMODE" /\ OnlyGiven => Will(q, i, d, "op", m.u, m.ts)
        /\ m.type = "TMODE" /\ m.change.kind = "op" => Comes(q, i, d, m.change.arg)
    BY <1>2 DEF OnTime
  <1> HIDE DEF m, p
  <1>5. ASSUME NEW k \in Kinds, NEW a, m.type \in {"JOIN", "TMODE", "BMASK"},
               Will(q, i, d, k, a, m.ts)
        PROVE  Will(p, i - 1, e, k, a, m.ts)
    <2>1. Will(q, (i - 1) + 1, d, k, a, m.ts)
      BY <1>2, <1>5
    <2> QED BY <1>2, <1>3, <1>5, <2>1, WillRead DEF p
  <1>6. ASSUME NEW w \in User, Comes(q, i, d, w) PROVE Comes(p, i - 1, e, w)
    <2>1. CASE w \in Members(d)
      BY <2>1 DEF Comes, Rises
    <2>2. CASE \E j \in 1..i : q[j] \in Enters(w)
      <3>1. PICK j \in 1..i : q[j] \in Enters(w)
        BY <2>2
      <3>2. CASE j = 1
        BY <1>1, <3>1, <3>2 DEF Comes
      <3>3. CASE j # 1
        <4>1. j - 1 \in 1..(i - 1) /\ p[j - 1] = q[j]
          BY <1>1, <3>3
        <4> QED BY <3>1, <4>1 DEF Comes
      <3> QED BY <3>2, <3>3
    <2> QED BY <1>6, <2>1, <2>2 DEF Comes
  <1>7. p[i] = m /\ (m.type = "TMODE" /\ m.change.kind = "op" => m.change.arg \in User)
    BY <1>2, ReadMessages, ChangeAssumption
  <1> QED BY <1>4, <1>5, <1>6, <1>7, KindFacts DEF OnTime, p

-----------------------------------------------------------------------------
(* A step of one server while nobody leaves.                               *)

\* What e has and c has not is given by m.
Told(m, c, e) ==
    \A a : \A k \in Kinds : Exists(e) /\ Has(e, k, a) =>
        \/ Exists(c) /\ c.ts = e.ts /\ Has(c, k, a)
        \/ m.type \in Stamped /\ m.ts = e.ts /\ Gives(m, k, a)

\* Where the channel is c, m depends on nothing else.
Due(m, c) ==
    /\ m.type \in {"JOIN", "TMODE", "BMASK"} => Exists(c) /\ c.ts = m.ts
    /\ m.type = "TMODE" /\ OnlyGiven => m.u \in User /\ c.status[m.u] = "op"
    /\ m.type = "TMODE" /\ m.change.kind = "op" => m.change.arg \in Members(c)

\* The channel of s rises to e, and s sends ms to its peers other than x.
Rising(s, x, e, ms) ==
    /\ e \in Channel /\ Rises(channel[s], e)
    /\ channel' = [channel EXCEPT ![s] = e] /\ UNCHANGED est
    /\ \/ ms = <<>> /\ e = channel[s]
       \/ \E m \in Message : /\ ms = <<m>> /\ Plain(m) /\ Backs(e, m)
                             /\ Told(m, channel[s], e) /\ Due(m, channel[s])
    /\ Sends(s, x, ms)

\* A link that the step does not touch.
LEMMA ElsewherePromised ==
    ASSUME IInv, AllPromised, NEW s \in Server, NEW x, NEW e, NEW ms, Rising(s, x, e, ms),
           NEW y, NEW z, <<y, z>> \in Edge, y # s, z # s
    PROVE  Promise(y, z)'
  <1>1. Promise(y, z) /\ <<z, y>> \in Edge /\ y \in Server /\ z \in Server
    BY EdgeFacts DEF AllPromised
  <1>2. queue'[<<y, z>>] = queue[<<y, z>>] /\ queue'[<<z, y>>] = queue[<<z, y>>]
    BY <1>1 DEF Rising, Sends
  <1>3. channel'[y] = channel[y] /\ channel'[z] = channel[z] /\ est' = est
    BY <1>1, QueueTyped DEF Rising
  <1> QED BY <1>1, <1>2, <1>3 DEF Promise, Covered, Open

\* What another peer has sent to s.
LEMMA InboundPromised ==
    ASSUME IInv, AllPromised, NEW s \in Server, NEW x, NEW e, NEW ms, Rising(s, x, e, ms),
           NEW y, <<y, s>> \in Edge, y # x
    PROVE  Promise(y, s)'
  <1> DEFINE q == queue[<<y, s>>]
  <1>1. Promise(y, s) /\ <<s, y>> \in Edge /\ y \in Server /\ y # s
    BY EdgeFacts DEF AllPromised
  <1>2. queue'[<<y, s>>] = q
    BY <1>1 DEF Rising, Sends
  <1>3. /\ channel'[y] = channel[y] /\ channel[y] \in Channel /\ channel'[s] = e /\ est' = est
        /\ channel[s] \in Channel /\ e \in Channel /\ Rises(channel[s], e)
    BY <1>1, QueueTyped DEF Rising
  <1>4. q \in Seq(Message) /\ Len(q) \in Nat
    BY QueueTyped
  <1>5. queue[<<s, y>>] # <<>> => queue'[<<s, y>>] # <<>>
    <2>1. queue[<<s, y>>] \in Seq(Message) /\ (ms = <<>> \/ \E m \in Message : ms = <<m>>)
      BY <1>1, QueueTyped DEF Rising
    <2>2. queue'[<<s, y>>] = queue[<<s, y>>] \o ms \/ queue'[<<s, y>>] = queue[<<s, y>>]
      BY <1>1 DEF Rising, Sends
    <2> QED BY <2>1, <2>2
  <1> HIDE DEF q
  <1>6. (Open(s, y) => Open(y, s))'
    BY <1>1, <1>2, <1>3, <1>5 DEF Promise, Open, q
  <1>7. ASSUME NEW i \in 1..Len(q)
        PROVE  Plain(q[i]) /\ Backs(channel[y], q[i]) /\ OnTime(q, i, e)
    <2>1. Plain(q[i]) /\ Backs(channel[y], q[i]) /\ OnTime(q, i, channel[s])
      BY <1>1 DEF Promise, q
    <2>2. i \in Nat /\ i >= 1 /\ q[i] \in Message
      BY <1>4
    <2> QED BY <1>3, <2>1, <2>2, OnTimeStays
  <1>8. ASSUME s \in est[y], NEW k \in Kinds, NEW a, Exists(channel[y]), Has(channel[y], k, a)
        PROVE  Will(q, Len(q), e, k, a, channel[y].ts)
    <2> DEFINE n == Len(q)
               ts == channel[y].ts
    <2>1. Will(q, n, channel[s], k, a, ts) /\ ts \in Nat
      BY <1>1, <1>3, <1>8 DEF Promise, Covered, q, Channel
    <2>2. n \in Nat /\ n <= n /\ \A j \in 1..n : q[j] = q[j]
      BY <1>4
    <2> HIDE DEF n, ts
    <2>3. Will(q, n, e, k, a, ts)
      BY <1>3, <2>1, <2>2, WillStays
    <2> QED BY <2>3 DEF n, ts
  <1> QED BY <1>2, <1>3, <1>6, <1>7, <1>8 DEF Promise, Covered, q

\* Whoever is a member at s, on either side of the link, is seen as one at z before z
\* reads what s sends next.
LEMMA MemberComes ==
    ASSUME IInv, AllFlow, AllPromised, NEW s \in Server, NEW z, <<s, z>> \in Edge, Live(s, z),
           NEW w \in Members(channel[s])
    PROVE  Comes(queue[<<s, z>>], Len(queue[<<s, z>>]), channel[z], w)
  <1>1. /\ <<z, s>> \in Edge /\ z \in Server /\ Flow(s, z) /\ Flow(z, s) /\ Promise(z, s)
        /\ w \in users[s]
    <2>1. <<z, s>> \in Edge /\ z \in Server /\ w \in users[s]
      BY EdgeFacts, QueueTyped
    <2>2. Flow(s, z) /\ Flow(z, s) /\ Promise(z, s)
      BY <2>1 DEF AllFlow, AllPromised
    <2> QED BY <2>1, <2>2
  <1>2. CASE w \in Behind[<<z, s>>]
    <2>1. Upto(queue[<<s, z>>], Len(queue[<<s, z>>]), Enters(w), Leaves(w), w, Members(channel[z]))
      BY <1>1, <1>2 DEF Flow, Agrees, Mirror
    <2> QED BY <2>1 DEF Upto, Comes
  <1>3. CASE w \in Behind[<<s, z>>]
    <2>1. s \in est[z]
      BY <1>1, <1>3, TailFacts, QueueTyped DEF Live, Open, Flow, Handshake
    <2>2. Live(z, s)
      BY <2>1 DEF Live, Open
    <2>3. \A i \in 1..Len(queue[<<z, s>>]) : queue[<<z, s>>][i] \notin Leaves(w)
      BY <1>1 DEF Promise, Plain, Leaves
    <2>4. w \in Members(channel[z])
      BY <1>1, <1>3, <2>2, <2>3 DEF Flow, Agrees, Mirror, Upto
    <2> QED BY <2>4 DEF Comes
  <1> QED BY <1>1, <1>2, <1>3, OneSide

\* What s sends to another peer.
LEMMA OutboundPromised ==
    ASSUME IInv, AllFlow, AllPromised, NEW s \in Server, NEW x, NEW e, NEW ms, Rising(s, x, e, ms),
           NEW z, <<s, z>> \in Edge, z # x
    PROVE  Promise(s, z)'
  <1> DEFINE q == queue[<<s, z>>]
             c == channel[s]
             d == channel[z]
  <1>1. Promise(s, z) /\ Promise(z, s) /\ <<z, s>> \in Edge /\ z \in Server /\ z # s
    <2>1. <<z, s>> \in Edge /\ z \in Server /\ z # s
      BY EdgeFacts
    <2>2. Promise(s, z) /\ Promise(z, s)
      BY <2>1 DEF AllPromised
    <2> QED BY <2>1, <2>2
  <1>2. /\ queue'[<<z, s>>] = queue[<<z, s>>]
        /\ queue'[<<s, z>>] = IF Live(s, z) THEN q \o ms ELSE q
    BY <1>1 DEF Rising, Sends
  <1>3. /\ d \in Channel /\ channel'[z] = d /\ channel'[s] = e /\ est' = est
        /\ c \in Channel /\ e \in Channel /\ Rises(c, e)
    BY <1>1, QueueTyped DEF Rising
  <1>4. q \in Seq(Message) /\ Len(q) \in Nat
    BY QueueTyped
  <1>5. z \in est[s] => Live(s, z)
    BY <1>1 DEF Live, Open, Promise
  <1>6. \A i \in 1..Len(q) : Plain(q[i]) /\ Backs(e, q[i]) /\ OnTime(q, i, d)
    <2> SUFFICES ASSUME NEW i \in 1..Len(q) PROVE Plain(q[i]) /\ Backs(e, q[i]) /\ OnTime(q, i, d)
      OBVIOUS
    <2>1. Plain(q[i]) /\ Backs(c, q[i]) /\ OnTime(q, i, d) /\ q[i] \in Message
      BY <1>1, <1>4 DEF Promise
    <2> QED BY <1>3, <2>1, BacksStays
  <1>7. CASE ~Live(s, z)
    BY <1>1, <1>2, <1>3, <1>5, <1>6, <1>7 DEF Promise, Open
  <1>8. CASE ms = <<>> /\ e = c
    <2>1. queue'[<<s, z>>] = q
      BY <1>2, <1>4, <1>8
    <2>2. channel'[s] = c
      BY <1>3, <1>8
    <2> QED BY <1>1, <1>2, <1>3, <2>1, <2>2 DEF Promise, Covered, Open
  <1>9. ASSUME Live(s, z), NEW m \in Message, ms = <<m>>, Plain(m), Backs(e, m), Told(m, c, e), Due(m, c)
        PROVE  Promise(s, z)'
    <2> DEFINE p == q \o <<m>>
    <2>1. /\ queue'[<<s, z>>] = p /\ p \in Seq(Message) /\ Len(p) = Len(q) + 1 /\ p # <<>>
          /\ p[Len(q) + 1] = m /\ \A i \in 1..Len(q) : p[i] = q[i]
      BY <1>2, <1>4, <1>9, QueueFacts
    <2> HIDE DEF p
    <2>2. z \in est[s]
      <3>1. Open(z, s) /\ z \in est[s]
        BY <1>9 DEF Live
      <3> QED BY <3>1
    <2>3. \A a : \A k \in Kinds : Exists(c) /\ Has(c, k, a) => Will(q, Len(q), d, k, a, c.ts)
      BY <1>1, <1>9 DEF Promise, Covered, Live
    <2>4. OnTime(p, Len(q) + 1, d)
      <3>1. \A k, a, ts : Will(q, Len(q), d, k, a, ts) => Will(p, Len(q), d, k, a, ts)
        BY <2>1 DEF Will
      <3>2. \A w \in Members(c) : Comes(p, Len(q), d, w)
        BY <1>9, <2>1, MemberComes DEF Comes
      <3>3. m.type \in {"JOIN", "TMODE", "BMASK"} => Will(p, Len(q), d, "channel", "channel", m.ts)
        BY <1>9, <2>3, <3>1, KindFacts DEF Due, Has
      <3>4. m.type = "TMODE" /\ OnlyGiven => Will(p, Len(q), d, "op", m.u, m.ts)
        BY <1>9, <2>3, <3>1, KindFacts DEF Due, Has
      <3>5. (Len(q) + 1) - 1 = Len(q)
        BY <1>4
      <3> QED BY <1>9, <2>1, <3>2, <3>3, <3>4, <3>5 DEF OnTime, Due
    <2>5. ASSUME NEW i \in 1..Len(p)
          PROVE  Plain(p[i]) /\ Backs(e, p[i]) /\ OnTime(p, i, d)
      <3>1. CASE i = Len(q) + 1
        BY <1>9, <2>1, <2>4, <3>1
      <3>2. CASE i \in 1..Len(q)
        <4>1. /\ i \in Nat /\ i >= 1 /\ p[i] = q[i] /\ q[i] \in Message
              /\ \A j \in 1..i : p[j] = q[j]
          <5> HIDE DEF q
          <5>1. \A j \in 1..i : j \in 1..Len(q)
            BY <1>4, <3>2
          <5> QED BY <1>4, <2>1, <3>2, <5>1
        <4>2. Rises(d, d)
          BY <1>3, RisesSame
        <4>3. Plain(q[i]) /\ Backs(e, q[i]) /\ OnTime(q, i, d)
          BY <1>6, <3>2
        <4> HIDE DEF q, d
        <4>4. OnTime(p, i, d)
          BY <1>3, <4>1, <4>2, <4>3, OnTimeStays DEF d
        <4> QED BY <4>1, <4>3, <4>4
      <3> QED BY <1>4, <2>1, <2>5, <3>1, <3>2
    <2>6. ASSUME NEW k \in Kinds, NEW a, Exists(e), Has(e, k, a)
          PROVE  Will(p, Len(p), d, k, a, e.ts)
      <3>1. CASE Exists(c) /\ c.ts = e.ts /\ Has(c, k, a)
        <4>1. Will(q, Len(q), d, k, a, e.ts)
          BY <2>3, <3>1
        <4>2. \A j \in 1..Len(q) : j \in 1..Len(p) /\ p[j] = q[j]
          <5>1. Len(q) \in Nat /\ Len(p) = Len(q) + 1
            BY <1>4, <2>1
          <5> HIDE DEF q
          <5> QED BY <2>1, <5>1
        <4> QED BY <4>1, <4>2 DEF Will
      <3>2. CASE m.type \in Stamped /\ m.ts = e.ts /\ Gives(m, k, a)
        <4>1. Len(q) + 1 \in 1..Len(p)
          BY <1>4, <2>1
        <4> QED BY <2>1, <3>2, <4>1 DEF Will
      <3> QED BY <1>9, <2>6, <3>1, <3>2 DEF Told
    <2>7. (Open(z, s) => Open(s, z))'
      BY <1>3, <2>2 DEF Open
    <2> QED BY <1>3, <2>1, <2>5, <2>6, <2>7 DEF Promise, Covered
  <1> QED BY <1>7, <1>8, <1>9 DEF Rising

\* What s has read from its peer t.
LEMMA ReadPromised ==
    ASSUME IInv, AllPromised, NEW s \in Server, NEW t, <<t, s>> \in Edge, t \in est[s],
           queue[<<t, s>>] # <<>>, NEW e, NEW ms, Rising(s, t, e, ms),
           queue'[<<t, s>>] = Tail(queue[<<t, s>>]),
           Backs(e, Msg(s, t)), \A w \in User : Msg(s, t) \in Enters(w) => w \in Members(e)
    PROVE  Promise(t, s)'
  <1> DEFINE q == queue[<<t, s>>]
             p == Tail(q)
             d == channel[s]
             c == channel[t]
  <1>1. Promise(t, s) /\ <<s, t>> \in Edge /\ t \in Server /\ t # s
    <2>1. <<s, t>> \in Edge /\ t \in Server /\ t # s
      BY EdgeFacts
    <2>2. Promise(t, s)
      BY DEF AllPromised
    <2> QED BY <2>1, <2>2
  <1>2. queue'[<<t, s>>] = p /\ queue'[<<s, t>>] = queue[<<s, t>>]
    BY <1>1 DEF Rising, Sends
  <1>3. /\ c \in Channel /\ channel'[t] = c /\ channel'[s] = e /\ est' = est
        /\ d \in Channel /\ e \in Channel /\ Rises(d, e)
    BY <1>1, QueueTyped DEF Rising
  <1>4. q \in Seq(Message) /\ Head(q) = Msg(s, t) /\ q # <<>>
    BY QueueTyped DEF Msg
  <1>5. /\ Len(q) \in Nat /\ Len(q) >= 1 /\ Len(p) = Len(q) - 1
        /\ \A i \in 1..(Len(q) - 1) : p[i] = q[i + 1]
    <2> HIDE DEF q
    <2> QED BY <1>4, TailFacts
  <1>6. (Open(s, t) => Open(t, s))'
    BY <1>1, <1>2, <1>3 DEF Open, Promise
  <1> HIDE DEF q, p, d, c
  <1>7. ASSUME NEW i \in 1..Len(p)
        PROVE  Plain(p[i]) /\ Backs(c, p[i]) /\ OnTime(p, i, e)
    <2>1. i \in 1..(Len(q) - 1) /\ i + 1 \in 1..Len(q) /\ p[i] = q[i + 1]
      BY <1>5
    <2>2. Plain(q[i + 1]) /\ Backs(c, q[i + 1]) /\ OnTime(q, i + 1, d)
      BY <1>1, <2>1 DEF Promise, q, c, d
    <2>3. OnTime(Tail(q), i, e)
      BY <1>3, <1>4, <2>1, <2>2, OnTimeRead
    <2> QED BY <2>1, <2>2, <2>3 DEF p
  <1>8. ASSUME s \in est[t], NEW k \in Kinds, NEW a, Exists(c), Has(c, k, a)
        PROVE  Will(p, Len(p), e, k, a, c.ts)
    <2> DEFINE n == Len(q) - 1
               ts == c.ts
    <2>1. Will(q, n + 1, d, k, a, ts)
      <3>1. n + 1 = Len(q)
        BY <1>5
      <3>2. Will(q, Len(q), d, k, a, ts)
        BY <1>1, <1>8 DEF Promise, Covered, q, c, d
      <3> QED BY <3>1, <3>2
    <2>2. n \in 0..(Len(q) - 1) /\ n = Len(p) /\ ts \in Nat
      BY <1>3, <1>5 DEF Channel
    <2> HIDE DEF n, ts
    <2>3. Will(Tail(q), n, e, k, a, ts)
      BY <1>3, <1>4, <2>1, <2>2, WillRead
    <2> QED BY <2>2, <2>3 DEF p, ts
  <1> QED BY <1>2, <1>3, <1>6, <1>7, <1>8 DEF Promise, Covered, q, c, d

\* What s sends to the peer t whose message it reads: t has all of it already.
LEMMA BackPromised ==
    ASSUME IInv, AllPromised, NEW s \in Server, NEW t, <<t, s>> \in Edge, t \in est[s],
           queue[<<t, s>>] # <<>>, NEW e, NEW ms, Rising(s, t, e, ms), Told(Msg(s, t), channel[s], e)
    PROVE  Promise(s, t)'
  <1> DEFINE q == queue[<<s, t>>]
             c == channel[s]
             d == channel[t]
             h == Msg(s, t)
  <1>1. Promise(t, s) /\ Promise(s, t) /\ <<s, t>> \in Edge /\ t \in Server /\ t # s
    <2>1. <<s, t>> \in Edge /\ t \in Server /\ t # s
      BY EdgeFacts
    <2>2. Promise(t, s) /\ Promise(s, t)
      BY <2>1 DEF AllPromised
    <2> QED BY <2>1, <2>2
  <1>2. queue'[<<s, t>>] = q
    BY <1>1 DEF Rising, Sends
  <1>3. /\ d \in Channel /\ channel'[t] = d /\ channel'[s] = e /\ est' = est
        /\ c \in Channel /\ e \in Channel /\ Rises(c, e)
    BY <1>1, QueueTyped DEF Rising
  <1>4. q \in Seq(Message)
    BY <1>1, QueueTyped
  <1>5. Backs(d, h) /\ h \in Message
    <2>1. queue[<<t, s>>] \in Seq(Message) /\ queue[<<t, s>>] # <<>>
      BY QueueTyped
    <2>2. h \in Message /\ h = queue[<<t, s>>][1] /\ 1 \in 1..Len(queue[<<t, s>>])
      BY <2>1, TailFacts DEF Msg
    <2> QED BY <1>1, <2>2 DEF Promise
  <1>6. ASSUME NEW i \in 1..Len(q)
        PROVE  Plain(q[i]) /\ Backs(e, q[i]) /\ OnTime(q, i, d)
    <2>1. Plain(q[i]) /\ Backs(c, q[i]) /\ OnTime(q, i, d) /\ q[i] \in Message
      BY <1>1, <1>4 DEF Promise
    <2> QED BY <1>3, <2>1, BacksStays
  <1>7. ASSUME NEW k \in Kinds, NEW a, Exists(e), Has(e, k, a)
        PROVE  Will(q, Len(q), d, k, a, e.ts)
    <2>1. CASE Exists(c) /\ c.ts = e.ts /\ Has(c, k, a)
      BY <1>1, <2>1 DEF Promise, Covered
    <2>2. CASE h.type \in Stamped /\ h.ts = e.ts /\ Gives(h, k, a)
      <3>1. Exists(d) /\ d.ts <= e.ts /\ (d.ts = e.ts => Has(d, k, a))
        BY <1>5, <2>2 DEF Backs
      <3>2. d.ts \in Nat /\ e.ts \in Nat
        BY <1>3 DEF Channel
      <3> QED BY <3>1, <3>2 DEF Will
    <2> QED BY <1>7, <2>1, <2>2 DEF Told
  <1>8. (Open(t, s) => Open(s, t))'
    BY <1>3 DEF Open
  <1> QED BY <1>2, <1>3, <1>6, <1>7, <1>8 DEF Promise, Covered

\* What a peer's queue gets when s sends.
LEMMA TransmitSends ==
    ASSUME NEW s, NEW x, NEW q, NEW ms,
           \A e \in Edge : e # <<x, s>> => q[e] = queue[e], queue' = Transmit(s, x, q, ms)
    PROVE  Sends(s, x, ms)
  BY DEF Transmit, Sends, Live

\* An event of s's own, told to all its peers.
LEMMA DonePromised ==
    ASSUME IInv, AllFlow, AllPromised, NEW s \in Server, NEW e \in Channel, NEW m \in Message,
           Do(s, e, <<m>>), UNCHANGED est, Rises(channel[s], e), Plain(m), Backs(e, m),
           Told(m, channel[s], e), Due(m, channel[s])
    PROVE  AllPromised'
  <1>1. Rising(s, s, e, <<m>>)
    <2>1. Sends(s, s, <<m>>)
      BY TransmitSends DEF Do
    <2> QED BY <2>1 DEF Rising, Do
  <1>2. ASSUME NEW y, NEW z, <<y, z>> \in Edge PROVE Promise(y, z)'
    <2>1. y # z
      BY <1>2, EdgeFacts
    <2> QED BY <1>1, <1>2, <2>1, ElsewherePromised, InboundPromised, OutboundPromised
  <1> QED BY <1>2 DEF AllPromised, Edge

\* A message of t that s has handled.
LEMMA HandledPromised ==
    ASSUME IInv, AllFlow, AllPromised, NEW s \in Server, NEW t,
           <<t, s>> \in Edge, t \in est[s], queue[<<t, s>>] # <<>>,
           NEW e \in Channel, NEW ms, Handle(s, t, e, ms), UNCHANGED est, Rises(channel[s], e),
           \/ ms = <<>> /\ e = channel[s]
           \/ \E m \in Message : /\ ms = <<m>> /\ Plain(m) /\ Backs(e, m)
                                 /\ Told(m, channel[s], e) /\ Due(m, channel[s]),
           Backs(e, Msg(s, t)), Told(Msg(s, t), channel[s], e),
           \A w \in User : Msg(s, t) \in Enters(w) => w \in Members(e)
    PROVE  AllPromised'
  <1> DEFINE rest == [queue EXCEPT ![<<t, s>>] = Tail(@)]
  <1>1. <<s, t>> \in Edge /\ t \in Server /\ t # s /\ <<s, t>> # <<t, s>>
    BY EdgeFacts
  <1>2. \A y \in Edge : rest[y] = IF y = <<t, s>> THEN Tail(queue[<<t, s>>]) ELSE queue[y]
    BY QueueTyped
  <1>3. channel' = [channel EXCEPT ![s] = e] /\ queue' = Transmit(s, t, rest, ms)
    BY DEF Handle
  <1> HIDE DEF rest
  <1>4. queue'[<<t, s>>] = Tail(queue[<<t, s>>])
    BY <1>1, <1>2, <1>3 DEF Transmit
  <1>5. Sends(s, t, ms)
    BY <1>2, <1>3, TransmitSends
  <1>6. Rising(s, t, e, ms)
    BY <1>3, <1>5 DEF Rising
  <1>7. Promise(t, s)' /\ Promise(s, t)'
    BY <1>4, <1>6, ReadPromised, BackPromised
  <1>8. ASSUME NEW y, NEW z, <<y, z>> \in Edge PROVE Promise(y, z)'
    <2>1. CASE y # s /\ z # s
      BY <1>6, <1>8, <2>1, ElsewherePromised
    <2>2. CASE y = s
      BY <1>6, <1>7, <1>8, <2>2, OutboundPromised
    <2>3. CASE z = s
      BY <1>6, <1>7, <1>8, <2>3, InboundPromised
    <2> QED BY <2>1, <2>2, <2>3
  <1> QED BY <1>8 DEF AllPromised, Edge

-----------------------------------------------------------------------------
(* What clients do, while nobody leaves.                                   *)

LEMMA CreatePromised ==
    ASSUME IInv, AllFlow, AllPromised, NEW u \in User, Create(u)
    PROVE  AllPromised'
  <1> DEFINE s == Home[u]
             st == [NoChannel.status EXCEPT ![u] = "op"]
             e == [ts |-> now, modes |-> Created, bans |-> {}, status |-> st]
             m == [type |-> "SJOIN", ts |-> now, modes |-> Created, zero |-> FALSE, status |-> st]
  <1>1. ~Exists(channel[s]) /\ Do(s, e, <<m>>) /\ UNCHANGED est
    BY DEF Create
  <1>2. s \in Server /\ now \in Nat
    BY AtServer DEF IInv
  <1>3. st \in [User -> {"out", "in", "op"}] /\ st[u] = "op"
    BY DEF NoChannel
  <1>4. e \in Channel /\ m \in Message
    BY <1>2, <1>3 DEF Channel, Message, Flag, Status
  <1>5. Exists(e) /\ Members(channel[s]) = {}
    BY <1>1, <1>3 DEF Exists, Members
  <1>6. \A a : \A k \in Kinds : Has(e, k, a) <=> Gives(m, k, a)
    BY <1>5, KindFacts DEF Has, Gives
  <1>7. Plain(m)
    BY <1>3 DEF Plain
  <1>8. e.ts = now /\ m.ts = now /\ m.type = "SJOIN"
    OBVIOUS
  <1> HIDE DEF e, m
  <1>9. Rises(channel[s], e)
    BY <1>1, <1>5 DEF Rises
  <1>10. Backs(e, m) /\ Told(m, channel[s], e) /\ Due(m, channel[s])
    BY <1>2, <1>5, <1>6, <1>8 DEF Backs, Told, Due, Stamped
  <1> QED BY <1>1, <1>2, <1>4, <1>7, <1>9, <1>10, DonePromised

LEMMA JoinPromised ==
    ASSUME IInv, AllFlow, AllPromised, NEW u \in User, Join(u)
    PROVE  AllPromised'
  <1> DEFINE s == Home[u]
             c == channel[s]
             st == [c.status EXCEPT ![u] = "in"]
             e == [ts |-> c.ts, modes |-> c.modes, bans |-> c.bans, status |-> st]
             m == [type |-> "JOIN", u |-> u, ts |-> c.ts, modes |-> c.modes]
  <1>1. /\ Exists(c) /\ c.status[u] = "out" /\ UNCHANGED est
        /\ Do(s, [c EXCEPT !.status[u] = "in"], <<m>>)
    BY DEF Join
  <1>2. s \in Server /\ c \in Channel /\ c.ts \in Nat /\ c.modes \in SUBSET Flag
        /\ c.status \in [User -> Status]
    BY AtServer
  <1>3. [c EXCEPT !.status[u] = "in"] = e
    BY <1>2 DEF Channel
  <1>4. e \in Channel /\ m \in Message
    BY <1>2 DEF Channel, Message, Status
  <1>5. /\ Members(c) \subseteq Members(e)
        /\ \A a \in User : e.status[a] = "op" <=> c.status[a] = "op"
    BY <1>1, <1>2 DEF Members
  <1>6. Exists(e) /\ \A a : \A k \in Kinds : Has(e, k, a) <=> Has(c, k, a)
    <2>1. Exists(e)
      BY <1>1, <1>5 DEF Exists
    <2> QED BY <1>1, <1>5, <2>1, KindFacts DEF Has
  <1>7. \A a : \A k \in Kinds : Gives(m, k, a) => Has(e, k, a)
    BY KindFacts DEF Has, Gives
  <1>8. Plain(m) /\ e.ts = c.ts /\ m.ts = c.ts /\ m.type = "JOIN"
    BY DEF Plain
  <1> HIDE DEF e, m, c
  <1>9. Rises(c, e)
    BY <1>2, <1>5, <1>6, <1>8 DEF Rises
  <1>10. Backs(e, m) /\ Told(m, c, e) /\ Due(m, c)
    BY <1>1, <1>2, <1>6, <1>7, <1>8 DEF Backs, Told, Due
  <1> QED BY <1>1, <1>2, <1>3, <1>4, <1>8, <1>9, <1>10, DonePromised DEF c

\* What a mode change gives, and nothing else, is new; where modes are only given
\* nothing is lost.
LEMMA ApplyHas ==
    ASSUME NEW c \in Channel, NEW h \in Change, Exists(c), Recorded(c, h)
    PROVE  LET d == Apply(c, h) IN
           /\ d \in Channel /\ d.ts = c.ts /\ Exists(d) /\ Members(d) = Members(c)
           /\ \A a : \A k \in Kinds : Has(c, k, a) => Has(d, k, a)
           /\ \A a : \A k \in Kinds : Has(d, k, a) =>
                  Has(c, k, a) \/ (h.dir = "+" /\ k = h.kind /\ a = h.arg)
           /\ \A k \in Kinds : h.dir = "+" /\ k = h.kind => Has(d, k, h.arg)
  <1> DEFINE d == Apply(c, h)
  <1>1. c.ts \in Nat /\ c.modes \in SUBSET Flag /\ c.bans \in SUBSET User
        /\ c.status \in [User -> Status]
        /\ c = [ts |-> c.ts, modes |-> c.modes, bans |-> c.bans, status |-> c.status]
    BY DEF Channel
  <1>2. Members(d) = Members(c) /\ Exists(d)
    BY ApplyMembers DEF Exists
  <1>3. OnlyGiven => h.dir = "+"
    BY DEF OnlyGiven
  <1>4. h.kind # "channel"
    BY ChangeAssumption
  <1>5. ASSUME h.kind = "op" PROVE
          /\ d \in Channel /\ d.ts = c.ts /\ d.modes = c.modes /\ d.bans = c.bans
          /\ \A a \in User : a # h.arg => d.status[a] = c.status[a]
          /\ h.dir = "+" => d.status[h.arg] = "op"
          /\ h.dir # "+" => d.status[h.arg] # "op" \/ c.status[h.arg] = "op"
          /\ h.arg \in User
    <2> DEFINE a == h.arg
               old == c.status[a]
               new == IF old = "out" \/ (old = "deop" /\ h.dir = "-") THEN old
                      ELSE IF h.dir = "+" THEN "op" ELSE "in"
    <2>1. Apply(c, h) = [ts |-> c.ts, modes |-> c.modes, bans |-> c.bans,
                         status |-> [c.status EXCEPT ![a] = new]]
      BY <1>1, <1>5 DEF Apply
    <2>2. a \in User /\ old # "out"
      BY <1>5, ChangeAssumption DEF Recorded
    <2>3. new \in Status /\ (h.dir = "+" => new = "op") /\ (h.dir # "+" => new # "op" \/ old = "op")
      BY <1>1, <2>2 DEF Status
    <2> HIDE DEF new
    <2> QED BY <1>1, <2>1, <2>2, <2>3 DEF Channel
  <1>6. ASSUME h.kind = "ban" PROVE
          /\ d \in Channel /\ d.ts = c.ts /\ d.modes = c.modes /\ d.status = c.status
          /\ d.bans = IF h.dir = "+" THEN c.bans \cup {h.arg} ELSE c.bans \ {h.arg}
    <2>1. d = [ts |-> c.ts, modes |-> c.modes, status |-> c.status,
               bans |-> IF h.dir = "+" THEN c.bans \cup {h.arg} ELSE c.bans \ {h.arg}]
      BY <1>1, <1>6 DEF Apply
    <2>2. h.arg \in User
      BY <1>6, ChangeAssumption
    <2> QED BY <1>1, <2>1, <2>2 DEF Channel
  <1>7. ASSUME h.kind = "mode" PROVE
          /\ d \in Channel /\ d.ts = c.ts /\ d.bans = c.bans /\ d.status = c.status
          /\ d.modes = IF h.dir = "+" THEN c.modes \cup {h.arg} ELSE c.modes \ {h.arg}
    <2>1. d = [ts |-> c.ts, bans |-> c.bans, status |-> c.status,
               modes |-> IF h.dir = "+" THEN c.modes \cup {h.arg} ELSE c.modes \ {h.arg}]
      BY <1>1, <1>7 DEF Apply
    <2>2. h.arg \in Flag
      BY <1>7 DEF Flag
    <2> QED BY <1>1, <2>1, <2>2 DEF Channel
  <1> HIDE DEF d
  <1>8. h.kind \in {"op", "ban", "mode"}
    BY ChangeAssumption
  <1>9. d \in Channel /\ d.ts = c.ts
    BY <1>5, <1>6, <1>7, <1>8
  <1>10. ASSUME NEW k \in Kinds, NEW a
         PROVE  /\ Has(c, k, a) => Has(d, k, a)
                /\ Has(d, k, a) => Has(c, k, a) \/ (h.dir = "+" /\ k = h.kind /\ a = h.arg)
                /\ h.dir = "+" /\ k = h.kind => Has(d, k, h.arg)
    <2>1. CASE k = "channel"
      BY <1>2, <1>4, <2>1 DEF Has
    <2>2. CASE k # "channel"
      <3>1. h.dir = "+" /\ k \in {"op", "mode", "ban"}
        BY <1>3, <2>2, KindFacts
      <3>2. CASE h.kind = "op"
        BY <1>5, <3>1, <3>2 DEF Has
      <3>3. CASE h.kind = "ban"
        BY <1>6, <3>1, <3>3 DEF Has
      <3>4. CASE h.kind = "mode"
        BY <1>7, <3>1, <3>4 DEF Has
      <3> QED BY <1>8, <3>2, <3>3, <3>4
    <2> QED BY <2>1, <2>2
  <1> QED BY <1>2, <1>9, <1>10 DEF d

\* A mode change under the channel's own timestamp, as it is sent or passed on.
LEMMA ChangeTold ==
    ASSUME NEW c \in Channel, NEW h \in Change, Exists(c), Recorded(c, h), NEW u \in User,
           NEW m, m = [type |-> "TMODE", u |-> u, ts |-> c.ts, change |-> h]
    PROVE  LET d == Apply(c, h) IN
           /\ d \in Channel /\ Rises(c, d) /\ m \in Message /\ Plain(m) /\ Backs(d, m)
           /\ Told(m, c, d)
           /\ h.kind = "op" => h.arg \in Members(c)
  <1> DEFINE d == Apply(c, h)
  <1>1. /\ d \in Channel /\ d.ts = c.ts /\ Exists(d) /\ Members(d) = Members(c)
        /\ \A a : \A k \in Kinds : Has(c, k, a) => Has(d, k, a)
        /\ \A a : \A k \in Kinds : Has(d, k, a) =>
               Has(c, k, a) \/ (h.dir = "+" /\ k = h.kind /\ a = h.arg)
        /\ \A k \in Kinds : h.dir = "+" /\ k = h.kind => Has(d, k, h.arg)
    BY ApplyHas
  <1>2. c.ts \in Nat /\ m \in Message /\ m.type = "TMODE" /\ m.ts = c.ts
    BY DEF Channel, Message
  <1>3. \A k, a : Gives(m, k, a) <=> h.dir = "+" /\ k = h.kind /\ a = h.arg
    BY DEF Gives
  <1>4. Plain(m)
    BY DEF Plain
  <1>5. h.kind = "op" => h.arg \in Members(c)
    BY ChangeAssumption DEF Recorded, Members
  <1> HIDE DEF d
  <1>6. Rises(c, d) /\ Told(m, c, d)
    BY <1>1, <1>2, <1>3 DEF Rises, Told, Stamped
  <1>7. Backs(d, m)
    BY <1>1, <1>2, <1>3 DEF Backs
  <1> QED BY <1>1, <1>2, <1>4, <1>5, <1>6, <1>7 DEF d

LEMMA ModePromised ==
    ASSUME IInv, AllFlow, AllPromised, NEW o \in User, NEW h \in Change, Mode(o, h)
    PROVE  AllPromised'
  <1> DEFINE s == Home[o]
             c == channel[s]
             d == Apply(c, h)
             m == [type |-> "TMODE", u |-> o, ts |-> c.ts, change |-> h]
  <1>1. c.status[o] = "op" /\ Recorded(c, h) /\ Do(s, d, <<m>>) /\ UNCHANGED est
    BY DEF Mode
  <1>2. s \in Server /\ c \in Channel
    BY AtServer
  <1>3. Exists(c)
    BY <1>1 DEF Exists, Members
  <1>4. m.type = "TMODE" /\ m.u = o /\ m.ts = c.ts /\ m.change = h
    OBVIOUS
  <1>5. /\ d \in Channel /\ Rises(c, d) /\ m \in Message /\ Plain(m) /\ Backs(d, m)
        /\ Told(m, c, d)
        /\ h.kind = "op" => h.arg \in Members(c)
    <2> DEFINE Says(n) == n = [type |-> "TMODE", u |-> o, ts |-> c.ts, change |-> h]
    <2>1. Says(m)
      OBVIOUS
    <2>2. \A n : Says(n) => /\ d \in Channel /\ Rises(c, d) /\ n \in Message /\ Plain(n)
                            /\ Backs(d, n) /\ Told(n, c, d)
                            /\ h.kind = "op" => h.arg \in Members(c)
      BY <1>1, <1>2, <1>3, ChangeTold
    <2> HIDE DEF Says, m
    <2> QED BY <2>1, <2>2
  <1> HIDE DEF m, d, c
  <1>6. Due(m, c)
    BY <1>1, <1>3, <1>4, <1>5 DEF Due
  <1> QED BY <1>1, <1>2, <1>5, <1>6, DonePromised DEF c

-----------------------------------------------------------------------------
(* Messages from a peer, while nobody leaves.                              *)

\* The first message is backed by its sender, and what it depends on is here.
LEMMA HeadPromised ==
    ASSUME IInv, AllFlow, AllPromised, NEW s \in Server, NEW t, NEW type, First(s, t, type)
    PROVE  LET m == Msg(s, t)
               c == channel[s] IN
           /\ m \in Message /\ m.type = type /\ Plain(m)
           /\ type \in {"JOIN", "TMODE", "BMASK"} => Exists(c) /\ c.ts <= m.ts
           /\ type = "TMODE" /\ OnlyGiven =>
                  c.ts < m.ts \/ (c.ts = m.ts /\ m.u \in User /\ c.status[m.u] = "op")
           /\ type = "TMODE" /\ m.change.kind = "op" => m.change.arg \in Members(c)
  <1> DEFINE q == queue[<<t, s>>]
             m == Msg(s, t)
             c == channel[s]
  <1>1. <<t, s>> \in Edge /\ q # <<>> /\ q \in Seq(Message) /\ m = Head(q) /\ m.type = type
    BY QueueTyped DEF First, Msg
  <1>2. Promise(t, s)
    BY <1>1 DEF AllPromised
  <1> HIDE DEF q
  <1>3. 1 \in 1..Len(q) /\ m = q[1] /\ m \in Message
    BY <1>1, TailFacts
  <1>4. Plain(m) /\ OnTime(q, 1, c)
    BY <1>2, <1>3 DEF Promise, q
  <1> HIDE DEF m
  <1>5. /\ m.type \in {"JOIN", "TMODE", "BMASK"} => Will(q, 0, c, "channel", "channel", m.ts)
        /\ m.type = "TMODE" /\ OnlyGiven => Will(q, 0, c, "op", m.u, m.ts)
        /\ m.type = "TMODE" /\ m.change.kind = "op" => Comes(q, 0, c, m.change.arg)
    <2>1. 1 - 1 = 0
      OBVIOUS
    <2> QED BY <1>3, <1>4, <2>1 DEF OnTime
  <1>6. m.type \in {"JOIN", "TMODE", "BMASK"} => Exists(c) /\ c.ts <= m.ts
    <2>1. m.type \in {"JOIN", "TMODE", "BMASK"} => m.ts \in Nat /\ c.ts \in Nat
      BY <1>3, ReadMessages, AtServer
    <2> QED BY <1>5, <2>1, WillNow
  <1>7. m.type = "TMODE" /\ OnlyGiven =>
           c.ts < m.ts \/ (c.ts = m.ts /\ m.u \in User /\ c.status[m.u] = "op")
    BY <1>5, WillNow DEF Has
  <1>8. m.type = "TMODE" /\ m.change.kind = "op" => m.change.arg \in Members(c)
    BY <1>5 DEF Comes
  <1> QED BY <1>1, <1>3, <1>4, <1>6, <1>7, <1>8 DEF m

\* What an SJOIN that adds the clients `in' makes of the channel c, and what is sent on.
LEMMA SjoinTold ==
    ASSUME NEW c \in Channel, Exists(c) \/ c = NoChannel, NEW m \in Message, m.type = "SJOIN",
           Plain(m), NEW in, in = {u \in User : m.status[u] # "out"}, in \cap Members(c) = {},
           SjoinChannel(c, m, in) \in Channel
    PROVE  LET e == SjoinChannel(c, m, in)
               relay == SjoinRelay(c, m, in) IN
           /\ Rises(c, e) /\ Backs(e, m) /\ Told(m, c, e)
           /\ relay \in Message /\ Plain(relay) /\ Backs(e, relay) /\ Told(relay, c, e)
           /\ Due(relay, c)
           /\ in \subseteq Members(e)
  <1> DEFINE e == SjoinChannel(c, m, in)
             relay == SjoinRelay(c, m, in)
             kept == KeepOurModes(c, m.ts)
             new == KeepNewModes(c, m.ts)
  <1>1. /\ m.ts \in Nat /\ m.modes \in SUBSET Flag /\ m.zero \in BOOLEAN
        /\ m.status \in [User -> {"out", "in", "op"}]
    BY ReadMessages
  <1>2. /\ c.ts \in Nat /\ c.status \in [User -> Status]
        /\ e.ts \in Nat /\ e.modes \in SUBSET Flag
    BY DEF Channel
  <1>3. in # {} /\ in \subseteq User
    BY DEF Plain
  <1>4. /\ e.ts = IF new THEN m.ts ELSE c.ts
        /\ e.modes = (IF new THEN m.modes ELSE {}) \cup (IF kept THEN c.modes ELSE {})
        /\ e.bans = IF kept THEN c.bans ELSE {}
        /\ \A u \in User : e.status[u] =
              IF u \in in THEN IF new THEN m.status[u] ELSE IF m.status[u] = "op" THEN "deop" ELSE "in"
              ELSE IF c.status[u] = "op" /\ ~kept THEN "in" ELSE c.status[u]
    BY DEF SjoinChannel, Merge, BansAfter
  <1>5. /\ relay.type = "SJOIN" /\ relay.ts = e.ts
        /\ relay.zero = (m.zero \/ ~new)
        /\ relay.modes = IF m.zero \/ ~new THEN {} ELSE e.modes
        /\ \A u \in User : relay.status[u] = IF u \notin in THEN "out"
                                             ELSE IF new THEN m.status[u] ELSE "in"
    BY DEF SjoinRelay, SjoinChannel
  <1>6. relay \in Message
    <2>1. relay = [type |-> "SJOIN", ts |-> e.ts,
                   modes |-> IF m.zero \/ ~new THEN {} ELSE e.modes, zero |-> m.zero \/ ~new,
                   status |-> [u \in User |-> IF u \notin in THEN "out"
                                              ELSE IF new THEN m.status[u] ELSE "in"]]
      BY DEF SjoinRelay, SjoinChannel
    <2>2. [u \in User |-> IF u \notin in THEN "out" ELSE IF new THEN m.status[u] ELSE "in"]
            \in [User -> {"out", "in", "op"}]
      BY <1>1
    <2> HIDE DEF relay, e
    <2> QED BY <1>1, <1>2, <2>1, <2>2 DEF Message
  <1>7. /\ in \subseteq Members(e) /\ Members(c) \subseteq Members(e) /\ Exists(e)
    <2>1. \A u \in in : m.status[u] # "out"
      OBVIOUS
    <2> HIDE DEF e
    <2>2. in \subseteq Members(e) /\ Members(c) \subseteq Members(e)
      BY <1>3, <1>4, <2>1 DEF Members
    <2> QED BY <1>3, <2>2 DEF Exists
  <1> HIDE DEF e, relay
  <1>8. ASSUME NEW k \in Kinds \ {"channel"}, NEW a
        PROVE  Has(e, k, a) <=> (new /\ Gives(m, k, a)) \/ (kept /\ Has(c, k, a))
    <2>1. CASE k = "op"
      <3>1. a \in in => a \in User /\ c.status[a] = "out"
        BY <1>3 DEF Members
      <3>2. a \in User /\ a \notin in => m.status[a] = "out"
        OBVIOUS
      <3> HIDE DEF new, kept
      <3> QED BY <1>4, <2>1, <3>1, <3>2 DEF Has, Gives
    <2>2. CASE k = "mode"
      BY <1>4, <2>2 DEF Has, Gives
    <2>3. CASE k = "ban"
      BY <1>4, <2>3 DEF Has, Gives
    <2> QED BY <1>8, <2>1, <2>2, <2>3, KindFacts
  <1>9. ASSUME NEW k \in Kinds \ {"channel"}, NEW a
        PROVE  /\ Gives(relay, k, a) => Has(e, k, a)
               /\ new /\ Gives(m, k, a) => Gives(relay, k, a)
    <2>1. CASE k = "op"
      <3>1. a \in User /\ a \notin in => m.status[a] = "out"
        OBVIOUS
      <3>2. Has(e, k, a) <=> (new /\ Gives(m, k, a)) \/ (kept /\ Has(c, k, a))
        BY <1>8
      <3> HIDE DEF new, kept
      <3> QED BY <1>5, <2>1, <3>1, <3>2 DEF Gives
    <2>2. CASE k = "mode"
      <3>1. m.zero => m.modes = {}
        BY DEF Plain
      <3> HIDE DEF new, kept
      <3> QED BY <1>4, <1>5, <2>2, <3>1 DEF Gives, Has
    <2>3. CASE k = "ban"
      BY <1>5, <2>3 DEF Gives
    <2> QED BY <1>9, <2>1, <2>2, <2>3, KindFacts
  <1>10. /\ Exists(c) => (new <=> m.ts <= c.ts) /\ (kept <=> c.ts <= m.ts)
         /\ ~Exists(c) => new /\ kept /\ \A a : \A k \in Kinds : ~Has(c, k, a)
    <2>1. Exists(c) => (new <=> m.ts <= c.ts) /\ (kept <=> c.ts <= m.ts)
      BY DEF KeepNewModes, KeepOurModes
    <2>2. ASSUME ~Exists(c) PROVE new /\ kept /\ \A a : \A k \in Kinds : ~Has(c, k, a)
      <3>1. c = NoChannel /\ new /\ kept
        BY <2>2 DEF KeepNewModes, KeepOurModes
      <3> QED BY <2>2, <3>1, KindFacts DEF Has, NoChannel
    <2> QED BY <2>1, <2>2
  <1> HIDE DEF new, kept
  <1>11. Rises(c, e)
    <2>1. ASSUME Exists(c)
          PROVE  e.ts <= c.ts /\ (e.ts = c.ts => kept)
      BY <1>1, <1>2, <1>4, <1>10, <2>1
    <2>2. ASSUME Exists(c), e.ts = c.ts, NEW k \in Kinds, NEW a, Has(c, k, a)
          PROVE  Has(e, k, a)
      <3>1. CASE k = "channel"
        BY <1>7, <3>1 DEF Has
      <3>2. CASE k # "channel"
        BY <1>8, <2>1, <2>2, <3>2
      <3> QED BY <3>1, <3>2
    <2> QED BY <1>7, <2>1, <2>2 DEF Rises
  <1>12. Backs(e, m)
    <2>1. e.ts <= m.ts /\ (e.ts = m.ts => new \/ ~Exists(c))
      BY <1>1, <1>2, <1>4, <1>10
    <2>2. ASSUME e.ts = m.ts, NEW k \in Kinds, NEW a, Gives(m, k, a)
          PROVE  Has(e, k, a)
      <3>1. CASE k = "channel"
        BY <1>7, <3>1 DEF Has
      <3>2. CASE k # "channel"
        BY <1>8, <1>10, <2>1, <2>2, <3>2
      <3> QED BY <3>1, <3>2
    <2> QED BY <1>7, <2>1, <2>2 DEF Backs
  <1>13. Backs(e, relay)
    <2>1. ASSUME NEW k \in Kinds, NEW a, Gives(relay, k, a)
          PROVE  Has(e, k, a)
      <3>1. CASE k = "channel"
        BY <1>7, <3>1 DEF Has
      <3>2. CASE k # "channel"
        BY <1>9, <2>1, <3>2
      <3> QED BY <3>1, <3>2
    <2> QED BY <1>2, <1>5, <1>7, <2>1 DEF Backs
  <1>14. ASSUME NEW k \in Kinds, NEW a, Has(e, k, a)
         PROVE  \/ Exists(c) /\ c.ts = e.ts /\ Has(c, k, a)
                \/ new /\ m.ts = e.ts /\ Gives(m, k, a)
    <2>1. CASE k = "channel"
      BY <1>1, <1>2, <1>4, <1>10, <2>1 DEF Has, Gives
    <2>2. CASE k # "channel"
      <3>1. CASE new /\ Gives(m, k, a)
        BY <1>4, <3>1
      <3>2. CASE kept /\ Has(c, k, a)
        BY <1>1, <1>2, <1>4, <1>10, <3>2
      <3> QED BY <1>8, <1>14, <2>2, <3>1, <3>2
    <2> QED BY <2>1, <2>2
  <1>15. Told(m, c, e)
    BY <1>14 DEF Told, Stamped
  <1>16. Told(relay, c, e)
    <2>1. ASSUME NEW k \in Kinds, NEW a, new, Gives(m, k, a)
          PROVE  Gives(relay, k, a)
      <3>1. CASE k = "channel"
        BY <1>5, <3>1 DEF Gives
      <3>2. CASE k # "channel"
        BY <1>9, <2>1, <3>2
      <3> QED BY <3>1, <3>2
    <2> QED BY <1>5, <1>14, <2>1 DEF Told, Stamped
  <1>17. Plain(relay)
    <2>1. PICK w \in in : m.status[w] # "out"
      BY <1>3
    <2>2. relay.status[w] # "out"
      BY <1>3, <1>5, <2>1
    <2> QED BY <1>3, <1>5, <2>1, <2>2 DEF Plain
  <1>18. Due(relay, c)
    BY <1>5 DEF Due
  <1> QED BY <1>6, <1>7, <1>11, <1>12, <1>13, <1>15, <1>16, <1>17, <1>18 DEF e, relay

LEMMA SjoinPromised ==
    ASSUME IInv, IInv', AllFlow, AllPromised, NEW s \in Server, NEW t, MsSjoin(s, t)
    PROVE  AllPromised'
  <1> DEFINE m == Msg(s, t)
             c == channel[s]
             in == {u \in User : m.status[u] # "out"}
             e == SjoinChannel(c, m, in)
             relay == SjoinRelay(c, m, in)
  <1>1. /\ First(s, t, "SJOIN") /\ UNCHANGED est
        /\ \/ in = {} /\ Handle(s, t, Settle(Merge(c, m.ts, m.modes)), <<>>)
           \/ in # {} /\ Handle(s, t, e, <<relay>>)
    BY SjoinIs DEF Steady
  <1>2. m \in Message /\ m.type = "SJOIN" /\ Plain(m)
    BY <1>1, HeadPromised
  <1>3. in # {} /\ Handle(s, t, e, <<relay>>)
    BY <1>1, <1>2 DEF Plain
  <1>4. in \cap Members(c) = {} /\ \A w : m \in Enters(w) <=> m.status[w] # "out"
    BY <1>1, SjoinHead
  <1>5. c \in Channel /\ (Exists(c) \/ c = NoChannel)
    BY AtServer
  <1>6. e \in Channel
    <2>1. channel'[s] = e /\ channel' \in [Server -> Channel]
      BY <1>3, QueueTyped DEF Handle, IInv
    <2> QED BY <2>1
  <1>7. <<t, s>> \in Edge /\ t \in est[s] /\ queue[<<t, s>>] # <<>>
    BY <1>1, HeadFits
  <1> HIDE DEF e, relay, m, c
  <1>8. /\ Rises(c, e) /\ Backs(e, m) /\ Told(m, c, e)
        /\ relay \in Message /\ Plain(relay) /\ Backs(e, relay) /\ Told(relay, c, e)
        /\ Due(relay, c) /\ in \subseteq Members(e)
    BY <1>2, <1>4, <1>5, <1>6, SjoinTold DEF e, relay
  <1>9. \A w \in User : m \in Enters(w) => w \in Members(e)
    BY <1>4, <1>8
  <1> QED BY <1>1, <1>3, <1>6, <1>7, <1>8, <1>9, HandledPromised DEF m, c

LEMMA RemoteJoinPromised ==
    ASSUME IInv, IInv', AllFlow, AllPromised, NEW s \in Server, NEW t, MsJoin(s, t)
    PROVE  AllPromised'
  <1> DEFINE m == Msg(s, t)
             c == channel[s]
             e == JoinChannel(c, m)
             relay == JoinRelay(c, m)
  <1>1. First(s, t, "JOIN") /\ UNCHANGED est /\ Handle(s, t, e, <<relay>>)
    BY JoinIs DEF Steady
  <1>2. m \in Message /\ m.type = "JOIN" /\ Exists(c) /\ c.ts <= m.ts
    BY <1>1, HeadPromised
  <1>3. m.u \notin Members(c) /\ \A w : m \in Enters(w) <=> w = m.u
    BY <1>1, <1>2, NamedHead
  <1>4. m.u \in User /\ m.ts \in Nat /\ m.modes \in SUBSET Flag
    BY <1>2, ReadMessages
  <1>5. c \in Channel /\ c.ts \in Nat
    BY AtServer
  <1>6. e \in Channel
    <2>1. channel'[s] = e /\ channel' \in [Server -> Channel]
      BY <1>1, QueueTyped DEF Handle, IInv
    <2> QED BY <2>1
  <1>7. <<t, s>> \in Edge /\ t \in est[s] /\ queue[<<t, s>>] # <<>>
    BY <1>1, HeadFits
  <1> HIDE DEF m, c
  <1>8. /\ Merge(c, m.ts, m.modes).ts = c.ts
        /\ Merge(c, m.ts, m.modes).modes = (IF c.ts = m.ts THEN m.modes ELSE {}) \cup c.modes
        /\ \A u \in User : Merge(c, m.ts, m.modes).status[u] = c.status[u]
    BY <1>2, <1>4, <1>5 DEF Merge, KeepNewModes, KeepOurModes
  <1>9. /\ e.ts = c.ts /\ e.bans = c.bans /\ Members(e) = Members(c) \cup {m.u}
        /\ e.modes = (IF c.ts = m.ts THEN m.modes ELSE {}) \cup c.modes
        /\ \A u \in User \ {m.u} : e.status[u] = c.status[u]
        /\ e.modes \in SUBSET Flag
    BY <1>4, <1>5, <1>8, JoinFields
  <1>10. e.status[m.u] # "op" /\ c.status[m.u] # "op"
    <2>1. Merge(c, m.ts, m.modes).status[m.u] = "out"
      BY <1>3, <1>4, <1>8 DEF Members
    <2>2. Merge(c, m.ts, m.modes).status = [u \in User |-> Merge(c, m.ts, m.modes).status[u]]
      BY DEF Merge
    <2>3. e.status[m.u] = "in"
      BY <1>4, <2>1, <2>2 DEF JoinChannel, Merge
    <2> QED BY <1>4, <1>8, <2>1, <2>3
  <1>11. relay = [type |-> "JOIN", u |-> m.u, ts |-> e.ts, modes |-> e.modes]
    BY DEF JoinRelay
  <1> HIDE DEF e, relay
  <1>12. relay \in Message /\ Plain(relay) /\ relay.type = "JOIN" /\ relay.ts = e.ts
         /\ relay.modes = e.modes
    BY <1>4, <1>5, <1>9, <1>11 DEF Message, Plain
  <1>13. ASSUME NEW k \in Kinds, NEW a
         PROVE  Has(e, k, a) <=> Has(c, k, a) \/ (c.ts = m.ts /\ Gives(m, k, a))
    <2>1. CASE k = "channel"
      BY <1>2, <1>9, <2>1 DEF Has, Exists
    <2>2. CASE k = "op"
      BY <1>2, <1>9, <1>10, <2>2 DEF Has, Gives
    <2>3. CASE k = "mode"
      BY <1>2, <1>9, <2>3 DEF Has, Gives
    <2>4. CASE k = "ban"
      BY <1>2, <1>9, <2>4 DEF Has, Gives
    <2> QED BY <2>1, <2>2, <2>3, <2>4, KindFacts
  <1>14. \A a : \A k \in Kinds : Gives(relay, k, a) => Has(e, k, a)
    BY <1>12 DEF Gives, Has
  <1>15. \A a : \A k \in Kinds : Gives(m, k, a) /\ c.ts = m.ts => Gives(relay, k, a)
    BY <1>2, <1>9, <1>12 DEF Gives
  <1>16. Exists(e)
    BY <1>2, <1>9 DEF Exists
  <1>17. Rises(c, e) /\ Backs(e, m) /\ Told(m, c, e)
    BY <1>2, <1>5, <1>9, <1>13, <1>16 DEF Rises, Backs, Told, Stamped
  <1>18. Backs(e, relay) /\ Told(relay, c, e) /\ Due(relay, c)
    BY <1>2, <1>5, <1>9, <1>12, <1>13, <1>14, <1>15, <1>16 DEF Backs, Told, Due, Stamped
  <1>19. \A w \in User : m \in Enters(w) => w \in Members(e)
    BY <1>3, <1>9
  <1> QED BY <1>1, <1>6, <1>7, <1>12, <1>17, <1>18, <1>19, HandledPromised DEF m, c

\* A message that says nothing new.
LEMMA DroppedPromised ==
    ASSUME IInv, AllFlow, AllPromised, NEW s \in Server, NEW t, NEW type, First(s, t, type),
           type \in {"TMODE", "BMASK"}, Handle(s, t, channel[s], <<>>), UNCHANGED est,
           Backs(channel[s], Msg(s, t))
    PROVE  AllPromised'
  <1>1. /\ <<t, s>> \in Edge /\ t \in est[s] /\ queue[<<t, s>>] # <<>> /\ Msg(s, t).type = type
        /\ channel[s] \in Channel
    BY HeadFits, AtServer
  <1>2. Rises(channel[s], channel[s])
    BY <1>1, RisesSame
  <1>3. Told(Msg(s, t), channel[s], channel[s])
    BY DEF Told
  <1>4. \A w : Msg(s, t) \notin Enters(w)
    BY <1>1 DEF Enters
  <1> QED BY <1>1, <1>2, <1>3, <1>4, HandledPromised

LEMMA TmodePromised ==
    ASSUME IInv, AllFlow, AllPromised, NEW s \in Server, NEW t, MsTmode(s, t)
    PROVE  AllPromised'
  <1> DEFINE m == Msg(s, t)
             c == channel[s]
             h == m.change
             obeyed == MayChange(c, m.ts) /\ c.status[m.u] # "deop" /\ Recorded(c, h)
             e == Apply(c, h)
             relay == [m EXCEPT !.ts = c.ts]
  <1>1. /\ First(s, t, "TMODE") /\ UNCHANGED est /\ h \in Change /\ m.u \in User /\ m.ts \in Nat
        /\ \/ ~obeyed /\ Handle(s, t, c, <<>>)
           \/ obeyed /\ Handle(s, t, e, <<relay>>)
    BY TmodeIs DEF Steady
  <1>2. /\ m \in Message /\ m.type = "TMODE" /\ Exists(c) /\ c.ts <= m.ts
        /\ OnlyGiven => c.ts < m.ts \/ (c.ts = m.ts /\ c.status[m.u] = "op")
        /\ h.kind = "op" => h.arg \in Members(c)
    BY <1>1, HeadPromised
  <1>3. c \in Channel /\ c.ts \in Nat
    BY AtServer
  <1>4. <<t, s>> \in Edge /\ t \in est[s] /\ queue[<<t, s>>] # <<>>
    BY <1>1, HeadFits
  <1>5. m = [type |-> "TMODE", u |-> m.u, ts |-> m.ts, change |-> h]
    BY <1>2, ReadMessages
  <1> HIDE DEF m, c
  <1>6. CASE ~obeyed /\ Handle(s, t, c, <<>>)
    <2>1. ASSUME c.ts = m.ts, OnlyGiven
          PROVE  Has(c, h.kind, h.arg)
      <3>1. ~Recorded(c, h) /\ h.dir = "+"
        BY <1>1, <1>2, <1>6, <2>1 DEF MayChange, OnlyGiven
      <3>2. h.kind # "op"
        BY <1>2, <3>1 DEF Recorded, Members
      <3>3. Apply(c, h) = c
        BY <3>1, <3>2 DEF Recorded
      <3>4. CASE h.kind = "ban"
        <4>1. Apply(c, h) = [c EXCEPT !.bans = @ \cup {h.arg}]
          BY <3>1, <3>4 DEF Apply
        <4>2. c.bans = c.bans \cup {h.arg}
          BY <1>3, <3>3, <4>1 DEF Channel
        <4> QED BY <3>4, <4>2 DEF Has
      <3>5. CASE h.kind = "mode"
        <4>1. Apply(c, h) = [c EXCEPT !.modes = @ \cup {h.arg}]
          BY <3>1, <3>5 DEF Apply
        <4>2. c.modes = c.modes \cup {h.arg}
          BY <1>3, <3>3, <4>1 DEF Channel
        <4> QED BY <3>5, <4>2 DEF Has
      <3> QED BY <1>1, <3>2, <3>4, <3>5, ChangeAssumption
    <2>2. \A a : \A k \in Kinds : Gives(m, k, a) => OnlyGiven /\ k = h.kind /\ a = h.arg
      BY <1>1, <1>2, KindFacts, ChangeAssumption DEF Gives
    <2>3. Backs(c, m)
      BY <1>2, <2>1, <2>2 DEF Backs
    <2> QED BY <1>1, <1>6, <2>3, DroppedPromised DEF m, c
  <1>7. CASE obeyed /\ Handle(s, t, e, <<relay>>)
    <2>1. m.ts = c.ts /\ Recorded(c, h)
      BY <1>1, <1>2, <1>3, <1>7 DEF MayChange
    <2>2. relay = [type |-> "TMODE", u |-> m.u, ts |-> c.ts, change |-> h]
      BY <1>5
    <2>3. relay = m
      BY <1>5, <2>1, <2>2
    <2> HIDE DEF relay, e
    <2>4. /\ e \in Channel /\ Rises(c, e) /\ relay \in Message /\ Plain(relay) /\ Backs(e, relay)
          /\ Told(relay, c, e)
      BY <1>1, <1>2, <1>3, <2>1, <2>2, ChangeTold DEF e
    <2>5. Due(relay, c)
      BY <1>1, <1>2, <2>1, <2>3, <1>3 DEF Due
    <2>6. \A w : m \notin Enters(w)
      BY <1>2 DEF Enters
    <2>7. Handle(s, t, e, <<relay>>)
      BY <1>7
    <2> QED BY <1>1, <1>4, <2>3, <2>4, <2>5, <2>6, <2>7, HandledPromised DEF m, c
  <1> QED BY <1>1, <1>6, <1>7

LEMMA BmaskPromised ==
    ASSUME IInv, AllFlow, AllPromised, NEW s \in Server, NEW t, MsBmask(s, t)
    PROVE  AllPromised'
  <1> DEFINE m == Msg(s, t)
             c == channel[s]
             e == [c EXCEPT !.bans = @ \cup m.bans]
             relay == [m EXCEPT !.ts = c.ts]
  <1>1. /\ First(s, t, "BMASK") /\ UNCHANGED est
        /\ \/ ~MayChange(c, m.ts) /\ Handle(s, t, c, <<>>)
           \/ MayChange(c, m.ts) /\ Handle(s, t, e, <<relay>>)
    BY DEF MsBmask, Steady
  <1>2. m \in Message /\ m.type = "BMASK" /\ Exists(c) /\ c.ts <= m.ts
    BY <1>1, HeadPromised
  <1>3. c \in Channel /\ c.ts \in Nat
    BY AtServer
  <1>4. /\ m.ts \in Nat /\ m.bans \in SUBSET User
        /\ m = [type |-> "BMASK", ts |-> m.ts, bans |-> m.bans]
    BY <1>2, ReadMessages
  <1>5. <<t, s>> \in Edge /\ t \in est[s] /\ queue[<<t, s>>] # <<>>
    BY <1>1, HeadFits
  <1> HIDE DEF m, c
  <1>6. CASE ~MayChange(c, m.ts) /\ Handle(s, t, c, <<>>)
    <2>1. Backs(c, m)
      BY <1>2, <1>3, <1>4, <1>6 DEF Backs, MayChange
    <2> QED BY <1>1, <1>6, <2>1, DroppedPromised DEF m, c
  <1>7. CASE MayChange(c, m.ts) /\ Handle(s, t, e, <<relay>>)
    <2>1. m.ts = c.ts
      BY <1>2, <1>3, <1>4, <1>7 DEF MayChange
    <2>2. relay = m
      BY <1>4, <2>1
    <2>3. /\ e \in Channel /\ e.ts = c.ts /\ e.bans = c.bans \cup m.bans
          /\ e.modes = c.modes /\ e.status = c.status
      BY <1>3, <1>4 DEF Channel
    <2> HIDE DEF relay, e
    <2>4. Members(e) = Members(c) /\ Exists(e)
      BY <1>2, <2>3 DEF Members, Exists
    <2>5. \A a : \A k \in Kinds : Has(e, k, a) <=> Has(c, k, a) \/ Gives(m, k, a)
      BY <1>2, <2>3, <2>4, KindFacts DEF Has, Gives
    <2>6. Rises(c, e) /\ Backs(e, m) /\ Told(m, c, e) /\ Due(m, c) /\ Plain(m)
      BY <1>2, <1>3, <1>4, <2>1, <2>3, <2>4, <2>5 DEF Rises, Backs, Told, Due, Plain, Stamped
    <2>7. \A w : m \notin Enters(w)
      BY <1>2 DEF Enters
    <2>8. Handle(s, t, e, <<m>>)
      BY <1>7, <2>2
    <2> QED BY <1>1, <1>2, <1>5, <2>3, <2>6, <2>7, <2>8, HandledPromised DEF m, c
  <1> QED BY <1>1, <1>6, <1>7

LEMMA UidPromised ==
    ASSUME IInv, AllFlow, AllPromised, NEW s \in Server, NEW t, MsUid(s, t)
    PROVE  AllPromised'
  <1> DEFINE m == Msg(s, t)
             c == channel[s]
  <1>1. First(s, t, "USERS") /\ UNCHANGED est /\ Handle(s, t, c, <<m>>)
    BY DEF MsUid, Steady
  <1>2. m \in Message /\ m.type = "USERS"
    BY <1>1, HeadPromised
  <1>3. <<t, s>> \in Edge /\ t \in est[s] /\ queue[<<t, s>>] # <<>> /\ c \in Channel
    BY <1>1, HeadFits, AtServer
  <1> HIDE DEF m, c
  <1>4. Backs(c, m) /\ Told(m, c, c) /\ Due(m, c) /\ Plain(m)
    BY <1>2 DEF Backs, Told, Due, Plain, Stamped
  <1>5. \A w : m \notin Enters(w)
    BY <1>2 DEF Enters
  <1>6. Rises(c, c)
    BY <1>3, RisesSame
  <1> QED BY <1>1, <1>2, <1>3, <1>4, <1>5, <1>6, HandledPromised DEF m, c

\* Nothing that is under way makes anybody leave.
LEMMA NoLeaving ==
    ASSUME IInv, AllFlow, AllPromised, NEW s \in Server, NEW t, MsLeave(s, t) \/ MsQuit(s, t)
    PROVE  FALSE
  <1>1. PICK type \in {"PART", "KICK", "GONE"} : First(s, t, type)
    BY DEF MsLeave, MsQuit
  <1> QED BY <1>1, HeadPromised DEF Plain

-----------------------------------------------------------------------------
(* Links, while nobody leaves.                                             *)

\* What every message of q promises the reader, where the sender has c and he has d.
Kept(q, c, d) ==
    /\ q \in Seq(Message)
    /\ \A i \in 1..Len(q) : Plain(q[i]) /\ Backs(c, q[i]) /\ OnTime(q, i, d)

LEMMA KeptMore ==
    ASSUME NEW c, NEW d \in Channel, NEW q, Kept(q, c, d), NEW m \in Message, Plain(m), Backs(c, m),
           OnTime(q \o <<m>>, Len(q) + 1, d)
    PROVE  Kept(q \o <<m>>, c, d)
  <1> DEFINE p == q \o <<m>>
  <1>1. /\ Len(q) \in Nat /\ p \in Seq(Message) /\ Len(p) = Len(q) + 1
        /\ p[Len(q) + 1] = m /\ \A i \in 1..Len(q) : p[i] = q[i]
    BY QueueFacts DEF Kept
  <1> HIDE DEF p
  <1>2. ASSUME NEW i \in 1..Len(p) PROVE Plain(p[i]) /\ Backs(c, p[i]) /\ OnTime(p, i, d)
    <2>1. CASE i = Len(q) + 1
      BY <1>1, <2>1 DEF p
    <2>2. CASE i # Len(q) + 1
      <3>1. i \in 1..Len(q) /\ i \in Nat /\ i >= 1 /\ q[i] \in Message /\ \A j \in 1..i : j \in 1..Len(q)
        BY <1>1, <2>2 DEF Kept
      <3>2. Plain(q[i]) /\ Backs(c, q[i]) /\ OnTime(q, i, d) /\ Rises(d, d)
        BY <3>1, RisesSame DEF Kept
      <3>3. OnTime(p, i, d)
        BY <1>1, <3>1, <3>2, OnTimeStays
      <3> QED BY <1>1, <3>1, <3>2, <3>3
    <2> QED BY <2>1, <2>2
  <1> QED BY <1>1, <1>2 DEF Kept, p

\* A burst gives a new peer all of the channel.
LEMMA BurstPromised ==
    ASSUME IInv, NEW s \in Server, NEW d \in Channel, NEW hello, Kept(hello, channel[s], d)
    PROVE  LET q == hello \o Burst(s)
               c == channel[s] IN
           /\ Kept(q, c, d) /\ q # <<>>
           /\ \A a : \A k \in Kinds : Exists(c) /\ Has(c, k, a) => Will(q, Len(q), d, k, a, c.ts)
  <1> DEFINE c == channel[s]
             one == hello \o <<UsersOf(s)>>
             two == one \o <<SjoinOf(s)>>
             three == two \o <<BmaskOf(s)>>
             q == hello \o Burst(s)
  <1>1. /\ c \in Channel /\ c.ts \in Nat /\ (Exists(c) \/ c = NoChannel)
        /\ hello \in Seq(Message)
        /\ UsersOf(s) \in Message /\ SjoinOf(s) \in Message /\ BmaskOf(s) \in Message
    BY AtServer, BurstMessages DEF Kept
  <1>2. c.bans # {} => Exists(c)
    BY <1>1 DEF NoChannel
  <1>3. q = IF c.bans = {} THEN IF Exists(c) THEN two ELSE one ELSE three
    BY <1>1, <1>2, BurstIs
  <1>4. /\ UsersOf(s).type = "USERS"
        /\ SjoinOf(s).type = "SJOIN" /\ SjoinOf(s).ts = c.ts /\ SjoinOf(s).modes = c.modes
        /\ ~SjoinOf(s).zero
        /\ \A w \in User : /\ SjoinOf(s).status[w] = "op" <=> c.status[w] = "op"
                           /\ SjoinOf(s).status[w] # "out" <=> w \in Members(c)
        /\ BmaskOf(s).type = "BMASK" /\ BmaskOf(s).ts = c.ts /\ BmaskOf(s).bans = c.bans
    BY DEF UsersOf, SjoinOf, BmaskOf, Members
  <1> HIDE DEF c
  <1>5. Kept(one, c, d)
    <2>1. Plain(UsersOf(s)) /\ Backs(c, UsersOf(s))
      BY <1>4 DEF Plain, Backs, Stamped
    <2>2. one[Len(hello) + 1] = UsersOf(s)
      BY <1>1, QueueFacts
    <2>3. OnTime(one, Len(hello) + 1, d)
      <3> HIDE DEF one
      <3> QED BY <1>4, <2>2 DEF OnTime
    <2> QED BY <1>1, <2>1, <2>3, KeptMore DEF c
  <1>6. \A a : \A k \in Kinds : k # "ban" => (Gives(SjoinOf(s), k, a) <=> k = "channel" \/ Has(c, k, a))
    BY <1>4, KindFacts DEF Gives, Has
  <1>7. \A a : ~Gives(SjoinOf(s), "ban", a)
    BY <1>4 DEF Gives
  <1> HIDE DEF one
  <1>8. ASSUME Exists(c) PROVE Kept(two, c, d)
    <2>1. Plain(SjoinOf(s))
      BY <1>4, <1>8 DEF Plain, Exists, Members
    <2>2. \A a : \A k \in Kinds : Gives(SjoinOf(s), k, a) => Has(c, k, a)
      BY <1>6, <1>7, <1>8 DEF Has
    <2>3. Backs(c, SjoinOf(s))
      BY <1>1, <1>4, <1>8, <2>2 DEF Backs
    <2>4. two[Len(one) + 1] = SjoinOf(s)
      BY <1>1, <1>5, QueueFacts DEF Kept
    <2>5. OnTime(two, Len(one) + 1, d)
      <3> HIDE DEF two
      <3> QED BY <1>4, <2>4 DEF OnTime
    <2> QED BY <1>1, <1>5, <2>1, <2>3, <2>5, KeptMore
  <1>9. ASSUME Exists(c), NEW k \in Kinds, NEW a, Has(c, k, a), k # "ban"
        PROVE  Will(two, Len(two), d, k, a, c.ts)
    <2>1. Len(one) + 1 \in 1..Len(two) /\ two[Len(one) + 1] = SjoinOf(s)
      BY <1>1, <1>5, QueueFacts DEF Kept
    <2> HIDE DEF two
    <2>2. Gives(SjoinOf(s), k, a)
      BY <1>6, <1>9
    <2> QED BY <1>4, <2>1, <2>2 DEF Will, Stamped
  <1>10. Exists(c) => Will(two, Len(two), d, "channel", "channel", c.ts)
    BY <1>9, KindFacts DEF Has
  <1> HIDE DEF two
  <1>11. ASSUME c.bans # {} PROVE Kept(three, c, d)
    <2>1. Exists(c) /\ Kept(two, c, d)
      BY <1>2, <1>8, <1>11
    <2>2. Plain(BmaskOf(s)) /\ Backs(c, BmaskOf(s))
      <3>1. \A a : \A k \in Kinds : Gives(BmaskOf(s), k, a) => Has(c, k, a)
        BY <1>4 DEF Gives, Has
      <3> QED BY <1>1, <1>4, <2>1, <3>1 DEF Plain, Backs
    <2>3. /\ three[Len(two) + 1] = BmaskOf(s) /\ Len(two) \in Nat
          /\ \A i \in 1..Len(two) : three[i] = two[i]
      BY <1>1, <2>1, QueueFacts DEF Kept
    <2>4. OnTime(three, Len(two) + 1, d)
      <3> HIDE DEF three
      <3>1. Will(three, Len(two), d, "channel", "channel", c.ts)
        BY <1>10, <2>1, <2>3 DEF Will
      <3>2. (Len(two) + 1) - 1 = Len(two)
        BY <2>3
      <3> QED BY <1>4, <2>3, <3>1, <3>2 DEF OnTime
    <2> QED BY <1>1, <2>1, <2>2, <2>4, KeptMore
  <1>12. ASSUME c.bans # {}, NEW k \in Kinds, NEW a, Has(c, k, a)
         PROVE  Will(three, Len(three), d, k, a, c.ts)
    <2>1. Exists(c) /\ Kept(two, c, d)
      BY <1>2, <1>8, <1>12
    <2>2. /\ Len(two) \in Nat /\ Len(three) = Len(two) + 1
          /\ three[Len(two) + 1] = BmaskOf(s)
          /\ \A i \in 1..Len(two) : three[i] = two[i]
      BY <1>1, <2>1, QueueFacts DEF Kept
    <2> HIDE DEF three
    <2>3. CASE k # "ban"
      <3>1. Will(two, Len(two), d, k, a, c.ts)
        BY <1>9, <1>12, <2>1, <2>3
      <3>2. \A j \in 1..Len(two) : j \in 1..Len(three) /\ three[j] = two[j]
        BY <2>2
      <3> QED BY <3>1, <3>2 DEF Will
    <2>4. CASE k = "ban"
      <3>1. Gives(BmaskOf(s), k, a)
        BY <1>4, <1>12, <2>4 DEF Gives, Has
      <3>2. Len(two) + 1 \in 1..Len(three)
        BY <2>2
      <3> QED BY <1>4, <2>2, <3>1, <3>2 DEF Will, Stamped
    <2> QED BY <2>3, <2>4
  <1> HIDE DEF three
  <1>13. Kept(q, c, d)
    BY <1>3, <1>5, <1>8, <1>11
  <1>14. \A a : \A k \in Kinds : Exists(c) /\ Has(c, k, a) => Will(q, Len(q), d, k, a, c.ts)
    <2>1. \A k, a : k = "ban" /\ Has(c, k, a) => c.bans # {}
      BY DEF Has
    <2> QED BY <1>3, <1>9, <1>12, <2>1
  <1>15. q # <<>>
    <2>1. one # <<>> /\ two # <<>> /\ three # <<>>
      BY <1>1, <1>5 DEF Kept, one, two, three
    <2> QED BY <1>3, <2>1
  <1> QED BY <1>13, <1>14, <1>15 DEF c

LEMMA AcceptPromised ==
    ASSUME IInv, AllPromised, NEW s \in Server, NEW t \in Server, AcceptLink(s, t)
    PROVE  AllPromised'
  <1> DEFINE hello == <<[type |-> "SERVER"]>>
             q == hello \o Burst(s)
             c == channel[s]
             d == channel[t]
  <1>1. /\ <<s, t>> \in Edge /\ ~Open(s, t) /\ ~Open(t, s)
        /\ est' = [est EXCEPT ![s] = @ \cup {t}]
        /\ queue' = [queue EXCEPT ![<<s, t>>] = q]
        /\ UNCHANGED channel
    BY DEF AcceptLink, ServerEstab
  <1>2. <<t, s>> \in Edge /\ s # t /\ <<s, t>> # <<t, s>>
    BY <1>1, EdgeFacts
  <1>3. s \notin est[t] /\ queue[<<t, s>>] = <<>>
    BY <1>1 DEF Open
  <1>4. d \in Channel
    BY AtServer
  <1>5. Kept(hello, c, d)
    <2> DEFINE m == [type |-> "SERVER"]
    <2>1. m \in Message /\ m.type = "SERVER"
      BY DEF Message
    <2> HIDE DEF m
    <2>2. <<m>> \in Seq(Message) /\ Len(<<m>>) = 1 /\ <<m>>[1] = m
      BY <2>1
    <2>3. \A i \in 1..1 : i = 1
      OBVIOUS
    <2>4. Kept(<<m>>, c, d)
      BY <2>1, <2>2, <2>3 DEF Kept, Plain, Backs, OnTime, Stamped
    <2> QED BY <2>4 DEF m
  <1>6. /\ Kept(q, c, d) /\ q # <<>>
        /\ \A a : \A k \in Kinds : Exists(c) /\ Has(c, k, a) => Will(q, Len(q), d, k, a, c.ts)
    <2> HIDE DEF hello
    <2> QED BY <1>4, <1>5, BurstPromised
  <1> HIDE DEF q, hello
  <1>7. /\ queue'[<<s, t>>] = q /\ \A e \in Edge : e # <<s, t>> => queue'[e] = queue[e]
        /\ t \in est'[s] /\ s \notin est'[t]
        /\ \A y, z \in Server : <<y, z>> # <<s, t>> => (z \in est'[y] <=> z \in est[y])
    BY <1>1, <1>2, <1>3, QueueTyped
  <1>8. Promise(s, t)'
    <2>1. queue'[<<s, t>>] = q /\ t \in est'[s] /\ channel'[s] = c /\ channel'[t] = d
      BY <1>1, <1>7
    <2> HIDE DEF c, d
    <2>2. Covered(s, t)'
      BY <1>6, <2>1 DEF Covered
    <2>3. \A i \in 1..Len(q) : Plain(q[i]) /\ Backs(c, q[i]) /\ OnTime(q, i, d)
      BY <1>6 DEF Kept
    <2> QED BY <2>1, <2>2, <2>3 DEF Promise, Open
  <1>9. Promise(t, s)'
    <2>1. queue'[<<t, s>>] = <<>> /\ queue'[<<s, t>>] # <<>>
      BY <1>2, <1>3, <1>6, <1>7
    <2>2. ASSUME NEW i \in 1..Len(<<>>) PROVE FALSE
      OBVIOUS
    <2> QED BY <1>7, <2>1, <2>2 DEF Promise, Open
  <1>10. ASSUME NEW y, NEW z, <<y, z>> \in Edge, <<y, z>> # <<s, t>>, <<y, z>> # <<t, s>>
         PROVE  Promise(y, z)'
    <2>1. <<z, y>> \in Edge /\ y \in Server /\ z \in Server /\ <<z, y>> # <<s, t>>
      BY <1>10, EdgeFacts
    <2>2. Promise(y, z)
      BY <1>10 DEF AllPromised
    <2>3. /\ queue'[<<y, z>>] = queue[<<y, z>>] /\ queue'[<<z, y>>] = queue[<<z, y>>]
          /\ (z \in est'[y] <=> z \in est[y]) /\ (y \in est'[z] <=> y \in est[z])
      BY <1>7, <1>10, <2>1
    <2> QED BY <1>1, <2>2, <2>3 DEF Promise, Covered, Open
  <1>11. \A y, z : <<y, z>> \in Edge => Promise(y, z)'
    BY <1>8, <1>9, <1>10
  <1> QED BY <1>11 DEF AllPromised, Edge

LEMMA ServerPromised ==
    ASSUME IInv, AllFlow, AllPromised, NEW s \in Server, NEW t \in Server, MrServer(s, t)
    PROVE  AllPromised'
  <1> DEFINE q == queue[<<t, s>>]
             p == Tail(q)
             m == Msg(s, t)
             b == <<>> \o Burst(s)
             c == channel[s]
             d == channel[t]
  <1>1. /\ <<t, s>> \in Edge /\ q # <<>> /\ m = Head(q) /\ m.type = "SERVER"
        /\ est' = [est EXCEPT ![s] = @ \cup {t}] /\ UNCHANGED channel
        /\ queue' = [[queue EXCEPT ![<<t, s>>] = p] EXCEPT
                       ![<<s, t>>] = IF s \in est[t] THEN b ELSE @]
    BY DEF MrServer, ServerEstab, Msg
  <1>2. /\ <<s, t>> \in Edge /\ s # t /\ <<s, t>> # <<t, s>>
    BY <1>1, EdgeFacts
  <1>3. q \in Seq(Message) /\ Flow(t, s) /\ Promise(t, s) /\ c \in Channel /\ d \in Channel
    BY <1>1, QueueTyped DEF AllFlow, AllPromised
  <1> HIDE DEF q, m
  <1>4. /\ Len(q) \in Nat /\ m = q[1] /\ m \in Message
        /\ Len(p) = Len(q) - 1 /\ \A i \in 1..Len(p) : p[i] = q[i + 1]
        /\ Len(q) >= 1
    BY <1>1, <1>3, TailFacts
  <1>5. queue[<<s, t>>] = <<>> /\ s \in est[t]
    BY <1>1, <1>3, <1>4 DEF Flow, Handshake, Promise, Open, q
  <1>6. /\ Kept(b, c, d) /\ b # <<>>
        /\ \A a : \A k \in Kinds : Exists(c) /\ Has(c, k, a) => Will(b, Len(b), d, k, a, c.ts)
    <2> DEFINE hello == <<>>
    <2>1. Kept(hello, c, d)
      BY DEF Kept
    <2> HIDE DEF hello
    <2>2. /\ Kept(hello \o Burst(s), c, d) /\ hello \o Burst(s) # <<>>
          /\ \A a : \A k \in Kinds : Exists(c) /\ Has(c, k, a) =>
                 Will(hello \o Burst(s), Len(hello \o Burst(s)), d, k, a, c.ts)
      BY <1>3, <2>1, BurstPromised
    <2> QED BY <2>2 DEF hello
  <1> HIDE DEF p, b
  <1>7. /\ queue'[<<t, s>>] = p /\ queue'[<<s, t>>] = b
        /\ \A e \in Edge : e # <<s, t>> /\ e # <<t, s>> => queue'[e] = queue[e]
        /\ t \in est'[s] /\ s \in est'[t]
        /\ \A y, z \in Server : <<y, z>> # <<s, t>> => (z \in est'[y] <=> z \in est[y])
    BY <1>1, <1>2, <1>5, QueueTyped
  <1>8. Promise(s, t)'
    <2>1. queue'[<<s, t>>] = b /\ t \in est'[s] /\ channel'[s] = c /\ channel'[t] = d
      BY <1>1, <1>7
    <2> HIDE DEF c, d
    <2>2. Covered(s, t)'
      BY <1>6, <2>1 DEF Covered
    <2>3. \A i \in 1..Len(b) : Plain(b[i]) /\ Backs(c, b[i]) /\ OnTime(b, i, d)
      BY <1>6 DEF Kept
    <2> QED BY <2>1, <2>2, <2>3 DEF Promise, Open
  <1>9. Promise(t, s)'
    <2>1. Rises(c, c) /\ Backs(c, m) /\ \A w : m \notin Enters(w)
      BY <1>1, <1>3, RisesSame DEF Backs, Stamped, Enters
    <2> HIDE DEF c, d
    <2>2. ASSUME NEW i \in 1..Len(p) PROVE Plain(p[i]) /\ Backs(d, p[i]) /\ OnTime(p, i, c)
      <3>1. i \in 1..(Len(q) - 1) /\ i + 1 \in 1..Len(q) /\ p[i] = q[i + 1]
        BY <1>4
      <3>2. Plain(q[i + 1]) /\ Backs(d, q[i + 1]) /\ OnTime(q, i + 1, c)
        BY <1>3, <3>1 DEF Promise, q, c, d
      <3>3. OnTime(Tail(q), i, c)
        BY <1>1, <1>3, <2>1, <3>1, <3>2, OnTimeRead
      <3> QED BY <3>1, <3>2, <3>3 DEF p
    <2>3. ASSUME NEW k \in Kinds, NEW a, Exists(d), Has(d, k, a)
          PROVE  Will(p, Len(p), c, k, a, d.ts)
      <3> DEFINE n == Len(q) - 1
                 ts == d.ts
      <3>1. n + 1 = Len(q) /\ n \in 0..(Len(q) - 1) /\ n = Len(p) /\ ts \in Nat
        BY <1>3, <1>4 DEF Channel
      <3>2. Will(q, n + 1, c, k, a, ts)
        <4>1. Will(q, Len(q), c, k, a, d.ts)
          BY <1>3, <1>5, <2>3 DEF Promise, Covered, q, c, d
        <4> QED BY <3>1, <4>1
      <3> HIDE DEF n, ts
      <3>3. Will(Tail(q), n, c, k, a, ts)
        BY <1>1, <1>3, <2>1, <3>1, <3>2, WillRead
      <3> QED BY <3>1, <3>3 DEF p, ts
    <2>4. queue'[<<t, s>>] = p /\ t \in est'[s] /\ s \in est'[t] /\ channel'[s] = c /\ channel'[t] = d
      BY <1>1, <1>7 DEF c, d
    <2> HIDE DEF c, d
    <2>5. Covered(t, s)'
      BY <2>3, <2>4 DEF Covered
    <2>6. \A i \in 1..Len(p) : Plain(p[i]) /\ Backs(d, p[i]) /\ OnTime(p, i, c)
      BY <2>2
    <2> QED BY <2>4, <2>5, <2>6 DEF Promise, Open
  <1>10. ASSUME NEW y, NEW z, <<y, z>> \in Edge, <<y, z>> # <<s, t>>, <<y, z>> # <<t, s>>
         PROVE  Promise(y, z)'
    <2>1. /\ <<z, y>> \in Edge /\ y \in Server /\ z \in Server
          /\ <<z, y>> # <<s, t>> /\ <<z, y>> # <<t, s>>
      BY <1>10, EdgeFacts
    <2>2. Promise(y, z)
      BY <1>10 DEF AllPromised
    <2>3. /\ queue'[<<y, z>>] = queue[<<y, z>>] /\ queue'[<<z, y>>] = queue[<<z, y>>]
          /\ (z \in est'[y] <=> z \in est[y]) /\ (y \in est'[z] <=> y \in est[z])
      BY <1>7, <1>10, <2>1
    <2> QED BY <1>1, <2>2, <2>3 DEF Promise, Covered, Open
  <1>11. \A y, z : <<y, z>> \in Edge => Promise(y, z)'
    BY <1>8, <1>9, <1>10
  <1> QED BY <1>11 DEF AllPromised, Edge

-----------------------------------------------------------------------------
(* The state of the channel agrees.                                        *)

LEMMA StartsPromised ==
    ASSUME Init
    PROVE  AllPromised
  <1>1. ASSUME NEW e \in Edge PROVE Promise(e[1], e[2])
    <2>1. <<e[1], e[2]>> \in Edge /\ <<e[2], e[1]>> \in Edge /\ e[1] \in Server /\ e[2] \in Server
      BY DEF Edge
    <2>2. /\ queue[<<e[1], e[2]>>] = <<>> /\ queue[<<e[2], e[1]>>] = <<>>
          /\ est[e[1]] = {} /\ est[e[2]] = {}
      BY <2>1 DEF Init
    <2>3. ~Open(e[2], e[1])
      BY <2>2 DEF Open
    <2>4. ASSUME NEW i \in 1..Len(<<>>) PROVE FALSE
      OBVIOUS
    <2> QED BY <2>2, <2>3, <2>4 DEF Promise
  <1> QED BY <1>1 DEF AllPromised

\* The counters only grow.
LEMMA LeftBefore ==
    ASSUME IInv, [Next]_vars, NobodyLeft'
    PROVE  NobodyLeft /\ UNCHANGED <<parts, kicks, kills, splits>>
  <1>1. parts \in Nat /\ kicks \in Nat /\ kills \in Nat /\ splits \in Nat
    BY DEF IInv, Counters
  <1> DEFINE Same == UNCHANGED <<parts, kicks, kills, splits>>
             Counts == \/ Same
                       \/ parts' = parts + 1 /\ UNCHANGED <<kicks, kills, splits>>
                       \/ kicks' = kicks + 1 /\ UNCHANGED <<parts, kills, splits>>
                       \/ kills' = kills + 1 /\ UNCHANGED <<parts, kicks, splits>>
                       \/ splits' = splits + 1 /\ UNCHANGED <<parts, kicks, kills>>
  <1>2. ASSUME UNCHANGED vars \/ Tick PROVE Same
    BY <1>2 DEF vars, Tick
  <1>3. ASSUME ClientStep PROVE Counts
    <2>1. \A u \in User : Create(u) \/ Join(u) => Same
      BY DEF Create, Join
    <2>2. \A u \in User, h \in Change : Mode(u, h) => Same
      BY DEF Mode
    <2>3. /\ \A u \in User : Part(u) => Counts
          /\ \A u, v \in User : Kick(u, v) => Counts
          /\ \A u \in User, s \in Server : Kill(s, u) => Counts
      BY DEF Part, Kick, Kill
    <2> HIDE DEF Same
    <2> QED BY <1>3, <2>1, <2>2, <2>3 DEF ClientStep
  <1>4. ASSUME NEW s \in Server, NEW t \in Server, Receive(s, t) PROVE Same
    <2>1. Steady => Same
      BY DEF Steady
    <2>2. MrServer(s, t) => Same
      BY DEF MrServer
    <2>3. /\ MsSjoin(s, t) \/ MsJoin(s, t) \/ MsTmode(s, t) \/ MsBmask(s, t) => Steady
          /\ MsLeave(s, t) \/ MsUid(s, t) \/ MsQuit(s, t) => Steady
      BY DEF MsSjoin, MsJoin, MsTmode, MsBmask, MsLeave, MsUid, MsQuit
    <2> QED BY <1>4, <2>1, <2>2, <2>3 DEF Receive
  <1>5. ASSUME NEW s \in Server, NEW t \in Server, AcceptLink(s, t) \/ CloseLink(s, t) PROVE Counts
    BY <1>5 DEF AcceptLink, CloseLink
  <1>6. Counts
    <2>1. Same => Counts
      OBVIOUS
    <2> HIDE DEF Same, Counts
    <2> QED BY <1>2, <1>3, <1>4, <1>5, <2>1 DEF Next
  <1> QED BY <1>1, <1>6 DEF NobodyLeft

LEMMA StaysPromised ==
    ASSUME IInv, IInv', MInv, KInv, [Next]_vars
    PROVE  KInv'
  <1> SUFFICES ASSUME NobodyLeft' PROVE AllPromised'
    BY DEF KInv
  <1>1. /\ NobodyLeft /\ AllPromised
        /\ parts \in Nat /\ kicks \in Nat /\ kills \in Nat /\ splits \in Nat
        /\ UNCHANGED <<parts, kicks, kills, splits>>
    BY LeftBefore DEF KInv, IInv, Counters
  <1>2. AllFlow
    BY <1>1 DEF MInv, NobodyLeft, Gentle
  <1>3. CASE UNCHANGED vars \/ Tick
    BY <1>1, <1>3 DEF vars, Tick, AllPromised, Promise, Covered, Open
  <1>4. CASE ClientStep
    <2>1. ASSUME NEW u \in User, Part(u) PROVE FALSE
      BY <1>1, <2>1 DEF Part
    <2>2. ASSUME NEW u \in User, NEW v \in User, Kick(u, v) PROVE FALSE
      BY <1>1, <2>2 DEF Kick
    <2>3. ASSUME NEW s \in Server, NEW u \in User, Kill(s, u) PROVE FALSE
      BY <1>1, <2>3 DEF Kill
    <2> QED BY <1>1, <1>2, <1>4, <2>1, <2>2, <2>3, CreatePromised, JoinPromised, ModePromised
            DEF ClientStep
  <1>5. ASSUME NEW s \in Server, NEW t \in Server, Receive(s, t) PROVE AllPromised'
    BY <1>1, <1>2, <1>5, SjoinPromised, RemoteJoinPromised, TmodePromised, BmaskPromised,
       UidPromised, NoLeaving, ServerPromised DEF Receive
  <1>6. ASSUME NEW s \in Server, NEW t \in Server, CloseLink(s, t) PROVE FALSE
    <2>1. <<s, t>> \in Edge /\ Open(s, t) /\ (~Open(t, s) \/ splits' = splits + 1)
      BY <1>6 DEF CloseLink
    <2>2. ~Open(t, s)
      BY <1>1, <2>1
    <2>3. <<t, s>> \in Edge
      BY <2>1, EdgeFacts
    <2>4. Promise(t, s)
      BY <1>1, <2>3 DEF AllPromised
    <2> QED BY <2>1, <2>2, <2>4 DEF Promise
  <1>7. ASSUME NEW s \in Server, NEW t \in Server, AcceptLink(s, t) PROVE AllPromised'
    BY <1>1, <1>7, AcceptPromised
  <1> QED BY <1>3, <1>4, <1>5, <1>6, <1>7 DEF Next

\* The inductive invariant of the channel's state: while nobody leaves, every message is
\* backed by what its sender has, comes after what it depends on, and all that the sender
\* has is on the way or there (ms_sjoin, ms_join, ms_tmode, ms_bmask and burst_TS6).
THEOREM StateAgrees == Spec => [](IInv /\ MInv /\ KInv)
  <1>1. Init => IInv /\ MInv /\ KInv
    BY StartsSound, StartsFlowing, StartsPromised DEF MInv, KInv
  <1>2. IInv /\ MInv /\ KInv /\ [Next]_vars => IInv' /\ MInv' /\ KInv'
    BY StaysSound, StaysFlowing, StaysPromised
  <1> QED BY <1>1, <1>2, PTL DEF Spec

-----------------------------------------------------------------------------
(* What follows.                                                           *)

\* While nobody leaves, the promises hold.
LEMMA Promised ==
    ASSUME IInv, MInv, KInv, NobodyLeft
    PROVE  AllFlow /\ AllPromised
  <1>1. Gentle
    BY DEF NobodyLeft, Gentle, IInv, Counters
  <1> QED BY <1>1 DEF MInv, KInv

\* A queue that is empty promises what is there.
LEMMA QuietCovers ==
    ASSUME IInv, AllPromised, Quiet, NEW s \in Server, NEW t \in Server, Linked(s, t),
           Exists(channel[s]), NEW k \in Kinds, NEW a, Has(channel[s], k, a)
    PROVE  /\ Exists(channel[t]) /\ channel[t].ts <= channel[s].ts
           /\ channel[t].ts = channel[s].ts => Has(channel[t], k, a)
  <1>1. <<s, t>> \in Edge /\ t \in est[s] /\ queue[<<s, t>>] = <<>>
    BY DEF Linked, Quiet
  <1>2. Covered(s, t)
    BY <1>1 DEF AllPromised, Promise
  <1>3. Len(<<>>) = 0
    OBVIOUS
  <1>4. Will(<<>>, 0, channel[t], k, a, channel[s].ts)
    BY <1>1, <1>2, <1>3 DEF Covered
  <1>5. channel[s].ts \in Nat /\ channel[t].ts \in Nat
    BY AtServer
  <1> QED BY <1>4, <1>5, WillNow

\* So the two ends of a quiet link have the same.
LEMMA QuietStates ==
    ASSUME IInv, AllFlow, AllPromised, Quiet, OnlyGiven,
           NEW s \in Server, NEW t \in Server, Linked(s, t)
    PROVE  SameAt(s, t) /\ channel[s].bans = channel[t].bans
  <1>1. Members(channel[s]) = Members(channel[t])
    BY QuietMembers
  <1>2. Linked(t, s)
    BY EdgeFacts DEF Linked, Quiet
  <1>3. /\ channel[s].ts \in Nat /\ channel[t].ts \in Nat
        /\ Exists(channel[s]) \/ channel[s] = NoChannel
        /\ Exists(channel[t]) \/ channel[t] = NoChannel
    BY AtServer
  <1>4. CASE ~Exists(channel[s])
    <2>1. ~Exists(channel[t])
      BY <1>1, <1>4 DEF Exists
    <2> QED BY <1>1, <1>3, <1>4, <2>1 DEF SameAt
  <1>5. CASE Exists(channel[s])
    <2>1. Exists(channel[t])
      BY <1>1, <1>5 DEF Exists
    <2>2. Has(channel[s], "channel", "channel") /\ Has(channel[t], "channel", "channel")
      BY <1>5, <2>1 DEF Has
    <2>3. channel[s].ts = channel[t].ts
      BY <1>2, <1>3, <1>5, <2>1, <2>2, QuietCovers, KindFacts
    <2>4. \A a : \A k \in Kinds : Has(channel[s], k, a) <=> Has(channel[t], k, a)
      BY <1>2, <1>5, <2>1, <2>3, QuietCovers
    <2>5. Ops(channel[s]) = Ops(channel[t])
      <3>1. \A a \in User : channel[s].status[a] = "op" <=> channel[t].status[a] = "op"
        BY <2>4, KindFacts DEF Has
      <3> QED BY <3>1 DEF Ops
    <2>6. channel[s].modes = channel[t].modes
      <3>1. \A a : a \in channel[s].modes <=> a \in channel[t].modes
        BY <2>4, KindFacts DEF Has
      <3> QED BY <3>1, AtServer
    <2>7. channel[s].bans = channel[t].bans
      <3>1. \A a : a \in channel[s].bans <=> a \in channel[t].bans
        BY <2>4, KindFacts DEF Has
      <3> QED BY <3>1, AtServer
    <2> QED BY <1>1, <2>3, <2>5, <2>6, <2>7 DEF SameAt
  <1> QED BY <1>4, <1>5

\* While nobody leaves, what a mode change or a ban list says is under the channel's
\* own timestamp wherever it passes the timestamp rule: the SJOIN that lowers it has
\* come before, on every server that relays it (modules/core/m_mode.c:193,
\* modules/core/m_mode.c:242).
THEOREM NeverBelowHolds == Spec => []NeverBelow
  <1>1. ASSUME IInv, MInv, KInv PROVE NeverBelow
    <2> SUFFICES ASSUME NobodyLeft, NEW s \in Server, NEW t \in Server,
                        First(s, t, "BMASK") \/ First(s, t, "TMODE"),
                        MayChange(channel[s], Msg(s, t).ts)
                 PROVE  Msg(s, t).ts = channel[s].ts
      BY DEF NeverBelow
    <2>1. AllFlow /\ AllPromised
      BY <1>1, Promised
    <2>2. Msg(s, t) \in Message /\ Msg(s, t).type \in {"BMASK", "TMODE"}
          /\ channel[s].ts <= Msg(s, t).ts
      BY <1>1, <2>1, HeadPromised
    <2>3. Msg(s, t).ts \in Nat /\ channel[s].ts \in Nat
      BY <1>1, <2>2, ReadMessages, AtServer
    <2> QED BY <2>2, <2>3 DEF MayChange
  <1> QED BY <1>1, StateAgrees, PTL

\* While nobody leaves and modes are only given, the second check of ms_tmode, on the
\* status of who changes a mode, drops nothing that the timestamp has let through
\* (modules/core/m_mode.c:205).
THEOREM NoDeoppedChangeHolds == Spec => []NoDeoppedChange
  <1>1. ASSUME IInv, MInv, KInv PROVE NoDeoppedChange
    <2> SUFFICES ASSUME NobodyLeft, OnlyGiven, NEW s \in Server, NEW t \in Server,
                        First(s, t, "TMODE"), MayChange(channel[s], Msg(s, t).ts)
                 PROVE  channel[s].status[Msg(s, t).u] # "deop"
      BY DEF NoDeoppedChange
    <2>1. AllFlow /\ AllPromised
      BY <1>1, Promised
    <2>2. /\ Msg(s, t) \in Message /\ Msg(s, t).type = "TMODE"
          /\ \/ channel[s].ts < Msg(s, t).ts
             \/ channel[s].status[Msg(s, t).u] = "op"
      BY <1>1, <2>1, HeadPromised
    <2>3. Msg(s, t).ts \in Nat /\ channel[s].ts \in Nat
      BY <1>1, <2>2, ReadMessages, AtServer
    <2> QED BY <2>2, <2>3 DEF MayChange
  <1> QED BY <1>1, StateAgrees, PTL

\* While nobody leaves and modes are only given, both ends of a quiet link have the
\* same timestamp, modes, members and operators: SJOIN's merge, the JOIN's and the
\* timestamp rule of mode changes settle every order in which they cross
\* (modules/core/m_sjoin.c:245, modules/core/m_join.c:544, modules/core/m_mode.c:193).
THEOREM SameWhileNobodyLeavesHolds == Spec => []SameWhileNobodyLeaves
  <1>1. IInv /\ MInv /\ KInv => SameWhileNobodyLeaves
    BY Promised, QuietStates DEF SameWhileNobodyLeaves
  <1> QED BY <1>1, StateAgrees, PTL

\* And the same bans: a lower timestamp's SJOIN removes those of the higher
\* (modules/core/m_sjoin.c:584), and a burst's BMASK follows its SJOIN.
THEOREM SameBansHolds == Spec => []SameBans
  <1>1. IInv /\ MInv /\ KInv => SameBans
    BY Promised, QuietStates DEF SameBans
  <1> QED BY <1>1, StateAgrees, PTL

=============================================================================
