------------------------------ MODULE ChannelTS ------------------------------
(***************************************************************************)
(* One channel on a network of TS6 servers: members, channel operators,    *)
(* simple modes and bans, and the timestamp that decides whose state       *)
(* survives when servers that created the channel apart are linked.        *)
(*                                                                         *)
(* Sources: modules/core/m_sjoin.c, m_join.c, m_mode.c, m_part.c, m_kick.c *)
(* src/channel.c, src/chmode.c, src/s_serv.c (burst_TS6, server_estab).    *)
(*                                                                         *)
(* Not seen here: voice (an op flag without the deop memory), key, limit,  *)
(* forward and throttle (larger value wins, as set union does for flags),  *)
(* exempt and invite lists, topics, permanent channels, a timestamp of 0,  *)
(* kick_on_split_riding (off by default) and operator override.            *)
(***************************************************************************)
EXTENDS Integers, FiniteSets, Sequences

CONSTANTS
    Server,      \* the servers
    Links,       \* the configured links, a tree of two-element sets
    User,        \* the clients
    Home,        \* Home[u]: the server u is connected to
    Created,     \* the modes of a new channel: +nt
    Change,      \* the changes channel operators make
    MaxNow, MaxActs, MaxPart, MaxKick, MaxKill, MaxSplit   \* bounds

ASSUME HomeAssumption == Home \in [User -> Server]
ASSUME BoundAssumption == {MaxNow, MaxActs, MaxPart, MaxKick, MaxKill, MaxSplit} \subseteq Nat
ASSUME LinkAssumption == \A l \in Links : l \subseteq Server
ASSUME ChangeAssumption == \A h \in Change :
    /\ h.dir \in {"+", "-"}
    /\ h.kind \in {"mode", "op", "ban"}
    /\ h.kind # "mode" => h.arg \in User

VARIABLES
    now,        \* seconds
    channel,    \* channel[s]: what s has of the channel
    users,      \* users[s]: the clients s knows
    granted,    \* <<u, ts>>: u was made operator under ts (history)
    est,        \* est[s]: the servers s has a link to
    queue,      \* queue[<<s, t>>]: what s has sent to t and t has not read
    acts, parts, kicks, kills, splits   \* counters, bounded by Max...

vars == <<now, channel, users, granted, est, queue, acts, parts, kicks, kills, splits>>

-----------------------------------------------------------------------------
(* The channel at one server.  A member is an operator, a plain member, or *)
(* one whose operator status was refused (CHFL_DEOPPED).  A channel exists *)
(* while it has members.                                                   *)

Edge == {e \in Server \X Server : {e[1], e[2]} \in Links}

\* Every link is the only way between its two sides: server_exists turns a link
\* away that would close a cycle.
ASSUME TreeAssumption == \A e \in Edge : \E C \in SUBSET Server :
    /\ e[2] \in C /\ e[1] \notin C
    /\ \A l \in Links \ {{e[1], e[2]}} : l \cap C # {} => l \subseteq C

Flag == Created \cup {h.arg : h \in {g \in Change : g.kind = "mode"}}

Status == {"out", "in", "op", "deop"}

Channel == [ts : Nat, modes : SUBSET Flag, bans : SUBSET User, status : [User -> Status]]

NoChannel == [ts |-> 0, modes |-> {}, bans |-> {}, status |-> [u \in User |-> "out"]]

Members(c) == {u \in User : c.status[u] # "out"}

Ops(c) == {u \in User : c.status[u] = "op"}

Exists(c) == Members(c) # {}

SettleLater(c) == c   \* mutant: destroy_channel is not called

\* The last member to leave destroys the channel.
Settle(c) == IF Exists(c) THEN c ELSE NoChannel

Remove(c, gone) ==
    Settle([c EXCEPT !.status = [u \in User |-> IF u \in gone THEN "out" ELSE @[u]]])

KeepNewModes(c, ts) == ~Exists(c) \/ ts <= c.ts

KeepOurModesStrict(c, ts) == ~Exists(c) \/ c.ts < ts   \* mutant: a tie loses

KeepOurModes(c, ts) == ~Exists(c) \/ c.ts <= ts

\* Mutant: remove_our_modes is not called.
MergeKeepsOps(c, ts, modes) ==
    [ts |-> IF KeepNewModes(c, ts) THEN ts ELSE c.ts,
     modes |-> (IF KeepNewModes(c, ts) THEN modes ELSE {})
               \cup (IF KeepOurModes(c, ts) THEN c.modes ELSE {}),
     bans |-> c.bans,
     status |-> c.status]

\* Mutant: the timestamp of an existing channel is not lowered.
MergeKeepsTS(c, ts, modes) ==
    [ts |-> IF Exists(c) THEN c.ts ELSE ts,
     modes |-> (IF KeepNewModes(c, ts) THEN modes ELSE {})
               \cup (IF KeepOurModes(c, ts) THEN c.modes ELSE {}),
     bans |-> c.bans,
     status |-> [u \in User |-> IF c.status[u] = "op" /\ ~KeepOurModes(c, ts) THEN "in"
                                ELSE c.status[u]]]

\* What ms_sjoin and ms_join make of the channel before they add members:
\* the lower timestamp wins, and equal ones share their modes.
Merge(c, ts, modes) ==
    [ts |-> IF KeepNewModes(c, ts) THEN ts ELSE c.ts,
     modes |-> (IF KeepNewModes(c, ts) THEN modes ELSE {})
               \cup (IF KeepOurModes(c, ts) THEN c.modes ELSE {}),
     bans |-> c.bans,
     status |-> [u \in User |-> IF c.status[u] = "op" /\ ~KeepOurModes(c, ts) THEN "in"
                                ELSE c.status[u]]]

BansKept(c, ts) == c.bans   \* mutant: remove_ban_list is not called

\* What an SJOIN with joins leaves of the bans.
BansAfter(c, ts) == IF KeepOurModes(c, ts) THEN c.bans ELSE {}

\* Mutant: +o leaves CHFL_DEOPPED.
ApplyKeepsDeop(c, h) ==
    CASE h.kind = "op" ->
            [c EXCEPT !.status[h.arg] =
                IF @ \in {"out", "deop"} THEN @ ELSE IF h.dir = "+" THEN "op" ELSE "in"]
      [] h.kind = "ban" -> [c EXCEPT !.bans = IF h.dir = "+" THEN @ \cup {h.arg} ELSE @ \ {h.arg}]
      [] h.kind = "mode" -> [c EXCEPT !.modes = IF h.dir = "+" THEN @ \cup {h.arg} ELSE @ \ {h.arg}]

\* A mode change of one letter.  -o does not make up for a refusal, +o does.
Apply(c, h) ==
    CASE h.kind = "op" ->
            [c EXCEPT !.status[h.arg] =
                IF @ = "out" \/ (@ = "deop" /\ h.dir = "-") THEN @
                ELSE IF h.dir = "+" THEN "op" ELSE "in"]
      [] h.kind = "ban" -> [c EXCEPT !.bans = IF h.dir = "+" THEN @ \cup {h.arg} ELSE @ \ {h.arg}]
      [] h.kind = "mode" -> [c EXCEPT !.modes = IF h.dir = "+" THEN @ \cup {h.arg} ELSE @ \ {h.arg}]

\* Is it passed on?  The op change of a member and the removal of a ban always,
\* whether it is there or not; the others if they change something.
Recorded(c, h) ==
    CASE h.kind = "op" -> c.status[h.arg] # "out"
      [] h.kind = "ban" /\ h.dir = "-" -> TRUE
      [] OTHER -> Apply(c, h) # c

-----------------------------------------------------------------------------
(* Sending and handling.                                                   *)

Message ==
    [type : {"SERVER"}] \cup [type : {"USERS", "GONE"}, us : SUBSET User]
    \cup [type : {"SJOIN"}, ts : Nat, modes : SUBSET Flag, zero : BOOLEAN,
          status : [User -> {"out", "in", "op"}]]
    \cup [type : {"JOIN"}, u : User, ts : Nat, modes : SUBSET Flag]
    \cup [type : {"TMODE"}, u : User, ts : Nat, change : Change]
    \cup [type : {"BMASK"}, ts : Nat, bans : SUBSET User]
    \cup [type : {"PART", "KICK"}, u : User, by : User]

Open(s, t) == t \in est[s] \/ queue[<<t, s>>] # <<>>

\* s sends ms to its peers other than t.
Transmit(s, t, queues, ms) ==
    [e \in Edge |-> IF e[1] = s /\ e[2] \in est[s] \ {t} /\ Open(e[2], s)
                    THEN queues[e] \o ms ELSE queues[e]]

\* An event of s's own: its channel becomes c and it sends ms.
Do(s, c, ms) ==
    /\ channel' = [channel EXCEPT ![s] = c]
    /\ queue' = Transmit(s, s, queue, ms)

\* s handles the first message of t: its channel becomes c and it sends ms on.
Handle(s, t, c, ms) ==
    /\ channel' = [channel EXCEPT ![s] = c]
    /\ queue' = Transmit(s, t, [queue EXCEPT ![<<t, s>>] = Tail(@)], ms)

First(s, t, type) ==
    /\ <<t, s>> \in Edge /\ t \in est[s]
    /\ queue[<<t, s>>] # <<>>
    /\ Head(queue[<<t, s>>]).type = type

Msg(s, t) == Head(queue[<<t, s>>])

Counted == acts < MaxActs /\ acts' = acts + 1

\* The users that s reaches through t.
Behind == [e \in Edge |->
    {u \in User : \A C \in SUBSET Server :
        (/\ e[2] \in C
         /\ \A l \in Links \ {{e[1], e[2]}} : l \cap C # {} => l \subseteq C)
        => Home[u] \in C}]

Local(s) == {u \in User : Home[u] = s}

Steady == UNCHANGED <<now, granted, est, acts, parts, kicks, kills, splits>>

Tick ==
    /\ now < MaxNow /\ now' = now + 1
    /\ UNCHANGED <<channel, users, granted, est, queue, acts, parts, kicks, kills, splits>>

-----------------------------------------------------------------------------
(* What clients do.                                                        *)

\* m_join where the channel does not exist: its creator is operator.
Create(u) ==
    LET s == Home[u]
        c == [ts |-> now, modes |-> Created, bans |-> {},
              status |-> [NoChannel.status EXCEPT ![u] = "op"]] IN
    /\ u \in users[s] /\ ~Exists(channel[s])
    /\ Do(s, c, <<[type |-> "SJOIN", ts |-> now, modes |-> Created, zero |-> FALSE,
                   status |-> c.status]>>)
    /\ granted' = granted \cup {<<u, now>>}
    /\ Counted /\ UNCHANGED <<now, users, est, parts, kicks, kills, splits>>

\* can_join.
CanJoin(c, u) == u \notin c.bans /\ "i" \notin c.modes

Join(u) ==
    LET s == Home[u]
        c == channel[s] IN
    /\ u \in users[s] /\ Exists(c) /\ c.status[u] = "out" /\ CanJoin(c, u)
    /\ Do(s, [c EXCEPT !.status[u] = "in"],
          <<[type |-> "JOIN", u |-> u, ts |-> c.ts, modes |-> c.modes]>>)
    /\ Counted /\ UNCHANGED <<now, users, granted, est, parts, kicks, kills, splits>>

Part(u) ==
    LET s == Home[u] IN
    /\ u \in users[s] /\ channel[s].status[u] # "out"
    /\ Do(s, Remove(channel[s], {u}), <<[type |-> "PART", u |-> u, by |-> u]>>)
    /\ parts < MaxPart /\ parts' = parts + 1
    /\ UNCHANGED <<now, users, granted, est, acts, kicks, kills, splits>>

Kick(o, u) ==
    LET s == Home[o] IN
    /\ channel[s].status[o] = "op" /\ channel[s].status[u] # "out"
    /\ Do(s, Remove(channel[s], {u}), <<[type |-> "KICK", u |-> u, by |-> o]>>)
    /\ kicks < MaxKick /\ kicks' = kicks + 1
    /\ UNCHANGED <<now, users, granted, est, acts, parts, kills, splits>>

Mode(o, h) ==
    LET s == Home[o]
        c == channel[s] IN
    /\ c.status[o] = "op" /\ Recorded(c, h)
    /\ Do(s, Apply(c, h), <<[type |-> "TMODE", u |-> o, ts |-> c.ts, change |-> h]>>)
    /\ granted' = IF h.kind = "op" /\ h.dir = "+" THEN granted \cup {<<h.arg, c.ts>>} ELSE granted
    /\ Counted /\ UNCHANGED <<now, users, est, parts, kicks, kills, splits>>

\* A client leaves the network: by itself, or killed at any server.
Kill(s, u) ==
    /\ u \in users[s]
    /\ kills < MaxKill /\ kills' = kills + 1
    /\ users' = [users EXCEPT ![s] = @ \ {u}]
    /\ Do(s, Remove(channel[s], {u}), <<[type |-> "GONE", us |-> {u}]>>)
    /\ UNCHANGED <<now, granted, est, acts, parts, kicks, splits>>

-----------------------------------------------------------------------------
(* Messages from a peer.                                                   *)

MsSjoin(s, t) ==
    /\ First(s, t, "SJOIN")
    /\ LET m == Msg(s, t)
           old == channel[s]
           listed == {u \in users[s] \cap Behind[<<s, t>>] : m.status[u] # "out"}
           joins == listed \ Members(old)
           newModes == KeepNewModes(old, m.ts)
           given == [u \in User |-> IF newModes THEN m.status[u]
                                    ELSE IF m.status[u] = "op" THEN "deop" ELSE "in"]
           merged == Merge(old, m.ts, m.modes)
           zero == m.zero \/ ~newModes IN
       \/ /\ joins = {}
          /\ Handle(s, t, Settle(merged), <<>>)
       \/ /\ joins # {}
          /\ Handle(s, t,
                [ts |-> merged.ts, modes |-> merged.modes, bans |-> BansAfter(old, m.ts),
                 status |-> [u \in User |-> IF u \in joins THEN given[u] ELSE merged.status[u]]],
                <<[type |-> "SJOIN", ts |-> merged.ts,
                   modes |-> IF zero THEN {} ELSE merged.modes, zero |-> zero,
                   status |-> [u \in User |->
                        IF u \notin listed THEN "out"
                        ELSE IF newModes THEN m.status[u] ELSE "in"]]>>)
    /\ Steady /\ UNCHANGED users

\* A message whose prefix is a client that s has killed is dropped.  The KILL
\* it is answered with follows the GONE that s has sent, so it finds nobody.
Stranger(s, t, u) == u \notin users[s] /\ Handle(s, t, channel[s], <<>>)

MsJoin(s, t) ==
    /\ First(s, t, "JOIN")
    /\ LET u == Msg(s, t).u
           merged == Merge(channel[s], Msg(s, t).ts, Msg(s, t).modes)
           joined == [merged EXCEPT !.status[u] = IF @ = "out" THEN "in" ELSE @] IN
       \/ Stranger(s, t, u)
       \/ /\ u \in users[s]
          /\ Handle(s, t, joined,
                <<[type |-> "JOIN", u |-> u, ts |-> joined.ts, modes |-> joined.modes]>>)
    /\ Steady /\ UNCHANGED users

\* "simple channel TS rules": a change made under a higher timestamp is dropped.
MayChange(c, ts) == Exists(c) /\ ts <= c.ts

MsTmode(s, t) ==
    /\ First(s, t, "TMODE")
    /\ LET m == Msg(s, t)
           c == channel[s]
           obeyed == MayChange(c, m.ts) /\ c.status[m.u] # "deop" /\ Recorded(c, m.change) IN
       \/ Stranger(s, t, m.u)
       \/ /\ m.u \in users[s] /\ ~obeyed
          /\ Handle(s, t, c, <<>>)
       \/ /\ m.u \in users[s] /\ obeyed
          /\ Handle(s, t, Apply(c, m.change), <<[m EXCEPT !.ts = c.ts]>>)
    /\ Steady /\ UNCHANGED users

MsBmask(s, t) ==
    /\ First(s, t, "BMASK")
    /\ LET m == Msg(s, t)
           c == channel[s] IN
       \/ /\ ~MayChange(c, m.ts)
          /\ Handle(s, t, c, <<>>)
       \/ /\ MayChange(c, m.ts)
          /\ Handle(s, t, [c EXCEPT !.bans = @ \cup m.bans], <<[m EXCEPT !.ts = c.ts]>>)
    /\ Steady /\ UNCHANGED users

\* PART and KICK carry no timestamp.
MsLeave(s, t) ==
    /\ First(s, t, "PART") \/ First(s, t, "KICK")
    /\ LET m == Msg(s, t)
           c == channel[s] IN
       \/ Stranger(s, t, m.by)
       \/ /\ m.by \in users[s] /\ c.status[m.u] = "out"
          /\ Handle(s, t, c, <<>>)
       \/ /\ m.by \in users[s] /\ c.status[m.u] # "out"
          /\ Handle(s, t, Remove(c, {m.u}), <<m>>)
    /\ Steady /\ UNCHANGED users

\* The clients of a burst are introduced.
MsUid(s, t) ==
    /\ First(s, t, "USERS")
    /\ users' = [users EXCEPT ![s] = @ \cup Msg(s, t).us]
    /\ Handle(s, t, channel[s], <<Msg(s, t)>>)
    /\ Steady

\* Clients quit, are killed or are split off.
MsQuit(s, t) ==
    /\ First(s, t, "GONE")
    /\ LET gone == Msg(s, t).us \cap users[s] IN
       /\ users' = [users EXCEPT ![s] = @ \ gone]
       /\ Handle(s, t, Remove(channel[s], gone),
                 IF gone = {} THEN <<>> ELSE <<[type |-> "GONE", us |-> gone]>>)
    /\ Steady

-----------------------------------------------------------------------------
(* Links.  Each end sends its burst when it establishes the link: the one  *)
(* that accepts, then the other when it reads the accepter's SERVER.       *)

\* Mutant: burst_TS6 sends the channel before the clients.
BurstChannelFirst(s) ==
    LET c == channel[s] IN
    (IF Exists(c)
     THEN <<[type |-> "SJOIN", ts |-> c.ts, modes |-> c.modes, zero |-> FALSE,
             status |-> [u \in User |-> IF c.status[u] = "deop" THEN "in" ELSE c.status[u]]]>>
     ELSE <<>>)
    \o <<[type |-> "USERS", us |-> users[s]]>>
    \o (IF c.bans = {} THEN <<>> ELSE <<[type |-> "BMASK", ts |-> c.ts, bans |-> c.bans]>>)

Burst(s) ==
    LET c == channel[s] IN
    <<[type |-> "USERS", us |-> users[s]]>>
    \o (IF Exists(c)
        THEN <<[type |-> "SJOIN", ts |-> c.ts, modes |-> c.modes, zero |-> FALSE,
                status |-> [u \in User |-> IF c.status[u] = "deop" THEN "in" ELSE c.status[u]]]>>
        ELSE <<>>)
    \o (IF c.bans = {} THEN <<>> ELSE <<[type |-> "BMASK", ts |-> c.ts, bans |-> c.bans]>>)

ServerEstab(s, t, hello, listening, queues) ==
    /\ est' = [est EXCEPT ![s] = @ \cup {t}]
    /\ queue' = [queues EXCEPT ![<<s, t>>] = IF listening THEN hello \o Burst(s) ELSE @]

AcceptLink(s, t) ==
    /\ <<s, t>> \in Edge
    /\ ~Open(s, t) /\ ~Open(t, s)
    /\ ServerEstab(s, t, <<[type |-> "SERVER"]>>, TRUE, queue)
    /\ UNCHANGED <<now, channel, users, granted, acts, parts, kicks, kills, splits>>

MrServer(s, t) ==
    /\ <<t, s>> \in Edge
    /\ queue[<<t, s>>] # <<>> /\ Msg(s, t).type = "SERVER"
    /\ ServerEstab(s, t, <<>>, s \in est[t], [queue EXCEPT ![<<t, s>>] = Tail(@)])
    /\ UNCHANGED <<now, channel, users, granted, acts, parts, kicks, kills, splits>>

\* s closes its end: because t has closed, or on an error or a command of its
\* own, which MaxSplit bounds.
CloseLink(s, t) ==
    /\ <<s, t>> \in Edge /\ Open(s, t)
    /\ \/ ~Open(t, s) /\ UNCHANGED splits
       \/ splits < MaxSplit /\ splits' = splits + 1
    /\ est' = [est EXCEPT ![s] = @ \ {t}]
    /\ LET gone == Behind[<<s, t>>] \cap users[s] IN
       /\ users' = [users EXCEPT ![s] = @ \ gone]
       /\ channel' = [channel EXCEPT ![s] = Remove(@, gone)]
       /\ queue' = [Transmit(s, t, queue, <<[type |-> "GONE", us |-> gone]>>)
                    EXCEPT ![<<t, s>>] = <<>>]
    /\ UNCHANGED <<now, granted, acts, parts, kicks, kills>>

-----------------------------------------------------------------------------

Init ==
    /\ now = 1
    /\ channel = [s \in Server |-> NoChannel]
    /\ users = [s \in Server |-> Local(s)]
    /\ granted = {}
    /\ est = [s \in Server |-> {}]
    /\ queue = [e \in Edge |-> <<>>]
    /\ acts = 0 /\ parts = 0 /\ kicks = 0 /\ kills = 0 /\ splits = 0

ClientStep ==
    \E u \in User :
        \/ Create(u) \/ Join(u) \/ Part(u)
        \/ \E v \in User : Kick(u, v)
        \/ \E h \in Change : Mode(u, h)
        \/ \E s \in Server : Kill(s, u)

Receive(s, t) ==
    \/ MsSjoin(s, t) \/ MsJoin(s, t) \/ MsTmode(s, t) \/ MsBmask(s, t)
    \/ MsLeave(s, t) \/ MsUid(s, t) \/ MsQuit(s, t) \/ MrServer(s, t)

Next ==
    \/ Tick \/ ClientStep
    \/ \E s, t \in Server : Receive(s, t) \/ AcceptLink(s, t) \/ CloseLink(s, t)

Spec == Init /\ [][Next]_vars

-----------------------------------------------------------------------------
(* Properties.                                                             *)

\* Types; and a channel has only members the server knows, and is destroyed
\* with the last of them.
TypeOK ==
    /\ now \in Nat
    /\ channel \in [Server -> Channel]
    /\ users \in [Server -> SUBSET User]
    /\ granted \subseteq User \X Nat
    /\ est \in [Server -> SUBSET Server]
    /\ queue \in [Edge -> Seq(Message)]
    /\ {acts, parts, kicks, kills, splits} \subseteq Nat
    /\ \A s \in Server :
        Members(channel[s]) \subseteq users[s] /\ (Exists(channel[s]) \/ channel[s] = NoChannel)

\* u was made operator under ts, or under an older timestamp.
Earned(u, ts) == \E old \in 0..ts : <<u, old>> \in granted

\* A channel operator was made one under a timestamp not above the one that the
\* channel has where he is seen: no status given under a timestamp that has lost
\* survives at any server, whatever crosses on the way ("an opping needs to be
\* discarded to avoid hacked ops", README.TSora).  It may be one given under an
\* older channel, which a KICK has destroyed here meanwhile.
OpsEarned == \A s \in Server : \A u \in Ops(channel[s]) : Earned(u, channel[s].ts)

\* Nobody has left the channel, and no link has broken.
NobodyLeft == parts + kicks + kills + splits = 0

\* Operators only give: two who take and give the same mode at once are not
\* reconciled, for a mode change has no timestamp of its own.
OnlyGiven == \A h \in Change : h.dir = "+"

\* While nobody leaves the channel and no mode is taken away, a mode change that
\* passes the timestamp rule does not come from a client whose status was refused,
\* so ms_tmode's second check (modules/core/m_mode.c:205) drops nothing.  After a PART
\* it does: a +o sent to a client who has left and come back counts at his server,
\* while another refuses the status that he came back with, and then all his changes.
NoDeoppedChange ==
    NobodyLeft /\ OnlyGiven => \A s, t \in Server :
        First(s, t, "TMODE") /\ MayChange(channel[s], Msg(s, t).ts)
        => channel[s].status[Msg(s, t).u] # "deop"

\* While nobody leaves, bans and mode changes never arrive with a timestamp below
\* the channel's: the SJOIN before them has lowered it, on every server that relays
\* it (ts6.txt says so of BMASK).  After two PARTs a TMODE may: the one who was
\* made operator leaves and comes back, and the channel is destroyed at the
\* server of the one who made him operator before he is seen to come back.
NeverBelow ==
    NobodyLeft => \A s, t \in Server :
        /\ First(s, t, "BMASK") \/ First(s, t, "TMODE")
        /\ MayChange(channel[s], Msg(s, t).ts)
        => Msg(s, t).ts = channel[s].ts

Quiet ==
    /\ \A e \in Edge : queue[e] = <<>>
    /\ \A e \in Edge : e[1] \in est[e[2]] <=> e[2] \in est[e[1]]

\* The servers at the two ends of a link.
Linked(s, t) == <<s, t>> \in Edge /\ t \in est[s]

SameAt(s, t) ==
    /\ channel[s].ts = channel[t].ts
    /\ channel[s].modes = channel[t].modes
    /\ Members(channel[s]) = Members(channel[t])
    /\ Ops(channel[s]) = Ops(channel[t])

\* While nobody leaves the channel and no mode is taken away, both ends of every
\* link come to the same members, operators, modes and timestamp, in whatever
\* order SJOINs, JOINs and mode changes cross.  A split is like a PART: the last
\* member of the older channel may be behind the link that breaks.
SameWhileNobodyLeaves ==
    Quiet /\ NobodyLeft /\ OnlyGiven =>
        \A s, t \in Server : Linked(s, t) => SameAt(s, t)

\* And to the same bans.
SameBans ==
    Quiet /\ NobodyLeft /\ OnlyGiven =>
        \A s, t \in Server : Linked(s, t) => channel[s].bans = channel[t].bans

\* Without KICK and KILL the member lists agree even when members leave and
\* come back.
SameMembers ==
    Quiet /\ kicks + kills = 0 =>
        \A s, t \in Server : Linked(s, t) => Members(channel[s]) = Members(channel[t])

\* The same without reserve: "the final state will be the same, independently
\* of the exact order in which each server received the SJOINs, and will be the
\* same across all the servers in the same zone" (README.TSora).
SameFinalState ==
    Quiet => \A s, t \in Server : Linked(s, t) => SameAt(s, t)

=============================================================================
