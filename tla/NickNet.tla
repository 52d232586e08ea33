------------------------------- MODULE NickNet -------------------------------
(***************************************************************************)
(* Nicknames in a network of ircd-seven servers: who holds which nick at   *)
(* which server, while servers propagate introductions, nick changes,      *)
(* collisions (kill or SAVE), quits and kills over TS6 links that break    *)
(* and come back.                                                          *)
(*                                                                         *)
(* Sources: modules/core/m_nick.c, m_kill.c, m_quit.c, m_server.c,         *)
(* m_squit.c, src/parse.c (prefix checks), src/client.c (exits),           *)
(* src/s_serv.c (server_estab and the burst), src/s_newconf.c (nick delay).*)
(*                                                                         *)
(* A nick stands for its class of case variants (irccmp), so a change of   *)
(* case is not seen.  The configured links form a tree; linking races that *)
(* would build a cycle belong to another module.  All servers speak TS6.   *)
(***************************************************************************)
EXTENDS Integers, FiniteSets, Sequences, SequencesExt

CONSTANTS
    Server,        \* the servers, each named by its SID
    Links,         \* the configured links: two-element sets of servers
    User,          \* the clients, each named by the UID it will get
    Home,          \* Home[u]: the server u connects to
    Ident,         \* Ident[u]: the user@host of u
    Nick,          \* the nicks clients ask for
    SaveCap,       \* the servers that have CAP_SAVE
    CollisionFnc,  \* general::collision_fnc
    NickDelay,     \* general::nick_delay > 0
    Oper,          \* the clients that can use KILL
    Skew,          \* Skew[s]: how far the clock of s is ahead
    SameSecond,    \* may a client change its nick twice within a second?
    MaxNow, MaxRename, MaxSplit, MaxKill,  \* bounds
    MaxActs        \* a bound on all of these, a split counted twice

NoNick == "no nick"

ASSUME UserAssumption == Home \in [User -> Server] /\ Nick \cap User = {}
\* A SID has three characters, a UID nine.
ASSUME SidAssumption == Server \cap User = {}
ASSUME FiniteAssumption == IsFiniteSet(User) /\ IsFiniteSet(Server)
ASSUME NameAssumption == NoNick \notin Nick \cup User
ASSUME ClockAssumption == Skew \in [Server -> Nat] /\ MaxNow \in Nat
ASSUME FlagAssumption ==
    {CollisionFnc, NickDelay, SameSecond} \subseteq BOOLEAN
ASSUME BoundAssumption == {MaxRename, MaxSplit, MaxKill, MaxActs} \subseteq Nat
ASSUME LinkAssumption == \A l \in Links : l \subseteq Server

VARIABLES
    now,      \* seconds
    client,   \* client[s][u]: what s knows of u
    nd,       \* nd[s]: the names s holds back after a split
    used,     \* the clients that have connected: a UID is used once
    claims,   \* every <<u, nick, ts>> a client took by itself (history)
    known,    \* known[s]: the other servers s knows (global_serv_list)
    est,      \* est[s]: the servers s has a link to (serv_list)
    chan,     \* chan[<<s, t>>]: what s has sent to t and t has not read
    renames, splits, kills   \* counters, bounded by Max...

vars == <<now, client, nd, used, claims, known, est, chan, renames, splits, kills>>

-----------------------------------------------------------------------------
(* The tree of links.                                                      *)

Edge == {e \in Server \X Server : {e[1], e[2]} \in Links}

\* The servers on t's side of the link <<s, t>>.
Behind == [e \in Edge |->
    {x \in Server : \A C \in SUBSET Server :
        (/\ e[2] \in C
         /\ \A l \in Links \ {{e[1], e[2]}} : l \cap C # {} => l \subseteq C)
        => x \in C}]

\* Every link is the only way between its two sides: server_exists turns a
\* link away that would close a cycle.
ASSUME TreeAssumption ==
    \A e \in Edge : \E C \in SUBSET Server :
        /\ e[2] \in C /\ e[1] \notin C
        /\ \A l \in Links \ {{e[1], e[2]}} : l \cap C # {} => l \subseteq C

\* The links join all the servers: they are the servers of one network.
ASSUME ConnectedAssumption ==
    \A C \in SUBSET Server :
        C # {} /\ (\A e \in Edge : e[1] \in C => e[2] \in C) => C = Server

\* The servers after s on the way from s to x, x included.
Way(s, x) == {e[2] : e \in {d \in Edge : s \notin Behind[d] /\ x \in Behind[d]}}

-----------------------------------------------------------------------------
(* What a server knows of a client: nothing, a connection that has sent    *)
(* NICK but is not registered, or a person.  After a forced change the     *)
(* nick of u is its UID, u itself; nobody can have the UID of another.     *)

Name == Nick \cup User

NameFor(u) == Nick \cup {u}

Absent == [on |-> "absent", nick |-> NoNick, ts |-> 0]

Entry == [on : {"absent", "unknown", "person"}, nick : Name \cup {NoNick}, ts : Nat]

Table == {c \in [User -> Entry] : \A u \in User : c[u] = Absent \/ c[u].nick \in NameFor(u)}

Message ==
    [type : {"SERVER"}] \cup [type : {"SID", "SQUIT"}, sid : Server]
    \cup {m \in [type : {"UID", "NICK"}, u : User, nick : Name, ts : Nat] : m.nick \in NameFor(m.u)}
    \cup [type : {"SAVE"}, u : User, ts : Nat]
    \cup [type : {"QUIT"}, u : User]
    \cup [type : {"KILL"}, u : User, src : Server \cup User]

CurrentTime(s) == now + Skew[s]

Local(s) == {u \in User : Home[u] = s}

IsPerson(e) == e.on = "person"

Holders(table, n) == {v \in User : table[v].on # "absent" /\ table[v].nick = n}

\* The state of one server while it handles one event: its table, its nick
\* delay entries, and what it sends to each peer.
Here(s) == [client |-> client[s], nd |-> nd[s], out |-> [t \in Server |-> <<>>]]

SendTo(L, peers, m) ==
    [L EXCEPT !.out = [t \in Server |-> IF t \in peers THEN Append(@[t], m) ELSE @[t]]]

Drop(L, u) == [L EXCEPT !.client[u] = Absent]

\* u is stored under its new nick, which is no longer held back.
Store(L, u, e) ==
    [client |-> [L.client EXCEPT ![u] = e], nd |-> L.nd \ {e.nick}, out |-> L.out]

\* The same for a client elsewhere that is known already.
Rename(L, u, n, ts) == Store(L, u, [on |-> L.client[u].on, nick |-> n, ts |-> ts])

\* A client of this server changes nick: the delay list is not looked at.
ChangeLocalNick(L, u, n, ts) ==
    [client |-> [L.client EXCEPT ![u] = [on |-> @.on, nick |-> n, ts |-> ts]],
     nd |-> L.nd, out |-> L.out]

\* kill_client_serv_butone(NULL, ...): to every server, the sender of the
\* message being handled included, since it has a SID and the victim a UID.
KillEverywhere(L, s, u) ==
    Drop(SendTo(L, est[s], [type |-> "KILL", u |-> u, src |-> s]), u)

\* Mutant of KillBack: the KILL for the user that is refused is not sent.
KillBackSilent(L, s, t, u) == L

KillBack(L, s, t, u) == SendTo(L, {t}, [type |-> "KILL", u |-> u, src |-> s])

\* Mutant of SaveBack: the peer is not told to rename its user.
SaveBackSilent(L, t, u, ts) == L

SaveBack(L, t, u, ts) == SendTo(L, {t}, [type |-> "SAVE", u |-> u, ts |-> ts])

\* Mutant of Introduce: the nick delay entry survives.
IntroduceDelayed(L, s, t, u, n, ts) ==
    SendTo([L EXCEPT !.client[u] = [on |-> "person", nick |-> n, ts |-> ts]],
           est[s] \ {t}, [type |-> "UID", u |-> u, nick |-> n, ts |-> ts])

Introduce(L, s, t, u, n, ts) ==
    SendTo(Store(L, u, [on |-> "person", nick |-> n, ts |-> ts]),
           est[s] \ {t}, [type |-> "UID", u |-> u, nick |-> n, ts |-> ts])

ChangeRemoteNick(L, s, t, u, n, ts) ==
    Rename(SendTo(L, est[s] \ {t}, [type |-> "NICK", u |-> u, nick |-> n, ts |-> ts]),
           u, n, ts)

\* Does every server between s and the user or server behind x have SAVE?
CanSave(s, x) == Way(s, x) \subseteq SaveCap

SaveUser(L, s, t, v) ==
    IF Way(s, Home[v]) \cap est[s] \subseteq SaveCap
    THEN LET M == SendTo(
                    SendTo(L, (est[s] \ {t}) \cap SaveCap,
                           [type |-> "SAVE", u |-> v, ts |-> L.client[v].ts]),
                    (est[s] \ {t}) \ SaveCap,
                    [type |-> "NICK", u |-> v, nick |-> v, ts |-> CurrentTime(s)]) IN
         IF Home[v] = s THEN ChangeLocalNick(M, v, v, CurrentTime(s))
                        ELSE Rename(M, v, v, CurrentTime(s))
    ELSE KillEverywhere(L, s, v)

-----------------------------------------------------------------------------
(* A link end is open from the moment its peer starts the handshake until  *)
(* it closes; what is sent to a closed end is lost.                        *)

Open(s, t) == t \in est[s] \/ chan[<<t, s>>] # <<>>

Transmit(s, queues, out) ==
    [e \in Edge |-> IF e[1] = s /\ Open(e[2], s) THEN queues[e] \o out[e[2]]
                                                  ELSE queues[e]]

\* s ends the handling of an event of its own.
Commit(s, L) ==
    /\ client' = [client EXCEPT ![s] = L.client]
    /\ nd' = [nd EXCEPT ![s] = L.nd]
    /\ chan' = Transmit(s, chan, L.out)

\* s ends the handling of the first message from t.
CommitFrom(s, t, L) ==
    /\ client' = [client EXCEPT ![s] = L.client]
    /\ nd' = [nd EXCEPT ![s] = L.nd]
    /\ chan' = Transmit(s, [chan EXCEPT ![<<t, s>>] = Tail(@)], L.out)

\* The first message from t is of this type, and t is linked to s.
First(s, t, type) ==
    /\ <<t, s>> \in Edge /\ t \in est[s]
    /\ chan[<<t, s>>] # <<>>
    /\ Head(chan[<<t, s>>]).type = type

Msg(s, t) == Head(chan[<<t, s>>])

Steady == UNCHANGED <<now, used, claims, known, est, renames, splits, kills>>

-----------------------------------------------------------------------------
(* Clients.                                                                *)

Tick ==
    /\ now < MaxNow
    /\ now' = now + 1
    /\ UNCHANGED <<client, nd, used, claims, known, est, chan, renames, splits, kills>>

\* What the bound MaxActs leaves room for: an act of weight w.
MayAct(w) == renames + kills + 2 * splits + w <= MaxActs

\* NICK from a connection that is not registered: refused while the nick is
\* held back, or held by anyone else, registered or not.
MrNick(u, n) ==
    LET s == Home[u] IN
    /\ u \notin used \/ client[s][u].on = "unknown"
    /\ n \notin nd[s]
    /\ Holders(client[s], n) = {}
    /\ client' = [client EXCEPT ![s][u] =
                    [on |-> "unknown", nick |-> n, ts |-> CurrentTime(s)]]
    /\ u \in used => renames < MaxRename /\ MayAct(1)
    /\ renames' = IF u \in used THEN renames + 1 ELSE renames
    /\ used' = used \cup {u}
    /\ claims' = claims \cup {<<u, n, CurrentTime(s)>>}
    /\ UNCHANGED <<now, nd, known, est, chan, splits, kills>>

\* The registration completes: register_local_user, introduce_client.
Register(u) ==
    LET s == Home[u]
        e == client[s][u] IN
    /\ e.on = "unknown"
    /\ Commit(s, SendTo([Here(s) EXCEPT !.client[u].on = "person"], est[s],
                        [type |-> "UID", u |-> u, nick |-> e.nick, ts |-> e.ts]))
    /\ Steady

\* The connection ends before it is registered: nobody else is told.
ExitUnknown(u) ==
    /\ client[Home[u]][u].on = "unknown"
    /\ client' = [client EXCEPT ![Home[u]][u] = Absent]
    /\ Steady /\ UNCHANGED <<nd, chan>>

\* NICK from a person: an unregistered holder is thrown out.
MNick(u, n) ==
    LET s == Home[u]
        others == Holders(client[s], n)
        ts == CurrentTime(s)
        L == [Here(s) EXCEPT !.client =
                [v \in User |-> IF v \in others THEN Absent ELSE @[v]]] IN
    /\ IsPerson(client[s][u])
    /\ n # client[s][u].nick
    /\ n \notin nd[s]
    /\ \A v \in others : client[s][v].on = "unknown"
    /\ SameSecond \/ ts > client[s][u].ts
    /\ MayAct(1) /\ renames < MaxRename /\ renames' = renames + 1
    /\ Commit(s, ChangeLocalNick(
                    SendTo(L, est[s], [type |-> "NICK", u |-> u, nick |-> n, ts |-> ts]),
                    u, n, ts))
    /\ claims' = claims \cup {<<u, n, ts>>}
    /\ UNCHANGED <<now, used, known, est, splits, kills>>

Quit(u) ==
    LET s == Home[u] IN
    /\ IsPerson(client[s][u])
    /\ Commit(s, Drop(SendTo(Here(s), est[s], [type |-> "QUIT", u |-> u]), u))
    /\ Steady

\* KILL from an operator: a local victim leaves with a QUIT.
MoKill(o, v) ==
    LET s == Home[o]
        m == IF Home[v] = s THEN [type |-> "QUIT", u |-> v]
                            ELSE [type |-> "KILL", u |-> v, src |-> o] IN
    /\ o \in Oper /\ IsPerson(client[s][o]) /\ IsPerson(client[s][v])
    /\ MayAct(1) /\ kills < MaxKill /\ kills' = kills + 1
    /\ Commit(s, Drop(SendTo(Here(s), est[s], m), v))
    /\ UNCHANGED <<now, used, claims, known, est, renames, splits>>

\* expire_nd_entries.
ExpireNd(s) ==
    /\ nd[s] # {}
    /\ \E n \in nd[s] : nd' = [nd EXCEPT ![s] = @ \ {n}]
    /\ Steady /\ UNCHANGED <<client, chan>>

-----------------------------------------------------------------------------
(* Messages from a peer.  A message whose prefix is a client s does not    *)
(* know is answered with a KILL for it (parse, remove_unknown).            *)

UnknownPrefix(s, t, u) ==
    /\ client[s][u].on = "absent"
    /\ CommitFrom(s, t, KillBack(Here(s), s, t, u))

\* TS rules for u coming to nick n with timestamp ts where v holds it.
BothLose(s, v, ts) == ts = client[s][v].ts

\* Mutant of NewLoses: the user@host is not compared.
NewLosesAnyIdent(s, u, v, ts) == ts > client[s][v].ts

NewLoses(s, u, v, ts) ==
    IF Ident[u] = Ident[v] THEN ts < client[s][v].ts ELSE ts > client[s][v].ts

OldLoses(s, u, v, ts) == ~BothLose(s, v, ts) /\ ~NewLoses(s, u, v, ts)

UseSave(s, u, v) == CollisionFnc /\ CanSave(s, Home[u]) /\ CanSave(s, Home[v])

\* Mutant of Overridden: the unregistered holder stays.
OverriddenKept(s, n) == Here(s)

\* s's state once those holding n unregistered have been thrown out.
Overridden(s, n) ==
    [Here(s) EXCEPT !.client =
        [v \in User |-> IF @[v].on = "unknown" /\ @[v].nick = n THEN Absent ELSE @[v]]]

\* Mutant of PersonsHolding: a client does not find a person on its own server.
PersonsHoldingRemote(s, n) ==
    {v \in Holders(client[s], n) : IsPerson(client[s][v]) /\ Home[v] # s}

PersonsHolding(s, n) == {v \in Holders(client[s], n) : IsPerson(client[s][v])}

\* The introduction of a user: ms_uid, ms_euid and perform_nick_collides.
MsUid(s, t) ==
    /\ First(s, t, "UID")
    /\ LET u == Msg(s, t).u
           n == Msg(s, t).nick
           ts == Msg(s, t).ts
           L == Here(s) IN
       \/ /\ PersonsHolding(s, n) = {}
          /\ CommitFrom(s, t, Introduce(Overridden(s, n), s, t, u, n, ts))
       \/ \E v \in PersonsHolding(s, n) :
          \/ /\ BothLose(s, v, ts) /\ UseSave(s, u, v)
             /\ CommitFrom(s, t,
                    Introduce(SaveBack(SaveUser(L, s, s, v), t, u, ts), s, t, u, u, ts))
          \/ /\ BothLose(s, v, ts) /\ ~UseSave(s, u, v)
             /\ CommitFrom(s, t, KillEverywhere(KillBack(L, s, t, u), s, v))
          \/ /\ ~BothLose(s, v, ts) /\ NewLoses(s, u, v, ts) /\ UseSave(s, u, v)
             /\ CommitFrom(s, t, Introduce(SaveBack(L, t, u, ts), s, t, u, u, ts))
          \/ /\ ~BothLose(s, v, ts) /\ NewLoses(s, u, v, ts) /\ ~UseSave(s, u, v)
             /\ CommitFrom(s, t, KillBack(L, s, t, u))
          \/ /\ OldLoses(s, u, v, ts) /\ UseSave(s, u, v)
             /\ CommitFrom(s, t, Introduce(SaveUser(L, s, s, v), s, t, u, n, ts))
          \/ /\ OldLoses(s, u, v, ts) /\ ~UseSave(s, u, v)
             /\ CommitFrom(s, t, Introduce(KillEverywhere(L, s, v), s, t, u, n, ts))
    /\ Steady

\* Mutant of ForceUidNick: the loser keeps its old nick.
ForceUidNickNot(L, s, t, u) == L

\* u keeps its nick if that is its UID already.
ForceUidNick(L, s, t, u) ==
    IF L.client[u].nick = u THEN L ELSE ChangeRemoteNick(L, s, t, u, u, CurrentTime(s))

\* A nick change from another server: mc_nick, perform_nickchange_collides.
McNick(s, t) ==
    /\ First(s, t, "NICK")
    /\ LET u == Msg(s, t).u
           n == Msg(s, t).nick
           ts == Msg(s, t).ts
           L == Here(s) IN
       \/ UnknownPrefix(s, t, u)
       \/ /\ IsPerson(client[s][u])
          /\ PersonsHolding(s, n) = {}
          /\ CommitFrom(s, t, ChangeRemoteNick(Overridden(s, n), s, t, u, n, ts))
       \/ /\ IsPerson(client[s][u])
          /\ u \in PersonsHolding(s, n)
          /\ CommitFrom(s, t, L)
       \/ \E v \in PersonsHolding(s, n) \ {u} :
          /\ IsPerson(client[s][u])
          /\ \/ /\ BothLose(s, v, ts) /\ UseSave(s, u, v)
                /\ CommitFrom(s, t,
                       ForceUidNick(SaveBack(SaveUser(L, s, s, v), t, u, ts), s, t, u))
             \/ /\ BothLose(s, v, ts) /\ ~UseSave(s, u, v)
                /\ CommitFrom(s, t, KillEverywhere(KillEverywhere(L, s, u), s, v))
             \/ /\ ~BothLose(s, v, ts) /\ NewLoses(s, u, v, ts) /\ UseSave(s, u, v)
                /\ CommitFrom(s, t, ForceUidNick(SaveBack(L, t, u, ts), s, t, u))
             \/ /\ ~BothLose(s, v, ts) /\ NewLoses(s, u, v, ts) /\ ~UseSave(s, u, v)
                /\ CommitFrom(s, t, KillEverywhere(L, s, u))
             \/ /\ OldLoses(s, u, v, ts) /\ UseSave(s, u, v)
                /\ CommitFrom(s, t, ChangeRemoteNick(SaveUser(L, s, s, v), s, t, u, n, ts))
             \/ /\ OldLoses(s, u, v, ts) /\ ~UseSave(s, u, v)
                /\ CommitFrom(s, t, ChangeRemoteNick(KillEverywhere(L, s, v), s, t, u, n, ts))
    /\ Steady

\* Mutant of Obeys: the timestamp is not compared.
ObeysAny(e, v, ts) == IsPerson(e) /\ e.nick # v

\* A SAVE for v is obeyed only while v holds the nick it was sent for, which
\* the timestamp is to tell.
Obeys(e, v, ts) == IsPerson(e) /\ e.nick # v /\ e.ts = ts

MsSave(s, t) ==
    /\ First(s, t, "SAVE")
    /\ LET v == Msg(s, t).u
           obeyed == Obeys(client[s][v], v, Msg(s, t).ts) IN
       \/ /\ obeyed
          /\ CommitFrom(s, t, SaveUser(Here(s), s, t, v))
       \/ /\ ~obeyed
          /\ CommitFrom(s, t, Here(s))
    /\ Steady

MsQuit(s, t) ==
    /\ First(s, t, "QUIT")
    /\ LET u == Msg(s, t).u IN
       \/ UnknownPrefix(s, t, u)
       \/ /\ client[s][u].on # "absent"
          /\ CommitFrom(s, t, Drop(SendTo(Here(s), est[s] \ {t}, Msg(s, t)), u))
    /\ Steady

\* KILL, from a server or from the operator who typed it.
MsKill(s, t) ==
    /\ First(s, t, "KILL")
    /\ LET v == Msg(s, t).u
           src == Msg(s, t).src
           prefixOk == src \in User => client[s][src].on # "absent" IN
       \/ src \in User /\ UnknownPrefix(s, t, src)
       \/ /\ prefixOk /\ ~IsPerson(client[s][v])
          /\ CommitFrom(s, t, Here(s))
       \/ /\ prefixOk /\ IsPerson(client[s][v])
          /\ CommitFrom(s, t, Drop(SendTo(Here(s), est[s] \ {t}, Msg(s, t)), v))
    /\ Steady

-----------------------------------------------------------------------------
(* Links.  server_estab runs at each end in its turn: at the end that      *)
(* accepts, and at the other when it reads the accepter's SERVER.          *)

\* The SIDs, then the EUIDs, that s sends to a server that has just linked;
\* both in list order, which may be any.
Burst(s, sids, uids) ==
    [i \in 1..Len(sids) |-> [type |-> "SID", sid |-> sids[i]]]
    \o [i \in 1..Len(uids) |-> [type |-> "UID", u |-> uids[i],
                                nick |-> client[s][uids[i]].nick,
                                ts |-> client[s][uids[i]].ts]]

Persons(s) == {u \in User : IsPerson(client[s][u])}

ServerEstab(s, t, hello, listening, queues) ==
    /\ est' = [est EXCEPT ![s] = @ \cup {t}]
    /\ known' = [known EXCEPT ![s] = @ \cup {t}]
    /\ \E sids \in SetToSeqs(known[s]), uids \in SetToSeqs(Persons(s)) :
         chan' = [Transmit(s, queues,
                     [p \in Server |-> IF p \in est[s]
                                       THEN <<[type |-> "SID", sid |-> t]>> ELSE <<>>])
                  EXCEPT ![<<s, t>>] =
                    IF listening THEN hello \o Burst(s, sids, uids) ELSE @]

\* s accepts a connection from t.
AcceptLink(s, t) ==
    /\ <<s, t>> \in Edge
    /\ ~Open(s, t) /\ ~Open(t, s)
    /\ t \notin known[s]
    /\ ServerEstab(s, t, <<[type |-> "SERVER"]>>, TRUE, chan)
    /\ UNCHANGED <<now, client, nd, used, claims, renames, splits, kills>>

\* s reads the SERVER of the peer it connected to.
MrServer(s, t) ==
    /\ <<t, s>> \in Edge
    /\ chan[<<t, s>>] # <<>> /\ Msg(s, t).type = "SERVER"
    /\ t \notin known[s]
    /\ ServerEstab(s, t, <<>>, s \in est[t], [chan EXCEPT ![<<t, s>>] = Tail(@)])
    /\ UNCHANGED <<now, client, nd, used, claims, renames, splits, kills>>

MsSid(s, t) ==
    /\ First(s, t, "SID")
    /\ Msg(s, t).sid \notin known[s]
    /\ known' = [known EXCEPT ![s] = @ \cup {Msg(s, t).sid}]
    /\ CommitFrom(s, t, SendTo(Here(s), est[s] \ {t}, Msg(s, t)))
    /\ UNCHANGED <<now, used, claims, est, renames, splits, kills>>

\* Mutant of Forget: everybody's name is held back, not only those of the lost.
ForgetAllNames(L, lost) ==
    LET gone == {u \in User : Home[u] \in lost /\ L.client[u].on # "absent"}
        all == {u \in User : L.client[u].on # "absent"} IN
    [L EXCEPT !.client = [u \in User |-> IF u \in gone THEN Absent ELSE @[u]],
              !.nd = IF NickDelay THEN @ \cup {L.client[u].nick : u \in all} ELSE @]

\* Mutant of Forget: the users of the lost servers stay.
ForgetNobody(L, lost) == L

\* The users on the servers of lost go; their names are held back, a UID that
\* somebody was forced onto as well.
Forget(L, lost) ==
    LET gone == {u \in User : Home[u] \in lost /\ L.client[u].on # "absent"}
        names == {L.client[u].nick : u \in gone} IN
    [client |-> [u \in User |-> IF u \in gone THEN Absent ELSE L.client[u]],
     nd |-> IF NickDelay THEN L.nd \cup names ELSE L.nd,
     out |-> L.out]

\* Mutant of Lost: only the server that has split is forgotten.
LostAlone(s, x) == {x}

\* Mutant of Lost: the servers behind x are forgotten, x is not.
LostBehind(s, x) == {y \in known[s] : x \in Way(s, y)} \ {x}

\* The servers s knows behind x, x included.
Lost(s, x) == {y \in known[s] : x \in Way(s, y)}

MsSquit(s, t) ==
    /\ First(s, t, "SQUIT")
    /\ LET x == Msg(s, t).sid IN
       \/ /\ x \notin known[s]
          /\ CommitFrom(s, t, Here(s))
          /\ UNCHANGED known
       \/ /\ x \in known[s]
          /\ known' = [known EXCEPT ![s] = @ \ Lost(s, x)]
          /\ CommitFrom(s, t, SendTo(Forget(Here(s), Lost(s, x)), est[s] \ {t}, Msg(s, t)))
    /\ UNCHANGED <<now, used, claims, est, renames, splits, kills>>

\* s closes its end of the link: because the peer has closed, or on an error
\* or a command of its own, which MaxSplit bounds.
CloseLink(s, t) ==
    /\ <<s, t>> \in Edge /\ Open(s, t)
    /\ \/ ~Open(t, s) /\ UNCHANGED splits
       \/ MayAct(2) /\ splits < MaxSplit /\ splits' = splits + 1
    /\ est' = [est EXCEPT ![s] = @ \ {t}]
    /\ LET lost == IF t \in est[s] THEN Lost(s, t) ELSE {}
           tell == IF t \in est[s] THEN est[s] \ {t} ELSE {}
           L == SendTo(Forget(Here(s), lost), tell, [type |-> "SQUIT", sid |-> t]) IN
       /\ known' = [known EXCEPT ![s] = @ \ lost]
       /\ client' = [client EXCEPT ![s] = L.client]
       /\ nd' = [nd EXCEPT ![s] = L.nd]
       /\ chan' = [Transmit(s, chan, L.out) EXCEPT ![<<t, s>>] = <<>>]
    /\ UNCHANGED <<now, used, claims, renames, kills>>

-----------------------------------------------------------------------------

Init ==
    /\ now = 1
    /\ client = [s \in Server |-> [u \in User |-> Absent]]
    /\ nd = [s \in Server |-> {}]
    /\ used = {} /\ claims = {}
    /\ known = [s \in Server |-> {}]
    /\ est = [s \in Server |-> {}]
    /\ chan = [e \in Edge |-> <<>>]
    /\ renames = 0 /\ splits = 0 /\ kills = 0

ClientStep ==
    \/ \E u \in User :
         \/ \E n \in Nick : MrNick(u, n) \/ MNick(u, n)
         \/ Register(u) \/ ExitUnknown(u) \/ Quit(u)
         \/ \E v \in User : MoKill(u, v)

Receive(s, t) ==
    \/ MrServer(s, t) \/ MsSid(s, t) \/ MsSquit(s, t)
    \/ MsUid(s, t) \/ McNick(s, t) \/ MsSave(s, t) \/ MsQuit(s, t) \/ MsKill(s, t)

Next ==
    \/ Tick
    \/ ClientStep
    \/ \E s \in Server : ExpireNd(s)
    \/ \E s, t \in Server : Receive(s, t) \/ AcceptLink(s, t) \/ CloseLink(s, t)

Spec == Init /\ [][Next]_vars

\* What the event loop and autoconnect do sooner or later: read what has
\* arrived, notice that the peer has closed, connect again.
Fairness == \A s, t \in Server :
    /\ WF_vars(Receive(s, t))
    /\ WF_vars(CloseLink(s, t) /\ UNCHANGED splits)
    /\ WF_vars(AcceptLink(s, t))

FairSpec == Spec /\ Fairness

-----------------------------------------------------------------------------
(* Properties.                                                             *)

\* Types: a forced nick is always the client's own UID, in the tables and in
\* the messages; a UID may be held back, but never by the client's own server.
TypeOK ==
    /\ now \in Nat
    /\ client \in [Server -> Table]
    /\ nd \in [Server -> SUBSET Name]
    /\ \A s \in Server : Local(s) \cap nd[s] = {}
    /\ used \subseteq User
    /\ claims \subseteq User \X Nick \X Nat
    /\ known \in [Server -> SUBSET Server]
    /\ est \in [Server -> SUBSET Server]
    /\ chan \in [Edge -> Seq(Message)]
    /\ {renames, splits, kills} \subseteq Nat

\* No two clients hold one nick at a server, whatever introductions, changes,
\* collisions and splits it has seen: find_named_client returns the first
\* match, so a second holder would be out of reach by name.
NickUnique ==
    \A s \in Server : \A u, v \in User :
        /\ client[s][u].on # "absent" /\ client[s][v].on # "absent"
        /\ client[s][u].nick = client[s][v].nick
        => u = v

\* A name that somebody holds at s, a UID included, is not also held back there.
\* Splits leave entries for the names of all who were lost; one left behind when
\* its name comes back (register_client, change_remote_nick), or met by a SAVE,
\* which takes the UID of a local client unseen, would keep the nick from local
\* clients after its holder has gone.
HeldNotDelayed ==
    \A s \in Server, u \in User :
        client[s][u].on # "absent" => client[s][u].nick \notin nd[s]

\* Nothing is under way: all queues are read and every link has two ends.
Quiet ==
    /\ \A e \in Edge : chan[e] = <<>>
    /\ \A e \in Edge : e[1] \in est[e[2]] <=> e[2] \in est[e[1]]

\* t, the home of u, and s see u alike.  The timestamp of a UID nick is
\* garbage in the code and may differ.
SameView(s, t, u) ==
    LET e == client[s][u]
        f == client[t][u] IN
    /\ IsPerson(e) <=> IsPerson(f)
    /\ IsPerson(e) => e.nick = f.nick
    /\ IsPerson(e) /\ e.nick \in Nick => e.ts = f.ts

\* When nothing is under way every server sees every user of the servers it
\* knows exactly as the user's own server does: same presence, nick and
\* timestamp.  No collision, crossed nick change or KILL leaves a ghost or
\* a nick desync behind.
Agreement ==
    Quiet => \A s \in Server, u \in User :
                 Home[u] \in known[s] => SameView(s, Home[u], u)

\* The same while no link has broken: over a split a SAVE or KILL that is sent
\* back can be lost.
AgreementUnbroken == splits = 0 => Agreement

\* When nothing is under way a server knows the servers its links lead to, and
\* no user of any other server.
KnowsItsSide ==
    Quiet => \A s \in Server :
        /\ known[s] = {x \in Server \ {s} : \A e \in Edge :
                          s \notin Behind[e] /\ x \in Behind[e] => e[2] \in est[e[1]]}
        /\ \A u \in User : client[s][u].on # "absent" => Home[u] \in known[s] \cup {s}

\* A SID or a UID never reaches a server that has it already, over splits and
\* rejoins: ms_uid does not look for it and would hash the client twice.
NoDuplicateIntro ==
    \A s, t \in Server :
        /\ First(s, t, "UID") => client[s][Msg(s, t).u] = Absent
        /\ First(s, t, "SID") => Msg(s, t).sid \notin known[s]

\* The claim c of a client to a nick loses to the claim d of another.
Beats(d, c) ==
    /\ d[1] # c[1] /\ d[2] = c[2]
    /\ IF Ident[c[1]] = Ident[d[1]] THEN d[3] >= c[3] ELSE d[3] <= c[3]

\* u's own entry, at its home.
Self(u) == client[Home[u]][u]

\* A user forced onto its UID at home loses a nick that another client claimed
\* with a timestamp that wins over its own: a late SAVE never takes away the
\* nick its victim has moved to.
SaveDeserved ==
    [][\A u \in User :
         IsPerson(Self(u)) /\ Self(u).nick \in Nick /\ Self(u)'.nick = u
         => \E d \in claims : Beats(d, <<u, Self(u).nick, Self(u).ts>>)]_vars

\* A user that is killed at home without an operator had claimed, at some
\* time, a nick to which another claim wins: of two claims with different
\* timestamps only one is ever killed for.
KillDeserved ==
    [][\A u \in User :
         IsPerson(Self(u)) /\ Self(u)'.on = "absent" /\ ~Quit(u) /\ Oper = {}
         => \E c, d \in claims : c[1] = u /\ Beats(d, c)]_vars

\* Two users whose homes give them one nick.
Clash(u, v) ==
    u # v /\ IsPerson(Self(u)) /\ IsPerson(Self(v)) /\ Self(u).nick = Self(v).nick

\* A clash between two servers is always ended, once the links that keep
\* being reconnected stay up.
ClashResolved == \A u, v \in User : Clash(u, v) ~> ~Clash(u, v)

\* Messages do not go back and forth for ever: the queues empty again and again.
Drains == []<>Quiet

=============================================================================
