------------------------------ MODULE ClientLife ------------------------------
(***************************************************************************)
(* The life of a struct Client in one server process: from make_client,    *)
(* through registration or introduction, to its exit, which for a failed   *)
(* write is only queued (dead_link, exit_aborted_clients), and to the      *)
(* moment its memory is given back (free_exited_clients).                  *)
(*                                                                         *)
(* Sources: src/client.c, src/reject.c, src/listener.c, src/send.c (what   *)
(* fails), modules/core/m_nick.c and m_server.c (who introduces whom).     *)
(*                                                                         *)
(* The process is single threaded: a handler or an event runs to its end.  *)
(* Only the loops over the client lists are taken apart, into one step for *)
(* each client, since what a step does may touch the rest of the list.     *)
(***************************************************************************)
EXTENDS Naturals, FiniteSets

CONSTANTS
    Conn,      \* records of local connections, each used once
    Remote,    \* records of clients and servers behind a link, each used once
    Nick       \* the nicks that are fought for

Client == Conn \cup Remote

NoNick == "no nick"   \* no nick, or one nobody else can have: a UID

ASSUME ClientAssumption == Conn \cap Remote = {} /\ NoNick \notin Nick

VARIABLES
    state,     \* state[c]: which list the record is on, see below
    flags,     \* flags[c]: FLAGS_CLOSING, FLAGS_DEAD and FLAGS_IOERROR
    nick,      \* nick[c]: the name under which it is in the client hash
    servptr,   \* servptr[r]: the server that r is a user or a server of
    abort,     \* abort[c]: how often it is on abort_list
    dead,      \* dead[c]: how often it is on dead_list
    walk       \* the loop under way: what it goes over, and what is left

vars == <<state, flags, nick, servptr, abort, dead, walk>>

-----------------------------------------------------------------------------
(* Where a record is.  "unknown", "person", "server": on unknown_list,     *)
(* lclient_list, serv_list, or, for a remote one, on the users or servers  *)
(* of its servptr.  "reject": on delay_exit.  "gone": unlinked.            *)

State == {"none", "unknown", "reject", "person", "server", "gone", "freed"}

Flag == {"closing", "dead", "ioerror"}

Live == {"unknown", "person", "server"}

\* What one handler or event works on.
Table == [state |-> state, flags |-> flags, nick |-> nick, servptr |-> servptr,
          abort |-> abort, dead |-> dead]

\* The quantifier has TLC evaluate L once.
Become(L) ==
    \E M \in {L} :
        /\ state' = M.state /\ flags' = M.flags /\ nick' = M.nick
        /\ servptr' = M.servptr /\ abort' = M.abort /\ dead' = M.dead

SetState(L, c, s) == [L EXCEPT !.state = [@ EXCEPT ![c] = s]]

SetNick(L, c, n) == [L EXCEPT !.nick = [@ EXCEPT ![c] = n]]

SetFlags(L, c, f) == [L EXCEPT !.flags = [@ EXCEPT ![c] = f]]

\* The records taken off their lists and out of the hash, and put on dead_list.
Bury(L, gone) ==
    [state |-> [c \in Client |-> IF c \in gone THEN "gone" ELSE L.state[c]],
     flags |-> [c \in Client |->
        IF c \notin gone THEN L.flags[c]
        ELSE L.flags[c] \cup (IF c \in Conn THEN {"dead", "ioerror"} ELSE {"dead"})],
     nick |-> [c \in Client |-> IF c \in gone THEN NoNick ELSE L.nick[c]],
     servptr |-> L.servptr,
     abort |-> L.abort,
     dead |-> [c \in Client |-> IF c \in gone THEN L.dead[c] + 1 ELSE L.dead[c]]]

\* Mutant of DeadLink: a connection that is being closed is queued too.
DeadLinkClosing(L, F) ==
    LET hit == {c \in F \cap Conn : L.state[c] \in Live /\ L.flags[c] \cap {"dead", "ioerror"} = {}} IN
    [state |-> L.state, nick |-> L.nick, servptr |-> L.servptr, dead |-> L.dead,
     flags |-> [c \in Client |-> IF c \in hit THEN Flag ELSE L.flags[c]],
     abort |-> [c \in Client |-> IF c \in hit THEN L.abort[c] + 1 ELSE L.abort[c]]]

\* Mutant of DeadLink: the connection is exited at once.
DeadLinkNow(L, F) ==
    Bury(L, {c \in F \cap Conn : L.state[c] \in Live /\ L.flags[c] = {}})

\* Sends to the connections of F fail: they are queued for exit_aborted_clients.
DeadLink(L, F) ==
    LET hit == {c \in F \cap Conn : L.state[c] \in Live /\ L.flags[c] = {}} IN
    [state |-> L.state, nick |-> L.nick, servptr |-> L.servptr, dead |-> L.dead,
     flags |-> [c \in Client |-> IF c \in hit THEN Flag ELSE L.flags[c]],
     abort |-> [c \in Client |-> IF c \in hit THEN L.abort[c] + 1 ELSE L.abort[c]]]

\* Mutant of Below: the servers behind s are not descended into.
BelowOnce(L, s) == {r \in Remote : L.state[r] \in Live /\ L.servptr[r] = s}

\* The users and servers behind the server s: recurse_remove_clients.
Below(L, s) ==
    {r \in Remote : \A C \in SUBSET Client :
        (s \in C /\ \A d \in Remote : L.state[d] \in Live /\ L.servptr[d] \in C => d \in C)
        => r \in C /\ L.state[r] \in Live}

\* Mutant of Exit: FLAGS_CLOSING is not looked at.
ExitAgain(L, c, F) ==
    LET M == DeadLink(SetFlags(L, c, L.flags[c] \cup {"closing"}), F) IN
    Bury(M, {c} \cup (IF M.state[c] = "server" THEN Below(M, c) ELSE {}))

\* exit_client, where the sends to the connections of F fail.
Exit(L, c, F) ==
    IF "closing" \in L.flags[c] THEN L
    ELSE LET M == DeadLink(SetFlags(L, c, L.flags[c] \cup {"closing"}), F) IN
         Bury(M, {c} \cup (IF M.state[c] = "server" THEN Below(M, c) ELSE {}))

-----------------------------------------------------------------------------
(* Connections.                                                            *)

Idle == walk.todo = {}

Unhurt(c) == flags[c] = {}   \* ~IsAnyDead

\* Mutant of Holders: those who have not registered are not found.
HoldersRegistered(n) == {c \in Client : nick[c] = n /\ state[c] = "person"}

Holders(n) == {c \in Client : nick[c] = n}

\* find_client returns the holder that was hashed last: one that has not been
\* replaced while it waited on abort_list.
Found(n) ==
    LET sound == {h \in Holders(n) : Unhurt(h)} IN
    IF sound = {} THEN Holders(n) ELSE sound

\* make_client and check_reject: a banned address is parked on delay_exit.
Accept(c) ==
    /\ Idle /\ state[c] = "none"
    /\ \/ Become(SetState(Table, c, "unknown"))
       \/ Become(SetFlags(SetState(Table, c, "reject"), c, {"closing"}))
    /\ UNCHANGED walk

\* NICK before registration: a nick that anyone holds is refused.
MrNick(c, n) ==
    /\ Idle /\ state[c] = "unknown" /\ Unhurt(c) /\ Holders(n) = {}
    /\ Become(SetNick(Table, c, n))
    /\ UNCHANGED walk

\* register_local_user, with what it sends.
Register(c, F) ==
    /\ Idle /\ state[c] = "unknown" /\ Unhurt(c) /\ nick[c] # NoNick
    /\ Become(DeadLink(SetState(Table, c, "person"), F))
    /\ UNCHANGED walk

\* mr_server and server_estab, with what they send: the name of the server takes
\* the place of a nick that the connection had.
ServerEstab(c, F) ==
    /\ Idle /\ state[c] = "unknown" /\ Unhurt(c)
    /\ Become(DeadLink(SetState(SetNick(Table, c, NoNick), c, "server"), F))
    /\ UNCHANGED walk

\* NICK from a person: a holder that is not registered is thrown out.
MNick(c, n, F) ==
    /\ Idle /\ c \in Conn /\ state[c] = "person" /\ Unhurt(c) /\ nick[c] # n
    /\ \/ Holders(n) = {} /\ Become(DeadLink(SetNick(Table, c, n), F))
       \/ \E h \in Found(n) :
            /\ state[h] = "unknown"
            /\ Become(SetNick(Exit(Table, h, F), c, n))
    /\ UNCHANGED walk

-----------------------------------------------------------------------------
(* Clients and servers behind a link.                                      *)

\* The link over which s is reached reads commands: parse looks at IsAnyDead.
Heard(s) ==
    /\ state[s] = "server"
    /\ \E t \in Conn : state[t] = "server" /\ Unhurt(t) /\ (s = t \/ s \in Below(Table, t))

Introduce(L, r, s, kind, n) ==
    [SetNick(SetState(L, r, kind), r, n) EXCEPT !.servptr = [@ EXCEPT ![r] = s]]

MsSid(s, r, F) ==
    /\ Idle /\ Heard(s) /\ state[r] = "none"
    /\ Become(DeadLink(Introduce(Table, r, s, "server", NoNick), F))
    /\ UNCHANGED walk

\* A user of s comes to the nick n: ms_uid, ms_euid, perform_nick_collides.
MsUid(s, r, n, F) ==
    /\ Idle /\ Heard(s) /\ state[r] = "none"
    /\ \/ /\ Holders(n) = {}
          /\ Become(DeadLink(Introduce(Table, r, s, "person", n), F))
       \/ \E h \in Found(n) :
          \* h is not registered, or it loses and is killed
          \/ Become(Introduce(Exit(Table, h, F), r, s, "person", n))
          \* h loses and is forced onto its UID
          \/ /\ state[h] = "person"
             /\ Become(DeadLink(Introduce(SetNick(Table, h, NoNick), r, s, "person", n), F))
          \* both lose, by a kill
          \/ state[h] = "person" /\ Become(Exit(Table, h, F))
          \* both lose, or r does, by SAVE
          \/ /\ state[h] = "person"
             /\ \E L \in {Table, SetNick(Table, h, NoNick)} :
                  Become(DeadLink(Introduce(L, r, s, "person", NoNick), F))
    /\ UNCHANGED walk

\* The same for a change of nick: mc_nick, perform_nickchange_collides.
McNick(r, n, F) ==
    /\ Idle /\ r \in Remote /\ state[r] = "person" /\ Heard(servptr[r]) /\ nick[r] # n
    /\ \/ /\ Holders(n) = {}
          /\ Become(DeadLink(SetNick(Table, r, n), F))
       \/ \E h \in Found(n) :
          \/ Become(SetNick(Exit(Table, h, F), r, n))
          \/ state[h] = "person" /\ Become(DeadLink(SetNick(SetNick(Table, h, NoNick), r, n), F))
          \/ state[h] = "person" /\ Become(Exit(Exit(Table, h, F), r, F))
          \/ /\ state[h] = "person"
             /\ \E L \in {Table, SetNick(Table, h, NoNick)} :
                  Become(DeadLink(SetNick(L, r, NoNick), F))
    /\ UNCHANGED walk

-----------------------------------------------------------------------------
(* Ends.                                                                   *)

\* A send fails, or a queue is full.
WriteError(c) ==
    /\ Idle /\ c \in Conn /\ state[c] \in Live /\ Unhurt(c)
    /\ Become(DeadLink(Table, {c}))
    /\ UNCHANGED walk

\* exit_client from a handler: QUIT, KILL, SQUIT, ERROR, a read error, a ban.
ExitClient(c, F) ==
    /\ Idle /\ state[c] \in Live
    /\ Become(Exit(Table, c, F))
    /\ UNCHANGED walk

\* reject_exit.
RejectExit ==
    LET parked == {c \in Conn : state[c] = "reject" /\ "dead" \notin flags[c]} IN
    /\ Idle /\ parked # {}
    /\ Become(Bury(Table, parked))
    /\ UNCHANGED walk

\* free_exited_clients.
FreeExited ==
    /\ Idle /\ \E c \in Client : dead[c] > 0
    /\ state' = [c \in Client |-> IF dead[c] > 0 THEN "freed" ELSE state[c]]
    /\ dead' = [c \in Client |-> 0]
    /\ UNCHANGED <<flags, nick, servptr, abort, walk>>

\* check_pings begins a loop, or exit_aborted_clients its own.
StartWalk(list) ==
    LET todo == IF list = "abort" THEN {c \in Client : abort[c] > 0}
                ELSE {c \in Conn : state[c] = list} IN
    /\ Idle /\ todo # {}
    /\ walk' = [over |-> list, todo |-> todo]
    /\ UNCHANGED <<state, flags, nick, servptr, abort, dead>>

Visited(c) == walk' = [walk EXCEPT !.todo = @ \ {c}]

\* check_pings_list, check_unknowns_list: nothing, a PING that fails, an exit.
CheckPings(c, F) ==
    /\ c \in walk.todo /\ walk.over # "abort" /\ Visited(c)
    /\ \/ Become(Table)
       \/ "dead" \notin flags[c] /\ Become(DeadLink(Table, {c}))
       \/ "dead" \notin flags[c] /\ Become(Exit(Table, c, F))

\* Mutant of Reopened: FLAGS_CLOSING stays set.
ReopenedNot(L, c) == [L EXCEPT !.abort = [@ EXCEPT ![c] = L.abort[c] - 1]]

\* c is taken off abort_list, and exit_client will look at it again.
Reopened(L, c) ==
    [SetFlags(L, c, L.flags[c] \ {"closing"}) EXCEPT
        !.abort = [@ EXCEPT ![c] = L.abort[c] - 1]]

ExitAborted(c, F) ==
    /\ c \in walk.todo /\ walk.over = "abort" /\ Visited(c)
    /\ Become(Exit(Reopened(Table, c), c, F))

-----------------------------------------------------------------------------

Init ==
    /\ state = [c \in Client |-> "none"]
    /\ flags = [c \in Client |-> {}]
    /\ nick = [c \in Client |-> NoNick]
    /\ servptr = [c \in Remote |-> c]
    /\ abort = [c \in Client |-> 0]
    /\ dead = [c \in Client |-> 0]
    /\ walk = [over |-> "abort", todo |-> {}]

Step(F) ==
    \/ \E c \in Conn :
         \/ Register(c, F) \/ ServerEstab(c, F)
         \/ \E n \in Nick : MNick(c, n, F)
    \/ \E s \in Client, r \in Remote :
         MsSid(s, r, F) \/ \E n \in Nick : MsUid(s, r, n, F)
    \/ \E r \in Remote, n \in Nick : McNick(r, n, F)
    \/ \E c \in Client : ExitClient(c, F)

WalkStep == \E c \in walk.todo, F \in SUBSET Conn : CheckPings(c, F) \/ ExitAborted(c, F)

Next ==
    \/ \E c \in Conn : Accept(c) \/ WriteError(c) \/ \E n \in Nick : MrNick(c, n)
    \/ \E F \in SUBSET Conn : Step(F)
    \/ RejectExit \/ FreeExited
    \/ \E list \in {"person", "server", "unknown", "abort"} : StartWalk(list)
    \/ WalkStep

Spec == Init /\ [][Next]_vars

\* A loop goes on to its end, and eventRun runs each event again and again.
Fairness ==
    /\ WF_vars(WalkStep)
    /\ SF_vars(StartWalk("abort")) /\ SF_vars(RejectExit) /\ SF_vars(FreeExited)

FairSpec == Spec /\ Fairness

-----------------------------------------------------------------------------
(* Properties.                                                             *)

\* Types; no record is on abort_list or dead_list twice.
TypeOK ==
    /\ state \in [Client -> State]
    /\ flags \in [Client -> SUBSET Flag]
    /\ nick \in [Client -> Nick \cup {NoNick}]
    /\ servptr \in [Remote -> Client]
    /\ abort \in [Client -> 0..1]
    /\ dead \in [Client -> 0..1]
    /\ walk \in [over : {"person", "server", "unknown", "abort"}, todo : SUBSET Client]

\* The lists from which a record that is marked for its end is collected.
Fates(c) == abort[c] + dead[c] + (IF state[c] = "reject" THEN 1 ELSE 0)

\* A client that has been marked is on exactly one of abort_list, dead_list and
\* delay_exit, and once, until it is freed: never on abort_list and dead_list
\* (DEBUG_EXITED_CLIENTS), not freed twice, and not forgotten either, since
\* exit_client turns away a client that is closing.
OneFate ==
    \A c \in Client : Fates(c) = IF state[c] # "freed" /\ flags[c] # {} THEN 1 ELSE 0

\* Every user and server behind a link hangs on a server that is still there: a
\* link that fails in the middle of a handler goes on existing until the
\* handler has ended, and its exit takes all that is behind it.
NoOrphans ==
    \A r \in Remote : state[r] \in Live => state[servptr[r]] = "server"

\* What a loop has yet to visit is still on the list it goes over: the body of
\* DLINK_FOREACH_SAFE removes no other node than its own.
SafeWalk ==
    \A c \in walk.todo : IF walk.over = "abort" THEN abort[c] > 0 ELSE state[c] = walk.over

\* Of several clients with one nick all but one wait on abort_list: exit_client
\* did nothing for a client that was to make room for the new holder.
SharedNick ==
    \A c, d \in Client : nick[c] = nick[d] /\ nick[c] # NoNick /\ Unhurt(c) /\ Unhurt(d) => c = d

\* A client that has been marked is freed in the end: again and again there is a
\* time at which none is waiting.
Reaped == []<>(\A c \in Client : flags[c] # {} => state[c] = "freed")

=============================================================================
