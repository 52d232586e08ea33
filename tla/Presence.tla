------------------------------- MODULE Presence -------------------------------
(***************************************************************************)
(* Who is there, and who was: what one server keeps about users besides    *)
(* their nick.  The ring of old nicks (WHOWAS), with pointers to those who *)
(* are still online; MONITOR, the watchers of a nick; and the accept lists *)
(* of caller-id, with the lists that point back.  Users come, change nick  *)
(* and go, and every such step must leave the four structures in step.     *)
(*                                                                         *)
(* Sources: src/whowas.c, src/monitor.c, modules/m_monitor.c,              *)
(* modules/m_accept.c, modules/core/m_nick.c, modules/m_services.c,        *)
(* src/s_user.c and src/client.c.                                          *)
(***************************************************************************)
EXTENDS Integers, FiniteSets

CONSTANTS
    Local,        \* the users of this server
    Remote,       \* those of other servers
    Nick,
    Ring,         \* NICKNAMEHISTORYLENGTH
    MaxMonitor,   \* general::max_monitor
    MaxAccept     \* general::max_accept

User == Local \cup Remote

NoNick == "no nick"
NoUser == "nobody"

ASSUME PresenceAssumption ==
    /\ Local \cap Remote = {}
    /\ IsFiniteSet(User) /\ IsFiniteSet(Nick)
    /\ Ring \in Nat \ {0} /\ MaxMonitor \in Nat /\ MaxAccept \in Nat
    /\ NoNick \notin Nick /\ NoUser \notin User

Slot == 0..(Ring - 1)

VARIABLES
    nick,         \* nick[u]: its nick, NoNick before it registers and after it exits
    exited,       \* those who have exited: freed soon after
    whowas,       \* whowas[k]: WHOWAS[k], the name and the pointer `online'
    whowas_next,
    history,      \* history[u]: client_p->whowas, its slots
    monitors,     \* the nicks that have an entry in monitorTable
    watchers,     \* watchers[n]: the users list of n's entry
    monitor_list, \* monitor_list[w]: the entries that w has asked for
    told,         \* told[w]: those that w was last told are online
    allow,        \* allow[w]: allow_list
    on_allow      \* on_allow[u]: on_allow_list, who accepts messages from u

accepts == <<allow, on_allow>>
chronicle == <<whowas, whowas_next, history>>
monitoring == <<monitors, watchers, monitor_list>>
presenceVars == <<nick, exited, chronicle, monitoring, told, accepts>>

PresenceTypeOK ==
    /\ nick \in [User -> Nick \cup {NoNick}]
    /\ exited \subseteq User
    /\ whowas \in [Slot -> [name : Nick \cup {NoNick}, online : User \cup {NoUser}]]
    /\ whowas_next \in Slot
    /\ history \in [User -> SUBSET Slot]
    /\ monitors \subseteq Nick
    /\ watchers \in [Nick -> SUBSET Local]
    /\ monitor_list \in [Local -> SUBSET Nick]
    /\ \A w \in Local : Cardinality(monitor_list[w]) <= MaxMonitor
    /\ told \in [Local -> SUBSET Nick]
    /\ allow \in [Local -> SUBSET User]
    /\ \A w \in Local : Cardinality(allow[w]) <= MaxAccept
    /\ on_allow \in [User -> SUBSET Local]

PresenceInit ==
    /\ nick = [u \in User |-> NoNick]
    /\ exited = {}
    /\ whowas = [k \in Slot |-> [name |-> NoNick, online |-> NoUser]]
    /\ whowas_next = 0
    /\ history = [u \in User |-> {}]
    /\ monitors = {}
    /\ watchers = [n \in Nick |-> {}]
    /\ monitor_list = [w \in Local |-> {}]
    /\ told = [w \in Local |-> {}]
    /\ allow = [w \in Local |-> {}]
    /\ on_allow = [u \in User |-> {}]

Online(u) == nick[u] # NoNick
Free(n) == \A u \in User : nick[u] # n

-----------------------------------------------------------------------------
(* What the steps are made of.                                             *)

\* monitor_signoff and then monitor_signon, to those who watch the nicks.
Announce(off, on) ==
    told' = [w \in Local |->
        (told[w] \ {n \in off : w \in watchers[n]}) \cup {n \in on : w \in watchers[n]}]

\* Mutant of AddHistory: the entry that is overwritten stays on its user's list.
AddHistoryOver(u) ==
    LET k == whowas_next IN
    /\ whowas' = [whowas EXCEPT ![k] = [name |-> nick[u], online |-> u]]
    /\ history' = [history EXCEPT ![u] = @ \cup {k}]
    /\ whowas_next' = (k + 1) % Ring

\* add_history, with online set: the oldest entry makes room.
AddHistory(u) ==
    LET k == whowas_next IN
    /\ whowas' = [whowas EXCEPT ![k] = [name |-> nick[u], online |-> u]]
    /\ history' = [v \in User |->
          IF v = u THEN history[v] \cup {k}
          ELSE IF v = whowas[k].online THEN history[v] \ {k} ELSE history[v]]
    /\ whowas_next' = (k + 1) % Ring

\* add_history without, and off_history: nothing points to u any more.
CloseHistory(u) ==
    LET k == whowas_next IN
    /\ whowas' = [j \in Slot |->
          IF j = k THEN [name |-> nick[u], online |-> NoUser]
          ELSE IF j \in history[u] THEN [name |-> whowas[j].name, online |-> NoUser]
          ELSE whowas[j]]
    /\ history' = [v \in User |->
          IF v = u THEN {}
          ELSE IF v = whowas[k].online THEN history[v] \ {k} ELSE history[v]]
    /\ whowas_next' = (k + 1) % Ring

\* Nobody accepts u any more.
LeaveAllowLists(u) ==
    /\ allow' = [w \in Local |-> IF w \in on_allow[u] THEN allow[w] \ {u} ELSE allow[w]]
    /\ on_allow' = [on_allow EXCEPT ![u] = {}]

\* Mutant of DelAllAccepts: those whom u accepted keep u on their lists.
DelAllAcceptsOneWay(u) ==
    /\ allow' = [w \in Local |->
          IF w = u THEN {} ELSE IF w \in on_allow[u] THEN allow[w] \ {u} ELSE allow[w]]
    /\ on_allow' = [v \in User |-> IF v = u THEN {} ELSE on_allow[v]]

\* del_all_accepts: nor does u, if it is ours, accept anybody.
DelAllAccepts(u) ==
    /\ allow' = [w \in Local |->
          IF w = u THEN {} ELSE IF w \in on_allow[u] THEN allow[w] \ {u} ELSE allow[w]]
    /\ on_allow' = [v \in User |->
          IF v = u THEN {}
          ELSE IF u \in Local /\ v \in allow[u] THEN on_allow[v] \ {u} ELSE on_allow[v]]

\* clear_monitor: the entries stay, without w.  A remote user has none.
ClearedWatchers(w) ==
    [n \in Nick |->
        IF w \in Local /\ n \in monitor_list[w] THEN watchers[n] \ {w} ELSE watchers[n]]

-----------------------------------------------------------------------------
(* Coming, changing nick, going.  Whoever a nick is taken from exits before. *)

\* register_local_user, register_client
SignOn(u, n) ==
    /\ ~Online(u) /\ u \notin exited /\ Free(n)
    /\ nick' = [nick EXCEPT ![u] = n]
    /\ Announce({}, {n})
    /\ UNCHANGED <<exited, chronicle, monitoring, accepts>>

\* To a nick that is free, or the same nick in other case: nobody is told then.
Renames(u, n) ==
    /\ Online(u) /\ (Free(n) \/ n = nick[u])
    /\ nick' = [nick EXCEPT ![u] = n]
    /\ AddHistory(u)
    /\ IF n = nick[u] THEN UNCHANGED told ELSE Announce({nick[u]}, {n})
    /\ UNCHANGED <<exited, monitoring>>

\* change_local_nick, also when a SAVE gives u its UID for a nick
ChangeLocalNick(u, n) == u \in Local /\ Renames(u, n) /\ LeaveAllowLists(u)

\* change_remote_nick
ChangeRemoteNick(u, n) == u \in Remote /\ Renames(u, n) /\ DelAllAccepts(u)

\* Services rename u: change_nick_user_host, me_rsfnc.
ChangeNickUserHost(u, n) ==
    n # nick[u] /\ Renames(u, n) /\ DelAllAccepts(u)

\* Mutant of ExitGenericClient: an exit is not a sign-off.
ExitGenericClientQuietly(u) ==
    /\ Online(u)
    /\ nick' = [nick EXCEPT ![u] = NoNick]
    /\ exited' = exited \cup {u}
    /\ DelAllAccepts(u)
    /\ CloseHistory(u)
    /\ told' = [w \in Local |-> IF w = u THEN {} ELSE told[w]]
    /\ watchers' = ClearedWatchers(u)
    /\ monitor_list' = [w \in Local |-> IF w = u THEN {} ELSE monitor_list[w]]
    /\ UNCHANGED monitors

\* exit_generic_client, and for a user of ours clear_monitor after it.
ExitGenericClient(u) ==
    /\ Online(u)
    /\ nick' = [nick EXCEPT ![u] = NoNick]
    /\ exited' = exited \cup {u}
    /\ DelAllAccepts(u)
    /\ CloseHistory(u)
    /\ told' = [w \in Local |->
          IF w = u THEN {}
          ELSE IF w \in watchers[nick[u]] THEN told[w] \ {nick[u]} ELSE told[w]]
    /\ watchers' = ClearedWatchers(u)
    /\ monitor_list' = [w \in Local |-> IF w = u THEN {} ELSE monitor_list[w]]
    /\ UNCHANGED monitors

\* exit_unknown_client: nobody has seen u yet.
ExitUnknownClient(u) ==
    /\ u \in Local /\ ~Online(u)
    /\ exited' = exited \cup {u}
    /\ UNCHANGED <<nick, chronicle, monitoring, told, accepts>>

-----------------------------------------------------------------------------
(* MONITOR and ACCEPT.                                                     *)

\* Mutant of AddMonitor: the limit is off by one.
AddMonitorOver(w, n) ==
    /\ w \in Local /\ Online(w)
    /\ Cardinality(monitor_list[w]) <= MaxMonitor /\ w \notin watchers[n]
    /\ monitors' = monitors \cup {n}
    /\ watchers' = [watchers EXCEPT ![n] = @ \cup {w}]
    /\ monitor_list' = [monitor_list EXCEPT ![w] = @ \cup {n}]
    /\ told' = IF Free(n) THEN told ELSE [told EXCEPT ![w] = @ \cup {n}]
    /\ UNCHANGED <<nick, exited, chronicle, accepts>>

\* MONITOR +: add_monitor, with what it answers.
AddMonitor(w, n) ==
    /\ w \in Local /\ Online(w)
    /\ Cardinality(monitor_list[w]) < MaxMonitor /\ w \notin watchers[n]
    /\ monitors' = monitors \cup {n}
    /\ watchers' = [watchers EXCEPT ![n] = @ \cup {w}]
    /\ monitor_list' = [monitor_list EXCEPT ![w] = @ \cup {n}]
    /\ told' = IF Free(n) THEN told ELSE [told EXCEPT ![w] = @ \cup {n}]
    /\ UNCHANGED <<nick, exited, chronicle, accepts>>

\* Mutant of DelMonitor: the watcher stays on the entry.
DelMonitorOneWay(w, n) ==
    /\ w \in Local /\ Online(w) /\ n \in monitors /\ monitor_list[w] # {}
    /\ monitor_list' = [monitor_list EXCEPT ![w] = @ \ {n}]
    /\ told' = [told EXCEPT ![w] = @ \ {n}]
    /\ UNCHANGED <<nick, exited, chronicle, monitors, watchers, accepts>>

\* MONITOR -: del_monitor
DelMonitor(w, n) ==
    /\ w \in Local /\ Online(w) /\ n \in monitors /\ monitor_list[w] # {}
    /\ watchers' = [watchers EXCEPT ![n] = @ \ {w}]
    /\ monitor_list' = [monitor_list EXCEPT ![w] = @ \ {n}]
    /\ told' = [told EXCEPT ![w] = @ \ {n}]
    /\ UNCHANGED <<nick, exited, chronicle, monitors, accepts>>

\* MONITOR C: clear_monitor
ClearMonitor(w) ==
    /\ w \in Local /\ Online(w) /\ monitor_list[w] # {}
    /\ watchers' = ClearedWatchers(w)
    /\ monitor_list' = [monitor_list EXCEPT ![w] = {}]
    /\ told' = [told EXCEPT ![w] = {}]
    /\ UNCHANGED <<nick, exited, chronicle, monitors, accepts>>

\* Every hour: entries without watchers are freed.
CleanupMonitor ==
    /\ \E n \in monitors : watchers[n] = {}
    /\ monitors' = {n \in monitors : watchers[n] # {}}
    /\ UNCHANGED <<nick, exited, chronicle, watchers, monitor_list, told, accepts>>

\* ACCEPT: add_accept.  Whom accept_message lets pass, w too, is not added.
AddAccept(w, u) ==
    /\ w \in Local /\ Online(w) /\ Online(u)
    /\ u # w /\ u \notin allow[w] /\ Cardinality(allow[w]) < MaxAccept
    /\ allow' = [allow EXCEPT ![w] = @ \cup {u}]
    /\ on_allow' = [on_allow EXCEPT ![u] = @ \cup {w}]
    /\ UNCHANGED <<nick, exited, chronicle, monitoring, told>>

\* ACCEPT -: m_accept
DelAccept(w, u) ==
    /\ w \in Local /\ Online(w) /\ Online(u) /\ u \in allow[w]
    /\ allow' = [allow EXCEPT ![w] = @ \ {u}]
    /\ on_allow' = [on_allow EXCEPT ![u] = @ \ {w}]
    /\ UNCHANGED <<nick, exited, chronicle, monitoring, told>>

-----------------------------------------------------------------------------
NickChange(u, n) ==
    ChangeLocalNick(u, n) \/ ChangeRemoteNick(u, n) \/ ChangeNickUserHost(u, n)

Request(w) ==
    \/ ClearMonitor(w)
    \/ \E n \in Nick : AddMonitor(w, n) \/ DelMonitor(w, n)
    \/ \E u \in User : AddAccept(w, u) \/ DelAccept(w, u)

PresenceNext ==
    \/ \E u \in User :
        \/ ExitGenericClient(u) \/ ExitUnknownClient(u)
        \/ \E n \in Nick : SignOn(u, n) \/ NickChange(u, n)
    \/ \E w \in Local : Request(w)
    \/ CleanupMonitor

PresenceSpec == PresenceInit /\ [][PresenceNext]_presenceVars

-----------------------------------------------------------------------------
\* The pointers of the ring and the lists of the users agree, and no entry points
\* to a user who has gone, however often the ring has gone round: what get_history
\* finds for a KILL can be killed (src/whowas.c:66-97, 104-133).
HistoryLive ==
    /\ \A k \in Slot : \A u \in User : whowas[k].online = u <=> k \in history[u]
    /\ \A u \in User : history[u] # {} => Online(u)

\* A watcher is on the list of an entry if and only if the entry is on the list of
\* the watcher, who is there, and the entry has not been freed
\* (src/monitor.c:144-192, modules/m_monitor.c).
WatchersMutual ==
    /\ \A w \in Local : \A n \in Nick : w \in watchers[n] <=> n \in monitor_list[w]
    /\ \A w \in Local : monitor_list[w] # {} => Online(w)
    /\ \A n \in Nick : watchers[n] # {} => n \in monitors

\* A watcher was last told that a nick is online if and only if somebody has it,
\* through registrations, renames by anybody and exits (src/monitor.c:96-142).
WatchersTold ==
    \A w \in Local : told[w] = {n \in monitor_list[w] : ~Free(n)}

\* Both ends of every entry of an accept list are there, and both are users who
\* have not gone (src/client.c:1712-1738, modules/m_accept.c:61-137).
AcceptMutual ==
    /\ \A w \in Local : \A u \in User : u \in allow[w] <=> w \in on_allow[u]
    /\ \A w \in Local : allow[w] # {} => Online(w)
    /\ \A u \in User : on_allow[u] # {} => Online(u)

===============================================================================
