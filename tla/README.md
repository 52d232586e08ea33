# TLA+ models of ircd-seven

This directory holds TLA+ modules, TLC configurations and TLAPS proofs for the
IRC daemon in `src/ircd/ircd-seven/trunk` (a charybdis 2.1 derivative). All
source paths below are relative to that directory.

`PROJECT.json` lists the components, the runs, a mutant for every property,
the lines each definition stands for, the findings, the hazards and the
theorems.

## 1. The system

An IRC network is a tree of server processes. Each process is single threaded:
`ircd.c` alternates `eventRun` (timed events) with the socket callbacks that
read lines, and `parse` hands a line to one handler, which runs to its end.
Nothing else runs meanwhile, so within a process the difficult behaviour is

* what a handler does to a list or a record that its caller is still using:
  a failed write, a collision or a ban may end any client at any send;
* what a callback of a lookup finds when the client has gone on or gone away.

Between processes there is no agreement protocol. Every server acts at once
and tells its neighbours; two servers that act on the same nick or channel at
the same time find out when the messages cross, and resolve it by timestamps
of whole seconds. Links are TCP streams: FIFO, reliable until they break, when
everything under way is lost and all that is behind the link is forgotten
until a new burst tells it again.

### Components

| component (sources) | state | operations | interacts with | correct when |
|---|---|---|---|---|
| Nicknames (`m_nick.c`, `m_kill.c`, `m_quit.c`) | client hash, `tsinfo`, `name`, UID | NICK local and remote, UID, EUID, SAVE, KILL, QUIT | links, exits, nick delay | one holder per nick and server; all servers agree when quiet; nobody loses a nick without cause; collisions end |
| Nick delay (`s_newconf.c`) | nd table | add on split, drop on use, expire | nicknames, splits | a nick in use is not held back |
| Server links (`m_server.c`, `m_squit.c`, `s_serv.c`) | `serv_list`, `global_serv_list`, `servptr` | SERVER, SID, SQUIT, `server_estab`, burst, `try_connections` | everything that is propagated | a server knows what its links lead to and nothing else; nothing is introduced twice |
| Channels (`m_sjoin.c`, `m_join.c`, `m_mode.c`, `m_part.c`, `m_kick.c`, `channel.c`, `chmode.c`) | members and flags, modes, lists, `channelts`, `bants` | JOIN, SJOIN, TMODE, BMASK, PART, KICK, exits | bursts, nicknames | operators are not gained by a merge; all servers end alike |
| Client lifecycle (`client.c`, `reject.c`) | client lists, `FLAGS_*`, `abort_list`, `dead_list`, `delay_exit` | `make_client`, `exit_client`, `dead_link`, `exit_aborted_clients`, `free_exited_clients`, `check_pings`, `reject_exit` | every handler and every send | a client is freed once, and in the end; no dangling `servptr`; no loop loses its next node |
| Parser (`parse.c`) | none | prefix and direction checks | all handlers | unknown prefixes are answered, messages from the wrong side dropped |
| Lookups (`s_auth.c`, `res.c`, `blacklist.c`) | auth list, request list, blacklist queries | start, callback, timeout, cancel | registration, exits | a connection is released once; no callback into a dead client |
| Registration gate (`s_user.c`, `m_user.c`, `m_cap.c`, `m_pong.c`) | flags of a connection | NICK, USER, CAP, PONG, last lookup | lookups, nicknames | a client registers once, after everything it waits for |
| Classes and conf (`class.c`, `s_conf.c`, `newconf.c`) | reference counts | attach, detach, rehash | exits, registration | counts equal users; freed once |
| Listeners, reject cache, whowas, monitor, accept | counts, ring, symmetric lists | open and close, add and expire | exits | no count or back pointer outlives its client |
| Flood control, sendq (`packet.c`, `send.c`, `linebuf.c`) | allowances, queues | read, recalc, write | lifecycle | limits enforced, no starvation |
| Event loop, socket layer (`libcharybdis`) | event table, fds | run, select | all | due events run |
| Services interface (`m_services.c`, `m_signon.c`, `m_sasl.c`, ...) | login names | ENCAP, SIGNON | nicknames | as nicknames |
| Bans, matching, modules, caches, logs, user commands, extensions | configuration, caches | queries | exits | mostly pure functions of data |
| `hyperion`, `seven-services`, `theia` | | | | other programs in the repository: not modelled |

`PROJECT.json` gives the status of each of them, and names under "hazards" what
in them a test would hardly reach, at its line.

## 2. Modules

| module | what |
|---|---|
| `NickNet` | nicknames, collisions, KILL and SAVE, nick delay, over links that break and return |
| `MCNickNet` | instances: two servers, or three in a line |
| `NickNet_proofs` | `TypeOK`, `NickUnique`, `HeldNotDelayed` for any network; `NoDuplicateIntro`, `KnowsItsSide` for any tree |
| `NickDeserved_proofs` | `SaveDeserved`, `KillDeserved` for any tree |
| `NickHearsay_proofs` | what a link carries of a user, and that reading a line keeps it |
| `NickAgree_proofs` | `AgreementUnbroken` for any tree; `Agreement` next to the user's server |
| `ChannelTS` | one channel and its timestamp rules, over links that break and return |
| `MCChannelTS` | instances: two servers, or three in a line |
| `ChannelTS_proofs` | `TypeOK`, `OpsEarned` for any network; what the servers agree on, its five other properties, for any tree |
| `ClientLife` | the records of one process, from `make_client` to `free_client` |
| `ClientLife_proofs` | its five invariants for any number of clients |
| `Gate` | abstract: what registration promises |
| `PreReg` | detailed: lookups, resolver, blacklists and the gate; implements `Gate` |
| `MCPreReg` | instances of `PreReg` |
| `PreReg_proofs` | its four invariants, and that it implements `Gate` |
| `ConfRefs` | classes, auth{} and connect{} blocks, listeners, rehash |
| `Presence` | whowas, monitor and accept lists |
| `Process` | `ConfRefs` and `Presence` together: one server's users |
| `MCProcess` | its instance |
| `Process_proofs` | the four invariants of `ConfRefs` and the four of `Presence`; all of them and its `TypeOK`, for the composition |

Definitions keep the names of the functions they stand for (`MsUid` is
`ms_uid`, `perform_nick_collides` and `register_client`; `Exit` is
`exit_client` with what it calls). An operator whose name extends that of the
definition below it (`SaveBackSilent`, `BelowOnce`), with a comment that begins
with "Mutant", is a wrong variant: put in the place of the right one it must
make the property that is listed with it fail.

### NickNet

State: `client[s][u]` is what server `s` has of client `u` (absent, a
connection that has sent NICK, a person with nick and timestamp); `nd[s]` its
nick delay table, in which a split puts the name of everyone who is lost, also a
UID that somebody was forced onto; `est[s]` its links (`serv_list`); `known[s]` the servers it
has been told of; `chan[<<s,t>>]` the lines under way. `claims` records which
nick each client took with which timestamp, for the properties only.

One action is one handler: `MrNick`, `Register`, `MNick`, `Quit`, `MoKill` are
local commands, `MsUid`, `McNick`, `MsSave`, `MsQuit`, `MsKill`, `MsSid`,
`MsSquit`, `MrServer` take a line from a link, `AcceptLink` and `CloseLink` are
the two ends of a link's life, `ExpireNd` the event. A handler works on a
record of the server's tables and its output (`Here`, `Store`, `SendTo`, ...),
and `Commit` makes it the state and puts the output on the links that are
open. A burst lists servers and users in any order that the lists may have.

Abstractions. A nick is its class under `irccmp`. Identity at collision is one
value per client (`Ident`). UID-less servers and the pre-TS6 forms, flood
limits on nick changes and RESV are left out, and the nick delay entries that
services make and remove (`me_nickdelay`); entries that a REHASH removes go by
`ExpireNd`. The
configured links form a tree (`TreeAssumption`, what `m_server.c` enforces by
`server_exists`) and join all the servers (`ConnectedAssumption`). An exit is at once: `ClientLife` is the module in
which it is not. Operators' KILL is there; KILL by services is not.

### ChannelTS

State: `channel[s]` (timestamp, modes, bans, the status of each client),
`users[s]`, `est`, `queue`; `granted` records under which timestamp each client
was made operator. A status is "earned" if it was given under a timestamp that is
not above the channel's (`OpsEarned`): an equal one, unless a KICK has destroyed
the channel here and a TMODE of the older one still arrives. Actions: `Create`, `Join`, `Part`, `Kick`, `Mode`, `Kill`
for local users, `MsSjoin`, `MsJoin`, `MsTmode`, `MsBmask`, `MsLeave`, `MsUid`,
`MsQuit`, `MrServer` for lines, `AcceptLink`, `CloseLink`. `Recorded` says which
changes are passed on: the removal of a ban is, whether the ban is there or not.
`Merge` is the timestamp rule of `ms_sjoin` with `remove_our_modes` and `set_final_mode`.
`Burst` is `burst_TS6`: users, then the channel, then its bans.

The premises of the properties are `NobodyLeft` (no part, kick, kill or split
so far), `OnlyGiven` (the mode changes of the instance only give) and no KICK or
KILL. They say what the timestamp rules do not cover; section 5 tells how each
property fails without its premise. `TreeAssumption` (each link divides the
servers) is what `m_server.c` enforces by `server_exists`.

Left out: voice (an operator flag without the memory of being refused), key,
limit, forward, throttle, exempt, invite and quiet lists, topics, permanent
channels, a timestamp of 0, `kick_on_split_riding` and operator override.

### ClientLife

State: for each record its list (`state`), its flags, its nick in the hash,
its `servptr`, how often it is on `abort_list` and `dead_list`; and `walk`, the
loop under way over one list. A handler is one action and works on a record of
all tables (`Table`): `DeadLink` queues connections whose write fails, `Exit`
is `exit_client`, with all that is behind a server (`Below`) and with the set
`F` of the connections for which a write of that handler fails. Since
`exit_client` and the handlers are free to write to anybody, `F` is any set.
Only the loops of `check_pings` and `exit_aborted_clients` are split into one
step per client. `recurse_remove_clients`, which takes out all that is behind a
server, is one set operation inside `Exit`: an error in the order of its own walk
would not show.

A record is used once. `nick[c]` is the name and its place in the client hash
together; a connection that has sent NICK and then SERVER gives up both, where the
code leaves the old place behind (a hazard with a note). Nicks that nobody fights for, and UIDs, are `NoNick`.
Which side a collision favours is open here: `NickNet` decides that. An
operator's or a services' command to exit anybody is `ExitClient`.

### Gate and PreReg

`Gate` says what registration promises: a connection owes something (its two
lookups, NICK, USER, the cookie, the end of CAP, the blacklists), and the step
in which it pays the last debt is the step that lets it in or sends it away. A
connection that services have logged in may still owe USER. That nobody waits
who owes nothing (`NobodyForgotten`) is a property of `Gate`, and by the
refinement one of `PreReg`.

`PreReg` is the code. State: `phase[c]`; `auth[c]`, what is pending of the
`AuthRequest`; `got[c]`, the flags of the connection; `queries[c]` and
`listed[c]` of its `PreClient`; `status[b]` and `ref[b]` of each blacklist;
`requests`, the resolver's list with the retries left. Actions: `Accept`
(`add_connection`, `start_auth`), `IdentConnected`, `IdentDone`, `ReplyHost`,
`ReplyBlacklist`, the lines `MrNick`, `MrUser`, `MCap`, `CapEnd`, `MrPong`,
`MrServer`, `Leave`, what others do (`Displace`, `MeSvslogin`, `WriteError`,
`ExitAborted`), and `Rehash`. `RegisterLocalUser` is called by five of them.

The two timers go over their lists with the next entry saved, and call back
into code that reads what a client has sent, which may exit clients and take
entries off the list. So the loops are taken apart: `loop` has the saved entry
and the rest, there is one step for each entry (`ResendQuery`, `ExpireHost`,
`ExpireBlacklist`, `ExpireAuth`) and one for each line that is read inside a
callback (`reader` is the connection, `hand` the request whose callback has not
returned, `ReadDone` the return). A handler outside a callback is one action.

A reader whose lines make it a user or a server goes on reading, as
`parse_client_queued` does, and its next lines may do to other connections what
users and servers do (`Reaches`): put them out (`Displace`: DLINE, CLOSE, a nick
taken over), log them in, make a write to them fail, ask for a rehash. `ousted` are
those who were put out since the loop began. If the loop's saved entry is one of
theirs, it is freed and the loop reads it: `Wild`. The code's behaviour is undefined
from there, and the model has no further step of that loop.

Left out: the formatting of queries, the nameservers, CNAME chains, the check
of the name against the address (one request stands for both lookups, first
"ptr" and then "addr"), PASS, SASL, and a rehash that turns ping cookies on or
off. The checks after the gate are one choice (`Conclude`).

### ConfRefs, Presence and Process

`ConfRefs`: `class`, `auth`, `link` and `listener` are the objects with their
counts, `table` is `class_list`, `client` and `peer` are who points to them. An
object is named after its block and the number of the rehash that made it, so
that one freed and one made later are different. Actions: `AddConnection`,
`AttachConf`, `AttachFull` (the class is full: the address has been counted and
stays so, `refused`), `CloseConnection`, `FreeLocalClient`, `AttachServerConf`,
`DetachServerConf`, and `Rehash`: all is marked, the configuration is read,
what is unused is freed.

A configuration may be any: classes with a limit (`perIp`, the option
`number_per_cidr`) or without, which is the default, and blocks that name classes
which are not configured. Two changes by a rehash break the bookkeeping
(section 5), and history variables name the classes to which they have happened:
`strays`, taken by a `connect{}` block when their `class{}` block was gone, and
`mixed`, whose limit came or went while they had users. `NothingDangles` and
`NothingLeaks` except the first, `AddressesCounted` the second, and say how far the
exception goes: a stray block may point to a class that is freed, but no server is
connected by it. Attaching by such a block counts in freed memory and has no step.

`Presence`: `whowas` is the ring with `online` pointers, `history` the list that
each client has of its slots; `watchers` and `monitor_list` are MONITOR seen from
the nick and from the client, `told` what a client was last told; `allow` and
`on_allow` are the two sides of ACCEPT. Actions: `SignOn`, `NickChange`,
`ExitGenericClient`, `ExitUnknownClient`, MONITOR +, - and C, ACCEPT and its
removal, `CleanupMonitor`.

`Process` composes them. Registering takes a conf and a nick in one step (or the
conf only, when a later check refuses), exiting gives up both; rehashes, remote
users and requests interleave with that. Each of its steps is a step of both
parts or leaves one of them alone.

## 3. Runs

Every run has a second, wrong, version of some definition for each of its
properties, which TLC must reject under the same configuration.

| run | instance | properties | states | shows |
|---|---|---|---|---|
| `nick_pair` | 2 servers, one without SAVE, 2 users, 2 nicks, 2 seconds, equal user@host, clocks one second apart, 2 renames, 1 split, at most 3 acts, nick delay, fair | `TypeOK` `NickUnique` `HeldNotDelayed` `Agreement` `SaveDeserved` `KillDeserved` `ClashResolved` `Drains` | 53 129 | collisions in which one end KILLs and the other SAVEs, and that they end |
| `nick_line` | 3 servers in a line, all with SAVE, an operator's KILL, 1 rename, 1 split, at most 2 acts | `KnowsItsSide` `NoDuplicateIntro` `AgreementUnbroken` `SaveDeserved` | 513 797 | netsplits, rejoins, messages that cross on the middle server |
| `nick_same_second` | 2 servers, 2 changes in a second | `Agreement`, violated | | finding 1 |
| `chan_pair` | 2 servers, 2 users, 2 seconds, 4 acts, part, kick, kill, split | `TypeOK` `OpsEarned` `NoDeoppedChange` `NeverBelow` `SameMembers` | 585 436 | merges in every order |
| `chan_line` | 3 in a line, 3 users, 3 acts | `SameWhileNobodyLeaves` `SameBans` | 109 134 | merges that meet on the middle server |
| `chan_zone` | 2 servers, 2 acts, 1 part | `SameFinalState`, violated | | finding 2 |
| `life` | 2 connections, 2 remote clients, 1 nick, fair | `TypeOK` `OneFate` `NoOrphans` `SafeWalk` `SharedNick` `Reaped` | 24 902 | exits, failed writes, loops |
| `pre_reg` | 2 connections, one of them IPv6, 1 blacklist, 2 tries, 2 acts of others, fair | `TypeOK` `RequestsOwned` `BlackRefs` `LoopSafe` `GateSpec` `LookupsEnd` | 195 583 | lookups, timers, the gate; the refinement of `Gate` |
| `pre_loop` | 2 connections, no ping cookies, 1 act of others | `LoopKept`, violated | | finding 4 |
| `pre_login` | 1 connection, no ping cookie | `AfterUser`, violated | | finding 3 |
| `process` | 2 local users, 1 remote, 1 server, 1 class, 2 auth{} (one exempt), 4 configurations, 3 rehashes, a ring of 2, 4 acts | `TypeOK` `RefsCounted` `NothingDangles` `NothingLeaks` `AddressesCounted` `HistoryLive` `WatchersMutual` `WatchersTold` `AcceptMutual` | 617 643 | counts and lists over rehashes, renames and exits |
| `conf_stray` | the same, 2 rehashes | `LinksKeepTheirClass`, violated | | finding 5 |

Bounds. A collision needs two users at two servers; a message and its answer
cross on one link, so two servers show every crossing of two, and three in a
line every crossing with a relay. Two seconds give timestamps below, equal and
above. `MaxRename = 2` lets a user move on after the change that collided,
which a late SAVE needs. One split suffices for loss and a second burst.
`MaxActs` bounds ticks, renames, kills and splits together (a split counts
twice): in `nick_pair` a split and one other, or any three others; in `nick_line` a
split, or any two others. `nick_pair` has one server with SAVE and one without, so that
either kind of collision occurs; networks where none or all have it are
covered by the theorems, all with SAVE also by `nick_line`. That names change at
most once in a second (`SameSecond`) is needed only where SAVE is used (finding 1). In `ChannelTS` four acts
create the channel twice, join and op; three users are needed for a TMODE of a
destroyed channel to reach a member of its successor, which is why `OpsEarned`
allows an older timestamp and is proved, not only checked. The mode changes of these
runs only give; the theorems are for changes that take too. The premises of
`NoDeoppedChange`, `NeverBelow`, `SameWhileNobodyLeaves` and `SameBans` came from
larger instances and from attempts to prove them (section 5); with those premises
all five are proved too, so that here the bounds only matter for the mutants. In `life` two
connections can be a link and the one to whom its exit writes, or two holders of
one nick, and two remote records a server and what is behind it. In `pre_reg` one
connection registers inside the callback of its lookup and puts the other, whose
entry the loop has saved, out; two tries give a repeat and a last one; two acts of
others are a rehash that drops the blacklist and one that brings it back. In
`process` two users find a class of one full, or, if they are not exempt, its limit of one
address reached; three rehashes make, remove and make the class again while a user of the first is online, set its limit,
lift it and set it again, or leave a `connect{}` block with a class on its way out;
a ring of two is overwritten by the third rename. Counters are bounded in the guards
by the constants `Max...`, and by nothing else: records that are used once
(`used`, "none" in `ClientLife` and `PreReg`, "new" in `ConfRefs`) bound the rest.

Beyond these runs, random simulation with three users, up to five renames and
two splits (`NickNet`), and with three users, nine acts, two kicks, three parts
(`ChannelTS`) met no violation of the properties as they are stated. Neither did TLC
for `OpsEarned` and `NeverBelow` with changes that give and take, bans that are not
there included (two servers, three acts, 470 624 states), nor for `LoopSafe` without ping
cookies (149 603 states), where the theorems `OpsEarnedHolds`, `NeverBelowHolds` and
`PreRegLoops` cover every instance.

Deadlock is not checked since a network, or a process, that has used up its
bounds stops.

Fairness. `nick_pair` assumes that what has arrived is read, that a server
notices that its peer has closed, and that autoconnect links again (weak
fairness of `Receive`, `CloseLink` without a new failure, and `AcceptLink`): the
event loop polls every socket and `try_connections` is a periodic event. Not
assumed: that users do anything, or that clocks advance. `life` assumes that a
loop goes on to its end (it is one call) and that `exit_aborted_clients`,
`reject_exit` and `free_exited_clients` are run again and again, which is strong
fairness since other work comes between them: `eventRun` calls every event that
is due before any socket is looked at again. `pre_reg` assumes the same of
`timeout_resolver` and `timeout_auth_queries_event` (strong fairness, for an
entry that has been pending long enough is due), and that a loop and a callback
that have begun go on (weak fairness of `LoopStep` and `ReadDone`: each is one
call). It does not assume that anybody answers, that the client says anything,
or that `check_unknowns_list` ever exits it. `LookupsEnd` makes an exception of a
loop that has gone `Wild`.

## 4. Proofs

TLAPS checks, for every value of the constants that the assumptions allow:

* `NickNet_proofs`: `TypeCorrect`, `NickUniqueHolds`, `HeldNotDelayedHolds`,
  `NoDuplicateIntroHolds`, `KnowsItsSideHolds`. The first three invariants are inductive together: that a forced nick is the
  client's own UID, also in messages that have not arrived, is the part of
  `TypeOK` that makes a SAVE unable to hit another's name. Splits put UIDs into
  the nick delay tables, and a client may be forced onto its UID again after it
  has come back: at its own server the table is not looked at then
  (`ChangeLocalNick`), but that server never holds back a UID of its own, which
  is another part of `TypeOK`; elsewhere the change takes the entry out
  (`Rename`). The argument goes
  over the local record: `Good(L)` says that the tables of one server are typed,
  that nicks are distinct and none is held back; each helper keeps it, given
  that the nick is free, and each handler frees the nick before it stores it.
  Assumptions: `Home` maps users to servers, nicks and UIDs are disjoint,
  finitely many users and servers, natural clocks. These three use nothing of the
  shape of the network.
  The other two need that it is a tree. `TInv` is over whole queues, as
  in part two of `ChannelTS_proofs`: it says that there is a record `M` of the users each
  server has been told of, such that what a link carries (`Turns`) takes the
  reader from what it has of the sender's side (`Sees`) to what the sender has
  (`Has`), if the link lives; that each line on the way makes sense when it is
  read (`Fits`: a SID or UID is new, a UID's server is known, a SQUIT is for a
  known server); that SERVER comes first (`Hello`); and that a server knows others by
  way of its links only (`Reach`). Why a record and not the tables: a server may
  have refused a user, or killed him, while its neighbour still passes him on; it
  has been told of him all the same and will not be told again. `M` is
  existential since the model need not carry it: each action's lemma gives the
  next one (`Learns`, `Loses`). Collisions, KILL, SAVE and forced nicks all keep
  `TInv` because they only take users out (`Mild`). `Fits` for the first line is
  `NoDuplicateIntro`. At rest each queue is empty, so the two ends of a live link
  know the same of both sides, and `KnowsItsSide` follows along the links
  (`LivePathHop`, from one server to the next, by `ConnectedAssumption`). A
  consequence is that no SQUIT that a split causes is ever read by a server that
  does not know the server it names: the early return of `ms_squit` for it is
  not taken in these histories.
* `NickDeserved_proofs`: `SaveDeservedHolds`, `KillDeservedHolds`, on any tree. Two
  invariants on top of `TInv`, inductive together.
  `FInv`: a server other than his own, and a line under way, give a user (`Heard`) a
  nick and timestamp that he has claimed, and none younger than what he has at home;
  a SAVE under way (`Charged`) has a timestamp that he has left behind or at which
  another claim has won over his; and unless somebody may use KILL, a QUIT is for a
  user who has gone, a KILL or SAVE for one who has, or whose claim has lost
  (`Excused`). UID and NICK come from the user's side of the link (`Lines`).
  `OInv`: on each link a user is brought in (`Aware`) before his nick changes are
  read, or is `Excused`. It is needed for one line of the code: a NICK from a user
  whom a server does not have is answered with a KILL (`remove_unknown`), and this
  KILL is earned only because a server that was told of him and does not have him
  has seen him go or lose. `Excused` cannot be undone (`Forgiving`).
  Each helper says what a handler may do to one user (`Just`): leave him, take out
  one who is `Excused`, force one who is `Charged`, or store what was `Heard`; the
  collision rules are used once, in the lemmas on `perform_nick_collides` and
  `perform_nickchange_collides`, where the loser's claim is beaten by the one that
  stays. `SaveDeservedHolds` has the hypothesis `~SameSecond`: if a client may change
  nick twice within a second, a SAVE for the first nick takes away the second
  (finding 1). `KillDeservedHolds` does not need it.
  Assumptions: those above, and that a SID is nobody's UID (`SidAssumption`), by
  which the source of a KILL tells a server from an operator.
* `NickHearsay_proofs` and `NickAgree_proofs`: `AgreementUnbrokenHolds`,
  `NeighboursAgree`, `AgreementHolds`. `FInv` bounds what is said of a user; here it is
  shown that enough is said. `AInv(A)` says of each link, and each user of its one
  side, that with `A[s][u]`, what `s` has been told of `u`,
  - the queue from the user's side takes its reader from what it has been told to
    what the writer has told (`Course`): each line makes sense when it is read, and
    timestamps grow (`Apt`, `Older`);
  - the user's end has told what it has, but for a user whom the other end has killed
    (`Tells`);
  - the other end has what it has been told, or has refused it (`Accepts`): it has
    killed the user, or given it its UID for a nick;
  - what has been refused has been answered (`Replies`): if the other end lacks the
    user, a KILL is on its way back, and if it has forced the user's last nick, a SAVE
    with that nick's timestamp; and no KILL or SAVE is on its way back but for what
    has been refused.

  The last item is where a nick could be lost. A SAVE on its way back may find that the
  user has changed nick meanwhile; then its timestamp is older than the one now at the
  user's end, it is ignored there (`Heeds`), and the newer nick, which is on its way, is
  taken or refused anew. That the timestamps differ needs `Orderly`: where SAVE is used
  a client changes its nick once in a second at most (finding 1 shows what happens
  otherwise). `A` is existential, as `M` in `TInv`; each action's lemma gives the next
  one. The lemmas on one link (`AbreastOut`, `AbreastIn`, `AbreastHeard`,
  `AbreastYields`) know nothing of handlers: they take what one end does to its entry
  and says (`Gives`, `Minds`, `Marks`, `Yields`). The lemmas on helpers
  (`IntroduceSays`, `SaveUserSays`, ...) know nothing of links: they say what happens to
  one user (`Accord`) and that the others are left alone (`Mute`). `ReadStep` joins the
  two, for all lines at once.
  Which users a link answers for is `Followed`: all those behind it while no link has
  broken, and only those of the server at its end afterwards. For a SAVE that crosses a
  split further away is lost for good, while on the link next to the user's server the
  split takes the whole queue and the entry with it, and the burst of the next link
  starts from nothing (`BurstAbreast`).
  At rest `LinkAgrees` gives equal entries at the two ends, and `UnbrokenAgrees` follows
  the way to the user's server by `ConnectedAssumption`. `AgreementHolds` has the
  hypothesis `Adjacent` (no server stands between a user's server and another, as in
  all runs that check `Agreement`); `NeighboursAgree` says the same of neighbours in
  any tree. All three have `Oper = {}`: operators' KILLs that cross are a hazard
  (section 5), and `nick_line` checks `AgreementUnbroken` with one operator.
* `ClientLife_proofs`: `TypeCorrect`, `OneFateHolds`, `NoOrphansHolds`,
  `SafeWalkHolds`, `SharedNickHolds`. None of them is inductive: `OneFate` counts
  lists, but that a write that fails in the middle of an exit cannot queue the
  client again needs which flags go with which list. `IInv` says of each record
  that it is `Sound` (on a client list, no flags), `Queued` (on `abort_list`
  once, all three flags, a connection) or `Over` (unused, parked, on
  `dead_list` once, or freed; and without a nick), that servers have no nick to
  collide with, that what is behind a link hangs on a server, and what the loop
  has left to visit. A closing client is invisible to `dead_link`, and what is
  behind a server is closed under `servptr`: these two facts carry `ExitFields`
  and `ExitGood`, which are used for every action that exits anybody.
  Assumption: connections and remote records are different, and `NoNick` is no
  nick.
* `ChannelTS_proofs`, part one: `TypeCorrect`, `OpsEarnedHolds`. `OpsEarned` is not
  inductive: an SJOIN or a TMODE under way may bring in a status. `IInv` adds
  that every message is `Truthful`, claiming as operators only those who earned
  it under the timestamp that the message carries; since a merge takes the lower
  timestamp with its operators, and a handler relays what it obeys under the
  timestamp that the channel then has, truth is kept on the way. `Sound` says
  what one server's channel must be; each helper (`Remove`, `Merge`, `Apply`,
  `Joined`) keeps it, and `DoKeeps` and `HandleKeeps` carry it to the network.
  Assumptions: `Home` maps users to servers, the changes are typed. The network
  need not be a tree, and kicks, kills and splits are all in.
* `ChannelTS_proofs`, part two: what a server sends is read as a promise of what the
  reader will have. Two invariants over whole queues, for both directions of
  every link of a tree, of any size:
  `MInv` (`MembersAgree`), while nobody is kicked or killed: for each client of the
  sender's side the queue lets him in and out in turn (`Orderly`), names him only
  while he is known, and ends with what the sender has (`Mirror`). The handshake
  (`Handshake`: SERVER comes first, and until it is read nothing is sent the other
  way) and `Reach` (a server knows clients only by the links it has) make a second
  burst start from nothing. `SameMembersHolds` reads it off at rest.
  `KInv` (`StateAgrees`), while nobody leaves: every message under way is one its
  sender still backs (`Backs`), comes after all it depends on (`OnTime`: the SJOIN
  that lowers the timestamp, the operator status of its author, the join of whom
  it names), and all that the sender has is at the reader or on the way under its
  timestamp (`Covered`). Nothing that is given under a timestamp is lost while it
  is the channel's, so the promises survive merges (`Rises`); at rest both ends
  cover each other (`QuietCovers`, `QuietStates`), whence `SameWhileNobodyLeavesHolds`
  and `SameBansHolds`, and the first message of a queue is on time, whence
  `NeverBelowHolds` and `NoDeoppedChangeHolds`. Assumptions: those of
  part one and `TreeAssumption`.
* `Process_proofs`, part one: `ConfRight`, that the four invariants hold together with
  four more (`ConfInv`), for any configurations. `Stages`: a client has a conf only while it is open,
  and a listener until it is freed. `NothingEarly`: no object has the name of a
  rehash to come. `Marked`: a class that a rehash took off the list has
  `MaxUsers = -1` and users, or is freed; without it the last user could not
  know that it must free the class. `Uncounted`: a class without a limit has in its
  table of addresses only those who were refused while it had one; without it
  `AddressesCounted` would be lost when an empty class gets a limit again. That no
  server hangs on a stray class that is freed follows from the count of the class,
  which its servers keep above zero. The counts are cardinalities of sets of
  clients, so each action adds or removes one element.
* `Process_proofs`, part two: `PresenceInStep`, the four invariants with
  `NicksDistinct` (`PresenceInv`): that a sign-off of one nick is not the
  sign-on of another's needs that a nick has one holder.
* `Process_proofs`, part three: `ProcessHasParts` shows that every behaviour of `Process`
  is one of `ConfRefs` and one of `Presence`, whence all eight invariants
  (`ProcessCounts` to `ProcessAccepts`), and `ProcessTypes`. `ProcessServes` is a fact of the
  composition alone: an online local user's auth block, class and listener have not been freed.
* `PreReg_proofs`: `PreRegTypes`, `PreRegRequests`, `PreRegBlack`, and
  `PreRegGate`: every behaviour of `PreReg` is one of `Gate`, so that
  `PreRegForgetsNobody` follows. The invariant (`GateInv`) is taken per
  connection (`Stands`), with `SaidInTime` and `AskedInTime` (nothing is said, or
  asked of a blacklist, while the lookups go on), `NobodyForgotten` and `Hands`
  (a callback that has not returned is one for the host name). A handler that
  ends at the gate is a `GateStep`; the lemmas show for each that the debts it
  pays make a step of `Gate` (`GateMove`), and that if the debt was the last
  (`LastDebt`) the step decides. `PreRegLoops`, with and without ping cookies: the
  entry that a loop has saved is on its list, or its owner was put out by one
  who registered in a callback of that loop; and the request whose callback runs
  is on the list. `LoopInv` says the same of all that the loop has left to visit,
  that this is of one list and has nothing of the reader. What remains of a
  lookup's entry when lines are read, one registers, and others are reached is
  shown in `FirstLines`, `RegisterOnly` and `OthersReached`.

The assumptions are those named in the modules. `ConfigsAssumption` only gives the
types of configurations, and leaves out a block that stands ahead of the `class{}`
block it names. A network (`Net`) is one of `cidr_bitlen`, which no rehash changes.

Only model-checked: all liveness (`ClashResolved`, `Drains`, `Reaped`, `LookupsEnd`),
which is out of the prover's reach, as is everything with ENABLED, and
`AgreementUnbroken` where somebody may use KILL. No module has a recursive operator.

## 5. Findings

1. `nick_same_second`. `doc/collision_fnc.txt` says that the timestamp of a SAVE
   "prevents nick desyncs if the user changed their nick after being collided".
   It does unless both changes fall within one second: `ms_save` then takes the
   SAVE for the first nick as one for the second, at the user's own server,
   while a server that has not read the second change obeys it for the first.
   With SAVE the other runs let a client change nick once in a second at most
   (`SameSecond`); where only KILL is used there is no such case, and
   `AgreementHolds` lets them.
2. `chan_zone`. `doc/technical/README.TSora` says that the final state is
   independent of the order of SJOINs. It is not if the last member of the older
   channel leaves while the bursts cross, since the timestamp goes with the
   channel. `SameWhileNobodyLeaves` and `SameBans` state what remains, and
   `SameMembers`, `OpsEarned` hold with departures. A split is a departure too: in a
   line of three the last member of the older channel may be behind the link that
   breaks, while its timestamp is still on the way to the third server. (The
   proof of `SameWhileNobodyLeaves` did not go through with splits; TLC then found
   this history with two acts and one split.)
3. `pre_login`. The comment of `register_local_user` (src/s_user.c:199) says that
   it is called "when both NICK and USER messages have been accepted". `cap_end`,
   `mr_pong` and `me_svslogin` ask for a name and a `struct User`, and a login by
   services makes one: NICK, SVSLOGIN and CAP END register a client that has not
   sent USER, and whom the blacklists were not asked about. `Gate` therefore has
   `vouched`.
4. `pre_loop`. `libcharybdis/tools.h` says of `DLINK_FOREACH_SAFE` that it walks a list
   "safely while removing nodes". It does when only the node it stands on is
   removed. The loops of `timeout_query_list` and `timeout_auth_queries_event` call
   back into code that reads lines, and who registers by these may put out the
   owner of the next node. In the run it is a server; a user can do it too where
   ping cookies are off, as they are by default: where they are on, the PONG cannot be
   among the lines that are read in the callback. `LoopSafe` (`pre_reg`, and for all
   instances, with and without cookies, `PreRegLoops`) says that this is the only way.
5. `conf_stray`. A `connect{}` block whose class is not there gets the default class,
   with a warning ("Warning connect::class invalid for %s", src/s_newconf.c:416). But
   in a rehash the old classes are on the list until `check_class` (src/s_conf.c:1191),
   so `add_server_conf` finds a class whose block has been taken out, there is no
   warning, and `check_class` frees the class if nobody uses it.

A limit of addresses that comes or goes by a rehash is miscounted. A class without
`number_per_cidr` counts nobody, so when a rehash sets one, those who are there are not
in the count, and more are let in; and each of them takes one from it when he
leaves. `AddressesCounted` makes an exception of such a class (`mixed`) and of no other.

Divergences that need more than the runs' bounds, or that the models leave out
by construction, are listed as hazards with a note: the SAVE that crosses a
split of a line of three (`AgreementUnbroken` therefore speaks of histories
without a broken link), operators who kill each other, SJOINs that are not
forwarded because they add nobody, and mode changes that arrive after the
channel has been destroyed and recreated: by a KICK or KILL and a JOIN, or, with
five acts on two servers, by two PARTs, when the one who was made operator leaves
and comes back and the one who made him operator leaves too (`NeverBelow` therefore
speaks of histories in which nobody has left). Of BMASK alone TLC found no such
history with parts and splits. Two who give and take the same mode at once are
not reconciled either, since a change has no timestamp of its own (`OnlyGiven`). The comment in `ms_tmode`
(modules/core/m_mode.c:204) that a change by a client whose status was refused
"can still happen on a mixed ts network" is true of TS6 networks too, once a
client has left and come back: with three users, `NoDeoppedChange` fails without
its premise.

## 6. Plan

Done: the three modules of the network and of the client's life, `PreReg` with its
abstract `Gate`, `ConfRefs`, `Presence` and their composition, and the proofs above.
Left, in this order:

1. `Topology`: links that would close a cycle, two servers that connect to each
   other at once, SERVER and SID against `server_exists`. `NickNet` and
   `ChannelTS` assume its result, a tree.
2. An abstract specification of `NickNet`, in which a nick has one owner by
   decree, and the refinement while nothing is under way.
3. `AgreementUnbroken` with one operator: a KILL with his prefix, where he is not
   known, is the one line that `Replies` does not cover.
4. `Reject` counters, `generate_uid` as a function against a counter in base 36,
   flood allowance, the voice flag and the other lists of a channel.

## 7. Not modelled

Formatting and parsing of lines, numerics and notices to operators; the
configuration grammar; host mask and extended ban matching; ziplinks and
`servlink`; loading of modules; the commands that only read; caches and logs. Their
effect on what is modelled is a value of a small set, an exit, or none. The
exchange before a link is accepted (PASS, CAPAB, SERVER, SVINFO), SASL and the
flood allowance have state of their own and are left to the plan.

The repository holds other programs, which are not modelled: `hyperion`, the
daemon that ircd-seven replaces, `seven-services` and `theia`, services packages
that are clients of the protocol, and under `tags/` and `branches/` copies of all of
them. They are by far the larger part of its lines; the modules cover
`ircd-seven/trunk` only.
