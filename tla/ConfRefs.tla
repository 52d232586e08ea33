------------------------------- MODULE ConfRefs -------------------------------
(***************************************************************************)
(* What a rehash may free and what it may not: the connection classes, the *)
(* auth{} and connect{} blocks and the listeners, each with the clients    *)
(* and servers that still point to it.  A rehash marks all of them, reads  *)
(* the configuration and frees what nobody uses; the rest is freed by the  *)
(* last one who leaves it.                                                 *)
(*                                                                         *)
(* Sources: src/s_conf.c, src/class.c, src/s_newconf.c, src/hostmask.c,    *)
(* src/listener.c, src/client.c and src/s_serv.c.                          *)
(*                                                                         *)
(* An object that a rehash makes is named after its block and the number   *)
(* of the rehash, so that no object has the name of one freed before it.   *)
(*                                                                         *)
(* Two things that a configuration may legally do break the bookkeeping:   *)
(* a connect{} block can name a class that is there no more, and the limit *)
(* of a class can come or go while it has users.  strays and mixed record  *)
(* the classes to which that has happened, and no more is claimed of them  *)
(* than holds; LinksKeepTheirClass is what one would want of the first.    *)
(***************************************************************************)
EXTENDS Integers, FiniteSets

CONSTANTS
    Client,       \* local connections of users, each used once
    Server,       \* local connections of servers
    ClassName,    \* the names of class{} blocks
    Auth,         \* the auth{} blocks
    Exempt,       \* those with the flag exceed_limit
    Link,         \* the connect{} blocks
    Port,         \* the ports of listen{} blocks
    Net,          \* networks, of cidr_bitlen, which no rehash changes
    NetOf,        \* NetOf[u]: where u connects from
    Configs,      \* the configurations that a rehash may find
    MaxRehash     \* a bound on rehashes, the first reading included

None == <<"none", 0>>
Default == <<"default", 0>>

ASSUME ConfRefsAssumption ==
    /\ IsFiniteSet(Client) /\ IsFiniteSet(Server) /\ Client \cap Server = {}
    /\ Exempt \subseteq Auth
    /\ NetOf \in [Client -> Net]
    /\ MaxRehash \in Nat
    /\ "default" \notin ClassName /\ "none" \notin Auth \cup Link /\ None \notin Port

\* has: the classes that are configured.  perIp is number_per_cidr, where zero, the
\* default, is no limit.  A block may name a class that is not configured.  Left out
\* is a block that stands ahead of the class{} block it names.
ASSUME ConfigsAssumption ==
    \A cfg \in Configs :
        /\ cfg.has \subseteq ClassName
        /\ cfg.max \in [ClassName -> Nat]
        /\ cfg.perIp \in [ClassName -> Nat]
        /\ cfg.auth \in [Auth -> ClassName \cup {"default"}]
        /\ cfg.link \in [Link -> ClassName \cup {"default"}]
        /\ cfg.port \subseteq Port

Gen == 0..MaxRehash
ClassId == (ClassName \X Gen) \cup {Default}
AuthId == Auth \X Gen
LinkId == Link \X Gen

VARIABLES
    gen,          \* the number of the last rehash
    table,        \* table[n]: class_list, the rehash that made the class n on it,
                  \* 0 if there is none
    class,        \* class[k]: alive or freed, MaxUsers, CidrAmount, CurrUsers,
                  \* ip_limits; and how many attach_conf refused but counted there
    auth,         \* auth[i]: a ConfItem, its state, class and clients
    link,         \* link[i]: a server_conf, its state, class and servers
    listener,     \* listener[p]: its state and ref_count
    client,       \* client[u]: its state, att_conf and listener
    peer,         \* peer[s]: att_sconf
    strays,       \* the classes that a connect{} block took from the list after
                  \* their class{} block was gone
    mixed         \* those whose limit came or went while they had users

spoilt == <<strays, mixed>>
confVars == <<gen, table, class, auth, link, listener, client, peer, spoilt>>

-----------------------------------------------------------------------------
ConfTypeOK ==
    /\ gen \in Gen
    /\ table \in [ClassName -> Gen]
    /\ class \in [ClassId -> [alive : BOOLEAN, max : Nat \cup {-1}, perIp : Nat,
                              users : Nat, ip : [Net -> Nat], refused : [Net -> Nat]]]
    /\ auth \in [AuthId -> [st : {"none", "legal", "illegal"}, class : ClassId, clients : Nat]]
    /\ link \in [LinkId -> [st : {"none", "legal", "illegal"}, class : ClassId, servers : Nat]]
    /\ listener \in [Port -> [st : {"none", "active", "closed"}, refs : Nat]]
    /\ client \in [Client -> [st : {"new", "open", "dead", "freed"},
                              conf : AuthId \cup {None}, port : Port \cup {None}]]
    /\ peer \in [Server -> LinkId \cup {None}]
    /\ strays \subseteq ClassId /\ mixed \subseteq ClassId

\* make_class
NewClass(alive, max, perIp) ==
    [alive |-> alive, max |-> max, perIp |-> perIp, users |-> 0,
     ip |-> [n \in Net |-> 0], refused |-> [n \in Net |-> 0]]

\* initclass: the default class takes one user, and does not count addresses.
\* Nothing else is there before the configuration is read.
ConfInit ==
    /\ gen = 0
    /\ table = [n \in ClassName |-> 0]
    /\ class = [k \in ClassId |-> NewClass(k = Default, 1, 0)]
    /\ auth = [i \in AuthId |-> [st |-> "none", class |-> Default, clients |-> 0]]
    /\ link = [i \in LinkId |-> [st |-> "none", class |-> Default, servers |-> 0]]
    /\ listener = [p \in Port |-> [st |-> "none", refs |-> 0]]
    /\ client = [u \in Client |-> [st |-> "new", conf |-> None, port |-> None]]
    /\ peer = [s \in Server |-> None]
    /\ strays = {} /\ mixed = {}

-----------------------------------------------------------------------------
(* A connection of a user: add_connection, attach_conf and detach_conf.    *)

\* The client comes by a listener that accepts.
AddConnection(u, p) ==
    /\ client[u].st = "new" /\ listener[p].st = "active"
    /\ client' = [client EXCEPT ![u] = [st |-> "open", conf |-> None, port |-> p]]
    /\ listener' = [listener EXCEPT ![p] = [st |-> @.st, refs |-> @.refs + 1]]
    /\ UNCHANGED <<gen, spoilt, table, class, auth, link, peer>>

\* One more user in class C, or in its ip_limits, or one less: where there is a
\* limit, and no less than none (remove_ip_limit finds no entry then).
Counting(C, users, n, addresses, refused) ==
    [alive |-> C.alive, max |-> C.max, perIp |-> C.perIp,
     users |-> C.users + users,
     ip |-> [C.ip EXCEPT ![n] =
                IF C.perIp = 0 \/ (addresses = -1 /\ @ = 0) THEN @ ELSE @ + addresses],
     refused |-> [C.refused EXCEPT ![n] = @ + IF C.perIp = 0 THEN 0 ELSE refused]]

\* add_ip_limit finds room; and CurrUsers has reached MaxUsers.
RoomFor(u, i) ==
    LET C == class[auth[i].class] IN
    C.perIp = 0 \/ C.ip[NetOf[u]] < C.perIp \/ i[1] \in Exempt

Full(i) ==
    LET C == class[auth[i].class] IN C.max > 0 /\ C.users >= C.max

\* attach_conf, when check_client has found i for u.
AttachConf(u, i) ==
    /\ client[u].st = "open" /\ client[u].conf = None
    /\ auth[i].st = "legal"
    /\ RoomFor(u, i)
    /\ Full(i) => i[1] \in Exempt
    /\ client' = [client EXCEPT ![u] = [st |-> "open", conf |-> i, port |-> @.port]]
    /\ auth' = [auth EXCEPT ![i] = [st |-> @.st, class |-> @.class, clients |-> @.clients + 1]]
    /\ class' = [class EXCEPT ![auth[i].class] = Counting(@, 1, NetOf[u], 1, 0)]
    /\ UNCHANGED <<gen, spoilt, table, link, listener, peer>>

\* attach_conf finds the class full: the address stays counted, u is sent away.
AttachFull(u, i) ==
    /\ client[u].st = "open" /\ client[u].conf = None
    /\ auth[i].st = "legal"
    /\ RoomFor(u, i)
    /\ Full(i) /\ i[1] \notin Exempt
    /\ client' = [client EXCEPT ![u] = [st |-> "dead", conf |-> None, port |-> @.port]]
    /\ class' = [class EXCEPT ![auth[i].class] = Counting(@, 0, NetOf[u], 1, 1)]
    /\ UNCHANGED <<gen, spoilt, table, auth, link, listener, peer>>

\* Mutant of FreeIfLast: CurrUsers is looked at before it is decremented.
FreeIfLastEarly(C) ==
    IF C.max = -1 /\ C.users = -1
    THEN [alive |-> FALSE, max |-> C.max, perIp |-> C.perIp, users |-> C.users,
          ip |-> C.ip, refused |-> C.refused]
    ELSE C

\* free_class, if a rehash has taken C off the list and its last user leaves.
FreeIfLast(C) ==
    IF C.max = -1 /\ C.users = 0
    THEN [alive |-> FALSE, max |-> C.max, perIp |-> C.perIp, users |-> C.users,
          ip |-> C.ip, refused |-> C.refused]
    ELSE C

\* Mutant of CloseConnection: the count of the address is not given back.
CloseConnectionCounted(u) ==
    LET i == client[u].conf
        left == auth[i].clients - 1
        k == auth[i].class IN
    /\ client[u].st = "open"
    /\ client' = [client EXCEPT ![u] = [st |-> "dead", conf |-> None, port |-> @.port]]
    /\ IF i = None THEN UNCHANGED <<auth, class>>
       ELSE /\ auth' = [auth EXCEPT ![i] =
                  [st |-> IF left = 0 /\ @.st = "illegal" THEN "none" ELSE @.st,
                   class |-> @.class, clients |-> left]]
            /\ class' = [class EXCEPT ![k] = FreeIfLast(Counting(@, -1, NetOf[u], 0, 0))]
    /\ UNCHANGED <<gen, spoilt, table, link, listener, peer>>

\* exit_client, close_connection, detach_conf: u waits on dead_list.
CloseConnection(u) ==
    LET i == client[u].conf
        left == auth[i].clients - 1
        k == auth[i].class IN
    /\ client[u].st = "open"
    /\ client' = [client EXCEPT ![u] = [st |-> "dead", conf |-> None, port |-> @.port]]
    /\ IF i = None THEN UNCHANGED <<auth, class>>
       ELSE /\ auth' = [auth EXCEPT ![i] =
                  [st |-> IF left = 0 /\ @.st = "illegal" THEN "none" ELSE @.st,
                   class |-> @.class, clients |-> left]]
            /\ class' = [class EXCEPT ![k] = FreeIfLast(Counting(@, -1, NetOf[u], -1, 0))]
    /\ UNCHANGED <<gen, spoilt, table, link, listener, peer>>

\* free_local_client: the listener loses a client, and is freed if it was closed.
FreeLocalClient(u) ==
    LET p == client[u].port
        left == listener[p].refs - 1 IN
    /\ client[u].st = "dead"
    /\ client' = [client EXCEPT ![u] = [st |-> "freed", conf |-> None, port |-> None]]
    /\ listener' = [listener EXCEPT ![p] =
          [st |-> IF left = 0 /\ @.st = "closed" THEN "none" ELSE @.st, refs |-> left]]
    /\ UNCHANGED <<gen, spoilt, table, class, auth, link, peer>>

-----------------------------------------------------------------------------
(* A connection of a server: attach_server_conf and detach_server_conf.    *)

\* CurrUsers up or down, without an address.
Users(C, by) ==
    [alive |-> C.alive, max |-> C.max, perIp |-> C.perIp, users |-> C.users + by,
     ip |-> C.ip, refused |-> C.refused]

\* The classes, and the connect{} blocks, after s has left its own.
ClassesWithout(s) ==
    LET l == link[peer[s]]
        C == Users(class[l.class], -1) IN
    IF peer[s] = None THEN class
    ELSE [class EXCEPT ![l.class] =
             IF l.st = "illegal" /\ l.servers = 1 THEN FreeIfLast(C) ELSE C]

LinksWithout(s) ==
    IF peer[s] = None THEN link
    ELSE [link EXCEPT ![peer[s]] =
             [st |-> IF @.st = "illegal" /\ @.servers = 1 THEN "none" ELSE @.st,
              class |-> @.class, servers |-> @.servers - 1]]

\* Mutant of AttachServerConf: the block that s had is not detached first.
AttachServerConfOver(s, i) ==
    /\ link[i].st = "legal" /\ peer[s] # i /\ class[link[i].class].alive
    /\ peer' = [peer EXCEPT ![s] = i]
    /\ link' = [link EXCEPT ![i] =
                   [st |-> @.st, class |-> @.class, servers |-> @.servers + 1]]
    /\ class' = [class EXCEPT ![link[i].class] = Users(@, 1)]
    /\ UNCHANGED <<gen, spoilt, table, auth, listener, client>>

\* serv_connect, and check_server, which may find another block than the one s
\* was connected by when a rehash came between.  Where the class of the block has
\* been freed, by now, the count goes to freed memory, and there is no step here.
AttachServerConf(s, i) ==
    /\ link[i].st = "legal" /\ peer[s] # i /\ ClassesWithout(s)[link[i].class].alive
    /\ peer' = [peer EXCEPT ![s] = i]
    /\ link' = [LinksWithout(s) EXCEPT ![i] =
                   [st |-> @.st, class |-> @.class, servers |-> @.servers + 1]]
    /\ class' = [ClassesWithout(s) EXCEPT ![link[i].class] = Users(@, 1)]
    /\ UNCHANGED <<gen, spoilt, table, auth, listener, client>>

DetachServerConf(s) ==
    /\ peer[s] # None
    /\ peer' = [peer EXCEPT ![s] = None]
    /\ link' = LinksWithout(s)
    /\ class' = ClassesWithout(s)
    /\ UNCHANGED <<gen, spoilt, table, auth, listener, client>>

-----------------------------------------------------------------------------
(* A rehash: clear_out_old_conf marks, yyparse adds, check_class sweeps.   *)

\* add_class updates the class that is still listed, or makes one.
ClassOf(n) == IF table[n] = 0 THEN <<n, gen + 1>> ELSE <<n, table[n]>>

\* find_class for a block that names class n.  find_class has the class that is
\* marked too; auth{} blocks do not take it, connect{} blocks do.
AuthClass(cfg, n) == IF n \in cfg.has THEN ClassOf(n) ELSE Default

LinkClass(cfg, n) ==
    IF n \in cfg.has \/ (n # "default" /\ table[n] # 0) THEN ClassOf(n) ELSE Default

\* A class that is configured has what the configuration says; one that is not is
\* marked with MaxUsers = -1, taken off the list and freed when it has no users.
ClassAfter(cfg, k) ==
    LET C == class[k]
        n == k[1]
        ours == k # Default /\ k = ClassOf(n) IN
    IF ours /\ n \in cfg.has
    THEN IF table[n] = 0 THEN NewClass(TRUE, cfg.max[n], cfg.perIp[n])
         ELSE [alive |-> TRUE, max |-> cfg.max[n], perIp |-> cfg.perIp[n],
               users |-> C.users, ip |-> C.ip, refused |-> C.refused]
    ELSE IF ours /\ table[n] # 0
    THEN [alive |-> C.users > 0, max |-> -1, perIp |-> C.perIp,
          users |-> C.users, ip |-> C.ip, refused |-> C.refused]
    ELSE C

\* Mutant of AuthAfter: a block that has clients is freed all the same.
AuthAfterFreed(cfg, i) ==
    IF i[2] = gen + 1
    THEN [st |-> "legal", class |-> AuthClass(cfg, cfg.auth[i[1]]), clients |-> 0]
    ELSE [st |-> "none", class |-> auth[i].class, clients |-> auth[i].clients]

\* clear_out_address_conf, conf_end_auth
AuthAfter(cfg, i) ==
    IF i[2] = gen + 1
    THEN [st |-> "legal", class |-> AuthClass(cfg, cfg.auth[i[1]]), clients |-> 0]
    ELSE [st |-> IF auth[i].clients > 0 THEN "illegal" ELSE "none",
          class |-> auth[i].class, clients |-> auth[i].clients]

\* clear_s_newconf, add_server_conf
LinkAfter(cfg, i) ==
    IF i[2] = gen + 1
    THEN [st |-> "legal", class |-> LinkClass(cfg, cfg.link[i[1]]), servers |-> 0]
    ELSE [st |-> IF link[i].servers > 0 THEN "illegal" ELSE "none",
          class |-> link[i].class, servers |-> link[i].servers]

\* close_listeners, add_listener: one that clients hold is used again.  up: the
\* ports for which inetport succeeds.
ListenerAfter(up, p) ==
    [st |-> IF p \in up THEN "active" ELSE IF listener[p].refs > 0 THEN "closed" ELSE "none",
     refs |-> listener[p].refs]

\* Whose conf is of class k, users and servers.
InClass(k) ==
    {u \in Client : client[u].conf # None /\ auth[client[u].conf].class = k}
    \cup {s \in Server : peer[s] # None /\ link[peer[s]].class = k}

\* LinkClass finds one that is not configured any more.
Strays(cfg) ==
    {k \in ClassId \ {Default} :
        /\ k[1] \notin cfg.has /\ table[k[1]] # 0 /\ k = ClassOf(k[1])
        /\ \E i \in Link : cfg.link[i] = k[1]}

\* A limit comes or goes, and clients are there.
Mixed(cfg) ==
    {k \in ClassId \ {Default} :
        /\ k[1] \in cfg.has /\ table[k[1]] # 0 /\ k = ClassOf(k[1])
        /\ (class[k].perIp = 0) # (cfg.perIp[k[1]] = 0)
        /\ InClass(k) \cap Client # {}}

Rehash(cfg) ==
    /\ gen < MaxRehash
    /\ gen' = gen + 1
    /\ table' = [n \in ClassName |-> IF n \in cfg.has THEN ClassOf(n)[2] ELSE 0]
    /\ class' = [k \in ClassId |-> ClassAfter(cfg, k)]
    /\ auth' = [i \in AuthId |-> AuthAfter(cfg, i)]
    /\ link' = [i \in LinkId |-> LinkAfter(cfg, i)]
    /\ \E up \in SUBSET cfg.port : listener' = [p \in Port |-> ListenerAfter(up, p)]
    /\ strays' = strays \cup Strays(cfg)
    /\ mixed' = mixed \cup Mixed(cfg)
    /\ UNCHANGED <<client, peer>>

-----------------------------------------------------------------------------
ConfNext ==
    \/ \E u \in Client :
        \/ \E p \in Port : AddConnection(u, p)
        \/ \E i \in AuthId : AttachConf(u, i) \/ AttachFull(u, i)
        \/ CloseConnection(u) \/ FreeLocalClient(u)
    \/ \E s \in Server :
        \/ \E i \in LinkId : AttachServerConf(s, i)
        \/ DetachServerConf(s)
    \/ \E cfg \in Configs : Rehash(cfg)

ConfSpec == ConfInit /\ [][ConfNext]_confVars

-----------------------------------------------------------------------------
UsersOf(i) == {u \in Client : client[u].conf = i}
ServersOf(i) == {s \in Server : peer[s] = i}
HoldersOf(p) == {u \in Client : client[u].port = p}

\* Every count is the number of those that point there, however many rehashes
\* came between attaching and detaching: clients, servers, CurrUsers, ref_count
\* (src/s_conf.c:521-603, src/s_newconf.c:447-487, src/client.c:205-210).
RefsCounted ==
    /\ \A i \in AuthId : auth[i].clients = Cardinality(UsersOf(i))
    /\ \A i \in LinkId : link[i].servers = Cardinality(ServersOf(i))
    /\ \A p \in Port : listener[p].refs = Cardinality(HoldersOf(p))
    /\ \A k \in ClassId : class[k].alive => class[k].users = Cardinality(InClass(k))

\* Nothing that is freed is pointed to, directly or through a block that is still
\* there, except by connect{} blocks that took a class which was on its way out; and
\* the class list has no class that is freed (src/class.c:247-265).
NothingDangles ==
    /\ \A u \in Client : client[u].conf # None => auth[client[u].conf].st # "none"
    /\ \A s \in Server :
          peer[s] # None => link[peer[s]].st # "none" /\ class[link[peer[s]].class].alive
    /\ \A u \in Client : client[u].port # None => listener[client[u].port].st # "none"
    /\ \A i \in AuthId : auth[i].st # "none" => class[auth[i].class].alive
    /\ \A i \in LinkId :
          link[i].st # "none" => class[link[i].class].alive \/ link[i].class \in strays
    /\ \A n \in ClassName : table[n] # 0 => class[<<n, table[n]>>].alive

\* src/s_newconf.c:414-421: a connect{} block whose class is not there gets the
\* default class, with a warning, and so none has a class that is freed.
LinksKeepTheirClass ==
    \A i \in LinkId : link[i].st # "none" => class[link[i].class].alive

\* Nothing is left behind: what a rehash has taken out and nobody points to any
\* more is freed (src/s_conf.c:535-547, src/s_newconf.c:478-486).  That is not so of
\* a class that a connect{} block took on its way out.
NothingLeaks ==
    /\ \A i \in AuthId : auth[i].st = "illegal" => UsersOf(i) # {}
    /\ \A i \in LinkId : link[i].st = "illegal" => ServersOf(i) # {}
    /\ \A p \in Port : listener[p].st = "closed" => HoldersOf(p) # {}
    /\ \A k \in ClassId \ ({Default} \cup strays) :
          class[k].alive /\ InClass(k) = {} => table[k[1]] = k[2]

\* From network n in class k.
From(k, n) == {u \in InClass(k) \cap Client : NetOf[u] = n}

\* The count of an address in a class with a limit is that of the users of the class
\* from there and of those who found the class full: nothing else is lost or counted
\* twice, also when the limit changes, or comes or goes while the class is empty
\* (src/s_conf.c:400-453, 576).
AddressesCounted ==
    \A k \in ClassId \ mixed : \A n \in Net :
        class[k].alive /\ class[k].perIp > 0 =>
            class[k].ip[n] = class[k].refused[n] + Cardinality(From(k, n))

===============================================================================
