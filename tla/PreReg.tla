-------------------------------- MODULE PreReg --------------------------------
(***************************************************************************)
(* A connection before it registers: the lookups of its host name and its  *)
(* ident, the resolver's list of requests and its timer, the DNS           *)
(* blacklists, and the gate at which NICK, USER, CAP END, PONG or the last *)
(* blacklist's answer completes the registration.                          *)
(*                                                                         *)
(* Sources: src/s_auth.c, src/res.c, src/blacklist.c, register_local_user  *)
(* in src/s_user.c, modules/core/m_nick.c, modules/m_user.c, m_pong.c,     *)
(* m_cap.c, m_signon.c, src/client.c and src/listener.c.                   *)
(*                                                                         *)
(* One process, one thread: between two events nothing runs.  But the      *)
(* timers go over a list and call back into code that reads what a client  *)
(* has sent, and so may change that list: these loops are taken apart, a   *)
(* step for each entry and one for each line read inside a callback.       *)
(*                                                                         *)
(* A callback may take away the entry that the loop goes on with, and the  *)
(* loop then reads freed memory.  What comes of that is undefined in C:    *)
(* here the process stops, in a state of Wild.                             *)
(***************************************************************************)
EXTENDS Integers, FiniteSets

CONSTANTS
    Conn,         \* connections, each used once
    Black,        \* the blacklists that a configuration may name
    V6,           \* the connections over IPv6: blacklists are not asked
    Retries,      \* how often a request is sent (3 in res.c)
    PingCookie,   \* general::ping_cookie
    Configs,      \* the sets of blacklists that a rehash may find configured
    MaxOthers     \* a bound on rehashes, failed writes, logins by services and
                  \* exits that others cause, together

NoConn == "no connection"
NoItem == <<"no item">>

ASSUME PreRegAssumption ==
    /\ IsFiniteSet(Conn) /\ V6 \subseteq Conn
    /\ Retries \in Nat \ {0} /\ MaxOthers \in Nat
    /\ PingCookie \in BOOLEAN
    /\ Configs \subseteq SUBSET Black
    /\ NoConn \notin Conn
    /\ {"host", "auth"} \cap Black = {}

\* A request of the resolver: for c's host name, or for c in blacklist b.
Lookup == Conn \X ({"host"} \cup Black)

\* <<c, "auth">> is c's entry on auth_poll_list.
Item == Conn \X ({"host", "auth"} \cup Black)

VARIABLES
    phase,        \* phase[c]: "lookup", then "open", then registered or gone
    auth,         \* auth[c]: what is pending of c's AuthRequest
    got,          \* got[c]: what it has said, and what was said to it
    queries,      \* queries[c]: preClient->dnsbl_queries
    listed,       \* listed[c]: preClient->dnsbl_listed, none or one
    status,       \* status[b]: on blacklist_list or not, CONF_ILLEGAL or not
    ref,          \* ref[b]: its refcount
    requests,     \* requests[i]: retries left, 0 for one that is not on the list
    loop,         \* the timer's loop: the entry it has saved, the rest, and who
                  \* was put out since it began
    hand,         \* the request whose callback is running
    reader,       \* the connection whose first lines are read in a callback
    dying,        \* those with a failed write, on abort_list
    others        \* how much of what MaxOthers bounds has happened

pre == <<got, queries, listed>>
black == <<status, ref>>
control == <<loop, hand, reader>>
vars == <<phase, auth, pre, black, requests, control, dying, others>>

-----------------------------------------------------------------------------
Phase == {"none", "lookup", "open", "user", "link", "gone"}

Pending == {"ptr", "addr", "connect", "reply"}

\* ClearAuth, and ClearDNSPending.
Ident == {"connect", "reply"}
Dns == {"ptr", "addr"}

\* "login": services have made its user.  "clicap": CAP negotiation is open.
\* "ping": the cookie was sent.  "cookie": it came back.
Said == {"nick", "user", "login", "clicap", "ping", "cookie"}

Status == {"absent", "conf", "illegal"}

TypeOK ==
    /\ phase \in [Conn -> Phase]
    /\ auth \in [Conn -> SUBSET Pending]
    /\ got \in [Conn -> SUBSET Said]
    /\ queries \in [Conn -> SUBSET Black]
    /\ listed \in [Conn -> SUBSET Black]
    /\ \A c \in Conn : \A a, b \in listed[c] : a = b
    /\ status \in [Black -> Status]
    /\ ref \in [Black -> Nat]
    /\ requests \in [Lookup -> 0..Retries]
    /\ loop \in [next : Item \cup {NoItem}, rest : SUBSET Item, ousted : SUBSET Conn]
    /\ hand \in Lookup \cup {NoItem}
    /\ reader \in Conn \cup {NoConn}
    /\ dying \subseteq Conn
    /\ others \in 0..MaxOthers

Unregistered(c) == phase[c] \in {"lookup", "open"}

NoLoop == [next |-> NoItem, rest |-> {}, ousted |-> {}]

\* Between two events.
Idle == loop.next = NoItem /\ reader = NoConn

\* A line of c is handled: read_packet, parse_client_queued.
Reads(c) == phase[c] = "open" /\ c \notin dying /\ (Idle \/ reader = c)

\* A line of the connection that is read in a callback, a user's or a server's by
\* now (read_packet goes on to those), does something to c.
Reaches(kinds, c) == reader \notin {NoConn, c} /\ phase[reader] \in kinds

OnList(i) == IF i[2] = "auth" THEN phase[i[1]] = "lookup" ELSE requests[i] > 0

\* The loop's saved entry is gone.
Wild == loop.next # NoItem /\ ~OnList(loop.next)

Init ==
    /\ phase = [c \in Conn |-> "none"]
    /\ auth = [c \in Conn |-> {}]
    /\ got = [c \in Conn |-> {}]
    /\ queries = [c \in Conn |-> {}]
    /\ listed = [c \in Conn |-> {}]
    /\ \E S \in Configs : status = [b \in Black |-> IF b \in S THEN "conf" ELSE "absent"]
    /\ ref = [b \in Black |-> 0]
    /\ requests = [i \in Lookup |-> 0]
    /\ loop = NoLoop
    /\ hand = NoItem
    /\ reader = NoConn
    /\ dying = {}
    /\ others = 0

-----------------------------------------------------------------------------
(* Blacklists: references, and what frees them.                            *)

\* unref_blacklist for each of S, with counts r and statuses s.
RefDown(r, S) == [b \in Black |-> IF b \in S THEN r[b] - 1 ELSE r[b]]

Unlisted(s, r, S) ==
    [b \in Black |-> IF b \in S /\ s[b] = "illegal" /\ r[b] <= 1 THEN "absent" ELSE s[b]]

\* Mutant of FreePreClient: the reference of dnsbl_listed is not given back.
FreePreClientListed(c) ==
    /\ ref' = RefDown(ref, queries[c])
    /\ status' = Unlisted(status, ref, queries[c])
    /\ queries' = [queries EXCEPT ![c] = {}]
    /\ listed' = [listed EXCEPT ![c] = {}]

\* free_pre_client drops c's listing, then abort_blacklist_queries its queries.
FreePreClient(c) ==
    /\ ref' = RefDown(RefDown(ref, listed[c]), queries[c])
    /\ status' = Unlisted(Unlisted(status, ref, listed[c]),
                          RefDown(ref, listed[c]), queries[c])
    /\ queries' = [queries EXCEPT ![c] = {}]
    /\ listed' = [listed EXCEPT ![c] = {}]

\* Mutant of WithoutRequests: ClearDNSPending was forgotten, and the request whose
\* callback is running goes too.
WithoutRequestsStale(c) ==
    [i \in Lookup |->
        IF i[1] = c /\ i[2] \in queries[c] \cup {"host"} THEN 0 ELSE requests[i]]

\* Its requests go with it, and those of delete_auth_queries.
WithoutRequests(c) ==
    [i \in Lookup |->
        IF i[1] = c /\ (i[2] \in queries[c] \/ (i[2] = "host" /\ auth[c] \cap Dns # {}))
        THEN 0 ELSE requests[i]]

\* exit_unknown_client
ExitUnknownClient(c) ==
    /\ phase' = [phase EXCEPT ![c] = "gone"]
    /\ auth' = [auth EXCEPT ![c] = {}]
    /\ got' = [got EXCEPT ![c] = {}]
    /\ FreePreClient(c)
    /\ requests' = WithoutRequests(c)
    /\ dying' = dying \ {c}

-----------------------------------------------------------------------------
(* The gate.  g, q, l, r and s are c's got, queries and listed and the     *)
(* blacklists' ref and status as the handler has left them.                *)

Keep(c, g, q, l, r, s) ==
    /\ got' = [got EXCEPT ![c] = g]
    /\ queries' = [queries EXCEPT ![c] = q]
    /\ listed' = [listed EXCEPT ![c] = l]
    /\ ref' = r /\ status' = s

\* What stands between c and its registration once the cookie was asked for.
Ready(g, q) ==
    /\ PingCookie => "cookie" \in g
    /\ "clicap" \notin g
    /\ q = {}

\* The user is registered, or sent away by one of the checks (check_client, the
\* password, dnsbl_listed ...), or found dead after the notices to operators.
Conclude(c, g, l, r, s) ==
    \/ \E p \in {"user", "gone"} :
          /\ phase' = [phase EXCEPT ![c] = p]
          /\ Keep(c, IF p = "user" THEN g ELSE {}, {}, {}, RefDown(r, l), Unlisted(s, r, l))
          /\ UNCHANGED dying
    \/ /\ Keep(c, g, {}, l, r, s)
       /\ dying' = dying \cup {c}
       /\ UNCHANGED phase

RegisterLocalUser(c, g, q, l, r, s) ==
    LET asked == PingCookie /\ "ping" \notin g IN
    \/ /\ c \notin dying /\ asked
       /\ Keep(c, g \cup {"ping"}, q, l, r, s)
       /\ UNCHANGED <<phase, dying>>
    \/ /\ c \in dying \/ (~asked /\ ~Ready(g, q))
       /\ Keep(c, g, q, l, r, s)
       /\ UNCHANGED <<phase, dying>>
    \/ /\ c \notin dying /\ ~asked /\ Ready(g, q)
       /\ Conclude(c, g, l, r, s)

\* A handler that finds what it needs tries to register c, or only keeps g.
Try(c, may, g) ==
    IF may THEN RegisterLocalUser(c, g, queries[c], listed[c], ref, status)
    ELSE Keep(c, g, queries[c], listed[c], ref, status) /\ UNCHANGED <<phase, dying>>

-----------------------------------------------------------------------------
(* A connection comes, and its lookups end.                                *)

\* add_connection, start_auth: the request for the host name goes out, and a
\* connection to the ident port unless that fails.
Accept(c) ==
    /\ Idle /\ phase[c] = "none"
    /\ phase' = [phase EXCEPT ![c] = "lookup"]
    /\ \E ident \in SUBSET {"connect"} : auth' = [auth EXCEPT ![c] = {"ptr"} \cup ident]
    /\ requests' = [requests EXCEPT ![<<c, "host">>] = Retries]
    /\ UNCHANGED <<pre, black, control, dying, others>>

\* release_auth_client, with a still pending.  When nothing is, what the client
\* has sent so far is read before the callback returns.
ReleaseAuthClient(c, a) ==
    /\ auth' = [auth EXCEPT ![c] = a]
    /\ IF a # {} THEN UNCHANGED <<phase, reader>>
       ELSE /\ phase' = [phase EXCEPT ![c] = "open"]
            /\ reader' = IF c \in dying THEN NoConn ELSE c

\* auth_connect_callback
IdentConnected(c) ==
    /\ Idle /\ "connect" \in auth[c]
    /\ auth' = [auth EXCEPT ![c] = (@ \ {"connect"}) \cup {"reply"}]
    /\ UNCHANGED <<phase, pre, black, requests, control, dying, others>>

\* read_auth_reply, auth_error
IdentDone(c) ==
    /\ Idle /\ auth[c] \cap Ident # {}
    /\ ReleaseAuthClient(c, auth[c] \ Ident)
    /\ UNCHANGED <<pre, black, requests, loop, hand, dying, others>>

\* auth_dns_callback.  The request is removed when the callback has returned.
AuthDnsCallback(c) ==
    LET i == <<c, "host">> IN
    /\ ReleaseAuthClient(c, auth[c] \ Dns)
    /\ IF reader' = NoConn
       THEN requests' = [requests EXCEPT ![i] = 0] /\ UNCHANGED hand
       ELSE hand' = i /\ UNCHANGED requests
    /\ UNCHANGED <<pre, black, dying, others>>

\* Mutant of BlacklistDnsCallback: the reference is given back and kept too.
BlacklistDnsCallbackTwice(c, b, found) ==
    LET kept == found /\ listed[c] = {}
        l == IF kept THEN {b} ELSE listed[c]
        r == RefDown(ref, {b})
        s == Unlisted(status, ref, {b})
        q == queries[c] \ {b} IN
    /\ requests' = [requests EXCEPT ![<<c, b>>] = 0]
    /\ IF q = {} /\ {"user", "nick"} \subseteq got[c]
       THEN RegisterLocalUser(c, got[c], q, l, r, s)
       ELSE Keep(c, got[c], q, l, r, s) /\ UNCHANGED <<phase, dying>>
    /\ UNCHANGED <<auth, hand, reader, others>>

\* blacklist_dns_callback: the reference of a first listing moves to the client.
BlacklistDnsCallback(c, b, found) ==
    LET kept == found /\ listed[c] = {}
        gone == IF kept THEN {} ELSE {b}
        l == IF kept THEN {b} ELSE listed[c]
        r == RefDown(ref, gone)
        s == Unlisted(status, ref, gone)
        q == queries[c] \ {b} IN
    /\ requests' = [requests EXCEPT ![<<c, b>>] = 0]
    /\ IF q = {} /\ {"user", "nick"} \subseteq got[c]
       THEN RegisterLocalUser(c, got[c], q, l, r, s)
       ELSE Keep(c, got[c], q, l, r, s) /\ UNCHANGED <<phase, dying>>
    /\ UNCHANGED <<auth, hand, reader, others>>

\* res_readreply.  An answer to a request that is not on the list, or that was
\* sent again under another id, finds nothing (find_id) and is dropped.
ReplyHost(c) ==
    /\ Idle /\ requests[<<c, "host">>] > 0
    /\ \/ /\ "ptr" \in auth[c]     \* a name: now its address is asked for
          /\ auth' = [auth EXCEPT ![c] = (@ \ {"ptr"}) \cup {"addr"}]
          /\ requests' = [requests EXCEPT ![<<c, "host">>] = Retries]
          /\ UNCHANGED <<phase, pre, black, control, dying, others>>
       \/ /\ AuthDnsCallback(c)    \* the address, or an error
          /\ UNCHANGED loop

ReplyBlacklist(c, b) ==
    /\ Idle /\ requests[<<c, b>>] > 0
    /\ \E found \in BOOLEAN : BlacklistDnsCallback(c, b, found)
    /\ UNCHANGED loop

-----------------------------------------------------------------------------
(* The timers, timeout_resolver and timeout_auth_queries_event.  Each goes *)
(* over its list with DLINK_FOREACH_SAFE, that is with the next entry      *)
(* saved before the present one is handled.  Entries that are not due are  *)
(* passed over, and left out here; new ones go to the head of the list,    *)
(* behind the loop.  Any order stands for the order of the list.           *)

Start(due) ==
    /\ Idle /\ due # {}
    /\ \E i \in due : loop' = [next |-> i, rest |-> due \ {i}, ousted |-> {}]
    /\ UNCHANGED <<phase, auth, pre, black, requests, hand, reader, dying, others>>

TimeoutResolver(due) == due \subseteq {i \in Lookup : OnList(i)} /\ Start(due)

TimeoutAuthQueries(due) ==
    due \subseteq {i \in Conn \X {"auth"} : OnList(i)} /\ Start(due)

\* next_ptr is read from the list when the loop steps to an entry.
Following == LET left == {i \in loop.rest : OnList(i)} IN
    IF left = {} THEN {NoItem} ELSE left

Advance ==
    \E n \in Following :
        loop' = IF n = NoItem THEN NoLoop
                ELSE [loop EXCEPT !.next = n, !.rest = @ \ {n}]

Looping(i) == loop.next = i /\ reader = NoConn /\ OnList(i)

\* Mutant of ResendQuery: a retry is not counted.
ResendQueryForever(i) ==
    /\ Looping(i) /\ requests[i] > 1
    /\ UNCHANGED requests
    /\ Advance
    /\ UNCHANGED <<phase, auth, pre, black, hand, reader, dying, others>>

\* timeout_query_list: retries are left.
ResendQuery(i) ==
    /\ Looping(i) /\ requests[i] > 1
    /\ requests' = [requests EXCEPT ![i] = @ - 1]
    /\ Advance
    /\ UNCHANGED <<phase, auth, pre, black, hand, reader, dying, others>>

\* timeout_query_list: no retry is left, the callback gets no answer.
ExpireHost(c) ==
    LET i == <<c, "host">> IN
    /\ Looping(i) /\ requests[i] = 1
    /\ AuthDnsCallback(c)
    /\ Advance

ExpireBlacklist(c, b) ==
    LET i == <<c, b>> IN
    /\ Looping(i) /\ requests[i] = 1
    /\ BlacklistDnsCallback(c, b, FALSE)
    /\ Advance

\* Mutant of ExpireAuth: the DNS request stays with the resolver.
ExpireAuthKept(c) ==
    /\ Looping(<<c, "auth">>)
    /\ ReleaseAuthClient(c, {})
    /\ Advance
    /\ UNCHANGED <<pre, black, requests, hand, dying, others>>

\* Both lookups of c have taken too long: delete_resolver_queries, release.
ExpireAuth(c) ==
    /\ Looping(<<c, "auth">>)
    /\ ReleaseAuthClient(c, {})
    /\ requests' = IF auth[c] \cap Dns # {} THEN [requests EXCEPT ![<<c, "host">>] = 0]
                   ELSE requests
    /\ Advance
    /\ UNCHANGED <<pre, black, hand, dying, others>>

\* read_packet returns, then the callback, and res.c removes the request.
ReadDone ==
    /\ reader # NoConn
    /\ reader' = NoConn /\ hand' = NoItem
    /\ requests' = IF hand = NoItem THEN requests ELSE [requests EXCEPT ![hand] = 0]
    /\ UNCHANGED <<phase, auth, pre, black, loop, dying, others>>

-----------------------------------------------------------------------------
(* What an unregistered connection says.                                   *)

\* Mutant of MrNick: USER that came first is not remembered.
MrNickLate(c) ==
    /\ Reads(c)
    /\ Try(c, FALSE, got[c] \cup {"nick"})
    /\ UNCHANGED <<auth, requests, control, others>>

\* mr_nick for a nick that is free: set_initial_nick.
MrNick(c) ==
    /\ Reads(c)
    /\ Try(c, "user" \in got[c], got[c] \cup {"nick"})
    /\ UNCHANGED <<auth, requests, control, others>>

\* do_local_user; the first USER asks the blacklists, lookup_blacklists.
MrUser(c) ==
    LET asked == IF "user" \in got[c] \/ c \in V6 THEN {}
                 ELSE {b \in Black : status[b] = "conf"}
        g == got[c] \cup {"user"}
        q == queries[c] \cup asked
        r == [b \in Black |-> IF b \in asked THEN ref[b] + 1 ELSE ref[b]] IN
    /\ Reads(c)
    /\ requests' = [i \in Lookup |-> IF i[1] = c /\ i[2] \in asked THEN Retries ELSE requests[i]]
    /\ IF "nick" \in got[c] THEN RegisterLocalUser(c, g, q, listed[c], r, status)
       ELSE Keep(c, g, q, listed[c], r, status) /\ UNCHANGED <<phase, dying>>
    /\ UNCHANGED <<auth, control, others>>

\* CAP LS and CAP REQ: cap_ls, cap_req.
MCap(c) ==
    /\ Reads(c)
    /\ Try(c, FALSE, got[c] \cup {"clicap"})
    /\ UNCHANGED <<auth, requests, control, others>>

\* source_p->user is there after USER, or after a login by services.
HasUser(c) == got[c] \cap {"user", "login"} # {}

\* CAP END: cap_end.
CapEnd(c) ==
    /\ Reads(c)
    /\ Try(c, "nick" \in got[c] /\ HasUser(c), got[c] \ {"clicap"})
    /\ UNCHANGED <<auth, requests, control, others>>

\* mr_pong with the right cookie, which no client knows in its first lines.
MrPong(c) ==
    /\ Reads(c) /\ reader # c
    /\ PingCookie /\ HasUser(c) /\ {"nick", "ping"} \subseteq got[c]
    /\ Try(c, TRUE, got[c] \cup {"cookie"})
    /\ UNCHANGED <<auth, requests, control, others>>

\* mr_server, server_estab: the connection is a server's.
MrServer(c) ==
    /\ Reads(c)
    /\ phase' = [phase EXCEPT ![c] = "link"]
    /\ FreePreClient(c)
    /\ requests' = WithoutRequests(c)
    /\ UNCHANGED <<auth, got, control, dying, others>>

\* QUIT, a read error, a flood, a refused SERVER.
Leave(c) ==
    /\ Reads(c)
    /\ ExitUnknownClient(c)
    /\ UNCHANGED <<control, others>>

-----------------------------------------------------------------------------
(* What others do to it.                                                   *)

Other == others < MaxOthers /\ others' = others + 1

\* A DLINE (check_dlines), CLOSE or, for one that has sent NICK, "Overridden": a user
\* or a server takes its nick; between events also check_unknowns_list's 30 seconds.
Displace(d) ==
    /\ Unregistered(d) /\ d \notin dying /\ Other
    /\ Idle \/ Reaches({"user", "link"}, d)
    /\ ExitUnknownClient(d)
    /\ loop' = IF loop.next = NoItem THEN loop ELSE [loop EXCEPT !.ousted = @ \cup {d}]
    /\ UNCHANGED <<hand, reader>>

\* me_svslogin, to a nick or to the UID that AUTHENTICATE gave: make_user.
MeSvslogin(c) ==
    /\ phase[c] = "open" /\ Other
    /\ Idle \/ Reaches({"link"}, c)
    /\ Try(c, FALSE, got[c] \cup {"login"})
    /\ UNCHANGED <<auth, requests, control>>

\* A write to c fails, of what c is told or of what services tell it: dead_link.
WriteError(c) ==
    /\ Unregistered(c) /\ c \notin dying /\ Other
    /\ Idle \/ reader = c \/ Reaches({"link"}, c)
    /\ dying' = dying \cup {c}
    /\ UNCHANGED <<phase, auth, pre, black, requests, control>>

\* exit_aborted_clients
ExitAborted(c) ==
    /\ Idle /\ c \in dying
    /\ ExitUnknownClient(c)
    /\ UNCHANGED <<control, others>>

\* destroy_blacklists, then new_blacklist for each that is configured now: at a
\* signal, or at once where an operator or a server asks for it.
Rehash(S) ==
    /\ Other
    /\ Idle \/ (reader # NoConn /\ phase[reader] \in {"user", "link"})
    /\ status' = [b \in Black |->
          IF b \in S THEN "conf"
          ELSE IF status[b] # "absent" /\ ref[b] > 0 THEN "illegal" ELSE "absent"]
    /\ ref' = [b \in Black |-> IF status[b] = "absent" \/ ref[b] <= 0 THEN 0 ELSE ref[b]]
    /\ UNCHANGED <<phase, auth, pre, requests, control, dying>>

-----------------------------------------------------------------------------
LookupStep ==
    \E c \in Conn :
        \/ IdentConnected(c) \/ IdentDone(c) \/ ReplyHost(c)
        \/ \E b \in Black : ReplyBlacklist(c, b)

TimerStart ==
    \E due \in SUBSET Item : TimeoutResolver(due) \/ TimeoutAuthQueries(due)

LoopStep ==
    \/ \E i \in Lookup : ResendQuery(i)
    \/ \E c \in Conn :
        \/ ExpireHost(c) \/ ExpireAuth(c)
        \/ \E b \in Black : ExpireBlacklist(c, b)

Line(c) ==
    \/ MrNick(c) \/ MrUser(c) \/ MCap(c) \/ CapEnd(c) \/ MrPong(c)
    \/ MrServer(c) \/ Leave(c)

OtherStep ==
    \/ \E c \in Conn : Displace(c) \/ MeSvslogin(c) \/ WriteError(c) \/ ExitAborted(c)
    \/ \E S \in Configs : Rehash(S)

Next ==
    \/ \E c \in Conn : Accept(c) \/ Line(c)
    \/ LookupStep \/ TimerStart \/ LoopStep \/ ReadDone \/ OtherStep

Spec == Init /\ [][Next]_vars

\* A handler returns, the timers run every second, and what has been pending for
\* long enough is due.
Fairness ==
    /\ WF_vars(LoopStep) /\ WF_vars(ReadDone)
    /\ SF_vars(TimeoutResolver({i \in Lookup : OnList(i)}))
    /\ SF_vars(TimeoutAuthQueries({i \in Conn \X {"auth"} : OnList(i)}))

FairSpec == Spec /\ Fairness

-----------------------------------------------------------------------------
(* What it implements.                                                     *)

Asked(c, b) == requests[<<c, b>>] > 0

\* The cookie is c's debt when it was asked for, or before it could be.
OwesCookie(c) ==
    /\ PingCookie /\ "cookie" \notin got[c]
    /\ "ping" \in got[c] \/ ~({"nick", "user"} \subseteq got[c])

\* What c has to wait for, or to say, before it is registered.
Owes(c) ==
    (IF auth[c] \cap Dns # {} THEN {"host"} ELSE {})
    \cup (IF auth[c] \cap Ident # {} THEN {"ident"} ELSE {})
    \cup {d \in {"nick", "user"} : d \notin got[c]}
    \cup (IF OwesCookie(c) THEN {"cookie"} ELSE {})
    \cup (IF "clicap" \in got[c] THEN {"cap"} ELSE {})
    \cup (IF queries[c] # {} THEN {"dnsbl"} ELSE {})

Waits(c) == Unregistered(c) /\ c \notin dying

GatePhase == [c \in Conn |->
    IF Unregistered(c) THEN IF c \in dying THEN "leaving" ELSE "waiting"
    ELSE IF phase[c] = "user" THEN "in" ELSE phase[c]]

GateOwes == [c \in Conn |-> IF Waits(c) THEN Owes(c) ELSE {}]

GateVouched == {c \in Conn : Waits(c) /\ "login" \in got[c]}

G == INSTANCE Gate WITH phase <- GatePhase, owes <- GateOwes, vouched <- GateVouched

\* The gate is kept: nobody registers or is refused before its last debt is paid,
\* and nobody waits who owes nothing, whatever the order of NICK, USER, CAP END,
\* PONG and the answers (src/s_user.c:238-264 and its callers).
GateSpec == G!Spec

-----------------------------------------------------------------------------
\* Every lookup that a connection waits for has its one request on the resolver's
\* list, and every request there is awaited by a connection that still exists, or
\* its callback is running: no answer and no timeout can reach a freed AuthRequest
\* or BlacklistClient (src/s_auth.c:453-456, 598-618, src/blacklist.c:165-180).
RequestsOwned ==
    \A c \in Conn :
        /\ Asked(c, "host") <=> auth[c] \cap Dns # {} \/ hand = <<c, "host">>
        /\ auth[c] # {} <=> phase[c] = "lookup"
        /\ \A b \in Black : Asked(c, b) <=> b \in queries[c]
        /\ queries[c] \cup listed[c] # {} => phase[c] = "open"

\* What holds a reference to b.
Holders(b) ==
    {<<c, "query">> : c \in {d \in Conn : b \in queries[d]}}
    \cup {<<c, "listed">> : c \in {d \in Conn : b \in listed[d]}}

\* The refcount of a blacklist is the number of pointers to it, one that is freed
\* has none, and one that a rehash has removed is freed with its last reference,
\* also when a rehash brings it back meanwhile (src/blacklist.c:138-146, 182-199).
BlackRefs ==
    \A b \in Black :
        /\ ref[b] = Cardinality(Holders(b))
        /\ status[b] = "absent" => Holders(b) = {}
        /\ status[b] = "illegal" => Holders(b) # {}

\* A timer's loop that has saved an entry which is no more on its list when it comes
\* to it: that is the doing of a client or a server who registered in the callback
\* and put the entry's owner out, and of nothing else.  No answer, line, exit,
\* failed write or rehash takes it away (src/res.c:183, src/s_auth.c:436).  And the
\* request whose callback runs is still there to be removed (src/res.c:193).
LoopSafe ==
    /\ Wild => loop.next[1] \in loop.ousted
    /\ hand # NoItem => OnList(hand)

\* libcharybdis/tools.h:74: DLINK_FOREACH_SAFE walks a list safely while nodes are
\* removed, as the loops of src/res.c:183 and src/s_auth.c:436 trust it to.
LoopKept == ~Wild

\* Lookups end, by an answer or by the timers, also of clients that nobody answers:
\* without the 30 seconds of check_unknowns_list (src/res.c:175, src/s_auth.c:430),
\* unless the timer's loop has gone wild.
LookupsEnd ==
    \A c \in Conn :
        []<>(Wild \/ ~(Waits(c) /\ Owes(c) \cap {"host", "ident", "dnsbl"} # {}))

\* src/s_user.c:199: register_local_user is called when both NICK and USER have
\* been accepted for the client.
AfterUser == \A c \in Conn : phase[c] = "user" => {"nick", "user"} \subseteq got[c]

===============================================================================
