-------------------------------- MODULE Process --------------------------------
(***************************************************************************)
(* One server's process: the users of this server hold a conf, a class and *)
(* a listener (ConfRefs), and a nick, a history and lists (Presence).      *)
(* Registering takes both, exiting gives both back, and in between rehashes*)
(* and the doings of all users interleave.                                 *)
(***************************************************************************)
EXTENDS ConfRefs, Presence

CONSTANT MaxActs      \* a bound on rehashes, nick changes, MONITOR, ACCEPT and new
                      \* connections of servers together

ASSUME ProcessAssumption == Client = Local /\ MaxActs \in Nat

VARIABLE acts         \* how much of it has been done

vars == <<confVars, presenceVars, acts>>

Act == acts < MaxActs /\ acts' = acts + 1

TypeOK == ConfTypeOK /\ PresenceTypeOK /\ acts \in 0..MaxActs

Init == ConfInit /\ PresenceInit /\ acts = 0

-----------------------------------------------------------------------------
\* A connection that comes, or is refused by its class.
Arrive(u) ==
    /\ \/ \E p \in Port : AddConnection(u, p)
       \/ \E i \in AuthId : AttachFull(u, i)
    /\ UNCHANGED <<presenceVars, acts>>

\* register_local_user attaches the conf first.  A client that is found dead, or
\* is refused by a later check, keeps it until it exits.
Attach(u) ==
    /\ \E i \in AuthId : AttachConf(u, i)
    /\ \/ UNCHANGED presenceVars
       \/ \E n \in Nick : SignOn(u, n)
    /\ UNCHANGED acts

\* exit_client
Exit(u) ==
    /\ CloseConnection(u)
    /\ ExitGenericClient(u) \/ ExitUnknownClient(u)
    /\ UNCHANGED acts

\* exit_dead_clients
FreeClient(u) == FreeLocalClient(u) /\ UNCHANGED <<presenceVars, acts>>

RemoteUser(u) ==
    /\ ExitGenericClient(u) \/ \E n \in Nick : SignOn(u, n)
    /\ UNCHANGED <<confVars, acts>>

Rename(u) ==
    /\ \E n \in Nick : NickChange(u, n)
    /\ UNCHANGED confVars /\ Act

Ask(w) == Request(w) /\ UNCHANGED confVars /\ Act

Cleanup == CleanupMonitor /\ UNCHANGED <<confVars, acts>>

ServerLink(s) ==
    /\ \/ \E i \in LinkId : AttachServerConf(s, i) /\ Act
       \/ DetachServerConf(s) /\ UNCHANGED acts
    /\ UNCHANGED presenceVars

Reconfigure(cfg) == Rehash(cfg) /\ UNCHANGED presenceVars /\ Act

Next ==
    \/ \E u \in Local : Arrive(u) \/ Attach(u) \/ Exit(u) \/ FreeClient(u) \/ Ask(u)
    \/ \E u \in Remote : RemoteUser(u)
    \/ \E u \in User : Rename(u)
    \/ \E s \in Server : ServerLink(s)
    \/ \E cfg \in Configs : Reconfigure(cfg)
    \/ Cleanup

Spec == Init /\ [][Next]_vars

===============================================================================
