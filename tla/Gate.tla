--------------------------------- MODULE Gate ---------------------------------
(***************************************************************************)
(* What registration promises, without saying how: a connection that has   *)
(* not registered owes something, and the step in which it pays the last   *)
(* debt is the step that lets it in or sends it away.  PreReg implements   *)
(* it (register_local_user in src/s_user.c and its five callers).          *)
(***************************************************************************)

CONSTANT Conn

VARIABLES
    phase,     \* phase[c]: where the connection stands
    owes,      \* owes[c]: what it has to wait for, or to say
    vouched    \* those that services have logged in before they registered

vars == <<phase, owes, vouched>>

\* The lookups of the ident and of the host name come first: until they are
\* over, nothing that the connection says is read.
Lookups == {"ident", "host"}

\* A connection may start to negotiate capabilities at any time ("cap"), and is
\* looked up in the blacklists once it has said who it is ("dnsbl").
Debt == Lookups \cup {"nick", "user", "cookie", "cap", "dnsbl"}

Phase == {"none", "waiting", "leaving", "in", "link", "gone"}

TypeOK ==
    /\ phase \in [Conn -> Phase]
    /\ owes \in [Conn -> SUBSET Debt]
    /\ vouched \subseteq Conn

Init ==
    /\ phase = [c \in Conn |-> "none"]
    /\ owes = [c \in Conn |-> {}]
    /\ vouched = {}

-----------------------------------------------------------------------------
\* c ends its wait; what it owed is forgotten.
End(c, p) ==
    /\ phase' = [phase EXCEPT ![c] = p]
    /\ owes' = [owes EXCEPT ![c] = {}]
    /\ vouched' = vouched \ {c}

Heard(c) == phase[c] = "waiting" /\ owes[c] \cap Lookups = {}

Arrive(c) ==
    /\ phase[c] = "none"
    /\ phase' = [phase EXCEPT ![c] = "waiting"]
    /\ \E S \in SUBSET {"ident", "cookie"} :
          owes' = [owes EXCEPT ![c] = {"host", "nick", "user"} \cup S]
    /\ UNCHANGED vouched

\* c pays, and still owes something.  Two lookups may time out at once.
Pay(c) ==
    /\ phase[c] = "waiting"
    /\ \E paid \in (SUBSET owes[c]) \ {{}}, more \in SUBSET {"dnsbl"} :
          /\ paid \subseteq Lookups \/ Heard(c)
          /\ more # {} => "user" \in paid
          /\ (owes[c] \ paid) \cup more # {}
          /\ owes' = [owes EXCEPT ![c] = (@ \ paid) \cup more]
    /\ UNCHANGED <<phase, vouched>>

Negotiate(c) ==
    /\ Heard(c)
    /\ owes' = [owes EXCEPT ![c] = @ \cup {"cap"}]
    /\ UNCHANGED <<phase, vouched>>

Vouch(c) ==
    /\ Heard(c)
    /\ vouched' = vouched \cup {c}
    /\ UNCHANGED <<phase, owes>>

\* c pays its last debt.  One that services have vouched for may still owe USER.
Decide(c) ==
    /\ Heard(c)
    /\ \E last \in Debt :
          owes[c] \subseteq {last} \cup (IF c \in vouched THEN {"user"} ELSE {})
    /\ \E p \in {"in", "gone", "leaving"} : End(c, p)

Link(c) == Heard(c) /\ End(c, "link")

Drop(c) == phase[c] = "waiting" /\ \E p \in {"gone", "leaving"} : End(c, p)

Leave(c) == phase[c] = "leaving" /\ End(c, "gone")

Next ==
    \E c \in Conn :
        \/ Arrive(c) \/ Pay(c) \/ Negotiate(c) \/ Vouch(c) \/ Decide(c)
        \/ Link(c) \/ Drop(c) \/ Leave(c)

Spec == Init /\ [][Next]_vars

-----------------------------------------------------------------------------
\* Whoever waits still owes something: nobody is forgotten at the gate.
NobodyForgotten == \A c \in Conn : phase[c] = "waiting" => owes[c] # {}

===============================================================================
