---------------------------- MODULE Process_proofs ----------------------------
(***************************************************************************)
(* Part one, of ConfRefs alone: its counts are those of the holders, and   *)
(* nothing is freed early or left behind, for any number of users, servers,*)
(* blocks, classes and rehashes and for all configurations that            *)
(* ConfigsAssumption admits.  The four invariants need each other: a class *)
(* may be freed when its count is zero because the count is right, and the *)
(* count is right because a block that somebody holds, and so its class,   *)
(* has not been freed.  Of the classes that a configuration has spoilt the *)
(* proof shows what is left: a connect{} block with a stray class is not   *)
(* used once the class is gone, and the servers of it keep it.             *)
(*                                                                         *)
(* Part two, of Presence alone: its lists stay in step, for any number of  *)
(* users and nicks, any length of the ring and any limits.  The five       *)
(* invariants are inductive with one more fact, that no two users have one *)
(* nick: without it an exit could sign off a nick that another still has.  *)
(*                                                                         *)
(* Part three: what holds of the configuration and of the users, each by   *)
(* itself, holds in the process: every step of the process is a step of    *)
(* the one, or leaves it alone, and likewise of the other.  So the         *)
(* invariants of the first two parts carry over, and one is added that     *)
(* needs both.                                                             *)
(***************************************************************************)
EXTENDS Process, FiniteSetTheorems, TLAPS

-----------------------------------------------------------------------------
(* Part one: ConfRefs.                                                     *)

\* What a connection has at each stage of its life.
Stages ==
    \A u \in Client :
        /\ client[u].conf # None => client[u].st = "open"
        /\ client[u].port # None <=> client[u].st \in {"open", "dead"}

\* Nothing is there before the rehash that makes it.
NothingEarly ==
    /\ \A i \in AuthId : auth[i].st # "none" => i[2] <= gen
    /\ \A i \in LinkId : link[i].st # "none" => i[2] <= gen
    /\ \A n \in ClassName : table[n] <= gen
    /\ \A k \in ClassId \ {Default} :
          class[k].alive => 0 < k[2] /\ k[2] <= gen

\* A class is marked when it is not on the list, and only then; and what can be
\* attached to is of a class that is not marked, or of a stray one.
Marked ==
    /\ class[Default].alive /\ class[Default].max # -1
    /\ \A k \in ClassId \ {Default} :
          class[k].alive => (class[k].max = -1 <=> table[k[1]] # k[2])
    /\ \A i \in AuthId : auth[i].st = "legal" => class[auth[i].class].max # -1
    /\ \A i \in LinkId : link[i].st = "legal" =>
          class[link[i].class].max # -1 \/ link[i].class \in strays

\* A class without a limit counts no address: what it has is from before, when
\* those who are gone were counted and those who were refused.
Uncounted ==
    \A k \in ClassId \ mixed, n \in Net :
        class[k].alive /\ class[k].perIp = 0 => class[k].ip[n] = class[k].refused[n]

ConfInv ==
    /\ ConfTypeOK /\ RefsCounted /\ NothingDangles /\ NothingLeaks
    /\ AddressesCounted /\ Uncounted
    /\ Stages /\ NothingEarly /\ Marked

-----------------------------------------------------------------------------
(* Counting.                                                               *)

\* All holders are finite sets.
LEMMA Finite ==
    /\ \A i : IsFiniteSet(UsersOf(i)) /\ IsFiniteSet(ServersOf(i))
    /\ \A p : IsFiniteSet(HoldersOf(p))
    /\ \A k : IsFiniteSet(InClass(k)) /\ \A n : IsFiniteSet(From(k, n))
  <1>1. \A S \in SUBSET Client : IsFiniteSet(S)
    BY FS_Subset, ConfRefsAssumption
  <1>2. \A S \in SUBSET Server : IsFiniteSet(S)
    BY FS_Subset, ConfRefsAssumption
  <1>3. \A i : UsersOf(i) \in SUBSET Client /\ ServersOf(i) \in SUBSET Server
    BY DEF UsersOf, ServersOf
  <1>4. \A p : HoldersOf(p) \in SUBSET Client
    BY DEF HoldersOf
  <1>5. IsFiniteSet(Client \cup Server)
    BY FS_Union, ConfRefsAssumption
  <1>6. \A S \in SUBSET (Client \cup Server) : IsFiniteSet(S)
    BY <1>5, FS_Subset
  <1>7. \A k : InClass(k) \in SUBSET (Client \cup Server)
    BY DEF InClass
  <1>8. \A k, n : From(k, n) \in SUBSET Client
    BY DEF From
  <1> QED BY <1>1, <1>2, <1>3, <1>4, <1>6, <1>7, <1>8

\* One more and one less.
LEMMA OneMore ==
    ASSUME NEW S, IsFiniteSet(S), NEW x, x \notin S
    PROVE  Cardinality(S) \in Nat /\ Cardinality(S \cup {x}) = Cardinality(S) + 1
  BY FS_AddElement, FS_CardinalityType

\* One element less.
LEMMA OneLess ==
    ASSUME NEW S, IsFiniteSet(S), NEW x \in S
    PROVE  /\ Cardinality(S) \in Nat \ {0} /\ Cardinality(S \ {x}) = Cardinality(S) - 1
           /\ Cardinality(S) = 1 => S = {x}
  <1>1. Cardinality(S) \in Nat /\ Cardinality(S) # 0
    BY FS_CardinalityType, FS_EmptySet
  <1>2. Cardinality(S \ {x}) = Cardinality(S) - 1
    BY FS_RemoveElement
  <1>3. IsFiniteSet(S \ {x})
    BY FS_RemoveElement
  <1>4. Cardinality(S) = 1 => S \ {x} = {}
    BY <1>2, <1>3, FS_EmptySet
  <1> QED BY <1>1, <1>2, <1>4

\* No elements.
LEMMA Nobody ==
    ASSUME NEW S, IsFiniteSet(S)
    PROVE  Cardinality(S) \in Nat /\ (Cardinality(S) = 0 <=> S = {})
  BY FS_CardinalityType, FS_EmptySet

\* None is no block, port or class, and Default is none of the configured classes.
LEMMA Names ==
    /\ None \notin AuthId /\ None \notin LinkId /\ None \notin Port
    /\ Default \in ClassId
    /\ \A k \in ClassId \ {Default} : k[1] \in ClassName /\ k[2] \in Gen /\ k = <<k[1], k[2]>>
    /\ \A n \in ClassName, g \in Gen : <<n, g>> \in ClassId \ {Default}
  BY ConfRefsAssumption DEF ClassId, Default, Gen, AuthId, LinkId, None

-----------------------------------------------------------------------------
(* The first reading of the configuration starts from nothing.             *)

\* A class that make_class has just made.
LEMMA NewClassFields ==
    ASSUME NEW al \in BOOLEAN, NEW mx \in Nat, NEW pi \in Nat
    PROVE  LET C == NewClass(al, mx, pi) IN
           /\ C \in [alive : BOOLEAN, max : Nat \cup {-1}, perIp : Nat,
                     users : Nat, ip : [Net -> Nat], refused : [Net -> Nat]]
           /\ C.alive = al /\ C.max = mx /\ C.perIp = pi /\ C.users = 0
           /\ C.ip = [n \in Net |-> 0] /\ C.refused = [n \in Net |-> 0]
  BY DEF NewClass

\* The configuration that the process starts with.
LEMMA ConfStarts ==
    ASSUME ConfInit
    PROVE  ConfInv
  <1> USE DEF ConfInit
  <1>1. ConfTypeOK
    <2>1. class \in [ClassId -> [alive : BOOLEAN, max : Nat \cup {-1}, perIp : Nat,
                               users : Nat, ip : [Net -> Nat], refused : [Net -> Nat]]]
      BY NewClassFields
    <2>2. gen \in Gen /\ table \in [ClassName -> Gen]
      BY ConfRefsAssumption DEF Gen
    <2> QED BY <2>1, <2>2, Names DEF ConfTypeOK
  <1>2. Stages
    BY DEF Stages
  <1>3. \A k \in ClassId :
            /\ class[k].alive <=> k = Default
            /\ class[k].max = 1 /\ class[k].users = 0 /\ class[k].perIp = 0
    <2> TAKE k \in ClassId
    <2>1. PICK al \in BOOLEAN : al <=> k = Default
      OBVIOUS
    <2>2. class[k] = NewClass(al, 1, 0)
      BY <2>1
    <2> QED BY <2>1, <2>2, NewClassFields
  <1>4. NothingEarly
    BY <1>3, ConfRefsAssumption, Names DEF NothingEarly
  <1>5. Marked
    <2>1. class[Default].alive /\ class[Default].max = 1
      BY <1>3, Names, Zenon
    <2>2. \A i \in AuthId : auth[i].st = "none"
      OBVIOUS
    <2>3. \A i \in LinkId : link[i].st = "none"
      OBVIOUS
    <2> QED BY <1>3, <2>1, <2>2, <2>3 DEF Marked
  <1>6. NothingDangles
    BY <1>3, ConfRefsAssumption, Names DEF NothingDangles
  <1>7. /\ \A i \in AuthId : UsersOf(i) = {}
        /\ \A i \in LinkId : ServersOf(i) = {}
        /\ \A p \in Port : HoldersOf(p) = {}
        /\ \A k : InClass(k) = {} /\ \A n : From(k, n) = {}
    BY Names DEF UsersOf, ServersOf, HoldersOf, InClass, From
  <1>8. RefsCounted
    BY <1>3, <1>7, FS_EmptySet DEF RefsCounted
  <1>9. NothingLeaks
    BY <1>3 DEF NothingLeaks
  <1>10. AddressesCounted
    BY <1>3 DEF AddressesCounted
  <1>11. Uncounted
    <2> SUFFICES ASSUME NEW k \in ClassId, NEW n \in Net
                 PROVE  class[k].ip[n] = class[k].refused[n]
      BY DEF Uncounted
    <2>1. PICK al \in BOOLEAN : al <=> k = Default
      OBVIOUS
    <2>2. class[k] = NewClass(al, 1, 0)
      BY <2>1
    <2> QED BY <2>2, NewClassFields
  <1> QED BY <1>1, <1>2, <1>4, <1>5, <1>6, <1>8, <1>9, <1>10, <1>11 DEF ConfInv

-----------------------------------------------------------------------------
(* Clients that come, and are freed.                                       *)

\* Who keeps its block, of the same class, is counted where it was.
LEMMA SameHolders ==
    ASSUME \A v \in Client : client'[v].conf = client[v].conf, peer' = peer,
           \A v \in Client : client[v].conf # None =>
               auth'[client[v].conf].class = auth[client[v].conf].class,
           \A s \in Server : peer[s] # None => link'[peer[s]].class = link[peer[s]].class
    PROVE  /\ \A i : UsersOf(i)' = UsersOf(i) /\ ServersOf(i)' = ServersOf(i)
           /\ \A k : InClass(k)' = InClass(k)
           /\ \A k, n : From(k, n)' = From(k, n)
  <1>1. \A i : UsersOf(i)' = UsersOf(i) /\ ServersOf(i)' = ServersOf(i)
    BY DEF UsersOf, ServersOf
  <1>2. \A k : InClass(k)' = InClass(k)
    BY DEF InClass
  <1> QED BY <1>1, <1>2 DEF From

\* add_connection.
LEMMA AddConnectionKeeps ==
    ASSUME ConfInv, NEW u \in Client, NEW p \in Port, AddConnection(u, p)
    PROVE  ConfInv'
  <1>1. /\ client[u].st = "new" /\ client[u].conf = None /\ client[u].port = None
        /\ listener[p].st = "active"
        /\ client' = [client EXCEPT ![u] = [st |-> "open", conf |-> None, port |-> p]]
        /\ listener' = [listener EXCEPT ![p] = [st |-> listener[p].st, refs |-> listener[p].refs + 1]]
        /\ UNCHANGED <<gen, strays, mixed, table, class, auth, link, peer>>
    BY DEF AddConnection, ConfInv, Stages, spoilt
  <1>2. ConfTypeOK'
    BY <1>1 DEF ConfInv, ConfTypeOK
  <1>3. /\ \A i : UsersOf(i)' = UsersOf(i) /\ ServersOf(i)' = ServersOf(i)
        /\ \A k : InClass(k)' = InClass(k)
        /\ \A k, n : From(k, n)' = From(k, n)
    BY <1>1, SameHolders DEF ConfInv, ConfTypeOK
  <1>4. /\ \A q \in Port \ {p} : HoldersOf(q)' = HoldersOf(q)
        /\ HoldersOf(p)' = HoldersOf(p) \cup {u} /\ u \notin HoldersOf(p)
    BY <1>1, Names DEF HoldersOf, ConfInv, ConfTypeOK
  <1>5. Cardinality(HoldersOf(p)') = Cardinality(HoldersOf(p)) + 1
    BY <1>4, Finite, OneMore
  <1>6. RefsCounted'
    <2>1. \A q \in Port : listener'[q].refs = Cardinality(HoldersOf(q)')
      <3> TAKE q \in Port
      <3>1. listener[q].refs = Cardinality(HoldersOf(q)) /\ listener \in [Port -> [st : {"none", "active", "closed"}, refs : Nat]]
        BY DEF RefsCounted, ConfInv, ConfTypeOK
      <3>2. CASE q = p
        BY <1>1, <1>5, <3>1, <3>2
      <3>3. CASE q # p
        BY <1>1, <1>4, <3>1, <3>3
      <3> QED BY <3>2, <3>3
    <2> QED BY <1>1, <1>3, <2>1 DEF RefsCounted, ConfInv
  <1>7. AddressesCounted' /\ Uncounted'
    BY <1>1, <1>3 DEF AddressesCounted, Uncounted, ConfInv
  <1>8. NothingDangles' /\ Stages'
    BY <1>1, Names DEF NothingDangles, Stages, ConfInv, ConfTypeOK
  <1>9. NothingLeaks'
    <2>1. \A q \in Port : listener'[q].st = "closed" => HoldersOf(q)' # {}
      BY <1>1, <1>4 DEF NothingLeaks, ConfInv, ConfTypeOK
    <2> QED BY <1>1, <1>3, <2>1 DEF NothingLeaks, ConfInv
  <1>10. NothingEarly' /\ Marked'
    BY <1>1 DEF NothingEarly, Marked, ConfInv
  <1> QED BY <1>2, <1>6, <1>7, <1>8, <1>9, <1>10 DEF ConfInv

\* free_local_client.
LEMMA FreeLocalClientKeeps ==
    ASSUME ConfInv, NEW u \in Client, FreeLocalClient(u)
    PROVE  ConfInv'
  <1>1. PICK p \in Port : p = client[u].port
    BY Names DEF FreeLocalClient, ConfInv, Stages, ConfTypeOK
  <1>2. PICK left : left = listener[p].refs - 1
    OBVIOUS
  <1>3. /\ client[u].st = "dead" /\ client[u].conf = None
        /\ client' = [client EXCEPT ![u] = [st |-> "freed", conf |-> None, port |-> None]]
        /\ listener' = [listener EXCEPT ![p] =
              [st |-> IF left = 0 /\ listener[p].st = "closed" THEN "none" ELSE listener[p].st,
               refs |-> left]]
        /\ UNCHANGED <<gen, strays, mixed, table, class, auth, link, peer>>
    BY <1>1, <1>2 DEF FreeLocalClient, ConfInv, Stages, spoilt
  <1>4. /\ \A q \in Port \ {p} : HoldersOf(q)' = HoldersOf(q)
        /\ HoldersOf(p)' = HoldersOf(p) \ {u} /\ u \in HoldersOf(p)
    BY <1>1, <1>3, Names DEF HoldersOf, ConfInv, ConfTypeOK
  <1>5. /\ listener[p].refs = Cardinality(HoldersOf(p)) /\ listener[p].refs \in Nat \ {0}
        /\ left = Cardinality(HoldersOf(p)') /\ left \in Nat
    <2>1. listener[p].refs = Cardinality(HoldersOf(p))
      BY DEF ConfInv, RefsCounted
    <2>2. /\ Cardinality(HoldersOf(p)) \in Nat \ {0}
          /\ Cardinality(HoldersOf(p) \ {u}) = Cardinality(HoldersOf(p)) - 1
      BY <1>4, Finite, OneLess
    <2> QED BY <1>2, <1>4, <2>1, <2>2
  <1>6. left = 0 <=> HoldersOf(p)' = {}
    <2>1. IsFiniteSet(HoldersOf(p)')
      BY <1>4, Finite, FS_RemoveElement
    <2> QED BY <1>5, <2>1, Nobody
  <1>7. ConfTypeOK'
    BY <1>3, <1>5 DEF ConfInv, ConfTypeOK
  <1>8. /\ \A i : UsersOf(i)' = UsersOf(i) /\ ServersOf(i)' = ServersOf(i)
        /\ \A k : InClass(k)' = InClass(k)
        /\ \A k, n : From(k, n)' = From(k, n)
    BY <1>3, SameHolders DEF ConfInv, ConfTypeOK
  <1>9. RefsCounted'
    <2>1. \A q \in Port : listener'[q].refs = Cardinality(HoldersOf(q)')
      <3> TAKE q \in Port
      <3>1. listener[q].refs = Cardinality(HoldersOf(q)) /\ listener \in [Port -> [st : {"none", "active", "closed"}, refs : Nat]]
        BY DEF RefsCounted, ConfInv, ConfTypeOK
      <3>2. CASE q = p
        BY <1>3, <1>5, <3>1, <3>2
      <3>3. CASE q # p
        BY <1>3, <1>4, <3>1, <3>3
      <3> QED BY <3>2, <3>3
    <2> QED BY <1>3, <1>8, <2>1 DEF RefsCounted, ConfInv
  <1>10. AddressesCounted' /\ Uncounted'
    BY <1>3, <1>8 DEF AddressesCounted, Uncounted, ConfInv
  <1>11. Stages'
    BY <1>3, Names DEF Stages, ConfInv, ConfTypeOK
  <1>12. NothingDangles'
    <2>1. \A v \in Client : client'[v].port # None => listener'[client'[v].port].st # "none"
      <3> SUFFICES ASSUME NEW v \in Client, client'[v].port # None
                   PROVE  listener'[client'[v].port].st # "none"
        OBVIOUS
      <3>1. v # u /\ client'[v] = client[v] /\ client[v].port \in Port
        BY <1>3 DEF ConfInv, ConfTypeOK
      <3>2. listener[client[v].port].st # "none"
        BY <3>1 DEF ConfInv, NothingDangles
      <3>3. client[v].port = p => v \in HoldersOf(p)'
        BY <3>1 DEF HoldersOf
      <3> QED BY <1>3, <1>6, <3>1, <3>2, <3>3 DEF ConfInv, ConfTypeOK
    <2> QED BY <1>3, <2>1 DEF NothingDangles, ConfInv, ConfTypeOK
  <1>13. NothingLeaks'
    <2>1. \A q \in Port : listener'[q].st = "closed" => HoldersOf(q)' # {}
      BY <1>3, <1>4, <1>6 DEF NothingLeaks, ConfInv, ConfTypeOK
    <2> QED BY <1>3, <1>8, <2>1 DEF NothingLeaks, ConfInv
  <1>14. NothingEarly' /\ Marked'
    BY <1>3 DEF NothingEarly, Marked, ConfInv
  <1> QED BY <1>7, <1>9, <1>10, <1>11, <1>12, <1>13, <1>14 DEF ConfInv

-----------------------------------------------------------------------------
(* Clients that attach and detach.                                         *)

ClassRec == [alive : BOOLEAN, max : Nat \cup {-1}, perIp : Nat,
             users : Nat, ip : [Net -> Nat], refused : [Net -> Nat]]

\* A class that is counted is still a class, whatever was counted before; and where
\* there is a limit, and an entry to take from, the count of the address is right.
LEMMA CountingTyped ==
    ASSUME NEW C \in ClassRec, NEW a \in Int, NEW n \in Net, NEW b \in {-1, 0, 1}, NEW c \in Nat,
           C.users + a \in Nat
    PROVE  LET D == Counting(C, a, n, b, c) IN
           /\ D \in ClassRec
           /\ D.alive = C.alive /\ D.max = C.max /\ D.perIp = C.perIp /\ D.users = C.users + a
           /\ C.perIp = 0 => D.ip = C.ip /\ D.refused = C.refused
           /\ C.perIp > 0 /\ (b # -1 \/ C.ip[n] # 0) =>
                 /\ D.ip[n] = C.ip[n] + b /\ D.refused[n] = C.refused[n] + c
                 /\ \A m \in Net \ {n} : D.ip[m] = C.ip[m] /\ D.refused[m] = C.refused[m]
  <1> DEFINE ip == [C.ip EXCEPT ![n] = IF C.perIp = 0 \/ (b = -1 /\ @ = 0) THEN @ ELSE @ + b]
             refused == [C.refused EXCEPT ![n] = @ + IF C.perIp = 0 THEN 0 ELSE c]
  <1>1. /\ C.alive \in BOOLEAN /\ C.max \in Nat \cup {-1} /\ C.perIp \in Nat /\ C.users \in Nat
        /\ C.ip \in [Net -> Nat] /\ C.refused \in [Net -> Nat]
    BY DEF ClassRec
  <1>2. ip \in [Net -> Nat] /\ refused \in [Net -> Nat]
    BY <1>1
  <1>3. Counting(C, a, n, b, c) = [alive |-> C.alive, max |-> C.max, perIp |-> C.perIp,
                                   users |-> C.users + a, ip |-> ip, refused |-> refused]
    BY DEF Counting
  <1>4. C.perIp > 0 /\ (b # -1 \/ C.ip[n] # 0) =>
            /\ ip[n] = C.ip[n] + b /\ refused[n] = C.refused[n] + c
            /\ \A m \in Net \ {n} : ip[m] = C.ip[m] /\ refused[m] = C.refused[m]
    BY <1>1
  <1>5. C.perIp = 0 => ip = C.ip /\ refused = C.refused
    BY <1>1
  <1> HIDE DEF ip, refused
  <1>6. Counting(C, a, n, b, c) \in ClassRec
    BY <1>1, <1>2, <1>3 DEF ClassRec
  <1> QED BY <1>3, <1>4, <1>5, <1>6

\* One class changes.
LEMMA OneClass ==
    ASSUME ConfTypeOK, NEW k \in ClassId, NEW D \in ClassRec, class' = [class EXCEPT ![k] = D]
    PROVE  /\ class \in [ClassId -> ClassRec] /\ class' \in [ClassId -> ClassRec]
           /\ class'[k] = D /\ \A j \in ClassId \ {k} : class'[j] = class[j]
  BY DEF ConfTypeOK, ClassRec

\* attach_iline, attach_conf: the client has its block.
LEMMA AttachConfKeeps ==
    ASSUME ConfInv, NEW u \in Client, NEW i \in AuthId, AttachConf(u, i)
    PROVE  ConfInv'
  <1>1. PICK k \in ClassId : k = auth[i].class
    BY DEF ConfInv, ConfTypeOK
  <1>2. PICK n \in Net : n = NetOf[u]
    BY ConfRefsAssumption
  <1>3. PICK D : D = Counting(class[k], 1, n, 1, 0)
    OBVIOUS
  <1>4. /\ client[u].st = "open" /\ client[u].conf = None /\ auth[i].st = "legal"
        /\ client' = [client EXCEPT ![u] = [st |-> "open", conf |-> i, port |-> client[u].port]]
        /\ auth' = [auth EXCEPT ![i] = [st |-> auth[i].st, class |-> auth[i].class,
                                        clients |-> auth[i].clients + 1]]
        /\ class' = [class EXCEPT ![k] = D]
        /\ UNCHANGED <<gen, strays, mixed, table, link, listener, peer>>
    BY <1>1, <1>2, <1>3 DEF AttachConf, spoilt
  <1>5. class[k] \in ClassRec /\ class[k].alive
    BY <1>1, <1>4 DEF ConfInv, ConfTypeOK, ClassRec, NothingDangles
  <1>6. class[k].users + 1 \in Nat
    BY <1>5 DEF ClassRec
  <1>7. /\ D \in ClassRec
        /\ D.alive = class[k].alive /\ D.max = class[k].max /\ D.perIp = class[k].perIp
        /\ D.users = class[k].users + 1
        /\ class[k].perIp = 0 => D.ip = class[k].ip /\ D.refused = class[k].refused
        /\ class[k].perIp > 0 =>
              /\ D.ip[n] = class[k].ip[n] + 1 /\ D.refused[n] = class[k].refused[n] + 0
              /\ \A m \in Net \ {n} : D.ip[m] = class[k].ip[m] /\ D.refused[m] = class[k].refused[m]
    <2>1. PICK C \in ClassRec : C = class[k]
      BY <1>5
    <2>2. C.users + 1 \in Nat
      BY <1>6, <2>1
    <2> HIDE <2>1
    <2>3. LET E == Counting(C, 1, n, 1, 0) IN
          /\ E \in ClassRec
          /\ E.alive = C.alive /\ E.max = C.max /\ E.perIp = C.perIp /\ E.users = C.users + 1
          /\ C.perIp = 0 => E.ip = C.ip /\ E.refused = C.refused
          /\ C.perIp > 0 => /\ E.ip[n] = C.ip[n] + 1 /\ E.refused[n] = C.refused[n] + 0
                            /\ \A m \in Net \ {n} : E.ip[m] = C.ip[m] /\ E.refused[m] = C.refused[m]
      BY <2>2, CountingTyped
    <2> QED BY <1>3, <2>1, <2>3
  <1>8. /\ class' \in [ClassId -> ClassRec] /\ class'[k] = D
        /\ \A j \in ClassId \ {k} : class'[j] = class[j]
    BY <1>4, <1>7, OneClass DEF ConfInv
  <1>9. \A j \in ClassId : /\ class'[j].alive = class[j].alive /\ class'[j].max = class[j].max
                           /\ class'[j].perIp = class[j].perIp
    BY <1>7, <1>8
  <1>10. /\ auth' \in [AuthId -> [st : {"none", "legal", "illegal"}, class : ClassId, clients : Nat]]
         /\ auth'[i].clients = auth[i].clients + 1
         /\ \A j \in AuthId : auth'[j].st = auth[j].st /\ auth'[j].class = auth[j].class
         /\ \A j \in AuthId \ {i} : auth'[j] = auth[j]
    BY <1>4 DEF ConfInv, ConfTypeOK
  <1>11. /\ client' \in [Client -> [st : {"new", "open", "dead", "freed"},
                                    conf : AuthId \cup {None}, port : Port \cup {None}]]
         /\ client'[u].conf = i
         /\ \A v \in Client : client'[v].st = client[v].st /\ client'[v].port = client[v].port
         /\ \A v \in Client \ {u} : client'[v] = client[v]
    BY <1>4 DEF ConfInv, ConfTypeOK
  <1>12. ConfTypeOK'
    BY <1>4, <1>8, <1>10, <1>11 DEF ConfInv, ConfTypeOK, ClassRec
  <1>13. /\ UsersOf(i)' = UsersOf(i) \cup {u} /\ u \notin UsersOf(i)
         /\ \A j \in AuthId \ {i} : UsersOf(j)' = UsersOf(j)
         /\ \A j \in LinkId : ServersOf(j)' = ServersOf(j)
         /\ \A p \in Port : HoldersOf(p)' = HoldersOf(p)
    BY <1>4, <1>11, Names DEF UsersOf, ServersOf, HoldersOf
  <1>14. /\ InClass(k)' = InClass(k) \cup {u} /\ u \notin InClass(k)
         /\ \A j \in ClassId \ {k} : InClass(j)' = InClass(j)
    BY <1>1, <1>4, <1>10, <1>11, Names, ConfRefsAssumption DEF InClass, ConfInv, ConfTypeOK
  <1>15. /\ From(k, n)' = From(k, n) \cup {u} /\ u \notin From(k, n)
         /\ \A m \in Net \ {n} : From(k, m)' = From(k, m)
         /\ \A j \in ClassId \ {k}, m \in Net : From(j, m)' = From(j, m)
    BY <1>2, <1>14 DEF From
  <1>16. RefsCounted'
    <2>1. \A j \in AuthId : auth'[j].clients = Cardinality(UsersOf(j)')
      <3>1. auth[i].clients = Cardinality(UsersOf(i)) /\ Cardinality(UsersOf(i)') = Cardinality(UsersOf(i)) + 1
        BY <1>13, Finite, OneMore DEF ConfInv, RefsCounted
      <3>2. \A j \in AuthId \ {i} : auth[j].clients = Cardinality(UsersOf(j))
        BY DEF ConfInv, RefsCounted
      <3> QED BY <1>10, <1>13, <3>1, <3>2
    <2>2. \A j \in ClassId : class'[j].alive => class'[j].users = Cardinality(InClass(j)')
      <3>1. class[k].users = Cardinality(InClass(k)) /\ Cardinality(InClass(k)') = Cardinality(InClass(k)) + 1
        BY <1>5, <1>14, Finite, OneMore DEF ConfInv, RefsCounted
      <3>2. \A j \in ClassId \ {k} : class[j].alive => class[j].users = Cardinality(InClass(j))
        BY DEF ConfInv, RefsCounted
      <3> QED BY <1>7, <1>8, <1>14, <3>1, <3>2
    <2> QED BY <1>4, <1>13, <2>1, <2>2 DEF ConfInv, RefsCounted
  <1>17. AddressesCounted'
    <2> SUFFICES ASSUME NEW j \in ClassId \ mixed, NEW m \in Net, class'[j].alive, class'[j].perIp > 0
                 PROVE  class'[j].ip[m] = class'[j].refused[m] + Cardinality(From(j, m)')
      BY <1>4 DEF AddressesCounted
    <2>1. class[j].ip[m] = class[j].refused[m] + Cardinality(From(j, m))
      BY <1>9 DEF ConfInv, AddressesCounted
    <2>2. CASE j = k /\ m = n
      <3>1. Cardinality(From(k, n)') = Cardinality(From(k, n)) + 1 /\ Cardinality(From(k, n)) \in Nat
        BY <1>15, Finite, OneMore
      <3>2. class[k].refused[n] \in Nat
        BY <1>5 DEF ClassRec
      <3> QED BY <1>7, <1>8, <1>9, <2>1, <2>2, <3>1, <3>2
    <2>3. CASE j = k /\ m # n
      BY <1>7, <1>8, <1>9, <1>15, <2>1, <2>3
    <2>4. CASE j # k
      BY <1>8, <1>15, <2>1, <2>4
    <2> QED BY <2>2, <2>3, <2>4
  <1>18. NothingDangles'
    BY <1>4, <1>9, <1>10, <1>11 DEF ConfInv, ConfTypeOK, NothingDangles
  <1>19. NothingLeaks'
    BY <1>4, <1>9, <1>10, <1>13, <1>14 DEF ConfInv, ConfTypeOK, NothingLeaks
  <1>20. Stages'
    BY <1>4, <1>11 DEF ConfInv, Stages
  <1>22. Uncounted'
    <2> SUFFICES ASSUME NEW j \in ClassId \ mixed, NEW m \in Net, class'[j].alive, class'[j].perIp = 0
                 PROVE  class'[j].ip[m] = class'[j].refused[m]
      BY <1>4 DEF Uncounted
    <2>1. class[j].ip[m] = class[j].refused[m]
      BY <1>9 DEF ConfInv, Uncounted
    <2> QED BY <1>7, <1>8, <1>9, <2>1
  <1>21. NothingEarly' /\ Marked'
    BY <1>4, <1>9, <1>10, Names DEF ConfInv, ConfTypeOK, NothingEarly, Marked
  <1> QED BY <1>12, <1>16, <1>17, <1>18, <1>19, <1>20, <1>21, <1>22 DEF ConfInv

\* attach_conf: the class is full, and the address stays counted.
LEMMA AttachFullKeeps ==
    ASSUME ConfInv, NEW u \in Client, NEW i \in AuthId, AttachFull(u, i)
    PROVE  ConfInv'
  <1>1. PICK k \in ClassId : k = auth[i].class
    BY DEF ConfInv, ConfTypeOK
  <1>2. PICK n \in Net : n = NetOf[u]
    BY ConfRefsAssumption
  <1>3. PICK D : D = Counting(class[k], 0, n, 1, 1)
    OBVIOUS
  <1>4. /\ client[u].st = "open" /\ client[u].conf = None
        /\ client' = [client EXCEPT ![u] = [st |-> "dead", conf |-> None, port |-> client[u].port]]
        /\ class' = [class EXCEPT ![k] = D]
        /\ UNCHANGED <<gen, strays, mixed, table, auth, link, listener, peer>>
    BY <1>1, <1>2, <1>3 DEF AttachFull, spoilt
  <1>5. class[k] \in ClassRec
    BY DEF ConfInv, ConfTypeOK, ClassRec
  <1>6. class[k].users + 0 \in Nat
    BY <1>5 DEF ClassRec
  <1>7. /\ D \in ClassRec
        /\ D.alive = class[k].alive /\ D.max = class[k].max /\ D.perIp = class[k].perIp
        /\ D.users = class[k].users
        /\ class[k].perIp = 0 => D.ip = class[k].ip /\ D.refused = class[k].refused
        /\ class[k].perIp > 0 =>
              /\ D.ip[n] = class[k].ip[n] + 1 /\ D.refused[n] = class[k].refused[n] + 1
              /\ \A m \in Net \ {n} : D.ip[m] = class[k].ip[m] /\ D.refused[m] = class[k].refused[m]
    <2>1. PICK C \in ClassRec : C = class[k]
      BY <1>5
    <2>2. C.users + 0 \in Nat
      BY <1>6, <2>1
    <2>3. LET E == Counting(C, 0, n, 1, 1) IN
          /\ E \in ClassRec
          /\ E.alive = C.alive /\ E.max = C.max /\ E.perIp = C.perIp /\ E.users = C.users + 0
          /\ C.perIp = 0 => E.ip = C.ip /\ E.refused = C.refused
          /\ C.perIp > 0 => /\ E.ip[n] = C.ip[n] + 1 /\ E.refused[n] = C.refused[n] + 1
                            /\ \A m \in Net \ {n} : E.ip[m] = C.ip[m] /\ E.refused[m] = C.refused[m]
      BY <2>2, CountingTyped
    <2>4. C.users + 0 = C.users
      BY DEF ClassRec
    <2> QED BY <1>3, <2>1, <2>3, <2>4
  <1>8. /\ class' \in [ClassId -> ClassRec] /\ class'[k] = D
        /\ \A j \in ClassId \ {k} : class'[j] = class[j]
    BY <1>4, <1>7, OneClass DEF ConfInv
  <1>9. \A j \in ClassId :
            /\ class'[j].alive = class[j].alive /\ class'[j].max = class[j].max
            /\ class'[j].perIp = class[j].perIp /\ class'[j].users = class[j].users
    BY <1>7, <1>8
  <1>10. /\ client' \in [Client -> [st : {"new", "open", "dead", "freed"},
                                    conf : AuthId \cup {None}, port : Port \cup {None}]]
         /\ \A v \in Client : client'[v].conf = client[v].conf /\ client'[v].port = client[v].port
         /\ \A v \in Client \ {u} : client'[v] = client[v]
    BY <1>4 DEF ConfInv, ConfTypeOK
  <1>11. ConfTypeOK'
    BY <1>4, <1>8, <1>10 DEF ConfInv, ConfTypeOK, ClassRec
  <1>12. /\ \A j : UsersOf(j)' = UsersOf(j) /\ ServersOf(j)' = ServersOf(j)
         /\ \A j : InClass(j)' = InClass(j)
         /\ \A j, m : From(j, m)' = From(j, m)
    BY <1>4, <1>10, SameHolders
  <1>13. \A p : HoldersOf(p)' = HoldersOf(p)
    BY <1>10 DEF HoldersOf
  <1>14. RefsCounted'
    BY <1>4, <1>9, <1>12, <1>13 DEF ConfInv, RefsCounted
  <1>15. AddressesCounted'
    <2> SUFFICES ASSUME NEW j \in ClassId \ mixed, NEW m \in Net, class'[j].alive, class'[j].perIp > 0
                 PROVE  class'[j].ip[m] = class'[j].refused[m] + Cardinality(From(j, m))
      BY <1>4, <1>12 DEF AddressesCounted
    <2>1. class[j].ip[m] = class[j].refused[m] + Cardinality(From(j, m))
      BY <1>9 DEF ConfInv, AddressesCounted
    <2>2. CASE j = k /\ m = n
      <3>1. Cardinality(From(k, n)) \in Nat /\ class[k].refused[n] \in Nat
        BY <1>5, Finite, FS_CardinalityType DEF ClassRec
      <3> QED BY <1>7, <1>8, <1>9, <2>1, <2>2, <3>1
    <2>3. CASE j = k /\ m # n
      BY <1>7, <1>8, <1>9, <2>1, <2>3
    <2>4. CASE j # k
      BY <1>8, <2>1, <2>4
    <2> QED BY <2>2, <2>3, <2>4
  <1>16. NothingDangles'
    BY <1>4, <1>9, <1>10 DEF ConfInv, ConfTypeOK, NothingDangles
  <1>17. NothingLeaks'
    BY <1>4, <1>9, <1>12, <1>13 DEF ConfInv, NothingLeaks
  <1>18. Stages'
    BY <1>4, <1>10 DEF ConfInv, ConfTypeOK, Stages
  <1>20. Uncounted'
    <2> SUFFICES ASSUME NEW j \in ClassId \ mixed, NEW m \in Net, class'[j].alive, class'[j].perIp = 0
                 PROVE  class'[j].ip[m] = class'[j].refused[m]
      BY <1>4 DEF Uncounted
    <2>1. class[j].ip[m] = class[j].refused[m]
      BY <1>9 DEF ConfInv, Uncounted
    <2> QED BY <1>7, <1>8, <1>9, <2>1
  <1>19. NothingEarly' /\ Marked'
    BY <1>4, <1>9, Names DEF ConfInv, ConfTypeOK, NothingEarly, Marked
  <1> QED BY <1>11, <1>14, <1>15, <1>16, <1>17, <1>18, <1>19, <1>20 DEF ConfInv

\* A client that goes before it has a conf.
LEMMA CloseWithoutConf ==
    ASSUME ConfInv, NEW u \in Client, CloseConnection(u), client[u].conf = None
    PROVE  ConfInv'
  <1>1. /\ client[u].st = "open"
        /\ client' = [client EXCEPT ![u] = [st |-> "dead", conf |-> None, port |-> client[u].port]]
        /\ UNCHANGED <<gen, strays, mixed, table, class, auth, link, listener, peer>>
    BY DEF CloseConnection, spoilt
  <1>2. /\ client' \in [Client -> [st : {"new", "open", "dead", "freed"},
                                   conf : AuthId \cup {None}, port : Port \cup {None}]]
        /\ \A v \in Client : client'[v].conf = client[v].conf /\ client'[v].port = client[v].port
        /\ \A v \in Client \ {u} : client'[v] = client[v]
    BY <1>1 DEF ConfInv, ConfTypeOK
  <1>3. ConfTypeOK'
    BY <1>1, <1>2 DEF ConfInv, ConfTypeOK
  <1>4. /\ \A j : UsersOf(j)' = UsersOf(j) /\ ServersOf(j)' = ServersOf(j)
        /\ \A j : InClass(j)' = InClass(j)
        /\ \A j, m : From(j, m)' = From(j, m)
    BY <1>1, <1>2, SameHolders
  <1>5. \A p : HoldersOf(p)' = HoldersOf(p)
    BY <1>2 DEF HoldersOf
  <1>6. RefsCounted' /\ NothingLeaks'
    BY <1>1, <1>4, <1>5 DEF ConfInv, RefsCounted, NothingLeaks
  <1>7. AddressesCounted' /\ Uncounted'
    BY <1>1, <1>4 DEF ConfInv, AddressesCounted, Uncounted
  <1>8. NothingDangles'
    BY <1>1, <1>2 DEF ConfInv, ConfTypeOK, NothingDangles
  <1>9. Stages'
    BY <1>1, <1>2 DEF ConfInv, ConfTypeOK, Stages
  <1>10. NothingEarly' /\ Marked'
    BY <1>1 DEF ConfInv, NothingEarly, Marked
  <1> QED BY <1>3, <1>6, <1>7, <1>8, <1>9, <1>10 DEF ConfInv

\* free_class, if it is called, only takes the class away.
LEMMA FreeIfLastFields ==
    ASSUME NEW C \in ClassRec
    PROVE  LET D == FreeIfLast(C) IN
           /\ D \in ClassRec
           /\ D.alive <=> C.alive /\ ~(C.max = -1 /\ C.users = 0)
           /\ D.max = C.max /\ D.perIp = C.perIp /\ D.users = C.users
           /\ D.ip = C.ip /\ D.refused = C.refused
  BY DEF FreeIfLast, ClassRec

\* A class that is marked and has nobody left: nothing that is still there is of it,
\* but connect{} blocks that took it on its way out.
LEMMA LastOneOut ==
    ASSUME ConfInv, NEW k \in ClassId, class[k].alive, class[k].max = -1
    PROVE  /\ \A i \in AuthId : auth[i].st # "none" /\ auth[i].class = k =>
                  auth[i].st = "illegal" /\ UsersOf(i) # {} /\ UsersOf(i) \subseteq InClass(k)
           /\ \A i \in LinkId : link[i].st # "none" /\ link[i].class = k =>
                  \/ link[i].st = "illegal" /\ ServersOf(i) # {} /\ ServersOf(i) \subseteq InClass(k)
                  \/ k \in strays
           /\ k # Default /\ \A n \in ClassName : table[n] # 0 => <<n, table[n]>> # k
  <1>1. k # Default /\ table[k[1]] # k[2]
    BY DEF ConfInv, Marked
  <1>2. ASSUME NEW i \in AuthId, auth[i].st # "none", auth[i].class = k
        PROVE  auth[i].st = "illegal" /\ UsersOf(i) # {} /\ UsersOf(i) \subseteq InClass(k)
    <2>1. auth[i].st = "illegal"
      BY <1>2 DEF ConfInv, ConfTypeOK, Marked
    <2>2. UsersOf(i) # {}
      BY <2>1 DEF ConfInv, NothingLeaks
    <2> QED BY <1>2, <2>1, <2>2, Names DEF UsersOf, InClass
  <1>3. ASSUME NEW i \in LinkId, link[i].st # "none", link[i].class = k
        PROVE  \/ link[i].st = "illegal" /\ ServersOf(i) # {} /\ ServersOf(i) \subseteq InClass(k)
               \/ k \in strays
    <2>1. link[i].st = "illegal" \/ k \in strays
      BY <1>3 DEF ConfInv, ConfTypeOK, Marked
    <2>2. link[i].st = "illegal" => ServersOf(i) # {}
      BY DEF ConfInv, NothingLeaks
    <2>3. ServersOf(i) \subseteq InClass(k)
      BY <1>3, Names DEF ServersOf, InClass
    <2> QED BY <2>1, <2>2, <2>3
  <1> QED BY <1>1, <1>2, <1>3

\* close_connection of one who has a block: detach_conf.
LEMMA CloseWithConf ==
    ASSUME ConfInv, NEW u \in Client, CloseConnection(u), client[u].conf # None
    PROVE  ConfInv'
  <1>1. PICK i \in AuthId : i = client[u].conf
    BY DEF ConfInv, ConfTypeOK
  <1>2. PICK k \in ClassId : k = auth[i].class
    BY DEF ConfInv, ConfTypeOK
  <1>3. PICK n \in Net : n = NetOf[u]
    BY ConfRefsAssumption
  <1>4. PICK left : left = auth[i].clients - 1
    OBVIOUS
  <1>5. PICK E : E = Counting(class[k], -1, n, -1, 0)
    OBVIOUS
  <1>6. PICK D : D = FreeIfLast(E)
    OBVIOUS
  <1>7. /\ client[u].st = "open"
        /\ client' = [client EXCEPT ![u] = [st |-> "dead", conf |-> None, port |-> client[u].port]]
        /\ auth' = [auth EXCEPT ![i] =
              [st |-> IF left = 0 /\ auth[i].st = "illegal" THEN "none" ELSE auth[i].st,
               class |-> auth[i].class, clients |-> left]]
        /\ class' = [class EXCEPT ![k] = D]
        /\ UNCHANGED <<gen, strays, mixed, table, link, listener, peer>>
    BY <1>1, <1>2, <1>3, <1>4, <1>5, <1>6, Names DEF CloseConnection, spoilt
  <1>8. /\ class[k] \in ClassRec /\ class[k].alive /\ auth[i].st # "none"
    BY <1>1, <1>2 DEF ConfInv, ConfTypeOK, ClassRec, NothingDangles
  <1>9. /\ client' \in [Client -> [st : {"new", "open", "dead", "freed"},
                                   conf : AuthId \cup {None}, port : Port \cup {None}]]
        /\ client'[u].conf = None /\ client'[u].port = client[u].port /\ client'[u].st = "dead"
        /\ \A v \in Client \ {u} : client'[v] = client[v]
        /\ \A v \in Client : client'[v].port = client[v].port
    BY <1>7 DEF ConfInv, ConfTypeOK
  <1>10. /\ UsersOf(i)' = UsersOf(i) \ {u} /\ u \in UsersOf(i)
         /\ \A j \in AuthId \ {i} : UsersOf(j)' = UsersOf(j)
         /\ \A j \in LinkId : ServersOf(j)' = ServersOf(j)
         /\ \A p \in Port : HoldersOf(p)' = HoldersOf(p)
    BY <1>1, <1>7, <1>9, Names DEF UsersOf, ServersOf, HoldersOf
  <1>11. /\ auth[i].clients = Cardinality(UsersOf(i)) /\ left = Cardinality(UsersOf(i)')
         /\ left \in Nat /\ (left = 0 <=> UsersOf(i)' = {})
    <2>1. auth[i].clients = Cardinality(UsersOf(i))
      BY DEF ConfInv, RefsCounted
    <2>2. /\ Cardinality(UsersOf(i)) \in Nat \ {0}
          /\ Cardinality(UsersOf(i) \ {u}) = Cardinality(UsersOf(i)) - 1
      BY <1>10, Finite, OneLess
    <2>3. IsFiniteSet(UsersOf(i)')
      BY <1>10, Finite, FS_RemoveElement
    <2> QED BY <1>4, <1>10, <2>1, <2>2, <2>3, Nobody
  <1>12. /\ auth' \in [AuthId -> [st : {"none", "legal", "illegal"}, class : ClassId, clients : Nat]]
         /\ auth'[i].clients = left
         /\ auth'[i].st = IF left = 0 /\ auth[i].st = "illegal" THEN "none" ELSE auth[i].st
         /\ \A j \in AuthId : auth'[j].class = auth[j].class
         /\ \A j \in AuthId \ {i} : auth'[j] = auth[j]
    BY <1>7, <1>11 DEF ConfInv, ConfTypeOK
  <1>13. /\ InClass(k)' = InClass(k) \ {u} /\ u \in InClass(k)
         /\ \A j \in ClassId \ {k} : InClass(j)' = InClass(j)
    BY <1>1, <1>2, <1>7, <1>9, <1>12, Names, ConfRefsAssumption DEF InClass, ConfInv, ConfTypeOK
  <1>14. /\ From(k, n)' = From(k, n) \ {u} /\ u \in From(k, n)
         /\ \A m \in Net \ {n} : From(k, m)' = From(k, m)
         /\ \A j \in ClassId \ {k}, m \in Net : From(j, m)' = From(j, m)
    BY <1>3, <1>13 DEF From
  <1>15. /\ class[k].users = Cardinality(InClass(k)) /\ class[k].users \in Nat \ {0}
         /\ Cardinality(InClass(k)') = class[k].users - 1
         /\ (class[k].users - 1 = 0 <=> InClass(k)' = {})
    <2>1. class[k].users = Cardinality(InClass(k))
      BY <1>8 DEF ConfInv, RefsCounted
    <2>2. /\ Cardinality(InClass(k)) \in Nat \ {0}
          /\ Cardinality(InClass(k) \ {u}) = Cardinality(InClass(k)) - 1
      BY <1>13, Finite, OneLess
    <2>3. IsFiniteSet(InClass(k)')
      BY <1>13, Finite, FS_RemoveElement
    <2> QED BY <1>13, <2>1, <2>2, <2>3, Nobody
  <1>16. class[k].perIp > 0 /\ k \notin mixed =>
            /\ class[k].ip[n] = class[k].refused[n] + Cardinality(From(k, n))
            /\ Cardinality(From(k, n)) \in Nat \ {0}
            /\ Cardinality(From(k, n)') = Cardinality(From(k, n)) - 1
            /\ class[k].refused[n] \in Nat /\ class[k].ip[n] \in Nat /\ class[k].ip[n] # 0
    <2>1. /\ Cardinality(From(k, n)) \in Nat \ {0}
          /\ Cardinality(From(k, n) \ {u}) = Cardinality(From(k, n)) - 1
      BY <1>14, Finite, OneLess
    <2>2. class[k].refused[n] \in Nat /\ class[k].ip[n] \in Nat
      BY <1>8 DEF ClassRec
    <2>3. class[k].perIp > 0 /\ k \notin mixed =>
              class[k].ip[n] = class[k].refused[n] + Cardinality(From(k, n))
      BY <1>8 DEF ConfInv, AddressesCounted
    <2> QED BY <1>14, <2>1, <2>2, <2>3
  <1>17. class[k].users + -1 \in Nat
    BY <1>15
  <1>18. /\ E \in ClassRec
         /\ E.alive = class[k].alive /\ E.max = class[k].max /\ E.perIp = class[k].perIp
         /\ E.users = class[k].users - 1
         /\ class[k].perIp = 0 => E.ip = class[k].ip /\ E.refused = class[k].refused
         /\ class[k].perIp > 0 /\ class[k].ip[n] # 0 =>
               /\ E.ip[n] = class[k].ip[n] - 1 /\ E.refused[n] = class[k].refused[n] + 0
               /\ \A m \in Net \ {n} : E.ip[m] = class[k].ip[m] /\ E.refused[m] = class[k].refused[m]
    <2>1. PICK C \in ClassRec : C = class[k]
      BY <1>8
    <2>2. C.users + -1 \in Nat
      BY <1>17, <2>1
    <2>3. LET F == Counting(C, -1, n, -1, 0) IN
          /\ F \in ClassRec
          /\ F.alive = C.alive /\ F.max = C.max /\ F.perIp = C.perIp /\ F.users = C.users + -1
          /\ C.perIp = 0 => F.ip = C.ip /\ F.refused = C.refused
          /\ C.perIp > 0 /\ C.ip[n] # 0 =>
                /\ F.ip[n] = C.ip[n] + -1 /\ F.refused[n] = C.refused[n] + 0
                /\ \A m \in Net \ {n} : F.ip[m] = C.ip[m] /\ F.refused[m] = C.refused[m]
      BY <2>2, CountingTyped
    <2>4. C.users + -1 = C.users - 1 /\ C.ip[n] + -1 = C.ip[n] - 1
      BY DEF ClassRec
    <2> QED BY <1>5, <2>1, <2>3, <2>4
  <1>19. /\ D \in ClassRec
         /\ D.alive <=> ~(class[k].max = -1 /\ class[k].users - 1 = 0)
         /\ D.max = class[k].max /\ D.perIp = class[k].perIp /\ D.users = class[k].users - 1
         /\ D.ip = E.ip /\ D.refused = E.refused
    BY <1>6, <1>8, <1>18, FreeIfLastFields
  <1>20. /\ class' \in [ClassId -> ClassRec] /\ class'[k] = D
         /\ \A j \in ClassId \ {k} : class'[j] = class[j]
    BY <1>7, <1>19, OneClass DEF ConfInv
  <1>21. \A j \in ClassId :
             /\ class'[j].alive => class[j].alive
             /\ class'[j].max = class[j].max /\ class'[j].perIp = class[j].perIp
    BY <1>8, <1>19, <1>20
  <1>22. ConfTypeOK'
    BY <1>7, <1>9, <1>12, <1>20 DEF ConfInv, ConfTypeOK, ClassRec
  <1>23. RefsCounted'
    <2>1. \A j \in AuthId : auth'[j].clients = Cardinality(UsersOf(j)')
      <3>1. \A j \in AuthId \ {i} : auth[j].clients = Cardinality(UsersOf(j))
        BY DEF ConfInv, RefsCounted
      <3> QED BY <1>10, <1>11, <1>12, <3>1
    <2>2. \A j \in ClassId : class'[j].alive => class'[j].users = Cardinality(InClass(j)')
      <3>1. \A j \in ClassId \ {k} : class[j].alive => class[j].users = Cardinality(InClass(j))
        BY DEF ConfInv, RefsCounted
      <3> QED BY <1>13, <1>15, <1>19, <1>20, <3>1
    <2> QED BY <1>7, <1>10, <2>1, <2>2 DEF ConfInv, RefsCounted
  <1>24. AddressesCounted'
    <2> SUFFICES ASSUME NEW j \in ClassId \ mixed, NEW m \in Net, class'[j].alive, class'[j].perIp > 0
                 PROVE  class'[j].ip[m] = class'[j].refused[m] + Cardinality(From(j, m)')
      BY <1>7 DEF AddressesCounted
    <2>1. class[j].ip[m] = class[j].refused[m] + Cardinality(From(j, m))
      BY <1>21 DEF ConfInv, AddressesCounted
    <2>2. CASE j = k /\ m = n
      BY <1>16, <1>18, <1>19, <1>20, <2>1, <2>2
    <2>3. CASE j = k /\ m # n
      BY <1>14, <1>16, <1>18, <1>19, <1>20, <2>1, <2>3
    <2>4. CASE j # k
      BY <1>14, <1>20, <2>1, <2>4
    <2> QED BY <2>2, <2>3, <2>4
  <1>25. NothingDangles'
    <2>1. \A v \in Client : client'[v].conf # None => auth'[client'[v].conf].st # "none"
      <3> SUFFICES ASSUME NEW v \in Client, client'[v].conf # None
                   PROVE  auth'[client'[v].conf].st # "none"
        OBVIOUS
      <3>1. v # u /\ client'[v] = client[v] /\ client[v].conf \in AuthId
            /\ auth[client[v].conf].st # "none"
        BY <1>9 DEF ConfInv, ConfTypeOK, NothingDangles
      <3>2. client[v].conf = i => UsersOf(i)' # {}
        BY <1>10, <3>1 DEF UsersOf
      <3> QED BY <1>11, <1>12, <3>1, <3>2
    <2>2. \A v \in Client : client'[v].port # None => listener'[client'[v].port].st # "none"
      BY <1>7, <1>9 DEF ConfInv, NothingDangles
    <2>3. \A s \in Server : peer[s] # None =>
              /\ peer[s] \in LinkId /\ link[peer[s]].class \in ClassId
              /\ link[peer[s]].st # "none" /\ class[link[peer[s]].class].alive
      BY DEF ConfInv, ConfTypeOK, NothingDangles
    <2>4. CASE class'[k].alive
      <3>1. \A j \in ClassId : class'[j].alive <=> class[j].alive
        BY <1>8, <1>20, <2>4
      <3>2. \A j \in AuthId : auth'[j].st # "none" => auth[j].st # "none"
        BY <1>8, <1>12
      <3>3. /\ \A j \in AuthId : auth'[j].st # "none" => class'[auth'[j].class].alive
            /\ \A j \in LinkId : link'[j].st # "none" =>
                  class'[link'[j].class].alive \/ link'[j].class \in strays'
            /\ \A m \in ClassName : table'[m] # 0 => class'[<<m, table'[m]>>].alive
        BY <1>7, <1>12, <3>1, <3>2, Names DEF ConfInv, ConfTypeOK, NothingDangles
      <3>4. \A s \in Server : peer'[s] # None =>
                link'[peer'[s]].st # "none" /\ class'[link'[peer'[s]].class].alive
        BY <1>7, <2>3, <3>1
      <3> QED BY <2>1, <2>2, <3>3, <3>4 DEF NothingDangles
    <2>5. CASE ~class'[k].alive
      <3>1. class[k].max = -1 /\ InClass(k)' = {}
        BY <1>15, <1>19, <1>20, <2>5
      <3>2. /\ \A j \in AuthId : auth[j].st # "none" /\ auth[j].class = k =>
                  auth[j].st = "illegal" /\ UsersOf(j) # {} /\ UsersOf(j) \subseteq InClass(k)
            /\ \A j \in LinkId : link[j].st # "none" /\ link[j].class = k =>
                  \/ link[j].st = "illegal" /\ ServersOf(j) # {} /\ ServersOf(j) \subseteq InClass(k)
                  \/ k \in strays
            /\ k # Default /\ \A m \in ClassName : table[m] # 0 => <<m, table[m]>> # k
        BY <1>8, <3>1, LastOneOut
      <3>3. InClass(k) = {u}
        BY <1>13, <3>1
      <3>4. \A j \in AuthId : auth'[j].st # "none" => auth[j].st # "none" /\ auth[j].class # k
        <4> SUFFICES ASSUME NEW j \in AuthId, auth'[j].st # "none", auth[j].class = k
                     PROVE  FALSE
          BY <1>8, <1>12
        <4>1. CASE j = i
          <5>1. auth[i].st = "illegal" /\ left # 0
            BY <1>2, <1>8, <1>12, <3>2, <4>1
          <5>2. UsersOf(i) \subseteq {u}
            BY <1>2, <1>8, <3>2, <3>3
          <5> QED BY <1>10, <1>11, <5>1, <5>2
        <4>2. CASE j # i
          <5>1. UsersOf(j) = {u}
            BY <1>12, <3>2, <3>3, <4>2
          <5> QED BY <1>1, <4>2, <5>1 DEF UsersOf
        <4> QED BY <4>1, <4>2
      <3>5. \A j \in LinkId : link[j].st # "none" => link[j].class # k \/ k \in strays
        BY <3>2, <3>3, ConfRefsAssumption DEF ServersOf
      <3>6. /\ \A j \in AuthId : auth'[j].st # "none" => class'[auth'[j].class].alive
            /\ \A j \in LinkId : link'[j].st # "none" =>
                  class'[link'[j].class].alive \/ link'[j].class \in strays'
            /\ \A m \in ClassName : table'[m] # 0 => class'[<<m, table'[m]>>].alive
        BY <1>7, <1>12, <1>20, <3>2, <3>4, <3>5, Names DEF ConfInv, ConfTypeOK, NothingDangles
      <3>7. \A s \in Server : peer'[s] # None =>
                link'[peer'[s]].st # "none" /\ class'[link'[peer'[s]].class].alive
        <4> SUFFICES ASSUME NEW s \in Server, peer[s] # None
                     PROVE  link[peer[s]].st # "none" /\ class'[link[peer[s]].class].alive
          BY <1>7
        <4>1. link[peer[s]].class # k
          BY <3>3, ConfRefsAssumption DEF InClass
        <4> QED BY <1>20, <2>3, <4>1
      <3> QED BY <2>1, <2>2, <3>6, <3>7 DEF NothingDangles
    <2> QED BY <2>4, <2>5
  <1>26. NothingLeaks'
    <2>1. \A j \in AuthId : auth'[j].st = "illegal" => UsersOf(j)' # {}
      BY <1>10, <1>11, <1>12 DEF ConfInv, NothingLeaks
    <2>2. /\ \A j \in LinkId : link'[j].st = "illegal" => ServersOf(j)' # {}
          /\ \A p \in Port : listener'[p].st = "closed" => HoldersOf(p)' # {}
      BY <1>7, <1>10 DEF ConfInv, NothingLeaks
    <2>3. \A j \in ClassId \ ({Default} \cup strays) :
              class'[j].alive /\ InClass(j)' = {} => table'[j[1]] = j[2]
      <3>1. class'[k].alive /\ InClass(k)' = {} => class[k].max # -1
        BY <1>15, <1>19, <1>20
      <3>2. k # Default /\ class'[k].alive /\ InClass(k)' = {} => table[k[1]] = k[2]
        BY <1>8, <3>1 DEF ConfInv, Marked
      <3> QED BY <1>7, <1>13, <1>20, <3>2 DEF ConfInv, NothingLeaks
    <2> QED BY <1>7, <2>1, <2>2, <2>3 DEF NothingLeaks
  <1>27. Stages'
    BY <1>7, <1>9 DEF ConfInv, ConfTypeOK, Stages
  <1>28. NothingEarly'
    <2>1. \A j \in AuthId : auth'[j].st # "none" => auth[j].st # "none"
      BY <1>8, <1>12
    <2> QED BY <1>7, <1>21, <2>1 DEF ConfInv, NothingEarly
  <1>29. Marked'
    <2>1. \A j \in AuthId : auth'[j].st = "legal" => auth[j].st = "legal"
      BY <1>12
    <2>2. class'[Default].alive
      BY <1>19, <1>20, Names DEF ConfInv, Marked
    <2> QED BY <1>7, <1>12, <1>21, <2>1, <2>2, Names DEF ConfInv, ConfTypeOK, Marked
  <1>30. Uncounted'
    <2> SUFFICES ASSUME NEW j \in ClassId \ mixed, NEW m \in Net, class'[j].alive, class'[j].perIp = 0
                 PROVE  class'[j].ip[m] = class'[j].refused[m]
      BY <1>7 DEF Uncounted
    <2>1. class[j].ip[m] = class[j].refused[m]
      BY <1>21 DEF ConfInv, Uncounted
    <2> QED BY <1>18, <1>19, <1>20, <1>21, <2>1
  <1> QED BY <1>22, <1>23, <1>24, <1>25, <1>26, <1>27, <1>28, <1>29, <1>30 DEF ConfInv

-----------------------------------------------------------------------------
(* Servers.                                                                *)

LinkRec == [st : {"none", "legal", "illegal"}, class : ClassId, servers : Nat]

\* The fields of a class with one server more or less.
LEMMA UsersFields ==
    ASSUME NEW C \in ClassRec, NEW by \in Int, C.users + by \in Nat
    PROVE  LET D == Users(C, by) IN
           /\ D \in ClassRec /\ D.alive = C.alive /\ D.max = C.max /\ D.perIp = C.perIp
           /\ D.users = C.users + by /\ D.ip = C.ip /\ D.refused = C.refused
  BY DEF Users, ClassRec

\* What is right of the connect{} blocks L and the classes M when s has left.
WithoutServer(s, L, M) ==
    /\ L \in [LinkId -> LinkRec] /\ M \in [ClassId -> ClassRec]
    /\ \A q \in LinkId :
          /\ L[q].class = link[q].class /\ (L[q].st = "legal" <=> link[q].st = "legal")
          /\ L[q].st # "none" => link[q].st # "none"
          /\ L[q].servers = Cardinality(ServersOf(q) \ {s})
          /\ L[q].st = "illegal" => ServersOf(q) \ {s} # {}
          /\ ServersOf(q) \ {s} # {} => L[q].st # "none"
          /\ L[q].st # "none" => M[L[q].class].alive \/ L[q].class \in strays
    /\ \A c \in ClassId :
          /\ M[c].max = class[c].max /\ M[c].perIp = class[c].perIp
          /\ M[c].ip = class[c].ip /\ M[c].refused = class[c].refused
          /\ M[c].alive => class[c].alive /\ M[c].users = Cardinality(InClass(c) \ {s})
          /\ M[c].alive /\ InClass(c) \ {s} = {} => M[c].max # -1 \/ c \in strays
          /\ InClass(c) \ {s} # {} => M[c].alive
    /\ \A i \in AuthId : auth[i].st # "none" => M[auth[i].class].alive
    /\ \A n \in ClassName : table[n] # 0 => M[<<n, table[n]>>].alive
    /\ M[Default].alive

\* A class that somebody is in has not been freed.
LEMMA Occupied ==
    ASSUME ConfInv, NEW k \in ClassId, InClass(k) # {}
    PROVE  class[k].alive
  <1>1. /\ \A u \in Client : client[u].conf # None => class[auth[client[u].conf].class].alive
        /\ \A s \in Server : peer[s] # None => class[link[peer[s]].class].alive
    BY DEF ConfInv, ConfTypeOK, NothingDangles
  <1> QED BY <1>1 DEF InClass

\* A server that has no block leaves nothing.
LEMMA LeavesNothing ==
    ASSUME ConfInv, NEW s \in Server, peer[s] = None
    PROVE  WithoutServer(s, link, class) /\ LinksWithout(s) = link /\ ClassesWithout(s) = class
  <1>1. LinksWithout(s) = link /\ ClassesWithout(s) = class
    BY DEF LinksWithout, ClassesWithout
  <1>2. /\ \A q \in LinkId : s \notin ServersOf(q) /\ ServersOf(q) \ {s} = ServersOf(q)
        /\ \A c : s \notin InClass(c) /\ InClass(c) \ {s} = InClass(c)
    BY Names, ConfRefsAssumption DEF ServersOf, InClass
  <1>3. link \in [LinkId -> LinkRec] /\ class \in [ClassId -> ClassRec]
    BY DEF ConfInv, ConfTypeOK, LinkRec, ClassRec
  <1>4. \A q \in LinkId :
            /\ link[q].servers = Cardinality(ServersOf(q))
            /\ link[q].st = "illegal" => ServersOf(q) # {}
            /\ ServersOf(q) # {} => link[q].st # "none"
            /\ link[q].st # "none" => class[link[q].class].alive \/ link[q].class \in strays
    <2>1. \A q \in LinkId : ServersOf(q) # {} => link[q].st # "none"
      BY Names DEF ConfInv, NothingDangles, ServersOf
    <2> QED BY <2>1 DEF ConfInv, RefsCounted, NothingLeaks, NothingDangles
  <1>5. \A c \in ClassId :
            /\ class[c].alive => class[c].users = Cardinality(InClass(c))
            /\ class[c].alive /\ InClass(c) = {} => class[c].max # -1 \/ c \in strays
            /\ InClass(c) # {} => class[c].alive
    BY Occupied DEF ConfInv, RefsCounted, NothingLeaks, Marked
  <1>6. /\ \A i \in AuthId : auth[i].st # "none" => class[auth[i].class].alive
        /\ \A n \in ClassName : table[n] # 0 => class[<<n, table[n]>>].alive
        /\ class[Default].alive
    BY DEF ConfInv, NothingDangles, Marked
  <1> QED BY <1>1, <1>2, <1>3, <1>4, <1>5, <1>6 DEF WithoutServer

\* What a server is taken from has it no longer.
LEMMA LeavesBlock ==
    ASSUME ConfInv, NEW s \in Server, peer[s] # None
    PROVE  WithoutServer(s, LinksWithout(s), ClassesWithout(s))
  <1>1. PICK j \in LinkId : j = peer[s]
    BY DEF ConfInv, ConfTypeOK
  <1>2. PICK k \in ClassId : k = link[j].class
    BY DEF ConfInv, ConfTypeOK
  <1>3. PICK L : L = LinksWithout(s)
    OBVIOUS
  <1>4. PICK M : M = ClassesWithout(s)
    OBVIOUS
  <1>5. PICK D : D = IF link[j].st = "illegal" /\ link[j].servers = 1
                     THEN FreeIfLast(Users(class[k], -1)) ELSE Users(class[k], -1)
    OBVIOUS
  <1>6. /\ L = [link EXCEPT ![j] =
              [st |-> IF link[j].st = "illegal" /\ link[j].servers = 1 THEN "none" ELSE link[j].st,
               class |-> link[j].class, servers |-> link[j].servers - 1]]
        /\ M = [class EXCEPT ![k] = D]
    BY <1>1, <1>2, <1>3, <1>4, <1>5 DEF LinksWithout, ClassesWithout
  <1>7. /\ link[j].st # "none" /\ class[k].alive
        /\ link \in [LinkId -> LinkRec] /\ class \in [ClassId -> ClassRec]
    BY <1>1, <1>2 DEF ConfInv, ConfTypeOK, NothingDangles, LinkRec, ClassRec
  <1>8. /\ s \in ServersOf(j) /\ s \in InClass(k)
        /\ \A q \in LinkId \ {j} : ServersOf(q) \ {s} = ServersOf(q)
        /\ \A c \in ClassId \ {k} : InClass(c) \ {s} = InClass(c)
    BY <1>1, <1>2, Names, ConfRefsAssumption DEF ServersOf, InClass
  <1>9. /\ link[j].servers = Cardinality(ServersOf(j)) /\ link[j].servers \in Nat \ {0}
        /\ link[j].servers - 1 = Cardinality(ServersOf(j) \ {s})
        /\ (link[j].servers = 1 <=> ServersOf(j) \ {s} = {})
    <2>1. /\ Cardinality(ServersOf(j)) \in Nat \ {0}
          /\ Cardinality(ServersOf(j) \ {s}) = Cardinality(ServersOf(j)) - 1
      BY <1>8, Finite, OneLess
    <2>2. link[j].servers = Cardinality(ServersOf(j))
      BY DEF ConfInv, RefsCounted
    <2>3. IsFiniteSet(ServersOf(j) \ {s})
      BY Finite, FS_RemoveElement
    <2> QED BY <2>1, <2>2, <2>3, Nobody
  <1>10. /\ class[k].users = Cardinality(InClass(k)) /\ class[k].users \in Nat \ {0}
         /\ class[k].users - 1 = Cardinality(InClass(k) \ {s})
         /\ (class[k].users = 1 <=> InClass(k) \ {s} = {})
    <2>1. /\ Cardinality(InClass(k)) \in Nat \ {0}
          /\ Cardinality(InClass(k) \ {s}) = Cardinality(InClass(k)) - 1
      BY <1>8, Finite, OneLess
    <2>2. class[k].users = Cardinality(InClass(k))
      BY <1>7 DEF ConfInv, RefsCounted
    <2>3. IsFiniteSet(InClass(k) \ {s})
      BY Finite, FS_RemoveElement
    <2> QED BY <2>1, <2>2, <2>3, Nobody
  <1>11. /\ \A i \in AuthId : class[k].max = -1 /\ auth[i].st # "none" /\ auth[i].class = k =>
                UsersOf(i) # {} /\ UsersOf(i) \subseteq InClass(k) \ {s}
         /\ \A i \in LinkId : class[k].max = -1 /\ link[i].st # "none" /\ link[i].class = k =>
                \/ link[i].st = "illegal" /\ ServersOf(i) # {} /\ ServersOf(i) \subseteq InClass(k)
                \/ k \in strays
         /\ class[k].max = -1 => k # Default
         /\ \A n \in ClassName : class[k].max = -1 /\ table[n] # 0 => <<n, table[n]>> # k
    BY <1>7, LastOneOut, ConfRefsAssumption DEF UsersOf
  <1>12. class[k].max = -1 /\ class[k].users = 1 =>
             (link[j].st = "illegal" /\ link[j].servers = 1) \/ k \in strays
    BY <1>2, <1>7, <1>8, <1>9, <1>10, <1>11
  <1>13. /\ D \in ClassRec /\ D.max = class[k].max /\ D.perIp = class[k].perIp
         /\ D.users = class[k].users - 1 /\ D.ip = class[k].ip /\ D.refused = class[k].refused
         /\ D.alive => ~(class[k].max = -1 /\ class[k].users = 1) \/ k \in strays
         /\ ~D.alive => /\ class[k].max = -1 /\ class[k].users = 1
                        /\ link[j].st = "illegal" /\ link[j].servers = 1
    <2>1. PICK C \in ClassRec : C = class[k]
      BY <1>7
    <2>2. PICK E : E = Users(C, -1)
      OBVIOUS
    <2>3. C.users + -1 = C.users - 1 /\ C.users - 1 \in Nat
      BY <1>10, <2>1
    <2>4. /\ E \in ClassRec /\ E.alive = C.alive /\ E.max = C.max /\ E.perIp = C.perIp
          /\ E.users = C.users - 1 /\ E.ip = C.ip /\ E.refused = C.refused
      BY <2>2, <2>3, UsersFields
    <2>5. PICK F : F = FreeIfLast(E)
      OBVIOUS
    <2>6. /\ F \in ClassRec
          /\ F.alive <=> E.alive /\ ~(E.max = -1 /\ E.users = 0)
          /\ F.max = E.max /\ F.perIp = E.perIp /\ F.users = E.users
          /\ F.ip = E.ip /\ F.refused = E.refused
      BY <2>4, <2>5, FreeIfLastFields
    <2>7. C.users - 1 = 0 <=> C.users = 1
      BY <2>3 DEF ClassRec
    <2>8. CASE link[j].st = "illegal" /\ link[j].servers = 1
      <3>1. D = F
        BY <1>5, <2>1, <2>2, <2>5, <2>8
      <3>2. D \in ClassRec /\ (D.alive <=> ~(class[k].max = -1 /\ class[k].users = 1))
        BY <1>7, <2>1, <2>4, <2>6, <2>7, <3>1
      <3>3. /\ D.max = class[k].max /\ D.perIp = class[k].perIp
            /\ D.users = class[k].users - 1 /\ D.ip = class[k].ip /\ D.refused = class[k].refused
        BY <2>1, <2>4, <2>6, <3>1
      <3> QED BY <2>8, <3>2, <3>3
    <2>9. CASE ~(link[j].st = "illegal" /\ link[j].servers = 1)
      <3>1. D = E
        BY <1>5, <2>1, <2>2, <2>9
      <3> QED BY <1>7, <1>12, <2>1, <2>4, <2>9, <3>1
    <2> QED BY <2>8, <2>9
  <1>14. /\ M \in [ClassId -> ClassRec] /\ M[k] = D
         /\ \A c \in ClassId \ {k} : M[c] = class[c]
    BY <1>6, <1>7, <1>13
  <1>15. /\ L \in [LinkId -> LinkRec] /\ L[j].servers = link[j].servers - 1
         /\ L[j].st = IF link[j].st = "illegal" /\ link[j].servers = 1 THEN "none" ELSE link[j].st
         /\ \A q \in LinkId : L[q].class = link[q].class
         /\ \A q \in LinkId \ {j} : L[q] = link[q]
    BY <1>6, <1>7, <1>9 DEF LinkRec
  <1>16. \A q \in LinkId :
             /\ (L[q].st = "legal" <=> link[q].st = "legal")
             /\ L[q].st # "none" => link[q].st # "none"
             /\ L[q].servers = Cardinality(ServersOf(q) \ {s})
             /\ L[q].st = "illegal" => ServersOf(q) \ {s} # {}
             /\ ServersOf(q) \ {s} # {} => L[q].st # "none"
    <2> SUFFICES ASSUME NEW q \in LinkId
                 PROVE  /\ (L[q].st = "legal" <=> link[q].st = "legal")
                        /\ L[q].st # "none" => link[q].st # "none"
                        /\ L[q].servers = Cardinality(ServersOf(q) \ {s})
                        /\ L[q].st = "illegal" => ServersOf(q) \ {s} # {}
                        /\ ServersOf(q) \ {s} # {} => L[q].st # "none"
      OBVIOUS
    <2>1. CASE q = j
      BY <1>7, <1>9, <1>15, <2>1
    <2>2. CASE q # j
      <3>1. L[q] = link[q] /\ ServersOf(q) \ {s} = ServersOf(q)
        BY <1>8, <1>15, <2>2
      <3>2. ServersOf(q) # {} => link[q].st # "none"
        BY Names DEF ConfInv, NothingDangles, ServersOf
      <3> QED BY <3>1, <3>2 DEF ConfInv, RefsCounted, NothingLeaks
    <2> QED BY <2>1, <2>2
  <1>17. \A c \in ClassId :
             /\ M[c].max = class[c].max /\ M[c].perIp = class[c].perIp
             /\ M[c].ip = class[c].ip /\ M[c].refused = class[c].refused
             /\ M[c].alive => class[c].alive /\ M[c].users = Cardinality(InClass(c) \ {s})
             /\ M[c].alive /\ InClass(c) \ {s} = {} => M[c].max # -1 \/ c \in strays
             /\ InClass(c) \ {s} # {} => M[c].alive
    <2> SUFFICES ASSUME NEW c \in ClassId
                 PROVE  /\ M[c].max = class[c].max /\ M[c].perIp = class[c].perIp
                        /\ M[c].ip = class[c].ip /\ M[c].refused = class[c].refused
                        /\ M[c].alive => class[c].alive /\ M[c].users = Cardinality(InClass(c) \ {s})
                        /\ M[c].alive /\ InClass(c) \ {s} = {} => M[c].max # -1 \/ c \in strays
                        /\ InClass(c) \ {s} # {} => M[c].alive
      OBVIOUS
    <2>1. CASE c = k
      BY <1>7, <1>10, <1>13, <1>14, <2>1
    <2>2. CASE c # k
      <3>1. M[c] = class[c] /\ InClass(c) \ {s} = InClass(c)
        BY <1>8, <1>14, <2>2
      <3>2. /\ class[c].alive /\ InClass(c) = {} => class[c].max # -1 \/ c \in strays
            /\ InClass(c) # {} => class[c].alive
        BY Occupied DEF ConfInv, NothingLeaks, Marked
      <3> QED BY <3>1, <3>2 DEF ConfInv, RefsCounted
    <2> QED BY <2>1, <2>2
  <1>18. /\ \A i \in AuthId : auth[i].st # "none" => M[auth[i].class].alive
         /\ \A q \in LinkId : L[q].st # "none" => M[L[q].class].alive \/ L[q].class \in strays
         /\ \A n \in ClassName : table[n] # 0 => M[<<n, table[n]>>].alive
         /\ M[Default].alive
    <2>1. \A c \in ClassId \ {k} : M[c].alive <=> class[c].alive
      BY <1>14
    <2>2. /\ \A i \in AuthId : auth[i].class \in ClassId /\ (auth[i].st # "none" => class[auth[i].class].alive)
          /\ \A q \in LinkId : link[q].class \in ClassId
          /\ \A q \in LinkId : link[q].st # "none" =>
                class[link[q].class].alive \/ link[q].class \in strays
          /\ \A n \in ClassName : <<n, table[n]>> \in ClassId /\ (table[n] # 0 => class[<<n, table[n]>>].alive)
          /\ Default \in ClassId /\ class[Default].alive
      BY Names DEF ConfInv, ConfTypeOK, NothingDangles, Marked
    <2>3. CASE M[k].alive
      <3>1. \A c \in ClassId : class[c].alive => M[c].alive
        BY <2>1, <2>3
      <3> QED BY <1>15, <1>16, <2>2, <3>1
    <2>4. CASE ~M[k].alive
      <3>1. class[k].max = -1 /\ class[k].users = 1 /\ InClass(k) = {s}
        BY <1>8, <1>10, <1>13, <1>14, <2>4
      <3>2. \A i \in AuthId : auth[i].st # "none" => auth[i].class # k
        BY <1>11, <3>1
      <3>3. \A q \in LinkId : L[q].st # "none" => link[q].class # k \/ k \in strays
        <4> SUFFICES ASSUME NEW q \in LinkId, L[q].st # "none", link[q].class = k, k \notin strays
                     PROVE  FALSE
          OBVIOUS
        <4>1. link[q].st = "illegal" /\ ServersOf(q) = {s}
          BY <1>11, <1>16, <3>1
        <4>2. q = j
          BY <1>1, <4>1 DEF ServersOf
        <4> QED BY <1>9, <1>15, <4>1, <4>2
      <3>4. k # Default /\ \A n \in ClassName : table[n] # 0 => <<n, table[n]>> # k
        BY <1>11, <3>1
      <3> QED BY <1>15, <1>16, <2>1, <2>2, <3>2, <3>3, <3>4
    <2> QED BY <2>3, <2>4
  <1> QED BY <1>3, <1>4, <1>14, <1>15, <1>16, <1>17, <1>18 DEF WithoutServer

\* The same, one fact at a time, with what ConfInv says of the blocks and classes.
LEMMA WithoutServerFacts ==
    ASSUME ConfInv, NEW s \in Server, NEW L, NEW M, WithoutServer(s, L, M)
    PROVE  /\ \A q \in LinkId : L[q].class = link[q].class
           /\ \A q \in LinkId : \A r \in ServersOf(q) \ {s} : L[q].st # "none"
           /\ \A q \in LinkId : L[q].st # "none" => q[2] <= gen
           /\ \A q \in LinkId : \A r \in ServersOf(q) \ {s} : M[L[q].class].alive
           /\ \A q \in LinkId : L[q].st = "legal" =>
                 M[L[q].class].max # -1 \/ L[q].class \in strays
           /\ \A i \in AuthId : auth[i].st = "legal" => M[auth[i].class].max # -1
           /\ \A c \in ClassId \ {Default} : M[c].alive => 0 < c[2] /\ c[2] <= gen
           /\ \A c \in ClassId \ {Default} :
                 M[c].alive => (M[c].max = -1 <=> table[c[1]] # c[2])
           /\ \A c \in ClassId \ ({Default} \cup strays) :
                 M[c].alive /\ InClass(c) \ {s} = {} => table[c[1]] = c[2]
           /\ M[Default].alive /\ M[Default].max # -1
           /\ \A c \in ClassId \ mixed, n \in Net :
                 M[c].alive /\ M[c].perIp > 0 =>
                    M[c].ip[n] = M[c].refused[n] + Cardinality(From(c, n))
           /\ \A c \in ClassId \ mixed, n \in Net :
                 M[c].alive /\ M[c].perIp = 0 => M[c].ip[n] = M[c].refused[n]
  <1>1. /\ \A c \in ClassId : M[c].max = class[c].max /\ M[c].perIp = class[c].perIp
        /\ \A c \in ClassId : M[c].alive => class[c].alive
        /\ \A c \in ClassId : M[c].alive /\ InClass(c) \ {s} = {} => M[c].max # -1 \/ c \in strays
        /\ \A c \in ClassId : InClass(c) \ {s} # {} => M[c].alive
        /\ M[Default].alive
    BY DEF WithoutServer
  <1>2. /\ \A q \in LinkId : L[q].class = link[q].class
        /\ \A q \in LinkId : L[q].st = "legal" <=> link[q].st = "legal"
        /\ \A q \in LinkId : L[q].st # "none" => link[q].st # "none"
        /\ \A q \in LinkId : ServersOf(q) \ {s} # {} => L[q].st # "none"
    BY DEF WithoutServer
  <1>3. /\ \A c \in ClassId \ {Default} :
              class[c].alive => 0 < c[2] /\ c[2] <= gen
        /\ \A q \in LinkId : link[q].st # "none" => q[2] <= gen
    BY DEF ConfInv, NothingEarly
  <1>4. /\ \A c \in ClassId \ {Default} :
              class[c].alive => (class[c].max = -1 <=> table[c[1]] # c[2])
        /\ \A q \in LinkId : link[q].st = "legal" =>
              class[link[q].class].max # -1 \/ link[q].class \in strays
        /\ \A i \in AuthId : auth[i].st = "legal" => class[auth[i].class].max # -1
        /\ class[Default].max # -1
    BY DEF ConfInv, Marked
  <1>5. /\ \A q \in LinkId : link[q].class \in ClassId
        /\ \A i \in AuthId : auth[i].class \in ClassId
        /\ Default \in ClassId
    BY Names DEF ConfInv, ConfTypeOK
  <1>6. \A q \in LinkId : \A r \in ServersOf(q) \ {s} : L[q].st # "none"
    BY <1>2
  <1>7. \A q \in LinkId : L[q].st # "none" => q[2] <= gen
    BY <1>2, <1>3
  <1>8. \A q \in LinkId : L[q].st = "legal" => M[L[q].class].max # -1 \/ L[q].class \in strays
    BY <1>1, <1>2, <1>4, <1>5
  <1>9. \A i \in AuthId : auth[i].st = "legal" => M[auth[i].class].max # -1
    BY <1>1, <1>4, <1>5
  <1>10. \A c \in ClassId \ {Default} :
             M[c].alive => 0 < c[2] /\ c[2] <= gen
    BY <1>1, <1>3
  <1>11. \A c \in ClassId \ {Default} :
             M[c].alive => (M[c].max = -1 <=> table[c[1]] # c[2])
    BY <1>1, <1>4
  <1>12. \A c \in ClassId \ ({Default} \cup strays) :
             M[c].alive /\ InClass(c) \ {s} = {} => table[c[1]] = c[2]
    BY <1>1, <1>11
  <1>13. M[Default].max # -1
    BY <1>1, <1>4, <1>5
  <1>14. /\ \A c \in ClassId \ mixed, n \in Net :
               M[c].alive /\ M[c].perIp > 0 =>
                  M[c].ip[n] = M[c].refused[n] + Cardinality(From(c, n))
         /\ \A c \in ClassId \ mixed, n \in Net :
               M[c].alive /\ M[c].perIp = 0 => M[c].ip[n] = M[c].refused[n]
    <2>1. /\ \A c \in ClassId \ mixed, n \in Net :
                class[c].alive /\ class[c].perIp > 0 =>
                   class[c].ip[n] = class[c].refused[n] + Cardinality(From(c, n))
          /\ \A c \in ClassId \ mixed, n \in Net :
                class[c].alive /\ class[c].perIp = 0 => class[c].ip[n] = class[c].refused[n]
      BY DEF ConfInv, AddressesCounted, Uncounted
    <2>2. \A c \in ClassId : M[c].ip = class[c].ip /\ M[c].refused = class[c].refused
      BY DEF WithoutServer
    <2> QED BY <1>1, <2>1, <2>2
  <1>15. \A q \in LinkId : \A r \in ServersOf(q) \ {s} : M[L[q].class].alive
    <2> SUFFICES ASSUME NEW q \in LinkId, NEW r \in ServersOf(q) \ {s} PROVE M[L[q].class].alive
      OBVIOUS
    <2>1. r \in InClass(link[q].class) \ {s}
      BY Names DEF ServersOf, InClass
    <2> QED BY <1>1, <1>2, <1>5, <2>1
  <1> QED BY <1>1, <1>2, <1>6, <1>7, <1>8, <1>9, <1>10, <1>11, <1>12, <1>13, <1>14, <1>15

\* detach_server_conf.
LEMMA DetachServerConfKeeps ==
    ASSUME ConfInv, NEW s \in Server, DetachServerConf(s)
    PROVE  ConfInv'
  <1>1. PICK L : L = LinksWithout(s)
    OBVIOUS
  <1>2. PICK M : M = ClassesWithout(s)
    OBVIOUS
  <1>3. WithoutServer(s, L, M)
    BY <1>1, <1>2, LeavesBlock DEF DetachServerConf
  <1>4. /\ peer' = [peer EXCEPT ![s] = None] /\ link' = L /\ class' = M
        /\ UNCHANGED <<gen, strays, mixed, table, auth, listener, client>>
    BY <1>1, <1>2 DEF DetachServerConf, spoilt
  <1>5. peer' \in [Server -> LinkId \cup {None}]
    BY <1>4 DEF ConfInv, ConfTypeOK
  <1>6. /\ \A q \in LinkId : ServersOf(q)' = ServersOf(q) \ {s}
        /\ \A i \in AuthId : UsersOf(i)' = UsersOf(i)
        /\ \A p \in Port : HoldersOf(p)' = HoldersOf(p)
    BY <1>4, Names DEF ServersOf, UsersOf, HoldersOf, ConfInv, ConfTypeOK
  <1>7. /\ \A c : InClass(c)' = InClass(c) \ {s}
        /\ \A c, n : From(c, n)' = From(c, n)
    <2>1. \A q \in LinkId : L[q].class = link[q].class
      BY <1>3 DEF WithoutServer
    <2>2. \A r \in Server : peer'[r] # None => r # s /\ peer'[r] = peer[r] /\ peer[r] \in LinkId
      BY <1>4 DEF ConfInv, ConfTypeOK
    <2>3. \A r \in Server \ {s} : peer'[r] = peer[r]
      BY <1>4 DEF ConfInv, ConfTypeOK
    <2>4. \A c : InClass(c)' = InClass(c) \ {s}
      BY <1>4, <2>1, <2>2, <2>3, ConfRefsAssumption DEF InClass
    <2> QED BY <2>4, ConfRefsAssumption DEF From
  <1>8. ConfTypeOK'
    BY <1>3, <1>4, <1>5 DEF ConfInv, ConfTypeOK, WithoutServer, LinkRec, ClassRec
  <1>9. RefsCounted'
    BY <1>3, <1>4, <1>6, <1>7 DEF ConfInv, RefsCounted, WithoutServer
  <1>10. AddressesCounted' /\ Uncounted'
    <2>1. ASSUME NEW c \in ClassId \ mixed, NEW n \in Net, M[c].alive, M[c].perIp > 0
          PROVE  M[c].ip[n] = M[c].refused[n] + Cardinality(From(c, n)')
      BY <1>3, <1>7, <2>1, WithoutServerFacts
    <2>2. ASSUME NEW c \in ClassId \ mixed, NEW n \in Net, M[c].alive, M[c].perIp = 0
          PROVE  M[c].ip[n] = M[c].refused[n]
      BY <1>3, <2>2, WithoutServerFacts
    <2> QED BY <1>4, <2>1, <2>2 DEF AddressesCounted, Uncounted
  <1>11. NothingDangles'
    <2>1. \A r \in Server : peer'[r] # None =>
              link'[peer'[r]].st # "none" /\ class'[link'[peer'[r]].class].alive
      <3> SUFFICES ASSUME NEW r \in Server, peer'[r] # None
                   PROVE  link'[peer'[r]].st # "none" /\ class'[link'[peer'[r]].class].alive
        OBVIOUS
      <3>1. r # s /\ peer'[r] = peer[r] /\ peer[r] \in LinkId /\ r \in ServersOf(peer[r]) \ {s}
        BY <1>4 DEF ConfInv, ConfTypeOK, ServersOf
      <3>2. L[peer[r]].st # "none" /\ M[L[peer[r]].class].alive
        BY <1>3, <3>1, WithoutServerFacts
      <3> QED BY <1>4, <3>1, <3>2
    <2>2. /\ \A q \in LinkId : L[q].st # "none" => M[L[q].class].alive \/ L[q].class \in strays
          /\ \A i \in AuthId : auth[i].st # "none" => M[auth[i].class].alive
          /\ \A n \in ClassName : table[n] # 0 => M[<<n, table[n]>>].alive
      BY <1>3 DEF WithoutServer
    <2>3. /\ \A u \in Client : client[u].conf # None => auth[client[u].conf].st # "none"
          /\ \A u \in Client : client[u].port # None => listener[client[u].port].st # "none"
      BY DEF ConfInv, NothingDangles
    <2> QED BY <1>4, <2>1, <2>2, <2>3 DEF NothingDangles
  <1>12. NothingLeaks'
    <2>1. \A c \in ClassId \ ({Default} \cup strays) :
              M[c].alive /\ InClass(c)' = {} => table[c[1]] = c[2]
      BY <1>3, <1>7, WithoutServerFacts
    <2> QED BY <1>3, <1>4, <1>6, <2>1 DEF ConfInv, NothingLeaks, WithoutServer
  <1>13. Stages'
    BY <1>4 DEF ConfInv, Stages
  <1>14. NothingEarly'
    <2>1. /\ \A i \in AuthId : auth[i].st # "none" => i[2] <= gen
          /\ \A n \in ClassName : table[n] <= gen
      BY DEF ConfInv, NothingEarly
    <2> QED BY <1>3, <1>4, <2>1, WithoutServerFacts DEF NothingEarly
  <1>15. Marked'
    BY <1>3, <1>4, WithoutServerFacts DEF Marked
  <1> QED BY <1>8, <1>9, <1>10, <1>11, <1>12, <1>13, <1>14, <1>15 DEF ConfInv

\* attach_server_conf, which detaches first.
LEMMA AttachServerConfKeeps ==
    ASSUME ConfInv, NEW s \in Server, NEW i \in LinkId, AttachServerConf(s, i)
    PROVE  ConfInv'
  <1>1. PICK L : L = LinksWithout(s)
    OBVIOUS
  <1>2. PICK M : M = ClassesWithout(s)
    OBVIOUS
  <1>3. WithoutServer(s, L, M)
    BY <1>1, <1>2, LeavesBlock, LeavesNothing
  <1>4. PICK k \in ClassId : k = link[i].class
    BY DEF ConfInv, ConfTypeOK
  <1>5. PICK D : D = Users(M[k], 1)
    OBVIOUS
  <1>6. /\ peer' = [peer EXCEPT ![s] = i] /\ link[i].st = "legal" /\ M[k].alive
        /\ link' = [L EXCEPT ![i] = [st |-> L[i].st, class |-> L[i].class,
                                     servers |-> L[i].servers + 1]]
        /\ class' = [M EXCEPT ![k] = D]
        /\ UNCHANGED <<gen, strays, mixed, table, auth, listener, client>>
    BY <1>1, <1>2, <1>4, <1>5 DEF AttachServerConf, spoilt
  <1>7. /\ L \in [LinkId -> LinkRec] /\ M \in [ClassId -> ClassRec]
        /\ L[i].st = "legal" /\ L[i].class = k /\ M[k].alive /\ M[k].users + 1 \in Nat
    <2>1. L[i].st = "legal" /\ L[i].class = k
      BY <1>3, <1>4, <1>6 DEF WithoutServer
    <2>2. L \in [LinkId -> LinkRec] /\ M \in [ClassId -> ClassRec]
      BY <1>3 DEF WithoutServer
    <2> QED BY <1>6, <2>1, <2>2 DEF ClassRec
  <1>8. /\ D \in ClassRec /\ D.alive = M[k].alive /\ D.max = M[k].max /\ D.perIp = M[k].perIp
        /\ D.users = M[k].users + 1 /\ D.ip = M[k].ip /\ D.refused = M[k].refused
    <2>1. PICK C \in ClassRec : C = M[k]
      BY <1>7
    <2>2. 1 \in Int /\ C.users + 1 \in Nat /\ D = Users(C, 1)
      BY <1>5, <1>7, <2>1
    <2>3. D \in ClassRec /\ D.alive = C.alive /\ D.max = C.max /\ D.perIp = C.perIp
      BY <2>1, <2>2, UsersFields
    <2>4. D.users = C.users + 1 /\ D.ip = C.ip /\ D.refused = C.refused
      BY <2>1, <2>2, UsersFields
    <2> QED BY <2>1, <2>3, <2>4
  <1>9. /\ class' \in [ClassId -> ClassRec] /\ class'[k].users = M[k].users + 1
        /\ \A c \in ClassId \ {k} : class'[c].users = M[c].users
        /\ \A c \in ClassId :
              /\ class'[c].alive = M[c].alive /\ class'[c].max = M[c].max
              /\ class'[c].perIp = M[c].perIp
              /\ class'[c].ip = M[c].ip /\ class'[c].refused = M[c].refused
    <2>1. class' \in [ClassId -> ClassRec]
      BY <1>6, <1>7, <1>8
    <2>2. class'[k] = D /\ \A c \in ClassId \ {k} : class'[c] = M[c]
      BY <1>6, <1>7
    <2> QED BY <1>8, <2>1, <2>2
  <1>10. /\ link' \in [LinkId -> LinkRec] /\ link'[i].servers = L[i].servers + 1
         /\ \A q \in LinkId \ {i} : link'[q] = L[q]
         /\ \A q \in LinkId : link'[q].st = L[q].st /\ link'[q].class = L[q].class
    BY <1>6, <1>7 DEF LinkRec
  <1>11. /\ peer' \in [Server -> LinkId \cup {None}] /\ peer'[s] = i
         /\ \A r \in Server \ {s} : peer'[r] = peer[r]
    BY <1>6 DEF ConfInv, ConfTypeOK
  <1>12. /\ ServersOf(i)' = (ServersOf(i) \ {s}) \cup {s}
         /\ \A q \in LinkId \ {i} : ServersOf(q)' = ServersOf(q) \ {s}
         /\ \A j \in AuthId : UsersOf(j)' = UsersOf(j)
         /\ \A p \in Port : HoldersOf(p)' = HoldersOf(p)
    BY <1>6, <1>11 DEF ServersOf, UsersOf, HoldersOf
  <1>13. /\ InClass(k)' = (InClass(k) \ {s}) \cup {s}
         /\ \A c \in ClassId \ {k} : InClass(c)' = InClass(c) \ {s}
         /\ \A c \in ClassId, n \in Net : From(c, n)' = From(c, n)
    <2>1. \A q \in LinkId : link'[q].class = link[q].class
      BY <1>3, <1>10 DEF WithoutServer
    <2>2. \A r \in Server \ {s} : peer[r] \in LinkId \cup {None}
      BY DEF ConfInv, ConfTypeOK
    <2>3. /\ InClass(k)' = (InClass(k) \ {s}) \cup {s}
          /\ \A c \in ClassId \ {k} : InClass(c)' = InClass(c) \ {s}
      BY <1>4, <1>6, <1>11, <2>1, <2>2, Names, ConfRefsAssumption DEF InClass
    <2> QED BY <2>3, ConfRefsAssumption DEF From
  <1>14. ConfTypeOK'
    BY <1>6, <1>9, <1>10, <1>11 DEF ConfInv, ConfTypeOK, LinkRec, ClassRec
  <1>15. RefsCounted'
    <2>1. \A q \in LinkId : link'[q].servers = Cardinality(ServersOf(q)')
      <3>1. IsFiniteSet(ServersOf(i) \ {s})
        BY Finite, FS_RemoveElement
      <3>2. Cardinality(ServersOf(i)') = Cardinality(ServersOf(i) \ {s}) + 1
        BY <1>12, <3>1, OneMore
      <3>3. \A q \in LinkId : L[q].servers = Cardinality(ServersOf(q) \ {s})
        BY <1>3 DEF WithoutServer
      <3>4. link'[i].servers = Cardinality(ServersOf(i)')
        BY <1>10, <3>2, <3>3
      <3>5. \A q \in LinkId \ {i} : link'[q].servers = Cardinality(ServersOf(q)')
        BY <1>10, <1>12, <3>3
      <3> QED BY <3>4, <3>5
    <2>2. \A c \in ClassId : class'[c].alive => class'[c].users = Cardinality(InClass(c)')
      <3>1. IsFiniteSet(InClass(k) \ {s})
        BY Finite, FS_RemoveElement
      <3>2. Cardinality(InClass(k)') = Cardinality(InClass(k) \ {s}) + 1
        BY <1>13, <3>1, OneMore
      <3>3. \A c \in ClassId : M[c].alive => M[c].users = Cardinality(InClass(c) \ {s})
        BY <1>3 DEF WithoutServer
      <3>4. class'[k].users = Cardinality(InClass(k)')
        BY <1>7, <1>9, <3>2, <3>3
      <3>5. \A c \in ClassId \ {k} : class'[c].alive => class'[c].users = Cardinality(InClass(c)')
        BY <1>9, <1>13, <3>3
      <3> QED BY <3>4, <3>5
    <2> QED BY <1>6, <1>12, <2>1, <2>2 DEF ConfInv, RefsCounted
  <1>16. AddressesCounted' /\ Uncounted'
    <2>1. \A c \in ClassId : /\ class'[c].alive = M[c].alive /\ class'[c].perIp = M[c].perIp
                             /\ class'[c].ip = M[c].ip /\ class'[c].refused = M[c].refused
      BY <1>9
    <2>2. ASSUME NEW c \in ClassId \ mixed, NEW n \in Net, M[c].alive, M[c].perIp > 0
          PROVE  M[c].ip[n] = M[c].refused[n] + Cardinality(From(c, n)')
      BY <1>3, <1>13, <2>2, WithoutServerFacts
    <2>3. ASSUME NEW c \in ClassId \ mixed, NEW n \in Net, M[c].alive, M[c].perIp = 0
          PROVE  M[c].ip[n] = M[c].refused[n]
      BY <1>3, <2>3, WithoutServerFacts
    <2> QED BY <1>6, <2>1, <2>2, <2>3 DEF AddressesCounted, Uncounted
  <1>17. NothingDangles'
    <2>1. \A r \in Server : peer'[r] # None =>
              link'[peer'[r]].st # "none" /\ class'[link'[peer'[r]].class].alive
      <3> SUFFICES ASSUME NEW r \in Server, peer'[r] # None
                   PROVE  link'[peer'[r]].st # "none" /\ class'[link'[peer'[r]].class].alive
        OBVIOUS
      <3>1. CASE r = s
        BY <1>7, <1>9, <1>10, <1>11, <3>1
      <3>2. CASE r # s
        <4>1. peer'[r] = peer[r] /\ peer[r] \in LinkId /\ r \in ServersOf(peer[r]) \ {s}
          BY <1>11, <3>2 DEF ServersOf, ConfInv, ConfTypeOK
        <4>2. L[peer[r]].st # "none" /\ M[L[peer[r]].class].alive
          BY <1>3, <4>1, WithoutServerFacts
        <4>3. L[peer[r]].class \in ClassId
          BY <1>7, <4>1 DEF LinkRec
        <4> QED BY <1>9, <1>10, <4>1, <4>2, <4>3
      <3> QED BY <3>1, <3>2
    <2>2. \A c \in ClassId : class'[c].alive <=> M[c].alive
      BY <1>9
    <2>3. /\ \A j \in AuthId : auth'[j].st # "none" => class'[auth'[j].class].alive
          /\ \A j \in LinkId : link'[j].st # "none" =>
                class'[link'[j].class].alive \/ link'[j].class \in strays
          /\ \A n \in ClassName : table'[n] # 0 => class'[<<n, table'[n]>>].alive
      <3>1. /\ \A q \in LinkId : L[q].st # "none" => M[L[q].class].alive \/ L[q].class \in strays
            /\ \A j \in AuthId : auth[j].st # "none" => M[auth[j].class].alive
            /\ \A n \in ClassName : table[n] # 0 => M[<<n, table[n]>>].alive
        BY <1>3 DEF WithoutServer
      <3>2. /\ \A q \in LinkId : link'[q].class \in ClassId
            /\ \A j \in AuthId : auth[j].class \in ClassId
            /\ \A n \in ClassName : <<n, table[n]>> \in ClassId
        BY <1>10, Names DEF LinkRec, ConfInv, ConfTypeOK
      <3>3. \A q \in LinkId : link'[q].st = L[q].st /\ link'[q].class = L[q].class
        BY <1>10
      <3>4. auth' = auth /\ table' = table
        BY <1>6
      <3> QED BY <2>2, <3>1, <3>2, <3>3, <3>4
    <2>4. /\ \A u \in Client : client[u].conf # None => auth[client[u].conf].st # "none"
          /\ \A u \in Client : client[u].port # None => listener[client[u].port].st # "none"
      BY DEF ConfInv, NothingDangles
    <2> QED BY <1>6, <2>1, <2>3, <2>4 DEF NothingDangles
  <1>18. NothingLeaks'
    <2>1. \A c \in ClassId \ ({Default} \cup strays) :
              class'[c].alive /\ InClass(c)' = {} => table[c[1]] = c[2]
      <3>1. \A c \in ClassId : class'[c].alive <=> M[c].alive
        BY <1>9
      <3>2. \A c \in ClassId \ {k} : InClass(c)' = InClass(c) \ {s}
        BY <1>13
      <3>3. InClass(k)' # {}
        BY <1>13
      <3>4. \A c \in ClassId \ ({Default} \cup strays) :
                M[c].alive /\ InClass(c) \ {s} = {} => table[c[1]] = c[2]
        BY <1>3, WithoutServerFacts
      <3> QED BY <3>1, <3>2, <3>3, <3>4
    <2>2. \A q \in LinkId : link'[q].st = "illegal" => ServersOf(q)' # {}
      BY <1>3, <1>7, <1>10, <1>12 DEF WithoutServer
    <2> QED BY <1>6, <1>12, <2>1, <2>2 DEF ConfInv, NothingLeaks
  <1>19. Stages'
    BY <1>6 DEF ConfInv, Stages
  <1>20. NothingEarly'
    <2>1. /\ \A j \in AuthId : auth[j].st # "none" => j[2] <= gen
          /\ \A n \in ClassName : table[n] <= gen
      BY DEF ConfInv, NothingEarly
    <2>2. \A q \in LinkId : link'[q].st # "none" => q[2] <= gen
      BY <1>3, <1>10, WithoutServerFacts
    <2>3. \A c \in ClassId \ {Default} :
              M[c].alive => 0 < c[2] /\ c[2] <= gen
      BY <1>3, WithoutServerFacts
    <2>4. \A c \in ClassId \ {Default} :
              class'[c].alive => 0 < c[2] /\ c[2] <= gen
      BY <1>9, <2>3
    <2> QED BY <1>6, <2>1, <2>2, <2>4 DEF NothingEarly
  <1>21. Marked'
    <2>1. \A c \in ClassId : (class'[c].alive <=> M[c].alive) /\ class'[c].max = M[c].max
      BY <1>9
    <2>2. class'[Default].alive /\ class'[Default].max # -1
      BY <1>3, <2>1, Names, WithoutServerFacts
    <2>3. \A c \in ClassId \ {Default} :
              class'[c].alive => (class'[c].max = -1 <=> table[c[1]] # c[2])
      BY <1>3, <2>1, WithoutServerFacts
    <2>4. \A j \in AuthId : auth[j].st = "legal" => class'[auth[j].class].max # -1
      <3>1. \A j \in AuthId : auth[j].class \in ClassId
        BY DEF ConfInv, ConfTypeOK
      <3> QED BY <1>3, <2>1, <3>1, WithoutServerFacts
    <2>5. \A q \in LinkId : link'[q].st = "legal" =>
              class'[link'[q].class].max # -1 \/ link'[q].class \in strays
      <3>1. \A q \in LinkId : link'[q].class \in ClassId
        BY <1>10 DEF LinkRec
      <3> QED BY <1>3, <1>10, <2>1, <3>1, WithoutServerFacts
    <2> QED BY <1>6, <2>2, <2>3, <2>4, <2>5 DEF Marked
  <1> QED BY <1>14, <1>15, <1>16, <1>17, <1>18, <1>19, <1>20, <1>21 DEF ConfInv

-----------------------------------------------------------------------------
(* A rehash.                                                               *)

\* Classes that the configuration makes, has again and has no more.
Fresh(cfg, k) == k # Default /\ k[1] \in cfg.has /\ table[k[1]] = 0 /\ k[2] = gen + 1
Kept(cfg, k) == k # Default /\ k[1] \in cfg.has /\ table[k[1]] # 0 /\ k[2] = table[k[1]]
Swept(cfg, k) == k # Default /\ k[1] \notin cfg.has /\ table[k[1]] # 0 /\ k[2] = table[k[1]]

\* The class that each name stands for after a rehash.
LEMMA ClassOfNames ==
    ASSUME ConfInv, gen < MaxRehash
    PROVE  /\ gen \in Nat /\ gen + 1 \in Gen
           /\ \A n \in ClassName :
                 /\ ClassOf(n) \in ClassId \ {Default} /\ ClassOf(n)[1] = n
                 /\ ClassOf(n)[2] = IF table[n] = 0 THEN gen + 1 ELSE table[n]
           /\ \A k \in ClassId \ {Default} :
                 k = ClassOf(k[1]) <=> k[2] = IF table[k[1]] = 0 THEN gen + 1 ELSE table[k[1]]
  <1>1. gen \in Nat /\ gen + 1 \in Gen
    BY ConfRefsAssumption DEF ConfInv, ConfTypeOK, Gen
  <1>2. \A n \in ClassName : table[n] \in Gen
    BY DEF ConfInv, ConfTypeOK
  <1>3. \A n \in ClassName :
            /\ ClassOf(n) \in ClassId \ {Default} /\ ClassOf(n)[1] = n
            /\ ClassOf(n)[2] = IF table[n] = 0 THEN gen + 1 ELSE table[n]
    BY <1>1, <1>2, Names DEF ClassOf
  <1>4. \A k \in ClassId \ {Default} :
            k = ClassOf(k[1]) <=> k[2] = IF table[k[1]] = 0 THEN gen + 1 ELSE table[k[1]]
    BY <1>1, <1>2, Names DEF ClassOf
  <1> QED BY <1>1, <1>3, <1>4

\* What becomes of a class, in each of the four cases.
LEMMA ClassAfterIs ==
    ASSUME ConfInv, NEW cfg \in Configs, gen < MaxRehash, NEW k \in ClassId
    PROVE  LET K == ClassAfter(cfg, k) IN
           /\ K \in ClassRec
           /\ Fresh(cfg, k) =>
                 /\ K.alive /\ K.max \in Nat /\ K.perIp = cfg.perIp[k[1]] /\ K.users = 0
                 /\ \A n \in Net : K.ip[n] = 0 /\ K.refused[n] = 0
           /\ Kept(cfg, k) => K.alive /\ K.max \in Nat /\ K.perIp = cfg.perIp[k[1]]
           /\ Swept(cfg, k) =>
                 (K.alive <=> class[k].users > 0) /\ K.max = -1 /\ K.perIp = class[k].perIp
           /\ ~Fresh(cfg, k) =>
                 K.users = class[k].users /\ K.ip = class[k].ip /\ K.refused = class[k].refused
           /\ ~Fresh(cfg, k) /\ ~Kept(cfg, k) /\ ~Swept(cfg, k) => K = class[k]
  <1>1. PICK C \in ClassRec : C = class[k]
    BY DEF ConfInv, ConfTypeOK, ClassRec
  <1>2. PICK mx \in [ClassName -> Nat] : mx = cfg.max
    BY ConfigsAssumption
  <1>3. PICK pi \in [ClassName -> Nat] : pi = cfg.perIp
    BY ConfigsAssumption
  <1>4. k # Default =>
            /\ k[1] \in ClassName
            /\ k = ClassOf(k[1]) <=> k[2] = IF table[k[1]] = 0 THEN gen + 1 ELSE table[k[1]]
    BY ClassOfNames, Names
  <1>5. CASE Fresh(cfg, k)
    <2>1. ClassAfter(cfg, k) = NewClass(TRUE, mx[k[1]], pi[k[1]])
      BY <1>2, <1>3, <1>4, <1>5 DEF ClassAfter, Fresh
    <2>2. PICK a \in Nat : a = mx[k[1]]
      BY <1>4, <1>5 DEF Fresh
    <2>3. PICK b \in Nat : b = pi[k[1]]
      BY <1>4, <1>5 DEF Fresh
    <2>4. PICK K : K = NewClass(TRUE, a, b)
      OBVIOUS
    <2>5. /\ K \in ClassRec /\ K.alive /\ K.max = a /\ K.perIp = b /\ K.users = 0
          /\ K.ip = [n \in Net |-> 0] /\ K.refused = [n \in Net |-> 0]
      BY <2>4 DEF NewClass, ClassRec
    <2>6. ClassAfter(cfg, k) = K
      BY <2>1, <2>2, <2>3, <2>4
    <2>7. ~Kept(cfg, k) /\ ~Swept(cfg, k)
      BY <1>5 DEF Kept, Swept, Fresh
    <2>8. \A n \in Net : K.ip[n] = 0 /\ K.refused[n] = 0
      BY <2>5
    <2> QED BY <1>3, <1>5, <2>2, <2>3, <2>5, <2>6, <2>7, <2>8
  <1>6. CASE Kept(cfg, k)
    <2>1. ClassAfter(cfg, k) =
             [alive |-> TRUE, max |-> mx[k[1]], perIp |-> pi[k[1]],
              users |-> C.users, ip |-> C.ip, refused |-> C.refused]
      BY <1>1, <1>2, <1>3, <1>4, <1>6 DEF ClassAfter, Kept
    <2>2. mx[k[1]] \in Nat /\ pi[k[1]] \in Nat
      BY <1>4, <1>6 DEF Kept
    <2> QED BY <1>1, <1>3, <1>6, <2>1, <2>2 DEF Fresh, Kept, Swept, ClassRec
  <1>7. CASE Swept(cfg, k)
    <2>1. PICK al \in BOOLEAN : al <=> C.users > 0
      OBVIOUS
    <2>2. ClassAfter(cfg, k) =
             [alive |-> al, max |-> -1, perIp |-> C.perIp,
              users |-> C.users, ip |-> C.ip, refused |-> C.refused]
      BY <1>1, <1>4, <1>7, <2>1 DEF ClassAfter, Swept
    <2> QED BY <1>1, <1>7, <2>1, <2>2 DEF Fresh, Kept, Swept, ClassRec
  <1>8. CASE ~Fresh(cfg, k) /\ ~Kept(cfg, k) /\ ~Swept(cfg, k)
    <2>1. ClassAfter(cfg, k) = C
      BY <1>1, <1>4, <1>8 DEF ClassAfter, Fresh, Kept, Swept
    <2> QED BY <1>1, <1>8, <2>1 DEF Fresh, Kept, Swept
  <1> QED BY <1>5, <1>6, <1>7, <1>8

\* The classes after a rehash, and the same one fact at a time.
LEMMA ClassesAfter ==
    ASSUME ConfInv, NEW cfg \in Configs, gen < MaxRehash, NEW K,
           K = [k \in ClassId |-> ClassAfter(cfg, k)]
    PROVE  /\ K \in [ClassId -> ClassRec]
           /\ \A k \in ClassId : K[k].alive =>
                 K[k].users = Cardinality(InClass(k))
           /\ \A k \in ClassId \ (mixed \cup Mixed(cfg)), n \in Net :
                 K[k].alive /\ K[k].perIp > 0 =>
                    K[k].ip[n] = K[k].refused[n] + Cardinality(From(k, n))
           /\ \A k \in ClassId \ (mixed \cup Mixed(cfg)), n \in Net :
                 K[k].alive /\ K[k].perIp = 0 => K[k].ip[n] = K[k].refused[n]
           /\ \A k \in ClassId : class[k].alive /\ InClass(k) # {} => K[k].alive
           /\ \A n \in cfg.has : K[ClassOf(n)].alive /\ K[ClassOf(n)].max # -1
           /\ K[Default].alive /\ K[Default].max # -1
           /\ \A k \in ClassId \ {Default} :
                 K[k].alive => 0 < k[2] /\ k[2] <= gen + 1
           /\ \A k \in ClassId \ {Default} : K[k].alive =>
                 (K[k].max = -1 <=> ~(k[1] \in cfg.has /\ k = ClassOf(k[1])))
           /\ \A k \in ClassId \ ({Default} \cup strays) : K[k].alive /\ InClass(k) = {} =>
                 k[1] \in cfg.has /\ k = ClassOf(k[1])
  <1>1. \A k \in ClassId :
            /\ K[k] \in ClassRec
            /\ Fresh(cfg, k) =>
                  /\ K[k].alive /\ K[k].max \in Nat /\ K[k].perIp = cfg.perIp[k[1]] /\ K[k].users = 0
                  /\ \A n \in Net : K[k].ip[n] = 0 /\ K[k].refused[n] = 0
            /\ Kept(cfg, k) => K[k].alive /\ K[k].max \in Nat /\ K[k].perIp = cfg.perIp[k[1]]
            /\ Swept(cfg, k) =>
                  (K[k].alive <=> class[k].users > 0) /\ K[k].max = -1 /\ K[k].perIp = class[k].perIp
            /\ ~Fresh(cfg, k) =>
                  /\ K[k].users = class[k].users /\ K[k].ip = class[k].ip
                  /\ K[k].refused = class[k].refused
            /\ ~Fresh(cfg, k) /\ ~Kept(cfg, k) /\ ~Swept(cfg, k) => K[k] = class[k]
    <2> SUFFICES ASSUME NEW k \in ClassId
                 PROVE  /\ K[k] \in ClassRec
                        /\ Fresh(cfg, k) =>
                              /\ K[k].alive /\ K[k].max \in Nat /\ K[k].perIp = cfg.perIp[k[1]] /\ K[k].users = 0
                              /\ \A n \in Net : K[k].ip[n] = 0 /\ K[k].refused[n] = 0
                        /\ Kept(cfg, k) => K[k].alive /\ K[k].max \in Nat /\ K[k].perIp = cfg.perIp[k[1]]
                        /\ Swept(cfg, k) =>
                              (K[k].alive <=> class[k].users > 0) /\ K[k].max = -1 /\ K[k].perIp = class[k].perIp
                        /\ ~Fresh(cfg, k) =>
                              /\ K[k].users = class[k].users /\ K[k].ip = class[k].ip
                              /\ K[k].refused = class[k].refused
                        /\ ~Fresh(cfg, k) /\ ~Kept(cfg, k) /\ ~Swept(cfg, k) => K[k] = class[k]
      OBVIOUS
    <2>1. K[k] = ClassAfter(cfg, k)
      OBVIOUS
    <2> QED BY <2>1, ClassAfterIs
  <1>2. /\ \A k \in ClassId : class[k] \in ClassRec /\ (class[k].alive => class[k].users = Cardinality(InClass(k)))
        /\ \A k \in ClassId \ mixed, n \in Net : class[k].alive /\ class[k].perIp > 0 =>
              class[k].ip[n] = class[k].refused[n] + Cardinality(From(k, n))
        /\ \A k \in ClassId \ mixed, n \in Net : class[k].alive /\ class[k].perIp = 0 =>
              class[k].ip[n] = class[k].refused[n]
    BY DEF ConfInv, ConfTypeOK, RefsCounted, AddressesCounted, Uncounted, ClassRec
  <1>3. /\ \A k \in ClassId \ {Default} : class[k].alive =>
              0 < k[2] /\ k[2] <= gen /\ (class[k].max = -1 <=> table[k[1]] # k[2])
        /\ class[Default].alive /\ class[Default].max # -1
        /\ \A n \in ClassName : table[n] # 0 => class[<<n, table[n]>>].alive
    BY DEF ConfInv, NothingEarly, Marked, NothingDangles
  <1>4. \A k \in ClassId \ {Default} :
            /\ k[1] \in ClassName /\ k = <<k[1], k[2]>> /\ k[2] \in Nat
            /\ k = ClassOf(k[1]) <=> k[2] = IF table[k[1]] = 0 THEN gen + 1 ELSE table[k[1]]
    BY Names, ClassOfNames DEF Gen
  <1>5. gen \in Nat /\ Default \in ClassId /\ \A k : IsFiniteSet(InClass(k)) /\ \A n : IsFiniteSet(From(k, n))
    BY ClassOfNames, Names, Finite
  <1>6. \A k \in ClassId : InClass(k) # {} => class[k].alive
    BY Occupied
  <1>7. \A k \in ClassId : Fresh(cfg, k) => InClass(k) = {} /\ \A n : From(k, n) = {}
    BY <1>3, <1>5, <1>6 DEF Fresh, From
  <1>8. \A k \in ClassId : Kept(cfg, k) \/ Swept(cfg, k) => k # Default /\ class[k].alive
    BY <1>3, <1>4 DEF Kept, Swept
  <1>9. \A k \in ClassId : K[k].alive => class[k].alive \/ Fresh(cfg, k)
    BY <1>1, <1>8
  <1>10. \A k \in ClassId : K[k].alive => K[k].users = Cardinality(InClass(k))
    <2> SUFFICES ASSUME NEW k \in ClassId, K[k].alive PROVE K[k].users = Cardinality(InClass(k))
      OBVIOUS
    <2>1. CASE Fresh(cfg, k)
      <3>1. K[k].users = 0
        BY <1>1, <2>1
      <3>2. InClass(k) = {}
        BY <1>7, <2>1
      <3> QED BY <3>1, <3>2, FS_EmptySet
    <2>2. CASE ~Fresh(cfg, k)
      BY <1>1, <1>2, <1>9, <2>2
    <2> QED BY <2>1, <2>2
  <1>11. \A k \in ClassId \ (mixed \cup Mixed(cfg)), n \in Net : K[k].alive =>
             /\ K[k].perIp > 0 => K[k].ip[n] = K[k].refused[n] + Cardinality(From(k, n))
             /\ K[k].perIp = 0 => K[k].ip[n] = K[k].refused[n]
    <2> SUFFICES ASSUME NEW k \in ClassId \ (mixed \cup Mixed(cfg)), NEW n \in Net, K[k].alive
                 PROVE  /\ K[k].perIp > 0 =>
                              K[k].ip[n] = K[k].refused[n] + Cardinality(From(k, n))
                        /\ K[k].perIp = 0 => K[k].ip[n] = K[k].refused[n]
      OBVIOUS
    <2>1. CASE Fresh(cfg, k)
      <3>1. K[k].ip[n] = 0 /\ K[k].refused[n] = 0
        BY <1>1, <2>1
      <3>2. From(k, n) = {}
        BY <1>7, <2>1
      <3> QED BY <3>1, <3>2, FS_EmptySet
    <2>2. CASE ~Fresh(cfg, k)
      <3>1. class[k].alive /\ K[k].ip = class[k].ip /\ K[k].refused = class[k].refused
        BY <1>1, <1>9, <2>2
      <3>2. /\ class[k].perIp > 0 => class[k].ip[n] = class[k].refused[n] + Cardinality(From(k, n))
            /\ class[k].perIp = 0 => class[k].ip[n] = class[k].refused[n]
        BY <1>2, <3>1
      <3>3. class[k].perIp \in Nat /\ K[k].perIp \in Nat /\ class[k].refused[n] \in Nat
        BY <1>1, <1>2 DEF ClassRec
      <3>4. CASE class[k].perIp = 0 <=> K[k].perIp = 0
        BY <3>1, <3>2, <3>3, <3>4
      <3>5. CASE ~(class[k].perIp = 0 <=> K[k].perIp = 0)
        <4>1. Kept(cfg, k)
          BY <1>1, <2>2, <3>5
        <4>2. k # Default /\ k[1] \in cfg.has /\ table[k[1]] # 0 /\ k = ClassOf(k[1])
          BY <1>4, <4>1 DEF Kept
        <4>3. K[k].perIp = cfg.perIp[k[1]]
          BY <1>1, <4>1
        <4>4. InClass(k) \cap Client = {}
          BY <3>5, <4>2, <4>3 DEF Mixed
        <4>5. Cardinality(From(k, n)) = 0
          BY <4>4, FS_EmptySet DEF From
        <4> QED BY <3>1, <3>2, <3>3, <4>5
      <3> QED BY <3>4, <3>5
    <2> QED BY <2>1, <2>2
  <1>12. \A k \in ClassId : class[k].alive /\ InClass(k) # {} => K[k].alive
    <2> SUFFICES ASSUME NEW k \in ClassId, class[k].alive, InClass(k) # {} PROVE K[k].alive
      OBVIOUS
    <2>1. class[k].users = Cardinality(InClass(k)) /\ Cardinality(InClass(k)) > 0
      BY <1>2, <1>5, Nobody
    <2> QED BY <1>1, <2>1
  <1>13. \A n \in cfg.has : Fresh(cfg, ClassOf(n)) \/ Kept(cfg, ClassOf(n))
    BY ClassOfNames, ConfigsAssumption DEF Fresh, Kept
  <1>14. \A n \in cfg.has : K[ClassOf(n)].alive /\ K[ClassOf(n)].max # -1
    <2> SUFFICES ASSUME NEW n \in cfg.has PROVE K[ClassOf(n)].alive /\ K[ClassOf(n)].max # -1
      OBVIOUS
    <2>1. PICK k \in ClassId : k = ClassOf(n)
      BY ClassOfNames, ConfigsAssumption
    <2> QED BY <1>1, <1>13, <2>1
  <1>15. K[Default].alive /\ K[Default].max # -1
    BY <1>1, <1>3, <1>5 DEF Fresh, Kept, Swept
  <1>16. \A k \in ClassId \ {Default} : K[k].alive => 0 < k[2] /\ k[2] <= gen + 1
    <2> SUFFICES ASSUME NEW k \in ClassId \ {Default}, K[k].alive
                 PROVE  0 < k[2] /\ k[2] <= gen + 1
      OBVIOUS
    <2>1. CASE Fresh(cfg, k)
      BY <1>1, <1>5, <2>1 DEF Fresh
    <2>2. CASE ~Fresh(cfg, k)
      BY <1>1, <1>3, <1>4, <1>5, <1>9, <2>2
    <2> QED BY <2>1, <2>2
  <1>17. \A k \in ClassId \ {Default} :
             Fresh(cfg, k) \/ Kept(cfg, k) <=> k[1] \in cfg.has /\ k = ClassOf(k[1])
    BY <1>4 DEF Fresh, Kept
  <1>18. \A k \in ClassId \ {Default} :
             K[k].alive => (K[k].max = -1 <=> ~(k[1] \in cfg.has /\ k = ClassOf(k[1])))
    <2> SUFFICES ASSUME NEW k \in ClassId \ {Default}, K[k].alive
                 PROVE  K[k].max = -1 <=> ~(Fresh(cfg, k) \/ Kept(cfg, k))
      BY <1>17
    <2>1. CASE Fresh(cfg, k) \/ Kept(cfg, k)
      BY <1>1, <2>1
    <2>2. CASE ~Fresh(cfg, k) /\ ~Kept(cfg, k) /\ ~Swept(cfg, k)
      <3>1. K[k] = class[k] /\ class[k].alive /\ 0 < k[2] /\ k[2] <= gen
        BY <1>1, <1>3, <2>2
      <3>2. table[k[1]] # k[2]
        BY <2>2, <3>1 DEF Kept, Swept
      <3> QED BY <1>3, <2>2, <3>1, <3>2
    <2>3. CASE Swept(cfg, k)
      BY <1>1, <2>3 DEF Fresh, Kept, Swept
    <2> QED BY <2>1, <2>2, <2>3
  <1>19. \A k \in ClassId \ ({Default} \cup strays) : K[k].alive /\ InClass(k) = {} =>
             k[1] \in cfg.has /\ k = ClassOf(k[1])
    <2> SUFFICES ASSUME NEW k \in ClassId \ ({Default} \cup strays), K[k].alive, InClass(k) = {}
                 PROVE  Fresh(cfg, k) \/ Kept(cfg, k)
      BY <1>17
    <2>1. Cardinality(InClass(k)) = 0
      BY FS_EmptySet
    <2>2. ~Swept(cfg, k)
      <3>1. class[k].alive => class[k].users = 0
        BY <1>2, <2>1
      <3>2. Swept(cfg, k) => class[k].alive /\ class[k].users > 0
        BY <1>1, <1>8
      <3> QED BY <3>1, <3>2
    <2>3. (table[k[1]] = k[2] /\ k[2] > 0) \/ Fresh(cfg, k)
      <3>1. class[k].alive => table[k[1]] = k[2]
        BY DEF ConfInv, NothingLeaks
      <3> QED BY <1>3, <1>9, <3>1
    <2> QED BY <2>2, <2>3 DEF Kept, Swept
  <1>20. K \in [ClassId -> ClassRec]
    BY <1>1
  <1> QED BY <1>10, <1>11, <1>12, <1>14, <1>15, <1>16, <1>18, <1>19, <1>20

\* The blocks after a rehash: those that nobody holds are freed, the new ones are
\* of a class that is configured, or stray.
LEMMA BlocksAfter ==
    ASSUME ConfInv, NEW cfg \in Configs, gen < MaxRehash
    PROVE  /\ \A i \in AuthId :
                 /\ AuthAfter(cfg, i) \in [st : {"none", "legal", "illegal"}, class : ClassId, clients : Nat]
                 /\ AuthAfter(cfg, i).clients = Cardinality(UsersOf(i))
                 /\ UsersOf(i) # {} =>
                       AuthAfter(cfg, i).st = "illegal" /\ AuthAfter(cfg, i).class = auth[i].class
                 /\ AuthAfter(cfg, i).st = "illegal" =>
                       UsersOf(i) # {} /\ AuthAfter(cfg, i).class = auth[i].class /\ i[2] <= gen
                 /\ AuthAfter(cfg, i).st = "legal" =>
                       /\ i[2] = gen + 1
                       /\ AuthAfter(cfg, i).class \in {Default} \cup {ClassOf(n) : n \in cfg.has}
           /\ \A i \in LinkId :
                 /\ LinkAfter(cfg, i) \in LinkRec
                 /\ LinkAfter(cfg, i).servers = Cardinality(ServersOf(i))
                 /\ ServersOf(i) # {} =>
                       LinkAfter(cfg, i).st = "illegal" /\ LinkAfter(cfg, i).class = link[i].class
                 /\ LinkAfter(cfg, i).st = "illegal" =>
                       ServersOf(i) # {} /\ LinkAfter(cfg, i).class = link[i].class /\ i[2] <= gen
                 /\ LinkAfter(cfg, i).st = "legal" =>
                       /\ i[2] = gen + 1
                       /\ LinkAfter(cfg, i).class \in
                              {Default} \cup {ClassOf(n) : n \in cfg.has} \cup Strays(cfg)
  <1>1. gen \in Nat /\ \A n \in cfg.has : ClassOf(n) \in ClassId
    BY ClassOfNames, ConfigsAssumption
  <1>2. Default \in ClassId /\ None \notin AuthId /\ None \notin LinkId
    BY Names
  <1>3. ASSUME NEW i \in AuthId
        PROVE  /\ AuthAfter(cfg, i) \in [st : {"none", "legal", "illegal"}, class : ClassId, clients : Nat]
               /\ AuthAfter(cfg, i).clients = Cardinality(UsersOf(i))
               /\ UsersOf(i) # {} =>
                     AuthAfter(cfg, i).st = "illegal" /\ AuthAfter(cfg, i).class = auth[i].class
               /\ AuthAfter(cfg, i).st = "illegal" =>
                     UsersOf(i) # {} /\ AuthAfter(cfg, i).class = auth[i].class /\ i[2] <= gen
               /\ AuthAfter(cfg, i).st = "legal" =>
                     /\ i[2] = gen + 1
                     /\ AuthAfter(cfg, i).class \in {Default} \cup {ClassOf(n) : n \in cfg.has}
    <2>1. PICK B \in [st : {"none", "legal", "illegal"}, class : ClassId, clients : Nat] : B = auth[i]
      BY DEF ConfInv, ConfTypeOK
    <2>2. B.clients = Cardinality(UsersOf(i)) /\ (UsersOf(i) = {} <=> B.clients = 0)
      BY <2>1, Finite, Nobody DEF ConfInv, RefsCounted
    <2>3. UsersOf(i) # {} => i[2] <= gen
      BY <1>2 DEF UsersOf, ConfInv, NothingDangles, NothingEarly
    <2>4. CASE i[2] = gen + 1
      <3>1. PICK c : c = AuthClass(cfg, cfg.auth[i[1]])
        OBVIOUS
      <3>2. c \in {Default} \cup {ClassOf(n) : n \in cfg.has}
        BY <3>1 DEF AuthClass
      <3>3. c \in ClassId
        BY <1>1, <1>2, <3>2
      <3>4. AuthAfter(cfg, i) = [st |-> "legal", class |-> c, clients |-> 0]
        BY <2>4, <3>1 DEF AuthAfter
      <3>5. UsersOf(i) = {} /\ Cardinality(UsersOf(i)) = 0
        BY <1>1, <2>2, <2>3, <2>4
      <3> QED BY <2>4, <3>2, <3>3, <3>4, <3>5
    <2>5. CASE i[2] # gen + 1
      <3>1. AuthAfter(cfg, i) = [st |-> IF B.clients > 0 THEN "illegal" ELSE "none",
                                 class |-> B.class, clients |-> B.clients]
        BY <2>1, <2>5 DEF AuthAfter
      <3> QED BY <2>1, <2>2, <2>3, <3>1
    <2> QED BY <2>4, <2>5
  <1>4. ASSUME NEW i \in LinkId
        PROVE  /\ LinkAfter(cfg, i) \in LinkRec
               /\ LinkAfter(cfg, i).servers = Cardinality(ServersOf(i))
               /\ ServersOf(i) # {} =>
                     LinkAfter(cfg, i).st = "illegal" /\ LinkAfter(cfg, i).class = link[i].class
               /\ LinkAfter(cfg, i).st = "illegal" =>
                     ServersOf(i) # {} /\ LinkAfter(cfg, i).class = link[i].class /\ i[2] <= gen
               /\ LinkAfter(cfg, i).st = "legal" =>
                     /\ i[2] = gen + 1
                     /\ LinkAfter(cfg, i).class \in
                              {Default} \cup {ClassOf(n) : n \in cfg.has} \cup Strays(cfg)
    <2>1. PICK B \in LinkRec : B = link[i]
      BY DEF ConfInv, ConfTypeOK, LinkRec
    <2>2. B.servers = Cardinality(ServersOf(i)) /\ (ServersOf(i) = {} <=> B.servers = 0)
      BY <2>1, Finite, Nobody DEF ConfInv, RefsCounted
    <2>3. ServersOf(i) # {} => i[2] <= gen
      BY <1>2 DEF ServersOf, ConfInv, NothingDangles, NothingEarly
    <2>4. CASE i[2] = gen + 1
      <3>1. PICK c : c = LinkClass(cfg, cfg.link[i[1]])
        OBVIOUS
      <3>2. PICK n \in ClassName \cup {"default"} : n = cfg.link[i[1]]
        BY ConfigsAssumption DEF LinkId
      <3>7. ASSUME n \notin cfg.has, n # "default", table[n] # 0
            PROVE  ClassOf(n) \in Strays(cfg)
        <4>1. ClassOf(n) \in ClassId \ {Default} /\ ClassOf(n)[1] = n
          BY <3>7, ClassOfNames
        <4>2. i[1] \in Link /\ cfg.link[i[1]] = n
          BY <3>2 DEF LinkId
        <4> QED BY <3>7, <4>1, <4>2 DEF Strays
      <3>3. c \in {Default} \cup {ClassOf(m) : m \in cfg.has} \cup Strays(cfg)
        BY <3>1, <3>2, <3>7 DEF LinkClass
      <3>4. c \in ClassId
        BY <1>1, <1>2, <3>3 DEF Strays
      <3>5. LinkAfter(cfg, i) = [st |-> "legal", class |-> c, servers |-> 0]
        BY <2>4, <3>1 DEF LinkAfter
      <3>6. ServersOf(i) = {} /\ Cardinality(ServersOf(i)) = 0
        BY <1>1, <2>2, <2>3, <2>4
      <3> QED BY <2>4, <3>3, <3>4, <3>5, <3>6 DEF LinkRec
    <2>5. CASE i[2] # gen + 1
      <3>1. LinkAfter(cfg, i) = [st |-> IF B.servers > 0 THEN "illegal" ELSE "none",
                                 class |-> B.class, servers |-> B.servers]
        BY <2>1, <2>5 DEF LinkAfter
      <3> QED BY <2>1, <2>2, <2>3, <3>1 DEF LinkRec
    <2> QED BY <2>4, <2>5
  <1> QED BY <1>3, <1>4

\* rehash, and every block that it frees.
LEMMA RehashKeeps ==
    ASSUME ConfInv, NEW cfg \in Configs, Rehash(cfg)
    PROVE  ConfInv'
  <1>1. /\ gen < MaxRehash /\ gen' = gen + 1
        /\ table' = [n \in ClassName |-> IF n \in cfg.has THEN ClassOf(n)[2] ELSE 0]
        /\ class' = [k \in ClassId |-> ClassAfter(cfg, k)]
        /\ auth' = [i \in AuthId |-> AuthAfter(cfg, i)]
        /\ link' = [i \in LinkId |-> LinkAfter(cfg, i)]
        /\ strays' = strays \cup Strays(cfg) /\ mixed' = mixed \cup Mixed(cfg)
        /\ client' = client /\ peer' = peer
    BY DEF Rehash
  <1>2. PICK up \in SUBSET cfg.port : listener' = [p \in Port |-> ListenerAfter(up, p)]
    BY DEF Rehash
  <1>3. PICK K : K = [k \in ClassId |-> ClassAfter(cfg, k)]
    OBVIOUS
  <1>4. class' = K /\ K \in [ClassId -> ClassRec]
    BY <1>1, <1>3, ClassesAfter
  <1>5. \A i \in AuthId :
            /\ auth'[i] \in [st : {"none", "legal", "illegal"}, class : ClassId, clients : Nat]
            /\ auth'[i].clients = Cardinality(UsersOf(i))
            /\ UsersOf(i) # {} => auth'[i].st = "illegal" /\ auth'[i].class = auth[i].class
            /\ auth'[i].st = "illegal" =>
                  UsersOf(i) # {} /\ auth'[i].class = auth[i].class /\ i[2] <= gen
            /\ auth'[i].st = "legal" =>
                  i[2] = gen + 1 /\ auth'[i].class \in {Default} \cup {ClassOf(n) : n \in cfg.has}
    <2> SUFFICES ASSUME NEW i \in AuthId
                 PROVE  /\ auth'[i] \in [st : {"none", "legal", "illegal"}, class : ClassId, clients : Nat]
                        /\ auth'[i].clients = Cardinality(UsersOf(i))
                        /\ UsersOf(i) # {} => auth'[i].st = "illegal" /\ auth'[i].class = auth[i].class
                        /\ auth'[i].st = "illegal" =>
                              UsersOf(i) # {} /\ auth'[i].class = auth[i].class /\ i[2] <= gen
                        /\ auth'[i].st = "legal" =>
                              i[2] = gen + 1 /\ auth'[i].class \in {Default} \cup {ClassOf(n) : n \in cfg.has}
      OBVIOUS
    <2>1. auth'[i] = AuthAfter(cfg, i)
      BY <1>1
    <2> QED BY <1>1, <2>1, BlocksAfter
  <1>6. \A i \in LinkId :
            /\ link'[i] \in LinkRec
            /\ link'[i].servers = Cardinality(ServersOf(i))
            /\ ServersOf(i) # {} => link'[i].st = "illegal" /\ link'[i].class = link[i].class
            /\ link'[i].st = "illegal" =>
                  ServersOf(i) # {} /\ link'[i].class = link[i].class /\ i[2] <= gen
            /\ link'[i].st = "legal" =>
                  /\ i[2] = gen + 1
                  /\ link'[i].class \in {Default} \cup {ClassOf(n) : n \in cfg.has} \cup Strays(cfg)
    <2> SUFFICES ASSUME NEW i \in LinkId
                 PROVE  /\ link'[i] \in LinkRec
                        /\ link'[i].servers = Cardinality(ServersOf(i))
                        /\ ServersOf(i) # {} => link'[i].st = "illegal" /\ link'[i].class = link[i].class
                        /\ link'[i].st = "illegal" =>
                              ServersOf(i) # {} /\ link'[i].class = link[i].class /\ i[2] <= gen
                        /\ link'[i].st = "legal" =>
                              /\ i[2] = gen + 1
                              /\ link'[i].class \in
                                    {Default} \cup {ClassOf(n) : n \in cfg.has} \cup Strays(cfg)
      OBVIOUS
    <2>1. link'[i] = LinkAfter(cfg, i)
      BY <1>1
    <2> QED BY <1>1, <2>1, BlocksAfter
  <1>7. /\ \A u \in Client : client[u].conf # None =>
              client[u].conf \in AuthId /\ u \in UsersOf(client[u].conf)
        /\ \A s \in Server : peer[s] # None => peer[s] \in LinkId /\ s \in ServersOf(peer[s])
    BY DEF ConfInv, ConfTypeOK, UsersOf, ServersOf
  <1>8. /\ \A i : UsersOf(i)' = UsersOf(i) /\ ServersOf(i)' = ServersOf(i)
        /\ \A k : InClass(k)' = InClass(k)
        /\ \A k, n : From(k, n)' = From(k, n)
    <2>1. \A u \in Client : client[u].conf # None =>
              auth'[client[u].conf].class = auth[client[u].conf].class
      BY <1>5, <1>7
    <2>2. \A s \in Server : peer[s] # None => link'[peer[s]].class = link[peer[s]].class
      BY <1>6, <1>7
    <2>3. peer' = peer /\ \A v \in Client : client'[v].conf = client[v].conf
      BY <1>1
    <2> QED BY <2>1, <2>2, <2>3, SameHolders
  <1>9. \A p \in Port : HoldersOf(p)' = HoldersOf(p)
    BY <1>1 DEF HoldersOf
  <1>10. \A p \in Port :
             /\ listener'[p] \in [st : {"none", "active", "closed"}, refs : Nat]
             /\ listener'[p].refs = Cardinality(HoldersOf(p))
             /\ HoldersOf(p) # {} => listener'[p].st # "none"
             /\ listener'[p].st = "closed" => HoldersOf(p) # {}
    <2> SUFFICES ASSUME NEW p \in Port
                 PROVE  /\ listener'[p] \in [st : {"none", "active", "closed"}, refs : Nat]
                        /\ listener'[p].refs = Cardinality(HoldersOf(p))
                        /\ HoldersOf(p) # {} => listener'[p].st # "none"
                        /\ listener'[p].st = "closed" => HoldersOf(p) # {}
      OBVIOUS
    <2>1. PICK B \in [st : {"none", "active", "closed"}, refs : Nat] : B = listener[p]
      BY DEF ConfInv, ConfTypeOK
    <2>2. B.refs = Cardinality(HoldersOf(p)) /\ (HoldersOf(p) = {} <=> B.refs = 0)
      BY <2>1, Finite, Nobody DEF ConfInv, RefsCounted
    <2>3. listener'[p] = [st |-> IF p \in up THEN "active" ELSE IF B.refs > 0 THEN "closed" ELSE "none",
                          refs |-> B.refs]
      BY <1>2, <2>1 DEF ListenerAfter
    <2> QED BY <2>1, <2>2, <2>3
  <1>11. gen \in Nat /\ gen + 1 \in Gen /\ gen' = gen + 1
    BY <1>1, ClassOfNames
  <1>12. \A n \in ClassName :
             /\ ClassOf(n) \in ClassId \ {Default} /\ ClassOf(n) = <<n, ClassOf(n)[2]>>
             /\ ClassOf(n)[2] \in Gen /\ ClassOf(n)[2] <= gen + 1
    <2>1. \A n \in ClassName : ClassOf(n) \in ClassId \ {Default} /\ ClassOf(n)[1] = n
      BY <1>1, ClassOfNames
    <2>2. \A n \in ClassName : ClassOf(n)[2] \in Gen /\ ClassOf(n) = <<n, ClassOf(n)[2]>>
      BY <2>1, Names
    <2>3. \A n \in ClassName : table[n] <= gen /\ ClassOf(n)[2] = IF table[n] = 0 THEN gen + 1 ELSE table[n]
      BY <1>1, ClassOfNames DEF ConfInv, NothingEarly
    <2>4. \A n \in ClassName : ClassOf(n)[2] <= gen + 1
      BY <1>11, <2>2, <2>3 DEF Gen
    <2> QED BY <2>1, <2>2, <2>4
  <1>13. ConfTypeOK'
    <2>1. table' \in [ClassName -> Gen]
      BY <1>1, <1>12, ConfRefsAssumption DEF Gen
    <2>2. auth' \in [AuthId -> [st : {"none", "legal", "illegal"}, class : ClassId, clients : Nat]]
      BY <1>1, <1>5
    <2>3. link' \in [LinkId -> LinkRec]
      BY <1>1, <1>6
    <2>4. listener' \in [Port -> [st : {"none", "active", "closed"}, refs : Nat]]
      BY <1>2, <1>10
    <2>5. strays' \subseteq ClassId /\ mixed' \subseteq ClassId
      BY <1>1 DEF ConfInv, ConfTypeOK, Strays, Mixed
    <2> QED BY <1>1, <1>4, <1>11, <2>1, <2>2, <2>3, <2>4, <2>5
               DEF ConfInv, ConfTypeOK, ClassRec, LinkRec
  <1>14. /\ \A k \in ClassId : K[k].alive => K[k].users = Cardinality(InClass(k))
         /\ \A k \in ClassId \ (mixed \cup Mixed(cfg)), n \in Net :
               K[k].alive /\ K[k].perIp > 0 =>
                  K[k].ip[n] = K[k].refused[n] + Cardinality(From(k, n))
         /\ \A k \in ClassId \ (mixed \cup Mixed(cfg)), n \in Net :
               K[k].alive /\ K[k].perIp = 0 => K[k].ip[n] = K[k].refused[n]
         /\ \A k \in ClassId : class[k].alive /\ InClass(k) # {} => K[k].alive
         /\ \A n \in cfg.has : K[ClassOf(n)].alive /\ K[ClassOf(n)].max # -1
         /\ K[Default].alive /\ K[Default].max # -1
         /\ \A k \in ClassId \ {Default} :
               K[k].alive => 0 < k[2] /\ k[2] <= gen + 1
         /\ \A k \in ClassId \ {Default} : K[k].alive =>
               (K[k].max = -1 <=> ~(k[1] \in cfg.has /\ k = ClassOf(k[1])))
         /\ \A k \in ClassId \ ({Default} \cup strays) : K[k].alive /\ InClass(k) = {} =>
               k[1] \in cfg.has /\ k = ClassOf(k[1])
    BY <1>1, <1>3, ClassesAfter
  <1>15. \A k \in {Default} \cup {ClassOf(n) : n \in cfg.has} : K[k].alive /\ K[k].max # -1
    BY <1>14
  <1>16. RefsCounted'
    BY <1>4, <1>5, <1>6, <1>8, <1>9, <1>10, <1>14 DEF RefsCounted
  <1>17. AddressesCounted' /\ Uncounted'
    BY <1>1, <1>4, <1>8, <1>14 DEF AddressesCounted, Uncounted
  <1>18. \A i \in AuthId : auth'[i].st # "none" => K[auth'[i].class].alive
    <2> SUFFICES ASSUME NEW i \in AuthId, auth'[i].st # "none" PROVE K[auth'[i].class].alive
      OBVIOUS
    <2>1. CASE auth'[i].st = "legal"
      BY <1>5, <1>15, <2>1
    <2>2. CASE auth'[i].st # "legal"
      <3>1. auth'[i].st = "illegal"
        BY <1>5, <2>2
      <3>2. UsersOf(i) # {} /\ auth'[i].class = auth[i].class
        BY <1>5, <3>1
      <3>3. PICK u \in Client : client[u].conf = i
        BY <3>2 DEF UsersOf
      <3>4. i # None
        BY Names
      <3>5. u \in InClass(auth[i].class)
        BY <3>3, <3>4 DEF InClass
      <3>6. auth[i].class \in ClassId /\ class[auth[i].class].alive
        BY <3>3, <3>4 DEF ConfInv, ConfTypeOK, NothingDangles
      <3> QED BY <1>14, <3>2, <3>5, <3>6
    <2> QED BY <2>1, <2>2
  <1>19. \A k \in ClassId : InClass(k) # {} => K[k].alive
    BY <1>14, Occupied
  <1>27. \A s \in Server : peer[s] # None =>
             link'[peer[s]].st = "illegal" /\ K[link'[peer[s]].class].alive
    <2> SUFFICES ASSUME NEW s \in Server, peer[s] # None
                 PROVE  link'[peer[s]].st = "illegal" /\ K[link'[peer[s]].class].alive
      OBVIOUS
    <2>1. peer[s] \in LinkId /\ link'[peer[s]].st = "illegal"
          /\ link'[peer[s]].class = link[peer[s]].class
      BY <1>6, <1>7
    <2>2. s \in InClass(link[peer[s]].class) /\ link[peer[s]].class \in ClassId
      BY <2>1 DEF InClass, ConfInv, ConfTypeOK
    <2> QED BY <1>19, <2>1, <2>2
  <1>28. \A i \in LinkId : link'[i].st # "none" =>
             K[link'[i].class].alive \/ link'[i].class \in strays'
    <2> SUFFICES ASSUME NEW i \in LinkId, link'[i].st # "none"
                 PROVE  K[link'[i].class].alive \/ link'[i].class \in strays'
      OBVIOUS
    <2>1. CASE link'[i].st = "legal"
      BY <1>1, <1>6, <1>15, <2>1
    <2>2. CASE link'[i].st # "legal"
      <3>1. link'[i].st = "illegal"
        BY <1>6, <2>2 DEF LinkRec
      <3>2. ServersOf(i) # {}
        BY <1>6, <3>1
      <3>3. PICK s \in Server : peer[s] = i
        BY <3>2 DEF ServersOf
      <3>4. i # None
        BY Names
      <3> QED BY <1>27, <3>3, <3>4
    <2> QED BY <2>1, <2>2
  <1>20. NothingDangles'
    <2>1. \A u \in Client : client'[u].conf # None => auth'[client'[u].conf].st # "none"
      BY <1>1, <1>5, <1>7
    <2>2. \A s \in Server : peer'[s] # None =>
              link'[peer'[s]].st # "none" /\ K[link'[peer'[s]].class].alive
      BY <1>1, <1>27
    <2>3. \A u \in Client : client'[u].port # None => listener'[client'[u].port].st # "none"
      <3>1. \A u \in Client : client[u].port # None =>
                client[u].port \in Port /\ u \in HoldersOf(client[u].port)
        BY DEF ConfInv, ConfTypeOK, HoldersOf
      <3> QED BY <1>1, <1>10, <3>1
    <2>4. \A n \in ClassName : table'[n] # 0 => K[<<n, table'[n]>>].alive
      <3> SUFFICES ASSUME NEW n \in ClassName, table'[n] # 0 PROVE K[<<n, table'[n]>>].alive
        OBVIOUS
      <3>1. n \in cfg.has /\ table'[n] = ClassOf(n)[2]
        BY <1>1
      <3>2. <<n, table'[n]>> = ClassOf(n)
        BY <1>12, <3>1
      <3> QED BY <1>14, <3>1, <3>2
    <2> QED BY <1>4, <1>18, <1>28, <2>1, <2>2, <2>3, <2>4 DEF NothingDangles
  <1>21. \A k \in ClassId \ {Default} :
             (k[1] \in cfg.has /\ k = ClassOf(k[1])) => table'[k[1]] = k[2]
    BY <1>1, Names
  <1>22. \A k \in ClassId \ {Default} : 0 < k[2] /\ table'[k[1]] = k[2] =>
             k[1] \in cfg.has /\ k = ClassOf(k[1])
    <2> SUFFICES ASSUME NEW k \in ClassId \ {Default}, 0 < k[2], table'[k[1]] = k[2]
                 PROVE  k[1] \in cfg.has /\ k = ClassOf(k[1])
      OBVIOUS
    <2>1. k[1] \in ClassName /\ k[2] # 0 /\ k = <<k[1], k[2]>>
      BY Names
    <2>2. k[1] \in cfg.has /\ ClassOf(k[1])[2] = k[2]
      BY <1>1, <2>1
    <2> QED BY <1>12, <2>1, <2>2
  <1>23. NothingLeaks'
    BY <1>1, <1>4, <1>5, <1>6, <1>8, <1>9, <1>10, <1>14, <1>21 DEF NothingLeaks
  <1>24. Stages'
    BY <1>1 DEF ConfInv, Stages
  <1>25. NothingEarly'
    <2>1. \A i \in AuthId : auth'[i].st # "none" => i[2] <= gen + 1
      <3>1. \A i \in AuthId : i[2] \in Nat
        BY DEF AuthId, Gen
      <3> QED BY <1>5, <1>11, <3>1
    <2>2. \A i \in LinkId : link'[i].st # "none" => i[2] <= gen + 1
      <3>1. \A i \in LinkId : i[2] \in Nat
        BY DEF LinkId, Gen
      <3> QED BY <1>6, <1>11, <3>1 DEF LinkRec
    <2>3. \A n \in ClassName : table'[n] <= gen + 1
      BY <1>1, <1>11, <1>12
    <2> QED BY <1>4, <1>11, <1>14, <2>1, <2>2, <2>3 DEF NothingEarly
  <1>26. Marked'
    <2>1. \A k \in ClassId \ {Default} : K[k].alive => (K[k].max = -1 <=> table'[k[1]] # k[2])
      BY <1>14, <1>21, <1>22
    <2>2. \A i \in AuthId : auth'[i].st = "legal" => K[auth'[i].class].max # -1
      BY <1>5, <1>15
    <2>3. \A i \in LinkId : link'[i].st = "legal" =>
              K[link'[i].class].max # -1 \/ link'[i].class \in strays'
      BY <1>1, <1>6, <1>15
    <2> QED BY <1>4, <1>14, <2>1, <2>2, <2>3 DEF Marked
  <1> QED BY <1>13, <1>16, <1>17, <1>20, <1>23, <1>24, <1>25, <1>26 DEF ConfInv

\* Every step of the configuration keeps the invariant.
LEMMA ConfStays ==
    ASSUME ConfInv, [ConfNext]_confVars
    PROVE  ConfInv'
  <1>1. CASE UNCHANGED confVars
    <2>1. /\ gen' = gen /\ table' = table /\ class' = class /\ auth' = auth /\ link' = link
          /\ listener' = listener /\ client' = client /\ peer' = peer
          /\ strays' = strays /\ mixed' = mixed
      BY <1>1 DEF confVars, spoilt
    <2>2. /\ \A i : UsersOf(i)' = UsersOf(i) /\ ServersOf(i)' = ServersOf(i)
          /\ \A p : HoldersOf(p)' = HoldersOf(p)
          /\ \A k : InClass(k)' = InClass(k)
          /\ \A k, n : From(k, n)' = From(k, n)
      BY <2>1 DEF UsersOf, ServersOf, HoldersOf, InClass, From
    <2>3. ConfTypeOK' /\ Stages' /\ NothingEarly' /\ Marked' /\ NothingDangles'
      <3>1. ConfTypeOK'
        BY <2>1 DEF ConfInv, ConfTypeOK
      <3>2. Stages' /\ NothingEarly' /\ Marked'
        BY <2>1 DEF ConfInv, Stages, NothingEarly, Marked
      <3>3. NothingDangles'
        BY <2>1 DEF ConfInv, NothingDangles
      <3> QED BY <3>1, <3>2, <3>3
    <2>4. RefsCounted' /\ NothingLeaks' /\ AddressesCounted' /\ Uncounted'
      <3>1. RefsCounted'
        BY <2>1, <2>2 DEF ConfInv, RefsCounted
      <3>2. NothingLeaks'
        BY <2>1, <2>2 DEF ConfInv, NothingLeaks
      <3>3. AddressesCounted' /\ Uncounted'
        BY <2>1, <2>2 DEF ConfInv, AddressesCounted, Uncounted
      <3> QED BY <3>1, <3>2, <3>3
    <2> QED BY <2>3, <2>4 DEF ConfInv
  <1>2. ASSUME NEW u \in Client, NEW p \in Port, AddConnection(u, p) PROVE ConfInv'
    BY <1>2, AddConnectionKeeps
  <1>3. ASSUME NEW u \in Client, NEW i \in AuthId, AttachConf(u, i) PROVE ConfInv'
    BY <1>3, AttachConfKeeps
  <1>4. ASSUME NEW u \in Client, NEW i \in AuthId, AttachFull(u, i) PROVE ConfInv'
    BY <1>4, AttachFullKeeps
  <1>5. ASSUME NEW u \in Client, CloseConnection(u) PROVE ConfInv'
    BY <1>5, CloseWithoutConf, CloseWithConf
  <1>6. ASSUME NEW u \in Client, FreeLocalClient(u) PROVE ConfInv'
    BY <1>6, FreeLocalClientKeeps
  <1>7. ASSUME NEW s \in Server, NEW i \in LinkId, AttachServerConf(s, i) PROVE ConfInv'
    BY <1>7, AttachServerConfKeeps
  <1>8. ASSUME NEW s \in Server, DetachServerConf(s) PROVE ConfInv'
    BY <1>8, DetachServerConfKeeps
  <1>9. ASSUME NEW cfg \in Configs, Rehash(cfg) PROVE ConfInv'
    BY <1>9, RehashKeeps
  <1> QED BY <1>1, <1>2, <1>3, <1>4, <1>5, <1>6, <1>7, <1>8, <1>9 DEF ConfNext

\* What is counted is what is there, whatever was rehashed in between, with limits
\* or without and with blocks of classes that are configured or not: the counts are
\* those of the holders, nothing that is held is freed, and nothing that a rehash
\* took out stays when its last holder leaves, where no connect{} block took it.
THEOREM ConfRight == ConfSpec => []ConfInv
  <1>1. ConfInit => ConfInv
    BY ConfStarts
  <1>2. ConfInv /\ [ConfNext]_confVars => ConfInv'
    BY ConfStays
  <1> QED BY <1>1, <1>2, PTL DEF ConfSpec

-----------------------------------------------------------------------------
(* Part two: Presence.                                                     *)

NicksDistinct == \A u, v \in User : Online(u) /\ nick[u] = nick[v] => u = v

PresenceInv ==
    /\ PresenceTypeOK /\ NicksDistinct
    /\ HistoryLive /\ WatchersMutual /\ WatchersTold /\ AcceptMutual

-----------------------------------------------------------------------------
(* The parts that several steps share.                                     *)

\* A nick change leaves the ring and the lists of slots in step.
LEMMA RenameKeepsHistory ==
    ASSUME PresenceInv, NEW u \in User, NEW n \in Nick, Online(u),
           AddHistory(u), nick' = [nick EXCEPT ![u] = n]
    PROVE  /\ whowas' \in [Slot -> [name : Nick \cup {NoNick}, online : User \cup {NoUser}]]
           /\ whowas_next' \in Slot /\ history' \in [User -> SUBSET Slot]
           /\ HistoryLive'
  <1>1. whowas_next' \in Slot
    BY PresenceAssumption DEF PresenceInv, PresenceTypeOK, AddHistory, Slot
  <1>2. whowas' \in [Slot -> [name : Nick \cup {NoNick}, online : User \cup {NoUser}]]
    BY DEF PresenceInv, PresenceTypeOK, AddHistory
  <1>3. history' \in [User -> SUBSET Slot]
    BY DEF PresenceInv, PresenceTypeOK, AddHistory
  <1>4. \A k \in Slot : \A v \in User : whowas'[k].online = v <=> k \in history'[v]
    BY DEF PresenceInv, PresenceTypeOK, AddHistory, HistoryLive
  <1>5. \A v \in User : history'[v] # {} => nick'[v] # NoNick
    BY PresenceAssumption
    DEF PresenceInv, PresenceTypeOK, AddHistory, HistoryLive, Online
  <1> QED BY <1>1, <1>2, <1>3, <1>4, <1>5 DEF HistoryLive, Online

\* So does an exit, after which nothing points to the one who has gone.
LEMMA ExitKeepsHistory ==
    ASSUME PresenceInv, NEW u \in User, Online(u),
           CloseHistory(u), nick' = [nick EXCEPT ![u] = NoNick]
    PROVE  /\ whowas' \in [Slot -> [name : Nick \cup {NoNick}, online : User \cup {NoUser}]]
           /\ whowas_next' \in Slot /\ history' \in [User -> SUBSET Slot]
           /\ HistoryLive'
  <1>1. whowas_next' \in Slot
    BY PresenceAssumption DEF PresenceInv, PresenceTypeOK, CloseHistory, Slot
  <1>2. whowas' \in [Slot -> [name : Nick \cup {NoNick}, online : User \cup {NoUser}]]
    BY DEF PresenceInv, PresenceTypeOK, CloseHistory
  <1>3. history' \in [User -> SUBSET Slot]
    BY DEF PresenceInv, PresenceTypeOK, CloseHistory
  <1>4. \A k \in Slot : \A v \in User : whowas'[k].online = v <=> k \in history'[v]
    BY PresenceAssumption DEF PresenceInv, PresenceTypeOK, CloseHistory, HistoryLive
  <1>5. \A v \in User : history'[v] # {} => nick'[v] # NoNick
    BY DEF PresenceInv, PresenceTypeOK, CloseHistory, HistoryLive, Online
  <1> QED BY <1>1, <1>2, <1>3, <1>4, <1>5 DEF HistoryLive, Online

\* One more element is at most one more, so a limit that is not reached is kept.
LEMMA OneMoreFits ==
    ASSUME NEW S, IsFiniteSet(S), NEW x, NEW limit \in Nat, Cardinality(S) < limit
    PROVE  Cardinality(S \cup {x}) <= limit
  <1>1. Cardinality(S) \in Nat
    BY FS_CardinalityType
  <1>2. Cardinality(S \cup {x}) = IF x \in S THEN Cardinality(S) ELSE Cardinality(S) + 1
    BY FS_AddElement
  <1> QED BY <1>1, <1>2

\* Taking entries away never makes a list longer than it may be.
LEMMA ShorterAllow ==
    ASSUME PresenceTypeOK, allow' \in [Local -> SUBSET User],
           \A w \in Local : allow'[w] \subseteq allow[w]
    PROVE  \A w \in Local : Cardinality(allow'[w]) <= MaxAccept
  <1> TAKE w \in Local
  <1>1. IsFiniteSet(allow[w])
    BY FS_Subset, PresenceAssumption DEF PresenceTypeOK
  <1>2. Cardinality(allow'[w]) <= Cardinality(allow[w])
    BY <1>1, FS_Subset
  <1>3. Cardinality(allow'[w]) \in Nat /\ Cardinality(allow[w]) \in Nat
    BY <1>1, FS_Subset, FS_CardinalityType
  <1> QED BY <1>2, <1>3, PresenceAssumption DEF PresenceTypeOK

\* A list that has only lost nicks is not too long.
LEMMA ShorterMonitor ==
    ASSUME PresenceTypeOK, monitor_list' \in [Local -> SUBSET Nick],
           \A w \in Local : monitor_list'[w] \subseteq monitor_list[w]
    PROVE  \A w \in Local : Cardinality(monitor_list'[w]) <= MaxMonitor
  <1> TAKE w \in Local
  <1>1. IsFiniteSet(monitor_list[w])
    BY FS_Subset, PresenceAssumption DEF PresenceTypeOK
  <1>2. Cardinality(monitor_list'[w]) <= Cardinality(monitor_list[w])
    BY <1>1, FS_Subset
  <1>3. Cardinality(monitor_list'[w]) \in Nat /\ Cardinality(monitor_list[w]) \in Nat
    BY <1>1, FS_Subset, FS_CardinalityType
  <1> QED BY <1>2, <1>3, PresenceAssumption DEF PresenceTypeOK

\* Whatever a step takes off the accept lists it takes off both ends.
LEMMA LeaveKeepsAccepts ==
    ASSUME PresenceInv, NEW u \in User, LeaveAllowLists(u),
           \A v \in User : Online(v) => Online(v)'
    PROVE  /\ allow' \in [Local -> SUBSET User] /\ on_allow' \in [User -> SUBSET Local]
           /\ \A w \in Local : Cardinality(allow'[w]) <= MaxAccept
           /\ AcceptMutual'
  <1>1. allow' \in [Local -> SUBSET User] /\ on_allow' \in [User -> SUBSET Local]
    BY DEF PresenceInv, PresenceTypeOK, LeaveAllowLists
  <1>2. \A w \in Local : allow'[w] \subseteq allow[w]
    BY DEF PresenceInv, PresenceTypeOK, LeaveAllowLists
  <1>3. \A w \in Local : \A v \in User : v \in allow'[w] <=> w \in on_allow'[v]
    BY DEF PresenceInv, PresenceTypeOK, LeaveAllowLists, AcceptMutual
  <1>4. \A v \in User : on_allow'[v] \subseteq on_allow[v]
    BY DEF PresenceInv, PresenceTypeOK, LeaveAllowLists
  <1>5. /\ \A w \in Local : allow'[w] # {} => Online(w)'
        /\ \A v \in User : on_allow'[v] # {} => Online(v)'
    BY <1>2, <1>4 DEF PresenceInv, AcceptMutual, User
  <1> QED BY <1>1, <1>2, <1>3, <1>5, ShorterAllow DEF PresenceInv, AcceptMutual

\* del_all_accepts takes u out of both sides.
LEMMA DelAllKeepsAccepts ==
    ASSUME PresenceInv, NEW u \in User, DelAllAccepts(u),
           \A v \in User \ {u} : Online(v) => Online(v)'
    PROVE  /\ allow' \in [Local -> SUBSET User] /\ on_allow' \in [User -> SUBSET Local]
           /\ \A w \in Local : Cardinality(allow'[w]) <= MaxAccept
           /\ AcceptMutual'
  <1>1. allow' \in [Local -> SUBSET User] /\ on_allow' \in [User -> SUBSET Local]
    BY DEF PresenceInv, PresenceTypeOK, DelAllAccepts
  <1>2. \A w \in Local : allow'[w] \subseteq allow[w]
    BY DEF PresenceInv, PresenceTypeOK, DelAllAccepts
  <1>3. \A w \in Local : \A v \in User : v \in allow'[w] <=> w \in on_allow'[v]
    BY DEF PresenceInv, PresenceTypeOK, DelAllAccepts, AcceptMutual, User
  <1>4. \A v \in User : on_allow'[v] \subseteq on_allow[v]
    BY DEF PresenceInv, PresenceTypeOK, DelAllAccepts
  <1>5. on_allow'[u] = {} /\ (u \in Local => allow'[u] = {})
    BY DEF DelAllAccepts
  <1>6. /\ \A w \in Local : allow'[w] # {} => Online(w)'
        /\ \A v \in User : on_allow'[v] # {} => Online(v)'
    BY <1>2, <1>4, <1>5 DEF PresenceInv, AcceptMutual, User
  <1> QED BY <1>1, <1>2, <1>3, <1>6, ShorterAllow DEF PresenceInv, AcceptMutual

-----------------------------------------------------------------------------
(* Nick changes.                                                           *)

\* A nick change leaves a nick with one user, and the watchers told.
LEMMA RenameTells ==
    ASSUME PresenceInv, NEW u \in User, NEW n \in Nick, Renames(u, n)
    PROVE  /\ nick' \in [User -> Nick \cup {NoNick}]
           /\ told' \in [Local -> SUBSET Nick]
           /\ \A v \in User : Online(v) <=> Online(v)'
           /\ NicksDistinct' /\ WatchersTold'
  <1>1. nick' = [nick EXCEPT ![u] = n] /\ nick[u] # NoNick /\ n # NoNick
        /\ nick \in [User -> Nick \cup {NoNick}]
    BY PresenceAssumption DEF Renames, Online, PresenceInv, PresenceTypeOK
  <1>2. nick' \in [User -> Nick \cup {NoNick}]
    BY <1>1
  <1>3. \A v \in User : Online(v) <=> Online(v)'
    BY <1>1 DEF Online
  <1>4. NicksDistinct'
    BY <1>1, <1>3 DEF NicksDistinct, Renames, Free, PresenceInv, Online
  <1>5. told' \in [Local -> SUBSET Nick]
    BY <1>1 DEF Renames, Announce, PresenceInv, PresenceTypeOK
  <1>6. WatchersTold'
    <2>0. PICK old \in Nick : old = nick[u]
      BY <1>1
    <2>1. \A m \in Nick : m # n /\ m # old => (Free(m) <=> Free(m)')
      BY <1>1, <2>0 DEF Free
    <2>2. ~Free(n)'
      BY <1>1 DEF Free
    <2>3. n # old => Free(old)'
      BY <1>1, <2>0 DEF Free, NicksDistinct, PresenceInv, Online
    <2>4. monitor_list' = monitor_list
      BY DEF Renames, monitoring
    <2>5. CASE n = nick[u]
      BY <1>1, <2>4, <2>5 DEF Renames, WatchersTold, PresenceInv, Free
    <2>6. CASE n # nick[u]
      <3>1. told' = [w \in Local |->
                (told[w] \ {m \in {nick[u]} : w \in watchers[m]})
                \cup {m \in {n} : w \in watchers[m]}]
        BY <2>6 DEF Renames, Announce
      <3>3. SUFFICES ASSUME NEW w \in Local
                     PROVE  told'[w] = {m \in monitor_list[w] : ~Free(m)'}
        BY <2>4 DEF WatchersTold
      <3>4. told[w] = {m \in monitor_list[w] : ~Free(m)} /\ monitor_list[w] \subseteq Nick
        BY DEF PresenceInv, WatchersTold, PresenceTypeOK
      <3>5. \A m \in Nick : w \in watchers[m] <=> m \in monitor_list[w]
        BY DEF PresenceInv, WatchersMutual
      <3>6. told'[w] = (told[w] \ {m \in {old} : w \in watchers[m]})
                       \cup {m \in {n} : w \in watchers[m]}
        BY <2>0, <3>1
      <3>7. \A m : m \in told'[w] <=> m \in monitor_list[w] /\ ~Free(m)'
        BY <2>0, <2>1, <2>2, <2>3, <2>6, <3>4, <3>5, <3>6
      <3> QED BY <3>7
    <2> QED BY <2>5, <2>6
  <1> QED BY <1>2, <1>3, <1>4, <1>5, <1>6

\* The watchers are not touched, and nobody comes or goes.
LEMMA WatchersStay ==
    ASSUME PresenceInv, UNCHANGED monitoring, \A v \in User : Online(v) => Online(v)'
    PROVE  WatchersMutual'
  BY DEF PresenceInv, WatchersMutual, monitoring, User

\* All three kinds of nick change.
LEMMA NickChangeKeeps ==
    ASSUME PresenceInv, NEW u \in User, NEW n \in Nick, NickChange(u, n)
    PROVE  PresenceInv'
  <1>1. Renames(u, n) /\ (LeaveAllowLists(u) \/ DelAllAccepts(u))
    BY DEF NickChange, ChangeLocalNick, ChangeRemoteNick, ChangeNickUserHost
  <1>2. /\ Online(u) /\ AddHistory(u) /\ nick' = [nick EXCEPT ![u] = n]
        /\ UNCHANGED <<exited, monitoring>>
    BY <1>1 DEF Renames
  <1>3. /\ nick' \in [User -> Nick \cup {NoNick}]
        /\ told' \in [Local -> SUBSET Nick]
        /\ \A v \in User : Online(v) => Online(v)'
        /\ NicksDistinct' /\ WatchersTold'
    BY <1>1, RenameTells
  <1>4. /\ allow' \in [Local -> SUBSET User] /\ on_allow' \in [User -> SUBSET Local]
        /\ \A w \in Local : Cardinality(allow'[w]) <= MaxAccept
        /\ AcceptMutual'
    BY <1>1, <1>3, LeaveKeepsAccepts, DelAllKeepsAccepts
  <1>5. /\ whowas' \in [Slot -> [name : Nick \cup {NoNick}, online : User \cup {NoUser}]]
        /\ whowas_next' \in Slot /\ history' \in [User -> SUBSET Slot]
        /\ HistoryLive'
    BY <1>2, RenameKeepsHistory
  <1>6. WatchersMutual'
    BY <1>2, <1>3, WatchersStay
  <1>7. PresenceTypeOK'
    BY <1>2, <1>3, <1>4, <1>5 DEF PresenceInv, PresenceTypeOK, monitoring
  <1> QED BY <1>3, <1>4, <1>5, <1>6, <1>7 DEF PresenceInv

-----------------------------------------------------------------------------
(* Coming and going.                                                       *)

\* A user comes online.
LEMMA SignOnKeeps ==
    ASSUME PresenceInv, NEW u \in User, NEW n \in Nick, SignOn(u, n)
    PROVE  PresenceInv'
  <1>1. /\ nick' = [nick EXCEPT ![u] = n] /\ nick[u] = NoNick /\ n # NoNick /\ Free(n)
        /\ nick \in [User -> Nick \cup {NoNick}]
        /\ UNCHANGED <<exited, chronicle, monitoring, accepts>>
    BY PresenceAssumption DEF SignOn, Online, PresenceInv, PresenceTypeOK
  <1>2. \A v \in User : Online(v) => Online(v)'
    BY <1>1 DEF Online
  <1>3. NicksDistinct'
    BY <1>1 DEF NicksDistinct, Free, PresenceInv, Online
  <1>4. told' = [w \in Local |-> (told[w] \ {m \in {} : w \in watchers[m]})
                                 \cup {m \in {n} : w \in watchers[m]}]
    BY DEF SignOn, Announce
  <1>5. told' \in [Local -> SUBSET Nick]
    BY <1>4 DEF PresenceInv, PresenceTypeOK
  <1>6. PresenceTypeOK'
    BY <1>1, <1>5 DEF PresenceInv, PresenceTypeOK, chronicle, monitoring, accepts
  <1>7. HistoryLive' /\ AcceptMutual'
    BY <1>1, <1>2 DEF PresenceInv, HistoryLive, AcceptMutual, chronicle, accepts, User
  <1>8. WatchersMutual'
    BY <1>1, <1>2, WatchersStay
  <1>9. WatchersTold'
    <2>1. \A m \in Nick : m # n => (Free(m) <=> Free(m)')
      BY <1>1, PresenceAssumption DEF Free
    <2>2. ~Free(n)'
      BY <1>1 DEF Free
    <2>3. SUFFICES ASSUME NEW w \in Local
                   PROVE  told'[w] = {m \in monitor_list[w] : ~Free(m)'}
      BY <1>1 DEF WatchersTold, monitoring
    <2>4. told[w] = {m \in monitor_list[w] : ~Free(m)} /\ monitor_list[w] \subseteq Nick
      BY DEF PresenceInv, WatchersTold, PresenceTypeOK
    <2>5. \A m \in Nick : w \in watchers[m] <=> m \in monitor_list[w]
      BY DEF PresenceInv, WatchersMutual
    <2>6. told'[w] = (told[w] \ {m \in {} : w \in watchers[m]})
                     \cup {m \in {n} : w \in watchers[m]}
      BY <1>4
    <2>7. \A m : m \in told'[w] <=> m \in monitor_list[w] /\ ~Free(m)'
      BY <2>1, <2>2, <2>4, <2>5, <2>6
    <2> QED BY <2>7
  <1> QED BY <1>3, <1>6, <1>7, <1>8, <1>9 DEF PresenceInv

\* A user goes offline.
LEMMA ExitKeeps ==
    ASSUME PresenceInv, NEW u \in User, ExitGenericClient(u)
    PROVE  PresenceInv'
  <1>1. /\ nick' = [nick EXCEPT ![u] = NoNick] /\ nick[u] # NoNick /\ nick[u] \in Nick
        /\ nick \in [User -> Nick \cup {NoNick}] /\ Online(u)
        /\ exited' = exited \cup {u} /\ monitors' = monitors
        /\ DelAllAccepts(u) /\ CloseHistory(u)
    BY PresenceAssumption DEF ExitGenericClient, Online, PresenceInv, PresenceTypeOK
  <1>2. \A v \in User \ {u} : nick'[v] = nick[v] /\ (Online(v) <=> Online(v)')
    BY <1>1 DEF Online
  <1>3. NicksDistinct'
    BY <1>1, <1>2 DEF NicksDistinct, PresenceInv, Online
  <1>4. /\ allow' \in [Local -> SUBSET User] /\ on_allow' \in [User -> SUBSET Local]
        /\ \A w \in Local : Cardinality(allow'[w]) <= MaxAccept
        /\ AcceptMutual'
    BY <1>1, <1>2, DelAllKeepsAccepts
  <1>5. /\ whowas' \in [Slot -> [name : Nick \cup {NoNick}, online : User \cup {NoUser}]]
        /\ whowas_next' \in Slot /\ history' \in [User -> SUBSET Slot]
        /\ HistoryLive'
    BY <1>1, ExitKeepsHistory
  <1>6. /\ monitor_list' = [w \in Local |-> IF w = u THEN {} ELSE monitor_list[w]]
        /\ watchers' = [m \in Nick |->
              IF u \in Local /\ m \in monitor_list[u] THEN watchers[m] \ {u} ELSE watchers[m]]
        /\ told' = [w \in Local |->
              IF w = u THEN {}
              ELSE IF w \in watchers[nick[u]] THEN told[w] \ {nick[u]} ELSE told[w]]
    BY DEF ExitGenericClient, ClearedWatchers
  <1>7. /\ monitor_list' \in [Local -> SUBSET Nick] /\ watchers' \in [Nick -> SUBSET Local]
        /\ told' \in [Local -> SUBSET Nick]
        /\ \A w \in Local : monitor_list'[w] \subseteq monitor_list[w]
    BY <1>6 DEF PresenceInv, PresenceTypeOK
  <1>8. WatchersMutual'
    <2>1. \A w \in Local : \A m \in Nick : w \in watchers'[m] <=> m \in monitor_list'[w]
      BY <1>6 DEF PresenceInv, PresenceTypeOK, WatchersMutual
    <2>2. \A w \in Local : monitor_list'[w] # {} => Online(w)'
      BY <1>2, <1>6 DEF PresenceInv, WatchersMutual, User
    <2>3. \A m \in Nick : watchers'[m] # {} => m \in monitors'
      BY <1>1, <1>6 DEF PresenceInv, WatchersMutual
    <2> QED BY <2>1, <2>2, <2>3 DEF WatchersMutual
  <1>9. WatchersTold'
    <2>0. PICK old \in Nick : old = nick[u]
      BY <1>1
    <2>1. \A m \in Nick : m # old => (Free(m) <=> Free(m)')
      BY <1>1, <1>2, <2>0, PresenceAssumption DEF Free
    <2>2. Free(old)'
      BY <1>1, <1>2, <2>0, PresenceAssumption DEF Free, NicksDistinct, PresenceInv, Online
    <2>3. SUFFICES ASSUME NEW w \in Local
                   PROVE  told'[w] = {m \in monitor_list'[w] : ~Free(m)'}
      BY DEF WatchersTold
    <2>4. told[w] = {m \in monitor_list[w] : ~Free(m)} /\ monitor_list[w] \subseteq Nick
      BY DEF PresenceInv, WatchersTold, PresenceTypeOK
    <2>5. \A m \in Nick : w \in watchers[m] <=> m \in monitor_list[w]
      BY DEF PresenceInv, WatchersMutual
    <2>6. \A m : m \in told'[w] <=> m \in monitor_list'[w] /\ ~Free(m)'
      BY <1>1, <1>6, <2>0, <2>1, <2>2, <2>4, <2>5
    <2> QED BY <2>6
  <1>10. PresenceTypeOK'
    BY <1>1, <1>4, <1>5, <1>7, ShorterMonitor DEF PresenceInv, PresenceTypeOK
  <1> QED BY <1>3, <1>4, <1>5, <1>8, <1>9, <1>10 DEF PresenceInv

\* The steps of MONITOR and ACCEPT, and the rest: nobody comes, goes or renames.
LEMMA StaysOnline ==
    ASSUME UNCHANGED nick
    PROVE  /\ \A v \in User : Online(v) <=> Online(v)'
           /\ \A m \in Nick : Free(m) <=> Free(m)'
           /\ NicksDistinct <=> NicksDistinct'
  BY DEF Online, Free, NicksDistinct

\* MONITOR +.
LEMMA AddMonitorKeeps ==
    ASSUME PresenceInv, NEW w \in Local, NEW n \in Nick, AddMonitor(w, n)
    PROVE  PresenceInv'
  <1>1. /\ Online(w) /\ w \notin watchers[n] /\ Cardinality(monitor_list[w]) < MaxMonitor
        /\ monitors' = monitors \cup {n}
        /\ watchers' = [watchers EXCEPT ![n] = @ \cup {w}]
        /\ monitor_list' = [monitor_list EXCEPT ![w] = @ \cup {n}]
        /\ told' = IF Free(n) THEN told ELSE [told EXCEPT ![w] = @ \cup {n}]
        /\ UNCHANGED <<nick, exited, chronicle, accepts>>
    BY DEF AddMonitor
  <1>2. /\ \A v \in User : Online(v) <=> Online(v)'
        /\ \A m \in Nick : Free(m) <=> Free(m)'
        /\ NicksDistinct'
    BY <1>1, StaysOnline DEF PresenceInv
  <1>3. \A v \in Local : Cardinality(monitor_list'[v]) <= MaxMonitor
    <2>1. IsFiniteSet(monitor_list[w])
      BY FS_Subset, PresenceAssumption DEF PresenceInv, PresenceTypeOK
    <2>2. Cardinality(monitor_list[w] \cup {n}) <= MaxMonitor
      BY <1>1, <2>1, OneMoreFits, PresenceAssumption
    <2> QED BY <1>1, <2>2 DEF PresenceInv, PresenceTypeOK
  <1>4. PresenceTypeOK'
    BY <1>1, <1>3 DEF PresenceInv, PresenceTypeOK, chronicle, accepts
  <1>5. HistoryLive' /\ AcceptMutual'
    BY <1>1, <1>2 DEF PresenceInv, HistoryLive, AcceptMutual, chronicle, accepts, User
  <1>6. WatchersMutual'
    BY <1>1, <1>2 DEF PresenceInv, PresenceTypeOK, WatchersMutual, User
  <1>7. WatchersTold'
    BY <1>1, <1>2 DEF PresenceInv, PresenceTypeOK, WatchersTold
  <1> QED BY <1>2, <1>4, <1>5, <1>6, <1>7 DEF PresenceInv

\* MONITOR -.
LEMMA DelMonitorKeeps ==
    ASSUME PresenceInv, NEW w \in Local, NEW n \in Nick, DelMonitor(w, n)
    PROVE  PresenceInv'
  <1>1. /\ watchers' = [watchers EXCEPT ![n] = @ \ {w}]
        /\ monitor_list' = [monitor_list EXCEPT ![w] = @ \ {n}]
        /\ told' = [told EXCEPT ![w] = @ \ {n}]
        /\ UNCHANGED <<nick, exited, chronicle, monitors, accepts>>
    BY DEF DelMonitor
  <1>2. /\ \A v \in User : Online(v) <=> Online(v)'
        /\ \A m \in Nick : Free(m) <=> Free(m)'
        /\ NicksDistinct'
    BY <1>1, StaysOnline DEF PresenceInv
  <1>3. /\ monitor_list' \in [Local -> SUBSET Nick]
        /\ \A v \in Local : monitor_list'[v] \subseteq monitor_list[v]
    BY <1>1 DEF PresenceInv, PresenceTypeOK
  <1>4. PresenceTypeOK'
    BY <1>1, <1>3, ShorterMonitor DEF PresenceInv, PresenceTypeOK, chronicle, accepts
  <1>5. HistoryLive' /\ AcceptMutual'
    BY <1>1, <1>2 DEF PresenceInv, HistoryLive, AcceptMutual, chronicle, accepts, User
  <1>6. WatchersMutual'
    BY <1>1, <1>2 DEF PresenceInv, PresenceTypeOK, WatchersMutual, User
  <1>7. WatchersTold'
    BY <1>1, <1>2 DEF PresenceInv, PresenceTypeOK, WatchersTold
  <1> QED BY <1>2, <1>4, <1>5, <1>6, <1>7 DEF PresenceInv

\* MONITOR C.
LEMMA ClearMonitorKeeps ==
    ASSUME PresenceInv, NEW w \in Local, ClearMonitor(w)
    PROVE  PresenceInv'
  <1>1. /\ watchers' = [m \in Nick |->
              IF w \in Local /\ m \in monitor_list[w] THEN watchers[m] \ {w} ELSE watchers[m]]
        /\ monitor_list' = [monitor_list EXCEPT ![w] = {}]
        /\ told' = [told EXCEPT ![w] = {}]
        /\ UNCHANGED <<nick, exited, chronicle, monitors, accepts>>
    BY DEF ClearMonitor, ClearedWatchers
  <1>2. /\ \A v \in User : Online(v) <=> Online(v)'
        /\ \A m \in Nick : Free(m) <=> Free(m)'
        /\ NicksDistinct'
    BY <1>1, StaysOnline DEF PresenceInv
  <1>3. /\ monitor_list' \in [Local -> SUBSET Nick]
        /\ \A v \in Local : monitor_list'[v] \subseteq monitor_list[v]
    BY <1>1 DEF PresenceInv, PresenceTypeOK
  <1>4. PresenceTypeOK'
    BY <1>1, <1>3, ShorterMonitor DEF PresenceInv, PresenceTypeOK, chronicle, accepts
  <1>5. HistoryLive' /\ AcceptMutual'
    BY <1>1, <1>2 DEF PresenceInv, HistoryLive, AcceptMutual, chronicle, accepts, User
  <1>6. WatchersMutual'
    BY <1>1, <1>2 DEF PresenceInv, PresenceTypeOK, WatchersMutual, User
  <1>7. WatchersTold'
    BY <1>1, <1>2 DEF PresenceInv, PresenceTypeOK, WatchersTold
  <1> QED BY <1>2, <1>4, <1>5, <1>6, <1>7 DEF PresenceInv

\* ACCEPT, one name added or taken out.
LEMMA AcceptKeeps ==
    ASSUME PresenceInv, NEW w \in Local, NEW u \in User, AddAccept(w, u) \/ DelAccept(w, u)
    PROVE  PresenceInv'
  <1>1. UNCHANGED <<nick, exited, chronicle, monitoring, told>>
    BY DEF AddAccept, DelAccept
  <1>2. /\ \A v \in User : Online(v) <=> Online(v)'
        /\ \A m \in Nick : Free(m) <=> Free(m)'
        /\ NicksDistinct'
    BY <1>1, StaysOnline DEF PresenceInv
  <1>3. HistoryLive' /\ WatchersMutual' /\ WatchersTold'
    BY <1>1, <1>2
    DEF PresenceInv, PresenceTypeOK, HistoryLive, WatchersMutual, WatchersTold, chronicle,
        monitoring, User
  <1>4. /\ allow' \in [Local -> SUBSET User] /\ on_allow' \in [User -> SUBSET Local]
        /\ \A v \in Local : Cardinality(allow'[v]) <= MaxAccept
        /\ AcceptMutual'
    <2>1. CASE AddAccept(w, u)
      <3>1. /\ Online(w) /\ Online(u) /\ Cardinality(allow[w]) < MaxAccept
            /\ allow' = [allow EXCEPT ![w] = @ \cup {u}]
            /\ on_allow' = [on_allow EXCEPT ![u] = @ \cup {w}]
        BY <2>1 DEF AddAccept
      <3>2. IsFiniteSet(allow[w])
        BY FS_Subset, PresenceAssumption DEF PresenceInv, PresenceTypeOK
      <3>3. Cardinality(allow[w] \cup {u}) <= MaxAccept
        BY <3>1, <3>2, OneMoreFits, PresenceAssumption
      <3>6. \A v \in Local : Cardinality(allow'[v]) <= MaxAccept
        BY <3>1, <3>3 DEF PresenceInv, PresenceTypeOK
      <3>7. AcceptMutual'
        BY <1>2, <3>1 DEF PresenceInv, PresenceTypeOK, AcceptMutual, User
      <3> QED BY <3>1, <3>6, <3>7 DEF PresenceInv, PresenceTypeOK
    <2>2. CASE DelAccept(w, u)
      <3>1. /\ allow' = [allow EXCEPT ![w] = @ \ {u}]
            /\ on_allow' = [on_allow EXCEPT ![u] = @ \ {w}]
        BY <2>2 DEF DelAccept
      <3>2. /\ allow' \in [Local -> SUBSET User] /\ on_allow' \in [User -> SUBSET Local]
            /\ \A v \in Local : allow'[v] \subseteq allow[v]
        BY <3>1 DEF PresenceInv, PresenceTypeOK
      <3>3. AcceptMutual'
        BY <1>2, <3>1 DEF PresenceInv, PresenceTypeOK, AcceptMutual, User
      <3> QED BY <3>2, <3>3, ShorterAllow DEF PresenceInv
    <2> QED BY <2>1, <2>2
  <1>5. PresenceTypeOK'
    BY <1>1, <1>4 DEF PresenceInv, PresenceTypeOK, chronicle, monitoring
  <1> QED BY <1>2, <1>3, <1>4, <1>5 DEF PresenceInv

\* cleanup_monitor, which frees what nobody watches.
LEMMA CleanupKeeps ==
    ASSUME PresenceInv, CleanupMonitor
    PROVE  PresenceInv'
  <1>1. /\ UNCHANGED <<nick, exited, chronicle, watchers, monitor_list, told, accepts>>
        /\ monitors' = {n \in monitors : watchers[n] # {}}
    BY DEF CleanupMonitor
  <1>2. NicksDistinct' /\ (\A v \in User : Online(v) <=> Online(v)')
        /\ (\A m \in Nick : Free(m) <=> Free(m)')
    BY <1>1, StaysOnline DEF PresenceInv
  <1>3. PresenceTypeOK'
    BY <1>1 DEF PresenceInv, PresenceTypeOK, chronicle, accepts
  <1> QED
    BY <1>1, <1>2, <1>3
    DEF PresenceInv, PresenceTypeOK, HistoryLive, WatchersMutual, WatchersTold, AcceptMutual,
        chronicle, accepts, User

-----------------------------------------------------------------------------
(* All steps together.                                                     *)

\* At the start there is nobody.
LEMMA StartsInStep ==
    ASSUME PresenceInit
    PROVE  PresenceInv
  <1>1. PresenceTypeOK
    BY PresenceAssumption, FS_EmptySet DEF PresenceInit, PresenceTypeOK, Slot
  <1>2. NicksDistinct /\ HistoryLive /\ WatchersMutual /\ AcceptMutual
    BY PresenceAssumption
    DEF PresenceInit, NicksDistinct, Online, HistoryLive, WatchersMutual, AcceptMutual
  <1>3. WatchersTold
    BY DEF PresenceInit, WatchersTold
  <1> QED BY <1>1, <1>2, <1>3 DEF PresenceInv

\* Every step keeps the lists in step.
LEMMA StaysInStep ==
    ASSUME PresenceInv, [PresenceNext]_presenceVars
    PROVE  PresenceInv'
  <1>1. ASSUME NEW u \in User, ExitGenericClient(u)
        PROVE  PresenceInv'
    BY <1>1, ExitKeeps
  <1>2. ASSUME NEW u \in User, ExitUnknownClient(u)
        PROVE  PresenceInv'
    <2>1. UNCHANGED <<nick, chronicle, monitoring, told, accepts>> /\ exited' = exited \cup {u}
      BY <1>2 DEF ExitUnknownClient
    <2> QED
      BY <2>1 DEF PresenceInv, PresenceTypeOK, NicksDistinct, HistoryLive, WatchersMutual,
        WatchersTold, AcceptMutual, Online, Free, chronicle, monitoring, accepts
  <1>3. ASSUME NEW u \in User, NEW n \in Nick, SignOn(u, n)
        PROVE  PresenceInv'
    BY <1>3, SignOnKeeps
  <1>4. ASSUME NEW u \in User, NEW n \in Nick, NickChange(u, n)
        PROVE  PresenceInv'
    BY <1>4, NickChangeKeeps
  <1>5. ASSUME NEW w \in Local, Request(w)
        PROVE  PresenceInv'
    BY <1>5, AddMonitorKeeps, DelMonitorKeeps, ClearMonitorKeeps, AcceptKeeps DEF Request
  <1>6. CASE CleanupMonitor
    BY <1>6, CleanupKeeps
  <1>7. CASE UNCHANGED presenceVars
    BY <1>7 DEF presenceVars, PresenceInv, PresenceTypeOK, NicksDistinct, HistoryLive,
      WatchersMutual, WatchersTold, AcceptMutual, Online, Free, chronicle, monitoring, accepts
  <1> QED BY <1>1, <1>2, <1>3, <1>4, <1>5, <1>6, <1>7 DEF PresenceNext

\* Whatever the users do, the lists of this server stay in step.
THEOREM PresenceInStep == PresenceSpec => []PresenceInv
  <1>1. PresenceInit => PresenceInv
    BY StartsInStep
  <1>2. PresenceInv /\ [PresenceNext]_presenceVars => PresenceInv'
    BY StaysInStep
  <1> QED BY <1>1, <1>2, PTL DEF PresenceSpec

-----------------------------------------------------------------------------
(* Part three: the process.                                                *)

\* Each step of the process is one of the configuration's, or none of it.
LEMMA StepOfConf ==
    ASSUME [Next]_vars
    PROVE  [ConfNext]_confVars
  <1>1. CASE UNCHANGED vars
    BY <1>1 DEF vars
  <1>2. ASSUME NEW u \in Local, Arrive(u) \/ Attach(u) \/ Exit(u) \/ FreeClient(u) \/ Ask(u)
        PROVE  [ConfNext]_confVars
    <2>1. u \in Client
      BY ProcessAssumption
    <2>2. CASE Arrive(u)
      BY <2>1, <2>2 DEF Arrive, ConfNext
    <2>3. CASE Attach(u)
      BY <2>1, <2>3 DEF Attach, ConfNext
    <2>4. CASE Exit(u)
      BY <2>1, <2>4 DEF Exit, ConfNext
    <2>5. CASE FreeClient(u)
      BY <2>1, <2>5 DEF FreeClient, ConfNext
    <2>6. CASE Ask(u)
      BY <2>6 DEF Ask
    <2> QED BY <1>2, <2>2, <2>3, <2>4, <2>5, <2>6
  <1>3. ASSUME NEW u \in User, RemoteUser(u) \/ Rename(u)
        PROVE  [ConfNext]_confVars
    BY <1>3 DEF RemoteUser, Rename
  <1>4. ASSUME NEW s \in Server, ServerLink(s)
        PROVE  [ConfNext]_confVars
    BY <1>4 DEF ServerLink, ConfNext
  <1>5. ASSUME NEW cfg \in Configs, Reconfigure(cfg)
        PROVE  [ConfNext]_confVars
    BY <1>5 DEF Reconfigure, ConfNext
  <1>6. CASE Cleanup
    BY <1>6 DEF Cleanup
  <1> QED BY <1>1, <1>2, <1>3, <1>4, <1>5, <1>6 DEF Next, User

\* And one of the users', or none of them.
LEMMA StepOfPresence ==
    ASSUME [Next]_vars
    PROVE  [PresenceNext]_presenceVars
  <1>1. CASE UNCHANGED vars
    BY <1>1 DEF vars
  <1>2. ASSUME NEW u \in Local, Arrive(u) \/ Attach(u) \/ Exit(u) \/ FreeClient(u) \/ Ask(u)
        PROVE  [PresenceNext]_presenceVars
    <2>1. u \in User
      BY DEF User
    <2>2. CASE Arrive(u) \/ FreeClient(u)
      BY <2>2 DEF Arrive, FreeClient
    <2>3. CASE Attach(u)
      BY <2>1, <2>3 DEF Attach, PresenceNext
    <2>4. CASE Exit(u)
      BY <2>1, <2>4 DEF Exit, PresenceNext
    <2>5. CASE Ask(u)
      BY <2>5 DEF Ask, PresenceNext
    <2> QED BY <1>2, <2>2, <2>3, <2>4, <2>5
  <1>3. ASSUME NEW u \in User, RemoteUser(u) \/ Rename(u)
        PROVE  [PresenceNext]_presenceVars
    BY <1>3 DEF RemoteUser, Rename, PresenceNext
  <1>4. ASSUME NEW s \in Server, ServerLink(s)
        PROVE  [PresenceNext]_presenceVars
    BY <1>4 DEF ServerLink
  <1>5. ASSUME NEW cfg \in Configs, Reconfigure(cfg)
        PROVE  [PresenceNext]_presenceVars
    BY <1>5 DEF Reconfigure
  <1>6. CASE Cleanup
    BY <1>6 DEF Cleanup, PresenceNext
  <1> QED BY <1>1, <1>2, <1>3, <1>4, <1>5, <1>6 DEF Next, User

\* The process implements both of its parts.
THEOREM ProcessHasParts == Spec => ConfSpec /\ PresenceSpec
  <1>1. Init => ConfInit /\ PresenceInit
    BY DEF Init
  <1>2. [Next]_vars => [ConfNext]_confVars /\ [PresenceNext]_presenceVars
    BY StepOfConf, StepOfPresence
  <1> QED BY <1>1, <1>2, PTL DEF Spec, ConfSpec, PresenceSpec

-----------------------------------------------------------------------------
(* The invariants of the parts.                                            *)

\* The types of the process: those of its parts, and a count that keeps its bound.
THEOREM ProcessTypes == Spec => []TypeOK
  <1> DEFINE Bounded == acts \in 0..MaxActs
  <1>1. Init => Bounded
    BY ProcessAssumption DEF Init
  <1>2. Bounded /\ [Next]_vars => Bounded'
    <2> SUFFICES ASSUME Bounded, [Next]_vars PROVE Bounded'
      OBVIOUS
    <2>1. Act => Bounded'
      BY ProcessAssumption DEF Act
    <2>2. /\ \A u \in Local : Arrive(u) \/ Attach(u) \/ Exit(u) \/ FreeClient(u) => UNCHANGED acts
          /\ \A u \in Remote : RemoteUser(u) => UNCHANGED acts
          /\ Cleanup => UNCHANGED acts
      BY DEF Arrive, Attach, Exit, FreeClient, RemoteUser, Cleanup
    <2>3. /\ \A u \in Local : Ask(u) => Act
          /\ \A u \in User : Rename(u) => Act
          /\ \A s \in Server : ServerLink(s) => Act \/ UNCHANGED acts
          /\ \A cfg \in Configs : Reconfigure(cfg) => Act
      BY DEF Ask, Rename, ServerLink, Reconfigure
    <2>4. Act \/ UNCHANGED acts
      BY <2>2, <2>3 DEF Next, vars
    <2> QED BY <2>1, <2>4
  <1>3. ConfInv /\ PresenceInv /\ Bounded => TypeOK
    BY DEF ConfInv, PresenceInv, TypeOK
  <1> QED BY <1>1, <1>2, <1>3, ProcessHasParts, ConfRight, PresenceInStep, PTL DEF Spec

\* Every count of holders is the number of those who point there, however many
\* rehashes came between attaching and detaching (src/s_conf.c, src/s_newconf.c).
THEOREM ProcessCounts == Spec => []RefsCounted
  <1>1. ConfInv => RefsCounted
    BY DEF ConfInv
  <1> QED BY <1>1, ProcessHasParts, ConfRight, PTL

\* No client or server, and no block but a connect{} block of a stray class that
\* nobody uses, points to what has been freed, and the class list has no freed class
\* (src/class.c:247-265, src/s_conf.c, src/listener.c).
THEOREM ProcessDangles == Spec => []NothingDangles
  <1>1. ConfInv => NothingDangles
    BY DEF ConfInv
  <1> QED BY <1>1, ProcessHasParts, ConfRight, PTL

\* What a rehash took out is freed by the last one who leaves it, a class that a
\* connect{} block then took excepted (src/s_newconf.c:404-425, 478-486).
THEOREM ProcessLeaks == Spec => []NothingLeaks
  <1>1. ConfInv => NothingLeaks
    BY DEF ConfInv
  <1> QED BY <1>1, ProcessHasParts, ConfRight, PTL

\* The count of each address in a class with a limit is that of its users and of those
\* who were refused after they had been counted, unless the limit came or went while
\* it had users (src/s_conf.c:400-453, 576).
THEOREM ProcessAddresses == Spec => []AddressesCounted
  <1>1. ConfInv => AddressesCounted
    BY DEF ConfInv
  <1> QED BY <1>1, ProcessHasParts, ConfRight, PTL

\* The whowas ring and the users' lists of its slots agree (src/whowas.c).
THEOREM ProcessHistory == Spec => []HistoryLive
  <1>1. PresenceInv => HistoryLive
    BY DEF PresenceInv
  <1> QED BY <1>1, ProcessHasParts, PresenceInStep, PTL

\* The two sides of every MONITOR entry agree (src/monitor.c:144-192).
THEOREM ProcessWatchers == Spec => []WatchersMutual
  <1>1. PresenceInv => WatchersMutual
    BY DEF PresenceInv
  <1> QED BY <1>1, ProcessHasParts, PresenceInStep, PTL

\* Who watches a nick was last told what is the case (src/monitor.c:96-142).
THEOREM ProcessTold == Spec => []WatchersTold
  <1>1. PresenceInv => WatchersTold
    BY DEF PresenceInv
  <1> QED BY <1>1, ProcessHasParts, PresenceInStep, PTL

\* The two sides of every accept list agree (src/client.c:1712-1738).
THEOREM ProcessAccepts == Spec => []AcceptMutual
  <1>1. PresenceInv => AcceptMutual
    BY DEF PresenceInv
  <1> QED BY <1>1, ProcessHasParts, PresenceInStep, PTL

-----------------------------------------------------------------------------
(* The parts together.                                                     *)

\* A user of ours who is online has a connection with a conf.
OnlineHolds ==
    \A u \in Local : Online(u) => client[u].st = "open" /\ client[u].conf # None

\* A user of ours who is online, and so can be renamed, killed, watched or
\* accepted, still has his auth{} block, a class and a listener that have not
\* been freed, whatever rehashes have taken them out since he registered
\* (src/s_user.c:421, src/s_conf.c:554-603, src/client.c:201-221).
OnlineServed ==
    \A u \in Local : Online(u) =>
        /\ auth[client[u].conf].st # "none"
        /\ class[auth[client[u].conf].class].alive
        /\ listener[client[u].port].st # "none"

\* Nobody but u comes online when u signs on, and u is not when he has exited.
LEMMA WhoIsOnline ==
    ASSUME PresenceTypeOK, NEW v \in User
    PROVE  /\ \A u \in User, n \in Nick : SignOn(u, n) /\ v # u => (Online(v)' <=> Online(v))
           /\ \A u \in User, n \in Nick : NickChange(u, n) => (Online(v)' => Online(v))
           /\ \A u \in User : ExitGenericClient(u) \/ ExitUnknownClient(u) =>
                 (Online(v)' => Online(v) /\ v # u)
           /\ \A w \in Local : Request(w) => (Online(v)' <=> Online(v))
  <1>1. ASSUME NEW u \in User, NEW n \in Nick, SignOn(u, n), v # u
        PROVE  Online(v)' <=> Online(v)
    BY <1>1 DEF PresenceTypeOK, SignOn, Online
  <1>2. ASSUME NEW u \in User, NEW n \in Nick, NickChange(u, n), Online(v)'
        PROVE  Online(v)
    <2>1. Online(u) /\ nick' = [nick EXCEPT ![u] = n]
      BY <1>2 DEF NickChange, ChangeLocalNick, ChangeRemoteNick, ChangeNickUserHost, Renames
    <2> QED BY <1>2, <2>1 DEF PresenceTypeOK, Online
  <1>3. ASSUME NEW u \in User, ExitGenericClient(u) \/ ExitUnknownClient(u), Online(v)'
        PROVE  Online(v) /\ v # u
    BY <1>3 DEF PresenceTypeOK, ExitGenericClient, ExitUnknownClient, Online
  <1>4. ASSUME NEW w \in Local, Request(w)
        PROVE  Online(v)' <=> Online(v)
    <2>1. nick' = nick
      BY <1>4 DEF Request, AddMonitor, DelMonitor, ClearMonitor, AddAccept, DelAccept
    <2> QED BY <2>1 DEF Online
  <1> QED BY <1>1, <1>2, <1>3, <1>4

\* Who is online keeps the block that registered him.
LEMMA HoldsStays ==
    ASSUME OnlineHolds, ConfTypeOK, PresenceTypeOK, [Next]_vars
    PROVE  OnlineHolds'
  <1> SUFFICES ASSUME NEW v \in Local, Online(v)'
               PROVE  client'[v].st = "open" /\ client'[v].conf # None
    BY DEF OnlineHolds
  <1>1. v \in User /\ v \in Client /\ v \notin Remote
    BY ProcessAssumption, PresenceAssumption DEF User
  <1>2. Online(v) => client[v].st = "open" /\ client[v].conf # None
    BY DEF OnlineHolds
  <1>3. CASE client' = client
    <2>1. CASE UNCHANGED vars
      BY <1>2, <1>3, <2>1 DEF vars, presenceVars, Online
    <2>2. ASSUME NEW u \in Local, Ask(u) PROVE Online(v)
      BY <1>1, <2>2, WhoIsOnline DEF Ask
    <2>3. ASSUME NEW u \in Remote, RemoteUser(u) PROVE Online(v)
      BY <1>1, <2>3, WhoIsOnline DEF RemoteUser, User
    <2>4. ASSUME NEW u \in User, Rename(u) PROVE Online(v)
      BY <1>1, <2>4, WhoIsOnline DEF Rename
    <2>5. ASSUME NEW s \in Server, ServerLink(s) PROVE Online(v)
      BY <2>5 DEF ServerLink, presenceVars, Online
    <2>6. ASSUME NEW cfg \in Configs, Reconfigure(cfg) PROVE Online(v)
      BY <2>6 DEF Reconfigure, presenceVars, Online
    <2>7. CASE Cleanup
      BY <1>2, <1>3, <2>7 DEF Cleanup, CleanupMonitor, Online
    <2>8. ASSUME NEW u \in Local, Arrive(u) \/ Attach(u) \/ Exit(u) \/ FreeClient(u)
          PROVE  client'[v].st = "open" /\ client'[v].conf # None
      <3>1. client[u].st \in {"new", "open", "dead", "freed"} /\ u \in Client
        BY ProcessAssumption DEF ConfTypeOK
      <3>2. client'[u] # client[u]
        <4>1. CASE Arrive(u)
          BY <3>1, <4>1 DEF Arrive, AddConnection, AttachFull, ConfTypeOK
        <4>2. CASE Attach(u)
          BY <3>1, <4>2, Names DEF Attach, AttachConf, ConfTypeOK
        <4>3. CASE Exit(u)
          BY <3>1, <4>3 DEF Exit, CloseConnection, ConfTypeOK
        <4>4. CASE FreeClient(u)
          BY <3>1, <4>4 DEF FreeClient, FreeLocalClient, ConfTypeOK
        <4> QED BY <2>8, <4>1, <4>2, <4>3, <4>4
      <3> QED BY <1>3, <3>2
    <2> QED BY <1>2, <1>3, <2>1, <2>2, <2>3, <2>4, <2>5, <2>6, <2>7, <2>8 DEF Next
  <1>4. ASSUME NEW u \in Local, Arrive(u) \/ FreeClient(u)
        PROVE  client'[v].st = "open" /\ client'[v].conf # None
    <2>1. Online(v)
      BY <1>4 DEF Arrive, FreeClient, presenceVars, Online
    <2>2. client[u].st # "open" \/ client[u].conf = None
      BY <1>4 DEF Arrive, AddConnection, AttachFull, FreeClient, FreeLocalClient
    <2>3. client' = [client EXCEPT ![u] = client'[u]]
      BY <1>4, ProcessAssumption DEF Arrive, AddConnection, AttachFull, FreeClient, FreeLocalClient, ConfTypeOK
    <2> QED BY <1>1, <1>2, <2>1, <2>2, <2>3 DEF ConfTypeOK
  <1>5. ASSUME NEW u \in Local, Attach(u)
        PROVE  client'[v].st = "open" /\ client'[v].conf # None
    <2>1. PICK i \in AuthId : AttachConf(u, i)
      BY <1>5 DEF Attach
    <2>2. client' = [client EXCEPT ![u] = [st |-> "open", conf |-> i, port |-> client[u].port]]
      BY <2>1 DEF AttachConf
    <2>3. CASE v = u
      BY <1>1, <2>2, <2>3, Names DEF ConfTypeOK
    <2>4. CASE v # u
      <3>1. u \in User
        BY DEF User
      <3>2. Online(v)
        BY <1>1, <1>5, <2>4, <3>1, WhoIsOnline DEF Attach, presenceVars, Online
      <3> QED BY <1>1, <1>2, <2>2, <2>4, <3>2 DEF ConfTypeOK
    <2> QED BY <2>3, <2>4
  <1>6. ASSUME NEW u \in Local, Exit(u)
        PROVE  client'[v].st = "open" /\ client'[v].conf # None
    <2>1. u \in User
      BY DEF User
    <2>2. Online(v) /\ v # u
      BY <1>1, <1>6, <2>1, WhoIsOnline DEF Exit
    <2>3. client'[v] = client[v]
      BY <1>1, <1>6, <2>2 DEF Exit, CloseConnection, ConfTypeOK
    <2> QED BY <1>2, <2>2, <2>3
  <1>7. \/ UNCHANGED vars
        \/ \E u \in Local : Arrive(u) \/ Attach(u) \/ Exit(u) \/ FreeClient(u) \/ Ask(u)
        \/ client' = client
    BY DEF Next, RemoteUser, Rename, ServerLink, AttachServerConf, DetachServerConf,
           Reconfigure, Rehash, Cleanup, confVars
  <1> QED BY <1>3, <1>4, <1>5, <1>6, <1>7 DEF vars, confVars, Ask

\* Nothing that a rehash frees serves a user who is online.
THEOREM ProcessServes == Spec => []OnlineServed
  <1>1. Init => OnlineHolds
    BY DEF Init, PresenceInit, OnlineHolds, Online, User
  <1>2. ConfInv /\ PresenceInv /\ OnlineHolds /\ [Next]_vars => OnlineHolds'
    BY HoldsStays DEF ConfInv, PresenceInv
  <1>3. ConfInv /\ OnlineHolds => OnlineServed
    <2> SUFFICES ASSUME ConfInv, OnlineHolds, NEW u \in Local, Online(u)
                 PROVE  /\ auth[client[u].conf].st # "none"
                        /\ class[auth[client[u].conf].class].alive
                        /\ listener[client[u].port].st # "none"
      BY DEF OnlineServed
    <2>1. u \in Client /\ client[u].st = "open" /\ client[u].conf # None
      BY ProcessAssumption DEF OnlineHolds
    <2>2. client[u].conf \in AuthId /\ client[u].port # None
      BY <2>1 DEF ConfInv, ConfTypeOK, Stages
    <2> QED BY <2>1, <2>2 DEF ConfInv, NothingDangles
  <1> QED BY <1>1, <1>2, <1>3, ProcessHasParts, ConfRight, PresenceInStep, PTL DEF Spec

===============================================================================
