-------------------------- MODULE DiscoveryProofs ---------------------------
(***************************************************************************)
(* Proofs about LAN discovery, for any set of nodes, any mode of each of   *)
(* them, any intervals and any number of datagrams and events under way:   *)
(* types are kept, and no node ever lists itself.                          *)
(***************************************************************************)
EXTENDS Discovery, Integers, TLAPS

\* Leaves that need arithmetic, tuples or sequences name SMT.
USE Zenon

(***************************************************************************)
(* The inductive invariant.  A worker tells its own beacons and records by *)
(* the identity its service was given, so whatever carries a node's        *)
(* identity must be younger than that identity, as long as the node lives. *)
(***************************************************************************)

\* A service that advertises, or is about to announce, has its identity.
AdInv ==
    \A n \in Node :
        /\ advertising[n] \/ sending[n] # {} => localId[n]["udp"]
        /\ registered[n] => localId[n]["mdns"]

\* Only a process that lives has workers.
LifeInv == \A n \in Node, s \in Service : worker[n][s] # "none" => up[n]

\* The Announcements of a node that lives come from the UDP service with its identity.
NetInv ==
    \A m \in net : m.kind = "Announcement" =>
        m.id \in Node /\ (up[m.id] => localId[m.id]["udp"])

\* A node's own record is resolved only after its mDNS service got its identity.
EventInv ==
    \A n \in Node : \A i \in 1 .. Len(mdnsq[n]) :
        mdnsq[n][i].kind = "ServiceResolved" /\ mdnsq[n][i].id = n => localId[n]["mdns"]

IdInv ==
    /\ DOMAIN directory = Node
    /\ AdInv
    /\ LifeInv
    /\ NetInv
    /\ EventInv
    /\ NeverListsSelf

Inv == TypeOK /\ IdInv

-----------------------------------------------------------------------------
(***************************************************************************)
(* PeerDirectory.                                                          *)
(***************************************************************************)

\* A directory: ages of some nodes.
Directory(d) == \E S \in SUBSET Node : d \in [S -> Age]

\* The operations of PeerDirectory keep a directory a directory; an insertion lists one
\* more node, and a removal none.
LEMMA DirectoryOperations ==
    ASSUME NEW d, Directory(d), NEW p \in Node, NEW S
    PROVE  /\ Directory(insert_or_update(d, p)) /\ Directory(Without(d, S))
           /\ DOMAIN insert_or_update(d, p) = DOMAIN d \cup {p}
           /\ DOMAIN Without(d, S) \subseteq DOMAIN d
<1>1. 0 \in Age
  BY DiscoveryConstants, SMT DEF Age, MaxAge
<1>2. PICK T \in SUBSET Node : d \in [T -> Age]
  BY DEF Directory
<1>3. insert_or_update(d, p) \in [T \cup {p} -> Age] /\ T \cup {p} \in SUBSET Node
  BY <1>1, <1>2 DEF insert_or_update
<1>4. Without(d, S) \in [T \ S -> Age] /\ T \ S \in SUBSET Node
  BY <1>2 DEF Without
<1>5. DOMAIN insert_or_update(d, p) = DOMAIN d \cup {p} /\ DOMAIN Without(d, S) \subseteq DOMAIN d
  BY DEF insert_or_update, Without
<1>6. Directory(insert_or_update(d, p))
  BY <1>3 DEF Directory
<1>7. Directory(Without(d, S))
  BY <1>4 DEF Directory
<1> QED
  BY <1>5, <1>6, <1>7

\* What the messages of a send are: datagrams from their sender, with the identity it
\* gave; the numbers of lost ones stay in range.
LEMMA SendTypes ==
    ASSUME TypeOK, NEW n \in Node, NEW kind \in {"Announcement", "Goodbye", "Query"},
           NEW id \in Node \cup {NoId}, NEW targets \in SUBSET Node, Sends(n, kind, id, targets)
    PROVE  /\ net' \subseteq Datagram
           /\ missed' \in [Node -> [Node -> 0..2]]
           /\ \A m \in net' : m \in net \/ (m.kind = kind /\ m.id = id /\ targets # {})
<1>1. PICK reached \in SUBSET targets :
        /\ net' = net \cup [kind : {kind}, id : {id}, src : {n}, to : reached, old : {FALSE}]
        /\ missed' = [o \in Node |-> [missed[o] EXCEPT ![n] =
                        IF kind = "Announcement" /\ o \in targets \ (reached \cup {n}) /\ @ < 2
                        THEN @ + 1 ELSE @]]
  BY DEF Sends
<1>2. [kind : {kind}, id : {id}, src : {n}, to : reached, old : {FALSE}] \subseteq Datagram
  BY DEF Datagram
<1>3. net' \subseteq Datagram
  BY <1>1, <1>2 DEF TypeOK
<1>4. \A m \in net' : m \in net \/ (m.kind = kind /\ m.id = id /\ targets # {})
  BY <1>1
<1>5. missed' \in [Node -> [Node -> 0..2]]
  BY <1>1, SMT DEF TypeOK
<1> QED
  BY <1>3, <1>4, <1>5

\* The same for a peer of which nothing is claimed.
LEMMA NoClaimTypes ==
    ASSUME TypeOK, NEW p \in Node, NoClaim(p)
    PROVE  missed' \in [Node -> [Node -> 0..2]]
BY SMT DEF NoClaim, TypeOK

-----------------------------------------------------------------------------
(***************************************************************************)
(* Type correctness.                                                       *)
(***************************************************************************)

\* The end of a process keeps the types.
LEMMA EndTypes ==
    ASSUME TypeOK, DOMAIN directory = Node, NEW n \in Node, Ends(n)
    PROVE  TypeOK'
<1>1. Directory(Nobody)
  BY SMT DEF Directory, Nobody
<1>2. \A o \in Node : \E S \in SUBSET Node : directory'[o] \in [S -> Age]
  BY <1>1 DEF Ends, TypeOK, Directory
<1>3. missed' \in [Node -> [Node -> 0..2]]
  BY SMT DEF Ends, TypeOK
<1>4. /\ worker' \in [Node -> [Service -> {"none", "run", "ended"}]]
      /\ localId' \in [Node -> [Service -> BOOLEAN]]
      /\ pruneDue' \in [Node -> [Service -> BOOLEAN]]
  BY DEF Ends, TypeOK
<1>5. beaconIn' \in [Node -> 0..BeaconInterval]
  BY DiscoveryConstants, SMT DEF Ends, TypeOK
<1>6. mdnsq' \in [Node -> Seq(MdnsEvent)]
  BY SMT DEF Ends, TypeOK
<1> QED
  BY <1>2, <1>3, <1>4, <1>5, <1>6 DEF Ends, TypeOK, CallState

\* So do the application's calls.
LEMMA CallTypes ==
    ASSUME TypeOK, DOMAIN directory = Node, NEW n \in Node, Call(n)
    PROVE  TypeOK'
<1> USE DEF lifeVars, adVars, timeVars, dirVars, Goes, CallState, Service
<1>1. CASE Advertise(n)
  BY <1>1 DEF Advertise, TypeOK
<1>2. CASE AdvertiseUdp(n)
  BY <1>2 DEF AdvertiseUdp, TypeOK
<1>3. CASE StopAdvertising(n)
  BY <1>3 DEF StopAdvertising, TypeOK
<1>4. CASE StopUdpAdvertising(n)
  BY <1>4, NoClaimTypes DEF StopUdpAdvertising, TypeOK
<1>5. CASE StartDiscovery(n)
  <2>1. PICK bound \in BOOLEAN :
          LET starts == {s \in Service : Has(n, s) /\ (s = "udp" => bound)} IN
          /\ worker' = [worker EXCEPT ![n] = [s \in Service |-> IF s \in starts THEN "run"
                                                                ELSE @[s]]]
          /\ is_running' = [is_running EXCEPT ![n] = Has(n, "udp") => bound]
          /\ Sends(n, "Query", IF localId[n]["udp"] THEN n ELSE NoId,
                   IF "udp" \in starts THEN Node ELSE {})
    BY <1>5 DEF StartDiscovery
  <2>2. net' \subseteq Datagram /\ missed' \in [Node -> [Node -> 0..2]]
    BY <2>1, SendTypes, SMT
  <2>3. worker' \in [Node -> [Service -> {"none", "run", "ended"}]]
    BY <2>1, SMT DEF TypeOK
  <2>4. is_running' \in [Node -> BOOLEAN]
    BY <2>1 DEF TypeOK
  <2>5. beaconIn' \in [Node -> 0..BeaconInterval] /\ mdnsq' \in [Node -> Seq(MdnsEvent)]
    BY <1>5, DiscoveryConstants, SMT DEF StartDiscovery, TypeOK
  <2> QED
    BY <1>5, <2>2, <2>3, <2>4, <2>5 DEF StartDiscovery, TypeOK
<1>6. CASE Shutdown(n)
  BY <1>6 DEF Shutdown, TypeOK
<1>7. CASE JoinMdns(n)
  BY <1>7, SMT DEF JoinMdns, TypeOK
<1>8. CASE SendGoodbye(n)
  <2>1. net' \subseteq Datagram /\ missed' \in [Node -> [Node -> 0..2]]
    BY <1>8, SendTypes, SMT DEF SendGoodbye
  <2> QED
    BY <1>8, <2>1 DEF SendGoodbye, TypeOK
<1>9. CASE StopForShutdown(n)
  BY <1>9, NoClaimTypes DEF StopForShutdown, TypeOK
<1>10. CASE JoinLast(n)
  BY <1>10, EndTypes DEF JoinLast
<1> QED
  BY <1>1, <1>2, <1>3, <1>4, <1>5, <1>6, <1>7, <1>8, <1>9, <1>10 DEF Call

\* The workers' own steps keep the types.
LEMMA WorkTypes ==
    ASSUME TypeOK, DOMAIN directory = Node, NEW n \in Node,
           Beacon(n) \/ SendAnnouncement(n) \/ \E s \in Service : Work(n, s)
    PROVE  TypeOK'
<1> USE DEF lifeVars, adVars, timeVars, dirVars
<1>1. CASE Beacon(n)
  BY <1>1, DiscoveryConstants, SMT DEF Beacon, TypeOK
<1>2. CASE SendAnnouncement(n)
  <2>1. sending[n] \in SUBSET Node
    BY DEF TypeOK
  <2>2. net' \subseteq Datagram /\ missed' \in [Node -> [Node -> 0..2]]
    BY <1>2, <2>1, SendTypes DEF SendAnnouncement
  <2> QED
    BY <1>2, <2>2 DEF SendAnnouncement, TypeOK
<1>3. ASSUME NEW s \in Service, WorkerStops(n, s)
      PROVE  TypeOK'
  BY <1>3 DEF WorkerStops, TypeOK
<1>4. ASSUME NEW s \in Service, WorkerFails(n, s)
      PROVE  TypeOK'
  <2>1. missed' \in [Node -> [Node -> 0..2]]
    BY <1>4, NoClaimTypes DEF WorkerFails, TypeOK
  <2> QED
    BY <1>4, <2>1 DEF WorkerFails, TypeOK
<1>5. ASSUME NEW s \in Service, Prune(n, s)
      PROVE  TypeOK'
  <2>1. Directory(directory[n])
    BY DEF TypeOK, Directory
  <2>2. Directory(Without(directory[n], prune_expired(directory[n], Ttl(s))))
    BY <2>1, DirectoryOperations
  <2>3. \A o \in Node : \E S \in SUBSET Node : directory'[o] \in [S -> Age]
    BY <1>5, <2>2 DEF Prune, TypeOK, Directory
  <2> QED
    BY <1>5, <2>3 DEF Prune, TypeOK
<1> QED
  BY <1>1, <1>2, <1>3, <1>4, <1>5 DEF Work

\* A peer that appears or departs leaves every directory a directory.
LEMMA DirectoryTypes ==
    ASSUME TypeOK, DOMAIN directory = Node, NEW n \in Node, NEW p \in Node,
           Appears(n, p) \/ Departs(n, p)
    PROVE  \A o \in Node : \E S \in SUBSET Node : directory'[o] \in [S -> Age]
<1>1. Directory(directory[n])
  BY DEF TypeOK, Directory
<1>2. Directory(insert_or_update(directory[n], p)) /\ Directory(Without(directory[n], {p}))
  BY <1>1, DirectoryOperations
<1>3. PICK e : Directory(e) /\ directory' = [directory EXCEPT ![n] = e]
  BY <1>2 DEF Appears, Departs
<1>4. directory'[n] = e /\ \A o \in Node \ {n} : directory'[o] = directory[o]
  BY <1>3
<1>5. \A o \in Node : Directory(directory'[o])
  BY <1>3, <1>4 DEF TypeOK, Directory
<1> QED
  BY <1>5 DEF Directory

\* What is in flight after an arrival was in flight before, apart from its age.
LEMMA ArrivesTypes ==
    ASSUME TypeOK, NEW m, Arrives(m)
    PROVE  /\ m \in Datagram /\ m.to \in Node /\ m.src \in Node /\ m.id \in Node \cup {NoId}
           /\ net' \subseteq Datagram
           /\ \A k \in net' : k \in net \/ (k.kind = m.kind /\ k.id = m.id)
<1>1. m \in Datagram
  BY DEF Arrives, TypeOK
<1>2. /\ [m EXCEPT !.old = TRUE] \in Datagram
      /\ [m EXCEPT !.old = TRUE].kind = m.kind /\ [m EXCEPT !.old = TRUE].id = m.id
  BY <1>1 DEF Datagram
<1>3. m.to \in Node /\ m.src \in Node /\ m.id \in Node \cup {NoId}
  BY <1>1 DEF Datagram
<1> QED
  BY <1>1, <1>2, <1>3 DEF Arrives, TypeOK

\* Datagrams that arrive or are lost keep the types; only an Announcement lists a peer,
\* and it carries the identity of a node.
LEMMA ReceiveTypes ==
    ASSUME TypeOK, DOMAIN directory = Node, NetInv, NEW m \in net,
           ReceiveOwn(m) \/ ReceiveAnnouncement(m) \/ ReceiveGoodbye(m) \/ ReceiveQuery(m) \/ Lose(m)
    PROVE  TypeOK'
<1> USE DEF lifeVars, adVars, timeVars, dirVars
<1>0. m \in Datagram
  BY DEF TypeOK
<1>1. CASE ReceiveOwn(m)
  BY <1>1, ArrivesTypes DEF ReceiveOwn, TypeOK
<1>2. CASE ReceiveAnnouncement(m)
  <2>1. /\ Arrives(m) /\ m.kind = "Announcement" /\ Appears(m.to, m.id)
        /\ missed' = [missed EXCEPT ![m.to][m.id] = IF Beaconing(m.id) THEN 0 ELSE 2]
    BY <1>2 DEF ReceiveAnnouncement
  <2>2. m.to \in Node /\ m.id \in Node /\ net' \subseteq Datagram
    BY <2>1, ArrivesTypes DEF NetInv
  <2>3. \A o \in Node : \E S \in SUBSET Node : directory'[o] \in [S -> Age]
    BY <2>1, <2>2, DirectoryTypes
  <2>4. missed' \in [Node -> [Node -> 0..2]]
    BY <2>1, <2>2, SMT DEF TypeOK
  <2> QED
    BY <1>2, <2>2, <2>3, <2>4 DEF ReceiveAnnouncement, TypeOK
<1>3. CASE ReceiveGoodbye(m)
  <2>1. Arrives(m) /\ Departs(m.to, m.id)
    BY <1>3 DEF ReceiveGoodbye
  <2>2. m.to \in Node /\ net' \subseteq Datagram
    BY <2>1, ArrivesTypes
  <2>3. Directory(directory[m.to])
    BY <2>2 DEF TypeOK, Directory
  <2>4. Directory(Without(directory[m.to], {m.id}))
    BY <2>2, <2>3, DirectoryOperations
  <2>5. \A o \in Node : \E S \in SUBSET Node : directory'[o] \in [S -> Age]
    BY <2>1, <2>2, <2>4 DEF Departs, TypeOK, Directory
  <2> QED
    BY <1>3, <2>2, <2>5 DEF ReceiveGoodbye, TypeOK
<1>4. CASE ReceiveQuery(m)
  BY <1>4, ArrivesTypes, SMT DEF ReceiveQuery, TypeOK
<1>5. CASE Lose(m)
  <2>1. m.to \in Node
    BY <1>0 DEF Datagram
  <2>2. missed' \in [Node -> [Node -> 0..2]]
    <3>1. CASE m.kind = "Announcement" /\ missed[m.to][m.id] < 2
      <4>1. m.id \in Node
        BY <3>1 DEF NetInv
      <4>2. missed \in [Node -> [Node -> 0..2]]
        BY DEF TypeOK
      <4>3. missed[m.to][m.id] + 1 \in 0..2
        BY <2>1, <3>1, <4>1, <4>2, SMT
      <4> QED
        BY <1>5, <2>1, <3>1, <4>1, <4>2, <4>3 DEF Lose
    <3>2. CASE ~ (m.kind = "Announcement" /\ missed[m.to][m.id] < 2)
      BY <1>5, <3>2 DEF Lose, TypeOK
    <3> QED
      BY <3>1, <3>2
  <2> QED
    BY <1>5, <2>2 DEF Lose, TypeOK
<1> QED
  BY <1>1, <1>2, <1>3, <1>4, <1>5

\* The events that the daemon hands over and the worker reads keep the types.
LEMMA MdnsTypes ==
    ASSUME TypeOK, DOMAIN directory = Node, NEW n \in Node,
           \/ ServiceResolved(n) \/ ServiceRemoved(n)
           \/ \E p \in Node : DaemonResolves(n, p) \/ DaemonRemoves(n, p)
    PROVE  TypeOK'
<1> USE DEF lifeVars, adVars, timeVars, dirVars
<1>1. ASSUME NEW p \in Node, NEW kind \in {"ServiceResolved", "ServiceRemoved"},
             Hands(n, kind, p)
      PROVE  TypeOK'
  <2>1. [kind |-> kind, id |-> p] \in MdnsEvent
    BY DEF MdnsEvent
  <2>2. mdnsq' \in [Node -> Seq(MdnsEvent)]
    BY <1>1, <2>1, SMT DEF Hands, TypeOK
  <2> QED
    BY <1>1, <2>2 DEF Hands, TypeOK
<1>2. ASSUME NEW kind, ReadsEvent(n, kind)
      PROVE  Head(mdnsq[n]).id \in Node /\ mdnsq' \in [Node -> Seq(MdnsEvent)]
  <2>1. mdnsq[n] \in Seq(MdnsEvent) /\ mdnsq[n] # <<>> /\ mdnsq' = [mdnsq EXCEPT ![n] = Tail(@)]
    BY <1>2 DEF ReadsEvent, TypeOK
  <2>2. Head(mdnsq[n]) \in MdnsEvent /\ Tail(mdnsq[n]) \in Seq(MdnsEvent)
    BY <2>1, SMT
  <2> QED
    BY <2>1, <2>2 DEF MdnsEvent, TypeOK
<1>3. CASE ServiceResolved(n)
  <2>1. Head(mdnsq[n]).id \in Node /\ mdnsq' \in [Node -> Seq(MdnsEvent)]
    BY <1>2, <1>3 DEF ServiceResolved
  <2>2. CASE localId[n]["mdns"] /\ Head(mdnsq[n]).id = n
    BY <1>3, <2>1, <2>2 DEF ServiceResolved, TypeOK
  <2>3. CASE ~ (localId[n]["mdns"] /\ Head(mdnsq[n]).id = n)
    <3>1. /\ names' = [names EXCEPT ![n] = @ \cup {Head(mdnsq[n]).id}]
          /\ Appears(n, Head(mdnsq[n]).id)
      BY <1>3, <2>3 DEF ServiceResolved
    <3>2. \A o \in Node : \E S \in SUBSET Node : directory'[o] \in [S -> Age]
      BY <2>1, <3>1, DirectoryTypes
    <3>3. names' \in [Node -> SUBSET Node]
      BY <2>1, <3>1, ZenonT(30) DEF TypeOK
    <3> QED
      BY <1>3, <2>1, <3>2, <3>3 DEF ServiceResolved, TypeOK
  <2> QED
    BY <2>2, <2>3
<1>4. CASE ServiceRemoved(n)
  <2>1. Head(mdnsq[n]).id \in Node /\ mdnsq' \in [Node -> Seq(MdnsEvent)]
    BY <1>2, <1>4 DEF ServiceRemoved
  <2>2. CASE Head(mdnsq[n]).id \notin names[n]
    BY <1>4, <2>1, <2>2 DEF ServiceRemoved, TypeOK
  <2>3. CASE Head(mdnsq[n]).id \in names[n]
    <3>1. /\ names' = [names EXCEPT ![n] = @ \ {Head(mdnsq[n]).id}]
          /\ Departs(n, Head(mdnsq[n]).id)
      BY <1>4, <2>3 DEF ServiceRemoved
    <3>2. \A o \in Node : \E S \in SUBSET Node : directory'[o] \in [S -> Age]
      BY <2>1, <3>1, DirectoryTypes
    <3>3. names' \in [Node -> SUBSET Node]
      BY <2>1, <3>1 DEF TypeOK
    <3> QED
      BY <1>4, <2>1, <3>2, <3>3 DEF ServiceRemoved, TypeOK
  <2> QED
    BY <2>2, <2>3
<1> QED
  BY <1>1, <1>3, <1>4 DEF DaemonResolves, DaemonRemoves

\* A second keeps the types: no ticker is behind when it passes.
LEMMA TickTypes ==
    ASSUME TypeOK, Tick
    PROVE  TypeOK'
<1> USE DEF lifeVars, adVars, timeVars, dirVars
<1>1. net' \subseteq Datagram
  <2>1. ASSUME NEW m \in Datagram
        PROVE  [m EXCEPT !.old = TRUE] \in Datagram
    BY DEF Datagram
  <2> QED
    BY <2>1 DEF Tick, TypeOK
<1>2. ASSUME NEW n \in Node
      PROVE  \E S \in SUBSET Node : directory'[n] \in [S -> Age]
  <2>1. PICK S \in SUBSET Node : directory[n] \in [S -> Age]
    BY DEF TypeOK
  <2>2. directory'[n] = [p \in S |-> IF directory[n][p] < MaxAge THEN directory[n][p] + 1
                                     ELSE MaxAge]
    BY <2>1 DEF Tick, Listed
  <2>3. directory'[n] \in [S -> Age]
    BY <2>1, <2>2, DiscoveryConstants, SMT DEF Age, MaxAge
  <2> QED
    BY <2>3
<1>3. pruneDue' \in [Node -> [Service -> BOOLEAN]]
  BY DEF Tick
<1>4. beaconIn' \in [Node -> 0..BeaconInterval]
  <2> SUFFICES ASSUME NEW n \in Node
               PROVE  (IF worker[n]["udp"] = "run" /\ n \in Advertisers
                       THEN beaconIn[n] - 1 ELSE beaconIn[n]) \in 0..BeaconInterval
    BY DEF Tick
  <2>1. beaconIn[n] \in 0..BeaconInterval
    BY DEF TypeOK
  <2>2. worker[n]["udp"] = "run" => beaconIn[n] > 0
    BY DEF Tick, Prompt, Service
  <2> QED
    BY <2>1, <2>2, DiscoveryConstants, SMT
<1> QED
  BY <1>1, <1>2, <1>3, <1>4 DEF Tick, TypeOK

-----------------------------------------------------------------------------
(***************************************************************************)
(* Identities.                                                             *)
(***************************************************************************)

\* A send adds Announcements only for a service that has its identity.
LEMMA SendIdentity ==
    ASSUME Inv, NEW n \in Node, NEW kind \in {"Announcement", "Goodbye", "Query"},
           NEW id \in Node \cup {NoId}, NEW targets \in SUBSET Node, Sends(n, kind, id, targets),
           kind = "Announcement" /\ targets # {} => id = n /\ localId[n]["udp"],
           UNCHANGED <<up, localId>>
    PROVE  NetInv'
<1>1. \A m \in net' : m \in net \/ (m.kind = kind /\ m.id = id /\ targets # {})
  BY SendTypes, ZenonT(30) DEF Inv
<1> QED
  BY <1>1 DEF Inv, IdInv, NetInv

\* The end of a process takes its identity, its workers and its queue with it; what it
\* sent is still under way, and it no longer receives.
LEMMA EndIdentity ==
    ASSUME Inv, NEW n \in Node, Ends(n)
    PROVE  IdInv'
<1>1. DOMAIN directory' = Node /\ NeverListsSelf'
  BY SMT DEF Ends, Inv, IdInv, NeverListsSelf, Listed, Nobody, TypeOK
<1>2. AdInv' /\ LifeInv'
  BY DEF Ends, Inv, IdInv, AdInv, LifeInv, TypeOK
<1>3. NetInv'
  BY DEF Ends, Inv, IdInv, NetInv, TypeOK
<1>4. EventInv'
  BY SMT DEF Ends, Inv, IdInv, EventInv, TypeOK
<1> QED
  BY <1>1, <1>2, <1>3, <1>4 DEF IdInv

\* A step that leaves identities, messages and directories alone.
LEMMA IdentityStays ==
    ASSUME IdInv, UNCHANGED <<up, localId, directory, mdnsq, net>>, AdInv', LifeInv'
    PROVE  IdInv'
<1>1. NetInv' /\ EventInv'
  BY DEF IdInv, NetInv, EventInv
<1>2. DOMAIN directory' = Node /\ NeverListsSelf'
  BY DEF IdInv, NeverListsSelf, Listed
<1> QED
  BY <1>1, <1>2 DEF IdInv

\* A queue that is emptied holds no event of the node itself.
LEMMA QueueEmptied ==
    ASSUME Inv, NEW n \in Node, mdnsq' = [mdnsq EXCEPT ![n] = <<>>], localId' = localId
    PROVE  EventInv'
<1>1. EventInv /\ mdnsq \in [Node -> Seq(MdnsEvent)]
  BY DEF Inv, IdInv, TypeOK
<1>2. mdnsq'[n] = <<>> /\ \A o \in Node \ {n} : mdnsq'[o] = mdnsq[o]
  BY <1>1
<1>3. Len(mdnsq'[n]) = 0
  BY <1>2
<1> QED
  BY <1>1, <1>2, <1>3, SMT DEF EventInv

\* A worker that was there ends, or stays.
LEMMA WorkerEnds ==
    ASSUME Inv, NEW n \in Node, NEW s \in Service, NEW v, worker' = [worker EXCEPT ![n][s] = v],
           v # "none" => worker[n][s] # "none", up' = up
    PROVE  LifeInv'
<1>1. LifeInv /\ worker \in [Node -> [Service -> {"none", "run", "ended"}]]
  BY DEF Inv, IdInv, TypeOK
<1>2. \A o \in Node, t \in Service : worker'[o][t] = IF o = n /\ t = s THEN v ELSE worker[o][t]
  BY <1>1
<1> QED
  BY <1>1, <1>2, ZenonT(30) DEF LifeInv

\* advertise gives a service its identity before or with its advertisement, and
\* stop_advertising leaves it; start_discovery and shutdown do not touch it.
LEMMA CallIdentity ==
    ASSUME Inv, NEW n \in Node, Call(n)
    PROVE  IdInv'
<1> USE DEF Inv, lifeVars, adVars, timeVars, dirVars, Goes, NoClaim, Service
<1>1. CASE Advertise(n)
  <2>1. /\ \A o \in Node, s \in Service : localId[o][s] => localId'[o][s]
        /\ localId'[n]["mdns"]
        /\ \A o \in Node \ {n} : registered'[o] = registered[o]
        /\ UNCHANGED <<up, worker, directory, mdnsq, net, advertising, sending>>
    BY <1>1, SMT DEF Advertise, TypeOK
  <2>2. AdInv'
    BY <2>1 DEF IdInv, AdInv
  <2>3. NetInv' /\ EventInv'
    BY <2>1 DEF IdInv, NetInv, EventInv
  <2> QED
    BY <2>1, <2>2, <2>3 DEF IdInv, LifeInv, NeverListsSelf, Listed
<1>2. CASE AdvertiseUdp(n)
  <2>1. /\ \A o \in Node, s \in Service : localId[o][s] => localId'[o][s]
        /\ localId'[n]["udp"]
        /\ \A o \in Node \ {n} : advertising'[o] = advertising[o]
        /\ UNCHANGED <<up, worker, directory, mdnsq, net, registered, sending>>
    BY <1>2, SMT DEF AdvertiseUdp, TypeOK
  <2>2. AdInv'
    BY <2>1 DEF IdInv, AdInv
  <2>3. NetInv' /\ EventInv'
    BY <2>1 DEF IdInv, NetInv, EventInv
  <2> QED
    BY <2>1, <2>2, <2>3 DEF IdInv, LifeInv, NeverListsSelf, Listed
<1>3. CASE StopAdvertising(n)
  <2>1. UNCHANGED <<up, localId, directory, mdnsq, net>>
    BY <1>3 DEF StopAdvertising
  <2>2. AdInv'
    BY <1>3 DEF StopAdvertising, TypeOK, IdInv, AdInv
  <2>3. LifeInv'
    BY <1>3 DEF StopAdvertising, IdInv, LifeInv
  <2> QED
    BY <2>1, <2>2, <2>3, IdentityStays DEF IdInv
<1>4. CASE StopUdpAdvertising(n)
  <2>1. UNCHANGED <<up, localId, directory, mdnsq, net>>
    BY <1>4 DEF StopUdpAdvertising
  <2>2. AdInv'
    BY <1>4 DEF StopUdpAdvertising, TypeOK, IdInv, AdInv
  <2>3. LifeInv'
    BY <1>4 DEF StopUdpAdvertising, IdInv, LifeInv
  <2> QED
    BY <2>1, <2>2, <2>3, IdentityStays DEF IdInv
<1>5. CASE Shutdown(n)
  <2>1. UNCHANGED <<up, localId, directory, mdnsq, net>>
    BY <1>5 DEF Shutdown
  <2>2. AdInv'
    BY <1>5 DEF Shutdown, TypeOK, IdInv, AdInv
  <2>3. LifeInv'
    <3> DEFINE v == IF worker[n]["mdns"] = "run" THEN "run" ELSE "none"
    <3>1. worker' = [worker EXCEPT ![n]["mdns"] = v] /\ "mdns" \in Service /\ up' = up
      BY <1>5 DEF Shutdown
    <3>2. v # "none" => worker[n]["mdns"] # "none"
      OBVIOUS
    <3> HIDE DEF v
    <3> QED
      BY <3>1, <3>2, WorkerEnds
  <2> QED
    BY <2>1, <2>2, <2>3, IdentityStays DEF IdInv
<1>6. CASE JoinMdns(n)
  <2>1. EventInv'
    BY <1>6, QueueEmptied DEF JoinMdns
  <2> QED
    BY <1>6, <2>1 DEF JoinMdns, IdInv, AdInv, LifeInv, NetInv, NeverListsSelf, Listed
<1>7. CASE StopForShutdown(n)
  <2>1. UNCHANGED <<up, localId, directory, mdnsq, net>>
    BY <1>7 DEF StopForShutdown
  <2>2. AdInv'
    BY <1>7 DEF StopForShutdown, TypeOK, IdInv, AdInv
  <2>3. LifeInv'
    <3> DEFINE v == IF worker[n]["udp"] = "run" THEN "run" ELSE "none"
    <3>1. worker' = [worker EXCEPT ![n]["udp"] = v] /\ "udp" \in Service /\ up' = up
      BY <1>7 DEF StopForShutdown
    <3>2. v # "none" => worker[n]["udp"] # "none"
      OBVIOUS
    <3> HIDE DEF v
    <3> QED
      BY <3>1, <3>2, WorkerEnds
  <2> QED
    BY <2>1, <2>2, <2>3, IdentityStays DEF IdInv
<1>8. CASE StartDiscovery(n)
  <2>1. PICK bound \in BOOLEAN :
          LET starts == {s \in Service : Has(n, s) /\ (s = "udp" => bound)} IN
          /\ worker' = [worker EXCEPT ![n] = [s \in Service |-> IF s \in starts THEN "run"
                                                                ELSE @[s]]]
          /\ Sends(n, "Query", IF localId[n]["udp"] THEN n ELSE NoId,
                   IF "udp" \in starts THEN Node ELSE {})
    BY <1>8 DEF StartDiscovery
  <2>2. NetInv'
    BY <1>8, <2>1, SendIdentity, SMT DEF StartDiscovery
  <2>3. LifeInv'
    BY <1>8, <2>1, ZenonT(30) DEF StartDiscovery, Idle, TypeOK, IdInv, LifeInv
  <2>4. EventInv'
    BY <1>8, QueueEmptied DEF StartDiscovery
  <2>5. UNCHANGED <<localId, directory, advertising, registered, sending>>
    BY <1>8 DEF StartDiscovery
  <2>6. AdInv' /\ NeverListsSelf' /\ DOMAIN directory' = Node
    BY <2>5 DEF IdInv, AdInv, NeverListsSelf, Listed
  <2> QED
    BY <2>2, <2>3, <2>4, <2>6 DEF IdInv
<1>9. CASE SendGoodbye(n)
  <2>1. NetInv'
    BY <1>9, SendIdentity, ZenonT(30) DEF SendGoodbye
  <2>2. UNCHANGED <<up, localId, directory, advertising, registered, sending, worker, mdnsq>>
    BY <1>9 DEF SendGoodbye
  <2> QED
    BY <2>1, <2>2 DEF IdInv, AdInv, LifeInv, EventInv, NeverListsSelf, Listed
<1>10. CASE JoinLast(n)
  BY <1>10, EndIdentity DEF JoinLast
<1> QED
  BY <1>1, <1>2, <1>3, <1>4, <1>5, <1>6, <1>7, <1>8, <1>9, <1>10 DEF Call

\* A worker announces what is advertised, and forgets peers.
LEMMA WorkIdentity ==
    ASSUME Inv, NEW n \in Node,
           Beacon(n) \/ SendAnnouncement(n) \/ \E s \in Service : Work(n, s)
    PROVE  IdInv'
<1> USE DEF Inv, lifeVars, adVars, timeVars, dirVars
<1>1. CASE Beacon(n)
  <2>1. UNCHANGED <<up, localId, directory, mdnsq, net>>
    BY <1>1 DEF Beacon
  <2>2. AdInv'
    BY <1>1 DEF Beacon, TypeOK, IdInv, AdInv
  <2>3. LifeInv'
    BY <1>1 DEF Beacon, IdInv, LifeInv
  <2> QED
    BY <2>1, <2>2, <2>3, IdentityStays DEF IdInv
<1>2. CASE SendAnnouncement(n)
  <2>1. sending[n] \in SUBSET Node /\ localId[n]["udp"]
    BY <1>2 DEF SendAnnouncement, TypeOK, IdInv, AdInv
  <2>2. NetInv'
    BY <1>2, <2>1, SendIdentity DEF SendAnnouncement
  <2>3. UNCHANGED <<up, localId, directory, advertising, registered, worker, mdnsq>>
    BY <1>2 DEF SendAnnouncement
  <2>4. AdInv'
    BY <1>2, <2>3, ZenonT(30) DEF SendAnnouncement, TypeOK, IdInv, AdInv
  <2> QED
    BY <2>2, <2>3, <2>4 DEF IdInv, LifeInv, EventInv, NeverListsSelf, Listed
<1>3. ASSUME NEW s \in Service, WorkerStops(n, s)
      PROVE  IdInv'
  <2>1. UNCHANGED <<up, localId, directory, mdnsq, net>>
    BY <1>3 DEF WorkerStops
  <2>2. AdInv'
    BY <1>3 DEF WorkerStops, IdInv, AdInv
  <2>3. LifeInv'
    BY <1>3, WorkerEnds DEF WorkerStops
  <2> QED
    BY <2>1, <2>2, <2>3, IdentityStays DEF IdInv
<1>4. ASSUME NEW s \in Service, WorkerFails(n, s)
      PROVE  IdInv'
  <2>1. UNCHANGED <<up, localId, directory, mdnsq, net>>
    BY <1>4 DEF WorkerFails
  <2>2. AdInv'
    BY <1>4 DEF WorkerFails, IdInv, AdInv
  <2>3. LifeInv'
    <3>1. worker[n][s] # "none"
      BY <1>4 DEF WorkerFails, Selects
    <3> QED
      BY <1>4, <3>1, WorkerEnds DEF WorkerFails
  <2> QED
    BY <2>1, <2>2, <2>3, IdentityStays DEF IdInv
<1>5. ASSUME NEW s \in Service, Prune(n, s)
      PROVE  IdInv'
  <2>1. Directory(directory[n]) /\ directory' = [directory EXCEPT ![n] =
                                       Without(@, prune_expired(@, Ttl(s)))]
    BY <1>5 DEF Prune, TypeOK, Directory
  <2>2. DOMAIN Without(directory[n], prune_expired(directory[n], Ttl(s))) \subseteq DOMAIN directory[n]
    BY <2>1, DirectoryOperations
  <2>3. DOMAIN directory' = Node /\ NeverListsSelf'
    BY <2>1, <2>2 DEF IdInv, NeverListsSelf, Listed
  <2> QED
    BY <1>5, <2>3 DEF Prune, IdInv, AdInv, LifeInv, NetInv, EventInv
<1> QED
  BY <1>1, <1>2, <1>3, <1>4, <1>5 DEF Work

\* A peer other than the node itself appears, or one departs: the node is not listed.
LEMMA NoSelfAppears ==
    ASSUME Inv, NEW n \in Node, NEW p \in Node \cup {NoId},
           (Appears(n, p) /\ p \in Node \ {n}) \/ Departs(n, p)
    PROVE  DOMAIN directory' = Node /\ NeverListsSelf'
<1>1. /\ Directory(directory[n]) /\ DOMAIN directory = Node
      /\ n \notin DOMAIN directory[n]
  BY DEF Inv, IdInv, TypeOK, Directory, NeverListsSelf, Listed
<1>2. PICK d : n \notin DOMAIN d /\ directory' = [directory EXCEPT ![n] = d]
  <2>1. CASE Appears(n, p) /\ p \in Node \ {n}
    <3>1. DOMAIN insert_or_update(directory[n], p) = DOMAIN directory[n] \cup {p}
      BY DEF insert_or_update
    <3> QED
      BY <1>1, <2>1, <3>1 DEF Appears
  <2>2. CASE Departs(n, p)
    <3>1. DOMAIN Without(directory[n], {p}) \subseteq DOMAIN directory[n]
      BY DEF Without
    <3> QED
      BY <1>1, <2>2, <3>1 DEF Departs
  <2> QED
    BY <2>1, <2>2
<1> QED
  BY <1>1, <1>2 DEF Inv, IdInv, NeverListsSelf, Listed

\* A worker that receives is alive, so the filter of udp.rs:306-311 knows the identity
\* that a beacon of its own carries.
LEMMA ReceiveIdentity ==
    ASSUME Inv, NEW m \in net,
           ReceiveOwn(m) \/ ReceiveAnnouncement(m) \/ ReceiveGoodbye(m) \/ ReceiveQuery(m) \/ Lose(m)
    PROVE  IdInv'
<1> USE DEF Inv, lifeVars, adVars, timeVars, dirVars
<1>1. ASSUME Arrives(m), UNCHANGED <<up, localId>>
      PROVE  NetInv'
  <2>1. \A k \in net' : k \in net \/ (k.kind = m.kind /\ k.id = m.id)
    BY <1>1, ArrivesTypes
  <2> QED
    BY <1>1, <2>1 DEF IdInv, NetInv
<1>2. CASE ReceiveOwn(m)
  BY <1>1, <1>2 DEF ReceiveOwn, IdInv, AdInv, LifeInv, EventInv, NeverListsSelf, Listed
<1>3. CASE ReceiveAnnouncement(m)
  <2>1. Arrives(m) /\ ~ Own(m) /\ m.kind = "Announcement" /\ Appears(m.to, m.id)
    BY <1>3 DEF ReceiveAnnouncement
  <2>2. m.to \in Node /\ m.id \in Node /\ (up[m.id] => localId[m.id]["udp"])
    BY <2>1, ArrivesTypes DEF IdInv, NetInv
  <2>3. up[m.to]
    BY <2>1, <2>2 DEF Arrives, Selects, IdInv, LifeInv, Service
  <2>4. m.id # m.to
    BY <2>1, <2>2, <2>3 DEF Own
  <2>5. DOMAIN directory' = Node /\ NeverListsSelf'
    BY <2>1, <2>2, <2>4, NoSelfAppears
  <2>6. NetInv'
    BY <1>1, <1>3, <2>1 DEF ReceiveAnnouncement
  <2> QED
    BY <1>3, <2>5, <2>6 DEF ReceiveAnnouncement, IdInv, AdInv, LifeInv, EventInv
<1>4. CASE ReceiveGoodbye(m)
  <2>1. Arrives(m) /\ Departs(m.to, m.id)
    BY <1>4 DEF ReceiveGoodbye
  <2>2. m.to \in Node /\ m.id \in Node \cup {NoId}
    BY <2>1, ArrivesTypes
  <2>3. DOMAIN directory' = Node /\ NeverListsSelf'
    BY <2>1, <2>2, NoSelfAppears
  <2>4. NetInv'
    BY <1>1, <1>4, <2>1 DEF ReceiveGoodbye
  <2> QED
    BY <1>4, <2>3, <2>4 DEF ReceiveGoodbye, IdInv, AdInv, LifeInv, EventInv
<1>5. CASE ReceiveQuery(m)
  <2>1. NetInv'
    BY <1>1, <1>5 DEF ReceiveQuery
  <2>2. AdInv'
    BY <1>5, ZenonT(30) DEF ReceiveQuery, TypeOK, IdInv, AdInv
  <2> QED
    BY <1>5, <2>1, <2>2 DEF ReceiveQuery, IdInv, LifeInv, EventInv, NeverListsSelf, Listed
<1>6. CASE Lose(m)
  BY <1>6 DEF Lose, IdInv, AdInv, LifeInv, NetInv, EventInv, NeverListsSelf, Listed
<1> QED
  BY <1>2, <1>3, <1>4, <1>5, <1>6

\* The daemon resolves a service that is registered, so the filter of service.rs:340-347
\* knows the identity that a record of its own carries.
LEMMA MdnsIdentity ==
    ASSUME Inv, NEW n \in Node,
           \/ ServiceResolved(n) \/ ServiceRemoved(n)
           \/ \E p \in Node : DaemonResolves(n, p) \/ DaemonRemoves(n, p)
    PROVE  IdInv'
<1> USE DEF Inv, lifeVars, adVars, timeVars, dirVars
<1>0. mdnsq \in [Node -> Seq(MdnsEvent)] /\ mdnsq[n] \in Seq(MdnsEvent)
  BY DEF TypeOK
<1>1. ASSUME NEW p \in Node, NEW kind \in {"ServiceResolved", "ServiceRemoved"},
             Hands(n, kind, p), kind = "ServiceResolved" => registered[p]
      PROVE  IdInv'
  <2>1. kind = "ServiceResolved" /\ p = n => localId[n]["mdns"]
    BY <1>1 DEF IdInv, AdInv
  <2> DEFINE q == mdnsq[n]
             e == [kind |-> kind, id |-> p]
  <2>2. e.kind = kind /\ e.id = p /\ e \in MdnsEvent
    BY DEF MdnsEvent
  <2>3. mdnsq' = [mdnsq EXCEPT ![n] = Append(q, e)] /\ localId' = localId
    BY <1>1 DEF Hands
  <2> HIDE DEF e
  <2>4. \A i \in 1 .. Len(Append(q, e)) :
          (i \in 1 .. Len(q) /\ Append(q, e)[i] = q[i]) \/ Append(q, e)[i] = e
    BY <1>0, <2>2, SMT
  <2>5. EventInv'
    BY <1>0, <2>1, <2>2, <2>3, <2>4, SMT DEF IdInv, EventInv
  <2> QED
    BY <1>1, <2>5 DEF Hands, IdInv, AdInv, LifeInv, NetInv, NeverListsSelf, Listed
<1>2. ASSUME NEW kind, ReadsEvent(n, kind), localId' = localId
      PROVE  /\ Head(mdnsq[n]).id \in Node /\ EventInv'
             /\ kind = "ServiceResolved" /\ Head(mdnsq[n]).id = n => localId[n]["mdns"]
  <2> DEFINE q == mdnsq[n]
  <2>1. /\ q # <<>> /\ q \in Seq(MdnsEvent) /\ mdnsq' = [mdnsq EXCEPT ![n] = Tail(q)]
        /\ Head(q).kind = kind
    BY <1>0, <1>2 DEF ReadsEvent
  <2> HIDE DEF q
  <2>2. /\ Head(q) = q[1] /\ 1 \in 1 .. Len(q) /\ Head(q) \in MdnsEvent
        /\ \A i \in 1 .. Len(Tail(q)) : i + 1 \in 1 .. Len(q) /\ Tail(q)[i] = q[i + 1]
    BY <2>1, SMT
  <2>3. \A i \in 1 .. Len(q) : q[i].kind = "ServiceResolved" /\ q[i].id = n => localId[n]["mdns"]
    BY DEF q, IdInv, EventInv
  <2>4. EventInv'
    BY <1>0, <1>2, <2>1, <2>2, <2>3, SMT DEF IdInv, EventInv
  <2>5. Head(q).id \in Node
    BY <2>2 DEF MdnsEvent
  <2>6. kind = "ServiceResolved" /\ Head(q).id = n => localId[n]["mdns"]
    BY <2>1, <2>2, <2>3
  <2> QED
    BY <2>4, <2>5, <2>6 DEF q
<1>3. CASE ServiceResolved(n)
  <2> DEFINE p == Head(mdnsq[n]).id
  <2>1. /\ p \in Node /\ EventInv' /\ (p = n => localId[n]["mdns"])
    BY <1>2, <1>3 DEF ServiceResolved
  <2>2. \/ UNCHANGED directory
        \/ Appears(n, p) /\ p # n
    BY <1>3, <2>1 DEF ServiceResolved
  <2>3. DOMAIN directory' = Node /\ NeverListsSelf'
    <3>1. CASE UNCHANGED directory
      BY <3>1 DEF IdInv, NeverListsSelf, Listed
    <3>2. CASE Appears(n, p) /\ p # n
      BY <2>1, <3>2, NoSelfAppears
    <3> QED
      BY <2>2, <3>1, <3>2
  <2> QED
    BY <1>3, <2>1, <2>3 DEF ServiceResolved, IdInv, AdInv, LifeInv, NetInv
<1>4. CASE ServiceRemoved(n)
  <2> DEFINE p == Head(mdnsq[n]).id
  <2>1. p \in Node /\ EventInv'
    BY <1>2, <1>4 DEF ServiceRemoved
  <2>2. UNCHANGED directory \/ Departs(n, p)
    BY <1>4 DEF ServiceRemoved
  <2>3. DOMAIN directory' = Node /\ NeverListsSelf'
    <3>1. CASE UNCHANGED directory
      BY <3>1 DEF IdInv, NeverListsSelf, Listed
    <3>2. CASE Departs(n, p)
      BY <2>1, <3>2, NoSelfAppears
    <3> QED
      BY <2>2, <3>1, <3>2
  <2> QED
    BY <1>4, <2>1, <2>3 DEF ServiceRemoved, IdInv, AdInv, LifeInv, NetInv
<1> QED
  BY <1>1, <1>3, <1>4 DEF DaemonResolves, DaemonRemoves

\* A second changes no identity and lists no one.
LEMMA TickIdentity ==
    ASSUME Inv, Tick
    PROVE  IdInv'
<1> USE DEF Inv, lifeVars, adVars, timeVars, dirVars
<1>1. NetInv'
  <2>1. ASSUME NEW m \in Datagram
        PROVE  [m EXCEPT !.old = TRUE].kind = m.kind /\ [m EXCEPT !.old = TRUE].id = m.id
    BY DEF Datagram
  <2>2. \A k \in net' : \E m \in net : k.kind = m.kind /\ k.id = m.id
    <3>1. ASSUME NEW k \in net'
          PROVE  \E m \in net : k.kind = m.kind /\ k.id = m.id
      <4>1. PICK m \in net : k = [m EXCEPT !.old = TRUE]
        BY DEF Tick
      <4>2. m \in Datagram
        BY DEF TypeOK
      <4> QED
        BY <2>1, <4>1, <4>2
    <3> QED
      BY <3>1
  <2>3. UNCHANGED <<up, localId>>
    BY DEF Tick
  <2> QED
    BY <2>2, <2>3 DEF IdInv, NetInv
<1>2. DOMAIN directory' = Node /\ NeverListsSelf'
  BY DEF Tick, IdInv, NeverListsSelf, Listed
<1> QED
  BY <1>1, <1>2 DEF Tick, IdInv, AdInv, LifeInv, EventInv

-----------------------------------------------------------------------------
(***************************************************************************)
(* The invariant and what follows from it.                                 *)
(***************************************************************************)

\* Nodes that have just started satisfy the invariant.
LEMMA InvInit == Init => Inv
<1> SUFFICES ASSUME Init
             PROVE  Inv
  OBVIOUS
<1>1. /\ up \in [Node -> BOOLEAN] /\ is_running \in [Node -> BOOLEAN]
      /\ localId \in [Node -> [Service -> BOOLEAN]] /\ advertising \in [Node -> BOOLEAN]
      /\ registered \in [Node -> BOOLEAN] /\ daemon \in [Node -> BOOLEAN]
      /\ pruneDue \in [Node -> [Service -> BOOLEAN]]
  <2>1. \A n \in Node : Has(n, "mdns") \in BOOLEAN
    BY SMT DEF Has
  <2>2. daemon \in [Node -> BOOLEAN]
    BY <2>1 DEF Init
  <2> QED
    BY <2>2 DEF Init
<1>2. \A n \in Node : \E S \in SUBSET Node : directory[n] \in [S -> Age]
  <2>1. Nobody \in [{} -> Age]
    BY SMT DEF Nobody
  <2> QED
    BY <2>1 DEF Init
<1>3. /\ mode \in [Node -> Modes] /\ call \in [Node -> CallState]
      /\ worker \in [Node -> [Service -> {"none", "run", "ended"}]]
      /\ sending \in [Node -> SUBSET Node] /\ names \in [Node -> SUBSET Node]
  BY DEF Init, CallState
<1>4. /\ mdnsq \in [Node -> Seq(MdnsEvent)] /\ net \subseteq Datagram
      /\ beaconIn \in [Node -> 0..BeaconInterval] /\ missed \in [Node -> [Node -> 0..2]]
  BY DiscoveryConstants, SMT DEF Init
<1>5. TypeOK
  BY <1>1, <1>2, <1>3, <1>4 DEF TypeOK
<1>6. IdInv
  BY SMT DEF Init, Nobody, Service, IdInv, AdInv, LifeInv, NetInv, EventInv, NeverListsSelf, Listed
<1> QED
  BY <1>5, <1>6 DEF Inv

\* Every step of the nodes, the network and the daemons preserves it.
LEMMA InvStep == Inv /\ [Next]_vars => Inv'
<1> SUFFICES ASSUME Inv, [Next]_vars
             PROVE  Inv'
  OBVIOUS
<1>0. TypeOK /\ DOMAIN directory = Node /\ NetInv
  BY DEF Inv, IdInv
<1>1. ASSUME NEW n \in Node, Call(n) \/ Crash(n)
      PROVE  Inv'
  BY <1>0, <1>1, CallTypes, CallIdentity, EndTypes, EndIdentity DEF Inv, Crash
<1>2. ASSUME NEW n \in Node,
             Beacon(n) \/ SendAnnouncement(n) \/ \E s \in Service : Work(n, s)
      PROVE  Inv'
  BY <1>0, <1>2, WorkTypes, WorkIdentity DEF Inv
<1>3. ASSUME NEW n \in Node,
             \/ ServiceResolved(n) \/ ServiceRemoved(n)
             \/ \E p \in Node : DaemonResolves(n, p) \/ DaemonRemoves(n, p)
      PROVE  Inv'
  BY <1>0, <1>3, MdnsTypes, MdnsIdentity DEF Inv
<1>4. ASSUME NEW m \in net,
             \/ ReceiveOwn(m) \/ ReceiveAnnouncement(m) \/ ReceiveGoodbye(m)
             \/ ReceiveQuery(m) \/ Lose(m)
      PROVE  Inv'
  BY <1>0, <1>4, ReceiveTypes, ReceiveIdentity DEF Inv
<1>5. CASE Tick
  BY <1>0, <1>5, TickTypes, TickIdentity DEF Inv
<1>6. CASE UNCHANGED vars
  BY <1>6 DEF Inv, vars, lifeVars, adVars, timeVars, dirVars, TypeOK, IdInv, AdInv,
                          LifeInv, NetInv, EventInv, NeverListsSelf, Listed
<1> QED
  BY <1>1, <1>2, <1>3, <1>4, <1>5, <1>6 DEF Next

\* The invariant holds in every state.
THEOREM DiscoveryInvariant == Spec => []Inv
BY InvInit, InvStep, PTL DEF Spec

\* Directories hold nodes and ages, tickers stay in their intervals, and so on for
\* every variable, whatever the intervals, TTLs and bounds.
THEOREM DiscoveryTypeCorrect == Spec => []TypeOK
<1>1. Inv => TypeOK
  BY DEF Inv
<1> QED
  BY <1>1, DiscoveryInvariant, PTL

\* For any number of nodes, in any modes and under any loss, repetition and delay of
\* datagrams and records, no node lists itself: the self filters of udp.rs:306-311 and
\* service.rs:340-347 are complete, because an identity is set before anything
\* carries it and never unset while its process lives.
THEOREM NoNodeListsItself == Spec => []NeverListsSelf
<1>1. Inv => NeverListsSelf
  BY DEF Inv, IdInv
<1> QED
  BY <1>1, DiscoveryInvariant, PTL
=============================================================================
