-------------------------- MODULE DiscoveryTiming ---------------------------
(***************************************************************************)
(* Proof that no worker expires a peer that keeps beaconing, for any set   *)
(* of nodes and any intervals that leave room for one lost beacon and one  *)
(* second of delay.                                                        *)
(***************************************************************************)
EXTENDS DiscoveryProofs

\* Leaves that need arithmetic, tuples or sequences name SMT.
USE Zenon

\* The intervals: two beacons and a second fit into the TTL of either service.  The
\* defaults of UdpConfig and DiscoveryConfig, 2 s, 6 s and 5 s, just do.
Intervals ==
    /\ BeaconInterval >= 2
    /\ 2 * BeaconInterval + 1 <= UdpTtl
    /\ 2 * BeaconInterval + 1 <= MdnsTtl

(***************************************************************************)
(* The inductive invariant.                                                *)
(***************************************************************************)

\* A UDP worker runs only after a start that succeeded, only a program that advertises
\* does, and none that waits for its UDP worker.
RunInv ==
    \A n \in Node :
        /\ worker[n]["udp"] = "run" => is_running[n]
        /\ advertising[n] => n \in Advertisers /\ call[n] # "joinUdp"

\* Something is claimed only of peers that beacon.
ClaimInv == \A o, p \in Node : missed[o][p] < 2 => Beaconing(p)

\* An Announcement of p to o is about to be sent or under way, in its first second or
\* in its second one.
Announces(m, o, p) == m.kind = "Announcement" /\ m.id = p /\ m.to = o
Fresh(o, p) == o \in sending[p] \/ \E m \in net : Announces(m, o, p) /\ ~ m.old
Late(o, p) == \E m \in net : Announces(m, o, p) /\ m.old

\* How long ago the last beacon before k lost ones was, when the next one is due.
Span(k) == IF k = 0 THEN BeaconInterval ELSE 2 * BeaconInterval

\* The age a of an entry, after k losses and b seconds before the next beacon: what the
\* beacons account for, or one interval more while the last beacon is under way.
Accounted(a, k, b, fresh, late) ==
    \/ a + b <= Span(k)
    \/ b = BeaconInterval /\ a <= Span(k) /\ fresh
    \/ b >= BeaconInterval - 1 /\ a + b <= Span(k) + BeaconInterval /\ late

Claimed(o, p) == p \in Listed(o) /\ missed[o][p] < 2

AgeInv ==
    \A o, p \in Node : Claimed(o, p) =>
        Accounted(directory[o][p], missed[o][p], beaconIn[p], Fresh(o, p), Late(o, p))

TimeInv == RunInv /\ ClaimInv /\ AgeInv

-----------------------------------------------------------------------------
(***************************************************************************)
(* Facts about single steps.                                               *)
(***************************************************************************)

\* The numbers that AgeInv speaks of.
LEMMA Numbers ==
    ASSUME Inv, NEW o \in Node, NEW p \in Node
    PROVE  /\ BeaconInterval \in Nat /\ BeaconInterval > 0 /\ MaxAge \in Nat
           /\ missed[o][p] \in {0, 1, 2}
           /\ beaconIn[p] \in Nat /\ beaconIn[p] <= BeaconInterval
           /\ p \in Listed(o) => directory[o][p] \in Nat
<1>1. BeaconInterval \in Nat /\ BeaconInterval > 0 /\ MaxAge \in Nat
  BY DiscoveryConstants, SMT DEF MaxAge
<1>2. missed[o][p] \in 0..2 /\ beaconIn[p] \in 0..BeaconInterval
  BY SMT DEF Inv, TypeOK
<1>3. PICK S \in SUBSET Node : directory[o] \in [S -> Age]
  BY DEF Inv, TypeOK
<1>4. p \in Listed(o) => directory[o][p] \in Age
  BY <1>3 DEF Listed
<1> QED
  BY <1>1, <1>2, <1>4, SMT DEF Age

\* An entry, its losses and its beacons stay as they are, and no datagram is lost.
Kept(o, p) ==
    /\ Claimed(o, p)
    /\ UNCHANGED <<directory[o][p], missed[o][p], beaconIn[p]>>
    /\ Fresh(o, p) => Fresh(o, p)'
    /\ Late(o, p) => Late(o, p)'

\* Then the entry is accounted for as before.
LEMMA KeptAccounted ==
    ASSUME AgeInv, NEW o \in Node, NEW p \in Node, Kept(o, p)
    PROVE  Accounted(directory[o][p], missed[o][p], beaconIn[p], Fresh(o, p), Late(o, p))'
BY DEF AgeInv, Kept, Accounted, Span

\* What is under way stays under way when datagrams are only added.
LEMMA UnderWay ==
    ASSUME net \subseteq net', NEW o \in Node, NEW p \in Node, sending'[p] = sending[p]
    PROVE  (Fresh(o, p) => Fresh(o, p)') /\ (Late(o, p) => Late(o, p)')
BY DEF Fresh, Late, Announces

\* A send adds datagrams, and counts losses only of Announcements, of their sender.
LEMMA SendFacts ==
    ASSUME Inv, NEW n \in Node, NEW kind, NEW id, NEW targets \in SUBSET Node,
           Sends(n, kind, id, targets)
    PROVE  /\ net \subseteq net'
           /\ \A o, p \in Node : p # n \/ kind # "Announcement" \/ o \notin targets \ {n}
                                    => missed'[o][p] = missed[o][p]
           /\ \A o \in targets \ {n} : kind = "Announcement" =>
                \/ /\ missed'[o][n] = missed[o][n]
                   /\ \E m \in net' : m.kind = kind /\ m.id = id /\ m.to = o /\ ~ m.old
                \/ missed'[o][n] = IF missed[o][n] < 2 THEN missed[o][n] + 1 ELSE missed[o][n]
<1>1. PICK reached \in SUBSET targets :
        /\ net' = net \cup [kind : {kind}, id : {id}, src : {n}, to : reached, old : {FALSE}]
        /\ missed' = [o \in Node |-> [missed[o] EXCEPT ![n] =
                        IF kind = "Announcement" /\ o \in targets \ (reached \cup {n}) /\ @ < 2
                        THEN @ + 1 ELSE @]]
  BY DEF Sends
<1>2. missed \in [Node -> [Node -> 0..2]]
  BY DEF Inv, TypeOK
<1>3. \A o, p \in Node : missed'[o][p] =
         IF p = n /\ kind = "Announcement" /\ o \in targets \ (reached \cup {n}) /\ missed[o][n] < 2
         THEN missed[o][n] + 1 ELSE missed[o][p]
  BY <1>1, <1>2
<1>4. ASSUME NEW o \in reached
      PROVE  \E m \in net' : m.kind = kind /\ m.id = id /\ m.to = o /\ ~ m.old
  <2> DEFINE m == [kind |-> kind, id |-> id, src |-> n, to |-> o, old |-> FALSE]
  <2>1. m \in net'
    BY <1>1
  <2>2. m.kind = kind /\ m.id = id /\ m.to = o /\ ~ m.old
    OBVIOUS
  <2> QED
    BY <2>1, <2>2
<1>5. net \subseteq net'
  BY <1>1
<1>6. \A o, p \in Node : p # n \/ kind # "Announcement" \/ o \notin targets \ {n}
                            => missed'[o][p] = missed[o][p]
  BY <1>3
<1>7. ASSUME NEW o \in targets \ {n}, kind = "Announcement"
      PROVE  \/ /\ missed'[o][n] = missed[o][n]
                /\ \E m \in net' : m.kind = kind /\ m.id = id /\ m.to = o /\ ~ m.old
             \/ missed'[o][n] = IF missed[o][n] < 2 THEN missed[o][n] + 1 ELSE missed[o][n]
  <2>1. CASE o \in reached
    BY <1>3, <1>4, <1>7, <2>1
  <2>2. CASE o \notin reached
    BY <1>3, <1>7, <2>2
  <2> QED
    BY <2>1, <2>2
<1> QED
  BY <1>5, <1>6, <1>7

\* What an update of one worker makes of the UDP workers.
LEMMA WorkerUpdate ==
    ASSUME Inv, NEW n \in Node, NEW s \in Service, NEW v,
           worker' = [worker EXCEPT ![n][s] = v]
    PROVE  \A p \in Node : worker'[p]["udp"] = IF p = n /\ s = "udp" THEN v
                                               ELSE worker[p]["udp"]
<1>1. worker \in [Node -> [Service -> {"none", "run", "ended"}]] /\ "udp" \in Service
  BY DEF Inv, TypeOK, Service
<1> QED
  BY <1>1

\* The signal of a shutdown starts no worker.
LEMMA SignalStartsNothing ==
    ASSUME Inv, NEW n \in Node, StopForShutdown(n)
    PROVE  \A p \in Node : worker'[p]["udp"] = "run" => worker[p]["udp"] = "run"
<1>1. worker \in [Node -> [Service -> {"none", "run", "ended"}]] /\ "udp" \in Service
  BY DEF Inv, TypeOK, Service
<1>2. worker' = [worker EXCEPT ![n]["udp"] = IF @ = "run" THEN "run" ELSE "none"]
  BY DEF StopForShutdown
<1> QED
  BY <1>1, <1>2

\* NoClaim changes nothing for other peers.
LEMMA NoClaimFacts ==
    ASSUME Inv, NEW n \in Node, NoClaim(n)
    PROVE  \A o, p \in Node : missed'[o][p] = IF p = n THEN 2 ELSE missed[o][p]
BY DEF Inv, TypeOK, NoClaim

-----------------------------------------------------------------------------
(***************************************************************************)
(* Steps of the application.                                               *)
(***************************************************************************)

\* The end of a process ends what was claimed of it and by it.
LEMMA EndTime ==
    ASSUME Inv, TimeInv, NEW n \in Node, Ends(n)
    PROVE  TimeInv'
<1>1. RunInv'
  BY DEF Ends, Inv, TypeOK, TimeInv, RunInv, Service
<1>2. \A o, p \in Node : missed'[o][p] = IF n \in {o, p} THEN 2 ELSE missed[o][p]
  BY DEF Ends
<1>3. ClaimInv'
  <2> SUFFICES ASSUME NEW o \in Node, NEW p \in Node, missed'[o][p] < 2
               PROVE  Beaconing(p)'
    BY DEF ClaimInv
  <2>1. n # p /\ missed[o][p] < 2
    BY <1>2, SMT
  <2>2. worker'[p] = worker[p] /\ advertising'[p] = advertising[p]
    BY <2>1 DEF Ends, Inv, TypeOK
  <2> QED
    BY <2>1, <2>2 DEF TimeInv, ClaimInv, Beaconing
<1>4. AgeInv'
  <2> SUFFICES ASSUME NEW o \in Node, NEW p \in Node, Claimed(o, p)'
               PROVE  Accounted(directory[o][p], missed[o][p], beaconIn[p], Fresh(o, p), Late(o, p))'
    BY DEF AgeInv
  <2>1. n # o /\ n # p /\ missed'[o][p] = missed[o][p]
    BY <1>2, SMT DEF Claimed
  <2>2. /\ directory'[o] = directory[o] /\ beaconIn'[p] = beaconIn[p]
        /\ sending'[p] = sending[p] /\ net' = net
    BY <2>1 DEF Ends, Inv, IdInv, TypeOK
  <2>3. Kept(o, p)
    BY <2>1, <2>2, UnderWay DEF Kept, Claimed, Listed
  <2> QED
    BY <2>3, KeptAccounted DEF TimeInv
<1> QED
  BY <1>1, <1>3, <1>4 DEF TimeInv

\* A step that leaves directories, beacons and replies alone, adds datagrams at most, and
\* makes no new claim, keeps every entry accounted for.
LEMMA QuietAges ==
    ASSUME Inv, AgeInv, UNCHANGED <<directory, beaconIn, sending>>, net \subseteq net',
           \A o, p \in Node : missed'[o][p] < 2 => missed'[o][p] = missed[o][p]
    PROVE  AgeInv'
<1> SUFFICES ASSUME NEW o \in Node, NEW p \in Node, Claimed(o, p)'
             PROVE  Accounted(directory[o][p], missed[o][p], beaconIn[p], Fresh(o, p), Late(o, p))'
  BY DEF AgeInv
<1>1. Kept(o, p)
  BY UnderWay DEF Kept, Claimed, Listed
<1> QED
  BY <1>1, KeptAccounted

\* The calls: what stops beacons ends the claims about them.
LEMMA CallTime ==
    ASSUME Inv, TimeInv, NEW n \in Node, Call(n)
    PROVE  TimeInv'
<1> USE DEF Inv, TimeInv, lifeVars, adVars, timeVars, dirVars, Goes
<1>0. ASSUME UNCHANGED <<directory, beaconIn, sending, net, missed>>
      PROVE  AgeInv'
  BY <1>0, QuietAges
<1>1. CASE Advertise(n) \/ StopAdvertising(n)
  <2>1. RunInv' /\ ClaimInv'
    BY <1>1, SMT DEF Advertise, StopAdvertising, TypeOK, Idle, RunInv, ClaimInv, Beaconing
  <2> QED
    BY <1>0, <1>1, <2>1 DEF Advertise, StopAdvertising
<1>2. CASE AdvertiseUdp(n)
  <2>1. RunInv' /\ ClaimInv'
    BY <1>2 DEF AdvertiseUdp, TypeOK, RunInv, ClaimInv, Beaconing
  <2> QED
    BY <1>0, <1>2, <2>1 DEF AdvertiseUdp
<1>3. CASE StopUdpAdvertising(n) \/ StopForShutdown(n)
  <2>1. \A o, p \in Node : missed'[o][p] = IF p = n THEN 2 ELSE missed[o][p]
    BY <1>3, NoClaimFacts DEF StopUdpAdvertising, StopForShutdown
  <2>2. RunInv'
    <3>1. /\ ~ advertising'[n] /\ is_running' = is_running
          /\ \A p \in Node \ {n} : advertising'[p] = advertising[p] /\ call'[p] = call[p]
      BY <1>3 DEF StopUdpAdvertising, StopForShutdown, TypeOK
    <3>2. \A p \in Node : worker'[p]["udp"] = "run" => worker[p]["udp"] = "run"
      <4>1. CASE StopUdpAdvertising(n)
        BY <4>1 DEF StopUdpAdvertising
      <4>2. CASE StopForShutdown(n)
        BY <4>2, SignalStartsNothing
      <4> QED
        BY <1>3, <4>1, <4>2
    <3> QED
      BY <3>1, <3>2 DEF RunInv
  <2>3. \A p \in Node \ {n} : worker'[p] = worker[p] /\ advertising'[p] = advertising[p]
    BY <1>3 DEF StopUdpAdvertising, StopForShutdown, TypeOK
  <2>4. ClaimInv'
    BY <2>1, <2>3, SMT DEF ClaimInv, Beaconing
  <2>5. AgeInv'
    BY <1>3, <2>1, QuietAges, SMT DEF StopUdpAdvertising, StopForShutdown
  <2> QED
    BY <2>2, <2>4, <2>5
<1>4. CASE Shutdown(n) \/ JoinMdns(n)
  <2>1. RunInv' /\ ClaimInv'
    <3>1. \A p \in Node : worker'[p]["udp"] = worker[p]["udp"]
      <4>1. CASE Shutdown(n)
        <5> DEFINE v == IF worker[n]["mdns"] = "run" THEN "run" ELSE "none"
        <5>1. worker' = [worker EXCEPT ![n]["mdns"] = v] /\ "mdns" \in Service
          BY <4>1 DEF Shutdown, Service
        <5> HIDE DEF v
        <5> QED
          BY <5>1, WorkerUpdate, SMT
      <4>2. CASE JoinMdns(n)
        BY <4>2 DEF JoinMdns
      <4> QED
        BY <1>4, <4>1, <4>2
    <3>2. \A p \in Node : call'[p] # "joinUdp" \/ call'[p] = call[p]
      BY <1>4 DEF Shutdown, JoinMdns, TypeOK
    <3>3. UNCHANGED <<advertising, is_running, missed>>
      BY <1>4 DEF Shutdown, JoinMdns
    <3> QED
      BY <3>1, <3>2, <3>3, ZenonT(30) DEF RunInv, ClaimInv, Beaconing
  <2> QED
    BY <1>0, <1>4, <2>1 DEF Shutdown, JoinMdns
<1>5. CASE SendGoodbye(n)
  <2>1. net \subseteq net' /\ \A o, p \in Node : missed'[o][p] = missed[o][p]
    BY <1>5, SendFacts, SMT DEF SendGoodbye
  <2>2. RunInv' /\ ClaimInv'
    BY <1>5, <2>1, SMT DEF SendGoodbye, TypeOK, RunInv, ClaimInv, Beaconing
  <2>3. AgeInv'
    BY <1>5, <2>1, QuietAges DEF SendGoodbye
  <2> QED
    BY <2>2, <2>3
<1>6. CASE StartDiscovery(n)
  <2>1. PICK bound \in BOOLEAN :
          LET starts == {s \in Service : Has(n, s) /\ (s = "udp" => bound)} IN
          /\ worker' = [worker EXCEPT ![n] = [s \in Service |-> IF s \in starts THEN "run"
                                                                ELSE @[s]]]
          /\ is_running' = [is_running EXCEPT ![n] = Has(n, "udp") => bound]
          /\ Sends(n, "Query", IF localId[n]["udp"] THEN n ELSE NoId,
                   IF "udp" \in starts THEN Node ELSE {})
    BY <1>6 DEF StartDiscovery
  <2>2. net \subseteq net' /\ \A o, p \in Node : missed'[o][p] = missed[o][p]
    BY <2>1, SendFacts, SMT
  <2>3. /\ ~ is_running[n] /\ worker[n]["udp"] # "run"
        /\ UNCHANGED <<directory, sending, advertising, call>>
        /\ \A p \in Node \ {n} : /\ worker'[p] = worker[p] /\ is_running'[p] = is_running[p]
                                 /\ beaconIn'[p] = beaconIn[p]
    BY <1>6, <2>1, SMT DEF StartDiscovery, RunInv, TypeOK
  <2>4. RunInv'
    <3>1. worker'[n]["udp"] = "run" => is_running'[n]
      BY <2>1, <2>3 DEF TypeOK, Service
    <3> QED
      BY <2>3, <3>1 DEF RunInv
  <2>5. \A o \in Node : ~ (missed'[o][n] < 2)
    BY <2>2, <2>3 DEF ClaimInv, Beaconing
  <2>6. ClaimInv'
    BY <2>2, <2>3, <2>5, ZenonT(30) DEF ClaimInv, Beaconing
  <2>7. AgeInv'
    <3> SUFFICES ASSUME NEW o \in Node, NEW p \in Node, Claimed(o, p)'
                 PROVE  Accounted(directory[o][p], missed[o][p], beaconIn[p], Fresh(o, p),
                                  Late(o, p))'
      BY DEF AgeInv
    <3>1. p # n
      BY <2>5 DEF Claimed
    <3>2. Kept(o, p)
      BY <2>2, <2>3, <3>1, UnderWay DEF Kept, Claimed, Listed
    <3> QED
      BY <3>2, KeptAccounted
  <2> QED
    BY <2>4, <2>6, <2>7
<1>7. CASE JoinLast(n)
  BY <1>7, EndTime DEF JoinLast
<1> QED
  BY <1>1, <1>2, <1>3, <1>4, <1>5, <1>6, <1>7 DEF Call

-----------------------------------------------------------------------------
(***************************************************************************)
(* Steps of the workers.                                                   *)
(***************************************************************************)

\* A beacon is due when the last one is a whole interval ago: nothing is under way from
\* it any more, and what the entry's age was accounted for by it, the new one accounts for.
LEMMA BeaconTime ==
    ASSUME Inv, TimeInv, Intervals, NEW n \in Node, Beacon(n)
    PROVE  TimeInv'
<1> USE DEF Inv, TimeInv, lifeVars, adVars, timeVars, dirVars
<1>1. /\ beaconIn[n] = 0 /\ sending[n] = {}
      /\ beaconIn' = [beaconIn EXCEPT ![n] = BeaconInterval]
      /\ sending' = [sending EXCEPT ![n] = IF advertising[n] THEN Node ELSE {}]
      /\ UNCHANGED <<directory, missed, net, worker, advertising, is_running, call>>
  BY DEF Beacon, Selects
<1>2. RunInv' /\ ClaimInv'
  BY <1>1 DEF RunInv, ClaimInv, Beaconing
<1>3. AgeInv'
  <2> SUFFICES ASSUME NEW o \in Node, NEW p \in Node, Claimed(o, p)'
               PROVE  Accounted(directory[o][p], missed[o][p], beaconIn[p], Fresh(o, p), Late(o, p))'
    BY DEF AgeInv
  <2>0. Claimed(o, p)
    BY <1>1 DEF Claimed, Listed
  <2>1. CASE p # n
    <3>1. beaconIn'[p] = beaconIn[p] /\ sending'[p] = sending[p]
      BY <1>1, <2>1 DEF TypeOK
    <3>2. Kept(o, p)
      BY <1>1, <2>0, <3>1, UnderWay DEF Kept
    <3> QED
      BY <3>2, KeptAccounted
  <2>2. CASE p = n
    <3>1. advertising[p]
      BY <2>0 DEF Claimed, ClaimInv, Beaconing
    <3>2. beaconIn'[p] = BeaconInterval /\ o \in sending'[p]
      BY <1>1, <2>2, <3>1 DEF TypeOK
    <3>3. Fresh(o, p)'
      BY <3>2 DEF Fresh
    <3>4. directory[o][p] <= Span(missed[o][p])
      <4>1. Accounted(directory[o][p], missed[o][p], beaconIn[p], Fresh(o, p), Late(o, p))
        BY <2>0 DEF AgeInv
      <4> QED
        BY <1>1, <2>0, <2>2, <4>1, Numbers, SMT DEF Accounted, Intervals, Claimed, Span
    <3> QED
      BY <1>1, <3>2, <3>3, <3>4 DEF Accounted
  <2> QED
    BY <2>1, <2>2
<1> QED
  BY <1>2, <1>3

\* The worker sends what is due: to each peer it goes under way, or it is one loss more.
LEMMA SendTime ==
    ASSUME Inv, TimeInv, Intervals, NEW n \in Node, SendAnnouncement(n)
    PROVE  TimeInv'
<1> USE DEF Inv, TimeInv, lifeVars, adVars, timeVars, dirVars
<1>1. /\ Sends(n, "Announcement", n, sending[n]) /\ sending[n] \in SUBSET Node
      /\ sending' = [sending EXCEPT ![n] = {}]
      /\ UNCHANGED <<directory, beaconIn, worker, advertising, is_running, call>>
  BY DEF SendAnnouncement, TypeOK
<1>2. /\ net \subseteq net'
      /\ \A o, p \in Node : p # n \/ o \notin sending[n] \ {n} => missed'[o][p] = missed[o][p]
      /\ \A o \in sending[n] \ {n} :
           \/ /\ missed'[o][n] = missed[o][n]
              /\ \E m \in net' : m.kind = "Announcement" /\ m.id = n /\ m.to = o /\ ~ m.old
           \/ missed'[o][n] = IF missed[o][n] < 2 THEN missed[o][n] + 1 ELSE missed[o][n]
  BY <1>1, SendFacts, SMT
<1>3. \A p \in Node \ {n} : sending'[p] = sending[p]
  BY <1>1 DEF TypeOK
<1>4. \A o, p \in Node : missed'[o][p] < 2 => missed[o][p] < 2
  BY <1>2, Numbers, ZenonT(30)
<1>5. RunInv'
  BY <1>1 DEF RunInv
<1>6. ClaimInv'
  BY <1>1, <1>4 DEF ClaimInv, Beaconing
<1>7. AgeInv'
  <2> SUFFICES ASSUME NEW o \in Node, NEW p \in Node, Claimed(o, p)'
               PROVE  Accounted(directory[o][p], missed[o][p], beaconIn[p], Fresh(o, p), Late(o, p))'
    BY DEF AgeInv
  <2>0. Claimed(o, p) /\ o # p
    BY <1>1, <1>4 DEF Claimed, Listed, IdInv, NeverListsSelf
  <2>1. CASE p # n
    <3>1. Kept(o, p)
      BY <1>1, <1>2, <1>3, <2>0, <2>1, UnderWay DEF Kept
    <3> QED
      BY <3>1, KeptAccounted
  <2>2. CASE p = n /\ missed'[o][p] = missed[o][p]
    <3>1. Late(o, p) => Late(o, p)'
      BY <1>2 DEF Late
    <3>2. Fresh(o, p) => Fresh(o, p)'
      <4>1. CASE o \in sending[n]
        <5>1. \E m \in net' : m.kind = "Announcement" /\ m.id = n /\ m.to = o /\ ~ m.old
          BY <1>2, <2>0, <2>2, <4>1, Numbers, SMT DEF Claimed
        <5> QED
          BY <2>2, <5>1 DEF Fresh, Announces
      <4>2. CASE o \notin sending[n]
        BY <1>2, <2>2, <4>2 DEF Fresh, Announces
      <4> QED
        BY <4>1, <4>2
    <3>3. Kept(o, p)
      BY <1>1, <2>0, <2>2, <3>1, <3>2 DEF Kept
    <3> QED
      BY <3>3, KeptAccounted
  <2>3. CASE p = n /\ missed'[o][p] # missed[o][p]
    <3>1. missed[o][p] = 0 /\ missed'[o][p] = 1
      BY <1>2, <2>0, <2>3, Numbers, SMT DEF Claimed
    <3>2. Accounted(directory[o][p], missed[o][p], beaconIn[p], Fresh(o, p), Late(o, p))
      BY <2>0 DEF AgeInv
    <3>3. directory[o][p] + beaconIn[p] <= 2 * BeaconInterval
      BY <2>0, <3>1, <3>2, Numbers, SMT DEF Accounted, Span, Claimed
    <3> QED
      BY <1>1, <3>1, <3>3, SMT DEF Accounted, Span
  <2> QED
    BY <2>1, <2>2, <2>3
<1> QED
  BY <1>5, <1>6, <1>7

\* A worker that stops has stopped beaconing before; one that fails ends the claims;
\* one that prunes leaves the ages of what it does not prune.
LEMMA WorkTime ==
    ASSUME Inv, TimeInv, NEW n \in Node, NEW s \in Service, Work(n, s)
    PROVE  TimeInv'
<1> USE DEF Inv, TimeInv, lifeVars, adVars, timeVars, dirVars
<1>1. CASE WorkerStops(n, s)
  <2>1. /\ UNCHANGED <<directory, beaconIn, sending, net, missed, advertising, is_running, call>>
        /\ \A p \in Node : worker'[p]["udp"] = worker[p]["udp"]
                             \/ (p = n /\ s = "udp" /\ worker'[p]["udp"] = "none")
    BY <1>1, SMT DEF WorkerStops, TypeOK, Service
  <2>2. s = "udp" => ~ advertising[n]
    BY <1>1 DEF WorkerStops, Signalled, RunInv
  <2>3. RunInv'
    BY <2>1 DEF RunInv
  <2>4. ClaimInv'
    BY <2>1, <2>2, SMT DEF ClaimInv, Beaconing
  <2> QED
    BY <2>1, <2>3, <2>4, QuietAges
<1>2. CASE WorkerFails(n, s)
  <2>1. /\ UNCHANGED <<directory, beaconIn, sending, net, advertising, is_running, call>>
        /\ \A p \in Node : worker'[p]["udp"] = worker[p]["udp"]
                             \/ (p = n /\ s = "udp" /\ worker'[p]["udp"] # "run")
    BY <1>2, SMT DEF WorkerFails, TypeOK, Service
  <2>2. \A o, p \in Node : missed'[o][p] = IF p = n /\ s = "udp" THEN 2 ELSE missed[o][p]
    BY <1>2, NoClaimFacts, SMT DEF WorkerFails
  <2>3. RunInv'
    BY <2>1 DEF RunInv
  <2>4. ClaimInv'
    BY <2>1, <2>2, SMT DEF ClaimInv, Beaconing
  <2> QED
    BY <2>1, <2>2, <2>3, <2>4, QuietAges, SMT
<1>3. CASE Prune(n, s)
  <2>1. /\ UNCHANGED <<beaconIn, sending, net, missed, advertising, is_running, call, worker>>
        /\ directory' = [directory EXCEPT ![n] = Without(@, prune_expired(@, Ttl(s)))]
    BY <1>3 DEF Prune
  <2>2. RunInv' /\ ClaimInv'
    BY <2>1 DEF RunInv, ClaimInv, Beaconing
  <2>3. \A o \in Node : \A p \in Node : p \in DOMAIN directory'[o] =>
           p \in DOMAIN directory[o] /\ directory'[o][p] = directory[o][p]
    BY <2>1 DEF IdInv, Without
  <2>4. AgeInv'
    <3> SUFFICES ASSUME NEW o \in Node, NEW p \in Node, Claimed(o, p)'
                 PROVE  Accounted(directory[o][p], missed[o][p], beaconIn[p], Fresh(o, p), Late(o, p))'
      BY DEF AgeInv
    <3>1. Kept(o, p)
      BY <2>1, <2>3, UnderWay DEF Kept, Claimed, Listed
    <3> QED
      BY <3>1, KeptAccounted
  <2> QED
    BY <2>2, <2>4
<1> QED
  BY <1>1, <1>2, <1>3 DEF Work

-----------------------------------------------------------------------------
(***************************************************************************)
(* Datagrams that arrive or are lost, and the daemon's events.             *)
(***************************************************************************)

\* A step that takes one datagram, which is not an Announcement of p to o.
LEMMA OthersUnderWay ==
    ASSUME NEW m, net \ {m} \subseteq net', NEW o \in Node, NEW p \in Node,
           ~ Announces(m, o, p), sending[p] \subseteq sending'[p]
    PROVE  (Fresh(o, p) => Fresh(o, p)') /\ (Late(o, p) => Late(o, p)')
BY DEF Fresh, Late, Announces

\* What an insertion does to the entries.
LEMMA AppearsFacts ==
    ASSUME Inv, NEW n \in Node, NEW q \in Node, Appears(n, q)
    PROVE  \A o, p \in Node : p \in DOMAIN directory'[o] =>
             IF o = n /\ p = q THEN directory'[o][p] = 0
             ELSE p \in Listed(o) /\ directory'[o][p] = directory[o][p]
BY DEF Inv, IdInv, Appears, insert_or_update, Listed

\* And what a removal does.
LEMMA DepartsFacts ==
    ASSUME Inv, NEW n \in Node, NEW q, Departs(n, q)
    PROVE  \A o, p \in Node : p \in DOMAIN directory'[o] =>
             p \in Listed(o) /\ directory'[o][p] = directory[o][p]
BY DEF Inv, IdInv, Departs, Without, Listed

\* An entry of this second is accounted for, whatever was lost.
LEMMA NewAccounted ==
    ASSUME Inv, Inv', NEW o \in Node, NEW p \in Node, directory'[o][p] = 0
    PROVE  Accounted(directory[o][p], missed[o][p], beaconIn[p], Fresh(o, p), Late(o, p))'
<1>1. /\ BeaconInterval \in Nat
      /\ beaconIn'[p] \in Nat /\ beaconIn'[p] <= BeaconInterval
  BY DiscoveryConstants, SMT DEF Inv, TypeOK
<1> QED
  BY <1>1, SMT DEF Accounted, Span

\* Steps that leave the programs, the tickers and the claims' peers alone.
LEMMA ProgramsStay ==
    ASSUME TimeInv, UNCHANGED <<worker, is_running, advertising, call>>,
           \A o, p \in Node : missed'[o][p] < 2 => missed[o][p] < 2 \/ Beaconing(p)
    PROVE  RunInv' /\ ClaimInv'
BY DEF TimeInv, RunInv, ClaimInv, Beaconing

\* Receiving an Announcement makes the entry new; receiving anything else leaves the
\* Announcements under way.
LEMMA ReceiveTime ==
    ASSUME Inv, Inv', TimeInv, NEW m \in net,
           ReceiveOwn(m) \/ ReceiveAnnouncement(m) \/ ReceiveGoodbye(m) \/ ReceiveQuery(m)
    PROVE  TimeInv'
<1> USE DEF lifeVars, adVars, timeVars, dirVars
<1>1. /\ m.to \in Node /\ Arrives(m) /\ net \ {m} \subseteq net'
      /\ UNCHANGED <<worker, is_running, advertising, call, beaconIn>>
  BY DEF Inv, TypeOK, Datagram, Arrives, ReceiveOwn, ReceiveAnnouncement, ReceiveGoodbye,
         ReceiveQuery
<1>2. missed \in [Node -> [Node -> 0..2]]
  BY DEF Inv, TypeOK
<1>3. CASE ReceiveAnnouncement(m)
  <2>1. /\ m.id \in Node /\ Appears(m.to, m.id) /\ sending' = sending
        /\ missed' = [missed EXCEPT ![m.to][m.id] = IF Beaconing(m.id) THEN 0 ELSE 2]
    BY <1>3 DEF ReceiveAnnouncement, Inv, IdInv, NetInv
  <2>2. \A o, p \in Node : missed'[o][p] = IF o = m.to /\ p = m.id
                                          THEN IF Beaconing(m.id) THEN 0 ELSE 2
                                          ELSE missed[o][p]
    BY <1>1, <1>2, <2>1
  <2>3. RunInv' /\ ClaimInv'
    BY <1>1, <2>2, ProgramsStay, SMT
  <2>4. AgeInv'
    <3> SUFFICES ASSUME NEW o \in Node, NEW p \in Node, Claimed(o, p)'
                 PROVE  Accounted(directory[o][p], missed[o][p], beaconIn[p], Fresh(o, p),
                                  Late(o, p))'
      BY DEF AgeInv
    <3>0. p \in DOMAIN directory'[o] /\ missed'[o][p] < 2
      BY DEF Claimed, Listed
    <3>1. CASE o = m.to /\ p = m.id
      <4>1. directory'[o][p] = 0
        BY <1>1, <2>1, <3>0, <3>1, AppearsFacts, ZenonT(30)
      <4> QED
        BY <4>1, NewAccounted
    <3>2. CASE ~ (o = m.to /\ p = m.id)
      <4>1. p \in Listed(o) /\ directory'[o][p] = directory[o][p]
        BY <1>1, <2>1, <3>0, <3>2, AppearsFacts, SMT
      <4>2. missed'[o][p] = missed[o][p]
        BY <2>2, <3>2
      <4>3. (Fresh(o, p) => Fresh(o, p)') /\ (Late(o, p) => Late(o, p)')
        BY <1>1, <2>1, <3>2, OthersUnderWay DEF Announces
      <4>4. Kept(o, p)
        BY <1>1, <3>0, <4>1, <4>2, <4>3 DEF Kept, Claimed
      <4> QED
        BY <4>4, KeptAccounted DEF TimeInv
    <3> QED
      BY <3>1, <3>2
  <2> QED
    BY <2>3, <2>4 DEF TimeInv
<1>4. CASE ReceiveOwn(m) \/ ReceiveGoodbye(m) \/ ReceiveQuery(m)
  <2>1. missed' = missed
    BY <1>4 DEF ReceiveOwn, ReceiveGoodbye, ReceiveQuery
  <2>2. \A o, p \in Node : p \in DOMAIN directory'[o] =>
           p \in Listed(o) /\ directory'[o][p] = directory[o][p]
    <3>1. CASE ReceiveGoodbye(m)
      BY <1>1, <3>1, DepartsFacts DEF ReceiveGoodbye
    <3>2. CASE directory' = directory
      BY <3>2 DEF Listed
    <3> QED
      BY <1>4, <3>1, <3>2 DEF ReceiveOwn, ReceiveQuery
  <2>3. \A p \in Node : sending[p] \subseteq sending'[p]
    <3>1. CASE ReceiveQuery(m)
      <4>1. sending[m.to] = {}
        BY <1>1 DEF Arrives, Selects
      <4>2. \A p \in Node \ {m.to} : sending'[p] = sending[p]
        BY <1>1, <3>1, SMT DEF ReceiveQuery, Inv, TypeOK
      <4> QED
        BY <4>1, <4>2
    <3> QED
      BY <1>4, <3>1 DEF ReceiveOwn, ReceiveGoodbye
  <2>4. \A o, p \in Node : o # p => ~ Announces(m, o, p)
    BY <1>4 DEF ReceiveOwn, Own, ReceiveGoodbye, ReceiveQuery, Announces
  <2>5. RunInv' /\ ClaimInv'
    BY <1>1, <2>1, ProgramsStay
  <2>6. AgeInv'
    <3> SUFFICES ASSUME NEW o \in Node, NEW p \in Node, Claimed(o, p)'
                 PROVE  Accounted(directory[o][p], missed[o][p], beaconIn[p], Fresh(o, p),
                                  Late(o, p))'
      BY DEF AgeInv
    <3>1. p \in Listed(o) /\ directory'[o][p] = directory[o][p] /\ missed[o][p] < 2
      BY <2>1, <2>2 DEF Claimed, Listed
    <3>2. o # p
      BY <3>1 DEF Inv, IdInv, NeverListsSelf
    <3>3. (Fresh(o, p) => Fresh(o, p)') /\ (Late(o, p) => Late(o, p)')
      BY <1>1, <2>3, <2>4, <3>2, OthersUnderWay
    <3>4. Kept(o, p)
      BY <1>1, <2>1, <3>1, <3>3 DEF Kept, Claimed
    <3> QED
      BY <3>4, KeptAccounted DEF TimeInv
  <2> QED
    BY <2>5, <2>6 DEF TimeInv
<1> QED
  BY <1>3, <1>4

\* Losing an Announcement that is late counts: the next one has a whole interval more.
LEMMA LoseTime ==
    ASSUME Inv, TimeInv, NEW m \in net, Lose(m)
    PROVE  TimeInv'
<1> USE DEF lifeVars, adVars, timeVars, dirVars
<1>1. /\ m.to \in Node /\ m.old /\ net \ {m} \subseteq net'
      /\ UNCHANGED <<worker, is_running, advertising, call, beaconIn, directory, sending>>
      /\ missed' = IF m.kind = "Announcement" /\ missed[m.to][m.id] < 2
                   THEN [missed EXCEPT ![m.to][m.id] = @ + 1] ELSE missed
  BY DEF Inv, TypeOK, Datagram, Lose
<1>2. missed \in [Node -> [Node -> 0..2]]
  BY DEF Inv, TypeOK
<1>3. m.kind = "Announcement" => m.id \in Node
  BY DEF Inv, IdInv, NetInv
<1>4. \A o, p \in Node : missed'[o][p] = IF Announces(m, o, p) /\ missed[o][p] < 2
                                        THEN missed[o][p] + 1 ELSE missed[o][p]
  <2>1. CASE m.kind = "Announcement" /\ missed[m.to][m.id] < 2
    BY <1>1, <1>2, <1>3, <2>1 DEF Announces
  <2>2. CASE ~ (m.kind = "Announcement" /\ missed[m.to][m.id] < 2)
    BY <1>1, <2>2 DEF Announces
  <2> QED
    BY <2>1, <2>2
<1>5. \A o, p \in Node : missed'[o][p] < 2 => missed[o][p] < 2
  BY <1>2, <1>4
<1>6. RunInv' /\ ClaimInv'
  BY <1>1, <1>5, ProgramsStay
<1>7. AgeInv'
  <2> SUFFICES ASSUME NEW o \in Node, NEW p \in Node, Claimed(o, p)'
               PROVE  Accounted(directory[o][p], missed[o][p], beaconIn[p], Fresh(o, p), Late(o, p))'
    BY DEF AgeInv
  <2>0. Claimed(o, p) /\ missed'[o][p] < 2
    BY <1>1, <1>5 DEF Claimed, Listed
  <2>1. CASE Announces(m, o, p)
    <3>1. missed[o][p] = 0 /\ missed'[o][p] = 1
      BY <1>4, <2>0, <2>1, Numbers, SMT DEF Claimed
    <3>2. Accounted(directory[o][p], missed[o][p], beaconIn[p], Fresh(o, p), Late(o, p))
      BY <2>0 DEF TimeInv, AgeInv
    <3>3. directory[o][p] + beaconIn[p] <= 2 * BeaconInterval
      BY <2>0, <3>1, <3>2, Numbers, SMT DEF Accounted, Span, Claimed
    <3> QED
      BY <1>1, <3>1, <3>3, SMT DEF Accounted, Span
  <2>2. CASE ~ Announces(m, o, p)
    <3>1. (Fresh(o, p) => Fresh(o, p)') /\ (Late(o, p) => Late(o, p)')
      BY <1>1, <2>2, OthersUnderWay
    <3>2. missed'[o][p] = missed[o][p]
      BY <1>4, <2>2
    <3>3. Kept(o, p)
      BY <1>1, <2>0, <3>1, <3>2 DEF Kept
    <3> QED
      BY <3>3, KeptAccounted DEF TimeInv
  <2> QED
    BY <2>1, <2>2
<1> QED
  BY <1>6, <1>7 DEF TimeInv

\* The daemon's events make entries new or remove them.
LEMMA MdnsTime ==
    ASSUME Inv, Inv', TimeInv, NEW n \in Node,
           \/ ServiceResolved(n) \/ ServiceRemoved(n)
           \/ \E q \in Node : DaemonResolves(n, q) \/ DaemonRemoves(n, q)
    PROVE  TimeInv'
<1> USE DEF lifeVars, adVars, timeVars, dirVars
<1>1. UNCHANGED <<worker, is_running, advertising, call, beaconIn, sending, net, missed>>
  BY DEF ServiceResolved, ServiceRemoved, DaemonResolves, DaemonRemoves, Hands
<1>2. \A o, p \in Node : p \in DOMAIN directory'[o] =>
         \/ directory'[o][p] = 0
         \/ p \in Listed(o) /\ directory'[o][p] = directory[o][p]
  <2> DEFINE q == Head(mdnsq[n]).id
  <2>1. CASE directory' = directory
    BY <2>1 DEF Listed
  <2>2. CASE ServiceResolved(n) /\ directory' # directory
    <3>1. Appears(n, q)
      BY <2>2 DEF ServiceResolved
    <3>2. q \in Node
      <4>1. mdnsq[n] \in Seq(MdnsEvent) /\ mdnsq[n] # <<>>
        BY <2>2 DEF ServiceResolved, ReadsEvent, Inv, TypeOK
      <4>2. Head(mdnsq[n]) \in MdnsEvent
        BY <4>1, SMT
      <4> QED
        BY <4>2 DEF MdnsEvent
    <3> HIDE DEF q
    <3> QED
      BY <3>1, <3>2, AppearsFacts, ZenonT(30)
  <2>3. CASE ServiceRemoved(n) /\ directory' # directory
    <3>1. Departs(n, q)
      BY <2>3 DEF ServiceRemoved
    <3> HIDE DEF q
    <3> QED
      BY <3>1, DepartsFacts
  <2> QED
    BY <2>1, <2>2, <2>3 DEF DaemonResolves, DaemonRemoves, Hands
<1>3. RunInv' /\ ClaimInv'
  BY <1>1, ProgramsStay
<1>4. AgeInv'
  <2> SUFFICES ASSUME NEW o \in Node, NEW p \in Node, Claimed(o, p)'
               PROVE  Accounted(directory[o][p], missed[o][p], beaconIn[p], Fresh(o, p), Late(o, p))'
    BY DEF AgeInv
  <2>1. p \in DOMAIN directory'[o] /\ missed[o][p] < 2
    BY <1>1 DEF Claimed, Listed
  <2>2. CASE directory'[o][p] = 0
    BY <2>2, NewAccounted
  <2>3. CASE p \in Listed(o) /\ directory'[o][p] = directory[o][p]
    <3>1. (Fresh(o, p) => Fresh(o, p)') /\ (Late(o, p) => Late(o, p)')
      BY <1>1, UnderWay
    <3>2. Kept(o, p)
      BY <1>1, <2>1, <2>3, <3>1 DEF Kept, Claimed
    <3> QED
      BY <3>2, KeptAccounted DEF TimeInv
  <2> QED
    BY <1>2, <2>1, <2>2, <2>3
<1> QED
  BY <1>3, <1>4 DEF TimeInv

-----------------------------------------------------------------------------
(***************************************************************************)
(* A second passes: every entry is a second older, and every beacon a      *)
(* second nearer.  An Announcement of this second becomes a late one, and  *)
(* there was no late one before.                                           *)
(***************************************************************************)

\* What the age gains, the next beacon's delay loses.
LEMMA TickTime ==
    ASSUME Inv, TimeInv, Tick
    PROVE  TimeInv'
<1> USE DEF lifeVars, adVars, timeVars, dirVars
<1>1. UNCHANGED <<worker, is_running, advertising, call, sending, missed>>
  BY DEF Tick
<1>2. RunInv' /\ ClaimInv'
  BY <1>1, ProgramsStay
<1>3. AgeInv'
  <2> SUFFICES ASSUME NEW o \in Node, NEW p \in Node, Claimed(o, p)'
               PROVE  Accounted(directory[o][p], missed[o][p], beaconIn[p], Fresh(o, p), Late(o, p))'
    BY DEF AgeInv
  <2>1. Claimed(o, p) /\ missed'[o][p] = missed[o][p]
    BY <1>1 DEF Claimed, Listed, Tick
  <2>2. worker[p]["udp"] = "run" /\ p \in Advertisers
    BY <2>1 DEF Claimed, TimeInv, ClaimInv, Beaconing, RunInv
  <2>3. beaconIn[p] > 0 /\ beaconIn'[p] = beaconIn[p] - 1 /\ sending[p] = {}
    BY <2>2 DEF Tick, Prompt, Selects, Service
  <2>4. directory'[o][p] = IF directory[o][p] < MaxAge THEN directory[o][p] + 1 ELSE MaxAge
    BY <2>1 DEF Tick, Claimed
  <2>5. directory'[o][p] \in Nat /\ directory'[o][p] <= directory[o][p] + 1
    BY <2>1, <2>4, Numbers, SMT DEF Claimed
  <2>6. ~ Late(o, p)
    BY DEF Late, Tick
  <2>7. Fresh(o, p) => Late(o, p)'
    <3> SUFFICES ASSUME NEW m \in net, Announces(m, o, p)
                 PROVE  Late(o, p)'
      BY <2>3 DEF Fresh
    <3> DEFINE x == [m EXCEPT !.old = TRUE]
    <3>1. x \in net'
      BY DEF Tick
    <3>2. m \in Datagram
      BY DEF Inv, TypeOK
    <3>3. Announces(x, o, p) /\ x.old
      BY <3>2 DEF Announces, Datagram
    <3> HIDE DEF x
    <3> QED
      BY <3>1, <3>3 DEF Late, Announces
  <2>8. Accounted(directory[o][p], missed[o][p], beaconIn[p], Fresh(o, p), Late(o, p))
    BY <2>1 DEF TimeInv, AgeInv
  <2>9. CASE directory[o][p] + beaconIn[p] <= Span(missed[o][p])
    <3>1. directory'[o][p] + beaconIn'[p] <= Span(missed[o][p])
      BY <2>1, <2>3, <2>5, <2>9, Numbers, SMT DEF Claimed, Span
    <3> QED
      BY <2>1, <3>1 DEF Accounted, Span
  <2>10. CASE /\ beaconIn[p] = BeaconInterval /\ directory[o][p] <= Span(missed[o][p])
              /\ Fresh(o, p)
    <3>1. /\ beaconIn'[p] >= BeaconInterval - 1
          /\ directory'[o][p] + beaconIn'[p] <= Span(missed[o][p]) + BeaconInterval
      BY <2>1, <2>3, <2>5, <2>10, Numbers, SMT DEF Claimed, Span
    <3> QED
      BY <2>1, <2>7, <2>10, <3>1 DEF Accounted, Span
  <2> QED
    BY <2>6, <2>8, <2>9, <2>10 DEF Accounted
<1> QED
  BY <1>2, <1>3 DEF TimeInv

-----------------------------------------------------------------------------
(***************************************************************************)
(* The invariant, and what it means for the pruning.                       *)
(***************************************************************************)

\* At first nothing is claimed.
LEMMA TimeInit == Init => TimeInv
BY SMT DEF Init, TimeInv, RunInv, ClaimInv, AgeInv, Claimed, Service

\* Every step keeps the invariant.
LEMMA TimeStep ==
    ASSUME Intervals, Inv, Inv', TimeInv, [Next]_vars
    PROVE  TimeInv'
<1>1. ASSUME NEW n \in Node, Call(n) PROVE TimeInv'
  BY <1>1, CallTime
<1>2. ASSUME NEW n \in Node, Crash(n) PROVE TimeInv'
  BY <1>2, EndTime DEF Crash
<1>3. ASSUME NEW n \in Node, Beacon(n) PROVE TimeInv'
  BY <1>3, BeaconTime
<1>4. ASSUME NEW n \in Node, SendAnnouncement(n) PROVE TimeInv'
  BY <1>4, SendTime
<1>5. ASSUME NEW n \in Node, ServiceResolved(n) \/ ServiceRemoved(n) PROVE TimeInv'
  BY <1>5, MdnsTime
<1>6. ASSUME NEW n \in Node, NEW s \in Service, Work(n, s) PROVE TimeInv'
  BY <1>6, WorkTime
<1>7. ASSUME NEW n \in Node, NEW p \in Node, DaemonResolves(n, p) \/ DaemonRemoves(n, p)
      PROVE  TimeInv'
  BY <1>7, MdnsTime
<1>8. ASSUME NEW m \in net, ReceiveOwn(m) \/ ReceiveAnnouncement(m) \/ ReceiveGoodbye(m)
                              \/ ReceiveQuery(m)
      PROVE  TimeInv'
  BY <1>8, ReceiveTime
<1>9. ASSUME NEW m \in net, Lose(m) PROVE TimeInv'
  BY <1>9, LoseTime
<1>10. CASE Tick
  BY <1>10, TickTime
<1>11. CASE UNCHANGED vars
  <2>1. /\ UNCHANGED <<directory, beaconIn, sending, net, missed, worker, is_running>>
        /\ UNCHANGED <<advertising, call>>
    BY <1>11 DEF vars, lifeVars, adVars, timeVars, dirVars
  <2>2. RunInv' /\ ClaimInv'
    BY <2>1, ProgramsStay
  <2> QED
    BY <2>1, <2>2, QuietAges DEF TimeInv
<1> QED
  BY <1>1, <1>2, <1>3, <1>4, <1>5, <1>6, <1>7, <1>8, <1>9, <1>10, <1>11 DEF Next

\* An entry of a peer that beacons, with no two losses in a row, is at most two intervals
\* and a second old.
LEMMA ClaimedAge ==
    ASSUME Inv, TimeInv, NEW o \in Node, NEW p \in Node, Claimed(o, p)
    PROVE  directory[o][p] \in Nat /\ directory[o][p] <= 2 * BeaconInterval + 1
<1>1. Accounted(directory[o][p], missed[o][p], beaconIn[p], Fresh(o, p), Late(o, p))
  BY DEF TimeInv, AgeInv
<1> QED
  BY <1>1, Numbers, SMT DEF Accounted, Span, Claimed

\* So neither worker's pruning finds it expired; nothing else that serves a prune ticker
\* removes entries.
LEMMA PruningStep ==
    ASSUME Intervals, Inv, TimeInv, [Next]_vars, NEW o \in Node, NEW p \in Node,
           p \in Listed(o), missed[o][p] < 2, pruneDue'[o] # pruneDue[o], up'[o]
    PROVE  p \in DOMAIN directory'[o]
<1> USE DEF lifeVars, adVars, timeVars, dirVars
<1>1. ASSUME NEW n \in Node, Ends(n) PROVE FALSE
  BY <1>1 DEF Ends, Inv, TypeOK
<1>2. ASSUME NEW n \in Node, Call(n) \/ Crash(n) PROVE FALSE
  <2>1. JoinLast(n) \/ Crash(n)
    BY <1>2 DEF Call, Advertise, AdvertiseUdp, StopAdvertising, StopUdpAdvertising,
                StartDiscovery, Shutdown, JoinMdns, SendGoodbye, StopForShutdown
  <2> QED
    BY <1>1, <2>1 DEF JoinLast, Crash
<1>3. ASSUME NEW n \in Node,
             Beacon(n) \/ SendAnnouncement(n) \/ ServiceResolved(n) \/ ServiceRemoved(n)
      PROVE  FALSE
  BY <1>3 DEF Beacon, SendAnnouncement, ServiceResolved, ServiceRemoved
<1>4. ASSUME NEW n \in Node, NEW q \in Node, DaemonResolves(n, q) \/ DaemonRemoves(n, q)
      PROVE  FALSE
  BY <1>4 DEF DaemonResolves, DaemonRemoves, Hands
<1>5. ASSUME NEW m \in net, \/ ReceiveOwn(m) \/ ReceiveAnnouncement(m) \/ ReceiveGoodbye(m)
                            \/ ReceiveQuery(m) \/ Lose(m)
      PROVE  FALSE
  BY <1>5 DEF ReceiveOwn, ReceiveAnnouncement, ReceiveGoodbye, ReceiveQuery, Lose
<1>6. CASE Tick
  BY <1>6 DEF Tick
<1>7. CASE UNCHANGED vars
  BY <1>7 DEF vars
<1>8. ASSUME NEW n \in Node, NEW s \in Service, Work(n, s)
      PROVE  p \in DOMAIN directory'[o]
  <2>1. CASE WorkerStops(n, s) \/ WorkerFails(n, s)
    BY <2>1 DEF WorkerStops, WorkerFails, Listed
  <2>2. CASE Prune(n, s)
    <3>1. directory' = [directory EXCEPT ![n] = Without(@, prune_expired(@, Ttl(s)))]
      BY <2>2 DEF Prune
    <3>2. Ttl(s) \in Nat /\ 2 * BeaconInterval + 1 <= Ttl(s) /\ BeaconInterval \in Nat
      BY DiscoveryConstants DEF Intervals, Ttl
    <3>3. directory[o][p] \in Nat /\ directory[o][p] <= 2 * BeaconInterval + 1
      BY ClaimedAge DEF Claimed
    <3>4. p \notin prune_expired(directory[o], Ttl(s))
      BY <3>2, <3>3, SMT DEF prune_expired
    <3> QED
      BY <3>1, <3>4 DEF Inv, IdInv, Without, Listed
  <2> QED
    BY <1>8, <2>1, <2>2 DEF Work
<1> QED
  BY <1>2, <1>3, <1>4, <1>5, <1>6, <1>7, <1>8 DEF Next

\* While a peer keeps beaconing and no two of its Announcements in a row are lost, no
\* worker expires its entry, be it the UDP worker with its TTL or the mDNS worker with
\* its own (prune_expired), whenever two beacon intervals and a second fit into both.
THEOREM BeaconingPeersStay ==
    ASSUME Intervals
    PROVE  Spec => ExpiryNeedsSilence
<1>1. Init => Inv /\ TimeInv
  BY InvInit, TimeInit
<1>2. Inv /\ TimeInv /\ [Next]_vars => Inv' /\ TimeInv'
  BY InvStep, TimeStep
<1>3. Inv /\ TimeInv /\ [Next]_vars =>
        [\A o, p \in Node :
           p \in Listed(o) /\ missed[o][p] < 2 /\ pruneDue'[o] # pruneDue[o] /\ up'[o]
              => p \in DOMAIN directory'[o]]_vars
  BY PruningStep
<1> QED
  BY <1>1, <1>2, <1>3, PTL DEF Spec, ExpiryNeedsSilence
=============================================================================
