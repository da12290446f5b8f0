----------------------------- MODULE Discovery ------------------------------
(***************************************************************************)
(* LAN discovery (bridge-discovery): every node runs a UnifiedDiscovery,   *)
(* that is an mDNS service, a UDP beacon service or both, each with one    *)
(* worker task, over one PeerDirectory.  Beacons, goodbyes and queries are *)
(* datagrams: lost, repeated, reordered.  One tick is one second; the      *)
(* mdns-sd daemon is external and seen through the events it hands to its  *)
(* browser.  A peer is its NodeId: names, addresses and the DiscoveryEvent *)
(* values that tell a subscriber about the directory are left out.         *)
(***************************************************************************)
EXTENDS Naturals, FiniteSets, Sequences

CONSTANTS Node,
          NoId,            \* the sender_id of a Query without an identity
          Advertisers,     \* nodes whose program advertises; the others only look
          Leavers,         \* nodes that shut down or die in this instance
          Modes,           \* UnifiedDiscoveryMode values considered
          BeaconInterval,  \* 2 s in UdpConfig::default
          UdpTtl,          \* 6 s in UdpConfig::default
          MdnsTtl,         \* 5 s in DiscoveryConfig::default
          MayFail,         \* services whose worker may leave its loop by an error
          MaxMdnsEvents,   \* events the daemon has handed over and no one has read
          MaxInFlight      \* datagrams in flight, by mode; what is sent beyond is lost

Service == {"mdns", "udp"}

ASSUME DiscoveryConstants ==
    /\ Advertisers \subseteq Node /\ Leavers \subseteq Node
    /\ NoId \notin Node
    /\ Modes \subseteq {"both", "udp", "mdns"}
    /\ MayFail \subseteq Service
    /\ BeaconInterval \in Nat \ {0}
    /\ UdpTtl \in Nat /\ MdnsTtl \in Nat
    /\ MaxMdnsEvents \in Nat /\ MaxInFlight \in [Modes -> Nat]

\* Ages are told apart up to the larger TTL plus one.
MaxAge == 1 + (IF UdpTtl > MdnsTtl THEN UdpTtl ELSE MdnsTtl)

VARIABLES mode,        \* UnifiedDiscoveryConfig::mode of each node
          up,          \* the node's process lives
          call,        \* where the application's call on the UnifiedDiscovery is
          is_running,
          worker,      \* each service's task: "none" (shutdown_tx is None), "run",
                       \* "ended" (it left its loop by an error, shutdown_tx is Some)
          localId,     \* local_node_id of each service is set
          advertising, \* advertising_info is Some
          registered,  \* registered_fullname is Some
          daemon,      \* the mdns-sd daemon has not been shut down
          sending,     \* whom the UDP worker is about to send an Announcement
          directory,   \* PeerDirectory: the seconds since last_seen of each entry
          names,       \* fullname_to_node
          mdnsq,       \* the browser's channel
          net,         \* datagrams in flight
          beaconIn,    \* seconds until the beacon ticker fires
          pruneDue,    \* the prune ticker has fired
          missed       \* history: Announcements of a peer lost in a row, from 2 on
                       \* also "it has not been beaconing all along"

lifeVars == <<mode, up, call, is_running, daemon>>
adVars == <<localId, advertising, registered>>
timeVars == <<beaconIn, pruneDue>>
dirVars == <<directory, names>>
vars == <<lifeVars, adVars, timeVars, dirVars, worker, sending, mdnsq, net,
          missed>>

Has(n, s) == mode[n] \in {"both", s}
Age == 0..MaxAge
Datagram == [kind : {"Announcement", "Goodbye", "Query"}, id : Node \cup {NoId},
             src : Node, to : Node, old : BOOLEAN]
MdnsEvent == [kind : {"ServiceResolved", "ServiceRemoved"}, id : Node]
CallState == {"idle", "advertiseUdp", "stopUdp", "joinMdns", "goodbye", "stopAdvertising",
              "joinUdp"}

TypeOK ==
    /\ mode \in [Node -> Modes]
    /\ up \in [Node -> BOOLEAN]
    /\ call \in [Node -> CallState]
    /\ is_running \in [Node -> BOOLEAN]
    /\ worker \in [Node -> [Service -> {"none", "run", "ended"}]]
    /\ localId \in [Node -> [Service -> BOOLEAN]]
    /\ advertising \in [Node -> BOOLEAN]
    /\ registered \in [Node -> BOOLEAN]
    /\ daemon \in [Node -> BOOLEAN]
    /\ sending \in [Node -> SUBSET Node]
    /\ \A n \in Node : \E S \in SUBSET Node : directory[n] \in [S -> Age]
    /\ names \in [Node -> SUBSET Node]
    /\ mdnsq \in [Node -> Seq(MdnsEvent)]
    /\ net \subseteq Datagram
    /\ beaconIn \in [Node -> 0..BeaconInterval]
    /\ pruneDue \in [Node -> [Service -> BOOLEAN]]
    /\ missed \in [Node -> [Node -> 0..2]]

Nobody == <<>>

Init ==
    /\ mode \in {[n \in Node |-> m] : m \in Modes}
    /\ up = [n \in Node |-> TRUE]
    /\ call = [n \in Node |-> "idle"]
    /\ is_running = [n \in Node |-> FALSE]
    /\ worker = [n \in Node |-> [s \in Service |-> "none"]]
    /\ localId = [n \in Node |-> [s \in Service |-> FALSE]]
    /\ advertising = [n \in Node |-> FALSE]
    /\ registered = [n \in Node |-> FALSE]
    /\ daemon = [n \in Node |-> Has(n, "mdns")]
    /\ sending = [n \in Node |-> {}]
    /\ directory = [n \in Node |-> Nobody]
    /\ names = [n \in Node |-> {}]
    /\ mdnsq = [n \in Node |-> <<>>]
    /\ net = {}
    /\ beaconIn = [n \in Node |-> BeaconInterval]
    /\ pruneDue = [n \in Node |-> [s \in Service |-> FALSE]]
    /\ missed = [n \in Node |-> [p \in Node |-> 2]]

-----------------------------------------------------------------------------
(* PeerDirectory: every operation runs under one lock. *)

Listed(n) == DOMAIN directory[n]

insert_or_update(d, p) == [q \in DOMAIN d \cup {p} |-> IF q = p THEN 0 ELSE d[q]]

Without(d, S) == [q \in DOMAIN d \ S |-> d[q]]

\* Mutant: an entry goes when it is as old as max_age.
prune_expired_at(d, max_age) == {q \in DOMAIN d : d[q] >= max_age}

\* Mutant: last_seen.duration_since(now), an error for every entry in the past.
prune_expired_swapped(d, max_age) == {q \in DOMAIN d : 0 > d[q] + max_age}

prune_expired(d, max_age) == {q \in DOMAIN d : d[q] > max_age}

-----------------------------------------------------------------------------
(* The application's calls, one at a time (&mut self).  As run_node does, a program *)
(* advertises before it starts discovery, may stop advertising, and ends after      *)
(* shutdown.                                                                        *)

Idle(n) == up[n] /\ call[n] = "idle"
Signalled(n, s) == call[n] = IF s = "mdns" THEN "joinMdns" ELSE "joinUdp"
Goes(n, where) == call' = [call EXCEPT ![n] = where]
\* No claim is made for a peer that does not beacon all along.
NoClaim(p) == missed' = [o \in Node |-> [missed[o] EXCEPT ![p] = 2]]
\* A datagram to each target; some are lost at once.
Sends(n, kind, id, targets) ==
    \E reached \in SUBSET targets :
      /\ net' = net \cup [kind : {kind}, id : {id}, src : {n}, to : reached, old : {FALSE}]
      /\ Cardinality(net') <= MaxInFlight[mode[n]] \/ reached = {}
      /\ missed' = [o \in Node |-> [missed[o] EXCEPT ![n] =
                      IF kind = "Announcement" /\ o \in targets \ (reached \cup {n}) /\ @ < 2
                      THEN @ + 1 ELSE @]]

\* UnifiedDiscovery::advertise, its mDNS part: fails when registered or when the
\* daemon is gone, in both cases before the UDP part.
Advertise(n) ==
    /\ Idle(n) /\ n \in Advertisers /\ Has(n, "mdns") /\ ~registered[n]
    /\ \A s \in Service : worker[n][s] = "none"
    /\ localId' = [localId EXCEPT ![n]["mdns"] = TRUE]
    /\ registered' = [registered EXCEPT ![n] = daemon[n]]
    /\ Goes(n, IF daemon[n] /\ Has(n, "udp") THEN "advertiseUdp" ELSE "idle")
    /\ UNCHANGED <<mode, up, is_running, daemon, advertising, timeVars, dirVars, worker,
                   sending, mdnsq, net, missed>>

\* UdpDiscovery::advertise sets the identity and the advertisement in one critical
\* section of local_node_id.
AdvertiseUdp(n) ==
    /\ up[n] /\ n \in Advertisers /\ Has(n, "udp")
    /\ call[n] = IF Has(n, "mdns") THEN "advertiseUdp" ELSE "idle"
    /\ worker[n]["udp"] = "none"
    /\ localId' = [localId EXCEPT ![n]["udp"] = TRUE]
    /\ advertising' = [advertising EXCEPT ![n] = TRUE]
    /\ Goes(n, "idle")
    /\ UNCHANGED <<mode, up, is_running, daemon, registered, timeVars, dirVars, worker,
                   sending, mdnsq, net, missed>>

\* UnifiedDiscovery::stop_advertising; the identities stay.
StopAdvertising(n) ==
    /\ Idle(n) /\ Has(n, "mdns") /\ registered[n]
    /\ registered' = [registered EXCEPT ![n] = FALSE]
    /\ Goes(n, IF Has(n, "udp") THEN "stopUdp" ELSE "idle")
    /\ UNCHANGED <<mode, up, is_running, daemon, localId, advertising, timeVars, dirVars, worker,
                   sending, mdnsq, net, missed>>

\* Mutant: the identity goes with the advertisement.
StopUdpAdvertising_forgets(n) ==
    /\ up[n] /\ Has(n, "udp") /\ advertising[n]
    /\ call[n] = IF Has(n, "mdns") THEN "stopUdp" ELSE "idle"
    /\ advertising' = [advertising EXCEPT ![n] = FALSE]
    /\ localId' = [localId EXCEPT ![n]["udp"] = FALSE]
    /\ NoClaim(n)
    /\ Goes(n, "idle")
    /\ UNCHANGED <<mode, up, is_running, daemon, registered, timeVars, dirVars, worker, sending,
                   mdnsq, net>>

\* UdpDiscovery::stop_advertising.
StopUdpAdvertising(n) ==
    /\ up[n] /\ Has(n, "udp") /\ advertising[n]
    /\ call[n] = IF Has(n, "mdns") THEN "stopUdp" ELSE "idle"
    /\ advertising' = [advertising EXCEPT ![n] = FALSE]
    /\ NoClaim(n)
    /\ Goes(n, "idle")
    /\ UNCHANGED <<mode, up, is_running, daemon, localId, registered, timeVars, dirVars, worker,
                   sending, mdnsq, net>>

\* UnifiedDiscovery::start_discovery: the mDNS service starts first; when the UDP
\* socket cannot be bound it is left running and is_running stays false.  The Query
\* probe has a task of its own; a late probe is a late datagram.
StartDiscovery(n) ==
    /\ Idle(n) /\ ~is_running[n]
    /\ Has(n, "mdns") => worker[n]["mdns"] = "none" /\ daemon[n]
    /\ \E bound \in BOOLEAN :
         LET starts == {s \in Service : Has(n, s) /\ (s = "udp" => bound)} IN
         /\ worker' = [worker EXCEPT ![n] = [s \in Service |-> IF s \in starts THEN "run"
                                                               ELSE @[s]]]
         /\ is_running' = [is_running EXCEPT ![n] = Has(n, "udp") => bound]
         /\ Sends(n, "Query", IF localId[n]["udp"] THEN n ELSE NoId,
                  IF "udp" \in starts THEN Node ELSE {})
    /\ beaconIn' = [beaconIn EXCEPT ![n] = BeaconInterval]
    /\ mdnsq' = [mdnsq EXCEPT ![n] = <<>>]
    /\ UNCHANGED <<mode, up, call, daemon, adVars, pruneDue, dirVars, sending>>

\* UnifiedDiscovery::shutdown: MdnsDiscovery::shutdown withdraws the registration and
\* signals its worker ...
Shutdown(n) ==
    /\ Idle(n) /\ n \in Leavers /\ Has(n, "mdns")
    /\ registered' = [registered EXCEPT ![n] = FALSE]
    /\ worker' = [worker EXCEPT ![n]["mdns"] = IF @ = "run" THEN "run" ELSE "none"]
    /\ Goes(n, "joinMdns")
    /\ UNCHANGED <<mode, up, is_running, daemon, localId, advertising, timeVars, dirVars,
                   sending, mdnsq, net, missed>>

\* ... waits for it and shuts the daemon down, ...
JoinMdns(n) ==
    /\ up[n] /\ call[n] = "joinMdns" /\ worker[n]["mdns"] = "none" /\ Has(n, "udp")
    /\ daemon' = [daemon EXCEPT ![n] = FALSE]
    /\ mdnsq' = [mdnsq EXCEPT ![n] = <<>>]
    /\ Goes(n, "goodbye")
    /\ UNCHANGED <<mode, up, is_running, adVars, timeVars, dirVars, worker, sending, net,
                   missed>>

\* ... then UdpDiscovery::shutdown says goodbye while its worker still beacons, ...
SendGoodbye(n) ==
    /\ up[n] /\ n \in Leavers /\ Has(n, "udp")
    /\ call[n] = IF Has(n, "mdns") THEN "goodbye" ELSE "idle"
    /\ Sends(n, "Goodbye", n, IF advertising[n] THEN Node ELSE {})
    /\ Goes(n, "stopAdvertising")
    /\ UNCHANGED <<mode, up, is_running, daemon, adVars, timeVars, dirVars, worker, sending,
                   mdnsq>>

\* ... stops advertising and signals the worker, ...
StopForShutdown(n) ==
    /\ up[n] /\ call[n] = "stopAdvertising"
    /\ advertising' = [advertising EXCEPT ![n] = FALSE]
    /\ worker' = [worker EXCEPT ![n]["udp"] = IF @ = "run" THEN "run" ELSE "none"]
    /\ NoClaim(n)
    /\ Goes(n, "joinUdp")
    /\ UNCHANGED <<mode, up, is_running, daemon, localId, registered, timeVars, dirVars,
                   sending, mdnsq, net>>

\* The process is gone, and with it all it held.
Ends(n) ==
    /\ up' = [up EXCEPT ![n] = FALSE]
    /\ call' = [call EXCEPT ![n] = "idle"]
    /\ is_running' = [is_running EXCEPT ![n] = FALSE]
    /\ daemon' = [daemon EXCEPT ![n] = FALSE]
    /\ localId' = [localId EXCEPT ![n] = [s \in Service |-> FALSE]]
    /\ advertising' = [advertising EXCEPT ![n] = FALSE]
    /\ registered' = [registered EXCEPT ![n] = FALSE]
    /\ beaconIn' = [beaconIn EXCEPT ![n] = BeaconInterval]
    /\ pruneDue' = [pruneDue EXCEPT ![n] = [s \in Service |-> FALSE]]
    /\ directory' = [directory EXCEPT ![n] = Nobody]
    /\ names' = [names EXCEPT ![n] = {}]
    /\ worker' = [worker EXCEPT ![n] = [s \in Service |-> "none"]]
    /\ sending' = [sending EXCEPT ![n] = {}]
    /\ mdnsq' = [mdnsq EXCEPT ![n] = <<>>]
    /\ missed' = [o \in Node |-> [p \in Node |-> IF n \in {o, p} THEN 2 ELSE missed[o][p]]]
    /\ UNCHANGED <<mode, net>>

\* ... and waits for it.  The program that called shutdown ends.
JoinLast(n) ==
    LET s == IF Has(n, "udp") THEN "udp" ELSE "mdns" IN
    up[n] /\ Signalled(n, s) /\ worker[n][s] = "none" /\ Ends(n)

\* The process dies, or leaves by an error, without a goodbye.
Crash(n) == up[n] /\ n \in Leavers /\ Ends(n)

-----------------------------------------------------------------------------
(* The workers: a select! over the branches that are ready. *)

Selects(n, s) ==
    /\ worker[n][s] = "run"
    /\ s = "udp" => sending[n] = {}

\* Mutant: the flag is read the wrong way round, and the loop goes on.
WorkerStops_inverted(n, s) ==
    /\ Selects(n, s) /\ Signalled(n, s)
    /\ UNCHANGED vars

\* shutdown_rx.changed()
WorkerStops(n, s) ==
    /\ Selects(n, s) /\ Signalled(n, s)
    /\ worker' = [worker EXCEPT ![n][s] = "none"]
    /\ pruneDue' = [pruneDue EXCEPT ![n][s] = FALSE]
    /\ UNCHANGED <<lifeVars, adVars, beaconIn, dirVars, sending, mdnsq, net,
                   missed>>

\* recv_from fails, or the daemon closes the browser's channel; nobody is told.
WorkerFails(n, s) ==
    /\ Selects(n, s) /\ s \in MayFail
    /\ worker' = [worker EXCEPT ![n][s] = IF Signalled(n, s) THEN "none" ELSE "ended"]
    /\ pruneDue' = [pruneDue EXCEPT ![n][s] = FALSE]
    /\ IF s = "udp" THEN NoClaim(n) ELSE UNCHANGED missed
    /\ UNCHANGED <<lifeVars, adVars, beaconIn, dirVars, sending, mdnsq, net>>

Ttl(s) == IF s = "udp" THEN UdpTtl ELSE MdnsTtl

\* prune_ticker.tick()
Prune(n, s) ==
    /\ Selects(n, s) /\ pruneDue[n][s]
    /\ pruneDue' = [pruneDue EXCEPT ![n][s] = FALSE]
    /\ directory' = [directory EXCEPT ![n] = Without(@, prune_expired(@, Ttl(s)))]
    /\ UNCHANGED <<lifeVars, adVars, beaconIn, names, worker, sending, mdnsq, net,
                   missed>>

\* Mutant: the ticker is set one second too late.
Beacon_late(n) ==
    /\ Selects(n, "udp") /\ beaconIn[n] = 0
    /\ beaconIn' = [beaconIn EXCEPT ![n] = BeaconInterval + 1]
    /\ sending' = [sending EXCEPT ![n] = IF advertising[n] THEN Node ELSE {}]
    /\ UNCHANGED <<lifeVars, adVars, pruneDue, dirVars, worker, mdnsq, net, missed>>

\* beacon_ticker.tick(): the advertisement is copied under its lock and sent afterwards.
Beacon(n) ==
    /\ Selects(n, "udp") /\ beaconIn[n] = 0
    /\ beaconIn' = [beaconIn EXCEPT ![n] = BeaconInterval]
    /\ sending' = [sending EXCEPT ![n] = IF advertising[n] THEN Node ELSE {}]
    /\ UNCHANGED <<lifeVars, adVars, pruneDue, dirVars, worker, mdnsq, net,
                   missed>>

SendAnnouncement(n) ==
    /\ sending[n] # {}
    /\ Sends(n, "Announcement", n, sending[n])
    /\ sending' = [sending EXCEPT ![n] = {}]
    /\ UNCHANGED <<lifeVars, adVars, timeVars, dirVars, worker, mdnsq>>

Appears(n, p) == directory' = [directory EXCEPT ![n] = insert_or_update(@, p)]
Departs(n, p) == directory' = [directory EXCEPT ![n] = Without(@, {p})]

-----------------------------------------------------------------------------
(* recv_from *)

\* A datagram arrives, at most twice.
Arrives(m) ==
    /\ m \in net /\ Selects(m.to, "udp")
    /\ \/ net' = net \ {m}
       \/ ~m.old /\ net' = (net \ {m}) \cup {[m EXCEPT !.old = TRUE]}

Own(m) == localId[m.to]["udp"] /\ m.id = m.to

ReceiveOwn(m) ==
    /\ Arrives(m) /\ Own(m)
    /\ UNCHANGED <<lifeVars, adVars, timeVars, dirVars, worker, sending, mdnsq,
                   missed>>

Beaconing(p) == worker[p]["udp"] = "run" /\ advertising[p]

ReceiveAnnouncement(m) ==
    /\ Arrives(m) /\ ~Own(m) /\ m.kind = "Announcement"
    /\ Appears(m.to, m.id)
    /\ missed' = [missed EXCEPT ![m.to][m.id] = IF Beaconing(m.id) THEN 0 ELSE 2]
    /\ UNCHANGED <<lifeVars, adVars, timeVars, names, worker, sending, mdnsq>>

ReceiveGoodbye(m) ==
    /\ Arrives(m) /\ ~Own(m) /\ m.kind = "Goodbye"
    /\ Departs(m.to, m.id)
    /\ UNCHANGED <<lifeVars, adVars, timeVars, names, worker, sending, mdnsq,
                   missed>>

ReceiveQuery(m) ==
    /\ Arrives(m) /\ ~Own(m) /\ m.kind = "Query"
    /\ sending' = [sending EXCEPT ![m.to] = IF advertising[m.to] THEN {m.src} ELSE {}]
    /\ UNCHANGED <<lifeVars, adVars, timeVars, dirVars, worker, mdnsq, missed>>

\* No one reads it: there is no socket, or the worker is late.
Lose(m) ==
    /\ m \in net /\ m.old
    /\ net' = net \ {m}
    /\ missed' = IF m.kind = "Announcement" /\ missed[m.to][m.id] < 2
                 THEN [missed EXCEPT ![m.to][m.id] = @ + 1] ELSE missed
    /\ UNCHANGED <<lifeVars, adVars, timeVars, dirVars, worker, sending, mdnsq>>

-----------------------------------------------------------------------------
(* The mdns-sd daemon and the worker that reads its events. *)

Hands(n, kind, p) ==
    /\ worker[n]["mdns"] = "run" /\ daemon[n] /\ Len(mdnsq[n]) < MaxMdnsEvents
    /\ mdnsq' = [mdnsq EXCEPT ![n] = Append(@, [kind |-> kind, id |-> p])]
    /\ UNCHANGED <<lifeVars, adVars, timeVars, dirVars, worker, sending, net,
                   missed>>

\* A registered service is resolved, any number of times, one's own as well.
DaemonResolves(n, p) == registered[p] /\ Hands(n, "ServiceResolved", p)

\* A resolved service is withdrawn or its records run out.
DaemonRemoves(n, p) ==
    /\ p \in names[n] \/ \E i \in DOMAIN mdnsq[n] : mdnsq[n][i].id = p
    /\ Hands(n, "ServiceRemoved", p)

ReadsEvent(n, kind) ==
    /\ Selects(n, "mdns") /\ mdnsq[n] # <<>> /\ Head(mdnsq[n]).kind = kind
    /\ mdnsq' = [mdnsq EXCEPT ![n] = Tail(@)]

ServiceResolved(n) ==
    /\ ReadsEvent(n, "ServiceResolved")
    /\ LET p == Head(mdnsq[n]).id IN
         IF localId[n]["mdns"] /\ p = n
         THEN UNCHANGED <<names, directory>>
         ELSE /\ names' = [names EXCEPT ![n] = @ \cup {p}]
              /\ Appears(n, p)
    /\ UNCHANGED <<lifeVars, adVars, timeVars, worker, sending, net, missed>>

ServiceRemoved(n) ==
    /\ ReadsEvent(n, "ServiceRemoved")
    /\ LET p == Head(mdnsq[n]).id IN
         IF p \in names[n]
         THEN /\ names' = [names EXCEPT ![n] = @ \ {p}]
              /\ Departs(n, p)
         ELSE UNCHANGED <<names, directory>>
    /\ UNCHANGED <<lifeVars, adVars, timeVars, worker, sending, net, missed>>

-----------------------------------------------------------------------------
(* A second passes.  Calls and tickers take less than a second, and a                *)
(* datagram arrives, if at all, before the second after the one it was sent in ends. *)
(* A prune that finds no entry, or only entries of this second, changes nothing, nor *)
(* does the beacon ticker of a node that never advertises.                           *)

Prompt(n, s) ==
    worker[n][s] = "run" => /\ Selects(n, s) /\ ~pruneDue[n][s]
                            /\ s = "udp" => beaconIn[n] > 0

Tick ==
    /\ \A n \in Node : call[n] = "idle" /\ \A s \in Service : Prompt(n, s)
    /\ \A m \in net : ~m.old
    /\ net' = {[m EXCEPT !.old = TRUE] : m \in net}
    /\ directory' = [n \in Node |-> [p \in Listed(n) |->
                        IF directory[n][p] < MaxAge THEN directory[n][p] + 1 ELSE MaxAge]]
    /\ pruneDue' = [n \in Node |-> [s \in Service |->
                        worker[n][s] = "run" /\ Listed(n) # {}]]
    /\ beaconIn' = [n \in Node |-> IF worker[n]["udp"] = "run" /\ n \in Advertisers
                                   THEN beaconIn[n] - 1 ELSE beaconIn[n]]
    /\ UNCHANGED <<lifeVars, adVars, names, worker, sending, mdnsq, missed>>

Call(n) ==
    \/ Advertise(n) \/ AdvertiseUdp(n) \/ StopAdvertising(n) \/ StopUdpAdvertising(n)
    \/ StartDiscovery(n) \/ Shutdown(n) \/ JoinMdns(n) \/ SendGoodbye(n) \/ StopForShutdown(n)
    \/ JoinLast(n)

Work(n, s) == WorkerStops(n, s) \/ WorkerFails(n, s) \/ Prune(n, s)

Next ==
    \/ \E n \in Node : Call(n) \/ Crash(n) \/ Beacon(n) \/ SendAnnouncement(n)
                       \/ ServiceResolved(n) \/ ServiceRemoved(n)
    \/ \E n \in Node, s \in Service : Work(n, s)
    \/ \E n, p \in Node : DaemonResolves(n, p) \/ DaemonRemoves(n, p)
    \/ \E m \in net : ReceiveOwn(m) \/ ReceiveAnnouncement(m) \/ ReceiveGoodbye(m)
                      \/ ReceiveQuery(m) \/ Lose(m)
    \/ Tick

Spec == Init /\ [][Next]_vars

\* What has to happen before the second ends: calls go on, workers serve their tickers,
\* send what they are about to send and see the signal, late datagrams are gone.  There
\* is finitely much of it in a second.  Applications call when they like.
Urgent ==
    \/ \E n \in Node : (call[n] # "idle" /\ Call(n)) \/ Beacon(n) \/ SendAnnouncement(n)
    \/ \E n \in Node, s \in Service : Prune(n, s) \/ WorkerStops(n, s)
    \/ \E m \in net : Lose(m)

Fairness == WF_vars(Urgent \/ Tick)

FairSpec == Spec /\ Fairness

-----------------------------------------------------------------------------
(* Properties. *)

\* A node never finds itself: its own beacons and service records come back to it, also
\* after it has stopped advertising, and both workers ignore them (the self filters of
\* udp.rs and service.rs).
NeverListsSelf == \A n \in Node : n \notin Listed(n)

\* A worker prunes a peer only after silence: never while that peer keeps beaconing and
\* no two of its Announcements in a row were lost, although either service prunes the
\* other's entries with its own TTL (prune_expired against BeaconInterval, UdpTtl and
\* MdnsTtl, with datagrams up to a second late).
ExpiryNeedsSilence ==
    [][\A o, p \in Node :
         p \in Listed(o) /\ missed[o][p] < 2 /\ pruneDue'[o] # pruneDue[o] /\ up'[o]
            => p \in DOMAIN directory'[o]]_vars

\* A peer that has withdrawn, with a goodbye that is lost or overtaken by a beacon of its
\* own worker, or without one, is in the end in no directory that a worker still prunes,
\* and does not come back.
Withdrawn(p) == ~advertising[p] /\ ~registered[p]
DepartedForgotten ==
    \A o \in Node : \A p \in Advertisers \ {o} :
      <>[](Withdrawn(p) /\ \E s \in Service : worker[o][s] = "run") => <>[](p \notin Listed(o))

\* Every call comes back: shutdown waits for workers that are in the middle of a beacon,
\* a reply or a datagram, that have failed, or that were never started.
CallsReturn == []<>(\A n \in Node : call[n] = "idle")
=============================================================================
