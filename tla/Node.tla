-------------------------------- MODULE Node --------------------------------
(***************************************************************************)
(* A running node (bridge-cli/node.rs): one task per accepted connection,  *)
(* one task that broadcasts local clipboard events, and the registry of    *)
(* outbound channels they share behind one tokio Mutex.  What happens on   *)
(* the wire of one connection is in Session.tla; here a handshake, a       *)
(* pairing ceremony and a file transfer are steps with an outcome.         *)
(***************************************************************************)
EXTENDS Naturals, Sequences

CONSTANTS Sessions,         \* connections, each accepted at most once
          Peers,            \* the NodeIds at their other ends
          NoSession,        \* no registry entry, no target
          Broadcaster,      \* the broadcaster's task
          PairingOutcomes,  \* results of execute_pairing that are considered
          ChannelCapacity,  \* of a session's outbound mpsc channel (32 in the code)
          EventCapacity,    \* of the engine's broadcast channel
          MaxEvents         \* local clipboard events modelled

ASSUME NodeConstants ==
    /\ NoSession \notin Sessions
    /\ Broadcaster \notin Sessions
    /\ PairingOutcomes \subseteq BOOLEAN
    /\ ChannelCapacity \in Nat \ {0}
    /\ EventCapacity \in Nat \ {0}
    /\ MaxEvents \in Nat

\* Inside the handler of a frame, and inside send_frame: with a Pong, and with a frame
\* of the outbound channel.
Handling == {"pairing", "transferring"}
Writing == {"answering", "forwarding"}

\* "fresh": not accepted; "registering" and "removing" wait for the registry lock;
\* "closed" left the loop in order; "failed" returned by `?`.
Gone == {"closed", "failed"}
Control == {"fresh", "registering", "loop", "removing"} \cup Handling \cup Writing \cup Gone

VARIABLES pc,        \* where each session's task is
          peer,      \* session.remote_node_id
          trusted,   \* session.state.is_trusted()
          chan,      \* outbound_tx/outbound_rx of each session
          registry,  \* active_sessions
          waiters,   \* tasks that wait for its lock, first come first served
          events,    \* events the broadcaster has not received
          lagged,    \* the broadcast channel overwrote an event
          caster,    \* the broadcaster: "receiving", "locking", "sending", "ended"
          frame,     \* the event it carries
          todo,      \* channels of this round that it has not reached
          target,    \* the channel its send awaits
          published, \* events published so far
          written    \* history: events each session gave to send_frame

vars == <<pc, peer, trusted, chan, registry, waiters, events, lagged, caster, frame, todo,
          target, published, written>>
sessionVars == <<pc, peer, trusted, chan, registry, written>>
casterVars == <<events, lagged, caster, frame, todo, target, published>>

Event == 1..MaxEvents

TypeOK ==
    /\ pc \in [Sessions -> Control]
    /\ peer \in [Sessions -> Peers]
    /\ trusted \in [Sessions -> BOOLEAN]
    /\ chan \in [Sessions -> Seq(Event)]
    /\ \A s \in Sessions : Len(chan[s]) <= ChannelCapacity
    /\ registry \in [Peers -> Sessions \cup {NoSession}]
    /\ waiters \in Seq(Sessions \cup {Broadcaster})
    /\ events \in Seq(Event)
    /\ Len(events) <= EventCapacity
    /\ lagged \in BOOLEAN
    /\ caster \in {"receiving", "locking", "sending", "ended"}
    /\ frame \in 0..MaxEvents
    /\ todo \in SUBSET Sessions
    /\ target \in Sessions \cup {NoSession}
    /\ published \in 0..MaxEvents
    /\ written \in [Sessions -> Seq(Event)]

Init ==
    /\ pc = [s \in Sessions |-> "fresh"]
    /\ peer \in [Sessions -> Peers]
    /\ trusted = [s \in Sessions |-> FALSE]
    /\ chan = [s \in Sessions |-> <<>>]
    /\ registry = [p \in Peers |-> NoSession]
    /\ waiters = <<>>
    /\ events = <<>>
    /\ lagged = FALSE
    /\ caster = "receiving"
    /\ frame = 0
    /\ todo = {}
    /\ target = NoSession
    /\ published = 0
    /\ written = [s \in Sessions |-> <<>>]

\* The registry lock, a fair mutex.  Only the broadcaster keeps it across an await;
\* the sessions insert or remove and release it at once.
Waits(t) == waiters' = Append(waiters, t)

Acquires(t) ==
    /\ caster # "sending"
    /\ waiters # <<>> /\ Head(waiters) = t
    /\ waiters' = Tail(waiters)

-----------------------------------------------------------------------------
(* A session's task: handle_connection. *)

\* The accept loop spawns the task; the handshake consults the trust store.
Accept(s) ==
    /\ pc[s] = "fresh"
    /\ \E t \in BOOLEAN :
         /\ trusted' = [trusted EXCEPT ![s] = t]
         /\ pc' = [pc EXCEPT ![s] = IF t THEN "registering" ELSE "loop"]
         /\ IF t THEN Waits(s) ELSE UNCHANGED waiters
    /\ UNCHANGED <<peer, chan, registry, written, casterVars>>

\* active_sessions.lock().await.insert(..): a HashMap replaces an entry.
Register(s) ==
    /\ pc[s] = "registering"
    /\ Acquires(s)
    /\ registry' = [registry EXCEPT ![peer[s]] = s]
    /\ pc' = [pc EXCEPT ![s] = "loop"]
    /\ UNCHANGED <<peer, trusted, chan, written, casterVars>>

\* A frame on the pairing channel: execute_pairing sets the state to Pairing.
ReadPairing(s) ==
    /\ pc[s] = "loop"
    /\ trusted' = [trusted EXCEPT ![s] = FALSE]
    /\ pc' = [pc EXCEPT ![s] = "pairing"]
    /\ UNCHANGED <<peer, chan, registry, written, waiters, casterVars>>

\* Mutant: a session that pairs anew is not registered.
PairingEndsUnregistered(s) ==
    /\ pc[s] = "pairing"
    /\ \E ok \in PairingOutcomes : trusted' = [trusted EXCEPT ![s] = ok]
    /\ pc' = [pc EXCEPT ![s] = "loop"]
    /\ UNCHANGED <<peer, chan, registry, written, waiters, casterVars>>

\* A ceremony that succeeds registers the session; one that fails is logged.
PairingEnds(s) ==
    /\ pc[s] = "pairing"
    /\ \E ok \in PairingOutcomes :
         /\ trusted' = [trusted EXCEPT ![s] = ok]
         /\ pc' = [pc EXCEPT ![s] = IF ok THEN "registering" ELSE "loop"]
         /\ IF ok THEN Waits(s) ELSE UNCHANGED waiters
    /\ UNCHANGED <<peer, chan, registry, written, casterVars>>

ReadTransfer(s) ==
    /\ pc[s] = "loop"
    /\ trusted[s]
    /\ pc' = [pc EXCEPT ![s] = "transferring"]
    /\ UNCHANGED <<peer, trusted, chan, registry, written, waiters, casterVars>>

\* handle_file_transfer(..).await? returns to the loop, or leaves the function.
TransferEnds(s) ==
    /\ pc[s] = "transferring"
    /\ \E next \in {"loop", "failed"} : pc' = [pc EXCEPT ![s] = next]
    /\ UNCHANGED <<peer, trusted, chan, registry, written, waiters, casterVars>>

ReadPing(s) ==
    /\ pc[s] = "loop"
    /\ pc' = [pc EXCEPT ![s] = "answering"]
    /\ UNCHANGED <<peer, trusted, chan, registry, written, waiters, casterVars>>

\* send_frame(Pong).await? returns when the peer takes the bytes, or leaves the function.
PongEnds(s) ==
    /\ pc[s] = "answering"
    /\ \E next \in {"loop", "failed"} : pc' = [pc EXCEPT ![s] = next]
    /\ UNCHANGED <<peer, trusted, chan, registry, written, waiters, casterVars>>

\* The select! branch on outbound_rx takes a frame and begins to send it; a session
\* that is not trusted drops it.
Forward(s) ==
    /\ pc[s] = "loop"
    /\ chan[s] # <<>>
    /\ chan' = [chan EXCEPT ![s] = Tail(@)]
    /\ IF trusted[s]
       THEN /\ written' = [written EXCEPT ![s] = Append(@, Head(chan[s]))]
            /\ pc' = [pc EXCEPT ![s] = "forwarding"]
       ELSE UNCHANGED <<written, pc>>
    /\ UNCHANGED <<peer, trusted, registry, waiters, casterVars>>

\* send_frame(..).await returns when the peer takes the bytes or the write fails; the
\* result is ignored.
ForwardEnds(s) ==
    /\ pc[s] = "forwarding"
    /\ pc' = [pc EXCEPT ![s] = "loop"]
    /\ UNCHANGED <<peer, trusted, chan, registry, written, waiters, casterVars>>

\* EOF or Disconnect: break, and wait for the lock with outbound_rx still alive.
LoopEnds(s) ==
    /\ pc[s] = "loop"
    /\ pc' = [pc EXCEPT ![s] = "removing"]
    /\ Waits(s)
    /\ UNCHANGED <<peer, trusted, chan, registry, written, casterVars>>

\* A frame that cannot be read: `?`.
LoopFails(s) ==
    /\ pc[s] = "loop"
    /\ pc' = [pc EXCEPT ![s] = "failed"]
    /\ UNCHANGED <<peer, trusted, chan, registry, written, waiters, casterVars>>

\* Mutant: only a session that is still trusted takes its entry out.
RemoveIfTrusted(s) ==
    /\ pc[s] = "removing"
    /\ Acquires(s)
    /\ registry' = IF trusted[s] THEN [registry EXCEPT ![peer[s]] = NoSession] ELSE registry
    /\ pc' = [pc EXCEPT ![s] = "closed"]
    /\ UNCHANGED <<peer, trusted, chan, written, casterVars>>

\* active_sessions.lock().await.remove(&session.remote_node_id).
Remove(s) ==
    /\ pc[s] = "removing"
    /\ Acquires(s)
    /\ registry' = [registry EXCEPT ![peer[s]] = NoSession]
    /\ pc' = [pc EXCEPT ![s] = "closed"]
    /\ UNCHANGED <<peer, trusted, chan, written, casterVars>>

-----------------------------------------------------------------------------
(* The clipboard broadcaster. *)

\* The engine publishes OutgoingBroadcastReady; a full channel loses its oldest
\* event and the receiver will be told Lagged.
Publish ==
    /\ published < MaxEvents
    /\ published' = published + 1
    /\ IF Len(events) < EventCapacity
       THEN /\ events' = Append(events, published + 1)
            /\ UNCHANGED lagged
       ELSE /\ events' = Append(Tail(events), published + 1)
            /\ lagged' = TRUE
    /\ UNCHANGED <<waiters, caster, frame, todo, target, sessionVars>>

\* Mutant: the event is left in the channel.
ReceivePeeks ==
    /\ caster = "receiving"
    /\ ~ lagged
    /\ events # <<>>
    /\ frame' = Head(events)
    /\ caster' = "locking"
    /\ Waits(Broadcaster)
    /\ UNCHANGED <<events, lagged, todo, target, published, sessionVars>>

Receive ==
    /\ caster = "receiving"
    /\ ~ lagged
    /\ events # <<>>
    /\ frame' = Head(events)
    /\ events' = Tail(events)
    /\ caster' = "locking"
    /\ Waits(Broadcaster)
    /\ UNCHANGED <<lagged, todo, target, published, sessionVars>>

\* `while let Ok(event)`: Err(Lagged) leaves the loop and the task ends.
ReceiveLagged ==
    /\ caster = "receiving"
    /\ lagged
    /\ caster' = "ended"
    /\ UNCHANGED <<waiters, events, lagged, frame, todo, target, published, sessionVars>>

Lock ==
    /\ caster = "locking"
    /\ Acquires(Broadcaster)
    /\ caster' = "sending"
    /\ todo' = {registry[p] : p \in Peers} \ {NoSession}
    /\ UNCHANGED <<events, lagged, frame, target, published, sessionVars>>

\* The map's iteration order is arbitrary, and fixed while a send is awaited.
NextTarget ==
    /\ caster = "sending"
    /\ target = NoSession
    /\ \E s \in todo : target' = s /\ todo' = todo \ {s}
    /\ UNCHANGED <<waiters, events, lagged, caster, frame, published, sessionVars>>

\* Mutant: the channel is unbounded.
SendToTargetUnbounded ==
    /\ caster = "sending"
    /\ target # NoSession
    /\ chan' = IF pc[target] \in Gone THEN chan
               ELSE [chan EXCEPT ![target] = Append(@, frame)]
    /\ target' = NoSession
    /\ UNCHANGED <<waiters, events, lagged, caster, frame, todo, published,
                   pc, peer, trusted, registry, written>>

\* Mutant: the send waits for room even when the receiver is gone.
SendToTargetWaits ==
    /\ caster = "sending"
    /\ target # NoSession
    /\ Len(chan[target]) < ChannelCapacity
    /\ chan' = [chan EXCEPT ![target] = Append(@, frame)]
    /\ target' = NoSession
    /\ UNCHANGED <<waiters, events, lagged, caster, frame, todo, published,
                   pc, peer, trusted, registry, written>>

\* tx.send(..).await completes when there is room, or at once with an ignored
\* error when the receiver is gone.
SendToTarget ==
    /\ caster = "sending"
    /\ target # NoSession
    /\ \/ /\ pc[target] \in Gone
          /\ UNCHANGED chan
       \/ /\ pc[target] \notin Gone
          /\ Len(chan[target]) < ChannelCapacity
          /\ chan' = [chan EXCEPT ![target] = Append(@, frame)]
    /\ target' = NoSession
    /\ UNCHANGED <<waiters, events, lagged, caster, frame, todo, published,
                   pc, peer, trusted, registry, written>>

Unlock ==
    /\ caster = "sending"
    /\ target = NoSession
    /\ todo = {}
    /\ caster' = "receiving"
    /\ UNCHANGED <<waiters, events, lagged, frame, todo, target, published, sessionVars>>

Broadcast == Receive \/ ReceiveLagged \/ Lock \/ NextTarget \/ SendToTarget \/ Unlock

\* Steps that take the peer: its part of a ceremony or a transfer, or reading its end
\* of the stream.
PeerActs(s) == PairingEnds(s) \/ TransferEnds(s) \/ PongEnds(s) \/ ForwardEnds(s)

SessionStep(s) ==
    \/ Accept(s) \/ Register(s) \/ ReadPairing(s) \/ ReadTransfer(s) \/ ReadPing(s)
    \/ PeerActs(s) \/ Forward(s) \/ LoopEnds(s) \/ LoopFails(s) \/ Remove(s)

Next == Publish \/ Broadcast \/ \E s \in Sessions : SessionStep(s)

Spec == Init /\ [][Next]_vars

\* Tasks that can run do run.  select! polls its branches in random order, so the
\* outbound branch is not passed over forever.  Nothing obliges a peer to finish a
\* ceremony or a transfer or to read: the session waits for it without a timeout.
Fairness ==
    /\ WF_vars(Broadcast)
    /\ \A s \in Sessions :
         /\ WF_vars(Register(s))
         /\ WF_vars(Remove(s))
         /\ SF_vars(Forward(s))

FairSpec == Spec /\ Fairness

\* The same with peers that finish what they start and read what they are sent.
PatientSpec == FairSpec /\ \A s \in Sessions : WF_vars(PeerActs(s))

-----------------------------------------------------------------------------
(* Properties. *)

StrictlyIncreasing(q) == \A i, j \in DOMAIN q : i < j => q[i] < q[j]

\* The events that reached s: handed to its peer, or waiting for it.
Got(s) == {written[s][i] : i \in DOMAIN written[s]} \cup {chan[s][i] : i \in DOMAIN chan[s]}

\* A connection writes clipboard events in the order of their publication, and no event
\* goes to a peer twice, whichever of its connections the registry names from one round
\* to the next (node.rs:117-122, 392).  Two connections of a peer are not ordered with
\* each other: an event that waits in the older one can be written after a later event
\* that went out through the newer one.
EventsInOrder ==
    /\ \A s \in Sessions : StrictlyIncreasing(written[s] \o chan[s])
    /\ \A s, t \in Sessions : s # t /\ peer[s] = peer[t] => Got(s) \cap Got(t) = {}

\* A connection that ended in order leaves no entry behind for the broadcaster.
NoDanglingEntry == \A p \in Peers : registry[p] # NoSession => pc[registry[p]] # "closed"

\* The broadcaster holds the lock and awaits room in the channel of a session that is
\* in one of the places pcs.
AwaitsRoom(pcs) ==
    /\ caster = "sending"
    /\ target # NoSession
    /\ pc[target] \in pcs
    /\ Len(chan[target]) = ChannelCapacity

\* The broadcaster keeps finishing its rounds unless it is stuck on one session in one
\* of three ways: the session awaits the lock that the broadcaster holds, it is inside
\* a ceremony or a transfer that never returns, or it writes to a peer that does not
\* read (node.rs:120, 331, 394).  No session that is in its loop, that has ended or that
\* lost its entry to another connection holds the broadcaster up.
RoundEndsOrStuck ==
    \/ []<>(caster # "sending")
    \/ <>[]AwaitsRoom({"registering", "removing"})
    \/ <>[]AwaitsRoom(Handling)
    \/ <>[]AwaitsRoom(Writing)

\* Every round of the broadcaster ends, if peers finish what they start and read what
\* they are sent (README.md: a copied text reaches the other node).
RoundEnds == caster = "sending" ~> caster # "sending"

\* What the broadcaster sends to t goes on to t's peer.
Reaches(t) == t # NoSession /\ trusted[t] /\ pc[t] \notin Gone \cup {"removing"}

\* While a trusted session is in its loop, what the broadcaster sends reaches its peer,
\* through its own registry entry or one of another connection of that peer, with only
\* these exceptions, all of another connection of the peer's making: that connection
\* ended in order and took the entry with it (node.rs:400 removes by peer), or it
\* replaced the entry (node.rs:311, 354) and then began to leave, left by `?` with the
\* entry in place, or lost its trust in a new ceremony.
TrustedPeerRegistered ==
    \A s \in Sessions :
        pc[s] = "loop" /\ trusted[s] =>
            \/ Reaches(registry[peer[s]])
            \/ \E t \in Sessions \ {s} :
                 /\ peer[t] = peer[s]
                 /\ \/ pc[t] = "closed"
                    \/ registry[peer[s]] = t /\ ~ Reaches(t)
=============================================================================
