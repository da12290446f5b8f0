---------------------------- MODULE NodeProofs ------------------------------
(***************************************************************************)
(* Proofs about a running node, for any number of connections, peers and   *)
(* events and for channels of any capacity: the registry agrees with the   *)
(* tasks that share it, every connection writes events in their order, and *)
(* no peer gets an event twice.                                            *)
(***************************************************************************)
EXTENDS Node, Integers, TLAPS

(***************************************************************************)
(* The inductive invariant, part by part.                                  *)
(***************************************************************************)

\* The registry files a session under its peer, and never one that ended in order.
RegistryInv ==
    \A p \in Peers : registry[p] # NoSession =>
        peer[registry[p]] = p /\ pc[registry[p]] # "closed"

\* A session that is trusted and in its loop, or in a step that returns there, is in
\* the registry, or another one of its peer is, unless one of its peer ended in order.
ReachInv ==
    \A s \in Sessions :
        /\ pc[s] \in {"loop", "transferring"} \cup Writing /\ trusted[s]
        /\ \A t \in Sessions : peer[t] = peer[s] => pc[t] # "closed"
        => registry[peer[s]] # NoSession

\* The broadcast channel holds the last events published, and the broadcaster's
\* frame is older than all of them.
QueueInv ==
    /\ Len(events) <= published
    /\ \A i \in 1 .. Len(events) : events[i] = published - Len(events) + i
    /\ frame <= published - Len(events)

\* The channels that the round has not filled.
Due == {t \in Sessions : t \in todo \/ t = target}

\* The broadcaster awaits a send only in a round, and to a channel that it has
\* taken out of the ones to do; a round has one channel of a peer.
RoundInv ==
    /\ target # NoSession => caster = "sending"
    /\ target \notin todo
    /\ caster = "locking" => frame > 0
    /\ caster = "sending" => frame > 0
    /\ \A t, u \in Due : peer[t] = peer[u] => t = u

\* The sessions of peers that are still to get the frame of this round.
Expecting(s) ==
    \/ caster = "locking"
    \/ caster = "sending" /\ \E t \in Due : peer[t] = peer[s]

\* No session has got what was published after the frame, nor the frame if its peer
\* is still to get it.
OldInv ==
    \A s \in Sessions :
        /\ \A i \in 1 .. Len(written[s]) : written[s][i] <= frame
        /\ \A i \in 1 .. Len(chan[s]) : chan[s][i] <= frame
        /\ Expecting(s) => /\ \A i \in 1 .. Len(written[s]) : written[s][i] < frame
                           /\ \A i \in 1 .. Len(chan[s]) : chan[s][i] < frame

\* What a session wrote is in order, so is what its channel holds, and the former is
\* older than the latter.
OrderInv ==
    \A s \in Sessions :
        /\ StrictlyIncreasing(written[s])
        /\ StrictlyIncreasing(chan[s])
        /\ \A i \in 1 .. Len(written[s]), j \in 1 .. Len(chan[s]) : written[s][i] < chan[s][j]

\* No two sessions of a peer got the same event.
OnceInv == \A s, t \in Sessions : s # t /\ peer[s] = peer[t] => Got(s) \cap Got(t) = {}

Inv ==
    /\ TypeOK
    /\ RegistryInv
    /\ ReachInv
    /\ QueueInv
    /\ RoundInv
    /\ OldInv
    /\ OrderInv
    /\ OnceInv

-----------------------------------------------------------------------------
(***************************************************************************)
(* Queues.                                                                 *)
(***************************************************************************)

\* Taking the first element of a queue, as recv does.
LEMMA TailFacts ==
    ASSUME NEW S, NEW q \in Seq(S), q # <<>>
    PROVE  /\ Len(q) \in Nat /\ Len(q) > 0
           /\ Head(q) \in S /\ Head(q) = q[1]
           /\ Tail(q) \in Seq(S)
           /\ Len(Tail(q)) = Len(q) - 1
           /\ \A i \in 1 .. Len(q) - 1 : Tail(q)[i] = q[i + 1]
OBVIOUS

\* Adding an element at the end, as send does.
LEMMA AppendFacts ==
    ASSUME NEW S, NEW q \in Seq(S), NEW x \in S
    PROVE  /\ Len(q) \in Nat
           /\ Append(q, x) \in Seq(S)
           /\ Len(Append(q, x)) = Len(q) + 1
           /\ \A i \in 1 .. Len(q) : Append(q, x)[i] = q[i]
           /\ Append(q, x)[Len(q) + 1] = x
OBVIOUS

-----------------------------------------------------------------------------
(***************************************************************************)
(* Type correctness.                                                       *)
(***************************************************************************)

\* The queue of the registry's lock stays a queue of tasks (Mutex::lock in node.rs).
LEMMA LockQueue ==
    ASSUME waiters \in Seq(Sessions \cup {Broadcaster}), NEW t \in Sessions \cup {Broadcaster}
    PROVE  /\ Waits(t) => waiters' \in Seq(Sessions \cup {Broadcaster})
           /\ Acquires(t) => waiters' \in Seq(Sessions \cup {Broadcaster})
BY DEF Waits, Acquires

\* Every step of a session's task keeps the types.
LEMMA SessionTypes ==
    ASSUME TypeOK, NEW s \in Sessions,
           SessionStep(s)
    PROVE  TypeOK'
<1> USE NodeConstants
<1>1. CASE Accept(s)
  BY <1>1, LockQueue DEF Accept, TypeOK, casterVars, Control, Handling, Writing, Gone
<1>2. CASE Register(s)
  BY <1>2, LockQueue DEF Register, TypeOK, casterVars, Control, Handling, Writing, Gone
<1>3. CASE ReadPairing(s)
  BY <1>3 DEF ReadPairing, TypeOK, casterVars, Control, Handling, Writing, Gone
<1>4. CASE PairingEnds(s)
  BY <1>4, LockQueue DEF PairingEnds, TypeOK, casterVars, Control, Handling, Writing, Gone
<1>5. CASE ReadTransfer(s)
  BY <1>5 DEF ReadTransfer, TypeOK, casterVars, Control, Handling, Writing, Gone
<1>6. CASE TransferEnds(s)
  BY <1>6 DEF TransferEnds, TypeOK, casterVars, Control, Handling, Writing, Gone
<1>7. CASE Forward(s)
  <2>1. chan[s] \in Seq(Event) /\ chan[s] # <<>> /\ written[s] \in Seq(Event)
    BY <1>7 DEF Forward, TypeOK
  <2>2. /\ Tail(chan[s]) \in Seq(Event) /\ Len(Tail(chan[s])) <= ChannelCapacity
        /\ Append(written[s], Head(chan[s])) \in Seq(Event)
    BY <2>1, TailFacts, AppendFacts DEF TypeOK
  <2>3. /\ chan' \in [Sessions -> Seq(Event)]
        /\ \A t \in Sessions : Len(chan'[t]) <= ChannelCapacity
    <3>1. chan \in [Sessions -> Seq(Event)] /\ chan' = [chan EXCEPT ![s] = Tail(chan[s])]
      BY <1>7 DEF Forward, TypeOK
    <3>2. \A t \in Sessions : chan'[t] = IF t = s THEN Tail(chan[s]) ELSE chan[t]
      BY <3>1
    <3> QED
      BY <2>2, <3>1, <3>2 DEF TypeOK
  <2>4. written' \in [Sessions -> Seq(Event)] /\ pc' \in [Sessions -> Control]
    <3>1. "forwarding" \in Control
      BY DEF Control, Writing
    <3>2. CASE trusted[s]
      <4>1. /\ written' = [written EXCEPT ![s] = Append(written[s], Head(chan[s]))]
            /\ pc' = [pc EXCEPT ![s] = "forwarding"]
        BY <1>7, <3>2 DEF Forward
      <4> QED
        BY <2>2, <3>1, <4>1 DEF TypeOK
    <3>3. CASE ~ trusted[s]
      BY <1>7, <3>3 DEF Forward, TypeOK
    <3> QED
      BY <3>2, <3>3
  <2> QED
    BY <1>7, <2>3, <2>4 DEF Forward, TypeOK, casterVars
<1>8. CASE LoopEnds(s)
  BY <1>8, LockQueue DEF LoopEnds, TypeOK, casterVars, Control, Handling, Writing, Gone
<1>9. CASE LoopFails(s)
  BY <1>9 DEF LoopFails, TypeOK, casterVars, Control, Handling, Writing, Gone
<1>10. CASE Remove(s)
  BY <1>10, LockQueue DEF Remove, TypeOK, casterVars, Control, Handling, Writing, Gone
<1>11. CASE ReadPing(s)
  BY <1>11 DEF ReadPing, TypeOK, casterVars, Control, Handling, Writing, Gone
<1>12. CASE PongEnds(s)
  BY <1>12 DEF PongEnds, TypeOK, casterVars, Control, Handling, Writing, Gone
<1>13. CASE ForwardEnds(s)
  BY <1>13 DEF ForwardEnds, TypeOK, casterVars, Control, Handling, Writing, Gone
<1> QED
  BY <1>1, <1>2, <1>3, <1>4, <1>5, <1>6, <1>7, <1>8, <1>9, <1>10, <1>11, <1>12, <1>13
     DEF SessionStep, PeerActs

\* So does every step of the engine and of the broadcaster's task.
LEMMA CasterTypes ==
    ASSUME TypeOK, RoundInv, Publish \/ Broadcast
    PROVE  TypeOK'
<1> USE NodeConstants
<1>1. CASE Publish
  <2>1. published + 1 \in Event /\ published' \in 0..MaxEvents /\ events \in Seq(Event)
    BY <1>1 DEF Publish, TypeOK, Event
  <2>2. events' \in Seq(Event) /\ Len(events') <= EventCapacity
    <3>1. CASE Len(events) < EventCapacity
      BY <1>1, <2>1, <3>1, AppendFacts DEF Publish
    <3>2. CASE ~ (Len(events) < EventCapacity)
      <4>1. /\ Tail(events) \in Seq(Event) /\ Len(Tail(events)) = Len(events) - 1
            /\ Len(events) = EventCapacity
        BY <2>1, <3>2, TailFacts DEF TypeOK
      <4> QED
        BY <1>1, <2>1, <3>2, <4>1, AppendFacts DEF Publish
    <3> QED
      BY <3>1, <3>2
  <2>3. lagged' \in BOOLEAN
    BY <1>1, Zenon DEF Publish, TypeOK
  <2> QED
    BY <1>1, <2>1, <2>2, <2>3 DEF Publish, TypeOK, sessionVars
<1>2. CASE Receive
  <2>1. /\ events \in Seq(Event) /\ events # <<>>
        /\ frame' = Head(events) /\ events' = Tail(events)
    BY <1>2 DEF Receive, TypeOK
  <2>2. frame' \in Event /\ events' \in Seq(Event) /\ Len(events') <= EventCapacity
    BY <2>1, TailFacts DEF TypeOK
  <2> QED
    BY <1>2, <2>2, LockQueue DEF Receive, TypeOK, sessionVars, Event
<1>3. CASE ReceiveLagged
  BY <1>3 DEF ReceiveLagged, TypeOK, sessionVars, Event
<1>4. CASE Lock
  BY <1>4, LockQueue DEF Lock, TypeOK, sessionVars, Event
<1>5. CASE NextTarget
  BY <1>5 DEF NextTarget, TypeOK, sessionVars, Event
<1>6. CASE SendToTarget
  <2>1. frame \in Event /\ target \in Sessions
    BY <1>6 DEF SendToTarget, TypeOK, RoundInv, Event
  <2>2. chan \in [Sessions -> Seq(Event)] /\ Append(chan[target], frame) \in Seq(Event)
    BY <2>1, AppendFacts DEF TypeOK
  <2>3. /\ chan' \in [Sessions -> Seq(Event)]
        /\ \A t \in Sessions : Len(chan'[t]) <= ChannelCapacity
    <3>1. CASE chan' = chan
      BY <2>2, <3>1 DEF TypeOK
    <3>2. CASE /\ Len(chan[target]) < ChannelCapacity
               /\ chan' = [chan EXCEPT ![target] = Append(chan[target], frame)]
      <4>1. Len(Append(chan[target], frame)) <= ChannelCapacity
        BY <2>1, <2>2, <3>2, AppendFacts
      <4> QED
        BY <2>1, <2>2, <3>2, <4>1 DEF TypeOK
    <3> QED
      BY <1>6, <2>1, <3>1, <3>2 DEF SendToTarget
  <2> QED
    BY <1>6, <2>3 DEF SendToTarget, TypeOK
<1>7. CASE Unlock
  BY <1>7 DEF Unlock, TypeOK, sessionVars, Event
<1> QED
  BY <1>1, <1>2, <1>3, <1>4, <1>5, <1>6, <1>7 DEF Broadcast

-----------------------------------------------------------------------------
(***************************************************************************)
(* The registry.                                                           *)
(***************************************************************************)

\* insert and remove in handle_connection keep the registry filed by peer and free of
\* sessions that ended in order: the last thing such a session does is to remove the
\* entry of its peer.
LEMMA RegistryStep ==
    ASSUME TypeOK, RegistryInv, NEW s \in Sessions,
           SessionStep(s)
    PROVE  RegistryInv'
<1> USE NodeConstants DEF RegistryInv
<1>1. CASE Accept(s)
  BY <1>1 DEF Accept, TypeOK
<1>2. CASE Register(s)
  BY <1>2 DEF Register, TypeOK
<1>3. CASE ReadPairing(s)
  BY <1>3 DEF ReadPairing, TypeOK
<1>4. CASE PairingEnds(s)
  BY <1>4 DEF PairingEnds, TypeOK
<1>5. CASE ReadTransfer(s)
  BY <1>5 DEF ReadTransfer, TypeOK
<1>6. CASE TransferEnds(s)
  BY <1>6 DEF TransferEnds, TypeOK
<1>7. CASE Forward(s)
  BY <1>7 DEF Forward, TypeOK
<1>8. CASE LoopEnds(s)
  BY <1>8 DEF LoopEnds, TypeOK
<1>9. CASE LoopFails(s)
  BY <1>9 DEF LoopFails, TypeOK
<1>10. CASE Remove(s)
  BY <1>10 DEF Remove, TypeOK
<1>11. CASE ReadPing(s)
  BY <1>11 DEF ReadPing, TypeOK
<1>12. CASE PongEnds(s)
  BY <1>12 DEF PongEnds, TypeOK
<1>13. CASE ForwardEnds(s)
  BY <1>13 DEF ForwardEnds, TypeOK
<1> QED
  BY <1>1, <1>2, <1>3, <1>4, <1>5, <1>6, <1>7, <1>8, <1>9, <1>10, <1>11, <1>12, <1>13
     DEF SessionStep, PeerActs

\* A session comes to its loop trusted only from the registry, and only a session of
\* the same peer that ends in order takes the entry away.
LEMMA ReachStep ==
    ASSUME TypeOK, ReachInv, NEW s \in Sessions,
           SessionStep(s)
    PROVE  ReachInv'
<1> USE NodeConstants DEF ReachInv, Writing
<1>1. CASE Accept(s)
  BY <1>1 DEF Accept, TypeOK
<1>2. CASE Register(s)
  BY <1>2 DEF Register, TypeOK
<1>3. CASE ReadPairing(s)
  BY <1>3 DEF ReadPairing, TypeOK
<1>4. CASE PairingEnds(s)
  BY <1>4 DEF PairingEnds, TypeOK
<1>5. CASE ReadTransfer(s)
  BY <1>5 DEF ReadTransfer, TypeOK
<1>6. CASE TransferEnds(s)
  BY <1>6 DEF TransferEnds, TypeOK
<1>7. CASE Forward(s)
  BY <1>7 DEF Forward, TypeOK
<1>8. CASE LoopEnds(s)
  BY <1>8 DEF LoopEnds, TypeOK
<1>9. CASE LoopFails(s)
  BY <1>9 DEF LoopFails, TypeOK
<1>10. CASE Remove(s)
  BY <1>10 DEF Remove, TypeOK
<1>11. CASE ReadPing(s)
  BY <1>11 DEF ReadPing, TypeOK
<1>12. CASE PongEnds(s)
  BY <1>12 DEF PongEnds, TypeOK
<1>13. CASE ForwardEnds(s)
  BY <1>13 DEF ForwardEnds, TypeOK
<1> QED
  BY <1>1, <1>2, <1>3, <1>4, <1>5, <1>6, <1>7, <1>8, <1>9, <1>10, <1>11, <1>12, <1>13
     DEF SessionStep, PeerActs

\* The engine and the broadcaster read the registry and nothing else of it.
LEMMA CasterLeavesRegistry ==
    ASSUME Publish \/ Broadcast
    PROVE  UNCHANGED <<pc, peer, trusted, registry, written>>
BY DEF Publish, Broadcast, Receive, ReceiveLagged, Lock, NextTarget, SendToTarget, Unlock,
       sessionVars

-----------------------------------------------------------------------------
(***************************************************************************)
(* The order of events.                                                    *)
(***************************************************************************)

\* Publish and recv keep the broadcast channel the newest events, in order, also when
\* it overwrites its oldest.
LEMMA QueueStep ==
    ASSUME TypeOK, QueueInv, Publish \/ Broadcast
    PROVE  QueueInv'
<1> USE NodeConstants
<1>1. CASE Publish
  <2>1. /\ events \in Seq(Event) /\ published + 1 \in Event /\ published \in Nat
        /\ frame \in Nat /\ Len(events) \in Nat
    BY <1>1 DEF Publish, TypeOK, Event
  <2>2. CASE Len(events) < EventCapacity
    <3>1. events' = Append(events, published + 1) /\ published' = published + 1 /\ frame' = frame
      BY <1>1, <2>2 DEF Publish
    <3> QED
      BY <2>1, <3>1, AppendFacts DEF QueueInv
  <2>3. CASE ~ (Len(events) < EventCapacity)
    <3>1. /\ events' = Append(Tail(events), published + 1)
          /\ published' = published + 1 /\ frame' = frame
      BY <1>1, <2>3 DEF Publish
    <3>2. /\ Len(events) > 0
          /\ Tail(events) \in Seq(Event)
          /\ Len(Tail(events)) = Len(events) - 1
          /\ \A i \in 1 .. Len(events) - 1 : Tail(events)[i] = events[i + 1]
      BY <2>1, <2>3, TailFacts
    <3>3. /\ Len(events') = Len(events)
          /\ \A i \in 1 .. Len(events) - 1 : events'[i] = events[i + 1]
          /\ events'[Len(events)] = published + 1
      BY <2>1, <3>1, <3>2, AppendFacts
    <3>4. ASSUME NEW i \in 1 .. Len(events)
          PROVE  events'[i] = published' - Len(events) + i
      <4>1. CASE i = Len(events)
        BY <2>1, <3>1, <3>3, <4>1
      <4>2. CASE i # Len(events)
        <5>1. i \in 1 .. Len(events) - 1 /\ i + 1 \in 1 .. Len(events)
          BY <2>1, <4>2
        <5>2. events[i + 1] = published - Len(events) + (i + 1)
          BY <5>1 DEF QueueInv
        <5> QED
          BY <2>1, <3>1, <3>3, <5>1, <5>2
      <4> QED
        BY <4>1, <4>2
    <3>5. \A i \in 1 .. Len(events') : events'[i] = published' - Len(events') + i
      BY <3>3, <3>4
    <3>6. Len(events') <= published' /\ frame' <= published' - Len(events')
      BY <2>1, <3>1, <3>3 DEF QueueInv
    <3> QED
      BY <3>5, <3>6 DEF QueueInv
  <2> QED
    BY <2>2, <2>3
<1>2. CASE Receive
  <2>1. /\ events \in Seq(Event) /\ events # <<>> /\ events' = Tail(events)
        /\ frame' = Head(events) /\ published' = published /\ published \in Nat
    BY <1>2 DEF Receive, TypeOK
  <2> QED
    BY <2>1, TailFacts DEF QueueInv
<1>3. CASE ReceiveLagged \/ Lock \/ NextTarget \/ SendToTarget \/ Unlock
  BY <1>3 DEF ReceiveLagged, Lock, NextTarget, SendToTarget, Unlock, QueueInv
<1> QED
  BY <1>1, <1>2, <1>3 DEF Broadcast

\* A round starts with an event, and a send is awaited in a round only.
LEMMA RoundStep ==
    ASSUME TypeOK, RegistryInv, QueueInv, RoundInv, Publish \/ Broadcast
    PROVE  RoundInv'
<1> USE NodeConstants DEF RoundInv, Due
<1>0. peer' = peer
  BY CasterLeavesRegistry
<1>1. CASE Publish
  BY <1>0, <1>1 DEF Publish, TypeOK
<1>2. CASE Receive
  BY <1>0, <1>2 DEF Receive, TypeOK, QueueInv, Event
<1>3. CASE ReceiveLagged
  BY <1>0, <1>3 DEF ReceiveLagged, TypeOK
<1>4. CASE Lock
  <2>1. /\ caster = "locking" /\ caster' = "sending" /\ frame' = frame
        /\ target' = target /\ target = NoSession
        /\ todo' = {registry[p] : p \in Peers} \ {NoSession}
    BY <1>4 DEF Lock
  <2>2. \A t, u \in todo' : peer[t] = peer[u] => t = u
    BY <2>1 DEF RegistryInv
  <2> QED
    BY <1>0, <2>1, <2>2
<1>5. CASE NextTarget
  BY <1>0, <1>5 DEF NextTarget, TypeOK
<1>6. CASE SendToTarget
  BY <1>0, <1>6 DEF SendToTarget, TypeOK
<1>7. CASE Unlock
  BY <1>0, <1>7 DEF Unlock, TypeOK
<1> QED
  BY <1>1, <1>2, <1>3, <1>4, <1>5, <1>6, <1>7 DEF Broadcast

\* The channels hold, and the peers were sent, numbers of events.
LEMMA EventNumbers ==
    ASSUME TypeOK, NEW t \in Sessions
    PROVE  /\ Len(chan[t]) \in Nat /\ DOMAIN chan[t] = 1 .. Len(chan[t])
           /\ Len(written[t]) \in Nat /\ DOMAIN written[t] = 1 .. Len(written[t])
           /\ \A i \in 1 .. Len(chan[t]) : chan[t][i] \in Nat
           /\ \A i \in 1 .. Len(written[t]) : written[t][i] \in Nat
<1>1. chan[t] \in Seq(Event) /\ written[t] \in Seq(Event) /\ Event \subseteq Nat
  BY NodeConstants DEF TypeOK, Event
<1>2. ASSUME NEW q \in Seq(Event)
      PROVE  /\ Len(q) \in Nat /\ DOMAIN q = 1 .. Len(q)
             /\ \A i \in 1 .. Len(q) : q[i] \in Nat
  <2>1. Len(q) \in Nat /\ DOMAIN q = 1 .. Len(q) /\ \A i \in 1 .. Len(q) : q[i] \in Event
    OBVIOUS
  <2> QED
    BY <1>1, <2>1
<1> QED
  BY <1>1, <1>2

\* Apart from Forward, no step of a session's task touches a channel, what was
\* written, or the broadcaster.
LEMMA SessionLeavesEvents ==
    ASSUME NEW s \in Sessions,
           SessionStep(s), ~ Forward(s)
    PROVE  UNCHANGED <<peer, chan, written, casterVars>>
BY DEF SessionStep, Accept, Register, ReadPairing, ReadTransfer, ReadPing, PeerActs, PairingEnds,
       TransferEnds, PongEnds, ForwardEnds, LoopEnds, LoopFails, Remove

\* What Forward does to the two sequences of a session: the channel loses its first
\* element, and what was written gains it or stays as it is.
LEMMA ForwardFacts ==
    ASSUME TypeOK, NEW s \in Sessions, Forward(s)
    PROVE  /\ Len(chan[s]) \in Nat /\ Len(chan[s]) > 0 /\ Len(written[s]) \in Nat
           /\ Len(chan[s]') = Len(chan[s]) - 1
           /\ \A i \in 1 .. Len(chan[s]) - 1 : chan[s]'[i] = chan[s][i + 1]
           /\ \/ written[s]' = written[s]
              \/ /\ Len(written[s]') = Len(written[s]) + 1
                 /\ \A i \in 1 .. Len(written[s]) : written[s]'[i] = written[s][i]
                 /\ written[s]'[Len(written[s]) + 1] = chan[s][1]
           /\ \A t \in Sessions \ {s} : chan[t]' = chan[t] /\ written[t]' = written[t]
<1>1. /\ chan \in [Sessions -> Seq(Event)] /\ written \in [Sessions -> Seq(Event)]
      /\ chan[s] # <<>> /\ chan' = [chan EXCEPT ![s] = Tail(@)]
      /\ \/ written' = written
         \/ written' = [written EXCEPT ![s] = Append(@, Head(chan[s]))]
  BY DEF Forward, TypeOK
<1>2. /\ chan[s] \in Seq(Event) /\ written[s] \in Seq(Event)
      /\ chan[s]' = Tail(chan[s])
      /\ \/ written[s]' = written[s]
         \/ written[s]' = Append(written[s], Head(chan[s]))
  BY <1>1
<1>3. /\ Len(chan[s]) \in Nat /\ Len(chan[s]) > 0
      /\ Head(chan[s]) \in Event /\ Head(chan[s]) = chan[s][1]
      /\ Len(chan[s]') = Len(chan[s]) - 1
      /\ \A i \in 1 .. Len(chan[s]) - 1 : chan[s]'[i] = chan[s][i + 1]
  BY <1>1, <1>2, TailFacts
<1>4. /\ Len(written[s]) \in Nat
      /\ \/ written[s]' = written[s]
         \/ /\ Len(written[s]') = Len(written[s]) + 1
            /\ \A i \in 1 .. Len(written[s]) : written[s]'[i] = written[s][i]
            /\ written[s]'[Len(written[s]) + 1] = chan[s][1]
  BY <1>2, <1>3, AppendFacts
<1>5. \A t \in Sessions \ {s} : chan[t]' = chan[t] /\ written[t]' = written[t]
  BY <1>1
<1> QED
  BY <1>3, <1>4, <1>5

\* So every element was there before, behind the same or in the channel.
LEMMA ForwardKeeps ==
    ASSUME TypeOK, NEW s \in Sessions, Forward(s)
    PROVE  /\ 1 \in 1 .. Len(chan[s])
           /\ \A i \in 1 .. Len(chan[s]') :
                i + 1 \in 2 .. Len(chan[s]) /\ chan[s]'[i] = chan[s][i + 1]
           /\ \A i \in 1 .. Len(written[s]') :
                \/ i \in 1 .. Len(written[s]) /\ written[s]'[i] = written[s][i]
                \/ i = Len(written[s]) + 1 /\ written[s]'[i] = chan[s][1]
BY ForwardFacts

\* What the awaited send adds to the channel of its target: the frame, at the end, or
\* nothing when the session is gone.
LEMMA SendFacts ==
    ASSUME TypeOK, RoundInv, SendToTarget
    PROVE  /\ target \in Sessions /\ frame \in Nat /\ Len(chan[target]) \in Nat
           /\ written' = written
           /\ \A t \in Sessions \ {target} : chan'[t] = chan[t]
           /\ \/ chan' = chan
              \/ /\ Len(chan'[target]) = Len(chan[target]) + 1
                 /\ \A i \in 1 .. Len(chan[target]) : chan'[target][i] = chan[target][i]
                 /\ chan'[target][Len(chan[target]) + 1] = frame
<1>1. /\ chan \in [Sessions -> Seq(Event)] /\ target \in Sessions /\ frame \in Event
      /\ frame \in Nat /\ written' = written
      /\ chan' = chan \/ chan' = [chan EXCEPT ![target] = Append(@, frame)]
  BY NodeConstants DEF SendToTarget, TypeOK, RoundInv, Event
<1>2. chan[target] \in Seq(Event)
  BY <1>1
<1>3. /\ \A t \in Sessions \ {target} : chan'[t] = chan[t]
      /\ chan' = chan \/ chan'[target] = Append(chan[target], frame)
  BY <1>1
<1>4. /\ Len(chan[target]) \in Nat
      /\ Len(Append(chan[target], frame)) = Len(chan[target]) + 1
      /\ \A i \in 1 .. Len(chan[target]) : Append(chan[target], frame)[i] = chan[target][i]
      /\ Append(chan[target], frame)[Len(chan[target]) + 1] = frame
  BY <1>1, <1>2, AppendFacts
<1> QED
  BY <1>1, <1>3, <1>4

\* No channel and no peer is ahead of the broadcaster (recv, lock and send in the
\* order of node.rs:117-123).
LEMMA OldStep ==
    ASSUME TypeOK, QueueInv, RoundInv, OldInv, Publish \/ Broadcast
    PROVE  OldInv'
<1> USE DEF OldInv, Expecting, Due
<1>0. /\ frame \in Nat
      /\ \A t \in Sessions : \A i \in 1 .. Len(chan[t]) : chan[t][i] \in Nat
      /\ \A t \in Sessions : \A i \in 1 .. Len(written[t]) : written[t][i] \in Nat
  BY NodeConstants, EventNumbers DEF TypeOK
<1>p. peer' = peer
  BY CasterLeavesRegistry
<1>1. CASE Publish
  BY <1>p, <1>1 DEF Publish, sessionVars
<1>2. CASE Receive
  <2>1. /\ events \in Seq(Event) /\ events # <<>> /\ frame' = Head(events) /\ published \in Nat
        /\ caster' = "locking" /\ chan' = chan /\ written' = written
    BY <1>2 DEF Receive, TypeOK, sessionVars
  <2>2. Len(events) \in Nat /\ Len(events) > 0 /\ Head(events) = events[1]
    BY <2>1, TailFacts
  <2>3. frame' \in Nat /\ frame < frame'
    BY <1>0, <2>1, <2>2 DEF QueueInv
  <2> QED
    BY <1>0, <2>1, <2>3
<1>3. CASE ReceiveLagged
  BY <1>p, <1>3 DEF ReceiveLagged, sessionVars
<1>4. CASE Lock
  BY <1>p, <1>4 DEF Lock, sessionVars
<1>5. CASE NextTarget
  <2>1. /\ UNCHANGED <<chan, written, frame, caster>> /\ target = NoSession
        /\ target' \in todo /\ todo' \subseteq todo
    BY <1>5 DEF NextTarget, sessionVars
  <2>2. Due' \subseteq Due
    BY <2>1
  <2> QED
    BY <1>p, <2>1, <2>2
<1>6. CASE SendToTarget
  <2>1. /\ frame' = frame /\ caster' = caster /\ caster = "sending" /\ todo' = todo
        /\ target' = NoSession /\ target \notin todo
    BY <1>6 DEF SendToTarget, RoundInv
  <2> SUFFICES ASSUME NEW s \in Sessions
               PROVE  /\ \A i \in 1 .. Len(written'[s]) : written'[s][i] <= frame'
                      /\ \A i \in 1 .. Len(chan'[s]) : chan'[s][i] <= frame'
                      /\ Expecting(s)' =>
                           /\ \A i \in 1 .. Len(written'[s]) : written'[s][i] < frame'
                           /\ \A i \in 1 .. Len(chan'[s]) : chan'[s][i] < frame'
    OBVIOUS
  <2>2. written'[s] = written[s] /\ (s # target => chan'[s] = chan[s])
    BY <1>6, SendFacts
  <2>3. Due' \subseteq Due \ {target}
    BY <2>1, NodeConstants
  <2>4. CASE peer[s] # peer[target]
    BY <1>p, <2>1, <2>2, <2>3, <2>4
  <2>5. CASE peer[s] = peer[target]
    <3>0. target \in Due
      BY <1>6, SendFacts
    <3>1. ~ Expecting(s)'
      BY <1>p, <2>1, <2>3, <2>5, <3>0 DEF RoundInv
    <3>2. \A i \in 1 .. Len(chan'[s]) : chan'[s][i] <= frame
      BY <1>0, <1>6, <2>2, SendFacts
    <3> QED
      BY <2>1, <2>2, <3>1, <3>2
  <2> QED
    BY <2>4, <2>5
<1>7. CASE Unlock
  BY <1>p, <1>7 DEF Unlock, sessionVars
<1> QED
  BY <1>1, <1>2, <1>3, <1>4, <1>5, <1>6, <1>7 DEF Broadcast

\* Forward leaves no element newer than the ones that were there.
LEMMA OldForward ==
    ASSUME TypeOK, OldInv, NEW s \in Sessions, Forward(s)
    PROVE  OldInv'
<1>1. UNCHANGED <<peer, caster, frame, todo, target>>
  BY DEF Forward, casterVars
<1> SUFFICES ASSUME NEW t \in Sessions
             PROVE  /\ \A i \in 1 .. Len(written[t]') : written[t]'[i] <= frame
                    /\ \A i \in 1 .. Len(chan[t]') : chan[t]'[i] <= frame
                    /\ Expecting(t) =>
                         /\ \A i \in 1 .. Len(written[t]') : written[t]'[i] < frame
                         /\ \A i \in 1 .. Len(chan[t]') : chan[t]'[i] < frame
  BY <1>1 DEF OldInv, Expecting, Due
<1>2. CASE t # s
  BY <1>2, ForwardFacts DEF OldInv
<1>3. CASE t = s
  <2>1. \A i \in 1 .. Len(chan[s]') : \E j \in 1 .. Len(chan[s]) : chan[s]'[i] = chan[s][j]
    BY ForwardFacts, ForwardKeeps
  <2>2. \A i \in 1 .. Len(written[s]') :
          \/ \E j \in 1 .. Len(written[s]) : written[s]'[i] = written[s][j]
          \/ \E j \in 1 .. Len(chan[s]) : written[s]'[i] = chan[s][j]
    BY ForwardKeeps
  <2> QED
    BY <1>3, <2>1, <2>2 DEF OldInv
<1> QED
  BY <1>2, <1>3

\* The frame of a round goes behind older ones only, and Forward takes them in order.
LEMMA OrderSend ==
    ASSUME TypeOK, RoundInv, OldInv, OrderInv, SendToTarget
    PROVE  OrderInv'
<1>1. caster = "sending"
  BY DEF SendToTarget
<1>2. /\ target \in Sessions
      /\ \A i \in 1 .. Len(written[target]) : written[target][i] < frame
      /\ \A i \in 1 .. Len(chan[target]) : chan[target][i] < frame
  BY <1>1, SendFacts DEF OldInv, Expecting, Due
<1> SUFFICES ASSUME NEW t \in Sessions
             PROVE  /\ StrictlyIncreasing(written'[t])
                    /\ StrictlyIncreasing(chan'[t])
                    /\ \A i \in 1 .. Len(written'[t]), j \in 1 .. Len(chan'[t]) :
                         written'[t][i] < chan'[t][j]
  BY DEF OrderInv
<1>3. CASE t # target \/ chan' = chan
  <2>1. chan'[t] = chan[t] /\ written'[t] = written[t]
    BY <1>3, SendFacts
  <2> QED
    BY <2>1 DEF OrderInv
<1>4. CASE t = target /\ chan' # chan
  <2>1. /\ Len(chan[t]) \in Nat /\ written'[t] = written[t]
        /\ Len(chan'[t]) = Len(chan[t]) + 1
        /\ \A i \in 1 .. Len(chan[t]) : chan'[t][i] = chan[t][i]
        /\ chan'[t][Len(chan[t]) + 1] = frame
    BY <1>4, SendFacts
  <2>2. DOMAIN chan'[t] = 1 .. Len(chan'[t]) /\ DOMAIN chan[t] = 1 .. Len(chan[t])
    BY <1>4, CasterTypes DEF TypeOK, Broadcast
  <2>3. StrictlyIncreasing(chan'[t])
    BY <1>2, <1>4, <2>1, <2>2 DEF StrictlyIncreasing, OrderInv
  <2>4. \A i \in 1 .. Len(written'[t]), j \in 1 .. Len(chan'[t]) : written'[t][i] < chan'[t][j]
    <3> SUFFICES ASSUME NEW i \in 1 .. Len(written[t]), NEW j \in 1 .. Len(chan'[t])
                 PROVE  written[t][i] < chan'[t][j]
      BY <2>1
    <3>1. CASE j = Len(chan[t]) + 1
      BY <1>2, <1>4, <2>1, <3>1
    <3>2. CASE j \in 1 .. Len(chan[t])
      BY <2>1, <3>2 DEF OrderInv
    <3> QED
      BY <2>1, <3>1, <3>2
  <2> QED
    BY <2>1, <2>3, <2>4 DEF OrderInv
<1> QED
  BY <1>3, <1>4

\* Forward moves the oldest element of the channel behind what was written, or drops it.
LEMMA OrderForward ==
    ASSUME TypeOK, TypeOK', OrderInv, NEW s \in Sessions, Forward(s)
    PROVE  OrderInv'
<1> SUFFICES ASSUME NEW t \in Sessions
             PROVE  /\ StrictlyIncreasing(written[t]')
                    /\ StrictlyIncreasing(chan[t]')
                    /\ \A i \in 1 .. Len(written[t]'), j \in 1 .. Len(chan[t]') :
                         written[t]'[i] < chan[t]'[j]
  BY DEF OrderInv
<1>1. CASE t # s
  BY <1>1, ForwardFacts DEF OrderInv
<1>2. CASE t = s
  <2>1. /\ DOMAIN chan[s] = 1 .. Len(chan[s]) /\ DOMAIN written[s] = 1 .. Len(written[s])
        /\ Len(chan[s]) \in Nat /\ Len(written[s]) \in Nat
    BY EventNumbers
  <2>2. DOMAIN (chan[s]') = 1 .. Len(chan[s]') /\ DOMAIN (written[s]') = 1 .. Len(written[s]')
    BY DEF TypeOK
  <2>3. /\ \A i, j \in 1 .. Len(written[s]) : i < j => written[s][i] < written[s][j]
        /\ \A i, j \in 1 .. Len(chan[s]) : i < j => chan[s][i] < chan[s][j]
        /\ \A i \in 1 .. Len(written[s]), j \in 1 .. Len(chan[s]) : written[s][i] < chan[s][j]
    BY <2>1 DEF OrderInv, StrictlyIncreasing
  <2>4. StrictlyIncreasing(written[s]')
    <3> SUFFICES ASSUME NEW i \in 1 .. Len(written[s]'), NEW j \in 1 .. Len(written[s]'), i < j
                 PROVE  written[s]'[i] < written[s]'[j]
      BY <2>2 DEF StrictlyIncreasing
    <3>1. i \in 1 .. Len(written[s]) /\ written[s]'[i] = written[s][i]
      <4>1. j \in 1 .. Len(written[s]) + 1
        BY <2>1, ForwardKeeps
      <4>2. i # Len(written[s]) + 1
        BY <2>1, <4>1
      <4> QED
        BY <4>2, ForwardKeeps
    <3>2. CASE j \in 1 .. Len(written[s]) /\ written[s]'[j] = written[s][j]
      BY <2>3, <3>1, <3>2
    <3>3. CASE written[s]'[j] = chan[s][1]
      BY <2>3, <3>1, <3>3, ForwardKeeps
    <3> QED
      BY <3>2, <3>3, ForwardKeeps
  <2>5. StrictlyIncreasing(chan[s]')
    <3> SUFFICES ASSUME NEW i \in 1 .. Len(chan[s]'), NEW j \in 1 .. Len(chan[s]'), i < j
                 PROVE  chan[s]'[i] < chan[s]'[j]
      BY <2>2 DEF StrictlyIncreasing
    <3>1. i + 1 \in 1 .. Len(chan[s]) /\ j + 1 \in 1 .. Len(chan[s]) /\ i + 1 < j + 1
      BY <2>1, ForwardKeeps
    <3>2. chan[s]'[i] = chan[s][i + 1] /\ chan[s]'[j] = chan[s][j + 1]
      BY ForwardKeeps
    <3> QED
      BY <2>3, <3>1, <3>2
  <2>6. ASSUME NEW i \in 1 .. Len(written[s]'), NEW j \in 1 .. Len(chan[s]')
        PROVE  written[s]'[i] < chan[s]'[j]
    <3>1. /\ 1 \in 1 .. Len(chan[s]) /\ j + 1 \in 1 .. Len(chan[s]) /\ 1 < j + 1
          /\ chan[s]'[j] = chan[s][j + 1]
      BY <2>1, ForwardKeeps
    <3>2. chan[s][1] < chan[s]'[j]
      BY <2>3, <3>1
    <3>3. i \in 1 .. Len(written[s]) => written[s][i] < chan[s]'[j]
      BY <2>3, <3>1
    <3> QED
      BY <3>2, <3>3, ForwardKeeps
  <2> QED
    BY <1>2, <2>4, <2>5, <2>6
<1> QED
  BY <1>1, <1>2

\* What reached a session was written or waits in its channel.
LEMMA GotFacts ==
    ASSUME TypeOK, NEW s \in Sessions, NEW x
    PROVE  x \in Got(s) <=> \/ \E i \in 1 .. Len(written[s]) : x = written[s][i]
                           \/ \E i \in 1 .. Len(chan[s]) : x = chan[s][i]
BY EventNumbers DEF Got

\* A step that brings no event to a session brings none to a peer twice.
LEMMA OnceStays ==
    ASSUME OnceInv, peer' = peer, \A s \in Sessions : Got(s)' \subseteq Got(s)
    PROVE  OnceInv'
BY Zenon DEF OnceInv

\* Forward moves an event from the channel to what was written, or drops it.
LEMMA OnceForward ==
    ASSUME TypeOK, TypeOK', OnceInv, NEW s \in Sessions, Forward(s)
    PROVE  OnceInv'
<1>1. peer' = peer
  BY DEF Forward
<1>2. ASSUME NEW t \in Sessions, NEW x \in Got(t)'
      PROVE  x \in Got(t)
  <2>1. \/ \E i \in 1 .. Len(written[t]') : x = written[t]'[i]
        \/ \E i \in 1 .. Len(chan[t]') : x = chan[t]'[i]
    <3>1. DOMAIN (written[t]') = 1 .. Len(written[t]') /\ DOMAIN (chan[t]') = 1 .. Len(chan[t]')
      BY DEF TypeOK
    <3> QED
      BY <1>2, <3>1, Zenon DEF Got
  <2>2. CASE t # s
    BY <2>1, <2>2, ForwardFacts, GotFacts
  <2>3. CASE t = s
    <3>1. ASSUME NEW i \in 1 .. Len(written[s]'), x = written[s]'[i]
          PROVE  x \in Got(s)
      BY <3>1, ForwardKeeps, GotFacts
    <3>2. ASSUME NEW i \in 1 .. Len(chan[s]'), x = chan[s]'[i]
          PROVE  x \in Got(s)
      <4>1. i + 1 \in 1 .. Len(chan[s]) /\ x = chan[s][i + 1]
        BY <3>2, ForwardFacts, ForwardKeeps
      <4> QED
        BY <4>1, GotFacts
    <3> QED
      BY <2>1, <2>3, <3>1, <3>2
  <2> QED
    BY <2>2, <2>3
<1> QED
  BY <1>1, <1>2, OnceStays

\* The frame of a round goes to one channel of a peer, and no other connection of that
\* peer has got it (the registry has one entry for a peer, node.rs:118-122).
LEMMA OnceSend ==
    ASSUME TypeOK, TypeOK', RoundInv, OldInv, OnceInv, SendToTarget
    PROVE  OnceInv'
<1>1. peer' = peer /\ target \in Sessions
  BY CasterLeavesRegistry, SendFacts DEF Broadcast
<1>2. ASSUME NEW t \in Sessions, NEW x \in Got(t)'
      PROVE  x \in Got(t) \/ (t = target /\ x = frame)
  <2>1. \/ \E i \in 1 .. Len(written'[t]) : x = written'[t][i]
        \/ \E i \in 1 .. Len(chan'[t]) : x = chan'[t][i]
    <3>1. DOMAIN written'[t] = 1 .. Len(written'[t]) /\ DOMAIN chan'[t] = 1 .. Len(chan'[t])
      BY DEF TypeOK
    <3> QED
      BY <1>2, <3>1, Zenon DEF Got
  <2>2. CASE t # target \/ chan' = chan
    BY <2>1, <2>2, SendFacts, GotFacts
  <2>3. CASE t = target /\ chan' # chan
    <3>1. ASSUME NEW i \in 1 .. Len(chan'[t]), x = chan'[t][i]
          PROVE  x = frame \/ x \in Got(t)
      <4>1. i = Len(chan[t]) + 1 \/ i \in 1 .. Len(chan[t])
        BY <2>3, <3>1, SendFacts
      <4> QED
        BY <2>3, <3>1, <4>1, SendFacts, GotFacts
    <3>2. ASSUME NEW i \in 1 .. Len(written'[t]), x = written'[t][i]
          PROVE  x \in Got(t)
      BY <3>2, SendFacts, GotFacts
    <3> QED
      BY <2>1, <2>3, <3>1, <3>2
  <2> QED
    BY <2>2, <2>3
<1>3. ASSUME NEW t \in Sessions, peer[t] = peer[target]
      PROVE  frame \notin Got(t)
  <2>1. Expecting(t)
    BY <1>1, <1>3 DEF Expecting, Due, SendToTarget
  <2>2. /\ \A i \in 1 .. Len(written[t]) : written[t][i] < frame /\ written[t][i] \in Nat
        /\ \A i \in 1 .. Len(chan[t]) : chan[t][i] < frame /\ chan[t][i] \in Nat
    BY <2>1, EventNumbers DEF OldInv
  <2>3. frame \in Nat
    BY SendFacts
  <2> QED
    BY <2>2, <2>3, GotFacts
<1> SUFFICES ASSUME NEW s \in Sessions, NEW t \in Sessions, s # t, peer[s] = peer[t],
                    NEW x \in Got(s)', x \in Got(t)'
             PROVE  FALSE
  BY <1>1, Zenon DEF OnceInv
<1>4. x \notin Got(s) \/ x \notin Got(t)
  BY Zenon DEF OnceInv
<1> QED
  BY <1>2, <1>3, <1>4, Zenon

-----------------------------------------------------------------------------
(***************************************************************************)
(* The invariant and what follows from it.                                 *)
(***************************************************************************)

\* A node that has just started satisfies the invariant.
LEMMA InvInit == Init => Inv
<1> SUFFICES ASSUME Init
             PROVE  Inv
  OBVIOUS
<1>1. TypeOK
  <2>1. /\ pc \in [Sessions -> Control] /\ trusted \in [Sessions -> BOOLEAN]
        /\ lagged \in BOOLEAN
    BY Zenon DEF Init, Control
  <2>2. /\ chan \in [Sessions -> Seq(Event)] /\ written \in [Sessions -> Seq(Event)]
        /\ waiters \in Seq(Sessions \cup {Broadcaster}) /\ events \in Seq(Event)
        /\ frame \in 0..MaxEvents /\ published \in 0..MaxEvents
    BY NodeConstants DEF Init
  <2>3. /\ \A s \in Sessions : Len(chan[s]) <= ChannelCapacity
        /\ Len(events) <= EventCapacity
    BY NodeConstants DEF Init
  <2> QED
    BY <2>1, <2>2, <2>3 DEF Init, TypeOK
<1>2. RegistryInv /\ ReachInv
  BY DEF Init, RegistryInv, ReachInv, Writing
<1>3. RoundInv
  BY NodeConstants DEF Init, RoundInv, Due
<1>4. QueueInv /\ OldInv /\ OrderInv
  BY DEF Init, QueueInv, OldInv, OrderInv, StrictlyIncreasing
<1>5. OnceInv
  <2>1. \A s \in Sessions : DOMAIN written[s] = {} /\ DOMAIN chan[s] = {}
    <3>1. \A s \in Sessions : written[s] = <<>> /\ chan[s] = <<>>
      BY DEF Init
    <3>2. DOMAIN <<>> = {}
      OBVIOUS
    <3> QED
      BY <3>1, <3>2
  <2>2. \A s \in Sessions : Got(s) = {}
    BY <2>1, Zenon DEF Got
  <2> QED
    BY <2>2, Zenon DEF OnceInv
<1> QED
  BY <1>1, <1>2, <1>3, <1>4, <1>5 DEF Inv

\* Every step of a node preserves it.
LEMMA InvStep == Inv /\ [Next]_vars => Inv'
<1> SUFFICES ASSUME Inv, [Next]_vars
             PROVE  Inv'
  OBVIOUS
<1> USE DEF Inv
<1>1. CASE Publish \/ Broadcast
  <2>1. TypeOK' /\ QueueInv' /\ RoundInv' /\ OldInv'
    BY <1>1, CasterTypes, QueueStep, RoundStep, OldStep
  <2>2. RegistryInv' /\ ReachInv'
    BY <1>1, CasterLeavesRegistry DEF RegistryInv, ReachInv
  <2>3. OrderInv' /\ OnceInv'
    <3>1. CASE SendToTarget
      BY <2>1, <3>1, OrderSend, OnceSend
    <3>2. CASE ~ SendToTarget
      <4>1. UNCHANGED <<chan, written, peer>>
        BY <1>1, <3>2 DEF Publish, Broadcast, Receive, ReceiveLagged, Lock, NextTarget, Unlock,
                          sessionVars
      <4> QED
        BY <4>1, OnceStays DEF OrderInv, Got
    <3> QED
      BY <3>1, <3>2
  <2> QED
    BY <2>1, <2>2, <2>3
<1>2. ASSUME NEW s \in Sessions, SessionStep(s)
      PROVE  Inv'
  <2>1. TypeOK' /\ RegistryInv' /\ ReachInv'
    BY <1>2, SessionTypes, RegistryStep, ReachStep
  <2>2. CASE Forward(s)
    <3>1. QueueInv' /\ RoundInv'
      BY <2>2 DEF Forward, casterVars, QueueInv, RoundInv, Due
    <3> QED
      BY <2>1, <2>2, <3>1, OldForward, OrderForward, OnceForward
  <2>3. CASE ~ Forward(s)
    <3>1. UNCHANGED <<peer, chan, written, casterVars>>
      BY <1>2, <2>3, SessionLeavesEvents
    <3>2. QueueInv' /\ RoundInv' /\ OldInv'
      BY <3>1 DEF casterVars, QueueInv, RoundInv, OldInv, Expecting, Due
    <3>3. OrderInv' /\ OnceInv'
      BY <3>1, OnceStays DEF OrderInv, Got
    <3> QED
      BY <2>1, <3>2, <3>3
  <2> QED
    BY <2>2, <2>3
<1>3. CASE UNCHANGED vars
  <2>1. TypeOK' /\ RegistryInv' /\ ReachInv' /\ QueueInv'
    BY <1>3 DEF vars, TypeOK, RegistryInv, ReachInv, QueueInv
  <2>2. RoundInv' /\ OldInv'
    BY <1>3 DEF vars, RoundInv, OldInv, Expecting, Due
  <2>3. OrderInv' /\ OnceInv'
    BY <1>3, OnceStays DEF vars, OrderInv, Got
  <2> QED
    BY <2>1, <2>2, <2>3
<1> QED
  BY <1>1, <1>2, <1>3 DEF Next

\* The invariant holds in every state of a node.
THEOREM NodeInvariant == Spec => []Inv
BY InvInit, InvStep, PTL DEF Spec

\* Every variable of a node keeps its type, and no channel holds more than its capacity
\* (mpsc::channel(32) of handle_connection and the engine's broadcast channel).
THEOREM NodeTypeCorrect == Spec => []TypeOK
<1>1. Inv => TypeOK
  BY DEF Inv
<1> QED
  BY <1>1, NodeInvariant, PTL

\* No connection that ended in order leaves an entry in active_sessions, for any number
\* of connections of any peers: handle_connection removes by peer, and an entry of
\* that peer is the only one that can be its own.
THEOREM ClosedLeavesNoEntry == Spec => []NoDanglingEntry
<1>1. Inv => NoDanglingEntry
  BY DEF Inv, RegistryInv, NoDanglingEntry
<1> QED
  BY <1>1, NodeInvariant, PTL

\* While a trusted session is in its loop the broadcaster reaches its peer, or another
\* connection of that peer ended in order, or holds the entry and is leaving, has failed
\* or has lost its trust: for any number of connections of any peers, whatever
\* ceremonies, transfers, writes and failures they go through.
THEOREM TrustedPeerReachable == Spec => []TrustedPeerRegistered
<1>1. Inv => TrustedPeerRegistered
  <2> SUFFICES ASSUME Inv, NEW s \in Sessions, pc[s] = "loop", trusted[s],
                      \A t \in Sessions \ {s} : peer[t] = peer[s] => pc[t] # "closed"
               PROVE  \/ Reaches(registry[peer[s]])
                      \/ \E t \in Sessions \ {s} : /\ peer[t] = peer[s]
                                                  /\ registry[peer[s]] = t /\ ~ Reaches(t)
    BY DEF TrustedPeerRegistered
  <2>1. registry[peer[s]] # NoSession /\ peer[s] \in Peers
    BY DEF Inv, TypeOK, ReachInv
  <2>2. registry[peer[s]] \in Sessions /\ peer[registry[peer[s]]] = peer[s]
    BY <2>1 DEF Inv, TypeOK, RegistryInv
  <2>3. Reaches(s)
    BY NodeConstants DEF Reaches, Gone
  <2> QED
    BY <2>2, <2>3
<1> QED
  BY <1>1, NodeInvariant, PTL

\* Every connection writes clipboard events in the order in which they were published,
\* and no two connections of a peer get the same one, for channels of any capacity, with
\* events lost to a lagging broadcaster and rounds that are held up.
THEOREM EventsStayInOrder == Spec => []EventsInOrder
<1>1. Inv => EventsInOrder
  <2> SUFFICES ASSUME Inv, NEW s \in Sessions
               PROVE  StrictlyIncreasing(written[s] \o chan[s])
    BY DEF EventsInOrder, Inv, OnceInv
  <2> DEFINE w == written[s]
             c == chan[s]
  <2>1. /\ w \in Seq(Event) /\ c \in Seq(Event)
        /\ Len(w) \in Nat /\ Len(c) \in Nat
        /\ DOMAIN w = 1 .. Len(w) /\ DOMAIN c = 1 .. Len(c)
    BY DEF Inv, TypeOK
  <2>2. /\ \A i, j \in 1 .. Len(w) : i < j => w[i] < w[j]
        /\ \A i, j \in 1 .. Len(c) : i < j => c[i] < c[j]
        /\ \A i \in 1 .. Len(w), j \in 1 .. Len(c) : w[i] < c[j]
    BY <2>1 DEF Inv, OrderInv, StrictlyIncreasing
  <2> HIDE DEF w, c
  <2>3. /\ DOMAIN (w \o c) = 1 .. Len(w) + Len(c)
        /\ \A i \in 1 .. Len(w) + Len(c) :
             (w \o c)[i] = IF i <= Len(w) THEN w[i] ELSE c[i - Len(w)]
    BY <2>1
  <2>4. ASSUME NEW i \in 1 .. Len(w) + Len(c), NEW j \in 1 .. Len(w) + Len(c), i < j
        PROVE  (w \o c)[i] < (w \o c)[j]
    <3>1. CASE j <= Len(w)
      BY <2>1, <2>2, <2>3, <2>4, <3>1
    <3>2. CASE i <= Len(w) /\ j > Len(w)
      <4>1. j - Len(w) \in 1 .. Len(c) /\ i \in 1 .. Len(w)
        BY <2>1, <2>4, <3>2
      <4> QED
        BY <2>1, <2>2, <2>3, <3>2, <4>1
    <3>3. CASE i > Len(w)
      <4>1. i - Len(w) \in 1 .. Len(c) /\ j - Len(w) \in 1 .. Len(c) /\ i - Len(w) < j - Len(w)
        BY <2>1, <2>4, <3>3
      <4> QED
        BY <2>1, <2>2, <2>3, <2>4, <3>3, <4>1
    <3> QED
      BY <2>1, <2>4, <3>1, <3>2, <3>3
  <2> QED
    BY <2>3, <2>4 DEF StrictlyIncreasing, w, c
<1> QED
  BY <1>1, NodeInvariant, PTL
=============================================================================
