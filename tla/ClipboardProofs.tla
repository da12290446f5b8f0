-------------------------- MODULE ClipboardProofs ---------------------------
(***************************************************************************)
(* Proofs about clipboard synchronisation, for any number of nodes, any    *)
(* contents and backends, any capacities of guard and channel and any      *)
(* number of copies and restarts: types are kept, no node echoes what it   *)
(* was sent unless its backend converted it, the sequence check drops      *)
(* nothing that is new, and new, plain copies of one user arrive at every  *)
(* node.                                                                   *)
(***************************************************************************)
EXTENDS Clipboard, Integers, TLAPS

\* Leaves that need arithmetic, tuples or sequences name SMT.
USE Zenon

(***************************************************************************)
(* The inductive invariant.                                                *)
(***************************************************************************)

\* The listener is told of a change only when there is something to read.
ClipInv == \A n \in Nodes : updates[n] > 0 => clip[n] # None

\* What a node may send: what its user copied, and what its backend converted.
Sendable(n) == Own(n) \cup converted[n]

\* Whatever of a peer is still on its way through the node is known to the guard.
Guarded(n) ==
    ~ evicted[n] =>
        /\ updates[n] > 0 => clip[n] \in copied[n] \cup Seen(n)
        /\ \A i \in 1 .. Len(queue[n]) : queue[n][i] \in Sendable(n) \cup Seen(n)
        /\ handling[n] \in Sendable(n) \cup {None}
        /\ \A m \in Nodes : applying[n][m] \in Seen(n) \cup {None}
        /\ sent[n] \subseteq Seen(n) /\ handling[n] \notin sent[n]

EchoInv == \A n \in Nodes : Guarded(n)

\* What is in the streams of a node.
CleanInv ==
    \A n \in Nodes : ~ evicted[n] =>
        \A m \in Nodes \ {n} : \A i \in 1 .. Len(link[<<n, m>>]) :
            link[<<n, m>>][i].content \in Sendable(n)

\* Sequence numbers rise from what the receiver has seen, along the stream, to the
\* sender's counter.
Rising(q, low, high) ==
    /\ low < high
    /\ \A i \in 1 .. Len(q) : low < q[i].sequence /\ q[i].sequence < high
    /\ \A i, j \in 1 .. Len(q) : i < j => q[i].sequence < q[j].sequence

SeqInv ==
    restarts = 0 =>
        \A m \in Nodes : \A n \in Nodes \ {m} :
            Rising(link[<<m, n>>], sequences[n][m], sequence[m])

Inv == TypeOK /\ ClipInv /\ EchoInv /\ CleanInv /\ SeqInv

-----------------------------------------------------------------------------
(***************************************************************************)
(* Sequences and the guard.                                                *)
(***************************************************************************)

\* Taking the first element, as recv does.
LEMMA Taken ==
    ASSUME NEW S, NEW q \in Seq(S), q # <<>>
    PROVE  /\ Len(q) \in Nat /\ Len(q) > 0 /\ Tail(q) \in Seq(S) /\ Tail(q) # q
           /\ Head(q) \in S /\ Head(q) = q[1]
           /\ Len(Tail(q)) = Len(q) - 1
           /\ \A i \in 1 .. Len(Tail(q)) : i + 1 \in 1 .. Len(q) /\ Tail(q)[i] = q[i + 1]
BY SMT

\* Adding an element at the end, as send does.
LEMMA Added ==
    ASSUME NEW S, NEW q \in Seq(S), NEW x \in S
    PROVE  /\ Len(q) \in Nat /\ Append(q, x) \in Seq(S)
           /\ Len(Append(q, x)) = Len(q) + 1
           /\ \A i \in 1 .. Len(q) + 1 : Append(q, x)[i] = IF i <= Len(q) THEN q[i] ELSE x
BY SMT

\* A bounded channel or history that drops its oldest element when it is full.
LEMMA Shifted ==
    ASSUME NEW S, NEW q \in Seq(S), NEW x \in S, NEW cap \in Nat \ {0}, Len(q) <= cap
    PROVE  LET r == Append(IF Len(q) >= cap THEN Tail(q) ELSE q, x)
           IN  /\ r \in Seq(S) /\ Len(r) <= cap
               /\ \A i \in 1 .. Len(r) : r[i] = x \/ \E j \in 1 .. Len(q) : r[i] = q[j]
<1> DEFINE t == IF Len(q) >= cap THEN Tail(q) ELSE q
<1>1. Len(q) >= cap => q # <<>>
  BY SMT
<1>2. /\ t \in Seq(S) /\ Len(t) < cap
      /\ \A i \in 1 .. Len(t) : \E j \in 1 .. Len(q) : t[i] = q[j]
  <2>1. CASE Len(q) >= cap
    BY <1>1, <2>1, Taken, SMT
  <2>2. CASE ~ (Len(q) >= cap)
    BY <2>2, SMT
  <2> QED
    BY <2>1, <2>2
<1> HIDE DEF t
<1>3. /\ Append(t, x) \in Seq(S) /\ Len(Append(t, x)) = Len(t) + 1 /\ Len(t) \in Nat
      /\ \A i \in 1 .. Len(t) + 1 : Append(t, x)[i] = IF i <= Len(t) THEN t[i] ELSE x
  BY <1>2, Added, ZenonT(30)
<1>4. Len(Append(t, x)) <= cap
  BY <1>2, <1>3, SMT
<1>5. \A i \in 1 .. Len(Append(t, x)) : Append(t, x)[i] = x \/ \E j \in 1 .. Len(q) : Append(t, x)[i] = q[j]
  BY <1>2, <1>3, SMT
<1> QED
  BY <1>3, <1>4, <1>5 DEF t

\* push_hash keeps the history's type and bound, and touches one node's guard.
LEMMA PushTypes ==
    ASSUME TypeOK, NEW n \in Nodes, NEW c \in Contents, push_hash(n, c)
    PROVE  /\ history' \in [Nodes -> Seq(Contents)] /\ evicted' \in [Nodes -> BOOLEAN]
           /\ \A o \in Nodes : Len(history'[o]) <= Capacity
           /\ \A o \in Nodes \ {n} : history'[o] = history[o] /\ evicted'[o] = evicted[o]
<1>1. /\ history \in [Nodes -> Seq(Contents)] /\ evicted \in [Nodes -> BOOLEAN]
      /\ \A o \in Nodes : Len(history[o]) <= Capacity
      /\ Capacity \in Nat \ {0}
  BY ClipboardConstants DEF TypeOK
<1>2. CASE should_suppress(n, c)
  BY <1>1, <1>2 DEF push_hash
<1>3. CASE ~ should_suppress(n, c)
  <2> DEFINE full == Len(history[n]) >= Capacity
             r == Append(IF full THEN Tail(history[n]) ELSE history[n], c)
  <2>1. /\ history' = [history EXCEPT ![n] = r]
        /\ evicted' = [evicted EXCEPT ![n] = evicted[n] \/ full]
    BY <1>3 DEF push_hash
  <2>2. r \in Seq(Contents) /\ Len(r) <= Capacity
    BY <1>1, Shifted
  <2> HIDE DEF r
  <2>3. history' \in [Nodes -> Seq(Contents)] /\ \A o \in Nodes : Len(history'[o]) <= Capacity
    BY <1>1, <2>1, <2>2
  <2>4. evicted' \in [Nodes -> BOOLEAN]
    BY <1>1, <2>1
  <2> QED
    BY <1>1, <2>1, <2>3, <2>4
<1> QED
  BY <1>2, <1>3

\* Until it forgets, the guard knows what it knew, and the content it was given.
LEMMA PushKnows ==
    ASSUME TypeOK, NEW n \in Nodes, NEW c \in Contents, push_hash(n, c), ~ evicted'[n]
    PROVE  ~ evicted[n] /\ Seen(n) \subseteq Seen(n)' /\ c \in Seen(n)'
<1>1. /\ history \in [Nodes -> Seq(Contents)] /\ evicted \in [Nodes -> BOOLEAN]
  BY DEF TypeOK
<1>2. CASE should_suppress(n, c)
  BY <1>2 DEF push_hash, should_suppress, Seen
<1>3. CASE ~ should_suppress(n, c)
  <2>1. evicted'[n] = (evicted[n] \/ Len(history[n]) >= Capacity)
    BY <1>1, <1>3 DEF push_hash
  <2>2. ~ evicted[n] /\ ~ (Len(history[n]) >= Capacity)
    BY <2>1
  <2>3. history'[n] = Append(history[n], c)
    BY <1>1, <1>3, <2>2 DEF push_hash
  <2>4. /\ Len(history[n]) \in Nat /\ Len(history'[n]) = Len(history[n]) + 1
        /\ \A i \in 1 .. Len(history[n]) + 1 :
             history'[n][i] = IF i <= Len(history[n]) THEN history[n][i] ELSE c
    BY <1>1, <2>3, Added, SMT
  <2>5. Seen(n) \subseteq Seen(n)'
    BY <2>4, SMT DEF Seen
  <2>6. c \in Seen(n)'
    BY <2>4, SMT DEF Seen
  <2> QED
    BY <2>2, <2>5, <2>6
<1> QED
  BY <1>2, <1>3

-----------------------------------------------------------------------------
(***************************************************************************)
(* Type correctness.                                                       *)
(***************************************************************************)

\* What the channel of the backend holds after a notification.
LEMMA NotifyQueue ==
    ASSUME TypeOK, ClipInv, NEW n \in Nodes, Notify(n)
    PROVE  /\ queue' \in [Nodes -> Seq(Contents)]
           /\ \A o \in Nodes : Len(queue'[o]) <= NotifierCapacity
           /\ \A o \in Nodes \ {n} : queue'[o] = queue[o]
           /\ clip[n] \in Contents
           /\ \A i \in 1 .. Len(queue'[n]) : \/ queue'[n][i] = ReadBack[n][clip[n]]
                                             \/ \E j \in 1 .. Len(queue[n]) : queue'[n][i] = queue[n][j]
<1>1. /\ queue \in [Nodes -> Seq(Contents)] /\ clip[n] \in Contents
      /\ \A o \in Nodes : Len(queue[o]) <= NotifierCapacity
      /\ NotifierCapacity \in Nat \ {0}
  BY ClipboardConstants DEF TypeOK, ClipInv, Notify
<1>2. ReadBack[n][clip[n]] \in Contents
  BY <1>1, ClipboardConstants
<1> DEFINE c == ReadBack[n][clip[n]]
           r == Append(IF Len(queue[n]) >= NotifierCapacity THEN Tail(queue[n]) ELSE queue[n], c)
<1>3. queue' = [queue EXCEPT ![n] = r]
  BY DEF Notify
<1>4. /\ r \in Seq(Contents) /\ Len(r) <= NotifierCapacity
      /\ \A i \in 1 .. Len(r) : r[i] = c \/ \E j \in 1 .. Len(queue[n]) : r[i] = queue[n][j]
  BY <1>1, <1>2, Shifted, SMT
<1> HIDE DEF r
<1> QED
  BY <1>1, <1>3, <1>4

\* Every step keeps the types.
LEMMA TypeStep ==
    ASSUME TypeOK, ClipInv, [Next]_vars
    PROVE  TypeOK'
<1> USE DEF hostVars, engineVars, historyVars
<1>1. ASSUME NEW n \in Nodes, NEW c \in Contents, Copy(n, c) PROVE TypeOK'
  <2>1. unusual' \in BOOLEAN
    BY <1>1 DEF Copy
  <2>2. /\ clip' \in [Nodes -> Contents \cup {None}] /\ copied' \in [Nodes -> SUBSET Contents]
        /\ updates' \in [Nodes -> Nat] /\ copies' \in Nat
    BY <1>1, SMTT(60) DEF Copy, TypeOK
  <2> QED
    BY <1>1, <2>1, <2>2 DEF Copy, TypeOK
<1>2. ASSUME NEW n \in Nodes, Notify(n) PROVE TypeOK'
  <2>1. /\ queue' \in [Nodes -> Seq(Contents)]
        /\ \A o \in Nodes : Len(queue'[o]) <= NotifierCapacity
    BY <1>2, NotifyQueue
  <2>2. updates' \in [Nodes -> Nat]
    BY <1>2, SMT DEF Notify, TypeOK
  <2>3. lagged' \in [Nodes -> BOOLEAN] /\ fault' \in BOOLEAN
    BY <1>2 DEF Notify, TypeOK
  <2>4. converted' \in [Nodes -> SUBSET Contents]
    <3>1. ReadBack[n][clip[n]] \in Contents
      <4>1. clip[n] \in Contents
        BY <1>2, NotifyQueue
      <4> QED
        BY <4>1, ClipboardConstants
    <3>2. converted \in [Nodes -> SUBSET Contents] /\ converted[n] \in SUBSET Contents
      BY DEF TypeOK
    <3>3. \/ converted' = converted
          \/ converted' = [converted EXCEPT ![n] = converted[n] \cup {ReadBack[n][clip[n]]}]
      BY <1>2, <3>2 DEF Notify
    <3> QED
      BY <3>1, <3>2, <3>3
  <2> QED
    BY <1>2, <2>1, <2>2, <2>3, <2>4 DEF Notify, TypeOK
<1>10. ASSUME NEW n \in Nodes, NotifyNothing(n) PROVE TypeOK'
  <2>1. updates' \in [Nodes -> Nat]
    BY <1>10, SMT DEF NotifyNothing, TypeOK
  <2> QED
    BY <1>10, <2>1 DEF NotifyNothing, TypeOK
<1>3. ASSUME NEW n \in Nodes, NEW m \in Nodes, Apply(n, m) \/ ApplyFails(n, m) PROVE TypeOK'
  <2>1. /\ clip' \in [Nodes -> Contents \cup {None}] /\ updates' \in [Nodes -> Nat]
        /\ applying' \in [Nodes -> [Nodes -> Contents \cup {None}]]
    <3>1. applying[n][m] \in Contents /\ updates[n] + 1 \in Nat
      BY <1>3, SMT DEF Apply, ApplyFails, TypeOK
    <3>2. applying' \in [Nodes -> [Nodes -> Contents \cup {None}]]
      <4>1. /\ applying \in [Nodes -> [Nodes -> Contents \cup {None}]]
            /\ applying' = [applying EXCEPT ![n][m] = None]
        BY <1>3 DEF Apply, ApplyFails, TypeOK
      <4> QED
        BY <4>1
    <3>3. CASE Apply(n, m)
      BY <3>1, <3>2, <3>3 DEF Apply, TypeOK
    <3>4. CASE ApplyFails(n, m)
      BY <3>2, <3>4 DEF ApplyFails, TypeOK
    <3> QED
      BY <1>3, <3>3, <3>4
  <2>2. fault' \in BOOLEAN
    BY <1>3 DEF Apply, ApplyFails, TypeOK
  <2> QED
    BY <1>3, <2>1, <2>2 DEF Apply, ApplyFails, TypeOK
<1>4. ASSUME NEW n \in Nodes, CheckLocal(n) PROVE TypeOK'
  <2>1. queue[n] \in Seq(Contents) /\ queue[n] # <<>> /\ Len(queue[n]) <= NotifierCapacity
    BY <1>4 DEF CheckLocal, TypeOK
  <2>2. /\ Head(queue[n]) \in Contents /\ Tail(queue[n]) \in Seq(Contents)
        /\ Len(Tail(queue[n])) <= NotifierCapacity
    BY <2>1, Taken, ClipboardConstants, SMT
  <2>3. queue' \in [Nodes -> Seq(Contents)] /\ \A o \in Nodes : Len(queue'[o]) <= NotifierCapacity
    BY <1>4, <2>2 DEF CheckLocal, TypeOK
  <2>4. handling' \in [Nodes -> Contents \cup {None}]
    BY <1>4, <2>2 DEF CheckLocal, TypeOK
  <2> QED
    BY <1>4, <2>3, <2>4 DEF CheckLocal, TypeOK
<1>5. ASSUME NEW n \in Nodes, SendLocal(n) PROVE TypeOK'
  <2> DEFINE msg == [content |-> handling[n], sequence |-> sequence[n]]
  <2>1. handling[n] \in Contents /\ msg \in Message
    BY <1>5 DEF SendLocal, TypeOK, Message
  <2>2. /\ push_hash(n, handling[n])
        /\ link' = [l \in Links |-> IF l[1] = n THEN Append(link[l], msg) ELSE link[l]]
    BY <1>5 DEF SendLocal
  <2> HIDE DEF msg
  <2>3. \A l \in Links : Append(link[l], msg) \in Seq(Message)
    BY <2>1, SMT DEF TypeOK
  <2>4. link' \in [Links -> Seq(Message)]
    BY <2>2, <2>3 DEF TypeOK
  <2>5. /\ history' \in [Nodes -> Seq(Contents)] /\ evicted' \in [Nodes -> BOOLEAN]
        /\ \A o \in Nodes : Len(history'[o]) <= Capacity
    BY <2>1, <2>2, PushTypes
  <2>6. handling' \in [Nodes -> Contents \cup {None}] /\ sequence' \in [Nodes -> Nat]
    BY <1>5, SMT DEF SendLocal, TypeOK
  <2>7. sent' \in [Nodes -> SUBSET Contents]
    BY <1>5, <2>1 DEF SendLocal, TypeOK
  <2> QED
    BY <1>5, <2>4, <2>5, <2>6, <2>7 DEF SendLocal, TypeOK
<1>6. ASSUME NEW n \in Nodes, MonitorEnds(n) PROVE TypeOK'
  BY <1>6 DEF MonitorEnds, TypeOK
<1>7. ASSUME NEW n \in Nodes, NEW m \in Nodes \ {n}, Accepts(n, m) \/ Suppresses(n, m)
      PROVE  TypeOK'
  <2> DEFINE msg == Head(link[<<m, n>>])
  <2>1. <<m, n>> \in Links /\ link[<<m, n>>] \in Seq(Message) /\ link[<<m, n>>] # <<>>
    BY <1>7 DEF Accepts, Suppresses, Incoming, TypeOK, Links
  <2>2. msg \in Message /\ Tail(link[<<m, n>>]) \in Seq(Message)
    BY <2>1, Taken
  <2>3. link' \in [Links -> Seq(Message)]
    BY <1>7, <2>1, <2>2 DEF Accepts, Suppresses, Incoming, TypeOK
  <2>4. msg.content \in Contents /\ msg.sequence \in Nat
    BY <2>2 DEF Message
  <2> HIDE DEF msg
  <2>5. CASE Accepts(n, m)
    <3>1. /\ Incoming(n, m) /\ record_received(n, m, msg)
          /\ applying' = [applying EXCEPT ![n][m] = msg.content]
      BY <2>5 DEF Accepts, msg
    <3>2. /\ history' \in [Nodes -> Seq(Contents)] /\ evicted' \in [Nodes -> BOOLEAN]
          /\ \A o \in Nodes : Len(history'[o]) <= Capacity
      BY <2>4, <3>1, PushTypes DEF record_received
    <3>3. /\ sequences' \in [Nodes -> [Nodes -> Nat]]
          /\ applying' \in [Nodes -> [Nodes -> Contents \cup {None}]]
      BY <2>4, <3>1, SMT DEF record_received, TypeOK
    <3> QED
      BY <2>3, <3>1, <3>2, <3>3 DEF Incoming, TypeOK
  <2>6. CASE Suppresses(n, m)
    BY <2>3, <2>6 DEF Suppresses, Incoming, TypeOK
  <2> QED
    BY <1>7, <2>5, <2>6
<1>8. ASSUME NEW n \in Nodes, Restart(n) PROVE TypeOK'
  <2>1. queue' \in [Nodes -> Seq(Contents)] /\ \A o \in Nodes : Len(queue'[o]) <= NotifierCapacity
    BY <1>8, ClipboardConstants, SMT DEF Restart, TypeOK
  <2>2. history' \in [Nodes -> Seq(Contents)] /\ \A o \in Nodes : Len(history'[o]) <= Capacity
    BY <1>8, ClipboardConstants, SMT DEF Restart, TypeOK
  <2>3. link' \in [Links -> Seq(Message)]
    BY <1>8, SMT DEF Restart, TypeOK
  <2>4. /\ updates' \in [Nodes -> Nat] /\ sequence' \in [Nodes -> Nat] /\ restarts' \in Nat
        /\ sequences' \in [Nodes -> [Nodes -> Nat]]
    BY <1>8, SMT DEF Restart, TypeOK
  <2>5. /\ lagged' \in [Nodes -> BOOLEAN] /\ monitor' \in [Nodes -> BOOLEAN] /\ fault' \in BOOLEAN
        /\ handling' \in [Nodes -> Contents \cup {None}]
        /\ applying' \in [Nodes -> [Nodes -> Contents \cup {None}]]
        /\ sent' \in [Nodes -> SUBSET Contents]
    BY <1>8 DEF Restart, TypeOK
  <2> QED
    BY <1>8, <2>1, <2>2, <2>3, <2>4, <2>5 DEF Restart, TypeOK
<1>9. CASE UNCHANGED vars
  BY <1>9 DEF vars, TypeOK
<1> QED
  BY <1>1, <1>2, <1>3, <1>4, <1>5, <1>6, <1>7, <1>8, <1>9, <1>10 DEF Next

-----------------------------------------------------------------------------
(***************************************************************************)
(* No echo.                                                                *)
(***************************************************************************)

\* Notifications come with a content to read.
LEMMA ClipStep ==
    ASSUME TypeOK, ClipInv, [Next]_vars
    PROVE  ClipInv'
<1> USE DEF hostVars, engineVars, historyVars
<1>1. ASSUME NEW n \in Nodes, NEW c \in Contents, Copy(n, c) PROVE ClipInv'
  BY <1>1, ClipboardConstants DEF Copy, TypeOK, ClipInv
<1>2. ASSUME NEW n \in Nodes, Notify(n) \/ NotifyNothing(n) PROVE ClipInv'
  BY <1>2 DEF Notify, NotifyNothing, TypeOK, ClipInv
<1>3. ASSUME NEW n \in Nodes, NEW m \in Nodes, Apply(n, m) PROVE ClipInv'
  BY <1>3 DEF Apply, TypeOK, ClipInv
<1>4. ASSUME NEW n \in Nodes, Restart(n) PROVE ClipInv'
  BY <1>4, SMT DEF Restart, TypeOK, ClipInv
<1>5. CASE UNCHANGED <<clip, updates>>
  BY <1>5 DEF ClipInv
<1> QED
  BY <1>1, <1>2, <1>3, <1>4, <1>5, ZenonT(30)
     DEF Next, vars, ApplyFails, CheckLocal, SendLocal, MonitorEnds, Accepts, Suppresses, Incoming

\* A node that a step does not touch.
LEMMA GuardedStays ==
    ASSUME NEW o \in Nodes, Guarded(o),
           clip'[o] = clip[o], updates'[o] = updates[o], queue'[o] = queue[o],
           handling'[o] = handling[o], applying'[o] = applying[o],
           history'[o] = history[o], copied'[o] = copied[o], evicted'[o] = evicted[o],
           converted'[o] = converted[o], sent'[o] = sent[o]
    PROVE  Guarded(o)'
<1>1. Seen(o)' = Seen(o) /\ Sendable(o)' = Sendable(o)
  BY DEF Seen, Sendable, Own
<1> QED
  BY <1>1 DEF Guarded

\* What the listener reads in place of a content of a peer is remembered.
LEMMA NotifyConverts ==
    ASSUME TypeOK, NEW n \in Nodes, Notify(n)
    PROVE  /\ \A o \in Nodes \ {n} : converted'[o] = converted[o]
           /\ converted[n] \subseteq converted'[n]
           /\ \/ clip[n] \in copied[n] \/ clip[n] = ReadBack[n][clip[n]]
              \/ ReadBack[n][clip[n]] \in converted'[n]
<1> DEFINE c == ReadBack[n][clip[n]]
<1>1. converted \in [Nodes -> SUBSET Contents]
  BY DEF TypeOK
<1>2. converted' = [converted EXCEPT ![n] =
                      IF clip[n] \in copied[n] \cup {c} THEN converted[n] ELSE converted[n] \cup {c}]
  BY DEF Notify
<1> HIDE DEF c
<1>3. CASE clip[n] \in copied[n] \cup {c}
  BY <1>1, <1>2, <1>3 DEF c
<1>4. CASE clip[n] \notin copied[n] \cup {c}
  BY <1>1, <1>2, <1>4 DEF c
<1> QED
  BY <1>3, <1>4

\* What goes through a node on its own steps stays its own or known to its guard: the
\* guard records a remote content before set_content, and the monitor takes nothing on
\* that the guard knows.
LEMMA GuardStep ==
    ASSUME TypeOK, ClipInv, EchoInv, [Next]_vars
    PROVE  EchoInv'
<1> USE DEF hostVars, engineVars, historyVars
<1>1. ASSUME NEW n \in Nodes, NEW c \in Contents, Copy(n, c) PROVE EchoInv'
  <2>1. \A o \in Nodes \ {n} : Guarded(o)'
    BY <1>1, GuardedStays DEF EchoInv, Copy, TypeOK
  <2>2. /\ clip'[n] = c /\ copied'[n] = copied[n] \cup {c}
        /\ UNCHANGED <<queue, handling, applying, history, evicted, converted, sent>>
    BY <1>1 DEF Copy, TypeOK
  <2>3. Seen(n)' = Seen(n) /\ Sendable(n) \subseteq Sendable(n)'
    BY <2>2 DEF Seen, Sendable, Own
  <2>4. Guarded(n)
    BY DEF EchoInv
  <2>5. Guarded(n)'
    BY <2>2, <2>3, <2>4 DEF Guarded
  <2> QED
    BY <2>1, <2>5 DEF EchoInv
<1>2. ASSUME NEW n \in Nodes, Notify(n) PROVE EchoInv'
  <2>1. \A o \in Nodes \ {n} : Guarded(o)'
    BY <1>2, NotifyQueue, NotifyConverts, GuardedStays DEF EchoInv, Notify, TypeOK
  <2>2. /\ updates[n] > 0 /\ UNCHANGED <<clip, handling, applying, history, evicted, copied, sent>>
    BY <1>2 DEF Notify
  <2>3. Seen(n)' = Seen(n) /\ Sendable(n) \subseteq Sendable(n)'
    BY <1>2, <2>2, NotifyConverts DEF Seen, Sendable, Own
  <2>4. Guarded(n)
    BY DEF EchoInv
  <2>5. Guarded(n)'
    <3> SUFFICES ASSUME ~ evicted[n]
                 PROVE  \A i \in 1 .. Len(queue'[n]) : queue'[n][i] \in Sendable(n)' \cup Seen(n)
      BY <2>2, <2>3, <2>4 DEF Guarded
    <3>1. clip[n] \in Contents /\ clip[n] \in copied[n] \cup Seen(n)
      BY <1>2, <2>2, <2>4, NotifyQueue DEF Guarded
    <3>2. ReadBack[n][clip[n]] \in Sendable(n)' \cup Seen(n)
      BY <1>2, <2>2, <3>1, NotifyConverts DEF Sendable, Own
    <3>3. \A j \in 1 .. Len(queue[n]) : queue[n][j] \in Sendable(n)' \cup Seen(n)
      BY <2>3, <2>4 DEF Guarded
    <3> QED
      BY <1>2, <3>2, <3>3, NotifyQueue, ZenonT(30)
  <2> QED
    BY <2>1, <2>5 DEF EchoInv
<1>11. ASSUME NEW n \in Nodes, NotifyNothing(n) PROVE EchoInv'
  <2>1. \A o \in Nodes \ {n} : Guarded(o)'
    BY <1>11, GuardedStays DEF EchoInv, NotifyNothing, TypeOK
  <2>2. /\ updates[n] > 0
        /\ UNCHANGED <<clip, queue, handling, applying, history, evicted, copied, converted, sent>>
    BY <1>11 DEF NotifyNothing
  <2>3. Seen(n)' = Seen(n) /\ Sendable(n)' = Sendable(n) /\ Guarded(n)
    BY <2>2 DEF Seen, Sendable, Own, EchoInv
  <2>4. Guarded(n)'
    BY <2>2, <2>3 DEF Guarded
  <2> QED
    BY <2>1, <2>4 DEF EchoInv
<1>3. ASSUME NEW n \in Nodes, NEW m \in Nodes, Apply(n, m) \/ ApplyFails(n, m) PROVE EchoInv'
  <2>1. \A o \in Nodes \ {n} : Guarded(o)'
    BY <1>3, GuardedStays DEF EchoInv, Apply, ApplyFails, TypeOK
  <2>2. /\ applying[n][m] # None
        /\ \A o \in Nodes : applying'[n][o] \in {applying[n][o], None}
        /\ UNCHANGED <<queue, handling, history, evicted, copied, converted, sent>>
        /\ clip'[n] = applying[n][m] \/ UNCHANGED <<clip, updates>>
    <3>1. /\ applying \in [Nodes -> [Nodes -> Contents \cup {None}]] /\ clip \in [Nodes -> Contents \cup {None}]
          /\ applying[n][m] # None /\ applying' = [applying EXCEPT ![n][m] = None]
      BY <1>3 DEF Apply, ApplyFails, TypeOK
    <3>2. \A o \in Nodes : applying'[n][o] \in {applying[n][o], None}
      BY <3>1
    <3>3. UNCHANGED <<queue, handling, history, evicted, copied, converted, sent>>
      BY <1>3 DEF Apply, ApplyFails
    <3>4. clip' = [clip EXCEPT ![n] = applying[n][m]] \/ UNCHANGED <<clip, updates>>
      BY <1>3 DEF Apply, ApplyFails
    <3> QED
      BY <3>1, <3>2, <3>3, <3>4
  <2>3. Seen(n)' = Seen(n) /\ Sendable(n)' = Sendable(n) /\ Guarded(n)
    BY <2>2 DEF Seen, Sendable, Own, EchoInv
  <2>4. Guarded(n)'
    <3>1. ASSUME ~ evicted[n]
          PROVE  /\ updates'[n] > 0 => clip'[n] \in copied[n] \cup Seen(n)
                 /\ \A o \in Nodes : applying'[n][o] \in Seen(n) \cup {None}
      BY <2>2, <2>3, <3>1 DEF Guarded
    <3> QED
      BY <2>2, <2>3, <3>1 DEF Guarded
  <2> QED
    BY <2>1, <2>4 DEF EchoInv
<1>4. ASSUME NEW n \in Nodes, CheckLocal(n) PROVE EchoInv'
  <2>1. \A o \in Nodes \ {n} : Guarded(o)'
    BY <1>4, GuardedStays DEF EchoInv, CheckLocal, TypeOK
  <2>2. /\ queue[n] \in Seq(Contents) /\ queue[n] # <<>>
        /\ queue'[n] = Tail(queue[n])
        /\ handling'[n] \in {Head(queue[n]), None}
        /\ handling'[n] # None => Head(queue[n]) \notin Seen(n)
        /\ UNCHANGED <<clip, updates, applying, history, evicted, copied, converted, sent>>
    BY <1>4 DEF CheckLocal, TypeOK, should_suppress
  <2>3. /\ Head(queue[n]) = queue[n][1] /\ 1 \in 1 .. Len(queue[n])
        /\ \A i \in 1 .. Len(Tail(queue[n])) :
             i + 1 \in 1 .. Len(queue[n]) /\ Tail(queue[n])[i] = queue[n][i + 1]
    BY <2>2, Taken, SMT
  <2>4. Seen(n)' = Seen(n) /\ Sendable(n)' = Sendable(n) /\ Guarded(n)
    BY <2>2 DEF Seen, Sendable, Own, EchoInv
  <2>5. Guarded(n)'
    <3> SUFFICES ASSUME ~ evicted[n]
                 PROVE  /\ \A i \in 1 .. Len(queue'[n]) : queue'[n][i] \in Sendable(n) \cup Seen(n)
                        /\ handling'[n] \in Sendable(n) \cup {None}
                        /\ handling'[n] \notin sent[n]
      BY <2>2, <2>4 DEF Guarded
    <3>1. /\ \A j \in 1 .. Len(queue[n]) : queue[n][j] \in Sendable(n) \cup Seen(n)
          /\ sent[n] \subseteq Seen(n)
      BY <2>4 DEF Guarded
    <3>2. None \notin sent[n]
      BY ClipboardConstants DEF TypeOK
    <3> QED
      BY <2>2, <2>3, <3>1, <3>2
  <2> QED
    BY <2>1, <2>5 DEF EchoInv
<1>5. ASSUME NEW n \in Nodes, SendLocal(n) PROVE EchoInv'
  <2>1. /\ handling[n] \in Contents /\ push_hash(n, handling[n])
        /\ handling' = [handling EXCEPT ![n] = None]
        /\ sent' = [sent EXCEPT ![n] = sent[n] \cup {handling[n]}]
        /\ UNCHANGED <<clip, updates, queue, applying, copied, converted>>
    BY <1>5 DEF SendLocal, TypeOK
  <2>2. \A o \in Nodes \ {n} : Guarded(o)'
    <3>1. \A o \in Nodes \ {n} : history'[o] = history[o] /\ evicted'[o] = evicted[o]
      BY <2>1, PushTypes
    <3> QED
      BY <2>1, <3>1, GuardedStays DEF EchoInv, TypeOK
  <2>3. Guarded(n)'
    <3>1. CASE evicted'[n]
      BY <3>1 DEF Guarded
    <3>2. CASE ~ evicted'[n]
      <4>1. ~ evicted[n] /\ Seen(n) \subseteq Seen(n)' /\ handling[n] \in Seen(n)'
        BY <2>1, <3>2, PushKnows
      <4>2. /\ handling'[n] = None /\ sent'[n] = sent[n] \cup {handling[n]}
            /\ None \notin sent'[n]
        BY <2>1, ClipboardConstants DEF TypeOK
      <4>3. Sendable(n)' = Sendable(n) /\ Guarded(n)
        BY <2>1 DEF Sendable, Own, EchoInv
      <4> QED
        BY <2>1, <4>1, <4>2, <4>3 DEF Guarded
    <3> QED
      BY <3>1, <3>2
  <2> QED
    BY <2>2, <2>3 DEF EchoInv
<1>6. ASSUME NEW n \in Nodes, NEW m \in Nodes \ {n}, Accepts(n, m) PROVE EchoInv'
  <2> DEFINE c == Head(link[<<m, n>>]).content
  <2>1. /\ push_hash(n, c) /\ applying' = [applying EXCEPT ![n][m] = c]
        /\ UNCHANGED <<clip, updates, queue, handling, copied, converted, sent>>
    BY <1>6 DEF Accepts, record_received, Incoming
  <2>2. c \in Contents
    <3>1. <<m, n>> \in Links /\ link[<<m, n>>] \in Seq(Message) /\ link[<<m, n>>] # <<>>
      BY <1>6 DEF Accepts, Incoming, TypeOK, Links
    <3>2. Head(link[<<m, n>>]) \in Message
      BY <3>1, Taken
    <3> QED
      BY <3>2 DEF Message
  <2> HIDE DEF c
  <2>3. \A o \in Nodes \ {n} : Guarded(o)'
    <3>1. \A o \in Nodes \ {n} : history'[o] = history[o] /\ evicted'[o] = evicted[o]
      BY <2>1, <2>2, PushTypes
    <3> QED
      BY <2>1, <3>1, GuardedStays DEF EchoInv, TypeOK
  <2>4. Guarded(n)'
    <3>1. CASE evicted'[n]
      BY <3>1 DEF Guarded
    <3>2. CASE ~ evicted'[n]
      <4>1. ~ evicted[n] /\ Seen(n) \subseteq Seen(n)' /\ c \in Seen(n)'
        BY <2>1, <2>2, <3>2, PushKnows
      <4>2. \A o \in Nodes : applying'[n][o] \in {applying[n][o], c}
        BY <2>1 DEF TypeOK
      <4>3. Sendable(n)' = Sendable(n) /\ Guarded(n)
        BY <2>1 DEF Sendable, Own, EchoInv
      <4> QED
        BY <2>1, <4>1, <4>2, <4>3 DEF Guarded
    <3> QED
      BY <3>1, <3>2
  <2> QED
    BY <2>3, <2>4 DEF EchoInv
<1>7. ASSUME NEW n \in Nodes, Restart(n) PROVE EchoInv'
  <2>1. \A o \in Nodes \ {n} : Guarded(o)'
    BY <1>7, GuardedStays DEF EchoInv, Restart, TypeOK
  <2>2. /\ updates'[n] = 0 /\ queue'[n] = <<>> /\ handling'[n] = None /\ sent'[n] = {}
        /\ \A m \in Nodes : applying'[n][m] = None
    BY <1>7 DEF Restart, TypeOK
  <2>3. ~ (updates'[n] > 0) /\ \A i \in 1 .. Len(queue'[n]) : FALSE
    BY <2>2, SMT
  <2>4. Guarded(n)'
    BY <2>2, <2>3 DEF Guarded
  <2> QED
    BY <2>1, <2>4 DEF EchoInv
<1>8. CASE UNCHANGED <<clip, updates, queue, handling, applying, history, copied, evicted, converted, sent>>
  BY <1>8, GuardedStays DEF EchoInv
<1>9. ASSUME NEW n \in Nodes, NEW m \in Nodes, MonitorEnds(n) \/ Suppresses(n, m)
      PROVE  EchoInv'
  BY <1>8, <1>9 DEF MonitorEnds, Suppresses, Incoming
<1>10. CASE UNCHANGED vars
  BY <1>8, <1>10 DEF vars
<1> QED
  BY <1>1, <1>2, <1>3, <1>4, <1>5, <1>6, <1>7, <1>9, <1>10, <1>11 DEF Next

\* A message added to a stream, with a content like those of the others.
LEMMA AddedContents ==
    ASSUME NEW S, NEW q \in Seq(Message), NEW x \in Message, x.content \in S,
           \A i \in 1 .. Len(q) : q[i].content \in S
    PROVE  \A i \in 1 .. Len(Append(q, x)) : Append(q, x)[i].content \in S
<1>1. /\ Len(q) \in Nat /\ Len(Append(q, x)) = Len(q) + 1
      /\ \A i \in 1 .. Len(q) + 1 : Append(q, x)[i] = IF i <= Len(q) THEN q[i] ELSE x
  BY Added, ZenonT(30)
<1> SUFFICES ASSUME NEW i \in 1 .. Len(q) + 1
             PROVE  Append(q, x)[i].content \in S
  BY <1>1
<1>2. CASE i <= Len(q)
  BY <1>1, <1>2, SMT
<1>3. CASE ~ (i <= Len(q))
  BY <1>1, <1>3
<1> QED
  BY <1>2, <1>3

\* A node puts into its streams what it handles, and that is its own.
LEMMA EchoStep ==
    ASSUME TypeOK, ClipInv, EchoInv, CleanInv, [Next]_vars
    PROVE  CleanInv'
<1> USE DEF hostVars, engineVars, historyVars
<1> DEFINE Clean(n, q) == \A i \in 1 .. Len(q) : q[i].content \in Sendable(n)
<1>0. \A n \in Nodes : ~ evicted[n] => \A m \in Nodes \ {n} : Clean(n, link[<<n, m>>])
  BY DEF CleanInv
<1>1. CASE UNCHANGED <<link, copied, converted, evicted>>
  BY <1>1 DEF CleanInv, Sendable, Own
<1>2. ASSUME NEW n \in Nodes, NEW c \in Contents, Copy(n, c) PROVE CleanInv'
  <2>1. \A o \in Nodes : copied[o] \subseteq copied'[o]
    BY <1>2 DEF Copy, TypeOK
  <2>2. UNCHANGED <<link, converted, evicted>>
    BY <1>2 DEF Copy
  <2>3. \A o \in Nodes : Sendable(o) \subseteq Sendable(o)'
    BY <2>1, <2>2 DEF Sendable, Own
  <2> QED
    BY <2>2, <2>3 DEF CleanInv
<1>8. ASSUME NEW n \in Nodes, Notify(n) PROVE CleanInv'
  <2>1. \A o \in Nodes : converted[o] \subseteq converted'[o]
    BY <1>8, NotifyConverts DEF TypeOK
  <2>2. UNCHANGED <<link, copied, evicted>>
    BY <1>8 DEF Notify
  <2>3. \A o \in Nodes : Sendable(o) \subseteq Sendable(o)'
    BY <2>1, <2>2 DEF Sendable, Own
  <2> QED
    BY <2>2, <2>3 DEF CleanInv
<1>3. ASSUME NEW n \in Nodes, SendLocal(n) PROVE CleanInv'
  <2> DEFINE msg == [content |-> handling[n], sequence |-> sequence[n]]
  <2>1. /\ handling[n] \in Contents /\ handling[n] # None /\ push_hash(n, handling[n])
        /\ link' = [l \in Links |-> IF l[1] = n THEN Append(link[l], msg) ELSE link[l]]
        /\ copied' = copied /\ converted' = converted
    BY <1>3 DEF SendLocal, TypeOK
  <2>2. msg \in Message /\ msg.content = handling[n]
    BY <2>1 DEF TypeOK, Message
  <2> HIDE DEF msg
  <2> SUFFICES ASSUME NEW o \in Nodes, ~ evicted'[o], NEW m \in Nodes \ {o}
               PROVE  Clean(o, link'[<<o, m>>])
    BY <2>1, ZenonT(30) DEF CleanInv, Sendable, Own
  <2>3. <<o, m>> \in Links /\ link[<<o, m>>] \in Seq(Message)
    BY DEF Links, TypeOK
  <2>4. CASE o # n
    <3>1. evicted'[o] = evicted[o]
      BY <2>1, <2>4, PushTypes
    <3>2. link'[<<o, m>>] = link[<<o, m>>]
      BY <2>1, <2>3, <2>4
    <3> QED
      BY <1>0, <3>1, <3>2
  <2>5. CASE o = n
    <3>1. ~ evicted[n]
      BY <2>1, <2>5, PushKnows
    <3>2. handling[n] \in Sendable(n)
      BY <2>1, <3>1 DEF EchoInv, Guarded
    <3>3. link'[<<o, m>>] = Append(link[<<o, m>>], msg)
      BY <2>1, <2>3, <2>5
    <3>4. Clean(n, link[<<o, m>>])
      BY <1>0, <2>5, <3>1
    <3> QED
      BY <2>2, <2>3, <2>5, <3>2, <3>3, <3>4, AddedContents, SMTT(60)
  <2> QED
    BY <2>4, <2>5
<1>4. ASSUME NEW n \in Nodes, NEW m \in Nodes \ {n}, Accepts(n, m) \/ Suppresses(n, m)
      PROVE  CleanInv'
  <2>1. /\ link[<<m, n>>] # <<>> /\ copied' = copied /\ converted' = converted
        /\ link' = [link EXCEPT ![<<m, n>>] = Tail(@)]
    BY <1>4 DEF Accepts, Suppresses, Incoming
  <2>2. <<m, n>> \in Links /\ link[<<m, n>>] \in Seq(Message)
    BY DEF TypeOK, Links
  <2>3. \A o \in Nodes : ~ evicted'[o] => ~ evicted[o]
    <3>1. CASE Accepts(n, m)
      <4> DEFINE c == Head(link[<<m, n>>]).content
      <4>1. push_hash(n, c)
        BY <3>1 DEF Accepts, record_received
      <4>2. Head(link[<<m, n>>]) \in Message
        BY <2>1, <2>2, Taken
      <4>3. c \in Contents
        BY <4>2 DEF Message
      <4> HIDE DEF c
      <4>4. \A o \in Nodes \ {n} : evicted'[o] = evicted[o]
        BY <4>1, <4>3, PushTypes
      <4>5. ~ evicted'[n] => ~ evicted[n]
        BY <4>1, <4>3, PushKnows
      <4> QED
        BY <4>4, <4>5
    <3>2. CASE Suppresses(n, m)
      BY <3>2 DEF Suppresses
    <3> QED
      BY <1>4, <3>1, <3>2
  <2> SUFFICES ASSUME NEW o \in Nodes, ~ evicted'[o], NEW r \in Nodes \ {o}
               PROVE  Clean(o, link'[<<o, r>>])
    BY <2>1 DEF CleanInv, Sendable, Own
  <2>4. Clean(o, link[<<o, r>>]) /\ <<o, r>> \in Links
    BY <1>0, <2>3 DEF Links
  <2>5. CASE <<o, r>> = <<m, n>>
    <3>1. link'[<<o, r>>] = Tail(link[<<o, r>>])
      BY <2>1, <2>2, <2>5 DEF TypeOK
    <3>2. \A i \in 1 .. Len(Tail(link[<<o, r>>])) :
            i + 1 \in 1 .. Len(link[<<o, r>>]) /\ Tail(link[<<o, r>>])[i] = link[<<o, r>>][i + 1]
      BY <2>1, <2>2, <2>5, Taken, SMT
    <3> QED
      BY <2>4, <3>1, <3>2
  <2>6. CASE <<o, r>> # <<m, n>>
    <3>1. link'[<<o, r>>] = link[<<o, r>>]
      BY <2>1, <2>4, <2>6 DEF TypeOK
    <3> QED
      BY <2>4, <3>1
  <2> QED
    BY <2>5, <2>6
<1>5. ASSUME NEW n \in Nodes, Restart(n) PROVE CleanInv'
  <2>1. /\ link' = [l \in Links |-> IF n \in {l[1], l[2]} THEN <<>> ELSE link[l]]
        /\ UNCHANGED <<copied, converted, evicted>>
    BY <1>5 DEF Restart
  <2> SUFFICES ASSUME NEW o \in Nodes, ~ evicted[o], NEW r \in Nodes \ {o}
               PROVE  Clean(o, link'[<<o, r>>])
    BY <2>1, ZenonT(30) DEF CleanInv, Sendable, Own
  <2>2. Clean(o, link[<<o, r>>]) /\ <<o, r>> \in Links
    BY <1>0 DEF Links
  <2>3. link'[<<o, r>>] = <<>> \/ link'[<<o, r>>] = link[<<o, r>>]
    BY <2>1, <2>2
  <2>4. Clean(o, <<>>)
    BY SMT
  <2> QED
    BY <2>2, <2>3, <2>4
<1>6. ASSUME NEW n \in Nodes, NEW m \in Nodes,
             \/ NotifyNothing(n) \/ Apply(n, m) \/ ApplyFails(n, m) \/ CheckLocal(n) \/ MonitorEnds(n)
      PROVE  CleanInv'
  BY <1>1, <1>6 DEF NotifyNothing, Apply, ApplyFails, CheckLocal, MonitorEnds
<1>7. CASE UNCHANGED vars
  BY <1>1, <1>7 DEF vars
<1> QED
  BY <1>2, <1>3, <1>4, <1>5, <1>6, <1>7, <1>8 DEF Next

-----------------------------------------------------------------------------
(***************************************************************************)
(* Sequence numbers.                                                       *)
(***************************************************************************)

\* Receiving the first message, with or without recording its number.
LEMMA RisingTail ==
    ASSUME NEW q \in Seq(Message), q # <<>>, NEW low \in Nat, NEW high \in Nat,
           Rising(q, low, high)
    PROVE  /\ Rising(Tail(q), low, high)
           /\ Rising(Tail(q), Head(q).sequence, high)
           /\ low < Head(q).sequence
<1>1. /\ Len(q) \in Nat /\ Len(q) > 0 /\ Head(q) = q[1] /\ Len(Tail(q)) = Len(q) - 1
      /\ \A i \in 1 .. Len(Tail(q)) : i + 1 \in 1 .. Len(q) /\ Tail(q)[i] = q[i + 1]
  BY Taken
<1>2. \A i \in 1 .. Len(Tail(q)) : low < Tail(q)[i].sequence /\ Tail(q)[i].sequence < high
  BY <1>1 DEF Rising
<1>3. \A i, j \in 1 .. Len(Tail(q)) : i < j => Tail(q)[i].sequence < Tail(q)[j].sequence
  BY <1>1, SMT DEF Rising
<1>4. low < q[1].sequence /\ q[1].sequence < high
  BY <1>1, SMT DEF Rising
<1>5. \A i \in 1 .. Len(Tail(q)) : q[1].sequence < Tail(q)[i].sequence
  BY <1>1, SMT DEF Rising
<1> QED
  BY <1>1, <1>2, <1>3, <1>4, <1>5 DEF Rising

\* Sending a message that takes the counter's value and advances it.
LEMMA RisingAppend ==
    ASSUME NEW q \in Seq(Message), NEW low \in Nat, NEW high \in Nat, Rising(q, low, high),
           NEW x \in Message, x.sequence = high
    PROVE  Rising(Append(q, x), low, high + 1)
<1> DEFINE r == Append(q, x)
<1>1. /\ Len(q) \in Nat /\ Len(r) = Len(q) + 1
      /\ \A i \in 1 .. Len(q) + 1 : r[i] = IF i <= Len(q) THEN q[i] ELSE x
  BY Added, ZenonT(30)
<1>2. \A i \in 1 .. Len(q) : q[i] \in Message
  BY SMT
<1>3. \A i \in 1 .. Len(q) : q[i].sequence \in Nat
  BY <1>2 DEF Message
<1> HIDE DEF r
<1>4. ASSUME NEW i \in 1 .. Len(r)
      PROVE  low < r[i].sequence /\ r[i].sequence < high + 1
  <2>1. CASE i <= Len(q)
    BY <1>1, <1>3, <2>1, SMT DEF Rising
  <2>2. CASE ~ (i <= Len(q))
    BY <1>1, <2>2, SMT DEF Rising
  <2> QED
    BY <2>1, <2>2
<1>5. ASSUME NEW i \in 1 .. Len(r), NEW j \in 1 .. Len(r), i < j
      PROVE  r[i].sequence < r[j].sequence
  <2>1. i \in 1 .. Len(q) /\ r[i] = q[i]
    BY <1>1, <1>5, SMT
  <2>2. CASE j <= Len(q)
    BY <1>1, <1>5, <2>1, <2>2, SMT DEF Rising
  <2>3. CASE ~ (j <= Len(q))
    BY <1>1, <2>1, <2>3 DEF Rising
  <2> QED
    BY <2>2, <2>3
<1> QED
  BY <1>4, <1>5, SMT DEF Rising, r

\* Until a node restarts, numbers keep rising.
LEMMA SeqStep ==
    ASSUME TypeOK, SeqInv, [Next]_vars
    PROVE  SeqInv'
<1> USE DEF hostVars, engineVars, historyVars
<1>1. CASE UNCHANGED <<link, sequence, sequences, restarts>>
  BY <1>1, ZenonT(30) DEF SeqInv, Rising
<1>2. ASSUME NEW n \in Nodes, SendLocal(n) PROVE SeqInv'
  <2> DEFINE msg == [content |-> handling[n], sequence |-> sequence[n]]
  <2>1. /\ handling[n] \in Contents /\ sequence[n] \in Nat
        /\ link' = [l \in Links |-> IF l[1] = n THEN Append(link[l], msg) ELSE link[l]]
        /\ sequence' = [sequence EXCEPT ![n] = sequence[n] + 1]
        /\ UNCHANGED <<sequences, restarts>>
    BY <1>2 DEF SendLocal, TypeOK
  <2>2. msg \in Message /\ msg.sequence = sequence[n]
    BY <2>1 DEF Message
  <2> HIDE DEF msg
  <2> SUFFICES ASSUME restarts = 0, NEW o \in Nodes, NEW r \in Nodes \ {o}
               PROVE  Rising(link'[<<o, r>>], sequences[r][o], sequence'[o])
    BY <2>1 DEF SeqInv
  <2>3. /\ <<o, r>> \in Links /\ link[<<o, r>>] \in Seq(Message)
        /\ sequences[r][o] \in Nat /\ sequence[o] \in Nat
    BY DEF Links, TypeOK
  <2>4. Rising(link[<<o, r>>], sequences[r][o], sequence[o])
    BY DEF SeqInv
  <2>5. CASE o = n
    <3>1. link'[<<o, r>>] = Append(link[<<o, r>>], msg) /\ sequence'[o] = sequence[o] + 1
      BY <2>1, <2>3, <2>5 DEF TypeOK
    <3>2. Rising(Append(link[<<o, r>>], msg), sequences[r][o], sequence[o] + 1)
      BY <2>2, <2>3, <2>4, <2>5, RisingAppend
    <3> QED
      BY <3>1, <3>2
  <2>6. CASE o # n
    <3>1. link'[<<o, r>>] = link[<<o, r>>] /\ sequence'[o] = sequence[o]
      BY <2>1, <2>3, <2>6 DEF TypeOK
    <3> QED
      BY <2>4, <3>1
  <2> QED
    BY <2>5, <2>6
<1>3. ASSUME NEW n \in Nodes, NEW m \in Nodes \ {n}, Accepts(n, m) \/ Suppresses(n, m)
      PROVE  SeqInv'
  <2> DEFINE k == Head(link[<<m, n>>]).sequence
  <2>1. /\ link[<<m, n>>] # <<>> /\ link' = [link EXCEPT ![<<m, n>>] = Tail(@)]
        /\ UNCHANGED <<sequence, restarts>>
        /\ sequences' = [sequences EXCEPT ![n][m] = k] \/ sequences' = sequences
    BY <1>3 DEF Accepts, Suppresses, Incoming, record_received
  <2> HIDE DEF k
  <2> SUFFICES ASSUME restarts = 0, NEW o \in Nodes, NEW r \in Nodes \ {o}
               PROVE  Rising(link'[<<o, r>>], sequences'[r][o], sequence[o])
    BY <2>1 DEF SeqInv
  <2>2. /\ <<o, r>> \in Links /\ link[<<o, r>>] \in Seq(Message)
        /\ sequences[r][o] \in Nat /\ sequence[o] \in Nat
    BY DEF Links, TypeOK
  <2>3. Rising(link[<<o, r>>], sequences[r][o], sequence[o])
    BY DEF SeqInv
  <2>4. CASE o = m /\ r = n
    <3>1. link'[<<o, r>>] = Tail(link[<<o, r>>]) /\ link[<<o, r>>] # <<>>
      BY <2>1, <2>2, <2>4 DEF TypeOK
    <3>2. sequences'[r][o] \in {sequences[r][o], k}
      BY <2>1, <2>4, SMTT(60) DEF TypeOK
    <3>3. /\ Rising(Tail(link[<<o, r>>]), sequences[r][o], sequence[o])
          /\ Rising(Tail(link[<<o, r>>]), k, sequence[o])
      BY <2>2, <2>3, <2>4, <3>1, RisingTail DEF k
    <3> QED
      BY <3>1, <3>2, <3>3
  <2>5. CASE ~ (o = m /\ r = n)
    <3>1. link'[<<o, r>>] = link[<<o, r>>]
      BY <2>1, <2>2, <2>5 DEF TypeOK
    <3>2. sequences'[r][o] = sequences[r][o]
      <4>1. sequences \in [Nodes -> [Nodes -> Nat]]
        BY DEF TypeOK
      <4>2. CASE sequences' = [sequences EXCEPT ![n][m] = k]
        <5>1. CASE r = n /\ o # m
          BY <4>1, <4>2, <5>1
        <5>2. CASE r # n
          BY <4>1, <4>2, <5>2
        <5> QED
          BY <2>5, <5>1, <5>2
      <4> QED
        BY <2>1, <4>2
    <3> QED
      BY <2>3, <3>1, <3>2
  <2> QED
    BY <2>4, <2>5
<1>4. ASSUME NEW n \in Nodes, Restart(n) PROVE SeqInv'
  <2>1. restarts \in Nat /\ restarts' = restarts + 1
    BY <1>4 DEF Restart, TypeOK
  <2>2. restarts' # 0
    BY <2>1, SMT
  <2> QED
    BY <2>2 DEF SeqInv
<1>5. ASSUME NEW n \in Nodes, NEW m \in Nodes,
             \/ \E c \in Contents : Copy(n, c)
             \/ Notify(n) \/ NotifyNothing(n) \/ Apply(n, m) \/ ApplyFails(n, m) \/ CheckLocal(n)
             \/ MonitorEnds(n)
      PROVE  SeqInv'
  BY <1>1, <1>5 DEF Copy, Notify, NotifyNothing, Apply, ApplyFails, CheckLocal, MonitorEnds
<1>6. CASE UNCHANGED vars
  BY <1>1, <1>6 DEF vars
<1> QED
  BY <1>2, <1>3, <1>4, <1>5, <1>6 DEF Next

-----------------------------------------------------------------------------
(***************************************************************************)
(* The theorems.                                                           *)
(***************************************************************************)

\* The invariant holds at first.
LEMMA InvInit == Init => Inv
<1> SUFFICES ASSUME Init PROVE Inv
  OBVIOUS
<1>1. TypeOK
  <2>1. link \in [Links -> Seq(Message)] /\ queue \in [Nodes -> Seq(Contents)]
        /\ history \in [Nodes -> Seq(Contents)]
    BY SMT DEF Init
  <2>2. \A n \in Nodes : Len(queue[n]) <= NotifierCapacity /\ Len(history[n]) <= Capacity
    <3>1. Len(<<>>) <= NotifierCapacity /\ Len(<<>>) <= Capacity
      BY ClipboardConstants, SMT
    <3> QED
      BY <3>1 DEF Init
  <2> QED
    BY <2>1, <2>2 DEF Init, TypeOK
<1>2. ClipInv
  BY SMT DEF Init, ClipInv
<1>3. EchoInv
  <2> SUFFICES ASSUME NEW n \in Nodes PROVE Guarded(n)
    BY DEF EchoInv
  <2>1. /\ updates[n] = 0 /\ queue[n] = <<>> /\ handling[n] = None /\ sent[n] = {}
        /\ \A m \in Nodes : applying[n][m] = None
    BY DEF Init
  <2>2. ~ (updates[n] > 0) /\ \A i \in 1 .. Len(queue[n]) : FALSE
    BY <2>1, SMT
  <2> QED
    BY <2>1, <2>2 DEF Guarded
<1>4. \A n \in Nodes : \A m \in Nodes \ {n} : link[<<n, m>>] = <<>>
  BY DEF Init, Links
<1>5. CleanInv
  BY <1>4, SMT DEF CleanInv
<1>6. SeqInv
  <2> SUFFICES ASSUME NEW m \in Nodes, NEW n \in Nodes \ {m}
               PROVE  Rising(link[<<m, n>>], sequences[n][m], sequence[m])
    BY DEF SeqInv
  <2>1. link[<<m, n>>] = <<>> /\ sequences[n][m] = 0 /\ sequence[m] = 1
    BY <1>4 DEF Init
  <2>2. Rising(<<>>, 0, 1)
    BY SMT DEF Rising
  <2> QED
    BY <2>1, <2>2
<1> QED
  BY <1>1, <1>2, <1>3, <1>5, <1>6 DEF Inv

\* Every step preserves it.
LEMMA InvStep == Inv /\ [Next]_vars => Inv'
BY TypeStep, ClipStep, GuardStep, EchoStep, SeqStep DEF Inv

\* The invariant holds in every state.
THEOREM ClipboardInvariant == Spec => []Inv
BY InvInit, InvStep, PTL DEF Spec

\* The variables keep their types, and neither the guard's history nor the backend's
\* channel grows beyond its capacity.
THEOREM ClipboardTypeCorrect == Spec => []TypeOK
<1>1. Inv => TypeOK
  BY DEF Inv
<1> QED
  BY <1>1, ClipboardInvariant, PTL

\* As long as its guard has forgotten nothing, a node sends what its own user copied or
\* what its backend read in place of something a peer sent, and nothing twice: what it
\* was sent and could hold goes no further (handle_local_change and record_received).
THEOREM NoEcho == Spec => []EchoFree
<1>1. Inv => EchoFree
  BY DEF Inv, EchoInv, CleanInv, EchoFree, Guarded, Sendable
<1> QED
  BY <1>1, ClipboardInvariant, PTL

\* Of what a peer does not apply, it knew the content or its policy rejects it: before a
\* restart the check of sequence numbers (record_received) turns nothing away.
THEOREM OnlyKnownDropped == Spec => DropsOnlyKnown
<1> DEFINE Drop(l) == /\ restarts' = 0
                      /\ link[l] # <<>> /\ link'[l] = Tail(link[l])
                      /\ applying'[l[2]][l[1]] = None
           Refusable(l) == Head(link[l]).content \in Blocked \cup Seen(l[2])
<1>1. ASSUME Inv, [Next]_vars, NEW l \in Links, Drop(l)
      PROVE  Refusable(l)
  <2> USE DEF hostVars, engineVars, historyVars
  <2>1. link[l] \in Seq(Message) /\ link[l] # <<>> /\ link'[l] = Tail(link[l])
    BY <1>1 DEF Inv, TypeOK
  <2>2. link'[l] # link[l] /\ Len(link'[l]) = Len(link[l]) - 1 /\ Len(link[l]) \in Nat
    BY <2>1, Taken
  <2>3. ASSUME NEW n \in Nodes, NEW m \in Nodes \ {n}, Accepts(n, m) \/ Suppresses(n, m)
        PROVE  Refusable(l)
    <3>1. l = <<m, n>>
      BY <1>1, <2>2, <2>3 DEF Accepts, Suppresses, Incoming, Inv, TypeOK
    <3>2. ~ Accepts(n, m)
      <4> SUFFICES ASSUME Accepts(n, m) PROVE FALSE
        OBVIOUS
      <4>1. Head(link[l]) \in Message
        BY <2>1, Taken
      <4>2. Head(link[l]).content \in Contents
        BY <4>1 DEF Message
      <4>3. applying'[n][m] = Head(link[l]).content /\ l[1] = m /\ l[2] = n
        BY <1>1, <3>1 DEF Accepts, Inv, TypeOK
      <4> QED
        BY <1>1, <3>1, <4>2, <4>3, ClipboardConstants
    <3>3. restarts = 0
      BY <1>1, <2>3 DEF Accepts, Suppresses, Incoming
    <3>4. sequences[n][m] < Head(link[l]).sequence
      <4>1. Rising(link[l], sequences[n][m], sequence[m])
        BY <1>1, <3>1, <3>3 DEF Inv, SeqInv
      <4>2. sequences[n][m] \in Nat /\ sequence[m] \in Nat
        BY <1>1, SMT DEF Inv, TypeOK
      <4> QED
        BY <2>1, <4>1, <4>2, RisingTail
    <3>5. Suppresses(n, m)
      BY <2>3, <3>2
    <3>6. Head(link[l]).content \in Blocked \/ should_suppress(n, Head(link[l]).content)
      BY <3>1, <3>4, <3>5 DEF Suppresses, IsFresh
    <3> QED
      BY <3>1, <3>6 DEF should_suppress
  <2>4. ASSUME NEW n \in Nodes, SendLocal(n) PROVE FALSE
    <3> DEFINE msg == [content |-> handling[n], sequence |-> sequence[n]]
    <3>1. msg \in Message
      BY <1>1, <2>4 DEF SendLocal, Inv, TypeOK, Message
    <3>2. link'[l] = Append(link[l], msg) \/ link'[l] = link[l]
      BY <2>4 DEF SendLocal
    <3> HIDE DEF msg
    <3>3. Len(Append(link[l], msg)) = Len(link[l]) + 1
      BY <2>1, <3>1, Added
    <3> QED
      BY <2>2, <3>2, <3>3, SMT
  <2>5. ASSUME NEW n \in Nodes, Restart(n) PROVE FALSE
    BY <1>1, <2>5, SMT DEF Restart, Inv, TypeOK
  <2>6. ASSUME NEW n \in Nodes, NEW m \in Nodes,
               \/ \E c \in Contents : Copy(n, c)
               \/ Notify(n) \/ NotifyNothing(n) \/ Apply(n, m) \/ ApplyFails(n, m) \/ CheckLocal(n)
               \/ MonitorEnds(n)
        PROVE  FALSE
    BY <2>2, <2>6 DEF Copy, Notify, NotifyNothing, Apply, ApplyFails, CheckLocal, MonitorEnds
  <2>7. CASE UNCHANGED vars
    BY <2>2, <2>7 DEF vars
  <2> QED
    BY <1>1, <2>3, <2>4, <2>5, <2>6, <2>7 DEF Next
<1>2. Inv /\ [Next]_vars => [\A l \in Links :
         /\ restarts' = 0
         /\ link[l] # <<>> /\ link'[l] = Tail(link[l])
         /\ applying'[l[2]][l[1]] = None
         => Head(link[l]).content \in Blocked \cup Seen(l[2])]_vars
  BY <1>1
<1> QED
  BY <1>2, ClipboardInvariant, PTL DEF Spec, DropsOnlyKnown

-----------------------------------------------------------------------------
(***************************************************************************)
(* Where a copy is on its way to the other nodes.                          *)
(***************************************************************************)

\* What is copied without being called unusual passes every backend and the policy.
PlainInv ==
    ~ unusual => \A n \in Nodes : \A c \in copied[n] :
                   c \notin Blocked /\ \A m \in Nodes : ReadBack[m][c] = c

\* A restart is a fault.
RestartInv == restarts # 0 => fault

\* So far only the user of a copied, nothing failed and no guard forgot.
Calm(a) ==
    /\ ~ unusual /\ ~ fault
    /\ \A n \in Nodes : ~ evicted[n]
    /\ \A n \in Nodes \ {a} : copied[n] = {}

\* The newest element of a sequence of contents.
LastOf(q) == IF q = <<>> THEN None ELSE q[Len(q)]

\* The newest content that the listener has read of a's clipboard.
Read(a) ==
    IF queue[a] # <<>> THEN LastOf(queue[a])
    ELSE IF handling[a] # None THEN handling[a] ELSE LastOf(history[a])

\* rank numbers what the user of a copied; the clipboard has the newest of it.
Ranked(a, rank) ==
    /\ \A c \in copied[a] : rank[c] <= copies
    /\ \A c, d \in copied[a] : rank[c] = rank[d] => c = d
    /\ clip[a] \in copied[a] \cup {None}
    /\ \A c \in copied[a] : clip[a] # None /\ rank[c] <= rank[clip[a]]

\* Listener, monitor and engine of a hand its copies on in the order of copying.
Source(a, rank) ==
    /\ \A m \in Nodes : applying[a][m] = None
    /\ Seen(a) \subseteq copied[a] /\ handling[a] \in copied[a] \cup {None}
    /\ \A i \in 1..Len(queue[a]) : queue[a][i] \in copied[a]
    /\ \A i, j \in 1..Len(queue[a]) : i < j => rank[queue[a][i]] <= rank[queue[a][j]]
    /\ handling[a] # None => \A i \in 1..Len(queue[a]) : rank[handling[a]] <= rank[queue[a][i]]
    /\ handling[a] # None => \A c \in Seen(a) : rank[c] < rank[handling[a]]
    /\ \A c \in Seen(a) : rank[c] <= rank[LastOf(history[a])]
    /\ \A c \in Seen(a) : \A i \in 1..Len(queue[a]) : rank[c] <= rank[queue[a][i]]
    /\ updates[a] = 0 => clip[a] = Read(a)

\* Another node m applies what arrives and sends nothing.
Sink(a, m) ==
    /\ handling[m] = None
    /\ \A o \in Nodes \ {m} : link[<<m, o>>] = <<>>
    /\ Seen(m) \subseteq Seen(a)
    /\ \A i \in 1..Len(queue[m]) : queue[m][i] \in Seen(m)
    /\ clip[m] \in Seen(m) \cup {None}
    /\ \A o \in Nodes \ {a} : applying[m][o] = None
    /\ LastOf(history[m]) = IF applying[m][a] # None THEN applying[m][a] ELSE clip[m]

\* The stream from a to m: what a sent and m has not received yet, in order.
Stream(a, m, rank) ==
    LET q == link[<<a, m>>]
    IN  /\ \A i \in 1..Len(q) : q[i].content \in Seen(a)
        /\ \A i, j \in 1..Len(q) : i < j => rank[q[i].content] < rank[q[j].content]
        /\ \A c \in Seen(m) : \A i \in 1..Len(q) : rank[c] < rank[q[i].content]
        /\ LastOf(history[a]) = IF q # <<>> THEN q[Len(q)].content ELSE LastOf(history[m])

Flow(a, rank) ==
    /\ Ranked(a, rank) /\ Source(a, rank)
    /\ \A m \in Nodes \ {a} : Sink(a, m) /\ Stream(a, m, rank)

FlowInv == \A a \in Nodes : Calm(a) => \E rank \in [Contents -> Nat] : Flow(a, rank)

-----------------------------------------------------------------------------
(***************************************************************************)
(* Every step keeps them on their way.                                     *)
(***************************************************************************)

\* The newest element of a sequence that grows.
LEMMA LastAdded ==
    ASSUME NEW S, NEW q \in Seq(S), NEW x \in S
    PROVE  LastOf(Append(q, x)) = x /\ Append(q, x) # <<>>
BY SMT DEF LastOf

\* The newest element of a sequence that grows or shrinks.
LEMMA LastFacts ==
    ASSUME NEW S, NEW q \in Seq(S), NEW x \in S
    PROVE  /\ LastOf(Append(q, x)) = x /\ Append(q, x) # <<>>
           /\ q # <<>> /\ Tail(q) # <<>> => LastOf(Tail(q)) = LastOf(q)
           /\ q # <<>> /\ Tail(q) = <<>> => LastOf(q) = Head(q)
           /\ q # <<>> => LastOf(q) = q[Len(q)] /\ Len(q) \in 1..Len(q) /\ Head(q) = q[1] /\ 1 \in 1..Len(q)
<1>1. LastOf(Append(q, x)) = x /\ Append(q, x) # <<>>
  BY SMT DEF LastOf
<1>2. ASSUME q # <<>>
      PROVE  LastOf(q) = q[Len(q)] /\ Len(q) \in 1..Len(q) /\ Head(q) = q[1] /\ 1 \in 1..Len(q)
  BY <1>2, SMT DEF LastOf
<1>3. ASSUME q # <<>>, Tail(q) # <<>> PROVE LastOf(Tail(q)) = LastOf(q)
  <2> DEFINE t == Tail(q)
  <2>1. /\ t \in Seq(S) /\ Len(t) = Len(q) - 1 /\ Len(q) \in Nat
        /\ \A i \in 1 .. Len(t) : i + 1 \in 1 .. Len(q) /\ t[i] = q[i + 1]
    BY <1>3, Taken
  <2>2. Len(t) \in 1 .. Len(t) /\ Len(t) + 1 = Len(q)
    BY <1>3, <2>1, SMT
  <2>3. t # <<>>
    BY <1>3
  <2> HIDE DEF t
  <2>4. t[Len(t)] = q[Len(q)]
    BY <2>1, <2>2
  <2>5. LastOf(t) = LastOf(q)
    BY <1>3, <2>3, <2>4 DEF LastOf
  <2> QED
    BY <2>5 DEF t
<1>4. ASSUME q # <<>>, Tail(q) = <<>> PROVE LastOf(q) = Head(q)
  <2>1. Len(Tail(q)) = Len(q) - 1 /\ Len(q) \in Nat /\ Head(q) = q[1]
    BY <1>4, Taken
  <2>0. Len(<<>>) = 0
    BY SMT
  <2>2. Len(Tail(q)) = 0
    BY <1>4, <2>0
  <2>3. Len(q) = 1
    BY <2>1, <2>2, SMT
  <2> QED
    BY <1>4, <2>1, <2>3 DEF LastOf
<1> QED
  BY <1>1, <1>2, <1>3, <1>4

\* What the guard knows includes the newest hash, and nothing when it has none.
LEMMA SeenFacts ==
    ASSUME TypeOK, NEW n \in Nodes
    PROVE  /\ history[n] \in Seq(Contents) /\ Seen(n) \subseteq Contents
           /\ history[n] # <<>> => LastOf(history[n]) \in Seen(n)
           /\ history[n] = <<>> => Seen(n) = {} /\ LastOf(history[n]) = None
<1>1. history[n] \in Seq(Contents)
  BY DEF TypeOK
<1>2. Seen(n) \subseteq Contents
  BY <1>1, SMT DEF Seen
<1>3. history[n] # <<>> => Len(history[n]) \in 1..Len(history[n])
  BY <1>1, SMT
<1>4. history[n] # <<>> => LastOf(history[n]) \in Seen(n)
  BY <1>3 DEF LastOf, Seen
<1>5. history[n] = <<>> => Seen(n) = {}
  BY SMT DEF Seen
<1> QED
  BY <1>1, <1>2, <1>4, <1>5 DEF LastOf

\* A guard that did not change.
LEMMA SeenSame ==
    ASSUME NEW n \in Nodes, history'[n] = history[n]
    PROVE  Seen(n)' = Seen(n)
BY DEF Seen

\* A guard that learnt a hash and forgot none.
LEMMA PushAppends ==
    ASSUME TypeOK, NEW n \in Nodes, NEW c \in Contents, push_hash(n, c), c \notin Seen(n), ~ evicted'[n]
    PROVE  /\ history'[n] = Append(history[n], c) /\ Seen(n)' = Seen(n) \cup {c}
           /\ \A o \in Nodes \ {n} : history'[o] = history[o]
<1>1. history \in [Nodes -> Seq(Contents)] /\ evicted \in [Nodes -> BOOLEAN] /\ history[n] \in Seq(Contents)
  BY DEF TypeOK
<1>2. /\ history' = [history EXCEPT ![n] = Append(IF Len(history[n]) >= Capacity THEN Tail(@) ELSE @, c)]
      /\ evicted' = [evicted EXCEPT ![n] = @ \/ Len(history[n]) >= Capacity]
  BY DEF push_hash, should_suppress
<1>3. ~ (Len(history[n]) >= Capacity)
  BY <1>1, <1>2
<1>4. history'[n] = Append(history[n], c)
  BY <1>1, <1>2, <1>3
<1>5. /\ Len(history[n]) \in Nat /\ Len(Append(history[n], c)) = Len(history[n]) + 1
      /\ \A i \in 1 .. Len(history[n]) + 1 :
           Append(history[n], c)[i] = IF i <= Len(history[n]) THEN history[n][i] ELSE c
  BY <1>1, Added, SMT
<1>6. Seen(n)' = Seen(n) \cup {c}
  <2>1. Seen(n)' = {history'[n][i] : i \in 1..Len(history[n]) + 1}
    BY <1>4, <1>5 DEF Seen
  <2>2. \A i \in 1..Len(history[n]) + 1 : history'[n][i] \in Seen(n) \cup {c}
    BY <1>4, <1>5, SMT DEF Seen
  <2>3. \A i \in 1..Len(history[n]) : i \in 1..Len(history[n]) + 1 /\ history'[n][i] = history[n][i]
    BY <1>4, <1>5, SMT
  <2>4. Len(history[n]) + 1 \in 1..Len(history[n]) + 1 /\ history'[n][Len(history[n]) + 1] = c
    BY <1>4, <1>5, SMT
  <2> QED
    BY ZenonT(60), <2>1, <2>2, <2>3, <2>4 DEF Seen
<1> QED
  BY <1>1, <1>2, <1>4, <1>6

\* Only Copy changes what is copied, and it calls unusual what is not plain.
LEMMA PlainStep ==
    ASSUME TypeOK, PlainInv, [Next]_vars
    PROVE  PlainInv'
<1> USE DEF hostVars, engineVars, historyVars
<1>1. ASSUME NEW n \in Nodes, NEW c \in Contents, Copy(n, c) PROVE PlainInv'
  <2>1. \A o \in Nodes : \A d \in copied'[o] : d \in copied[o] \/ d = c
    BY <1>1 DEF Copy, TypeOK
  <2>2. ~ unusual' => ~ unusual /\ c \notin Blocked /\ \A m \in Nodes : ReadBack[m][c] = c
    BY <1>1 DEF Copy
  <2> QED
    BY <2>1, <2>2 DEF PlainInv
<1>2. CASE UNCHANGED <<copied, unusual>>
  BY <1>2 DEF PlainInv
<1>3. ASSUME NEW n \in Nodes, NEW m \in Nodes,
             \/ Notify(n) \/ NotifyNothing(n) \/ Apply(n, m) \/ ApplyFails(n, m) \/ CheckLocal(n)
             \/ SendLocal(n) \/ MonitorEnds(n) \/ Restart(n)
      PROVE  PlainInv'
  BY <1>2, <1>3 DEF Notify, NotifyNothing, Apply, ApplyFails, CheckLocal, SendLocal, MonitorEnds, Restart
<1>4. ASSUME NEW n \in Nodes, NEW m \in Nodes \ {n}, Accepts(n, m) \/ Suppresses(n, m) PROVE PlainInv'
  BY <1>2, <1>4 DEF Accepts, Suppresses, Incoming
<1>5. CASE UNCHANGED vars
  BY <1>2, <1>5 DEF vars
<1> QED
  BY <1>1, <1>3, <1>4, <1>5 DEF Next

\* Only Restart restarts.
LEMMA RestartStep ==
    ASSUME RestartInv, [Next]_vars
    PROVE  RestartInv'
<1> USE DEF hostVars, engineVars, historyVars
<1>1. CASE UNCHANGED <<restarts, fault>>
  BY <1>1 DEF RestartInv
<1>2. ASSUME NEW n \in Nodes, NEW m \in Nodes,
             Restart(n) \/ Notify(n) \/ NotifyNothing(n) \/ ApplyFails(n, m)
      PROVE  RestartInv'
  BY <1>2 DEF Restart, Notify, NotifyNothing, ApplyFails, RestartInv
<1>3. ASSUME NEW n \in Nodes, NEW m \in Nodes,
             \/ \E c \in Contents : Copy(n, c)
             \/ Apply(n, m) \/ CheckLocal(n) \/ SendLocal(n) \/ MonitorEnds(n)
      PROVE  RestartInv'
  BY <1>1, <1>3 DEF Copy, Apply, CheckLocal, SendLocal, MonitorEnds
<1>4. ASSUME NEW n \in Nodes, NEW m \in Nodes \ {n}, Accepts(n, m) \/ Suppresses(n, m) PROVE RestartInv'
  BY <1>1, <1>4 DEF Accepts, Suppresses, Incoming
<1>5. CASE UNCHANGED vars
  BY <1>1, <1>5 DEF vars
<1> QED
  BY <1>2, <1>3, <1>4, <1>5 DEF Next

\* What was calm after a step was so before it: the history only grows.
LEMMA CalmBefore ==
    ASSUME TypeOK, [Next]_vars, NEW a \in Nodes, Calm(a)'
    PROVE  Calm(a)
<1> USE DEF hostVars, engineVars, historyVars
<1>0. /\ ~ unusual' /\ ~ fault' /\ \A o \in Nodes : ~ evicted'[o]
      /\ \A o \in Nodes \ {a} : copied'[o] = {}
  BY DEF Calm
<1>1. CASE UNCHANGED <<copied, evicted>> /\ (unusual' = unusual) /\ (fault => fault')
  BY <1>0, <1>1 DEF Calm
<1>2. ASSUME NEW n \in Nodes, NEW c \in Contents, Copy(n, c) PROVE Calm(a)
  <2>1. ~ unusual /\ ~ fault /\ evicted' = evicted
    BY <1>0, <1>2 DEF Copy
  <2>2. \A o \in Nodes : copied[o] \subseteq copied'[o]
    BY <1>2 DEF Copy, TypeOK
  <2> QED
    BY <1>0, <2>1, <2>2 DEF Calm
<1>3. ASSUME NEW n \in Nodes, NEW c, push_hash(n, c), UNCHANGED <<copied, unusual, fault>> PROVE Calm(a)
  <2>1. \A o \in Nodes : ~ evicted[o]
    BY <1>0, <1>3 DEF push_hash, TypeOK
  <2> QED
    BY <1>0, <1>3, <2>1 DEF Calm
<1>4. ASSUME NEW n \in Nodes, SendLocal(n) PROVE Calm(a)
  BY <1>3, <1>4 DEF SendLocal
<1>5. ASSUME NEW n \in Nodes, NEW m \in Nodes \ {n}, Accepts(n, m) PROVE Calm(a)
  BY <1>3, <1>5 DEF Accepts, Incoming, record_received
<1>6. ASSUME NEW n \in Nodes, NEW m \in Nodes \ {n}, Suppresses(n, m) PROVE Calm(a)
  BY <1>1, <1>6 DEF Suppresses, Incoming
<1>7. ASSUME NEW n \in Nodes, NEW m \in Nodes,
             \/ Notify(n) \/ NotifyNothing(n) \/ Apply(n, m) \/ ApplyFails(n, m) \/ CheckLocal(n)
             \/ MonitorEnds(n) \/ Restart(n)
      PROVE  Calm(a)
  BY <1>1, <1>7 DEF Notify, NotifyNothing, Apply, ApplyFails, CheckLocal, MonitorEnds, Restart
<1>8. CASE UNCHANGED vars
  BY <1>1, <1>8 DEF vars
<1> QED
  BY <1>2, <1>4, <1>5, <1>6, <1>7, <1>8 DEF Next

\* The pipeline of the copying node, when a step leaves it alone.
LEMMA SourceStays ==
    ASSUME NEW a \in Nodes, NEW rank, Source(a, rank),
           clip'[a] = clip[a], updates'[a] = updates[a], queue'[a] = queue[a], handling'[a] = handling[a],
           applying'[a] = applying[a], history'[a] = history[a], copied'[a] = copied[a]
    PROVE  Source(a, rank)'
<1>1. Seen(a)' = Seen(a)
  BY SeenSame
<1>2. Read(a)' = Read(a)
  BY DEF Read
<1> QED
  BY <1>1, <1>2 DEF Source

\* Its copies and their order.
LEMMA RankedStays ==
    ASSUME NEW a \in Nodes, NEW rank, Ranked(a, rank),
           clip'[a] = clip[a], copied'[a] = copied[a], copies' = copies
    PROVE  Ranked(a, rank)'
BY DEF Ranked

\* A receiving node that a step leaves alone, while the guard of the copying node knows more.
LEMMA SinkStays ==
    ASSUME NEW a \in Nodes, NEW m \in Nodes, Sink(a, m), Seen(a) \subseteq Seen(a)',
           clip'[m] = clip[m], queue'[m] = queue[m], handling'[m] = handling[m],
           applying'[m] = applying[m], history'[m] = history[m],
           \A o \in Nodes \ {m} : link'[<<m, o>>] = link[<<m, o>>]
    PROVE  Sink(a, m)'
<1>1. Seen(m)' = Seen(m)
  BY SeenSame
<1> QED
  BY <1>1 DEF Sink

\* A stream that a step leaves alone.
LEMMA StreamStays ==
    ASSUME NEW a \in Nodes, NEW m \in Nodes, NEW rank, Stream(a, m, rank),
           link'[<<a, m>>] = link[<<a, m>>], history'[a] = history[a], history'[m] = history[m]
    PROVE  Stream(a, m, rank)'
<1>1. Seen(m)' = Seen(m) /\ Seen(a)' = Seen(a)
  BY SeenSame
<1> QED
  BY <1>1 DEF Stream

\* What the history is about stays when its variables do.
LEMMA FlowStays ==
    ASSUME NEW a \in Nodes, NEW rank, Flow(a, rank),
           UNCHANGED <<clip, updates, queue, handling, applying, history, link, copied, copies>>
    PROVE  Flow(a, rank)'
<1>1. Ranked(a, rank)' /\ Source(a, rank)'
  BY RankedStays, SourceStays DEF Flow
<1>2. ASSUME NEW m \in Nodes \ {a} PROVE Sink(a, m)' /\ Stream(a, m, rank)'
  <2>1. Sink(a, m) /\ Stream(a, m, rank)
    BY DEF Flow
  <2>2. Seen(a) \subseteq Seen(a)'
    BY SeenSame
  <2> QED
    BY <2>1, <2>2, SinkStays, StreamStays
<1> QED
  BY <1>1, <1>2 DEF Flow

\* A copy gets a number above all others.
LEMMA FlowCopy ==
    ASSUME TypeOK, NEW a \in Nodes, Calm(a)', NEW rank \in [Contents -> Nat], Flow(a, rank),
           NEW n \in Nodes, NEW c \in Contents, Copy(n, c)
    PROVE  \E r \in [Contents -> Nat] : Flow(a, r)'
<1> USE DEF hostVars, engineVars, historyVars
<1>0. /\ copied[a] \subseteq Contents /\ copies \in Nat /\ updates[a] \in Nat
      /\ Seen(a) \subseteq Contents /\ (Seen(a) # {} => LastOf(history[a]) \in Seen(a))
  BY SeenFacts DEF TypeOK
<1>1. copied'[n] = copied[n] \cup {c}
  BY DEF Copy, TypeOK
<1>2. n = a
  BY <1>1 DEF Calm
<1>3. c \notin copied[a]
  BY DEF Calm, Copy, Known
<1>4. /\ clip'[a] = c /\ updates'[a] = updates[a] + 1 /\ copies' = copies + 1
      /\ copied'[a] = copied[a] \cup {c}
      /\ UNCHANGED <<queue, handling, applying, history, link>>
      /\ \A m \in Nodes \ {a} : clip'[m] = clip[m]
  BY <1>1, <1>2 DEF Copy, TypeOK
<1>5. copies + 1 \in Nat
  BY <1>0, SMT
<1>6. PICK r \in [Contents -> Nat] :
        r[c] = copies + 1 /\ \A d \in copied[a] : r[d] = rank[d] /\ rank[d] \in Nat
  <2>1. [rank EXCEPT ![c] = copies + 1] \in [Contents -> Nat]
    BY <1>5
  <2> QED
    BY <1>0, <1>3, <2>1
<1>7. c # None
  BY ClipboardConstants
<1>8. Seen(a)' = Seen(a) /\ \A m \in Nodes : Seen(m)' = Seen(m)
  BY <1>4, SeenSame
<1>9. Ranked(a, r)'
  <2>1. \A d \in copied[a] : rank[d] <= copies
    BY DEF Flow, Ranked
  <2>2. \A d \in copied[a] : r[d] <= copies + 1 /\ r[d] # r[c]
    BY <1>0, <1>6, <2>1, SMT
  <2>3. r[c] <= copies + 1
    BY <1>5, <1>6, SMT
  <2>4. \A d, e \in copied[a] : r[d] = r[e] => d = e
    BY <1>6 DEF Flow, Ranked
  <2> QED
    BY ZenonT(60), <1>4, <1>6, <1>7, <2>2, <2>3, <2>4 DEF Ranked
<1>10. Source(a, r)'
  <2>1. Source(a, rank)
    BY DEF Flow
  <2>2. updates'[a] # 0
    BY <1>0, <1>4, SMT
  <2>3. handling[a] # None => r[handling[a]] = rank[handling[a]]
    BY <1>6, <2>1 DEF Source
  <2>4. \A i \in 1..Len(queue[a]) : r[queue[a][i]] = rank[queue[a][i]]
    BY <1>6, <2>1 DEF Source
  <2>5. \A d \in Seen(a) : r[d] = rank[d] /\ r[LastOf(history[a])] = rank[LastOf(history[a])]
    BY <1>0, <1>6, <2>1 DEF Source
  <2>6. /\ \A m \in Nodes : applying'[a][m] = None
        /\ Seen(a)' \subseteq copied'[a] /\ handling'[a] \in copied'[a] \cup {None}
        /\ \A i \in 1..Len(queue'[a]) : queue'[a][i] \in copied'[a]
    BY <1>4, <1>8, <2>1 DEF Source
  <2>7. /\ \A i, j \in 1..Len(queue'[a]) : i < j => r[queue'[a][i]] <= r[queue'[a][j]]
        /\ handling'[a] # None => \A i \in 1..Len(queue'[a]) : r[handling'[a]] <= r[queue'[a][i]]
    BY ZenonT(60), <1>4, <2>1, <2>3, <2>4 DEF Source
  <2>8. handling'[a] # None => \A d \in Seen(a)' : r[d] < r[handling'[a]]
    BY <1>4, <1>8, <2>1, <2>3, <2>5 DEF Source
  <2>9. \A d \in Seen(a)' : r[d] <= r[LastOf(history'[a])]
    <3>1. \A d \in Seen(a) : rank[d] <= rank[LastOf(history[a])]
      BY <2>1 DEF Source
    <3>2. \A d \in Seen(a) : r[d] <= r[LastOf(history[a])]
      BY <2>5, <3>1
    <3> QED
      BY <1>4, <1>8, <3>2
  <2>10. \A d \in Seen(a)' : \A i \in 1..Len(queue'[a]) : r[d] <= r[queue'[a][i]]
    <3>1. \A d \in Seen(a) : \A i \in 1..Len(queue[a]) : rank[d] <= rank[queue[a][i]]
      BY <2>1 DEF Source
    <3>2. \A d \in Seen(a) : \A i \in 1..Len(queue[a]) : r[d] <= r[queue[a][i]]
      BY <2>4, <2>5, <3>1
    <3> QED
      BY <1>4, <1>8, <3>2
  <2> QED
    BY <2>2, <2>6, <2>7, <2>8, <2>9, <2>10 DEF Source
<1>11. ASSUME NEW m \in Nodes \ {a} PROVE Sink(a, m)' /\ Stream(a, m, r)'
  <2>1. Sink(a, m) /\ Stream(a, m, rank) /\ Seen(a) \subseteq copied[a]
    BY DEF Flow, Source
  <2>2. Sink(a, m)'
    BY <1>4, <1>8, <2>1, SinkStays
  <2>3. \A d \in Seen(a) : r[d] = rank[d]
    BY <1>6, <2>1
  <2>4. \A d \in Seen(m) : r[d] = rank[d]
    BY <2>1, <2>3 DEF Sink
  <2>5. Stream(a, m, r)
    BY <2>1, <2>3, <2>4 DEF Stream
  <2> QED
    BY <1>4, <2>2, <2>5, StreamStays
<1> QED
  BY <1>6, <1>9, <1>10, <1>11 DEF Flow

\* The listener hands the newest copy on, behind the older ones.
LEMMA FlowNotifySource ==
    ASSUME TypeOK, ClipInv, PlainInv, NEW a \in Nodes, Calm(a), Calm(a)', NEW rank \in [Contents -> Nat],
           Flow(a, rank), Notify(a)
    PROVE  Flow(a, rank)'
<1> USE DEF hostVars, engineVars, historyVars
<1> DEFINE c == clip[a]
           q == queue[a]
<1>0. Ranked(a, rank) /\ Source(a, rank)
  BY DEF Flow
<1>1. q \in Seq(Contents) /\ c \in Contents /\ c \in copied[a] /\ updates[a] \in Nat /\ updates[a] > 0
  BY <1>0, ClipboardConstants DEF TypeOK, ClipInv, Notify, Ranked
<1>2. ReadBack[a][c] = c
  BY <1>1 DEF PlainInv, Calm
<1>3. /\ queue'[a] = Append(q, c)
      /\ \A m \in Nodes \ {a} : queue'[m] = queue[m]
      /\ UNCHANGED <<clip, handling, applying, history, link, copied, copies>>
  <2>1. ~ (Len(q) >= NotifierCapacity)
    BY DEF Calm, Notify
  <2> QED
    BY <1>2, <2>1 DEF Notify, TypeOK
<1>4. /\ Len(q) \in Nat /\ Len(Append(q, c)) = Len(q) + 1
      /\ \A i \in 1 .. Len(q) + 1 : Append(q, c)[i] = IF i <= Len(q) THEN q[i] ELSE c
  BY <1>1, Added, SMT
<1>5. LastOf(Append(q, c)) = c /\ Append(q, c) # <<>>
  BY <1>1, LastAdded, SMT
<1>6. \A d \in copied[a] : rank[d] <= rank[c] /\ rank[d] \in Nat
  <2>1. copied[a] \subseteq Contents
    BY DEF TypeOK
  <2> QED
    BY <1>0, <2>1 DEF Ranked
<1>7. Seen(a)' = Seen(a) /\ \A m \in Nodes : Seen(m)' = Seen(m)
  BY <1>3, SeenSame
<1>8. Ranked(a, rank)'
  BY <1>0, <1>3, RankedStays
<1>9. Source(a, rank)'
  <2> DEFINE r == Append(q, c)
  <2>1. \A i \in 1..Len(r) : (i \in 1..Len(q) /\ r[i] = q[i]) \/ (i = Len(q) + 1 /\ r[i] = c)
    BY <1>4, SMT
  <2>2. \A i \in 1..Len(q) : q[i] \in copied[a]
    BY <1>0 DEF Source
  <2>3. \A i \in 1..Len(r) : r[i] \in copied[a]
    BY <1>1, <2>1, <2>2
  <2>4. ASSUME NEW i \in 1..Len(r), NEW j \in 1..Len(r), i < j PROVE rank[r[i]] <= rank[r[j]]
    <3>1. CASE j \in 1..Len(q) /\ r[j] = q[j]
      <4>1. i \in 1..Len(q) /\ r[i] = q[i]
        BY <1>4, <2>1, <2>4, <3>1, SMT
      <4> QED
        BY <1>0, <2>4, <3>1, <4>1 DEF Source
    <3>2. CASE r[j] = c
      BY <1>6, <2>3, <3>2
    <3> QED
      BY <2>1, <3>1, <3>2
  <2>5. ASSUME NEW d \in copied[a], \A i \in 1..Len(q) : rank[d] <= rank[q[i]]
        PROVE  \A i \in 1..Len(r) : rank[d] <= rank[r[i]]
    BY <1>6, <2>1, <2>5
  <2>6. handling[a] # None => \A i \in 1..Len(r) : rank[handling[a]] <= rank[r[i]]
    BY <1>0, <2>5 DEF Source
  <2>7. \A d \in Seen(a) : \A i \in 1..Len(r) : rank[d] <= rank[r[i]]
    BY <1>0, <2>5 DEF Source
  <2>8. queue'[a] = r
    BY <1>3
  <2>9. Read(a)' = clip'[a]
    BY <1>3, <1>5 DEF Read
  <2>10. /\ \A d \in Seen(a) : rank[d] <= rank[LastOf(history[a])]
         /\ handling[a] # None => \A d \in Seen(a) : rank[d] < rank[handling[a]]
         /\ (\A m \in Nodes : applying[a][m] = None) /\ Seen(a) \subseteq copied[a] /\ handling[a] \in copied[a] \cup {None}
    BY <1>0 DEF Source
  <2> HIDE DEF r
  <2> QED
    BY <1>3, <1>7, <2>3, <2>4, <2>6, <2>7, <2>8, <2>9, <2>10 DEF Source
<1>10. ASSUME NEW m \in Nodes \ {a} PROVE Sink(a, m)' /\ Stream(a, m, rank)'
  <2>1. Sink(a, m) /\ Stream(a, m, rank)
    BY DEF Flow
  <2> QED
    BY <1>3, <1>7, <2>1, SinkStays, StreamStays
<1> QED
  BY <1>8, <1>9, <1>10 DEF Flow

\* A step at another node m that leaves the guards, the streams and the copying node alone.
LEMMA FlowAtSink ==
    ASSUME NEW a \in Nodes, NEW rank, Flow(a, rank), NEW m \in Nodes \ {a}, Sink(a, m)',
           \A o \in Nodes \ {m} : /\ clip'[o] = clip[o] /\ updates'[o] = updates[o] /\ queue'[o] = queue[o]
                                  /\ handling'[o] = handling[o] /\ applying'[o] = applying[o],
           UNCHANGED <<history, link, copied, copies>>
    PROVE  Flow(a, rank)'
<1>1. Ranked(a, rank)' /\ Source(a, rank)'
  BY RankedStays, SourceStays DEF Flow
<1>2. ASSUME NEW o \in Nodes \ {a} PROVE Sink(a, o)' /\ Stream(a, o, rank)'
  <2>1. Sink(a, o) /\ Stream(a, o, rank)
    BY DEF Flow
  <2>2. Seen(a) \subseteq Seen(a)'
    BY SeenSame
  <2>3. CASE o # m
    BY <2>1, <2>2, <2>3, SinkStays, StreamStays
  <2>4. CASE o = m
    BY <2>1, <2>4, StreamStays
  <2> QED
    BY <2>3, <2>4
<1> QED
  BY <1>1, <1>2 DEF Flow

\* The listener of another node sees only what was applied there.
LEMMA FlowNotifySink ==
    ASSUME TypeOK, ClipInv, PlainInv, NEW a \in Nodes, Calm(a), Calm(a)', NEW rank \in [Contents -> Nat],
           Flow(a, rank), NEW m \in Nodes \ {a}, Notify(m)
    PROVE  Flow(a, rank)'
<1> USE DEF hostVars, engineVars, historyVars
<1> DEFINE c == clip[m]
           q == queue[m]
<1>0. Sink(a, m) /\ Source(a, rank)
  BY DEF Flow
<1>1. q \in Seq(Contents) /\ c \in Contents /\ c \in Seen(m) /\ c \in copied[a]
  BY <1>0, ClipboardConstants DEF TypeOK, ClipInv, Notify, Sink, Source
<1>2. ReadBack[m][c] = c
  BY <1>1 DEF PlainInv, Calm
<1>3. /\ queue'[m] = Append(q, c)
      /\ \A o \in Nodes \ {m} : queue'[o] = queue[o] /\ updates'[o] = updates[o]
      /\ UNCHANGED <<clip, handling, applying, history, link, copied, copies>>
  <2>1. ~ (Len(q) >= NotifierCapacity)
    BY DEF Calm, Notify
  <2> QED
    BY <1>2, <2>1 DEF Notify, TypeOK
<1>4. /\ Len(q) \in Nat /\ Len(Append(q, c)) = Len(q) + 1
      /\ \A i \in 1 .. Len(q) + 1 : Append(q, c)[i] = IF i <= Len(q) THEN q[i] ELSE c
  BY <1>1, Added, SMT
<1>5. \A i \in 1..Len(queue'[m]) : (i \in 1..Len(q) /\ queue'[m][i] = q[i]) \/ queue'[m][i] = c
  BY <1>3, <1>4, SMT
<1>6. \A i \in 1..Len(queue'[m]) : queue'[m][i] \in Seen(m)
  BY <1>0, <1>1, <1>5 DEF Sink
<1>7. Seen(a)' = Seen(a) /\ Seen(m)' = Seen(m)
  BY <1>3, SeenSame
<1>8. Sink(a, m)'
  BY <1>0, <1>3, <1>6, <1>7 DEF Sink
<1> QED
  BY <1>3, <1>8, FlowAtSink

\* set_content puts the newest content that arrived on the clipboard.
LEMMA FlowApply ==
    ASSUME TypeOK, NEW a \in Nodes, NEW rank \in [Contents -> Nat], Flow(a, rank), NEW m \in Nodes,
           NEW b \in Nodes, Apply(m, b)
    PROVE  Flow(a, rank)'
<1> USE DEF hostVars, engineVars, historyVars
<1>1. m \in Nodes \ {a}
  BY DEF Apply, Flow, Source
<1>2. /\ applying[m][b] # None /\ clip'[m] = applying[m][b] /\ applying'[m][b] = None
      /\ \A o \in Nodes \ {b} : applying'[m][o] = applying[m][o]
      /\ \A o \in Nodes \ {m} : clip'[o] = clip[o] /\ updates'[o] = updates[o] /\ applying'[o] = applying[o]
      /\ UNCHANGED <<queue, handling, history, link, copied, copies>>
  BY DEF Apply, TypeOK
<1>3. Seen(a)' = Seen(a) /\ Seen(m)' = Seen(m)
  BY <1>2, SeenSame
<1>4. Sink(a, m)
  BY <1>1 DEF Flow
<1>5. b = a /\ LastOf(history[m]) = applying[m][a]
  BY <1>2, <1>4 DEF Sink
<1>6. applying[m][a] \in Seen(m)
  BY <1>2, <1>5, SeenFacts
<1>7. Sink(a, m)'
  BY <1>2, <1>3, <1>4, <1>5, <1>6 DEF Sink
<1> QED
  BY <1>1, <1>2, <1>7, FlowAtSink

\* The monitor of another node takes nothing on.
LEMMA FlowCheckSink ==
    ASSUME TypeOK, NEW a \in Nodes, NEW rank \in [Contents -> Nat], Flow(a, rank),
           NEW m \in Nodes \ {a}, CheckLocal(m)
    PROVE  Flow(a, rank)'
<1> USE DEF hostVars, engineVars, historyVars
<1> DEFINE q == queue[m]
<1>0. Sink(a, m)
  BY DEF Flow
<1>1. /\ q \in Seq(Contents) /\ q # <<>> /\ queue'[m] = Tail(q)
      /\ \A o \in Nodes \ {m} : queue'[o] = queue[o] /\ handling'[o] = handling[o]
      /\ UNCHANGED <<clip, updates, applying, history, link, copied, copies>>
  BY DEF CheckLocal, TypeOK
<1>2. /\ Head(q) = q[1] /\ 1 \in 1..Len(q)
      /\ \A i \in 1 .. Len(Tail(q)) : i + 1 \in 1 .. Len(q) /\ Tail(q)[i] = q[i + 1]
  BY <1>1, Taken, SMT
<1>3. Head(q) \in Seen(m)
  BY <1>0, <1>2 DEF Sink
<1>4. handling'[m] = None
  BY <1>3 DEF CheckLocal, should_suppress, TypeOK
<1>5. \A i \in 1..Len(queue'[m]) : queue'[m][i] \in Seen(m)
  <2>1. \A i \in 1..Len(q) : q[i] \in Seen(m)
    BY <1>0 DEF Sink
  <2>2. \A i \in 1..Len(Tail(q)) : Tail(q)[i] \in Seen(m)
    BY <1>2, <2>1
  <2> HIDE DEF q
  <2> QED
    BY <1>1, <2>2
<1>6. Seen(a)' = Seen(a) /\ Seen(m)' = Seen(m)
  BY <1>1, SeenSame
<1>7. Sink(a, m)'
  BY <1>0, <1>1, <1>4, <1>5, <1>6 DEF Sink
<1> QED
  BY <1>1, <1>7, FlowAtSink

\* The monitor of the copying node suppresses only what it sent last.
LEMMA FlowCheckSource ==
    ASSUME TypeOK, PlainInv, NEW a \in Nodes, Calm(a), NEW rank \in [Contents -> Nat], Flow(a, rank), CheckLocal(a)
    PROVE  Flow(a, rank)'
<1> USE DEF hostVars, engineVars, historyVars
<1> DEFINE q == queue[a]
           h == Head(q)
<1>0. Ranked(a, rank) /\ Source(a, rank)
  BY DEF Flow
<1>1. /\ q \in Seq(Contents) /\ q # <<>> /\ queue'[a] = Tail(q) /\ handling[a] = None
      /\ \A o \in Nodes \ {a} : queue'[o] = queue[o] /\ handling'[o] = handling[o]
      /\ UNCHANGED <<clip, updates, applying, history, link, copied, copies>>
  BY DEF CheckLocal, TypeOK, Idle
<1>2. /\ h = q[1] /\ 1 \in 1..Len(q) /\ Len(q) \in Nat /\ Len(Tail(q)) = Len(q) - 1
      /\ \A i \in 1 .. Len(Tail(q)) : i + 1 \in 1 .. Len(q) /\ Tail(q)[i] = q[i + 1]
  BY <1>1, Taken, SMT
<1>3. h \in copied[a] /\ h \notin Blocked /\ h # None
  <2>1. h \in copied[a]
    BY <1>0, <1>2 DEF Source
  <2>2. h \notin Blocked
    BY <2>1 DEF PlainInv, Calm
  <2>3. h # None
    BY <2>1, ClipboardConstants DEF TypeOK
  <2> QED
    BY <2>1, <2>2, <2>3
<1>4. handling'[a] = IF h \in Seen(a) THEN None ELSE h
  BY <1>3 DEF CheckLocal, should_suppress, TypeOK
<1>5. \A d \in copied[a] : rank[d] \in Nat /\ d # None
  BY ClipboardConstants DEF TypeOK
<1>6. \A m \in Nodes : Seen(m)' = Seen(m)
  BY <1>1, SeenSame
<1>7. /\ (\A m \in Nodes : applying[a][m] = None) /\ Seen(a) \subseteq copied[a]
      /\ \A i \in 1..Len(q) : q[i] \in copied[a]
      /\ \A i, j \in 1..Len(q) : i < j => rank[q[i]] <= rank[q[j]]
      /\ \A c \in Seen(a) : rank[c] <= rank[LastOf(history[a])]
      /\ \A c \in Seen(a) : \A i \in 1..Len(q) : rank[c] <= rank[q[i]]
      /\ updates[a] = 0 => clip[a] = Read(a)
  BY <1>0 DEF Source
<1>8. h \in Seen(a) => h = LastOf(history[a])
  <2> SUFFICES ASSUME h \in Seen(a) PROVE h = LastOf(history[a])
    OBVIOUS
  <2>1. LastOf(history[a]) \in Seen(a)
    BY SeenFacts
  <2>2. rank[h] <= rank[LastOf(history[a])] /\ rank[LastOf(history[a])] <= rank[h]
    BY <1>2, <1>7, <2>1
  <2>3. rank[h] \in Nat /\ rank[LastOf(history[a])] \in Nat
    BY <1>5, <1>7, <2>1
  <2>4. rank[h] = rank[LastOf(history[a])]
    BY <2>2, <2>3, SMT
  <2> QED
    BY <1>0, <1>3, <1>7, <2>1, <2>4 DEF Ranked
<1>9. h \notin Seen(a) => \A c \in Seen(a) : rank[c] < rank[h]
  <2> SUFFICES ASSUME h \notin Seen(a), NEW c \in Seen(a) PROVE rank[c] < rank[h]
    OBVIOUS
  <2>1. rank[c] <= rank[h] /\ rank[c] # rank[h]
    BY <1>0, <1>2, <1>3, <1>7 DEF Ranked
  <2>2. rank[c] \in Nat /\ rank[h] \in Nat
    BY <1>3, <1>5, <1>7
  <2> QED
    BY <2>1, <2>2, SMT
<1>10. Read(a)' = Read(a)
  <2>0. h \in Contents
    BY <1>3 DEF TypeOK
  <2>1. Read(a) = LastOf(q)
    BY <1>1 DEF Read
  <2>2. CASE Tail(q) # <<>>
    <3>1. LastOf(Tail(q)) = LastOf(q)
      BY <1>1, <2>2, <2>0, LastFacts
    <3> QED
      BY <1>1, <2>1, <2>2, <3>1 DEF Read
  <2>3. CASE Tail(q) = <<>>
    <3>1. LastOf(q) = h
      BY <1>1, <2>3, <2>0, LastFacts
    <3>2. Read(a)' = IF handling'[a] # None THEN handling'[a] ELSE LastOf(history[a])
      BY <1>1, <2>3 DEF Read
    <3> QED
      BY <1>3, <1>4, <1>8, <2>1, <3>1, <3>2
  <2> QED
    BY <2>2, <2>3
<1>11. Source(a, rank)'
  <2> DEFINE t == Tail(q)
  <2>1. \A i \in 1..Len(t) : i + 1 \in 1..Len(q) /\ t[i] = q[i + 1]
    BY <1>2
  <2>2. \A i \in 1..Len(t) : t[i] \in copied[a]
    BY <1>7, <2>1
  <2>3. ASSUME NEW i \in 1..Len(t), NEW j \in 1..Len(t), i < j PROVE rank[t[i]] <= rank[t[j]]
    <3>1. i + 1 < j + 1
      BY <1>2, <2>3, SMT
    <3> QED
      BY <1>7, <2>1, <3>1
  <2>4. ASSUME NEW i \in 1..Len(t) PROVE rank[h] <= rank[t[i]]
    <3>1. 1 < i + 1
      BY <1>2, SMT
    <3> QED
      BY <1>2, <1>7, <2>1, <3>1
  <2>5. \A c \in Seen(a) : \A i \in 1..Len(t) : rank[c] <= rank[t[i]]
    BY <1>7, <2>1
  <2>6. queue'[a] = t
    BY <1>1
  <2> HIDE DEF t, h, q
  <2>7. handling'[a] # None => handling'[a] = h /\ h \notin Seen(a)
    BY <1>4
  <2>8. handling'[a] \in copied[a] \cup {None}
    BY <1>3, <1>4
  <2>9. handling'[a] # None => \A i \in 1..Len(t) : rank[handling'[a]] <= rank[t[i]]
    BY <2>4, <2>7
  <2>10. handling'[a] # None => \A c \in Seen(a) : rank[c] < rank[handling'[a]]
    BY <1>9, <2>7
  <2>11. updates'[a] = 0 => clip'[a] = Read(a)'
    BY <1>1, <1>7, <1>10
  <2> QED
    BY <1>1, <1>6, <1>7, <2>2, <2>3, <2>5, <2>6, <2>8, <2>9, <2>10, <2>11 DEF Source
<1>12. Ranked(a, rank)'
  BY <1>0, <1>1, RankedStays
<1>13. ASSUME NEW m \in Nodes \ {a} PROVE Sink(a, m)' /\ Stream(a, m, rank)'
  <2>1. Sink(a, m) /\ Stream(a, m, rank)
    BY DEF Flow
  <2> QED
    BY <1>1, <1>6, <2>1, SinkStays, StreamStays
<1> QED
  BY <1>11, <1>12, <1>13 DEF Flow

\* A message sent behind those in a stream.
LEMMA StreamSent ==
    ASSUME NEW a \in Nodes, NEW m \in Nodes \ {a}, NEW rank \in [Contents -> Nat], NEW h \in Contents, NEW k \in Nat,
           link[<<a, m>>] \in Seq(Message), Stream(a, m, rank), Seen(m) \subseteq Seen(a),
           \A d \in Seen(a) : rank[d] < rank[h],
           link'[<<a, m>>] = Append(link[<<a, m>>], [content |-> h, sequence |-> k]),
           Seen(a)' = Seen(a) \cup {h}, LastOf(history'[a]) = h, history'[m] = history[m]
    PROVE  Stream(a, m, rank)'
<1> DEFINE q == link[<<a, m>>]
           x == [content |-> h, sequence |-> k]
           r == Append(q, x)
<1>1. x \in Message /\ x.content = h
  BY DEF Message
<1> HIDE DEF x
<1>2. /\ Len(q) \in Nat /\ Len(r) = Len(q) + 1
      /\ \A i \in 1 .. Len(q) + 1 : r[i] = IF i <= Len(q) THEN q[i] ELSE x
  BY <1>1, Added, SMT
<1>3. r # <<>>
  <2>1. Len(<<>>) = 0 /\ Len(q) + 1 # 0
    BY <1>2, SMT
  <2> QED
    BY <1>2, <2>1
<1>4. link'[<<a, m>>] = r
  BY DEF x
<1>5. /\ \A i \in 1..Len(q) : q[i].content \in Seen(a)
      /\ \A i, j \in 1..Len(q) : i < j => rank[q[i].content] < rank[q[j].content]
      /\ \A c \in Seen(m) : \A i \in 1..Len(q) : rank[c] < rank[q[i].content]
  BY DEF Stream
<1> HIDE DEF r, q
<1>6. \A i \in 1..Len(r) : (i \in 1..Len(q) /\ r[i] = q[i]) \/ (i = Len(q) + 1 /\ r[i] = x)
  BY <1>2, SMT
<1>7. \A i \in 1..Len(r) : r[i].content \in Seen(a) \cup {h}
  BY <1>1, <1>5, <1>6
<1>8. ASSUME NEW i \in 1..Len(r), NEW j \in 1..Len(r), i < j PROVE rank[r[i].content] < rank[r[j].content]
  <2>1. i \in 1..Len(q) /\ r[i] = q[i]
    BY <1>2, <1>6, <1>8, SMT
  <2>2. CASE j \in 1..Len(q) /\ r[j] = q[j]
    BY <1>5, <1>8, <2>1, <2>2
  <2>3. CASE r[j] = x
    BY <1>1, <1>5, <2>1, <2>3
  <2> QED
    BY <1>6, <2>2, <2>3
<1>9. ASSUME NEW c \in Seen(m), NEW i \in 1..Len(r) PROVE rank[c] < rank[r[i].content]
  <2>1. CASE i \in 1..Len(q) /\ r[i] = q[i]
    BY <1>5, <2>1
  <2>2. CASE r[i] = x
    BY <1>1, <2>2
  <2> QED
    BY <1>6, <2>1, <2>2
<1>10. r[Len(r)] = x
  BY <1>2, SMT
<1>11. Seen(m)' = Seen(m)
  BY SeenSame
<1> QED
  BY <1>1, <1>3, <1>4, <1>7, <1>8, <1>9, <1>10, <1>11 DEF Stream

\* What the engine sends is newer than all that the guards know.
LEMMA FlowSend ==
    ASSUME TypeOK, NEW a \in Nodes, Calm(a)', NEW rank \in [Contents -> Nat], Flow(a, rank),
           NEW n \in Nodes, SendLocal(n)
    PROVE  Flow(a, rank)'
<1> USE DEF hostVars, engineVars, historyVars
<1> DEFINE h == handling[a]
           k == sequence[a]
<1>0. Ranked(a, rank) /\ Source(a, rank)
  BY DEF Flow
<1>1. n = a
  BY DEF SendLocal, Flow, Sink
<1>2. /\ h \in Contents /\ h # None /\ h \in copied[a] /\ k \in Nat
      /\ \A d \in Seen(a) : rank[d] < rank[h]
  BY <1>0, <1>1 DEF SendLocal, TypeOK, Source
<1>3. \A d \in copied[a] : rank[d] \in Nat
  BY DEF TypeOK
<1>4. h \notin Seen(a)
  <2>1. ~ (rank[h] < rank[h])
    BY <1>2, <1>3, SMT
  <2> QED
    BY <1>2, <2>1
<1>5. /\ history'[a] = Append(history[a], h) /\ Seen(a)' = Seen(a) \cup {h}
      /\ \A o \in Nodes \ {a} : history'[o] = history[o]
  BY <1>1, <1>2, <1>4, PushAppends DEF SendLocal, Calm
<1>6. LastOf(history'[a]) = h
  <2>1. history[a] \in Seq(Contents)
    BY DEF TypeOK
  <2>2. LastOf(Append(history[a], h)) = h
    BY <1>2, <2>1, LastAdded, SMT
  <2> QED
    BY <1>5, <2>2
<1>7. /\ handling'[a] = None
      /\ \A o \in Nodes \ {a} : handling'[o] = handling[o]
      /\ UNCHANGED <<clip, updates, queue, applying, copied, copies>>
      /\ link' = [l \in Links |-> IF l[1] = a THEN Append(link[l], [content |-> h, sequence |-> k]) ELSE link[l]]
  BY <1>1 DEF SendLocal, TypeOK
<1>8. \A m \in Nodes \ {a} :
        /\ <<a, m>> \in Links /\ link[<<a, m>>] \in Seq(Message)
        /\ link'[<<a, m>>] = Append(link[<<a, m>>], [content |-> h, sequence |-> k])
        /\ \A o \in Nodes \ {m} : link'[<<m, o>>] = link[<<m, o>>]
  <2> SUFFICES ASSUME NEW m \in Nodes \ {a}
               PROVE  /\ <<a, m>> \in Links /\ link[<<a, m>>] \in Seq(Message)
                      /\ link'[<<a, m>>] = Append(link[<<a, m>>], [content |-> h, sequence |-> k])
                      /\ \A o \in Nodes \ {m} : link'[<<m, o>>] = link[<<m, o>>]
    OBVIOUS
  <2>1. <<a, m>> \in Links /\ link[<<a, m>>] \in Seq(Message)
    BY DEF Links, TypeOK
  <2>2. \A o \in Nodes \ {m} : <<m, o>> \in Links
    BY DEF Links
  <2> QED
    BY <1>7, <2>1, <2>2
<1> HIDE DEF h, k
<1>9. Ranked(a, rank)'
  BY <1>0, <1>7, RankedStays
<1>10. Source(a, rank)'
  <2>1. /\ (\A m \in Nodes : applying[a][m] = None) /\ Seen(a) \subseteq copied[a]
        /\ \A i \in 1..Len(queue[a]) : queue[a][i] \in copied[a]
        /\ \A i, j \in 1..Len(queue[a]) : i < j => rank[queue[a][i]] <= rank[queue[a][j]]
        /\ \A c \in Seen(a) : \A i \in 1..Len(queue[a]) : rank[c] <= rank[queue[a][i]]
        /\ updates[a] = 0 => clip[a] = Read(a)
    BY <1>0 DEF Source
  <2>2. \A i \in 1..Len(queue[a]) : rank[h] <= rank[queue[a][i]]
    BY <1>0, <1>2 DEF Source, h
  <2>3. \A c \in Seen(a)' : rank[c] <= rank[h]
    BY <1>2, <1>3, <1>5, <2>1, SMT
  <2>4. \A c \in Seen(a)' : \A i \in 1..Len(queue[a]) : rank[c] <= rank[queue[a][i]]
    BY <1>5, <2>1, <2>2
  <2>5. Read(a)' = Read(a)
    BY <1>2, <1>6, <1>7 DEF Read, h
  <2>6. Seen(a)' \subseteq copied[a]
    BY <1>2, <1>5, <2>1
  <2> QED
    BY <1>6, <1>7, <2>1, <2>3, <2>4, <2>5, <2>6 DEF Source
<1>11. ASSUME NEW m \in Nodes \ {a} PROVE Sink(a, m)' /\ Stream(a, m, rank)'
  <2>1. Sink(a, m) /\ Stream(a, m, rank)
    BY DEF Flow
  <2>2. Seen(m) \subseteq Seen(a)
    BY <2>1 DEF Sink
  <2>3. Seen(a) \subseteq Seen(a)'
    BY <1>5
  <2>4. Sink(a, m)'
    BY <1>5, <1>7, <1>8, <2>1, <2>3, SinkStays
  <2>5. Stream(a, m, rank)'
    BY <1>2, <1>5, <1>6, <1>8, <2>1, <2>2, StreamSent
  <2> QED
    BY <2>4, <2>5
<1> QED
  BY <1>9, <1>10, <1>11 DEF Flow

\* Only the stream from the copying node has messages.
LEMMA FlowFrom ==
    ASSUME NEW a \in Nodes, NEW rank, Flow(a, rank), NEW m \in Nodes, NEW o \in Nodes \ {m}, Incoming(m, o)
    PROVE  o = a /\ m \in Nodes \ {a}
<1>1. link[<<o, m>>] # <<>>
  BY DEF Incoming
<1>2. o # a => Sink(a, o)
  BY DEF Flow
<1> QED
  BY <1>1, <1>2 DEF Sink

\* What arrives at another node is new there, so nothing is suppressed.
LEMMA FlowFresh ==
    ASSUME TypeOK, PlainInv, SeqInv, RestartInv, NEW a \in Nodes, Calm(a), NEW rank \in [Contents -> Nat],
           Flow(a, rank), NEW m \in Nodes \ {a}, link[<<a, m>>] # <<>>
    PROVE  LET msg == Head(link[<<a, m>>])
           IN  /\ msg \in Message /\ msg.content \in Seen(a) /\ msg.content \notin Blocked
               /\ IsFresh(m, a, msg)
<1> DEFINE q == link[<<a, m>>]
           msg == Head(q)
<1>1. q \in Seq(Message) /\ q # <<>>
  BY DEF TypeOK, Links
<1>2. msg = q[1] /\ 1 \in 1..Len(q) /\ msg \in Message
  BY <1>1, Taken, SMT
<1>3. msg.content \in Seen(a) /\ \A c \in Seen(m) : rank[c] < rank[msg.content]
  BY <1>2 DEF Flow, Stream
<1>4. msg.content \in copied[a] /\ msg.content \in Contents
  BY <1>2, <1>3 DEF Flow, Source, Message
<1>5. msg.content \notin Blocked
  BY <1>4 DEF PlainInv, Calm
<1>6. msg.content \notin Seen(m)
  <2>1. rank[msg.content] \in Nat
    BY <1>4
  <2>2. ~ (rank[msg.content] < rank[msg.content])
    BY <2>1, SMT
  <2> QED
    BY <1>3, <2>2
<1>7. sequences[m][a] < msg.sequence
  <2>1. Rising(q, sequences[m][a], sequence[a])
    BY DEF RestartInv, Calm, SeqInv
  <2> QED
    BY <1>2, <2>1 DEF Rising
<1>8. msg.sequence > sequences[m][a]
  <2>1. sequences[m][a] \in Nat /\ msg.sequence \in Nat
    BY <1>2 DEF TypeOK, Message
  <2> QED
    BY <1>7, <2>1, SMT
<1> QED
  BY <1>2, <1>3, <1>5, <1>6, <1>8 DEF IsFresh, should_suppress

\* The receiver takes the first message of its stream.
LEMMA StreamReceived ==
    ASSUME NEW a \in Nodes, NEW m \in Nodes \ {a}, NEW rank \in [Contents -> Nat], NEW c,
           link[<<a, m>>] \in Seq(Message), link[<<a, m>>] # <<>>, Stream(a, m, rank),
           c = Head(link[<<a, m>>]).content, link'[<<a, m>>] = Tail(link[<<a, m>>]),
           history'[a] = history[a], Seen(m)' = Seen(m) \cup {c}, LastOf(history'[m]) = c
    PROVE  Stream(a, m, rank)'
<1> DEFINE q == link[<<a, m>>]
           t == Tail(q)
<1>1. /\ Len(q) \in Nat /\ Head(q) = q[1] /\ Len(t) = Len(q) - 1 /\ t \in Seq(Message)
      /\ \A i \in 1 .. Len(t) : i + 1 \in 1 .. Len(q) /\ t[i] = q[i + 1]
  BY Taken
<1>2. 1 \in 1..Len(q) /\ (t = <<>> => Len(q) = 1) /\ (t # <<>> => Len(t) \in 1..Len(t) /\ Len(t) + 1 = Len(q))
  <2>1. 1 \in 1..Len(q)
    BY Taken, SMT
  <2>2. Len(<<>>) = 0
    BY SMT
  <2>3. t = <<>> => Len(t) = 0
    BY <2>2
  <2> HIDE DEF t
  <2>4. t # <<>> => Len(t) \in 1..Len(t)
    BY <1>1, SMT
  <2>5. Len(t) + 1 = Len(q) /\ (Len(t) = 0 => Len(q) = 1)
    BY <1>1, SMT
  <2> QED
    BY <2>1, <2>3, <2>4, <2>5
<1>3. /\ \A i \in 1..Len(q) : q[i].content \in Seen(a)
      /\ \A i, j \in 1..Len(q) : i < j => rank[q[i].content] < rank[q[j].content]
      /\ \A d \in Seen(m) : \A i \in 1..Len(q) : rank[d] < rank[q[i].content]
      /\ LastOf(history[a]) = q[Len(q)].content
  BY DEF Stream
<1>4. link'[<<a, m>>] = t /\ c = q[1].content
  BY <1>1
<1>5. Seen(a)' = Seen(a)
  BY SeenSame
<1> HIDE DEF q, t
<1>6. \A i \in 1..Len(t) : t[i].content \in Seen(a)
  BY <1>1, <1>3
<1>7. ASSUME NEW i \in 1..Len(t), NEW j \in 1..Len(t), i < j PROVE rank[t[i].content] < rank[t[j].content]
  <2>1. i + 1 < j + 1
    BY <1>1, <1>7, SMT
  <2> QED
    BY <1>1, <1>3, <2>1
<1>8. ASSUME NEW i \in 1..Len(t) PROVE rank[c] < rank[t[i].content]
  <2>1. 1 < i + 1
    BY <1>1, SMT
  <2> QED
    BY <1>1, <1>2, <1>3, <1>4, <2>1
<1>9. \A d \in Seen(m) \cup {c} : \A i \in 1..Len(t) : rank[d] < rank[t[i].content]
  BY <1>1, <1>3, <1>8
<1>10. LastOf(history'[a]) = IF t # <<>> THEN t[Len(t)].content ELSE LastOf(history'[m])
  BY <1>1, <1>2, <1>3, <1>4
<1> QED
  BY <1>4, <1>5, <1>6, <1>7, <1>9, <1>10 DEF Stream

\* Another node records what it receives before it applies it.
LEMMA FlowAccept ==
    ASSUME TypeOK, NEW a \in Nodes, Calm(a)', NEW rank \in [Contents -> Nat], Flow(a, rank),
           NEW m \in Nodes \ {a}, Accepts(m, a), Head(link[<<a, m>>]).content \in Seen(a)
    PROVE  Flow(a, rank)'
<1> USE DEF hostVars, engineVars, historyVars
<1> DEFINE c == Head(link[<<a, m>>]).content
<1>0. Ranked(a, rank) /\ Source(a, rank) /\ Sink(a, m) /\ Stream(a, m, rank)
  BY DEF Flow
<1>1. /\ c \in Contents /\ c # None /\ c \notin Seen(m) /\ push_hash(m, c)
      /\ <<a, m>> \in Links /\ link[<<a, m>>] \in Seq(Message) /\ link[<<a, m>>] # <<>>
  <2>1. c \in Contents
    BY SeenFacts
  <2>2. c # None
    BY <2>1, ClipboardConstants
  <2> QED
    BY <2>1, <2>2 DEF Accepts, IsFresh, should_suppress, record_received, Incoming, Links, TypeOK
<1>2. /\ applying'[m][a] = c /\ \A o \in Nodes \ {a} : applying'[m][o] = applying[m][o]
      /\ \A o \in Nodes \ {m} : applying'[o] = applying[o]
      /\ UNCHANGED <<clip, updates, queue, handling, copied, copies>>
      /\ link' = [link EXCEPT ![<<a, m>>] = Tail(@)]
  BY DEF Accepts, Incoming, TypeOK
<1>3. /\ history'[m] = Append(history[m], c) /\ Seen(m)' = Seen(m) \cup {c}
      /\ \A o \in Nodes \ {m} : history'[o] = history[o]
  BY <1>1, PushAppends DEF Calm
<1>4. LastOf(history'[m]) = c
  <2>1. history[m] \in Seq(Contents)
    BY DEF TypeOK
  <2>2. LastOf(Append(history[m], c)) = c
    BY <1>1, <2>1, LastAdded, SMT
  <2> QED
    BY <1>3, <2>2
<1>5. /\ link'[<<a, m>>] = Tail(link[<<a, m>>])
      /\ \A o \in Nodes : \A p \in Nodes \ {o} : <<o, p>> # <<a, m>> => link'[<<o, p>>] = link[<<o, p>>]
  <2>1. \A o \in Nodes : \A p \in Nodes \ {o} : <<o, p>> \in Links
    BY DEF Links
  <2>2. link \in [Links -> Seq(Message)]
    BY DEF TypeOK
  <2> QED
    BY <1>1, <1>2, <2>1, <2>2
<1> HIDE DEF c
<1>6. Seen(a)' = Seen(a)
  BY <1>3, SeenSame
<1>7. Ranked(a, rank)' /\ Source(a, rank)'
  BY <1>0, <1>2, <1>3, RankedStays, SourceStays
<1>8. Sink(a, m)'
  <2>1. \A o \in Nodes \ {m} : link'[<<m, o>>] = <<>>
    <3>1. \A o \in Nodes \ {m} : <<m, o>> # <<a, m>>
      OBVIOUS
    <3> QED
      BY <1>0, <1>5, <3>1 DEF Sink
  <2>2. \A i \in 1..Len(queue[m]) : queue[m][i] \in Seen(m)'
    BY <1>0, <1>3 DEF Sink
  <2>3. Seen(m)' \subseteq Seen(a)
    BY <1>0, <1>3 DEF Sink, c
  <2>4. /\ handling[m] = None /\ clip[m] \in Seen(m)' \cup {None}
        /\ \A o \in Nodes \ {a} : applying'[m][o] = None
    BY <1>0, <1>2, <1>3 DEF Sink
  <2> QED
    BY <1>1, <1>2, <1>4, <1>6, <2>1, <2>2, <2>3, <2>4 DEF Sink
<1>9. Stream(a, m, rank)'
  BY <1>0, <1>1, <1>3, <1>4, <1>5, StreamReceived DEF c
<1>10. ASSUME NEW o \in Nodes \ {a}, o # m PROVE Sink(a, o)' /\ Stream(a, o, rank)'
  <2>1. Sink(a, o) /\ Stream(a, o, rank)
    BY DEF Flow
  <2>2. link'[<<a, o>>] = link[<<a, o>>] /\ \A p \in Nodes \ {o} : link'[<<o, p>>] = link[<<o, p>>]
    BY <1>5, <1>10
  <2>3. Sink(a, o)'
    BY <1>2, <1>3, <1>6, <1>10, <2>1, <2>2, SinkStays
  <2>4. Stream(a, o, rank)'
    BY <1>3, <1>10, <2>1, <2>2, StreamStays
  <2> QED
    BY <2>3, <2>4
<1> QED
  BY <1>7, <1>8, <1>9, <1>10 DEF Flow

\* Every step keeps the copies on their way.
LEMMA FlowStep ==
    ASSUME TypeOK, ClipInv, SeqInv, PlainInv, RestartInv, FlowInv, [Next]_vars
    PROVE  FlowInv'
<1> USE DEF hostVars, engineVars, historyVars
<1> SUFFICES ASSUME NEW a \in Nodes, Calm(a)'
             PROVE  \E r \in [Contents -> Nat] : Flow(a, r)'
  BY DEF FlowInv
<1>1. Calm(a)
  BY CalmBefore
<1>2. PICK rank \in [Contents -> Nat] : Flow(a, rank)
  BY <1>1 DEF FlowInv
<1> SUFFICES ASSUME \A n \in Nodes : \A c \in Contents : ~ Copy(n, c)
             PROVE  Flow(a, rank)'
  BY <1>2, FlowCopy
<1>3. ASSUME NEW n \in Nodes, Notify(n) PROVE Flow(a, rank)'
  BY <1>1, <1>2, <1>3, FlowNotifySource, FlowNotifySink
<1>4. ASSUME NEW n \in Nodes, NEW m \in Nodes, Apply(n, m) PROVE Flow(a, rank)'
  BY <1>2, <1>4, FlowApply
<1>5. ASSUME NEW n \in Nodes, NEW m \in Nodes, NotifyNothing(n) \/ ApplyFails(n, m) \/ Restart(n)
      PROVE  FALSE
  BY <1>5 DEF NotifyNothing, ApplyFails, Restart, Calm
<1>6. ASSUME NEW n \in Nodes, CheckLocal(n) PROVE Flow(a, rank)'
  BY <1>1, <1>2, <1>6, FlowCheckSource, FlowCheckSink
<1>7. ASSUME NEW n \in Nodes, SendLocal(n) PROVE Flow(a, rank)'
  BY <1>2, <1>7, FlowSend
<1>8. ASSUME NEW n \in Nodes, MonitorEnds(n) PROVE Flow(a, rank)'
  BY <1>2, <1>8, FlowStays DEF MonitorEnds
<1>9. ASSUME NEW n \in Nodes, NEW m \in Nodes \ {n}, Accepts(n, m) \/ Suppresses(n, m) PROVE Flow(a, rank)'
  <2>1. Incoming(n, m)
    BY <1>9 DEF Accepts, Suppresses
  <2>2. m = a /\ n \in Nodes \ {a}
    BY <1>2, <2>1, FlowFrom
  <2> DEFINE msg == Head(link[<<a, n>>])
  <2>3. msg.content \in Seen(a) /\ msg.content \notin Blocked /\ IsFresh(n, a, msg)
    BY <1>1, <1>2, <2>1, <2>2, FlowFresh DEF Incoming
  <2>4. Accepts(n, a)
    BY <1>9, <2>2, <2>3 DEF Suppresses
  <2> QED
    BY <1>2, <2>2, <2>3, <2>4, FlowAccept
<1>10. CASE UNCHANGED vars
  BY <1>2, <1>10, FlowStays DEF vars
<1> QED
  BY <1>3, <1>4, <1>5, <1>6, <1>7, <1>8, <1>9, <1>10 DEF Next

\* With the history of the copies.
ArriveInv == Inv /\ PlainInv /\ RestartInv /\ FlowInv

\* It holds at first.
LEMMA ArriveInit == Init => ArriveInv
<1> SUFFICES ASSUME Init PROVE ArriveInv
  OBVIOUS
<1>1. Inv
  BY InvInit
<1>2. PlainInv /\ RestartInv
  BY DEF Init, PlainInv, RestartInv
<1>3. \A n \in Nodes : /\ copied[n] = {} /\ clip[n] = None /\ queue[n] = <<>> /\ history[n] = <<>>
                       /\ handling[n] = None /\ \A m \in Nodes : applying[n][m] = None
  BY DEF Init
<1>4. \A n \in Nodes : \A m \in Nodes \ {n} : link[<<n, m>>] = <<>>
  BY DEF Init, Links
<1>5. \A n \in Nodes : Seen(n) = {} /\ LastOf(history[n]) = None
  BY <1>1, <1>3, SeenFacts DEF Inv
<1>6. \A i \in 1..Len(<<>>) : FALSE
  BY SMT
<1>7. PICK rank \in [Contents -> Nat] : TRUE
  <2>1. [c \in Contents |-> 0] \in [Contents -> Nat]
    BY SMT
  <2> QED
    BY <2>1
<1>8. ASSUME NEW a \in Nodes PROVE Flow(a, rank)
  <2>1. Ranked(a, rank)
    BY <1>3 DEF Ranked
  <2>2. Read(a) = None
    BY <1>3, <1>5 DEF Read
  <2>3. Source(a, rank)
    BY <1>3, <1>5, <1>6, <2>2 DEF Source
  <2>4. ASSUME NEW m \in Nodes \ {a} PROVE Sink(a, m) /\ Stream(a, m, rank)
    <3>1. Sink(a, m)
      BY <1>3, <1>4, <1>5, <1>6 DEF Sink
    <3>2. Stream(a, m, rank)
      BY <1>4, <1>5, <1>6 DEF Stream
    <3> QED
      BY <3>1, <3>2
  <2> QED
    BY <2>1, <2>3, <2>4 DEF Flow
<1>9. FlowInv
  BY <1>8 DEF FlowInv
<1> QED
  BY <1>1, <1>2, <1>9 DEF ArriveInv

\* Copies arrive: once nothing is under way, every node has the last thing that the one
\* copying user copied.  The theorem leaves out behaviours in which something was copied
\* a second time, is blocked by the policy or is converted by some backend, in which
\* something failed, overflowed or restarted, and in which a guard forgot a hash.
THEOREM CopiesReachEveryNode == Spec => []CopiesArrive
<1>1. ArriveInv /\ [Next]_vars => ArriveInv'
  BY InvStep, PlainStep, RestartStep, FlowStep DEF ArriveInv, Inv
<1>2. ArriveInv => CopiesArrive
  <2> SUFFICES ASSUME ArriveInv, Quiet, ~ unusual, ~ fault, \A n \in Nodes : ~ evicted[n],
                      NEW a \in Nodes, \A n \in Nodes \ {a} : copied[n] = {}, NEW m \in Nodes \ {a}
               PROVE  clip[m] = clip[a]
    BY DEF CopiesArrive
  <2>1. Calm(a)
    BY DEF Calm
  <2>2. PICK rank \in [Contents -> Nat] : Flow(a, rank)
    BY <2>1 DEF ArriveInv, FlowInv
  <2>3. Source(a, rank) /\ Sink(a, m) /\ Stream(a, m, rank)
    BY <2>2 DEF Flow
  <2>4. clip[a] = LastOf(history[a])
    BY <2>3 DEF Quiet, Source, Read
  <2>5. link[<<a, m>>] = <<>>
    BY DEF Quiet, Links
  <2>6. LastOf(history[a]) = LastOf(history[m])
    BY <2>3, <2>5 DEF Stream
  <2>7. LastOf(history[m]) = clip[m]
    BY <2>3 DEF Sink, Quiet
  <2> QED
    BY <2>4, <2>6, <2>7
<1> QED
  BY <1>1, <1>2, ArriveInit, PTL DEF Spec
=============================================================================
