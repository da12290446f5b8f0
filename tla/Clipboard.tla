------------------------------ MODULE Clipboard ------------------------------
(***************************************************************************)
(* Clipboard synchronisation between trusted nodes: on each node an OS     *)
(* clipboard with its listener, the monitor task, ClipboardSyncEngine and  *)
(* EchoGuard; between nodes an ordered stream each way.  A content stands  *)
(* for itself and for its hash.                                            *)
(***************************************************************************)
EXTENDS Naturals, Sequences

CONSTANTS Nodes, Contents,
          ReadBack,          \* ReadBack[n][c]: what n's backend reads after c was set
          Blocked,           \* contents the policy rejects
          Capacity,          \* EchoGuard.capacity
          NotifierCapacity,  \* the backend's broadcast channel
          MaxCopies,         \* bound: copies by users
          MaxRestarts,       \* bound: restarts of nodes
          None               \* no content

ASSUME ClipboardConstants ==
    /\ ReadBack \in [Nodes -> [Contents -> Contents]]
    /\ Blocked \subseteq Contents
    /\ Capacity \in Nat \ {0}
    /\ NotifierCapacity \in Nat \ {0}
    /\ None \notin Contents

VARIABLES
    clip,       \* the OS clipboard
    updates,    \* change notifications the listener has not handled
    queue,      \* contents in the backend's channel to the monitor
    lagged,     \* whether that channel overflowed
    monitor,    \* whether the monitor task runs
    handling,   \* the local change between the guard's check and its record
    applying,   \* applying[n][m]: what m sent, between the guard's record and set_content
    sequence,   \* ClipboardSyncEngine.sequence
    history,    \* EchoGuard.history
    sequences,  \* EchoGuard.sequences, 0 for none
    link,       \* Sync messages in flight
    copied,     \* history: what the user of a node copied
    converted,  \* history: what a listener read in place of something a peer sent
    sent,       \* history: what the process of a node has sent
    copies,     \* history: number of copies
    evicted,    \* history: whether the guard of a node ever forgot a hash
    restarts,   \* history: number of restarts
    unusual,    \* history: a copy of something known, blocked or converted
    fault       \* history: a failure, an overflow or a restart

hostVars == <<clip, updates, queue, lagged, monitor>>
engineVars == <<handling, applying, sequence, history, sequences>>
historyVars == <<copied, converted, sent, copies, evicted, restarts, unusual, fault>>
vars == <<hostVars, engineVars, link, historyVars>>

Links == {l \in Nodes \X Nodes : l[1] # l[2]}
Message == [content : Contents, sequence : Nat]

TypeOK ==
    /\ clip \in [Nodes -> Contents \cup {None}]
    /\ updates \in [Nodes -> Nat]
    /\ queue \in [Nodes -> Seq(Contents)]
    /\ lagged \in [Nodes -> BOOLEAN]
    /\ monitor \in [Nodes -> BOOLEAN]
    /\ handling \in [Nodes -> Contents \cup {None}]
    /\ applying \in [Nodes -> [Nodes -> Contents \cup {None}]]
    /\ sequence \in [Nodes -> Nat]
    /\ history \in [Nodes -> Seq(Contents)]
    /\ \A n \in Nodes : Len(queue[n]) <= NotifierCapacity /\ Len(history[n]) <= Capacity
    /\ sequences \in [Nodes -> [Nodes -> Nat]]
    /\ link \in [Links -> Seq(Message)]
    /\ copied \in [Nodes -> SUBSET Contents]
    /\ converted \in [Nodes -> SUBSET Contents]
    /\ sent \in [Nodes -> SUBSET Contents]
    /\ evicted \in [Nodes -> BOOLEAN]
    /\ copies \in Nat
    /\ restarts \in Nat
    /\ unusual \in BOOLEAN
    /\ fault \in BOOLEAN

Init ==
    /\ clip = [n \in Nodes |-> None]
    /\ updates = [n \in Nodes |-> 0]
    /\ queue = [n \in Nodes |-> <<>>]
    /\ lagged = [n \in Nodes |-> FALSE]
    /\ monitor = [n \in Nodes |-> TRUE]
    /\ handling = [n \in Nodes |-> None]
    /\ applying = [n \in Nodes |-> [m \in Nodes |-> None]]
    /\ sequence = [n \in Nodes |-> 1]
    /\ history = [n \in Nodes |-> <<>>]
    /\ sequences = [n \in Nodes |-> [m \in Nodes |-> 0]]
    /\ link = [l \in Links |-> <<>>]
    /\ copied = [n \in Nodes |-> {}]
    /\ converted = [n \in Nodes |-> {}]
    /\ sent = [n \in Nodes |-> {}]
    /\ evicted = [n \in Nodes |-> FALSE]
    /\ copies = 0
    /\ restarts = 0
    /\ unusual = FALSE
    /\ fault = FALSE

-----------------------------------------------------------------------------
(* EchoGuard. *)

\* seen_hashes: the hashes of the history.
Seen(n) == {history[n][i] : i \in 1..Len(history[n])}

should_suppress(n, c) == c \in Seen(n)

\* Mutant: the history is not bounded.
push_hash_unbounded(n, c) ==
    /\ history' = [history EXCEPT ![n] = IF should_suppress(n, c) THEN @ ELSE Append(@, c)]
    /\ UNCHANGED evicted

push_hash(n, c) ==
    LET full == Len(history[n]) >= Capacity
    IN  IF should_suppress(n, c) THEN UNCHANGED <<history, evicted>>
        ELSE /\ history' = [history EXCEPT ![n] = Append(IF full THEN Tail(@) ELSE @, c)]
             /\ evicted' = [evicted EXCEPT ![n] = @ \/ full]

\* The two checks of record_received.
IsFresh(n, m, msg) ==
    /\ ~ should_suppress(n, msg.content)
    /\ sequences[n][m] = 0 \/ msg.sequence > sequences[n][m]

\* Mutant: the hash of what was received is not recorded.
record_received_sequence(n, m, msg) ==
    /\ sequences' = [sequences EXCEPT ![n][m] = msg.sequence]
    /\ UNCHANGED <<history, evicted>>

record_received(n, m, msg) ==
    /\ sequences' = [sequences EXCEPT ![n][m] = msg.sequence]
    /\ push_hash(n, msg.content)

-----------------------------------------------------------------------------
(* The host: its user, the clipboard and the listener. *)

Known == UNION {copied[n] : n \in Nodes}

\* A user copies something.
Copy(n, c) ==
    /\ copies < MaxCopies
    /\ copies' = copies + 1
    /\ clip' = [clip EXCEPT ![n] = c]
    /\ updates' = [updates EXCEPT ![n] = @ + 1]
    /\ copied' = [copied EXCEPT ![n] = @ \cup {c}]
    /\ unusual' = (unusual \/ c \in Blocked \cup Known \/ \E m \in Nodes : ReadBack[m][c] # c)
    /\ UNCHANGED <<queue, lagged, monitor, engineVars, link, converted, sent, evicted, restarts, fault>>

\* Mutant: a full channel turns the new content away.
Notify_try_send(n) ==
    /\ updates[n] > 0
    /\ updates' = [updates EXCEPT ![n] = @ - 1]
    /\ queue' = [queue EXCEPT ![n] =
                   IF Len(@) >= NotifierCapacity THEN @ ELSE Append(@, ReadBack[n][clip[n]])]
    /\ UNCHANGED <<clip, lagged, monitor, engineVars, link, historyVars>>

\* The listener reads the clipboard as it is now and notifies the monitor.
Notify(n) ==
    LET full == Len(queue[n]) >= NotifierCapacity
        c == ReadBack[n][clip[n]]
    IN  /\ updates[n] > 0
        /\ updates' = [updates EXCEPT ![n] = @ - 1]
        /\ queue' = [queue EXCEPT ![n] = Append(IF full THEN Tail(@) ELSE @, c)]
        /\ lagged' = [lagged EXCEPT ![n] = @ \/ full]
        /\ fault' = (fault \/ full)
        /\ converted' = [converted EXCEPT ![n] =
                           IF clip[n] \in copied[n] \cup {c} THEN @ ELSE @ \cup {c}]
        /\ UNCHANGED <<clip, monitor, engineVars, link, copied, sent, copies, evicted, restarts,
                       unusual>>

\* The clipboard cannot be opened, or holds nothing the backend supports.
NotifyNothing(n) ==
    /\ updates[n] > 0
    /\ updates' = [updates EXCEPT ![n] = @ - 1]
    /\ fault' = TRUE
    /\ UNCHANGED <<clip, queue, lagged, monitor, engineVars, link, copied, converted, sent, copies,
                   evicted, restarts, unusual>>

\* set_content of a remote entry, which the listener sees as well.
Apply(n, m) ==
    /\ applying[n][m] # None
    /\ clip' = [clip EXCEPT ![n] = applying[n][m]]
    /\ updates' = [updates EXCEPT ![n] = @ + 1]
    /\ applying' = [applying EXCEPT ![n][m] = None]
    /\ UNCHANGED <<queue, lagged, monitor, handling, sequence, history, sequences, link,
                   historyVars>>

\* set_content fails; the guard keeps the hash.
ApplyFails(n, m) ==
    /\ applying[n][m] # None
    /\ applying' = [applying EXCEPT ![n][m] = None]
    /\ fault' = TRUE
    /\ UNCHANGED <<hostVars, handling, sequence, history, sequences, link, copied, converted, sent,
                   copies, evicted, restarts, unusual>>

-----------------------------------------------------------------------------
(* The monitor task: handle_local_change. *)

Idle(n) == monitor[n] /\ handling[n] = None

\* The policy and the guard's check.
CheckLocal(n) ==
    LET c == Head(queue[n])
    IN  /\ Idle(n) /\ ~ lagged[n] /\ queue[n] # <<>>
        /\ queue' = [queue EXCEPT ![n] = Tail(@)]
        /\ handling' = [handling EXCEPT ![n] =
                          IF c \in Blocked \/ should_suppress(n, c) THEN None ELSE c]
        /\ UNCHANGED <<clip, updates, lagged, monitor, applying, sequence, history, sequences,
                       link, historyVars>>

\* Mutant: the counter is read and not advanced.
SendLocal_same_sequence(n) ==
    LET msg == [content |-> handling[n], sequence |-> sequence[n]]
    IN  /\ handling[n] # None
        /\ handling' = [handling EXCEPT ![n] = None]
        /\ push_hash(n, handling[n])
        /\ link' = [l \in Links |-> IF l[1] = n THEN Append(link[l], msg) ELSE link[l]]
        /\ sent' = [sent EXCEPT ![n] = @ \cup {handling[n]}]
        /\ UNCHANGED <<hostVars, applying, sequence, sequences, copied, converted, copies, restarts,
                       unusual, fault>>

\* fetch_add, record_sent and the broadcast to the peers.
SendLocal(n) ==
    LET msg == [content |-> handling[n], sequence |-> sequence[n]]
    IN  /\ handling[n] # None
        /\ handling' = [handling EXCEPT ![n] = None]
        /\ sequence' = [sequence EXCEPT ![n] = @ + 1]
        /\ push_hash(n, handling[n])
        /\ link' = [l \in Links |-> IF l[1] = n THEN Append(link[l], msg) ELSE link[l]]
        /\ sent' = [sent EXCEPT ![n] = @ \cup {handling[n]}]
        /\ UNCHANGED <<hostVars, applying, sequences, copied, converted, copies, restarts, unusual,
                       fault>>

\* recv returns Lagged and the loop of start_monitor ends.
MonitorEnds(n) ==
    /\ Idle(n) /\ lagged[n]
    /\ monitor' = [monitor EXCEPT ![n] = FALSE]
    /\ UNCHANGED <<clip, updates, queue, lagged, engineVars, link, historyVars>>

-----------------------------------------------------------------------------
(* A connection's task: handle_incoming_frame. *)

Incoming(n, m) ==
    /\ applying[n][m] = None
    /\ link[<<m, n>>] # <<>>
    /\ link' = [link EXCEPT ![<<m, n>>] = Tail(@)]
    /\ UNCHANGED <<hostVars, handling, sequence, copied, converted, sent, copies, restarts, unusual,
                   fault>>

Accepts(n, m) ==
    LET msg == Head(link[<<m, n>>])
    IN  /\ Incoming(n, m)
        /\ msg.content \notin Blocked
        /\ IsFresh(n, m, msg)
        /\ record_received(n, m, msg)
        /\ applying' = [applying EXCEPT ![n][m] = msg.content]

Suppresses(n, m) ==
    LET msg == Head(link[<<m, n>>])
    IN  /\ Incoming(n, m)
        /\ msg.content \in Blocked \/ ~ IsFresh(n, m, msg)
        /\ UNCHANGED <<applying, history, sequences, evicted>>

\* The process of a node ends and starts again; the OS keeps the clipboard.
Restart(n) ==
    /\ restarts < MaxRestarts
    /\ restarts' = restarts + 1
    /\ fault' = TRUE
    /\ updates' = [updates EXCEPT ![n] = 0]
    /\ queue' = [queue EXCEPT ![n] = <<>>]
    /\ lagged' = [lagged EXCEPT ![n] = FALSE]
    /\ monitor' = [monitor EXCEPT ![n] = TRUE]
    /\ handling' = [handling EXCEPT ![n] = None]
    /\ applying' = [applying EXCEPT ![n] = [m \in Nodes |-> None]]
    /\ sequence' = [sequence EXCEPT ![n] = 1]
    /\ history' = [history EXCEPT ![n] = <<>>]
    /\ sequences' = [sequences EXCEPT ![n] = [m \in Nodes |-> 0]]
    /\ link' = [l \in Links |-> IF n \in {l[1], l[2]} THEN <<>> ELSE link[l]]
    /\ sent' = [sent EXCEPT ![n] = {}]
    /\ UNCHANGED <<clip, copied, converted, copies, evicted, unusual>>

Next ==
    \E n \in Nodes :
        \/ \E c \in Contents : Copy(n, c)
        \/ Notify(n) \/ NotifyNothing(n)
        \/ CheckLocal(n) \/ SendLocal(n) \/ MonitorEnds(n)
        \/ \E m \in Nodes \ {n} : Accepts(n, m) \/ Suppresses(n, m) \/ Apply(n, m) \/ ApplyFails(n, m)
        \/ Restart(n)

Spec == Init /\ [][Next]_vars

-----------------------------------------------------------------------------
(* Properties. *)

\* What the user of n copied, as the backend of n reads it.
Own(n) == {ReadBack[n][c] : c \in copied[n]}

\* No echo, in every interleaving of listener, monitor and connections and across
\* restarts, until the guard of a node forgets: the node sends what its own user copied,
\* and nothing twice.  What it applied for a peer comes back through the listener and
\* goes no further, with one exception: what its backend could not hold and reported in
\* another form (the text of an Html) has a hash the guard does not know, and goes out
\* once as if the user had copied it.
EchoFree ==
    \A n \in Nodes : ~ evicted[n] =>
        /\ \A m \in Nodes \ {n} : \A i \in 1..Len(link[<<n, m>>]) :
             link[<<n, m>>][i].content \in Own(n) \cup converted[n]
        /\ handling[n] \notin sent[n]

\* A peer drops an update because it knows the content or by policy; the sequence
\* check drops one only after a restart, when counters start over.
DropsOnlyKnown ==
    [][\A l \in Links :
         /\ restarts' = 0
         /\ link[l] # <<>> /\ link'[l] = Tail(link[l])
         /\ applying'[l[2]][l[1]] = None
         => Head(link[l]).content \in Blocked \cup Seen(l[2])]_vars

\* Nothing is under way.
Quiet ==
    /\ \A n \in Nodes : updates[n] = 0 /\ queue[n] = <<>> /\ handling[n] = None
    /\ \A n, m \in Nodes : applying[n][m] = None
    /\ \A l \in Links : link[l] = <<>>

\* While only one user copies, every node ends up with the last thing copied: provided
\* each copy is new, passes the policy and is read back by every backend as it was set
\* (~ unusual), nothing fails, overflows or restarts (~ fault), and no guard forgets a
\* hash (one that did lets an echo through, which can replace a newer copy on the node it
\* came from).
CopiesArrive ==
    Quiet /\ ~ unusual /\ ~ fault /\ (\A n \in Nodes : ~ evicted[n])
        => \A a \in Nodes :
             copied[a] # {} /\ (\A n \in Nodes \ {a} : copied[n] = {})
                => \A n \in Nodes : clip[n] = clip[a]
=============================================================================
