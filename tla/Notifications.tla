---------------------------- MODULE Notifications ----------------------------
(***************************************************************************)
(* NotificationSyncEngine: what the devices in Origins show is mirrored by *)
(* the engine of one other device.  Every origin has an ordered stream to  *)
(* it.  Content stands for all that an entry shows, after                  *)
(* enforce_size_limits; its hash is a function of it that need not tell    *)
(* two contents apart.                                                     *)
(***************************************************************************)
EXTENDS Naturals, Sequences, FiniteSets

CONSTANTS Origins, Ids, Contents,
          Hashes,          \* values of compute_hash under one key
          HashOf,          \* the hash of each content
          RING_CAPACITY,   \* keys the guard tracks
          MaxBucket,       \* entries kept per origin
          OutBlocked,      \* contents an origin's policy blocks
          InBlocked,       \* contents the mirroring device's policy blocks
          Absent,          \* no value
          MaxSequence,     \* bound: messages an origin builds
          MaxInFlight      \* bound: messages in flight from an origin

ASSUME NotificationConstants ==
    /\ RING_CAPACITY \in Nat \ {0}
    /\ MaxBucket \in Nat \ {0}
    /\ OutBlocked \subseteq Contents
    /\ InBlocked \subseteq Contents
    /\ HashOf \in [Contents -> Hashes]
    /\ Absent \notin Contents \cup Hashes
    /\ MaxSequence \in [Origins -> Nat]

\* The bucket of an origin has room for as many keys as the ring (both 256).
ASSUME BucketHoldsRing == RING_CAPACITY <= MaxBucket

VARIABLES
    shown,           \* what an origin's user has on screen
    local_sequence,  \* EngineInner.local_sequence of an origin
    link,            \* messages in flight from an origin
    seen_hashes, states, eviction_ring,  \* NotificationGuard of the mirroring engine
    active,          \* EngineInner.active of the mirroring engine
    posted,          \* history: keys the mirroring engine ever let through
    retired          \* history: keys that were dismissed in one way or another

guardVars == <<seen_hashes, states, eviction_ring>>
vars == <<shown, local_sequence, link, guardVars, active, posted, retired>>

Keys == Origins \X Ids
Entry == [id : Ids, content : Contents, state : {"Active", "Dismissed"}]
Message ==
    [type : {"Post"}, id : Ids, content : Contents]
        \cup [type : {"Dismiss"}, id : Ids]
        \cup [type : {"ClearAll"}]
        \cup [type : {"ActionInvoked"}, id : Ids, action : {"Dismiss", "Open"}]

TypeOK ==
    /\ shown \in [Origins -> [Ids -> Contents \cup {Absent}]]
    /\ local_sequence \in [Origins -> Nat]
    /\ link \in [Origins -> Seq(Message)]
    /\ seen_hashes \in [Keys -> Hashes \cup {Absent}]
    /\ states \in [Keys -> {"Active", "Dismissed", "Absent"}]
    /\ eviction_ring \in Seq(Keys)
    /\ \A o \in Origins : active[o] \in Seq(Entry) /\ Len(active[o]) <= MaxBucket
    /\ posted \subseteq Keys
    /\ retired \subseteq Keys

Init ==
    /\ shown = [o \in Origins |-> [i \in Ids |-> Absent]]
    /\ local_sequence = [o \in Origins |-> 0]
    /\ link = [o \in Origins |-> <<>>]
    /\ seen_hashes = [k \in Keys |-> Absent]
    /\ states = [k \in Keys |-> "Absent"]
    /\ eviction_ring = <<>>
    /\ active = [o \in Origins |-> <<>>]
    /\ posted = {}
    /\ retired = {}

-----------------------------------------------------------------------------
(* Outbound: an origin builds a message and sends it. *)

next_sequence(o) ==
    /\ local_sequence[o] < MaxSequence[o]
    /\ Len(link[o]) < MaxInFlight
    /\ local_sequence' = [local_sequence EXCEPT ![o] = @ + 1]

Send(o, m) ==
    /\ link' = [link EXCEPT ![o] = Append(@, m)]
    /\ UNCHANGED <<guardVars, active, posted>>

\* The origin's notification appears or changes; a blocked one takes a sequence
\* number and is not sent.
build_post(o, i, c) ==
    /\ next_sequence(o)
    /\ shown' = [shown EXCEPT ![o][i] = c]
    /\ IF c \in OutBlocked
       THEN UNCHANGED <<link, guardVars, active, posted>>
       ELSE Send(o, [type |-> "Post", id |-> i, content |-> c])
    /\ UNCHANGED retired

build_dismiss(o, i) ==
    /\ shown[o][i] # Absent
    /\ next_sequence(o)
    /\ shown' = [shown EXCEPT ![o][i] = Absent]
    /\ Send(o, [type |-> "Dismiss", id |-> i])
    /\ retired' = retired \cup {<<o, i>>}

build_clear_all(o) ==
    /\ next_sequence(o)
    /\ shown' = [shown EXCEPT ![o] = [i \in Ids |-> Absent]]
    /\ Send(o, [type |-> "ClearAll"])
    /\ retired' = retired \cup {<<o, i>> : i \in Ids}

\* The user of o acts on a notification mirrored there: the message names o as origin.
build_action(o, i, action) ==
    /\ next_sequence(o)
    /\ Send(o, [type |-> "ActionInvoked", id |-> i, action |-> action])
    /\ retired' = IF action = "Dismiss" THEN retired \cup {<<o, i>>} ELSE retired
    /\ UNCHANGED shown

-----------------------------------------------------------------------------
(* The guard. *)

\* compute_hash concatenates app_id, title and text without separators and leaves out
\* the other fields, so that different contents of one key may share a hash.
compute_hash(c) == HashOf[c]

\* Mutant: an update of a tracked notification is taken for a duplicate.
is_duplicate_by_id(k, c) == seen_hashes[k] # Absent

is_duplicate(k, c) == seen_hashes[k] = compute_hash(c)

\* Mutant: the state map is not consulted.
is_dismissed_never(k) == FALSE

is_dismissed(k) == states[k] = "Dismissed"

\* Mutant: the ring is taken to be full one key early.
Evicted_early ==
    IF Len(eviction_ring) + 1 >= RING_CAPACITY /\ eviction_ring # <<>>
    THEN {Head(eviction_ring)} ELSE {}

\* The key a full ring drops for a new one.
Evicted == IF Len(eviction_ring) >= RING_CAPACITY THEN {Head(eviction_ring)} ELSE {}

\* Mutant: the hash of an update is not recorded.
record_posted_first(k, c) ==
    LET out == IF seen_hashes[k] = Absent THEN Evicted ELSE {}
    IN  /\ eviction_ring' =
             IF seen_hashes[k] # Absent THEN eviction_ring
             ELSE Append(IF out = {} THEN eviction_ring ELSE Tail(eviction_ring), k)
        /\ seen_hashes' = [x \in Keys |-> IF x = k /\ seen_hashes[k] = Absent THEN compute_hash(c)
                                          ELSE IF x \in out THEN Absent ELSE seen_hashes[x]]
        /\ states' = [x \in Keys |-> IF x = k THEN "Active"
                                     ELSE IF x \in out THEN "Absent" ELSE states[x]]

record_posted(k, c) ==
    LET out == IF seen_hashes[k] = Absent THEN Evicted ELSE {}
    IN  /\ eviction_ring' =
             IF seen_hashes[k] # Absent THEN eviction_ring
             ELSE Append(IF out = {} THEN eviction_ring ELSE Tail(eviction_ring), k)
        /\ seen_hashes' = [x \in Keys |-> IF x = k THEN compute_hash(c)
                                          ELSE IF x \in out THEN Absent ELSE seen_hashes[x]]
        /\ states' = [x \in Keys |-> IF x = k THEN "Active"
                                     ELSE IF x \in out THEN "Absent" ELSE states[x]]

\* record_dismissed for one key, record_clear_all for those of an origin.
record_dismissed(ks) ==
    /\ states' = [k \in Keys |->
                    IF k \in ks /\ states[k] # "Absent" THEN "Dismissed" ELSE states[k]]
    /\ seen_hashes' = [k \in Keys |-> IF k \in ks THEN Absent ELSE seen_hashes[k]]
    /\ UNCHANGED eviction_ring

-----------------------------------------------------------------------------
(* Inbound: handle_message, under the engine's lock. *)

\* The bucket without the entries of an id.
retain(bucket, id) ==
    LET kept[n \in 0..Len(bucket)] ==
            IF n = 0 THEN <<>>
            ELSE IF bucket[n].id = id THEN kept[n - 1] ELSE Append(kept[n - 1], bucket[n])
    IN  kept[Len(bucket)]

\* Mutant: the bucket is not bounded.
Stored_unbounded(bucket, e) == Append(retain(bucket, e.id), e)

\* The bucket after e, with an older entry of the same id or the oldest one gone.
Stored(bucket, e) ==
    LET kept == Append(retain(bucket, e.id), e)
    IN  IF Len(kept) > MaxBucket THEN Tail(kept) ELSE kept

\* Mutant: entries stay active in the bucket.
Dismissed_not(bucket, ids) == bucket

\* The bucket with the entries of ids dismissed.
Dismissed(bucket, ids) ==
    [n \in 1..Len(bucket) |->
        IF bucket[n].id \in ids THEN [bucket[n] EXCEPT !.state = "Dismissed"] ELSE bucket[n]]

Arrives(o, t) ==
    /\ link[o] # <<>>
    /\ Head(link[o]).type = t
    /\ link' = [link EXCEPT ![o] = Tail(@)]
    /\ UNCHANGED <<shown, local_sequence, retired>>

HandlePost(o) ==
    LET m == Head(link[o])
        k == <<o, m.id>>
    IN  /\ Arrives(o, "Post")
        /\ m.content \notin InBlocked
        /\ ~ is_duplicate(k, m.content)
        /\ ~ is_dismissed(k)
        /\ record_posted(k, m.content)
        /\ active' = [active EXCEPT ![o] =
                        Stored(@, [id |-> m.id, content |-> m.content, state |-> "Active"])]
        /\ posted' = posted \cup {k}

\* Blocked by policy, a duplicate, or dismissed before.
SuppressPost(o) ==
    LET m == Head(link[o])
        k == <<o, m.id>>
    IN  /\ Arrives(o, "Post")
        /\ m.content \in InBlocked \/ is_duplicate(k, m.content) \/ is_dismissed(k)
        /\ UNCHANGED <<guardVars, active, posted>>

HandleDismiss(o) ==
    LET i == Head(link[o]).id
    IN  /\ Arrives(o, "Dismiss")
        /\ record_dismissed({<<o, i>>})
        /\ active' = [active EXCEPT ![o] = Dismissed(@, {i})]
        /\ UNCHANGED posted

HandleClearAll(o) ==
    /\ Arrives(o, "ClearAll")
    /\ record_dismissed({<<o, i>> : i \in Ids})
    /\ active' = [active EXCEPT ![o] = Dismissed(@, Ids)]
    /\ UNCHANGED posted

HandleAction(o) ==
    LET m == Head(link[o])
    IN  /\ Arrives(o, "ActionInvoked")
        /\ IF m.action = "Dismiss"
           THEN /\ record_dismissed({<<o, m.id>>})
                /\ active' = [active EXCEPT ![o] = Dismissed(@, {m.id})]
           ELSE UNCHANGED <<guardVars, active>>
        /\ UNCHANGED posted

Build(o) ==
    \/ \E i \in Ids, c \in Contents : build_post(o, i, c)
    \/ \E i \in Ids : build_dismiss(o, i)
    \/ build_clear_all(o)
    \/ \E i \in Ids, action \in {"Dismiss", "Open"} : build_action(o, i, action)

Handle(o) ==
    HandlePost(o) \/ SuppressPost(o) \/ HandleDismiss(o) \/ HandleClearAll(o) \/ HandleAction(o)

Next == \E o \in Origins : Build(o) \/ Handle(o)

Spec == Init /\ [][Next]_vars

-----------------------------------------------------------------------------
(* Properties. *)

\* active_notifications(o), by id.
Mirrored(o) == {e \in {active[o][n] : n \in 1..Len(active[o])} : e.state = "Active"}

\* The guard's three collections describe the same keys: the ring holds each tracked
\* key once and within its capacity, so that eviction forgets exactly one key; and a
\* key has a hash exactly while it is active.
GuardConsistent ==
    /\ Len(eviction_ring) <= RING_CAPACITY
    /\ \A m, n \in 1..Len(eviction_ring) : eviction_ring[m] = eviction_ring[n] => m = n
    /\ \A k \in Keys :
         /\ states[k] # "Absent" <=> \E n \in 1..Len(eviction_ring) : eviction_ring[n] = k
         /\ states[k] = "Active" <=> seen_hashes[k] # Absent

\* A mirrored notification is still on its origin's screen, or what takes it away is
\* on its way: guard evictions, duplicates and blocked updates leave none behind.
NothingLingers ==
    \A o \in Origins : \A e \in Mirrored(o) :
        \/ shown[o][e.id] # Absent
        \/ \E n \in 1..Len(link[o]) :
             \/ link[o][n].type = "ClearAll"
             \/ link[o][n].type = "Dismiss" /\ link[o][n].id = e.id

\* While the guard has had room for every key, what an origin shows is mirrored once
\* its messages have arrived, unless its policy or an earlier dismissal of the same id
\* keeps it out.  It is mirrored up to compute_hash: an update that the hash does not
\* tell from the content mirrored before is suppressed as a duplicate.
CompleteWithinCapacity ==
    Cardinality(posted) <= RING_CAPACITY =>
        \A o \in Origins : link[o] = <<>> =>
            \A i \in Ids :
                \/ <<o, i>> \in retired
                \/ shown[o][i] \in OutBlocked \cup InBlocked \cup {Absent}
                \/ \E e \in Mirrored(o) :
                     e.id = i /\ compute_hash(e.content) = compute_hash(shown[o][i])

\* While the guard has had room for every key, a notification that was dismissed
\* stays dismissed, however often it is posted or updated again.
DismissedStaysDismissed ==
    [][Cardinality(posted') <= RING_CAPACITY =>
         \A k \in Keys : states[k] = "Dismissed" => states'[k] = "Dismissed"]_vars

\* A key's tracked state is that of the mirrored entry, whose content has the hash that
\* duplicates are recognised by.
MirrorMatchesGuard ==
    \A o \in Origins : \A n \in 1..Len(active[o]) :
        LET e == active[o][n]
            k == <<o, e.id>>
        IN  states[k] # "Absent" =>
                states[k] = e.state /\ (e.state = "Active" => seen_hashes[k] = compute_hash(e.content))

\* A re-post of a dismissed notification is accepted (guard.rs, record_dismissed): a
\* Post that policy lets through and that is no duplicate gets mirrored.
RepostAccepted ==
    [][\A o \in Origins :
         LET m == Head(link[o])
         IN  /\ link[o] # <<>> /\ m.type = "Post" /\ link'[o] = Tail(link[o])
             /\ m.content \notin InBlocked /\ ~ is_duplicate(<<o, m.id>>, m.content)
             => [id |-> m.id, content |-> m.content, state |-> "Active"] \in Mirrored(o)']_vars
=============================================================================
