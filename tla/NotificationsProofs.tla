------------------------- MODULE NotificationsProofs -------------------------
(***************************************************************************)
(* For every number of devices, ids and contents and every capacity of     *)
(* ring and bucket: the guard's collections stay consistent, no            *)
(* notification comes back before the ring has been full, guard and mirror *)
(* agree, nothing lingers on the mirror, and nothing is missing from it    *)
(* before the ring has been full.                                          *)
(***************************************************************************)
EXTENDS Notifications, FiniteSetTheorems, WellFoundedInduction, TLAPS

\* The variables the guard depends on, with their types.
GuardType ==
    /\ link \in [Origins -> Seq(Message)]
    /\ seen_hashes \in [Keys -> Hashes \cup {Absent}]
    /\ states \in [Keys -> {"Active", "Dismissed", "Absent"}]
    /\ eviction_ring \in Seq(Keys)

Tracked == {k \in Keys : states[k] # "Absent"}

\* Until the ring has overflowed, the tracked keys are those ever let through.
NoneForgotten ==
    /\ posted \subseteq Keys
    /\ IsFiniteSet(posted)
    /\ Cardinality(posted) <= RING_CAPACITY => Tracked = posted

GuardInv == GuardType /\ GuardConsistent /\ NoneForgotten

-----------------------------------------------------------------------------
(* The guard's operations. *)

\* A hash is a value.
LEMMA HashFacts ==
    ASSUME NEW c \in Contents
    PROVE  compute_hash(c) \in Hashes /\ compute_hash(c) # Absent
BY NotificationConstants DEF compute_hash

\* record_posted keeps the collections consistent when the key is not dismissed.
LEMMA RecordPostedConsistent ==
    ASSUME GuardType, GuardConsistent, NEW k \in Keys, NEW c \in Contents,
           ~ is_dismissed(k), record_posted(k, c)
    PROVE  /\ seen_hashes' \in [Keys -> Hashes \cup {Absent}]
           /\ states' \in [Keys -> {"Active", "Dismissed", "Absent"}]
           /\ eviction_ring' \in Seq(Keys)
           /\ GuardConsistent'
<1> USE NotificationConstants
<1> DEFINE h == compute_hash(c)
<1>h. h \in Hashes /\ h # Absent
  BY HashFacts
<1> HIDE DEF h
<1>1. CASE seen_hashes[k] # Absent
  <2>1. eviction_ring' = eviction_ring
    BY <1>1 DEF record_posted
  <2>2. /\ seen_hashes' = [x \in Keys |-> IF x = k THEN h ELSE seen_hashes[x]]
        /\ states' = [x \in Keys |-> IF x = k THEN "Active" ELSE states[x]]
    BY <1>1 DEF record_posted, h
  <2>3. states[k] = "Active"
    BY <1>1 DEF GuardConsistent
  <2> QED
    BY <2>1, <2>2, <2>3, <1>1, <1>h DEF GuardType, GuardConsistent
<1>2. CASE seen_hashes[k] = Absent
  <2> DEFINE ring == eviction_ring
             full == Len(ring) >= RING_CAPACITY
             rest == IF full THEN Tail(ring) ELSE ring
  <2>1. states[k] = "Absent"
    BY <1>2 DEF GuardType, GuardConsistent, is_dismissed
  <2>2. \A n \in 1..Len(ring) : ring[n] # k
    BY <2>1 DEF GuardConsistent
  <2>3. ring \in Seq(Keys) /\ Len(ring) \in Nat
    BY DEF GuardType
  <2>4. full => ring # <<>>
    BY <2>3
  <2>5. /\ rest \in Seq(Keys)
        /\ Len(rest) < RING_CAPACITY
        /\ Len(rest) = IF full THEN Len(ring) - 1 ELSE Len(ring)
        /\ \A n \in 1..Len(rest) : rest[n] = IF full THEN ring[n + 1] ELSE ring[n]
    BY <2>3, <2>4 DEF GuardConsistent
  <2>6. eviction_ring' = Append(rest, k)
    BY ZenonT(30), <1>2 DEF record_posted, Evicted
  <2>7. /\ eviction_ring' \in Seq(Keys)
        /\ Len(eviction_ring') = Len(rest) + 1
        /\ \A n \in 1..Len(rest) : eviction_ring'[n] = rest[n]
        /\ eviction_ring'[Len(rest) + 1] = k
    BY <2>5, <2>6
  <2>8. \A x \in Keys :
          /\ seen_hashes'[x] = IF x = k THEN h
                               ELSE IF full /\ x = ring[1] THEN Absent ELSE seen_hashes[x]
          /\ states'[x] = IF x = k THEN "Active"
                          ELSE IF full /\ x = ring[1] THEN "Absent" ELSE states[x]
    BY <1>2, <2>3, <2>4 DEF record_posted, Evicted, h
  <2>9. /\ seen_hashes' \in [Keys -> Hashes \cup {Absent}]
        /\ states' \in [Keys -> {"Active", "Dismissed", "Absent"}]
    BY <1>2, <1>h DEF record_posted, GuardType, h
  <2>10. Len(eviction_ring') <= RING_CAPACITY
    BY <2>5, <2>7
  <2>11. ASSUME NEW m \in 1..Len(eviction_ring'), NEW n \in 1..Len(eviction_ring'),
                eviction_ring'[m] = eviction_ring'[n]
         PROVE  m = n
    <3>1. ASSUME NEW i \in 1..Len(rest) PROVE rest[i] # k
      BY <2>2, <2>3, <2>5
    <3>2. ASSUME NEW i \in 1..Len(rest), NEW j \in 1..Len(rest), rest[i] = rest[j]
          PROVE  i = j
      BY <3>2, <2>3, <2>5 DEF GuardConsistent
    <3> QED
      BY SMTT(60), <3>1, <3>2, <2>5, <2>7, <2>11
  <2>12. ASSUME NEW x \in Keys
         PROVE  states'[x] # "Absent"
                  <=> \E n \in 1..Len(eviction_ring') : eviction_ring'[n] = x
    <3>1. CASE x = k
      BY <3>1, <2>5, <2>7, <2>8
    <3>2. CASE x # k /\ full /\ x = ring[1]
      <4>1. \A n \in 2..Len(ring) : ring[n] # x
        BY <3>2, <2>3, <2>4 DEF GuardConsistent
      <4>2. \A n \in 1..Len(rest) : rest[n] # x
        BY <4>1, <3>2, <2>3, <2>5
      <4>3. states'[x] = "Absent"
        BY <3>2, <2>8
      <4>4. ASSUME NEW n \in 1..Len(eviction_ring')
            PROVE  eviction_ring'[n] # x
        <5>1. Len(rest) \in Nat
          BY <2>5
        <5>2. n \in 1..Len(rest) \/ n = Len(rest) + 1
          BY <5>1, <2>7
        <5>3. CASE n \in 1..Len(rest)
          BY <5>3, <4>2, <2>7
        <5>4. CASE n = Len(rest) + 1
          BY <5>4, <3>2, <2>7
        <5> QED
          BY <5>2, <5>3, <5>4
      <4> QED
        BY <4>3, <4>4
    <3>3. CASE x # k /\ ~ (full /\ x = ring[1])
      <4>1. (\E n \in 1..Len(ring) : ring[n] = x) <=> (\E n \in 1..Len(rest) : rest[n] = x)
        <5>1. ASSUME NEW n \in 1..Len(ring), ring[n] = x
              PROVE  \E m \in 1..Len(rest) : rest[m] = x
          <6>1. CASE full
            <7>1. n - 1 \in 1..Len(rest) /\ rest[n - 1] = ring[n]
              BY <5>1, <6>1, <3>3, <2>3, <2>5
            <7> QED
              BY ZenonT(30), <7>1, <5>1
          <6>2. CASE ~ full
            BY <5>1, <6>2, <2>5
          <6> QED
            BY ZenonT(30), <6>1, <6>2
        <5>2. ASSUME NEW n \in 1..Len(rest), rest[n] = x
              PROVE  \E m \in 1..Len(ring) : ring[m] = x
          <6>1. CASE full
            <7>1. n + 1 \in 1..Len(ring) /\ rest[n] = ring[n + 1]
              BY <6>1, <2>3, <2>5
            <7> QED
              BY <7>1, <5>2
          <6>2. CASE ~ full
            BY <5>2, <6>2, <2>5
          <6> QED
            BY <6>1, <6>2
        <5> QED
          BY ZenonT(30), <5>1, <5>2
      <4>2. states'[x] = states[x]
        BY <3>3, <2>8
      <4>3. (\E n \in 1..Len(eviction_ring') : eviction_ring'[n] = x)
              <=> (\E n \in 1..Len(rest) : rest[n] = x)
        <5>1. Len(rest) \in Nat
          BY <2>5
        <5>2. ASSUME NEW n \in 1..Len(eviction_ring'), eviction_ring'[n] = x
              PROVE  n \in 1..Len(rest) /\ rest[n] = x
          <6>1. n # Len(rest) + 1
            BY <5>2, <3>3, <2>7
          <6>2. n \in 1..Len(rest)
            BY <6>1, <5>1, <2>7
          <6> QED
            BY <6>2, <5>2, <2>7
        <5>3. ASSUME NEW n \in 1..Len(rest), rest[n] = x
              PROVE  n \in 1..Len(eviction_ring') /\ eviction_ring'[n] = x
          BY <5>1, <5>3, <2>7
        <5> QED
          BY ZenonT(30), <5>2, <5>3
      <4>4. (states[x] # "Absent") <=> (\E n \in 1..Len(ring) : ring[n] = x)
        BY Zenon DEF GuardConsistent
      <4> HIDE DEF ring, rest
      <4> QED
        BY ZenonT(30), <4>1, <4>2, <4>3, <4>4
    <3> QED
      BY <3>1, <3>2, <3>3
  <2>13. ASSUME NEW x \in Keys
         PROVE  states'[x] = "Active" <=> seen_hashes'[x] # Absent
    BY <1>h, <2>8 DEF GuardConsistent
  <2> QED
    BY <2>7, <2>9, <2>10, <2>11, <2>12, <2>13 DEF GuardConsistent
<1> QED
  BY <1>1, <1>2

\* So does the dismissal of any set of keys.
LEMMA RecordDismissedConsistent ==
    ASSUME GuardType, GuardConsistent, NEW ks, record_dismissed(ks)
    PROVE  /\ seen_hashes' \in [Keys -> Hashes \cup {Absent}]
           /\ states' \in [Keys -> {"Active", "Dismissed", "Absent"}]
           /\ eviction_ring' \in Seq(Keys)
           /\ GuardConsistent'
           /\ Tracked' = Tracked
<1>1. /\ seen_hashes' \in [Keys -> Hashes \cup {Absent}]
      /\ states' \in [Keys -> {"Active", "Dismissed", "Absent"}]
      /\ eviction_ring' = eviction_ring
      /\ \A k \in Keys :
           /\ states'[k] = IF k \in ks /\ states[k] # "Absent" THEN "Dismissed" ELSE states[k]
           /\ seen_hashes'[k] = IF k \in ks THEN Absent ELSE seen_hashes[k]
  BY DEF record_dismissed, GuardType
<1>2. \A k \in Keys :
        /\ states'[k] # "Absent" <=> states[k] # "Absent"
        /\ states'[k] = "Active" <=> seen_hashes'[k] # Absent
  BY <1>1 DEF GuardType, GuardConsistent
<1>3. GuardConsistent'
  BY <1>1, <1>2 DEF GuardConsistent
<1>4. Tracked' = Tracked
  BY <1>2 DEF Tracked
<1> QED
  BY <1>1, <1>3, <1>4 DEF GuardType

\* The ring is as long as there are tracked keys.
LEMMA RingLength ==
    ASSUME GuardType, GuardConsistent
    PROVE  IsFiniteSet(Tracked) /\ Cardinality(Tracked) = Len(eviction_ring)
<1> DEFINE f == [n \in 1..Len(eviction_ring) |-> eviction_ring[n]]
<1>1. Len(eviction_ring) \in Nat
  BY DEF GuardType
<1>2. \A n \in 1..Len(eviction_ring) : eviction_ring[n] \in Tracked
  BY DEF GuardType, GuardConsistent, Tracked
<1>3. f \in Bijection(1..Len(eviction_ring), Tracked)
  <2>1. f \in [1..Len(eviction_ring) -> Tracked]
    BY <1>2
  <2>2. f \in Injection(1..Len(eviction_ring), Tracked)
    BY <2>1 DEF Injection, IsInjective, GuardConsistent
  <2>3. \A k \in Tracked : \E n \in 1..Len(eviction_ring) : f[n] = k
    BY DEF Tracked, GuardConsistent
  <2> QED
    BY <2>1, <2>2, <2>3 DEF Bijection, Surjection
<1>4. ExistsBijection(1..Len(eviction_ring), Tracked)
  BY <1>3 DEF ExistsBijection
<1> QED
  BY <1>1, <1>4, FS_CountingElements, FS_NatBijection

-----------------------------------------------------------------------------
(* The actions. *)

\* A new key finds room in the ring while no more than its capacity were let through.
LEMMA RoomForNewKey ==
    ASSUME GuardInv, NEW k \in Keys, states[k] = "Absent",
           Cardinality(posted \cup {k}) <= RING_CAPACITY
    PROVE  Len(eviction_ring) < RING_CAPACITY /\ Tracked = posted
<1> USE NotificationConstants
<1>1. IsFiniteSet(posted) /\ Cardinality(posted) \in Nat
  BY FS_CardinalityType DEF GuardInv, NoneForgotten
<1>2. Cardinality(posted \cup {k})
        = IF k \in posted THEN Cardinality(posted) ELSE Cardinality(posted) + 1
  BY ZenonT(30), <1>1, FS_AddElement
<1>3. Tracked = posted
  BY <1>1, <1>2 DEF GuardInv, NoneForgotten
<1>4. k \notin posted
  BY <1>3 DEF Tracked
<1>5. Cardinality(posted) = Len(eviction_ring)
  BY <1>3, RingLength DEF GuardInv
<1> QED
  BY <1>1, <1>2, <1>3, <1>4, <1>5

\* A message of the link is a Message, and taking it leaves a sequence of them.
LEMMA ArrivesType ==
    ASSUME GuardType, NEW o \in Origins, NEW t, Arrives(o, t)
    PROVE  /\ Head(link[o]) \in Message
           /\ Head(link[o]).type = t
           /\ link' \in [Origins -> Seq(Message)]
<1>1. link[o] \in Seq(Message) /\ link[o] # <<>>
  BY DEF GuardType, Arrives
<1>2. Head(link[o]) \in Message /\ Tail(link[o]) \in Seq(Message)
  BY <1>1
<1> QED
  BY <1>2 DEF GuardType, Arrives

\* What changes only the link, the screen and the histories.
LEMMA GuardUnchanged ==
    ASSUME GuardInv, UNCHANGED <<guardVars, posted>>, link' \in [Origins -> Seq(Message)]
    PROVE  GuardInv'
BY DEF GuardInv, GuardType, GuardConsistent, NoneForgotten, Tracked, guardVars

\* A message that is sent leaves the guard alone.
LEMMA SendInv ==
    ASSUME GuardInv, NEW o \in Origins, NEW m \in Message, Send(o, m)
    PROVE  GuardInv'
<1>1. link' \in [Origins -> Seq(Message)]
  BY DEF Send, GuardInv, GuardType
<1> QED
  BY <1>1, GuardUnchanged DEF Send

\* So does everything an origin does.
LEMMA BuildInv ==
    ASSUME GuardInv, NEW o \in Origins, Build(o)
    PROVE  GuardInv'
<1>1. ASSUME NEW i \in Ids, NEW c \in Contents, build_post(o, i, c) PROVE GuardInv'
  <2>1. CASE c \in OutBlocked
    <3>1. UNCHANGED <<link, guardVars, posted>>
      BY <1>1, <2>1 DEF build_post
    <3> QED
      BY <3>1, GuardUnchanged DEF GuardInv, GuardType
  <2>2. CASE c \notin OutBlocked
    <3>1. [type |-> "Post", id |-> i, content |-> c] \in Message
      BY DEF Message
    <3> QED
      BY <1>1, <2>2, <3>1, SendInv DEF build_post
  <2> QED
    BY <2>1, <2>2
<1>2. ASSUME NEW i \in Ids, build_dismiss(o, i) PROVE GuardInv'
  <2>1. [type |-> "Dismiss", id |-> i] \in Message
    BY DEF Message
  <2> QED
    BY SMTT(60), <1>2, <2>1, SendInv DEF build_dismiss
<1>3. ASSUME build_clear_all(o) PROVE GuardInv'
  <2>1. [type |-> "ClearAll"] \in Message
    BY DEF Message
  <2> QED
    BY <1>3, <2>1, SendInv DEF build_clear_all
<1>4. ASSUME NEW i \in Ids, NEW action \in {"Dismiss", "Open"}, build_action(o, i, action)
      PROVE  GuardInv'
  <2>1. [type |-> "ActionInvoked", id |-> i, action |-> action] \in Message
    BY DEF Message
  <2> QED
    BY <1>4, <2>1, SendInv DEF build_action
<1> QED
  BY <1>1, <1>2, <1>3, <1>4 DEF Build

\* A Post that is let through: the key is new, or an update of an active one.
LEMMA HandlePostInv ==
    ASSUME GuardInv, NEW o \in Origins, HandlePost(o)
    PROVE  GuardInv'
<1> USE NotificationConstants
<1> DEFINE m == Head(link[o])
           k == <<o, m.id>>
<1>1. /\ m \in Message /\ m.type = "Post"
      /\ link' \in [Origins -> Seq(Message)]
  BY ArrivesType DEF HandlePost, GuardInv
<1>2. m.id \in Ids /\ m.content \in Contents
  BY <1>1 DEF Message
<1>3. k \in Keys
  BY <1>2 DEF Keys
<1>4. ~ is_dismissed(k) /\ record_posted(k, m.content) /\ posted' = posted \cup {k}
  BY DEF HandlePost
<1>5. GuardType' /\ GuardConsistent'
  BY <1>1, <1>2, <1>3, <1>4, RecordPostedConsistent DEF GuardInv, GuardType
<1>6. posted' \subseteq Keys
  BY <1>3, <1>4 DEF GuardInv, NoneForgotten
<1>7. IsFiniteSet(posted')
  BY ZenonT(30), <1>4, FS_AddElement DEF GuardInv, NoneForgotten
<1>8. ASSUME Cardinality(posted') <= RING_CAPACITY PROVE Tracked' = posted'
  <2>1. CASE states[k] = "Absent"
    <3>1. Len(eviction_ring) < RING_CAPACITY /\ Tracked = posted
      BY SMTT(60), <1>3, <1>4, <1>8, <2>1, RoomForNewKey
    <3>2. Evicted = {}
      BY <3>1 DEF Evicted, GuardInv, GuardType
    <3>3. \A x \in Keys : states'[x] = IF x = k THEN "Active" ELSE states[x]
      BY <1>4, <3>2 DEF record_posted
    <3>4. Tracked' = Tracked \cup {k}
      BY <1>3, <3>3 DEF Tracked
    <3> QED
      BY <1>4, <3>1, <3>4
  <2>2. CASE states[k] # "Absent"
    <3>1. states[k] = "Active" /\ seen_hashes[k] # Absent
      BY SMTT(60), <1>3, <1>4, <2>2 DEF GuardInv, GuardType, GuardConsistent, is_dismissed
    <3>2. \A x \in Keys : states'[x] = IF x = k THEN "Active" ELSE states[x]
      BY <1>4, <3>1 DEF record_posted
    <3>3. Tracked' = Tracked /\ k \in Tracked
      BY <1>3, <3>1, <3>2 DEF Tracked
    <3>4. IsFiniteSet(posted) /\ Cardinality(posted) \in Nat
      BY FS_CardinalityType DEF GuardInv, NoneForgotten
    <3>5. Cardinality(posted')
            = IF k \in posted THEN Cardinality(posted) ELSE Cardinality(posted) + 1
      BY ZenonT(30), <1>4, <3>4, FS_AddElement
    <3>6. Tracked = posted
      BY <1>8, <3>4, <3>5 DEF GuardInv, NoneForgotten
    <3> QED
      BY <1>4, <3>3, <3>6
  <2> QED
    BY <2>1, <2>2
<1> QED
  BY <1>5, <1>6, <1>7, <1>8 DEF GuardInv, NoneForgotten

\* Dismissals, whichever message brings them.
LEMMA DismissInv ==
    ASSUME GuardInv, NEW ks, record_dismissed(ks), posted' = posted,
           link' \in [Origins -> Seq(Message)]
    PROVE  GuardInv'
<1>1. GuardType' /\ GuardConsistent' /\ Tracked' = Tracked
  BY RecordDismissedConsistent DEF GuardInv, GuardType
<1> QED
  BY <1>1 DEF GuardInv, NoneForgotten

\* A handled message keeps the invariant.
LEMMA HandleInv ==
    ASSUME GuardInv, NEW o \in Origins, Handle(o)
    PROVE  GuardInv'
<1>1. CASE HandlePost(o)
  BY <1>1, HandlePostInv
<1>2. CASE SuppressPost(o)
  <2>1. link' \in [Origins -> Seq(Message)]
    BY <1>2, ArrivesType DEF SuppressPost, GuardInv
  <2> QED
    BY <1>2, <2>1, GuardUnchanged DEF SuppressPost
<1>3. CASE HandleDismiss(o)
  <2>1. link' \in [Origins -> Seq(Message)]
    BY <1>3, ArrivesType DEF HandleDismiss, GuardInv
  <2> QED
    BY <1>3, <2>1, DismissInv DEF HandleDismiss
<1>4. CASE HandleClearAll(o)
  <2>1. link' \in [Origins -> Seq(Message)]
    BY <1>4, ArrivesType DEF HandleClearAll, GuardInv
  <2> QED
    BY <1>4, <2>1, DismissInv DEF HandleClearAll
<1>5. CASE HandleAction(o)
  <2>1. link' \in [Origins -> Seq(Message)]
    BY <1>5, ArrivesType DEF HandleAction, GuardInv
  <2>2. CASE Head(link[o]).action = "Dismiss"
    BY <1>5, <2>1, <2>2, DismissInv DEF HandleAction
  <2>3. CASE Head(link[o]).action # "Dismiss"
    BY <1>5, <2>1, <2>3, GuardUnchanged DEF HandleAction
  <2> QED
    BY <2>2, <2>3
<1> QED
  BY <1>1, <1>2, <1>3, <1>4, <1>5 DEF Handle

\* The invariant holds at first.
LEMMA InitInv == Init => GuardInv
<1> SUFFICES ASSUME Init PROVE GuardInv
  OBVIOUS
<1> USE NotificationConstants
<1>1. <<>> \in Seq(Keys) /\ <<>> \in Seq(Message) /\ Len(<<>>) = 0
  OBVIOUS
<1>2. GuardType
  BY <1>1 DEF Init, GuardType
<1>3. GuardConsistent
  BY <1>1 DEF Init, GuardConsistent
<1>4. Tracked = posted
  BY DEF Init, Tracked
<1>5. IsFiniteSet(posted)
  BY FS_EmptySet DEF Init
<1> QED
  BY <1>2, <1>3, <1>4, <1>5 DEF GuardInv, NoneForgotten, Init

\* Every step keeps it.
LEMMA NextInv == GuardInv /\ [Next]_vars => GuardInv'
<1> SUFFICES ASSUME GuardInv, [Next]_vars PROVE GuardInv'
  OBVIOUS
<1>1. CASE UNCHANGED vars
  BY <1>1 DEF vars, guardVars, GuardInv, GuardType, GuardConsistent, NoneForgotten, Tracked
<1>2. ASSUME NEW o \in Origins, Build(o) \/ Handle(o) PROVE GuardInv'
  BY <1>2, BuildInv, HandleInv
<1> QED
  BY <1>1, <1>2 DEF Next

\* It holds throughout.
LEMMA GuardInvariant == Spec => []GuardInv
BY InitInv, NextInv, PTL DEF Spec

-----------------------------------------------------------------------------
(* The theorems. *)

\* Whatever devices post, update, dismiss and clear, in whatever order it arrives, the
\* guard's ring, state map and hash cache describe the same keys, within the capacity.
THEOREM GuardStaysConsistent == Spec => []GuardConsistent
<1>1. GuardInv => GuardConsistent
  BY DEF GuardInv
<1> QED
  BY <1>1, GuardInvariant, PTL

\* A dismissed key keeps its state when no more keys than the ring holds were let
\* through: only an eviction could take it away, and there is none.
LEMMA DismissedKept ==
    ASSUME GuardInv, Next, Cardinality(posted') <= RING_CAPACITY,
           NEW d \in Keys, states[d] = "Dismissed"
    PROVE  states'[d] = "Dismissed"
<1>1. PICK o \in Origins : Build(o) \/ Handle(o)
  BY DEF Next
<1>2. CASE Build(o)
  <2>1. UNCHANGED guardVars
    BY ZenonT(30), <1>2 DEF Build, build_post, build_dismiss, build_clear_all, build_action, Send
  <2> QED
    BY SMTT(60), <2>1 DEF guardVars
<1>3. CASE HandlePost(o)
  <2> DEFINE m == Head(link[o])
             k == <<o, m.id>>
  <2>1. m \in Message /\ m.type = "Post"
    BY <1>3, ArrivesType DEF HandlePost, GuardInv
  <2>2. m.id \in Ids
    BY SMTT(60), <2>1 DEF Message
  <2>3. k \in Keys
    BY SMTT(60), <2>2 DEF Keys
  <2>4. ~ is_dismissed(k) /\ record_posted(k, m.content) /\ posted' = posted \cup {k}
    BY <1>3 DEF HandlePost
  <2>5. d # k
    BY SMTT(60), <2>4 DEF is_dismissed
  <2>6. CASE states[k] = "Absent"
    <3>1. Len(eviction_ring) < RING_CAPACITY
      BY SMTT(60), <2>3, <2>4, <2>6, RoomForNewKey
    <3>2. Evicted = {}
      BY SMTT(60), <3>1, NotificationConstants DEF Evicted, GuardInv, GuardType
    <3> QED
      BY ZenonT(60), <2>4, <2>5, <3>2 DEF record_posted
  <2>7. CASE states[k] # "Absent"
    <3>1. seen_hashes[k] # Absent
      BY SMTT(60), <2>3, <2>4, <2>7 DEF GuardInv, GuardType, GuardConsistent, is_dismissed
    <3> QED
      BY SMTT(60), <2>4, <2>5, <3>1 DEF record_posted
  <2> QED
    BY <2>6, <2>7
<1>4. CASE SuppressPost(o)
  BY SMTT(60), <1>4 DEF SuppressPost, guardVars
<1>5. ASSUME NEW ks, record_dismissed(ks) PROVE states'[d] = "Dismissed"
  BY SMTT(60), <1>5 DEF record_dismissed
<1>6. CASE HandleDismiss(o) \/ HandleClearAll(o) \/ HandleAction(o)
  BY <1>5, <1>6 DEF HandleDismiss, HandleClearAll, HandleAction, guardVars
<1> QED
  BY <1>1, <1>2, <1>3, <1>4, <1>6 DEF Handle

\* Until more keys were let through than the ring holds, what a user dismissed is not
\* mirrored again.
THEOREM DismissalIsFinal == Spec => DismissedStaysDismissed
<1> DEFINE Kept == Cardinality(posted') <= RING_CAPACITY =>
                     \A k \in Keys : states[k] = "Dismissed" => states'[k] = "Dismissed"
<1>1. GuardInv /\ [Next]_vars => [Kept]_vars
  BY DismissedKept
<1>2. Spec => [][Kept]_vars
  BY <1>1, GuardInvariant, PTL DEF Spec
<1> QED
  BY <1>2 DEF DismissedStaysDismissed

-----------------------------------------------------------------------------
(***************************************************************************)
(* The bucket.  retain is a recursive function of the number of entries it *)
(* has gone through; what it returns is shown by induction on that number, *)
(* in the form that a least counterexample does not exist.                 *)
(***************************************************************************)

\* Leaves that need arithmetic, tuples or sequences name SMT.
USE Zenon

\* A set of numbers that is not empty has a least one.
LEMMA LeastNumber ==
    ASSUME NEW S, S \subseteq Nat, S # {}
    PROVE  \E n \in S : \A m \in S : n <= m
<1> DEFINE R == {p \in Nat \X Nat : p[1] < p[2]}
<1>1. IsWellFoundedOn(R, Nat)
  BY NatLessThanWellFounded, Zenon DEF OpToRel
<1> HIDE DEF R
<1>2. PICK x \in S : \A y \in S : ~ (<<y, x>> \in R)
  BY <1>1, WFMin
<1>3. \A y \in S : ~ (y < x)
  BY <1>2 DEF R
<1> QED BY <1>3, SMT

\* The partial results of retain: those of n entries follow from those of n - 1.
KeptBy(f, b, i, m) ==
    f = [n \in 0..m |-> IF n = 0 THEN <<>>
                        ELSE IF b[n].id = i THEN f[n - 1] ELSE Append(f[n - 1], b[n])]

\* There is a function that retain is the last value of.
LEMMA KeptExists ==
    ASSUME NEW b, NEW i, NEW N \in Nat
    PROVE  \E f : KeptBy(f, b, i, N)
<1> DEFINE S == {m \in Nat : ~ \E f : KeptBy(f, b, i, m)}
<1>1. S = {}
  <2> SUFFICES ASSUME S # {} PROVE FALSE
    OBVIOUS
  <2>1. PICK m \in S : \A k \in S : m <= k
    <3> HIDE DEF S
    <3>1. S \subseteq Nat
      BY DEF S
    <3> QED BY <3>1, LeastNumber
  <2>2. m # 0
    <3>1. KeptBy([n \in 0..0 |-> <<>>], b, i, 0)
      BY SMT DEF KeptBy
    <3> QED BY <3>1
  <2>3. m - 1 \in Nat /\ m - 1 \notin S
    BY <2>1, <2>2, SMT
  <2>4. PICK g : KeptBy(g, b, i, m - 1)
    BY <2>3
  <2> DEFINE f == [n \in 0..m |-> IF n = m THEN IF b[m].id = i THEN g[m - 1] ELSE Append(g[m - 1], b[m])
                                  ELSE g[n]]
  <2>5. KeptBy(f, b, i, m)
    <3>1. \A n \in 0..m-1 : g[n] = IF n = 0 THEN <<>> ELSE IF b[n].id = i THEN g[n - 1] ELSE Append(g[n - 1], b[n])
      BY <2>3, <2>4 DEF KeptBy
    <3>2. \A n \in 0..m : f[n] = IF n = 0 THEN <<>> ELSE IF b[n].id = i THEN f[n - 1] ELSE Append(f[n - 1], b[n])
      BY <3>1, <2>2, SMT
    <3>3. f = [n \in 0..m |-> f[n]]
      OBVIOUS
    <3> HIDE DEF f
    <3> QED BY <3>2, <3>3 DEF KeptBy
  <2> QED BY <2>5
<1> QED BY <1>1

\* retain(b, i) is built one entry after the other.
LEMMA RetainSteps ==
    ASSUME NEW b, NEW i, Len(b) \in Nat
    PROVE  \E f : KeptBy(f, b, i, Len(b)) /\ retain(b, i) = f[Len(b)]
<1> DEFINE k == CHOOSE f : KeptBy(f, b, i, Len(b))
<1>1. KeptBy(k, b, i, Len(b))
  BY KeptExists
<1>2. retain(b, i) = k[Len(b)]
  BY DEF retain, KeptBy
<1> QED BY <1>1, <1>2

Elements(q) == {q[n] : n \in 1..Len(q)}

\* No id occurs twice in a bucket.
Distinct(bucket) == \A m, n \in 1..Len(bucket) : bucket[m].id = bucket[n].id => m = n

\* r is what is left of the first m entries of b.
Retained(r, b, i, m) ==
    /\ r \in Seq(Entry)
    /\ Len(r) <= m
    /\ \A n \in 1..Len(r) : r[n].id # i /\ \E j \in 1..m : r[n] = b[j]
    /\ \A j \in 1..m : b[j].id # i => \E n \in 1..Len(r) : r[n] = b[j]
    /\ Distinct(b) => Distinct(r)

\* One more entry.
LEMMA RetainOne ==
    ASSUME NEW b \in Seq(Entry), NEW i, NEW m \in 1..Len(b), NEW r, Retained(r, b, i, m - 1)
    PROVE  Retained(IF b[m].id = i THEN r ELSE Append(r, b[m]), b, i, m)
<1>1. /\ Len(b) \in Nat /\ m \in Nat /\ m - 1 \in Nat /\ m - 1 < m
      /\ \A j \in 1..m : j \in 1..Len(b) /\ (j \in 1..m - 1 \/ j = m)
      /\ \A j \in 1..m - 1 : j \in 1..m /\ j # m
      /\ m \in 1..m
  BY SMT
<1>2. r \in Seq(Entry) /\ Len(r) \in Nat /\ Len(r) <= m - 1
  BY SMT DEF Retained
<1>3. CASE b[m].id = i
  <2>1. Len(r) <= m
    BY <1>1, <1>2, SMT
  <2> QED
    BY <1>1, <1>2, <1>3, <2>1 DEF Retained
<1>4. CASE b[m].id # i
  <2> DEFINE s == Append(r, b[m])
  <2>1. b[m] \in Entry
    BY SMT
  <2>2. /\ s \in Seq(Entry) /\ Len(s) = Len(r) + 1 /\ Len(s) <= m
        /\ \A n \in 1..Len(r) : n \in 1..Len(s) /\ s[n] = r[n]
        /\ Len(s) \in 1..Len(s) /\ s[Len(s)] = b[m]
        /\ \A n \in 1..Len(s) : n \in 1..Len(r) \/ n = Len(s)
    BY <1>1, <1>2, <2>1, SMT
  <2> HIDE DEF s
  <2>3. ASSUME NEW n \in 1..Len(s) PROVE s[n].id # i /\ \E j \in 1..m : s[n] = b[j]
    <3>1. CASE n \in 1..Len(r)
      <4>1. PICK j \in 1..m - 1 : r[n] = b[j]
        BY <3>1 DEF Retained
      <4> QED
        BY <1>1, <2>2, <3>1, <4>1 DEF Retained
    <3>2. CASE n = Len(s)
      BY <1>1, <1>4, <2>2, <3>2
    <3> QED
      BY <2>2, <3>1, <3>2
  <2>4. ASSUME NEW j \in 1..m, b[j].id # i PROVE \E n \in 1..Len(s) : s[n] = b[j]
    <3>1. CASE j = m
      BY <2>2, <3>1
    <3>2. CASE j \in 1..m - 1
      <4>1. PICK n \in 1..Len(r) : r[n] = b[j]
        BY <2>4, <3>2 DEF Retained
      <4> QED
        BY <2>2, <4>1
    <3> QED
      BY <1>1, <3>1, <3>2
  <2>5. ASSUME Distinct(b) PROVE Distinct(s)
    <3>1. \A n \in 1..Len(r) : r[n].id # b[m].id
      BY ZenonT(60), <1>1, <2>5 DEF Retained, Distinct
    <3>2. \A n, k \in 1..Len(r) : r[n].id = r[k].id => n = k
      BY <2>5 DEF Retained, Distinct
    <3> QED
      BY <2>2, <3>1, <3>2 DEF Distinct
  <2>6. Retained(s, b, i, m)
    BY <2>2, <2>3, <2>4, <2>5 DEF Retained
  <2> QED
    BY <1>4, <2>6 DEF s
<1> QED
  BY <1>3, <1>4

\* What retain returns.
LEMMA RetainFacts ==
    ASSUME NEW b \in Seq(Entry), NEW i
    PROVE  Retained(retain(b, i), b, i, Len(b))
<1>1. Len(b) \in Nat
  BY SMT
<1>2. PICK f : KeptBy(f, b, i, Len(b)) /\ retain(b, i) = f[Len(b)]
  BY <1>1, RetainSteps
<1>3. \A n \in 0..Len(b) :
        f[n] = IF n = 0 THEN <<>> ELSE IF b[n].id = i THEN f[n - 1] ELSE Append(f[n - 1], b[n])
  BY <1>2 DEF KeptBy
<1> DEFINE S == {m \in 0..Len(b) : ~ Retained(f[m], b, i, m)}
<1>4. S = {}
  <2> SUFFICES ASSUME S # {} PROVE FALSE
    OBVIOUS
  <2>1. S \subseteq Nat
    BY <1>1, SMT
  <2>2. PICK m \in S : \A k \in S : m <= k
    <3> HIDE DEF S
    <3> QED
      BY <2>1, LeastNumber
  <2>3. m \in 0..Len(b) /\ ~ Retained(f[m], b, i, m)
    OBVIOUS
  <2>4. CASE m = 0
    <3>1. f[m] = <<>> /\ 1..m = {}
      BY <1>3, <2>3, <2>4, SMT
    <3>2. <<>> \in Seq(Entry) /\ Len(<<>>) = 0 /\ 1..Len(<<>>) = {} /\ Len(<<>>) <= 0
      BY SMT
    <3>3. Retained(<<>>, b, i, 0)
      BY <3>1, <3>2, <2>4 DEF Retained, Distinct
    <3> QED
      BY <2>3, <2>4, <3>1, <3>3
  <2>5. CASE m # 0
    <3>1. m \in 1..Len(b) /\ m - 1 \in 0..Len(b) /\ ~ (m <= m - 1)
      BY <1>1, <2>3, <2>5, SMT
    <3>2. Retained(f[m - 1], b, i, m - 1)
      BY <2>2, <3>1
    <3>3. f[m] = IF b[m].id = i THEN f[m - 1] ELSE Append(f[m - 1], b[m])
      BY <1>3, <2>3, <2>5
    <3> QED
      BY <2>3, <3>1, <3>2, <3>3, RetainOne
  <2> QED
    BY <2>4, <2>5
<1>5. Len(b) \in 0..Len(b)
  BY <1>1, SMT
<1> QED
  BY <1>2, <1>4, <1>5

\* The elements of a sequence when one is added or taken.
LEMMA ElementsAppend ==
    ASSUME NEW T, NEW q \in Seq(T), NEW x \in T
    PROVE  Append(q, x) \in Seq(T) /\ Elements(Append(q, x)) = Elements(q) \cup {x}
<1>1. /\ Append(q, x) \in Seq(T)
      /\ Len(q) + 1 \in 1..Len(Append(q, x)) /\ Append(q, x)[Len(q) + 1] = x
      /\ \A n \in 1..Len(q) : n \in 1..Len(Append(q, x)) /\ Append(q, x)[n] = q[n]
      /\ \A n \in 1..Len(Append(q, x)) : n \in 1..Len(q) \/ n = Len(q) + 1
  BY SMT
<1> QED
  BY <1>1 DEF Elements

\* The elements of a sequence without its head.
LEMMA ElementsTail ==
    ASSUME NEW T, NEW q \in Seq(T), q # <<>>
    PROVE  /\ Head(q) \in T /\ Tail(q) \in Seq(T)
           /\ Elements(q) = Elements(Tail(q)) \cup {Head(q)}
<1>1. /\ Head(q) \in T /\ Tail(q) \in Seq(T)
      /\ 1 \in 1..Len(q) /\ Head(q) = q[1]
      /\ \A n \in 1..Len(Tail(q)) : n + 1 \in 1..Len(q) /\ Tail(q)[n] = q[n + 1]
      /\ \A n \in 1..Len(q) : n # 1 => n - 1 \in 1..Len(Tail(q)) /\ Tail(q)[n - 1] = q[n]
  BY SMT
<1>2. ASSUME NEW y \in Elements(q) PROVE y \in Elements(Tail(q)) \cup {Head(q)}
  <2>1. PICK n \in 1..Len(q) : y = q[n]
    BY DEF Elements
  <2> QED
    BY <1>1, <2>1 DEF Elements
<1>3. ASSUME NEW y \in Elements(Tail(q)) PROVE y \in Elements(q)
  BY ZenonT(60), <1>1 DEF Elements
<1>4. Head(q) \in Elements(q)
  BY <1>1 DEF Elements
<1> QED
  BY <1>1, <1>2, <1>3, <1>4

\* The bucket after a Post.
LEMMA StoredFacts ==
    ASSUME NEW b \in Seq(Entry), NEW e \in Entry, Len(b) <= MaxBucket
    PROVE  /\ Stored(b, e) \in Seq(Entry) /\ Len(Stored(b, e)) <= MaxBucket
           /\ e \in Elements(Stored(b, e))
           /\ \A x \in Elements(Stored(b, e)) : x = e \/ (x \in Elements(b) /\ x.id # e.id)
           /\ Distinct(b) => Distinct(Stored(b, e))
<1> DEFINE r == retain(b, e.id)
           k == Append(r, e)
<1>1. Retained(r, b, e.id, Len(b))
  BY RetainFacts
<1> HIDE DEF r
<1>2. r \in Seq(Entry) /\ Len(r) \in Nat /\ Len(b) \in Nat /\ Len(r) <= Len(b)
  BY <1>1, SMT DEF Retained
<1>3. k \in Seq(Entry) /\ Elements(k) = Elements(r) \cup {e} /\ Len(k) = Len(r) + 1 /\ k # <<>>
  BY <1>2, ElementsAppend, SMT
<1>4. ASSUME NEW x \in Elements(r) PROVE x.id # e.id /\ x \in Elements(b)
  <2>1. PICK n \in 1..Len(r) : x = r[n]
    BY DEF Elements
  <2> QED
    BY <1>1, <2>1 DEF Retained, Elements
<1>5. Distinct(b) => Distinct(k)
  <2> SUFFICES ASSUME Distinct(b) PROVE Distinct(k)
    OBVIOUS
  <2>1. Distinct(r) /\ \A n \in 1..Len(r) : r[n].id # e.id
    BY <1>1 DEF Retained
  <2>2. \A n \in 1..Len(k) : (n \in 1..Len(r) /\ k[n] = r[n]) \/ (n = Len(r) + 1 /\ k[n] = e)
    BY <1>2, SMT
  <2> QED
    BY <2>1, <2>2 DEF Distinct
<1>6. CASE Len(k) > MaxBucket
  <2>1. Stored(b, e) = Tail(k)
    BY <1>6 DEF Stored, r
  <2>2. MaxBucket \in Nat /\ MaxBucket > 0
    BY NotificationConstants, SMT
  <2> HIDE DEF k
  <2>3. /\ Tail(k) \in Seq(Entry) /\ Len(Tail(k)) <= MaxBucket
        /\ Len(Tail(k)) \in 1..Len(Tail(k)) /\ Tail(k)[Len(Tail(k))] = k[Len(k)]
        /\ \A n \in 1..Len(Tail(k)) : n + 1 \in 1..Len(k) /\ Tail(k)[n] = k[n + 1]
        /\ \A n, m \in 1..Len(Tail(k)) : n + 1 = m + 1 => n = m
    BY <1>2, <1>3, <1>6, <2>2, SMT
  <2>4. k[Len(k)] = e
    BY <1>2, <1>3, SMT DEF k
  <2>5. e \in Elements(Tail(k))
    BY <2>3, <2>4 DEF Elements
  <2>6. Elements(Tail(k)) \subseteq Elements(k)
    BY <2>3 DEF Elements
  <2>7. Distinct(k) => Distinct(Tail(k))
    <3> SUFFICES ASSUME Distinct(k), NEW m \in 1..Len(Tail(k)), NEW n \in 1..Len(Tail(k)),
                        Tail(k)[m].id = Tail(k)[n].id
                 PROVE  m = n
      BY DEF Distinct
    <3>1. m + 1 = n + 1
      BY ZenonT(60), <2>3 DEF Distinct
    <3> QED
      BY <2>3, <3>1
  <2> QED
    BY <1>3, <1>4, <1>5, <2>1, <2>3, <2>5, <2>6, <2>7
<1>7. CASE ~ (Len(k) > MaxBucket)
  <2>1. Stored(b, e) = k
    BY <1>7 DEF Stored, r
  <2>2. Len(k) <= MaxBucket
    BY <1>2, <1>3, <1>7, NotificationConstants, SMT
  <2> HIDE DEF k
  <2> QED
    BY <1>3, <1>4, <1>5, <2>1, <2>2
<1> QED
  BY <1>6, <1>7

\* The bucket after a dismissal.
LEMMA DismissedFacts ==
    ASSUME NEW b \in Seq(Entry), NEW ids
    PROVE  /\ Dismissed(b, ids) \in Seq(Entry) /\ Len(Dismissed(b, ids)) = Len(b)
           /\ \A n \in 1..Len(b) : /\ Dismissed(b, ids)[n].id = b[n].id
                                   /\ Dismissed(b, ids)[n].content = b[n].content
                                   /\ Dismissed(b, ids)[n].state =
                                        IF b[n].id \in ids THEN "Dismissed" ELSE b[n].state
           /\ \A n \in 1..Len(b) : b[n].id \notin ids => Dismissed(b, ids)[n] = b[n]
<1> DEFINE d == Dismissed(b, ids)
<1>1. d = [n \in 1..Len(b) |-> IF b[n].id \in ids THEN [b[n] EXCEPT !.state = "Dismissed"] ELSE b[n]]
  BY DEF Dismissed
<1>2. \A n \in 1..Len(b) : b[n] \in Entry
  BY SMT
<1>3. \A x \in Entry : /\ [x EXCEPT !.state = "Dismissed"] \in Entry
                       /\ [x EXCEPT !.state = "Dismissed"].id = x.id
                       /\ [x EXCEPT !.state = "Dismissed"].content = x.content
                       /\ [x EXCEPT !.state = "Dismissed"].state = "Dismissed"
  BY SMT DEF Entry
<1>4. d \in [1..Len(b) -> Entry]
  BY ZenonT(60), <1>1, <1>2, <1>3
<1>5. Len(b) \in Nat
  BY SMT
<1> HIDE DEF d
<1>6. d \in Seq(Entry) /\ Len(d) = Len(b)
  BY <1>4, <1>5, SMT
<1>7. ASSUME NEW n \in 1..Len(b)
      PROVE  /\ d[n].id = b[n].id /\ d[n].content = b[n].content
             /\ d[n].state = IF b[n].id \in ids THEN "Dismissed" ELSE b[n].state
             /\ b[n].id \notin ids => d[n] = b[n]
  <2>1. d[n] = IF b[n].id \in ids THEN [b[n] EXCEPT !.state = "Dismissed"] ELSE b[n]
    BY <1>1
  <2>2. CASE b[n].id \in ids
    <3>1. d[n] = [b[n] EXCEPT !.state = "Dismissed"]
      BY <2>1, <2>2
    <3>2. /\ [b[n] EXCEPT !.state = "Dismissed"].id = b[n].id
          /\ [b[n] EXCEPT !.state = "Dismissed"].content = b[n].content
          /\ [b[n] EXCEPT !.state = "Dismissed"].state = "Dismissed"
      BY <1>2, SMT DEF Entry
    <3> QED
      BY <2>2, <3>1, <3>2
  <2>3. CASE b[n].id \notin ids
    BY <2>1, <2>3
  <2> QED
    BY <2>2, <2>3
<1> QED
  BY <1>6, <1>7 DEF d

-----------------------------------------------------------------------------
(* The mirror. *)

\* Every origin has a bucket.
MirrorType == TypeOK /\ active \in [Origins -> Seq(Entry)]

\* The ids that a message dismisses.
DismissedBy(m) ==
    IF m.type = "ClearAll" THEN Ids
    ELSE IF m.type = "Dismiss" \/ (m.type = "ActionInvoked" /\ m.action = "Dismiss") THEN {m.id}
    ELSE {}

\* Guard and bucket after a message of o that dismisses ids.
Dismisses(o, ids) ==
    /\ record_dismissed({<<o, i>> : i \in ids})
    /\ active' = [active EXCEPT ![o] = Dismissed(@, ids)]

\* The kinds of messages.
LEMMA MessageKinds ==
    ASSUME NEW m \in Message
    PROVE  /\ m.type \in {"Post", "Dismiss", "ClearAll", "ActionInvoked"}
           /\ m.type # "ClearAll" => m.id \in Ids
           /\ m.type = "Post" => m.content \in Contents
           /\ m.type = "ActionInvoked" => m.action \in {"Dismiss", "Open"}
           /\ DismissedBy(m) \subseteq Ids
<1>1. /\ m.type \in {"Post", "Dismiss", "ClearAll", "ActionInvoked"}
      /\ m.type # "ClearAll" => m.id \in Ids
      /\ m.type = "Post" => m.content \in Contents
      /\ m.type = "ActionInvoked" => m.action \in {"Dismiss", "Open"}
  BY SMT DEF Message
<1> QED
  BY <1>1 DEF DismissedBy

\* What a handled message does.
LEMMA HandleKinds ==
    ASSUME MirrorType, NEW o \in Origins, Handle(o)
    PROVE  /\ link[o] \in Seq(Message) /\ link[o] # <<>> /\ Head(link[o]) \in Message
           /\ link' = [link EXCEPT ![o] = Tail(@)]
           /\ UNCHANGED <<shown, local_sequence, retired>>
           /\ \/ Head(link[o]).type = "Post" /\ HandlePost(o)
              \/ Head(link[o]).type = "Post" /\ SuppressPost(o)
              \/ /\ Head(link[o]).type # "Post"
                 /\ Dismisses(o, DismissedBy(Head(link[o]))) /\ posted' = posted
              \/ /\ Head(link[o]).type = "ActionInvoked" /\ Head(link[o]).action # "Dismiss"
                 /\ UNCHANGED <<guardVars, active, posted>>
<1> DEFINE m == Head(link[o])
<1>1. /\ link[o] # <<>> /\ link' = [link EXCEPT ![o] = Tail(@)]
      /\ UNCHANGED <<shown, local_sequence, retired>>
  BY DEF Handle, HandlePost, SuppressPost, HandleDismiss, HandleClearAll, HandleAction, Arrives
<1>2. link[o] \in Seq(Message)
  BY DEF MirrorType, TypeOK
<1>3. m \in Message
  BY <1>1, <1>2, ElementsTail
<1> SUFFICES \/ m.type = "Post" /\ HandlePost(o)
             \/ m.type = "Post" /\ SuppressPost(o)
             \/ m.type # "Post" /\ Dismisses(o, DismissedBy(m)) /\ posted' = posted
             \/ /\ m.type = "ActionInvoked" /\ m.action # "Dismiss"
                /\ UNCHANGED <<guardVars, active, posted>>
  BY <1>1, <1>2, <1>3
<1>4. CASE HandlePost(o)
  BY <1>4 DEF HandlePost, Arrives
<1>5. CASE SuppressPost(o)
  BY <1>5 DEF SuppressPost, Arrives
<1>6. CASE HandleDismiss(o)
  <2>1. m.type = "Dismiss" /\ DismissedBy(m) = {m.id}
    BY <1>6 DEF HandleDismiss, Arrives, DismissedBy
  <2>2. {<<o, i>> : i \in {m.id}} = {<<o, m.id>>}
    OBVIOUS
  <2> QED
    BY <1>6, <2>1, <2>2 DEF HandleDismiss, Dismisses
<1>7. CASE HandleClearAll(o)
  <2>1. m.type = "ClearAll" /\ DismissedBy(m) = Ids
    BY <1>7 DEF HandleClearAll, Arrives, DismissedBy
  <2> QED
    BY <1>7, <2>1 DEF HandleClearAll, Dismisses
<1>8. CASE HandleAction(o)
  <2>1. m.type = "ActionInvoked"
    BY <1>8 DEF HandleAction, Arrives
  <2>2. CASE m.action = "Dismiss"
    <3>1. DismissedBy(m) = {m.id}
      BY <2>1, <2>2 DEF DismissedBy
    <3>2. {<<o, i>> : i \in {m.id}} = {<<o, m.id>>}
      OBVIOUS
    <3> QED
      BY <1>8, <2>1, <2>2, <3>1, <3>2 DEF HandleAction, Dismisses
  <2>3. CASE m.action # "Dismiss"
    BY <1>8, <2>1, <2>3 DEF HandleAction
  <2> QED
    BY <2>2, <2>3
<1> QED
  BY <1>4, <1>5, <1>6, <1>7, <1>8 DEF Handle

\* The Post that is handled, and its entry.
EntryOf(m) == [id |-> m.id, content |-> m.content, state |-> "Active"]

\* What a Post that is let through does.
LEMMA PostEffect ==
    ASSUME MirrorType, NEW o \in Origins, HandlePost(o)
    PROVE  LET m == Head(link[o]) IN
           /\ m \in Message /\ m.type = "Post" /\ m.id \in Ids /\ m.content \in Contents
           /\ <<o, m.id>> \in Keys /\ EntryOf(m) \in Entry
           /\ ~ is_dismissed(<<o, m.id>>) /\ record_posted(<<o, m.id>>, m.content)
           /\ posted' = posted \cup {<<o, m.id>>}
           /\ active' = [active EXCEPT ![o] = Stored(@, EntryOf(m))]
           /\ link[o] # <<>> /\ link' = [link EXCEPT ![o] = Tail(@)]
           /\ UNCHANGED <<shown, local_sequence, retired>>
<1> DEFINE m == Head(link[o])
<1>1. link[o] # <<>> /\ link[o] \in Seq(Message) /\ m.type = "Post"
  BY DEF MirrorType, TypeOK, HandlePost, Arrives
<1>2. m \in Message
  BY <1>1, ElementsTail
<1>3. m.id \in Ids /\ m.content \in Contents
  BY <1>1, <1>2, MessageKinds
<1>4. EntryOf(m) \in Entry
  BY <1>3, SMT DEF EntryOf, Entry
<1>5. <<o, m.id>> \in Keys
  BY <1>3 DEF Keys
<1>6. /\ ~ is_dismissed(<<o, m.id>>) /\ record_posted(<<o, m.id>>, m.content)
      /\ posted' = posted \cup {<<o, m.id>>}
      /\ active' = [active EXCEPT ![o] = Stored(@, EntryOf(m))]
      /\ link[o] # <<>> /\ link' = [link EXCEPT ![o] = Tail(@)]
      /\ UNCHANGED <<shown, local_sequence, retired>>
  BY DEF HandlePost, Arrives, EntryOf
<1> QED
  BY <1>1, <1>2, <1>3, <1>4, <1>5, <1>6

\* record_posted sets its key, and leaves another one alone or forgets it.
LEMMA RecordPostedEffect ==
    ASSUME NEW k \in Keys, NEW c, record_posted(k, c)
    PROVE  /\ states'[k] = "Active" /\ seen_hashes'[k] = compute_hash(c)
           /\ \A x \in Keys \ {k} : \/ states'[x] = "Absent"
                                    \/ states'[x] = states[x] /\ seen_hashes'[x] = seen_hashes[x]
<1> DEFINE out == IF seen_hashes[k] = Absent THEN Evicted ELSE {}
<1>1. /\ seen_hashes' = [x \in Keys |-> IF x = k THEN compute_hash(c)
                                        ELSE IF x \in out THEN Absent ELSE seen_hashes[x]]
      /\ states' = [x \in Keys |-> IF x = k THEN "Active"
                                   ELSE IF x \in out THEN "Absent" ELSE states[x]]
  BY DEF record_posted
<1> HIDE DEF out
<1> QED
  BY <1>1

-----------------------------------------------------------------------------
(* Types. *)

\* What an origin's queue and screen are after it has built a message.
LEMMA BuildTypes ==
    ASSUME MirrorType, NEW o \in Origins, Build(o)
    PROVE  MirrorType' /\ UNCHANGED <<guardVars, active, posted>>
<1> USE DEF MirrorType, TypeOK
<1>1. ASSUME next_sequence(o) PROVE local_sequence' \in [Origins -> Nat]
  <2>1. local_sequence[o] + 1 \in Nat
    BY SMT
  <2> QED
    BY <1>1, <2>1 DEF next_sequence
<1>2. ASSUME NEW m \in Message, Send(o, m)
      PROVE  link' \in [Origins -> Seq(Message)] /\ UNCHANGED <<guardVars, active, posted>>
  <2>1. Append(link[o], m) \in Seq(Message)
    BY SMT
  <2> QED
    BY <1>2, <2>1 DEF Send
<1>3. ASSUME NEW i \in Ids, NEW c \in Contents \cup {Absent}, shown' = [shown EXCEPT ![o][i] = c]
      PROVE  shown' \in [Origins -> [Ids -> Contents \cup {Absent}]]
  BY <1>3, SMT
<1>4. ASSUME NEW i \in Ids, NEW c \in Contents, build_post(o, i, c)
      PROVE  MirrorType' /\ UNCHANGED <<guardVars, active, posted>>
  <2>1. [type |-> "Post", id |-> i, content |-> c] \in Message
    BY SMT DEF Message
  <2>2. link' \in [Origins -> Seq(Message)] /\ UNCHANGED <<guardVars, active, posted>>
    <3>1. CASE c \in OutBlocked
      BY <1>4, <3>1 DEF build_post
    <3>2. CASE c \notin OutBlocked
      BY <1>2, <1>4, <2>1, <3>2 DEF build_post
    <3> QED
      BY <3>1, <3>2
  <2> QED
    BY <1>1, <1>3, <1>4, <2>2 DEF build_post, guardVars
<1>5. ASSUME NEW i \in Ids, build_dismiss(o, i)
      PROVE  MirrorType' /\ UNCHANGED <<guardVars, active, posted>>
  <2>1. [type |-> "Dismiss", id |-> i] \in Message
    BY SMT DEF Message
  <2>2. retired' \subseteq Keys
    BY <1>5 DEF build_dismiss, Keys
  <2> QED
    BY ZenonT(60), <1>1, <1>2, <1>3, <1>5, <2>1, <2>2 DEF build_dismiss, guardVars
<1>6. ASSUME build_clear_all(o)
      PROVE  MirrorType' /\ UNCHANGED <<guardVars, active, posted>>
  <2>1. [type |-> "ClearAll"] \in Message
    BY SMT DEF Message
  <2>2. retired' \subseteq Keys
    BY ZenonT(60), <1>6 DEF build_clear_all, Keys
  <2>3. shown' \in [Origins -> [Ids -> Contents \cup {Absent}]]
    BY <1>6, SMT DEF build_clear_all
  <2> QED
    BY <1>1, <1>2, <1>6, <2>1, <2>2, <2>3 DEF build_clear_all, guardVars
<1>7. ASSUME NEW i \in Ids, NEW action \in {"Dismiss", "Open"}, build_action(o, i, action)
      PROVE  MirrorType' /\ UNCHANGED <<guardVars, active, posted>>
  <2>1. [type |-> "ActionInvoked", id |-> i, action |-> action] \in Message
    BY SMT DEF Message
  <2>2. retired' \subseteq Keys
    BY <1>7 DEF build_action, Keys
  <2> QED
    BY <1>1, <1>2, <1>7, <2>1, <2>2 DEF build_action, guardVars
<1> QED
  BY <1>4, <1>5, <1>6, <1>7 DEF Build

\* The bucket and the guard after a dismissal have their types.
LEMMA DismissesTypes ==
    ASSUME MirrorType, GuardInv, NEW o \in Origins, NEW ids, Dismisses(o, ids)
    PROVE  /\ active' \in [Origins -> Seq(Entry)]
           /\ \A p \in Origins : Len(active'[p]) <= MaxBucket
           /\ seen_hashes' \in [Keys -> Hashes \cup {Absent}]
           /\ states' \in [Keys -> {"Active", "Dismissed", "Absent"}]
           /\ eviction_ring' \in Seq(Keys)
<1>1. active[o] \in Seq(Entry)
  BY DEF MirrorType
<1>2. Dismissed(active[o], ids) \in Seq(Entry) /\ Len(Dismissed(active[o], ids)) = Len(active[o])
  BY <1>1, DismissedFacts
<1>3. active' \in [Origins -> Seq(Entry)] /\ \A p \in Origins : Len(active'[p]) <= MaxBucket
  BY <1>2 DEF MirrorType, TypeOK, Dismisses
<1> QED
  BY <1>3, RecordDismissedConsistent DEF GuardInv, Dismisses

\* A handled message keeps the types.
LEMMA HandleTypes ==
    ASSUME MirrorType, GuardInv, NEW o \in Origins, Handle(o)
    PROVE  MirrorType'
<1> DEFINE m == Head(link[o])
<1>1. /\ link[o] \in Seq(Message) /\ link[o] # <<>> /\ link' = [link EXCEPT ![o] = Tail(@)]
      /\ UNCHANGED <<shown, local_sequence, retired>>
  BY HandleKinds
<1>2. link' \in [Origins -> Seq(Message)]
  BY <1>1, ElementsTail DEF MirrorType, TypeOK
<1>3. CASE HandlePost(o)
  <2>1. /\ m.content \in Contents /\ <<o, m.id>> \in Keys /\ EntryOf(m) \in Entry
        /\ ~ is_dismissed(<<o, m.id>>) /\ record_posted(<<o, m.id>>, m.content)
        /\ posted' = posted \cup {<<o, m.id>>}
        /\ active' = [active EXCEPT ![o] = Stored(@, EntryOf(m))]
    BY <1>3, PostEffect
  <2>2. active[o] \in Seq(Entry) /\ Len(active[o]) <= MaxBucket
    BY DEF MirrorType, TypeOK
  <2>3. Stored(active[o], EntryOf(m)) \in Seq(Entry) /\ Len(Stored(active[o], EntryOf(m))) <= MaxBucket
    BY <2>1, <2>2, StoredFacts
  <2>4. active' \in [Origins -> Seq(Entry)] /\ \A p \in Origins : Len(active'[p]) <= MaxBucket
    BY <2>1, <2>3 DEF MirrorType, TypeOK
  <2>5. /\ seen_hashes' \in [Keys -> Hashes \cup {Absent}]
        /\ states' \in [Keys -> {"Active", "Dismissed", "Absent"}]
        /\ eviction_ring' \in Seq(Keys)
    BY <2>1, RecordPostedConsistent DEF GuardInv
  <2> QED
    BY <1>1, <1>2, <2>1, <2>4, <2>5 DEF MirrorType, TypeOK
<1>4. CASE Dismisses(o, DismissedBy(m)) /\ posted' = posted
  BY <1>1, <1>2, <1>4, DismissesTypes DEF MirrorType, TypeOK
<1>5. CASE UNCHANGED <<guardVars, active, posted>>
  BY <1>1, <1>2, <1>5 DEF MirrorType, TypeOK, guardVars
<1> QED
  BY <1>3, <1>4, <1>5, HandleKinds DEF SuppressPost

-----------------------------------------------------------------------------
(* Guard and mirror agree. *)

Agrees(o, e) ==
    states[<<o, e.id>>] # "Absent" =>
        states[<<o, e.id>>] = e.state /\ (e.state = "Active" => seen_hashes[<<o, e.id>>] = compute_hash(e.content))

\* MirrorMatchesGuard is about the elements of the buckets.
LEMMA MatchElements ==
    MirrorMatchesGuard <=> \A o \in Origins : \A e \in Elements(active[o]) : Agrees(o, e)
BY ZenonT(60) DEF MirrorMatchesGuard, Agrees, Elements

\* The same after a step.
LEMMA MatchElementsNext ==
    MirrorMatchesGuard' <=> \A o \in Origins : \A e \in Elements(active'[o]) : Agrees(o, e)'
BY ZenonT(60) DEF MirrorMatchesGuard, Agrees, Elements

\* An entry has the id and the content of one that was there, and its state unless its id
\* was dismissed.
LEMMA DismissedElements ==
    ASSUME NEW b \in Seq(Entry), NEW ids, NEW e \in Elements(Dismissed(b, ids))
    PROVE  \/ e.id \in ids /\ e.state = "Dismissed"
           \/ e.id \notin ids /\ e \in Elements(b)
<1>1. PICK n \in 1..Len(Dismissed(b, ids)) : e = Dismissed(b, ids)[n]
  BY DEF Elements
<1>2. n \in 1..Len(b)
  BY <1>1, DismissedFacts
<1>3. CASE b[n].id \in ids
  <2>1. e.id = b[n].id /\ e.state = "Dismissed"
    BY <1>1, <1>2, <1>3, DismissedFacts
  <2> QED
    BY <1>3, <2>1
<1>4. CASE b[n].id \notin ids
  <2>1. \A k \in 1..Len(b) : b[k].id \notin ids => Dismissed(b, ids)[k] = b[k]
    BY DismissedFacts, SMT
  <2> QED
    BY ZenonT(60), <1>1, <1>2, <1>4, <2>1 DEF Elements
<1> QED
  BY <1>3, <1>4

\* A handled message keeps guard and buckets in agreement: eviction forgets the key, an
\* update replaces entry and hash, and a dismissal marks both.
LEMMA HandleMatches ==
    ASSUME MirrorType, MirrorMatchesGuard, NEW o \in Origins, Handle(o)
    PROVE  MirrorMatchesGuard'
<1> DEFINE m == Head(link[o])
<1> SUFFICES ASSUME NEW p \in Origins, NEW e \in Elements(active'[p])
             PROVE  Agrees(p, e)'
  BY MatchElementsNext
<1>1. \A q \in Origins : \A x \in Elements(active[q]) : Agrees(q, x)
  BY MatchElements
<1>2. \A q \in Origins : \A x \in Elements(active[q]) : x \in Entry /\ x.id \in Ids /\ <<q, x.id>> \in Keys
  <2>1. \A q \in Origins : active[q] \in Seq(Entry)
    BY DEF MirrorType
  <2>2. \A q \in Origins : \A n \in 1..Len(active[q]) : active[q][n] \in Entry
    BY <2>1, SMT
  <2>3. \A x \in Entry : x.id \in Ids
    BY SMT DEF Entry
  <2> QED
    BY <2>2, <2>3 DEF Elements, Keys
<1>3. CASE HandlePost(o)
  <2>1. /\ <<o, m.id>> \in Keys /\ EntryOf(m) \in Entry
        /\ record_posted(<<o, m.id>>, m.content)
        /\ active' = [active EXCEPT ![o] = Stored(@, EntryOf(m))]
    BY <1>3, PostEffect
  <2>2. /\ states'[<<o, m.id>>] = "Active" /\ seen_hashes'[<<o, m.id>>] = compute_hash(m.content)
        /\ \A x \in Keys \ {<<o, m.id>>} :
             \/ states'[x] = "Absent"
             \/ states'[x] = states[x] /\ seen_hashes'[x] = seen_hashes[x]
    BY <2>1, RecordPostedEffect
  <2>3. ASSUME e \in Elements(active[p]), <<p, e.id>> # <<o, m.id>>
        PROVE  Agrees(p, e)'
    <3>1. Agrees(p, e) /\ <<p, e.id>> \in Keys
      BY <1>1, <1>2, <2>3
    <3> QED
      BY <2>2, <2>3, <3>1 DEF Agrees
  <2>4. CASE p # o
    <3>1. active'[p] = active[p]
      BY <2>1, <2>4 DEF MirrorType
    <3> QED
      BY <2>3, <2>4, <3>1
  <2>5. CASE p = o
    <3>1. active[o] \in Seq(Entry) /\ Len(active[o]) <= MaxBucket
      BY DEF MirrorType, TypeOK
    <3>2. active'[o] = Stored(active[o], EntryOf(m))
      BY <2>1 DEF MirrorType
    <3>3. e = EntryOf(m) \/ (e \in Elements(active[o]) /\ e.id # EntryOf(m).id)
      BY <2>1, <2>5, <3>1, <3>2, StoredFacts
    <3>4. EntryOf(m).id = m.id /\ EntryOf(m).content = m.content /\ EntryOf(m).state = "Active"
      BY DEF EntryOf
    <3>5. CASE e = EntryOf(m)
      BY <2>2, <2>5, <3>4, <3>5 DEF Agrees
    <3>6. CASE e \in Elements(active[o]) /\ e.id # EntryOf(m).id
      <4>1. <<p, e.id>> # <<o, m.id>>
        BY <3>4, <3>6
      <4> QED
        BY <2>3, <2>5, <3>6, <4>1
    <3> QED
      BY <3>3, <3>5, <3>6
  <2> QED
    BY <2>4, <2>5
<1>4. CASE Dismisses(o, DismissedBy(m))
  <2> DEFINE ids == DismissedBy(m)
             ks == {<<o, i>> : i \in ids}
  <2>1. /\ \A k \in Keys : states'[k] = IF k \in ks /\ states[k] # "Absent" THEN "Dismissed" ELSE states[k]
        /\ \A k \in Keys : seen_hashes'[k] = IF k \in ks THEN Absent ELSE seen_hashes[k]
    BY <1>4 DEF Dismisses, record_dismissed
  <2>2. active' = [active EXCEPT ![o] = Dismissed(@, ids)]
    BY <1>4 DEF Dismisses
  <2> HIDE DEF ids
  <2>3. ASSUME e \in Elements(active[p]), <<p, e.id>> \notin ks
        PROVE  Agrees(p, e)'
    <3>1. Agrees(p, e) /\ <<p, e.id>> \in Keys
      BY <1>1, <1>2, <2>3
    <3> HIDE DEF ks
    <3> QED
      BY <2>1, <2>3, <3>1 DEF Agrees
  <2>4. CASE p # o
    <3>1. active'[p] = active[p]
      BY <2>2, <2>4 DEF MirrorType
    <3>2. <<p, e.id>> \notin ks
      BY <2>4
    <3> QED
      BY <2>3, <3>1, <3>2
  <2>5. CASE p = o
    <3>1. active[o] \in Seq(Entry) /\ active'[o] = Dismissed(active[o], ids)
      BY <2>2 DEF MirrorType
    <3>2. \/ e.id \in ids /\ e.state = "Dismissed"
          \/ e.id \notin ids /\ e \in Elements(active[o])
      BY <2>5, <3>1, DismissedElements
    <3>3. CASE e.id \in ids /\ e.state = "Dismissed"
      <4>1. e \in Entry
        <5>1. Dismissed(active[o], ids) \in Seq(Entry)
          BY <3>1, DismissedFacts
        <5> QED
          BY <2>5, <3>1, <5>1, SMTT(60) DEF Elements
      <4>2. <<p, e.id>> \in Keys
        <5>1. e.id \in Ids
          BY <4>1, SMT DEF Entry
        <5> QED
          BY <5>1 DEF Keys
      <4>3. <<p, e.id>> \in ks
        BY <2>5, <3>3
      <4>4. states'[<<p, e.id>>] # "Absent" => states'[<<p, e.id>>] = "Dismissed"
        BY <2>1, <4>2, <4>3
      <4> QED
        BY <3>3, <4>4 DEF Agrees
    <3>4. CASE e.id \notin ids /\ e \in Elements(active[o])
      <4>1. <<p, e.id>> \notin ks
        BY <2>5, <3>4
      <4> QED
        BY <2>3, <2>5, <3>4, <4>1
    <3> QED
      BY <3>2, <3>3, <3>4
  <2> QED
    BY <2>4, <2>5
<1>5. CASE UNCHANGED <<guardVars, active, posted>>
  BY <1>1, <1>5 DEF guardVars, Agrees
<1> QED
  BY <1>3, <1>4, <1>5, HandleKinds DEF SuppressPost

(* Nothing lingers. *)

\* m takes the notification i off the mirror.
TakesAway(m, i) == m.type = "ClearAll" \/ (m.type = "Dismiss" /\ m.id = i)

\* What an origin whose screen is s has on its way in q: a Post that is no longer on
\* screen has behind it what takes it away again.
Covered(q, s) ==
    \A n \in 1..Len(q) : q[n].type = "Post" =>
        \/ s[q[n].id] # Absent
        \/ \E m \in n + 1 .. Len(q) : TakesAway(q[m], q[n].id)

PostsCovered == \A o \in Origins : Covered(link[o], shown[o])

\* A message that takes away what it removes from the screen keeps the queue covered.
LEMMA CoveredAppend ==
    ASSUME NEW q \in Seq(Message), NEW x \in Message, NEW s, NEW t, Covered(q, s),
           \A i \in Ids : s[i] # Absent => t[i] # Absent \/ TakesAway(x, i),
           x.type = "Post" => t[x.id] # Absent
    PROVE  Covered(Append(q, x), t)
<1> DEFINE a == Append(q, x)
<1>1. /\ Len(q) \in Nat /\ Len(a) = Len(q) + 1 /\ a[Len(a)] = x
      /\ \A n \in 1..Len(q) : a[n] = q[n] /\ q[n] \in Message /\ Len(a) \in n + 1 .. Len(a)
      /\ \A n \in 1..Len(a) : n \in 1..Len(q) \/ n = Len(a)
      /\ \A n \in 1..Len(q) : \A m \in n + 1 .. Len(q) : m \in n + 1 .. Len(a) /\ a[m] = q[m]
  BY SMT
<1> HIDE DEF a
<1> SUFFICES ASSUME NEW n \in 1..Len(a), a[n].type = "Post"
             PROVE  t[a[n].id] # Absent \/ \E m \in n + 1 .. Len(a) : TakesAway(a[m], a[n].id)
  BY DEF Covered, a
<1>2. CASE n = Len(a)
  BY <1>1, <1>2
<1>3. CASE n \in 1..Len(q)
  <2>1. a[n] = q[n] /\ q[n].id \in Ids
    BY <1>1, <1>3, MessageKinds
  <2>2. CASE s[q[n].id] # Absent
    BY <1>1, <1>3, <2>1, <2>2
  <2>3. CASE \E m \in n + 1 .. Len(q) : TakesAway(q[m], q[n].id)
    BY <1>1, <1>3, <2>1, <2>3
  <2> QED
    BY <1>3, <2>1, <2>2, <2>3 DEF Covered
<1> QED
  BY ZenonT(60), <1>1, <1>2, <1>3

\* The rest of a covered queue is covered, and the Post at its head is on screen or has
\* behind it what takes it away.
LEMMA CoveredTail ==
    ASSUME NEW q \in Seq(Message), q # <<>>, NEW s, Covered(q, s)
    PROVE  /\ Covered(Tail(q), s)
           /\ Head(q).type = "Post" =>
                s[Head(q).id] # Absent \/ \E m \in Elements(Tail(q)) : TakesAway(m, Head(q).id)
<1> DEFINE a == Tail(q)
<1>1. /\ 1 \in 1..Len(q) /\ q[1] = Head(q)
      /\ \A n \in 1..Len(a) : a[n] = q[n + 1] /\ n + 1 \in 1..Len(q)
      /\ \A n \in 1..Len(a) : \A m \in (n + 1) + 1 .. Len(q) : m - 1 \in n + 1 .. Len(a) /\ a[m - 1] = q[m]
      /\ \A m \in 1 + 1 .. Len(q) : m - 1 \in 1 .. Len(a) /\ a[m - 1] = q[m]
  BY SMT
<1> HIDE DEF a
<1>2. ASSUME NEW n \in 1..Len(a), a[n].type = "Post"
      PROVE  s[a[n].id] # Absent \/ \E m \in n + 1 .. Len(a) : TakesAway(a[m], a[n].id)
  <2>1. a[n] = q[n + 1] /\ n + 1 \in 1..Len(q)
    BY <1>1
  <2>2. s[a[n].id] # Absent \/ \E m \in (n + 1) + 1 .. Len(q) : TakesAway(q[m], a[n].id)
    BY <1>2, <2>1 DEF Covered
  <2>3. ASSUME NEW m \in (n + 1) + 1 .. Len(q), TakesAway(q[m], a[n].id)
        PROVE  \E j \in n + 1 .. Len(a) : TakesAway(a[j], a[n].id)
    <3>1. m - 1 \in n + 1 .. Len(a) /\ a[m - 1] = q[m]
      BY <1>1
    <3> QED
      BY <2>3, <3>1
  <2> QED
    BY <2>2, <2>3
<1>3. ASSUME Head(q).type = "Post"
      PROVE  s[Head(q).id] # Absent \/ \E m \in Elements(a) : TakesAway(m, Head(q).id)
  <2>1. s[Head(q).id] # Absent \/ \E m \in 1 + 1 .. Len(q) : TakesAway(q[m], Head(q).id)
    BY <1>1, <1>3 DEF Covered
  <2>2. ASSUME NEW m \in 1 + 1 .. Len(q), TakesAway(q[m], Head(q).id)
        PROVE  \E j \in Elements(a) : TakesAway(j, Head(q).id)
    <3>1. m - 1 \in 1 .. Len(a) /\ a[m - 1] = q[m]
      BY <1>1
    <3> QED
      BY <2>2, <3>1 DEF Elements
  <2> QED
    BY <2>1, <2>2
<1> QED
  BY <1>2, <1>3 DEF Covered, a

\* What an origin does leaves on screen what it does not take away.
LEMMA BuildScreen ==
    ASSUME MirrorType, NEW o \in Origins, Build(o)
    PROVE  /\ \A p \in Origins \ {o} : shown'[p] = shown[p] /\ link'[p] = link[p]
           /\ \/ /\ link' = link
                 /\ \A i \in Ids : shown[o][i] # Absent => shown'[o][i] # Absent
              \/ \E x \in Message :
                    /\ link'[o] = Append(link[o], x)
                    /\ \A i \in Ids : shown[o][i] # Absent => shown'[o][i] # Absent \/ TakesAway(x, i)
                    /\ x.type = "Post" => shown'[o][x.id] # Absent
<1>1. /\ shown \in [Origins -> [Ids -> Contents \cup {Absent}]] /\ link \in [Origins -> Seq(Message)]
      /\ Absent \notin Contents
  BY NotificationConstants DEF MirrorType, TypeOK
<1>2. ASSUME NEW i \in Ids, NEW c \in Contents, build_post(o, i, c)
      PROVE  /\ \A p \in Origins \ {o} : shown'[p] = shown[p] /\ link'[p] = link[p]
             /\ \/ /\ link' = link
                   /\ \A j \in Ids : shown[o][j] # Absent => shown'[o][j] # Absent
                \/ \E x \in Message :
                      /\ link'[o] = Append(link[o], x)
                      /\ \A j \in Ids : shown[o][j] # Absent => shown'[o][j] # Absent \/ TakesAway(x, j)
                      /\ x.type = "Post" => shown'[o][x.id] # Absent
  <2> DEFINE x == [type |-> "Post", id |-> i, content |-> c]
  <2>1. x \in Message /\ x.id = i
    BY SMT DEF Message
  <2>2. shown' = [shown EXCEPT ![o][i] = c] /\ (link' = link \/ link' = [link EXCEPT ![o] = Append(@, x)])
    BY <1>2 DEF build_post, Send
  <2> HIDE DEF x
  <2>3. /\ \A p \in Origins \ {o} : shown'[p] = shown[p] /\ link'[p] = link[p]
        /\ \A j \in Ids : shown'[o][j] = IF j = i THEN c ELSE shown[o][j]
    BY <1>1, <2>2, SMTT(60)
  <2>4. c # Absent
    BY <1>1
  <2>5. (\A j \in Ids : shown[o][j] # Absent => shown'[o][j] # Absent) /\ shown'[o][i] # Absent
    BY <2>3, <2>4
  <2>6. link' = link \/ link'[o] = Append(link[o], x)
    BY <1>1, <2>2
  <2> QED
    BY <2>1, <2>3, <2>5, <2>6
<1>3. ASSUME NEW i \in Ids, build_dismiss(o, i)
      PROVE  /\ \A p \in Origins \ {o} : shown'[p] = shown[p] /\ link'[p] = link[p]
             /\ \E x \in Message :
                  /\ link'[o] = Append(link[o], x)
                  /\ \A j \in Ids : shown[o][j] # Absent => shown'[o][j] # Absent \/ TakesAway(x, j)
                  /\ x.type = "Post" => shown'[o][x.id] # Absent
  <2> DEFINE x == [type |-> "Dismiss", id |-> i]
  <2>1. x \in Message /\ x.id = i /\ x.type = "Dismiss"
    BY SMT DEF Message
  <2>2. shown' = [shown EXCEPT ![o][i] = Absent] /\ link' = [link EXCEPT ![o] = Append(@, x)]
    BY <1>3 DEF build_dismiss, Send
  <2> HIDE DEF x
  <2>3. /\ \A p \in Origins \ {o} : shown'[p] = shown[p] /\ link'[p] = link[p]
        /\ \A j \in Ids : shown'[o][j] = IF j = i THEN Absent ELSE shown[o][j]
        /\ link'[o] = Append(link[o], x)
    BY <1>1, <2>2, SMTT(60)
  <2>4. \A j \in Ids : shown[o][j] # Absent => shown'[o][j] # Absent \/ TakesAway(x, j)
    BY <2>1, <2>3 DEF TakesAway
  <2>5. x.type # "Post"
    BY ZenonT(60), <2>1
  <2> QED
    BY ZenonT(60), <2>1, <2>3, <2>4, <2>5
<1>4. ASSUME build_clear_all(o)
      PROVE  /\ \A p \in Origins \ {o} : shown'[p] = shown[p] /\ link'[p] = link[p]
             /\ \E x \in Message :
                  /\ link'[o] = Append(link[o], x)
                  /\ \A j \in Ids : shown[o][j] # Absent => shown'[o][j] # Absent \/ TakesAway(x, j)
                  /\ x.type = "Post" => shown'[o][x.id] # Absent
  <2> DEFINE x == [type |-> "ClearAll"]
  <2>1. x \in Message /\ x.type = "ClearAll"
    BY SMT DEF Message
  <2>2. shown' = [shown EXCEPT ![o] = [i \in Ids |-> Absent]] /\ link' = [link EXCEPT ![o] = Append(@, x)]
    BY <1>4 DEF build_clear_all, Send
  <2> HIDE DEF x
  <2>3. /\ \A p \in Origins \ {o} : shown'[p] = shown[p] /\ link'[p] = link[p]
        /\ link'[o] = Append(link[o], x)
    BY <1>1, <2>2, SMT
  <2>4. \A j \in Ids : TakesAway(x, j)
    BY <2>1 DEF TakesAway
  <2>5. x.type # "Post"
    BY <2>1
  <2> QED
    BY <2>1, <2>3, <2>4, <2>5
<1>5. ASSUME NEW i \in Ids, NEW a \in {"Dismiss", "Open"}, build_action(o, i, a)
      PROVE  /\ \A p \in Origins \ {o} : shown'[p] = shown[p] /\ link'[p] = link[p]
             /\ \E x \in Message :
                  /\ link'[o] = Append(link[o], x)
                  /\ \A j \in Ids : shown[o][j] # Absent => shown'[o][j] # Absent \/ TakesAway(x, j)
                  /\ x.type = "Post" => shown'[o][x.id] # Absent
  <2> DEFINE x == [type |-> "ActionInvoked", id |-> i, action |-> a]
  <2>1. x \in Message /\ x.type = "ActionInvoked"
    BY SMT DEF Message
  <2>2. shown' = shown /\ link' = [link EXCEPT ![o] = Append(@, x)]
    BY <1>5 DEF build_action, Send
  <2> HIDE DEF x
  <2>3. /\ \A p \in Origins \ {o} : shown'[p] = shown[p] /\ link'[p] = link[p]
        /\ link'[o] = Append(link[o], x)
    BY <1>1, <2>2, SMT
  <2>5. x.type # "Post"
    BY <2>1
  <2> QED
    BY <2>1, <2>2, <2>3, <2>5
<1> QED
  <2>1. CASE \E i \in Ids, c \in Contents : build_post(o, i, c)
    BY <1>2, <2>1
  <2>2. CASE \E i \in Ids : build_dismiss(o, i)
    <3>1. PICK i \in Ids : build_dismiss(o, i)
      BY <2>2
    <3> QED
      BY <1>3, <3>1
  <2>3. CASE build_clear_all(o)
    BY <1>4, <2>3
  <2>4. CASE \E i \in Ids, a \in {"Dismiss", "Open"} : build_action(o, i, a)
    <3>1. PICK i \in Ids, a \in {"Dismiss", "Open"} : build_action(o, i, a)
      BY <2>4
    <3> QED
      BY <1>5, <3>1
  <2> QED
    BY <2>1, <2>2, <2>3, <2>4 DEF Build

\* What is mirrored of o is on its screen, or what takes it away is on its way.
Leaving(o, e) == shown[o][e.id] # Absent \/ \E m \in Elements(link[o]) : TakesAway(m, e.id)

\* NothingLingers is about the elements of the buckets.
LEMMA LingersElements ==
    NothingLingers <=>
        \A o \in Origins : \A e \in Elements(active[o]) : e.state = "Active" => Leaving(o, e)
<1>1. \A o \in Origins : Mirrored(o) = {e \in Elements(active[o]) : e.state = "Active"}
  BY DEF Mirrored, Elements
<1>2. \A o \in Origins : \A e : Leaving(o, e) <=>
        \/ shown[o][e.id] # Absent
        \/ \E n \in 1..Len(link[o]) :
             \/ link[o][n].type = "ClearAll"
             \/ link[o][n].type = "Dismiss" /\ link[o][n].id = e.id
  BY DEF Leaving, TakesAway, Elements
<1> QED
  BY <1>1, <1>2 DEF NothingLingers

\* The same after a step.
LEMMA LingersElementsNext ==
    NothingLingers' <=>
        \A o \in Origins : \A e \in Elements(active'[o]) : e.state = "Active" => Leaving(o, e)'
<1>1. \A o \in Origins : Mirrored(o)' = {e \in Elements(active'[o]) : e.state = "Active"}
  BY DEF Mirrored, Elements
<1>2. \A o \in Origins : \A e : Leaving(o, e)' <=>
        \/ shown'[o][e.id] # Absent
        \/ \E n \in 1..Len(link'[o]) :
             \/ link'[o][n].type = "ClearAll"
             \/ link'[o][n].type = "Dismiss" /\ link'[o][n].id = e.id
  BY DEF Leaving, TakesAway, Elements
<1> QED
  BY <1>1, <1>2 DEF NothingLingers

\* The entries of the buckets name ids.
LEMMA EntryIds ==
    ASSUME MirrorType, NEW o \in Origins, NEW e \in Elements(active[o])
    PROVE  e \in Entry /\ e.id \in Ids /\ <<o, e.id>> \in Keys
<1>1. active[o] \in Seq(Entry)
  BY DEF MirrorType
<1>2. e \in Entry
  BY <1>1, SMTT(60) DEF Elements
<1>3. e.id \in Ids
  BY <1>2, SMT DEF Entry
<1> QED
  BY <1>2, <1>3 DEF Keys

\* What an origin sends covers what it takes off its screen.
LEMMA BuildLeaves ==
    ASSUME MirrorType, PostsCovered, NothingLingers, NEW o \in Origins, Build(o)
    PROVE  PostsCovered' /\ NothingLingers'
<1>1. active' = active
  BY BuildTypes
<1>2. /\ \A p \in Origins \ {o} : shown'[p] = shown[p] /\ link'[p] = link[p]
      /\ \/ /\ link' = link
            /\ \A i \in Ids : shown[o][i] # Absent => shown'[o][i] # Absent
         \/ \E x \in Message :
               /\ link'[o] = Append(link[o], x)
               /\ \A i \in Ids : shown[o][i] # Absent => shown'[o][i] # Absent \/ TakesAway(x, i)
               /\ x.type = "Post" => shown'[o][x.id] # Absent
  BY BuildScreen
<1>3. link[o] \in Seq(Message) /\ Covered(link[o], shown[o])
  BY DEF MirrorType, TypeOK, PostsCovered
<1>4. \A i \in Ids : (shown[o][i] # Absent \/ \E m \in Elements(link[o]) : TakesAway(m, i))
        => (shown'[o][i] # Absent \/ \E m \in Elements(link'[o]) : TakesAway(m, i))
  <2>1. CASE link' = link /\ \A i \in Ids : shown[o][i] # Absent => shown'[o][i] # Absent
    BY <2>1
  <2>2. ASSUME NEW x \in Message, link'[o] = Append(link[o], x),
               \A i \in Ids : shown[o][i] # Absent => shown'[o][i] # Absent \/ TakesAway(x, i)
        PROVE  \A i \in Ids : (shown[o][i] # Absent \/ \E m \in Elements(link[o]) : TakesAway(m, i))
                 => (shown'[o][i] # Absent \/ \E m \in Elements(link'[o]) : TakesAway(m, i))
    <3>1. Elements(Append(link[o], x)) = Elements(link[o]) \cup {x}
      BY <1>3, ElementsAppend, SMT
    <3> QED
      BY <2>2, <3>1
  <2> QED
    BY <1>2, <2>1, <2>2
<1>5. Covered(link'[o], shown'[o])
  <2>1. CASE link' = link /\ \A i \in Ids : shown[o][i] # Absent => shown'[o][i] # Absent
    <3>1. \A n \in 1..Len(link[o]) : link[o][n] \in Message
      BY <1>3, SMT
    <3>2. \A n \in 1..Len(link[o]) : link[o][n].type = "Post" => link[o][n].id \in Ids
      BY <3>1, MessageKinds
    <3> QED
      BY <1>3, <2>1, <3>2 DEF Covered
  <2>2. ASSUME NEW x \in Message, link'[o] = Append(link[o], x),
               \A i \in Ids : shown[o][i] # Absent => shown'[o][i] # Absent \/ TakesAway(x, i),
               x.type = "Post" => shown'[o][x.id] # Absent
        PROVE  Covered(link'[o], shown'[o])
    <3>1. Covered(Append(link[o], x), shown'[o])
      BY <1>3, <2>2, CoveredAppend, SMTT(60)
    <3> QED
      BY ZenonT(60), <2>2, <3>1
  <2> QED
    BY <1>2, <2>1, <2>2
<1>6. PostsCovered'
  BY <1>2, <1>5 DEF PostsCovered
<1>7. NothingLingers'
  <2> SUFFICES ASSUME NEW p \in Origins, NEW e \in Elements(active'[p]), e.state = "Active"
               PROVE  Leaving(p, e)'
    BY LingersElementsNext
  <2>1. Leaving(p, e) /\ e.id \in Ids
    BY <1>1, LingersElements, EntryIds
  <2>2. CASE p = o
    BY <1>4, <2>1, <2>2 DEF Leaving
  <2>3. CASE p # o
    BY <1>2, <2>1, <2>3 DEF Leaving
  <2> QED
    BY <2>2, <2>3
<1> QED
  BY <1>6, <1>7

\* A handled message leaves nothing behind that no message on its way takes away.
LEMMA HandleLeaves ==
    ASSUME MirrorType, PostsCovered, NothingLingers, NEW o \in Origins, Handle(o)
    PROVE  PostsCovered' /\ NothingLingers'
<1> DEFINE m == Head(link[o])
<1>1. /\ link[o] \in Seq(Message) /\ link[o] # <<>> /\ m \in Message
      /\ link' = [link EXCEPT ![o] = Tail(@)] /\ shown' = shown
  BY HandleKinds
<1>2. /\ link'[o] = Tail(link[o])
      /\ \A p \in Origins \ {o} : link'[p] = link[p]
  BY <1>1 DEF MirrorType, TypeOK
<1>3. /\ Covered(Tail(link[o]), shown[o])
      /\ m.type = "Post" =>
           shown[o][m.id] # Absent \/ \E x \in Elements(Tail(link[o])) : TakesAway(x, m.id)
  BY <1>1, CoveredTail DEF PostsCovered
<1>4. PostsCovered'
  BY <1>1, <1>2, <1>3 DEF PostsCovered
<1>5. Elements(link[o]) = Elements(link'[o]) \cup {m}
  BY <1>1, <1>2, ElementsTail
<1>6. \A p \in Origins : \A e \in Elements(active[p]) : e.state = "Active" => Leaving(p, e)
  BY LingersElements
<1>7. ASSUME NEW p \in Origins, NEW e \in Elements(active[p]), e.state = "Active",
             p = o => ~ TakesAway(m, e.id)
      PROVE  Leaving(p, e)'
  <2>1. Leaving(p, e)
    BY <1>6, <1>7
  <2>2. CASE p = o
    BY <1>1, <1>5, <1>7, <2>1, <2>2 DEF Leaving
  <2>3. CASE p # o
    BY <1>1, <1>2, <2>1, <2>3 DEF Leaving
  <2> QED
    BY <2>2, <2>3
<1>8. NothingLingers'
  <2> SUFFICES ASSUME NEW p \in Origins, NEW e \in Elements(active'[p]), e.state = "Active"
               PROVE  Leaving(p, e)'
    BY LingersElementsNext
  <2>1. CASE m.type = "Post" /\ HandlePost(o)
    <3>1. EntryOf(m) \in Entry /\ active' = [active EXCEPT ![o] = Stored(@, EntryOf(m))]
      BY <2>1, PostEffect
    <3>2. \A i : ~ TakesAway(m, i)
      BY <2>1 DEF TakesAway
    <3>3. CASE p # o
      <4>1. active'[p] = active[p]
        BY <3>1, <3>3 DEF MirrorType
      <4> QED
        BY <1>7, <3>2, <4>1
    <3>4. CASE p = o
      <4>1. active[o] \in Seq(Entry) /\ Len(active[o]) <= MaxBucket
        BY DEF MirrorType, TypeOK
      <4>2. active'[o] = Stored(active[o], EntryOf(m))
        BY <3>1 DEF MirrorType
      <4>3. e = EntryOf(m) \/ e \in Elements(active[o])
        BY <3>1, <3>4, <4>1, <4>2, StoredFacts
      <4>4. CASE e = EntryOf(m)
        <5>1. e.id = m.id
          BY <4>4 DEF EntryOf
        <5> QED
          BY <1>1, <1>2, <1>3, <2>1, <3>4, <5>1 DEF Leaving
      <4> QED
        BY <1>7, <3>2, <3>4, <4>3, <4>4
    <3> QED
      BY <3>3, <3>4
  <2>2. CASE UNCHANGED <<guardVars, active, posted>> /\ m.type \in {"Post", "ActionInvoked"}
    <3>1. \A i : ~ TakesAway(m, i)
      BY <2>2 DEF TakesAway
    <3> QED
      BY <1>7, <2>2, <3>1
  <2>3. CASE m.type # "Post" /\ Dismisses(o, DismissedBy(m))
    <3>1. active' = [active EXCEPT ![o] = Dismissed(@, DismissedBy(m))]
      BY <2>3 DEF Dismisses
    <3>2. CASE p # o
      <4>1. active'[p] = active[p]
        BY <3>1, <3>2 DEF MirrorType
      <4> QED
        BY <1>7, <3>2, <4>1
    <3>3. CASE p = o
      <4>1. active[o] \in Seq(Entry) /\ active'[o] = Dismissed(active[o], DismissedBy(m))
        BY <3>1 DEF MirrorType
      <4>2. \/ e.id \in DismissedBy(m) /\ e.state = "Dismissed"
            \/ e.id \notin DismissedBy(m) /\ e \in Elements(active[o])
        BY <3>3, <4>1, DismissedElements
      <4>3. e.id \notin DismissedBy(m) /\ e \in Elements(active[o])
        BY <4>2
      <4>4. e.id \in Ids
        BY <4>3, EntryIds
      <4>5. ~ TakesAway(m, e.id)
        BY <4>3, <4>4 DEF TakesAway, DismissedBy
      <4> QED
        BY <1>7, <3>3, <4>3, <4>5
    <3> QED
      BY <3>2, <3>3
  <2> QED
    BY <2>1, <2>2, <2>3, HandleKinds DEF SuppressPost
<1> QED
  BY <1>4, <1>8

-----------------------------------------------------------------------------

MirrorInv == GuardInv /\ MirrorType /\ MirrorMatchesGuard /\ PostsCovered /\ NothingLingers

\* The invariant holds at first.
LEMMA InitMirror == Init => MirrorInv
<1> SUFFICES ASSUME Init PROVE MirrorInv
  OBVIOUS
<1>1. GuardInv
  BY InitInv
<1>2. \A o \in Origins : active[o] = <<>> /\ link[o] = <<>>
  BY DEF Init
<1>3. <<>> \in Seq(Entry) /\ <<>> \in Seq(Message) /\ <<>> \in Seq(Keys) /\ Len(<<>>) = 0 /\ 0 \in Nat
  BY SMT
<1>4. Len(<<>>) <= MaxBucket /\ 1..Len(<<>>) = {}
  BY NotificationConstants, SMT
<1>5. MirrorType
  BY <1>2, <1>3, <1>4 DEF Init, MirrorType, TypeOK
<1>6. MirrorMatchesGuard /\ PostsCovered /\ NothingLingers
  BY <1>2, <1>4 DEF MirrorMatchesGuard, PostsCovered, Covered, NothingLingers, Mirrored
<1> QED
  BY <1>1, <1>5, <1>6 DEF MirrorInv

\* Every step keeps it.
LEMMA NextMirror == MirrorInv /\ [Next]_vars => MirrorInv'
<1> SUFFICES ASSUME MirrorInv, [Next]_vars PROVE MirrorInv'
  OBVIOUS
<1>1. GuardInv'
  BY NextInv DEF MirrorInv
<1>2. ASSUME NEW o \in Origins, Build(o)
      PROVE  MirrorType' /\ MirrorMatchesGuard' /\ PostsCovered' /\ NothingLingers'
  <2>1. MirrorType' /\ UNCHANGED <<guardVars, active, posted>>
    BY <1>2, BuildTypes DEF MirrorInv
  <2>2. MirrorMatchesGuard'
    BY <2>1 DEF MirrorInv, MirrorMatchesGuard, guardVars
  <2> QED
    BY <1>2, <2>1, <2>2, BuildLeaves DEF MirrorInv
<1>3. ASSUME NEW o \in Origins, Handle(o)
      PROVE  MirrorType' /\ MirrorMatchesGuard' /\ PostsCovered' /\ NothingLingers'
  BY <1>3, HandleTypes, HandleMatches, HandleLeaves DEF MirrorInv
<1>4. CASE UNCHANGED vars
  <2>1. /\ shown' = shown /\ local_sequence' = local_sequence /\ link' = link
        /\ seen_hashes' = seen_hashes /\ states' = states /\ eviction_ring' = eviction_ring
        /\ active' = active /\ posted' = posted /\ retired' = retired
    BY <1>4 DEF vars, guardVars
  <2>2. MirrorType'
    BY <2>1 DEF MirrorInv, MirrorType, TypeOK
  <2>3. MirrorMatchesGuard'
    BY <2>1 DEF MirrorInv, MirrorMatchesGuard
  <2>4. PostsCovered' /\ NothingLingers'
    <3>1. PostsCovered'
      BY <2>1 DEF MirrorInv, PostsCovered
    <3>2. \A o \in Origins : Mirrored(o)' = Mirrored(o)
      BY <2>1 DEF Mirrored
    <3> QED
      BY <2>1, <3>1, <3>2 DEF MirrorInv, NothingLingers
  <2> QED
    BY <1>1, <2>2, <2>3, <2>4 DEF MirrorInv
<1> QED
  BY <1>1, <1>2, <1>3, <1>4 DEF Next, MirrorInv

\* It holds throughout.
LEMMA MirrorInvariant == Spec => []MirrorInv
BY InitMirror, NextMirror, PTL DEF Spec

\* Screens, messages in flight, guard and buckets keep their types; no bucket holds more
\* than MaxBucket entries.
THEOREM NotificationsTypeCorrect == Spec => []TypeOK
<1>1. MirrorInv => TypeOK
  BY DEF MirrorInv, MirrorType
<1> QED
  BY <1>1, MirrorInvariant, PTL

\* The guard tracks a mirrored key in the state and with the hash of its entry
\* (handle_message updates both under one lock).
THEOREM GuardAndMirrorAgree == Spec => []MirrorMatchesGuard
<1>1. MirrorInv => MirrorMatchesGuard
  BY DEF MirrorInv
<1> QED
  BY <1>1, MirrorInvariant, PTL

\* What is mirrored is on its origin's screen, or what takes it away is on its way:
\* evictions, duplicates and blocked updates leave nothing behind.
THEOREM NoNotificationLingers == Spec => []NothingLingers
<1>1. MirrorInv => NothingLingers
  BY DEF MirrorInv
<1> QED
  BY <1>1, MirrorInvariant, PTL

(* Completeness. *)

\* A bucket whose ids are all among few enough keys keeps every other entry when it takes e.
LEMMA StoredKeeps ==
    ASSUME NEW b \in Seq(Entry), NEW e \in Entry, Distinct(b), NEW o, NEW P, IsFiniteSet(P),
           Cardinality(P) <= RING_CAPACITY, <<o, e.id>> \in P,
           \A x \in Elements(b) : <<o, x.id>> \in P
    PROVE  \A x \in Elements(b) : x.id # e.id => x \in Elements(Stored(b, e))
<1> DEFINE r == retain(b, e.id)
           k == Append(r, e)
           f == [n \in 1..Len(k) |-> <<o, k[n].id>>]
<1>1. Retained(r, b, e.id, Len(b))
  BY ZenonT(60), RetainFacts
<1> HIDE DEF r
<1>2. r \in Seq(Entry) /\ Len(r) \in Nat
  BY <1>1, SMTT(60) DEF Retained
<1>3. k \in Seq(Entry) /\ Elements(k) = Elements(r) \cup {e}
  BY <1>2, ElementsAppend, SMTT(60)
<1>4. /\ Len(k) \in Nat /\ Len(k) = Len(r) + 1 /\ k[Len(k)] = e
      /\ \A n \in 1..Len(k) : n \in 1..Len(r) \/ n = Len(k)
      /\ \A n \in 1..Len(r) : k[n] = r[n]
  BY <1>2, SMTT(60)
<1>5. \A n \in 1..Len(r) : r[n].id # e.id /\ r[n] \in Elements(b)
  <2>1. \A n \in 1..Len(r) : r[n].id # e.id /\ \E j \in 1..Len(b) : r[n] = b[j]
    BY <1>1 DEF Retained
  <2> QED
    BY <2>1 DEF Elements
<1>6. \A x \in Elements(b) : x.id # e.id => x \in Elements(r)
  <2>1. \A j \in 1..Len(b) : b[j].id # e.id => \E n \in 1..Len(r) : r[n] = b[j]
    BY <1>1 DEF Retained
  <2> QED
    BY <2>1 DEF Elements
<1>7. Distinct(r)
  BY <1>1 DEF Retained
<1> HIDE DEF k
<1>8. \A n \in 1..Len(k) : <<o, k[n].id>> \in P
  BY <1>4, <1>5
<1>9. ASSUME NEW m \in 1..Len(k), NEW n \in 1..Len(k), k[m].id = k[n].id
      PROVE  m = n
  <2>1. CASE m \in 1..Len(r) /\ n \in 1..Len(r)
    BY <1>4, <1>7, <1>9, <2>1 DEF Distinct
  <2>2. CASE m \in 1..Len(r) /\ n = Len(k)
    BY <1>4, <1>5, <1>9, <2>2
  <2>3. CASE m = Len(k) /\ n \in 1..Len(r)
    BY <1>4, <1>5, <1>9, <2>3
  <2> QED
    BY <1>4, <2>1, <2>2, <2>3
<1>10. f \in [1..Len(k) -> P]
  BY <1>8
<1>11. \A m, n \in 1..Len(k) : f[m] = f[n] => m = n
  <2> SUFFICES ASSUME NEW m \in 1..Len(k), NEW n \in 1..Len(k), f[m] = f[n]
               PROVE  m = n
    OBVIOUS
  <2>1. <<o, k[m].id>> = <<o, k[n].id>>
    OBVIOUS
  <2>2. k[m].id = k[n].id
    BY <2>1
  <2> QED
    BY <1>9, <2>2
<1> HIDE DEF f
<1>12. f \in Injection(1..Len(k), P)
  BY <1>10, <1>11 DEF Injection, IsInjective
<1>13. Cardinality(1..Len(k)) <= Cardinality(P)
  BY <1>12, FS_Injection DEF ExistsInjection
<1>14. Cardinality(1..Len(k)) = Len(k)
  BY <1>4, FS_Interval, SMT
<1>15. Cardinality(P) \in Nat
  BY FS_CardinalityType
<1>16. ~ (Len(k) > MaxBucket)
  BY <1>4, <1>13, <1>14, <1>15, BucketHoldsRing, NotificationConstants, SMTT(60)
<1>17. Stored(b, e) = k
  BY <1>16 DEF Stored, r, k
<1> QED
  BY <1>3, <1>6, <1>17

\* An entry that is not dismissed stays as it is.
LEMMA DismissedKeeps ==
    ASSUME NEW b \in Seq(Entry), NEW ids, NEW x \in Elements(b), x.id \notin ids
    PROVE  x \in Elements(Dismissed(b, ids))
<1>1. PICK n \in 1..Len(b) : x = b[n]
  BY DEF Elements
<1>2. \A j \in 1..Len(b) : b[j].id \notin ids => Dismissed(b, ids)[j] = b[j]
  BY DismissedFacts, SMT
<1>3. Len(Dismissed(b, ids)) = Len(b)
  BY DismissedFacts
<1> QED
  BY <1>1, <1>2, <1>3 DEF Elements

-----------------------------------------------------------------------------
(* What the completeness of the mirror rests on. *)

\* A bucket has one entry of an id, and only entries that were let through.
BucketInv ==
    \A o \in Origins : Distinct(active[o]) /\ \A e \in Elements(active[o]) : <<o, e.id>> \in posted

\* What is dismissed was taken away by its origin, and so is what a message dismisses.
RetiredInv ==
    /\ \A k \in Keys : states[k] = "Dismissed" => k \in retired
    /\ \A o \in Origins : \A m \in Elements(link[o]) : \A i \in DismissedBy(m) : <<o, i>> \in retired

ActiveEntry(i, c) == [id |-> i, content |-> c, state |-> "Active"]

\* An entry of i on the mirror of o whose content has hash h.
Holds(o, i, h) ==
    \E c \in Contents : compute_hash(c) = h /\ ActiveEntry(i, c) \in Elements(active[o])

\* The mirror has every active key, with the hash that was let through last.
StoredInv ==
    Cardinality(posted) <= RING_CAPACITY =>
        \A o \in Origins, i \in Ids :
            states[<<o, i>>] = "Active" => Holds(o, i, seen_hashes[<<o, i>>])

IsPost(m, i) == m.type = "Post" /\ m.id = i
PostOf(i, c) == [type |-> "Post", id |-> i, content |-> c]
NoPost(q, i) == \A m \in Elements(q) : ~ IsPost(m, i)
LastPost(q, i, c) ==
    \E n \in 1..Len(q) : q[n] = PostOf(i, c) /\ \A m \in n + 1 .. Len(q) : ~ IsPost(q[m], i)

\* What an origin shows is what it posted last, if that is still on its way, and has the
\* hash of what is mirrored otherwise.
Arriving(o, i) ==
    \/ <<o, i>> \in retired
    \/ shown[o][i] \in OutBlocked \cup InBlocked \cup {Absent}
    \/ LastPost(link[o], i, shown[o][i])
    \/ NoPost(link[o], i) /\ Holds(o, i, compute_hash(shown[o][i]))

LatestInv ==
    Cardinality(posted) <= RING_CAPACITY => \A o \in Origins, i \in Ids : Arriving(o, i)

\* The last Post of a queue that grows.
LEMMA LastPostAppend ==
    ASSUME NEW q \in Seq(Message), NEW x \in Message, NEW i, NEW c,
           x = PostOf(i, c) \/ (LastPost(q, i, c) /\ ~ IsPost(x, i))
    PROVE  LastPost(Append(q, x), i, c)
<1> DEFINE a == Append(q, x)
<1>1. /\ Len(a) \in 1..Len(a) /\ a[Len(a)] = x /\ Len(a) + 1 .. Len(a) = {}
      /\ \A n \in 1..Len(q) : n \in 1..Len(a) /\ a[n] = q[n]
      /\ \A n \in 1..Len(q) : \A m \in n + 1 .. Len(a) : m = Len(a) \/ (m \in n + 1 .. Len(q) /\ a[m] = q[m])
  BY SMT
<1> HIDE DEF a
<1>2. CASE x = PostOf(i, c)
  <2>1. LastPost(a, i, c)
    BY <1>1, <1>2 DEF LastPost
  <2> QED
    BY <2>1 DEF a
<1>3. CASE LastPost(q, i, c) /\ ~ IsPost(x, i)
  <2>1. PICK n \in 1..Len(q) : q[n] = PostOf(i, c) /\ \A m \in n + 1 .. Len(q) : ~ IsPost(q[m], i)
    BY <1>3 DEF LastPost
  <2>2. \A m \in n + 1 .. Len(a) : ~ IsPost(a[m], i)
    BY <1>1, <1>3, <2>1
  <2>3. LastPost(a, i, c)
    BY <1>1, <2>1, <2>2 DEF LastPost
  <2> QED
    BY <2>3 DEF a
<1> QED
  BY <1>2, <1>3

\* The last Post of a queue that shrinks.
LEMMA LastPostTail ==
    ASSUME NEW q \in Seq(Message), q # <<>>, NEW i, NEW c, LastPost(q, i, c)
    PROVE  LastPost(Tail(q), i, c) \/ (Head(q) = PostOf(i, c) /\ NoPost(Tail(q), i))
<1> DEFINE a == Tail(q)
<1>1. /\ q[1] = Head(q)
      /\ \A n \in 1..Len(a) : a[n] = q[n + 1] /\ n + 1 \in 1 + 1 .. Len(q)
      /\ \A n \in 1..Len(q) : n # 1 => n - 1 \in 1..Len(a) /\ a[n - 1] = q[n]
      /\ \A n \in 1..Len(q) : n # 1 =>
           \A m \in (n - 1) + 1 .. Len(a) : m + 1 \in n + 1 .. Len(q) /\ a[m] = q[m + 1]
  BY SMT
<1> HIDE DEF a
<1>2. PICK n \in 1..Len(q) : q[n] = PostOf(i, c) /\ \A m \in n + 1 .. Len(q) : ~ IsPost(q[m], i)
  BY DEF LastPost
<1>3. CASE n = 1
  <2>1. \A j \in 1..Len(a) : ~ IsPost(a[j], i)
    BY <1>1, <1>2, <1>3
  <2>2. NoPost(a, i)
    BY <2>1 DEF NoPost, Elements
  <2> QED
    BY <1>1, <1>2, <1>3, <2>2 DEF a
<1>4. CASE n # 1
  <2>1. \A m \in (n - 1) + 1 .. Len(a) : ~ IsPost(a[m], i)
    BY <1>1, <1>2, <1>4
  <2>2. n - 1 \in 1..Len(a) /\ a[n - 1] = PostOf(i, c)
    BY <1>1, <1>2, <1>4
  <2>3. LastPost(a, i, c)
    BY <2>1, <2>2 DEF LastPost
  <2> QED
    BY <2>3 DEF a
<1> QED
  BY <1>3, <1>4

\* An origin posts, or it sends something else and has retired what that takes away.
LEMMA BuildPostsOrRetires ==
    ASSUME MirrorType, NEW o \in Origins, Build(o)
    PROVE  /\ \A p \in Origins \ {o} : shown'[p] = shown[p] /\ link'[p] = link[p]
           /\ retired \subseteq retired'
           /\ \/ \E i \in Ids, c \in Contents :
                   /\ \A j \in Ids : shown'[o][j] = IF j = i THEN c ELSE shown[o][j]
                   /\ PostOf(i, c) \in Message
                   /\ (c \in OutBlocked /\ link'[o] = link[o]) \/ link'[o] = Append(link[o], PostOf(i, c))
              \/ \E x \in Message :
                   /\ x.type # "Post"
                   /\ link'[o] = Append(link[o], x)
                   /\ \A i \in DismissedBy(x) : <<o, i>> \in retired'
                   /\ \A j \in Ids : shown'[o][j] = shown[o][j] \/ <<o, j>> \in retired'
<1> DEFINE Rest == \A p \in Origins \ {o} : shown'[p] = shown[p] /\ link'[p] = link[p]
           Retires(x) ==
              /\ x.type # "Post"
              /\ link'[o] = Append(link[o], x)
              /\ \A i \in DismissedBy(x) : <<o, i>> \in retired'
              /\ \A j \in Ids : shown'[o][j] = shown[o][j] \/ <<o, j>> \in retired'
<1>1. shown \in [Origins -> [Ids -> Contents \cup {Absent}]] /\ link \in [Origins -> Seq(Message)]
  BY DEF MirrorType, TypeOK
<1>2. ASSUME NEW i \in Ids, NEW c \in Contents, build_post(o, i, c)
      PROVE  /\ Rest /\ retired \subseteq retired'
             /\ \A j \in Ids : shown'[o][j] = IF j = i THEN c ELSE shown[o][j]
             /\ PostOf(i, c) \in Message
             /\ (c \in OutBlocked /\ link'[o] = link[o]) \/ link'[o] = Append(link[o], PostOf(i, c))
  <2>1. PostOf(i, c) \in Message
    BY SMT DEF PostOf, Message
  <2>2. /\ shown' = [shown EXCEPT ![o][i] = c]
        /\ (c \in OutBlocked /\ link' = link) \/ link' = [link EXCEPT ![o] = Append(@, PostOf(i, c))]
        /\ retired' = retired
    BY <1>2 DEF build_post, Send, PostOf
  <2>3. /\ \A p \in Origins \ {o} : shown'[p] = shown[p] /\ link'[p] = link[p]
        /\ \A j \in Ids : shown'[o][j] = IF j = i THEN c ELSE shown[o][j]
    BY <1>1, <2>2, SMT
  <2>4. (c \in OutBlocked /\ link'[o] = link[o]) \/ link'[o] = Append(link[o], PostOf(i, c))
    BY <1>1, <2>2
  <2> QED
    BY ZenonT(60), <2>1, <2>2, <2>3, <2>4
<1>3. ASSUME NEW i \in Ids, build_dismiss(o, i)
      PROVE  Rest /\ retired \subseteq retired' /\ \E x \in Message : Retires(x)
  <2> DEFINE x == [type |-> "Dismiss", id |-> i]
  <2>1. x \in Message /\ x.id = i /\ x.type = "Dismiss"
    BY SMT DEF Message
  <2>2. /\ shown' = [shown EXCEPT ![o][i] = Absent] /\ link' = [link EXCEPT ![o] = Append(@, x)]
        /\ retired' = retired \cup {<<o, i>>}
    BY <1>3 DEF build_dismiss, Send
  <2> HIDE DEF x
  <2>3. Rest /\ \A j \in Ids : j # i => shown'[o][j] = shown[o][j]
    BY <1>1, <2>2, SMT
  <2>4. link'[o] = Append(link[o], x)
    BY <1>1, <2>2
  <2>5. \A j \in DismissedBy(x) : j = i
    BY <2>1 DEF DismissedBy
  <2>6. x.type # "Post"
    BY <2>1
  <2>7. Retires(x)
    BY <2>2, <2>3, <2>4, <2>5, <2>6
  <2> QED
    BY <2>1, <2>2, <2>3, <2>7
<1>4. ASSUME build_clear_all(o)
      PROVE  Rest /\ retired \subseteq retired' /\ \E x \in Message : Retires(x)
  <2> DEFINE x == [type |-> "ClearAll"]
  <2>1. x \in Message /\ x.type = "ClearAll"
    BY SMT DEF Message
  <2>2. /\ shown' = [shown EXCEPT ![o] = [i \in Ids |-> Absent]]
        /\ link' = [link EXCEPT ![o] = Append(@, x)]
        /\ retired' = retired \cup {<<o, i>> : i \in Ids}
    BY <1>4 DEF build_clear_all, Send
  <2> HIDE DEF x
  <2>3. Rest
    BY <1>1, <2>2, SMT
  <2>4. link'[o] = Append(link[o], x)
    BY <1>1, <2>2
  <2>5. DismissedBy(x) = Ids /\ x.type # "Post"
    BY <2>1 DEF DismissedBy
  <2>6. \A j \in Ids : <<o, j>> \in retired'
    BY <2>2
  <2>7. Retires(x)
    BY <2>4, <2>5, <2>6
  <2> QED
    BY <2>1, <2>2, <2>3, <2>7
<1>5. ASSUME NEW i \in Ids, NEW a \in {"Dismiss", "Open"}, build_action(o, i, a)
      PROVE  Rest /\ retired \subseteq retired' /\ \E x \in Message : Retires(x)
  <2> DEFINE x == [type |-> "ActionInvoked", id |-> i, action |-> a]
  <2>1. x \in Message /\ x.type = "ActionInvoked" /\ x.id = i /\ x.action = a
    BY SMT DEF Message
  <2>2. /\ shown' = shown /\ link' = [link EXCEPT ![o] = Append(@, x)]
        /\ retired' = IF a = "Dismiss" THEN retired \cup {<<o, i>>} ELSE retired
    BY <1>5 DEF build_action, Send
  <2> HIDE DEF x
  <2>3. Rest
    BY <1>1, <2>2, SMT
  <2>4. link'[o] = Append(link[o], x)
    BY <1>1, <2>2
  <2>5. x.type # "Post"
    BY <2>1
  <2>6. CASE a = "Dismiss"
    <3>1. DismissedBy(x) = {i}
      BY <2>1, <2>6 DEF DismissedBy
    <3>2. retired' = retired \cup {<<o, i>>}
      BY <2>2, <2>6
    <3>3. Retires(x)
      BY <2>2, <2>4, <2>5, <3>1, <3>2
    <3> QED
      BY <2>1, <2>3, <3>2, <3>3
  <2>7. CASE a # "Dismiss"
    <3>1. DismissedBy(x) = {}
      BY <2>1, <2>7 DEF DismissedBy
    <3>2. retired' = retired
      BY <2>2, <2>7
    <3>3. Retires(x)
      BY <2>2, <2>4, <2>5, <3>1
    <3> QED
      BY <2>1, <2>3, <3>2, <3>3
  <2> QED
    BY <2>6, <2>7
<1> HIDE DEF Rest, Retires
<1>6. CASE \E i \in Ids, c \in Contents : build_post(o, i, c)
  <2>1. PICK i \in Ids, c \in Contents : build_post(o, i, c)
    BY <1>6
  <2> QED
    BY <1>2, <2>1 DEF Rest
<1>7. ASSUME Rest /\ retired \subseteq retired' /\ \E x \in Message : Retires(x)
      PROVE  /\ \A p \in Origins \ {o} : shown'[p] = shown[p] /\ link'[p] = link[p]
             /\ retired \subseteq retired'
             /\ \E x \in Message :
                   /\ x.type # "Post"
                   /\ link'[o] = Append(link[o], x)
                   /\ \A i \in DismissedBy(x) : <<o, i>> \in retired'
                   /\ \A j \in Ids : shown'[o][j] = shown[o][j] \/ <<o, j>> \in retired'
  BY <1>7 DEF Rest, Retires
<1>8. CASE (\E i \in Ids : build_dismiss(o, i)) \/ build_clear_all(o)
             \/ \E i \in Ids, a \in {"Dismiss", "Open"} : build_action(o, i, a)
  <2>1. Rest /\ retired \subseteq retired' /\ \E x \in Message : Retires(x)
    BY <1>3, <1>4, <1>5, <1>8
  <2> QED
    BY <1>7, <2>1
<1> QED
  BY <1>6, <1>8 DEF Build

-----------------------------------------------------------------------------
(* The buckets. *)

\* A handled message keeps one entry of an id in a bucket, and only posted ones.
LEMMA HandleBucket ==
    ASSUME MirrorType, BucketInv, NEW o \in Origins, Handle(o)
    PROVE  BucketInv'
<1> DEFINE m == Head(link[o])
<1>1. posted \subseteq posted'
  BY HandleKinds, PostEffect DEF SuppressPost
<1>2. \A p \in Origins \ {o} : active'[p] = active[p]
  BY HandleKinds, PostEffect DEF SuppressPost, Dismisses, MirrorType
<1>3. active[o] \in Seq(Entry) /\ Len(active[o]) <= MaxBucket /\ Distinct(active[o])
  BY DEF MirrorType, TypeOK, BucketInv
<1>4. Distinct(active'[o]) /\ \A e \in Elements(active'[o]) : <<o, e.id>> \in posted'
  <2>1. CASE HandlePost(o)
    <3>1. /\ EntryOf(m) \in Entry /\ active' = [active EXCEPT ![o] = Stored(@, EntryOf(m))]
          /\ posted' = posted \cup {<<o, m.id>>}
      BY <2>1, PostEffect
    <3>2. active'[o] = Stored(active[o], EntryOf(m))
      BY <3>1 DEF MirrorType
    <3>3. Distinct(active'[o])
      BY <1>3, <3>1, <3>2, StoredFacts
    <3>4. \A x \in Elements(active'[o]) : x = EntryOf(m) \/ x \in Elements(active[o])
      BY <1>3, <3>1, <3>2, StoredFacts
    <3>5. EntryOf(m).id = m.id
      BY DEF EntryOf
    <3>6. \A x \in Elements(active[o]) : <<o, x.id>> \in posted
      BY DEF BucketInv
    <3> QED
      BY <3>1, <3>3, <3>4, <3>5, <3>6
  <2>2. CASE Dismisses(o, DismissedBy(m))
    <3> DEFINE d == Dismissed(active[o], DismissedBy(m))
    <3>1. active'[o] = d
      BY <2>2 DEF MirrorType, Dismisses
    <3>2. Len(d) = Len(active[o]) /\ \A n \in 1..Len(active[o]) : d[n].id = active[o][n].id
      BY <1>3, DismissedFacts, SMT
    <3> HIDE DEF d
    <3>3. Distinct(d)
      BY <1>3, <3>2 DEF Distinct
    <3>4. \A n \in 1..Len(active[o]) : <<o, active[o][n].id>> \in posted
      BY DEF BucketInv, Elements
    <3>5. \A n \in 1..Len(d) : <<o, d[n].id>> \in posted'
      BY <1>1, <3>2, <3>4
    <3> QED
      BY <3>1, <3>3, <3>5 DEF Elements
  <2>3. CASE UNCHANGED <<guardVars, active, posted>>
    BY <2>3 DEF BucketInv
  <2> QED
    BY <2>1, <2>2, <2>3, HandleKinds DEF SuppressPost
<1> QED
  BY <1>1, <1>2, <1>4 DEF BucketInv

\* While the guard has room, a Post that is let through changes its own key only.
LEMMA PostKeepsOthers ==
    ASSUME MirrorType, BucketInv, IsFiniteSet(posted'), Cardinality(posted') <= RING_CAPACITY,
           NEW o \in Origins, HandlePost(o), NEW p \in Origins, NEW e \in Elements(active[p]),
           <<p, e.id>> # <<o, Head(link[o]).id>>
    PROVE  e \in Elements(active'[p])
<1> DEFINE m == Head(link[o])
<1>1. /\ EntryOf(m) \in Entry /\ active' = [active EXCEPT ![o] = Stored(@, EntryOf(m))]
      /\ posted' = posted \cup {<<o, m.id>>} /\ EntryOf(m).id = m.id
  BY PostEffect DEF EntryOf
<1>2. CASE p # o
  BY <1>1, <1>2 DEF MirrorType
<1>3. CASE p = o
  <2>1. active[o] \in Seq(Entry) /\ Distinct(active[o])
    BY DEF MirrorType, BucketInv
  <2>2. <<o, EntryOf(m).id>> \in posted' /\ \A x \in Elements(active[o]) : <<o, x.id>> \in posted'
    BY <1>1 DEF BucketInv
  <2>3. \A x \in Elements(active[o]) : x.id # EntryOf(m).id => x \in Elements(Stored(active[o], EntryOf(m)))
    BY <1>1, <2>1, <2>2, StoredKeeps
  <2>4. e.id # EntryOf(m).id
    BY <1>1, <1>3
  <2>5. active'[o] = Stored(active[o], EntryOf(m))
    BY <1>1 DEF MirrorType
  <2> QED
    BY <1>3, <2>3, <2>4, <2>5
<1> QED
  BY <1>2, <1>3

\* A Post that is let through is in its bucket.
LEMMA PostStored ==
    ASSUME MirrorType, NEW o \in Origins, HandlePost(o)
    PROVE  EntryOf(Head(link[o])) \in Elements(active'[o])
<1> DEFINE m == Head(link[o])
<1>1. EntryOf(m) \in Entry /\ active' = [active EXCEPT ![o] = Stored(@, EntryOf(m))]
  BY PostEffect
<1>2. active[o] \in Seq(Entry) /\ Len(active[o]) <= MaxBucket
  BY DEF MirrorType, TypeOK
<1>3. EntryOf(m) \in Elements(Stored(active[o], EntryOf(m)))
  BY <1>1, <1>2, StoredFacts
<1> QED
  BY <1>1, <1>3 DEF MirrorType

\* A message that dismisses leaves the other entries.
LEMMA DismissKeepsOthers ==
    ASSUME MirrorType, NEW o \in Origins, NEW ids, Dismisses(o, ids),
           NEW p \in Origins, NEW e \in Elements(active[p]), p = o => e.id \notin ids
    PROVE  e \in Elements(active'[p])
<1>1. active' = [active EXCEPT ![o] = Dismissed(@, ids)]
  BY DEF Dismisses
<1>2. CASE p # o
  BY <1>1, <1>2 DEF MirrorType
<1>3. CASE p = o
  <2>1. active[o] \in Seq(Entry)
    BY DEF MirrorType
  <2>2. e \in Elements(Dismissed(active[o], ids))
    BY <1>3, <2>1, DismissedKeeps
  <2> QED
    BY <1>1, <1>3, <2>2 DEF MirrorType
<1> QED
  BY <1>2, <1>3

\* What the guard does with dismissed ids.
LEMMA DismissedStates ==
    ASSUME NEW o \in Origins, NEW ids, Dismisses(o, ids), NEW p \in Origins, NEW i \in Ids
    PROVE  /\ states'[<<p, i>>] = "Active" =>
                /\ states[<<p, i>>] = "Active"
                /\ seen_hashes'[<<p, i>>] = seen_hashes[<<p, i>>]
                /\ ~ (p = o /\ i \in ids)
           /\ states'[<<p, i>>] = "Dismissed" => states[<<p, i>>] = "Dismissed" \/ (p = o /\ i \in ids)
<1> DEFINE k == <<p, i>>
           ks == {<<o, j>> : j \in ids}
<1>1. k \in Keys
  BY DEF Keys
<1>2. /\ states'[k] = IF k \in ks /\ states[k] # "Absent" THEN "Dismissed" ELSE states[k]
      /\ seen_hashes'[k] = IF k \in ks THEN Absent ELSE seen_hashes[k]
  BY <1>1 DEF Dismisses, record_dismissed
<1>3. k \in ks <=> p = o /\ i \in ids
  OBVIOUS
<1> HIDE DEF k, ks
<1>4. /\ states'[k] = "Active" => states[k] = "Active" /\ seen_hashes'[k] = seen_hashes[k] /\ k \notin ks
      /\ states'[k] = "Dismissed" => states[k] = "Dismissed" \/ k \in ks
  BY <1>2
<1> QED
  BY <1>3, <1>4 DEF k

\* A handled message dismisses only what was retired.
LEMMA HandleRetired ==
    ASSUME MirrorType, RetiredInv, NEW o \in Origins, Handle(o)
    PROVE  RetiredInv'
<1> DEFINE m == Head(link[o])
<1>1. /\ link[o] \in Seq(Message) /\ link[o] # <<>>
      /\ link' = [link EXCEPT ![o] = Tail(@)] /\ retired' = retired
  BY HandleKinds
<1>2. Elements(link[o]) = Elements(Tail(link[o])) \cup {m}
  BY <1>1, ElementsTail
<1>3. \A p \in Origins : \A x \in Elements(link'[p]) : x \in Elements(link[p])
  BY <1>1, <1>2 DEF MirrorType, TypeOK
<1>4. \A p \in Origins : \A x \in Elements(link'[p]) : \A i \in DismissedBy(x) : <<p, i>> \in retired'
  BY <1>1, <1>3 DEF RetiredInv
<1>5. \A k \in Keys : states'[k] = "Dismissed" => k \in retired
  <2> SUFFICES ASSUME NEW k \in Keys, states'[k] = "Dismissed"
               PROVE  k \in retired
    OBVIOUS
  <2>0. PICK p \in Origins, i \in Ids : k = <<p, i>>
    BY SMT DEF Keys
  <2>1. <<p, i>> \in Keys /\ states'[<<p, i>>] = "Dismissed"
    BY <2>0
  <2>2. CASE HandlePost(o)
    <3>1. <<o, m.id>> \in Keys /\ record_posted(<<o, m.id>>, m.content)
      BY <2>2, PostEffect
    <3>2. /\ states'[<<o, m.id>>] = "Active"
          /\ \A x \in Keys \ {<<o, m.id>>} : states'[x] = "Absent" \/ states'[x] = states[x]
      BY <3>1, RecordPostedEffect
    <3>3. states[<<p, i>>] = "Dismissed"
      BY <2>1, <3>2
    <3> QED
      BY <2>0, <2>1, <3>3 DEF RetiredInv
  <2>3. CASE Dismisses(o, DismissedBy(m))
    <3>1. states[<<p, i>>] = "Dismissed" \/ (p = o /\ i \in DismissedBy(m))
      BY <2>1, <2>3, DismissedStates, SMTT(60)
    <3>2. m \in Elements(link[o])
      BY <1>2
    <3> QED
      BY <2>0, <2>1, <3>1, <3>2 DEF RetiredInv
  <2>4. CASE UNCHANGED <<guardVars, active, posted>>
    BY <2>0, <2>1, <2>4 DEF RetiredInv, guardVars
  <2> QED
    BY <2>2, <2>3, <2>4, HandleKinds DEF SuppressPost
<1> QED
  BY <1>1, <1>4, <1>5 DEF RetiredInv

\* An origin retires what the message it sends dismisses.
LEMMA BuildRetired ==
    ASSUME MirrorType, RetiredInv, NEW o \in Origins, Build(o)
    PROVE  RetiredInv'
<1>1. retired \subseteq retired' /\ \A p \in Origins \ {o} : link'[p] = link[p]
  BY BuildPostsOrRetires
<1>2. states' = states
  BY BuildTypes DEF guardVars
<1>3. link[o] \in Seq(Message)
  BY DEF MirrorType, TypeOK
<1>4. \A p \in Origins : \A x \in Elements(link[p]) : \A i \in DismissedBy(x) : <<p, i>> \in retired'
  BY <1>1 DEF RetiredInv
<1>5. ASSUME NEW x \in Message, link'[o] = Append(link[o], x), \A i \in DismissedBy(x) : <<o, i>> \in retired'
      PROVE  \A y \in Elements(link'[o]) : \A i \in DismissedBy(y) : <<o, i>> \in retired'
  <2>1. Elements(Append(link[o], x)) = Elements(link[o]) \cup {x}
    BY <1>3, ElementsAppend, SMT
  <2> QED
    BY <1>4, <1>5, <2>1
<1>6. \A i, c : DismissedBy(PostOf(i, c)) = {}
  <2>1. \A i, c : PostOf(i, c).type = "Post"
    BY DEF PostOf
  <2> QED
    BY <2>1 DEF DismissedBy
<1>7. \A y \in Elements(link'[o]) : \A i \in DismissedBy(y) : <<o, i>> \in retired'
  <2>1. CASE link'[o] = link[o]
    BY <1>4, <2>1
  <2>2. ASSUME NEW i, NEW c, PostOf(i, c) \in Message, link'[o] = Append(link[o], PostOf(i, c))
        PROVE  \A y \in Elements(link'[o]) : \A j \in DismissedBy(y) : <<o, j>> \in retired'
    BY <1>5, <1>6, <2>2
  <2> QED
    BY <1>5, <2>1, <2>2, BuildPostsOrRetires
<1>8. \A k \in Keys : states'[k] = "Dismissed" => k \in retired'
  BY <1>1, <1>2 DEF RetiredInv
<1>9. ASSUME NEW p \in Origins
      PROVE  \A y \in Elements(link'[p]) : \A i \in DismissedBy(y) : <<p, i>> \in retired'
  <2>1. CASE p # o
    BY <1>1, <1>4, <2>1
  <2> QED
    BY <1>7, <2>1
<1> QED
  BY <1>8, <1>9 DEF RetiredInv

\* While the guard has room, every active key stays in its bucket.
LEMMA HandleStored ==
    ASSUME MirrorType, BucketInv, StoredInv, NEW o \in Origins, Handle(o),
           IsFiniteSet(posted'), Cardinality(posted') <= RING_CAPACITY, Cardinality(posted) <= RING_CAPACITY,
           NEW p \in Origins, NEW i \in Ids, states'[<<p, i>>] = "Active"
    PROVE  Holds(p, i, seen_hashes[<<p, i>>])'
<1> DEFINE m == Head(link[o])
<1>1. <<p, i>> \in Keys
  BY DEF Keys
<1>2. states[<<p, i>>] = "Active" => Holds(p, i, seen_hashes[<<p, i>>])
  BY DEF StoredInv
<1>3. \A c : ActiveEntry(i, c).id = i
  BY DEF ActiveEntry
<1>4. CASE HandlePost(o)
  <2>1. <<o, m.id>> \in Keys /\ record_posted(<<o, m.id>>, m.content)
    BY <1>4, PostEffect
  <2>2. /\ seen_hashes'[<<o, m.id>>] = compute_hash(m.content)
        /\ \A x \in Keys \ {<<o, m.id>>} :
             \/ states'[x] = "Absent"
             \/ states'[x] = states[x] /\ seen_hashes'[x] = seen_hashes[x]
    BY <2>1, RecordPostedEffect
  <2>3. CASE <<p, i>> = <<o, m.id>>
    <3>1. p = o /\ i = m.id
      BY <2>3
    <3>2. ActiveEntry(i, m.content) = EntryOf(m) /\ seen_hashes'[<<p, i>>] = compute_hash(m.content)
      BY <2>2, <3>1 DEF ActiveEntry, EntryOf
    <3>3. EntryOf(m) \in Elements(active'[o]) /\ m.content \in Contents
      BY <1>4, PostStored, PostEffect
    <3> QED
      BY <3>1, <3>2, <3>3 DEF Holds, compute_hash
  <2>4. CASE <<p, i>> # <<o, m.id>>
    <3>1. states[<<p, i>>] = "Active" /\ seen_hashes'[<<p, i>>] = seen_hashes[<<p, i>>]
      BY <1>1, <2>2, <2>4
    <3>2. PICK c \in Contents : /\ compute_hash(c) = seen_hashes[<<p, i>>]
                                /\ ActiveEntry(i, c) \in Elements(active[p])
      BY <1>2, <3>1 DEF Holds
    <3>3. ActiveEntry(i, c) \in Elements(active'[p])
      BY <1>3, <1>4, <2>4, <3>2, PostKeepsOthers
    <3> QED
      BY <3>1, <3>2, <3>3 DEF Holds, compute_hash
  <2> QED
    BY <2>3, <2>4
<1>5. CASE Dismisses(o, DismissedBy(m))
  <2>1. states[<<p, i>>] = "Active" /\ seen_hashes'[<<p, i>>] = seen_hashes[<<p, i>>] /\ ~ (p = o /\ i \in DismissedBy(m))
    BY <1>5, DismissedStates, SMT
  <2>2. PICK c \in Contents : /\ compute_hash(c) = seen_hashes[<<p, i>>]
                              /\ ActiveEntry(i, c) \in Elements(active[p])
    BY <1>2, <2>1 DEF Holds
  <2>3. ActiveEntry(i, c) \in Elements(active'[p])
    BY <1>3, <1>5, <2>1, <2>2, DismissKeepsOthers
  <2> QED
    BY <2>1, <2>2, <2>3 DEF Holds, compute_hash
<1>6. CASE UNCHANGED <<guardVars, active, posted>>
  <2>1. states[<<p, i>>] = "Active" /\ UNCHANGED <<seen_hashes, active>>
    BY <1>6 DEF guardVars
  <2> QED
    BY <1>2, <2>1 DEF Holds, compute_hash
<1> QED
  BY <1>4, <1>5, <1>6, HandleKinds DEF SuppressPost

\* A queue without a Post of i that grows or shrinks.
LEMMA NoPostAppend ==
    ASSUME NEW q \in Seq(Message), NEW x \in Message, NEW i, NoPost(q, i), ~ IsPost(x, i)
    PROVE  NoPost(Append(q, x), i)
<1>1. Elements(Append(q, x)) = Elements(q) \cup {x}
  BY ElementsAppend, SMT
<1> QED
  BY <1>1 DEF NoPost

\* What an origin posts becomes its last Post on the way.
LEMMA BuildArriving ==
    ASSUME MirrorType, NEW o \in Origins, Build(o), NEW p \in Origins, NEW i \in Ids, Arriving(p, i)
    PROVE  Arriving(p, i)'
<1>1. active' = active /\ retired \subseteq retired'
  BY BuildTypes, BuildPostsOrRetires
<1>2. CASE p # o
  <2>1. shown'[p] = shown[p] /\ link'[p] = link[p]
    BY <1>2, BuildPostsOrRetires
  <2> QED
    BY <1>1, <2>1 DEF Arriving, Holds
<1>3. CASE p = o
  <2>1. link[o] \in Seq(Message)
    BY DEF MirrorType, TypeOK
  <2>2. ASSUME NEW x \in Message, ~ IsPost(x, i), link'[o] = Append(link[o], x), shown'[o][i] = shown[o][i]
        PROVE  Arriving(o, i)'
    <3>1. LastPost(link[o], i, shown[o][i]) => LastPost(Append(link[o], x), i, shown[o][i])
      BY <2>1, <2>2, LastPostAppend, SMT
    <3>2. NoPost(link[o], i) => NoPost(Append(link[o], x), i)
      BY <2>1, <2>2, NoPostAppend
    <3> QED
      BY <1>1, <1>3, <2>2, <3>1, <3>2 DEF Arriving, Holds
  <2>3. ASSUME NEW j \in Ids, NEW c \in Contents,
               shown'[o][i] = IF i = j THEN c ELSE shown[o][i],
               PostOf(j, c) \in Message,
               (c \in OutBlocked /\ link'[o] = link[o]) \/ link'[o] = Append(link[o], PostOf(j, c))
        PROVE  Arriving(o, i)'
    <3>1. CASE i = j
      <4>1. shown'[o][i] = c
        BY <2>3, <3>1
      <4>2. CASE c \in OutBlocked
        BY <4>1, <4>2 DEF Arriving
      <4>3. CASE link'[o] = Append(link[o], PostOf(i, c))
        <5>1. LastPost(Append(link[o], PostOf(i, c)), i, c)
          BY <2>1, <2>3, <3>1, LastPostAppend, SMTT(60)
        <5> QED
          BY ZenonT(60), <4>1, <4>3, <5>1 DEF Arriving
      <4> QED
        BY <2>3, <3>1, <4>2, <4>3
    <3>2. CASE i # j
      <4>1. shown'[o][i] = shown[o][i]
        BY <2>3, <3>2
      <4>2. ~ IsPost(PostOf(j, c), i)
        <5>1. PostOf(j, c).id = j
          BY DEF PostOf
        <5> QED
          BY <3>2, <5>1 DEF IsPost
      <4>3. CASE link'[o] = link[o]
        BY <1>1, <1>3, <4>1, <4>3 DEF Arriving, Holds
      <4> QED
        BY <2>2, <2>3, <4>1, <4>2, <4>3
    <3> QED
      BY <3>1, <3>2
  <2>4. ASSUME NEW x \in Message, x.type # "Post", link'[o] = Append(link[o], x),
               shown'[o][i] = shown[o][i] \/ <<o, i>> \in retired'
        PROVE  Arriving(o, i)'
    <3>1. ~ IsPost(x, i)
      BY <2>4 DEF IsPost
    <3>2. CASE <<o, i>> \in retired'
      BY <3>2 DEF Arriving
    <3> QED
      BY <2>2, <2>4, <3>1, <3>2
  <2> QED
    BY <1>3, <2>3, <2>4, BuildPostsOrRetires
<1> QED
  BY <1>2, <1>3

\* The last Post of an id, when handled, is mirrored: one that is suppressed is blocked,
\* was retired, or is in the bucket already.
LEMMA HandleArriving ==
    ASSUME MirrorType, GuardInv, BucketInv, RetiredInv, StoredInv, NEW o \in Origins, Handle(o),
           IsFiniteSet(posted'), Cardinality(posted') <= RING_CAPACITY, Cardinality(posted) <= RING_CAPACITY,
           NEW p \in Origins, NEW i \in Ids, Arriving(p, i)
    PROVE  Arriving(p, i)'
<1> DEFINE m == Head(link[o])
<1>1. /\ link[o] \in Seq(Message) /\ link[o] # <<>>
      /\ link' = [link EXCEPT ![o] = Tail(@)] /\ shown' = shown /\ retired' = retired
  BY HandleKinds
<1>2. link'[o] = Tail(link[o]) /\ \A r \in Origins \ {o} : link'[r] = link[r]
  BY <1>1 DEF MirrorType, TypeOK
<1>3. Elements(link[o]) = Elements(Tail(link[o])) \cup {m}
  BY <1>1, ElementsTail
<1>4. \A c : ActiveEntry(i, c).id = i
  BY DEF ActiveEntry
<1>5. m \in Elements(link[o])
  BY <1>3
<1>e. ASSUME NEW e \in Elements(active[p]), e.id = i, p = o => ~ IsPost(m, i), <<p, i>> \notin retired
      PROVE  e \in Elements(active'[p])
  <2>1. CASE m.type = "Post" /\ HandlePost(o)
    <3>1. <<p, e.id>> # <<o, m.id>>
      BY <1>e, <2>1 DEF IsPost
    <3> QED
      BY <1>e, <2>1, <3>1, PostKeepsOthers
  <2>2. CASE Dismisses(o, DismissedBy(m))
    <3>1. p = o => i \notin DismissedBy(m)
      BY <1>5, <1>e DEF RetiredInv
    <3> QED
      BY <1>e, <2>2, <3>1, DismissKeepsOthers
  <2>3. CASE UNCHANGED <<guardVars, active, posted>>
    BY <1>e, <2>3
  <2> QED
    BY <2>1, <2>2, <2>3, HandleKinds DEF SuppressPost
<1>6. ASSUME Holds(p, i, compute_hash(shown[p][i])), p = o => ~ IsPost(m, i), <<p, i>> \notin retired
      PROVE  Holds(p, i, compute_hash(shown[p][i]))'
  <2>1. PICK c \in Contents : /\ compute_hash(c) = compute_hash(shown[p][i])
                              /\ ActiveEntry(i, c) \in Elements(active[p])
    BY <1>6 DEF Holds
  <2>2. ActiveEntry(i, c) \in Elements(active'[p])
    BY <1>4, <1>6, <1>e, <2>1
  <2> QED
    BY <1>1, <2>1, <2>2 DEF Holds, compute_hash
<1>7. CASE p # o
  BY <1>1, <1>2, <1>6, <1>7 DEF Arriving
<1>8. CASE p = o
  <2>1. CASE <<o, i>> \in retired \/ shown[o][i] \in OutBlocked \cup InBlocked \cup {Absent}
    BY <1>1, <1>8, <2>1 DEF Arriving
  <2>2. CASE NoPost(link[o], i) /\ Holds(o, i, compute_hash(shown[o][i])) /\ <<o, i>> \notin retired
    <3>1. ~ IsPost(m, i) /\ NoPost(link'[o], i)
      BY <1>2, <1>3, <2>2 DEF NoPost
    <3>2. Holds(p, i, compute_hash(shown[p][i]))'
      BY <1>6, <1>8, <2>2, <3>1
    <3> QED
      BY <1>1, <1>8, <3>1, <3>2 DEF Arriving
  <2>3. CASE LastPost(link[o], i, shown[o][i])
    <3>1. LastPost(link'[o], i, shown[o][i]) \/ (m = PostOf(i, shown[o][i]) /\ NoPost(link'[o], i))
      BY <1>1, <1>2, <2>3, LastPostTail
    <3>2. CASE LastPost(link'[o], i, shown[o][i])
      BY <1>1, <1>8, <3>2 DEF Arriving
    <3>3. CASE m = PostOf(i, shown[o][i]) /\ NoPost(link'[o], i)
      <4>1. m.type = "Post" /\ m.id = i /\ m.content = shown[o][i]
        <5> HIDE DEF m
        <5> QED
          BY <3>3, SMT DEF PostOf
      <4>2. CASE HandlePost(o)
        <5>1. EntryOf(m) \in Elements(active'[o]) /\ m.content \in Contents
          BY <4>2, PostStored, PostEffect
        <5>2. EntryOf(m) = ActiveEntry(i, shown[o][i]) /\ shown[o][i] \in Contents
          BY <4>1, <5>1 DEF EntryOf, ActiveEntry
        <5> QED
          BY <1>1, <1>8, <3>3, <5>1, <5>2 DEF Arriving, Holds
      <4>3. CASE SuppressPost(o)
        <5>1. m.content \in InBlocked \/ is_duplicate(<<o, m.id>>, m.content) \/ is_dismissed(<<o, m.id>>)
          BY <4>3 DEF SuppressPost
        <5>2. <<o, i>> \in Keys
          BY DEF Keys
        <5>3. CASE m.content \in InBlocked
          BY <1>1, <1>8, <4>1, <5>3 DEF Arriving
        <5>4. CASE is_dismissed(<<o, m.id>>)
          <6>1. <<o, i>> \in retired
            BY <4>1, <5>2, <5>4 DEF is_dismissed, RetiredInv
          <6> QED
            BY <1>1, <1>8, <6>1 DEF Arriving
        <5>5. CASE is_duplicate(<<o, m.id>>, m.content)
          <6>m. m \in Message
            <7> QED
              BY <1>1, SMT
          <6>1. seen_hashes[<<o, i>>] = compute_hash(shown[o][i]) /\ shown[o][i] \in Contents
            BY <4>1, <5>5, <6>m, MessageKinds DEF is_duplicate
          <6>2. states[<<o, i>>] = "Active"
            BY <5>2, <6>1, HashFacts DEF GuardInv, GuardConsistent
          <6>3. Holds(o, i, compute_hash(shown[o][i]))
            BY <6>1, <6>2 DEF StoredInv
          <6>4. active' = active /\ shown' = shown
            BY <1>1, <4>3 DEF SuppressPost
          <6>5. Holds(o, i, compute_hash(shown[o][i]))'
            BY <6>3, <6>4 DEF Holds, compute_hash
          <6> QED
            BY <1>1, <1>8, <3>3, <6>5 DEF Arriving
        <5> QED
          BY <5>1, <5>3, <5>4, <5>5
      <4> QED
        BY <4>1, <4>2, <4>3, HandleKinds
    <3> QED
      BY <3>1, <3>2, <3>3
  <2> QED
    BY <1>8, <2>1, <2>2, <2>3 DEF Arriving
<1> QED
  BY <1>7, <1>8

-----------------------------------------------------------------------------

CompleteInv == MirrorInv /\ BucketInv /\ RetiredInv /\ StoredInv /\ LatestInv

\* The invariant holds at first.
LEMMA InitComplete == Init => CompleteInv
<1> SUFFICES ASSUME Init PROVE CompleteInv
  OBVIOUS
<1>1. \A o \in Origins : active[o] = <<>> /\ link[o] = <<>>
  BY DEF Init
<1>2. 1..Len(<<>>) = {}
  BY SMT
<1>3. \A o \in Origins : Elements(active[o]) = {} /\ Elements(link[o]) = {} /\ Distinct(active[o])
  BY <1>1, <1>2 DEF Elements, Distinct
<1>4. \A k \in Keys : states[k] = "Absent"
  BY DEF Init
<1>5. BucketInv /\ RetiredInv
  BY <1>3, <1>4 DEF BucketInv, RetiredInv
<1>6. StoredInv
  <2>1. \A o \in Origins, i \in Ids : <<o, i>> \in Keys
    BY DEF Keys
  <2>2. \A o \in Origins, i \in Ids : states[<<o, i>>] # "Active"
    BY <1>4, <2>1
  <2> QED
    BY <2>2 DEF StoredInv
<1>7. LatestInv
  <2>1. \A o \in Origins, i \in Ids : shown[o][i] = Absent
    BY DEF Init
  <2> QED
    BY <2>1 DEF LatestInv, Arriving
<1> QED
  BY <1>5, <1>6, <1>7, InitMirror DEF CompleteInv

\* The keys ever let through only grow.
LEMMA PostedGrows ==
    ASSUME MirrorInv, Next, Cardinality(posted') <= RING_CAPACITY
    PROVE  IsFiniteSet(posted') /\ Cardinality(posted) <= RING_CAPACITY
<1>1. MirrorInv'
  BY NextMirror
<1>2. IsFiniteSet(posted') /\ IsFiniteSet(posted)
  BY <1>1 DEF MirrorInv, GuardInv, NoneForgotten
<1>3. posted \subseteq posted'
  <2>1. ASSUME NEW o \in Origins, Handle(o) PROVE posted \subseteq posted'
    BY <2>1, HandleKinds, PostEffect DEF SuppressPost, MirrorInv
  <2>2. ASSUME NEW o \in Origins, Build(o) PROVE posted \subseteq posted'
    BY <2>2, BuildTypes DEF MirrorInv
  <2> QED
    BY <2>1, <2>2 DEF Next
<1>4. Cardinality(posted) <= Cardinality(posted')
  BY <1>2, <1>3, FS_Subset
<1>5. Cardinality(posted) \in Nat /\ Cardinality(posted') \in Nat
  BY <1>2, FS_CardinalityType
<1> QED
  BY <1>2, <1>4, <1>5, NotificationConstants, SMTT(60)

\* Every step keeps it.
LEMMA NextComplete == CompleteInv /\ [Next]_vars => CompleteInv'
<1> SUFFICES ASSUME CompleteInv, [Next]_vars PROVE CompleteInv'
  OBVIOUS
<1>1. MirrorInv /\ MirrorInv' /\ MirrorType /\ GuardInv
  BY NextMirror DEF CompleteInv, MirrorInv
<1>2. BucketInv /\ RetiredInv /\ StoredInv /\ LatestInv
  BY DEF CompleteInv
<1>3. ASSUME NEW o \in Origins, Build(o)
      PROVE  BucketInv' /\ RetiredInv' /\ StoredInv' /\ LatestInv'
  <2>1. seen_hashes' = seen_hashes /\ states' = states /\ active' = active /\ posted' = posted
    BY <1>1, <1>3, BuildTypes DEF guardVars
  <2>2. BucketInv' /\ StoredInv'
    BY <1>2, <2>1 DEF BucketInv, StoredInv, Holds
  <2>3. RetiredInv'
    BY <1>1, <1>2, <1>3, BuildRetired
  <2>4. LatestInv'
    BY <1>1, <1>2, <1>3, <2>1, BuildArriving DEF LatestInv
  <2> QED
    BY <2>2, <2>3, <2>4
<1>4. ASSUME NEW o \in Origins, Handle(o)
      PROVE  BucketInv' /\ RetiredInv' /\ StoredInv' /\ LatestInv'
  <2>1. BucketInv' /\ RetiredInv'
    BY <1>1, <1>2, <1>4, HandleBucket, HandleRetired
  <2>2. Next
    BY <1>4 DEF Next
  <2>3. ASSUME Cardinality(posted') <= RING_CAPACITY
        PROVE  IsFiniteSet(posted') /\ Cardinality(posted) <= RING_CAPACITY
    BY <1>1, <2>2, <2>3, PostedGrows
  <2>4. StoredInv'
    BY <1>1, <1>2, <1>4, <2>3, HandleStored DEF StoredInv
  <2>5. LatestInv'
    BY <1>1, <1>2, <1>4, <2>3, HandleArriving DEF LatestInv
  <2> QED
    BY <2>1, <2>4, <2>5
<1>5. CASE UNCHANGED vars
  <2>1. /\ shown' = shown /\ link' = link /\ seen_hashes' = seen_hashes /\ states' = states
        /\ active' = active /\ posted' = posted /\ retired' = retired
    BY <1>5 DEF vars, guardVars
  <2>2. BucketInv' /\ RetiredInv' /\ StoredInv'
    BY <1>2, <2>1 DEF BucketInv, RetiredInv, StoredInv, Holds
  <2>3. LatestInv'
    BY <1>2, <2>1 DEF LatestInv, Arriving, Holds
  <2> QED
    BY <1>1, <2>2, <2>3 DEF CompleteInv
<1> QED
  BY <1>1, <1>3, <1>4, <1>5 DEF Next, CompleteInv

\* While the guard has had room for every key, what an origin shows and no policy or
\* dismissal keeps out is mirrored once its messages have arrived, up to contents that
\* compute_hash does not tell apart; whatever the hash function.
THEOREM MirrorIsComplete == Spec => []CompleteWithinCapacity
<1>1. CompleteInv => CompleteWithinCapacity
  <2> SUFFICES ASSUME CompleteInv, Cardinality(posted) <= RING_CAPACITY,
                      NEW o \in Origins, link[o] = <<>>, NEW i \in Ids
               PROVE  \/ <<o, i>> \in retired
                      \/ shown[o][i] \in OutBlocked \cup InBlocked \cup {Absent}
                      \/ \E e \in Mirrored(o) :
                           e.id = i /\ compute_hash(e.content) = compute_hash(shown[o][i])
    BY DEF CompleteWithinCapacity
  <2>1. Arriving(o, i)
    BY DEF CompleteInv, LatestInv
  <2>2. 1..Len(link[o]) = {}
    BY SMT
  <2>3. ~ LastPost(link[o], i, shown[o][i])
    BY <2>2 DEF LastPost
  <2>4. ASSUME Holds(o, i, compute_hash(shown[o][i]))
        PROVE  \E e \in Mirrored(o) : e.id = i /\ compute_hash(e.content) = compute_hash(shown[o][i])
    <3>1. PICK c \in Contents : /\ compute_hash(c) = compute_hash(shown[o][i])
                                /\ ActiveEntry(i, c) \in Elements(active[o])
      BY <2>4 DEF Holds
    <3>2. ActiveEntry(i, c).id = i /\ ActiveEntry(i, c).content = c /\ ActiveEntry(i, c).state = "Active"
      BY DEF ActiveEntry
    <3>3. ActiveEntry(i, c) \in Mirrored(o)
      BY <3>1, <3>2 DEF Mirrored, Elements
    <3> QED
      BY <3>1, <3>2, <3>3
  <2> QED
    BY <2>1, <2>3, <2>4 DEF Arriving
<1>2. Init => CompleteInv
  BY InitComplete
<1>3. CompleteInv /\ [Next]_vars => CompleteInv'
  BY NextComplete
<1> QED
  BY <1>1, <1>2, <1>3, PTL DEF Spec
=============================================================================
