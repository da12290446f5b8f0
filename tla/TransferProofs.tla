--------------------------- MODULE TransferProofs ---------------------------
(***************************************************************************)
(* Proofs about file transfer, for any files, any chunk size and any       *)
(* number of attempts, however they overlap: types are kept, and client    *)
(* and node never wait for each other. As long as no two receivers had the *)
(* .part file open at the same time, the final file is what the attempt    *)
(* stored last offered, a client that reports success has had its file put *)
(* in place, and an attempt that nothing happened to does not fail.        *)
(***************************************************************************)
EXTENDS Transfer, FiniteSetTheorems, TLAPS

\* Leaves that need arithmetic, tuples or sequences name SMT.
USE Zenon

(***************************************************************************)
(* The inductive invariant.                                                *)
(***************************************************************************)

\* At most one receiver is at work.
SingleInv ==
    \A a, b \in Attempts : rpc[a] \in ReceiverBusy /\ rpc[b] \in ReceiverBusy => a = b

\* Before its Offer an attempt has left no trace.
IdleInv ==
    \A a \in Attempts :
        spc[a] = "idle" => /\ rpc[a] = "loop" /\ ~ up[a]
                           /\ toNode[a] = <<>> /\ toClient[a] = <<>>

\* A receiver writes to the file that is called .part, which is not the final file;
\* either was made by an attempt whose Offer the node has read.
DiskInv ==
    /\ \A a \in Attempts : rpc[a] \in ReceiverBusy => part # None /\ handle[a] = part
    /\ part # None => part # final /\ rpc[part] # "loop"
    /\ final # None => rpc[final] # "loop"

\* A receiver at work has opened a file.
OpenInv == \A a \in Attempts : rpc[a] \in ReceiverBusy => handle[a] # None

\* What is about to be renamed has been compared with the manifest.
RenameInv == \A a \in Attempts : rpc[a] = "renaming" => files[handle[a]] = Content[offer[a]]

\* There is a final file once an attempt was stored, and it is the last one's.
LatestInv ==
    final # None \/ latest # None =>
        final # None /\ latest # None /\ files[final] = Content[offer[latest]]

\* The Complete message follows the rename.
CompleteInv ==
    \A a \in Attempts : \A i \in 1 .. Len(toClient[a]) :
        toClient[a][i].type = "Complete" => a \in stored

Inv ==
    /\ TypeOK /\ OpenInv /\ IdleInv /\ CompleteInv
    /\ ~ shared => SingleInv /\ DiskInv /\ RenameInv /\ LatestInv

-----------------------------------------------------------------------------
(***************************************************************************)
(* Sequences, frames and the manifest's arithmetic.                        *)
(***************************************************************************)

\* Taking the first frame, as recv_frame does.
LEMMA Taken ==
    ASSUME NEW S, NEW q \in Seq(S), q # <<>>
    PROVE  /\ Tail(q) \in Seq(S) /\ Head(q) \in S /\ 1 \in 1 .. Len(q) /\ Head(q) = q[1]
           /\ \A i \in 1 .. Len(Tail(q)) : i + 1 \in 1 .. Len(q) /\ Tail(q)[i] = q[i + 1]
BY SMT

\* Adding a frame, as send_frame does.
LEMMA Added ==
    ASSUME NEW S, NEW q \in Seq(S), NEW x \in S
    PROVE  /\ Append(q, x) \in Seq(S)
           /\ \A i \in 1 .. Len(Append(q, x)) :
                Append(q, x)[i] = x \/ (i \in 1 .. Len(q) /\ Append(q, x)[i] = q[i])
<1>1. Append(q, x) \in Seq(S) /\ Len(Append(q, x)) = Len(q) + 1 /\ Len(q) \in Nat
  BY SMT
<1>2. \A i \in 1 .. Len(q) : Append(q, x)[i] = q[i]
  BY SMT
<1>3. Append(q, x)[Len(q) + 1] = x
  BY SMT
<1>4. \A i \in 1 .. Len(q) + 1 : i \in 1 .. Len(q) \/ i = Len(q) + 1
  BY <1>1, SMT
<1> SUFFICES ASSUME NEW i \in 1 .. Len(Append(q, x))
             PROVE  Append(q, x)[i] = x \/ (i \in 1 .. Len(q) /\ Append(q, x)[i] = q[i])
  BY <1>1
<1>5. i \in 1 .. Len(q) \/ i = Len(q) + 1
  BY <1>1, <1>4
<1>6. CASE i \in 1 .. Len(q)
  BY <1>2, <1>6
<1>7. CASE i = Len(q) + 1
  BY <1>3, <1>7
<1> QED
  BY <1>5, <1>6, <1>7

\* A piece of a sequence.
LEMMA Piece ==
    ASSUME NEW S, NEW q \in Seq(S), NEW m \in Nat, NEW n \in Nat, n <= Len(q)
    PROVE  SubSeq(q, m + 1, n) \in Seq(S)
BY SMT

\* The first frames of a stream that broke.
LEMMA Cut ==
    ASSUME NEW S, NEW q \in Seq(S), NEW k \in 0 .. Len(q)
    PROVE  /\ SubSeq(q, 1, k) \in Seq(S)
           /\ \A i \in 1 .. Len(SubSeq(q, 1, k)) :
                i \in 1 .. Len(q) /\ SubSeq(q, 1, k)[i] = q[i]
BY SMT

\* The bytes of a file after a write.
LEMMA Written ==
    ASSUME NEW f \in Seq(Nat), NEW offset \in Nat, NEW data \in Seq(Nat)
    PROVE  WriteAt(f, offset, data) \in Seq(Nat)
BY SMT DEF WriteAt, Hole

\* Offsets, sizes and counts of chunks are natural numbers.
LEMMA ChunkArithmetic ==
    ASSUME TypeOK, NEW a \in Attempts, NEW i \in Nat
    PROVE  /\ i * ChunkSize \in Nat
           /\ total_size(a) \in Nat /\ total_chunks(a) \in Nat
           /\ expected_chunk_size(a, i) \in Nat
<1>1. ChunkSize \in Nat /\ ChunkSize > 0
  BY TransferConstants, SMT
<1>2. i * ChunkSize \in Nat
  BY <1>1, SMT
<1>3. total_size(a) \in Nat
  BY TransferConstants, SMT DEF TypeOK, total_size
<1>4. ASSUME NEW x \in Nat PROVE x \div ChunkSize \in Nat
  BY <1>1, SMT
<1>5. ASSUME NEW x \in Nat PROVE x % ChunkSize \in Nat
  BY <1>1, SMT
<1>6. total_size(a) + ChunkSize - 1 \in Nat
  BY <1>1, <1>3, SMT
<1>7. total_chunks(a) \in Nat
  BY <1>4, <1>6 DEF total_chunks, calculate_total_chunks
<1>8. expected_chunk_size(a, i) \in Nat
  BY <1>1, <1>3, <1>5 DEF expected_chunk_size
<1> QED
  BY <1>2, <1>3, <1>7, <1>8

\* The index in an Accept: to_dir counts the whole chunks that are there, none missing.
LEMMA NextExpected ==
    ASSUME NEW total \in Nat, NEW valid \in Nat, valid <= total
    PROVE  next_expected_chunk({i \in 0 .. total : i < valid}, total) = valid
<1> DEFINE got == {i \in 0 .. total : i < valid}
           Missing(n) == n \notin got /\ \A m \in 0 .. (n - 1) : m \in got
<1>1. got = 0 .. (valid - 1)
  BY SMT
<1>2. Cardinality(got) = valid
  <2>1. Cardinality(0 .. (valid - 1)) = IF 0 > valid - 1 THEN 0 ELSE (valid - 1) - 0 + 1
    BY FS_Interval, SMT
  <2>2. Cardinality(0 .. (valid - 1)) = valid
    BY <2>1, SMT
  <2> QED
    BY <1>1, <2>2
<1>3. valid \in 0 .. Cardinality(got) /\ Missing(valid)
  BY <1>1, <1>2, SMT
<1>4. ASSUME NEW n \in 0 .. Cardinality(got), Missing(n) PROVE n = valid
  BY <1>1, <1>2, <1>4, SMT
<1>5. (CHOOSE n \in 0 .. Cardinality(got) : Missing(n)) = valid
  <2> DEFINE c == CHOOSE n \in 0 .. Cardinality(got) : Missing(n)
  <2>1. c \in 0 .. Cardinality(got) /\ Missing(c)
    BY <1>3
  <2> HIDE DEF c, Missing, got
  <2> QED
    BY <1>4, <2>1 DEF c
<1>6. MinOf(valid, total) = valid
  BY SMT DEF MinOf
<1> QED
  BY <1>5, <1>6 DEF next_expected_chunk

\* The frames the two sides build.
LEMMA FramesBuilt ==
    /\ \A t \in {"Offer", "Finished", "Complete", "Clipboard"} : [type |-> t] \in Frames
    /\ \A n \in Nat : /\ [type |-> "Accept", index |-> n] \in Frames
                      /\ [type |-> "Ack", index |-> n] \in Frames
    /\ \A n \in Nat, d \in Seq(Nat) :
         [type |-> "Data", index |-> n, intact |-> TRUE, data |-> d] \in Frames
BY SMT DEF Frames

\* The fields they find.
LEMMA FrameFields ==
    ASSUME NEW f \in Frames
    PROVE  /\ f.type \in {"Accept", "Ack"} => f.index \in Nat
           /\ f.type = "Data" => f.index \in Nat /\ f.data \in Seq(Nat)
BY SMT DEF Frames

\* A chunk that was altered is still a frame.
LEMMA FrameCorrupted ==
    ASSUME NEW f \in Frames, f.type = "Data"
    PROVE  [f EXCEPT !.intact = FALSE] \in Frames
<1>1. f \in [type : {"Data"}, index : Nat, data : Seq(Nat), intact : BOOLEAN]
  BY SMT DEF Frames
<1>2. [f EXCEPT !.intact = FALSE] \in [type : {"Data"}, index : Nat, data : Seq(Nat), intact : BOOLEAN]
  BY <1>1
<1> QED
  BY <1>2 DEF Frames

\* What is at the head of a stream.
LEMMA Heads ==
    ASSUME TypeOK, NEW a \in Attempts
    PROVE  /\ toNode[a] # <<>> => Head(toNode[a]) \in Frames /\ Tail(toNode[a]) \in Seq(Frames)
           /\ toClient[a] # <<>> => Head(toClient[a]) \in Frames /\ Tail(toClient[a]) \in Seq(Frames)
<1>1. toNode[a] \in Seq(Frames) /\ toClient[a] \in Seq(Frames)
  BY DEF TypeOK
<1> QED
  BY <1>1, Taken

\* The streams keep their types.
LEMMA StreamTypes ==
    ASSUME TypeOK, NEW a \in Attempts
    PROVE  /\ \A f \in Frames : ToNode(a, f) => toNode' \in [Attempts -> Seq(Frames)]
           /\ \A f \in Frames : ToClient(a, f) => toClient' \in [Attempts -> Seq(Frames)]
           /\ toNode[a] # <<>> /\ TakenByNode(a) => toNode' \in [Attempts -> Seq(Frames)]
           /\ toClient[a] # <<>> /\ TakenByClient(a) => toClient' \in [Attempts -> Seq(Frames)]
<1>1. /\ toNode \in [Attempts -> Seq(Frames)] /\ toClient \in [Attempts -> Seq(Frames)]
      /\ toNode[a] \in Seq(Frames) /\ toClient[a] \in Seq(Frames)
  BY DEF TypeOK
<1>2. \A f \in Frames : Append(toNode[a], f) \in Seq(Frames) /\ Append(toClient[a], f) \in Seq(Frames)
  BY <1>1, Added
<1> QED
  BY <1>1, <1>2, Heads DEF ToNode, ToClient, TakenByNode, TakenByClient

\* next_chunk builds a frame from the bytes the file has now, or fails.
LEMMA SendNextTypes ==
    ASSUME TypeOK, NEW a \in Attempts, NEW i \in Nat, SendNext(a, i)
    PROVE  /\ toNode' \in [Attempts -> Seq(Frames)]
           /\ current' \in [Attempts -> Nat]
           /\ spc' \in [Attempts -> SenderWaits \cup {"idle", "done", "failed"}]
           /\ up' \in [Attempts -> BOOLEAN]
<1> DEFINE offset == i * ChunkSize
           size == expected_chunk_size(a, i)
           bytes == Content[source[a]]
           chunk == SubSeq(bytes, offset + 1, offset + size)
<1>1. offset \in Nat /\ size \in Nat
  BY ChunkArithmetic
<1>2. bytes \in Seq(Nat)
  <2>1. bytes \in Seq(Nat \ {0})
    BY TransferConstants DEF TypeOK
  <2> QED
    BY <2>1, SMT
<1>3. offset + size \in Nat
  BY <1>1, SMT
<1>4. i + 1 \in Nat
  BY SMT
<1>5. CASE /\ i < total_chunks(a) /\ offset + size <= Len(bytes)
           /\ ToNode(a, [type |-> "Data", index |-> i, intact |-> TRUE, data |-> chunk])
           /\ current' = [current EXCEPT ![a] = i + 1]
           /\ spc' = [spc EXCEPT ![a] = "awaitAck"]
           /\ UNCHANGED up
  <2>1. chunk \in Seq(Nat)
    BY <1>1, <1>2, <1>3, <1>5, Piece
  <2> HIDE DEF chunk
  <2>2. toNode' \in [Attempts -> Seq(Frames)]
    BY <1>5, <2>1, FramesBuilt, StreamTypes
  <2> QED
    BY <1>4, <1>5, <2>2 DEF TypeOK, SenderWaits
<1>6. CASE /\ spc' = [spc EXCEPT ![a] = "failed"]
           /\ up' = [up EXCEPT ![a] = FALSE]
           /\ UNCHANGED <<toNode, current>>
  BY <1>6 DEF TypeOK
<1>7. CASE /\ ToNode(a, [type |-> "Finished"])
           /\ spc' = [spc EXCEPT ![a] = "awaitComplete"]
           /\ UNCHANGED <<up, current>>
  <2>1. toNode' \in [Attempts -> Seq(Frames)]
    BY <1>7, FramesBuilt, StreamTypes
  <2> QED
    BY <1>7, <2>1 DEF TypeOK, SenderWaits
<1> QED
  BY <1>5, <1>6, <1>7 DEF SendNext

\* to_dir keeps whole chunks, within the file that is there and the one that is offered.
LEMMA WholeChunks ==
    ASSUME NEW f \in Seq(Nat), NEW total \in Nat
    PROVE  /\ valid_chunks(f, total) \in Nat /\ valid_chunks(f, total) <= total
           /\ Truncate(f, valid_chunks(f, total) * ChunkSize) \in Seq(Nat)
<1> DEFINE n == Len(f) \div ChunkSize
           v == valid_chunks(f, total)
<1>1. ChunkSize \in Nat /\ ChunkSize > 0 /\ Len(f) \in Nat
  BY TransferConstants, SMT
<1>2. n \in Nat /\ n * ChunkSize <= Len(f)
  BY <1>1, SMT
<1> HIDE DEF n
<1>3. v \in Nat /\ v <= total /\ v <= n
  BY <1>2, SMT DEF valid_chunks, MinOf, n
<1> HIDE DEF v
<1>4. v * ChunkSize \in Nat /\ v * ChunkSize <= n * ChunkSize /\ n * ChunkSize \in Nat
  BY <1>1, <1>2, <1>3, SMT
<1>5. v * ChunkSize \in 0 .. Len(f)
  BY <1>1, <1>2, <1>4, SMT
<1>6. Truncate(f, v * ChunkSize) \in Seq(Nat)
  BY <1>5, Cut DEF Truncate
<1> QED
  BY <1>3, <1>6 DEF v

-----------------------------------------------------------------------------
(***************************************************************************)
(* Types.                                                                  *)
(***************************************************************************)

\* Steps of the client keep the types.
LEMMA ClientTypes ==
    ASSUME TypeOK, NEW a \in Attempts, SendOffer(a) \/ ClientStep(a) \/ Edit(a)
    PROVE  TypeOK'
<1> USE DEF clientVars, diskVars, receiverVars
<1>1. CASE SendOffer(a)
  <2>1. <<[type |-> "Offer"]>> \in Seq(Frames)
    BY FramesBuilt, SMT
  <2> QED
    BY <1>1, <2>1 DEF SendOffer, TypeOK, SenderWaits
<1>2. CASE ReceiveAccept(a)
  <2>1. Head(toClient[a]).index \in Nat
    BY <1>2, Heads, FrameFields DEF ReceiveAccept, AtClient
  <2>2. toClient' \in [Attempts -> Seq(Frames)]
    BY <1>2, StreamTypes DEF ReceiveAccept, AtClient
  <2>3. SendNext(a, Head(toClient[a]).index)
    BY <1>2 DEF ReceiveAccept
  <2>4. /\ toNode' \in [Attempts -> Seq(Frames)]
        /\ current' \in [Attempts -> Nat]
        /\ spc' \in [Attempts -> SenderWaits \cup {"idle", "done", "failed"}]
        /\ up' \in [Attempts -> BOOLEAN]
    BY <2>1, <2>3, SendNextTypes
  <2> QED
    BY <1>2, <2>2, <2>4 DEF ReceiveAccept, TypeOK
<1>3. CASE ReceiveAck(a)
  <2>1. current[a] \in Nat
    BY DEF TypeOK
  <2>2. toClient' \in [Attempts -> Seq(Frames)]
    BY <1>3, StreamTypes DEF ReceiveAck, AtClient
  <2>3. SendNext(a, current[a])
    BY <1>3 DEF ReceiveAck
  <2>4. /\ toNode' \in [Attempts -> Seq(Frames)]
        /\ current' \in [Attempts -> Nat]
        /\ spc' \in [Attempts -> SenderWaits \cup {"idle", "done", "failed"}]
        /\ up' \in [Attempts -> BOOLEAN]
    BY <2>1, <2>3, SendNextTypes
  <2> QED
    BY <1>3, <2>2, <2>4 DEF ReceiveAck, TypeOK
<1>4. CASE ReceiveComplete(a)
  <2>1. toClient' \in [Attempts -> Seq(Frames)]
    BY <1>4, StreamTypes DEF ReceiveComplete, AtClient
  <2> QED
    BY <1>4, <2>1 DEF ReceiveComplete, TypeOK
<1>5. CASE ClientFails(a)
  <2>1. <<>> \in Seq(Frames)
    BY SMT
  <2> QED
    BY <1>5, <2>1 DEF ClientFails, TypeOK
<1>6. CASE Edit(a)
  <2>1. PICK v \in Version : source' = [source EXCEPT ![a] = v]
    BY <1>6 DEF Edit
  <2>2. source' \in [Attempts -> Version] /\ fault' \in [Attempts -> BOOLEAN]
    BY <1>6, <2>1 DEF Edit, Fault, TypeOK
  <2> QED
    BY <1>6, <2>2 DEF Edit, TypeOK
<1> QED
  BY <1>1, <1>2, <1>3, <1>4, <1>5, <1>6 DEF ClientStep

\* The file that an Offer opens.
LEMMA OfferTypes ==
    ASSUME TypeOK, NEW a \in Attempts, ReceiveOffer(a)
    PROVE  TypeOK'
<1> DEFINE total == total_chunks(a)
           opened == IF part = None THEN a ELSE part
           existing == IF part = None THEN <<>> ELSE files[part]
           resumes == existing # <<>> /\ total > 0
           valid == valid_chunks(existing, total)
           kept == IF resumes THEN Truncate(existing, valid * ChunkSize) ELSE existing
           got == IF resumes THEN {i \in 0..total : i < valid} ELSE {}
           index == next_expected_chunk(got, total)
<1> USE DEF clientVars, diskVars, receiverVars
<1>1. total \in Nat
  <2>1. 0 \in Nat
    BY SMT
  <2> QED
    BY <2>1, ChunkArithmetic
<1>2. opened \in Attempts
  BY DEF TypeOK
<1>3. existing \in Seq(Nat)
  <2>1. <<>> \in Seq(Nat)
    BY SMT
  <2> QED
    BY <2>1 DEF TypeOK
<1> HIDE DEF total, existing, opened
<1>4. valid \in Nat /\ valid <= total /\ Truncate(existing, valid * ChunkSize) \in Seq(Nat)
  BY <1>1, <1>3, WholeChunks
<1> HIDE DEF valid
<1>5. kept \in Seq(Nat)
  BY <1>3, <1>4
<1>6. got \in SUBSET Nat
  BY <1>1, SMT
<1>7. index \in Nat
  <2>1. CASE resumes
    BY <1>1, <1>4, <2>1, NextExpected
  <2>2. CASE ~ resumes
    <3>1. 0 \in Nat /\ 0 <= total
      BY <1>1, SMT
    <3>2. {i \in 0 .. total : i < 0} = {}
      BY <1>1, SMT
    <3>3. next_expected_chunk({}, total) = 0
      BY <1>1, <3>1, <3>2, NextExpected
    <3> QED
      BY <2>2, <3>1, <3>3
  <2> QED
    BY <2>1, <2>2
<1> HIDE DEF kept, got, index
<1>8. /\ AtNode(a, "Offer") /\ TakenByNode(a)
      /\ ToClient(a, [type |-> "Accept", index |-> index])
      /\ rpc' = [rpc EXCEPT ![a] = "chunks"]
      /\ part' = opened
      /\ handle' = [handle EXCEPT ![a] = opened]
      /\ files' = [files EXCEPT ![opened] = kept]
      /\ received' = [received EXCEPT ![a] = got]
      /\ stale' = [stale EXCEPT ![a] = ~ IsPrefixOf(kept, Content[offer[a]])]
      /\ shared' = (shared \/ \E b \in Attempts : rpc[b] \in ReceiverBusy)
      /\ UNCHANGED <<up, trusted, clientVars, final, stored, latest, fault>>
  BY DEF ReceiveOffer, total, opened, existing, valid, kept, got, index
<1>9. toNode' \in [Attempts -> Seq(Frames)]
  BY <1>8, StreamTypes DEF AtNode
<1>10. toClient' \in [Attempts -> Seq(Frames)]
  BY <1>7, <1>8, StreamTypes, FramesBuilt
<1>11. (~ IsPrefixOf(kept, Content[offer[a]])) \in BOOLEAN
  OBVIOUS
<1>12. stale' \in [Attempts -> BOOLEAN]
  BY <1>8, <1>11 DEF TypeOK
<1>13. files' \in [Attempts -> Seq(Nat)] /\ received' \in [Attempts -> SUBSET Nat]
  BY <1>2, <1>5, <1>6, <1>8 DEF TypeOK
<1>14. shared' \in BOOLEAN
  BY <1>8
<1> QED
  BY <1>2, <1>8, <1>9, <1>10, <1>12, <1>13, <1>14 DEF TypeOK, ReceiverBusy

\* A chunk that passed receive_chunk, written whole or in part.
LEMMA WriteTypes ==
    ASSUME TypeOK, OpenInv, NEW a \in Attempts, rpc[a] = "chunks", AtNode(a, "Data"),
           NEW data \in Seq(Nat),
           files' = [files EXCEPT ![handle[a]] =
                       WriteAt(@, Head(toNode[a]).index * ChunkSize, data)]
    PROVE  files' \in [Attempts -> Seq(Nat)]
<1>1. Head(toNode[a]).index \in Nat
  BY Heads, FrameFields DEF AtNode
<1>2. Head(toNode[a]).index * ChunkSize \in Nat
  BY <1>1, ChunkArithmetic
<1>3. handle[a] \in Attempts
  BY DEF OpenInv, TypeOK, ReceiverBusy
<1>4. files[handle[a]] \in Seq(Nat)
  BY <1>3 DEF TypeOK
<1>5. WriteAt(files[handle[a]], Head(toNode[a]).index * ChunkSize, data) \in Seq(Nat)
  BY <1>2, <1>4, Written
<1> QED
  BY <1>3, <1>5 DEF TypeOK

\* Steps of the node keep the types.
LEMMA NodeTypes ==
    ASSUME TypeOK, OpenInv, NEW a \in Attempts, NodeStep(a)
    PROVE  TypeOK'
<1> USE DEF clientVars, diskVars, receiverVars
<1>1. <<>> \in Seq(Frames)
  BY SMT
<1>2. CASE NodeFails(a)
  BY <1>1, <1>2 DEF NodeFails, TypeOK
<1>3. CASE DropOffer(a)
  <2>1. toNode' \in [Attempts -> Seq(Frames)]
    BY <1>3, StreamTypes DEF DropOffer, AtNode
  <2> QED
    BY <1>3, <2>1 DEF DropOffer, TypeOK
<1>4. CASE ReceiveData(a)
  <2> DEFINE f == Head(toNode[a])
  <2>1. f.index \in Nat /\ f.data \in Seq(Nat)
    BY <1>4, Heads, FrameFields DEF ReceiveData, AtNode
  <2>2. files' \in [Attempts -> Seq(Nat)]
    BY <1>4, <2>1, WriteTypes DEF ReceiveData
  <2>3. toNode' \in [Attempts -> Seq(Frames)]
    BY <1>4, StreamTypes DEF ReceiveData, AtNode
  <2>4. toClient' \in [Attempts -> Seq(Frames)]
    BY <1>4, <2>1, StreamTypes, FramesBuilt DEF ReceiveData
  <2>5. received' \in [Attempts -> SUBSET Nat]
    BY <1>4, <2>1 DEF ReceiveData, TypeOK
  <2> QED
    BY <1>4, <2>2, <2>3, <2>4, <2>5 DEF ReceiveData, TypeOK
<1>5. CASE ReceiveFinished(a)
  <2>1. toNode' \in [Attempts -> Seq(Frames)]
    BY <1>5, StreamTypes DEF ReceiveFinished, AtNode
  <2> QED
    BY <1>5, <2>1 DEF ReceiveFinished, TypeOK, ReceiverBusy
<1>6. CASE Rename(a) /\ part # None
  <2>1. toClient' \in [Attempts -> Seq(Frames)]
    BY <1>6, StreamTypes, FramesBuilt DEF Rename
  <2>2. stored' \subseteq Attempts /\ latest' \in Attempts \cup {None}
    <3>1. stored' = stored \cup {a} /\ latest' = a
      BY <1>6 DEF Rename
    <3>2. stored \subseteq Attempts
      BY DEF TypeOK
    <3> QED
      BY <3>1, <3>2
  <2>3. part' \in Attempts \cup {None} /\ final' \in Attempts \cup {None}
    BY <1>6 DEF Rename, TypeOK
  <2>4. rpc' \in [Attempts -> ReceiverBusy \cup {"loop", "done", "failed"}]
    BY <1>6 DEF Rename, TypeOK
  <2>5. UNCHANGED <<up, toNode, trusted, spc, offer, source, current, received, handle, stale,
                    shared, files, fault>>
    BY <1>6 DEF Rename
  <2> QED
    BY <2>1, <2>2, <2>3, <2>4, <2>5 DEF TypeOK
<1> QED
  BY <1>2, <1>3, <1>4, <1>5, <1>6, OfferTypes
     DEF NodeStep, RejectChunk, FinishedFails, Rename, NodeEof

\* So do the faults.
LEMMA FaultTypes ==
    ASSUME TypeOK, OpenInv, NodeCrash \/ \E a \in Attempts : Faults(a)
    PROVE  TypeOK'
<1> USE DEF clientVars, diskVars, receiverVars
<1>1. <<>> \in Seq(Frames)
  BY SMT
<1>2. ASSUME NodeDies, files' \in [Attempts -> Seq(Nat)] PROVE TypeOK'
  <2>1. rpc' \in [Attempts -> ReceiverBusy \cup {"loop", "done", "failed"}]
    BY <1>2 DEF NodeDies, TypeOK
  <2>2. fault' \in [Attempts -> BOOLEAN]
    BY <1>2 DEF NodeDies, TypeOK
  <2>3. toNode' \in [Attempts -> Seq(Frames)] /\ up' \in [Attempts -> BOOLEAN]
    BY <1>1, <1>2 DEF NodeDies
  <2> QED
    BY <1>2, <2>1, <2>2, <2>3 DEF NodeDies, TypeOK
<1>3. CASE NodeCrash
  BY <1>2, <1>3 DEF NodeCrash, TypeOK
<1>4. ASSUME NEW a \in Attempts, LinkLoss(a) PROVE TypeOK'
  <2>1. toNode[a] \in Seq(Frames) /\ toClient[a] \in Seq(Frames)
    BY DEF TypeOK
  <2>2. PICK k \in 0..Len(toNode[a]) : toNode' = [toNode EXCEPT ![a] = SubSeq(@, 1, k)]
    BY <1>4 DEF LinkLoss
  <2>3. PICK m \in 0..Len(toClient[a]) : toClient' = [toClient EXCEPT ![a] = SubSeq(@, 1, m)]
    BY <1>4 DEF LinkLoss
  <2>4. SubSeq(toNode[a], 1, k) \in Seq(Frames) /\ SubSeq(toClient[a], 1, m) \in Seq(Frames)
    BY <2>1, Cut
  <2>5. toNode' \in [Attempts -> Seq(Frames)] /\ toClient' \in [Attempts -> Seq(Frames)]
    BY <2>2, <2>3, <2>4 DEF TypeOK
  <2> QED
    BY <1>4, <2>5 DEF LinkLoss, Fault, TypeOK
<1>5. ASSUME NEW a \in Attempts, CrashMidWrite(a) PROVE TypeOK'
  <2> DEFINE f == Head(toNode[a])
  <2>1. f.data \in Seq(Nat)
    BY <1>5, Heads, FrameFields DEF CrashMidWrite, AtNode
  <2>2. PICK k \in 1..(Len(f.data) - 1) :
          files' = [files EXCEPT ![handle[a]] =
                      WriteAt(@, f.index * ChunkSize, SubSeq(f.data, 1, k))]
    BY <1>5 DEF CrashMidWrite
  <2>3. k \in 0 .. Len(f.data)
    BY <2>1, SMT
  <2>4. SubSeq(f.data, 1, k) \in Seq(Nat)
    BY <2>1, <2>3, Cut
  <2>5. files' \in [Attempts -> Seq(Nat)]
    BY <1>5, <2>2, <2>4, WriteTypes DEF CrashMidWrite
  <2> QED
    BY <1>2, <1>5, <2>5 DEF CrashMidWrite
<1>6. ASSUME NEW a \in Attempts, Interject(a) PROVE TypeOK'
  <2>1. toClient' \in [Attempts -> Seq(Frames)]
    BY <1>6, StreamTypes, FramesBuilt DEF Interject
  <2> QED
    BY <1>6, <2>1 DEF Interject, Fault, TypeOK
<1>7. ASSUME NEW a \in Attempts, Corrupt(a) PROVE TypeOK'
  <2> DEFINE q == toNode[a]
             g == [q[1] EXCEPT !.intact = FALSE]
  <2>1. q \in Seq(Frames) /\ q # <<>> /\ Head(q).type = "Data"
    BY <1>7 DEF Corrupt, AtNode, TypeOK
  <2>2. q[1] \in Frames /\ q[1].type = "Data" /\ 1 \in 1 .. Len(q)
    BY <2>1, Taken
  <2>3. g \in Frames
    BY <2>2, FrameCorrupted
  <2>4. toNode' = [toNode EXCEPT ![a] = [q EXCEPT ![1] = g]]
    BY <1>7 DEF Corrupt
  <2> HIDE DEF g
  <2>5. [q EXCEPT ![1] = g] \in Seq(Frames)
    BY <2>1, <2>2, <2>3, SMT
  <2>6. toNode' \in [Attempts -> Seq(Frames)]
    BY <2>4, <2>5 DEF TypeOK
  <2> QED
    BY <1>7, <2>6 DEF Corrupt, Fault, TypeOK
<1>8. ASSUME NEW a \in Attempts, Edit(a) PROVE TypeOK'
  BY <1>8, ClientTypes
<1> QED
  BY <1>3, <1>4, <1>5, <1>6, <1>7, <1>8 DEF Faults

\* Every step keeps the types.
LEMMA TypeStep ==
    ASSUME TypeOK, OpenInv, [Next]_vars
    PROVE  TypeOK'
<1>1. CASE UNCHANGED vars
  BY <1>1 DEF vars, clientVars, diskVars, receiverVars, TypeOK
<1> QED
  BY <1>1, ClientTypes, NodeTypes, FaultTypes DEF Next

-----------------------------------------------------------------------------
(***************************************************************************)
(* Attempts, and receivers at work.                                        *)
(***************************************************************************)

\* What one attempt does, as opposed to the death of the node.
Acts(a) ==
    SendOffer(a) \/ ClientStep(a) \/ NodeStep(a) \/ LinkLoss(a) \/ Interject(a) \/ Corrupt(a) \/ Edit(a)

\* A step is a death of the node, or one attempt acts.
LEMMA Steps ==
    ASSUME Next
    PROVE  NodeDies \/ \E a \in Attempts : Acts(a)
BY DEF Next, NodeCrash, CrashMidWrite, Faults, Acts

\* An attempt that acts leaves the others alone, and no step changes what was offered.
LEMMA Others ==
    ASSUME TypeOK, NEW a \in Attempts, Acts(a), NEW b \in Attempts, b # a
    PROVE  /\ spc'[b] = spc[b] /\ rpc'[b] = rpc[b] /\ up'[b] = up[b]
           /\ toNode'[b] = toNode[b] /\ toClient'[b] = toClient[b] /\ handle'[b] = handle[b]
<1> USE DEF clientVars, diskVars, receiverVars, TypeOK, TakenByNode, TakenByClient, ToNode, ToClient
<1>1. CASE SendOffer(a)
  BY <1>1 DEF SendOffer
<1>2. ASSUME NEW i, SendNext(a, i)
      PROVE  spc'[b] = spc[b] /\ up'[b] = up[b] /\ toNode'[b] = toNode[b]
  BY <1>2 DEF SendNext
<1>3. CASE ReceiveAccept(a)
  BY <1>2, <1>3 DEF ReceiveAccept
<1>4. CASE ReceiveAck(a)
  BY <1>2, <1>4 DEF ReceiveAck
<1>5. CASE ReceiveComplete(a)
  BY <1>5 DEF ReceiveComplete
<1>6. CASE ClientFails(a)
  BY <1>6 DEF ClientFails
<1>7. CASE ReceiveOffer(a)
  BY <1>7 DEF ReceiveOffer
<1>8. CASE DropOffer(a)
  BY <1>8 DEF DropOffer
<1>9. CASE ReceiveData(a)
  BY <1>9 DEF ReceiveData
<1>10. CASE ReceiveFinished(a)
  BY <1>10 DEF ReceiveFinished
<1>11. CASE NodeFails(a)
  BY <1>11 DEF NodeFails
<1>12. CASE Rename(a) /\ part # None
  BY <1>12 DEF Rename
<1>13. CASE LinkLoss(a)
  BY <1>13 DEF LinkLoss
<1>14. CASE Interject(a)
  BY <1>14 DEF Interject
<1>15. CASE Corrupt(a)
  BY <1>15 DEF Corrupt
<1>16. CASE Edit(a)
  BY <1>16 DEF Edit
<1> QED
  BY <1>1, <1>3, <1>4, <1>5, <1>6, <1>7, <1>8, <1>9, <1>10, <1>11, <1>12, <1>13, <1>14,
     <1>15, <1>16, ZenonT(30)
     DEF Acts, ClientStep, NodeStep, RejectChunk, FinishedFails, Rename, NodeEof

\* The offer is made once.
LEMMA OfferStays ==
    ASSUME Next
    PROVE  offer' = offer
<1> USE DEF clientVars
<1>1. CASE NodeDies
  BY <1>1 DEF NodeDies
<1>2. ASSUME NEW a \in Attempts, Acts(a) PROVE offer' = offer
  BY <1>2 DEF Acts, SendOffer, ClientStep, NodeStep, ReceiveAccept, ReceiveAck, ReceiveComplete,
              ClientFails, ReceiveOffer, DropOffer, ReceiveData, RejectChunk, ReceiveFinished,
              FinishedFails, Rename, NodeEof, NodeFails, LinkLoss, Interject, Corrupt, Edit
<1> QED
  BY <1>1, <1>2, Steps

\* An attempt that acts has begun.
LEMMA Actor ==
    ASSUME TypeOK, IdleInv, NEW a \in Attempts, Acts(a)
    PROVE  /\ spc'[a] # "idle"
           /\ ~ SendOffer(a) => spc[a] # "idle"
<1> USE DEF clientVars, diskVars, receiverVars, SenderWaits, ReceiverBusy, IdleInv
<1>1. /\ spc \in [Attempts -> SenderWaits \cup {"idle", "done", "failed"}]
      /\ rpc \in [Attempts -> ReceiverBusy \cup {"loop", "done", "failed"}]
      /\ toNode \in [Attempts -> Seq(Frames)]
  BY DEF TypeOK
<1>2. CASE SendOffer(a)
  BY <1>1, <1>2 DEF SendOffer
<1>3. ASSUME NEW i, SendNext(a, i) PROVE spc'[a] # "idle"
  BY <1>1, <1>3 DEF SendNext
<1>4. CASE ReceiveAccept(a)
  BY <1>1, <1>3, <1>4 DEF ReceiveAccept
<1>5. CASE ReceiveAck(a)
  BY <1>1, <1>3, <1>5 DEF ReceiveAck
<1>6. CASE ReceiveComplete(a)
  BY <1>1, <1>6 DEF ReceiveComplete
<1>7. CASE ClientFails(a)
  BY <1>1, <1>7 DEF ClientFails
<1>8. CASE ReceiveOffer(a)
  BY <1>1, <1>8 DEF ReceiveOffer, AtNode
<1>9. CASE DropOffer(a)
  BY <1>1, <1>9 DEF DropOffer, AtNode
<1>10. CASE ReceiveData(a)
  BY <1>1, <1>10 DEF ReceiveData, AtNode
<1>11. CASE ReceiveFinished(a)
  BY <1>1, <1>11 DEF ReceiveFinished, AtNode
<1>12. CASE NodeFails(a) /\ rpc[a] \in ReceiverBusy
  BY <1>1, <1>12 DEF NodeFails
<1>13. CASE Rename(a) /\ part # None
  BY <1>1, <1>13 DEF Rename
<1>14. CASE LinkLoss(a)
  BY <1>1, <1>14 DEF LinkLoss
<1>15. CASE Interject(a)
  BY <1>1, <1>15 DEF Interject
<1>16. CASE Corrupt(a)
  BY <1>1, <1>16 DEF Corrupt, AtNode
<1>17. CASE Edit(a)
  BY <1>1, <1>17 DEF Edit
<1> QED
  BY <1>2, <1>4, <1>5, <1>6, <1>7, <1>8, <1>9, <1>10, <1>11, <1>12, <1>13, <1>14, <1>15,
     <1>16, <1>17, ZenonT(30)
     DEF Acts, ClientStep, NodeStep, RejectChunk, FinishedFails, Rename, NodeEof

\* Whoever has not begun has left no trace.
LEMMA IdleStep ==
    ASSUME TypeOK, IdleInv, Next
    PROVE  IdleInv'
<1>1. ASSUME NEW a \in Attempts, Acts(a) PROVE IdleInv'
  <2> SUFFICES ASSUME NEW b \in Attempts, spc'[b] = "idle"
               PROVE  /\ rpc'[b] = "loop" /\ ~ up'[b]
                      /\ toNode'[b] = <<>> /\ toClient'[b] = <<>>
    BY DEF IdleInv
  <2>1. b # a
    BY <1>1, Actor
  <2> QED
    BY <1>1, <2>1, Others DEF IdleInv
<1>2. CASE NodeDies
  <2> SUFFICES ASSUME NEW b \in Attempts, spc[b] = "idle"
               PROVE  /\ rpc'[b] = "loop" /\ ~ up'[b]
                      /\ toNode'[b] = <<>> /\ toClient'[b] = <<>>
    BY <1>2 DEF IdleInv, NodeDies, clientVars
  <2>1. ~ up[b] /\ rpc[b] = "loop" /\ toClient[b] = <<>>
    BY DEF IdleInv
  <2> QED
    BY <1>2, <2>1 DEF NodeDies, ReceiverBusy
<1> QED
  BY <1>1, <1>2, Steps

-----------------------------------------------------------------------------
(***************************************************************************)
(* Files and their names.                                                  *)
(***************************************************************************)

\* How a step changes the handler of an attempt and the names.
LEMMA NameSteps ==
    ASSUME TypeOK, Next
    PROVE  \/ \E a \in Attempts : ReceiveOffer(a)
           \/ \E a \in Attempts : Rename(a) /\ part # None
           \/ /\ UNCHANGED <<part, final, handle, stored, latest>>
              /\ \A b \in Attempts : \/ rpc'[b] \in {rpc[b], "failed"}
                                     \/ rpc[b] = "chunks" /\ ReceiveFinished(b)
<1> USE DEF clientVars, diskVars, receiverVars
<1>1. CASE NodeDies
  BY <1>1 DEF NodeDies
<1>2. ASSUME NEW a \in Attempts, SendOffer(a) \/ ClientStep(a) \/ LinkLoss(a) \/ Interject(a)
                                 \/ Corrupt(a) \/ Edit(a) \/ DropOffer(a) \/ ReceiveData(a)
      PROVE  UNCHANGED <<part, final, handle, stored, latest, rpc>>
  BY <1>2 DEF SendOffer, ClientStep, ReceiveAccept, ReceiveAck, ReceiveComplete, ClientFails,
              LinkLoss, Interject, Corrupt, Edit, DropOffer, ReceiveData
<1>3. ASSUME NEW a \in Attempts, NodeFails(a)
      PROVE  /\ UNCHANGED <<part, final, handle, stored, latest>>
             /\ \A b \in Attempts : rpc'[b] \in {rpc[b], "failed"}
  BY <1>3 DEF NodeFails, TypeOK
<1>4. ASSUME NEW a \in Attempts, ReceiveFinished(a)
      PROVE  /\ UNCHANGED <<part, final, handle, stored, latest>>
             /\ rpc[a] = "chunks" /\ \A b \in Attempts \ {a} : rpc'[b] = rpc[b]
  BY <1>4 DEF ReceiveFinished, TypeOK
<1>5. CASE \E a \in Attempts : Acts(a)
  <2>1. PICK a \in Attempts : Acts(a)
    BY <1>5
  <2>2. CASE SendOffer(a) \/ ClientStep(a) \/ LinkLoss(a) \/ Interject(a)
             \/ Corrupt(a) \/ Edit(a) \/ DropOffer(a) \/ ReceiveData(a)
    BY <1>2, <2>2
  <2>3. CASE NodeFails(a)
    BY <1>3, <2>3
  <2>4. CASE ReceiveFinished(a)
    BY <1>4, <2>4
  <2>5. CASE ReceiveOffer(a)
    BY <2>5
  <2>6. CASE Rename(a) /\ part # None
    BY <2>6
  <2> QED
    BY <2>1, <2>2, <2>3, <2>4, <2>5, <2>6
       DEF Acts, NodeStep, RejectChunk, FinishedFails, Rename, NodeEof
<1> QED
  BY <1>1, <1>5, Steps

\* When no two receivers were at work so far, an Offer is read while none is.
LEMMA Unshared ==
    ASSUME TypeOK, Next, ~ shared'
    PROVE  /\ ~ shared
           /\ \A a \in Attempts : ReceiveOffer(a) => \A b \in Attempts : rpc[b] \notin ReceiverBusy
<1>1. ASSUME NEW a \in Attempts, ReceiveOffer(a)
      PROVE  ~ shared /\ \A b \in Attempts : rpc[b] \notin ReceiverBusy
  <2>1. shared' = (shared \/ \E b \in Attempts : rpc[b] \in ReceiverBusy)
    BY <1>1 DEF ReceiveOffer
  <2> QED
    BY <2>1
<1>2. ASSUME NodeDies PROVE shared' = shared
  BY <1>2 DEF NodeDies, receiverVars
<1>3. ASSUME NEW a \in Attempts, Acts(a), ~ ReceiveOffer(a) PROVE shared' = shared
  BY <1>3 DEF Acts, SendOffer, ClientStep, NodeStep, ReceiveAccept, ReceiveAck, ReceiveComplete,
              ClientFails, DropOffer, ReceiveData, RejectChunk, ReceiveFinished,
              FinishedFails, Rename, NodeEof, NodeFails, LinkLoss, Interject, Corrupt, Edit, receiverVars
<1>4. ~ shared
  BY <1>1, <1>2, <1>3, Steps
<1> QED
  BY <1>1, <1>4

\* At most one receiver is at work until .part is shared.
LEMMA SingleStep ==
    ASSUME TypeOK, SingleInv, Next, ~ shared'
    PROVE  SingleInv'
<1> USE DEF ReceiverBusy
<1>1. ASSUME NEW a \in Attempts, ReceiveOffer(a) PROVE SingleInv'
  <2>1. rpc' = [rpc EXCEPT ![a] = "chunks"]
    BY <1>1 DEF ReceiveOffer
  <2>2. \A b \in Attempts : rpc[b] \notin ReceiverBusy
    BY <1>1, Unshared
  <2> QED
    BY <2>1, <2>2 DEF SingleInv, TypeOK
<1>2. ASSUME \A b \in Attempts : rpc'[b] \in ReceiverBusy => rpc[b] \in ReceiverBusy
      PROVE  SingleInv'
  BY <1>2 DEF SingleInv
<1>3. ASSUME NEW a \in Attempts, Rename(a), part # None PROVE SingleInv'
  <2>1. rpc' = [rpc EXCEPT ![a] = "done"]
    BY <1>3 DEF Rename
  <2> QED
    BY <1>2, <2>1 DEF TypeOK
<1> QED
  BY <1>1, <1>2, <1>3, NameSteps

\* The receiver at work has the .part file, and the final file is another one.
LEMMA DiskStep ==
    ASSUME TypeOK, SingleInv, DiskInv, Next, ~ shared'
    PROVE  DiskInv'
<1> USE DEF ReceiverBusy
<1>1. ASSUME NEW a \in Attempts, ReceiveOffer(a) PROVE DiskInv'
  <2> DEFINE opened == IF part = None THEN a ELSE part
  <2>1. /\ rpc[a] = "loop" /\ toNode[a] # <<>>
        /\ rpc' = [rpc EXCEPT ![a] = "chunks"]
        /\ part' = opened /\ final' = final
        /\ handle' = [handle EXCEPT ![a] = opened]
    BY <1>1 DEF ReceiveOffer, AtNode
  <2>2. opened # None /\ opened \in Attempts
    BY TransferConstants DEF TypeOK
  <2>3. opened # final
    BY <2>1, TransferConstants DEF DiskInv
  <2>4. rpc'[opened] # "loop" /\ (final # None => rpc'[final] # "loop")
    <3>1. \A b \in Attempts : rpc[b] # "loop" => rpc'[b] # "loop"
      BY <2>1 DEF TypeOK
    <3>2. rpc'[a] # "loop"
      BY <2>1 DEF TypeOK
    <3> QED
      BY <3>1, <3>2 DEF DiskInv, TypeOK
  <2>5. ASSUME NEW b \in Attempts, rpc'[b] \in ReceiverBusy PROVE handle'[b] = opened
    <3>1. CASE b = a
      BY <2>1, <3>1 DEF TypeOK
    <3>2. CASE b # a
      <4>1. rpc[b] \notin ReceiverBusy
        BY <1>1, Unshared
      <4> QED
        BY <2>1, <2>5, <3>2, <4>1 DEF TypeOK
    <3> QED
      BY <3>1, <3>2
  <2> HIDE DEF opened
  <2> QED
    BY <2>1, <2>2, <2>3, <2>4, <2>5 DEF DiskInv
<1>2. ASSUME NEW a \in Attempts, Rename(a), part # None PROVE DiskInv'
  <2>1. /\ rpc[a] = "renaming" /\ final' = part /\ part' = None
        /\ rpc' = [rpc EXCEPT ![a] = "done"]
    BY <1>2 DEF Rename
  <2>2. \A b \in Attempts : rpc'[b] \notin ReceiverBusy
    BY <2>1 DEF TypeOK, SingleInv
  <2>3. rpc'[part] # "loop"
    BY <1>2, <2>1 DEF DiskInv, TypeOK
  <2> QED
    BY <2>1, <2>2, <2>3 DEF DiskInv
<1>3. CASE /\ UNCHANGED <<part, final, handle, stored, latest>>
           /\ \A b \in Attempts : \/ rpc'[b] \in {rpc[b], "failed"}
                                  \/ rpc[b] = "chunks" /\ ReceiveFinished(b)
  <2>1. ASSUME NEW b \in Attempts, rpc'[b] \in ReceiverBusy PROVE rpc[b] \in ReceiverBusy
    BY <1>3, <2>1
  <2>2. ASSUME NEW b \in Attempts, rpc[b] # "loop" PROVE rpc'[b] # "loop"
    BY <1>3, <2>2 DEF ReceiveFinished, TypeOK
  <2> QED
    BY <1>3, <2>1, <2>2 DEF DiskInv, TypeOK
<1> QED
  BY <1>1, <1>2, <1>3, NameSteps

\* A receiver has a file from its Offer on, whoever else is at work.
LEMMA OpenStep ==
    ASSUME TypeOK, OpenInv, Next
    PROVE  OpenInv'
<1> USE DEF ReceiverBusy
<1>1. ASSUME NEW a \in Attempts, ReceiveOffer(a) PROVE OpenInv'
  <2> DEFINE opened == IF part = None THEN a ELSE part
  <2>1. rpc' = [rpc EXCEPT ![a] = "chunks"] /\ handle' = [handle EXCEPT ![a] = opened]
    BY <1>1 DEF ReceiveOffer
  <2>2. opened # None
    BY TransferConstants
  <2> HIDE DEF opened
  <2> QED
    BY <2>1, <2>2 DEF OpenInv, TypeOK
<1>2. ASSUME NEW a \in Attempts, Rename(a), part # None PROVE OpenInv'
  <2>1. rpc' = [rpc EXCEPT ![a] = "done"] /\ UNCHANGED handle
    BY <1>2 DEF Rename, receiverVars
  <2> QED
    BY <2>1 DEF OpenInv, TypeOK
<1>3. CASE /\ UNCHANGED <<part, final, handle, stored, latest>>
           /\ \A b \in Attempts : \/ rpc'[b] \in {rpc[b], "failed"}
                                  \/ rpc[b] = "chunks" /\ ReceiveFinished(b)
  BY <1>3 DEF OpenInv
<1> QED
  BY <1>1, <1>2, <1>3, NameSteps

\* The node writes to a file when it reads an Offer or a chunk.
LEMMA WrittenBy ==
    ASSUME NEW a \in Attempts, Acts(a), ~ ReceiveOffer(a), ~ ReceiveData(a)
    PROVE  files' = files
BY DEF Acts, SendOffer, ClientStep, NodeStep, ReceiveAccept, ReceiveAck, ReceiveComplete,
       ClientFails, DropOffer, RejectChunk, ReceiveFinished,
       FinishedFails, Rename, NodeEof, NodeFails, LinkLoss, Interject, Corrupt, Edit, diskVars

\* It never writes under the final name.
LEMMA Writes ==
    ASSUME TypeOK, DiskInv, Next
    PROVE  /\ final # None => files'[final] = files[final]
           /\ \/ files' = files
              \/ \E a \in Attempts : ReceiveOffer(a) \/ rpc[a] = "chunks"
<1> USE DEF clientVars, diskVars, receiverVars
<1>1. ASSUME NEW a \in Attempts, NEW g \in Attempts, g # final, NEW x,
             files' = [files EXCEPT ![g] = x]
      PROVE  final # None => files'[final] = files[final]
  BY <1>1 DEF TypeOK
<1>2. ASSUME NEW a \in Attempts, ReceiveOffer(a)
      PROVE  final # None => files'[final] = files[final]
  <2> DEFINE opened == IF part = None THEN a ELSE part
  <2>1. opened \in Attempts /\ opened # final
    BY <1>2, TransferConstants DEF ReceiveOffer, DiskInv, TypeOK
  <2> HIDE DEF opened
  <2>2. \E x : files' = [files EXCEPT ![opened] = x]
    BY <1>2 DEF ReceiveOffer, opened
  <2> QED
    BY <1>1, <2>1, <2>2
<1>3. ASSUME NEW a \in Attempts, ReceiveData(a) \/ CrashMidWrite(a)
      PROVE  (final # None => files'[final] = files[final]) /\ rpc[a] = "chunks"
  <2>1. rpc[a] = "chunks"
    BY <1>3 DEF ReceiveData, CrashMidWrite
  <2>2. handle[a] \in Attempts /\ handle[a] # final
    <3>1. handle[a] = part /\ part # None /\ part # final
      BY <2>1 DEF DiskInv, ReceiverBusy
    <3> QED
      BY <3>1 DEF TypeOK
  <2>3. \E x : files' = [files EXCEPT ![handle[a]] = x]
    BY <1>3 DEF ReceiveData, CrashMidWrite
  <2> QED
    BY <1>1, <2>1, <2>2, <2>3
<1>4. CASE NodeCrash
  BY <1>4 DEF NodeCrash
<1>5. ASSUME NEW a \in Attempts, Acts(a), ~ ReceiveOffer(a), ~ ReceiveData(a) PROVE files' = files
  BY <1>5, WrittenBy
<1>6. NodeCrash \/ \E a \in Attempts : Acts(a) \/ CrashMidWrite(a)
  BY DEF Next, Faults, Acts
<1> QED
  BY <1>2, <1>3, <1>4, <1>5, <1>6

\* Nothing is written between the comparison of the root hash and the rename.
LEMMA RenameStep ==
    ASSUME TypeOK, SingleInv, DiskInv, RenameInv, Next, ~ shared'
    PROVE  RenameInv'
<1> SUFFICES ASSUME NEW b \in Attempts, rpc'[b] = "renaming"
             PROVE  files'[handle'[b]] = Content[offer[b]]
  BY OfferStays DEF RenameInv
<1>1. ASSUME NEW a \in Attempts, ReceiveOffer(a) \/ (Rename(a) /\ part # None) PROVE FALSE
  <2>1. rpc'[a] # "renaming" /\ (b # a => rpc'[b] = rpc[b])
    BY <1>1, ZenonT(30) DEF ReceiveOffer, Rename, TypeOK
  <2>2. rpc[b] = "renaming" /\ b # a
    BY <2>1
  <2>3. CASE ReceiveOffer(a)
    BY <2>2, <2>3, Unshared DEF ReceiverBusy
  <2>4. CASE Rename(a)
    BY <2>2, <2>4 DEF Rename, SingleInv, ReceiverBusy
  <2> QED
    BY <1>1, <2>3, <2>4
<1>2. UNCHANGED <<part, final, handle, stored, latest>> /\ (rpc[b] = "renaming" \/ ReceiveFinished(b))
  BY <1>1, NameSteps
<1>3. CASE ReceiveFinished(b)
  BY <1>2, <1>3 DEF ReceiveFinished, verify, diskVars
<1>4. CASE rpc[b] = "renaming"
  <2>1. files' = files
    <3>1. \A a \in Attempts : ~ ReceiveOffer(a)
      BY <1>4, Unshared DEF ReceiverBusy
    <3>2. \A a \in Attempts : rpc[a] # "chunks"
      BY <1>4 DEF SingleInv, ReceiverBusy
    <3> QED
      BY <3>1, <3>2, Writes
  <2> QED
    BY <1>2, <1>4, <2>1 DEF RenameInv
<1> QED
  BY <1>2, <1>3, <1>4

\* What gets the final name was compared with the manifest of its attempt.
LEMMA LatestStep ==
    ASSUME TypeOK, DiskInv, RenameInv, LatestInv, Next
    PROVE  LatestInv'
<1>1. CASE final' = final /\ latest' = latest
  BY <1>1, Writes, OfferStays DEF LatestInv
<1>2. ASSUME NEW a \in Attempts, Rename(a), part # None PROVE LatestInv'
  <2>1. final' = part /\ latest' = a /\ files' = files /\ rpc[a] = "renaming"
    BY <1>2 DEF Rename
  <2>2. handle[a] = part /\ files[handle[a]] = Content[offer[a]]
    BY <2>1 DEF DiskInv, RenameInv, ReceiverBusy
  <2>3. a # None
    BY TransferConstants
  <2> QED
    BY <1>2, <2>1, <2>2, <2>3, OfferStays DEF LatestInv
<1> QED
  BY <1>1, <1>2, NameSteps DEF ReceiveOffer

-----------------------------------------------------------------------------
(***************************************************************************)
(* The Complete message.                                                   *)
(***************************************************************************)

\* Frames that a step adds to the client's stream are no Complete, but for Rename's.
LEMMA ClientStream ==
    ASSUME TypeOK, Next, NEW b \in Attempts, NEW i \in 1 .. Len(toClient'[b]),
           toClient'[b][i].type = "Complete"
    PROVE  \/ \E j \in 1 .. Len(toClient[b]) : toClient[b][j].type = "Complete"
           \/ Rename(b) /\ part # None
<1> USE DEF clientVars
<1> DEFINE Before == \E j \in 1 .. Len(toClient[b]) : toClient[b][j].type = "Complete"
<1>1. toClient \in [Attempts -> Seq(Frames)] /\ toClient[b] \in Seq(Frames)
  BY DEF TypeOK
<1>2. CASE toClient'[b] = toClient[b]
  BY <1>2
<1>3. ASSUME toClient[b] # <<>>, toClient'[b] = Tail(toClient[b]) PROVE Before
  <2>1. i \in 1 .. Len(Tail(toClient[b]))
    BY <1>3
  <2>2. i + 1 \in 1 .. Len(toClient[b]) /\ Tail(toClient[b])[i] = toClient[b][i + 1]
    BY <1>1, <1>3, <2>1, Taken
  <2> QED
    BY <1>3, <2>2
<1>4. ASSUME NEW k \in 0 .. Len(toClient[b]), toClient'[b] = SubSeq(toClient[b], 1, k)
      PROVE  Before
  <2>1. i \in 1 .. Len(SubSeq(toClient[b], 1, k))
    BY <1>4
  <2>2. i \in 1 .. Len(toClient[b]) /\ SubSeq(toClient[b], 1, k)[i] = toClient[b][i]
    BY <1>1, <2>1, Cut
  <2> QED
    BY <1>4, <2>2
<1>5. ASSUME NEW f \in Frames, f.type # "Complete", toClient'[b] = Append(toClient[b], f)
      PROVE  Before
  <2>1. i \in 1 .. Len(Append(toClient[b], f))
    BY <1>5
  <2>2. \/ Append(toClient[b], f)[i] = f
        \/ i \in 1 .. Len(toClient[b]) /\ Append(toClient[b], f)[i] = toClient[b][i]
    <3>1. \A k \in 1 .. Len(Append(toClient[b], f)) :
            \/ Append(toClient[b], f)[k] = f
            \/ k \in 1 .. Len(toClient[b]) /\ Append(toClient[b], f)[k] = toClient[b][k]
      BY <1>1, Added, SMT
    <3> QED
      BY <2>1, <3>1
  <2> QED
    BY <1>5, <2>2
<1>6. CASE toClient'[b] = <<>>
  BY <1>6, SMT
<1>8. CASE NodeDies
  BY <1>2, <1>8 DEF NodeDies
<1>9. ASSUME NEW a \in Attempts, Acts(a), a # b PROVE Before
  BY <1>2, <1>9, Others
<1>10. CASE Acts(b)
  <2>1. CASE SendOffer(b) \/ DropOffer(b) \/ ReceiveFinished(b) \/ NodeFails(b) \/ Corrupt(b) \/ Edit(b)
    BY <1>2, <2>1 DEF SendOffer, DropOffer, ReceiveFinished, NodeFails, Corrupt, Edit
  <2>2. CASE ReceiveAccept(b) \/ ReceiveAck(b) \/ ReceiveComplete(b)
    BY <1>1, <1>3, <2>2 DEF ReceiveAccept, ReceiveAck, ReceiveComplete, AtClient, TakenByClient
  <2>3. CASE ClientFails(b)
    BY <1>1, <1>6, <2>3 DEF ClientFails
  <2>4. CASE LinkLoss(b)
    BY <1>1, <1>4, <2>4 DEF LinkLoss
  <2>5. ASSUME NEW f \in Frames, f.type # "Complete", ToClient(b, f) PROVE Before
    BY <1>1, <1>2, <1>5, <2>5 DEF ToClient
  <2>6. CASE Interject(b)
    <3>1. [type |-> "Clipboard"] \in Frames /\ [type |-> "Clipboard"].type # "Complete"
      BY FramesBuilt
    <3> QED
      BY <2>5, <2>6, <3>1 DEF Interject
  <2>7. CASE ReceiveOffer(b) \/ ReceiveData(b)
    <3>1. \E t \in {"Accept", "Ack"} : \E n : ToClient(b, [type |-> t, index |-> n])
      BY <2>7 DEF ReceiveOffer, ReceiveData
    <3>2. PICK t \in {"Accept", "Ack"} : \E n : ToClient(b, [type |-> t, index |-> n])
      BY <3>1
    <3>3. PICK n : ToClient(b, [type |-> t, index |-> n])
      BY <3>2
    <3> DEFINE f == [type |-> t, index |-> n]
    <3>4. f.type # "Complete"
      OBVIOUS
    <3> HIDE DEF f
    <3>5. CASE ~ up[b]
      BY <1>1, <1>2, <3>3, <3>5 DEF ToClient, f
    <3>6. CASE up[b]
      <4>1. toClient'[b] = Append(toClient[b], f)
        BY <1>1, <3>3, <3>6 DEF ToClient, f
      <4> QED
        BY <1>1, <3>4, <4>1, SMT
    <3> QED
      BY <3>5, <3>6
  <2> QED
    BY <1>10, <2>1, <2>2, <2>3, <2>4, <2>6, <2>7
       DEF Acts, ClientStep, NodeStep, RejectChunk, FinishedFails, Rename, NodeEof
<1> QED
  BY <1>8, <1>9, <1>10, Steps

\* Who is sent Complete has been stored.
LEMMA CompleteStep ==
    ASSUME TypeOK, CompleteInv, Next
    PROVE  CompleteInv'
<1> SUFFICES ASSUME NEW b \in Attempts, NEW i \in 1 .. Len(toClient'[b]),
                    toClient'[b][i].type = "Complete"
             PROVE  b \in stored'
  BY DEF CompleteInv
<1>1. CASE Rename(b) /\ part # None
  BY <1>1 DEF Rename
<1>2. stored \subseteq stored'
  BY NameSteps DEF ReceiveOffer, Rename
<1>3. CASE \E j \in 1 .. Len(toClient[b]) : toClient[b][j].type = "Complete"
  BY <1>2, <1>3 DEF CompleteInv
<1> QED
  BY <1>1, <1>3, ClientStream

-----------------------------------------------------------------------------
(***************************************************************************)
(* The theorems.                                                           *)
(***************************************************************************)

\* The invariant holds at first.
LEMMA InvInit == Init => Inv
<1> SUFFICES ASSUME Init PROVE Inv
  OBVIOUS
<1>1. <<>> \in Seq(Frames) /\ <<>> \in Seq(Nat) /\ 0 \in Nat
  BY SMT
<1>2. TypeOK
  BY <1>1 DEF Init, TypeOK
<1>3. OpenInv /\ IdleInv
  BY DEF Init, OpenInv, IdleInv, ReceiverBusy
<1>4. SingleInv /\ DiskInv
  BY DEF Init, SingleInv, DiskInv, ReceiverBusy
<1>5. RenameInv /\ LatestInv
  BY DEF Init, RenameInv, LatestInv
<1>6. CompleteInv
  <2>1. \A a \in Attempts : 1 .. Len(toClient[a]) = {}
    <3>1. 1 .. Len(<<>>) = {}
      BY SMT
    <3> QED
      BY <3>1 DEF Init
  <2> QED
    BY <2>1 DEF CompleteInv
<1> QED
  BY <1>2, <1>3, <1>4, <1>5, <1>6 DEF Inv

\* Every step preserves it.
LEMMA InvStep == Inv /\ [Next]_vars => Inv'
<1>1. CASE UNCHANGED vars
  <2>1. Inv => Inv'
    BY <1>1 DEF vars, clientVars, diskVars, receiverVars, Inv, TypeOK, OpenInv, SingleInv, IdleInv,
                DiskInv, RenameInv, LatestInv, CompleteInv
  <2> QED
    BY <2>1
<1>2. ASSUME Inv, Next PROVE Inv'
  <2>1. TypeOK' /\ OpenInv' /\ IdleInv' /\ CompleteInv'
    BY <1>2, TypeStep, OpenStep, IdleStep, CompleteStep DEF Inv
  <2>2. ASSUME ~ shared' PROVE SingleInv' /\ DiskInv' /\ RenameInv' /\ LatestInv'
    <3>1. TypeOK /\ SingleInv /\ DiskInv /\ RenameInv /\ LatestInv
      BY <1>2, <2>2, Unshared DEF Inv
    <3> QED
      BY <1>2, <2>2, <3>1, SingleStep, DiskStep, RenameStep, LatestStep
  <2> QED
    BY <2>1, <2>2 DEF Inv
<1> QED
  BY <1>1, <1>2

\* The invariant holds in every state, however attempts overlap.
THEOREM TransferInvariant == Spec => []Inv
BY InvInit, InvStep, PTL DEF Spec

\* The variables keep their types: every frame is well formed, every file is a sequence
\* of bytes and every index a natural number, for any chunk size and any files, however
\* many attempts are under way (receive_chunk writes to the file that to_dir opened).
THEOREM TransferTypeCorrect == Spec => []TypeOK
<1>1. Inv => TypeOK
  BY DEF Inv
<1> QED
  BY <1>1, TransferInvariant, PTL

\* Until two receivers have had the .part file open at the same time, the file under its
\* final name is, byte for byte, what the attempt stored last offered (finalize_file
\* compares the root hash, and nothing is written to the file afterwards).
THEOREM FinalIsOffered == Spec => []FinalVerified
<1>1. Inv => FinalVerified
  BY DEF Inv, LatestInv, FinalVerified
<1> QED
  BY <1>1, TransferInvariant, PTL

\* When a client reports success its file has been put in place, and unless a later
\* attempt has replaced it or two receivers have had the .part file open at the same time
\* it is there as it was offered (handle_file_transfer sends Complete after the rename).
THEOREM SuccessMeansStored == Spec => CompleteMeansStored
<1>1. ASSUME Inv, [Next]_vars, NEW a \in Attempts, spc[a] # "done", spc'[a] = "done", ~ shared
      PROVE  /\ a \in stored
             /\ latest = a => final # None /\ files[final] = Content[offer[a]]
  <2>1. Next
    BY <1>1 DEF vars, clientVars
  <2>2. Acts(a)
    <3>1. ~ NodeDies
      BY <1>1 DEF NodeDies, clientVars
    <3>2. \A b \in Attempts : Acts(b) => b = a
      BY <1>1, Others DEF Inv
    <3> QED
      BY <2>1, <3>1, <3>2, Steps
  <2>3. ReceiveComplete(a)
    <3>1. spc \in [Attempts -> SenderWaits \cup {"idle", "done", "failed"}]
      BY <1>1 DEF Inv, TypeOK
    <3>2. \A i : ~ SendNext(a, i)
      BY <1>1, <3>1 DEF SendNext
    <3> QED
      BY <1>1, <2>2, <3>1, <3>2
         DEF Acts, SendOffer, ClientStep, NodeStep, ReceiveAccept, ReceiveAck,
             ClientFails, ReceiveOffer, DropOffer, ReceiveData, RejectChunk, ReceiveFinished,
             FinishedFails, Rename, NodeEof, NodeFails, LinkLoss, Interject, Corrupt, Edit, clientVars
  <2>4. /\ spc[a] \in SenderWaits /\ toClient[a] # <<>> /\ toClient[a] \in Seq(Frames)
        /\ Head(toClient[a]).type = "Complete"
    BY <1>1, <2>3 DEF ReceiveComplete, AtClient, SenderWaits, Inv, TypeOK
  <2>5. 1 \in 1 .. Len(toClient[a]) /\ toClient[a][1].type = "Complete"
    BY <2>4, Taken
  <2>6. a \in stored
    BY <1>1, <2>5 DEF Inv, CompleteInv
  <2>7. ASSUME latest = a PROVE final # None /\ files[final] = Content[offer[a]]
    <3>1. latest # None
      BY <2>7, TransferConstants
    <3> QED
      BY <1>1, <2>7, <3>1 DEF Inv, LatestInv
  <2> QED
    BY <2>6, <2>7
<1>2. Inv /\ [Next]_vars =>
        [\A a \in Attempts : spc[a] # "done" /\ spc'[a] = "done" /\ ~ shared
           => /\ a \in stored
              /\ latest = a => final # None /\ files[final] = Content[offer[a]]]_vars
  BY <1>1
<1> QED
  BY <1>2, TransferInvariant, PTL DEF Spec, CompleteMeansStored

-----------------------------------------------------------------------------
(***************************************************************************)
(* The conversation of an attempt that nothing happened to.                *)
(***************************************************************************)

\* The first n chunks of the offered file, and chunk i as next_chunk sends it.
Chunks(a, n) == SubSeq(Content[offer[a]], 1, MinOf(n * ChunkSize, total_size(a)))
Chunk(a, i) == [type |-> "Data", index |-> i, intact |-> TRUE,
                data |-> SubSeq(Content[offer[a]], i * ChunkSize + 1, i * ChunkSize + expected_chunk_size(a, i))]

\* The receiver has exactly the first n chunks.
Has(a, n) ==
    /\ n \in 0 .. total_chunks(a)
    /\ received[a] = 0 .. (n - 1)
    /\ files[handle[a]] = Chunks(a, n)

\* The seven phases of the conversation; one frame at most is in flight. The Offer is
\* on its way, or the trust gate has dropped it.
Offered(a) ==
    /\ spc[a] = "awaitAccept" /\ rpc[a] = "loop" /\ toClient[a] = <<>>
    /\ toNode[a] \in {<<[type |-> "Offer"]>>, <<>>}

\* The Accept asks for the first chunk that is missing.
Resumed(a) ==
    /\ spc[a] = "awaitAccept" /\ rpc[a] = "chunks" /\ toNode[a] = <<>>
    /\ \E n \in Nat : Has(a, n) /\ toClient[a] = <<[type |-> "Accept", index |-> n]>>

\* That chunk is on its way.
Sent(a) ==
    /\ spc[a] = "awaitAck" /\ rpc[a] = "chunks" /\ toClient[a] = <<>>
    /\ \E n \in Nat : /\ Has(a, n) /\ n < total_chunks(a) /\ current[a] = n + 1
                      /\ toNode[a] = <<Chunk(a, n)>>

\* Its Ack is on its way.
Acked(a) ==
    /\ spc[a] = "awaitAck" /\ rpc[a] = "chunks" /\ toNode[a] = <<>>
    /\ \E n \in Nat : /\ Has(a, n + 1) /\ current[a] = n + 1
                      /\ toClient[a] = <<[type |-> "Ack", index |-> n]>>

\* Nothing is missing, and the Finished message is on its way.
Finishing(a) ==
    /\ spc[a] = "awaitComplete" /\ rpc[a] = "chunks" /\ toClient[a] = <<>>
    /\ Has(a, total_chunks(a)) /\ toNode[a] = <<[type |-> "Finished"]>>

\* The file has been verified.
Renaming(a) ==
    /\ spc[a] = "awaitComplete" /\ rpc[a] = "renaming" /\ toClient[a] = <<>> /\ toNode[a] = <<>>

\* The file is in place, and the Complete message is on its way.
Completed(a) ==
    /\ spc[a] = "awaitComplete" /\ rpc[a] = "done" /\ toNode[a] = <<>>
    /\ toClient[a] = <<[type |-> "Complete"]>>

\* The connection is up, the file is as it was offered, and the two sides agree on the phase.
Talking(a) ==
    /\ up[a] /\ source[a] = offer[a]
    /\ Offered(a) \/ Resumed(a) \/ Sent(a) \/ Acked(a) \/ Finishing(a) \/ Renaming(a) \/ Completed(a)

\* The attempt's Offer was not over foreign bytes, and its file is what it offered.
FreshInv ==
    \A a \in Attempts : /\ rpc[a] = "loop" => ~ stale[a]
                        /\ spc[a] = "idle" => source[a] = offer[a]

\* Without a fault, and without foreign bytes, an attempt is not begun, done or talking;
\* it is shown to hold until .part is shared.
TalkInv == \A a \in Attempts : ~ fault[a] /\ ~ stale[a] => spc[a] \in {"idle", "done"} \/ Talking(a)

-----------------------------------------------------------------------------
(***************************************************************************)
(* The chunks of a file lie end to end.                                    *)
(***************************************************************************)

\* Sequences are equal when their elements are.
LEMMA SameBytes ==
    ASSUME NEW s \in Seq(Nat), NEW t \in Seq(Nat), Len(s) = Len(t), \A i \in 1 .. Len(s) : s[i] = t[i]
    PROVE  s = t
BY SMT

\* The bytes of a piece of a file.
LEMMA PieceBytes ==
    ASSUME NEW f \in Seq(Nat), NEW m \in Nat, NEW k \in Nat, m + k <= Len(f)
    PROVE  /\ SubSeq(f, m + 1, m + k) \in Seq(Nat)
           /\ Len(SubSeq(f, m + 1, m + k)) = k
           /\ \A i \in 1 .. k : SubSeq(f, m + 1, m + k)[i] = f[m + i]
<1> DEFINE from == m + 1
           to == m + k
<1>1. from \in Nat /\ from # 0 /\ to \in Nat /\ to <= Len(f) /\ from <= to + 1 /\ to - from + 1 = k
  BY SMT
<1>2. \A i \in 1 .. k : from + i - 1 = m + i
  BY SMT
<1> HIDE DEF from, to
<1>3. SubSeq(f, from, to) \in Seq(Nat) /\ Len(SubSeq(f, from, to)) = to - from + 1
  BY <1>1, SMT
<1>4. ASSUME NEW i \in 1 .. k PROVE SubSeq(f, from, to)[i] = f[m + i]
  <2>1. i \in 1 .. to - from + 1
    BY <1>1
  <2>2. SubSeq(f, from, to)[i] = f[from + i - 1]
    BY <1>1, <2>1, SMT
  <2> QED
    BY <1>2, <2>2
<1>5. Len(SubSeq(f, from, to)) = k
  BY <1>1, <1>3
<1> QED
  BY <1>3, <1>4, <1>5 DEF from, to

\* Multiplication by the chunk size is monotonic.
LEMMA Scaled ==
    ASSUME NEW i \in Nat, NEW j \in Nat, i <= j
    PROVE  i * ChunkSize \in Nat /\ i * ChunkSize <= j * ChunkSize
<1>1. ChunkSize \in Nat /\ ChunkSize > 0
  BY TransferConstants, SMT
<1> QED
  BY <1>1, SMT

\* The offset of the next chunk.
LEMMA NextOffset ==
    ASSUME NEW i \in Nat
    PROVE  i * ChunkSize \in Nat /\ (i + 1) * ChunkSize = i * ChunkSize + ChunkSize
<1>1. ChunkSize \in Nat /\ ChunkSize > 0
  BY TransferConstants, SMT
<1> QED
  BY <1>1, SMT

\* Quotient and remainder.
LEMMA Divided ==
    ASSUME NEW x \in Nat
    PROVE  /\ x \div ChunkSize \in Nat /\ x % ChunkSize \in Nat
           /\ x = (x \div ChunkSize) * ChunkSize + (x % ChunkSize)
           /\ (x % ChunkSize) < ChunkSize
<1>1. ChunkSize \in Nat /\ ChunkSize > 0
  BY TransferConstants, SMT
<1>2. x \div ChunkSize \in Nat /\ x % ChunkSize \in Nat
  BY <1>1, SMT
<1>3. (x % ChunkSize) < ChunkSize
  BY <1>1, SMT
<1>4. x = (x \div ChunkSize) * ChunkSize + (x % ChunkSize)
  BY <1>1, SMT
<1> QED
  BY <1>2, <1>3, <1>4

\* They are the only ones.
LEMMA DividedOnce ==
    ASSUME NEW i \in Nat, NEW r \in Nat, NEW j \in Nat, NEW s \in Nat,
           i * ChunkSize + r = j * ChunkSize + s, r < ChunkSize, s < ChunkSize
    PROVE  i = j /\ r = s
<1>1. ChunkSize \in Nat /\ ChunkSize > 0 /\ i * ChunkSize \in Nat /\ j * ChunkSize \in Nat
  BY TransferConstants, SMT
<1>2. ASSUME i < j PROVE FALSE
  <2>1. i + 1 \in Nat /\ i + 1 <= j
    BY <1>2, SMT
  <2>2. (i + 1) * ChunkSize <= j * ChunkSize /\ (i + 1) * ChunkSize = i * ChunkSize + ChunkSize
    BY <2>1, Scaled, NextOffset, SMT
  <2> QED
    BY <1>1, <2>2, SMT
<1>3. ASSUME j < i PROVE FALSE
  <2>1. j + 1 \in Nat /\ j + 1 <= i
    BY <1>3, SMT
  <2>2. (j + 1) * ChunkSize <= i * ChunkSize /\ (j + 1) * ChunkSize = j * ChunkSize + ChunkSize
    BY <2>1, Scaled, NextOffset, SMT
  <2> QED
    BY <1>1, <2>2, SMT
<1>4. i = j
  BY <1>2, <1>3, SMT
<1> QED
  BY <1>1, <1>4, SMT

\* Where chunk n lies in the file: the last one ends with it, the others are whole.
LEMMA Layout ==
    ASSUME TypeOK, NEW a \in Attempts, NEW n \in Nat, n < total_chunks(a)
    PROVE  /\ n * ChunkSize \in Nat /\ n * ChunkSize < total_size(a) /\ expected_chunk_size(a, n) \in Nat
           /\ n * ChunkSize + expected_chunk_size(a, n) <= total_size(a)
           /\ MinOf(n * ChunkSize, total_size(a)) = n * ChunkSize
           /\ MinOf((n + 1) * ChunkSize, total_size(a)) = n * ChunkSize + expected_chunk_size(a, n)
<1> DEFINE C == ChunkSize
           L == total_size(a)
           T == total_chunks(a)
           e == expected_chunk_size(a, n)
<1>1. /\ C \in Nat /\ C > 0 /\ L \in Nat /\ T \in Nat /\ e \in Nat
      /\ n * C \in Nat
  BY TransferConstants, ChunkArithmetic, SMT
<1>2. PICK r \in Nat : L + C - 1 = T * C + r /\ r < C
  <2> DEFINE x == L + C - 1
  <2>1. x \in Nat
    BY <1>1, SMT
  <2>2. T = x \div C
    BY DEF total_chunks, calculate_total_chunks
  <2> HIDE DEF x, T
  <2>3. x = (x \div C) * C + (x % C) /\ (x % C) \in Nat /\ (x % C) < C
    BY <2>1, Divided
  <2> QED
    BY <2>2, <2>3 DEF x
<1>3. /\ n + 1 \in Nat /\ n + 1 <= T
  BY <1>1, SMT
<1>4. (n + 1) * C <= T * C /\ (n + 1) * C = n * C + C /\ T * C \in Nat /\ (n + 1) * C \in Nat
  <2>1. (n + 1) * C <= T * C /\ (n + 1) * C \in Nat
    BY <1>1, <1>3, Scaled
  <2>2. (n + 1) * C = n * C + C /\ T * C \in Nat
    BY <1>1, NextOffset
  <2> QED
    BY <2>1, <2>2
<1>5. e = IF n = T - 1 /\ L % C # 0 THEN L % C ELSE C
  BY DEF expected_chunk_size
<1>6. PICK q \in Nat : L = q * C + (L % C) /\ L % C \in Nat /\ L % C < C
  BY <1>1, Divided
<1>7. q * C \in Nat
  BY <1>1, SMT
<1> HIDE DEF C, L, T, e
<1>8. n * C < L
  BY <1>1, <1>2, <1>4, SMT
<1>9. CASE n # T - 1
  <2>1. (n + 1) + 1 <= T /\ (n + 1) \in Nat
    BY <1>1, <1>3, <1>9, SMT
  <2>2. (n + 1) + 1 \in Nat
    BY <2>1, SMT
  <2>3. ((n + 1) + 1) * C <= T * C /\ ((n + 1) + 1) * C = (n + 1) * C + C
    <3>1. ((n + 1) + 1) * C <= T * C
      BY <1>1, <2>1, <2>2, Scaled DEF C
    <3>2. ((n + 1) + 1) * C = (n + 1) * C + C
      BY <2>1, NextOffset DEF C
    <3> QED
      BY <3>1, <3>2
  <2>4. (n + 1) * C <= L /\ e = C
    BY <1>1, <1>2, <1>4, <1>5, <1>9, <2>3, SMTT(60)
  <2>5. MinOf(n * C, L) = n * C /\ MinOf((n + 1) * C, L) = n * C + e /\ n * C + e <= L
    BY <1>1, <1>4, <1>8, <2>4, SMT DEF MinOf
  <2> QED
    BY <1>1, <1>8, <2>5 DEF C, L, e
<1>10. CASE n = T - 1
  <2>1. n + 1 = T
    BY <1>1, <1>10, SMT
  <2>2. L <= (n + 1) * C
    BY <1>1, <1>2, <1>4, <2>1, SMT
  <2>3. CASE L % C # 0
    <3>1. L # (n + 1) * C
      <4> SUFFICES ASSUME L = (n + 1) * C PROVE FALSE
        OBVIOUS
      <4>1. q * C + (L % C) = (n + 1) * C + 0 /\ 0 < C
        BY <1>1, <1>4, <1>6, <1>7, SMT
      <4>2. L % C = 0
        BY ZenonT(60), <1>3, <1>6, <4>1, DividedOnce DEF C
      <4> QED
        BY <2>3, <4>2
    <3>2. PICK s \in Nat : L = n * C + s /\ s < C
      <4>1. L - n * C \in Nat /\ L = n * C + (L - n * C) /\ L - n * C < C
        BY <1>1, <1>4, <1>8, <2>2, <3>1, SMT
      <4> QED
        BY <4>1
    <3>3. L % C = s
      BY <1>6, <3>2, DividedOnce DEF C
    <3>4. e = s
      BY <1>5, <1>10, <2>3, <3>3
    <3>5. MinOf(n * C, L) = n * C /\ MinOf((n + 1) * C, L) = n * C + e /\ n * C + e <= L
      BY <1>1, <1>4, <1>8, <2>2, <3>1, <3>2, <3>4, SMTT(60) DEF MinOf
    <3> QED
      BY <1>1, <1>8, <3>5 DEF C, L, e
  <2>4. CASE L % C = 0
    <3>1. L = q * C
      BY <1>6, <1>7, <2>4, SMT
    <3>2. q >= n + 1
      <4> SUFFICES ASSUME q < n + 1 PROVE FALSE
        BY <1>6, SMT
      <4>1. q <= n
        BY <1>6, SMT
      <4>2. q * C <= n * C
        BY <1>6, <4>1, Scaled DEF C
      <4> QED
        BY <1>1, <1>7, <1>8, <3>1, <4>2, SMTT(60)
    <3>3. (n + 1) * C <= q * C
      <4>1. n + 1 <= q
        BY <1>6, <3>2, SMT
      <4> QED
        BY <1>3, <1>6, <4>1, Scaled DEF C
    <3>4. L = (n + 1) * C
      BY <1>1, <1>4, <1>7, <2>2, <3>1, <3>3, SMTT(60)
    <3>5. e = C
      BY <1>5, <2>4
    <3>6. MinOf(n * C, L) = n * C /\ MinOf((n + 1) * C, L) = n * C + e /\ n * C + e <= L
      BY <1>1, <1>4, <1>8, <3>4, <3>5, SMTT(60) DEF MinOf
    <3> QED
      BY <1>1, <1>8, <3>6 DEF C, L, e
  <2> QED
    BY <2>3, <2>4
<1> QED
  BY <1>9, <1>10

\* The chunks cover the file.
LEMMA Covered ==
    ASSUME TypeOK, NEW a \in Attempts
    PROVE  MinOf(total_chunks(a) * ChunkSize, total_size(a)) = total_size(a)
<1> DEFINE C == ChunkSize
           L == total_size(a)
           T == total_chunks(a)
           x == L + C - 1
<1>1. C \in Nat /\ C > 0 /\ L \in Nat /\ T \in Nat /\ T * C \in Nat
  BY TransferConstants, ChunkArithmetic, SMT
<1>2. x \in Nat
  BY <1>1, SMT
<1>3. T = x \div C
  BY DEF total_chunks, calculate_total_chunks
<1> HIDE DEF x, T, L
<1>4. x = (x \div C) * C + (x % C) /\ (x % C) \in Nat /\ (x % C) < C
  BY <1>2, Divided
<1>5. PICK r \in Nat : x = T * C + r /\ r < C
  BY <1>3, <1>4
<1>6. L <= T * C
  BY <1>1, <1>5, SMT DEF x
<1>7. MinOf(T * C, L) = L
  BY <1>1, <1>6, SMT DEF MinOf
<1> QED
  BY <1>7 DEF T, L

\* The offered file is a sequence of bytes.
LEMMA OfferedBytes ==
    ASSUME TypeOK, NEW a \in Attempts
    PROVE  Content[offer[a]] \in Seq(Nat) /\ Len(Content[offer[a]]) = total_size(a) /\ total_size(a) \in Nat
<1>1. Content[offer[a]] \in Seq(Nat \ {0})
  BY TransferConstants DEF TypeOK
<1>2. Content[offer[a]] \in Seq(Nat) /\ Len(Content[offer[a]]) \in Nat
  BY <1>1, SMT
<1> QED
  BY <1>2 DEF total_size

\* The first bytes of a file.
LEMMA FirstBytes ==
    ASSUME NEW f \in Seq(Nat), NEW k \in Nat, k <= Len(f)
    PROVE  /\ SubSeq(f, 1, k) \in Seq(Nat) /\ Len(SubSeq(f, 1, k)) = k
           /\ \A i \in 1 .. k : SubSeq(f, 1, k)[i] = f[i]
BY SMT

\* Writing the next piece behind the first bytes of a file.
LEMMA WrittenBehind ==
    ASSUME NEW f \in Seq(Nat), NEW m \in Nat, NEW k \in Nat, m + k <= Len(f)
    PROVE  WriteAt(SubSeq(f, 1, m), m, SubSeq(f, m + 1, m + k)) = SubSeq(f, 1, m + k)
<1> DEFINE g == SubSeq(f, 1, m)
           d == SubSeq(f, m + 1, m + k)
           w == WriteAt(g, m, d)
           h == SubSeq(f, 1, m + k)
<1>1. m <= Len(f) /\ m + k \in Nat
  BY SMT
<1>2. g \in Seq(Nat) /\ Len(g) = m /\ \A i \in 1 .. m : g[i] = f[i]
  BY <1>1, FirstBytes
<1>3. d \in Seq(Nat) /\ Len(d) = k /\ \A i \in 1 .. k : d[i] = f[m + i]
  BY PieceBytes
<1>4. h \in Seq(Nat) /\ Len(h) = m + k /\ \A i \in 1 .. m + k : h[i] = f[i]
  BY <1>1, FirstBytes
<1> HIDE DEF g, d, h
<1>5. w \in Seq(Nat)
  BY <1>2, <1>3, Written
<1>6. w = [i \in 1 .. m + k |-> IF i > m /\ i <= m + k THEN d[i - m] ELSE IF i <= m THEN g[i] ELSE Hole]
  <2>1. (IF m + Len(d) > Len(g) THEN m + Len(d) ELSE Len(g)) = m + k
    BY <1>2, <1>3, SMT
  <2> QED
    BY <1>2, <1>3, <2>1 DEF WriteAt
<1>7. \A i \in 1 .. m + k : w[i] = f[i]
  <2> SUFFICES ASSUME NEW i \in 1 .. m + k PROVE w[i] = f[i]
    OBVIOUS
  <2>1. w[i] = IF i > m /\ i <= m + k THEN d[i - m] ELSE IF i <= m THEN g[i] ELSE Hole
    BY <1>6
  <2>2. CASE i <= m
    <3>1. i \in 1 .. m /\ ~ (i > m)
      BY <2>2, SMT
    <3> QED
      BY <1>2, <2>1, <2>2, <3>1
  <2>3. CASE ~ (i <= m)
    <3>1. i - m \in 1 .. k /\ m + (i - m) = i /\ i > m /\ i <= m + k
      BY <2>3, SMT
    <3> QED
      BY <1>3, <2>1, <3>1
  <2> QED
    BY <2>2, <2>3
<1>8. Len(w) = m + k
  <2>1. DOMAIN w = 1 .. m + k
    BY <1>6
  <2> HIDE DEF w
  <2> QED
    BY <1>1, <1>5, <2>1, SMT
<1> HIDE DEF w
<1>9. w = h
  BY <1>4, <1>5, <1>7, <1>8, SameBytes
<1> QED
  BY <1>9 DEF w, g, d, h

\* A chunk written behind the chunks before it, as write_chunk does.
LEMMA ChunkWritten ==
    ASSUME TypeOK, NEW a \in Attempts, NEW n \in Nat, n < total_chunks(a)
    PROVE  /\ WriteAt(Chunks(a, n), n * ChunkSize, Chunk(a, n).data) = Chunks(a, n + 1)
           /\ receive_chunk(a, Chunk(a, n))
<1> DEFINE m == n * ChunkSize
           k == expected_chunk_size(a, n)
           f == Content[offer[a]]
<1>1. f \in Seq(Nat) /\ Len(f) = total_size(a)
  BY OfferedBytes
<1>2. /\ m \in Nat /\ k \in Nat /\ m + k <= Len(f)
      /\ MinOf(m, total_size(a)) = m /\ MinOf((n + 1) * ChunkSize, total_size(a)) = m + k
  BY <1>1, Layout
<1>3. Chunk(a, n).data = SubSeq(f, m + 1, m + k) /\ Chunk(a, n).index = n /\ Chunk(a, n).intact
  BY DEF Chunk
<1>4. Chunks(a, n) = SubSeq(f, 1, m) /\ Chunks(a, n + 1) = SubSeq(f, 1, m + k)
  BY <1>2 DEF Chunks
<1>5. Len(SubSeq(f, m + 1, m + k)) = k
  BY ZenonT(60), <1>1, <1>2, PieceBytes
<1> HIDE DEF m, k, f
<1>6. WriteAt(Chunks(a, n), m, Chunk(a, n).data) = Chunks(a, n + 1)
  BY <1>1, <1>2, <1>3, <1>4, WrittenBehind
<1>7. receive_chunk(a, Chunk(a, n))
  BY <1>3, <1>5 DEF receive_chunk, k
<1> QED
  BY <1>6, <1>7 DEF m

\* All chunks are the file, and none is the empty file.
LEMMA ChunksEnds ==
    ASSUME TypeOK, NEW a \in Attempts
    PROVE  Chunks(a, total_chunks(a)) = Content[offer[a]] /\ Chunks(a, 0) = <<>>
<1> DEFINE f == Content[offer[a]]
           L == total_size(a)
<1>1. f \in Seq(Nat) /\ Len(f) = L /\ L \in Nat
  BY OfferedBytes
<1>2. Chunks(a, total_chunks(a)) = SubSeq(f, 1, L)
  BY Covered DEF Chunks
<1> HIDE DEF f, L
<1>3. L <= Len(f)
  BY <1>1, SMT
<1>4. SubSeq(f, 1, L) \in Seq(Nat) /\ Len(SubSeq(f, 1, L)) = L /\ \A i \in 1 .. L : SubSeq(f, 1, L)[i] = f[i]
  BY <1>1, <1>3, FirstBytes
<1>5. SubSeq(f, 1, L) = f
  BY <1>1, <1>4, SameBytes
<1>6. MinOf(0 * ChunkSize, L) = 0
  BY <1>1, TransferConstants, SMT DEF MinOf
<1>7. SubSeq(f, 1, 0) = <<>>
  BY <1>1, SMT
<1> QED
  BY <1>2, <1>5, <1>6, <1>7 DEF Chunks, f, L

\* Whole chunks that are a prefix of the file are its first chunks.
LEMMA PrefixIsChunks ==
    ASSUME TypeOK, NEW a \in Attempts, NEW n \in Nat, NEW g, Len(g) = n * ChunkSize, IsPrefixOf(g, Content[offer[a]])
    PROVE  g = Chunks(a, n)
<1>1. Len(g) <= total_size(a) /\ g = SubSeq(Content[offer[a]], 1, n * ChunkSize) /\ total_size(a) \in Nat
  BY OfferedBytes DEF IsPrefixOf
<1>2. n * ChunkSize \in Nat
  BY NextOffset
<1>3. MinOf(n * ChunkSize, total_size(a)) = n * ChunkSize
  BY <1>1, <1>2, SMT DEF MinOf
<1> QED
  BY <1>1, <1>3 DEF Chunks

-----------------------------------------------------------------------------
(***************************************************************************)
(* One frame at a time, and what follows it.                               *)
(***************************************************************************)

\* A stream with one frame in flight.
LEMMA OneFrame ==
    ASSUME NEW f
    PROVE  <<f>> # <<>> /\ Head(<<f>>) = f /\ Tail(<<f>>) = <<>> /\ Append(<<>>, f) = <<f>>
BY SMT

\* With nothing to read on a connection that is up, the client waits.
LEMMA ClientWaits ==
    ASSUME NEW a \in Attempts, toClient[a] = <<>>, up[a]
    PROVE  ~ ClientStep(a)
BY DEF ClientStep, ReceiveAccept, ReceiveAck, ReceiveComplete, ClientFails, AtClient

\* So does the node, unless it has a file to rename.
LEMMA NodeWaits ==
    ASSUME NEW a \in Attempts, toNode[a] = <<>>, up[a], rpc[a] # "renaming"
    PROVE  ~ NodeStep(a)
BY DEF NodeStep, ReceiveOffer, DropOffer, ReceiveData, RejectChunk, ReceiveFinished, FinishedFails, Rename, NodeEof,
       AtNode

\* The manifest is made once.
LEMMA ManifestStays ==
    ASSUME NEW a \in Attempts, offer'[a] = offer[a]
    PROVE  /\ total_chunks(a)' = total_chunks(a)
           /\ \A n : Chunks(a, n)' = Chunks(a, n)
           /\ \A n : Chunk(a, n)' = Chunk(a, n)
<1>1. total_size(a)' = total_size(a) /\ total_chunks(a)' = total_chunks(a)
  BY DEF total_chunks, total_size
<1>2. \A n : expected_chunk_size(a, n)' = expected_chunk_size(a, n)
  BY <1>1 DEF expected_chunk_size
<1> QED
  BY <1>1, <1>2 DEF Chunks, Chunk

\* What the receiver has stays as it is.
LEMMA HasStays ==
    ASSUME NEW a \in Attempts, NEW n \in Nat, Has(a, n), offer'[a] = offer[a],
           received'[a] = received[a], files'[handle'[a]] = files[handle[a]]
    PROVE  Has(a, n)'
BY ManifestStays DEF Has

\* A step of another attempt, or a loss of another connection.
LEMMA TalkingStays ==
    ASSUME NEW a \in Attempts, Talking(a),
           spc'[a] = spc[a], rpc'[a] = rpc[a], up'[a] = up[a], toNode'[a] = toNode[a], toClient'[a] = toClient[a],
           offer'[a] = offer[a], source'[a] = source[a], current'[a] = current[a],
           received'[a] = received[a], rpc[a] = "chunks" => files'[handle'[a]] = files[handle[a]]
    PROVE  Talking(a)'
<1>1. rpc[a] = "chunks" => \A n \in Nat : Has(a, n) => Has(a, n)'
  BY HasStays
<1>2. total_chunks(a)' = total_chunks(a) /\ \A n : Chunk(a, n)' = Chunk(a, n)
  BY ManifestStays
<1>3. Offered(a) => Offered(a)'
  BY DEF Offered
<1>4. Resumed(a) => Resumed(a)'
  BY <1>1 DEF Resumed
<1>5. Sent(a) => Sent(a)'
  BY <1>1, <1>2 DEF Sent
<1>6. Acked(a) => Acked(a)'
  <2>1. \A n \in Nat : n + 1 \in Nat
    BY SMT
  <2> QED
    BY <1>1, <2>1 DEF Acked
<1>7. Finishing(a) => Finishing(a)'
  <2>1. rpc[a] = "chunks" /\ Has(a, total_chunks(a)) => Has(a, total_chunks(a))'
    BY ManifestStays DEF Has
  <2> QED
    BY <2>1 DEF Finishing
<1>8. Renaming(a) => Renaming(a)'
  BY DEF Renaming
<1>9. Completed(a) => Completed(a)'
  BY DEF Completed
<1> QED
  BY <1>3, <1>4, <1>5, <1>6, <1>7, <1>8, <1>9 DEF Talking

\* next_chunk sends the chunk that the receiver lacks, or Finished when it lacks none.
LEMMA SendsNext ==
    ASSUME TypeOK, NEW a \in Attempts, NEW n \in Nat, Has(a, n), SendNext(a, n), up[a], source[a] = offer[a],
           rpc[a] = "chunks", toNode[a] = <<>>, toClient'[a] = <<>>,
           UNCHANGED <<rpc, offer, source, received, handle, files>>
    PROVE  Talking(a)'
<1>1. Has(a, n)' /\ total_chunks(a)' = total_chunks(a) /\ Chunk(a, n)' = Chunk(a, n)
  BY HasStays, ManifestStays
<1>2. n \in 0 .. total_chunks(a) /\ total_chunks(a) \in Nat
  BY ChunkArithmetic DEF Has
<1>3. toNode \in [Attempts -> Seq(Frames)] /\ current \in [Attempts -> Nat]
      /\ spc \in [Attempts -> SenderWaits \cup {"idle", "done", "failed"}]
  BY DEF TypeOK
<1>4. n < total_chunks(a) => n * ChunkSize + expected_chunk_size(a, n) <= Len(Content[source[a]])
  BY Layout, OfferedBytes
<1>5. CASE n < total_chunks(a)
  <2>1. ~ (n >= total_chunks(a))
    BY <1>2, <1>5, SMT
  <2>2. /\ ToNode(a, Chunk(a, n))
        /\ current' = [current EXCEPT ![a] = n + 1]
        /\ spc' = [spc EXCEPT ![a] = "awaitAck"]
        /\ UNCHANGED up
    BY <1>4, <1>5, <2>1 DEF SendNext, Chunk
  <2>3. toNode'[a] = <<Chunk(a, n)>>
    BY <1>3, <2>2, OneFrame DEF ToNode
  <2>4. Sent(a)'
    BY <1>1, <1>3, <1>5, <2>2, <2>3 DEF Sent
  <2> QED
    BY <2>2, <2>4 DEF Talking
<1>6. CASE ~ (n < total_chunks(a))
  <2>1. n = total_chunks(a)
    BY <1>2, <1>6, SMT
  <2>2. /\ ToNode(a, [type |-> "Finished"])
        /\ spc' = [spc EXCEPT ![a] = "awaitComplete"]
        /\ UNCHANGED <<up, current>>
    BY <1>6 DEF SendNext
  <2>3. toNode'[a] = <<[type |-> "Finished"]>>
    BY <1>3, <2>2, OneFrame DEF ToNode
  <2>4. Has(a, total_chunks(a))'
    BY <1>1, <2>1
  <2>5. Finishing(a)'
    BY <1>3, <2>2, <2>3, <2>4 DEF Finishing
  <2> QED
    BY <2>2, <2>5 DEF Talking
<1> QED
  BY <1>5, <1>6

\* What to_dir keeps of an existing .part.
LEMMA Kept ==
    ASSUME NEW f \in Seq(Nat), NEW total \in Nat
    PROVE  Len(Truncate(f, valid_chunks(f, total) * ChunkSize)) = valid_chunks(f, total) * ChunkSize
<1> DEFINE n == Len(f) \div ChunkSize
           v == valid_chunks(f, total)
<1>1. Len(f) \in Nat
  BY SMT
<1>2. n \in Nat /\ Len(f) = n * ChunkSize + (Len(f) % ChunkSize) /\ (Len(f) % ChunkSize) \in Nat
  BY <1>1, Divided
<1>3. n * ChunkSize \in Nat
  BY <1>2, NextOffset
<1>4. n * ChunkSize <= Len(f)
  BY <1>1, <1>2, <1>3, SMT
<1> HIDE DEF n
<1>5. v \in Nat /\ v <= n
  BY <1>2, SMT DEF valid_chunks, MinOf, n
<1> HIDE DEF v
<1>6. v * ChunkSize \in Nat /\ v * ChunkSize <= n * ChunkSize
  BY <1>2, <1>5, Scaled
<1>7. v * ChunkSize <= Len(f)
  BY <1>1, <1>3, <1>4, <1>6, SMT
<1>8. Len(SubSeq(f, 1, v * ChunkSize)) = v * ChunkSize
  BY <1>6, <1>7, FirstBytes
<1> QED
  BY <1>8 DEF Truncate, v

\* The node reads the Offer: it has the chunks that it asks the client to skip.
LEMMA TalkOffer ==
    ASSUME TypeOK, NEW a \in Attempts, up[a], source[a] = offer[a], Offered(a), ReceiveOffer(a), ~ stale'[a]
    PROVE  Talking(a)'
<1> USE DEF clientVars
<1> DEFINE total == total_chunks(a)
           opened == IF part = None THEN a ELSE part
           existing == IF part = None THEN <<>> ELSE files[part]
           resumes == existing # <<>> /\ total > 0
           valid == valid_chunks(existing, total)
           kept == IF resumes THEN Truncate(existing, valid * ChunkSize) ELSE existing
           got == IF resumes THEN {i \in 0..total : i < valid} ELSE {}
<1>1. total \in Nat /\ opened \in Attempts /\ existing \in Seq(Nat)
  <2>1. <<>> \in Seq(Nat)
    BY SMT
  <2> QED
    BY <2>1, ChunkArithmetic, 0 \in Nat DEF TypeOK
<1>2. /\ ToClient(a, [type |-> "Accept", index |-> next_expected_chunk(got, total)])
      /\ rpc' = [rpc EXCEPT ![a] = "chunks"]
      /\ handle' = [handle EXCEPT ![a] = opened]
      /\ files' = [files EXCEPT ![opened] = kept]
      /\ received' = [received EXCEPT ![a] = got]
      /\ stale' = [stale EXCEPT ![a] = ~ IsPrefixOf(kept, Content[offer[a]])]
      /\ TakenByNode(a)
      /\ UNCHANGED <<up, spc, offer, source, current>>
      /\ toNode[a] # <<>>
  BY DEF ReceiveOffer, AtNode
<1> HIDE DEF total, opened, existing, resumes, valid, kept, got
<1>3. /\ rpc'[a] = "chunks" /\ handle'[a] = opened /\ files'[opened] = kept /\ received'[a] = got
      /\ IsPrefixOf(kept, Content[offer[a]])
  BY <1>1, <1>2 DEF TypeOK
<1>4. toNode'[a] = <<>>
  BY <1>2, OneFrame DEF TakenByNode, Offered, TypeOK
<1>5. PICK n \in Nat : /\ n <= total /\ got = 0 .. (n - 1) /\ next_expected_chunk(got, total) = n
                       /\ kept = Chunks(a, n)
  <2>1. CASE resumes
    <3>1. valid \in Nat /\ valid <= total
      BY <1>1, WholeChunks DEF valid
    <3>2. got = {i \in 0..total : i < valid}
      BY <2>1 DEF got
    <3>3. {i \in 0..total : i < valid} = 0 .. (valid - 1)
      BY <1>1, <3>1, SMT
    <3>4. next_expected_chunk(got, total) = valid
      BY <1>1, <3>1, <3>2, NextExpected
    <3>5. Len(kept) = valid * ChunkSize
      BY <1>1, <2>1, Kept DEF kept, valid
    <3>6. kept = Chunks(a, valid)
      BY <1>3, <3>1, <3>5, PrefixIsChunks
    <3> QED
      BY <3>1, <3>2, <3>3, <3>4, <3>6
  <2>2. CASE ~ resumes
    <3>1. got = {} /\ kept = existing
      BY <2>2 DEF got, kept
    <3>2. {} = {i \in 0..total : i < 0} /\ {} = 0 .. (0 - 1) /\ 0 \in Nat /\ 0 <= total
      BY <1>1, SMT
    <3>3. next_expected_chunk(got, total) = 0
      BY <1>1, <3>1, <3>2, NextExpected
    <3>4. kept = <<>>
      <4>1. CASE existing = <<>>
        BY <3>1, <4>1
      <4>2. CASE ~ (total > 0)
        <5>1. total = 0
          BY <1>1, <4>2, SMT
        <5>2. Content[offer[a]] = <<>>
          BY <5>1, ChunksEnds DEF total
        <5>3. Len(<<>>) = 0
          BY SMT
        <5>4. Len(kept) <= 0
          BY <1>3, <5>2, <5>3 DEF IsPrefixOf
        <5>5. kept \in Seq(Nat) /\ Len(kept) \in Nat
          BY <1>1, <3>1, SMT
        <5> QED
          BY <5>4, <5>5, SMT
      <4> QED
        BY <2>2, <4>1, <4>2 DEF resumes
    <3>5. kept = Chunks(a, 0)
      BY <3>4, ChunksEnds
    <3> QED
      BY <3>1, <3>2, <3>3, <3>5
  <2> QED
    BY <2>1, <2>2
<1>6. n \in 0 .. total
  BY <1>1, <1>5, SMT
<1>7. Has(a, n)'
  <2>1. Chunks(a, n)' = Chunks(a, n) /\ total_chunks(a)' = total
    BY <1>2, ManifestStays DEF total
  <2> QED
    BY <1>3, <1>5, <1>6, <2>1 DEF Has
<1>8. toClient'[a] = <<[type |-> "Accept", index |-> n]>>
  <2>1. toClient[a] = <<>> /\ toClient \in [Attempts -> Seq(Frames)]
    BY DEF Offered, TypeOK
  <2>2. toClient' = [toClient EXCEPT ![a] = Append(toClient[a], [type |-> "Accept", index |-> n])]
    BY <1>2, <1>5 DEF ToClient
  <2> QED
    BY <2>1, <2>2, OneFrame
<1>9. Resumed(a)'
  BY <1>2, <1>3, <1>4, <1>7, <1>8 DEF Resumed, Offered
<1> QED
  BY <1>2, <1>9 DEF Talking

\* Before the node has read the Offer.
LEMMA TalkOffered ==
    ASSUME TypeOK, NEW a \in Attempts, up[a], source[a] = offer[a], Offered(a),
           ClientStep(a) \/ NodeStep(a), ~ stale'[a]
    PROVE  Talking(a)'
<1> USE DEF clientVars
<1>1. toClient[a] = <<>> /\ rpc[a] = "loop"
  BY DEF Offered
<1>2. NodeStep(a)
  BY <1>1, ClientWaits
<1>3. toNode[a] = <<[type |-> "Offer"]>>
  BY <1>1, <1>2, NodeWaits DEF Offered
<1>4. CASE ReceiveOffer(a)
  BY <1>4, TalkOffer
<1>5. CASE DropOffer(a)
  <2>1. toNode'[a] = <<>>
    BY <1>3, <1>5, OneFrame DEF DropOffer, TakenByNode, TypeOK
  <2> QED
    BY <1>1, <1>5, <2>1 DEF DropOffer, Offered, Talking
<1> QED
  BY <1>1, <1>2, <1>4, <1>5
     DEF NodeStep, ReceiveData, RejectChunk, ReceiveFinished, FinishedFails, Rename, NodeEof

\* The client reads the Accept and sends the first chunk that is missing.
LEMMA TalkResumed ==
    ASSUME TypeOK, NEW a \in Attempts, up[a], source[a] = offer[a], Resumed(a), ClientStep(a) \/ NodeStep(a)
    PROVE  Talking(a)'
<1> USE DEF clientVars, receiverVars, diskVars
<1>1. spc[a] = "awaitAccept" /\ rpc[a] = "chunks" /\ toNode[a] = <<>>
  BY DEF Resumed
<1>2. PICK n \in Nat : Has(a, n) /\ toClient[a] = <<[type |-> "Accept", index |-> n]>>
  BY DEF Resumed
<1>3. Head(toClient[a]).type = "Accept" /\ Head(toClient[a]).index = n /\ toClient[a] # <<>> /\ Tail(toClient[a]) = <<>>
  <2>1. [type |-> "Accept", index |-> n].type = "Accept" /\ [type |-> "Accept", index |-> n].index = n
    BY SMT
  <2> QED
    BY <1>2, <2>1, OneFrame
<1>4. ClientStep(a)
  BY <1>1, NodeWaits
<1>5. ~ ClientFails(a)
  <2>1. ClientExpects[spc[a]] = "Accept"
    BY <1>1, SMT DEF ClientExpects
  <2> QED
    BY <1>3, <2>1 DEF ClientFails
<1>6. ReceiveAccept(a)
  BY <1>1, <1>4, <1>5 DEF ClientStep, ReceiveAck, ReceiveComplete
<1>7. /\ SendNext(a, n) /\ UNCHANGED <<rpc, offer, source, received, handle, files>>
      /\ toClient'[a] = <<>>
  BY <1>3, <1>6 DEF ReceiveAccept, TakenByClient, TypeOK
<1> QED
  BY <1>1, <1>2, <1>7, SendsNext

\* The node writes the chunk and acknowledges it.
LEMMA TalkSent ==
    ASSUME TypeOK, DiskInv, NEW a \in Attempts, up[a], source[a] = offer[a], Sent(a), ClientStep(a) \/ NodeStep(a)
    PROVE  Talking(a)'
<1> USE DEF clientVars
<1>1. spc[a] = "awaitAck" /\ rpc[a] = "chunks" /\ toClient[a] = <<>>
  BY DEF Sent
<1>2. PICK n \in Nat : /\ Has(a, n) /\ n < total_chunks(a) /\ current[a] = n + 1
                       /\ toNode[a] = <<Chunk(a, n)>>
  BY DEF Sent
<1>3. Head(toNode[a]) = Chunk(a, n) /\ Tail(toNode[a]) = <<>> /\ toNode[a] # <<>>
  BY <1>2, OneFrame
<1>4. Chunk(a, n).type = "Data" /\ Chunk(a, n).index = n
  BY DEF Chunk
<1>5. /\ WriteAt(Chunks(a, n), n * ChunkSize, Chunk(a, n).data) = Chunks(a, n + 1)
      /\ receive_chunk(a, Chunk(a, n))
  BY <1>2, ChunkWritten
<1>6. NodeStep(a)
  BY <1>1, ClientWaits
<1>7. ReceiveData(a)
  BY <1>1, <1>3, <1>4, <1>5, <1>6
     DEF NodeStep, ReceiveOffer, DropOffer, RejectChunk, ReceiveFinished, FinishedFails, Rename, NodeEof, AtNode
<1>8. handle[a] \in Attempts
  BY <1>1 DEF DiskInv, ReceiverBusy, TypeOK
<1>9. /\ files' = [files EXCEPT ![handle[a]] = WriteAt(@, n * ChunkSize, Chunk(a, n).data)]
      /\ received' = [received EXCEPT ![a] = @ \cup {n}]
      /\ TakenByNode(a)
      /\ ToClient(a, [type |-> "Ack", index |-> n])
      /\ UNCHANGED <<rpc, up, spc, offer, source, current, handle>>
  BY <1>3, <1>4, <1>7 DEF ReceiveData
<1>10. files'[handle'[a]] = Chunks(a, n + 1)
  <2>1. files[handle[a]] = Chunks(a, n)
    BY <1>2 DEF Has
  <2>2. files'[handle[a]] = WriteAt(files[handle[a]], n * ChunkSize, Chunk(a, n).data)
    BY <1>8, <1>9 DEF TypeOK
  <2> QED
    BY <1>5, <1>9, <2>1, <2>2
<1>11. received'[a] = 0 .. ((n + 1) - 1)
  <2>1. received'[a] = (0 .. (n - 1)) \cup {n}
    BY <1>2, <1>9 DEF Has, TypeOK
  <2>2. (0 .. (n - 1)) \cup {n} = 0 .. ((n + 1) - 1)
    BY SMT
  <2> QED
    BY <2>1, <2>2
<1>12. n + 1 \in 0 .. total_chunks(a) /\ n + 1 \in Nat
  <2>1. total_chunks(a) \in Nat
    BY ChunkArithmetic
  <2> QED
    BY <1>2, <2>1, SMT
<1>13. Has(a, n + 1)'
  <2>1. Chunks(a, n + 1)' = Chunks(a, n + 1) /\ total_chunks(a)' = total_chunks(a)
    BY <1>9, ManifestStays
  <2> QED
    BY <1>10, <1>11, <1>12, <2>1 DEF Has
<1>14. toNode'[a] = <<>> /\ toClient'[a] = <<[type |-> "Ack", index |-> n]>>
  <2>1. toNode'[a] = <<>>
    BY <1>3, <1>9 DEF TakenByNode, TypeOK
  <2>2. toClient' = [toClient EXCEPT ![a] = Append(toClient[a], [type |-> "Ack", index |-> n])]
    BY <1>9 DEF ToClient
  <2> QED
    BY <1>1, <2>1, <2>2, OneFrame DEF TypeOK
<1>15. Acked(a)'
  BY <1>1, <1>2, <1>9, <1>13, <1>14 DEF Acked
<1> QED
  BY <1>9, <1>15 DEF Talking

\* The client reads the Ack and goes on.
LEMMA TalkAcked ==
    ASSUME TypeOK, NEW a \in Attempts, up[a], source[a] = offer[a], Acked(a), ClientStep(a) \/ NodeStep(a)
    PROVE  Talking(a)'
<1> USE DEF clientVars, receiverVars, diskVars
<1>1. spc[a] = "awaitAck" /\ rpc[a] = "chunks" /\ toNode[a] = <<>>
  BY DEF Acked
<1>2. PICK n \in Nat : /\ Has(a, n + 1) /\ current[a] = n + 1
                       /\ toClient[a] = <<[type |-> "Ack", index |-> n]>>
  BY DEF Acked
<1>3. Head(toClient[a]).type = "Ack" /\ Head(toClient[a]).index = n /\ toClient[a] # <<>> /\ Tail(toClient[a]) = <<>>
  <2>1. [type |-> "Ack", index |-> n].type = "Ack" /\ [type |-> "Ack", index |-> n].index = n
    BY SMT
  <2> QED
    BY <1>2, <2>1, OneFrame
<1>4. ClientStep(a)
  BY <1>1, NodeWaits
<1>5. n + 1 \in Nat /\ (n + 1) - 1 = n
  BY SMT
<1>6. ~ ClientFails(a)
  <2>1. ClientExpects[spc[a]] = "Ack"
    BY <1>1, SMT DEF ClientExpects
  <2>2. Head(toClient[a]).index = current[a] - 1
    BY <1>2, <1>3, <1>5
  <2> QED
    BY <1>3, <2>1, <2>2 DEF ClientFails
<1>7. ReceiveAck(a)
  BY <1>1, <1>4, <1>6 DEF ClientStep, ReceiveAccept, ReceiveComplete
<1>8. /\ SendNext(a, n + 1) /\ UNCHANGED <<rpc, offer, source, received, handle, files>>
      /\ toClient'[a] = <<>>
  BY <1>2, <1>3, <1>7 DEF ReceiveAck, TakenByClient, TypeOK
<1> QED
  BY <1>1, <1>2, <1>5, <1>8, SendsNext

\* The node has every chunk, and what it wrote is the file that was offered.
LEMMA TalkFinishing ==
    ASSUME TypeOK, NEW a \in Attempts, up[a], source[a] = offer[a], Finishing(a), ClientStep(a) \/ NodeStep(a)
    PROVE  Talking(a)'
<1> USE DEF clientVars
<1>1. /\ spc[a] = "awaitComplete" /\ rpc[a] = "chunks" /\ toClient[a] = <<>>
      /\ Has(a, total_chunks(a)) /\ toNode[a] = <<[type |-> "Finished"]>>
  BY DEF Finishing
<1>2. Head(toNode[a]).type = "Finished" /\ Tail(toNode[a]) = <<>> /\ toNode[a] # <<>>
  <2>1. [type |-> "Finished"].type = "Finished"
    BY SMT
  <2> QED
    BY <1>1, <2>1, OneFrame
<1>3. verify(a)
  <2> DEFINE total == total_chunks(a)
  <2>1. total \in Nat /\ received[a] = 0 .. (total - 1) /\ files[handle[a]] = Content[offer[a]]
    BY <1>1, ChunkArithmetic, ChunksEnds, 0 \in Nat DEF Has
  <2> HIDE DEF total
  <2>2. Cardinality(0 .. (total - 1)) = IF 0 > total - 1 THEN 0 ELSE (total - 1) - 0 + 1
    BY <2>1, FS_Interval, SMT
  <2>3. Cardinality(0 .. (total - 1)) = total
    BY <2>1, <2>2, SMT
  <2> QED
    BY <2>1, <2>3 DEF verify, is_complete, total
<1>4. NodeStep(a)
  BY <1>1, ClientWaits
<1>5. ReceiveFinished(a)
  BY <1>1, <1>2, <1>3, <1>4
     DEF NodeStep, ReceiveOffer, DropOffer, ReceiveData, RejectChunk, FinishedFails, Rename, NodeEof, AtNode
<1>6. toNode'[a] = <<>> /\ rpc'[a] = "renaming" /\ UNCHANGED <<up, toClient, spc, offer, source>>
  BY <1>2, <1>5 DEF ReceiveFinished, TakenByNode, TypeOK
<1> QED
  BY <1>1, <1>6 DEF Renaming, Talking

\* No other receiver has taken the .part away, and Complete follows the rename.
LEMMA TalkRenaming ==
    ASSUME TypeOK, DiskInv, NEW a \in Attempts, up[a], source[a] = offer[a], Renaming(a), ClientStep(a) \/ NodeStep(a)
    PROVE  Talking(a)'
<1> USE DEF clientVars
<1>1. spc[a] = "awaitComplete" /\ rpc[a] = "renaming" /\ toClient[a] = <<>> /\ toNode[a] = <<>>
  BY DEF Renaming
<1>2. part # None
  BY <1>1 DEF DiskInv, ReceiverBusy
<1>3. NodeStep(a)
  BY <1>1, ClientWaits
<1>4. Rename(a)
  BY <1>1, <1>3
     DEF NodeStep, ReceiveOffer, DropOffer, ReceiveData, RejectChunk, ReceiveFinished, FinishedFails, NodeEof
<1>5. /\ ToClient(a, [type |-> "Complete"]) /\ rpc'[a] = "done"
      /\ UNCHANGED <<up, toNode, spc, offer, source>>
  BY <1>2, <1>4 DEF Rename, TypeOK
<1>6. toClient'[a] = <<[type |-> "Complete"]>>
  <2>1. toClient' = [toClient EXCEPT ![a] = Append(toClient[a], [type |-> "Complete"])]
    BY <1>5 DEF ToClient
  <2> QED
    BY <1>1, <2>1, OneFrame DEF TypeOK
<1> QED
  BY <1>1, <1>5, <1>6 DEF Completed, Talking

\* The client reads the Complete message.
LEMMA TalkCompleted ==
    ASSUME TypeOK, NEW a \in Attempts, up[a], Completed(a), ClientStep(a) \/ NodeStep(a)
    PROVE  spc'[a] = "done"
<1>1. /\ spc[a] = "awaitComplete" /\ rpc[a] = "done" /\ toNode[a] = <<>>
      /\ toClient[a] = <<[type |-> "Complete"]>>
  BY DEF Completed
<1>2. Head(toClient[a]).type = "Complete" /\ toClient[a] # <<>>
  <2>1. [type |-> "Complete"].type = "Complete"
    BY SMT
  <2> QED
    BY <1>1, <2>1, OneFrame
<1>3. ClientStep(a)
  BY <1>1, NodeWaits
<1>4. ~ ClientFails(a)
  <2>1. ClientExpects[spc[a]] = "Complete"
    BY <1>1, SMT DEF ClientExpects
  <2> QED
    BY <1>2, <2>1 DEF ClientFails
<1>5. ReceiveComplete(a)
  BY <1>1, <1>3, <1>4 DEF ClientStep, ReceiveAccept, ReceiveAck
<1> QED
  BY <1>5 DEF ReceiveComplete, TypeOK

-----------------------------------------------------------------------------
(***************************************************************************)
(* Every step keeps the conversation going.                                *)
(***************************************************************************)

\* An attempt that acts leaves the rest of what the others have alone as well.
LEMMA OthersKeep ==
    ASSUME TypeOK, NEW a \in Attempts, Acts(a), NEW b \in Attempts, b # a
    PROVE  /\ source'[b] = source[b] /\ received'[b] = received[b] /\ current'[b] = current[b]
           /\ fault'[b] = fault[b] /\ stale'[b] = stale[b]
<1> USE DEF clientVars, diskVars, receiverVars, TypeOK
<1>1. CASE SendOffer(a)
  BY <1>1 DEF SendOffer
<1>2. ASSUME NEW i, SendNext(a, i) PROVE current'[b] = current[b]
  BY <1>2 DEF SendNext
<1>3. CASE ReceiveAccept(a)
  BY <1>2, <1>3 DEF ReceiveAccept
<1>4. CASE ReceiveAck(a)
  BY <1>2, <1>4 DEF ReceiveAck
<1>5. CASE ReceiveComplete(a) \/ ClientFails(a)
  BY <1>5 DEF ReceiveComplete, ClientFails
<1>6. CASE ReceiveOffer(a)
  BY <1>6 DEF ReceiveOffer
<1>7. CASE DropOffer(a) \/ ReceiveFinished(a)
  BY <1>7 DEF DropOffer, ReceiveFinished
<1>8. CASE ReceiveData(a)
  BY <1>8 DEF ReceiveData
<1>9. CASE NodeFails(a)
  BY <1>9 DEF NodeFails
<1>10. CASE Rename(a) /\ part # None
  BY <1>10 DEF Rename
<1>11. CASE LinkLoss(a) \/ Interject(a) \/ Corrupt(a)
  BY <1>11 DEF LinkLoss, Interject, Corrupt, Fault
<1>12. CASE Edit(a)
  BY <1>12 DEF Edit, Fault
<1> QED
  BY <1>1, <1>3, <1>4, <1>5, <1>6, <1>7, <1>8, <1>9, <1>10, <1>11, <1>12, ZenonT(30)
     DEF Acts, ClientStep, NodeStep, RejectChunk, FinishedFails, Rename, NodeEof

\* What an attempt does to its own flags: only an Offer sets stale, and a fault stays.
LEMMA OwnFlags ==
    ASSUME TypeOK, NEW a \in Attempts, Acts(a)
    PROVE  /\ fault'[a] = fault[a] \/ fault'[a]
           /\ stale'[a] = stale[a] \/ ReceiveOffer(a)
           /\ rpc'[a] = "loop" => rpc[a] = "loop"
<1> USE DEF clientVars, diskVars, receiverVars, TypeOK
<1>1. CASE SendOffer(a)
  BY <1>1 DEF SendOffer
<1>2. CASE ReceiveAccept(a) \/ ReceiveAck(a)
  BY <1>2 DEF ReceiveAccept, ReceiveAck
<1>3. CASE ReceiveComplete(a) \/ ClientFails(a)
  BY <1>3 DEF ReceiveComplete, ClientFails
<1>4. CASE ReceiveOffer(a)
  BY <1>4 DEF ReceiveOffer
<1>5. CASE DropOffer(a)
  BY <1>5 DEF DropOffer
<1>6. CASE ReceiveFinished(a)
  BY <1>6 DEF ReceiveFinished
<1>7. CASE ReceiveData(a)
  BY <1>7 DEF ReceiveData
<1>8. CASE NodeFails(a)
  BY <1>8 DEF NodeFails
<1>9. CASE Rename(a) /\ part # None
  BY <1>9 DEF Rename
<1>10. CASE LinkLoss(a) \/ Interject(a) \/ Corrupt(a)
  BY <1>10 DEF LinkLoss, Interject, Corrupt, Fault
<1>11. CASE Edit(a)
  BY <1>11 DEF Edit, Fault
<1> QED
  BY <1>1, <1>2, <1>3, <1>4, <1>5, <1>6, <1>7, <1>8, <1>9, <1>10, <1>11, ZenonT(30)
     DEF Acts, ClientStep, NodeStep, RejectChunk, FinishedFails, Rename, NodeEof

\* Every step keeps FreshInv.
LEMMA FreshStep ==
    ASSUME TypeOK, IdleInv, FreshInv, Next
    PROVE  FreshInv'
<1> SUFFICES ASSUME NEW a \in Attempts
             PROVE  /\ rpc'[a] = "loop" => ~ stale'[a]
                    /\ spc'[a] = "idle" => source'[a] = offer'[a]
  BY DEF FreshInv
<1>1. offer' = offer
  BY OfferStays
<1>2. CASE NodeDies
  <2>1. UNCHANGED <<spc, source, stale>> /\ (rpc'[a] = "loop" => rpc[a] = "loop")
    BY <1>2 DEF NodeDies, clientVars, receiverVars
  <2> QED
    BY <1>1, <2>1 DEF FreshInv
<1>3. CASE Acts(a)
  <2>1. spc'[a] # "idle"
    BY <1>3, Actor
  <2>2. ReceiveOffer(a) => rpc'[a] # "loop"
    BY DEF ReceiveOffer, TypeOK
  <2> QED
    BY <1>3, <2>1, <2>2, OwnFlags DEF FreshInv
<1>4. ASSUME NEW b \in Attempts, Acts(b), b # a
      PROVE  /\ rpc'[a] = "loop" => ~ stale'[a]
             /\ spc'[a] = "idle" => source'[a] = offer'[a]
  <2>1. rpc'[a] = rpc[a] /\ spc'[a] = spc[a]
    BY <1>4, Others
  <2>2. source'[a] = source[a] /\ stale'[a] = stale[a]
    BY <1>4, OthersKeep
  <2> QED
    BY <1>1, <2>1, <2>2 DEF FreshInv
<1> QED
  BY <1>2, <1>3, <1>4, Steps

\* What an attempt that nothing happened to does by itself.
LEMMA TalkActs ==
    ASSUME TypeOK, IdleInv, DiskInv, FreshInv, NEW a \in Attempts, Acts(a), offer' = offer,
           spc[a] \in {"idle", "done"} \/ Talking(a), ~ fault'[a], ~ stale'[a]
    PROVE  spc'[a] \in {"idle", "done"} \/ Talking(a)'
<1>1. CASE SendOffer(a)
  <2>1. /\ spc[a] = "idle" /\ rpc[a] = "loop" /\ toClient[a] = <<>> /\ source[a] = offer[a]
    BY <1>1 DEF SendOffer, IdleInv, FreshInv
  <2>2. /\ spc'[a] = "awaitAccept" /\ up'[a] /\ toNode'[a] = <<[type |-> "Offer"]>>
        /\ UNCHANGED <<rpc, toClient, offer, source>>
    BY <1>1 DEF SendOffer, TypeOK
  <2>3. Offered(a)'
    BY <2>1, <2>2 DEF Offered
  <2> QED
    BY <2>1, <2>2, <2>3 DEF Talking
<1>2. ~ (LinkLoss(a) \/ Interject(a) \/ Corrupt(a) \/ Edit(a))
  BY DEF LinkLoss, Interject, Corrupt, Edit, Fault, TypeOK
<1>3. CASE ClientStep(a) \/ NodeStep(a)
  <2>1. spc[a] # "idle"
    <3>1. ~ SendOffer(a) => spc[a] # "idle"
      BY Actor
    <3>2. SendOffer(a) => toNode[a] = <<>> /\ rpc[a] = "loop" /\ spc[a] = "idle"
      BY DEF SendOffer, IdleInv
    <3>3. ~ (SendOffer(a) /\ (ClientStep(a) \/ NodeStep(a)))
      BY <3>2 DEF ClientStep, NodeStep, ReceiveAccept, ReceiveAck, ReceiveComplete, ClientFails, ReceiveOffer,
                  DropOffer, ReceiveData, RejectChunk, ReceiveFinished, FinishedFails, Rename, NodeEof, AtNode,
                  SenderWaits
    <3> QED
      BY <1>3, <3>1, <3>3
  <2>2. CASE spc[a] = "done"
    <3>1. ~ ClientStep(a)
      BY <2>2 DEF ClientStep, ReceiveAccept, ReceiveAck, ReceiveComplete, ClientFails, SenderWaits
    <3>2. UNCHANGED spc
      BY <1>3, <3>1 DEF NodeStep, ReceiveOffer, DropOffer, ReceiveData, RejectChunk, ReceiveFinished, FinishedFails,
                        Rename, NodeEof, NodeFails, clientVars
    <3> QED
      BY <2>2, <3>2
  <2>3. CASE Talking(a)
    <3>1. up[a] /\ source[a] = offer[a]
      BY <2>3 DEF Talking
    <3>2. CASE Offered(a)
      BY <1>3, <3>1, <3>2, TalkOffered
    <3>3. CASE Resumed(a)
      BY <1>3, <3>1, <3>3, TalkResumed
    <3>4. CASE Sent(a)
      BY <1>3, <3>1, <3>4, TalkSent
    <3>5. CASE Acked(a)
      BY <1>3, <3>1, <3>5, TalkAcked
    <3>6. CASE Finishing(a)
      BY <1>3, <3>1, <3>6, TalkFinishing
    <3>7. CASE Renaming(a)
      BY <1>3, <3>1, <3>7, TalkRenaming
    <3>8. CASE Completed(a)
      BY <1>3, <3>1, <3>8, TalkCompleted
    <3> QED
      BY <2>3, <3>2, <3>3, <3>4, <3>5, <3>6, <3>7, <3>8 DEF Talking
  <2> QED
    BY <2>1, <2>2, <2>3
<1> QED
  BY <1>1, <1>2, <1>3 DEF Acts

\* What the others do does not reach the file of a receiver at work.
LEMMA TalkOthers ==
    ASSUME TypeOK, SingleInv, Next, ~ shared', NEW a \in Attempts, Talking(a), offer' = offer,
           NEW b \in Attempts, Acts(b), b # a
    PROVE  Talking(a)'
<1>1. ASSUME rpc[a] = "chunks" PROVE files' = files
  <2>1. ~ ReceiveOffer(b)
    BY <1>1, Unshared DEF ReceiverBusy
  <2>2. ~ ReceiveData(b)
    BY <1>1 DEF ReceiveData, SingleInv, ReceiverBusy
  <2> QED
    BY <2>1, <2>2, WrittenBy
<1>5. /\ spc'[a] = spc[a] /\ rpc'[a] = rpc[a] /\ up'[a] = up[a]
      /\ toNode'[a] = toNode[a] /\ toClient'[a] = toClient[a] /\ handle'[a] = handle[a]
  BY Others
<1>6. source'[a] = source[a] /\ received'[a] = received[a] /\ current'[a] = current[a]
  BY OthersKeep
<1> QED
  BY <1>1, <1>5, <1>6, TalkingStays

\* Every step keeps TalkInv.
LEMMA TalkStep ==
    ASSUME Inv, FreshInv, TalkInv, Next, ~ shared'
    PROVE  TalkInv'
<1> SUFFICES ASSUME NEW a \in Attempts, ~ fault'[a], ~ stale'[a]
             PROVE  spc'[a] \in {"idle", "done"} \/ Talking(a)'
  BY DEF TalkInv
<1>1. TypeOK /\ IdleInv /\ DiskInv /\ SingleInv
  BY Unshared DEF Inv
<1>2. offer' = offer
  BY OfferStays
<1>3. CASE NodeDies
  <2>1. ~ fault[a] /\ ~ up[a] /\ UNCHANGED <<spc, stale>>
    BY <1>3 DEF NodeDies, clientVars, receiverVars
  <2> QED
    BY <2>1 DEF TalkInv, Talking
<1>4. CASE Acts(a)
  <2>1. ~ fault[a]
    BY <1>1, <1>4, OwnFlags
  <2>2. ~ stale[a]
    <3>1. ReceiveOffer(a) => rpc[a] = "loop"
      BY DEF ReceiveOffer
    <3> QED
      BY <1>1, <1>4, <3>1, OwnFlags DEF FreshInv
  <2> QED
    BY <1>1, <1>2, <1>4, <2>1, <2>2, TalkActs DEF TalkInv
<1>5. ASSUME NEW b \in Attempts, Acts(b), b # a
      PROVE  spc'[a] \in {"idle", "done"} \/ Talking(a)'
  <2>1. fault'[a] = fault[a] /\ stale'[a] = stale[a]
    BY <1>1, <1>5, OthersKeep
  <2>2. spc'[a] = spc[a]
    BY <1>1, <1>5, Others
  <2> QED
    BY <1>1, <1>2, <1>5, <2>1, <2>2, TalkOthers DEF TalkInv
<1> QED
  BY <1>3, <1>4, <1>5, Steps

\* Until two receivers have had the .part file open at the same time, an attempt on a
\* connection that nothing happened to, over a .part that held no foreign bytes, never
\* fails: each side always meets the frame that it expects, every chunk fits and matches,
\* and verify accepts the result, whatever earlier attempts left behind and whatever other
\* clients do meanwhile (run_send_file, handle_file_transfer, FileReceiver::to_dir and
\* receive_chunk).
THEOREM FaultsExplainFailures == Spec => []FailsOnlyByFault
<1>1. Init => FreshInv /\ (~ shared => TalkInv)
  BY DEF Init, FreshInv, TalkInv
<1>2. Inv /\ FreshInv /\ (~ shared => TalkInv) /\ [Next]_vars => FreshInv' /\ (~ shared => TalkInv)'
  <2> SUFFICES ASSUME Inv, FreshInv, ~ shared => TalkInv, [Next]_vars
               PROVE  FreshInv' /\ (~ shared' => TalkInv')
    OBVIOUS
  <2>1. CASE Next
    <3>1. FreshInv'
      BY <2>1, FreshStep DEF Inv
    <3>2. ASSUME ~ shared' PROVE TalkInv'
      <4>1. ~ shared
        BY <2>1, <3>2, Unshared DEF Inv
      <4> QED
        BY <2>1, <3>2, <4>1, TalkStep
    <3> QED
      BY <3>1, <3>2
  <2>2. CASE UNCHANGED vars
    <3> USE DEF vars, clientVars, receiverVars, diskVars
    <3>1. FreshInv'
      BY <2>2 DEF FreshInv
    <3>2. ASSUME NEW a \in Attempts, Talking(a) PROVE Talking(a)'
      BY <2>2, <3>2, TalkingStays
    <3>3. TalkInv => TalkInv'
      BY <2>2, <3>2 DEF TalkInv
    <3>4. shared' = shared
      BY <2>2
    <3> QED
      BY <3>1, <3>3, <3>4
  <2> QED
    BY <2>1, <2>2
<1>3. (~ shared => TalkInv) => FailsOnlyByFault
  BY DEF TalkInv, Talking, Offered, Resumed, Sent, Acked, Finishing, Renaming, Completed, FailsOnlyByFault
<1> QED
  BY <1>1, <1>2, <1>3, TransferInvariant, PTL DEF Spec

-----------------------------------------------------------------------------
(***************************************************************************)
(* Nobody waits in vain, however many attempts are under way.              *)
(***************************************************************************)

\* A stream with one frame, of type t.
Single(q, t) == q # <<>> /\ Tail(q) = <<>> /\ Head(q).type = t

\* A client that waits on a connection that is up: a clipboard update is about to end the
\* attempt, or one frame is under way and the reader waits for its type, or the node has
\* the rename to do, or it has dropped the Offer.
Exchange(a) ==
    \/ toClient[a] # <<>> /\ Head(toClient[a]).type = "Clipboard"
    \/ /\ toClient[a] = <<>>
       /\ \/ spc[a] = "awaitAccept" /\ rpc[a] = "loop" /\ Single(toNode[a], "Offer")
          \/ spc[a] = "awaitAccept" /\ rpc[a] = "loop" /\ toNode[a] = <<>> /\ ~ trusted[a]
          \/ spc[a] = "awaitAck" /\ rpc[a] = "chunks" /\ Single(toNode[a], "Data")
          \/ spc[a] = "awaitComplete" /\ rpc[a] = "chunks" /\ Single(toNode[a], "Finished")
          \/ spc[a] = "awaitComplete" /\ rpc[a] = "renaming" /\ toNode[a] = <<>>
    \/ /\ toNode[a] = <<>>
       /\ \/ spc[a] = "awaitAccept" /\ rpc[a] = "chunks" /\ Single(toClient[a], "Accept")
          \/ spc[a] = "awaitAck" /\ rpc[a] = "chunks" /\ Single(toClient[a], "Ack")
          \/ spc[a] = "awaitComplete" /\ rpc[a] = "done" /\ Single(toClient[a], "Complete")

ExchangeInv == \A a \in Attempts : spc[a] \in SenderWaits /\ up[a] => Exchange(a)

\* A client that waits can go on when there is a frame or the end of the stream to read.
ClientCanRead(a) == toClient[a] # <<>> \/ ~ up[a]

\* The node can go on when there is a frame that its loop handles, or a file to rename.
NodeCanAct(a) ==
    \/ rpc[a] = "loop" /\ AtNode(a, "Offer")
    \/ rpc[a] = "chunks" /\ (AtNode(a, "Data") \/ AtNode(a, "Finished"))
    \/ rpc[a] = "renaming"

\* Client and node of an attempt never wait for each other, unless the trust gate has
\* dropped the Offer.
NoMutualWait ==
    \A a \in Attempts : spc[a] \in SenderWaits /\ trusted[a] => ClientCanRead(a) \/ NodeCanAct(a)

\* Frames that are read and written.
LEMMA SingleFacts ==
    /\ \A t : ~ Single(<<>>, t)
    /\ \A f : Single(<<f>>, f.type)
    /\ \A f : Single(Append(<<>>, f), f.type)
    /\ \A q \in Seq(Frames), f \in Frames : q # <<>> => Append(q, f) # <<>> /\ Head(Append(q, f)) = Head(q)
<1>1. \A f : <<f>> # <<>> /\ Tail(<<f>>) = <<>> /\ Head(<<f>>) = f /\ Append(<<>>, f) = <<f>>
  BY SMT
<1>2. ASSUME NEW q \in Seq(Frames), NEW f \in Frames, q # <<>>
      PROVE  Append(q, f) # <<>> /\ Head(Append(q, f)) = Head(q)
  BY <1>2, SMT
<1> QED
  BY <1>1, <1>2 DEF Single

\* A stream with one frame, by its length.
LEMMA OneLong ==
    ASSUME NEW q \in Seq(Frames)
    PROVE  /\ q # <<>> /\ Tail(q) = <<>> => Len(q) = 1
           /\ Len(q) = 1 => q # <<>> /\ Tail(q) = <<>> /\ Head(q) = q[1]
<1>1. Len(q) \in Nat /\ (q = <<>> <=> Len(q) = 0) /\ Len(<<>>) = 0
  BY SMT
<1>2. q # <<>> => Tail(q) \in Seq(Frames) /\ Len(Tail(q)) = Len(q) - 1 /\ Head(q) = q[1]
  BY SMT
<1>3. \A t \in Seq(Frames) : Len(t) = 0 => t = <<>>
  BY SMT
<1>4. Len(q) = 1 => q # <<>> /\ Len(q) - 1 = 0
  BY <1>1, SMT
<1>5. Len(q) - 1 = 0 => Len(q) = 1
  BY <1>1, SMT
<1> QED
  BY <1>1, <1>2, <1>3, <1>4, <1>5

\* The types of the frames that are built.
LEMMA BuiltTypes ==
    /\ \A t : [type |-> t].type = t
    /\ \A t, n : [type |-> t, index |-> n].type = t
    /\ \A n, d : [type |-> "Data", index |-> n, intact |-> TRUE, data |-> d].type = "Data"
BY SMT

\* A waiting client on a connection that is up was one before, or sends its Offer.
LEMMA WaitingBefore ==
    ASSUME TypeOK, NEW a \in Attempts, Acts(a), ~ SendOffer(a), spc'[a] \in SenderWaits, up'[a]
    PROVE  spc[a] \in SenderWaits /\ up[a]
<1> USE DEF clientVars, SenderWaits
<1>1. spc \in [Attempts -> SenderWaits \cup {"idle", "done", "failed"}] /\ up \in [Attempts -> BOOLEAN]
  BY DEF TypeOK
<1>2. ASSUME NEW i, SendNext(a, i) PROVE up[a]
  BY <1>1, <1>2 DEF SendNext
<1>3. CASE ReceiveAccept(a) \/ ReceiveAck(a)
  BY <1>1, <1>2, <1>3 DEF ReceiveAccept, ReceiveAck
<1>4. CASE ReceiveComplete(a) \/ ClientFails(a) \/ NodeFails(a)
  BY <1>1, <1>4 DEF ReceiveComplete, ClientFails, NodeFails
<1>5. CASE ReceiveOffer(a)
  BY <1>5 DEF ReceiveOffer
<1>6. CASE DropOffer(a) \/ ReceiveData(a) \/ ReceiveFinished(a)
  BY <1>6 DEF DropOffer, ReceiveData, ReceiveFinished
<1>7. CASE Rename(a) /\ part # None
  BY <1>7 DEF Rename
<1>8. CASE LinkLoss(a) \/ Interject(a) \/ Corrupt(a) \/ Edit(a)
  BY <1>1, <1>8 DEF LinkLoss, Interject, Corrupt, Edit
<1> QED
  BY <1>3, <1>4, <1>5, <1>6, <1>7, <1>8 DEF Acts, ClientStep, NodeStep, RejectChunk, FinishedFails, Rename, NodeEof

\* The client goes on to the next chunk, or gives up.
LEMMA ExchangeNext ==
    ASSUME TypeOK, NEW a \in Attempts, NEW i, SendNext(a, i), up[a], rpc[a] = "chunks", toNode[a] = <<>>,
           rpc'[a] = rpc[a], toClient'[a] = <<>>, up'[a]
    PROVE  Exchange(a)'
<1>1. /\ spc \in [Attempts -> SenderWaits \cup {"idle", "done", "failed"}] /\ up \in [Attempts -> BOOLEAN]
      /\ toNode \in [Attempts -> Seq(Frames)]
  BY DEF TypeOK
<1>2. ASSUME NEW f, ToNode(a, f) PROVE Single(toNode'[a], f.type)
  BY <1>1, <1>2, SingleFacts DEF ToNode
<1> DEFINE chunk == [type |-> "Data", index |-> i, intact |-> TRUE,
                     data |-> SubSeq(Content[source[a]], i * ChunkSize + 1, i * ChunkSize + expected_chunk_size(a, i))]
<1>3. \/ ToNode(a, chunk) /\ spc' = [spc EXCEPT ![a] = "awaitAck"]
      \/ ToNode(a, [type |-> "Finished"]) /\ spc' = [spc EXCEPT ![a] = "awaitComplete"]
  BY <1>1 DEF SendNext
<1>4. chunk.type = "Data" /\ [type |-> "Finished"].type = "Finished"
  BY BuiltTypes
<1> HIDE DEF chunk
<1>5. CASE ToNode(a, chunk) /\ spc' = [spc EXCEPT ![a] = "awaitAck"]
  <2>1. Single(toNode'[a], "Data")
    BY <1>2, <1>4, <1>5
  <2> QED
    BY <1>1, <1>5, <2>1 DEF Exchange
<1>6. CASE ToNode(a, [type |-> "Finished"]) /\ spc' = [spc EXCEPT ![a] = "awaitComplete"]
  <2>1. Single(toNode'[a], "Finished")
    BY <1>2, <1>4, <1>6
  <2> QED
    BY <1>1, <1>6, <2>1 DEF Exchange
<1> QED
  BY <1>3, <1>5, <1>6

\* The client reads.
LEMMA ExchangeClient ==
    ASSUME TypeOK, NEW a \in Attempts, Exchange(a), up[a], ClientStep(a), spc'[a] \in SenderWaits, up'[a]
    PROVE  Exchange(a)'
<1>1. /\ spc \in [Attempts -> SenderWaits \cup {"idle", "done", "failed"}]
      /\ toClient \in [Attempts -> Seq(Frames)]
  BY DEF TypeOK
<1>2. CASE ReceiveAccept(a)
  <2>1. spc[a] = "awaitAccept" /\ toClient[a] # <<>> /\ Head(toClient[a]).type = "Accept"
    BY <1>2 DEF ReceiveAccept, AtClient
  <2>2. rpc[a] = "chunks" /\ toNode[a] = <<>> /\ Tail(toClient[a]) = <<>>
    BY <2>1 DEF Exchange, Single
  <2>3. toClient'[a] = <<>> /\ rpc'[a] = rpc[a]
    BY <1>1, <1>2, <2>2 DEF ReceiveAccept, TakenByClient
  <2> QED
    BY <1>2, <2>2, <2>3, ExchangeNext DEF ReceiveAccept
<1>3. CASE ReceiveAck(a)
  <2>1. spc[a] = "awaitAck" /\ toClient[a] # <<>> /\ Head(toClient[a]).type = "Ack"
    BY <1>3 DEF ReceiveAck, AtClient
  <2>2. rpc[a] = "chunks" /\ toNode[a] = <<>> /\ Tail(toClient[a]) = <<>>
    BY <2>1 DEF Exchange, Single
  <2>3. toClient'[a] = <<>> /\ rpc'[a] = rpc[a]
    BY <1>1, <1>3, <2>2 DEF ReceiveAck, TakenByClient
  <2> QED
    BY <1>3, <2>2, <2>3, ExchangeNext DEF ReceiveAck
<1>4. ~ ReceiveComplete(a) /\ ~ ClientFails(a)
  BY <1>1 DEF ReceiveComplete, ClientFails, SenderWaits
<1> QED
  BY <1>2, <1>3, <1>4 DEF ClientStep

\* A clipboard update stays at the head of the stream until the client reads it.
LEMMA ClipboardFirst ==
    ASSUME TypeOK, NEW a \in Attempts, toClient[a] # <<>>, Head(toClient[a]).type = "Clipboard",
           toClient'[a] = toClient[a] \/ \E f \in Frames : ToClient(a, f)
    PROVE  Exchange(a)'
<1>1. toClient \in [Attempts -> Seq(Frames)] /\ toClient[a] \in Seq(Frames)
  BY DEF TypeOK
<1>2. ASSUME NEW f \in Frames, ToClient(a, f)
      PROVE  toClient'[a] = toClient[a] \/ toClient'[a] = Append(toClient[a], f)
  BY <1>1, <1>2 DEF ToClient
<1>3. toClient'[a] # <<>> /\ Head(toClient'[a]) = Head(toClient[a])
  BY <1>1, <1>2, SingleFacts
<1> QED
  BY <1>3 DEF Exchange

\* The node answers.
LEMMA ExchangeAnswer ==
    ASSUME TypeOK, NEW a \in Attempts, toClient[a] = <<>>, up[a], NEW f, ToClient(a, f)
    PROVE  Single(toClient'[a], f.type)
BY SingleFacts DEF ToClient, TypeOK

\* The node reads a frame or renames the file.
LEMMA ExchangeNode ==
    ASSUME TypeOK, OpenInv, NEW a \in Attempts, Exchange(a), spc[a] \in SenderWaits, up[a], NodeStep(a), up'[a]
    PROVE  Exchange(a)'
<1> USE DEF clientVars
<1>1. /\ rpc \in [Attempts -> ReceiverBusy \cup {"loop", "done", "failed"}] /\ up \in [Attempts -> BOOLEAN]
      /\ toNode \in [Attempts -> Seq(Frames)]
  BY DEF TypeOK
<1>2. ~ NodeFails(a)
  BY <1>1 DEF NodeFails
<1>3. CASE ReceiveOffer(a)
  <2> DEFINE total == total_chunks(a)
             existing == IF part = None THEN <<>> ELSE files[part]
             got == IF existing # <<>> /\ total > 0 THEN {i \in 0..total : i < valid_chunks(existing, total)} ELSE {}
             accept == [type |-> "Accept", index |-> next_expected_chunk(got, total)]
  <2>1. /\ rpc[a] = "loop" /\ toNode[a] # <<>> /\ Head(toNode[a]).type = "Offer"
        /\ TakenByNode(a) /\ ToClient(a, accept) /\ rpc' = [rpc EXCEPT ![a] = "chunks"]
        /\ UNCHANGED spc
    BY <1>3 DEF ReceiveOffer, AtNode
  <2>2. accept.type = "Accept"
    BY BuiltTypes
  <2> HIDE DEF accept
  <2>3. CASE toClient[a] # <<>>
    <3>1. Head(toClient[a]).type = "Clipboard"
      BY <2>1, <2>3 DEF Exchange
    <3>2. toClient'[a] # <<>> /\ Head(toClient'[a]) = Head(toClient[a])
      <4>1. toClient'[a] = Append(toClient[a], accept)
        BY <2>1 DEF ToClient, TypeOK
      <4>2. toClient[a] \in Seq(Frames)
        BY DEF TypeOK
      <4> QED
        BY <2>3, <4>1, <4>2, SMTT(30)
    <3> QED
      BY <3>1, <3>2 DEF Exchange
  <2>4. CASE toClient[a] = <<>>
    <3>1. spc[a] = "awaitAccept" /\ Tail(toNode[a]) = <<>>
      BY <2>1, <2>4 DEF Exchange, Single
    <3>2. toNode'[a] = <<>> /\ rpc'[a] = "chunks"
      BY <1>1, <2>1, <3>1 DEF TakenByNode
    <3>3. Single(toClient'[a], "Accept")
      BY <2>1, <2>2, <2>4, ExchangeAnswer
    <3> QED
      BY <2>1, <3>1, <3>2, <3>3 DEF Exchange
  <2> QED
    BY <2>3, <2>4
<1>4. CASE DropOffer(a)
  <2>1. /\ rpc[a] = "loop" /\ toNode[a] # <<>> /\ ~ trusted[a]
        /\ TakenByNode(a) /\ UNCHANGED <<rpc, toClient, trusted, spc>>
    BY <1>4 DEF DropOffer, AtNode
  <2>2. CASE toClient[a] # <<>>
    BY <2>1, <2>2 DEF Exchange
  <2>3. CASE toClient[a] = <<>>
    <3>1. spc[a] = "awaitAccept" /\ Tail(toNode[a]) = <<>>
      BY <2>1, <2>3 DEF Exchange, Single
    <3>2. toNode'[a] = <<>>
      BY <1>1, <2>1, <3>1 DEF TakenByNode
    <3> QED
      BY <2>1, <2>3, <3>1, <3>2 DEF Exchange
  <2> QED
    BY <2>2, <2>3
<1>5. CASE ReceiveData(a)
  <2> DEFINE f == Head(toNode[a])
             ack == [type |-> "Ack", index |-> f.index]
  <2>1. /\ rpc[a] = "chunks" /\ toNode[a] # <<>> /\ f.type = "Data"
        /\ TakenByNode(a) /\ ToClient(a, ack) /\ UNCHANGED <<rpc, spc>>
    BY <1>5 DEF ReceiveData, AtNode
  <2>2. ack.type = "Ack" /\ ack \in Frames
    BY <2>1, BuiltTypes, Heads, FrameFields, FramesBuilt
  <2> HIDE DEF ack
  <2>3. CASE toClient[a] # <<>>
    BY <2>1, <2>2, <2>3, ClipboardFirst DEF Exchange
  <2>4. CASE toClient[a] = <<>>
    <3>1. spc[a] = "awaitAck" /\ Tail(toNode[a]) = <<>>
      BY <2>1, <2>4 DEF Exchange, Single
    <3>2. toNode'[a] = <<>>
      BY <1>1, <2>1, <3>1 DEF TakenByNode
    <3>3. Single(toClient'[a], "Ack")
      BY <2>1, <2>2, <2>4, ExchangeAnswer
    <3> QED
      BY <2>1, <3>1, <3>2, <3>3 DEF Exchange
  <2> QED
    BY <2>3, <2>4
<1>6. CASE ReceiveFinished(a)
  <2>1. /\ rpc[a] = "chunks" /\ toNode[a] # <<>> /\ Head(toNode[a]).type = "Finished"
        /\ TakenByNode(a) /\ rpc' = [rpc EXCEPT ![a] = "renaming"] /\ UNCHANGED <<toClient, spc>>
    BY <1>6 DEF ReceiveFinished, AtNode
  <2>2. CASE toClient[a] # <<>>
    BY <2>1, <2>2 DEF Exchange
  <2>3. CASE toClient[a] = <<>>
    <3>1. spc[a] = "awaitComplete" /\ Tail(toNode[a]) = <<>>
      BY <2>1, <2>3 DEF Exchange, Single
    <3>2. toNode'[a] = <<>> /\ rpc'[a] = "renaming"
      BY <1>1, <2>1, <3>1 DEF TakenByNode
    <3> QED
      BY <2>1, <2>3, <3>1, <3>2 DEF Exchange
  <2> QED
    BY <2>2, <2>3
<1>7. CASE Rename(a) /\ part # None
  <2> DEFINE complete == [type |-> "Complete"]
  <2>1. /\ rpc[a] = "renaming" /\ ToClient(a, complete) /\ rpc' = [rpc EXCEPT ![a] = "done"]
        /\ UNCHANGED <<toNode, spc>>
    BY <1>7 DEF Rename
  <2>2. complete.type = "Complete" /\ complete \in Frames
    BY BuiltTypes, FramesBuilt
  <2> HIDE DEF complete
  <2>3. CASE toClient[a] # <<>>
    BY <2>1, <2>2, <2>3, ClipboardFirst DEF Exchange
  <2>4. CASE toClient[a] = <<>>
    <3>1. spc[a] = "awaitComplete" /\ toNode[a] = <<>>
      BY <2>1, <2>4 DEF Exchange
    <3>2. Single(toClient'[a], "Complete") /\ rpc'[a] = "done"
      BY <1>1, <2>1, <2>2, <2>4, ExchangeAnswer
    <3> QED
      BY <2>1, <3>1, <3>2 DEF Exchange
  <2> QED
    BY <2>3, <2>4
<1> QED
  BY <1>2, <1>3, <1>4, <1>5, <1>6, <1>7 DEF NodeStep, RejectChunk, FinishedFails, Rename, NodeEof

\* What happens from outside leaves the exchange as it is, ends it or puts a clipboard update into it.
LEMMA ExchangeFault ==
    ASSUME TypeOK, NEW a \in Attempts, Exchange(a), up'[a],
           LinkLoss(a) \/ Interject(a) \/ Corrupt(a) \/ Edit(a)
    PROVE  Exchange(a)'
<1> USE DEF clientVars
<1>1. /\ up \in [Attempts -> BOOLEAN] /\ toNode \in [Attempts -> Seq(Frames)] /\ toNode[a] \in Seq(Frames)
  BY DEF TypeOK
<1>2. ~ LinkLoss(a)
  BY <1>1 DEF LinkLoss
<1>3. CASE Interject(a)
  <2>1. toClient[a] = <<>> /\ up[a] /\ ToClient(a, [type |-> "Clipboard"])
    BY <1>3 DEF Interject
  <2>2. Single(toClient'[a], "Clipboard")
    BY <2>1, ExchangeAnswer, BuiltTypes
  <2> QED
    BY <2>2 DEF Exchange, Single
<1>4. CASE Corrupt(a)
  <2>1. /\ toNode[a] # <<>> /\ Head(toNode[a]).type = "Data"
        /\ toNode' = [toNode EXCEPT ![a][1].intact = FALSE]
        /\ UNCHANGED <<spc, rpc, toClient, trusted>>
    BY <1>4 DEF Corrupt, AtNode
  <2> DEFINE q == toNode[a]
             f == Head(q)
             g == [f EXCEPT !.intact = FALSE]
  <2>2. f \in Frames /\ f.type = "Data"
    BY <2>1, Heads
  <2>3. g.type = "Data"
    <3>1. f \in [type : {"Data"}, index : Nat, data : Seq(Nat), intact : BOOLEAN]
      BY <2>2, SMT DEF Frames
    <3> HIDE DEF f
    <3> QED
      BY <3>1, SMT
  <2>4. Tail(q) = <<>> => Single(toNode'[a], "Data")
    <3>1. toNode'[a] = [q EXCEPT ![1] = [q[1] EXCEPT !.intact = FALSE]]
      BY <1>1, <2>1
    <3>2. q \in Seq(Frames) /\ q # <<>>
      BY <1>1, <2>1
    <3> HIDE DEF q
    <3>3. q[1] = Head(q)
      BY <3>2, SMT
    <3>4. g \in Frames
      BY <2>2, FrameCorrupted
    <3> DEFINE r == [q EXCEPT ![1] = g]
    <3>5. r \in Seq(Frames) /\ Len(r) = Len(q) /\ r[1] = g
      <4> HIDE DEF g
      <4> QED
        BY <3>2, <3>4, SMT
    <3>6. toNode'[a] = r
      BY <3>1, <3>3
    <3> HIDE DEF r
    <3>7. Tail(q) = <<>> => r # <<>> /\ Tail(r) = <<>> /\ Head(r) = r[1]
      BY <3>2, <3>5, OneLong
    <3> QED
      BY <2>3, <3>5, <3>6, <3>7 DEF Single
  <2> HIDE DEF q, f, g
  <2>5. CASE toClient[a] # <<>> /\ Head(toClient[a]).type = "Clipboard"
    BY <2>1, <2>5 DEF Exchange
  <2>6. CASE ~ (toClient[a] # <<>> /\ Head(toClient[a]).type = "Clipboard")
    <3>1. toClient[a] = <<>> /\ spc[a] = "awaitAck" /\ rpc[a] = "chunks" /\ Tail(toNode[a]) = <<>>
      BY <2>1, <2>6 DEF Exchange, Single
    <3>2. Single(toNode'[a], "Data")
      BY <2>4, <3>1 DEF q
    <3> QED
      BY <2>1, <3>1, <3>2 DEF Exchange
  <2> QED
    BY <2>5, <2>6
<1>5. CASE Edit(a)
  BY <1>5 DEF Edit, Exchange
<1> QED
  BY <1>2, <1>3, <1>4, <1>5

\* Nobody changes the trust that an attempt found.
LEMMA TrustedStays ==
    ASSUME Next
    PROVE  trusted' = trusted
<1>1. CASE NodeDies
  BY <1>1 DEF NodeDies
<1>2. ASSUME NEW a \in Attempts, Acts(a) PROVE trusted' = trusted
  BY <1>2 DEF Acts, SendOffer, ClientStep, NodeStep, ReceiveAccept, ReceiveAck, ReceiveComplete,
              ClientFails, ReceiveOffer, DropOffer, ReceiveData, RejectChunk, ReceiveFinished,
              FinishedFails, Rename, NodeEof, NodeFails, LinkLoss, Interject, Corrupt, Edit
<1> QED
  BY <1>1, <1>2, Steps

\* Every step keeps ExchangeInv.
LEMMA ExchangeStep ==
    ASSUME TypeOK, OpenInv, IdleInv, ExchangeInv, Next
    PROVE  ExchangeInv'
<1> SUFFICES ASSUME NEW a \in Attempts, spc'[a] \in SenderWaits, up'[a] PROVE Exchange(a)'
  BY DEF ExchangeInv
<1>1. ~ NodeDies
  BY DEF NodeDies
<1>2. CASE Acts(a)
  <2>1. CASE SendOffer(a)
    <3>1. rpc[a] = "loop" /\ toClient[a] = <<>>
      BY <2>1 DEF SendOffer, IdleInv
    <3>2. /\ spc'[a] = "awaitAccept" /\ toNode'[a] = <<[type |-> "Offer"]>> /\ UNCHANGED <<rpc, toClient>>
      BY <2>1 DEF SendOffer, TypeOK
    <3>3. Single(toNode'[a], "Offer")
      <4> DEFINE f == [type |-> "Offer"]
      <4>1. f.type = "Offer" /\ toNode'[a] = <<f>>
        BY <3>2, BuiltTypes
      <4> HIDE DEF f
      <4> QED
        BY <4>1, SingleFacts
    <3> QED
      BY <3>1, <3>2, <3>3 DEF Exchange
  <2>2. CASE ~ SendOffer(a)
    <3>1. spc[a] \in SenderWaits /\ up[a] /\ Exchange(a)
      BY <1>2, <2>2, WaitingBefore DEF ExchangeInv
    <3> QED
      BY <1>2, <2>2, <3>1, ExchangeClient, ExchangeNode, ExchangeFault DEF Acts
  <2> QED
    BY <2>1, <2>2
<1>3. ASSUME NEW b \in Attempts, Acts(b), b # a PROVE Exchange(a)'
  <2>1. /\ spc'[a] = spc[a] /\ rpc'[a] = rpc[a] /\ up'[a] = up[a]
        /\ toNode'[a] = toNode[a] /\ toClient'[a] = toClient[a]
    BY <1>3, Others
  <2>2. trusted' = trusted
    BY TrustedStays
  <2>3. Exchange(a)
    BY <2>1 DEF ExchangeInv
  <2> QED
    BY <2>1, <2>2, <2>3 DEF Exchange
<1> QED
  BY <1>1, <1>2, <1>3, Steps

\* Client and node of an attempt never wait for each other, whatever happens to connections,
\* files and the node and however many attempts share a .part: a client that waits has a
\* frame or the end of its stream to read, or the node has something to do for it
\* (run_send_file and handle_file_transfer await without a timeout). This is the part of
\* AttemptEnds that is not about fairness.
THEOREM NobodyWaitsInVain == Spec => []NoMutualWait
<1>1. Init => TypeOK /\ OpenInv /\ IdleInv /\ ExchangeInv
  <2>1. Init => OpenInv
    BY DEF Init, OpenInv, ReceiverBusy
  <2>2. Init => ExchangeInv
    BY DEF Init, ExchangeInv, SenderWaits
  <2> QED
    BY <2>1, <2>2, InvInit DEF Inv
<1>2. TypeOK /\ OpenInv /\ IdleInv /\ ExchangeInv /\ [Next]_vars => TypeOK' /\ OpenInv' /\ IdleInv' /\ ExchangeInv'
  <2> SUFFICES ASSUME TypeOK, OpenInv, IdleInv, ExchangeInv, [Next]_vars
               PROVE  TypeOK' /\ OpenInv' /\ IdleInv' /\ ExchangeInv'
    OBVIOUS
  <2>1. CASE Next
    BY <2>1, TypeStep, OpenStep, IdleStep, ExchangeStep
  <2>2. CASE UNCHANGED vars
    <3>1. OpenInv' /\ IdleInv'
      BY <2>2 DEF vars, clientVars, diskVars, receiverVars, OpenInv, IdleInv
    <3>2. ExchangeInv'
      <4>1. UNCHANGED <<spc, rpc, up, toNode, toClient, trusted>>
        BY <2>2 DEF vars, clientVars, diskVars, receiverVars
      <4>2. ASSUME NEW a \in Attempts, Exchange(a) PROVE Exchange(a)'
        BY <4>1, <4>2 DEF Exchange
      <4> QED
        BY <4>1, <4>2 DEF ExchangeInv
    <3> QED
      BY <3>1, <3>2, TypeStep
  <2> QED
    BY <2>1, <2>2
<1>3. ExchangeInv => NoMutualWait
  BY DEF ExchangeInv, Exchange, Single, NoMutualWait, ClientCanRead, NodeCanAct, AtNode
<1> QED
  BY <1>1, <1>2, <1>3, PTL DEF Spec
=============================================================================
