------------------------------ MODULE Transfer ------------------------------
(***************************************************************************)
(* Sending a file: run_send_file with FileSender on the client, and        *)
(* handle_file_transfer with FileReceiver on the node, over one connection *)
(* per attempt.  All attempts offer the same file name, so they meet in    *)
(* one .part file and one final file.  A file is the sequence of its       *)
(* bytes; ChunkSize stands for 64 KB.  A hash stands for what it is        *)
(* computed over.                                                          *)
(***************************************************************************)
EXTENDS Integers, Sequences, FiniteSets

CONSTANTS Attempts,   \* runs of run_send_file, each with its connection
          Version,    \* contents the offered file may have
          Content,    \* Content[v]: the bytes of v
          ChunkSize,  \* CHUNK_SIZE
          None        \* no such file

ASSUME TransferConstants ==
    /\ ChunkSize \in Nat \ {0}
    /\ Content \in [Version -> Seq(Nat \ {0})]
    /\ None \notin Attempts

\* What a hole in a file reads as.
Hole == 0

VARIABLES
    spc,        \* the client: "idle", a receive it awaits, "done", "failed"
    rpc,        \* the node's handler: "loop", "chunks", "renaming", "done", "failed"
    up,         \* whether the connection of an attempt is up
    toNode, toClient,  \* frames in flight
    trusted,    \* whether the node's session trusts the client
    offer,      \* the version the manifest was made from
    source,     \* the version the client's file has when a chunk is read
    current,    \* FileSender.current_chunk
    received,   \* FileReceiver.received_chunks
    handle,     \* the file a receiver has open, named by the attempt that created it
    files,      \* the bytes of each such file
    part, final,  \* the files the names <name>.part and <name> refer to
    fault,      \* history: something outside the protocol hit the attempt
    stale,      \* history: the attempt resumed over bytes that are not its file's
    shared,     \* history: two receivers had the .part file open at the same time
    stored,     \* history: attempts whose receiver renamed the .part file
    latest      \* history: the last of them

clientVars == <<spc, offer, source, current>>
diskVars == <<files, part, final, stored, latest>>
receiverVars == <<received, handle, stale, shared>>
vars == <<clientVars, rpc, up, toNode, toClient, trusted, receiverVars, diskVars, fault>>

SenderWaits == {"awaitAccept", "awaitAck", "awaitComplete"}
ReceiverBusy == {"chunks", "renaming"}
Frames ==
    [type : {"Offer", "Finished", "Complete", "Clipboard"}]
        \cup [type : {"Accept", "Ack"}, index : Nat]
        \cup [type : {"Data"}, index : Nat, data : Seq(Nat), intact : BOOLEAN]

TypeOK ==
    /\ spc \in [Attempts -> SenderWaits \cup {"idle", "done", "failed"}]
    /\ rpc \in [Attempts -> ReceiverBusy \cup {"loop", "done", "failed"}]
    /\ up \in [Attempts -> BOOLEAN]
    /\ toNode \in [Attempts -> Seq(Frames)]
    /\ toClient \in [Attempts -> Seq(Frames)]
    /\ trusted \in [Attempts -> BOOLEAN]
    /\ offer \in [Attempts -> Version]
    /\ source \in [Attempts -> Version]
    /\ current \in [Attempts -> Nat]
    /\ received \in [Attempts -> SUBSET Nat]
    /\ handle \in [Attempts -> Attempts \cup {None}]
    /\ files \in [Attempts -> Seq(Nat)]
    /\ part \in Attempts \cup {None}
    /\ final \in Attempts \cup {None}
    /\ fault \in [Attempts -> BOOLEAN]
    /\ stale \in [Attempts -> BOOLEAN]
    /\ shared \in BOOLEAN
    /\ stored \subseteq Attempts
    /\ latest \in Attempts \cup {None}

Init ==
    /\ spc = [a \in Attempts |-> "idle"]
    /\ rpc = [a \in Attempts |-> "loop"]
    /\ up = [a \in Attempts |-> FALSE]
    /\ toNode = [a \in Attempts |-> <<>>]
    /\ toClient = [a \in Attempts |-> <<>>]
    /\ trusted \in [Attempts -> BOOLEAN]
    /\ offer \in [Attempts -> Version]
    /\ source = offer
    /\ current = [a \in Attempts |-> 0]
    /\ received = [a \in Attempts |-> {}]
    /\ handle = [a \in Attempts |-> None]
    /\ files = [a \in Attempts |-> <<>>]
    /\ part = None
    /\ final = None
    /\ fault = [a \in Attempts |-> FALSE]
    /\ stale = [a \in Attempts |-> FALSE]
    /\ shared = FALSE
    /\ stored = {}
    /\ latest = None

-----------------------------------------------------------------------------
(* The manifest's arithmetic, and files. *)

MinOf(m, n) == IF m < n THEN m ELSE n

calculate_total_chunks(size) == (size + ChunkSize - 1) \div ChunkSize
total_size(a) == Len(Content[offer[a]])
total_chunks(a) == calculate_total_chunks(total_size(a))

expected_chunk_size(a, i) ==
    IF i = total_chunks(a) - 1 /\ total_size(a) % ChunkSize # 0
    THEN total_size(a) % ChunkSize
    ELSE ChunkSize

\* set_len to n, n at most the length.
Truncate(f, n) == SubSeq(f, 1, n)

\* Bytes written at an offset; a gap before it reads as zeros.
WriteAt(f, offset, data) ==
    [i \in 1..(IF offset + Len(data) > Len(f) THEN offset + Len(data) ELSE Len(f)) |->
        IF i > offset /\ i <= offset + Len(data) THEN data[i - offset]
        ELSE IF i <= Len(f) THEN f[i] ELSE Hole]

IsPrefixOf(f, g) == Len(f) <= Len(g) /\ f = SubSeq(g, 1, Len(f))

\* Mutant: a resumed transfer skips one chunk.
next_expected_chunk_late(got, total) ==
    IF got = {} THEN 0 ELSE MinOf(Cardinality(got) + 1, total)

\* The smallest index that was not received.
next_expected_chunk(got, total) ==
    MinOf(CHOOSE n \in 0..Cardinality(got) : n \notin got /\ \A m \in 0..(n - 1) : m \in got,
          total)

is_complete(got, total) == total = 0 \/ Cardinality(got) = total

-----------------------------------------------------------------------------
(* The stream of an attempt. *)

ToNode(a, f) == toNode' = [toNode EXCEPT ![a] = IF up[a] THEN Append(@, f) ELSE @]
ToClient(a, f) == toClient' = [toClient EXCEPT ![a] = IF up[a] THEN Append(@, f) ELSE @]
TakenByNode(a) == toNode' = [toNode EXCEPT ![a] = Tail(@)]
TakenByClient(a) == toClient' = [toClient EXCEPT ![a] = Tail(@)]
AtNode(a, t) == toNode[a] # <<>> /\ Head(toNode[a]).type = t
AtClient(a, t) == toClient[a] # <<>> /\ Head(toClient[a]).type = t

\* The frame that each receive of the client expects.
ClientExpects == [awaitAccept |-> "Accept", awaitAck |-> "Ack", awaitComplete |-> "Complete"]

-----------------------------------------------------------------------------
(* The client: run_send_file. *)

SendOffer(a) ==
    /\ spc[a] = "idle"
    /\ spc' = [spc EXCEPT ![a] = "awaitAccept"]
    /\ up' = [up EXCEPT ![a] = TRUE]
    /\ toNode' = [toNode EXCEPT ![a] = <<[type |-> "Offer"]>>]
    /\ UNCHANGED <<rpc, toClient, trusted, offer, source, current, receiverVars, diskVars, fault>>

\* FileSender::next_chunk from chunk i: a chunk, an error when the file became too
\* short for read_exact, or after the last chunk the Finished message.
SendNext(a, i) ==
    LET offset == i * ChunkSize
        size == expected_chunk_size(a, i)
        readable == offset + size <= Len(Content[source[a]])
    IN  \/ /\ i < total_chunks(a) /\ readable
           /\ ToNode(a, [type |-> "Data", index |-> i, intact |-> TRUE,
                         data |-> SubSeq(Content[source[a]], offset + 1, offset + size)])
           /\ current' = [current EXCEPT ![a] = i + 1]
           /\ spc' = [spc EXCEPT ![a] = "awaitAck"]
           /\ UNCHANGED up
        \/ /\ i < total_chunks(a) /\ ~ readable
           /\ spc' = [spc EXCEPT ![a] = "failed"]
           /\ up' = [up EXCEPT ![a] = FALSE]
           /\ UNCHANGED <<toNode, current>>
        \/ /\ i >= total_chunks(a)
           /\ ToNode(a, [type |-> "Finished"])
           /\ spc' = [spc EXCEPT ![a] = "awaitComplete"]
           /\ UNCHANGED <<up, current>>

ReceiveAccept(a) ==
    /\ spc[a] = "awaitAccept"
    /\ AtClient(a, "Accept")
    /\ TakenByClient(a)
    /\ SendNext(a, Head(toClient[a]).index)
    /\ UNCHANGED <<rpc, trusted, offer, source, receiverVars, diskVars, fault>>

ReceiveAck(a) ==
    /\ spc[a] = "awaitAck"
    /\ AtClient(a, "Ack")
    /\ Head(toClient[a]).index = current[a] - 1
    /\ TakenByClient(a)
    /\ SendNext(a, current[a])
    /\ UNCHANGED <<rpc, trusted, offer, source, receiverVars, diskVars, fault>>

ReceiveComplete(a) ==
    /\ spc[a] = "awaitComplete"
    /\ AtClient(a, "Complete")
    /\ TakenByClient(a)
    /\ spc' = [spc EXCEPT ![a] = "done"]
    /\ up' = [up EXCEPT ![a] = FALSE]
    /\ UNCHANGED <<rpc, toNode, trusted, offer, source, current, receiverVars, diskVars, fault>>

\* EOF, a frame of another kind, or the Ack of another chunk: bail!.
ClientFails(a) ==
    /\ spc[a] \in SenderWaits
    /\ IF toClient[a] = <<>> THEN ~ up[a]
       ELSE LET f == Head(toClient[a])
            IN  f.type # ClientExpects[spc[a]] \/ (f.type = "Ack" /\ f.index # current[a] - 1)
    /\ spc' = [spc EXCEPT ![a] = "failed"]
    /\ up' = [up EXCEPT ![a] = FALSE]
    /\ toClient' = [toClient EXCEPT ![a] = <<>>]
    /\ UNCHANGED <<rpc, toNode, trusted, offer, source, current, receiverVars, diskVars, fault>>

-----------------------------------------------------------------------------
(* The node: handle_file_transfer and FileReceiver. *)

\* The chunks of an existing .part that to_dir keeps: whole ones, by length.
valid_chunks(existing, total) == MinOf(Len(existing) \div ChunkSize, total)

\* FileReceiver::to_dir and the Accept.
ReceiveOffer(a) ==
    LET total == total_chunks(a)
        opened == IF part = None THEN a ELSE part
        existing == IF part = None THEN <<>> ELSE files[part]
        resumes == existing # <<>> /\ total > 0
        valid == valid_chunks(existing, total)
        kept == IF resumes THEN Truncate(existing, valid * ChunkSize) ELSE existing
        got == IF resumes THEN {i \in 0..total : i < valid} ELSE {}
    IN  /\ rpc[a] = "loop"
        /\ AtNode(a, "Offer")
        /\ trusted[a]
        /\ TakenByNode(a)
        /\ ToClient(a, [type |-> "Accept", index |-> next_expected_chunk(got, total)])
        /\ rpc' = [rpc EXCEPT ![a] = "chunks"]
        /\ part' = opened
        /\ handle' = [handle EXCEPT ![a] = opened]
        /\ files' = [files EXCEPT ![opened] = kept]
        /\ received' = [received EXCEPT ![a] = got]
        /\ stale' = [stale EXCEPT ![a] = ~ IsPrefixOf(kept, Content[offer[a]])]
        /\ shared' = (shared \/ \E b \in Attempts : rpc[b] \in ReceiverBusy)
        /\ UNCHANGED <<up, trusted, clientVars, final, stored, latest, fault>>

\* The trust gate of handle_connection: the Offer is dropped without an answer.
DropOffer(a) ==
    /\ rpc[a] = "loop"
    /\ AtNode(a, "Offer")
    /\ ~ trusted[a]
    /\ TakenByNode(a)
    /\ UNCHANGED <<rpc, up, toClient, trusted, clientVars, receiverVars, diskVars, fault>>

\* receive_chunk: hash, index, size and offset are checked before the write.
receive_chunk(a, f) ==
    /\ f.intact
    /\ f.index < total_chunks(a)
    /\ Len(f.data) = expected_chunk_size(a, f.index)

\* Mutant: a chunk is written but not acknowledged.
ReceiveDataUnacked(a) ==
    LET f == Head(toNode[a])
    IN  /\ rpc[a] = "chunks"
        /\ AtNode(a, "Data")
        /\ receive_chunk(a, f)
        /\ files' = [files EXCEPT ![handle[a]] = WriteAt(@, f.index * ChunkSize, f.data)]
        /\ received' = [received EXCEPT ![a] = @ \cup {f.index}]
        /\ TakenByNode(a)
        /\ UNCHANGED <<rpc, up, toClient, trusted, clientVars, handle, stale, shared, part, final,
                       stored, latest, fault>>

\* Mutant: the chunk before is acknowledged, -1 for the first.
ReceiveDataAcksPrevious(a) ==
    LET f == Head(toNode[a])
    IN  /\ rpc[a] = "chunks"
        /\ AtNode(a, "Data")
        /\ receive_chunk(a, f)
        /\ files' = [files EXCEPT ![handle[a]] = WriteAt(@, f.index * ChunkSize, f.data)]
        /\ received' = [received EXCEPT ![a] = @ \cup {f.index}]
        /\ TakenByNode(a)
        /\ ToClient(a, [type |-> "Ack", index |-> f.index - 1])
        /\ UNCHANGED <<rpc, up, trusted, clientVars, handle, stale, shared, part, final,
                       stored, latest, fault>>

ReceiveData(a) ==
    LET f == Head(toNode[a])
    IN  /\ rpc[a] = "chunks"
        /\ AtNode(a, "Data")
        /\ receive_chunk(a, f)
        /\ files' = [files EXCEPT ![handle[a]] = WriteAt(@, f.index * ChunkSize, f.data)]
        /\ received' = [received EXCEPT ![a] = @ \cup {f.index}]
        /\ TakenByNode(a)
        /\ ToClient(a, [type |-> "Ack", index |-> f.index])
        /\ UNCHANGED <<rpc, up, trusted, clientVars, handle, stale, shared, part, final,
                       stored, latest, fault>>

\* The handler returns an error through handle_connection and the stream is dropped.
NodeFails(a) ==
    /\ rpc' = [rpc EXCEPT ![a] = "failed"]
    /\ up' = [up EXCEPT ![a] = FALSE]
    /\ toNode' = [toNode EXCEPT ![a] = <<>>]
    /\ UNCHANGED <<toClient, trusted, clientVars, receiverVars, diskVars, fault>>

RejectChunk(a) ==
    /\ rpc[a] = "chunks"
    /\ AtNode(a, "Data")
    /\ ~ receive_chunk(a, Head(toNode[a]))
    /\ NodeFails(a)

\* Mutant: the root hash is not compared.
verify_count_only(a) == is_complete(received[a], total_chunks(a))

\* finalize_file up to the comparison of the root hash.
verify(a) ==
    /\ is_complete(received[a], total_chunks(a))
    /\ files[handle[a]] = Content[offer[a]]

ReceiveFinished(a) ==
    /\ rpc[a] = "chunks"
    /\ AtNode(a, "Finished")
    /\ verify(a)
    /\ TakenByNode(a)
    /\ rpc' = [rpc EXCEPT ![a] = "renaming"]
    /\ UNCHANGED <<up, toClient, trusted, clientVars, receiverVars, diskVars, fault>>

FinishedFails(a) ==
    /\ rpc[a] = "chunks"
    /\ AtNode(a, "Finished")
    /\ ~ verify(a)
    /\ NodeFails(a)

\* Mutant: the Complete message is sent before the rename.
RenameLater(a) ==
    /\ rpc[a] = "renaming"
    /\ part # None
    /\ ToClient(a, [type |-> "Complete"])
    /\ rpc' = [rpc EXCEPT ![a] = "done"]
    /\ UNCHANGED <<up, toNode, trusted, clientVars, receiverVars, diskVars, fault>>

\* rename(.part, final) goes by name, and the Complete message follows; it fails
\* when another receiver has renamed the .part away.
Rename(a) ==
    /\ rpc[a] = "renaming"
    /\ IF part = None THEN NodeFails(a)
       ELSE /\ final' = part
            /\ part' = None
            /\ stored' = stored \cup {a}
            /\ latest' = a
            /\ ToClient(a, [type |-> "Complete"])
            /\ rpc' = [rpc EXCEPT ![a] = "done"]
            /\ UNCHANGED <<up, toNode, trusted, clientVars, receiverVars, files, fault>>

NodeEof(a) ==
    /\ rpc[a] = "chunks"
    /\ toNode[a] = <<>>
    /\ ~ up[a]
    /\ NodeFails(a)

-----------------------------------------------------------------------------
(* What happens to an attempt from outside. *)

Fault(a) == fault' = [fault EXCEPT ![a] = TRUE]

\* A lost connection, or a client that dies: a prefix of what is in flight arrives.
LinkLoss(a) ==
    /\ up[a]
    /\ up' = [up EXCEPT ![a] = FALSE]
    /\ \E k \in 0..Len(toNode[a]) : toNode' = [toNode EXCEPT ![a] = SubSeq(@, 1, k)]
    /\ \E k \in 0..Len(toClient[a]) : toClient' = [toClient EXCEPT ![a] = SubSeq(@, 1, k)]
    /\ Fault(a)
    /\ UNCHANGED <<rpc, trusted, clientVars, receiverVars, diskVars>>

\* Every connection of a node that dies goes with it; what was written stays.
NodeDies ==
    LET hit == {a \in Attempts : up[a] \/ rpc[a] \in ReceiverBusy}
    IN  /\ hit # {}
        /\ rpc' = [a \in Attempts |-> IF a \in hit THEN "failed" ELSE rpc[a]]
        /\ up' = [a \in Attempts |-> FALSE]
        /\ toNode' = [a \in Attempts |-> <<>>]
        /\ fault' = [a \in Attempts |-> a \in hit \/ fault[a]]
        /\ UNCHANGED <<toClient, trusted, clientVars, receiverVars, part, final, stored, latest>>

NodeCrash == NodeDies /\ UNCHANGED files

\* The node dies inside write_all, with k bytes of the chunk written.
CrashMidWrite(a) ==
    LET f == Head(toNode[a])
    IN  /\ rpc[a] = "chunks"
        /\ AtNode(a, "Data")
        /\ receive_chunk(a, f)
        /\ \E k \in 1..(Len(f.data) - 1) :
             files' = [files EXCEPT ![handle[a]] =
                         WriteAt(@, f.index * ChunkSize, SubSeq(f.data, 1, k))]
        /\ NodeDies

\* A clipboard update leaves the node before the Offer is read.
Interject(a) ==
    /\ rpc[a] = "loop" /\ spc[a] = "awaitAccept"
    /\ trusted[a] /\ up[a] /\ toClient[a] = <<>>
    /\ ToClient(a, [type |-> "Clipboard"])
    /\ Fault(a)
    /\ UNCHANGED <<rpc, up, toNode, trusted, clientVars, receiverVars, diskVars>>

\* A chunk that no longer matches its hash.
Corrupt(a) ==
    /\ AtNode(a, "Data")
    /\ toNode' = [toNode EXCEPT ![a][1].intact = FALSE]
    /\ Fault(a)
    /\ UNCHANGED <<rpc, up, toClient, trusted, clientVars, receiverVars, diskVars>>

\* The client's file is rewritten after its manifest was made, with a chunk left to read.
Edit(a) ==
    /\ spc[a] \in {"awaitAccept", "awaitAck"} /\ current[a] < total_chunks(a)
    /\ \E v \in Version \ {source[a]} : source' = [source EXCEPT ![a] = v]
    /\ Fault(a)
    /\ UNCHANGED <<spc, rpc, up, toNode, toClient, trusted, offer, current, receiverVars, diskVars>>

-----------------------------------------------------------------------------
ClientStep(a) == ReceiveAccept(a) \/ ReceiveAck(a) \/ ReceiveComplete(a) \/ ClientFails(a)

NodeStep(a) ==
    \/ ReceiveOffer(a) \/ DropOffer(a) \/ ReceiveData(a) \/ RejectChunk(a)
    \/ ReceiveFinished(a) \/ FinishedFails(a) \/ Rename(a) \/ NodeEof(a)

Faults(a) ==
    LinkLoss(a) \/ CrashMidWrite(a) \/ Interject(a) \/ Corrupt(a) \/ Edit(a)

Next ==
    \/ NodeCrash
    \/ \E a \in Attempts : SendOffer(a) \/ ClientStep(a) \/ NodeStep(a) \/ Faults(a)

Spec == Init /\ [][Next]_vars

\* Both tasks run when they can; nobody has to start an attempt.
Fairness == \A a \in Attempts : WF_vars(ClientStep(a)) /\ WF_vars(NodeStep(a))

FairSpec == Spec /\ Fairness

-----------------------------------------------------------------------------
(* Properties. *)

\* The file under its final name is, byte for byte, what the attempt that was stored last
\* offered: no crash, resumption, corruption or edit of the source shows in it, unless two
\* receivers had the .part file open at the same time: to_dir names it after the file only,
\* and every connection has a handler of its own.
FinalVerified ==
    final # None /\ ~ shared => latest # None /\ files[final] = Content[offer[latest]]

\* An attempt on a connection that nothing happened to fails only when it resumed over
\* foreign bytes or the .part file was shared: whatever earlier attempts left behind,
\* resuming works.
FailsOnlyByFault == ~ shared => \A a \in Attempts : spc[a] = "failed" => fault[a] \/ stale[a]

\* When the client reports success its file has been put in place, and it is there as it
\* was when offered unless a later attempt has replaced it or the .part file was shared.
CompleteMeansStored ==
    [][\A a \in Attempts : spc[a] # "done" /\ spc'[a] = "done" /\ ~ shared
         => /\ a \in stored
            /\ latest = a => final # None /\ files[final] = Content[offer[a]]]_vars

\* An attempt that the node answers comes to an end.
AttemptEnds ==
    \A a \in Attempts :
        spc[a] \in SenderWaits /\ trusted[a] ~> spc[a] \in {"done", "failed"}

\* The chunks a transfer resumes after are chunks of the offered file
\* (docs/DECISIONS.md, ADR-0008; receiver.rs, to_dir).
ResumesVerifiedChunks == \A a \in Attempts : rpc[a] = "chunks" => ~ stale[a]
=============================================================================
