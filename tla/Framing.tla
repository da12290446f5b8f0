------------------------------ MODULE Framing -------------------------------
(***************************************************************************)
(* FramedStream (bridge-transport/src/framed.rs) with encode_frame and     *)
(* decode_payload (bridge-protocol/src/codec.rs): one direction of a       *)
(* connection, from a sender's send_frame to a receiver's recv_frame, over *)
(* a byte stream that hands bytes over in pieces of any size, that the     *)
(* sender's side may end anywhere and that may break.                      *)
(*                                                                         *)
(* A byte is a position: the k-th byte of the n-th frame.  The first       *)
(* HeaderLen bytes of a frame are its header, the others its payload, and  *)
(* a header read at its own place gives the length of that payload.  A     *)
(* header read anywhere else is made of bytes the program did not choose:  *)
(* the magic number is wrong, or by chance it is right and any length      *)
(* follows.                                                                *)
(*                                                                         *)
(* recv_frame keeps what it has read in its own locals.  handle_connection *)
(* (tools/bridge-cli/src/node.rs) calls it as one branch of select!, so    *)
(* when the other branch is taken the call is dropped with those bytes.    *)
(* The other callers await it alone: for them Cancellable is FALSE.        *)
(***************************************************************************)
EXTENDS Integers, Sequences

CONSTANTS HeaderLen,      \* 8: magic number and length
          MaxFrameLength, \* MAX_FRAME_LENGTH
          Lengths,        \* the payload lengths of the frames callers send: a
                          \* serialized enum takes at least one byte
          MaxFrames,      \* bound: frames sent
          Cancellable     \* whether the receiver is a branch of select!

ASSUME FramingAssumption ==
    /\ HeaderLen \in Nat \ {0}
    /\ MaxFrameLength \in Nat
    /\ Lengths \subseteq Nat \ {0}
    /\ MaxFrames \in Nat
    /\ Cancellable \in BOOLEAN

VARIABLES
    sent,      \* the payload lengths of the frames sent
    written,   \* how many bytes of the last of them are on the wire
    link,      \* the byte stream: "open", "ended" by the sender or "broken"
    next,      \* the frame of the next byte to be read
    taken,     \* how many bytes of that frame were read
    reading,   \* the frame at whose first byte this call began, 0 if none
    length,    \* the length in the header, -1 until that has been read
    held,      \* the bytes this call has in header and payload
    received,  \* what recv_frame returned, 0 for what no one sent
    result,    \* "open", "none" for Ok(None) or "failed" for Err
    torn       \* history: whether bytes were dropped with a call

sender == <<sent, written>>
call == <<reading, length, held>>
vars == <<sent, written, link, next, taken, reading, length, held, received,
          result, torn>>

(***************************************************************************)
(* The wire format: [MAGIC] [LENGTH] [PAYLOAD].                            *)
(***************************************************************************)
Size(n) == HeaderLen + sent[n]

OnWire(n) == IF n < Len(sent) THEN Size(n)
             ELSE IF n = Len(sent) THEN written ELSE 0

Whole == IF Len(sent) > 0 /\ written < Size(Len(sent))
         THEN Len(sent) - 1 ELSE Len(sent)

Init ==
    /\ sent = <<>>
    /\ written = 0
    /\ link = "open"
    /\ next = 1
    /\ taken = 0
    /\ reading = 1
    /\ length = -1
    /\ held = 0
    /\ received = <<>>
    /\ result = "open"
    /\ torn = FALSE

(***************************************************************************)
(* send_frame: encode_frame refuses a payload that is too long before any  *)
(* byte is written; write_all hands the bytes over piece by piece.         *)
(***************************************************************************)
\* Mutant: the sender does not look at the length.
Encodes_unchecked(len) == TRUE

Encodes(len) == len <= MaxFrameLength

SendFrame(len) ==
    /\ link = "open"
    /\ Whole = Len(sent)
    /\ Len(sent) < MaxFrames
    /\ Encodes(len)
    /\ sent' = Append(sent, len)
    /\ written' = 0
    /\ UNCHANGED <<link, next, taken, call, received, result, torn>>

WriteAll ==
    /\ link = "open"
    /\ Whole < Len(sent)
    /\ \E w \in written + 1 .. Size(Len(sent)) : written' = w
    /\ UNCHANGED <<sent, link, next, taken, call, received, result, torn>>

(***************************************************************************)
(* The stream ends when the sender's side closes it or dies, between two   *)
(* frames or inside one; what was written can still be read.  When the     *)
(* connection breaks it cannot.                                            *)
(***************************************************************************)
EndStream ==
    /\ link = "open"
    /\ link' = "ended"
    /\ UNCHANGED <<sender, next, taken, call, received, result, torn>>

BreakStream ==
    /\ link # "broken"
    /\ link' = "broken"
    /\ UNCHANGED <<sender, next, taken, call, received, result, torn>>

(***************************************************************************)
(* recv_frame.  Its two read_exact calls want the header and then as many  *)
(* bytes as the header says.                                               *)
(***************************************************************************)
\* Mutant: the payload's buffer is one byte too long.
Wanted_long ==
    IF length = -1 THEN HeaderLen ELSE HeaderLen + length + 1

\* Mutant: one byte of a payload is left in the stream.
Wanted_short ==
    IF length < 1 THEN HeaderLen ELSE HeaderLen + length - 1

Wanted == IF length = -1 THEN HeaderLen ELSE HeaderLen + length

Pending == result = "open" /\ held < Wanted

ReadExact ==
    /\ Pending
    /\ link # "broken"
    /\ \E k \in 1 .. Wanted - held :
        /\ taken + k <= OnWire(next)
        /\ held' = held + k
        /\ IF taken + k = Size(next)
           THEN next' = next + 1 /\ taken' = 0
           ELSE next' = next /\ taken' = taken + k
    /\ UNCHANGED <<sender, link, reading, length, received, result, torn>>

Fail ==
    /\ result' = "failed"
    /\ UNCHANGED <<sender, link, next, taken, call, received, torn>>

(***************************************************************************)
(* read_exact meets the end of the stream: in the header that is Ok(None), *)
(* wherever in the header it is, in the payload an error.                  *)
(***************************************************************************)
\* Mutant: the end is seen before what was written has been read.
EndOfFile_early ==
    /\ Pending
    /\ link = "ended"
    /\ IF length = -1
       THEN /\ result' = "none"
            /\ UNCHANGED <<sender, link, next, taken, call, received, torn>>
       ELSE Fail

EndOfFile ==
    /\ Pending
    /\ link = "ended"
    /\ OnWire(next) = taken
    /\ IF length = -1
       THEN /\ result' = "none"
            /\ UNCHANGED <<sender, link, next, taken, call, received, torn>>
       ELSE Fail

ReadError ==
    /\ Pending
    /\ link = "broken"
    /\ Fail

(***************************************************************************)
(* The header is complete: the magic number, then the length.              *)
(***************************************************************************)
LengthsRead == IF reading > 0 THEN {sent[reading]} ELSE {0} \cup Lengths

\* Mutant: the receiver's limit is one below the sender's.
CheckHeader_off ==
    /\ result = "open"
    /\ length = -1
    /\ held = HeaderLen
    /\ \/ reading = 0 /\ Fail
       \/ \E len \in LengthsRead :
            IF len >= MaxFrameLength
            THEN Fail
            ELSE /\ length' = len
                 /\ UNCHANGED <<sender, link, next, taken, reading, held,
                                received, result, torn>>

CheckHeader ==
    /\ result = "open"
    /\ length = -1
    /\ held = HeaderLen
    /\ \/ reading = 0 /\ Fail
       \/ \E len \in LengthsRead :
            IF len > MaxFrameLength
            THEN Fail
            ELSE /\ length' = len
                 /\ UNCHANGED <<sender, link, next, taken, reading, held,
                                received, result, torn>>

(***************************************************************************)
(* The next call begins at the next byte of the stream.                    *)
(***************************************************************************)
NextCall ==
    /\ reading' = IF taken = 0 THEN next ELSE 0
    /\ length' = -1
    /\ held' = 0

(***************************************************************************)
(* The payload is complete: decode_payload, and the frame is returned.  An *)
(* empty payload, which only a misread header announces, does not decode.  *)
(***************************************************************************)
ReturnFrame ==
    /\ result = "open"
    /\ length # -1
    /\ held = Wanted
    /\ \/ reading = 0 /\ Fail
       \/ /\ length > 0
          /\ received' = Append(received, reading)
          /\ NextCall
          /\ UNCHANGED <<sender, link, next, taken, result, torn>>

(***************************************************************************)
(* The other branch of select! is taken while recv_frame waits: the call   *)
(* is dropped, and the loop makes a new one.                               *)
(***************************************************************************)
Cancel ==
    /\ Cancellable
    /\ Pending
    /\ NextCall
    /\ torn' = (torn \/ held > 0)
    /\ UNCHANGED <<sender, link, next, taken, received, result>>

Sender == (\E len \in Lengths : SendFrame(len)) \/ WriteAll

Receiver ==
    \/ ReadExact
    \/ EndOfFile
    \/ ReadError
    \/ CheckHeader
    \/ ReturnFrame

Next == Sender \/ EndStream \/ BreakStream \/ Receiver \/ Cancel

Spec == Init /\ [][Next]_vars

(***************************************************************************)
(* The tokio task of the connection polls recv_frame whenever bytes, the   *)
(* end of the stream or an error arrive.                                   *)
(***************************************************************************)
FairSpec == Spec /\ WF_vars(Receiver)

(***************************************************************************)
(* A call of recv_frame never holds more than the header, or the frame its *)
(* header announces, and the place it reads at is one the sender has       *)
(* reached: what framed.rs:26-59 keeps in its locals and in the stream.    *)
(***************************************************************************)
TypeOK ==
    /\ sent \in Seq(Lengths \cap 0 .. MaxFrameLength)
    /\ Len(sent) <= MaxFrames
    /\ written \in Nat
    /\ Len(sent) > 0 => written <= Size(Len(sent))
    /\ link \in {"open", "ended", "broken"}
    /\ next \in 1 .. Len(sent) + 1
    /\ taken \in 0 .. OnWire(next)
    /\ reading \in 0 .. Len(sent) + 1
    /\ length \in {-1, 0} \cup (Lengths \cap 0 .. MaxFrameLength)
    /\ held \in 0 .. Wanted
    /\ received \in Seq(0 .. Len(sent))
    /\ result \in {"open", "none", "failed"}
    /\ torn \in BOOLEAN

(***************************************************************************)
(* FramedStream is a channel of frames: as long as no call was dropped     *)
(* inside a frame, recv_frame (framed.rs:26) returns the frames that       *)
(* send_frame (framed.rs:62) took, whole, in order and once each, however  *)
(* the stream cuts their bytes and wherever it ends; and calls dropped     *)
(* between two frames, as select! does in node.rs:320, change nothing.     *)
(***************************************************************************)
Channel == INSTANCE FrameChannel
    WITH count <- Len(sent), delivered <- received, torn <- torn

ImplementsChannel == Channel!ChannelSpec

(***************************************************************************)
(* When recv_frame reports the end of the stream (framed.rs:32), every     *)
(* frame that was written whole has been returned: at most the beginning   *)
(* of one is given up, though that one is not reported.                    *)
(***************************************************************************)
NothingLostAtEnd == result = "none" /\ ~torn => Len(received) = Whole

(***************************************************************************)
(* recv_frame fails (framed.rs:34-55) only when the stream broke or ended  *)
(* inside a payload, or a call was dropped: the two ends apply the same    *)
(* limit to the same number, so no frame that encode_frame accepts         *)
(* (codec.rs:11) is refused by the receiver.                               *)
(***************************************************************************)
FailureHasCause ==
    result = "failed" =>
        torn \/ link = "broken" \/ (link = "ended" /\ Whole < Len(sent))

(***************************************************************************)
(* A frame that was written whole is returned in the end, the last one and *)
(* one that the stream ends behind included, as long as the receiver's     *)
(* task calls recv_frame (framed.rs:26), unless the stream breaks or a     *)
(* call is dropped inside a frame (node.rs:320).                           *)
(***************************************************************************)
FramesArrive ==
    \A n \in 1 .. MaxFrames :
        Whole >= n ~> Len(received) >= n \/ torn \/ link = "broken"

=============================================================================
