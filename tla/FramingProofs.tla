--------------------------- MODULE FramingProofs ----------------------------
(***************************************************************************)
(* Proofs about FramedStream, for every header length, size limit, set of  *)
(* payload lengths and number of frames, with and without select!.         *)
(***************************************************************************)
EXTENDS Framing, TLAPS

(***************************************************************************)
(* The sender's side: the place the receiver reads at is inside a frame    *)
(* that is not read out, and the receiver is past the last frame only when *)
(* that is written whole.                                                  *)
(***************************************************************************)
PlaceInv ==
    /\ next <= Len(sent) => taken < Size(next)
    /\ next = Len(sent) + 1 => Whole = Len(sent)

(***************************************************************************)
(* A call that began at the first byte of a frame holds exactly the bytes  *)
(* of that frame that were read: all of them once the stream has moved on  *)
(* to the next frame.                                                      *)
(***************************************************************************)
CallInv ==
    reading > 0 =>
        /\ \/ next = reading /\ taken = held
           \/ /\ reading <= Len(sent)
              /\ next = reading + 1
              /\ taken = 0
              /\ held = Size(reading)
        /\ length # -1 => /\ reading <= Len(sent)
                          /\ length = sent[reading]
                          /\ held >= HeaderLen

(***************************************************************************)
(* Until bytes are dropped, every call begins where the last one stopped.  *)
(***************************************************************************)
OrderInv == ~torn => reading = Len(received) + 1

(***************************************************************************)
(* The receiver saw the end of the stream only after the sender's side     *)
(* ended or broke.                                                         *)
(***************************************************************************)
EndInv == result = "none" => link # "open"

Inv ==
    /\ TypeOK
    /\ PlaceInv
    /\ CallInv
    /\ OrderInv
    /\ EndInv
    /\ NothingLostAtEnd
    /\ FailureHasCause

(***************************************************************************)
(* Sending one more frame changes the length of no earlier one.            *)
(***************************************************************************)
LEMMA SendKeepsLengths ==
    ASSUME TypeOK, NEW len \in Lengths, SendFrame(len)
    PROVE  /\ sent' \in Seq(Lengths \cap 0 .. MaxFrameLength)
           /\ Len(sent') = Len(sent) + 1
           /\ \A n \in 1 .. Len(sent) : sent'[n] = sent[n]
           /\ sent'[Len(sent) + 1] = len
<1>1. len \in Lengths \cap 0 .. MaxFrameLength
  BY FramingAssumption DEF SendFrame, Encodes
<1> QED
  BY <1>1 DEF SendFrame, TypeOK

(***************************************************************************)
(* The lengths of the frames sent are natural numbers within the limit.    *)
(***************************************************************************)
LEMMA LengthsAreNat ==
    ASSUME TypeOK
    PROVE  /\ Len(sent) \in Nat
           /\ \A n \in 1 .. Len(sent) :
                /\ sent[n] \in Lengths
                /\ sent[n] \in 0 .. MaxFrameLength
                /\ Size(n) \in Nat
                /\ Size(n) >= HeaderLen
                /\ Size(n) > 0
<1>1. sent \in Seq(Lengths \cap 0 .. MaxFrameLength)
  BY DEF TypeOK
<1>2. Len(sent) \in Nat
  BY <1>1
<1>3. \A n \in 1 .. Len(sent) : sent[n] \in Lengths \cap 0 .. MaxFrameLength
  BY <1>1
<1>4. HeaderLen \in Nat /\ HeaderLen > 0 /\ MaxFrameLength \in Nat
  BY FramingAssumption
<1>5. \A n \in 1 .. Len(sent) :
        Size(n) \in Nat /\ Size(n) >= HeaderLen /\ Size(n) > 0
  BY <1>3, <1>4 DEF Size
<1> QED
  BY <1>2, <1>3, <1>5

(***************************************************************************)
(* A program that starts has read and sent nothing.                        *)
(***************************************************************************)
LEMMA InitInv == Init => Inv
<1> SUFFICES ASSUME Init PROVE Inv
  OBVIOUS
<1>1. Len(sent) = 0 /\ Len(received) = 0
  BY DEF Init
<1>2. TypeOK
  <2>1. sent \in Seq(Lengths \cap 0 .. MaxFrameLength)
    BY DEF Init
  <2>2. received \in Seq(0 .. Len(sent))
    BY DEF Init
  <2>3. Wanted = HeaderLen /\ OnWire(next) = 0
    BY <1>1 DEF Init, Wanted, OnWire
  <2>4. torn \in BOOLEAN
    BY DEF Init
  <2> QED
    BY <1>1, <2>1, <2>2, <2>3, <2>4, FramingAssumption DEF Init, TypeOK
<1>3. PlaceInv /\ CallInv /\ OrderInv /\ EndInv
  BY <1>1 DEF Init, PlaceInv, CallInv, OrderInv, EndInv, Whole
<1>4. NothingLostAtEnd /\ FailureHasCause
  BY DEF Init, NothingLostAtEnd, FailureHasCause
<1> QED
  BY <1>2, <1>3, <1>4 DEF Inv

(***************************************************************************)
(* send_frame begins a frame behind the ones that are written whole.       *)
(***************************************************************************)
LEMMA SendFrameInv ==
    ASSUME Inv, NEW len \in Lengths, SendFrame(len)
    PROVE  Inv'
<1> USE FramingAssumption
<1>1. /\ sent' \in Seq(Lengths \cap 0 .. MaxFrameLength)
      /\ Len(sent') = Len(sent) + 1
      /\ \A n \in 1 .. Len(sent) : sent'[n] = sent[n]
      /\ sent'[Len(sent) + 1] = len
  BY SendKeepsLengths DEF Inv
<1>2. /\ Len(sent) \in Nat
      /\ \A n \in 1 .. Len(sent) :
            sent[n] \in Nat /\ Size(n) \in Nat /\ Size(n) > 0
  BY LengthsAreNat DEF Inv
<1>3. len \in Nat
  OBVIOUS
<1>4. /\ link = "open"
      /\ Whole = Len(sent)
      /\ written' = 0
      /\ Len(sent) < MaxFrames
      /\ UNCHANGED <<link, next, taken, reading, length, held, received,
                     result, torn>>
  BY DEF SendFrame, call
<1>5. \A n \in 1 .. Len(sent) : Size(n)' = Size(n)
  BY <1>1 DEF Size
<1>6. Size(Len(sent))' > 0
  BY <1>1, <1>2, <1>3 DEF Size
<1>7. Whole' = Len(sent)
  BY <1>1, <1>2, <1>4, <1>6 DEF Whole
<1>8. OnWire(next)' = OnWire(next)
  <2>1. CASE next < Len(sent)
    BY <2>1, <1>1, <1>2, <1>4, <1>5 DEF Inv, TypeOK, OnWire
  <2>2. CASE next = Len(sent)
    <3>1. written = Size(Len(sent))
      BY <2>2, <1>2, <1>4 DEF Inv, TypeOK, Whole
    <3> QED
      BY <2>2, <3>1, <1>1, <1>2, <1>4, <1>5 DEF Inv, TypeOK, OnWire
  <2>3. CASE next = Len(sent) + 1
    BY <2>3, <1>1, <1>2, <1>4 DEF OnWire
  <2> QED
    BY <2>1, <2>2, <2>3, <1>2 DEF Inv, TypeOK
<1>9. TypeOK'
  <2>1. received \in Seq(0 .. Len(sent'))
    BY <1>1, <1>2 DEF Inv, TypeOK
  <2>2. (Len(sent) > 0 => written <= Size(Len(sent)))'
    BY <1>4, <1>6, <1>1, <1>2, <1>3 DEF Size
  <2>3. (taken \in 0 .. OnWire(next) /\ held \in 0 .. Wanted)'
    <3>1. Wanted' = Wanted
      BY <1>4 DEF Wanted
    <3> QED
      BY <3>1, <1>4, <1>8 DEF Inv, TypeOK
  <2>4. /\ next \in 1 .. Len(sent') + 1
        /\ reading \in 0 .. Len(sent') + 1
        /\ Len(sent') <= MaxFrames
    BY <1>1, <1>2, <1>4 DEF Inv, TypeOK
  <2> QED
    BY <1>1, <1>4, <2>1, <2>2, <2>3, <2>4 DEF Inv, TypeOK
<1>10. PlaceInv'
  <2>1. CASE next <= Len(sent)
    BY <2>1, <1>1, <1>2, <1>4, <1>5 DEF Inv, TypeOK, PlaceInv
  <2>2. CASE next = Len(sent) + 1
    <3>1. taken = 0
      BY <2>2, <1>2 DEF Inv, TypeOK, OnWire
    <3> QED
      BY <2>2, <3>1, <1>1, <1>2, <1>4, <1>6 DEF PlaceInv
  <2> QED
    BY <2>1, <2>2, <1>2 DEF Inv, TypeOK
<1>11. CallInv'
  BY <1>1, <1>2, <1>4, <1>5 DEF Inv, TypeOK, CallInv
<1>12. OrderInv' /\ EndInv'
  BY <1>4 DEF Inv, OrderInv, EndInv
<1>13. NothingLostAtEnd'
  BY <1>4 DEF Inv, EndInv, NothingLostAtEnd
<1>14. FailureHasCause'
  BY <1>1, <1>2, <1>4, <1>7 DEF Inv, FailureHasCause
<1> QED
  BY <1>9, <1>10, <1>11, <1>12, <1>13, <1>14 DEF Inv

(***************************************************************************)
(* write_all adds bytes at the end of the stream.                          *)
(***************************************************************************)
LEMMA WriteAllInv ==
    ASSUME Inv, WriteAll
    PROVE  Inv'
<1> USE FramingAssumption
<1>1. /\ Len(sent) \in Nat
      /\ \A n \in 1 .. Len(sent) : Size(n) \in Nat /\ Size(n) > 0
  BY LengthsAreNat DEF Inv
<1>2. /\ link = "open"
      /\ Whole < Len(sent)
      /\ UNCHANGED <<sent, link, next, taken, reading, length, held,
                     received, result, torn>>
  BY DEF WriteAll, call
<1>3. \A n : Size(n)' = Size(n)
  BY <1>2 DEF Size
<1>4. Len(sent) > 0
  BY <1>1, <1>2 DEF Whole
<1>5. /\ written' \in Nat
      /\ written' > written
      /\ written' <= Size(Len(sent))
  BY <1>1, <1>4 DEF WriteAll, Inv, TypeOK
<1>6. next <= Len(sent)
  BY <1>1, <1>2 DEF Inv, TypeOK, PlaceInv
<1>7. OnWire(next)' >= OnWire(next) /\ OnWire(next)' \in Nat
  BY <1>1, <1>2, <1>3, <1>5, <1>6 DEF Inv, TypeOK, OnWire
<1>8. TypeOK'
  BY <1>1, <1>2, <1>3, <1>5, <1>7 DEF Inv, TypeOK, Wanted, OnWire
<1>9. PlaceInv' /\ CallInv' /\ OrderInv' /\ EndInv'
  BY <1>1, <1>2, <1>3, <1>6
     DEF Inv, TypeOK, PlaceInv, CallInv, OrderInv, EndInv
<1>10. NothingLostAtEnd' /\ FailureHasCause'
  BY <1>2 DEF Inv, EndInv, NothingLostAtEnd, FailureHasCause
<1> QED
  BY <1>8, <1>9, <1>10 DEF Inv

(***************************************************************************)
(* The end of the stream and its breaking change nothing but the stream.   *)
(***************************************************************************)
LEMMA StreamInv ==
    ASSUME Inv, EndStream \/ BreakStream
    PROVE  Inv'
<1>1. /\ link' \in {"ended", "broken"}
      /\ link = "broken" => link' = "broken"
      /\ link = "ended" => link' \in {"ended", "broken"}
      /\ UNCHANGED <<sent, written, next, taken, reading, length, held,
                     received, result, torn>>
  BY DEF EndStream, BreakStream, sender, call
<1>2. /\ \A n : OnWire(n)' = OnWire(n) /\ Size(n)' = Size(n)
      /\ Whole' = Whole
      /\ Wanted' = Wanted
  BY <1>1 DEF OnWire, Size, Whole, Wanted
<1>3. TypeOK'
  BY <1>1, <1>2 DEF Inv, TypeOK
<1>4. PlaceInv' /\ CallInv' /\ OrderInv' /\ EndInv'
  BY <1>1, <1>2 DEF Inv, PlaceInv, CallInv, OrderInv, EndInv
<1>5. NothingLostAtEnd'
  BY <1>1, <1>2 DEF Inv, NothingLostAtEnd
<1>6. FailureHasCause'
  BY <1>1, <1>2 DEF Inv, TypeOK, FailureHasCause
<1> QED
  BY <1>3, <1>4, <1>5, <1>6 DEF Inv

(***************************************************************************)
(* A step that only sets the result keeps the rest of the invariant.       *)
(***************************************************************************)
LEMMA ResultInv ==
    ASSUME Inv,
           result' \in {"none", "failed"},
           UNCHANGED <<sent, written, link, next, taken, reading, length, held,
                       received, torn>>,
           result' = "none" =>
               link # "open" /\ (~torn => Len(received) = Whole),
           result' = "failed" =>
               torn \/ link = "broken"
                    \/ (link = "ended" /\ Whole < Len(sent))
    PROVE  Inv'
<1>1. /\ \A n : OnWire(n)' = OnWire(n) /\ Size(n)' = Size(n)
      /\ Whole' = Whole
      /\ Wanted' = Wanted
  BY DEF OnWire, Size, Whole, Wanted
<1>2. TypeOK'
  BY <1>1 DEF Inv, TypeOK
<1>3. PlaceInv' /\ CallInv' /\ OrderInv' /\ EndInv'
  BY <1>1 DEF Inv, PlaceInv, CallInv, OrderInv, EndInv
<1>4. NothingLostAtEnd' /\ FailureHasCause'
  BY <1>1 DEF NothingLostAtEnd, FailureHasCause
<1> QED
  BY <1>2, <1>3, <1>4 DEF Inv

(***************************************************************************)
(* A call that is not torn from its frame began at one.                    *)
(***************************************************************************)
LEMMA ReadingPositive ==
    ASSUME Inv, ~torn
    PROVE  reading > 0 /\ reading = Len(received) + 1
BY DEF Inv, TypeOK, OrderInv

(***************************************************************************)
(* read_exact: the call holds the bytes it has read.                       *)
(***************************************************************************)
LEMMA ReadExactInv ==
    ASSUME Inv, ReadExact
    PROVE  Inv'
<1> USE FramingAssumption
<1>1. /\ Len(sent) \in Nat
      /\ \A n \in 1 .. Len(sent) :
            sent[n] \in Nat /\ Size(n) \in Nat /\ Size(n) >= HeaderLen
  BY LengthsAreNat DEF Inv
<1>2. /\ result = "open"
      /\ held < Wanted
      /\ UNCHANGED <<sent, written, link, reading, length, received, result,
                     torn>>
  BY DEF ReadExact, Pending, sender
<1>3. /\ \A n : OnWire(n)' = OnWire(n) /\ Size(n)' = Size(n)
      /\ Whole' = Whole
      /\ Wanted' = Wanted
  <2>1. \A n : Size(n)' = Size(n)
    BY <1>2 DEF Size
  <2> QED
    BY <1>2, <2>1 DEF OnWire, Whole, Wanted
<1>4. Wanted \in Nat /\ held \in Nat /\ taken \in Nat
  BY DEF Inv, TypeOK, Wanted
<1>5. PICK k \in 1 .. Wanted - held :
        /\ taken + k <= OnWire(next)
        /\ held' = held + k
        /\ IF taken + k = Size(next)
           THEN next' = next + 1 /\ taken' = 0
           ELSE next' = next /\ taken' = taken + k
  BY DEF ReadExact
<1>6. k \in Nat /\ k > 0 /\ held + k <= Wanted
  BY <1>4, <1>5
<1>7. next \in 1 .. Len(sent)
  BY <1>1, <1>4, <1>5, <1>6 DEF Inv, TypeOK, OnWire
<1>8. OnWire(next) <= Size(next) /\ OnWire(next) \in Nat
  BY <1>1, <1>7 DEF Inv, TypeOK, OnWire
<1>9. taken + k = Size(next) => OnWire(next) = Size(next)
  BY <1>1, <1>4, <1>5, <1>6, <1>7, <1>8
<1>10. TypeOK'
  <2>1. next' \in 1 .. Len(sent) + 1
    BY <1>1, <1>5, <1>7
  <2>2. OnWire(next') \in Nat
    BY <1>1, <2>1 DEF Inv, TypeOK, OnWire
  <2>3. taken' \in 0 .. OnWire(next')
    BY <1>4, <1>5, <1>6, <1>8, <2>2
  <2>4. (taken \in 0 .. OnWire(next))'
    BY <2>3, <1>2 DEF OnWire, Size
  <2>5. held' \in 0 .. Wanted'
    BY <1>3, <1>4, <1>5, <1>6
  <2> QED
    BY <1>1, <1>2, <1>3, <2>1, <2>4, <2>5 DEF Inv, TypeOK
<1>11. PlaceInv'
  <2>1. CASE taken + k = Size(next)
    <3>1. next' = next + 1 /\ taken' = 0
      BY <2>1, <1>5
    <3>2. next + 1 <= Len(sent) => 0 < Size(next + 1)
      BY <1>1, <1>7
    <3>3. next + 1 = Len(sent) + 1 => Whole = Len(sent)
      BY <2>1, <1>1, <1>7, <1>9 DEF Inv, TypeOK, OnWire, Whole
    <3>4. sent' = sent /\ Whole' = Whole /\ Size(next)' = Size(next')
      BY <1>2, <1>3 DEF Size
    <3> QED
      BY <3>1, <3>2, <3>3, <3>4 DEF PlaceInv
  <2>2. CASE taken + k # Size(next)
    <3>1. next' = next /\ taken' = taken + k
      BY <2>2, <1>5
    <3>2. taken + k < Size(next)
      <4>1. Size(next) \in Nat
        BY <1>1, <1>7
      <4>2. taken + k <= OnWire(next)
        BY <1>5
      <4> QED
        BY <2>2, <4>1, <4>2, <1>4, <1>6, <1>8
    <3>3. (taken < Size(next))'
      BY <1>2, <3>1, <3>2 DEF Size
    <3>4. next' # Len(sent') + 1
      BY <1>1, <1>2, <1>7, <3>1
    <3> QED
      BY <3>3, <3>4 DEF PlaceInv
  <2> QED
    BY <2>1, <2>2
<1>12. CallInv'
  <2> SUFFICES ASSUME reading > 0 PROVE CallInv'
    BY <1>2 DEF CallInv
  <2>1. reading \in Nat
    BY <1>1 DEF Inv, TypeOK
  <2>2. length # -1 => /\ reading <= Len(sent)
                       /\ length = sent[reading]
                       /\ held >= HeaderLen
    BY DEF Inv, CallInv
  <2>3. next = reading /\ taken = held
    <3> SUFFICES ASSUME reading <= Len(sent), held = Size(reading)
                 PROVE  FALSE
      BY DEF Inv, CallInv
    <3>1. Wanted <= Size(reading)
      BY <1>1, <2>1, <2>2 DEF Wanted, Size
    <3> QED
      BY <3>1, <1>1, <1>2, <1>4, <2>1
  <2>4. CASE taken + k = Size(next)
    BY <2>1, <2>2, <2>3, <2>4, <1>1, <1>2, <1>3, <1>4, <1>5, <1>6, <1>7
       DEF CallInv
  <2>5. CASE taken + k # Size(next)
    BY <2>1, <2>2, <2>3, <2>5, <1>1, <1>2, <1>3, <1>4, <1>5, <1>6, <1>7
       DEF CallInv
  <2> QED
    BY <2>4, <2>5
<1>13. OrderInv' /\ EndInv' /\ NothingLostAtEnd' /\ FailureHasCause'
  BY <1>2, <1>3 DEF Inv, OrderInv, EndInv, NothingLostAtEnd, FailureHasCause
<1> QED
  BY <1>10, <1>11, <1>12, <1>13 DEF Inv

(***************************************************************************)
(* The end of the stream: it is Ok(None) in the header, and then all that  *)
(* is not returned is the beginning of one frame.                          *)
(***************************************************************************)
LEMMA EndOfFileInv ==
    ASSUME Inv, EndOfFile
    PROVE  Inv'
<1> USE FramingAssumption
<1>1. /\ Len(sent) \in Nat
      /\ \A n \in 1 .. Len(sent) :
            /\ sent[n] \in Nat
            /\ Size(n) \in Nat
            /\ Size(n) >= HeaderLen
  BY LengthsAreNat DEF Inv
<1>2. /\ held < Wanted
      /\ link = "ended"
      /\ OnWire(next) = taken
      /\ result' = (IF length = -1 THEN "none" ELSE "failed")
      /\ UNCHANGED <<sent, written, link, next, taken, reading, length, held,
                     received, torn>>
  BY DEF EndOfFile, Pending, Fail, sender, call
<1>3. Whole = (IF next = Len(sent) + 1 THEN Len(sent) ELSE Len(sent) - 1)
  <2>1. CASE next = Len(sent) + 1
    BY <2>1 DEF Inv, PlaceInv
  <2>2. CASE next <= Len(sent)
    BY <2>2, <1>1, <1>2 DEF Inv, TypeOK, PlaceInv, OnWire, Whole
  <2> QED
    BY <2>1, <2>2, <1>1 DEF Inv, TypeOK
<1>4. next >= Len(sent)
  BY <1>1, <1>2 DEF Inv, TypeOK, PlaceInv, OnWire
<1>5. ~torn => next = reading /\ taken = held
  <2> SUFFICES ASSUME ~torn, reading <= Len(sent), held = Size(reading)
               PROVE  FALSE
    BY ReadingPositive DEF Inv, CallInv
  <2>1. reading \in 1 .. Len(sent)
    BY <1>1, ReadingPositive DEF Inv, TypeOK
  <2>2. Wanted <= Size(reading)
    BY <1>1, <2>1 DEF Inv, CallInv, Wanted, Size
  <2> QED
    BY <1>1, <1>2, <2>1, <2>2 DEF Inv, TypeOK, Wanted
<1>6. ~torn /\ length = -1 => Len(received) = Whole
  BY <1>1, <1>3, <1>4, <1>5, ReadingPositive DEF Inv, TypeOK
<1>7. ~torn /\ length # -1 => Whole < Len(sent)
  BY <1>1, <1>3, <1>4, <1>5, ReadingPositive DEF Inv, TypeOK, CallInv
<1> QED
  BY <1>2, <1>6, <1>7, ResultInv

(***************************************************************************)
(* A complete header: the length it gives is that of the frame it heads.   *)
(***************************************************************************)
LEMMA CheckHeaderInv ==
    ASSUME Inv, CheckHeader
    PROVE  Inv'
<1> USE FramingAssumption
<1>1. /\ Len(sent) \in Nat
      /\ \A n \in 1 .. Len(sent) :
            /\ sent[n] \in Lengths
            /\ sent[n] \in 0 .. MaxFrameLength
            /\ Size(n) \in Nat
            /\ Size(n) >= HeaderLen
  BY LengthsAreNat DEF Inv
<1>2. reading > 0 => reading \in 1 .. Len(sent)
  <2> SUFFICES ASSUME reading > 0, next = reading, taken = held
               PROVE  reading \in 1 .. Len(sent)
    BY <1>1 DEF Inv, TypeOK, CallInv
  <2>1. taken > 0
    BY DEF CheckHeader
  <2> QED
    BY <2>1, <1>1 DEF Inv, TypeOK, OnWire
<1>3. CASE Fail
  <2>1. torn
    <3> SUFFICES ASSUME ~torn PROVE FALSE
      BY DEF Inv, TypeOK
    <3>1. reading \in 1 .. Len(sent)
      BY <1>2, ReadingPositive
    <3>2. result' = "failed" /\ result = "open" /\ length' = length
      BY <1>3 DEF Fail, CheckHeader, call
    <3>3. length = -1
      BY DEF CheckHeader
    <3> QED
      BY <3>1, <3>2, <3>3, <1>1 DEF CheckHeader, LengthsRead
  <2>2. /\ result' = "failed"
        /\ UNCHANGED <<sent, written, link, next, taken, reading, length, held,
                       received, torn>>
    BY <1>3 DEF Fail, sender, call
  <2> QED
    BY <2>1, <2>2, ResultInv
<1>4. ASSUME NEW len \in LengthsRead,
             ~(len > MaxFrameLength),
             length' = len,
             UNCHANGED <<sender, link, next, taken, reading, held, received,
                         result, torn>>
      PROVE  Inv'
  <2>1. len \in {0} \cup (Lengths \cap 0 .. MaxFrameLength)
    <3>1. len \in {0} \cup Lengths
      <4>1. CASE reading > 0
        BY <4>1, <1>1, <1>2, <1>4 DEF LengthsRead
      <4>2. CASE ~(reading > 0)
        BY <4>2, <1>4 DEF LengthsRead
      <4> QED
        BY <4>1, <4>2
    <3> QED
      BY <3>1, <1>4
  <2>2. UNCHANGED <<sent, written, link, next, taken, reading, held, received,
                    result, torn>>
    BY <1>4 DEF sender
  <2>3. /\ \A n : OnWire(n)' = OnWire(n) /\ Size(n)' = Size(n)
        /\ Whole' = Whole
    BY <2>2 DEF OnWire, Size, Whole
  <2>4. held' \in 0 .. Wanted'
    BY <1>4, <2>1, <2>2 DEF CheckHeader, Wanted
  <2>5. TypeOK'
    BY <1>4, <2>1, <2>2, <2>3, <2>4 DEF Inv, TypeOK
  <2>6. CallInv'
    <3> SUFFICES ASSUME reading > 0 PROVE CallInv'
      BY <2>2 DEF CallInv
    <3>1. reading \in 1 .. Len(sent) /\ length' = sent[reading]
      BY <1>2, <1>4 DEF LengthsRead
    <3>2. held = HeaderLen
      BY DEF CheckHeader
    <3> QED
      BY <3>1, <3>2, <1>1, <2>2, <2>3 DEF Inv, CallInv
  <2>7. /\ PlaceInv' /\ OrderInv' /\ EndInv'
        /\ NothingLostAtEnd' /\ FailureHasCause'
    BY <2>2, <2>3 DEF Inv, PlaceInv, OrderInv, EndInv, NothingLostAtEnd,
                      FailureHasCause
  <2> QED
    BY <2>5, <2>6, <2>7 DEF Inv
<1> QED
  BY <1>3, <1>4 DEF CheckHeader

(***************************************************************************)
(* A call that has all it wants, and began at a frame, has that frame, and *)
(* the stream is at the next one.                                          *)
(***************************************************************************)
LEMMA WholeFrameHeld ==
    ASSUME Inv, reading > 0, length # -1, held = Wanted
    PROVE  /\ reading \in 1 .. Len(sent)
           /\ next = reading + 1
           /\ taken = 0
<1> USE FramingAssumption
<1>1. /\ Len(sent) \in Nat
      /\ \A n \in 1 .. Len(sent) : sent[n] \in Nat
  BY LengthsAreNat DEF Inv
<1>2. reading \in 1 .. Len(sent) /\ length = sent[reading]
  BY <1>1 DEF Inv, TypeOK, CallInv
<1>3. held = Size(reading)
  BY <1>2 DEF Wanted, Size
<1>4. next = reading => taken < held
  BY <1>2, <1>3 DEF Inv, PlaceInv
<1> QED
  BY <1>1, <1>2, <1>3, <1>4 DEF Inv, TypeOK, CallInv

(***************************************************************************)
(* A call ends, by returning or by being dropped, and the next one begins. *)
(***************************************************************************)
LEMMA NextCallInv ==
    ASSUME Inv,
           NextCall,
           result = "open",
           received' \in Seq(0 .. Len(sent)),
           torn' \in BOOLEAN,
           torn => torn',
           ~torn' => taken = 0 /\ next = Len(received') + 1,
           UNCHANGED <<sent, written, link, next, taken, result>>
    PROVE  Inv'
<1> USE FramingAssumption
<1>1. /\ length' = -1
      /\ held' = 0
      /\ reading' = (IF taken = 0 THEN next ELSE 0)
  BY DEF NextCall
<1>2. /\ \A n : OnWire(n)' = OnWire(n) /\ Size(n)' = Size(n)
      /\ Whole' = Whole
  BY DEF OnWire, Size, Whole
<1>3. TypeOK'
  <2>1. reading' \in 0 .. Len(sent) + 1
    BY <1>1 DEF Inv, TypeOK
  <2>2. held' \in 0 .. Wanted'
    BY <1>1 DEF Wanted
  <2> QED
    BY <1>1, <1>2, <2>1, <2>2 DEF Inv, TypeOK
<1>4. CallInv'
  BY <1>1 DEF Inv, TypeOK, CallInv
<1>5. OrderInv'
  BY <1>1 DEF OrderInv
<1>6. PlaceInv' /\ EndInv' /\ NothingLostAtEnd' /\ FailureHasCause'
  BY <1>2 DEF Inv, PlaceInv, EndInv, NothingLostAtEnd, FailureHasCause
<1> QED
  BY <1>3, <1>4, <1>5, <1>6 DEF Inv

(***************************************************************************)
(* A frame is returned, and what is returned is what the call began at.    *)
(***************************************************************************)
LEMMA ReturnFrameInv ==
    ASSUME Inv, ReturnFrame
    PROVE  Inv'
<1>1. result = "open" /\ length # -1 /\ held = Wanted
  BY DEF ReturnFrame
<1>2. CASE reading = 0 /\ Fail
  <2>1. torn
    BY <1>2, ReadingPositive DEF Inv, TypeOK
  <2>2. /\ result' = "failed"
        /\ UNCHANGED <<sent, written, link, next, taken, reading, length, held,
                       received, torn>>
    BY <1>2 DEF Fail, sender, call
  <2> QED
    BY <2>1, <2>2, ResultInv
<1>3. CASE /\ received' = Append(received, reading)
           /\ NextCall
           /\ UNCHANGED <<sender, link, next, taken, result, torn>>
  <2>1. UNCHANGED <<sent, written, link, next, taken, result, torn>>
    BY <1>3 DEF sender
  <2>2. reading \in 0 .. Len(sent)
    BY <1>1, WholeFrameHeld DEF Inv, TypeOK
  <2>3. /\ received' \in Seq(0 .. Len(sent))
        /\ Len(received') = Len(received) + 1
    BY <1>3, <2>2 DEF Inv, TypeOK
  <2>4. ~torn => taken = 0 /\ next = Len(received') + 1
    BY <1>1, <2>3, WholeFrameHeld, ReadingPositive
  <2>5. torn \in BOOLEAN
    BY DEF Inv, TypeOK
  <2> QED
    BY <1>1, <1>3, <2>1, <2>3, <2>4, <2>5, NextCallInv
<1> QED
  BY <1>2, <1>3 DEF ReturnFrame

(***************************************************************************)
(* A call is dropped: nothing is lost when it held nothing.                *)
(***************************************************************************)
LEMMA CancelInv ==
    ASSUME Inv, Cancel
    PROVE  Inv'
<1> USE FramingAssumption
<1>1. /\ result = "open"
      /\ NextCall
      /\ UNCHANGED <<sent, written, link, next, taken, received, result>>
  BY DEF Cancel, Pending, sender
<1>2. torn' = (torn \/ held > 0)
  BY DEF Cancel
<1>3. torn' \in BOOLEAN /\ (torn => torn')
  BY <1>2 DEF Inv, TypeOK
<1>4. ~torn' => ~torn /\ held = 0
  <2>1. ~torn' => ~torn /\ ~(held > 0)
    BY <1>2
  <2>2. held \in Nat
    BY DEF Inv, TypeOK, Wanted
  <2> QED
    BY <2>1, <2>2
<1>5. ~torn /\ held = 0 => taken = 0 /\ next = Len(received) + 1
  BY LengthsAreNat, ReadingPositive DEF Inv, TypeOK, CallInv
<1> QED
  BY <1>1, <1>3, <1>4, <1>5, NextCallInv DEF Inv, TypeOK

(***************************************************************************)
(* Every step keeps the invariant.                                         *)
(***************************************************************************)
LEMMA NextInv == Inv /\ [Next]_vars => Inv'
<1> SUFFICES ASSUME Inv, [Next]_vars PROVE Inv'
  OBVIOUS
<1>1. ASSUME NEW len \in Lengths, SendFrame(len) PROVE Inv'
  BY <1>1, SendFrameInv
<1>2. CASE WriteAll
  BY <1>2, WriteAllInv
<1>3. CASE EndStream \/ BreakStream
  BY <1>3, StreamInv
<1>4. CASE ReadExact
  BY <1>4, ReadExactInv
<1>5. CASE EndOfFile
  BY <1>5, EndOfFileInv
<1>6. CASE ReadError
  <2>1. /\ link = "broken"
        /\ result' = "failed"
        /\ UNCHANGED <<sent, written, link, next, taken, reading, length, held,
                       received, torn>>
    BY <1>6 DEF ReadError, Fail, sender, call
  <2> QED
    BY <2>1, ResultInv
<1>7. CASE CheckHeader
  BY <1>7, CheckHeaderInv
<1>8. CASE ReturnFrame
  BY <1>8, ReturnFrameInv
<1>9. CASE Cancel
  BY <1>9, CancelInv
<1>10. CASE UNCHANGED vars
  BY <1>10 DEF vars, Inv, TypeOK, PlaceInv, CallInv, OrderInv, EndInv,
               NothingLostAtEnd, FailureHasCause, Size, OnWire, Whole, Wanted
<1> QED
  BY <1>1, <1>2, <1>3, <1>4, <1>5, <1>6, <1>7, <1>8, <1>9, <1>10
     DEF Next, Sender, Receiver

(***************************************************************************)
(* The invariant holds in every reachable state.                           *)
(***************************************************************************)
THEOREM InvariantHolds == Spec => []Inv
BY InitInv, NextInv, PTL DEF Spec

(***************************************************************************)
(* The locals of recv_frame and the place in the stream stay in range.     *)
(***************************************************************************)
THEOREM FramingTypeCorrect == Spec => []TypeOK
<1>1. Inv => TypeOK
  BY DEF Inv
<1> QED
  BY <1>1, InvariantHolds, PTL

(***************************************************************************)
(* When recv_frame (framed.rs:32) reports the end of the stream, every     *)
(* frame that was written whole has been returned.                         *)
(***************************************************************************)
THEOREM EndLosesNothing == Spec => []NothingLostAtEnd
<1>1. Inv => NothingLostAtEnd
  BY DEF Inv
<1> QED
  BY <1>1, InvariantHolds, PTL

(***************************************************************************)
(* recv_frame (framed.rs:34-55) fails only when the stream broke or ended  *)
(* inside a frame, or a call was dropped inside one.                       *)
(***************************************************************************)
THEOREM NoFailureWithoutCause == Spec => []FailureHasCause
<1>1. Inv => FailureHasCause
  BY DEF Inv
<1> QED
  BY <1>1, InvariantHolds, PTL

(***************************************************************************)
(* FramedStream implements the channel of frames: recv_frame returns the   *)
(* frames of send_frame whole, in order and once each, until a call is     *)
(* dropped inside a frame (framed.rs:26-73, node.rs:320).                  *)
(***************************************************************************)
THEOREM FramingImplementsChannel == Spec => ImplementsChannel
<1> USE DEF Channel!ChannelNext, Channel!channelVars
<1>1. Init => Channel!ChannelInit
  BY DEF Init, Channel!ChannelInit
<1>2. Inv /\ [Next]_vars => [Channel!ChannelNext]_Channel!channelVars
  <2> SUFFICES ASSUME Inv, [Next]_vars
               PROVE  [Channel!ChannelNext]_Channel!channelVars
    OBVIOUS
  <2>1. ASSUME NEW len \in Lengths, SendFrame(len)
        PROVE  Channel!Send
    BY <2>1, SendKeepsLengths DEF Inv, SendFrame, Channel!Send
  <2>2. CASE \/ WriteAll
             \/ EndStream
             \/ BreakStream
             \/ ReadExact
             \/ EndOfFile
             \/ ReadError
             \/ CheckHeader
             \/ Fail
             \/ UNCHANGED vars
    BY <2>2 DEF WriteAll, EndStream, BreakStream, ReadExact, EndOfFile,
                ReadError, CheckHeader, Fail, sender, vars
  <2>3. CASE ReturnFrame /\ ~Fail
    <3>1. /\ received' = Append(received, reading)
          /\ UNCHANGED <<sent, torn>>
      BY <2>3 DEF ReturnFrame, sender
    <3>2. reading \in 0 .. Len(sent)
      BY <2>3, WholeFrameHeld DEF ReturnFrame, Inv, TypeOK
    <3>3. CASE torn
      BY <3>1, <3>2, <3>3 DEF Channel!DeliverAnything
    <3>4. CASE ~torn
      <4>1. reading = Len(received) + 1
        BY <3>4, ReadingPositive
      <4>2. Len(received) < Len(sent)
        BY <4>1, <3>2 DEF Inv, TypeOK
      <4> QED
        BY <3>1, <4>1, <4>2 DEF Channel!Deliver
    <3> QED
      BY <3>3, <3>4
  <2>4. CASE Cancel
    <3>1. UNCHANGED <<sent, received>>
      BY <2>4 DEF Cancel, sender
    <3>2. torn' \in BOOLEAN /\ (torn => torn')
      BY <2>4 DEF Cancel, Inv, TypeOK
    <3> QED
      BY <3>1, <3>2 DEF Inv, TypeOK, Channel!Tear
  <2> QED
    BY <2>1, <2>2, <2>3, <2>4 DEF Next, Sender, Receiver
<1> QED
  BY <1>1, <1>2, InvariantHolds, PTL
     DEF Spec, ImplementsChannel, Channel!ChannelSpec

=============================================================================
