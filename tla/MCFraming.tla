----------------------------- MODULE MCFraming ------------------------------
(***************************************************************************)
(* Three frames, with payloads of one byte up to one above the limit, and  *)
(* a header of three bytes, so that a piece of the stream can end at the   *)
(* start of a header, inside it, at its end, inside a payload and at the   *)
(* end of a frame.                                                         *)
(***************************************************************************)
EXTENDS Framing

MCLengths == 1 .. MaxFrameLength + 1
=============================================================================
