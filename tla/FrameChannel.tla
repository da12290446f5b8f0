---------------------------- MODULE FrameChannel ----------------------------
(***************************************************************************)
(* What FramedStream promises its callers: the frames one side sends come  *)
(* out at the other, whole, in order and once each, until a call is given  *)
(* up in the middle of a frame.  From then on nothing is promised of what  *)
(* comes out.  The n-th frame sent is called n; 0 is what no one sent.     *)
(***************************************************************************)
EXTENDS Naturals, Sequences

VARIABLES count,     \* how many frames were sent
          delivered, \* what recv_frame returned, in order
          torn       \* whether a call was given up inside a frame

channelVars == <<count, delivered, torn>>

ChannelInit ==
    /\ count = 0
    /\ delivered = <<>>
    /\ torn = FALSE

Send ==
    /\ count' = count + 1
    /\ UNCHANGED <<delivered, torn>>

Deliver ==
    /\ Len(delivered) < count
    /\ delivered' = Append(delivered, Len(delivered) + 1)
    /\ UNCHANGED <<count, torn>>

Tear ==
    /\ torn' = TRUE
    /\ UNCHANGED <<count, delivered>>

DeliverAnything ==
    /\ torn
    /\ \E f \in 0 .. count : delivered' = Append(delivered, f)
    /\ UNCHANGED <<count, torn>>

ChannelNext == Send \/ Deliver \/ Tear \/ DeliverAnything

ChannelSpec == ChannelInit /\ [][ChannelNext]_channelVars

=============================================================================
