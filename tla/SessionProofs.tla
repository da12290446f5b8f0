---------------------------- MODULE SessionProofs ----------------------------
(***************************************************************************)
(* Proofs about Session for any number of ceremonies, connections and      *)
(* frames in flight: its state is well typed, no record of trust exists    *)
(* without the approval of both users, it implements TrustContract, and    *)
(* the two devices agree on the outcome of the ceremonies of a connection  *)
(* that was not lost.                                                      *)
(***************************************************************************)
EXTENDS Session, WellFoundedInduction, TLAPS

\* Leaves that need arithmetic, tuples or sequences name SMT.
USE Zenon

\* The frames that may be in flight to r: a Confirm carries a SAS that the user
\* of the other device approved.
FrameTo(r) == {f \in Frame : f.type = "Confirm" => f.sas \in confirmed[Peer(r)]}

Nets == {n \in [Role -> Seq(Frame)] : \A r \in Role : n[r] \in Seq(FrameTo(r))}

\* Every Confirm in flight was approved by its sender's user.
Provenance == net \in Nets

\* A device that awaits the other's Confirm has its own user's approval.
OwnConfirmed == \A r \in Role : pc[r] = "awaitConfirm" => sas[r] \in confirmed[r]

\* A device came to save_peer only after both users' approval.
FailedConfirmed == unsaved # {} => BothConfirmed

\* MutualConfirmation alone is not inductive: finalize compares a frame with the
\* device's own SAS, so both of these must be known of the frame and of the SAS.
Inv == Domains /\ Provenance /\ OwnConfirmed /\ MutualConfirmation /\ FailedConfirmed

-----------------------------------------------------------------------------
(* Frames, queues and roles. *)

\* There are two roles, each the peer of the other.
LEMMA PeerFacts ==
  ASSUME NEW r \in Role
  PROVE  Peer(r) \in Role /\ Peer(r) # r /\ Peer(Peer(r)) = r
BY DEF Role, Peer

\* Nonce zero and the successors that StartPairing and ReceiveRequest draw.
LEMMA NonceFacts ==
  /\ 0 \in Nonce
  /\ \A n \in Nonce : n < MaxCeremonies => n + 1 \in Nonce
BY SessionConstants, SMT DEF Nonce, SessionConstants

\* What the frame constructors build, and what a frame's tag says of its fields.
LEMMA FrameFacts ==
  /\ \A t \in SignalTypes : Signal(t) \in Frame /\ Signal(t).type = t
  /\ \A x \in {"valid", "invalid"} :
       AuthResponse(x) \in Frame /\ AuthResponse(x).type = "AuthResponse"
  /\ \A n \in Nonce : PairingRequest(n) \in Frame /\ PairingRequest(n).type = "Request"
  /\ \A n \in Nonce : PairingResponse(n) \in Frame /\ PairingResponse(n).type = "Response"
  /\ \A s \in Sas : /\ PairingConfirm(s) \in Frame
                    /\ PairingConfirm(s).type = "Confirm"
                    /\ PairingConfirm(s).sas = s
  /\ \A f \in Frame : f.type \in {"Request", "Response"} => f.nonce \in Nonce
BY DEF Frame, SignalTypes, Signal, AuthResponse, PairingRequest, PairingResponse,
       PairingConfirm

\* A frame that is not a Confirm may be in flight to anyone.
LEMMA PlainFrame ==
  ASSUME NEW f \in Frame, f.type # "Confirm", NEW r \in Role
  PROVE  f \in FrameTo(r)
BY DEF FrameTo

\* SasVerification::derive builds a SAS of two nonces.
LEMMA DeriveFacts ==
  ASSUME NEW r \in Role, NEW m \in Nonce, NEW n \in Nonce
  PROVE  derive(r, m, n) \in Sas
BY DEF derive, Sas

\* The queues known of the invariant.
LEMMA QueueFacts ==
  ASSUME Provenance, NEW r \in Role
  PROVE  /\ net \in [Role -> Seq(Frame)]
         /\ net[r] \in Seq(Frame)
         /\ net[r] \in Seq(FrameTo(r))
         /\ Ready(r) => /\ Incoming(r) \in Frame
                        /\ Incoming(r) \in FrameTo(r)
                        /\ Tail(net[r]) \in Seq(Frame)
                        /\ Tail(net[r]) \in Seq(FrameTo(r))
BY SMT DEF Provenance, Nets, Ready, Incoming

\* A queue of admissible frames is a queue of frames.
LEMMA SeqFrameTo ==
  ASSUME NEW r \in Role, NEW q \in Seq(FrameTo(r))
  PROVE  q \in Seq(Frame)
BY SMT DEF FrameTo

\* A write appends or is lost.
LEMMA SentFacts ==
  ASSUME NEW r \in Role, NEW q \in Seq(FrameTo(r)), NEW f \in FrameTo(r)
  PROVE  Sent(q, f) \in Seq(FrameTo(r))
BY SMT DEF Sent

\* The empty queue.
LEMMA EmptyQueue ==
  ASSUME NEW S
  PROVE  <<>> \in Seq(S)
BY SMT

\* A prefix of a queue.
LEMMA PrefixFacts ==
  ASSUME NEW S, NEW q \in Seq(S), NEW k \in 0..Len(q)
  PROVE  SubSeq(q, 1, k) \in Seq(S)
BY SMT

-----------------------------------------------------------------------------
(* What the stream operations leave in flight. *)

\* Consume takes a frame and adds none.
LEMMA ConsumeNet ==
  ASSUME Provenance, NEW r \in Role, Ready(r), Consume(r)
  PROVE  net' \in Nets
<1>1. net' = [net EXCEPT ![r] = Tail(net[r])]  BY QueueFacts DEF Consume
<1> QED BY <1>1, QueueFacts DEF Nets, Provenance

\* Send adds one admissible frame.
LEMMA SendNet ==
  ASSUME Provenance, NEW r \in Role, NEW f \in FrameTo(Peer(r)), Send(r, f)
  PROVE  net' \in Nets
<1> DEFINE p == Peer(r)
<1>1. p \in Role  BY PeerFacts
<1>2. net[p] \in Seq(FrameTo(p))  BY <1>1, QueueFacts
<1>3. net' = [net EXCEPT ![p] = Sent(net[p], f)]  BY <1>1, QueueFacts DEF Send
<1>4. Sent(net[p], f) \in Seq(FrameTo(p))  BY <1>1, <1>2, SentFacts
<1>5. Sent(net[p], f) \in Seq(Frame)  BY <1>1, <1>4, SeqFrameTo
<1> HIDE DEF p
<1> QED BY <1>1, <1>3, <1>4, <1>5 DEF Nets, Provenance

\* Reply does both.
LEMMA ReplyNet ==
  ASSUME Provenance, NEW r \in Role, NEW f \in FrameTo(Peer(r)), Ready(r), Reply(r, f)
  PROVE  net' \in Nets
<1> DEFINE p == Peer(r)
<1>1. p \in Role /\ p # r  BY PeerFacts
<1>2. net[p] \in Seq(FrameTo(p))  BY <1>1, QueueFacts
<1>3. net' = [net EXCEPT ![r] = Tail(net[r]), ![p] = Sent(net[p], f)]
  BY <1>1, QueueFacts DEF Reply
<1>4. Sent(net[p], f) \in Seq(FrameTo(p))  BY <1>1, <1>2, SentFacts
<1>5. Sent(net[p], f) \in Seq(Frame)  BY <1>1, <1>4, SeqFrameTo
<1>6. Tail(net[r]) \in Seq(Frame) /\ Tail(net[r]) \in Seq(FrameTo(r))  BY QueueFacts
<1> HIDE DEF p
<1> QED BY <1>1, <1>3, <1>4, <1>5, <1>6 DEF Nets, Provenance

\* A hangup leaves a prefix.
LEMMA HangupNet ==
  ASSUME Provenance, NEW r \in Role, NEW q \in Seq(FrameTo(Peer(r))), Hangup(r, q)
  PROVE  net' \in Nets
<1> DEFINE p == Peer(r)
<1>1. p \in Role /\ p # r  BY PeerFacts
<1>2. PICK k \in 0..Len(q) : net' = [net EXCEPT ![r] = <<>>, ![p] = SubSeq(q, 1, k)]
  BY DEF Hangup
<1>3. SubSeq(q, 1, k) \in Seq(FrameTo(p))  BY PrefixFacts
<1>4. SubSeq(q, 1, k) \in Seq(Frame)  BY <1>1, <1>3, SeqFrameTo
<1> HIDE DEF p
<1>5. <<>> \in Seq(Frame) /\ <<>> \in Seq(FrameTo(r))  BY EmptyQueue
<1> QED BY <1>1, <1>2, <1>3, <1>4, <1>5 DEF Nets, Provenance

-----------------------------------------------------------------------------
(* Preservation of the invariant. *)

\* A step that approves nothing keeps the invariant when it starts no wait for a
\* Confirm and creates trust only where both users approved.
LEMMA Preserve ==
  ASSUME Inv, Domains', net' \in Nets, UNCHANGED confirmed,
         \A r \in Role : pc'[r] = "awaitConfirm" => pc[r] = "awaitConfirm" /\ sas'[r] = sas[r],
         \A r \in Role : trust'[r] # "none" \/ state'[r] = "Trusted"
                           => trust[r] # "none" \/ state[r] = "Trusted" \/ BothConfirmed,
         unsaved' = unsaved \/ BothConfirmed
  PROVE  Inv'
<1>1. Provenance'  BY DEF Provenance, Nets, FrameTo
<1>2. OwnConfirmed'  BY DEF Inv, OwnConfirmed
<1>3. BothConfirmed => BothConfirmed'  BY DEF BothConfirmed
<1>4. MutualConfirmation'  BY <1>3 DEF Inv, MutualConfirmation
<1>5. FailedConfirmed'  BY <1>3 DEF Inv, FailedConfirmed
<1> QED BY <1>1, <1>2, <1>4, <1>5 DEF Inv

\* A step that only drops one end.
LEMMA HangupInv ==
  ASSUME Inv, NEW r \in Role, NEW q \in Seq(FrameTo(Peer(r))), Hangup(r, q),
         UNCHANGED <<driver, trust, nonce, sas, connections, history>>
  PROVE  Inv'
<1>1. net' \in Nets  BY HangupNet DEF Inv
<1>2. Domains'
  BY <1>1 DEF Inv, Domains, Hangup, history, Nets, Control, SessionState
<1>3. \A x \in Role : pc'[x] = "awaitConfirm" => pc[x] = "awaitConfirm" /\ sas'[x] = sas[x]
  BY DEF Inv, Domains, Hangup
<1>4. \A x \in Role : trust'[x] # "none" \/ state'[x] = "Trusted"
                        => trust[x] # "none" \/ state[x] = "Trusted"
  BY DEF Inv, Domains, Hangup
<1> QED BY <1>1, <1>2, <1>3, <1>4, Preserve DEF history

\* The empty streams and stores of the initial state satisfy the invariant.
LEMMA InitInv == Init => Inv
<1> SUFFICES ASSUME Init PROVE Inv
  OBVIOUS
<1>1. Domains
  BY SessionConstants, NonceFacts, SMT DEF Init, Domains, SessionConstants, Control, SessionState, Sas
<1>2. Provenance  BY EmptyQueue DEF Init, Provenance, Nets
<1>3. OwnConfirmed  BY DEF Init, OwnConfirmed
<1>4. MutualConfirmation  BY DEF Init, MutualConfirmation
<1>5. FailedConfirmed  BY DEF Init, FailedConfirmed
<1> QED BY <1>1, <1>2, <1>3, <1>4, <1>5 DEF Inv
-----------------------------------------------------------------------------
(* Preservation by the actions. *)

\* A new connection carries a ClientHello and nothing else.
LEMMA ConnectInv == ASSUME Inv, Connect PROVE Inv'
<1>1. Signal("ClientHello") \in Frame /\ Signal("ClientHello").type = "ClientHello"
  BY FrameFacts DEF SignalTypes
<1>2. Signal("ClientHello") \in FrameTo("server")  BY <1>1, PlainFrame DEF Role
<1>3. /\ <<Signal("ClientHello")>> \in Seq(Frame)
      /\ <<Signal("ClientHello")>> \in Seq(FrameTo("server"))
  BY <1>1, <1>2, SMT
<1>4. net' \in Nets
  <2>1. <<>> \in Seq(Frame) /\ <<>> \in Seq(FrameTo("client"))  BY EmptyQueue
  <2> QED BY <1>3, <2>1 DEF Connect, Nets, Role
<1>5. Domains'
  BY <1>4, SessionConstants, SMT
     DEF SessionConstants, Inv, Domains, Connect, history, Nets, Control, HandshakeWaits, SessionState
<1>6. \A x \in Role : pc'[x] # "awaitConfirm" /\ state'[x] # "Trusted" /\ trust'[x] = trust[x]
  BY DEF Connect
<1> QED BY <1>4, <1>5, <1>6, Preserve DEF Connect, history

\* Each step of the handshake: a session becomes trusted only by a record of the store.
LEMMA HandshakeInv ==
  ASSUME Inv,
         \/ ServerHello \/ ClientAuth \/ ServerAuthResult \/ ServerRefusesRevoked
         \/ ServerRefusesSignature \/ ClientAuthenticated \/ ClientRefusesRevoked
         \/ \E r \in Role : HandshakeFails(r)
  PROVE  Inv'
<1>r. "client" \in Role /\ "server" \in Role /\ Peer("client") = "server" /\ Peer("server") = "client"
  BY DEF Role, Peer
<1>f. \A t \in SignalTypes, r \in Role : Signal(t) \in FrameTo(r)
  BY FrameFacts, PlainFrame, ZenonT(30) DEF SignalTypes
<1>q. \A r \in Role : net[r] \in Seq(FrameTo(r))  BY QueueFacts DEF Inv
<1>1. CASE ServerHello
  <2>1. net' \in Nets  BY <1>1, <1>r, <1>f, ReplyNet DEF Inv, ServerHello, SignalTypes
  <2>2. Domains'
    BY <1>1, <1>r, <2>1 DEF Inv, Domains, ServerHello, history, Nets, Control, HandshakeWaits
  <2> QED BY <1>1, <2>1, <2>2, Preserve DEF Inv, Domains, ServerHello, history
<1>2. CASE ClientAuth
  <2>1. \A x \in {"valid", "invalid"} : AuthResponse(x) \in FrameTo("server")
    BY <1>r, FrameFacts, PlainFrame
  <2>2. net' \in Nets  BY <1>2, <1>r, <2>1, ReplyNet DEF Inv, ClientAuth
  <2>3. Domains'
    BY <1>2, <1>r, <2>2 DEF Inv, Domains, ClientAuth, history, Nets, Control, HandshakeWaits
  <2> QED BY <1>2, <2>2, <2>3, Preserve DEF Inv, Domains, ClientAuth, history
<1>3. CASE ServerAuthResult
  <2>1. net' \in Nets  BY <1>3, <1>r, <1>f, ReplyNet DEF Inv, ServerAuthResult, SignalTypes
  <2>2. Domains'
    BY <1>3, <1>r, <2>1
       DEF Inv, Domains, ServerAuthResult, InitialState, history, Nets, Control, SessionState
  <2> QED BY <1>3, <2>1, <2>2, Preserve DEF Inv, Domains, ServerAuthResult, InitialState, history
<1>4. CASE ServerRefusesRevoked
  <2>1. Sent(Sent(net["client"], Signal("AuthOk")), Signal("Disconnect")) \in Seq(FrameTo("client"))
    BY <1>r, <1>f, <1>q, SentFacts DEF SignalTypes
  <2> QED BY <1>4, <1>r, <2>1, HangupInv DEF ServerRefusesRevoked
<1>5. CASE ServerRefusesSignature
  <2>1. Sent(net["client"], Signal("AuthFailed")) \in Seq(FrameTo("client"))
    BY <1>r, <1>f, <1>q, SentFacts DEF SignalTypes
  <2> QED BY <1>5, <1>r, <2>1, HangupInv DEF ServerRefusesSignature
<1>6. CASE ClientAuthenticated
  <2>1. net' \in Nets  BY <1>6, <1>r, ConsumeNet DEF Inv, ClientAuthenticated
  <2>2. Domains'
    BY <1>6, <1>r, <2>1
       DEF Inv, Domains, ClientAuthenticated, InitialState, history, Nets, Control, SessionState
  <2> QED BY <1>6, <2>1, <2>2, Preserve DEF Inv, Domains, ClientAuthenticated, InitialState, history
<1>7. CASE ClientRefusesRevoked
  <2>1. Sent(net["server"], Signal("Disconnect")) \in Seq(FrameTo("server"))
    BY <1>r, <1>f, <1>q, SentFacts DEF SignalTypes
  <2> QED BY <1>7, <1>r, <2>1, HangupInv DEF ClientRefusesRevoked
<1>8. ASSUME NEW r \in Role, HandshakeFails(r) PROVE Inv'
  BY <1>8, <1>q, PeerFacts, HangupInv DEF HandshakeFails
<1> QED BY <1>1, <1>2, <1>3, <1>4, <1>5, <1>6, <1>7, <1>8

\* The steps of a ceremony in which no user approves and nothing is saved.
LEMMA CeremonyInv ==
  ASSUME Inv,
         \/ StartPairing \/ StartResponder \/ NodePairingFrame
         \/ ReceiveRequest \/ ReceiveResponse
         \/ \E r \in Role : \/ SkipFrame(r) \/ PairingEof(r) \/ PairingAborted(r)
                            \/ IdentityRefused(r) \/ UserRejects(r) \/ ConfirmMismatch(r)
  PROVE  Inv'
<1>r. "client" \in Role /\ "server" \in Role /\ Peer("client") = "server" /\ Peer("server") = "client"
  BY DEF Role, Peer
<1>f. \A t \in SignalTypes, r \in Role : Signal(t) \in FrameTo(r)
  BY FrameFacts, PlainFrame, ZenonT(30) DEF SignalTypes
<1>n. \A n \in Nonce, r \in Role : PairingRequest(n) \in FrameTo(r) /\ PairingResponse(n) \in FrameTo(r)
  BY FrameFacts, PlainFrame
<1>i. \A r \in Role : Ready(r) => Incoming(r) \in Frame  BY QueueFacts DEF Inv
<1>1. CASE StartPairing
  <2>1. nonce["client"] + 1 \in Nonce  BY <1>1, <1>r, NonceFacts DEF Inv, Domains, StartPairing
  <2>2. net' \in Nets  BY <1>1, <1>r, <1>n, <2>1, SendNet DEF Inv, StartPairing
  <2>3. Domains'
    BY <1>1, <1>r, <2>1, <2>2
       DEF Inv, Domains, StartPairing, history, Nets, Control, PairingWaits, SessionState
  <2> QED BY <1>1, <2>2, <2>3, Preserve DEF Inv, Domains, StartPairing, history
<1>2. CASE StartResponder
  <2>1. net' \in Nets  BY <1>2 DEF Inv, Provenance, StartResponder
  <2>2. Domains'
    BY <1>2, <1>r, <2>1
       DEF Inv, Domains, StartResponder, history, Nets, Control, PairingWaits, SessionState
  <2> QED BY <1>2, <2>1, <2>2, Preserve DEF Inv, Domains, StartResponder, history
<1>3. CASE NodePairingFrame
  <2>1. net' \in Nets  BY <1>3, <1>r, ConsumeNet DEF Inv, NodePairingFrame
  <2>2. Domains'
    BY <1>3, <1>r, <2>1
       DEF Inv, Domains, NodePairingFrame, history, Nets, Control, PairingWaits, SessionState
  <2> QED BY <1>3, <2>1, <2>2, Preserve DEF Inv, Domains, NodePairingFrame, history
<1>4. CASE ReceiveRequest
  <2>1. nonce["server"] + 1 \in Nonce  BY <1>4, <1>r, NonceFacts DEF Inv, Domains, ReceiveRequest
  <2>2. net' \in Nets  BY <1>4, <1>r, <1>n, <2>1, ReplyNet DEF Inv, ReceiveRequest
  <2>3. Incoming("server").nonce \in Nonce  BY <1>4, <1>r, <1>i, FrameFacts DEF ReceiveRequest
  <2>4. derive("server", nonce["server"] + 1, Incoming("server").nonce) \in Sas
    BY <1>r, <2>1, <2>3, DeriveFacts
  <2>5. Domains'
    BY <1>4, <1>r, <2>1, <2>2, <2>4 DEF Inv, Domains, ReceiveRequest, history, Nets, Control
  <2> QED BY <1>4, <2>2, <2>5, Preserve DEF Inv, Domains, ReceiveRequest, history
<1>5. CASE ReceiveResponse
  <2>1. net' \in Nets  BY <1>5, <1>r, ConsumeNet DEF Inv, ReceiveResponse
  <2>2. Incoming("client").nonce \in Nonce  BY <1>5, <1>r, <1>i, FrameFacts DEF ReceiveResponse
  <2>3. derive("client", nonce["client"], Incoming("client").nonce) \in Sas
    BY <1>r, <2>2, DeriveFacts DEF Inv, Domains
  <2>4. Domains'
    BY <1>5, <1>r, <2>1, <2>3 DEF Inv, Domains, ReceiveResponse, history, Nets, Control
  <2> QED BY <1>5, <2>1, <2>4, Preserve DEF Inv, Domains, ReceiveResponse, history
<1>6. ASSUME NEW r \in Role, SkipFrame(r) PROVE Inv'
  <2>1. net' \in Nets
    BY <1>6, <1>f, PeerFacts, ConsumeNet, ReplyNet DEF Inv, SkipFrame, SignalTypes
  <2>2. Domains'  BY <1>6, <2>1 DEF Inv, Domains, SkipFrame, history, Nets
  <2> QED BY <1>6, <2>1, <2>2, Preserve DEF Inv, Domains, SkipFrame, history
<1>7. ASSUME NEW r \in Role, PairingEof(r) PROVE Inv'
  <2>1. net' \in Nets  BY <1>7 DEF Inv, Provenance, PairingEof
  <2>2. Domains'  BY <1>7, <2>1 DEF Inv, Domains, PairingEof, history, Nets, Control
  <2> QED BY <1>7, <2>1, <2>2, Preserve DEF Inv, Domains, PairingEof, history
<1>8. ASSUME NEW r \in Role, PairingAborted(r) PROVE Inv'
  <2>1. net' \in Nets  BY <1>8, ConsumeNet DEF Inv, PairingAborted
  <2>2. Domains'  BY <1>8, <2>1 DEF Inv, Domains, PairingAborted, history, Nets, Control
  <2> QED BY <1>8, <2>1, <2>2, Preserve DEF Inv, Domains, PairingAborted, history
<1>9. ASSUME NEW r \in Role, UserRejects(r) PROVE Inv'
  <2>1. net' \in Nets  BY <1>9, <1>f, PeerFacts, SendNet DEF Inv, UserRejects, SignalTypes
  <2>2. Domains'
    BY <1>9, <2>1 DEF Inv, Domains, UserRejects, history, Nets, Control, SessionState
  <2> QED BY <1>9, <2>1, <2>2, Preserve DEF Inv, Domains, UserRejects, history
<1>10. ASSUME NEW r \in Role, ConfirmMismatch(r) PROVE Inv'
  <2>1. net' \in Nets  BY <1>10, ConsumeNet DEF Inv, ConfirmMismatch
  <2>2. Domains'  BY <1>10, <2>1 DEF Inv, Domains, ConfirmMismatch, history, Nets, Control
  <2> QED BY <1>10, <2>1, <2>2, Preserve DEF Inv, Domains, ConfirmMismatch, history
<1>11. ASSUME NEW r \in Role, IdentityRefused(r) PROVE Inv'
  <2>1. net' \in Nets  BY <1>11, ConsumeNet DEF Inv, IdentityRefused
  <2>2. Domains'  BY <1>11, <2>1 DEF Inv, Domains, IdentityRefused, history, Nets, Control
  <2> QED BY <1>11, <2>1, <2>2, Preserve DEF Inv, Domains, IdentityRefused, history
<1> QED BY <1>1, <1>2, <1>3, <1>4, <1>5, <1>6, <1>7, <1>8, <1>9, <1>10, <1>11

\* An approval: the Confirm sent carries it, and the wait begins with it.
LEMMA UserConfirmsInv == ASSUME Inv, NEW r \in Role, UserConfirms(r) PROVE Inv'
<1> DEFINE p == Peer(r)
<1>1. p \in Role /\ p # r /\ Peer(p) = r  BY PeerFacts
<1>2. sas[r] \in Sas  BY DEF Inv, Domains
<1>3. confirmed' = [confirmed EXCEPT ![r] = confirmed[r] \cup {sas[r]}]
  BY DEF UserConfirms, Inv, Domains
<1>4. \A x \in Role : confirmed[x] \subseteq confirmed'[x]  BY <1>3 DEF Inv, Domains
<1>5. \A x \in Role : FrameTo(x) \subseteq FrameTo(x)'  BY <1>4, PeerFacts DEF FrameTo
<1>6. PairingConfirm(sas[r]) \in FrameTo(p)'
  <2>1. sas[r] \in confirmed'[r]  BY <1>3 DEF Inv, Domains
  <2>2. PairingConfirm(sas[r]) \in Frame /\ PairingConfirm(sas[r]).sas = sas[r]
    BY <1>2, FrameFacts
  <2>3. FrameTo(p)' = {f \in Frame : f.type = "Confirm" => f.sas \in confirmed'[r]}
    BY <1>1 DEF FrameTo
  <2> QED BY <2>1, <2>2, <2>3
<1>7. \A x \in Role : net[x] \in Seq(FrameTo(x)')
  <2> TAKE x \in Role
  <2>1. net[x] \in Seq(FrameTo(x))  BY QueueFacts DEF Inv
  <2> QED BY <1>5, <2>1, SMT
<1>8. Sent(net[p], PairingConfirm(sas[r])) \in Seq(FrameTo(p)')
  BY <1>1, <1>6, <1>7, SMT DEF Sent
<1>9. Sent(net[p], PairingConfirm(sas[r])) \in Seq(Frame)
  BY <1>1, <1>2, FrameFacts, QueueFacts, SMT DEF Sent, Inv
<1>10. net \in [Role -> Seq(Frame)]  BY QueueFacts DEF Inv
<1>11. net' = [net EXCEPT ![p] = Sent(net[p], PairingConfirm(sas[r]))]
  BY <1>1, <1>10 DEF UserConfirms, Send
<1> HIDE DEF p
<1>12. Provenance'  BY <1>1, <1>7, <1>8, <1>9, <1>10, <1>11 DEF Provenance, Nets
<1>13. Domains'
  <2>1. net' \in [Role -> Seq(Frame)]  BY <1>9, <1>10, <1>11
  <2>2. confirmed' \in [Role -> SUBSET Sas]  BY <1>2, <1>3 DEF Inv, Domains
  <2> QED BY <2>1, <2>2 DEF UserConfirms, Inv, Domains, Control, PairingWaits
<1>14. OwnConfirmed'
  BY <1>3, <1>4, ZenonT(30) DEF UserConfirms, Inv, Domains, OwnConfirmed
<1>15. MutualConfirmation'
  <2>1. BothConfirmed => BothConfirmed'  BY <1>4 DEF BothConfirmed
  <2> QED BY <2>1 DEF UserConfirms, Inv, MutualConfirmation
<1>16. FailedConfirmed'
  <2>1. BothConfirmed => BothConfirmed'  BY <1>4 DEF BothConfirmed
  <2> QED BY <2>1 DEF UserConfirms, Inv, FailedConfirmed
<1> QED BY <1>12, <1>13, <1>14, <1>15, <1>16 DEF Inv

\* A ceremony that finalizes: the SAS of the Confirm is the device's own, and
\* each side's user approved it.
LEMMA FinalizeConfirmed ==
  ASSUME Inv, NEW r \in Role, PairingSucceeds(r) \/ SaveFails(r)
  PROVE  BothConfirmed
<1>0. /\ pc[r] = "awaitConfirm" /\ Ready(r)
      /\ Incoming(r).type = "Confirm" /\ finalize(r, Incoming(r))
  BY DEF PairingSucceeds, SaveFails
<1>1. sas[r] \in confirmed[r] /\ sas[r] \in Sas  BY <1>0 DEF Inv, Domains, OwnConfirmed
<1>2. Incoming(r) \in FrameTo(r)  BY <1>0, QueueFacts DEF Inv
<1>3. sas[r] \in confirmed[Peer(r)]  BY <1>0, <1>2 DEF FrameTo, finalize
<1>4. \A x \in Role : x = r \/ x = Peer(r)  BY SMT DEF Role, Peer
<1> QED BY <1>1, <1>3, <1>4 DEF BothConfirmed

\* Saving the peer at the end of a ceremony.
LEMMA PairingSucceedsInv == ASSUME Inv, NEW r \in Role, PairingSucceeds(r) PROVE Inv'
<1>1. BothConfirmed  BY FinalizeConfirmed
<1>2. net' \in Nets  BY ConsumeNet DEF Inv, PairingSucceeds
<1>3. Domains'
  BY <1>2 DEF Inv, Domains, PairingSucceeds, history, Nets, Control, SessionState
<1> QED BY <1>1, <1>2, <1>3, Preserve DEF Inv, Domains, PairingSucceeds, history

\* Failing to save it.
LEMMA SaveFailsInv == ASSUME Inv, NEW r \in Role, SaveFails(r) PROVE Inv'
<1>1. BothConfirmed  BY FinalizeConfirmed
<1>2. net' \in Nets  BY ConsumeNet DEF Inv, SaveFails
<1>3. Domains'
  BY <1>2 DEF Inv, Domains, SaveFails, Nets, Control, SessionState
<1> QED BY <1>1, <1>2, <1>3, Preserve DEF Inv, Domains, SaveFails

\* The frame loops apply data and answer pings, and change no trust.
LEMMA LoopInv ==
  ASSUME Inv,
         \/ SendPing \/ SendOffer \/ LoopOffer \/ LoopOfferFails
         \/ \E r \in Role : LoopFrame(r) \/ LoopClipboard(r) \/ LoopEnds(r) \/ SendClipboard(r)
  PROVE  Inv'
<1>f. \A t \in SignalTypes, r \in Role : Signal(t) \in FrameTo(r)
  BY FrameFacts, PlainFrame, ZenonT(30) DEF SignalTypes
<1>q. \A r \in Role : net[r] \in Seq(FrameTo(r))  BY QueueFacts DEF Inv
<1>1. ASSUME NEW r \in Role, LoopFrame(r) PROVE Inv'
  <2>1. net' \in Nets
    BY <1>1, <1>f, PeerFacts, ConsumeNet, ReplyNet DEF Inv, LoopFrame, SignalTypes
  <2>2. Domains'  BY <1>1, <2>1 DEF Inv, Domains, LoopFrame, history, Nets
  <2> QED BY <1>1, <2>1, <2>2, Preserve DEF Inv, Domains, LoopFrame, history
<1>2. ASSUME NEW r \in Role, LoopClipboard(r) PROVE Inv'
  <2>1. net' \in Nets  BY <1>2, ConsumeNet DEF Inv, LoopClipboard
  <2>2. delivered' \in SUBSET Role  BY <1>2 DEF Inv, Domains, LoopClipboard
  <2>3. Domains'  BY <1>2, <2>1, <2>2 DEF Inv, Domains, LoopClipboard, Nets
  <2> QED BY <1>2, <2>1, <2>3, Preserve DEF Inv, Domains, LoopClipboard
<1>3. ASSUME NEW r \in Role, LoopEnds(r) PROVE Inv'
  BY <1>3, <1>q, PeerFacts, HangupInv DEF LoopEnds
<1>4. ASSUME NEW r \in Role, SendClipboard(r) PROVE Inv'
  <2>1. net' \in Nets  BY <1>4, <1>f, PeerFacts, SendNet DEF Inv, SendClipboard, SignalTypes
  <2>2. Domains'  BY <1>4, <2>1 DEF Inv, Domains, SendClipboard, history, Nets
  <2> QED BY <1>4, <2>1, <2>2, Preserve DEF Inv, Domains, SendClipboard, history
<1>5. CASE SendPing
  <2>1. net' \in Nets
    BY <1>5, <1>f, PeerFacts, SendNet DEF Inv, SendPing, SignalTypes, Role
  <2>2. Domains'  BY <1>5, <2>1 DEF Inv, Domains, SendPing, history, Nets
  <2> QED BY <1>5, <2>1, <2>2, Preserve DEF Inv, Domains, SendPing, history
<1>6. CASE SendOffer
  <2>1. net' \in Nets
    BY <1>6, <1>f, PeerFacts, SendNet DEF Inv, SendOffer, SignalTypes, Role
  <2>2. Domains'  BY <1>6, <2>1 DEF Inv, Domains, SendOffer, history, Nets
  <2> QED BY <1>6, <2>1, <2>2, Preserve DEF Inv, Domains, SendOffer, history
<1>7. CASE LoopOffer
  <2>1. net' \in Nets
    BY <1>7, <1>f, PeerFacts, ConsumeNet, ReplyNet DEF Inv, LoopOffer, SignalTypes, Role
  <2>2. delivered' \in SUBSET Role  BY <1>7 DEF Inv, Domains, LoopOffer, Role
  <2>3. Domains'  BY <1>7, <2>1, <2>2 DEF Inv, Domains, LoopOffer, Nets
  <2> QED BY <1>7, <2>1, <2>3, Preserve DEF Inv, Domains, LoopOffer
<1>8. CASE LoopOfferFails
  BY <1>8, <1>q, PeerFacts, HangupInv DEF LoopOfferFails, Role, Peer
<1> QED BY <1>1, <1>2, <1>3, <1>4, <1>5, <1>6, <1>7, <1>8

\* A process that ends, a link that breaks, a nonce that is altered, a revocation.
LEMMA EnvironmentInv ==
  ASSUME Inv, LinkLoss \/ \E r \in Role : Close(r) \/ AlterNonce(r) \/ Revoke(r)
  PROVE  Inv'
<1>q. \A r \in Role : net[r] \in Seq(FrameTo(r))  BY QueueFacts DEF Inv
<1>1. CASE LinkLoss
  <2>1. PICK k \in 0..Len(net["client"]), m \in 0..Len(net["server"]) :
          net' = [net EXCEPT !["client"] = SubSeq(net["client"], 1, k),
                             !["server"] = SubSeq(net["server"], 1, m)]
    BY <1>1, QueueFacts DEF LinkLoss, Inv, Role
  <2>2. /\ SubSeq(net["client"], 1, k) \in Seq(FrameTo("client"))
        /\ SubSeq(net["server"], 1, m) \in Seq(FrameTo("server"))
    BY <1>q, PrefixFacts DEF Role
  <2>3. /\ SubSeq(net["client"], 1, k) \in Seq(Frame)
        /\ SubSeq(net["server"], 1, m) \in Seq(Frame)
    BY <2>2, SeqFrameTo DEF Role
  <2>4. net' \in Nets  BY <2>1, <2>2, <2>3, QueueFacts DEF Nets, Inv, Role
  <2>5. Domains'  BY <1>1, <2>4 DEF Inv, Domains, LinkLoss, history, Nets
  <2> QED BY <1>1, <2>4, <2>5, Preserve DEF Inv, Domains, LinkLoss, history
<1>2. ASSUME NEW r \in Role, Close(r) PROVE Inv'
  BY <1>2, <1>q, PeerFacts, HangupInv DEF Close
<1>3. ASSUME NEW r \in Role, AlterNonce(r) PROVE Inv'
  <2>1. PICK i \in DOMAIN net[r] :
          /\ net[r][i].type \in {"Request", "Response"}
          /\ net' = [net EXCEPT ![r] = [net[r] EXCEPT ![i] = [net[r][i] EXCEPT !.nonce = 0]]]
    BY <1>3, QueueFacts DEF AlterNonce, Inv
  <2> DEFINE f == [net[r][i] EXCEPT !.nonce = 0]
  <2>2. net[r][i] \in Frame  BY QueueFacts, SMT DEF Inv
  <2>3. f \in Frame /\ f.type # "Confirm"
    BY <2>1, <2>2, NonceFacts DEF Frame, SignalTypes
  <2>4. f \in FrameTo(r)  BY <2>3, PlainFrame
  <2> HIDE DEF f
  <2>5. [net[r] EXCEPT ![i] = f] \in Seq(Frame) /\ [net[r] EXCEPT ![i] = f] \in Seq(FrameTo(r))
    BY <2>3, <2>4, QueueFacts, SMT DEF Inv
  <2>6. net' \in Nets  BY <2>1, <2>5, QueueFacts DEF Nets, Inv, Provenance, f
  <2>7. Domains'  BY <1>3, <2>6 DEF Inv, Domains, AlterNonce, history, Nets
  <2> QED BY <1>3, <2>6, <2>7, Preserve DEF Inv, Domains, AlterNonce, history
<1>4. ASSUME NEW r \in Role, Revoke(r) PROVE Inv'
  <2>1. net' \in Nets  BY <1>4 DEF Inv, Provenance, Revoke
  <2>2. Domains'  BY <1>4, <2>1 DEF Inv, Domains, Revoke, history, Nets
  <2> QED BY <1>4, <2>1, <2>2, Preserve DEF Inv, Domains, Revoke, history
<1> QED BY <1>1, <1>2, <1>3, <1>4

-----------------------------------------------------------------------------
(* The theorems. *)

\* The invariant is inductive.
LEMMA NextInv == Inv /\ [Next]_vars => Inv'
<1> SUFFICES ASSUME Inv, [Next]_vars PROVE Inv'
  OBVIOUS
<1>1. CASE UNCHANGED vars
  <2>1. net' \in Nets  BY <1>1 DEF vars, Inv, Provenance
  <2>2. Domains'  BY <1>1 DEF vars, Inv, Domains
  <2> QED BY <1>1, <2>1, <2>2, Preserve DEF vars
<1>r. "client" \in Role /\ "server" \in Role  BY DEF Role
<1>2. ASSUME NEW r \in Role, Receives(r) PROVE Inv'
  BY <1>2, HandshakeInv, CeremonyInv, PairingSucceedsInv, SaveFailsInv, LoopInv DEF Receives
<1>3. CASE ClientStep
  BY <1>3, <1>r, <1>2, HandshakeInv, CeremonyInv DEF ClientStep
<1>4. CASE ServerStep
  BY <1>4, <1>r, <1>2, HandshakeInv, CeremonyInv, LoopInv DEF ServerStep
<1>5. ASSUME NEW r \in Role, UserAnswers(r) PROVE Inv'
  BY <1>5, UserConfirmsInv, CeremonyInv DEF UserAnswers
<1>6. CASE Environment
  BY <1>6, ConnectInv, CeremonyInv, LoopInv, EnvironmentInv DEF Environment
<1> QED BY <1>1, <1>3, <1>4, <1>5, <1>6 DEF Next

\* A device whose task moves on, with the state that goes with its new place.
LEMMA TaskMoves ==
  ASSUME Domains, StateFollowsTask, NEW r \in Role, NEW c,
         pc' = [pc EXCEPT ![r] = c],
         \/ state' = state /\ Fits(c, state[r])
         \/ \E v : state' = [state EXCEPT ![r] = v] /\ Fits(c, v)
  PROVE  StateFollowsTask'
<1> SUFFICES ASSUME NEW x \in Role PROVE Fits(pc'[x], state'[x])
  BY DEF StateFollowsTask
<1>1. CASE x = r
  BY <1>1 DEF Domains
<1>2. CASE x # r
  BY <1>2 DEF Domains, StateFollowsTask
<1> QED BY <1>1, <1>2

\* The states that fit each place.
LEMMA FitsFacts ==
  /\ Fits("idle", "Terminated")
  /\ \A c \in HandshakeWaits : Fits(c, "Handshaking")
  /\ \A v \in {"AuthenticatedUntrusted", "Pairing", "Trusted"} : Fits("session", v)
  /\ \A c \in PairingWaits \cup {"confirming"} : Fits(c, "Pairing")
  /\ \A c \in HandshakeWaits : \A v : Fits(c, v) => v = "Handshaking"
  /\ \A c \in PairingWaits \cup {"confirming"} : \A v : Fits(c, v) => v = "Pairing"
BY DEF Fits, HandshakeWaits, PairingWaits

\* The places of the two kinds.
LEMMA Places ==
  /\ {"awaitClientHello", "awaitServerHello", "awaitAuthResponse", "awaitAuthResult"} = HandshakeWaits
  /\ {"awaitRequest", "awaitResponse", "awaitConfirm", "confirming"} = PairingWaits \cup {"confirming"}
BY DEF HandshakeWaits, PairingWaits

\* Every step keeps the state of a session with its task.
LEMMA NextFollows ==
  ASSUME Domains, StateFollowsTask, [Next]_vars PROVE StateFollowsTask'
<1> USE DEF history
<1>r. "client" \in Role /\ "server" \in Role  BY DEF Role
<1>s. \A r \in Role : Fits(pc[r], state[r])  BY DEF StateFollowsTask
<1>k. UNCHANGED <<pc, state>> => StateFollowsTask'  BY DEF StateFollowsTask
<1>h. ASSUME NEW r, NEW q, r \in Role, Hangup(r, q) PROVE StateFollowsTask'
  BY <1>h, TaskMoves, FitsFacts DEF Hangup
<1>1. CASE UNCHANGED vars
  BY <1>1, <1>k DEF vars
<1>2. CASE Connect
  <2> SUFFICES ASSUME NEW r \in Role PROVE Fits(pc'[r], state'[r])
    BY DEF StateFollowsTask
  <2>1. state'[r] = "Handshaking" /\ pc'[r] \in HandshakeWaits
    BY <1>2, Places DEF Connect
  <2> QED BY <2>1, FitsFacts
<1>3. ASSUME NEW r \in Role, HandshakeFails(r) \/ LoopEnds(r) \/ Close(r)
      PROVE  StateFollowsTask'
  BY <1>3, <1>h DEF HandshakeFails, LoopEnds, Close
<1>4. CASE ServerRefusesRevoked \/ ServerRefusesSignature \/ ClientRefusesRevoked \/ LoopOfferFails
  BY <1>4, <1>h, <1>r DEF ServerRefusesRevoked, ServerRefusesSignature, ClientRefusesRevoked, LoopOfferFails
<1>5. CASE ServerHello \/ ClientAuth
  <2>1. PICK r \in Role, c \in HandshakeWaits :
          pc[r] \in HandshakeWaits /\ pc' = [pc EXCEPT ![r] = c] /\ state' = state
    BY <1>5, <1>r, Places DEF ServerHello, ClientAuth
  <2>2. Fits(c, state[r])  BY <1>s, <2>1, FitsFacts
  <2> QED BY <2>1, <2>2, TaskMoves
<1>6. CASE ServerAuthResult \/ ClientAuthenticated
  <2>1. PICK r \in Role : pc' = [pc EXCEPT ![r] = "session"] /\ state' = [state EXCEPT ![r] = InitialState(r)]
    BY <1>6, <1>r DEF ServerAuthResult, ClientAuthenticated
  <2>2. Fits("session", InitialState(r))  BY FitsFacts DEF InitialState
  <2> QED BY <2>1, <2>2, TaskMoves
<1>7. CASE StartPairing \/ StartResponder \/ NodePairingFrame
  <2>1. PICK r \in Role, c \in PairingWaits \cup {"confirming"} :
          pc' = [pc EXCEPT ![r] = c] /\ state' = [state EXCEPT ![r] = "Pairing"]
    BY <1>7, <1>r, Places DEF StartPairing, StartResponder, NodePairingFrame
  <2>2. Fits(c, "Pairing")  BY FitsFacts
  <2> QED BY <2>1, <2>2, TaskMoves
<1>8. ASSUME NEW r \in Role,
             PairingEof(r) \/ PairingAborted(r) \/ IdentityRefused(r) \/ ConfirmMismatch(r) \/ SaveFails(r)
      PROVE  StateFollowsTask'
  <2>1. /\ pc[r] \in PairingWaits \cup {"confirming"}
        /\ pc' = [pc EXCEPT ![r] = "session"] /\ state' = state
    BY <1>8, Places DEF PairingEof, PairingAborted, IdentityRefused, ConfirmMismatch, SaveFails
  <2>2. Fits("session", state[r])  BY <1>s, <2>1, FitsFacts
  <2> QED BY <2>1, <2>2, TaskMoves
<1>9. CASE ReceiveRequest \/ ReceiveResponse \/ \E r \in Role : UserConfirms(r)
  <2>1. PICK r \in Role, c \in PairingWaits \cup {"confirming"} :
          /\ pc[r] \in PairingWaits \cup {"confirming"}
          /\ pc' = [pc EXCEPT ![r] = c] /\ state' = state
    BY <1>9, <1>r, Places DEF ReceiveRequest, ReceiveResponse, UserConfirms
  <2>2. Fits(c, state[r])  BY <1>s, <2>1, FitsFacts
  <2> QED BY <2>1, <2>2, TaskMoves
<1>10. ASSUME NEW r \in Role, UserRejects(r) \/ PairingSucceeds(r) PROVE StateFollowsTask'
  <2>1. PICK v \in {"AuthenticatedUntrusted", "Pairing", "Trusted"} :
          pc' = [pc EXCEPT ![r] = "session"] /\ state' = [state EXCEPT ![r] = v]
    BY <1>10 DEF UserRejects, PairingSucceeds
  <2>2. Fits("session", v)  BY FitsFacts
  <2> QED BY <2>1, <2>2, TaskMoves
<1>11. ASSUME NEW r \in Role,
              SkipFrame(r) \/ LoopFrame(r) \/ LoopClipboard(r) \/ SendClipboard(r) \/ AlterNonce(r) \/ Revoke(r)
       PROVE  StateFollowsTask'
  BY <1>11, <1>k DEF SkipFrame, LoopFrame, LoopClipboard, SendClipboard, AlterNonce, Revoke
<1>12. CASE LoopOffer \/ SendPing \/ SendOffer \/ LinkLoss
  BY <1>12, <1>k DEF LoopOffer, SendPing, SendOffer, LinkLoss
<1>13. ASSUME NEW r \in Role, Receives(r) PROVE StateFollowsTask'
  BY <1>3, <1>8, <1>10, <1>11, <1>13 DEF Receives
<1>14. CASE ClientStep
  BY <1>4, <1>5, <1>6, <1>9, <1>13, <1>14, <1>r DEF ClientStep
<1>15. CASE ServerStep
  BY <1>4, <1>5, <1>6, <1>7, <1>9, <1>12, <1>13, <1>15, <1>r DEF ServerStep
<1>16. CASE Environment
  BY <1>2, <1>3, <1>7, <1>11, <1>12, <1>16 DEF Environment
<1>17. ASSUME NEW r \in Role, UserAnswers(r) PROVE StateFollowsTask'
  BY <1>9, <1>10, <1>17 DEF UserAnswers
<1> QED BY <1>1, <1>14, <1>15, <1>16, <1>17 DEF Next

\* Every variable keeps its type, and the state of a session that of its task: no session
\* is Trusted while it shakes hands or pairs, whatever frame its task meets.
THEOREM TypeCorrect == Spec => []TypeOK
<1>1. Init => StateFollowsTask
  BY FitsFacts DEF Init, StateFollowsTask
<1>2. Inv /\ StateFollowsTask /\ [Next]_vars => StateFollowsTask'
  BY NextFollows DEF Inv
<1>3. Inv /\ StateFollowsTask => TypeOK
  BY DEF Inv, TypeOK
<1> QED BY <1>1, <1>2, <1>3, InitInv, NextInv, PTL DEF Spec

\* However the two devices' frames, users, crashes, lost connections, altered nonces
\* and revocations interleave, and however many ceremonies they run, neither keeps
\* a record of the other or trusts a session unless both users approved one SAS.
THEOREM TrustNeedsBothUsers == Spec => []MutualConfirmation
BY InitInv, NextInv, PTL DEF Spec, Inv

\* A step of the code is a step of what pairing promises, or changes nothing of it.
LEMMA StepImplementsContract == Inv /\ [Next]_vars => [Contract!Next]_(Contract!vars)
<1> SUFFICES ASSUME Inv, [Next]_vars PROVE [Contract!Next]_(Contract!vars)
  OBVIOUS
<1> DEFINE Quiet == UNCHANGED <<confirmed, trust, delivered>>
<1>q. Quiet => [Contract!Next]_(Contract!vars)  BY DEF Contract!vars
<1>1. CASE UNCHANGED vars
  BY <1>1, <1>q DEF vars
<1>2. ASSUME NEW r \in Role, UserConfirms(r) PROVE Contract!Next
  <2>1. Contract!Approve(r)  BY <1>2 DEF UserConfirms, Contract!Approve, Inv, Domains
  <2> QED BY <2>1 DEF Contract!Next
<1>3. ASSUME NEW r \in Role, PairingSucceeds(r) PROVE Contract!Next
  <2>1. BothConfirmed  BY <1>3, FinalizeConfirmed
  <2>2. Contract!Pin(r)
    BY <1>3, <2>1 DEF PairingSucceeds, history, Contract!Pin, Contract!BothConfirmed, BothConfirmed
  <2> QED BY <2>2 DEF Contract!Next
<1>4. ASSUME NEW r \in Role, Revoke(r) PROVE Contract!Next
  <2>1. Contract!Revoke(r)  BY <1>4 DEF Revoke, history, Contract!Revoke
  <2> QED BY <2>1 DEF Contract!Next
<1>5. ASSUME NEW r \in Role, LoopClipboard(r) PROVE Contract!Next \/ Quiet
  <2>1. CASE AppliesData(r)
    <3>1. BothConfirmed  BY <2>1 DEF AppliesData, Inv, MutualConfirmation
    <3>2. Contract!Deliver(r)
      BY <1>5, <2>1, <3>1
         DEF LoopClipboard, Contract!Deliver, Contract!BothConfirmed, BothConfirmed
    <3> QED BY <3>2 DEF Contract!Next
  <2>2. CASE ~ AppliesData(r)
    BY <1>5, <2>2 DEF LoopClipboard
  <2> QED BY <2>1, <2>2
<1>r. "client" \in Role /\ "server" \in Role  BY DEF Role
<1>o. ASSUME LoopOffer PROVE Contract!Next \/ Quiet
  <2>1. CASE AppliesData("server")
    <3>1. BothConfirmed  BY <1>r, <2>1 DEF AppliesData, Inv, MutualConfirmation
    <3>2. Contract!Deliver("server")
      BY <1>o, <2>1, <3>1 DEF LoopOffer, Contract!Deliver, Contract!BothConfirmed, BothConfirmed
    <3> QED BY <1>r, <3>2 DEF Contract!Next
  <2>2. CASE ~ AppliesData("server")
    BY <1>o, <2>2 DEF LoopOffer
  <2> QED BY <2>1, <2>2
<1>6. ASSUME NEW r \in Role, Receives(r) PROVE Contract!Next \/ Quiet
  BY <1>6, <1>3, <1>5
     DEF Receives, HandshakeFails, SkipFrame, PairingEof, PairingAborted, IdentityRefused,
         SaveFails, ConfirmMismatch, LoopFrame, LoopEnds, history
<1>7. CASE ClientStep
  <2>1. Receives("client") => Contract!Next \/ Quiet  BY <1>6, <1>r
  <2> QED BY <1>7, <1>q, <2>1
       DEF ClientStep, ClientAuth, ClientAuthenticated, ClientRefusesRevoked, ReceiveResponse, history
<1>8. CASE ServerStep
  <2>1. Receives("server") => Contract!Next \/ Quiet  BY <1>6, <1>r
  <2> QED BY <1>8, <1>q, <1>o, <2>1
       DEF ServerStep, ServerHello, ServerAuthResult, ServerRefusesRevoked,
           ServerRefusesSignature, ReceiveRequest, NodePairingFrame, LoopOfferFails, history
<1>9. ASSUME NEW r \in Role, UserAnswers(r) PROVE Contract!Next \/ Quiet
  BY <1>9, <1>2 DEF UserAnswers, UserRejects, history
<1>10. CASE Environment
  BY <1>10, <1>q, <1>4
     DEF Environment, Connect, StartPairing, StartResponder, LinkLoss, Close, AlterNonce,
         SendClipboard, SendPing, SendOffer, history
<1> QED BY <1>1, <1>7, <1>8, <1>9, <1>10, <1>q DEF Next

\* The session layer implements TrustContract: a record of trust is made, and
\* application data is applied, only once both users approved one SAS, and a
\* record never disappears.
THEOREM SessionImplementsContract == Spec => ImplementsContract
<1>1. Init => Contract!Init  BY DEF Init, Contract!Init
<1> QED BY <1>1, InitInv, NextInv, StepImplementsContract, PTL
     DEF Spec, ImplementsContract, Contract!Spec

-----------------------------------------------------------------------------
(* The frames of a queue that concern a ceremony. *)

\* What a device inside a ceremony does not skip.
Marked == PairingTypes \cup {"Disconnect"}

MarkedSteps(f, q, m) ==
    f = [n \in 0..m |-> IF n = 0 THEN <<>>
                        ELSE IF q[n].type \in Marked THEN Append(f[n - 1], q[n]) ELSE f[n - 1]]

\* The marked frames of q, in order.
MarkedOf(q) == (CHOOSE f : MarkedSteps(f, q, Len(q)))[Len(q)]

\* A set of naturals that is not empty has a least element.
LEMMA LeastNumber ==
    ASSUME NEW S, S \subseteq Nat, S # {}
    PROVE  \E n \in S : \A m \in S : n <= m
<1> DEFINE R == {p \in Nat \X Nat : p[1] < p[2]}
<1>1. IsWellFoundedOn(R, Nat)
  BY NatLessThanWellFounded DEF OpToRel
<1> HIDE DEF R
<1>2. PICK x \in S : \A y \in S : ~ (<<y, x>> \in R)
  BY <1>1, WFMin
<1>3. \A y \in S : ~ (y < x)
  BY <1>2 DEF R
<1> QED BY <1>3, SMT

\* Induction up to N, for a set.
LEMMA UpTo ==
    ASSUME NEW S, NEW N \in Nat, 0 \in S, \A n \in 0..N : n # 0 /\ n - 1 \in S => n \in S
    PROVE  \A n \in 0..N : n \in S
<1> DEFINE T == {n \in 0..N : n \notin S}
<1> SUFFICES ASSUME T # {} PROVE FALSE
  OBVIOUS
<1>1. T \subseteq Nat
  BY SMT
<1>2. PICK m \in T : \A k \in T : m <= k
  <2> HIDE DEF T
  <2> QED
    BY <1>1, LeastNumber
<1>3. m \in 0..N /\ m \notin S
  OBVIOUS
<1>4. m # 0
  BY <1>3
<1>5. m - 1 \in 0..N /\ ~ (m <= m - 1)
  BY <1>3, <1>4, SMT
<1>6. m - 1 \in S
  BY <1>2, <1>5
<1> QED
  BY <1>3, <1>4, <1>6

\* The marked frames of longer and longer prefixes exist.
LEMMA MarkedExists ==
    ASSUME NEW q, NEW N \in Nat
    PROVE  \E f : MarkedSteps(f, q, N)
<1> DEFINE S == {m \in 0..N : \E f : MarkedSteps(f, q, m)}
<1>1. 0 \in S
  <2>1. MarkedSteps([n \in 0..0 |-> <<>>], q, 0)
    BY SMT DEF MarkedSteps
  <2>2. 0 \in 0..N
    BY SMT
  <2> QED
    BY <2>1, <2>2
<1>2. ASSUME NEW m \in 0..N, m # 0, m - 1 \in S
      PROVE  m \in S
  <2>1. PICK g : MarkedSteps(g, q, m - 1)
    BY <1>2
  <2> DEFINE f == [n \in 0..m |-> IF n = m THEN IF q[m].type \in Marked THEN Append(g[m - 1], q[m]) ELSE g[m - 1]
                                  ELSE g[n]]
  <2>2. \A n \in 0..m - 1 :
          g[n] = IF n = 0 THEN <<>> ELSE IF q[n].type \in Marked THEN Append(g[n - 1], q[n]) ELSE g[n - 1]
    BY <2>1 DEF MarkedSteps
  <2>3. \A n \in 0..m :
          f[n] = IF n = 0 THEN <<>> ELSE IF q[n].type \in Marked THEN Append(f[n - 1], q[n]) ELSE f[n - 1]
    BY <1>2, <2>2, SMT
  <2>4. f = [n \in 0..m |-> f[n]]
    OBVIOUS
  <2> HIDE DEF f
  <2>5. MarkedSteps(f, q, m)
    BY <2>3, <2>4 DEF MarkedSteps
  <2> QED
    BY <2>5
<1> HIDE DEF S
<1>3. \A m \in 0..N : m \in S
  BY <1>1, <1>2, UpTo
<1>4. N \in 0..N
  BY SMT
<1> QED
  BY <1>3, <1>4 DEF S

\* MarkedOf(q) is built one frame after the other.
LEMMA MarkedBuilt ==
    ASSUME NEW q, Len(q) \in Nat
    PROVE  \E f : /\ MarkedOf(q) = f[Len(q)] /\ f[0] = <<>>
                  /\ \A n \in 1..Len(q) :
                       f[n] = IF q[n].type \in Marked THEN Append(f[n - 1], q[n]) ELSE f[n - 1]
<1> DEFINE f == CHOOSE g : MarkedSteps(g, q, Len(q))
<1>1. MarkedSteps(f, q, Len(q))
  BY MarkedExists
<1>2. MarkedOf(q) = f[Len(q)]
  BY DEF MarkedOf
<1> HIDE DEF f
<1>3. \A n \in 0..Len(q) :
          f[n] = IF n = 0 THEN <<>> ELSE IF q[n].type \in Marked THEN Append(f[n - 1], q[n]) ELSE f[n - 1]
  BY <1>1 DEF MarkedSteps
<1>4. 0 \in 0..Len(q) /\ \A n \in 1..Len(q) : n \in 0..Len(q) /\ n # 0
  BY SMT
<1>5. f[0] = <<>>
  BY <1>3, <1>4
<1>6. \A n \in 1..Len(q) : f[n] = IF q[n].type \in Marked THEN Append(f[n - 1], q[n]) ELSE f[n - 1]
  BY <1>3, <1>4
<1> QED
  BY <1>2, <1>5, <1>6

\* Every marked frame is a frame of the queue.
LEMMA MarkedType ==
    ASSUME NEW q \in Seq(Frame)
    PROVE  /\ MarkedOf(q) \in Seq(Frame)
           /\ \A k \in 1..Len(MarkedOf(q)) : \E i \in 1..Len(q) : MarkedOf(q)[k] = q[i]
<1>1. Len(q) \in Nat /\ \A n \in 1..Len(q) : q[n] \in Frame
  BY SMT
<1>2. PICK f : /\ MarkedOf(q) = f[Len(q)] /\ f[0] = <<>>
               /\ \A n \in 1..Len(q) : f[n] = IF q[n].type \in Marked THEN Append(f[n - 1], q[n]) ELSE f[n - 1]
  BY <1>1, MarkedBuilt
<1> DEFINE Good(s) == s \in Seq(Frame) /\ \A k \in 1..Len(s) : \E i \in 1..Len(q) : s[k] = q[i]
           S == {n \in 0..Len(q) : Good(f[n])}
<1>3. Good(<<>>)
  BY SMT
<1>4. ASSUME NEW s, Good(s), NEW n \in 1..Len(q)
      PROVE  Good(Append(s, q[n]))
  <2>1. /\ Append(s, q[n]) \in Seq(Frame)
        /\ \A k \in 1..Len(Append(s, q[n])) : Append(s, q[n])[k] = q[n] \/ (k \in 1..Len(s) /\ Append(s, q[n])[k] = s[k])
    BY <1>1, <1>4, SMT
  <2> QED
    BY <1>4, <2>1
<1> HIDE DEF Good
<1>5. 0 \in S
  BY <1>1, <1>2, <1>3, SMT
<1>6. ASSUME NEW n \in 0..Len(q), n # 0, n - 1 \in S
      PROVE  n \in S
  <2>1. n \in 1..Len(q)
    BY <1>1, <1>6, SMT
  <2>2. f[n] = Append(f[n - 1], q[n]) \/ f[n] = f[n - 1]
    BY <1>2, <2>1
  <2>3. Good(f[n - 1])
    BY <1>6
  <2>4. Good(f[n])
    BY <1>4, <2>1, <2>2, <2>3
  <2> QED
    BY <2>4
<1> HIDE DEF S
<1>7. \A n \in 0..Len(q) : n \in S
  BY <1>1, <1>5, <1>6, UpTo
<1>8. Len(q) \in 0..Len(q)
  BY <1>1, SMT
<1>9. Good(f[Len(q)])
  BY <1>7, <1>8 DEF S
<1> QED
  BY <1>2, <1>9 DEF Good

\* The marked frames after a write.
LEMMA MarkedAppend ==
    ASSUME NEW q \in Seq(Frame), NEW x \in Frame
    PROVE  MarkedOf(Append(q, x)) = IF x.type \in Marked THEN Append(MarkedOf(q), x) ELSE MarkedOf(q)
<1> DEFINE a == Append(q, x)
<1>1. /\ Len(q) \in Nat /\ Len(a) \in Nat /\ Len(a) = Len(q) + 1 /\ a[Len(a)] = x
      /\ \A n \in 1..Len(q) : n \in 1..Len(a) /\ a[n] = q[n]
      /\ Len(a) \in 1..Len(a) /\ Len(a) - 1 = Len(q) /\ Len(q) \in 0..Len(q) /\ 0 \in 0..Len(q)
      /\ \A n \in 0..Len(q) : n # 0 => n \in 1..Len(q)
  BY SMT
<1> HIDE DEF a
<1>2. PICK f : /\ MarkedOf(q) = f[Len(q)] /\ f[0] = <<>>
               /\ \A n \in 1..Len(q) : f[n] = IF q[n].type \in Marked THEN Append(f[n - 1], q[n]) ELSE f[n - 1]
  BY <1>1, MarkedBuilt
<1>3. PICK g : /\ MarkedOf(a) = g[Len(a)] /\ g[0] = <<>>
               /\ \A n \in 1..Len(a) : g[n] = IF a[n].type \in Marked THEN Append(g[n - 1], a[n]) ELSE g[n - 1]
  BY <1>1, MarkedBuilt
<1> DEFINE S == {n \in 0..Len(q) : g[n] = f[n]}
<1>4. 0 \in S
  BY <1>1, <1>2, <1>3
<1>5. ASSUME NEW n \in 0..Len(q), n # 0, n - 1 \in S
      PROVE  n \in S
  <2>1. n \in 1..Len(q) /\ n \in 1..Len(a) /\ a[n] = q[n]
    BY <1>1, <1>5
  <2>2. g[n - 1] = f[n - 1]
    BY <1>5
  <2>3. g[n] = f[n]
    BY <1>2, <1>3, <2>1, <2>2
  <2> QED
    BY <2>3
<1> HIDE DEF S
<1>6. \A n \in 0..Len(q) : n \in S
  BY <1>1, <1>4, <1>5, UpTo
<1>7. g[Len(q)] = f[Len(q)]
  BY <1>1, <1>6 DEF S
<1>8. g[Len(a)] = IF x.type \in Marked THEN Append(g[Len(q)], x) ELSE g[Len(q)]
  BY <1>1, <1>3
<1> QED
  BY <1>2, <1>3, <1>7, <1>8 DEF a

\* The marked frames after a read.
LEMMA MarkedTail ==
    ASSUME NEW q \in Seq(Frame), q # <<>>
    PROVE  IF Head(q).type \in Marked
           THEN MarkedOf(q) # <<>> /\ Head(MarkedOf(q)) = Head(q) /\ MarkedOf(Tail(q)) = Tail(MarkedOf(q))
           ELSE MarkedOf(Tail(q)) = MarkedOf(q)
<1> DEFINE t == Tail(q)
           h == Head(q)
<1>1. /\ Len(q) \in Nat /\ Len(t) \in Nat /\ Len(q) = Len(t) + 1 /\ q[1] = h /\ h \in Frame
      /\ \A n \in 1..Len(t) : t[n] = q[n + 1] /\ n + 1 \in 1..Len(q) /\ (n + 1) - 1 = n /\ (n - 1) + 1 = n
                              /\ t[n] \in Frame
      /\ 1 \in 1..Len(q) /\ 1 - 1 = 0 /\ 0 + 1 = 1 /\ Len(t) \in 0..Len(t) /\ 0 \in 0..Len(t)
      /\ \A n \in 0..Len(t) : n # 0 => n \in 1..Len(t)
  BY SMT
<1> HIDE DEF t, h
<1>2. PICK f : /\ MarkedOf(q) = f[Len(q)] /\ f[0] = <<>>
               /\ \A n \in 1..Len(q) : f[n] = IF q[n].type \in Marked THEN Append(f[n - 1], q[n]) ELSE f[n - 1]
  BY ZenonT(60), <1>1, MarkedBuilt
<1>3. PICK g : /\ MarkedOf(t) = g[Len(t)] /\ g[0] = <<>>
               /\ \A n \in 1..Len(t) : g[n] = IF t[n].type \in Marked THEN Append(g[n - 1], t[n]) ELSE g[n - 1]
  BY <1>1, MarkedBuilt
<1> DEFINE Rel(u, v) == IF h.type \in Marked THEN v \in Seq(Frame) /\ u = <<h>> \o v ELSE u = v
           S == {n \in 0..Len(t) : Rel(f[n + 1], g[n])}
<1>4. Rel(f[1], <<>>)
  <2>1. f[1] = IF h.type \in Marked THEN Append(<<>>, h) ELSE <<>>
    BY <1>1, <1>2
  <2>2. Append(<<>>, h) = <<h>> \o <<>> /\ <<>> \in Seq(Frame)
    BY <1>1, SMT
  <2> QED
    BY <2>1, <2>2
<1>5. ASSUME NEW u, NEW v, Rel(u, v), NEW y \in Frame
      PROVE  Rel(Append(u, y), Append(v, y))
  <2>1. ASSUME v \in Seq(Frame) PROVE Append(<<h>> \o v, y) = <<h>> \o Append(v, y) /\ Append(v, y) \in Seq(Frame)
    BY <1>1, <2>1, SMT
  <2> QED
    BY <1>5, <2>1
<1> HIDE DEF Rel
<1>6. 0 \in S
  BY <1>1, <1>3, <1>4
<1>7. ASSUME NEW n \in 0..Len(t), n # 0, n - 1 \in S
      PROVE  n \in S
  <2>1. n \in 1..Len(t) /\ t[n] = q[n + 1] /\ n + 1 \in 1..Len(q) /\ (n + 1) - 1 = n /\ (n - 1) + 1 = n /\ t[n] \in Frame
    BY <1>1, <1>7
  <2>2. Rel(f[n], g[n - 1])
    BY <1>7, <2>1
  <2>3. f[n + 1] = IF t[n].type \in Marked THEN Append(f[n], t[n]) ELSE f[n]
    BY <1>2, <2>1
  <2>4. g[n] = IF t[n].type \in Marked THEN Append(g[n - 1], t[n]) ELSE g[n - 1]
    BY <1>3, <2>1
  <2>5. Rel(f[n + 1], g[n])
    BY <1>5, <2>1, <2>2, <2>3, <2>4
  <2> QED
    BY <2>5
<1> HIDE DEF S
<1>8. \A n \in 0..Len(t) : n \in S
  BY <1>1, <1>6, <1>7, UpTo
<1>9. Rel(f[Len(t) + 1], g[Len(t)])
  BY <1>1, <1>8 DEF S
<1>10. Rel(MarkedOf(q), MarkedOf(t))
  BY <1>1, <1>2, <1>3, <1>9
<1>11. ASSUME NEW u, NEW v \in Seq(Frame), u = <<h>> \o v
       PROVE  u # <<>> /\ Head(u) = h /\ v = Tail(u)
  BY <1>1, <1>11, SMT
<1> QED
  BY <1>10, <1>11 DEF Rel, t, h

\* b is a, but for nonces that were replaced by 0.
Altered(a, b) ==
    /\ a \in Seq(Frame) /\ b \in Seq(Frame) /\ Len(b) = Len(a)
    /\ \A k \in 1..Len(a) : \/ b[k] = a[k]
                            \/ /\ a[k].type \in {"Request", "Response"}
                               /\ b[k].type = a[k].type /\ b[k].nonce = 0

\* The marked frames after a nonce was altered.
LEMMA MarkedAlter ==
    ASSUME NEW q \in Seq(Frame), NEW i \in 1..Len(q), q[i].type \in {"Request", "Response"}
    PROVE  LET a == [q EXCEPT ![i].nonce = 0] IN a \in Seq(Frame) /\ Altered(MarkedOf(q), MarkedOf(a))
<1> DEFINE x == [q[i] EXCEPT !.nonce = 0]
           a == [q EXCEPT ![i].nonce = 0]
<1>1. q[i] \in Frame
  BY SMT
<1>2. q[i] \in [type : {"Request", "Response"}, nonce : Nonce]
  BY <1>1, SMT DEF Frame, SignalTypes
<1>3. x \in [type : {"Request", "Response"}, nonce : Nonce] /\ x.type = q[i].type /\ x.nonce = 0
  BY <1>2, NonceFacts, SMT
<1>4. x \in Frame
  BY <1>3 DEF Frame
<1>5. a = [q EXCEPT ![i] = x]
  BY SMT
<1> HIDE DEF x
<1>6. /\ Len(q) \in Nat /\ a \in Seq(Frame) /\ Len(a) = Len(q)
      /\ \A n \in 1..Len(q) : a[n] = (IF n = i THEN x ELSE q[n]) /\ a[n] \in Frame /\ q[n] \in Frame
      /\ Len(q) \in 0..Len(q) /\ 0 \in 0..Len(q)
      /\ \A n \in 0..Len(q) : n # 0 => n \in 1..Len(q)
  BY <1>4, <1>5, SMT
<1> HIDE DEF a
<1>7. \A n \in 1..Len(q) : /\ a[n] \in Frame /\ q[n] \in Frame /\ a[n].type = q[n].type
                           /\ a[n] = q[n] \/ (q[n].type \in {"Request", "Response"} /\ a[n].nonce = 0)
  BY <1>3, <1>6
<1>8. PICK f : /\ MarkedOf(q) = f[Len(q)] /\ f[0] = <<>>
               /\ \A n \in 1..Len(q) : f[n] = IF q[n].type \in Marked THEN Append(f[n - 1], q[n]) ELSE f[n - 1]
  BY <1>6, MarkedBuilt
<1>9. PICK g : /\ MarkedOf(a) = g[Len(a)] /\ g[0] = <<>>
               /\ \A n \in 1..Len(a) : g[n] = IF a[n].type \in Marked THEN Append(g[n - 1], a[n]) ELSE g[n - 1]
  BY <1>6, MarkedBuilt
<1> DEFINE S == {n \in 0..Len(q) : Altered(f[n], g[n])}
<1>10. Altered(<<>>, <<>>)
  BY SMT DEF Altered
<1>11. 0 \in S
  BY <1>6, <1>8, <1>9, <1>10
<1>12. ASSUME NEW u, NEW v, Altered(u, v), NEW y \in Frame, NEW z \in Frame, z.type = y.type,
              z = y \/ (y.type \in {"Request", "Response"} /\ z.nonce = 0)
       PROVE  Altered(Append(u, y), Append(v, z))
  <2>1. u \in Seq(Frame) /\ v \in Seq(Frame) /\ Len(v) = Len(u)
    BY <1>12 DEF Altered
  <2>2. /\ Append(u, y) \in Seq(Frame) /\ Append(v, z) \in Seq(Frame)
        /\ Len(Append(v, z)) = Len(Append(u, y))
        /\ \A k \in 1..Len(Append(u, y)) :
             \/ Append(u, y)[k] = y /\ Append(v, z)[k] = z
             \/ k \in 1..Len(u) /\ Append(u, y)[k] = u[k] /\ Append(v, z)[k] = v[k]
    BY <2>1, SMT
  <2> QED
    BY <1>12, <2>2 DEF Altered
<1>13. ASSUME NEW n \in 0..Len(q), n # 0, n - 1 \in S
       PROVE  n \in S
  <2>1. n \in 1..Len(q) /\ n \in 1..Len(a)
    BY <1>6, <1>13
  <2>2. Altered(f[n - 1], g[n - 1])
    BY <1>13
  <2>3. CASE q[n].type \in Marked
    <3>1. f[n] = Append(f[n - 1], q[n]) /\ g[n] = Append(g[n - 1], a[n])
      BY <1>7, <1>8, <1>9, <2>1, <2>3
    <3> QED
      BY ZenonT(60), <1>7, <1>12, <2>1, <2>2, <3>1
  <2>4. CASE q[n].type \notin Marked
    <3>1. f[n] = f[n - 1] /\ g[n] = g[n - 1]
      BY <1>7, <1>8, <1>9, <2>1, <2>4
    <3> QED
      BY <2>2, <3>1
  <2> QED
    BY <2>3, <2>4
<1> HIDE DEF S
<1>14. \A n \in 0..Len(q) : n \in S
  BY <1>6, <1>11, <1>13, UpTo
<1>15. Altered(f[Len(q)], g[Len(q)])
  BY <1>6, <1>14 DEF S
<1> QED
  BY <1>6, <1>8, <1>9, <1>15 DEF a

\* The frames in flight to r that a ceremony does not skip.
Due(r) == MarkedOf(net[r])

\* The first connection, up to the moment it goes down.
FirstUp == connections = 1 /\ link = "up"

-----------------------------------------------------------------------------
(* What a step of the first connection is to the ceremony. *)

InCeremony == {"awaitResponse", "confirming", "awaitConfirm"}

\* r takes the first frame that is due, or none.
Takes(r) == Due(r)' = Due(r) \/ (Due(r) # <<>> /\ Due(r)' = Tail(Due(r)))

Same == UNCHANGED <<nonce, sas, confirmed>> /\ \A r \in Role : Verified(r)' <=> Verified(r)

Stays == UNCHANGED pc /\ Same /\ \A r \in Role : Due(r)' = Due(r)

Leaves(r) ==
    /\ pc[r] # "confirming"
    /\ pc[r] = "awaitConfirm" => Due(r) # <<>> /\ Head(Due(r)) # PairingConfirm(sas[r])
    /\ pc'[r] \notin InCeremony /\ pc'[Peer(r)] = pc[Peer(r)]
    /\ Takes(r) /\ Due(Peer(r))' = Due(Peer(r))
    /\ Same

Alters(r) ==
    /\ UNCHANGED pc /\ Same
    /\ Altered(Due(r), Due(r)') /\ Due(Peer(r))' = Due(Peer(r))

Rejects(r) ==
    /\ pc[r] = "confirming" /\ pc' = [pc EXCEPT ![r] = "session"] /\ Same
    /\ Due(r)' = Due(r) /\ Due(Peer(r))' = Append(Due(Peer(r)), Signal("Failed"))

Approves(r) ==
    /\ pc[r] = "confirming" /\ pc' = [pc EXCEPT ![r] = "awaitConfirm"]
    /\ confirmed' = [confirmed EXCEPT ![r] = @ \cup {sas[r]}]
    /\ UNCHANGED <<nonce, sas, trust, unsaved>>
    /\ Due(r)' = Due(r) /\ Due(Peer(r))' = Append(Due(Peer(r)), PairingConfirm(sas[r]))

Succeeds(r) ==
    /\ pc[r] = "awaitConfirm" /\ pc' = [pc EXCEPT ![r] = "session"]
    /\ Verified(r)' /\ (Verified(Peer(r))' <=> Verified(Peer(r)))
    /\ UNCHANGED <<nonce, sas, confirmed>>
    /\ Due(r) # <<>> /\ Due(r)' = Tail(Due(r)) /\ Due(Peer(r))' = Due(Peer(r))

Requests ==
    /\ pc["client"] = "session" /\ pc' = [pc EXCEPT !["client"] = "awaitResponse"]
    /\ nonce["client"] < MaxCeremonies /\ nonce' = [nonce EXCEPT !["client"] = @ + 1]
    /\ UNCHANGED <<sas, confirmed, trust, unsaved>>
    /\ Due("client")' = Due("client")
    /\ Due("server")' = Append(Due("server"), PairingRequest(nonce["client"] + 1))

Responds ==
    /\ pc["server"] = "awaitRequest" /\ pc' = [pc EXCEPT !["server"] = "confirming"]
    /\ nonce["server"] < MaxCeremonies /\ nonce' = [nonce EXCEPT !["server"] = @ + 1]
    /\ Due("server") # <<>> /\ Due("server")' = Tail(Due("server")) /\ Head(Due("server")).type = "Request"
    /\ sas' = [sas EXCEPT !["server"] = derive("server", nonce["server"] + 1, Head(Due("server")).nonce)]
    /\ Due("client")' = Append(Due("client"), PairingResponse(nonce["server"] + 1))
    /\ UNCHANGED <<confirmed, trust, unsaved>>

Learns ==
    /\ pc["client"] = "awaitResponse" /\ pc' = [pc EXCEPT !["client"] = "confirming"]
    /\ Due("client") # <<>> /\ Due("client")' = Tail(Due("client")) /\ Head(Due("client")).type = "Response"
    /\ sas' = [sas EXCEPT !["client"] = derive("client", nonce["client"], Head(Due("client")).nonce)]
    /\ Due("server")' = Due("server")
    /\ UNCHANGED <<nonce, confirmed, trust, unsaved>>

Kinds ==
    \/ Stays \/ Requests \/ Responds \/ Learns
    \/ \E r \in Role : Leaves(r) \/ Alters(r) \/ Rejects(r) \/ Approves(r) \/ Succeeds(r)

\* What is due after a read.
LEMMA DueConsume ==
    ASSUME Inv, NEW r \in Role, Ready(r), Consume(r)
    PROVE  /\ Due(Peer(r))' = Due(Peer(r))
           /\ IF Incoming(r).type \in Marked
              THEN Due(r) # <<>> /\ Head(Due(r)) = Incoming(r) /\ Due(r)' = Tail(Due(r))
              ELSE Due(r)' = Due(r)
<1>1. net \in [Role -> Seq(Frame)] /\ net[r] \in Seq(Frame) /\ net[r] # <<>>
  BY QueueFacts DEF Inv, Ready
<1>2. net'[r] = Tail(net[r]) /\ net'[Peer(r)] = net[Peer(r)]
  BY <1>1, PeerFacts DEF Consume
<1> QED
  BY <1>1, <1>2, MarkedTail DEF Due, Incoming

\* What is due after a write.
LEMMA DueSend ==
    ASSUME Inv, link = "up", NEW r \in Role, NEW f \in Frame, Send(r, f)
    PROVE  /\ Due(r)' = Due(r)
           /\ Due(Peer(r))' = IF f.type \in Marked THEN Append(Due(Peer(r)), f) ELSE Due(Peer(r))
<1>1. net \in [Role -> Seq(Frame)] /\ Peer(r) \in Role /\ Peer(r) # r /\ net[Peer(r)] \in Seq(Frame)
  BY QueueFacts, PeerFacts DEF Inv
<1>2. net'[Peer(r)] = Append(net[Peer(r)], f) /\ net'[r] = net[r]
  BY <1>1 DEF Send, Sent
<1> QED
  BY <1>1, <1>2, MarkedAppend DEF Due

\* What is due after a read and a write.
LEMMA DueReply ==
    ASSUME Inv, link = "up", NEW r \in Role, NEW f \in Frame, Ready(r), Reply(r, f)
    PROVE  /\ Due(Peer(r))' = IF f.type \in Marked THEN Append(Due(Peer(r)), f) ELSE Due(Peer(r))
           /\ IF Incoming(r).type \in Marked
              THEN Due(r) # <<>> /\ Head(Due(r)) = Incoming(r) /\ Due(r)' = Tail(Due(r))
              ELSE Due(r)' = Due(r)
<1>1. net \in [Role -> Seq(Frame)] /\ Peer(r) \in Role /\ Peer(r) # r /\ net[Peer(r)] \in Seq(Frame)
  BY QueueFacts, PeerFacts DEF Inv
<1>2. net[r] \in Seq(Frame) /\ net[r] # <<>>
  BY <1>1 DEF Ready
<1>3. net'[Peer(r)] = Append(net[Peer(r)], f) /\ net'[r] = Tail(net[r])
  BY <1>1 DEF Reply, Sent
<1>4. Due(Peer(r))' = IF f.type \in Marked THEN Append(Due(Peer(r)), f) ELSE Due(Peer(r))
  BY <1>1, <1>3, MarkedAppend DEF Due
<1>5. IF Incoming(r).type \in Marked
      THEN Due(r) # <<>> /\ Head(Due(r)) = Incoming(r) /\ Due(r)' = Tail(Due(r))
      ELSE Due(r)' = Due(r)
  BY <1>2, <1>3, MarkedTail DEF Due, Incoming
<1> QED
  BY <1>4, <1>5

\* A read, with or without an answer that no ceremony reads.
LEMMA DueRead ==
    ASSUME Inv, link = "up", NEW r \in Role, Ready(r),
           Consume(r) \/ \E f \in Frame : f.type \notin Marked /\ Reply(r, f)
    PROVE  /\ Due(Peer(r))' = Due(Peer(r)) /\ Takes(r)
           /\ IF Incoming(r).type \in Marked
              THEN Due(r) # <<>> /\ Head(Due(r)) = Incoming(r) /\ Due(r)' = Tail(Due(r))
              ELSE Due(r)' = Due(r)
<1>1. CASE Consume(r)
  BY <1>1, DueConsume DEF Takes
<1>2. ASSUME NEW f \in Frame, f.type \notin Marked, Reply(r, f)
      PROVE  /\ Due(Peer(r))' = Due(Peer(r)) /\ Takes(r)
             /\ IF Incoming(r).type \in Marked
                THEN Due(r) # <<>> /\ Head(Due(r)) = Incoming(r) /\ Due(r)' = Tail(Due(r))
                ELSE Due(r)' = Due(r)
  BY <1>2, DueReply DEF Takes
<1> QED
  BY <1>1, <1>2

\* Signals that no ceremony reads.
LEMMA PlainSignals ==
    /\ \A t \in {"ClientHello", "ServerHello", "AuthOk", "Ping", "Pong", "Clipboard", "Offer", "Accept"} :
         Signal(t) \in Frame /\ Signal(t).type = t /\ Signal(t).type \notin Marked
    /\ \A x \in {"valid", "invalid"} : AuthResponse(x) \in Frame /\ AuthResponse(x).type \notin Marked
    /\ Signal("Failed") \in Frame /\ Signal("Failed").type = "Failed"
    /\ {"Request", "Response", "Confirm", "Failed"} \subseteq Marked
<1>1. Marked = {"Request", "Response", "Confirm", "Failed", "Disconnect"}
  BY DEF Marked, PairingTypes
<1>2. \A t \in {"ClientHello", "ServerHello", "AuthOk", "Ping", "Pong", "Clipboard", "Offer", "Accept"} :
        t \in SignalTypes /\ t \notin Marked
  BY <1>1, SMT DEF SignalTypes
<1>3. "Failed" \in SignalTypes /\ "AuthResponse" \notin Marked
  BY <1>1, SMT DEF SignalTypes
<1> QED
  BY <1>1, <1>2, <1>3, FrameFacts

\* A device that reads outside a ceremony, or that ends one, leaves.
LEMMA ReadLeaves ==
    ASSUME Inv, link = "up", NEW r \in Role, Ready(r), Same,
           Consume(r) \/ \E f \in Frame : f.type \notin Marked /\ Reply(r, f),
           pc[r] # "confirming",
           pc[r] = "awaitConfirm" => Incoming(r).type \in Marked /\ Incoming(r) # PairingConfirm(sas[r]),
           pc'[r] \notin InCeremony, pc'[Peer(r)] = pc[Peer(r)]
    PROVE  Leaves(r)
BY DueRead DEF Leaves

\* A device that skips a frame stays.
LEMMA ReadStays ==
    ASSUME Inv, link = "up", NEW r \in Role, Ready(r), Same, UNCHANGED pc,
           Consume(r) \/ \E f \in Frame : f.type \notin Marked /\ Reply(r, f),
           Incoming(r).type \notin Marked
    PROVE  Stays
<1>1. Due(r)' = Due(r) /\ Due(Peer(r))' = Due(Peer(r))
  BY DueRead
<1>2. \A x \in Role : x = r \/ x = Peer(r)
  BY SMT DEF Role, Peer
<1>3. ASSUME NEW x \in Role PROVE Due(x)' = Due(x)
  <2>1. CASE x = r
    BY <1>1, <2>1 DEF Due
  <2>2. CASE x = Peer(r)
    BY <1>1, <2>2 DEF Due
  <2> QED
    BY <1>2, <2>1, <2>2
<1> QED
  BY <1>3 DEF Stays

\* A device that sends nothing a ceremony reads stays.
LEMMA SendStays ==
    ASSUME Inv, link = "up", NEW r \in Role, Same, UNCHANGED pc,
           NEW f \in Frame, f.type \notin Marked, Send(r, f)
    PROVE  Stays
<1>1. Due(r)' = Due(r) /\ Due(Peer(r))' = Due(Peer(r))
  BY DueSend
<1>2. \A x \in Role : x = r \/ x = Peer(r)
  BY SMT DEF Role, Peer
<1>3. ASSUME NEW x \in Role PROVE Due(x)' = Due(x)
  <2>1. CASE x = r
    BY <1>1, <2>1 DEF Due
  <2>2. CASE x = Peer(r)
    BY <1>1, <2>2 DEF Due
  <2> QED
    BY <1>2, <2>1, <2>2
<1> QED
  BY <1>3 DEF Stays

\* What the roles' own steps have in common.
LEMMA PcFacts ==
    ASSUME Inv, NEW r \in Role, NEW v, pc' = [pc EXCEPT ![r] = v]
    PROVE  pc'[r] = v /\ pc'[Peer(r)] = pc[Peer(r)]
BY PeerFacts DEF Inv, Domains

\* A step that touches none of the ceremony keeps all of it.
LEMMA SameFacts ==
    ASSUME UNCHANGED <<nonce, sas, confirmed, trust, unsaved>>
    PROVE  Same
BY DEF Same, Verified

\* No step after which the link is up is one that drops it.
LEMMA NoHangup ==
    ASSUME link' = "up"
    PROVE  \A r, q : ~ Hangup(r, q)
BY DEF Hangup

\* Handshake steps leave or stay out of a ceremony.
LEMMA HandshakeKinds ==
    ASSUME Inv, FirstUp, FirstUp',
           ServerHello \/ ClientAuth \/ ServerAuthResult \/ ServerRefusesRevoked \/ ServerRefusesSignature
             \/ ClientAuthenticated \/ ClientRefusesRevoked \/ \E r \in Role : HandshakeFails(r)
    PROVE  \E r \in Role : Leaves(r)
<1> USE DEF history
<1>1. link = "up" /\ \A r, q : ~ Hangup(r, q)
  BY NoHangup DEF FirstUp
<1>2. {"client", "server"} \subseteq Role
  BY DEF Role
<1>3. CASE ServerHello
  <2>1. Same /\ pc["server"] = "awaitClientHello" /\ Ready("server") /\ Reply("server", Signal("ServerHello"))
        /\ pc' = [pc EXCEPT !["server"] = "awaitAuthResponse"]
    BY <1>3, SameFacts DEF ServerHello
  <2>2. pc'["server"] \notin InCeremony /\ pc'[Peer("server")] = pc[Peer("server")]
    BY <1>2, <2>1, PcFacts DEF InCeremony
  <2> QED
    BY <1>1, <1>2, <2>1, <2>2, PlainSignals, ReadLeaves
<1>4. CASE ClientAuth
  <2>1. Same /\ pc["client"] = "awaitServerHello" /\ Ready("client")
        /\ pc' = [pc EXCEPT !["client"] = "awaitAuthResult"]
    BY <1>4, SameFacts DEF ClientAuth
  <2>2. pc'["client"] \notin InCeremony /\ pc'[Peer("client")] = pc[Peer("client")]
    BY <1>2, <2>1, PcFacts DEF InCeremony
  <2>3. \E f \in Frame : f.type \notin Marked /\ Reply("client", f)
    BY <1>4, PlainSignals DEF ClientAuth
  <2> QED
    BY <1>1, <1>2, <2>1, <2>2, <2>3, ReadLeaves
<1>5. CASE ServerAuthResult
  <2>1. Same /\ pc["server"] = "awaitAuthResponse" /\ Ready("server") /\ Reply("server", Signal("AuthOk"))
        /\ pc' = [pc EXCEPT !["server"] = "session"]
    BY <1>5, SameFacts DEF ServerAuthResult
  <2>2. pc'["server"] \notin InCeremony /\ pc'[Peer("server")] = pc[Peer("server")]
    BY <1>2, <2>1, PcFacts DEF InCeremony
  <2> QED
    BY <1>1, <1>2, <2>1, <2>2, PlainSignals, ReadLeaves
<1>6. CASE ClientAuthenticated
  <2>1. Same /\ pc["client"] = "awaitAuthResult" /\ Ready("client") /\ Consume("client")
        /\ pc' = [pc EXCEPT !["client"] = "session"]
    BY <1>6, SameFacts DEF ClientAuthenticated
  <2>2. pc'["client"] \notin InCeremony /\ pc'[Peer("client")] = pc[Peer("client")]
    BY <1>2, <2>1, PcFacts DEF InCeremony
  <2> QED
    BY <1>1, <1>2, <2>1, <2>2, ReadLeaves
<1> QED
  BY <1>1, <1>3, <1>4, <1>5, <1>6 DEF ServerRefusesRevoked, ServerRefusesSignature, ClientRefusesRevoked,
     HandshakeFails

\* Reads of a ceremony that fail end it; the other reads skip a frame.
LEMMA ReceivesKinds ==
    ASSUME Inv, FirstUp, FirstUp', NEW r \in Role,
           SkipFrame(r) \/ PairingEof(r) \/ PairingAborted(r) \/ IdentityRefused(r) \/ ConfirmMismatch(r)
             \/ LoopFrame(r) \/ LoopClipboard(r) \/ LoopEnds(r)
    PROVE  Stays \/ Leaves(r)
<1> USE DEF history
<1>1. link = "up" /\ (\A x, q : ~ Hangup(x, q)) /\ ~ Eof(r)
  BY NoHangup DEF FirstUp, Eof
<1>2. Marked = PairingTypes \cup {"Disconnect"}
  BY DEF Marked
<1>3. CASE SkipFrame(r)
  <2>1. Same /\ UNCHANGED pc /\ Ready(r) /\ Incoming(r).type \notin Marked
    BY <1>2, <1>3, SameFacts DEF SkipFrame
  <2>2. Consume(r) \/ Reply(r, Signal("Pong"))
    BY <1>3 DEF SkipFrame
  <2>3. Consume(r) \/ \E f \in Frame : f.type \notin Marked /\ Reply(r, f)
    BY <2>2, PlainSignals
  <2> QED
    BY <1>1, <2>1, <2>3, ReadStays
<1>4. CASE PairingAborted(r)
  <2>1. /\ Same /\ Ready(r) /\ Consume(r) /\ pc' = [pc EXCEPT ![r] = "session"] /\ pc[r] \in PairingWaits
        /\ Incoming(r).type \in Marked /\ Incoming(r).type # Awaits[pc[r]]
    BY <1>2, <1>4, SameFacts DEF PairingAborted
  <2>2. pc[r] # "confirming"
    BY <2>1 DEF PairingWaits
  <2>3. pc[r] = "awaitConfirm" => Incoming(r) # PairingConfirm(sas[r])
    <3>1. pc[r] = "awaitConfirm" => Incoming(r).type # "Confirm"
      BY <2>1, SMT DEF Awaits
    <3>2. PairingConfirm(sas[r]).type = "Confirm"
      BY DEF PairingConfirm
    <3> QED
      BY <3>1, <3>2
  <2>4. pc'[r] \notin InCeremony /\ pc'[Peer(r)] = pc[Peer(r)]
    <3>1. pc'[r] = "session" /\ pc'[Peer(r)] = pc[Peer(r)]
      BY <2>1, PcFacts
    <3> QED
      BY <3>1 DEF InCeremony
  <2> QED
    BY <1>1, <2>1, <2>2, <2>3, <2>4, ReadLeaves
<1>5. CASE ConfirmMismatch(r)
  <2>1. /\ Same /\ Ready(r) /\ Consume(r) /\ pc' = [pc EXCEPT ![r] = "session"] /\ pc[r] = "awaitConfirm"
        /\ Incoming(r).type = "Confirm" /\ Incoming(r).sas # sas[r]
    BY <1>5, SameFacts DEF ConfirmMismatch, finalize
  <2>2. PairingConfirm(sas[r]).sas = sas[r]
    BY DEF PairingConfirm
  <2>3. Incoming(r) # PairingConfirm(sas[r]) /\ Incoming(r).type \in Marked
    BY <2>1, <2>2, PlainSignals
  <2>4. pc'[r] \notin InCeremony /\ pc'[Peer(r)] = pc[Peer(r)]
    BY <2>1, PcFacts DEF InCeremony
  <2>5. pc[r] # "confirming"
    BY <2>1
  <2> QED
    BY <1>1, <2>1, <2>3, <2>4, <2>5, ReadLeaves
<1>6. CASE LoopFrame(r) \/ LoopClipboard(r)
  <2>1. Same /\ UNCHANGED pc /\ Ready(r) /\ pc[r] = "session"
    BY <1>6, SameFacts DEF LoopFrame, LoopClipboard
  <2>2. Consume(r) \/ Reply(r, Signal("Pong"))
    BY <1>6 DEF LoopFrame, LoopClipboard
  <2>3. Consume(r) \/ \E f \in Frame : f.type \notin Marked /\ Reply(r, f)
    BY <2>2, PlainSignals
  <2>4. pc'[r] \notin InCeremony /\ pc'[Peer(r)] = pc[Peer(r)] /\ pc[r] # "confirming" /\ pc[r] # "awaitConfirm"
    BY <2>1 DEF InCeremony
  <2> QED
    BY <1>1, <2>1, <2>3, <2>4, ReadLeaves
<1>7. CASE IdentityRefused(r)
  <2>1. /\ Same /\ Ready(r) /\ Consume(r) /\ pc' = [pc EXCEPT ![r] = "session"]
        /\ pc[r] \in {"awaitRequest", "awaitResponse"}
    BY <1>7, SameFacts DEF IdentityRefused
  <2>2. pc[r] # "confirming" /\ pc[r] # "awaitConfirm"
    BY <2>1
  <2>3. pc'[r] \notin InCeremony /\ pc'[Peer(r)] = pc[Peer(r)]
    BY <2>1, PcFacts DEF InCeremony
  <2> QED
    BY <1>1, <2>1, <2>2, <2>3, ReadLeaves
<1> QED
  BY <1>1, <1>3, <1>4, <1>5, <1>6, <1>7 DEF PairingEof, LoopEnds

\* Steps of the server before it reads a Request.
LEMMA ServerLoopKinds ==
    ASSUME Inv, FirstUp, FirstUp',
           NodePairingFrame \/ LoopOffer \/ LoopOfferFails \/ StartResponder
    PROVE  Leaves("server")
<1> USE DEF history
<1>1. link = "up" /\ (\A x, q : ~ Hangup(x, q)) /\ "server" \in Role
  BY NoHangup DEF FirstUp, Role
<1>2. CASE NodePairingFrame
  <2>1. /\ Same /\ Ready("server") /\ Consume("server") /\ pc["server"] = "session"
        /\ pc' = [pc EXCEPT !["server"] = "awaitRequest"]
    BY <1>2, SameFacts DEF NodePairingFrame
  <2>2. pc'["server"] \notin InCeremony /\ pc'[Peer("server")] = pc[Peer("server")]
    BY <1>1, <2>1, PcFacts DEF InCeremony
  <2> QED
    BY <1>1, <2>1, <2>2, ReadLeaves
<1>3. CASE LoopOffer
  <2>1. Same /\ Ready("server") /\ pc["server"] = "session" /\ pc' = pc
    BY <1>3, SameFacts DEF LoopOffer
  <2>2. Consume("server") \/ Reply("server", Signal("Accept"))
    BY <1>3 DEF LoopOffer
  <2>3. Consume("server") \/ \E f \in Frame : f.type \notin Marked /\ Reply("server", f)
    BY <2>2, PlainSignals
  <2>4. pc'["server"] \notin InCeremony /\ pc'[Peer("server")] = pc[Peer("server")]
    BY <2>1 DEF InCeremony
  <2> QED
    BY <1>1, <2>1, <2>3, <2>4, ReadLeaves
<1>4. CASE StartResponder
  <2>1. /\ Same /\ net' = net /\ pc["server"] = "session"
        /\ pc' = [pc EXCEPT !["server"] = "awaitRequest"]
    BY <1>4, SameFacts DEF StartResponder
  <2>2. pc'["server"] \notin InCeremony /\ pc'[Peer("server")] = pc[Peer("server")]
    BY <1>1, <2>1, PcFacts DEF InCeremony
  <2> QED
    BY <2>1, <2>2 DEF Leaves, Takes, Due
<1> QED
  BY <1>1, <1>2, <1>3, <1>4 DEF LoopOfferFails

\* Application frames do not concern the ceremony.
LEMMA SendKinds ==
    ASSUME Inv, FirstUp, FirstUp',
           SendPing \/ SendOffer \/ \E r \in Role : SendClipboard(r)
    PROVE  Stays
<1> USE DEF history
<1>1. link = "up" /\ "client" \in Role
  BY DEF FirstUp, Role
<1>2. PICK r \in Role, t \in {"Ping", "Offer", "Clipboard"} : Send(r, Signal(t)) /\ UNCHANGED pc
  BY <1>1 DEF SendPing, SendOffer, SendClipboard
<1>3. Same
  BY SameFacts DEF SendPing, SendOffer, SendClipboard
<1>4. Signal(t) \in Frame /\ Signal(t).type \notin Marked
  BY PlainSignals
<1> QED
  BY <1>1, <1>2, <1>3, <1>4, SendStays

\* Each step of execute_pairing is of the kind named for it.
LEMMA CeremonyKinds ==
    ASSUME Inv, FirstUp, FirstUp'
    PROVE  /\ StartPairing => Requests
           /\ ReceiveRequest => Responds
           /\ ReceiveResponse => Learns
           /\ \A r \in Role : /\ UserConfirms(r) => Approves(r)
                              /\ UserRejects(r) => Rejects(r)
                              /\ PairingSucceeds(r) \/ SaveFails(r) => Succeeds(r)
                              /\ AlterNonce(r) => Alters(r)
                              /\ Revoke(r) => Stays
<1> USE DEF history
<1>1. link = "up" /\ {"client", "server"} \subseteq Role /\ Peer("client") = "server" /\ Peer("server") = "client"
  BY DEF FirstUp, Role, Peer
<1>2. \A r \in Role : nonce[r] \in Nonce /\ sas[r] \in Sas
  BY DEF Inv, Domains
<1>3. {"Request", "Response", "Confirm", "Failed"} \subseteq Marked
  BY PlainSignals
<1>4. ASSUME StartPairing PROVE Requests
  <2> DEFINE f == PairingRequest(nonce["client"] + 1)
  <2>1. f \in Frame /\ f.type = "Request"
    BY <1>1, <1>2, <1>4, NonceFacts, FrameFacts DEF StartPairing
  <2> HIDE DEF f
  <2>2. Send("client", f)
    BY <1>4 DEF StartPairing, f
  <2>3. Due("client")' = Due("client") /\ Due("server")' = Append(Due("server"), f)
    BY <1>1, <1>3, <2>1, <2>2, DueSend
  <2> QED
    BY <1>4, <2>3 DEF StartPairing, Requests, f
<1>5. ASSUME ReceiveRequest PROVE Responds
  <2> DEFINE f == PairingResponse(nonce["server"] + 1)
  <2>1. f \in Frame /\ f.type = "Response"
    BY <1>1, <1>2, <1>5, NonceFacts, FrameFacts DEF ReceiveRequest
  <2> HIDE DEF f
  <2>2. Reply("server", f) /\ Ready("server") /\ Incoming("server").type = "Request"
    BY <1>5 DEF ReceiveRequest, f
  <2>3. /\ Due("server") # <<>> /\ Head(Due("server")) = Incoming("server") /\ Due("server")' = Tail(Due("server"))
        /\ Due("client")' = Append(Due("client"), f)
    BY <1>1, <1>3, <2>1, <2>2, DueReply
  <2> QED
    BY <1>5, <2>2, <2>3 DEF ReceiveRequest, Responds, f
<1>6. ASSUME ReceiveResponse PROVE Learns
  <2>1. Consume("client") /\ Ready("client") /\ Incoming("client").type = "Response"
    BY <1>6 DEF ReceiveResponse
  <2>2. /\ Due("client") # <<>> /\ Head(Due("client")) = Incoming("client") /\ Due("client")' = Tail(Due("client"))
        /\ Due("server")' = Due("server")
    BY <1>1, <1>3, <2>1, DueConsume
  <2> QED
    BY <1>6, <2>1, <2>2 DEF ReceiveResponse, Learns
<1>7. ASSUME NEW r \in Role, UserConfirms(r) PROVE Approves(r)
  <2> DEFINE f == PairingConfirm(sas[r])
  <2>1. f \in Frame /\ f.type = "Confirm"
    BY <1>2, FrameFacts
  <2> HIDE DEF f
  <2>2. Send(r, f)
    BY <1>7 DEF UserConfirms, f
  <2>3. Due(r)' = Due(r) /\ Due(Peer(r))' = Append(Due(Peer(r)), f)
    BY <1>1, <1>3, <2>1, <2>2, DueSend
  <2> QED
    BY <1>7, <2>3 DEF UserConfirms, Approves, f
<1>8. ASSUME NEW r \in Role, UserRejects(r) PROVE Rejects(r)
  <2>1. Signal("Failed") \in Frame /\ Signal("Failed").type \in Marked
    BY <1>3, PlainSignals
  <2>2. Send(r, Signal("Failed"))
    BY <1>8 DEF UserRejects
  <2>3. Due(r)' = Due(r) /\ Due(Peer(r))' = Append(Due(Peer(r)), Signal("Failed"))
    BY <1>1, <2>1, <2>2, DueSend
  <2>4. Same
    BY <1>8, SameFacts DEF UserRejects
  <2> QED
    BY <1>8, <2>3, <2>4 DEF UserRejects, Rejects
<1>9. ASSUME NEW r \in Role, PairingSucceeds(r) \/ SaveFails(r) PROVE Succeeds(r)
  <2>1. /\ Consume(r) /\ Ready(r) /\ Incoming(r).type \in Marked
        /\ pc[r] = "awaitConfirm" /\ pc' = [pc EXCEPT ![r] = "session"]
        /\ UNCHANGED <<nonce, sas, confirmed>>
    BY <1>3, <1>9 DEF PairingSucceeds, SaveFails
  <2>2. Due(r) # <<>> /\ Due(r)' = Tail(Due(r)) /\ Due(Peer(r))' = Due(Peer(r))
    BY <2>1, DueConsume
  <2>3. Peer(r) \in Role /\ Peer(r) # r
    BY PeerFacts
  <2>4. CASE PairingSucceeds(r)
    <3>1. trust'[r] = "Trusted" /\ trust'[Peer(r)] = trust[Peer(r)] /\ unsaved' = unsaved
      BY <2>3, <2>4 DEF PairingSucceeds, Inv, Domains
    <3> QED
      BY <2>1, <2>2, <3>1 DEF Succeeds, Verified
  <2>5. CASE SaveFails(r)
    <3>1. r \in unsaved' /\ trust' = trust /\ (Peer(r) \in unsaved' <=> Peer(r) \in unsaved)
      BY <2>3, <2>5 DEF SaveFails
    <3> QED
      BY <2>1, <2>2, <3>1 DEF Succeeds, Verified
  <2> QED
    BY <1>9, <2>4, <2>5
<1>10. ASSUME NEW r \in Role, AlterNonce(r) PROVE Alters(r)
  <2>1. net \in [Role -> Seq(Frame)] /\ net[r] \in Seq(Frame) /\ Peer(r) \in Role /\ Peer(r) # r
    BY QueueFacts, PeerFacts DEF Inv
  <2>2. PICK i \in DOMAIN net[r] : /\ net[r][i].type \in {"Request", "Response"}
                                   /\ net' = [net EXCEPT ![r][i].nonce = 0]
    BY <1>10 DEF AlterNonce
  <2>3. i \in 1..Len(net[r])
    BY <2>1, SMT
  <2>4. net'[r] = [net[r] EXCEPT ![i].nonce = 0] /\ net'[Peer(r)] = net[Peer(r)]
    BY <2>1, <2>2, SMT
  <2>5. Altered(MarkedOf(net[r]), MarkedOf(net'[r]))
    BY <2>1, <2>2, <2>3, <2>4, MarkedAlter
  <2>6. Same /\ UNCHANGED pc
    BY <1>10, SameFacts DEF AlterNonce
  <2> QED
    BY <2>4, <2>5, <2>6 DEF Alters, Due
<1>11. ASSUME NEW r \in Role, Revoke(r) PROVE Stays
  <2>1. \A x \in Role : trust'[x] = IF x = r THEN "Revoked" ELSE trust[x]
    BY <1>11 DEF Revoke, Inv, Domains
  <2>2. trust[r] # "none" /\ UNCHANGED <<pc, net, nonce, sas, confirmed, unsaved>>
    BY <1>11 DEF Revoke
  <2>3. Same
    BY <2>1, <2>2 DEF Same, Verified
  <2> QED
    BY <2>2, <2>3 DEF Stays, Due
<1> QED
  BY <1>4, <1>5, <1>6, <1>7, <1>8, <1>9, <1>10, <1>11

\* Every step of the first connection is one of the kinds.
LEMMA StepKinds ==
    ASSUME Inv, FirstUp, FirstUp', Next
    PROVE  Kinds
<1>1. CASE ServerHello \/ ClientAuth \/ ServerAuthResult \/ ServerRefusesRevoked \/ ServerRefusesSignature
             \/ ClientAuthenticated \/ ClientRefusesRevoked \/ \E r \in Role : HandshakeFails(r)
  BY <1>1, HandshakeKinds DEF Kinds
<1>2. ASSUME NEW r \in Role, Receives(r)
      PROVE  Kinds
  <2>1. CASE SkipFrame(r) \/ PairingEof(r) \/ PairingAborted(r) \/ IdentityRefused(r) \/ ConfirmMismatch(r)
             \/ LoopFrame(r) \/ LoopClipboard(r) \/ LoopEnds(r)
    BY <2>1, ReceivesKinds DEF Kinds
  <2>2. CASE HandshakeFails(r)
    BY <1>1, <2>2
  <2>3. CASE PairingSucceeds(r) \/ SaveFails(r)
    BY <2>3, CeremonyKinds DEF Kinds
  <2> QED
    BY <1>2, <2>1, <2>2, <2>3 DEF Receives
<1>3. CASE NodePairingFrame \/ LoopOffer \/ LoopOfferFails \/ StartResponder
  <2>1. "server" \in Role
    BY DEF Role
  <2> QED
    BY <1>3, <2>1, ServerLoopKinds DEF Kinds
<1>4. CASE SendPing \/ SendOffer \/ \E r \in Role : SendClipboard(r)
  BY <1>4, SendKinds DEF Kinds
<1>5. CASE StartPairing \/ ReceiveRequest \/ ReceiveResponse
  BY <1>5, CeremonyKinds DEF Kinds
<1>6. ASSUME NEW r \in Role, UserConfirms(r) \/ UserRejects(r) \/ AlterNonce(r) \/ Revoke(r)
      PROVE  Kinds
  BY <1>6, CeremonyKinds DEF Kinds
<1>7. "client" \in Role /\ "server" \in Role
  BY DEF Role
<1>8. ~ Connect
  <2>1. connections = 1 /\ connections' = 1
    BY DEF FirstUp
  <2>2. Connect => connections' = connections + 1
    BY DEF Connect
  <2> QED
    BY <2>1, <2>2, SMT
<1>9. ~ LinkLoss /\ \A r \in Role : ~ Close(r)
  BY DEF FirstUp, LinkLoss, Close, Hangup
<1>10. CASE ClientStep
  BY <1>1, <1>2, <1>5, <1>7, <1>10 DEF ClientStep
<1>11. CASE ServerStep
  BY <1>1, <1>2, <1>3, <1>5, <1>7, <1>11 DEF ServerStep
<1>12. CASE Environment
  BY <1>3, <1>4, <1>5, <1>6, <1>8, <1>9, <1>12 DEF Environment
<1> QED
  BY <1>6, <1>10, <1>11, <1>12 DEF Next, UserAnswers

Asked == {"confirming", "awaitConfirm"}

\* A device whose user was asked shows a SAS of the nonce that it drew last.
OwnNonce ==
    /\ \A r \in Role : pc[r] \in Asked => sas[r][r] = nonce[r] /\ nonce[r] >= 1
    /\ pc["client"] = "awaitResponse" => nonce["client"] >= 1

\* An approved SAS is of nonces that were drawn, and the one with the device's
\* last nonce is the SAS of the ceremony it is in, or was in last.
ApprovedDrawn ==
    \A r \in Role : \A s \in confirmed[r] :
        /\ s[r] >= 1 /\ s[r] <= nonce[r] /\ s[Peer(r)] <= nonce[Peer(r)]
        /\ s[r] = nonce[r] => s = sas[r] /\ pc[r] # "awaitResponse" /\ pc[r] # "confirming"

\* The nonces in flight, and those received, were drawn or altered to zero.
NoncesDrawn ==
    \A r \in Role :
        /\ sas[r][Peer(r)] <= nonce[Peer(r)]
        /\ \A i \in 1..Len(Due(r)) :
             Due(r)[i].type \in {"Request", "Response"} => Due(r)[i].nonce <= nonce[Peer(r)]

\* r will read the Confirm of s before anything else of a ceremony.
NextConfirm(r, s) == Due(r) # <<>> /\ Head(Due(r)) = PairingConfirm(s)

\* Once both users approved a SAS each device came to save_peer, or is about to.
ApprovedIsDue ==
    \A s \in confirmed["client"] \cap confirmed["server"] : \A r \in Role :
        Verified(r) \/ (pc[r] = "awaitConfirm" /\ sas[r] = s /\ NextConfirm(r, s))

\* A device whose user is asked for the SAS that the other user approved.
OtherApproved ==
    \A r \in Role : pc[r] = "confirming" /\ sas[r] \in confirmed[Peer(r)]
        => /\ pc[Peer(r)] = "awaitConfirm" /\ sas[Peer(r)] = sas[r] /\ Due(Peer(r)) = <<>>
           /\ NextConfirm(r, sas[r])

\* Both users are asked for the same SAS.
BothAsked ==
    pc["client"] = "confirming" /\ pc["server"] = "confirming" /\ sas["client"] = sas["server"]
        => Due("client") = <<>> /\ Due("server") = <<>>

\* The SAS that the client is about to derive.
Answered == pc["client"] = "awaitResponse" /\ Due("client") # <<>> /\ Head(Due("client")).type = "Response"
NextSas == derive("client", nonce["client"], Head(Due("client")).nonce)

\* The server's user approved the SAS that the client is about to derive.
AnswerApproved ==
    Answered /\ NextSas \in confirmed["server"]
        => /\ pc["server"] = "awaitConfirm" /\ sas["server"] = NextSas /\ Due("server") = <<>>
           /\ Len(Due("client")) >= 2 /\ Due("client")[2] = PairingConfirm(NextSas)

\* The server's user is asked for the SAS that the client is about to derive.
AnswerAsked ==
    Answered /\ pc["server"] = "confirming" /\ sas["server"] = NextSas
        => Due("server") = <<>> /\ Len(Due("client")) = 1

\* The request of the ceremony that the client is in is the last that it wrote.
LastRequest ==
    pc["client"] = "awaitResponse"
        => \A i \in 1..Len(Due("server")) :
             Due("server")[i] = PairingRequest(nonce["client"]) => i = Len(Due("server"))

AgreementInv ==
    /\ OwnNonce /\ ApprovedDrawn /\ NoncesDrawn /\ ApprovedIsDue /\ OtherApproved
    /\ BothAsked /\ AnswerApproved /\ AnswerAsked /\ LastRequest

\* There are no other roles.
LEMMA TwoRoles ==
    ASSUME NEW r \in Role
    PROVE  /\ \A x \in Role : x = r \/ x = Peer(r)
           /\ r = "client" \/ r = "server"
           /\ Peer("client") = "server" /\ Peer("server") = "client"
           /\ "client" \in Role /\ "server" \in Role /\ "client" # "server"
BY SMT DEF Role, Peer

\* What is due is a sequence of frames.
LEMMA DueType ==
    ASSUME Inv
    PROVE  \A r \in Role : Due(r) \in Seq(Frame)
BY QueueFacts, MarkedType DEF Inv, Due

\* A queue with one frame more.
LEMMA AppendFacts ==
    ASSUME NEW q \in Seq(Frame), NEW f \in Frame
    PROVE  /\ Append(q, f) \in Seq(Frame) /\ Append(q, f) # <<>> /\ Len(Append(q, f)) = Len(q) + 1
           /\ \A i \in 1..Len(q) + 1 : i \in 1..Len(q) \/ i = Len(q) + 1
           /\ \A i \in 1..Len(q) : Append(q, f)[i] = q[i]
           /\ Append(q, f)[Len(q) + 1] = f
           /\ q # <<>> => Head(Append(q, f)) = Head(q)
           /\ q = <<>> => Head(Append(q, f)) = f
BY SMT

\* A queue without its first frame.
LEMMA TailFacts ==
    ASSUME NEW q \in Seq(Frame), q # <<>>
    PROVE  /\ Tail(q) \in Seq(Frame) /\ Len(q) \in Nat /\ Len(Tail(q)) = Len(q) - 1 /\ Head(q) = q[1] /\ 1 \in 1..Len(q)
           /\ \A i \in 1..Len(q) - 1 : i + 1 \in 1..Len(q) /\ Tail(q)[i] = q[i + 1] /\ (i + 1 = Len(q) => i = Len(q) - 1)
           /\ Len(q) >= 2 => Tail(q) # <<>> /\ Head(Tail(q)) = q[2]
           /\ Len(q) = 1 => Tail(q) = <<>>
<1>1. Tail(q) \in Seq(Frame) /\ Len(q) \in Nat /\ Len(Tail(q)) = Len(q) - 1 /\ Head(q) = q[1] /\ 1 \in 1..Len(q)
  BY SMT
<1>2. \A i \in 1..Len(q) - 1 : i + 1 \in 1..Len(q) /\ Tail(q)[i] = q[i + 1] /\ (i + 1 = Len(q) => i = Len(q) - 1)
  BY SMT
<1>3. Len(q) = 1 => Tail(q) = <<>>
  <2>1. \A t \in Seq(Frame) : Len(t) = 0 => t = <<>>
    BY SMT
  <2>2. Len(q) = 1 => Len(Tail(q)) = 0
    BY <1>1, SMT
  <2> QED
    BY <1>1, <2>1, <2>2
<1>4. Len(q) >= 2 => Tail(q) # <<>> /\ Head(Tail(q)) = q[2]
  <2> SUFFICES ASSUME Len(q) >= 2 PROVE Tail(q) # <<>> /\ Head(Tail(q)) = q[2]
    OBVIOUS
  <2>1. Tail(q) # <<>>
    BY <1>1, SMT
  <2>2. Head(Tail(q)) = Tail(q)[1]
    BY <1>1, <2>1, SMT
  <2>3. 1 \in 1..Len(q) - 1 /\ 1 + 1 = 2
    BY <1>1, SMT
  <2> QED
    BY <1>2, <2>1, <2>2, <2>3
<1> QED
  BY <1>1, <1>2, <1>3, <1>4

\* A queue in which nonces were altered.
LEMMA AlteredFacts ==
    ASSUME NEW a, NEW b, Altered(a, b)
    PROVE  /\ a \in Seq(Frame) /\ b \in Seq(Frame) /\ Len(b) = Len(a)
           /\ a = <<>> <=> b = <<>>
           /\ a # <<>> => /\ Head(b).type = Head(a).type
                          /\ Head(b) = Head(a) \/ (Head(a).type \in {"Request", "Response"} /\ Head(b).nonce = 0)
           /\ \A k \in 1..Len(a) : a[k].type = "Confirm" => b[k] = a[k]
BY SMT DEF Altered

\* SasVerification::derive keeps both nonces.
LEMMA DeriveNonces ==
    /\ \A m, n : derive("client", m, n)["client"] = m /\ derive("client", m, n)["server"] = n
    /\ \A m, n : derive("server", m, n)["server"] = m /\ derive("server", m, n)["client"] = n
BY DEF derive, Role

\* Reads that end a device's part in a ceremony.
LEMMA ReadKeeps ==
    ASSUME Inv, AgreementInv, NEW r \in Role,
           pc[r] # "confirming",
           pc'[r] \notin InCeremony, pc'[Peer(r)] = pc[Peer(r)],
           Takes(r), Due(Peer(r))' = Due(Peer(r)),
           UNCHANGED <<nonce, sas, confirmed>>,
           Verified(Peer(r))' <=> Verified(Peer(r)),
           pc[r] = "awaitConfirm" => Due(r) # <<>>,
           \A s \in confirmed["client"] \cap confirmed["server"] : Verified(r)'
    PROVE  AgreementInv'
<1>1. /\ \A x \in Role : x = r \/ x = Peer(r)
      /\ r = "client" \/ r = "server"
      /\ Peer("client") = "server" /\ Peer("server") = "client"
      /\ "client" \in Role /\ "server" \in Role /\ "client" # "server"
      /\ Peer(r) \in Role /\ Peer(r) # r /\ Peer(Peer(r)) = r
  BY TwoRoles, PeerFacts
<1>2. /\ pc'[r] # "confirming" /\ pc'[r] # "awaitConfirm" /\ pc'[r] # "awaitResponse"
  BY DEF InCeremony
<1>3. /\ OwnNonce /\ ApprovedDrawn /\ NoncesDrawn /\ ApprovedIsDue /\ OtherApproved
      /\ BothAsked /\ AnswerApproved /\ AnswerAsked /\ LastRequest
  BY DEF AgreementInv
<1>4. Due(r) \in Seq(Frame)
  BY DueType
<1>5. /\ \A i \in 1..Len(Due(r)') : \E j \in 1..Len(Due(r)) : Due(r)'[i] = Due(r)[j] /\ (j = Len(Due(r)) => i = Len(Due(r)'))
      /\ Due(r) = <<>> => Due(r)' = <<>>
  <2>1. CASE Due(r)' = Due(r)
    BY <2>1
  <2>2. CASE Due(r) # <<>> /\ Due(r)' = Tail(Due(r))
    <3>1. /\ Len(Due(r)) \in Nat /\ Len(Due(r)') = Len(Due(r)) - 1
          /\ \A i \in 1..Len(Due(r)) - 1 : i + 1 \in 1..Len(Due(r)) /\ Due(r)'[i] = Due(r)[i + 1]
                                            /\ (i + 1 = Len(Due(r)) => i = Len(Due(r)) - 1)
      BY <1>4, <2>2, TailFacts
    <3> QED
      BY <2>2, <3>1
  <2> QED
    BY <2>1, <2>2 DEF Takes
<1>6. OwnNonce'
  BY <1>1, <1>2, <1>3 DEF OwnNonce, Asked
<1>7. ApprovedDrawn'
  BY ZenonT(60), <1>1, <1>2, <1>3 DEF ApprovedDrawn
<1>8. NoncesDrawn'
  <2>1. \A i \in 1..Len(Due(r)') : Due(r)'[i].type \in {"Request", "Response"} => Due(r)'[i].nonce <= nonce[Peer(r)]
    BY <1>3, <1>5 DEF NoncesDrawn
  <2> SUFFICES ASSUME NEW x \in Role
               PROVE  /\ sas[x][Peer(x)] <= nonce[Peer(x)]
                      /\ \A i \in 1..Len(Due(x)') :
                           Due(x)'[i].type \in {"Request", "Response"} => Due(x)'[i].nonce <= nonce[Peer(x)]
    BY DEF NoncesDrawn
  <2>2. CASE x = r
    BY <1>3, <2>1, <2>2 DEF NoncesDrawn, Due
  <2>3. CASE x = Peer(r)
    BY <1>3, <2>3 DEF NoncesDrawn, Due
  <2> QED
    BY <1>1, <2>2, <2>3
<1>9. ApprovedIsDue'
  <2> SUFFICES ASSUME NEW s \in confirmed["client"] \cap confirmed["server"], NEW x \in Role, ~ Verified(x)'
               PROVE  pc'[x] = "awaitConfirm" /\ sas'[x] = s /\ NextConfirm(x, s)'
    BY DEF ApprovedIsDue
  <2>1. x = Peer(r)
    BY <1>1
  <2>2. pc[x] = "awaitConfirm" /\ sas[x] = s /\ NextConfirm(x, s)
    BY <1>3, <2>1 DEF ApprovedIsDue
  <2> QED
    BY <2>1, <2>2 DEF NextConfirm, Due
<1>10. OtherApproved'
  BY <1>1, <1>2, <1>3 DEF OtherApproved
<1>11. BothAsked'
  BY <1>1, <1>2 DEF BothAsked
<1>12. Answered' => r = "server" /\ Answered /\ Due("client")' = Due("client") /\ NextSas' = NextSas
  BY <1>1, <1>2 DEF Answered, NextSas, Due
<1>13. AnswerApproved'
  BY <1>3, <1>12 DEF AnswerApproved
<1>14. AnswerAsked'
  BY <1>2, <1>12 DEF AnswerAsked
<1>15. LastRequest'
  <2>1. pc'["client"] = "awaitResponse" => r = "server" /\ pc["client"] = "awaitResponse"
    BY <1>1, <1>2
  <2>2. ASSUME r = "server"
        PROVE  \A i \in 1..Len(Due("server")') : \E j \in 1..Len(Due("server")) :
                          /\ Due("server")'[i] = Due("server")[j]
                          /\ j = Len(Due("server")) => i = Len(Due("server")')
    BY <1>5, <2>2, SMT DEF Due
  <2> QED
    BY <1>3, <2>1, <2>2 DEF LastRequest
<1> QED
  BY <1>6, <1>7, <1>8, <1>9, <1>10, <1>11, <1>13, <1>14, <1>15 DEF AgreementInv

\* Steps outside the ceremony.
LEMMA StaysKeeps ==
    ASSUME AgreementInv, Stays
    PROVE  AgreementInv'
<1>1. /\ UNCHANGED <<pc, nonce, sas, confirmed>>
      /\ \A r \in Role : Due(r)' = Due(r)
      /\ \A r \in Role : Verified(r)' <=> Verified(r)
  BY DEF Stays, Same
<1>2. Due("client")' = Due("client") /\ Due("server")' = Due("server")
  BY <1>1 DEF Role, Due
<1>3. /\ OwnNonce /\ ApprovedDrawn /\ NoncesDrawn /\ ApprovedIsDue /\ OtherApproved
      /\ BothAsked /\ AnswerApproved /\ AnswerAsked /\ LastRequest
  BY DEF AgreementInv
<1>4. OwnNonce' /\ ApprovedDrawn'
  BY <1>1, <1>3 DEF OwnNonce, ApprovedDrawn
<1>5. NoncesDrawn'
  BY <1>1, <1>3 DEF NoncesDrawn, Due
<1>6. ApprovedIsDue'
  BY ZenonT(60), <1>1, <1>3 DEF ApprovedIsDue, NextConfirm, Due
<1>7. OtherApproved'
  BY <1>1, <1>3, PeerFacts DEF OtherApproved, NextConfirm, Due
<1>8. BothAsked' /\ AnswerApproved' /\ AnswerAsked' /\ LastRequest'
  BY <1>1, <1>2, <1>3 DEF BothAsked, AnswerApproved, AnswerAsked, LastRequest, Answered, NextSas
<1> QED
  BY <1>4, <1>5, <1>6, <1>7, <1>8 DEF AgreementInv

\* A nonce that was altered is one that nobody drew.
LEMMA AltersKeeps ==
    ASSUME Inv, AgreementInv, NEW r \in Role, Alters(r)
    PROVE  AgreementInv'
<1>1. /\ \A x \in Role : x = r \/ x = Peer(r)
      /\ r = "client" \/ r = "server"
      /\ Peer("client") = "server" /\ Peer("server") = "client"
      /\ "client" \in Role /\ "server" \in Role /\ "client" # "server"
      /\ Peer(r) \in Role /\ Peer(r) # r /\ Peer(Peer(r)) = r
  BY TwoRoles, PeerFacts
<1>2. /\ UNCHANGED <<pc, nonce, sas, confirmed>>
      /\ \A x \in Role : Verified(x)' <=> Verified(x)
      /\ Altered(Due(r), Due(r)') /\ Due(Peer(r))' = Due(Peer(r))
  BY DEF Alters, Same
<1>3. /\ OwnNonce /\ ApprovedDrawn /\ NoncesDrawn /\ ApprovedIsDue /\ OtherApproved
      /\ BothAsked /\ AnswerApproved /\ AnswerAsked /\ LastRequest
  BY DEF AgreementInv
<1>4. \A x \in Role : Altered(Due(x), Due(x)')
  <2> SUFFICES ASSUME NEW x \in Role PROVE Altered(Due(x), Due(x)')
    OBVIOUS
  <2>1. CASE x = r
    BY <1>2, <2>1 DEF Due
  <2>2. CASE x = Peer(r)
    <3>1. Due(x)' = Due(x) /\ Due(x) \in Seq(Frame)
      BY <1>2, <2>2, DueType DEF Due
    <3> QED
      BY <3>1, SMT DEF Altered
  <2> QED
    BY <1>1, <2>1, <2>2
<1>5. Altered(Due("client"), Due("client")') /\ Altered(Due("server"), Due("server")')
  BY <1>1, <1>4 DEF Due
<1>6. \A x \in Role : nonce[x] \in Nat
  BY SMT DEF Inv, Domains, Nonce
<1>7. OwnNonce' /\ ApprovedDrawn'
  BY <1>2, <1>3 DEF OwnNonce, ApprovedDrawn
<1>8. NoncesDrawn'
  <2> SUFFICES ASSUME NEW x \in Role, NEW i \in 1..Len(Due(x)'), Due(x)'[i].type \in {"Request", "Response"}
               PROVE  Due(x)'[i].nonce <= nonce[Peer(x)]
    BY <1>2, <1>3 DEF NoncesDrawn
  <2>1. /\ i \in 1..Len(Due(x))
        /\ \/ Due(x)'[i] = Due(x)[i]
           \/ Due(x)'[i].type = Due(x)[i].type /\ Due(x)'[i].nonce = 0
    BY <1>4 DEF Altered
  <2>2. 0 <= nonce[Peer(x)]
    BY <1>6, PeerFacts, SMT
  <2> QED
    BY <1>3, <2>1, <2>2 DEF NoncesDrawn
<1>9. \A x \in Role : \A s \in Sas : NextConfirm(x, s) => NextConfirm(x, s)'
  <2> SUFFICES ASSUME NEW x \in Role, NEW s \in Sas, NextConfirm(x, s) PROVE NextConfirm(x, s)'
    OBVIOUS
  <2>1. Due(x) # <<>> /\ Head(Due(x)) = PairingConfirm(s) /\ PairingConfirm(s).type = "Confirm"
    BY FrameFacts DEF NextConfirm
  <2>2. Due(x)' # <<>> /\ Head(Due(x)') = Head(Due(x))
    BY <1>4, <2>1, AlteredFacts
  <2> QED
    BY <2>1, <2>2 DEF NextConfirm
<1>10. ApprovedIsDue'
  <2>1. confirmed["client"] \subseteq Sas
    BY <1>1 DEF Inv, Domains
  <2> QED
    BY <1>2, <1>3, <1>9, <2>1 DEF ApprovedIsDue
<1>11. OtherApproved'
  <2>1. \A x \in Role : Due(x) = <<>> => Due(x)' = <<>>
    BY <1>4, AlteredFacts, SMT
  <2>2. \A x \in Role : sas[x] \in Sas
    BY DEF Inv, Domains
  <2> SUFFICES ASSUME NEW x \in Role, pc[x] = "confirming", sas[x] \in confirmed[Peer(x)]
               PROVE  /\ pc[Peer(x)] = "awaitConfirm" /\ sas[Peer(x)] = sas[x] /\ Due(Peer(x))' = <<>>
                      /\ NextConfirm(x, sas[x])'
    BY <1>2 DEF OtherApproved
  <2>3. /\ pc[Peer(x)] = "awaitConfirm" /\ sas[Peer(x)] = sas[x] /\ Due(Peer(x)) = <<>>
        /\ NextConfirm(x, sas[x])
    BY <1>3 DEF OtherApproved
  <2>4. Due(Peer(x))' = <<>>
    BY <2>1, <2>3, PeerFacts DEF Due
  <2>5. NextConfirm(x, sas[x])'
    BY <1>2, <1>9, <2>2, <2>3 DEF NextConfirm
  <2> QED
    BY <2>3, <2>4, <2>5
<1>12. /\ Due("client") = <<>> => Due("client")' = <<>>
       /\ Due("server") = <<>> => Due("server")' = <<>>
       /\ Len(Due("client")') = Len(Due("client")) /\ Len(Due("server")') = Len(Due("server"))
  BY <1>5, AlteredFacts, SMT
<1>13. BothAsked'
  BY <1>2, <1>3, <1>12 DEF BothAsked
<1>14. ASSUME Answered' PROVE Answered /\ (NextSas' = NextSas \/ NextSas'["server"] = 0)
  <2>1. pc["client"] = "awaitResponse" /\ Due("client")' # <<>> /\ Head(Due("client")').type = "Response"
    BY <1>2, <1>14 DEF Answered
  <2>2. /\ Due("client") # <<>> /\ Head(Due("client")).type = "Response"
        /\ Head(Due("client")') = Head(Due("client")) \/ Head(Due("client")').nonce = 0
    BY <1>5, <2>1, AlteredFacts, SMT
  <2>3. nonce'["client"] = nonce["client"]
    BY <1>2
  <2>4. NextSas' = derive("client", nonce["client"], Head(Due("client")').nonce)
    BY <2>3 DEF NextSas
  <2>5. NextSas' = NextSas \/ NextSas'["server"] = 0
    BY <2>2, <2>4, DeriveNonces DEF NextSas
  <2> QED
    BY <2>1, <2>2, <2>5 DEF Answered
<1>15. AnswerApproved'
  <2> SUFFICES ASSUME Answered', NextSas' \in confirmed["server"]
               PROVE  /\ pc["server"] = "awaitConfirm" /\ sas["server"] = NextSas' /\ Due("server")' = <<>>
                      /\ Len(Due("client")') >= 2 /\ Due("client")'[2] = PairingConfirm(NextSas')
    BY <1>2 DEF AnswerApproved
  <2>1. NextSas'["server"] >= 1 /\ confirmed["server"] \subseteq Sas
    BY <1>1, <1>3 DEF ApprovedDrawn, Inv, Domains
  <2>2. Answered /\ NextSas' = NextSas
    <3>1. NextSas'["server"] # 0
      BY <2>1, SMT
    <3> QED
      BY <1>14, <3>1
  <2>3. /\ pc["server"] = "awaitConfirm" /\ sas["server"] = NextSas /\ Due("server") = <<>>
        /\ Len(Due("client")) >= 2 /\ Due("client")[2] = PairingConfirm(NextSas)
    BY <1>3, <2>2 DEF AnswerApproved
  <2>4. 2 \in 1..Len(Due("client"))
    BY <1>5, <2>3, SMT DEF Altered
  <2>5. Due("client")[2].type = "Confirm"
    <3>1. PairingConfirm(NextSas).type = "Confirm"
      BY DEF PairingConfirm
    <3> QED
      BY <2>3, <3>1, SMT
  <2>6. Due("client")'[2] = Due("client")[2]
    BY <1>5, <2>4, <2>5, AlteredFacts, SMT
  <2> QED
    BY <1>12, <2>2, <2>3, <2>6
<1>16. AnswerAsked'
  <2> SUFFICES ASSUME Answered', pc["server"] = "confirming", sas["server"] = NextSas'
               PROVE  Due("server")' = <<>> /\ Len(Due("client")') = 1
    BY <1>2 DEF AnswerAsked
  <2>1. NextSas'["server"] >= 1
    BY <1>1, <1>3 DEF OwnNonce, Asked
  <2>2. NextSas'["server"] # 0
    BY <2>1, SMT
  <2> QED
    BY <1>3, <1>12, <1>14, <2>2 DEF AnswerAsked
<1>17. LastRequest'
  <2> SUFFICES ASSUME pc["client"] = "awaitResponse", NEW i \in 1..Len(Due("server")'),
                      Due("server")'[i] = PairingRequest(nonce["client"])
               PROVE  i = Len(Due("server")')
    BY <1>2 DEF LastRequest
  <2>1. Due("server")'[i].nonce # 0
    <3>1. nonce["client"] >= 1 /\ PairingRequest(nonce["client"]).nonce = nonce["client"]
      BY <1>3 DEF OwnNonce, PairingRequest
    <3> QED
      BY <3>1, SMT
  <2>2. i \in 1..Len(Due("server")) /\ Due("server")'[i] = Due("server")[i]
    BY <1>5, <2>1 DEF Altered
  <2> QED
    BY <1>3, <1>12, <2>2 DEF LastRequest
<1> QED
  BY <1>7, <1>8, <1>10, <1>11, <1>13, <1>15, <1>16, <1>17 DEF AgreementInv

\* What r wrote comes after what was due to the other.
LEMMA WrittenLast ==
    ASSUME NEW q \in Seq(Frame), NEW f \in Frame, NEW s
    PROVE  /\ q # <<>> /\ Head(q) = s => Append(q, f) # <<>> /\ Head(Append(q, f)) = s
           /\ \A i \in 1..Len(Append(q, f)) : (i \in 1..Len(q) /\ Append(q, f)[i] = q[i]) \/ (Append(q, f)[i] = f /\ i = Len(Append(q, f)))
<1>1. Len(q) \in Nat
  BY SMT
<1> QED
  BY <1>1, AppendFacts, SMT

\* A nonce is a number.
LEMMA NonceNat ==
    ASSUME Inv
    PROVE  \A x \in Role : nonce[x] \in Nat /\ sas[x] \in Sas /\ \A y \in Role : sas[x][y] \in Nat
BY SMT DEF Inv, Domains, Nonce, Sas

\* A user answers: what is written has no nonce.
LEMMA AnswerNonces ==
    ASSUME Inv, NoncesDrawn, NEW r \in Role, NEW f \in Frame, f.type \notin {"Request", "Response"},
           UNCHANGED <<nonce, sas>>,
           Due(r)' = Due(r), Due(Peer(r))' = Append(Due(Peer(r)), f)
    PROVE  NoncesDrawn'
<1>1. (\A x \in Role : x = r \/ x = Peer(r)) /\ Peer(r) \in Role
  BY TwoRoles, PeerFacts
<1>2. Due(Peer(r)) \in Seq(Frame)
  BY <1>1, DueType
<1>3. \A i \in 1..Len(Due(Peer(r))') : Due(Peer(r))'[i].type \in {"Request", "Response"}
        => i \in 1..Len(Due(Peer(r))) /\ Due(Peer(r))'[i] = Due(Peer(r))[i]
  BY <1>2, WrittenLast
<1> SUFFICES ASSUME NEW x \in Role
             PROVE  /\ sas[x][Peer(x)] <= nonce[Peer(x)]
                    /\ \A i \in 1..Len(Due(x)') :
                         Due(x)'[i].type \in {"Request", "Response"} => Due(x)'[i].nonce <= nonce[Peer(x)]
  BY DEF NoncesDrawn
<1>4. CASE x = r
  BY <1>4 DEF NoncesDrawn, Due
<1>5. CASE x = Peer(r)
  BY <1>1, <1>3, <1>5 DEF NoncesDrawn, Due
<1> QED
  BY <1>1, <1>4, <1>5

\* The user declines.
LEMMA RejectsKeeps ==
    ASSUME Inv, AgreementInv, NEW r \in Role, Rejects(r)
    PROVE  AgreementInv'
<1>1. /\ \A x \in Role : x = r \/ x = Peer(r)
      /\ r = "client" \/ r = "server"
      /\ Peer("client") = "server" /\ Peer("server") = "client"
      /\ "client" \in Role /\ "server" \in Role /\ "client" # "server"
      /\ Peer(r) \in Role /\ Peer(r) # r /\ Peer(Peer(r)) = r
  BY TwoRoles, PeerFacts
<1>2. /\ pc[r] = "confirming" /\ pc'[r] = "session" /\ pc'[Peer(r)] = pc[Peer(r)]
      /\ UNCHANGED <<nonce, sas, confirmed>>
      /\ \A x \in Role : Verified(x)' <=> Verified(x)
      /\ Due(r)' = Due(r) /\ Due(Peer(r))' = Append(Due(Peer(r)), Signal("Failed"))
  BY <1>1 DEF Rejects, Same, Inv, Domains
<1>3. /\ OwnNonce /\ ApprovedDrawn /\ NoncesDrawn /\ ApprovedIsDue /\ OtherApproved
      /\ BothAsked /\ AnswerApproved /\ AnswerAsked /\ LastRequest
  BY DEF AgreementInv
<1>4. Signal("Failed") \in Frame /\ Signal("Failed").type = "Failed"
  BY FrameFacts DEF SignalTypes
<1>5. \A x \in Role : Due(x) \in Seq(Frame)
  BY DueType
<1>6. OwnNonce' /\ ApprovedDrawn'
  <2>1. pc'[r] # "confirming" /\ pc'[r] # "awaitConfirm" /\ pc'[r] # "awaitResponse"
    BY <1>2
  <2>2. OwnNonce'
    BY <1>1, <1>2, <1>3, <2>1 DEF OwnNonce, Asked
  <2>3. ApprovedDrawn'
    <3> SUFFICES ASSUME NEW x \in Role, NEW s \in confirmed[x]
                 PROVE  /\ s[x] >= 1 /\ s[x] <= nonce[x] /\ s[Peer(x)] <= nonce[Peer(x)]
                        /\ s[x] = nonce[x] => s = sas[x] /\ pc'[x] # "awaitResponse" /\ pc'[x] # "confirming"
      BY <1>2 DEF ApprovedDrawn
    <3> QED
      BY ZenonT(60), <1>1, <1>2, <1>3, <2>1 DEF ApprovedDrawn
  <2> QED
    BY <2>2, <2>3
<1>7. NoncesDrawn'
  <2>1. Signal("Failed").type \notin {"Request", "Response"}
    BY <1>4
  <2> QED
    BY <1>2, <1>3, <1>4, <2>1, AnswerNonces
<1>8. ApprovedIsDue'
  <2> SUFFICES ASSUME NEW s \in confirmed["client"] \cap confirmed["server"], NEW x \in Role, ~ Verified(x)'
               PROVE  pc'[x] = "awaitConfirm" /\ sas'[x] = s /\ NextConfirm(x, s)'
    BY <1>2 DEF ApprovedIsDue
  <2>1. pc[x] = "awaitConfirm" /\ sas[x] = s /\ NextConfirm(x, s)
    BY <1>2, <1>3 DEF ApprovedIsDue
  <2>2. x = Peer(r)
    BY <1>1, <1>2, <2>1
  <2>3. Append(Due(x), Signal("Failed")) # <<>> /\ Head(Append(Due(x), Signal("Failed"))) = PairingConfirm(s)
    BY <1>4, <1>5, <2>1, WrittenLast DEF NextConfirm
  <2> QED
    BY <1>2, <2>1, <2>2, <2>3 DEF NextConfirm, Due
<1>9. OtherApproved'
  BY ZenonT(60), <1>1, <1>2, <1>3 DEF OtherApproved
<1>10. BothAsked' /\ AnswerAsked'
  BY <1>1, <1>2 DEF BothAsked, AnswerAsked, Answered
<1>11. AnswerApproved'
  <2> SUFFICES ASSUME Answered', NextSas' \in confirmed'["server"] PROVE FALSE
    BY DEF AnswerApproved
  <2>1. /\ r = "server" /\ pc["client"] = "awaitResponse"
        /\ Due("client")' = Append(Due("client"), Signal("Failed"))
    BY <1>1, <1>2 DEF Answered, Due
  <2>2. Due("client") # <<>> /\ Head(Due("client")') = Head(Due("client"))
    <3>1. Due("client") = <<>> => Head(Due("client")') = Signal("Failed")
      BY <1>1, <1>4, <1>5, <2>1, AppendFacts, SMT
    <3>2. Head(Due("client")').type = "Response"
      BY DEF Answered
    <3>3. Due("client") # <<>>
      BY <1>4, <3>1, <3>2
    <3> QED
      BY <1>1, <1>4, <1>5, <2>1, <3>3, AppendFacts, SMT
  <2>3. Answered /\ NextSas' = NextSas
    BY <1>2, <2>1, <2>2 DEF Answered, NextSas
  <2> QED
    BY <1>2, <1>3, <2>1, <2>3 DEF AnswerApproved
<1>12. LastRequest'
  BY <1>1, <1>2, <1>3 DEF LastRequest, Due
<1> QED
  BY <1>6, <1>7, <1>8, <1>9, <1>10, <1>11, <1>12 DEF AgreementInv

\* The user approves.
LEMMA ApprovesKeeps ==
    ASSUME Inv, AgreementInv, NEW r \in Role, Approves(r)
    PROVE  AgreementInv'
<1> DEFINE f == PairingConfirm(sas[r])
<1>1. /\ \A x \in Role : x = r \/ x = Peer(r)
      /\ r = "client" \/ r = "server"
      /\ Peer("client") = "server" /\ Peer("server") = "client"
      /\ "client" \in Role /\ "server" \in Role /\ "client" # "server"
      /\ Peer(r) \in Role /\ Peer(r) # r /\ Peer(Peer(r)) = r
  BY TwoRoles, PeerFacts
<1>2. /\ pc[r] = "confirming" /\ pc'[r] = "awaitConfirm" /\ pc'[Peer(r)] = pc[Peer(r)]
      /\ UNCHANGED <<nonce, sas, trust, unsaved>>
      /\ confirmed'[r] = confirmed[r] \cup {sas[r]} /\ confirmed'[Peer(r)] = confirmed[Peer(r)]
      /\ Due(r)' = Due(r) /\ Due(Peer(r))' = Append(Due(Peer(r)), f)
  BY <1>1 DEF Approves, Inv, Domains
<1>3. /\ OwnNonce /\ ApprovedDrawn /\ NoncesDrawn /\ ApprovedIsDue /\ OtherApproved
      /\ BothAsked /\ AnswerApproved /\ AnswerAsked /\ LastRequest
  BY DEF AgreementInv
<1>4. f \in Frame /\ f.type = "Confirm"
  BY NonceNat, FrameFacts
<1> HIDE DEF f
<1>5. \A x \in Role : Due(x) \in Seq(Frame)
  BY DueType
<1>6. OwnNonce'
  <2>1. pc'[r] # "awaitResponse" /\ pc[r] \in Asked
    BY <1>2 DEF Asked
  <2> QED
    BY <1>1, <1>2, <1>3, <2>1 DEF OwnNonce
<1>7. ApprovedDrawn'
  <2> SUFFICES ASSUME NEW x \in Role, NEW s \in confirmed'[x]
               PROVE  /\ s[x] >= 1 /\ s[x] <= nonce[x] /\ s[Peer(x)] <= nonce[Peer(x)]
                      /\ s[x] = nonce[x] => s = sas[x] /\ pc'[x] # "awaitResponse" /\ pc'[x] # "confirming"
    BY <1>2 DEF ApprovedDrawn
  <2>1. CASE s \in confirmed[x]
    BY ZenonT(60), <1>1, <1>2, <1>3, <2>1 DEF ApprovedDrawn
  <2>2. CASE x = r /\ s = sas[r]
    <3>1. s[r] = nonce[r] /\ nonce[r] >= 1 /\ s[Peer(r)] <= nonce[Peer(r)]
      BY <1>2, <1>3, <2>2 DEF OwnNonce, NoncesDrawn, Asked
    <3>2. nonce[r] <= nonce[r]
      BY NonceNat, SMT
    <3> QED
      BY <1>2, <2>2, <3>1, <3>2
  <2> QED
    BY <1>1, <1>2, <2>1, <2>2
<1>8. NoncesDrawn'
  <2>1. f.type \notin {"Request", "Response"}
    BY <1>4
  <2> QED
    BY <1>2, <1>3, <1>4, <2>1, AnswerNonces
<1>9. \A x \in Role : \A s : NextConfirm(x, s) => NextConfirm(x, s)'
  <2> SUFFICES ASSUME NEW x \in Role, NEW s, NextConfirm(x, s) PROVE NextConfirm(x, s)'
    OBVIOUS
  <2>1. Append(Due(x), f) # <<>> /\ Head(Append(Due(x), f)) = PairingConfirm(s)
    BY <1>4, <1>5, WrittenLast DEF NextConfirm
  <2>2. Due(x)' = Due(x) \/ Due(x)' = Append(Due(x), f)
    BY <1>1, <1>2 DEF Due
  <2> QED
    BY <2>1, <2>2 DEF NextConfirm
<1>10. \A q : q = <<>> => Append(q, f) # <<>> /\ Head(Append(q, f)) = f /\ Len(Append(q, f)) = 1
  BY <1>4, AppendFacts, SMT
<1>11. ApprovedIsDue'
  <2> SUFFICES ASSUME NEW s, s \in confirmed'["client"], s \in confirmed'["server"], NEW x \in Role, ~ Verified(x)
               PROVE  pc'[x] = "awaitConfirm" /\ sas[x] = s /\ NextConfirm(x, s)'
    BY <1>2 DEF ApprovedIsDue, Verified
  <2>1. s \in confirmed'[r] /\ s \in confirmed[Peer(r)]
    BY <1>1, <1>2
  <2>2. CASE s \in confirmed[r]
    <3>1. pc[x] = "awaitConfirm" /\ sas[x] = s /\ NextConfirm(x, s)
      BY <1>1, <1>3, <2>1, <2>2 DEF ApprovedIsDue
    <3>2. x = Peer(r)
      BY <1>1, <1>2, <3>1
    <3> QED
      BY <1>2, <1>9, <3>1, <3>2
  <2>3. CASE s = sas[r]
    <3>1. /\ pc[Peer(r)] = "awaitConfirm" /\ sas[Peer(r)] = s /\ Due(Peer(r)) = <<>>
          /\ NextConfirm(r, s)
      BY <1>2, <1>3, <2>1, <2>3 DEF OtherApproved
    <3>2. CASE x = r
      BY <1>2, <1>9, <2>3, <3>1, <3>2
    <3>3. CASE x = Peer(r)
      <4>1. Due(x)' = Append(<<>>, f)
        BY <1>2, <3>1, <3>3 DEF Due
      <4>2. NextConfirm(x, s)'
        BY <1>10, <2>3, <4>1 DEF NextConfirm, f
      <4> QED
        BY <1>2, <3>1, <3>3, <4>2
    <3> QED
      BY <1>1, <3>2, <3>3
  <2> QED
    BY <1>2, <2>1, <2>2, <2>3
<1>12. OtherApproved'
  <2> SUFFICES ASSUME NEW x \in Role, pc'[x] = "confirming", sas[x] \in confirmed'[Peer(x)]
               PROVE  /\ pc'[Peer(x)] = "awaitConfirm" /\ sas[Peer(x)] = sas[x] /\ Due(Peer(x))' = <<>>
                      /\ NextConfirm(x, sas[x])'
    BY <1>2 DEF OtherApproved, NextConfirm
  <2>1. x = Peer(r) /\ Peer(x) = r /\ pc[x] = "confirming"
    BY <1>1, <1>2
  <2>2. sas[x] = sas[r]
    BY <1>1, <1>2, <1>3, <2>1 DEF OtherApproved
  <2>3. Due(r) = <<>> /\ Due(x) = <<>>
    BY <1>1, <1>2, <1>3, <2>1, <2>2 DEF BothAsked, Due
  <2>4. Due(x)' = Append(<<>>, f) /\ Due(Peer(x))' = <<>>
    BY <1>2, <2>1, <2>3 DEF Due
  <2>5. NextConfirm(x, sas[x])'
    BY <1>2, <1>10, <2>2, <2>4 DEF NextConfirm, f
  <2> QED
    BY <1>2, <2>1, <2>2, <2>4, <2>5
<1>13. BothAsked'
  BY <1>1, <1>2 DEF BothAsked
<1>14. AnswerAsked'
  BY <1>1, <1>2 DEF AnswerAsked, Answered
<1>15. AnswerApproved'
  <2> SUFFICES ASSUME Answered', NextSas' \in confirmed'["server"]
               PROVE  /\ pc'["server"] = "awaitConfirm" /\ sas["server"] = NextSas' /\ Due("server")' = <<>>
                      /\ Len(Due("client")') >= 2 /\ Due("client")'[2] = PairingConfirm(NextSas')
    BY <1>2 DEF AnswerApproved
  <2>1. /\ r = "server" /\ pc["client"] = "awaitResponse"
        /\ Due("client")' = Append(Due("client"), f) /\ Due("server")' = Due("server")
    BY <1>1, <1>2 DEF Answered, Due
  <2>2. Due("client") # <<>> /\ Head(Due("client")') = Head(Due("client"))
    <3>1. Due("client") = <<>> => Head(Due("client")') = f
      BY <1>1, <1>4, <1>5, <2>1, AppendFacts, SMT
    <3>2. Head(Due("client")').type = "Response"
      BY DEF Answered
    <3>3. Due("client") # <<>>
      BY <1>4, <3>1, <3>2
    <3> QED
      BY <1>1, <1>4, <1>5, <2>1, <3>3, AppendFacts, SMTT(60)
  <2>3. Answered /\ NextSas' = NextSas
    BY <1>2, <2>1, <2>2 DEF Answered, NextSas
  <2>4. NextSas = sas["server"]
    BY <1>2, <1>3, <2>1, <2>3 DEF AnswerApproved
  <2>5. Due("server") = <<>> /\ Len(Due("client")) = 1
    BY <1>2, <1>3, <2>1, <2>3, <2>4 DEF AnswerAsked
  <2>6. Len(Due("client")') >= 2 /\ Due("client")'[2] = f
    BY <1>1, <1>4, <1>5, <2>1, <2>5, AppendFacts, SMTT(60)
  <2> QED
    BY <1>2, <2>1, <2>3, <2>4, <2>5, <2>6 DEF f
<1>16. LastRequest'
  BY <1>1, <1>2, <1>3 DEF LastRequest, Due
<1> QED
  BY <1>6, <1>7, <1>8, <1>11, <1>12, <1>13, <1>14, <1>15, <1>16 DEF AgreementInv

\* The nonces approved and in flight are numbers.
LEMMA NonceTypes ==
    ASSUME Inv
    PROVE  /\ \A r \in Role : \A s \in confirmed[r] : \A y \in Role : s[y] \in Nat
           /\ \A r \in Role : \A i \in 1..Len(Due(r)) :
                Due(r)[i].type \in {"Request", "Response"} => Due(r)[i].nonce \in Nat
<1>1. Nonce \subseteq Nat
  BY SMT DEF Nonce
<1>2. \A r \in Role : \A i \in 1..Len(Due(r)) : Due(r)[i] \in Frame
  BY DueType, SMT
<1>3. \A r \in Role : \A s \in confirmed[r] : \A y \in Role : s[y] \in Nat
  BY <1>1 DEF Inv, Domains, Sas
<1>4. \A f \in Frame : f.type \in {"Request", "Response"} => f.nonce \in Nat
  BY <1>1, FrameFacts
<1> QED
  BY <1>2, <1>3, <1>4

\* The client draws a nonce and asks.
LEMMA RequestsKeeps ==
    ASSUME Inv, AgreementInv, Requests
    PROVE  AgreementInv'
<1> DEFINE n == nonce["client"]
           f == PairingRequest(n + 1)
<1>1. /\ \A x \in Role : x = "client" \/ x = "server"
      /\ Peer("client") = "server" /\ Peer("server") = "client"
      /\ "client" \in Role /\ "server" \in Role /\ "client" # "server"
  BY TwoRoles DEF Role
<1>2. n \in Nat /\ nonce["server"] \in Nat /\ n + 1 \in Nonce
  BY <1>1, NonceNat, NonceFacts DEF Requests, Inv, Domains
<1>3. /\ pc["client"] = "session" /\ pc'["client"] = "awaitResponse" /\ pc'["server"] = pc["server"]
      /\ nonce'["client"] = n + 1 /\ nonce'["server"] = nonce["server"]
      /\ UNCHANGED <<sas, confirmed, trust, unsaved>>
      /\ Due("client")' = Due("client") /\ Due("server")' = Append(Due("server"), f)
  BY <1>1 DEF Requests, Inv, Domains
<1>4. /\ OwnNonce /\ ApprovedDrawn /\ NoncesDrawn /\ ApprovedIsDue /\ OtherApproved
      /\ BothAsked /\ AnswerApproved /\ AnswerAsked /\ LastRequest
  BY DEF AgreementInv
<1>5. f \in Frame /\ f.type = "Request" /\ f.nonce = n + 1
  BY <1>2, FrameFacts DEF PairingRequest
<1> HIDE DEF f
<1>6. \A k \in Nat : k <= n => k <= n + 1
  BY <1>2, SMT
<1>7. n + 1 >= 1 /\ n + 1 <= n + 1 /\ ~ (n + 1 <= n)
  BY <1>2, SMT
<1>8. Due("client") \in Seq(Frame) /\ Due("server") \in Seq(Frame)
  BY <1>1, DueType
<1>9. OwnNonce'
  BY <1>1, <1>3, <1>4, <1>7 DEF OwnNonce, Asked
<1>10. ApprovedDrawn'
  <2> USE NonceTypes
  <2>1. \A s \in confirmed["client"] : /\ s["client"] >= 1 /\ s["client"] <= n + 1 /\ s["server"] <= nonce["server"]
                                       /\ s["client"] # n + 1
    BY <1>1, <1>4, <1>6, <1>7 DEF ApprovedDrawn
  <2>2. \A s \in confirmed["server"] :
          /\ s["server"] >= 1 /\ s["server"] <= nonce["server"] /\ s["client"] <= n + 1
          /\ s["server"] = nonce["server"] => s = sas["server"] /\ pc["server"] # "awaitResponse" /\ pc["server"] # "confirming"
    BY <1>1, <1>4, <1>6 DEF ApprovedDrawn
  <2> SUFFICES ASSUME NEW x \in Role, NEW s \in confirmed[x]
               PROVE  /\ s[x] >= 1 /\ s[x] <= nonce'[x] /\ s[Peer(x)] <= nonce'[Peer(x)]
                      /\ s[x] = nonce'[x] => s = sas[x] /\ pc'[x] # "awaitResponse" /\ pc'[x] # "confirming"
    BY <1>3 DEF ApprovedDrawn
  <2>3. CASE x = "client"
    BY <1>1, <1>3, <2>1, <2>3
  <2>4. CASE x = "server"
    BY <1>1, <1>3, <2>2, <2>4
  <2> QED
    BY <1>1, <2>3, <2>4
<1>11. \A i \in 1..Len(Due("server")') : \/ i \in 1..Len(Due("server")) /\ Due("server")'[i] = Due("server")[i]
                                         \/ Due("server")'[i] = f /\ i = Len(Due("server")')
  BY <1>3, <1>5, <1>8, WrittenLast
<1>12. NoncesDrawn'
  <2>1. /\ sas["client"]["server"] <= nonce'["server"]
        /\ \A i \in 1..Len(Due("client")') :
             Due("client")'[i].type \in {"Request", "Response"} => Due("client")'[i].nonce <= nonce'["server"]
    BY <1>1, <1>3, <1>4 DEF NoncesDrawn
  <2>2. sas["server"]["client"] <= nonce'["client"]
    BY <1>1, <1>3, <1>4, <1>6, NonceNat DEF NoncesDrawn
  <2>3. ASSUME NEW i \in 1..Len(Due("server")'), Due("server")'[i].type \in {"Request", "Response"}
        PROVE  Due("server")'[i].nonce <= nonce'["client"]
    <3>1. CASE Due("server")'[i] = f
      BY <1>3, <1>5, <1>7, <3>1
    <3>2. CASE i \in 1..Len(Due("server")) /\ Due("server")'[i] = Due("server")[i]
      <4>1. Due("server")[i].nonce \in Nat /\ Due("server")[i].nonce <= n
        BY <1>1, <1>4, <2>3, <3>2, NonceTypes DEF NoncesDrawn
      <4> QED
        BY <1>3, <1>6, <3>2, <4>1
    <3> QED
      BY <1>11, <3>1, <3>2
  <2> SUFFICES ASSUME NEW x \in Role
               PROVE  /\ sas[x][Peer(x)] <= nonce'[Peer(x)]
                      /\ \A i \in 1..Len(Due(x)') :
                           Due(x)'[i].type \in {"Request", "Response"} => Due(x)'[i].nonce <= nonce'[Peer(x)]
    BY <1>3 DEF NoncesDrawn
  <2>4. CASE x = "client"
    BY <1>1, <2>1, <2>4 DEF Due
  <2>5. CASE x = "server"
    BY <1>1, <2>2, <2>3, <2>5 DEF Due
  <2> QED
    BY <1>1, <2>4, <2>5
<1>13. ApprovedIsDue'
  <2> SUFFICES ASSUME NEW s \in confirmed["client"] \cap confirmed["server"], NEW x \in Role, ~ Verified(x)
               PROVE  pc'[x] = "awaitConfirm" /\ sas[x] = s /\ NextConfirm(x, s)'
    BY <1>3 DEF ApprovedIsDue, Verified
  <2>1. pc[x] = "awaitConfirm" /\ sas[x] = s /\ NextConfirm(x, s)
    BY <1>4 DEF ApprovedIsDue
  <2>2. x = "server"
    BY <1>1, <1>3, <2>1
  <2>3. Append(Due("server"), f) # <<>> /\ Head(Append(Due("server"), f)) = PairingConfirm(s)
    BY <1>5, <1>8, <2>1, <2>2, WrittenLast DEF NextConfirm
  <2> QED
    BY <1>3, <2>1, <2>2, <2>3 DEF NextConfirm, Due
<1>14. OtherApproved'
  <2>1. pc["server"] = "confirming" => sas["server"] \notin confirmed["client"]
    BY <1>1, <1>3, <1>4 DEF OtherApproved
  <2> QED
    BY <1>1, <1>3, <2>1 DEF OtherApproved
<1>15. BothAsked'
  BY <1>3 DEF BothAsked
<1>16. NextSas'["client"] = n + 1
  BY <1>3, DeriveNonces DEF NextSas
<1>17. AnswerApproved'
  <2>1. \A s \in confirmed["server"] : s["client"] <= n
    BY <1>1, <1>4 DEF ApprovedDrawn
  <2> QED
    BY <1>3, <1>7, <1>16, <2>1 DEF AnswerApproved
<1>18. AnswerAsked'
  <2>1. sas["server"]["client"] <= n
    BY <1>1, <1>4 DEF NoncesDrawn
  <2> QED
    BY <1>3, <1>7, <1>16, <2>1 DEF AnswerAsked
<1>19. LastRequest'
  <2> SUFFICES ASSUME NEW i \in 1..Len(Due("server")'), Due("server")'[i] = f
               PROVE  i = Len(Due("server")')
    BY <1>3 DEF LastRequest, f
  <2>1. CASE i \in 1..Len(Due("server")) /\ Due("server")'[i] = Due("server")[i]
    <3>1. Due("server")[i].nonce <= n
      BY <1>1, <1>4, <1>5, <2>1 DEF NoncesDrawn
    <3> QED
      BY <1>5, <1>7, <2>1, <3>1
  <2> QED
    BY <1>11, <2>1
<1> QED
  BY <1>9, <1>10, <1>12, <1>13, <1>14, <1>15, <1>17, <1>18, <1>19 DEF AgreementInv

\* The server draws a nonce and answers.
LEMMA RespondsKeeps ==
    ASSUME Inv, AgreementInv, Responds
    PROVE  AgreementInv'
<1> DEFINE n == nonce["client"]
           m == nonce["server"]
           k == Head(Due("server")).nonce
           s1 == derive("server", m + 1, k)
           f == PairingResponse(m + 1)
<1>1. /\ \A x \in Role : x = "client" \/ x = "server"
      /\ Peer("client") = "server" /\ Peer("server") = "client"
      /\ "client" \in Role /\ "server" \in Role /\ "client" # "server"
  BY TwoRoles DEF Role
<1>2. m \in Nat /\ n \in Nat /\ m + 1 \in Nonce
  BY <1>1, NonceNat, NonceFacts DEF Responds, Inv, Domains
<1>3. /\ pc["server"] = "awaitRequest" /\ pc'["server"] = "confirming" /\ pc'["client"] = pc["client"]
      /\ nonce'["server"] = m + 1 /\ nonce'["client"] = n
      /\ sas'["server"] = s1 /\ sas'["client"] = sas["client"]
      /\ UNCHANGED <<confirmed, trust, unsaved>>
      /\ Due("server") # <<>> /\ Head(Due("server")).type = "Request"
      /\ Due("server")' = Tail(Due("server")) /\ Due("client")' = Append(Due("client"), f)
  BY <1>1 DEF Responds, Inv, Domains
<1>4. /\ OwnNonce /\ ApprovedDrawn /\ NoncesDrawn /\ ApprovedIsDue /\ OtherApproved
      /\ BothAsked /\ AnswerApproved /\ AnswerAsked /\ LastRequest
  BY DEF AgreementInv
<1>5. f \in Frame /\ f.type = "Response" /\ f.nonce = m + 1
  BY <1>2, FrameFacts DEF PairingResponse
<1>6. s1["server"] = m + 1 /\ s1["client"] = k
  BY DEF derive, Role
<1> HIDE DEF f, s1
<1>7. \A j \in Nat : j <= m => j <= m + 1
  BY <1>2, SMT
<1>8. m + 1 >= 1 /\ m + 1 <= m + 1 /\ ~ (m + 1 <= m)
  BY <1>2, SMT
<1>9. Due("client") \in Seq(Frame) /\ Due("server") \in Seq(Frame)
  BY <1>1, DueType
<1>10. /\ \A i \in 1..Len(Due("server")') : \E j \in 1..Len(Due("server")) :
            Due("server")'[i] = Due("server")[j] /\ (j = Len(Due("server")) => i = Len(Due("server")'))
       /\ Head(Due("server")) = Due("server")[1] /\ 1 \in 1..Len(Due("server"))
  <2>1. Head(Due("server")) = Due("server")[1] /\ 1 \in 1..Len(Due("server"))
    BY <1>3, <1>9, TailFacts, SMT
  <2>2. /\ Len(Due("server")) \in Nat /\ Len(Due("server")') = Len(Due("server")) - 1
        /\ \A i \in 1..Len(Due("server")) - 1 : i + 1 \in 1..Len(Due("server")) /\ Due("server")'[i] = Due("server")[i + 1]
                                                /\ (i + 1 = Len(Due("server")) => i = Len(Due("server")) - 1)
    BY <1>3, <1>9, TailFacts
  <2> QED
    BY <2>1, <2>2
<1>11. \A i \in 1..Len(Due("client")') : \/ i \in 1..Len(Due("client")) /\ Due("client")'[i] = Due("client")[i]
                                         \/ Due("client")'[i] = f /\ i = Len(Due("client")')
  BY <1>3, <1>5, <1>9, WrittenLast
<1>12. k <= n
  BY <1>1, <1>3, <1>4, <1>10 DEF NoncesDrawn
<1>13. OwnNonce'
  <2> SUFFICES ASSUME NEW x \in Role
               PROVE  /\ pc'[x] \in Asked => sas'[x][x] = nonce'[x] /\ nonce'[x] >= 1
                      /\ pc'["client"] = "awaitResponse" => nonce'["client"] >= 1
    BY <1>1 DEF OwnNonce
  <2>1. CASE x = "client"
    BY <1>1, <1>3, <1>4, <2>1 DEF OwnNonce
  <2>2. CASE x = "server"
    BY <1>3, <1>4, <1>6, <1>8, <2>2 DEF OwnNonce
  <2> QED
    BY <1>1, <2>1, <2>2
<1>14. ApprovedDrawn'
  <2>1. \A s \in confirmed["server"] : /\ s["server"] >= 1 /\ s["server"] <= m + 1 /\ s["client"] <= n
                                       /\ s["server"] # m + 1
    BY <1>1, <1>4, <1>7, <1>8, NonceTypes DEF ApprovedDrawn
  <2>2. \A s \in confirmed["client"] :
          /\ s["client"] >= 1 /\ s["client"] <= n /\ s["server"] <= m + 1
          /\ s["client"] = n => s = sas["client"] /\ pc["client"] # "awaitResponse" /\ pc["client"] # "confirming"
    BY <1>1, <1>4, <1>7, NonceTypes DEF ApprovedDrawn
  <2> SUFFICES ASSUME NEW x \in Role, NEW s \in confirmed[x]
               PROVE  /\ s[x] >= 1 /\ s[x] <= nonce'[x] /\ s[Peer(x)] <= nonce'[Peer(x)]
                      /\ s[x] = nonce'[x] => s = sas'[x] /\ pc'[x] # "awaitResponse" /\ pc'[x] # "confirming"
    BY <1>3 DEF ApprovedDrawn
  <2>3. CASE x = "client"
    BY <1>1, <1>3, <2>2, <2>3
  <2>4. CASE x = "server"
    BY <1>1, <1>3, <2>1, <2>4
  <2> QED
    BY <1>1, <2>3, <2>4
<1>15. NoncesDrawn'
  <2>1. sas'["client"]["server"] <= nonce'["server"] /\ sas'["server"]["client"] <= nonce'["client"]
    BY <1>1, <1>3, <1>4, <1>6, <1>7, <1>12, NonceNat DEF NoncesDrawn
  <2>2. \A i \in 1..Len(Due("server")') :
          Due("server")'[i].type \in {"Request", "Response"} => Due("server")'[i].nonce <= nonce'["client"]
    BY <1>1, <1>3, <1>4, <1>10 DEF NoncesDrawn
  <2>3. ASSUME NEW i \in 1..Len(Due("client")'), Due("client")'[i].type \in {"Request", "Response"}
        PROVE  Due("client")'[i].nonce <= nonce'["server"]
    <3>1. CASE Due("client")'[i] = f
      BY <1>3, <1>5, <1>8, <3>1
    <3>2. CASE i \in 1..Len(Due("client")) /\ Due("client")'[i] = Due("client")[i]
      <4>1. Due("client")[i].nonce \in Nat /\ Due("client")[i].nonce <= m
        BY <1>1, <1>4, <2>3, <3>2, NonceTypes DEF NoncesDrawn
      <4> QED
        BY <1>3, <1>7, <3>2, <4>1
    <3> QED
      BY <1>11, <3>1, <3>2
  <2> SUFFICES ASSUME NEW x \in Role
               PROVE  /\ sas'[x][Peer(x)] <= nonce'[Peer(x)]
                      /\ \A i \in 1..Len(Due(x)') :
                           Due(x)'[i].type \in {"Request", "Response"} => Due(x)'[i].nonce <= nonce'[Peer(x)]
    BY <1>3 DEF NoncesDrawn
  <2>4. CASE x = "client"
    BY <1>1, <2>1, <2>3, <2>4 DEF Due
  <2>5. CASE x = "server"
    BY <1>1, <2>1, <2>2, <2>5 DEF Due
  <2> QED
    BY <1>1, <2>4, <2>5
<1>16. ApprovedIsDue'
  <2> SUFFICES ASSUME NEW s \in confirmed["client"] \cap confirmed["server"], NEW x \in Role, ~ Verified(x)
               PROVE  pc'[x] = "awaitConfirm" /\ sas'[x] = s /\ NextConfirm(x, s)'
    BY <1>3 DEF ApprovedIsDue, Verified
  <2>1. pc[x] = "awaitConfirm" /\ sas[x] = s /\ NextConfirm(x, s)
    BY <1>4 DEF ApprovedIsDue
  <2>2. x = "client"
    BY <1>1, <1>3, <2>1
  <2>3. Append(Due("client"), f) # <<>> /\ Head(Append(Due("client"), f)) = PairingConfirm(s)
    BY <1>5, <1>9, <2>1, <2>2, WrittenLast DEF NextConfirm
  <2> QED
    BY <1>3, <2>1, <2>2, <2>3 DEF NextConfirm, Due
<1>17. OtherApproved'
  <2>1. s1 \notin confirmed["client"]
    BY <1>1, <1>4, <1>6, <1>8 DEF ApprovedDrawn
  <2>2. pc["client"] = "confirming" => sas["client"] \notin confirmed["server"]
    BY <1>1, <1>3, <1>4 DEF OtherApproved
  <2> SUFFICES ASSUME NEW x \in Role, pc'[x] = "confirming", sas'[x] \in confirmed[Peer(x)] PROVE FALSE
    BY <1>3 DEF OtherApproved
  <2> QED
    BY <1>1, <1>3, <2>1, <2>2
<1>18. sas["client"]["server"] <= m
  BY <1>1, <1>4 DEF NoncesDrawn
<1>19. BothAsked'
  BY <1>3, <1>6, <1>8, <1>18 DEF BothAsked
<1>20. ASSUME Answered'
       PROVE  \/ Answered /\ NextSas' = NextSas
              \/ Due("client") = <<>> /\ Head(Due("client")') = f /\ NextSas' = derive("client", n, m + 1)
  <2>1. pc["client"] = "awaitResponse" /\ Head(Due("client")').type = "Response"
        /\ NextSas' = derive("client", n, Head(Due("client")').nonce)
    BY <1>3, <1>20 DEF Answered, NextSas
  <2>2. CASE Due("client") = <<>>
    <3>1. Head(Due("client")') = f
      BY <1>3, <1>5, <1>9, <2>2, AppendFacts, SMT
    <3> QED
      BY <1>5, <2>1, <2>2, <3>1
  <2>3. CASE Due("client") # <<>>
    <3>1. Head(Due("client")') = Head(Due("client"))
      BY <1>3, <1>5, <1>9, <2>3, AppendFacts, SMT
    <3> QED
      BY <2>1, <2>3, <3>1 DEF Answered, NextSas
  <2> QED
    BY <2>2, <2>3
<1>21. AnswerApproved'
  <2>1. derive("client", n, m + 1) \notin confirmed["server"]
    <3>1. derive("client", n, m + 1)["server"] = m + 1
      BY DEF derive, Role
    <3> QED
      BY <1>1, <1>4, <1>8, <3>1 DEF ApprovedDrawn
  <2>2. Answered => NextSas \notin confirmed["server"]
    BY <1>3, <1>4 DEF AnswerApproved
  <2> QED
    BY <1>3, <1>20, <2>1, <2>2 DEF AnswerApproved
<1>22. AnswerAsked'
  <2> SUFFICES ASSUME Answered', s1 = NextSas'
               PROVE  Due("server")' = <<>> /\ Len(Due("client")') = 1
    BY <1>3 DEF AnswerAsked
  <2>1. pc["client"] = "awaitResponse"
    BY <1>3 DEF Answered
  <2>2. ~ (Answered /\ NextSas' = NextSas)
    <3>1. Answered => Head(Due("client")) = Due("client")[1] /\ 1 \in 1..Len(Due("client"))
      BY <1>9, TailFacts, SMT DEF Answered
    <3>2. Answered => Head(Due("client")).nonce <= m
      BY <1>1, <1>4, <3>1 DEF NoncesDrawn, Answered
    <3>3. NextSas["server"] = Head(Due("client")).nonce
      BY DEF NextSas, derive, Role
    <3> QED
      BY <1>6, <1>8, <3>2, <3>3
  <2>3. Due("client") = <<>> /\ NextSas' = derive("client", n, m + 1)
    BY <1>20, <2>2
  <2>4. k = n
    BY <1>6, <2>3, DeriveNonces
  <2>5. Due("server")[1] = PairingRequest(n)
    <3>1. Due("server")[1] \in Frame /\ Due("server")[1].type = "Request" /\ Due("server")[1].nonce = n
      BY <1>3, <1>9, <1>10, <2>4, SMT
    <3> QED
      BY <3>1, SMT DEF Frame, SignalTypes, PairingRequest
  <2>6. 1 = Len(Due("server"))
    BY <1>4, <1>10, <2>1, <2>5 DEF LastRequest
  <2>7. Due("server")' = <<>>
    BY <1>3, <1>9, <2>6, TailFacts, SMT
  <2>8. Len(Due("client")') = 1
    <3>1. Len(Due("client")) = 0
      BY <2>3, SMT
    <3>2. Len(Due("client")') = Len(Due("client")) + 1
      BY <1>3, <1>5, <1>9, AppendFacts
    <3>3. 0 + 1 = 1
      BY SMT
    <3> QED
      BY <3>1, <3>2, <3>3
  <2> QED
    BY <2>7, <2>8
<1>23. LastRequest'
  BY <1>3, <1>4, <1>10 DEF LastRequest
<1> QED
  BY <1>13, <1>14, <1>15, <1>16, <1>17, <1>19, <1>21, <1>22, <1>23 DEF AgreementInv

\* The client derives its SAS.
LEMMA LearnsKeeps ==
    ASSUME Inv, AgreementInv, Learns
    PROVE  AgreementInv'
<1>1. /\ \A x \in Role : x = "client" \/ x = "server"
      /\ Peer("client") = "server" /\ Peer("server") = "client"
      /\ "client" \in Role /\ "server" \in Role /\ "client" # "server"
  BY TwoRoles DEF Role
<1>2. /\ pc["client"] = "awaitResponse" /\ pc'["client"] = "confirming" /\ pc'["server"] = pc["server"]
      /\ sas'["client"] = NextSas /\ sas'["server"] = sas["server"]
      /\ UNCHANGED <<nonce, confirmed, trust, unsaved>>
      /\ Due("client") # <<>> /\ Head(Due("client")).type = "Response"
      /\ Due("client")' = Tail(Due("client")) /\ Due("server")' = Due("server")
  BY <1>1 DEF Learns, NextSas, Inv, Domains
<1>3. /\ OwnNonce /\ ApprovedDrawn /\ NoncesDrawn /\ ApprovedIsDue /\ OtherApproved
      /\ BothAsked /\ AnswerApproved /\ AnswerAsked /\ LastRequest
  BY DEF AgreementInv
<1>4. Answered
  BY <1>2 DEF Answered
<1>5. Due("client") \in Seq(Frame) /\ Due("server") \in Seq(Frame)
  BY <1>1, DueType
<1>6. NextSas["client"] = nonce["client"] /\ NextSas["server"] = Head(Due("client")).nonce
  BY DEF NextSas, derive, Role
<1>7. /\ Head(Due("client")) = Due("client")[1] /\ 1 \in 1..Len(Due("client"))
      /\ \A i \in 1..Len(Due("client")') : \E j \in 1..Len(Due("client")) : Due("client")'[i] = Due("client")[j]
  <2>1. Head(Due("client")) = Due("client")[1] /\ 1 \in 1..Len(Due("client"))
    BY <1>2, <1>5, TailFacts, SMT
  <2>2. /\ Len(Due("client")') = Len(Due("client")) - 1
        /\ \A i \in 1..Len(Due("client")) - 1 : i + 1 \in 1..Len(Due("client")) /\ Due("client")'[i] = Due("client")[i + 1]
    BY <1>2, <1>5, TailFacts
  <2> QED
    BY <2>1, <2>2
<1>8. OwnNonce'
  <2>1. nonce["client"] >= 1
    BY <1>2, <1>3 DEF OwnNonce
  <2> SUFFICES ASSUME NEW x \in Role, pc'[x] \in Asked
               PROVE  sas'[x][x] = nonce[x] /\ nonce[x] >= 1
    BY <1>2 DEF OwnNonce
  <2>2. CASE x = "client"
    BY <1>2, <1>6, <2>1, <2>2
  <2>3. CASE x = "server"
    BY <1>2, <1>3, <2>3 DEF OwnNonce
  <2> QED
    BY <1>1, <2>2, <2>3
<1>9. ApprovedDrawn'
  <2> SUFFICES ASSUME NEW x \in Role, NEW s \in confirmed[x]
               PROVE  /\ s[x] >= 1 /\ s[x] <= nonce[x] /\ s[Peer(x)] <= nonce[Peer(x)]
                      /\ s[x] = nonce[x] => s = sas'[x] /\ pc'[x] # "awaitResponse" /\ pc'[x] # "confirming"
    BY <1>2 DEF ApprovedDrawn
  <2>1. /\ s[x] >= 1 /\ s[x] <= nonce[x] /\ s[Peer(x)] <= nonce[Peer(x)]
        /\ s[x] = nonce[x] => s = sas[x] /\ pc[x] # "awaitResponse" /\ pc[x] # "confirming"
    BY <1>3 DEF ApprovedDrawn
  <2>2. CASE x = "client"
    BY <1>2, <2>1, <2>2
  <2>3. CASE x = "server"
    BY <1>2, <2>1, <2>3
  <2> QED
    BY <1>1, <2>2, <2>3
<1>10. NoncesDrawn'
  <2>1. sas'["client"]["server"] <= nonce["server"] /\ sas'["server"]["client"] <= nonce["client"]
    BY <1>1, <1>2, <1>3, <1>6, <1>7 DEF NoncesDrawn
  <2>2. \A i \in 1..Len(Due("client")') :
          Due("client")'[i].type \in {"Request", "Response"} => Due("client")'[i].nonce <= nonce["server"]
    BY <1>1, <1>3, <1>7 DEF NoncesDrawn
  <2>3. \A i \in 1..Len(Due("server")') :
          Due("server")'[i].type \in {"Request", "Response"} => Due("server")'[i].nonce <= nonce["client"]
    BY <1>1, <1>2, <1>3 DEF NoncesDrawn
  <2> SUFFICES ASSUME NEW x \in Role
               PROVE  /\ sas'[x][Peer(x)] <= nonce[Peer(x)]
                      /\ \A i \in 1..Len(Due(x)') :
                           Due(x)'[i].type \in {"Request", "Response"} => Due(x)'[i].nonce <= nonce[Peer(x)]
    BY <1>2 DEF NoncesDrawn
  <2>4. CASE x = "client"
    BY <1>1, <2>1, <2>2, <2>4 DEF Due
  <2>5. CASE x = "server"
    BY <1>1, <2>1, <2>3, <2>5 DEF Due
  <2> QED
    BY <1>1, <2>4, <2>5
<1>11. ApprovedIsDue'
  <2> SUFFICES ASSUME NEW s \in confirmed["client"] \cap confirmed["server"], NEW x \in Role, ~ Verified(x)
               PROVE  pc'[x] = "awaitConfirm" /\ sas'[x] = s /\ NextConfirm(x, s)'
    BY <1>2 DEF ApprovedIsDue, Verified
  <2>1. pc[x] = "awaitConfirm" /\ sas[x] = s /\ NextConfirm(x, s)
    BY <1>3 DEF ApprovedIsDue
  <2>2. x = "server"
    BY <1>1, <1>2, <2>1
  <2> QED
    BY <1>2, <2>1, <2>2 DEF NextConfirm, Due
<1>12. OtherApproved'
  <2>1. pc["server"] = "confirming" => sas["server"] \notin confirmed["client"]
    BY <1>1, <1>2, <1>3 DEF OtherApproved
  <2> SUFFICES ASSUME NEW x \in Role, pc'[x] = "confirming", sas'[x] \in confirmed[Peer(x)]
               PROVE  /\ pc'[Peer(x)] = "awaitConfirm" /\ sas'[Peer(x)] = sas'[x] /\ Due(Peer(x))' = <<>>
                      /\ NextConfirm(x, sas[x])'
    BY <1>2 DEF OtherApproved
  <2>2. x = "client" /\ NextSas \in confirmed["server"]
    BY <1>1, <1>2, <2>1
  <2>3. /\ pc["server"] = "awaitConfirm" /\ sas["server"] = NextSas /\ Due("server") = <<>>
        /\ Len(Due("client")) >= 2 /\ Due("client")[2] = PairingConfirm(NextSas)
    BY <1>3, <1>4, <2>2 DEF AnswerApproved
  <2>4. Due("client")' # <<>> /\ Head(Due("client")') = PairingConfirm(NextSas)
    BY <1>2, <1>5, <2>3, TailFacts, SMTT(60)
  <2> QED
    BY <1>1, <1>2, <2>2, <2>3, <2>4 DEF NextConfirm, Due
<1>13. BothAsked'
  <2> SUFFICES ASSUME pc["server"] = "confirming", NextSas = sas["server"]
               PROVE  Due("client")' = <<>> /\ Due("server")' = <<>>
    BY <1>2 DEF BothAsked
  <2>1. Due("server") = <<>> /\ Len(Due("client")) = 1
    BY <1>3, <1>4 DEF AnswerAsked
  <2>2. Due("client")' = <<>>
    BY <1>2, <1>5, <2>1, TailFacts, SMT
  <2> QED
    BY <1>2, <2>1, <2>2
<1>14. AnswerApproved' /\ AnswerAsked' /\ LastRequest'
  BY <1>2 DEF AnswerApproved, AnswerAsked, LastRequest, Answered
<1> QED
  BY <1>8, <1>9, <1>10, <1>11, <1>12, <1>13, <1>14 DEF AgreementInv

\* Steps that end a device's part in a ceremony.
LEMMA LeavesKeeps ==
    ASSUME Inv, AgreementInv, NEW r \in Role, Leaves(r)
    PROVE  AgreementInv'
<1>1. /\ pc[r] # "confirming"
      /\ pc[r] = "awaitConfirm" => Due(r) # <<>> /\ Head(Due(r)) # PairingConfirm(sas[r])
      /\ pc'[r] \notin InCeremony /\ pc'[Peer(r)] = pc[Peer(r)]
      /\ Takes(r) /\ Due(Peer(r))' = Due(Peer(r))
      /\ UNCHANGED <<nonce, sas, confirmed>>
      /\ \A x \in Role : Verified(x)' <=> Verified(x)
  BY DEF Leaves, Same
<1>2. \A s \in confirmed["client"] \cap confirmed["server"] : Verified(r)'
  BY <1>1 DEF AgreementInv, ApprovedIsDue, NextConfirm
<1>3. Verified(Peer(r))' <=> Verified(Peer(r))
  BY <1>1, PeerFacts DEF Verified
<1> QED
  BY <1>1, <1>2, <1>3, ReadKeeps

\* A device comes to save_peer.
LEMMA SucceedsKeeps ==
    ASSUME Inv, AgreementInv, NEW r \in Role, Succeeds(r)
    PROVE  AgreementInv'
<1>1. Peer(r) \in Role /\ Peer(r) # r
  BY PeerFacts
<1>2. /\ pc[r] = "awaitConfirm" /\ pc'[r] = "session" /\ pc'[Peer(r)] = pc[Peer(r)]
      /\ Verified(r)' /\ (Verified(Peer(r))' <=> Verified(Peer(r)))
      /\ UNCHANGED <<nonce, sas, confirmed>>
      /\ Due(r) # <<>> /\ Takes(r) /\ Due(Peer(r))' = Due(Peer(r))
  BY <1>1 DEF Succeeds, Takes, Inv, Domains
<1>3. pc'[r] \notin InCeremony /\ pc[r] # "confirming"
  BY <1>2 DEF InCeremony
<1> QED
  BY <1>2, <1>3, ReadKeeps

\* A device that no connection was opened for has done nothing.
Untouched ==
    connections = 0
        => /\ link = "down"
           /\ \A r \in Role : /\ pc[r] = "idle" /\ net[r] = <<>> /\ nonce[r] = 0 /\ confirmed[r] = {}
                              /\ sas[r] = [x \in Role |-> 0]

\* The agreement of the first connection, while it is up.
FirstInv == Untouched /\ (FirstUp => AgreementInv)

\* The steps that neither of two idle devices takes.
LEMMA IdleSteps ==
    ASSUME Next, link = "down", \A r \in Role : pc[r] = "idle" /\ net[r] = <<>>
    PROVE  Connect \/ UNCHANGED <<link, pc, net, nonce, sas, confirmed, connections>>
<1> USE DEF history
<1>1. /\ pc["client"] = "idle" /\ pc["server"] = "idle"
      /\ "client" \in Role /\ "server" \in Role
  BY DEF Role
<1>2. "idle" \notin HandshakeWaits /\ "idle" \notin PairingWaits
  BY DEF HandshakeWaits, PairingWaits
<1>3. \A r \in Role : DOMAIN net[r] = {}
  BY SMT
<1>4. \A r \in Role : ~ Receives(r)
  BY <1>2 DEF Receives, HandshakeFails, SkipFrame, PairingEof, PairingAborted, IdentityRefused,
                  PairingSucceeds, SaveFails, ConfirmMismatch, LoopFrame, LoopClipboard, LoopEnds
<1>5. ~ ClientStep
  BY <1>1, <1>4 DEF ClientStep, ClientAuth, ClientAuthenticated, ClientRefusesRevoked, ReceiveResponse
<1>6. ~ ServerStep
  BY <1>1, <1>4 DEF ServerStep, ServerHello, ServerAuthResult, ServerRefusesRevoked, ServerRefusesSignature,
                    ReceiveRequest, NodePairingFrame, LoopOffer, LoopOfferFails
<1>7. \A r \in Role : ~ UserAnswers(r)
  BY DEF UserAnswers, UserConfirms, UserRejects
<1>8. ~ StartPairing /\ ~ StartResponder /\ ~ SendPing /\ ~ SendOffer /\ ~ LinkLoss
  BY <1>1 DEF StartPairing, StartResponder, SendPing, SendOffer, LinkLoss
<1>9. \A r \in Role : ~ Close(r) /\ ~ AlterNonce(r) /\ ~ SendClipboard(r)
  BY <1>3 DEF Close, AlterNonce, SendClipboard
<1>10. \A r \in Role : Revoke(r) => UNCHANGED <<link, pc, net, nonce, sas, confirmed, connections>>
  BY DEF Revoke
<1> QED
  BY <1>5, <1>6, <1>7, <1>8, <1>9, <1>10 DEF Next, Environment

\* Only Connect opens a connection.
LEMMA LinkSteps ==
    ASSUME Next
    PROVE  Connect \/ (connections' = connections /\ (link' = link \/ link' = "down"))
<1> DEFINE Keeps == connections' = connections /\ (link' = link \/ link' = "down")
<1> USE DEF history
<1>1. \A r \in Role : Receives(r) => Keeps
  BY DEF Receives, HandshakeFails, SkipFrame, PairingEof, PairingAborted, IdentityRefused,
         PairingSucceeds, SaveFails, ConfirmMismatch, LoopFrame, LoopClipboard, LoopEnds, Hangup
<1>2. ClientStep => Keeps
  BY <1>1 DEF ClientStep, ClientAuth, ClientAuthenticated, ClientRefusesRevoked, ReceiveResponse, Hangup, Role
<1>3. ServerStep => Keeps
  BY <1>1 DEF ServerStep, ServerHello, ServerAuthResult, ServerRefusesRevoked, ServerRefusesSignature,
              ReceiveRequest, NodePairingFrame, LoopOffer, LoopOfferFails, Hangup, Role
<1>4. \A r \in Role : UserAnswers(r) => Keeps
  BY DEF UserAnswers, UserConfirms, UserRejects
<1>5. Environment => Connect \/ Keeps
  BY DEF Environment, StartPairing, StartResponder, SendPing, SendOffer, LinkLoss, Close, AlterNonce, Revoke,
         SendClipboard, Hangup
<1> QED
  BY <1>2, <1>3, <1>4, <1>5 DEF Next

\* The first connection opens.
LEMMA ConnectAgrees ==
    ASSUME Inv', connections = 0, Untouched, Connect
    PROVE  AgreementInv'
<1>1. /\ \A x \in Role : x = "client" \/ x = "server"
      /\ Peer("client") = "server" /\ Peer("server") = "client"
      /\ "client" \in Role /\ "server" \in Role /\ "client" # "server"
  BY TwoRoles DEF Role
<1>2. /\ UNCHANGED <<nonce, sas, confirmed>>
      /\ \A r \in Role : nonce[r] = 0 /\ confirmed[r] = {} /\ \A x \in Role : sas[r][x] = 0
  BY DEF Connect, Untouched, history
<1>3. /\ pc'["server"] = "awaitClientHello" /\ pc'["client"] = "awaitServerHello"
      /\ net'["server"] = <<Signal("ClientHello")>> /\ net'["client"] = <<>>
  BY <1>1 DEF Connect
<1>4. \A r \in Role : \A i \in 1..Len(net'[r]) : net'[r][i] = Signal("ClientHello")
  BY <1>1, <1>3, SMT
<1>5. \A r \in Role : net'[r] \in Seq(Frame)
  BY DEF Inv, Domains
<1>6. \A r \in Role : \A i \in 1..Len(Due(r)') : Due(r)'[i].type = "ClientHello"
  <2>1. \A r \in Role : \A k \in 1..Len(MarkedOf(net'[r])) : \E i \in 1..Len(net'[r]) : MarkedOf(net'[r])[k] = net'[r][i]
    BY <1>5, MarkedType
  <2>2. Signal("ClientHello").type = "ClientHello"
    BY DEF Signal
  <2> QED
    BY <1>4, <2>1, <2>2 DEF Due
<1>7. NoncesDrawn'
  <2>1. 0 <= 0
    BY SMT
  <2>2. \A r \in Role : sas'[r][Peer(r)] <= nonce'[Peer(r)]
    BY <1>2, <2>1, PeerFacts
  <2>3. \A r \in Role : \A i \in 1..Len(Due(r)') : Due(r)'[i].type \notin {"Request", "Response"}
    BY <1>6
  <2> QED
    BY <2>2, <2>3 DEF NoncesDrawn
<1>8. \A r \in Role : pc'[r] \notin {"confirming", "awaitConfirm", "awaitResponse"}
  BY <1>1, <1>3
<1>9. OwnNonce' /\ OtherApproved' /\ BothAsked' /\ LastRequest' /\ ~ Answered'
  BY <1>1, <1>8 DEF OwnNonce, OtherApproved, BothAsked, LastRequest, Answered, Asked
<1>10. ApprovedDrawn' /\ ApprovedIsDue'
  BY <1>1, <1>2 DEF ApprovedDrawn, ApprovedIsDue
<1> QED
  BY <1>7, <1>9, <1>10 DEF AgreementInv, AnswerApproved, AnswerAsked

\* The invariant of the first connection holds at first.
LEMMA InitFirst == ASSUME Init PROVE FirstInv
<1>1. connections = 0 /\ connections # 1
  BY SMT DEF Init
<1>2. Untouched
  BY DEF Untouched, Init
<1> QED
  BY <1>1, <1>2 DEF FirstInv, FirstUp

\* The steps of the first connection.
LEMMA StepAgrees ==
    ASSUME Inv, AgreementInv, FirstUp, FirstUp', Next
    PROVE  AgreementInv'
BY StepKinds, StaysKeeps, RequestsKeeps, RespondsKeeps, LearnsKeeps, LeavesKeeps, AltersKeeps, RejectsKeeps,
   ApprovesKeeps, SucceedsKeeps DEF Kinds

\* Every step keeps it.
LEMMA NextFirst == ASSUME Inv, Inv', FirstInv, [Next]_vars PROVE FirstInv'
<1>1. CASE UNCHANGED vars
  <2>1. UNCHANGED <<pc, net, nonce, sas, confirmed, trust, unsaved, connections, link>>
    BY <1>1 DEF vars
  <2>2. Untouched'
    BY <2>1 DEF FirstInv, Untouched
  <2>3. Stays
    BY <2>1 DEF Stays, Same, Due, Verified
  <2>4. FirstUp' => FirstUp
    BY <2>1 DEF FirstUp
  <2> QED
    BY <2>2, <2>3, <2>4, StaysKeeps DEF FirstInv
<1>2. CASE Next
  <2>1. connections \in Nat
    BY SMT DEF Inv, Domains
  <2>2. Connect => connections' = connections + 1
    BY DEF Connect
  <2>3. Untouched'
    <3> SUFFICES ASSUME connections' = 0
                 PROVE  /\ link' = "down"
                        /\ \A r \in Role : /\ pc'[r] = "idle" /\ net'[r] = <<>> /\ nonce'[r] = 0 /\ confirmed'[r] = {}
                                           /\ sas'[r] = [x \in Role |-> 0]
      BY DEF Untouched
    <3>1. ~ Connect
      BY <2>1, <2>2, SMT
    <3>2. connections = 0
      BY <1>2, <3>1, LinkSteps
    <3>3. /\ link = "down"
          /\ \A r \in Role : /\ pc[r] = "idle" /\ net[r] = <<>> /\ nonce[r] = 0 /\ confirmed[r] = {}
                             /\ sas[r] = [x \in Role |-> 0]
      BY <3>2 DEF FirstInv, Untouched
    <3>4. UNCHANGED <<link, pc, net, nonce, sas, confirmed, connections>>
      BY <1>2, <3>1, <3>3, IdleSteps
    <3> QED
      BY <3>3, <3>4
  <2>4. ASSUME FirstUp' PROVE AgreementInv'
    <3>1. CASE Connect
      <4>1. connections = 0
        BY <2>1, <2>2, <2>4, <3>1, SMT DEF FirstUp
      <4> QED
        BY <3>1, <4>1, ConnectAgrees DEF FirstInv
    <3>2. CASE ~ Connect
      <4>1. FirstUp
        BY <1>2, <2>4, <3>2, LinkSteps DEF FirstUp
      <4> QED
        BY <1>2, <2>4, <4>1, StepAgrees DEF FirstInv
    <3> QED
      BY <3>1, <3>2
  <2> QED
    BY <2>3, <2>4 DEF FirstInv
<1> QED
  BY <1>1, <1>2

\* The agreement follows: a device that came to save_peer means that both users
\* approved one SAS, and then the other device came to it too or awaits a Confirm.
LEMMA FirstAgrees == ASSUME Inv, FirstInv PROVE CeremonyAgreement
<1> SUFFICES ASSUME connections = 1, link = "up", \A r \in Role : pc[r] # "awaitConfirm"
             PROVE  Verified("client") <=> Verified("server")
  BY DEF CeremonyAgreement
<1>1. ApprovedIsDue
  BY DEF FirstInv, FirstUp, AgreementInv
<1>2. "client" \in Role /\ "server" \in Role
  BY DEF Role
<1>3. (\E r \in Role : Verified(r)) => BothConfirmed
  BY DEF Inv, MutualConfirmation, FailedConfirmed, Verified
<1>4. BothConfirmed => \A r \in Role : Verified(r)
  BY <1>1, <1>2 DEF BothConfirmed, ApprovedIsDue
<1> QED
  BY <1>2, <1>3, <1>4

\* While the first connection is up, and neither device awaits the other's Confirm, both
\* devices came to save_peer or neither did: over any number of ceremonies, rejections,
\* altered messages, crossed requests and revocations one device holds a record that the
\* other lacks only when the other's own save_peer failed.
THEOREM CeremoniesAgree == Spec => []CeremonyAgreement
<1>1. Init => Inv /\ FirstInv
  BY InitInv, InitFirst
<1>2. Inv /\ FirstInv /\ [Next]_vars => (Inv /\ FirstInv)'
  <2>1. Inv /\ [Next]_vars => Inv'
    BY NextInv
  <2>2. ASSUME Inv, FirstInv, [Next]_vars, Inv' PROVE FirstInv'
    BY <2>2, NextFirst
  <2> QED
    BY <2>1, <2>2
<1>3. Inv /\ FirstInv => CeremonyAgreement
  BY FirstAgrees
<1> QED
  BY <1>1, <1>2, <1>3, PTL DEF Spec
=============================================================================
