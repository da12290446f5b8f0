------------------------------- MODULE Session -------------------------------
(***************************************************************************)
(* One connection at a time between a client and a server: the handshake   *)
(* (bridge-session/session.rs), the trust store consult and the SAS        *)
(* pairing ceremony (bridge-identity), and the loop that dispatches frames *)
(* afterwards, which on the server is the library's process_next_frame or  *)
(* the node's handle_connection.                                           *)
(*                                                                         *)
(* Frames travel in one FIFO per direction.  A connection that goes down   *)
(* leaves an arbitrary prefix of what was in flight to be read before EOF. *)
(* A write on a connection that is down is lost: the code's write error    *)
(* returns the same way as the EOF that its next read meets.               *)
(***************************************************************************)
EXTENDS Naturals, Sequences

CONSTANTS Drivers,         \* which server loops to model: subset of ServerLoops
          MaxCeremonies,   \* nonces a device draws, over all connections
          MaxConnections,  \* connections opened
          MaxInFlight      \* application frames are sent below this many in flight

ServerLoops == {"library", "node"}

ASSUME SessionConstants ==
    /\ Drivers \subseteq ServerLoops
    /\ MaxCeremonies \in Nat
    /\ MaxConnections \in Nat
    /\ MaxInFlight \in Nat

Role == {"client", "server"}
Peer(r) == IF r = "client" THEN "server" ELSE "client"

Nonce == 0..MaxCeremonies
Sas == [Role -> Nonce]

\* SasVerification::derive sorts the two identities before hashing, so the code
\* depends on which nonce belongs to which device and not on who computes it.
derive(r, own, other) == [x \in Role |-> IF x = r THEN own ELSE other]

Signal(t) == [type |-> t]
AuthResponse(sig) == [type |-> "AuthResponse", signature |-> sig]
PairingRequest(n) == [type |-> "Request", nonce |-> n]
PairingResponse(n) == [type |-> "Response", nonce |-> n]
PairingConfirm(s) == [type |-> "Confirm", sas |-> s]

HandshakeTypes == {"ClientHello", "ServerHello", "AuthResponse", "AuthOk", "AuthFailed"}
PairingTypes == {"Request", "Response", "Confirm", "Failed"}
SignalTypes == {"ClientHello", "ServerHello", "AuthOk", "AuthFailed", "Failed",
                "Ping", "Pong", "Disconnect", "Clipboard", "Offer", "Accept"}
Frame ==
    [type : SignalTypes]
        \cup [type : {"AuthResponse"}, signature : {"valid", "invalid"}]
        \cup [type : {"Request", "Response"}, nonce : Nonce]
        \cup [type : {"Confirm"}, sas : Sas]

SessionState == {"Handshaking", "AuthenticatedUntrusted", "Pairing", "Trusted", "Terminated"}

\* The frame a suspended receive waits for.  "idle" means that the device has no
\* session, "session" that its loop reads frames, "confirming" that its user is asked.
Awaits == [awaitClientHello |-> "ClientHello", awaitServerHello |-> "ServerHello",
           awaitAuthResponse |-> "AuthResponse", awaitAuthResult |-> "AuthOk",
           awaitRequest |-> "Request", awaitResponse |-> "Response",
           awaitConfirm |-> "Confirm"]
HandshakeWaits == {"awaitClientHello", "awaitServerHello", "awaitAuthResponse",
                   "awaitAuthResult"}
PairingWaits == {"awaitRequest", "awaitResponse", "awaitConfirm"}
Control == HandshakeWaits \cup PairingWaits \cup {"idle", "session", "confirming"}

VARIABLES driver,      \* the loop the server runs
          pc,          \* where each device is suspended
          state,       \* ActiveSession.state
          trust,       \* each device's stored TrustState of the other, or "none"
          link,        \* "up" or "down"
          net,         \* net[r]: frames in flight to r
          nonce,       \* the last pairing nonce each device drew
          sas,         \* PairingSession.sas of each device
          connections, \* connections opened so far
          confirmed,   \* history: SAS values each user approved
          delivered,   \* history: devices that applied data of the other
          unsaved      \* history: devices whose save_peer failed

vars == <<driver, pc, state, trust, link, net, nonce, sas, connections,
          confirmed, delivered, unsaved>>

history == <<confirmed, delivered, unsaved>>

Domains ==
    /\ driver \in ServerLoops
    /\ pc \in [Role -> Control]
    /\ state \in [Role -> SessionState]
    /\ trust \in [Role -> {"none", "Trusted", "Revoked"}]
    /\ link \in {"up", "down"}
    /\ net \in [Role -> Seq(Frame)]
    /\ nonce \in [Role -> Nonce]
    /\ sas \in [Role -> Sas]
    /\ connections \in 0..MaxConnections
    /\ confirmed \in [Role -> SUBSET Sas]
    /\ delivered \in SUBSET Role
    /\ unsaved \in SUBSET Role

\* The states of a session whose task is at c.
Fits(c, v) ==
    /\ c = "idle" => v = "Terminated"
    /\ c \in HandshakeWaits => v = "Handshaking"
    /\ c = "session" => v \in {"AuthenticatedUntrusted", "Pairing", "Trusted"}
    /\ c \in PairingWaits \cup {"confirming"} => v = "Pairing"

StateFollowsTask == \A r \in Role : Fits(pc[r], state[r])

\* Every variable has its type, and ActiveSession.state follows the task: Handshaking
\* in the handshake and Pairing throughout a ceremony (execute_pairing).
TypeOK == Domains /\ StateFollowsTask

Init ==
    /\ driver \in Drivers
    /\ pc = [r \in Role |-> "idle"]
    /\ state = [r \in Role |-> "Terminated"]
    /\ trust = [r \in Role |-> "none"]
    /\ link = "down"
    /\ net = [r \in Role |-> <<>>]
    /\ nonce = [r \in Role |-> 0]
    /\ sas = [r \in Role |-> [x \in Role |-> 0]]
    /\ connections = 0
    /\ confirmed = [r \in Role |-> {}]
    /\ delivered = {}
    /\ unsaved = {}

-----------------------------------------------------------------------------
(* The stream. *)

Ready(r) == net[r] # <<>>
Eof(r) == net[r] = <<>> /\ link = "down"
Incoming(r) == Head(net[r])

\* A queue after the writer appended f to it.
Sent(queue, f) == IF link = "up" THEN Append(queue, f) ELSE queue

\* r reads its first frame and writes nothing.
Consume(r) == net' = [net EXCEPT ![r] = Tail(@)]

\* r reads its first frame and writes f.
Reply(r, f) == net' = [net EXCEPT ![r] = Tail(@), ![Peer(r)] = Sent(@, f)]

\* r writes f.
Send(r, f) == net' = [net EXCEPT ![Peer(r)] = Sent(@, f)]

\* r drops its end, after writing nothing more: the other end reads a prefix of
\* the queue q it was left with, and then EOF.
Hangup(r, q) ==
    /\ pc' = [pc EXCEPT ![r] = "idle"]
    /\ state' = [state EXCEPT ![r] = "Terminated"]
    /\ link' = "down"
    /\ \E k \in 0..Len(q) : net' = [net EXCEPT ![r] = <<>>, ![Peer(r)] = SubSeq(q, 1, k)]

-----------------------------------------------------------------------------
(* Handshake. *)

\* TcpStream::connect and the accept loop, and client_handshake's ClientHello.
Connect ==
    /\ \A r \in Role : pc[r] = "idle"
    /\ connections < MaxConnections
    /\ connections' = connections + 1
    /\ link' = "up"
    /\ net' = [r \in Role |-> IF r = "server" THEN <<Signal("ClientHello")>> ELSE <<>>]
    /\ pc' = [r \in Role |-> IF r = "server" THEN "awaitClientHello" ELSE "awaitServerHello"]
    /\ state' = [r \in Role |-> "Handshaking"]
    /\ UNCHANGED <<driver, trust, nonce, sas, history>>

ServerHello ==
    /\ pc["server"] = "awaitClientHello"
    /\ Ready("server") /\ Incoming("server").type = "ClientHello"
    /\ Reply("server", Signal("ServerHello"))
    /\ pc' = [pc EXCEPT !["server"] = "awaitAuthResponse"]
    /\ UNCHANGED <<driver, state, trust, link, nonce, sas, connections, history>>

\* client_handshake always signs with the key its NodeId names; "invalid" stands
\* for a peer that presents a NodeId it has no key for.
ClientAuth ==
    /\ pc["client"] = "awaitServerHello"
    /\ Ready("client") /\ Incoming("client").type = "ServerHello"
    /\ \E sig \in {"valid", "invalid"} : Reply("client", AuthResponse(sig))
    /\ pc' = [pc EXCEPT !["client"] = "awaitAuthResult"]
    /\ UNCHANGED <<driver, state, trust, link, nonce, sas, connections, history>>

\* The state a session starts in after TrustStore::is_trusted answered Ok.
\* A stored key always equals the NodeId, so KeyMismatch does not arise.
InitialState(r) == IF trust[r] = "Trusted" THEN "Trusted" ELSE "AuthenticatedUntrusted"

ServerAuthResult ==
    /\ pc["server"] = "awaitAuthResponse"
    /\ Ready("server") /\ Incoming("server").type = "AuthResponse"
    /\ Incoming("server").signature = "valid"
    /\ trust["server"] # "Revoked"
    /\ Reply("server", Signal("AuthOk"))
    /\ pc' = [pc EXCEPT !["server"] = "session"]
    /\ state' = [state EXCEPT !["server"] = InitialState("server")]
    /\ UNCHANGED <<driver, trust, link, nonce, sas, connections, history>>

\* AuthResult::ok is already written when the store answers PeerRevoked.
ServerRefusesRevoked ==
    /\ pc["server"] = "awaitAuthResponse"
    /\ Ready("server") /\ Incoming("server").type = "AuthResponse"
    /\ Incoming("server").signature = "valid"
    /\ trust["server"] = "Revoked"
    /\ Hangup("server", Sent(Sent(net["client"], Signal("AuthOk")), Signal("Disconnect")))
    /\ UNCHANGED <<driver, trust, nonce, sas, connections, history>>

ServerRefusesSignature ==
    /\ pc["server"] = "awaitAuthResponse"
    /\ Ready("server") /\ Incoming("server").type = "AuthResponse"
    /\ Incoming("server").signature = "invalid"
    /\ Hangup("server", Sent(net["client"], Signal("AuthFailed")))
    /\ UNCHANGED <<driver, trust, nonce, sas, connections, history>>

ClientAuthenticated ==
    /\ pc["client"] = "awaitAuthResult"
    /\ Ready("client") /\ Incoming("client").type = "AuthOk"
    /\ trust["client"] # "Revoked"
    /\ Consume("client")
    /\ pc' = [pc EXCEPT !["client"] = "session"]
    /\ state' = [state EXCEPT !["client"] = InitialState("client")]
    /\ UNCHANGED <<driver, trust, link, nonce, sas, connections, history>>

ClientRefusesRevoked ==
    /\ pc["client"] = "awaitAuthResult"
    /\ Ready("client") /\ Incoming("client").type = "AuthOk"
    /\ trust["client"] = "Revoked"
    /\ Hangup("client", Sent(net["server"], Signal("Disconnect")))
    /\ UNCHANGED <<driver, trust, nonce, sas, connections, history>>

\* EOF, or a frame other than the one the handshake expects (AuthResult::failed too).
HandshakeFails(r) ==
    /\ pc[r] \in HandshakeWaits
    /\ IF Ready(r) THEN Incoming(r).type # Awaits[pc[r]] ELSE Eof(r)
    /\ Hangup(r, net[Peer(r)])
    /\ UNCHANGED <<driver, trust, nonce, sas, connections, history>>

-----------------------------------------------------------------------------
(* The pairing ceremony: ActiveSession::execute_pairing. *)

\* Mutant: the initiator's half forgets to enter SessionState::Pairing.
StartPairingUnmarked ==
    /\ pc["client"] = "session"
    /\ nonce["client"] < MaxCeremonies
    /\ nonce' = [nonce EXCEPT !["client"] = @ + 1]
    /\ Send("client", PairingRequest(nonce["client"] + 1))
    /\ pc' = [pc EXCEPT !["client"] = "awaitResponse"]
    /\ UNCHANGED <<driver, state, trust, link, sas, connections, history>>

\* Initiator, up to the first await.
StartPairing ==
    /\ pc["client"] = "session"
    /\ nonce["client"] < MaxCeremonies
    /\ nonce' = [nonce EXCEPT !["client"] = @ + 1]
    /\ state' = [state EXCEPT !["client"] = "Pairing"]
    /\ Send("client", PairingRequest(nonce["client"] + 1))
    /\ pc' = [pc EXCEPT !["client"] = "awaitResponse"]
    /\ UNCHANGED <<driver, trust, link, sas, connections, history>>

\* Responder, called by an application built on the library.
StartResponder ==
    /\ driver = "library"
    /\ pc["server"] = "session"
    /\ state' = [state EXCEPT !["server"] = "Pairing"]
    /\ pc' = [pc EXCEPT !["server"] = "awaitRequest"]
    /\ UNCHANGED <<driver, trust, link, net, nonce, sas, connections, history>>

\* recv_data_frame: other channels are skipped and pings answered.
SkipFrame(r) ==
    /\ pc[r] \in PairingWaits
    /\ Ready(r) /\ Incoming(r).type \notin PairingTypes \cup {"Disconnect"}
    /\ IF Incoming(r).type = "Ping" THEN Reply(r, Signal("Pong")) ELSE Consume(r)
    /\ UNCHANGED <<driver, pc, state, trust, link, nonce, sas, connections, history>>

\* recv_data_frame fails on EOF; state stays Pairing.
PairingEof(r) ==
    /\ pc[r] \in PairingWaits
    /\ Eof(r)
    /\ pc' = [pc EXCEPT ![r] = "session"]
    /\ UNCHANGED <<driver, state, trust, link, net, nonce, sas, connections, history>>

\* A Disconnect, the peer's Failed or a message of another step ends the
\* ceremony with an error; state stays Pairing.
PairingAborted(r) ==
    /\ pc[r] \in PairingWaits
    /\ Ready(r)
    /\ Incoming(r).type \in (PairingTypes \cup {"Disconnect"}) \ {Awaits[pc[r]]}
    /\ Consume(r)
    /\ pc' = [pc EXCEPT ![r] = "session"]
    /\ UNCHANGED <<driver, state, trust, link, nonce, sas, connections, history>>

\* new_responder and initiator_receive_response refuse a key that is invalid or not
\* the NodeId's; state stays Pairing.  Every device sends its own, so only an altered
\* message (nonce 0) can carry another.
IdentityRefused(r) ==
    /\ pc[r] \in {"awaitRequest", "awaitResponse"}
    /\ Ready(r) /\ Incoming(r).type = Awaits[pc[r]]
    /\ Incoming(r).nonce = 0
    /\ Consume(r)
    /\ pc' = [pc EXCEPT ![r] = "session"]
    /\ UNCHANGED <<driver, state, trust, link, nonce, sas, connections, history>>

\* PairingSession::new_responder and the Response.
ReceiveRequest ==
    /\ pc["server"] = "awaitRequest"
    /\ Ready("server") /\ Incoming("server").type = "Request"
    /\ nonce["server"] < MaxCeremonies
    /\ nonce' = [nonce EXCEPT !["server"] = @ + 1]
    /\ sas' = [sas EXCEPT !["server"] =
                 derive("server", nonce["server"] + 1, Incoming("server").nonce)]
    /\ Reply("server", PairingResponse(nonce["server"] + 1))
    /\ pc' = [pc EXCEPT !["server"] = "confirming"]
    /\ UNCHANGED <<driver, state, trust, link, connections, history>>

\* PairingSession::initiator_receive_response.
ReceiveResponse ==
    /\ pc["client"] = "awaitResponse"
    /\ Ready("client") /\ Incoming("client").type = "Response"
    /\ sas' = [sas EXCEPT !["client"] =
                 derive("client", nonce["client"], Incoming("client").nonce)]
    /\ Consume("client")
    /\ pc' = [pc EXCEPT !["client"] = "confirming"]
    /\ UNCHANGED <<driver, state, trust, link, nonce, connections, history>>

\* The user answers yes: PairingSession::confirm signs the SAS and both nonces.
UserConfirms(r) ==
    /\ pc[r] = "confirming"
    /\ confirmed' = [confirmed EXCEPT ![r] = @ \cup {sas[r]}]
    /\ Send(r, PairingConfirm(sas[r]))
    /\ pc' = [pc EXCEPT ![r] = "awaitConfirm"]
    /\ UNCHANGED <<driver, state, trust, link, nonce, sas, connections, delivered, unsaved>>

\* Mutant: a rejection that is not told to the peer.
UserRejectsSilently(r) ==
    /\ pc[r] = "confirming"
    /\ state' = [state EXCEPT ![r] = "AuthenticatedUntrusted"]
    /\ pc' = [pc EXCEPT ![r] = "session"]
    /\ UNCHANGED <<driver, trust, link, net, nonce, sas, connections, history>>

UserRejects(r) ==
    /\ pc[r] = "confirming"
    /\ Send(r, Signal("Failed"))
    /\ state' = [state EXCEPT ![r] = "AuthenticatedUntrusted"]
    /\ pc' = [pc EXCEPT ![r] = "session"]
    /\ UNCHANGED <<driver, trust, link, nonce, sas, connections, history>>

\* Mutant: any well-formed confirmation is accepted.
finalizeUnverified(r, f) == f.sas \in Sas

\* PairingSession::finalize verifies the signature against this ceremony's SAS
\* and nonces.
finalize(r, f) == f.sas = sas[r]

\* Mutant: the responder's copy of the last step forgets save_peer.
PairingSucceedsUnsaved(r) ==
    /\ pc[r] = "awaitConfirm"
    /\ Ready(r) /\ Incoming(r).type = "Confirm"
    /\ finalize(r, Incoming(r))
    /\ Consume(r)
    /\ trust' = IF r = "server" THEN trust ELSE [trust EXCEPT ![r] = "Trusted"]
    /\ state' = [state EXCEPT ![r] = "Trusted"]
    /\ pc' = [pc EXCEPT ![r] = "session"]
    /\ UNCHANGED <<driver, link, nonce, sas, connections, history>>

\* save_peer overwrites whatever the store held.
PairingSucceeds(r) ==
    /\ pc[r] = "awaitConfirm"
    /\ Ready(r) /\ Incoming(r).type = "Confirm"
    /\ finalize(r, Incoming(r))
    /\ Consume(r)
    /\ trust' = [trust EXCEPT ![r] = "Trusted"]
    /\ state' = [state EXCEPT ![r] = "Trusted"]
    /\ pc' = [pc EXCEPT ![r] = "session"]
    /\ UNCHANGED <<driver, link, nonce, sas, connections, history>>

\* The store refuses the write: execute_pairing returns the error of save_peer with
\* the Confirm read and the session still Pairing.  The node logs it and reads on.
SaveFails(r) ==
    /\ pc[r] = "awaitConfirm"
    /\ Ready(r) /\ Incoming(r).type = "Confirm"
    /\ finalize(r, Incoming(r))
    /\ Consume(r)
    /\ unsaved' = unsaved \cup {r}
    /\ pc' = [pc EXCEPT ![r] = "session"]
    /\ UNCHANGED <<driver, state, trust, link, nonce, sas, connections, confirmed, delivered>>

ConfirmMismatch(r) ==
    /\ pc[r] = "awaitConfirm"
    /\ Ready(r) /\ Incoming(r).type = "Confirm"
    /\ ~ finalize(r, Incoming(r))
    /\ Consume(r)
    /\ pc' = [pc EXCEPT ![r] = "session"]
    /\ UNCHANGED <<driver, state, trust, link, nonce, sas, connections, history>>

-----------------------------------------------------------------------------
(* The frame loops: process_next_frame, and handle_connection on a node. *)

\* Frames both loops treat alike: Pong, handshake frames and, in the library, pairing
\* frames and transfer frames other than an Offer are dropped; Ping is answered.
LoopFrame(r) ==
    /\ pc[r] = "session"
    /\ Ready(r)
    /\ Incoming(r).type \notin {"Clipboard", "Offer", "Disconnect"}
    /\ r = "server" /\ driver = "node" => Incoming(r).type \notin PairingTypes
    /\ IF Incoming(r).type = "Ping" THEN Reply(r, Signal("Pong")) ELSE Consume(r)
    /\ UNCHANGED <<driver, pc, state, trust, link, nonce, sas, connections, history>>

\* Mutant: a session that is pairing already passes data.
AppliesDataEarly(r) == state[r] \in {"Pairing", "Trusted"}

\* Application data passes only when the session is trusted.
AppliesData(r) == state[r] = "Trusted"

LoopClipboard(r) ==
    /\ pc[r] = "session"
    /\ Ready(r) /\ Incoming(r).type = "Clipboard"
    /\ delivered' = IF AppliesData(r) THEN delivered \cup {r} ELSE delivered
    /\ Consume(r)
    /\ UNCHANGED <<driver, pc, state, trust, link, nonce, sas, connections, confirmed, unsaved>>

\* The library's handle_file_transfer_frame opens the .part file and accepts.  It keeps
\* no receiver, so the chunks that follow are dropped (LoopFrame).
LoopOffer ==
    /\ driver = "library"
    /\ pc["server"] = "session"
    /\ Ready("server") /\ Incoming("server").type = "Offer"
    /\ IF AppliesData("server")
       THEN Reply("server", Signal("Accept")) /\ delivered' = delivered \cup {"server"}
       ELSE Consume("server") /\ UNCHANGED delivered
    /\ UNCHANGED <<driver, pc, state, trust, link, nonce, sas, connections, confirmed, unsaved>>

\* to_dir fails, process_next_frame returns the error and the session is dropped.
LoopOfferFails ==
    /\ driver = "library"
    /\ pc["server"] = "session"
    /\ Ready("server") /\ Incoming("server").type = "Offer"
    /\ AppliesData("server")
    /\ Hangup("server", net["client"])
    /\ UNCHANGED <<driver, trust, nonce, sas, connections, history>>

\* handle_connection reads any frame of the pairing channel and then starts the
\* responder, which awaits a Request of its own.
NodePairingFrame ==
    /\ driver = "node"
    /\ pc["server"] = "session"
    /\ Ready("server") /\ Incoming("server").type \in PairingTypes
    /\ Consume("server")
    /\ state' = [state EXCEPT !["server"] = "Pairing"]
    /\ pc' = [pc EXCEPT !["server"] = "awaitRequest"]
    /\ UNCHANGED <<driver, trust, link, nonce, sas, connections, history>>

\* EOF or Disconnect ends the loop and the session is dropped.
LoopEnds(r) ==
    /\ pc[r] = "session"
    /\ IF Ready(r) THEN Incoming(r).type = "Disconnect" ELSE Eof(r)
    /\ Hangup(r, net[Peer(r)])
    /\ UNCHANGED <<driver, trust, nonce, sas, connections, history>>

Room == Len(net["client"]) + Len(net["server"]) < MaxInFlight

\* A node forwards clipboard updates to trusted sessions only; the client's
\* writer leaves the decision to the receiver.
SendsClipboard(r) == r = "server" => driver = "node" /\ state[r] = "Trusted"

SendClipboard(r) ==
    /\ pc[r] = "session"
    /\ SendsClipboard(r)
    /\ Room
    /\ Send(r, Signal("Clipboard"))
    /\ UNCHANGED <<driver, pc, state, trust, link, nonce, sas, connections, history>>

\* An Offer to the library's loop; what a node does with one is in Transfer.
SendOffer ==
    /\ driver = "library"
    /\ pc["client"] = "session"
    /\ Room
    /\ Send("client", Signal("Offer"))
    /\ UNCHANGED <<driver, pc, state, trust, link, nonce, sas, connections, history>>

SendPing ==
    /\ pc["client"] = "session"
    /\ Room
    /\ Send("client", Signal("Ping"))
    /\ UNCHANGED <<driver, pc, state, trust, link, nonce, sas, connections, history>>

-----------------------------------------------------------------------------
(* The environment. *)

\* The process exits or crashes, or its task is dropped, at any point.
Close(r) ==
    /\ pc[r] # "idle"
    /\ Hangup(r, net[Peer(r)])
    /\ UNCHANGED <<driver, trust, nonce, sas, connections, history>>

LinkLoss ==
    /\ link = "up"
    /\ link' = "down"
    /\ \E k \in 0..Len(net["client"]), m \in 0..Len(net["server"]) :
         net' = [net EXCEPT !["client"] = SubSeq(@, 1, k), !["server"] = SubSeq(@, 1, m)]
    /\ UNCHANGED <<driver, pc, state, trust, nonce, sas, connections, history>>

\* A Request or a Response arrives other than it was sent (0 is a nonce nobody drew):
\* pairing frames are not authenticated, the SAS exists to reveal this.
AlterNonce(r) ==
    /\ \E i \in DOMAIN net[r] :
         /\ net[r][i].type \in {"Request", "Response"}
         /\ net' = [net EXCEPT ![r][i].nonce = 0]
    /\ UNCHANGED <<driver, pc, state, trust, link, nonce, sas, connections, history>>

\* `bridge-cli trust revoke`, a process of its own on the same database.
\* An UPDATE that matches no row changes nothing.
Revoke(r) ==
    /\ trust[r] # "none"
    /\ trust' = [trust EXCEPT ![r] = "Revoked"]
    /\ UNCHANGED <<driver, pc, state, link, net, nonce, sas, connections, history>>

-----------------------------------------------------------------------------
\* What the task of either role does with the next frame.
Receives(r) ==
    \/ HandshakeFails(r)
    \/ SkipFrame(r) \/ PairingEof(r) \/ PairingAborted(r) \/ IdentityRefused(r)
    \/ PairingSucceeds(r) \/ SaveFails(r) \/ ConfirmMismatch(r)
    \/ LoopFrame(r) \/ LoopClipboard(r) \/ LoopEnds(r)

ClientStep ==
    \/ ClientAuth \/ ClientAuthenticated \/ ClientRefusesRevoked
    \/ ReceiveResponse
    \/ Receives("client")

ServerStep ==
    \/ ServerHello \/ ServerAuthResult \/ ServerRefusesRevoked \/ ServerRefusesSignature
    \/ ReceiveRequest \/ NodePairingFrame \/ LoopOffer \/ LoopOfferFails
    \/ Receives("server")

UserAnswers(r) == UserConfirms(r) \/ UserRejects(r)

Environment ==
    \/ Connect \/ StartPairing \/ StartResponder \/ LinkLoss
    \/ \E r \in Role : Close(r) \/ AlterNonce(r) \/ Revoke(r) \/ SendClipboard(r)
    \/ SendPing \/ SendOffer

Next == ClientStep \/ ServerStep \/ (\E r \in Role : UserAnswers(r)) \/ Environment

Spec == Init /\ [][Next]_vars

\* run_pair returns the error of a failed ceremony and the process exits.
GivesUp ==
    /\ pc["client"] = "session"
    /\ state["client"] = "Pairing"
    /\ Close("client")

\* The runtime polls every task that can run, and a user who is asked answers.
\* Nothing obliges anyone to connect, to pair, to send or to close.
Fairness ==
    /\ WF_vars(ClientStep)
    /\ WF_vars(ServerStep)
    /\ \A r \in Role : WF_vars(UserAnswers(r))
    /\ WF_vars(GivesUp)

FairSpec == Spec /\ Fairness

-----------------------------------------------------------------------------
(* Properties. *)

BothConfirmed == \E s \in Sas : \A r \in Role : s \in confirmed[r]

\* A device holds a record of the other, or treats a session as trusted, only
\* after the users of both devices approved one and the same PIN (save_peer and
\* the state changes of execute_pairing and of the handshake).
MutualConfirmation ==
    \A r \in Role : trust[r] # "none" \/ state[r] = "Trusted" => BothConfirmed

\* A ceremony of r got as far as save_peer.
Verified(r) == trust[r] # "none" \/ r \in unsaved

\* Without a lost connection the two devices agree: when neither awaits the other's
\* Confirm, both got as far as save_peer or neither did, so that one holds a record and
\* the other none only when the other's own save_peer failed (execute_pairing sends its
\* Confirm before it awaits the other's, finalize compares with the same SAS on both
\* sides, and handle_connection only logs a ceremony that failed).
CeremonyAgreement ==
    /\ connections = 1 /\ link = "up"
    /\ \A r \in Role : pc[r] # "awaitConfirm"
    => (Verified("client") <=> Verified("server"))

\* The code implements what pairing promises.
Contract == INSTANCE TrustContract
    WITH Role <- Role, Sas <- Sas, confirmed <- confirmed, trust <- trust, delivered <- delivered
ImplementsContract == Contract!Spec

\* A device that sent its Confirm does not wait for the other's forever: the other
\* user answers, or the initiator gives up and the stream ends.
ConfirmAnswered == \A r \in Role : pc[r] = "awaitConfirm" ~> pc[r] # "awaitConfirm"

\* Once `pair` has sent its Request the ceremony goes on: the PIN is shown, or the
\* attempt ends (README.md, quickstart step 3; client.rs run_pair against a node).
InitiatorAnswered == pc["client"] = "awaitResponse" ~> pc["client"] # "awaitResponse"

\* A device that revoked the other applies no further clipboard data of it
\* (README.md on `trust revoke`; the gate of handle_connection).
RevokedIsBlocked ==
    [][\A r \in Role : trust[r] = "Revoked" => (r \in delivered' => r \in delivered)]_vars
=============================================================================
