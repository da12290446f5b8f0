# BridgeOS in TLA+

BridgeOS connects a person's devices: nodes find each other on the local network,
authenticate, pair by comparing a six-digit PIN, and then share clipboards, files and
notifications. This directory holds TLA+ models of its protocols and tasks, TLC
configurations that check them on small instances, and TLAPS proofs of the results
that matter most. Paths below are relative to `src/`.

## The system

| part | code | module |
|---|---|---|
| handshake, trust consult, frame loop | `crates/bridge-session` | `Session` |
| SAS pairing, trust store | `crates/bridge-identity/src/{pairing,trust}.rs` | `Session`, `TrustContract` |
| node: accept loop, registry, broadcaster | `tools/bridge-cli/src/node.rs` | `Node` |
| client commands | `tools/bridge-cli/src/client.rs` | `Session`, `Transfer` |
| file transfer | `crates/bridge-transfer` | `Transfer` |
| clipboard engine, echo guard, backends | `crates/bridge-clipboard` | `Clipboard` |
| notification mirroring | `crates/bridge-notifications` | `Notifications` |
| discovery (UDP, mDNS, directory) | `crates/bridge-discovery` | `Discovery` |
| framing and codec | `crates/bridge-protocol/src/codec.rs`, `crates/bridge-transport` | `Framing`, `FrameChannel`; whole frames in `Session` |
| key file | `crates/bridge-identity/src/{keys,storage}.rs` | not modelled |
| core types, argument parsing | `crates/bridge-core`, `tools/bridge-cli/src/{lib,main}.rs` | no behaviour over time |

How the parts meet: a node runs one task per connection (`handle_connection`). The task
does the handshake, asks the trust store, and then dispatches frames: pairing frames
start the responder, clipboard frames go to the clipboard engine, an Offer starts
`handle_file_transfer`. One more task, the broadcaster, takes local clipboard events
from the engine and puts them into the outbound channel of every registered session.
All frames pass through `FramedStream`, which `Session`, `Node` and `Transfer` take for a
FIFO channel of whole frames and `Framing` takes apart. Discovery runs beside all this and
tells the node which peers there are.
The notification engine is a library that the node does not call yet.

## Modules

**Session** has one client and one server, one connection at a time. `pc[r]` is the
receive a task is suspended in, `state[r]` is `ActiveSession.state`, `trust[r]` the
database record, `net[r]` the frames on their way to `r`. Each action runs from one await
to the next. Both server loops are modelled: `driver = "library"` is
`process_next_frame`, `"node"` is `handle_connection`. A SAS is the pair of nonces it is
derived from, and a signed confirmation is the SAS it signs. An Offer sent to the library's
loop is accepted if the session is trusted and ignored otherwise (`LoopOffer`), or ends the
session when the file cannot be opened (`LoopOfferFails`); what a node does with one is in
`Transfer`. `AlterNonce` replaces a nonce
in flight, which is what the SAS comparison exists for; the receiver of an altered message
may also refuse the key in it (`IdentityRefused`). `save_peer` may fail (`SaveFails`): the
ceremony then ends with an error that the node only logs, and `unsaved` remembers it.
`LinkLoss`, `Close` and `Revoke` can happen at any time.

**TrustContract** says what pairing promises with no wire in it: trust is recorded and
data applied only after both users approved one SAS. `Session` implements it, variable by
variable.

**Node** has the session tasks, the registry with its fair mutex (`waiters`), and the
broadcaster, which keeps the mutex while it awaits room in a channel. Handshake, ceremony
and transfer are steps with an outcome here; `Session` and `Transfer` have their insides.
Writing to a peer is a step that begins (`Forward`, `ReadPing`) and one that ends
(`ForwardEnds`, `PongEnds`), and the second may never come: `send_frame` waits for as long as
the peer does not read.

**Transfer** has attempts to send a file under one name, each with a connection, one after
another or at the same time (`node.rs:240` gives every connection a task). Files on
the node are sequences of bytes and survive crashes; `handle` and `part` distinguish an
open file from its name. Chunk arithmetic is that of the manifest. A hash stands for what
it is computed over. Three variables record history: `shared` (two receivers had the `.part`
open at the same time; it is named after the file only), `stored` (the attempts whose
receiver renamed the file) and `latest` (the last of them). The source file may be edited as
long as a chunk of it is still to be read.

**Clipboard** has, per node, the OS clipboard, the listener, the monitor task, the engine
and the echo guard. The guard's check and its record are separate steps, as are its record
and `set_content`, which the connections of several peers reach at the same time
(`applying[n][m]`). `ReadBack` is what a backend reports after a content was set: the
Windows backend turns HTML into text. A read may also give nothing (`NotifyNothing`).
`converted` and `sent` record what a node's backend turned a peer's content into, and what
the node sent.

**Notifications** has devices that post and dismiss, and the engine of one that mirrors
them: the guard's hash cache, state map and ring, and the buckets. `compute_hash` puts
`app_id`, `title` and `text` together without separators and leaves out the other fields, so
it is an arbitrary function of the content here (`HashOf`): two contents of one notification
may have the same hash.

**Discovery** has nodes with one `UnifiedDiscovery` each: an mDNS service, a UDP service or
both, each with a worker task, over one `PeerDirectory`. `call[n]` is where the
application's call (advertise and start, stop advertising, shutdown) is suspended;
`worker[n][s]` is a service's task, `directory[n]` the age of each entry in seconds.
Beacons, goodbyes and queries are datagrams in `net`: lost when they are sent or when they
are late, delivered up to twice, in any order. The mdns-sd daemon is external and appears
as the events it hands to its browser. `Tick` lets a second pass. The abstractions:

* What takes less than a second in practice (a call, serving a ticker, a send) is done
  before the second ends, and a datagram arrives at most a second late (`Prompt`, `Tick`).
* A prune that could remove nothing, and the ticker of a node that never advertises, are
  skipped. The start query is sent when the UDP worker starts.
* A beacon's sequence number is left out: receivers ignore it. So are names and addresses.
* A program advertises before it starts and ends after its shutdown, as `run_node` does.
* Only UDP workers fail: the daemon's channel closes with the daemon only. Clock jumps are
  left out.

**Framing** has one direction of a connection, byte by byte. A byte is a position in a
frame. `recv_frame` holds what it has read in its locals (`held`, `length`); when `select!`
drops the call, those bytes are gone (`torn`), and a header read from the wrong place is
made of arbitrary bytes. **FrameChannel** is what callers are promised: whole frames, in
order, once each, until a call is dropped inside a frame.

`MC*` modules give the constants their values. `SessionProofs`, `NotificationsProofs`,
`FramingProofs`, `NodeProofs`, `DiscoveryProofs`, `DiscoveryTiming`, `ClipboardProofs` and
`TransferProofs` hold the proofs. Operators marked "Mutant" are plausible bugs, each next to
the definition it would replace; with it, the property it is meant for is violated.

## Runs

| run | result | states | what it shows |
|---|---|---|---|
| `session` | holds | 161 k | trust follows two approvals of one PIN, the devices agree while the link is up unless a save failed, the contract is implemented, a confirmation is always answered |
| `session_pair` | violated | | `pair` against a node hangs |
| `session_revoke` | violated | | revocation does not reach a live session |
| `node` | holds | 693 k | each connection gets events in order and no peer gets one twice, no entry is left by an orderly end, a trusted session is out of reach only through another connection of its peer, a round stalls only in three named ways |
| `node_cycle` | violated | | broadcaster and session wait for each other |
| `transfer` | holds | 284 k | until two receivers share the `.part`, the final file is what was offered, success means stored and failures have a cause; attempts end in any case |
| `transfer_resume` | violated | | chunks of another version are resumed |
| `clipboard` | holds | 470 k | a node sends its own copies or what its backend converted, nothing twice; updates arrive, only known ones are dropped |
| `notifications` | holds | 1.2 M | guard and mirror stay in step, nothing lingers, what is shown is mirrored up to its hash, dismissal lasts |
| `notifications_repost` | violated | | a re-post after a dismissal is suppressed |
| `discovery` | holds | 226 k | no node lists itself, a beaconing peer is not expired, a departed one is forgotten, every call returns |
| `framing` | holds | 51 k | the stream is a channel of whole frames until a call is dropped inside one, failures have a cause, frames arrive |

The violated runs each check one sentence of the repository's documents or comments;
`PROJECT.json` quotes it. More differences were met that have no run of their own. They
appear as exceptions that a property names:

* The end of one connection unregisters another of the same peer (`node.rs:400`). A
  connection that replaced the entry of another and then left by `?` (`node.rs:373`) leaves a
  dead entry, and the other, trusted and in its loop, gets nothing. `TrustedPeerRegistered`
  says that there are no other ways.
* Two connections of one peer are not ordered with each other: an event queued for the first
  can arrive after a later one that went through the second. `EventsInOrder` is per
  connection; over the connections of a peer it says that no event is sent twice.
* A peer that does not read what it is sent stalls the broadcaster for all others
  (`node.rs:331`, `394`). It is one of the three ways in `RoundEndsOrStuck`.
* A device whose `save_peer` fails has no record while the other has one, on a link that
  stays up. `CeremonyAgreement` says that nothing else separates them.
* An HTML content that the Windows backend applied is read back as text (`windows.rs:199`),
  which the guard does not know, and goes out once as a copy of that node. `README.md:143`
  promises "zero echo loops"; there is no loop, since the text is known from then on.
  `EchoFree` makes this exception only.
* Two contents with one `compute_hash` are one to the guard, whose comment speaks of
  "identical content" (`guard.rs:13`): an update that moves a word from text to title is
  suppressed. `CompleteWithinCapacity` holds up to the hash.
* Two transfers of one name at the same time mix their bytes in one `.part`. The transfer
  properties hold until two receivers have it open.
* Copying something again is not sent while the guard remembers it, and a guard that has
  forgotten lets an old content come back; `CopiesArrive` therefore speaks of new contents and
  of guards that have not evicted.
* `recv_frame` promises `Ok(None)` when the peer closed "cleanly at a frame boundary"
  (`framed.rs:24`) and gives it for an end inside a header as well. `NothingLostAtEnd` says
  what remains true: no whole frame is lost.

No run checks for deadlock: every one of these systems may come to rest (bounds used up,
connections closed). Waiting that should end is stated as a liveness property instead.

### Bounds, and why they are enough

* `session`: two ceremonies and two connections. A frame of an aborted ceremony meets the
  next ceremony on the same connection, and a second connection starts from the records
  the first one left. One application frame in flight at a time; pairing frames are not
  limited.
* `node`: two sessions of one or two peers, so that an entry is shared, replaced and
  removed; channels of one event and three events, so that a channel fills, the broadcast
  channel overflows and a later event passes an earlier one.
* `transfer`: chunks of two bytes with files of three, two and zero: a short last chunk, a
  full last chunk, no chunk. Two attempts, so that every kind of `.part` the first leaves
  meets every offer; they overlap in every way, with two receivers in one `.part` included.
  The attempts are alike, so one order of their initial states is enough (`MCFairSpec`).
* `clipboard`: two nodes, four contents (two texts, one that is converted, one that is
  blocked), a guard of two hashes and a channel of one, so that both overflow; three
  copies, one restart.
* `notifications`: three ids against a ring and buckets of two, so that both evict; four
  messages of one device and one of the other. Five contents have three hashes, so that an
  update is confused with what it updates, blocked or not. Ids are symmetric.
* `discovery`: two nodes, one that advertises and leaves and one that looks, in each mode;
  the default intervals of 2, 6 and 5 seconds, at which two beacons and a second of delay
  just fit into the mDNS TTL; two datagrams in flight, one when both services run, and one
  unread mDNS event.
* `framing`: three frames with payloads of every length from one to one above the limit
  (`encode_frame` never writes an empty one) and a header of three bytes, so that a piece of the stream, its end and a dropped call fall at
  every kind of place.

### Fairness, and why the code justifies it

The safety properties do not depend on it.

* `Session!Fairness`: a task that has a frame or EOF to read runs (tokio polls it), a user
  who is asked answers, and the client process exits after a failed ceremony (`run_pair`
  returns the error). Nobody has to connect, pair, send or close.
* `Node!Fairness`: the broadcaster and the holders of the mutex's next turn run; a session
  in its loop does not pass over its outbound channel forever (`select!` polls its branches
  in random order), hence strong fairness of `Forward`, which begins to write. Nothing is
  assumed of what takes the peer (`PeerActs`): ceremonies, transfers and writes wait for it
  without a timeout. `PatientSpec`, in `node_cycle` only, adds that peers finish and read:
  the wait cycle exists even then.
* `Transfer!FairSpec`: both tasks run when they can. As in `Session`, a lost connection is
  seen as an end of the stream by the side that reads; the code has no timeout of its own.
* `Discovery!Fairness`: time passes, and what has to happen within a second happens
  (`Urgent`). Applications call when they like, and no datagram has to arrive.
* `Framing!FairSpec`: the receiver is polled when bytes, the end or an error are there. The
  sender may stop anywhere.

## Proofs

TLC's instances have two of everything; the theorems hold for every value of the
constants that satisfies the named assumptions (`SessionConstants` and so on, in the module
that declares the constants, evaluated by TLC in every run). Some results have one more
hypothesis: `Intervals` in `DiscoveryTiming`, and for `MirrorIsComplete` the assumption `BucketHoldsRing` of `Notifications`. Every invariant has
the module's `TypeOK` as a conjunct, and that is a theorem of its own.

Every invariant and action property that a passing run checks is a theorem; so are the two
refinements.

| module | theorems beyond types | property |
|---|---|---|
| `SessionProofs` | `TrustNeedsBothUsers`, `CeremoniesAgree`, `SessionImplementsContract` | `MutualConfirmation`, `CeremonyAgreement`, `ImplementsContract` |
| `NotificationsProofs` | `GuardStaysConsistent`, `DismissalIsFinal`, `GuardAndMirrorAgree`, `NoNotificationLingers`, `MirrorIsComplete` | `GuardConsistent`, `DismissedStaysDismissed`, `MirrorMatchesGuard`, `NothingLingers`, `CompleteWithinCapacity` |
| `FramingProofs` | `EndLosesNothing`, `NoFailureWithoutCause`, `FramingImplementsChannel` | `NothingLostAtEnd`, `FailureHasCause`, `ImplementsChannel` |
| `NodeProofs` | `EventsStayInOrder`, `ClosedLeavesNoEntry`, `TrustedPeerReachable` | `EventsInOrder`, `NoDanglingEntry`, `TrustedPeerRegistered` |
| `DiscoveryProofs` | `NoNodeListsItself` | `NeverListsSelf` |
| `DiscoveryTiming` | `BeaconingPeersStay` | `ExpiryNeedsSilence` |
| `ClipboardProofs` | `NoEcho`, `OnlyKnownDropped`, `CopiesReachEveryNode` | `EchoFree`, `DropsOnlyKnown`, `CopiesArrive` |
| `TransferProofs` | `FinalIsOffered`, `SuccessMeansStored`, `FaultsExplainFailures`, `NobodyWaitsInVain` | `FinalVerified`, `CompleteMeansStored`, `FailsOnlyByFault`, `NoMutualWait` |

**Session.** `MutualConfirmation` is not inductive: when `finalize` accepts a frame it
compares it with the device's own SAS, and for that to mean two approvals two things have
to be known. `Provenance`: every Confirm in flight carries a SAS its sender's user approved.
`OwnConfirmed`: a device that awaits a Confirm has its own user's approval. There is one
lemma per group of actions, and one per way a queue changes. The refinement uses the
invariant at the steps that record trust or apply data.

`TypeOK` of `Session` also says that `state` follows the task, which is proved on its own
(`NextFollows`) from the way `pc` moves.

`CeremonyAgreement` speaks of the first connection while it is up, and of ceremonies that got
as far as `save_peer` (`Verified`), whether it then succeeded or not. Its invariant is
`AgreementInv`, over the frames in flight that a ceremony does not skip (`Due`). At its centre
is `ApprovedIsDue`: once both users approved one SAS, each device is `Verified` or is about to
read the other's Confirm of that SAS, with nothing before it. This has to be known before the
second user answers (`OtherApproved`, `BothAsked`) and before the client has derived its SAS
(`AnswerApproved`, `AnswerAsked`). That frames of an aborted ceremony do not interfere follows
from the nonces: an approved SAS with a device's last nonce is the SAS of its current ceremony
(`ApprovedDrawn`).

**Notifications.** The ring, the state map and the hash cache are kept in step by
`record_posted`, whose case of a new key relies on the engine having refused dismissed keys
before. `DismissalIsFinal` needs `NoneForgotten`: while no more keys were let through than
the ring holds, the tracked keys are exactly those, so the ring cannot be full when a new
one comes.

The mirror needs more. `NothingLingers` holds of a Post under way as well (`PostsCovered`): it
is shown by its origin, or a later message of the same queue takes it away. Completeness
follows each key from the screen to the mirror (`LatestInv`): what is shown is blocked or was
dismissed before, or is in the last Post of that id under way, or no Post of it is under way
and the mirror has a content with its hash (`Holds`). Nothing is assumed of the hash function.
For the last case to survive, a bucket may not evict what the ring keeps: it has one entry per
id and only entries that were let through (`BucketInv`), and has room for them by
`BucketHoldsRing`. The two limits are separate literals in the code (`guard.rs:7`,
`engine.rs:170`), both 256; the theorem says what a change of one of them would cost.

**Framing.** `CallInv`: a call that began at a frame's first byte holds exactly the bytes of
that frame read so far, and the length in its header is the frame's. `OrderInv`: until a
call is dropped inside a frame, each call begins where the last one stopped. With these,
`ReturnFrame` is a `Deliver` of the abstract channel.

**Node.** `QueueInv`, `RoundInv` and `OldInv` order everything on an event's way: what a
session wrote, what its channel holds, the broadcaster's frame and what is still in the
broadcast channel are each older than the next. `OnceInv`: connections of one peer have no
event in common, since a round sends to one entry per peer. `ReachInv` extends
`TrustedPeerRegistered` to sessions that write or are in a transfer, which come back to their
loop.

**Discovery.** A worker recognises its own beacons by the identity its service was given, so
`IdInv` says that whatever carries the identity of a living node (a beacon, a record, a
registration) came after that service got it. `DiscoveryTiming` bounds ages under
`Intervals`: two beacon intervals and a second fit into either TTL, as they just do with the
defaults. `AgeInv` accounts for an entry's age by the losses since the last beacon, the time
to the next one, and a beacon under way in its first or its second second.

**Clipboard.** `EchoInv` follows a peer's content from the connection through
`set_content`, listener and queue: at each place it is in the guard's history or is the
node's own to send, copied by its user or converted by its backend (`Sendable`). What it sent
is in its history, so nothing is sent twice. `CleanInv` carries this to the links. `SeqInv`: without restarts, sequence numbers rise from what the
receiver has seen, along the link, to the sender's counter.

`CopiesArrive` is about a state where nothing is under way, so its invariant has to say where
everything is before. `FlowInv`: as long as only one user copies, nothing fails and no guard
forgets, there is a numbering of that user's copies that increases along the way of a copy:
the contents that another node has seen, those on the link to it, those the guard of the
source has recorded, those in its queue, the one on its clipboard. The last of each part is
the newest that went through it, so that when all parts are empty the ends meet. A copy made
while a guard evicts is left out for a reason: an echo of an older copy can then come back
and replace it. So are copies that the guard already knows, that the policy blocks or that a
backend converts (`unusual`): those do not arrive as they were copied.

**Transfer.** Two results hold however many attempts are under way: types are kept, and client
and node never wait for each other (`NoMutualWait`, defined in `TransferProofs`; by
`ExchangeInv` one frame is in flight and its reader waits for its type, or someone has a step
to take). So does `CompleteInv`: a Complete in flight means that its receiver has renamed.
The other theorems hold until two receivers have had the `.part` open at the same time, and
their invariants under `~ shared`. `SingleInv`: then one receiver at most is at work.
`DiskInv`: it writes to the file called `.part`, which is never the final one. `RenameInv`:
what is about to be renamed equals the offered content. `LatestInv`: the final file is what
the attempt that renamed last had offered.

`FailsOnlyByFault` rests on `TalkInv`: an attempt that nothing happened to is always in one of
seven phases, in each of which at most one frame is in flight, it is the frame that its reader
expects, and the `.part` holds exactly the first n chunks of the offered file, n being the
index that Accept, Data or Ack carries (`Has`). The phase after the Offer needs no description
of what earlier attempts left: `to_dir` cuts whatever is there to whole chunks, and either
that is a beginning of the offered file or the attempt counts as `stale`. The rest is
arithmetic of chunks, for any chunk size: they lie end to end, and the last one ends with
the file (`Layout`, `ChunkWritten`, `ChunksEnds`).

Only model-checked: the liveness properties (`ConfirmAnswered`, `RoundEndsOrStuck`,
`AttemptEnds`, `DepartedForgotten`, `CallsReturn`, `FramesArrive`). They rest on fairness and
on `ENABLED`, which this prover does not handle. `NobodyWaitsInVain` is what can be proved
towards `AttemptEnds`: someone can always take the next step.

## Not modelled

* The key file. It is written in place, once, before anything else runs; a crash then
  leaves a short file that later starts refuse. Listed as a hazard.
* Clipboard `Clear` and `Ack` and the transfer `Cancel`: no code sends them.
* In-memory `FileSender` and `FileReceiver`, `delete_peer`, `decode_frame`,
  `PeerDirectory::clear`: no caller but tests.
* The `DiscoveryEvent` values sent to subscribers, merging of a peer's addresses, changes of
  the system clock.
* Serialisation of payloads, logging, formatting, argument parsing, Win32 resource handling,
  SQL, cryptography (a signature is valid or not).

## What could come next

1. The key file with crashes between its writes.
2. A composition of `Node` with two `Clipboard` nodes, so that the registry's and the
   broadcaster's faults appear as lost updates.
3. What is left of the transfer properties once two receivers share the `.part`.
