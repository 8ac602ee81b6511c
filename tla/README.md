# A TLA+ model of rabbit-rtc

rabbit-rtc streams a broadcaster's camera to viewers over WebRTC.  A Go server
forwards signaling messages between the pages over WebSockets; the pages are
two React hooks that drive the browser's media, WebSocket and peer connection
objects.  The code that is hard to get right is the bookkeeping of connections
under concurrency: goroutines in the server, event handlers and continuations
of awaits in the pages.  That is what these modules model.

## Inventory

| Part (source) | State | Operations | Talks to |
| --- | --- | --- | --- |
| Hub and rooms (`internal/signaling/hub.go`) | `rooms`, `room.clients`, two mutexes | register, unregister, dispatch | Client |
| Client (`client.go`, `message.go`) | `send` queue, `done`, the connection | run, read loop, write loop, enqueue, shutdown | Hub, WebSocket |
| Handler (`handler.go`) | none | ServeWS: refuse, upgrade, register or reject, run | Hub, Client |
| Origin policy (`origin.go`, `hub.go`, `server.go`) | allowed hosts and origins | signalingAllowedOrigins, mergeAllowedOrigins, newOriginPolicy, allows | Handler |
| HTTP server (`internal/server`, `cmd/server`) | none | routing, environment, shutdown | Handler |
| Broadcaster hook (`useBroadcaster.ts`) | phase, viewers, mute flags; refs to a stream, a socket, a map of peer connections | start, stop, toggles, socket and peer connection events, messages | browser, hub, BroadcastPage |
| Viewer hook (`useViewer.ts`) | phase, connection state, picture; refs to a socket, a peer connection, the broadcaster | connect, disconnect, socket and peer connection events, messages | browser, hub, ViewerPage |
| Notifications (`ToastProvider.tsx`) | toasts, timers | notify, dismiss | hooks |
| Command line client, logging, descriptions of errors, page layout | - | - | - |

What makes each of them correct, and what is hard about it:

* **Hub, Client, Handler.**  Each request has a handler goroutine (ServeWS, then
  the read loop), a write loop and a goroutine that waits for its context.
  Membership must be exact although register, unregister and dispatch of
  different connections interleave and `dispatch` gives up `Hub.mu` before it
  routes.  Routing must respect rooms, addresses and senders.  Bounded queues
  must not block a sender, reorder or duplicate.  Goroutines must end, and
  members whose peer is gone must leave.
* **Broadcaster hook.**  `start` awaits the camera while the user may stop, leave
  or start again; negotiations with several viewers are under way at once;
  handlers of old sockets stay attached.  Peer connections must not leak, the
  list of viewers and the phase must be true, the camera must stop.
* **Viewer hook.**  `handleOffer` awaits three calls while the connection fails,
  the broadcaster leaves, or another offer comes.  There must be one
  connection, and phase and picture must belong to it.
* **The three together.**  A viewer and a broadcaster find each other with two
  announcements, either of which may reach nobody; offers and answers name their
  sender only.  A viewer that asked must be served, a negotiation must end, an
  answer must meet its offer, the two pages must not each hold a connection with
  one that is gone, a viewer that leaves must be dropped.
* **Notifications.**  Timers and the list of toasts are kept apart: no timer may
  take away the toast of a later call, none may get lost.
* **Origin policy.**  Three loops from an environment variable to the answer; the
  server must admit what is configured and nothing else.

## Modules

| Module | Models |
| --- | --- |
| `RoomService` | what the hub promises: members, messages that arrive in order or are lost |
| `SignalingHub` | hub, rooms, clients, handler; implements `RoomService` |
| `SignalingHubProofs` | theorems about `SignalingHub`: members, rooms, routes |
| `SignalingHubPromiseProofs` | order of messages; `SignalingHub` implements `RoomService` |
| `PeerConnection` | RTCPeerConnection, as far as the hooks rely on it (external) |
| `PeerConnectionProofs` | lemmas about its operators, for both hooks |
| `Broadcaster`, `BroadcasterProofs` | the broadcaster hook and its page's calls; theorems |
| `Viewer`, `ViewerProofs` | the viewer hook and its page's calls; theorems |
| `Session`, `SessionProofs` | a `Broadcaster`, a `Viewer` and the hub between them; theorems |
| `Notifications`, `NotificationsProofs` | toasts and their timers; theorems |
| `OriginPolicy`, `OriginPolicyProofs` | allowed origins, from the environment to `allows`; theorems |
| `MC...` | values of the constants for TLC, where a `.cfg` cannot state them |

A module has a section "Parts of the actions": small operators that the
actions use (for example `Exists`, the test in `addClient`), each after a faulty
variant `Bad...` that nothing uses.  Putting the faulty variant in the place of
the part makes TLC report the property that guards it.

### SignalingHub

A connection `c` stands for a request to `/ws`; `RoomOf[c]` and `PeerOf[c]` are its
query parameters.  `pc[c]` is where its handler goroutine is: `dial`, `upgraded`,
`registered`, `read` (waiting in ReadMessage), `lookup` (Hub.dispatch), `route`
(room.dispatch), `check` and `push` (the two selects of enqueue), `shutdown`,
`unregister`, `close` (the deferred calls), `returned`; or `reject`, `refused`.  `wpc[c]` is
the write loop, `watcher[c]` the goroutine of `run`.  A room object is named after
the connection that created it, so that a dropped and recreated room is another
object.  A step is a critical section, a select statement or a call on the
connection.  `register` and `unregister` are one step each because they hold
`Hub.mu` throughout.  A select with several ready cases takes any of them.

`delivered`, `late` and the field `seq` of a message are history.  The frames are
opaque apart from `from` and `to`; the payload of a message is what identifies it
(`src`, `seq`).  The remote peers send any frame of `SentFrom` x `SentTo`, malformed ones
or none; a connection of `Fragile` may break (`Hangup`), any read may fail and any
write may fail or succeed.

`RoomService` is the abstract specification: a connection is out, in, or has left; a
frame of a member may be accepted for whom it concerns, at most once and in
order; what is accepted arrives or is lost.  `Service` in `SignalingHub` maps the state:
a connection is in from `register` to `unregister`, its mail is what the write loop has in hand and
the send queue behind it, and what it got is what was written to an open
connection.  Reading, looking up and selecting are stutters; a message that is
dropped by a full queue was never accepted, one whose write fails is lost.

### Broadcaster and Viewer

A step is a task of the event loop: a click, an event, the continuation of an
await.  Calls on a peer connection queue in its operations chain
(`PeerConnection`), settle in order, resolve if the signaling state admits them,
and never settle once the connection is closed.  The call that settles and the
continuation that follows are one step, as promise jobs run before the next
task.  In `Broadcaster`, `starts` numbers the calls of start; the k-th has stream
`media[k]` and socket `socket[k]`, and `streamRef` and `socketRef` name one of them or
none.  In `Viewer`, `attached[k]` says whether the handlers of socket k are in
place: the viewer removes them before it closes a socket, the broadcaster does
not.  Setters have no effect after an unmount.  React's double mount in
development (StrictMode) is left out.

History variables: `wanted` (the user's last command was start), `announced[k]`
(broadcaster-ready went out on socket k), `asked` (viewer-ready went out after the
last offer).

### Session

One broadcasting page that starts once, and one viewing page that connects up to
`MaxConnects` times under the same peer identifier.  Link 0 is the socket of the
broadcaster, link k that of the k-th connect; `member` is what the hub knows of a
link, `up` and `down` are the frames on their way to the hub and to the page.  Every
action is a step of the hub (`Admit`, `Dispatch`, `Evict`: register, dispatch, unregister) or
an action of `Broadcaster` or `Viewer` together with the messages that it sends or
consumes.  The hub refuses a second link of the viewer while the first is in, and
hands on in order, to those who are in the room at that moment.  An offer is named
after the connection that made it and an answer after its offer; the code sees
neither name.

Assumed: the camera is granted, sockets do not fail by themselves, queues do not
overflow, two connections that negotiated with each other connect, and calls
fail only in the wrong signaling state (`PeerConnection` does not model that
setLocalDescription may also want the last description created).  A send queue
of the code holds 16 messages.  `TwoUnderWay` proves that a first visit has at most two
requests, offers and answers under way, but ICE candidates share the queue and
are not counted: that a burst of them displaces an offer is assumed not to
happen.  So the properties say what the three programs do to each other when
nothing outside them fails; the failures are in the runs of the single hooks.

### Notifications and OriginPolicy

A toast is named after the call of `notify` that made it.  `timers` is the map of the
hook, `pending` what the browser runs.  `toasts` is a set: the provider appends new
toasts and keeps the order of the others, so the list is the set in the order of
the calls.  The actions are `notify`, `dismiss` of any identifier, a timer that
fires, and the unmount.  A duration is finite or none.  The pages pass neither an
identifier nor a duration; the model covers what `ToastContext.ts` offers.

`OriginPolicy` runs the loops of `signalingAllowedOrigins`, `mergeAllowedOrigins` and
`newOriginPolicy` entry by entry (`TakePart`, `Merge`, `Allow`; `Proceed` between them), and `Allows` is
the test of a request.  A text is what `url.Parse` finds in it: blank, invalid, an
origin, or a page of one, with scheme, host, port and spelling.  `Admits` and `Configured`
are the reference definition.

## Runs

| Run | Bounds | Shows |
| --- | --- | --- |
| `HubRouting` | 3 peers of a room, one sends 2 frames to all or to one, queue 1 | `TypeOK`, `NoEmptyRoom`, `OnlyLegitimate` |
| `HubIdentity` | 2 connections with the same identifiers and a third | `MembershipExact`, `RoutesInCurrentRoom` |
| `HubPair` | 2 peers, one may break, 3 frames, queue 1 | `FifoPerSender`, `AtMostOneLateTake`, `KeepsPromise`, `BrokenPeerLeaves`, `GoroutinesEnd`, `DispatchEnds` |
| `HubDelivery` | 2 peers | `ForwardedToOthers` fails |
| `BroadcastRestart` | 2 starts, 1 viewer, 2 peer connections, 2 pending calls | `TypeOK`, `ViewersShown`, `ReadyHasSocket`, `MuteHonoured`, `SocketsEnd`, `ConnectingEnds` |
| `BroadcastMesh` | 1 start, 2 viewers, 3 peer connections, 2 pending calls | `IdleIsQuiet`, `ConnectionsTracked` |
| `BroadcastLamp` | 1 start | `LampOff` fails |
| `ViewerPage` | 2 connects, 3 peer connections, 3 pending calls, 2 senders | `TypeOK`, `SingleConnection`, `BroadcasterKnown`, `PhaseMatchesConnection`, `NoStalePicture`, `DisconnectedIsQuiet`, `ConnectingEnds` |
| `SessionMeet` | 2 connects, 2 peer connections on each side, 2 pending calls | `TypeOK`, `AnswersFit`, `ConnectionsMeet`, `RequestServed`, `AnsweringEnds`, `LeaveReachesBroadcaster` |
| `SessionServed` | 1 connect, 4 peer connections, 3 pending calls | `QuietMeansServed` fails |
| `Toasts` | 2 identifiers, 4 calls of notify | `TypeOK`, `NewestPerId`, `NoStrayTimer`, `ShownInFull`, `TimedToastsGo` |
| `Origins` | every list of at most 2 parts; 2 schemes, 3 hosts, 2 ports | `TypeOK`, `AllowsExactlyConfigured`, `NothingRevoked` |

The properties are stated in words above their definitions.

Why the bounds are enough.  A queue of capacity 1 is full after one message, so
two frames reach a drop and three a drop followed by a success.  Two
connections with one identifier and a third peer are what it takes to register,
refuse, unregister and register again while the third dispatches.  Two calls of
start give every overlap of an old and a new session, and two or three peer
connections let a viewer leave and return.  Chains of two or three
pending calls hold overlapping negotiations.  In `SessionMeet` two connects let a
viewer leave and return while messages and connections of its first visit are
under way; the actions of the hooks are guarded by the number of peer
connections, so that beyond two a page makes no more offers; during the first connect
no bound holds anything back.  Four calls of notify
are two replacements under each of two identifiers.  Two entries are enough for
every pair of spellings, ports and kinds to meet in either order, and for the
developer's four entries to be read in full.  `CHECK_DEADLOCK` is off because every
one of these systems may stop: peers may all be gone, a page may be closed.

The runs of the hub have one room, and in `HubRouting` no identifier is taken twice: that
rooms are kept apart, and that a peer which takes over an identifier gets
nothing that is not for it, rests on the theorems `RoutingLegitimate` and `HubKeepsPromise` (below).
A receiver that is not there is one of the peers before it comes or after it has
left.

Symmetry is used in safety runs only, for connections that are alike
(`HubRouting`) and for viewers (`BroadcastMesh`).

### Fairness

* `SignalingHub`: weak fairness of the handler, the write loop and the waiting
  goroutine of each connection.  The Go scheduler justifies it, since no mutex
  is held across I/O.  A read on a broken connection fails in the end (a close
  frame, a reset, or the TCP keepalive that net/http's listener enables).
  Frames, hangups and failing writes are never forced.
* `Broadcaster`, `Viewer`: a socket that is connecting or closing opens or closes,
  since browsers bound both handshakes.  Nothing is assumed of the user, the
  server or the peer connections.
* `Session`: weak fairness of `System`, everything but the users.  The hub, the
  sockets and the browsers go on as long as anything can happen, and since every
  behaviour is finite under the bounds, each of them gets its turn.
* `Notifications`: weak fairness of each timer, as a browser fires it in the end.

### What the failing runs show

1. `HubDelivery`: a failed write ends the write loop and nothing else
   (`client.go:124`).  The peer stays listed, its queue fills and its messages are
   never written, against `docs/signaling-api.md:35`.
2. `BroadcastLamp`: start, stop, then the user grants the camera
   (`useBroadcaster.ts:393`): the camera runs although the broadcast was stopped,
   against `BroadcastPage.tsx:176`.
3. `SessionServed`: a viewer asks when its socket opens and again when the
   broadcaster announces itself.  The two offers overlap in the viewer, handling
   the second fails, the connection goes, and the page waits for an offer that it
   never requests (`useViewer.ts:289-295`), against `ViewerPage.tsx:229`.

What the passing properties leave out on purpose, because the code does not hold
it there:

* `MuteHonoured` speaks of connections that carry the current stream.  After start,
  stop, start with both grants pending, a viewer served from the first stream is
  not muted by the button (`useBroadcaster.ts:470`), and broadcaster-ready of the socket
  that is not in `socketRef` is dropped (`useBroadcaster.ts:425`).
* `ReadyHasSocket` promises that the viewers have been told (`docs/signaling-api.md:56`) on a page that
  was started once.  After stop and a quick restart the `onclose` of the old socket
  comes after the new socket was made, and clears the new `socketRef` (`useBroadcaster.ts:444`).
  Then the new socket opens and the page says ready, but `sendMessage` drops
  broadcaster-ready and every offer.  Nor does stop close that socket, so that
  the hub refuses the next start under the same identifier while the page is there.
  Beyond one start the property only says that some socket is open.
* `IdleIsQuiet` is about sockets and viewers: a stream whose socket the server has closed
  goes on, and the next start overwrites its only reference (`useBroadcaster.ts:438`).
* `RequestServed`, `AnsweringEnds`, `AnswersFit` and `ConnectionsMeet` are stated for the first connect.  After a quick
  return under the same identifier, an answer to an offer of the first visit may
  meet the connection of the second (`useBroadcaster.ts:188`), whose rejection removes it
  together with the request that was pending there; and until the viewer's new
  offer arrives, the two pages may hold connections of different visits.
* `AnsweringEnds` excludes connections that are connected: renegotiating one does not change its
  state, so that the page stays at answering.
* `ShownInFull` is about toasts with a duration: one without, which replaces a timed one,
  goes with the older timer (`ToastProvider.tsx:109`).

## Proofs

`SignalingHubProofs` proves for every set of connections, rooms and peers, every
assignment of identifiers, every queue capacity and every number of frames:

* `TypeCorrect`: `Spec => []TypeOK`
* `MembershipCorrect`: `Spec => []MembershipExact`
* `RoomsCorrect`: `Spec => []NoEmptyRoom`
* `RoutingCorrect`: `Spec => []RoutesInCurrentRoom`
* `RoutingLegitimate`: `Spec => []OnlyLegitimate`
* `FewLateTakes`: `Spec => []AtMostOneLateTake`

and `SignalingHubPromiseProofs`, from these:

* `MessagesInOrder`: `Spec => []FifoPerSender`
* `HubKeepsPromise`: `Spec => KeepsPromise`, the refinement of `RoomService`

They rest on the named assumptions of `SignalingHub` only, which TLC evaluates in
every hub run: identifiers that are blank or not, `Nil` for no connection, peer or
message, and a queue of at least one message.

`TypeOK` is not inductive alone: a handler that delivers must have a message in
hand, one that routes a room, one that enqueues a receiver, a write loop that
writes a message, and the parameters of a request past the upgrade must not be
blank.  `Typed` adds this (`StepOK`).  Nor are the membership properties inductive
one by one: `Membership` conjoins the three with `FreshObjects` (a room object that
nobody has created yet lists nobody, and a registered object was created for the
identifier it is registered under, so that a new room starts empty and two
identifiers never share a room).  The first four theorems are
consequences of the one inductive invariant `Typed /\ Membership`.  The steps that
touch neither rooms nor tables are handled by one lemma (`QuietStep`), register and
unregister each by a lemma of their own.

`OnlyLegitimate` looks at queues, but what goes wrong would go wrong earlier: when a
handler picks receivers and stamps the message, with steps of others before each
`enqueue`.  `Handled` says that the message in hand is legitimate for every target that is
left and for the one being served, `Forwarded` that so is all that is queued, held by
the write loop and delivered.  `RouteHandled` is the one step with substance: the table of
the room lists members under their own identifiers (`MembershipExact`), and it is the table
of the sender's room (`RoutesInCurrentRoom`).  That a target leaves later does not matter, since a
room, an identifier and a message in hand do not change.  For `AtMostOneLateTake` the invariant
adds where the write loop may be after a late take: not before the second select.

`FifoPerSender` and the refinement speak of what was accepted for a peer: what was
written to it, then what the write loop has in hand, then the queue
(`Accepted`).  Every step either appends the message of one sender to one such
sequence (`Sends`) or moves or drops its elements without a change of order
(`Shrinks`); that is `StepShrinks`.  Then `InOrder` is inductive: each sequence has the
messages of each sender in increasing order, and a handler that has a target
still to serve has a message later than all that the target got from it
(`InTurn`), which is where the loop over `targets`, the removal of a target once served, and
the read of a next frame only after the last target come in.  `HubKeepsPromise` shows,
lemma by lemma, that register is Join, a delivered or failed write Deliver or Lose,
an accepting enqueue Accept, unregister Leave, and every other step a
stutter; `OnlyLegitimate` and `InOrder` supply the guards of Accept.

`NotificationsProofs`, for all identifiers and any number of calls:

* `TimersKnown`: `Spec => []NoStrayTimer`.  The induction needs that the entry of a pending timer
  is that of its own identifier (`timers` never confuses two identifiers).
* `UnmountClears`: `Spec => [][Unmount => pending' = {}]_vars`, from `TimersKnown`.
* `NotificationsTyped`: `Spec => []TypeOK`, `NewestShown`: `Spec => []NewestPerId`,
  `ShownForItsTime`: `Spec => ShownInFull`.  The invariant `Shown` adds that a timed toast
  that is shown has its timer running and named in `timers`: this is what a timer
  of an earlier toast would violate.

`PeerConnectionProofs` has the types of what the operators of `PeerConnection` return,
whatever an implementation does with its operations chain.

`ViewerProofs`, for any number of connects, connections, senders and pending calls:

* `ViewerTyped`: `Spec => []TypeOK`
* `OneConnection`: `Spec => []SingleConnection`
* `AddresseeKnown`: `Spec => []BroadcasterKnown`
* `PhaseIsTrue`: `Spec => []PhaseMatchesConnection`
* `PictureIsPresent`: `Spec => []NoStalePicture`
* `IdleHoldsNothing`: `Spec => []DisconnectedIsQuiet`

The invariant has three parts.  `PeersOK`: the connections, with the one that is open
and the refs that go with it.  `SocketsOK`: only the socket of `socketRef` may be connecting or
open, and only it may have handlers that can still run; this is what the removal
of the handlers before a close is for.  `PageOK`: the phase against `socketRef` and
`peerConnectionRef`; it needs that a connection exists only after its socket has opened, or else
`onopen` could put an answering page back to waiting.

`BroadcasterProofs`, for any number of viewers, starts, connections and pending calls:

* `BroadcasterTyped`: `Spec => []TypeOK`
* `NoConnectionLeaks`: `Spec => []ConnectionsTracked`
* `ListIsTrue`: `Spec => []ViewersShown`
* `ReadyIsConnected`: `Spec => []ReadyHasSocket`
* `MutedIsSilent`: `Spec => []MuteHonoured`
* `IdleIsQuietOnce`: `Spec => [](starts <= 1 => IdleIsQuiet)`

Here a continuation acts for a viewer that it took from its closure, and on what
`connectionsRef` holds for that viewer now.  So `PeersOK` says that every call in a chain names the
viewer of its own connection (`Own`), and `conn` and the open connections name each other.
`ShownOK`, `MediaOK` and `SocketsOK` relate the list, the buttons and the phase to them.
`SocketsOK` needs that a socket is made only after its start was granted the camera: a
second grant must not find an older socket under its number.
`ReadyHasSocket` has a half that holds for any number of starts (`ReadyIsOpen`, in `SocketsOK`) and one that
holds up to the second (in `OnceOK`: the socket in use is that of `socketRef`, so that the
announcement of `onopen` goes out on it).
`IdleIsQuiet` itself is false beyond one start, and TLC finds why: after start, stop, start
the first grant connects, and the denial of the second makes the page idle
while the first socket is in use.  `OnceOK` holds up to the second start, and so does the theorem.

Of constants `ViewerProofs` assumes that `Nil` is no sender and that the bounds are
natural numbers; `BroadcasterProofs` the latter, and that the chain of a connection may hold at
least one call, since a new connection has one at once.

`SessionProofs`, for any number of connects, connections and pending calls:

* `ViewerBehaves`: `Spec => V!Spec` and `BroadcasterBehaves`: `Spec => B!Spec`, where `V` and `B` are the
  instances of `Viewer` and `Broadcaster` in `Session`.  What is proved of a hook alone, among
  messages of any kind and order, thus holds of it in a session.
* `SessionTyped`: `Spec => []TypeOK`

Every action of `Session` is an action of one page and leaves the other alone, or is a
step of the hub.  What needs an invariant is that an offer that reaches the viewer is
one `Viewer` reckons with, which goes back to the number of connections that the
broadcaster has made (`BroadcasterProofs`), and that an answer repeats the name of an
offer, which goes through the pending calls of the viewer's connection
(`ViewerProofs`).  The invariant is theirs together with `FramesOK`.

* `AnswersMeetOffers`: `Spec => []AnswersFit`
* `PagesMeet`: `Spec => []ConnectionsMeet`
* `TwoUnderWay`: `Spec => []FewUnderWay`: two requests, offers and answers at most between the
  pages

These are about the first visit of a viewer (`FirstVisit`: from its first connect until
the broadcaster has heard the last of it).  An answer names its sender only, so
no local fact makes it fit: what does is that the broadcaster replaces a
connection only when nothing of the old one is left, neither an offer nor an
answer nor a call that will lead to one.  The invariant (`RInv`) therefore counts what
is under way.  A round is a socket that will open and ask, a request, a call of
createOffer, an offer, a call of the viewer, or an answer; each step turns one
into the next, or ends it.

* `FewRounds`: there are at most two rounds (a viewer asks when its socket opens, and
  when it hears that the broadcaster's has opened), and at most one once a
  connection has negotiated or has ended, since the viewer asks again only after
  the end of a connection.
* `FreshIsFirst`: while the broadcaster has no connection, or one that has made no
  offer yet, no offer and no answer is under way.
* `OneName`: while it has one, every offer, answer and pending call of the viewer names
  that one.
* `LoneIsQuiet`: when the viewer has a connection and the broadcaster none, or the
  broadcaster one that has negotiated and the viewer none, nothing is under way.  This is what keeps the number of rounds down when the second page
  notices and asks again.
* `CauseFirst` and `LeftIsLast`: there are no offers before a connection of the broadcaster
  and no answers before one of the viewer, and nothing follows a viewer-left.
* `Before` and `Frugal` give the beginning: until the viewer comes, at most the greeting of
  the broadcaster is under way; and the broadcaster only makes offers, on
  connections whose signaling state admits it.

Each of these is needed by another one's induction; the proof has a lemma for each
action (`HubKeeps`, `OfferKeeps`, `ViewerLossKeeps`, ...), and `StageStep` puts them together.  The numbers are
cardinalities of sets of positions in the queues (`Count`, `OnWay`); what appending, removing
the head or passing a frame on does to them are lemmas about sequences.
`TwoUnderWay` needs one invariant more, `Directed`: each page hears only the kinds of frames
that the other one says.

`OriginPolicyProofs`, for lists of any length, and any schemes, hosts and ports:

* `PolicyTypeCorrect`: `Spec => []TypeOK`
* `PolicyCorrect`: `Spec => []AllowsExactlyConfigured`
* `NeverRevoked`: `Spec => NothingRevoked`

The argument is that of loop invariants: at each stage the texts that the list
built so far and the rest still to be read stand for, spelling aside, are those
configured; and the policy admits what the entries read so far admit.

Only model-checked: liveness (`BrokenPeerLeaves`, `GoroutinesEnd`, `DispatchEnds`, `SocketsEnd`,
`ConnectingEnds`, `RequestServed`, `AnsweringEnds`, `LeaveReachesBroadcaster`, `TimedToastsGo`), since fairness and ENABLED are out
of the prover's reach.  Every invariant, action property and refinement that a
passing run checks is proved; `IdleIsQuiet` up to the second start, beyond which it is
false.  The three properties of the failing runs have a counterexample
instead of a proof.

## Not modelled

ICE candidates (they change no state that the code keeps), status texts, the
encoding of frames, deadlines and sizes other than as outcomes, a WebSocket
constructor that throws (a malformed or forbidden URL in the configuration), a
viewer whose tab crashes before its connection was ever connected (what its peer
then sees is up to the browser), React's double mount in development, the routes
and the shutdown of the HTTP server (it does not wait for hijacked connections, so
it is the end of the process), the command line client, logging and layout.

## Plan

The plan is carried out: every safety property of the runs has its theorem.  What
could follow is the second visit of a viewer, once the code tells the answers of
two visits apart (`AnswersFit` and `ConnectionsMeet` are false there today), and several viewers
in one session, of which `Broadcaster` alone is proved for any number.
