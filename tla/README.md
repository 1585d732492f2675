# reactive-messaging in TLA+

A specification of the concurrent core of `reactive-messaging`: the composite
socket server and client, which move connections between the network, user
provided routing closures, protocol processors and their dialogs, and which must
issue the right events and terminate whatever is going on; of the dialogs, which turn the
bytes of a socket into messages; and of the protocol of its largest example, which uses
most of it. TLC checks the models on small instances; TLAPS proves the safety properties of the server, its
set-up, the client, its connection attempts, the session and the dialogs, for every number of
connections, processors, addresses, messages and channel slots.

Paths below are relative to the crate's `src/` directory (`src/src` here), those of the
examples to the repository's.

## The system

| Component | State | Operations | Talks to |
|---|---|---|---|
| Connection listener, `ServerConnectionHandler` (`socket_connection/connection_provider.rs`) | the bound listener, the shutdown one-shot, a sender of the connection channel | accept, feed, `shutdown()` | routing task, through a bounded `mpsc` channel |
| Composite server (`socket_services/socket_server/`) | channel of handed back connections, routing closure, one "termination is complete" one-shot per processor | `spawn_processor`, `start_multi_protocol`, `termination_waiter`, `terminate` | everything below |
| Server loop, `server_loop()` (`socket_connection/socket_connection_handler.rs`) | one loop per processor, one task per connection being served | take a connection, `PeerArrived`, spawn the dialog, `LocalServiceTermination`; hand the connection back | routing task (both ways), user callbacks |
| Composite client (`socket_services/socket_client/`) | one connection, `connected` flag, termination broadcast, report channel of one | connect, route, serve once per processor, report, `terminate`, wait | dialog task, executor, shutdown listener |
| Dialog session: `client()`, `dialog_loop()`, `Peer`, `ReactiveMessagingSender`, `ReactiveMessagingUniSender` | outgoing channel, processor channel, peer state | send with a retrying strategy, flush, cancel, close; take the state over | socket, user's stream, executor callback |
| Dialogs (`socket_dialog/`) | read and write buffers: lines, size prefixed payloads, or a reserved slot | read, frame, deserialize, relay; serialize, write | socket, both channels |
| Client connection manager | resolved addresses still to try | connect, retry with the next address | resolver, `keen-retry` |
| `ConstConfig` | none: 64 bits | pack, unpack | compile time only |
| Ping-pong example (`examples/composite_protocol_stacking_*`) | at each party: the dialog it is in, the connection's state, an umpire; the server's sessions | agree on a version, upgrade the connection, start, react to an event, endorse the score, say good bye | the library, and the same program at the other end |
| `serde/` | none | conversions | ron, rkyv |

A connection is a Rust value: it is moved from task to channel to task and is
closed when it is dropped. Tasks only share the channels, a few one-shot signals,
the client's `connected` flag and the `Peer` of a dialog.

What is hard in it: channels of one or two places between tasks that feed each
other in a cycle; termination by dropping the last sender of a channel, five
channels deep; user callbacks awaited between a decision and its effect; the
`closed` flag, set in a dialog and acted on two channels later; the client's end
of stream, shutdown broadcast and dialog, which all end each other and each
report; timeouts after which a task goes on without the one it waited for.
`PROJECT.json` lists these hazards at the lines where they bite.

What makes each component correct:

- listener and routing: no connection is lost, duplicated or owned twice; none is
  stuck; nothing is fed to a receiver that is gone;
- events: `Connected` once and first, `Disconnected` at most once and last,
  a closed connection is never given to a processor again;
- termination: the waiter returns, and only when nothing is left in a channel;
- client: every processor reports once, the end of a stream ends the dialog, a
  terminated client ends its connection, `is_connected()` tells the truth;
- session: accepted messages are delivered in order or the connection is closed,
  as the retrying strategy says; the state reaches the next processor;
- dialogs: the messages delivered are the messages sent, however the bytes arrive;
  every slot of the processor's channel is accounted for;
- connection manager: an address that accepts connections is found;
- configuration: what is packed is what is unpacked, field by field;
- ping-pong: both umpires follow the same match, the match ends, the session goes with it.

## Modules

| Module | What it is |
|---|---|
| `ConnectionLife` | abstract: what a service promises about each connection, with no tasks nor channels |
| `ServerService` | the server: listener, routing task, loops, dialog tasks, termination |
| `ClientService` | the client: routing task, one-shot processors, executor and shutdown listener, reports, waiter |
| `DialogSession` | one dialog: the loop that reads, relays and writes, the two bounded channels, the processor's task, the closing procedure |
| `ServerSetup` | extends `ServerService` with the program that owns the server: its calls, in any order |
| `ConnectRetries` | extends `ClientService` with the addresses and the attempts of its connection |
| `FramedLink` | abstract: messages arrive one by one, whole and in order |
| `Wire` | what the three dialogs share on their receiving side: bytes read in any pieces |
| `TextualFraming`, `SerializedFraming`, `MmapFraming` | how each dialog makes messages of these pieces |
| `Framings` | a dialog of any of the three forms under any configuration, and what all of them promise |
| `Numerals` | numbers and their digits: what shifts read and write, bit by bit or byte by byte |
| `ConstConfig` | the configuration, packed and unpacked |
| `Umpire` | the rules of ping-pong and the reactions to an event, as functions |
| `PingPong` | client and server of the example, playing over one connection |
| `MCServer`, `MCSetup`, `MCClient`, `MCSingle`, `MCPingPong` | instances for TLC: routing closures, strategies, lucky numbers |
| `MCFramings` | the instance of `Framings`: payloads and configurations |
| `ChannelLemmas` | lemmas about channels without duplicates (sequences) |
| `ConnectionLifeProofs` | the contract's own consequences |
| `ServerServiceProofs` | the theorems of the server, and of the server with the program that owns it |
| `ClientServiceProofs` | the theorems of the client, and of the client with its connection attempts |
| `DialogSessionProofs`, `FramingsProofs` | the theorems of the session, and of the dialogs |
| `ConstConfigProofs` | numbers are read back from their digits, and a configuration from its word |
| `PingPongProofs` | the theorems of the ping-pong: its umpires, its turns, its session |

### ServerService

Each `await` that can block is the boundary between two actions; what runs
between two of them is one action. `listener`, `router` and `loop[p]` are the
program counters of the three kinds of loops, `stage[c]` that of the task that
deals with connection `c`, wherever it is.

- Listener: `Accept`, `Feed`, `StopListening`. `Feed` is not raced with the shutdown
  signal, as in the code.
- Routing task: `TakeNew` and `TakeReturned` are the two branches of the `select!`,
  each with its event and the closure's verdict (`RouteTo`), `Route` the bounded send,
  `Disconnect` the `None` verdict, `EndRouting` the `break` -- which drops the receiver of
  handed back connections with its contents, and the closure with the senders it owns.
- Loop of a processor: `Arrive`, `RefuseUnknownPeer`, `SpawnDialog`, `EndLoop`,
  `SignalCompletion`.
- Task of a connection: `FinishDialog`, `FailDialog`, `HandBack`, `HandBackFails`. The
  dialog is abstracted to how it ends.
- `Terminate`, `WaiterReturns`.

A receive answers `None` when the buffer is empty and every sender was dropped
(`NewConnsEnded`, `QueueEnded`). The routing closure is any function: `RouteNew` and
`RouteReused` are the sets it may answer from. It is assumed to own the only
senders of the processors' channels, which is what the macros build.

### ClientService

`conn` tells who has the connection and `target` to which processor it was last
routed. `task[p]` is the program counter of the task of processor `p`, and
`hook["executor"][p]`, `hook["listener"][p]` those of the executor's end of stream
closure and of the shutdown listener: both issue an event to the same callback,
which the client upgraded to report the end of the processor (`TakeReporter`,
`Report`, `ReportFails`), and both then close the peer (`ClosePeer`). A closed peer ends the dialog
(`BreakDialog`), which in turn ends the processor's stream and goes on when it ended,
or when the flush timeout elapsed first (`CloseProcessor` needs no step of the
executor). `notice[p]` is what `p`'s subscription to the broadcast received;
`BroadcastClosed` is the end of the broadcast, every sender being dropped.

The receiver of the reports is in the client (`waiter = "kept"`) until the program calls
`termination_waiter()` (`TakeWaiter`); what it gets is a future that it may await (`AwaitWaiter`) or
drop (`DropWaiter`), as a timeout does; `terminate()` consumes the client and with it a receiver that was
not taken (`Terminate`). Reports are only read while the waiter is awaited
(`WaiterCounts`, `WaiterGivesUp`), and fail once the receiver is gone. `Init` is a client with all its processors
spawned: a waiter taken before that, which counts fewer, and a client that is dropped without `terminate()`
are not modelled.

Two assumptions about libraries: closing a peer's channel before the dialog made
its stream still ends that stream, and a write to the socket returns.

### DialogSession

What `ServerService` abstracts to `FinishDialog`. `dialog` is the program counter of the
one task that serves both directions (the handler's `dialog_loop()` and the textual
dialog's loop inside it), `processor` that of the task which executes the user's stream
and, at its end, the `PeerLeft` callback and `flush_and_close()`; `inbox` and `outbox` are
the processor's and the peer's channels. Messages are numbers in the order the remote
sent them, `Unknown` those that do not deserialize.

- Loop: `TakeOutgoing`, `OutgoingEnded`, `Write` are the branch of the biased `select!` that
  goes first; `Read` brings any number of the messages that arrived, which are all dealt
  with (`Relay`, `RelayRefused`, `FindUnknown`) before the next `select!`. `Troubled`, `Inform` and
  `InformRefused` are the error paths: inform the peer, then go on or report the
  connection closed and break.
- Closing: `EndInput`, `ClosePeer`, `FlushFails`, `HandBack`, in that order; the first two go on when
  the flush timeout elapses.
- Processor: `Consume`, `Answer` and `AnswerRefused` (`to_responsive_stream()`), `CancelPeer`, `StreamEnded`,
  `StreamEnds` (the user's stream ends by itself), `PeerLeft`, `Flush`, `FlushTimesOut`, and
  `SetState`, `TakeState`. `ShutdownListener` is the client's.

The retrying strategies are three: both that retry are `"Retry"`, which may be refused
at any time while the channel is full. A stream told to end may or may not yield what
its channel holds. The serialized dialog has the same control, without `FindUnknown`.

### ServerSetup

`ServerService` starts with its processors spawned, as the crate's macros build it. Here
the program does it: `SpawnProcessor` (its loop runs from then on), `Start` with the channels the
routing closure owns, `StartFails` (the address is taken: the closure is dropped with its
channels, and the service can be started again), `DropChannel`, `TakeWaiter`, `EndService`
(terminate or drop; `terminate()` consumes the server even when it was not started).
`kept` and `routes` tell who owns the sender of each processor's channel, which decides when
a loop ends (`Unfed`), and `awaited` the processors the waiter knows of. It refines the guards of
the service accordingly: a closure can only answer with what it owns, and
`EndRoutingUnused` and `FeedNobody` are what happens when the server is gone and no processor is left to return a
connection: the routing task ends, and a listener that is feeding takes the branch the
code calls a BUG. This is the instance whose liveness is checked.

### ConnectRetries

`ClientService!Connect` and `ConnectFails` with what leads to them: `Turn` is the set of
addresses the next attempt may go to (the iterator the continuation closure keeps, or a
new resolution), `strategy` how many attempts there are. `TokioAsyncRetry` counts attempts or waits
until a deadline (`patience`, which may end at any time). What listens is fixed while the
client connects; the order in which a resolver gives the addresses is any.

### Wire, the framings and FramedLink

`form` is the message form the dialog was built for and `config` its const parameter, which both
peers share. `sent` and `wire` are the remote's messages and the bytes they travel in; a read yields any
prefix of `wire` the buffer has room for (`Pieces`), and `reader` is the dialog's state between
reads. Each framing has one action for sending, one per read or per step of the loop over
what was read, and one for its end.

- Textual: `TextRead` appends, `TextLine` relays one line, `TextRest` keeps the unfinished one.
  Indexes are those of the code, with `next_line_index` and `this_line_search_start`.
- Serialized: `SerializedReadSize`, `SerializedReadPayload`. `PayloadSizeLen` is what
  `min_bytes_for_usize()` gives for the receiver's limit; `Base` is how many values a byte
  has, small so that two bytes are needed for the size of a short message.
- Mmap: `reader.slots` is the processor's channel: a slot is free, reserved, or published and
  in `inbox`. `MmapRead` publishes a full slot, `MmapReserve` and `MmapRefused` are the outcomes of
  `reserve_slot()`, `MmapEnd` cancels. `MmapRefused` ends with a `try_cancel_reservation()` of the slot
  that was just published (line 195 of the dialog), which `common.rs:238` hands to the channel unchecked: the channel may refuse to
  free it, or free it -- a slot the processor has yet to read, and frees again. A cancel that comes after
  the processor freed the slot leaves what the opposite order does. `SlotsAccounted` says what comes of it.

The configuration is the packed one: the modules read it through `ConstConfig!From`. Words are
sets of bit positions. `IsLegal` is what the types and the comments of the fields admit; a const parameter that
compiles always tells such a configuration, even where it is not the one given (see below), which is
what `FramingsAssumption` says of `Configs`. `ConfigRoundTrip` gives each field of the dialog's
configuration any other legal value, and a message form any size.
`Framings` puts the three dialogs together: `Init` chooses a form and one of its `Configs`, `Framed` is the
refinement of `FramedLink`, whose mapping is the identity on `sent` and `got`, and `NothingHeldBack` says that no
message that arrived waits for the next one. `SizesReadBack` is what the serialized form needs of a
configuration: that the bytes a size is sent in give it back; `LimitsAgree` is when it has it.

### Umpire and PingPong

`Umpire` is pure: `ProcessTurn` (`Umpire::process_turn`) and the reactions to what the other
party tells, each as the set of its outcomes over the lucky numbers of `act()`. Only the
probabilities a number falls between matter, so numbers stand for these classes.
In `PingPong` each party has a `dialog` (`PreGame`, textual, then `Game`, mmap) and a `phase` of it.
An action of a processor takes a message and answers; the library's part is abstracted from
`ServerService`, `ClientService` and `DialogSession`: `PeerLeft`, `DialogEnds` (the routing closure looks at the
connection's state), `ReadInVain` (a dialog whose processor ended may still read), `HangUp`, and
`DialogEndsEarly`: the client's processor closes its own peer, so its connection may be routed
before `PeerLeft` sets the state. `Sever` breaks the connection anywhere.

### ConnectionLife, and refinement

`ServerService!KeepsPromise` and `ClientService!KeepsPromise` say that both services
implement `ConnectionLife` under a mapping: a connection is `served` while its dialog
is going on, `held` in any queue or hand, `gone` when disconnected or dropped. `Drop` may come at any
time and says nothing to anybody, as the code does on several paths: the contract is about what is said and
in which order, and does not demand a `Disconnected`. That it comes is what `ClosedIsReported` is for.

## Runs

| Run | Question | Result |
|---|---|---|
| `server_safety` | custody, events, closed connections, order of shutdown, refinement | holds |
| `server_setup` | whatever the program calls: accepted connections are served or given up, closed ones reported, the waiter returns and answers for all | holds |
| `client` | two processors: reports, hand back, refinement, callbacks complete, the end of a stream ends the dialog | holds, while reports are read |
| `client_single` | single protocol mode: the addresses, termination, `Disconnected` | holds |
| `client_connected_flag` | is the client connected during a dialog, with two processors? | no |
| `client_termination` | does a terminated client end its connection, with two processors? | no |
| `session` | order, refusals, graceful end, hand-over of the state, no mutual wait | holds |
| `session_aborted` | does a refused answer close the connection? | no: it is handed back open |
| `session_slow_reader` | does a refused answer end the dialog? | no: not while it is writing |
| `framings` | messages whole, in order and at once; slots; configuration | holds, sizes read at once |
| `framing_size` | is a size prefix read until it is filled up? | no: not when it comes in two reads |
| `ping_pong` | umpires, rules, turns, session, end of the match | holds, two stalls apart |

### Bounds, and why they are enough

- Server: all channels have capacity one (two in the code): with four
  connections one can wait in every place (the processor's queue, its loop, the
  routing task's hand, the returned channel) at once, so that every send blocks in
  some behaviour; with two of them, in `server_setup`, any two channels can block each
  other. Two processors: one to leave and one to arrive at, which is all a routing
  decision involves. Connections are symmetric in the safety run only.
- Client: one connection and two processors, since each serves once: a third
  routing finds a used one. `client_single` has one processor, two addresses -- one listens and the
  other does not, in either order -- and strategies with no retry, fewer attempts
  than addresses, more of them, or a deadline. `FailuresBound` caps the counter of failures above
  anything it is compared with.
- Session: four messages and channels of one: two messages can be refused, one after
  the other and before or after the unknown one, while both channels are full.
- Framings: three messages (`MaxSent`) out of five payloads, among them an empty one, one that holds the end of
  line and one of five bytes: lines can be cut at every byte and several of
  them come in one read; the serialized dialog's limits make sizes of one and of two bytes;
  the mmap dialog has channels of one and two slots and messages of two bytes (`Size`), so that a slot is
  found full, half full and refused. `Base` is 5.
  `Octets` are the u8 values that fields are given, one for each shape that matters: none, one, alternate and all bits set. `MaxExponent`
  is the highest power of two they are given: 30, where TLC's integers stop, for the program's 31 (which the theorems cover).
  `SizeAtOnce` is an assumption, not a bound: with it the serialized dialog holds, without it `framing_size` shows it does not.
- Ping-pong: three scores to win (`ScoreLimit`), so that the service changes hands and returns,
  four classes of luck (a mishit, which is soft in a service and hard in a rally; a net touch; a ball out; a good one) and two versions,
  that agree or do not.

No other counter needs a bound: events are counted, and that they stay at one is one of the
properties.

### Fairness

Tokio polls every task that was woken: each task's next step is weakly
fair. `select!` picks among ready branches at random and a full channel serves its
senders in order: the branches of the routing task, `StopListening` and `HandBack` are
strongly fair (`ServerSetup!SetupFairness`, `ClientService!Fairness`). Nothing obliges a remote to connect or leave, a dialog or a stream to
end by itself, or the program to spawn, start, wait or terminate: the client's waiter is only fair while
it is awaited. User callbacks return.
In a session the dialog and the processor's task are weakly fair and timeouts elapse;
the remote owes nothing: it may stop reading for ever. A retrying strategy runs out, as all
do (`ConnectRetries` inherits this from the client's fairness of `Start`).
In the ping-pong, messages are processed, tasks polled, and a player that
is given its turn again and again faults at last (`Faults`, strongly fair): lucky numbers are random. The
framings have no liveness property: `NothingHeldBack` says what there would be to wait for.

In every state where the models stop, they may (`Stopped`, `Over`): deadlock is checked in every run.

### What was found

- `client_connected_flag`: the flag is shared by all processors and a late `PeerLeft` of
  one resets what the next one set.
- `client_termination`: processors subscribe to the termination broadcast when their
  connection arrives, so a `terminate()` issued earlier is not heard, and the unused
  processors keep the broadcast open.
- `session_aborted`: a responsive stream that is refused cancels the peer, and the dialog
  ends as if the processor were done: the connection is handed back as open.
- `session_slow_reader`: that same cancellation is not noticed by a dialog that awaits
  `write_all()`, which is where a slow reader keeps it.
- `framing_size`: the buffer of the size prefix is cleared at each turn of the loop; a
  prefix that comes in two reads, or with a send in between, is completed with bytes of the payload.

Found while modelling and not given a run:

- After `terminate()` the routing task ends without waiting for the dialogs that go on: when they find
  their sockets closed the connections are dropped with no `Disconnected`, which `types.rs:49` says
  "Happens as soon as a disconnection is detected". `ClosedIsReported` is about a server that was not terminated.
- A processor that sets no state hands the previous one over (`socket_services/types.rs:98` says the `Default`
  value), and what the remote sent for the next processor is lost with the read buffer, or with the
  channel, of a dialog whose processor ended by itself.
- `start_multi_protocol()` does not fail "if no processors were configured" (`socket_services/types.rs:105`). With none, or when the
  closure owns no processor's channel, the routing task of a server that is terminated may end
  before its listener, whose `BUG!` branch is then reached (`ServerSetup!FeedNobody`).
- A failed start drops the routing closure with the senders it owns, so these processors end: a second
  attempt finds them gone, and the waiter returns.
- A sender's limit that needs a byte more than the same configuration's receiver limit compiles: the sizes of the largest
  messages are then cut to fewer bytes than they need (`SizesTold` says for exactly which limits).
- `linger_millis` of `Some(0)` comes back from the configuration as `Some(1)`.
- A client whose waiter is not awaited has room for one processor's report (`socket_client.rs:353`). The `PeerLeft` callback of the next one
  blocks in `common.rs:44` before `flush_and_close()` (`socket_connection_handler.rs:185`): its peer stays open, and the dialog
  goes on until the remote leaves or `terminate()` comes. `StreamEndEndsDialog` and `EventsComplete` hold but for that state, `Unread`; without
  the exception TLC finds it.
- `terminate()` without having taken the waiter, or a waiter dropped by a timeout, makes every later report fail with what
  the code calls a "Socket Client BUG" (`common.rs:45`, `ReportFails`): the callback goes on all the same. `EveryReportCounts` shows that a waiter that
  returned is never the cause.
- A refused reservation cancels the slot that was just published: should the channel comply, the slot is free while the processor
  has yet to read it. Nothing is overwritten, since the dialog that could reserve it is over.
- That a serialized message is below the sender's limit, which `SerializedSend` takes as a guard, is a `debug_assert!`
  (`serialized_binary_dialog.rs:129`): a release build sends a longer one, with a size that may be cut.
- A refused reservation ends the mmap dialog under every strategy; under `DoNotRetry` it does so
  without reporting the connection closed, which is handed back in the middle of what the remote sends.
- `RetrySpinningForUpToMillis` is a `todo!()` for a client's connection, and a host that resolves to no address panics.
- In the example, the client services the first ball once only: if that is a soft fault both parties wait for ever (`FirstServiceLost`);
  a `GameStarted` that comes while the client's `PreGame` dialog is ending is lost (`lostStart`); the client may enter the
  `Game` dialog again for a moment, when its connection is routed before `PeerLeft`; the session of a client that
  leaves between the dialogs stays, as a TODO of its handler says; and in a rally a net touch counts as a
  net block, since the probabilities add up in the order `HardFaults` is searched.

## Proofs

Every theorem holds for all values of the constants that the named assumptions of the models admit:
`ServerAssumption`, `ClientAssumption` and their like say that the null values are not members of the sets they stand
apart from, that capacities and bounds are natural numbers or positive ones, that bytes are bytes. TLC evaluates them in each
run. Each proof has the same shape: an inductive invariant `IInv`, one lemma per action (or group of
actions) that preserves it, and the properties as consequences.

### The server

`ServerServiceProofs`. `IInv` is `TypeOK`, `Consistent`, `EventsPaired` and `ShutdownOrder`; `Consistent` is what
remains true however the server is used: `Types`; `Registers` (a
task holds a connection exactly in the states that deal with one); `Placement` (what
is being done with a connection tells where it is, and conversely); `NoDuplicates`
(no channel holds a connection twice: without it receiving one would not remove it); `EventsOrdered`;
`ClosedPlacement` (where a closed connection can be). `ShutdownOrder` tells which part can be over when another
is. `ExclusiveCustody` is not inductive: that the connection received from a channel is
nowhere else needs `Placement` in both directions. The channel facts are in `ChannelLemmas`.
From it follow `TypeCorrect`, `Custodial`, `ClosedStaysAway`, `EventPairing`, `NoBugBranch`, `Termination`,
and `Promised`: every step is a step of `ConnectionLife` or leaves it unchanged.
`ConnectionLifeProofs` proves what that contract amounts to.

Its last part, about `ServerSetup`, has other initial states and other ends of a loop, so `ShutdownOrder` does not hold there (the
`BUG!` branch can be reached, see above). `SetupIInv` is `Consistent`, `WaiterInformed` (the waiter waits for all that was
spawned, and is only told of loops that ended) and `RoutesServed` (connections are only assigned to processors the routing closure has a sender of,
and a loop only ends with no sender and nothing in its channel). It gives `AnswersForAll`:
the waiter returns only when every processor it was taken for is over, in whatever order the program
spawns, starts, drops and terminates; and the custody, closed connections and contract of the server.

### The client

`ClientServiceProofs`: `IInv` is `TypeOK`, `Custody` (`conn` agrees with the program counter of the task that has
the connection), `EventsInOrder`, `HooksFollowTask` (how far the executor's and the listener's closures can be, given
the task they belong to), `EveryReportCounts` and `WaiterLeavesNobody` (what the waiter counted is what was reported, and only a
receiver the program dropped is missed by a report). Which
of the two closures reports is decided by who takes the report's sender, and the invariant holds
whichever it is. It gives `ReportsCount`, `OkAfterAll`, `ReturnSucceeds` and `Promised`.
Its last part, about `ConnectRetries`, shows that the client with its attempts implements `ClientService` (`IsClient`), which carries all of the above over to it, and
that an address that listens is not missed (`FindsListening`): the failures are at least as many as the addresses tried.

### The session

`DialogSessionProofs`: `IInv` is `TypeOK`, `Handling` (only a closed dialog leaves part of what it read not dealt with), `InOrderSoFar` (what
was dealt with was delivered in order, without a gap where refusals count), `GracefulSoFar` (at each step of the closing procedure, what the earlier ones left in
the channels) and `StateIsKept` (the state that is due waits in the peer). `InOrder` and `GracefulEnd` are about delivered or returned ones only and are
not inductive. It gives `DeliveredInOrder`, `RefusedIsClosed`, `EndsGracefully` and `HandsStateOver`, for
any number of messages and any sizes of the two channels.

### The dialogs

`FramingsProofs`. That the messages relayed are the messages sent is a fact about bytes: the invariant is
`Spelt(stream, at, frames, n)`: the bytes the reader holds followed by those on the wire spell the frames of the
messages still to relay, one after the other, whatever the pieces they come in. `FrameWritten`, `FrameFound` and `FrameRead` are what
writing, finding and consuming a frame do to it. For the textual dialog it comes with what the indexes mean (nothing before
`this_line_search_start` is an end of line); for the mmap dialog with `Accounted` (a slot is free, reserved by the reader, or
published and in the channel, once, but for the last slot of a dialog that is over); for the serialized dialog with the size that is awaited.

- `LinesAndSlotsFramed`, `NoLineNorSlotHeldBack`, `SlotsNeverLost`: the textual and mmap dialogs implement `FramedLink`, hold nothing back
  and account for every slot, from `WireAssumption`, `MmapAssumption` and `FramingsAssumption`.
- `AllFramed`, `NothingLeftBehind`: so does the serialized dialog under two conditions, which the theorems state.
  `SizeAtOnce` excludes the defect `framing_size` shows: it is what makes them hold. `SizesReadBack` says that sizes the
  sender takes are read back.
- `SizesTold` says when that is, from the same assumptions: exactly when no size the sender takes needs more bytes than the receiver's limit does. It
  is so whenever the sender's limit is not above the receiver's (`LimitsAgree`), and it is not when the
  sender's is above by a byte, which nothing in the code refuses.
- `ConfigsRoundTrip`: whatever const parameter a dialog is built with, each field can be given any legal value, which fits and comes back with all the others.

### Numbers and configurations

`ConstConfigProofs` is about `Numerals` and `ConstConfig`, and about no behaviour. What these compute is defined by recursive
functions, so two facts come first. `SetInduction` is induction over a set of numbers: the first one that is not in it
would be a least element, of those `WFMin` gives. `Recursion` says that the function which follows a first value and a step exists, as the limit of
the functions that follow it for a while: without it a recursive definition, which is a `CHOOSE`, tells nothing.

- A number is read back from some of its digits exactly if nothing is left of it after as many shifts (`DigitsTell`); the loop that counts
  its digits ends and counts these (`DigitsEnd`). With base 2 this is about fields, with `Base` about the bytes of a size.
- The exponent of a power of two is told by as many bits as its field has (`PowerTold`).
- What is stored in a field is what is read from it, and no bit out of the field changes (`FieldStored`); the fields do not overlap (`FieldsApart`);
  so that at the end of `into()`, which stores one after the other, all of them are there (`AllStored`, by induction over the stores).
- The fields that pack several values tell each of them: `StrategyTold`, `SocketTold`, `FormTold`.
- `ConfigTold` puts these together: every legal configuration fits, and `From(Into(c)) = c`.

### The ping-pong

`PingPongProofs`, for any `ScoreLimit`, any `Luck` and any `Versions`. It has three parts:

- The umpire. `Mirrored(u)` is umpire `u` seen from the other side. `OurTurn` is the lemma all rests on: the turn a player takes
  with `u`, taken again by the opponent with `Mirrored(u)`, ends in the mirror of what it left, and with the same event -- up to the winner of
  a score, which each tells from its own side, and the final score. `Tells(u, events, v)` says what a player tells of a whole turn: soft faults, then what ended it.
  `BallServed` shows that a service keeps to it, with the three attempts there are, and `Reacting` that the opponent
  who is told so finds nothing to complain about and takes its own turn.
- The parties' progress: how the phase, the dialog, the state and the session of a party go together (`PartyProgress`, `SessionFollows`). It
  gives `SessionIsReleased` by itself.
- The conversation. Which message may be answered depends on who said what last, so the invariant names the stages of it, each with what is in
  flight: `BeforeTheGame` (`Silence`, `VersionTold`, ... `Starting`), `InTheGame` (`Turn(p)`: events are in flight to `p`, and are what
  the other player tells by its umpire) and `AfterTheGame`. `HeardWhen` tells the stage by what a party is about to
  process; `MovesOn` shows that a party that comes, leaves or is routed leaves the stage as it is.

`IInv` is these with `TypeOK` and `UmpiresSound` (no player has the scores for the match unless it is over), and TLC checked it before.
None of the properties is inductive: that no umpire complains (`FairPlay`) needs the umpire at the other end to be the mirror of
one's own up to the events in flight, which needs what those events are, and that nothing else is said meanwhile. They follow from it:
`PingPongTyped`, `GameIsFair`, `PlayersTakeTurns`, `StallsAreTheTwo` and `UmpiresKnowTheMatch`. For the last one `Replaying` gives the umpires a
replay goes through one by one, which is no induction since `ServiceLength` bounds the events in flight by three.

### Only model-checked

- Every liveness property, in every module: fairness and `ENABLED` are out of the prover's reach.
- The inductive invariants of the framings range over all the sequences that spell the rest of the wire: TLC checked
  the properties they imply, not the invariants.

## Not modelled, and the plan

What is left: two ends of a dialog over bounded sockets -- the mutual blocking of writers, partial writes, and two
different configurations.

Left out for good: `serde/` (conversions by libraries), the retry loops of
`keen-retry` and the channels of `reactive-mutiny` (not in the repository; modelled as
the code uses them), tokio, logging and statistics, the other examples, benches, tests, and
the macros, which only choose types. The models assume that whole writes are made, that the two
ends of a wire have the same configuration, that a failing bind leaves nothing behind and that user
callbacks return.
