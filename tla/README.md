# Verification of re-bacs-env

TLA+ models of the networking and serialization libraries of this repository
(`bacs`, `gspp-net`, `plakpacs`, `bpacs`, `bpjson`; C++ headers), TLC runs that
check them on small instances, and theorems about them that TLAPS proves for
every value of the constants. The code has no tests; what it promises is taken
from its comments and exception messages.

## 1. The system

| Component | State | Operations |
|---|---|---|
| `StreamClient` (`gspp/stream_client.hpp`), write half | `SharedStateBlock`: `write_queue`, `shutdown`, `write_lock`, `socket` | `Send`, `CloseSocket`, destructor; `WriteAsync` and its handlers |
| `StreamClient`, read half | `onHandle`, `onDeath`, the read in flight | `StartReceiveLoop` and the handlers of `async_read_sp_loop` |
| `bacs` asynchronous helpers (`bacs/bacs.hpp`) | the operations in flight, the buffers they use | `async_write_sp`, `async_read_sp`, `async_read_sp_loop`, `async_accept_loop` |
| `DualConnection` (`gspp/dual_connection.hpp`) | `_killed`, a stream client, a datagram client | `SetupStreamClient` (its callbacks), `StartReceiveLoop`, `ScheduleDisconnect`, `Close` |
| `DatagramConnection`, `DatagramClient` | socket, one receive buffer | `Send`, `RecvLoopAsync`, destructor |
| `HandlerSystem` (`gspp/packet_handlers.hpp`) | `_handlers`, a map from packet type to handler | `RegisterHandler`, `HandlePacket` |
| `plakpacs` streams and walkers | `write_stream::_bytes`; `read_stream::_bytes`, `_position` | `serializer::write`, `serializer::read`, one `binary_walker` per kind of type |
| `io_worker`, `io_worker_pool` | threads that run an `io_context` | constructor, `run`, move, destructor |
| `async_accept_loop` | the one socket it accepts into | accept, call the handler, accept again |
| `Componentable` | `_components`, a locked map from type to component | create, get, has, destroy |
| `bpacs` | none (compile time) | iteration over the fields of a type |
| `bpjson` | none | `json_serializer` and one `json_walker` per kind of type, modes for missing fields |

**Interaction.** A `StreamClient` owns a `SharedStateBlock` together with every
handler that waits to be run. User threads call `Send` and `CloseSocket`; io
threads run handlers. Writer and reader share only the socket: a close by the
writer aborts the reader's read. The reader calls back into `DualConnection`,
which hands the packet to `HandlerSystem`, which reads it with `plakpacs` and
calls a user's handler; that handler may call `Send`, `Close` or
`ScheduleDisconnect` again. Frames are a size (`SPTraits::size_type`) followed by
the data. A server runs `async_accept_loop` and the handlers of the clients it
makes on the threads of a worker or a pool; those handlers keep what belongs to
a connection in its `Componentable` part.

**What is hard.** Sends and closes that fall between two handlers of the chain
of writes; a close deferred to a handler of another thread; packets handed over
after a close or a kill; two kinds of failure of a read (error code, failed
allocation reported as success); exceptions through the callbacks; the life of
the state block, of the buffers of a write and of the objects the callbacks
capture; unsigned arithmetic in a bounds check; readers and writers of two
versions of a schema; an `io_context` that stops for good when a thread finds no
work; a destructor that joins threads which still run handlers; bare references
to components, and component destructors that run under the lock; objects that
are read into uninitialised, or for a second time. `PROJECT.json` lists each hazard at its line with the
properties that watch it.

**What makes each component correct.** One write in flight, frames whole and in
the order of `Send`, a close never lost and never cutting a frame (write half).
Packets in order and complete, `on_death` the last word, a loop that ends when
the socket is closed (read half). A state block that is released in the end, and
not before its socket is closed (both). At most one packet after a kill; no
silent stop (`DualConnection`). A buffer that is quiet while it is handled, a
loop that survives errors (datagrams). Whole packets for handlers, an exception
exactly for short ones, as long as none is shorter than one value
(`HandlerSystem`). Round trip, no packet taken for another, containers within
their limits (`plakpacs`). A shared socket that is quiet while it is handed over,
connections served, a destructor that comes back and leaves no handler running
(workers). References that are good as long as the code lets them be
(`Componentable`). Round trip, exceptions exactly for missing fields, nothing
left over and nothing left uninitialised (`bpjson`).

## 2. Modules

| Module | Models | Notes |
|---|---|---|
| `StreamSocket` | the contract of an asio stream socket (external) | status of an operation: pending, ok, failed |
| `StreamWriter` | `Send`, `CloseSocket`, `~StreamClient`, `WriteAsync`, `async_write_sp` | one action per critical section of `write_lock`; the handler between size and data, which takes no lock, is its own action |
| `FrameStream` | abstract specification of the write half | no queue, lock, handler or socket |
| `ReaderBounds` | the parameters of `StreamReader` | extended by it, `DualConnection` and `StreamClient` |
| `StreamReader` | `StartReceiveLoop`, `async_read_sp_loop`, `async_read_sp` | one action per handler; callbacks entered and left separately |
| `StreamClient` | both halves over one socket, a `Send` that throws behind its push, life of the state block | instances of `StreamWriter` and `StreamReader` |
| `DualConnection` | callbacks of `SetupStreamClient`, owner's calls | instance of `StreamReader`, its stage "handling" unfolded |
| `DatagramConnection` | receive loop, sends, destructor | |
| `ReadStream` | the bounds check of `read_stream`, in words | shared by the next two |
| `PacketDispatch` | `RegisterHandler`, `HandlePacket`, `read_object` | a schema is a sequence of field widths |
| `BinaryWalkers` | `serializer` and the walkers, value to bytes and back | a table of declared types, and one recursive function over it |
| `PacketCodec` | a packet from writer to reader, cut, grown or foreign; what a type's reads are bounded by | over `BinaryWalkers` |
| `WorkerPool` | `io_worker`, `io_worker_pool`, `async_accept_loop` | no `Next` of its own |
| `Componentable` | the component map, its lock, the references it hands out | no `Next` of its own |
| `Server` | handlers on the threads of `WorkerPool` that use a `Componentable` | instances of both |
| `JsonWalkers` | `json_serializer`, the JSON walkers and nlohmann's traits | declared types and walkers as in `BinaryWalkers` |
| `JsonCodec` | a document from writer to reader, a member lost, or foreign | over `JsonWalkers` |
| `MCPacketDispatch`, `MCPacketCodec`, `MCJsonCodec` | schemas, types and values for TLC | |
| `StreamWriterProofs`, `StreamReaderProofs` | theorems about each half; the write half implements `FrameStream` | |
| `StreamClientProofs` | theorems about both halves together | instances of the two above |
| `DualConnectionProofs` | theorems about `DualConnection` | instance of `StreamReaderProofs` |
| `DatagramConnectionProofs`, `ServerProofs` | theorems about the other state machines | |
| `PacketProofs` | theorems about the binary walkers, `PacketCodec` and `PacketDispatch` | extends both, whose names are therefore distinct |
| `JsonCodecProofs` | theorems about the JSON walkers and `JsonCodec` | |

How state corresponds to code:

* `StreamWriter`: `write_queue`, `shutdown` are the fields of that name; `ops` is
  what asio holds of `async_write_sp` (a set, so that two concurrent writes are
  expressible); `wire` is what the kernel took. Packets are numbered by `Send`.
  `closing` and `horizon` are history. `AsyncWrite` may complete in the call, stay
  pending or fail; what is taken later is read from buffers nobody owns any more.
* `StreamReader`: `stage` and `status` are the operation in flight; `inbound` and
  `rpos` count parts of frames that arrived and were read. After a failed
  allocation the reads are out of step (`synced = FALSE`) and may give anything.
* `DualConnection`: `phase` is the position inside `on_handle`; the flag `_killed`
  is stored when the store becomes visible to the reading thread.
* `DatagramConnection`: `receive` is the receive in flight, `holds` the datagram in
  the one buffer.
* `StreamClient`: `stalled` is history, a `Send` that threw `bad_alloc` after its
  push. `StreamWriter` leaves that out, so its theorems are about writers whose
  allocations succeed; those of `StreamClient` are about both.
* `WorkerPool`: `thread` is where each thread is, in or before `io_context::run` or
  in a handler; `stopped` the flag of the `io_context`, which nothing in the code
  resets; `accept` and `peer` the accept in flight and the connection in the loop's
  socket. A `session` stands for the reads of the client made of a connection:
  it keeps the `io_context` at work and its handlers use components. `kind` tells
  an `io_worker` (one thread, `run`) from an `io_worker_pool`.
* `Componentable`: a member function is an action, possible when nobody holds
  the lock. Only the destructor of the component that is erased or replaced is
  told apart (`call`), because it runs under the lock; it may call back, and
  then hangs (`"stuck"`). `ref` is the `ComponentRef` that a handler keeps until
  it returns.
* `JsonWalkers`: documents are null, numbers, texts, arrays and objects, nested no
  deeper than `Depth`; an object has no or one member of each name. A walker is the
  pair of functions that `write` and `read` are for a type, `read` from the document,
  what the target holds and the mode. A reflected type is taken field by field: an
  `object` is one field and the object from the next field on, up to `end`. `Junk` is
  the value of a number nobody initialised, so that a field left as `T value;`
  made it is visible.
* `JsonCodec`: `Format` says of each type which values a document can carry, which
  documents have its shape, in which of them no field is missing, and in which modes
  something of the target shows through or stays unset. The properties are stated in
  its terms, for all types alike.
* `PacketDispatch`, `PacketCodec`: `WordSize` is the number of values of
  `std::size_t`; differences wrap. `Base`, `SizeWidth` and `SpLimit` stand for 256,
  4 and 65536, in the same order: a container may exceed `SpLimit`, and a larger
  one the width of its size.
* `BinaryWalkers`: `Declared` is the program's types in the order of their
  declaration, so that a type names those it is made of by a smaller number. A
  walker is the pair of what `write` and `read` do for a type. Besides a value and
  an exception a read has the outcome `Undefined`, where the code has none: a read
  that the bounds check lets past the end, a `bool` from a byte that is neither 0
  nor 1. `Junk` is the byte that an empty type writes.
* `PacketCodec`: `Format` says of each type which values survive a packet
  (`portable`), what may be read of one that lost its end (`shortened`) and whether
  no two walkers disagree about its bytes (`exact`). `Bounds` says which values keep
  the limits of a type's containers (`within`) and how many bytes the widest single
  read of it takes (`widest`).

## 3. Runs

| Run | Question and bounds | Result |
|---|---|---|
| `Writer` | `StreamWriter`, 4 packets, errors final. With four packets one is in flight, two queue behind it and one is sent after a close; more add only longer queues (the theorems cover those). | one write in flight, wire a prefix of the frames, close armed and graceful, implements `FrameStream` with its liveness |
| `WriterIntact` | 2 packets | violated: the kernel may read released buffers (finding) |
| `Client` | 2 packets, 1 frame, 2 loops, writes that fail on a live connection, allocations that fail on either side | order survives errors and throwing Sends, nothing beyond the horizon; queue drains, close ends both halves, no leak, unless a `Send` threw |
| `Dual` | 3 frames, 2 loops, failing allocations, every outcome of the callbacks. Two loops suffice to show what a second one inherits from the first; the third frame is the one after the packet that may follow a kill. | packets in order, one late packet at most, one packet after a kill, silent stop only when killed, announced end and death final, frames delivered, killed loop ends |
| `DualRightAway` | 2 frames | violated: returning false does not disconnect (finding) |
| `DualDangling` | 2 frames | violated: callbacks run on a destroyed connection (finding) |
| `Datagram` | 3 sends, 4 arrivals, receives that fail at any time | quiet buffer, a loop that neither an error nor the owner's end stops |
| `Server` | 2 threads (a pool of both, or a worker with one), 2 connections, 1 component. Two connections are what a shared socket can confuse, two threads what a pool adds to a worker. | socket quiet, stops only without the loop, no handler after the destructor, references on one thread, connections served, destructor returns |
| `Dispatch` | 2 types, 3 schemas, packets of 4 to 8 bytes, words of 32 values; widths 0, 1, 2 and 4 meet every size around every boundary | reads inside, whole packets, an exception exactly when short |
| `DispatchShort` | packets from 0 bytes | violated: the bounds check wraps (finding) |
| `Codec` | 7 types combining the walkers, containers up to 4 elements with a limit of 2 and a 2-digit size in base 2 (3 is refused, 4 wraps), every cut and growth, all foreign bytes up to 7 | round trip, a cut noticed unless less is left than one read takes, canonical, limits kept |
| `Json` | 7 types combining the walkers, containers up to 2, two numbers, documents up to `Depth` 4, deeper than these types write any, every loss of one member, all documents of two levels over two names, 3 modes, new and used targets | round trip, throws exactly on what is missing, replaces what the target held, leaves nothing unset, each with the types it excepts |

The type invariants of `PacketDispatch`, `DatagramConnection` and `StreamClient` are
proved and not run again; the last joins those of its halves, which `Writer` and
`Dual` check. The codecs have none: their state is the value they work on.
The loop of `StreamReader` is checked under the real callbacks, in `Dual`, and with
the write half beside it, in `Client`.

`CHECK_DEADLOCK FALSE` is stated everywhere because every system here may stop:
the users stop calling and the peer falls silent, or the process has terminated.
Symmetry is not used: packets are ordered.

**Fairness.** Weak fairness of handlers: some thread runs the `io_context`.
Of the kernel: what can be written or read is, and operations on a closed socket
are aborted; a peer that keeps a connection open and never reads is excluded
for the writer, and a peer that is silent is allowed for the reader. Of
callbacks: the user's functions return. Nothing is assumed of the users'
calls. In `DualConnection` the close of the write half is fair, which
`CloseEndsBoth` of `StreamClient` establishes. In `Server`, threads take up what
waits and leave a stopped `io_context`, and a pending accept completes when a
connection has arrived (weak fairness); that a handler returns and that the
accept handler's turn comes needs strong fairness, because other threads may
hold the component lock, or serve sessions, in between again and again: a
handler makes finitely many calls, and asio's queue is served in order. Owner,
peers and failures are under no fairness, so `ConnectionServed` does not need a
destructor that is called, nor `DestructorReturns` a connection that arrives.

## 4. Findings

1. `async_write_sp` does not keep its buffers alive (`bacs.hpp:167`): run `WriterIntact`.
2. A false from `on_handle` does not disconnect, against the comment at
   `dual_connection.hpp:81`: run `DualRightAway`.
3. The callbacks capture a bare `this` (`dual_connection.hpp:53`): run `DualDangling`.
4. `can_read_num` wraps on a buffer shorter than the value (`plakpacs.hpp:542`):
   run `DispatchShort`, and theorem `CheckWraps` for every size. For the same reason a
   packet cut to fewer bytes than one of its reads takes may be neither refused nor
   taken for shorter: it is read beyond its end. `CutIsNoticed` excepts these
   packets by their length (`widest`) and `Dispatch` has none.

Met while modelling, without a line of the repository that says otherwise, and
listed as hazards: the datagram loop re-arms itself for ever on a closed socket
(`LoopGoesOn` states it); `DatagramConnection::Send` prefixes a size that the
receive loop does not take off; a field of an empty type is written as one byte
and read as none; `io_worker::run` and the destructor both join, and the
second join throws out of the destructor; a pool that is moved stops the
`io_context` of its successor; one failed accept ends the accept loop for good;
a thread that enters `run` before the first operation was started stops the
`io_context`; a component's destructor runs under the lock of the map, and hangs
when it uses the map (`DestructorReturns`, `ConnectionServed` name it); a `Send` that
throws `bad_alloc` behind its push stops the chain of writes and every later
close. In `bpjson`: `force_optional` is looked up for the object's type, whose
walker never sets it, so an optional member must be there under
`throw_exception`; the settings are not passed on into containers, maps and
optionals; an empty container is written as null, which an optional around it
reads as absent; containers are added to, optionals and numbers replaced.

## 5. Proofs

`StreamWriterProofs` (about `StreamWriter`, assuming only `WriterAssumption`:
`MaxSends` a natural number, `TransientErrors` a Boolean). The properties of the
write half are not inductive one by one: that a restarted chain keeps the
order needs to know which packet is at the front, what of it is on the wire and
that nothing else is in flight. The invariant `IInv` joins them with

* `QueueIsTail`: the queue holds consecutive packets, the last of them `sent`;
* `WireBounded`, `WireFilled`: the wire ends at or before what the write in
  flight has reached, and exactly there on a usable connection with final errors;
* `CloseState`: after `CloseSocket` the socket is closed, or `shutdown` is set and
  the front packet is the horizon.

`WriteStarts` is the lemma the steps share: what a new write does to wire and
operations when none is in flight. There is one lemma per action and `NextStep`
joins them. The theorems `WriterTypeOK`, `WriterSingle`, `WriterOrder`,
`WriterClose` and `WriterHorizon` follow from `WriterInvariant`.

`WriterImplements` states that with errors that are final
`Spec` implies `Stream!SafeSpec`, that is `FrameStream` without its fairness, under
the mapping `ImplementsFrameStream` is checked with. With final errors `IInv` makes
the wire a prefix of all frames, so that its length determines it
(`FramesOfPrefix`), and a step that adds a part adds the one the abstract stream
emits next (`StreamGrows`). `Send` maps to `Accept`; the first `CloseSocket` to
`RequestClose`; `SizeWritten`, `Transmit` and a `WriteDone` that restarts the chain to
`Emit`; a `WriteDone` that carries out the close to `Shut`; `LinkDown` to `Break`;
all else stutters. Without that condition the claim is false: a write that
fails on a connection that lives on leaves out its frame.

`StreamReaderProofs` (assuming `ReaderAssumption`: bounds that are natural numbers).
`PacketsInOrder` and `OneLatePacket` become inductive with

* `InStep`: while reads are in step, the parity of `rpos` is that of the part the
  loop is at;
* `DeathIsFinal`: a read that failed leaves nothing that could be read, so that no
  later loop hands over a packet;
* `LateIsLast`: after a late packet every read fails.

`StreamClientProofs` (assuming `ClientAssumption` and `ReaderAssumption`). Every step
of the client is a step of the read half or leaves it alone (`ReaderStep`), and a
step of the write half, no step of it or a `Send` that throws (`WriterStep`). So
both invariants hold in the client, the write half's until a `Send` throws, and
`Stuck` from then on: a packet that nobody writes stays at the front, no write is
in flight, and that packet lies behind all that is on the wire, which is why a
close that waits for it still keeps `NothingBeyondHorizon`. With `OwnerCloses`, the
object never goes without a `CloseSocket`, `ClientRelease`, `ClientOrder`,
`ClientHorizon` and `ClientReads` follow. `ClientImplements` carries the refinement
over to a client with a receive loop.

`DualConnectionProofs` (assuming `ReaderAssumption`): every step is one of the
receive loop or leaves it alone (`LoopStep`), which gives `ConnectionOrder` and
`ConnectionLatePacket`. `KillIsSeen` relates the flag to where `on_handle` is, so that
the packet that follows a kill does not ask for another; `EndIsTold` relates what
`onHandle` and `onDeath` were told to whether the loop goes on. They give
`ConnectionKill`, `ConnectionSilentStop` and, as a property of every step,
`ConnectionEndIsFinal`.

`ServerProofs` (assuming `ServerAssumption`: a finite, non-empty set of threads, any
number of connections, types and components). `PoolInv`: one thread at most is
between an accept and its re-arming (`OneAcceptHandler`), a loop that was started
and has not failed always is work (`LoopIsWork`), and the accept in flight agrees
with what is in the socket (`AcceptState`). `RegistryInv`: the map holds live
components, each under one type. They give `ServerSocketIsQuiet`, `ServerStops`,
`ServerDestructor` and `ServerReferences`.

`PacketProofs`, on dispatch (assuming `WordAssumption` and `DispatchAssumption`):
`CheckIsExact` and `CheckWraps` say what the bounds check computes on long and on
short buffers; `DispatchReadsInside` says that no read passes the end when no
packet is shorter than a value read from it, with the invariant that the
position is inside and the remaining fields are no wider than a packet;
`DispatchTypeOK` is type correctness without that condition. `ReadsSchema`, that the
position and the fields still to be read add up to the schema, gives
`DispatchThrows` (a read throws exactly on packets shorter than their schema) and
`DispatchWholePacket`, both again when no packet is shorter than a value read from
it: below that the check wraps and short packets are not refused. What fields
add up to is the recursive function `Width`; that its equation has a solution
(`WidthOf`) is proved by taking the shortest sequence for which it would not
(`LeastNumber`, from the library's `WFMin`), because the theorems of induction
themselves take an operator and cannot be used here.

`DatagramConnectionProofs` (assuming `DatagramAssumption`): at every time exactly one
of two things holds, a receive in flight (or its handler waiting) or `onHandle`
running on the buffer filled last. `DatagramBufferIsQuiet` and
`DatagramLoopGoesOn` follow.

`PacketProofs`, on the codec (assuming `WordAssumption`, `WalkersAssumption` and
`CodecAssumption`: any byte of at least two values, any width of a size that fits into
a word, any limit that fits its width, any types declared in order, samples whose
packets fit into memory). `Keeps` says what a walker owes the format: it reads back
what it has written, whatever follows (`ReadsBack`); from no bytes it reads nothing but
what was left out (`ReadsNothing`); from a part of a value's bytes it reads a related
value, up to their end, or gives none, because it throws or reads on behind them
(`NoticesEnd`); and what it reads begins with the bytes
consumed (`ReadsWhatIsWritten`). One lemma for each walker (`NumKeeps`, `StringKeeps`,
`ArrayKeeps`, `SpKeeps`, `SpStringKeeps`, `OptionalKeeps`, `ConstrainedKeeps`, `ObjectKeeps`,
`EmptyKeeps`, `EndKeeps`) derives the four laws from those of the walkers it is made of;
loops over elements go by the first element that differs. `EveryTypeKeeps` joins them:
were a declared type to break a law, the first one to do so would be made of types that
keep it. The laws are stated at any position of any buffer because a field is read where
the field before it ended; `ReadsNothing` is needed because an optional at the end may
be missing, and everything behind it.

`NoticesEnd` alone would let every cut packet be read beyond its end. `Bounded`
rules that out: it says of each walker that what it reads is within the limits of the
type (`KeepsLimits`), and that in a buffer no shorter than its widest read it stays
inside, be it where no bytes are left (`SeesNothing`) or where only a part of a
value's bytes is (`SeesEnd`). There is again one lemma for each walker,
`EveryTypeBounded` joins them, and `BoundsEquation` says that the recursive function
exists.

`SizeWritten` says that the bytes of a
size that fits its width stand for it, `SizeRead` that any bytes are those of the size
they stand for, and `LimitFits` that a size within the limit fits. `WalkerEquation` and `FormatEquation`, that the recursive
functions exist, are proved like `WidthOf`. With `PacketCorrect`, what the bytes at hand
have to do with the value written, `PacketRoundTrip`, `PacketCut`, `PacketCanonical` and
`PacketLimits` follow; `PacketCut` needs both joins, the first for what is read of a
cut packet, the second for when nothing is.

`JsonCodecProofs` (assuming `JsonAssumption`, `NamesAssumption` and `CodecAssumption`: any
texts and names, any depth, any types declared in order whose fields have names of
their own, samples whose documents are no deeper than `Depth`). `Keeps` says what a
walker owes its format: what it writes has the type's shape (`WritesShape`), which
losing a member keeps (`KeepsShape`); portable values are read back into a new object in
every mode (`ReadsBack`); a document of the shape is refused exactly when a field is
missing (`ThrowsOnIncomplete`); and of any document, what the target held makes no
difference and nothing stays unset in the modes said (`Replaces`, `SetsAll`). One lemma
for each walker (`NumKeeps`, `StringKeeps`, `AnyKeeps`, `ListKeeps`, `ArrayKeeps`,
`OptionalKeeps`, `MapKeeps`, `ObjectKeeps`, `EndKeeps`) derives these laws from those of
the walkers it is made of. For objects they are too weak: the fields behind one write
into a document of their own in the model of `write_object` and are read from one that
holds that field as well. `IsObject` adds that an object touches its own names only and
reads its value back from every document that carries its members, whatever else that
document has; it needs the fields' names to be distinct. `EveryTypeKeeps` joins the
lemmas, like its namesake of the binary codec. `DocumentsEquation`, `WithoutEquation`,
`WalkerEquation` and `FormatEquation` say that the recursive functions exist. `JsonInv`
relates document, value, target and result, and with it `JsonRoundTrip`,
`JsonThrowsOnMissing`, `JsonReplacesTarget` and `JsonNothingUnset` follow.

**Only model-checked.**

* Liveness: `NothingLeaks`, `CloseEndsBoth`, `QueueDrains`, `KilledLoopEnds`,
  `FramesDelivered`, `ConnectionServed`, `DestructorReturns` and the
  fairness in `ImplementsFrameStream`. The prover has no rule for WF, SF and ENABLED.
* The four properties that are violated (section 4); `CheckWraps` is the theorem
  behind one of them.

## 6. Not modelled

* Concurrent calls on one asio socket (`Send` on one thread, a read handler on
  another): undefined for asio sockets, taken as atomic here.
* The truncation of a frame's size to `size_type` (the truncation of a container's
  size is in `BinaryWalkers`); `bad_alloc` in a handler, which ends the process.
* A second `StartReceiveLoop` while a loop runs.
* What happens after a callback has used a destroyed `DualConnection`.
* The debugging macros of `dual_connection.hpp`; a second `SetupStreamClient`, whose
  loop would run beside the one of the client it replaces; `ConnectDG` and the
  accessors, which touch nothing else.
* A registration of a packet handler while packets are handled: a data race.
* C-style strings in `plakpacs` (written, never readable), and types that contain
  themselves.
* Of `Componentable`, references that are kept from one handler to the next, calls
  from threads that run no handler, and `~Componentable`; `HasComponent` and
  `GetCurrentComponentTypes`, which only read; a component that
  is shared with somebody else is one whose destructor does not run.
* `bpacs`: type traits and macros without state; its order of fields is in the
  walkers. nlohmann's conversions between kinds of numbers.

## 7. Plan

Order: what carries packets first, then what dispatches and encodes them, then
what surrounds them.

1. Done: write half with its abstract specification, read half, both together
   with failing allocations, `DualConnection`, datagrams, dispatch, binary and JSON
   codecs, workers, accept loop and components as one server. Every invariant and
   action property of these runs is proved, and so is the safety part of the
   refinement.
2. `SPTraits::size_type` in `StreamWriter` and `StreamReader`: a size that is truncated
   puts the peer out of step.
3. A second `SetupStreamClient`: two loops, of the old and the new client, over one
   `DualConnection`.
