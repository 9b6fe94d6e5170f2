# A formal model of the CAN-SOT protocol

CAN-SOT lets one *master* on a CAN bus read and write the *object trees* of up
to seven *clients* and call functions of theirs. This directory holds TLA+
models of the library (`/src`), the TLC configurations that check them and
machine-checked proofs about the link, the shared bus, the remote calls, the STM32
driver, the threaded master and the numbers of nodes and calls.

Every definition that models code is translated from the source; `PROJECT.json`
gives the lines of each one, the hazards of the code with the properties that
cover them, and the places where the code and its documentation disagree.

## 1. Inventory

Paths are relative to the repository's `src/` directory; those that start with
`/` are relative to the repository. `base` stands for `baseLib/communication`.
(`PROJECT.json` has the repository itself as `src/`, so that its library is
`src/src/...`.)

| component | source | state | operations | modelled in |
|---|---|---|---|---|
| connections, master side | `base/SOTMaster.h` | map of clients; per client `communicationState`, `gotConnectedEvent`, its copy of the object tree | `addAndConnectToClient`, `reconnectToClient`, `sendValue`, `sendReadValueReq`, `processCanFrameReceived` | `SOTLink`, `SOTLinkFaults` |
| connections, client side | `base/SOTClient.h` | `communicationState`, `gotConnectedEvent`, `masterDeviceId` | `sendValue`, `processCanFrameReceived`, `processCanFrames` | `SOTLink`, `SOTLinkFaults`, `Stm32Rx` |
| sending, both sides | `base/SOTCanCommunication.h` | none of its own | the functions that send each kind of frame, `sendMessage` with its overflow report, `processCanFrames` | `SOTLink` (which frames), `TypedFrames` (their bytes), `Stm32Tx`, `Stm32Rx` |
| remote calls | `baseLib/remoteCalls/RemoteCalls.h`, handlers in `SOTClient.h`, `SOTMaster.h` | arguments, return data, one flag on each side | `sendCall`, `handleCallCalled`, `handleCallReturned` | `RemoteCalls`, `RemoteCallService`; the data in `TypedFrames` |
| event flags | `baseLib/util/EventFlag.h` | one boolean | set, test, `checkAndReset` | in each module that uses one |
| STM32 driver, sending | `driver/stm32_hal/Stm32HalCanInterface.hpp` | `txBuffer`, interrupt enable, `onTxOverflow`; hardware mailboxes | `canSendFrame`, refill, the interrupt handler and the vectors that call it | `Stm32Tx` |
| STM32 driver, receiving | same | `rxBuffer`, `onRxOverflow`; hardware FIFO | `getNextCanFrameReceived`, receive and error interrupts | `Stm32Rx` |
| master with a background thread | `base/threaded/*.h` | mutex, pointer to the current lock, condition variable, `mainThreadRunning` | `acquireLock`, `CanMasterLock::unlock`, its destructor, `sendReadValueReqBlocking`, `mainThreadFunc`, `stopMainThread` | `MasterThreaded` |
| object tree | `baseLib/objectTree/*` | values, flags, the tables of nodes and calls | look-up by id, read and write of data | `ObjectTreeBus`, `ProtocolTables`; types, bytes and access in `DataConversion`, `TypedFrames`; the blocking read in `MasterThreaded` |
| identifiers and message types | `base/can/CanPackages.h` | none | pack, unpack | `ObjectTreeBus` |
| SocketCAN driver | `driver/linux_socketCan/SocketCanInterface.hpp` | a socket | send, receive, filter | the filter and the queue in `ObjectTreeBus`; as the channels of `SOTLink` |
| code generator | `/cliTool/src` | the spec file, the def file, the code of both sides | `genDefFile`, `genCode` | `CodeGenerator`, `ProtocolTables`; types, access rights and structs in `DataConversion`, `TypedFrames` |
| example applications | `/example/*/src`, without what CubeMX generates | | | their main loops justify the fairness, their use of events the application's actions |
| board support code of the STM32 example | `/example/client-stm32-hal/src/cubeMxGenerated` | | | its CAN settings and interrupt vectors are those of `Stm32Tx` and `Stm32Rx` |
| logging, result types | `baseLib/util` | none | | |

### How the components interact

*Master and client* exchange frames; an identifier carries a message type, two
device ids and up to eight bytes follow. Neither side acknowledges, repeats or
times anything out. A client keeps a two-state connection that only an init
request opens and a disconnect closes; the master keeps its own idea of the
state. An accepted init request is answered with one write per `_meta` node and
then with an acceptance.

*Main loop and interrupt* of an STM32 client share the two buffers, the
interrupt enable and the overflow flags. The program runs in steps between
which the interrupt may come; a handler runs to its end. The HAL has one handler
for everything a CAN controller may interrupt for; the vectors for transmission
and for reception both call it, so that disabling one of them does not keep it out.

*Code generator and devices* meet in the numbers of nodes and calls: a def file
gives them out, and the code of each device is generated from the def file of its
day. Devices never tell each other which one that was.

*Background thread and application threads* of a threaded master share the
whole master under one mutex. A blocking read sends a request and waits on a
condition variable with the lock of its caller, which it finds through a
pointer that every `CanMasterLock` overwrites and resets.

*Application and library* share event flags: the library sets them, the
application tests and resets them when it comes around.

### What is hard here

* init requests, disconnects and acceptances of successive connections cross
  each other on the bus, and an acceptance does not say what it accepts;
* losses and restarts leave half-open connections that no timeout ends;
* the transmit and receive interrupts can cut in between a test and the use of
  its result, and in the middle of a copy into a buffer or a mailbox;
* identifiers of three packed fields, filters and node numbers are all that keeps
  the trees of several clients on one bus apart;
* programs generated from different versions of a spec file meet on the bus;
* all frames are received into one buffer of eight bytes, in which a short frame
  leaves the end of an earlier one behind;
* requests and results of remote calls are overwritten in place;
* a thread that waits inside a read gives the mutex away in the middle of
  its critical section.

The hazards in `PROJECT.json` list these and the others, each at its line.

### What makes each component correct

| component | correct if |
|---|---|
| connections | a quiet link is connected on both sides; a master that takes a client for connected has its `_meta` values; nothing the application sends after adding a client is dropped; every client added gets connected; one attempt repairs what losses and restarts have broken |
| remote calls | results come in the order of the calls, once, and unaltered; the newest call is answered if nothing is lost |
| STM32 sending | no frame vanishes or is sent twice in the driver; an overflow is reported; buffered frames get sent; sending returns |
| STM32 receiving | frames are processed in order; what is lost is reported, and nothing else is |
| bus and object trees | a node of a tree holds only what was given for that node of that client; the bus gives each client the link of its own that the connections need |
| code generator | a number leads to its node or call in every program, and to the same one in programs of different versions as long as the author only appends |
| values, arguments, results | arrive as they were given, for every type; a short frame is not taken; an update is seen; only the side with the right writes a node |
| background thread | the tree stands still under a held lock; a holder finds its own lock; a blocking read returns; the thread can be stopped |

## 2. Modules

```
SOTLink <--- SOTLinkFaults          RemoteCalls ---implements---> RemoteCallService
   ^              ^                      ^
MCSOTLink       MCSOTLinkFaults     RemoteCalls_proofs
                SOTLink_proofs
ProtocolTables <--- CodeGenerator <--- MCCodeGenerator
      ^                   ^
      |         CodeGenerator_proofs <--+
      |                                 |
      +---- ObjectTreeBus <--- ObjectTreeBus_proofs
                 |     ^------ MCObjectTreeBus
                 +---implements---> SOTLinkFaults
DataConversion <--- TypedFrames <--- MCTypedFrames, TypedFrames_proofs
Stm32Tx <--- Stm32Tx_proofs         Stm32Rx <--- Stm32Rx_proofs
MasterThreaded <--- MasterThreaded_proofs
```

Arrows are EXTENDS, except those that say otherwise. `ObjectTreeBus_proofs` has
an instance of `SOTLink_proofs`, to apply its theorems to the bus. An `MC` module only
declares the model values and small data of TLC's instances; modules whose constants are
numbers or sets of model values are checked as they are.

### SOTLink: the connection and the values that go over it

One master, a set of clients, two FIFO channels per client. A step is the
processing of one frame or one call of an application, as each side is one
single-threaded loop. Of a client's object tree the identities of the nodes are
kept; a frame with a value carries its node.

| in the code | in the model |
|---|---|
| `clients` map of the master | `clients` |
| `ConnectedClient::communicationState`, `gotConnectedEvent` | `mState`, `mEvent` |
| the master's copy of a tree | `received`, the nodes that a frame has written |
| `SOTClient::communicationState`, `gotConnectedEvent`, `masterDeviceId` | `cState`, `cEvent`, `masterKnown` |
| `addAndConnectToClient`, `reconnectToClient` | `AddAndConnectToClient`, `ApplicationReconnects`; the second is also part of `MasterGetsRefusal`, as in the code |
| `SOTClient::processCanFrameReceived` | `ClientIgnores`, `ClientAccepts`, `ClientRefuses`, `ClientDisconnects`, `ClientHandlesValue` |
| `SOTMasterGeneric::processCanFrameReceived` | `MasterGetsAccept`, `MasterGetsRefusal`, `MasterIgnoresResponse`, `MasterHandlesValue` |
| `sendValue`, `sendReadValueReq` | `MasterSends`, `ClientSends` |
| `checkAndReset` by an application | `MasterTakesEvent`, `ClientTakesEvent` |

The two statuses of an init response are two frame types. `ClientSends` before
the first init request goes to device 0xFF, which a bus identifier cuts to 7;
the master does not see the frame.

### SOTLinkFaults: the same link with losses and restarts

Adds frames that get lost, clients that restart with what is in their buffers
gone, and a master that ends, also between the two requests of
`reconnectToClient`, and is replaced by a new one with an empty map. The
variable `attempted`, declared in `SOTLink`, holds the clients that the application has added or
reconnected to since the last fault. The master here processes frames of clients
in its map only; that the code does not test for that is the finding of
`faults_unknown_sender`.

### ObjectTreeBus: several clients on one bus

The same handlers as in `SOTLink`, one level down: a frame has an identifier of
eleven bits, packed and unpacked as `CanPackages.h` does it; it gets to every
device whose filter it passes, in the one order of the bus; its data begins with
the number of a node, which the receiver looks up in the table of the def file it
was generated from. Both object trees hold values, and a value tells who gave it
and for which node of which client.

| in the code | in the model |
|---|---|
| `packCanFrameId`, `unpackCanFrameId` | `packCanFrameId`; `SourceDeviceId`, `MessageType` |
| the drivers' filters | `PassesFilter`, applied in `Delivered` |
| socket and buffers of a device | `rx[device]` |
| `protocol` of a `ConnectedClient`, `protocolDef` of a client | `mTree`, `cTree` |
| `receivedValueUpdate` in the master's copies | `mUpdated` |
| `getValueNodeById` | `NodeInFrame`, which is `LookUp` of `ProtocolTables` |
| `checkPackageDataSizeForNodeValue` | `Applies` |

The mapping to `SOTLinkFaults` takes from the queue of each device the frames of
one sender, reads their types and nodes, and calls `masterDeviceId` known when it
is not 0xFF. So what is shown about the link of one client holds for each of
several clients on a shared bus. A generated protocol sends no `_meta` values
(`GenCode.h:165-166` leaves the table empty), so that `MetaNodes` is empty here.

### ProtocolTables and CodeGenerator

`ProtocolTables` has the pure part: numbering, the map from names to numbers that
`GenCode` reads back, the tables, the look-up with the code's comparison, and the byte
that holds a call's number and its return bit. `CodeGenerator` has the tool's use:
the author edits the spec file (inserts a value node or a group anywhere, adds a
call), generates the def file, and generates and compiles the code of either side
from whatever def file there is. A def file that the tool refuses to write leaves the
older one in place.

| in the code | in the model |
|---|---|
| a YAML object tree, a value node or group in it | a member of `Trees[MaxDepth]`, `ValueNode(name)`, `Group(name, entries)` |
| `nodePath`, the names separated by dots | a sequence of names |
| `acceptNodeWithChildren` and `visitNodeWithChildren`, which call each other | `VisitedEach` and `VisitedTo`, a function for each depth of groups |
| the spec file, the def file, the two generated headers | `spec`, `defFile`, `program` |
| `genDefFile`, `genCode` | the actions of these names |

Trees have groups within groups up to a depth that is a constant, so that the visit
is a recursive function of the depth. That a struct cannot have two members of a name is the C++
compiler's check, not the tool's: the tool gives two nodes of one path two numbers
and the table of the first a garbage entry (`BehindTable`).

### RemoteCalls and RemoteCallService

`RemoteCalls` is one call id between a caller in the master and a callee in a
connected client: two channels of frames, the arguments and the result as single
places that the next frame overwrites, one flag for each. Arguments are the
number of the call, results the number of the call they answer. `callReturnData`
keeps the code's separate places for data, error and the bit that says which.
`RemoteCallService` is what the application can count on: calls are numbered and
results given in increasing order. The refinement mapping takes `given` to be
the call numbers of the results the caller's handler has seen.

### DataConversion and TypedFrames

`DataConversion` has the pure part: the types a spec file may name, their widths,
the bytes a value is written to and read from, the members of the structs that are
generated for arguments and results, and the access right as each side sees it.
`TypedFrames` lets two programs use them: one value node and one remote call
between a master and a connected client, each with the code generated for its
side. The two may come from different versions of the spec file, so that their
structs differ in length.

| in the code | in the model |
|---|---|
| `getRequiredDataSizeInBytes`, `getTypeAsCppType` | `getRequiredDataSizeInBytes`, `Width`, `KnownType` |
| `writeToData`, `readFromData` of each type; enums cut to a byte | `WriteToData`, `ReadFromData`, `Stored` |
| the generated `writeToData` and `readFromData` of a struct | `WriteStruct`, `ReadStruct`, with the chained `Offset` |
| the one receive buffer of `processCanFrames` | `Buffer`: the bytes of the frame and, behind them, what earlier ones left |
| the three checks of a frame's size | `Fits` |
| `ValueNodeReadable`, `ValueNodeWritable`, `ValueNodeReadWriteable`, and those of enums | `MayRead`, `MayWrite` |
| `sendReturnOk`, `sendReturnError`, `callReturnData` | the actions of these names; the variable |

`version` is a pair of programs, chosen at the start. The variables `origin`,
`calledWith` and `returnedWith` keep what an application gave, to compare with
what the other one gets.

### Stm32Tx and Stm32Rx

The main program is cut into the steps between which an interrupt can come. In
`Stm32Tx` these are the test for a free mailbox, the choice of a mailbox and
the request for its transmission, the disabling of the interrupt, the push of an
empty frame and the copy of the data into it, the enabling, and of each frame of
a refill the copy to a mailbox and the pop. In `Stm32Rx` they are the read and
the reset of `EventFlag::checkAndReset`, the copy of each frame and its pop. A handler is
one step. The handler of `Stm32Tx` comes for transmissions while that interrupt
is enabled, and for received frames at any time. Where it empties the buffer
between a test and a use, the program gets to `"undefined"`, from where it takes no
step (etl's `front` and `pop` of an empty buffer).

The settings of the CAN controller are those of the STM32 example
(`/example/client-stm32-hal/src/cubeMxGenerated/Src/main.cpp:245-255`): no
retransmission, mailboxes in the order of their identifiers, a receive FIFO whose
newest frame is overwritten on an overrun. A transmission that fails frees its
mailbox without a completion callback; it is also an error, and the error
callback takes it for an overrun once there has been one, as the handle's
`ErrorCode` is never reset. A message may be followed by an overflow report,
which `sendMessage` sends by calling itself.

`cutIn` becomes true when the handler has sent from the buffer at a point where
the program was in the middle of using it. What then happens is the finding of
`stm32_tx_shared_handler`; `EachFrameOnce` and `OverflowRemembered` are about what
happens otherwise. `EachFrameOnce` says where a frame is and not that it leaves the buffer:
the frames that stay are those of section 4, item 8.

### MasterThreaded

Application threads that lock, read with blocking, unlock or destroy their
lock, and those in `Stopper` may stop the background thread; the background thread's loop; a
client that answers and may send of its own. How the application uses the library
is chosen at the start of a behaviour: whether it calls `unlock` (`usesUnlock`),
when it resets `receivedValueUpdate` (`resets`); `ReadsPerLock` says how many reads
it makes under a lock. `condition_variable::wait` may wake without reason. Where
the code waits with another thread's lock, which the C++ standard leaves
undefined, the model does what libstdc++ does and uses the mutex alone.

`stopMainThread` is three steps, as `mainThreadRunning` is tested in one access and cleared in another
(`SOTMasterThreaded.h:98-99`), and the join takes its time: two threads may both pass the test
and join the one `std::thread`. A join after another has returned throws; two at once are undefined,
and the model has what glibc and libstdc++ make of them: one returns when the thread has
ended (`joiner`), the other throws (`joinThrew`). `startMainThread` is called once, before the threads begin;
the destructor, which calls `stopMainThread` too, is no action of its own.

## 3. Runs

A bound that ends a behaviour early is in the guard of the action it bounds and
is named in its module; no other limit is set. Deadlock is not checked, since in
all systems here the applications may simply stop asking for things.

| run | instance | shows |
|---|---|---|
| `link` | two clients, two nodes, one of them `_meta`; 2 reconnects, 1 value or read | type correctness; a quiet link is connected on both sides; no frame is ignored; `_meta` values come first; events of a client are fresh; the inductive invariant; every added client gets connected; every read is answered |
| `faults` | one client; any 2 faults, 2 reconnects, 1 value | an attempt to connect that no fault hits settles, and does so with both sides connected |
| `faults_unknown_sender` | one client, the master restarts | violated: see findings |
| `stm32_tx` | 2 mailboxes, 3 places of which 1 is reserve, 7 calls, 1 failed transmission | unless the handler sends at a critical point, each frame is in one place and overflows are remembered; between calls the interrupt is off only after an overflow that left the buffer full; sending returns |
| `stm32_tx_shared_handler` | the same with 5 calls | violated: see findings |
| `stm32_rx` | FIFO of 1, buffer of 2, 6 frames, 2 failed transmissions | order; every frame accounted for; no false report but those of failed transmissions |
| `stm32_rx_lost_flag` | FIFO of 1, buffer of 1 | violated: see findings |
| `calls` | 4 calls, 2 losses | order, no duplicates, genuine results; the service is implemented, with its fairness if nothing is lost |
| `threads` | two threads that may stop the background thread, one read per lock, 3 locks; programs with and without `unlock`, with a reset before each read and without | the mutex has the owner the program counters say; a holder finds its own lock; the tree is frozen; no wake-up is missed; a blocking read returns unless the background thread is stopped; `stopMainThread` ends the background thread and returns, but where two threads pass its test one of the two calls may throw |
| `bus` | clients 3 and 7, two nodes of different sizes; 1 reconnect, 1 restart of the master, 1 value or read | identifiers of 11 bits: the master's copies and the clients' trees hold what was given for them; the link with its faults is implemented |
| `generator` | bytes of 8 values, a tree with a group in a group, four names and two calls to insert, 2 edits; 89218 states | numbers lead to their nodes; appending keeps numbers; calls are found under the numbers the other side sends |
| `types` | bytes of 4 values; nodes of four types and every access right, calls with structs of both directions and of different versions; 2 frames to a side | values, arguments, results and error codes arrive; updates are seen; only the writer changes a node |

*Why the bounds are enough.* In `link` two reconnects are the fewest that let
three generations of requests be under way at once, and the invariant that rules
the trouble out is proved without bounds anyway. Two faults allow a fault to hit the repair of the one
before it. In `stm32_tx` the buffer fills, overflows, and its report overflows
too, with a transmission failing in between; in `stm32_rx` both the FIFO and the
buffer overflow, several times, and an error comes before and after the first
overrun. Four calls allow a place to be overwritten twice while results of two calls are under
way. In `bus` the identifiers 3 and 7 share two of their three bits, so that a mask
that is a bit short mixes them up, and 7 is what 0xFF becomes. In `generator` two
edits to a tree of five nodes (the tool's own is one) reach the limit of a def file, and let the two sides
be any two of three versions apart. In `types` a byte of four values keeps what the
checks depend on (widths, signs, the weight of each byte; values are the ends of
each range) and the frames have their seven bytes; a node's type that the generator
does not know is among the pairs, to be refused. Two threads are needed for each of the findings about threads, and three
lock acquisitions let one thread take the lock twice around the other's.

*Fairness.* Both main loops call `processCanFrames` for ever (the examples'
`main` functions), hence weak fairness of processing at each device. The
controller keeps sending what is in its mailboxes, and a pending, enabled
interrupt is served; whether frames are received is not assumed. For threads: a thread holds its lock for a short time only,
as `acquireLock` asks; the background thread sleeps after each round, so that
every thread waiting for the mutex gets it some time, which is strong fairness of
getting it; a thread inside `stopMainThread` goes on to its join. Nothing is assumed of applications: they need not send, reconnect,
call or read.

### Further configurations

These are not among the runs of `PROJECT.json`; each of them takes less than a minute.

| configuration | module | result |
|---|---|---|
| `link_stale_accept.cfg` | `MCSOTLink` | `IsConnectedTruthful` is violated |
| `link_stale_event.cfg` | `MCSOTLink` | `MasterEventFresh` is violated |
| `faults_half_open.cfg` | `MCSOTLinkFaults` | `HalfOpenIsNoticed` is violated |
| `stm32_tx_lost_wakeup.cfg` | `Stm32Tx` | `AcceptedGetsSent` is violated with a buffer that cannot overflow |
| `stm32_tx_overflow_stops.cfg` | `Stm32Tx` | `MailboxServed` is violated |
| `stm32_tx_order.cfg` | `Stm32Tx` | `SentInOrder` is violated |
| `stm32_tx_reserve.cfg` | `Stm32Tx` | `ReserveServesReports` is violated |
| `stm32_rx_stale_error.cfg` | `Stm32Rx` | `OnlyLossesReported` is violated by a failed transmission after an overrun |
| `calls_every.cfg` | `RemoteCalls` | `EveryCallReturns` is violated |
| `bus_unknown_id.cfg` | `MCObjectTreeBus` | `LookUpsDefined` is violated when the master's def file has one node more |
| `bus_device_seven.cfg` | `MCObjectTreeBus` | `OnlyMasterWrites` is violated |
| `bus_copy_of_seven.cfg` | `MCObjectTreeBus` | `OnlyMasterCopied` is violated, with two sends |
| `types_enum_values.cfg` | `MCTypedFrames` | `ReturnArrives` is violated by an enum value that needs more than a byte |
| `types_error_rest.cfg` | `MCTypedFrames` | `ReturnArrives` is violated when the upper bytes of the error code are not zero |
| `types_beyond_rights.cfg` | `MCTypedFrames` | `WriterKeepsValue` is violated when applications use the functions of a node's base class |
| `threads_second_read.cfg` | `MasterThreaded` | `NoReadThrows` is violated by a second read under a lock |
| `threads_unlock.cfg` | `MasterThreaded` | `NoReadThrows` is violated by `unlock` too |
| `threads_reset_after.cfg` | `MasterThreaded` | `BlockingReadReturns` is violated |
| `threads_stale_flag.cfg` | `MasterThreaded` | `BlockingReadIsFresh` is violated |
| `threads_stop_waiting.cfg` | `MasterThreaded` | `BlockingReadSurvivesStop` is violated |
| `threads_two_stops.cfg` | `MasterThreaded` | `JoinedOnce` is violated by two threads in `stopMainThread` |

## 4. Where the code and its documentation disagree

The first three are findings of `PROJECT.json`; the rest are shown by the further
configurations.

1. *A frame of an unknown sender* (`faults_unknown_sender`). A master that
   starts while a connected client is sending looks the sender up with
   `clients.find(...)->second` (`SOTMaster.h:224`). The public lookup throws for
   such a client (`SOTMaster.h:294`); this one dereferences the end of the map.
2. *A frame is sent twice* (`stm32_tx_shared_handler`). "protect queue from
   concurrent access" (`Stm32HalCanInterface.hpp:128`) disables the vector for
   transmission; those for reception run the same handler, which sends from the buffer as
   well. When a frame is received while the program is between the copy of the front to
   a mailbox and its pop (`:224-225`), the front goes out twice and the frame
   behind it never.
3. *A loss is not reported* (`stm32_rx_lost_flag`). `checkAndReset` reads, then
   clears; a flag set in between is gone.
4. *Not every call returns* (`calls_every`), although
   `doc/protocol_can_frames.md:144` says so: a second call overwrites the
   arguments of a first one that has not been handled.
5. *A second read under a lock throws* (`threads_second_read`). The first read
   gave the mutex away; another thread locked and unlocked, which sets the
   shared pointer to null.
6. `isConnected` is true for a connection that the master's own disconnect is
   about to close, if an acceptance of the request before it arrives first
   (`link_stale_accept`); and stays true for a client that has restarted
   (`faults_half_open`).
7. `gotConnectedEvent` of the master survives `reconnectToClient`
   (`link_stale_event`).
8. Buffered frames wait for the next call of `canSendFrame` although mailboxes are
   free ("react when a tx mailbox is available again", `Stm32HalCanInterface.hpp:320-322`):
   when all mailboxes empty between the test for a free one and the disabling of the
   interrupt (`stm32_tx_lost_wakeup`); after an overflow, with which `canSendFrame`
   returns with the interrupt disabled (`stm32_tx_overflow_stops`); and when a
   transmission fails, for which no callback is implemented.
9. Frames leave the STM32 driver out of order, so that an acceptance may pass
   a `_meta` value (`stm32_tx_order`); `MetaBeforeConnected` holds for a driver
   that keeps the order.
10. The space reserved for overflow reports is never used (`stm32_tx_reserve`).
11. `unlock` makes another thread's read throw (`threads_unlock`), a read may
    return an old value at once (`threads_stale_flag`), of two readers of one
    node the second may wait for ever (`threads_reset_after`), and so does one that
    waits when the background thread is stopped (`threads_stop_waiting`).
12. *The look-up is off by one* (`bus_unknown_id`). A number that "does not exist"
    (`SOTMaster.h:231`, `SOTClient.h:173`, and for calls `SOTMaster.h:242`,
    `SOTClient.h:184`) is one greater than the table's size; the size itself
    passes (`SOTMaster.h:230`) and what lies behind the table is used as a pointer. A
    master whose def file has one node more than the client's sends just that number.
13. *An unconnected client writes to device 7* (`bus_device_seven`). `sendValue`
    of a client before its first connection goes to `masterDeviceId` 0xFF, of which the
    identifier keeps three bits; a connected client 7 takes the value for one of
    its master. `doc/protocol_can_frames.md:27-40` knows values from the master only.
    When the master reads the node, the value gets into its copy of client 7 as well
    (`bus_copy_of_seven`): `MasterCopyGenuine` and `ClientTreeGenuine` are about the
    other clients.
14. *A failed transmission is reported as lost frames* (`stm32_rx_stale_error`).
    `HAL_CAN_ErrorCallback` (`Stm32HalCanInterface.hpp:353`) looks for the overrun
    in the handle's `ErrorCode`, which keeps it for ever.
15. *Enum values are cut to a byte* (`types_enum_values`), also those of an error code;
    the tool takes any value from the spec file. Of the error code, the reader gets
    one byte received and the others as they were (`RemoteCalls.h:101`); they are zero because
    the master's map value-initialises its clients. Where they are not, the code is
    wrong (`types_error_rest`).
16. *The base class of nodes sends whatever the access right says*
    (`types_beyond_rights`): `sendValue` and `sendReadValueReq` of `OTNode.h:134-150` are
    there for every node, so that a client can overwrite in the master a node that only the
    master may write.
17. *Two threads stop the background thread* (`threads_two_stops`). `stopMainThread` tests and clears
    `mainThreadRunning`, an atomic, in two accesses (`SOTMasterThreaded.h:98-99`). Between
    them another thread passes the test too, and both join the same `std::thread`
    (`:100`): one of the calls throws, or what happens is undefined. No document says who may call
    `stopMainThread`; the library's own test does it from one thread.

Read in the code, without a configuration:

* `GenDefFile.h:70-72` refuses 255 value nodes and says "max 255 allowed", and
  `:139-142` says the same of calls and refuses 127;
* `GenCode.h:165-166` generates no `_meta` nodes to send, whatever
  `doc/protocol_can_frames.md:46-48` says of them;
* the tool takes structs of any size, though a call's frame has "0-7 bytes" for
  them (`doc/protocol_can_frames.md:136-146`);
* "will not save generated code" (`GenCode.h:170`) is followed by a commented-out
  return: after an error the files are written all the same. An access right that
  the tool does not know ends it with an exception (`GenCode.h:48`);
* the spec file's defaults are read and not used;
* `sendReadNodeValueRequest` writes a node's value behind an array of one byte
  (`SOTCanCommunication.h:131-134`);
* `rxBuffer` is defined with the transmit buffer's length
  (`Stm32HalCanInterface.hpp:293`); it compiles only as long as the two are equal.

## 5. Proofs

All proofs hold for every value of the constants that satisfies the
assumptions named in the modules (sets and sequences of nodes, natural bounds).

**The link** (`SOTLink_proofs`). `TypeCorrect` first. The safety properties are not
inductive: that a quiet link is connected depends on what has been in the
channels. `LinkInv` says it, client by client:

* in the channel to a client every disconnect is followed at once by an init
  request, and every init request either is first and meets an unconnected
  client, or follows a disconnect, so that it will (`RequestsPaired`); hence no
  refusal is ever under way;
* an unconnected client in the map has an init request at the head of its
  channel (`RequestAwaited`);
* behind every acceptance under way the `_meta` values are received or travel
  ahead of it (`MetaAhead`);
* a master that waits has a request or an acceptance under way (`JustifiedWait`).

`LinkInvariant` proves it inductive: lemmas say what appending, concatenating
and consuming frames does to each part, one case per action uses them. From it
follow `QuietLinkIsConnected`, `MasterIsNeverIgnored`, `MetaArrivesFirst` and
`ClientEventIsFresh`.

**The link with faults** (also `SOTLink_proofs`, which covers both modules). `LinkInv` does not survive losses and
restarts: disconnects get separated from their init requests, refusals are under way.
`AttemptsSettle` needs an invariant that says nothing of what was there before the
attempt. `FaultInv` has three parts for a client attempted since the last fault:
behind every disconnect in its channel there is, somewhere, an init request
(`InitBehind`); an init request is under way or the client is connected
(`WillConnect`); a master that waits has an init request or an answer of either kind
under way (`Awaits`). The request of an attempt, at the end of the channel, makes all three
true; a refusal that the master gets sends another pair; a fault ends all attempts, so that only
the types are left to show for it. If only the master restarts, every client in its map is one
attempted since, and the theorem says of such links what `QuietMeansConnected` says.

**Remote calls** (`RemoteCalls_proofs`). `CallsInv` orders everything under way:
from requests over arguments, answers and the stored result to what the caller
was given call numbers decrease, strictly where a flag marks a place as new.
It is what excludes that a flag left set gives a result twice, or an old answer
one after a newer. With it come `CallsTypeCorrect`, `ResultsInOrderOnce`,
`ResultsAreGenuine` and the refinement `CallsImplementService`: every step is a
call, a result given, or a stutter of `RemoteCallService`.

**Numbers and the code generator** (`CodeGenerator_proofs`). For any list of distinct names short enough for a byte,
looking up the number that the generated code gives a name finds that name
(`NodeIsFound`): the names are in bijection with `1 .. Len(names)`, so the table has as
many entries as there are names, and the search over the map finds each in its place.
`OnlyTheFirstUnknownPasses` says what the comparison with `>` does: of all numbers
that no node has, the first gets through and no other. `CallByteKept`: the byte of a
remote call's frame gives back number and return bit for every number a def file may
contain.

The tool's theorems hold for any names, first tree, depth of groups and number of edits.
`ToolInv` says that the spec file is a tree of the author's entries, the def
file what `genDefFile` writes for a tree and calls it accepts, and each program what
`genCode` makes of such a def file if the compiler takes it (`Compiles`). It is inductive
because an edit leaves the files alone and a generated program does not change with the def file it came
from (`GeneratorInvariant`). What the properties say is then a matter of one def file or two:

* `TablesAreComplete`: if the names within each group are distinct, so are the paths
  (`VisitedPaths`: paths of two entries begin with two names, paths of one group
  differ behind the group's), and `NodeIsFound` applies to the list of paths;
* `AppendingKeepsIds`: the paths of a tree are a prefix of those of a tree that continues it
  (`VisitedPrefix`), and a number is a place in the list;
* `CallsAreFound`: with one direction only, the callable table of the client and the caller
  table of the master hold all calls (`CallTableOfAll`), numbers agree as far as one list
  of calls continues the other, and `CallByteKept` takes the number through the frame.

Trees, their visit and the check for distinct names are recursive functions of the
depth; that such functions exist is proved by induction (`TreesByDepth`, `VisitedByDepth`,
`DistinctByDepth`), in the form that `InductiveSet` gives it: a set of naturals with 0 and
the successor of each member has them all, from the well-foundedness of the order. `FlattenSteps`,
`FlattenPrefix` and `FlattenDistinct` are the laws of the library's `FlattenSeq`.

**The bus** (`ObjectTreeBus_proofs`), for any clients, trees and bounds, and programs from
any versions of the spec file of which each only appends nodes to a shorter one
(`AppendOnly`; without it a number may mean two nodes). `Bits` says what packing and
unpacking an identifier gives, `FromMaster` and `FromClients` whom a frame reaches;
`NumberLeadsToNode` that a number leads, in another program, to the same node or to none, by the
lemmas about tables. `BusInv` then says of every frame in a queue that it is `Proper`: of a
type that its sender sends; at the master, of a client, and a value in it one for a node of
that client's tree; at a client, an init request is of the master and a value one for a node
of the receiver's tree. It types the states of the connections, and a connected client has
the master's identifier. Every frame sent is proper at every device whose filter it passes, also those
that an unconnected client sends to device 7, whose tree is allowed any value. `BusIsProper`
is that invariant, `MasterCopiesGenuine` and `ClientTreesGenuine` follow.

`BusImplementsLink` is the refinement: the bus implements `SOTLinkFaults`, with the master's
restarts as its faults, for any clients (at least one) and any bounds. A link's channel
is read off a queue by `LinkFrames`, which picks the frames of one sender. Its laws (of two
queues one behind the other, of one frame, of a queue without its head) give what a send, an
answer and the taking of a frame do to every channel: they change the one between sender and
receiver, and a frame that passes no filter, or that of another client, changes none
(`SentToClient`, `SentByOther`, `SentToMaster`, `TakenAtClient`, `TakenAtMaster`). Then there is one lemma for each
action, and within the handlers for each type of frame, that names the step of the link it is; a frame
that one client sends to another is a stutter, and at a restart, which drops
what the master had received and not processed, each channel loses a beginning (`CutInTwo`).
It assumes one def file for all devices (`SamePrograms`): with a newer file on one side a
number may have no node, and then a value is dropped, for which the link has no step.

`BusSettles` takes a theorem of the link over to the bus. An instance of `SOTLink_proofs`
with the same substitution has `AttemptsSettle`; on the bus every client in the master's map is one attempted
since the last restart, so that a client in the map none of whose frames is under way is connected on
both sides, whatever the other clients send and however often the master was restarted.

**STM32 driver, sending** (`Stm32Tx_proofs`), for any number of mailboxes and any buffer.
Four theorems, each on an invariant that stands on the one before.

* `TypesCorrect`: the types and the buffer's capacity, with what the steps of
  `sendMessage` leave for each other: the frame and the mailbox a step needs are
  there (`AtWork`).
* `InterruptStaysOn`: outside the code between disabling and enabling the interrupt, it is
  off only when an overflow has left the buffer full (`OffOnlyWhenFull`); of the steps
  that take frames out of the buffer, the handler's enables the interrupt, and the
  refill's is followed by one that does.
* `OverflowIsRemembered`: unless the handler has sent from the buffer at a critical point,
  the frame copied to a mailbox is still the buffer's front and the mailbox still
  free (`Undisturbed`); frames are numbered by the calls that bring them (`Numbered`);
  for every frame rejected the flag is set, a report is being sent, or a later report
  has been taken (`Remembered`), which no step takes out of the places where frames are.
* `FramesArePlacedOnce`: that no frame is in two places is said by counting. The numbers in
  buffer, mailboxes, bus and failures together are those accepted, and the lengths of the four
  add up to as many (`OncePlaced`). Each step either moves frames, and then neither the
  union nor the sum changes, or accepts one, and then both grow by it. The handler moves
  several at a time: the mailboxes it fills are in bijection with the places of the buffer
  it empties (`HandlerMoves`).

**STM32 driver, receiving** (`Stm32Rx_proofs`), for any FIFO and any buffer. `RxInv`
says that processed frames, buffer and FIFO, in this order, form one increasing
sequence of all that arrived and was not lost, and that the frame copied is the buffer's front.
Each step moves the boundary between two of its parts, appends the next number, or
takes out one element: `TypesCorrect`, `FramesInOrderOrLost`. For `ReportsAreEarned`
every report already sent, the one that the local copy of the flag or the flag itself
will cause and the one that a pending overrun will cause are charged to different losses
or false alarms (`ReportsEarned`).

**Threaded master** (`MasterThreaded_proofs`), for any number of threads, locks and
versions. `TypesCorrect` includes who owns the mutex. `TreeIsFrozen` and `NoWakeUpMissed`
follow from it step by step. `OwnLockFound` assumes `ReadsPerLock = 1`:
its invariant says that who waits has had its read, and who holds the mutex and has not read
yet is the last one to have set the pointer (`ReadOnce`). With two reads it is
false (`threads_second_read`). `OneStopperJoinsOnce` assumes that one thread at most ever calls
`stopMainThread`: no join throws then, however often it calls it (`StopsAlone`). With two threads it
is false (`threads_two_stops`).

**Values, arguments and results** (`TypedFrames_proofs`), for any list of types, any structs and
any values. What holds of the bytes rests on what the configurations of section 3 violate, so the
theorems name it: every enum value fits a byte (`EnumsFitByte`), a struct grows only at its end
(`StructsGrowAtEnd`), the upper bytes of an error code are zero (`RestOfError`); together
`CleanFiles`. `RoundTrip` says that writing a value of any type into bytes and reading it back
gives the value: a word is the sum of its bytes, each the remainder of a quotient, whatever the
width. `StructRoundTrip` carries it over structs, whose members stand one behind the other;
where the receiver's struct is shorter, its members are the first ones of the sender's.
`DataInv` then says of every frame under way that its bytes are those that writing a value in
its type's range, a struct of such, or an error code gives, and what each of them is compared with
travels with it; of the node's value, arguments and results it says that they are those given
(`TypedData`). `ValuesArrive`, `CallDataArrives` and `ReturnDataArrives` follow.
`OrderInv` is about a node that only one side may write: no value is on its way to the
writer, the last one on its way to the reader is the writer's value unless the writer has some
that it has not sent, and when none is on its way the reader has it (`ValuesInOrder`). It needs
applications to keep to their access rights (`~BeyondRights`). `UpdatesAreSeen` and `WriterKeeps` follow.
What a struct's bytes are is defined by recursive functions over the members. Their
induction is over a set: the set of lengths for which the claim holds contains 0 and the
successor of each member (`InductiveSet`, as for the code generator); and that such functions
exist at all is proved the same way (`SumsExist`, `FlattensExist`).

*Only model-checked*: what needs fairness, which is beyond the prover (`AddedGetsConnected`,
`ReadGetsAnswered`, `AttemptConnects`, `SendingTerminates`, `LosslessServiceIsLive`,
`BlockingReadReturns`, `StopReturns`). Every other property of a passing run is stated by a theorem.

## 6. Not modelled

* The read request's write behind its one byte of data
  (`SOTCanCommunication.h:134`): the models hold no stack.
* Node types that differ between the two programs: nothing in the code compares them,
  and what a node then gets is a matter of its bytes alone (`SOTCanCommunication.h:39` has
  a `@todo` for a stricter check). Structs of calls that differ in length are in `TypedFrames`.
* Error frames and remote calls on the shared bus of `ObjectTreeBus`; remote
  calls have one client and one call id in `RemoteCalls`. Each id has its own flags and
  places, so that two ids share nothing but the channel.
* Composition of the link with the STM32 drivers; `SOTLink` assumes channels
  that keep the order, `SOTLinkFaults` channels that lose.
* What a program does after it has read the front of an empty buffer.
* `stopMainThread` called under a lock (a deadlock by construction), and
  `waitTillClientConnectedBlocking`, which has no body.
* The HAL's own code: that `HAL_CAN_AddTxMessage` picks a free mailbox and what its handler calls
  are external, and modelled from how the driver uses them.
* Opening and configuring sockets, reading YAML files, the text the code generator produces;
  the board support code of the example, which CubeMX generates.
* Logging and result types, which have no state.

## 7. What is left

Modelled and checked: `SOTLink`, `SOTLinkFaults`, `RemoteCalls` over its service,
`Stm32Tx`, `Stm32Rx`, `MasterThreaded`, `ProtocolTables`, `CodeGenerator`,
`ObjectTreeBus` over `SOTLinkFaults`, `DataConversion` and `TypedFrames`. Proved: what
section 5 lists. What would add most from here:

1. `Connection`: what the handshake promises, as an abstract specification that
   `SOTLink` implements.
2. The link over `Stm32Tx` and `Stm32Rx` as lossy, reordering channels, with the
   error frames that report overflows.
3. Remote calls over a link that reconnects while a call is under way.
