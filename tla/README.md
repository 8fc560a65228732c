# Verification of usb-wasi

usb-wasi gives WebAssembly guests access to USB devices. A Wasmtime host
(`src/usb-wasi-host`) implements the WIT interfaces of `src/wit` over libusb;
guests (`src/usb-wasi-guest`, `src/usb-wasi-cguest`, `src/benchmarks`) drive real
devices through them. This directory holds TLA+ models of the parts of that
system that keep state over several calls or several threads, the TLC
configurations that check them, and TLAPS proofs about the host and the
guests that are modelled.

All line numbers refer to files under `src/`; a bare `main.rs` or
`usb_backend.rs` is the one of `usb-wasi-host/src`.

Contents

1. The system
2. The models and the code
3. What the runs check
4. Bounds
5. Fairness
6. What is proved
7. What the models found
8. What is not modelled
9. Plan

## 1. The system

### Actors and how they meet

| Actor | Runs | Shares |
|---|---|---|
| Tokio main thread | the guest and, one at a time, the host function it calls (`&mut MyState`) | everything below |
| libusb event thread (`usb_backend.rs:186-200`) | `transfer_callback` (`main.rs:190-280`) and `hotplug_cb` (`usb_backend.rs:116-166`), one callback at a time | `UsbTransfer::completed` (an atomic), the oneshot channel of a transfer, the libusb objects, `HOTPLUG_QUEUE` (a mutex), libusb's reference counts |
| libusb, the kernel, the bus | submission, cancellation, reaping, attachment | the transfers, the buffers, the devices |
| the USB stick | Bulk-Only commands | survives the processes that use it |

The main thread and the event thread have no common lock. Everything delicate
in the host follows from that: a host function looks at a flag, the callback
runs, and the host function acts on what it saw.

### Components

**Transfers** (host; `main.rs:57-95, 190-280, 336-553, 726-863`).
*State*: the table slot, the `libusb_transfer`, its buffer (owned first by the
`UsbTransfer`, then by the `TransferContext`, freed by the callback), the
`completed` flag, the channel and its receiver. *Operations*: `new_transfer`,
`submit_transfer`, `cancel_transfer`, `await_transfer`, the drop, and the
callback. *Hard*: the callback against each of the others, the drop of a
transfer in flight, the drop of the device handle under its transfers, a
completion that comes before `submit_transfer` has stored the receiver, a dead
event thread. *Correct when*: nothing is freed twice or used after it is freed;
memory the device works on stays; each completion reaches the guest that asks
for it; a dropped transfer is released; an await with a timeout returns.

**Devices, hotplug and handles** (host; `usb_backend.rs`, `main.rs:148-188, 555-725, 851-904`).
*State*: the context and its thread, the callback registration, the global
queue, the devices in the resource table, the open handles and their
interfaces, libusb's reference counts. *Operations*: `init`, `list_devices`,
`enable_hotplug`, `poll_events`, `open`, claim, release, `close`, drops,
`hotplug_cb`. *Hard*: a device that leaves while it is being listed, queued or
opened; events between two polls; a device that shows up between
`enable_hotplug` and `list_devices`. *Correct when*: references balance; the
guest misses no device, hears of each arrival and departure once and in order,
and never gets a device the allow list refuses.

**Transfer buffer layout** (host; `main.rs:742-831`, `199-261`). Arithmetic of
sizes, setup packets and isochronous packets, without state. *Hard*: `8 +
buf_size` wraps, the length is stored as an `i32` and `wLength` modulo 2^16; the
last packet takes the remainder, and the guest must know. *Correct when*: a
transfer has room for its setup packet and data, packets cover the buffer, and
the guest finds them.

**Block cache** (guest; `usb-wasi-guest/examples/mass-storage/src/mass_storage.rs`).
*State*: an LRU cache of 128 blocks with dirty bits, a cursor, the medium.
*Operations*: seek, read, write, flush, drop. *Hard*: accesses that cross
blocks, partial hits, evictions of dirty entries, ranges, a command that fails or
panics in the middle of a call. *Correct when*: a read returns what was written
last, a flush leaves everything on the medium, no block has two entries, and a
failure costs no more than the blocks it was about.

**Bulk-Only Transport** (guests; `bulk_only/` of the mass-storage example and
of `usb-bench-rs`). *State*: in the client the tag and the phase; in the stick
the command it is in and the packets it has yet to send. *Operations*: `open`
with its reset, `command_in`, `command_out`, tags. *Hard*: a transfer that is
lost, or reported lost and done; a process that ends in the middle of a
command; a second process with tags of its own. *Correct when*: an `Ok` is
about the command it answers, a write that passed is stored, and nothing else
is stored.

**Partition readers** (guests; `usb-wasi-guest/examples/`: `readlot.rs`,
`read_and_hash.rs`, `read_throughput.rs`, `read_latency.rs`). Four programs with a
copy each of one stack: `UsbMassStorage` sends READ(10), `IoSlice` confines seeks
and reads to a partition, `BufReader` reads ahead. *State*: the tag, the seek
position, what the stick has yet to send, the position in the partition, the
buffer, the file being read. *Operations*: reset, TEST UNIT READY, READ
CAPACITY, `read`, `seek`, the loops of the programs. *Hard*: a data phase or
a status that is given up without a reset meets the next command; data may be
short; the capacity is one block short; files may reach past the partition.
*Correct when*: each byte delivered is the one asked for, a hash is of the
whole file, nothing fails by itself, and the programs end.

**Webcam** (guest; `examples/webcam/src/webcam.rs`). *State*: the probe and commit
controls of the camera, the alternate setting, the stride, the reassembly buffer
with its frame id. *Operations*: the handshake, `capture_uvc_frame`. *Hard*:
packets that are lost, cut short or broken; frames told apart by one bit; a frame
that is complete in the middle of a transfer; a capture that begins in the
middle of a frame. *Correct when*: the camera streams as negotiated, a packet is
found where the host put it, and a captured frame is one frame.

**Mazes** (guests; `examples/ps5-maze`, `examples/xbox-maze`). *State*: the maze,
`current_pos`, score, `power_timer`, `button_down`. *Operations*: finding and
opening one of two controllers, then turn after turn of reading a report and
moving. *Hard*: reports that are short, missing or of another kind; turns as
long as the read and the sleep make them; two directions at once. *Correct
when*: PACMAN is where `current_pos` says, the score is what was eaten, the timer
is right, a press moves once.

**Others**: command line and allow-list parsing, instrumentation, the generated
bindings, the FAT command line, the native and C twins, and the small example
programs. `PROJECT.json` lists each; section 8 says why it is left out.

## 2. The models and the code

| Module | Models |
|---|---|
| `TransferContract` | what the `transfer` resource of `wit/transfers.wit` promises: the abstract specification |
| `TransferLifecycle` | transfers, as the host implements them |
| `TransferLifecycleProofs` | theorems about `TransferLifecycle` |
| `TransferLayout` | the arithmetic of the buffers of transfers |
| `TransferLayoutProofs` | theorems about it, for every size |
| `HostDevices` | devices, hotplug, reference counts, handles |
| `HostDevicesProofs` | theorems about `HostDevices` |
| `BlockCache` | the block cache of the mass-storage guest |
| `BlockCacheProofs` | theorems about `BlockCache` |
| `BulkOnly` | the two Bulk-Only clients and a stick |
| `BulkOnlyProofs` | theorems about `BulkOnly` |
| `PartitionReader` | the four programs that read a partition, and a stick |
| `PartitionReaderProofs` | theorems about `PartitionReader` |
| `Webcam` | the webcam guest and a camera; extends `TransferLayout` |
| `WebcamProofs` | theorems about its handshake and its capture |
| `Maze` | both maze games, with both controllers |
| `MazeProofs` | theorems about `Maze` |
| `MCTransferLifecycle`, `MCHostDevices`, `MCBulkOnly`, `MCPartitionReader`, `MCWebcam`, `MCMaze` | the sets their configurations use |

`PROJECT.json` maps every definition to the lines it models. Each module also
has a few operators under the heading *Mutants*: variants of an action as a
slip in the code would leave it. No specification uses them; each has been put
in the place of the action it varies, and the property it is listed with then
fails.

### TransferLifecycle

A host function is one action where the event thread cannot tell the
difference, and several where it can. The cuts are around the load of
`completed`, around the calls of libusb, and between the effects of the
callback. `host[t]` is the position of the main thread, `callback[t]` that of
the event thread.

| Code | Actions |
|---|---|
| `new_transfer` | `NewTransfer` |
| `submit_transfer` (341-446) | `SubmitCheck` (type and flag), `SubmitRejectLength`, `SubmitPrepare` (data copied, buffer and sender into the context, or the panic of `expect`), `SubmitAccepted` or `SubmitFailed`, `SubmitStore` (receiver) |
| `cancel_transfer` | `CancelCheck`, `CancelCall` |
| `await_transfer` | `AwaitBegin` (takes the receiver), `AwaitReturn` |
| `HostTransfer::drop` | `DropCompleted`, `DropInFlight` then `DropCancel`, `DropUnsubmitted` |
| `transfer_callback` | `CallbackEnter`, `CallbackPublish`, `CallbackSend`, `CallbackRelease` |
| event loop | `EventLoopBreak` |
| `HostDeviceHandle::drop` | `DropHandle` |

`urb[t]` is libusb's own state, external: `flying` and `cancelling` transfers are
on its list, a `reaped` one has been given to the callback, an `orphan` was taken
off the list by `libusb_close`, which calls no callback. `faults` collects every
use of freed memory with its place. Payloads are abstract: one result stands
for the data and for the packet results.

Three constants say how the guest behaves, because some promises hold for some
guests only: `Resubmits` (does it submit a transfer twice), `Abandons` (does it
cancel or drop transfers it has not awaited), `Closing` (does it drop the device
handle at any moment, after its transfers, or only when nothing is in flight).

The abstract `TransferContract` knows neither threads nor flags: a transfer is
created, submitted with success at most once, completes at most once, answers
with the result it completed with, and its object is released once and never
while it is pending. The refinement mapping reads the owner off the table, the
object off the `libusb_transfer`, and the progress off the channel and libusb:
*done* once the callback has sent, *pending* while libusb has the transfer and
nothing is sent, *spoiled* when the buffer is gone without a completion,
*ready* otherwise. Seen that way `CallbackSend` is the completion, and
publishing the flag and taking the receiver are invisible.

### HostDevices

A `Device` is a `libusb_device` object, that is one attachment of one physical
device: it comes at most once and goes at most once. `messages` are libusb's
hotplug messages the event thread has not processed. `HotplugRef` is
`hotplug_cb` up to `libusb_ref_device`, `HotplugPush` the push under the lock of
the queue; the main thread may run in between. `list_devices` is `ListBegin`
(`libusb_get_device_list`), one `ListKeep` for each device it keeps, and
`ListEnd`, so that devices come and go while it runs. `poll_events` is one
action: it drains the queue under the lock. `HostDeviceHandle::close` changes
nothing but `closed`, which records that the guest called it.

`RefsAccounted` names the owners of references: libusb itself, the list of a
running `list_devices`, the devices it has kept, a running callback, the queue,
the guest's resources, the open handles.

### BlockCache

The module follows `read` and `write` slice by slice. Every byte of the medium
and of every write has a value of its own, so a byte copied to the wrong place
is seen. A slice out of range or a copy between lengths that differ makes the
call panic (`ok` false, `device = "panicked"`), with the effects up to there.
`Release` chooses between builds without and with overflow checks.

The code has several defects (section 7), so its promises hold for a *careful*
guest only. `CarefulRead` and `CarefulWrite` say what is careful:

- an access evicts nothing dirty;
- a write within one block is to a block that is cached;
- a write over several blocks finds none of them cached, and nothing dirty;
- a read over several blocks is of at most two, no more than the cache holds,
  and finds nothing dirty.

With `Careful = FALSE` the guest does what it likes.

A call runs once with all of its commands in order and, in `Outcomes`, once more
for each command that may fail. The outcomes are those `BulkOnly` leaves the lenient
client: no status of its own (`unwrap` panics), a bad status, or a good one after a
data phase that failed or was short. A READ panics in all three (`todo!`, or the
copy of short data that follows); a WRITE panics without a status, but with a bad
one `write_blocks` prints the sense data and goes on as if it had passed. A WRITE
that fails has stored some first blocks, none or all among them. `lost` collects the
blocks of WRITEs that failed without a panic, `unsaved` the addresses written since
the last flush.

Counts of blocks are a `u16` in the code (lines 360 and 424): `Counted` cuts them modulo
`CountModulus`. A write of more blocks than that (`WriteTooMany`) fetches the first block,
and the last one unless the count has become one, and panics when its bytes do not fit.

### BulkOnly

Two clients of the repository differ in what an error does. The *strict* one
(`usb-bench-rs`) ends the command at the first error and, except for its first
command, the process. The *lenient* one (mass-storage example) drops the errors
of the command block and of the data phase and lets the status decide.

The stick is external and as permissive as the clients let it be: it takes a
command block while the data of an earlier command is not waiting, even when a
status is; while it waits for data it takes anything for data; data where it
waits for a command halts it until it is reset; the very first command block of
a process may be ignored (the comment of `ScsiDevice::new`). Any transfer may
fail, with or without having reached the stick, and `Exit` ends a process
anywhere. The reset of `open` may fail too, since its error is dropped and not every
device has it: then the stick is as it was, but for a stall that the strict client's
`clear_halt` may end. The history variable `reset` says whether the last one worked.

### TransferLayout

`TotalLength` is `total_len`, a `u32` that wraps in a release build; `Panics` is the
store of the setup packet into a vector that is too short for it (a debug build
panics in the sum). `TransferLength` is the `i32` libusb gets, `PacketLength` and
`PacketOffset` lay out isochronous packets, `ResultRange` is what the callback
copies out.

### PartitionReader

| Code | Definitions |
|---|---|
| `UsbMassStorage::new` with `reset` | `Reset` |
| `test_unit_ready`, `send_over_usb` | `TestUnitReady`, `SendOverUsb` |
| `read_capacity` | `ReadCapacity`, `Capacity` |
| `receive_over_usb`, `receive_csw` | `ReceiveOverUsb`, `Statuses`, `Valid` |
| `Read for UsbMassStorage` | `UsbRead` (range check, block arithmetic, READ(10), `data[start..end]`, seek position only moved on success) |
| `Seek` and `Read for IoSlice` | `SeekTo`, `SliceRead`, `Clip` |
| `main` up to the volume | `ReadMbr`, `OpenVolume` |
| `io::copy` of readlot | `Copy` |
| `compute_hash`, `read_item` of read_and_hash | `ComputeHash`, `NoHandle`, `ReadHashed`, `Listed` |
| the iterations and `read_item` of read_throughput | `OpenVolume`, `ReadNothing`, `ReadExact`, `NextItem` |
| the loop of read_latency | `Latency` |

A byte of data is its own address; `Zero` is a byte of the zeroed vector that
did not arrive, `Odd` one of a status. A command is one action: the program waits
for it, and what the stick still holds afterwards, `pipe`, is all that one command
can do to a later one. A file of no bytes has no cluster, and the library opens it to no
handle (`NoHandle`): read_and_hash prints `-` for it, read_throughput counts no bytes. The stick answers in full, short, with a failed status, or
not at all, and each transfer may fail having taken its packet or not. The stick,
`BufReader` and the exFAT library are external.

### Webcam

`Open`, `GetProbe`, `SetProbe`, `GetNegotiated`, `Commit`, `EnableAwb` and
`SetAltsetting` are the calls of `open_uvc_stream` in order; each may fail, and
then `new` panics, except the white balance. `Prompt` is ENTER, `Transfer` one
attempt of `capture_uvc_frame`: a whole transfer (`Track`, `Sent`), and the walk over its
packets (`Walk`, round after round of `Visit`), which stops at the first complete frame. `Reassemble` is what a packet
with a valid header does, `Past` the `offset += stride` before any `continue`,
`Found` the packet that lies there by the host's layout.

The camera is external and never waits: it sends part after part, and `Miss` is a
part sent while no transfer is under way. A packet carries its part whole, cut
short, or under a broken header; others have a header only or are empty, as all are
when the alternate setting has no bandwidth (`PacketKinds`). The end
of a frame is marked in its last packet, in one of its own, or never.

### Maze

`ListDevices`, `OpenPs5Maze`, `OpenXboxMaze` and the failures are the code before
the loops, `Ps5Move` and `Ps5Stay` a turn of ps5-maze, `XboxTurn` one of xbox-maze.
ps5-maze prefers up to down to left to right and moves once in `MoveDelay`;
xbox-maze tries right, left, up and down in turn, each from where the one before
has led. `TurnFails` ends either: ps5-maze panics when `new_transfer` fails and ends when
the screen cannot be flushed, xbox-maze ends when a read fails or is late. A turn takes a read of up to `MaxWait` and a sleep of up to `MaxSleep`;
`lag` and `sinceMove` are `last_frame` and `last_move` seen from the start of the
turn.

`Readings` is what a parser makes of a report, given the hat and the stick the
player holds: a short report parses as the default state, a report of another kind
does so for the PS5 parser and is anything for the Xbox parser, which does not
look at the first byte. The history variable `press` counts the turns that may yet move
PACMAN of xbox-maze while the player holds a direction: one, and one more after each such
report.

## 3. What the runs check

Runs that pass:

| Run | Question | Properties |
|---|---|---|
| `transfer_any` | any guest, any moment, even a dead event thread | `TypeOK`, `FreedOnce`, `KernelPinsBuffer`, `PublishedBeforeFreed`, `NoCompletionLost` |
| `transfer_orderly` | a guest that lets its transfers land before it drops the handle | `AwaitReturns`, `DroppedIsReleased`, `ContractSpec` |
| `transfer_awaiting` | a guest that awaits all it has submitted | `NoFault` |
| `devices` | every order of listing, hotplug, polling, opening, dropping | `TypeOK`, `RefsAccounted`, `EventsInOrder`, `NoneMissed`, `OnlyAllowed`, `DepartureAnnounced` |
| `cache` | a careful guest, every alignment, commands that fail | `TypeOK`, `ReadsAsWritten`, `CleanIsOnMedium`, `FlushedIsOnMedium`, `BytesStayInPlace` |
| `bulk` | both clients in turn, killed anywhere, transfers lost, resets that fail | `TypeOK`, `OkIsMine`, `MediumHoldsOnlyData`, `WriteConfirmed` |
| `reader` | four programs over transfers that fail, time out or come short | `TypeOK`, `DeliveredInPlace`, `WholeOrNothing`, `NoErrorWithoutFault`, `Terminates` |
| `webcam` | a camera whose packets are held, cut, broken or missed | `TypeOK`, `CommitAsNegotiated`, `FindsPackets`, `NeverMixesNeighbours`, `WholeUnlessMissed`, `BuffersFit` |
| `maze` | both games, both controllers, every report and every pace | `TypeOK`, `PacmanWhereItIs`, `ScoreIsEaten`, `PowerIsCurrent`, `OneMovePerPress` |

What they show:

- *The protocol between the callback and the drop is right about ownership.*
  The order publish, send, free, with the buffer in the context and the receiver
  stored late, frees everything at most once, keeps the device's memory, and
  loses no completion, whatever the guest does.
- *It is right about use only for some guests.* `NoFault` holds for one that
  awaits what it submits and drops transfers before handles; run
  `transfer_race` shows that cancelling is enough to break it.
- *The reference counts balance* over the three owners and two threads, and the
  order "enable hotplug, then list" misses no device although the registration
  enumerates nothing.
- *The cache is right for a careful guest*, and `cache_flush` shows it is not
  beyond. Failures do not spread: a WRITE that failed costs its own blocks, a panic
  costs what was not flushed, and no byte ends up at another address.
- *The Bulk-Only clients do not confuse commands*, except the two a process begins
  with when the reset of its `open` failed: tags start over in each process, so TEST UNIT
  READY and INQUIRY may take the answers a killed process left for theirs, and a stick that
  awaits its data may store one of their command blocks. That is all a failed
  reset costs: from the third command on the tags keep everything apart. A write that is
  reported to have passed is stored in any case.
- *The readers never deliver a byte of another command*, although they give up
  commands in the middle and never reset: length, signature and tag of the status
  are what they rest on. A byte that did not arrive is zero, though, and is returned
  as `Ok`. Without a fault, the only files that go without a hash are the empty ones.
  Their loops end, also over a file that reaches past the partition.
- *A captured frame is one frame, unless an odd number of whole frames is lost*: then
  the one-bit id comes round. A frame of which nothing was missed, nor of its
  successor, is what the camera sent.
- *The mazes keep their books*: the timer may be one turn short but not longer, and
  a button held moves PACMAN in one turn, and in one more only after each report
  in between that is short or no input: the parser takes it for a release.

Runs that end in a violation are in section 7.

Every configuration sets `CHECK_DEADLOCK FALSE`: guests stop whenever they like,
devices leave for good, the host panics, and the counters are bounded.

## 4. Bounds

| Run | Instance | Distinct states | Depth |
|---|---|---|---|
| `transfer_any` | 2 transfers | 83,937 | 37 |
| `transfer_orderly` | 2 transfers | 4,219 | 34 |
| `transfer_awaiting` | 2 transfers | 1,659 | 27 |
| `devices` | 2 devices, 1 handle | 57,882 | 24 |
| `cache` | 5 blocks of 2 bytes, 2 entries, buffers of 1, 3 or 6 bytes, counts modulo 4, 2 writes, 2 failures | 1,463,447 | 19 |
| `bulk` | 8 commands | 295,618 | 26 |
| `reader` | 4 programs, 5 blocks of 2 bytes, 3 partitions, 4 files (one of them empty) | 31,452 | 19 |
| `webcam` | frames of 3 parts, 2 packets a transfer, 2 attempts, frames 0 to 2 and the one after | 99,519 | 21 |
| `maze` | 2 games, a board of 5 x 5 | 7,006 | 25 |

*Transfers*. Transfers meet in three places only: the main thread runs one call
at a time, the event thread one callback at a time, and the drop of the handle
orphans all of them. Two transfers fill each of these. One is IN with a
timeout, the other OUT without, so both directions and both ways of never
ending occur.

*Devices*. One device is on the allow list and one is not; either may be present
at the start, come and go. `MaxSlots = 2` lets a device be listed twice or
listed and announced, so that several resources hold it at once. One handle is
enough for its reference to outlive the resource it was opened from.

*Cache*. A block of two bytes has every alignment a block can have: at the start,
inside, across. Two entries under four accessible blocks (the code leaves the
last of the five out of the capacity) force evictions. Buffers of 1, 3 and 6 bytes touch from
one block to four, which are as many as the count can no longer hold. Two
writes are what it takes to overwrite something written; two failures, one in a
call at most, let a flush fail and the call that would repair it.

*Bulk*. Eight commands let a process send its three start-up commands, be killed in
the next, and another process, of either kind and after a reset that worked or failed, start
and send a command past its own start-up.

*Readers*. The partitions end inside the capacity, with the last block, and at
once. The files lie within a block, across blocks, and past the end of every
partition, and one is empty. A buffer of 3 bytes over blocks of 2 reads at every alignment; the
modulus of 4 blocks is above what any read asks for, as 65536 is.
Two passes read each file again after the failures of the first; five reads of
read_latency wrap around the capacity.

*Webcam*. Three parts are a first, an inner and a last one, which is what
`is_complete_jpeg` looks at. Two packets a transfer let a frame end in the middle of
one; two attempts let a frame be captured in two transfers or run out of them.
Frames 0 and 2 have the same id with one between. One camera has no alternate
setting, one has one without bandwidth, and one has three, of which the second is
the largest because its packets come twice in a microframe. `Sizes` holds the sizes around the
ends of 16 and of 32 bits (here 18, `U32` = 2^18, since TLC counts to 2^31).

*Mazes*. The board has a wall to go around, food, pellets and a ghost, and all
walks over it are short. With a delay of 3 and turns of up to 4 units a move
comes at once, after a pause, or after a long turn; the power of 6 ends within a
turn, at its end, or is renewed by the second pellet.

Other bounds: `MaxWrites`, `MaxFaults`, `Lengths`, `MaxCommands`, `MaxSlots`, `Passes`, `Reads`,
`MaxFrame` and `MaxSleep`; each is a conjunct of the guard of the action it
bounds, the loop's own limit, or the set an argument is taken from.

The theorems of section 6 hold without these bounds: for any transfers, any
devices and handles, any number of Bulk-Only commands, any closed maze and
times, any partitions and files, blocks and caches of any size, frames of any number of parts over transfers of any
number of packets, and any size of a buffer.

## 5. Fairness

`TransferLifecycle!Fairness`:

- *a host call goes on once it has begun*: the runtime does not preempt it and
  `AwaitReturn` is enabled only when the channel has a result;
- *a callback goes on once it has begun*: nothing in it blocks;
- *libusb ends a transfer that has a timeout or was cancelled*, as long as the
  event thread lives. It need not end one without a timeout.

`HostDevices!Fairness`: `list_devices` goes on once called, and the event thread
processes its messages.

No fairness is assumed of the guest: it may stop calling at any time. None is
assumed of the device beyond libusb's own timeouts. `EventLoopBreak` is always
allowed in `devices`, so `DepartureAnnounced` says "or the event thread has
stopped"; in `transfer_orderly` the event loop does not break (`LoopBreaks =
FALSE`), since with a dead event thread no await returns.

`PartitionReader!Spec` has `WF_vars(Next)`: every transfer of these programs has a
timeout of 1000 ms, so each command ends, and nothing waits for a user. Both
`read_throughput` and `read_latency` stop after a number of iterations in the code,
too.

`BlockCache`, `BulkOnly`, `Webcam` and `Maze` state safety only: their users may
stop, and the games have no end.

## 6. What is proved

### TransferLifecycleProofs

It holds for every set of transfers, every subset of OUT
and timed ones, every set of statuses, and every guest unless it says otherwise.
It assumes `SubsetAssumption` and `GuestAssumption` of `TransferLifecycle`, which
only type the constants.

| Theorem | States |
|---|---|
| `TypeCorrect` | `Spec => []TypeOK` |
| `Invariance` | `Spec => []IInv` |
| `NeverFreedTwice` | `Spec => []FreedOnce` |
| `KernelMemoryStays` | `Spec => []KernelPinsBuffer` |
| `FlagPrecedesFree` | `Spec => []PublishedBeforeFreed` |
| `CompletionsStay` | `Spec => []NoCompletionLost` |
| `CarefulGuestIsSafe` | `Spec => []NoFault`, when the guest neither resubmits nor abandons, and drops the handle after its transfers |
| `Refinement` | `Spec => ContractSpec` |

*The argument.* None of the invariants is inductive. `FreedOnce` for instance
depends on what `drop` finds: it frees when `completed` is false and there is no
receiver, which is safe only if that implies libusb never had the transfer, or
has refused it. `IInv` makes this explicit. It splits on `urb[t]`:

- `IdleInv`: libusb does not have it. No flag, no receiver, and a sender exists
  only inside `submit_transfer`.
- `FlyingInv`: libusb has it or orphaned it. Object and buffer are allocated, the
  buffer is in the context, the channel is open, the flag is down.
- `ReapedInv`: the callback has it or had it. The position of the callback fixes
  flag, channel, object and buffer.
- `ReceiverInv`: from submission on, the receiver is there except between
  acceptance and `SubmitStore`, and after an await that has its answer.

With `TypeOK` and `FreedOnce` the conjunction is inductive. `TransferStep` proves
one conjunct for one transfer over every action, `FreeStep` the two functions
that free; the invariants then follow state by state. `CarefulGuestIsSafe` adds
`CarefulInv`: a submission that has begun still finds its
buffer, such a guest is never inside a cancellation, and the handle is closed
only once no transfer is owned. `Refinement` uses
`IInv` in each step: for example that a transfer `drop` frees is *ready* or
*spoiled*.

### HostDevicesProofs

For every set of devices, any allow list, any handles and slots. `DeviceAssumption`
types the constants and keeps the value of an absent callback apart from the
devices.

| Theorem | States |
|---|---|
| `TypeCorrect` | `Spec => []TypeOK` |
| `RefsCorrect` | `Spec => []RefsAccounted` |
| `OrderCorrect` | `Spec => []EventsInOrder` |
| `MissCorrect` | `Spec => []NoneMissed` |
| `AllowedCorrect` | `Spec => []OnlyAllowed` |

`BaseInv` has the types and what goes together: a running callback works on the
head of `messages`, an idle `list_devices` has no list, a backend without a context
has nothing. On it rest, each over the ones before:

- `LogInv`: what was reported, what is queued, and what libusb has yet to process
  are one ordered log. `EventsInOrder` speaks of its first part only, and could be
  broken by a queue that holds a note again. `PortInv` says which notes of a device
  there can be, given where the device is.
- `VisibleInv`: what the guest holds or will hold is allowed and present to it.
- `MissInv`: what a `list_devices` under way has not got in its snapshot has to be
  announced as well; `NoneMissed` speaks only of one that has ended.
- `RefInv`: the count of a device is libusb's own reference (`Mine`) and those lent
  (`Lent`: list, kept, callback, queue, resources, handles). It defines the counts
  from the other variables, so each action need only show that both sides change
  alike. The types need it too: a count is never below zero because it is a sum.

### BulkOnlyProofs

For every number of commands (`BulkAssumption` types the constants), any clients,
and processes killed anywhere.

| Theorem | States |
|---|---|
| `TypeCorrect` | `Spec => []TypeOK` |
| `OkCorrect` | `Spec => []OkIsMine` |
| `MediumCorrect` | `Spec => MediumHoldsOnlyData` |
| `WriteCorrect` | `Spec => []WriteConfirmed` |

None of them assumes that a reset works. `TypeInv` adds to the types that what a stick owes
ends with a status (`Shaped`), that one which awaits data owes at most a status, which bounds
what it ever has to send by three packets, and at which command of its process a client is
(`CountInv`).

`DialogueInv` says what the stick may owe at each point of the client's program while
the dialogue is `Clear`, that is after a reset that worked or from the third command on.
Before a command block (`AtReady`) it awaits one, and all it owes has a tag of an earlier
command. Before the data (`AtData`) it owes this command's reply too, behind those, or awaits
the data of this very command. Before the status (`AtCsw`) a status that passes is there only
with its data collected or stored. The properties follow because `validate_csw` compares
the tag.

After a failed reset the stick may owe anything another process left, under tags that start
over. What has to be shown is that this is over with the third command, whose tag
is the first that no start-up command has. The strict client's INQUIRY goes on only when each
transfer succeeds, and a status it finds is then the last packet (`StrictStart`): nothing is
left when it has passed. The lenient client goes on after errors: its INQUIRY passes on a
status of tag 1 only, and a stick that sends one, be it of the killed process, awaits a command
block and has nothing of a later tag behind it (`LenientStart`, `Quiet`). For the two commands before,
the exception in `OkIsMine` and `MediumHoldsOnlyData` is needed: TLC finds an Ok of a killed
process, and a stored command block, in each of the two. `WriteConfirmed` needs none, since no start-up command writes.

### MazeProofs

For every closed maze with one PACMAN, all ghosts that cover neither a wall nor
PACMAN, and all times (`MazeAssumption`).

| Theorem | States |
|---|---|
| `TypeCorrect` | `Spec => []TypeOK` |
| `PacmanCorrect` | `Spec => []PacmanWhereItIs` |
| `ScoreCorrect` | `Spec => []ScoreIsEaten` |
| `PowerCorrect` | `Spec => []PowerIsCurrent` |
| `PressCorrect` | `Spec => []OneMovePerPress` |

`MazeInv` is the types and `Played`: the walls are those of the start and PACMAN
is at `pos`. A closed maze keeps every step inside (`Inside`); the four tests of
xbox-maze are four uses of one lemma (`WalkPlayed`). `ScoreCorrect` follows the
cardinality of what is eaten through a step (`EatenByStep`). `PowerInv` adds that
`lag` is at most `MaxSleep`; `PressInv` that the press is not used up (`press` is one)
whenever `button_down` is false, and never below zero.

### PartitionReaderProofs

For every stick, partitions, files, sizes of blocks and buffers and numbers of
iterations (`ReaderAssumption`, which types the constants and asks for one file at
least).

| Theorem | States |
|---|---|
| `Inductive` | `Spec => []ReaderInv` |
| `TypeCorrect` | `Spec => []TypeOK` |
| `PlaceCorrect` | `Spec => []DeliveredInPlace` |
| `WholeCorrect` | `Spec => []WholeOrNothing` |
| `FaultCorrect` | `Spec => []NoErrorWithoutFault` |

`ReaderInv` is inductive:

- `TypeInv`: the types, and what a stick may owe: packets whose tags have been used.
- `StageInv`: how far each program has come, and what that says of tag, position and
  partition.
- `ReadingInv`: while a file is being read, the bytes collected are those from its
  start, the buffer holds those that follow, and the position is where both end.
- `FaultInv`: without a fault nothing is owed, no program has failed, no file is left
  out but empty ones.

`DeliveredInPlace` and `WholeOrNothing` are conjuncts as they stand. The argument
about a command (`Sound`, `Complete`): `receive_csw` compares the tag, all tags the
stick may owe are older ones, so a status that is accepted was sent for this command,
and everything in front of it has been collected; had an earlier command left
anything in the pipe, the data would have been that, and this command's own would be
read for its status and fail. `BlocksCover` shows that the blocks of READ(10) cover the range
that is cut from them. `FaultCorrect` is about the guests' own arithmetic: with `Readable`
every read is in range, and a count of blocks is not cut to its sixteen bits; so only a file
without a handle goes without a hash.

### WebcamProofs

For every set of alternate settings, frames of any number of parts and transfers
of any number of packets (`WebcamAssumption`: the longest buffer a capture may need fits a
`u32`).

| Theorem | States |
|---|---|
| `CommitCorrect` | `Spec => []CommitAsNegotiated` |
| `Inductive` | `Spec => [](HandshakeInv /\ CaptureInv)` |
| `TypeCorrect` | `Spec => []TypeOK` |
| `PacketsCorrect` | `Spec => []FindsPackets` |
| `NeighboursCorrect` | `Spec => []NeverMixesNeighbours` |
| `WholeCorrect` | `Spec => []WholeUnlessMissed` |
| `BuffersCorrect` | `Spec => []BuffersFit` |

`HandshakeInv` says what each call of `open_uvc_stream` has achieved. That `Best`,
a CHOOSE, has something to choose is `BestIsLargest`: a sequence of bounded numbers
has a first largest one, by two uses of the least element of a set of naturals.

`CaptureInv` is about the buffer (`StateOK`, `Tidy`): its parts lie behind the camera, are in
order, have one frame id, and are `Gapless`: a buffer that begins with the first part of
a frame holds all that the camera has sent of it, unless a part of that frame or of the next
was missed. `Gapless` is what makes `WholeUnlessMissed` inductive. Its delicate case is a
frame that is over and the first part of the next: the frame id has toggled, so that part is not
joined to the buffer; had it been missed, the next frame but one would have the old
id, which is why the property speaks of the successor.

A transfer is one action with a loop in it. `TrackDef` and `WalkDef` show that the two
recursive functions satisfy their equations, by induction over a set of numbers
(`UpTo`), `VisitOK` that a round keeps `AccOK`, for each kind of packet, and `WalkOK` puts the
rounds together. `FoundHere` rests on `GuestFindsItsPackets` of `TransferLayoutProofs`: distinct packets
lie at distinct strides as long as the stride is not zero, and a camera without
bandwidth sends only empty packets.

### TransferLayoutProofs

For every word width above 2^17 (`WidthAssumption`).

| Theorem | States |
|---|---|
| `ControlTransfersFit` | `ControlFits` of every `u32` size |
| `PacketsFillTheBuffer` | `PacketsTile` of every size and number of packets |
| `GuestFindsItsPackets` | `StrideFinds` of every stride and number of packets |

The first is what makes a sum that wraps harmless: it leaves less than the eight
bytes of the setup packet, so the host panics before libusb sees the transfer.

### BlockCacheProofs

For blocks, media, caches and buffers of any size, whether or not the count of blocks holds
what a buffer touches, and any number of writes and failures (`CacheAssumption`, which types
the constants; the modulus of a count is more than two).

| Theorem | States |
|---|---|
| `TypeCorrect` | `Spec => []TypeOK`, whatever the guest does |
| `CarefulAlways` | `Careful` implies `Spec => []CarefulInv` |
| `CleanCorrect` | `Careful` implies `Spec => []CleanIsOnMedium` |
| `FlushedCorrect` | `Careful` implies `Spec => []FlushedIsOnMedium` |
| `BytesCorrect` | `Careful` implies `Spec => []BytesStayInPlace` |
| `ReadsCorrect` | `Careful` implies `Spec => []ReadsAsWritten` |

Without `Careful` TLC violates each of the last four on the instance of section 4 (the
run `cache_flush` keeps one of these counterexamples). `Careful` is a constant of the
specification, under which `Read` and `Write` have the guards `CarefulRead` and
`CarefulWrite` (section 2).

*Types.* A call is a record that goes through the folds of `read`, `write` and
`flush`; `Calls(first, last, fault)` is the set of those records. There is a typing lemma
for each operation, and `Loop` for the recursive functions: what holds of the start, and of a
round when it holds of the one before, holds at the end (`UpTo`, an induction over a set
of numbers). The conjunct with an argument of its own is that the cache has one entry for a
block and no more than `CacheSize`: `find` only moves entries (`MovedType`), and `Update`
inserts only what it has not found, in place of the last entry of a full cache (`InsertType`,
`UpdateType`).

*The careful guest.* None of the four properties is inductive: they say nothing
of dirty entries, nor of what a read puts into the cache. `CarefulInv` does, by two functions of
the state. `Expects` is the data of each block according to `disk`, what the guest has
last written; `Possible` is all data of which each byte is the original one or was written to its
address. The invariant has the types, `FlushedIsOnMedium`, `ReadsAsWritten`, and

- `Intact`, unless the guest has panicked: a cached block holds what is
  expected, and the medium too unless the block is dirty in the cache; exempt are blocks that
  were in a WRITE that failed. A clean entry equals the medium.
- `InPlace`, also after a panic: each block of the medium is possible.

TLC found no state of the `cache` run outside `CarefulInv`.
The same condition on the record of a call is `Sound`, and each operation
keeps it:

- the cache: `InsertSound` (what is evicted is clean), `OverwriteSound`, `ChunksSound`;
- `read`: a block that is cached is copied to its place in the buffer (`HitSound`,
  `Placed`); a range that is missing is read, cached and copied (`FillSound`,
  `Filled`). An access of one block or two has one range or two, at its start or behind it
  (`ReadOneSound`, `ReadTwoSound`). A miss behind a hit returns nothing wrong: its data would
  be that of the start of the access, but the slices differ in length and the copy
  panics (`SecondRange`);
- the counts: a careful read is of two blocks at most, which the count holds; a write of
  more than it holds has stored and cached nothing when it panics (`WriteTooManySound`);
- `write`: `WriteOneSound` for a write into a cached block, `WriteManySound` for one over
  several: the buffer is what was there, patched (`Patched`), and what is expected moves along
  (`Meets`), or the WRITE failed and its blocks are lost (`Rewritten`);
- `flush`: after the first i entries the medium has each of them that is dirty
  (`WriteBackStep`), at the end all that is expected (`FlushSound`, `Brought`).

A write that the capacity cuts short panics when its bytes are copied (`SpanEnd`). `disk`
then tells of a write that neither cache nor medium has, which is why `Intact` is asked only of
a guest that has not panicked; its addresses are unsaved, so `FlushedIsOnMedium` stays true.

### Model-checked only

- Liveness (`AwaitReturns`, `DroppedIsReleased`, `DepartureAnnounced`, `Terminates`):
  fairness and ENABLED are out of the prover's reach.
- Each of the three violations of section 7, which are counterexamples of an instance.

Every other property that a run checks is stated by a theorem.

## 7. What the models found

Each of these is a run whose one property TLC violates; the property restates a
document, comment or test of the repository.

| Run | Property | What happens |
|---|---|---|
| `transfer_race` | `NoFault` | `cancel_transfer` and `drop` load `completed`, the callback publishes, sends and frees, and `libusb_cancel_transfer` works on freed memory (`main.rs:448-449`, `469-475`). `docs/implementation.md:168` asks for no races here. |
| `transfer_orphan` | `DroppedIsReleased` | a transfer dropped in flight is left to its callback; the drop of the handle takes it off libusb's list first, and it is never freed (`main.rs:859`; the comment at 464-465 says the callback frees it). |
| `cache_flush` | `FlushedIsOnMedium` | a write within a block that is not cached stays in the cache as clean, and the flush forgets it (`mass_storage.rs:457`). |

Further disagreements, seen in the code while it was modelled, that no run is
spent on:

- `close` of a device handle only logs (`main.rs:851`); `wit/device.wit:85-86` says
  it invalidates the handle and releases its resources.
- A transfer that was awaited is answered `Busy` when it is submitted again
  (`main.rs:357`); `docs/implementation.md:103` says the cell resets for a
  re-submit.
- The error of the reset in `open` is dropped (`native.rs:84-92`); its comment at
  41-42 says the state is known afterwards. After a reset that failed the first two commands
  of a process may take the answers of a killed one for theirs, or have a command
  block stored as its data (section 3).
- The readers leave an empty file out (`read_and_hash.rs:763, 803-805`): it is printed as
  `-`, like a file that could not be read, although its hash is that of no bytes.
- The webcam does not look at the status of an isochronous packet
  (`webcam.rs:315`); `docs/implementation.md:88` shows that a guest should. A packet
  cut short is taken as if it were whole, which is why a captured frame may have
  holes.
- `ps5-maze/README.md:12-27` describes ghosts that chase. They never move, nothing
  costs a life, and the end of the game cannot be reached; a ghost put over food
  erases it. ps5-maze goes on after a claim that failed. xbox-maze draws before it
  moves, and a second without a report ends it.
- The readers take the last LBA for the number of blocks (`read_and_hash.rs:486`):
  the last block cannot be read. `NoErrorWithoutFault` holds of partitions that
  leave it out, and of files that begin in theirs (`Readable`).

The careful guest of `BlockCache` leaves out further defects that no document speaks of.
They are in the model with `Careful = FALSE` and listed as hazards that no passing run
covers: a dirty entry that is evicted is written to the block of its successor (lines 377,
461, 500), a range is read from the start of the access instead of its own (360) and over
dirty entries (371), a block in the middle of a read underflows an index (328), a write over a
cached block and its neighbour panics (491). A write of 65536 blocks or more panics
too, since its count is cut to a `u16` (424); that one is in the `cache` run.

## 8. What is not modelled

- *Descriptor getters, configurations, alternate settings, kernel drivers,
  streams, clear_halt, reset*: one libusb call each, no state of the host's own.
- *Command line, allow-list parsing, `instrument.rs`*: sequential, read back by
  nothing. The allow list's decision is the constant `Allowed`.
- *Generated bindings* (`host.rs`, the Go and C bindings) and the WIT files,
  which are declarations.
- *CSV loggers, statistics, scripts, the measurement loops of `benchmarks`*: no state
  that a model would tell apart. The loops await each transfer before they drop it,
  the guest of `transfer_awaiting`.
- *FAT command line of mass-storage*: sequential calls of the fatfs crate into the
  block cache.
- *Small examples*: straight-line calls; particular guests of the host's models.
- *Native twins over rusb*: the same Bulk-Only protocol.
- *In `PartitionReader`*: finding the stick and its endpoints, what is printed and
  measured; the exFAT library and its reading of metadata are external.
- *In `Webcam`*: finding the camera, the Huffman tables put into a frame,
  `guess_resolution`, decoding and files.
- *In `Maze`*: drawing, the buttons that are not directions, and `xbox.rs`, which
  prints reports.
- *In `BlockCache`*: parsing of INQUIRY and sense data, block sizes other than the
  constant, seeks below zero. The outcomes of commands are enumerated there and not
  taken from an instance of `BulkOnly`, whose three properties are what the
  enumeration rests on.
- *In `HostDevices`*: the growth of the queue of a guest that never polls, since
  the devices of an instance come once each.

## 9. Plan

The order was: transfers, the abstract contract and their proofs; devices; the
cache; Bulk-Only; then the readers, the layout of buffers, the webcam and the
mazes, failing commands in the cache, and the proofs of devices, Bulk-Only, mazes,
layout, readers, webcam and the block cache. What is left, the most useful first:

1. One specification of both `BlockCache` and `BulkOnly`, with the commands of the
   one sent by the other packet by packet.
2. Particular guests: `dual_transfer.rs` and the benchmarks as specifications that
   refine the guest of `TransferLifecycle`.
3. Liveness with a dead event thread: what `init` would have to do so that awaits
   return.
