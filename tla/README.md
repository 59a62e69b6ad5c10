# TLA+ models of the MMBI transport binding (ps-libmctp-win)

This directory holds TLA+ models of the MMBI binding for libmctp, of the simulated
MMBI driver it talks to, and of the small APIs built on top of both. Each model is
checked with TLC. This file is the project's documentation: what the system is made
of, what is modelled and how it maps to the code, what each run checks, and what is
left out.

## 1. Inventory

### Components

| Component | Source | State | Operations |
|---|---|---|---|
| **RingChannel**: the driver's ring buffer | `src/windows_driver/MmbiDriver.c` 24-31, 55-125 | `Buffer[RING_BUFFER_SIZE]`, `WriteIdx`, `ReadIdx`, `DataAvailable` | `RingBufferWrite`, `RingBufferRead` |
| **DuplexChannel**: the simulated driver | `MmbiDriver.c` 33-39, 128-198 | `GlobalContext`: one `WDFSPINLOCK` and two rings, `HostToBmc` and `BmcToHost`. A per-device `DeviceID` (0 = host, 1 = BMC) | `MmbiEvtIoWrite`, `MmbiEvtIoRead`: pick the ring by `DeviceID` and call the ring operation with the lock held. A full ring gives `STATUS_DEVICE_BUSY`. A short write completes as a success with a short count |
| **BindingAdapter, device path** | `src/src/mmbi.c` 22-53, 66-96, 114-118, 139-232; `src/include/libmctp-mmbi.h` | `struct mctp_binding_mmbi`: `device_handle`, `lock` (CRITICAL_SECTION), `binding.tx`, `binding.pkt_size`, `binding.tx_storage`. A function-static `rx_buf` shared by every binding in the process | `mctp_mmbi_init`, `mctp_mmbi_destroy`, `mctp_mmbi_init_device` (CreateFileA, message mode for pipes, tx_storage allocation), `mctp_mmbi_tx` (WriteFile, 3 attempts, Sleep(1), `-EIO`), `mctp_mmbi_poll` (PeekNamedPipe, then ReadFile of at most `pkt_size + 4` bytes, then pktbuf alloc and `mctp_bus_rx` under the lock; `-EPIPE` on a broken pipe) |
| **BindingAdapter, memory path** | `mmbi.c` 98-109, 120-137, 234-258 | `tx_storage`, `rx_storage`, `memory_size` | `mctp_mmbi_init_mem`, the memcpy branch of `mctp_mmbi_tx` (`-EMSGSIZE` above `memory_size`), `mctp_mmbi_rx` |
| **TransportContext, MMBI API** | `mmbi.c` 264-386 | `struct mctp_mmbi_context`: `mctp`, `mmbi`, `rx_cb`, `user_ctx`, `debug` | `mctp_mmbi_context_init` (allocations, 5 open attempts, register, tx enable, set_rx_all), `_destroy`, `mctp_mmbi_send` (under `mmbi->lock`), `_set_rx_callback`, `_set_debug`, `_context_poll`, the trampoline `mmbi_internal_rx` |
| **TransportContext, mctp_transport API** | `src/src/transport.c`, `src/include/mctp_transport.h` | `struct mctp_transport`: `mctp`, `mmbi`, `rx_cb`, `user_context` | the same operations with one open attempt. `mctp_transport_send` takes **no** lock |
| **MCTP core (libmctp)** | not in this repository | message assembly, tx queue, EIDs | `mctp_message_tx`, `mctp_bus_rx`, `mctp_register_bus`, ... are consumed only |
| **Test harnesses and mock pipe driver** | `src/tests/*.c` | relay threads between named pipes, poll threads with an outer `mctp_lock`, timeouts | `relay_worker` / `relay_thread`, `poll_thread`, `run_endpoint` |
| compiler shims | `src/include/compiler.h` | none | macros only |

### How the parts interact

The application calls a context API (`mctp_mmbi_send` or `mctp_transport_send`). That
calls the MCTP core (`mctp_message_tx`). The core cuts the message into packets of at
most `pkt_size` bytes and calls the binding's `tx` hook (`mctp_mmbi_tx`) once per packet.
`mctp_mmbi_tx` issues `WriteFile` on the device handle. The handle is either the
simulated driver (`\\.\MMBI0`, `\\.\MMBI1`) or a named pipe served by a test's relay
thread.

The receive path is driven only by polling. `mctp_mmbi_poll` reads with `ReadFile` and
hands the bytes to `mctp_bus_rx`. The core reassembles them and calls the trampoline
(`mmbi_internal_rx` or `transport_rx_handler`), which calls the user's callback. The
callback may itself send (`bmc_transport.c` replies from inside it).

Shared state:
- the driver's two rings, under one spinlock;
- `mmbi->lock`, which serialises `mctp_mmbi_send` against the delivery half of
  `mctp_mmbi_poll`;
- the core's state, which every send and every delivery mutates;
- the function-static `rx_buf` in `mctp_mmbi_poll`;
- the context's `(rx_cb, user_ctx)` pair, read by the trampoline.

### What is hard in this code

- **Framing over a byte stream.** The driver's rings carry bytes, not packets. A short
  write completes as a success. `mctp_mmbi_tx` then repeats the *whole* packet, so a
  prefix lands twice. `mctp_mmbi_poll` reads up to `pkt_size + 4` bytes, so two queued
  packets come out as one unit. Packet boundaries are kept only by message-mode pipes.
- **Concurrency.** Each endpoint runs a send path and a poll path, often on two threads.
  Only the MMBI API locks the send path. The poll path reads outside the lock. The lock
  is held across a blocking `WriteFile`.
- **Failures part-way.** `init_device` sets `device_handle` before an allocation that can
  fail. The context's retry loop then accepts the half-initialised binding. No destroy
  path closes the handle, and the open is exclusive (share mode 0).
- **Bounds.** Both the ring and the named pipes are bounded. The write retry gives up
  after 3 attempts. The open retry gives up after 5.

### What makes each component correct

- RingChannel: it behaves as a bounded byte FIFO. `DataAvailable` and the cursors agree.
  A write takes exactly `min(request, free space)` bytes. A read returns the oldest bytes.
- DuplexChannel: each endpoint reads exactly the byte stream its peer wrote, whatever the
  interleaving. Nothing is lost, duplicated or crosses directions.
- BindingAdapter: each unit given to `mctp_bus_rx` is exactly one transmitted packet
  (spec 4.3). The bytes a transmit leaves in the channel are whole packets. A success
  means the whole packet went. With a polling peer, everything written is eventually
  read.
- TransportContext: a context is returned only when fully initialised. Failures unwind
  everything, the device handle included. At most one thread is inside the core at a
  time. Every send returns. The callback sees a consistent `(cb, user_ctx)` pair.

## 2. Plan

The order follows importance: first the channel the data travels through, then the
binding's packet handling over it, then the context lifecycle and thread safety, then
the pipe backend and the harnesses.

1. `MmbiRingBuffer` (operators) and `MmbiRing`. One ring, refining the abstract
   `ByteFifo`. **Done.**
2. `MmbiDriverLink`. Both endpoints' `mctp_mmbi_tx` and `mctp_mmbi_poll` over the
   driver's two rings: byte-stream integrity, draining, and frame atomicity in both
   directions. **Done.**
3. `MmbiContext`. One endpoint's context: `mctp_mmbi_context_init` and
   `mctp_transport_init` with each allocation and open failing, the 5-attempt retry, the
   device appearing late, and destroy. Then a send thread and a poll thread sharing
   `mmbi->lock`, under both APIs. Properties: no half-initialised context, handle
   released on destroy, open attempts, core exclusion, the poll thread always giving `mmbi->lock` back.
   **Done.**
4. `MmbiPipeLink`. The named-pipe backend in message mode with the tests' relay
   threads: bounded pipes, a blocking `WriteFile`, `PeekNamedPipe`, `ERROR_MORE_DATA`
   when the two ends' `pkt_size` differ, and `-EPIPE`. Properties: frame atomicity
   (expected to hold here), and freedom from deadlock when both sides send while each
   holds its lock across `WriteFile` (test_mmbi_full_duplex). **Done**, except the
   broken-pipe (`-EPIPE`) teardown path.
5. `MmbiMemPath`. The memory path (`init_mem`, memcpy tx, `mctp_mmbi_rx`): the single
   tx slot overwritten by consecutive packets, checked against `FrameChannel`.
   **Done.**
6. The callback registration race (`set_rx_callback` against the trampoline) and the
   shared static `rx_buf` when two bindings poll in one process. **Done** for the
   callback, in `MmbiContext`. The static `rx_buf` is not modelled: no process in the
   repository has two bindings.

An abstract specification worth stating is `ByteFifo`, the channel's promise. It is
used for each ring now, and later for each direction of the pipe link. A second one,
"a packet channel that delivers whole packets in order", is the promise the binding is
meant to make. The driver link is shown *not* to refine it (the violation runs below).
The pipe link is checked against it and refines it (`PipeImplementsFrameChannel`, one `FrameChannel` instance per direction); the memory path is shown not to (`ImplementsFrameChannel`).

## 3. Modules

| Module | Models | Notes |
|---|---|---|
| `MmbiRingBuffer` | `MMBI_RING_BUFFER`, `RingBufferWrite`, `RingBufferRead` | pure operators over a ring record. The two-chunk copies and the cursor updates are written as in the C code |
| `ByteFifo` | spec.md 4.1 | the abstract bounded byte FIFO. `reply` holds the request and the result of the last call |
| `MmbiRing` | one ring as used by `MmbiEvtIoWrite` / `MmbiEvtIoRead` under the spinlock | refines `ByteFifo` under the mapping `queue <- RingContents(ring)` |
| `MmbiDriverLink` | the driver (two rings, DeviceID dispatch, busy completion) plus both endpoints' `mctp_mmbi_tx` and `mctp_mmbi_poll` | the core is a producer of a fixed packet list per endpoint. A byte is `<<endpoint, packet, position>>` |
| `MmbiPipeLink` | the named-pipe backend: both endpoints' sending thread (`mctp_message_tx` under a lock, one `mctp_mmbi_tx` per packet) and poll thread, the four pipe directions, and the mock driver's two relay threads | `harness` picks the locking of `test_mmbi_full_duplex.c` (its `mctp_lock` around send and around the whole poll) or of `mctp_mmbi_send` / `mctp_mmbi_poll` (`mmbi->lock` around send, and in poll only around `mctp_bus_rx`). The relays are `relay_worker` |
| `FrameChannel` | spec.md 3 "Frame", 4.3, 5 | the abstract packet channel: `sent` (frames whose transmit succeeded) and `got` (units the far end's stack received); `Deliver` appends the next sent frame |
| `MmbiMemPath` | the memory path: a sender binding's `mctp_mmbi_init_mem` and `mctp_mmbi_tx` copying into its TX region, and the peer binding's `mctp_mmbi_rx` reading the same memory as its RX region | the core hands one message's packets down in order. The peer is told the length of each accepted packet, in order, which is more than the binding offers. Checked to refine `FrameChannel` with `sent <- sentLog`, `got <- rxLog` |
| `MmbiContext` | one endpoint's context under either API (`api`, picked in Init from `APIs`): init with its allocations and open loop, send, `set_rx_callback`, poll on a second thread with the trampoline, destroy, repeated `MaxInits` times | data is abstracted away; what is kept is which resources exist, the device handle count, `mmbi->lock` and who is inside the core |

How the state maps to the code in `MmbiDriverLink`:
- `rings[d]` is `GlobalContext.HostToBmc` / `.BmcToHost`.
- `txPc`, `txFrame` and `retries` are the locals of `mctp_mmbi_tx`. One
  `MmbiTxAttempt` step is one pass of `while (retries--)`: the `WriteFile` (a complete
  `MmbiEvtIoWrite` under the spinlock) and the test that ends the loop. Other threads
  run during the `Sleep(1)` between passes.
- `MmbiPoll` is one call of `mctp_mmbi_poll` on the driver handle. `PeekNamedPipe`
  fails on a non-pipe and `bytesAvail` is forced to 1, so the `ReadFile` of `MaxToRead`
  bytes is always issued. A failing `mctp_pktbuf_alloc` drops what was read.
- `stream` and `rxLog` are history variables: what the driver accepted per ring, and
  what each `ReadFile` returned to poll.

How the state maps to the code in `MmbiContext`:
- `devUp` is whether the mock driver or pipe server exists yet (it is started
  concurrently, `test_mmbi_log.c:43-45`). `handlesOpen` counts device handles open in
  the process; `CreateFileA` uses share mode 0, so an open succeeds only when it is 0.
- `live`, `handle`, `txStorage`, `registered` are the context, core and binding
  allocations, `mmbi->device_handle`, `binding.tx_storage` and `mctp_register_bus`.
- `retries`, `attempts`, `openRc` are the open loop's counter, the passes made and the
  last return code of `mctp_mmbi_init_device`. `OpenTries` is 5 (mmbi) or 1 (transport).
  `InitFinish` is the check after the loop under the MMBI API (`device_handle != NULL`),
  and `TransportInitFinish` is the one under mctp_transport (`rc == 0`). Both end in
  `InitSucceeds` or `InitFails`.
- `lockOwner` is the owner of `mmbi->lock` (a recursive CRITICAL_SECTION, `CanEnter`);
  `SendEnter`/`SendExit` bracket `mctp_message_tx` in `mctp_mmbi_send` under the lock.
  `TransportSendEnter`/`TransportSendExit` do the same in `mctp_transport_send` with
  no lock. `PollRead`, `PollLock`, `PollDeliver` are the
  `ReadFile`, the lock plus `mctp_pktbuf_alloc` (`-ENOMEM` path), and `mctp_bus_rx`
  plus the unlock. `inCore` is the set of threads inside the MCTP core.
- `rxCb`, `userCtx` are `ctx->rx_cb` and `ctx->user_ctx`, 0 for NULL and k for the k-th
  registration. `SetRxCb` and `SetUserCtx` are the two plain stores of
  `set_rx_callback`. `Trampoline` is `mmbi_internal_rx` (and `transport_rx_handler`),
  run inside `PollDeliver`. The history `lastCall` is the pair it last called.
- `StopPoller`/`PollExit` are the harness's `thread_exit` flag and the poll loop
  seeing it; `Destroy` runs after the join.

How the state maps to the code in `MmbiPipeLink`:
- `up[e]` / `down[e]` are the two directions of endpoint e's pipe (client to server,
  server to client), as sequences of messages. A direction holds `PIPE_CAP` bytes;
  `WriteFile` blocks until the message fits (`PIPE_WAIT`, lines 183-190 of
  `test_mmbi_full_duplex.c`). `ReadMsg` is a message-mode `ReadFile`: a whole message,
  or the buffer's worth with `ERROR_MORE_DATA` and the rest left at the head.
- `txPc`/`txNext` are the sending thread: the lock, then one `WriteFile` per packet
  (`TxWriteEnter` enters the call, `TxWriteDone` returns from it), then the unlock.
  On a blocking pipe `WriteFile` returns only when it has written everything, so
  `mctp_mmbi_tx`'s retry loop ends after its first pass.
- `pollPc`/`pollUnit` are the poll thread. `PeekNamedPipe` works on a pipe, so an
  empty pipe means `return 0` without a `ReadFile`.
- `relayPc`/`relayMsg` are the relay threads. On `ERROR_MORE_DATA`, `relay_worker`
  loses what it read and loops again.
- `harness` is which code holds the lock. It is chosen in Init from `Harnesses` and
  never changes.
- `hBusy` records a blocking call in progress on a handle. With `SerialHandleIo` a
  second blocking call on the same handle waits for it. This is what Windows does for
  handles opened without `FILE_FLAG_OVERLAPPED`, which is how every handle here is
  opened. With it `FALSE`, the handles behave as if they were overlapped.
- `delivered[e]` is a history: every unit poll handed to `mctp_bus_rx`.

How the state maps to the code in `MmbiMemPath`:
- `ready[b]`, `memorySize[b]` are `mctp_mmbi_init_mem` having run on binding b and
  its `memory_size`. `binding.tx` is NULL until then (`mmbi.c:32`), so the core cannot
  call `mctp_mmbi_tx` before it.
- `region` is the shared memory, the sender's `tx_storage` and the peer's `rx_storage`,
  as many bytes as the longest packet. A byte is `<<packet, position>>`.
- `MmbiTx` is the size check of `mctp_mmbi_tx` (`-EMSGSIZE`, after which the core
  drops the packet). `MemCopy` is its `memcpy`, one byte per step, because the peer
  runs independently. `TxReturn` is its `return 0`, after which the core hands down
  the next packet.
- `doorbell` is not code. It stands for whatever tells the peer a packet is there,
  and it carries each accepted packet's length, in order. The binding has no such
  signal; the model gives the peer the best one it could have.
- `MmbiRx` is `mctp_mmbi_rx(len)` for the oldest doorbell: `-EMSGSIZE`, `-ENOMEM`,
  or the first `len` bytes of `region` to `mctp_bus_rx`.
- `sentLog`, `rxLog` are histories: packets `mctp_mmbi_tx` returned 0 for, and units
  given to `mctp_bus_rx`.

## 4. Runs

| Run | Config | Expect | What it shows |
|---|---|---|---|
| `ring_fifo` | `MC_MmbiRing.cfg` | pass | A ring of 3 slots, requests of 0..4 bytes over 2 byte values. Every write/read sequence, including ones that wrap and ones larger than the ring, behaves as the bounded FIFO, and the count agrees with the cursors |
| `driver_link` | `MC_MmbiDriverLink.cfg` | pass | Host and BMC each send packets of lengths 2, 2, 1 through rings of 3 bytes (so short writes, busy completions and `-EIO` all occur), with allocation failures allowed. Each side reads exactly the peer's accepted byte stream, and with both poll loops running the rings always drain |
| `driver_rx_merge` | `MC_MmbiDriverLink_FrameAtomicity.cfg` | violation | `mctp_mmbi_poll` hands `mctp_bus_rx` a unit made of two packets (or a part of one) when the peer wrote two packets before the poll |
| `driver_tx_partial` | `MC_MmbiDriverLink_TxAtomicity.cfg` | violation | A short write leaves part of a packet in the ring; `mctp_mmbi_tx` retries the whole packet, so the prefix is duplicated, or it gives up with `-EIO` leaving the fragment |
| `pipe_link` | `MC_MmbiPipeLink.cfg` | pass | Both lock placements (`harness` is picked in Init), 3 packets per side, pipes of one packet (so writes block), handles synchronous as the harnesses open them (`SerialHandleIo = TRUE`). Each direction refines `FrameChannel` (`ToHost`, `ToBmc`, with `sent` the peer's packets whose `WriteFile` returned and `got` what poll gave `mctp_bus_rx`): packets arrive whole, in order, once and never ahead of their write. No eventual delivery is claimed: with synchronous handles the relays can block each other (see below), so this run checks safety only |
| `pipe_lock_deadlock` | `MC_MmbiPipeLink_lock_deadlock.cfg` | violation | With 5 packets per side, both senders, both relays and both poll threads wait on each other for ever |
| `mem_overwrite` | `MC_MmbiMemPath.cfg` | violation | A message of two packets (2 and 1 bytes) over a 2-byte memory region. The second packet's `memcpy` overwrites the first while the peer, told of the first, reads it: `mctp_bus_rx` gets a unit mixing both packets |
| `context_api` | `MC_MmbiContext.cfg` | pass | Either API (picked in Init), 3 contexts in sequence, 2 sends and 2 callback registrations each, every allocation may fail, device may come up late. Under the MMBI API, send and poll delivery are never in the core together; under mctp_transport, no context is returned after a failed open or transmit-buffer allocation; a failed open loop makes exactly 5 (or 1) attempts; each time the poll thread takes `mmbi->lock` it gives it back, on the `-ENOMEM` return too |
| `context_callback_race` | `MC_MmbiContext_callback.cfg` | violation | The trampoline calls the callback being registered with the previous user pointer (NULL the first time) |
| `context_core_race` | `MC_MmbiContext_transport_core.cfg` | violation | `mctp_transport_send` enters the core without the lock while the poll thread is in `mctp_bus_rx` |
| `context_half_init` | `MC_MmbiContext_mmbi_halfinit.cfg` | violation | `mctp_mmbi_context_init` returns a context with `device_handle` set but no `tx_storage` |
| `context_handle_leak` | `MC_MmbiContext_handle_leak.cfg` | violation | After destroy (or a failed transport init) the device handle is still open |

Bounds. The ring holds 3 bytes and packets are 1-2 bytes, so a second packet does not
always fit: the short-write, busy and retry-exhaustion branches are all reached. Three
packets per side give every ordering of a full ring against a reader. `MaxToRead`
(`pkt_size + 4`) exceeds the ring, which is the case in the driver (1 MiB ring, 64 KiB
packets) whenever more than one packet is queued.

Fairness. `WF` on `MmbiPoll` of each endpoint: every harness and app runs poll in an
endless loop (`bmc_transport.c`, `poll_thread` in `test_mmbi_full_duplex.c`). `WF` on
`MmbiTxAttempt`: once inside `mctp_mmbi_tx`, the loop continues after `Sleep(1)`. The
core handing packets down (`BusTx`) is not fair: applications need not send.

Bounds of `MmbiContext`. Three contexts one after another are enough for a leaked
handle from the first to make the second's opens fail and the third to observe it; two
sends per context let a send meet a poll delivery both before and after the other
thread's lock use. Two registrations per context give both a first registration
(previous user pointer NULL) and a replacement. Every allocation is allowed to fail.

Fairness of `MmbiContext`. The init, `set_rx_callback` and destroy steps are weakly
fair (a call that has started runs to its end); the poll thread's lock, deliver and
exit steps are weakly fair (it runs a loop). A send is not fair, not even once
started: `mctp_message_tx` ends in `mctp_mmbi_tx`'s `WriteFile`, which on a pipe
blocks for as long as the pipe stays full, possibly for ever (`pipe_lock_deadlock`).
So the liveness property is stated only for the poll thread's use of the lock.
Starting a new send or registration, stopping the poller and the device coming up
are not fair either: an application need not do them.

Bounds of `MmbiPipeLink`. A 2-byte packet stands for a 1024-byte `TEST_MTU` packet,
and a pipe of 2 bytes holds one packet. The pipes in the tests hold 128 KiB or 1 MiB,
but what decides the behaviour is how many packets the path holds against how many
are sent. With one-packet pipes the path holds 3 packets under the full-duplex
locking (pipe, relay, pipe) and 4 under `mctp_mmbi_send`'s (plus the one a poll
thread has read). `pipe_link` fills the full-duplex path exactly. With 4 packets the
full-duplex placement already stops, and `pipe_lock_deadlock` sends 5 under
`mctp_mmbi_send`'s. The real test sends a 4096-byte message in 1024-byte packets
through 128 KiB pipes, far below its path's capacity, so it does not hang this way.

Fairness of `MmbiPipeLink`. Each thread (sender, poller, relay, per endpoint) is
strongly fair as a whole. Each one runs a loop that waits for a lock or a handle
that other threads take and give back, and each sleeps between iterations, so a
thread that can go on infinitely often does go on. A thread blocked on a full pipe
or on a held handle is not helped by this. That is how the deadlock runs end.
`pipe_link` checks no liveness property: `EveryPacketDelivered` holds there only if
the handles are treated as overlapped (`SerialHandleIo = FALSE`), which they are not.

Bounds of `MmbiMemPath`. Two packets are the fewest where one can overwrite another,
and a shorter last packet (as libmctp makes the last fragment of a message) leaves a
stale tail of the longer one in the region. The region (`MMBI_MEM_SIZE` in
`test_mmbi.c`) holds either packet, so nothing is refused for size.

The deadlock of the relays on their shared synchronous handles (`SerialHandleIo`) is
reproduced by `tlc -config MC_MmbiPipeLink_handle_deadlock.cfg MC_MmbiPipeLink`. It is
a deadlock of the test harness, not of the library, and is not among the runs above.

## 5. Findings

- **Packets merge on the driver.** `mctp_mmbi_poll` (`mmbi.c:196-200`) reads up to
  `pkt_size + 4` bytes, on the stated assumption that one read returns one packet. On
  the simulated driver, `MmbiEvtIoRead` returns whatever the ring holds, up to that
  size (`MmbiDriver.c:102-105`). Two queued packets reach `mctp_bus_rx` as one buffer.
  This breaks spec 4.3 ("reads exactly one frame's worth").
- **Short writes duplicate packet prefixes.** `MmbiEvtIoWrite` completes a partial write
  as a success with a short count (`MmbiDriver.c:65-71`, `161`). `mctp_mmbi_tx`
  (`mmbi.c:83-84`) then rewrites the whole packet from its first byte, so the prefix
  enters the stream twice. If the retries run out, the prefix stays there. This breaks
  spec 4.3 ("there is no partial-frame-accepted success state").

- **Half-initialised MMBI context.** `mctp_mmbi_init_device` sets `device_handle`
  (`mmbi.c:155`) before allocating `tx_storage` (`mmbi.c:167`). If that allocation
  fails, the loop retries, and `CreateFileA` now fails because the first handle is still
  open with share mode 0. The check at `mmbi.c:319` looks only at `device_handle`, so
  the context is registered and returned without a transmit buffer. This breaks spec
  4.4. `mctp_transport_init` tests the return code instead and is safe
  (`TransportNoHalfInit` in the `context_api` run).
- **The callback can be called with another registration's user pointer.**
  `mctp_mmbi_set_rx_callback` (`mmbi.c:366-367`) and `mctp_transport_set_rx_callback`
  (`transport.c:83-84`) store `rx_cb` and then `user_ctx` without a lock. The trampoline
  reads both on the poll thread inside `mctp_bus_rx`. A delivery between the two stores
  calls the new callback with the old user pointer, NULL the first time
  (`context_callback_race`). spec.md 4.4 says the registered `user_data` goes to `cb`,
  and spec.md 5 has the poll loop on its own thread. `host_transport.c` and
  `bmc_transport.c` register before their single-threaded poll loop, so they are not
  affected.
- **The device handle is never closed.** `mctp_mmbi_destroy` (`mmbi.c:46-53`) frees
  the binding without `CloseHandle`. Both context destroys and the failure path of
  `mctp_transport_init` (`transport.c:48-53`) leak the handle, and with share mode 0
  every later init on the same device fails.
- **`mctp_transport_send` takes no lock** (`transport.c:99`), while the poll thread
  runs `mctp_bus_rx` under `mmbi->lock`: two threads in the core at once.
  `mctp_mmbi_send` (`mmbi.c:354`) takes the lock and passes the same check.

- **`mctp_mmbi_send` blocks its own poll thread, and two endpoints can deadlock.**
  `mctp_mmbi_send` (`mmbi.c:354`) holds `mmbi->lock` across `mctp_message_tx`, and so
  across a `WriteFile` that blocks on a full pipe. `mctp_mmbi_tx`'s own comment
  (`mmbi.c:80`) says not to do that. The poll thread then cannot deliver
  (against spec.md 5). When both sides send more than the path
  holds, nobody moves again (`pipe_lock_deadlock`). `test_mmbi_full_duplex.c` has the
  same shape with its `mctp_lock`.
- **The relays deadlock on their shared synchronous handles.** Both relay threads of
  `test_mmbi_full_duplex.c` (and of `test_stress_mmbi.c`) use the same two server
  handles, one reading and one writing each. Those handles are not overlapped, so
  Windows runs one blocking call per handle at a time. When one endpoint has sent
  everything, its relay waits in `ReadFile` for ever, and the other relay can never
  write to that endpoint (`MC_MmbiPipeLink_handle_deadlock.cfg`, see section 4).
- **The memory path loses and tears packets.** `mctp_mmbi_tx` with no device handle
  copies each packet to offset 0 of `tx_storage` (`mmbi.c:107`) and returns 0 at once,
  with no ring and no handshake. `mctp_mmbi_rx` reads the first `len` bytes of
  `rx_storage` (`mmbi.c:250`). The core hands a message's packets down back to back,
  so the second packet's copy overwrites the first while the peer may still be reading
  it. This holds even if the peer is told of every accepted packet and its length, in
  order (`mem_overwrite`). spec.md 3 says frames are exchanged atomically, and spec.md 5
  says one direction delivers in write order. `test_mmbi.c` sends one single-packet
  message and so never meets this.

## 6. Not modelled (yet), and why

- The MCTP core is not in the repository. Only its interface to the binding is modelled:
  it hands down packets and receives units.
- Logging, `mctp_mmbi_set_debug`, and the `MMBI_DBG` traces are purely observational.
- `MmbiEvtDriverContextCleanup` is empty. Driver entry and device creation are not in
  the source.
- `WdfRequestRetrieveInputBuffer` failures: transmitted packets are never empty, so the
  buffer is always retrievable.
- The `(ULONG)Length` casts in the driver: `WriteFile` lengths are 32-bit already.
- `MmbiContext` does not model the core's work inside `mctp_message_tx` (it calls
  `mctp_mmbi_tx`, modelled in `MmbiDriverLink`), nor `set_debug`, which only switches
  tracing on (spec.md 4.4: purely observational).
- The function-static `rx_buf` of `mctp_mmbi_poll` (`mmbi.c:183`) is shared by every
  binding in a process, and `ReadFile` fills it outside any lock. Every program in the
  repository has one binding per process (the full-duplex and stress tests run each
  endpoint as a child process), so no harness can reach the race. It is listed as a
  hazard.
- In `MmbiPipeLink`: the broken-pipe path (`-EPIPE` in poll, the relays' exit, and
  `poll_thread` leaving its loop) happens only at teardown, when a child process
  exits. A failing `WriteFile` on a pipe, which would exercise `mctp_mmbi_tx`'s
  retries, happens only on a broken pipe too. `test_stress_mmbi.c`'s `relay_thread`
  leaves its loop on `ERROR_MORE_DATA`. That test keeps the default `pkt_size`,
  `MCTP_PACKET_SIZE(65536)`, and whether its packets outgrow the relay's 65536-byte
  buffer depends on that libmctp macro, which is outside this repository. It is listed
  as a hazard and is not modelled. The two ends' `pkt_size` differing
  (`ERROR_MORE_DATA` in poll) is modelled, but no harness sets it up, so no run uses it.
- In `MmbiMemPath`: `mctp_mmbi_init_mem`'s `-EINVAL` for a NULL binding and its
  `-ENOMEM` for `binding.tx_storage` are left out. No caller passes NULL, and
  `test_mmbi.c` asserts `rc == 0`. `mctp_mmbi_start` only enables transmission when the
  core registers the binding. The core's own transmit queue is outside the repository.
