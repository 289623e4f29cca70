# Verification of the W600 SDK platform core

TLA+ models of the stateful core of the W600 Wi-Fi SoC SDK, model-checked with
TLC on small instances; the safety of each modelled component is proved with TLAPS
for every instance (section 6). Paths below are relative to `src/`.

## 1. The system and its parts

The SDK is firmware for a Cortex-M3 Wi-Fi chip: FreeRTOS behind a thin OS layer,
drivers, a platform layer (parameters, firmware update, worker tasks) and
applications (AT command interface, web server, OTA clients, small network
servers). lwIP, FreeRTOS, the TLS libraries, libupnp, libcoap, libwebsockets,
cJSON and AllJoyn under `Src/App`, `Src/Network` and `Src/OS` are third-party
code, and the Wi-Fi stack is a binary library; none of these is a subject here.

| part | source | state | operations | interacts with | modelled |
|---|---|---|---|---|---|
| parameter manager | `Platform/Common/Params/wm_param.c` | `sram_param`, `flash_param`, `user_default_param`, `updp_mode`, `sys_param_lock`; two flash partitions and the user default sector | init, set, get, to_flash, to_default, load/save user default | every task; flash driver; host command UPDP | `ParamStore` |
| firmware update | `Platform/Common/fwup/wm_fwup.c` | the session (`struct tls_fwup`), its request list and message queue, the header in flash | enter, request_sync, exit, the fwup task | OTA clients, web server, host interface; flash writer; boot loader | `FwUp` |
| flash streaming writer | `Platform/Drivers/internalflash/wm_internal_fls.c` | `gsflscache`, `gsSector`, the flash array | fast_write_init, fast_write, fast_write_destroy | fwup task | `FastWrite` |
| flash driver, block access | same file | sector cache of one call | read, write, erase | parameter manager, fwup header | steps of `ParamStore` and `FwUp` |
| worker task, mailbox, timers | `Platform/Common/task/wm_wl_*.c` | mailbox, delta list of timers, static messages | callback, callback_static, add_timeout, untimeout, the loop | interrupts, hostif and UPnP tasks | `WlTask` |
| UART and its task | `Platform/Drivers/uart/wm_uart.c`, `Src/App/wm_atcmd/wm_uart_task.c` | receive ring buffer and list of sent buffers shared with interrupts, receiver on or off | receive and transmit interrupt, uart_rx, uart_net_send, uart_tx | worker task, sockets | `HostUart` (transparent mode) |
| HSPI and its task | `Platform/Drivers/hspi`, `Src/App/wm_atcmd/wm_hspi_task.c` | descriptors shared with the hardware | receive, transmit | worker task, command interface | planned |
| hardware timers, DMA channels | `Platform/Drivers/timer`, `dma` | allocation bitmaps, callbacks | create, start, stop, destroy, interrupt | drivers | planned |
| DHCP server | `Src/App/dhcpserver/dhcp_server.c` | client table, timer | start, stop, discover, request, release, decline, the tick, client delete | lwIP; network events | `DhcpServer` |
| command interface, web server, OTA clients, oneshot, start-up, other drivers, memory and OS wrappers | see `PROJECT.json` | | | | only as callers of the modelled parts |

What is hard in this code:

* **Power loss.** Parameters, user defaults, firmware image and update header are
  written by erase-then-program; the power may go between any two steps, and during
  the repair a boot makes.
* **Missing or partial locking.** `tls_param_to_default` takes no lock;
  `tls_fwup_enter` and `tls_fwup_exit` test outside the critical section they act
  in; the fwup task walks a list others append to and works on the fields of the
  session, one load or store at a time, while others clear them.
* **State advanced before the step that may fail.** `flash_param` is updated before
  the flash is written; `gsSector` is advanced past a full sector.
* **Wake-ups.** A static message is posted only if `cnt` says it is not queued;
  interrupts, tasks and the worker change `cnt`, each by a load and a store, without
  a lock, and two ports with different buffers share one message. The worker posts
  to its own mailbox, where it cannot wait for room, and a lost timeout leaves
  bytes, or a stopped receiver, with nobody to look after them.
* **Bytes under way.** `uart_net_send` copies from the ring buffer, sends, and then
  advances `tail`, while the interrupt appends and, on overrun, moves `tail` itself.
* **Allocation failure** in the middle of a flash write, a verification or a boot,
  and where nobody looks at the result: the update header.
* **Boundaries.** The 16 bit `modify_count`, images ending on a sector boundary,
  a header split over two requests, lengths that are both zero; ticks against
  milliseconds in a list of differences, and the tick counter's wrap.
* **Addresses and time.** Offers and leases expire while stations act on them,
  entries keep the MAC address of their last station, answers get lost.

## 2. Plan

1. Parameter manager with its abstract specification, refinement and proofs: done.
2. Flash streaming writer and firmware update: modelled, checked, proved.
3. Worker task with mailbox, static messages and timeout list (`WlTask`) composed
   with the host UART in transparent mode (`HostUart`): modelled, checked, proved.
4. DHCP server (`DhcpServer`): modelled, checked, proved.
5. Every safety property the passing runs check is a theorem; where it needs a hypothesis
   on the environment, section 6 says which and what happens without it.
6. The command modes of the UART and the `+++` escape; the high speed SPI slave,
   which wakes the same worker; allocation of hardware timers and DMA channels.

## 3. Modules

* `ParamStore` - the parameter manager. One process per task and one, `Boot`, for
  `tls_param_init`. A call of `param_to_flash` is five steps (`CopyFields`,
  `SealHeader`, `ErasePartition`, `ProgramPartition`, `VerifyPartition`): between
  them other tasks run and the power may go. `flash` holds the two partitions, each
  `Damaged` or a record with the CRC; a CRC is taken to be collision free and is
  the contents it was computed from. `fp` is `flash_param`, `sram` is
  `sram_param`. `SetTask` tasks call set and to_flash, `ResetTask` tasks
  to_default, `UpdpTask` tasks execute UPDP; the sets may overlap, then one task
  does all of it in turn. `acked` and `prev` are history: what callers were told
  is saved. The callees in the flash driver are part of the steps. The 207 lines of
  the switch on the parameter id are `CopiedFields`, with the missing `break` at
  line 151: the case for the trigger period also copies the debug mode.
* `DurableParams` - what the manager promises: one stored set, each update applied
  as a whole or not at all. `ParamStoreRefines` gives the mapping: `stored` is what
  a boot would load, `pending` the update of the lock holder.
  An allocation may fail in each flash call: the actions ending in `NoMem`, with the
  sectors written before the failing one (`SectorsWith`).
* `ParamStoreProofs` - the theorems of section 6, `ParamStoreRefinesProofs` - the
  refinement and what OK means, `ParamStoreDisturbedProofs` - what survives resets
  and failing allocations. `MCParamStore` - instances.
* `FastWrite` - the streaming writer as actions over `nor` (the flash array),
  `cache` (`gsflscache`), `gsSector` and `todo` (the rest of a call). A fresh cache
  and what a read through a null cache gives are `Junk`. It has no specification
  of its own; `FwUp` composes its actions.
* `FwUp` - the session (`fw`), the request list, the fwup task step by step (`spc`
  names the place in `fwup_scheduler`), and three kinds of sources: `Socket` (OTA over
  TCP and HTTP: stops at the first error, then calls exit), `Web` (goes on after a
  refused enter and after errors, never calls exit) and `Host` (UPDM: uses the session
  id current at every request, may exit at any time). The task holds no lock, so that
  each of its loads and stores of the session is a step, between which a source may
  open or close a session: `reg` is a length or address that was loaded, `flags` is
  `current_state` loaded and changed, and `crc` what the verification has read, block
  by block. `stray` and `silent` are history: that a session was opened or closed
  between the stores of `program_base` and `total_len` or within a verification, and
  that the header was numbered or written without memory, of which the code tells
  nobody. A cell stands for a run of bytes; cell `k` of file `i` is `<<i, k>>`, so
  that misplaced and stale data are told apart. The header is read whole or not at all
  (`HeaderSeen`), because the code copies `booter` from the start of each buffer. The
  boot loader is external: after a reset it installs the announced image when its
  number is larger. `request.status` is an arbitrary answer where the code reads it
  uninitialised. `FwUpProofs` - theorems about `FwUp` and the writer. `MCFwUp` -
  instances: images `imgA` and `imgC` end inside a sector, `imgB` on a sector
  boundary; `Files` says which source sends which.
* `WlTask` - a worker task: `mbox` is the queue, `cnt` and `ctx` the count and the
  context of each static message, `timers` the delta list, `pc` the place in
  `task_thread` or the function that is running, `todo` what that function still has
  to post. `TimeoutP` and `UntimeoutP` are the list operations, `Fetch`, `Expire` and
  the four `Receive` actions the loop. A static message belongs to its senders too:
  `taken` is the one the worker has taken, and `ReadCtx`, `LoadCnt` and `StoreCnt` are
  the read of its context and `cnt--`, before its function runs. `wait` has the ticks
  around a wait; between waits the counter is arbitrary, so every wait may be the one
  in which it wraps. `due` (per entry) and `missed` (whose wake-up could not be
  posted) are history. It has no `Next` of its own: the functions it calls are a
  client's. `TimeTo` sums the delta list, as a recursive function; `TimeoutListProofs`
  has the lemmas about it and the list operations.
* `HostUart` - the client: `wl_task_param_hostif` with UART1 in transparent mode. An
  interrupt is one step; a function the worker runs is cut where it reads or writes
  what interrupts share: `UartRx`, `ReadTail`, `Copy`, `Send` or `SendRefused`,
  `Sent`, `FlowOn`. The ring buffer is its number of bytes; `ns.from` is where the
  local `tail` of `uart_net_send` points, relative to the buffer's, and `owed`
  (history) counts the bytes received and not passed on. Both ports transmit, and wake
  the worker with the same static message. A writer (a task in `tls_uart_tx`, or the
  worker in `uart_tx`) goes through `tls_wl_task_callback_static` in five steps: the
  test of `cnt`, the store of `ctx`, the post, and `cnt++` as a load and a store.
  `toFree` has the ports with sent buffers. `raced` and `astray` are history: the
  messages whose `cnt` changed between a load and a store, and the ports whose wake-up
  was refused or carries the other port's context. `setup.raw` chooses the build: with
  raw sockets (as configured) a send may be refused, without them sockets are polled
  on a timeout. `HostUartProofs` - theorems. `MCHostUart` - instances. The host
  interface is compiled in with `TLS_CONFIG_HOSTIF`.
* `DhcpServer` - the client table, with one action per message kind, the tick,
  start, stop and `DHCPS_ClientDelete`, and the stations as the environment: they
  choose among offers, renew, reboot, come and go, and believe (`held`) what the last
  answer that reached them said. The lookup is a set for each of the pointers
  `_ClientTableLookup` finds (`MyHistory`, `Requested`, `Free`, `History`, `Mine`), and
  one operator for the entry it returns and one for what it does to the own entry,
  per kind. Messages are reduced to type, requested address and server.
  `DhcpServerProofs` - theorems. `MCDhcpServer` - instances.
* `LeastNumber` - least and greatest elements of sets of numbers, for the proofs.

`PROJECT.json` maps every definition to its lines.

## 4. Runs

| run | question | result |
|---|---|---|
| `param_updates` | two tasks set and sync two parameters, a power loss at any step | updates are durable and all-or-nothing (`Durable`, `ImplementsDurableParams`), an intact partition is only erased while the other has the saved parameters (`EraseKeepsAcked`), two copies are kept (`TwoCopies`), reading "from flash" agrees with the flash (`ReadFromFlash`), every boot ends (`BootCompletes`), the lock comes back (`LockReleased`) |
| `param_reset` | a task that sets, saves and resets to factory defaults, a second one that executes UPDP meanwhile, two power losses | a boot goes back by at most one reported update, loads the factory table only out of a reset, and always has a copy to load (`LosesAtMostOne`); a set that says OK is saved unless the second task switched `updp_mode` between its call and the lock (`SetOkMeansSaved`). `Durable` itself does not hold there: the reset restarts the counters at 1 |
| `param_faults` | one failing allocation anywhere, a power loss, UPDP | partitions are never torn (`NeverTorn`), OK means saved (`SetOkMeansSaved`), an error of a set or a sync loses nothing (`FailedSaveHarmless`), saved user defaults are the ones that were asked for and, unless an allocation failed, under a matching CRC (`UserSaved`) |
| `param_wrap` | `modify_count` wraps | **violated**: `LatestLoaded` |
| `param_race` | set against to_default | **violated**: `SetOrResetWins` |
| `param_retry` | sync again after a failed save | **violated**: `SyncOkMeansSaved` |
| `fwup_single` | one OTA source, every split into requests, two power losses, one failed allocation anywhere, the ignored header write included | the header announces only what is there (`HeaderMeansImage`), all OK means updated unless the header found no memory (`AllOkMeansUpdated`), acknowledged cells are held (`AckedIsHeld`), nothing outside the update area changes (`UpdateAreaOnly`), requests return (`RequestReturns`) |
| `fwup_shared` | an OTA source, the host interface and a web upload with or without a session, two different files, in every interleaving with the single loads and stores of the task | no mixture is announced (`HeaderMeansImage`), unless a session is opened or closed in one of the two gaps of `stray`; BUSY is never left behind (`BusyMeansWork`) |
| `fwup_wakeup` | two sources, fair scheduling | **violated**: `RequestReturns`, a lost wake-up |
| `fwup_userarea` | an image ending on a sector boundary | **violated**: `UpdateAreaOnly` |
| `host_uart` | the worker serves the UART: bytes at full speed, receive errors, refused sends, a small mailbox, failing allocations, two transmitting ports, in both builds | bytes are passed on once and in order (`EachByteOnce`) and keep flowing (`BytesFlow`), bytes and a stopped receiver always have somebody to see to them (`NothingStranded`, `RxResumes`), `cnt` is exact until an update of it is lost, which never happens to the receiver's (`CountExact`), sent buffers are freed unless the port's wake-up went astray or `cnt` is wrong (`SentFreed`), a worker that serves the receiver alone has at most 18 messages to itself queued (`OwnRoom`), timeouts are not early (`NotEarly`) and do not starve one another (`SocketsPolled`, in the build that polls) |
| `dhcp_leases` | three stations, two addresses, lost answers, a restart, a failed allocation, a deleted client | one entry per station (`OneEntryPerStation`), no address twice (`NoDuplicateAddress`), a station that believes in its address is bound (`HolderIsBound`), an offer is nobody else's until it expires (`OfferReserved`), lookups by MAC are right (`GetIpExact`), renewing keeps the address (`AddressStable`), addresses come back (`AddressReturns`) |

The violated properties state what the quoted comments of the source say; the five
`findings` in `PROJECT.json` describe the behaviours. Every property of a passing
run has a mutant of the mapped code that breaks it.

**Bounds.** `CountModulus` is 8 for the 16 bit counter where wrapping is not the
question (`MaxCount` stops new updates before it) and 4 where it is; the proofs
cover 2^16. Two parameters and two values suffice to tell a whole update from a
half one; `param_race` needs three values to tell the set, the factory and the old
value apart. One power loss reaches every step once, two reach a loss during the
repair of the first. `SectorSize` 2 and images of 3 and 4 cells give a first, a
full and a partial sector; `HeaderLen` 2 and requests of 1 to 3 cells give a split
header, a header with payload behind it and a write over a sector boundary. In
`fwup_shared` the header is one cell and requests have two, since the sizes are not
the question; the host sends a file of its own. `MaxSession` is 3 in `fwup_single`, for
sessions after failures and power losses, and 1 in the other runs: a source passes the busy
test only while fewer sessions than that were opened, and as all may pass it before the
first one opens its session, three sources open up to three. `QueueSize` is the
code's 4 messages.

`host_uart` has six settings. Bytes as fast as they can come, with a mailbox that
holds all the worker posts: the most messages are queued here, and the buffer overruns
(the host stops after the first overrun, as nothing is claimed after it). The build
without raw sockets, with both timeouts, receive errors and a mailbox of three: posts
fail. One failing allocation anywhere. The socket timeout with little else. Two ports
transmitting, with a writing task. One port, to which a task and `uart_tx` both write.
A buffer of 8 and pieces of 2 bytes give whole, partial and repeated pieces; an
overrun throws away 1 byte (`CacheLimit`), and the host sends while fewer than
`window` bytes are in the buffer (7, a full one, in the first setting); delays of 3
and 5 ms at 2 ms per tick give rounding down, a rest below one tick and unequal list
entries; `TickMod` 3 lets the counter wrap within a wait; `CntMod` 4 lets `cnt` fall
below zero. `OwnMax` 18 is exact for a receiver alone (17 is violated in the first
setting): `uart_rx` leaves up to five messages and the timeout handler up to four, and
two rounds of both may be queued. The real mailbox has 32 entries; with other senders
nothing bounds the worker's own share of it (section 6).

`dhcp_leases` has fewer addresses than stations, so entries are taken over; an
offer of two ticks and a lease of three let both run out at different times. One
restart, and one binding ended behind a station's back, may come at any moment.
Deadlock checking is off wherever the bounds let the system stop.

**Fairness.** `ParamStore!FairSpec` and `FwUp!FairSpec` assume weak fairness of a
process that is inside a call and of the fwup task: FreeRTOS runs ready tasks, and a
semaphore that is released wakes its waiter. `HostUart!FairSpec` assumes weak fairness
of the worker, of the clock and of a task inside a write, and strong fairness of
`Send`: the network does not refuse a piece for ever. `DhcpServer` assumes that the
tick timer of lwIP fires. Nothing is assumed about callers starting calls, sources
sending the next piece, allocations or the power.

## 5. Observations without a run

* `tls_param_get` with `from_flash` is documented to read the flash but returns
  the RAM image (`wm_param.c:902`); the two agree where `ReadFromFlash` is checked.
* `tls_param_set` reads `updp_mode` before and again after waiting for the lock
  (659, 874): when UPDP starts or ends in between, a value goes to the wrong set, or is
  not saved though the answer is OK. `SetOkMeansSaved` excepts exactly this.
* `tls_param_to_default` always loads the factory table; the user defaults UPDP
  saves are never read by it, against the note at 1160.
* A reset that fails after its first partition leaves a counter of 1 behind.
* When `tls_fwup_enter` has succeeded and the first request brings only a part of
  the header, both lengths are 0 and the chip resets at once (`wm_fwup.c:314`).
* `tls_fwup_img_update_header` ignores the result of `tls_fls_write` (119), which writes
  nothing when it finds no memory (`wm_internal_fls.c:586`), and of the reads before it
  (a running image that could not be read counts as number 0): the source is told
  SUCCESS, and the chip restarts with the old image.
* A `tls_fwup_enter` or `tls_fwup_exit` between the stores of `program_base` and
  `total_len` (206, 207) leaves base 0 with the new length, and one within the
  verification (255) moves the rest of it to address 0. A source that goes on in the
  new session may then write to the start of the flash, have it verified there and
  announced.
* `cnt` of the message that frees sent buffers is counted up by its senders
  (`wm_wl_task.c:82`) and down by the worker (30), each a load and a store. When one falls
  into the other an update is lost (`raced`), and `cnt` may stay above zero: every
  later wake-up is refused and sent buffers are never freed. Without that, `cnt` is 255
  for as long as the worker has taken a message that is not counted yet, and an
  interrupt is refused though nothing is queued.
* UART0 and UART1 share this message (`wm_uart_task.c:213`), which carries one port: while
  that of one port is queued the other's is refused, and its sent buffers stay until it
  transmits again (`astray`). The message that `uart_rx` is woken by has one port only.
* `sock_recv_timeout_handler` exists in the build without raw sockets only, which
  `wm_config.h:38` does not choose. In that build every failure of `send` is -1, the
  value of `ERR_MEM`: with flow control the worker tries again for as long as it
  fails.
* `tls_mbox_post` that gives up after ten attempts neither reports it nor frees the
  message (`wm_wl_mbox.c:82`), and a timeout that finds no memory
  (`wm_wl_timers.c:93`) vanishes. With the receiver stopped by a refused send nothing
  starts it again.
* A timeout may come up to one tick early for itself and one for every timeout that
  expired before it while it was queued. Under steady load, in which no wait lasts a
  tick, no timeout comes at all. `timeout * HZ` overflows 32 bits for delays above
  2.3 hours; no caller has one.
* Every byte restarts the timeout that flushes a partial piece, and so does a frame
  with receive errors: line noise can hold a partial piece back for ever.
* After an overrun `uart_net_send` advances `tail` by what it had copied, on top of
  the interrupt's move (`tail` is read when the bytes have been counted, 1417): bytes
  are skipped, or the buffer's count wraps.
* The address pool of the DHCP server wraps within the subnet without looking:
  when the access point's host part is within eight of the end, entries share an
  address with each other or with the access point. `DhcpAssumption` excludes it.
* A failed allocation in `_CheckMacIsValid` makes the tick end the binding of a station
  that is still there (`dhcp_server.c:217`); its address may go to another one.
* A REQUEST meant for another server is answered with a NAK, and a REQUEST for an
  address outside the pool is acknowledged with the client's own entry. A DISCOVER of
  a bound station forgets its address (355).
* When the event that stops the server is lost, the next start runs a second tick
  timer, and leases last half their time.

## 6. Proofs

33 theorems, checked by TLAPS, for every value of the constants that the named
assumptions allow. Each invariant was first checked by TLC on small instances. A theorem of
the form `Spec /\ []H => ...` says what the specification does in the behaviours in which
the environment keeps to `H`; each such `H` was found by dropping it and letting TLC
show the behaviour that it excludes.

**Parameter manager** (`ParamStoreProofs`, `ParamStoreRefinesProofs`), for any sets of
tasks, parameters and values, any counter width above 3 and any number of power
losses:

* `TypeCorrect`: `[]TypeOK`, with resets, UPDP and failing allocations. `TypeInv`
  adds one fact, that a set has a parameter id.
* `FlashNeverTorn`: `[]NeverTorn` when nobody resets to factory defaults, with power
  losses, failing allocations, UPDP and counter wraps. `TornInv` says that the lock
  holder is the one writer and that what it erases and programs for is sealed. The
  hypothesis is needed: `tls_param_to_default` writes without the lock.
* `UpdatesAreDurable`: `[]Durable`; `CopiesAreKept`: `[]TwoCopies`; `EraseIsSafe`:
  `EraseKeepsAcked`; `ReadsAreOfFlash`: `[]ReadFromFlash`. These assume `Undisturbed`:
  no reset and no UPDP tasks, no failing allocation, and a parameter set without the
  fall-through case.
* `Refinement`: in every such behaviour in which the counter does not wrap,
  `ImplementsDurableParams`. The initial states map to initial states, and each step to
  the start of an update (the lock is taken), its commit (the partition is programmed), its
  end, or a stutter, which every repair of a boot is; a
  power loss before the commit drops the update, one after it keeps it.
* `SetIsSaved`, `SyncIsSaved`: OK means that the next boot loads what was set, or what is
  in RAM, under the same hypotheses. With a failing allocation `SyncOkMeansSaved` is
  false (`param_retry`).

The inductive invariant is `IInv == ControlInv /\ DataInv`. `ControlInv` says who is
where: the holder of `sys_param_lock` is the only process inside `param_to_flash`,
and nobody runs while the boot does. `DataInv` says what the two partitions may
look like at each place: every partition is erased or intact, two intact ones have
neighbouring counters (`PairInv`), the copy in use holds what was reported
(`Current`), and a writer replaces only the other one, with the successor count
(`Replacing`). None of the theorems is inductive alone: that a boot chooses the
right copy depends on the counters, these on `flash_param` agreeing with the copy in
use, and that on the lock. The proof has one lemma per step of `param_to_flash`,
for tasks and for the boot, one for the scan, one for the calls and one for the
power loss.

**Parameter manager, disturbed** (`ParamStoreDisturbedProofs`). With resets and failing
allocations `flash_param` and the partitions disagree in ways `DataInv` excludes, so these
have invariants of their own; all hold for any number of power losses.

* `AtMostOneIsLost`: `[]LosesAtMostOne` with resets: the next boot loads what was last
  reported, what was reported before that, or one of them with the update in progress;
  the factory table only while a reset is writing it; and there is a copy to load. It
  holds when a reset runs alone (`ResetsAlone`), the target of the set or sync that
  runs stays what it was (`SteadyTarget`; together `Disciplined`), no allocation fails
  and nobody is in the wrap window (`~Straddle`: in it two copies are intact whose
  counters do not tell the newer one). `StoreInv` follows which of the last two
  reported sets each partition holds while a reset restarts the counters; unlike
  `DataInv` it allows two copies with the same counter and a boot that goes back to
  the older one.
* `SetIsSavedDespiteFaults`: `[]SetOkMeansSaved` with resets and any number of failing
  allocations in set, sync and UPDP, under `Disciplined` and until the counter wraps
  (`BeforeWrap`); `FaultsElsewhere` excludes the failures inside `tls_param_init` and
  a reset, which can leave the partitions newer than the RAM image. `AheadInv` says
  that no copy in flash is newer than the RAM image: a failed save moves its count on
  without having written, so the next write always makes the newest copy. The same
  step ahead is what makes a retried sync lie (`param_retry`).
* `FailedSavesAreHarmless`: `[]FailedSaveHarmless` under the same hypotheses and at
  most one failing allocation. With a second one it is false: the RAM image keeps the
  parameters of the first failed call, and the second call writes them too.
  `HarmlessInv` is `AheadInv` together with `StoreInv` up to the failure.
* `UserDefaultsAreSaved`: `UserSaved` when, while one UPDP command writes the sector, nobody
  else saves, loads or sets user defaults (`UserAlone`), and at most one allocation
  fails; with two failures both the data and the CRC can be left out, and an
  old table is still accepted.

`AtMostOneIsLost` and `FailedSavesAreHarmless` assume `Period \notin Field`, a
parameter set without the fall-through case.

**Firmware update** (`FwUpProofs`), for any sets of sources and images, any sector,
header, request and queue sizes, any number of power losses and failing allocations;
`FwUpAssumption` says that an image has a payload and fits below the user area:

* `TypeCorrect`, `BusyOnlyWithWork` and `HeaderAnnouncesImage`, with any number of
  sources in any interleaving with the loads and stores of the task. The last one holds
  until a session is opened or closed in a gap of `stray`, without which it is false
  (section 5). `ListInv` says that the list holds each unanswered
  request once and that the two variables of the task's loop point into it; without
  it `BusyInv` does not survive a source that appends between two steps. `HeaderInv`
  follows the header from the last piece to the reset: it is only written after
  the verification, and nothing is written to the update area after that. It also says that
  a session with a length has the right base, and which cells the verification, which
  reads them one after the other, has so far found in place (`Matching`).
* `AcknowledgedIsHeld` and `AllOkUpdated`, for a source that has the session to itself; the
  latter except for an allocation that fails while the header is numbered or
  written (`silent`).
  `UpdateInv` says how far the session, the writer and the flash are at each place
  of the task when the first `p` cells of a file have been acknowledged (`Ready`,
  `Held`), for requests that split the header or hold payload behind it (`Cut`).

* `OnlyUpdateArea`: `UpdateAreaOnly`, with any number of updaters and sessions, power
  losses and failing allocations, when requests come only from network updaters that
  have the session to themselves (`EachAlone`) and the area is made of whole sectors,
  none of which an image fills to the end of the area (`WholeSectors`). `SectorInv`
  says that `gsSector`, which outlives the session and the cache and is flushed when
  the next session addresses another sector, is always a sector of the area. Both
  hypotheses are needed: an image that ends with the area leaves `gsSector` behind it
  (`fwup_userarea`), and a second `tls_fwup_enter` between the task's check of a
  request and its write clears the program base, so that the request is written at
  address 0.

**Host UART on the worker task** (`HostUartProofs`, `TimeoutListProofs`), for any size
of buffer, piece and mailbox, any delays, tick length and counter widths, any number
of bytes, with refused sends, receive errors, full mailboxes and failing allocations.
`HostUartAssumption` and `WlTaskAssumption` ask for what the code's numbers satisfy: a
piece (512) is at most the buffer (4096) less two, the interrupt reads at most what it
throws away on an overrun (128 bytes), twice that fits in a piece, a delay is shorter
than a turn of the tick counter, and `cnt` can count to 3:

* `TypeCorrect`: also when an overrun falls into `uart_net_send` the buffer's count
  stays in range. This needs `RingInv`: the overrun, at a buffer with at most
  `CacheLimit` bytes free, leaves `uart_net_send` with at most `2 * CacheLimit` bytes more
  to send than there are. As in the runs, the host stops after the first overrun.
* `BytesPassOnce`: `[]EachByteOnce`. `BytesInv` ties what is owed, what the buffer
  holds and what `uart_net_send` has in hand.
* `CountMatchesMailbox`: `[]CountExact`. A load and a store of `cnt` that nothing falls into
  change it by one modulo 256, whoever counts. `CountInv` adds
  why no update of the receiver's message is lost: only the interrupt posts it, which leaves
  it alone while `cnt` is not zero, and between the worker's load and store `cnt` is not.
* `BytesNotStranded`: `[]NothingStranded`. `StrandInv` says at each place of the worker
  who looks at the bytes next; that a piece which is not the whole buffer implies a wake-up
  (`Woken`); and that of the messages the worker has still to post to itself the last
  one sets the timeout (`TodoInv`).
* `OwnMessagesAreFew`: `[]OwnRoom` for every mailbox, and `NoWakeUpIsMissed`: with a
  mailbox of more than 18 entries no post of the worker to itself fails. Both are
  about a worker that serves the receiver alone (`ReceiverAlone`: no callbacks, no
  transmitting port, no failing allocation), and assume that the delay of its timeout
  is not zero (`uart1_delaytime` is at least 5 ms, `wm_uart_task.c:253`). The count
  over several rounds becomes a statement about places: `RoomInv` says that no more
  than 9 of the worker's own messages lie behind the one `uart_rx` message, or before
  it (`Fits`, with what `uart_rx` leaves: at most 5, and a handler that is still to
  run: at most 4), that a timeout message is followed by its own removal (`Paired`),
  and how many are under way at each place. The receiver must be alone: a message of
  another sender in front of a timeout lets the handler run once more and adds four,
  and nothing bounds how often.
* `NeverEarly`: `NotEarly`. `TimerInv` says that no entry is due later than the
  sum of the list up to it, less what has passed of the wait in progress. The lemmas
  of `TimeoutListProofs` say what `TimeoutP`, `UntimeoutP`, `Waited` and `Expire` do to
  these sums.

**DHCP server** (`DhcpServerProofs`), for any number of stations and entries, any
lease and offer times, with lost answers, restarts, failing allocations and deleted
clients; `DhcpAssumption` says that the pool fits in the subnet: `TypeCorrect`,
`OneEntry`, `HoldersAreBound`, `NoDuplicates`, `OffersAreReserved`, `GetIp`,
`AddressesAreStable`. The inductive invariant adds to `HolderIsBound` and
`OfferReserved` that the table is well formed (`TableOK`): each station has at most
one entry at work, and one that is bound has no other entry, not even an old one. That
last fact is what makes the lookup by MAC right, and it depends on a binding
forgetting the station's MAC in all others. `NoDuplicateAddress` follows: two holders
of an address would be bound by one entry.

Induction over data is not available to the provers: the sums of `Times` and the
cells of an image are compared at the least place where they would differ
(`LeastNumber`).

**Model-checked only.**

* Liveness, which needs fairness: `BootCompletes`, `LockReleased`, `RequestReturns`,
  `BytesFlow`, `RxResumes`, `SentFreed`, `SocketsPolled`, `AddressReturns`.
* The violated properties of section 4, which are findings.

## 7. Not modelled

Most of the repository's lines are third-party libraries (section 1), drivers that
only program registers, and the parsing and formatting of commands; none of these is
modelled. Of the modelled parts: `tls_param_set` with `TLS_PARAM_ID_ALL` and
`tls_param_save_user` (no callers); `tls_fwup_init`'s creation of the task,
`received_number`, and `tls_fwup_reset`, `clear_error`, `set_crc_error` (no callers);
the Wi-Fi side effects of a session (power save and oneshot flags, the auto-connect
flag set before the reset); the numbering of sessions by `rand()`, taken to be without
repetition; the flash controller's registers; of the UART, the command modes, the
`+++` escape, the receiver of UART0, DMA, and the semaphores of `tls_uart_read` and
`tls_uart_write`; a wait for socket memory with flow control (ten ticks, then the same
again, which changes nothing); posts to the worker with `block`; of the DHCP server,
`DHCPS_SetDns`, the contents of packets and the phase of the tick within a second. The
parts without a module are listed with the reason in `PROJECT.json`.
