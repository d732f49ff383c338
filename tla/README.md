# Verification of the SunrayNext flight-control helper firmware

The firmware runs on two chips. The **ESP32-P4** (`src/firmware-p4/main`) bridges MAVLink
between up to three UARTs (flight controllers, telemetry radios) and the network (UDP and
TCP). It has no radio: WiFi runs on the **ESP32-C5** (`src/firmware-c5/main`), a customised
esp-hosted coprocessor that the P4 drives over SDIO with remote procedure calls. This
directory holds TLA+ models of both, the TLC configurations that check them, and proofs
that TLAPS checks.

1. [Inventory](#inventory) – the parts of the system and what makes each correct
2. [Modules](#modules) – which module models what, and how it corresponds to the code
3. [Runs](#runs) – what TLC checks, the bounds, the fairness
4. [Findings](#findings) – where code and comments disagree
5. [Proofs](#proofs) – what TLAPS proves, from what, along which argument
6. [Limits](#limits) – what is only model-checked, and what is not modelled
7. [Plan](#plan) – what comes next

## Inventory

### P4

| Part | State | Operations | Correct when |
|---|---|---|---|
| Ordered buffer (`bridge_network_runtime.cpp`, `ordered_mode`) | ring of slots, `next_seq` | push (UDP thread, TCP client tasks), pop and write (`MavlinkSend`) | packets leave in sequence order; what leaves is the number looked for or a late duplicate; a packet that is not late is not lost |
| Bridge data path (same file, `bridge_accessors.cpp`, `uart_port.cpp`) | `uart_mutex`, `tcp_mutex`, `tcp_clients`, each client's `connected`, `socket`, `task_handle` | packet to all UARTs, chunk to all clients, accept, end of a client | one order of packets on all UARTs and at all clients; a UART that is idle gets the packet however busy the others are; never more than `MAVLINK_MAX_TCP_CLIENTS`; a mutex that is taken comes free; a client's place is given back |
| Bridge life cycle (`bridge_runtime.cpp`) | `state`, task handles, the handle itself | init, start, stop, cleanup | no task outlives the handle; teardown ends |
| Console commands (`bridge_cmd.c`, `console_app.c`) | none of their own | enable a UART, set a baud rate, statistics, `wifi_set` | each returns; a baud rate is not changed inside the loop over the UARTs (it can be under a packet being sent: [Findings](#findings)) |
| WiFi station (`wifi_app.c`) | `s_retry_num`, `s_got_ip`, `WIFI_CONNECTED_BIT` | event handler, connect with credentials, queries | retries are bounded and none is forgotten; callers learn the truth about the connection |
| Network channel (`network/`) | configuration, one UDP or TCP session | `net_*` commands | a session ends with `net_stop`; not modelled: a debug channel beside the bridge |
| MAVLink parser | none | frame check | a pure function on bytes; not modelled |

The P4's tasks share state with FreeRTOS mutexes taken with a 100 ms time-out, or with none
at all (`connected`, `task_handle`, the WiFi statics). What is hard here is what happens at
the time-outs, when a task is deleted wherever it is, and when an event arrives late.

### C5

| Part | State | Operations | Correct when |
|---|---|---|---|
| Serial RPC (`esp_hosted_coprocessor.c`, `protocomm_pserial.c`) | the buffer `r` (`valid`, `len`, `cur_seq_no`), `req_queue` | `recv_task` reassembles, `pserial_task` runs handlers and answers | a request is handled whole, once, in order; nothing waits for ever |
| SDIO transport (`sdio_slave_api.c`) | three receive queues and a semaphore, transmit semaphore, throttling flag | read, write, transmission done, throttle, reset | a packet per semaphore count; transmit buffers are conserved; throttling ends |
| Data path, host reset (`esp_hosted_coprocessor.c`) | `datapath`, interface state, `host_reset_sem` | open, close, announce, forward | the coprocessor is announced after each opening |
| WiFi requests and events (`slave_wifi_std.c`) | `wifi_initialized`, `station_connecting`, `station_connected`, `new_config_recvd`, `new_wifi_config`, `suppress_disconnect`, `lkg_sta_connected_event` | requests on the RPC task, events on the event loop | the last configuration wins; what the host was told last is so; a request to connect is answered |
| Memory pool (`mempool.c`, `mempool_ll.c`) | free list | get, put | a block has one owner |
| Control (`slave_control.c`) | `ota_status`, `handle`, two timer handles; the timer daemon's queue | OTA, heartbeat, memory monitor, timer callbacks | the chip restarts for an activated image only, and does; what is switched off ends |
| Host power save, light sleep, GPIO, coexistence, statistics | – | – | mostly switched off in the shipped configuration |

`r` has no lock, and the handlers run in the task that empties their own event queue. The
station's statics have none either: `pserial_task` (priority 21) and the event loop (20)
share them. Timer callbacks run in the timer daemon, the task of lowest priority, which waits
for room in the queue of `pserial_task`, as that task does for room in the daemon's.

### How the parts interact

P4: UDP thread and TCP client tasks → `mavlink_bridge_net_to_all_uarts` (or the ordered
buffer, then `MavlinkSend`) → UARTs; UART tasks → `bridge_runtime_handle_uart_rx` → UDP peer
and `bridge_tcp_broadcast`. The console calls into the bridge and into `wifi_app`.
`wifi_app` calls the remote WiFi API, which becomes requests over SDIO to the C5;
the C5's `recv_task` reassembles them, `pserial_task` calls the driver, and driver events
travel back the same way to the P4's event loop.

## Modules

| Module | Models | Kind |
|---|---|---|
| `ReorderWindow` | what the ordered mode promises: a line of turns counted from the next number | abstract |
| `OrderedBuffer` | the ring with `bridge_ordered_buffer_push`/`_pop` and `ordered_send_task` | detailed, implements `ReorderWindow` |
| `OrderedBufferProofs` | theorems about `OrderedBuffer` | proofs |
| `Bridge` | every task of the bridge in its default mode, boot, console, teardown | detailed |
| `BridgeProofs` | theorems about `Bridge` | proofs |
| `WifiApp` | `wifi_event_handler`, `wifi_app_connect_with_creds`, the driver as environment | detailed |
| `WifiAppProofs` | theorems about `WifiApp` | proofs |
| `RpcChannel` | what the RPC link promises: handled as sent, once, in order | abstract |
| `SerialRpc` | `recv_task`'s reassembly, `req_queue`, `pserial_task`, event posters, the host as environment | detailed, implements `RpcChannel` for a host that awaits each answer |
| `SerialRpcProofs` | theorems about `SerialRpc` | proofs |
| `SdioRx` | `sdio_rx_task`, `sdio_read`, `recv_task`, throttling; the host and the SDIO driver as environment | detailed |
| `SdioRxProofs` | theorems about `SdioRx` | proofs |
| `SdioTx` | `sdio_write`, `host_reset_task`, `sdio_tx_done_task`, the memory pool, opening and closing of the data path | detailed |
| `SdioTxProofs` | theorems about `SdioTx` | proofs |
| `StaConnect` | the station: requests on `pserial_task` and `event_handler_wifi`; driver and host as environment | detailed |
| `StaConnectProofs` | theorems about `StaConnect` | proofs |
| `Control` | OTA, heartbeat and memory monitor, with `req_queue` and the timer daemon | detailed |
| `ControlProofs` | theorems about `Control` | proofs |
| `MC*` | instances of the above for TLC | – |

**OrderedBuffer.** `packets` is `ordered_buf.packets` with `NoPacket` for `used == false`;
`next_seq` is the field; `sending` is the local packet of the task. Push and pop hold the
buffer's mutex from end to end, so each is one action. `uint32_t` arithmetic is modulo
`Width`, and the cast to `int32_t` is the operator `Diff`. Numbers that arrive are 0..255 for
MAVLink frames; for other datagrams they are a time in milliseconds, so any number.

**Bridge.** `pc` says where each task is, with a label wherever another task can come
between. A mutex is a variable with its owner; `xSemaphoreTake` with a time-out is two
actions, one that finds it free and one that gives up. `vTaskDelete` stops a task wherever
it is and releases nothing. Packets are numbers; `written` and `sent` are the histories the
properties compare. `uart_write_bytes` returns with the packet in the driver's 4096-byte ring:
`ring` holds it until the UART has sent it (`UartSent`), and `bridge_uart_send` writes only
when `uart_wait_tx_done` finds the ring empty within 100 ms, else it passes the UART over.
Behaviour stops when the handle is freed: what the code does then is not defined. It stops
too when the teardown meets a task that is ending by itself: the test of a task handle and the
`vTaskDelete` that follows are two steps, between which the task may clear the handle, so that
the caller deletes itself (`"dead"`) or a task that is gone (`"undefined"`); and a client whose
socket is reset between its test and its `receive` is `"undefined"` (`DeleteCleared`,
`ClientReceiveNothing`).

**WifiApp.** The driver posts events to a queue and the loop handles them one at a time, so
the handler always sees the past. The 3 s delay before a retry is a state of the loop
(`"delay"`), in which everything else goes on. The driver is the one of this repository's C5
(`Announced`): `req_wifi_start` announces a start (`slave_wifi_std.c:632`), ahead of events
that still wait in the C5's event loop, and the handler of the driver's own event announces
it again (`:2335`), unless a connect was asked for before that. So there are one or two
`START`s for each `esp_wifi_start`, and the P4's handler resets `s_retry_num` and connects at
each. Assumed: a connect request is not answered from the C5's stale `station_connected`
(`:689`), which `StaConnect` covers. `tries`, `sets` and `drops` are history and bounds.

**SerialRpc.** A request is the sequence of its fragments and a fragment is
`<<request, place>>`; `data` is `r.data[0 .. r.len)`, and buffer sizes count fragments.
A step is a statement of one task: the two tasks have equal priority on one core with a
time slice, so the switch can come anywhere. That is why emptying `r` is three steps, why
`room` (`rem_buff_size`) is read one step before the wait for `r.valid`, and why storing a
fragment takes several. A request that was cut is read past its end by `parse_tlv`, so the
model lets it be refused or taken for a request. `failed` records that memory ran out or an
answer was lost, which may happen at any time. External: the link keeps order, the fragments
of a request carry one sequence number, and a restarted host does not reuse the number of
the request it was cut off in.

**SdioRx.** `loaded` and `arrived` are the driver's buffers without and with a packet;
`queue`, `sdio_rx_sem`, `throttling` (`current_throttling`) and the two thresholds are the
code's. `rx` and `recv` say what the two tasks do next. They have one priority and share a
core in time slices, so looking at the threshold and the flag, measuring the load, setting the
flag and interrupting the host are separate steps (on the way out the first two are one, as
only `recv_task` clears the flag and changes the thresholds), and so are queueing a packet and giving the semaphore. `Bad` stands for
the packets whose header is refused. A packet is known only by its queue; a configuration is
a private packet with its two thresholds. `hostThrottled` is what the last interrupt said.
What `process_rx_pkt` does with a serial packet is `SerialRpc`; here the packet is taken to
be processed in the end, which `BufferComesFree` there is about.

**SdioTx.** With `BYPASS_TX_PRIORITY_Q` every task that has something to send calls
`sdio_write` itself: `Writers` are the WiFi driver's task and `pserial_task`. `free` is the
pool's list, `queued` and `finished` are the driver's two queues, `held` the local `sendbuf`
of each task. The pool is under a mutex that is held for a few statements, so getting and
putting a block are one step each; taking a place, handing the block to the driver, giving
the place back and freeing the block are one step each and interleave. The model lets the
tasks interleave freely, although `sdio_tx_done_task` has the higher priority: every schedule
of the chip is among them. `ESP_OPEN_DATA_PATH` comes from an interrupt and may come at any
time, also twice. Power save is switched off, but its handler runs when the host sends the
flag, so it is modelled. `leaked` and `owed` are histories. An assertion that fails restarts
the chip, which is not followed further.

**StaConnect.** The chip has one core, so the event loop can be interrupted by
`pserial_task` but not the other way round. `loop` splits the handler at every access to a
static, `rpc` splits a request only at a driver call, where it blocks; what runs between two
such points is one step. `Apply`, `Clear`, `Down`, `Settle`, `Rejoin` and `Tell` are thus one
pass through the handler of `STA_DISCONNECTED`; `Apply` and `CutOld`, or `Up`, `Announce` and
`Mark`, one through that of `STA_CONNECTED`. The driver is external: `drv` is its state,
`net` the configuration of its attempt or connection, `events` what the loop has not taken,
and it accepts a call or not by its state, which is all the code looks at. A
configuration is a model value. The station is the only interface. The histories are `told`
(what the host heard last), `owed` (it waits for an answer to a connect), `lastSet`, and the
two races `overtaken` and `withdrawn`.

**Control.** A timer is a kind and whether it is active; the handlers only send commands to
the daemon, so a timer is active once `HandleCommand` has handled its start. A callback
stands also for the several with which a daemon that was blocked makes up for missed
periods. `image` says whether the partition of the update holds a whole image, which is all
that `esp_ota_end` and `esp_ota_set_boot_partition` tell apart; `ps.todo` are the commands
the handler has still to send and `ps.next` the timer it starts after them. Behaviour ends
when the chip restarts. External: the timer service and the flash. The histories are
`heartbeatWanted`, and `escaped`, `unstarted` and `reopened`, the windows described below.

## Runs

Every run ends within three minutes on two workers.

| Run | Configuration | Shows |
|---|---|---|
| `ordered_wrap` | 4 slots, window 1, counter modulo 12 | `WithinOneLap`, `OnTimeOrOneLapLate`, `FreshPacketSurvives`, `HeadLeaves`, refinement of `ReorderWindow` |
| `bridge_data` | 2 UARTs, UDP and 1 client, 2 packets | `SameOrderOnEveryUart`, `UartMutexReleased`, `IdleUartGetsPacket`, `SlotComesBack` |
| `bridge_broadcast` | 2 UARTs, 2 clients, 2 chunks | `SameOrderAtEveryClient` |
| `bridge_stop` | 1 UART, 2 connections for 1 place, 2 baud rates, teardown | `CleanStop`, `AtMostMaxClients`, `CleanupEnds` |
| `wifi_all` | 2 retries, 3 commands, 3 losses | `AttemptsBounded`, `KeepsTrying`, `WaiterReturns` |
| `serial_one` | window 1, 4 requests of up to 3 fragments, queue of 3, 4 events | refinement of `RpcChannel`, `AnsweredOrStuck` |
| `serial_many` | window 2, 3 requests of up to 2 fragments, queue of 2, 1 event, 1 restart | types, `OneRequestPerMessage`, `PartsOnceInOrder`, `QueuedRequestHoldsBuffer`, `BufferComesFree` |
| `sdio_rx` | 4 buffers, thresholds 50/30 or off | `RoomForPacket`, `BuffersAccounted`, `PermitsMatchQueues`, `ThrottlingEnds`, `SerialNotStarved` |
| `sdio_tx` | 2 places, 4 blocks, 3 senders, 1 refusal | `BlockHasOneOwner`, `PlacesAccounted`, `SendersGetThrough`, `AnnouncedAfterOpen` |
| `sta_config` | 2 configurations, 8 requests (restarts of the host among them), 1 loss | `UnappliedIsRemembered`, `SettledAgrees`, `CachedIsApplied`, `ConnectIsAnswered` |
| `control` | 3 timers, daemon's queue of 3, `req_queue` of 2, 5 requests, 1 other event | `RestartsIntoImage`, `MonitorStops`, `HeartbeatStops`, `ActivationRestarts` |
| `wifi_wrong_password` | as `wifi_all`, smaller | the finding below |

**Why the bounds are enough.** The ring's behaviour depends on the distance of a number from
`next_seq` and on its slot: a counter of three laps holds a number ahead, behind, one lap
behind and across the wrap, and the theorems cover all sizes. Order properties of the bridge
compare two packets on two outputs, so two of each, carried by two kinds of task, are the
smallest violation. `bridge_data` has no chunks from the UARTs and starts none of their tasks,
`bridge_broadcast` no packets from the network: the two directions share no mutex, and
`bridge_stop` has both. The client limit needs one place and two connections. In `SerialRpc` a
violation relates a request, the one before it and the one that waits; queues are smaller
than the events available so that they do fill up. In `SdioRx` four buffers are the fewest
that put the load above a threshold, below it, and on either side of a second one, with a
buffer in each task's hands; the code has 20 and the theorems cover any number. In `SdioTx`
the pool has two blocks more than the driver has places, as in the code, and there are three
senders: one more than the spare blocks. In `StaConnect` the longest story the properties
tell is init, set, start, connect, a second set during the attempt, and then a third set or
another connect while the handler deals with the first two: six requests, and two are
left over; two configurations are the new and the old one. The two invariants also hold with
ten requests. In `Control` a completed and activated update takes four requests and a fifth
can come between; the daemon's queue holds 3 commands where the chip's holds 10, and
`req_queue` 2, so that both fill up and the two tasks can wait for each other; the
properties also hold with six requests. The bounds are constants of the modules: `MaxNet`,
`MaxUart`, `Conns`, `MaxSets`, `MaxDrops`, `MaxRequests`, `MaxFrags`, `MaxEvents`,
`MaxRestarts`, `MaxFailures`, `MaxLosses`, `Timers`; most of them end behaviours, so most runs do not check
deadlock. `ordered_wrap` and `sdio_rx`, which have none, do; `sdio_tx` stops when the
assertion fails.

**Fairness.** A task that is ready runs: weak fairness of each task's steps, as the FreeRTOS
scheduler gives tasks of equal priority that block or delay in their loops. The environment
owes nothing (what a property needs of it is a premise of the property): packets,
connections, commands, losses and events may never come. The WiFi driver answers each
attempt, and a UART sends what is in its ring. A taker that finds a mutex held may give up or
get it later.
In `StaConnect` `pserial_task` returns from a driver call, the loop handles what is posted and
an attempt ends. In `Control` a callback that waits for room gets it if there is room again
and again, and each expired timer has its turn: strong fairness, as FreeRTOS wakes the task
that waits for a queue and the daemon takes its timers in the order of their times.
Failures (out of memory, a lost answer, a timer that cannot be created) are allowed and never
forced.

**Symmetry.** `bridge_broadcast` treats the two connections as interchangeable; it checks no
liveness.

**Conditional properties.** `AnsweredOrStuck` and `BufferComesFree` name two exceptions that
the code really has: a handler that posts to its own full queue (`Stuck`), and a failed
allocation (`failed`), after which `recv_task` waits for ever. `SlotComesBack` excludes
clients whose task could not be created: their place is never given back.
`SendersGetThrough` needs a host that keeps reading (`HostKeepsReading`);
`AnnouncedAfterOpen` also that tasks waiting for the semaphore take turns
(`TurnsAreTaken`: FreeRTOS wakes the first of one priority). Both except an aborted chip and
the places that refused start-up events keep. `ThrottlingEnds` says that throttling ends when
the host falls silent, as a throttled host does, with the path open and a lower threshold
above 0; a host that lowers it to 0 while it is throttled stays so.
`UnappliedIsRemembered` excepts a configuration set while the handler is between its test of
`new_config_recvd` and its `new_config_recvd = false` (`overtaken`): it is lost, or replaced
by the older one. `ConnectIsAnswered` excepts a `set_config` that the driver accepts between
the forced disconnect and its event (`withdrawn`). `HeartbeatStops` excepts a timer whose
start the daemon had not handled when the stop came (`escaped`), `RestartsIntoImage` a begin
after an activation (`reopened`), `ActivationRestarts` a restart timer that could not be
started (`unstarted`), and the liveness properties of `Control` the state in which the two
tasks wait for each other (`Wedged`). TLC finds the property violated without each of these.
`CleanupEnds` accepts that the teardown's own task is deleted or meets undefined behaviour.
`AttemptsBounded` allows two attempts more for each command so far, one for each announcement
of its start: what came of an earlier command's announcements can be handled after the next
start. With 1, 2 and 3 commands TLC finds a behaviour that reaches the bound.

None of these exceptions is a hazard that the property catches: where a hazard is exactly the
excepted case, `PROJECT.json` lists it with no property and says why.

## Findings

One comment says what the code does not do; a run ends with the counterexample.

* `ConnectReturns` – after the last refused retry no bit is set and the call waits with
  `portMAX_DELAY` for ever (`wifi_app.c:208`), against `wifi_app.c:159`.

What the models show besides, part by part:

* P4, WiFi: `WIFI_CONNECTED_BIT` is never cleared (`wifi_app.c:206`), so a second `wifi_set`
  returns `ESP_OK` before the driver has connected, whatever `wifi_app.c:163` says of the
  result; `s_got_ip` survives the loss of the connection, so `wifi_app_is_connected` goes on
  answering true (`wifi_app.c:262`).
* P4, WiFi: because a start is announced twice, one `wifi_set` can make one attempt more than
  `1 + WIFI_MAX_RETRY`: the second announcement resets the count after the first attempt was
  refused (`wifi_app.c:95`).
* P4, bridge: `mavlink_bridge_set_baudrate` takes `uart_mutex` but does not wait for the ring
  to empty (`bridge_accessors.cpp:86`), so the rate can change under a packet being sent; the
  wait for that is before a write only (`uart_port.cpp:111`). No comment says otherwise, so it
  is not a disagreement, and no property excludes it. The teardown can delete the task that
  runs it, or one that is gone (`bridge_network_runtime.cpp:247`, `:260`), and resets a socket
  that its client may be about to use (`:259`, `:136`).
* P4, bridge: with `ordered_mode` on, the bridge stops after one lap past number 255, because
  `next_seq` does not wrap with MAVLink's eight bits; a gap in the numbers stops it at once;
  a client whose task could not be created occupies its place for ever.
* C5, RPC: a second request sent before the first is answered can be cut or dropped while `r`
  is being emptied.
* C5, SDIO: `generate_startup_event` asserts that the pool has a block for its event
  (`sdio_slave_api.c:203`). The pool has two more than the driver has places (`:33`), and a
  task that waits in `sdio_write` for a place holds one: when a host stops reading, the WiFi
  driver's task and `pserial_task` both wait, and the host restarts and opens the path, the
  event finds the pool empty and the coprocessor aborts. A start-up event that the driver
  refuses keeps its place for ever (`:299`). The interrupt that starts throttling can reach
  the host after the one that ends it, so that the host is throttled and
  `current_throttling` is clear; and a host that switches throttling off between the two
  looks at the upper threshold (`:115`, `:130`) is throttled by any load.
* C5, station: a configuration answered with `ESP_OK` can be lost in the race `overtaken`
  (`slave_wifi_std.c:2238`); after `withdrawn` (`:747`) the station stays down and the host is
  not told. `req_wifi_start` announces the start, and the handler of the driver's event does
  so again (`:632`, `:2335`). `req_wifi_deinit` clears `wifi_initialized` also when the driver then
  refuses.
* C5, control: a heartbeat that is stopped before the daemon has handled its start goes on,
  and a second start leaves it without a handle (`slave_control.c:374`). The status is
  `ACTIVATED` before the restart timer is started (`:344`); if that fails the host's next
  attempt is answered `ESP_OK` and does nothing, as is the activation of an update that is
  not completed. A begin after an activation erases the partition that is about to be booted
  (`:174`). When the daemon's queue is full and `req_queue` too, `pserial_task` and the daemon
  wait for each other for ever.

## Proofs

### OrderedBuffer

For every `Size`, `Window`, `Width`, set of arriving numbers and set of payloads that satisfy
the assumptions of the module:

* `TypeCorrect`: `TypeOK`, which no run checks.
* `RingWithinOneLap`: `WithinOneLap`. Every packet sits in the slot of its number, at most
  `Window` ahead of `next_seq` and at most `Size` behind. This is the inductive invariant. A
  push keeps it by its window test; a pop could only break it for a packet exactly `Size`
  behind, and that packet is in the slot of `next_seq`, the one the pop empties.
* `PopsOnTimeOrOneLapLate`: the packet popped is in the slot of `next_seq`, so its distance
  is a whole number of laps, and in `-Size .. Window` only 0 and `-Size` are.
* `FreshPacketsSurvive`: an overwriting push has a number of the same slot in the window;
  with `2 * Window < Size` the two numbers are equal. The theorem assumes that; the default
  32 slots for a window of 10 give it.
* `OrderedModeStopsAfterOneLap`: with MAVLink numbers, which wrap before `next_seq` does,
  `next_seq` never gets more than one lap past the last number; from `RingWithinOneLap`. The
  formula, `StopsAfterOneLap`, is defined with the proof and checked by no run.
* `RingImplementsReorderWindow`: every step of the ring is a step of `ReorderWindow` under
  the mapping `Due`, which reads the ring from `next_seq` on.

Assumptions: `SizeAssumption` (at least one slot, window below the size), `WidthAssumption`
(`Size` divides the counter's range and is small against it: 32 and 2^32),
`SeqsAssumption`, `NoPacketAssumption`. The lemmas are about modular numbers: `Diff` is the
difference up to a turn of the counter, numbers of a slot are whole laps apart, and a whole
lap within range is 0 or one lap.

### Bridge

For every number of UARTs, of connections, of client places, of packets and of baud rates,
from `BridgeAssumption` (the tasks' names differ; the bounds are numbers):

* `UartsAgreeOnOrder`: `SameOrderOnEveryUart`; `ClientsAgreeOnOrder`: `SameOrderAtEveryClient`.
* `ClientsAreLimited`: `AtMostMaxClients`; `TeardownIsClean`: `CleanStop`.
* `TypeCorrect`: `TypeOK`, which no run checks; in particular no loop over the UARTs or the
  clients runs past its end, although the list shrinks meanwhile.

One invariant, `Inv`, carries them all. A mutex is not a matter of its owner only: a task that
`vTaskDelete` hits keeps what it holds. So `UartLocked` and `TcpLocked` say the converse, that
whoever is inside what a mutex guards holds it. From them follows the order: the packet being
forwarded is the last that the receivers so far have got and no other receiver has it
(`UartsInTurn`, `ClientsInTurn`), so when the next receiver gets it, it comes last there too.
For clients "the receivers so far" are those before the place in the list, and the list can
neither move nor shrink under a task that holds `tcp_mutex`. `Listing` says that no client
is in the list twice, `Counted` that the list is short enough for whoever is about to admit;
`Handled` and `Stopping` that a task which is not gone is known to the handle, and that what
the teardown has passed is gone. `Inv` was checked by TLC on small instances before it was
proved. No fairness is used.

### WifiApp

For every `MaxRetry` and any number of commands and losses:

* `AttemptsAreBounded`: `AttemptsBounded`.
* `TypeCorrect`: `TypeOK`, which no run checks; `s_retry_num` never passes `WIFI_MAX_RETRY`.

`AttemptsBounded` is not inductive: it does not say where the next attempt can come from.
The invariant counts causes: a start or a loss in the queue, an attempt under way, a handler
that sleeps before its retry, and two for a command about to start. Each came of a command,
two of each (`CausesBounded`). Behind the last event in the queue that resets `s_retry_num`, the attempts
already made have their failures behind it (`Recent`); from when that event is handled, each
attempt but those the causes allow is counted before it is made (`Counted`).

### SerialRpc

For every buffer size, queue size and bound, and every window unless it is named:

* `TypeCorrect`: `TypeOK`; in particular `Len(data) <= BufSize`, that is, `memcpy` stays
  within `r.data` although `rem_buff_size` is stale.
* `BufferHandedOver`: `QueuedRequestHoldsBuffer`, the discipline that stands in for a lock.
* `MessagesAreOfOneRequest`: `OneRequestPerMessage`; `PartsAreOnceInOrder`:
  `PartsOnceInOrder`. Both also with restarts of the host.
* `LinkImplementsChannel`: `ImplementsRpcChannel`, for `Window = 1` and `MaxRestarts = 0`. With
  a window of two a request may be cut, so the premise is needed.

The first two are not inductive. The invariant adds `StoresWhenInvalid` (while `recv_task` may
store, `r` is not valid, hence nothing is queued), `PostsWhenAlone` (about to post, it holds
a valid `r` and no other request is about), `RoomIsThere` (a stale `rem_buff_size` can only
be too small, since the other task only empties `r`) and `AnswersHandled`.

For the order, `Ordered` looks at the parts of requests wherever they are: those handled or
in a handler's hands come before those in `r`, these before the fragment `recv_task` holds,
and that before what is on the wire (`StagesInOrder`); on the wire they are in order, and
what `r`, the handler and the history hold is in order and of one request.

For the refinement, `OneByOne` says where the one request under way is: on the wire from its
part `j + 1` on and in `r` up to part `j`; whole in `r`, with a copy to post, in the queue or in
`pserial_task`'s hands; taken out of `r`; in its handler; or gone, with everything at rest. It
was checked by TLC before it was proved. A failure leaves the request unanswered, so nothing
is sent after it. `sent`, `handled` and `answered` map to themselves: `HostSends`, `PsHandle`
and `PsAnswer` are the channel's three actions and all other steps stutter.

### SdioRx

For every number of buffers and every set of configurations, from `SdioRxAssumption` (the
three queues, `Bad`, the configurations and `NoPacket` differ; thresholds are bytes):

* `NoBufferLost`: `BuffersAccounted`.
* `ReadFindsPacket`: `PermitsMatchQueues`; hence `sdio_read` never answers "No element in rx
  queue".
* `QueueHasRoom`: `RoomForPacket`. The guard of `RxQueue` never holds the task up, so
  `xQueueSend` in `sdio_rx_task` never waits: the packet in hand has a buffer, and what is left
  cannot fill a queue.
* `TypeCorrect`: `TypeOK` with its bounds, which no run checks.

The two sums are nearly inductive together: that a fetch finds a packet follows from
`PermitsMatchQueues` (`OneFirst`), and that a task has a packet in hand exactly in the middle
of its loop is the part `Hands` adds. Each action moves one buffer from one place to the
next. The bounds of `TypeOK` and `RoomForPacket` then follow from the sums (`Bounds`), so the
invariant needs none.

### SdioTx

For every number of places, spare blocks and senders, from `SdioTxAssumption` (the tasks and
blocks differ, at least one place):

* `PlacesAreAccounted`: `PlacesAccounted`; `BlocksHaveOneOwner`: `BlockHasOneOwner`.
* `TypeCorrect`: `TypeOK`, which no run checks; the semaphore never passes the count it was
  made with.

With `Hands` (a task has a block exactly from getting it to passing it on) the two are
inductive: each action moves one block, or one place, from one holder to the next. The lemmas
count how often a block occurs in a sequence when an element is appended or taken off, and how
many tasks hold it when one of them changes.

### StaConnect

For every set of configurations and every number of requests and losses:

* `ConfigurationsAreKept`: `UnappliedIsRemembered`. It needs that a flag that is set goes with
  the last configuration, that the handler applies only while the flag is set, and that it
  clears it when the driver has the configuration (`Remembers`).
* `SettledStateAgrees`: `SettledAgrees`. That is about a state in which no event is left, and
  the invariant (`Agreeing`) is about all the others: the events not yet handled take turns and
  lead from what the handler holds (`Open`, `Held`) to what the driver is (`Links`); a
  disconnect is kept from the host only while one is under way (`Flags`); what the host was
  told is what the handler knows or is about to tell (`Told`).
* `TypeCorrect`: `TypeOK`, which no run checks.

TLC checked the invariant on 3.3 million states before it was proved.

### Control

For every number of timers, length of the two queues, and number of requests and events:

* `RestartIsIntoImage`: `RestartsIntoImage`. What is to be booted is whole and its handle
  closed, unless an update was begun after the activation (`Imaged`).
* `NoMonitorIsForgotten`, `NoHeartbeatGoesOn`: the safety half of `MonitorStops` and
  `HeartbeatStops`. A timer of the monitor is the one the handle names, or its deletion is in
  the daemon's queue or about to be sent there; the same holds of a heartbeat that is active
  or whose start is queued, after a stop that did not come too early for it (`escaped`). The
  formulas are defined with the proof. That the deletion is then handled is liveness and
  stays with TLC.
* `TypeCorrect`: `TypeOK`, which no run checks.

## Limits

Proved: every invariant of the runs, every action property, and the two
refinements. Only model-checked: the liveness properties (`HeadLeaves`, `UartMutexReleased`,
`IdleUartGetsPacket`, `SlotComesBack`, `CleanupEnds`, `KeepsTrying`, `WaiterReturns`, `AnsweredOrStuck`,
`BufferComesFree`, `ThrottlingEnds`, `SerialNotStarved`, `SendersGetThrough`,
`AnnouncedAfterOpen`, `CachedIsApplied`, `ConnectIsAnswered`, `MonitorStops`,
`HeartbeatStops`, `ActivationRestarts`): fairness and `ENABLED` are beyond the prover.

The theorems hold for every value of the constants, but of the models: what a model leaves
out, and the environment it assumes, is as little proved as it is checked.

Not modelled, in the parts above: contents of packets and messages, log lines, byte counters;
the start and stop of the RPC link (once at boot); reset and deinit of the SDIO transport;
`net_to_uart`, `send_to_uart` and `wifi_app_deinit`, which the program does not call.

Not modelled at all:

* *Requests that pass their fields on*: most of `slave_wifi_std.c` and a good part of
  `slave_control.c` copy a message into one driver call and its result into the answer (scan,
  access point, power save, TWT, DPP, MAC addresses, statistics, GPIO). They keep no state of
  their own, and a model of one would restate the call.
* *Custom RPC handlers*: only the examples register any, and they are not compiled.
* *Host power save, light sleep, external coexistence*: switched off in the configuration.
* *The P4's `net_*` channel*: a debug channel beside the bridge, sharing no state with it. The
  races between its two tasks are listed in `PROJECT.json`.
* *MAVLink frame parser, numbering of UARTs*: pure functions of a few lines on bytes and
  indices.
* *Generated code*: `esp_hosted_rpc.pb-c.*`, more than half of the C lines of the repository.
* *Other transports*: the SPI and UART slaves are not compiled when SDIO is selected.

FreeRTOS, espp, the WiFi driver, the SDIO driver and the P4's RPC client are environment.

## Plan

Order of work, most important behaviour first.

1. `OrderedBuffer`, `ReorderWindow`, `Bridge`, `WifiApp`, `SerialRpc`, `RpcChannel`, `SdioRx`,
   `SdioTx`, `StaConnect`, `Control`: modelled and checked.
2. Types, invariants, action properties and the refinements: proved, as
   [above](#proofs).
3. To prove: the safety halves of further liveness properties, that is, what must be so for the
   progress to be possible at all: for `ActivationRestarts` that an activated update has its
   timer active or its start on the way; for `SlotComesBack` that a client whose socket is
   closed and who still has its place has a task that gives it back; for `CachedIsApplied`
   that a cached configuration goes with an event that applies it; for `WaiterReturns` that
   an address which the console waits for comes with an event in the queue.
4. To model: reset and deinit of the SDIO transport, which drain queues that the tasks still
   use.
5. Left open: the composition of `SdioRx`, `SdioTx` and `SerialRpc`, whose tasks also wait for
   each other (`recv_task` in the reassembly, `pserial_task` for a place, `host_reset_task` for
   room in `req_queue`). Each module takes the others' part as environment that gets on in the
   end, which `BufferComesFree`, `SendersGetThrough` and `SerialNotStarved` are about.
