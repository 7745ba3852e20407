# InfoGlobeHack: verification project

InfoGlobeHack drives an InfoGlobe, a lamp that shows text received over infrared, from an ESP32-S2.
The firmware (`src/hello_world`, ESP-IDF and FreeRTOS on one core) takes texts, firmware images and
button commands over TCP and sends texts to the globe through an IR LED. A PyQt program (`src/python/ui`)
is its client. This directory holds TLA+ modules of the firmware, of the part of libssh2 it runs on and of the GUI's
update tab and worker, TLC configurations that check them on small instances, and TLAPS
proofs: of every invariant the runs check, and that the display pipeline and the SSH connection implement their abstract specifications.

`PROJECT.json` lists components, runs, faulty variants, hazards and theorems, and maps every definition
to the source lines it stands for. Paths below are relative to `src/hello_world/main/src` unless they say
otherwise.

## 1. Inventory

| Component | State | Operations | Interacts with |
|---|---|---|---|
| Display queue (`message_type.c`) | FreeRTOS queue of 10 `{size, pointer}`, heap buffers | `send_string_to_queue`, `send_string_w_bytes_to_queue`, `push_buffer_to_queue`, `pop_buffer_from_queue` | every task that shows something produces, `ir_tx_task` consumes and frees |
| IR transmitter (`ir_led_task.c`) | `message[32]`, `tx_len`, byte and bit index, LEDC duty, a periodic timer | `ir_tx_task` (priority 20), `timer_callback` (esp_timer task, priority 22) | the two share the array and the counters without a lock |
| Startup (`frame_maker_task.c`, `tcp_server_task.c`, `sntp_helper.c`) | event group for "time is set", SNTP status | `frame_maker_task`, `init_sntp`, `wait_for_time_sync` | the text server's task releases the frame maker, which starts the OTA and the button server |
| Text server (`tcp_server_task.c`, `tcp_helpers.c`) | one session: receive buffer, bytes to echo | `do_retransmit` | pushes each segment to the display queue and echoes it |
| Clock (`frame_maker_task.c`, `infoglobe_animations.c`) | button level, `time_on`, `last_minute`, `blank_second`, `blank_tick`, `blank_colon` | the loop, `run_animation_time_1` | system time, tick counter, display queue |
| OTA server (`ota_server_task.c`) | flash slots, otadata, update handle, `rx_buffer`, session | `do_retransmit`, `ota_server_task` | OTA worker over TCP, `esp_ota_ops`, restart |
| OTA worker (`python/ui/tcp_worker.py`) | file position, signals emitted | `TcpWorkerBase.run`, `TcpOTAtWorker.perform_task` | OTA server, OTA tab |
| OTA tab (`python/ui/ota_tab.py`, `working_tab_base.py`) | the worker, its thread, the status label | `send_binary_button_click`, slots of the worker's signals, `tcp_worker_finished` | OTA worker, in a thread of its own, by queued signals |
| SSH task (`components/ssh_task`) | event group and parameters on the caller's side; socket, session, channel, buffer | `run_ssh_task_blocked`, `ssh_task`, the driver | button server, libssh2 |
| SSH connection (`components/libssh2`, `transport.c`, `packet.c`, `kex.c`, `session.c`, `channel.c`) | packets queued and half sent, keys, state of the key exchange, channel window | the calls the driver makes, from the handshake to `session_free` | SSH task above, the host beyond the socket |
| Button server (`button_tcp_task.c`) | table of commands, one session | `do_retransmit`, `infoglobe_packet_handler` | GUI's button workers, SSH task |
| Other tabs of the GUI (`python/ui`) | one worker and its thread per tab | clicks, worker signals | text and button server |
| Wi-Fi helper (`wifi_connect.c`) | semaphore, event handlers | `wifi_connect` | none: its call is commented out (`tcp_server_task.c:97`) |

What is hard in this code, and what would make each part correct:

* **Display pipeline.** A callback may fall between any two statements of the transmitter; a buffer is
  handed on by pointer; the transmitter busy-waits above all producers while their timeouts run.
  Texts of any length are accepted, the array takes 32 bytes.
  Correct: each buffer has one owner and no use after free, a text that fits is on the LED as it was sent,
  in order and whole, also after one that did not fit, `ESP_ERROR_CHECK` never aborts, sends return.
* **OTA.** A byte stream in arbitrary segments, a request/answer protocol over it, loss of the network or of
  power between any two flash operations. Correct: whatever happens the bootloader finds a verified image, no
  byte is lost on the way, success means installed, sessions end, resources are given back, and the worker
  tells the user the truth.
* **SSH and buttons.** A task works with pointers into its caller's stack and the server's table; any of
  eight steps may fail. Correct: nothing is used after the caller has returned, the result is the run's, what
  was obtained is released, stored commands are what the client sent, the server comes back.
* **SSH connection.** Every send and every read may find the socket blocked; the call then starts over and finds its
  place again from the state it left in the session. The host may ask for new keys, or for an answer, in the middle of
  any of them, so one call finishes what another began. Correct: the keys at both ends change at the same packet, the
  ends agree on the window, nobody waits for nothing, the output is read whole and in order, and the run ends.
* **OTA tab.** The worker says `finished` before it is: its socket is closed when `run` returns, and its thread
  ends after that. Correct: the tab gives up neither too early nor never, and shows how the update ended.
* **Startup and clock.** Two tasks hand over through an event group that either may create; statics survive
  in the clock, the tick counter wraps, the loop may be held up for seconds. Correct: servers start after the
  network and do start, the clock shows the minute, the colon blinks once and comes back.

The complete list of hazards, each at its line, is in `PROJECT.json`.

## 2. Modules

| Module | Models |
|---|---|
| `MessageType` | `message_type.c`: producers, heap, queue, `xQueueSend` with wait, expiry and last look |
| `IrLedTask` | `ir_led_task.c`: the task statement by statement, the callback, timer, LED and the bits sent |
| `DisplayChannel` | abstract: what the pipeline promises its callers, a FIFO of texts, those that fit the array put out bit by bit |
| `DisplayPipeline` | `main.c`: both composed under the tasks' priorities, and the refinement mapping to `DisplayChannel` |
| `OtaServer`, `OtaClient`, `OtaTab`, `OtaUpdate` | server, GUI worker, GUI tab, and the three together over the connection accepted last and one that waits for accept |
| `SshTask`, `ButtonServer` | SSH run, and the button server on top of it |
| `SshTransport` | libssh2's `transport.c`: packets over a socket that blocks, the packet half sent, directions to wait for, keys |
| `SshPacket` | `packet.c` and `kex.c`: packets acted on or queued, answers owed, the key exchange step by step |
| `SshClient` | the library calls of `ssh_driver.c` in order, each as often as `BLOCK_ADJUST` makes it (`session.c`, `userauth.c`, `channel.c`) |
| `SshHost` | external: an OpenSSH server as the client sees it |
| `CommandRun` | abstract: what `SshTask` takes for granted of the driver's stages and of the output |
| `SshConnection` | client and host composed, and the refinement mapping to `CommandRun` |
| `Startup`, `TextServer`, `ClockDisplay`, `Device` | startup, text session, clock, and the three side by side |
| `IrLedTaskProofs`, `DisplayPipelineProofs`, `OtaUpdateProofs`, `ButtonServerProofs`, `DeviceProofs`, `SshConnectionProofs`, `SshExchangeProofs`, `SshRunProofs` | theorems |
| `MC...` | values for TLC |

How they correspond to the code:

* A program counter (`pc`, `srv`, `cl`, `caller`, `task`, `tcp`, `fm`) names the statement a task executes next.
  Statements that no other actor can observe apart are one step; wherever the order of two writes matters to another
  actor (`SetDutyZero`, `UpdateDuty`, `StopTimer`; `SetFailBit`, `SetFinishBit`; `SetBoot`, `Reply`, `Restart`)
  they are separate.
* An action's name is the C or Python function's where there is one. A failing call is an action or a disjunct
  of its own (`MallocFails`, `WriteFails`, `BootFailed`, `ConnectFails`, `EchoFails`, `RecvRaises`).
* ESP-IDF, FreeRTOS, lwIP and libssh2 are modelled by what the code uses of them: queue, event group, timer, flash
  slots, a byte stream that recv cuts anywhere and send takes piecemeal, calls that fail.
* Texts, packets and images are short sequences; logging and formatting are left out. `format_time` matters only
  through the colon.
* An operator marked "Faulty variant" is what a plausible slip would make of the definition after it; no
  specification uses it. `PROJECT.json` pairs each property with one, under which the property must fail.

Details a reader should know:

* **`DisplayPipeline`.** One core, so a producer runs only while `ir_tx_task` is blocked: in `xQueueReceive`
  on an empty queue or in `vTaskDelay(100 ms)`. Ticks go on all the time. A sender whose wait has run out looks at the
  queue once more, as `xQueueSend` does.
* **`IrLedTask`.** `timer_callback` is one step: its task has the higher priority. `duty` and `strobe` are the
  register and the duty in effect, since `ledc_set_duty` and `ledc_update_duty` are two calls. Messages have any length.
  One longer than the array is copied all the same: what the copy writes behind the array is undefined, so each of the three
  counters afterwards holds what it held or one of `Strays` (`Overrun`), and a bit read outside the array is either one. Other memory behind
  the array is no variable of the model, and a load that traps restarts the device, which ends the behaviour. `Fits` is the
  condition under which the properties speak of the message on the LED; what they demand of it they demand after any number of longer ones.
  Such a message may also jam the transmitter for good (`Jammed`): `tx_len` then never reads zero.
* **`OtaUpdate`.** The socket listens while a session runs, so a worker may connect to a server that is still busy: the stack takes the
  connection (`waitEnd`), and the worker sends its first chunk over it and waits for an answer, perhaps until it gives up, before accept is called.
  One waits at most, as in `listen(..., 1)`. A send that runs into the five seconds or a broken connection has sent a part of its chunk.
  A unit is a part of the file at least as long as the image header. Rollback is not compiled in,
  so no slot is pending verification. A worker that closes with answers unread resets the connection, which
  the server sees as a failed recv.
* **`OtaTab`.** Signals are queued from the worker's thread to the GUI's and handled in order. `signals` is what the
  worker has emitted, `heard` how much of it has been handled; the status label, "Updating" of `progress_percent_update` included, follows
  from the two. `progress_percent_update` ends with `processEvents`, which handles what waits before the slot returns; as nothing follows that
  call in the slot, the order is that of the queue all the same. The progress bar is left out.
* **`SshTask`.** `ssh_task` has the lower priority: whoever waits on the event group runs as soon as the bit it waits for
  is set. libssh2's session blocks, so the task never sees `LIBSSH2_ERROR_EAGAIN`; what it does see is `CommandRun`.
* **`Ssh...`.** A packet carries its type, the number of its keys and what the properties tell apart: positions of the bytes of
  output, or the amount of an adjustment. It is read and written whole; that the socket takes only a part of one is that it stays
  in `odata`. Each place that sends has a buffer of its own, by whose address `send_existing` knows whether the call is the
  same, so here the packet's type tells. `pc` is where the driver's call is, `kex.at` where the key exchange is,
  `kex.nested` whether `packet_add` runs it (a host's KEXINIT read by any call) or the call itself. `waiting` is the
  `select` of `_libssh2_wait_socket`. A host's command prints to two streams, which share one window.
* **`ButtonServer`.** Its packets are those of the GUI's button workers: the GUI names buttons 1 to 6. The
  index is bounded from above only, as in the code.
* **`TextServer`.** A text for the display is whatever one recv returned: the protocol has no framing. The copy
  given to `push_buffer_to_queue` is a producer's call, modelled in `MessageType`; so are the messages of
  the OTA and of the button server.
* **`ClockDisplay`.** Delay of the loop (`push_buffer_to_queue` waits up to 100 ms, the transmitter may hold the core
  for a text's length) is any number of ticks up to `MaxGap`. The clock's time of day is counted from a full minute and
  wraps after `Minutes` minutes, and the tick counter wraps within that period.

## 3. Runs

Numbers of distinct states are those of the configurations as they are.

| Run | Configuration | Shows |
|---|---|---|
| `ir_led_task` | messages of 1 to 4 bytes, array of 3, lag 7 | bits, indices, timer protocol and session end under any placing of callbacks, also after a message that ran over the array |
| `ir_strobe` | same | a finding, see 6 |
| `pipeline` | 2 producers, queue of 2, 4 blocks, 2 texts, messages of 1 to 4 bytes, array of 3 | one owner per buffer, sizes, and that the pipeline implements `DisplayChannel` (about 821 000 states, producers and blocks being interchangeable) |
| `pipeline_live` | 2 producers, queue of 1, 3 blocks, texts of 1 and 2 bytes, array of 1 | every send returns unless a long text has jammed the transmitter; the channel makes progress; a producer that sends alone loses nothing to the timeout (about 286 000 states) |
| `pipeline_leak` | 2 producers, queue of 1 | a finding |
| `pipeline_overrun` | 1 producer, a message of 4 bytes, array of 3 | a finding |
| `ota_update` | a good and a corrupt image of 2 units, buffer of 2, chunks of 1 | 6 invariants, that sessions end, and that the tab can start over, with the network and the power lost anywhere and a worker that has to wait (about 463 000 states) |
| `ota_final`, `ota_complete` | one file of 3 or 5 units | findings |
| `button` | 2 buttons, packets of 2 to 13 bytes against a buffer of 7, outputs of 0, 3, 5 against a buffer of 4, 3 sockets | 6 properties under every failure of the SSH run (about 195 000 states) |
| `ssh` | a window of 4 read by single bytes, outputs of 5 and 0, 1 and 1, 0 and 5 bytes on the two streams, one rekeying, one packet on the host's own account, a socket that holds one packet | windows, keys, key exchange and waiting; the run implements `CommandRun` and ends (about 880 000 states) |
| `device` | 3 bytes a connection, buffer of 3, 2 minutes of 6 seconds of 2 ticks, counter modulo 3 | startup, echo and clock (about 405 000 states) |

Why the bounds are enough for what is asked:

* Pipeline: two producers are the smallest number that fills the queue against each other's wish; four blocks let a
  block leak and be missed; the two texts differ in length. More producers, blocks and longer queues are the matter
  of the theorems. Lags up to 7 are all there are below a byte; `pipeline` uses 1 since `ir_led_task` has 7.
  One message is a byte too long for the array, and `Strays` has values below zero, below the array's end and beyond it.
  `Pipeline.cfg` declares producers and blocks symmetric: neither the actions nor the properties tell them apart. `PipelineLive.cfg` does not, as it has liveness properties.
* OTA: two chunks are what it takes for an answer to come between two sends, for a session to break off half way and for a surplus answer to stand for the
  next one; the buffer takes both, so that the first unit stays in it for the next write. A corrupt image passes the header check and fails the last one. A second
  update goes into the other slot, and its connection may wait for the first to end. The two connections multiply the states, so what this file is too short for was checked apart, with
  the configuration changed by hand, and without an error: three units, a header that takes more than one recv (`HeaderUnits` 1), a buffer of three with chunks of one
  (1.3 million states, liveness included), and with chunks of two, so that the last is short and segments straddle chunks (3.2 million, invariants only).
  `StreamStaysIntact` is proved for all of these.
* Buttons: texts are shorter than, as long as and longer than what table and buffer take; outputs are empty, less than
  and more than the buffer; the pool of three sockets can be used up.
* SSH: with a window of four, outputs of five need an adjustment and have the host wait for it; each stream does so alone and the
  two share it once. One rekeying may fall on any packet of the run, authentication and close included; the host's request falls on any too, and
  what it wants answered meets a socket with room for one packet. `Threshold` and `MinAdjust` keep their proportions to the window.
* Device: seconds are a multiple of 3 as in a minute of 60; the tick counter wraps in the middle of blanks; three
  bytes in segments of at most two cover merged and split segments, short sends and a full buffer.

Bounds in guards: `Talk` and `Rekeys` (what the SSH host does on its own account), `SockBuf`, `Lag` (callbacks after the last bit, see 4), `MaxGap`, `Bytes`, `Sockets`. The `wire` history
is reset at each session. Deadlock is checked except in `button` and `ssh`, where the code really stops: a task that could
not be created leaves its caller waiting for ever, a server without a listening socket deletes itself, and an SSH run
is over once, or waits for ever for a host that keeps silent.

## 4. Assumptions

* `Lag \in 0..7`: between the last bit and `esp_timer_stop` fewer than eight callbacks run. The timer's period is 1 ms
  and `ir_tx_task` is then the highest ready task but for esp_timer's and Wi-Fi's, which this code does not control. With eight, `tx_len`
  would pass zero and the exact test at `ir_led_task.c:75` would not hold; no property speaks of that case.
* Messages have at least one byte: `malloc(0)` is `NULL` here, and an empty text goes no further. Nothing is assumed of their longest.
* `ir_tx_task` reads `tx_len` afresh on every turn of its loop. The variable is not volatile and the loop contains no call; that the load stays in it
  is a matter of the build (`-Og`, `sdkconfig:208`).
* `DelayTicks <= SendTicks`: both are `pdMS_TO_TICKS(100)`.
* `Startup` has memory for its tasks and event groups; calls after boot may run out of it.
* `BlankTicks + MaxGap <= TickWidth`: a turn of the loop that comes a whole round of the tick counter late would take the
  colon's blank for a new one. The counter has 32 bits and a period of 497 days at 100 Hz. `Device.cfg` has the two equal.
* `PerSecond * Seconds * Minutes` is a multiple of `TickWidth`, so that one counter stands for both clocks.
* `HostWindow = Window`: the window the client offers with CHANNEL_OPEN is the one it counts down (`channel.c:201`). `SshHostAssumption`: the host's numbers are natural numbers.

Fairness, stated in each module:

* `DisplayPipeline`: weak for the transmitter, the timer and ticks. Producers run only in the transmitter's windows, which
  weak fairness says nothing about; each window lasts ten ticks and time slices are one tick, so a sender that is ready in
  window after window runs: strong fairness for its send. No producer must ever start a send.
* `OtaUpdate`: weak for server, worker and the GUI's handling of signals. Nobody must click, network and power need not fail. A client that vanishes is
  noticed because `listen_for_client` switches keepalive on.
* `ButtonServer`: weak for server and SSH task, that is, the SSH host answers or the connection breaks. A host that stays
  connected and silent holds the server: there is no time limit in the code.
* `SshConnection`: weak for the client, which runs whenever the socket lets it, and for what the host owes (answers, output, the end
  of the command). What it may do besides (rekey, talk, hang up) it need not do. `RunEnds` is stated for commands that print less than the
  threshold to their standard error, see 6. The waits for the authentication, the channel and the command look at
  `LIBSSH2_READ_TIMEOUT` (60 s); time is not modelled, so there they may give up at any time the socket is empty. The wait for the service, the
  key exchange and reading have no limit.
* `Device`: weak for the tasks and ticks; NTP need not answer. Without it no server starts, the text server
  included: `init_sntp` polls for ever. `ServersStart` begins after the answer.

## 5. Proved

`IrLedTaskProofs`, for messages of any number and any length above zero, anything a copy past the array leaves in the counters, any array size and any lag below a byte:

* `TypeCorrect`, `TxLenStaysNatural`, `NoAbort`, `MessagesSentWhole`, `ArrayStable`, `WireFaithful`.
* None of the invariants is inductive. The strengthening `IrInv` has three parts. `Control` says that the timer is armed
  exactly at five program locations. `Counters` relates the indices while the message at hand fits (`InStep`): `tx_byte_index + tx_len` is the message's size, the
  number of bits sent is `8 * tx_byte_index + tx_bit_index`, and once `tx_len` is zero `tx_bit_index` is the number of late
  callbacks: as that is below eight, no further decrement comes. A longer message breaks that relation and nothing repairs it before the next one's counters are
  set, which is why it is not claimed at the locations from the pop to there (`Between`); `SetCounters` establishes it from nothing but the new size. `Data` types the rest. `WireFaithful` needs
  besides that the array holds the message's bytes from the copy on (`CopiedStep`), and that a position
  `8 * byte + bit` determines byte and bit (`Position`).
* The pipeline has the same transmitter without the assumption on what it receives, so the steps are stated once, of the parts both
  need (`IrCore`: `OwnCore`, `ReceiveCore`, `CopyCore`, `CallbackCounters`).

`DisplayPipelineProofs`, for any number of producers and blocks, texts of any number and length, any queue length and array size, given the assumptions of section 4:

* `Ownership`: `OneOwner` always holds. `OwnInv` adds the types of queue and calls, the transmitter's control, and what each action does
  to the set of queued buffers (`QueuedAppend`, `QueuedTail`).
* `LoneProducer`: with one producer nothing is lost to the timeout. The key is `WaitOutlastsDelay`: in
  the window after a pop, a full queue means that the producer filled it in this window, so that its wait began after
  `vTaskDelay` did and, not being shorter, ends no earlier.
* `PipelineTypeCorrect` and `SizesTravel`, from `ChannelInv`: besides `OwnInv` and the transmitter's core, every live buffer holds a text, a
  record's size is the length of its buffer's text wherever the record is, and so is the size the transmitter has received. Ownership is what carries it:
  a buffer that two held could be filled anew under a queued record.
* `PipelineIsChannel`: `DisplayPipeline` implements `DisplayChannel`. `Pending` is the queue read through the heap, `Showing` the text in the heap until it is copied and then that in the array, or `TooLong` in place of any text that does not fit,
  `Emitted` the bits sent. A step that enqueues accepts a text, a pop begins one, a callback emits its next bit or filler
  (`CallbackMaps`: the mask of the code is that bit, `MaskIsPower`), and the rest stutter. It shows for any bounds what the
  run `pipeline` shows for its own.

`OtaUpdateProofs`, for any images, any sizes of file, header, buffer and chunk, power and network lost at any step:

* `Bootable` and `Installed`, from `BootInv`: outside the stretch from a successful `esp_ota_set_boot_partition` to the restart, the slot to
  boot is the slot that runs, which no update writes to (`OtherSlot`); within the stretch no update begins. That the bootloader finds a
  verified image does not follow from the flash alone: while an update is written, the other slot is not one.
* `Released`, from `HoldInv`: where the handle has gone already, by program location.
* `EndIsShown` (with `OneWorker`, its first part): `TabInStep`. `SignalInv` follows the order of the worker's signals: `finished` is the last of them and the one before it, if the worker
  ever got so far, tells how it ended; what the tab has heard is the beginning of what was emitted, and it drops its worker only having heard all of it.
* `StreamStaysIntact`, from `StreamInv`: what is in the slot, in the buffer and on the way are adjoining parts of one file (`InOrder`), each unit in the
  place of its number, and while the worker sends over a sound connection the three together are all it has sent; a connection that waits has the first part of one file on the way (`InOrderAhead`), with which the server starts anew when it accepts. A send that broke off leaves less on the way than the worker has counted, but then it sends no more. `Stages` says where an update is open and where
  the buffer is empty: the header is checked before the first write, and nothing is written past the end of the connection.
* `OtaTypeCorrect`: the rest of the types, among them that the buffer never takes more than it has room for (`RoomStep`).

`ButtonServerProofs`, for any commands, outputs, buffer sizes and sockets, any step of a run failing:

* `OwnerOutlivesTask`, from `Handshake`: while the task works the caller waits, and FINISH is the last thing the task does to what it shares.
* `ResultIsRuns`, from three invariants: `Handshake`; `Releases`, which follows what is held from the close of the channel to the
  verdict (a run reaches its last statement with FAIL, or with SUCCESS and nothing held); `Response`, that the buffer is the first
  `KeptBytes` bytes of the output after every read (`ReadSomeKeeps`).
* `PressRunsItsCommand` and `CommandsStoredWhole`, from `PacketInv`: the receive buffer begins with the packet or, if that is longer than the buffer, may hold its rest. Past the third byte no packet
  holds a byte 1, which is what makes a new command of one, so the rest of a long one never stores anything; a press fits the buffer. That the entry reads as the text
  sent is `strnlenIs` and `StoredReads`: the stored bytes end at a zero or at the entry's end.
* `ButtonTypeCorrect`, with `SocketsInv`: those that failed runs leaked leave room for the session's and the run's, where there are such.

`DeviceProofs`, for any sizes, any length of second, minute and blank and any delay of the loop, given section 4:

* `NetworkFirst`, from `StartInv`: an event group exists before the text server does, so that the frame maker really waits,
  and its bit is set only after `example_connect`.
* `EchoedOnce`, from `TextInv`: at each statement of a session, how many bytes the display and the client have.
* `MinuteShown`, `OneBlink`, `ColonComesBack`, from `ClockInv`. `DarkSince` carries the last: a dark colon is dark no longer than the time
  since it was blanked, and when the loop last ran that time was below the blank's length. `TickSucc` and `ElapsedTick` show that the unsigned
  difference grows by one per tick, through the wrap of the counter and of the hour. The proof is what showed that `BlankTicks + MaxGap`
  has to fit the counter.
* `DeviceTypeCorrect`, the types of the three side by side.

At the head of `SshConnectionProofs` stands what the proofs about SSH need of sequences that are joined: what `FlattenSeq` of the community modules returns, recursively (`FlattensRecursively`),
and of a concatenation, a head, a part removed. The library's induction theorems take an operator, which the provers cannot instantiate; `SetInduction` takes a set
of numbers in its place, and is proved from the least number outside the set.

`SshConnectionProofs`, for any window, buffer, thresholds and outputs, any socket and any number of things the host does on its own account:

* `SshTypeCorrect` and `WaitsForSomething`, from `ConnectionInv`. Types of packets follow where each may occur (`HostPackets`, `ClientPackets`: an adjustment has one number). `WindowInv`: what is queued
  for the channel has been counted in `avail` on its arrival, `avail` never passes the window, and the window is widened only where it was found narrow, so
  that `Window + BufLen + MinAdjust` bounds it. A read that takes several packets, and the last in part, takes from the front what it counts (`ReadLeaves`, by
  induction over the packets). `OverIdle`, that no key exchange is under way once the channel is freed, is what keeps a call of the farewell from waiting for nothing.

`SshExchangeProofs`, for the same:

* `ExchangeStaysInStep`: the keys of both ends change at the same packet, and during our exchange the host reads nothing else. The statement speaks of the heads of two queues only;
  `ExchangeInv` says what else they hold. `Stands` names, for each of the states of `kex.at`, what may be on the way from the host (`InEven`, `InQuiet`,
  `InDue`, `InReply`) and from the client (`OutCalm` to `OutLast`), whose exchange either end is in and which keys each reads and sends with; the opening of the session, when the
  banners and the first KEXINITs cross before there are keys, is a case of its own (`Greets`, `Opens`). `HalfSent`: the packet left in `odata` is one that the state of the
  call or of the exchange would send again. `Shelved`: of an exchange's packets only a KEXINIT is ever queued in the brigade, and nothing is before there are keys.
* The lemmas follow the code: what the host says (`SpokenStands`) or reads (`HeardStands`) keeps the stage, each packet the client sends or takes leads to the
  next (`KexinitSent`, `InitSent`, `NewkeysSent`, `KexinitTaken`, `ReplyTaken`, `NewkeysTaken`), and there is one lemma for each action (`...Stays`).

`SshRunProofs`, for the same:

* `WindowStaysAgreed`: `WindowAgrees`. Sums over queues are counted by `Tally`, which adds over a head, a packet appended and a concatenation. `AgreedInv` is the equation (`Balanced`, with what
  holds before there is a shell: the host's window is that of the channel once this is confirmed, and nothing has been granted or sent) and what keeps a second channel from unsettling it: `AskedOnce`, that
  the CHANNEL_OPEN under way and the confirmation owed or under way are one at most, and none once the channel is confirmed; `InTurn`, that the command is asked for and answered only after that, and read
  only once it runs; `GrantBegun`, that an adjustment half sent is the one its call was about to send, so that it is counted once.
* `ConnectionRunsCommand`: `SshConnection` implements `CommandRun`. The stages first: `ClientPasses` goes through the calls of the library and shows that a step of the client stays in its stage, goes to the
  next or gives up (`Passes`), but for the reads that return something (`Delivered`) or the end (`Ended`). What those two return is `StreamInv`, which holds until the end is reached: what has been returned, is
  queued and is on the way (`Flow`) is the output from its beginning, in order (`InOrder`); an end comes after all of it (`EndsLast`); what is on the way fits in the window, so that
  `_libssh2_packet_add` cuts nothing off (`Bounded`); and the client has not closed the channel itself (`Unclosed`). When the connection goes down, what is on the way may still be read, and an exchange that
  `_libssh2_packet_add` runs is given up while the call goes on; `Drifts` and `Midway` say that such an exchange never meets a packet it cannot read, so that nothing of the output is lost with it. `StepsRun` puts the two together.

Only model-checked: `SessionEnds`, `SendReturns`, `ChannelProgress`, `TabServesAgain`, `ServesAgain`, `ServersStart`, `TextSessionEnds` and `RunEnds`, which are liveness under
fairness and so out of the prover's reach. Every invariant that a run checks, and both refinements, are proved.

## 6. Disagreements found

* `ir_strobe`: "Stop the strobe" (`ir_led_task.c:77`) precedes `esp_timer_stop`; a callback in between switches the
  LED on again, until the next session.
* `pipeline_leak`: "Send the buffer to the console task" (`message_type.c:38`): the result of `xQueueSend` is ignored, so
  with two producers and a full queue the text is dropped and its buffer leaks.
* `ota_final`: the worker looks "for final ACK/NAK" before it closes, the server answers after the close: a good
  update is shown as failed.
* `ota_complete`: "OTA Complete!" (`ota_tab.py:130`) is shown for an update the server refused, since surplus answers pass for
  the acknowledgment of the next chunk and an exception falls through to status 0.
* `pipeline_overrun`: "IR TX Buffer" (`ir_led_task.h:13`) has 32 bytes, and nothing compares a message with it: the text server pushes up to 127
  bytes of a client (`tcp_server_task.c:39-59`), and the GUI's text field has no limit. A longer text is copied over what follows the array. What the pipeline still
  promises is in `DisplayChannel`: such a text keeps its turn, and if its transmission ends, what comes after it is shown as if nothing had been.

Four more have no run of their own:

* The cleanup at the end of `ssh_task` (`components/ssh_task/src/ssh_task.c`) is skipped on every failing path: of socket, session and buffer, what was obtained by then stays behind. In `ButtonServer` the pool of `Sockets` shrinks accordingly;
  `RunResult` demands only that a good run gives everything back.

* `channel_close` says "We must wait for the remote SSH_MSG_CHANNEL_CLOSE message" (`components/libssh2/src/channel.c`, the
  loop at 2618), but the loop ends with the first packet of any kind read. Nothing follows from it here: the driver frees the channel next.
* When the answer to a host's request is half sent, `_libssh2_packet_add` returns to a call that may have a packet of its own to send:
  an adjustment, EOF or CLOSE. `send_existing` takes that for a different call and refuses it with `LIBSSH2_ERROR_BAD_USE`
  (`transport.c:645-652`), and a command that ran to its end is reported as failed. `ImplementsRun` allows that: any stage may give up.
* The driver never reads the standard error (`ssh_driver.c:173-212`). It shares the window with the output, and is not
  discarded, so a command that prints as much of it as the window allows stops, and with it the button server. `RunEnds` excludes it.

## 7. Not modelled

* The other tabs of the GUI: input fields and layout around the worker protocol that `OtaTab` models; they keep no state
  of their own. The packets their workers send are the inputs of `ButtonServer`.
* `wifi_connect.c`: a copy of the protocol examples' helper that nothing calls. `example_connect` of ESP-IDF is
  external in `Startup`.
* `ssh_shell_session` and the demonstration animations: no caller.
* libssh2 beyond the calls of `ssh_driver.c`. The program's own code is some 3500 lines; by far the most of the other 55 000 is this vendored library,
  of which the program uses one path: SFTP, SCP, agent, known hosts, public keys, the compression and the cryptographic back ends of other platforms
  are compiled, or selected out by the preprocessor, and never called, and a model of them would say nothing about this program.
  Of the path it does use, the cryptography and the parsing of algorithm lists in `kex.c` are data to the properties here: an exchange
  succeeds or fails. The share of lines that the map covers is bounded by this.
* ESP-IDF, FreeRTOS, lwIP, PyQt, the SSH host: external.
* Build files, partition table, `pytest_hello_world.py`: no behaviour; partition layout, tick rate and priorities are read
  from them.
* The heap as a whole: it is modelled for the display queue. `malloc` of the OTA server's `rx_buffer` is unchecked in the code
  and assumed to succeed.
* Time within an SSH run, and so which of its waits expire first.

## 8. Plan

Done: the display pipeline with its abstract specification and first theorems, OTA with its tab, buttons and SSH down to libssh2's
transport, startup, text server and clock.

To model, if more is wanted: lwIP's socket pool, shared by the three servers and SSH runs, and the display messages of all tasks as one
set of producers with their real texts.

What properties leave out, and why, in one place: a byte's worth of callbacks after the last bit (`Lag`, section 4); the update that a failed `recv` leaves open in `esp_ota_ops`
(`SessionReleases`), as the code does not close it; the rest of a packet longer than the button server's buffer, where it begins like a press (`PressRunsNamed`); stages of an SSH run that fail though they need not
(`ImplementsRun`); commands that fill the window with standard error (`RunEnds`); what a text longer than the array looks like on the LED, and whether it ends.

Proved: every invariant a run checks and both refinements (section 5). What liveness there is stays with TLC.
