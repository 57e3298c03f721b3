# A verification of pico_rtos_https

The program under `src/` runs on a Raspberry Pi Pico W: FreeRTOS on two cores,
lwIP in a thread of its own, mbedTLS. It connects to a Wi-Fi network, makes one
HTTPS GET request a minute and prints the response, looks after the link, pings
the gateway, and resets itself when one of its tasks falls silent. This
directory holds TLA+ models of it, the TLC configurations that check them, and
proofs of what matters most in them. File and line numbers are those of `src/`
(C files are in `src/src/`, headers in `src/include/`).

## 1. Inventory

| Component | Code | State | Operations |
|---|---|---|---|
| Receive ring | `rx_circular_buffer.c` | `rx_buffer`, `read_idx`, `write_idx`, `is_full` | `circ_buffer_init` (once), `circ_buff_write` on the TCP/IP thread, `circ_buff_read` on the HTTPS task |
| TLS client | `pico_tls.c` | `connection_state`, on the HTTPS task's stack | `resolve_hostname`, `tcpip_start_client`, `tcpip_tls_abort`, `pico_tls_free_config`; callbacks for connected, sent, received, error, DNS answer |
| HTTPS task | `pico_rtos_https.c:476-608` | place in its loop, the event queue, counts of bytes | resolve, create queue and TLS configuration, start, handle events, clean up, sleep a minute |
| Watchdog | `pico_rtos_https.c:304-384` | one flag per task | count each flag up once a minute, reset at `MAX_WATCHDOG_MISS_COUNT`; the tasks clear theirs, `memmon_task` (debug builds, lines 137-173) among them |
| Network check | `pico_rtos_https.c:272-298, 390-448, 614-648` | retry counters, ping timer | look at the link, reconnect, ping, reset; first connection and creation of the tasks |
| Gateway ping | `ping.c`, `pico_rtos_https.c:183-249` | `last_ping_result`, `ping_seq_num`, `ping_pcb`, the target | report and send, receive a reply, initialise |
| Hooks, assertion handler, configuration, build scripts | the rest | | not modelled, section 8 |

How they interact:

- **HTTPS task -> TCP/IP thread**: `tcpip_callback` puts a function in lwIP's
  mailbox; it runs later, with a pointer to `connection_state`.
- **TCP/IP thread -> HTTPS task**: callbacks store bytes in the ring and post an
  event to the queue `connection_state.q`, which holds 16; the result of the
  post is not looked at. `connection_state` itself is written by both sides.
- **Every task -> watchdog**: plain stores to a volatile flag; the watchdog
  loads it, compares, and stores the value plus one.
- **Network check -> ping module -> TCP/IP thread**: `last_ping_result`,
  `ping_seq_num` and `ping_pcb`, shared without a lock.

What is hard about it: the two cores meet in the ring with no lock; `pcb`,
`pconfig` and `q` are freed by the task on the strength of a delay of 500 ms; a
connection may break between any two steps; events may be lost; the flags of
the watchdog are counted up while tasks clear them; ping replies come when they
like; there are retries inside retries, and a timer over them.

What makes each part correct:

- ring: a FIFO of bytes under every interleaving;
- receive path: every byte announced is read, and the next connection finds the
  ring as the first one did;
- session: no callback finds its connection's resources freed, the task never
  waits for nobody, and there is always another connection;
- watchdog: a reset if and only if some task was silent for long enough, and how
  long a connection may take before that;
- network check: reconnecting ends, and does not starve the watchdog;
- ping: what is reported is about the ping it is said to be about.

## 2. Modules

| Module | Models | Composes |
|---|---|---|
| `RxFifo` | what the ring promises: `Put` a whole chunk into free space, `Get` the next byte | |
| `RxCircularBuffer` | the ring, one step per access to a shared index or flag, or byte | implements `RxFifo` |
| `RxPath` | `altcp_recv_cb` and the event loop of `https_task` around the ring, the bounded queue between them, and what else is posted to it | extends `RxCircularBuffer` |
| `HttpsRounds` | what a round of `https_task` promises: resources taken, at most one connection, gone before they are given back | |
| `HttpsSession`, `MCHttpsSession` | the life of connections: `https_task` and every function and callback of `pico_tls.c`; the MC module adds the symmetry of the connections | implements `HttpsRounds` |
| `Watchdog` | `watchdog_task` step by step, the monitored tasks, the reset | |
| `WatchdogTimer` | the watchdog in seconds, as one monitored task meets it | |
| `HttpsTime` | `https_task` in seconds | extends `WatchdogTimer` |
| `CheckNet` | `main_task`, `check_net_task`, `connect_to_wifi` in seconds | extends `WatchdogTimer` |
| `Ping` | `ping_gateway` and `ping.c` against packets in any order | |
| `RxCircularBufferProofs`, `RxPathProofs`, `HttpsSessionProofs`, `WatchdogProofs`, `WatchdogTimerProofs`, `HttpsTimeProofs`, `CheckNetProofs`, `PingProofs` | theorems | extend their component |

Correspondence of state and actions with the code:

- **RxCircularBuffer.** `wpc`/`rpc` say how far `circ_buff_write`/`circ_buff_read`
  are; `w_*` and `r_*` are their locals. A byte is its position in the stream, so
  anything lost, repeated or overwritten shows. `is_full` and the index are
  stored in separate steps, in the order of the code (lines 90 and 94, 136 and
  139). The three early returns are `Refuses`, as the code has them. Loads that
  nothing can come between to any effect are merged (the writer's load of its
  own `write_idx`, for one).
- **RxPath.** `events` is the queue; `Post` drops what does not fit. It holds the
  events of all callbacks: `HTTPS_CONNECTED` (`Connect`) and `HTTPS_SENT` (`Sent`, at most
  `MaxAcks` times for a connection; how often lwIP calls is its affair) too, which the task
  only prints but which take places. `stage` counts the two. `posting`
  separates the store in the ring from the event. `task` is where `https_task`
  is in the case `HTTPS_RX_DATA`; `NextConnection` stands for everything from
  `HTTPS_RX_DONE` or `HTTPS_ERROR` to the next connection, without touching the
  ring's indices. `Break` is `altcp_err_cb` between two callbacks; lwIP frees a
  refused chunk then (`Drop`). `due`, and `upto` of an event, are history: how far
  in the stream the events have got.
- **HttpsSession.** `cs_pcb`, `cs_pconfig`, `cs_q` are the pointers of
  `connection_state`; `pcb[p]` is what lwIP has connection `p` in ("aborted": by the
  program, "free": by lwIP). Each callback is one action, but for a close by the
  peer: the event comes first (`RecvDone`), `altcp_close` after it (`Close`), and
  the task may be anywhere in between. The task's 500 ms are `Settle`: with
  `Timely` the TCP/IP thread is then done (`ThreadDone`), without it anything
  goes. An event posted to a null queue is a failed assertion, to a deleted
  queue undefined, and so is aborting a freed connection (`halted`). `Faults` is
  the set of failures that may happen.
- **Watchdog.** `Load` and `Store` of a flag are two steps with kicks between
  them. `heard` and `misses` are history: who has kicked since its last check,
  and for how many checks in a row it has not. `PICO_DEBUG_MEMMON` adds the memory
  monitor, as the build option does.
- **WatchdogTimer.** `clock` is how far the watchdog is into its minute. `Elapse`
  lets `d` seconds go by, in which it may look at the flag once; if its minute is
  over at the very end of them it may or may not have looked. `Pass(d)` is that
  without a kick, `Kick(d)` after one. A look is one step here, so a kick that falls
  between its load and its store comes just after it (`clock = 0`, the flag counted
  up) and leaves the flag alone: it is overwritten. `LostKicks` bounds how often in a
  row; `lost` counts them, and with `silent`, the time since the last kick that was
  not overwritten, is history.
- **HttpsTime.** `pc` is where `https_task` is; it kicks in `Top` and `Pause`.
  `Wait` is any time in `resolve_hostname` or in `xQueueReceive`, and the time after
  the task has ended. `waited` is history: the sum of these since the last kick that
  was not overwritten.
- **CheckNet.** An action is what is done up to the next delay and takes that
  many seconds. `gateway` says whether `gateway_ip` is set: a call of `ping_gateway` before
  that calls `ping_init` and sends nothing. `since_ping` (since an echo request went out)
  and `up` (for how long the link has been seen up) are history. `booting` tells `main_task` from `check_net_task`. An initialisation
  of the Wi-Fi chip that fails resets the device: it is the initial state again.
- **Ping.** `ping_send_now` is two steps (the result is cleared; a new sequence
  number is sent), `ping_recv` also (the packet is compared; the result is set and
  lwIP goes on with the PCB, `in_use`). `overlap` is history: `ping_recv` was at
  work on a reply to the ping before while `ping_gateway` ran; so is `asked`: whether the
  last call sent a ping at all.

Operators called "Mutant of ..." are changed forms of the definition that
follows them, with a bug that could have been in the code. Put in its place
each makes TLC report the property that `PROJECT.json` lists with it.

## 3. Runs that pass

| Run | Bounds | What it shows |
|---|---|---|
| `rx_below_size` | ring of 5, responses up to 4, chunks 1-4, reads of up to 1 or 3, stream of 11 bytes, one acknowledgement, queue of 7: four chunks, `HTTPS_CONNECTED`, `HTTPS_SENT` and the last event | The ring is the FIFO (`FifoSpec`), its indices and contents agree at every step (`RingInv`), at rest they count the unread bytes (`CountAtRest`), and no unread byte is overwritten (`NoOverwrite`). The callers use it as its module assumes (`RingSpec`: no connection starts with bytes of another in the ring). No event is lost (`QueueHasRoom`), every byte has an event to come that gets it read (`NoStrandedByte`), a chunk is refused only while the task has such an event before it (`NoRefusalAtRest`), every chunk is stored in the end (`EveryChunkAccepted`), and a connection that is closed or breaks is followed by another (`NextConnectionFollows`). `PathInv` is the inductive invariant of the proofs. |
| `session_breaks` | 2 connections, queue of 5, 3 data or sent callbacks per connection; failures: DNS, an answer of 0.0.0.0, no memory for TLS, host name, connect, write, oversized chunk, receive error, broken connections at any moment; a timely TCP/IP thread | A live connection is the current one's and has its configuration and queue (`SessionOwnsConnection`); each round is one of `HttpsRounds` (`RoundsSpec`); the task is always told (`NeverWaitsForNobody`); what the program aborts it does not abort again (`NoDoubleAbort`); and there is another round, unless the task waits for a silent peer or for an address other than 0.0.0.0 without end (`SessionsRepeat`; `https_time` shows that the watchdog then resets the device), or the abort of a freed connection has stopped the TCP/IP thread, which nothing else does (`OnlyAbortHalts`; the finding of `session_abort_freed`). The queue has two places more than a connection has data and sent callbacks, the least with which that is so: with one place less `NeverWaitsForNobody` is violated, and `rx_queue_full` shows what happens. |
| `session_late` | every failure, no timeliness, queue of 2, mailbox of 3 | An abort from an earlier round hits no later connection (`LateAbortIsHarmless`): the start that would make one is behind it in the mailbox. |
| `watchdog_hangs` | 4 tasks (a debug build), the code's count of 3 | Every hang ends in a reset (`HangResets`), whichever tasks go on kicking and however their kicks collide with the watchdog's stores (`SilenceDetected`), and there is no reset without its cause (`ResetJustified`). `WatchdogInv` is the inductive invariant of the proof. |
| `net_reconnects` | the code's times and limits; an attempt fails after a second or after 15 s; one kick at a time may be overwritten | The watchdog never resets the device for reconnecting (`NeverBitten`), reconnecting ends (`ReconnectsOrResets`), and the gateway is pinged once a minute, never more often, once the link has been up for 110 s (`PingEveryMinute`). |
| `https_time` | count 3, period 60 s; waits that go on for a second, half a minute or a minute, up to 6 minutes; one kick at a time may be overwritten | The device is not reset for a name resolution and connection that take less than 165 s, or 150 s when a kick was overwritten (`ResetMeansLongWait`), and always for more than 240 s (`LongWaitMeansReset`); a task that has ended is brought back (`EndMeansReset`). |
| `ping_replies` | 4 sequence numbers | `PING_OK` means that the last ping was answered (`OkMeansAnswered`), unless `ping_recv` was at a reply to the ping before while `ping_gateway` ran; `PING_TIMEOUT` means that it was not, or is just being, or that `ping_init` was called, but that only once (`TimeoutMeansUnanswered`). |

Why the bounds are enough. The ring's behaviour depends on where the two indices
are and how far apart; a stream of 11 bytes takes both twice around a ring of 5
with every cut into chunks, and the proofs cover every size. Two connections are
one old and one new, which is what a stale pointer needs; `session_late` lets
the mailbox fill. The mailbox is blocking, so a smaller one only delays. Watchdog
counts and times are the code's, and proved for every value; the waits of a second in
`net_reconnects` make reconnecting take just a minute a time, so that kick after kick
may fall into a look. `https_time` goes on
for two periods after the latest reset, and its waits end on, before and after the
watchdog's looks. Four sequence numbers leave a reply two pings late distinct
from the current one.

## 4. Runs that find a violation

Each checks one statement of the repository that the code does not keep; the
quotations are under "findings" in `PROJECT.json`.

| Run | Statement | What happens |
|---|---|---|
| `rx_at_size` | the indices are "safe enough for concurrent read and write" (`rx_circular_buffer.c:15`) | A response of the ring's size fills it: between `is_full = 1` and `write_idx = w_idx` a read sees a full ring that is not. |
| `rx_no_space` | `ERR_BUF if insufficient space` (`rx_circular_buffer.h:21`) | The room test is made on the used bytes, so a second chunk as long as what is in the ring is always let in. |
| `rx_queue_full` | repeat "until the end of time" (`README.md:220`) | `HTTPS_RX_DONE` finds the queue full and is lost; nothing else will wake the task. |
| `session_abort_freed` | "Abort the active TLS connection" (`pico_tls.h:121`) | The connection breaks, lwIP frees it and says so, and the task has the freed connection aborted. |
| `ping_pcb` | no "freeing/changing a PCB while the core is processing it" (`pico_rtos_https.c:463-472`) | The link is lost and comes back; `check_net_task` removes the ping's PCB while the TCP/IP thread is calling `ping_recv` for it. Any ICMP packet will do. |

The ring is 16 KB: responses below that size do not meet the first two.

Other things seen in the code, that no run states as a property:

- A chunk of exactly `CIRC_BUFF_SZ` bytes is refused for ever (`rx_circular_buffer.c:80`),
  though `pico_tls.c:48-51` means to exclude that: it lets it through.
- The warning at `pico_rtos_https.c:546` is printed whenever two chunks are in the
  ring when the first is handled; no byte is lost then (`NoStrandedByte`).
- `connect_to_wifi` makes four attempts and takes up to 64 s, where line 274 says
  45 s; `NeverBitten` shows that the watchdog bears it.
- A kick between the watchdog's load and store is lost (line 345 means to exclude
  it); `ResetJustified` counts such a kick as not made, and `SilenceDetected`
  holds all the same. `blink_task` kicks with 1, so it has one check fewer. While it
  reconnects, `check_net_task` bears one overwritten kick, not two in a row: with
  `LostKicks = 2` TLC finds it reset in the middle of an attempt (three calls of
  `connect_to_wifi` of a minute each, the kicks between them overwritten).
- An answer of 0.0.0.0 keeps `resolve_hostname` polling for ever (`pico_tls.c:251`), and a
  peer that falls silent keeps the task in `xQueueReceive` (`pico_rtos_https.c:521`, no
  timeout, and no keepalive on the connection): `SessionsRepeat` names both, and
  `LongWaitMeansReset` has the watchdog end them.
- A failed `altcp_close` is not repeated (`pico_tls.c:33`): a fault of `HttpsSession`, left
  out of the run whose properties it breaks.
- The first ping goes out 110 s after boot, and up to 110 s after a reconnect, although
  `README.md:215` says every minute: the first call of `ping_gateway` for a gateway only
  initialises (`pico_rtos_https.c:232-242`). The call after it reports `PING_TIMEOUT`,
  "the previous ping result" (line 217) of a ping that nobody sent: `ping_init` leaves the
  result at 0.
- A late reply that is handled between clearing the result (`ping.c:227`) and the
  new sequence number (line 122), or is being handled then, makes the new ping a
  success. `OkMeansAnswered` excepts this case and no other.
- `altcp_recv_cb` frees a chunk that comes with an error and returns that error
  (`pico_tls.c:38-43`), which asks lwIP to offer the chunk again; lwIP's TLS layer
  reports no such error.
- Without Wi-Fi at boot the device stays idle, with no watchdog (`BootFailed`).

## 5. Fairness

- `RxPath`: the TCP/IP thread's steps, the task's steps and lwIP's retry of refused
  data are weakly fair. The peer need not do anything: not answer, not send, not close.
- `HttpsSession`: the task, the scheduled functions, the second half of a close, and the
  end of a DNS query (lwIP's resolver has its own timeout). The peer need do nothing, and
  a failure is never obliged to happen.
- `Watchdog`: only `watchdog_task`; it has a low priority, but the other tasks block
  most of the time and there are two cores. The monitored tasks have none.
- `CheckNet`: time passes. An attempt to connect ends by its timeout.
- `HttpsTime`: time passes, and delays end. Nothing says that a connection does.

No run relies on strong fairness.

## 6. Proofs

`RxCircularBufferProofs` (for every ring size, chunk sizes, read sizes):

- `TypeCorrect`, without further assumption.
- `RingCorrect`, `InOrder`, `Unread`, `RestingCount`, `RingIsFifo`: under
  `ShortResponses`, a response is smaller than the ring. The runs `rx_at_size` and
  `rx_no_space` show that the assumption is needed: the room test of `circ_buff_write`
  compares the wrong quantities, and with `ShortResponses` space never runs out.

The inductive invariant is `RingInv`: the two indices are as far apart as there
are bytes in the ring and `is_full` is never set (`CountInv`); the cells from
`read_idx` on hold the next bytes (`ContentInv`); the writer's stale copy of
`read_idx` is at most a response behind, so what it copies ends short of it
(`WriterInv`); a read under way stays within what was there when it began
(`ReaderInv`). None of the properties is inductive alone: `DeliveredInOrder`
needs the contents, the contents need that the writer writes elsewhere, and
that needs the age of its copy. The modulus is put in linear form (`Plus`,
`Dist`) by lemmas, for the sake of the arithmetic prover. `RingIsFifo` maps
`WritePublish` to `Put`, `ReadCopy` to `Get` and all else to stuttering.

`RxPathProofs` (the same ring between its callers):

- `PathTypeCorrect`, without further assumption, events lost or not.
- `PathCorrect`, `PathUsesRing`, `NoByteStranded`: under `ShortResponses`, for behaviours in
  which a post always finds room (`PathSpec /\ []QueueHasRoom`).
- `QueueSuffices`, `PathIsFifo`, `RestAccepts`: from the constants alone, when a response is
  also shorter than `m` bytes for each place in the queue but `MaxAcks + 1`, `m` being the
  least length of a chunk (`FewChunks`): with one acknowledgement the code's 16 places bear
  13 chunks, `HTTPS_CONNECTED`, `HTTPS_SENT` and the event that ends the connection.
  The run `rx_queue_full` shows what is lost without it.

The invariant `PathInv` adds to `RingInv` that the queued
events cut the stream without a gap, from where the task is to what has been
stored (`AnnounceInv`), that nothing follows the event that ends a connection
(`EndInv`), and that a read that finds nothing finds that earlier reads have taken
what its event announced (`DrainInv`). From these it follows that the ring is
empty when a connection is over, which is what `RingSpec` needs, and when the task has
no event to come, which is why nothing is refused then. That the queue has room is no
invariant by itself: `ChunkInv` counts at least `m` bytes of the current response
for every event in it but those that `stage` counts, a chunk that is refused and offered
again counting once; and
that the queue holds events of no other response is part of `PathInv`, so the two
are proved together.

`HttpsSessionProofs` (any number of connections, any queue and mailbox, any
`Faults` unless said): `SessionTypeCorrect`, and

- `SessionAbortsOnce` and `SessionLateAborts`, with no assumption on failures or
  lateness. For the second: the mailbox holds the functions of earlier rounds
  before those of the current one, and when this round has a connection none of
  the earlier ones is left.
- `SessionOwns` and `SessionIsRounds` under `Punctual`: the TCP/IP thread keeps within
  the 500 ms, and neither `tcpip_callback` nor `altcp_close` fails. The invariant says
  what is in the mailbox at each place of the task (`PlaceInv`) and that a
  connection that is open or being closed holds the task back (`LiveInv`).
- `SessionIsTold` under `Punctual`, for behaviours in which the event that ends a
  connection finds a place (`[]RoomToTell`): the task is at "wait" only with a function,
  a connection or an ending event to come (`ToldInv`). `SessionNeverAlone` has the same
  from the constants: `RoomInv` counts one event for every callback of the connection
  until one ends it, so a queue of `MaxTraffic + 2` is enough. The code's queue of
  16 bears 14 data and sent callbacks that the task has not got round to.
- `OnlyFreedAbortHalts` under `Punctual`, whatever else fails or breaks: no callback and no
  scheduled function posts to a queue that is null, being deleted or deleted, so that the
  TCP/IP thread is stopped by nothing but the abort of a connection that lwIP has freed,
  which is the finding of `session_abort_freed`.

`WatchdogProofs` (for every `MAX_WATCHDOG_MISS_COUNT`, with and without the memory
monitor): `WatchdogCorrect`, `NoFalseAlarm`, `NoMissedAlarm`. The invariant says what
each flag holds: the kick value or zero if its task has been heard, else one more
than its misses, from the kick value up; in the flag being handled, the same of the
watchdog's copy (`FlagInv`). A decision belongs to the round that found its cause
(`DecisionInv`).

`WatchdogTimerProofs` has the lemmas about the watchdog in time (`TimerInv`: a flag of
n means at least n - 1 periods of silence and what the clock shows), for every count,
every period of at least 16 s and any number of overwritten kicks. On them rest

- `HttpsTimeProofs`: `ShortWaitsAreSafe` and `LongWaitsAreFound`. The silence is the
  time waited plus at most 15 s, and as much again for each overwritten kick
  (`SilenceInv`); the flag has been counted up as often as there were periods in it
  (`CountedInv`).
- `CheckNetProofs`: `NetNeverBitten` under `Patient` (count times period is more than
  74 s, and 74 s more for each of the `LostKicks`; the code's 180 s are enough for one),
  whatever times the attempts take up to their timeout: `NetSilenceInv` bounds the
  silence at each place of the task. And `NetPings`, by
  what `ping_timer` says of the time since the last ping and of the time the link has been
  up: the two may disagree only while the link has not been up for two rounds of the timer
  (`PingInv`).

`PingProofs`: `PingTypeCorrect`, `OkIsAnswered` and `TimeoutIsUnanswered`, for every number
of sequence numbers; `ResultInv` says when the result and the answer go together, and that
a timeout on account of `ping_init` does not follow another. And
`PcbKeptUntilLinkLost`: `PcbKeptInUse`, which the run `ping_pcb` violates, holds in every
behaviour in which the link is not found down; it is the second `ping_init` that races.

Assumed of the program's surroundings, besides the constants' types: `ShortResponses`
and `FewChunks` (a response below 16 KB, in at most 13 chunks, for which the code does
nothing), `Punctual` (500 ms are enough for the TCP/IP thread, and
`tcpip_callback` and `altcp_close` have memory), `RoomForConnection`, `Patient`. Each
theorem says which it needs, and a run or a mutant shows what happens without it.

Only model-checked: all liveness (`HangResets`, `SessionsRepeat`, `EveryChunkAccepted`,
`NextConnectionFollows`, `ReconnectsOrResets`, `EndMeansReset`), which TLAPS cannot do.
Every invariant and every action property of a passing run is a theorem.

## 7. Plan

Done: every part of the program that runs, each with the proof of its safety
properties: the ring, the receive path, the session and its abstract rounds, the
watchdog step by step and in time, the HTTPS task in time, the network check, the
ping.

Left:

1. `SessionOwnsConnection` with the weakest condition on the TCP/IP thread: which of
   its functions must be done after which of the task's delays.
2. The receive path inside the session. Each half is modelled, in a module of its own,
   and each half has its condition for a queue that is long enough (`FewChunks`,
   `RoomForConnection`); the two are not tied to each other.
3. `ResetMeansLongWait` has one bound for every round; only a failed resolution
   takes the 15 s in it.
4. How long reconnecting takes: at most 21 times 74 s from the arithmetic of
   `NetSilenceInv`, but a history of that length makes `CheckNet` too large for TLC, so
   `ReconnectsOrResets` says only that it ends.
5. That `WatchdogTimer`'s look in one step is `Watchdog`'s in two, as a refinement.

## 8. Not modelled

- What the memory monitor and `print_circ_buff_info` print (debug builds).
- `tcpip_tls_close` (never called), `altcp_poll_cb` (never registered), and the repeating
  mode of `ping.c` (off by `PING_SINGLE_SHOT`).
- The contents of responses, certificates and packets; `connection_state.error`, which
  is only printed.
- The insides of lwIP, mbedTLS, FreeRTOS and the Wi-Fi driver, among them what
  calling `dns_gethostbyname`, `raw_new`, `raw_sendto` and `sys_timeout` off the TCP/IP
  thread does to their lists.
- Compiler and memory order beyond that of single volatile accesses.
- FreeRTOS hooks and the assertion handler, which stop the device; the build and
  header scripts.

## 9. Running

In this directory, `tlc -config RxPathBelowSize.cfg RxPath.tla` for a run (module and
configuration of each are in `PROJECT.json`), `tlapm RxCircularBufferProofs.tla` for
the proofs. Every run ends within a minute.
