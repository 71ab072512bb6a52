# reolink_aio in TLA+

`reolink_aio` is a Python client for Reolink cameras, hubs and NVRs. It speaks two
protocols to a device: the HTTP API (`src/reolink_aio/api.py`) and the binary
*Baichuan* protocol over TCP or UDP (`src/reolink_aio/baichuan/`). Everything runs as
coroutines and callbacks of one asyncio event loop: nothing is parallel, and everything
between two `await`s is atomic, but what a coroutine read before an `await` may be stale
after it. That, and a network that loses, repeats and reorders datagrams, is what these
modules are about.

## 1. The system

| component | source | state | operations | who it talks to |
|---|---|---|---|---|
| UDP transport, sending | `baichuan/udp_protocol.py` (`BaichuanUdpConnection`) | `_send_id`, `_send_queue`, `_send_packets` with their resends and timers, `host_id` | `_construct_udp_header`, `send`, `_write`, `_send_next`, `_send_packet`, `_timeout_send_ack`, `received_ack`, `close`, `drop_connection` | camera; the futures of the BC connection |
| UDP transport, receiving | same (`BaichuanUdpClientProtocol`) | `client_id`, `host_id`, `_recv_seq_id`, `_seq_data` | `datagram_received`, `parse_udp_bc`, `parse_udp_ack`, `send_ack` | camera; `bc_data_received` |
| UDP handshake | same | `trans_id`, the future of the discovery, resend of C2D messages | `connect`, `_send`, `parse_udp_disc` | camera; both halves of the transport |
| BC connection | `baichuan/base_protocol.py`, `tcp_protocol.py` | `_transport`, `_protocol`, `_mutex`; per protocol object `receive_futures` and `close_future` | `connect`, `send`, `send_without_wait`, `close`, `connection_lost`, `_set_error` | commands above, transport below, close callback |
| BC framing | `base_protocol.py` | `_data`, `_data_chunk` | `bc_data_received`, `parse_bc_data` | futures, push callback |
| choice of the transport | `baichuan/baichuan.py` | `_connection`, `connection_type` | `_connect_if_needed`, `_connect_find_type` (races TCP and UDP) | two BC connections |
| Baichuan session | `baichuan.py` | `_login_mutex`, `_logged_in`, keys, `_subscribed`, `_events_active`, keepalive and battery tasks, time of the last loss | `login`, `logout`, `_close_callback`, `subscribe_events`, `check_subscribe_events`, `_keepalive_loop`, `_battery_close_loop` | BC connection, HTTP API |
| payload streams | `baichuan.py` | `_payload_lock`, `_payload_queue`, `_mess_id` | `send_payload_stream`, `_stop_payload_stream`, `_push_callback` | BC connection, media decoder |
| push state | `baichuan.py` | some 40 dictionaries by channel, `_ext_callback` | `_parse_xml`, `_parse_event` | push callback, user callbacks |
| commands and settings | `baichuan.py`, `xmls.py` | the same dictionaries | some 150 `get_*` / `set_*` | session |
| HTTP session | `api.py` | token, lease, `_login_mutex`, `_send_mutex` | `login`, `logout`, `expire_session`, `send_reolink_com` | device |
| HTTP batching | `api.py` | none of its own | `send`, `send_chunk`, `_parse_json`, Baichuan alternatives | HTTP session, Baichuan commands |
| capabilities and states | `api.py` | dictionaries by channel | `get_host_data`, `get_states`, `map_*_json_response` | HTTP batching |
| ONVIF subscription | `api.py`, `templates.py` | manager URL, termination time, time offset, `_long_poll_mutex` | `subscribe`, `renew`, `pull_point_request`, `unsubscribe` | device |
| firmware | `api.py`, `software_version.py` | `_updating`, progress, latest version | `check_new_firmware`, `update_firmware` | HTTP and Baichuan |
| webhook server, media decoder, VOD search, encryption | `webhook_server.py`, `media_decoder.py`, `api.py`, `util.py` | little | pure functions on bytes, thin wrappers of libraries | |

What is hard in them, and what makes them correct:

* **UDP, receiving.** Loss, repetition and reordering; a handshake that is restarted on a
  socket left open. *Correct:* the parser above sees a gapless prefix of what the camera
  sent; an ACK never releases a packet that is not held; a packet resent long enough is
  processed.
* **UDP, sending.** A window of packets filled from three sides (write, ACK, timer), numbers
  taken before a call may have to wait, and calls that must fail when one of their packets is
  given up. *Correct:* the window is bounded, the queue never stalls, every packet in the
  window has its own timer armed, no timer outlives its packet, and nobody waits for what the camera cannot get.
* **BC connection.** Many tasks connect, write and close at once; the connection may be lost
  between any two awaits. *Correct:* one open connection, no call left behind on a lost one,
  and nobody waits for ever for those that are failing.
* **Session.** The close callback, re-subscription and logout cross with the answer to a
  login. *Correct:* logged in only on the connection the login was made on; events come back
  after a loss; keys belong to the connection they are used on.
* **Payload streams.** A retry with the same message id. *Correct:* a stream yields chunks of
  its own attempt only, and the lock is released when it ends, however it ends.
* **HTTP session.** The lease runs out while requests queue at a mutex; logout while others
  send. *Correct:* a first attempt is refused only if the lease of its token ended after it was
  taken (which the code does not prevent), sessions do not pile up on the camera, and everybody gets
  through the two mutexes.
* **Batching.** Responses are matched by position. *Correct:* each response is given to the
  request it answers, also when some requests were filtered or answered over Baichuan.
* **ONVIF.** Renewal against expiry, one shared header dictionary. *Correct:* at most one
  live subscription per kind is known; the next request carries its own action.
* **Firmware.** *Correct:* the updating flag is cleared on every way out.

`PROJECT.json` lists the places where each of these could go wrong ("hazards"), with the
source line and the properties that watch it.

## 2. Plan

Most important first; a later module composes or refines what came before.

1. `OrderedStream`, `UdpReceive` - done, with proofs and refinement.
2. `UdpSend` - done, with proofs.
3. `BcConnection` - done, with proofs of its safety properties.
4. `HttpSession`: token, lease, mutexes, ports, logout and retry - done.
5. `HttpBatch`: one call of `send`, from its chunks to the merged answers - done.
6. `BcSession`: login, logout, close callback, keepalive, re-subscription, webhook and battery
   loop as tasks over a connection that is up or down - done.
7. `Setters`, `Settings`: the setters as rows of a table, run against the HTTP exchange, its
   Baichuan alternative and the polls - done.
8. Proofs about the modules of steps 4 to 7, which declare no RECURSIVE operator: all safety
   properties of `HttpSession`, `BcSession`, `Settings` and `HttpBatch` - done.

Abstract specifications worth stating: the ordered stream (done). `BcSession` rests on what
`BcConnection` shows: a connection is open or not, there is one, and losing it fails every
call that waits on it.

Runs stay below five minutes each; each pair of run and property has a mutant of the code
that breaks it.

## 3. The modules

### `OrderedStream` and `UdpReceive`

`OrderedStream` is the promise of the transport: chunks come out once, in order, none left
out, until the connection is reset. `UdpReceive` is the code. One step of it is one datagram
with everything it sets off, as `datagram_received` runs to completion.

| code | model |
|---|---|
| `_protocol.client_id`, `host_id` | `clientId` (0 for none), `hostKnown` |
| `_recv_seq_id`, `_seq_data` | `recvSeq`, `seqData` (sequence number to client id in the stored header) |
| `bc_data_received` | appended to the history `delivered` |
| `parse_udp_bc`, its branches | `IgnoreForeign`, `IgnoreOld`, `Store`, `Deliver` |
| `send_ack` | `SendAck`, `Payload` (the truth table as a set) |
| `connect` on a new or an open socket, `connection_lost` | `Connect`, `Rekey`, `Established`, `ConnectionLost` |

The recursion of `parse_udp_bc` through stored packets is unrolled: `Deliver` picks the last
packet `n` such that all stored ones up to it are accepted and the next is not (`Drains`),
removes what the code pops (`Popped`, which includes one packet of another client id that is
popped and dropped) and sends the ACKs the recursion sends on the way.

The network is `Arrives`: any packet the camera ever sent may arrive at any time and any
number of times, so loss, repetition, delay and reordering need no actions of their own. The
camera is external: it numbers packets from 0, keeps one until it is acknowledged and
repeats it (`CameraSend`, `CameraAck`, `Resend`). Client ids are drawn at random in the code;
here they do not repeat.

### `UdpSend`

| code | model |
|---|---|
| `_send_id` | `nextSeq` |
| `_send_queue`, `_send_packets` | `queue`, `window` (sequence number to owner, epoch of its header, resends) |
| timers of `call_later` | `timers`; `stray` for one whose packet was replaced under the same number |
| `_transport`, `_protocol`, `host_id` | `conn`, `hostId`, `epoch` |
| a call of `send`, its future | `st`, `reg` (the connection whose `receive_futures` has it), `base` (numbers and epoch its header took), `twin` |
| `_construct_udp_header`, `send`, `_write` | `Send`, `Hold`, `WriteHeld`, `WriteHeldLost`, `HeldTimeout` |
| `_send_next`, `_send_packet` | `SendNext`, used by every action that may send |
| `received_ack` | `ReceivedAck`; the camera's ACK is any truthful one (`CameraAck`) |
| `_timeout_send_ack` | `Timeout`, `StrayTimeout`: `Resend` or `GiveUp` |
| `close`, `drop_connection`, `connection_lost` | `Close`, `CameraDisconnect`, `FailAndDrop`, `ConnectionLost`, `Closed` |

The header is constructed, and takes its sequence numbers, *before* `send()` may have to wait
for a call with the same `cmd_id` and message id (its *twin*). The model keeps that order: a
call that waits is `held`, and writes with what it took, perhaps into another connection. If
the future it waits on is cancelled, it fails with it.

### `BcConnection`

`connect`, `send` and `close` of the base class with the TCP transport, as concurrent tasks.

| code | model |
|---|---|
| `_transport`, `_protocol` | `current`, an index into the connections made; `tr` is the state of each transport |
| `_mutex` | `lock`: its holder, then those that wait, in order of arrival as `asyncio.Lock` grants it |
| `receive_futures`, a future | `reg`, `fut`; `waits` is the call whose future a call waits on |
| `close_future` | `closeFut` |
| `connect` | `CallOpen`, `CallDrain`, `CallConnect`, `Drained`, `DrainTimeout`, `LockedOpen`, `Locked`, `Created`, `ConnectFails` |
| `send` | `StartSend`, `Issue`, `TwinDone`, `TwinTimeout`, `TwinCancelled`, `WriteFound`, `WriteLost`, `Resume`, `WaitEnds`, `WriteEnds`, `Unregister` (the `finally`) |
| cancellation of the caller | `CancelConnect`, `CancelTwin`, and within `ConnectFails`, `WaitEnds`, `WriteEnds`, which a timeout takes as well |
| `parse_bc_data`, `_set_error`, `connection_lost` | `Answer`, `Garbage`, `GarbageRaises`, `connection_lost` |
| `close` | `CloseLost`, `StartClose`, `EndClose`, `CloseTimeout` |

One step runs from an `await` that suspends to the next; taking a free mutex does not
suspend, so it ends no step. asyncio details the model relies on, each checked in an
experiment: cancelling a task, or a timeout, cancels the bare future it awaits, which is then
cancelled for everybody; a twin that awaits it gets a `CancelledError`, which
`except Exception` does not catch; a lock is granted in order of arrival.

A transport that has nothing left to write reports its end within two turns of the event
loop, sooner than a new connection can be opened; `Lingers` names the connections whose
transport may have data left when they are closed, for which that does not hold.

Left out: `time_send`, `time_recv`, `nonce`, `account_device`, the close callback (in
`BcSession`), and two `close()` at once.

### `BcSession`

The tasks of `baichuan.py` over one connection: tasks that send a command, the user's calls one
after the other, the keepalive loop, the re-subscription after a loss and the loop that closes
the connection of a battery camera. Which of them has `_login_mutex` and who waits for it is
`mutex`, in order of arrival.

| code | model |
|---|---|
| `_logged_in`, `_last_login` (less than 15 s ago), `_subscribed`, `_webhook_subscribed`, `_events_active` | `logged_in`, `recent`, `subscribed`, `webhook`, `events_active` |
| `_time_reestablish` (less than 60 s ago), `_battery_close_task` | `kicked`, `loop` |
| `send` with its retries | `Send`, `Connect`, `ConnectFails`, `Reply`, `Fails`, `Done`, `Again` |
| `login`, `_get_nonce` | `Granted`, `LogIn`, `NonceOk`, `LoginAgain`, `LoginOk`, `LoginFailed`, `LoginDenied` |
| `_close_callback`, `_reestablish_connection` | `Lose`, part of whatever step ends the connection; `Reestablish` |
| `_keepalive_loop`, `subscribe_events`, `check_subscribe_events`, `unsubscribe_events` | `Wake`, `Subscribe`, `Subscribed`, `CheckRestarts`, `Unsubscribe`, `Unsubscribed` |
| `_subscribe_webhook`, `_unsubscribe_webhook`, `webhook_push_callback` | `WebhookChecked`, `WebhookOff`, `WebhookEvent` |
| `_battery_close_loop`, `logout`, `_logout_no_mutex` | `LoopBreaks`, `LogoutCall`, `LogoutGranted`, `Drained`, `Close`, `Clear` |

The camera is external: it gives a nonce, accepts a login only with the nonce of that connection,
ends a connection on which another command comes before a login, and pushes events once
subscribed. A command without an answer had no effect. `Settled` says that asyncio
runs what is ready before a new connection is made or seconds pass.

### `HttpSession`

| code | model |
|---|---|
| `_token`, `_lease_time`, `_port` and `_use_https`, `_aiohttp_session.closed` | `token`, `lease`, `port`, `closed` |
| `_login_mutex`, `_send_mutex` | `mutex`, `wire`: queues in order of arrival |
| `_login_try_ports`, `_login_open_port` | `Start`, `Probe`, `Attempt`, `NextPort`, `LoginFailed` |
| `login`, `logout`, `_logout_http` | `LogIn`, `Leave`, `Granted`, `Exchange`, `LoggedOut`, `LogoutEnds`, `LoginOk`, `LoginEscapes` |
| `send_chunk`: the post | `Queue`, `Turn`, `Serve`, `Lost`, `Failed`, `NoServer`, `Closed`, `TurnTimeout` |
| `send_chunk`: what follows | `CmdOk`, `Again`, `ExpireAgain`, `CmdRaised` |
| the lease comes within 300 s of its end | `LeaseOver`, between any two awaits |
| `expire_session` | `Expire`, `CutOff`: it closes the aiohttp session, which cuts off the answers other tasks are reading |

The camera keeps `sessions`, may restart and forget them, listens on one port, and may refuse
logins until its RTMP port is opened. The first login of a host runs alone (`Start`): see the
observations below. The ONVIF unsubscribe inside `expire_session` is left out.

`lease` is what both checks of `login` compare: `_lease_time` more than 300 s from now. The camera
accepts the token for those 300 s more, so running out of lease (`LeaseOver`) changes nothing there
until another task logs out; that a single request takes longer than the 300 s is left out (the camera
would then refuse it, as after a `Restart`). `overtaken` remembers which
senders have had the lease of their token end, by time or by `expire_session`, while they were sending with it.

### `HttpBatch`

One call of `send`. `stack` holds the nested calls of `send_chunk` with what each waits for, as the
Python stack does; `ret` is what the last one returned or raised. `Enter` takes out what goes
over Baichuan and what is known to be broken; `Mismatch`, `Matched`, `Garbled`, `Undecodable`,
`Refused` and `Unanswered` are the answers; `Separate` and `Apart` send the commands one by one,
`Again` sends rejected ones once more, `Inserted` puts the answers of the filtered ones back. Other
tasks may meanwhile learn that a command is broken or known to Baichuan (`OtherTask`). Assumed of the camera: to a
single command it gives exactly one answer.

`re_insert_filtered` calls `list.insert` for one index after the other. `Inserted` says what comes of
that at once: the placeholder with the k-th index is put there, or behind the first n + k - 1 items
if the list is not that long yet, and the n answers fill the other places in order. It is a form that can be
proved about, which a fold over a sequence is not; `InsertedAsListInsert` in `MCHttpBatch` has TLC compare the two
for up to four answers and every set of indexes up to 5. The depth of `stack` in `TypeOK` is exact: the frame of `send`,
one `send_chunk` for each attempt, and one for a command sent separately, which may use up its
attempts but cannot be divided again.

### `Setters` and `Settings`

Some eighty setters differ in a few ways: what they read first, whether they check arguments before
or after they write to the cached document, whether the body is the cached document or one of
their own, what they send and what they read afterwards. `Setters` is that table, a row for each
function, with the handlers of `baichuan.py` that serve the same commands; `Settings` runs a row:

| code | model |
|---|---|
| `_<section>_settings[channel]` | `cache`, of one document at a time; `device` is the camera's |
| the setter up to its request | `Begin`, `GetAnswered`, `GetSkipped`, `GetLost`, `Got`, `Compose` |
| `send_setting` over HTTP | `Posts`, `PostServed`, `PostAnswerLost`, `PostLost`, `PostRejected`, `Posted` |
| `send_chunk`, `_parse_json`, `_baichuan_alternative` and the handlers | `PostByBaichuan`, `BcFirst`, `BcRead`, `BcRefused`, `BcWrite`, `BcLast`, `BcFailed`, `BcAnswerLost` |
| the read afterwards | `RefreshAnswered`, `RefreshSkipped`, `Refreshed` |
| `get_states`, another client | `Poll`, `PollMapped`, `AppChanges` |

A value is who asked for it. Whether an answer is written into the cached dict in place or
replaces it decides what a call that holds that dict sends (`Remapped`): an answer over HTTP updates the
documents of `UpdatedInPlace` and replaces the others, an answer over Baichuan updates all of them. A Get
command is answered over HTTP or over Baichuan (`Routes`): on a host with HTTP it may have fallen back for this
once, or for good, whatever the Set command does; nothing comes of it for documents in `HttpOnly`, whose cached dict
nothing read over Baichuan is mapped into. Over HTTP the body is serialised when the request is
posted (`Content`).

The handlers over Baichuan read the XML, change the elements they find and send it back. `lacks` are fields without an
element, which most handlers pass over without a word (`skips` in the row, `Handles` in the model), so that the setter
returns without having had the field stored. `first` and `last` are fields that have a command of their
own before and after that (`SetIsp` reads and writes the day/night threshold with 296 and 297 after it has written
the rest, so that it may fail between the two).

`rewritten` remembers, for a call that holds the cached dict, which fields of it an answer for somebody else's read has
changed since. That is where the code gives no guarantee: between `set_recording` putting its value into the dict
and the post stand the mutex and, over Baichuan, the read of the handler, and a poll that was answered
before may be mapped meanwhile, so that the old value is posted and the setter returns. The properties except
these fields by name, and only for the call whose dict it was.

Taken as one step: the turns of the event loop between the mapping of an answer over Baichuan and its use by the
call that asked; the reads and the write of the threshold; one message for each port. The retries within `Baichuan.send` are
those of `BcSession`; here a command of a handler is answered, fails, or is stored without an answer.

## 4. Runs

| run | instance | properties | states |
|---|---|---|---|
| `udp_receive` | 4 packets, 2 client ids, 1 restarted handshake | `TypeOK`, `StoredAhead`, `InOrder`, `ReleasedIsHeld`, `ImplementsStream`, `EventuallyDelivered` | all arrivals in any order |
| `udp_rekey_received` | 3 packets, same | `IgnoredWasReceived` violated | |
| `udp_send` | calls of 2, 2 and 1 packets, window 2, 1 resend, truth tables of up to 2 entries, 2 connections | `TypeOK`, `WindowBound`, `NoStall`, `FailDirectly`, `NoneBehindGap` | 104 thousand |
| `udp_send_twins` | two twins that may be cancelled and a call of 2 packets, same bounds | `Guarded`, `Settles` | 108 thousand |
| `udp_send_heartbeat` | the first call is a heartbeat reply, 1 connection | `NoneBehindGap` violated | |
| `bc_connection` | 3 calls, two of them twins, one may be cancelled; 3 connections, 1 `close()`; the last transport may linger | `TypeOK`, `OneConnection`, `NobodyLeft`, `DrainEnds` | 873 thousand |
| `bc_close_timeout` | same with every transport lingering | `ClosedIsForgotten` violated | |
| `bc_session` | 1 task that sends beside the user, the keepalive, the re-subscription and the battery loop; 2 calls of the user, 2 faults, 2 attempts | `TypeOK`, `EventsAreReal`, `OnlyFaultsRaise`, `Resubscribed`, `BatterySleeps` | 401 thousand |
| `http_session` | 2 tasks that send, 1 that logs out, 2 ports, 1 mishap: a fault or a lease that runs out; 3 attempts, 6 logins | `TypeOK`, `TokenKnown`, `SessionsAccounted`, `FirstTry`, `EveryCallEnds` | 962 thousand |
| `http_batch` | 4 commands of 2 kinds in chunks of 3 and 1, one of them for a channel that is offline, 3 attempts | `TypeOK`, `AlignedUnlessCut`, `Ends` | 337 thousand |
| `http_batch_cut` | same | `Aligned` violated | |
| `settings` | 1 call, of any setter but four, with up to 2 arguments and 1 missing element or 1 change by another client; or 2 calls of `set_audio` and `set_bit_rate`, or of `set_recording` and `set_post_recording_time`; 1 fault, 2 attempts | `TypeOK`, `Acknowledged`, `UnnamedKept`, `ReadYourWrites` | 1.99 million |

Why the bounds are enough. With 4 packets there is one to process, one missing, and two
stored beyond it with a truth table between them; two client ids give packets of an old
connection and one restart. Five packets against a window of 2 fill the window and the queue
at the same time with packets of all calls; one resend is both "again" and "given up"; two
connections are an old and a new one. Three BC connections are one that is lost, one that is
opened while a call still waits for the calls of the first to drain, and one too many: with
two, a call that comes back from that wait and opens a second connection beside an open one
does not show.

In `bc_session` two calls of the user are a subscription and its end, or a subscription and a
logout; two faults are a loss and something that goes wrong while it is repaired. In
`http_session` six logins are more than the tasks need, so that the bound refuses none that matters;
one fault, or one lease that runs out, suffices for tasks that end each other's sessions to use up their
attempts, and all three attempts (`const.py:4`) are given. A fault and a lease that runs out in one
behaviour are left to the proofs of the four safety properties, which hold for any number of both. In
`http_batch` a chunk of three commands has one that is taken out, one answered and one asked again; the
second chunk shows what is remembered between chunks.

In `settings` every row of the table runs alone, against a fault, polls, and another client or a missing element; left out are
`set_HDR`, `set_exposure`, `set_daynight` and `set_anti_flicker`, whose rows are that of `set_binning_mode` with
another field of the same document. Two calls (`Racing`) share a cached dict and ask for
different fields of it or for the same one: the one document is replaced by an answer over HTTP, so that a call goes on
with a dict that is no longer cached, the other is updated in place. Setters that send a body of their own meet
only in the document on the camera and in what the handlers over Baichuan read there; the theorems are about all pairs. A
fault is enough for the fallback to Baichuan, a lost answer or a second attempt. `MaxTogether` is 2: another client, and
missing elements, are beside one call only. Larger instances were run once, without an error: two calls of the pair
of `Enc` with a change by another client and a fault (9.9 million states), three calls of it without (20 million).

Deadlock is not checked: a behaviour may end, when all calls are made, the bounds on
connections are used up and nothing is on the network.

What the properties say:

* `StoredAhead`: between datagrams only packets beyond a missing one are stored. A loop of
  `parse_udp_bc` deletes from the dictionary it iterates over and is harmless only for this.
* `InOrder`, `ImplementsStream`: the parser gets the stream; the refinement maps the
  camera's count of packets sent and the history of those delivered.
* `ReleasedIsHeld`: an ACK never makes the camera forget a packet the client lacks.
* `EventuallyDelivered`: liveness of the same.
* `WindowBound`, `NoStall`, `Guarded`, `Settles`: the window is bounded, packets are queued
  only when it is full, every packet in it and no packet that left it has its own timer armed, and
  retransmission comes to rest. A packet that replaces another under its number leaves the timer of
  that one armed (`stray`): `Guarded` says that this
  happens only to numbers that a call took before it waited for its twin (it does happen, see section 5).
* `FailDirectly`, `NoneBehindGap`: when a packet is given up, the commands that lost a
  packet fail at once, and none waits behind the gap in the numbering.
* `OneConnection`: at most one transport is open and it is the current one.
* `NobodyLeft`: no call that is alone with its id waits on a lost connection.
* `DrainEnds`: the wait of `connect()` for the calls of the last connection ends without its
  timeout.
* `EventsAreReal`: `_events_active` of a mains-powered camera is true only while the connection is
  subscribed at the camera. The keepalive loop decides by it whether to subscribe again.
* `OnlyFaultsRaise`: a logout (also that of the battery loop) which crosses with a command costs it an
  attempt, never the command: it logs in again, and the 15 s between logins do not forbid it.
* `Resubscribed`: infinitely often a mains-powered camera is not subscribed or its events are active.
* `BatterySleeps`: infinitely often a battery camera is logged out.
* `TokenKnown`: the token of a running lease is one the camera knows. A task that took its token before
  may still post an older one.
* `FirstTry`: without a fault and a logout, a command that is not answered the first time is one whose
  lease ended after it took the token, and none is before a lease has run out by time. So tasks that
  find no lease together wait for one login, and no task replaces a token while its lease runs.
* `SessionsAccounted`: sessions that stay open on the camera are those of which an answer was lost.
* `EveryCallEnds`: nobody waits for ever at `_login_mutex` or `_send_mutex`, and calls that end each
  other's session run out of attempts.
* `AlignedUnlessCut`: the answers returned are those of the commands at the same index, if the camera gives a single
  command a single answer (`api.py:6437` counts the answers to several only).
* `Ends`: the retries, splits and repetitions end.
* `Acknowledged`: a setter that returns has had the camera store what was asked; except a field that Baichuan
  leaves out, one that another call was asked for too, and one that an answer for another task changed in the
  cached dict before it was sent (`rewritten`).
* `UnnamedKept`: what was not asked for is not set back to a value from before the call, for the setters that
  read first or send a part; with the same exception of `rewritten`, and with those values of other calls that sharing
  a dict brings along.
* `ReadYourWrites`: in the step in which the setter returns the cache shows the new value and not an older poll's. (A poll
  that is mapped afterwards may still bring the old one back.)

Fairness. `udp_receive`: a packet the camera still keeps arrives again and again (`Resend`
is weakly fair for each packet); cameras resend until acknowledged, and a network that loses
every copy promises nothing. `udp_send_twins`: an armed timer fires, as `call_later` does.
`bc_connection`: the event loop runs what is ready and the timeouts of connecting and of
waiting for a response fire; the timeout of the drain wait is left out on purpose.
`bc_session`: each task goes on (a command is answered or times out, a sleep ends), the 15 s
pass, and a camera that is subscribed has an event in the end; nothing makes the 60 s pass, a
camera be lost or a user call. `http_session` and `http_batch`: every await of a request is answered or times
out; nothing makes a lease run out. `settings` states safety only.

## 5. Findings

* `udp_protocol.py:123`: `connect()` on a socket left open by a failed handshake draws a new
  client id but keeps `_recv_seq_id` and `_seq_data`; the first packets of the new connection
  are ignored as "already received" while the ACK claims them (`udp_rekey_received`).
  Therefore `InOrder`, `ReleasedIsHeld` and the refinement are stated for `rekeys = 0`.
* `udp_protocol.py:210`: packets written by `send_without_wait` carry no command id. When
  only they are given up no command fails, nobody drops the connection, and later
  commands wait out their response timeout behind the gap (`udp_send_heartbeat`).
* `base_protocol.py:107`: the 5 s timeout in `close()` cancels `close_future` itself, so
  `connection_lost()` raises at its `set_result` and `close()` ends without forgetting transport
  and protocol (`bc_close_timeout`).

* `api.py:6453`: after a mismatch the broken commands are popped from `body` itself. When what is
  left times out (`ReolinkTimeoutError` is an `asyncio.TimeoutError`), the shortened body is sent again and its
  answers are returned alone, although the comment at 6427 promises to keep the caller's index
  mapping (`http_batch_cut`). Therefore `AlignedUnlessCut` is stated for the calls in which this does
  not happen (`cut`).

Modelled but not stated as a property, since nothing in the repository says what should
happen: a call that waits for its twin is cancelled when the twin times out, and cancels the twin
when it is cancelled itself; a header constructed before a wait may carry the numbers and host id of
the connection before. `FailDirectly` and `NoneBehindGap` do not hold with twins.

Observations met while modelling, each kept in the model as the code has it, or left out where it says so:

* Timers. A packet written under a number that is in the window replaces the packet
  there without cancelling its timer (`udp_protocol.py:195`). `_clear_send_buffer` ("Cancel all pending resends") no longer
  finds it: it outlives `close()` and resends or gives up a packet of the next connection (`stray`). It takes a header
  constructed on one connection and written into the next, after a wait for a twin.
* Session over Baichuan. A loss that arrives together with the answer to the login leaves
  `_logged_in` set on no connection; the next command is then sent without a login and the camera
  ends the connection (`Reply`). A re-subscription that is under way logs in again after a logout.
  For battery cameras the loop's logout resets `_last_login`, so that the protection against
  continued login attempts (`baichuan.py:1816`) does not act; a login that fails leaves their connection open, as a
  logout closes it only when logged in. `subscribe` that races `unsubscribe` may leave a keepalive
  loop without a subscription (one user here, so not in the model).
* HTTP session. A task takes the token and waits for its turn (`api.py:6140` to 6235); another finds less than 300 s
  of lease left (1338), logs out and in, and the first is refused. From there, or from one fault, two tasks can
  end each other's session in turn until one of them is out of attempts, as TLC shows with one lease that
  runs out and no fault. A timeout and the `RuntimeError` of a closed aiohttp session escape `login`
  (`LoginEscapes`). Two first logins at once: the second may set `_port` to one that does not
  listen while the token of the first is valid (left out: `Start`).
* Batches. Nested retries multiply the attempts. In the split after a global timeout any
  `ReolinkError` counts as a timeout and puts the command on the list of broken ones for all
  channels, which is never cleared.
* Settings. `set_ntp`, `set_time` and `set_osd` write earlier arguments into the cached document before
  they refuse a later one; another call or a later one then sends them. Setters that send the
  cached dict may send what a poll wrote into it meanwhile (`rewritten`): `set_recording` then returns, and has had the
  old value stored. `set_floodlight` writes before it
  refuses the colour temperature. The handlers over Baichuan pass over a field without an element in the XML, and ignore some fields of the HTTP body:
  `SetWhiteLed` the schedule, `SetMdAlarm` the enable flag, `SetIsp` the back light (a `set_backlight`
  that falls back to Baichuan returns without effect, and the next setter of the document over HTTP
  may carry its value) and everything when the body has no `antiFlicker`; `SetRecV20` refuses a body
  without channel. They read and write
  back without a lock, so two of them can lose an update. `set_spotlight(False)` always raises, for its
  schedule from 0:0 to 0:0. `webhook_add` takes the index from the cache: two at once take the same.
* Firmware. A refused second call of `update_firmware` clears `_updating` in its `finally`, so that a
  third is let in (the model has one update).

## 6. Proofs

All theorems hold for every value of the constants within the named assumptions (`Window`,
`MaxResends`, `N` and the like are natural numbers; the sets of calls are finite).

`UdpReceiveProofs`

* `TypeCorrect`, `NeverStale` (`[]StoredAhead`, inductive with the types).
* `DeliveredInOrder`: `InOrder` is inductive with the types; `rekeys = 0` is its premise.
* `NothingLostForGood`: needs `HeldInv`. That the camera released only held packets is not
  inductive: an ACK under way could claim more. The strengthening says that every ACK under way
  claims held packets only (`AcksTrue`) and that what is stored belongs to the current
  client id (`OwnStored`).
* `Refinement` (`Spec => ImplementsStream`): every step maps to a step of `OrderedStream` or a
  stutter, with `SentInv` (nothing is processed or stored that was not sent).

`UdpSendProofs`

* `TypeCorrect`; `WindowCorrect` from `WindowInv`, the conjunction of `WindowBound`, `NoStall`
  and `Armed` (the first half of `Guarded`) with the finiteness of the window, inductive as a whole:
  a timer that fires must find its packet, and an ACK that makes room must find the queue.
  `WindowIsBounded` and `QueueNeverStalls` follow.
* `TimersMatchWindow` (`[]Guarded`, with twins): `LateInv` adds that two packets in queue and window
  have one number, or a number not yet given out, only if a call took it before it waited
  (`Tidy`); so a packet is replaced under such a number only.
* `FailsDirectly`, for calls without twins (`DistinctKeys`): `NumberInv` keeps the numbers of calls
  apart, `OwnedInv` says that a packet carries a number of its owner, `KeptInv` that each packet
  of a waiting call was received, is in the window or is queued.
* `NobodyWaitsBehindGap`, when besides all calls wait for their response and none is cancelled
  (`AllWaited`; the heartbeat finding shows that this is needed): `GapInv` gives every number taken an owner.

`BcConnectionProofs`

* `TypeCorrect`, with the mutual exclusion of the mutex: who creates a connection is at its head.
* `NoConnectionLeaks` (`[]OneConnection`), if only the last transport may linger: `ConnInv` adds
  that a task creates a connection only while none is open, that `close()` waits for the current
  connection, which is no longer open, and that `close_future` is set only by the loss of its
  connection.
* `NobodyIsLeft` (`[]NobodyLeft`): `KeyInv` says a call waits on futures of its own key only, so no
  other call can remove the entry of a call that is alone; `AloneInv` that its future, while it
  pends, is registered with a connection that is not lost.

`DataLemmas`

* What the proofs about the two `_login_mutex`es share: `QueueOf(q, S)` says that the tasks of S
  are in queue q, each once, and the lemmas what a new waiter, a release and a cancelled waiter
  (wherever it is in the queue) make of it.

`BcSessionProofs`

* `EventsStayReal` (`[]EventsAreReal`): the invariant `IInv` adds to the property, for a
  mains-powered camera (`Mains`), that only the user logs out, and not while subscribed; that
  without a subscription no events are active; and that there is neither a webhook nor a battery
  loop. A logout, or a loss with the firmware being updated, would otherwise end the pushing behind
  the back of `_events_active`. `Tidy` says in which states a task has a logout to send.
* `TypeCorrect` and `OneAtATime` (no two tasks log in or out at the same time) from `QInv`: the queue
  of the mutex holds exactly the tasks that wait for it or are inside, and who is inside is its
  head. The keepalive is the hard case: it may be cancelled at any place of the queue and in the
  middle of its login. `OneRestart` (`_reestablish_connection` is not started while it runs) is
  needed for that it is not put in the queue a second time.
* `LogoutsCostNothing` (`[]OnlyFaultsRaise`) from `CalmInv`, which says what holds as long as nothing
  has failed: who is logged in is connected and known to the camera unless a logout has just been
  answered; only a logout forgets the login while the 15 s run, and it is still under way; a
  command waits for its answer only while logged in, and on its last attempt only while nobody logs
  out; a command that was cut off has an attempt left. The hypothesis is `RETRY_ATTEMPTS >= 2`
  (`const.py:4` has 3): with one attempt a logout does make commands of others raise, as TLC shows.

`HttpSessionProofs`

* `TokenStaysKnown` (`[]TokenKnown`): the token of a running lease is one the camera knows, unless
  the camera restarted or a task that logs out is under way. By itself it is not inductive: a login
  whose answer arrives late could bring a token back. `TaskInv` says, for each task, that who logs
  in or out is at the head of the mutex queue, that the lease does not run while its sender logs
  out, that there is no token while one logs in, and that a token that has arrived is one of
  the camera's.
* `TypeCorrect` and `SessionsAreAccounted` (`[]SessionsAccounted`) from `All`. `Queues`: the two mutex queues hold exactly the tasks that wait or are inside.
  `Accounted` counts the sessions beyond the current one and the one in a login's answer, but
  takes the current one as lost from the moment a Logout for it goes wrong, which is before the
  client forgets it: with `SessionsAccounted` itself the step that forgets it could not be proved.
  `LogoutTrue`: a Logout is for the current token, which the camera has forgotten once it is
  answered well.
* `FirstTrySuffices` needs two more invariants, for as long as nothing has failed and nobody logged out.
  `QuietInv`: before any lease has run out there is a token only with a lease, nobody sends a Logout, and
  the token of every command under way is the camera's; so no such command is refused. `LullInv`, with leases
  that run out: a sender that is not `overtaken` posts with the current token, whose lease runs
  (`Current`). What it rests on is `Steady`: a step of one task leaves a running lease, its token and the
  requests of the others alone, unless it ends the lease, and then all of these become `overtaken`.

`SettingsProofs`

* `AcknowledgedIsStored` (`Spec => Acknowledged`) and `OwnWritesAreRead` (`Spec => ReadYourWrites`),
  for any setters of the table racing on a document, not only the pairs of the run. The
  invariant `IInv` follows a call from its body to its answer: what was asked is in the body (`Mine`, also of a cached
  dict that others write to) or is `Excused`, that is, another call asked for the same field or an answer changed it in that
  dict; what each command of a handler carries is stored before the next one is sent (`Kept`); an answer seen is one
  the camera had since the call's write (`Noticed`). A call that moves leaves the others where they are (`Stays`): here
  it matters which answers replace the dict that a call holds (`RemappedMine`). What that needs of the table is
  `RowsAssumption`, which TLC evaluates: a handler with a first command also reads, a setter that sends by
  Baichuan has a handler, and none that reads first fills in its own body from the cache.
* `UnnamedIsKept` (`Spec => UnnamedKept`) and `TypeCorrect` from `Whole`, which adds to that invariant
  what the documents and bodies are (`Typed`) and where each value in them comes from (`Clean`): a
  field the call was not asked for, and no answer changed, is `Explained` by a value the camera has had since the call
  began, or by a call d that is `Live`, that is, d is excused for it, or has not had this field stored and will not return
  "ok" without it (or is served by a handler that leaves it out). That a step keeps all bodies explained rests
  on that d stops being live only by the step that puts its value on the camera.
  The proof showed that an earlier form of `UnnamedKept`, which held for two calls, fails for three:
  when d and e are asked for the same field, a third call whose body is a copy made between their two
  writes to the cached dict brings d's value back after d has returned "ok". The property now allows it for fields that
  two calls were asked for, where no order is promised.

`HttpBatchProofs`, for any batch, any `MAX_CHUNK_ITEMS` and any number of attempts

* `TypeCorrect` (`[]TypeOK`) from `TypeInv`. The bound on the depth is not inductive; what is
  (`FrameOK`) is that in each frame the depth, the attempts left, and one more if its body can
  still be divided (`Wide`) are together at most `RETRY_ATTEMPTS + 2`. A retry inside of the try
  takes one attempt and adds one frame; a split adds one frame and takes no attempt, but a single
  command is not `Wide`. `Stacked` says which frames wait and which
  one runs, `RetOK` that either the top frame runs or it waits and has something to take up.
* `AnswersAligned` (`[]AlignedUnlessCut`) from `AlignInv`, which follows the commands of the caller
  through the nested calls: `Expected(g)` are the commands whose answers frame g waits for, `CalledWith(f, o)`
  says that f has them all, but for those taken out, whose placeholders carry the right
  command at the right index; `Got(f)` that the answers f has collected belong to the commands it has
  already sent: of the chunks, of those sent one by one, of the first round when some are sent
  again. `RetMatches` says it of what is handed down. An exception carries the body of the frame that
  raised it, which is shorter if commands were taken out (`Shrunk`): that is what makes `cut` true when
  it is sent again, and why the property needs `cut`.
* On the way: `InOrderRises` (a finite set of integers can be sorted, so `InOrder` does choose what it says),
  `PlaceFact` (no two placeholders meet), `InsertedAligns` (for a body from which commands were
  taken out, inserting their placeholders restores the alignment), `ChunkFact` (the chunks cover the
  body without overlap).

TLC checked `TypeInv` (with finite types) and `AlignInv` on all states of the instance of
`http_batch` before they were proved.

Only model-checked: the liveness properties (`EventuallyDelivered`, `Settles`, `DrainEnds`,
`EveryCallEnds`, `Resubscribed`, `BatterySleeps`, `Ends`), since
fairness and ENABLED are out of the prover's reach; the violations; and that `Inserted` is what
calls of `list.insert` one after the other make, which is an induction over the indexes. No module declares a
RECURSIVE operator.

## 7. Not modelled

* The messages of the UDP handshake with their resends and transaction ids: both halves of the
  transport take it as one or two steps.
* BC framing, encryption, the media decoder, templates, the parsers of XML and JSON into attributes,
  `construct_capabilities`, VOD search: functions from data to data, better tested than model-checked.
* The race of TCP and UDP on the first connection, payload streams, ONVIF subscriptions, the
  download and upload of firmware: control of their own, not modelled.
* `send_reolink_com` (needs no session), the webhook server (a wrapper of aiohttp), the ONVIF
  unsubscribe of `expire_session`.
* The Baichuan keys: they are made by the login and cleared with `_logged_in`, and stand for it.
* Getters: they send a command and keep its answer; a pushed setting beside a setter.
