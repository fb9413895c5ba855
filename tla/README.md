# gtk-gnutella: a TLA+ verification project

gtk-gnutella is a Gnutella servent: a peer-to-peer program that searches, downloads
and shares files over TCP and UDP. This directory holds TLA+ specifications of parts
of it, the TLC models that check them, and machine-checked proofs. Paths below are
relative to the root of the repository (`src/core/rx_ut.c` is the file
`src/core/rx_ut.c` of the repository).

It covers the ways the program sends data, from the timers up:

- the **semi-reliable UDP transceiver**, on which G2 and the out-of-band traffic of
  Gnutella rest: two event-driven layers, three kinds of acknowledgments, six kinds of
  timers, and a network that loses, duplicates and reorders; what the two layers
  promise together is an abstract specification, which their composition implements;
- the **UDP scheduler** below it, shared by all the datagram stacks;
- the **message queue** of a TCP connection and the **compressing layer** below it;
- the **callout queue** that runs all the timers, and the **event queue** that gives them
  to other threads.

1. [Inventory](#inventory)
2. [The modules](#the-modules)
3. [Runs](#runs)
4. [What the runs found](#what-the-runs-found)
5. [Proofs](#proofs)
6. [Abstractions and what is not modelled](#abstractions-and-what-is-not-modelled)
7. [Plan](#plan)

## Inventory

The program is one main thread driving an event loop (I/O callbacks and the callout
queue), plus helper threads for the library and DNS. "Concurrency" in the protocol code
is therefore interleaving of *callbacks*: a callback runs to its end, but any other
may run between two of them, and whatever a callback remembers may be stale when it
runs.

| Component | Files | State | Operations and interactions | What is hard | What makes it correct |
|---|---|---|---|---|---|
| Semi-reliable UDP, RX | `core/rx_ut.c` | set of messages being received (bit arrays of fragments and pending ACKs, counters, three timers) | datagram entry, EARs, timers; gives messages up, ACKs to the sibling TX layer | order and duplication of fragments, delayed ACKs, fragment arithmetic | ACKs never claim too much; a message is given once; pending ACKs are sent; memory is bounded |
| Semi-reliable UDP, TX | `core/tx_ut.c` | messages by sequence ID, fragments with resend timers, resend list, EAR state, queue of refused datagrams, banned and good hosts | send request, ACK, release of a datagram by the lower layer, service, timers | copies of fragments below while the state above changes; stale IDs; flow control | no fragment forgotten; parallelism respected; every message ends; flow control is lifted |
| ACK format | `core/tx_ut.h`, `core/udp_reliable.h`, `core/udp.c` | none | built by RX, checked by `udp.c`, read by TX | missing bits relative to a moving base, inference from a count | both sides read the same thing |
| ID tables | `lib/idtable.c` | IDs in use, last ID | allocate, free | wrap-around, full table | unique, rotating, full only when full |
| UDP TX scheduler | `core/udp_sched.c` | LIFO queues per priority and address family, list of flow-controlled stacks | send, expire, service its users | shared limit, re-entrancy from free routines | each datagram released once; users serviced |
| Event queue | `lib/evq.c` | events with reference counts, a queue per thread, private callout queue | add, cancel, hand over, dispatch, thread exit | three threads sharing an event, signals, thread IDs reused | no use after free, no lost event |
| Callout queue | `lib/cq.c` | events hashed by time | insert, cancel, replace, run | cancelling from within a callback, re-arming | every event due is run once, unless cancelled |
| TX/RX stacks | `core/tx.c`, `rx.c`, `tx_dgram.c`, `tx_deflate.c`, `rx_inflate.c`, `tx_link.c`, `rx_chunk.c` | driver stack, buffers of the deflater | write, flush, service, close | flushing while flow-controlled, close with pending data | no byte lost or reordered |
| Message queues | `core/mq.c`, `mq_tcp.c`, `mq_udp.c` | queue by priority, size, flow-control and swift state | enqueue, service, drop | hysteresis, dropping less important messages | size bounded, flow control leaves |
| PARQ | `core/parq.c` | queues of uploads, slots, positions, retry and lifetimes | enqueue, promote, expire, reconnect | active vs. passive queueing, dead entries | positions consistent, no starvation |
| File info | `core/fileinfo.c` | chunk list of each file, sources | reserve, receive, free chunks | concurrent sources, aggressive mode | chunks partition the file, no byte twice |
| Downloads, uploads | `core/downloads.c`, `core/uploads.c` | per-transfer state machines | HTTP requests, push, retries | size (25 000 lines) | no transfer stuck, no leak of slots |
| Nodes | `core/nodes.c`, `hcache.c`, `pproxy.c` | connections, leaf/ultra mode, caches of hosts | handshake, promotion, removal | asynchronous removal while in use | slots bounded, mode agreed on |
| Dynamic queries | `core/dq.c` | query state, probes sent, results | launch, result, leaf status, timers | messages freed after the query is gone | terminates; results counted once |
| QRP | `core/qrp.c` | routing tables and patches | compute, merge, send patches | co-routine interrupted by changes | peer's table equals ours |
| GUESS | `core/guess.c` | pools of hosts, query keys | iterate, RPC timeouts | outstanding RPCs on cancellation | terminates, keys refreshed |
| Search, routing | `core/search.c`, `routing.c`, `gmsg.c`, `vmsg.c` | route and duplicate tables | route, record | aging of table chunks | no loops, no duplicates |
| Bandwidth | `core/bsched.c` | bandwidth per time slot | request, service | rates | quantitative |
| Small protocols | `core/oob.c`, `hsep.c`, `pcache.c` | pending hits, horizon, cached pongs | request, claim, timers | claims after expiration | hits sent at most once |
| G2 | `core/g2/*.c` | nodes, RPCs | uses the transceiver | parsing | as the transceiver |
| DHT | `dht/*.c` | routing table, lookups, values, RPCs | iterate, store, republish | out-of-order replies, cancellation | lookups end, tokens valid |
| Run-time library | `lib/*.c` | threads, locks, memory | | lock ordering, memory | mutual exclusion, no lost wake-up |
| SDBM | `sdbm/*.c` | hashed database on disk | | crash recovery | derived from a public-domain library |
| UI, shell, UPnP, XML | `ui/`, `shell/`, `upnp/`, `xml/` | | | | no protocol state of their own |

`PROJECT.json` lists each of these components with its status, and each hazard at
the line where it bites.

## The modules

### The transceiver

A message is cut in at most 255 fragments, each in a datagram carrying the sequence
ID of the message, the number of the fragment and their count. A *reliable* message
asks for ACKs. An ACK is *plain* (one fragment), *cumulative* (all the fragments up to
one) or *extended* (cumulative or not, plus the count of received fragments and 24 bits
for those that are missing). The sender retransmits in batches of growing parallelism,
but before resending to a host that never answered it sends an *EAR* ("Extra
Acknowledgment Request"), which the receiver answers with ACKs, or with an EAR NACK if
it knows nothing of the message. A host that does not answer EARs is banned for a
while. Both sides keep a message for some time after it is over (*lingering*), so that
late fragments and late ACKs find it.

| Module | Models | Content |
|---|---|---|
| `UtAck` | `struct ut_ack` of `tx_ut.h`, `ut_got_ack()` as a reader, `udp_check_semi_reliable()` | the ACKs; `Acknowledged(ack, n)`, the fragments that the sender takes as acknowledged |
| `RxUt` | `rx_ut.c` | the receiving layer |
| `IdTable` | `lib/idtable.c` | the operations of an ID table as operators |
| `IdAlloc` | `lib/idtable.c` | the life of one table: allocations and releases in any order |
| `TxUt` | `tx_ut.c` | the sending layer, over `UtAck` and `IdTable` |
| `UtAbstract` | | what the transceiver promises end to end |
| `UtLink` | `tx_ut.c`, `rx_ut.c`, the network | `TxUt` and `RxUt` composed; implements `UtAbstract` |
| `UdpSched` | `udp_sched.c`, `tx_dgram.c` | the scheduler and the stacks it serves |
| `Mq` | `mq.c`, `mq_tcp.c`, parts of `nodes.c` and `gmsg.c` | the message queue of a TCP node |
| `TxDeflate` | `tx_deflate.c`, parts of `tx.c`, `tx_link.c`, `uploads.c` | the compressing layer |
| `Cq` | `lib/cq.c` | one callout queue |
| `Evq` | `lib/evq.c`, with what it uses of `lib/cq.c` | the event queue, its thread and its users |
| `MCRxUt`, `MCTxUt`, `MCUtLink`, `MCUdpSched`, `MCMq` | | instances for TLC |
| `RxUtProofs` (with `UtAck`), `TxUtProofs` (with `IdAlloc` and `IdTable`), `UtLinkProofs`, `MqProofs`, `CqProofs`, `EvqProofs` | | theorems about the modules they are named after |
| `TxStackProofs` | | theorems about `UdpSched` and `TxDeflate`, the bottom of the two kinds of TX stacks |
| `CollectionLemmas` | | facts about sequences, sets and sums that those proofs share |

How they fit in the program: a node or G2 layer puts messages in a message queue
(`Mq` for TCP); a TCP queue writes to a stack that may compress (`TxDeflate`); UDP
queues write to the transceiver (`TxUt`), or directly to the datagram layer, and both share
the scheduler (`UdpSched`). Each layer controls the flow of the one above it by accepting
less than it is given, and calls its *service routine* when it accepts more. All of them
take their timers from the callout queue (`Cq`). Each module has the layers around it as an
environment; `UtLink` is the composition where both sides are this program.

Definitions whose comment begins with *Fault* are plausible mistakes in the
definition that follows them. They are used by no specification; replacing the definition by
one of them must violate the property that guards against that mistake (list `mutants`
of `PROJECT.json`).

### RxUt

`mseq[m]` is `NoMsg` or the `struct ut_rmsg` of the message `m` (a sending host and a
sequence ID), with the bit arrays `fbits` and `facks` as sets of fragment numbers. The
timers are `expire_ev`, whose value says which callback is armed, and `acks_ev`. The
variables `acks` and `given` hold what the last handler sent and gave up: properties
relate them to the state the handler left, and they do not accumulate.

| Action | Code |
|---|---|
| `GotSingleton`, `GotInconsistent`, `GotFragment` | `ut_got_message()`: shortcut for unreliable one-fragment messages; fragment contradicting the message; any other fragment, acknowledged by `ut_acknowledge_fragment()` *before* it is accounted for by `ut_handle_fragment()` |
| `GotEAR` | `ut_handle_ear()` |
| `DelayedAck` | `ut_delayed_ack()`, callback of `acks_ev` |
| `AlmostExpired`, `RxExpired`, `RxLingered` | the three callbacks of `expire_ev` |
| `SetEnabled` | `rx_ut_enable()`, `rx_ut_disable()` |
| `Renew` | `rx_ut_destroy()` followed by `rx_ut_init()` |

The operators in lower case keep the name of the C routine and yield the message it
leaves and the ACKs it sends. Loops over fragments are written as sets: what
`ut_delayed_ack()` sends, from the highest pending fragment down "until an ACK is
exhaustive", is the set of ACKs of the pending fragments above which no ACK was.

### TxUt

`msgs[m]` is `Unborn`, the `struct ut_msg` of the message, or `Sent`/`Dropped`.
`attr` is `struct attr`: ID table, queue of refused datagrams, banned and good hosts,
flow-control flags. `lower` is the bag of datagrams that the lower layer holds: the
message blocks that were given to it and whose free routine has not run. `aborted`
records a failed `g_assert()`.

| Action | Code |
|---|---|
| `SendToFlowControlled`, `SendToOutOfSeqno`, `SendToTooLarge`, `SendTo` | `tx_ut_sendto()` and `ut_msg_create()` |
| `GotAck`, `GotEarNack` | `ut_got_ack()` |
| `FragSent`, `FragDropped`, `FragCancelled` | `ut_frag_pmsg_free()`, run when the lower layer is done with a fragment |
| `EarSent`, `EarDropped` | `ut_ack_pmsg_free()` for an EAR, with `ut_ack_async_send()` |
| `Service(k)` | `tx_ut_service()`, `ut_pending_send()`: `k` datagrams are taken |
| `ResendIterate`, `EarResend`, `FragResend` | timers `iterate_ev`, `ear_ev`, `resend_ev` |
| `Expired`, `Lingered` | timer `expire_ev` |
| `Aged` | expiration of entries of the aging tables |

The lower layer (`tx_dgram.c`, `udp_sched.c`) is an environment here: it may keep a
datagram for any time, send it, drop it, refuse it (`LowerRefuses`), and service the
queue. The remote host is an environment too: it may send any ACK of `AckInputs` at any
time, hence late, duplicated or never. Unless `RoguePeers`, an ACK does not name a
fragment that was never sent, which is what `RxUt!AckSound` establishes of a peer that
runs this code.

### IdTable, IdAlloc

A table is `[ids, last_id]`. `Moves` is the number of slots the probing loop of
`idtable_try_new_id()` skips. `IdAlloc` adds the history variable `idle`, to state that
an ID is not issued again while another one has been free since.

### UtAbstract, UtLink

`UtAbstract` states what "semi-reliable" means without fragments, timers or ACK
formats: nothing arrives that was not accepted; a message is delivered only when all its
fragments have arrived, and once while the receiver remembers it; a message that wants
acknowledgments is reported as sent only when all its fragments arrived, and was delivered unless
the receiver lost fragments it had acknowledged (`lost`), by expiring the message or by restarting.

`UtLink` extends `TxUt` and `RxUt` and takes their actions as they are. `PeerAssumption` ties the constants of the two: there is one
sender, so the receiver knows messages by sequence IDs; the headers are those the sender makes; and the payload of a fragment is its message,
so that what is re-assembled tells where it comes from. `net` is the set of datagrams put on the network; it only
grows, and any of its members may be received at any time, which is loss,
duplication, delay and reordering. A fragment is put there when the lower layer releases it as sent.
`LinkRestart` is the loss of the receiver's memory. `accepted`, `arrived`, `delivered` and
`lost` are histories that the refinement mapping needs, and that no guard reads; `remembered` is mapped
to the messages that linger in the reception table.

### UdpSched

| Action | Code |
|---|---|
| `Send` | `tx_dgram_sendto()`, `udp_sched_send()`: sent or dropped at once, queued, or refused |
| `udp_sched_update_sockets`, `udp_sched_attach`, `udp_sched_detach`, `udp_sched_free` | the same |
| `Begin` | entry of `udp_sched_begin()`, expiration of the oldest datagrams of each LIFO |
| `SkipOne`, `ProcessOne`, `ProcessNone`, `EndPass` | `udp_tx_desc_send()` over the LIFOs: same destination, sent or dropped, no bandwidth |
| `ReleaseOne` | `udp_tx_desc_reclaim()`: the free routine, from which the owner may send again |
| `AnotherPass`, `StartService`, `Finish` | the loop and the end of `udp_sched_begin()` |
| `ServiceOne`, `ServiceDone` | `udp_sched_tx_service()`, `is_writable()` of `tx_dgram.c`: a refused stack sends its backlog |

`udp_sched_begin()` runs in steps because it calls its users back, and they call the
scheduler. `fate` says where each datagram is and how it ended; that is also how the
users are modelled: once refused, one holds its datagrams back (`"backlog"`) until serviced.

### Mq

`mq` is `struct mqueue` of one node. A message is its link, its kind, and the bytes left to
write; the tail is written next. A kind carries what the code looks up: the priority, the
rank in `gmsg_cmp()`, whether it can be dropped, whether it has a pre-send check. `qlink` is the
sorted array of links with its NULL slots, filled by the dichotomic search of
`qlink_insert()`. `qwait` is what `mq_tcp_putq()` sets aside when it is re-entered.
`room` is what the TX stack still accepts, `told` the last Hops-Flow message the peer got.
The loops of the code (the search in the array, its compaction, the pruning of messages, the writes) are
rounds of a step (`Loop`), one per slot, message or template. A failed assertion is `abort`, a message dropped in the
middle of the stream `torn`: nothing happens after either, for the program stops or the peer is lost.
`closing` is set from `node_bye_v()` on: the BYE is put through `qwait`, and the queue discards what
comes once it is put, or at once when `mq_tcp_putq()` was under way.

`MqAssumption` says what the code guarantees of the kinds. Hops-Flow messages are sent by `gmsg_ctrl_sendto_one()`,
with the priority of control messages, and have no pre-send check, which only relayed queries have. Of the messages sent to TCP nodes
with that priority none weighs more than the 8 of Hops-Flow (`gmsg_init()`, `vmsg_weight_map`): the SVN release
notification (9) and the BYE (9) are plain data. And a Hops-Flow message, of some 30 bytes, fits between watermarks that are
a quarter of `node_sendqueue_size` apart, 24 KB by default.

| Action | Code |
|---|---|
| `Putq` | `mq_tcp_putq()`: written at once, in part, or put in the queue by `mq_puthere()`, after `make_room()` |
| `PutWaiting` | the loop over `qwait` at the end of `mq_tcp_putq()` |
| `Drain` | the stack accepts more and calls `mq_tcp_service()` |
| `EnterSwift`, `SwiftTimer` | `mq_enter_swift()`, `mq_swift_timer()` |
| `NodeBye`, `RemoveNode` | `node_bye_v()`; `mq_shutdown()`, `mq_free()` |

### TxDeflate

`d` is `struct attr` of `tx_deflate.c` with the flags of its driver. The stream is a
sequence of numbered units; the compressor keeps some of those it was given (`z`), and must
output others (`zout`) when it ends a block or is flushed. There are two buffers: one is filled, the other sent.

| Action | Code |
|---|---|
| `Write` | `tx_deflate_write()` from the message queue or the upload, `deflate_add()` |
| `Flush` | `tx_deflate_flush()` |
| `NagleTimeout` | `deflate_nagle_timeout()` |
| `Writable` | the link accepts more: `deflate_service()`, the service routine of the upper layer, from which an upload closes the stack (`tx_deflate_close()`), the callback of a close |
| `Break`, `Shutdown` | write errors, `tx_shutdown()` |

### Cq

`ev` and `bucket` are the events and the hash list; `stack` is what the thread of the
queue has under way: calls to `cq_clock()`, with what they saved, and callbacks. Nothing
but a callback, or a moment between two heartbeats, has the lock free. Times are kept modulo
the span of the hash list by shifting them all at the start of an outermost
heartbeat, which the code cannot observe.

| Action | Code |
|---|---|
| `cq_insert`, `InsertForgotten`, `cq_cancel`, `cq_resched`, `cq_expire`, `cq_zero`, `cq_event` | the same, by a user that records its event in a variable, or not |
| `cq_heartbeat`, `cq_main_dispatch` | entry of `cq_clock()`, from the thread of the queue or from a callback, be it called by `cq_clock()` or by `cq_expire()` |
| `ClockCalls`, `ClockMoves`, `ClockEnds` | the scan of `cq_clock()`: call an event, next bucket, restore |
| `CallReturns` | the end of `cq_expire_internal()` |

### Evq

`eve` are the events, with their reference count and the state of their callout event;
`evqs`, `queue` the queue of each thread; `tramp` the place of the evq thread in
`evq_trampoline()`. `sig` are the threads with a pending TSIG_EVQ, `lost` those whose signal was cleared and not handled. An action is what a thread does while it holds a lock, or between two
accesses to shared state, so the interleavings are those of the program.

| Action | Code |
|---|---|
| `evq_add`, `evq_cancel` | the same, by a thread or a callback of it |
| `Fire`, `TrampolineGet`, `TrampolineHandover`, `TrampolineRead`, `TrampolineAck`, `TrampolineUnref`, `TrampolineRelease`, `TrampolineReturn` | `cq_expire_internal()` and the steps of `evq_trampoline()` |
| `DispatchStart`, `SignalCleared` | `thread_sig_handle()` of `thread.c`: the pending signal is cleared, then its handler starts; or it is cleared and not handled |
| `DispatchNext`, `CallbackReturns`, `DispatchEmpty`, `DispatchEnd` | `evq_local_dispatch()`, the handler: a round of its loop, the last look at the list, the return. A signal that comes while it runs stays pending |
| `evq_free`, `ThreadRelease`, `ThreadDiscards`, `TrampolineDiscards`, `ThreadStart` | a thread ends; the last reference to its queue discards the events left; its ID is reused |

`abort` says which assertion failed. `raced` is set when `evq_cancel()` meets an event that
triggered and is not handed over; what follows is the subject of `evq_cancel_race` alone.

## Runs

Passing runs (TLC explores all reachable states of each instance):

| Run | Instance | Properties | Shows |
|---|---|---|---|
| `rx_all` | one message, headers of 1 to 5 fragments (reliable or not, deflated or not, improved ACKs or not), empty or non-empty payloads, a missing field of 2 bits, fairness of the timers | `RxTypeOK` `Consistency` `DelayedAckArmed` `AckSound` `AckAcceptable` `GivenOnCompletion` `PendingAcksSent` `ReceptionEnds` | counters, bit arrays and timers agree; ACKs are sound and accepted; a message is given once; pending ACKs are sent, all of them or, in messages longer than the field allows, those it reaches; a message leaves the table whatever peers send |
| `id_rotation` | 4 IDs | `IdInv` `TemporallyUnique` | allocation succeeds while 2 IDs are free, and rotates |
| `tx_resend` | one message, of three fragments and reliable or of two and not, then messages too large, with EARs, all the ACKs that `RxUt` may send, limits of 1 | `ResendInv` `FragmentAccounted` `ResendDriven` | until the message expires no fragment is forgotten, the parallelism of batches is accounted exactly and the resend list sleeps only when the lower layer dropped the EAR `AckSendMax + 1` times |
| `tx_live` | two messages, 2 IDs, a lower layer that refuses, any ACK (`RoguePeers`), fairness | `FlowInv` `FragmentAccounted` `MessageEnds` `FlowControlEnds` | no datagram, no ID is lost; flow control from below and from the ID space will be lifted, and is; each message ends |
| `ut_link` | one message, of two fragments and reliable, of one and not, then messages too large, each fragment sent up to twice, with EARs, restarts | `Implements` | the composition implements `UtAbstract` |
| `udp_sched` | two stacks, three datagrams (two to one host, one of highest priority), a limit of 2 bytes, two attempts each | `SchedInv` `RefusedRemembered` `BeginEnds` `BacklogServed` | bytes are accounted; a datagram is held once; a refused stack is remembered, and serviced; the limit holds; the loop ends |
| `mq` | four kinds of message, the Hops-Flow messages and a BYE, a queue of 6 bytes (watermarks at 1 and 3), a stack accepting up to 2 | `MqInv` `SendingOrder` `ServicedWhenQueued` `FlowcExact` `PeerTold` | accounts, sorted array and order are exact; servicing and flow control follow the content; the peer knows of flow control |
| `deflate` | buffers of 3 units, writes of up to 4, a stream of 10, the three users | `DeflateInv` `StreamExact` `ClosedSent` `CloseEnds` `FlowcEnds` | no unit lost, repeated or overtaken; the compressor has room; flow control and closing end |
| `cq_clock` | 4 buckets of 2 units, 2 events, delays of 0, 1, 3 and 9 (past the span), nesting of 3 | `CqInv` `NoneOverdue` `DelayExact` `EarliestFirst` | no event missed, run out of order, freed twice or leaked, with dispatching nested in any callback and callbacks that insert without delay; `cq_delay()` is exact |
| `evq` | two threads, two events, two queues, fairness | `EvqInv` `RefcntExact` `NeverAfterCancel` `EventHandled` | references are counted exactly; nothing freed is used and no assertion fails, but in the two cases of a thread that ends with cancelable events; no signal is lost but by `thread_sig_handle()`; no call after a cancel; each event handled |

Several of these invariants are conjunctions of named parts, each with its own comment
in the module:

| Invariant | Parts |
|---|---|
| `IdInv` | `IdTypeOK`, `RoomMeansIssued` |
| `ResendInv` | `TypeOK` of `TxUt`, `ResendListExact`, `PendingExact` |
| `FlowInv` | `SeqIdsOwned`, `FlowControlLifted` |
| `SchedInv` | `UTypeOK`, `BufferedExact`, `HeldOnce`, `QueueBounded` |
| `MqInv`, `SendingOrder` | `MqTypeOK`, `SizeExact`, `QlinkExact`; `FrameIntact`, `PriorityOrder` |
| `DeflateInv` | `DeflateTypeOK`, `RoomToDeflate`, `FlowcServiced` |
| `CqInv` | `CqTypeOK`, `BucketsExact`, `CallExact`, `EventsOwned` |
| `EvqInv` | `EvqTypeOK`, `NoUseAfterFree`, `ExitFailures`, `NoLostSignal` |

### Bounds

- *Messages.* RX messages do not interact (each handler touches one entry of `mseq`,
  `Renew` all of them), so one message suffices for RX; the theorems cover any number.
  TX messages interact through IDs, flow control and the host tables: `tx_live` has two
  (`MaxMsgs`), the others one. `ut_link` has one message for the same reason: two of them
  meet only in flow control, which `tx_live` is about.
- *Fragments.* Three is where all the cases of `ut_upgrade_ack()` exist (it does
  nothing up to two), with fragments before, between and after those received. The
  window of 24 bits is shrunk to 2 (`MissingBits`), and messages have up to five fragments: three stand for
  those that one ACK covers easily, four for the longest that one ACK covers (26 in the program), five for those that
  it does not. The theorems cover all sizes.
- *Limits.* `SendMax`, `EarSendMax`, `AckSendMax`, `Alpha` are 1, but for `SendMax` in `ut_link`, which is 2:
  the comparisons are the same, both sides of each are reached, and counters are
  saturated at the limit because nothing else is compared.
- *Too large messages* are sent once the `MaxMsgs` others ended (`SendToTooLarge`): each keeps an ID for ever, and
  `SeqIdsOwned` is checked without such messages.
- *Datagrams.* `MaxLower` (2 or 3) bounds the datagrams below. A step that would exceed
  it is not taken, which removes behaviours but adds none; no liveness property relies on
  a step it disables (the fair actions do not depend on it).
- *IDs.* `IdMask` of 1 or 3 instead of 65535, so that IDs wrap around, run out and are
  reused; `SeqnoThresh` of 1 instead of 1024. In `UtLink` an ID is not reused
  (`FreshSeqno`): datagrams do not travel for as long as 65536 messages take.
- *Scheduler.* With `SendMax` attempts per datagram, owners stop re-sending, as they do in
  the code (`TX_UT_SEND_MAX`); the loop could otherwise be kept busy for ever.
- *Queue.* `MaxCount` and `MaxSlots` bound what the node puts, not what comes back through
  flow control. Sizes of 1 and 2 bytes make partial writes happen, and 6 bytes let three levels
  of messages coexist above the high watermark. `MaxSlots` bounds the sorted array,
  which otherwise grows with NULL slots until it is compacted.
- *Stream.* Ten units fill both buffers and the compressor once, and rotate them twice.
- *Callout queue.* A heartbeat elapses at most `MaxPeriods` periods, as in the code; `NestMax`
  bounds the time that passes in one callback to less than one span of the hash list,
  `MaxDepth` the nesting.
- *Deadlock* is not checked where the system may stop: an aborted program, a layer whose
  messages are over, a queue shut down, a scheduler that was freed. `rx_all`,
  `id_rotation` and `cq_clock` are checked for it.

### Fairness

- *Timers* (`RxUt`, `TxUt`): the callout queue runs every event whose time has come
  (`NoneOverdue` of `Cq`), so the expiration timers are weakly fair: they are armed as long as the message is in the state
  they belong to, and no other event re-arms them for longer.
- *Service* (`TxUt`): the scheduler services the stacks it refused until they are
  drained (`BacklogServed` of `UdpSched`), hence weak fairness of a service that takes
  everything.
- *Scheduler* (`UdpSched`): `udp_sched_begin()` runs to its end (weak), and is run by the
  bandwidth scheduler at each period while a socket exists (strong, sockets come
  and go); a socket that went away comes back; bandwidth that a datagram asks for again and again is
  not refused for ever (strong). Without the last one the liveness properties are false, and rightly so.
- *Event queue* (`Evq`): the evq thread runs (weak), each event triggers in the end although others may keep the
  thread busy (strong, from `NoneOverdue`), and a thread handles its pending signal and goes on with
  its handler to the end (weak; `Dispatch`). There is none of `SignalCleared`.
- *Compression* (`TxDeflate`): the I/O loop calls the service routine while it is enabled and
  the link accepts data, and the Nagle timer fires. These are weak fairness with the
  enabling condition written out (`CanService`, `CanTimeout`), because evaluating
  `ENABLED` on these actions is costly.
- No fairness is assumed of peers, of the network, of the release of datagrams, nor of users.

## What the runs found

Each of these runs checks one property that a comment of the code states, and that the
code does not satisfy. They are described at their line in the list `findings` of `PROJECT.json`.

| Run | Property | What happens |
|---|---|---|
| `mq_torn` | `NeverTorn` | `mq_tcp_service()` asks the pre-send check of every message it is about to write, the partially written one too. A query of which a part was written, refused because the peer sent a Hops-Flow in between, or because its route is gone, is unlinked: the peer reads the messages that follow as the end of the query. |
| `evq_cancel_race` | `CancelWhileDispatched` | an event triggers; before `evq_trampoline()` locks the queue, its thread runs `evq_cancel()`, whose `cq_cancel()` frees the callout event and clears `eve->ev`; `cq_zero()` then frees a NULL event, and fails an assertion. |

Other behaviours met while modelling, faithfully kept in the model, that shape how the
properties are stated.

*Transceiver*

- `ut_upgrade_ack()` bounds `max` by `fragcnt`, then returns `max <= fragcnt` (`rx_ut.c`, line 855):
  always "exhaustive", and `ut_delayed_ack()` stops after one ACK, though the comments at lines 788 and 884 promise one that
  covers everything. Up to 26 fragments this is right: the ACK
  of the highest pending fragment tells of 24 fragments by its bits, of itself, and its count implies the one left. From 27 on,
  pending ACKs past the window are cleared and not sent; retransmissions recover them. `PendingAcksSent` says what is sure in each
  case (`SureAcks`): every pending ACK up to `MissingBits + 2` fragments, those of the fragments within the window beyond. `rx_all` has messages
  on both sides, and TLC refutes the property if either bound is relaxed by one.
- An unreliable message of one fragment is handed over without being inflated (`rx_ut.c`, line 1531).
- `resent_acks` (`rx_ut.c`, line 139) has 9 bits and grows by up to 255 at once: for
  messages of more than 128 fragments it wraps around before it reaches `2 * fragcnt`, and
  the traffic that duplicates generate is then not bounded as intended.
- Re-ACKs by the timer and upon an EAR do not look at `reliable` (`rx_ut.c`, line 347), so
  `AckSound` and `AckAcceptable` are stated for all the messages.
- `idtable_try_new_id()` never issues the last slot it probes (`idtable.c`, line 147):
  it reports a full table while one ID is free. Hence `RoomMeansIssued` asks for two.
- Unacknowledged fragments are put in the resend list while a copy may still be below
  (`tx_ut.c`, line 1006); when that copy is released a resend timer is armed, and the next batch
  fails an assertion (line 1574 or 1200). `TxUt` sets `aborted` there, and properties are
  about programs that still run.
- An EAR that the lower layer drops `AckSendMax + 1` times leaves `ear_pending` set (`tx_ut.c`, line 1475), and
  `ut_resend_iterate()` then sends no other EAR: the resend list sleeps until an ACK comes on its own, or
  the message expires. These messages are `LostEar`. `ResendDriven` counts an EAR as under way only if the lower layer has it, leaves out
  the messages of `LostEar`, and says that nothing but the last of those drops makes a message one of them.
- A message refused for its size keeps the ID allocated for it (`tx_ut.c`, line 2117).
  `SeqIdsOwned` is checked without such messages.
- In the linger state a timeout decrements `um->pending` and leaves `uf->pending` set
  (`tx_ut.c`, line 1127): `PendingExact` is stated until the message expires.
- An EAR confirmed after its answer arms the EAR timer again (`tx_ut.c`, line 1529), and
  the host that answered may end up banned.
- A dropped fragment of an unreliable message goes to the resend list, where EARs that
  nobody may answer are sent in its place (`tx_ut.c`, line 931); the message ends by
  expiring.
- An ACK that names a fragment that was never sent is rejected after it cancelled the EAR
  timer (`tx_ut.c`, line 2355), and the resend list may sleep until the message expires:
  `ResendDriven` is checked with peers that only acknowledge what they received, and
  `MessageEnds` with any peer.
- EARs are matched to messages by their ID alone (`tx_ut.c`, line 1529). If an EAR of a message that ended is still queued below
  when its ID is given to another message, its confirmation arms the EAR timer of that message, which expects no answer; the next
  ACK cancels the timer and nothing resumes the resend list until the message expires. TLC finds it in 19 states with
  two IDs, three messages of two fragments and the ACKs of a correct peer (`tx_resend` has one message, and cannot meet it). IDs rotate (`TemporallyUnique`), so the program meets it only if
  65 000 messages are sent while one EAR stays queued. `TxResendDriven` has it as the hypothesis `FreshIds`.
- End to end, a message may be reported as sent although the receiver forgot fragments it had acknowledged
  (the disjunct `lost` of `UtAbstract!Confirm`), and may be delivered again once the receiver no
  longer remembers it.

*Scheduler*

- `udp_sched_begin()` is driven by the bandwidth source of a socket: without any socket nothing is
  expired, released or serviced until one comes back.
- Datagrams of a stack that was detached stay queued, and are sent or dropped later.

*Message queue and compression*

- A BYE put while `mq_tcp_putq()` is under way waits in `qwait`; `node_bye_v()` sets the
  queue to discard what comes next, the BYE included.
- `qlink_insert()` may fill a NULL slot on the strength of neighbours that are not the nearest, and
  leave the array unsorted (`mq.c`, line 950); a later insertion next to that slot then fails the
  assertion on its hint (line 816). `QlinkExact` is about the content of the array, not its order.
- `deflate_rotate_and_send()` cancels the Nagle timer; units left in the compressor by the call that filled
  the buffer wait for the next write. The liveness properties are therefore about flow control and closing,
  not about delivery of every unit.
- The gzip trailer is appended only when the close could flush at once; a close that is delayed never sends it. `ClosedSent` is about the
  units of the stream, not about the trailer.
- `tx_deflate_pending()` counts the buffers and, for what the compressor holds, an estimate from `unflushed` that is not 0 unless
  `unflushed` is (`tx_deflate.c`, line 1102). That is why a delayed close calls back only when the compressor is empty too (`ClosedSent`).

*Callout and event queues*

- A heartbeat that elapses more than the whole span of the hash list must scan all
  the buckets (`EV_OVER`). `cq_heartbeat()` limits what elapses to ten periods, which is less than the span of 65.5 s
  for the main queue (0.25 s), the event queue (20 s) and the sub-queues of bans, mesh and DHT roots (10 to 50 s), but not for that
  of the publisher (`core/publisher.c`, line 78: 100 s). There `NoneOverdue` fails: when what elapses is within one
  bucket of the span, `EV_OVER` is false while the time may hash to the bucket scanned last, so `cq_clock()`
  takes it that "elapsed is too small" (`cq.c`, line 1344) and leaves all the other buckets for the next round; and after a scan of all
  the buckets `cq_last_bucket` is not that of the time, so the next heartbeat may start past events that are due. With
  `MaxPeriods = MaxElapsed = 12`, one event and `NoneOverdue` alone in `cq_clock.cfg`, TLC finds the first case in
  six states; with two events it also finds a scan of all the buckets that calls them out of order
  (`EarliestFirst`), since that scan starts at the last bucket whatever the keys are. It takes a
  program that was suspended for a minute, and events run a round late. The theorems on the scan exclude it (`SpanFits`).
- After a nested `cq_clock()`, `cq_last_bucket` is restored to what it was while the time has moved:
  `NoneOverdue` still holds, because the next scan starts from the older bucket, but `cq_delay()` is not
  exact until then. `DelayExact` says so.
- An event inserted with no delay by a callback lands in the bucket being scanned and is
  run by the same `cq_clock()`: a callback that always does so keeps it there. `cq_clock` has such callbacks; no liveness
  is claimed of the scan.
- `evq_event_discard()` drops the user's reference even to an event that was cancelled, whose reference
  `evq_cancel()` dropped already: `refcnt` becomes -1 and the event is never freed (`evq.c:492`).
- When a thread ends, events triggered and not dispatched are discarded with its queue.
- A thread that ends and leaves a cancelable event may stop the program in two ways, which `ExitFailures` says are the only ones. An event of it triggers; `evq_trampoline()` finds no
  queue for it and goes on to acknowledge the callout event, which `evq_event_discard()`, run by the thread that ends, frees by `cq_cancel()` (`evq.c`, line 477) between
  the reading of `eve->ev` and `cq_acknowledge()` (line 857): the comments at lines 485 and 849 consider this concurrence for the reference count, and not for the callout event.
  Or the evq thread found the queue before, and is the last to release it: it discards the events that are left, and the assertion of line 472 that only their
  thread does so fails.
- `thread_sig_handle()` reads the pending signals, then clears them (`thread.c`, lines 4930 and 4931): a signal that comes in between is cleared
  and not handled. So are those found by a thread that runs a handler of kernel signals (line 4940). The events handed over wait
  for the next TSIG_EVQ. `NoLostSignal` and `EventHandled` are stated up to such signals (`lost`); all the other
  windows, in particular the one between the last look at the list and the return of the handler, are covered.
- `evq_notify()` compares with `evq_sleep_end` as it was before the evq thread computed how long to sleep: an event may be
  late by up to `EVQ_PERIOD` (2 s).

Several of these (pending ACKs of long messages, the publisher's queue, the unsorted array of links, the two failures at the exit of a
thread, the signal cleared) are kept as exact qualifications of properties that hold rather than as runs of their own: the qualified property
says when they happen, and that nothing else does.

## Proofs

The theorems hold for every value of the constants that satisfies the assumptions of the modules:
no bound of the runs is left but those that are in the model itself. Each has the shape
`Spec => []Inv`, through an inductive invariant that TLC checked first on the instance of the run, or
`Spec => [][A]_vars` from the same invariant, or, for `UtLink`, `Spec => Abs!ASpec`. What is before a colon below is a hypothesis of the theorem, explained in its section.

| Module | Theorem | Statement |
|---|---|---|
| `RxUtProofs` | `Invariance` | `RxSpec => []IInv` |
| | `TypeCorrect` | `RxSpec => []RxTypeOK`: no field leaves its range; in particular one-based to zero-based conversions never yield −1 nor 255 |
| | `ConsistencyHolds`, `DelayedAckHolds` | `RxSpec => []Consistency`, `RxSpec => []DelayedAckArmed` |
| | `AcksAreSound`, `AcksAreAcceptable` | `RxSpec => []AckSound`, `RxSpec => []AckAcceptable` |
| | `GivenOnce` | `RxSpec => GivenOnCompletion` |
| | `PendingAcksAreSent` | `RxSpec => PendingAcksSent` |
| `TxUtProofs` | `IdInvariance` | `IdSpec => []IdIInv` |
| | `IdTableHolds`, `IdsRotate` | `IdSpec => []IdInv`, `IdSpec => TemporallyUnique` |
| | `TxInvariance` | `Spec => []TxIInv` |
| | `TxResendBooks`, `TxFragmentAccounted` | `Spec => []ResendInv`, `Spec => []FragmentAccounted` |
| | `TxFlowControl` | `AllFit`: `Spec => []FlowInv` |
| | `TxResendDriven` | `~RoguePeers`: `Spec /\ FreshIds => ResendDriven` |
| `UtLinkProofs` | `LinkInvariance` | `LinkSpec => []LinkIInv` |
| | `LinkImplements` | `LinkSpec => Implements`, that is, `Abs!ASpec` of `UtAbstract` |
| `TxStackProofs` | `SchedInvariance` | `USpec => []SchedIInv` |
| | `SchedHolds`, `RefusedStacksRemembered` | `USpec => []SchedInv`, `USpec => []RefusedRemembered` |
| | `DeflateInvariance` | `DeflateSpec => []DeflateIInv` |
| | `DeflateServiced` | `DeflateSpec => []DeflateInv` |
| | `StreamsExact`, `ClosedAfterSent` | `DeflateSpec => []StreamExact`, `DeflateSpec => []ClosedSent` |
| `MqProofs` | `MqInvariant` | `MqSpec => []MqInv` |
| | `MqSendingOrder`, `MqServiced` | `MqSpec => []SendingOrder`, `MqSpec => []ServicedWhenQueued` |
| | `MqFlowControl`, `MqPeerTold` | `MqSpec => []FlowcExact`, `MqSpec => []PeerTold` |
| `CqProofs` | `CqInvariance` | `CqSpec => []CqIInv` |
| | `CqHolds` | `CqSpec => []CqInv` |
| | `CqScan` | `SpanFits`: `CqSpec => []ScanIInv` |
| | `CqNoneOverdue`, `CqDelayExact` | `SpanFits`: `CqSpec => []NoneOverdue`, `CqSpec => []DelayExact` |
| | `CqEarliestFirst` | `SpanFits`: `CqSpec => EarliestFirst` |
| `EvqProofs` | `EvqInvariance` | `EvqSpec => []EvqIInv` |
| | `EvqSafe`, `RefcntsExact` | `EvqSpec => []EvqInv`, `EvqSpec => []RefcntExact` |
| | `CancelledNotCalled` | `EvqSpec => NeverAfterCancel` |

All have one lemma per C routine on what it leaves, one lemma per action, that it preserves the
inductive invariant, and one that collects the actions.

### RxUt

Assumptions, all in the modules that declare the constants: `MissingBitsAssumption` (the width is positive),
`HeadersAssumption` (what `udp_check_semi_reliable()` and `ut_valid_message()` let
through: a fragment number below the count, a count that fits a byte and is not zero),
`NativeAssumption`, `ResentAssumption`, and `NoMsgAssumption` (no message is `NoMsg`).

**The inductive invariant.** None of the properties is inductive alone. The range of
`fragrecv` does not survive a fragment unless it is the cardinality of `fbits` and the
fragment is new; that the last fragment completes a message needs `fbits` within
`0 .. fragcnt - 1`; the ACK of `ut_build_extra_ack()` exists only if some fragment was
received; a pending ACK belongs to a reliable message with improved ACKs, or the
branches of `ut_acknowledge_fragment()` that ignore `facks` would strand it. Hence

    IInv == RxTypeOK /\ (\A m : Known(m) => MsgInv(mseq[m])) /\ AcksOK

where `MsgInv` joins `Core` (received fragments), `PendingOK` (pending ACKs) and
"some fragment was received", and `AcksOK` says that the ACKs of the last handler are
`Sound` for the message as that handler left it.

**The argument for soundness.** ACKs are built by `ut_acknowledge_fragment()` before the fragment they
answer is accounted for, so each ACK is first proved sound for the received set it was
built from, together with its fragment, and `SoundMonotonic` carries it over to the state the
handler leaves. `TailReceived` is the counting argument behind
extended ACKs: if the received fragments number as many as those below the base,
plus those of the window whose bit is clear, plus *all* those past the window, then
all those past the window were received, for the three parts are disjoint and the first two
bound what they hold. `ExtendedSound` combines it with the base and the window.

**Completeness of the ACKs.** `AckSound` is that ACKs do not say too much; `PendingAcksAreSent`, that they say enough. When a handler clears
pending ACKs it has sent *one* ACK, usually, for the highest of them: those below it have to be in the window of its
bits, or below a cumulative base, or implied. The window of an ACK that is not cumulative starts at fragment 0, so the pending fragments below `MissingBits` are in it.
When the message has at most two fragments more than `MissingBits`, a pending fragment can be past the window only if it is the last but one and the ACK is for the
last one; then all those past the window were received and the count says so (`WindowCovers`). These are the two cases of `SureAcks`, and there is no
other: the bounds are sharp, see *What the runs found*.

### IdAlloc

`IdIInv == IdTypeOK /\ RoomMeansIssued /\ Rotation`. `TemporallyUnique` is about one step, but needs to know
where the free IDs are: `Rotation` says that an ID which has been free since `x` was released is *ahead* of `x`,
that is, the probing loop reaches it first when it starts from `last_id`. `TryNewIdProperty` is what the loop does: it
takes the first free ID ahead, or fails when all those it probes are taken; the number of moves is the least
one that lands on a free slot, and slots within one turn of the table are different. `TxUt` allocates its sequence
IDs with the same operators, which is why both are proved in `TxUtProofs`.
Assumption: the mask is a power of two, minus one, as `idtable_new()` makes it, and not 0.

### TxUt

`TxIInv == Types /\ BookInv /\ KnownInv /\ HeldInv`.

- `Types` bounds every field. That `um->pending` stays a byte, although `Decr` wraps, and that `alpha` stays between 1 and the maximum number of
  fragments, is not a matter of one assignment: it needs
- `BookInv`: the resend list has no duplicates and holds exactly the fragments flagged `resend`; no fragment is
  both flagged and `pending`; and, until the message lingers, `um->pending` is the number of those that are `pending`. The list is found
  by its flag (`ut_frag_free()` removes a fragment from it only when flagged), so list and flags have to agree for either to be right.
  It is `ResendInv` for the messages of any state;
- `KnownInv`: a datagram queued here or below belongs to a message that was accepted, and to one of its fragments, so that its
  release finds the fragment, or knows that it was acknowledged;
- `HeldInv`, which is `FragmentAccounted`: it needs the two before, since a datagram that is released must leave its fragment in
  the list or with a timer, and an ACK may have freed any of the fragments in between.

There is one lemma per routine on what it leaves of the message (`ut_frag_free()`, `ut_send_unacknowleged()`, a batch of resends...), one per action, and `FreeAcked`, the loop that
frees acknowledged fragments, by induction on its rounds as in `Mq`. Nothing is assumed of the ACKs beyond their fields being in range: `TxResendBooks` and
`TxFragmentAccounted` hold whatever peers send.

`TxFlowControl` has the hypothesis `AllFit`, that no request is `Oversize`: a message that is too large leaks its ID (see *What the runs found*), and then
`SeqIdsOwned` is false. That the sender is resumed when IDs ran out is a count: `TryNewIdProperty` says that the table is
full up to one ID when an allocation fails, `SeqIdsOwned` that each of those IDs has a message that will free it, and `SeqnoThresh` is at most `IdMask`.

`TxResendDriven` needs more: `DriveIInv == EarInv /\ DriveInv`. The invariant part of `ResendDriven` says that *some* EAR, timer or fragment is under way, but an EAR
resumes the list only if the message still expects its answer (`expecting_ack`, `EarAwaited`) and if the EAR is that message's own.
Messages are found from EARs by their ID, so `EarInv` says that live messages have different IDs (`OwnIds`), that there is one EAR per ID below (`OneEar`), that EARs do not wait in
the pending queue (`OnlyFrags`), and that a message whose ID an EAR bears is waiting for it (`EarsTimely`).
The other part, on the messages whose EAR is lost for good (`LostEar`), is about steps: every action keeps the EARs that
messages wait for (`EarsHeld`), or is the last of the drops (`EarsLost`). The flag `ear_pending` alone would not do: it stays set when the EAR is gone.
The two hypotheses exclude behaviours where the property is false, both found by TLC:

- `~RoguePeers`: an ACK that names a fragment never sent is rejected after it cancelled the EAR timer;
- `FreshIds`: no ID is allocated while the lower layer still has an EAR that bears it. The program does not check this; it relies on IDs that rotate over 16 bits. See *What the runs found*.

Assumptions, in `TxUt`: `LimitsAssumption` (limits are positive, the threshold of freed IDs is at most the mask, the initial parallelism
at most the number of fragments), `RequestsAssumption` (what `tx_ut_sendto()` and `ut_msg_create()` let through), `AckInputsAssumption` (ACKs as decoded from
the wire), `TagsAssumption` (the marks of absent messages and fragments are neither), and that of `IdTable` on the mask.

### UtLink

`LinkImplements` says that every behaviour of the composition is one of `UtAbstract`, under the mapping in `UtLink`: `Status` for what the sender
reports, `Wanted` for what was accepted, `Remembered` for the messages that linger in the reception table.

    LinkIInv == TxIInv /\ IInv /\ if_enabled = TRUE
                /\ AcceptedInv /\ NetInv /\ RecvInv /\ HistInv /\ SentInv

- `AcceptedInv`: a message is accepted once, under an ID of its own, and remains what it was;
- `NetInv`: the network holds fragments of accepted messages, and ACKs which, read as the sender reads them, name only fragments
  that arrived;
- `RecvInv`: what is being received belongs to one accepted message, whose fragments it holds and no other's, and it was
  delivered if it lingers;
- `HistInv`: of a message neither delivered nor lost, the receiver has all that ever arrived;
- `SentInv`: the fragments that the sender has freed, of a message that wants ACKs, have arrived.

The two invariants of the layers do not add up to this one: `NetInv` is about ACKs that were sent when the receiver knew more, or less,
than now. It is `AckSound` at the time of the sending, kept because `arrived` only grows, and that is why a restarted receiver, which
knows nothing, cannot make the old ACKs wrong. `SentInv` follows from `NetInv` when an ACK is received, and from
one lemma per routine of the sender on which fragments it may free (`Renewed`, `SenderMoves`). A message becomes `Sent`
when no fragment is left, hence all have arrived; by `HistInv` it was delivered or lost, or the receiver has all its fragments, and then it lingers, so was delivered.
That is the step `Confirm` of `UtAbstract`, and the only one whose guard is not immediate.

Assumptions: those of the two layers, `LinkAssumption` (message counts and sizes within the IDs and the fragment numbers) and `PeerAssumption`.
The specification excludes the reuse of a sequence ID (`FreshSeqno`): nothing in the program prevents a datagram that was delayed for 65 536 messages from being
taken for another message's. Peers that are not this program are not part of this theorem; they are of those on `TxUt` and `RxUt`.

### UdpSched

`SchedIInv == HeldOK /\ StacksOK /\ TodoOK`. That the byte count is exact depends on each datagram
being in one LIFO, once, or in the list of those to release; that in turn on what the iteration
under way has left to visit being still queued (`TodoOK`), though free routines queue, and stacks leave,
in the middle of it. `RefusedRemembered` follows from `WaitingKnown` and `BacklogWaits`: who holds
datagrams back asked for service; who asked for service is attached, and either flow control is on, which
makes the next `udp_sched_begin()` service everybody, or the round of services under way
has that stack still to come. The sizes are sums over finite sets of datagrams, whose lemmas (a sum over a
disjoint union, over a difference) are in `CollectionLemmas`. Assumptions: datagrams and stacks are finite in number,
datagrams are not empty, and the limit is positive.

### Mq

`MqIInv == Sound(mq) /\ Peer(mq)`, preserved by every action (`MqIInvariant`). `Sound` joins

- `Books`: the list has unique links, only its last message may be read, and its unread messages go by priority
  (`Listed`); the size is the sum of the bytes left; unless an assertion failed, the array holds each link once;
- servicing is enabled when the list is not empty (`Srv`), the flow control follows the watermarks and has its event (`Flow`), the
  size is at most `MaxSize`, and a queue that discards is closing.

None of these is inductive alone. That a removal finds its slot needs the array to hold each link once; that the size stays a sum, and does
not become negative, needs links to be unique; that `make_room()` spares the message being written needs
that it looks at what was read; that the queue may leave flow control within `make_room()`, set aside a Hops-Flow message and be
filled again by the message for which room was made, needs the
books in the middle of handlers, when neither the flow control nor the servicing is settled. Lemmas on routines are therefore
about `Books` and `Kept`, and `SettleProperty`, `RoomedOpen` and `PutInRoomProperty` settle the rest.

`Peer` is what makes `PeerTold` inductive: unless the queue is closing, the last Hops-Flow message *set aside*, or else the last one *queued*, or else
the last one *delivered*, tells the state. It rests on the order of the list: a new Hops-Flow message is placed behind
the older ones, for they have the same priority (`SaysInserted`), the oldest is delivered first (`SaysDelivered`), and nothing in the list
is ever dropped in favour of a message if it is a Hops-Flow message, since what would be favoured has less priority or no
higher rank (`Spares`).

The proofs go from lists (`ListRemove`, `ListInsert`, `BytesRemove`, `BytesInsert`, `SaysSkip`) to arrays (`HoldsErase`, `HoldsFill`, `HoldsInsertAt`,
`CompactProperty`, `SortProperty`), to the loops, by induction on their rounds (`SearchProperty`, `RoomProperty`, `ClearProperty`,
`RefuseProperty`, `WriteProperty`, `SwiftPrune`), to the routines and to one lemma per action. `SearchProperty` shows
that the dichotomic search, whatever the order of the array, fills only a NULL slot or gives a place
that is checked: a search that is led astray by an unsorted array (see *What the runs found*) loses no link, it can only fail
the assertion. A loop is a function of its round, so that the induction is about the sets of states its rounds stay in (`LoopInduction`) and needs no
operator as a parameter.
Assumptions: `MqAssumption`, explained with the module.

### Cq

`CqIInv == CqTypeOK /\ BucketsOK /\ NestingOK /\ CurrentOK /\ OwnedOnce /\ SlotsOK`. `CallExact`
is about the innermost callback. It is not inductive, for when a nested `cq_clock()` or `cq_expire()` returns it
restores what it saved: `CallOf(i)` is what the current call will be again for the `i`-th callback under way, read
from the frame above it, and `CurrentOK` says that it is the callback's event until the callback acknowledges it. `OwnedOnce` says that an
event called out is freed by exactly one of the callbacks, through any nesting. `NestingOK` says what may be above what.
The buckets are sorted sequences; `InsertAtProperty` and the lemmas on removal show that an insertion before the first later event and
the removal of one event keep them sorted and keep the others. Times are shifted at the start of an outermost heartbeat: the lemmas
on division show that the hash of all the events is shifted alike. Assumptions (`CqAssumption`): at least two buckets, a resolution
and a period that are not 0, and `Null` is neither an event nor a slot.

**The scan.** Buckets are counted from time 0, round after round: `Abs(t)` is the bucket of time `t`, `EV_HASH(t)` that
number modulo the number of buckets, and `Pos(now, b)` the last one hashed to `b` that is not after that of `now`, which
is the one `cq_clock()` scans. `ScanIInv == Timely /\ ClocksOK /\ Restored /\ Near`:

- `Timely`: an event is in the future, or *some* scan under way will reach it. `NoneOverdue` is this with no scan under way. It has to
  be about all the scans: a nested one runs to a later time than the scans below it, from an older bucket, and events
  that it does not see, because they are inserted behind it, are left to the next heartbeat;
- `Restored`: `cq_last_bucket` is, or will be again once the scans above have ended, that of each scan under way;
- `Near`: `cq_last_bucket` is the bucket of a time that is not after the current one and less than a round before the end of the next scan, so that `Pos` of the
  first bucket scanned is that time, and not a round later (`Reach`); no event is before the previous outermost heartbeat.

The outermost scan need not be the first frame of the stack, for a callback called by `cq_expire()` may dispatch too: `Outermost` finds it, and `FirstClock` says
that nothing below it is a scan.

A bucket where nothing is due is left behind for the events still to come (`LeftAfter`), since its events are sorted (`NoneDue`).
`CqEarliestFirst` follows: an event that came earlier than the one called out would have to be in the same bucket, before
it. For `cq_delay()`, `KnownDelay` is what is known after `i` buckets: the delay is that of the earliest event of those
buckets. When the loop may stop (`FarEnough`) the delay is at most the span less one bucket, so the event it comes from is in the current round and those of later
buckets come after it. The loop is a function of its round, as in `Mq`.

Hypothesis of these three theorems, `SpanFits`: `Upper + NestMax <= Span - Res`, that is, ten periods, plus the time that nested
heartbeats let pass in one callback, are less than the hash list spans without one bucket. `cq_clock` has 3 + 3 for 8 − 2;
the main queue 0.25 s for 65.5 s. Why it is needed, and the one queue that does not meet it, are in *What the runs found*. `CqHolds` does not
depend on it.

### Evq

`EvqIInv` has, for each event, who refers to it and how many references it has (`RefsOK`), that it belongs to a live queue (`EventOK`),
and where it may be (`PlaceOK`); for each queue its lists (`QueueOK`) and its own reference count (`CountOK`); for each thread and for the
trampoline what they hold at each step (`ThreadOK`, `TrampOK`). `RefcntExact` is stated for the events whose thread
is still there; the count of the others is needed too, for it is what
the last reference to a queue discards. The order in which the evq thread reads, marks, hands over and releases an
event is all in `TrampOK`. What concerns an event cancelled between its trigger and its handover is
excluded by `raced`, as in the runs: there the property is false (`evq_cancel_race`). A callout event freed while it is called out is that
of an `Orphan`, a cancelable event whose thread ended, and `ExitFailuresOK` shows that the two assertions that `Orphan`s make fail are the only ones. Signals that `thread_sig_handle()` clears
are accounted for in `lost`, until the handler starts for another signal or the thread ends. Assumption: `Null` is neither a thread nor an event.

### TxDeflate

`DeflateIInv == Settled(d)`, what holds between two handlers. `Layout` says where the units of the stream are: the send buffer ends with
some unit `a`, the filling buffer with `b`, what the compressor must output next with `c`, and what it keeps with the last
unit written; when the trailer is sent, from the first buffer whichever is being filled, the two buffers may be the same one.
`StreamExact` follows by joining the four parts. `Sound` adds the sizes and the timer, and is what every
routine called by a handler maintains; `Working` and `Ready` are what `deflate_add()`, `deflate_flush()` and the upper layer find, and
`Promises` is what the next handler relies on: flow control stands on a send buffer, that buffer and the units left to a writer on a service that was asked
for, and a stack that closes has no writer left. `ClosedSent` needs that an upload for which nothing is unflushed has nothing in the compressor,
which is false of nodes, whose counter is also reset by a flush within `deflate_add()` while the output still waits (`FlushedWorks`).

The loops of `deflate_add()` and `deflate_flush()` are a recursive function of the round. `RoundsExist` shows that
the rounds exist, `RoundsEnd` that a loop whose rounds decrease a measure ends within it, in a state that its
rounds maintain; the measure is the number of units not yet output (`Held`), so `MaxUnits + 2` rounds are enough: the bound in `Loop` never cuts a loop short.
Assumptions (`DeflateAssumption`): the bounds are positive and a buffer holds at least two units, so that the gzip header leaves room in the
first one: `tx_deflate_init()` asserts that the header fits, and buffers have kilobytes.

### Only model-checked

- *Liveness*: out of the reach of the proof system, with `ENABLED`.
  These are `ReceptionEnds`, `MessageEnds`, `FlowControlEnds`, `BeginEnds`, `BacklogServed`, `CloseEnds`, `FlowcEnds` and `EventHandled`. All the invariants, action
  properties and the refinement that the passing runs check are theorems, some under the hypotheses named above.

## Abstractions and what is not modelled

- *Time.* A timer that is armed may fire at any moment, except in `Cq`. This covers all the delays, but
  cannot tell that a lingering receiver outlives the retransmissions of its sender: the
  second delivery that this prevents in practice is possible in `UtLink`, and allowed by `UtAbstract`.
- *Payloads.* A fragment carries a member of `Payload`, one of which is empty, since
  `ut_handle_fragment()` does not store an empty fragment. Whether the inflater accepts
  the data is a free choice. Compression keeps the number of units.
- *Priorities* of messages in the pending queues of `TxUt`: one queue stands for all.
- *ACKs sent through the TX layer* (`ut_send_ack()`): their retries do not touch messages; in `UtLink` they
  go straight to the network, which may lose them.
- *Synchronous release.* When the lower layer sends a datagram at once, its free routine
  runs within the call that handed it over; `TxUt` releases it in a later step. The hazard is listed at
  its line.
- *Destruction of the TX layer*, with datagrams still queued below: `UdpSched` has it for the stack, not for
  the messages above.
- *Failures of `deflate()`* (`tx_deflate.c`, lines 607 to 611), which shut the layer down without an error of the link, and the test of that flag in
  `tx_deflate_write()` (line 1007). `tx_deflate_writev()` is a sequence of writes.
- *Priorities of the scheduler.* `UdpSched` has two of its four LIFOs: the highest priority, which is never refused, and one for
  the three others, which are refused alike (`udp_sched.c`, line 676).
- *Bandwidth* is a free choice: rates are not modelled. Swift mode drops any number of bytes instead
  of computing it from rates.
- *The UDP message queue* (`mq_udp.c`) is the user of `UdpSched`, with its backlog only.
- *Periodic and idle tasks* of callout queues, periodic events of the event queue.
- *RX stacks* (`rx_inflate.c`, `rx_chunk.c`, `rx_link.c`): decoders of a stream, without timers or
  sharing.
- *Everything above the queues* (searches, downloads, uploads, routing, DHT) and beside (GUI, files, memory
  management): see the status of each component in `PROJECT.json`. The program is 635 000 lines; the
  models are of those that carry its data out and run its timers.
- *Memory allocation* never fails in the program (it aborts).
- *Statistics, logs and debugging* are left out.

## Plan

1. *Done*: `UtAck`, `RxUt`, `IdTable`, `IdAlloc`, `TxUt`; proofs of `RxUt`.
2. *Done*: `UtAbstract`, `UtLink`, `UdpSched`, `Mq`, `TxDeflate`, `Cq`, `Evq`.
3. *Done*: proofs of `IdAlloc`, `TxUt`, `UdpSched`, `TxDeflate`, `Cq`, `Evq` and `Mq`, and of the refinement of
   `UtAbstract` by `UtLink`.
4. Next: `TxUt` over `UdpSched`: synchronous release and destruction of the layer.
5. `FileInfo` (reservation of chunks), `Parq` (positions, slots, retries).
6. `Dq`, DHT RPCs and lookups, `Hsep`, synchronization primitives of the library.
