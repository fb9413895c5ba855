--------------------------------- MODULE Mq ---------------------------------
(***************************************************************************)
(* The message queue of a TCP node: core/mq.c and core/mq_tcp.c, with the  *)
(* calls of core/nodes.c that come back to it (Hops-Flow messages sent on  *)
(* entering and leaving flow control, node_bye()).                         *)
(*                                                                         *)
(* Everything runs in the main thread, so each handler is one step.  The   *)
(* messages that mq_tcp_putq() sets aside when it is re-entered are put by *)
(* the same call, one step each, during which nothing else happens.        *)
(*                                                                         *)
(* The TX stack is `room', the bytes that it accepts before it controls    *)
(* the flow; it then calls the service routine when it accepts more.       *)
(***************************************************************************)
EXTENDS Integers, Sequences, FiniteSets, SequencesExt, FiniteSetsExt

CONSTANTS
    Kind,       \* Kinds of message put in the queue by the node
    HopsFlow0,  \* Sent on entering flow control: no more queries
    HopsFlow255,\* Sent on leaving it
    Bye,        \* Sent by node_bye()
    Templates,  \* Ranks of the headers of swift mode: <<initial, later>>
    MaxSize,    \* mq->maxsize, in bytes
    MaxRoom,    \* Bound: bytes accepted by the TX stack
    MaxCount,   \* Bound: messages in the queue when the node puts one more
    MaxSlots    \* Bound: slots in the sorted array then

VARIABLE mq

lowat == MaxSize \div 4
hiwat == MaxSize \div 2

\* prio: pmsg_prio(); rank: the order of gmsg_cmp(); drop: gmsg_can_drop();
\* check: it has a pre-send check, which can refuse it.
KindType == [name : STRING, prio : Nat, rank : Nat, size : Nat \ {0},
             drop : BOOLEAN, check : BOOLEAN]
AllKinds == Kind \cup {HopsFlow0, HopsFlow255, Bye}

HopsFlows == {HopsFlow0, HopsFlow255}

\* Hops-Flow messages have the same priority, that of control messages, and no
\* prioritary message is more important; a few of them fit between watermarks.
ASSUME MqAssumption ==
    /\ AllKinds \subseteq KindType
    /\ MaxSize \in Nat /\ MaxRoom \in Nat \ {0} /\ MaxCount \in Nat /\ MaxSlots \in Nat
    /\ Templates \in Seq(Seq(Nat)) /\ Len(Templates) = 2
    /\ Kind \cap HopsFlows = {} /\ Bye.prio = 0
    /\ HopsFlow0.prio > 0 /\ HopsFlow255.prio = HopsFlow0.prio
    /\ \A h \in HopsFlows, k \in AllKinds : k.prio >= h.prio => k.rank <= h.rank
    /\ ~HopsFlow255.check /\ ~HopsFlow0.check /\ ~Bye.check /\ ~Bye.drop
    /\ lowat + HopsFlow255.size < hiwat

\* A loop: n rounds of a step, from `start'.
Loop(Step(_, _), start, n) ==
    LET round[i \in 0 .. n] == IF i = 0 THEN start ELSE Step(round[i - 1], i)
    IN  round[n]

Queued(q) == {q.queue[i].id : i \in DOMAIN q.queue}
\* A message: its link in the queue, its kind, the bytes left to write.
Message(q, k) ==
    [id   |-> Min((1 .. Len(q.queue) + 1) \ Queued(q)),
     kind |-> k, left |-> k.size]

pmsg_is_unread(m) == m.left = m.kind.size
IndexOf(q, id) == CHOOSE i \in DOMAIN q.queue : q.queue[i].id = id
Link(q, id) == q.queue[IndexOf(q, id)]
Tail_(q) == q.queue[Len(q.queue)]

----------------------------------------------------------------------------
(* The sorted array of links.  0 is a NULL slot.                           *)

\* qlink_cmp(): by priority, then by importance.
qlink_cmp(m1, m2) ==
    IF m1.kind.prio = m2.kind.prio THEN m1.kind.rank - m2.kind.rank
    ELSE m1.kind.prio - m2.kind.prio

\* qlink_create(): the links sorted, in queue order when they are equal.
SortStep(l, n) ==
    LET m == l.q.queue[n]
        before == {i \in DOMAIN l.sorted : qlink_cmp(Link(l.q, l.sorted[i]), m) <= 0}
    IN  [l EXCEPT !.sorted = InsertAt(@, Cardinality(before) + 1, m.id)]
qlink_create(q) ==
    [q EXCEPT !.linked = TRUE,
              !.qlink = Loop(SortStep, [q |-> q, sorted |-> <<>>], Len(q.queue)).sorted]

qlink_free(q) == [q EXCEPT !.linked = FALSE, !.qlink = <<>>]

\* A round of the dichotomic search of qlink_insert(), between slots `low' and
\* `high': the slot to fill or to insert before is found, or they get closer.
Found(l, fill, at) == [l EXCEPT !.found = TRUE, !.fill = fill, !.at = at]
Between(l, low, high) == [l EXCEPT !.low = low, !.high = high]
Slot(l, n) == Link(l.q, l.q.qlink[n])
SearchNull(l, mid) ==
    LET below == {n \in l.low .. mid - 1 : l.q.qlink[n] # 0}
        above == {n \in mid + 1 .. l.high : l.q.qlink[n] # 0}
        lowest  == Max(below)
        highest == Min(above)
    IN  IF below = {} /\ above = {} THEN Found(l, TRUE, mid)
        ELSE IF below = {} THEN Between(l, mid + 1, l.high)
        ELSE IF above = {} THEN Between(l, l.low, mid - 1)
        ELSE IF lowest <= l.low + 1 /\ highest >= l.high - 1 THEN Found(l, TRUE, mid)
        ELSE IF qlink_cmp(l.m, Slot(l, lowest)) < 0 THEN Between(l, l.low, lowest - 1)
        ELSE IF qlink_cmp(l.m, Slot(l, highest)) > 0 THEN Between(l, highest + 1, l.high)
        ELSE Between(l, lowest + 1, highest - 1)
SearchMid(l, mid) ==
    LET c == qlink_cmp(Slot(l, mid), l.m)
    IN  IF c = 0 THEN Found(l, FALSE, mid)
        ELSE IF c < 0 THEN Between(l, mid + 1, l.high)
        ELSE Between(l, l.low, mid - 1)
SearchStep(l, n) ==
    LET mid == l.low + (l.high - l.low) \div 2
    IN  IF l.found THEN l
        ELSE IF l.low > l.high THEN Found(l, l.q.qlink[l.low] = 0, l.low)
        ELSE IF l.q.qlink[mid] = 0 THEN SearchNull(l, mid)
        ELSE SearchMid(l, mid)
qlink_search(q, m) ==
    Loop(SearchStep, [q |-> q, m |-> m, low |-> 1, high |-> Len(q.qlink),
                      found |-> FALSE, fill |-> FALSE, at |-> 0], Len(q.qlink) + 1)

\* qlink_insert(): the slot to fill, or the one to insert before.
qlink_place(q, m) ==
    LET n == Len(q.qlink)
        slot(i) == Link(q, q.qlink[i])
    IN  IF n = 0 THEN [fill |-> FALSE, at |-> 1]
        ELSE IF q.qlink[1] # 0 /\ qlink_cmp(m, slot(1)) <= 0 THEN [fill |-> FALSE, at |-> 1]
        ELSE IF q.qlink[n] # 0 /\ qlink_cmp(m, slot(n)) >= 0 THEN [fill |-> FALSE, at |-> n + 1]
        ELSE qlink_search(q, m)

\* The assertions of qlink_insert_before() on its hint.
HintOk(q, hint, m) ==
    /\ hint \in DOMAIN q.qlink /\ q.qlink[hint] # 0
    /\ qlink_cmp(Link(q, q.qlink[hint]), m) >= 0

\* A message inserted at a place: the NULL slot to fill, the end of the array,
\* or before a slot, where qlink_insert_before() takes a NULL slot if it can.
qlink_insert(q, m, place) ==
    IF place.fill THEN [q EXCEPT !.qlink[place.at] = m.id]
    ELSE IF place.at = Len(q.qlink) + 1 THEN [q EXCEPT !.qlink = Append(@, m.id)]
    ELSE IF ~HintOk(q, place.at, m) THEN [q EXCEPT !.abort = TRUE]
    ELSE IF place.at > 1 /\ q.qlink[place.at - 1] = 0
         THEN [q EXCEPT !.qlink[place.at - 1] = m.id]
    ELSE [q EXCEPT !.qlink = InsertAt(@, place.at, m.id)]

\* qlink_remove(): the slot becomes NULL, or the array is compacted when it
\* has too many of them.
CompactStep(l, n) ==
    IF l.old[n] \in {0, l.id} THEN l ELSE [l EXCEPT !.new = Append(@, l.old[n])]
Compacted(qlink, id) ==
    Loop(CompactStep, [old |-> qlink, id |-> id, new |-> <<>>], Len(qlink)).new
qlink_remove(q, id) ==
    [q EXCEPT !.qlink = IF Len(@) > 3 * Len(q.queue) THEN Compacted(@, id)
                        ELSE [n \in DOMAIN @ |-> IF @[n] = id THEN 0 ELSE @[n]]]

----------------------------------------------------------------------------
(* Messages leaving and entering the list.                                 *)

mq_rmlink_prev(q, id) ==
    [q EXCEPT !.queue = RemoveAt(@, IndexOf(q, id)), !.size = @ - Link(q, id).left]

\* Fault: the sorted array keeps the link.
UnlinkListOnly(q, id) == mq_rmlink_prev(q, id)
\* A message removed from the list and from the sorted array.
Unlink(q, id) == mq_rmlink_prev(IF q.linked THEN qlink_remove(q, id) ELSE q, id)

\* Fault: a message partially written is overtaken.
PlaceBeforeRead(q, m) ==
    LET lower == {i \in DOMAIN q.queue : q.queue[i].kind.prio < m.kind.prio}
    IN  IF m.kind.prio = 0 \/ lower = {} THEN 1 ELSE Max(lower) + 1
\* Fault: messages of the same priority are overtaken.
PlaceBeforeEqual(q, m) ==
    LET lower == {i \in DOMAIN q.queue : /\ pmsg_is_unread(q.queue[i])
                                         /\ q.queue[i].kind.prio <= m.kind.prio}
    IN  IF m.kind.prio = 0 \/ lower = {} THEN 1 ELSE Max(lower) + 1
\* Where a message goes: at the head, or for a priority message after the first
\* link, from the tail, that is unread and of lower priority.
PlaceOf(q, m) ==
    LET lower == {i \in DOMAIN q.queue : /\ pmsg_is_unread(q.queue[i])
                                         /\ q.queue[i].kind.prio < m.kind.prio}
    IN  IF m.kind.prio = 0 \/ lower = {} THEN 1 ELSE Max(lower) + 1

\* `offset' is the hint of make_room(), 0 for none.
Linked(q, m, offset) ==
    IF ~q.linked THEN q
    ELSE qlink_insert(q, m, IF offset # 0 THEN [fill |-> FALSE, at |-> offset]
                            ELSE qlink_place(q, m))
Enqueue(q, m, offset) ==
    Linked([q EXCEPT !.queue = InsertAt(@, PlaceOf(q, m), m), !.size = @ + m.left],
           m, offset)

\* What the peer has got, once a message is wholly written.
Delivered(q, m) ==
    [q EXCEPT !.told = IF m.kind \in HopsFlows THEN m.kind.name ELSE @]

\* What tx_write() accepts of a message, called when the queue is empty.
Written(q, m) == IF q.queue = <<>> THEN Min({q.room, m.left}) ELSE 0

----------------------------------------------------------------------------
(* Flow control.                                                           *)

\* The Hops-Flow message of node_tx_leave_flowc() and node_tx_enter_flowc():
\* mq_tcp_putq(), re-entered when `entered', otherwise with the flow control
\* just left and a queue below its low watermark.
PutHopsFlow(q, k, entered) ==
    LET m == Message(q, k)
        w == Written(q, m)
        q1 == [q EXCEPT !.room = @ - w]
        queued(r) == [r EXCEPT !.warn = r.size >= lowat, !.srv = TRUE]
    IN  IF q.discard THEN q
        ELSE IF entered THEN [q EXCEPT !.qwait = Append(@, k)]
        ELSE IF w = m.left THEN Delivered(q1, m)
        ELSE queued(Enqueue(q1, [m EXCEPT !.left = @ - w], 0))

mq_enter_flowc(q, entered) ==
    PutHopsFlow([q EXCEPT !.flowc = TRUE, !.ev = "enter"], HopsFlow0, entered)

\* Fault: the event of the swift mode is not cancelled.
LeaveKeepsTimer(q, entered) ==
    PutHopsFlow([qlink_free(q) EXCEPT !.flowc = FALSE, !.swift = FALSE],
                HopsFlow255, entered)
mq_leave_flowc(q, entered) ==
    PutHopsFlow([qlink_free(q) EXCEPT !.flowc = FALSE, !.swift = FALSE, !.ev = "none"],
                HopsFlow255, entered)

mq_tcp_flushed(q) == q.queue = <<>> \/ pmsg_is_unread(Tail_(q))

mq_update_flowc(q, entered) ==
    CASE q.flowc ->
            IF q.size <= lowat /\ mq_tcp_flushed(q)
            THEN [mq_leave_flowc(q, entered) EXCEPT !.warn = FALSE] ELSE q
      [] ~q.flowc /\ q.size >= hiwat ->
            [mq_enter_flowc(q, entered) EXCEPT !.warn = TRUE]
      [] ~q.flowc /\ q.size < hiwat -> [q EXCEPT !.warn = q.size >= lowat]

\* Fault: servicing is never disabled.
DisableNever(q) == q
\* tx_srv_disable() once there is nothing more to service.
DisableIfEmpty(q) == IF q.queue = <<>> THEN [q EXCEPT !.srv = FALSE] ELSE q

----------------------------------------------------------------------------
(* make_room_internal(): prunes, in the order of the sorted array, messages *)
(* that are unread and less important, until more than `needed' bytes are   *)
(* freed or one that is equally or more important, or prioritary, is met.   *)

\* A slot of the array: `offset' is where the loop stopped, 0 before.
RoomStep(l, n) ==
    LET id == l.q.qlink[n]
        m == Link(l.q, id)
    IN  IF l.offset # 0 \/ l.needed < 0 \/ id = 0 THEN l
        ELSE IF ~pmsg_is_unread(m) THEN l
        ELSE IF m.kind.rank >= l.rank \/ m.kind.prio > l.prio THEN [l EXCEPT !.offset = n]
        ELSE [l EXCEPT !.q = mq_rmlink_prev([@ EXCEPT !.qlink[n] = 0], id),
                       !.needed = @ - m.left]
Pruned(q, rank, prio, needed, entered) ==
    LET l == Loop(RoomStep, [q |-> q, rank |-> rank, prio |-> prio, needed |-> needed,
                             offset |-> 0], Len(q.qlink))
    IN  [q      |-> DisableIfEmpty(mq_update_flowc(l.q, entered)),
         ok     |-> l.needed <= 0,
         offset |-> l.offset]

make_room(q, rank, prio, needed, entered) ==
    IF q.queue = <<>> THEN [q |-> q, ok |-> FALSE, offset |-> 0]
    ELSE Pruned(IF q.linked THEN q ELSE qlink_create(q), rank, prio, needed, entered)

----------------------------------------------------------------------------
(* The end of the connection.                                              *)

\* mq_clear(): drops the messages from the head, up to one partially written.
ClearStep(q, n) ==
    IF q.queue = <<>> THEN q
    ELSE IF ~pmsg_is_unread(q.queue[1]) THEN q
    ELSE mq_rmlink_prev(q, q.queue[1].id)
mq_clear(q, entered) ==
    IF q.queue = <<>> THEN q
    ELSE DisableIfEmpty(mq_update_flowc(Loop(ClearStep, qlink_free(q), Len(q.queue)),
                                        entered))

\* node_bye(), which puts the Bye message on the queue just cleared and ends with
\* mq_discard(): when mq_tcp_putq() is re-entered the message is only set aside.
node_bye(q, entered) ==
    IF q.closing THEN q
    ELSE [mq_clear(q, entered) EXCEPT !.qwait = Append(@, Bye),
                                      !.closing = TRUE, !.discard = entered]

----------------------------------------------------------------------------
(* Putting a message.                                                      *)

\* mq_puthere(), always within mq_tcp_putq().  In flow control a message that
\* can be dropped must make as much room as it takes; `r' is what the first
\* make_room() answered, `called' whether it was called.
FirstRoom(q, m, called) ==
    IF called THEN make_room(q, m.kind.rank, m.kind.prio, m.left, TRUE)
    ELSE [q |-> q, ok |-> TRUE, offset |-> 0]
SecondRoom(r, m, called) ==
    LET needed == r.q.size + m.left - MaxSize
    IN  IF ~r.ok \/ needed <= 0 THEN r
        ELSE IF called THEN [r EXCEPT !.ok = FALSE]
        ELSE make_room(r.q, m.kind.rank, m.kind.prio, needed, TRUE)
\* A message without room is dropped, and must be unread; if it is prioritary,
\* so is the node.
PutInRoom(r, m) ==
    IF r.ok THEN [mq_update_flowc(Enqueue(r.q, m, r.offset), TRUE) EXCEPT !.srv = TRUE]
    ELSE IF ~pmsg_is_unread(m) THEN [r.q EXCEPT !.abort = TRUE]
    ELSE IF m.kind.prio = 0 THEN r.q
    ELSE node_bye(r.q, TRUE)
mq_puthere(q, m) ==
    LET called == q.flowc /\ m.kind.prio = 0 /\ m.kind.drop
    IN  PutInRoom(SecondRoom(FirstRoom(q, m, called), m, called), m)

\* mq_tcp_putq(), for one message.
mq_tcp_putq(q, m, cansend) ==
    LET w == Written(q, m)
        q1 == [q EXCEPT !.room = @ - w]
    IN  IF q.queue = <<>> /\ ~cansend THEN q
        ELSE IF w = m.left THEN Delivered(q1, m)
        ELSE mq_puthere(q1, [m EXCEPT !.left = @ - w])

Gone == mq.down
\* mq_tcp_putq() is running, with messages set aside.
InPutq == mq.qwait # <<>> /\ ~mq.discard
Idle == ~Gone /\ ~InPutq /\ ~mq.abort /\ ~mq.torn

CanSend(k) == IF k.check THEN BOOLEAN ELSE {TRUE}

Putq(k) ==
    /\ Idle /\ ~mq.closing
    /\ Len(mq.queue) < MaxCount /\ Len(mq.qlink) < MaxSlots
    /\ \E ok \in CanSend(k) : mq' = mq_tcp_putq(mq, Message(mq, k), ok)

\* node_bye() goes on once its message, and those it caused, are put.
Closed(q) == IF q.closing /\ q.qwait = <<>> THEN [q EXCEPT !.discard = TRUE] ELSE q

\* The next message set aside.
PutWaiting ==
    /\ ~Gone /\ ~mq.abort /\ ~mq.torn /\ InPutq
    /\ mq' = Closed(mq_tcp_putq([mq EXCEPT !.qwait = Tail(@)],
                                Message(mq, Head(mq.qwait)), TRUE))

----------------------------------------------------------------------------
(* mq_tcp_service()                                                        *)

\* Drops the messages refused by their pre-send check, from the tail.
RefuseStep(l, n) ==
    LET m == l.links[Len(l.links) - n + 1]
    IN  IF m.id \notin l.refused THEN l
        ELSE [l EXCEPT !.q = [Unlink(l.q, m.id) EXCEPT !.torn = @ \/ ~pmsg_is_unread(m)]]
DropRefused(q, refused) ==
    Loop(RefuseStep, [q |-> q, links |-> q.queue, refused |-> refused], Len(q.queue)).q

\* What was accepted of the last message: all of it, or a part.
WriteStep(q, n) ==
    LET m == Tail_(q)
    IN  IF q.queue = <<>> \/ q.room = 0 THEN q
        ELSE IF q.room >= m.left THEN [Delivered(Unlink(q, m.id), m) EXCEPT !.room = @ - m.left]
        ELSE [q EXCEPT !.queue[Len(q.queue)].left = @ - q.room,
                       !.size = @ - q.room, !.room = 0]
WriteQueue(q) == Loop(WriteStep, q, Len(q.queue))

UpdateServicing(q) == DisableIfEmpty(mq_update_flowc(q, FALSE))

mq_tcp_service(q, refused) == UpdateServicing(WriteQueue(DropRefused(q, refused)))

\* Messages whose pre-send check may refuse them.
Refusable == {id \in Queued(mq) : Link(mq, id).kind.check}

\* The TX stack accepts more bytes, and calls the service routine if wanted.
Drain(room) ==
    /\ Idle
    /\ room > mq.room
    /\ LET q == [mq EXCEPT !.room = room]
       IN  \/ mq.srv /\ \E refused \in SUBSET Refusable : mq' = mq_tcp_service(q, refused)
           \/ ~mq.srv /\ mq' = q

----------------------------------------------------------------------------
(* Swift mode.                                                             *)

\* The loop on the templates of mq_swift_checkpoint().
PruneStep(l, i) ==
    LET room == make_room(l.q, l.templates[i], 0, l.needed, FALSE)
    IN  IF l.needed <= 0 THEN l
        ELSE [l EXCEPT !.q = room.q,
                       !.needed = IF room.ok THEN 0 ELSE @ - (l.q.size - room.q.size)]
Prune(q, needed, templates) ==
    Loop(PruneStep, [q |-> q, needed |-> needed, templates |-> templates], Len(templates)).q

\* mq_swift_checkpoint(): `needed', the bytes to drop, is computed from the rates
\* of the queue, any number here.
mq_swift_checkpoint(q, needed, templates) ==
    LET q1 == [q EXCEPT !.ev = "none"]
        q2 == IF q.size <= lowat THEN q1 ELSE Prune(q1, needed, templates)
        q3 == mq_update_flowc(q2, FALSE)
    IN  IF q3.swift THEN [q3 EXCEPT !.ev = "timer"] ELSE q3

EnterSwift ==
    /\ Idle /\ mq.ev = "enter"
    /\ \E needed \in 0 .. MaxSize :
        mq' = mq_swift_checkpoint([mq EXCEPT !.swift = TRUE], needed, Templates[1])

SwiftTimer ==
    /\ Idle /\ mq.ev = "timer"
    /\ \E needed \in 0 .. MaxSize :
        mq' = mq_swift_checkpoint(mq, needed, Templates[2])

----------------------------------------------------------------------------

\* The node is told to leave, for another reason than its queue.
NodeBye == Idle /\ ~mq.closing /\ mq' = node_bye(mq, FALSE)

\* mq_tcp_make()
NewQueue ==
    [queue |-> <<>>, qlink |-> <<>>, linked |-> FALSE, size |-> 0,
     flowc |-> FALSE, swift |-> FALSE, warn |-> FALSE, discard |-> FALSE, closing |-> FALSE,
     qwait |-> <<>>, ev |-> "none", srv |-> FALSE, room |-> MaxRoom,
     down |-> FALSE, told |-> HopsFlow255.name,
     torn |-> FALSE, abort |-> FALSE]
MqInit == mq = NewQueue

\* The node is removed, after a write error or not: mq_shutdown(), mq_free().
RemoveNode == Idle /\ mq' = [NewQueue EXCEPT !.down = TRUE]

MqNext ==
    \/ \E k \in Kind : Putq(k)
    \/ PutWaiting
    \/ \E room \in 1 .. MaxRoom : Drain(room)
    \/ EnterSwift
    \/ SwiftTimer
    \/ NodeBye
    \/ RemoveNode

MqSpec == MqInit /\ [][MqNext]_mq

----------------------------------------------------------------------------

Messages == [id : Nat \ {0}, kind : AllKinds, left : Nat \ {0}]
Queues ==
    [queue : Seq(Messages), qlink : Seq(Nat), linked : BOOLEAN, size : Nat,
     flowc : BOOLEAN, swift : BOOLEAN, warn : BOOLEAN, discard : BOOLEAN,
     closing : BOOLEAN, qwait : Seq(AllKinds), ev : {"none", "enter", "timer"},
     srv : BOOLEAN, room : 0 .. MaxRoom, down : BOOLEAN, told : STRING,
     torn : BOOLEAN, abort : BOOLEAN]

\* The queue has the types of struct mqueue: no link twice or without bytes left
\* to write, no sorted array outside of the time it is used.
MqTypeOK(q) ==
    /\ q \in Queues
    /\ \A i, j \in DOMAIN q.queue : q.queue[i].id = q.queue[j].id => i = j
    /\ \A i \in DOMAIN q.queue : q.queue[i].left <= q.queue[i].kind.size
    /\ ~q.linked => q.qlink = <<>>

\* The size of the queue is the sum of the bytes left to write, and never above
\* its maximum.
BytesLeft(S) == SumFunctionOnSet([m \in Messages |-> m.left], S)
SizeExact(q) == q.size = BytesLeft(Range(q.queue)) /\ q.size <= MaxSize

\* The sorted array holds each link of the queue once, whatever was dropped,
\* sent, compacted or inserted since it was created (mq_check_track()).
QlinkExact(q) ==
    q.linked /\ ~q.abort =>
        /\ \A id \in Queued(q) : \E n \in DOMAIN q.qlink : q.qlink[n] = id
        /\ \A n \in DOMAIN q.qlink : q.qlink[n] \in Queued(q) \cup {0}
        /\ \A n, k \in DOMAIN q.qlink : q.qlink[n] = q.qlink[k] /\ n # k => q.qlink[n] = 0

\* The books of the queue agree with the list, through partial writes, drops to
\* make room and swift mode: its size, and the sorted array.
MqInv == MqTypeOK(mq) /\ SizeExact(mq) /\ QlinkExact(mq)

\* Only the last message, next to be written, can be partially written.
FrameIntact(q) ==
    \A i \in DOMAIN q.queue : ~pmsg_is_unread(q.queue[i]) => i = Len(q.queue)

\* From the tail, unread messages go by decreasing priority.
PriorityOrder(q) ==
    \A i, j \in DOMAIN q.queue :
        i < j /\ pmsg_is_unread(q.queue[j]) =>
            q.queue[i].kind.prio <= q.queue[j].kind.prio

\* What mq_tcp_service() writes next is the rest of the message it started, and
\* then what has most priority, whatever was put or dropped in between.
SendingOrder == FrameIntact(mq) /\ PriorityOrder(mq)

\* Servicing is enabled exactly when there is something to send.
ServicedWhenQueued == ~mq.down => (mq.srv <=> mq.queue # <<>>)

\* The queue is in flow control from its high to its low watermark, one event
\* pending, and it is in swift mode after the first one.
FlowBounds(q) ==
    /\ (q.size >= hiwat => q.flowc)
    /\ (q.flowc => q.size > lowat \/ ~mq_tcp_flushed(q))
FlowEvent(q) == (q.flowc <=> q.ev # "none") /\ (q.swift <=> q.ev = "timer")
FlowcExact == ~mq.down /\ ~mq.abort => FlowBounds(mq) /\ FlowEvent(mq)

\* The last Hops-Flow message given to the peer, or about to be, tells whether
\* the queue is in flow control.
LastHopsFlow(q) ==
    LET hf == {i \in DOMAIN q.queue : q.queue[i].kind \in HopsFlows}
    IN  IF hf = {} THEN q.told ELSE q.queue[Min(hf)].kind.name
FlowName(q) == (IF q.flowc THEN HopsFlow0 ELSE HopsFlow255).name
PeerTold == Idle /\ ~mq.closing => LastHopsFlow(mq) = FlowName(mq)

\* A message partially written is not dropped: the peer takes the bytes that
\* follow for the rest of it.  mq_tcp_service() breaks this.
NeverTorn == ~mq.torn
=============================================================================
