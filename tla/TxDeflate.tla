------------------------------ MODULE TxDeflate ------------------------------
(***************************************************************************)
(* The compressing layer of a TX stack, core/tx_deflate.c, between its two *)
(* kinds of users and the link layer:                                      *)
(*                                                                         *)
(*  - the message queue of a node ("node"): Nagle timer, periodic flushes, *)
(*    serviced on demand;                                                  *)
(*  - the upload of a browse-host reply ("browse", or "gzip" with the gzip *)
(*    encapsulation): no timer, flushed when closed, serviced eagerly.     *)
(*                                                                         *)
(* The stream is a sequence of units, numbered from 1.  The compressor     *)
(* turns each unit it is given into one unit of output, some time later,   *)
(* in order: `z' holds those it keeps, `zout' those it must output next.   *)
(* Everything runs in the main thread: each handler is one step.           *)
(***************************************************************************)
EXTENDS Integers, Sequences, SequencesExt, FiniteSetsExt

CONSTANTS
    BufferSize,     \* attr->buffer_size
    BufferFlush,    \* attr->buffer_flush of nodes
    MaxUnits,       \* Bound: units in the stream
    MaxWrite,       \* Bound: units written at once
    MaxRoom         \* Bound: units that the link accepts

\* The gzip header, one unit here, leaves room in a buffer.
ASSUME DeflateAssumption ==
    /\ BufferSize \in Nat \ {0, 1} /\ BufferFlush \in Nat
    /\ MaxUnits \in Nat \ {0} /\ MaxWrite \in Nat \ {0} /\ MaxRoom \in Nat \ {0}

VARIABLE d

Broken == -1        \* The room of a link whose writes fail
User == {"node", "browse", "gzip"}

\* Units a .. b of the stream.
Units(a, b) == [i \in 1 .. b - a + 1 |-> a + i - 1]

FillBuf(s) == s.buf[s.fill]
Full(s) == Len(FillBuf(s)) >= BufferSize

----------------------------------------------------------------------------
(* Sending buffers.                                                        *)

\* Fault: the part accepted by the link stays in the buffer.
SendUnadvanced(s) ==
    LET b == s.buf[s.send]
        r == Min({s.room, Len(b)})
        s1 == [s EXCEPT !.sent = @ + r, !.room = @ - r]
    IN  IF s.room = Broken THEN [s EXCEPT !.err = TRUE]
        ELSE IF r = Len(b) THEN [s1 EXCEPT !.send = 0, !.buf[s.send] = <<>>]
        ELSE [s1 EXCEPT !.srv = TRUE]
\* deflate_send(): what the link does not accept waits for its service.
deflate_send(s) ==
    LET b == s.buf[s.send]
        r == Min({s.room, Len(b)})
        s1 == [s EXCEPT !.buf[s.send] = SubSeq(b, r + 1, Len(b)),
                        !.sent = @ + r, !.room = @ - r]
    IN  IF s.room = Broken THEN [s EXCEPT !.err = TRUE]
        ELSE IF r = Len(b) THEN [s1 EXCEPT !.send = 0]
        ELSE [s1 EXCEPT !.srv = TRUE]

\* deflate_nagle_stop(), if the timer is on.
NagleStop(s) == [s EXCEPT !.nagle = FALSE, !.tm_ev = FALSE]

deflate_rotate_and_send(s) ==
    deflate_send([NagleStop(s) EXCEPT !.send = s.fill, !.fill = 3 - s.fill])

\* deflate() outputs what it can of `zout' in the filling buffer.
Output(s) ==
    LET n == Min({Len(s.zout), BufferSize - Len(FillBuf(s))})
    IN  [s EXCEPT !.buf[s.fill] = @ \o SubSeq(s.zout, 1, n),
                  !.zout = SubSeq(@, n + 1, Len(@))]

\* The output of all that was given, for Z_SYNC_FLUSH and Z_FINISH.
EndBlock(s) == [s EXCEPT !.zout = @ \o s.z, !.z = <<>>]

\* Repeats a step as long as it asks to go on: each round outputs units, or is
\* the last.
Loop(Step(_), start) ==
    LET round[n \in 0 .. MaxUnits + 2] ==
            IF n = 0 THEN start
            ELSE LET l == round[n - 1] IN IF l.go THEN Step(l) ELSE l
    IN  round[MaxUnits + 2]

deflate_flushed(s) == [s EXCEPT !.unflushed = 0, !.flush = FALSE]

\* A round of deflate_flush().
FlushFull(s) ==
    IF s.send # 0 THEN [s |-> [s EXCEPT !.flush = TRUE, !.flowc = TRUE], go |-> FALSE]
    ELSE LET sent == deflate_rotate_and_send(s) IN [s |-> sent, go |-> ~sent.err]
FlushOutput(s) ==
    IF Full(s) THEN FlushFull(s) ELSE [s |-> deflate_flushed(s), go |-> FALSE]
FlushStep(l) == FlushOutput(Output(l.s))

deflate_flush(s) ==
    IF Full(s) THEN [s EXCEPT !.abort = TRUE]
    ELSE Loop(FlushStep, [s |-> EndBlock(s), go |-> TRUE]).s

SendFlushed(s) ==
    IF ~s.err /\ ~s.abort /\ s.send = 0 /\ FillBuf(s) # <<>>
    THEN deflate_rotate_and_send(s) ELSE s
deflate_flush_send(s) == SendFlushed(deflate_flush(s))

deflate_nagle_timeout(s) ==
    IF s.send # 0 THEN [s EXCEPT !.tm_ev = TRUE]
    ELSE deflate_flush_send([s EXCEPT !.nagle = FALSE, !.tm_ev = FALSE])

----------------------------------------------------------------------------
(* Writing.                                                                *)

\* What deflate() consumes of the units `in', after it output what it had to.
\* When it flushes it outputs everything; otherwise it may end a block after
\* `block' units (none when negative), and consumes no more when that fills
\* the buffer.
Consume(l) ==
    LET s == l.s
        n == IF s.flush \/ l.block < 0 THEN Len(l.in) ELSE l.block
        s1 == [s EXCEPT !.z = @ \o SubSeq(l.in, 1, n), !.unflushed = @ + n]
        ended == IF s.flush \/ l.block >= 0 THEN Output(EndBlock(s1)) ELSE s1
        rest == SubSeq(l.in, n + 1, Len(l.in))
    IN  IF Full(s) THEN l
        ELSE IF Full(ended) THEN [l EXCEPT !.s = ended, !.in = rest, !.block = -1]
        ELSE [l EXCEPT !.s = [ended EXCEPT !.z = @ \o rest, !.unflushed = @ + Len(rest)],
                       !.in = <<>>, !.block = -1]

\* A round of deflate_add(); `early' when it returns from within the loop.
AddFull(l) ==
    IF l.s.send # 0
    THEN [l EXCEPT !.s.flowc = TRUE, !.early = TRUE]
    ELSE LET sent == deflate_rotate_and_send(l.s)
         IN  [l EXCEPT !.s = sent, !.early = sent.err]
AddEnd(l, flushing) ==
    LET ended == flushing /\ l.in = <<>> /\ ~l.early
    IN  [l EXCEPT !.s = IF ended THEN deflate_flushed(l.s) ELSE l.s,
                  !.go = ~l.early /\ l.in # <<>>]
AddRound(l, flushing) == AddEnd(IF Full(l.s) THEN AddFull(l) ELSE l, flushing)
AddStep(l) == AddRound(Consume([l EXCEPT !.s = Output(l.s)]), l.s.flush)

NagleOn(s) == IF s.user = "node" THEN [s EXCEPT !.nagle = TRUE, !.tm_ev = TRUE] ELSE s
AddDone(s) ==
    IF s.user = "node" /\ s.unflushed > BufferFlush THEN deflate_flush(s) ELSE s

\* What the writer is left with, and the end of deflate_add().
Added(l) ==
    LET s == [l.s EXCEPT !.left = Len(l.in), !.written = @ - Len(l.in)]
    IN  IF l.early THEN s ELSE AddDone(NagleOn(s))

deflate_add(s, n, block) ==
    IF Full(s) THEN [s EXCEPT !.abort = TRUE]
    ELSE Added(Loop(AddStep, [s |-> [s EXCEPT !.written = @ + n],
                              in |-> Units(s.written + 1, s.written + n),
                              block |-> block, early |-> FALSE, go |-> TRUE]))

\* tx_deflate_write() of n units, through tx_write().
tx_deflate_write(s, n, block) ==
    IF s.flowc THEN [s EXCEPT !.left = n] ELSE deflate_add(s, n, block)

\* The queue of a node wants to be serviced as long as it has units left; an
\* upload always does.
WantService(s) == [s EXCEPT !.upsrv = s.eager \/ s.left > 0]

----------------------------------------------------------------------------
(* Flushing and closing.                                                   *)

tx_deflate_flush(s) ==
    IF s.nagle THEN deflate_nagle_timeout(s)
    ELSE IF ~s.flowc THEN deflate_flush_send(s)
    ELSE s

\* Fault: the buffer being sent is forgotten.
NoneFilled(s) == FillBuf(s) = <<>> /\ s.unflushed = 0
\* tx_deflate_pending() = 0
NonePending(s) ==
    /\ FillBuf(s) = <<>> /\ (s.send # 0 => s.buf[s.send] = <<>>)
    /\ s.unflushed = 0

\* The layer invokes tx_close_next().
Closed(s) == [s EXCEPT !.closed = TRUE, !.srv = FALSE]
ClosedIfSent(s) == IF ~s.err /\ ~s.abort /\ NonePending(s) THEN Closed(s) ELSE s

\* The gzip trailer, one more unit, is sent if everything was flushed.
Trailer(s) ==
    IF s.user = "gzip" /\ ~s.err /\ ~s.abort /\ NonePending(s)
    THEN deflate_send([s EXCEPT !.send = 1, !.buf[1] = <<s.written + 1>>,
                                !.written = @ + 1, !.trailed = TRUE])
    ELSE s

\* tx_close() and tx_deflate_close()
tx_close(s) ==
    ClosedIfSent(Trailer(tx_deflate_flush(
        [s EXCEPT !.eager = FALSE, !.upsrv = FALSE, !.closing = TRUE])))

----------------------------------------------------------------------------
(* Servicing.                                                              *)

\* The service routine of the upper layer: the queue of a node writes what it
\* has left; an upload writes what it has left, or n more units, or closes the
\* stack when it has no more (n = 0).
UpperService(s, n, block) ==
    IF ~s.upsrv THEN s
    ELSE IF s.left > 0 THEN WantService(tx_deflate_write(s, s.left, Min({block, s.left})))
    ELSE IF n > 0 THEN WantService(tx_deflate_write(s, n, Min({block, n})))
    ELSE tx_close(s)

\* deflate_service() is, in this order: the rest of the send buffer, the filling
\* one if it is full, then the flags, then the upper layer.
SendPending(s) == IF s.send # 0 THEN deflate_send(s) ELSE s
\* Fault: a full buffer is left to the next write.
SendFullNever(s) == s
SendFull(s) == IF s.send = 0 /\ Full(s) THEN deflate_rotate_and_send(s) ELSE s
\* Fault: flow control is not cleared.
KeepFlowControl(s) == [s EXCEPT !.srv = s.send # 0 \/ s.eager]
EndFlowControl(s) == [s EXCEPT !.srv = s.send # 0 \/ s.eager, !.flowc = FALSE]
\* Fault: a closing stack is serviced as any other.
ServiceNotClosing(s, n, block) == UpperService(s, n, block)
ServiceUpper(s, n, block) ==
    IF s.closing THEN ClosedIfSent(deflate_flush_send(s)) ELSE UpperService(s, n, block)
ServiceFilled(s, n, block) ==
    IF s.err THEN s ELSE ServiceUpper(EndFlowControl(s), n, block)
ServiceSent(s, n, block) ==
    IF s.send # 0 THEN s ELSE ServiceFilled(SendFull(s), n, block)
deflate_service(s, n, block) == ServiceSent(SendPending(s), n, block)

----------------------------------------------------------------------------
(* Actions.                                                                *)

Alive == ~d.err /\ ~d.abort /\ ~d.down /\ ~d.closed
Blocks == -1 .. MaxWrite
More == 1 .. Min({MaxWrite, MaxUnits - d.written})

\* A node writes when its queue is empty.
Write ==
    /\ Alive /\ d.user = "node" /\ d.left = 0
    /\ \E n \in More : \E block \in -1 .. n :
        d' = WantService(tx_deflate_write(d, n, block))

\* mq_flush(), or tx_flush() after a prioritary message.
Flush == Alive /\ d.user = "node" /\ d' = tx_deflate_flush(d)

NagleTimeout == Alive /\ d.tm_ev /\ d' = deflate_nagle_timeout(d)

\* The link accepts more, and calls the service routine if it is enabled.
Writable(room) ==
    /\ Alive /\ d.room # Broken
    /\ room > d.room \/ (d.srv /\ room = d.room)
    /\ LET s == [d EXCEPT !.room = room]
       IN  \/ /\ d.srv /\ d.user = "node"
              /\ \E block \in Blocks : d' = deflate_service(s, 0, block)
           \/ /\ d.srv /\ d.user # "node"
              /\ \E n \in More \cup {0}, block \in Blocks : d' = deflate_service(s, n, block)
           \/ ~d.srv /\ d' = s

\* The connection breaks.
Break == Alive /\ d.room # Broken /\ d' = [d EXCEPT !.room = Broken]

\* tx_shutdown(): the owner of the stack disposes of it.
Shutdown ==
    Alive /\ d' = [NagleStop(d) EXCEPT !.down = TRUE, !.srv = FALSE, !.upsrv = FALSE]

\* tx_deflate_init(), with the gzip header in the first buffer, and
\* tx_eager_mode() for uploads.
DeflateInit ==
    \E u \in User :
        d = [user |-> u, buf |-> <<IF u = "gzip" THEN <<1>> ELSE <<>>, <<>>>>,
             fill |-> 1, send |-> 0, z |-> <<>>, zout |-> <<>>, unflushed |-> 0,
             flowc |-> FALSE, nagle |-> FALSE, tm_ev |-> FALSE, flush |-> FALSE,
             srv |-> u # "node", upsrv |-> u # "node", eager |-> u # "node",
             room |-> 0, sent |-> 0, written |-> IF u = "gzip" THEN 1 ELSE 0, left |-> 0,
             closing |-> FALSE, closed |-> FALSE, trailed |-> FALSE,
             err |-> FALSE, abort |-> FALSE, down |-> FALSE]

DeflateNext ==
    \/ Write
    \/ Flush
    \/ NagleTimeout
    \/ \E room \in 1 .. MaxRoom : Writable(room)
    \/ Break
    \/ Shutdown

DeflateSpec == DeflateInit /\ [][DeflateNext]_d

\* The link calls the service routine as long as it is enabled and the link is
\* writable, and the timer fires; both as weak fairness, with the condition in
\* which the step can be taken written out.
Servicing == \E room \in 1 .. MaxRoom : Writable(room)
CanService == Alive /\ d.room # Broken /\ (d.srv \/ d.room < MaxRoom)
CanTimeout == Alive /\ d.tm_ev /\ d.send = 0
FairDeflateSpec ==
    /\ DeflateSpec
    /\ []<>~CanService \/ []<><<Servicing>>_d
    /\ []<>~CanTimeout \/ []<><<NagleTimeout>>_d

----------------------------------------------------------------------------

\* The flags agree with the timer; buffers and counters are within bounds.
DeflateTypeOK ==
    /\ d.fill \in 1 .. 2 /\ d.send \in 0 .. 2 /\ (d.nagle <=> d.tm_ev)
    /\ \A i \in 1 .. 2 : Len(d.buf[i]) <= BufferSize
    /\ d.room \in Broken .. MaxRoom /\ d.left \in 0 .. MaxWrite
    /\ d.unflushed \in 0 .. d.written

\* The send buffer, the filling buffer and the compressor hold, in that order,
\* all the units accepted and not yet given to the link: none is lost, repeated
\* or overtaken when deflate_rotate_and_send() swaps the buffers and the link
\* accepts a part of one.
StreamExact ==
    ~d.err =>
        LET sending == IF d.send # 0 THEN d.buf[d.send] ELSE <<>>
            filling == IF d.send = d.fill THEN <<>> ELSE FillBuf(d)
        IN  sending \o filling \o d.zout \o d.z = Units(d.sent + 1, d.written)

\* deflate() is never called on a full buffer, the assertions of deflate_add()
\* and deflate_flush(): the filling buffer is full only in flow control.
RoomToDeflate == ~d.abort /\ (Full(d) => d.flowc)

\* What waits is waited for: flow control stands on a send buffer, which the link
\* was asked to service, and units refused to the upper layer on a link that
\* will service the layer, which will service the upper one.
FlowcServiced ==
    Alive => /\ (d.flowc => d.send # 0)
             /\ (d.send # 0 => d.srv)
             /\ (d.left > 0 => d.upsrv /\ d.srv)

\* What deflate_add(), deflate_flush() and deflate_service() rely on: room to
\* compress into, and for all that waits, someone who was asked to service it.
DeflateInv == DeflateTypeOK /\ RoomToDeflate /\ FlowcServiced

\* tx_close() calls back once all the units accepted were given to the link,
\* those still in the compressor when it was called included.  (The trailer of a
\* gzip stream is no unit of it: a close that is delayed never makes one.)
ClosedSent == d.closed => d.sent = d.written

\* A stack that is closed calls back, as long as the link accepts data.
CloseEnds == d.closing ~> (~Alive \/ d.room = Broken)

\* Flow control of the upper layer ends, as long as the link accepts data.
FlowcEnds == d.flowc ~> (~d.flowc \/ ~Alive \/ d.room = Broken)
=============================================================================
