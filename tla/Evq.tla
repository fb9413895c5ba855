-------------------------------- MODULE Evq ---------------------------------
(***************************************************************************)
(* The event queue (src/lib/evq.c): threads register events with a delay   *)
(* and have them dispatched in their own context.  The events are in the   *)
(* callout queue of a private thread, the evq thread, which transfers those *)
(* that trigger to the queue of their thread and signals it.               *)
(*                                                                         *)
(* Seen from the callout queue (src/lib/cq.c) all the events are foreign,  *)
(* hence extended: the registering thread, the evq thread and the callout  *)
(* queue free them together.  An action is what a thread does with the     *)
(* lock of a queue held, or between two accesses to what it shares with    *)
(* others.  When an event triggers is left open: delays are not modelled.  *)
(*                                                                         *)
(* A failed assertion, or an access to freed memory, ends the program:     *)
(* abort tells where.                                                      *)
(***************************************************************************)
EXTENDS Integers, Sequences, SequencesExt, FiniteSets

CONSTANTS
    Thread,         \* thread IDs, which a later thread may reuse
    Eve,            \* event structures (evq_event_t)
    MaxQueue,       \* bound: number of queues ever created
    Null

ASSUME EvqAssumption == MaxQueue \in Nat /\ Null \notin Thread \cup Eve

VARIABLES
    eve,            \* the events
    evqs,           \* evqs[]: queue ID of each thread, 0 when it has none
    queue,          \* the queues: refcnt, events, triggered
    next_qid,       \* evq_queue_id
    thread,         \* what each thread does
    sig,            \* threads that have TSIG_EVQ pending
    lost,           \* threads whose last TSIG_EVQ was cleared, not handled
    tramp,          \* the evq thread: place in evq_trampoline()
    call,           \* cq->cq_call of the callout queue
    raced,          \* whether evq_cancel() met an event being handed over
    abort           \* where the program failed, or "no"

evqvars == <<eve, evqs, queue, next_qid, thread, sig, lost, tramp, call, raced, abort>>

Qid == 1..MaxQueue

\* ev: whether eve->ev is set; ce: the event in the callout queue; held:
\* whether the user holds it, to call evq_cancel().
FreeEve == [live |-> FALSE, ref |-> 0, cancelable |-> FALSE, cancelled |-> FALSE,
            ev |-> FALSE, ce |-> "none", qid |-> 0, stid |-> Null, held |-> FALSE]

Idle == [pc |-> "idle", eve |-> Null, qid |-> 0, ev |-> FALSE]
Running == [pc |-> "run", eve |-> Null, qid |-> 0]
Gone == [pc |-> "gone", eve |-> Null, qid |-> 0]

Going == abort = "no"
Fail(where) == /\ abort' = where
               /\ UNCHANGED <<eve, evqs, queue, next_qid, thread, sig, lost, tramp, call, raced>>

----------------------------------------------------------------------------
(* Releasing events.                                                       *)

\* cq_cancel(&eve->ev): frees the callout event, triggered or not.
CqCancelled(r) == IF r.ev THEN [r EXCEPT !.ev = FALSE, !.ce = "freed"] ELSE r

\* Fault: the event is freed although it is still referenced.
UnrefAlways(r) == FreeEve
\* atomic_int_dec_is_zero(), then evq_event_free().
Unref(r) == IF r.ref = 1 THEN FreeEve ELSE [r EXCEPT !.ref = @ - 1]

----------------------------------------------------------------------------
(* A thread registers and cancels events, directly or from a callback.     *)

Busy(t) == thread[t].pc \in {"run", "callback"}

\* evq_add(), and evq_local_init() for the first event of the thread.  What
\* becomes of memory reused after a race is not explored.
evq_add(t, cancelable) ==
    LET q == IF evqs[t] # 0 THEN evqs[t] ELSE next_qid
    IN  /\ Going /\ ~raced /\ Busy(t) /\ q <= MaxQueue
        /\ \E e \in Eve :
              /\ ~eve[e].live
              /\ eve' = [eve EXCEPT ![e] =
                    [live |-> TRUE, ref |-> IF cancelable THEN 3 ELSE 2,
                     cancelable |-> cancelable, cancelled |-> FALSE, ev |-> TRUE,
                     ce |-> "linked", qid |-> q, stid |-> t, held |-> cancelable]]
              /\ queue' = [queue EXCEPT ![q].ref = IF evqs[t] = 0 THEN 1 ELSE @,
                                        ![q].events = @ \cup {e}]
        /\ evqs' = [evqs EXCEPT ![t] = q]
        /\ next_qid' = IF evqs[t] = 0 THEN next_qid + 1 ELSE next_qid
        /\ UNCHANGED <<thread, sig, lost, tramp, call, raced, abort>>

Triggered(r) == ~r.ev \/ r.ce = "fired"

\* Fault: the event is not flagged as cancelled.
CancelUnflagged(r) ==
    IF r.ref = 3 /\ ~Triggered(r) THEN FreeEve
    ELSE Unref([CqCancelled(r) EXCEPT !.held = FALSE])
\* What evq_cancel() makes of the event: with no triggering yet, it is freed;
\* otherwise only with its last reference.
CancelOf(r) ==
    IF r.ref = 3 /\ ~Triggered(r) THEN FreeEve
    ELSE Unref([CqCancelled(r) EXCEPT !.cancelled = TRUE, !.held = FALSE])

evq_cancel(t, e) ==
    /\ Going /\ Busy(t)
    /\ eve[e].live /\ eve[e].stid = t /\ eve[e].held
    /\ eve' = [eve EXCEPT ![e] = CancelOf(@)]
    /\ queue' = IF eve[e].ref = 3 /\ ~Triggered(eve[e])
                THEN [queue EXCEPT ![eve[e].qid].events = @ \ {e}] ELSE queue
    /\ raced' = (raced \/ eve[e].ce = "fired")
    /\ UNCHANGED <<evqs, next_qid, thread, sig, lost, tramp, call, abort>>

----------------------------------------------------------------------------
(* The evq thread.                                                         *)

\* cq_expire_internal(): the callout event triggers, and is called out.
Fire(e) ==
    /\ Going /\ tramp.pc = "idle"
    /\ eve[e].ce = "linked"
    /\ eve' = [eve EXCEPT ![e].ce = "fired"]
    /\ call' = e
    /\ tramp' = [Idle EXCEPT !.pc = "get", !.eve = e]
    /\ UNCHANGED <<evqs, queue, next_qid, thread, sig, lost, raced, abort>>

te == eve[tramp.eve]
SetTe(r) == eve' = [eve EXCEPT ![tramp.eve] = r]
Goto(pc) == tramp' = [tramp EXCEPT !.pc = pc]

\* The evq thread is at this place in evq_trampoline(), and the event it was
\* given is still allocated.
At(pc) == Going /\ tramp.pc = pc /\ te.live
\* Places where it looks at the event: evq_event_check().
Looking == tramp.pc \in {"get", "lock", "read", "ack", "unref"}
TrampolineFreed == Going /\ Looking /\ ~te.live /\ Fail("eve")

\* The queue found is the one where the event was put.
SameQueue(q, r) == q = r.qid

\* evq_trampoline(): gets the queue of the thread, if any, with a reference.
TrampolineGet ==
    /\ At("get")
    /\ LET q == evqs[te.stid] IN
        /\ queue' = IF q = 0 THEN queue ELSE [queue EXCEPT ![q].ref = @ + 1]
        /\ tramp' = [tramp EXCEPT !.qid = q,
                        !.pc = IF q # 0 /\ SameQueue(q, te) THEN "lock" ELSE "read"]
    /\ UNCHANGED <<eve, evqs, next_qid, thread, sig, lost, call, raced, abort>>

\* cq_zero(): a foreign event recorded nowhere is freed all the same.
CqZeroFails == ~te.ev
CqZeroed(r) == [r EXCEPT !.ev = FALSE, !.ce = "freed"]

\* Fault: the reference of the evq thread is kept.
HandedKept(r) == CqZeroed(r)
\* The event zeroed, with one reference less.
Handed(r) == [CqZeroed(r) EXCEPT !.ref = @ - 1]

\* thread_kill(id, TSIG_EVQ)
Signal(t) == sig' = sig \cup {t}

\* With the queue locked, zeroes the event and hands it to its thread, or drops
\* it when the thread cannot be signalled.  (The test for an event cancelled in
\* between never succeeds: cancelling clears eve->ev, which fails cq_zero() first.)
TrampolineHandover ==
    LET q == tramp.qid
    IN  /\ At("lock") /\ ~CqZeroFails
        /\ call' = Null
        /\ \/ /\ thread[te.stid].pc # "gone"
              /\ SetTe(Handed(te))
              /\ queue' = [queue EXCEPT ![q].events = @ \ {tramp.eve},
                                        ![q].triggered = Append(@, tramp.eve)]
              /\ Signal(te.stid)
              /\ Goto("release")
           \/ /\ thread[te.stid].pc \in {"gone", "exit"}
              /\ SetTe(Handed(te))
              /\ queue' = [queue EXCEPT ![q].events = @ \ {tramp.eve}]
              /\ UNCHANGED sig
              /\ Goto("unref")
        /\ UNCHANGED <<evqs, next_qid, thread, lost, raced, abort>>

TrampolineFails == At("lock") /\ CqZeroFails /\ Fail("zero")

\* No queue for the event: reads eve->ev, then acknowledges it to the callout
\* queue (cq_acknowledge(), which looks at the event if it has one).
TrampolineRead ==
    /\ At("read")
    /\ tramp' = [tramp EXCEPT !.pc = "ack", !.ev = te.ev]
    /\ UNCHANGED <<eve, evqs, queue, next_qid, thread, sig, lost, call, raced, abort>>

TrampolineAck ==
    /\ At("ack")
    /\ IF tramp.ev /\ te.ce = "freed" THEN Fail("ack")
       ELSE /\ call' = Null
            /\ Goto("unref")
            /\ UNCHANGED <<eve, evqs, queue, next_qid, thread, sig, lost, raced, abort>>

TrampolineUnref ==
    /\ At("unref")
    /\ SetTe(Unref(te))
    /\ Goto(IF tramp.qid # 0 THEN "release" ELSE "return")
    /\ UNCHANGED <<evqs, queue, next_qid, thread, sig, lost, call, raced, abort>>

\* evq_release(): the last reference makes us discard the events.
TrampolineRelease ==
    /\ Going /\ tramp.pc = "release"
    /\ queue' = [queue EXCEPT ![tramp.qid].ref = @ - 1]
    /\ Goto(IF queue[tramp.qid].ref = 1 THEN "discard" ELSE "return")
    /\ UNCHANGED <<eve, evqs, next_qid, thread, sig, lost, call, raced, abort>>

\* The end of cq_expire_internal(): the event is freed, if not acknowledged.
TrampolineReturn ==
    /\ Going /\ tramp.pc = "return"
    /\ eve' = IF call = Null THEN eve ELSE [eve EXCEPT ![call].ce = "freed"]
    /\ call' = Null
    /\ tramp' = Idle
    /\ UNCHANGED <<evqs, queue, next_qid, thread, sig, lost, raced, abort>>

Trampoline ==
    \/ TrampolineGet \/ TrampolineHandover \/ TrampolineFails \/ TrampolineFreed
    \/ TrampolineRead \/ TrampolineAck \/ TrampolineUnref
    \/ TrampolineRelease \/ TrampolineReturn

----------------------------------------------------------------------------
(* evq_local_dispatch(), the signal handler of TSIG_EVQ in each thread.    *)

SetThread(t, pc, e, q) ==
    thread' = [thread EXCEPT ![t] = [pc |-> pc, eve |-> e, qid |-> q]]

\* thread_sig_handle(): the signal is no longer pending when its handler starts.
DispatchStart(t) ==
    /\ Going /\ thread[t].pc = "run" /\ t \in sig
    /\ sig' = sig \ {t}
    /\ lost' = lost \ {t}
    /\ SetThread(t, "dispatch", Null, 0)
    /\ UNCHANGED <<eve, evqs, queue, next_qid, tramp, call, raced, abort>>

\* thread_sig_handle() clears the signal and does not handle it: it came after
\* the pending signals were read, for the sake of another one, and before they
\* were cleared; or the thread is in a handler of kernel signals.
SignalCleared(t) ==
    /\ Going /\ thread[t].pc = "run" /\ t \in sig
    /\ sig' = sig \ {t}
    /\ lost' = lost \cup {t}
    /\ UNCHANGED <<eve, evqs, queue, next_qid, thread, tramp, call, raced, abort>>

\* The next event triggered: freed if it was cancelled, called otherwise.
DispatchNext(t) ==
    LET q == evqs[t]
        e == Head(queue[q].triggered)
    IN  /\ Going /\ thread[t].pc = "dispatch"
        /\ q # 0 /\ queue[q].triggered # <<>>
        /\ queue' = [queue EXCEPT ![q].triggered = Tail(@)]
        /\ \/ eve[e].cancelled /\ eve' = [eve EXCEPT ![e] = FreeEve] /\ UNCHANGED thread
           \/ ~eve[e].cancelled /\ SetThread(t, "callback", e, 0) /\ UNCHANGED eve
        /\ UNCHANGED <<evqs, next_qid, sig, lost, tramp, call, raced, abort>>

CallbackReturns(t) ==
    /\ Going /\ thread[t].pc = "callback"
    /\ eve' = [eve EXCEPT ![thread[t].eve] = Unref(@)]
    /\ SetThread(t, "dispatch", Null, 0)
    /\ UNCHANGED <<evqs, queue, next_qid, sig, lost, tramp, call, raced, abort>>

\* The last look at the list, with the lock held, finds it empty.
DispatchEmpty(t) ==
    /\ Going /\ thread[t].pc = "dispatch"
    /\ evqs[t] # 0 => queue[evqs[t]].triggered = <<>>
    /\ SetThread(t, "leave", Null, 0)
    /\ UNCHANGED <<eve, evqs, queue, next_qid, sig, lost, tramp, call, raced, abort>>

\* Fault: what came while the handler was running is forgotten as it returns.
DispatchForgets(t) ==
    /\ Going /\ thread[t].pc = "leave"
    /\ thread' = [thread EXCEPT ![t] = Running]
    /\ sig' = sig \ {t}
    /\ UNCHANGED <<eve, evqs, queue, next_qid, lost, tramp, call, raced, abort>>
\* The handler returns; a signal sent in between is still pending.
DispatchEnd(t) ==
    /\ Going /\ thread[t].pc = "leave"
    /\ thread' = [thread EXCEPT ![t] = Running]
    /\ UNCHANGED <<eve, evqs, queue, next_qid, sig, lost, tramp, call, raced, abort>>

----------------------------------------------------------------------------
(* Threads end, with the queue they had; others take their IDs.            *)

\* evq_free(): the queue is no longer found.  The user of the thread will not
\* cancel its events any more.
evq_free(t) ==
    /\ Going /\ thread[t].pc = "run"
    /\ evqs' = [evqs EXCEPT ![t] = 0]
    /\ SetThread(t, "exit", Null, evqs[t])
    /\ eve' = [e \in Eve |-> IF eve[e].stid = t THEN [eve[e] EXCEPT !.held = FALSE] ELSE eve[e]]
    /\ lost' = lost \ {t}
    /\ UNCHANGED <<queue, next_qid, sig, tramp, call, raced, abort>>

\* evq_release() by the thread.
ThreadRelease(t) ==
    LET q == thread[t].qid
    IN  /\ Going /\ thread[t].pc = "exit"
        /\ queue' = IF q = 0 THEN queue ELSE [queue EXCEPT ![q].ref = @ - 1]
        /\ thread' = [thread EXCEPT ![t] =
              IF q # 0 /\ queue[q].ref = 1 THEN [@ EXCEPT !.pc = "discard"] ELSE Gone]
        /\ UNCHANGED <<eve, evqs, next_qid, sig, lost, tramp, call, raced, abort>>

\* What a queue has left to discard.
Left(q) == queue[q].events \cup Range(queue[q].triggered)

\* evq_event_discard()
Discarded(r) == IF r.cancelable THEN Unref([CqCancelled(r) EXCEPT !.ref = @ - 1]) ELSE Unref(r)

\* The events not triggered are discarded first, then the others in order.
NextLeft(q) ==
    IF queue[q].events # {} THEN queue[q].events
    ELSE IF queue[q].triggered # <<>> THEN {Head(queue[q].triggered)} ELSE {}

DiscardOne(q, e) ==
    /\ eve' = [eve EXCEPT ![e] = Discarded(@)]
    /\ queue' = IF e \in queue[q].events
                THEN [queue EXCEPT ![q].events = @ \ {e}]
                ELSE [queue EXCEPT ![q].triggered = Tail(@)]
    /\ UNCHANGED <<evqs, next_qid, thread, sig, lost, tramp, call, raced, abort>>

ThreadDiscards(t) ==
    LET q == thread[t].qid
    IN  /\ Going /\ thread[t].pc = "discard"
        /\ \/ \E e \in NextLeft(q) : DiscardOne(q, e)
           \/ /\ Left(q) = {}
              /\ thread' = [thread EXCEPT ![t] = Gone]
              /\ UNCHANGED <<eve, evqs, queue, next_qid, sig, lost, tramp, call, raced, abort>>

\* The evq thread may only discard events that cannot be cancelled: it is
\* not the thread that registered them.
TrampolineDiscards ==
    LET q == tramp.qid
    IN  /\ Going /\ tramp.pc = "discard"
        /\ \/ \E e \in NextLeft(q) :
                 IF eve[e].cancelable THEN Fail("discard") ELSE DiscardOne(q, e)
           \/ /\ Left(q) = {}
              /\ Goto("return")
              /\ UNCHANGED <<eve, evqs, queue, next_qid, thread, sig, lost, call, raced, abort>>

\* A new thread is given the ID.
ThreadStart(t) ==
    /\ Going /\ thread[t].pc = "gone" /\ next_qid <= MaxQueue
    /\ thread' = [thread EXCEPT ![t] = Running]
    /\ sig' = sig \ {t}
    /\ UNCHANGED <<eve, evqs, queue, next_qid, lost, tramp, call, raced, abort>>

----------------------------------------------------------------------------
EvqInit ==
    /\ eve = [e \in Eve |-> FreeEve]
    /\ evqs = [t \in Thread |-> 0]
    /\ queue = [q \in Qid |-> [ref |-> 0, events |-> {}, triggered |-> <<>>]]
    /\ next_qid = 1
    /\ thread = [t \in Thread |-> Running]
    /\ sig = {}
    /\ lost = {}
    /\ tramp = Idle
    /\ call = Null
    /\ raced = FALSE
    /\ abort = "no"

ThreadStep(t) ==
    \/ \E c \in BOOLEAN : evq_add(t, c)
    \/ \E e \in Eve : evq_cancel(t, e)
    \/ DispatchStart(t) \/ SignalCleared(t) \/ DispatchNext(t) \/ CallbackReturns(t)
    \/ DispatchEmpty(t) \/ DispatchEnd(t)
    \/ evq_free(t) \/ ThreadRelease(t) \/ ThreadDiscards(t) \/ ThreadStart(t)

EvqNext ==
    \/ \E t \in Thread : ThreadStep(t)
    \/ \E e \in Eve : Fire(e)
    \/ Trampoline \/ TrampolineDiscards

EvqSpec == EvqInit /\ [][EvqNext]_evqvars

\* The evq thread runs and expires each event; a thread handles the signal it
\* has pending, its handler goes on, and callbacks return.
Dispatch(t) ==
    \/ DispatchStart(t) \/ DispatchNext(t) \/ CallbackReturns(t)
    \/ DispatchEmpty(t) \/ DispatchEnd(t)
EvqFairness ==
    /\ WF_evqvars(Trampoline \/ TrampolineDiscards)
    /\ \A e \in Eve : SF_evqvars(Fire(e))
    /\ \A t \in Thread : WF_evqvars(Dispatch(t))
FairEvqSpec == EvqSpec /\ EvqFairness

----------------------------------------------------------------------------
EveType == [live : BOOLEAN, ref : -1..3, cancelable : BOOLEAN, cancelled : BOOLEAN,
            ev : BOOLEAN, ce : {"none", "linked", "fired", "freed"},
            qid : 0..MaxQueue, stid : Thread \cup {Null}, held : BOOLEAN]
QueueType == [ref : 0..2, events : SUBSET Eve, triggered : Seq(Eve)]
ThreadType == [pc : {"run", "dispatch", "callback", "leave", "exit", "discard", "gone"},
               eve : Eve \cup {Null}, qid : 0..MaxQueue]
TrampType == [pc : {"idle", "get", "lock", "read", "ack", "unref", "release",
                    "discard", "return"},
              eve : Eve \cup {Null}, qid : 0..MaxQueue, ev : BOOLEAN]

\* The types of struct evq_event and struct evq.  There are at most the three
\* references of evq_add(); evq_event_discard() drops that of the user even if
\* the event was cancelled, hence -1, and the event is then never freed.
EvqTypeOK ==
    /\ eve \in [Eve -> EveType]
    /\ evqs \in [Thread -> 0..MaxQueue]
    /\ queue \in [Qid -> QueueType]
    /\ next_qid \in 1..MaxQueue + 1
    /\ thread \in [Thread -> ThreadType]
    /\ sig \subseteq Thread /\ lost \subseteq Thread
    /\ tramp \in TrampType
    /\ call \in Eve \cup {Null}
    /\ raced \in BOOLEAN
    /\ abort \in {"no", "zero", "ack", "discard", "eve"}

\* A cancelable event whose thread ended: evq_event_discard() cancels it.
Orphan(e) == eve[e].cancelable /\ evqs[eve[e].stid] # eve[e].qid

\* No event is freed while something still refers to it: evq_trampoline(),
\* the lists of a queue, the callback of a thread, cq->cq_call.  Nor is the
\* event of the callout queue, while it is called out: but for a cancelable
\* event whose thread ended (evq.c:477), see ExitFailures.  This leaves out
\* what follows when evq_cancel() meets an event that triggered and is not
\* handed over yet: CancelWhileDispatched.
NoUseAfterFree == ~raced =>
    /\ Looking => te.live
    /\ \A q \in Qid : \A e \in Left(q) : eve[e].live /\ eve[e].qid = q
    /\ \A t \in Thread : thread[t].pc = "callback" => eve[thread[t].eve].live
    /\ call # Null => eve[call].live /\ (eve[call].ce = "fired" \/ Orphan(call))
    /\ tramp.pc = "return" => call = Null

\* With no such race, the program fails in two places only, both after the exit
\* of a thread that leaves a cancelable event: evq_trampoline() acknowledges the
\* callout event which evq_event_discard() has freed since it read eve->ev
\* (evq.c:857), or the evq thread is the last to release the queue, and may not
\* discard the event (evq.c:472).
ExitFailures == ~raced =>
    \/ Going
    \/ abort = "ack" /\ Orphan(tramp.eve)
    \/ abort = "discard" /\ \E e \in Left(tramp.qid) : Orphan(e)

\* The references counted are those held: the user's until it cancels the
\* event, the evq thread's until it has handed the event over, and the one of
\* the queue until the event is dispatched.
RefcntExact ==
    \A e \in Eve : ~raced /\ eve[e].live /\ evqs[eve[e].stid] = eve[e].qid =>
        LET user == eve[e].held
            evq == eve[e].ce \in {"linked", "fired"} \/ (tramp.eve = e /\ Looking)
            list == \/ e \in Left(eve[e].qid)
                    \/ \E t \in Thread : thread[t].pc = "callback" /\ thread[t].eve = e
        IN  eve[e].ref = Cardinality({i \in 1..3 : <<user, evq, list>>[i]})

\* A thread that has events triggered will dispatch them: its signal is
\* pending, even if it came after the handler last looked at the list, or its
\* handler is going to look again.  The one exception is a signal that
\* thread_sig_handle() cleared without handling it: the next one makes up for it.
NoLostSignal ==
    \A t \in Thread :
        ~raced /\ Going /\ evqs[t] # 0 /\ queue[evqs[t]].triggered # <<>> =>
            t \in sig \cup lost \/ thread[t].pc \in {"dispatch", "callback"}

\* What evq_trampoline(), evq_local_dispatch(), evq_cancel() and the exit of a
\* thread maintain together: what is referred to is allocated, the two failures
\* are those of a thread that ends with cancelable events, and a thread that has
\* events triggered is going to look at them.
EvqInv == EvqTypeOK /\ NoUseAfterFree /\ ExitFailures /\ NoLostSignal

\* Once evq_cancel() returned, the callback of the event is not called.
NeverAfterCancel ==
    [][\A t \in Thread :
          ~raced /\ thread'[t].pc = "callback" /\ thread[t].pc # "callback"
            => ~eve[thread'[t].eve].cancelable \/ eve[thread'[t].eve].held]_evqvars

\* An event that waits in the callout queue, cancelable or not, is called back
\* or cancelled in the end, unless its thread ends or the signal is one that
\* thread_sig_handle() cleared.
EventHandled ==
    LET Called(e) == \E t \in Thread : thread[t].pc = "callback" /\ thread[t].eve = e
    IN  \A e \in Eve :
            (eve[e].live /\ eve[e].ce = "linked")
                ~> \/ ~eve[e].live \/ Called(e) \/ eve[e].cancelled
                   \/ evqs[eve[e].stid] # eve[e].qid \/ eve[e].stid \in lost
                   \/ raced \/ ~Going

\* evq_cancel() may be called whilst the event is being dispatched by the evq
\* thread: cq_zero(), which evq_trampoline() calls next, copes with that.
CancelWhileDispatched == abort # "zero"
=============================================================================
