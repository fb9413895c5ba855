----------------------------- MODULE EvqProofs ------------------------------
(***************************************************************************)
(* Proofs about the event queue: whatever the threads, their events and    *)
(* the number of queues, no event is freed while something refers to it,   *)
(* the reference counts are exact and no signal is lost.                   *)
(***************************************************************************)
EXTENDS Evq, CollectionLemmas

Bit(b) == IF b THEN 1 ELSE 0

----------------------------------------------------------------------------
(* Who refers to an event.                                                 *)

Looked(e) == tramp.eve = e /\ Looking
CalledBack(e) == \E t \in Thread : thread[t].pc = "callback" /\ thread[t].eve = e
Listed(e) == e \in Left(eve[e].qid)
\* The thread that registered the event still has the queue where it is.
Owned(e) == evqs[eve[e].stid] = eve[e].qid
Engaged(e) == eve[e].ce = "linked" \/ Looked(e)
\* The user's reference, while it may still be dropped.
Promised(e) == eve[e].cancelable /\ ~eve[e].cancelled

\* The references of an event.
RefsOK(e) == eve[e].live =>
    /\ Owned(e) => /\ eve[e].held <=> Promised(e)
                   /\ eve[e].ref = Bit(Promised(e)) + Bit(Engaged(e))
                                    + Bit(Listed(e) \/ CalledBack(e))
    /\ ~Owned(e) /\ Listed(e) =>
            eve[e].ref = Bit(Promised(e)) + Bit(Engaged(e)) + 1
    /\ ~Owned(e) /\ ~Listed(e) => eve[e].ref \in -1 .. 3 /\ (Engaged(e) => eve[e].ref >= 1)

\* An event that is allocated is of some thread, which is the one that has its
\* queue; one that is not has no trace of its past.
EventOK(e) ==
    /\ ~eve[e].live => eve[e] = FreeEve
    /\ eve[e].live => eve[e].stid \in Thread /\ eve[e].qid \in 1 .. next_qid - 1
    /\ eve[e].held => Owned(e)
    /\ eve[e].ev <=> eve[e].ce \in {"linked", "fired"}
    /\ eve[e].live => \A t \in Thread : evqs[t] = eve[e].qid => eve[e].stid = t

\* Where an event may be, as seen by the callout queue and the evq thread.
PlaceOK(e) ==
    /\ eve[e].live /\ (eve[e].ce = "linked" \/ (tramp.eve = e /\ tramp.pc \in {"get", "lock"}))
            /\ queue[eve[e].qid].ref >= 1
        => e \in queue[eve[e].qid].events
    /\ eve[e].ce = "linked" => ~Looked(e)
    /\ eve[e].live /\ eve[e].ce = "fired" /\ Owned(e) =>
            tramp.eve = e /\ tramp.pc \in {"get", "lock"}
    /\ ~raced /\ eve[e].cancelled => ~Engaged(e)

\* An event that was handed over to its thread is left alone by the others.
GivenOK(e) == eve[e].ce = "freed" /\ ~Looked(e)

\* The lists of a queue hold different events, allocated, of this queue.
QueueOK(q) ==
    /\ \A e \in Left(q) : eve[e].live /\ eve[e].qid = q
    /\ \A e \in Range(queue[q].triggered) : e \notin queue[q].events /\ GivenOK(e)
    /\ IsInjective(queue[q].triggered)
    /\ q >= next_qid => queue[q] = [ref |-> 0, events |-> {}, triggered |-> <<>>]

\* The queue a thread has, to the end of evq_free().
Has(t) == IF thread[t].pc = "exit" THEN thread[t].qid ELSE evqs[t]
TrampHas(q) == tramp.qid = q /\ tramp.pc \in {"lock", "read", "ack", "unref", "release"}

CountOK(q) ==
    queue[q].ref = Bit(\E t \in Thread : Has(t) = q) + Bit(TrampHas(q))

ThreadOK(t) ==
    /\ evqs[t] < next_qid /\ thread[t].qid < next_qid
    /\ \A u \in Thread : Has(t) # 0 /\ Has(t) = Has(u) => t = u
    /\ thread[t].pc \in {"run", "dispatch", "callback", "leave"} => thread[t].qid = 0
    /\ thread[t].pc \in {"exit", "discard", "gone"} => evqs[t] = 0
    /\ thread[t].pc = "discard" => thread[t].qid # 0 /\ queue[thread[t].qid].ref = 0
    /\ thread[t].pc = "callback" =>
            LET e == thread[t].eve
            IN  /\ e \in Eve /\ eve[e].live /\ eve[e].stid = t
                /\ eve[e].qid = evqs[t] /\ e \notin Left(evqs[t]) /\ GivenOK(e)

TrampOK ==
    /\ tramp.pc # "idle" => tramp.eve \in Eve
    /\ call = IF tramp.pc \in {"get", "lock", "read", "ack"} THEN tramp.eve ELSE Null
    /\ tramp.qid < next_qid
    /\ tramp.pc \in {"idle", "get"} => tramp.qid = 0
    /\ tramp.pc \in {"lock", "release", "discard"} => tramp.qid # 0
    /\ tramp.pc = "lock" /\ te.live => tramp.qid = te.qid
    /\ tramp.pc = "discard" => queue[tramp.qid].ref = 0
    /\ tramp.pc \in {"read", "ack", "unref"} /\ te.live => ~Owned(tramp.eve)
    /\ ~raced /\ tramp.pc \in {"get", "read", "ack"} => te.ce = "fired" \/ Orphan(tramp.eve)
    /\ ~raced /\ tramp.pc = "lock" => te.ce = "fired"
    /\ ~raced /\ Looking => te.live

EvqIInv ==
    /\ EvqTypeOK
    /\ \A e \in Eve : RefsOK(e) /\ EventOK(e) /\ PlaceOK(e)
    /\ \A q \in Qid : QueueOK(q) /\ CountOK(q)
    /\ \A t \in Thread : ThreadOK(t)
    /\ TrampOK
    /\ NoLostSignal

----------------------------------------------------------------------------
(* What the proofs of the steps use again and again.                       *)

\* The references of an event whose count is unchanged, seen the same by all.
LEMMA RefsFrame ==
    ASSUME NEW e \in Eve, RefsOK(e),
           eve'[e].live => /\ eve[e].live /\ eve'[e].ref = eve[e].ref
                           /\ eve'[e].held = eve[e].held
                           /\ Promised(e)' <=> Promised(e)
                           /\ Owned(e)' <=> Owned(e)
                           /\ Engaged(e)' <=> Engaged(e)
                           /\ Listed(e)' <=> Listed(e)
                           /\ CalledBack(e)' <=> CalledBack(e)
    PROVE  RefsOK(e)'
BY DEF RefsOK, Bit

\* The types of the fields.
LEMMA Fields ==
    ASSUME EvqTypeOK
    PROVE  /\ \A e \in Eve : /\ eve[e].live \in BOOLEAN /\ eve[e].ref \in -1 .. 3
                             /\ eve[e].qid \in 0 .. MaxQueue
                             /\ eve[e].stid \in Thread \cup {Null}
           /\ \A q \in Qid : /\ queue[q].ref \in 0 .. 2 /\ queue[q].events \subseteq Eve
                             /\ queue[q].triggered \in Seq(Eve)
           /\ \A t \in Thread : /\ evqs[t] \in 0 .. MaxQueue
                                /\ thread[t].qid \in 0 .. MaxQueue
                                /\ thread[t].eve \in Eve \cup {Null}
           /\ tramp.qid \in 0 .. MaxQueue /\ tramp.eve \in Eve \cup {Null}
           /\ next_qid \in Nat /\ next_qid <= MaxQueue + 1 /\ MaxQueue \in Nat
           /\ Null \notin Thread \cup Eve
BY EvqAssumption DEF EvqTypeOK, EveType, QueueType, ThreadType, TrampType

\* An event freed.
LEMMA FreeEveFields ==
    /\ FreeEve \in EveType /\ ~FreeEve.live /\ ~FreeEve.ev /\ FreeEve.ce = "none"
    /\ ~FreeEve.cancelled /\ ~FreeEve.held
BY EvqAssumption DEF FreeEve, EveType

\* An event with a reference less.
LEMMA UnrefFields ==
    ASSUME NEW r \in EveType, r.ref # -1
    PROVE  /\ Unref(r) \in EveType
           /\ r.ref = 1 => Unref(r) = FreeEve
           /\ r.ref # 1 => /\ Unref(r).live = r.live /\ Unref(r).ref = r.ref - 1
                           /\ Unref(r).cancelable = r.cancelable
                           /\ Unref(r).cancelled = r.cancelled
                           /\ Unref(r).ev = r.ev /\ Unref(r).ce = r.ce
                           /\ Unref(r).qid = r.qid /\ Unref(r).stid = r.stid
                           /\ Unref(r).held = r.held
<1>1. CASE r.ref = 1
  BY <1>1, FreeEveFields DEF Unref
<1>2. CASE r.ref # 1
  BY <1>2 DEF Unref, EveType
<1> QED BY <1>1, <1>2

\* What changes when the number of references of a queue does.
LEMMA QueueRef ==
    ASSUME EvqTypeOK, NEW h \in Qid, NEW n \in 0 .. 2,
           queue' = [queue EXCEPT ![h].ref = n]
    PROVE  /\ queue' \in [Qid -> QueueType]
           /\ \A p \in Qid : /\ queue'[p].events = queue[p].events
                             /\ queue'[p].triggered = queue[p].triggered
                             /\ queue'[p].ref = IF p = h THEN n ELSE queue[p].ref
                             /\ p # h => queue'[p] = queue[p]
<1> DEFINE b == [queue[h] EXCEPT !.ref = n]
<1>1. queue \in [Qid -> QueueType] /\ queue[h] \in QueueType
  BY DEF EvqTypeOK
<1>2. b \in QueueType /\ b.events = queue[h].events /\ b.triggered = queue[h].triggered /\ b.ref = n
  BY <1>1 DEF QueueType
<1>3. queue' = [queue EXCEPT ![h] = b]
  BY <1>1
<1> HIDE DEF b
<1> QED BY <1>1, <1>2, <1>3

----------------------------------------------------------------------------
(* The steps of evq_local_dispatch().                                      *)

\* A thread enters evq_local_dispatch() on a signal.
LEMMA DispatchStartOK ==
    ASSUME EvqIInv, NEW t \in Thread, DispatchStart(t)
    PROVE  EvqIInv'
<1>1. /\ thread[t].pc = "run" /\ sig' \cup lost' \subseteq Thread
      /\ thread' = [thread EXCEPT ![t] = [pc |-> "dispatch", eve |-> Null, qid |-> 0]]
      /\ thread'[t].pc = "dispatch" /\ thread'[t].qid = 0
      /\ \A u \in Thread \ {t} : thread'[u] = thread[u] /\ (u \in sig \cup lost => u \in sig' \cup lost')
      /\ UNCHANGED <<eve, evqs, queue, next_qid, tramp, call, raced, abort>>
  BY DEF DispatchStart, SetThread, EvqIInv, EvqTypeOK
<1>2. EvqTypeOK'
  <2>1. [pc |-> "dispatch", eve |-> Null, qid |-> 0] \in ThreadType
    BY EvqAssumption DEF ThreadType
  <2> QED BY <1>1, <2>1 DEF EvqIInv, EvqTypeOK
<1>3. ASSUME NEW e \in Eve PROVE RefsOK(e)' /\ EventOK(e)' /\ PlaceOK(e)'
  <2>1. CalledBack(e)' <=> CalledBack(e)
    BY <1>1 DEF CalledBack
  <2>2. (Owned(e)' <=> Owned(e)) /\ (Engaged(e)' <=> Engaged(e)) /\ (Listed(e)' <=> Listed(e))
    BY <1>1 DEF Owned, Engaged, Looked, Looking, Listed, Left
  <2>3. RefsOK(e)'
    BY <1>1, <2>1, <2>2, RefsFrame DEF EvqIInv, Promised
  <2> QED BY <1>1, <2>3 DEF EvqIInv, EventOK, PlaceOK, Owned, Engaged, Looked, Looking
<1>4. ASSUME NEW q \in Qid PROVE QueueOK(q)' /\ CountOK(q)'
  BY <1>1 DEF EvqIInv, QueueOK, Left, GivenOK, Looked, Looking, CountOK, Has, TrampHas, Bit
<1>5. ASSUME NEW u \in Thread PROVE ThreadOK(u)'
  BY <1>1 DEF EvqIInv, ThreadOK, Has, Left, GivenOK, Looked, Looking
<1>6. TrampOK' /\ NoLostSignal'
  BY <1>1 DEF EvqIInv, TrampOK, te, Owned, Orphan, Looking, NoLostSignal, Going
<1> QED BY <1>2, <1>3, <1>4, <1>5, <1>6 DEF EvqIInv

\* thread_sig_handle() clears a signal that it does not handle.
LEMMA SignalClearedOK ==
    ASSUME EvqIInv, NEW t \in Thread, SignalCleared(t)
    PROVE  EvqIInv'
<1>1. /\ thread[t].pc = "run" /\ sig' \cup lost' \subseteq Thread
      /\ \A u \in Thread : u \in sig \cup lost => u \in sig' \cup lost'
      /\ UNCHANGED <<eve, evqs, queue, next_qid, thread, tramp, call, raced, abort>>
  BY DEF SignalCleared, EvqIInv, EvqTypeOK
<1>2. EvqTypeOK'
  BY <1>1 DEF EvqIInv, EvqTypeOK
<1>3. ASSUME NEW e \in Eve PROVE RefsOK(e)' /\ EventOK(e)' /\ PlaceOK(e)'
  <2>1. CalledBack(e)' <=> CalledBack(e)
    BY <1>1 DEF CalledBack
  <2>2. (Owned(e)' <=> Owned(e)) /\ (Engaged(e)' <=> Engaged(e)) /\ (Listed(e)' <=> Listed(e))
    BY <1>1 DEF Owned, Engaged, Looked, Looking, Listed, Left
  <2>3. RefsOK(e)'
    BY <1>1, <2>1, <2>2, RefsFrame DEF EvqIInv, Promised
  <2> QED BY <1>1, <2>3 DEF EvqIInv, EventOK, PlaceOK, Owned, Engaged, Looked, Looking
<1>4. ASSUME NEW q \in Qid PROVE QueueOK(q)' /\ CountOK(q)'
  BY <1>1 DEF EvqIInv, QueueOK, Left, GivenOK, Looked, Looking, CountOK, Has, TrampHas, Bit
<1>5. ASSUME NEW u \in Thread PROVE ThreadOK(u)'
  BY <1>1 DEF EvqIInv, ThreadOK, Has, Left, GivenOK, Looked, Looking
<1>6. TrampOK' /\ NoLostSignal'
  BY <1>1 DEF EvqIInv, TrampOK, te, Owned, Orphan, Looking, NoLostSignal, Going
<1> QED BY <1>2, <1>3, <1>4, <1>5, <1>6 DEF EvqIInv

\* evq_local_dispatch() finds nothing more triggered.
LEMMA DispatchEmptyOK ==
    ASSUME EvqIInv, NEW t \in Thread, DispatchEmpty(t)
    PROVE  EvqIInv'
<1>1. /\ thread[t].pc = "dispatch"
      /\ thread' = [thread EXCEPT ![t] = [pc |-> "leave", eve |-> Null, qid |-> 0]]
      /\ thread'[t].pc = "leave" /\ thread'[t].qid = 0
      /\ evqs[t] # 0 => queue[evqs[t]].triggered = <<>>
      /\ \A u \in Thread \ {t} : thread'[u] = thread[u]
      /\ UNCHANGED <<eve, evqs, queue, next_qid, sig, lost, tramp, call, raced, abort>>
  BY DEF DispatchEmpty, SetThread, EvqIInv, EvqTypeOK
<1>2. EvqTypeOK'
  <2>1. [pc |-> "leave", eve |-> Null, qid |-> 0] \in ThreadType
    BY EvqAssumption DEF ThreadType
  <2> QED BY <1>1, <2>1 DEF EvqIInv, EvqTypeOK
<1>3. ASSUME NEW e \in Eve PROVE RefsOK(e)' /\ EventOK(e)' /\ PlaceOK(e)'
  <2>1. CalledBack(e)' <=> CalledBack(e)
    BY <1>1 DEF CalledBack
  <2>2. (Owned(e)' <=> Owned(e)) /\ (Engaged(e)' <=> Engaged(e)) /\ (Listed(e)' <=> Listed(e))
    BY <1>1 DEF Owned, Engaged, Looked, Looking, Listed, Left
  <2>3. RefsOK(e)'
    BY <1>1, <2>1, <2>2, RefsFrame DEF EvqIInv, Promised
  <2> QED BY <1>1, <2>3 DEF EvqIInv, EventOK, PlaceOK, Owned, Engaged, Looked, Looking
<1>4. ASSUME NEW q \in Qid PROVE QueueOK(q)' /\ CountOK(q)'
  BY <1>1 DEF EvqIInv, QueueOK, Left, GivenOK, Looked, Looking, CountOK, Has, TrampHas, Bit
<1>5. ASSUME NEW u \in Thread PROVE ThreadOK(u)'
  BY <1>1 DEF EvqIInv, ThreadOK, Has, Left, GivenOK, Looked, Looking
<1>6. TrampOK' /\ NoLostSignal'
  BY <1>1 DEF EvqIInv, TrampOK, te, Owned, Orphan, Looking, NoLostSignal, Going
<1> QED BY <1>2, <1>3, <1>4, <1>5, <1>6 DEF EvqIInv

\* evq_local_dispatch() returns: a signal sent since its last look is pending.
LEMMA DispatchEndOK ==
    ASSUME EvqIInv, NEW t \in Thread, DispatchEnd(t)
    PROVE  EvqIInv'
<1>1. /\ thread[t].pc = "leave"
      /\ thread' = [thread EXCEPT ![t] = Running]
      /\ thread'[t].pc = "run" /\ thread'[t].qid = 0
      /\ \A u \in Thread \ {t} : thread'[u] = thread[u]
      /\ UNCHANGED <<eve, evqs, queue, next_qid, sig, lost, tramp, call, raced, abort>>
  BY DEF DispatchEnd, Running, EvqIInv, EvqTypeOK
<1>2. EvqTypeOK'
  <2>1. Running \in ThreadType
    BY EvqAssumption DEF ThreadType, Running
  <2> QED BY <1>1, <2>1 DEF EvqIInv, EvqTypeOK
<1>3. ASSUME NEW e \in Eve PROVE RefsOK(e)' /\ EventOK(e)' /\ PlaceOK(e)'
  <2>1. CalledBack(e)' <=> CalledBack(e)
    BY <1>1 DEF CalledBack
  <2>2. (Owned(e)' <=> Owned(e)) /\ (Engaged(e)' <=> Engaged(e)) /\ (Listed(e)' <=> Listed(e))
    BY <1>1 DEF Owned, Engaged, Looked, Looking, Listed, Left
  <2>3. RefsOK(e)'
    BY <1>1, <2>1, <2>2, RefsFrame DEF EvqIInv, Promised
  <2> QED BY <1>1, <2>3 DEF EvqIInv, EventOK, PlaceOK, Owned, Engaged, Looked, Looking
<1>4. ASSUME NEW q \in Qid PROVE QueueOK(q)' /\ CountOK(q)'
  BY <1>1 DEF EvqIInv, QueueOK, Left, GivenOK, Looked, Looking, CountOK, Has, TrampHas, Bit
<1>5. ASSUME NEW u \in Thread PROVE ThreadOK(u)'
  BY <1>1 DEF EvqIInv, ThreadOK, Has, Left, GivenOK, Looked, Looking
<1>6. TrampOK' /\ NoLostSignal'
  BY <1>1 DEF EvqIInv, TrampOK, te, Owned, Orphan, Looking, NoLostSignal, Going
<1> QED BY <1>2, <1>3, <1>4, <1>5, <1>6 DEF EvqIInv

\* A new thread takes the identifier of one that ended.
LEMMA ThreadStartOK ==
    ASSUME EvqIInv, NEW t \in Thread, ThreadStart(t)
    PROVE  EvqIInv'
<1>1. /\ thread[t].pc = "gone" /\ sig' \subseteq sig
      /\ thread' = [thread EXCEPT ![t] = Running]
      /\ thread'[t].pc = "run" /\ thread'[t].qid = 0 /\ evqs[t] = 0
      /\ \A u \in Thread \ {t} : thread'[u] = thread[u] /\ (u \in sig => u \in sig')
      /\ UNCHANGED <<eve, evqs, queue, next_qid, lost, tramp, call, raced, abort>>
  BY DEF ThreadStart, ThreadOK, Running, EvqIInv, EvqTypeOK
<1>2. EvqTypeOK'
  <2>1. Running \in ThreadType
    BY EvqAssumption DEF ThreadType, Running
  <2> QED BY <1>1, <2>1 DEF EvqIInv, EvqTypeOK
<1>3. ASSUME NEW e \in Eve PROVE RefsOK(e)' /\ EventOK(e)' /\ PlaceOK(e)'
  <2>1. CalledBack(e)' <=> CalledBack(e)
    BY <1>1 DEF CalledBack
  <2>2. (Owned(e)' <=> Owned(e)) /\ (Engaged(e)' <=> Engaged(e)) /\ (Listed(e)' <=> Listed(e))
    BY <1>1 DEF Owned, Engaged, Looked, Looking, Listed, Left
  <2>3. RefsOK(e)'
    BY <1>1, <2>1, <2>2, RefsFrame DEF EvqIInv, Promised
  <2> QED BY <1>1, <2>3 DEF EvqIInv, EventOK, PlaceOK, Owned, Engaged, Looked, Looking
<1>4. ASSUME NEW q \in Qid PROVE QueueOK(q)' /\ CountOK(q)'
  BY <1>1 DEF EvqIInv, QueueOK, Left, GivenOK, Looked, Looking, CountOK, Has, TrampHas, Bit
<1>5. ASSUME NEW u \in Thread PROVE ThreadOK(u)'
  BY <1>1 DEF EvqIInv, ThreadOK, Has, Left, GivenOK, Looked, Looking
<1>6. TrampOK' /\ NoLostSignal'
  BY <1>1 DEF EvqIInv, TrampOK, te, Owned, Orphan, Looking, NoLostSignal, Going
<1> QED BY <1>2, <1>3, <1>4, <1>5, <1>6 DEF EvqIInv

\* An exiting thread drops its reference on its queue.
LEMMA ThreadReleaseOK ==
    ASSUME EvqIInv, NEW t \in Thread, ThreadRelease(t)
    PROVE  EvqIInv'
<1> DEFINE h == thread[t].qid
           gone == IF h # 0 /\ queue[h].ref = 1 THEN [thread[t] EXCEPT !.pc = "discard"] ELSE Gone
<1>1. /\ thread[t].pc = "exit" /\ evqs[t] = 0 /\ Has(t) = h /\ h < next_qid /\ h \in 0 .. MaxQueue
      /\ UNCHANGED <<eve, evqs, next_qid, sig, lost, tramp, call, raced, abort>>
      /\ thread' = [thread EXCEPT ![t] = gone]
      /\ thread'[t] = gone
      /\ \A u \in Thread \ {t} : thread'[u] = thread[u]
  BY Fields DEF ThreadRelease, ThreadOK, Has, EvqIInv, EvqTypeOK
<1>2. h # 0 => queue[h].ref = 1 + Bit(TrampHas(h)) /\ queue[h].ref \in 1 .. 2 /\ h \in Qid
  BY <1>1, Fields DEF EvqIInv, CountOK, Bit, Qid
<1>3. /\ gone \in ThreadType /\ gone.pc \in {"discard", "gone"} /\ gone.qid \in {0, h}
      /\ gone.pc = "discard" => h # 0 /\ gone.qid = h /\ queue[h].ref = 1
  <2>1. Gone \in ThreadType /\ thread[t] \in ThreadType
    BY EvqAssumption DEF ThreadType, Gone, EvqIInv, EvqTypeOK
  <2> QED BY <1>2, <2>1 DEF ThreadType, Gone
<1> HIDE DEF gone
<1>4. /\ queue' \in [Qid -> QueueType]
      /\ \A p \in Qid : /\ queue'[p].events = queue[p].events
                        /\ queue'[p].triggered = queue[p].triggered
                        /\ queue'[p].ref = IF p = h THEN queue[p].ref - 1 ELSE queue[p].ref
                        /\ p # h => queue'[p] = queue[p]
  <2>1. CASE h = 0
    <3>1. queue' = queue /\ h \notin Qid
      BY <2>1 DEF ThreadRelease, Qid
    <3> QED BY <3>1 DEF EvqIInv, EvqTypeOK
  <2>2. CASE h # 0
    <3>1. queue' = [queue EXCEPT ![h].ref = queue[h].ref - 1] /\ queue[h].ref - 1 \in 0 .. 2
      BY <1>2, <2>2 DEF ThreadRelease, EvqIInv, EvqTypeOK
    <3> HIDE DEF h
    <3> QED BY <1>2, <2>2, <3>1, QueueRef, ZenonT(60) DEF EvqIInv
  <2> QED BY <2>1, <2>2
<1>5. EvqTypeOK'
  BY <1>1, <1>3, <1>4 DEF EvqIInv, EvqTypeOK
<1>6. ASSUME NEW e \in Eve PROVE RefsOK(e)' /\ EventOK(e)' /\ PlaceOK(e)'
  <2>1. CalledBack(e)' <=> CalledBack(e)
    BY <1>1, <1>3 DEF CalledBack
  <2>2. (Owned(e)' <=> Owned(e)) /\ (Engaged(e)' <=> Engaged(e))
    BY <1>1 DEF Owned, Engaged, Looked, Looking
  <2>3. eve[e].live => eve[e].qid \in Qid
    BY Fields DEF EvqIInv, EventOK, Qid
  <2>4. eve[e].live => (Listed(e)' <=> Listed(e))
    BY <1>1, <1>4, <2>3 DEF Listed, Left
  <2>5. RefsOK(e)'
    BY <1>1, <2>1, <2>2, <2>4, RefsFrame DEF EvqIInv, Promised
  <2>6. EventOK(e)'
    BY <1>1 DEF EvqIInv, EventOK, Owned
  <2>7. PlaceOK(e)'
    BY <1>1, <1>2, <1>4, <2>3, Fields, SMTT(60) DEF EvqIInv, PlaceOK, Owned, Engaged, Looked, Looking
  <2> QED BY <2>5, <2>6, <2>7
<1>7. ASSUME NEW q \in Qid PROVE QueueOK(q)' /\ CountOK(q)'
  <2>1. Left(q)' = Left(q)
    BY <1>4 DEF Left
  <2>2. QueueOK(q)'
    <3>1. q >= next_qid => q # h
      BY <1>1, Fields DEF EvqIInv, Qid
    <3> QED BY <1>1, <1>4, <2>1, <3>1 DEF EvqIInv, QueueOK, GivenOK, Looked, Looking
  <2>3. q # 0 /\ (TrampHas(q)' <=> TrampHas(q))
    BY <1>1 DEF TrampHas, Qid
  <2>4. CASE q = h
    <3>1. ~\E u \in Thread : Has(u)' = q
      BY <1>1, <1>3, <2>3, <2>4 DEF EvqIInv, ThreadOK, Has
    <3> QED BY <1>2, <1>4, <2>2, <2>3, <2>4, <3>1 DEF CountOK, Bit
  <2>5. CASE q # h
    <3>1. (\E u \in Thread : Has(u)' = q) <=> (\E u \in Thread : Has(u) = q)
      BY <1>1, <1>3, <2>3, <2>5 DEF Has
    <3> QED BY <1>4, <2>2, <2>3, <2>5, <3>1 DEF EvqIInv, CountOK, Bit
  <2> QED BY <2>4, <2>5
<1>8. ASSUME NEW u \in Thread PROVE ThreadOK(u)'
  <2>1. \A v \in Thread : Has(v)' = IF v = t THEN 0 ELSE Has(v)
    BY <1>1, <1>3 DEF Has
  <2>2. thread[u].qid \in Nat /\ (evqs[u] # 0 => evqs[u] \in Qid) /\ (thread[u].qid # 0 => thread[u].qid \in Qid)
    BY Fields DEF EvqIInv, Qid
  <2>3. u = t => ThreadOK(u)'
    BY <1>1, <1>2, <1>3, <1>4, <2>1 DEF EvqIInv, ThreadOK
  <2>4. CASE u # t
    <3>1. ~(thread[u].pc = "discard" /\ thread[u].qid = h)
      BY <1>2, <2>2 DEF EvqIInv, ThreadOK
    <3>2. thread[u].pc = "callback" => evqs[u] # 0
      BY Fields DEF EvqIInv, ThreadOK, EventOK
    <3>3. evqs[u] # 0 => Left(evqs[u])' = Left(evqs[u])
      BY <1>1, <1>4, <2>2 DEF Left
    <3> QED BY <1>1, <1>4, <2>1, <2>2, <2>4, <3>1, <3>2, <3>3 DEF EvqIInv, ThreadOK, GivenOK, Looked, Looking
  <2> QED BY <2>3, <2>4
<1>9. TrampOK'
  <2>1. ~(tramp.pc = "discard" /\ tramp.qid = h)
    BY <1>2, Fields DEF EvqIInv, TrampOK
  <2>2. tramp.pc = "discard" => tramp.qid \in Qid
    BY Fields DEF EvqIInv, TrampOK, Qid
  <2> QED BY <1>1, <1>4, <2>1, <2>2 DEF EvqIInv, TrampOK, te, Orphan, Looking, Owned
<1>10. NoLostSignal'
  <2>1. \A u \in Thread : evqs[u] # 0 => evqs[u] \in Qid
    BY Fields DEF EvqIInv, Qid
  <2> QED BY <1>1, <1>4, <2>1 DEF EvqIInv, NoLostSignal, Going
<1> QED BY <1>5, <1>6, <1>7, <1>8, <1>9, <1>10 DEF EvqIInv

----------------------------------------------------------------------------
(* The steps of the evq thread.                                            *)

\* A failure stops everything.
LEMMA FailOK ==
    ASSUME EvqIInv, NEW w \in {"zero", "ack", "discard", "eve"}, Fail(w)
    PROVE  EvqIInv'
<1>1. /\ abort' = w
      /\ UNCHANGED <<eve, evqs, queue, next_qid, thread, sig, lost, tramp, call, raced>>
  BY DEF Fail
<1>2. EvqTypeOK'
  BY <1>1 DEF EvqIInv, EvqTypeOK
<1>3. ASSUME NEW e \in Eve PROVE RefsOK(e)' /\ EventOK(e)' /\ PlaceOK(e)'
  <2>1. RefsOK(e)'
    BY <1>1, RefsFrame DEF EvqIInv, Promised, Owned, Engaged, Looked, Looking, Listed, Left, CalledBack
  <2> QED BY <1>1, <2>1 DEF EvqIInv, EventOK, PlaceOK, Owned, Engaged, Looked, Looking
<1>4. ASSUME NEW q \in Qid PROVE QueueOK(q)' /\ CountOK(q)'
  BY <1>1 DEF EvqIInv, QueueOK, Left, GivenOK, Looked, Looking, CountOK, Has, TrampHas, Bit
<1>5. ASSUME NEW u \in Thread PROVE ThreadOK(u)'
  BY <1>1 DEF EvqIInv, ThreadOK, Has, Left, GivenOK, Looked, Looking
<1>6. TrampOK' /\ NoLostSignal'
  BY <1>1 DEF EvqIInv, TrampOK, te, Owned, Orphan, Looking, NoLostSignal, Going
<1> QED BY <1>2, <1>3, <1>4, <1>5, <1>6 DEF EvqIInv

\* The callout queue of the evq thread triggers evq_trampoline().
LEMMA FireOK ==
    ASSUME EvqIInv, NEW x \in Eve, Fire(x)
    PROVE  EvqIInv'
<1> DEFINE b == [eve[x] EXCEPT !.ce = "fired"]
<1>1. /\ tramp.pc = "idle" /\ call' = x /\ eve[x].ce = "linked"
      /\ eve' = [eve EXCEPT ![x] = b] /\ eve'[x] = b
      /\ \A e \in Eve \ {x} : eve'[e] = eve[e]
      /\ tramp' = [pc |-> "get", eve |-> x, qid |-> 0, ev |-> FALSE]
      /\ UNCHANGED <<evqs, queue, next_qid, thread, sig, lost, raced, abort>>
  BY DEF Fire, Idle, EvqIInv, EvqTypeOK
<1>2. /\ b \in EveType /\ b.live /\ eve[x].live /\ b.ref = eve[x].ref /\ b.held = eve[x].held
      /\ b.cancelable = eve[x].cancelable /\ b.cancelled = eve[x].cancelled
      /\ b.ev = eve[x].ev /\ b.ce = "fired" /\ b.qid = eve[x].qid /\ b.stid = eve[x].stid
  <2>1. eve[x].live
    BY <1>1 DEF EvqIInv, EventOK, FreeEve
  <2> QED BY <2>1 DEF EvqIInv, EvqTypeOK, EveType
<1> HIDE DEF b
<1>3. EvqTypeOK'
  <2>1. tramp' \in TrampType
    BY <1>1, EvqAssumption DEF TrampType
  <2> QED BY <1>1, <1>2, <2>1 DEF EvqIInv, EvqTypeOK
<1>4. ASSUME NEW e \in Eve PROVE RefsOK(e)' /\ EventOK(e)' /\ PlaceOK(e)'
  <2>1. CalledBack(e)' <=> CalledBack(e)
    BY <1>1 DEF CalledBack
  <2>2. Looked(e)' <=> e = x
    BY <1>1 DEF Looked, Looking
  <2>3. ~Looked(e)
    BY <1>1 DEF Looked, Looking
  <2>4. (Engaged(e)' <=> Engaged(e)) /\ (Owned(e)' <=> Owned(e)) /\ (Listed(e)' <=> Listed(e)) /\ (Promised(e)' <=> Promised(e))
    BY <1>1, <1>2, <2>2, <2>3 DEF Engaged, Owned, Listed, Left, Promised
  <2>5. RefsOK(e)'
    BY <1>1, <1>2, <2>1, <2>4, RefsFrame DEF EvqIInv
  <2>6. EventOK(e)'
    BY <1>1, <1>2 DEF EvqIInv, EventOK, Owned
  <2>7. PlaceOK(e)'
    BY <1>1, <1>2, <2>2, <2>3, <2>4 DEF EvqIInv, PlaceOK, Engaged
  <2> QED BY <2>5, <2>6, <2>7
<1>5. ASSUME NEW q \in Qid PROVE QueueOK(q)' /\ CountOK(q)'
  <2>1. QueueOK(q)'
    BY <1>1, <1>2 DEF EvqIInv, QueueOK, Left, GivenOK, Looked, Looking
  <2>2. ~TrampHas(q) /\ ~TrampHas(q)'
    BY <1>1 DEF TrampHas, Qid
  <2> QED BY <1>1, <2>1, <2>2 DEF EvqIInv, CountOK, Has, Bit
<1>6. ASSUME NEW u \in Thread PROVE ThreadOK(u)'
  BY <1>1, <1>2 DEF EvqIInv, ThreadOK, Has, Left, GivenOK, Looked, Looking
<1>7. TrampOK'
  BY <1>1, <1>2, Fields DEF EvqIInv, TrampOK, te, Orphan, Owned, Looking, EventOK
<1>8. NoLostSignal'
  BY <1>1 DEF EvqIInv, NoLostSignal, Going
<1> QED BY <1>3, <1>4, <1>5, <1>6, <1>7, <1>8 DEF EvqIInv

\* The steps of evq_trampoline() that only move the evq thread on.
LEMMA MoveOK ==
    ASSUME EvqIInv, NEW n \in {"ack", "unref"}, NEW v \in BOOLEAN,
           tramp.pc \in {"read", "ack"},
           tramp' = [tramp EXCEPT !.pc = n, !.ev = v],
           call' = IF n = "unref" THEN Null ELSE call,
           UNCHANGED <<eve, evqs, queue, next_qid, thread, sig, lost, raced, abort>>
    PROVE  EvqIInv'
<1>1. /\ tramp' \in TrampType /\ tramp'.pc = n
      /\ tramp'.eve = tramp.eve /\ tramp'.qid = tramp.qid
  BY DEF EvqIInv, EvqTypeOK, TrampType
<1>2. EvqTypeOK'
  BY <1>1 DEF EvqIInv, EvqTypeOK
<1>3. ASSUME NEW e \in Eve PROVE RefsOK(e)' /\ EventOK(e)' /\ PlaceOK(e)'
  <2>1. Looked(e)' <=> Looked(e)
    BY <1>1 DEF Looked, Looking
  <2>2. RefsOK(e)'
    BY <1>1, <2>1, RefsFrame DEF EvqIInv, Promised, Owned, Engaged, Listed, Left, CalledBack
  <2> QED BY <1>1, <2>1, <2>2 DEF EvqIInv, EventOK, PlaceOK, Owned, Engaged
<1>4. ASSUME NEW q \in Qid PROVE QueueOK(q)' /\ CountOK(q)'
  <2>1. TrampHas(q)' <=> TrampHas(q)
    BY <1>1 DEF TrampHas
  <2>2. CountOK(q)'
    BY <1>1, <2>1 DEF EvqIInv, CountOK, Has, Bit
  <2> QED BY <1>1, <2>2 DEF EvqIInv, QueueOK, Left, GivenOK, Looked, Looking
<1>5. ASSUME NEW u \in Thread PROVE ThreadOK(u)'
  BY <1>1 DEF EvqIInv, ThreadOK, Has, Left, GivenOK, Looked, Looking
<1>6. TrampOK' /\ NoLostSignal'
  BY <1>1 DEF EvqIInv, TrampOK, te, Owned, Orphan, Looking, NoLostSignal, Going
<1> QED BY <1>2, <1>3, <1>4, <1>5, <1>6 DEF EvqIInv

\* evq_trampoline() found no queue for the event, and acknowledges it.
LEMMA ReadAckOK ==
    ASSUME EvqIInv, TrampolineRead \/ TrampolineAck
    PROVE  EvqIInv'
<1>1. te.ev \in BOOLEAN \/ tramp.pc \notin {"read", "ack"}
  BY DEF te, EvqIInv, EvqTypeOK, EveType, TrampOK
<1>2. tramp \in TrampType /\ tramp.ev \in BOOLEAN
  BY DEF EvqIInv, EvqTypeOK, TrampType
<1>3. CASE TrampolineRead
  BY <1>1, <1>3, MoveOK DEF TrampolineRead, At
<1>4. CASE TrampolineAck
  <2>1. CASE tramp.ev /\ te.ce = "freed"
    BY <1>4, <2>1, FailOK DEF TrampolineAck
  <2>2. CASE ~(tramp.ev /\ te.ce = "freed")
    <3>1. tramp' = [tramp EXCEPT !.pc = "unref", !.ev = tramp.ev]
      BY <1>2, <1>4, <2>2 DEF TrampolineAck, Goto, TrampType
    <3> QED BY <1>2, <1>4, <2>2, <3>1, MoveOK DEF TrampolineAck, At
  <2> QED BY <2>1, <2>2
<1> QED BY <1>3, <1>4

\* evq_trampoline() returns.
LEMMA ReturnOK ==
    ASSUME EvqIInv, TrampolineReturn
    PROVE  EvqIInv'
<1>1. /\ tramp.pc = "return" /\ call = Null /\ call' = Null /\ tramp' = Idle
      /\ tramp'.pc = "idle" /\ tramp'.eve = Null /\ tramp'.qid = 0
      /\ UNCHANGED <<eve, evqs, queue, next_qid, thread, sig, lost, raced, abort>>
  BY DEF TrampolineReturn, Idle, EvqIInv, TrampOK
<1>2. EvqTypeOK'
  <2>1. Idle \in TrampType
    BY EvqAssumption DEF TrampType, Idle
  <2> QED BY <1>1, <2>1 DEF EvqIInv, EvqTypeOK
<1>3. ASSUME NEW e \in Eve PROVE RefsOK(e)' /\ EventOK(e)' /\ PlaceOK(e)'
  <2>1. ~Looked(e) /\ ~Looked(e)'
    BY <1>1 DEF Looked, Looking
  <2>2. RefsOK(e)'
    BY <1>1, <2>1, RefsFrame DEF EvqIInv, Promised, Owned, Engaged, Listed, Left, CalledBack
  <2> QED BY <1>1, <2>1, <2>2 DEF EvqIInv, EventOK, PlaceOK, Owned, Engaged
<1>4. ASSUME NEW q \in Qid PROVE QueueOK(q)' /\ CountOK(q)'
  <2>1. ~TrampHas(q)' /\ ~TrampHas(q)
    BY <1>1 DEF TrampHas
  <2>2. CountOK(q)'
    BY <1>1, <2>1 DEF EvqIInv, CountOK, Has, Bit
  <2> QED BY <1>1, <2>2 DEF EvqIInv, QueueOK, Left, GivenOK, Looked, Looking
<1>5. ASSUME NEW u \in Thread PROVE ThreadOK(u)'
  BY <1>1 DEF EvqIInv, ThreadOK, Has, Left, GivenOK, Looked, Looking
<1>6. TrampOK' /\ NoLostSignal'
  BY <1>1, Fields DEF EvqIInv, TrampOK, te, Owned, Orphan, Looking, NoLostSignal, Going
<1> QED BY <1>2, <1>3, <1>4, <1>5, <1>6 DEF EvqIInv

\* evq_trampoline() drops its reference on the queue.
LEMMA ReleaseOK ==
    ASSUME EvqIInv, TrampolineRelease
    PROVE  EvqIInv'
<1> DEFINE h == tramp.qid
           n == IF queue[h].ref = 1 THEN "discard" ELSE "return"
<1>1. /\ tramp.pc = "release" /\ h # 0 /\ h \in Qid /\ h < next_qid /\ tramp \in TrampType
      /\ UNCHANGED <<eve, evqs, next_qid, thread, sig, lost, call, raced, abort>>
  BY Fields DEF TrampolineRelease, EvqIInv, EvqTypeOK, TrampOK, Qid
<1>2. queue[h].ref = (IF \E t \in Thread : Has(t) = h THEN 1 ELSE 0) + 1
  BY <1>1 DEF EvqIInv, CountOK, Bit, TrampHas
<1>11. queue[h].ref \in 1 .. 2
  BY <1>2
<1>3. /\ tramp' = [tramp EXCEPT !.pc = n] /\ tramp' \in TrampType
      /\ tramp'.pc = n /\ tramp'.qid = h /\ tramp'.eve = tramp.eve
  BY <1>1 DEF TrampolineRelease, Goto, TrampType
<1>4. /\ queue' \in [Qid -> QueueType]
      /\ \A p \in Qid : /\ queue'[p].events = queue[p].events
                        /\ queue'[p].triggered = queue[p].triggered
                        /\ queue'[p].ref = IF p = h THEN queue[p].ref - 1 ELSE queue[p].ref
                        /\ p # h => queue'[p] = queue[p]
  <2>1. queue' = [queue EXCEPT ![h].ref = queue[h].ref - 1] /\ queue[h].ref - 1 \in 0 .. 2
    BY <1>1, <1>11 DEF TrampolineRelease, EvqIInv, EvqTypeOK
  <2> HIDE DEF h
  <2> QED BY <1>1, <2>1, QueueRef, ZenonT(60) DEF EvqIInv
<1>5. EvqTypeOK'
  BY <1>1, <1>3, <1>4 DEF EvqIInv, EvqTypeOK
<1>6. ASSUME NEW e \in Eve PROVE RefsOK(e)' /\ EventOK(e)' /\ PlaceOK(e)'
  <2>1. ~Looked(e) /\ ~Looked(e)' /\ (CalledBack(e)' <=> CalledBack(e))
    BY <1>1, <1>3 DEF Looked, Looking, CalledBack
  <2>2. (Owned(e)' <=> Owned(e)) /\ (Engaged(e)' <=> Engaged(e)) /\ (Promised(e)' <=> Promised(e))
    BY <1>1, <2>1 DEF Owned, Engaged, Promised
  <2>3. eve[e].live => eve[e].qid \in Qid
    BY Fields DEF EvqIInv, EventOK, Qid
  <2>4. eve[e].live => (Listed(e)' <=> Listed(e))
    BY <1>1, <1>4, <2>3 DEF Listed, Left
  <2>5. RefsOK(e)'
    BY <1>1, <2>1, <2>2, <2>4, RefsFrame DEF EvqIInv
  <2>6. EventOK(e)'
    BY <1>1 DEF EvqIInv, EventOK, Owned
  <2>7. PlaceOK(e)'
    BY <1>1, <1>11, <1>3, <1>4, <2>1, <2>2, <2>3, Fields DEF EvqIInv, PlaceOK, Owned, Engaged
  <2> QED BY <2>5, <2>6, <2>7
<1>7. ASSUME NEW q \in Qid PROVE QueueOK(q)' /\ CountOK(q)'
  <2>1. Left(q)' = Left(q)
    BY <1>4 DEF Left
  <2>2. QueueOK(q)'
    <3>1. q >= next_qid => q # h
      BY <1>1, Fields DEF EvqIInv, Qid
    <3> QED BY <1>1, <1>3, <1>4, <2>1, <3>1 DEF EvqIInv, QueueOK, GivenOK, Looked, Looking
  <2>3. ~TrampHas(q)' /\ (TrampHas(q) <=> q = h)
    BY <1>1, <1>3 DEF TrampHas
  <2>4. (\E u \in Thread : Has(u)' = q) <=> (\E u \in Thread : Has(u) = q)
    BY <1>1 DEF Has
  <2> QED BY <1>2, <1>4, <2>2, <2>3, <2>4 DEF EvqIInv, CountOK, Bit
<1>8. ASSUME NEW u \in Thread PROVE ThreadOK(u)'
  <2>1. \A v \in Thread : Has(v)' = Has(v)
    BY <1>1 DEF Has
  <2>2. thread[u].qid \in Nat /\ (evqs[u] # 0 => evqs[u] \in Qid) /\ (thread[u].qid # 0 => thread[u].qid \in Qid)
    BY Fields DEF EvqIInv, Qid
  <2>3. ~(thread[u].pc = "discard" /\ thread[u].qid = h)
    BY <1>11, <2>2 DEF EvqIInv, ThreadOK
  <2>4. thread[u].pc = "callback" => evqs[u] # 0
    BY Fields DEF EvqIInv, ThreadOK, EventOK
  <2>5. evqs[u] # 0 => Left(evqs[u])' = Left(evqs[u])
    BY <1>1, <1>4, <2>2 DEF Left
  <2> QED BY <1>1, <1>3, <1>4, <2>1, <2>2, <2>3, <2>4, <2>5 DEF EvqIInv, ThreadOK, GivenOK, Looked, Looking
<1>9. TrampOK'
  BY <1>1, <1>11, <1>3, <1>4 DEF EvqIInv, TrampOK, te, Owned, Orphan, Looking
<1>10. NoLostSignal'
  <2>1. \A u \in Thread : evqs[u] # 0 => evqs[u] \in Qid
    BY Fields DEF EvqIInv, Qid
  <2> QED BY <1>1, <1>4, <2>1 DEF EvqIInv, NoLostSignal, Going
<1> QED BY <1>5, <1>6, <1>7, <1>8, <1>9, <1>10 DEF EvqIInv

\* evq_get() in evq_trampoline(): a reference on the queue, if it still exists.
LEMMA GetOK ==
    ASSUME EvqIInv, TrampolineGet
    PROVE  EvqIInv'
<1>0. PICK x \in Eve : x = tramp.eve
  BY DEF TrampolineGet, At, EvqIInv, TrampOK
<1> DEFINE h == evqs[eve[x].stid]
           n == IF h # 0 /\ h = eve[x].qid THEN "lock" ELSE "read"
<1>1. /\ tramp.pc = "get" /\ tramp.eve = x /\ eve[x].live /\ eve[x].stid \in Thread
      /\ tramp.qid = 0 /\ tramp \in TrampType
      /\ UNCHANGED <<eve, evqs, next_qid, thread, sig, lost, call, raced, abort>>
  BY <1>0 DEF TrampolineGet, At, te, EvqIInv, EvqTypeOK, TrampOK, EventOK
<1>2. /\ h \in 0 .. MaxQueue /\ h < next_qid /\ (h # 0 => h \in Qid)
      /\ eve[x].qid \in Qid /\ eve[x].qid # 0 /\ 0 \notin Qid
  BY <1>1, Fields DEF EvqIInv, EventOK, ThreadOK, Qid
<1>13. h # 0 => Has(eve[x].stid) = h
  BY <1>1 DEF EvqIInv, ThreadOK, Has
<1>3. h # 0 => queue[h].ref = 1
  <2>2. ~TrampHas(h)
    BY <1>1 DEF TrampHas
  <2> QED BY <1>1, <1>2, <1>13, <2>2 DEF EvqIInv, CountOK, Bit
<1>4. /\ tramp' = [tramp EXCEPT !.qid = h, !.pc = n] /\ tramp' \in TrampType
      /\ tramp'.pc = n /\ tramp'.qid = h /\ tramp'.eve = x
  BY <1>0, <1>1, <1>2 DEF TrampolineGet, TrampType, te, SameQueue
<1>5. /\ queue' \in [Qid -> QueueType]
      /\ \A p \in Qid : /\ queue'[p].events = queue[p].events
                        /\ queue'[p].triggered = queue[p].triggered
                        /\ queue'[p].ref = IF p = h THEN queue[p].ref + 1 ELSE queue[p].ref
                        /\ p # h => queue'[p] = queue[p]
  <2>1. CASE h = 0
    <3>1. queue' = queue
      BY <1>0, <2>1 DEF TrampolineGet, te
    <3> QED BY <1>2, <2>1, <3>1 DEF EvqIInv, EvqTypeOK
  <2>2. CASE h # 0
    <3>1. queue' = [queue EXCEPT ![h].ref = queue[h].ref + 1]
      BY <1>0, <2>2 DEF TrampolineGet, te
    <3>2. h \in Qid /\ queue[h].ref + 1 \in 0 .. 2 /\ EvqTypeOK
      BY <1>2, <1>3, <2>2 DEF EvqIInv
    <3> HIDE DEF h
    <3> QED BY <3>1, <3>2, QueueRef, ZenonT(60)
  <2> QED BY <2>1, <2>2
<1> HIDE DEF h
<1>6. EvqTypeOK'
  BY <1>1, <1>4, <1>5 DEF EvqIInv, EvqTypeOK
<1>7. (n = "read" => ~Owned(x)) /\ (n = "lock" => Owned(x))
  BY <1>2 DEF Owned, h
<1>8. ASSUME NEW e \in Eve PROVE RefsOK(e)' /\ EventOK(e)' /\ PlaceOK(e)'
  <2>1. (Looked(e)' <=> e = x) /\ (Looked(e) <=> e = x) /\ (CalledBack(e)' <=> CalledBack(e))
    BY <1>1, <1>4 DEF Looked, Looking, CalledBack
  <2>2. (Owned(e)' <=> Owned(e)) /\ (Engaged(e)' <=> Engaged(e)) /\ (Promised(e)' <=> Promised(e))
    BY <1>1, <2>1 DEF Owned, Engaged, Promised
  <2>3. eve[e].live => eve[e].qid \in Qid
    BY Fields DEF EvqIInv, EventOK, Qid
  <2>4. eve[e].live => (Listed(e)' <=> Listed(e))
    BY <1>1, <1>5, <2>3 DEF Listed, Left
  <2>5. RefsOK(e)'
    BY <1>1, <2>1, <2>2, <2>4, RefsFrame DEF EvqIInv
  <2>6. EventOK(e)'
    BY <1>1 DEF EvqIInv, EventOK, Owned
  <2>7. eve[e].live => (queue'[eve[e].qid].ref >= 1 <=> queue[eve[e].qid].ref >= 1)
    <3>1. h # 0 => queue'[h].ref = 2 /\ queue[h].ref = 1
      BY <1>2, <1>3, <1>5
    <3> QED BY <1>2, <1>5, <2>3, <3>1
  <2>8. PlaceOK(e)'
    BY <1>1, <1>4, <1>5, <1>7, <2>1, <2>2, <2>3, <2>7 DEF EvqIInv, PlaceOK
  <2> QED BY <2>5, <2>6, <2>8
<1>9. ASSUME NEW q \in Qid PROVE QueueOK(q)' /\ CountOK(q)'
  <2>1. Left(q)' = Left(q)
    BY <1>5 DEF Left
  <2>2. QueueOK(q)'
    <3>1. q >= next_qid => q # h
      BY <1>2, Fields DEF EvqIInv, Qid
    <3> QED BY <1>1, <1>4, <1>5, <2>1, <3>1 DEF EvqIInv, QueueOK, GivenOK, Looked, Looking
  <2>3. (TrampHas(q)' <=> q = h) /\ ~TrampHas(q)
    BY <1>1, <1>4 DEF TrampHas
  <2>4. (\E u \in Thread : Has(u)' = q) <=> (\E u \in Thread : Has(u) = q)
    BY <1>1 DEF Has
  <2> QED BY <1>1, <1>2, <1>3, <1>5, <1>13, <2>2, <2>3, <2>4 DEF EvqIInv, CountOK, Bit
<1>10. ASSUME NEW u \in Thread PROVE ThreadOK(u)'
  <2>1. \A v \in Thread : Has(v)' = Has(v)
    BY <1>1 DEF Has
  <2>2. thread[u].qid \in Nat /\ (evqs[u] # 0 => evqs[u] \in Qid) /\ (thread[u].qid # 0 => thread[u].qid \in Qid)
    BY Fields DEF EvqIInv, Qid
  <2>3. ~(thread[u].pc = "discard" /\ thread[u].qid = h)
    BY <1>2, <1>3, <2>2 DEF EvqIInv, ThreadOK
  <2>4. thread[u].pc = "callback" => evqs[u] # 0
    BY Fields DEF EvqIInv, ThreadOK, EventOK
  <2>5. evqs[u] # 0 => Left(evqs[u])' = Left(evqs[u])
    BY <1>1, <1>5, <2>2 DEF Left
  <2> QED BY <1>1, <1>4, <1>5, <2>1, <2>2, <2>3, <2>4, <2>5 DEF EvqIInv, ThreadOK, GivenOK, Looked, Looking
<1>11. TrampOK'
  BY <1>1, <1>2, <1>4, <1>5, <1>7 DEF EvqIInv, TrampOK, te, Orphan, Looking, Owned
<1>12. NoLostSignal'
  <2>1. \A u \in Thread : evqs[u] # 0 => evqs[u] \in Qid
    BY Fields DEF EvqIInv, Qid
  <2> QED BY <1>1, <1>5, <2>1 DEF EvqIInv, NoLostSignal, Going
<1> QED BY <1>6, <1>8, <1>9, <1>10, <1>11, <1>12 DEF EvqIInv

\* evq_trampoline() gives up a reference on the event.
LEMMA UnrefOK ==
    ASSUME EvqIInv, TrampolineUnref
    PROVE  EvqIInv'
<1>0. PICK x \in Eve : x = tramp.eve
  BY DEF TrampolineUnref, At, EvqIInv, TrampOK
<1> DEFINE r == eve[x]
           b == Unref(r)
           n == IF tramp.qid # 0 THEN "release" ELSE "return"
<1>1. /\ tramp.pc = "unref" /\ tramp.eve = x /\ r.live /\ r \in EveType /\ tramp \in TrampType
      /\ eve' = [eve EXCEPT ![x] = b] /\ eve'[x] = b
      /\ \A e \in Eve \ {x} : eve'[e] = eve[e]
      /\ UNCHANGED <<evqs, queue, next_qid, thread, sig, lost, call, raced, abort>>
  BY <1>0 DEF TrampolineUnref, At, te, SetTe, EvqIInv, EvqTypeOK, TrampOK
<1>2. /\ tramp' \in TrampType /\ tramp'.pc = n /\ tramp'.qid = tramp.qid /\ tramp'.eve = x
  BY <1>1 DEF TrampolineUnref, Goto, TrampType
<1>3. ~Owned(x) /\ Looked(x) /\ r.ce # "linked" /\ ~r.held
  BY <1>1 DEF EvqIInv, TrampOK, te, Owned, Orphan, Looked, Looking, PlaceOK, EventOK
<1>4. /\ r.ref >= 1 /\ (Listed(x) => r.ref = Bit(Promised(x)) + 2 /\ r.ref \in 2 .. 3)
  BY <1>1, <1>3 DEF EvqIInv, RefsOK, Engaged, Bit
<1>5. /\ b \in EveType /\ ~b.held
      /\ r.ref = 1 => b = FreeEve /\ ~b.live /\ ~b.ev /\ b.ce = "none" /\ ~b.cancelled
      /\ r.ref # 1 => /\ b.live /\ b.ref = r.ref - 1 /\ b.cancelable = r.cancelable
                       /\ b.cancelled = r.cancelled /\ b.ev = r.ev /\ b.ce = r.ce
                       /\ b.qid = r.qid /\ b.stid = r.stid
  <2>1. r.ref \in -1 .. 3
    BY <1>1 DEF EveType
  <2> HIDE DEF r
  <2> QED BY <1>1, <1>3, <1>4, <2>1, FreeEveFields, UnrefFields
<1> HIDE DEF b
<1>6. EvqTypeOK'
  BY <1>1, <1>2, <1>5 DEF EvqIInv, EvqTypeOK
<1>7. ASSUME NEW e \in Eve PROVE RefsOK(e)' /\ EventOK(e)' /\ PlaceOK(e)'
  <2>1. ~Looked(e)' /\ (Looked(e) <=> e = x) /\ (CalledBack(e)' <=> CalledBack(e))
    BY <1>1, <1>2 DEF Looked, Looking, CalledBack
  <2>2. CASE e # x
    <3>1. (Owned(e)' <=> Owned(e)) /\ (Engaged(e)' <=> Engaged(e)) /\ (Promised(e)' <=> Promised(e)) /\ (Listed(e)' <=> Listed(e))
      BY <1>1, <2>1, <2>2 DEF Owned, Engaged, Promised, Listed, Left
    <3>2. RefsOK(e)'
      BY <1>1, <2>1, <2>2, <3>1, RefsFrame DEF EvqIInv
    <3>3. EventOK(e)'
      BY <1>1, <2>2 DEF EvqIInv, EventOK, Owned
    <3>4. PlaceOK(e)'
      BY <1>1, <1>2, <2>1, <2>2, <3>1 DEF EvqIInv, PlaceOK
    <3> QED BY <3>2, <3>3, <3>4
  <2>3. CASE e = x
    <3>1. ~Engaged(x)'
      BY <1>1, <1>3, <1>5, <2>1, <2>3 DEF Engaged
    <3>2. CASE r.ref = 1
      BY <1>1, <1>5, <2>3, <3>1, <3>2 DEF RefsOK, EventOK, PlaceOK, FreeEve
    <3>3. CASE r.ref # 1
      <4>1. ~Owned(x)' /\ (Listed(x)' <=> Listed(x)) /\ (Promised(x)' <=> Promised(x))
        BY <1>1, <1>3, <1>5, <3>3 DEF Owned, Listed, Left, Promised
      <4>2. RefsOK(x)'
        BY <1>1, <1>4, <1>5, <3>1, <3>3, <4>1 DEF RefsOK, EveType, Bit
      <4>3. EventOK(x)'
        BY <1>1, <1>5, <3>3 DEF EvqIInv, EventOK
      <4>4. PlaceOK(x)'
        BY <1>1, <1>2, <1>3, <1>5, <2>1, <2>3, <3>1, <3>3, <4>1 DEF PlaceOK
      <4> QED BY <2>3, <4>2, <4>3, <4>4
    <3> QED BY <3>2, <3>3
  <2> QED BY <2>2, <2>3
<1>8. ASSUME NEW q \in Qid PROVE QueueOK(q)' /\ CountOK(q)'
  <2>1. x \in Left(q) => q = r.qid /\ r.ref # 1 /\ x \notin Range(queue[q].triggered)
    BY <1>3, <1>4 DEF EvqIInv, QueueOK, Listed, GivenOK, Left
  <2>2. QueueOK(q)'
    BY <1>1, <1>2, <1>5, <2>1 DEF EvqIInv, QueueOK, GivenOK, Looked, Looking, Left
  <2>3. TrampHas(q)' <=> TrampHas(q)
    BY <1>1, <1>2 DEF TrampHas, Qid
  <2> QED BY <1>1, <2>2, <2>3 DEF EvqIInv, CountOK, Bit, Has
<1>9. ASSUME NEW u \in Thread PROVE ThreadOK(u)'
  <2>1. thread[u].pc = "callback" => thread[u].eve # x
    BY <1>3 DEF EvqIInv, ThreadOK, GivenOK
  <2> QED BY <1>1, <1>2, <2>1 DEF EvqIInv, ThreadOK, Has, Left, GivenOK, Looked, Looking
<1>10. TrampOK'
  BY <1>1, <1>2 DEF EvqIInv, TrampOK, te, Owned, Orphan, Looking
<1>11. NoLostSignal'
  BY <1>1 DEF EvqIInv, NoLostSignal, Going
<1> QED BY <1>6, <1>7, <1>8, <1>9, <1>10, <1>11 DEF EvqIInv

\* An event handed over.
LEMMA HandedFields ==
    ASSUME NEW r \in EveType, r.ref \in 1 .. 3
    PROVE  /\ Handed(r) \in EveType /\ Handed(r).live = r.live /\ Handed(r).ref = r.ref - 1
           /\ Handed(r).held = r.held /\ Handed(r).cancelable = r.cancelable
           /\ Handed(r).cancelled = r.cancelled /\ Handed(r).ev = FALSE
           /\ Handed(r).ce = "freed" /\ Handed(r).qid = r.qid /\ Handed(r).stid = r.stid
<1> DEFINE z == CqZeroed(r)
<1>1. /\ z \in EveType /\ z.live = r.live /\ z.ref = r.ref /\ z.held = r.held
      /\ z.cancelable = r.cancelable /\ z.cancelled = r.cancelled /\ z.ev = FALSE
      /\ z.ce = "freed" /\ z.qid = r.qid /\ z.stid = r.stid
  BY DEF CqZeroed, EveType
<1> HIDE DEF z
<1>2. Handed(r) = [z EXCEPT !.ref = @ - 1]
  BY DEF Handed, z
<1> QED BY <1>1, <1>2 DEF EveType

\* What changes when an event is taken out of those not triggered yet, and
\* possibly appended to those triggered.
LEMMA QueueMove ==
    ASSUME EvqTypeOK, NEW h \in Qid, NEW E \in SUBSET Eve, NEW S \in Seq(Eve),
           queue' = [queue EXCEPT ![h].events = E, ![h].triggered = S]
    PROVE  /\ queue' \in [Qid -> QueueType]
           /\ \A p \in Qid : /\ queue'[p].events = IF p = h THEN E ELSE queue[p].events
                             /\ queue'[p].triggered = IF p = h THEN S ELSE queue[p].triggered
                             /\ queue'[p].ref = queue[p].ref
                             /\ p # h => queue'[p] = queue[p]
<1> DEFINE b == [queue[h] EXCEPT !.events = E, !.triggered = S]
<1>1. queue \in [Qid -> QueueType] /\ queue[h] \in QueueType
  BY DEF EvqTypeOK
<1>2. b \in QueueType /\ b.events = E /\ b.triggered = S /\ b.ref = queue[h].ref
  BY <1>1 DEF QueueType
<1>3. queue' = [queue EXCEPT ![h] = b]
  BY <1>1
<1> HIDE DEF b
<1> QED BY <1>1, <1>2, <1>3

\* evq_trampoline() moves the event to the list of triggered ones.
LEMMA HandoverOK ==
    ASSUME EvqIInv, TrampolineHandover
    PROVE  EvqIInv'
<1>0. PICK x \in Eve : x = tramp.eve
  BY DEF TrampolineHandover, At, EvqIInv, TrampOK
<1> DEFINE r == eve[x]
           b == Handed(r)
<1>1. PICK h \in Qid : h = tramp.qid
  BY Fields DEF TrampolineHandover, At, EvqIInv, TrampOK, Qid
<1>2. /\ tramp.pc = "lock" /\ tramp.eve = x /\ tramp.qid = h /\ r.live /\ r.qid = h
      /\ r \in EveType /\ r.stid \in Thread /\ tramp \in TrampType /\ Looked(x)
      /\ call' = Null
      /\ eve' = [eve EXCEPT ![x] = b] /\ eve'[x] = b
      /\ \A e \in Eve \ {x} : eve'[e] = eve[e]
      /\ UNCHANGED <<evqs, next_qid, thread, lost, raced, abort>>
  BY <1>0, <1>1 DEF TrampolineHandover, At, te, SetTe, EvqIInv, EvqTypeOK, TrampOK, EventOK, Looked, Looking
<1>3. queue[h].ref >= 1 /\ x \in queue[h].events /\ x \notin Range(queue[h].triggered) /\ h < next_qid
  <2>1. queue[h].ref >= 1
    BY <1>2 DEF EvqIInv, CountOK, Bit, TrampHas
  <2> QED BY <1>2, <2>1 DEF EvqIInv, PlaceOK, QueueOK, TrampOK
<1>4. Listed(x) /\ Engaged(x) /\ ~CalledBack(x) /\ r.ce # "linked" /\ r.ref \in 2 .. 3
  <2>1. Listed(x) /\ Engaged(x) /\ r.ce # "linked"
    BY <1>2, <1>3 DEF Listed, Left, Engaged, EvqIInv, PlaceOK
  <2>2. ~CalledBack(x)
    BY <1>2 DEF CalledBack, EvqIInv, ThreadOK, GivenOK
  <2> QED BY <1>2, <2>1, <2>2 DEF EvqIInv, RefsOK, Bit
<1>5. /\ b \in EveType /\ b.live /\ b.ref = r.ref - 1 /\ b.held = r.held
      /\ b.cancelable = r.cancelable /\ b.cancelled = r.cancelled
      /\ ~b.ev /\ b.ce = "freed" /\ b.qid = h /\ b.stid = r.stid
  <2>1. r.ref \in 1 .. 3 /\ r \in EveType
    BY <1>2, <1>4
  <2> HIDE DEF r
  <2> QED BY <1>2, <2>1, HandedFields
<1> HIDE DEF b
<1>6. \A e \in Eve : /\ (Owned(e)' <=> Owned(e)) /\ (Promised(e)' <=> Promised(e))
                     /\ (CalledBack(e)' <=> CalledBack(e))
  BY <1>2, <1>5 DEF Owned, Promised, CalledBack
<1>7. \A e \in Eve : eve[e].live => eve[e].qid \in Qid
  BY Fields DEF EvqIInv, EventOK, Qid
<1>8. \A e \in Eve : EventOK(e)'
  BY <1>2, <1>5, <1>6 DEF EvqIInv, EventOK
<1>9. \A e \in Eve : e # x => ~Looked(e) /\ ~Looked(e)'
  <2>1. tramp'.eve = x
    BY <1>0, <1>2 DEF TrampolineHandover, Goto, TrampType
  <2> QED BY <1>2, <2>1 DEF Looked
<1>10. CASE /\ thread[r.stid].pc # "gone"
            /\ queue' = [queue EXCEPT ![h].events = @ \ {x}, ![h].triggered = Append(@, x)]
            /\ sig' = sig \cup {r.stid}
            /\ tramp' = [tramp EXCEPT !.pc = "release"]
  <2>1. /\ tramp' \in TrampType /\ tramp'.pc = "release" /\ tramp'.eve = x /\ tramp'.qid = h
    BY <1>2, <1>10 DEF TrampType
  <2>2. /\ queue' \in [Qid -> QueueType]
        /\ \A p \in Qid : /\ queue'[p].events = IF p = h THEN queue[h].events \ {x} ELSE queue[p].events
                          /\ queue'[p].triggered = IF p = h THEN Append(queue[h].triggered, x) ELSE queue[p].triggered
                          /\ queue'[p].ref = queue[p].ref
                          /\ p # h => queue'[p] = queue[p]
    <3>1. queue' = [queue EXCEPT ![h].events = queue[h].events \ {x}, ![h].triggered = Append(queue[h].triggered, x)]
      BY <1>10
    <3>2. queue[h].events \ {x} \in SUBSET Eve /\ Append(queue[h].triggered, x) \in Seq(Eve) /\ EvqTypeOK
      BY Fields DEF EvqIInv
    <3> QED BY <3>1, <3>2, QueueMove
  <2>3. /\ Range(queue'[h].triggered) = Range(queue[h].triggered) \cup {x}
        /\ IsInjective(queue'[h].triggered)
    <3> DEFINE S == queue[h].triggered
    <3>1. S \in Seq(Eve) /\ x \notin Range(S) /\ IsInjective(S)
      BY <1>3, Fields DEF EvqIInv, QueueOK
    <3> HIDE DEF S
    <3>2. Range(Append(S, x)) = Range(S) \cup {x} /\ IsInjective(Append(S, x))
      BY <3>1, AppendRange
    <3> QED BY <2>2, <3>2 DEF S
  <2>4. \A p \in Qid : Left(p)' = Left(p)
    BY <1>3, <2>2, <2>3 DEF Left
  <2>5. EvqTypeOK'
    BY <1>2, <1>5, <1>10, <2>1, <2>2 DEF EvqIInv, EvqTypeOK
  <2>6. ASSUME NEW e \in Eve PROVE RefsOK(e)' /\ PlaceOK(e)'
    <3>1. ~Looked(e)'
      BY <2>1 DEF Looked, Looking
    <3>2. CASE e # x
      <4>1. (Engaged(e)' <=> Engaged(e)) /\ (eve[e].live => (Listed(e)' <=> Listed(e)))
        BY <1>2, <1>7, <1>9, <2>4, <3>1, <3>2 DEF Engaged, Listed
      <4>2. RefsOK(e)'
        BY <1>2, <1>6, <3>2, <4>1, RefsFrame DEF EvqIInv
      <4>3. PlaceOK(e)'
        BY <1>2, <1>6, <1>7, <1>9, <2>1, <2>2, <3>1, <3>2, <4>1 DEF EvqIInv, PlaceOK
      <4> QED BY <4>2, <4>3
    <3>3. CASE e = x
      <4>1. ~Engaged(x)' /\ Listed(x)'
        BY <1>2, <1>4, <1>5, <2>4, <3>1, <3>3 DEF Engaged, Listed
      <4>2. RefsOK(x)'
        BY <1>2, <1>4, <1>5, <1>6, <4>1 DEF EvqIInv, RefsOK, Bit
      <4>3. PlaceOK(x)'
        BY <1>2, <1>5, <2>1, <4>1 DEF PlaceOK
      <4> QED BY <3>3, <4>2, <4>3
    <3> QED BY <3>2, <3>3
  <2>7. ASSUME NEW q \in Qid PROVE QueueOK(q)' /\ CountOK(q)'
    <3>1. QueueOK(q)'
      <4>1. q >= next_qid => q # h
        BY <1>3, Fields DEF EvqIInv, Qid
      <4>2. \A e \in Eve : ~Looked(e)'
        BY <2>1 DEF Looked, Looking
      <4>3. \A e \in Left(q)' : eve'[e].live /\ eve'[e].qid = q
        BY <1>2, <1>5, <2>4, Fields DEF EvqIInv, QueueOK, Left
      <4>4. \A e \in Range(queue'[q].triggered) :
                e \in Eve /\ ((e = x /\ q = h) \/ (e # x /\ e \in Range(queue[q].triggered)))
        <5>1. Range(queue[q].triggered) \subseteq Eve
          BY Fields DEF EvqIInv, Range
        <5>2. q # h => x \notin Left(q)
          BY <1>2 DEF EvqIInv, QueueOK
        <5>3. CASE q = h
          <6>1. Range(queue'[q].triggered) = Range(queue[q].triggered) \cup {x}
            BY <2>3, <5>3
          <6>2. TAKE e \in Range(queue'[q].triggered)
          <6>3. e \in Range(queue[q].triggered) \/ e = x
            BY <6>1
          <6> QED BY <5>1, <5>3, <6>3
        <5>4. CASE q # h
          BY <2>2, <5>1, <5>2, <5>4 DEF Left
        <5> QED BY <5>3, <5>4
      <4>5. ASSUME NEW e \in Range(queue'[q].triggered)
            PROVE  e \notin queue'[q].events /\ GivenOK(e)'
        <5>1. CASE e = x /\ q = h
          BY <1>2, <1>5, <2>2, <4>2, <5>1 DEF GivenOK
        <5>2. CASE e # x /\ e \in Range(queue[q].triggered)
          <6>1. e \notin queue[q].events /\ eve[e].ce = "freed"
            BY <5>2 DEF EvqIInv, QueueOK, GivenOK
          <6> QED BY <1>2, <2>2, <4>2, <4>4, <5>2, <6>1 DEF GivenOK
        <5> QED BY <4>4, <5>1, <5>2
      <4>6. IsInjective(queue'[q].triggered)
        BY <2>2, <2>3 DEF EvqIInv, QueueOK
      <4>7. q >= next_qid' => queue'[q] = [ref |-> 0, events |-> {}, triggered |-> <<>>]
        BY <1>2, <2>2, <4>1 DEF EvqIInv, QueueOK
      <4> QED BY <4>3, <4>5, <4>6, <4>7 DEF QueueOK
    <3>2. TrampHas(q)' <=> TrampHas(q)
      BY <1>2, <2>1 DEF TrampHas
    <3> QED BY <1>2, <2>2, <3>1, <3>2 DEF EvqIInv, CountOK, Bit, Has
  <2>8. ASSUME NEW u \in Thread PROVE ThreadOK(u)'
    <3>1. thread[u].pc = "callback" => thread[u].eve # x
      BY <1>2 DEF EvqIInv, ThreadOK, GivenOK
    <3>2. (evqs[u] # 0 => evqs[u] \in Qid) /\ (thread[u].qid # 0 => thread[u].qid \in Qid)
      BY Fields DEF EvqIInv, Qid
    <3>3. thread[u].pc = "callback" => evqs[u] # 0
      BY Fields DEF EvqIInv, ThreadOK, EventOK
    <3>4. \A v \in Thread : Has(v)' = Has(v)
      BY <1>2 DEF Has
    <3> QED BY <1>2, <2>1, <2>2, <2>4, <3>1, <3>2, <3>3, <3>4 DEF EvqIInv, ThreadOK, GivenOK, Looked, Looking
  <2>9. TrampOK'
    BY <1>2, <2>1 DEF EvqIInv, TrampOK, te, Owned, Orphan, Looking
  <2>10. NoLostSignal'
    <3>1. \A u \in Thread : (evqs[u] # 0 => evqs[u] \in Qid) /\ (evqs[u] = h => u = r.stid)
      BY <1>2, Fields DEF EvqIInv, EventOK, Qid
    <3> QED BY <1>2, <1>10, <2>2, <3>1 DEF EvqIInv, NoLostSignal, Going
  <2> QED BY <1>8, <2>5, <2>6, <2>7, <2>8, <2>9, <2>10 DEF EvqIInv
<1>11. CASE /\ thread[r.stid].pc \in {"gone", "exit"}
            /\ queue' = [queue EXCEPT ![h].events = @ \ {x}]
            /\ sig' = sig
            /\ tramp' = [tramp EXCEPT !.pc = "unref"]
  <2>1. /\ tramp' \in TrampType /\ tramp'.pc = "unref" /\ tramp'.eve = x /\ tramp'.qid = h
    BY <1>2, <1>11 DEF TrampType
  <2>2. /\ queue' \in [Qid -> QueueType]
        /\ \A p \in Qid : /\ queue'[p].events = IF p = h THEN queue[h].events \ {x} ELSE queue[p].events
                          /\ queue'[p].triggered = queue[p].triggered
                          /\ queue'[p].ref = queue[p].ref
                          /\ p # h => queue'[p] = queue[p]
    <3>1. queue' = [queue EXCEPT ![h].events = queue[h].events \ {x}, ![h].triggered = queue[h].triggered]
      BY <1>11 DEF EvqIInv, EvqTypeOK, QueueType
    <3>2. queue[h].events \ {x} \in SUBSET Eve /\ queue[h].triggered \in Seq(Eve) /\ EvqTypeOK
      BY Fields DEF EvqIInv
    <3>3. /\ queue' \in [Qid -> QueueType]
          /\ \A p \in Qid : /\ queue'[p].events = IF p = h THEN queue[h].events \ {x} ELSE queue[p].events
                            /\ queue'[p].triggered = IF p = h THEN queue[h].triggered ELSE queue[p].triggered
                            /\ queue'[p].ref = queue[p].ref
                            /\ p # h => queue'[p] = queue[p]
      BY <3>1, <3>2, QueueMove
    <3> QED BY <3>3
  <2>3. \A p \in Qid : Left(p)' = IF p = h THEN Left(p) \ {x} ELSE Left(p)
    BY <1>3, <2>2 DEF Left
  <2>4. ~Owned(x)
    BY <1>2, <1>11, Fields DEF EvqIInv, ThreadOK, Owned, EventOK
  <2>5. EvqTypeOK'
    BY <1>2, <1>5, <1>11, <2>1, <2>2 DEF EvqIInv, EvqTypeOK
  <2>6. ASSUME NEW e \in Eve PROVE RefsOK(e)' /\ PlaceOK(e)'
    <3>1. Looked(e)' <=> Looked(e)
      BY <1>2, <2>1 DEF Looked, Looking
    <3>2. CASE e # x
      <4>1. (Engaged(e)' <=> Engaged(e)) /\ (eve[e].live => (Listed(e)' <=> Listed(e)))
        BY <1>2, <1>7, <2>3, <3>1, <3>2 DEF Engaged, Listed
      <4>2. RefsOK(e)'
        BY <1>2, <1>6, <3>2, <4>1, RefsFrame DEF EvqIInv
      <4>3. PlaceOK(e)'
        BY <1>2, <1>6, <1>7, <1>9, <2>1, <2>2, <3>1, <3>2, <4>1 DEF EvqIInv, PlaceOK
      <4> QED BY <4>2, <4>3
    <3>3. CASE e = x
      <4>1. Engaged(x)' /\ ~Listed(x)' /\ ~Owned(x)'
        BY <1>2, <1>4, <1>5, <1>6, <2>3, <2>4, <3>1, <3>3 DEF Engaged, Listed
      <4>2. RefsOK(x)'
        <5>1. eve'[x].ref = r.ref - 1 /\ r.ref \in 2 .. 3
          BY <1>2, <1>4, <1>5
        <5> QED BY <4>1, <5>1 DEF RefsOK, Bit
      <4>3. PlaceOK(x)'
        BY <1>2, <1>4, <1>5, <2>1, <4>1 DEF EvqIInv, PlaceOK
      <4> QED BY <3>3, <4>2, <4>3
    <3> QED BY <3>2, <3>3
  <2>7. ASSUME NEW q \in Qid PROVE QueueOK(q)' /\ CountOK(q)'
    <3>1. QueueOK(q)'
      <4>1. q >= next_qid => q # h
        BY <1>3, Fields DEF EvqIInv, Qid
      <4>2. x \notin Range(queue[q].triggered) /\ Left(q)' \subseteq Left(q) /\ x \notin Left(q)' /\ Left(q) \subseteq Eve
        BY <1>2, <1>3, <2>3, Fields DEF EvqIInv, QueueOK, Left, Range
      <4>3. \A e \in Left(q)' : eve'[e].live /\ eve'[e].qid = q
        BY <1>2, <4>2 DEF EvqIInv, QueueOK
      <4>4. ASSUME NEW e \in Range(queue'[q].triggered)
            PROVE  e \notin queue'[q].events /\ GivenOK(e)'
        <5>1. e \in Range(queue[q].triggered) /\ e # x /\ e \in Eve
          BY <2>2, <4>2 DEF Left
        <5>2. e \notin queue[q].events /\ eve[e].ce = "freed"
          BY <5>1 DEF EvqIInv, QueueOK, GivenOK
        <5> QED BY <1>2, <1>9, <2>2, <5>1, <5>2 DEF GivenOK
      <4>5. IsInjective(queue'[q].triggered)
        BY <2>2 DEF EvqIInv, QueueOK
      <4>6. q >= next_qid' => queue'[q] = [ref |-> 0, events |-> {}, triggered |-> <<>>]
        BY <1>2, <2>2, <4>1 DEF EvqIInv, QueueOK
      <4> QED BY <4>3, <4>4, <4>5, <4>6 DEF QueueOK
    <3>2. TrampHas(q)' <=> TrampHas(q)
      BY <1>2, <2>1 DEF TrampHas
    <3> QED BY <1>2, <2>2, <3>1, <3>2 DEF EvqIInv, CountOK, Bit, Has
  <2>8. ASSUME NEW u \in Thread PROVE ThreadOK(u)'
    <3>1. thread[u].pc = "callback" => thread[u].eve # x
      BY <1>2 DEF EvqIInv, ThreadOK, GivenOK
    <3>2. (evqs[u] # 0 => evqs[u] \in Qid) /\ (thread[u].qid # 0 => thread[u].qid \in Qid)
      BY Fields DEF EvqIInv, Qid
    <3>3. thread[u].pc = "callback" => evqs[u] # 0
      BY Fields DEF EvqIInv, ThreadOK, EventOK
    <3>4. \A v \in Thread : Has(v)' = Has(v)
      BY <1>2 DEF Has
    <3> QED BY <1>2, <2>1, <2>2, <2>3, <3>1, <3>2, <3>3, <3>4 DEF EvqIInv, ThreadOK, GivenOK, Looked, Looking
  <2>9. TrampOK'
    BY <1>2, <1>5, <1>6, <2>1, <2>4 DEF EvqIInv, TrampOK, te, Owned, Orphan, Looking
  <2>10. NoLostSignal'
    <3>1. \A u \in Thread : evqs[u] # 0 => evqs[u] \in Qid
      BY Fields DEF EvqIInv, Qid
    <3> QED BY <1>2, <1>11, <2>2, <3>1 DEF EvqIInv, NoLostSignal, Going
  <2> QED BY <1>8, <2>5, <2>6, <2>7, <2>8, <2>9, <2>10 DEF EvqIInv
<1> QED BY <1>0, <1>1, <1>10, <1>11 DEF TrampolineHandover, te, Signal, Goto

----------------------------------------------------------------------------
(* The events called back, and their end.                                  *)

\* evq_local_dispatch() takes the next triggered event out of the queue.
LEMMA DispatchNextOK ==
    ASSUME EvqIInv, NEW t \in Thread, DispatchNext(t)
    PROVE  EvqIInv'
<1>0. PICK h \in Qid : h = evqs[t] /\ h # 0
  BY Fields DEF DispatchNext, EvqIInv, Qid
<1> DEFINE S == queue[h].triggered
<1>1. /\ thread[t].pc = "dispatch" /\ evqs[t] = h /\ S # <<>> /\ S \in Seq(Eve) /\ IsInjective(S)
      /\ queue' = [queue EXCEPT ![h].triggered = Tail(S)]
      /\ UNCHANGED <<evqs, next_qid, sig, lost, tramp, call, raced, abort>>
  BY <1>0, Fields DEF DispatchNext, EvqIInv, QueueOK
<1>2. PICK x \in Eve : x = Head(S)
  BY <1>1
<1>3. /\ x \in Range(S) /\ Tail(S) \in Seq(Eve) /\ IsInjective(Tail(S))
      /\ Range(S) = Range(Tail(S)) \cup {x} /\ x \notin Range(Tail(S))
  <2> HIDE DEF S
  <2> QED BY <1>1, <1>2, TailRange
<1> DEFINE r == eve[x]
<1>4. /\ r.live /\ r.qid = h /\ x \notin queue[h].events /\ GivenOK(x) /\ r.stid = t /\ Owned(x)
      /\ r \in EveType
  <2>1. r.live /\ r.qid = h /\ x \notin queue[h].events /\ GivenOK(x)
    BY <1>3 DEF EvqIInv, QueueOK, Left
  <2>2. r.stid = t
    BY <1>1, <2>1 DEF EvqIInv, EventOK
  <2> QED BY <1>1, <2>1, <2>2 DEF Owned, EvqIInv, EvqTypeOK
<1>5. /\ queue' \in [Qid -> QueueType]
      /\ \A p \in Qid : /\ queue'[p].events = queue[p].events
                        /\ queue'[p].triggered = IF p = h THEN Tail(S) ELSE queue[p].triggered
                        /\ queue'[p].ref = queue[p].ref
                        /\ p # h => queue'[p] = queue[p]
  <2>1. queue' = [queue EXCEPT ![h].events = queue[h].events, ![h].triggered = Tail(S)]
    BY <1>1 DEF EvqIInv, EvqTypeOK, QueueType
  <2>2. queue[h].events \in SUBSET Eve /\ Tail(S) \in Seq(Eve) /\ EvqTypeOK
    BY <1>3, Fields DEF EvqIInv
  <2>3. /\ queue' \in [Qid -> QueueType]
        /\ \A p \in Qid : /\ queue'[p].events = IF p = h THEN queue[h].events ELSE queue[p].events
                          /\ queue'[p].triggered = IF p = h THEN Tail(S) ELSE queue[p].triggered
                          /\ queue'[p].ref = queue[p].ref
                          /\ p # h => queue'[p] = queue[p]
    <3> HIDE DEF S
    <3> QED BY <2>1, <2>2, QueueMove
  <2> QED BY <2>3
<1>6. \A p \in Qid : Left(p)' = IF p = h THEN Left(p) \ {x} ELSE Left(p)
  BY <1>3, <1>4, <1>5 DEF Left
<1>7. \A e \in Eve : (Looked(e)' <=> Looked(e)) /\ (eve[e].live => eve[e].qid \in Qid)
  BY <1>1, Fields DEF Looked, Looking, EvqIInv, EventOK, Qid
<1>8. \A u \in Thread : thread[u].pc = "callback" => thread[u].eve # x
  BY <1>1, <1>4 DEF EvqIInv, ThreadOK
<1>9. ~CalledBack(x) /\ Listed(x) /\ ~Engaged(x)
  BY <1>3, <1>4, <1>8 DEF CalledBack, Listed, Left, Engaged, GivenOK
<1>10. r.ref = Bit(Promised(x)) + 1
  BY <1>4, <1>9 DEF EvqIInv, RefsOK, Bit
<1>11. h < next_qid
  BY <1>1, Fields DEF EvqIInv, ThreadOK
\* What both cases have in common.
<1>12. ASSUME \A e \in Eve \ {x} : eve'[e] = eve[e],
              \A u \in Thread \ {t} : thread'[u] = thread[u],
              thread'[t].pc \in {"dispatch", "callback"}, thread'[t].qid = 0,
              \A e \in Eve \ {x} : CalledBack(e)' <=> CalledBack(e),
              EvqTypeOK', RefsOK(x)', EventOK(x)', PlaceOK(x)', ThreadOK(t)',
              tramp.eve = x => ~Looking
       PROVE  EvqIInv'
  <2>1. ASSUME NEW e \in Eve, e # x PROVE RefsOK(e)' /\ EventOK(e)' /\ PlaceOK(e)'
    <3>1. /\ (Owned(e)' <=> Owned(e)) /\ (Promised(e)' <=> Promised(e)) /\ (Engaged(e)' <=> Engaged(e))
          /\ eve[e].live => (Listed(e)' <=> Listed(e))
      BY <1>1, <1>6, <1>7, <1>12, <2>1 DEF Owned, Promised, Engaged, Listed
    <3>2. RefsOK(e)'
      BY <1>12, <2>1, <3>1, RefsFrame DEF EvqIInv
    <3>3. EventOK(e)'
      BY <1>1, <1>12, <2>1, <3>1 DEF EvqIInv, EventOK
    <3>4. PlaceOK(e)'
      BY <1>1, <1>5, <1>7, <1>12, <2>1, <3>1 DEF EvqIInv, PlaceOK
    <3> QED BY <3>2, <3>3, <3>4
  <2>2. \A v \in Thread : Has(v)' = Has(v)
    BY <1>1, <1>12 DEF Has
  <2>3. ASSUME NEW q \in Qid PROVE QueueOK(q)' /\ CountOK(q)'
    <3>1. q >= next_qid => q # h
      BY <1>11, Fields DEF EvqIInv, Qid
    <3>2. x \notin Left(q)' /\ Left(q)' \subseteq Left(q) /\ Left(q) \subseteq Eve
      BY <1>4, <1>6, Fields DEF EvqIInv, QueueOK, Left, Range
    <3>3. \A e \in Left(q)' : eve'[e].live /\ eve'[e].qid = q
      BY <1>12, <3>2 DEF EvqIInv, QueueOK
    <3>4. Range(queue'[q].triggered) \subseteq Range(queue[q].triggered) /\ IsInjective(queue'[q].triggered)
      <4>1. CASE q = h
        BY <1>3, <1>5, <4>1
      <4>2. CASE q # h
        BY <1>5, <4>2 DEF EvqIInv, QueueOK
      <4> QED BY <4>1, <4>2
    <3>5. ASSUME NEW e \in Range(queue'[q].triggered)
          PROVE  e \notin queue'[q].events /\ GivenOK(e)'
      <4>1. e \in Range(queue[q].triggered) /\ e # x /\ e \in Eve
        BY <3>2, <3>4 DEF Left
      <4>2. e \notin queue[q].events /\ GivenOK(e)
        BY <4>1 DEF EvqIInv, QueueOK
      <4> QED BY <1>5, <1>7, <1>12, <4>1, <4>2 DEF GivenOK
    <3>6. q >= next_qid' => queue'[q] = [ref |-> 0, events |-> {}, triggered |-> <<>>]
      BY <1>1, <1>5, <3>1 DEF EvqIInv, QueueOK
    <3>7. QueueOK(q)'
      BY <3>3, <3>4, <3>5, <3>6 DEF QueueOK
    <3> QED BY <1>1, <1>5, <2>2, <3>7 DEF EvqIInv, CountOK, Bit, TrampHas
  <2>4. ASSUME NEW u \in Thread, u # t PROVE ThreadOK(u)'
    <3>1. (evqs[u] # 0 => evqs[u] \in Qid) /\ (thread[u].qid # 0 => thread[u].qid \in Qid)
      BY Fields DEF EvqIInv, Qid
    <3>2. thread[u].pc = "callback" => evqs[u] # 0
      BY Fields DEF EvqIInv, ThreadOK, EventOK
    <3> QED BY <1>1, <1>5, <1>6, <1>7, <1>8, <1>12, <2>2, <2>4, <3>1, <3>2 DEF EvqIInv, ThreadOK, GivenOK
  <2>5. TrampOK'
    <3>1. tramp.pc # "idle" /\ tramp.eve # x => eve'[tramp.eve] = eve[tramp.eve]
      BY <1>12 DEF EvqIInv, TrampOK
    <3> QED BY <1>1, <1>5, <1>12, <3>1, Fields DEF EvqIInv, TrampOK, te, Orphan, Looking, Owned, Qid
  <2>6. NoLostSignal'
    <3>1. \A u \in Thread : (evqs[u] # 0 => evqs[u] \in Qid) /\ (evqs[u] = h => u = t)
      BY <1>4, Fields DEF EvqIInv, EventOK, Qid
    <3> QED BY <1>1, <1>5, <1>12, <3>1 DEF EvqIInv, NoLostSignal, Going
  <2> QED BY <1>12, <2>1, <2>3, <2>4, <2>5, <2>6 DEF EvqIInv
<1>13. CASE r.cancelled /\ eve' = [eve EXCEPT ![x] = FreeEve] /\ UNCHANGED thread
  <2>1. eve'[x] = FreeEve /\ eve' \in [Eve -> EveType] /\ \A e \in Eve \ {x} : eve'[e] = eve[e]
    BY <1>13, FreeEveFields DEF EvqIInv, EvqTypeOK
  <2>2. EvqTypeOK'
    BY <1>1, <1>5, <1>13, <2>1 DEF EvqIInv, EvqTypeOK
  <2>3. tramp.eve = x => ~Looking
    BY <1>4 DEF GivenOK, Looked
  <2>4. RefsOK(x)' /\ EventOK(x)' /\ PlaceOK(x)'
    BY <1>1, <2>1, <2>3, FreeEveFields DEF RefsOK, EventOK, PlaceOK, Looked, Looking
  <2>5. ThreadOK(t)'
    BY <1>1, <1>13 DEF EvqIInv, ThreadOK, Has
  <2>6. \A e \in Eve : CalledBack(e)' <=> CalledBack(e)
    BY <1>13 DEF CalledBack
  <2>7. thread'[t].pc = "dispatch" /\ thread'[t].qid = 0 /\ \A u \in Thread : thread'[u] = thread[u]
    BY <1>1, <1>13 DEF EvqIInv, ThreadOK
  <2> QED BY <1>12, <2>1, <2>2, <2>3, <2>4, <2>5, <2>6, <2>7
<1>14. CASE ~r.cancelled /\ SetThread(t, "callback", x, 0) /\ UNCHANGED eve
  <2> DEFINE b == [pc |-> "callback", eve |-> x, qid |-> 0]
  <2>1. thread' = [thread EXCEPT ![t] = b] /\ b \in ThreadType /\ b.pc = "callback" /\ b.eve = x /\ b.qid = 0
    BY <1>14, EvqAssumption DEF SetThread, ThreadType
  <2> HIDE DEF b
  <2>2. thread'[t] = b /\ thread' \in [Thread -> ThreadType] /\ \A u \in Thread \ {t} : thread'[u] = thread[u]
    BY <2>1 DEF EvqIInv, EvqTypeOK
  <2>3. EvqTypeOK'
    BY <1>1, <1>5, <1>14, <2>2 DEF EvqIInv, EvqTypeOK
  <2>4. \A e \in Eve : CalledBack(e)' <=> (CalledBack(e) \/ e = x)
    BY <1>1, <2>1, <2>2 DEF CalledBack
  <2>5. tramp.eve = x => ~Looking
    BY <1>4 DEF GivenOK, Looked
  <2>6. ~Listed(x)' /\ (Promised(x)' <=> Promised(x)) /\ ~Engaged(x)' /\ Owned(x)'
    BY <1>1, <1>4, <1>6, <1>7, <1>9, <1>14 DEF Listed, Promised, Engaged, Owned
  <2>7. RefsOK(x)'
    BY <1>4, <1>10, <1>14, <2>4, <2>6 DEF EvqIInv, RefsOK, Bit
  <2>8. EventOK(x)'
    BY <1>1, <1>14, <2>6 DEF EvqIInv, EventOK
  <2>9. PlaceOK(x)'
    BY <1>1, <1>5, <1>7, <1>14, <2>6 DEF EvqIInv, PlaceOK, Owned
  <2>10. ThreadOK(t)'
    <3>1. x \notin Left(h)'
      BY <1>6
    <3>2. GivenOK(x)'
      BY <1>4, <1>7, <1>14 DEF GivenOK
    <3>3. \A v \in Thread : Has(v)' = Has(v)
      BY <1>1, <2>1, <2>2 DEF Has
    <3> QED BY <1>1, <1>4, <1>11, <1>14, <2>1, <2>2, <3>1, <3>2, <3>3, Fields DEF EvqIInv, ThreadOK
  <2> QED BY <1>12, <1>14, <2>1, <2>2, <2>3, <2>4, <2>5, <2>7, <2>8, <2>9, <2>10
<1> QED BY <1>0, <1>2, <1>13, <1>14 DEF DispatchNext

\* The callback returns, and the reference of the event it used is dropped.
LEMMA CallbackReturnsOK ==
    ASSUME EvqIInv, NEW t \in Thread, CallbackReturns(t)
    PROVE  EvqIInv'
<1>0. PICK x \in Eve : x = thread[t].eve
  BY DEF CallbackReturns, EvqIInv, ThreadOK
<1> DEFINE r == eve[x]
           b == Unref(r)
           w == [pc |-> "dispatch", eve |-> Null, qid |-> 0]
<1>1. /\ thread[t].pc = "callback" /\ r.live /\ r.stid = t /\ r.qid = evqs[t] /\ Owned(x)
      /\ x \notin Left(evqs[t]) /\ GivenOK(x) /\ r \in EveType /\ evqs[t] \in Qid
      /\ eve' = [eve EXCEPT ![x] = b] /\ eve'[x] = b
      /\ \A e \in Eve \ {x} : eve'[e] = eve[e]
      /\ thread' = [thread EXCEPT ![t] = w] /\ thread'[t] = w
      /\ \A u \in Thread \ {t} : thread'[u] = thread[u]
      /\ UNCHANGED <<evqs, queue, next_qid, sig, lost, tramp, call, raced, abort>>
  BY <1>0, Fields DEF CallbackReturns, SetThread, EvqIInv, EvqTypeOK, ThreadOK, EventOK, Owned, Qid
<1>2. w \in ThreadType /\ w.pc = "dispatch" /\ w.qid = 0
  BY EvqAssumption DEF ThreadType
<1>3. ~Listed(x) /\ ~Engaged(x) /\ CalledBack(x) /\ (tramp.eve = x => ~Looking)
  BY <1>0, <1>1 DEF Listed, Engaged, GivenOK, CalledBack, Looked
<1>4. r.ref = Bit(Promised(x)) + 1 /\ (r.held <=> Promised(x)) /\ r.ref \in 1 .. 2
  BY <1>1, <1>3 DEF EvqIInv, RefsOK, Bit
<1>5. /\ b \in EveType
      /\ r.ref = 1 => b = FreeEve
      /\ r.ref # 1 => /\ b.live /\ b.ref = r.ref - 1 /\ b.held = r.held /\ b.cancelable = r.cancelable
                      /\ b.cancelled = r.cancelled /\ b.ev = r.ev /\ b.ce = r.ce
                      /\ b.qid = r.qid /\ b.stid = r.stid
  <2> HIDE DEF r
  <2> QED BY <1>1, <1>4, UnrefFields
<1> HIDE DEF b, w
<1>6. EvqTypeOK'
  BY <1>1, <1>2, <1>5 DEF EvqIInv, EvqTypeOK
<1>7. \A u \in Thread : u # t /\ thread[u].pc = "callback" => thread[u].eve # x
  BY <1>1 DEF EvqIInv, ThreadOK
<1>8. \A q \in Qid : Left(q)' = Left(q) /\ x \notin Left(q) /\ Left(q) \subseteq Eve
  BY <1>1, Fields DEF Left, EvqIInv, QueueOK, Range
<1>9. \A e \in Eve : (Looked(e)' <=> Looked(e)) /\ (eve[e].live => eve[e].qid \in Qid)
  BY <1>1, Fields DEF Looked, Looking, EvqIInv, EventOK, Qid
<1>10. \A v \in Thread : Has(v)' = Has(v)
  BY <1>1, <1>2 DEF Has
<1>11. ASSUME NEW e \in Eve PROVE RefsOK(e)' /\ EventOK(e)' /\ PlaceOK(e)'
  <2>1. CASE e # x
    <3>1. CalledBack(e)' <=> CalledBack(e)
      BY <1>0, <1>1, <1>2, <2>1 DEF CalledBack
    <3>2. /\ (Owned(e)' <=> Owned(e)) /\ (Promised(e)' <=> Promised(e)) /\ (Engaged(e)' <=> Engaged(e))
          /\ eve[e].live => (Listed(e)' <=> Listed(e))
      BY <1>1, <1>8, <1>9, <2>1 DEF Owned, Promised, Engaged, Listed
    <3>3. RefsOK(e)'
      BY <1>1, <2>1, <3>1, <3>2, RefsFrame DEF EvqIInv
    <3>4. EventOK(e)'
      BY <1>1, <2>1, <3>2 DEF EvqIInv, EventOK
    <3>5. PlaceOK(e)'
      BY <1>1, <1>9, <2>1, <3>2 DEF EvqIInv, PlaceOK
    <3> QED BY <3>3, <3>4, <3>5
  <2>2. CASE e = x
    <3>1. CASE r.ref = 1
      BY <1>1, <1>3, <1>5, <1>9, <2>2, <3>1, FreeEveFields DEF RefsOK, EventOK, PlaceOK, Looked, Engaged
    <3>2. CASE r.ref # 1
      <4>1. ~CalledBack(x)'
        BY <1>1, <1>2, <1>7 DEF CalledBack
      <4>2. Owned(x)' /\ (Promised(x)' <=> Promised(x)) /\ ~Engaged(x)' /\ ~Listed(x)'
        BY <1>1, <1>3, <1>5, <1>8, <1>9, <3>2 DEF Owned, Promised, Engaged, Listed
      <4>3. RefsOK(x)'
        BY <1>1, <1>4, <1>5, <3>2, <4>1, <4>2 DEF RefsOK, Bit
      <4>4. EventOK(x)'
        BY <1>1, <1>5, <3>2, <4>2 DEF EvqIInv, EventOK
      <4>5. PlaceOK(x)'
        BY <1>1, <1>3, <1>5, <1>9, <3>2, <4>2 DEF EvqIInv, PlaceOK, GivenOK, Looked, Looking
      <4> QED BY <2>2, <4>3, <4>4, <4>5
    <3> QED BY <3>1, <3>2
  <2> QED BY <2>1, <2>2
<1>12. ASSUME NEW q \in Qid PROVE QueueOK(q)' /\ CountOK(q)'
  <2>1. Range(queue[q].triggered) \subseteq Left(q)
    BY DEF Left
  <2>2. QueueOK(q)'
    BY <1>1, <1>8, <1>9, <2>1 DEF EvqIInv, QueueOK, GivenOK
  <2> QED BY <1>1, <1>10, <2>2 DEF EvqIInv, CountOK, Bit, TrampHas
<1>13. ASSUME NEW u \in Thread PROVE ThreadOK(u)'
  <2>1. CASE u = t
    BY <1>1, <1>2, <1>10, <2>1 DEF EvqIInv, ThreadOK
  <2>2. CASE u # t
    BY <1>1, <1>7, <1>8, <1>9, <1>10, <2>2 DEF EvqIInv, ThreadOK, GivenOK, Left
  <2> QED BY <2>1, <2>2
<1>14. TrampOK'
  <2>1. tramp.pc # "idle" /\ tramp.eve # x => eve'[tramp.eve] = eve[tramp.eve]
    BY <1>1 DEF EvqIInv, TrampOK
  <2> QED BY <1>1, <1>3, <2>1 DEF EvqIInv, TrampOK, te, Orphan, Looking, Owned
<1>15. NoLostSignal'
  BY <1>1, <1>2 DEF EvqIInv, NoLostSignal, Going
<1> QED BY <1>6, <1>11, <1>12, <1>13, <1>14, <1>15 DEF EvqIInv

----------------------------------------------------------------------------
(* The end of a thread.                                                    *)

\* evq_free(): the queue of an exiting thread is no longer found.
LEMMA FreeOK ==
    ASSUME EvqIInv, NEW t \in Thread, evq_free(t)
    PROVE  EvqIInv'
<1> DEFINE w == [pc |-> "exit", eve |-> Null, qid |-> evqs[t]]
<1>1. /\ thread[t].pc = "run" /\ thread[t].qid = 0
      /\ evqs' = [evqs EXCEPT ![t] = 0] /\ evqs'[t] = 0
      /\ \A u \in Thread \ {t} : evqs'[u] = evqs[u] /\ thread'[u] = thread[u]
      /\ thread' = [thread EXCEPT ![t] = w] /\ thread'[t] = w
      /\ \A e \in Eve : eve'[e] = IF eve[e].stid = t THEN [eve[e] EXCEPT !.held = FALSE] ELSE eve[e]
      /\ DOMAIN eve' = Eve /\ eve' = [e \in Eve |-> eve'[e]]
      /\ lost' = lost \ {t}
      /\ UNCHANGED <<queue, next_qid, sig, tramp, call, raced, abort>>
  BY DEF evq_free, SetThread, EvqIInv, EvqTypeOK, ThreadOK
<1>2. w \in ThreadType /\ w.pc = "exit" /\ w.qid = evqs[t]
  BY EvqAssumption DEF ThreadType, EvqIInv, EvqTypeOK
<1>3. \A e \in Eve : /\ eve'[e] \in EveType /\ eve'[e].live = eve[e].live /\ eve'[e].ref = eve[e].ref
                     /\ eve'[e].cancelable = eve[e].cancelable /\ eve'[e].cancelled = eve[e].cancelled
                     /\ eve'[e].ev = eve[e].ev /\ eve'[e].ce = eve[e].ce
                     /\ eve'[e].qid = eve[e].qid /\ eve'[e].stid = eve[e].stid
                     /\ eve[e].stid = t => ~eve'[e].held
                     /\ eve[e].stid # t => eve'[e] = eve[e]
  <2> TAKE e \in Eve
  <2>1. eve[e] \in EveType
    BY DEF EvqIInv, EvqTypeOK
  <2> DEFINE r == eve[e]
             z == [r EXCEPT !.held = FALSE]
  <2>2. /\ z \in EveType /\ z.live = r.live /\ z.ref = r.ref /\ ~z.held
        /\ z.cancelable = r.cancelable /\ z.cancelled = r.cancelled
        /\ z.ev = r.ev /\ z.ce = r.ce /\ z.qid = r.qid /\ z.stid = r.stid
    <3> HIDE DEF r
    <3> QED BY <2>1 DEF EveType, r
  <2>3. (r.stid = t => eve'[e] = z) /\ (r.stid # t => eve'[e] = r)
    BY <1>1
  <2> HIDE DEF z
  <2> QED BY <2>1, <2>2, <2>3
<1> HIDE DEF w
<1>4. EvqTypeOK'
  <2>1. eve' \in [Eve -> EveType]
    BY <1>1, <1>3
  <2> QED BY <1>1, <1>2, <2>1, EvqAssumption DEF EvqIInv, EvqTypeOK
<1>5. \A v \in Thread : Has(v)' = Has(v)
  BY <1>1, <1>2 DEF Has
<1>6. \A e \in Eve : /\ (Looked(e)' <=> Looked(e)) /\ (Promised(e)' <=> Promised(e))
                     /\ (Listed(e)' <=> Listed(e)) /\ (Engaged(e)' <=> Engaged(e))
  BY <1>1, <1>3 DEF Looked, Looking, Promised, Listed, Left, Engaged
<1>7. \A e \in Eve : CalledBack(e)' <=> CalledBack(e)
  BY <1>1, <1>2 DEF CalledBack
<1>8. ASSUME NEW e \in Eve, eve[e].live, eve[e].stid = t
      PROVE  ~Owned(e)' /\ ~CalledBack(e)
  <2>1. eve[e].qid # 0
    BY <1>8, Fields DEF EvqIInv, EventOK
  <2>2. ~CalledBack(e)
    BY <1>1, <1>8 DEF CalledBack, EvqIInv, ThreadOK
  <2> QED BY <1>1, <1>3, <1>8, <2>1, <2>2 DEF Owned
<1>9. \A e \in Eve : eve[e].live /\ eve[e].stid # t => (Owned(e)' <=> Owned(e))
  BY <1>1, <1>3 DEF Owned, EvqIInv, EventOK
<1>10. ASSUME NEW e \in Eve PROVE RefsOK(e)' /\ EventOK(e)' /\ PlaceOK(e)'
  <2>1. CASE ~eve[e].live
    <3>1. eve[e] = FreeEve /\ eve'[e] = FreeEve
      <4>1. eve[e] = FreeEve
        BY <2>1 DEF EvqIInv, EventOK
      <4>2. eve[e].stid # t
        BY <4>1, EvqAssumption DEF FreeEve
      <4> QED BY <1>3, <4>1, <4>2
    <3> QED BY <3>1, <1>6, FreeEveFields DEF EvqIInv, RefsOK, EventOK, PlaceOK, Engaged
  <2>2. CASE eve[e].live /\ eve[e].stid = t
    <3>1. RefsOK(e)'
      BY <1>3, <1>6, <1>8, <2>2 DEF EvqIInv, RefsOK, Bit
    <3>2. EventOK(e)'
      <4>1. \A u \in Thread : evqs'[u] = eve[e].qid => u # t
        BY <1>8, <2>2, <1>3 DEF Owned
      <4> QED BY <1>1, <1>3, <2>2, <4>1 DEF EvqIInv, EventOK
    <3>3. PlaceOK(e)'
      BY <1>1, <1>3, <1>6, <1>8, <2>2 DEF EvqIInv, PlaceOK
    <3> QED BY <3>1, <3>2, <3>3
  <2>3. CASE eve[e].live /\ eve[e].stid # t
    <3>1. eve'[e] = eve[e] /\ (Owned(e)' <=> Owned(e))
      BY <1>3, <1>9, <2>3
    <3>2. RefsOK(e)'
      BY <1>6, <1>7, <3>1, RefsFrame DEF EvqIInv
    <3>3. EventOK(e)'
      <4>1. eve[e].qid # 0
        BY <2>3, Fields DEF EvqIInv, EventOK
      <4> QED BY <1>1, <2>3, <3>1, <4>1 DEF EvqIInv, EventOK
    <3>4. PlaceOK(e)'
      BY <1>1, <1>6, <3>1 DEF EvqIInv, PlaceOK
    <3> QED BY <3>2, <3>3, <3>4
  <2> QED BY <2>1, <2>2, <2>3
<1>11. ASSUME NEW q \in Qid PROVE QueueOK(q)' /\ CountOK(q)'
  <2>1. Left(q)' = Left(q) /\ Left(q) \subseteq Eve /\ Range(queue[q].triggered) \subseteq Left(q)
    BY <1>1, Fields DEF Left, EvqIInv, Range
  <2>2. QueueOK(q)'
    BY <1>1, <1>3, <1>6, <2>1 DEF EvqIInv, QueueOK, GivenOK
  <2> QED BY <1>1, <1>5, <2>2 DEF EvqIInv, CountOK, Bit, TrampHas
<1>12. ASSUME NEW u \in Thread PROVE ThreadOK(u)'
  <2>1. CASE u = t
    BY <1>1, <1>2, <1>5, <2>1, Fields DEF EvqIInv, ThreadOK
  <2>2. CASE u # t
    BY <1>1, <1>3, <1>5, <1>6, <2>2 DEF EvqIInv, ThreadOK, GivenOK, Left
  <2> QED BY <2>1, <2>2
<1>13. TrampOK'
  <2>1. tramp.pc # "idle" => tramp.eve \in Eve
    BY DEF EvqIInv, TrampOK
  <2>2. \A e \in Eve : eve[e].live => (Owned(e)' => Owned(e))
    BY <1>8, <1>9
  <2>3. ~raced /\ Looking => te.live
    BY DEF EvqIInv, TrampOK
  <2> QED BY <1>1, <1>3, <2>1, <2>2, <2>3 DEF EvqIInv, TrampOK, te, Owned, Orphan, Looking
<1>14. NoLostSignal'
  BY <1>1, <1>2 DEF EvqIInv, NoLostSignal, Going
<1> QED BY <1>4, <1>10, <1>11, <1>12, <1>13, <1>14 DEF EvqIInv

\* An event discarded: its count is left consistent for the evq thread alone.
LEMMA DiscardedFields ==
    ASSUME NEW r \in EveType, r.ref \in 1 .. 3, ~r.held, r.live,
           r.ev <=> r.ce \in {"linked", "fired"}
    PROVE  LET b == Discarded(r)
           IN  /\ b \in EveType
               /\ IF r.cancelable THEN r.ref = 2 => b = FreeEve ELSE r.ref = 1 => b = FreeEve
               /\ (IF r.cancelable THEN r.ref # 2 ELSE r.ref # 1) =>
                     /\ ~r.cancelable => b.ce = r.ce
                     /\ b.live /\ ~b.held /\ b.ref = r.ref - (IF r.cancelable THEN 2 ELSE 1)
                     /\ b.cancelable = r.cancelable /\ b.cancelled = r.cancelled
                     /\ b.qid = r.qid /\ b.stid = r.stid
                     /\ b.ev <=> b.ce \in {"linked", "fired"}
                     /\ b.ce = r.ce \/ b.ce = "freed"
<1> DEFINE y == CqCancelled(r)
           z == [y EXCEPT !.ref = @ - 1]
<1>1. /\ y \in EveType /\ y.live /\ ~y.held /\ y.ref = r.ref
      /\ y.cancelable = r.cancelable /\ y.cancelled = r.cancelled
      /\ y.qid = r.qid /\ y.stid = r.stid
      /\ y.ev <=> y.ce \in {"linked", "fired"}
      /\ y.ce = r.ce \/ y.ce = "freed"
  <2>1. CASE r.ev
    BY <2>1 DEF CqCancelled, EveType
  <2>2. CASE ~r.ev
    BY <2>2 DEF CqCancelled
  <2> QED BY <2>1, <2>2
<1> HIDE DEF y
<1>2. /\ z \in EveType /\ z.live /\ ~z.held /\ z.ref = r.ref - 1
      /\ z.cancelable = r.cancelable /\ z.cancelled = r.cancelled
      /\ z.qid = r.qid /\ z.stid = r.stid
      /\ z.ev <=> z.ce \in {"linked", "fired"}
      /\ z.ce = r.ce \/ z.ce = "freed"
  BY <1>1 DEF EveType
<1> HIDE DEF z
<1>3. CASE r.cancelable
  <2>1. Discarded(r) = Unref(z)
    BY <1>3 DEF Discarded, y, z
  <2>2. z.ref # -1 /\ (z.ref = 1 <=> r.ref = 2)
    BY <1>2
  <2>3. Unref(z) \in EveType /\ (z.ref = 1 => Unref(z) = FreeEve)
    BY <1>2, <2>2, UnrefFields
  <2>4. z.ref # 1 => /\ Unref(z).live = z.live /\ Unref(z).ref = z.ref - 1
                    /\ Unref(z).cancelable = z.cancelable /\ Unref(z).cancelled = z.cancelled
                    /\ Unref(z).ev = z.ev /\ Unref(z).ce = z.ce
                    /\ Unref(z).qid = z.qid /\ Unref(z).stid = z.stid /\ Unref(z).held = z.held
    BY <1>2, <2>2, UnrefFields
  <2>5. z.ref # 1 => Unref(z).ref = r.ref - 2
    <3>1. z.ref # 1 => Unref(z).ref = z.ref - 1
      BY <2>4
    <3>2. z.ref = r.ref - 1
      BY <1>2
    <3> QED BY <3>1, <3>2
  <2> QED BY <1>2, <1>3, <2>1, <2>2, <2>3, <2>4, <2>5
<1>4. CASE ~r.cancelable
  <2>1. Discarded(r) = Unref(r)
    BY <1>4 DEF Discarded
  <2> QED BY <1>4, <2>1, UnrefFields
<1> QED BY <1>3, <1>4

\* evq_event_discard() on one event, in whatever thread releases the queue.
LEMMA DiscardOneOK ==
    ASSUME EvqIInv, NEW h \in Qid, queue[h].ref = 0, NEW x \in NextLeft(h), DiscardOne(h, x)
    PROVE  EvqIInv'
<1> DEFINE r == eve[x]
           b == Discarded(r)
           S == queue[h].triggered
<1>1. S \in Seq(Eve) /\ queue[h].events \subseteq Eve /\ IsInjective(S)
  BY Fields DEF EvqIInv, QueueOK
<1>2. x \in Left(h) /\ x \in Eve /\ (x \notin queue[h].events => S # <<>> /\ x = Head(S))
  <2>1. CASE queue[h].events # {}
    BY <1>1, <2>1 DEF NextLeft, Left
  <2>2. CASE queue[h].events = {}
    <3>1. S # <<>> /\ x = Head(S)
      BY <2>2 DEF NextLeft
    <3>2. x \in Range(S)
      <4> HIDE DEF S
      <4> QED BY <1>1, <3>1, TailRange
    <3> QED BY <1>1, <3>1, <3>2 DEF Left
  <2> QED BY <2>1, <2>2
<1>3. /\ r.live /\ r.qid = h /\ r \in EveType /\ r.stid \in Thread /\ h < next_qid
      /\ r.ev <=> r.ce \in {"linked", "fired"}
  BY <1>2, Fields DEF EvqIInv, EvqTypeOK, QueueOK, EventOK, Qid
<1>4. (\A u \in Thread : Has(u) # h /\ evqs[u] # h) /\ ~TrampHas(h)
  <2>1. (\A u \in Thread : Has(u) # h) /\ ~TrampHas(h)
    BY DEF EvqIInv, CountOK, Bit
  <2>2. h # 0
    BY DEF Qid
  <2> QED BY <2>1, <2>2 DEF EvqIInv, ThreadOK, Has
<1>5. ~Owned(x) /\ ~r.held /\ Listed(x) /\ ~CalledBack(x)
  <2>1. ~Owned(x)
    BY <1>3, <1>4 DEF Owned
  <2>2. ~CalledBack(x)
    BY <1>3, <1>4 DEF CalledBack, EvqIInv, ThreadOK
  <2> QED BY <1>2, <1>3, <2>1, <2>2 DEF EvqIInv, EventOK, Listed
<1>6. r.ref = Bit(Promised(x)) + Bit(Engaged(x)) + 1 /\ r.ref \in 1 .. 3
  BY <1>2, <1>3, <1>5 DEF EvqIInv, RefsOK, Bit
<1>7. /\ eve' = [eve EXCEPT ![x] = b] /\ eve'[x] = b
      /\ \A e \in Eve \ {x} : eve'[e] = eve[e]
      /\ UNCHANGED <<evqs, next_qid, thread, sig, lost, tramp, call, raced, abort>>
  BY <1>2 DEF DiscardOne, EvqIInv, EvqTypeOK
<1>8. /\ b \in EveType
      /\ IF r.cancelable THEN r.ref = 2 => b = FreeEve ELSE r.ref = 1 => b = FreeEve
      /\ (IF r.cancelable THEN r.ref # 2 ELSE r.ref # 1) =>
            /\ ~r.cancelable => b.ce = r.ce
            /\ b.live /\ ~b.held /\ b.ref = r.ref - (IF r.cancelable THEN 2 ELSE 1)
            /\ b.cancelable = r.cancelable /\ b.cancelled = r.cancelled
            /\ b.qid = r.qid /\ b.stid = r.stid
            /\ b.ev <=> b.ce \in {"linked", "fired"}
            /\ b.ce = r.ce \/ b.ce = "freed"
  <2> HIDE DEF r
  <2> QED BY <1>3, <1>5, <1>6, DiscardedFields
<1> HIDE DEF b
<1>9. /\ queue' \in [Qid -> QueueType]
      /\ \A p \in Qid : queue'[p].ref = queue[p].ref /\ (p # h => queue'[p] = queue[p])
      /\ queue'[h].events = queue[h].events \ {x}
      /\ IsInjective(queue'[h].triggered)
      /\ Range(queue'[h].triggered) = Range(S) \ {x}
  <2>1. CASE x \in queue[h].events
    <3>1. queue' = [queue EXCEPT ![h].events = queue[h].events \ {x}, ![h].triggered = S]
      BY <2>1 DEF DiscardOne, EvqIInv, EvqTypeOK, QueueType
    <3>2. queue[h].events \ {x} \in SUBSET Eve /\ EvqTypeOK
      BY <1>1 DEF EvqIInv
    <3>3. /\ queue' \in [Qid -> QueueType]
          /\ \A p \in Qid : queue'[p].ref = queue[p].ref /\ (p # h => queue'[p] = queue[p])
          /\ queue'[h].events = queue[h].events \ {x} /\ queue'[h].triggered = S
      <4> HIDE DEF S
      <4>1. \A p \in Qid : /\ queue'[p].events = IF p = h THEN queue[h].events \ {x} ELSE queue[p].events
                           /\ queue'[p].triggered = IF p = h THEN S ELSE queue[p].triggered
                           /\ queue'[p].ref = queue[p].ref
                           /\ p # h => queue'[p] = queue[p]
        BY <1>1, <3>1, <3>2, QueueMove
      <4>2. queue' \in [Qid -> QueueType]
        BY <1>1, <3>1, <3>2, QueueMove
      <4> QED BY <4>1, <4>2
    <3>4. x \notin Range(S)
      BY <2>1 DEF EvqIInv, QueueOK
    <3> QED BY <1>1, <3>3, <3>4
  <2>2. CASE x \notin queue[h].events
    <3>1. queue' = [queue EXCEPT ![h].events = queue[h].events, ![h].triggered = Tail(S)]
      BY <2>2 DEF DiscardOne, EvqIInv, EvqTypeOK, QueueType
    <3>2. queue[h].events \in SUBSET Eve /\ EvqTypeOK /\ queue[h].events = queue[h].events \ {x}
      BY <1>1, <2>2 DEF EvqIInv
    <3>3. /\ Tail(S) \in Seq(Eve) /\ IsInjective(Tail(S))
          /\ Range(S) = Range(Tail(S)) \cup {x} /\ x \notin Range(Tail(S))
      <4> HIDE DEF S
      <4> QED BY <1>1, <1>2, <2>2, TailRange
    <3>4. /\ queue' \in [Qid -> QueueType]
          /\ \A p \in Qid : queue'[p].ref = queue[p].ref /\ (p # h => queue'[p] = queue[p])
          /\ queue'[h].events = queue[h].events /\ queue'[h].triggered = Tail(S)
      <4> DEFINE Z == Tail(S)
      <4>0. queue' = [queue EXCEPT ![h].events = queue[h].events, ![h].triggered = Z] /\ Z \in Seq(Eve)
        BY <3>1, <3>3
      <4> HIDE DEF S, Z
      <4>1. \A p \in Qid : /\ queue'[p].events = IF p = h THEN queue[h].events ELSE queue[p].events
                           /\ queue'[p].triggered = IF p = h THEN Z ELSE queue[p].triggered
                           /\ queue'[p].ref = queue[p].ref
                           /\ p # h => queue'[p] = queue[p]
        BY <3>2, <4>0, QueueMove
      <4>2. queue' \in [Qid -> QueueType]
        BY <3>2, <4>0, QueueMove
      <4> QED BY <4>1, <4>2 DEF Z
    <3> QED BY <3>2, <3>3, <3>4
  <2> QED BY <2>1, <2>2
<1>10. \A p \in Qid : Left(p)' = IF p = h THEN Left(p) \ {x} ELSE Left(p)
  BY <1>9 DEF Left
<1>11. \A e \in Eve : /\ (Looked(e)' <=> Looked(e)) /\ (eve[e].live => eve[e].qid \in Qid)
                      /\ (CalledBack(e)' <=> CalledBack(e))
  BY <1>7, Fields DEF Looked, Looking, CalledBack, EvqIInv, EventOK, Qid
<1>12. EvqTypeOK'
  BY <1>7, <1>8, <1>9 DEF EvqIInv, EvqTypeOK
<1>13. \A v \in Thread : Has(v)' = Has(v)
  BY <1>7 DEF Has
\* The event is freed under the evq thread only after a race.
<1>14. b = FreeEve => ~Looked(x) \/ raced
  <2>1. ~raced /\ r.cancelled => ~Engaged(x)
    BY <1>2 DEF EvqIInv, PlaceOK
  <2>2. b = FreeEve => r.ref = IF r.cancelable THEN 2 ELSE 1
    BY <1>8, FreeEveFields
  <2> QED BY <1>6, <2>1, <2>2 DEF Bit, Promised, Engaged
<1>15. ASSUME b # FreeEve
       PROVE  ~Owned(x)' /\ (Engaged(x)' => Engaged(x) /\ b.ref = 1) /\ b.live /\ ~Listed(x)'
  <2>1. IF r.cancelable THEN r.ref # 2 ELSE r.ref # 1
    BY <1>8, <1>15
  <2>2. ~Owned(x)' /\ ~Listed(x)' /\ (Engaged(x)' => Engaged(x))
    BY <1>2, <1>5, <1>7, <1>8, <1>10, <1>11, <1>3, <2>1 DEF Owned, Listed, Engaged
  <2>3. Engaged(x) => b.ref = 1
    BY <1>6, <1>8, <2>1 DEF Bit, Promised
  <2> QED BY <1>8, <2>1, <2>2, <2>3
<1>16. ASSUME NEW e \in Eve PROVE RefsOK(e)' /\ EventOK(e)' /\ PlaceOK(e)'
  <2>1. CASE e # x
    <3>1. /\ (Owned(e)' <=> Owned(e)) /\ (Promised(e)' <=> Promised(e)) /\ (Engaged(e)' <=> Engaged(e))
          /\ eve[e].live => (Listed(e)' <=> Listed(e))
      BY <1>7, <1>10, <1>11, <2>1 DEF Owned, Promised, Engaged, Listed
    <3>2. RefsOK(e)'
      BY <1>7, <1>11, <2>1, <3>1, RefsFrame DEF EvqIInv
    <3>3. EventOK(e)'
      BY <1>7, <2>1, <3>1 DEF EvqIInv, EventOK
    <3>4. eve[e].live /\ eve[e].qid # h => queue'[eve[e].qid] = queue[eve[e].qid]
      BY <1>9, <1>11
    <3>5. PlaceOK(e)'
      BY <1>7, <1>9, <1>11, <2>1, <3>1, <3>4 DEF EvqIInv, PlaceOK
    <3> QED BY <3>2, <3>3, <3>5
  <2>2. CASE e = x /\ b = FreeEve
    BY <1>7, <1>11, <1>14, <2>2, FreeEveFields DEF RefsOK, EventOK, PlaceOK, Engaged
  <2>3. CASE e = x /\ b # FreeEve
    <3>1. b.ref \in -1 .. 3
      BY <1>8 DEF EveType
    <3>2. RefsOK(x)'
      BY <1>7, <1>15, <2>3, <3>1 DEF RefsOK, Bit
    <3>3. EventOK(x)'
      <4>1. b.live /\ ~b.held /\ b.qid = r.qid /\ b.stid = r.stid /\ (b.ev <=> b.ce \in {"linked", "fired"})
        BY <1>8, <2>3
      <4>2. r.stid \in Thread /\ r.qid \in 1 .. next_qid - 1 /\ \A t \in Thread : evqs[t] = r.qid => r.stid = t
        BY <1>2, <1>3 DEF EvqIInv, EventOK
      <4>3. eve'[x].live /\ ~eve'[x].held /\ eve'[x].qid = r.qid /\ eve'[x].stid = r.stid
        BY <1>7, <4>1
      <4>4. eve'[x].ev <=> eve'[x].ce \in {"linked", "fired"}
        BY <1>7, <4>1
      <4> QED BY <1>7, <4>2, <4>3, <4>4 DEF EventOK
    <3>4. PlaceOK(x)'
      <4>1. b.live /\ b.qid = h /\ b.cancelled = r.cancelled /\ (b.ce = r.ce \/ b.ce = "freed")
        BY <1>3, <1>8, <2>3
      <4>2. queue'[h].ref = 0
        BY <1>9
      <4> QED BY <1>2, <1>7, <1>11, <1>15, <2>3, <4>1, <4>2 DEF EvqIInv, PlaceOK
    <3> QED BY <2>3, <3>2, <3>3, <3>4
  <2> QED BY <2>1, <2>2, <2>3
<1>17. ASSUME NEW q \in Qid PROVE QueueOK(q)' /\ CountOK(q)'
  <2>1. q >= next_qid => q # h
    BY <1>3, Fields DEF EvqIInv, Qid
  <2>2. x \notin Left(q)' /\ Left(q)' \subseteq Left(q) /\ Left(q) \subseteq Eve
    BY <1>3, <1>10, Fields DEF EvqIInv, QueueOK, Left, Range
  <2>3. \A e \in Left(q)' : eve'[e].live /\ eve'[e].qid = q
    BY <1>7, <2>2 DEF EvqIInv, QueueOK
  <2>4. Range(queue'[q].triggered) \subseteq Range(queue[q].triggered) /\ queue'[q].events \subseteq queue[q].events
    BY <1>9
  <2>5. ASSUME NEW e \in Range(queue'[q].triggered)
        PROVE  e \notin queue'[q].events /\ GivenOK(e)'
    <3>1. e \in Range(queue[q].triggered) /\ e # x /\ e \in Eve
      BY <2>2, <2>4 DEF Left
    <3>2. e \notin queue[q].events /\ GivenOK(e)
      BY <3>1 DEF EvqIInv, QueueOK
    <3> QED BY <1>7, <1>11, <2>4, <3>1, <3>2 DEF GivenOK
  <2>6. IsInjective(queue'[q].triggered)
    BY <1>9 DEF EvqIInv, QueueOK
  <2>7. q >= next_qid' => queue'[q] = [ref |-> 0, events |-> {}, triggered |-> <<>>]
    BY <1>7, <1>9, <2>1 DEF EvqIInv, QueueOK
  <2>8. QueueOK(q)'
    BY <2>3, <2>5, <2>6, <2>7 DEF QueueOK
  <2> QED BY <1>7, <1>9, <1>13, <2>8 DEF EvqIInv, CountOK, Bit, TrampHas
<1>18. ASSUME NEW u \in Thread PROVE ThreadOK(u)'
  <2>1. (evqs[u] # 0 => evqs[u] \in Qid) /\ (thread[u].qid # 0 => thread[u].qid \in Qid)
    BY Fields DEF EvqIInv, Qid
  <2>2. thread[u].pc = "callback" => evqs[u] # 0 /\ thread[u].eve # x
    BY <1>5, Fields DEF EvqIInv, ThreadOK, EventOK, CalledBack
  <2> QED BY <1>4, <1>7, <1>9, <1>10, <1>11, <1>13, <2>1, <2>2 DEF EvqIInv, ThreadOK, GivenOK
<1>19. TrampOK'
  <2>1. tramp.pc # "idle" => tramp.eve \in Eve
    BY DEF EvqIInv, TrampOK
  <2>2. tramp.pc = "discard" => tramp.qid \in Qid
    BY Fields DEF EvqIInv, TrampOK, Qid
  <2>3. tramp.pc # "idle" /\ tramp.eve # x => eve'[tramp.eve] = eve[tramp.eve]
    BY <1>7, <2>1
  <2>4. CASE tramp.eve # x \/ ~Looking
    BY <1>7, <1>9, <2>2, <2>3, <2>4 DEF EvqIInv, TrampOK, te, Orphan, Looking, Owned
  <2>5. CASE tramp.eve = x /\ Looking
    <3>1. Looked(x)
      BY <2>5 DEF Looked
    <3>2. CASE b = FreeEve
      BY <1>7, <1>14, <2>2, <2>5, <3>1, <3>2, FreeEveFields DEF EvqIInv, TrampOK, te, Owned, Orphan, Looking
    <3>3. CASE b # FreeEve
      <4>1. b.live /\ b.qid = r.qid /\ b.cancelable = r.cancelable /\ (~r.cancelable => b.ce = r.ce)
        BY <1>8, <3>3
      <4>2. eve'[x].live /\ eve'[x].qid = r.qid /\ evqs'[eve'[x].stid] # eve'[x].qid
        BY <1>7, <1>15, <3>3, <4>1 DEF Owned
      <4>3. tramp.pc # "lock"
        BY <1>3, <1>4, <2>5 DEF EvqIInv, TrampOK, te, TrampHas
      <4>4. ~raced /\ tramp.pc \in {"get", "read", "ack"} => b.ce = "fired" \/ Orphan(x)'
        BY <1>5, <1>7, <2>5, <4>1, <4>2 DEF EvqIInv, TrampOK, te, Orphan
      <4> QED BY <1>3, <1>7, <2>2, <2>5, <4>2, <4>3, <4>4 DEF EvqIInv, TrampOK, te, Looking, Owned
    <3> QED BY <3>2, <3>3
  <2> QED BY <2>4, <2>5
<1>20. NoLostSignal'
  <2>1. \A u \in Thread : evqs[u] # 0 => evqs[u] \in Qid
    BY Fields DEF EvqIInv, Qid
  <2> QED BY <1>4, <1>7, <1>9, <2>1 DEF EvqIInv, NoLostSignal, Going
<1> QED BY <1>12, <1>16, <1>17, <1>18, <1>19, <1>20 DEF EvqIInv

\* The exiting thread discards what its queue holds.
LEMMA ThreadDiscardsOK ==
    ASSUME EvqIInv, NEW t \in Thread, ThreadDiscards(t)
    PROVE  EvqIInv'
<1>1. thread[t].pc = "discard" /\ thread[t].qid \in Qid /\ queue[thread[t].qid].ref = 0 /\ evqs[t] = 0
  BY Fields DEF ThreadDiscards, EvqIInv, ThreadOK, Qid
<1>2. CASE \E e \in NextLeft(thread[t].qid) : DiscardOne(thread[t].qid, e)
  BY <1>1, <1>2, DiscardOneOK
<1>3. CASE /\ thread' = [thread EXCEPT ![t] = Gone]
           /\ UNCHANGED <<eve, evqs, queue, next_qid, sig, lost, tramp, call, raced, abort>>
  <2>1. /\ thread'[t].pc = "gone" /\ thread'[t].qid = 0 /\ Gone \in ThreadType
        /\ \A u \in Thread \ {t} : thread'[u] = thread[u]
    BY <1>3, EvqAssumption DEF Gone, ThreadType, EvqIInv, EvqTypeOK
  <2>2. EvqTypeOK'
    BY <1>3, <2>1 DEF EvqIInv, EvqTypeOK
  <2>3. \A v \in Thread : Has(v)' = Has(v)
    BY <1>1, <1>3, <2>1 DEF Has
  <2>4. ASSUME NEW e \in Eve PROVE RefsOK(e)' /\ EventOK(e)' /\ PlaceOK(e)'
    <3>1. CalledBack(e)' <=> CalledBack(e)
      BY <1>1, <2>1 DEF CalledBack
    <3>2. RefsOK(e)'
      BY <1>3, <3>1, RefsFrame DEF EvqIInv, Promised, Owned, Engaged, Looked, Looking, Listed, Left
    <3> QED BY <1>3, <3>2 DEF EvqIInv, EventOK, PlaceOK, Owned, Engaged, Looked, Looking
  <2>5. ASSUME NEW q \in Qid PROVE QueueOK(q)' /\ CountOK(q)'
    BY <1>3, <2>3 DEF EvqIInv, QueueOK, Left, GivenOK, Looked, Looking, CountOK, TrampHas, Bit
  <2>6. ASSUME NEW u \in Thread PROVE ThreadOK(u)'
    BY <1>1, <1>3, <2>1, <2>3, Fields DEF EvqIInv, ThreadOK, Left, GivenOK, Looked, Looking
  <2>7. TrampOK' /\ NoLostSignal'
    BY <1>1, <1>3, <2>1 DEF EvqIInv, TrampOK, te, Owned, Orphan, Looking, NoLostSignal, Going
  <2> QED BY <2>2, <2>4, <2>5, <2>6, <2>7 DEF EvqIInv
<1> QED BY <1>2, <1>3 DEF ThreadDiscards

\* The evq thread discards what the queue holds.
LEMMA TrampolineDiscardsOK ==
    ASSUME EvqIInv, TrampolineDiscards
    PROVE  EvqIInv'
<1>1. /\ tramp.pc = "discard" /\ tramp.qid \in Qid /\ queue[tramp.qid].ref = 0
      /\ call = Null /\ tramp \in TrampType
  BY Fields DEF TrampolineDiscards, EvqIInv, EvqTypeOK, TrampOK, Qid
<1>2. CASE \E e \in NextLeft(tramp.qid) : DiscardOne(tramp.qid, e)
  BY <1>1, <1>2, DiscardOneOK
<1>3. CASE Fail("discard")
  BY <1>3, FailOK
<1>4. CASE /\ tramp' = [tramp EXCEPT !.pc = "return"]
           /\ UNCHANGED <<eve, evqs, queue, next_qid, thread, sig, lost, call, raced, abort>>
  <2>1. tramp' \in TrampType /\ tramp'.pc = "return" /\ tramp'.eve = tramp.eve /\ tramp'.qid = tramp.qid
    BY <1>1, <1>4 DEF TrampType
  <2>2. EvqTypeOK'
    BY <1>4, <2>1 DEF EvqIInv, EvqTypeOK
  <2>3. ASSUME NEW e \in Eve PROVE RefsOK(e)' /\ EventOK(e)' /\ PlaceOK(e)'
    <3>1. ~Looked(e)' /\ ~Looked(e)
      BY <1>1, <2>1 DEF Looked, Looking
    <3>2. RefsOK(e)'
      BY <1>4, <3>1, RefsFrame DEF EvqIInv, Promised, Owned, Engaged, Listed, Left, CalledBack
    <3> QED BY <1>1, <1>4, <2>1, <3>1, <3>2 DEF EvqIInv, EventOK, PlaceOK, Owned, Engaged
  <2>4. ASSUME NEW q \in Qid PROVE QueueOK(q)' /\ CountOK(q)'
    BY <1>1, <1>4, <2>1 DEF EvqIInv, QueueOK, Left, GivenOK, Looked, Looking, CountOK, Has, TrampHas, Bit
  <2>5. ASSUME NEW u \in Thread PROVE ThreadOK(u)'
    BY <1>1, <1>4, <2>1 DEF EvqIInv, ThreadOK, Has, Left, GivenOK, Looked, Looking
  <2>6. TrampOK' /\ NoLostSignal'
    BY <1>1, <1>4, <2>1 DEF EvqIInv, TrampOK, te, Owned, Orphan, Looking, NoLostSignal, Going
  <2> QED BY <2>2, <2>3, <2>4, <2>5, <2>6 DEF EvqIInv
<1> QED BY <1>2, <1>3, <1>4 DEF TrampolineDiscards, Goto

----------------------------------------------------------------------------
(* Events are registered, and cancelled.                                   *)

\* evq_insert(): a new event, in its queue and in the callout queue.
LEMMA AddOK ==
    ASSUME EvqIInv, NEW t \in Thread, NEW c \in BOOLEAN, evq_add(t, c)
    PROVE  EvqIInv'
<1>0. PICK h \in Qid : h = IF evqs[t] # 0 THEN evqs[t] ELSE next_qid
  <2>1. (IF evqs[t] # 0 THEN evqs[t] ELSE next_qid) <= MaxQueue
    BY DEF evq_add
  <2>2. next_qid \in 1 .. MaxQueue + 1 /\ evqs[t] \in 0 .. MaxQueue
    BY DEF EvqIInv, EvqTypeOK
  <2> QED BY <2>1, <2>2, EvqAssumption DEF Qid
<1>1. PICK x \in Eve :
        /\ ~eve[x].live
        /\ eve' = [eve EXCEPT ![x] =
              [live |-> TRUE, ref |-> IF c THEN 3 ELSE 2,
               cancelable |-> c, cancelled |-> FALSE, ev |-> TRUE,
               ce |-> "linked", qid |-> h, stid |-> t, held |-> c]]
        /\ queue' = [queue EXCEPT ![h].ref = IF evqs[t] = 0 THEN 1 ELSE @,
                                  ![h].events = @ \cup {x}]
  BY <1>0 DEF evq_add
<1> DEFINE r == [live |-> TRUE, ref |-> IF c THEN 3 ELSE 2,
                 cancelable |-> c, cancelled |-> FALSE, ev |-> TRUE,
                 ce |-> "linked", qid |-> h, stid |-> t, held |-> c]
<1>2. /\ ~raced /\ thread[t].pc \in {"run", "callback"} /\ thread[t].qid = 0
      /\ evqs' = [evqs EXCEPT ![t] = h] /\ evqs'[t] = h
      /\ \A u \in Thread \ {t} : evqs'[u] = evqs[u]
      /\ next_qid' = IF evqs[t] = 0 THEN next_qid + 1 ELSE next_qid
      /\ UNCHANGED <<thread, sig, lost, tramp, call, raced, abort>>
  BY <1>0 DEF evq_add, Busy, EvqIInv, EvqTypeOK, ThreadOK
<1>3. /\ r \in EveType /\ r.live /\ r.ref = (IF c THEN 3 ELSE 2) /\ (r.cancelable <=> c)
      /\ ~r.cancelled /\ r.ev /\ r.ce = "linked" /\ r.qid = h /\ r.stid = t /\ (r.held <=> c)
  BY DEF EveType, Qid
<1> HIDE DEF r
<1>4. /\ eve'[x] = r /\ eve' \in [Eve -> EveType] /\ \A e \in Eve \ {x} : eve'[e] = eve[e]
  BY <1>1, <1>3 DEF r, EvqIInv, EvqTypeOK
<1>5. evqs[t] = 0 => h = next_qid /\ queue[h] = [ref |-> 0, events |-> {}, triggered |-> <<>>]
  BY <1>0, Fields DEF EvqIInv, QueueOK
<1>6. /\ queue' \in [Qid -> QueueType]
      /\ \A p \in Qid : queue'[p].triggered = queue[p].triggered /\ (p # h => queue'[p] = queue[p])
      /\ queue'[h].events = queue[h].events \cup {x}
      /\ queue'[h].ref = IF evqs[t] = 0 THEN 1 ELSE queue[h].ref
  <2> DEFINE n == IF evqs[t] = 0 THEN 1 ELSE queue[h].ref
             b == [queue[h] EXCEPT !.ref = n, !.events = @ \cup {x}]
  <2>1. queue \in [Qid -> QueueType] /\ queue[h] \in QueueType /\ n \in 0 .. 2
    BY Fields DEF EvqIInv, EvqTypeOK
  <2>2. queue' = [queue EXCEPT ![h] = b]
    BY <1>1, <2>1
  <2> HIDE DEF n
  <2>3. b \in QueueType /\ b.events = queue[h].events \cup {x} /\ b.triggered = queue[h].triggered /\ b.ref = n
    BY <2>1 DEF QueueType
  <2> HIDE DEF b
  <2> QED BY <2>1, <2>2, <2>3 DEF n
<1>7. EvqTypeOK'
  <2>1. next_qid' \in 1 .. MaxQueue + 1
    BY <1>2, <1>5, Fields DEF EvqIInv, EvqTypeOK, Qid
  <2>2. evqs' \in [Thread -> 0 .. MaxQueue]
    BY <1>2 DEF EvqIInv, EvqTypeOK, Qid
  <2> QED BY <1>2, <1>4, <1>6, <2>1, <2>2 DEF EvqIInv, EvqTypeOK
<1>8. /\ h # 0 /\ h < next_qid' /\ next_qid <= next_qid' /\ next_qid \in Nat /\ next_qid' \in Nat
      /\ evqs[t] # 0 => h = evqs[t] /\ h < next_qid
  BY <1>0, <1>2, Fields DEF EvqIInv, ThreadOK, Qid
\* The event was used by nobody.
<1>9. /\ \A q \in Qid : x \notin Left(q)
      /\ ~CalledBack(x) /\ ~Looked(x)
  BY <1>1, <1>2 DEF EvqIInv, QueueOK, CalledBack, ThreadOK, Looked, TrampOK, te
<1>10. \A p \in Qid : Left(p)' = IF p = h THEN Left(p) \cup {x} ELSE Left(p)
  BY <1>6 DEF Left
<1>11. \A e \in Eve : /\ (Looked(e)' <=> Looked(e)) /\ (CalledBack(e)' <=> CalledBack(e))
                      /\ eve[e].live => eve[e].qid \in Qid /\ eve[e].qid < next_qid /\ eve[e].qid # 0
  BY <1>2, Fields DEF Looked, Looking, CalledBack, EvqIInv, EventOK, Qid
<1>12. \A e \in Eve \ {x} : eve[e].live => (Owned(e)' <=> Owned(e))
  <2> SUFFICES ASSUME NEW e \in Eve \ {x}, eve[e].live PROVE Owned(e)' <=> Owned(e)
    OBVIOUS
  <2>1. CASE eve[e].stid = t /\ evqs[t] = 0
    <3>1. eve[e].qid < h /\ eve[e].qid # 0 /\ eve[e].qid \in Int /\ h \in Int
      BY <1>5, <1>11, <2>1 DEF Qid
    <3>2. evqs'[eve'[e].stid] = h /\ evqs[eve[e].stid] = 0 /\ eve'[e].qid = eve[e].qid
      BY <1>2, <1>4, <2>1
    <3> QED BY <3>1, <3>2 DEF Owned
  <2>2. CASE ~(eve[e].stid = t /\ evqs[t] = 0)
    BY <1>2, <1>4, <1>8, <2>2 DEF Owned, EvqIInv, EventOK
  <2> QED BY <2>1, <2>2
<1>13. \A v \in Thread : Has(v)' = IF v = t THEN h ELSE Has(v)
  BY <1>2 DEF Has
<1>14. \A v \in Thread \ {t} : Has(v) # h
  <2>1. CASE evqs[t] = 0
    <3>1. \A v \in Thread : Has(v) < next_qid /\ Has(v) \in Int
      BY Fields DEF EvqIInv, ThreadOK, Has
    <3> QED BY <1>5, <1>8, <2>1, <3>1
  <2>2. CASE evqs[t] # 0
    <3>1. Has(t) = h
      BY <1>2, <1>8, <2>2 DEF Has
    <3> QED BY <1>8, <3>1 DEF EvqIInv, ThreadOK
  <2> QED BY <2>1, <2>2
<1>15. ASSUME NEW e \in Eve PROVE RefsOK(e)' /\ EventOK(e)' /\ PlaceOK(e)'
  <2>1. CASE e # x /\ ~eve[e].live
    <3>1. eve[e] = FreeEve /\ eve'[e] = FreeEve
      BY <1>4, <2>1 DEF EvqIInv, EventOK
    <3> QED BY <3>1, <1>2, <1>11, FreeEveFields DEF EvqIInv, RefsOK, EventOK, PlaceOK, Engaged
  <2>2. CASE e # x /\ eve[e].live
    <3>1. /\ (Owned(e)' <=> Owned(e)) /\ (Promised(e)' <=> Promised(e)) /\ (Engaged(e)' <=> Engaged(e))
          /\ (Listed(e)' <=> Listed(e))
      BY <1>4, <1>10, <1>11, <1>12, <2>2 DEF Promised, Engaged, Listed
    <3>2. RefsOK(e)'
      BY <1>4, <1>11, <2>2, <3>1, RefsFrame DEF EvqIInv
    <3>3. EventOK(e)'
      <4>1. \A u \in Thread : evqs'[u] = eve[e].qid => eve[e].stid = u
        <5>1. CASE evqs[t] = 0
          BY <1>2, <1>5, <1>11, <2>2, <5>1 DEF EvqIInv, EventOK
        <5>2. CASE evqs[t] # 0
          BY <1>2, <1>8, <2>2, <5>2 DEF EvqIInv, EventOK
        <5> QED BY <5>1, <5>2
      <4>2. eve[e].qid \in 1 .. next_qid' - 1
        BY <1>8, <2>2, Fields DEF EvqIInv, EventOK
      <4> QED BY <1>4, <2>2, <3>1, <4>1, <4>2 DEF EvqIInv, EventOK
    <3>4. PlaceOK(e)'
      <4>1. CASE eve[e].qid # h
        BY <1>2, <1>4, <1>6, <1>11, <2>2, <3>1, <4>1 DEF EvqIInv, PlaceOK
      <4>2. CASE eve[e].qid = h
        <5>1. evqs[t] # 0 /\ queue'[h].ref = queue[h].ref
          <6>1. h < next_qid /\ h \in Int
            BY <1>11, <2>2, <4>2 DEF Qid
          <6> QED BY <1>5, <1>6, <1>8, <6>1
        <5> QED BY <1>2, <1>4, <1>6, <1>11, <2>2, <3>1, <4>2, <5>1 DEF EvqIInv, PlaceOK
      <4> QED BY <4>1, <4>2
    <3> QED BY <3>2, <3>3, <3>4
  <2>3. CASE e = x
    <3>1. /\ Owned(x)' /\ (Promised(x)' <=> c) /\ Engaged(x)' /\ ~Looked(x)' /\ ~CalledBack(x)'
          /\ Listed(x)'
      BY <1>2, <1>3, <1>4, <1>9, <1>10, <1>11 DEF Owned, Promised, Engaged, Listed
    <3>2. RefsOK(x)'
      BY <1>3, <1>4, <3>1 DEF RefsOK, Bit
    <3>3. EventOK(x)'
      <4>1. \A u \in Thread \ {t} : evqs[u] # h
        BY <1>8, <1>14 DEF EvqIInv, ThreadOK, Has
      <4>2. h \in 1 .. next_qid' - 1
        <5>1. h \in Int /\ h >= 1
          BY DEF Qid
        <5>2. h < next_qid' /\ next_qid' \in Int
          BY <1>8
        <5>3. \A a, b \in Int : a >= 1 /\ a < b => a \in 1 .. b - 1
          OBVIOUS
        <5> QED BY <5>1, <5>2, <5>3, Zenon
      <4> QED BY <1>2, <1>3, <1>4, <3>1, <4>1, <4>2 DEF EventOK
    <3>4. PlaceOK(x)'
      BY <1>3, <1>4, <1>6, <3>1 DEF PlaceOK
    <3> QED BY <2>3, <3>2, <3>3, <3>4
  <2> QED BY <2>1, <2>2, <2>3
<1>16. ASSUME NEW q \in Qid PROVE QueueOK(q)' /\ CountOK(q)'
  <2>1. \A e \in Left(q)' : eve'[e].live /\ eve'[e].qid = q
    <3> TAKE e \in Left(q)'
    <3>1. CASE e = x
      BY <1>3, <1>4, <1>9, <1>10, <3>1
    <3>2. CASE e # x
      <4>1. e \in Left(q) /\ e \in Eve
        BY <1>10, <3>2, Fields DEF EvqIInv, Left, Range
      <4> QED BY <1>4, <3>2, <4>1 DEF EvqIInv, QueueOK
    <3> QED BY <3>1, <3>2
  <2>2. ASSUME NEW e \in Range(queue'[q].triggered)
        PROVE  e \notin queue'[q].events /\ GivenOK(e)'
    <3>1. e \in Range(queue[q].triggered)
      BY <1>6
    <3>2. e \in Eve /\ e # x
      BY <1>9, <3>1, Fields DEF Left, EvqIInv, Range
    <3>3. e \notin queue[q].events /\ GivenOK(e)
      BY <3>1 DEF EvqIInv, QueueOK
    <3> QED BY <1>4, <1>6, <1>11, <3>2, <3>3 DEF GivenOK
  <2>3. IsInjective(queue'[q].triggered)
    BY <1>6 DEF EvqIInv, QueueOK
  <2>4. q >= next_qid' => queue'[q] = [ref |-> 0, events |-> {}, triggered |-> <<>>]
    <3>1. q >= next_qid' => q # h /\ q >= next_qid
      BY <1>8 DEF Qid
    <3> QED BY <1>6, <3>1 DEF EvqIInv, QueueOK
  <2>5. QueueOK(q)'
    BY <2>1, <2>2, <2>3, <2>4 DEF QueueOK
  <2>6. TrampHas(q)' <=> TrampHas(q)
    BY <1>2 DEF TrampHas
  <2>7. CASE q # h
    <3>1. Has(t) # q \/ evqs[t] = 0
      BY <1>2, <1>8, <2>7 DEF Has
    <3>2. evqs[t] = 0 => Has(t) = 0
      BY <1>2 DEF Has
    <3>3. q # 0
      BY DEF Qid
    <3>4. (\E v \in Thread : Has(v)' = q) <=> (\E v \in Thread : Has(v) = q)
      BY <1>13, <2>7, <3>1, <3>2, <3>3
    <3> QED BY <1>6, <2>5, <2>6, <2>7, <3>4 DEF EvqIInv, CountOK, Bit
  <2>8. CASE q = h
    <3>1. \E v \in Thread : Has(v)' = q
      BY <1>13, <2>8
    <3>2. CASE evqs[t] = 0
      <4>1. ~TrampHas(q)
        BY <1>5, <2>8, <3>2, Fields DEF EvqIInv, TrampOK, TrampHas
      <4> QED BY <1>6, <2>5, <2>6, <2>8, <3>1, <3>2, <4>1 DEF CountOK, Bit
    <3>3. CASE evqs[t] # 0
      <4>1. Has(t) = q
        BY <1>2, <1>8, <2>8, <3>3 DEF Has
      <4> QED BY <1>6, <2>5, <2>6, <2>8, <3>1, <3>3, <4>1 DEF EvqIInv, CountOK, Bit
    <3> QED BY <3>2, <3>3
  <2> QED BY <2>7, <2>8
<1>17. ASSUME NEW u \in Thread PROVE ThreadOK(u)'
  <2>1. /\ evqs'[u] < next_qid' /\ thread'[u].qid < next_qid'
    <3>1. evqs[u] < next_qid /\ thread[u].qid < next_qid /\ evqs[u] \in Int /\ thread[u].qid \in Int
      BY Fields DEF EvqIInv, ThreadOK
    <3> QED BY <1>2, <1>8, <3>1
  <2>2. \A v \in Thread : Has(u)' # 0 /\ Has(u)' = Has(v)' => u = v
    BY <1>13, <1>14 DEF EvqIInv, ThreadOK
  <2>3. thread[u].pc = "discard" => thread[u].qid # h /\ thread[u].qid \in Qid
    <3>1. thread[u].pc = "discard" => thread[u].qid # 0 /\ thread[u].qid < next_qid /\ queue[thread[u].qid].ref = 0 /\ thread[u].qid \in Qid
      BY Fields DEF EvqIInv, ThreadOK, Qid
    <3>2. evqs[t] # 0 => queue[h].ref # 0
      <4>1. evqs[t] # 0 => Has(t) = h
        BY <1>2, <1>8 DEF Has
      <4> QED BY <4>1 DEF EvqIInv, CountOK, Bit
    <3> QED BY <1>5, <1>8, <3>1, <3>2, Fields DEF EvqIInv
  <2>4. thread[u].pc = "callback" => evqs'[u] = evqs[u] /\ evqs[u] # 0 /\ evqs[u] \in Qid /\ thread[u].eve # x
    <3>1. thread[u].pc = "callback" => evqs[u] # 0 /\ evqs[u] \in Qid /\ thread[u].eve # x
      BY <1>9, Fields DEF EvqIInv, ThreadOK, EventOK, CalledBack, Qid
    <3> QED BY <1>2, <1>8, <3>1
  <2>5. u = t => thread[u].pc \notin {"exit", "discard", "gone"}
    BY <1>2
  <2>6. ASSUME thread[u].pc = "callback"
        PROVE  LET e == thread[u].eve
               IN  /\ e \in Eve /\ eve'[e].live /\ eve'[e].stid = u
                   /\ eve'[e].qid = evqs'[u] /\ (e \notin Left(evqs[u]))' /\ GivenOK(e)'
    <3>1. PICK e \in Eve, p \in Qid : e = thread[u].eve /\ p = evqs[u] /\ e # x /\ evqs'[u] = p /\ thread'[u].eve = e
      BY <1>2, <2>4, <2>6 DEF EvqIInv, ThreadOK
    <3>2. eve[e].live /\ eve[e].stid = u /\ eve[e].qid = p /\ e \notin Left(p) /\ GivenOK(e)
      BY <2>6, <3>1 DEF EvqIInv, ThreadOK
    <3>3. e \notin Left(p)' /\ GivenOK(e)'
      BY <1>4, <1>10, <1>11, <3>1, <3>2 DEF GivenOK
    <3>4. eve'[e].live /\ eve'[e].stid = u /\ eve'[e].qid = p
      BY <1>4, <3>1, <3>2
    <3> QED BY <3>1, <3>3, <3>4 DEF Left, GivenOK, Looked, Looking
  <2> QED BY <1>2, <1>6, <2>1, <2>2, <2>3, <2>5, <2>6 DEF EvqIInv, ThreadOK
<1>18. TrampOK'
  <2>1. tramp.pc # "idle" => tramp.eve \in Eve
    BY DEF EvqIInv, TrampOK
  <2>2. Looking => tramp.eve # x /\ te.live
    BY <1>1, <1>2 DEF EvqIInv, TrampOK, te, Owned, Orphan
  <2>3. Looking => eve'[tramp.eve] = eve[tramp.eve] /\ (Owned(tramp.eve)' <=> Owned(tramp.eve))
    <3> SUFFICES ASSUME Looking PROVE eve'[tramp.eve] = eve[tramp.eve] /\ (Owned(tramp.eve)' <=> Owned(tramp.eve))
      OBVIOUS
    <3>1. PICK e \in Eve \ {x} : e = tramp.eve
      BY <2>1, <2>2 DEF Looking
    <3> QED BY <1>2, <1>4, <1>12, <2>2, <3>1 DEF te, Owned
  <2>4. tramp.qid < next_qid'
    BY <1>8, Fields DEF EvqIInv, TrampOK
  <2>5. tramp.pc = "discard" => tramp.qid # h /\ tramp.qid \in Qid
    <3>1. tramp.pc = "discard" => tramp.qid # 0 /\ tramp.qid < next_qid /\ queue[tramp.qid].ref = 0 /\ tramp.qid \in Qid
      BY Fields DEF EvqIInv, TrampOK, Qid
    <3>2. evqs[t] # 0 => queue[h].ref # 0
      <4>1. evqs[t] # 0 => Has(t) = h
        BY <1>2, <1>8 DEF Has
      <4> QED BY <4>1 DEF EvqIInv, CountOK, Bit
    <3> QED BY <1>5, <1>8, <3>1, <3>2, Fields DEF EvqIInv
  <2> QED BY <1>2, <1>6, <2>1, <2>2, <2>3, <2>4, <2>5 DEF EvqIInv, TrampOK, te, Owned, Orphan, Looking
<1>19. NoLostSignal'
  <2>1. \A u \in Thread : evqs'[u] # 0 => evqs'[u] \in Qid
    BY <1>2, Fields DEF EvqIInv, Qid
  <2>2. evqs[t] = 0 => queue'[h].triggered = <<>>
    BY <1>5, <1>6
  <2> QED BY <1>2, <1>6, <1>8, <2>1, <2>2 DEF EvqIInv, NoLostSignal, Going
<1> QED BY <1>7, <1>15, <1>16, <1>17, <1>18, <1>19 DEF EvqIInv

\* An event cancelled, when it is not freed at once.
LEMMA CancelFields ==
    ASSUME NEW r \in EveType, r.ref \in 1 .. 3, r.live,
           r.ev <=> r.ce \in {"linked", "fired"}
    PROVE  LET b == Unref([CqCancelled(r) EXCEPT !.cancelled = TRUE, !.held = FALSE])
           IN  /\ b \in EveType
               /\ r.ref = 1 => b = FreeEve
               /\ r.ref # 1 => /\ b.live /\ ~b.held /\ b.ref = r.ref - 1
                               /\ b.cancelable = r.cancelable /\ b.cancelled
                               /\ b.qid = r.qid /\ b.stid = r.stid
                               /\ ~b.ev /\ b.ce \notin {"linked", "fired"}
                               /\ b.ce = r.ce \/ b.ce = "freed"
<1> DEFINE y == CqCancelled(r)
           z == [y EXCEPT !.cancelled = TRUE, !.held = FALSE]
<1>1. /\ y \in EveType /\ y.live /\ y.ref = r.ref /\ y.cancelable = r.cancelable
      /\ y.qid = r.qid /\ y.stid = r.stid
      /\ ~y.ev /\ y.ce \notin {"linked", "fired"}
      /\ y.ce = r.ce \/ y.ce = "freed"
  <2>1. CASE r.ev
    BY <2>1 DEF CqCancelled, EveType
  <2>2. CASE ~r.ev
    BY <2>2 DEF CqCancelled
  <2> QED BY <2>1, <2>2
<1> HIDE DEF y
<1>2. /\ z \in EveType /\ z.live /\ ~z.held /\ z.ref = r.ref /\ z.cancelled
      /\ z.cancelable = r.cancelable /\ z.qid = r.qid /\ z.stid = r.stid
      /\ ~z.ev /\ z.ce \notin {"linked", "fired"}
      /\ z.ce = r.ce \/ z.ce = "freed"
  BY <1>1 DEF EveType
<1>3. Unref([CqCancelled(r) EXCEPT !.cancelled = TRUE, !.held = FALSE]) = Unref(z)
  BY DEF y
<1> HIDE DEF z
<1>4. z.ref = r.ref /\ z.ref # -1
  BY <1>2
<1>5. Unref(z) \in EveType /\ (z.ref = 1 => Unref(z) = FreeEve)
  BY <1>2, <1>4, UnrefFields
<1>6. z.ref # 1 => /\ Unref(z).live = z.live /\ Unref(z).ref = z.ref - 1
                  /\ Unref(z).cancelable = z.cancelable /\ Unref(z).cancelled = z.cancelled
                  /\ Unref(z).ev = z.ev /\ Unref(z).ce = z.ce
                  /\ Unref(z).qid = z.qid /\ Unref(z).stid = z.stid /\ Unref(z).held = z.held
  BY <1>2, <1>4, UnrefFields
<1> QED BY <1>2, <1>3, <1>4, <1>5, <1>6

\* evq_cancel(), whether the event is still due, triggered, running or gone.
LEMMA CancelOK ==
    ASSUME EvqIInv, NEW t \in Thread, NEW x \in Eve, evq_cancel(t, x)
    PROVE  EvqIInv'
<1> DEFINE r == eve[x]
           atonce == r.ref = 3 /\ ~Triggered(r)
           b == CancelOf(r)
<1>1. /\ r.live /\ r.stid = t /\ r.held /\ Owned(x) /\ Promised(x) /\ r.qid \in Qid /\ r \in EveType
      /\ thread[t].pc \in {"run", "callback"} /\ evqs[t] = r.qid
      /\ r.ev <=> r.ce \in {"linked", "fired"}
  BY Fields DEF EvqIInv, evq_cancel, Busy, EventOK, RefsOK, EvqTypeOK, Qid, Owned
<1>0. PICK h \in Qid : h = r.qid
  BY <1>1
<1>2. /\ eve' = [eve EXCEPT ![x] = b] /\ eve'[x] = b
      /\ \A e \in Eve \ {x} : eve'[e] = eve[e]
      /\ raced' = (raced \/ r.ce = "fired")
      /\ UNCHANGED <<evqs, next_qid, thread, sig, lost, tramp, call, abort>>
  BY DEF evq_cancel, EvqIInv, EvqTypeOK
<1>3. r.ref = 1 + Bit(Engaged(x)) + Bit(Listed(x) \/ CalledBack(x)) /\ r.ref \in 1 .. 3
  BY <1>1 DEF EvqIInv, RefsOK, Bit
<1>4. Has(t) = h /\ queue[h].ref >= 1 /\ h # 0 /\ h < next_qid
  <2>1. Has(t) = h /\ h # 0 /\ h < next_qid
    BY <1>0, <1>1 DEF Has, EvqIInv, ThreadOK, Qid
  <2> QED BY <2>1 DEF EvqIInv, CountOK, Bit
\* An event still in the callout queue is in the list, hence has all its references.
<1>5. r.ce = "linked" => x \in queue[h].events /\ Listed(x) /\ r.ref = 3 /\ ~Looked(x)
  <2>1. r.ce = "linked" => x \in queue[h].events /\ ~Looked(x)
    BY <1>0, <1>1, <1>4 DEF EvqIInv, PlaceOK
  <2> QED BY <1>0, <1>3, <2>1 DEF Listed, Left, Engaged, Bit
<1>6. atonce => r.ce = "linked" /\ b = FreeEve
  BY <1>1 DEF Triggered, b, CancelOf
<1>7. ~atonce => r.ce # "linked"
  BY <1>1, <1>5 DEF Triggered
<1>8. /\ b \in EveType
      /\ ~atonce /\ r.ref = 1 => b = FreeEve
      /\ ~atonce /\ r.ref # 1 =>
            /\ b.live /\ ~b.held /\ b.ref = r.ref - 1
            /\ b.cancelable = r.cancelable /\ b.cancelled
            /\ b.qid = r.qid /\ b.stid = r.stid
            /\ ~b.ev /\ b.ce \notin {"linked", "fired"}
            /\ b.ce = r.ce \/ b.ce = "freed"
  <2>1. ~atonce => b = Unref([CqCancelled(r) EXCEPT !.cancelled = TRUE, !.held = FALSE])
    BY DEF CancelOf
  <2>2. atonce => b \in EveType
    BY <1>6, FreeEveFields
  <2> HIDE DEF r, b, atonce
  <2> QED BY <1>1, <1>3, <2>1, <2>2, CancelFields
<1>9. /\ queue' \in [Qid -> QueueType]
      /\ \A p \in Qid : /\ queue'[p].triggered = queue[p].triggered
                        /\ queue'[p].ref = queue[p].ref
                        /\ p # h => queue'[p] = queue[p]
      /\ queue'[h].events = IF atonce THEN queue[h].events \ {x} ELSE queue[h].events
  <2>1. CASE ~atonce
    BY <2>1 DEF evq_cancel, EvqIInv, EvqTypeOK
  <2>2. CASE atonce
    <3>1. queue' = [queue EXCEPT ![h].events = queue[h].events \ {x}, ![h].triggered = queue[h].triggered]
      BY <1>0, <2>2 DEF evq_cancel, EvqIInv, EvqTypeOK, QueueType
    <3>2. queue[h].events \ {x} \in SUBSET Eve /\ queue[h].triggered \in Seq(Eve) /\ EvqTypeOK
      BY Fields DEF EvqIInv
    <3>3. /\ queue' \in [Qid -> QueueType]
          /\ \A p \in Qid : /\ queue'[p].events = IF p = h THEN queue[h].events \ {x} ELSE queue[p].events
                            /\ queue'[p].triggered = IF p = h THEN queue[h].triggered ELSE queue[p].triggered
                            /\ queue'[p].ref = queue[p].ref
                            /\ p # h => queue'[p] = queue[p]
      BY <3>1, <3>2, QueueMove
    <3> QED BY <2>2, <3>3
  <2> QED BY <2>1, <2>2
<1> HIDE DEF b, atonce
<1>10. \A p \in Qid : Left(p)' = IF p = h /\ atonce THEN Left(p) \ {x} ELSE Left(p)
  <2>1. atonce => x \notin Range(queue[h].triggered)
    BY <1>5, <1>6 DEF EvqIInv, QueueOK
  <2> QED BY <1>9, <2>1 DEF Left
<1>11. \A e \in Eve : /\ (Looked(e)' <=> Looked(e)) /\ (CalledBack(e)' <=> CalledBack(e))
                      /\ eve[e].live => eve[e].qid \in Qid
  BY <1>2, Fields DEF Looked, Looking, CalledBack, EvqIInv, EventOK, Qid
<1>12. \A v \in Thread : Has(v)' = Has(v)
  BY <1>2 DEF Has
\* The evq thread looks at it only if there is a race.
<1>13. Looked(x) => r.ce = "fired" \/ raced
  BY <1>1 DEF EvqIInv, TrampOK, te, Owned, Orphan, Looked, Looking
\* Freed, it was in no list.
<1>14. b = FreeEve => \/ atonce /\ ~Looked(x) /\ ~CalledBack(x)
                      \/ ~atonce /\ ~Looked(x) /\ ~CalledBack(x) /\ ~Listed(x)
  <2>1. atonce => ~CalledBack(x)
    BY <1>0, <1>1, <1>5, <1>6 DEF CalledBack, EvqIInv, ThreadOK, Left
  <2>2. b = FreeEve /\ ~atonce => r.ref = 1
    BY <1>8, FreeEveFields
  <2>3. r.ref = 1 => ~Looked(x) /\ ~CalledBack(x) /\ ~Listed(x)
    BY <1>3 DEF Engaged, Bit
  <2> QED BY <1>5, <1>6, <2>1, <2>2, <2>3
<1>15. EvqTypeOK'
  <2>1. raced' \in BOOLEAN
    BY <1>2
  <2> QED BY <1>2, <1>8, <1>9, <2>1 DEF EvqIInv, EvqTypeOK
<1>16. ASSUME NEW e \in Eve PROVE RefsOK(e)' /\ EventOK(e)' /\ PlaceOK(e)'
  <2>1. CASE e # x
    <3>1. /\ (Owned(e)' <=> Owned(e)) /\ (Promised(e)' <=> Promised(e)) /\ (Engaged(e)' <=> Engaged(e))
          /\ eve[e].live => (Listed(e)' <=> Listed(e))
      BY <1>2, <1>10, <1>11, <2>1 DEF Owned, Promised, Engaged, Listed
    <3>2. RefsOK(e)'
      BY <1>2, <1>11, <2>1, <3>1, RefsFrame DEF EvqIInv
    <3>3. EventOK(e)'
      BY <1>2, <2>1, <3>1 DEF EvqIInv, EventOK
    <3>4. ~raced' => ~raced
      BY <1>2
    <3>5. PlaceOK(e)'
      BY <1>2, <1>9, <1>11, <2>1, <3>1, <3>4 DEF EvqIInv, PlaceOK
    <3> QED BY <3>2, <3>3, <3>5
  <2>2. CASE e = x /\ b = FreeEve
    BY <1>2, <1>11, <1>14, <2>2, FreeEveFields DEF RefsOK, EventOK, PlaceOK, Engaged
  <2>3. CASE e = x /\ b # FreeEve
    <3>1. /\ ~atonce /\ r.ref # 1
      BY <1>6, <1>8, <2>3
    <3>2. /\ eve'[x].live /\ ~eve'[x].held /\ eve'[x].ref = r.ref - 1
          /\ eve'[x].cancelled /\ eve'[x].qid = r.qid /\ eve'[x].stid = r.stid
          /\ ~eve'[x].ev /\ eve'[x].ce \notin {"linked", "fired"}
      BY <1>2, <1>8, <3>1
    <3>3. Owned(x)' /\ ~Promised(x)' /\ (Engaged(x)' <=> Looked(x)) /\ (Listed(x)' <=> Listed(x))
      BY <1>0, <1>1, <1>2, <1>10, <1>11, <3>1, <3>2 DEF Owned, Promised, Engaged, Listed
    <3>4. RefsOK(x)'
      <4>1. Engaged(x) <=> Looked(x)
        BY <1>7, <3>1 DEF Engaged
      <4>2. eve'[x].ref = (IF Engaged(x) THEN 1 ELSE 0) + (IF Listed(x) \/ CalledBack(x) THEN 1 ELSE 0)
        BY <1>3, <3>2 DEF Bit
      <4> QED BY <1>11, <3>2, <3>3, <4>1, <4>2 DEF RefsOK, Bit
    <3>5. EventOK(x)'
      <4>1. r.stid \in Thread /\ r.qid \in 1 .. next_qid - 1 /\ \A u \in Thread : evqs[u] = r.qid => r.stid = u
        BY <1>1 DEF EvqIInv, EventOK
      <4> QED BY <1>2, <3>2, <4>1 DEF EventOK
    <3>6. PlaceOK(x)'
      <4>1. tramp.eve = x /\ tramp.pc \in {"get", "lock"} => x \in queue[h].events
        BY <1>0, <1>1, <1>4 DEF EvqIInv, PlaceOK
      <4>2. ~raced' => ~Looked(x)
        BY <1>2, <1>13
      <4>3. queue'[h].events = queue[h].events /\ eve'[x].qid = h
        BY <1>0, <1>9, <3>1, <3>2
      <4> QED BY <1>2, <1>11, <3>2, <3>3, <4>1, <4>2, <4>3 DEF PlaceOK
    <3> QED BY <2>3, <3>4, <3>5, <3>6
  <2> QED BY <2>1, <2>2, <2>3
<1>17. ASSUME NEW q \in Qid PROVE QueueOK(q)' /\ CountOK(q)'
  <2>1. q >= next_qid => q # h
    BY <1>4, Fields DEF EvqIInv, Qid
  <2>2. Left(q)' \subseteq Left(q) /\ Left(q) \subseteq Eve
    BY <1>10, Fields DEF EvqIInv, Left, Range
  <2>3. x \in Left(q)' => b.live /\ b.qid = q
    <3>1. x \in Left(q) => q = h
      BY <1>0 DEF EvqIInv, QueueOK
    <3>2. x \in Left(q)' => ~atonce /\ Listed(x)
      BY <1>0, <1>10, <2>2, <3>1 DEF Listed
    <3>3. x \in Left(q)' => b # FreeEve
      BY <1>14, <3>2
    <3> QED BY <1>0, <1>6, <1>8, <2>2, <3>1, <3>3
  <2>4. \A e \in Left(q)' : eve'[e].live /\ eve'[e].qid = q
    BY <1>2, <2>2, <2>3 DEF EvqIInv, QueueOK
  <2>5. ASSUME NEW e \in Range(queue'[q].triggered)
        PROVE  e \notin queue'[q].events /\ GivenOK(e)'
    <3>1. e \in Range(queue[q].triggered) /\ e \in Eve
      BY <1>9, <2>2 DEF Left
    <3>2. e \notin queue[q].events /\ GivenOK(e)
      BY <3>1 DEF EvqIInv, QueueOK
    <3>3. queue'[q].events \subseteq queue[q].events
      BY <1>9
    <3>4. CASE e # x
      BY <1>2, <1>11, <3>1, <3>2, <3>3, <3>4 DEF GivenOK
    <3>5. CASE e = x
      <4>1. e \in Left(q)' /\ r.ce = "freed" /\ ~Looked(x)
        BY <1>9, <3>1, <3>2, <3>5 DEF Left, GivenOK
      <4>2. b # FreeEve /\ ~atonce
        BY <1>6, <2>3, <3>5, <4>1, FreeEveFields
      <4>3. b.ce = "freed"
        BY <1>8, <4>1, <4>2
      <4> QED BY <1>2, <1>11, <3>2, <3>3, <3>5, <4>1, <4>3 DEF GivenOK
    <3> QED BY <3>4, <3>5
  <2>6. IsInjective(queue'[q].triggered)
    BY <1>9 DEF EvqIInv, QueueOK
  <2>7. q >= next_qid' => queue'[q] = [ref |-> 0, events |-> {}, triggered |-> <<>>]
    BY <1>2, <1>9, <2>1 DEF EvqIInv, QueueOK
  <2>8. QueueOK(q)'
    BY <2>4, <2>5, <2>6, <2>7 DEF QueueOK
  <2> QED BY <1>2, <1>9, <1>12, <2>8 DEF EvqIInv, CountOK, Bit, TrampHas
<1>18. ASSUME NEW u \in Thread PROVE ThreadOK(u)'
  <2>1. (evqs[u] # 0 => evqs[u] \in Qid) /\ (thread[u].qid # 0 => thread[u].qid \in Qid)
    BY Fields DEF EvqIInv, Qid
  <2>2. thread[u].pc = "callback" => evqs[u] # 0
    BY Fields DEF EvqIInv, ThreadOK, EventOK
  <2>3. thread[u].pc = "callback" /\ thread[u].eve = x =>
            b.live /\ b.stid = r.stid /\ b.qid = r.qid /\ b.ce = "freed"
    <3> SUFFICES ASSUME thread[u].pc = "callback" /\ thread[u].eve = x
                 PROVE  b.live /\ b.stid = r.stid /\ b.qid = r.qid /\ b.ce = "freed"
      OBVIOUS
    <3>1. r.ce = "freed" /\ CalledBack(x)
      BY DEF EvqIInv, ThreadOK, GivenOK, CalledBack
    <3>2. b # FreeEve
      BY <1>14, <3>1
    <3>3. ~atonce
      BY <1>6, <3>1
    <3> QED BY <1>8, <3>1, <3>2, <3>3
  <2>4. \A p \in Qid : Left(p)' \subseteq Left(p)
    BY <1>10
  <2>5. \A p \in Qid : queue'[p].ref = queue[p].ref
    BY <1>9
  <2> QED BY <1>2, <1>11, <1>12, <2>1, <2>2, <2>3, <2>4, <2>5 DEF EvqIInv, ThreadOK, GivenOK
<1>19. TrampOK'
  <2>1. tramp.pc # "idle" => tramp.eve \in Eve
    BY DEF EvqIInv, TrampOK
  <2>2. tramp.pc = "discard" => tramp.qid \in Qid
    BY Fields DEF EvqIInv, TrampOK, Qid
  <2>3. tramp.pc # "idle" /\ tramp.eve # x => eve'[tramp.eve] = eve[tramp.eve]
    BY <1>2, <2>1
  <2>4. (~raced' => ~raced) /\ \A p \in Qid : queue'[p].ref = queue[p].ref
    BY <1>2, <1>9
  <2>5. CASE tramp.eve # x \/ ~Looking
    BY <1>2, <2>1, <2>2, <2>3, <2>4, <2>5 DEF EvqIInv, TrampOK, te, Orphan, Looking, Owned
  <2>6. CASE tramp.eve = x /\ Looking
    <3>1. Looked(x) /\ raced'
      BY <1>2, <1>13, <2>6 DEF Looked
    <3>2. b # FreeEve /\ ~atonce
      BY <1>5, <1>6, <1>14, <3>1
    <3>3. eve'[x].live /\ eve'[x].qid = r.qid /\ eve'[x].stid = r.stid
      BY <1>2, <1>8, <3>2
    <3> QED BY <1>1, <1>2, <2>1, <2>2, <2>4, <2>6, <3>1, <3>3 DEF EvqIInv, TrampOK, te, Orphan, Looking, Owned
  <2> QED BY <2>5, <2>6
<1>20. NoLostSignal'
  <2>1. \A u \in Thread : evqs[u] # 0 => evqs[u] \in Qid
    BY Fields DEF EvqIInv, Qid
  <2>2. ~raced' => ~raced
    BY <1>2
  <2> QED BY <1>2, <1>9, <2>1, <2>2 DEF EvqIInv, NoLostSignal, Going
<1> QED BY <1>15, <1>16, <1>17, <1>18, <1>19, <1>20 DEF EvqIInv

----------------------------------------------------------------------------
(* The theorems.                                                           *)

\* It holds initially: no event, no queue.
LEMMA EvqInitOK == EvqInit => EvqIInv
<1> SUFFICES ASSUME EvqInit PROVE EvqIInv
  OBVIOUS
<1>1. /\ \A e \in Eve : eve[e] = FreeEve
      /\ \A t \in Thread : evqs[t] = 0 /\ thread[t].pc = "run" /\ thread[t].qid = 0
      /\ \A q \in Qid : /\ queue[q] = [ref |-> 0, events |-> {}, triggered |-> <<>>]
                        /\ queue[q].ref = 0 /\ queue[q].events = {} /\ queue[q].triggered = <<>>
      /\ next_qid = 1 /\ sig = {} /\ lost = {} /\ call = Null /\ raced = FALSE /\ abort = "no"
      /\ tramp.pc = "idle" /\ tramp.eve = Null /\ tramp.qid = 0
  BY DEF EvqInit, Idle, Running
<1>2. EvqTypeOK
  <2>1. Running \in ThreadType /\ Idle \in TrampType
    BY EvqAssumption DEF Running, ThreadType, Idle, TrampType
  <2>2. [ref |-> 0, events |-> {}, triggered |-> <<>>] \in QueueType
    BY DEF QueueType
  <2>3. next_qid \in 1 .. MaxQueue + 1 /\ 0 \in 0 .. MaxQueue
    BY <1>1, EvqAssumption
  <2>4. eve \in [Eve -> EveType]
    BY FreeEveFields DEF EvqInit
  <2>5. queue \in [Qid -> QueueType]
    BY <2>2 DEF EvqInit
  <2>6. evqs \in [Thread -> 0 .. MaxQueue] /\ thread \in [Thread -> ThreadType] /\ tramp \in TrampType
    BY <2>1, <2>3 DEF EvqInit
  <2> QED BY <1>1, <2>3, <2>4, <2>5, <2>6 DEF EvqTypeOK
<1>3. \A q \in Qid : Left(q) = {} /\ Range(queue[q].triggered) = {} /\ IsInjective(queue[q].triggered)
  BY <1>1 DEF Left, Range, IsInjective
<1>4. ASSUME NEW e \in Eve PROVE RefsOK(e) /\ EventOK(e) /\ PlaceOK(e)
  BY <1>1, FreeEveFields DEF RefsOK, EventOK, PlaceOK, Looked, Looking, Engaged
<1>5. ASSUME NEW q \in Qid PROVE QueueOK(q) /\ CountOK(q)
  <2>1. q # 0 /\ \A t \in Thread : Has(t) # q
    BY <1>1 DEF Has, Qid
  <2> QED BY <1>1, <1>3, <2>1 DEF QueueOK, CountOK, TrampHas, Bit
<1>6. ASSUME NEW t \in Thread PROVE ThreadOK(t)
  BY <1>1 DEF ThreadOK, Has
<1>7. TrampOK /\ NoLostSignal
  BY <1>1 DEF TrampOK, Looking, NoLostSignal
<1> QED BY <1>2, <1>4, <1>5, <1>6, <1>7 DEF EvqIInv

\* Every step preserves the invariant.
LEMMA EvqStepOK == EvqIInv /\ [EvqNext]_evqvars => EvqIInv'
<1> SUFFICES ASSUME EvqIInv, [EvqNext]_evqvars PROVE EvqIInv'
  OBVIOUS
<1>1. ASSUME NEW t \in Thread, ThreadStep(t) PROVE EvqIInv'
  BY <1>1, AddOK, CancelOK, DispatchStartOK, SignalClearedOK, DispatchNextOK, CallbackReturnsOK,
     DispatchEmptyOK, DispatchEndOK, FreeOK, ThreadReleaseOK, ThreadDiscardsOK, ThreadStartOK DEF ThreadStep
<1>2. ASSUME NEW e \in Eve, Fire(e) PROVE EvqIInv'
  BY <1>2, FireOK
<1>3. CASE Trampoline
  BY <1>3, GetOK, HandoverOK, ReadAckOK, UnrefOK, ReleaseOK, ReturnOK, FailOK
     DEF Trampoline, TrampolineFails, TrampolineFreed
<1>4. CASE TrampolineDiscards
  BY <1>4, TrampolineDiscardsOK
<1>5. CASE UNCHANGED evqvars
  <2>1. UNCHANGED <<eve, evqs, queue, next_qid, thread, sig, lost, tramp, call, raced, abort>>
    BY <1>5 DEF evqvars
  <2>2. EvqTypeOK' /\ TrampOK' /\ NoLostSignal'
    BY <2>1 DEF EvqIInv, EvqTypeOK, TrampOK, te, Owned, Orphan, Looking, NoLostSignal, Going
  <2>3. ASSUME NEW e \in Eve PROVE RefsOK(e)' /\ EventOK(e)' /\ PlaceOK(e)'
    <3>1. RefsOK(e)'
      BY <2>1, RefsFrame DEF EvqIInv, Promised, Owned, Engaged, Looked, Looking, Listed, Left, CalledBack
    <3> QED BY <2>1, <3>1 DEF EvqIInv, EventOK, PlaceOK, Owned, Engaged, Looked, Looking
  <2>4. ASSUME NEW q \in Qid PROVE QueueOK(q)' /\ CountOK(q)'
    BY <2>1 DEF EvqIInv, QueueOK, Left, GivenOK, Looked, Looking, CountOK, Has, TrampHas, Bit
  <2>5. ASSUME NEW u \in Thread PROVE ThreadOK(u)'
    BY <2>1 DEF EvqIInv, ThreadOK, Has, Left, GivenOK, Looked, Looking
  <2> QED BY <2>2, <2>3, <2>4, <2>5 DEF EvqIInv
<1> QED BY <1>1, <1>2, <1>3, <1>4, <1>5 DEF EvqNext

\* The inductive invariant of the event queue: who refers to each event, and
\* how many references evq_add(), evq_cancel(), evq_trampoline(),
\* evq_local_dispatch() and evq_event_discard() have left it.
THEOREM EvqInvariance == EvqSpec => []EvqIInv
BY EvqInitOK, EvqStepOK, PTL DEF EvqSpec

\* What a step may fail of: a step is taken while the program goes on, and only
\* evq_trampoline() and the evq thread discarding events may end it.
LEMMA ExitFailuresOK ==
    ASSUME EvqIInv, ExitFailures, [EvqNext]_evqvars
    PROVE  ExitFailures'
<1>1. CASE UNCHANGED evqvars
  BY <1>1 DEF evqvars, ExitFailures, Going, Orphan, Left
<1>2. ASSUME Going, abort' = abort PROVE ExitFailures'
  BY <1>2 DEF Going, ExitFailures
<1>3. CASE TrampolineAck
  <2>1. CASE tramp.ev /\ te.ce = "freed"
    <3>1. abort' = "ack" /\ raced' = raced /\ Orphan(tramp.eve)' = Orphan(tramp.eve)
      BY <1>3, <2>1 DEF TrampolineAck, Fail, Orphan
    <3>2. ~raced => Orphan(tramp.eve)
      BY <1>3, <2>1 DEF TrampolineAck, At, EvqIInv, TrampOK
    <3> QED BY <3>1, <3>2 DEF ExitFailures
  <2>2. CASE ~(tramp.ev /\ te.ce = "freed")
    BY <1>2, <1>3, <2>2 DEF TrampolineAck, At
  <2> QED BY <2>1, <2>2
<1>4. CASE TrampolineDiscards
  <2>1. ASSUME NEW x \in NextLeft(tramp.qid), eve[x].cancelable, Fail("discard")
        PROVE  ExitFailures'
    <3>1. PICK h \in Qid : h = tramp.qid /\ queue[h].ref = 0
      BY <1>4, Fields DEF TrampolineDiscards, EvqIInv, TrampOK, Qid
    <3>2. x \in Left(h)
      <4>1. queue[h].triggered \in Seq(Eve)
        BY Fields DEF EvqIInv
      <4>2. queue[h].triggered # <<>> => Head(queue[h].triggered) \in Range(queue[h].triggered)
        BY <4>1, TailRange
      <4> QED BY <2>1, <3>1, <4>2 DEF NextLeft, Left
    <3>3. x \in Eve /\ eve[x].qid = h /\ eve[x].stid \in Thread
      <4>1. x \in Eve
        BY <3>2, Fields DEF EvqIInv, Left, Range
      <4> QED BY <3>2, <4>1 DEF EvqIInv, QueueOK, EventOK
    <3>4. \A u \in Thread : Has(u) # h
      BY <3>1 DEF EvqIInv, CountOK, Bit
    <3>5. evqs[eve[x].stid] # h
      BY <3>3, <3>4 DEF EvqIInv, ThreadOK, Has, Qid
    <3>6. Orphan(x) /\ x \in Left(tramp.qid)
      BY <2>1, <3>1, <3>2, <3>3, <3>5 DEF Orphan
    <3>7. abort' = "discard" /\ UNCHANGED <<eve, evqs, queue, tramp>>
      BY <2>1 DEF Fail
    <3> QED BY <3>6, <3>7 DEF ExitFailures, Orphan, Left
  <2> QED BY <1>2, <1>4, <2>1 DEF TrampolineDiscards, DiscardOne
<1>5. CASE TrampolineFails
  BY <1>5 DEF TrampolineFails, CqZeroFails, At, Fail, ExitFailures, EvqIInv, TrampOK, EventOK, te
<1>6. CASE TrampolineFreed
  BY <1>6 DEF TrampolineFreed, Fail, ExitFailures, EvqIInv, TrampOK
<1>7. CASE TrampolineGet \/ TrampolineHandover \/ TrampolineRead \/ TrampolineUnref
           \/ TrampolineRelease \/ TrampolineReturn \/ (\E e \in Eve : Fire(e))
  BY <1>2, <1>7 DEF TrampolineGet, TrampolineHandover, TrampolineRead, TrampolineUnref,
     TrampolineRelease, TrampolineReturn, Fire, At
<1>8. ASSUME NEW t \in Thread, ThreadStep(t) PROVE ExitFailures'
  BY <1>2, <1>8 DEF ThreadStep, evq_add, evq_cancel, DispatchStart, SignalCleared, DispatchNext,
     CallbackReturns, DispatchEmpty, DispatchEnd, evq_free, ThreadRelease, ThreadDiscards,
     DiscardOne, ThreadStart
<1> QED BY <1>1, <1>3, <1>4, <1>5, <1>6, <1>7, <1>8 DEF EvqNext, Trampoline

\* What evq_trampoline(), a queue, a callback and cq->cq_call refer to is
\* allocated, but for the callout event of a cancelable event whose thread ended;
\* without the race of evq_cancel(), only such an event makes the program fail;
\* and a thread that has events triggered looks at them, unless its signal was
\* cleared by thread_sig_handle().
THEOREM EvqSafe == EvqSpec => []EvqInv
<1>1. EvqIInv /\ ExitFailures => EvqInv
  <2> SUFFICES ASSUME EvqIInv, ExitFailures, ~raced PROVE EvqInv
    BY DEF EvqIInv, EvqInv, NoUseAfterFree
  <2>1. call # Null => eve[call].live /\ (eve[call].ce = "fired" \/ Orphan(call))
    BY DEF EvqIInv, TrampOK, te, Looking
  <2>2. tramp.pc = "return" => call = Null
    BY DEF EvqIInv, TrampOK
  <2> QED BY <2>1, <2>2 DEF EvqIInv, EvqInv, NoUseAfterFree, QueueOK, ThreadOK, TrampOK
<1>2. EvqInit => ExitFailures
  BY DEF EvqInit, ExitFailures, Going
<1>3. EvqIInv /\ ExitFailures /\ [EvqNext]_evqvars => ExitFailures'
  BY ExitFailuresOK
<1> QED BY <1>1, <1>2, <1>3, EvqInvariance, PTL DEF EvqSpec

\* The number of elements of {1, 2, 3} that are flagged.
LEMMA CountThree ==
    ASSUME NEW a \in BOOLEAN, NEW b \in BOOLEAN, NEW c \in BOOLEAN
    PROVE  Cardinality({i \in 1 .. 3 : <<a, b, c>>[i]}) = Bit(a) + Bit(b) + Bit(c)
<1> DEFINE f == <<a, b, c>>
           S(n) == {i \in 1 .. n : f[i]}
<1>1. f[1] = a /\ f[2] = b /\ f[3] = c
  OBVIOUS
<1>2. S(0) = {} /\ IsFiniteSet(S(0)) /\ Cardinality(S(0)) = 0
  BY FS_EmptySet
<1>3. ASSUME NEW n \in 1 .. 3, IsFiniteSet(S(n - 1))
      PROVE  IsFiniteSet(S(n)) /\ Cardinality(S(n)) = Cardinality(S(n - 1)) + (IF f[n] THEN 1 ELSE 0)
  <2>1. n \notin S(n - 1)
    OBVIOUS
  <2>2. Cardinality(S(n - 1)) \in Nat
    BY <1>3, FS_CardinalityType
  <2>3. CASE f[n]
    <3>1. S(n) = S(n - 1) \cup {n}
      BY <2>3
    <3> HIDE DEF S
    <3> QED BY <1>3, <2>1, <2>2, <2>3, <3>1, FS_AddElement
  <2>4. CASE ~f[n]
    <3>1. S(n) = S(n - 1)
      BY <2>4
    <3> HIDE DEF S
    <3> QED BY <1>3, <2>2, <2>4, <3>1
  <2> QED BY <2>3, <2>4
<1> HIDE DEF S, f
<1>4. IsFiniteSet(S(1)) /\ Cardinality(S(1)) = (IF a THEN 1 ELSE 0)
  BY <1>1, <1>2, <1>3
<1>5. IsFiniteSet(S(2)) /\ Cardinality(S(2)) = (IF a THEN 1 ELSE 0) + (IF b THEN 1 ELSE 0)
  BY <1>1, <1>3, <1>4
<1>6. Cardinality(S(3)) = (IF a THEN 1 ELSE 0) + (IF b THEN 1 ELSE 0) + (IF c THEN 1 ELSE 0)
  BY <1>1, <1>3, <1>5
<1> QED BY <1>6 DEF S, f, Bit

\* The reference count of an event is the number of those who refer to it:
\* the user, the evq thread, the queue or the callback.
THEOREM RefcntsExact == EvqSpec => []RefcntExact
<1>1. EvqIInv => RefcntExact
  <2> SUFFICES ASSUME EvqIInv, NEW e \in Eve, eve[e].live, Owned(e)
               PROVE  eve[e].ref = Cardinality({i \in 1 .. 3 :
                        <<eve[e].held,
                          eve[e].ce \in {"linked", "fired"} \/ (tramp.eve = e /\ Looking),
                          \/ e \in Left(eve[e].qid)
                          \/ \E t \in Thread : thread[t].pc = "callback" /\ thread[t].eve = e>>[i]})
    BY DEF RefcntExact, Owned
  <2> DEFINE a == eve[e].held
             b == eve[e].ce \in {"linked", "fired"} \/ (tramp.eve = e /\ Looking)
             c == \/ e \in Left(eve[e].qid)
                  \/ \E t \in Thread : thread[t].pc = "callback" /\ thread[t].eve = e
  <2>1. (a <=> Promised(e)) /\ (b <=> Engaged(e)) /\ (c <=> Listed(e) \/ CalledBack(e))
    BY DEF EvqIInv, RefsOK, PlaceOK, Engaged, Looked, Looking, Listed, CalledBack
  <2>2. a \in BOOLEAN /\ b \in BOOLEAN /\ c \in BOOLEAN
    BY DEF EvqIInv, EvqTypeOK, EveType
  <2>3. eve[e].ref = Bit(a) + Bit(b) + Bit(c)
    <3> HIDE DEF a, b, c
    <3> QED BY <2>1 DEF EvqIInv, RefsOK, Bit
  <2> HIDE DEF a, b, c
  <2>4. eve[e].ref = Cardinality({i \in 1 .. 3 : <<a, b, c>>[i]})
    BY <2>2, <2>3, CountThree
  <2> QED BY <2>4 DEF a, b, c
<1> QED BY <1>1, EvqInvariance, PTL

\* The callback of an event is not called once evq_cancel() has returned: the
\* only step that calls one is that of evq_local_dispatch(), which drops the
\* events flagged as cancelled.
THEOREM CancelledNotCalled == EvqSpec => NeverAfterCancel
<1> DEFINE A == \A t \in Thread :
                  ~raced /\ thread'[t].pc = "callback" /\ thread[t].pc # "callback"
                    => ~eve[thread'[t].eve].cancelable \/ eve[thread'[t].eve].held
<1>1. EvqIInv /\ [EvqNext]_evqvars => [A]_evqvars
  <2> SUFFICES ASSUME EvqIInv, EvqNext, NEW t \in Thread,
                      thread'[t].pc = "callback", thread[t].pc # "callback"
               PROVE  ~eve[thread'[t].eve].cancelable \/ eve[thread'[t].eve].held
    OBVIOUS
  <2>1. thread \in [Thread -> ThreadType]
    BY DEF EvqIInv, EvqTypeOK
  <2>2. DispatchNext(t)
    <3>1. thread' # thread
      OBVIOUS
    <3>2. PICK u \in Thread : ThreadStep(u)
      BY <3>1 DEF EvqNext, Fire, Trampoline, TrampolineGet, TrampolineHandover, TrampolineFails,
         TrampolineFreed, TrampolineRead, TrampolineAck, TrampolineUnref, TrampolineRelease,
         TrampolineReturn, TrampolineDiscards, DiscardOne, Fail
    <3>3. DispatchNext(u) \/ thread'[t].pc # "callback"
      <4>1. CASE evq_free(u) \/ DispatchStart(u) \/ CallbackReturns(u) \/ DispatchEmpty(u)
        BY <2>1, <4>1 DEF evq_free, DispatchStart, CallbackReturns, DispatchEmpty, SetThread
      <4>2. CASE DispatchEnd(u) \/ ThreadStart(u)
        BY <2>1, <4>2 DEF DispatchEnd, ThreadStart, Running
      <4>3. CASE ThreadRelease(u)
        <5>1. thread'[u].pc \in {"discard", "gone"} /\ \A v \in Thread \ {u} : thread'[v] = thread[v]
          BY <2>1, <4>3 DEF ThreadRelease, Gone, ThreadType
        <5> QED BY <5>1
      <4>4. CASE ThreadDiscards(u)
        <5>1. thread' = [thread EXCEPT ![u] = Gone]
          BY <3>1, <4>4 DEF ThreadDiscards, DiscardOne
        <5> QED BY <2>1, <5>1 DEF Gone
      <4>5. CASE (\E c \in BOOLEAN : evq_add(u, c)) \/ (\E e \in Eve : evq_cancel(u, e)) \/ SignalCleared(u)
        BY <3>1, <4>5 DEF evq_add, evq_cancel, SignalCleared
      <4> QED BY <3>2, <4>1, <4>2, <4>3, <4>4, <4>5 DEF ThreadStep
    <3>4. u = t
      BY <2>1, <3>3 DEF DispatchNext, SetThread
    <3> QED BY <3>3, <3>4
  <2>3. PICK h \in Qid : h = evqs[t] /\ h # 0
    BY <2>2, Fields DEF DispatchNext, EvqIInv, Qid
  <2>4. queue[h].triggered \in Seq(Eve) /\ queue[h].triggered # <<>>
    BY <2>2, <2>3, Fields DEF DispatchNext, EvqIInv
  <2>5. PICK x \in Eve : x = Head(queue[h].triggered)
    BY <2>4
  <2>6. thread'[t].eve = x /\ ~eve[x].cancelled
    BY <2>1, <2>2, <2>3, <2>5 DEF DispatchNext, SetThread
  <2>7. x \in Left(h)
    BY <2>4, <2>5, TailRange DEF Left
  <2>8. eve[x].live /\ eve[x].qid = h
    BY <2>7 DEF EvqIInv, QueueOK
  <2>9. Owned(x)
    BY <2>3, <2>8 DEF EvqIInv, EventOK, Owned
  <2>10. eve[x].held <=> Promised(x)
    BY <2>8, <2>9 DEF EvqIInv, RefsOK
  <2> QED BY <2>6, <2>10 DEF Promised
<1> QED BY <1>1, EvqInvariance, PTL DEF EvqSpec, NeverAfterCancel
=============================================================================
