--------------------------------- MODULE Cq ---------------------------------
(***************************************************************************)
(* The callout queue (src/lib/cq.c): events sorted by trigger time in the  *)
(* buckets of a hash list, run by cq_clock() as virtual time elapses.      *)
(*                                                                         *)
(* cq_clock() holds the lock of the queue, which it releases around each   *)
(* callback only.  The stack holds what the thread of the queue has under  *)
(* way: calls to cq_clock() and, above each, the event being called out.   *)
(* The lock is free when no cq_clock() is on top: then the thread of the   *)
(* queue (in a callback, or between two heartbeats) and foreign threads    *)
(* may use the queue.  A callback may dispatch the queue again, or expire  *)
(* another event at once: hence the nesting.                               *)
(*                                                                         *)
(* Users follow the contract of the API: one that records its event in a   *)
(* variable (a slot) calls cq_zero() on it from the callback, and cancels, *)
(* reschedules or expires it only before that; others forget the event.    *)
(* Events that a foreign thread must cancel itself are modelled in Evq.    *)
(*                                                                         *)
(* Only differences of times, and times modulo the span of the hash list,  *)
(* matter: an outermost heartbeat first brings the time below one span,    *)
(* and shifts the trigger times with it.                                   *)
(***************************************************************************)
EXTENDS Integers, Sequences, SequencesExt, FiniteSets, FiniteSetsExt

CONSTANTS
    HashSize,       \* HASH_SIZE
    Res,            \* resolution of the hash: 2^5 units of time per bucket
    Period,         \* cq->cq_period
    MaxPeriods,     \* a heartbeat elapses no more than so many periods
    Events,         \* number of event structures
    Slot,           \* variables where users record an event
    Delay,          \* bound: delays given to cq_insert() and cq_resched()
    MaxElapsed,     \* bound: measured time between two heartbeats
    MaxDepth,       \* bound: nesting of cq_clock(), cq_expire() and callbacks
    NestMax,        \* bound: time elapsed in the heartbeats of one callback
    Null

ASSUME CqAssumption ==
    /\ HashSize \in Nat \ {0, 1} /\ Res \in Nat \ {0}
    /\ Period \in Nat \ {0} /\ MaxPeriods \in Nat \ {0}
    /\ Delay \subseteq Nat /\ MaxElapsed \in Nat /\ MaxDepth \in Nat /\ NestMax \in Nat
    /\ Events \in Nat /\ Null \notin Nat \cup Slot

VARIABLES
    ev,             \* the events: state, ce_time, whether extended, its slot
    bucket,         \* cq->cq_hash
    time,           \* cq->cq_time
    last_bucket,    \* cq->cq_last_bucket
    call,           \* cq->cq_call
    call_extended,  \* cq->cq_call_extended
    handle,         \* the event recorded in each slot
    stack           \* calls under way in the thread of the queue

cqvars == <<ev, bucket, time, last_bucket, call, call_extended, handle, stack>>

Event == 1..Events
Span == HashSize * Res
Upper == MaxPeriods * Period
EV_HASH(x) == (x \div Res) % HashSize
EV_OVER(x) == x >= Span

Top == stack[Len(stack)]
Below == SubSeq(stack, 1, Len(stack) - 1)
InClock == stack # <<>> /\ Top.kind = "clock"
InCall == stack # <<>> /\ Top.kind = "call"
LockFree == ~InClock
Clocks(s) == {i \in DOMAIN s : s[i].kind = "clock"}
Calls(s) == {i \in DOMAIN s : s[i].kind = "call"}
Linked == {e \in Event : ev[e].st = "linked"}

FreeEvent == [st |-> "free", time |-> 0, ext |-> FALSE, slot |-> Null]

----------------------------------------------------------------------------
(* Events in their buckets.                                                *)

\* Fault: appends without looking at the trigger times.
LinkAtTail(e, t, b) == [b EXCEPT ![EV_HASH(t)] = Append(@, e)]
\* ev_link(): before the first item that triggers after ours.
ev_link(e, t, b) ==
    LET h == EV_HASH(t)
        later == {i \in DOMAIN b[h] : ev[b[h][i]].time > t}
    IN  [b EXCEPT ![h] =
            InsertAt(@, Min(later \cup {Len(@) + 1}), e)]

\* ev_unlink()
ev_unlink(e, b) == [b EXCEPT ![EV_HASH(ev[e].time)] = RemoveFirst(@, e)]

\* The allocator hands out the first structure that is free.
Allocated == {e \in Event : ev[e].st = "free" /\ \A x \in 1..e - 1 : ev[x].st # "free"}

\* cq_insert(), cq_insert_internal()
Insert(e, d, ext, s) ==
    /\ ev' = [ev EXCEPT ![e] =
                [st |-> "linked", time |-> time + d, ext |-> ext, slot |-> s]]
    /\ bucket' = ev_link(e, time + d, bucket)

\* A user records an event in its slot; cq_insert() from the thread of the
\* queue makes regular events.
cq_insert(s) ==
    /\ LockFree /\ handle[s] = Null
    /\ \E e \in Allocated, d \in Delay :
          Insert(e, d, FALSE, s) /\ handle' = [handle EXCEPT ![s] = e]
    /\ UNCHANGED <<time, last_bucket, call, call_extended, stack>>

\* The event is not recorded; an extended one comes from a foreign thread.
InsertForgotten(ext) ==
    /\ LockFree
    /\ \E e \in Allocated, d \in Delay : Insert(e, d, ext, Null)
    /\ UNCHANGED <<time, last_bucket, call, call_extended, handle, stack>>

\* The event of the slot, when it has not triggered yet.
Pending(s) == handle[s] # Null /\ ev[handle[s]].st = "linked"

\* cq_cancel()
cq_cancel(s) ==
    /\ LockFree /\ Pending(s)
    /\ bucket' = ev_unlink(handle[s], bucket)
    /\ ev' = [ev EXCEPT ![handle[s]] = FreeEvent]
    /\ handle' = [handle EXCEPT ![s] = Null]
    /\ UNCHANGED <<time, last_bucket, call, call_extended, stack>>

\* cq_resched()
cq_resched(s) ==
    /\ LockFree /\ Pending(s)
    /\ \E d \in Delay :
          /\ bucket' = ev_link(handle[s], time + d, ev_unlink(handle[s], bucket))
          /\ ev' = [ev EXCEPT ![handle[s]].time = time + d]
    /\ UNCHANGED <<time, last_bucket, call, call_extended, handle, stack>>

----------------------------------------------------------------------------
(* Calling events out.                                                     *)

\* cq_expire_internal(), until the callback is invoked.  "by" tells who
\* expires the event; cq_expire() saves the current call in the frame.
CallOut(e, by) ==
    /\ bucket' = ev_unlink(e, bucket)
    /\ ev' = [ev EXCEPT ![e].st = "called", ![e].time = 0]
    /\ call' = e /\ call_extended' = ev[e].ext
    /\ stack' = Append(stack,
         [kind |-> "call", ev |-> e, by |-> by, acked |-> FALSE,
          saved_call |-> IF by = "expire" THEN call ELSE Null,
          saved_ext |-> by = "expire" /\ call_extended])

\* cq_expire()
cq_expire(s) ==
    /\ LockFree /\ Pending(s) /\ Len(stack) < MaxDepth
    /\ CallOut(handle[s], "expire")
    /\ UNCHANGED <<time, last_bucket, handle>>

Acked == [stack EXCEPT ![Len(stack)].acked = TRUE]

\* cq_zero() in the callback of an event recorded in a slot.
cq_zero ==
    /\ InCall /\ ~Top.acked /\ ev[Top.ev].slot # Null
    /\ handle' = [handle EXCEPT ![ev[Top.ev].slot] = Null]
    /\ call' = Null
    /\ stack' = Acked
    /\ UNCHANGED <<ev, bucket, time, last_bucket, call_extended>>

\* cq_event() in the callback of an event nobody recorded: it frees the
\* current call if it is extended.
cq_event ==
    /\ InCall /\ ~Top.acked /\ ev[Top.ev].slot = Null
    /\ call' = Null
    /\ ev' = IF call_extended THEN [ev EXCEPT ![call] = FreeEvent] ELSE ev
    /\ stack' = Acked
    /\ UNCHANGED <<bucket, time, last_bucket, call_extended, handle>>

\* Fault: only the event is restored, not whether it is extended.
RestoreCallOnly(f) ==
    IF f.by = "expire" THEN call' = f.saved_call /\ UNCHANGED call_extended
    ELSE UNCHANGED <<call, call_extended>>
\* What cq_expire() restores once the callback is over.
RestoreCall(f) ==
    IF f.by = "expire" THEN call' = f.saved_call /\ call_extended' = f.saved_ext
    ELSE UNCHANGED <<call, call_extended>>

\* The end of cq_expire_internal(), once the callback has returned: the
\* event is freed unless it was extended and acknowledged.
CallReturns ==
    /\ InCall
    /\ ~Top.acked => ev[Top.ev].slot = Null
    /\ ev' = IF ~call_extended \/ call # Null THEN [ev EXCEPT ![Top.ev] = FreeEvent] ELSE ev
    /\ RestoreCall(Top)
    /\ stack' = Below
    /\ UNCHANGED <<bucket, time, last_bucket, handle>>

----------------------------------------------------------------------------
(* The clock.                                                              *)

\* cq_heartbeat(): the measured delay, adjusted.
Adjusted(d) ==
    IF d < 0 \/ d > Upper THEN Min({Upper, Max({d, Period})}) ELSE d

\* Shifting times by whole spans changes neither hashes nor comparisons.
Shift == IF Clocks(stack) = {} THEN (time \div Span) * Span ELSE 0

\* The entry of cq_clock(): what it saves, and where the scan ends.
EnterClock(e) ==
    LET now == time + e - Shift
    IN  /\ time' = now
        /\ ev' = [x \in Event |->
                    IF ev[x].st = "linked" THEN [ev[x] EXCEPT !.time = @ - Shift] ELSE ev[x]]
        /\ stack' = Append(stack,
             [kind |-> "clock", now |-> now, over |-> EV_OVER(e), moved |-> FALSE,
              bucket |-> last_bucket,
              target |-> IF EV_OVER(e) THEN last_bucket ELSE EV_HASH(now),
              old_call |-> call, old_ext |-> call_extended, old_last |-> last_bucket])
        /\ UNCHANGED <<bucket, last_bucket, call, call_extended, handle>>

cq_heartbeat(d) == stack = <<>> /\ EnterClock(Adjusted(d))

\* cq_main_dispatch() from a callback, of cq_clock() or of cq_expire(), within
\* MaxDepth frames and NestMax units of time since the outermost cq_clock().
Outermost == Min(Clocks(stack))
Elapsed == IF Clocks(stack) = {} THEN 0 ELSE time - stack[Outermost].now
cq_main_dispatch(d) ==
    /\ InCall /\ Len(stack) < MaxDepth
    /\ Elapsed + Adjusted(d) <= NestMax
    /\ EnterClock(Adjusted(d))

\* The head of the bucket, when it is due.
Due == {e \in Linked : bucket[Top.bucket] # <<>> /\ e = Head(bucket[Top.bucket]) /\ ev[e].time <= Top.now}

ClockCalls ==
    /\ InClock
    /\ \E e \in Due : CallOut(e, "clock")
    /\ UNCHANGED <<time, last_bucket, handle>>

BucketAfter(b) == (b + 1) % HashSize

\* Fault: the last bucket is not scanned.
ScanEndedEarly(f) ==
    \/ ~f.moved /\ last_bucket = f.target /\ ~f.over
    \/ f.moved /\ BucketAfter(f.bucket) = f.target
\* The scan stops after the first bucket when it has not moved forward.
ScanEnded(f) ==
    \/ ~f.moved /\ last_bucket = f.target /\ ~f.over
    \/ f.moved /\ f.bucket = f.target

ClockMoves ==
    /\ InClock /\ Due = {} /\ ~ScanEnded(Top)
    /\ last_bucket' = IF Top.moved THEN last_bucket ELSE Top.target
    /\ stack' = [stack EXCEPT ![Len(stack)].moved = TRUE,
                              ![Len(stack)].bucket = BucketAfter(@)]
    /\ UNCHANGED <<ev, bucket, time, call, call_extended, handle>>

\* A nested cq_clock() restores cq_last_bucket.
LastAfter(f) == IF Clocks(Below) # {} THEN f.old_last ELSE last_bucket

ClockEnds ==
    /\ InClock /\ Due = {} /\ ScanEnded(Top)
    /\ stack' = Below
    /\ call' = Top.old_call /\ call_extended' = Top.old_ext
    /\ last_bucket' = LastAfter(Top)
    /\ UNCHANGED <<ev, bucket, time, handle>>

----------------------------------------------------------------------------
(* How long the thread of the queue may sleep.                             *)

Forever == 10 * Span        \* MAX_INT_VAL(int)

\* Fault: the search stops one bucket too early.
FarEnoughEarly(i, delay) == ~EV_OVER(delay) /\ i >= EV_HASH(delay)
\* No event comes sooner than the delay in the i-th bucket from the last one.
FarEnough(i, delay) == ~EV_OVER(delay) /\ i > EV_HASH(delay)

\* cq_delay(): the delay known once i buckets were looked at; the idle
\* tasks, which may shorten it, are left out.
cq_delay ==
    LET scan[i \in 0..HashSize] ==
            IF i = 0 THEN Forever
            ELSE LET b == bucket[(last_bucket + i - 1) % HashSize]
                     delay == scan[i - 1]
                 IN  IF FarEnough(i - 1, delay) \/ b = <<>> THEN delay
                     ELSE Min({delay, Max({0, ev[Head(b)].time - time})})
    IN  scan[HashSize]

----------------------------------------------------------------------------
\* cq_make() at time 0.
CqInit ==
    /\ ev = [e \in Event |-> FreeEvent]
    /\ bucket = [b \in 0..HashSize - 1 |-> <<>>]
    /\ time = 0 /\ last_bucket = 0
    /\ call = Null /\ call_extended = FALSE
    /\ handle = [s \in Slot |-> Null]
    /\ stack = <<>>

ClockStep == ClockCalls \/ ClockMoves \/ ClockEnds
CqNext ==
    \/ \E s \in Slot : cq_insert(s) \/ cq_cancel(s) \/ cq_resched(s) \/ cq_expire(s)
    \/ \E ext \in BOOLEAN : InsertForgotten(ext)
    \/ \E d \in -1..MaxElapsed : cq_heartbeat(d) \/ cq_main_dispatch(d)
    \/ cq_zero \/ cq_event \/ CallReturns
    \/ ClockStep

CqSpec == CqInit /\ [][CqNext]_cqvars

----------------------------------------------------------------------------
Frame ==
    [kind : {"clock"}, now : Int, over : BOOLEAN, moved : BOOLEAN,
     bucket : 0..HashSize - 1, target : 0..HashSize - 1,
     old_call : Event \cup {Null}, old_ext : BOOLEAN, old_last : 0..HashSize - 1]
    \cup
    [kind : {"call"}, ev : Event, by : {"clock", "expire"}, acked : BOOLEAN,
     saved_call : Event \cup {Null}, saved_ext : BOOLEAN]

\* The variables have their types: in particular the bucket that cq_clock()
\* scans is one of the hash list.
CqTypeOK ==
    /\ ev \in [Event -> [st : {"free", "linked", "called"}, time : Int,
                         ext : BOOLEAN, slot : Slot \cup {Null}]]
    /\ bucket \in [0..HashSize - 1 -> Seq(Event)]
    /\ time \in Int /\ last_bucket \in 0..HashSize - 1
    /\ call \in Event \cup {Null} /\ call_extended \in BOOLEAN
    /\ handle \in [Slot -> Event \cup {Null}]
    /\ stack \in Seq(Frame)

\* The events linked are each in one bucket only, once, the one their
\* trigger time hashes to, and each bucket is sorted by trigger time: what
\* ev_link() and ev_unlink() maintain, and the scan of cq_clock() relies on.
BucketsExact ==
    /\ \A e \in Event, b \in 0..HashSize - 1 :
          Cardinality({i \in DOMAIN bucket[b] : bucket[b][i] = e})
            = IF ev[e].st = "linked" /\ EV_HASH(ev[e].time) = b THEN 1 ELSE 0
    /\ \A b \in 0..HashSize - 1 : \A i, j \in DOMAIN bucket[b] :
          i < j => ev[bucket[b][i]].time <= ev[bucket[b][j]].time

\* A callback that has not acknowledged its event finds it as the current
\* call, with the proper kind, whatever it dispatched or expired before:
\* otherwise cq_zero() fails its assertion, "not called on current event",
\* or the wrong event is freed.
CallExact ==
    InCall /\ ~Top.acked => call = Top.ev /\ call_extended = ev[Top.ev].ext

\* An event called out stays allocated until its callback has returned, or
\* has acknowledged it when it is extended; a slot refers to an event of its
\* own that is linked or being called out; no event is left allocated that
\* nobody will free: no double free, no use after free, no leak.
EventsOwned ==
    /\ \A i \in Calls(stack) :
          ev[stack[i].ev].st = "called" \/ stack[i].acked
    /\ \A s \in Slot : handle[s] # Null =>
          /\ ev[handle[s]].slot = s
          /\ \/ ev[handle[s]].st = "linked"
             \/ \E i \in Calls(stack) : stack[i].ev = handle[s] /\ ~stack[i].acked
    /\ \A e \in Event : ev[e].st = "called" =>
          \E i \in Calls(stack) : stack[i].ev = e

\* Whatever callbacks insert, cancel, reschedule, expire or dispatch, events are
\* where the scan of cq_clock() looks for them, the current call is restored
\* when a nested one is over, and each event is freed once, by who owns it.
CqInv == CqTypeOK /\ BucketsExact /\ CallExact /\ EventsOwned

\* Once cq_clock() is over, no event whose time has passed is left in the
\* queue: the buckets it scanned held all those that are due.
NoneOverdue == stack = <<>> => \A e \in Linked : ev[e].time >= time

\* cq_delay() finds the event that comes first, although it stops at the
\* first bucket it can: a thread that sleeps so long misses no event.  This
\* needs the last bucket scanned to be that of the current time, which a
\* nested cq_clock() leaves untrue until the next heartbeat; the event queue
\* thread, the one user of cq_delay(), never nests.
DelayExact ==
    stack = <<>> /\ last_bucket = EV_HASH(time) =>
        cq_delay = Min({Forever} \cup {Max({0, ev[e].time - time}) : e \in Linked})

\* An outermost cq_clock() calls events out in the order of their trigger
\* time, although it goes by buckets, whatever its callbacks insert.
EarliestFirst ==
    [][\A e \in Event :
          /\ Len(stack) = 1 /\ InClock
          /\ ev[e].st = "linked" /\ ev'[e].st = "called"
          => \A x \in Linked : ev[x].time >= ev[e].time]_cqvars
=============================================================================
