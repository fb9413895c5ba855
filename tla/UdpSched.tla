------------------------------ MODULE UdpSched ------------------------------
(***************************************************************************)
(* The scheduler of UDP transmissions (src/core/udp_sched.c), shared by    *)
(* several TX stacks through their lowest layer (src/core/tx_dgram.c).     *)
(*                                                                         *)
(* A datagram that cannot be sent at once is queued in the LIFO of its     *)
(* priority, or refused when enough is queued already.  At the start of    *)
(* each bandwidth period, udp_sched_begin() expires, sends, releases and   *)
(* then services the stacks it refused.  It calls back its users: the free *)
(* routine of a datagram, which may send again, and the service routines.  *)
(* Hence it is modelled in steps, phase being the place where it stands;   *)
(* it is "idle" while the main loop runs something else.                   *)
(*                                                                         *)
(* What uses a stack (a message queue, or the semi-reliable layer) is      *)
(* modelled by backlog: once refused it keeps its datagrams, asks for the  *)
(* service of its stack and sends nothing until it is serviced.  Time is   *)
(* abstract: the oldest datagrams of a LIFO may have expired.              *)
(***************************************************************************)
EXTENDS Integers, FiniteSets, Sequences, SequencesExt

CONSTANTS
    Stack,      \* the TX stacks (txdrv_t of the datagram layer)
    Net,        \* address families that have a socket
    Dgram,      \* datagrams [tx, prio, to, net, size]
    Limit,      \* UDP_SCHED_FACTOR * bandwidth per second, in bytes
    SendMax     \* bound on the attempts of an owner to send a datagram

\* PMSG_P_HIGHEST, never refused, and the three others, which are refused alike.
Prio == {"data", "highest"}

ASSUME LimitAssumption ==
    Limit \in Nat \ {0} /\ SendMax \in Nat \ {0} /\ IsFiniteSet(Stack) /\ IsFiniteSet(Dgram)
ASSUME DgramAssumption ==
    \A d \in Dgram : d.tx \in Stack /\ d.prio \in Prio /\ d.size \in Nat \ {0} /\ d.net \in Net

VARIABLES
    lifo,               \* us->lifo, the head is the last one queued
    tx_released,        \* us->tx_released
    buffered,           \* us->buffered
    seen,               \* us->seen
    stacks,             \* us->stacks
    used_all,           \* us->used_all
    flow_controlled,    \* us->flow_controlled
    up,                 \* families that have a bio source
    service,            \* stacks whose attr->service is set (tx_dgram.c)
    fate,               \* where a datagram is, or how it ended
    attempts,           \* how many times its owner sent a datagram
    phase,              \* place in udp_sched_begin(), or "idle"
    todo                \* what the current iteration has left to visit

queues == <<lifo, tx_released, buffered>>
usvars == <<lifo, tx_released, buffered, seen, stacks, used_all, flow_controlled, up,
            service, fate, attempts, phase, todo>>

Members(f) == UNION {Range(f[p]) : p \in Prio}
Queued == Members(lifo)
TotalSize(S) == SumFunctionOnSet([d \in Dgram |-> d.size], S)

\* A user whose stack is to be serviced holds its datagrams back.
Waiting(tx) == tx \in service

\* UDP_SCHED_FACTOR * udp_sched_bw_per_second()
FlowLimit == IF up = {} THEN 0 ELSE Limit

----------------------------------------------------------------------------
(* Sending one datagram.                                                   *)

\* udp_sched_mb_sendto(): "sent", "dropped" (no socket, fatal error, no longer
\* needed), or "nobw" when there is no bandwidth left.
udp_sched_mb_sendto(d) ==
    IF d.net \in up THEN {"sent", "dropped", "nobw"} ELSE {"dropped"}

\* udp_sched_send(): the caller frees a datagram that was sent or dropped at
\* once; otherwise the datagram is refused, or queued.  A user that is
\* refused asks for service.
Refuse(d) ==
    /\ d.prio # "highest" /\ buffered >= FlowLimit
    /\ flow_controlled' = TRUE
    /\ service' = service \cup {d.tx}
    /\ fate' = [fate EXCEPT ![d] = "backlog"]
    /\ UNCHANGED <<lifo, buffered>>

Enqueue(d) ==
    /\ d.prio = "highest" \/ buffered < FlowLimit
    /\ lifo' = [lifo EXCEPT ![d.prio] = <<d>> \o @]
    /\ buffered' = buffered + d.size
    /\ fate' = [fate EXCEPT ![d] = "queued"]
    /\ UNCHANGED <<flow_controlled, service>>

udp_sched_send(d) ==
    \/ /\ ~used_all
       /\ \E r \in udp_sched_mb_sendto(d) \ {"nobw"} : fate' = [fate EXCEPT ![d] = r]
       /\ UNCHANGED <<lifo, buffered, used_all, flow_controlled, service>>
    \/ /\ used_all \/ "nobw" \in udp_sched_mb_sendto(d)
       /\ used_all' = TRUE
       /\ Refuse(d) \/ Enqueue(d)

----------------------------------------------------------------------------
(* The users, from the main loop.                                          *)

Attached(tx) == \E i \in DOMAIN stacks : stacks[i] = tx

\* tx_dgram_sendto(), unless the user holds back what it has.
tx_dgram_sendto(d) ==
    /\ Attached(d.tx) /\ attempts[d] < SendMax
    /\ attempts' = [attempts EXCEPT ![d] = @ + 1]
    /\ \/ ~Waiting(d.tx) /\ udp_sched_send(d)
       \/ /\ Waiting(d.tx) /\ fate' = [fate EXCEPT ![d] = "backlog"]
          /\ UNCHANGED <<lifo, buffered, used_all, flow_controlled, service>>

\* A new datagram, or one that was dropped.
Send(d) ==
    /\ phase = "idle"
    /\ fate[d] \in {"new", "dropped"}
    /\ tx_dgram_sendto(d)
    /\ UNCHANGED <<tx_released, seen, stacks, up, phase, todo>>

\* udp_sched_update_sockets(): sockets come and go.
udp_sched_update_sockets(nets) ==
    /\ phase = "idle" /\ up # nets
    /\ up' = nets
    /\ UNCHANGED <<queues, seen, stacks, used_all, flow_controlled, service, fate,
                   attempts, phase, todo>>

\* tx_dgram_destroy(): the queued datagrams stay, the backlog is dropped.
udp_sched_detach(tx) ==
    /\ phase = "idle" /\ Attached(tx)
    /\ stacks' = RemoveFirst(stacks, tx)
    /\ service' = service \ {tx}
    /\ fate' = [d \in Dgram |-> IF d.tx = tx /\ fate[d] = "backlog" THEN "dropped" ELSE fate[d]]
    /\ UNCHANGED <<queues, seen, used_all, flow_controlled, up, attempts, phase, todo>>

\* tx_dgram_init()
udp_sched_attach(tx) ==
    /\ phase = "idle" /\ ~Attached(tx)
    /\ stacks' = Append(stacks, tx)
    /\ UNCHANGED <<queues, seen, used_all, flow_controlled, up, service, fate, attempts,
                   phase, todo>>

\* udp_sched_free(), once all the stacks are gone.
udp_sched_free ==
    /\ phase = "idle" /\ stacks = <<>>
    /\ lifo' = [p \in Prio |-> <<>>]
    /\ buffered' = 0
    /\ fate' = [d \in Dgram |-> IF fate[d] = "queued" THEN "dropped" ELSE fate[d]]
    /\ phase' = "freed"
    /\ UNCHANGED <<tx_released, seen, stacks, used_all, flow_controlled, up, service,
                   attempts, todo>>

----------------------------------------------------------------------------
(* udp_sched_begin()                                                       *)

\* Faults: what leaves is not deducted from the buffered amount, or stays linked.
FlagUncounted(left) ==
    /\ lifo' = left
    /\ tx_released' = tx_released \o SetToSeq(Queued \ Members(left))
    /\ UNCHANGED buffered
FlagKept(left) ==
    /\ buffered' = buffered - TotalSize(Queued \ Members(left))
    /\ tx_released' = tx_released \o SetToSeq(Queued \ Members(left))
    /\ UNCHANGED lifo

\* udp_tx_desc_flag_release(): what is not left in the LIFOs is to be released.
FlagReleased(left) ==
    /\ lifo' = left
    /\ buffered' = buffered - TotalSize(Queued \ Members(left))
    /\ tx_released' = tx_released \o SetToSeq(Queued \ Members(left))

\* A pass of the loop visits the LIFOs from the highest priority down.
StartPass(f) ==
    /\ phase' = "process"
    /\ seen' = {}
    /\ todo' = f["highest"] \o f["data"]

\* udp_tx_desc_expired(): the oldest datagrams are at the end of the LIFOs.
Begin ==
    /\ phase = "idle" /\ up # {}
    /\ \E keep \in [Prio -> 0 .. Cardinality(Dgram)] :
        LET left == [p \in Prio |-> SubSeq(lifo[p], 1, keep[p])]
        IN  /\ \A p \in Prio : keep[p] <= Len(lifo[p])
            /\ FlagReleased(left)
            /\ fate' = [d \in Dgram |-> IF d \in Queued \ Members(left) THEN "unsent" ELSE fate[d]]
    /\ used_all' = FALSE
    /\ StartPass(lifo')
    /\ UNCHANGED <<stacks, flow_controlled, up, service, attempts>>

\* udp_tx_desc_send() on the next datagram.
SkipOne ==
    /\ phase = "process" /\ todo # <<>>
    /\ Head(todo).prio = "data" /\ Head(todo).to \in seen
    /\ todo' = Tail(todo)
    /\ UNCHANGED <<queues, seen, stacks, used_all, flow_controlled, up, service, fate,
                   attempts, phase>>

ProcessOne(r) ==
    LET d == Head(todo)
    IN  /\ phase = "process" /\ todo # <<>>
        /\ ~(d.prio = "data" /\ d.to \in seen)
        /\ r \in udp_sched_mb_sendto(d) \ {"nobw"}
        /\ FlagReleased([lifo EXCEPT ![d.prio] = RemoveFirst(@, d)])
        /\ fate' = [fate EXCEPT ![d] = IF r = "sent" THEN "flagged" ELSE "unsent"]
        /\ seen' = IF d.prio = "data" /\ r = "sent" THEN seen \cup {d.to} ELSE seen
        /\ todo' = Tail(todo)
        /\ UNCHANGED <<stacks, used_all, flow_controlled, up, service, attempts, phase>>

\* No bandwidth: nothing more is sent in this period.
ProcessNone ==
    LET d == Head(todo)
    IN  /\ phase = "process" /\ todo # <<>>
        /\ ~(d.prio = "data" /\ d.to \in seen)
        /\ "nobw" \in udp_sched_mb_sendto(d)
        /\ used_all' = TRUE
        /\ todo' = <<>>
        /\ UNCHANGED <<queues, seen, stacks, flow_controlled, up, service, fate, attempts, phase>>

EndPass ==
    /\ phase = "process" /\ todo = <<>>
    /\ phase' = "release"
    /\ UNCHANGED <<queues, seen, stacks, used_all, flow_controlled, up, service, fate,
                   attempts, todo>>

\* udp_sched_tx_release(): the free routine runs, and the owner of a datagram
\* that was not sent may send it again from there.
ReleaseOne ==
    LET d   == Head(tx_released)
        end == IF fate[d] = "flagged" THEN "sent" ELSE "dropped"
    IN  /\ phase = "release" /\ tx_released # <<>>
        /\ tx_released' = Tail(tx_released)
        /\ \/ /\ fate' = [fate EXCEPT ![d] = end]
              /\ UNCHANGED <<lifo, buffered, used_all, flow_controlled, service, attempts>>
           \/ end = "dropped" /\ tx_dgram_sendto(d)
        /\ UNCHANGED <<seen, stacks, up, phase, todo>>

\* The loop goes on while there are bandwidth and data.
AnotherPass ==
    /\ phase = "release" /\ tx_released = <<>>
    /\ ~used_all /\ buffered # 0
    /\ StartPass(lifo)
    /\ UNCHANGED <<queues, stacks, used_all, flow_controlled, up, service, fate, attempts>>

\* udp_sched_service(): the order of service rotates.
StartService ==
    /\ phase = "release" /\ tx_released = <<>>
    /\ ~used_all /\ buffered = 0 /\ flow_controlled
    /\ flow_controlled' = FALSE
    /\ stacks' = IF stacks = <<>> THEN <<>> ELSE Tail(stacks) \o <<Head(stacks)>>
    /\ phase' = "service"
    /\ todo' = stacks'
    /\ UNCHANGED <<queues, seen, used_all, up, service, fate, attempts>>

Back(tx) == {d \in Dgram : d.tx = tx /\ fate[d] = "backlog"}

\* is_writable(): the user sends its backlog...
ServiceOne ==
    /\ phase = "service" /\ todo # <<>> /\ Waiting(Head(todo))
    /\ \E d \in Back(Head(todo)) : udp_sched_send(d)
    /\ todo' = IF fate' = fate THEN Tail(todo) ELSE todo
    /\ UNCHANGED <<tx_released, seen, stacks, up, attempts, phase>>

\* ... until it is refused or has nothing left, and then wants no service.
ServiceDone ==
    /\ phase = "service" /\ todo # <<>>
    /\ Waiting(Head(todo)) => Back(Head(todo)) = {}
    /\ service' = service \ {Head(todo)}
    /\ todo' = Tail(todo)
    /\ UNCHANGED <<queues, seen, stacks, used_all, flow_controlled, up, fate, attempts, phase>>

\* Fault: the indication is cleared after the stacks were serviced.
FinishClears ==
    /\ \/ /\ phase = "release" /\ tx_released = <<>>
          /\ used_all \/ (buffered = 0 /\ ~flow_controlled)
       \/ phase = "service" /\ todo = <<>>
    /\ phase' = "idle"
    /\ flow_controlled' = (phase = "release" /\ flow_controlled)
    /\ UNCHANGED <<queues, seen, stacks, used_all, up, service, fate, attempts, todo>>

Finish ==
    /\ \/ /\ phase = "release" /\ tx_released = <<>>
          /\ used_all \/ (buffered = 0 /\ ~flow_controlled)
       \/ phase = "service" /\ todo = <<>>
    /\ phase' = "idle"
    /\ UNCHANGED <<queues, seen, stacks, used_all, flow_controlled, up, service, fate,
                   attempts, todo>>

----------------------------------------------------------------------------
\* udp_sched_make()
UInit ==
    /\ lifo = [p \in Prio |-> <<>>]
    /\ tx_released = <<>> /\ buffered = 0 /\ seen = {} /\ todo = <<>>
    /\ stacks = SetToSeq(Stack)
    /\ used_all = FALSE /\ flow_controlled = FALSE
    /\ up = Net /\ service = {}
    /\ fate = [d \in Dgram |-> "new"]
    /\ attempts = [d \in Dgram |-> 0]
    /\ phase = "idle"

UserStep ==
    \/ \E d \in Dgram : Send(d)
    \/ \E nets \in SUBSET Net : udp_sched_update_sockets(nets)
    \/ \E tx \in Stack : udp_sched_detach(tx) \/ udp_sched_attach(tx)
    \/ udp_sched_free

BeginStep ==
    \/ SkipOne \/ ProcessNone \/ EndPass
    \/ \E r \in {"sent", "dropped"} : ProcessOne(r)
    \/ ReleaseOne \/ AnotherPass
    \/ StartService \/ ServiceOne \/ ServiceDone \/ Finish

UNext == UserStep \/ Begin \/ BeginStep

USpec == UInit /\ [][UNext]_usvars

\* udp_sched_begin() runs to its end, and is run at each period provided there is
\* a socket; sockets come back, for at least a period, and bandwidth too: a
\* datagram that is tried again and again does not lack it for ever.
FairUSpec ==
    /\ USpec
    /\ WF_usvars(BeginStep) /\ SF_usvars(Begin)
    /\ WF_usvars(up = {} /\ \E nets \in SUBSET Net : udp_sched_update_sockets(nets))
    /\ SF_usvars(\E r \in {"sent", "dropped"} : ProcessOne(r))
    /\ \A d \in Dgram : SF_usvars(ServiceOne /\ fate[d] # fate'[d] /\ fate'[d] \in {"sent", "dropped"})

----------------------------------------------------------------------------
(* Properties.                                                             *)

\* The state has the types of struct udp_sched.
UTypeOK ==
    /\ lifo \in [Prio -> Seq(Dgram)] /\ tx_released \in Seq(Dgram)
    /\ buffered \in Nat /\ seen \subseteq {d.to : d \in Dgram}
    /\ up \subseteq Net /\ service \subseteq Stack
    /\ {used_all, flow_controlled} \subseteq BOOLEAN
    /\ fate \in [Dgram -> {"new", "backlog", "queued", "flagged", "unsent", "sent", "dropped"}]
    /\ phase \in {"idle", "process", "release", "service", "freed"}

\* us->buffered is the size of what the LIFOs hold, through expiration,
\* sending, dropping and re-queuing from free routines: the loop of
\* udp_sched_begin() ends on that count, and so does flow control.
BufferedExact == buffered = TotalSize(Queued)

\* A datagram taken in by udp_sched_send() is in one LIFO, that of its
\* priority, or among those to release, and only once: its free routine is
\* run once.
HeldOnce ==
    /\ \A p \in Prio : \A i \in DOMAIN lifo[p] : lifo[p][i].prio = p
    /\ \A d \in Dgram : fate[d] = "queued" <=> d \in Queued
    /\ \A d \in Dgram : fate[d] \in {"flagged", "unsent"} <=> d \in Range(tx_released)
    /\ \A p \in Prio : IsInjective(lifo[p])
    /\ IsInjective(tx_released)

\* A stack that was refused is not forgotten: as long as it holds datagrams
\* back, the scheduler knows that it flow-controlled someone, or is on its way
\* to service that stack.
RefusedRemembered ==
    \A tx \in Stack : Attached(tx) /\ Back(tx) # {} =>
        /\ Waiting(tx)
        /\ flow_controlled \/ (phase = "service" /\ tx \in Range(todo))

\* However many stacks share the scheduler, what was queued before a datagram
\* that is not of highest priority is below the limit, so that the limit is
\* exceeded by the last one at most.
QueueBounded ==
    lifo["data"] # <<>> => TotalSize(Range(Tail(lifo["data"]))) < Limit

\* What the scheduler holds: each datagram in one place and counted in
\* us->buffered, no more than the limit allows, through re-queuing from free
\* routines, expiration, stacks that leave and sockets that go.
SchedInv == UTypeOK /\ BufferedExact /\ HeldOnce /\ QueueBounded

\* udp_sched_begin() ends, whatever free routines and service routines send.
BeginEnds == phase \notin {"idle", "freed"} ~> phase = "idle"

\* What a refused stack holds back does not stay there for ever.
BacklogServed == \A d \in Dgram : fate[d] = "backlog" ~> fate[d] # "backlog"
=============================================================================
