---------------------------- MODULE TxStackProofs ----------------------------
(***************************************************************************)
(* Proofs about the two layers that the queues send through.               *)
(*                                                                         *)
(* The scheduler of UDP (UdpSched): what it holds is counted exactly, and  *)
(* the stacks that it refused are remembered, for any stacks, datagrams    *)
(* and limit.                                                              *)
(*                                                                         *)
(* The compressing layer of TCP (TxDeflate): the stream it sends is the    *)
(* one that was written, it is never asked to compress into a full buffer, *)
(* what waits will be serviced, and it is closed once everything was sent, *)
(* for any sizes of buffers, writes and streams.                           *)
(*                                                                         *)
(* The layers share nothing: each part is about one of them.               *)
(***************************************************************************)
EXTENDS UdpSched, TxDeflate, CollectionLemmas, TLAPS

----------------------------------------------------------------------------
(***************************************************************************)
(* The scheduler of UDP.                                                   *)
(***************************************************************************)

Fates == {"new", "backlog", "queued", "flagged", "unsent", "sent", "dropped"}

\* The datagrams that the scheduler holds.
HeldOK ==
    /\ lifo \in [Prio -> Seq(Dgram)] /\ tx_released \in Seq(Dgram)
    /\ buffered \in Nat /\ fate \in [Dgram -> Fates]
    /\ BufferedExact /\ HeldOnce /\ QueueBounded

\* What an iteration has left to visit: datagrams that are still queued, or
\* stacks that are attached.
TodoOK ==
    /\ phase = "process" => todo \in Seq(Dgram) /\ IsInjective(todo) /\ Range(todo) \subseteq Queued
    /\ phase = "service" => todo \in Seq(Stack) /\ Range(todo) \subseteq Range(stacks)

\* A stack that asked for service is attached, and will be serviced.
WaitingKnown ==
    \A tx \in service :
        /\ tx \in Range(stacks)
        /\ flow_controlled \/ (phase = "service" /\ tx \in Range(todo))

\* Who holds datagrams back has asked for service.
BacklogWaits == \A g \in Dgram : fate[g] = "backlog" => g.tx \in service

\* The stacks, and what they are promised.
StacksOK ==
    /\ seen \subseteq {g.to : g \in Dgram} /\ up \subseteq Net /\ service \subseteq Stack
    /\ used_all \in BOOLEAN /\ flow_controlled \in BOOLEAN
    /\ phase \in {"idle", "process", "release", "service", "freed"}
    /\ stacks \in Seq(Stack) /\ IsInjective(stacks)
    /\ WaitingKnown /\ BacklogWaits

\* The inductive invariant.
SchedIInv == HeldOK /\ StacksOK /\ TodoOK

----------------------------------------------------------------------------
(* Sizes.                                                                  *)

\* The size of what is in a set of datagrams.
LEMMA SizeOf ==
    ASSUME NEW S \in SUBSET Dgram
    PROVE  /\ TotalSize(S) \in Nat
           /\ S = {} => TotalSize(S) = 0
           /\ \A T \in SUBSET S : /\ TotalSize(T) \in Nat /\ TotalSize(T) <= TotalSize(S)
                                  /\ TotalSize(S \ T) = TotalSize(S) - TotalSize(T)
           /\ \A g \in Dgram \ S : TotalSize(S \cup {g}) = TotalSize(S) + g.size
<1> DEFINE f == [g \in Dgram |-> g.size]
<1>1. f \in [Dgram -> Nat] /\ \A g \in Dgram : f[g] = g.size /\ f[g] \in Nat
  BY DgramAssumption
<1>2. \A T \in SUBSET Dgram : IsFiniteSet(T)
  BY FS_Subset, LimitAssumption
<1>3. \A T : TotalSize(T) = SumFunctionOnSet(f, T)
  BY DEF TotalSize
<1> HIDE DEF f
<1>4. \A T \in SUBSET Dgram : TotalSize(T) \in Nat /\ (T = {} => TotalSize(T) = 0)
  BY <1>1, <1>2, <1>3, SumUnfold
<1>5. ASSUME NEW T \in SUBSET S
      PROVE  TotalSize(T) <= TotalSize(S) /\ TotalSize(S \ T) = TotalSize(S) - TotalSize(T)
  BY <1>1, <1>2, <1>3, SumPart
<1>6. ASSUME NEW g \in Dgram \ S PROVE TotalSize(S \cup {g}) = TotalSize(S) + g.size
  <2>1. S \cup {g} \in SUBSET Dgram /\ g \in S \cup {g} /\ (S \cup {g}) \ {g} = S
    OBVIOUS
  <2>2. TotalSize(S \cup {g}) = f[g] + TotalSize(S)
    BY <1>1, <1>2, <1>3, <2>1, SumRemove
  <2> QED BY <1>1, <1>4, <2>2
<1>7. \A T \in SUBSET S : T \in SUBSET Dgram
  OBVIOUS
<1> QED BY <1>4, <1>5, <1>6, <1>7

\* The datagrams that are queued, by priority.
LEMMA QueuedSplit ==
    /\ \A f : Members(f) = Range(f["data"]) \cup Range(f["highest"])
    /\ HeldOK => /\ Queued \subseteq Dgram /\ Range(lifo["data"]) \cap Range(lifo["highest"]) = {}
                 /\ \A p \in Prio : lifo[p] \in Seq(Dgram) /\ Range(lifo[p]) \subseteq Queued
                 /\ \A p \in Prio : \A g \in Range(lifo[p]) : g.prio = p
<1>1. \A f : Members(f) = Range(f["data"]) \cup Range(f["highest"])
  BY DEF Members, Prio
<1>2. ASSUME HeldOK
      PROVE  /\ Queued \subseteq Dgram /\ Range(lifo["data"]) \cap Range(lifo["highest"]) = {}
             /\ \A p \in Prio : lifo[p] \in Seq(Dgram) /\ Range(lifo[p]) \subseteq Queued
             /\ \A p \in Prio : \A g \in Range(lifo[p]) : g.prio = p
  <2>1. \A p \in Prio : lifo[p] \in Seq(Dgram)
    BY <1>2 DEF HeldOK
  <2>2. \A p \in Prio : Range(lifo[p]) \subseteq Dgram
    BY <2>1, RangeFinite
  <2>3. \A p \in Prio : \A g \in Range(lifo[p]) : g.prio = p
    BY <1>2 DEF HeldOK, HeldOnce, Range
  <2>4. Range(lifo["data"]) \cap Range(lifo["highest"]) = {}
    BY <2>3 DEF Prio
  <2> QED BY <2>1, <2>2, <2>3, <2>4 DEF Queued, Members
<1> QED BY <1>1, <1>2

----------------------------------------------------------------------------
(* What the scheduler holds.                                               *)

\* udp_tx_desc_flag_release() on the datagrams that are not left in the LIFOs.
LEMMA FlagHeld ==
    ASSUME HeldOK, NEW left \in [Prio -> Seq(Dgram)], FlagReleased(left),
           \A p \in Prio : IsInjective(left[p]) /\ Range(left[p]) \subseteq Range(lifo[p]),
           left["data"] # <<>> => /\ lifo["data"] # <<>>
                                  /\ Range(Tail(left["data"])) \subseteq Range(Tail(lifo["data"])),
           fate' \in [Dgram -> Fates],
           \A g \in Dgram : IF g \in Queued \ Members(left) THEN fate'[g] \in {"flagged", "unsent"}
                            ELSE fate'[g] = fate[g]
    PROVE  HeldOK' /\ Queued' = Members(left)
<1> DEFINE gone == Queued \ Members(left)
           t == SetToSeq(gone)
<1>1. /\ lifo' = left /\ buffered' = buffered - TotalSize(gone) /\ tx_released' = tx_released \o t
  BY DEF FlagReleased
<1>2. /\ Queued \subseteq Dgram /\ gone \subseteq Dgram /\ gone \subseteq Queued
      /\ Members(left) \subseteq Queued /\ Queued \ gone = Members(left)
  BY QueuedSplit DEF Queued, Prio
<1>3. t \in Seq(gone) /\ IsInjective(t) /\ Range(t) = gone
  <2>1. IsFiniteSet(gone)
    BY <1>2, FS_Subset, LimitAssumption
  <2> HIDE DEF gone
  <2> QED BY <2>1, SetToSeqRange
<1>4. t \in Seq(Dgram)
  <2> HIDE DEF gone, t
  <2> QED BY <1>2, <1>3
<1>5. Queued' = Members(left)
  BY <1>1 DEF Queued, Members
<1>6. Range(tx_released) \cap gone = {}
  BY <1>2 DEF HeldOK, HeldOnce
<1>7. /\ tx_released' \in Seq(Dgram) /\ Range(tx_released') = Range(tx_released) \cup gone
      /\ IsInjective(tx_released')
  <2> HIDE DEF gone, t
  <2>1. tx_released \in Seq(Dgram) /\ IsInjective(tx_released)
    BY DEF HeldOK, HeldOnce
  <2>2. /\ tx_released \o t \in Seq(Dgram) /\ Range(tx_released \o t) = Range(tx_released) \cup Range(t)
        /\ IsInjective(tx_released \o t)
    BY <1>3, <1>4, <1>6, <2>1, ConcatRange
  <2> QED BY <1>1, <1>3, <2>2
<1> HIDE DEF gone, t
<1>8. buffered' \in Nat /\ buffered' = TotalSize(Members(left))
  <2>1. buffered = TotalSize(Queued)
    BY DEF HeldOK, BufferedExact
  <2>2. /\ TotalSize(Queued) \in Nat /\ TotalSize(gone) \in Nat /\ TotalSize(gone) <= TotalSize(Queued)
        /\ TotalSize(Queued \ gone) = TotalSize(Queued) - TotalSize(gone)
    BY <1>2, SizeOf
  <2>3. \A a, b \in Nat : b <= a => a - b \in Nat
    OBVIOUS
  <2>4. buffered' = TotalSize(Queued) - TotalSize(gone)
    BY <1>1, <2>1
  <2>5. buffered' \in Nat
    BY <2>2, <2>3, <2>4
  <2> QED BY <1>2, <2>2, <2>4, <2>5
<1>9. BufferedExact'
  BY <1>5, <1>8 DEF BufferedExact, TotalSize
<1>10. HeldOnce'
  <2>1. ASSUME NEW p \in Prio, NEW i \in DOMAIN left[p] PROVE left[p][i].prio = p
    <3>1. left[p][i] \in Range(left[p])
      BY DEF Range
    <3> QED BY <3>1, QueuedSplit
  <2>2. \A g \in Dgram : fate'[g] = "queued" <=> g \in Queued'
    BY <1>2, <1>5 DEF gone, HeldOK, HeldOnce
  <2>3. \A g \in Dgram : fate'[g] \in {"flagged", "unsent"} <=> g \in Range(tx_released')
    BY <1>2, <1>7 DEF gone, HeldOK, HeldOnce
  <2> QED BY <1>1, <1>7, <2>1, <2>2, <2>3 DEF HeldOnce
<1>11. QueueBounded'
  <2>1. SUFFICES ASSUME left["data"] # <<>> PROVE TotalSize(Range(Tail(left["data"]))) < Limit
    BY <1>1 DEF QueueBounded, TotalSize
  <2>2. lifo["data"] # <<>> /\ Range(Tail(left["data"])) \subseteq Range(Tail(lifo["data"]))
    BY <2>1
  <2>3. TotalSize(Range(Tail(lifo["data"]))) < Limit
    BY <2>2 DEF HeldOK, QueueBounded
  <2>4. "data" \in Prio /\ lifo["data"] \in Seq(Dgram)
    BY DEF Prio, HeldOK
  <2>5. Range(Tail(lifo["data"])) \subseteq Dgram
    BY <2>2, <2>4, TailRange, RangeFinite
  <2>6. /\ TotalSize(Range(Tail(left["data"]))) <= TotalSize(Range(Tail(lifo["data"])))
        /\ TotalSize(Range(Tail(left["data"]))) \in Nat /\ TotalSize(Range(Tail(lifo["data"]))) \in Nat
    BY <2>2, <2>5, SizeOf
  <2> QED BY <2>3, <2>6, LimitAssumption
<1> QED BY <1>1, <1>5, <1>7, <1>8, <1>9, <1>10, <1>11 DEF HeldOK

\* udp_sched_send() on a datagram that is not held, or no longer: it is queued,
\* or left to its owner.
LEMMA SendHeld ==
    ASSUME HeldOK, NEW g \in Dgram, g \notin Queued,
           tx_released' \in Seq(Dgram), IsInjective(tx_released'),
           Range(tx_released') = Range(tx_released) \ {g},
           \/ udp_sched_send(g)
           \/ fate' = [fate EXCEPT ![g] = "backlog"] /\ UNCHANGED <<lifo, buffered>>
           \/ fate' = [fate EXCEPT ![g] = "sent"] /\ UNCHANGED <<lifo, buffered>>
           \/ fate' = [fate EXCEPT ![g] = "dropped"] /\ UNCHANGED <<lifo, buffered>>
    PROVE  HeldOK'
<1>1. fate \in [Dgram -> Fates]
  BY DEF HeldOK
<1>2. CASE \E r \in {"sent", "dropped", "backlog"} :
              fate' = [fate EXCEPT ![g] = r] /\ UNCHANGED <<lifo, buffered>>
  <2>1. PICK r \in {"sent", "dropped", "backlog"} : fate' = [fate EXCEPT ![g] = r]
    BY <1>2
  <2>2. lifo' = lifo /\ buffered' = buffered /\ Queued' = Queued
    BY <1>2 DEF Queued, Members
  <2>3. fate' \in [Dgram -> Fates] /\ fate'[g] = r /\ \A e \in Dgram \ {g} : fate'[e] = fate[e]
    BY <1>1, <2>1 DEF Fates
  <2>4. HeldOnce'
    <3>1. \A e \in Dgram : fate'[e] = "queued" <=> e \in Queued'
      BY <2>2, <2>3 DEF HeldOK, HeldOnce
    <3>2. \A e \in Dgram : fate'[e] \in {"flagged", "unsent"} <=> e \in Range(tx_released')
      BY <2>3 DEF HeldOK, HeldOnce
    <3> QED BY <2>2, <3>1, <3>2 DEF HeldOK, HeldOnce
  <2> QED BY <2>2, <2>3, <2>4 DEF HeldOK, BufferedExact, QueueBounded, TotalSize
<1>3. CASE Enqueue(g)
  <2> DEFINE q == g.prio
             s == <<g>> \o lifo[q]
  <2>1. /\ q \in Prio /\ g.size \in Nat /\ lifo' = [lifo EXCEPT ![q] = s] /\ lifo'[q] = s
        /\ buffered' = buffered + g.size /\ fate' = [fate EXCEPT ![g] = "queued"]
        /\ \A p \in Prio \ {q} : lifo'[p] = lifo[p]
    BY <1>3, DgramAssumption DEF Enqueue, HeldOK
  <2>2. /\ lifo[q] \in Seq(Dgram) /\ IsInjective(lifo[q]) /\ g \notin Range(lifo[q])
    BY <2>1, QueuedSplit DEF HeldOK, HeldOnce
  <2>3. /\ s \in Seq(Dgram) /\ Range(s) = Range(lifo[q]) \cup {g} /\ IsInjective(s)
        /\ s # <<>> /\ Tail(s) = lifo[q]
    <3>1. /\ <<g>> \in Seq(Dgram) /\ IsInjective(<<g>>) /\ Range(<<g>>) = {g}
      BY DEF IsInjective, Range
    <3>2. /\ s \in Seq(Dgram) /\ Range(s) = Range(<<g>>) \cup Range(lifo[q]) /\ IsInjective(s)
      <4>1. Range(<<g>>) \cap Range(lifo[q]) = {}
        BY <2>2, <3>1
      <4>2. PICK a \in Seq(Dgram), b \in Seq(Dgram) : a = <<g>> /\ b = lifo[q]
        BY <2>2, <3>1
      <4>3. IsInjective(a) /\ IsInjective(b) /\ Range(a) \cap Range(b) = {}
        BY <2>2, <3>1, <4>1, <4>2
      <4>4. a \o b \in Seq(Dgram) /\ Range(a \o b) = Range(a) \cup Range(b) /\ IsInjective(a \o b)
        BY <4>3, ConcatRange
      <4> QED BY <4>2, <4>4, Zenon
    <3>3. s # <<>> /\ Tail(s) = lifo[q]
      BY <2>2
    <3> QED BY <3>1, <3>2, <3>3
  <2> HIDE DEF s, q
  <2>4. Queued' = Queued \cup {g} /\ Queued \subseteq Dgram
    <3>1. Queued \subseteq Dgram
      BY QueuedSplit
    <3> QED BY <2>1, <2>3, <3>1 DEF Queued, Members
  <2>5. lifo' \in [Prio -> Seq(Dgram)]
    BY <2>1, <2>3 DEF HeldOK
  <2>6. fate' \in [Dgram -> Fates] /\ fate'[g] = "queued" /\ \A e \in Dgram \ {g} : fate'[e] = fate[e]
    BY <1>1, <2>1 DEF Fates
  <2>7. buffered' \in Nat /\ BufferedExact'
    <3>1. buffered \in Nat /\ buffered = TotalSize(Queued)
      BY DEF HeldOK, BufferedExact
    <3>2. TotalSize(Queued \cup {g}) = TotalSize(Queued) + g.size
      BY <2>4, SizeOf
    <3> QED BY <2>1, <2>4, <3>1, <3>2 DEF BufferedExact, TotalSize
  <2>8. HeldOnce'
    <3>1. \A e \in Dgram : fate'[e] = "queued" <=> e \in Queued'
      BY <2>4, <2>6 DEF HeldOK, HeldOnce
    <3>2. \A e \in Dgram : fate'[e] \in {"flagged", "unsent"} <=> e \in Range(tx_released')
      BY <2>6 DEF HeldOK, HeldOnce
    <3>3. ASSUME NEW p \in Prio, NEW i \in DOMAIN lifo'[p] PROVE lifo'[p][i].prio = p
      <4>1. lifo'[p][i] \in Range(lifo'[p])
        BY DEF Range
      <4>2. CASE p = q
        BY <2>1, <2>3, <4>1, <4>2, QueuedSplit DEF q
      <4>3. CASE p # q
        BY <2>1, <4>1, <4>3, QueuedSplit
      <4> QED BY <4>2, <4>3
    <3>4. \A p \in Prio : IsInjective(lifo'[p])
      BY <2>1, <2>3 DEF HeldOK, HeldOnce
    <3> QED BY <3>1, <3>2, <3>3, <3>4 DEF HeldOnce
  <2>9. QueueBounded'
    <3>1. CASE q = "data"
      <4>1. buffered < Limit /\ buffered = TotalSize(Queued)
        BY <1>3, <3>1, LimitAssumption DEF Enqueue, q, FlowLimit, HeldOK, BufferedExact
      <4>2. Range(lifo[q]) \subseteq Queued
        BY <2>1, QueuedSplit
      <4>3. /\ TotalSize(Range(lifo[q])) <= TotalSize(Queued) /\ TotalSize(Range(lifo[q])) \in Nat
            /\ TotalSize(Queued) \in Nat
        BY <2>4, <4>2, SizeOf
      <4>4. TotalSize(Range(lifo[q])) < Limit
        BY <4>1, <4>3, LimitAssumption
      <4> QED BY <2>1, <2>3, <3>1, <4>4 DEF QueueBounded, TotalSize
    <3>2. CASE q # "data"
      <4>1. lifo'["data"] = lifo["data"]
        BY <2>1, <3>2 DEF Prio
      <4> QED BY <4>1 DEF QueueBounded, TotalSize, HeldOK
    <3> QED BY <3>1, <3>2
  <2> QED BY <2>5, <2>6, <2>7, <2>8, <2>9 DEF HeldOK
<1>4. CASE udp_sched_send(g)
  <2>1. ASSUME NEW r \in udp_sched_mb_sendto(g) \ {"nobw"} PROVE r \in {"sent", "dropped"}
    BY DEF udp_sched_mb_sendto
  <2> QED BY <1>2, <1>3, <1>4, <2>1 DEF udp_sched_send, Refuse
<1> QED BY <1>2, <1>4

----------------------------------------------------------------------------
(* What the stacks are promised.                                           *)

\* Attached() by the elements of us->stacks.
LEMMA AttachedRange ==
    ASSUME NEW tx
    PROVE  Attached(tx) <=> tx \in Range(stacks)
BY DEF Attached, Range

\* udp_sched_send() and the stack of the datagram.
LEMMA SendEffect ==
    ASSUME NEW g \in Dgram, udp_sched_send(g), used_all \in BOOLEAN, fate \in [Dgram -> Fates]
    PROVE  /\ used_all' \in BOOLEAN
           /\ \A e \in Dgram \ {g} : fate'[e] = fate[e]
           /\ \/ /\ fate'[g] \in {"sent", "dropped", "queued"}
                 /\ service' = service /\ flow_controlled' = flow_controlled
              \/ /\ fate'[g] = "backlog" /\ fate' = [fate EXCEPT ![g] = "backlog"]
                 /\ service' = service \cup {g.tx} /\ flow_controlled' = TRUE
<1>1. CASE /\ \E r \in udp_sched_mb_sendto(g) \ {"nobw"} : fate' = [fate EXCEPT ![g] = r]
           /\ UNCHANGED <<lifo, buffered, used_all, flow_controlled, service>>
  <2>1. PICK r \in {"sent", "dropped"} : fate' = [fate EXCEPT ![g] = r]
    BY <1>1 DEF udp_sched_mb_sendto
  <2> QED BY <1>1, <2>1
<1>2. CASE used_all' = TRUE /\ Refuse(g)
  BY <1>2 DEF Refuse
<1>3. CASE used_all' = TRUE /\ Enqueue(g)
  BY <1>3 DEF Enqueue
<1> QED BY <1>1, <1>2, <1>3 DEF udp_sched_send

\* A datagram sent on an attached stack, outside the iterations: refused, it
\* makes the scheduler remember the stack.
LEMMA SendStacks ==
    ASSUME SchedIInv, NEW g \in Dgram, g.tx \in Range(stacks),
           \/ udp_sched_send(g)
           \/ /\ Waiting(g.tx) /\ fate' = [fate EXCEPT ![g] = "backlog"]
              /\ UNCHANGED <<used_all, flow_controlled, service>>
           \/ /\ fate' \in {[fate EXCEPT ![g] = "sent"], [fate EXCEPT ![g] = "dropped"]}
              /\ UNCHANGED <<used_all, flow_controlled, service>>,
           UNCHANGED <<seen, stacks, up, phase, todo>>, phase \notin {"process", "service"}
    PROVE  StacksOK' /\ TodoOK'
<1>1. /\ fate \in [Dgram -> Fates] /\ used_all \in BOOLEAN /\ flow_controlled \in BOOLEAN
      /\ g.tx \in Stack /\ service \subseteq Stack /\ Range(stacks') = Range(stacks)
  BY DgramAssumption DEF SchedIInv, HeldOK, StacksOK
<1>2. /\ used_all' \in BOOLEAN /\ flow_controlled' \in BOOLEAN /\ service' \subseteq Stack
      /\ \A e \in Dgram \ {g} : fate'[e] = fate[e]
      /\ service' \subseteq service \cup {g.tx} /\ service \subseteq service'
      /\ flow_controlled => flow_controlled'
      /\ service' # service => flow_controlled'
      /\ fate'[g] = "backlog" => g.tx \in service'
  BY <1>1, SendEffect DEF Waiting
<1>3. WaitingKnown'
  BY <1>1, <1>2 DEF WaitingKnown, SchedIInv, StacksOK
<1>4. BacklogWaits'
  BY <1>2 DEF BacklogWaits, SchedIInv, StacksOK
<1>5. TodoOK'
  BY DEF TodoOK
<1> QED BY <1>1, <1>2, <1>3, <1>4, <1>5 DEF SchedIInv, StacksOK

\* The datagrams are as they were, and none is held back that was not.
LEMMA StacksFrame ==
    ASSUME SchedIInv,
           UNCHANGED <<service, stacks>>, fate' \in [Dgram -> Fates],
           \A g \in Dgram : fate'[g] = "backlog" => fate[g] = "backlog",
           seen' \subseteq {g.to : g \in Dgram}, up' \subseteq Net,
           used_all' \in BOOLEAN, flow_controlled' = flow_controlled,
           phase # "service", phase' \in {"idle", "process", "release", "freed"}
    PROVE  StacksOK'
<1>1. WaitingKnown'
  BY DEF WaitingKnown, SchedIInv, StacksOK
<1>2. BacklogWaits'
  BY DEF BacklogWaits, SchedIInv, StacksOK
<1> QED BY <1>1, <1>2 DEF SchedIInv, StacksOK

\* The LIFOs and what they hold are unchanged.
LEMMA HeldFrame ==
    ASSUME HeldOK, UNCHANGED <<queues, fate>>
    PROVE  HeldOK' /\ Queued' = Queued
BY DEF HeldOK, queues, BufferedExact, HeldOnce, QueueBounded, Queued, Members, TotalSize

----------------------------------------------------------------------------
(* The users.                                                              *)

\* A datagram is sent by its owner, or joins the backlog.
LEMMA SendOK ==
    ASSUME SchedIInv, NEW g \in Dgram, Send(g)
    PROVE  SchedIInv'
<1>1. /\ phase = "idle" /\ fate[g] \in {"new", "dropped"} /\ g.tx \in Range(stacks)
      /\ tx_released' = tx_released /\ UNCHANGED <<seen, stacks, up, phase, todo>>
      /\ \/ udp_sched_send(g)
         \/ /\ Waiting(g.tx) /\ fate' = [fate EXCEPT ![g] = "backlog"]
            /\ UNCHANGED <<lifo, buffered, used_all, flow_controlled, service>>
  BY AttachedRange DEF Send, tx_dgram_sendto
<1>2. /\ g \notin Queued /\ g \notin Range(tx_released)
      /\ tx_released \in Seq(Dgram) /\ IsInjective(tx_released)
  BY <1>1 DEF SchedIInv, HeldOK, HeldOnce
<1>3. HeldOK'
  BY <1>1, <1>2, SendHeld DEF SchedIInv
<1>4. StacksOK' /\ TodoOK'
  BY <1>1, SendStacks
<1> QED BY <1>3, <1>4 DEF SchedIInv

\* Sockets come and go.
LEMMA UpdateSocketsOK ==
    ASSUME SchedIInv, NEW nets \in SUBSET Net, udp_sched_update_sockets(nets)
    PROVE  SchedIInv'
<1>1. /\ phase = "idle" /\ up' = nets
      /\ UNCHANGED <<queues, seen, stacks, used_all, flow_controlled, service, fate, phase, todo>>
  BY DEF udp_sched_update_sockets
<1>2. HeldOK'
  BY <1>1, HeldFrame DEF SchedIInv
<1>3. StacksOK'
  BY <1>1, StacksFrame DEF SchedIInv, HeldOK, StacksOK
<1> QED BY <1>1, <1>2, <1>3 DEF SchedIInv, TodoOK

\* A stack leaves: its backlog goes with it.
LEMMA DetachOK ==
    ASSUME SchedIInv, NEW tx \in Stack, udp_sched_detach(tx)
    PROVE  SchedIInv'
<1>1. /\ phase = "idle" /\ tx \in Range(stacks) /\ stacks' = RemoveFirst(stacks, tx)
      /\ service' = service \ {tx}
      /\ fate' = [g \in Dgram |-> IF g.tx = tx /\ fate[g] = "backlog" THEN "dropped" ELSE fate[g]]
      /\ UNCHANGED <<queues, seen, used_all, flow_controlled, up, phase, todo>>
  BY AttachedRange DEF udp_sched_detach
<1>2. /\ fate \in [Dgram -> Fates] /\ fate' \in [Dgram -> Fates]
      /\ \A g \in Dgram : fate'[g] = fate[g] \/ (fate'[g] = "dropped" /\ fate[g] = "backlog")
      /\ \A g \in Dgram : fate'[g] = "backlog" => fate[g] = "backlog" /\ g.tx # tx
  BY <1>1 DEF SchedIInv, HeldOK, Fates
<1>3. stacks' \in Seq(Stack) /\ IsInjective(stacks') /\ Range(stacks') = Range(stacks) \ {tx}
  BY <1>1, RemoveRange DEF SchedIInv, StacksOK
<1>4. HeldOK'
  <2>1. /\ lifo' = lifo /\ tx_released' = tx_released /\ buffered' = buffered /\ Queued' = Queued
    BY <1>1 DEF queues, Queued, Members
  <2>2. \A g \in Dgram : fate'[g] = "queued" <=> g \in Queued'
    BY <1>2, <2>1 DEF SchedIInv, HeldOK, HeldOnce
  <2>3. \A g \in Dgram : fate'[g] \in {"flagged", "unsent"} <=> g \in Range(tx_released')
    BY <1>2, <2>1 DEF SchedIInv, HeldOK, HeldOnce
  <2> QED BY <1>2, <2>1, <2>2, <2>3
       DEF SchedIInv, HeldOK, HeldOnce, BufferedExact, QueueBounded, TotalSize
<1>5. WaitingKnown'
  BY <1>1, <1>3 DEF WaitingKnown, SchedIInv, StacksOK
<1>6. BacklogWaits'
  BY <1>1, <1>2 DEF BacklogWaits, SchedIInv, StacksOK
<1>7. TodoOK'
  BY <1>1 DEF TodoOK
<1> QED BY <1>1, <1>3, <1>4, <1>5, <1>6, <1>7 DEF SchedIInv, StacksOK

\* A stack joins.
LEMMA AttachOK ==
    ASSUME SchedIInv, NEW tx \in Stack, udp_sched_attach(tx)
    PROVE  SchedIInv'
<1>1. /\ phase = "idle" /\ tx \notin Range(stacks) /\ stacks' = Append(stacks, tx)
      /\ UNCHANGED <<queues, seen, used_all, flow_controlled, up, service, fate, phase, todo>>
  BY AttachedRange DEF udp_sched_attach
<1>2. stacks' \in Seq(Stack) /\ IsInjective(stacks') /\ Range(stacks') = Range(stacks) \cup {tx}
  BY <1>1, AppendRange DEF SchedIInv, StacksOK
<1>3. HeldOK'
  BY <1>1, HeldFrame DEF SchedIInv
<1>4. WaitingKnown' /\ BacklogWaits'
  BY <1>1, <1>2 DEF WaitingKnown, BacklogWaits, SchedIInv, StacksOK
<1>5. TodoOK'
  BY <1>1 DEF TodoOK
<1> QED BY <1>1, <1>2, <1>3, <1>4, <1>5 DEF SchedIInv, StacksOK

\* The scheduler is freed: what it held is dropped.
LEMMA FreeOK ==
    ASSUME SchedIInv, udp_sched_free
    PROVE  SchedIInv'
<1>1. /\ phase = "idle" /\ phase' = "freed" /\ lifo' = [p \in Prio |-> <<>>] /\ buffered' = 0
      /\ fate' = [g \in Dgram |-> IF fate[g] = "queued" THEN "dropped" ELSE fate[g]]
      /\ UNCHANGED <<tx_released, seen, stacks, used_all, flow_controlled, up, service, todo>>
  BY DEF udp_sched_free
<1>2. /\ fate \in [Dgram -> Fates] /\ fate' \in [Dgram -> Fates]
      /\ \A g \in Dgram : fate'[g] = fate[g] \/ (fate'[g] = "dropped" /\ fate[g] = "queued")
      /\ \A g \in Dgram : fate'[g] # "queued"
  BY <1>1 DEF SchedIInv, HeldOK, Fates
<1>3. lifo' \in [Prio -> Seq(Dgram)] /\ Queued' = {} /\ \A p \in Prio : lifo'[p] = <<>>
  BY <1>1 DEF Queued, Members, Range
<1>4. BufferedExact' /\ buffered' \in Nat
  <2>1. TotalSize({}) = 0
    BY SizeOf
  <2> QED BY <1>1, <1>3, <2>1 DEF BufferedExact, TotalSize
<1>5. HeldOnce'
  <2>1. \A g \in Dgram : fate'[g] \in {"flagged", "unsent"} <=> g \in Range(tx_released')
    BY <1>1, <1>2 DEF SchedIInv, HeldOK, HeldOnce
  <2>2. \A p \in Prio : IsInjective(lifo'[p]) /\ DOMAIN lifo'[p] = {}
    BY <1>3 DEF IsInjective
  <2> QED BY <1>1, <1>2, <1>3, <2>1, <2>2 DEF SchedIInv, HeldOK, HeldOnce
<1>6. QueueBounded'
  BY <1>3 DEF QueueBounded, Prio
<1>7. StacksOK'
  BY <1>1, <1>2, StacksFrame DEF SchedIInv, StacksOK
<1> QED BY <1>1, <1>2, <1>3, <1>4, <1>5, <1>6, <1>7 DEF SchedIInv, HeldOK, TodoOK

----------------------------------------------------------------------------
(* udp_sched_begin()                                                       *)

\* A pass over LIFOs: each datagram is visited once.
LEMMA PassOver ==
    ASSUME NEW f \in [Prio -> Seq(Dgram)], \A p \in Prio : IsInjective(f[p]),
           Range(f["data"]) \cap Range(f["highest"]) = {}
    PROVE  LET t == f["highest"] \o f["data"]
           IN  t \in Seq(Dgram) /\ IsInjective(t) /\ Range(t) = Members(f)
<1>1. f["highest"] \in Seq(Dgram) /\ f["data"] \in Seq(Dgram) /\ IsInjective(f["highest"]) /\ IsInjective(f["data"])
  BY DEF Prio
<1>2. PICK a \in Seq(Dgram), b \in Seq(Dgram) : a = f["highest"] /\ b = f["data"]
  BY <1>1
<1>3. a \o b \in Seq(Dgram) /\ IsInjective(a \o b) /\ Range(a \o b) = Range(a) \cup Range(b)
  BY <1>1, <1>2, ConcatRange
<1> QED BY <1>2, <1>3, QueuedSplit

\* The expired datagrams leave, and the first pass starts.
LEMMA BeginOK ==
    ASSUME SchedIInv, Begin
    PROVE  SchedIInv'
<1>1. PICK keep \in [Prio -> 0 .. Cardinality(Dgram)] :
        LET left == [p \in Prio |-> SubSeq(lifo[p], 1, keep[p])]
        IN  /\ \A p \in Prio : keep[p] <= Len(lifo[p])
            /\ FlagReleased(left)
            /\ fate' = [g \in Dgram |-> IF g \in Queued \ Members(left) THEN "unsent" ELSE fate[g]]
  BY DEF Begin
<1> DEFINE left == [p \in Prio |-> SubSeq(lifo[p], 1, keep[p])]
<1>2. /\ phase = "idle" /\ phase' = "process" /\ seen' = {} /\ used_all' = FALSE
      /\ todo' = lifo'["highest"] \o lifo'["data"] /\ lifo' = left
      /\ UNCHANGED <<stacks, flow_controlled, up, service>>
  BY <1>1 DEF Begin, StartPass, FlagReleased
<1>3. ASSUME NEW p \in Prio
      PROVE  /\ left[p] \in Seq(Dgram) /\ IsInjective(left[p]) /\ Range(left[p]) \subseteq Range(lifo[p])
             /\ left[p] # <<>> => lifo[p] # <<>> /\ Range(Tail(left[p])) \subseteq Range(Tail(lifo[p]))
  <2>1. lifo[p] \in Seq(Dgram) /\ IsInjective(lifo[p])
    BY DEF SchedIInv, HeldOK, HeldOnce
  <2>2. PICK n \in 0 .. Len(lifo[p]) : n = keep[p]
    <3>1. keep[p] \in 0 .. Cardinality(Dgram) /\ keep[p] <= Len(lifo[p]) /\ Len(lifo[p]) \in Nat
      BY <1>1, <2>1
    <3>2. keep[p] \in Nat
      BY <3>1
    <3>3. keep[p] \in 0 .. Len(lifo[p])
      BY <3>1, <3>2
    <3> QED BY <3>3
  <2>3. left[p] = SubSeq(lifo[p], 1, n)
    BY <2>2
  <2>4. PICK s \in Seq(Dgram) : s = lifo[p]
    BY <2>1
  <2>5. n \in 0 .. Len(s) /\ IsInjective(s) /\ left[p] = SubSeq(s, 1, n)
    BY <2>1, <2>2, <2>3, <2>4
  <2>6. /\ SubSeq(s, 1, n) \in Seq(Dgram) /\ IsInjective(SubSeq(s, 1, n))
        /\ Range(SubSeq(s, 1, n)) \subseteq Range(s)
        /\ SubSeq(s, 1, n) # <<>> => s # <<>> /\ Range(Tail(SubSeq(s, 1, n))) \subseteq Range(Tail(s))
    BY <2>5, PrefixRange
  <2> HIDE DEF left
  <2> QED BY <2>4, <2>5, <2>6
<1>4. "data" \in Prio /\ left \in [Prio -> Seq(Dgram)]
  BY <1>3 DEF Prio
<1>5. /\ FlagReleased(left)
      /\ fate' = [g \in Dgram |-> IF g \in Queued \ Members(left) THEN "unsent" ELSE fate[g]]
  BY <1>1
<1> HIDE DEF left
<1>6. /\ fate \in [Dgram -> Fates] /\ fate' \in [Dgram -> Fates]
      /\ \A g \in Dgram : IF g \in Queued \ Members(left) THEN fate'[g] \in {"flagged", "unsent"}
                          ELSE fate'[g] = fate[g]
      /\ \A g \in Dgram : fate'[g] = "backlog" => fate[g] = "backlog"
  BY <1>5 DEF SchedIInv, HeldOK, Fates
<1>7. HeldOK' /\ Queued' = Members(left)
  BY <1>3, <1>4, <1>5, <1>6, FlagHeld DEF SchedIInv
<1>8. StacksOK'
  BY <1>2, <1>6, StacksFrame DEF SchedIInv, StacksOK
<1>9. TodoOK'
  <2>1. Range(left["data"]) \cap Range(left["highest"]) = {}
    BY <1>3, QueuedSplit DEF SchedIInv, Prio
  <2>2. todo' \in Seq(Dgram) /\ IsInjective(todo') /\ Range(todo') = Members(left)
    BY <1>2, <1>3, <1>4, <2>1, PassOver
  <2> QED BY <1>2, <1>7, <2>2 DEF TodoOK
<1> QED BY <1>7, <1>8, <1>9 DEF SchedIInv

\* The steps that only move in udp_sched_begin().
LEMMA MoveOK ==
    ASSUME SchedIInv, SkipOne \/ ProcessNone \/ EndPass \/ AnotherPass
    PROVE  SchedIInv'
<1>1. /\ UNCHANGED <<queues, stacks, flow_controlled, up, service, fate>>
      /\ phase # "service" /\ used_all' \in BOOLEAN /\ seen' \subseteq seen
      /\ phase' \in {"process", "release"}
      /\ \/ phase' = "release"
         \/ phase = "process" /\ todo # <<>> /\ todo' = Tail(todo)
         \/ todo' = <<>>
         \/ todo' = lifo["highest"] \o lifo["data"]
  BY DEF SkipOne, ProcessNone, EndPass, AnotherPass, StartPass, SchedIInv, StacksOK
<1>2. HeldOK' /\ Queued' = Queued
  BY <1>1, HeldFrame DEF SchedIInv
<1>3. StacksOK'
  BY <1>1, StacksFrame DEF SchedIInv, StacksOK, HeldOK
<1>4. TodoOK'
  <2>1. CASE phase = "process" /\ todo # <<>> /\ todo' = Tail(todo)
    BY <1>1, <1>2, <2>1, TailRange DEF SchedIInv, TodoOK
  <2>2. CASE todo' = <<>>
    BY <1>1, <2>2 DEF TodoOK, Range, IsInjective
  <2>3. CASE todo' = lifo["highest"] \o lifo["data"]
    <3>1. lifo \in [Prio -> Seq(Dgram)] /\ \A p \in Prio : IsInjective(lifo[p])
      BY DEF SchedIInv, HeldOK, HeldOnce
    <3>2. Range(lifo["data"]) \cap Range(lifo["highest"]) = {}
      BY QueuedSplit DEF SchedIInv
    <3>3. todo' \in Seq(Dgram) /\ IsInjective(todo') /\ Range(todo') = Members(lifo)
      BY <2>3, <3>1, <3>2, PassOver
    <3> QED BY <1>1, <1>2, <3>3 DEF TodoOK, Queued
  <2> QED BY <1>1, <2>1, <2>2, <2>3 DEF TodoOK
<1> QED BY <1>2, <1>3, <1>4 DEF SchedIInv

\* A datagram is sent, or dropped, from the LIFO.
LEMMA ProcessOneOK ==
    ASSUME SchedIInv, NEW r \in {"sent", "dropped"}, ProcessOne(r)
    PROVE  SchedIInv'
<1>0. /\ phase = "process" /\ todo # <<>> /\ todo \in Seq(Dgram) /\ IsInjective(todo)
      /\ Range(todo) \subseteq Queued /\ Queued \subseteq Dgram
  BY QueuedSplit DEF ProcessOne, SchedIInv, TodoOK
<1>1. /\ Head(todo) \in Range(todo) /\ Tail(todo) \in Seq(Dgram) /\ IsInjective(Tail(todo))
      /\ Range(Tail(todo)) \subseteq Range(todo) \ {Head(todo)}
  BY <1>0, TailRange
<1>2. PICK g \in Dgram : g = Head(todo)
  BY <1>0, <1>1
<1> DEFINE z == RemoveFirst(lifo[g.prio], g)
           left == [lifo EXCEPT ![g.prio] = z]
<1>3. /\ FlagReleased(left) /\ todo' = Tail(todo)
      /\ fate' = [fate EXCEPT ![g] = IF r = "sent" THEN "flagged" ELSE "unsent"]
      /\ seen' \in {seen, seen \cup {g.to}}
      /\ UNCHANGED <<stacks, used_all, flow_controlled, up, service, phase>>
  BY <1>2 DEF ProcessOne
<1>4. /\ g.prio \in Prio /\ g \in Range(lifo[g.prio]) /\ lifo[g.prio] \in Seq(Dgram) /\ IsInjective(lifo[g.prio])
  <2>1. PICK p \in Prio : g \in Range(lifo[p])
    BY <1>0, <1>1, <1>2 DEF Queued, Members
  <2>2. p = g.prio
    BY <2>1, QueuedSplit DEF SchedIInv
  <2> QED BY <2>1, <2>2 DEF SchedIInv, HeldOK, HeldOnce
<1>5. /\ z \in Seq(Dgram) /\ IsInjective(z) /\ Range(z) = Range(lifo[g.prio]) \ {g}
      /\ z # <<>> => lifo[g.prio] # <<>> /\ Range(Tail(z)) \subseteq Range(Tail(lifo[g.prio]))
  BY <1>4, RemoveRange
<1>6. /\ left \in [Prio -> Seq(Dgram)] /\ left[g.prio] = z
      /\ \A p \in Prio \ {g.prio} : left[p] = lifo[p]
  <2> HIDE DEF z
  <2> QED BY <1>4, <1>5 DEF SchedIInv, HeldOK
<1> HIDE DEF left, z
<1>7. /\ \A p \in Prio : IsInjective(left[p]) /\ Range(left[p]) \subseteq Range(lifo[p])
      /\ left["data"] # <<>> => /\ lifo["data"] # <<>>
                                /\ Range(Tail(left["data"])) \subseteq Range(Tail(lifo["data"]))
  BY <1>4, <1>5, <1>6 DEF SchedIInv, HeldOK, HeldOnce, Prio
<1>8. Members(left) = Queued \ {g}
  <2>1. ASSUME NEW p \in Prio, p # g.prio PROVE g \notin Range(lifo[p])
    BY <2>1, QueuedSplit DEF SchedIInv
  <2> QED BY <1>4, <1>5, <1>6, <2>1, SMTT(60) DEF Members, Queued
<1>9. /\ fate' \in [Dgram -> Fates] /\ g \in Queued
      /\ \A e \in Dgram : IF e \in Queued \ Members(left) THEN fate'[e] \in {"flagged", "unsent"}
                          ELSE fate'[e] = fate[e]
      /\ \A e \in Dgram : fate'[e] = "backlog" => fate[e] = "backlog"
  BY <1>0, <1>1, <1>2, <1>3, <1>8 DEF SchedIInv, HeldOK, Fates
<1>10. HeldOK' /\ Queued' = Members(left)
  BY <1>3, <1>6, <1>7, <1>9, FlagHeld DEF SchedIInv
<1>11. StacksOK'
  BY <1>0, <1>3, <1>9, StacksFrame DEF SchedIInv, StacksOK
<1>12. TodoOK'
  BY <1>0, <1>1, <1>2, <1>3, <1>8, <1>10 DEF TodoOK
<1> QED BY <1>10, <1>11, <1>12 DEF SchedIInv

\* A free routine runs, and may send the datagram again.
LEMMA ReleaseOneOK ==
    ASSUME SchedIInv, ReleaseOne
    PROVE  SchedIInv'
<1>0. /\ phase = "release" /\ tx_released # <<>> /\ tx_released \in Seq(Dgram) /\ IsInjective(tx_released)
      /\ Range(tx_released) \subseteq Dgram
  BY RangeFinite DEF ReleaseOne, SchedIInv, HeldOK, HeldOnce
<1>1. /\ Head(tx_released) \in Range(tx_released) /\ Tail(tx_released) \in Seq(Dgram)
      /\ IsInjective(Tail(tx_released)) /\ Range(Tail(tx_released)) = Range(tx_released) \ {Head(tx_released)}
  BY <1>0, TailRange
<1>2. PICK g \in Dgram : g = Head(tx_released)
  BY <1>0, <1>1
<1>3. /\ tx_released' = Tail(tx_released) /\ UNCHANGED <<seen, stacks, up, phase, todo>>
      /\ \/ /\ fate' \in {[fate EXCEPT ![g] = "sent"], [fate EXCEPT ![g] = "dropped"]}
            /\ UNCHANGED <<lifo, buffered, used_all, flow_controlled, service>>
         \/ /\ g.tx \in Range(stacks)
            /\ \/ udp_sched_send(g)
               \/ /\ Waiting(g.tx) /\ fate' = [fate EXCEPT ![g] = "backlog"]
                  /\ UNCHANGED <<lifo, buffered, used_all, flow_controlled, service>>
  BY <1>2, AttachedRange DEF ReleaseOne, tx_dgram_sendto
<1>4. fate[g] \in {"flagged", "unsent"} /\ g \notin Queued
  BY <1>1, <1>2 DEF SchedIInv, HeldOK, HeldOnce
<1>5. HeldOK'
  BY <1>1, <1>2, <1>3, <1>4, SendHeld DEF SchedIInv
<1>6. StacksOK' /\ TodoOK'
  <2>1. CASE g.tx \in Range(stacks)
    BY <1>0, <1>3, <2>1, SendStacks
  <2>2. CASE g.tx \notin Range(stacks)
    <3>1. /\ fate' \in {[fate EXCEPT ![g] = "sent"], [fate EXCEPT ![g] = "dropped"]}
          /\ UNCHANGED <<used_all, flow_controlled, service>>
      BY <1>3, <2>2
    <3>2. /\ fate' \in [Dgram -> Fates] /\ \A e \in Dgram : fate'[e] = "backlog" => fate[e] = "backlog"
      BY <3>1 DEF SchedIInv, HeldOK, Fates
    <3>3. StacksOK'
      BY <1>0, <1>3, <3>1, <3>2, StacksFrame DEF SchedIInv, StacksOK
    <3> QED BY <1>0, <1>3, <3>3 DEF TodoOK
  <2> QED BY <2>1, <2>2
<1> QED BY <1>5, <1>6 DEF SchedIInv

\* The service starts, with every stack to visit.
LEMMA StartServiceOK ==
    ASSUME SchedIInv, StartService
    PROVE  SchedIInv'
<1>1. /\ phase' = "service" /\ flow_controlled' = FALSE /\ todo' = stacks'
      /\ stacks' = IF stacks = <<>> THEN <<>> ELSE Tail(stacks) \o <<Head(stacks)>>
      /\ UNCHANGED <<queues, seen, used_all, up, service, fate>>
  BY DEF StartService
<1>2. stacks' \in Seq(Stack) /\ IsInjective(stacks') /\ Range(stacks') = Range(stacks)
  <2>1. CASE stacks = <<>>
    BY <1>1, <2>1 DEF SchedIInv, StacksOK
  <2>2. CASE stacks # <<>>
    <3>1. stacks \in Seq(Stack) /\ IsInjective(stacks)
      BY DEF SchedIInv, StacksOK
    <3>2. /\ Head(stacks) \in Range(stacks) /\ Tail(stacks) \in Seq(Stack) /\ IsInjective(Tail(stacks))
          /\ Head(stacks) \notin Range(Tail(stacks)) /\ Range(stacks) = Range(Tail(stacks)) \cup {Head(stacks)}
      BY <2>2, <3>1, TailRange
    <3>3. Head(stacks) \in Stack
      BY <3>1, <3>2, RangeFinite
    <3>4. PICK s \in Seq(Stack), x \in Stack : s = Tail(stacks) /\ x = Head(stacks)
      BY <3>2, <3>3
    <3>5. s \o <<x>> = Append(s, x)
      OBVIOUS
    <3>6. Append(s, x) \in Seq(Stack) /\ Range(Append(s, x)) = Range(s) \cup {x} /\ IsInjective(Append(s, x))
      <4>1. IsInjective(s) /\ x \notin Range(s)
        BY <3>2, <3>4
      <4>2. Append(s, x) \in Seq(Stack)
        OBVIOUS
      <4> QED BY <4>1, <4>2, AppendRange
    <3> QED BY <1>1, <2>2, <3>2, <3>4, <3>5, <3>6, Zenon
  <2> QED BY <2>1, <2>2
<1>3. HeldOK'
  BY <1>1, HeldFrame DEF SchedIInv
<1>4. WaitingKnown'
  BY <1>1, <1>2 DEF WaitingKnown, SchedIInv, StacksOK
<1>5. BacklogWaits'
  BY <1>1 DEF BacklogWaits, SchedIInv, StacksOK
<1>6. TodoOK'
  BY <1>1, <1>2 DEF TodoOK
<1> QED BY <1>1, <1>2, <1>3, <1>4, <1>5, <1>6 DEF SchedIInv, StacksOK

\* A stack sends a datagram it held back: when it is refused again, the next one
\* is serviced.
LEMMA ServiceOneOK ==
    ASSUME SchedIInv, ServiceOne
    PROVE  SchedIInv'
<1>0. /\ phase = "service" /\ todo # <<>> /\ todo \in Seq(Stack) /\ Range(todo) \subseteq Range(stacks)
  BY DEF ServiceOne, SchedIInv, TodoOK
<1>1. /\ Head(todo) \in Range(todo) /\ Tail(todo) \in Seq(Stack)
      /\ Range(Tail(todo)) \subseteq Range(todo) /\ Range(todo) = Range(Tail(todo)) \cup {Head(todo)}
  BY <1>0, TailRange
<1>2. PICK g \in Dgram : g.tx = Head(todo) /\ fate[g] = "backlog" /\ udp_sched_send(g)
  BY DEF ServiceOne, Back
<1>3. /\ todo' = (IF fate' = fate THEN Tail(todo) ELSE todo) /\ tx_released' = tx_released
      /\ UNCHANGED <<seen, stacks, up, phase>>
  BY DEF ServiceOne
<1>4. /\ g \notin Queued /\ g \notin Range(tx_released) /\ fate \in [Dgram -> Fates]
      /\ tx_released \in Seq(Dgram) /\ IsInjective(tx_released)
  BY <1>2 DEF SchedIInv, HeldOK, HeldOnce
<1>5. HeldOK'
  BY <1>2, <1>3, <1>4, SendHeld DEF SchedIInv
<1>6. /\ used_all' \in BOOLEAN /\ \A e \in Dgram \ {g} : fate'[e] = fate[e]
      /\ \/ /\ fate' # fate /\ fate'[g] # "backlog"
            /\ service' = service /\ flow_controlled' = flow_controlled
         \/ /\ fate' = fate /\ service' = service \cup {g.tx} /\ flow_controlled' = TRUE
  <2>1. used_all \in BOOLEAN
    BY DEF SchedIInv, StacksOK
  <2>2. [fate EXCEPT ![g] = "backlog"] = fate
    BY <1>2, <1>4
  <2> QED BY <1>2, <1>4, <2>1, <2>2, SendEffect
<1>7. g.tx \in service /\ service' = service
  BY <1>2, <1>6 DEF SchedIInv, StacksOK, BacklogWaits
<1>8. WaitingKnown'
  BY <1>0, <1>3, <1>6, <1>7 DEF WaitingKnown, SchedIInv, StacksOK
<1>9. BacklogWaits'
  BY <1>2, <1>6, <1>7 DEF BacklogWaits, SchedIInv, StacksOK
<1>10. TodoOK'
  <2>1. phase' = "service" /\ todo' \in {todo, Tail(todo)} /\ Range(stacks') = Range(stacks)
    BY <1>0, <1>3
  <2> QED BY <1>0, <1>1, <2>1 DEF TodoOK
<1>11. flow_controlled' \in BOOLEAN
  BY <1>6 DEF SchedIInv, StacksOK
<1> QED BY <1>3, <1>5, <1>6, <1>7, <1>8, <1>9, <1>10, <1>11 DEF SchedIInv, StacksOK

\* A stack holds nothing more back, and wants no service.
LEMMA ServiceDoneOK ==
    ASSUME SchedIInv, ServiceDone
    PROVE  SchedIInv'
<1>0. /\ phase = "service" /\ todo # <<>> /\ todo \in Seq(Stack) /\ Range(todo) \subseteq Range(stacks)
  BY DEF ServiceDone, SchedIInv, TodoOK
<1>1. /\ Head(todo) \in Range(todo) /\ Tail(todo) \in Seq(Stack)
      /\ Range(Tail(todo)) \subseteq Range(todo) /\ Range(todo) = Range(Tail(todo)) \cup {Head(todo)}
  BY <1>0, TailRange
<1>2. /\ service' = service \ {Head(todo)} /\ todo' = Tail(todo)
      /\ UNCHANGED <<queues, seen, stacks, used_all, flow_controlled, up, fate, phase>>
      /\ Head(todo) \in service => Back(Head(todo)) = {}
  BY DEF ServiceDone, Waiting
<1>3. HeldOK'
  BY <1>2, HeldFrame DEF SchedIInv
<1>4. WaitingKnown'
  BY <1>0, <1>1, <1>2 DEF WaitingKnown, SchedIInv, StacksOK
<1>5. BacklogWaits'
  <2>1. \A g \in Dgram : fate[g] = "backlog" => g.tx \in service /\ g.tx # Head(todo)
    BY <1>2 DEF Back, BacklogWaits, SchedIInv, StacksOK
  <2> QED BY <1>2, <2>1 DEF BacklogWaits
<1>6. TodoOK'
  BY <1>0, <1>1, <1>2 DEF TodoOK
<1> QED BY <1>2, <1>3, <1>4, <1>5, <1>6 DEF SchedIInv, StacksOK

\* udp_sched_begin() returns: nobody who waits is forgotten.
LEMMA FinishOK ==
    ASSUME SchedIInv, Finish
    PROVE  SchedIInv'
<1>1. /\ phase' = "idle" /\ (phase = "service" => todo = <<>>) /\ phase \in {"release", "service"}
      /\ UNCHANGED <<queues, seen, stacks, used_all, flow_controlled, up, service, fate, todo>>
  BY DEF Finish
<1>2. HeldOK'
  BY <1>1, HeldFrame DEF SchedIInv
<1>3. WaitingKnown'
  <2>1. todo = <<>> => Range(todo) = {}
    BY DEF Range
  <2> QED BY <1>1, <2>1 DEF WaitingKnown, SchedIInv, StacksOK
<1>4. BacklogWaits'
  BY <1>1 DEF BacklogWaits, SchedIInv, StacksOK
<1> QED BY <1>1, <1>2, <1>3, <1>4 DEF SchedIInv, StacksOK, TodoOK

----------------------------------------------------------------------------
\* It holds initially.
LEMMA UInitOK == UInit => SchedIInv
<1> SUFFICES ASSUME UInit PROVE SchedIInv
  OBVIOUS
<1>1. /\ Queued = {} /\ lifo \in [Prio -> Seq(Dgram)] /\ \A p \in Prio : lifo[p] = <<>>
  BY DEF UInit, Queued, Members, Range
<1>2. HeldOK
  <2>1. TotalSize({}) = 0
    BY SizeOf
  <2>2. HeldOnce
    BY <1>1 DEF UInit, HeldOnce, IsInjective, Range
  <2>3. QueueBounded
    BY <1>1 DEF QueueBounded, Prio
  <2> QED BY <1>1, <2>1, <2>2, <2>3 DEF UInit, HeldOK, BufferedExact, Fates
<1>3. stacks \in Seq(Stack) /\ IsInjective(stacks)
  BY SetToSeqRange, LimitAssumption DEF UInit
<1> QED BY <1>2, <1>3 DEF UInit, SchedIInv, StacksOK, WaitingKnown, BacklogWaits, TodoOK

\* Every step keeps the invariant.
LEMMA UStepOK == SchedIInv /\ [UNext]_usvars => SchedIInv'
<1> SUFFICES ASSUME SchedIInv, [UNext]_usvars PROVE SchedIInv'
  OBVIOUS
<1>1. CASE UserStep
  BY <1>1, SendOK, UpdateSocketsOK, DetachOK, AttachOK, FreeOK DEF UserStep
<1>2. CASE Begin
  BY <1>2, BeginOK
<1>3. CASE BeginStep
  BY <1>3, MoveOK, ProcessOneOK, ReleaseOneOK, StartServiceOK, ServiceOneOK, ServiceDoneOK, FinishOK
     DEF BeginStep
<1>4. CASE UNCHANGED usvars
  <2>1. HeldOK'
    BY <1>4, HeldFrame DEF usvars, queues, SchedIInv
  <2> QED BY <1>4, <2>1
       DEF usvars, SchedIInv, StacksOK, WaitingKnown, BacklogWaits, TodoOK, Queued, Members
<1> QED BY <1>1, <1>2, <1>3, <1>4 DEF UNext

\* The inductive invariant holds in every state, for any stacks, datagrams,
\* address families, limit and number of attempts.
THEOREM SchedInvariance == USpec => []SchedIInv
<1> QED BY UInitOK, UStepOK, PTL DEF USpec

\* Whatever is sent, expires, is dropped or is queued again from a free
\* routine, and whichever stacks and sockets come and go, each datagram is held
\* once, us->buffered is the exact size of what the LIFOs of udp_sched.c hold,
\* and the limit is exceeded by the last datagram of normal priority at most.
THEOREM SchedHolds == USpec => []SchedInv
<1>1. SchedIInv => SchedInv
  BY DEF SchedIInv, HeldOK, StacksOK, SchedInv, UTypeOK, Fates
<1> QED BY <1>1, SchedInvariance, PTL

\* A stack that udp_sched_send() refused is known to the scheduler as long as it
\* holds datagrams back: udp_sched_begin() either has it still to visit, or will
\* service stacks once it has bandwidth again.
THEOREM RefusedStacksRemembered == USpec => []RefusedRemembered
<1>1. SchedIInv => RefusedRemembered
  <2> SUFFICES ASSUME SchedIInv, NEW tx \in Stack, Back(tx) # {}
               PROVE  /\ Waiting(tx)
                      /\ flow_controlled \/ (phase = "service" /\ tx \in Range(todo))
    BY DEF RefusedRemembered
  <2>1. tx \in service
    BY DEF Back, SchedIInv, StacksOK, BacklogWaits
  <2> QED BY <2>1 DEF Waiting, SchedIInv, StacksOK, WaitingKnown
<1> QED BY <1>1, SchedInvariance, PTL

----------------------------------------------------------------------------
(***************************************************************************)
(* The compressing layer.                                                  *)
(***************************************************************************)

\* The state of the layer.
Rec ==
    [user : User, buf : [1 .. 2 -> Seq(Nat)], fill : 1 .. 2, send : 0 .. 2,
     z : Seq(Nat), zout : Seq(Nat), unflushed : Nat,
     flowc : BOOLEAN, nagle : BOOLEAN, tm_ev : BOOLEAN, flush : BOOLEAN,
     srv : BOOLEAN, upsrv : BOOLEAN, eager : BOOLEAN,
     room : Broken .. MaxRoom, sent : Nat, written : Nat, left : Nat,
     closing : BOOLEAN, closed : BOOLEAN, trailed : BOOLEAN,
     err : BOOLEAN, abort : BOOLEAN, down : BOOLEAN]

Other(s) == s.buf[3 - s.fill]

\* Where the units of the stream are, w of them being given to the layer: the
\* send buffer ends with unit a, the filling one with b, what deflate() must
\* output next with c.
Layout(s, a, b, c, w) ==
    /\ s.sent <= a /\ a <= b /\ b <= c /\ c <= w
    /\ s.send = 0 => a = s.sent /\ Other(s) = <<>>
    /\ s.send # 0 => a > s.sent /\ s.buf[s.send] = Units(s.sent + 1, a)
    /\ s.send = s.fill => b = a /\ Other(s) = <<>>
    /\ s.send # s.fill => s.buf[s.fill] = Units(a + 1, b)
    /\ s.zout = Units(b + 1, c) /\ s.z = Units(c + 1, w)

BuffersFit(s) == \A i \in 1 .. 2 : Len(s.buf[i]) <= BufferSize

\* deflate() holds nothing.
Drained(s) == s.zout = <<>> /\ s.z = <<>>

\* What every step within a handler maintains.
Sound(s, w) ==
    /\ s \in Rec /\ w \in Nat /\ w <= MaxUnits + 1
    /\ \E a, b, c \in Nat : Layout(s, a, b, c, w)
    /\ BuffersFit(s)
    /\ (s.nagle <=> s.tm_ev) /\ (s.user # "node" => ~s.nagle)
    /\ s.unflushed <= w
    /\ s.user # "node" /\ s.unflushed = 0 => Drained(s)

\* What deflate_add() and deflate_flush() maintain besides.
Working(s, w) ==
    /\ Sound(s, w)
    /\ s.send # s.fill
    /\ s.send # 0 /\ ~s.err => s.srv

\* What the handlers rely on, as long as the stack is used.
Promises(s) ==
    /\ s.flowc => s.send # 0
    /\ s.send # 0 => s.srv
    /\ s.left > 0 => s.upsrv /\ s.srv
    /\ s.send = s.fill => s.trailed
    /\ IF s.trailed THEN s.closing ELSE s.written + s.left <= MaxUnits
    /\ s.user = "node" => ~s.eager /\ ~s.closing /\ (s.upsrv => s.left > 0)
    /\ s.user # "node" => (s.flush => s.closing)
    /\ s.closing => ~s.upsrv

\* What holds between two handlers.
Settled(s) ==
    /\ Sound(s, s.written)
    /\ ~s.abort /\ (Full(s) => s.flowc)
    /\ s.left <= MaxWrite
    /\ s.closed => s.sent = s.written
    /\ ~s.err /\ ~s.closed /\ ~s.down => Promises(s)

\* The inductive invariant.
DeflateIInv == Settled(d)

----------------------------------------------------------------------------
(* Units of the stream.                                                    *)

\* The units past a, up to b.
LEMMA UnitsShape ==
    ASSUME NEW a \in Nat, NEW b \in Nat, a <= b
    PROVE  LET u == Units(a + 1, b)
           IN  /\ u \in Seq(Nat) /\ Len(u) = b - a
               /\ \A i \in 1 .. b - a : u[i] = a + i
               /\ u = <<>> <=> a = b
<1> DEFINE u == Units(a + 1, b)
<1>1. b - (a + 1) + 1 = b - a /\ b - a \in Nat
  OBVIOUS
<1>2. u = [i \in 1 .. b - a |-> a + 1 + i - 1]
  BY <1>1 DEF Units
<1>3. u \in [1 .. b - a -> Nat] /\ \A i \in 1 .. b - a : u[i] = a + i
  BY <1>2
<1> HIDE DEF u
<1>4. u \in Seq(Nat)
  BY <1>1, <1>3
<1>5. Len(u) = b - a
  BY <1>1, <1>3, <1>4
<1> QED BY <1>3, <1>4, <1>5 DEF u

\* Consecutive units together.
LEMMA UnitsJoin ==
    ASSUME NEW a \in Nat, NEW b \in Nat, NEW c \in Nat, a <= b, b <= c
    PROVE  Units(a + 1, b) \o Units(b + 1, c) = Units(a + 1, c)
<1>1. PICK x : x = Units(a + 1, b)
  OBVIOUS
<1>2. PICK y : y = Units(b + 1, c)
  OBVIOUS
<1>3. PICK z : z = Units(a + 1, c)
  OBVIOUS
<1>4. /\ x \in Seq(Nat) /\ Len(x) = b - a /\ \A i \in 1 .. b - a : x[i] = a + i
      /\ y \in Seq(Nat) /\ Len(y) = c - b /\ \A i \in 1 .. c - b : y[i] = b + i
      /\ z \in Seq(Nat) /\ Len(z) = c - a /\ \A i \in 1 .. c - a : z[i] = a + i
  <2>1. x \in Seq(Nat) /\ Len(x) = b - a /\ \A i \in 1 .. b - a : x[i] = a + i
    BY <1>1, UnitsShape
  <2>2. y \in Seq(Nat) /\ Len(y) = c - b /\ \A i \in 1 .. c - b : y[i] = b + i
    BY <1>2, UnitsShape
  <2>3. a <= c
    OBVIOUS
  <2>4. z \in Seq(Nat) /\ Len(z) = c - a /\ \A i \in 1 .. c - a : z[i] = a + i
    BY <1>3, <2>3, UnitsShape
  <2> QED BY <2>1, <2>2, <2>4
<1>5. PICK o : o = x \o y
  OBVIOUS
<1>6. /\ o \in Seq(Nat) /\ Len(o) = Len(x) + Len(y)
      /\ \A i \in 1 .. Len(x) + Len(y) : o[i] = IF i <= Len(x) THEN x[i] ELSE y[i - Len(x)]
  BY <1>4, <1>5, ConcatShape
<1>7. Len(o) = Len(z)
  BY <1>4, <1>6
<1>8. ASSUME NEW i \in 1 .. Len(o) PROVE o[i] = z[i]
  <2>1. CASE i <= b - a
    BY <1>4, <1>6, <2>1
  <2>2. CASE i > b - a
    <3>1. i - (b - a) \in 1 .. c - b /\ b + (i - (b - a)) = a + i
      BY <1>4, <1>6, <2>2
    <3> QED BY <1>4, <1>6, <2>2, <3>1
  <2> QED BY <1>4, <1>6, <2>1, <2>2
<1>9. o = z
  BY <1>4, <1>6, <1>7, <1>8, SeqEqual
<1> QED BY <1>1, <1>2, <1>3, <1>5, <1>9

\* Consecutive units apart.
LEMMA UnitsSplit ==
    ASSUME NEW a \in Nat, NEW b \in Nat, NEW c \in Nat, a <= b, b <= c
    PROVE  /\ SubSeq(Units(a + 1, c), 1, b - a) = Units(a + 1, b)
           /\ SubSeq(Units(a + 1, c), b - a + 1, c - a) = Units(b + 1, c)
<1>1. PICK x : x = Units(a + 1, b)
  OBVIOUS
<1>2. PICK y : y = Units(b + 1, c)
  OBVIOUS
<1>3. PICK z : z = Units(a + 1, c)
  OBVIOUS
<1>4. /\ x \in Seq(Nat) /\ Len(x) = b - a /\ \A i \in 1 .. b - a : x[i] = a + i
      /\ y \in Seq(Nat) /\ Len(y) = c - b /\ \A i \in 1 .. c - b : y[i] = b + i
      /\ z \in Seq(Nat) /\ Len(z) = c - a /\ \A i \in 1 .. c - a : z[i] = a + i
  <2>1. x \in Seq(Nat) /\ Len(x) = b - a /\ \A i \in 1 .. b - a : x[i] = a + i
    BY <1>1, UnitsShape
  <2>2. y \in Seq(Nat) /\ Len(y) = c - b /\ \A i \in 1 .. c - b : y[i] = b + i
    BY <1>2, UnitsShape
  <2>3. a <= c
    OBVIOUS
  <2>4. z \in Seq(Nat) /\ Len(z) = c - a /\ \A i \in 1 .. c - a : z[i] = a + i
    BY <1>3, <2>3, UnitsShape
  <2> QED BY <2>1, <2>2, <2>4
<1>5. PICK k \in 1 .. Len(z) + 1 : k = b - a + 1
  BY <1>4
<1>6. PICK p : p = SubSeq(z, 1, k - 1)
  OBVIOUS
<1>7. PICK q : q = SubSeq(z, k, Len(z))
  OBVIOUS
<1>8. /\ p \in Seq(Nat) /\ Len(p) = k - 1 /\ \A i \in 1 .. k - 1 : p[i] = z[i]
      /\ q \in Seq(Nat) /\ Len(q) = Len(z) - k + 1 /\ \A i \in 1 .. Len(z) - k + 1 : q[i] = z[i + k - 1]
  <2>1. z \in Seq(Nat)
    BY <1>4
  <2>2. p \in Seq(Nat) /\ Len(p) = k - 1 /\ \A i \in 1 .. k - 1 : p[i] = z[i]
    BY <1>6, <2>1, SliceShape
  <2>3. q \in Seq(Nat) /\ Len(q) = Len(z) - k + 1 /\ \A i \in 1 .. Len(z) - k + 1 : q[i] = z[i + k - 1]
    BY <1>7, <2>1, SliceShape, SMTT(60)
  <2> QED BY <2>2, <2>3
<1>9. p = x
  <2>1. Len(p) = Len(x) /\ \A i \in 1 .. Len(p) : p[i] = x[i]
    BY <1>4, <1>5, <1>8
  <2> QED BY <1>4, <1>8, <2>1, SeqEqual
<1>10. q = y
  <2>1. Len(q) = Len(y)
    BY <1>4, <1>5, <1>8
  <2>2. ASSUME NEW i \in 1 .. Len(q) PROVE q[i] = y[i]
    <3>1. i + k - 1 \in 1 .. c - a /\ a + (i + k - 1) = b + i
      BY <1>4, <1>5, <1>8
    <3> QED BY <1>4, <1>5, <1>8, <3>1
  <2> QED BY <1>4, <1>8, <2>1, <2>2, SeqEqual
<1>11. k - 1 = b - a /\ k = b - a + 1 /\ Len(z) = c - a
  BY <1>4, <1>5
<1> QED BY <1>1, <1>2, <1>3, <1>6, <1>7, <1>9, <1>10, <1>11

----------------------------------------------------------------------------
(* Sending buffers.                                                        *)

\* What no routine below deflate_service() and tx_close() changes.
Same(s, t) ==
    /\ t.user = s.user /\ t.upsrv = s.upsrv /\ t.eager = s.eager /\ t.closing = s.closing
    /\ t.closed = s.closed /\ t.trailed = s.trailed /\ t.down = s.down /\ t.abort = s.abort
SameCounts(s, t) == t.written = s.written /\ t.left = s.left
SameFlags(s, t) == t.flowc = s.flowc /\ t.nagle = s.nagle /\ t.tm_ev = s.tm_ev /\ t.flush = s.flush
SameDeflate(s, t) == t.z = s.z /\ t.zout = s.zout /\ t.unflushed = s.unflushed
SameStream(s, t) ==
    t.buf = s.buf /\ t.fill = s.fill /\ t.send = s.send /\ t.sent = s.sent /\ t.z = s.z /\ t.zout = s.zout

\* The fields that the layout depends on.
LEMMA LayoutFrame ==
    ASSUME NEW s, NEW t, NEW a, NEW b, NEW c, NEW w, SameStream(s, t), Layout(s, a, b, c, w)
    PROVE  Layout(t, a, b, c, w)
BY DEF SameStream, Layout, Other

\* deflate_send() sends a first part of the send buffer: what it leaves of it
\* waits for the service of the layer.
LEMMA SendProperty ==
    ASSUME NEW s \in Rec, NEW a \in Nat, NEW b \in Nat, NEW c \in Nat, NEW w \in Nat,
           Layout(s, a, b, c, w), BuffersFit(s), s.send # 0
    PROVE  LET t == deflate_send(s)
           IN  /\ t \in Rec /\ Same(s, t) /\ SameCounts(s, t) /\ SameFlags(s, t) /\ SameDeflate(s, t)
               /\ Layout(t, a, b, c, w) /\ BuffersFit(t)
               /\ t.fill = s.fill /\ t.send \in {0, s.send}
               /\ s.send # s.fill => FillBuf(t) = FillBuf(s)
               /\ Full(t) => Full(s)
               /\ t.send = 0 => t.err = s.err
               /\ s.srv => t.srv
               /\ t.send # 0 /\ ~t.err => t.srv
<1>1. PICK x : x = s.buf[s.send]
  OBVIOUS
<1>2. PICK m : m = s.send
  OBVIOUS
<1>3. /\ m \in 1 .. 2 /\ s.fill \in 1 .. 2 /\ s.sent \in Nat /\ s.buf \in [1 .. 2 -> Seq(Nat)]
      /\ s.room \in Broken .. MaxRoom
      /\ x = s.buf[m] /\ x = Units(s.sent + 1, a) /\ s.sent < a /\ a <= b
  BY <1>1, <1>2 DEF Rec, Layout
<1>4. x \in Seq(Nat) /\ Len(x) = a - s.sent
  BY <1>3, UnitsShape
<1>5. PICK t : t = deflate_send(s)
  OBVIOUS
<1>6. CASE s.room = Broken
  <2>1. t = [s EXCEPT !.err = TRUE]
    BY <1>5, <1>6 DEF deflate_send
  <2>2. /\ t \in Rec /\ SameStream(s, t) /\ Same(s, t) /\ SameCounts(s, t) /\ SameFlags(s, t) /\ SameDeflate(s, t)
        /\ t.srv = s.srv /\ t.err
    BY <2>1 DEF Rec, SameStream, Same, SameCounts, SameFlags, SameDeflate
  <2>3. Layout(t, a, b, c, w)
    BY <2>2, LayoutFrame
  <2> QED BY <1>5, <2>2, <2>3 DEF SameStream, BuffersFit, FillBuf, Full
<1>7. CASE s.room # Broken
  <2>1. PICK r : r = Min({s.room, Len(x)})
    OBVIOUS
  <2>2. s.room \in Nat /\ s.room <= MaxRoom /\ MaxRoom \in Nat
    BY <1>3, <1>7, DeflateAssumption DEF Broken
  <2>3. r \in Nat /\ r <= s.room /\ r <= a - s.sent
    <3>1. {s.room, Len(x)} \subseteq Nat /\ {s.room, Len(x)} # {}
      BY <1>3, <1>4, <2>2
    <3>2. r \in {s.room, Len(x)} /\ \A y \in {s.room, Len(x)} : r <= y
      BY <2>1, <3>1, MinProperty
    <3> QED BY <1>3, <1>4, <2>2, <3>2
  <2>4. PICK n \in Nat : n = s.sent + r
    BY <1>3, <2>3
  <2>5. PICK y : y = SubSeq(x, r + 1, Len(x))
    OBVIOUS
  <2>6. s.sent <= n /\ n <= a /\ n - s.sent = r
    BY <1>3, <2>3, <2>4
  <2>7. y = Units(n + 1, a)
    <3>1. SubSeq(Units(s.sent + 1, a), n - s.sent + 1, a - s.sent) = Units(n + 1, a)
      BY <1>3, <2>6, UnitsSplit, ZenonT(60)
    <3> QED BY <1>3, <1>4, <2>5, <2>6, <3>1
  <2>8. y \in Seq(Nat) /\ Len(y) = a - n /\ (y = <<>> <=> n = a)
    BY <2>6, <2>7, UnitsShape
  <2>9. PICK bf : bf = [s.buf EXCEPT ![m] = y]
    OBVIOUS
  <2>10. bf \in [1 .. 2 -> Seq(Nat)] /\ bf[m] = y /\ \A i \in 1 .. 2 : i # m => bf[i] = s.buf[i]
    BY <1>3, <2>8, <2>9
  <2>11. PICK s1 : s1 = [s EXCEPT !.buf = bf, !.sent = n, !.room = s.room - r]
    OBVIOUS
  <2>12. s.room - r \in Broken .. MaxRoom
    BY <2>2, <2>3 DEF Broken
  <2>13. /\ s1 \in Rec /\ Same(s, s1) /\ SameCounts(s, s1) /\ SameFlags(s, s1) /\ SameDeflate(s, s1)
         /\ s1.buf = bf /\ s1.sent = n /\ s1.fill = s.fill /\ s1.send = m /\ s1.srv = s.srv /\ s1.err = s.err
    BY <1>2, <2>10, <2>11, <2>12 DEF Rec, Same, SameCounts, SameFlags, SameDeflate
  <2>14. t = IF r = Len(x) THEN [s1 EXCEPT !.send = 0] ELSE [s1 EXCEPT !.srv = TRUE]
    BY <1>1, <1>2, <1>5, <1>7, <2>1, <2>4, <2>5, <2>9, <2>11 DEF deflate_send
  <2>15. /\ t \in Rec /\ Same(s, t) /\ SameCounts(s, t) /\ SameFlags(s, t) /\ SameDeflate(s, t)
         /\ t.buf = bf /\ t.sent = n /\ t.fill = s.fill
         /\ t.send = (IF n = a THEN 0 ELSE m) /\ t.err = s.err
         /\ s.srv => t.srv
         /\ n # a => t.srv
    <3>1. r = Len(x) <=> n = a
      BY <1>3, <1>4, <2>3, <2>4, SMTT(60)
    <3>2. CASE n = a
      <4>1. t = [s1 EXCEPT !.send = 0]
        BY <2>14, <3>1, <3>2
      <4>2. t \in Rec
        <5>1. s1 \in Rec /\ 0 \in 0 .. 2
          BY <2>13
        <5> QED BY <4>1, <5>1 DEF Rec
      <4>3. /\ Same(s1, t) /\ SameCounts(s1, t) /\ SameFlags(s1, t) /\ SameDeflate(s1, t)
            /\ t.buf = s1.buf /\ t.sent = s1.sent /\ t.fill = s1.fill /\ t.send = 0 /\ t.srv = s1.srv /\ t.err = s1.err
        BY <2>13, <4>1 DEF Rec, Same, SameCounts, SameFlags, SameDeflate
      <4> QED BY <2>13, <3>2, <4>2, <4>3 DEF Same, SameCounts, SameFlags, SameDeflate
    <3>3. CASE n # a
      <4>1. t = [s1 EXCEPT !.srv = TRUE]
        BY <2>14, <3>1, <3>3
      <4> QED BY <2>13, <3>3, <4>1 DEF Rec, Same, SameCounts, SameFlags, SameDeflate
    <3> QED BY <3>2, <3>3
  <2>16. BuffersFit(t)
    <3> SUFFICES ASSUME NEW i \in 1 .. 2 PROVE Len(bf[i]) <= BufferSize
      BY <2>15 DEF BuffersFit
    <3>1. Len(x) <= BufferSize /\ BufferSize \in Nat
      BY <1>3, DeflateAssumption DEF BuffersFit
    <3>2. CASE i = m
      <4>1. Len(y) <= Len(x) /\ Len(y) \in Nat /\ Len(x) \in Nat
        BY <1>3, <1>4, <2>6, <2>8, SMTT(60)
      <4>2. bf[i] = y
        BY <2>10, <3>2
      <4> QED BY <3>1, <4>1, <4>2
    <3>3. CASE i # m
      BY <2>10, <3>3 DEF BuffersFit
    <3> QED BY <3>2, <3>3
  <2>17. s.send # s.fill => FillBuf(t) = FillBuf(s)
    BY <1>2, <1>3, <2>10, <2>15 DEF FillBuf
  <2>18. Layout(t, a, b, c, w)
    <3>1. /\ n <= a /\ a <= b /\ b <= c /\ c <= w
          /\ t.zout = Units(b + 1, c) /\ t.z = Units(c + 1, w)
      BY <2>6, <2>15 DEF Layout, SameDeflate
    <3>2. CASE m = s.fill
      <4>1. 3 - s.fill \in 1 .. 2 /\ 3 - s.fill # m
        BY <1>3, <3>2
      <4>2. Other(t) = <<>> /\ b = a
        BY <1>2, <2>10, <2>15, <3>2, <4>1 DEF Layout, Other
      <4>3. n = a => bf[m] = Units(a + 1, b)
        BY <2>7, <2>10, <4>2
      <4>4. n # a => n < a
        BY <2>6
      <4> QED BY <1>3, <2>7, <2>10, <2>15, <3>1, <3>2, <4>2, <4>3, <4>4 DEF Layout
    <3>3. CASE m # s.fill
      <4>1. 3 - s.fill = m
        BY <1>3, <3>3
      <4>2. t.buf[t.fill] = Units(a + 1, b)
        BY <1>2, <1>3, <2>10, <2>15, <3>3 DEF Layout
      <4>3. Other(t) = y
        BY <2>10, <2>15, <4>1 DEF Other
      <4>4. n # a => n < a
        BY <2>6
      <4> QED BY <1>3, <2>7, <2>8, <2>10, <2>15, <3>1, <3>3, <4>2, <4>3, <4>4 DEF Layout
    <3> QED BY <3>2, <3>3
  <2>19. Full(t) => Full(s)
    <3>1. CASE m = s.fill
      <4>1. FillBuf(t) = y /\ FillBuf(s) = x
        BY <1>3, <2>10, <2>15, <3>1 DEF FillBuf
      <4>2. Len(y) <= Len(x) /\ Len(y) \in Nat /\ Len(x) \in Nat /\ BufferSize \in Nat
        BY <1>3, <1>4, <2>6, <2>8, DeflateAssumption
      <4> QED BY <4>1, <4>2 DEF Full
    <3>2. CASE m # s.fill
      BY <1>2, <2>17, <3>2 DEF Full
    <3> QED BY <3>1, <3>2
  <2> QED BY <1>2, <1>5, <2>15, <2>16, <2>17, <2>18, <2>19
<1> QED BY <1>6, <1>7

\* deflate_rotate_and_send() leaves an empty filling buffer.
LEMMA RotateProperty ==
    ASSUME NEW s \in Rec, NEW a \in Nat, NEW b \in Nat, NEW c \in Nat, NEW w \in Nat,
           Layout(s, a, b, c, w), BuffersFit(s), s.send = 0, FillBuf(s) # <<>>
    PROVE  LET t == deflate_rotate_and_send(s)
           IN  /\ t \in Rec /\ Same(s, t) /\ SameCounts(s, t) /\ SameDeflate(s, t)
               /\ t.flowc = s.flowc /\ t.flush = s.flush /\ ~t.nagle /\ ~t.tm_ev
               /\ Layout(t, b, b, c, w) /\ BuffersFit(t)
               /\ FillBuf(t) = <<>> /\ ~Full(t) /\ t.send # t.fill
               /\ s.srv => t.srv
               /\ t.send # 0 /\ ~t.err => t.srv
<1>1. PICK s1 : s1 = [NagleStop(s) EXCEPT !.send = s.fill, !.fill = 3 - s.fill]
  OBVIOUS
<1>2. PICK s0 : s0 = NagleStop(s)
  OBVIOUS
<1>3. /\ s0 \in Rec /\ Same(s, s0) /\ SameCounts(s, s0) /\ SameDeflate(s, s0) /\ SameStream(s, s0)
      /\ s0.flowc = s.flowc /\ s0.flush = s.flush /\ ~s0.nagle /\ ~s0.tm_ev /\ s0.srv = s.srv
  BY <1>2, ZenonT(60) DEF NagleStop, Rec, Same, SameCounts, SameDeflate, SameStream
<1>4. s.fill \in 1 .. 2 /\ s.fill \in 0 .. 2 /\ 3 - s.fill \in 1 .. 2 /\ 3 - (3 - s.fill) = s.fill /\ s.fill # 3 - s.fill
      /\ s.fill # 0
  BY DEF Rec
<1>5. PICK m : m = s.fill
  OBVIOUS
<1>6. PICK k : k = 3 - s.fill
  OBVIOUS
<1>7. m \in 1 .. 2 /\ m \in 0 .. 2 /\ k \in 1 .. 2 /\ 3 - k = m /\ m # k /\ m # 0
  BY <1>4, <1>5, <1>6
<1>8. s1 = [s0 EXCEPT !.send = m, !.fill = k]
  BY <1>1, <1>2, <1>5, <1>6
<1>9. s1 \in Rec
  BY <1>3, <1>7, <1>8, ZenonT(60) DEF Rec
<1>10. /\ Same(s, s1) /\ SameCounts(s, s1) /\ SameDeflate(s, s1)
       /\ s1.flowc = s.flowc /\ s1.flush = s.flush /\ ~s1.nagle /\ ~s1.tm_ev /\ s1.srv = s.srv
       /\ s1.buf = s.buf /\ s1.sent = s.sent /\ s1.send = m /\ s1.fill = k
  <2>1. /\ Same(s0, s1) /\ SameCounts(s0, s1) /\ SameDeflate(s0, s1)
        /\ s1.flowc = s0.flowc /\ s1.flush = s0.flush /\ s1.nagle = s0.nagle /\ s1.tm_ev = s0.tm_ev /\ s1.srv = s0.srv
        /\ s1.buf = s0.buf /\ s1.sent = s0.sent /\ s1.send = m /\ s1.fill = k
    BY <1>3, <1>8 DEF Rec, Same, SameCounts, SameDeflate
  <2> QED BY <1>3, <2>1 DEF Same, SameCounts, SameDeflate, SameStream
<1>11. /\ s.sent \in Nat /\ a = s.sent /\ a <= b /\ b <= c /\ c <= w
       /\ s.buf[k] = <<>> /\ s.buf[m] = Units(a + 1, b) /\ s.buf[m] # <<>>
       /\ s.zout = Units(b + 1, c) /\ s.z = Units(c + 1, w)
  BY <1>4, <1>5, <1>6 DEF Layout, Other, FillBuf, Rec
<1>12. a < b
  BY <1>11, UnitsShape
<1>13. Units(b + 1, b) = <<>>
  BY UnitsShape
<1>14. Layout(s1, b, b, c, w)
  BY <1>7, <1>10, <1>11, <1>12, <1>13 DEF Layout, SameDeflate
<1>15. BuffersFit(s1) /\ s1.send # 0 /\ s1.send # s1.fill /\ FillBuf(s1) = <<>>
  BY <1>7, <1>10, <1>11 DEF BuffersFit, FillBuf
<1>16. PICK t : t = deflate_send(s1)
  OBVIOUS
<1>17. /\ t \in Rec /\ Same(s1, t) /\ SameCounts(s1, t) /\ SameFlags(s1, t) /\ SameDeflate(s1, t)
       /\ Layout(t, b, b, c, w) /\ BuffersFit(t)
       /\ t.fill = s1.fill /\ t.send \in {0, s1.send}
       /\ FillBuf(t) = FillBuf(s1)
       /\ s1.srv => t.srv
       /\ t.send # 0 /\ ~t.err => t.srv
  BY <1>9, <1>14, <1>15, <1>16, SendProperty
<1>18. t = deflate_rotate_and_send(s)
  BY <1>1, <1>16 DEF deflate_rotate_and_send
<1>19. t.send # t.fill
  BY <1>7, <1>10, <1>17
<1>20. ~Full(t)
  <2>1. FillBuf(t) = <<>> /\ BufferSize > 0 /\ BufferSize \in Nat
    BY <1>15, <1>17, DeflateAssumption
  <2> QED BY <2>1 DEF Full
<1> QED BY <1>10, <1>15, <1>17, <1>18, <1>19, <1>20 DEF Same, SameCounts, SameDeflate, SameFlags

----------------------------------------------------------------------------
(* The output of deflate().                                                *)

SameSend(s, t) ==
    t.fill = s.fill /\ t.send = s.send /\ t.sent = s.sent /\ t.srv = s.srv /\ t.err = s.err

\* What Output() moves from `zout' to the filling buffer: all of it, unless
\* the buffer is full then.
LEMMA OutputProperty ==
    ASSUME NEW s \in Rec, NEW a \in Nat, NEW b \in Nat, NEW c \in Nat, NEW w \in Nat,
           Layout(s, a, b, c, w), BuffersFit(s), s.send # s.fill
    PROVE  LET t == Output(s)
           IN  /\ t \in Rec /\ Same(s, t) /\ SameCounts(s, t) /\ SameFlags(s, t) /\ SameSend(s, t)
               /\ t.z = s.z /\ t.unflushed = s.unflushed
               /\ \E e \in Nat : Layout(t, a, e, c, w)
               /\ BuffersFit(t)
               /\ Len(t.zout) <= Len(s.zout)
               /\ ~Full(t) => t.zout = <<>>
               /\ ~Full(s) /\ Full(t) => Len(t.zout) < Len(s.zout)
<1>1. PICK m : m = s.fill
  OBVIOUS
<1>2. PICK x : x = s.buf[m]
  OBVIOUS
<1>3. PICK y : y = s.zout
  OBVIOUS
<1>4. /\ m \in 1 .. 2 /\ s.buf \in [1 .. 2 -> Seq(Nat)] /\ s.sent \in Nat /\ s.send \in 0 .. 2
      /\ s.sent <= a /\ a <= b /\ b <= c /\ c <= w
      /\ x = Units(a + 1, b) /\ y = Units(b + 1, c) /\ s.z = Units(c + 1, w)
      /\ s.send # m
  BY <1>1, <1>2, <1>3 DEF Rec, Layout
<1>5. x \in Seq(Nat) /\ Len(x) = b - a /\ y \in Seq(Nat) /\ Len(y) = c - b
  BY <1>4, UnitsShape
<1>6. Len(x) <= BufferSize /\ BufferSize \in Nat
  BY <1>2, <1>4, DeflateAssumption DEF BuffersFit
<1>7. PICK n : n = Min({Len(y), BufferSize - Len(x)})
  OBVIOUS
<1>8. n \in Nat /\ n <= c - b /\ n <= BufferSize - (b - a) /\ (n = c - b \/ n = BufferSize - (b - a))
  <2>1. {Len(y), BufferSize - Len(x)} \subseteq Nat /\ {Len(y), BufferSize - Len(x)} # {}
    BY <1>4, <1>5, <1>6
  <2>2. n \in {Len(y), BufferSize - Len(x)} /\ \A i \in {Len(y), BufferSize - Len(x)} : n <= i
    BY <1>7, <2>1, MinProperty
  <2> QED BY <1>4, <1>5, <1>6, <2>1, <2>2
<1>9. PICK e \in Nat : e = b + n
  BY <1>8
<1>10. b <= e /\ e <= c /\ e - b = n /\ a <= e
  BY <1>4, <1>8, <1>9
<1>11. PICK out : out = SubSeq(y, 1, n)
  OBVIOUS
<1>12. PICK rest : rest = SubSeq(y, n + 1, Len(y))
  OBVIOUS
<1>13. out = Units(b + 1, e) /\ rest = Units(e + 1, c)
  <2>1. SubSeq(Units(b + 1, c), 1, e - b) = Units(b + 1, e)
    BY <1>10, UnitsSplit
  <2>2. SubSeq(Units(b + 1, c), e - b + 1, c - b) = Units(e + 1, c)
    BY <1>10, UnitsSplit, ZenonT(60)
  <2> QED BY <1>4, <1>5, <1>10, <1>11, <1>12, <2>1, <2>2
<1>14. x \o out = Units(a + 1, e)
  BY <1>4, <1>10, <1>13, UnitsJoin
<1>15. PICK v : v = x \o out
  OBVIOUS
<1>16. v = Units(a + 1, e) /\ v \in Seq(Nat) /\ Len(v) = e - a /\ rest \in Seq(Nat) /\ Len(rest) = c - e
       /\ (rest = <<>> <=> e = c)
  <2>1. v = Units(a + 1, e)
    BY <1>14, <1>15
  <2>2. v \in Seq(Nat) /\ Len(v) = e - a
    BY <1>10, <2>1, UnitsShape
  <2>3. rest \in Seq(Nat) /\ Len(rest) = c - e /\ (rest = <<>> <=> e = c)
    BY <1>10, <1>13, UnitsShape
  <2> QED BY <2>1, <2>2, <2>3
<1>17. PICK bf : bf = [s.buf EXCEPT ![m] = v]
  OBVIOUS
<1>18. bf \in [1 .. 2 -> Seq(Nat)] /\ bf[m] = v /\ \A i \in 1 .. 2 : i # m => bf[i] = s.buf[i]
  BY <1>4, <1>16, <1>17
<1>19. PICK t : t = [s EXCEPT !.buf = bf, !.zout = rest]
  OBVIOUS
<1>20. t = Output(s)
  BY <1>1, <1>2, <1>3, <1>7, <1>11, <1>12, <1>15, <1>17, <1>19 DEF Output, FillBuf
<1>21. t \in Rec
  BY <1>16, <1>18, <1>19 DEF Rec
<1>22. /\ Same(s, t) /\ SameCounts(s, t) /\ SameFlags(s, t) /\ SameSend(s, t)
       /\ t.z = s.z /\ t.unflushed = s.unflushed /\ t.buf = bf /\ t.zout = rest
  BY <1>19 DEF Rec, Same, SameCounts, SameFlags, SameSend
<1>23. Layout(t, a, e, c, w)
  <2>1. /\ t.sent <= a /\ a <= e /\ e <= c /\ c <= w /\ t.zout = Units(e + 1, c) /\ t.z = Units(c + 1, w)
        /\ t.send # t.fill /\ t.buf[t.fill] = Units(a + 1, e)
    BY <1>1, <1>4, <1>10, <1>13, <1>16, <1>18, <1>22 DEF SameSend
  <2>2. 3 - m \in 1 .. 2 /\ 3 - m # m
    BY <1>4
  <2>3. t.send = 0 => a = t.sent /\ Other(t) = <<>>
    BY <1>1, <1>18, <1>22, <2>2 DEF SameSend, Other, Layout
  <2>4. t.send # 0 => a > t.sent /\ t.buf[t.send] = Units(t.sent + 1, a)
    <3> SUFFICES ASSUME s.send # 0 PROVE a > s.sent /\ bf[s.send] = Units(s.sent + 1, a)
      BY <1>22 DEF SameSend
    <3>1. s.send \in 1 .. 2
      BY <1>4
    <3> QED BY <1>4, <1>18, <3>1 DEF Layout
  <2> QED BY <2>1, <2>3, <2>4 DEF Layout
<1>24. BuffersFit(t)
  <2> SUFFICES ASSUME NEW i \in 1 .. 2 PROVE Len(bf[i]) <= BufferSize
    BY <1>22 DEF BuffersFit
  <2>1. Len(v) <= BufferSize
    <3>1. Len(v) = e - a
      BY <1>16
    <3>2. e - a <= BufferSize
      BY <1>4, <1>6, <1>8, <1>9
    <3> QED BY <3>1, <3>2
  <2>2. CASE i = m
    BY <1>18, <2>1, <2>2
  <2>3. CASE i # m
    BY <1>18, <2>3 DEF BuffersFit
  <2> QED BY <2>2, <2>3
<1>25. Full(t) <=> e - a >= BufferSize
  BY <1>1, <1>16, <1>18, <1>22 DEF Full, FillBuf, SameSend
<1>26. Full(s) <=> b - a >= BufferSize
  BY <1>1, <1>2, <1>5 DEF Full, FillBuf
<1>27. Len(t.zout) <= Len(s.zout)
  BY <1>3, <1>5, <1>10, <1>16, <1>22
<1>28. ~Full(t) => t.zout = <<>>
  <2>1. e - a < BufferSize => e = c
    BY <1>4, <1>6, <1>8, <1>9
  <2> QED BY <1>6, <1>10, <1>16, <1>22, <1>25, <2>1
<1>29. ~Full(s) /\ Full(t) => Len(t.zout) < Len(s.zout)
  <2>1. ~(b - a >= BufferSize) /\ e - a >= BufferSize => b < e
    BY <1>6, <1>9
  <2>2. b < e => c - e < c - b
    OBVIOUS
  <2> QED BY <1>3, <1>5, <1>16, <1>22, <1>25, <1>26, <2>1, <2>2
<1> QED BY <1>20, <1>21, <1>22, <1>23, <1>24, <1>27, <1>28, <1>29

\* EndBlock() gives all that deflate() keeps to its output.
LEMMA EndBlockProperty ==
    ASSUME NEW s \in Rec, NEW a \in Nat, NEW b \in Nat, NEW c \in Nat, NEW w \in Nat,
           Layout(s, a, b, c, w)
    PROVE  LET t == EndBlock(s)
           IN  /\ t \in Rec /\ Same(s, t) /\ SameCounts(s, t) /\ SameFlags(s, t) /\ SameSend(s, t)
               /\ t.buf = s.buf /\ t.unflushed = s.unflushed
               /\ t.z = <<>> /\ Len(t.zout) = Len(s.zout) + Len(s.z)
               /\ Layout(t, a, b, w, w)
<1>1. s.sent <= a /\ a <= b /\ b <= c /\ c <= w /\ s.zout = Units(b + 1, c) /\ s.z = Units(c + 1, w)
  BY DEF Layout
<1>2. b <= w
  BY <1>1
<1>3. PICK y : y = s.zout \o s.z
  OBVIOUS
<1>4. y = Units(b + 1, w)
  <2>1. Units(b + 1, c) \o Units(c + 1, w) = Units(b + 1, w)
    BY <1>1, UnitsJoin
  <2> QED BY <1>1, <1>3, <2>1
<1>5. /\ y \in Seq(Nat) /\ Len(y) = w - b
  BY <1>2, <1>4, UnitsShape
<1>6. Len(s.zout) = c - b /\ Len(s.z) = w - c /\ Units(w + 1, w) = <<>>
  <2>1. Len(Units(b + 1, c)) = c - b
    BY <1>1, UnitsShape
  <2>2. Len(Units(c + 1, w)) = w - c
    BY <1>1, UnitsShape
  <2>3. Units(w + 1, w) = <<>>
    BY UnitsShape
  <2> QED BY <1>1, <2>1, <2>2, <2>3
<1>7. PICK t : t = [s EXCEPT !.zout = y, !.z = <<>>]
  OBVIOUS
<1>8. t = EndBlock(s)
  BY <1>3, <1>7 DEF EndBlock
<1>9. t \in Rec
  <2>1. <<>> \in Seq(Nat)
    OBVIOUS
  <2> QED BY <1>5, <1>7, <2>1 DEF Rec
<1>10. /\ Same(s, t) /\ SameCounts(s, t) /\ SameFlags(s, t) /\ SameSend(s, t)
       /\ t.buf = s.buf /\ t.unflushed = s.unflushed /\ t.z = <<>> /\ t.zout = y
  BY <1>7 DEF Rec, Same, SameCounts, SameFlags, SameSend
<1>11. Layout(t, a, b, w, w)
  BY <1>1, <1>2, <1>4, <1>6, <1>10 DEF Layout, Other, SameSend
<1>12. Len(t.zout) = Len(s.zout) + Len(s.z)
  BY <1>1, <1>5, <1>6, <1>10
<1> QED BY <1>8, <1>9, <1>10, <1>11, <1>12

----------------------------------------------------------------------------
(* Loops.                                                                  *)

\* A round of a loop whose body is f, from l.
Round(f, l) == IF l.go THEN f[l] ELSE l

\* The rounds of a loop, from `start', within S.
Rounds(S, f, start, N, r) ==
    r \in [0 .. N -> S] /\ r[0] = start /\ \A n \in 1 .. N : r[n] = Round(f, r[n - 1])

\* The rounds of a loop exist, each in the set that the body stays in.
LEMMA RoundsExist ==
    ASSUME NEW S, NEW f, NEW start \in S, NEW N \in Nat, \A l \in S : l.go => f[l] \in S
    PROVE  \E r : Rounds(S, f, start, N, r)
<1> DEFINE Is(k, r) == r \in [0 .. k -> S] /\ r[0] = start /\ \A n \in 1 .. k : r[n] = Round(f, r[n - 1])
           K == {k \in Nat : \E r : Is(k, r)}
<1>1. ASSUME NEW l \in S PROVE Round(f, l) \in S
  BY DEF Round
<1>2. 0 \in K
  <2> DEFINE r == [n \in 0 .. 0 |-> start]
  <2>1. r \in [0 .. 0 -> S] /\ r[0] = start /\ 1 .. 0 = {}
    OBVIOUS
  <2>2. Is(0, r)
    <3> HIDE DEF r
    <3> QED BY <2>1
  <2> QED BY <2>2
<1>3. ASSUME NEW k \in K PROVE k + 1 \in K
  <2>1. k \in Nat
    OBVIOUS
  <2>2. PICK r : Is(k, r)
    OBVIOUS
  <2>3. r \in [0 .. k -> S] /\ r[0] = start /\ \A n \in 1 .. k : r[n] = Round(f, r[n - 1])
    BY <2>2
  <2>4. PICK x \in S : x = Round(f, r[k])
    BY <1>1, <2>1, <2>3
  <2> DEFINE q == [n \in 0 .. k + 1 |-> IF n <= k THEN r[n] ELSE x]
  <2>5. /\ \A n \in 0 .. k : q[n] = r[n]
        /\ q[k + 1] = x /\ 0 \in 0 .. k
    BY <2>1
  <2>6. q \in [0 .. k + 1 -> S]
    BY <2>1, <2>3
  <2> HIDE DEF q, Is
  <2>7. ASSUME NEW n \in 1 .. k + 1 PROVE q[n] = Round(f, q[n - 1])
    <3>1. n - 1 \in 0 .. k
      BY <2>1
    <3>2. CASE n = k + 1
      <4>1. n - 1 = k
        BY <2>1, <3>2
      <4> QED BY <2>4, <2>5, <3>1, <3>2, <4>1
    <3>3. CASE n # k + 1
      <4>1. n \in 1 .. k /\ n \in 0 .. k
        BY <2>1, <3>3
      <4>2. q[n] = r[n] /\ q[n - 1] = r[n - 1]
        BY <2>5, <3>1, <4>1
      <4>3. r[n] = Round(f, r[n - 1])
        BY <2>3, <4>1
      <4> QED BY <4>2, <4>3
    <3> QED BY <3>2, <3>3
  <2>8. Is(k + 1, q)
    BY <2>3, <2>5, <2>6, <2>7 DEF Is
  <2>9. k + 1 \in Nat
    BY <2>1
  <2> QED BY <2>8, <2>9
<1>4. K = Nat
  <2>1. K \subseteq Nat
    OBVIOUS
  <2> HIDE DEF K
  <2> QED BY <1>2, <1>3, <2>1, SetInduction
<1>5. \E r : Is(N, r)
  BY <1>4
<1> QED BY <1>5 DEF Rounds

\* A loop whose rounds decrease a measure ends in as many rounds.
LEMMA RoundsEnd ==
    ASSUME NEW S, NEW f, NEW start \in S, NEW N \in Nat, NEW mu \in [S -> Nat], NEW r,
           \A l \in S : l.go => f[l] \in S /\ (f[l].go => mu[f[l]] < mu[l]),
           mu[start] < N, r[0] = start,
           \A n \in 1 .. N : r[n - 1] \in S => r[n] = Round(f, r[n - 1])
    PROVE  r[N] \in S /\ ~r[N].go
<1> DEFINE T == {n \in Nat : n <= N => r[n] \in S /\ (r[n].go => mu[r[n]] + n <= mu[start])}
<1>1. mu[start] \in Nat
  OBVIOUS
<1>2. 0 \in T
  BY <1>1
<1>3. ASSUME NEW n \in T PROVE n + 1 \in T
  <2>1. n \in Nat
    OBVIOUS
  <2>2. SUFFICES ASSUME n + 1 <= N
                 PROVE  r[n + 1] \in S /\ (r[n + 1].go => mu[r[n + 1]] + (n + 1) <= mu[start])
    BY <2>1
  <2>3. r[n] \in S /\ (r[n].go => mu[r[n]] + n <= mu[start])
    BY <2>1, <2>2
  <2>4. n + 1 \in 1 .. N /\ (n + 1) - 1 = n
    BY <2>1, <2>2
  <2>5. PICK x : x = r[n]
    OBVIOUS
  <2>6. PICK y : y = r[n + 1]
    OBVIOUS
  <2>7. r[(n + 1) - 1] = x
    BY <2>4, <2>5
  <2>8. y = Round(f, x) /\ x \in S
    <3>1. x \in S
      BY <2>3, <2>5
    <3>2. r[(n + 1) - 1] \in S => r[n + 1] = Round(f, r[(n + 1) - 1])
      BY <2>4
    <3> QED BY <2>6, <2>7, <3>1, <3>2
  <2>9. CASE x.go
    <3>1. y = f[x]
      BY <2>8, <2>9 DEF Round
    <3>2. y \in S /\ (y.go => mu[y] < mu[x])
      BY <2>8, <2>9, <3>1
    <3>3. mu[x] \in Nat /\ mu[y] \in Nat /\ mu[x] + n <= mu[start]
      BY <2>3, <2>5, <2>8, <2>9, <3>2
    <3>4. y.go => mu[y] + (n + 1) <= mu[start]
      BY <1>1, <2>1, <3>2, <3>3
    <3> QED BY <2>6, <3>2, <3>4
  <2>10. CASE ~x.go
    <3>1. y = x
      BY <2>8, <2>10 DEF Round
    <3> QED BY <2>6, <2>8, <2>10, <3>1
  <2> QED BY <2>9, <2>10
<1>4. T = Nat
  <2>1. T \subseteq Nat
    OBVIOUS
  <2> HIDE DEF T
  <2> QED BY <1>2, <1>3, <2>1, SetInduction
<1>5. r[N] \in S /\ (r[N].go => mu[r[N]] + N <= mu[start])
  BY <1>4
<1>6. r[N].go => mu[r[N]] \in Nat
  BY <1>5
<1> QED BY <1>1, <1>5, <1>6

\* The loop of deflate_flush() stays in a set that its rounds do not leave,
\* and ends if they decrease a measure.
LEMMA FlushLoop ==
    ASSUME NEW S, NEW start \in S, NEW mu \in [S -> Nat],
           \A l \in S : l.go => /\ FlushStep(l) \in S
                                /\ FlushStep(l).go => mu[FlushStep(l)] < mu[l],
           mu[start] <= MaxUnits + 1
    PROVE  Loop(FlushStep, start) \in S /\ ~Loop(FlushStep, start).go
<1> DEFINE N == MaxUnits + 2
           Is(r) == r = [n \in 0 .. N |-> IF n = 0 THEN start
                                          ELSE IF r[n - 1].go THEN FlushStep(r[n - 1]) ELSE r[n - 1]]
           G == CHOOSE r : Is(r)
           f == [l \in S |-> FlushStep(l)]
<1>1. N \in Nat /\ mu[start] < N
  BY DeflateAssumption
<1>2. Loop(FlushStep, start) = G[N]
  BY Zenon DEF Loop
<1>3. \A l \in S : f[l] = FlushStep(l)
  OBVIOUS
<1> HIDE DEF f, N
<1>4. \A l \in S : l.go => f[l] \in S /\ (f[l].go => mu[f[l]] < mu[l])
  BY <1>3
<1>5. PICK r : r \in [0 .. N -> S] /\ r[0] = start /\ \A n \in 1 .. N : r[n] = Round(f, r[n - 1])
  <2>1. N \in Nat /\ \A l \in S : l.go => f[l] \in S
    BY <1>1, <1>4
  <2>2. \E r : Rounds(S, f, start, N, r)
    BY <2>1, RoundsExist
  <2> QED BY <2>2 DEF Rounds
<1>6. Is(r)
  <2>1. r = [n \in 0 .. N |-> r[n]]
    BY <1>5
  <2>2. ASSUME NEW n \in 0 .. N
        PROVE  r[n] = IF n = 0 THEN start ELSE IF r[n - 1].go THEN FlushStep(r[n - 1]) ELSE r[n - 1]
    <3>1. CASE n = 0
      BY <1>5, <3>1
    <3>2. CASE n # 0
      <4>1. n \in 1 .. N /\ n - 1 \in 0 .. N
        BY <1>1, <3>2
      <4>2. r[n - 1] \in S
        BY <1>5, <4>1
      <4>3. r[n] = Round(f, r[n - 1])
        BY <1>5, <4>1
      <4> QED BY <1>3, <3>2, <4>2, <4>3 DEF Round
    <3> QED BY <3>1, <3>2
  <2> QED BY <2>1, <2>2, Zenon
<1>7. Is(G)
  <2> HIDE DEF Is
  <2> QED BY <1>6
<1> HIDE DEF G
<1>8. G[0] = start
  BY <1>1, <1>7
<1>9. ASSUME NEW n \in 1 .. N, G[n - 1] \in S PROVE G[n] = Round(f, G[n - 1])
  <2>1. n \in 0 .. N /\ n # 0
    BY <1>1
  <2>2. G[n] = IF G[n - 1].go THEN FlushStep(G[n - 1]) ELSE G[n - 1]
    BY <1>7, <2>1
  <2> QED BY <1>3, <1>9, <2>2 DEF Round
<1>10. G[N] \in S /\ ~G[N].go
  <2> HIDE DEF Is
  <2> QED BY <1>1, <1>4, <1>8, <1>9, RoundsEnd
<1> QED BY <1>2, <1>10

\* The same of deflate_add().
LEMMA AddLoop ==
    ASSUME NEW S, NEW start \in S, NEW mu \in [S -> Nat],
           \A l \in S : l.go => /\ AddStep(l) \in S
                                /\ AddStep(l).go => mu[AddStep(l)] < mu[l],
           mu[start] <= MaxUnits + 1
    PROVE  Loop(AddStep, start) \in S /\ ~Loop(AddStep, start).go
<1> DEFINE N == MaxUnits + 2
           Is(r) == r = [n \in 0 .. N |-> IF n = 0 THEN start
                                          ELSE IF r[n - 1].go THEN AddStep(r[n - 1]) ELSE r[n - 1]]
           G == CHOOSE r : Is(r)
           f == [l \in S |-> AddStep(l)]
<1>1. N \in Nat /\ mu[start] < N
  BY DeflateAssumption
<1>2. Loop(AddStep, start) = G[N]
  BY Zenon DEF Loop
<1>3. \A l \in S : f[l] = AddStep(l)
  OBVIOUS
<1> HIDE DEF f, N
<1>4. \A l \in S : l.go => f[l] \in S /\ (f[l].go => mu[f[l]] < mu[l])
  BY <1>3
<1>5. PICK r : r \in [0 .. N -> S] /\ r[0] = start /\ \A n \in 1 .. N : r[n] = Round(f, r[n - 1])
  <2>1. N \in Nat /\ \A l \in S : l.go => f[l] \in S
    BY <1>1, <1>4
  <2>2. \E r : Rounds(S, f, start, N, r)
    BY <2>1, RoundsExist
  <2> QED BY <2>2 DEF Rounds
<1>6. Is(r)
  <2>1. r = [n \in 0 .. N |-> r[n]]
    BY <1>5
  <2>2. ASSUME NEW n \in 0 .. N
        PROVE  r[n] = IF n = 0 THEN start ELSE IF r[n - 1].go THEN AddStep(r[n - 1]) ELSE r[n - 1]
    <3>1. CASE n = 0
      BY <1>5, <3>1
    <3>2. CASE n # 0
      <4>1. n \in 1 .. N /\ n - 1 \in 0 .. N
        BY <1>1, <3>2
      <4>2. r[n - 1] \in S
        BY <1>5, <4>1
      <4>3. r[n] = Round(f, r[n - 1])
        BY <1>5, <4>1
      <4> QED BY <1>3, <3>2, <4>2, <4>3 DEF Round
    <3> QED BY <3>1, <3>2
  <2> QED BY <2>1, <2>2, Zenon
<1>7. Is(G)
  <2> HIDE DEF Is
  <2> QED BY <1>6
<1> HIDE DEF G
<1>8. G[0] = start
  BY <1>1, <1>7
<1>9. ASSUME NEW n \in 1 .. N, G[n - 1] \in S PROVE G[n] = Round(f, G[n - 1])
  <2>1. n \in 0 .. N /\ n # 0
    BY <1>1
  <2>2. G[n] = IF G[n - 1].go THEN AddStep(G[n - 1]) ELSE G[n - 1]
    BY <1>7, <2>1
  <2> QED BY <1>3, <1>9, <2>2 DEF Round
<1>10. G[N] \in S /\ ~G[N].go
  <2> HIDE DEF Is
  <2> QED BY <1>1, <1>4, <1>8, <1>9, RoundsEnd
<1> QED BY <1>2, <1>10

----------------------------------------------------------------------------
(* Flushing.                                                               *)

\* deflate() holds no more than what the layer was given.
LEMMA HeldBound ==
    ASSUME NEW s, NEW w, Sound(s, w)
    PROVE  /\ s.zout \in Seq(Nat) /\ s.z \in Seq(Nat)
           /\ Len(s.zout) \in Nat /\ Len(s.z) \in Nat
           /\ w \in Nat /\ Len(s.zout) + Len(s.z) <= w
<1>1. s \in Rec /\ w \in Nat
  BY DEF Sound
<1>2. PICK a, b, c \in Nat : Layout(s, a, b, c, w)
  BY DEF Sound
<1>3. s.sent \in Nat /\ s.zout \in Seq(Nat) /\ s.z \in Seq(Nat)
  BY <1>1 DEF Rec
<1>4. /\ s.sent <= a /\ a <= b /\ b <= c /\ c <= w
      /\ s.zout = Units(b + 1, c) /\ s.z = Units(c + 1, w)
  BY <1>2 DEF Layout
<1>5. Len(s.zout) = c - b
  BY <1>4, UnitsShape
<1>6. Len(s.z) = w - c
  BY <1>1, <1>4, UnitsShape
<1> QED BY <1>1, <1>3, <1>4, <1>5, <1>6

\* Output() in the states of deflate_add() and deflate_flush().
LEMMA OutputWorks ==
    ASSUME NEW s, NEW w, Working(s, w)
    PROVE  LET t == Output(s)
           IN  /\ Working(t, w)
               /\ Same(s, t) /\ SameCounts(s, t) /\ SameFlags(s, t) /\ SameSend(s, t)
               /\ t.z = s.z /\ t.unflushed = s.unflushed
               /\ Len(t.zout) <= Len(s.zout)
               /\ ~Full(t) => t.zout = <<>>
               /\ ~Full(s) /\ Full(t) => Len(t.zout) < Len(s.zout)
<1>1. s \in Rec /\ w \in Nat /\ BuffersFit(s) /\ s.send # s.fill /\ Sound(s, w)
  BY DEF Working, Sound
<1>2. PICK a, b, c \in Nat : Layout(s, a, b, c, w)
  BY DEF Working, Sound
<1>3. PICK t : t = Output(s)
  OBVIOUS
<1>4. /\ t \in Rec /\ Same(s, t) /\ SameCounts(s, t) /\ SameFlags(s, t) /\ SameSend(s, t)
      /\ t.z = s.z /\ t.unflushed = s.unflushed
      /\ \E e \in Nat : Layout(t, a, e, c, w)
      /\ BuffersFit(t)
      /\ Len(t.zout) <= Len(s.zout)
      /\ ~Full(t) => t.zout = <<>>
      /\ ~Full(s) /\ Full(t) => Len(t.zout) < Len(s.zout)
  BY <1>1, <1>2, <1>3, OutputProperty
<1>5. s.zout = <<>> => t.zout = <<>>
  <2>1. t.zout \in Seq(Nat)
    BY <1>4 DEF Rec
  <2>2. s.zout = <<>> => Len(t.zout) <= 0
    BY <1>4
  <2> QED BY <2>1, <2>2
<1>6. Sound(t, w)
  <2>1. \E x, y, z \in Nat : Layout(t, x, y, z, w)
    BY <1>4
  <2> QED BY <1>1, <1>4, <1>5, <2>1 DEF Sound, Drained, Same, SameFlags
<1>7. Working(t, w)
  BY <1>4, <1>6 DEF Working, SameSend
<1> QED BY <1>3, <1>4, <1>7

\* EndBlock() in these states.
LEMMA EndBlockWorks ==
    ASSUME NEW s, NEW w, Working(s, w)
    PROVE  LET t == EndBlock(s)
           IN  /\ Working(t, w)
               /\ Same(s, t) /\ SameCounts(s, t) /\ SameFlags(s, t) /\ SameSend(s, t)
               /\ t.buf = s.buf /\ t.unflushed = s.unflushed
               /\ t.z = <<>> /\ Len(t.zout) = Len(s.zout) + Len(s.z)
               /\ Full(t) <=> Full(s)
<1>1. s \in Rec /\ w \in Nat /\ BuffersFit(s) /\ s.send # s.fill /\ Sound(s, w)
  BY DEF Working, Sound
<1>2. PICK a, b, c \in Nat : Layout(s, a, b, c, w)
  BY DEF Working, Sound
<1>3. PICK t : t = EndBlock(s)
  OBVIOUS
<1>4. /\ t \in Rec /\ Same(s, t) /\ SameCounts(s, t) /\ SameFlags(s, t) /\ SameSend(s, t)
      /\ t.buf = s.buf /\ t.unflushed = s.unflushed
      /\ t.z = <<>> /\ Len(t.zout) = Len(s.zout) + Len(s.z)
      /\ Layout(t, a, b, w, w)
  BY <1>1, <1>2, <1>3, EndBlockProperty
<1>5. Drained(s) => Drained(t)
  <2>1. t.zout \in Seq(Nat)
    BY <1>4 DEF Rec
  <2>2. Drained(s) => Len(t.zout) = 0
    BY <1>4 DEF Drained
  <2> QED BY <1>4, <2>1, <2>2 DEF Drained
<1>6. Sound(t, w)
  <2>1. \E x, y, z \in Nat : Layout(t, x, y, z, w)
    BY <1>1, <1>4
  <2>2. BuffersFit(t)
    BY <1>1, <1>4 DEF BuffersFit
  <2> QED BY <1>1, <1>4, <1>5, <2>1, <2>2 DEF Sound, Same, SameFlags
<1>7. Working(t, w)
  BY <1>1, <1>4, <1>6 DEF Working, SameSend
<1>8. Full(t) <=> Full(s)
  BY <1>4 DEF Full, FillBuf, SameSend
<1> QED BY <1>3, <1>4, <1>7, <1>8

\* deflate_rotate_and_send() in these states.
LEMMA RotateWorks ==
    ASSUME NEW s, NEW w, Working(s, w), s.send = 0, FillBuf(s) # <<>>
    PROVE  LET t == deflate_rotate_and_send(s)
           IN  /\ Working(t, w)
               /\ Same(s, t) /\ SameCounts(s, t) /\ SameDeflate(s, t)
               /\ t.flowc = s.flowc /\ t.flush = s.flush
               /\ ~Full(t) /\ FillBuf(t) = <<>> /\ (s.srv => t.srv)
<1>1. s \in Rec /\ w \in Nat /\ BuffersFit(s) /\ s.send # s.fill /\ Sound(s, w)
  BY DEF Working, Sound
<1>2. PICK a, b, c \in Nat : Layout(s, a, b, c, w)
  BY DEF Working, Sound
<1>3. PICK t : t = deflate_rotate_and_send(s)
  OBVIOUS
<1>4. /\ t \in Rec /\ Same(s, t) /\ SameCounts(s, t) /\ SameDeflate(s, t)
      /\ t.flowc = s.flowc /\ t.flush = s.flush /\ ~t.nagle /\ ~t.tm_ev
      /\ Layout(t, b, b, c, w) /\ BuffersFit(t)
      /\ FillBuf(t) = <<>> /\ ~Full(t) /\ t.send # t.fill
      /\ s.srv => t.srv
      /\ t.send # 0 /\ ~t.err => t.srv
  BY <1>1, <1>2, <1>3, RotateProperty
<1>5. Sound(t, w)
  <2>1. \E x, y, z \in Nat : Layout(t, x, y, z, w)
    BY <1>4
  <2> QED BY <1>1, <1>4, <2>1 DEF Sound, Drained, Same, SameDeflate
<1>6. Working(t, w)
  BY <1>4, <1>5 DEF Working
<1> QED BY <1>3, <1>4, <1>6

\* How deflate_flush() ends: with an error, in flow control, or with nothing
\* left in deflate().
Stuck(t) == Full(t) /\ t.send # 0 /\ t.flowc
Flushed(t) == ~Full(t) /\ ~t.flowc /\ t.unflushed = 0 /\ Drained(t) /\ ~t.flush
FlushEnded(t) == (t.err /\ ~Full(t) /\ ~t.flowc) \/ Stuck(t) \/ Flushed(t)

\* The state t comes from s, through deflate_add() or deflate_flush().
Follows(s, t, w) == Working(t, w) /\ Same(s, t) /\ (s.srv => t.srv)

\* What the rounds of deflate_flush(s) maintain.
FlushStates(s) ==
    {l \in [s : Rec, go : BOOLEAN] :
        /\ Follows(s, l.s, s.written) /\ SameCounts(s, l.s)
        /\ l.s.z = <<>>
        /\ IF l.go THEN ~Full(l.s) /\ ~l.s.flowc ELSE FlushEnded(l.s)}

\* A full buffer is not empty.
LEMMA FullNotEmpty ==
    ASSUME NEW s, Full(s)
    PROVE  FillBuf(s) # <<>>
BY DeflateAssumption DEF Full

\* A round of deflate_flush(): it goes on after having sent a full buffer.
LEMMA FlushStepProperty ==
    ASSUME NEW s, NEW l \in FlushStates(s), l.go
    PROVE  /\ FlushStep(l) \in FlushStates(s)
           /\ FlushStep(l).go => Len(FlushStep(l).s.zout) < Len(l.s.zout)
<1> DEFINE w == s.written
<1>1. /\ Working(l.s, w) /\ Same(s, l.s) /\ (s.srv => l.s.srv) /\ SameCounts(s, l.s)
      /\ l.s.z = <<>> /\ ~Full(l.s) /\ ~l.s.flowc
  BY DEF FlushStates, Follows
<1>2. PICK o : o = Output(l.s)
  OBVIOUS
<1>3. /\ Working(o, w)
      /\ Same(l.s, o) /\ SameCounts(l.s, o) /\ SameFlags(l.s, o) /\ SameSend(l.s, o)
      /\ o.z = l.s.z /\ o.unflushed = l.s.unflushed
      /\ Len(o.zout) <= Len(l.s.zout)
      /\ ~Full(o) => o.zout = <<>>
      /\ ~Full(l.s) /\ Full(o) => Len(o.zout) < Len(l.s.zout)
  BY <1>1, <1>2, OutputWorks
<1>4. Same(s, o) /\ SameCounts(s, o) /\ (s.srv => o.srv) /\ ~o.flowc /\ o.z = <<>>
  BY <1>1, <1>3 DEF Same, SameCounts, SameFlags, SameSend
<1>5. o \in Rec /\ Sound(o, w) /\ o.send # o.fill /\ (o.send # 0 /\ ~o.err => o.srv)
  BY <1>3 DEF Working, Sound
<1>6. PICK q : q = FlushStep(l)
  OBVIOUS
<1>7. q = FlushOutput(o)
  BY <1>2, <1>6 DEF FlushStep
<1>8. CASE ~Full(o)
  <2>1. PICK t : t = deflate_flushed(o)
    OBVIOUS
  <2>2. q = [s |-> t, go |-> FALSE]
    BY <1>7, <1>8, <2>1 DEF FlushOutput
  <2>3. /\ t \in Rec /\ Same(o, t) /\ SameCounts(o, t) /\ SameSend(o, t) /\ SameStream(o, t)
        /\ t.flowc = o.flowc /\ t.nagle = o.nagle /\ t.tm_ev = o.tm_ev
        /\ t.unflushed = 0 /\ ~t.flush
    BY <1>5, <2>1 DEF deflate_flushed, Rec, Same, SameCounts, SameSend, SameStream
  <2>4. Drained(t)
    BY <1>3, <1>4, <1>8, <2>3 DEF Drained, SameStream
  <2>5. Sound(t, w)
    <3>1. PICK a, b, c \in Nat : Layout(o, a, b, c, w)
      BY <1>5 DEF Sound
    <3>2. Layout(t, a, b, c, w)
      BY <2>3, <3>1, LayoutFrame
    <3>3. \E x, y, z \in Nat : Layout(t, x, y, z, w)
      BY <3>2
    <3>4. BuffersFit(t) /\ t.unflushed <= w /\ w \in Nat /\ w <= MaxUnits + 1
      BY <1>5, <2>3 DEF Sound, BuffersFit, SameStream
    <3> QED BY <1>5, <2>3, <2>4, <3>3, <3>4 DEF Sound, Same
  <2>6. Working(t, w) /\ ~Full(t)
    BY <1>5, <1>8, <2>3, <2>5 DEF Working, SameSend, SameStream, Full, FillBuf
  <2>7. Same(s, t) /\ SameCounts(s, t) /\ (s.srv => t.srv) /\ t.z = <<>> /\ ~t.flowc
    BY <1>4, <2>3 DEF Same, SameCounts, SameSend, SameStream
  <2>8. FlushEnded(t)
    BY <2>3, <2>4, <2>6, <2>7 DEF FlushEnded, Flushed
  <2>9. q \in [s : Rec, go : BOOLEAN] /\ q.s = t /\ q.go = FALSE
    BY <2>2, <2>3
  <2> QED BY <1>6, <2>6, <2>7, <2>8, <2>9 DEF FlushStates, Follows
<1>9. CASE Full(o) /\ o.send # 0
  <2>1. PICK t : t = [o EXCEPT !.flush = TRUE, !.flowc = TRUE]
    OBVIOUS
  <2>2. q = [s |-> t, go |-> FALSE]
    BY <1>7, <1>9, <2>1 DEF FlushOutput, FlushFull
  <2>3. /\ t \in Rec /\ Same(o, t) /\ SameCounts(o, t) /\ SameSend(o, t) /\ SameStream(o, t)
        /\ t.flowc /\ t.nagle = o.nagle /\ t.tm_ev = o.tm_ev /\ t.unflushed = o.unflushed
    BY <1>5, <2>1 DEF Rec, Same, SameCounts, SameSend, SameStream
  <2>4. Sound(t, w)
    <3>1. PICK a, b, c \in Nat : Layout(o, a, b, c, w)
      BY <1>5 DEF Sound
    <3>2. Layout(t, a, b, c, w)
      BY <2>3, <3>1, LayoutFrame
    <3>3. \E x, y, z \in Nat : Layout(t, x, y, z, w)
      BY <3>2
    <3>4. BuffersFit(t) /\ t.unflushed <= w /\ w \in Nat /\ w <= MaxUnits + 1
      BY <1>5, <2>3 DEF Sound, BuffersFit, SameStream
    <3> QED BY <1>5, <2>3, <3>3, <3>4 DEF Sound, Same, SameStream, Drained
  <2>5. Working(t, w) /\ Full(t) /\ t.send # 0
    BY <1>5, <1>9, <2>3, <2>4 DEF Working, SameSend, SameStream, Full, FillBuf
  <2>6. Same(s, t) /\ SameCounts(s, t) /\ (s.srv => t.srv) /\ t.z = <<>>
    BY <1>4, <2>3 DEF Same, SameCounts, SameSend, SameStream
  <2>7. FlushEnded(t)
    BY <2>3, <2>5 DEF FlushEnded, Stuck
  <2>8. q \in [s : Rec, go : BOOLEAN] /\ q.s = t /\ q.go = FALSE
    BY <2>2, <2>3
  <2> QED BY <1>6, <2>5, <2>6, <2>7, <2>8 DEF FlushStates, Follows
<1>10. CASE Full(o) /\ o.send = 0
  <2>1. PICK t : t = deflate_rotate_and_send(o)
    OBVIOUS
  <2>2. q = [s |-> t, go |-> ~t.err]
    BY <1>7, <1>10, <2>1 DEF FlushOutput, FlushFull
  <2>3. FillBuf(o) # <<>>
    BY <1>10, FullNotEmpty
  <2>4. /\ Working(t, w)
        /\ Same(o, t) /\ SameCounts(o, t) /\ SameDeflate(o, t)
        /\ t.flowc = o.flowc /\ t.flush = o.flush
        /\ ~Full(t) /\ (o.srv => t.srv)
    BY <1>3, <1>10, <2>1, <2>3, RotateWorks
  <2>5. Same(s, t) /\ SameCounts(s, t) /\ (s.srv => t.srv) /\ t.z = <<>> /\ ~t.flowc /\ t.zout = o.zout
    BY <1>4, <2>4 DEF Same, SameCounts, SameDeflate
  <2>6. t \in Rec /\ t.err \in BOOLEAN
    BY <2>4 DEF Working, Sound, Rec
  <2>7. q \in [s : Rec, go : BOOLEAN] /\ q.s = t /\ q.go = ~t.err
    BY <2>2, <2>6
  <2>8. ~q.go => FlushEnded(t)
    BY <2>4, <2>5, <2>7 DEF FlushEnded
  <2>9. Len(t.zout) < Len(l.s.zout)
    BY <1>1, <1>3, <1>10, <2>5
  <2> QED BY <1>6, <2>4, <2>5, <2>7, <2>8, <2>9 DEF FlushStates, Follows
<1> QED BY <1>8, <1>9, <1>10

\* deflate_flush() ends, in one of the three ways.
LEMMA FlushProperty ==
    ASSUME NEW s, Working(s, s.written), ~Full(s), ~s.flowc
    PROVE  LET t == deflate_flush(s)
           IN  Follows(s, t, s.written) /\ SameCounts(s, t) /\ FlushEnded(t)
<1> DEFINE S == FlushStates(s)
           mu == [l \in S |-> Len(l.s.zout)]
<1>1. PICK t : t = EndBlock(s)
  OBVIOUS
<1>2. /\ Working(t, s.written)
      /\ Same(s, t) /\ SameCounts(s, t) /\ SameFlags(s, t) /\ SameSend(s, t)
      /\ t.z = <<>> /\ (Full(t) <=> Full(s))
  BY <1>1, EndBlockWorks
<1>3. PICK start : start = [s |-> t, go |-> TRUE]
  OBVIOUS
<1>4. t \in Rec
  BY <1>2 DEF Working, Sound
<1>5. start \in [s : Rec, go : BOOLEAN] /\ start.s = t /\ start.go = TRUE
  BY <1>3, <1>4
<1>6. start \in S
  BY <1>2, <1>5 DEF FlushStates, Follows, SameFlags, SameSend
<1>7. ASSUME NEW l \in S PROVE Len(l.s.zout) \in Nat /\ Len(l.s.zout) <= MaxUnits + 1
  <2>1. Sound(l.s, s.written)
    BY DEF FlushStates, Follows, Working
  <2>2. s.written <= MaxUnits + 1 /\ MaxUnits \in Nat
    BY <2>1, DeflateAssumption DEF Sound
  <2>3. PICK x : x = Len(l.s.zout)
    OBVIOUS
  <2>4. PICK y : y = Len(l.s.z)
    OBVIOUS
  <2>5. x \in Nat /\ y \in Nat /\ s.written \in Nat /\ x + y <= s.written
    BY <2>1, <2>3, <2>4, HeldBound
  <2>6. x <= MaxUnits + 1
    BY <2>2, <2>5
  <2> QED BY <2>3, <2>5, <2>6
<1>8. \A l \in S : l.go => /\ FlushStep(l) \in S
                           /\ FlushStep(l).go => Len(FlushStep(l).s.zout) < Len(l.s.zout)
  BY FlushStepProperty
<1> HIDE DEF S
<1>9. mu \in [S -> Nat] /\ \A l \in S : mu[l] = Len(l.s.zout)
  BY <1>7
<1> HIDE DEF mu
<1>10. mu[start] <= MaxUnits + 1
  BY <1>6, <1>7, <1>9
<1>11. \A l \in S : l.go => /\ FlushStep(l) \in S
                            /\ FlushStep(l).go => mu[FlushStep(l)] < mu[l]
  BY <1>8, <1>9
<1>12. PICK q : q = Loop(FlushStep, start)
  OBVIOUS
<1>13. q \in S /\ ~q.go
  BY <1>6, <1>9, <1>10, <1>11, <1>12, FlushLoop
<1>14. Follows(s, q.s, s.written) /\ SameCounts(s, q.s) /\ FlushEnded(q.s)
  BY <1>13 DEF S, FlushStates
<1>15. deflate_flush(s) = q.s
  BY <1>1, <1>3, <1>12 DEF deflate_flush
<1> QED BY <1>14, <1>15

\* deflate_flush_send() ends likewise.
LEMMA FlushSendProperty ==
    ASSUME NEW s, Working(s, s.written), ~Full(s), ~s.flowc
    PROVE  LET t == deflate_flush_send(s)
           IN  Follows(s, t, s.written) /\ SameCounts(s, t) /\ FlushEnded(t)
<1>1. PICK o : o = deflate_flush(s)
  OBVIOUS
<1>2. Follows(s, o, s.written) /\ SameCounts(s, o) /\ FlushEnded(o)
  BY <1>1, FlushProperty
<1>3. PICK t : t = deflate_flush_send(s)
  OBVIOUS
<1>4. t = SendFlushed(o)
  BY <1>1, <1>3 DEF deflate_flush_send
<1>5. CASE ~o.err /\ ~o.abort /\ o.send = 0 /\ FillBuf(o) # <<>>
  <2>1. t = deflate_rotate_and_send(o)
    BY <1>4, <1>5 DEF SendFlushed
  <2>2. Working(o, s.written)
    BY <1>2 DEF Follows
  <2>3. /\ Working(t, s.written)
        /\ Same(o, t) /\ SameCounts(o, t) /\ SameDeflate(o, t)
        /\ t.flowc = o.flowc /\ t.flush = o.flush
        /\ ~Full(t) /\ (o.srv => t.srv)
    BY <1>5, <2>1, <2>2, RotateWorks
  <2>4. Follows(s, t, s.written) /\ SameCounts(s, t)
    BY <1>2, <2>3 DEF Follows, Same, SameCounts
  <2>5. Flushed(o)
    BY <1>2, <1>5 DEF FlushEnded, Stuck
  <2>6. Flushed(t)
    BY <2>3, <2>5 DEF Flushed, Drained, SameDeflate
  <2> QED BY <1>3, <2>4, <2>6 DEF FlushEnded
<1>6. CASE ~(~o.err /\ ~o.abort /\ o.send = 0 /\ FillBuf(o) # <<>>)
  <2>1. t = o
    BY <1>4, <1>6 DEF SendFlushed
  <2> QED BY <1>2, <1>3, <2>1
<1> QED BY <1>5, <1>6

----------------------------------------------------------------------------
(* Writing.                                                                *)

\* What may change in these states without harm.
LEMMA WorkingFrame ==
    ASSUME NEW s, NEW t \in Rec, NEW w, Working(s, w), SameStream(s, t), t.user = s.user,
           t.srv = s.srv, t.err = s.err,
           t.nagle <=> t.tm_ev, t.user # "node" => ~t.nagle,
           t.unflushed <= w, t.user # "node" /\ t.unflushed = 0 => Drained(s)
    PROVE  Working(t, w) /\ (Full(t) <=> Full(s))
<1>1. PICK a, b, c \in Nat : Layout(s, a, b, c, w)
  BY DEF Working, Sound
<1>2. Layout(t, a, b, c, w)
  BY <1>1, LayoutFrame
<1>3. \E x, y, z \in Nat : Layout(t, x, y, z, w)
  BY <1>2
<1>4. w \in Nat /\ w <= MaxUnits + 1 /\ BuffersFit(t)
  BY DEF Working, Sound, BuffersFit, SameStream
<1>5. Drained(s) => Drained(t)
  BY DEF Drained, SameStream
<1>6. Sound(t, w)
  BY <1>3, <1>4, <1>5 DEF Sound
<1>7. Working(t, w)
  BY <1>6 DEF Working, SameStream
<1>8. Full(t) <=> Full(s)
  BY DEF Full, FillBuf, SameStream
<1> QED BY <1>7, <1>8

\* deflate() takes the units past w, up to v.
LEMMA FeedWorks ==
    ASSUME NEW s, NEW w, NEW v \in Nat, Working(s, w), w <= v, v <= MaxUnits + 1
    PROVE  LET t == [s EXCEPT !.z = @ \o Units(w + 1, v), !.unflushed = @ + (v - w)]
           IN  /\ Working(t, v)
               /\ Same(s, t) /\ SameCounts(s, t) /\ SameFlags(s, t) /\ SameSend(s, t)
               /\ t.zout = s.zout /\ Len(t.z) = Len(s.z) + (v - w)
               /\ Full(t) <=> Full(s)
<1>1. s \in Rec /\ w \in Nat /\ Sound(s, w)
  BY DEF Working, Sound
<1>2. PICK a, b, c \in Nat : Layout(s, a, b, c, w)
  BY DEF Working, Sound
<1>3. s.sent <= a /\ a <= b /\ b <= c /\ c <= w /\ s.zout = Units(b + 1, c) /\ s.z = Units(c + 1, w)
  BY <1>2 DEF Layout
<1>4. c <= v /\ v - w \in Nat /\ v - c = (w - c) + (v - w)
  BY <1>1, <1>3
<1>5. PICK x : x = s.z \o Units(w + 1, v)
  OBVIOUS
<1>6. x = Units(c + 1, v)
  <2>1. Units(c + 1, w) \o Units(w + 1, v) = Units(c + 1, v)
    BY <1>1, <1>3, UnitsJoin
  <2> QED BY <1>3, <1>5, <2>1
<1>7. x \in Seq(Nat) /\ Len(x) = v - c
  BY <1>4, <1>6, UnitsShape
<1>8. Len(s.z) = w - c
  BY <1>1, <1>3, UnitsShape
<1>9. PICK t : t = [s EXCEPT !.z = x, !.unflushed = @ + (v - w)]
  OBVIOUS
<1>10. s.unflushed \in Nat /\ s.unflushed + (v - w) \in Nat
  BY <1>1, <1>4 DEF Rec
<1>11. t \in Rec
  BY <1>1, <1>7, <1>9, <1>10 DEF Rec
<1>12. /\ Same(s, t) /\ SameCounts(s, t) /\ SameFlags(s, t) /\ SameSend(s, t)
       /\ t.buf = s.buf /\ t.zout = s.zout /\ t.z = x /\ t.unflushed = s.unflushed + (v - w)
  BY <1>1, <1>9 DEF Rec, Same, SameCounts, SameFlags, SameSend
<1>13. Layout(t, a, b, c, v)
  <2>1. t.z = Units(c + 1, v) /\ c <= v
    BY <1>4, <1>6, <1>12
  <2> QED BY <1>2, <1>12, <2>1 DEF Layout, Other, SameSend
<1>14. \E i, j, k \in Nat : Layout(t, i, j, k, v)
  BY <1>13
<1>15. t.unflushed <= v
  <2>1. s.unflushed <= w
    BY <1>1 DEF Sound
  <2> QED BY <1>1, <1>10, <1>12, <2>1
<1>16. t.user # "node" /\ t.unflushed = 0 => Drained(t)
  <2> SUFFICES ASSUME t.user # "node", t.unflushed = 0 PROVE Drained(t)
    OBVIOUS
  <2>1. s.unflushed = 0 /\ v = w
    <3>1. s.unflushed + (v - w) = 0
      BY <1>12
    <3>2. w \in Nat /\ v - w \in Nat /\ s.unflushed \in Nat
      BY <1>1, <1>4, <1>10
    <3> QED BY <3>1, <3>2
  <2>2. s.zout = <<>> /\ s.z = <<>>
    BY <1>1, <1>12, <2>1 DEF Sound, Drained, Same
  <2>3. c = v
    BY <1>1, <1>3, <1>8, <2>1, <2>2
  <2>4. Len(x) = 0
    BY <1>7, <2>3
  <2> QED BY <1>7, <1>12, <2>2, <2>4 DEF Drained
<1>17. BuffersFit(t)
  BY <1>1, <1>12 DEF Sound, BuffersFit
<1>18. Sound(t, v)
  BY <1>1, <1>11, <1>12, <1>14, <1>15, <1>16, <1>17 DEF Sound, Same, SameFlags
<1>19. Working(t, v)
  BY <1>12, <1>18 DEF Working, SameSend
<1>20. Full(t) <=> Full(s)
  BY <1>12 DEF Full, FillBuf, SameSend
<1>21. Len(t.z) = Len(s.z) + (v - w)
  BY <1>4, <1>7, <1>8, <1>12
<1>22. t = [s EXCEPT !.z = @ \o Units(w + 1, v), !.unflushed = @ + (v - w)]
  BY <1>5, <1>9
<1> QED BY <1>12, <1>19, <1>20, <1>21, <1>22

\* A state of the loop of deflate_add(), which began with u units written and s,
\* where they are all counted: deflate() was given w of them.
Adds == [s : Rec, in : Seq(Nat), block : Int, early : BOOLEAN, go : BOOLEAN]
AddAt(s, u, l, w) ==
    /\ w \in Nat /\ u <= w /\ w <= s.written /\ l.in = Units(w + 1, s.written)
    /\ Follows(s, l.s, w) /\ SameCounts(s, l.s)
    /\ l.block <= Len(l.in)
    /\ s.user # "node" => ~l.s.flush

\* How the loop ends: with an error or in flow control if it returns from
\* within, and otherwise with nothing left to compress.
AddEnded(l) ==
    IF l.early THEN (l.s.err /\ ~Full(l.s) /\ ~l.s.flowc) \/ Stuck(l.s)
    ELSE l.in = <<>> /\ ~Full(l.s) /\ ~l.s.flowc
AddStates(s, u) ==
    {l \in Adds : /\ \E w \in Nat : AddAt(s, u, l, w)
                  /\ IF l.go THEN ~l.early /\ ~Full(l.s) /\ ~l.s.flowc ELSE AddEnded(l)}

\* What is left to output, or to compress.
Held(l) == Len(l.s.zout) + Len(l.s.z) + Len(l.in)

\* A round of deflate_add(), up to the output: all was compressed, unless the
\* filling buffer is full.
LEMMA ConsumeProperty ==
    ASSUME NEW s, NEW u \in Nat, NEW l \in AddStates(s, u), l.go,
           s.written \in Nat, s.written <= MaxUnits + 1
    PROVE  LET m == Consume([l EXCEPT !.s = Output(l.s)])
           IN  /\ m \in Adds /\ \E w \in Nat : AddAt(s, u, m, w)
               /\ ~m.early /\ ~m.s.flowc /\ m.s.flush = l.s.flush
               /\ ~Full(m.s) => m.in = <<>>
               /\ Full(m.s) => Held(m) < Held(l)
<1>0. PICK W \in Nat : W = s.written
  OBVIOUS
<1>1. l \in Adds /\ ~l.early /\ ~Full(l.s) /\ ~l.s.flowc
  BY DEF AddStates
<1>2. PICK w \in Nat : AddAt(s, u, l, w)
  BY DEF AddStates
<1>3. /\ u <= w /\ w <= W /\ l.in = Units(w + 1, W) /\ l.block <= Len(l.in) /\ l.block \in Int
      /\ Working(l.s, w) /\ Same(s, l.s) /\ (s.srv => l.s.srv) /\ SameCounts(s, l.s)
      /\ s.user # "node" => ~l.s.flush
  BY <1>0, <1>1, <1>2 DEF AddAt, Follows, Adds
<1>4. l.in \in Seq(Nat) /\ Len(l.in) = W - w
  BY <1>3, UnitsShape
<1>5. PICK o : o = Output(l.s)
  OBVIOUS
<1>6. /\ Working(o, w)
      /\ Same(l.s, o) /\ SameCounts(l.s, o) /\ SameFlags(l.s, o) /\ SameSend(l.s, o)
      /\ o.z = l.s.z /\ o.unflushed = l.s.unflushed
      /\ Len(o.zout) <= Len(l.s.zout)
      /\ ~Full(o) => o.zout = <<>>
      /\ ~Full(l.s) /\ Full(o) => Len(o.zout) < Len(l.s.zout)
  BY <1>3, <1>5, OutputWorks
<1>7. PICK l1 : l1 = [l EXCEPT !.s = o]
  OBVIOUS
<1>8. o \in Rec /\ Sound(o, w) /\ Sound(l.s, w)
  BY <1>3, <1>6 DEF Working, Sound
<1>9. /\ l1 \in Adds /\ l1.s = o /\ l1.in = l.in /\ l1.block = l.block /\ l1.early = l.early /\ l1.go = l.go
  BY <1>1, <1>7, <1>8 DEF Adds
<1>10. Same(s, o) /\ SameCounts(s, o) /\ (s.srv => o.srv) /\ ~o.flowc /\ o.flush = l.s.flush
  BY <1>1, <1>3, <1>6 DEF Same, SameCounts, SameFlags, SameSend
<1>11. PICK n : n = IF o.flush \/ l.block < 0 THEN Len(l.in) ELSE l.block
  OBVIOUS
<1>12. PICK v \in Nat : v = w + n
  <2>1. Len(l.in) \in Nat
    BY <1>4
  <2>2. n \in Nat
    BY <1>3, <1>11, <2>1
  <2> QED BY <2>2
<1>13. n = v - w /\ w <= v /\ v <= W /\ u <= v /\ v <= MaxUnits + 1
  <2>1. Len(l.in) \in Nat /\ MaxUnits \in Nat
    BY <1>4, DeflateAssumption
  <2>2. n \in Nat /\ n <= Len(l.in)
    BY <1>3, <1>11, <2>1
  <2>3. n = v - w /\ w <= v /\ v <= W
    BY <1>3, <1>4, <1>12, <2>1, <2>2
  <2> QED BY <1>0, <1>3, <2>1, <2>3
<1>14. SubSeq(l.in, 1, n) = Units(w + 1, v) /\ SubSeq(l.in, n + 1, Len(l.in)) = Units(v + 1, W)
  <2>1. SubSeq(Units(w + 1, W), 1, v - w) = Units(w + 1, v)
    BY <1>13, UnitsSplit
  <2>2. SubSeq(Units(w + 1, W), v - w + 1, W - w) = Units(v + 1, W)
    BY <1>13, UnitsSplit
  <2> QED BY <1>3, <1>4, <1>13, <2>1, <2>2
<1>15. PICK rest : rest = Units(v + 1, W)
  OBVIOUS
<1>16. rest \in Seq(Nat) /\ Len(rest) = W - v
  BY <1>13, <1>15, UnitsShape
<1>17. PICK s1 : s1 = [o EXCEPT !.z = @ \o Units(w + 1, v), !.unflushed = @ + (v - w)]
  OBVIOUS
<1>18. /\ Working(s1, v)
       /\ Same(o, s1) /\ SameCounts(o, s1) /\ SameFlags(o, s1) /\ SameSend(o, s1)
       /\ s1.zout = o.zout /\ Len(s1.z) = Len(o.z) + (v - w)
       /\ Full(s1) <=> Full(o)
  <2>1. Working(o, w)
    BY <1>6
  <2> QED BY <1>13, <1>17, <2>1, FeedWorks
<1>19. PICK e : e = EndBlock(s1)
  OBVIOUS
<1>20. /\ Working(e, v)
       /\ Same(s1, e) /\ SameCounts(s1, e) /\ SameFlags(s1, e) /\ SameSend(s1, e)
       /\ e.z = <<>> /\ Len(e.zout) = Len(s1.zout) + Len(s1.z)
       /\ Full(e) <=> Full(s1)
  BY <1>18, <1>19, EndBlockWorks
<1>21. PICK p : p = Output(e)
  OBVIOUS
<1>22. /\ Working(p, v)
       /\ Same(e, p) /\ SameCounts(e, p) /\ SameFlags(e, p) /\ SameSend(e, p)
       /\ p.z = e.z
       /\ Len(p.zout) <= Len(e.zout)
       /\ ~Full(e) /\ Full(p) => Len(p.zout) < Len(e.zout)
  BY <1>20, <1>21, OutputWorks
<1>23. PICK ended : ended = IF o.flush \/ l.block >= 0 THEN p ELSE s1
  OBVIOUS
<1>24. PICK m : m = Consume(l1)
  OBVIOUS
<1>25. m = IF Full(o) THEN l1
           ELSE IF Full(ended) THEN [l1 EXCEPT !.s = ended, !.in = rest, !.block = -1]
           ELSE [l1 EXCEPT !.s = [ended EXCEPT !.z = @ \o rest, !.unflushed = @ + Len(rest)],
                           !.in = <<>>, !.block = -1]
  <2> DEFINE N == IF l1.s.flush \/ l1.block < 0 THEN Len(l1.in) ELSE l1.block
             S1 == [l1.s EXCEPT !.z = @ \o SubSeq(l1.in, 1, N), !.unflushed = @ + N]
             E == IF l1.s.flush \/ l1.block >= 0 THEN Output(EndBlock(S1)) ELSE S1
             R == SubSeq(l1.in, N + 1, Len(l1.in))
  <2>1. m = IF Full(l1.s) THEN l1
            ELSE IF Full(E) THEN [l1 EXCEPT !.s = E, !.in = R, !.block = -1]
            ELSE [l1 EXCEPT !.s = [E EXCEPT !.z = @ \o R, !.unflushed = @ + Len(R)],
                            !.in = <<>>, !.block = -1]
    BY <1>24 DEF Consume
  <2>2. N = n
    BY <1>9, <1>11
  <2> HIDE DEF N
  <2>3. S1 = s1 /\ R = rest
    BY <1>9, <1>13, <1>14, <1>15, <1>17, <2>2
  <2> HIDE DEF S1, R
  <2>4. E = ended
    BY <1>9, <1>19, <1>21, <1>23, <2>3
  <2> HIDE DEF E
  <2> QED BY <1>9, <2>1, <2>3, <2>4
<1>26. /\ Working(ended, v) /\ Same(s, ended) /\ SameCounts(s, ended) /\ (s.srv => ended.srv)
       /\ ~ended.flowc /\ ended.flush = o.flush
  <2>1. CASE ended = p
    BY <1>10, <1>18, <1>20, <1>22, <2>1 DEF Same, SameCounts, SameFlags, SameSend
  <2>2. CASE ended = s1
    BY <1>10, <1>18, <2>2 DEF Same, SameCounts, SameFlags, SameSend
  <2> QED BY <1>23, <2>1, <2>2
<1>27. ended \in Rec
  BY <1>26 DEF Working, Sound
<1>28. CASE Full(o)
  <2>1. m = l1
    BY <1>25, <1>28
  <2>2. AddAt(s, u, m, w)
    BY <1>0, <1>3, <1>6, <1>9, <1>10, <2>1 DEF AddAt, Follows
  <2>3. Held(m) < Held(l)
    <3>1. /\ Len(l.s.zout) \in Nat /\ Len(l.s.z) \in Nat /\ Len(o.zout) \in Nat /\ Len(l.in) \in Nat
      BY <1>3, <1>4, <1>8, HeldBound, SMTT(60)
    <3>2. Len(o.zout) < Len(l.s.zout) /\ o.z = l.s.z
      BY <1>1, <1>6, <1>28
    <3>3. \A x, y, z, i \in Nat : x < y => x + z + i < y + z + i
      OBVIOUS
    <3>4. Len(o.zout) + Len(o.z) + Len(l.in) < Len(l.s.zout) + Len(l.s.z) + Len(l.in)
      BY <3>1, <3>2, <3>3
    <3> QED BY <1>9, <2>1, <3>4 DEF Held
  <2>4. m \in Adds /\ ~m.early /\ ~m.s.flowc /\ m.s.flush = l.s.flush /\ Full(m.s)
    BY <1>1, <1>9, <1>10, <1>28, <2>1
  <2> QED BY <1>5, <1>7, <1>24, <2>2, <2>3, <2>4
<1>29. CASE ~Full(o) /\ Full(ended)
  <2>1. m = [l1 EXCEPT !.s = ended, !.in = rest, !.block = -1]
    BY <1>25, <1>29
  <2>2. -1 \in Int
    OBVIOUS
  <2>3. m \in Adds /\ m.s = ended /\ m.in = rest /\ m.block = -1 /\ m.early = l1.early
    BY <1>9, <1>16, <1>27, <2>1, <2>2 DEF Adds
  <2>4. AddAt(s, u, m, v)
    <3>1. m.block <= Len(m.in)
      BY <1>13, <1>16, <2>3
    <3> QED BY <1>0, <1>3, <1>10, <1>13, <1>15, <1>26, <2>3, <3>1 DEF AddAt, Follows
  <2>5. ended = p
    BY <1>18, <1>23, <1>29
  <2>6. Held(m) < Held(l)
    <3>1. Sound(p, v) /\ Sound(e, v) /\ Sound(s1, v)
      BY <1>18, <1>20, <1>22 DEF Working
    <3>2. Len(p.zout) \in Nat /\ Len(e.zout) \in Nat /\ Len(s1.zout) \in Nat /\ Len(s1.z) \in Nat
      BY <3>1, HeldBound
    <3>3. Len(o.zout) \in Nat /\ Len(o.z) \in Nat /\ Len(l.s.zout) \in Nat /\ Len(l.s.z) \in Nat
      BY <1>8, HeldBound
    <3>4. Len(p.zout) < Len(e.zout)
      BY <1>18, <1>20, <1>22, <1>29, <2>5
    <3>5. Len(e.zout) = Len(o.zout) + (Len(l.s.z) + (v - w)) /\ Len(o.zout) <= Len(l.s.zout)
      BY <1>6, <1>18, <1>20
    <3>6. Len(p.z) = 0
      BY <1>20, <1>22
    <3>7. Len(p.zout) + 0 + (W - v) < Len(l.s.zout) + Len(l.s.z) + (W - w)
      <4>1. \A x, y, i, j, k \in Nat :
                x < y /\ y = i + (k + (v - w)) /\ i <= j => x + 0 + (W - v) < j + k + (W - w)
        BY <1>13
      <4> QED BY <3>2, <3>3, <3>4, <3>5, <4>1
    <3> QED BY <1>4, <1>16, <2>3, <2>5, <3>6, <3>7 DEF Held
  <2>7. ~m.early /\ ~m.s.flowc /\ m.s.flush = l.s.flush /\ Full(m.s)
    BY <1>1, <1>9, <1>10, <1>26, <1>29, <2>3
  <2> QED BY <1>5, <1>7, <1>13, <1>24, <2>3, <2>4, <2>6, <2>7
<1>30. CASE ~Full(o) /\ ~Full(ended)
  <2>1. PICK f : f = [ended EXCEPT !.z = @ \o rest, !.unflushed = @ + Len(rest)]
    OBVIOUS
  <2>2. m = [l1 EXCEPT !.s = f, !.in = <<>>, !.block = -1]
    BY <1>25, <1>30, <2>1
  <2>3. f = [ended EXCEPT !.z = @ \o Units(v + 1, W), !.unflushed = @ + (W - v)]
    BY <1>15, <1>16, <2>1
  <2>4. /\ Working(f, W)
        /\ Same(ended, f) /\ SameCounts(ended, f) /\ SameFlags(ended, f) /\ SameSend(ended, f)
        /\ Full(f) <=> Full(ended)
    <3>1. Working(ended, v) /\ v <= W /\ W <= MaxUnits + 1
      BY <1>0, <1>13, <1>26
    <3> QED BY <2>3, <3>1, FeedWorks
  <2>5. f \in Rec
    BY <2>4 DEF Working, Sound
  <2>6. -1 \in Int /\ <<>> \in Seq(Nat)
    OBVIOUS
  <2>7. m \in Adds /\ m.s = f /\ m.in = <<>> /\ m.block = -1 /\ m.early = l1.early
    BY <1>9, <2>2, <2>5, <2>6 DEF Adds
  <2>8. AddAt(s, u, m, W)
    <3>1. m.block <= Len(m.in)
      BY <2>7
    <3>2. Same(s, f) /\ SameCounts(s, f) /\ (s.srv => f.srv) /\ f.flush = o.flush
      BY <1>26, <2>4 DEF Same, SameCounts, SameFlags, SameSend
    <3>3. Units(W + 1, W) = <<>>
      BY UnitsShape
    <3>4. u <= W
      BY <1>13
    <3> QED BY <1>0, <1>3, <1>10, <2>4, <2>7, <3>1, <3>2, <3>3, <3>4 DEF AddAt, Follows
  <2>9. ~m.early /\ ~m.s.flowc /\ m.s.flush = l.s.flush /\ ~Full(m.s)
    BY <1>1, <1>9, <1>10, <1>26, <1>30, <2>4, <2>7 DEF SameFlags
  <2> QED BY <1>5, <1>7, <1>24, <2>7, <2>8, <2>9
<1> QED BY <1>28, <1>29, <1>30

\* deflate_flushed() in the states of deflate_add().
LEMMA FlushedWorks ==
    ASSUME NEW s, NEW w, Working(s, w), s.user = "node"
    PROVE  LET t == deflate_flushed(s)
           IN  /\ Working(t, w) /\ (Full(t) <=> Full(s))
               /\ Same(s, t) /\ SameCounts(s, t) /\ SameSend(s, t) /\ SameStream(s, t)
               /\ t.flowc = s.flowc /\ ~t.flush
<1>1. s \in Rec /\ Sound(s, w) /\ w \in Nat
  BY DEF Working, Sound
<1>2. PICK t : t = deflate_flushed(s)
  OBVIOUS
<1>3. /\ t \in Rec /\ Same(s, t) /\ SameCounts(s, t) /\ SameSend(s, t) /\ SameStream(s, t)
      /\ t.flowc = s.flowc /\ ~t.flush /\ t.unflushed = 0
      /\ t.nagle = s.nagle /\ t.tm_ev = s.tm_ev
  BY <1>1, <1>2 DEF deflate_flushed, Rec, Same, SameCounts, SameSend, SameStream
<1>4. t.nagle <=> t.tm_ev
  BY <1>1, <1>3 DEF Sound
<1>5. t.user = "node" /\ t.user = s.user /\ t.srv = s.srv /\ t.err = s.err /\ t.unflushed <= w
  BY <1>1, <1>3 DEF Same, SameSend
<1>6. Working(t, w) /\ (Full(t) <=> Full(s))
  BY <1>3, <1>4, <1>5, WorkingFrame
<1> QED BY <1>2, <1>3, <1>6

\* Flow control, in the states of deflate_add().
LEMMA FlowcWorks ==
    ASSUME NEW s, NEW w, Working(s, w)
    PROVE  LET t == [s EXCEPT !.flowc = TRUE]
           IN  /\ Working(t, w) /\ (Full(t) <=> Full(s))
               /\ Same(s, t) /\ SameCounts(s, t) /\ SameSend(s, t) /\ SameStream(s, t)
               /\ t.flowc /\ t.flush = s.flush
<1>1. s \in Rec /\ Sound(s, w) /\ w \in Nat
  BY DEF Working, Sound
<1>2. PICK t : t = [s EXCEPT !.flowc = TRUE]
  OBVIOUS
<1>3. /\ t \in Rec /\ Same(s, t) /\ SameCounts(s, t) /\ SameSend(s, t) /\ SameStream(s, t)
      /\ t.flowc /\ t.flush = s.flush /\ t.unflushed = s.unflushed
      /\ t.nagle = s.nagle /\ t.tm_ev = s.tm_ev
  BY <1>1, <1>2 DEF Rec, Same, SameCounts, SameSend, SameStream
<1>4. (t.nagle <=> t.tm_ev) /\ (t.user # "node" => ~t.nagle) /\ t.unflushed <= w
      /\ (t.user # "node" /\ t.unflushed = 0 => Drained(s))
  BY <1>1, <1>3 DEF Sound, Same
<1>5. t.user = s.user /\ t.srv = s.srv /\ t.err = s.err
  BY <1>3 DEF Same, SameSend
<1>6. Working(t, w) /\ (Full(t) <=> Full(s))
  BY <1>3, <1>4, <1>5, WorkingFrame
<1> QED BY <1>2, <1>3, <1>6

\* The filling buffer of deflate_add(), if it is full: sent, or flow control.
LEMMA AddFullProperty ==
    ASSUME NEW s, NEW u \in Nat, NEW m \in Adds, NEW w \in Nat, AddAt(s, u, m, w),
           ~m.early, ~m.s.flowc, Full(m.s)
    PROVE  LET k == AddFull(m)
           IN  /\ k \in Adds /\ AddAt(s, u, k, w) /\ Held(k) = Held(m) /\ k.in = m.in
               /\ k.early => (k.s.err /\ ~Full(k.s) /\ ~k.s.flowc) \/ Stuck(k.s)
               /\ ~k.early => ~Full(k.s) /\ ~k.s.flowc
<1>1. /\ u <= w /\ w <= s.written /\ m.in = Units(w + 1, s.written) /\ m.block <= Len(m.in)
      /\ Working(m.s, w) /\ Same(s, m.s) /\ (s.srv => m.s.srv) /\ SameCounts(s, m.s)
      /\ s.user # "node" => ~m.s.flush
  BY DEF AddAt, Follows
<1>2. PICK k : k = AddFull(m)
  OBVIOUS
<1>3. CASE m.s.send # 0
  <2>1. PICK t : t = [m.s EXCEPT !.flowc = TRUE]
    OBVIOUS
  <2>2. /\ Working(t, w) /\ (Full(t) <=> Full(m.s))
        /\ Same(m.s, t) /\ SameCounts(m.s, t) /\ SameSend(m.s, t) /\ SameStream(m.s, t)
        /\ t.flowc /\ t.flush = m.s.flush
    BY <1>1, <2>1, FlowcWorks
  <2>3. k = [m EXCEPT !.s = t, !.early = TRUE]
    BY <1>2, <1>3, <2>1 DEF AddFull, Adds
  <2>4. t \in Rec
    BY <2>2 DEF Working, Sound
  <2>5. k \in Adds /\ k.s = t /\ k.in = m.in /\ k.block = m.block /\ k.early
    BY <2>3, <2>4 DEF Adds
  <2>6. AddAt(s, u, k, w)
    BY <1>1, <2>2, <2>5 DEF AddAt, Follows, Same, SameCounts, SameSend
  <2>7. Stuck(t)
    BY <1>3, <2>2 DEF Stuck, SameSend
  <2>8. Held(k) = Held(m)
    BY <2>2, <2>5 DEF Held, SameStream
  <2> QED BY <1>2, <2>5, <2>6, <2>7, <2>8
<1>4. CASE m.s.send = 0
  <2>1. PICK t : t = deflate_rotate_and_send(m.s)
    OBVIOUS
  <2>2. FillBuf(m.s) # <<>>
    BY FullNotEmpty
  <2>3. /\ Working(t, w)
        /\ Same(m.s, t) /\ SameCounts(m.s, t) /\ SameDeflate(m.s, t)
        /\ t.flowc = m.s.flowc /\ t.flush = m.s.flush
        /\ ~Full(t) /\ (m.s.srv => t.srv)
    BY <1>1, <1>4, <2>1, <2>2, RotateWorks
  <2>4. t \in Rec /\ t.err \in BOOLEAN
    BY <2>3 DEF Working, Sound, Rec
  <2>5. k = [m EXCEPT !.s = t, !.early = t.err]
    BY <1>2, <1>4, <2>1 DEF AddFull
  <2>6. k \in Adds /\ k.s = t /\ k.in = m.in /\ k.block = m.block /\ k.early = t.err
    BY <2>4, <2>5 DEF Adds
  <2>7. AddAt(s, u, k, w)
    BY <1>1, <2>3, <2>6 DEF AddAt, Follows, Same, SameCounts
  <2>8. Held(k) = Held(m)
    BY <2>3, <2>6 DEF Held, SameDeflate
  <2> QED BY <1>2, <2>3, <2>6, <2>7, <2>8
<1> QED BY <1>3, <1>4

\* A round of deflate_add(): it goes on after having sent a full buffer.
LEMMA AddStepProperty ==
    ASSUME NEW s, NEW u \in Nat, NEW l \in AddStates(s, u), l.go,
           s.written \in Nat, s.written <= MaxUnits + 1
    PROVE  /\ AddStep(l) \in AddStates(s, u)
           /\ AddStep(l).go => Held(AddStep(l)) < Held(l)
<1>1. PICK m : m = Consume([l EXCEPT !.s = Output(l.s)])
  OBVIOUS
<1>2. /\ m \in Adds /\ (\E w \in Nat : AddAt(s, u, m, w))
      /\ ~m.early /\ ~m.s.flowc /\ m.s.flush = l.s.flush
      /\ ~Full(m.s) => m.in = <<>>
      /\ Full(m.s) => Held(m) < Held(l)
  BY <1>1, ConsumeProperty
<1>3. PICK w \in Nat : AddAt(s, u, m, w)
  BY <1>2
<1>4. PICK k : k = IF Full(m.s) THEN AddFull(m) ELSE m
  OBVIOUS
<1>5. /\ k \in Adds /\ AddAt(s, u, k, w) /\ k.in = m.in
      /\ k.early => (k.s.err /\ ~Full(k.s) /\ ~k.s.flowc) \/ Stuck(k.s)
      /\ ~k.early => ~Full(k.s) /\ ~k.s.flowc
      /\ k.in # <<>> => Held(k) < Held(l)
  <2>1. CASE Full(m.s)
    <3>1. k = AddFull(m)
      BY <1>4, <2>1
    <3>2. /\ k \in Adds /\ AddAt(s, u, k, w) /\ Held(k) = Held(m) /\ k.in = m.in
          /\ k.early => (k.s.err /\ ~Full(k.s) /\ ~k.s.flowc) \/ Stuck(k.s)
          /\ ~k.early => ~Full(k.s) /\ ~k.s.flowc
      BY <1>2, <1>3, <2>1, <3>1, AddFullProperty
    <3> QED BY <1>2, <2>1, <3>2
  <2>2. CASE ~Full(m.s)
    <3>1. k = m
      BY <1>4, <2>2
    <3> QED BY <1>2, <1>3, <2>2, <3>1
  <2> QED BY <2>1, <2>2
<1>6. PICK ended : ended = (l.s.flush /\ k.in = <<>> /\ ~k.early)
  OBVIOUS
<1>7. PICK t : t = IF ended THEN deflate_flushed(k.s) ELSE k.s
  OBVIOUS
<1>8. PICK q : q = AddStep(l)
  OBVIOUS
<1>9. q = [k EXCEPT !.s = t, !.go = ~k.early /\ k.in # <<>>]
  BY <1>1, <1>4, <1>6, <1>7, <1>8 DEF AddStep, AddRound, AddEnd
<1>10. /\ Working(k.s, w) /\ Same(s, k.s) /\ (s.srv => k.s.srv) /\ SameCounts(s, k.s)
       /\ s.user # "node" => ~k.s.flush
  BY <1>5 DEF AddAt, Follows
<1>11. l.s.flush => s.user = "node"
  BY DEF AddStates, AddAt
<1>12. /\ Working(t, w) /\ (Full(t) <=> Full(k.s)) /\ t.flowc = k.s.flowc /\ t.err = k.s.err /\ t.send = k.s.send
       /\ Same(s, t) /\ SameCounts(s, t) /\ (s.srv => t.srv) /\ (s.user # "node" => ~t.flush)
       /\ t.zout = k.s.zout /\ t.z = k.s.z
  <2>1. CASE ended
    <3>1. t = deflate_flushed(k.s) /\ k.s.user = "node"
      BY <1>6, <1>7, <1>10, <1>11, <2>1 DEF Same
    <3>2. /\ Working(t, w) /\ (Full(t) <=> Full(k.s))
          /\ Same(k.s, t) /\ SameCounts(k.s, t) /\ SameSend(k.s, t) /\ SameStream(k.s, t)
          /\ t.flowc = k.s.flowc /\ ~t.flush
      BY <1>10, <3>1, FlushedWorks
    <3> QED BY <1>10, <3>2 DEF Same, SameCounts, SameSend, SameStream
  <2>2. CASE ~ended
    <3>1. t = k.s
      BY <1>7, <2>2
    <3> QED BY <1>10, <3>1
  <2> QED BY <2>1, <2>2
<1>13. t \in Rec
  BY <1>12 DEF Working, Sound
<1>14. k.early \in BOOLEAN /\ (~k.early /\ k.in # <<>>) \in BOOLEAN
  BY <1>5 DEF Adds
<1>15. /\ q \in Adds /\ q.s = t /\ q.in = k.in /\ q.block = k.block /\ q.early = k.early
       /\ q.go = (~k.early /\ k.in # <<>>)
  BY <1>5, <1>9, <1>13, <1>14 DEF Adds
<1>16. AddAt(s, u, q, w)
  BY <1>5, <1>12, <1>15 DEF AddAt, Follows
<1>17. q.go => ~q.early /\ ~Full(q.s) /\ ~q.s.flowc
  BY <1>5, <1>12, <1>15
<1>18. ~q.go => AddEnded(q)
  <2>1. CASE k.early
    BY <1>5, <1>12, <1>15, <2>1 DEF AddEnded, Stuck
  <2>2. CASE ~k.early
    BY <1>5, <1>12, <1>15, <2>2 DEF AddEnded
  <2> QED BY <2>1, <2>2
<1>19. q \in AddStates(s, u)
  BY <1>15, <1>16, <1>17, <1>18 DEF AddStates
<1>20. q.go => Held(q) < Held(l)
  BY <1>5, <1>12, <1>15 DEF Held
<1> QED BY <1>8, <1>19, <1>20

\* How a write ends: with an error, in flow control, or with all written.
Written(t) ==
    \/ t.err /\ ~Full(t)
    \/ Stuck(t)
    \/ ~Full(t) /\ ~t.flowc /\ t.left = 0

\* deflate_add(): what it leaves to the writer is the rest of the units.
LEMMA AddProperty ==
    ASSUME NEW s, NEW n \in Nat, NEW block \in Int,
           Working(s, s.written), ~Full(s), ~s.flowc, s.user # "node" => ~s.flush,
           block <= n, s.written + n <= MaxUnits
    PROVE  LET t == deflate_add(s, n, block)
           IN  /\ Follows(s, t, t.written) /\ Written(t)
               /\ t.left <= n /\ t.written + t.left = s.written + n
               /\ s.user # "node" => ~t.flush
<1>1. s \in Rec /\ Sound(s, s.written) /\ s.written \in Nat /\ MaxUnits \in Nat
  BY DeflateAssumption DEF Working, Sound
<1>2. PICK u \in Nat : u = s.written
  BY <1>1
<1>3. PICK W \in Nat : W = u + n
  OBVIOUS
<1>4. W <= MaxUnits + 1 /\ u <= W /\ W - u = n /\ W <= MaxUnits
  BY <1>1, <1>2, <1>3
<1>5. PICK s0 : s0 = [s EXCEPT !.written = W]
  OBVIOUS
<1>6. /\ s0 \in Rec /\ Same(s, s0) /\ SameFlags(s, s0) /\ SameStream(s, s0) /\ SameSend(s, s0)
      /\ s0.written = W /\ s0.unflushed = s.unflushed
  BY <1>1, <1>5 DEF Rec, Same, SameFlags, SameStream, SameSend
<1>7. Working(s0, u) /\ (Full(s0) <=> Full(s))
  <2>1. /\ (s0.nagle <=> s0.tm_ev) /\ (s0.user # "node" => ~s0.nagle)
        /\ s0.unflushed <= u /\ (s0.user # "node" /\ s0.unflushed = 0 => Drained(s))
    BY <1>1, <1>2, <1>6 DEF Sound, Same, SameFlags
  <2>2. s0.user = s.user /\ s0.srv = s.srv /\ s0.err = s.err /\ Working(s, u)
    BY <1>2, <1>6 DEF Same, SameSend
  <2> QED BY <1>6, <2>1, <2>2, WorkingFrame
<1>8. PICK in : in = Units(u + 1, W)
  OBVIOUS
<1>9. in \in Seq(Nat) /\ Len(in) = n
  BY <1>4, <1>8, UnitsShape
<1>10. PICK start : start = [s |-> s0, in |-> in, block |-> block, early |-> FALSE, go |-> TRUE]
  OBVIOUS
<1>11. /\ start \in Adds /\ start.s = s0 /\ start.in = in /\ start.block = block /\ start.early = FALSE
       /\ start.go = TRUE
  BY <1>6, <1>9, <1>10 DEF Adds
<1> DEFINE S == AddStates(s0, u)
           mu == [l \in S |-> Held(l)]
<1>12. start \in S
  <2>1. AddAt(s0, u, start, u)
    BY <1>4, <1>6, <1>7, <1>8, <1>9, <1>11 DEF AddAt, Follows, Same, SameCounts, SameFlags
  <2> QED BY <1>6, <1>7, <1>11, <2>1 DEF AddStates, SameFlags
<1>13. ASSUME NEW l \in S PROVE Held(l) \in Nat /\ Held(l) <= MaxUnits + 1
  <2>1. PICK w \in Nat : AddAt(s0, u, l, w)
    BY DEF AddStates
  <2>2. w <= W /\ l.in = Units(w + 1, W) /\ Sound(l.s, w)
    BY <1>6, <2>1 DEF AddAt, Follows, Working
  <2>3. Len(l.in) = W - w
    BY <2>2, UnitsShape
  <2>4. Len(l.s.zout) \in Nat /\ Len(l.s.z) \in Nat /\ Len(l.s.zout) + Len(l.s.z) <= w
    BY <2>2, HeldBound
  <2>5. \A x, y \in Nat : x + y <= w => x + y + (W - w) \in Nat /\ x + y + (W - w) <= MaxUnits + 1
    BY <1>1, <1>4, <2>2
  <2> QED BY <2>3, <2>4, <2>5 DEF Held
<1>14. \A l \in S : l.go => AddStep(l) \in S /\ (AddStep(l).go => Held(AddStep(l)) < Held(l))
  BY <1>4, <1>6, AddStepProperty
<1> HIDE DEF S
<1>15. mu \in [S -> Nat] /\ \A l \in S : mu[l] = Held(l)
  BY <1>13
<1> HIDE DEF mu
<1>16. mu[start] <= MaxUnits + 1
  BY <1>12, <1>13, <1>15
<1>17. \A l \in S : l.go => AddStep(l) \in S /\ (AddStep(l).go => mu[AddStep(l)] < mu[l])
  BY <1>14, <1>15
<1>18. PICK q : q = Loop(AddStep, start)
  OBVIOUS
<1>19. q \in S /\ ~q.go
  BY <1>12, <1>15, <1>16, <1>17, <1>18, AddLoop
<1>20. q \in Adds /\ AddEnded(q) /\ \E w \in Nat : AddAt(s0, u, q, w)
  BY <1>19 DEF S, AddStates
<1>21. PICK w \in Nat : AddAt(s0, u, q, w)
  BY <1>20
<1>22. /\ u <= w /\ w <= W /\ q.in = Units(w + 1, W)
       /\ Working(q.s, w) /\ Same(s0, q.s) /\ (s0.srv => q.s.srv) /\ q.s.written = W
       /\ s0.user # "node" => ~q.s.flush
  BY <1>6, <1>21 DEF AddAt, Follows, SameCounts
<1>23. q.in \in Seq(Nat) /\ Len(q.in) = W - w /\ (q.in = <<>> <=> w = W)
  BY <1>22, UnitsShape
<1>24. PICK e : e = [q.s EXCEPT !.left = Len(q.in), !.written = @ - Len(q.in)]
  OBVIOUS
<1>25. q.s \in Rec /\ Len(q.in) \in Nat /\ W - Len(q.in) = w
  BY <1>20, <1>22, <1>23 DEF Adds
<1>26. e = [q.s EXCEPT !.left = Len(q.in), !.written = w]
  BY <1>22, <1>24, <1>25
<1>27. /\ e \in Rec /\ Same(q.s, e) /\ SameFlags(q.s, e) /\ SameStream(q.s, e) /\ SameSend(q.s, e)
       /\ e.written = w /\ e.left = Len(q.in) /\ e.unflushed = q.s.unflushed
  BY <1>25, <1>26 DEF Rec, Same, SameFlags, SameStream, SameSend
<1>28. Working(e, w) /\ (Full(e) <=> Full(q.s))
  <2>1. Sound(q.s, w)
    BY <1>22 DEF Working
  <2>2. /\ (e.nagle <=> e.tm_ev) /\ (e.user # "node" => ~e.nagle)
        /\ e.unflushed <= w /\ (e.user # "node" /\ e.unflushed = 0 => Drained(q.s))
    BY <1>27, <2>1 DEF Sound, Same, SameFlags
  <2>3. e.user = q.s.user /\ e.srv = q.s.srv /\ e.err = q.s.err
    BY <1>27 DEF Same, SameSend
  <2> QED BY <1>22, <1>27, <2>2, <2>3, WorkingFrame
<1>29. Same(s, e) /\ (s.srv => e.srv) /\ (s.user # "node" => ~e.flush)
  BY <1>6, <1>22, <1>27 DEF Same, SameSend, SameFlags
<1>30. e.left <= n /\ e.written + e.left = s.written + n
  BY <1>2, <1>3, <1>22, <1>23, <1>27, SMTT(60)
<1>31. PICK t : t = deflate_add(s, n, block)
  OBVIOUS
<1>32. t = IF q.early THEN e ELSE AddDone(NagleOn(e))
  <2>1. s0 = [s EXCEPT !.written = @ + n] /\ in = Units(s.written + 1, s.written + n)
    BY <1>1, <1>2, <1>3, <1>5, <1>8
  <2>2. t = Added(q)
    BY <1>10, <1>18, <1>31, <2>1 DEF deflate_add
  <2> QED BY <1>24, <2>2 DEF Added
<1>33. CASE q.early
  <2>1. Written(e)
    BY <1>20, <1>27, <1>28, <1>33 DEF AddEnded, Written, Stuck, SameFlags, SameSend
  <2> QED BY <1>27, <1>28, <1>29, <1>30, <1>31, <1>32, <1>33, <2>1 DEF Follows
<1>34. CASE ~q.early
  <2>1. ~Full(e) /\ ~e.flowc /\ e.left = 0
    BY <1>20, <1>23, <1>27, <1>28, <1>34 DEF AddEnded, SameFlags
  <2>2. PICK g : g = NagleOn(e)
    OBVIOUS
  <2>3. /\ Working(g, w) /\ (Full(g) <=> Full(e)) /\ Same(e, g) /\ SameCounts(e, g) /\ g.flowc = e.flowc
        /\ g.srv = e.srv /\ g.flush = e.flush
    <3>1. CASE e.user = "node"
      <4>1. g = [e EXCEPT !.nagle = TRUE, !.tm_ev = TRUE]
        BY <2>2, <3>1 DEF NagleOn
      <4>2. /\ g \in Rec /\ Same(e, g) /\ SameCounts(e, g) /\ SameStream(e, g) /\ SameSend(e, g)
            /\ g.flowc = e.flowc /\ g.flush = e.flush /\ g.nagle /\ g.tm_ev /\ g.unflushed = e.unflushed
        BY <1>27, <4>1 DEF Rec, Same, SameCounts, SameStream, SameSend
      <4>3. g.user = "node" /\ g.user = e.user /\ g.srv = e.srv /\ g.err = e.err /\ g.unflushed <= w
        BY <1>28, <3>1, <4>2 DEF Same, SameSend, Working, Sound
      <4>4. Working(g, w) /\ (Full(g) <=> Full(e))
        BY <1>28, <4>2, <4>3, WorkingFrame
      <4> QED BY <4>2, <4>3, <4>4
    <3>2. CASE e.user # "node"
      <4>1. g = e
        BY <2>2, <3>2 DEF NagleOn
      <4> QED BY <1>28, <4>1 DEF Same, SameCounts
    <3> QED BY <3>1, <3>2
  <2>4. g.written = w /\ g.left = 0
    BY <1>27, <2>1, <2>3 DEF SameCounts
  <2>5. t = AddDone(g)
    BY <1>32, <1>34, <2>2
  <2>6. CASE g.user = "node" /\ g.unflushed > BufferFlush
    <3>1. t = deflate_flush(g)
      BY <2>5, <2>6 DEF AddDone
    <3>2. Follows(g, t, g.written) /\ SameCounts(g, t) /\ FlushEnded(t)
      BY <2>1, <2>3, <2>4, <3>1, FlushProperty
    <3>3. t.written = w /\ t.left = 0
      BY <2>4, <3>2 DEF SameCounts
    <3>4. Follows(s, t, t.written)
      BY <1>29, <2>3, <2>4, <3>2, <3>3 DEF Follows, Same
    <3>5. Written(t)
      BY <3>2, <3>3 DEF FlushEnded, Flushed, Written
    <3>6. s.user = "node"
      BY <1>29, <2>3, <2>6 DEF Same
    <3> QED BY <1>27, <1>30, <1>31, <2>1, <3>3, <3>4, <3>5, <3>6
  <2>7. CASE ~(g.user = "node" /\ g.unflushed > BufferFlush)
    <3>1. t = g
      BY <2>5, <2>7 DEF AddDone
    <3>2. Written(t)
      BY <2>1, <2>3, <2>4, <3>1 DEF Written
    <3>3. Follows(s, t, t.written)
      BY <1>29, <2>3, <2>4, <3>1 DEF Follows, Same
    <3>4. s.user # "node" => ~t.flush
      BY <1>29, <2>3, <3>1
    <3> QED BY <1>27, <1>30, <1>31, <2>1, <2>4, <3>1, <3>2, <3>3, <3>4
  <2> QED BY <2>6, <2>7
<1> QED BY <1>33, <1>34

----------------------------------------------------------------------------
(* Handlers.                                                               *)

\* The smaller of two numbers.
LEMMA MinTwo ==
    ASSUME NEW x \in Int, NEW y \in Int
    PROVE  Min({x, y}) \in {x, y} /\ Min({x, y}) <= x /\ Min({x, y}) <= y
<1>1. \E m \in {x, y} : \A k \in {x, y} : m <= k
  <2>1. CASE x <= y
    BY <2>1
  <2>2. CASE y <= x
    BY <2>2
  <2> QED BY <2>1, <2>2
<1>2. Min({x, y}) = CHOOSE m \in {x, y} : \A k \in {x, y} : m <= k
  BY DEF Min
<1>3. Min({x, y}) \in {x, y} /\ \A k \in {x, y} : Min({x, y}) <= k
  BY <1>1, <1>2
<1> QED BY <1>3

\* The fields that what every step maintains depends on.
LEMMA SoundFrame ==
    ASSUME NEW s, NEW t \in Rec, NEW w, Sound(s, w), SameStream(s, t), t.user = s.user,
           t.nagle <=> t.tm_ev, t.user # "node" => ~t.nagle, t.unflushed = s.unflushed
    PROVE  Sound(t, w) /\ (Full(t) <=> Full(s))
<1>1. w \in Nat /\ w <= MaxUnits + 1
  BY DEF Sound
<1>2. PICK a, b, c \in Nat : Layout(s, a, b, c, w)
  BY DEF Sound
<1>3. Layout(t, a, b, c, w)
  BY <1>2, LayoutFrame
<1>4. BuffersFit(t)
  BY DEF Sound, BuffersFit, SameStream
<1>5. t.unflushed <= w /\ (t.user # "node" /\ t.unflushed = 0 => Drained(t))
  BY DEF Sound, Drained, SameStream
<1>6. Full(t) <=> Full(s)
  BY DEF Full, FillBuf, SameStream
<1>7. Sound(t, w)
  BY <1>1, <1>3, <1>4, <1>5 DEF Sound
<1> QED BY <1>6, <1>7

\* A state in which the upper layer may write.
Ready(s) ==
    /\ Working(s, s.written)
    /\ ~s.err /\ ~s.abort /\ ~s.closed /\ ~s.trailed /\ ~s.closing
    /\ (Full(s) => s.flowc) /\ (s.flowc => s.send # 0)
    /\ (s.user = "node" => ~s.eager) /\ (s.user # "node" => ~s.flush)

\* How a write that leaves units waits for a service.
LEMMA WriteEnds ==
    ASSUME NEW t, Working(t, t.written), ~t.abort, ~t.closed, ~t.trailed, ~t.closing,
           Full(t) => t.flowc, ~t.err => (t.flowc => t.send # 0),
           ~t.err /\ t.left > 0 => t.send # 0,
           t.user = "node" => ~t.eager, t.user # "node" => ~t.flush,
           t.left <= MaxWrite, t.written + t.left <= MaxUnits
    PROVE  Settled(WantService(t))
<1>1. Sound(t, t.written) /\ t \in Rec /\ t.send # t.fill /\ (t.send # 0 /\ ~t.err => t.srv)
  BY DEF Working, Sound
<1>2. PICK v : v = WantService(t)
  OBVIOUS
<1>3. (t.eager \/ t.left > 0) \in BOOLEAN
  OBVIOUS
<1>4. v = [t EXCEPT !.upsrv = (t.eager \/ t.left > 0)]
  BY <1>2 DEF WantService
<1>5. v \in Rec
  BY <1>1, <1>3, <1>4 DEF Rec
<1>6. /\ v.user = t.user /\ v.eager = t.eager /\ v.closing = t.closing /\ v.closed = t.closed
      /\ v.trailed = t.trailed /\ v.abort = t.abort /\ v.err = t.err
      /\ SameCounts(t, v) /\ SameFlags(t, v) /\ SameStream(t, v)
      /\ v.srv = t.srv /\ v.unflushed = t.unflushed
      /\ v.upsrv = (t.eager \/ t.left > 0)
  BY <1>1, <1>4 DEF Rec, SameCounts, SameFlags, SameStream
<1>7. (v.nagle <=> v.tm_ev) /\ (v.user # "node" => ~v.nagle)
  BY <1>1, <1>6 DEF Sound, SameFlags
<1>8. Sound(v, t.written) /\ (Full(v) <=> Full(t))
  BY <1>1, <1>5, <1>6, <1>7, SoundFrame
<1>9. /\ ~v.abort /\ (Full(v) => v.flowc) /\ v.left <= MaxWrite /\ ~v.closed
  BY <1>6, <1>8 DEF SameFlags, SameCounts
<1>10. ASSUME ~v.err PROVE Promises(v)
  <2>1. (v.flowc => v.send # 0) /\ (v.send # 0 => v.srv) /\ v.send # v.fill
    BY <1>1, <1>6, <1>10 DEF SameFlags, SameStream
  <2>2. v.left > 0 => v.upsrv /\ v.srv
    BY <1>1, <1>6, <1>10 DEF SameCounts
  <2>3. ~v.trailed /\ v.written + v.left <= MaxUnits /\ ~v.closing
    BY <1>6 DEF SameCounts
  <2>4. v.user = "node" => ~v.eager /\ (v.upsrv => v.left > 0)
    BY <1>6 DEF SameCounts
  <2>5. v.user # "node" => ~v.flush
    BY <1>6 DEF SameFlags
  <2> QED BY <2>1, <2>2, <2>3, <2>4, <2>5 DEF Promises
<1>11. Sound(v, v.written)
  BY <1>6, <1>8 DEF SameCounts
<1> QED BY <1>2, <1>9, <1>10, <1>11 DEF Settled

\* tx_deflate_write(), and the service that its writer asks for.
LEMMA WriteProperty ==
    ASSUME NEW s, NEW n \in Nat, NEW block \in Int, Ready(s), n <= MaxWrite, block <= n,
           s.written + n <= MaxUnits
    PROVE  Settled(WantService(tx_deflate_write(s, n, block)))
<1>1. /\ Working(s, s.written) /\ s \in Rec /\ s.written \in Nat
      /\ MaxUnits \in Nat /\ MaxWrite \in Nat
  BY DeflateAssumption DEF Ready, Working, Sound, Rec
<1>2. PICK t : t = tx_deflate_write(s, n, block)
  OBVIOUS
<1>3. CASE s.flowc
  <2>1. t = [s EXCEPT !.left = n]
    BY <1>2, <1>3 DEF tx_deflate_write
  <2>2. /\ t \in Rec /\ Same(s, t) /\ SameStream(s, t) /\ SameFlags(s, t)
        /\ t.srv = s.srv /\ t.err = s.err /\ t.unflushed = s.unflushed /\ t.left = n
        /\ t.written = s.written
    BY <1>1, <2>1 DEF Rec, Same, SameStream, SameFlags
  <2>3. /\ (t.nagle <=> t.tm_ev) /\ (t.user # "node" => ~t.nagle) /\ t.user = s.user
        /\ t.unflushed <= s.written /\ (t.user # "node" /\ t.unflushed = 0 => Drained(s))
    BY <1>1, <2>2 DEF Working, Sound, SameFlags, Same
  <2>4. Working(t, s.written) /\ (Full(t) <=> Full(s))
    BY <1>1, <2>2, <2>3, WorkingFrame
  <2>5. ~t.abort /\ ~t.closed /\ ~t.trailed /\ ~t.closing /\ (t.user = "node" => ~t.eager)
    BY <2>2 DEF Same, Ready
  <2>6. t.flowc /\ t.send # 0 /\ (t.user # "node" => ~t.flush)
    BY <1>3, <2>2, <2>3 DEF SameFlags, SameStream, Ready
  <2>7. t.left <= MaxWrite /\ t.written + t.left <= MaxUnits /\ Working(t, t.written)
    BY <2>2, <2>4
  <2> QED BY <1>2, <2>5, <2>6, <2>7, WriteEnds
<1>4. CASE ~s.flowc
  <2>1. ~Full(s) /\ (s.user # "node" => ~s.flush)
    BY <1>4 DEF Ready
  <2>2. t = deflate_add(s, n, block)
    BY <1>2, <1>4 DEF tx_deflate_write
  <2>3. /\ Follows(s, t, t.written) /\ Written(t)
        /\ t.left <= n /\ t.written + t.left = s.written + n
        /\ s.user # "node" => ~t.flush
    BY <1>1, <1>4, <2>1, <2>2, AddProperty
  <2>4. /\ ~t.abort /\ ~t.closed /\ ~t.trailed /\ ~t.closing
        /\ (t.user = "node" => ~t.eager) /\ t.user = s.user
    BY <2>3 DEF Follows, Same, Ready
  <2>5. Working(t, t.written) /\ t.left \in Nat
    BY <2>3 DEF Follows, Working, Sound, Rec
  <2>6. (Full(t) => t.flowc) /\ (~t.err => (t.flowc => t.send # 0)) /\ (~t.err /\ t.left > 0 => t.send # 0)
    BY <2>3, <2>5 DEF Written, Stuck
  <2>7. t.left <= MaxWrite /\ t.written + t.left <= MaxUnits
    BY <1>1, <2>3, <2>5
  <2> QED BY <1>2, <2>3, <2>4, <2>5, <2>6, <2>7, WriteEnds
<1> QED BY <1>3, <1>4

\* deflate_flush_send(), when a timer, a flush or a service runs it.
LEMMA FlushSettles ==
    ASSUME NEW s, Working(s, s.written), ~Full(s), ~s.flowc, ~s.abort, ~s.closed,
           s.left <= MaxWrite, Promises(s), s.user # "node" => s.closing
    PROVE  LET t == deflate_flush_send(s)
           IN  Settled(t) /\ Same(s, t) /\ SameCounts(s, t)
<1>1. PICK t : t = deflate_flush_send(s)
  OBVIOUS
<1>2. Follows(s, t, s.written) /\ SameCounts(s, t) /\ FlushEnded(t)
  BY <1>1, FlushSendProperty
<1>3. /\ Working(t, t.written) /\ Sound(t, t.written) /\ Same(s, t) /\ (s.srv => t.srv)
  BY <1>2 DEF Follows, SameCounts, Working
<1>4. ~t.abort /\ ~t.closed /\ t.left <= MaxWrite
  BY <1>2, <1>3 DEF Same, SameCounts
<1>5. (Full(t) => t.flowc) /\ (t.flowc => t.send # 0)
  BY <1>2 DEF FlushEnded, Stuck, Flushed
<1>6. ASSUME ~t.err PROVE Promises(t)
  <2>1. t.send # t.fill /\ (t.send # 0 => t.srv)
    BY <1>3, <1>6 DEF Working
  <2>2. /\ t.left > 0 => t.upsrv /\ t.srv
        /\ IF t.trailed THEN t.closing ELSE t.written + t.left <= MaxUnits
        /\ t.user = "node" => ~t.eager /\ ~t.closing /\ (t.upsrv => t.left > 0)
        /\ t.user # "node" => t.closing
        /\ t.closing => ~t.upsrv
    BY <1>2, <1>3 DEF Same, SameCounts, Promises
  <2> QED BY <1>5, <2>1, <2>2 DEF Promises
<1>7. Settled(t)
  BY <1>3, <1>4, <1>5, <1>6 DEF Settled
<1> QED BY <1>1, <1>2, <1>3, <1>7

\* deflate_send(), on the buffer of the trailer too.
LEMMA SendSound ==
    ASSUME NEW s, NEW w, Sound(s, w), s.send # 0
    PROVE  LET t == deflate_send(s)
           IN  /\ Sound(t, w) /\ Same(s, t) /\ SameCounts(s, t) /\ SameFlags(s, t)
               /\ t.fill = s.fill /\ t.send \in {0, s.send}
               /\ Full(t) => Full(s)
               /\ t.send = 0 => t.err = s.err
               /\ s.srv => t.srv
               /\ t.send # 0 /\ ~t.err => t.srv
<1>1. s \in Rec /\ w \in Nat /\ w <= MaxUnits + 1 /\ BuffersFit(s)
  BY DEF Sound
<1>2. PICK a, b, c \in Nat : Layout(s, a, b, c, w)
  BY DEF Sound
<1>3. PICK t : t = deflate_send(s)
  OBVIOUS
<1>4. /\ t \in Rec /\ Same(s, t) /\ SameCounts(s, t) /\ SameFlags(s, t) /\ SameDeflate(s, t)
      /\ Layout(t, a, b, c, w) /\ BuffersFit(t)
      /\ t.fill = s.fill /\ t.send \in {0, s.send}
      /\ Full(t) => Full(s)
      /\ t.send = 0 => t.err = s.err
      /\ s.srv => t.srv
      /\ t.send # 0 /\ ~t.err => t.srv
  BY <1>1, <1>2, <1>3, SendProperty
<1>5. /\ (t.nagle <=> t.tm_ev) /\ (t.user # "node" => ~t.nagle)
      /\ t.unflushed <= w /\ (t.user # "node" /\ t.unflushed = 0 => Drained(t))
  BY <1>4 DEF Sound, Same, SameFlags, SameDeflate, Drained
<1>6. Sound(t, w)
  BY <1>1, <1>4, <1>5 DEF Sound
<1> QED BY <1>3, <1>4, <1>6

\* tx_deflate_pending() = 0: everything was sent.
LEMMA NonePendingSent ==
    ASSUME NEW s, NEW w, Sound(s, w), s.user # "node", NonePending(s)
    PROVE  /\ s.send = 0 /\ s.sent = w /\ Drained(s) /\ s.unflushed = 0
           /\ FillBuf(s) = <<>> /\ Other(s) = <<>>
<1>1. s \in Rec /\ w \in Nat /\ s.sent \in Nat /\ s.fill \in 1 .. 2 /\ s.send \in 0 .. 2
  BY DEF Sound, Rec
<1>2. PICK a, b, c \in Nat : Layout(s, a, b, c, w)
  BY DEF Sound
<1>3. s.unflushed = 0 /\ Drained(s) /\ FillBuf(s) = <<>>
  BY DEF Sound, NonePending
<1>4. s.sent <= a /\ a <= b /\ b <= c /\ c <= w
  BY <1>2 DEF Layout
<1>5. c = w /\ b = c
  <2>1. Units(b + 1, c) = <<>> /\ Units(c + 1, w) = <<>>
    BY <1>2, <1>3 DEF Layout, Drained
  <2>2. b = c
    BY <1>4, <2>1, UnitsShape
  <2>3. c = w
    BY <1>1, <1>4, <2>1, UnitsShape
  <2> QED BY <2>2, <2>3
<1>6. s.send = 0
  <2> SUFFICES ASSUME s.send # 0 PROVE FALSE
    OBVIOUS
  <2>1. a > s.sent /\ Units(s.sent + 1, a) = <<>>
    BY <1>2 DEF Layout, NonePending
  <2>2. a = s.sent
    BY <1>1, <1>4, <2>1, UnitsShape
  <2> QED BY <1>1, <2>1, <2>2
<1>7. a = s.sent /\ Other(s) = <<>> /\ Units(a + 1, b) = <<>>
  BY <1>1, <1>2, <1>3, <1>6 DEF Layout, FillBuf
<1>8. a = b
  BY <1>4, <1>7, UnitsShape
<1> QED BY <1>3, <1>5, <1>6, <1>7, <1>8

\* The layer calls back that it is closed once everything was sent.
LEMMA CloseSettles ==
    ASSUME NEW s, Settled(s), s.user # "node"
    PROVE  Settled(ClosedIfSent(s))
<1>1. CASE ~s.err /\ ~s.abort /\ NonePending(s)
  <2>1. PICK t : t = Closed(s)
    OBVIOUS
  <2>2. s \in Rec /\ Sound(s, s.written)
    BY DEF Settled, Sound
  <2>3. s.sent = s.written
    BY <1>1, <2>2, NonePendingSent
  <2>4. /\ t \in Rec /\ SameStream(s, t) /\ SameFlags(s, t) /\ SameCounts(s, t)
        /\ t.user = s.user /\ t.unflushed = s.unflushed /\ t.abort = s.abort /\ t.closed
    BY <2>1, <2>2 DEF Closed, Rec, SameStream, SameFlags, SameCounts
  <2>5. (t.nagle <=> t.tm_ev) /\ (t.user # "node" => ~t.nagle)
    BY <2>2, <2>4 DEF Sound, SameFlags
  <2>6. Sound(t, s.written) /\ (Full(t) <=> Full(s))
    BY <2>2, <2>4, <2>5, SoundFrame
  <2>7. /\ Sound(t, t.written) /\ ~t.abort /\ (Full(t) => t.flowc) /\ t.left <= MaxWrite
        /\ t.sent = t.written
    BY <2>3, <2>4, <2>6 DEF SameCounts, SameStream, SameFlags, Settled
  <2>8. Settled(t)
    BY <2>4, <2>7 DEF Settled
  <2> QED BY <1>1, <2>1, <2>8 DEF ClosedIfSent
<1>2. CASE ~(~s.err /\ ~s.abort /\ NonePending(s))
  BY <1>2 DEF ClosedIfSent
<1> QED BY <1>1, <1>2

\* A single unit.
LEMMA UnitsOne ==
    ASSUME NEW v \in Nat
    PROVE  <<v + 1>> = Units(v + 1, v + 1)
<1>1. PICK w \in Nat : w = v + 1
  OBVIOUS
<1>2. PICK x : x = Units(v + 1, w)
  OBVIOUS
<1>3. v <= w /\ w - v = 1
  BY <1>1
<1>4. x \in Seq(Nat) /\ Len(x) = w - v /\ \A i \in 1 .. w - v : x[i] = v + i
  BY <1>2, <1>3, UnitsShape
<1>5. PICK one : one = <<w>>
  OBVIOUS
<1>6. one \in Seq(Nat) /\ Len(one) = 1 /\ one[1] = w
  BY <1>5
<1>7. Len(one) = Len(x) /\ \A i \in 1 .. Len(one) : one[i] = x[i]
  BY <1>1, <1>3, <1>4, <1>6
<1>8. one = x
  BY <1>4, <1>6, <1>7, SeqEqual
<1> QED BY <1>1, <1>2, <1>5, <1>8

\* The trailer goes in the first buffer, after all the others.
LEMMA TrailerSettles ==
    ASSUME NEW s, Settled(s), ~s.closed, ~s.trailed, s.closing, s.down = FALSE,
           s.user # "node"
    PROVE  Settled(Trailer(s)) /\ Trailer(s).user = s.user
<1>1. CASE s.user = "gzip" /\ ~s.err /\ ~s.abort /\ NonePending(s)
  <2>1. /\ s \in Rec /\ Sound(s, s.written) /\ Promises(s) /\ s.written \in Nat /\ s.left \in Nat
        /\ s.fill \in 1 .. 2 /\ s.buf \in [1 .. 2 -> Seq(Nat)]
    BY <1>1 DEF Settled, Sound, Rec
  <2>2. /\ s.send = 0 /\ s.sent = s.written /\ Drained(s) /\ s.unflushed = 0
        /\ FillBuf(s) = <<>> /\ Other(s) = <<>>
    BY <1>1, <2>1, NonePendingSent
  <2>3. s.left = 0 /\ ~s.flowc /\ ~s.upsrv
    BY <2>1, <2>2 DEF Promises
  <2>4. PICK w \in Nat : w = s.written + 1
    BY <2>1
  <2>5. w <= MaxUnits + 1 /\ MaxUnits \in Nat /\ BufferSize \in Nat /\ BufferSize > 1
    BY <2>1, <2>3, <2>4, DeflateAssumption DEF Promises
  <2>6. PICK one : one = <<w>>
    OBVIOUS
  <2>7. one \in Seq(Nat) /\ Len(one) = 1 /\ one[1] = w
    BY <2>6
  <2>8. one = Units(s.sent + 1, w)
    <3>1. s.sent \in Nat /\ w = s.sent + 1
      BY <2>1, <2>2, <2>4
    <3> QED BY <2>6, <3>1, UnitsOne
  <2>9. <<>> = Units(w + 1, w)
    BY UnitsShape
  <2>10. PICK bf : bf = [s.buf EXCEPT ![1] = one]
    OBVIOUS
  <2>11. /\ bf \in [1 .. 2 -> Seq(Nat)] /\ bf[1] = one /\ bf[2] = s.buf[2]
         /\ s.buf[1] = <<>> /\ s.buf[2] = <<>>
    <3>1. bf \in [1 .. 2 -> Seq(Nat)] /\ bf[1] = one /\ bf[2] = s.buf[2]
      BY <2>1, <2>7, <2>10
    <3>2. CASE s.fill = 1
      BY <2>2, <3>1, <3>2 DEF FillBuf, Other
    <3>3. CASE s.fill = 2
      BY <2>2, <3>1, <3>3 DEF FillBuf, Other
    <3> QED BY <2>1, <3>2, <3>3
  <2>12. PICK t : t = [s EXCEPT !.send = 1, !.buf = bf, !.written = w, !.trailed = TRUE]
    OBVIOUS
  <2>13. t \in Rec
    <3>1. PICK t0 : t0 = [s EXCEPT !.send = 1, !.buf = bf]
      OBVIOUS
    <3>2. s \in Rec /\ bf \in [1 .. 2 -> Seq(Nat)] /\ 1 \in 0 .. 2
      BY <2>1, <2>11
    <3>3. t0 \in Rec
      BY <3>1, <3>2 DEF Rec
    <3>4. t = [t0 EXCEPT !.written = w, !.trailed = TRUE]
      BY <2>12, <3>1
    <3> QED BY <3>3, <3>4 DEF Rec
  <2>14. /\ t.user = s.user /\ t.upsrv = s.upsrv /\ t.eager = s.eager /\ t.closing = s.closing
         /\ t.closed = s.closed /\ t.trailed = TRUE /\ t.down = s.down /\ t.abort = s.abort
         /\ t.err = s.err /\ t.srv = s.srv
         /\ t.written = w /\ t.left = s.left /\ SameFlags(s, t) /\ SameDeflate(s, t)
         /\ t.buf = bf /\ t.send = 1 /\ t.fill = s.fill /\ t.sent = s.sent
    BY <2>1, <2>12 DEF Rec, SameFlags, SameDeflate
  <2>15. Layout(t, w, w, w, w)
    <3>1. t.sent <= w /\ w > t.sent /\ t.buf[1] = Units(t.sent + 1, w)
      BY <2>1, <2>2, <2>4, <2>8, <2>11, <2>14
    <3>2. t.zout = Units(w + 1, w) /\ t.z = Units(w + 1, w)
      BY <2>2, <2>9, <2>14 DEF Drained, SameDeflate
    <3>3. t.fill = 1 => Other(t) = <<>>
      BY <2>11, <2>14 DEF Other
    <3>4. t.fill # 1 => t.buf[t.fill] = Units(w + 1, w)
      BY <2>1, <2>9, <2>11, <2>14
    <3> QED BY <2>14, <3>1, <3>2, <3>3, <3>4 DEF Layout
  <2>16. BuffersFit(t) /\ ~Full(t)
    <3>1. Len(bf[1]) = 1 /\ Len(bf[2]) = 0
      BY <2>7, <2>11
    <3>2. ASSUME NEW i \in 1 .. 2 PROVE Len(bf[i]) = 0 \/ Len(bf[i]) = 1
      <4>1. i = 1 \/ i = 2
        OBVIOUS
      <4> QED BY <3>1, <4>1
    <3>3. ASSUME NEW i \in 1 .. 2
          PROVE  Len(bf[i]) <= BufferSize /\ ~(Len(bf[i]) >= BufferSize)
      <4>1. PICK k : k = Len(bf[i])
        OBVIOUS
      <4>2. k = 0 \/ k = 1
        BY <3>2, <4>1
      <4>3. k <= BufferSize /\ ~(k >= BufferSize)
        BY <2>5, <4>2
      <4> QED BY <4>1, <4>3
    <3> QED BY <2>1, <2>14, <3>3 DEF BuffersFit, Full, FillBuf
  <2>17. /\ (t.nagle <=> t.tm_ev) /\ (t.user # "node" => ~t.nagle)
         /\ t.unflushed <= w /\ Drained(t)
    BY <2>1, <2>2, <2>14 DEF Sound, SameFlags, SameDeflate, Drained
  <2>18. Sound(t, w)
    BY <2>5, <2>13, <2>15, <2>16, <2>17 DEF Sound
  <2>19. PICK u : u = deflate_send(t)
    OBVIOUS
  <2>20. t.send # 0
    BY <2>14
  <2>21. /\ Sound(u, w) /\ Same(t, u) /\ SameCounts(t, u) /\ SameFlags(t, u)
         /\ Full(u) => Full(t)
         /\ u.send # 0 /\ ~u.err => u.srv
    BY <2>18, <2>19, <2>20, SendSound
  <2>22. u = Trailer(s)
    BY <1>1, <2>4, <2>6, <2>10, <2>12, <2>19 DEF Trailer
  <2>23. /\ u.user = s.user /\ ~u.abort /\ ~u.closed /\ u.left = 0 /\ u.written = w /\ ~u.flowc
         /\ u.trailed /\ u.closing /\ ~u.upsrv
    BY <1>1, <2>3, <2>14, <2>21 DEF Same, SameCounts, SameFlags
  <2>24. ~u.err => Promises(u)
    BY <2>21, <2>23 DEF Promises
  <2>25. u.left <= MaxWrite
    BY <2>23, DeflateAssumption
  <2>26. Settled(u)
    BY <2>16, <2>21, <2>23, <2>24, <2>25 DEF Settled
  <2> QED BY <2>22, <2>23, <2>26
<1>2. CASE ~(s.user = "gzip" /\ ~s.err /\ ~s.abort /\ NonePending(s))
  BY <1>2 DEF Trailer
<1> QED BY <1>1, <1>2

\* tx_close(), by an upload that has written everything.
LEMMA CloseProperty ==
    ASSUME NEW s, Ready(s), ~s.flowc, s.user # "node", s.left = 0,
           s.down = FALSE, s.written <= MaxUnits
    PROVE  Settled(tx_close(s))
<1>1. /\ Working(s, s.written) /\ Sound(s, s.written) /\ s \in Rec /\ ~Full(s) /\ ~s.nagle
      /\ ~s.closed /\ ~s.abort /\ ~s.trailed /\ ~s.err /\ s.written \in Nat
  BY DEF Ready, Working, Sound
<1>2. PICK t : t = [s EXCEPT !.eager = FALSE, !.upsrv = FALSE, !.closing = TRUE]
  OBVIOUS
<1>3. /\ t \in Rec /\ SameStream(s, t) /\ SameFlags(s, t) /\ SameCounts(s, t)
      /\ t.user = s.user /\ t.unflushed = s.unflushed /\ t.abort = s.abort /\ t.closed = s.closed
      /\ t.err = s.err /\ t.srv = s.srv /\ t.trailed = s.trailed /\ t.down = s.down
      /\ t.upsrv = FALSE /\ t.closing = TRUE
  BY <1>1, <1>2 DEF Rec, SameStream, SameFlags, SameCounts
<1>4. /\ (t.nagle <=> t.tm_ev) /\ (t.user # "node" => ~t.nagle)
      /\ t.unflushed <= s.written /\ (t.user # "node" /\ t.unflushed = 0 => Drained(s))
  BY <1>1, <1>3 DEF Sound, SameFlags
<1>5. Working(t, s.written) /\ (Full(t) <=> Full(s))
  BY <1>1, <1>3, <1>4, WorkingFrame
<1>6. /\ Working(t, t.written) /\ ~Full(t) /\ ~t.flowc /\ ~t.abort /\ ~t.closed /\ t.left = 0
      /\ ~t.nagle /\ t.user # "node" /\ ~t.trailed
  BY <1>1, <1>3, <1>5 DEF SameFlags, SameCounts
<1>7. Promises(t)
  <2>1. t.written + t.left <= MaxUnits
    BY <1>1, <1>3, <1>6 DEF SameCounts
  <2>2. t.send # t.fill /\ (t.send # 0 => t.srv)
    BY <1>1, <1>3, <1>6 DEF Working
  <2> QED BY <1>3, <1>6, <2>1, <2>2 DEF Promises
<1>8. PICK u : u = deflate_flush_send(t)
  OBVIOUS
<1>9. t.left <= MaxWrite /\ (t.user # "node" => t.closing)
  BY <1>3, <1>6, DeflateAssumption
<1>10. Settled(u) /\ Same(t, u) /\ SameCounts(t, u)
  BY <1>6, <1>7, <1>8, <1>9, FlushSettles
<1>11. u = tx_deflate_flush(t)
  BY <1>6, <1>8 DEF tx_deflate_flush
<1>12. ~u.closed /\ ~u.trailed /\ u.closing /\ u.down = FALSE /\ u.user # "node"
  BY <1>3, <1>6, <1>10 DEF Same
<1>13. Settled(Trailer(u)) /\ Trailer(u).user # "node"
  BY <1>10, <1>12, TrailerSettles
<1>14. Settled(ClosedIfSent(Trailer(u)))
  BY <1>13, CloseSettles
<1> QED BY <1>2, <1>11, <1>14 DEF tx_close

\* The upper layer runs in a state where nothing holds it back.
LEMMA UpperProperty ==
    ASSUME NEW s, NEW n \in Nat, NEW block \in Int, Ready(s), ~s.flowc, s.down = FALSE,
           s.left > 0 => s.upsrv, s.user = "node" => (s.upsrv => s.left > 0),
           s.left <= MaxWrite, s.written + s.left <= MaxUnits,
           n <= MaxWrite, n > 0 => s.written + n <= MaxUnits
    PROVE  Settled(UpperService(s, n, block))
<1>1. /\ Working(s, s.written) /\ Sound(s, s.written) /\ s \in Rec /\ ~Full(s)
      /\ s.written \in Nat /\ s.left \in Nat /\ s.send # s.fill /\ (s.send # 0 => s.srv)
  BY DEF Ready, Working, Sound, Rec
<1>2. CASE ~s.upsrv
  <2>1. s.left = 0
    BY <1>1, <1>2
  <2>2. Promises(s)
    BY <1>1, <1>2, <2>1 DEF Promises, Ready
  <2>3. Settled(s)
    BY <1>1, <2>2 DEF Settled, Ready
  <2> QED BY <1>2, <2>3 DEF UpperService
<1>3. CASE s.upsrv /\ s.left > 0
  <2>1. PICK k : k = Min({block, s.left})
    OBVIOUS
  <2>2. k \in Int /\ k <= s.left
    <3>1. PICK y \in Int : y = s.left
      BY <1>1
    <3>2. k \in {block, y} /\ k <= y
      BY <2>1, <3>1, MinTwo
    <3> QED BY <3>1, <3>2
  <2>3. Settled(WantService(tx_deflate_write(s, s.left, k)))
    BY <1>1, <2>2, WriteProperty
  <2> QED BY <1>3, <2>1, <2>3 DEF UpperService
<1>4. CASE s.upsrv /\ ~(s.left > 0) /\ n > 0
  <2>1. PICK k : k = Min({block, n})
    OBVIOUS
  <2>2. k \in Int /\ k <= n
    BY <2>1, MinTwo
  <2>3. Settled(WantService(tx_deflate_write(s, n, k)))
    BY <1>4, <2>2, WriteProperty
  <2> QED BY <1>4, <2>1, <2>3 DEF UpperService
<1>5. CASE s.upsrv /\ ~(s.left > 0) /\ ~(n > 0)
  <2>1. s.left = 0 /\ s.user # "node" /\ s.written <= MaxUnits
    BY <1>1, <1>5, DeflateAssumption
  <2>2. Settled(tx_close(s))
    BY <2>1, CloseProperty
  <2> QED BY <1>5, <2>2 DEF UpperService
<1> QED BY <1>2, <1>3, <1>4, <1>5

\* What is left of deflate_service() once the send buffer is sent and the other
\* one is not full.
LEMMA ServiceEnds ==
    ASSUME NEW s, NEW n \in Nat, NEW block \in Int,
           Working(s, s.written), ~Full(s), ~s.err, ~s.abort, ~s.closed, s.down = FALSE,
           s.left <= MaxWrite, s.left > 0 => s.upsrv,
           IF s.trailed THEN s.closing ELSE s.written + s.left <= MaxUnits,
           s.user = "node" => ~s.eager /\ ~s.closing /\ (s.upsrv => s.left > 0),
           s.user # "node" => (s.flush => s.closing), s.closing => ~s.upsrv,
           n <= MaxWrite, n > 0 => s.written + n <= MaxUnits
    PROVE  Settled(ServiceUpper(EndFlowControl(s), n, block))
<1>1. /\ Sound(s, s.written) /\ s \in Rec /\ s.send # s.fill /\ s.left \in Nat /\ s.eager \in BOOLEAN
  BY DEF Working, Sound, Rec
<1>2. PICK t : t = EndFlowControl(s)
  OBVIOUS
<1>3. t = [s EXCEPT !.srv = (s.send # 0 \/ s.eager), !.flowc = FALSE] /\ (s.send # 0 \/ s.eager) \in BOOLEAN
  BY <1>2 DEF EndFlowControl
<1>4. t \in Rec
  BY <1>1, <1>3 DEF Rec
<1>5. /\ SameStream(s, t) /\ SameCounts(s, t) /\ Same(s, t) /\ t.err = s.err
      /\ t.unflushed = s.unflushed /\ t.nagle = s.nagle /\ t.tm_ev = s.tm_ev /\ t.flush = s.flush
      /\ t.flowc = FALSE /\ t.srv = (s.send # 0 \/ s.eager)
  BY <1>1, <1>3 DEF Rec, SameStream, SameCounts, Same
<1>6. (t.nagle <=> t.tm_ev) /\ (t.user # "node" => ~t.nagle) /\ t.user = s.user
  BY <1>1, <1>5 DEF Sound, Same
<1>7. Sound(t, s.written) /\ (Full(t) <=> Full(s))
  BY <1>1, <1>4, <1>5, <1>6, SoundFrame
<1>8. /\ Working(t, t.written) /\ ~Full(t) /\ ~t.flowc /\ t.send # t.fill /\ (t.send # 0 => t.srv)
  BY <1>1, <1>5, <1>7 DEF Working, SameStream, SameCounts
<1>9. /\ ~t.err /\ ~t.abort /\ ~t.closed /\ t.down = FALSE
      /\ t.left <= MaxWrite /\ t.left \in Nat /\ (t.left > 0 => t.upsrv)
      /\ IF t.trailed THEN t.closing ELSE t.written + t.left <= MaxUnits
      /\ t.user = "node" => ~t.eager /\ ~t.closing /\ (t.upsrv => t.left > 0)
      /\ t.user # "node" => (t.flush => t.closing)
      /\ t.closing => ~t.upsrv
      /\ n > 0 => t.written + n <= MaxUnits
  BY <1>1, <1>5 DEF Same, SameCounts
<1>10. CASE t.closing
  <2>1. t.user # "node" /\ t.left = 0
    BY <1>9, <1>10
  <2>2. Promises(t)
    BY <1>8, <1>9, <1>10, <2>1 DEF Promises
  <2>3. Settled(deflate_flush_send(t)) /\ Same(t, deflate_flush_send(t))
    BY <1>8, <1>9, <1>10, <2>2, FlushSettles
  <2>4. deflate_flush_send(t).user # "node"
    BY <2>1, <2>3 DEF Same
  <2>5. Settled(ClosedIfSent(deflate_flush_send(t)))
    BY <2>3, <2>4, CloseSettles
  <2> QED BY <1>2, <1>10, <2>5 DEF ServiceUpper
<1>11. CASE ~t.closing
  <2>1. ~t.trailed /\ t.written + t.left <= MaxUnits
    BY <1>9, <1>11
  <2>2. Ready(t)
    BY <1>8, <1>9, <1>11, <2>1 DEF Ready
  <2>3. Settled(UpperService(t, n, block))
    BY <1>8, <1>9, <2>1, <2>2, UpperProperty
  <2> QED BY <1>2, <1>11, <2>3 DEF ServiceUpper
<1> QED BY <1>10, <1>11

\* deflate_service() leaves the layer as it must be between two handlers.
LEMMA ServiceProperty ==
    ASSUME NEW s, NEW n \in Nat, NEW block \in Int,
           Settled(s), ~s.err, ~s.closed, s.down = FALSE, s.srv,
           n <= MaxWrite, n > 0 => s.written + n <= MaxUnits
    PROVE  Settled(deflate_service(s, n, block))
<1>1. Sound(s, s.written) /\ Promises(s) /\ ~s.abort /\ (Full(s) => s.flowc) /\ s.left <= MaxWrite
  BY DEF Settled
<1>2. PICK p : p = SendPending(s)
  OBVIOUS
<1>3. /\ Sound(p, s.written) /\ Same(s, p) /\ SameCounts(s, p) /\ SameFlags(s, p)
      /\ p.fill = s.fill /\ p.send \in {0, s.send}
      /\ Full(p) => Full(s)
      /\ p.send = 0 => p.err = s.err
      /\ p.srv
      /\ p.send # 0 => s.send # 0
  <2>1. CASE s.send # 0
    <3>1. p = deflate_send(s)
      BY <1>2, <2>1 DEF SendPending
    <3> QED BY <1>1, <2>1, <3>1, SendSound
  <2>2. CASE s.send = 0
    <3>1. p = s
      BY <1>2, <2>2 DEF SendPending
    <3> QED BY <1>1, <2>2, <3>1 DEF Same, SameCounts, SameFlags
  <2> QED BY <2>1, <2>2
<1>4. Sound(p, p.written) /\ p \in Rec
  BY <1>3 DEF SameCounts, Sound
<1>5. CASE p.send # 0
  <2>1. p.send = s.send /\ s.send # 0
    BY <1>3, <1>5
  <2>2. Promises(p)
    <3>1. /\ p.user = s.user /\ p.upsrv = s.upsrv /\ p.eager = s.eager /\ p.closing = s.closing
          /\ p.trailed = s.trailed /\ p.written = s.written /\ p.left = s.left
          /\ p.flush = s.flush /\ p.fill = s.fill
      BY <1>3 DEF Same, SameCounts, SameFlags
    <3> QED BY <1>1, <1>3, <1>5, <2>1, <3>1 DEF Promises
  <2>3. ~p.abort /\ (Full(p) => p.flowc) /\ p.left <= MaxWrite /\ ~p.closed
    BY <1>1, <1>3 DEF Same, SameCounts, SameFlags
  <2>4. Settled(p)
    BY <1>4, <2>2, <2>3 DEF Settled
  <2> QED BY <1>2, <1>5, <2>4 DEF deflate_service, ServiceSent
<1>6. CASE p.send = 0
  <2>1. ~p.err /\ Working(p, p.written)
    <3>1. p.fill \in 1 .. 2
      BY <1>4 DEF Rec
    <3> QED BY <1>3, <1>4, <1>6, <3>1 DEF Working
  <2>2. PICK q : q = SendFull(p)
    OBVIOUS
  <2>3. Working(q, p.written) /\ Same(p, q) /\ SameCounts(p, q) /\ q.flush = p.flush /\ ~Full(q)
    <3>1. CASE Full(p)
      <4>1. FillBuf(p) # <<>>
        BY <3>1, FullNotEmpty
      <4>2. q = deflate_rotate_and_send(p)
        BY <1>6, <2>2, <3>1 DEF SendFull
      <4> QED BY <1>6, <2>1, <4>1, <4>2, RotateWorks
    <3>2. CASE ~Full(p)
      <4>1. q = p
        BY <2>2, <3>2 DEF SendFull
      <4> QED BY <2>1, <3>2, <4>1 DEF Same, SameCounts
    <3> QED BY <3>1, <3>2
  <2>4. /\ q.user = s.user /\ q.upsrv = s.upsrv /\ q.eager = s.eager /\ q.closing = s.closing
        /\ q.closed = s.closed /\ q.abort = s.abort /\ q.down = s.down
        /\ q.trailed = s.trailed /\ q.written = s.written /\ q.left = s.left /\ q.flush = s.flush
    BY <1>3, <2>3 DEF Same, SameCounts, SameFlags
  <2>5. Working(q, q.written) /\ q.written = s.written
    BY <2>3, <2>4 DEF SameCounts
  <2>6. CASE q.err
    <3>1. Sound(q, q.written) /\ ~q.abort /\ ~q.closed /\ q.left <= MaxWrite
      BY <1>1, <2>4, <2>5 DEF Working
    <3>2. Settled(q)
      BY <2>3, <2>6, <3>1 DEF Settled
    <3> QED BY <1>2, <1>6, <2>2, <2>6, <3>2 DEF deflate_service, ServiceSent, ServiceFilled
  <2>7. CASE ~q.err
    <3>1. /\ ~q.abort /\ ~q.closed /\ q.down = FALSE
          /\ q.left <= MaxWrite /\ (q.left > 0 => q.upsrv)
          /\ IF q.trailed THEN q.closing ELSE q.written + q.left <= MaxUnits
          /\ q.user = "node" => ~q.eager /\ ~q.closing /\ (q.upsrv => q.left > 0)
          /\ q.user # "node" => (q.flush => q.closing)
          /\ q.closing => ~q.upsrv
          /\ n > 0 => q.written + n <= MaxUnits
      BY <1>1, <2>4 DEF Promises
    <3>2. Settled(ServiceUpper(EndFlowControl(q), n, block))
      BY <2>3, <2>5, <2>7, <3>1, ServiceEnds
    <3> QED BY <1>2, <1>6, <2>2, <2>7, <3>2 DEF deflate_service, ServiceSent, ServiceFilled
  <2> QED BY <2>6, <2>7
<1> QED BY <1>5, <1>6

----------------------------------------------------------------------------
(* The theorems.                                                           *)

\* The layer starts with empty buffers, or with the gzip header in the first.
LEMMA DeflateInitOK == DeflateInit => DeflateIInv
<1> SUFFICES ASSUME DeflateInit PROVE Settled(d)
  BY DEF DeflateIInv
<1>1. PICK u \in User :
        d = [user |-> u, buf |-> <<IF u = "gzip" THEN <<1>> ELSE <<>>, <<>>>>,
             fill |-> 1, send |-> 0, z |-> <<>>, zout |-> <<>>, unflushed |-> 0,
             flowc |-> FALSE, nagle |-> FALSE, tm_ev |-> FALSE, flush |-> FALSE,
             srv |-> u # "node", upsrv |-> u # "node", eager |-> u # "node",
             room |-> 0, sent |-> 0, written |-> IF u = "gzip" THEN 1 ELSE 0, left |-> 0,
             closing |-> FALSE, closed |-> FALSE, trailed |-> FALSE,
             err |-> FALSE, abort |-> FALSE, down |-> FALSE]
  BY DEF DeflateInit
<1>2. PICK w \in Nat : w = IF u = "gzip" THEN 1 ELSE 0
  OBVIOUS
<1>3. PICK x : x = IF u = "gzip" THEN <<1>> ELSE <<>>
  OBVIOUS
<1>4. PICK bf : bf = <<x, <<>>>>
  OBVIOUS
<1>5. w <= 1 /\ x \in Seq(Nat) /\ x = Units(1, w) /\ Len(x) = w
  <2>1. CASE u = "gzip"
    <3>1. w = 1 /\ x = <<1>>
      BY <1>2, <1>3, <2>1
    <3>2. <<0 + 1>> = Units(0 + 1, 0 + 1)
      BY UnitsOne
    <3>3. x = Units(1, w)
      BY <3>1, <3>2
    <3> QED BY <3>1, <3>3
  <2>2. CASE u # "gzip"
    <3>1. w = 0 /\ x = <<>>
      BY <1>2, <1>3, <2>2
    <3>2. Units(0 + 1, 0) = <<>>
      BY UnitsShape
    <3>3. x = Units(1, w)
      BY <3>1, <3>2
    <3> QED BY <3>1, <3>3
  <2> QED BY <2>1, <2>2
<1>6. bf \in [1 .. 2 -> Seq(Nat)] /\ bf[1] = x /\ bf[2] = <<>>
  <2>1. PICK S, y : S = Seq(Nat) /\ y = <<>>
    OBVIOUS
  <2>2. x \in S /\ y \in S /\ bf = <<x, y>>
    BY <1>4, <1>5, <2>1
  <2>3. bf \in [1 .. 2 -> S] /\ bf[1] = x /\ bf[2] = y
    BY <2>2
  <2> QED BY <2>1, <2>3
<1>7. MaxUnits \in Nat /\ MaxUnits >= 1 /\ MaxWrite \in Nat /\ MaxRoom \in Nat /\ BufferSize \in Nat /\ BufferSize > 1
  BY DeflateAssumption
<1>8. /\ d.user = u /\ d.buf = bf /\ d.fill = 1 /\ d.send = 0 /\ d.z = <<>> /\ d.zout = <<>>
      /\ d.unflushed = 0 /\ d.flowc = FALSE /\ d.nagle = FALSE /\ d.tm_ev = FALSE /\ d.flush = FALSE
      /\ d.srv = (u # "node") /\ d.upsrv = (u # "node") /\ d.eager = (u # "node")
      /\ d.sent = 0 /\ d.written = w /\ d.left = 0
      /\ d.closing = FALSE /\ d.closed = FALSE /\ d.trailed = FALSE
      /\ d.err = FALSE /\ d.abort = FALSE /\ d.down = FALSE
  BY <1>1, <1>2, <1>3, <1>4
<1>9. d \in Rec
  <2>1. /\ u \in User /\ w \in Nat /\ bf \in [1 .. 2 -> Seq(Nat)] /\ <<>> \in Seq(Nat)
        /\ 0 \in Broken .. MaxRoom /\ (u # "node") \in BOOLEAN
        /\ 1 \in 1 .. 2 /\ 0 \in 0 .. 2
    BY <1>6, <1>7 DEF Broken
  <2>2. d = [user |-> u, buf |-> bf,
             fill |-> 1, send |-> 0, z |-> <<>>, zout |-> <<>>, unflushed |-> 0,
             flowc |-> FALSE, nagle |-> FALSE, tm_ev |-> FALSE, flush |-> FALSE,
             srv |-> u # "node", upsrv |-> u # "node", eager |-> u # "node",
             room |-> 0, sent |-> 0, written |-> w, left |-> 0,
             closing |-> FALSE, closed |-> FALSE, trailed |-> FALSE,
             err |-> FALSE, abort |-> FALSE, down |-> FALSE]
    BY <1>1, <1>2, <1>3, <1>4
  <2> QED BY <2>1, <2>2 DEF Rec
<1>10. Layout(d, 0, w, w, w)
  <2>1. <<>> = Units(w + 1, w)
    BY UnitsShape
  <2>2. Other(d) = <<>>
    BY <1>6, <1>8 DEF Other
  <2>3. 0 + 1 = 1
    OBVIOUS
  <2> QED BY <1>5, <1>6, <1>8, <2>1, <2>2, <2>3 DEF Layout
<1>11. BuffersFit(d) /\ ~Full(d)
  <2>1. Len(bf[1]) = w /\ Len(bf[2]) = 0
    BY <1>5, <1>6
  <2>2. ASSUME NEW i \in 1 .. 2 PROVE Len(d.buf[i]) <= BufferSize
    <3>1. i = 1 \/ i = 2
      OBVIOUS
    <3>2. PICK k : k = Len(bf[i])
      OBVIOUS
    <3>3. k = w \/ k = 0
      BY <2>1, <3>1, <3>2
    <3>4. k <= BufferSize
      BY <1>5, <1>7, <3>3
    <3> QED BY <1>8, <3>2, <3>4
  <2>3. FillBuf(d) = bf[1]
    BY <1>8 DEF FillBuf
  <2>4. ~(w >= BufferSize)
    BY <1>5, <1>7
  <2>5. ~Full(d)
    BY <2>1, <2>3, <2>4 DEF Full
  <2> QED BY <2>2, <2>5 DEF BuffersFit
<1>12. Sound(d, d.written)
  <2>1. d.unflushed <= w /\ w <= MaxUnits + 1
    BY <1>5, <1>7, <1>8
  <2>2. \E a, b, c \in Nat : Layout(d, a, b, c, w)
    BY <1>10
  <2> QED BY <1>8, <1>9, <1>11, <2>1, <2>2 DEF Sound, Drained
<1>13. Promises(d)
  <2>1. d.written + d.left <= MaxUnits
    BY <1>5, <1>7, <1>8
  <2>2. ~(d.left > 0) /\ d.send # d.fill /\ ~d.trailed /\ ~d.closing /\ ~d.flush /\ ~d.flowc
    BY <1>8
  <2>3. d.user = "node" => ~d.eager /\ ~d.upsrv
    BY <1>8
  <2>4. d.send = 0
    BY <1>8
  <2> QED BY <2>1, <2>2, <2>3, <2>4 DEF Promises
<1>14. d.left <= MaxWrite
  BY <1>7, <1>8
<1> QED BY <1>8, <1>11, <1>12, <1>13, <1>14 DEF Settled

\* A node's stack, between two handlers.
LEMMA NodeReady ==
    ASSUME NEW s, Settled(s), ~s.err, ~s.closed, ~s.down, s.user = "node"
    PROVE  Ready(s) /\ s.left <= MaxWrite /\ Promises(s)
<1>1. Sound(s, s.written) /\ Promises(s) /\ ~s.abort /\ (Full(s) => s.flowc) /\ s.left <= MaxWrite
  BY DEF Settled
<1>2. /\ (s.flowc => s.send # 0) /\ (s.send # 0 => s.srv)
      /\ ~s.closing /\ ~s.trailed /\ ~s.eager /\ s.send # s.fill
  BY <1>1 DEF Promises
<1>3. Working(s, s.written)
  BY <1>1, <1>2 DEF Working
<1> QED BY <1>1, <1>2, <1>3 DEF Ready

\* The timer, or a flush that finds it on.
LEMMA NagleSettles ==
    ASSUME NEW s, Settled(s), ~s.err, ~s.closed, ~s.down, s.user = "node", s.tm_ev
    PROVE  Settled(deflate_nagle_timeout(s))
<1>1. Ready(s) /\ s.left <= MaxWrite /\ Promises(s)
  BY NodeReady
<1>2. s \in Rec /\ Sound(s, s.written) /\ Working(s, s.written)
  BY <1>1 DEF Ready, Working, Sound
<1>3. CASE s.send # 0
  <2>1. PICK t : t = [s EXCEPT !.tm_ev = TRUE]
    OBVIOUS
  <2>2. s.tm_ev = TRUE
    BY <1>2 DEF Rec
  <2>3. t = s
    BY <1>2, <2>1, <2>2 DEF Rec
  <2> QED BY <1>3, <2>1, <2>3 DEF deflate_nagle_timeout
<1>4. CASE s.send = 0
  <2>1. PICK t : t = [s EXCEPT !.nagle = FALSE, !.tm_ev = FALSE]
    OBVIOUS
  <2>2. /\ t \in Rec /\ Same(s, t) /\ SameCounts(s, t) /\ SameStream(s, t) /\ SameSend(s, t)
        /\ t.flowc = s.flowc /\ t.flush = s.flush /\ t.nagle = FALSE /\ t.tm_ev = FALSE
        /\ t.unflushed = s.unflushed
    BY <1>2, <2>1 DEF Rec, Same, SameCounts, SameStream, SameSend
  <2>3. /\ (t.nagle <=> t.tm_ev) /\ (t.user # "node" => ~t.nagle)
        /\ t.user = s.user /\ t.srv = s.srv /\ t.err = s.err
        /\ t.unflushed <= s.written /\ (t.user # "node" /\ t.unflushed = 0 => Drained(s))
    BY <1>2, <2>2 DEF Sound, Same, SameSend
  <2>4. Working(t, s.written) /\ (Full(t) <=> Full(s))
    BY <1>2, <2>2, <2>3, WorkingFrame
  <2>5. /\ Working(t, t.written) /\ ~Full(t) /\ ~t.flowc /\ ~t.abort /\ ~t.closed
        /\ t.left <= MaxWrite /\ t.user = "node"
    BY <1>1, <1>4, <2>2, <2>4 DEF Ready, Same, SameCounts
  <2>6. Promises(t)
    BY <1>1, <2>2 DEF Promises, Same, SameCounts, SameSend
  <2>7. Settled(deflate_flush_send(t))
    BY <2>5, <2>6, FlushSettles
  <2> QED BY <1>4, <2>1, <2>7 DEF deflate_nagle_timeout
<1> QED BY <1>3, <1>4

\* What the link and the owner of the stack may change.
LEMMA SettledFrame ==
    ASSUME NEW s, NEW t \in Rec, Settled(s), SameStream(s, t), SameCounts(s, t),
           t.user = s.user, t.unflushed = s.unflushed, t.flowc = s.flowc,
           t.abort = s.abort, t.closed = s.closed,
           t.nagle <=> t.tm_ev, t.user # "node" => ~t.nagle,
           ~t.err /\ ~t.closed /\ ~t.down => Promises(t)
    PROVE  Settled(t)
<1>1. Sound(s, s.written)
  BY DEF Settled
<1>2. Sound(t, s.written) /\ (Full(t) <=> Full(s))
  BY <1>1, SoundFrame
<1>3. t.written = s.written /\ t.left = s.left /\ t.sent = s.sent
  BY DEF SameCounts, SameStream
<1>4. /\ Sound(t, t.written) /\ ~t.abort /\ (Full(t) => t.flowc) /\ t.left <= MaxWrite
      /\ (t.closed => t.sent = t.written)
  BY <1>2, <1>3 DEF Settled
<1> QED BY <1>4 DEF Settled

\* The link accepts other data than before.
LEMMA RoomSettles ==
    ASSUME NEW s, NEW room \in Broken .. MaxRoom, Settled(s)
    PROVE  LET t == [s EXCEPT !.room = room]
           IN  Settled(t) /\ Same(s, t) /\ SameCounts(s, t) /\ t.err = s.err /\ t.srv = s.srv
<1>1. s \in Rec /\ Sound(s, s.written)
  BY DEF Settled, Sound
<1>2. PICK t : t = [s EXCEPT !.room = room]
  OBVIOUS
<1>3. t \in Rec
  BY <1>1, <1>2 DEF Rec
<1>4. /\ Same(s, t) /\ SameCounts(s, t) /\ SameStream(s, t) /\ SameSend(s, t) /\ SameFlags(s, t)
      /\ t.unflushed = s.unflushed
  BY <1>1, <1>2 DEF Rec, Same, SameCounts, SameStream, SameSend, SameFlags
<1>5. /\ t.user = s.user /\ t.flowc = s.flowc /\ t.abort = s.abort /\ t.closed = s.closed
      /\ t.err = s.err /\ t.down = s.down /\ t.srv = s.srv
      /\ (t.nagle <=> t.tm_ev) /\ (t.user # "node" => ~t.nagle)
  BY <1>1, <1>4 DEF Same, SameSend, SameFlags, Sound
<1>6. Promises(s) => Promises(t)
  BY <1>4 DEF Promises, Same, SameCounts, SameSend, SameFlags
<1>7. ~t.err /\ ~t.closed /\ ~t.down => Promises(t)
  BY <1>5, <1>6 DEF Settled
<1>8. Settled(t)
  BY <1>3, <1>4, <1>5, <1>7, SettledFrame
<1> QED BY <1>2, <1>4, <1>5, <1>8

\* Each action keeps the invariant.
LEMMA DeflateStepOK == DeflateIInv /\ [DeflateNext]_d => DeflateIInv'
<1> SUFFICES ASSUME Settled(d), [DeflateNext]_d PROVE Settled(d)'
  BY DEF DeflateIInv
<1> USE DEF Alive
<1>1. /\ d \in Rec /\ Sound(d, d.written) /\ d.written \in Nat /\ d.left \in Nat /\ d.down \in BOOLEAN
      /\ MaxWrite \in Nat /\ MaxUnits \in Nat /\ MaxRoom \in Nat
  BY DeflateAssumption DEF Settled, Sound, Rec
<1>2. ASSUME NEW n \in More PROVE n \in Nat /\ n <= MaxWrite /\ d.written + n <= MaxUnits
  <2>1. PICK x \in Int : x = MaxUnits - d.written
    BY <1>1
  <2>2. PICK m : m = Min({MaxWrite, x})
    OBVIOUS
  <2>3. m \in Int /\ m <= MaxWrite /\ m <= x
    <3>1. PICK y \in Int : y = MaxWrite
      BY <1>1
    <3>2. m \in {y, x} /\ m <= y /\ m <= x
      BY <2>2, <3>1, MinTwo
    <3> QED BY <3>1, <3>2
  <2>4. n \in 1 .. m
    BY <2>1, <2>2 DEF More
  <2> QED BY <1>1, <2>1, <2>3, <2>4
<1>3. CASE Write
  <2>1. d.user = "node" /\ ~d.err /\ ~d.closed /\ ~d.down
    BY <1>3 DEF Write
  <2>2. PICK n \in More : \E block \in -1 .. n : d' = WantService(tx_deflate_write(d, n, block))
    BY <1>3 DEF Write
  <2>3. PICK block \in -1 .. n : d' = WantService(tx_deflate_write(d, n, block))
    BY <2>2
  <2>4. n \in Nat /\ n <= MaxWrite /\ d.written + n <= MaxUnits
    BY <1>2
  <2>5. block \in Int /\ block <= n
    BY <2>4
  <2>6. Ready(d)
    BY <2>1, NodeReady
  <2>7. Settled(WantService(tx_deflate_write(d, n, block)))
    BY <2>4, <2>5, <2>6, WriteProperty
  <2> QED BY <2>3, <2>7
<1>4. CASE Flush
  <2>1. d.user = "node" /\ ~d.err /\ ~d.closed /\ ~d.down /\ d' = tx_deflate_flush(d)
    BY <1>4 DEF Flush
  <2>2. Ready(d) /\ d.left <= MaxWrite /\ Promises(d)
    BY <2>1, NodeReady
  <2>3. CASE d.nagle
    <3>1. d.tm_ev /\ d' = deflate_nagle_timeout(d)
      BY <1>1, <2>1, <2>3 DEF tx_deflate_flush, Sound
    <3> QED BY <2>1, <3>1, NagleSettles
  <2>4. CASE ~d.nagle /\ ~d.flowc
    <3>1. d' = deflate_flush_send(d)
      BY <2>1, <2>4 DEF tx_deflate_flush
    <3>2. Working(d, d.written) /\ ~Full(d) /\ ~d.abort
      BY <2>2, <2>4 DEF Ready
    <3>3. Settled(deflate_flush_send(d))
      BY <2>1, <2>2, <2>4, <3>2, FlushSettles
    <3> QED BY <3>1, <3>3
  <2>5. CASE ~d.nagle /\ d.flowc
    BY <2>1, <2>5 DEF tx_deflate_flush
  <2> QED BY <2>3, <2>4, <2>5
<1>5. CASE NagleTimeout
  <2>1. d.tm_ev /\ ~d.err /\ ~d.closed /\ ~d.down /\ d' = deflate_nagle_timeout(d)
    BY <1>5 DEF NagleTimeout
  <2>2. d.user = "node"
    BY <1>1, <2>1 DEF Sound
  <2> QED BY <2>1, <2>2, NagleSettles
<1>6. ASSUME NEW room \in 1 .. MaxRoom, Writable(room) PROVE Settled(d)'
  <2>1. PICK s : s = [d EXCEPT !.room = room]
    OBVIOUS
  <2>2. ~d.err /\ ~d.closed /\ ~d.down
    BY <1>6 DEF Writable
  <2>3. room \in Broken .. MaxRoom
    BY <1>1 DEF Broken
  <2>4. Settled(s) /\ Same(d, s) /\ SameCounts(d, s) /\ s.err = d.err /\ s.srv = d.srv
    BY <2>1, <2>3, RoomSettles
  <2>5. ~s.err /\ ~s.closed /\ s.down = FALSE /\ s.written = d.written
    BY <1>1, <2>2, <2>4 DEF Same, SameCounts
  <2>6. ASSUME NEW n \in More \cup {0}, NEW block \in Blocks, d.srv, d' = deflate_service(s, n, block)
        PROVE  Settled(d)'
    <3>1. n \in Nat /\ n <= MaxWrite /\ (n > 0 => s.written + n <= MaxUnits)
      <4>1. CASE n = 0
        BY <1>1, <4>1
      <4>2. CASE n \in More
        BY <1>2, <2>5, <4>2
      <4> QED BY <4>1, <4>2
    <3>2. block \in Int /\ s.srv
      BY <1>1, <2>4, <2>6 DEF Blocks
    <3>3. Settled(deflate_service(s, n, block))
      BY <2>4, <2>5, <3>1, <3>2, ServiceProperty
    <3> QED BY <2>6, <3>3
  <2>7. \/ d.srv /\ \E block \in Blocks : d' = deflate_service(s, 0, block)
        \/ d.srv /\ \E n \in More \cup {0}, block \in Blocks : d' = deflate_service(s, n, block)
        \/ d' = s
    BY <1>6, <2>1 DEF Writable
  <2>8. CASE d.srv /\ \E block \in Blocks : d' = deflate_service(s, 0, block)
    BY <2>6, <2>8
  <2>9. CASE d.srv /\ \E n \in More \cup {0}, block \in Blocks : d' = deflate_service(s, n, block)
    BY <2>6, <2>9
  <2>10. CASE d' = s
    BY <2>4, <2>10
  <2> QED BY <2>7, <2>8, <2>9, <2>10
<1>7. CASE Break
  <2>1. d' = [d EXCEPT !.room = Broken]
    BY <1>7 DEF Break
  <2>2. Broken \in Broken .. MaxRoom
    BY <1>1 DEF Broken
  <2>3. Settled([d EXCEPT !.room = Broken])
    BY <2>2, RoomSettles
  <2> QED BY <2>1, <2>3
<1>8. CASE Shutdown
  <2>1. PICK t : t = [NagleStop(d) EXCEPT !.down = TRUE, !.srv = FALSE, !.upsrv = FALSE]
    OBVIOUS
  <2>2. t = [d EXCEPT !.nagle = FALSE, !.tm_ev = FALSE, !.down = TRUE, !.srv = FALSE, !.upsrv = FALSE]
    BY <2>1 DEF NagleStop
  <2>3. t \in Rec
    BY <1>1, <2>2 DEF Rec
  <2>4. /\ SameStream(d, t) /\ SameCounts(d, t) /\ t.user = d.user /\ t.unflushed = d.unflushed
        /\ t.flowc = d.flowc /\ t.abort = d.abort /\ t.closed = d.closed
        /\ t.nagle = FALSE /\ t.tm_ev = FALSE /\ t.down = TRUE
    BY <1>1, <2>2 DEF Rec, SameStream, SameCounts
  <2>5. Settled(t)
    BY <2>3, <2>4, SettledFrame
  <2> QED BY <1>8, <2>1, <2>5 DEF Shutdown
<1>9. CASE UNCHANGED d
  BY <1>9
<1> QED BY <1>3, <1>4, <1>5, <1>6, <1>7, <1>8, <1>9 DEF DeflateNext

\* The handlers of the layer find it, and leave it, as DeflateIInv says: where
\* each unit of the stream is, and who was asked to service what waits.
THEOREM DeflateInvariance == DeflateSpec => []DeflateIInv
<1>1. DeflateInit => DeflateIInv
  BY DeflateInitOK
<1>2. DeflateIInv /\ [DeflateNext]_d => DeflateIInv'
  BY DeflateStepOK
<1> QED BY <1>1, <1>2, PTL DEF DeflateSpec

\* deflate_add() and deflate_flush() always have room to compress into, and for
\* all that waits, in the layer or in front of it, someone was asked to service it.
THEOREM DeflateServiced == DeflateSpec => []DeflateInv
<1>1. DeflateIInv => DeflateInv
  <2> SUFFICES ASSUME Settled(d) PROVE DeflateInv
    BY DEF DeflateIInv
  <2>1. Sound(d, d.written) /\ d \in Rec /\ BuffersFit(d)
    BY DEF Settled, Sound
  <2>2. DeflateTypeOK
    <3>1. /\ d.fill \in 1 .. 2 /\ d.send \in 0 .. 2 /\ d.room \in Broken .. MaxRoom
          /\ d.left \in Nat /\ d.unflushed \in Nat /\ d.written \in Nat
      BY <2>1 DEF Rec
    <3>2. (d.nagle <=> d.tm_ev) /\ d.unflushed <= d.written /\ d.left <= MaxWrite
      BY <2>1 DEF Sound, Settled
    <3>3. d.left \in 0 .. MaxWrite /\ d.unflushed \in 0 .. d.written
      BY <3>1, <3>2, DeflateAssumption
    <3> QED BY <2>1, <3>1, <3>2, <3>3 DEF DeflateTypeOK, BuffersFit
  <2>3. RoomToDeflate
    BY DEF RoomToDeflate, Settled
  <2>4. FlowcServiced
    BY DEF FlowcServiced, Alive, Settled, Promises
  <2> QED BY <2>2, <2>3, <2>4 DEF DeflateInv
<1> QED BY <1>1, DeflateInvariance, PTL

\* The buffers and the compressor hold all the units accepted and not yet given to
\* the link, in order, whatever deflate_rotate_and_send() swaps and the link
\* accepts.
THEOREM StreamsExact == DeflateSpec => []StreamExact
<1>1. DeflateIInv => StreamExact
  <2> SUFFICES ASSUME Settled(d) PROVE StreamExact
    BY DEF DeflateIInv
  <2>1. PICK w \in Nat : w = d.written /\ Sound(d, w)
    BY DEF Settled, Sound
  <2>2. PICK v \in Nat : v = d.sent
    BY <2>1 DEF Sound, Rec
  <2>3. PICK a, b, c \in Nat : Layout(d, a, b, c, w)
    BY <2>1 DEF Sound
  <2>4. v <= a /\ a <= b /\ b <= c /\ c <= w
    BY <2>2, <2>3 DEF Layout
  <2>5. PICK x : x = IF d.send # 0 THEN d.buf[d.send] ELSE <<>>
    OBVIOUS
  <2>6. PICK y : y = IF d.send = d.fill THEN <<>> ELSE FillBuf(d)
    OBVIOUS
  <2>7. x = Units(v + 1, a)
    <3>1. CASE d.send # 0
      BY <2>2, <2>3, <2>5, <3>1 DEF Layout
    <3>2. CASE d.send = 0
      <4>1. x = <<>> /\ a = v
        BY <2>2, <2>3, <2>5, <3>2 DEF Layout
      <4>2. Units(v + 1, v) = <<>>
        BY UnitsShape
      <4> QED BY <4>1, <4>2
    <3> QED BY <3>1, <3>2
  <2>8. y = Units(a + 1, b)
    <3>1. CASE d.send = d.fill
      <4>1. y = <<>> /\ b = a
        BY <2>3, <2>6, <3>1 DEF Layout
      <4>2. Units(a + 1, a) = <<>>
        BY UnitsShape
      <4> QED BY <4>1, <4>2
    <3>2. CASE d.send # d.fill
      BY <2>3, <2>6, <3>2 DEF Layout, FillBuf
    <3> QED BY <3>1, <3>2
  <2>9. d.zout = Units(b + 1, c) /\ d.z = Units(c + 1, w)
    BY <2>3 DEF Layout
  <2>10. x \o y = Units(v + 1, b)
    BY <2>4, <2>7, <2>8, UnitsJoin
  <2>11. v <= b /\ v <= c
    BY <2>4
  <2>12. Units(v + 1, b) \o d.zout = Units(v + 1, c)
    <3>1. Units(v + 1, b) \o Units(b + 1, c) = Units(v + 1, c)
      BY <2>4, <2>11, UnitsJoin
    <3> QED BY <2>9, <3>1
  <2>13. Units(v + 1, c) \o d.z = Units(v + 1, w)
    <3>1. Units(v + 1, c) \o Units(c + 1, w) = Units(v + 1, w)
      BY <2>4, <2>11, UnitsJoin
    <3> QED BY <2>9, <3>1
  <2>14. x \o y \o d.zout \o d.z = Units(d.sent + 1, d.written)
    BY <2>1, <2>2, <2>10, <2>12, <2>13
  <2> QED BY <2>5, <2>6, <2>14 DEF StreamExact
<1> QED BY <1>1, DeflateInvariance, PTL

\* tx_close() calls back once all the units accepted were given to the link, the
\* gzip trailer included.
THEOREM ClosedAfterSent == DeflateSpec => []ClosedSent
<1>1. DeflateIInv => ClosedSent
  BY DEF DeflateIInv, Settled, ClosedSent
<1> QED BY <1>1, DeflateInvariance, PTL
=============================================================================
