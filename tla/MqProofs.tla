------------------------------ MODULE MqProofs ------------------------------
(***************************************************************************)
(* Proofs about the message queue of a TCP node: Mq.                       *)
(*                                                                         *)
(* The handlers are compositions of operators on the whole queue.  A lemma *)
(* per operator says what it keeps of the list (its order, its size, the   *)
(* sorted array) and of the flow control; the loops go by induction on     *)
(* their rounds.                                                           *)
(***************************************************************************)
EXTENDS Mq, CollectionLemmas

----------------------------------------------------------------------------
(* The list of messages.                                                   *)

Unread(m) == m.left = m.kind.size

\* What the list always is: unique links, at most the last one read, and from
\* the tail decreasing priorities.
Listed(s) ==
    /\ s \in Seq(Messages)
    /\ \A i, j \in 1 .. Len(s) : s[i].id = s[j].id => i = j
    /\ \A i \in 1 .. Len(s) : s[i].left <= s[i].kind.size
    /\ \A i \in 1 .. Len(s) : ~Unread(s[i]) => i = Len(s)
    /\ \A i, j \in 1 .. Len(s) : i < j /\ Unread(s[j]) => s[i].kind.prio <= s[j].kind.prio

Ids(s) == {s[i].id : i \in DOMAIN s}

\* The links of a queue are those of its list.
LEMMA QueuedIds ==
    ASSUME NEW q
    PROVE  Queued(q) = Ids(q.queue)
BY DEF Queued, Ids

\* Kinds and messages have their fields.
LEMMA MessageType ==
    ASSUME NEW m \in Messages
    PROVE  /\ m.id \in Nat \ {0} /\ m.kind \in AllKinds /\ m.left \in Nat \ {0}
           /\ m.kind \in KindType
           /\ m.kind.prio \in Nat /\ m.kind.rank \in Nat /\ m.kind.size \in Nat \ {0}
           /\ m.kind.drop \in BOOLEAN /\ m.kind.check \in BOOLEAN /\ m.kind.name \in STRING
<1>1. m.id \in Nat \ {0} /\ m.kind \in AllKinds /\ m.left \in Nat \ {0}
  BY DEF Messages
<1>2. m.kind \in KindType
  BY <1>1, MqAssumption
<1> QED BY <1>1, <1>2 DEF KindType

\* A list whose elements are some of another one's, in the same order.
LEMMA SubList ==
    ASSUME NEW s, Listed(s), NEW t \in Seq(Messages), NEW o \in [1 .. Len(t) -> 1 .. Len(s)],
           \A i, j \in 1 .. Len(t) : i < j => o[i] < o[j],
           \A i \in 1 .. Len(t) : t[i] = s[o[i]]
    PROVE  Listed(t)
<1>1. s \in Seq(Messages) /\ Len(s) \in Nat /\ Len(t) \in Nat
  BY DEF Listed
<1>2. \A i \in 1 .. Len(t) : o[i] \in 1 .. Len(s) /\ o[i] \in Nat
  BY <1>1
<1>3. ASSUME NEW i \in 1 .. Len(t), NEW j \in 1 .. Len(t), t[i].id = t[j].id PROVE i = j
  <2>1. s[o[i]].id = s[o[j]].id
    BY <1>3
  <2>2. o[i] = o[j]
    BY <1>2, <2>1 DEF Listed
  <2>3. ~(i < j) /\ ~(j < i)
    BY <1>2, <2>2
  <2> QED BY <1>1, <2>3
<1>4. ASSUME NEW i \in 1 .. Len(t), ~Unread(t[i]) PROVE i = Len(t)
  <2>1. o[i] = Len(s)
    BY <1>2, <1>4 DEF Listed
  <2>2. Len(t) \in 1 .. Len(t) /\ ~(i < Len(t))
    BY <1>1, <1>2, <2>1
  <2> QED BY <1>1, <2>2
<1>5. ASSUME NEW i \in 1 .. Len(t), NEW j \in 1 .. Len(t), i < j, Unread(t[j])
      PROVE  t[i].kind.prio <= t[j].kind.prio
  BY <1>2, <1>5 DEF Listed
<1>6. \A i \in 1 .. Len(t) : t[i].left <= t[i].kind.size
  BY <1>2 DEF Listed
<1> QED BY <1>3, <1>4, <1>5, <1>6 DEF Listed

\* A message taken out of the list.
LEMMA ListRemove ==
    ASSUME NEW s, Listed(s), NEW k \in 1 .. Len(s)
    PROVE  LET t == RemoveAt(s, k)
           IN  /\ Listed(t) /\ Len(t) = Len(s) - 1
               /\ Range(t) = Range(s) \ {s[k]} /\ s[k] \in Range(s)
               /\ Ids(t) = Ids(s) \ {s[k].id}
               /\ \A i \in 1 .. Len(t) : t[i] = IF i < k THEN s[i] ELSE s[i + 1]
<1> DEFINE t == RemoveAt(s, k)
           o == [i \in 1 .. Len(s) - 1 |-> IF i < k THEN i ELSE i + 1]
<1>1. s \in Seq(Messages) /\ Len(s) \in Nat /\ DOMAIN s = 1 .. Len(s) /\ k \in 1 .. Len(s)
  BY DEF Listed
<1>2. /\ t \in Seq(Messages) /\ Len(t) = Len(s) - 1 /\ DOMAIN t = 1 .. Len(s) - 1
      /\ \A i \in 1 .. Len(s) - 1 : t[i] = IF i < k THEN s[i] ELSE s[i + 1]
  BY <1>1, RemoveAtProperty
<1> HIDE DEF t
<1>3. /\ o \in [1 .. Len(t) -> 1 .. Len(s)]
      /\ \A i, j \in 1 .. Len(t) : i < j => o[i] < o[j]
      /\ \A i \in 1 .. Len(t) : t[i] = s[o[i]] /\ o[i] # k
      /\ \A j \in 1 .. Len(s) : j # k => \E i \in 1 .. Len(t) : o[i] = j
  <2>1. o \in [1 .. Len(t) -> 1 .. Len(s)]
    BY <1>1, <1>2
  <2>2. \A i, j \in 1 .. Len(t) : i < j => o[i] < o[j]
    BY <1>1, <1>2
  <2>3. \A i \in 1 .. Len(t) : t[i] = s[o[i]] /\ o[i] # k
    BY <1>1, <1>2
  <2>4. ASSUME NEW j \in 1 .. Len(s), j # k PROVE \E i \in 1 .. Len(t) : o[i] = j
    <3>1. CASE j < k
      BY <1>1, <1>2, <3>1
    <3>2. CASE j > k
      <4>1. j - 1 \in 1 .. Len(t) /\ o[j - 1] = j
        BY <1>1, <1>2, <3>2
      <4> QED BY <4>1
    <3>3. j < k \/ j > k
      BY <1>1, <2>4
    <3> QED BY <3>1, <3>2, <3>3
  <2> QED BY <2>1, <2>2, <2>3, <2>4
<1> HIDE DEF o
<1>4. Listed(t)
  <2>1. t \in Seq(Messages) /\ o \in [1 .. Len(t) -> 1 .. Len(s)]
    BY <1>2, <1>3
  <2>2. \A i, j \in 1 .. Len(t) : i < j => o[i] < o[j]
    BY <1>3
  <2>3. \A i \in 1 .. Len(t) : t[i] = s[o[i]]
    BY <1>3
  <2> HIDE <1>2, <1>3
  <2> QED BY <2>1, <2>2, <2>3, SubList
<1>5. \A j \in 1 .. Len(s) : j # k => s[j].id # s[k].id /\ s[j] # s[k]
  BY <1>1 DEF Listed
<1>6. Range(t) = Range(s) \ {s[k]} /\ s[k] \in Range(s)
  <2>1. ASSUME NEW x \in Range(t) PROVE x \in Range(s) \ {s[k]}
    <3>1. PICK i \in 1 .. Len(t) : x = t[i]
      BY <1>2 DEF Range
    <3>2. x = s[o[i]] /\ o[i] \in 1 .. Len(s) /\ o[i] # k
      BY <1>3, <3>1
    <3> QED BY <1>1, <1>5, <3>2 DEF Range
  <2>2. ASSUME NEW x \in Range(s) \ {s[k]} PROVE x \in Range(t)
    <3>1. PICK j \in 1 .. Len(s) : x = s[j]
      BY <1>1 DEF Range
    <3>2. PICK i \in 1 .. Len(t) : o[i] = j
      BY <1>3, <2>2, <3>1
    <3>3. x = t[i] /\ i \in DOMAIN t
      BY <1>2, <1>3, <3>1, <3>2
    <3> QED BY <3>3 DEF Range
  <2>3. s[k] \in Range(s)
    BY <1>1 DEF Range
  <2> QED BY <2>1, <2>2, <2>3
<1>7. Ids(t) = Ids(s) \ {s[k].id}
  <2>1. ASSUME NEW x \in Ids(t) PROVE x \in Ids(s) \ {s[k].id}
    <3>1. PICK i \in 1 .. Len(t) : x = t[i].id
      BY <1>2 DEF Ids
    <3>2. x = s[o[i]].id /\ o[i] \in 1 .. Len(s) /\ o[i] # k
      BY <1>3, <3>1
    <3> QED BY <1>1, <1>5, <3>2 DEF Ids
  <2>2. ASSUME NEW x \in Ids(s) \ {s[k].id} PROVE x \in Ids(t)
    <3>1. PICK j \in 1 .. Len(s) : x = s[j].id
      BY <1>1 DEF Ids
    <3>2. PICK i \in 1 .. Len(t) : o[i] = j
      BY <1>3, <2>2, <3>1
    <3>3. x = t[i].id /\ i \in DOMAIN t
      BY <1>2, <1>3, <3>1, <3>2
    <3> QED BY <3>3 DEF Ids
  <2> QED BY <2>1, <2>2
<1> QED BY <1>2, <1>4, <1>6, <1>7 DEF t

\* Where mq_puthere() puts a message: after those of lower priority, before the
\* others and before one that is partially written.
PlaceOK(s, m, k) ==
    /\ k \in 1 .. Len(s) + 1
    /\ \A i \in 1 .. k - 1 : s[i].kind.prio < m.kind.prio
    /\ \A j \in k .. Len(s) : Unread(s[j]) => s[j].kind.prio >= m.kind.prio
    /\ \A j \in 1 .. Len(s) : ~Unread(s[j]) => k <= j

\* mqueue_insert() finds the place of a message after those it must follow.
LEMMA PlaceProperty ==
    ASSUME NEW q, Listed(q.queue), NEW m \in Messages
    PROVE  PlaceOK(q.queue, m, PlaceOf(q, m))
<1> DEFINE s == q.queue
           lower == {i \in DOMAIN s : Unread(s[i]) /\ s[i].kind.prio < m.kind.prio}
           k == PlaceOf(q, m)
<1>1. s \in Seq(Messages) /\ Len(s) \in Nat /\ DOMAIN s = 1 .. Len(s)
  BY DEF Listed
<1>2. \A i \in 1 .. Len(s) : s[i] \in Messages /\ s[i].kind.prio \in Nat
  BY <1>1, MessageType
<1>3. m.kind.prio \in Nat
  BY MessageType
<1>4. k = IF m.kind.prio = 0 \/ lower = {} THEN 1 ELSE Max(lower) + 1
  BY DEF PlaceOf, pmsg_is_unread, Unread
<1> HIDE DEF k
<1>5. CASE m.kind.prio = 0 \/ lower = {}
  <2>1. k = 1
    BY <1>4, <1>5
  <2>2. ASSUME NEW j \in 1 .. Len(s), Unread(s[j]) PROVE s[j].kind.prio >= m.kind.prio
    <3>1. CASE m.kind.prio = 0
      BY <1>2, <3>1
    <3>2. CASE lower = {}
      BY <1>1, <1>2, <1>3, <2>2, <3>2
    <3> QED BY <1>5, <3>1, <3>2
  <2> HIDE DEF lower
  <2> QED BY <1>1, <2>1, <2>2 DEF PlaceOK, k
<1>6. CASE m.kind.prio # 0 /\ lower # {}
  <2>1. lower \subseteq 0 .. Len(s)
    BY <1>1
  <2> HIDE DEF lower
  <2>2. PICK x : x = Max(lower)
    OBVIOUS
  <2>3. x \in lower /\ \A i \in lower : i <= x
    BY <1>1, <1>6, <2>1, <2>2, MaxProperty
  <2>4. k = x + 1
    BY <1>4, <1>6, <2>2
  <2> USE DEF lower
  <2>5. x \in 1 .. Len(s) /\ Unread(s[x]) /\ s[x].kind.prio < m.kind.prio
    BY <1>1, <2>3
  <2>6. k \in 1 .. Len(s) + 1
    BY <1>1, <2>4, <2>5
  <2>7. ASSUME NEW i \in 1 .. k - 1 PROVE s[i].kind.prio < m.kind.prio
    <3>1. i \in 1 .. Len(s) /\ (i = x \/ i < x)
      BY <1>1, <2>4, <2>5
    <3>2. i < x => s[i].kind.prio <= s[x].kind.prio
      BY <2>5, <3>1 DEF Listed
    <3> QED BY <1>2, <1>3, <2>5, <3>1, <3>2
  <2>8. ASSUME NEW j \in k .. Len(s), Unread(s[j]) PROVE s[j].kind.prio >= m.kind.prio
    <3>1. j \in 1 .. Len(s) /\ ~(j <= x)
      BY <1>1, <2>4, <2>5
    <3>2. j \notin lower
      <4> HIDE DEF lower
      <4> QED BY <2>3, <3>1
    <3> QED BY <1>1, <1>2, <1>3, <2>8, <3>1, <3>2
  <2>9. ASSUME NEW j \in 1 .. Len(s), ~Unread(s[j]) PROVE k <= j
    <3>1. j = Len(s) /\ j # x
      BY <2>5, <2>9 DEF Listed
    <3> QED BY <1>1, <2>4, <2>5, <3>1
  <2> QED BY <2>6, <2>7, <2>8, <2>9 DEF PlaceOK, k
<1> QED BY <1>5, <1>6

\* A list with one more message.
LEMMA InsertMessage ==
    ASSUME NEW s \in Seq(Messages), NEW m \in Messages, NEW k \in 1 .. Len(s) + 1
    PROVE  LET t == InsertAt(s, k, m)
           IN  /\ t \in Seq(Messages) /\ Len(t) = Len(s) + 1 /\ t[k] = m
               /\ \A i \in 1 .. k - 1 : t[i] = s[i]
               /\ \A i \in k + 1 .. Len(s) + 1 : t[i] = s[i - 1]
BY InsertAtProperty

\* A message put in the list.
LEMMA ListInsert ==
    ASSUME NEW s, Listed(s), NEW m \in Messages, NEW k \in 1 .. Len(s) + 1, PlaceOK(s, m, k),
           m.id \notin Ids(s), m.left <= m.kind.size, Unread(m) \/ s = <<>>
    PROVE  LET t == InsertAt(s, k, m)
           IN  /\ Listed(t) /\ Len(t) = Len(s) + 1
               /\ Range(t) = Range(s) \cup {m} /\ m \notin Range(s)
               /\ Ids(t) = Ids(s) \cup {m.id}
               /\ t[k] = m /\ k \in 1 .. Len(t)
               /\ \A i \in 1 .. k - 1 : t[i] = s[i]
               /\ \A i \in k + 1 .. Len(t) : t[i] = s[i - 1]
<1> DEFINE t == InsertAt(s, k, m)
<1>1. s \in Seq(Messages) /\ Len(s) \in Nat /\ DOMAIN s = 1 .. Len(s) /\ k \in 1 .. Len(s) + 1
  BY DEF Listed
<1>2. /\ t \in Seq(Messages) /\ Len(t) = Len(s) + 1 /\ t[k] = m
      /\ \A i \in 1 .. k - 1 : t[i] = s[i]
      /\ \A i \in k + 1 .. Len(s) + 1 : t[i] = s[i - 1]
  BY <1>1, InsertMessage
<1>3. DOMAIN t = 1 .. Len(s) + 1
  BY <1>2
<1> HIDE DEF t
<1>4. \A i \in 1 .. Len(s) : s[i] \in Messages /\ s[i].kind.prio \in Nat /\ s[i].id # m.id /\ s[i] # m
  <2>1. \A i \in 1 .. Len(s) : s[i] \in Messages
    BY <1>1
  <2>2. \A i \in 1 .. Len(s) : s[i].kind.prio \in Nat
    BY <2>1, MessageType
  <2>3. \A i \in 1 .. Len(s) : s[i].id # m.id
    BY <1>1 DEF Ids
  <2> QED BY <2>1, <2>2, <2>3
<1>5. m.kind.prio \in Nat
  BY MessageType
\* Each element of t is m or one of s.
<1>6. \A i \in 1 .. Len(s) + 1 : \/ i < k /\ i \in 1 .. k - 1 /\ i \in 1 .. Len(s) /\ t[i] = s[i]
                                 \/ i = k /\ t[i] = m
                                 \/ i > k /\ i \in k + 1 .. Len(s) + 1 /\ i - 1 \in 1 .. Len(s) /\ t[i] = s[i - 1]
  BY <1>1, <1>2
<1>7. ASSUME NEW i \in 1 .. Len(s) + 1, NEW j \in 1 .. Len(s) + 1, t[i].id = t[j].id PROVE i = j
  <2>1. \A a, b \in 1 .. Len(s) : s[a].id = s[b].id => a = b
    BY DEF Listed
  <2>2. CASE i = k
    <3>1. CASE j = k
      BY <2>2, <3>1
    <3>2. CASE j # k
      BY <1>1, <1>2, <1>4, <1>6, <1>7, <2>2, <3>2
    <3> QED BY <3>1, <3>2
  <2>3. CASE j = k
    <3>1. CASE i # k
      BY <1>1, <1>2, <1>4, <1>6, <1>7, <2>3, <3>1
    <3> QED BY <2>3, <3>1
  <2>4. CASE i < k /\ j < k
    BY <1>1, <1>6, <1>7, <2>1, <2>4
  <2>5. CASE i > k /\ j > k
    <3>1. i - 1 = j - 1
      BY <1>1, <1>6, <1>7, <2>1, <2>5
    <3> QED BY <1>1, <3>1
  <2>6. CASE i < k /\ j > k
    <3>1. i = j - 1
      BY <1>1, <1>6, <1>7, <2>1, <2>6
    <3> QED BY <1>1, <2>6, <3>1
  <2>7. CASE i > k /\ j < k
    <3>1. i - 1 = j
      BY <1>1, <1>6, <1>7, <2>1, <2>7
    <3> QED BY <1>1, <2>7, <3>1
  <2> QED BY <1>6, <2>2, <2>3, <2>4, <2>5, <2>6, <2>7
<1>8. \A i \in 1 .. Len(s) + 1 : t[i].left <= t[i].kind.size
  BY <1>6 DEF Listed
<1>9. ASSUME NEW i \in 1 .. Len(s) + 1, ~Unread(t[i]) PROVE i = Len(s) + 1
  <2>1. CASE i = k
    <3>1. s = <<>>
      BY <1>2, <1>9, <2>1
    <3>2. Len(s) = 0
      BY <3>1
    <3> QED BY <1>1, <2>1, <3>2
  <2>2. CASE i < k
    <3>1. i \in 1 .. Len(s) /\ ~Unread(s[i])
      BY <1>6, <1>9, <2>2
    <3>2. k <= i
      BY <3>1 DEF PlaceOK
    <3> QED BY <1>1, <2>2, <3>2
  <2>3. CASE i > k
    <3>1. i - 1 \in 1 .. Len(s) /\ ~Unread(s[i - 1])
      BY <1>1, <1>6, <1>9, <2>3
    <3>2. i - 1 = Len(s)
      BY <3>1 DEF Listed
    <3> QED BY <1>1, <3>2
  <2> QED BY <1>6, <2>1, <2>2, <2>3
<1>10. ASSUME NEW i \in 1 .. Len(s) + 1, NEW j \in 1 .. Len(s) + 1, i < j, Unread(t[j])
       PROVE  t[i].kind.prio <= t[j].kind.prio
  <2>1. \A a, b \in 1 .. Len(s) : a < b /\ Unread(s[b]) => s[a].kind.prio <= s[b].kind.prio
    BY DEF Listed
  <2>2. CASE j = k
    <3>1. i \in 1 .. k - 1 /\ i \in 1 .. Len(s) /\ t[i] = s[i] /\ t[j] = m
      BY <1>1, <1>6, <1>10, <2>2
    <3>2. s[i].kind.prio < m.kind.prio
      BY <3>1 DEF PlaceOK
    <3> QED BY <1>4, <1>5, <3>1, <3>2
  <2>3. CASE i = k
    <3>1. j - 1 \in k .. Len(s) /\ t[j] = s[j - 1] /\ t[i] = m /\ j - 1 \in 1 .. Len(s)
      BY <1>1, <1>6, <1>10, <2>3
    <3>2. s[j - 1].kind.prio >= m.kind.prio
      BY <1>10, <3>1 DEF PlaceOK
    <3> QED BY <1>4, <1>5, <3>1, <3>2
  <2>4. CASE i < k /\ j < k
    BY <1>1, <1>6, <1>10, <2>1, <2>4
  <2>5. CASE i > k /\ j > k
    <3>1. i - 1 \in 1 .. Len(s) /\ j - 1 \in 1 .. Len(s) /\ t[i] = s[i - 1] /\ t[j] = s[j - 1] /\ i - 1 < j - 1
      BY <1>1, <1>6, <1>10, <2>5
    <3> QED BY <1>10, <2>1, <3>1
  <2>6. CASE i < k /\ j > k
    <3>1. i \in 1 .. Len(s) /\ j - 1 \in 1 .. Len(s) /\ t[i] = s[i] /\ t[j] = s[j - 1] /\ i < j - 1
      BY <1>1, <1>6, <1>10, <2>6
    <3> QED BY <1>10, <2>1, <3>1
  <2>7. ~(i > k /\ j < k)
    BY <1>1, <1>10
  <2> QED BY <1>6, <2>2, <2>3, <2>4, <2>5, <2>6, <2>7
<1>11. Listed(t)
  BY <1>2, <1>7, <1>8, <1>9, <1>10 DEF Listed
<1>12. Range(t) = Range(s) \cup {m} /\ m \notin Range(s) /\ Ids(t) = Ids(s) \cup {m.id}
  <2>1. \A i \in 1 .. Len(s) + 1 : t[i] \in Range(s) \cup {m} /\ t[i].id \in Ids(s) \cup {m.id}
    BY <1>1, <1>6 DEF Range, Ids
  <2>2. ASSUME NEW j \in 1 .. Len(s) PROVE \E i \in 1 .. Len(s) + 1 : t[i] = s[j]
    <3>1. CASE j < k
      BY <1>1, <1>2, <3>1
    <3>2. CASE j >= k
      <4>1. j + 1 \in k + 1 .. Len(s) + 1 /\ (j + 1) - 1 = j /\ j + 1 \in 1 .. Len(s) + 1
        BY <1>1, <3>2
      <4>2. t[j + 1] = s[j]
        BY <1>2, <4>1
      <4> QED BY <4>1, <4>2
    <3> QED BY <1>1, <3>1, <3>2
  <2>3. k \in DOMAIN t /\ t[k] = m
    BY <1>1, <1>2, <1>3
  <2>4. m \notin Range(s)
    BY <1>1, <1>4 DEF Range
  <2>5. Range(t) = Range(s) \cup {m}
    <3>1. ASSUME NEW x \in Range(s) PROVE x \in Range(t)
      BY <1>1, <1>3, <2>2 DEF Range
    <3> QED BY <1>3, <2>1, <2>3, <3>1 DEF Range
  <2>6. Ids(t) = Ids(s) \cup {m.id}
    <3>1. ASSUME NEW x \in Ids(s) PROVE x \in Ids(t)
      <4>1. PICK j \in 1 .. Len(s) : x = s[j].id
        BY <1>1 DEF Ids
      <4>2. PICK i \in 1 .. Len(s) + 1 : t[i] = s[j]
        BY <2>2
      <4> QED BY <1>3, <4>1, <4>2 DEF Ids
    <3> QED BY <1>3, <2>1, <2>3, <3>1 DEF Ids
  <2> QED BY <2>4, <2>5, <2>6
<1>13. k \in 1 .. Len(t)
  BY <1>1, <1>2
<1> QED BY <1>2, <1>11, <1>12, <1>13 DEF t

\* The bytes of a list, which is finite.
Bytes(s) == BytesLeft(Range(s))

\* The bytes left in a set of messages.
LEMMA BytesOf ==
    ASSUME NEW S \in SUBSET Messages, IsFiniteSet(S)
    PROVE  /\ BytesLeft(S) \in Nat /\ (S = {} => BytesLeft(S) = 0)
           /\ \A x \in S : BytesLeft(S) = x.left + BytesLeft(S \ {x}) /\ BytesLeft(S \ {x}) \in Nat
<1> DEFINE f == [m \in Messages |-> m.left]
<1>1. f \in [Messages -> Nat] /\ \A m \in Messages : f[m] = m.left
  BY MessageType
<1>2. \A T \in SUBSET S : IsFiniteSet(T) /\ T \in SUBSET Messages
  BY FS_Subset
<1>3. \A T : BytesLeft(T) = SumFunctionOnSet(f, T)
  BY DEF BytesLeft
<1> HIDE DEF f
<1>4. ASSUME NEW T \in SUBSET S
      PROVE  BytesLeft(T) \in Nat /\ (T = {} => BytesLeft(T) = 0)
  BY <1>1, <1>2, <1>3, SumUnfold
<1>5. ASSUME NEW x \in S PROVE BytesLeft(S) = x.left + BytesLeft(S \ {x})
  <2>1. SumFunctionOnSet(f, S) = f[x] + SumFunctionOnSet(f, S \ {x})
    BY <1>1, SumRemove
  <2> QED BY <1>1, <1>3, <2>1
<1>6. \A x \in S : BytesLeft(S \ {x}) \in Nat
  BY <1>4
<1> QED BY <1>4, <1>5, <1>6

\* The bytes of a list are a number, and none when it is empty.
LEMMA BytesNat ==
    ASSUME NEW s, Listed(s)
    PROVE  /\ Range(s) \in SUBSET Messages /\ IsFiniteSet(Range(s))
           /\ Bytes(s) \in Nat /\ (s = <<>> => Bytes(s) = 0)
<1>1. s \in Seq(Messages)
  BY DEF Listed
<1>2. Range(s) \in SUBSET Messages /\ IsFiniteSet(Range(s))
  BY <1>1, RangeFinite
<1>3. s = <<>> => Range(s) = {}
  BY DEF Range
<1> QED BY <1>2, <1>3, BytesOf DEF Bytes

\* The bytes of a list from which a message is taken out, or where one is put.
LEMMA BytesRemove ==
    ASSUME NEW s, Listed(s), NEW x \in Range(s), NEW t, Range(t) = Range(s) \ {x}
    PROVE  Bytes(t) = Bytes(s) - x.left /\ Bytes(t) \in Nat /\ x.left <= Bytes(s)
<1>1. Range(s) \in SUBSET Messages /\ IsFiniteSet(Range(s)) /\ Bytes(s) \in Nat
  BY BytesNat
<1>2. Bytes(s) = x.left + Bytes(t) /\ Bytes(t) \in Nat
  BY <1>1, BytesOf DEF Bytes
<1>3. x.left \in Nat
  BY <1>1, MessageType
<1> QED BY <1>1, <1>2, <1>3

\* The bytes of a list with one more message.
LEMMA BytesInsert ==
    ASSUME NEW s, Listed(s), NEW x \in Messages, x \notin Range(s), NEW t, Listed(t), Range(t) = Range(s) \cup {x}
    PROVE  Bytes(t) = Bytes(s) + x.left
<1>1. Range(t) \in SUBSET Messages /\ IsFiniteSet(Range(t)) /\ Bytes(t) \in Nat /\ Bytes(s) \in Nat
  BY BytesNat
<1>2. x \in Range(t) /\ Range(t) \ {x} = Range(s)
  OBVIOUS
<1>3. Bytes(t) = x.left + Bytes(s)
  BY <1>1, <1>2, BytesOf DEF Bytes
<1>4. x.left \in Nat
  BY MessageType
<1> QED BY <1>1, <1>3, <1>4

\* A new message has a link of its own.
LEMMA NewMessage ==
    ASSUME NEW q, Listed(q.queue), NEW k \in AllKinds
    PROVE  LET m == Message(q, k)
           IN  /\ m \in Messages /\ m.id \notin Ids(q.queue) /\ Unread(m)
               /\ m.kind = k /\ m.left = k.size /\ k.size \in Nat \ {0}
<1> DEFINE s == q.queue
           N == 1 .. Len(s) + 1
           free == N \ Ids(s)
           x == Min(free)
<1>1. s \in Seq(Messages) /\ Len(s) \in Nat /\ DOMAIN s = 1 .. Len(s)
  BY DEF Listed
<1>2. k \in KindType
  BY MqAssumption
<1>3. k.size \in Nat \ {0}
  BY <1>2 DEF KindType
<1>4. free # {}
  <2>1. SUFFICES ASSUME free = {} PROVE FALSE
    OBVIOUS
  <2> DEFINE f == [y \in N |-> CHOOSE i \in 1 .. Len(s) : s[i].id = y]
  <2>2. ASSUME NEW y \in N PROVE \E i \in 1 .. Len(s) : s[i].id = y
    <3>1. y \in Ids(s)
      BY <2>1
    <3> QED BY <1>1, <3>1 DEF Ids
  <2>3. \A y \in N : f[y] \in 1 .. Len(s) /\ s[f[y]].id = y
    BY <2>2
  <2>4. f \in [N -> 1 .. Len(s)]
    BY <2>3
  <2> HIDE DEF f
  <2>5. /\ IsFiniteSet(N) /\ Cardinality(N) = Len(s) + 1
        /\ IsFiniteSet(1 .. Len(s)) /\ Cardinality(1 .. Len(s)) = Len(s)
    <3>1. Len(s) \in Int /\ 1 \in Int /\ Len(s) + 1 \in Int /\ ~(1 > Len(s) + 1) /\ (1 > Len(s) => Len(s) = 0)
      BY <1>1
    <3> QED BY <1>1, <3>1, FS_Interval, SMTT(60)
  <2>6. Cardinality(1 .. Len(s)) < Cardinality(N)
    BY <1>1, <2>5
  <2> HIDE DEF N
  <2>7. PICK y, z \in N : y # z /\ f[y] = f[z]
    BY <2>4, <2>5, <2>6, FS_PigeonHole
  <2> QED BY <2>3, <2>7
<1>5. free \subseteq Nat
  BY <1>1
<1> HIDE DEF free
<1>6. x \in free
  BY <1>4, <1>5, MinProperty
<1>7. x \in Nat \ {0} /\ x \notin Ids(s)
  BY <1>1, <1>6 DEF free
<1>8. Message(q, k) = [id |-> x, kind |-> k, left |-> k.size]
  BY QueuedIds DEF Message, free
<1> HIDE DEF x
<1> QED BY <1>3, <1>7, <1>8 DEF Messages, Unread

----------------------------------------------------------------------------
(* What the peer is told: the first Hops-Flow message of the list, or what *)
(* it has got.                                                             *)

IsHops(m) == m.kind \in HopsFlows
Says(s, told) ==
    LET hf == {i \in DOMAIN s : s[i].kind \in HopsFlows}
    IN  IF hf = {} THEN told ELSE s[Min(hf)].kind.name

\* What the peer will be told last, in terms of the list.
LEMMA SaysLast ==
    ASSUME NEW q
    PROVE  LastHopsFlow(q) = Says(q.queue, q.told)
BY DEF LastHopsFlow, Says

\* No Hops-Flow message before the i-th, and the list says what that one does.
FirstHops(s, i) ==
    /\ i \in 1 .. Len(s) /\ IsHops(s[i])
    /\ \A j \in 1 .. Len(s) : IsHops(s[j]) => i <= j

\* Without a Hops-Flow message in the list the peer knows what it was told.
LEMMA SaysNone ==
    ASSUME NEW s \in Seq(Messages), NEW told, \A i \in 1 .. Len(s) : ~IsHops(s[i])
    PROVE  Says(s, told) = told
BY DEF Says, IsHops

\* A list has no Hops-Flow message, or a first one.
LEMMA HopsCases ==
    ASSUME NEW s \in Seq(Messages)
    PROVE  \/ \A i \in 1 .. Len(s) : ~IsHops(s[i])
           \/ \E i \in 1 .. Len(s) : FirstHops(s, i)
<1> DEFINE hf == {i \in 1 .. Len(s) : IsHops(s[i])}
<1>1. CASE hf = {}
  BY <1>1
<1>2. CASE hf # {}
  <2>1. hf \subseteq Nat
    OBVIOUS
  <2> HIDE DEF hf
  <2>2. Min(hf) \in hf /\ \A x \in hf : Min(hf) <= x
    BY <1>2, <2>1, MinProperty
  <2>3. PICK x : x = Min(hf)
    OBVIOUS
  <2>4. x \in hf /\ \A y \in hf : x <= y
    BY <2>2, <2>3
  <2>5. FirstHops(s, x) /\ x \in 1 .. Len(s)
    BY <2>4 DEF hf, FirstHops
  <2> QED BY <2>5
<1> QED BY <1>1, <1>2

\* The first Hops-Flow message of the list is the last one sent.
LEMMA SaysFirst ==
    ASSUME NEW s \in Seq(Messages), NEW told, NEW i \in 1 .. Len(s), FirstHops(s, i)
    PROVE  Says(s, told) = s[i].kind.name
<1> DEFINE hf == {j \in DOMAIN s : s[j].kind \in HopsFlows}
<1>1. hf \subseteq Nat /\ i \in hf /\ \A j \in hf : i <= j
  BY DEF FirstHops, IsHops
<1>2. Says(s, told) = IF hf = {} THEN told ELSE s[Min(hf)].kind.name
  BY DEF Says
<1> HIDE DEF hf
<1>3. PICK x : x = Min(hf)
  OBVIOUS
<1>4. x \in hf /\ x <= i
  BY <1>1, <1>3, MinProperty
<1>5. x \in Nat /\ i <= x
  BY <1>1, <1>4
<1>6. x = i
  BY <1>4, <1>5
<1> QED BY <1>1, <1>2, <1>3, <1>6

\* A message of another kind does not matter.
LEMMA SaysSkip ==
    ASSUME NEW s \in Seq(Messages), NEW t \in Seq(Messages), NEW told, NEW k \in 1 .. Len(s),
           Len(t) = Len(s) - 1, ~IsHops(s[k]),
           \A i \in 1 .. k - 1 : t[i] = s[i],
           \A i \in k + 1 .. Len(s) : t[i - 1] = s[i]
    PROVE  Says(s, told) = Says(t, told)
<1>1. Len(s) \in Nat /\ Len(t) \in Nat /\ k \in Nat
  OBVIOUS
<1>2. CASE \A i \in 1 .. Len(t) : ~IsHops(t[i])
  <2>1. ASSUME NEW i \in 1 .. Len(s) PROVE ~IsHops(s[i])
    <3>1. CASE i < k
      <4>1. i \in 1 .. k - 1 /\ i \in 1 .. Len(t)
        BY <1>1, <3>1
      <4> QED BY <1>2, <4>1
    <3>2. CASE i > k
      <4>1. i \in k + 1 .. Len(s) /\ i - 1 \in 1 .. Len(t)
        BY <1>1, <3>2
      <4> QED BY <1>2, <4>1
    <3> QED BY <1>1, <3>1, <3>2
  <2>2. Says(t, told) = told
    BY <1>2, SaysNone
  <2>3. Says(s, told) = told
    BY <2>1, SaysNone
  <2> QED BY <2>2, <2>3
<1>3. CASE \E i \in 1 .. Len(t) : FirstHops(t, i)
  <2>1. PICK i \in 1 .. Len(t) : FirstHops(t, i)
    BY <1>3
  <2> DEFINE o == IF i < k THEN i ELSE i + 1
  <2>2. o \in 1 .. Len(s) /\ s[o] = t[i]
    <3>1. CASE i < k
      BY <1>1, <3>1
    <3>2. CASE i >= k
      <4>1. i + 1 \in k + 1 .. Len(s) /\ (i + 1) - 1 = i
        BY <1>1, <3>2
      <4>2. t[(i + 1) - 1] = s[i + 1]
        BY <4>1
      <4> QED BY <1>1, <3>2, <4>1, <4>2
    <3> QED BY <1>1, <3>1, <3>2
  <2>3. ASSUME NEW j \in 1 .. Len(s), IsHops(s[j]) PROVE o <= j
    <3>1. j < k \/ j > k
      BY <1>1, <2>3
    <3>2. CASE j < k
      <4>1. j \in 1 .. k - 1 /\ j \in 1 .. Len(t)
        BY <1>1, <3>2
      <4>2. i <= j
        BY <2>1, <2>3, <4>1 DEF FirstHops
      <4> QED BY <1>1, <3>2, <4>2
    <3>3. CASE j > k
      <4>1. j \in k + 1 .. Len(s) /\ j - 1 \in 1 .. Len(t)
        BY <1>1, <3>3
      <4>2. i <= j - 1
        BY <2>1, <2>3, <4>1 DEF FirstHops
      <4> QED BY <1>1, <3>3, <4>2
    <3> QED BY <3>1, <3>2, <3>3
  <2> HIDE DEF o
  <2>4. FirstHops(s, o)
    BY <2>1, <2>2, <2>3 DEF FirstHops
  <2>5. Says(t, told) = t[i].kind.name
    BY <2>1, SaysFirst
  <2>6. Says(s, told) = s[o].kind.name
    BY <2>2, <2>4, SaysFirst
  <2> QED BY <2>2, <2>5, <2>6
<1> QED BY <1>2, <1>3, HopsCases

\* Nor does what is left of a message.
LEMMA SaysKinds ==
    ASSUME NEW s \in Seq(Messages), NEW t \in Seq(Messages), NEW told,
           Len(t) = Len(s), \A i \in 1 .. Len(s) : t[i].kind = s[i].kind
    PROVE  Says(s, told) = Says(t, told)
<1>1. \A i \in 1 .. Len(s) : IsHops(s[i]) <=> IsHops(t[i])
  BY DEF IsHops
<1>2. CASE \A i \in 1 .. Len(s) : ~IsHops(s[i])
  BY <1>1, <1>2, SaysNone
<1>3. CASE \E i \in 1 .. Len(s) : FirstHops(s, i)
  <2>1. PICK i \in 1 .. Len(s) : FirstHops(s, i)
    BY <1>3
  <2>2. FirstHops(t, i)
    BY <1>1, <2>1 DEF FirstHops
  <2>3. i \in 1 .. Len(t)
    OBVIOUS
  <2>4. Says(s, told) = s[i].kind.name
    BY <2>1, SaysFirst
  <2>5. Says(t, told) = t[i].kind.name
    BY <2>2, <2>3, SaysFirst
  <2> QED BY <2>4, <2>5
<1> QED BY <1>2, <1>3, HopsCases

\* When the last message of the list is delivered, the peer has got it.
LEMMA SaysDelivered ==
    ASSUME NEW s \in Seq(Messages), NEW t \in Seq(Messages), NEW told, s # <<>>,
           Len(t) = Len(s) - 1, \A i \in 1 .. Len(t) : t[i] = s[i], IsHops(s[Len(s)])
    PROVE  Says(t, s[Len(s)].kind.name) = Says(s, told)
<1>1. Len(s) \in Nat /\ Len(t) \in Nat /\ Len(s) \in 1 .. Len(s)
  OBVIOUS
<1>2. \A i \in 1 .. Len(s) : i = Len(s) \/ i \in 1 .. Len(t)
  BY <1>1
<1>3. CASE \A i \in 1 .. Len(t) : ~IsHops(t[i])
  <2>1. FirstHops(s, Len(s))
    BY <1>1, <1>2, <1>3 DEF FirstHops
  <2>2. Says(s, told) = s[Len(s)].kind.name
    BY <1>1, <2>1, SaysFirst
  <2> QED BY <1>3, <2>2, SaysNone
<1>4. CASE \E i \in 1 .. Len(t) : FirstHops(t, i)
  <2>1. PICK i \in 1 .. Len(t) : FirstHops(t, i)
    BY <1>4
  <2>2. i \in 1 .. Len(s) /\ i <= Len(s)
    BY <1>1
  <2>3. FirstHops(s, i)
    BY <1>2, <2>1, <2>2 DEF FirstHops
  <2>4. Says(s, told) = s[i].kind.name
    BY <2>2, <2>3, SaysFirst
  <2>5. Says(t, s[Len(s)].kind.name) = t[i].kind.name
    BY <2>1, SaysFirst
  <2> QED BY <2>4, <2>5
<1> QED BY <1>3, <1>4, HopsCases

\* Both Hops-Flow messages have the same priority and importance.
LEMMA HopsKinds ==
    /\ HopsFlows \subseteq AllKinds
    /\ \A h, k \in HopsFlows : h.prio = k.prio /\ h.rank = k.rank
    /\ \A h \in HopsFlows : h.prio \in Nat \ {0} /\ h.rank \in Nat /\ ~h.check
    /\ \A h \in HopsFlows, k \in AllKinds : k.prio >= h.prio => k.rank <= h.rank
<1>1. HopsFlow0 \in KindType /\ HopsFlow255 \in KindType
  BY MqAssumption DEF AllKinds
<1>2. /\ HopsFlow0.prio \in Nat /\ HopsFlow0.rank \in Nat
      /\ HopsFlow255.prio \in Nat /\ HopsFlow255.rank \in Nat
  BY <1>1 DEF KindType
<1>3. HopsFlows \subseteq AllKinds
  BY DEF HopsFlows, AllKinds
<1>4. HopsFlow0.prio > 0 /\ HopsFlow255.prio = HopsFlow0.prio
  BY MqAssumption
<1>5. \A h \in HopsFlows, k \in AllKinds : k.prio >= h.prio => k.rank <= h.rank
  BY MqAssumption
<1>6. HopsFlow0.rank <= HopsFlow255.rank /\ HopsFlow255.rank <= HopsFlow0.rank
  <2>1. HopsFlow0 \in HopsFlows /\ HopsFlow255 \in HopsFlows
    BY DEF HopsFlows
  <2> QED BY <1>2, <1>3, <1>4, <1>5, <2>1
<1>7. HopsFlow0.rank = HopsFlow255.rank
  BY <1>2, <1>6
<1>8. \A h, k \in HopsFlows : h.prio = k.prio /\ h.rank = k.rank
  BY <1>4, <1>7 DEF HopsFlows
<1>9. \A h \in HopsFlows : h.prio \in Nat \ {0} /\ h.rank \in Nat
  BY <1>2, <1>4 DEF HopsFlows
<1>10. \A h \in HopsFlows : ~h.check
  BY MqAssumption DEF HopsFlows
<1> QED BY <1>3, <1>5, <1>8, <1>9, <1>10

\* A Hops-Flow message put in the list comes before the others.
LEMMA SaysInserted ==
    ASSUME NEW s \in Seq(Messages), NEW t \in Seq(Messages), NEW told, NEW m \in Messages,
           NEW k \in 1 .. Len(t), PlaceOK(s, m, k), Len(t) = Len(s) + 1, IsHops(m),
           t[k] = m, \A i \in 1 .. k - 1 : t[i] = s[i]
    PROVE  Says(t, told) = m.kind.name
<1>1. ASSUME NEW j \in 1 .. Len(t), IsHops(t[j]) PROVE k <= j
  <2>1. SUFFICES ASSUME j < k PROVE FALSE
    OBVIOUS
  <2>2. j \in 1 .. k - 1
    BY <2>1
  <2>3. s[j].kind.prio < m.kind.prio /\ t[j] = s[j]
    BY <2>2 DEF PlaceOK
  <2>4. s[j].kind \in HopsFlows /\ m.kind \in HopsFlows
    BY <1>1, <2>3 DEF IsHops
  <2>5. s[j].kind.prio = m.kind.prio /\ m.kind.prio \in Nat
    BY <2>4, HopsKinds
  <2> QED BY <2>3, <2>5
<1>2. FirstHops(t, k)
  BY <1>1 DEF FirstHops
<1> QED BY <1>2, SaysFirst

----------------------------------------------------------------------------
(* The sorted array of links.                                              *)

\* The array holds each link of a set once, the other slots being NULL.
Holds(a, I) ==
    /\ a \in Seq(Nat)
    /\ \A id \in I : \E n \in 1 .. Len(a) : a[n] = id
    /\ \A n \in 1 .. Len(a) : a[n] \in I \cup {0}
    /\ \A n, k \in 1 .. Len(a) : a[n] = a[k] /\ n # k => a[n] = 0

\* Clearing the slot of a link.
LEMMA HoldsErase ==
    ASSUME NEW a, NEW I, Holds(a, I), NEW id \in I, 0 \notin I, NEW b \in Seq(Nat), Len(b) = Len(a),
           \A n \in 1 .. Len(a) : b[n] = IF a[n] = id THEN 0 ELSE a[n]
    PROVE  Holds(b, I \ {id})
<1>1. ASSUME NEW x \in I \ {id} PROVE \E n \in 1 .. Len(b) : b[n] = x
  <2>1. PICK n \in 1 .. Len(a) : a[n] = x
    BY DEF Holds
  <2> QED BY <2>1
<1>2. ASSUME NEW n \in 1 .. Len(b) PROVE b[n] \in (I \ {id}) \cup {0}
  BY DEF Holds
<1>3. ASSUME NEW n \in 1 .. Len(b), NEW k \in 1 .. Len(b), b[n] = b[k], n # k PROVE b[n] = 0
  BY <1>3 DEF Holds
<1> QED BY <1>1, <1>2, <1>3 DEF Holds

\* Filling an empty slot.
LEMMA HoldsFill ==
    ASSUME NEW a, NEW I, Holds(a, I), NEW id \in Nat, id \notin I, id # 0, 0 \notin I,
           NEW k \in 1 .. Len(a), a[k] = 0
    PROVE  Holds([a EXCEPT ![k] = id], I \cup {id})
<1> DEFINE b == [a EXCEPT ![k] = id]
<1>1. a \in Seq(Nat) /\ Len(a) \in Nat
  BY DEF Holds
<1>2. b \in Seq(Nat) /\ Len(b) = Len(a) /\ \A n \in 1 .. Len(a) : b[n] = IF n = k THEN id ELSE a[n]
  BY <1>1
<1> HIDE DEF b
<1>3. ASSUME NEW x \in I \cup {id} PROVE \E n \in 1 .. Len(b) : b[n] = x
  <2>1. CASE x = id
    BY <1>2, <2>1
  <2>2. CASE x \in I
    <3>1. PICK n \in 1 .. Len(a) : a[n] = x
      BY <2>2 DEF Holds
    <3>2. n # k
      BY <2>2, <3>1
    <3> QED BY <1>2, <3>1, <3>2
  <2> QED BY <2>1, <2>2
<1>4. ASSUME NEW n \in 1 .. Len(b) PROVE b[n] \in (I \cup {id}) \cup {0}
  BY <1>2 DEF Holds
<1>5. ASSUME NEW n \in 1 .. Len(b), NEW j \in 1 .. Len(b), b[n] = b[j], n # j PROVE b[n] = 0
  <2>1. n \in 1 .. Len(a) /\ j \in 1 .. Len(a)
    BY <1>2
  <2>2. \A i \in 1 .. Len(a) : a[i] # id
    BY DEF Holds
  <2>3. n # k /\ j # k
    BY <1>2, <1>5, <2>1, <2>2
  <2>4. a[n] = a[j] /\ b[n] = a[n]
    BY <1>2, <1>5, <2>1, <2>3
  <2> QED BY <1>5, <2>1, <2>4 DEF Holds
<1> QED BY <1>2, <1>3, <1>4, <1>5 DEF Holds, b

\* Shifting the slots to make room for a link.
LEMMA HoldsInsert ==
    ASSUME NEW a, NEW I, Holds(a, I), NEW id \in Nat, id \notin I, id # 0,
           NEW b \in Seq(Nat), Len(b) = Len(a) + 1, NEW k \in 1 .. Len(b), b[k] = id,
           \A i \in 1 .. k - 1 : b[i] = a[i],
           \A i \in k + 1 .. Len(b) : b[i] = a[i - 1]
    PROVE  Holds(b, I \cup {id})
<1>1. a \in Seq(Nat) /\ Len(a) \in Nat /\ Len(b) \in Nat
  BY DEF Holds
\* Each slot of b is the new one or one of a.
<1> DEFINE o(i) == IF i < k THEN i ELSE i - 1
<1>2. \A i \in 1 .. Len(b) : i # k => o(i) \in 1 .. Len(a) /\ b[i] = a[o(i)]
  <2>1. ASSUME NEW i \in 1 .. Len(b), i < k PROVE i \in 1 .. Len(a) /\ b[i] = a[i]
    BY <1>1, <2>1
  <2>2. ASSUME NEW i \in 1 .. Len(b), i > k PROVE i - 1 \in 1 .. Len(a) /\ b[i] = a[i - 1]
    BY <1>1, <2>2
  <2>3. \A i \in 1 .. Len(b) : i = k \/ i < k \/ i > k
    BY <1>1
  <2> QED BY <2>1, <2>2, <2>3
<1>3. \A i, j \in 1 .. Len(b) : i # k /\ j # k /\ i # j => o(i) # o(j)
  BY <1>1, SMTT(60)
<1>4. ASSUME NEW n \in 1 .. Len(a) PROVE \E i \in 1 .. Len(b) : b[i] = a[n]
  <2>1. CASE n < k
    BY <1>1, <2>1
  <2>2. CASE n >= k
    <3>1. n + 1 \in k + 1 .. Len(b) /\ (n + 1) - 1 = n /\ n + 1 \in 1 .. Len(b)
      BY <1>1, <2>2
    <3>2. b[n + 1] = a[(n + 1) - 1]
      BY <3>1
    <3> QED BY <3>1, <3>2
  <2> QED BY <1>1, <2>1, <2>2
<1> HIDE DEF o
<1>5. ASSUME NEW x \in I \cup {id} PROVE \E n \in 1 .. Len(b) : b[n] = x
  <2>1. CASE x \in I
    <3>1. PICK n \in 1 .. Len(a) : a[n] = x
      BY <2>1 DEF Holds
    <3> QED BY <1>4, <3>1
  <2> QED BY <2>1
<1>6. ASSUME NEW n \in 1 .. Len(b) PROVE b[n] \in (I \cup {id}) \cup {0}
  BY <1>2 DEF Holds
<1>7. ASSUME NEW n \in 1 .. Len(b), NEW j \in 1 .. Len(b), b[n] = b[j], n # j PROVE b[n] = 0
  <2>1. CASE n # k /\ j # k
    <3>1. o(n) # o(j) /\ o(n) \in 1 .. Len(a) /\ o(j) \in 1 .. Len(a) /\ a[o(n)] = a[o(j)] /\ b[n] = a[o(n)]
      BY <1>2, <1>3, <1>7, <2>1
    <3> QED BY <3>1 DEF Holds
  <2>2. CASE n = k \/ j = k
    <3>1. PICK i \in 1 .. Len(b) : i # k /\ b[i] = id
      BY <1>7, <2>2
    <3>2. o(i) \in 1 .. Len(a) /\ a[o(i)] = id
      BY <1>2, <3>1
    <3>3. id \in I \cup {0}
      BY <3>2 DEF Holds
    <3> QED BY <3>3
  <2> QED BY <2>1, <2>2
<1> QED BY <1>5, <1>6, <1>7 DEF Holds

\* An array with one more slot.
LEMMA InsertNat ==
    ASSUME NEW a \in Seq(Nat), NEW id \in Nat, NEW k \in 1 .. Len(a) + 1
    PROVE  LET b == InsertAt(a, k, id)
           IN  /\ b \in Seq(Nat) /\ Len(b) = Len(a) + 1 /\ b[k] = id
               /\ \A i \in 1 .. k - 1 : b[i] = a[i]
               /\ \A i \in k + 1 .. Len(a) + 1 : b[i] = a[i - 1]
<1>1. PICK A : A = Nat
  OBVIOUS
<1>2. PICK s \in Seq(A), e \in A : s = a /\ e = id
  BY <1>1
<1>3. k \in 1 .. Len(s) + 1
  BY <1>2
<1> DEFINE b == InsertAt(s, k, e)
<1>4. /\ b \in Seq(A) /\ Len(b) = Len(s) + 1 /\ b[k] = e
      /\ \A i \in 1 .. k - 1 : b[i] = s[i]
      /\ \A i \in k + 1 .. Len(s) + 1 : b[i] = s[i - 1]
  <2> HIDE <1>1, <1>2
  <2> QED BY <1>3, InsertAtProperty
<1> QED BY <1>1, <1>2, <1>4

\* Inserting the slot of a link.
LEMMA HoldsInsertAt ==
    ASSUME NEW a, NEW I, Holds(a, I), NEW id \in Nat, id \notin I, id # 0, NEW k \in 1 .. Len(a) + 1
    PROVE  Holds(InsertAt(a, k, id), I \cup {id})
<1>1. a \in Seq(Nat) /\ Len(a) \in Nat
  BY DEF Holds
<1>2. PICK b : b = InsertAt(a, k, id)
  OBVIOUS
<1>3. /\ InsertAt(a, k, id) \in Seq(Nat) /\ Len(InsertAt(a, k, id)) = Len(a) + 1 /\ InsertAt(a, k, id)[k] = id
      /\ \A i \in 1 .. k - 1 : InsertAt(a, k, id)[i] = a[i]
      /\ \A i \in k + 1 .. Len(a) + 1 : InsertAt(a, k, id)[i] = a[i - 1]
  BY <1>1, InsertNat
<1>4. b \in Seq(Nat) /\ Len(b) = Len(a) + 1 /\ b[k] = id /\ k \in 1 .. Len(b)
  BY <1>1, <1>2, <1>3
<1>5. \A i \in 1 .. k - 1 : b[i] = a[i]
  BY <1>2, <1>3
<1>6. \A i \in k + 1 .. Len(b) : b[i] = a[i - 1]
  BY <1>2, <1>3, <1>4
<1> HIDE <1>2, <1>3
<1>7. Holds(b, I \cup {id})
  BY <1>4, <1>5, <1>6, HoldsInsert
<1> USE <1>2
<1> QED BY <1>7

\* Adding the slot of a link at the end.
LEMMA HoldsAppend ==
    ASSUME NEW a, NEW I, Holds(a, I), NEW id \in Nat, id \notin I, id # 0
    PROVE  Holds(Append(a, id), I \cup {id})
<1>1. a \in Seq(Nat) /\ Len(a) \in Nat
  BY DEF Holds
<1>2. PICK b, k : b = Append(a, id) /\ k = Len(a) + 1
  OBVIOUS
<1>3. b \in Seq(Nat) /\ Len(b) = Len(a) + 1 /\ b[k] = id /\ k \in 1 .. Len(b)
  BY <1>1, <1>2, AppendShape
<1>5. \A i \in 1 .. k - 1 : b[i] = a[i]
  BY <1>1, <1>2, AppendShape
<1>6. \A i \in k + 1 .. Len(b) : b[i] = a[i - 1]
  BY <1>1, <1>2, <1>3
<1> HIDE <1>2
<1>7. Holds(b, I \cup {id})
  BY <1>3, <1>5, <1>6, HoldsInsert
<1> USE <1>2
<1> QED BY <1>7

\* How many slots there are in a part of an array.
LEMMA SlotCount ==
    ASSUME NEW n \in Nat, NEW T \in SUBSET (1 .. n)
    PROVE  Cardinality(T) + 1 \in 1 .. n + 1
<1>1. IsFiniteSet(1 .. n) /\ Cardinality(1 .. n) = n
  BY FS_Interval
<1>2. IsFiniteSet(T) /\ Cardinality(T) <= Cardinality(1 .. n)
  BY <1>1, FS_Subset
<1>3. Cardinality(T) \in Nat
  BY <1>2, FS_CardinalityType
<1> QED BY <1>1, <1>2, <1>3

\* The array with its NULL slots and a link taken out.
LEMMA CompactProperty ==
    ASSUME NEW a, NEW I, Holds(a, I), NEW id, 0 \notin I
    PROVE  Holds(Compacted(a, id), I \ {id})
<1> DEFINE n == Len(a)
           start == [old |-> a, id |-> id, new |-> <<>>]
           Part(i) == {a[j] : j \in 1 .. i} \ {0, id}
           U == [old : {a}, id : {id}, new : Seq(Nat)]
           Good(l, i) == Holds(l.new, Part(i)) /\ \A j \in 1 .. Len(l.new) : l.new[j] # 0
           S == [i \in 0 .. n |-> {l \in U : Good(l, i)}]
           f == [i \in 1 .. n |-> [l \in U |-> CompactStep(l, i)]]
<1>1. a \in Seq(Nat) /\ n \in Nat
  BY DEF Holds
<1> HIDE DEF Good, U
<1>0. \A i \in 0 .. n : \A l : l \in S[i] <=> l \in U /\ Good(l, i)
  OBVIOUS
<1> HIDE DEF S
<1>2. start \in S[0]
  <2>1. start \in U /\ start.new = <<>>
    BY DEF U
  <2>2. Part(0) = {}
    OBVIOUS
  <2>3. Holds(<<>>, {})
    BY DEF Holds
  <2> HIDE DEF start, Part
  <2>4. Good(start, 0)
    <3>1. \A j \in 1 .. Len(start.new) : FALSE
      BY <2>1
    <3>2. Holds(start.new, Part(0))
      BY <2>1, <2>2, <2>3
    <3> QED BY <3>1, <3>2 DEF Good
  <2> QED BY <1>0, <1>1, <2>1, <2>4
<1>3. ASSUME NEW i \in 1 .. n, NEW l \in S[i - 1] PROVE CompactStep(l, i) \in S[i] /\ l \in U
  <2>1. /\ l \in U /\ l.old = a /\ l.id = id /\ l.new \in Seq(Nat)
        /\ Holds(l.new, Part(i - 1)) /\ \A j \in 1 .. Len(l.new) : l.new[j] # 0
    <3>1. i - 1 \in 0 .. n
      BY <1>1
    <3>2. l \in U /\ Good(l, i - 1)
      BY <1>0, <3>1
    <3>3. l.old = a /\ l.id = id /\ l.new \in Seq(Nat)
      BY <3>2 DEF U
    <3> QED BY <3>2, <3>3 DEF Good
  <2>0. i \in 0 .. n
    BY <1>1
  <2>2. \A j \in 1 .. i : j = i \/ j \in 1 .. i - 1
    BY <1>1
  <2>3. a[i] \in Nat
    BY <1>1
  <2>4. CASE a[i] \in {0, id}
    <3>1. CompactStep(l, i) = l
      BY <2>1, <2>4 DEF CompactStep
    <3>2. Part(i) = Part(i - 1)
      BY <1>1, <2>2, <2>4
    <3> HIDE DEF Part
    <3> QED BY <1>0, <2>0, <2>1, <3>1, <3>2 DEF Good
  <2>5. CASE a[i] \notin {0, id}
    <3> DEFINE t == CompactStep(l, i)
    <3>1. t = [l EXCEPT !.new = Append(@, a[i])]
      BY <2>1, <2>5 DEF CompactStep
    <3>2. t \in U /\ t.new = Append(l.new, a[i])
      <4>0. l.new \in Seq(Nat)
        BY <2>1
      <4>1. PICK x \in Seq(Nat) : x = Append(l.new, a[i])
        BY <2>3, <4>0, AppendShape
      <4>2. t = [l EXCEPT !.new = x]
        BY <3>1, <4>1
      <4>3. l \in U
        BY <2>1
      <4> HIDE DEF t, Part
      <4>4. t \in U /\ t.new = x
        BY <4>2, <4>3 DEF U
      <4> QED BY <4>1, <4>4
    <3> HIDE DEF t
    <3>3. Part(i) = Part(i - 1) \cup {a[i]}
      BY <1>1, <2>2, <2>5
    <3>4. a[i] \notin Part(i - 1)
      <4>1. SUFFICES ASSUME NEW j \in 1 .. i - 1, a[j] = a[i] PROVE FALSE
        OBVIOUS
      <4>2. j \in 1 .. n /\ j # i
        BY <1>1
      <4> QED BY <2>5, <4>1, <4>2 DEF Holds
    <3> HIDE DEF Part
    <3>5. /\ t.new \in Seq(Nat) /\ Len(t.new) = Len(l.new) + 1 /\ t.new[Len(l.new) + 1] = a[i]
          /\ \A j \in 1 .. Len(l.new) : t.new[j] = l.new[j]
      BY <2>1, <2>3, <3>2
    <3>6. Holds(t.new, Part(i - 1) \cup {a[i]})
      <4>1. Len(l.new) \in Nat
        BY <2>1
      <4>2. PICK b, k : b = t.new /\ k = Len(l.new) + 1
        OBVIOUS
      <4>3. b \in Seq(Nat) /\ Len(b) = Len(l.new) + 1 /\ k \in 1 .. Len(b) /\ b[k] = a[i]
        BY <3>5, <4>1, <4>2
      <4>4. \A j \in 1 .. k - 1 : b[j] = l.new[j]
        BY <3>5, <4>1, <4>2
      <4>5. \A j \in k + 1 .. Len(b) : b[j] = l.new[j - 1]
        BY <3>5, <4>1, <4>2
      <4>6. Holds(l.new, Part(i - 1)) /\ a[i] \in Nat /\ a[i] # 0
        BY <2>1, <2>3, <2>5
      <4>7. Holds(b, Part(i - 1) \cup {a[i]})
        BY <3>4, <4>3, <4>4, <4>5, <4>6, HoldsInsert, ZenonT(60)
      <4> QED BY <4>2, <4>7
    <3>7. \A j \in 1 .. Len(t.new) : t.new[j] # 0
      <4>1. ASSUME NEW j \in 1 .. Len(t.new) PROVE t.new[j] # 0
        <5>1. Len(l.new) \in Nat /\ (j = Len(l.new) + 1 \/ j \in 1 .. Len(l.new))
          BY <2>1, <3>5
        <5> QED BY <2>1, <2>5, <3>5, <5>1
      <4> QED BY <4>1
    <3>8. Good(t, i)
      BY <3>3, <3>6, <3>7 DEF Good
    <3> QED BY <1>0, <2>0, <3>2, <3>8 DEF t
  <2> QED BY <2>1, <2>4, <2>5
<1>4. Compacted(a, id) = Loop(CompactStep, start, n).new
  BY DEF Compacted
<1> HIDE DEF start, Part
<1>5. \A i \in 1 .. n : \A l \in S[i - 1] : f[i][l] \in S[i] /\ f[i][l] = CompactStep(l, i)
  BY <1>3
<1> HIDE DEF f, n
<1>6. \E r : r = [i \in 0 .. n |-> IF i = 0 THEN start ELSE CompactStep(r[i - 1], i)]
  <2>0. PICK r : LoopRounds(n, S, start, f, r)
    <3>1. LoopRoundsKeep(n, S, f)
      BY <1>5 DEF LoopRoundsKeep
    <3> QED BY <1>1, <1>2, <3>1, LoopExists
  <2>1. /\ r = [i \in 0 .. n |-> IF i = 0 THEN start ELSE f[i][r[i - 1]]]
        /\ \A i \in 0 .. n : r[i] \in S[i]
    BY <2>0 DEF LoopRounds
  <2>2. \A i \in 0 .. n : i # 0 => i \in 1 .. n /\ i - 1 \in 0 .. n
    BY <1>1
  <2>3. \A i \in 0 .. n : i # 0 => f[i][r[i - 1]] = CompactStep(r[i - 1], i)
    BY <1>5, <2>1, <2>2
  <2>4. r = [i \in 0 .. n |-> IF i = 0 THEN start ELSE CompactStep(r[i - 1], i)]
    BY <2>1, <2>3
  <2> QED BY <2>4
<1>7. PICK r : /\ r = [i \in 0 .. n |-> IF i = 0 THEN start ELSE CompactStep(r[i - 1], i)]
               /\ Loop(CompactStep, start, n) = r[n]
  BY <1>6, Zenon DEF Loop
<1>8. r[n] \in S[n]
  <2>1. r[0] = start /\ \A i \in 1 .. n : r[i] = CompactStep(r[i - 1], i)
    BY <1>1, <1>7
  <2>2. r[0] \in S[0]
    BY <1>2, <2>1
  <2>3. \A i \in 1 .. n : r[i - 1] \in S[i - 1] => r[i] \in S[i]
    BY <1>3, <2>1
  <2>4. \A i \in 0 .. n : r[i] \in S[i]
    BY <1>1, <2>2, <2>3, LoopInduction
  <2> QED BY <1>1, <2>4
<1>9. Holds(Loop(CompactStep, start, n).new, Part(n))
  <2>1. Good(r[n], n)
    BY <1>0, <1>1, <1>8
  <2> QED BY <1>7, <2>1 DEF Good
<1>10. Part(n) = I \ {id}
  <2>1. \A j \in 1 .. n : a[j] \in I \cup {0}
    BY DEF Holds, n
  <2>2. \A x \in I : \E j \in 1 .. n : a[j] = x
    BY DEF Holds, n
  <2> QED BY <2>1, <2>2 DEF Part
<1> QED BY <1>4, <1>9, <1>10

\* The link of a message, and its place in the list.
LEMMA LinkProperty ==
    ASSUME NEW q, Listed(q.queue), NEW id \in Ids(q.queue)
    PROVE  /\ IndexOf(q, id) \in 1 .. Len(q.queue) /\ Link(q, id) = q.queue[IndexOf(q, id)]
           /\ Link(q, id) \in Messages /\ Link(q, id).id = id /\ Link(q, id) \in Range(q.queue)
<1>1. q.queue \in Seq(Messages) /\ DOMAIN q.queue = 1 .. Len(q.queue)
  BY DEF Listed
<1>2. \E i \in DOMAIN q.queue : q.queue[i].id = id
  BY DEF Ids
<1>3. IndexOf(q, id) \in DOMAIN q.queue /\ q.queue[IndexOf(q, id)].id = id
  BY <1>2 DEF IndexOf
<1>4. Link(q, id) = q.queue[IndexOf(q, id)]
  BY DEF Link
<1> QED BY <1>1, <1>3, <1>4 DEF Range

\* A link is found by its ID.
LEMMA IndexProperty ==
    ASSUME NEW q, Listed(q.queue), NEW i \in 1 .. Len(q.queue)
    PROVE  /\ q.queue[i].id \in Ids(q.queue) /\ IndexOf(q, q.queue[i].id) = i
           /\ Link(q, q.queue[i].id) = q.queue[i]
<1>1. q.queue \in Seq(Messages) /\ DOMAIN q.queue = 1 .. Len(q.queue)
  BY DEF Listed
<1>2. q.queue[i].id \in Ids(q.queue)
  BY <1>1 DEF Ids
<1>3. PICK j : j = IndexOf(q, q.queue[i].id)
  OBVIOUS
<1>4. j \in 1 .. Len(q.queue) /\ Link(q, q.queue[i].id) = q.queue[j] /\ q.queue[j].id = q.queue[i].id
  BY <1>2, <1>3, LinkProperty
<1>5. j = i
  BY <1>4 DEF Listed
<1> QED BY <1>2, <1>3, <1>4, <1>5

\* Links are not zero.
LEMMA IdsType ==
    ASSUME NEW s, Listed(s)
    PROVE  Ids(s) \subseteq Nat \ {0} /\ Ids(s) = {m.id : m \in Range(s)}
<1>1. s \in Seq(Messages) /\ DOMAIN s = 1 .. Len(s) /\ \A i \in DOMAIN s : s[i] \in Messages
  BY DEF Listed
<1>2. \A i \in DOMAIN s : s[i].id \in Nat \ {0}
  BY <1>1, MessageType
<1> QED BY <1>2 DEF Ids, Range

\* qlink_cmp() is an order.
LEMMA CmpProperty ==
    ASSUME NEW m1 \in Messages, NEW m2 \in Messages
    PROVE  /\ qlink_cmp(m1, m2) \in Int /\ qlink_cmp(m2, m1) \in Int
           /\ qlink_cmp(m2, m1) < 0 <=> qlink_cmp(m1, m2) > 0
<1>1. /\ m1.kind.prio \in Nat /\ m1.kind.rank \in Nat
      /\ m2.kind.prio \in Nat /\ m2.kind.rank \in Nat
  BY MessageType
<1> QED BY <1>1 DEF qlink_cmp

\* The array just created.
LEMMA SortProperty ==
    ASSUME NEW q, Listed(q.queue)
    PROVE  Holds(Loop(SortStep, [q |-> q, sorted |-> <<>>], Len(q.queue)).sorted, Ids(q.queue))
<1> DEFINE s == q.queue
           n == Len(s)
           start == [q |-> q, sorted |-> <<>>]
           Part(i) == {s[j].id : j \in 1 .. i}
           U == [q : {q}, sorted : Seq(Nat)]
           Good(l, i) == Holds(l.sorted, Part(i))
           S == [i \in 0 .. n |-> {l \in U : Good(l, i)}]
           f == [i \in 1 .. n |-> [l \in U |-> SortStep(l, i)]]
<1>1. s \in Seq(Messages) /\ n \in Nat /\ DOMAIN s = 1 .. n
  BY DEF Listed
<1> HIDE DEF Good, U
<1>0. \A i \in 0 .. n : \A l : l \in S[i] <=> l \in U /\ Good(l, i)
  OBVIOUS
<1> HIDE DEF S
<1>2. start \in S[0]
  <2>1. start \in U /\ start.sorted = <<>>
    BY DEF U
  <2>2. Part(0) = {}
    OBVIOUS
  <2>3. Holds(<<>>, {})
    BY DEF Holds
  <2> HIDE DEF start, Part
  <2>4. Good(start, 0)
    BY <2>1, <2>2, <2>3 DEF Good
  <2> QED BY <1>0, <1>1, <2>1, <2>4
<1>3. ASSUME NEW i \in 1 .. n, NEW l \in S[i - 1] PROVE SortStep(l, i) \in S[i] /\ l \in U
  <2>1. i - 1 \in 0 .. n /\ i \in 0 .. n /\ i \in 1 .. Len(s)
    BY <1>1
  <2>2. l \in U /\ Good(l, i - 1)
    BY <1>0, <2>1
  <2>3. l.q = q /\ l.sorted \in Seq(Nat)
    BY <2>2 DEF U
  <2>4. Holds(l.sorted, Part(i - 1))
    BY <2>2 DEF Good
  <2> DEFINE m == s[i]
             before == {j \in DOMAIN l.sorted : qlink_cmp(Link(l.q, l.sorted[j]), m) <= 0}
             k == Cardinality(before) + 1
             t == SortStep(l, i)
  <2>5. t = [l EXCEPT !.sorted = InsertAt(l.sorted, k, m.id)]
    BY <2>3 DEF SortStep
  <2>6. k \in 1 .. Len(l.sorted) + 1
    <3>1. before \in SUBSET (1 .. Len(l.sorted)) /\ Len(l.sorted) \in Nat
      BY <2>3
    <3> HIDE DEF before
    <3> QED BY <3>1, SlotCount DEF k
  <2>7. m \in Messages /\ m.id \in Nat \ {0}
    BY <1>1, <2>1, MessageType
  <2> HIDE DEF t, k
  <2>8. m.id \notin Part(i - 1)
    <3>1. SUFFICES ASSUME NEW j \in 1 .. i - 1, s[j].id = s[i].id PROVE FALSE
      OBVIOUS
    <3>2. j \in 1 .. Len(s) /\ j # i
      BY <1>1
    <3> QED BY <2>1, <3>1, <3>2 DEF Listed
  <2>9. Part(i) = Part(i - 1) \cup {m.id}
    <3>1. \A j \in 1 .. i : j = i \/ j \in 1 .. i - 1
      BY <1>1
    <3>2. \A j \in 1 .. i - 1 : j \in 1 .. i
      BY <1>1
    <3>3. i \in 1 .. i
      BY <1>1
    <3> QED BY <3>1, <3>2, <3>3
  <2> HIDE DEF Part, m
  <2>10. PICK a, b, I, id : a = l.sorted /\ b = InsertAt(a, k, id) /\ I = Part(i - 1) /\ id = m.id
    OBVIOUS
  <2>11. Holds(a, I) /\ id \in Nat /\ id \notin I /\ id # 0 /\ k \in 1 .. Len(a) + 1
    BY <2>4, <2>6, <2>7, <2>8, <2>10
  <2>12. Holds(b, Part(i - 1) \cup {m.id}) /\ b \in Seq(Nat)
    <3>1. Holds(InsertAt(a, k, id), I \cup {id})
      <4> HIDE <2>10
      <4> QED BY <2>11, HoldsInsertAt
    <3> QED BY <2>10, <3>1 DEF Holds
  <2>13. t \in U /\ t.sorted = b
    BY <2>2, <2>5, <2>10, <2>12 DEF U
  <2>14. Good(t, i)
    BY <2>9, <2>12, <2>13 DEF Good
  <2> QED BY <1>0, <2>1, <2>2, <2>13, <2>14 DEF t
<1> HIDE DEF start, Part
<1>5. \A i \in 1 .. n : \A l \in S[i - 1] : f[i][l] \in S[i] /\ f[i][l] = SortStep(l, i)
  BY <1>3
<1> HIDE DEF f, n
<1>6. \E r : r = [i \in 0 .. n |-> IF i = 0 THEN start ELSE SortStep(r[i - 1], i)]
  <2>0. PICK r : LoopRounds(n, S, start, f, r)
    <3>1. LoopRoundsKeep(n, S, f)
      BY <1>5 DEF LoopRoundsKeep
    <3> QED BY <1>1, <1>2, <3>1, LoopExists
  <2>1. /\ r = [i \in 0 .. n |-> IF i = 0 THEN start ELSE f[i][r[i - 1]]]
        /\ \A i \in 0 .. n : r[i] \in S[i]
    BY <2>0 DEF LoopRounds
  <2>2. \A i \in 0 .. n : i # 0 => i \in 1 .. n /\ i - 1 \in 0 .. n
    BY <1>1
  <2>3. \A i \in 0 .. n : i # 0 => f[i][r[i - 1]] = SortStep(r[i - 1], i)
    BY <1>5, <2>1, <2>2
  <2>4. r = [i \in 0 .. n |-> IF i = 0 THEN start ELSE SortStep(r[i - 1], i)]
    BY <2>1, <2>3
  <2> QED BY <2>4
<1>7. PICK r : /\ r = [i \in 0 .. n |-> IF i = 0 THEN start ELSE SortStep(r[i - 1], i)]
               /\ Loop(SortStep, start, n) = r[n]
  BY <1>6, Zenon DEF Loop
<1>8. Loop(SortStep, start, n) \in S[n]
  <2>1. r[0] = start /\ \A i \in 1 .. n : r[i] = SortStep(r[i - 1], i)
    BY <1>1, <1>7
  <2>2. r[0] \in S[0]
    BY <1>2, <2>1
  <2>3. \A i \in 1 .. n : r[i - 1] \in S[i - 1] => r[i] \in S[i]
    BY <1>3, <2>1
  <2>4. \A i \in 0 .. n : r[i] \in S[i]
    BY <1>1, <2>2, <2>3, LoopInduction
  <2> QED BY <1>1, <1>7, <2>4
<1>9. Good(Loop(SortStep, start, n), n)
  BY <1>0, <1>1, <1>8
<1>10. Part(n) = Ids(s)
  BY <1>1 DEF Part, Ids
<1> QED BY <1>9, <1>10 DEF Good, start, n

\* The dichotomic search only fills a NULL slot.
LEMMA SearchProperty ==
    ASSUME NEW q, NEW m \in Messages, q.qlink \in Seq(Nat), q.qlink # <<>>,
           \A i \in 1 .. Len(q.qlink) : q.qlink[i] # 0 => Link(q, q.qlink[i]) \in Messages,
           q.qlink[Len(q.qlink)] # 0 => qlink_cmp(m, Link(q, q.qlink[Len(q.qlink)])) < 0
    PROVE  /\ qlink_search(q, m).fill \in BOOLEAN /\ qlink_search(q, m).at \in Nat
           /\ qlink_search(q, m).fill => /\ qlink_search(q, m).at \in 1 .. Len(q.qlink)
                                         /\ q.qlink[qlink_search(q, m).at] = 0
<1> DEFINE a == q.qlink
           N == Len(a)
           n == N + 1
           start == [q |-> q, m |-> m, low |-> 1, high |-> N, found |-> FALSE, fill |-> FALSE, at |-> 0]
           U == [q : {q}, m : {m}, low : 1 .. N, high : 0 .. N, found : BOOLEAN, fill : BOOLEAN, at : 0 .. N]
           Good(l) == l.fill => l.at \in 1 .. N /\ a[l.at] = 0
           S == [i \in 0 .. n |-> {l \in U : Good(l)}]
           f == [i \in 1 .. n |-> [l \in U |-> SearchStep(l, i)]]
<1>1. a \in Seq(Nat) /\ N \in Nat /\ N > 0 /\ n \in Nat
  OBVIOUS
<1> HIDE DEF Good, U, N
<1>0. \A i \in 0 .. n : \A l : l \in S[i] <=> l \in U /\ Good(l)
  OBVIOUS
<1> HIDE DEF S
<1>2. start \in S[0]
  <2>1. start \in U
    BY <1>1 DEF U
  <2>2. Good(start)
    BY DEF Good
  <2> HIDE DEF start
  <2> QED BY <1>0, <1>1, <2>1, <2>2
<1>3. ASSUME NEW i \in 1 .. n, NEW l \in S[i - 1] PROVE SearchStep(l, i) \in S[i] /\ l \in U
  <2>1. i - 1 \in 0 .. n /\ i \in 0 .. n
    BY <1>1
  <2>2. l \in U /\ Good(l)
    BY <1>0, <2>1
  <2>3. /\ l.q = q /\ l.m = m /\ l.low \in 1 .. N /\ l.high \in 0 .. N
        /\ l.found \in BOOLEAN /\ l.fill \in BOOLEAN /\ l.at \in 0 .. N
    BY <2>2 DEF U
  \* What a round may answer.
  <2>4. ASSUME NEW low \in 1 .. N, NEW high \in 0 .. N PROVE Between(l, low, high) \in U /\ Good(Between(l, low, high))
    <3>1. Between(l, low, high) = [l EXCEPT !.low = low, !.high = high]
      BY DEF Between
    <3>2. Between(l, low, high) \in U
      BY <2>2, <3>1 DEF U
    <3>3. Between(l, low, high).fill = l.fill /\ Between(l, low, high).at = l.at
      BY <2>2, <3>1 DEF U
    <3> QED BY <2>2, <3>2, <3>3 DEF Good
  <2>5. ASSUME NEW fill \in BOOLEAN, NEW at \in 1 .. N, fill => a[at] = 0
        PROVE  Found(l, fill, at) \in U /\ Good(Found(l, fill, at))
    <3>1. Found(l, fill, at) = [l EXCEPT !.found = TRUE, !.fill = fill, !.at = at]
      BY DEF Found
    <3>2. Found(l, fill, at) \in U
      <4>1. at \in 0 .. N
        BY <1>1
      <4>2. CASE fill = TRUE
        BY <2>2, <3>1, <4>1, <4>2 DEF U
      <4>3. CASE fill = FALSE
        BY <2>2, <3>1, <4>1, <4>3 DEF U
      <4> QED BY <4>2, <4>3
    <3>3. Found(l, fill, at).fill = fill /\ Found(l, fill, at).at = at
      BY <2>2, <3>1 DEF U
    <3> QED BY <2>5, <3>2, <3>3 DEF Good
  <2> DEFINE mid == l.low + (l.high - l.low) \div 2
             t == SearchStep(l, i)
  <2>6. \A j \in 1 .. N : Slot(l, j) = Link(q, a[j]) /\ (a[j] # 0 => Slot(l, j) \in Messages)
    BY <2>3 DEF Slot, N
  <2>7. a[N] # 0 => qlink_cmp(m, Slot(l, N)) < 0
    BY <1>1, <2>6 DEF N
  <2>8. CASE l.found
    <3>1. t = l
      BY <2>8 DEF SearchStep
    <3> QED BY <1>0, <2>1, <2>2, <3>1
  <2>9. CASE ~l.found /\ l.low > l.high
    <3>1. t = Found(l, a[l.low] = 0, l.low)
      BY <2>3, <2>9 DEF SearchStep
    <3>2. t \in U /\ Good(t)
      <4> HIDE DEF t
      <4>1. PICK fill \in BOOLEAN : fill <=> a[l.low] = 0
        OBVIOUS
      <4>2. t = Found(l, fill, l.low)
        BY <3>1, <4>1
      <4> QED BY <2>3, <2>5, <4>1, <4>2
    <3> QED BY <1>0, <2>1, <2>2, <3>2
  <2>10. CASE ~l.found /\ l.low <= l.high
    <3>1. mid \in Nat /\ l.low <= mid /\ mid <= l.high /\ mid \in 1 .. N
      BY <1>1, <2>3, <2>10
    <3>2. t = IF a[mid] = 0 THEN SearchNull(l, mid) ELSE SearchMid(l, mid)
      BY <1>1, <2>3, <2>10 DEF SearchStep
    <3> HIDE DEF mid, t
    <3>3. CASE a[mid] = 0
      <4> DEFINE below == {j \in l.low .. mid - 1 : a[j] # 0}
                 above == {j \in mid + 1 .. l.high : a[j] # 0}
                 lowest == Max(below)
                 highest == Min(above)
      <4>1. SearchNull(l, mid) =
              IF below = {} /\ above = {} THEN Found(l, TRUE, mid)
              ELSE IF below = {} THEN Between(l, mid + 1, l.high)
              ELSE IF above = {} THEN Between(l, l.low, mid - 1)
              ELSE IF lowest <= l.low + 1 /\ highest >= l.high - 1 THEN Found(l, TRUE, mid)
              ELSE IF qlink_cmp(l.m, Slot(l, lowest)) < 0 THEN Between(l, l.low, lowest - 1)
              ELSE IF qlink_cmp(l.m, Slot(l, highest)) > 0 THEN Between(l, highest + 1, l.high)
              ELSE Between(l, lowest + 1, highest - 1)
        BY <2>3 DEF SearchNull
      <4>2. below \subseteq 0 .. N /\ \A j \in below : j \in l.low .. mid - 1 /\ a[j] # 0
        BY <1>1, <2>3, <3>1
      <4>3. above \subseteq Nat /\ \A j \in above : j \in mid + 1 .. l.high /\ a[j] # 0
        BY <1>1, <2>3, <3>1
      <4> HIDE DEF below, above
      <4>4. below # {} => lowest \in l.low .. mid - 1 /\ a[lowest] # 0
        BY <1>1, <4>2, MaxProperty
      <4>5. above # {} => highest \in mid + 1 .. l.high /\ a[highest] # 0
        BY <4>3, MinProperty
      <4> HIDE DEF lowest, highest
      <4>6. Found(l, TRUE, mid) \in U /\ Good(Found(l, TRUE, mid))
        BY <2>5, <3>1, <3>3
      <4>7. CASE below = {} /\ above = {}
        BY <1>0, <2>1, <2>2, <3>2, <3>3, <4>1, <4>6, <4>7 DEF t
      <4>8. CASE below = {} /\ above # {}
        <5>1. mid + 1 \in 1 .. N /\ l.high \in 0 .. N
          BY <1>1, <2>3, <3>1, <4>5, <4>8
        <5>2. t = Between(l, mid + 1, l.high)
          BY <3>2, <3>3, <4>1, <4>8
        <5> QED BY <1>0, <2>1, <2>2, <2>4, <5>1, <5>2 DEF t
      <4>9. CASE below # {} /\ above = {}
        <5>1. l.low \in 1 .. N /\ mid - 1 \in 0 .. N
          BY <1>1, <2>3, <3>1
        <5>2. t = Between(l, l.low, mid - 1)
          BY <3>2, <3>3, <4>1, <4>9
        <5> QED BY <1>0, <2>1, <2>2, <2>4, <5>1, <5>2 DEF t
      <4>10. CASE below # {} /\ above # {} /\ lowest <= l.low + 1 /\ highest >= l.high - 1
        BY <1>0, <2>1, <2>2, <3>2, <3>3, <4>1, <4>6, <4>10 DEF t
      <4>11. CASE below # {} /\ above # {} /\ ~(lowest <= l.low + 1 /\ highest >= l.high - 1)
        <5>1. lowest \in l.low .. mid - 1 /\ highest \in mid + 1 .. l.high /\ a[highest] # 0
          BY <4>4, <4>5, <4>11
        <5>2. t = IF qlink_cmp(l.m, Slot(l, lowest)) < 0 THEN Between(l, l.low, lowest - 1)
                  ELSE IF qlink_cmp(l.m, Slot(l, highest)) > 0 THEN Between(l, highest + 1, l.high)
                  ELSE Between(l, lowest + 1, highest - 1)
          BY <3>2, <3>3, <4>1, <4>11
        <5>3. Between(l, l.low, lowest - 1) \in U /\ Good(Between(l, l.low, lowest - 1))
          <6>1. lowest - 1 \in 0 .. N
            BY <1>1, <2>3, <3>1, <5>1
          <6> QED BY <2>3, <2>4, <6>1
        <5>4. Between(l, lowest + 1, highest - 1) \in U /\ Good(Between(l, lowest + 1, highest - 1))
          <6>1. lowest + 1 \in 1 .. N /\ highest - 1 \in 0 .. N
            BY <1>1, <2>3, <3>1, <5>1
          <6> QED BY <2>3, <2>4, <6>1
        <5>5. ASSUME qlink_cmp(l.m, Slot(l, highest)) > 0
              PROVE  Between(l, highest + 1, l.high) \in U /\ Good(Between(l, highest + 1, l.high))
          <6>1. highest \in 1 .. N /\ Slot(l, highest) \in Messages
            BY <1>1, <2>3, <2>6, <3>1, <5>1
          <6>2. qlink_cmp(m, Slot(l, highest)) \in Int
            BY <6>1, CmpProperty
          <6>3. highest # N
            BY <2>3, <2>7, <5>1, <5>5, <6>2
          <6>4. highest + 1 \in 1 .. N
            BY <1>1, <6>1, <6>3
          <6> QED BY <2>3, <2>4, <6>4
        <5> QED BY <1>0, <2>1, <2>2, <5>2, <5>3, <5>4, <5>5 DEF t
      <4> QED BY <4>7, <4>8, <4>9, <4>10, <4>11
    <3>4. CASE a[mid] # 0
      <4> DEFINE c == qlink_cmp(Slot(l, mid), l.m)
      <4>1. t = IF c = 0 THEN Found(l, FALSE, mid)
                ELSE IF c < 0 THEN Between(l, mid + 1, l.high)
                ELSE Between(l, l.low, mid - 1)
        BY <3>2, <3>4 DEF SearchMid
      <4>2. Slot(l, mid) \in Messages /\ l.m = m
        BY <2>3, <2>6, <3>1, <3>4
      <4>3. c \in Int /\ (c < 0 => qlink_cmp(m, Slot(l, mid)) > 0) /\ qlink_cmp(m, Slot(l, mid)) \in Int
        BY <4>2, CmpProperty
      <4> HIDE DEF c
      <4>4. CASE c = 0
        BY <1>0, <2>1, <2>2, <2>5, <3>1, <4>1, <4>4 DEF t
      <4>5. CASE c < 0
        <5>1. mid # N
          BY <2>7, <3>4, <4>3, <4>5
        <5>2. mid + 1 \in 1 .. N
          BY <1>1, <3>1, <5>1
        <5>3. t = Between(l, mid + 1, l.high)
          <6>1. c # 0
            BY <4>3, <4>5
          <6> QED BY <4>1, <4>5, <6>1, Zenon
        <5> QED BY <1>0, <2>1, <2>2, <2>3, <2>4, <5>2, <5>3 DEF t
      <4>6. CASE c > 0
        <5>1. mid - 1 \in 0 .. N
          BY <1>1, <3>1
        <5>2. t = Between(l, l.low, mid - 1)
          <6>1. c # 0 /\ ~(c < 0)
            BY <4>3, <4>6
          <6> QED BY <4>1, <6>1, Zenon
        <5> QED BY <1>0, <2>1, <2>2, <2>3, <2>4, <5>1, <5>2 DEF t
      <4> QED BY <4>3, <4>4, <4>5, <4>6
    <3> QED BY <3>3, <3>4
  <2> QED BY <1>1, <2>3, <2>8, <2>9, <2>10
<1> HIDE DEF start
<1>5. \A i \in 1 .. n : \A l \in S[i - 1] : f[i][l] \in S[i] /\ f[i][l] = SearchStep(l, i)
  BY <1>3
<1> HIDE DEF f, n
<1>6. \E r : r = [i \in 0 .. n |-> IF i = 0 THEN start ELSE SearchStep(r[i - 1], i)]
  <2>0. PICK r : LoopRounds(n, S, start, f, r)
    <3>1. LoopRoundsKeep(n, S, f)
      BY <1>5 DEF LoopRoundsKeep
    <3> QED BY <1>1, <1>2, <3>1, LoopExists
  <2>1. /\ r = [i \in 0 .. n |-> IF i = 0 THEN start ELSE f[i][r[i - 1]]]
        /\ \A i \in 0 .. n : r[i] \in S[i]
    BY <2>0 DEF LoopRounds
  <2>2. \A i \in 0 .. n : i # 0 => i \in 1 .. n /\ i - 1 \in 0 .. n
    BY <1>1
  <2>3. \A i \in 0 .. n : i # 0 => f[i][r[i - 1]] = SearchStep(r[i - 1], i)
    BY <1>5, <2>1, <2>2
  <2>4. r = [i \in 0 .. n |-> IF i = 0 THEN start ELSE SearchStep(r[i - 1], i)]
    BY <2>1, <2>3
  <2> QED BY <2>4
<1>7. PICK r : /\ r = [i \in 0 .. n |-> IF i = 0 THEN start ELSE SearchStep(r[i - 1], i)]
               /\ Loop(SearchStep, start, n) = r[n]
  BY <1>6, Zenon DEF Loop
<1>8. Loop(SearchStep, start, n) \in S[n]
  <2>1. r[0] = start /\ \A i \in 1 .. n : r[i] = SearchStep(r[i - 1], i)
    BY <1>1, <1>7
  <2>2. r[0] \in S[0]
    BY <1>2, <2>1
  <2>3. \A i \in 1 .. n : r[i - 1] \in S[i - 1] => r[i] \in S[i]
    BY <1>3, <2>1
  <2>4. \A i \in 0 .. n : r[i] \in S[i]
    BY <1>1, <2>2, <2>3, LoopInduction
  <2> QED BY <1>1, <1>7, <2>4
<1>9. qlink_search(q, m) = Loop(SearchStep, start, n)
  BY DEF qlink_search, start, n, N
<1>10. qlink_search(q, m) \in U /\ Good(qlink_search(q, m))
  BY <1>0, <1>1, <1>8, <1>9
<1>11. qlink_search(q, m).fill \in BOOLEAN /\ qlink_search(q, m).at \in Nat
  BY <1>1, <1>10 DEF U
<1> QED BY <1>10, <1>11 DEF Good, N

----------------------------------------------------------------------------
(* The queue: its list, its size and its array.                            *)

\* The list and its size agree, and the array holds the links.
Ledger(q) == q \in Queues /\ Listed(q.queue) /\ q.size = Bytes(q.queue)
Arrayed(q) ==
    /\ ~q.linked => q.qlink = <<>>
    /\ q.linked /\ ~q.abort => Holds(q.qlink, Ids(q.queue))
Books(q) == Ledger(q) /\ Arrayed(q)

\* The fields of a queue.
LEMMA QueueType ==
    ASSUME NEW q \in Queues
    PROVE  /\ q.queue \in Seq(Messages) /\ q.qlink \in Seq(Nat) /\ q.linked \in BOOLEAN /\ q.size \in Nat
           /\ q.flowc \in BOOLEAN /\ q.swift \in BOOLEAN /\ q.warn \in BOOLEAN /\ q.discard \in BOOLEAN
           /\ q.closing \in BOOLEAN /\ q.qwait \in Seq(AllKinds) /\ q.ev \in {"none", "enter", "timer"}
           /\ q.srv \in BOOLEAN /\ q.room \in 0 .. MaxRoom /\ q.down \in BOOLEAN /\ q.told \in STRING
           /\ q.torn \in BOOLEAN /\ q.abort \in BOOLEAN
BY DEF Queues

\* What a change of the list leaves alone.
Steady(q, r) ==
    /\ r.linked = q.linked /\ r.flowc = q.flowc /\ r.swift = q.swift /\ r.discard = q.discard
    /\ r.closing = q.closing /\ r.qwait = q.qwait /\ r.ev = q.ev /\ r.srv = q.srv
    /\ r.down = q.down /\ r.abort = q.abort

\* A queue whose list, size and array are replaced.
WithList(q, s, a, z) == [q EXCEPT !.queue = s, !.qlink = a, !.size = z]
\* Changing the list, its array and its size changes nothing else.
LEMMA SetList ==
    ASSUME NEW q \in Queues, NEW s \in Seq(Messages), NEW a \in Seq(Nat), NEW z \in Nat
    PROVE  LET r == WithList(q, s, a, z)
           IN  /\ r \in Queues /\ r.queue = s /\ r.qlink = a /\ r.size = z
               /\ Steady(q, r) /\ r.told = q.told /\ r.torn = q.torn /\ r.room = q.room
BY DEF Queues, Steady, WithList

\* A message gone.
Removed(q, r, id) ==
    /\ Ids(r.queue) = Ids(q.queue) \ {id} /\ Len(r.queue) = Len(q.queue) - 1
    /\ r.size = q.size - Link(q, id).left /\ Link(q, id).left <= q.size
    /\ Steady(q, r) /\ r.told = q.told /\ r.torn = q.torn /\ r.room = q.room
    /\ \A i \in 1 .. Len(r.queue) :
         r.queue[i] = IF i < IndexOf(q, id) THEN q.queue[i] ELSE q.queue[i + 1]

\* mq_rmlink_prev(), on a queue whose array may already have changed.
LEMMA RemoveLink ==
    ASSUME NEW q, Ledger(q), NEW id \in Ids(q.queue), NEW a \in Seq(Nat)
    PROVE  LET r == mq_rmlink_prev([q EXCEPT !.qlink = a], id)
           IN  Ledger(r) /\ r.qlink = a /\ Removed(q, r, id)
<1> DEFINE p == [q EXCEPT !.qlink = a]
           r == mq_rmlink_prev(p, id)
           s == q.queue
           k == IndexOf(q, id)
           t == RemoveAt(s, k)
           z == q.size - Link(q, id).left
<1>1. q \in Queues /\ Listed(s) /\ q.size = Bytes(s) /\ q.size \in Nat
  BY QueueType DEF Ledger
<1>2. /\ k \in 1 .. Len(s) /\ Link(q, id) = s[k] /\ Link(q, id) \in Messages
      /\ Link(q, id).id = id /\ Link(q, id) \in Range(s)
  BY <1>1, LinkProperty
<1>3. /\ Listed(t) /\ Len(t) = Len(s) - 1 /\ Range(t) = Range(s) \ {s[k]} /\ s[k] \in Range(s)
      /\ Ids(t) = Ids(s) \ {s[k].id}
      /\ \A i \in 1 .. Len(t) : t[i] = IF i < k THEN s[i] ELSE s[i + 1]
  <2>1. PICK j \in 1 .. Len(s) : j = k
    BY <1>2
  <2>2. LET u == RemoveAt(s, j)
        IN  /\ Listed(u) /\ Len(u) = Len(s) - 1 /\ Range(u) = Range(s) \ {s[j]} /\ s[j] \in Range(s)
            /\ Ids(u) = Ids(s) \ {s[j].id}
            /\ \A i \in 1 .. Len(u) : u[i] = IF i < j THEN s[i] ELSE s[i + 1]
    BY <1>1, ListRemove
  <2> QED BY <2>1, <2>2
<1>4. p.queue = s /\ p.size = q.size /\ IndexOf(p, id) = k /\ Link(p, id) = Link(q, id)
  <2>1. p.queue = s /\ p.size = q.size
    BY <1>1 DEF Queues
  <2> HIDE DEF p
  <2> QED BY <2>1 DEF IndexOf, Link
<1>5. r = [p EXCEPT !.queue = t, !.size = z]
  <2> HIDE DEF p
  <2> QED BY <1>4 DEF mq_rmlink_prev
<1>6. r = WithList(q, t, a, z)
  BY <1>1, <1>5 DEF Queues, WithList
<1> HIDE DEF k, t, z, r, p
<1>7. z = Bytes(t) /\ z \in Nat /\ Link(q, id).left <= q.size
  <2>1. Bytes(t) = Bytes(s) - s[k].left /\ Bytes(t) \in Nat /\ s[k].left <= Bytes(s)
    BY <1>1, <1>3, BytesRemove
  <2> QED BY <1>1, <1>2, <2>1 DEF z
<1>8. t \in Seq(Messages)
  BY <1>3 DEF Listed
<1>9. /\ r \in Queues /\ r.queue = t /\ r.qlink = a /\ r.size = z
      /\ Steady(q, r) /\ r.told = q.told /\ r.torn = q.torn /\ r.room = q.room
  BY <1>1, <1>6, <1>7, <1>8, SetList
<1>10. Ledger(r)
  BY <1>3, <1>7, <1>9 DEF Ledger
<1>11. Removed(q, r, id)
  <2>1. Ids(r.queue) = Ids(q.queue) \ {id} /\ Len(r.queue) = Len(q.queue) - 1
    BY <1>2, <1>3, <1>9
  <2>2. r.size = q.size - Link(q, id).left /\ Link(q, id).left <= q.size
    BY <1>7, <1>9 DEF z
  <2>3. \A i \in 1 .. Len(r.queue) :
          r.queue[i] = IF i < IndexOf(q, id) THEN q.queue[i] ELSE q.queue[i + 1]
    BY <1>3, <1>9 DEF k
  <2> QED BY <1>9, <2>1, <2>2, <2>3 DEF Removed
<1> QED BY <1>9, <1>10, <1>11 DEF r, p

\* The array without a link.
LEMMA ArrayRemove ==
    ASSUME NEW q, Books(q), q.linked, ~q.abort, NEW id \in Ids(q.queue)
    PROVE  \E a \in Seq(Nat) : qlink_remove(q, id) = [q EXCEPT !.qlink = a] /\ Holds(a, Ids(q.queue) \ {id})
<1>1. q \in Queues /\ Listed(q.queue) /\ Holds(q.qlink, Ids(q.queue))
  BY DEF Books, Ledger, Arrayed
<1>2. 0 \notin Ids(q.queue)
  BY <1>1, IdsType
<1> DEFINE b == [n \in DOMAIN q.qlink |-> IF q.qlink[n] = id THEN 0 ELSE q.qlink[n]]
           c == Compacted(q.qlink, id)
<1>3. qlink_remove(q, id) = [q EXCEPT !.qlink = IF Len(q.qlink) > 3 * Len(q.queue) THEN c ELSE b]
  BY DEF qlink_remove
<1>4. Holds(b, Ids(q.queue) \ {id})
  <2>1. q.qlink \in Seq(Nat) /\ Len(q.qlink) \in Nat /\ DOMAIN q.qlink = 1 .. Len(q.qlink)
    BY <1>1 DEF Holds
  <2>2. b \in Seq(Nat) /\ Len(b) = Len(q.qlink) /\ \A n \in 1 .. Len(q.qlink) : b[n] = IF q.qlink[n] = id THEN 0 ELSE q.qlink[n]
    BY <2>1
  <2> HIDE DEF b
  <2>3. PICK a, I : a = q.qlink /\ I = Ids(q.queue)
    OBVIOUS
  <2>4. Holds(a, I) /\ id \in I /\ 0 \notin I /\ b \in Seq(Nat) /\ Len(b) = Len(a)
    BY <1>1, <1>2, <2>2, <2>3
  <2>5. \A n \in 1 .. Len(a) : b[n] = IF a[n] = id THEN 0 ELSE a[n]
    BY <2>2, <2>3
  <2>6. Holds(b, I \ {id})
    <3> HIDE <2>2, <2>3
    <3> QED BY <2>4, <2>5, HoldsErase
  <2> QED BY <2>3, <2>6
<1>5. Holds(c, Ids(q.queue) \ {id})
  BY <1>1, <1>2, CompactProperty
<1> HIDE DEF b, c
<1>6. b \in Seq(Nat) /\ c \in Seq(Nat)
  BY <1>4, <1>5 DEF Holds
<1> QED BY <1>3, <1>4, <1>5, <1>6

\* A message removed from the list and from the array.
LEMMA UnlinkProperty ==
    ASSUME NEW q, Books(q), ~q.abort, NEW id \in Ids(q.queue)
    PROVE  Books(Unlink(q, id)) /\ Removed(q, Unlink(q, id), id)
<1>1. Ledger(q) /\ q \in Queues /\ q.qlink \in Seq(Nat) /\ q.linked \in BOOLEAN
  BY QueueType DEF Books, Ledger
<1> DEFINE r == Unlink(q, id)
<1>2. CASE q.linked
  <2>1. PICK a \in Seq(Nat) : qlink_remove(q, id) = [q EXCEPT !.qlink = a] /\ Holds(a, Ids(q.queue) \ {id})
    BY <1>2, ArrayRemove
  <2>2. r = mq_rmlink_prev([q EXCEPT !.qlink = a], id)
    BY <1>2, <2>1 DEF Unlink
  <2> HIDE DEF r
  <2>3. Ledger(r) /\ r.qlink = a /\ Removed(q, r, id)
    BY <1>1, <2>2, RemoveLink
  <2>4. Arrayed(r)
    BY <1>2, <2>1, <2>3 DEF Removed, Steady, Arrayed
  <2> QED BY <2>3, <2>4 DEF Books, r
<1>3. CASE ~q.linked
  <2>1. q = [q EXCEPT !.qlink = q.qlink]
    BY <1>1 DEF Queues
  <2>2. r = mq_rmlink_prev([q EXCEPT !.qlink = q.qlink], id)
    BY <1>3, <2>1 DEF Unlink
  <2> HIDE DEF r
  <2>3. Ledger(r) /\ r.qlink = q.qlink /\ Removed(q, r, id)
    BY <1>1, <2>2, RemoveLink
  <2>4. Arrayed(r)
    BY <1>3, <2>3 DEF Removed, Steady, Arrayed, Books
  <2> QED BY <2>3, <2>4 DEF Books, r
<1> QED BY <1>1, <1>2, <1>3

\* make_room_internal() makes the slot NULL itself.
LEMMA PruneProperty ==
    ASSUME NEW q, Books(q), q.linked, ~q.abort, NEW n \in 1 .. Len(q.qlink), q.qlink[n] # 0
    PROVE  LET id == q.qlink[n]
               r == mq_rmlink_prev([q EXCEPT !.qlink[n] = 0], id)
           IN  /\ id \in Ids(q.queue) /\ Books(r) /\ Removed(q, r, id) /\ Len(r.qlink) = Len(q.qlink)
<1> DEFINE id == q.qlink[n]
           a == [q.qlink EXCEPT ![n] = 0]
           r == mq_rmlink_prev([q EXCEPT !.qlink[n] = 0], id)
<1>1. q \in Queues /\ Listed(q.queue) /\ Ledger(q) /\ Holds(q.qlink, Ids(q.queue))
  BY DEF Books, Ledger, Arrayed
<1>2. 0 \notin Ids(q.queue)
  BY <1>1, IdsType
<1>3. q.qlink \in Seq(Nat) /\ Len(q.qlink) \in Nat /\ id \in Ids(q.queue)
  BY <1>1 DEF Holds
<1>4. \A i \in 1 .. Len(q.qlink) : q.qlink[i] = id => i = n
  BY <1>1 DEF Holds
<1>5. a \in Seq(Nat) /\ Len(a) = Len(q.qlink) /\ \A i \in 1 .. Len(q.qlink) : a[i] = IF i = n THEN 0 ELSE q.qlink[i]
  BY <1>3
<1>6. [q EXCEPT !.qlink[n] = 0] = [q EXCEPT !.qlink = a]
  OBVIOUS
<1> HIDE DEF id, a
<1>7. Holds(a, Ids(q.queue) \ {id})
  <2>1. PICK b, I : b = q.qlink /\ I = Ids(q.queue)
    OBVIOUS
  <2>2. Holds(b, I) /\ id \in I /\ 0 \notin I /\ a \in Seq(Nat) /\ Len(a) = Len(b)
    BY <1>1, <1>2, <1>3, <1>5, <2>1
  <2>3. \A i \in 1 .. Len(b) : a[i] = IF b[i] = id THEN 0 ELSE b[i]
    BY <1>4, <1>5, <2>1 DEF id
  <2>4. Holds(a, I \ {id})
    <3> HIDE <1>5, <2>1
    <3> QED BY <2>2, <2>3, HoldsErase
  <2> QED BY <2>1, <2>4
<1>8. r = mq_rmlink_prev([q EXCEPT !.qlink = a], id)
  BY <1>6
<1> HIDE DEF r
<1>9. Ledger(r) /\ r.qlink = a /\ Removed(q, r, id)
  BY <1>1, <1>3, <1>5, <1>8, RemoveLink
<1>10. Arrayed(r)
  BY <1>7, <1>9 DEF Removed, Steady, Arrayed
<1> QED BY <1>3, <1>5, <1>9, <1>10 DEF Books, r, id

\* A message that is not a Hops-Flow one is gone: the peer is told the same.
LEMMA SaysRemoved ==
    ASSUME NEW q, Ledger(q), NEW r, Ledger(r), NEW id \in Ids(q.queue), Removed(q, r, id), ~IsHops(Link(q, id))
    PROVE  Says(r.queue, r.told) = Says(q.queue, q.told)
<1>1. PICK s, t, k : s = q.queue /\ t = r.queue /\ k = IndexOf(q, id)
  OBVIOUS
<1>2. s \in Seq(Messages) /\ t \in Seq(Messages) /\ Listed(s)
  BY <1>1 DEF Ledger, Listed
<1>3. k \in 1 .. Len(s) /\ Link(q, id) = s[k]
  BY <1>1, LinkProperty DEF Ledger
<1>4. /\ Len(t) = Len(s) - 1 /\ r.told = q.told
      /\ \A i \in 1 .. Len(t) : t[i] = IF i < k THEN s[i] ELSE s[i + 1]
  BY <1>1 DEF Removed
<1>5. \A i \in 1 .. k - 1 : t[i] = s[i]
  BY <1>2, <1>3, <1>4
<1>6. \A i \in k + 1 .. Len(s) : t[i - 1] = s[i]
  <2>1. ASSUME NEW i \in k + 1 .. Len(s) PROVE t[i - 1] = s[i]
    <3>1. i - 1 \in 1 .. Len(t) /\ ~(i - 1 < k) /\ (i - 1) + 1 = i
      BY <1>2, <1>3, <1>4
    <3> QED BY <1>4, <3>1
  <2> QED BY <2>1
<1>7. ~IsHops(s[k]) /\ Len(t) = Len(s) - 1
  BY <1>3, <1>4
<1>8. Says(s, q.told) = Says(t, q.told)
  <2> HIDE <1>1, <1>4
  <2> QED BY <1>2, <1>3, <1>5, <1>6, <1>7, SaysSkip
<1> QED BY <1>1, <1>4, <1>8

\* Where qlink_insert() puts a link: a NULL slot if it fills one.
FillsNull(q, place) ==
    /\ place.fill \in BOOLEAN /\ place.at \in Nat
    /\ place.fill => place.at \in 1 .. Len(q.qlink) /\ q.qlink[place.at] = 0

\* qlink_insert() finds an empty slot, or a place for a new one.
LEMMA PlaceInArray ==
    ASSUME NEW q, Ledger(q), NEW m \in Messages, NEW I \in SUBSET Ids(q.queue), Holds(q.qlink, I)
    PROVE  FillsNull(q, qlink_place(q, m))
<1> DEFINE a == q.qlink
           n == Len(a)
           slot(i) == Link(q, a[i])
           p == qlink_place(q, m)
<1>1. a \in Seq(Nat) /\ n \in Nat /\ Listed(q.queue)
  BY DEF Holds, Ledger
<1>2. \A i \in 1 .. n : a[i] # 0 => Link(q, a[i]) \in Messages
  <2>1. \A i \in 1 .. n : a[i] # 0 => a[i] \in Ids(q.queue)
    BY DEF Holds
  <2> QED BY <1>1, <2>1, LinkProperty
<1>3. p = IF n = 0 THEN [fill |-> FALSE, at |-> 1]
          ELSE IF a[1] # 0 /\ qlink_cmp(m, slot(1)) <= 0 THEN [fill |-> FALSE, at |-> 1]
          ELSE IF a[n] # 0 /\ qlink_cmp(m, slot(n)) >= 0 THEN [fill |-> FALSE, at |-> n + 1]
          ELSE qlink_search(q, m)
  BY DEF qlink_place
<1>4. CASE n = 0 \/ (a[1] # 0 /\ qlink_cmp(m, slot(1)) <= 0)
  <2>1. p = [fill |-> FALSE, at |-> 1]
    BY <1>3, <1>4
  <2> HIDE DEF p
  <2> QED BY <2>1 DEF FillsNull, p
<1>5. CASE ~(n = 0 \/ (a[1] # 0 /\ qlink_cmp(m, slot(1)) <= 0)) /\ a[n] # 0 /\ qlink_cmp(m, slot(n)) >= 0
  <2>1. p = [fill |-> FALSE, at |-> n + 1]
    BY <1>3, <1>5
  <2> HIDE DEF p
  <2> QED BY <1>1, <2>1 DEF FillsNull, p
<1>6. CASE n # 0 /\ ~(a[n] # 0 /\ qlink_cmp(m, slot(n)) >= 0) /\ p = qlink_search(q, m)
  <2>1. a[n] # 0 => qlink_cmp(m, slot(n)) < 0
    <3>1. a[n] # 0 => slot(n) \in Messages
      BY <1>1, <1>2, <1>6
    <3>2. a[n] # 0 => qlink_cmp(m, slot(n)) \in Int
      BY <3>1, CmpProperty
    <3> QED BY <1>6, <3>2
  <2>2. q.qlink \in Seq(Nat) /\ q.qlink # <<>>
    BY <1>1, <1>6
  <2>3. q.qlink[Len(q.qlink)] # 0 => qlink_cmp(m, Link(q, q.qlink[Len(q.qlink)])) < 0
    BY <2>1
  <2>4. \A i \in 1 .. Len(q.qlink) : q.qlink[i] # 0 => Link(q, q.qlink[i]) \in Messages
    BY <1>2
  <2>5. /\ qlink_search(q, m).fill \in BOOLEAN /\ qlink_search(q, m).at \in Nat
        /\ qlink_search(q, m).fill => /\ qlink_search(q, m).at \in 1 .. Len(q.qlink)
                                      /\ q.qlink[qlink_search(q, m).at] = 0
    BY <2>2, <2>3, <2>4, SearchProperty
  <2> HIDE DEF p
  <2>6. p = qlink_search(q, m)
    BY <1>6
  <2> QED BY <2>5, <2>6 DEF FillsNull, p
<1> QED BY <1>3, <1>4, <1>5, <1>6

\* A link put in the array, or an assertion that fails.
LEMMA ArrayInsert ==
    ASSUME NEW q, Ledger(q), NEW m \in Messages, NEW I, Holds(q.qlink, I), 0 \notin I, m.id \notin I,
           NEW place, FillsNull(q, place)
    PROVE  \/ qlink_insert(q, m, place) = [q EXCEPT !.abort = TRUE]
           \/ \E a \in Seq(Nat) : qlink_insert(q, m, place) = [q EXCEPT !.qlink = a] /\ Holds(a, I \cup {m.id})
<1> DEFINE b == q.qlink
           at == place.at
           r == qlink_insert(q, m, place)
<1>1. b \in Seq(Nat) /\ Len(b) \in Nat /\ m.id \in Nat /\ m.id # 0
  BY MessageType DEF Holds
<1>2. place.fill \in BOOLEAN /\ at \in Nat /\ (place.fill => at \in 1 .. Len(b) /\ b[at] = 0)
  BY DEF FillsNull
<1>3. r = IF place.fill THEN [q EXCEPT !.qlink[at] = m.id]
          ELSE IF at = Len(b) + 1 THEN [q EXCEPT !.qlink = Append(b, m.id)]
          ELSE IF ~HintOk(q, at, m) THEN [q EXCEPT !.abort = TRUE]
          ELSE IF at > 1 /\ b[at - 1] = 0 THEN [q EXCEPT !.qlink[at - 1] = m.id]
          ELSE [q EXCEPT !.qlink = InsertAt(b, at, m.id)]
  BY DEF qlink_insert
<1> HIDE DEF r
<1>4. PICK id \in Nat : id = m.id
  BY <1>1
<1>5. ASSUME NEW k \in 1 .. Len(b), b[k] = 0
      PROVE  \E a \in Seq(Nat) : [q EXCEPT !.qlink[k] = m.id] = [q EXCEPT !.qlink = a] /\ Holds(a, I \cup {m.id})
  <2>1. PICK x : x = b
    OBVIOUS
  <2>2. Holds(x, I) /\ id \notin I /\ id # 0 /\ k \in 1 .. Len(x) /\ x[k] = 0
    BY <1>1, <1>4, <1>5, <2>1
  <2>3. Holds([x EXCEPT ![k] = id], I \cup {id})
    <3> HIDE <1>4, <2>1
    <3> QED BY <2>2, HoldsFill
  <2> DEFINE a == [b EXCEPT ![k] = m.id]
  <2>4. [q EXCEPT !.qlink[k] = m.id] = [q EXCEPT !.qlink = a]
    OBVIOUS
  <2>5. Holds(a, I \cup {m.id})
    BY <1>4, <2>1, <2>3
  <2> HIDE DEF a
  <2>6. a \in Seq(Nat)
    BY <2>5 DEF Holds
  <2> QED BY <2>4, <2>5, <2>6
<1>6. CASE place.fill
  BY <1>2, <1>3, <1>5, <1>6 DEF r
<1>7. CASE ~place.fill /\ at = Len(b) + 1
  <2>1. Holds(Append(b, m.id), I \cup {m.id})
    BY <1>1, HoldsAppend
  <2>2. Append(b, m.id) \in Seq(Nat)
    BY <2>1 DEF Holds
  <2>3. r = [q EXCEPT !.qlink = Append(b, m.id)]
    BY <1>3, <1>7
  <2> QED BY <2>1, <2>2, <2>3 DEF r
<1>8. CASE ~place.fill /\ at # Len(b) + 1 /\ ~HintOk(q, at, m)
  BY <1>3, <1>8 DEF r
<1>9. CASE ~place.fill /\ at # Len(b) + 1 /\ HintOk(q, at, m)
  <2>1. at \in 1 .. Len(b)
    BY <1>1, <1>9 DEF HintOk
  <2>2. CASE at > 1 /\ b[at - 1] = 0
    <3>1. at - 1 \in 1 .. Len(b)
      BY <1>1, <2>1, <2>2
    <3>2. r = [q EXCEPT !.qlink[at - 1] = m.id]
      BY <1>3, <1>9, <2>2
    <3> QED BY <1>5, <2>2, <3>1, <3>2 DEF r
  <2>3. CASE ~(at > 1 /\ b[at - 1] = 0)
    <3>1. r = [q EXCEPT !.qlink = InsertAt(b, at, m.id)]
      BY <1>3, <1>9, <2>3
    <3>2. PICK x, k : x = b /\ k = at
      OBVIOUS
    <3>3. Holds(x, I) /\ id \notin I /\ id # 0 /\ k \in 1 .. Len(x) + 1
      BY <1>1, <1>4, <2>1, <3>2
    <3>4. Holds(InsertAt(x, k, id), I \cup {id})
      <4> HIDE <1>4, <3>2
      <4> QED BY <3>3, HoldsInsertAt
    <3>5. Holds(InsertAt(b, at, m.id), I \cup {m.id})
      BY <1>4, <3>2, <3>4
    <3>6. InsertAt(b, at, m.id) \in Seq(Nat)
      BY <3>5 DEF Holds
    <3> QED BY <3>1, <3>5, <3>6 DEF r
  <2> QED BY <2>2, <2>3
<1> QED BY <1>2, <1>6, <1>7, <1>8, <1>9

\* A message put: the same but for the assertions of qlink_insert().
Unmoved(q, r) ==
    /\ r.linked = q.linked /\ r.flowc = q.flowc /\ r.swift = q.swift /\ r.discard = q.discard
    /\ r.closing = q.closing /\ r.qwait = q.qwait /\ r.ev = q.ev /\ r.srv = q.srv
    /\ r.down = q.down

Inserted(q, r, m) ==
    /\ Len(r.queue) = Len(q.queue) + 1 /\ r.queue # <<>> /\ r.size = q.size + m.left
    /\ Unmoved(q, r) /\ r.torn = q.torn /\ r.room = q.room
    /\ ~q.linked => r.abort = q.abort
    /\ Says(r.queue, r.told) = IF IsHops(m) THEN m.kind.name ELSE Says(q.queue, q.told)

\* A message that can be put in the list.
Puttable(q, m) ==
    /\ m \in Messages /\ m.id \notin Ids(q.queue) /\ m.left <= m.kind.size
    /\ Unread(m) \/ q.queue = <<>>

\* The list once a message is put.
LEMMA ListPut ==
    ASSUME NEW q, Ledger(q), NEW m, Puttable(q, m)
    PROVE  LET t == InsertAt(q.queue, PlaceOf(q, m), m)
               p == WithList(q, t, q.qlink, q.size + m.left)
           IN  /\ p = [q EXCEPT !.queue = t, !.size = q.size + m.left]
               /\ Ledger(p) /\ p.queue = t /\ p.qlink = q.qlink /\ p.size = q.size + m.left
               /\ Len(t) = Len(q.queue) + 1 /\ t # <<>> /\ Ids(t) = Ids(q.queue) \cup {m.id}
               /\ Steady(q, p) /\ p.told = q.told /\ p.torn = q.torn /\ p.room = q.room
               /\ Says(t, q.told) = IF IsHops(m) THEN m.kind.name ELSE Says(q.queue, q.told)
<1> DEFINE s == q.queue
           k == PlaceOf(q, m)
           t == InsertAt(s, k, m)
           z == q.size + m.left
           p == WithList(q, t, q.qlink, z)
<1>1. q \in Queues /\ Listed(s) /\ q.size = Bytes(s) /\ q.size \in Nat /\ q.qlink \in Seq(Nat)
  BY QueueType DEF Ledger
<1>2. /\ m \in Messages /\ m.id \notin Ids(s) /\ m.left <= m.kind.size /\ (Unread(m) \/ s = <<>>)
      /\ m.left \in Nat
  BY MessageType DEF Puttable
<1>3. PlaceOK(s, m, k)
  BY <1>1, <1>2, PlaceProperty
<1>4. k \in 1 .. Len(s) + 1
  BY <1>3 DEF PlaceOK
<1> HIDE DEF k
<1>5. /\ Listed(t) /\ Len(t) = Len(s) + 1 /\ Range(t) = Range(s) \cup {m} /\ m \notin Range(s)
      /\ Ids(t) = Ids(s) \cup {m.id} /\ t[k] = m /\ k \in 1 .. Len(t)
      /\ \A i \in 1 .. k - 1 : t[i] = s[i]
      /\ \A i \in k + 1 .. Len(t) : t[i] = s[i - 1]
  <2>1. PICK x : x = s
    OBVIOUS
  <2>2. Listed(x) /\ k \in 1 .. Len(x) + 1 /\ PlaceOK(x, m, k) /\ m.id \notin Ids(x) /\ (Unread(m) \/ x = <<>>)
    BY <1>1, <1>2, <1>3, <1>4, <2>1
  <2>3. m \in Messages /\ m.left <= m.kind.size
    BY <1>2
  <2>4. LET y == InsertAt(x, k, m)
        IN  /\ Listed(y) /\ Len(y) = Len(x) + 1 /\ Range(y) = Range(x) \cup {m} /\ m \notin Range(x)
            /\ Ids(y) = Ids(x) \cup {m.id} /\ y[k] = m /\ k \in 1 .. Len(y)
            /\ \A i \in 1 .. k - 1 : y[i] = x[i]
            /\ \A i \in k + 1 .. Len(y) : y[i] = x[i - 1]
    <3> HIDE <1>1, <1>2, <2>1
    <3> QED BY <2>2, <2>3, ListInsert
  <2> QED BY <2>1, <2>4
<1> HIDE DEF t
<1>6. s \in Seq(Messages) /\ t \in Seq(Messages) /\ Len(s) \in Nat
  BY <1>1, <1>5 DEF Listed
<1>7. Bytes(t) = z /\ z \in Nat
  <2>1. Bytes(t) = Bytes(s) + m.left
    BY <1>1, <1>2, <1>5, BytesInsert
  <2> QED BY <1>1, <1>2, <2>1
<1> HIDE DEF z, p
<1>8. /\ p \in Queues /\ p.queue = t /\ p.qlink = q.qlink /\ p.size = z
      /\ Steady(q, p) /\ p.told = q.told /\ p.torn = q.torn /\ p.room = q.room
  BY <1>1, <1>6, <1>7, SetList DEF p
<1>9. Ledger(p)
  BY <1>5, <1>7, <1>8 DEF Ledger
<1>10. ASSUME IsHops(m) PROVE Says(t, q.told) = m.kind.name
  <2>1. PICK x, y : x = s /\ y = t
    OBVIOUS
  <2>2. /\ x \in Seq(Messages) /\ y \in Seq(Messages) /\ PlaceOK(x, m, k) /\ Len(y) = Len(x) + 1
        /\ k \in 1 .. Len(y) /\ y[k] = m
    BY <1>3, <1>5, <1>6, <2>1
  <2>3. \A i \in 1 .. k - 1 : y[i] = x[i]
    BY <1>5, <2>1
  <2>4. m \in Messages
    BY <1>2
  <2>5. Says(y, q.told) = m.kind.name
    <3> HIDE <1>5, <2>1
    <3> QED BY <1>10, <2>2, <2>3, <2>4, SaysInserted
  <2> QED BY <1>10, <2>1, <2>5
<1>11. ASSUME ~IsHops(m) PROVE Says(t, q.told) = Says(s, q.told)
  <2>1. PICK x, y : x = s /\ y = t
    OBVIOUS
  <2>2. /\ x \in Seq(Messages) /\ y \in Seq(Messages) /\ Len(x) = Len(y) - 1
        /\ k \in 1 .. Len(y) /\ ~IsHops(y[k])
    BY <1>5, <1>6, <1>11, <2>1
  <2>3. \A i \in 1 .. k - 1 : x[i] = y[i]
    BY <1>5, <2>1
  <2>4. \A i \in k + 1 .. Len(y) : x[i - 1] = y[i]
    BY <1>5, <2>1
  <2>5. Says(y, q.told) = Says(x, q.told)
    <3> HIDE <1>5, <2>1
    <3> QED BY <2>2, <2>3, <2>4, SaysSkip
  <2> QED BY <1>11, <2>1, <2>5
<1>12. p = [q EXCEPT !.queue = t, !.size = z]
  BY <1>1 DEF p, WithList, Queues
<1>13. t # <<>>
  BY <1>5, <1>6
<1>14. p = [q EXCEPT !.queue = t, !.size = q.size + m.left] /\ p.size = q.size + m.left
  BY <1>8, <1>12 DEF z
<1>15. Says(t, q.told) = IF IsHops(m) THEN m.kind.name ELSE Says(s, q.told)
  BY <1>10, <1>11
<1>16. Len(t) = Len(s) + 1 /\ Ids(t) = Ids(s) \cup {m.id}
  BY <1>5
<1>17. p = WithList(q, t, q.qlink, q.size + m.left)
  BY DEF p, z
<1> HIDE <1>5
<1> QED BY <1>8, <1>9, <1>13, <1>14, <1>15, <1>16, <1>17 DEF t, k

\* A message put in the queue.
LEMMA EnqueueProperty ==
    ASSUME NEW q, Books(q), ~q.abort, NEW m, Puttable(q, m), NEW offset \in Nat
    PROVE  LET r == Enqueue(q, m, offset)
           IN  Books(r) /\ Inserted(q, r, m)
<1> DEFINE t == InsertAt(q.queue, PlaceOf(q, m), m)
           p == WithList(q, t, q.qlink, q.size + m.left)
           r == Enqueue(q, m, offset)
<1>0. Ledger(q) /\ Arrayed(q) /\ q \in Queues /\ q.linked \in BOOLEAN
  BY QueueType DEF Books, Ledger
<1>1. /\ p = [q EXCEPT !.queue = t, !.size = q.size + m.left]
      /\ Ledger(p) /\ p.queue = t /\ p.qlink = q.qlink /\ p.size = q.size + m.left
      /\ Len(t) = Len(q.queue) + 1 /\ t # <<>> /\ Ids(t) = Ids(q.queue) \cup {m.id}
      /\ Steady(q, p) /\ p.told = q.told /\ p.torn = q.torn /\ p.room = q.room
      /\ Says(t, q.told) = IF IsHops(m) THEN m.kind.name ELSE Says(q.queue, q.told)
  BY <1>0, ListPut
<1>2. r = Linked([q EXCEPT !.queue = t, !.size = q.size + m.left], m, offset)
  BY DEF Enqueue
<1>3. m \in Messages /\ m.id \notin Ids(q.queue)
  BY DEF Puttable
<1> HIDE DEF p, t, r
<1>4. r = Linked(p, m, offset)
  BY <1>1, <1>2
<1>5. p \in Queues /\ p.linked = q.linked /\ p.abort = q.abort /\ Listed(p.queue)
  BY <1>1 DEF Ledger, Steady
<1>6. CASE ~q.linked
  <2>1. r = p
    BY <1>4, <1>5, <1>6 DEF Linked
  <2>2. Books(r)
    BY <1>0, <1>1, <1>5, <1>6, <2>1 DEF Books, Arrayed
  <2>3. Inserted(q, r, m)
    BY <1>1, <2>1 DEF Inserted, Unmoved, Steady
  <2> QED BY <2>2, <2>3 DEF r
<1>7. CASE q.linked
  <2> DEFINE place == IF offset # 0 THEN [fill |-> FALSE, at |-> offset] ELSE qlink_place(p, m)
             I == Ids(q.queue)
  <2>1. r = qlink_insert(p, m, place)
    BY <1>4, <1>5, <1>7 DEF Linked
  <2>2. Holds(p.qlink, I) /\ I \in SUBSET Ids(p.queue)
    BY <1>0, <1>1, <1>7 DEF Arrayed
  <2>3. 0 \notin I
    BY <1>0, IdsType DEF Ledger
  <2>4. FillsNull(p, place)
    <3>1. CASE offset # 0
      <4>1. place = [fill |-> FALSE, at |-> offset]
        BY <3>1
      <4> HIDE DEF place
      <4> QED BY <4>1 DEF FillsNull
    <3>2. CASE offset = 0
      <4>1. place = qlink_place(p, m)
        BY <3>2
      <4> HIDE DEF place, I
      <4> QED BY <1>1, <1>3, <2>2, <4>1, PlaceInArray
    <3> QED BY <3>1, <3>2
  <2>5. m.id \notin I
    BY <1>3
  <2>6. Ids(p.queue) = I \cup {m.id}
    BY <1>1
  <2> HIDE DEF place, I
  <2>7. \/ r = [p EXCEPT !.abort = TRUE]
        \/ \E a \in Seq(Nat) : r = [p EXCEPT !.qlink = a] /\ Holds(a, I \cup {m.id})
    BY <1>1, <1>3, <2>1, <2>2, <2>3, <2>4, <2>5, ArrayInsert
  <2>8. CASE r = [p EXCEPT !.abort = TRUE]
    <3>1. /\ r \in Queues /\ r.queue = p.queue /\ r.size = p.size /\ r.abort = TRUE /\ Unmoved(p, r)
          /\ r.told = p.told /\ r.torn = p.torn /\ r.room = p.room
      BY <1>5, <2>8 DEF Queues, Unmoved
    <3>2. Books(r)
      <4>1. Ledger(r)
        BY <1>1, <3>1 DEF Ledger
      <4>2. r.linked = q.linked
        BY <1>5, <3>1 DEF Unmoved
      <4> QED BY <1>7, <3>1, <4>1, <4>2 DEF Books, Arrayed
    <3>3. Inserted(q, r, m)
      BY <1>1, <1>7, <3>1, ZenonT(60) DEF Inserted, Unmoved, Steady
    <3> QED BY <3>2, <3>3 DEF r
  <2>9. CASE \E a \in Seq(Nat) : r = [p EXCEPT !.qlink = a] /\ Holds(a, I \cup {m.id})
    <3>0. PICK a \in Seq(Nat) : r = [p EXCEPT !.qlink = a] /\ Holds(a, I \cup {m.id})
      BY <2>9
    <3>1. /\ r \in Queues /\ r.queue = p.queue /\ r.size = p.size /\ r.abort = p.abort /\ Unmoved(p, r)
          /\ r.told = p.told /\ r.torn = p.torn /\ r.room = p.room /\ r.qlink = a
      BY <1>5, <3>0 DEF Queues, Unmoved
    <3>2. Books(r)
      <4>1. Ledger(r)
        BY <1>1, <3>1 DEF Ledger
      <4>2. r.linked = q.linked /\ Holds(r.qlink, Ids(r.queue))
        BY <1>5, <2>6, <3>0, <3>1 DEF Unmoved
      <4> QED BY <1>7, <3>1, <4>1, <4>2 DEF Books, Arrayed
    <3>3. Inserted(q, r, m)
      BY <1>1, <1>7, <3>1 DEF Inserted, Unmoved, Steady
    <3> QED BY <3>2, <3>3 DEF r
  <2> QED BY <2>7, <2>8, <2>9
<1> QED BY <1>0, <1>6, <1>7

----------------------------------------------------------------------------
(* Flow control.                                                           *)

\* The watermarks leave room for the message that ends flow control.
LEMMA Watermarks ==
    /\ lowat \in Nat /\ hiwat \in Nat /\ hiwat <= MaxSize /\ lowat < hiwat
    /\ HopsFlow255.size \in Nat /\ lowat + HopsFlow255.size < hiwat
    /\ HopsFlow0 \in AllKinds /\ HopsFlow255 \in AllKinds /\ MaxSize \in Nat
<1>1. HopsFlow0 \in AllKinds /\ HopsFlow255 \in AllKinds
  BY DEF AllKinds
<1>2. HopsFlow255 \in KindType
  BY <1>1, MqAssumption
<1>3. HopsFlow255.size \in Nat
  BY <1>2 DEF KindType
<1>4. MaxSize \in Nat /\ lowat + HopsFlow255.size < hiwat
  BY MqAssumption
<1>5. lowat \in Nat /\ hiwat \in Nat /\ hiwat <= MaxSize
  BY <1>4 DEF lowat, hiwat
<1> QED BY <1>1, <1>3, <1>4, <1>5

\* What the peer is told agrees with the flow control, x being what it is told
\* once the messages set aside are put.
PeerOK(q, x) ==
    /\ \A i \in 1 .. Len(q.qwait) : q.qwait[i] \in HopsFlows
    /\ (IF q.qwait = <<>> THEN x ELSE q.qwait[Len(q.qwait)].name) = FlowName(q)

Flow(q) == FlowBounds(q) /\ FlowEvent(q)

\* What flow control does not touch.
Kept(q, r) ==
    /\ r.queue = q.queue /\ r.size = q.size /\ r.abort = q.abort /\ r.torn = q.torn
    /\ r.told = q.told /\ r.room = q.room /\ r.srv = q.srv /\ r.closing = q.closing
    /\ r.discard = q.discard /\ r.down = q.down

\* A Hops-Flow message set aside.
LEMMA PutEntered ==
    ASSUME NEW q \in Queues, NEW k \in AllKinds
    PROVE  LET r == PutHopsFlow(q, k, TRUE)
           IN  /\ r \in Queues /\ Kept(q, r)
               /\ r.linked = q.linked /\ r.qlink = q.qlink /\ r.flowc = q.flowc
               /\ r.swift = q.swift /\ r.ev = q.ev
               /\ r.qwait = IF q.discard THEN q.qwait ELSE Append(q.qwait, k)
<1> DEFINE r == PutHopsFlow(q, k, TRUE)
<1>1. r = IF q.discard THEN q ELSE [q EXCEPT !.qwait = Append(q.qwait, k)]
  BY DEF PutHopsFlow
<1>2. q.qwait \in Seq(AllKinds) /\ q.discard \in BOOLEAN
  BY QueueType
<1>3. PICK w \in Seq(AllKinds) : w = Append(q.qwait, k)
  BY <1>2, AppendShape
<1> HIDE DEF r
<1>4. CASE q.discard
  BY <1>1, <1>4 DEF Kept, r
<1>5. CASE ~q.discard
  <2>1. r = [q EXCEPT !.qwait = w]
    BY <1>1, <1>3, <1>5
  <2>2. /\ r \in Queues /\ r.linked = q.linked /\ r.qlink = q.qlink /\ r.flowc = q.flowc
        /\ r.swift = q.swift /\ r.ev = q.ev /\ r.qwait = w
    BY <2>1 DEF Queues
  <2>3. Kept(q, r)
    BY <2>1 DEF Queues, Kept
  <2> QED BY <1>3, <1>5, <2>2, <2>3 DEF r
<1> QED BY <1>2, <1>4, <1>5

\* The last of the messages set aside tells the state of flow control.
LEMMA PeerAppend ==
    ASSUME NEW q, NEW r, NEW x, NEW h \in HopsFlows, q.qwait \in Seq(AllKinds), PeerOK(q, x),
           r.qwait = Append(q.qwait, h), h.name = FlowName(r)
    PROVE  PeerOK(r, x)
<1>1. h \in AllKinds
  BY HopsKinds
<1>2. PICK v \in Seq(AllKinds), w \in Seq(AllKinds) : v = q.qwait /\ w = Append(v, h)
  BY <1>1, AppendShape
<1>3. /\ w \in Seq(AllKinds) /\ Len(w) = Len(v) + 1 /\ w[Len(v) + 1] = h /\ w # <<>>
      /\ \A i \in 1 .. Len(v) : w[i] = v[i]
  BY <1>1, <1>2, AppendShape
<1>4. \A i \in 1 .. Len(v) : v[i] \in HopsFlows
  BY <1>2 DEF PeerOK
<1>5. ASSUME NEW i \in 1 .. Len(w) PROVE w[i] \in HopsFlows
  <2>1. Len(v) \in Nat /\ (i = Len(v) + 1 \/ i \in 1 .. Len(v))
    BY <1>3
  <2> QED BY <1>3, <1>4, <2>1
<1>6. r.qwait = w
  BY <1>2
<1> QED BY <1>3, <1>5, <1>6 DEF PeerOK

\* The array freed, and flow control left.
LEMMA FreeProperty ==
    ASSUME NEW q \in Queues
    PROVE  LET r == qlink_free(q)
           IN  /\ r \in Queues /\ Kept(q, r) /\ r.linked = FALSE /\ r.qlink = <<>>
               /\ r.flowc = q.flowc /\ r.swift = q.swift /\ r.ev = q.ev /\ r.qwait = q.qwait
<1> DEFINE r == qlink_free(q)
<1>0. <<>> \in Seq(Nat)
  OBVIOUS
<1>1. PICK e \in Seq(Nat) : e = <<>>
  BY <1>0, Zenon
<1>2. r = [q EXCEPT !.linked = FALSE, !.qlink = e]
  BY <1>1 DEF qlink_free
<1> HIDE DEF r
<1>3. r \in Queues /\ r.qlink = e
  BY <1>2 DEF Queues
<1>4. /\ Kept(q, r) /\ r.linked = FALSE
      /\ r.flowc = q.flowc /\ r.swift = q.swift /\ r.ev = q.ev /\ r.qwait = q.qwait
  BY <1>2 DEF Queues, Kept
<1> QED BY <1>1, <1>3, <1>4 DEF r

\* Leaving flow control frees the array and cancels the event.
LEMMA LeaveProperty ==
    ASSUME NEW q \in Queues
    PROVE  LET p == [qlink_free(q) EXCEPT !.flowc = FALSE, !.swift = FALSE, !.ev = "none"]
           IN  /\ p \in Queues /\ Kept(q, p) /\ p.linked = FALSE /\ p.qlink = <<>> /\ p.flowc = FALSE
               /\ p.swift = FALSE /\ p.ev = "none" /\ p.qwait = q.qwait
<1> DEFINE r == qlink_free(q)
           p == [r EXCEPT !.flowc = FALSE, !.swift = FALSE, !.ev = "none"]
<1>1. /\ r \in Queues /\ Kept(q, r) /\ r.linked = FALSE /\ r.qlink = <<>>
      /\ r.flowc = q.flowc /\ r.swift = q.swift /\ r.ev = q.ev /\ r.qwait = q.qwait
  BY FreeProperty
<1> HIDE DEF r
<1>2. p \in Queues /\ p.flowc = FALSE /\ p.swift = FALSE /\ p.ev = "none"
  BY <1>1 DEF Queues
<1>3. Kept(r, p) /\ p.linked = r.linked /\ p.qlink = r.qlink /\ p.qwait = r.qwait
  BY <1>1 DEF Queues, Kept
<1> HIDE DEF p
<1>4. Kept(q, p)
  BY <1>1, <1>3 DEF Kept
<1> QED BY <1>1, <1>2, <1>3, <1>4 DEF p, r

\* Flow control while mq_tcp_putq() is running.
LEMMA UpdateEntered ==
    ASSUME NEW q, Books(q)
    PROVE  LET r == mq_update_flowc(q, TRUE)
           IN  /\ Books(r) /\ Kept(q, r) /\ (FlowEvent(q) => Flow(r))
               /\ \A x : PeerOK(q, x) /\ ~q.discard => PeerOK(r, x)
<1> DEFINE r == mq_update_flowc(q, TRUE)
<1>1. Ledger(q) /\ Arrayed(q) /\ q \in Queues /\ Listed(q.queue) /\ q.size = Bytes(q.queue)
  BY DEF Books, Ledger
<1>2. /\ q.flowc \in BOOLEAN /\ q.size \in Nat /\ q.discard \in BOOLEAN /\ q.qwait \in Seq(AllKinds)
      /\ q.ev \in {"none", "enter", "timer"} /\ q.swift \in BOOLEAN
  BY <1>1, QueueType
<1>3. r = CASE q.flowc ->
                 IF q.size <= lowat /\ mq_tcp_flushed(q)
                 THEN [mq_leave_flowc(q, TRUE) EXCEPT !.warn = FALSE] ELSE q
            [] ~q.flowc /\ q.size >= hiwat -> [mq_enter_flowc(q, TRUE) EXCEPT !.warn = TRUE]
            [] ~q.flowc /\ q.size < hiwat -> [q EXCEPT !.warn = q.size >= lowat]
  BY DEF mq_update_flowc
<1> HIDE DEF r
<1>4. CASE q.flowc /\ ~(q.size <= lowat /\ mq_tcp_flushed(q))
  <2>1. r = q
    BY <1>3, <1>4
  <2>2. FlowEvent(q) => Flow(r)
    BY <1>2, <1>4, <2>1, Watermarks DEF Flow, FlowBounds
  <2> QED BY <2>1, <2>2 DEF Kept, r
<1>5. CASE q.flowc /\ q.size <= lowat /\ mq_tcp_flushed(q)
  <2> DEFINE p == [qlink_free(q) EXCEPT !.flowc = FALSE, !.swift = FALSE, !.ev = "none"]
             u == PutHopsFlow(p, HopsFlow255, TRUE)
  <2>1. r = [u EXCEPT !.warn = FALSE]
    BY <1>3, <1>5 DEF mq_leave_flowc
  <2>2. /\ p \in Queues /\ Kept(q, p) /\ p.linked = FALSE /\ p.qlink = <<>> /\ p.flowc = FALSE
        /\ p.swift = FALSE /\ p.ev = "none" /\ p.qwait = q.qwait
    BY <1>1, LeaveProperty
  <2> HIDE DEF p
  <2>3. /\ u \in Queues /\ Kept(p, u)
        /\ u.linked = p.linked /\ u.qlink = p.qlink /\ u.flowc = p.flowc /\ u.swift = p.swift /\ u.ev = p.ev
        /\ u.qwait = IF p.discard THEN p.qwait ELSE Append(p.qwait, HopsFlow255)
    BY <2>2, PutEntered, Watermarks
  <2> HIDE DEF u
  <2>4. /\ r \in Queues /\ Kept(u, r) /\ r.linked = u.linked /\ r.qlink = u.qlink /\ r.flowc = u.flowc
        /\ r.swift = u.swift /\ r.ev = u.ev /\ r.qwait = u.qwait
    BY <2>1, <2>3 DEF Queues, Kept
  <2>5. /\ Kept(q, r) /\ r.linked = FALSE /\ r.qlink = <<>> /\ r.flowc = FALSE /\ r.swift = FALSE
        /\ r.ev = "none" /\ r.qwait = IF q.discard THEN q.qwait ELSE Append(q.qwait, HopsFlow255)
    BY <2>2, <2>3, <2>4 DEF Kept
  <2>6. Books(r)
    BY <1>1, <2>4, <2>5 DEF Books, Ledger, Arrayed, Kept
  <2>7. Flow(r)
    <3>1. r.size <= lowat /\ r.size \in Nat
      BY <1>2, <1>5, <2>5 DEF Kept
    <3>2. ~(r.size >= hiwat)
      BY <3>1, Watermarks
    <3> QED BY <2>5, <3>2 DEF Flow, FlowBounds, FlowEvent
  <2>8. ASSUME NEW x, PeerOK(q, x), ~q.discard PROVE PeerOK(r, x)
    <3>1. HopsFlow255 \in HopsFlows /\ HopsFlow255.name = FlowName(r)
      BY <2>5 DEF HopsFlows, FlowName
    <3>2. r.qwait = Append(q.qwait, HopsFlow255)
      BY <2>5, <2>8
    <3> QED BY <1>2, <2>8, <3>1, <3>2, PeerAppend
  <2> QED BY <2>5, <2>6, <2>7, <2>8 DEF r
<1>6. CASE ~q.flowc /\ q.size >= hiwat
  <2> DEFINE p == [q EXCEPT !.flowc = TRUE, !.ev = "enter"]
             u == PutHopsFlow(p, HopsFlow0, TRUE)
  <2>1. r = [u EXCEPT !.warn = TRUE]
    <3>1. ~(q.size < hiwat)
      BY <1>2, <1>6, Watermarks
    <3>2. r = [mq_enter_flowc(q, TRUE) EXCEPT !.warn = TRUE]
      BY <1>3, <1>6, <3>1
    <3> QED BY <3>2 DEF mq_enter_flowc
  <2>2. /\ p \in Queues /\ Kept(q, p) /\ p.linked = q.linked /\ p.qlink = q.qlink /\ p.flowc = TRUE
        /\ p.swift = q.swift /\ p.ev = "enter" /\ p.qwait = q.qwait
    BY <1>1 DEF Queues, Kept
  <2> HIDE DEF p
  <2>3. /\ u \in Queues /\ Kept(p, u)
        /\ u.linked = p.linked /\ u.qlink = p.qlink /\ u.flowc = p.flowc /\ u.swift = p.swift /\ u.ev = p.ev
        /\ u.qwait = IF p.discard THEN p.qwait ELSE Append(p.qwait, HopsFlow0)
    BY <2>2, PutEntered, Watermarks
  <2> HIDE DEF u
  <2>4. /\ r \in Queues /\ Kept(u, r) /\ r.linked = u.linked /\ r.qlink = u.qlink /\ r.flowc = u.flowc
        /\ r.swift = u.swift /\ r.ev = u.ev /\ r.qwait = u.qwait
    BY <2>1, <2>3 DEF Queues, Kept
  <2>5. /\ Kept(q, r) /\ r.linked = q.linked /\ r.qlink = q.qlink /\ r.flowc = TRUE /\ r.swift = q.swift
        /\ r.ev = "enter" /\ r.qwait = IF q.discard THEN q.qwait ELSE Append(q.qwait, HopsFlow0)
    BY <2>2, <2>3, <2>4 DEF Kept
  <2>6. Books(r)
    BY <1>1, <2>4, <2>5 DEF Books, Ledger, Arrayed, Kept
  <2>7. FlowEvent(q) => Flow(r)
    <3>1. r.size > lowat
      BY <1>2, <1>6, <2>5, Watermarks DEF Kept
    <3> QED BY <1>6, <2>5, <3>1 DEF Flow, FlowBounds, FlowEvent
  <2>8. ASSUME NEW x, PeerOK(q, x), ~q.discard PROVE PeerOK(r, x)
    <3>1. HopsFlow0 \in HopsFlows /\ HopsFlow0.name = FlowName(r)
      BY <2>5 DEF HopsFlows, FlowName
    <3>2. r.qwait = Append(q.qwait, HopsFlow0)
      BY <2>5, <2>8
    <3> QED BY <1>2, <2>8, <3>1, <3>2, PeerAppend
  <2> QED BY <2>5, <2>6, <2>7, <2>8 DEF r
<1>7. CASE ~q.flowc /\ q.size < hiwat
  <2>0. ~(q.size >= hiwat)
    BY <1>2, <1>7, Watermarks
  <2>1. r = [q EXCEPT !.warn = q.size >= lowat]
    BY <1>3, <1>7, <2>0
  <2>2. /\ r \in Queues /\ Kept(q, r) /\ r.linked = q.linked /\ r.qlink = q.qlink /\ r.flowc = q.flowc
        /\ r.swift = q.swift /\ r.ev = q.ev /\ r.qwait = q.qwait
    <3>1. PICK w \in BOOLEAN : w <=> (q.size >= lowat)
      OBVIOUS
    <3>2. r = [q EXCEPT !.warn = w]
      BY <2>1, <3>1
    <3> QED BY <1>1, <3>2 DEF Queues, Kept
  <2>3. Books(r)
    BY <1>1, <2>2 DEF Books, Ledger, Arrayed, Kept
  <2>4. FlowEvent(q) => Flow(r)
    BY <1>7, <2>0, <2>2 DEF Flow, FlowBounds, FlowEvent, Kept
  <2>5. \A x : PeerOK(q, x) => PeerOK(r, x)
    BY <2>2 DEF PeerOK, FlowName
  <2> QED BY <2>2, <2>3, <2>4, <2>5 DEF r
<1>8. q.size >= hiwat \/ q.size < hiwat
  BY <1>2, Watermarks
<1> QED BY <1>2, <1>4, <1>5, <1>6, <1>7, <1>8

\* What tx_write() accepts.
LEMMA WrittenProperty ==
    ASSUME NEW q \in Queues, NEW m \in Messages
    PROVE  /\ Written(q, m) \in Nat /\ Written(q, m) <= m.left /\ Written(q, m) <= q.room
           /\ q.queue # <<>> => Written(q, m) = 0
<1>1. q.room \in Nat /\ m.left \in Nat
  BY QueueType, MessageType, MqAssumption
<1>2. CASE q.queue = <<>>
  <2>1. PICK S : S = {q.room, m.left}
    OBVIOUS
  <2>2. S \subseteq Nat /\ S # {} /\ q.room \in S /\ m.left \in S /\ \A x \in S : x \in Nat
    BY <1>1, <2>1
  <2>3. Min(S) \in S /\ \A x \in S : Min(S) <= x
    BY <2>2, MinProperty
  <2>4. Written(q, m) = Min(S)
    BY <1>2, <2>1 DEF Written
  <2> QED BY <1>2, <2>2, <2>3, <2>4
<1>3. CASE q.queue # <<>>
  BY <1>1, <1>3 DEF Written
<1> QED BY <1>2, <1>3

\* The bytes accepted by the TX stack, and a message wholly accepted.
LEMMA AcceptProperty ==
    ASSUME NEW q, Books(q), NEW w \in Nat, w <= q.room
    PROVE  LET r == [q EXCEPT !.room = @ - w]
           IN  /\ Books(r) /\ r.room = q.room - w /\ r.queue = q.queue /\ r.size = q.size
               /\ Steady(q, r) /\ r.torn = q.torn /\ r.told = q.told /\ r.qlink = q.qlink
<1> DEFINE r == [q EXCEPT !.room = @ - w]
<1>1. q \in Queues /\ q.room \in 0 .. MaxRoom /\ MaxRoom \in Nat
  BY QueueType, MqAssumption DEF Books, Ledger
<1>2. PICK z \in 0 .. MaxRoom : z = q.room - w
  BY <1>1
<1>3. r = [q EXCEPT !.room = z]
  BY <1>2
<1> HIDE DEF r
<1>4. r \in Queues /\ r.room = z /\ r.queue = q.queue /\ r.size = q.size
  BY <1>1, <1>3 DEF Queues
<1>5. Steady(q, r) /\ r.torn = q.torn /\ r.told = q.told /\ r.qlink = q.qlink
  BY <1>1, <1>3 DEF Queues, Steady
<1>6. Books(r)
  BY <1>4, <1>5 DEF Books, Ledger, Arrayed, Steady
<1> QED BY <1>2, <1>4, <1>5, <1>6 DEF r

\* What was written in full is known to the peer.
LEMMA DeliveredProperty ==
    ASSUME NEW q, Books(q), NEW m \in Messages
    PROVE  LET r == Delivered(q, m)
           IN  /\ Books(r) /\ r.room = q.room /\ r.queue = q.queue /\ r.size = q.size
               /\ Steady(q, r) /\ r.torn = q.torn /\ r.qlink = q.qlink
               /\ r.told = IF IsHops(m) THEN m.kind.name ELSE q.told
<1> DEFINE r == Delivered(q, m)
<1>1. q \in Queues /\ q.told \in STRING /\ m.kind.name \in STRING
  BY QueueType, MessageType DEF Books, Ledger
<1>2. PICK z \in STRING : z = IF IsHops(m) THEN m.kind.name ELSE q.told
  BY <1>1
<1>3. r = [q EXCEPT !.told = z]
  BY <1>2 DEF Delivered, IsHops
<1> HIDE DEF r
<1>4. r \in Queues /\ r.told = z /\ r.queue = q.queue /\ r.size = q.size
  BY <1>1, <1>3 DEF Queues
<1>5. Steady(q, r) /\ r.torn = q.torn /\ r.room = q.room /\ r.qlink = q.qlink
  BY <1>1, <1>3 DEF Queues, Steady
<1>6. Books(r)
  BY <1>4, <1>5 DEF Books, Ledger, Arrayed, Steady
<1> QED BY <1>2, <1>4, <1>5, <1>6 DEF r

\* What is left of a message not wholly accepted is put in the list.
LEMMA RestProperty ==
    ASSUME NEW q \in Queues, NEW m \in Messages, m.id \notin Ids(q.queue), Unread(m), Written(q, m) # m.left
    PROVE  LET rest == [m EXCEPT !.left = @ - Written(q, m)]
           IN  /\ Puttable(q, rest) /\ rest.kind = m.kind /\ rest.left = m.left - Written(q, m)
               /\ rest.id = m.id /\ rest.left <= m.kind.size
<1> DEFINE rest == [m EXCEPT !.left = @ - Written(q, m)]
<1>1. PICK w : w = Written(q, m)
  OBVIOUS
<1>2. /\ m.left \in Nat \ {0} /\ m.kind.size \in Nat /\ w \in Nat /\ w <= m.left /\ w # m.left
      /\ (q.queue # <<>> => w = 0) /\ m.left = m.kind.size
  BY <1>1, WrittenProperty, MessageType DEF Unread
<1>3. PICK z \in Nat \ {0} : z = m.left - w
  BY <1>2
<1>4. rest = [m EXCEPT !.left = z]
  BY <1>1, <1>3
<1>5. rest \in Messages /\ rest.left = z /\ rest.kind = m.kind /\ rest.id = m.id
  BY <1>4 DEF Messages
<1> HIDE DEF rest
<1>6. rest.left <= rest.kind.size /\ (Unread(rest) \/ q.queue = <<>>)
  BY <1>2, <1>3, <1>5 DEF Unread
<1>7. Puttable(q, rest)
  BY <1>5, <1>6 DEF Puttable
<1> QED BY <1>1, <1>3, <1>5, <1>6, <1>7 DEF rest

\* The outcome of mq_update_flowc() when mq_tcp_putq() is not running: flow control
\* goes on, or is left with a Hops-Flow message sent or put in the list.
Updated(q, r) ==
    /\ r.abort = q.abort /\ r.torn = q.torn /\ r.closing = q.closing /\ r.discard = q.discard
    /\ r.qwait = q.qwait /\ r.down = q.down
    /\ r.size >= hiwat => r.flowc
    /\ r.size <= q.size \/ r.size < hiwat
    /\ r.flowc => q.flowc /\ r.ev = q.ev /\ r.swift = q.swift /\ (r.size > lowat \/ ~mq_tcp_flushed(r))
    /\ ~r.flowc => IF q.flowc THEN r.ev = "none" /\ ~r.swift ELSE r.ev = q.ev /\ r.swift = q.swift
    /\ r.queue = <<>> => q.queue = <<>> /\ r.srv = q.srv
    /\ r.queue # <<>> => r.srv = TRUE \/ (r.srv = q.srv /\ q.queue # <<>>)
    /\ ~q.discard /\ q.qwait = <<>> /\ PeerOK(q, Says(q.queue, q.told)) => PeerOK(r, Says(r.queue, r.told))

\* The Hops-Flow message of mq_leave_flowc().
Sent(p, r) ==
    /\ Books(r) /\ r.linked = p.linked /\ r.flowc = p.flowc /\ r.swift = p.swift /\ r.ev = p.ev
    /\ r.abort = p.abort /\ r.torn = p.torn /\ r.closing = p.closing /\ r.discard = p.discard
    /\ r.qwait = p.qwait /\ r.down = p.down
    /\ r.size <= p.size + HopsFlow255.size
    /\ r.queue = <<>> => p.queue = <<>> /\ r.srv = p.srv
    /\ r.queue # <<>> => r.srv = TRUE \/ (r.srv = p.srv /\ p.queue # <<>>)
    /\ ~p.discard => Says(r.queue, r.told) = HopsFlow255.name

\* The Hops-Flow message that ends flow control is sent or queued.
LEMMA PutIdle ==
    ASSUME NEW p, Books(p), ~p.linked, ~p.abort
    PROVE  Sent(p, PutHopsFlow(p, HopsFlow255, FALSE))
<1> DEFINE m == Message(p, HopsFlow255)
           w == Written(p, m)
           q1 == [p EXCEPT !.room = @ - w]
           rest == [m EXCEPT !.left = @ - w]
           e == Enqueue(q1, rest, 0)
           r == PutHopsFlow(p, HopsFlow255, FALSE)
<1>0. HopsFlow255 \in AllKinds /\ HopsFlow255 \in HopsFlows
  BY Watermarks DEF HopsFlows
<1>1. p \in Queues /\ Listed(p.queue) /\ p.size \in Nat /\ p.discard \in BOOLEAN
  BY QueueType DEF Books, Ledger
<1>2. /\ m \in Messages /\ m.id \notin Ids(p.queue) /\ Unread(m)
      /\ m.kind = HopsFlow255 /\ m.left = HopsFlow255.size /\ HopsFlow255.size \in Nat \ {0}
  BY <1>0, <1>1, NewMessage
<1>3. r = IF p.discard THEN p
          ELSE IF w = m.left THEN Delivered(q1, m)
          ELSE [e EXCEPT !.warn = (e.size >= lowat), !.srv = TRUE]
  BY DEF PutHopsFlow
<1> HIDE DEF m, r
<1>4. w \in Nat /\ w <= m.left /\ w <= p.room /\ (p.queue # <<>> => w = 0)
  BY <1>1, <1>2, WrittenProperty
<1>5. /\ Books(q1) /\ q1.room = p.room - w /\ q1.queue = p.queue /\ q1.size = p.size
      /\ Steady(p, q1) /\ q1.torn = p.torn /\ q1.told = p.told /\ q1.qlink = p.qlink
  BY <1>4, AcceptProperty
<1>6. IsHops(m) /\ m.kind.name = HopsFlow255.name
  BY <1>0, <1>2 DEF IsHops
<1>7. w # m.left => /\ Puttable(p, rest) /\ rest.kind = m.kind /\ rest.left = m.left - w
                    /\ rest.id = m.id /\ rest.left <= m.kind.size
  BY <1>1, <1>2, RestProperty
<1> HIDE DEF w, q1, rest
<1>8. CASE p.discard
  <2>1. r = p
    BY <1>3, <1>8
  <2>2. r.size <= p.size + HopsFlow255.size
    BY <1>1, <1>2, <2>1
  <2>3. r.queue # <<>> => r.srv = TRUE \/ (r.srv = p.srv /\ p.queue # <<>>)
    BY <2>1
  <2> QED BY <1>8, <2>1, <2>2, <2>3 DEF Sent, r
<1>9. CASE ~p.discard /\ w = m.left
  <2>1. r = Delivered(q1, m)
    BY <1>3, <1>9
  <2>2. /\ Books(r) /\ r.queue = q1.queue /\ r.size = q1.size /\ Steady(q1, r) /\ r.torn = q1.torn
        /\ r.told = m.kind.name
    BY <1>2, <1>5, <1>6, <2>1, DeliveredProperty
  <2>3. p.queue = <<>>
    BY <1>2, <1>4, <1>9
  <2>4. r.queue = <<>>
    BY <1>5, <2>2, <2>3
  <2>5. Says(r.queue, r.told) = HopsFlow255.name
    <3>1. PICK s, t : s = r.queue /\ t = r.told
      OBVIOUS
    <3>2. s = <<>> /\ s \in Seq(Messages) /\ t = HopsFlow255.name
      BY <1>6, <2>2, <2>4, <3>1, QueueType DEF Ledger, Books
    <3>3. Len(s) = 0 /\ \A i \in 1 .. Len(s) : ~IsHops(s[i])
      BY <3>2
    <3>4. Says(s, t) = t
      BY <3>2, <3>3, SaysNone
    <3> QED BY <3>1, <3>2, <3>4
  <2>6. r.size <= p.size + HopsFlow255.size
    BY <1>1, <1>2, <1>5, <2>2
  <2> QED BY <1>5, <2>2, <2>3, <2>4, <2>5, <2>6 DEF Sent, Steady, r
<1>10. CASE ~p.discard /\ w # m.left
  <2>1. r = [e EXCEPT !.warn = (e.size >= lowat), !.srv = TRUE]
    BY <1>3, <1>10
  <2>2. Puttable(q1, rest)
    BY <1>5, <1>7, <1>10 DEF Puttable
  <2>3. ~q1.abort /\ ~q1.linked
    BY <1>5 DEF Steady
  <2>4. Books(e) /\ Inserted(q1, e, rest)
    BY <1>5, <2>2, <2>3, EnqueueProperty
  <2> HIDE DEF e
  <2>5. e \in Queues
    BY <2>4 DEF Books, Ledger
  <2>6. /\ r \in Queues /\ r.srv = TRUE /\ r.queue = e.queue /\ r.qlink = e.qlink /\ r.size = e.size
        /\ r.told = e.told /\ r.torn = e.torn /\ r.linked = e.linked /\ r.flowc = e.flowc
        /\ r.swift = e.swift /\ r.ev = e.ev /\ r.abort = e.abort /\ r.closing = e.closing
        /\ r.discard = e.discard /\ r.qwait = e.qwait /\ r.down = e.down
    <3>1. CASE e.size >= lowat
      <4>1. r = [e EXCEPT !.warn = TRUE, !.srv = TRUE]
        BY <2>1, <3>1
      <4> QED BY <2>5, <4>1 DEF Queues
    <3>2. CASE ~(e.size >= lowat)
      <4>0. (e.size >= lowat) = FALSE
        BY <3>2
      <4>1. r = [e EXCEPT !.warn = FALSE, !.srv = TRUE]
        BY <2>1, <4>0, Zenon
      <4> QED BY <2>5, <4>1 DEF Queues
    <3> QED BY <3>1, <3>2
  <2>7. Books(r)
    BY <2>4, <2>6 DEF Books, Ledger, Arrayed
  <2>8. IsHops(rest) /\ rest.kind.name = HopsFlow255.name
    BY <1>6, <1>7, <1>10 DEF IsHops
  <2>9. Says(r.queue, r.told) = HopsFlow255.name /\ r.queue # <<>>
    BY <2>4, <2>6, <2>8 DEF Inserted
  <2>10. r.size <= p.size + HopsFlow255.size
    <3>1. r.size = p.size + (m.left - w)
      BY <1>5, <1>7, <1>10, <2>4, <2>6 DEF Inserted
    <3> QED BY <1>1, <1>2, <1>4, <3>1
  <2>11. /\ r.linked = p.linked /\ r.flowc = p.flowc /\ r.swift = p.swift /\ r.ev = p.ev
         /\ r.abort = p.abort /\ r.torn = p.torn /\ r.closing = p.closing /\ r.discard = p.discard
         /\ r.qwait = p.qwait /\ r.down = p.down
    BY <1>5, <2>3, <2>4, <2>6 DEF Inserted, Unmoved, Steady
  <2> QED BY <2>6, <2>7, <2>9, <2>10, <2>11 DEF Sent, r
<1> QED BY <1>1, <1>8, <1>9, <1>10

\* mq_update_flowc() when nothing is being put in the queue.
LEMMA UpdateIdle ==
    ASSUME NEW q, Books(q), ~q.abort, q.size >= hiwat => q.flowc
    PROVE  LET r == mq_update_flowc(q, FALSE)
           IN  Books(r) /\ Updated(q, r)
<1> DEFINE r == mq_update_flowc(q, FALSE)
<1>1. Ledger(q) /\ Arrayed(q) /\ q \in Queues /\ Listed(q.queue) /\ q.size = Bytes(q.queue)
  BY DEF Books, Ledger
<1>2. q.flowc \in BOOLEAN /\ q.size \in Nat /\ q.srv \in BOOLEAN
  BY <1>1, QueueType
<1>3. r = CASE q.flowc ->
                 IF q.size <= lowat /\ mq_tcp_flushed(q)
                 THEN [mq_leave_flowc(q, FALSE) EXCEPT !.warn = FALSE] ELSE q
            [] ~q.flowc /\ q.size >= hiwat -> [mq_enter_flowc(q, FALSE) EXCEPT !.warn = TRUE]
            [] ~q.flowc /\ q.size < hiwat -> [q EXCEPT !.warn = q.size >= lowat]
  BY DEF mq_update_flowc
<1> HIDE DEF r
<1>4. CASE q.flowc /\ ~(q.size <= lowat /\ mq_tcp_flushed(q))
  <2>1. r = q
    BY <1>3, <1>4
  <2>2. q.size > lowat \/ ~mq_tcp_flushed(q)
    BY <1>2, <1>4, Watermarks
  <2>3. q.size <= q.size
    BY <1>2
  <2>4. Updated(q, r)
    BY <1>4, <2>1, <2>2, <2>3 DEF Updated
  <2> QED BY <2>1, <2>4 DEF r
<1>5. CASE q.flowc /\ q.size <= lowat /\ mq_tcp_flushed(q)
  <2> DEFINE p == [qlink_free(q) EXCEPT !.flowc = FALSE, !.swift = FALSE, !.ev = "none"]
             u == PutHopsFlow(p, HopsFlow255, FALSE)
  <2>1. r = [u EXCEPT !.warn = FALSE]
    BY <1>3, <1>5 DEF mq_leave_flowc
  <2>2. /\ p \in Queues /\ Kept(q, p) /\ p.linked = FALSE /\ p.qlink = <<>> /\ p.flowc = FALSE
        /\ p.swift = FALSE /\ p.ev = "none" /\ p.qwait = q.qwait
    BY <1>1, LeaveProperty
  <2> HIDE DEF p
  <2>3. Books(p)
    BY <1>1, <2>2 DEF Books, Ledger, Arrayed, Kept
  <2>4. ~p.abort /\ ~p.linked
    BY <2>2 DEF Kept
  <2>5. Sent(p, u)
    BY <2>3, <2>4, PutIdle
  <2> HIDE DEF u
  <2>6. u \in Queues
    BY <2>5 DEF Sent, Books, Ledger
  <2>7. /\ r \in Queues /\ r.queue = u.queue /\ r.qlink = u.qlink /\ r.size = u.size
        /\ r.told = u.told /\ r.torn = u.torn /\ r.linked = u.linked /\ r.flowc = u.flowc
        /\ r.swift = u.swift /\ r.ev = u.ev /\ r.abort = u.abort /\ r.closing = u.closing
        /\ r.discard = u.discard /\ r.qwait = u.qwait /\ r.down = u.down /\ r.srv = u.srv
    BY <2>1, <2>6 DEF Queues
  <2>8. Books(r)
    BY <2>5, <2>7 DEF Books, Ledger, Arrayed, Sent
  <2>9. r.size < hiwat /\ r.size \in Nat
    <3>1. r.size <= q.size + HopsFlow255.size /\ r.size \in Nat
      BY <2>2, <2>5, <2>7, QueueType DEF Sent, Kept
    <3> QED BY <1>2, <1>5, <3>1, Watermarks
  <2>10. ~(r.size >= hiwat)
    BY <2>9, Watermarks
  <2>11. /\ r.flowc = FALSE /\ r.swift = FALSE /\ r.ev = "none" /\ r.qwait = q.qwait
         /\ r.abort = q.abort /\ r.torn = q.torn /\ r.closing = q.closing /\ r.discard = q.discard
         /\ r.down = q.down
    BY <2>2, <2>5, <2>7 DEF Sent, Kept
  <2>12. /\ r.queue = <<>> => q.queue = <<>> /\ r.srv = q.srv
         /\ r.queue # <<>> => r.srv = TRUE \/ (r.srv = q.srv /\ q.queue # <<>>)
    BY <2>2, <2>5, <2>7 DEF Sent, Kept
  <2>13. ASSUME ~q.discard, q.qwait = <<>> PROVE PeerOK(r, Says(r.queue, r.told))
    <3>1. Says(r.queue, r.told) = HopsFlow255.name
      BY <2>2, <2>5, <2>7, <2>13 DEF Sent, Kept
    <3>2. FlowName(r) = HopsFlow255.name
      BY <2>11 DEF FlowName
    <3>3. r.qwait = <<>> /\ \A i \in 1 .. Len(r.qwait) : r.qwait[i] \in HopsFlows
      BY <2>11, <2>13
    <3> QED BY <3>1, <3>2, <3>3 DEF PeerOK
  <2>14. Updated(q, r)
    BY <1>5, <2>9, <2>10, <2>11, <2>12, <2>13 DEF Updated
  <2> QED BY <2>8, <2>14 DEF r
<1>6. CASE ~q.flowc /\ q.size < hiwat
  <2>0. ~(q.size >= hiwat)
    BY <1>2, <1>6, Watermarks
  <2>1. r = [q EXCEPT !.warn = q.size >= lowat]
    BY <1>3, <1>6, <2>0
  <2>2. /\ r \in Queues /\ Kept(q, r) /\ r.linked = q.linked /\ r.qlink = q.qlink /\ r.flowc = q.flowc
        /\ r.swift = q.swift /\ r.ev = q.ev /\ r.qwait = q.qwait
    <3>1. PICK w \in BOOLEAN : w <=> (q.size >= lowat)
      OBVIOUS
    <3>2. r = [q EXCEPT !.warn = w]
      BY <2>1, <3>1
    <3> QED BY <1>1, <3>2 DEF Queues, Kept
  <2>3. Books(r)
    BY <1>1, <2>2 DEF Books, Ledger, Arrayed, Kept
  <2>4. PeerOK(q, Says(q.queue, q.told)) => PeerOK(r, Says(r.queue, r.told))
    BY <2>2 DEF PeerOK, FlowName, Kept
  <2>5. r.size = q.size /\ r.size < hiwat
    BY <1>6, <2>2 DEF Kept
  <2>6. Updated(q, r)
    BY <1>6, <2>0, <2>2, <2>4, <2>5 DEF Updated, Kept
  <2> QED BY <2>3, <2>6 DEF r
<1>7. q.size >= hiwat \/ q.size < hiwat
  BY <1>2, Watermarks
<1> QED BY <1>2, <1>4, <1>5, <1>6, <1>7

\* What is left of the list after some messages are dropped or sent.
Fewer(q, r) ==
    /\ Ids(r.queue) \subseteq Ids(q.queue) /\ r.size <= q.size /\ Steady(q, r)
    /\ q.queue = <<>> => r.queue = <<>>

\* Removing nothing.
LEMMA FewerSelf ==
    ASSUME NEW q, Books(q)
    PROVE  Fewer(q, q)
<1>1. q.size \in Nat
  BY QueueType DEF Books, Ledger
<1>2. q.size <= q.size
  BY <1>1
<1> QED BY <1>2 DEF Fewer, Steady

\* Removing one more message.
LEMMA FewerRemoved ==
    ASSUME NEW q, NEW p, NEW r, NEW id \in Ids(p.queue), Ledger(q), Ledger(p), Ledger(r),
           Fewer(q, p), Removed(p, r, id)
    PROVE  Fewer(q, r)
<1>1. q.size \in Nat /\ p.size \in Nat /\ r.size \in Nat /\ Listed(p.queue)
  BY QueueType DEF Ledger
<1>2. Link(p, id).left \in Nat
  BY <1>1, LinkProperty, MessageType
<1>3. r.size = p.size - Link(p, id).left /\ p.size <= q.size
  BY DEF Removed, Fewer
<1>4. r.size <= q.size
  BY <1>1, <1>2, <1>3
<1>5. p.queue # <<>>
  BY DEF Ids
<1>6. q.queue # <<>>
  BY <1>5 DEF Fewer
<1>7. Ids(r.queue) \subseteq Ids(q.queue)
  BY DEF Removed, Fewer
<1>8. Steady(q, r)
  BY DEF Removed, Fewer, Steady
<1> QED BY <1>4, <1>6, <1>7, <1>8 DEF Fewer

\* No Hops-Flow message is dropped to make room for a rank and a priority.
Spares(rank, prio) == \A h \in HopsFlows : ~(h.rank < rank /\ h.prio <= prio)

\* Making room for any message of the node drops no Hops-Flow message.
LEMMA SparesKinds ==
    ASSUME NEW k \in AllKinds
    PROVE  Spares(k.rank, k.prio)
<1>1. k.rank \in Nat /\ k.prio \in Nat
  BY MqAssumption DEF KindType
<1> QED BY <1>1, HopsKinds DEF Spares

\* Nor does dropping messages of the lowest priority.
LEMMA SparesLow ==
    ASSUME NEW rank
    PROVE  Spares(rank, 0)
BY HopsKinds DEF Spares

\* The loop of make_room_internal().
LEMMA RoomProperty ==
    ASSUME NEW q, Books(q), q.linked, ~q.abort, NEW rank \in Nat, NEW prio \in Nat, NEW needed \in Int
    PROVE  LET l == Loop(RoomStep, [q |-> q, rank |-> rank, prio |-> prio, needed |-> needed,
                                    offset |-> 0], Len(q.qlink))
           IN  /\ Books(l.q) /\ Fewer(q, l.q) /\ l.q.torn = q.torn /\ l.offset \in Nat /\ l.needed \in Int
               /\ l.q.size - l.needed = q.size - needed
               /\ Spares(rank, prio) => Says(l.q.queue, l.q.told) = Says(q.queue, q.told)
<1> DEFINE n == Len(q.qlink)
           start == [q |-> q, rank |-> rank, prio |-> prio, needed |-> needed, offset |-> 0]
           U == [q : Queues, rank : {rank}, prio : {prio}, needed : Int, offset : Nat]
           Good(l) == /\ Books(l.q) /\ Fewer(q, l.q) /\ l.q.torn = q.torn /\ Len(l.q.qlink) = n
                      /\ l.q.size - l.needed = q.size - needed
                      /\ Spares(rank, prio) => Says(l.q.queue, l.q.told) = Says(q.queue, q.told)
           S == [i \in 0 .. n |-> {l \in U : Good(l)}]
           f == [i \in 1 .. n |-> [l \in U |-> RoomStep(l, i)]]
<1>1. q \in Queues /\ q.qlink \in Seq(Nat) /\ n \in Nat /\ q.size \in Nat
  BY QueueType DEF Books, Ledger
<1> HIDE DEF Good, U, n
<1>0. \A i \in 0 .. n : \A l : l \in S[i] <=> l \in U /\ Good(l)
  OBVIOUS
<1> HIDE DEF S
<1>2. start \in S[0]
  <2>1. start \in U
    BY <1>1 DEF U
  <2>2. start.q = q /\ start.needed = needed
    OBVIOUS
  <2>3. Fewer(q, q)
    BY FewerSelf
  <2>4. Good(start)
    <3> HIDE DEF start
    <3> QED BY <2>2, <2>3 DEF Good, n
  <2> HIDE DEF start
  <2> QED BY <1>0, <1>1, <2>1, <2>4
<1>3. ASSUME NEW i \in 1 .. n, NEW l \in S[i - 1] PROVE RoomStep(l, i) \in S[i] /\ l \in U
  <2>1. i - 1 \in 0 .. n /\ i \in 0 .. n
    BY <1>1
  <2>2. l \in U /\ Good(l)
    BY <1>0, <2>1
  <2>3. /\ l.q \in Queues /\ l.rank = rank /\ l.prio = prio /\ l.needed \in Int /\ l.offset \in Nat
    BY <2>2 DEF U
  <2>4. /\ Books(l.q) /\ Fewer(q, l.q) /\ l.q.torn = q.torn /\ Len(l.q.qlink) = n
        /\ l.q.size - l.needed = q.size - needed
        /\ Spares(rank, prio) => Says(l.q.queue, l.q.told) = Says(q.queue, q.told)
    BY <2>2 DEF Good
  <2> DEFINE id == l.q.qlink[i]
             m == Link(l.q, id)
             p == mq_rmlink_prev([l.q EXCEPT !.qlink[i] = 0], id)
             t == RoomStep(l, i)
  <2>5. t = IF l.offset # 0 \/ l.needed < 0 \/ id = 0 THEN l
            ELSE IF ~pmsg_is_unread(m) THEN l
            ELSE IF m.kind.rank >= rank \/ m.kind.prio > prio THEN [l EXCEPT !.offset = i]
            ELSE [l EXCEPT !.q = p, !.needed = l.needed - m.left]
    BY <2>3 DEF RoomStep
  <2> HIDE DEF t
  <2>6. CASE t = l
    BY <1>0, <2>1, <2>2, <2>6 DEF t
  <2>7. CASE t = [l EXCEPT !.offset = i]
    <3>1. t \in U /\ t.q = l.q /\ t.needed = l.needed
      BY <2>2, <2>7 DEF U
    <3>2. Good(t)
      BY <2>4, <3>1 DEF Good
    <3> QED BY <1>0, <2>1, <2>2, <3>1, <3>2 DEF t
  <2>8. CASE id # 0 /\ ~(m.kind.rank >= rank \/ m.kind.prio > prio) /\ t = [l EXCEPT !.q = p, !.needed = l.needed - m.left]
    <3>1. l.q.linked /\ ~l.q.abort
      BY <2>4 DEF Fewer, Steady
    <3>2. i \in 1 .. Len(l.q.qlink)
      BY <2>4
    <3>3. id \in Ids(l.q.queue) /\ Books(p) /\ Removed(l.q, p, id) /\ Len(p.qlink) = Len(l.q.qlink)
      BY <2>4, <2>8, <3>1, <3>2, PruneProperty
    <3> HIDE DEF id, p
    <3>4. Ledger(l.q) /\ Ledger(p) /\ Ledger(q) /\ Listed(l.q.queue)
      BY <2>4, <3>3 DEF Books, Ledger
    <3>5. Fewer(q, p)
      BY <2>4, <3>3, <3>4, FewerRemoved
    <3>6. m \in Messages /\ m.left \in Nat
      BY <3>3, <3>4, LinkProperty, MessageType
    <3>7. p.size = l.q.size - m.left /\ p.torn = l.q.torn
      BY <3>3 DEF Removed
    <3> HIDE DEF m
    <3>8. PICK z \in Int : z = l.needed - m.left
      BY <2>3, <3>6
    <3>9. t = [l EXCEPT !.q = p, !.needed = z]
      BY <2>8, <3>8
    <3>10. p \in Queues
      BY <3>4 DEF Ledger
    <3>11. t \in U /\ t.q = p /\ t.needed = z
      BY <2>2, <3>9, <3>10 DEF U
    <3>12. p.size - z = q.size - needed
      <4>1. l.q.size \in Nat /\ p.size \in Nat
        BY <2>3, <3>10, QueueType
      <4> QED BY <1>1, <2>3, <2>4, <3>6, <3>7, <3>8, <4>1, SMTT(60)
    <3>13. Spares(rank, prio) => Says(p.queue, p.told) = Says(q.queue, q.told)
      <4>1. SUFFICES ASSUME Spares(rank, prio) PROVE Says(p.queue, p.told) = Says(q.queue, q.told)
        OBVIOUS
      <4>2. m.kind.rank < rank /\ m.kind.prio <= prio
        BY <2>8, <3>6, MessageType
      <4>3. ~IsHops(m)
        BY <4>1, <4>2 DEF Spares, IsHops
      <4>4. Says(p.queue, p.told) = Says(l.q.queue, l.q.told)
        BY <3>3, <3>4, <4>3, SaysRemoved DEF m
      <4> QED BY <2>4, <4>1, <4>4
    <3>14. Good(t)
      BY <2>4, <3>3, <3>5, <3>7, <3>11, <3>12, <3>13 DEF Good
    <3> QED BY <1>0, <2>1, <2>2, <3>11, <3>14 DEF t
  <2> QED BY <2>5, <2>6, <2>7, <2>8
<1> HIDE DEF start
<1>5. \A i \in 1 .. n : \A l \in S[i - 1] : f[i][l] \in S[i] /\ f[i][l] = RoomStep(l, i)
  BY <1>3
<1> HIDE DEF f, n
<1>6. \E r : r = [i \in 0 .. n |-> IF i = 0 THEN start ELSE RoomStep(r[i - 1], i)]
  <2>0. PICK r : LoopRounds(n, S, start, f, r)
    <3>1. LoopRoundsKeep(n, S, f)
      BY <1>5 DEF LoopRoundsKeep
    <3> QED BY <1>1, <1>2, <3>1, LoopExists
  <2>1. /\ r = [i \in 0 .. n |-> IF i = 0 THEN start ELSE f[i][r[i - 1]]]
        /\ \A i \in 0 .. n : r[i] \in S[i]
    BY <2>0 DEF LoopRounds
  <2>2. \A i \in 0 .. n : i # 0 => i \in 1 .. n /\ i - 1 \in 0 .. n
    BY <1>1
  <2>3. \A i \in 0 .. n : i # 0 => f[i][r[i - 1]] = RoomStep(r[i - 1], i)
    BY <1>5, <2>1, <2>2
  <2>4. r = [i \in 0 .. n |-> IF i = 0 THEN start ELSE RoomStep(r[i - 1], i)]
    BY <2>1, <2>3
  <2> QED BY <2>4
<1>7. PICK r : /\ r = [i \in 0 .. n |-> IF i = 0 THEN start ELSE RoomStep(r[i - 1], i)]
               /\ Loop(RoomStep, start, n) = r[n]
  BY <1>6, Zenon DEF Loop
<1>8. Loop(RoomStep, start, n) \in S[n]
  <2>1. r[0] = start /\ \A i \in 1 .. n : r[i] = RoomStep(r[i - 1], i)
    BY <1>1, <1>7
  <2>2. r[0] \in S[0]
    BY <1>2, <2>1
  <2>3. \A i \in 1 .. n : r[i - 1] \in S[i - 1] => r[i] \in S[i]
    BY <1>3, <2>1
  <2>4. \A i \in 0 .. n : r[i] \in S[i]
    BY <1>1, <2>2, <2>3, LoopInduction
  <2> QED BY <1>1, <1>7, <2>4
<1>9. PICK l : l = Loop(RoomStep, start, n)
  OBVIOUS
<1>10. l \in U /\ Good(l)
  BY <1>0, <1>1, <1>8, <1>9
<1>11. l.offset \in Nat /\ l.needed \in Int
  BY <1>10 DEF U
<1> QED BY <1>9, <1>10, <1>11 DEF Good, start, n


\* The last message partially written.
LEMMA ListPartial ==
    ASSUME NEW s, Listed(s), s # <<>>, NEW w \in Nat, w # 0, w < s[Len(s)].left
    PROVE  LET t == [s EXCEPT ![Len(s)].left = @ - w]
           IN  /\ Listed(t) /\ Len(t) = Len(s) /\ Ids(t) = Ids(s) /\ Bytes(t) = Bytes(s) - w
               /\ w <= Bytes(s) /\ \A i \in 1 .. Len(s) : t[i].kind = s[i].kind
<1> DEFINE n == Len(s)
           x == s[n]
           t == [s EXCEPT ![Len(s)].left = @ - w]
<1>1. s \in Seq(Messages) /\ n \in Nat /\ n \in 1 .. n
  BY DEF Listed
<1>2. x \in Messages /\ x.left \in Nat /\ x.kind.size \in Nat /\ x.left <= x.kind.size
  BY <1>1, MessageType DEF Listed
<1>3. PICK z \in Nat \ {0} : z = x.left - w
  BY <1>2
<1>4. PICK y : y = [x EXCEPT !.left = z]
  OBVIOUS
<1>5. y \in Messages /\ y.left = z /\ y.kind = x.kind /\ y.id = x.id
  BY <1>2, <1>4 DEF Messages
<1>6. t = [s EXCEPT ![n] = y]
  BY <1>3, <1>4
<1>7. t \in Seq(Messages) /\ Len(t) = n /\ t[n] = y /\ \A i \in 1 .. n : i # n => t[i] = s[i]
  BY <1>1, <1>5, <1>6
<1> HIDE DEF t
<1>8. \A i \in 1 .. n : t[i].kind = s[i].kind /\ t[i].id = s[i].id
  BY <1>5, <1>7
<1>9. ~Unread(y) /\ y.left <= y.kind.size
  BY <1>2, <1>3, <1>5 DEF Unread
<1> HIDE DEF n
<1>10. Listed(t)
  <2>1. \A i, j \in 1 .. n : t[i].id = t[j].id => i = j
    BY <1>8 DEF Listed, n
  <2>2. \A i \in 1 .. n : t[i].left <= t[i].kind.size
    BY <1>7, <1>9 DEF Listed, n
  <2>3. \A i \in 1 .. n : ~Unread(t[i]) => i = n
    BY <1>7 DEF Listed, n
  <2>4. ASSUME NEW i \in 1 .. n, NEW j \in 1 .. n, i < j, Unread(t[j]) PROVE t[i].kind.prio <= t[j].kind.prio
    <3>1. j # n /\ i # n
      BY <1>1, <1>7, <1>9, <2>4
    <3>2. t[i] = s[i] /\ t[j] = s[j]
      BY <1>7, <3>1
    <3> QED BY <2>4, <3>2 DEF Listed, n
  <2> QED BY <1>7, <2>1, <2>2, <2>3, <2>4 DEF Listed
<1>11. Ids(t) = Ids(s)
  BY <1>1, <1>7, <1>8 DEF Ids, n
<1>12. Range(t) \ {y} = Range(s) \ {x} /\ y \in Range(t) /\ x \in Range(s)
  <2>1. DOMAIN s = 1 .. n /\ DOMAIN t = 1 .. n
    BY <1>1, <1>7 DEF n
  <2>2. \A i \in 1 .. n : i # n => s[i] # x /\ t[i] # y
    <3>1. \A i \in 1 .. n : i # n => s[i].id # x.id
      BY <1>1 DEF Listed, n
    <3> QED BY <1>5, <1>7, <3>1
  <2>3. \A i \in 1 .. n : i # n => t[i] = s[i]
    BY <1>7
  <2> QED BY <1>1, <1>7, <2>1, <2>2, <2>3 DEF Range
<1>13. Bytes(t) = Bytes(s) - w /\ w <= Bytes(s)
  <2>1. PICK A, B, D : A = Range(s) /\ B = Range(t) /\ D = Range(s) \ {x}
    OBVIOUS
  <2>2. A \in SUBSET Messages /\ IsFiniteSet(A) /\ B \in SUBSET Messages /\ IsFiniteSet(B)
    BY <1>10, <2>1, BytesNat
  <2>3. A \ {x} = D /\ B \ {y} = D /\ x \in A /\ y \in B
    BY <1>12, <2>1
  <2>4. BytesLeft(A) = x.left + BytesLeft(D) /\ BytesLeft(D) \in Nat
    BY <2>2, <2>3, BytesOf
  <2>5. BytesLeft(B) = y.left + BytesLeft(D)
    BY <2>2, <2>3, BytesOf
  <2>6. BytesLeft(B) = BytesLeft(A) - w /\ w <= BytesLeft(A)
    BY <1>2, <1>3, <1>5, <2>4, <2>5
  <2> QED BY <2>1, <2>6 DEF Bytes
<1> QED BY <1>7, <1>8, <1>10, <1>11, <1>13 DEF t, n

\* The loop of mq_clear().
LEMMA ClearProperty ==
    ASSUME NEW q, Books(q), ~q.linked, ~q.abort, NEW k \in Nat
    PROVE  LET r == Loop(ClearStep, q, k)
           IN  Books(r) /\ Fewer(q, r) /\ r.torn = q.torn
<1> DEFINE Good(l) == Books(l) /\ Fewer(q, l) /\ l.torn = q.torn
           n == k
           start == q
           U == Queues
           S == [i \in 0 .. n |-> {l \in U : Good(l)}]
           f == [i \in 1 .. n |-> [l \in U |-> ClearStep(l, i)]]
<1>1. n \in Nat
  OBVIOUS
<1> HIDE DEF n
<1>4. q \in Queues
  BY DEF Books, Ledger
<1> HIDE DEF Good, U
<1>0. \A i \in 0 .. n : \A l : l \in S[i] <=> l \in U /\ Good(l)
  OBVIOUS
<1> HIDE DEF S
<1>2. start \in S[0]
  <2>1. Good(start) /\ start \in U
    BY <1>4, FewerSelf DEF Good, U
  <2> HIDE DEF start
  <2> QED BY <1>0, <1>1, <2>1
<1>3. ASSUME NEW i \in 1 .. n, NEW l \in S[i - 1] PROVE ClearStep(l, i) \in S[i] /\ l \in U
  <2>1. i - 1 \in 0 .. n /\ i \in 0 .. n
    BY <1>1
  <2>2. l \in U /\ Good(l)
    BY <1>0, <2>1
  <2>3. Books(l) /\ Fewer(q, l) /\ l.torn = q.torn
    BY <2>2 DEF Good
  <2> DEFINE t == ClearStep(l, i)
             id == l.queue[1].id
  <2>4. t = l \/ (l.queue # <<>> /\ t = mq_rmlink_prev(l, id))
    BY DEF ClearStep
  <2> HIDE DEF t
  <2>5. CASE t = l
    BY <1>0, <2>1, <2>2, <2>5 DEF t
  <2>6. CASE l.queue # <<>> /\ t = mq_rmlink_prev(l, id)
    <3>1. ~l.linked /\ ~l.abort
      BY <2>3 DEF Fewer, Steady
    <3>2. t = Unlink(l, id)
      BY <2>6, <3>1 DEF Unlink
    <3>3. Listed(l.queue) /\ l.queue \in Seq(Messages)
      BY <2>3 DEF Books, Ledger, Listed
    <3>4. 1 \in 1 .. Len(l.queue)
      BY <2>6, <3>3
    <3>5. id \in Ids(l.queue)
      BY <3>3, <3>4, IndexProperty
    <3> HIDE DEF id
    <3>6. Books(t) /\ Removed(l, t, id)
      BY <2>3, <3>1, <3>2, <3>5, UnlinkProperty
    <3>7. Ledger(t) /\ Ledger(l) /\ Ledger(q) /\ t \in U
      BY <2>3, <3>6 DEF Books, Ledger, U
    <3>8. Fewer(q, t)
      BY <2>3, <3>5, <3>6, <3>7, FewerRemoved
    <3>9. Good(t)
      BY <2>3, <3>6, <3>8 DEF Good, Removed
    <3> QED BY <1>0, <2>1, <2>2, <3>7, <3>9 DEF t
  <2> QED BY <2>4, <2>5, <2>6
<1> HIDE DEF start
<1>5. \A i \in 1 .. n : \A l \in S[i - 1] : f[i][l] \in S[i] /\ f[i][l] = ClearStep(l, i)
  BY <1>3
<1> HIDE DEF f, n
<1>6. \E r : r = [i \in 0 .. n |-> IF i = 0 THEN start ELSE ClearStep(r[i - 1], i)]
  <2>0. PICK r : LoopRounds(n, S, start, f, r)
    <3>1. LoopRoundsKeep(n, S, f)
      BY <1>5 DEF LoopRoundsKeep
    <3> QED BY <1>1, <1>2, <3>1, LoopExists
  <2>1. /\ r = [i \in 0 .. n |-> IF i = 0 THEN start ELSE f[i][r[i - 1]]]
        /\ \A i \in 0 .. n : r[i] \in S[i]
    BY <2>0 DEF LoopRounds
  <2>2. \A i \in 0 .. n : i # 0 => i \in 1 .. n /\ i - 1 \in 0 .. n
    BY <1>1
  <2>3. \A i \in 0 .. n : i # 0 => f[i][r[i - 1]] = ClearStep(r[i - 1], i)
    BY <1>5, <2>1, <2>2
  <2>4. r = [i \in 0 .. n |-> IF i = 0 THEN start ELSE ClearStep(r[i - 1], i)]
    BY <2>1, <2>3
  <2> QED BY <2>4
<1>7. PICK r : /\ r = [i \in 0 .. n |-> IF i = 0 THEN start ELSE ClearStep(r[i - 1], i)]
               /\ Loop(ClearStep, start, n) = r[n]
  BY <1>6, Zenon DEF Loop
<1>8. Loop(ClearStep, start, n) \in S[n]
  <2>1. r[0] = start /\ \A i \in 1 .. n : r[i] = ClearStep(r[i - 1], i)
    BY <1>1, <1>7
  <2>2. r[0] \in S[0]
    BY <1>2, <2>1
  <2>3. \A i \in 1 .. n : r[i - 1] \in S[i - 1] => r[i] \in S[i]
    BY <1>3, <2>1
  <2>4. \A i \in 0 .. n : r[i] \in S[i]
    BY <1>1, <2>2, <2>3, LoopInduction
  <2> QED BY <1>1, <1>7, <2>4
<1>9. Good(Loop(ClearStep, start, n))
  BY <1>0, <1>1, <1>8
<1> QED BY <1>9 DEF Good, start, n


\* A message torn.
LEMMA TornProperty ==
    ASSUME NEW q, Books(q), NEW b \in BOOLEAN
    PROVE  LET r == [q EXCEPT !.torn = b]
           IN  /\ Books(r) /\ Steady(q, r) /\ r.queue = q.queue /\ r.size = q.size /\ r.told = q.told
<1> DEFINE r == [q EXCEPT !.torn = b]
<1>1. q \in Queues
  BY DEF Books, Ledger
<1>2. r \in Queues /\ r.queue = q.queue /\ r.size = q.size /\ r.told = q.told /\ r.qlink = q.qlink
  BY <1>1 DEF Queues
<1>3. Steady(q, r)
  BY <1>1 DEF Queues, Steady
<1> HIDE DEF r
<1>4. Books(r)
  BY <1>2, <1>3 DEF Books, Ledger, Arrayed, Steady
<1> QED BY <1>2, <1>3, <1>4 DEF r

\* A removal adds nothing.
LEMMA RemovedRange ==
    ASSUME NEW q, Ledger(q), NEW r, Ledger(r), NEW id \in Ids(q.queue), Removed(q, r, id)
    PROVE  Range(r.queue) \subseteq Range(q.queue)
<1>1. PICK s, t, k : s = q.queue /\ t = r.queue /\ k = IndexOf(q, id)
  OBVIOUS
<1>2. s \in Seq(Messages) /\ t \in Seq(Messages) /\ k \in 1 .. Len(s)
  BY <1>1, LinkProperty DEF Ledger, Listed
<1>3. Len(t) = Len(s) - 1 /\ \A i \in 1 .. Len(t) : t[i] = IF i < k THEN s[i] ELSE s[i + 1]
  BY <1>1 DEF Removed
<1>4. ASSUME NEW i \in 1 .. Len(t) PROVE \E j \in 1 .. Len(s) : t[i] = s[j]
  <2>1. i \in 1 .. Len(s) /\ i + 1 \in 1 .. Len(s)
    BY <1>2, <1>3
  <2> QED BY <1>3, <2>1
<1>5. Range(t) \subseteq Range(s)
  BY <1>2, <1>4 DEF Range
<1> QED BY <1>1, <1>5

\* The first loop of mq_tcp_service(): a message partially written can be torn.
LEMMA RefuseProperty ==
    ASSUME NEW q, Books(q), ~q.abort, NEW refused, \A id \in refused : id \in Ids(q.queue) => Link(q, id).kind.check
    PROVE  LET r == DropRefused(q, refused)
           IN  Books(r) /\ Fewer(q, r) /\ Says(r.queue, r.told) = Says(q.queue, q.told) /\ (q.torn => r.torn)
<1> DEFINE s == q.queue
           n == Len(s)
           start == [q |-> q, links |-> s, refused |-> refused]
           U == [q : Queues, links : {s}, refused : {refused}]
           Good(l, i) == /\ Books(l.q) /\ Fewer(q, l.q) /\ Says(l.q.queue, l.q.told) = Says(q.queue, q.told)
                         /\ (q.torn => l.q.torn) /\ Range(l.q.queue) \subseteq Range(s)
                         /\ \A j \in 1 .. n - i : s[j].id \in Ids(l.q.queue)
           S == [i \in 0 .. n |-> {l \in U : Good(l, i)}]
           f == [i \in 1 .. n |-> [l \in U |-> RefuseStep(l, i)]]
<1>1. q \in Queues /\ s \in Seq(Messages) /\ n \in Nat /\ Listed(s) /\ Ledger(q)
  BY DEF Books, Ledger, Listed
<1>4. DropRefused(q, refused) = Loop(RefuseStep, start, n).q
  BY DEF DropRefused
<1> HIDE DEF Good, U
<1>0. \A i \in 0 .. n : \A l : l \in S[i] <=> l \in U /\ Good(l, i)
  OBVIOUS
<1> HIDE DEF S, n
<1>2. start \in S[0]
  <2>1. start \in U /\ start.q = q
    BY <1>1 DEF U
  <2>2. \A j \in 1 .. n - 0 : s[j].id \in Ids(s)
    BY <1>1 DEF Ids, n
  <2> HIDE DEF start
  <2>3. Good(start, 0)
    BY <2>1, <2>2, FewerSelf DEF Good
  <2> QED BY <1>0, <1>1, <2>1, <2>3
<1>3. ASSUME NEW i \in 1 .. n, NEW l \in S[i - 1] PROVE RefuseStep(l, i) \in S[i] /\ l \in U
  <2>1. i - 1 \in 0 .. n /\ i \in 0 .. n /\ n - i + 1 \in 1 .. n /\ n - i + 1 \in 1 .. n - (i - 1)
    BY <1>1
  <2>2. l \in U /\ Good(l, i - 1)
    BY <1>0, <2>1
  <2>3. l.q \in Queues /\ l.links = s /\ l.refused = refused
    BY <2>2 DEF U
  <2>4. /\ Books(l.q) /\ Fewer(q, l.q) /\ Says(l.q.queue, l.q.told) = Says(q.queue, q.told)
        /\ (q.torn => l.q.torn) /\ Range(l.q.queue) \subseteq Range(s)
    BY <2>2 DEF Good
  <2>5. \A j \in 1 .. n - (i - 1) : s[j].id \in Ids(l.q.queue)
    BY <2>2 DEF Good
  <2>6. \A j \in 1 .. n - i : j \in 1 .. n - (i - 1) /\ j \in 1 .. n /\ j # n - i + 1
    BY <1>1
  <2> DEFINE m == s[n - i + 1]
             u == Unlink(l.q, m.id)
             b == u.torn \/ ~pmsg_is_unread(m)
             t == RefuseStep(l, i)
  <2>7. t = IF m.id \notin refused THEN l ELSE [l EXCEPT !.q = [u EXCEPT !.torn = b]]
    BY <2>3 DEF RefuseStep, n
  <2> HIDE DEF t
  <2>8. CASE m.id \notin refused
    <3>1. t = l
      BY <2>7, <2>8
    <3>2. Good(t, i)
      BY <2>4, <2>5, <2>6, <3>1 DEF Good
    <3> QED BY <1>0, <2>1, <2>2, <3>1, <3>2 DEF t
  <2>9. CASE m.id \in refused
    <3>0. m.id \in Ids(l.q.queue) /\ m \in Messages /\ ~l.q.abort
      BY <1>1, <2>1, <2>4, <2>5 DEF Fewer, Steady, n
    <3>1. Books(u) /\ Removed(l.q, u, m.id)
      BY <2>4, <3>0, UnlinkProperty
    <3> HIDE DEF u
    <3>2. Ledger(l.q) /\ Ledger(u) /\ u \in Queues /\ Listed(l.q.queue)
      BY <2>4, <3>1 DEF Books, Ledger
    <3>3. Link(l.q, m.id) = m
      <4>1. Link(l.q, m.id) \in Range(s) /\ Link(l.q, m.id).id = m.id
        BY <2>4, <3>0, <3>2, LinkProperty
      <4>2. PICK j \in 1 .. n : s[j] = Link(l.q, m.id)
        BY <1>1, <4>1 DEF Range, n
      <4>3. s[j].id = s[n - i + 1].id
        BY <4>1, <4>2
      <4>4. j = n - i + 1
        BY <1>1, <2>1, <4>3 DEF Listed, n
      <4> QED BY <4>2, <4>4
    <3>4. m.kind.check
      <4>1. n - i + 1 \in 1 .. Len(q.queue)
        BY <2>1 DEF n
      <4>2. m.id \in Ids(q.queue) /\ Link(q, m.id) = m
        BY <1>1, <4>1, IndexProperty
      <4> QED BY <2>9, <4>2
    <3>5. ~IsHops(Link(l.q, m.id))
      BY <3>3, <3>4, HopsKinds DEF IsHops
    <3>6. Says(u.queue, u.told) = Says(q.queue, q.told)
      BY <2>4, <3>0, <3>1, <3>2, <3>5, SaysRemoved
    <3>7. Fewer(q, u)
      BY <1>1, <2>4, <3>0, <3>1, <3>2, FewerRemoved
    <3>8. Range(u.queue) \subseteq Range(s)
      BY <2>4, <3>0, <3>1, <3>2, RemovedRange
    <3>9. \A j \in 1 .. n - i : s[j].id \in Ids(u.queue)
      <4>1. ASSUME NEW j \in 1 .. n - i PROVE s[j].id \in Ids(u.queue)
        <5>1. s[j].id \in Ids(l.q.queue)
          BY <2>5, <2>6
        <5>2. s[j].id # m.id
          BY <1>1, <2>1, <2>6 DEF Listed, n
        <5> QED BY <3>1, <5>1, <5>2 DEF Removed
      <4> QED BY <4>1
    <3>10. PICK c \in BOOLEAN : c <=> b
      OBVIOUS
    <3>11. PICK p : p = [u EXCEPT !.torn = c]
      OBVIOUS
    <3>12. Books(p) /\ Steady(u, p) /\ p.queue = u.queue /\ p.size = u.size /\ p.told = u.told /\ p \in Queues /\ p.torn = c
      <4>1. p.torn = c
        BY <3>2, <3>11 DEF Queues
      <4>2. Books(p) /\ Steady(u, p) /\ p.queue = u.queue /\ p.size = u.size /\ p.told = u.told
        BY <3>1, <3>11, TornProperty
      <4> QED BY <4>1, <4>2 DEF Books, Ledger
    <3>13. t = [l EXCEPT !.q = p]
      <4>1. [u EXCEPT !.torn = b] = [u EXCEPT !.torn = c]
        BY <3>10
      <4> QED BY <2>7, <2>9, <3>11, <4>1
    <3>14. t \in U /\ t.q = p
      BY <2>2, <3>12, <3>13 DEF U
    <3>15. q.torn => p.torn
      BY <2>4, <3>1, <3>10, <3>12 DEF Removed
    <3>16. Fewer(q, p)
      BY <3>7, <3>12 DEF Fewer, Steady
    <3>17. Good(t, i)
      BY <3>6, <3>8, <3>9, <3>12, <3>14, <3>15, <3>16 DEF Good
    <3> QED BY <1>0, <2>1, <2>2, <3>14, <3>17 DEF t
  <2> QED BY <2>8, <2>9
<1> HIDE DEF start
<1>5. \A i \in 1 .. n : \A l \in S[i - 1] : f[i][l] \in S[i] /\ f[i][l] = RefuseStep(l, i)
  BY <1>3
<1> HIDE DEF f, n
<1>6. \E r : r = [i \in 0 .. n |-> IF i = 0 THEN start ELSE RefuseStep(r[i - 1], i)]
  <2>0. PICK r : LoopRounds(n, S, start, f, r)
    <3>1. LoopRoundsKeep(n, S, f)
      BY <1>5 DEF LoopRoundsKeep
    <3> QED BY <1>1, <1>2, <3>1, LoopExists
  <2>1. /\ r = [i \in 0 .. n |-> IF i = 0 THEN start ELSE f[i][r[i - 1]]]
        /\ \A i \in 0 .. n : r[i] \in S[i]
    BY <2>0 DEF LoopRounds
  <2>2. \A i \in 0 .. n : i # 0 => i \in 1 .. n /\ i - 1 \in 0 .. n
    BY <1>1
  <2>3. \A i \in 0 .. n : i # 0 => f[i][r[i - 1]] = RefuseStep(r[i - 1], i)
    BY <1>5, <2>1, <2>2
  <2>4. r = [i \in 0 .. n |-> IF i = 0 THEN start ELSE RefuseStep(r[i - 1], i)]
    BY <2>1, <2>3
  <2> QED BY <2>4
<1>7. PICK r : /\ r = [i \in 0 .. n |-> IF i = 0 THEN start ELSE RefuseStep(r[i - 1], i)]
               /\ Loop(RefuseStep, start, n) = r[n]
  BY <1>6, Zenon DEF Loop
<1>8. Loop(RefuseStep, start, n) \in S[n]
  <2>1. r[0] = start /\ \A i \in 1 .. n : r[i] = RefuseStep(r[i - 1], i)
    BY <1>1, <1>7
  <2>2. r[0] \in S[0]
    BY <1>2, <2>1
  <2>3. \A i \in 1 .. n : r[i - 1] \in S[i - 1] => r[i] \in S[i]
    BY <1>3, <2>1
  <2>4. \A i \in 0 .. n : r[i] \in S[i]
    BY <1>1, <2>2, <2>3, LoopInduction
  <2> QED BY <1>1, <1>7, <2>4
<1>9. PICK l : l = Loop(RefuseStep, start, n)
  OBVIOUS
<1>10. Good(l, n)
  BY <1>0, <1>1, <1>8, <1>9
<1> QED BY <1>4, <1>9, <1>10 DEF Good


\* The last message is wholly accepted, and leaves the queue.
LEMMA SendLast ==
    ASSUME NEW q, Books(q), ~q.abort, q.queue # <<>>, q.room >= Tail_(q).left
    PROVE  LET m == Tail_(q)
               r == [Delivered(Unlink(q, m.id), m) EXCEPT !.room = @ - m.left]
           IN  /\ Books(r) /\ r.torn = q.torn /\ Says(r.queue, r.told) = Says(q.queue, q.told)
               /\ m.id \in Ids(q.queue) /\ Ids(r.queue) = Ids(q.queue) \ {m.id}
               /\ r.size <= q.size /\ Steady(q, r)
<1> DEFINE m == Tail_(q)
           u == Unlink(q, m.id)
           d == Delivered(u, m)
           r == [d EXCEPT !.room = @ - m.left]
<1>1. Ledger(q) /\ Listed(q.queue) /\ q.queue \in Seq(Messages) /\ q \in Queues /\ q.size \in Nat
  BY QueueType DEF Books, Ledger
<1>2. Len(q.queue) \in 1 .. Len(q.queue) /\ m = q.queue[Len(q.queue)] /\ m \in Messages
  BY <1>1 DEF Tail_
<1> HIDE DEF m
<1>3. m.id \in Ids(q.queue) /\ IndexOf(q, m.id) = Len(q.queue) /\ Link(q, m.id) = m
  BY <1>1, <1>2, IndexProperty
<1>4. Books(u) /\ Removed(q, u, m.id)
  BY <1>3, UnlinkProperty
<1> HIDE DEF u
<1>5. /\ Books(d) /\ d.room = u.room /\ d.queue = u.queue /\ d.size = u.size /\ Steady(u, d)
      /\ d.torn = u.torn /\ d.told = IF IsHops(m) THEN m.kind.name ELSE u.told
  BY <1>2, <1>4, DeliveredProperty
<1> HIDE DEF d
<1>6. m.left \in Nat /\ m.left <= d.room
  <2>1. m.left \in Nat /\ q.room \in Nat
    BY <1>1, <1>2, MessageType, QueueType, MqAssumption
  <2>2. d.room = q.room
    BY <1>4, <1>5 DEF Removed
  <2> QED BY <2>1, <2>2 DEF m
<1>7. /\ Books(r) /\ r.queue = d.queue /\ r.size = d.size /\ Steady(d, r) /\ r.torn = d.torn /\ r.told = d.told
  BY <1>5, <1>6, AcceptProperty
<1> HIDE DEF r
<1>8. r.size <= q.size
  <2>1. r.size = q.size - m.left
    BY <1>3, <1>4, <1>5, <1>7 DEF Removed
  <2> QED BY <1>1, <1>6, <2>1
<1>9. Steady(q, r) /\ r.torn = q.torn /\ Ids(r.queue) = Ids(q.queue) \ {m.id}
  BY <1>4, <1>5, <1>7 DEF Removed, Steady
<1>10. Says(r.queue, r.told) = Says(q.queue, q.told)
  <2>1. CASE IsHops(m)
    <3>1. PICK s, t : s = q.queue /\ t = u.queue
      OBVIOUS
    <3>2. s \in Seq(Messages) /\ t \in Seq(Messages) /\ s # <<>> /\ IsHops(s[Len(s)]) /\ s[Len(s)].kind.name = m.kind.name
      BY <1>1, <1>2, <1>4, <2>1, <3>1, QueueType DEF Books, Ledger
    <3>3. Len(t) = Len(s) - 1 /\ \A i \in 1 .. Len(t) : t[i] = IF i < Len(s) THEN s[i] ELSE s[i + 1]
      BY <1>3, <1>4, <3>1 DEF Removed
    <3>4. \A i \in 1 .. Len(t) : t[i] = s[i]
      BY <3>2, <3>3
    <3>5. Says(t, s[Len(s)].kind.name) = Says(s, q.told)
      <4> HIDE <3>1
      <4> QED BY <3>2, <3>3, <3>4, SaysDelivered
    <3> QED BY <1>5, <1>7, <2>1, <3>1, <3>2, <3>5
  <2>2. CASE ~IsHops(m)
    <3>1. Ledger(u)
      BY <1>4 DEF Books
    <3>2. Says(u.queue, u.told) = Says(q.queue, q.told)
      BY <1>1, <1>3, <1>4, <2>2, <3>1, SaysRemoved
    <3> QED BY <1>5, <1>7, <2>2, <3>2
  <2> QED BY <2>1, <2>2
<1> QED BY <1>3, <1>7, <1>8, <1>9, <1>10 DEF r, d, u, m

\* A part of the last message is accepted, and the TX stack is full.
LEMMA SendPart ==
    ASSUME NEW q, Books(q), q.queue # <<>>, q.room # 0, ~(q.room >= Tail_(q).left)
    PROVE  LET r == [q EXCEPT !.queue[Len(q.queue)].left = @ - q.room,
                              !.size = @ - q.room, !.room = 0]
           IN  /\ Books(r) /\ r.torn = q.torn /\ Says(r.queue, r.told) = Says(q.queue, q.told)
               /\ Ids(r.queue) = Ids(q.queue) /\ r.size <= q.size /\ Steady(q, r)
<1> DEFINE r == [q EXCEPT !.queue[Len(q.queue)].left = @ - q.room,
                          !.size = @ - q.room, !.room = 0]
<1>1. /\ Ledger(q) /\ Listed(q.queue) /\ q.queue \in Seq(Messages) /\ q \in Queues /\ q.size \in Nat
      /\ q.size = Bytes(q.queue)
  BY QueueType DEF Books, Ledger
<1>2. q.room \in Nat /\ 0 \in 0 .. MaxRoom
  BY <1>1, QueueType, MqAssumption
<1>3. q.queue[Len(q.queue)].left \in Nat
  BY <1>1, MessageType
<1>4. PICK w \in Nat : w = q.room /\ w # 0 /\ w < q.queue[Len(q.queue)].left
  BY <1>2, <1>3 DEF Tail_
<1>5. PICK s, t : s = q.queue /\ t = [s EXCEPT ![Len(s)].left = @ - w]
  OBVIOUS
<1>6. /\ Listed(t) /\ Len(t) = Len(s) /\ Ids(t) = Ids(s) /\ Bytes(t) = Bytes(s) - w /\ w <= Bytes(s)
      /\ \A i \in 1 .. Len(s) : t[i].kind = s[i].kind
  <2>1. Listed(s) /\ s # <<>> /\ w < s[Len(s)].left /\ w # 0
    BY <1>1, <1>4, <1>5
  <2>2. t = [s EXCEPT ![Len(s)].left = @ - w]
    BY <1>5
  <2> QED BY <2>1, <2>2, ListPartial
<1>7. PICK z \in Nat : z = q.size - w
  BY <1>1, <1>4, <1>5, <1>6
<1>8. r = [q EXCEPT !.queue = t, !.size = z, !.room = 0]
  BY <1>4, <1>5, <1>7
<1>9. t \in Seq(Messages) /\ s \in Seq(Messages)
  BY <1>1, <1>5, <1>6 DEF Listed
<1> HIDE DEF r
<1>10. r \in Queues /\ r.queue = t /\ r.size = z /\ r.qlink = q.qlink
  BY <1>1, <1>2, <1>8, <1>9 DEF Queues
<1>11. Steady(q, r) /\ r.torn = q.torn /\ r.told = q.told
  BY <1>1, <1>8 DEF Queues, Steady
<1>12. Ids(r.queue) = Ids(q.queue)
  BY <1>5, <1>6, <1>10
<1>13. Books(r)
  <2>1. Ledger(r)
    BY <1>1, <1>5, <1>6, <1>7, <1>10 DEF Ledger
  <2>2. Arrayed(r)
    BY <1>10, <1>11, <1>12 DEF Books, Arrayed, Steady
  <2> QED BY <2>1, <2>2 DEF Books
<1>14. Says(t, q.told) = Says(s, q.told)
  <2> HIDE <1>5
  <2> QED BY <1>6, <1>9, SaysKinds
<1>15. Says(r.queue, r.told) = Says(q.queue, q.told)
  BY <1>5, <1>10, <1>11, <1>14
<1>16. r.size <= q.size
  BY <1>1, <1>7, <1>10
<1> QED BY <1>11, <1>12, <1>13, <1>15, <1>16 DEF r

\* The loop on tx_write().
LEMMA WriteProperty ==
    ASSUME NEW q, Books(q), ~q.abort
    PROVE  LET r == WriteQueue(q)
           IN  /\ Books(r) /\ Fewer(q, r) /\ r.torn = q.torn
               /\ Says(r.queue, r.told) = Says(q.queue, q.told)
<1> DEFINE Good(l) == /\ Books(l) /\ Fewer(q, l) /\ l.torn = q.torn
                      /\ Says(l.queue, l.told) = Says(q.queue, q.told)
           n == Len(q.queue)
           start == q
           U == Queues
           S == [i \in 0 .. n |-> {l \in U : Good(l)}]
           f == [i \in 1 .. n |-> [l \in U |-> WriteStep(l, i)]]
<1>1. q \in Queues /\ n \in Nat
  BY QueueType DEF Books, Ledger
<1>4. WriteQueue(q) = Loop(WriteStep, start, n)
  BY DEF WriteQueue
<1> HIDE DEF Good, U, n
<1>0. \A i \in 0 .. n : \A l : l \in S[i] <=> l \in U /\ Good(l)
  OBVIOUS
<1> HIDE DEF S
<1>2. start \in S[0]
  <2>1. Good(start) /\ start \in U
    BY <1>1, FewerSelf DEF Good, U
  <2> HIDE DEF start
  <2> QED BY <1>0, <1>1, <2>1
<1>3. ASSUME NEW i \in 1 .. n, NEW l \in S[i - 1] PROVE WriteStep(l, i) \in S[i] /\ l \in U
  <2>1. i - 1 \in 0 .. n /\ i \in 0 .. n
    BY <1>1
  <2>2. l \in U /\ Good(l)
    BY <1>0, <2>1
  <2>3. /\ Books(l) /\ Fewer(q, l) /\ l.torn = q.torn /\ l.size \in Nat /\ q.size \in Nat
        /\ Says(l.queue, l.told) = Says(q.queue, q.told)
    BY <1>1, <2>2, QueueType DEF Good, U
  <2> DEFINE t == WriteStep(l, i)
             m == Tail_(l)
             sent == [Delivered(Unlink(l, m.id), m) EXCEPT !.room = @ - m.left]
             part == [l EXCEPT !.queue[Len(l.queue)].left = @ - l.room, !.size = @ - l.room, !.room = 0]
  <2>4. t = IF l.queue = <<>> \/ l.room = 0 THEN l ELSE IF l.room >= m.left THEN sent ELSE part
    BY DEF WriteStep
  <2> HIDE DEF t, sent, part
  \* A round that sends something.
  <2>5. ASSUME l.queue # <<>>, Books(t), t.torn = l.torn, Says(t.queue, t.told) = Says(l.queue, l.told),
               Ids(t.queue) \subseteq Ids(l.queue), t.size <= l.size, Steady(l, t)
        PROVE  t \in S[i]
    <3>1. t \in Queues /\ t.size \in Nat
      BY <2>5, QueueType DEF Books, Ledger
    <3>2. t.size <= q.size
      BY <2>3, <2>5, <3>1 DEF Fewer
    <3>3. q.queue # <<>>
      BY <2>3, <2>5 DEF Fewer
    <3>4. Fewer(q, t)
      BY <2>3, <2>5, <3>2, <3>3 DEF Fewer, Steady
    <3>5. Good(t)
      BY <2>3, <2>5, <3>4 DEF Good
    <3> QED BY <1>0, <2>1, <3>1, <3>5 DEF U
  <2>6. CASE t = l
    BY <1>0, <2>1, <2>2, <2>6 DEF t
  <2>7. CASE l.queue # <<>> /\ l.room >= m.left /\ t = sent
    <3>1. ~l.abort
      BY <2>3 DEF Fewer, Steady
    <3>2. /\ Books(sent) /\ sent.torn = l.torn /\ Says(sent.queue, sent.told) = Says(l.queue, l.told)
          /\ Ids(sent.queue) \subseteq Ids(l.queue) /\ sent.size <= l.size /\ Steady(l, sent)
      BY <2>3, <2>7, <3>1, SendLast DEF sent
    <3>3. t \in S[i]
      BY <2>5, <2>7, <3>2
    <3> QED BY <2>2, <3>3 DEF t
  <2>8. CASE l.queue # <<>> /\ l.room # 0 /\ ~(l.room >= m.left) /\ t = part
    <3>2. /\ Books(part) /\ part.torn = l.torn /\ Says(part.queue, part.told) = Says(l.queue, l.told)
          /\ Ids(part.queue) \subseteq Ids(l.queue) /\ part.size <= l.size /\ Steady(l, part)
      BY <2>3, <2>8, SendPart DEF part
    <3>3. t \in S[i]
      BY <2>5, <2>8, <3>2
    <3> QED BY <2>2, <3>3 DEF t
  <2> QED BY <2>4, <2>6, <2>7, <2>8
<1> HIDE DEF start
<1>5. \A i \in 1 .. n : \A l \in S[i - 1] : f[i][l] \in S[i] /\ f[i][l] = WriteStep(l, i)
  BY <1>3
<1> HIDE DEF f, n
<1>6. \E r : r = [i \in 0 .. n |-> IF i = 0 THEN start ELSE WriteStep(r[i - 1], i)]
  <2>0. PICK r : LoopRounds(n, S, start, f, r)
    <3>1. LoopRoundsKeep(n, S, f)
      BY <1>5 DEF LoopRoundsKeep
    <3> QED BY <1>1, <1>2, <3>1, LoopExists
  <2>1. /\ r = [i \in 0 .. n |-> IF i = 0 THEN start ELSE f[i][r[i - 1]]]
        /\ \A i \in 0 .. n : r[i] \in S[i]
    BY <2>0 DEF LoopRounds
  <2>2. \A i \in 0 .. n : i # 0 => i \in 1 .. n /\ i - 1 \in 0 .. n
    BY <1>1
  <2>3. \A i \in 0 .. n : i # 0 => f[i][r[i - 1]] = WriteStep(r[i - 1], i)
    BY <1>5, <2>1, <2>2
  <2>4. r = [i \in 0 .. n |-> IF i = 0 THEN start ELSE WriteStep(r[i - 1], i)]
    BY <2>1, <2>3
  <2> QED BY <2>4
<1>7. PICK r : /\ r = [i \in 0 .. n |-> IF i = 0 THEN start ELSE WriteStep(r[i - 1], i)]
               /\ Loop(WriteStep, start, n) = r[n]
  BY <1>6, Zenon DEF Loop
<1>8. Loop(WriteStep, start, n) \in S[n]
  <2>1. r[0] = start /\ \A i \in 1 .. n : r[i] = WriteStep(r[i - 1], i)
    BY <1>1, <1>7
  <2>2. r[0] \in S[0]
    BY <1>2, <2>1
  <2>3. \A i \in 1 .. n : r[i - 1] \in S[i - 1] => r[i] \in S[i]
    BY <1>3, <2>1
  <2>4. \A i \in 0 .. n : r[i] \in S[i]
    BY <1>1, <2>2, <2>3, LoopInduction
  <2> QED BY <1>1, <1>7, <2>4
<1>9. Good(Loop(WriteStep, start, n))
  BY <1>0, <1>1, <1>8
<1> QED BY <1>4, <1>9 DEF Good


----------------------------------------------------------------------------
(* The handlers.                                                           *)

Srv(q) == q.srv <=> q.queue # <<>>

\* A queue but for its servicing.
But(q, r) ==
    /\ r.queue = q.queue /\ r.qlink = q.qlink /\ r.linked = q.linked /\ r.size = q.size
    /\ r.flowc = q.flowc /\ r.swift = q.swift /\ r.discard = q.discard /\ r.closing = q.closing
    /\ r.qwait = q.qwait /\ r.ev = q.ev /\ r.down = q.down /\ r.told = q.told
    /\ r.torn = q.torn /\ r.abort = q.abort

\* The service flag has no part in the accounts.
LEMMA ButKeeps ==
    ASSUME NEW q, NEW r, But(q, r)
    PROVE  /\ r \in Queues /\ Books(q) => Books(r)
           /\ Flow(q) => Flow(r)
           /\ \A x : PeerOK(q, x) => PeerOK(r, x)
<1>1. r \in Queues /\ Books(q) => Books(r)
  BY DEF But, Books, Ledger, Arrayed
<1>2. Flow(q) => Flow(r)
  <2>1. mq_tcp_flushed(q) <=> mq_tcp_flushed(r)
    BY DEF But, mq_tcp_flushed, Tail_
  <2> QED BY <2>1 DEF But, Flow, FlowBounds, FlowEvent
<1>3. \A x : PeerOK(q, x) => PeerOK(r, x)
  BY DEF But, PeerOK, FlowName
<1> QED BY <1>1, <1>2, <1>3

\* An empty queue is not serviced.
LEMMA DisableProperty ==
    ASSUME NEW q, Books(q), q.queue # <<>> => q.srv
    PROVE  LET r == DisableIfEmpty(q)
           IN  Books(r) /\ Srv(r) /\ But(q, r)
<1> DEFINE r == DisableIfEmpty(q)
<1>1. q \in Queues /\ q.srv \in BOOLEAN
  BY QueueType DEF Books, Ledger
<1>2. r = IF q.queue = <<>> THEN [q EXCEPT !.srv = FALSE] ELSE q
  BY DEF DisableIfEmpty
<1> HIDE DEF r
<1>3. CASE q.queue = <<>>
  <2>1. r = [q EXCEPT !.srv = FALSE]
    BY <1>2, <1>3
  <2>2. r \in Queues /\ r.srv = FALSE /\ r.queue = q.queue
    BY <1>1, <2>1 DEF Queues
  <2>3. But(q, r)
    BY <1>1, <2>1 DEF Queues, But
  <2>4. Srv(r)
    BY <1>3, <2>2 DEF Srv
  <2> QED BY <2>2, <2>3, <2>4, ButKeeps DEF r
<1>4. CASE q.queue # <<>>
  <2>1. r = q
    BY <1>2, <1>4
  <2> QED BY <1>1, <1>4, <2>1 DEF But, Srv, r
<1> QED BY <1>3, <1>4

\* The array created.
LEMMA CreateProperty ==
    ASSUME NEW q, Books(q)
    PROVE  LET r == IF q.linked THEN q ELSE qlink_create(q)
           IN  /\ Books(r) /\ Kept(q, r) /\ r.linked = TRUE
               /\ r.flowc = q.flowc /\ r.swift = q.swift /\ r.ev = q.ev /\ r.qwait = q.qwait
<1> DEFINE r == IF q.linked THEN q ELSE qlink_create(q)
<1>1. q \in Queues /\ Ledger(q) /\ Listed(q.queue) /\ q.linked \in BOOLEAN
  BY QueueType DEF Books, Ledger
<1>2. CASE q.linked
  BY <1>1, <1>2 DEF Kept
<1>3. CASE ~q.linked
  <2>1. PICK a : a = Loop(SortStep, [q |-> q, sorted |-> <<>>], Len(q.queue)).sorted
    OBVIOUS
  <2>2. Holds(a, Ids(q.queue))
    BY <1>1, <2>1, SortProperty
  <2>3. a \in Seq(Nat)
    BY <2>2 DEF Holds
  <2>4. r = [q EXCEPT !.linked = TRUE, !.qlink = a]
    BY <1>3, <2>1 DEF qlink_create
  <2> HIDE DEF r
  <2>5. r \in Queues /\ r.qlink = a /\ r.linked = TRUE /\ r.queue = q.queue /\ r.size = q.size
    BY <1>1, <2>3, <2>4 DEF Queues
  <2>6. Kept(q, r) /\ r.flowc = q.flowc /\ r.swift = q.swift /\ r.ev = q.ev /\ r.qwait = q.qwait
    BY <1>1, <2>4 DEF Queues, Kept
  <2>7. Books(r)
    BY <1>1, <2>2, <2>5 DEF Books, Ledger, Arrayed
  <2> QED BY <2>5, <2>6, <2>7 DEF r
<1> QED BY <1>1, <1>2, <1>3

\* What make_room() leaves while mq_tcp_putq() is running.
Roomed(q, r) ==
    /\ Books(r) /\ Flow(r) /\ Srv(r)
    /\ Ids(r.queue) \subseteq Ids(q.queue) /\ (q.queue = <<>> => r.queue = <<>>) /\ r.size <= q.size
    /\ r.abort = q.abort /\ r.torn = q.torn /\ r.closing = q.closing /\ r.discard = q.discard
    /\ r.down = q.down
    /\ \A x : PeerOK(q, x) => PeerOK(r, x)

\* What make_room() answers.
Rooms == [q : Queues, ok : BOOLEAN, offset : Nat]

\* make_room() called from within the put of a message.
LEMMA RoomEntered ==
    ASSUME NEW q, Books(q), ~q.abort, ~q.discard, Flow(q), Srv(q),
           NEW rank \in Nat, NEW prio \in Nat, NEW needed \in Int
    PROVE  LET room == make_room(q, rank, prio, needed, TRUE)
           IN  /\ room \in Rooms /\ Roomed(q, room.q) /\ room.offset \in Nat /\ room.ok \in BOOLEAN
               /\ room.ok => room.q.size + needed <= q.size
               /\ Spares(rank, prio) => Says(room.q.queue, room.q.told) = Says(q.queue, q.told)
<1> DEFINE room == make_room(q, rank, prio, needed, TRUE)
<1>1. q \in Queues /\ q.size \in Nat /\ q.linked \in BOOLEAN /\ q.srv \in BOOLEAN
  BY QueueType DEF Books, Ledger
<1>2. CASE q.queue = <<>>
  <2>1. room = [q |-> q, ok |-> FALSE, offset |-> 0]
    BY <1>2 DEF make_room
  <2> HIDE DEF room
  <2>2. room.q = q /\ room.offset = 0
    BY <2>1
  <2>3. ~room.ok
    BY <2>1
  <2>4. room.ok \in BOOLEAN
    BY <2>1
  <2>5. q.size <= q.size
    BY <1>1
  <2>6. Roomed(q, q)
    BY <2>5 DEF Roomed
  <2>7. Roomed(q, room.q) /\ Says(room.q.queue, room.q.told) = Says(q.queue, q.told)
    BY <2>2, <2>6
  <2>8. room.offset \in Nat
    BY <2>2
  <2>9. room \in Rooms
    BY <1>1, <2>1 DEF Rooms
  <2> QED BY <2>3, <2>4, <2>7, <2>8, <2>9, Zenon DEF room
<1>3. CASE q.queue # <<>>
  <2> DEFINE p == IF q.linked THEN q ELSE qlink_create(q)
             l == Loop(RoomStep, [q |-> p, rank |-> rank, prio |-> prio, needed |-> needed, offset |-> 0], Len(p.qlink))
             u == mq_update_flowc(l.q, TRUE)
             d == DisableIfEmpty(u)
  <2>1. room = [q |-> d, ok |-> l.needed <= 0, offset |-> l.offset]
    BY <1>3 DEF make_room, Pruned
  <2>2. /\ Books(p) /\ Kept(q, p) /\ p.linked = TRUE
        /\ p.flowc = q.flowc /\ p.swift = q.swift /\ p.ev = q.ev /\ p.qwait = q.qwait
    BY CreateProperty
  <2> HIDE DEF p
  <2>3. ~p.abort /\ p.linked
    BY <2>2 DEF Kept
  <2>4. /\ Books(l.q) /\ Fewer(p, l.q) /\ l.q.torn = p.torn /\ l.offset \in Nat /\ l.needed \in Int
        /\ l.q.size - l.needed = p.size - needed
        /\ Spares(rank, prio) => Says(l.q.queue, l.q.told) = Says(p.queue, p.told)
    BY <2>2, <2>3, RoomProperty
  <2> HIDE DEF l
  <2>5. FlowEvent(l.q)
    BY <2>2, <2>4 DEF Flow, FlowEvent, Fewer, Steady
  <2>6. Books(u) /\ Kept(l.q, u) /\ Flow(u) /\ \A x : PeerOK(l.q, x) /\ ~l.q.discard => PeerOK(u, x)
    BY <2>4, <2>5, UpdateEntered
  <2> HIDE DEF u
  <2>7. u.queue # <<>> => u.srv
    BY <1>3, <2>2, <2>4, <2>6 DEF Srv, Kept, Fewer, Steady
  <2>8. Books(d) /\ Srv(d) /\ But(u, d)
    BY <2>6, <2>7, DisableProperty
  <2> HIDE DEF d
  <2>9. Flow(d) /\ \A x : PeerOK(u, x) => PeerOK(d, x)
    BY <2>6, <2>8, ButKeeps
  <2>10. ASSUME NEW x, PeerOK(q, x) PROVE PeerOK(d, x)
    <3>1. PeerOK(l.q, x)
      BY <2>2, <2>4, <2>10 DEF PeerOK, FlowName, Fewer, Steady
    <3>2. ~l.q.discard
      BY <2>2, <2>4 DEF Kept, Fewer, Steady
    <3> QED BY <2>6, <2>9, <3>1, <3>2
  <2>11. /\ d.queue = l.q.queue /\ d.size = l.q.size /\ d.abort = l.q.abort /\ d.torn = l.q.torn
         /\ d.closing = l.q.closing /\ d.discard = l.q.discard /\ d.down = l.q.down /\ d.told = l.q.told
    BY <2>6, <2>8 DEF Kept, But
  <2>12. /\ p.queue = q.queue /\ p.size = q.size /\ p.abort = q.abort /\ p.torn = q.torn
         /\ p.closing = q.closing /\ p.discard = q.discard /\ p.down = q.down /\ p.told = q.told
    BY <2>2 DEF Kept
  <2>13. /\ Ids(l.q.queue) \subseteq Ids(p.queue) /\ l.q.size <= p.size /\ l.q.abort = p.abort
         /\ l.q.closing = p.closing /\ l.q.discard = p.discard /\ l.q.down = p.down
    BY <2>4 DEF Fewer, Steady
  <2>14. Roomed(q, d)
    BY <1>3, <2>4, <2>8, <2>9, <2>10, <2>11, <2>12, <2>13 DEF Roomed
  <2>15. Spares(rank, prio) => Says(d.queue, d.told) = Says(q.queue, q.told)
    BY <2>4, <2>11, <2>12
  <2>16. l.needed <= 0 => d.size + needed <= q.size
    <3>1. d.size \in Nat
      BY <2>8, QueueType DEF Books, Ledger
    <3>2. d.size - l.needed = q.size - needed
      BY <2>4, <2>11, <2>12
    <3> QED BY <1>1, <2>4, <3>1, <3>2
  <2> HIDE DEF room
  <2>17. room.q = d /\ room.offset = l.offset
    BY <2>1
  <2>18. room.ok <=> l.needed <= 0
    BY <2>1
  <2>19. room.ok \in BOOLEAN
    BY <2>1
  <2>20. room \in Rooms
    <3>1. d \in Queues
      BY <2>8 DEF Books, Ledger
    <3> QED BY <2>1, <2>4, <3>1 DEF Rooms
  <2> QED BY <2>4, <2>14, <2>15, <2>16, <2>17, <2>18, <2>19, <2>20 DEF room
<1> QED BY <1>2, <1>3

\* mq_update_flowc() restores the state of flow control.
LEMMA FlowUpdated ==
    ASSUME NEW q, NEW r, Updated(q, r), FlowEvent(q), q.flowc \in BOOLEAN, r.flowc \in BOOLEAN
    PROVE  Flow(r)
<1>1. CASE r.flowc
  BY <1>1 DEF Updated, Flow, FlowBounds, FlowEvent
<1>2. CASE ~r.flowc
  <2>1. r.ev = "none" /\ ~r.swift
    BY <1>2 DEF Updated, FlowEvent
  <2>2. ~(r.size >= hiwat)
    BY <1>2 DEF Updated
  <2> QED BY <1>2, <2>1, <2>2 DEF Flow, FlowBounds, FlowEvent
<1> QED BY <1>1, <1>2

\* What holds of the queue between two handlers, except for the peer.
Sound(q) ==
    /\ Books(q) /\ Srv(q) /\ (~q.abort => Flow(q)) /\ q.size <= MaxSize
    /\ q.discard => q.closing

\* mq_update_flowc() and tx_srv_disable(), with or without mq_tcp_putq() running.
LEMMA SettleProperty ==
    ASSUME NEW q, Books(q), ~q.abort, FlowEvent(q), q.size >= hiwat => q.flowc, q.queue # <<>> => q.srv,
           q.size <= MaxSize, NEW entered \in BOOLEAN
    PROVE  LET r == DisableIfEmpty(mq_update_flowc(q, entered))
           IN  /\ Books(r) /\ Flow(r) /\ Srv(r) /\ r.size <= MaxSize /\ r.abort = q.abort /\ r.torn = q.torn
               /\ r.closing = q.closing /\ r.discard = q.discard /\ r.down = q.down
               /\ ~entered /\ ~q.discard /\ q.qwait = <<>> /\ PeerOK(q, Says(q.queue, q.told))
                    => PeerOK(r, Says(r.queue, r.told))
<1> DEFINE u == mq_update_flowc(q, entered)
           r == DisableIfEmpty(u)
<1>1. /\ Books(u) /\ Flow(u) /\ u.size <= MaxSize /\ u.abort = q.abort /\ u.torn = q.torn
      /\ u.closing = q.closing /\ u.discard = q.discard /\ u.down = q.down
      /\ (u.queue # <<>> => u.srv)
      /\ ~entered /\ ~q.discard /\ q.qwait = <<>> /\ PeerOK(q, Says(q.queue, q.told))
           => PeerOK(u, Says(u.queue, u.told))
  <2>1. CASE entered
    <3>1. u = mq_update_flowc(q, TRUE)
      BY <2>1
    <3>2. Books(u) /\ Kept(q, u) /\ Flow(u)
      BY <3>1, UpdateEntered
    <3> HIDE DEF u
    <3> QED BY <2>1, <3>2 DEF Kept
  <2>2. CASE ~entered
    <3>1. u = mq_update_flowc(q, FALSE)
      BY <2>2
    <3>2. Books(u) /\ Updated(q, u)
      BY <3>1, UpdateIdle
    <3> HIDE DEF u
    <3>3. q.flowc \in BOOLEAN /\ u.flowc \in BOOLEAN /\ q.size \in Nat /\ u.size \in Nat
      BY <3>2, QueueType DEF Books, Ledger
    <3>4. Flow(u)
      BY <3>2, <3>3, FlowUpdated
    <3>5. u.size <= q.size \/ u.size < hiwat
      BY <3>2 DEF Updated
    <3>6. u.size <= MaxSize
      BY <3>3, <3>5, Watermarks
    <3>7. u.queue # <<>> => u.srv
      BY <3>2 DEF Updated
    <3> QED BY <3>2, <3>4, <3>6, <3>7 DEF Updated
  <2> QED BY <2>1, <2>2
<1> HIDE DEF u
<1>2. Books(r) /\ Srv(r) /\ But(u, r)
  BY <1>1, DisableProperty
<1> HIDE DEF r
<1>3. Flow(r) /\ \A x : PeerOK(u, x) => PeerOK(r, x)
  BY <1>1, <1>2, ButKeeps
<1>4. Says(r.queue, r.told) = Says(u.queue, u.told)
  BY <1>2 DEF But
<1>5. /\ r.size <= MaxSize /\ r.abort = q.abort /\ r.torn = q.torn
      /\ r.closing = q.closing /\ r.discard = q.discard /\ r.down = q.down
  BY <1>1, <1>2 DEF But
<1> QED BY <1>1, <1>2, <1>3, <1>4, <1>5 DEF r, u

\* mq_clear()
LEMMA MqClear ==
    ASSUME NEW q, Sound(q), ~q.abort, NEW entered \in BOOLEAN
    PROVE  LET r == mq_clear(q, entered)
           IN  Sound(r) /\ r.abort = q.abort /\ r.torn = q.torn /\ r.down = q.down
<1> DEFINE r == mq_clear(q, entered)
<1>1. q \in Queues /\ Len(q.queue) \in Nat /\ q.size \in Nat /\ Books(q) /\ Flow(q)
  BY QueueType DEF Sound, Books, Ledger
<1>2. CASE q.queue = <<>>
  BY <1>2 DEF mq_clear
<1>3. CASE q.queue # <<>>
  <2> DEFINE p == qlink_free(q)
             l == Loop(ClearStep, p, Len(q.queue))
  <2>1. r = DisableIfEmpty(mq_update_flowc(l, entered))
    BY <1>3 DEF mq_clear
  <2>2. /\ p \in Queues /\ Kept(q, p) /\ p.linked = FALSE /\ p.qlink = <<>>
        /\ p.flowc = q.flowc /\ p.swift = q.swift /\ p.ev = q.ev /\ p.qwait = q.qwait
    BY <1>1, FreeProperty
  <2> HIDE DEF p
  <2>3. Books(p) /\ ~p.linked /\ ~p.abort
    BY <1>1, <2>2 DEF Books, Ledger, Arrayed, Kept
  <2>4. Books(l) /\ Fewer(p, l) /\ l.torn = p.torn
    BY <1>1, <2>3, ClearProperty
  <2> HIDE DEF l, r
  <2>5. /\ l.flowc = q.flowc /\ l.swift = q.swift /\ l.ev = q.ev /\ l.srv = q.srv /\ l.size <= q.size
        /\ l.closing = q.closing /\ l.discard = q.discard /\ l.torn = q.torn /\ l.abort = q.abort /\ l.down = q.down
    BY <2>2, <2>4 DEF Kept, Fewer, Steady
  <2>6. l.size \in Nat
    BY <2>4, QueueType DEF Books, Ledger
  <2>7. FlowEvent(l)
    BY <1>1, <2>5 DEF Flow, FlowEvent
  <2>8. l.size >= hiwat => l.flowc
    <3>1. l.size >= hiwat => q.size >= hiwat
      BY <1>1, <2>5, <2>6, Watermarks
    <3> QED BY <1>1, <2>5, <3>1 DEF Flow, FlowBounds
  <2>9. l.size <= MaxSize
    BY <1>1, <2>5, <2>6, Watermarks DEF Sound
  <2>10. l.queue # <<>> => l.srv
    BY <1>3, <2>5 DEF Sound, Srv
  <2>11. ~l.abort
    BY <2>5
  <2>12. /\ Books(r) /\ Flow(r) /\ Srv(r) /\ r.size <= MaxSize /\ r.abort = l.abort /\ r.torn = l.torn
         /\ r.closing = l.closing /\ r.discard = l.discard /\ r.down = l.down
    BY <2>1, <2>4, <2>7, <2>8, <2>9, <2>10, <2>11, SettleProperty
  <2> QED BY <2>5, <2>12 DEF Sound, r
<1> QED BY <1>2, <1>3

\* node_bye()
LEMMA NodeByeProperty ==
    ASSUME NEW q, Sound(q), ~q.abort, NEW entered \in BOOLEAN
    PROVE  LET r == node_bye(q, entered)
           IN  Sound(r) /\ r.closing /\ r.abort = q.abort /\ r.torn = q.torn /\ r.down = q.down
<1> DEFINE c == mq_clear(q, entered)
           r == node_bye(q, entered)
<1>1. Sound(c) /\ c.abort = q.abort /\ c.torn = q.torn /\ c.down = q.down
  BY MqClear
<1>2. r = IF q.closing THEN q
          ELSE [c EXCEPT !.qwait = Append(@, Bye), !.closing = TRUE, !.discard = entered]
  BY DEF node_bye
<1> HIDE DEF c, r
<1>3. CASE q.closing
  BY <1>2, <1>3 DEF r
<1>4. CASE ~q.closing
  <2>1. c \in Queues /\ c.qwait \in Seq(AllKinds) /\ Bye \in AllKinds
    BY <1>1, QueueType DEF Sound, Books, Ledger, AllKinds
  <2>2. PICK w \in Seq(AllKinds) : w = Append(c.qwait, Bye)
    BY <2>1, AppendShape
  <2>3. r = [c EXCEPT !.qwait = w, !.closing = TRUE, !.discard = entered]
    BY <1>2, <1>4, <2>2
  <2>4. /\ r \in Queues /\ r.closing = TRUE /\ r.queue = c.queue /\ r.qlink = c.qlink /\ r.linked = c.linked
        /\ r.size = c.size /\ r.flowc = c.flowc /\ r.swift = c.swift /\ r.ev = c.ev /\ r.srv = c.srv
        /\ r.torn = c.torn /\ r.abort = c.abort /\ r.down = c.down
    BY <2>1, <2>3 DEF Queues
  <2>5. Books(r)
    BY <1>1, <2>4 DEF Sound, Books, Ledger, Arrayed
  <2>6. ~r.abort => Flow(r)
    <3>1. mq_tcp_flushed(c) <=> mq_tcp_flushed(r)
      BY <2>4 DEF mq_tcp_flushed, Tail_
    <3> QED BY <1>1, <2>4, <3>1 DEF Sound, Flow, FlowBounds, FlowEvent
  <2>7. Sound(r)
    BY <1>1, <2>4, <2>5, <2>6 DEF Sound, Srv
  <2> QED BY <1>1, <2>4, <2>7 DEF r
<1> QED BY <1>3, <1>4

\* What the peer is to hear last once a message is put.
Hears(q, m) == IF IsHops(m) THEN m.kind.name ELSE Says(q.queue, q.told)

\* The outcome of putting a message.
Put(q, r, x) ==
    /\ Sound(r) /\ r.torn = q.torn /\ r.down = q.down /\ (q.closing => r.closing)
    /\ PeerOK(q, x) /\ ~r.abort /\ ~r.closing => PeerOK(r, Says(r.queue, r.told))

\* A queue in which mq_tcp_putq() puts a message.
Open(q) == Sound(q) /\ ~q.abort /\ ~q.discard

\* The message is queued when there is room, dropped otherwise.
LEMMA PutInRoomProperty ==
    ASSUME NEW room, Open(room.q), room.offset \in Nat, room.ok \in BOOLEAN,
           NEW m, Puttable(room.q, m), room.ok => room.q.size + m.left <= MaxSize
    PROVE  Put(room.q, PutInRoom(room, m), Hears(room.q, m))
<1> DEFINE q == room.q
           e == Enqueue(q, m, room.offset)
           u == mq_update_flowc(e, TRUE)
           r == PutInRoom(room, m)
<1>1. /\ Sound(q) /\ Books(q) /\ Flow(q) /\ ~q.abort /\ ~q.discard /\ q \in Queues
      /\ m \in Messages /\ m.kind.prio \in Nat
  BY MessageType DEF Open, Sound, Books, Ledger, Puttable
<1>2. r = IF room.ok THEN [u EXCEPT !.srv = TRUE]
          ELSE IF ~pmsg_is_unread(m) THEN [q EXCEPT !.abort = TRUE]
          ELSE IF m.kind.prio = 0 THEN q
          ELSE node_bye(q, TRUE)
  BY DEF PutInRoom
<1> HIDE DEF r
<1>3. CASE room.ok
  <2>1. r = [u EXCEPT !.srv = TRUE]
    BY <1>2, <1>3
  <2>2. Books(e) /\ Inserted(q, e, m)
    <3> HIDE DEF q
    <3> QED BY <1>1, EnqueueProperty DEF q
  <2> HIDE DEF e, q
  <2>3. Books(u) /\ Kept(e, u) /\ (FlowEvent(e) => Flow(u)) /\ \A x : PeerOK(e, x) /\ ~e.discard => PeerOK(u, x)
    BY <2>2, UpdateEntered
  <2> HIDE DEF u
  <2>4. u \in Queues
    BY <2>3 DEF Books, Ledger
  <2>5. r \in Queues /\ r.srv = TRUE /\ But(u, r)
    BY <2>1, <2>4 DEF Queues, But
  <2>6. Books(r) /\ (Flow(u) => Flow(r)) /\ \A x : PeerOK(u, x) => PeerOK(r, x)
    BY <2>3, <2>5, ButKeeps
  <2>7. /\ r.queue = e.queue /\ r.size = e.size /\ r.abort = e.abort /\ r.torn = e.torn /\ r.told = e.told
        /\ r.closing = e.closing /\ r.discard = e.discard /\ r.down = e.down
    BY <2>3, <2>5 DEF Kept, But
  <2>8. /\ e.queue # <<>> /\ e.size = q.size + m.left /\ e.torn = q.torn /\ e.closing = q.closing
        /\ e.discard = q.discard /\ e.down = q.down /\ e.flowc = q.flowc /\ e.swift = q.swift /\ e.ev = q.ev
        /\ e.qwait = q.qwait /\ Says(e.queue, e.told) = Hears(q, m)
    BY <2>2 DEF Inserted, Unmoved, Hears
  <2>9. FlowEvent(e)
    BY <1>1, <2>8 DEF Flow, FlowEvent
  <2>10. r.size <= MaxSize
    BY <1>3, <2>7, <2>8 DEF q
  <2>11. Sound(r)
    BY <1>1, <2>3, <2>5, <2>6, <2>7, <2>8, <2>9, <2>10 DEF Sound, Srv
  <2>12. ASSUME PeerOK(q, Hears(q, m)) PROVE PeerOK(r, Says(r.queue, r.told))
    <3>1. PeerOK(e, Hears(q, m))
      BY <2>8, <2>12 DEF PeerOK, FlowName
    <3>2. ~e.discard
      BY <1>1, <2>8
    <3>3. PeerOK(r, Hears(q, m))
      BY <2>3, <2>6, <3>1, <3>2
    <3> QED BY <2>7, <2>8, <3>3
  <2> QED BY <2>7, <2>8, <2>11, <2>12 DEF Put, r, q
<1>4. CASE ~room.ok /\ ~pmsg_is_unread(m)
  <2>1. r = [q EXCEPT !.abort = TRUE]
    BY <1>2, <1>4
  <2> HIDE DEF q
  <2>2. /\ r \in Queues /\ r.abort = TRUE /\ r.queue = q.queue /\ r.qlink = q.qlink /\ r.linked = q.linked
        /\ r.size = q.size /\ r.srv = q.srv /\ r.torn = q.torn /\ r.closing = q.closing
        /\ r.discard = q.discard /\ r.down = q.down
    BY <1>1, <2>1 DEF Queues
  <2>3. Books(r)
    BY <1>1, <2>2 DEF Books, Ledger, Arrayed
  <2>4. Sound(r)
    BY <1>1, <2>2, <2>3 DEF Sound, Srv
  <2> QED BY <2>2, <2>4 DEF Put, r, q
<1>5. CASE ~room.ok /\ pmsg_is_unread(m) /\ m.kind.prio = 0
  <2>1. r = q
    BY <1>2, <1>5
  <2>2. ~IsHops(m)
    BY <1>5, HopsKinds DEF IsHops
  <2>3. Hears(q, m) = Says(q.queue, q.told)
    BY <2>2 DEF Hears
  <2> HIDE DEF q
  <2> QED BY <1>1, <2>1, <2>3 DEF Put, r, q
<1>6. CASE ~room.ok /\ pmsg_is_unread(m) /\ m.kind.prio # 0
  <2>1. r = node_bye(q, TRUE)
    BY <1>2, <1>6
  <2> HIDE DEF q
  <2>2. Sound(r) /\ r.closing /\ r.torn = q.torn /\ r.down = q.down
    BY <1>1, <2>1, NodeByeProperty
  <2> QED BY <2>2 DEF Put, r, q
<1> QED BY <1>3, <1>4, <1>5, <1>6

\* The queue is open after room was made.
LEMMA RoomedOpen ==
    ASSUME NEW q, Open(q), NEW p, Roomed(q, p), NEW m, Puttable(q, m)
    PROVE  Open(p) /\ Puttable(p, m)
<1>1. q.size \in Nat /\ p.size \in Nat /\ q.size <= MaxSize /\ p.size <= q.size
  BY QueueType DEF Open, Sound, Books, Ledger, Roomed
<1>2. p.size <= MaxSize
  BY <1>1, Watermarks
<1>3. Open(p)
  BY <1>2 DEF Open, Sound, Roomed
<1>4. Puttable(p, m)
  BY DEF Puttable, Roomed
<1> QED BY <1>3, <1>4

\* The rooms made for a message, and the room there was.
Enough(q, room) ==
    /\ room \in Rooms /\ Roomed(q, room.q) /\ room.offset \in Nat /\ room.ok \in BOOLEAN
    /\ Says(room.q.queue, room.q.told) = Says(q.queue, q.told)

\* The first attempt to make room.
LEMMA FirstRoomProperty ==
    ASSUME NEW q, Open(q), NEW m, Puttable(q, m), NEW called \in BOOLEAN
    PROVE  LET room == FirstRoom(q, m, called)
           IN  Enough(q, room)
<1> DEFINE room == FirstRoom(q, m, called)
<1>1. m \in Messages /\ m.kind.rank \in Nat /\ m.kind.prio \in Nat /\ m.left \in Int /\ m.kind \in AllKinds
  BY MessageType DEF Puttable
<1>2. Spares(m.kind.rank, m.kind.prio)
  BY <1>1, SparesKinds
<1>3. Books(q) /\ ~q.abort /\ ~q.discard /\ Flow(q) /\ Srv(q) /\ q.size \in Nat
  BY QueueType DEF Open, Sound, Books, Ledger
<1>4. CASE called
  <2>1. room = make_room(q, m.kind.rank, m.kind.prio, m.left, TRUE)
    BY <1>4 DEF FirstRoom
  <2> HIDE DEF room
  <2>2. /\ room \in Rooms /\ Roomed(q, room.q) /\ room.offset \in Nat /\ room.ok \in BOOLEAN
        /\ Spares(m.kind.rank, m.kind.prio) => Says(room.q.queue, room.q.told) = Says(q.queue, q.told)
    BY <1>1, <1>3, <2>1, RoomEntered
  <2> QED BY <1>2, <2>2 DEF Enough, room
<1>5. CASE ~called
  <2>1. room = [q |-> q, ok |-> TRUE, offset |-> 0]
    BY <1>5 DEF FirstRoom
  <2> HIDE DEF room
  <2>2. room.q = q /\ room.offset = 0
    BY <2>1
  <2>3. room.ok \in BOOLEAN
    BY <2>1
  <2>4. q.size <= q.size
    BY <1>3
  <2>5. Roomed(q, q)
    BY <1>3, <2>4 DEF Roomed
  <2>6. Roomed(q, room.q) /\ Says(room.q.queue, room.q.told) = Says(q.queue, q.told) /\ room.offset \in Nat
    BY <2>2, <2>5
  <2>7. room \in Rooms
    <3>1. q \in Queues
      BY <1>3 DEF Books, Ledger
    <3> QED BY <2>1, <3>1 DEF Rooms
  <2> QED BY <2>3, <2>6, <2>7 DEF Enough, room
<1> QED BY <1>4, <1>5

\* Making room twice.
LEMMA RoomedAgain ==
    ASSUME NEW q, NEW p, NEW r, Roomed(q, p), Roomed(p, r), q.size \in Nat
    PROVE  Roomed(q, r)
<1>1. p.size \in Nat /\ r.size \in Nat /\ p.size <= q.size /\ r.size <= p.size
  BY QueueType DEF Roomed, Books, Ledger
<1>2. r.size <= q.size
  BY <1>1
<1> QED BY <1>2 DEF Roomed

\* The second attempt, by dropping messages of a lower priority.
LEMMA SecondRoomProperty ==
    ASSUME NEW q, Open(q), NEW m, Puttable(q, m), NEW called \in BOOLEAN, NEW first, Enough(q, first)
    PROVE  LET room == SecondRoom(first, m, called)
           IN  Enough(q, room) /\ (room.ok => room.q.size + m.left <= MaxSize)
<1> DEFINE needed == first.q.size + m.left - MaxSize
           room == SecondRoom(first, m, called)
<1>1. m \in Messages /\ m.kind.rank \in Nat /\ m.kind.prio \in Nat /\ m.left \in Nat /\ m.kind \in AllKinds
  BY MessageType DEF Puttable
<1>2. Roomed(q, first.q) /\ first.offset \in Nat /\ first.ok \in BOOLEAN
  BY DEF Enough
<1>3. Open(first.q)
  BY <1>2, RoomedOpen
<1>4. Books(first.q) /\ ~first.q.abort /\ ~first.q.discard /\ Flow(first.q) /\ Srv(first.q) /\ first.q.size \in Nat /\ q.size \in Nat
  BY <1>3, QueueType DEF Open, Sound, Books, Ledger
<1>5. needed \in Int
  BY <1>1, <1>4, Watermarks
<1>6. room = IF ~first.ok \/ needed <= 0 THEN first
             ELSE IF called THEN [first EXCEPT !.ok = FALSE]
             ELSE make_room(first.q, m.kind.rank, m.kind.prio, needed, TRUE)
  BY DEF SecondRoom
<1> HIDE DEF room
<1>7. CASE ~first.ok \/ needed <= 0
  <2>1. room = first
    BY <1>6, <1>7
  <2>2. room.ok => room.q.size + m.left <= MaxSize
    <3>1. needed <= 0 => first.q.size + m.left <= MaxSize
      BY <1>1, <1>4, Watermarks
    <3> QED BY <1>7, <2>1, <3>1
  <2> QED BY <2>1, <2>2 DEF room
<1>8. CASE first.ok /\ ~(needed <= 0) /\ called
  <2>1. room = [first EXCEPT !.ok = FALSE]
    BY <1>6, <1>8
  <2>2. first \in Rooms
    BY DEF Enough
  <2>3. room \in Rooms /\ room.q = first.q /\ room.offset = first.offset
    BY <2>1, <2>2 DEF Rooms
  <2>4. ~room.ok /\ room.ok \in BOOLEAN
    BY <2>1, <2>2 DEF Rooms
  <2> QED BY <2>3, <2>4 DEF Enough, room
<1>9. CASE first.ok /\ ~(needed <= 0) /\ ~called
  <2>1. room = make_room(first.q, m.kind.rank, m.kind.prio, needed, TRUE)
    BY <1>6, <1>9
  <2> HIDE DEF needed
  <2>3. /\ room \in Rooms /\ Roomed(first.q, room.q) /\ room.offset \in Nat /\ room.ok \in BOOLEAN
        /\ room.ok => room.q.size + needed <= first.q.size
        /\ Spares(m.kind.rank, m.kind.prio) => Says(room.q.queue, room.q.told) = Says(first.q.queue, first.q.told)
    BY <1>1, <1>4, <1>5, <2>1, RoomEntered, ZenonT(60)
  <2>4. Spares(m.kind.rank, m.kind.prio)
    BY <1>1, SparesKinds
  <2>5. Roomed(q, room.q)
    BY <1>2, <1>4, <2>3, RoomedAgain
  <2>6. Enough(q, room)
    BY <2>3, <2>4, <2>5 DEF Enough
  <2>7. room.ok => room.q.size + m.left <= MaxSize
    <3>1. room.q.size \in Nat
      BY <2>3, QueueType DEF Roomed, Books, Ledger
    <3>2. room.q.size + needed <= first.q.size => room.q.size + m.left <= MaxSize
      BY <1>1, <1>4, <3>1, Watermarks DEF needed
    <3> QED BY <2>3, <3>2
  <2> QED BY <2>6, <2>7 DEF room
<1> QED BY <1>2, <1>7, <1>8, <1>9

\* mq_puthere()
LEMMA PuthereProperty ==
    ASSUME NEW q, Open(q), NEW m, Puttable(q, m)
    PROVE  Put(q, mq_puthere(q, m), Hears(q, m))
<1> DEFINE called == q.flowc /\ m.kind.prio = 0 /\ m.kind.drop
           first == FirstRoom(q, m, called)
           room == SecondRoom(first, m, called)
           r == PutInRoom(room, m)
<1>1. mq_puthere(q, m) = r
  BY DEF mq_puthere
<1>2. called \in BOOLEAN
  OBVIOUS
<1> HIDE DEF called
<1>3. Enough(q, first)
  BY <1>2, FirstRoomProperty
<1> HIDE DEF first
<1>4. Enough(q, room) /\ (room.ok => room.q.size + m.left <= MaxSize)
  BY <1>2, <1>3, SecondRoomProperty
<1> HIDE DEF room
<1>5. Roomed(q, room.q) /\ room.offset \in Nat /\ room.ok \in BOOLEAN
  BY <1>4 DEF Enough
<1>6. Open(room.q) /\ Puttable(room.q, m)
  BY <1>5, RoomedOpen
<1>7. Put(room.q, r, Hears(room.q, m))
  BY <1>4, <1>5, <1>6, PutInRoomProperty
<1> HIDE DEF r
<1>8. Hears(room.q, m) = Hears(q, m)
  BY <1>4 DEF Enough, Hears
<1>9. PICK x : x = Hears(q, m)
  OBVIOUS
<1>10. PeerOK(q, x) => PeerOK(room.q, x)
  BY <1>5 DEF Roomed
<1>11. room.q.torn = q.torn /\ room.q.down = q.down /\ room.q.closing = q.closing
  BY <1>5 DEF Roomed
<1>12. Put(room.q, r, x)
  BY <1>7, <1>8, <1>9
<1>13. Put(q, r, x)
  BY <1>10, <1>11, <1>12 DEF Put
<1> QED BY <1>1, <1>9, <1>13

\* Flow control and what the peer is told, in a queue with the same list.
LEMMA SteadyKeeps ==
    ASSUME NEW q, NEW r, Steady(q, r), r.queue = q.queue, r.size = q.size
    PROVE  /\ Flow(q) => Flow(r)
           /\ Srv(q) => Srv(r)
           /\ \A x : PeerOK(q, x) => PeerOK(r, x)
<1>1. mq_tcp_flushed(q) <=> mq_tcp_flushed(r)
  BY DEF mq_tcp_flushed, Tail_
<1>2. Flow(q) => Flow(r)
  BY <1>1 DEF Steady, Flow, FlowBounds, FlowEvent
<1>3. \A x : PeerOK(q, x) => PeerOK(r, x)
  BY DEF Steady, PeerOK, FlowName
<1> QED BY <1>2, <1>3 DEF Srv, Steady

\* What does not touch the list nor flow control keeps the queue sound.
LEMMA SteadySound ==
    ASSUME NEW q, NEW r, Steady(q, r), r.queue = q.queue, r.size = q.size, Books(r), Sound(q)
    PROVE  Sound(r)
<1>1. (Flow(q) => Flow(r)) /\ (Srv(q) => Srv(r))
  BY SteadyKeeps
<1> QED BY <1>1 DEF Sound, Steady

\* mq_tcp_putq()
LEMMA PutqProperty ==
    ASSUME NEW q, Open(q), NEW m \in Messages, m.id \notin Ids(q.queue), Unread(m),
           NEW cansend \in BOOLEAN, IsHops(m) => cansend
    PROVE  Put(q, mq_tcp_putq(q, m, cansend), Hears(q, m))
<1> DEFINE w == Written(q, m)
           q1 == [q EXCEPT !.room = @ - w]
           rest == [m EXCEPT !.left = @ - w]
           r == mq_tcp_putq(q, m, cansend)
<1>1. r = IF q.queue = <<>> /\ ~cansend THEN q
          ELSE IF w = m.left THEN Delivered(q1, m)
          ELSE mq_puthere(q1, rest)
  BY DEF mq_tcp_putq
<1> HIDE DEF r
<1>2. Books(q) /\ q \in Queues /\ Sound(q) /\ ~q.abort /\ ~q.discard /\ m.left \in Nat \ {0}
  BY MessageType DEF Open, Sound, Books, Ledger
<1>3. w \in Nat /\ w <= m.left /\ w <= q.room /\ (q.queue # <<>> => w = 0)
  BY <1>2, WrittenProperty
<1>4. /\ Books(q1) /\ q1.queue = q.queue /\ q1.size = q.size
      /\ Steady(q, q1) /\ q1.torn = q.torn /\ q1.told = q.told
  BY <1>2, <1>3, AcceptProperty
<1>5. w # m.left => Puttable(q, rest) /\ rest.kind = m.kind
  BY <1>2, RestProperty
<1> HIDE DEF w, q1, rest
<1>6. Sound(q1) /\ \A x : PeerOK(q, x) => PeerOK(q1, x)
  BY <1>2, <1>4, SteadyKeeps, SteadySound
<1>7. CASE q.queue = <<>> /\ ~cansend
  <2>1. r = q
    BY <1>1, <1>7
  <2>2. Hears(q, m) = Says(q.queue, q.told)
    BY <1>7 DEF Hears
  <2> QED BY <1>2, <2>1, <2>2 DEF Put, r
<1>8. CASE ~(q.queue = <<>> /\ ~cansend) /\ w = m.left
  <2>1. r = Delivered(q1, m)
    BY <1>1, <1>8
  <2>2. /\ Books(r) /\ r.queue = q1.queue /\ r.size = q1.size /\ Steady(q1, r) /\ r.torn = q1.torn
        /\ r.told = IF IsHops(m) THEN m.kind.name ELSE q1.told
    BY <1>4, <2>1, DeliveredProperty
  <2>3. Sound(r) /\ \A x : PeerOK(q1, x) => PeerOK(r, x)
    BY <1>6, <2>2, SteadyKeeps, SteadySound
  <2>4. q.queue = <<>>
    BY <1>2, <1>3, <1>8
  <2>5. Says(r.queue, r.told) = Hears(q, m)
    <3>1. PICK s : s = q.queue
      OBVIOUS
    <3>2. s = <<>> /\ s \in Seq(Messages) /\ Len(s) = 0 /\ r.queue = s
      BY <1>2, <1>4, <2>2, <2>4, <3>1, QueueType
    <3>3. \A i \in 1 .. Len(s) : ~IsHops(s[i])
      BY <3>2
    <3>4. Says(s, r.told) = r.told /\ Says(s, q.told) = q.told
      BY <3>2, <3>3, SaysNone
    <3> QED BY <1>4, <2>2, <3>1, <3>2, <3>4 DEF Hears
  <2>6. r.torn = q.torn /\ r.down = q.down /\ r.closing = q.closing
    BY <1>4, <2>2 DEF Steady
  <2> QED BY <1>6, <2>3, <2>5, <2>6 DEF Put, r
<1>9. CASE ~(q.queue = <<>> /\ ~cansend) /\ w # m.left
  <2>1. r = mq_puthere(q1, rest)
    BY <1>1, <1>9
  <2>2. Puttable(q1, rest) /\ rest.kind = m.kind
    BY <1>4, <1>5, <1>9 DEF Puttable
  <2>3. Open(q1)
    BY <1>2, <1>4, <1>6 DEF Open, Steady
  <2>4. Put(q1, r, Hears(q1, rest))
    BY <2>1, <2>2, <2>3, PuthereProperty
  <2>5. Hears(q1, rest) = Hears(q, m)
    BY <1>4, <2>2 DEF Hears, IsHops
  <2>6. PICK x : x = Hears(q, m)
    OBVIOUS
  <2>7. Put(q1, r, x) /\ (PeerOK(q, x) => PeerOK(q1, x))
    BY <1>6, <2>4, <2>5, <2>6
  <2>8. q1.torn = q.torn /\ q1.down = q.down /\ q1.closing = q.closing
    BY <1>4 DEF Steady
  <2>9. Put(q, r, x)
    BY <2>7, <2>8 DEF Put
  <2> QED BY <2>6, <2>9 DEF r
<1> QED BY <1>7, <1>8, <1>9

\* What the peer was told still holds, when mq_tcp_putq() is not running.
PeerKept(q, r) ==
    ~q.discard /\ q.qwait = <<>> /\ PeerOK(q, Says(q.queue, q.told)) => PeerOK(r, Says(r.queue, r.told))

\* Removing messages twice.
LEMMA FewerAgain ==
    ASSUME NEW q, NEW p, NEW r, Fewer(q, p), Fewer(p, r), Books(q), Books(p), Books(r)
    PROVE  Fewer(q, r)
<1>1. q.size \in Nat /\ p.size \in Nat /\ r.size \in Nat /\ p.size <= q.size /\ r.size <= p.size
  BY QueueType DEF Fewer, Books, Ledger
<1>2. r.size <= q.size
  BY <1>1
<1> QED BY <1>2 DEF Fewer, Steady

\* mq_tcp_service()
LEMMA ServiceProperty ==
    ASSUME NEW q, Sound(q), ~q.abort, q.srv, NEW refused,
           \A id \in refused : id \in Ids(q.queue) => Link(q, id).kind.check
    PROVE  LET r == mq_tcp_service(q, refused)
           IN  Sound(r) /\ r.abort = q.abort /\ r.closing = q.closing /\ PeerKept(q, r)
<1> DEFINE d == DropRefused(q, refused)
           l == WriteQueue(d)
           r == mq_tcp_service(q, refused)
<1>1. r = DisableIfEmpty(mq_update_flowc(l, FALSE))
  BY DEF mq_tcp_service, UpdateServicing
<1>2. Books(q) /\ Flow(q) /\ q.size \in Nat /\ q.size <= MaxSize /\ q.queue # <<>>
  BY QueueType DEF Sound, Books, Ledger, Srv
<1>3. Books(d) /\ Fewer(q, d) /\ Says(d.queue, d.told) = Says(q.queue, q.told)
  BY <1>2, RefuseProperty
<1> HIDE DEF d
<1>4. ~d.abort
  BY <1>3 DEF Fewer, Steady
<1>5. Books(l) /\ Fewer(d, l) /\ Says(l.queue, l.told) = Says(d.queue, d.told)
  BY <1>3, <1>4, WriteProperty
<1> HIDE DEF l, r
<1>6. Fewer(q, l)
  BY <1>2, <1>3, <1>5, FewerAgain
<1>7. /\ l.flowc = q.flowc /\ l.swift = q.swift /\ l.ev = q.ev /\ l.srv = q.srv /\ l.size <= q.size
      /\ l.closing = q.closing /\ l.discard = q.discard /\ l.qwait = q.qwait /\ l.abort = q.abort /\ l.down = q.down
  BY <1>6 DEF Fewer, Steady
<1>8. l.size \in Nat
  BY <1>5, QueueType DEF Books, Ledger
<1>9. FlowEvent(l)
  BY <1>2, <1>7 DEF Flow, FlowEvent
<1>10. l.size >= hiwat => l.flowc
  <2>1. l.size >= hiwat => q.size >= hiwat
    BY <1>2, <1>7, <1>8, Watermarks
  <2> QED BY <1>2, <1>7, <2>1 DEF Flow, FlowBounds
<1>11. l.size <= MaxSize
  BY <1>2, <1>7, <1>8, Watermarks
<1>12. ~l.abort /\ l.srv
  BY <1>7
<1>13. /\ Books(r) /\ Flow(r) /\ Srv(r) /\ r.size <= MaxSize /\ r.abort = l.abort
       /\ r.closing = l.closing /\ r.discard = l.discard
       /\ ~l.discard /\ l.qwait = <<>> /\ PeerOK(l, Says(l.queue, l.told)) => PeerOK(r, Says(r.queue, r.told))
  BY <1>1, <1>5, <1>9, <1>10, <1>11, <1>12, SettleProperty
<1>14. Sound(r)
  BY <1>7, <1>13 DEF Sound
<1>15. \A x : PeerOK(q, x) => PeerOK(l, x)
  BY <1>7 DEF PeerOK, FlowName
<1>16. PeerKept(q, r)
  BY <1>3, <1>5, <1>7, <1>13, <1>15 DEF PeerKept
<1> QED BY <1>7, <1>13, <1>14, <1>16 DEF r

\* A queue during mq_swift_checkpoint(), which has no event: flow control, and
\* with it swift mode, is left as soon as possible.
Mid(q) ==
    /\ Books(q) /\ Srv(q) /\ ~q.abort /\ q.ev = "none" /\ (q.flowc <=> q.swift)
    /\ (q.size >= hiwat => q.flowc) /\ q.size <= MaxSize /\ (q.discard => q.closing)

Midway(q, r) ==
    /\ Mid(r) /\ r.closing = q.closing /\ r.discard = q.discard /\ r.qwait = q.qwait
    /\ PeerKept(q, r)

\* Two steps within a handler.
LEMMA MidwayAgain ==
    ASSUME NEW q, NEW p, NEW r, Midway(q, p), Midway(p, r)
    PROVE  Midway(q, r)
BY DEF Midway, PeerKept

\* mq_update_flowc() in it.
LEMMA MidUpdate ==
    ASSUME NEW q, Books(q), ~q.abort, q.ev = "none", q.flowc <=> q.swift, q.size >= hiwat => q.flowc,
           q.size <= MaxSize, q.queue # <<>> => q.srv, q.discard => q.closing
    PROVE  LET r == mq_update_flowc(q, FALSE)
           IN  /\ Books(r) /\ Updated(q, r) /\ ~r.abort /\ r.ev = "none" /\ (r.flowc <=> r.swift)
               /\ (r.size >= hiwat => r.flowc) /\ r.size <= MaxSize /\ (r.queue # <<>> => r.srv)
               /\ (r.discard => r.closing) /\ PeerKept(q, r)
<1> DEFINE r == mq_update_flowc(q, FALSE)
<1>1. Books(r) /\ Updated(q, r)
  BY UpdateIdle
<1> HIDE DEF r
<1>2. q.flowc \in BOOLEAN /\ r.flowc \in BOOLEAN /\ q.size \in Nat /\ r.size \in Nat
  BY <1>1, QueueType DEF Books, Ledger
<1>3. r.size <= MaxSize
  <2>1. r.size <= q.size \/ r.size < hiwat
    BY <1>1 DEF Updated
  <2> QED BY <1>2, <2>1, Watermarks
<1>4. r.ev = "none" /\ (r.flowc <=> r.swift)
  <2>1. CASE r.flowc
    BY <1>1, <2>1 DEF Updated
  <2>2. CASE ~r.flowc
    BY <1>1, <2>2 DEF Updated
  <2> QED BY <2>1, <2>2
<1>5. r.queue # <<>> => r.srv
  BY <1>1 DEF Updated
<1>6. ~r.abort /\ (r.size >= hiwat => r.flowc) /\ (r.discard => r.closing)
  BY <1>1 DEF Updated
<1>7. PeerKept(q, r)
  BY <1>1 DEF Updated, PeerKept
<1> QED BY <1>1, <1>3, <1>4, <1>5, <1>6, <1>7 DEF r

\* make_room() in it: no Hops-Flow message is dropped.
LEMMA RoomMid ==
    ASSUME NEW q, Mid(q), NEW rank \in Nat, NEW needed \in Int
    PROVE  LET room == make_room(q, rank, 0, needed, FALSE)
           IN  Midway(q, room.q)
<1> DEFINE room == make_room(q, rank, 0, needed, FALSE)
<1>1. q \in Queues /\ q.size \in Nat /\ q.linked \in BOOLEAN /\ q.srv \in BOOLEAN /\ Books(q) /\ ~q.abort
  BY QueueType DEF Mid, Books, Ledger
<1>2. CASE q.queue = <<>>
  <2>1. room = [q |-> q, ok |-> FALSE, offset |-> 0]
    BY <1>2 DEF make_room
  <2> HIDE DEF room
  <2>2. room.q = q
    BY <2>1
  <2> QED BY <2>2 DEF Midway, PeerKept, room
<1>3. CASE q.queue # <<>>
  <2> DEFINE p == IF q.linked THEN q ELSE qlink_create(q)
             l == Loop(RoomStep, [q |-> p, rank |-> rank, prio |-> 0, needed |-> needed, offset |-> 0], Len(p.qlink))
             u == mq_update_flowc(l.q, FALSE)
             d == DisableIfEmpty(u)
  <2>1. room = [q |-> d, ok |-> l.needed <= 0, offset |-> l.offset]
    BY <1>3 DEF make_room, Pruned
  <2>2. /\ Books(p) /\ Kept(q, p) /\ p.linked = TRUE
        /\ p.flowc = q.flowc /\ p.swift = q.swift /\ p.ev = q.ev /\ p.qwait = q.qwait
    BY <1>1, CreateProperty
  <2> HIDE DEF p
  <2>3. ~p.abort /\ p.linked /\ 0 \in Nat
    BY <1>1, <2>2 DEF Kept
  <2>4. /\ Books(l.q) /\ Fewer(p, l.q)
        /\ Spares(rank, 0) => Says(l.q.queue, l.q.told) = Says(p.queue, p.told)
    BY <2>2, <2>3, RoomProperty
  <2> HIDE DEF l
  <2>5. Says(l.q.queue, l.q.told) = Says(q.queue, q.told)
    BY <2>2, <2>4, SparesLow DEF Kept
  <2>6. /\ l.q.flowc = q.flowc /\ l.q.swift = q.swift /\ l.q.ev = q.ev /\ l.q.srv = q.srv /\ l.q.size <= q.size
        /\ l.q.closing = q.closing /\ l.q.discard = q.discard /\ l.q.qwait = q.qwait /\ l.q.abort = q.abort
    BY <2>2, <2>4 DEF Fewer, Steady, Kept
  <2>7. l.q.size \in Nat
    BY <2>4, QueueType DEF Books, Ledger
  <2>8. (l.q.size >= hiwat => l.q.flowc) /\ l.q.size <= MaxSize
    <3>1. (l.q.size >= hiwat => q.size >= hiwat) /\ l.q.size <= MaxSize
      BY <1>1, <2>6, <2>7, Watermarks DEF Mid
    <3> QED BY <2>6, <3>1 DEF Mid
  <2>9. ~l.q.abort /\ l.q.ev = "none" /\ (l.q.flowc <=> l.q.swift) /\ l.q.srv /\ (l.q.discard => l.q.closing)
    BY <1>3, <2>6 DEF Mid, Srv
  <2>10. /\ Books(u) /\ Updated(l.q, u) /\ ~u.abort /\ u.ev = "none" /\ (u.flowc <=> u.swift)
         /\ (u.size >= hiwat => u.flowc) /\ u.size <= MaxSize /\ (u.queue # <<>> => u.srv)
         /\ (u.discard => u.closing) /\ PeerKept(l.q, u)
    BY <2>4, <2>8, <2>9, MidUpdate
  <2> HIDE DEF u
  <2>11. Books(d) /\ Srv(d) /\ But(u, d)
    BY <2>10, DisableProperty
  <2> HIDE DEF d, room
  <2>12. Mid(d)
    BY <2>10, <2>11 DEF But, Mid
  <2>13. d.closing = q.closing /\ d.discard = q.discard /\ d.qwait = q.qwait
    BY <2>6, <2>10, <2>11 DEF But, Updated
  <2>14. PeerKept(q, d)
    <3>1. \A x : PeerOK(q, x) => PeerOK(l.q, x)
      BY <2>6 DEF PeerOK, FlowName
    <3>2. PeerKept(q, u)
      BY <2>5, <2>6, <2>10, <3>1 DEF PeerKept
    <3>3. \A x : PeerOK(u, x) => PeerOK(d, x)
      BY <2>10, <2>11, ButKeeps
    <3>4. Says(d.queue, d.told) = Says(u.queue, u.told)
      BY <2>11 DEF But
    <3> QED BY <3>2, <3>3, <3>4 DEF PeerKept
  <2>15. Midway(q, d)
    BY <2>12, <2>13, <2>14 DEF Midway
  <2>16. room.q = d
    BY <2>1
  <2> QED BY <2>15, <2>16 DEF room
<1> QED BY <1>2, <1>3

\* The loop on the templates.
LEMMA SwiftPrune ==
    ASSUME NEW q, Mid(q), NEW needed \in Int, NEW templates \in Seq(Nat)
    PROVE  Midway(q, Prune(q, needed, templates))
<1> DEFINE n == Len(templates)
           start == [q |-> q, needed |-> needed, templates |-> templates]
           U == [q : Queues, needed : Int, templates : {templates}]
           Good(l) == Midway(q, l.q)
           S == [i \in 0 .. n |-> {l \in U : Good(l)}]
           f == [i \in 1 .. n |-> [l \in U |-> PruneStep(l, i)]]
<1>1. q \in Queues /\ n \in Nat
  BY DEF Mid, Books, Ledger
<1>4. Prune(q, needed, templates) = Loop(PruneStep, start, n).q
  BY DEF Prune
<1> HIDE DEF Good, U, n
<1>0. \A i \in 0 .. n : \A l : l \in S[i] <=> l \in U /\ Good(l)
  OBVIOUS
<1> HIDE DEF S
<1>2. start \in S[0]
  <2>1. start \in U /\ start.q = q
    BY <1>1 DEF U
  <2> HIDE DEF start
  <2>2. Good(start)
    BY <2>1 DEF Good, Midway, PeerKept
  <2> QED BY <1>0, <1>1, <2>1, <2>2
<1>3. ASSUME NEW i \in 1 .. n, NEW l \in S[i - 1] PROVE PruneStep(l, i) \in S[i] /\ l \in U
  <2>1. i - 1 \in 0 .. n /\ i \in 0 .. n /\ templates[i] \in Nat
    BY <1>1 DEF n
  <2>2. l \in U /\ Good(l)
    BY <1>0, <2>1
  <2>3. l.q \in Queues /\ l.needed \in Int /\ l.templates = templates /\ Midway(q, l.q) /\ Mid(l.q)
    BY <2>2 DEF U, Good, Midway
  <2> DEFINE room == make_room(l.q, templates[i], 0, l.needed, FALSE)
             t == PruneStep(l, i)
  <2>4. t = IF l.needed <= 0 THEN l
            ELSE [l EXCEPT !.q = room.q,
                           !.needed = IF room.ok THEN 0 ELSE l.needed - (l.q.size - room.q.size)]
    BY <2>3 DEF PruneStep
  <2>5. Midway(l.q, room.q)
    BY <2>1, <2>3, RoomMid
  <2> HIDE DEF room, t
  <2>6. CASE l.needed <= 0
    <3>1. t = l
      BY <2>4, <2>6
    <3> QED BY <1>0, <2>1, <2>2, <3>1 DEF t
  <2>7. CASE ~(l.needed <= 0)
    <3>1. room.q \in Queues /\ room.q.size \in Nat /\ l.q.size \in Nat
      BY <2>3, <2>5, QueueType DEF Midway, Mid, Books, Ledger
    <3>2. l.needed - (l.q.size - room.q.size) \in Int
      BY <2>3, <3>1
    <3>3. PICK z \in Int : z = IF room.ok THEN 0 ELSE l.needed - (l.q.size - room.q.size)
      BY <3>2
    <3>4. t = [l EXCEPT !.q = room.q, !.needed = z]
      BY <2>4, <2>7, <3>3
    <3>5. t \in U /\ t.q = room.q
      BY <2>2, <3>1, <3>4 DEF U
    <3>6. Good(t)
      BY <2>3, <2>5, <3>5, MidwayAgain DEF Good
    <3> QED BY <1>0, <2>1, <2>2, <3>5, <3>6 DEF t
  <2> QED BY <2>3, <2>6, <2>7
<1> HIDE DEF start
<1>5. \A i \in 1 .. n : \A l \in S[i - 1] : f[i][l] \in S[i] /\ f[i][l] = PruneStep(l, i)
  BY <1>3
<1> HIDE DEF f, n
<1>6. \E r : r = [i \in 0 .. n |-> IF i = 0 THEN start ELSE PruneStep(r[i - 1], i)]
  <2>0. PICK r : LoopRounds(n, S, start, f, r)
    <3>1. LoopRoundsKeep(n, S, f)
      BY <1>5 DEF LoopRoundsKeep
    <3> QED BY <1>1, <1>2, <3>1, LoopExists
  <2>1. /\ r = [i \in 0 .. n |-> IF i = 0 THEN start ELSE f[i][r[i - 1]]]
        /\ \A i \in 0 .. n : r[i] \in S[i]
    BY <2>0 DEF LoopRounds
  <2>2. \A i \in 0 .. n : i # 0 => i \in 1 .. n /\ i - 1 \in 0 .. n
    BY <1>1
  <2>3. \A i \in 0 .. n : i # 0 => f[i][r[i - 1]] = PruneStep(r[i - 1], i)
    BY <1>5, <2>1, <2>2
  <2>4. r = [i \in 0 .. n |-> IF i = 0 THEN start ELSE PruneStep(r[i - 1], i)]
    BY <2>1, <2>3
  <2> QED BY <2>4
<1>7. PICK r : /\ r = [i \in 0 .. n |-> IF i = 0 THEN start ELSE PruneStep(r[i - 1], i)]
               /\ Loop(PruneStep, start, n) = r[n]
  BY <1>6, Zenon DEF Loop
<1>8. Loop(PruneStep, start, n) \in S[n]
  <2>1. r[0] = start /\ \A i \in 1 .. n : r[i] = PruneStep(r[i - 1], i)
    BY <1>1, <1>7
  <2>2. r[0] \in S[0]
    BY <1>2, <2>1
  <2>3. \A i \in 1 .. n : r[i - 1] \in S[i - 1] => r[i] \in S[i]
    BY <1>3, <2>1
  <2>4. \A i \in 0 .. n : r[i] \in S[i]
    BY <1>1, <2>2, <2>3, LoopInduction
  <2> QED BY <1>1, <1>7, <2>4
<1>9. PICK l : l = Loop(PruneStep, start, n)
  OBVIOUS
<1>10. Good(l)
  BY <1>0, <1>1, <1>8, <1>9
<1> QED BY <1>4, <1>9, <1>10 DEF Good


\* mq_swift_checkpoint()
LEMMA SwiftProperty ==
    ASSUME NEW q, Books(q), Srv(q), ~q.abort, q.flowc, q.swift, q.size <= MaxSize, q.discard => q.closing,
           NEW needed \in Int, NEW templates \in Seq(Nat)
    PROVE  LET r == mq_swift_checkpoint(q, needed, templates)
           IN  Sound(r) /\ r.closing = q.closing /\ PeerKept(q, r)
<1> DEFINE q1 == [q EXCEPT !.ev = "none"]
           q2 == IF q.size <= lowat THEN q1 ELSE Prune(q1, needed, templates)
           q3 == mq_update_flowc(q2, FALSE)
           r == mq_swift_checkpoint(q, needed, templates)
<1>1. r = IF q3.swift THEN [q3 EXCEPT !.ev = "timer"] ELSE q3
  BY DEF mq_swift_checkpoint
<1> HIDE DEF r
<1>2. q \in Queues /\ q.flowc \in BOOLEAN /\ q.swift \in BOOLEAN
  BY QueueType DEF Books, Ledger
<1>3. q1 \in Queues /\ q1.ev = "none"
  BY <1>2 DEF Queues
<1>4. /\ q1.queue = q.queue /\ q1.qlink = q.qlink /\ q1.linked = q.linked /\ q1.size = q.size
      /\ q1.flowc = q.flowc /\ q1.swift = q.swift /\ q1.discard = q.discard /\ q1.closing = q.closing
      /\ q1.qwait = q.qwait /\ q1.told = q.told /\ q1.abort = q.abort /\ q1.srv = q.srv
  BY <1>2 DEF Queues
<1> HIDE DEF q1
<1>5. Books(q1)
  BY <1>3, <1>4 DEF Books, Ledger, Arrayed
<1>6. Mid(q1)
  BY <1>3, <1>4, <1>5 DEF Mid, Srv
<1>7. PeerKept(q, q1)
  BY <1>4 DEF PeerKept, PeerOK, FlowName
<1>8. Midway(q1, q2)
  <2>1. CASE q.size <= lowat
    BY <1>6, <2>1 DEF Midway, PeerKept
  <2>2. CASE ~(q.size <= lowat)
    BY <1>6, <2>2, SwiftPrune
  <2> QED BY <2>1, <2>2
<1> HIDE DEF q2
<1>9. Mid(q2) /\ q2.closing = q.closing /\ q2.discard = q.discard /\ q2.qwait = q.qwait /\ PeerKept(q, q2)
  BY <1>4, <1>7, <1>8 DEF Midway, PeerKept
<1>10. /\ Books(q3) /\ Updated(q2, q3) /\ ~q3.abort /\ q3.ev = "none" /\ (q3.flowc <=> q3.swift)
       /\ (q3.size >= hiwat => q3.flowc) /\ q3.size <= MaxSize /\ (q3.queue # <<>> => q3.srv)
       /\ (q3.discard => q3.closing) /\ PeerKept(q2, q3)
  BY <1>9, MidUpdate DEF Mid, Srv
<1> HIDE DEF q3
<1>11. q3 \in Queues /\ q3.swift \in BOOLEAN /\ q3.flowc \in BOOLEAN
  BY <1>10, QueueType DEF Books, Ledger
<1>12. Srv(q3)
  <2>1. q3.queue = <<>> => ~q3.srv
    BY <1>9, <1>10 DEF Mid, Srv, Updated
  <2> QED BY <1>10, <2>1 DEF Srv
<1>13. FlowBounds(q3)
  BY <1>10 DEF Updated, FlowBounds
<1>14. PeerKept(q, q3) /\ q3.closing = q.closing
  BY <1>9, <1>10 DEF PeerKept, Updated
<1>15. CASE q3.swift
  <2>1. r = [q3 EXCEPT !.ev = "timer"]
    BY <1>1, <1>15
  <2>2. r \in Queues /\ r.ev = "timer"
    BY <1>11, <2>1 DEF Queues
  <2>3. /\ r.queue = q3.queue /\ r.qlink = q3.qlink /\ r.linked = q3.linked /\ r.size = q3.size
        /\ r.flowc = q3.flowc /\ r.swift = q3.swift /\ r.discard = q3.discard /\ r.closing = q3.closing
        /\ r.qwait = q3.qwait /\ r.told = q3.told /\ r.abort = q3.abort /\ r.srv = q3.srv
    BY <1>11, <2>1 DEF Queues
  <2>4. Books(r)
    BY <1>10, <2>2, <2>3 DEF Books, Ledger, Arrayed
  <2>5. FlowEvent(r)
    BY <1>10, <1>15, <2>2, <2>3 DEF FlowEvent
  <2>6. FlowBounds(r)
    <3>1. mq_tcp_flushed(q3) <=> mq_tcp_flushed(r)
      BY <2>3 DEF mq_tcp_flushed, Tail_
    <3> QED BY <1>13, <2>3, <3>1 DEF FlowBounds
  <2>7. Sound(r)
    BY <1>10, <1>12, <2>3, <2>4, <2>5, <2>6 DEF Sound, Flow, Srv
  <2>8. PeerKept(q, r)
    BY <1>14, <2>3 DEF PeerKept, PeerOK, FlowName
  <2> QED BY <1>14, <2>3, <2>7, <2>8 DEF r
<1>16. CASE ~q3.swift
  <2>1. r = q3
    BY <1>1, <1>16
  <2>2. FlowEvent(r)
    BY <1>10, <1>16, <2>1 DEF FlowEvent
  <2>3. Sound(r)
    BY <1>10, <1>12, <1>13, <2>1, <2>2 DEF Sound, Flow
  <2> QED BY <1>14, <2>1, <2>3 DEF r
<1> QED BY <1>11, <1>15, <1>16

----------------------------------------------------------------------------
(* The inductive invariant.                                                *)

\* Unless the node is told to leave or a message was torn, the peer is told the
\* state of flow control by the last Hops-Flow message set aside, otherwise by the
\* last one in the queue, otherwise by the last one it got.
Peer(q) == ~q.closing /\ ~q.abort /\ ~q.torn => PeerOK(q, Says(q.queue, q.told))

MqIInv == Sound(mq) /\ Peer(mq)

\* A new queue, or what is left of it once the node is removed.
Fresh(q) ==
    /\ q \in Queues /\ q.queue = <<>> /\ q.qlink = <<>> /\ q.size = 0 /\ q.qwait = <<>>
    /\ q.told = HopsFlow255.name /\ q.ev = "none"
    /\ ~q.linked /\ ~q.flowc /\ ~q.swift /\ ~q.discard /\ ~q.closing /\ ~q.srv /\ ~q.abort

\* A new queue is fresh, and one that is closed down too.
LEMMA NewFresh == Fresh(NewQueue) /\ Fresh([NewQueue EXCEPT !.down = TRUE])
<1>1. HopsFlow255.name \in STRING /\ MaxRoom \in 0 .. MaxRoom
  BY MqAssumption, Watermarks DEF KindType
<1>2. PICK s, a, v : s = <<>> /\ a = <<>> /\ v = <<>>
  OBVIOUS
<1>3. s \in Seq(Messages) /\ a \in Seq(Nat) /\ v \in Seq(AllKinds)
  BY <1>2
<1>4. PICK q : q = [queue |-> s, qlink |-> a, linked |-> FALSE, size |-> 0,
           flowc |-> FALSE, swift |-> FALSE, warn |-> FALSE, discard |-> FALSE, closing |-> FALSE,
           qwait |-> v, ev |-> "none", srv |-> FALSE, room |-> MaxRoom,
           down |-> FALSE, told |-> HopsFlow255.name, torn |-> FALSE, abort |-> FALSE]
  OBVIOUS
<1>5. NewQueue = q
  BY <1>2, <1>4, Zenon DEF NewQueue
<1>6. q \in Queues
  BY <1>1, <1>3, <1>4 DEF Queues
<1>7. q.queue = s /\ q.qlink = a /\ q.size = 0 /\ q.qwait = v /\ q.told = HopsFlow255.name /\ q.ev = "none"
  BY <1>4
<1>8. ~q.linked /\ ~q.flowc /\ ~q.swift /\ ~q.discard /\ ~q.closing /\ ~q.srv /\ ~q.abort
  BY <1>4
<1> HIDE <1>4
<1>9. Fresh(q)
  BY <1>2, <1>6, <1>7, <1>8 DEF Fresh
<1>10. PICK p : p = [q EXCEPT !.down = TRUE]
  OBVIOUS
<1>11. Fresh(p)
  BY <1>9, <1>10 DEF Fresh, Queues
<1> QED BY <1>5, <1>9, <1>10, <1>11

\* A fresh queue is sound, and its peer may send.
LEMMA FreshProperty ==
    ASSUME NEW q, Fresh(q)
    PROVE  Sound(q) /\ Peer(q)
<1>1. PICK s, v : s = q.queue /\ v = q.qwait
  OBVIOUS
<1>2. s = <<>> /\ v = <<>> /\ q.size = 0 /\ q \in Queues
  BY <1>1 DEF Fresh
<1>3. s \in Seq(Messages) /\ Len(s) = 0 /\ Len(v) = 0
  BY <1>2
<1>4. Listed(s)
  BY <1>3 DEF Listed
<1>5. Bytes(s) = 0
  BY <1>2, <1>4, BytesNat
<1>6. Books(q)
  BY <1>1, <1>2, <1>4, <1>5 DEF Fresh, Books, Ledger, Arrayed
<1>7. Srv(q)
  BY DEF Srv, Fresh
<1>8. ~(q.size >= hiwat) /\ q.size <= MaxSize
  BY <1>2, Watermarks
<1>9. Flow(q)
  BY <1>8 DEF Fresh, Flow, FlowBounds, FlowEvent
<1>10. Says(s, q.told) = q.told
  <2>1. \A i \in 1 .. Len(s) : ~IsHops(s[i])
    BY <1>3
  <2> QED BY <1>3, <2>1, SaysNone
<1>11. PeerOK(q, Says(q.queue, q.told))
  <2>1. Says(q.queue, q.told) = HopsFlow255.name /\ FlowName(q) = HopsFlow255.name
    BY <1>1, <1>10 DEF FlowName, Fresh
  <2>2. \A i \in 1 .. Len(q.qwait) : q.qwait[i] \in HopsFlows
    BY <1>1, <1>3
  <2> QED BY <1>1, <1>2, <2>1, <2>2 DEF PeerOK
<1> QED BY <1>6, <1>7, <1>8, <1>9, <1>11 DEF Fresh, Sound, Peer

\* The initial state has the inductive invariant.
LEMMA MqInitInv == MqInit => MqIInv
BY NewFresh, FreshProperty DEF MqInit, MqIInv

\* One lemma per action.
LEMMA PutqKeeps ==
    ASSUME NEW k \in Kind, MqIInv, Putq(k)
    PROVE  MqIInv'
<1>1. PICK ok \in CanSend(k) : mq' = mq_tcp_putq(mq, Message(mq, k), ok)
  BY DEF Putq
<1>2. ok \in BOOLEAN
  BY <1>1 DEF CanSend
<1>3. Sound(mq) /\ ~mq.abort /\ ~mq.torn /\ ~mq.closing /\ Listed(mq.queue)
  BY DEF MqIInv, Putq, Idle, Sound, Books, Ledger
<1>4. Open(mq)
  BY <1>3 DEF Open, Sound
<1>5. k \in AllKinds /\ k \notin HopsFlows
  BY MqAssumption DEF AllKinds
<1>6. PICK m : m = Message(mq, k)
  OBVIOUS
<1>7. m \in Messages /\ m.id \notin Ids(mq.queue) /\ Unread(m) /\ m.kind = k
  BY <1>3, <1>5, <1>6, NewMessage
<1>8. ~IsHops(m)
  BY <1>5, <1>7 DEF IsHops
<1>9. Put(mq, mq', Hears(mq, m))
  BY <1>1, <1>2, <1>4, <1>6, <1>7, <1>8, PutqProperty
<1>10. Hears(mq, m) = Says(mq.queue, mq.told)
  BY <1>8 DEF Hears
<1>11. PeerOK(mq, Says(mq.queue, mq.told))
  BY <1>3 DEF MqIInv, Peer
<1>12. Sound(mq') /\ Peer(mq')
  BY <1>9, <1>10, <1>11 DEF Put, Peer
<1> QED BY <1>12 DEF MqIInv

\* The messages set aside are put in their order.
LEMMA PeerHead ==
    ASSUME NEW q, q.qwait \in Seq(AllKinds), q.qwait # <<>>, NEW x, PeerOK(q, x),
           NEW r, r.qwait = Tail(q.qwait), r.flowc = q.flowc
    PROVE  Head(q.qwait) \in HopsFlows /\ PeerOK(r, Head(q.qwait).name)
<1>0. PICK v \in Seq(AllKinds) : v = q.qwait
  OBVIOUS
<1>1. PICK w : v = q.qwait /\ w = Tail(v)
  BY <1>0
<1>2. /\ v # <<>> /\ Len(v) \in Nat \ {0} /\ w \in Seq(AllKinds) /\ Len(w) = Len(v) - 1
      /\ Head(v) = v[1] /\ \A i \in 1 .. Len(w) : w[i] = v[i + 1]
  BY <1>1
<1>3. \A i \in 1 .. Len(v) : v[i] \in HopsFlows
  BY <1>1 DEF PeerOK
<1>4. v[Len(v)].name = FlowName(r)
  BY <1>1, <1>2 DEF PeerOK, FlowName
<1>5. ASSUME NEW i \in 1 .. Len(w) PROVE w[i] \in HopsFlows
  <2>1. i + 1 \in 1 .. Len(v)
    BY <1>2
  <2> QED BY <1>2, <1>3, <2>1
<1>6. (IF w = <<>> THEN v[1].name ELSE w[Len(w)].name) = FlowName(r)
  <2>1. CASE w = <<>>
    <3>1. Len(w) = 0
      BY <2>1
    <3>2. Len(v) = 1
      BY <1>2, <3>1
    <3> QED BY <1>4, <2>1, <3>2
  <2>2. CASE w # <<>>
    <3>1. Len(w) \in 1 .. Len(w) /\ Len(w) + 1 = Len(v)
      BY <1>2, <2>2
    <3>2. w[Len(w)] = v[Len(v)]
      BY <1>2, <3>1
    <3> QED BY <1>4, <2>2, <3>2
  <2> QED BY <2>1, <2>2
<1>7. r.qwait = w /\ Head(q.qwait) = v[1] /\ v[1] \in HopsFlows
  BY <1>1, <1>2, <1>3
<1> QED BY <1>5, <1>6, <1>7 DEF PeerOK

\* A queue that is closed is sound.
LEMMA ClosedProperty ==
    ASSUME NEW q, Sound(q), Peer(q)
    PROVE  Sound(Closed(q)) /\ Peer(Closed(q))
<1>1. CASE ~(q.closing /\ q.qwait = <<>>)
  BY <1>1 DEF Closed
<1>2. CASE q.closing /\ q.qwait = <<>>
  <2>1. PICK r : r = [q EXCEPT !.discard = TRUE]
    OBVIOUS
  <2>2. Closed(q) = r
    BY <1>2, <2>1 DEF Closed
  <2>3. q \in Queues
    BY DEF Sound, Books, Ledger
  <2>4. /\ r \in Queues /\ r.queue = q.queue /\ r.qlink = q.qlink /\ r.linked = q.linked /\ r.size = q.size
        /\ r.flowc = q.flowc /\ r.swift = q.swift /\ r.closing = q.closing
        /\ r.ev = q.ev /\ r.told = q.told /\ r.abort = q.abort /\ r.srv = q.srv
    BY <2>1, <2>3 DEF Queues
  <2>5. Books(r)
    BY <2>4 DEF Sound, Books, Ledger, Arrayed
  <2>6. mq_tcp_flushed(q) <=> mq_tcp_flushed(r)
    BY <2>4 DEF mq_tcp_flushed, Tail_
  <2>7. ~r.abort => Flow(r)
    BY <2>4, <2>6 DEF Sound, Flow, FlowBounds, FlowEvent
  <2>8. Sound(r)
    BY <1>2, <2>4, <2>5, <2>7 DEF Sound, Srv
  <2>9. Peer(r)
    BY <1>2, <2>4 DEF Peer
  <2> QED BY <2>2, <2>8, <2>9
<1> QED BY <1>1, <1>2

\* PutWaiting: the message set aside is put in the queue.
LEMMA PutWaitingKeeps ==
    ASSUME MqIInv, PutWaiting
    PROVE  MqIInv'
<1> DEFINE k == Head(mq.qwait)
           m == Message(mq, k)
           q == [mq EXCEPT !.qwait = Tail(@)]
           r == mq_tcp_putq(q, m, TRUE)
<1>1. mq' = Closed(r)
  BY DEF PutWaiting
<1>2. /\ Sound(mq) /\ ~mq.abort /\ ~mq.torn /\ ~mq.discard /\ mq.qwait # <<>> /\ mq \in Queues /\ Listed(mq.queue)
      /\ mq.qwait \in Seq(AllKinds)
  BY QueueType DEF MqIInv, PutWaiting, InPutq, Sound, Books, Ledger
<1>3. k \in AllKinds
  BY <1>2
<1>4. PICK w \in Seq(AllKinds) : w = Tail(mq.qwait)
  <2>1. Tail(mq.qwait) \in Seq(AllKinds)
    BY <1>2
  <2> QED BY <2>1, Zenon
<1>5. q = [mq EXCEPT !.qwait = w]
  BY <1>4
<1> HIDE DEF k, q
<1>6. /\ q \in Queues /\ q.qwait = w /\ q.queue = mq.queue /\ q.qlink = mq.qlink /\ q.linked = mq.linked
      /\ q.size = mq.size /\ q.flowc = mq.flowc /\ q.swift = mq.swift /\ q.closing = mq.closing
      /\ q.discard = mq.discard /\ q.ev = mq.ev /\ q.told = mq.told /\ q.abort = mq.abort /\ q.srv = mq.srv
      /\ q.torn = mq.torn
  BY <1>2, <1>5 DEF Queues
<1>7. Books(q)
  BY <1>2, <1>6 DEF Sound, Books, Ledger, Arrayed
<1>8. Flow(q)
  <2>1. mq_tcp_flushed(mq) <=> mq_tcp_flushed(q)
    BY <1>6 DEF mq_tcp_flushed, Tail_
  <2> QED BY <1>2, <1>6, <2>1 DEF Sound, Flow, FlowBounds, FlowEvent
<1>9. Open(q)
  BY <1>2, <1>6, <1>7, <1>8 DEF Open, Sound, Srv
<1>10. m \in Messages /\ m.id \notin Ids(q.queue) /\ Unread(m) /\ m.kind = k
  BY <1>2, <1>3, <1>6, NewMessage
<1> HIDE DEF m
<1>11. Put(q, r, Hears(q, m))
  BY <1>9, <1>10, PutqProperty
<1> HIDE DEF r
<1>12. Sound(r) /\ r.torn = mq.torn /\ (mq.closing => r.closing)
  BY <1>6, <1>11 DEF Put
<1>13. Peer(r)
  <2>1. SUFFICES ASSUME ~r.closing, ~r.abort PROVE PeerOK(r, Says(r.queue, r.told))
    BY DEF Peer
  <2>2. ~mq.closing
    BY <1>12, <2>1
  <2>3. PeerOK(mq, Says(mq.queue, mq.told))
    BY <1>2, <2>2 DEF MqIInv, Peer
  <2>4. k \in HopsFlows /\ PeerOK(q, k.name)
    BY <1>2, <1>4, <1>6, <2>3, PeerHead DEF k
  <2>5. Hears(q, m) = k.name
    BY <1>10, <2>4 DEF Hears, IsHops
  <2> QED BY <1>11, <2>1, <2>4, <2>5 DEF Put
<1>14. Sound(Closed(r)) /\ Peer(Closed(r))
  BY <1>12, <1>13, ClosedProperty
<1> QED BY <1>1, <1>14 DEF MqIInv

\* Drain: the stack accepts more, and the queue is serviced.
LEMMA DrainKeeps ==
    ASSUME NEW room \in 1 .. MaxRoom, MqIInv, Drain(room)
    PROVE  MqIInv'
<1> DEFINE q == [mq EXCEPT !.room = room]
<1>1. /\ Sound(mq) /\ Peer(mq) /\ ~mq.abort /\ ~mq.torn /\ mq \in Queues /\ room \in 0 .. MaxRoom
      /\ Books(mq) /\ mq.srv \in BOOLEAN
  BY MqAssumption, QueueType DEF MqIInv, Drain, Idle, Sound, Books, Ledger
<1>2. mq.qwait = <<>> \/ mq.discard
  BY DEF Drain, Idle, InPutq
<1>3. \/ mq.srv /\ \E refused \in SUBSET Refusable : mq' = mq_tcp_service(q, refused)
      \/ ~mq.srv /\ mq' = q
  BY DEF Drain
<1>4. /\ q \in Queues /\ q.queue = mq.queue /\ q.size = mq.size /\ q.qlink = mq.qlink /\ q.told = mq.told
      /\ q.torn = mq.torn
  BY <1>1 DEF Queues
<1>5. Steady(mq, q)
  BY <1>1 DEF Queues, Steady
<1> HIDE DEF q
<1>6. Books(q)
  BY <1>1, <1>4, <1>5 DEF Books, Ledger, Arrayed, Steady
<1>7. Sound(q) /\ \A x : PeerOK(mq, x) => PeerOK(q, x)
  BY <1>1, <1>4, <1>5, <1>6, SteadyKeeps, SteadySound
<1>8. Peer(q)
  BY <1>1, <1>4, <1>5, <1>7 DEF Peer, Steady
<1>9. CASE ~mq.srv /\ mq' = q
  BY <1>7, <1>8, <1>9 DEF MqIInv
<1>10. CASE mq.srv /\ \E refused \in SUBSET Refusable : mq' = mq_tcp_service(q, refused)
  <2>1. PICK refused \in SUBSET Refusable : mq' = mq_tcp_service(q, refused)
    BY <1>10
  <2>2. ASSUME NEW id \in refused PROVE Link(q, id).kind.check
    <3>1. id \in Refusable
      BY <2>1
    <3>2. Link(mq, id).kind.check
      BY <3>1 DEF Refusable
    <3>3. Link(q, id) = Link(mq, id)
      BY <1>4 DEF Link, IndexOf
    <3> QED BY <3>2, <3>3
  <2>3. ~q.abort /\ q.srv /\ q.qwait = mq.qwait /\ q.discard = mq.discard /\ q.closing = mq.closing
    BY <1>1, <1>5, <1>10 DEF Steady
  <2>4. PICK r : r = mq_tcp_service(q, refused)
    OBVIOUS
  <2>5. Sound(r) /\ r.abort = q.abort /\ r.closing = q.closing /\ PeerKept(q, r)
    BY <1>7, <2>2, <2>3, <2>4, ServiceProperty
  <2>6. Peer(r)
    <3>1. SUFFICES ASSUME ~r.closing PROVE PeerOK(r, Says(r.queue, r.told))
      BY DEF Peer
    <3>2. ~q.closing /\ ~q.discard
      BY <1>7, <2>5, <3>1 DEF Sound
    <3>3. q.qwait = <<>>
      BY <1>2, <2>3, <3>2
    <3>4. PeerOK(q, Says(q.queue, q.told))
      BY <1>1, <1>4, <1>8, <2>3, <3>2 DEF Peer
    <3> QED BY <2>5, <3>2, <3>3, <3>4 DEF PeerKept
  <2> QED BY <2>1, <2>4, <2>5, <2>6 DEF MqIInv
<1> QED BY <1>3, <1>9, <1>10

\* Both events of swift mode.
LEMMA CheckpointKeeps ==
    ASSUME MqIInv, Idle, mq.flowc, NEW q, q = [mq EXCEPT !.swift = TRUE], NEW needed \in 0 .. MaxSize,
           NEW templates \in Seq(Nat), NEW r, r = mq_swift_checkpoint(q, needed, templates)
    PROVE  Sound(r) /\ Peer(r)
<1>1. Sound(mq) /\ Peer(mq) /\ ~mq.abort /\ ~mq.torn /\ mq \in Queues /\ needed \in Int
  BY Watermarks DEF MqIInv, Idle, Sound, Books, Ledger
<1>2. mq.qwait = <<>> \/ mq.discard
  BY DEF Idle, InPutq
<1>3. /\ q \in Queues /\ q.swift = TRUE /\ q.queue = mq.queue /\ q.qlink = mq.qlink /\ q.linked = mq.linked
      /\ q.size = mq.size /\ q.flowc = mq.flowc /\ q.closing = mq.closing /\ q.qwait = mq.qwait
      /\ q.discard = mq.discard /\ q.told = mq.told /\ q.abort = mq.abort /\ q.srv = mq.srv
  BY <1>1 DEF Queues
<1>4. Books(q)
  BY <1>1, <1>3 DEF Sound, Books, Ledger, Arrayed
<1>5. Srv(q) /\ ~q.abort /\ q.flowc /\ q.swift /\ q.size <= MaxSize /\ (q.discard => q.closing)
  BY <1>1, <1>3 DEF Sound, Srv
<1>6. Sound(r) /\ r.closing = q.closing /\ PeerKept(q, r)
  BY <1>1, <1>4, <1>5, SwiftProperty
<1>7. Peer(r)
  <2>1. SUFFICES ASSUME ~r.closing PROVE PeerOK(r, Says(r.queue, r.told))
    BY DEF Peer
  <2>2. ~mq.closing /\ ~mq.discard
    BY <1>1, <1>3, <1>6, <2>1 DEF Sound
  <2>3. q.qwait = <<>> /\ ~q.discard
    BY <1>2, <1>3, <2>2
  <2>4. PeerOK(mq, Says(mq.queue, mq.told))
    BY <1>1, <2>2 DEF Peer
  <2>5. PeerOK(q, Says(q.queue, q.told))
    BY <1>3, <2>4 DEF PeerOK, FlowName
  <2> QED BY <1>6, <2>3, <2>5 DEF PeerKept
<1> QED BY <1>6, <1>7

\* The templates of swift mode are ranks.
LEMMA TemplateType == Templates[1] \in Seq(Nat) /\ Templates[2] \in Seq(Nat)
BY MqAssumption

\* EnterSwift: messages are dropped, and the timer is armed.
LEMMA EnterSwiftKeeps ==
    ASSUME MqIInv, EnterSwift
    PROVE  MqIInv'
<1>1. PICK needed \in 0 .. MaxSize : mq' = mq_swift_checkpoint([mq EXCEPT !.swift = TRUE], needed, Templates[1])
  BY DEF EnterSwift
<1>2. Idle /\ mq.ev = "enter"
  BY DEF EnterSwift
<1>3. mq.flowc
  BY <1>2 DEF MqIInv, Idle, Sound, Flow, FlowEvent
<1>4. PICK q : q = [mq EXCEPT !.swift = TRUE]
  OBVIOUS
<1>5. PICK r : r = mq_swift_checkpoint(q, needed, Templates[1])
  OBVIOUS
<1>6. Sound(r) /\ Peer(r)
  BY <1>2, <1>3, <1>4, <1>5, CheckpointKeeps, TemplateType
<1> QED BY <1>1, <1>4, <1>5, <1>6 DEF MqIInv

\* SwiftTimer: more messages are dropped.
LEMMA SwiftTimerKeeps ==
    ASSUME MqIInv, SwiftTimer
    PROVE  MqIInv'
<1>1. PICK needed \in 0 .. MaxSize : mq' = mq_swift_checkpoint(mq, needed, Templates[2])
  BY DEF SwiftTimer
<1>2. Idle /\ mq.ev = "timer"
  BY DEF SwiftTimer
<1>3. mq.flowc /\ mq.swift /\ mq \in Queues
  BY <1>2 DEF MqIInv, Idle, Sound, Flow, FlowEvent, Books, Ledger
<1>4. mq = [mq EXCEPT !.swift = TRUE]
  <2>1. mq.swift = TRUE
    BY <1>3, QueueType
  <2> QED BY <1>3, <2>1 DEF Queues
<1>5. PICK r : r = mq_swift_checkpoint(mq, needed, Templates[2])
  OBVIOUS
<1>6. Sound(r) /\ Peer(r)
  BY <1>2, <1>3, <1>4, <1>5, CheckpointKeeps, TemplateType
<1> QED BY <1>1, <1>5, <1>6 DEF MqIInv

\* NodeBye: the queue is emptied but for what is partially written, and discards.
LEMMA NodeByeKeeps ==
    ASSUME MqIInv, NodeBye
    PROVE  MqIInv'
<1>1. Sound(mq) /\ ~mq.abort /\ mq' = node_bye(mq, FALSE) /\ FALSE \in BOOLEAN
  BY DEF MqIInv, NodeBye, Idle
<1>2. Sound(mq') /\ mq'.closing
  BY <1>1, NodeByeProperty
<1> QED BY <1>2 DEF MqIInv, Peer

\* RemoveNode: a new queue replaces the old one.
LEMMA RemoveNodeKeeps ==
    ASSUME RemoveNode
    PROVE  MqIInv'
<1>1. Fresh(mq')
  BY NewFresh DEF RemoveNode
<1> QED BY <1>1, FreshProperty DEF MqIInv

\* Every step keeps the inductive invariant.
LEMMA MqNextInv == MqIInv /\ [MqNext]_mq => MqIInv'
<1>1. SUFFICES ASSUME MqIInv, [MqNext]_mq PROVE MqIInv'
  OBVIOUS
<1>2. ASSUME NEW k \in Kind, Putq(k) PROVE MqIInv'
  BY <1>1, <1>2, PutqKeeps
<1>3. CASE PutWaiting
  BY <1>1, <1>3, PutWaitingKeeps
<1>4. ASSUME NEW room \in 1 .. MaxRoom, Drain(room) PROVE MqIInv'
  BY <1>1, <1>4, DrainKeeps
<1>5. CASE EnterSwift
  BY <1>1, <1>5, EnterSwiftKeeps
<1>6. CASE SwiftTimer
  BY <1>1, <1>6, SwiftTimerKeeps
<1>7. CASE NodeBye
  BY <1>1, <1>7, NodeByeKeeps
<1>8. CASE RemoveNode
  BY <1>8, RemoveNodeKeeps
<1>9. CASE UNCHANGED mq
  BY <1>1, <1>9 DEF MqIInv
<1> QED BY <1>1, <1>2, <1>3, <1>4, <1>5, <1>6, <1>7, <1>8, <1>9 DEF MqNext

\* The invariant holds in every reachable state.
LEMMA MqIInvariant == MqSpec => []MqIInv
<1>1. MqInit => MqIInv
  BY MqInitInv
<1>2. MqIInv /\ [MqNext]_mq => MqIInv'
  BY MqNextInv
<1> QED BY <1>1, <1>2, PTL DEF MqSpec

----------------------------------------------------------------------------
(* What it means.                                                          *)

\* The books of a queue are never wrong, for any kinds of messages, sizes and
\* watermarks: its size is what its messages have left to write and does not pass
\* the maximum, and the sorted array that make_room() walks and qlink_insert(),
\* qlink_remove() and the compaction maintain holds each message of it once.
THEOREM MqInvariant == MqSpec => []MqInv
<1>1. MqIInv => MqInv
  <2>1. SUFFICES ASSUME MqIInv PROVE MqInv
    OBVIOUS
  <2>2. PICK s : s = mq.queue
    OBVIOUS
  <2>3. Books(mq) /\ mq \in Queues /\ Listed(s) /\ mq.size = Bytes(s) /\ mq.size <= MaxSize
    BY <2>1, <2>2 DEF MqIInv, Sound, Books, Ledger
  <2>4. DOMAIN mq.queue = 1 .. Len(s)
    BY <2>2, <2>3 DEF Listed
  <2>5. MqTypeOK(mq)
    <3>1. \A i, j \in DOMAIN mq.queue : mq.queue[i].id = mq.queue[j].id => i = j
      BY <2>2, <2>3, <2>4 DEF Listed
    <3>2. \A i \in DOMAIN mq.queue : mq.queue[i].left <= mq.queue[i].kind.size
      BY <2>2, <2>3, <2>4 DEF Listed
    <3>3. ~mq.linked => mq.qlink = <<>>
      BY <2>3 DEF Books, Arrayed
    <3> QED BY <2>3, <3>1, <3>2, <3>3 DEF MqTypeOK
  <2>6. SizeExact(mq)
    BY <2>2, <2>3 DEF SizeExact, Bytes
  <2>7. QlinkExact(mq)
    <3>1. SUFFICES ASSUME mq.linked, ~mq.abort
                   PROVE  /\ \A id \in Queued(mq) : \E n \in DOMAIN mq.qlink : mq.qlink[n] = id
                          /\ \A n \in DOMAIN mq.qlink : mq.qlink[n] \in Queued(mq) \cup {0}
                          /\ \A n, k \in DOMAIN mq.qlink : mq.qlink[n] = mq.qlink[k] /\ n # k => mq.qlink[n] = 0
      BY DEF QlinkExact
    <3>2. PICK a, I : a = mq.qlink /\ I = Queued(mq)
      OBVIOUS
    <3>3. Holds(a, I)
      BY <2>3, <3>1, <3>2, QueuedIds DEF Books, Arrayed
    <3>4. DOMAIN a = 1 .. Len(a)
      BY <3>3 DEF Holds
    <3>5. \A id \in I : \E n \in DOMAIN a : a[n] = id
      BY <3>3, <3>4 DEF Holds
    <3>6. \A n \in DOMAIN a : a[n] \in I \cup {0}
      BY <3>3, <3>4 DEF Holds
    <3>7. \A n, k \in DOMAIN a : a[n] = a[k] /\ n # k => a[n] = 0
      BY <3>3, <3>4 DEF Holds
    <3> QED BY <3>2, <3>5, <3>6, <3>7
  <2> QED BY <2>5, <2>6, <2>7 DEF MqInv
<1> QED BY <1>1, MqIInvariant, PTL

\* mq_tcp_service() always goes on with the message it has started to write, and
\* then takes messages by decreasing priority, whatever mq_tcp_putq() inserted and
\* make_room(), mq_clear() and the pre-send checks dropped in between.
THEOREM MqSendingOrder == MqSpec => []SendingOrder
<1>1. MqIInv => SendingOrder
  <2>1. SUFFICES ASSUME MqIInv PROVE SendingOrder
    OBVIOUS
  <2>2. PICK s : s = mq.queue
    OBVIOUS
  <2>3. Listed(s)
    BY <2>1, <2>2 DEF MqIInv, Sound, Books, Ledger
  <2>4. DOMAIN s = 1 .. Len(s)
    BY <2>3 DEF Listed
  <2>5. FrameIntact(mq)
    BY <2>2, <2>3, <2>4 DEF Listed, FrameIntact, Unread, pmsg_is_unread
  <2>6. PriorityOrder(mq)
    BY <2>2, <2>3, <2>4 DEF Listed, PriorityOrder, Unread, pmsg_is_unread
  <2> QED BY <2>5, <2>6 DEF SendingOrder
<1> QED BY <1>1, MqIInvariant, PTL

\* The TX stack is asked to call mq_tcp_service() exactly when there is something
\* to send: the queue neither stalls nor is serviced for nothing, although four
\* places enable or disable the service.
THEOREM MqServiced == MqSpec => []ServicedWhenQueued
<1>1. MqIInv => ServicedWhenQueued
  BY DEF MqIInv, Sound, Srv, ServicedWhenQueued
<1> QED BY <1>1, MqIInvariant, PTL

\* Flow control is never missed at the high watermark nor kept below the low one
\* once the last message is flushed, and the one event of mq->swift_ev is pending
\* exactly meanwhile, whichever of putq, service, make_room() or the swift
\* checkpoint moved the size across a watermark.
THEOREM MqFlowControl == MqSpec => []FlowcExact
<1>1. MqIInv => FlowcExact
  BY DEF MqIInv, Sound, Flow, FlowcExact
<1> QED BY <1>1, MqIInvariant, PTL

\* What the peer is told by the last Hops-Flow message is the state of flow control:
\* none is overtaken by an earlier one, dropped, or left aside by mq_tcp_putq().
THEOREM MqPeerTold == MqSpec => []PeerTold
<1>1. MqIInv => PeerTold
  <2>1. SUFFICES ASSUME MqIInv, Idle, ~mq.closing PROVE LastHopsFlow(mq) = FlowName(mq)
    BY DEF PeerTold
  <2>2. ~mq.discard /\ ~mq.abort /\ ~mq.torn
    BY <2>1 DEF MqIInv, Sound, Idle
  <2>3. mq.qwait = <<>>
    BY <2>1, <2>2 DEF Idle, InPutq
  <2>4. PeerOK(mq, Says(mq.queue, mq.told))
    BY <2>1, <2>2 DEF MqIInv, Peer
  <2>5. Says(mq.queue, mq.told) = FlowName(mq)
    BY <2>3, <2>4 DEF PeerOK
  <2> QED BY <2>5, SaysLast
<1> QED BY <1>1, MqIInvariant, PTL
=============================================================================
