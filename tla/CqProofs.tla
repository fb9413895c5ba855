------------------------------ MODULE CqProofs ------------------------------
(***************************************************************************)
(* Proofs about the callout queue: CqInv holds of every behaviour, for any *)
(* number of buckets, events and slots, any nesting of cq_clock(),         *)
(* cq_expire() and callbacks, and any delays; no event is overdue after a  *)
(* scan, events are called out in order, and cq_delay() is exact, when     *)
(* heartbeats do not go round the hash list.                               *)
(***************************************************************************)
EXTENDS Cq, CollectionLemmas, TLAPS

Bucket == 0 .. HashSize - 1

\* A bucket is sorted by trigger time and holds no event twice.
Sorted(evs, s) ==
    /\ IsInjective(s)
    /\ \A i, j \in DOMAIN s : i < j => evs[s[i]].time <= evs[s[j]].time

\* The events linked whose trigger time hashes to b.
HashedTo(evs, b) == {e \in Event : evs[e].st = "linked" /\ EV_HASH(evs[e].time) = b}

\* Each bucket holds the events that hash to it, sorted.
BucketsOK == \A b \in Bucket : Sorted(ev, bucket[b]) /\ Range(bucket[b]) = HashedTo(ev, b)

\* What cq_call and cq_call_extended are, or will be again once the calls
\* above have returned, for the i-th call under way.
CallOf(i) ==
    IF i = Len(stack) THEN call
    ELSE IF stack[i + 1].kind = "clock" THEN stack[i + 1].old_call ELSE stack[i + 1].saved_call
ExtOf(i) ==
    IF i = Len(stack) THEN call_extended
    ELSE IF stack[i + 1].kind = "clock" THEN stack[i + 1].old_ext ELSE stack[i + 1].saved_ext

\* The i-th frame is a callback whose event is freed when it returns.
Owns(i) == stack[i].kind = "call" /\ ~(stack[i].acked /\ ExtOf(i))

\* cq_clock() runs between two heartbeats or from a callback; it is below
\* the callbacks of the events that it found to be due, and of no others.
NestingOK ==
    \A i \in DOMAIN stack :
        IF stack[i].kind = "clock" THEN i = 1 \/ stack[i - 1].kind = "call"
        ELSE stack[i].by = "clock" <=> i > 1 /\ stack[i - 1].kind = "clock"

\* Every callback under way, and not the innermost only, has its event as
\* its current call until it acknowledges it, and none afterwards.
CurrentOK ==
    \A i \in Calls(stack) :
        /\ ~stack[i].acked => CallOf(i) = stack[i].ev /\ ExtOf(i) = ev[stack[i].ev].ext
        /\ stack[i].acked => CallOf(i) = Null
        /\ Owns(i) => ev[stack[i].ev].st = "called"

\* Each event called out is owned by one callback.
OwnedOnce ==
    /\ \A i, j \in DOMAIN stack : Owns(i) /\ Owns(j) /\ stack[i].ev = stack[j].ev => i = j
    /\ \A e \in Event : ev[e].st = "called" => \E i \in DOMAIN stack : Owns(i) /\ stack[i].ev = e

\* The i-th frame is a callback that has not acknowledged its event e.
Unacked(i, e) == stack[i].kind = "call" /\ stack[i].ev = e /\ ~stack[i].acked

\* A slot refers to an event of its own that is linked, or being called out.
SlotsOK ==
    /\ \A s \in Slot : handle[s] # Null =>
          /\ ev[handle[s]].slot = s
          /\ ev[handle[s]].st = "linked" \/ \E i \in DOMAIN stack : Unacked(i, handle[s])
    /\ \A e \in Event : ev[e].slot # Null => ~ev[e].ext

\* The inductive invariant.
CqIInv == CqTypeOK /\ BucketsOK /\ NestingOK /\ CurrentOK /\ OwnedOnce /\ SlotsOK

----------------------------------------------------------------------------
(* The hash of trigger times.                                              *)

\* What division gives for a positive divisor.
LEMMA DivMod ==
    ASSUME NEW x \in Int, NEW m \in Nat \ {0}
    PROVE  /\ x \div m \in Int /\ x % m \in 0 .. m - 1
           /\ x = (x \div m) * m + (x % m)
<1>1. x \div m \in Int /\ x % m \in 0 .. m - 1
  OBVIOUS
<1>2. x = m * (x \div m) + (x % m)
  OBVIOUS
<1> QED BY <1>1, <1>2

\* A number between 0 and m has one multiple of m only below it.
LEMMA MultipleBelow ==
    ASSUME NEW m \in Nat \ {0}, NEW a \in Int, NEW b \in Int, NEW r \in 0 .. m - 1, NEW s \in 0 .. m - 1,
           a * m + r = b * m + s
    PROVE  a = b /\ r = s
<1>1. ASSUME NEW k \in Int, NEW j \in Int, NEW u \in 0 .. m - 1, NEW v \in 0 .. m - 1,
             k * m + u = j * m + v, k > j
      PROVE  FALSE
  <2>1. PICK d \in Nat : k = j + 1 + d
    <3>1. k - j - 1 \in Nat /\ k = j + 1 + (k - j - 1)
      BY <1>1
    <3> QED BY <3>1
  <2>2. k * m = j * m + m + d * m
    BY <2>1
  <2>3. d * m \in Nat /\ j * m \in Int
    OBVIOUS
  <2>4. m + d * m + u = v
    BY <1>1, <2>2, <2>3
  <2> QED BY <2>3, <2>4
<1>2. ~(a > b) /\ ~(b > a)
  BY <1>1
<1>3. a = b
  BY <1>2
<1>4. a * m \in Int
  OBVIOUS
<1> QED BY <1>3, <1>4

\* Adding a multiple of the divisor adds to the quotient only.
LEMMA DivShift ==
    ASSUME NEW x \in Int, NEW k \in Int, NEW m \in Nat \ {0}
    PROVE  /\ (x - k * m) \div m = (x \div m) - k
           /\ (x - k * m) % m = x % m
<1> DEFINE y == x - k * m
           a == x \div m
           r == x % m
           b == y \div m
           s == y % m
<1>1. y \in Int /\ k * m \in Int
  OBVIOUS
<1>2. a \in Int /\ r \in 0 .. m - 1 /\ x = a * m + r
  BY DivMod
<1>3. b \in Int /\ s \in 0 .. m - 1 /\ y = b * m + s
  BY <1>1, DivMod
<1>4. y = x - k * m
  OBVIOUS
<1> HIDE DEF y, a, r, b, s
<1>5. (a - k) * m = a * m - k * m
  BY <1>2
<1>6. a * m \in Int /\ b * m \in Int /\ a - k \in Int
  BY <1>2, <1>3
<1>7. (a - k) * m + r = b * m + s
  BY <1>1, <1>2, <1>3, <1>4, <1>5, <1>6
<1>8. b = a - k /\ s = r
  BY <1>2, <1>3, <1>6, <1>7, MultipleBelow
<1> QED BY <1>8 DEF y, a, r, b, s

\* EV_HASH() yields a bucket, which whole spans do not change.
LEMMA HashProperty ==
    ASSUME NEW x \in Int
    PROVE  /\ EV_HASH(x) \in Bucket
           /\ \A k \in Int : EV_HASH(x - k * Span) = EV_HASH(x)
<1>1. HashSize \in Nat \ {0} /\ Res \in Nat \ {0}
  BY CqAssumption
<1>2. x \div Res \in Int
  BY <1>1, DivMod
<1>3. EV_HASH(x) \in Bucket
  BY <1>1, <1>2, DivMod DEF EV_HASH, Bucket
<1>4. ASSUME NEW k \in Int PROVE EV_HASH(x - k * Span) = EV_HASH(x)
  <2>1. k * HashSize \in Int
    BY <1>1
  <2>2. k * Span = (k * HashSize) * Res
    BY <1>1 DEF Span
  <2>3. (x - (k * HashSize) * Res) \div Res = (x \div Res) - k * HashSize
    BY <1>1, <2>1, DivShift
  <2>4. ((x \div Res) - k * HashSize) % HashSize = (x \div Res) % HashSize
    BY <1>1, <1>2, DivShift
  <2> QED BY <2>2, <2>3, <2>4 DEF EV_HASH
<1> QED BY <1>3, <1>4

----------------------------------------------------------------------------
(* Buckets.                                                                *)

\* Where ev_link() puts an event: after those that trigger no later.
LEMMA LinkPlace ==
    ASSUME NEW s \in Seq(Event), NEW t \in Int, NEW evs, Sorted(evs, s),
           \A x \in Event : evs[x].time \in Int
    PROVE  LET k == Min({i \in DOMAIN s : evs[s[i]].time > t} \cup {Len(s) + 1})
           IN  /\ k \in 1 .. Len(s) + 1
               /\ \A i \in 1 .. k - 1 : evs[s[i]].time <= t
               /\ \A i \in k .. Len(s) : t <= evs[s[i]].time
<1> DEFINE I == {i \in DOMAIN s : evs[s[i]].time > t} \cup {Len(s) + 1}
<1>1. Len(s) \in Nat /\ DOMAIN s = 1 .. Len(s) /\ I \subseteq Nat /\ I # {}
  OBVIOUS
<1>2. PICK k \in I : k = Min(I)
  BY <1>1, MinProperty
<1>3. k \in 1 .. Len(s) + 1 /\ \A i \in I : k <= i
  BY <1>1, <1>2, MinProperty
<1>4. \A i \in DOMAIN s : s[i] \in Event
  OBVIOUS
<1>5. \A i \in 1 .. k - 1 : evs[s[i]].time <= t
  <2> TAKE i \in 1 .. k - 1
  <2>1. i \notin I /\ i \in DOMAIN s
    BY <1>1, <1>3
  <2>2. ~(evs[s[i]].time > t) /\ evs[s[i]].time \in Int
    BY <1>4, <2>1
  <2> QED BY <2>2
<1>6. \A i \in k .. Len(s) : t <= evs[s[i]].time
  <2> TAKE i \in k .. Len(s)
  <2>1. i \in DOMAIN s /\ k \in DOMAIN s
    BY <1>1, <1>3
  <2>2. evs[s[k]].time > t
    BY <1>1, <2>1
  <2>3. evs[s[k]].time <= evs[s[i]].time
    BY <1>3, <1>4, <2>1 DEF Sorted
  <2> QED BY <1>4, <2>1, <2>2, <2>3
<1> QED BY <1>2, <1>3, <1>5, <1>6

\* A bucket remains sorted when an event is put there.
LEMMA InsertSorted ==
    ASSUME NEW s \in Seq(Event), NEW e \in Event, NEW t \in Int, NEW evs, NEW new, NEW k \in 1 .. Len(s) + 1,
           \A x \in Event : evs[x].time \in Int,
           Sorted(evs, s), e \notin Range(s),
           \A x \in Range(s) : new[x].time = evs[x].time,
           new[e].time = t,
           \A i \in 1 .. k - 1 : evs[s[i]].time <= t,
           \A i \in k .. Len(s) : t <= evs[s[i]].time
    PROVE  LET z == InsertAt(s, k, e)
           IN  z \in Seq(Event) /\ Range(z) = Range(s) \cup {e} /\ Sorted(new, z)
<1>1. Len(s) \in Nat /\ DOMAIN s = 1 .. Len(s)
  OBVIOUS
<1>3. k \in 1 .. Len(s) + 1
  OBVIOUS
<1>4. \A i \in DOMAIN s : s[i] \in Range(s) /\ s[i] \in Event /\ s[i] # e
  BY DEF Range
<1>5. \A i \in 1 .. k - 1 : evs[s[i]].time <= t
  OBVIOUS
<1>6. \A i \in k .. Len(s) : t <= evs[s[i]].time
  OBVIOUS
<1> DEFINE z == InsertAt(s, k, e)
<1>7. /\ z \in Seq(Event) /\ Len(z) = Len(s) + 1 /\ z[k] = e
      /\ \A i \in 1 .. k - 1 : z[i] = s[i]
      /\ \A i \in k + 1 .. Len(s) + 1 : z[i] = s[i - 1]
  BY <1>3, InsertAtProperty
<1> HIDE DEF z
<1>9. DOMAIN z = 1 .. Len(s) + 1
  BY <1>7
<1>10. \A i \in DOMAIN s : \E j \in DOMAIN z : z[j] = s[i]
  <2> TAKE i \in DOMAIN s
  <2>1. CASE i < k
    <3>1. i \in 1 .. k - 1 /\ i \in DOMAIN z
      BY <1>1, <1>3, <1>9, <2>1
    <3> QED BY <1>7, <3>1
  <2>2. CASE i >= k
    <3>1. i + 1 \in k + 1 .. Len(s) + 1 /\ (i + 1) - 1 = i
      BY <1>1, <1>3, <2>2
    <3> QED BY <1>3, <1>7, <1>9, <3>1
  <2> QED BY <1>1, <1>3, <2>1, <2>2
<1>11. \A j \in DOMAIN z : z[j] = e \/ \E i \in DOMAIN s : z[j] = s[i]
  <2> TAKE j \in DOMAIN z
  <2>1. CASE j < k
    BY <1>1, <1>3, <1>7, <1>9, <2>1
  <2>2. CASE j > k
    <3>1. j \in k + 1 .. Len(s) + 1 /\ j - 1 \in DOMAIN s
      BY <1>1, <1>3, <1>9, <2>2
    <3> QED BY <1>7, <3>1
  <2>3. CASE j = k
    BY <1>7, <2>3
  <2> QED BY <1>3, <1>9, <2>1, <2>2, <2>3
<1>12. Range(z) = Range(s) \cup {e}
  <2>1. \A x : x \in Range(z) <=> x \in Range(s) \cup {e}
    <3> TAKE x
    <3>1. x \in Range(z) => x \in Range(s) \cup {e}
      BY <1>11 DEF Range
    <3>2. x \in Range(s) => x \in Range(z)
      BY <1>10 DEF Range
    <3>3. e \in Range(z)
      BY <1>3, <1>7, <1>9 DEF Range
    <3> QED BY <3>1, <3>2, <3>3
  <2> QED BY <2>1
<1>13. ASSUME NEW i \in DOMAIN z, NEW j \in DOMAIN z, i < j
       PROVE  z[i] # z[j] /\ new[z[i]].time <= new[z[j]].time
  <2>1. CASE j < k
    <3>1. z[i] = s[i] /\ z[j] = s[j] /\ i \in DOMAIN s /\ j \in DOMAIN s /\ i # j
      BY <1>1, <1>3, <1>7, <1>9, <1>13, <2>1
    <3> QED BY <1>4, <1>13, <3>1 DEF Sorted, IsInjective
  <2>2. CASE j = k
    <3>1. z[i] = s[i] /\ i \in DOMAIN s /\ i \in 1 .. k - 1 /\ z[j] = e
      BY <1>1, <1>3, <1>7, <1>9, <1>13, <2>2
    <3> QED BY <1>4, <1>5, <3>1
  <2>3. CASE i = k
    <3>1. z[i] = e /\ j - 1 \in DOMAIN s /\ j - 1 \in k .. Len(s) /\ z[j] = s[j - 1]
      BY <1>1, <1>3, <1>7, <1>9, <1>13, <2>3
    <3> QED BY <1>4, <1>6, <3>1
  <2>4. CASE i < k /\ j > k
    <3>2. i \in DOMAIN s /\ j - 1 \in DOMAIN s /\ i \in 1 .. k - 1 /\ j - 1 \in k .. Len(s)
      BY <1>1, <1>3, <1>9, <1>13, <2>4
    <3>3. z[i] = s[i] /\ z[j] = s[j - 1] /\ i < j - 1
      BY <1>1, <1>3, <1>7, <1>9, <1>13, <2>4
    <3> QED BY <1>4, <3>2, <3>3 DEF Sorted, IsInjective
  <2>5. CASE i > k
    <3>1. /\ i - 1 \in DOMAIN s /\ j - 1 \in DOMAIN s /\ i - 1 < j - 1 /\ i - 1 # j - 1
          /\ z[i] = s[i - 1] /\ z[j] = s[j - 1]
      BY <1>1, <1>3, <1>7, <1>9, <1>13, <2>5
    <3> QED BY <1>4, <3>1 DEF Sorted, IsInjective
  <2> QED BY <1>3, <1>9, <1>13, <2>1, <2>2, <2>3, <2>4, <2>5
<1>14. Sorted(new, z)
  <2>1. \A i, j \in DOMAIN z : i # j => i < j \/ j < i
    BY <1>1, <1>9
  <2>2. IsInjective(z)
    BY <1>13, <2>1, Zenon DEF IsInjective
  <2> QED BY <1>13, <2>2 DEF Sorted
<1> QED BY <1>7, <1>12, <1>14 DEF z

\* ev_unlink() keeps the order.
LEMMA RemoveSorted ==
    ASSUME NEW s \in Seq(Event), NEW e \in Range(s), NEW evs, NEW new,
           Sorted(evs, s),
           \A x \in Range(s) : x # e => new[x].time = evs[x].time
    PROVE  LET z == RemoveFirst(s, e)
           IN  z \in Seq(Event) /\ Range(z) = Range(s) \ {e} /\ Sorted(new, z)
<1> DEFINE z == RemoveFirst(s, e)
<1>1. IsInjective(s)
  BY DEF Sorted
<1>2. z \in Seq(Event) /\ IsInjective(z) /\ Range(z) = Range(s) \ {e}
  BY <1>1, RemoveRange
<1>3. z \in Seq(Event) /\ Len(z) = Len(s) - 1 /\ DOMAIN z = 1 .. Len(s) - 1
  BY RemoveShape
<1>4. PICK k \in 1 .. Len(s) : \A i \in 1 .. Len(s) - 1 : z[i] = IF i < k THEN s[i] ELSE s[i + 1]
  BY RemoveShape
<1> HIDE DEF z
<1>5. Len(s) \in Nat /\ DOMAIN s = 1 .. Len(s)
  OBVIOUS
<1>6. ASSUME NEW i \in DOMAIN z, NEW j \in DOMAIN z, i < j
      PROVE  new[z[i]].time <= new[z[j]].time
  <2>1. z[i] \in Range(z) /\ z[j] \in Range(z)
    BY DEF Range
  <2>2. new[z[i]].time = evs[z[i]].time /\ new[z[j]].time = evs[z[j]].time
    BY <1>2, <2>1
  <2>3. PICK a \in DOMAIN s, b \in DOMAIN s : z[i] = s[a] /\ z[j] = s[b] /\ a < b
    <3>1. i \in 1 .. Len(s) - 1 /\ j \in 1 .. Len(s) - 1
      BY <1>3
    <3>2. CASE j < k
      BY <1>4, <1>5, <1>6, <3>1, <3>2
    <3>3. CASE i >= k
      <4>1. i + 1 \in DOMAIN s /\ j + 1 \in DOMAIN s /\ i + 1 < j + 1
        BY <1>5, <1>6, <3>1
      <4> QED BY <1>4, <1>6, <3>1, <3>3, <4>1
    <3>4. CASE i < k /\ j >= k
      <4>1. i \in DOMAIN s /\ j + 1 \in DOMAIN s /\ i < j + 1
        BY <1>5, <1>6, <3>1
      <4> QED BY <1>4, <1>6, <3>1, <3>4, <4>1
    <3> QED BY <3>1, <3>2, <3>3, <3>4
  <2> QED BY <2>2, <2>3 DEF Sorted
<1>7. Sorted(new, z)
  BY <1>2, <1>6 DEF Sorted
<1> QED BY <1>2, <1>7 DEF z

\* Where the events of the buckets are told once, they are counted once.
LEMMA BucketsCounted ==
    ASSUME CqTypeOK, BucketsOK
    PROVE  BucketsExact
<1>1. ASSUME NEW e \in Event, NEW b \in 0 .. HashSize - 1
      PROVE  Cardinality({i \in DOMAIN bucket[b] : bucket[b][i] = e})
               = IF ev[e].st = "linked" /\ EV_HASH(ev[e].time) = b THEN 1 ELSE 0
  <2> DEFINE I == {i \in DOMAIN bucket[b] : bucket[b][i] = e}
  <2>1. b \in Bucket
    BY DEF Bucket
  <2>2. IsInjective(bucket[b]) /\ Range(bucket[b]) = HashedTo(ev, b)
    BY <2>1 DEF BucketsOK, Sorted
  <2>3. CASE ev[e].st = "linked" /\ EV_HASH(ev[e].time) = b
    <3>1. e \in Range(bucket[b])
      BY <2>2, <2>3 DEF HashedTo
    <3>2. PICK k \in DOMAIN bucket[b] : bucket[b][k] = e
      BY <3>1 DEF Range
    <3>3. I = {k}
      BY <2>2, <3>2 DEF IsInjective
    <3> HIDE DEF I
    <3> QED BY <2>3, <3>3, FS_Singleton DEF I
  <2>4. CASE ~(ev[e].st = "linked" /\ EV_HASH(ev[e].time) = b)
    <3>1. e \notin Range(bucket[b])
      BY <2>2, <2>4 DEF HashedTo
    <3>2. I = {}
      BY <3>1 DEF Range
    <3> HIDE DEF I
    <3> QED BY <2>4, <3>2, FS_EmptySet DEF I
  <2> QED BY <2>3, <2>4
<1>2. \A b \in 0 .. HashSize - 1 : \A i, j \in DOMAIN bucket[b] :
        i < j => ev[bucket[b][i]].time <= ev[bucket[b][j]].time
  BY DEF BucketsOK, Sorted, Bucket
<1> QED BY <1>1, <1>2 DEF BucketsExact

\* ev_unlink() takes the event out of its bucket, and leaves the others.
LEMMA UnlinkOK ==
    ASSUME NEW e \in Event, NEW evs, CqTypeOK, BucketsOK, ev[e].st = "linked",
           \A x \in Event : x # e => evs[x].st = ev[x].st /\ evs[x].time = ev[x].time
    PROVE  LET bs == ev_unlink(e, bucket)
           IN  /\ bs \in [Bucket -> Seq(Event)]
               /\ \A b \in Bucket : Sorted(evs, bs[b]) /\ Range(bs[b]) = HashedTo(evs, b) \ {e}
<1> DEFINE bs == ev_unlink(e, bucket)
           h == EV_HASH(ev[e].time)
           s == bucket[h]
           z == RemoveFirst(s, e)
<1>1. ev[e].time \in Int /\ bucket \in [Bucket -> Seq(Event)]
  BY DEF CqTypeOK, Bucket
<1>2. h \in Bucket
  BY <1>1, HashProperty
<1>3. bs = [bucket EXCEPT ![h] = z]
  BY DEF ev_unlink
<1>4. s \in Seq(Event) /\ e \in Range(s) /\ Sorted(ev, s)
  BY <1>1, <1>2 DEF BucketsOK, HashedTo
<1>5. \A b \in Bucket : \A x \in Range(bucket[b]) : x \in Event
  BY DEF BucketsOK, HashedTo
<1> HIDE DEF s
<1>6. \A x \in Range(s) : x # e => evs[x].time = ev[x].time
  BY <1>2, <1>5 DEF s
<1>7. z \in Seq(Event) /\ Range(z) = Range(s) \ {e} /\ Sorted(evs, z)
  BY <1>4, <1>6, RemoveSorted
<1> HIDE DEF bs, h, z
<1>8. bs \in [Bucket -> Seq(Event)] /\ bs[h] = z /\ \A b \in Bucket : b # h => bs[b] = bucket[b]
  BY <1>1, <1>2, <1>3, <1>7
<1>9. \A b \in Bucket : HashedTo(evs, b) \ {e} = HashedTo(ev, b) \ {e}
  BY DEF HashedTo
<1>10. ASSUME NEW b \in Bucket PROVE Sorted(evs, bs[b]) /\ Range(bs[b]) = HashedTo(evs, b) \ {e}
  <2>1. CASE b = h
    <3>1. Range(s) = HashedTo(ev, h)
      BY <1>2 DEF BucketsOK, s
    <3> QED BY <1>7, <1>8, <1>9, <2>1, <3>1
  <2>2. CASE b # h
    <3>1. bs[b] = bucket[b] /\ Sorted(ev, bucket[b]) /\ Range(bucket[b]) = HashedTo(ev, b)
      BY <1>8, <2>2 DEF BucketsOK
    <3>2. e \notin HashedTo(ev, b)
      BY <2>2 DEF HashedTo, h
    <3>3. \A i \in DOMAIN bucket[b] : bucket[b][i] \in Event /\ bucket[b][i] # e
      <4> TAKE i \in DOMAIN bucket[b]
      <4>1. bucket[b][i] \in Range(bucket[b])
        BY DEF Range
      <4> QED BY <1>5, <3>1, <3>2, <4>1
    <3>4. Sorted(evs, bucket[b])
      BY <3>1, <3>3 DEF Sorted
    <3> QED BY <1>9, <3>1, <3>2, <3>4
  <2> QED BY <2>1, <2>2
<1> QED BY <1>8, <1>10 DEF bs

\* ev_link() puts an event that no bucket holds into its own.
LEMMA LinkOK ==
    ASSUME NEW e \in Event, NEW t \in Int, NEW bs \in [Bucket -> Seq(Event)], NEW evs, CqTypeOK,
           \A b \in Bucket : Sorted(ev, bs[b]) /\ Range(bs[b]) = HashedTo(ev, b) \ {e},
           \A x \in Event : x # e => evs[x].st = ev[x].st /\ evs[x].time = ev[x].time,
           evs[e].st = "linked", evs[e].time = t
    PROVE  LET new == ev_link(e, t, bs)
           IN  /\ new \in [Bucket -> Seq(Event)]
               /\ \A b \in Bucket : Sorted(evs, new[b]) /\ Range(new[b]) = HashedTo(evs, b)
<1> DEFINE new == ev_link(e, t, bs)
           h == EV_HASH(t)
           s == bs[h]
           k == Min({i \in DOMAIN s : ev[s[i]].time > t} \cup {Len(s) + 1})
           z == InsertAt(s, k, e)
<1>1. h \in Bucket /\ s \in Seq(Event)
  BY HashProperty
<1>2. new = [bs EXCEPT ![h] = z]
  BY <1>1 DEF ev_link
<1>3. Sorted(ev, s) /\ Range(s) = HashedTo(ev, h) \ {e}
  BY <1>1
<1> HIDE DEF s
<1>4. /\ e \notin Range(s) /\ \A x \in Range(s) : evs[x].time = ev[x].time
      /\ \A x \in Event : ev[x].time \in Int
  BY <1>3 DEF HashedTo, CqTypeOK
<1>9. /\ k \in 1 .. Len(s) + 1
      /\ \A i \in 1 .. k - 1 : ev[s[i]].time <= t
      /\ \A i \in k .. Len(s) : t <= ev[s[i]].time
  BY <1>1, <1>3, <1>4, LinkPlace
<1> HIDE DEF k
<1>5. z \in Seq(Event) /\ Range(z) = Range(s) \cup {e} /\ Sorted(evs, z)
  BY <1>9, <1>1, <1>3, <1>4, InsertSorted
<1> HIDE DEF new, z, h
<1>6. new \in [Bucket -> Seq(Event)] /\ new[h] = z /\ \A b \in Bucket : b # h => new[b] = bs[b]
  BY <1>1, <1>2, <1>5
<1>7. /\ HashedTo(evs, h) = (HashedTo(ev, h) \ {e}) \cup {e}
      /\ \A b \in Bucket : b # h => HashedTo(evs, b) = HashedTo(ev, b) \ {e}
  <2>1. EV_HASH(evs[e].time) = h
    BY DEF h
  <2> QED BY <2>1 DEF HashedTo
<1>8. ASSUME NEW b \in Bucket PROVE Sorted(evs, new[b]) /\ Range(new[b]) = HashedTo(evs, b)
  <2>1. CASE b = h
    BY <1>3, <1>5, <1>6, <1>7, <2>1
  <2>2. CASE b # h
    <3>1. \A i \in DOMAIN bs[b] : bs[b][i] \in Event /\ bs[b][i] # e
      <4> TAKE i \in DOMAIN bs[b]
      <4>1. bs[b][i] \in Range(bs[b])
        BY DEF Range
      <4> QED BY <4>1 DEF HashedTo
    <3>2. Sorted(evs, bs[b])
      BY <3>1 DEF Sorted
    <3> QED BY <1>6, <1>7, <2>2, <3>2
  <2> QED BY <2>1, <2>2
<1> QED BY <1>6, <1>8 DEF new

----------------------------------------------------------------------------
(* The stack of calls.                                                     *)

\* The fields of frames.
LEMMA FrameFields ==
    ASSUME NEW f \in Frame
    PROVE  /\ f.kind \in {"clock", "call"}
           /\ f.kind = "clock" =>
                /\ f.now \in Int /\ f.over \in BOOLEAN /\ f.moved \in BOOLEAN
                /\ f.bucket \in Bucket /\ f.target \in Bucket /\ f.old_last \in Bucket
                /\ f.old_call \in Event \cup {Null} /\ f.old_ext \in BOOLEAN
           /\ f.kind = "call" =>
                /\ f.ev \in Event /\ f.by \in {"clock", "expire"} /\ f.acked \in BOOLEAN
                /\ f.saved_call \in Event \cup {Null} /\ f.saved_ext \in BOOLEAN
BY DEF Frame, Bucket

\* What a frame holds of the current call below it.
Holds(f, c, x) ==
    IF f.kind = "clock" THEN f.old_call = c /\ f.old_ext = x ELSE f.saved_call = c /\ f.saved_ext = x

\* A call that starts saves the current call of the callback it comes from.
LEMMA Push ==
    ASSUME NEW f \in Frame, CqTypeOK, stack' = Append(stack, f),
           InCall => Holds(f, call, call_extended)
    PROVE  \E n \in Nat :
               /\ n = Len(stack) /\ DOMAIN stack = 1 .. n
               /\ stack' \in Seq(Frame) /\ Len(stack') = n + 1 /\ DOMAIN stack' = 1 .. n + 1
               /\ stack'[n + 1] = f /\ \A i \in 1 .. n : stack'[i] = stack[i]
               /\ \A i \in 1 .. n : stack[i].kind = "call" =>
                     CallOf(i)' = CallOf(i) /\ ExtOf(i)' = ExtOf(i)
               /\ CallOf(n + 1)' = call' /\ ExtOf(n + 1)' = call_extended'
<1>1. stack \in Seq(Frame)
  BY DEF CqTypeOK
<1>5. PICK n \in Nat : n = Len(stack)
  BY <1>1
<1>2. /\ n = Len(stack) /\ DOMAIN stack = 1 .. n
      /\ stack' \in Seq(Frame) /\ Len(stack') = n + 1 /\ DOMAIN stack' = 1 .. n + 1
      /\ stack'[n + 1] = f /\ \A i \in 1 .. n : stack'[i] = stack[i]
  BY <1>1, <1>5
<1>3. ASSUME NEW i \in 1 .. n, stack[i].kind = "call"
      PROVE  CallOf(i)' = CallOf(i) /\ ExtOf(i)' = ExtOf(i)
  <2>1. CASE i = n
    <3>1. InCall
      BY <1>2, <1>3, <2>1 DEF InCall, Top
    <3>2. i # Len(stack') /\ stack'[i + 1] = f
      BY <1>2, <2>1
    <3>3. CallOf(i) = call /\ ExtOf(i) = call_extended
      BY <1>2, <2>1 DEF CallOf, ExtOf
    <3> QED BY <3>1, <3>2, <3>3 DEF CallOf, ExtOf, Holds
  <2>2. CASE i # n
    <3>1. i # Len(stack') /\ i + 1 \in 1 .. n /\ stack'[i + 1] = stack[i + 1]
      BY <1>2, <2>2
    <3> QED BY <1>2, <2>2, <3>1 DEF CallOf, ExtOf
  <2> QED BY <2>1, <2>2
<1>4. CallOf(n + 1)' = call' /\ ExtOf(n + 1)' = call_extended'
  BY <1>2 DEF CallOf, ExtOf
<1> QED BY <1>2, <1>3, <1>4

\* A call that is over gives the current call back.
LEMMA Pop ==
    ASSUME CqTypeOK, stack # <<>>, stack' = Below,
           Len(stack) > 1 /\ stack[Len(stack) - 1].kind = "call" => Holds(Top, call', call_extended')
    PROVE  \E n \in Nat \ {0} :
               /\ n = Len(stack) /\ DOMAIN stack = 1 .. n
               /\ stack' \in Seq(Frame) /\ Len(stack') = n - 1 /\ DOMAIN stack' = 1 .. n - 1
               /\ \A i \in 1 .. n - 1 : stack'[i] = stack[i]
               /\ \A i \in 1 .. n - 1 : stack[i].kind = "call" =>
                     CallOf(i)' = CallOf(i) /\ ExtOf(i)' = ExtOf(i)
<1>1. stack \in Seq(Frame)
  BY DEF CqTypeOK
<1>5. PICK n \in Nat \ {0} : n = Len(stack)
  BY <1>1
<1>2. /\ n = Len(stack) /\ DOMAIN stack = 1 .. n
      /\ stack' \in Seq(Frame) /\ Len(stack') = n - 1 /\ DOMAIN stack' = 1 .. n - 1
      /\ \A i \in 1 .. n - 1 : stack'[i] = stack[i]
  <2>1. stack' = SubSeq(stack, 1, n - 1)
    BY <1>5 DEF Below
  <2> QED BY <1>1, <1>5, <2>1
<1>3. ASSUME NEW i \in 1 .. n - 1, stack[i].kind = "call"
      PROVE  CallOf(i)' = CallOf(i) /\ ExtOf(i)' = ExtOf(i)
  <2>1. CASE i = n - 1
    <3>1. Holds(Top, call', call_extended')
      BY <1>2, <1>3, <2>1
    <3>2. i = Len(stack') /\ i # Len(stack) /\ stack[i + 1] = Top
      BY <1>2, <2>1 DEF Top
    <3> QED BY <3>1, <3>2 DEF CallOf, ExtOf, Holds
  <2>2. CASE i # n - 1
    <3>1. i # Len(stack') /\ i # Len(stack) /\ i + 1 \in 1 .. n - 1 /\ stack'[i + 1] = stack[i + 1]
      BY <1>2, <2>2
    <3> QED BY <3>1 DEF CallOf, ExtOf
  <2> QED BY <2>1, <2>2
<1> QED BY <1>2, <1>3

\* The innermost call goes on: what it saved stays.
LEMMA Update ==
    ASSUME NEW g \in Frame, CqTypeOK, stack # <<>>, stack' = [stack EXCEPT ![Len(stack)] = g],
           g.kind = Top.kind,
           IF g.kind = "clock" THEN Holds(g, Top.old_call, Top.old_ext) ELSE Holds(g, Top.saved_call, Top.saved_ext)
    PROVE  \E n \in Nat \ {0} :
               /\ n = Len(stack) /\ DOMAIN stack = 1 .. n
               /\ stack' \in Seq(Frame) /\ Len(stack') = n /\ DOMAIN stack' = 1 .. n
               /\ stack'[n] = g /\ \A i \in 1 .. n - 1 : stack'[i] = stack[i]
               /\ \A i \in 1 .. n - 1 : CallOf(i)' = CallOf(i) /\ ExtOf(i)' = ExtOf(i)
               /\ CallOf(n)' = call' /\ ExtOf(n)' = call_extended'
<1>1. stack \in Seq(Frame)
  BY DEF CqTypeOK
<1>5. PICK n \in Nat \ {0} : n = Len(stack)
  BY <1>1
<1>2. /\ n = Len(stack) /\ DOMAIN stack = 1 .. n
      /\ stack' \in Seq(Frame) /\ Len(stack') = n /\ DOMAIN stack' = 1 .. n
      /\ stack'[n] = g /\ \A i \in 1 .. n - 1 : stack'[i] = stack[i]
  BY <1>1, <1>5
<1>3. ASSUME NEW i \in 1 .. n - 1 PROVE CallOf(i)' = CallOf(i) /\ ExtOf(i)' = ExtOf(i)
  <2>1. CASE i = n - 1
    <3>1. i # Len(stack') /\ i # Len(stack) /\ stack[i + 1] = Top /\ stack'[i + 1] = g
      BY <1>2, <2>1 DEF Top
    <3> QED BY <3>1 DEF CallOf, ExtOf, Holds
  <2>2. CASE i # n - 1
    <3>1. i # Len(stack') /\ i # Len(stack) /\ i + 1 \in 1 .. n - 1 /\ stack'[i + 1] = stack[i + 1]
      BY <1>2, <2>2
    <3> QED BY <3>1 DEF CallOf, ExtOf
  <2> QED BY <2>1, <2>2
<1>4. CallOf(n)' = call' /\ ExtOf(n)' = call_extended'
  BY <1>2 DEF CallOf, ExtOf
<1> QED BY <1>2, <1>3, <1>4

----------------------------------------------------------------------------
(* The initial state, and the operations that call nothing out.            *)

\* cq_make() gives a queue without events.
LEMMA CqInitOK == CqInit => CqIInv
<1> SUFFICES ASSUME CqInit PROVE CqIInv
  OBVIOUS
<1>1. 0 \in Bucket /\ \A e \in Event : FreeEvent \in
        [st : {"free", "linked", "called"}, time : Int, ext : BOOLEAN, slot : Slot \cup {Null}]
  BY CqAssumption DEF Bucket, FreeEvent
<1>2. CqTypeOK
  <2>1. ev \in [Event -> [st : {"free", "linked", "called"}, time : Int, ext : BOOLEAN, slot : Slot \cup {Null}]]
    BY <1>1 DEF CqInit
  <2>2. bucket \in [0 .. HashSize - 1 -> Seq(Event)] /\ stack \in Seq(Frame)
    BY DEF CqInit
  <2>3. time \in Int /\ last_bucket \in 0 .. HashSize - 1
    BY CqAssumption DEF CqInit
  <2>5. call \in Event \cup {Null} /\ call_extended \in BOOLEAN
    BY DEF CqInit
  <2>4. handle \in [Slot -> Event \cup {Null}]
    BY DEF CqInit
  <2> QED BY <2>1, <2>2, <2>3, <2>4, <2>5 DEF CqTypeOK
<1>3. BucketsOK
  <2> SUFFICES ASSUME NEW b \in Bucket
               PROVE  Sorted(ev, bucket[b]) /\ Range(bucket[b]) = HashedTo(ev, b)
    BY DEF BucketsOK
  <2>1. bucket[b] = <<>> /\ DOMAIN bucket[b] = {}
    BY DEF CqInit, Bucket
  <2>2. HashedTo(ev, b) = {}
    BY DEF CqInit, HashedTo, FreeEvent
  <2>3. Range(bucket[b]) = {}
    BY <2>1 DEF Range
  <2>4. Sorted(ev, bucket[b])
    BY <2>1 DEF Sorted, IsInjective
  <2> QED BY <2>2, <2>3, <2>4
<1>4. DOMAIN stack = {} /\ Calls(stack) = {}
  BY DEF CqInit, Calls
<1>5. \A e \in Event : ev[e] = FreeEvent
  BY DEF CqInit
<1>6. NestingOK /\ CurrentOK /\ OwnedOnce
  BY <1>4, <1>5 DEF NestingOK, CurrentOK, OwnedOnce, FreeEvent
<1>7. SlotsOK
  BY <1>5 DEF SlotsOK, CqInit, FreeEvent
<1> QED BY <1>2, <1>3, <1>6, <1>7 DEF CqIInv

\* What is under way is not disturbed by changes to an event that is not
\* being called out.
LEMMA Outside ==
    ASSUME NEW e \in Event, CqIInv, UNCHANGED <<stack, call, call_extended>>,
           ev[e].st # "called", ev'[e].st # "called",
           \A x \in Event : x # e => ev'[x] = ev[x]
    PROVE  NestingOK' /\ CurrentOK' /\ OwnedOnce'
<1>1. /\ \A i : CallOf(i)' = CallOf(i) /\ ExtOf(i)' = ExtOf(i) /\ Owns(i)' = Owns(i)
      /\ Calls(stack)' = Calls(stack) /\ NestingOK'
  BY DEF CallOf, ExtOf, Owns, Calls, NestingOK, CqIInv
<1>2. \A i \in Calls(stack) : stack[i].ev \in Event /\ stack[i].acked \in BOOLEAN
  <2>1. \A i \in Calls(stack) : stack[i] \in Frame /\ stack[i].kind = "call"
    BY DEF CqIInv, CqTypeOK, Calls
  <2> QED BY <2>1, FrameFields
<1>3. \A i \in Calls(stack) : Owns(i) => ev'[stack[i].ev] = ev[stack[i].ev]
  BY <1>2 DEF CqIInv, CurrentOK
<1>4. \A i \in Calls(stack) : ~stack[i].acked => Owns(i)
  BY DEF Owns, Calls
<1>5. CurrentOK'
  <2> SUFFICES ASSUME NEW i \in Calls(stack)
               PROVE  /\ ~stack[i].acked => CallOf(i) = stack[i].ev /\ ExtOf(i) = ev'[stack[i].ev].ext
                      /\ stack[i].acked => CallOf(i) = Null
                      /\ Owns(i) => ev'[stack[i].ev].st = "called"
    BY <1>1 DEF CurrentOK
  <2> QED BY <1>3, <1>4 DEF CqIInv, CurrentOK
<1>6. OwnedOnce'
  <2>1. \A i, j \in DOMAIN stack' : Owns(i)' /\ Owns(j)' /\ stack'[i].ev = stack'[j].ev => i = j
    BY <1>1 DEF CqIInv, OwnedOnce
  <2>2. \A x \in Event : ev'[x].st = "called" => \E i \in DOMAIN stack' : Owns(i)' /\ stack'[i].ev = x
    BY <1>1 DEF CqIInv, OwnedOnce
  <2> QED BY <2>1, <2>2 DEF OwnedOnce
<1> QED BY <1>1, <1>5, <1>6

\* What cq_insert() does, for whoever calls it.
LEMMA InsertOK ==
    ASSUME NEW e \in Allocated, NEW d \in Delay, NEW ext \in BOOLEAN, NEW s \in Slot \cup {Null},
           CqIInv, Insert(e, d, ext, s), UNCHANGED <<time, last_bucket, call, call_extended, stack>>
    PROVE  /\ e \in Event /\ ev[e].st = "free" /\ ev'[e].st = "linked" /\ ev'[e].slot = s /\ ev'[e].ext = ext
           /\ \A x \in Event : x # e => ev'[x] = ev[x]
           /\ ev' \in [Event -> [st : {"free", "linked", "called"}, time : Int,
                                 ext : BOOLEAN, slot : Slot \cup {Null}]]
           /\ bucket' \in [Bucket -> Seq(Event)]
           /\ BucketsOK' /\ NestingOK' /\ CurrentOK' /\ OwnedOnce'
<1>1. e \in Event /\ ev[e].st = "free"
  BY DEF Allocated
<1>2. time + d \in Int
  BY CqAssumption DEF CqIInv, CqTypeOK
<1>3. ev' = [ev EXCEPT ![e] = [st |-> "linked", time |-> time + d, ext |-> ext, slot |-> s]]
  BY DEF Insert
<1>4. /\ ev'[e] = [st |-> "linked", time |-> time + d, ext |-> ext, slot |-> s]
      /\ \A x \in Event : x # e => ev'[x] = ev[x]
      /\ ev' \in [Event -> [st : {"free", "linked", "called"}, time : Int,
                            ext : BOOLEAN, slot : Slot \cup {Null}]]
  BY <1>1, <1>2, <1>3 DEF CqIInv, CqTypeOK
<1>5. \A b \in Bucket : Sorted(ev, bucket[b]) /\ Range(bucket[b]) = HashedTo(ev, b) \ {e}
  BY <1>1 DEF CqIInv, BucketsOK, HashedTo
<1>6. CqTypeOK /\ bucket \in [Bucket -> Seq(Event)]
  BY DEF CqIInv, CqTypeOK, Bucket
<1>7. bucket' = ev_link(e, time + d, bucket)
  BY DEF Insert
<1>13. PICK t \in Int : t = time + d
  BY <1>2
<1>14. PICK evs : evs = ev'
  OBVIOUS
<1>15. PICK bs \in [Bucket -> Seq(Event)] : bs = bucket
  BY <1>6
<1>8. t = time + d /\ evs = ev' /\ bs = bucket
  BY <1>13, <1>14, <1>15
<1>9. /\ bucket' = ev_link(e, t, bs) /\ evs[e].st = "linked" /\ evs[e].time = t
      /\ \A x \in Event : x # e => evs[x].st = ev[x].st /\ evs[x].time = ev[x].time
      /\ \A b \in Bucket : Sorted(ev, bs[b]) /\ Range(bs[b]) = HashedTo(ev, b) \ {e}
  BY <1>4, <1>5, <1>7, <1>8
<1>10. /\ bucket' \in [Bucket -> Seq(Event)]
       /\ \A b \in Bucket : Sorted(evs, bucket'[b]) /\ Range(bucket'[b]) = HashedTo(evs, b)
  <2> DEFINE z == ev_link(e, t, bs)
  <2>1. /\ z \in [Bucket -> Seq(Event)]
        /\ \A b \in Bucket : Sorted(evs, z[b]) /\ Range(z[b]) = HashedTo(evs, b)
    <3>1. /\ \A b \in Bucket : Sorted(ev, bs[b]) /\ Range(bs[b]) = HashedTo(ev, b) \ {e}
          /\ \A x \in Event : x # e => evs[x].st = ev[x].st /\ evs[x].time = ev[x].time
      BY <1>9
    <3>2. evs[e].st = "linked" /\ evs[e].time = t /\ CqTypeOK /\ e \in Event
      BY <1>1, <1>6, <1>9
    <3> QED BY <3>1, <3>2, LinkOK, SMTT(60)
  <2>2. bucket' = z
    BY <1>9
  <2> HIDE DEF z
  <2> QED BY <2>1, <2>2
<1>11. BucketsOK'
  BY <1>8, <1>10 DEF BucketsOK, Sorted, HashedTo, Bucket, EV_HASH, Event
<1>12. NestingOK' /\ CurrentOK' /\ OwnedOnce'
  BY <1>1, <1>4, Outside
<1> QED BY <1>1, <1>4, <1>10, <1>11, <1>12

\* The part of the type that events, buckets and slots do not matter to.
LEMMA SameCalls ==
    ASSUME CqIInv, UNCHANGED <<time, last_bucket, call, call_extended, stack>>,
           ev' \in [Event -> [st : {"free", "linked", "called"}, time : Int,
                              ext : BOOLEAN, slot : Slot \cup {Null}]],
           bucket' \in [Bucket -> Seq(Event)], handle' \in [Slot -> Event \cup {Null}]
    PROVE  CqTypeOK'
BY DEF CqIInv, CqTypeOK, Bucket

\* cq_insert() by a user that records the event.
LEMMA cq_insertOK ==
    ASSUME NEW s \in Slot, CqIInv, cq_insert(s)
    PROVE  CqIInv'
<1>1. PICK e \in Allocated, d \in Delay : Insert(e, d, FALSE, s) /\ handle' = [handle EXCEPT ![s] = e]
  BY DEF cq_insert
<1>2. UNCHANGED <<time, last_bucket, call, call_extended, stack>> /\ s \in Slot \cup {Null} /\ FALSE \in BOOLEAN
  BY DEF cq_insert
<1>3. /\ e \in Event /\ ev[e].st = "free" /\ ev'[e].st = "linked" /\ ev'[e].slot = s /\ ev'[e].ext = FALSE
      /\ \A x \in Event : x # e => ev'[x] = ev[x]
      /\ ev' \in [Event -> [st : {"free", "linked", "called"}, time : Int,
                            ext : BOOLEAN, slot : Slot \cup {Null}]]
      /\ bucket' \in [Bucket -> Seq(Event)]
      /\ BucketsOK' /\ NestingOK' /\ CurrentOK' /\ OwnedOnce'
  BY <1>1, <1>2, InsertOK
<1>4. handle \in [Slot -> Event \cup {Null}]
  BY DEF CqIInv, CqTypeOK
<1>5. /\ handle' \in [Slot -> Event \cup {Null}] /\ handle'[s] = e
      /\ \A r \in Slot : r # s => handle'[r] = handle[r]
  BY <1>1, <1>3, <1>4
<1>6. CqTypeOK'
  BY <1>2, <1>3, <1>5, SameCalls
<1>7. SlotsOK'
  <2>1. ASSUME NEW r \in Slot, handle'[r] # Null
        PROVE  /\ ev'[handle'[r]].slot = r
               /\ ev'[handle'[r]].st = "linked" \/ \E i \in DOMAIN stack' : Unacked(i, handle[r])'
    <3>1. CASE r = s
      BY <1>3, <1>5, <3>1
    <3>2. CASE r # s
      <4>1. /\ handle'[r] = handle[r] /\ handle[r] \in Event /\ ev[handle[r]].slot = r
            /\ ev[handle[r]].st = "linked" \/ \E i \in DOMAIN stack : Unacked(i, handle[r])
        BY <1>4, <1>5, <2>1, <3>2 DEF CqIInv, SlotsOK
      <4>2. \A i \in DOMAIN stack : Unacked(i, handle[r]) => ev[handle[r]].st = "called"
        BY DEF Unacked, CqIInv, CurrentOK, Calls, Owns
      <4>3. handle[r] # e
        BY <1>3, <4>1, <4>2
      <4>4. \A i : Unacked(i, handle[r])' = Unacked(i, handle[r])
        BY <1>2, <4>1 DEF Unacked
      <4> QED BY <1>2, <1>3, <4>1, <4>3, <4>4
    <3> QED BY <3>1, <3>2
  <2>2. \A x \in Event : ev'[x].slot # Null => ~ev'[x].ext
    BY <1>3 DEF CqIInv, SlotsOK
  <2> QED BY <2>1, <2>2 DEF SlotsOK
<1> QED BY <1>3, <1>6, <1>7 DEF CqIInv

\* What a slot is left with when events that no slot refers to change.
LEMMA OtherSlots ==
    ASSUME NEW e \in Event, CqIInv, UNCHANGED stack, ev[e].st # "called",
           \A x \in Event : x # e => ev'[x] = ev[x],
           ev'[e].slot # Null => ~ev'[e].ext,
           \A s \in Slot : handle'[s] # Null => handle'[s] = handle[s] /\ handle[s] # e
    PROVE  SlotsOK'
<1>1. ASSUME NEW r \in Slot, handle'[r] # Null
      PROVE  /\ ev'[handle'[r]].slot = r
             /\ ev'[handle'[r]].st = "linked" \/ \E i \in DOMAIN stack' : Unacked(i, handle[r])'
  <2>1. /\ handle'[r] = handle[r] /\ handle[r] \in Event /\ handle[r] # e /\ ev[handle[r]].slot = r
        /\ ev[handle[r]].st = "linked" \/ \E i \in DOMAIN stack : Unacked(i, handle[r])
    BY <1>1 DEF CqIInv, SlotsOK, CqTypeOK
  <2>2. \A i : Unacked(i, handle[r])' = Unacked(i, handle[r])
    BY <2>1 DEF Unacked
  <2> QED BY <2>1, <2>2
<1>2. \A x \in Event : ev'[x].slot # Null => ~ev'[x].ext
  BY DEF CqIInv, SlotsOK
<1> QED BY <1>1, <1>2 DEF SlotsOK

\* cq_insert() by a user that does not.
LEMMA InsertForgottenOK ==
    ASSUME NEW ext \in BOOLEAN, CqIInv, InsertForgotten(ext)
    PROVE  CqIInv'
<1>1. PICK e \in Allocated, d \in Delay : Insert(e, d, ext, Null)
  BY DEF InsertForgotten
<1>2. UNCHANGED <<time, last_bucket, call, call_extended, stack>> /\ UNCHANGED handle /\ Null \in Slot \cup {Null}
  BY DEF InsertForgotten
<1>3. /\ e \in Event /\ ev[e].st = "free" /\ ev'[e].st = "linked" /\ ev'[e].slot = Null /\ ev'[e].ext = ext
      /\ \A x \in Event : x # e => ev'[x] = ev[x]
      /\ ev' \in [Event -> [st : {"free", "linked", "called"}, time : Int,
                            ext : BOOLEAN, slot : Slot \cup {Null}]]
      /\ bucket' \in [Bucket -> Seq(Event)]
      /\ BucketsOK' /\ NestingOK' /\ CurrentOK' /\ OwnedOnce'
  BY <1>1, <1>2, InsertOK
<1>4. handle' \in [Slot -> Event \cup {Null}] /\ handle' = handle
  BY <1>2 DEF CqIInv, CqTypeOK
<1>5. CqTypeOK'
  BY <1>2, <1>3, <1>4, SameCalls
<1>6. \A s \in Slot : handle[s] # Null => handle[s] # e
  <2>1. \A s \in Slot, i \in DOMAIN stack : Unacked(i, handle[s]) => ev[handle[s]].st = "called"
    BY DEF Unacked, CqIInv, CurrentOK, Calls, Owns
  <2> QED BY <1>3, <2>1 DEF CqIInv, SlotsOK
<1>7. SlotsOK'
  BY <1>2, <1>3, <1>4, <1>6, OtherSlots
<1> QED BY <1>3, <1>5, <1>7 DEF CqIInv

\* The event of a slot that has not triggered is linked, and the slot's own.
LEMMA PendingEvent ==
    ASSUME NEW s \in Slot, CqIInv, Pending(s)
    PROVE  /\ handle[s] \in Event /\ ev[handle[s]].st = "linked" /\ ev[handle[s]].slot = s
           /\ \A r \in Slot : r # s /\ handle[r] # Null => handle[r] # handle[s]
<1>1. handle[s] \in Event /\ ev[handle[s]].st = "linked" /\ handle[s] # Null
  BY DEF Pending, CqIInv, CqTypeOK
<1>2. \A r \in Slot : handle[r] # Null => ev[handle[r]].slot = r
  BY DEF CqIInv, SlotsOK
<1> QED BY <1>1, <1>2

\* cq_cancel() takes the event out, frees it, and clears the slot.
LEMMA cq_cancelOK ==
    ASSUME NEW s \in Slot, CqIInv, cq_cancel(s)
    PROVE  CqIInv'
<1>1. PICK e \in Event : e = handle[s] /\ ev[e].st = "linked" /\ ev[e].slot = s
  BY PendingEvent DEF cq_cancel
<1>2. /\ ev' = [ev EXCEPT ![e] = FreeEvent] /\ handle' = [handle EXCEPT ![s] = Null]
      /\ bucket' = ev_unlink(e, bucket)
      /\ UNCHANGED <<time, last_bucket, call, call_extended, stack>>
  BY <1>1 DEF cq_cancel
<1>3. FreeEvent \in [st : {"free", "linked", "called"}, time : Int, ext : BOOLEAN, slot : Slot \cup {Null}]
  BY DEF FreeEvent
<1>4. /\ ev'[e] = FreeEvent /\ \A x \in Event : x # e => ev'[x] = ev[x]
      /\ ev' \in [Event -> [st : {"free", "linked", "called"}, time : Int,
                            ext : BOOLEAN, slot : Slot \cup {Null}]]
  BY <1>2, <1>3 DEF CqIInv, CqTypeOK
<1>5. /\ handle' \in [Slot -> Event \cup {Null}] /\ handle'[s] = Null
      /\ \A r \in Slot : r # s => handle'[r] = handle[r]
  BY <1>2 DEF CqIInv, CqTypeOK
<1>6. bucket' \in [Bucket -> Seq(Event)] /\ BucketsOK'
  <2>1. PICK evs : evs = ev'
    OBVIOUS
  <2>2. \A x \in Event : x # e => evs[x].st = ev[x].st /\ evs[x].time = ev[x].time
    BY <1>4, <2>1
  <2>3. CqTypeOK /\ BucketsOK
    BY DEF CqIInv
  <2> DEFINE bs == ev_unlink(e, bucket)
  <2>4. /\ bs \in [Bucket -> Seq(Event)]
        /\ \A b \in Bucket : Sorted(evs, bs[b]) /\ Range(bs[b]) = HashedTo(evs, b) \ {e}
    BY <1>1, <2>2, <2>3, UnlinkOK, ZenonT(60)
  <2>5. bucket' = bs
    BY <1>2
  <2> HIDE DEF bs
  <2>6. evs[e].st # "linked"
    BY <1>4, <2>1 DEF FreeEvent
  <2>7. \A b \in Bucket : HashedTo(evs, b) \ {e} = HashedTo(evs, b)
    BY <2>6 DEF HashedTo
  <2>8. \A b \in Bucket : Sorted(ev', bucket'[b]) /\ Range(bucket'[b]) = HashedTo(ev', b)
    BY <2>1, <2>4, <2>5, <2>7
  <2> QED BY <2>4, <2>5, <2>8 DEF BucketsOK, Sorted, HashedTo, Bucket, EV_HASH, Event
<1>7. CqTypeOK'
  BY <1>2, <1>4, <1>5, <1>6, SameCalls
<1>8. ev[e].st # "called" /\ ev'[e].st # "called" /\ ev'[e].slot = Null
  BY <1>1, <1>4 DEF FreeEvent
<1>9. NestingOK' /\ CurrentOK' /\ OwnedOnce'
  BY <1>2, <1>4, <1>8, Outside
<1>10. \A r \in Slot : handle'[r] # Null => handle'[r] = handle[r] /\ handle[r] # e
  <2>1. Pending(s)
    BY DEF cq_cancel
  <2> QED BY <1>1, <1>5, <2>1, PendingEvent
<1>11. SlotsOK'
  BY <1>2, <1>4, <1>8, <1>10, OtherSlots
<1> QED BY <1>6, <1>7, <1>9, <1>11 DEF CqIInv

\* cq_resched() moves the event to the bucket of its new trigger time.
LEMMA cq_reschedOK ==
    ASSUME NEW s \in Slot, CqIInv, cq_resched(s)
    PROVE  CqIInv'
<1>1. PICK e \in Event : e = handle[s] /\ ev[e].st = "linked" /\ ev[e].slot = s
  BY PendingEvent DEF cq_resched
<1>2. PICK d \in Delay : /\ bucket' = ev_link(e, time + d, ev_unlink(e, bucket))
                          /\ ev' = [ev EXCEPT ![e].time = time + d]
  BY <1>1 DEF cq_resched
<1>3. UNCHANGED <<time, last_bucket, call, call_extended, stack>> /\ UNCHANGED handle
  BY DEF cq_resched
<1>4. PICK t \in Int : t = time + d
  BY CqAssumption DEF CqIInv, CqTypeOK
<1>5. /\ ev'[e] = [ev[e] EXCEPT !.time = t] /\ \A x \in Event : x # e => ev'[x] = ev[x]
      /\ ev' \in [Event -> [st : {"free", "linked", "called"}, time : Int,
                            ext : BOOLEAN, slot : Slot \cup {Null}]]
  BY <1>2, <1>4 DEF CqIInv, CqTypeOK
<1>6. /\ ev'[e].st = "linked" /\ ev'[e].time = t /\ ev'[e].slot = s /\ ev'[e].ext = ev[e].ext
  BY <1>1, <1>5 DEF CqIInv, CqTypeOK
<1>7. bucket' \in [Bucket -> Seq(Event)] /\ BucketsOK'
  <2>1. PICK evs : evs = ev'
    OBVIOUS
  <2>2. \A x \in Event : x # e => evs[x].st = ev[x].st /\ evs[x].time = ev[x].time
    BY <1>5, <2>1
  <2>3. CqTypeOK /\ BucketsOK
    BY DEF CqIInv
  <2>4. PICK old : old = ev
    OBVIOUS
  <2> DEFINE z == ev_unlink(e, bucket)
  <2>5. /\ z \in [Bucket -> Seq(Event)]
        /\ \A b \in Bucket : Sorted(old, z[b]) /\ Range(z[b]) = HashedTo(old, b) \ {e}
    <3>1. \A x \in Event : x # e => old[x].st = ev[x].st /\ old[x].time = ev[x].time
      BY <2>4
    <3> QED BY <1>1, <2>3, <3>1, UnlinkOK
  <2> HIDE DEF z
  <2>6. PICK bs \in [Bucket -> Seq(Event)] : bs = z
    BY <2>5
  <2> DEFINE y == ev_link(e, t, bs)
  <2>7. /\ y \in [Bucket -> Seq(Event)]
        /\ \A b \in Bucket : Sorted(evs, y[b]) /\ Range(y[b]) = HashedTo(evs, b)
    <3>1. \A b \in Bucket : Sorted(ev, bs[b]) /\ Range(bs[b]) = HashedTo(ev, b) \ {e}
      BY <2>4, <2>5, <2>6
    <3>2. evs[e].st = "linked" /\ evs[e].time = t
      BY <1>6, <2>1
    <3> QED BY <2>2, <2>3, <3>1, <3>2, LinkOK
  <2>8. bucket' = y
    BY <1>2, <1>4, <2>6 DEF z
  <2> HIDE DEF y
  <2>9. \A b \in Bucket : Sorted(ev', bucket'[b]) /\ Range(bucket'[b]) = HashedTo(ev', b)
    BY <2>1, <2>7, <2>8
  <2> QED BY <2>7, <2>8, <2>9 DEF BucketsOK, Sorted, HashedTo, Bucket, EV_HASH, Event
<1>8. CqTypeOK'
  <2>1. handle' \in [Slot -> Event \cup {Null}]
    BY <1>3 DEF CqIInv, CqTypeOK
  <2> QED BY <1>3, <1>5, <1>7, <2>1, SameCalls
<1>9. NestingOK' /\ CurrentOK' /\ OwnedOnce'
  <2>1. ev[e].st # "called" /\ ev'[e].st # "called"
    BY <1>1, <1>6
  <2> QED BY <1>3, <1>5, <2>1, Outside
<1>10. SlotsOK'
  <2>1. ASSUME NEW r \in Slot, handle'[r] # Null
        PROVE  /\ ev'[handle'[r]].slot = r
               /\ ev'[handle'[r]].st = "linked" \/ \E i \in DOMAIN stack' : Unacked(i, handle[r])'
    <3>1. CASE r = s
      BY <1>1, <1>3, <1>6, <3>1
    <3>2. CASE r # s
      <4>1. Pending(s)
        BY DEF cq_resched
      <4>2. /\ handle'[r] = handle[r] /\ handle[r] \in Event /\ handle[r] # e /\ ev[handle[r]].slot = r
            /\ ev[handle[r]].st = "linked" \/ \E i \in DOMAIN stack : Unacked(i, handle[r])
        BY <1>1, <1>3, <2>1, <3>2, <4>1, PendingEvent DEF CqIInv, SlotsOK, CqTypeOK
      <4>3. \A i : Unacked(i, handle[r])' = Unacked(i, handle[r])
        BY <1>3 DEF Unacked
      <4> QED BY <1>3, <1>5, <4>2, <4>3
    <3> QED BY <3>1, <3>2
  <2>2. \A x \in Event : ev'[x].slot # Null => ~ev'[x].ext
    <3>1. \A x \in Event : ev'[x].slot = ev[x].slot /\ ev'[x].ext = ev[x].ext
      BY <1>1, <1>5, <1>6
    <3> QED BY <3>1 DEF CqIInv, SlotsOK
  <2> QED BY <2>1, <2>2 DEF SlotsOK
<1> QED BY <1>7, <1>8, <1>9, <1>10 DEF CqIInv

----------------------------------------------------------------------------
(* Calling events out.                                                     *)

\* The event is taken out and becomes the current call of the callback.
LEMMA CallOutOK ==
    ASSUME NEW e \in Event, NEW by \in {"clock", "expire"}, CqIInv, ev[e].st = "linked",
           CallOut(e, by), UNCHANGED <<time, last_bucket, handle>>, by = "clock" <=> InClock
    PROVE  CqIInv'
<1> DEFINE f == [kind |-> "call", ev |-> e, by |-> by, acked |-> FALSE,
                 saved_call |-> IF by = "expire" THEN call ELSE Null,
                 saved_ext |-> by = "expire" /\ call_extended]
<1>1. /\ bucket' = ev_unlink(e, bucket) /\ ev' = [ev EXCEPT ![e].st = "called", ![e].time = 0]
      /\ call' = e /\ call_extended' = ev[e].ext /\ stack' = Append(stack, f)
  BY DEF CallOut
<1>2. CqTypeOK /\ BucketsOK /\ call \in Event \cup {Null} /\ call_extended \in BOOLEAN
  BY DEF CqIInv, CqTypeOK
<1>3. f \in Frame /\ f.kind = "call" /\ f.ev = e /\ f.by = by /\ f.acked = FALSE
  BY <1>2 DEF Frame
<1>4. InCall => Holds(f, call, call_extended)
  <2>1. InCall => by = "expire"
    BY DEF InCall, InClock
  <2> QED BY <1>2, <2>1 DEF Holds
<1> HIDE DEF f
<1>5. PICK n \in Nat :
        /\ n = Len(stack) /\ DOMAIN stack = 1 .. n
        /\ stack' \in Seq(Frame) /\ Len(stack') = n + 1 /\ DOMAIN stack' = 1 .. n + 1
        /\ stack'[n + 1] = f /\ \A i \in 1 .. n : stack'[i] = stack[i]
        /\ \A i \in 1 .. n : stack[i].kind = "call" =>
              CallOf(i)' = CallOf(i) /\ ExtOf(i)' = ExtOf(i)
        /\ CallOf(n + 1)' = call' /\ ExtOf(n + 1)' = call_extended'
  BY <1>1, <1>2, <1>3, <1>4, Push
<1>6. /\ ev'[e].st = "called" /\ ev'[e].time = 0 /\ ev'[e].ext = ev[e].ext /\ ev'[e].slot = ev[e].slot
      /\ \A x \in Event : x # e => ev'[x] = ev[x]
      /\ ev' \in [Event -> [st : {"free", "linked", "called"}, time : Int,
                            ext : BOOLEAN, slot : Slot \cup {Null}]]
  <2> DEFINE R == [st : {"free", "linked", "called"}, time : Int, ext : BOOLEAN, slot : Slot \cup {Null}]
  <2>1. ev \in [Event -> R] /\ ev[e] \in R
    BY DEF CqIInv, CqTypeOK
  <2>2. PICK old \in R : old = ev[e]
    BY <2>1
  <2>3. ASSUME NEW r \in R
        PROVE  /\ [r EXCEPT !.st = "called"] \in R /\ [r EXCEPT !.st = "called"].st = "called"
               /\ [r EXCEPT !.st = "called"].ext = r.ext /\ [r EXCEPT !.st = "called"].slot = r.slot
    OBVIOUS
  <2>4. ASSUME NEW r \in R
        PROVE  /\ [r EXCEPT !.time = 0] \in R /\ [r EXCEPT !.time = 0].st = r.st /\ [r EXCEPT !.time = 0].time = 0
               /\ [r EXCEPT !.time = 0].ext = r.ext /\ [r EXCEPT !.time = 0].slot = r.slot
    OBVIOUS
  <2>9. PICK mid : mid = [old EXCEPT !.st = "called"]
    OBVIOUS
  <2>10. PICK new : new = [mid EXCEPT !.time = 0]
    OBVIOUS
  <2> HIDE DEF R
  <2>5. ev' = [ev EXCEPT ![e] = [[ev[e] EXCEPT !.st = "called"] EXCEPT !.time = 0]]
    BY <1>1, <2>1
  <2>6. ev' = [ev EXCEPT ![e] = new]
    BY <2>2, <2>5, <2>9, <2>10
  <2>11. mid \in R /\ mid.st = "called" /\ mid.ext = old.ext /\ mid.slot = old.slot
    BY <2>2, <2>3, <2>9
  <2>12. new \in R /\ new.st = mid.st /\ new.time = 0 /\ new.ext = mid.ext /\ new.slot = mid.slot
    BY <2>4, <2>10, <2>11
  <2>7. ev'[e] = new /\ (\A x \in Event : x # e => ev'[x] = ev[x]) /\ ev' \in [Event -> R]
    BY <2>1, <2>6, <2>12
  <2>8. new.st = "called" /\ new.time = 0 /\ new.ext = ev[e].ext /\ new.slot = ev[e].slot
    BY <2>2, <2>11, <2>12
  <2> QED BY <2>7, <2>8 DEF R
<1>7. \A i \in 1 .. n + 1 : i \in 1 .. n \/ i = n + 1
  OBVIOUS
<1>8. /\ \A i \in 1 .. n : Owns(i)' = Owns(i)
      /\ Owns(n + 1)'
  BY <1>3, <1>5 DEF Owns
<1>9. \A i \in 1 .. n : Owns(i) => /\ stack[i].ev \in Event /\ ev[stack[i].ev].st = "called"
                                  /\ stack[i].ev # e /\ stack[i].kind = "call"
  <2> SUFFICES ASSUME NEW i \in 1 .. n, Owns(i)
               PROVE  stack[i].ev \in Event /\ ev[stack[i].ev].st = "called" /\ stack[i].ev # e /\ stack[i].kind = "call"
    OBVIOUS
  <2>1. stack[i] \in Frame /\ stack[i].kind = "call" /\ i \in Calls(stack)
    BY <1>5 DEF CqIInv, CqTypeOK, Owns, Calls
  <2> QED BY <2>1, FrameFields DEF CqIInv, CurrentOK
<1>10. bucket' \in [Bucket -> Seq(Event)] /\ BucketsOK'
  <2>1. PICK evs : evs = ev'
    OBVIOUS
  <2>2. \A x \in Event : x # e => evs[x].st = ev[x].st /\ evs[x].time = ev[x].time
    BY <1>6, <2>1
  <2> DEFINE bs == ev_unlink(e, bucket)
  <2>3. /\ bs \in [Bucket -> Seq(Event)]
        /\ \A b \in Bucket : Sorted(evs, bs[b]) /\ Range(bs[b]) = HashedTo(evs, b) \ {e}
    BY <1>2, <2>2, UnlinkOK
  <2>4. bucket' = bs
    BY <1>1
  <2> HIDE DEF bs
  <2>5. \A b \in Bucket : HashedTo(evs, b) \ {e} = HashedTo(evs, b)
    BY <1>6, <2>1 DEF HashedTo
  <2>6. \A b \in Bucket : Sorted(ev', bucket'[b]) /\ Range(bucket'[b]) = HashedTo(ev', b)
    BY <2>1, <2>3, <2>4, <2>5
  <2> QED BY <2>3, <2>4, <2>6 DEF BucketsOK, Sorted, HashedTo, Bucket, EV_HASH, Event
<1>11. CqTypeOK'
  <2>1. call' \in Event \cup {Null} /\ call_extended' \in BOOLEAN
    BY <1>1 DEF CqIInv, CqTypeOK
  <2> QED BY <1>5, <1>6, <1>10, <2>1 DEF CqIInv, CqTypeOK, Bucket
<1>12. NestingOK'
  <2> SUFFICES ASSUME NEW i \in 1 .. n + 1
               PROVE  IF stack'[i].kind = "clock" THEN i = 1 \/ stack'[i - 1].kind = "call"
                      ELSE stack'[i].by = "clock" <=> i > 1 /\ stack'[i - 1].kind = "clock"
    BY <1>5 DEF NestingOK
  <2>1. CASE i = n + 1
    <3>1. InClock <=> n > 0 /\ stack[n].kind = "clock"
      BY <1>2, <1>5 DEF InClock, Top, CqTypeOK
    <3>2. n > 0 => stack'[i - 1] = stack[n]
      BY <1>5, <2>1
    <3> QED BY <1>3, <1>5, <2>1, <3>1, <3>2
  <2>2. CASE i \in 1 .. n
    <3>1. stack'[i] = stack[i] /\ (i > 1 => stack'[i - 1] = stack[i - 1])
      BY <1>5, <2>2
    <3> QED BY <1>5, <2>2, <3>1 DEF CqIInv, NestingOK
  <2> QED BY <1>7, <2>1, <2>2
<1>13. CurrentOK'
  <2> SUFFICES ASSUME NEW i \in 1 .. n + 1, stack'[i].kind = "call"
               PROVE  /\ ~stack'[i].acked => CallOf(i)' = stack'[i].ev /\ ExtOf(i)' = ev'[stack'[i].ev].ext
                      /\ stack'[i].acked => CallOf(i)' = Null
                      /\ Owns(i)' => ev'[stack'[i].ev].st = "called"
    BY <1>5 DEF CurrentOK, Calls
  <2>1. CASE i = n + 1
    BY <1>1, <1>3, <1>5, <1>6, <2>1
  <2>2. CASE i \in 1 .. n
    <3>1. /\ stack'[i] = stack[i] /\ CallOf(i)' = CallOf(i) /\ ExtOf(i)' = ExtOf(i) /\ Owns(i)' = Owns(i)
          /\ i \in Calls(stack)
      BY <1>5, <1>8, <2>2 DEF Calls
    <3>2. Owns(i) => ev'[stack[i].ev] = ev[stack[i].ev]
      BY <1>6, <1>9, <2>2
    <3>3. ~stack[i].acked => Owns(i)
      BY <3>1 DEF Owns, Calls
    <3> QED BY <3>1, <3>2, <3>3 DEF CqIInv, CurrentOK
  <2> QED BY <1>7, <2>1, <2>2
<1>14. OwnedOnce'
  <2>1. ASSUME NEW i \in 1 .. n + 1, NEW j \in 1 .. n + 1, Owns(i)', Owns(j)', stack'[i].ev = stack'[j].ev
        PROVE  i = j
    <3>1. CASE i = n + 1
      BY <1>3, <1>5, <1>7, <1>8, <1>9, <2>1, <3>1
    <3>2. CASE j = n + 1
      BY <1>3, <1>5, <1>7, <1>8, <1>9, <2>1, <3>2
    <3>3. CASE i \in 1 .. n /\ j \in 1 .. n
      BY <1>5, <1>8, <2>1, <3>3 DEF CqIInv, OwnedOnce
    <3> QED BY <1>7, <3>1, <3>2, <3>3
  <2>2. ASSUME NEW x \in Event, ev'[x].st = "called"
        PROVE  \E i \in 1 .. n + 1 : Owns(i)' /\ stack'[i].ev = x
    <3>1. CASE x = e
      <4>1. n + 1 \in 1 .. n + 1 /\ stack'[n + 1].ev = e
        BY <1>3, <1>5
      <4> QED BY <1>8, <3>1, <4>1
    <3>2. CASE x # e
      <4>1. PICK i \in 1 .. n : Owns(i) /\ stack[i].ev = x
        BY <1>5, <1>6, <2>2, <3>2 DEF CqIInv, OwnedOnce
      <4> QED BY <1>5, <1>8, <4>1
    <3> QED BY <3>1, <3>2
  <2> QED BY <1>5, <2>1, <2>2 DEF OwnedOnce
<1>15. SlotsOK'
  <2>1. ASSUME NEW r \in Slot, handle'[r] # Null
        PROVE  /\ ev'[handle'[r]].slot = r
               /\ ev'[handle'[r]].st = "linked" \/ \E i \in DOMAIN stack' : Unacked(i, handle[r])'
    <3>1. /\ handle'[r] = handle[r] /\ handle[r] \in Event /\ ev[handle[r]].slot = r
          /\ ev[handle[r]].st = "linked" \/ \E i \in DOMAIN stack : Unacked(i, handle[r])
      BY <2>1 DEF CqIInv, SlotsOK, CqTypeOK
    <3>2. ev'[handle[r]].slot = r
      BY <1>6, <3>1
    <3>3. CASE handle[r] = e
      <4>1. n + 1 \in DOMAIN stack' /\ Unacked(n + 1, handle[r])'
        BY <1>3, <1>5, <3>1, <3>3 DEF Unacked
      <4> QED BY <3>1, <3>2, <4>1
    <3>4. CASE handle[r] # e
      <4>1. \A i \in 1 .. n : Unacked(i, handle[r]) => i \in DOMAIN stack' /\ Unacked(i, handle[r])'
        BY <1>5, <3>1 DEF Unacked
      <4> QED BY <1>5, <1>6, <3>1, <3>2, <3>4, <4>1
    <3> QED BY <3>3, <3>4
  <2>2. \A x \in Event : ev'[x].slot # Null => ~ev'[x].ext
    BY <1>6 DEF CqIInv, SlotsOK
  <2> QED BY <2>1, <2>2 DEF SlotsOK
<1> QED BY <1>10, <1>11, <1>12, <1>13, <1>14, <1>15 DEF CqIInv

\* cq_expire() triggers an event at once, from a callback or between two
\* heartbeats.
LEMMA cq_expireOK ==
    ASSUME NEW s \in Slot, CqIInv, cq_expire(s)
    PROVE  CqIInv'
<1>1. PICK e \in Event : e = handle[s] /\ ev[e].st = "linked"
  BY PendingEvent DEF cq_expire
<1>2. CallOut(e, "expire") /\ UNCHANGED <<time, last_bucket, handle>> /\ ~InClock
  BY <1>1 DEF cq_expire, LockFree
<1> QED BY <1>1, <1>2, CallOutOK

\* The scan of cq_clock() calls out the head of a bucket.
LEMMA ClockCallsOK ==
    ASSUME CqIInv, ClockCalls
    PROVE  CqIInv'
<1>1. PICK e \in Due : CallOut(e, "clock")
  BY DEF ClockCalls
<1>2. e \in Event /\ ev[e].st = "linked"
  BY DEF Due, Linked
<1>3. InClock /\ UNCHANGED <<time, last_bucket, handle>>
  BY DEF ClockCalls
<1> QED BY <1>1, <1>2, <1>3, CallOutOK

\* What an innermost callback is.
LEMMA InnermostCall ==
    ASSUME CqIInv, InCall
    PROVE  \E n \in Nat \ {0} :
               /\ n = Len(stack) /\ DOMAIN stack = 1 .. n /\ stack # <<>> /\ n \in Calls(stack)
               /\ Top = stack[n] /\ Top \in Frame /\ Top.kind = "call" /\ Top.ev \in Event
               /\ Top.acked \in BOOLEAN /\ Top.by \in {"clock", "expire"}
               /\ CallOf(n) = call /\ ExtOf(n) = call_extended
               /\ ~Top.acked => /\ call = Top.ev /\ call_extended = ev[Top.ev].ext
                                /\ ev[Top.ev].st = "called" /\ Owns(n)
               /\ Top.acked => call = Null
               /\ Owns(n) <=> ~(Top.acked /\ call_extended)
               /\ Owns(n) => ev[Top.ev].st = "called"
<1>1. stack \in Seq(Frame) /\ stack # <<>> /\ Top.kind = "call"
  BY DEF CqIInv, CqTypeOK, InCall
<1>2. PICK n \in Nat \ {0} : n = Len(stack) /\ DOMAIN stack = 1 .. n
  BY <1>1
<1>3. Top = stack[n] /\ Top \in Frame /\ n \in Calls(stack)
  BY <1>1, <1>2 DEF Top, Calls
<1>4. Top.ev \in Event /\ Top.acked \in BOOLEAN /\ Top.by \in {"clock", "expire"}
  BY <1>1, <1>3, FrameFields
<1>5. CallOf(n) = call /\ ExtOf(n) = call_extended
  BY <1>2 DEF CallOf, ExtOf
<1>6. Owns(n) <=> ~(Top.acked /\ call_extended)
  BY <1>1, <1>3, <1>5 DEF Owns
<1> QED BY <1>1, <1>2, <1>3, <1>4, <1>5, <1>6 DEF CqIInv, CurrentOK

\* Buckets depend on the events linked only.
LEMMA SameBuckets ==
    ASSUME BucketsOK, UNCHANGED bucket,
           \A x \in Event : /\ ev'[x].st = "linked" <=> ev[x].st = "linked"
                            /\ ev[x].st = "linked" => ev'[x].time = ev[x].time
    PROVE  BucketsOK'
<1> SUFFICES ASSUME NEW b \in Bucket
             PROVE  Sorted(ev', bucket[b]) /\ Range(bucket[b]) = HashedTo(ev', b)
  BY DEF BucketsOK, Sorted, HashedTo, Bucket, EV_HASH, Event
<1>1. Sorted(ev, bucket[b]) /\ Range(bucket[b]) = HashedTo(ev, b)
  BY DEF BucketsOK
<1>2. HashedTo(ev', b) = HashedTo(ev, b)
  BY DEF HashedTo
<1>3. \A i \in DOMAIN bucket[b] : ev'[bucket[b][i]].time = ev[bucket[b][i]].time
  <2> TAKE i \in DOMAIN bucket[b]
  <2>1. bucket[b][i] \in HashedTo(ev, b)
    BY <1>1 DEF Range
  <2> QED BY <2>1 DEF HashedTo
<1>4. Sorted(ev', bucket[b])
  BY <1>1, <1>3 DEF Sorted
<1> QED BY <1>1, <1>2, <1>4

\* A callback acknowledges its event, which is freed if it is extended.
LEMMA AckOK ==
    ASSUME CqIInv, InCall, ~Top.acked, stack' = Acked, call' = Null,
           UNCHANGED <<bucket, time, last_bucket, call_extended>>,
           ev' = IF call_extended THEN [ev EXCEPT ![Top.ev] = FreeEvent] ELSE ev,
           handle' \in [Slot -> Event \cup {Null}],
           \A r \in Slot : handle'[r] # Null => handle'[r] = handle[r] /\ handle[r] # Top.ev
    PROVE  CqIInv'
<1>1. PICK n \in Nat \ {0} :
        /\ n = Len(stack) /\ DOMAIN stack = 1 .. n /\ stack # <<>> /\ n \in Calls(stack)
        /\ Top = stack[n] /\ Top \in Frame /\ Top.kind = "call" /\ Top.ev \in Event
        /\ call = Top.ev /\ call_extended = ev[Top.ev].ext /\ ev[Top.ev].st = "called" /\ Owns(n)
  BY InnermostCall
<1>2. PICK e \in Event : e = Top.ev /\ ev[e].st = "called"
  BY <1>1
<1>3. PICK f \in Frame : f = stack[n] /\ f = Top /\ f.kind = "call"
  BY <1>1
<1>4. PICK g : g = [f EXCEPT !.acked = TRUE]
  OBVIOUS
<1>5. /\ g \in Frame /\ g.kind = "call" /\ g.ev = f.ev /\ g.by = f.by /\ g.acked = TRUE
      /\ g.saved_call = f.saved_call /\ g.saved_ext = f.saved_ext
  BY <1>3, <1>4 DEF Frame
<1>6. stack' = [stack EXCEPT ![Len(stack)] = g]
  BY <1>1, <1>3, <1>4 DEF Acked
<1>7. CqTypeOK /\ g.kind = Top.kind /\ Holds(g, Top.saved_call, Top.saved_ext)
  BY <1>3, <1>5 DEF CqIInv, Holds
<1>8. PICK m \in Nat \ {0} :
        /\ m = Len(stack)
        /\ stack' \in Seq(Frame) /\ Len(stack') = m /\ DOMAIN stack' = 1 .. m
        /\ stack'[m] = g /\ \A i \in 1 .. m - 1 : stack'[i] = stack[i]
        /\ \A i \in 1 .. m - 1 : CallOf(i)' = CallOf(i) /\ ExtOf(i)' = ExtOf(i)
        /\ CallOf(m)' = call' /\ ExtOf(m)' = call_extended'
  <2>1. IF g.kind = "clock" THEN Holds(g, Top.old_call, Top.old_ext) ELSE Holds(g, Top.saved_call, Top.saved_ext)
    BY <1>5, <1>7
  <2> QED BY <1>1, <1>5, <1>6, <1>7, <2>1, Update
<1>9. /\ stack' \in Seq(Frame) /\ Len(stack') = n /\ DOMAIN stack' = 1 .. n
      /\ stack'[n] = g /\ \A i \in 1 .. n - 1 : stack'[i] = stack[i]
      /\ \A i \in 1 .. n - 1 : CallOf(i)' = CallOf(i) /\ ExtOf(i)' = ExtOf(i)
      /\ CallOf(n)' = Null /\ ExtOf(n)' = call_extended
  BY <1>1, <1>8
<1>10. \A i \in 1 .. n : i \in 1 .. n - 1 \/ i = n
  OBVIOUS
<1>11. /\ \A i \in 1 .. n - 1 : Owns(i)' = Owns(i)
       /\ Owns(n)' = ~call_extended
  BY <1>5, <1>9 DEF Owns, CqIInv, CqTypeOK
<1>12. /\ \A x \in Event : x # e => ev'[x] = ev[x]
       /\ ev'[e] = IF call_extended THEN FreeEvent ELSE ev[e]
       /\ ev' \in [Event -> [st : {"free", "linked", "called"}, time : Int,
                             ext : BOOLEAN, slot : Slot \cup {Null}]]
  <2>1. FreeEvent \in [st : {"free", "linked", "called"}, time : Int, ext : BOOLEAN, slot : Slot \cup {Null}]
    BY DEF FreeEvent
  <2> QED BY <1>2, <2>1 DEF CqIInv, CqTypeOK
<1>13. \A i \in 1 .. n - 1 : Owns(i) => stack[i].ev \in Event /\ stack[i].ev # e /\ stack[i].kind = "call"
  <2> SUFFICES ASSUME NEW i \in 1 .. n - 1, Owns(i)
               PROVE  stack[i].ev \in Event /\ stack[i].ev # e /\ stack[i].kind = "call"
    OBVIOUS
  <2>1. i \in DOMAIN stack /\ n \in DOMAIN stack /\ i # n
    BY <1>1
  <2>2. stack[i].ev # e
    BY <1>1, <1>2, <2>1 DEF CqIInv, OwnedOnce
  <2>3. stack[i].kind = "call" /\ stack[i] \in Frame
    BY <2>1 DEF Owns, CqIInv, CqTypeOK
  <2> QED BY <2>2, <2>3, FrameFields
<1>14. BucketsOK'
  <2>1. \A x \in Event : /\ ev'[x].st = "linked" <=> ev[x].st = "linked"
                         /\ ev[x].st = "linked" => ev'[x].time = ev[x].time
    BY <1>2, <1>12 DEF FreeEvent
  <2> QED BY <2>1, SameBuckets DEF CqIInv
<1>15. CqTypeOK'
  BY <1>9, <1>12 DEF CqIInv, CqTypeOK
<1>16. NestingOK'
  <2> SUFFICES ASSUME NEW i \in 1 .. n
               PROVE  IF stack'[i].kind = "clock" THEN i = 1 \/ stack'[i - 1].kind = "call"
                      ELSE stack'[i].by = "clock" <=> i > 1 /\ stack'[i - 1].kind = "clock"
    BY <1>9 DEF NestingOK
  <2>1. stack'[i].kind = stack[i].kind /\ (stack[i].kind = "call" => stack'[i].by = stack[i].by)
    BY <1>3, <1>5, <1>9, <1>10
  <2>2. i > 1 => stack'[i - 1] = stack[i - 1]
    BY <1>9
  <2>3. stack[i].kind \in {"clock", "call"}
    BY <1>1, FrameFields DEF CqIInv, CqTypeOK
  <2> QED BY <1>1, <2>1, <2>2, <2>3 DEF CqIInv, NestingOK
<1>17. CurrentOK'
  <2> SUFFICES ASSUME NEW i \in 1 .. n, stack'[i].kind = "call"
               PROVE  /\ ~stack'[i].acked => CallOf(i)' = stack'[i].ev /\ ExtOf(i)' = ev'[stack'[i].ev].ext
                      /\ stack'[i].acked => CallOf(i)' = Null
                      /\ Owns(i)' => ev'[stack'[i].ev].st = "called"
    BY <1>9 DEF CurrentOK, Calls
  <2>1. CASE i = n
    BY <1>2, <1>3, <1>5, <1>9, <1>11, <1>12, <2>1
  <2>2. CASE i \in 1 .. n - 1
    <3>1. /\ stack'[i] = stack[i] /\ CallOf(i)' = CallOf(i) /\ ExtOf(i)' = ExtOf(i) /\ Owns(i)' = Owns(i)
          /\ i \in Calls(stack)
      BY <1>1, <1>9, <1>11, <2>2 DEF Calls
    <3>2. Owns(i) => ev'[stack[i].ev] = ev[stack[i].ev]
      BY <1>12, <1>13, <2>2
    <3>3. ~stack[i].acked => Owns(i)
      BY <3>1 DEF Owns, Calls
    <3> QED BY <3>1, <3>2, <3>3 DEF CqIInv, CurrentOK
  <2> QED BY <1>10, <2>1, <2>2
<1>18. OwnedOnce'
  <2>1. \A i \in 1 .. n : (Owns(i)' => Owns(i)) /\ stack'[i].ev = stack[i].ev
    BY <1>1, <1>3, <1>5, <1>9, <1>10, <1>11
  <2>2. \A i, j \in 1 .. n : Owns(i)' /\ Owns(j)' /\ stack'[i].ev = stack'[j].ev => i = j
    BY <1>1, <2>1 DEF CqIInv, OwnedOnce
  <2>3. ASSUME NEW x \in Event, ev'[x].st = "called"
        PROVE  \E i \in 1 .. n : Owns(i)' /\ stack'[i].ev = x
    <3>1. ev[x].st = "called" /\ (x = e => ~call_extended)
      BY <1>2, <1>12, <2>3 DEF FreeEvent
    <3>2. PICK i \in 1 .. n : Owns(i) /\ stack[i].ev = x
      BY <1>1, <3>1 DEF CqIInv, OwnedOnce
    <3>3. Owns(i)'
      BY <1>1, <1>2, <1>10, <1>11, <3>1, <3>2
    <3> QED BY <2>1, <3>2, <3>3
  <2> QED BY <1>9, <2>2, <2>3 DEF OwnedOnce
<1>19. SlotsOK'
  <2>1. ASSUME NEW r \in Slot, handle'[r] # Null
        PROVE  /\ ev'[handle'[r]].slot = r
               /\ ev'[handle'[r]].st = "linked" \/ \E i \in DOMAIN stack' : Unacked(i, handle[r])'
    <3>1. /\ handle'[r] = handle[r] /\ handle[r] \in Event /\ handle[r] # e /\ ev[handle[r]].slot = r
          /\ ev[handle[r]].st = "linked" \/ \E i \in DOMAIN stack : Unacked(i, handle[r])
      BY <1>2, <2>1 DEF CqIInv, SlotsOK, CqTypeOK
    <3>2. ASSUME NEW i \in DOMAIN stack, Unacked(i, handle[r])
          PROVE  i \in DOMAIN stack' /\ Unacked(i, handle[r])'
      <4>1. i # n
        BY <1>1, <1>2, <3>1, <3>2 DEF Unacked
      <4>2. stack'[i] = stack[i] /\ i \in DOMAIN stack'
        BY <1>1, <1>9, <1>10, <4>1
      <4> QED BY <3>1, <3>2, <4>2 DEF Unacked
    <3> QED BY <1>12, <3>1, <3>2
  <2>2. \A x \in Event : ev'[x].slot # Null => ~ev'[x].ext
    BY <1>12 DEF CqIInv, SlotsOK, FreeEvent
  <2> QED BY <2>1, <2>2 DEF SlotsOK
<1> QED BY <1>14, <1>15, <1>16, <1>17, <1>18, <1>19 DEF CqIInv

\* cq_zero() clears the slot of the event, which is not extended.
LEMMA cq_zeroOK ==
    ASSUME CqIInv, cq_zero
    PROVE  CqIInv'
<1>1. /\ InCall /\ ~Top.acked /\ ev[Top.ev].slot # Null /\ stack' = Acked /\ call' = Null
      /\ handle' = [handle EXCEPT ![ev[Top.ev].slot] = Null]
      /\ ev' = ev /\ UNCHANGED <<bucket, time, last_bucket, call_extended>>
  BY DEF cq_zero
<1>2. Top.ev \in Event /\ call_extended = ev[Top.ev].ext
  BY <1>1, InnermostCall
<1>3. PICK s \in Slot : s = ev[Top.ev].slot /\ ~call_extended
  BY <1>1, <1>2 DEF CqIInv, CqTypeOK, SlotsOK
<1>4. /\ handle' \in [Slot -> Event \cup {Null}] /\ handle'[s] = Null
      /\ \A r \in Slot : r # s => handle'[r] = handle[r]
  BY <1>1, <1>3 DEF CqIInv, CqTypeOK
<1>5. \A r \in Slot : handle'[r] # Null => handle'[r] = handle[r] /\ handle[r] # Top.ev
  <2> TAKE r \in Slot
  <2> HAVE handle'[r] # Null
  <2>1. r # s /\ handle'[r] = handle[r]
    BY <1>4
  <2>2. ev[handle[r]].slot = r
    BY <2>1 DEF CqIInv, SlotsOK
  <2> QED BY <1>3, <2>1, <2>2
<1>6. ev' = IF call_extended THEN [ev EXCEPT ![Top.ev] = FreeEvent] ELSE ev
  BY <1>1, <1>3
<1> QED BY <1>1, <1>4, <1>5, <1>6, AckOK

\* cq_event() frees the current call, which is the event of the callback.
LEMMA cq_eventOK ==
    ASSUME CqIInv, cq_event
    PROVE  CqIInv'
<1>1. /\ InCall /\ ~Top.acked /\ ev[Top.ev].slot = Null /\ stack' = Acked /\ call' = Null
      /\ ev' = (IF call_extended THEN [ev EXCEPT ![call] = FreeEvent] ELSE ev)
      /\ handle' = handle /\ UNCHANGED <<bucket, time, last_bucket, call_extended>>
  BY DEF cq_event
<1>2. Top.ev \in Event /\ call = Top.ev
  BY <1>1, InnermostCall
<1>3. handle' \in [Slot -> Event \cup {Null}]
  BY <1>1 DEF CqIInv, CqTypeOK
<1>4. \A r \in Slot : handle'[r] # Null => handle'[r] = handle[r] /\ handle[r] # Top.ev
  BY <1>1, CqAssumption DEF CqIInv, SlotsOK
<1>5. ev' = IF call_extended THEN [ev EXCEPT ![Top.ev] = FreeEvent] ELSE ev
  BY <1>1, <1>2
<1> QED BY <1>1, <1>3, <1>4, <1>5, AckOK

\* When a callback returns, its event is freed unless it was already, and
\* cq_expire() restores the current call of the callback it comes from.
LEMMA CallReturnsOK ==
    ASSUME CqIInv, CallReturns
    PROVE  CqIInv'
<1>1. /\ InCall /\ (~Top.acked => ev[Top.ev].slot = Null) /\ stack' = Below /\ RestoreCall(Top)
      /\ ev' = (IF ~call_extended \/ call # Null THEN [ev EXCEPT ![Top.ev] = FreeEvent] ELSE ev)
      /\ handle' = handle /\ UNCHANGED <<bucket, time, last_bucket>>
  BY DEF CallReturns
<1>2. PICK n \in Nat \ {0} :
        /\ n = Len(stack) /\ DOMAIN stack = 1 .. n /\ stack # <<>> /\ n \in Calls(stack)
        /\ Top = stack[n] /\ Top \in Frame /\ Top.kind = "call" /\ Top.ev \in Event
        /\ Top.acked \in BOOLEAN /\ Top.by \in {"clock", "expire"}
        /\ ~Top.acked => call = Top.ev
        /\ Top.acked => call = Null
        /\ Owns(n) <=> ~(Top.acked /\ call_extended)
        /\ Owns(n) => ev[Top.ev].st = "called"
  BY <1>1, InnermostCall
<1>3. PICK e \in Event : e = Top.ev
  BY <1>2
<1>4. e # Null
  BY CqAssumption DEF Event
<1>5. (~call_extended \/ call # Null) <=> Owns(n)
  BY <1>2, <1>3, <1>4
<1>6. /\ \A x \in Event : x # e => ev'[x] = ev[x]
      /\ ev'[e] = IF Owns(n) THEN FreeEvent ELSE ev[e]
      /\ ev' \in [Event -> [st : {"free", "linked", "called"}, time : Int,
                            ext : BOOLEAN, slot : Slot \cup {Null}]]
  <2>1. FreeEvent \in [st : {"free", "linked", "called"}, time : Int, ext : BOOLEAN, slot : Slot \cup {Null}]
    BY DEF FreeEvent
  <2> QED BY <1>1, <1>3, <1>5, <2>1 DEF CqIInv, CqTypeOK
<1>7. Len(stack) > 1 /\ stack[Len(stack) - 1].kind = "call" => Holds(Top, call', call_extended')
  <2> HAVE Len(stack) > 1 /\ stack[Len(stack) - 1].kind = "call"
  <2>1. ~(Top.by = "clock")
    BY <1>2 DEF CqIInv, NestingOK
  <2> QED BY <1>1, <1>2, <2>1 DEF RestoreCall, Holds
<1>8. call' \in Event \cup {Null} /\ call_extended' \in BOOLEAN
  <2>1. Top.saved_call \in Event \cup {Null} /\ Top.saved_ext \in BOOLEAN
    BY <1>2, FrameFields
  <2>2. call \in Event \cup {Null} /\ call_extended \in BOOLEAN
    BY DEF CqIInv, CqTypeOK
  <2> QED BY <1>1, <2>1, <2>2 DEF RestoreCall
<1>9. PICK m \in Nat \ {0} :
        /\ m = Len(stack)
        /\ stack' \in Seq(Frame) /\ Len(stack') = m - 1 /\ DOMAIN stack' = 1 .. m - 1
        /\ \A i \in 1 .. m - 1 : stack'[i] = stack[i]
        /\ \A i \in 1 .. m - 1 : stack[i].kind = "call" => CallOf(i)' = CallOf(i) /\ ExtOf(i)' = ExtOf(i)
  BY <1>1, <1>2, <1>7, Pop DEF CqIInv
<1>10. /\ stack' \in Seq(Frame) /\ Len(stack') = n - 1 /\ DOMAIN stack' = 1 .. n - 1
       /\ \A i \in 1 .. n - 1 : stack'[i] = stack[i] /\ i \in 1 .. n
       /\ \A i \in 1 .. n - 1 : stack[i].kind = "call" => CallOf(i)' = CallOf(i) /\ ExtOf(i)' = ExtOf(i)
       /\ \A i \in 1 .. n : i \in 1 .. n - 1 \/ i = n
  BY <1>2, <1>9
<1>11. \A i \in 1 .. n - 1 : Owns(i)' = Owns(i)
  BY <1>10 DEF Owns
<1>12. \A i \in 1 .. n - 1 : Owns(i) => stack[i].ev \in Event /\ stack[i].kind = "call" /\ (Owns(n) => stack[i].ev # e)
  <2> SUFFICES ASSUME NEW i \in 1 .. n - 1, Owns(i)
               PROVE  stack[i].ev \in Event /\ stack[i].kind = "call" /\ (Owns(n) => stack[i].ev # e)
    OBVIOUS
  <2>1. i \in DOMAIN stack /\ n \in DOMAIN stack /\ i # n
    BY <1>2
  <2>2. Owns(n) => stack[i].ev # e
    BY <1>2, <1>3, <2>1 DEF CqIInv, OwnedOnce
  <2>3. stack[i].kind = "call" /\ stack[i] \in Frame
    BY <2>1 DEF Owns, CqIInv, CqTypeOK
  <2> QED BY <2>2, <2>3, FrameFields
<1>13. BucketsOK'
  <2>1. \A x \in Event : /\ ev'[x].st = "linked" <=> ev[x].st = "linked"
                         /\ ev[x].st = "linked" => ev'[x].time = ev[x].time
    BY <1>2, <1>3, <1>6 DEF FreeEvent
  <2> QED BY <1>1, <2>1, SameBuckets DEF CqIInv
<1>14. CqTypeOK'
  BY <1>1, <1>6, <1>8, <1>10 DEF CqIInv, CqTypeOK
<1>15. NestingOK'
  <2> SUFFICES ASSUME NEW i \in 1 .. n - 1
               PROVE  IF stack'[i].kind = "clock" THEN i = 1 \/ stack'[i - 1].kind = "call"
                      ELSE stack'[i].by = "clock" <=> i > 1 /\ stack'[i - 1].kind = "clock"
    BY <1>10 DEF NestingOK
  <2>1. stack'[i] = stack[i] /\ (i > 1 => stack'[i - 1] = stack[i - 1]) /\ i \in DOMAIN stack
    BY <1>2, <1>10
  <2> QED BY <2>1 DEF CqIInv, NestingOK
<1>16. CurrentOK'
  <2> SUFFICES ASSUME NEW i \in 1 .. n - 1, stack'[i].kind = "call"
               PROVE  /\ ~stack'[i].acked => CallOf(i)' = stack'[i].ev /\ ExtOf(i)' = ev'[stack'[i].ev].ext
                      /\ stack'[i].acked => CallOf(i)' = Null
                      /\ Owns(i)' => ev'[stack'[i].ev].st = "called"
    BY <1>10 DEF CurrentOK, Calls
  <2>1. /\ stack'[i] = stack[i] /\ CallOf(i)' = CallOf(i) /\ ExtOf(i)' = ExtOf(i) /\ Owns(i)' = Owns(i)
        /\ i \in Calls(stack)
    BY <1>2, <1>10, <1>11 DEF Calls
  <2>2. Owns(i) => ev'[stack[i].ev] = ev[stack[i].ev]
    <3> HAVE Owns(i)
    <3>1. stack[i].ev \in Event /\ (Owns(n) => stack[i].ev # e)
      BY <1>12, Zenon
    <3>2. CASE Owns(n)
      BY <1>6, <3>1, <3>2
    <3>3. CASE ~Owns(n)
      BY <1>6, <3>1, <3>3
    <3> QED BY <3>2, <3>3
  <2>3. ~stack[i].acked => Owns(i)
    BY <2>1 DEF Owns, Calls
  <2> QED BY <2>1, <2>2, <2>3 DEF CqIInv, CurrentOK
<1>17. OwnedOnce'
  <2>1. \A i, j \in 1 .. n - 1 : Owns(i)' /\ Owns(j)' /\ stack'[i].ev = stack'[j].ev => i = j
    <3> TAKE i, j \in 1 .. n - 1
    <3>1. i \in DOMAIN stack /\ j \in DOMAIN stack /\ stack'[i] = stack[i] /\ stack'[j] = stack[j]
      BY <1>2, <1>10
    <3>2. Owns(i) /\ Owns(j) /\ stack[i].ev = stack[j].ev => i = j
      BY <3>1 DEF CqIInv, OwnedOnce
    <3> QED BY <1>11, <3>1, <3>2
  <2>2. ASSUME NEW x \in Event, ev'[x].st = "called"
        PROVE  \E i \in 1 .. n - 1 : Owns(i)' /\ stack'[i].ev = x
    <3>1. ev[x].st = "called" /\ (x = e => ~Owns(n))
      BY <1>2, <1>3, <1>6, <2>2 DEF FreeEvent
    <3>2. PICK i \in 1 .. n : Owns(i) /\ stack[i].ev = x
      BY <1>2, <3>1 DEF CqIInv, OwnedOnce
    <3>3. i # n
      BY <1>2, <1>3, <3>1, <3>2
    <3> QED BY <1>10, <1>11, <3>2, <3>3
  <2> QED BY <1>10, <2>1, <2>2 DEF OwnedOnce
<1>18. SlotsOK'
  <2>1. ASSUME NEW r \in Slot, handle'[r] # Null
        PROVE  /\ ev'[handle'[r]].slot = r
               /\ ev'[handle'[r]].st = "linked" \/ \E i \in DOMAIN stack' : Unacked(i, handle[r])'
    <3>1. /\ handle'[r] = handle[r] /\ handle[r] \in Event /\ ev[handle[r]].slot = r
          /\ ev[handle[r]].st = "linked" \/ \E i \in DOMAIN stack : Unacked(i, handle[r])
      BY <1>1, <2>1 DEF CqIInv, SlotsOK, CqTypeOK
    <3>2. handle[r] = e => Top.acked
      BY <1>1, <1>3, <3>1, CqAssumption
    <3>3. ASSUME NEW i \in DOMAIN stack, Unacked(i, handle[r])
          PROVE  i \in DOMAIN stack' /\ Unacked(i, handle[r])' /\ Owns(i) /\ i # n
      <4>1. i # n
        BY <1>2, <1>3, <3>2, <3>3 DEF Unacked
      <4>2. stack'[i] = stack[i] /\ i \in DOMAIN stack'
        BY <1>2, <1>10, <4>1
      <4> QED BY <3>1, <3>3, <4>1, <4>2 DEF Unacked, Owns
    <3>4. ev'[handle[r]] = ev[handle[r]]
      <4>1. CASE handle[r] # e
        BY <1>6, <3>1, <4>1
      <4>2. CASE handle[r] = e
        <5>1. ASSUME Owns(n) PROVE FALSE
          <6>1. PICK i \in DOMAIN stack : Unacked(i, handle[r])
            BY <1>2, <1>3, <3>1, <4>2, <5>1
          <6>2. Owns(i) /\ i # n /\ stack[i].ev = e
            BY <3>3, <4>2, <6>1 DEF Unacked
          <6> QED BY <1>2, <1>3, <5>1, <6>2 DEF CqIInv, OwnedOnce
        <5> QED BY <1>6, <4>2, <5>1
      <4> QED BY <4>1, <4>2
    <3> QED BY <3>1, <3>3, <3>4
  <2>2. \A x \in Event : ev'[x].slot # Null => ~ev'[x].ext
    BY <1>6 DEF CqIInv, SlotsOK, FreeEvent
  <2> QED BY <2>1, <2>2 DEF SlotsOK
<1> QED BY <1>13, <1>14, <1>15, <1>16, <1>17, <1>18 DEF CqIInv

----------------------------------------------------------------------------
(* The clock.                                                              *)

\* What is under way in callbacks is not disturbed when cq_clock() starts,
\* moves on or ends.
LEMMA KeptCalls ==
    ASSUME CqIInv, UNCHANGED handle,
           \A x \in Event : ev'[x].st = ev[x].st /\ ev'[x].ext = ev[x].ext /\ ev'[x].slot = ev[x].slot,
           \A i \in DOMAIN stack' : stack'[i].kind = "call" =>
               /\ i \in DOMAIN stack /\ stack'[i] = stack[i]
               /\ CallOf(i)' = CallOf(i) /\ ExtOf(i)' = ExtOf(i),
           \A i \in DOMAIN stack : stack[i].kind = "call" => i \in DOMAIN stack' /\ stack'[i] = stack[i]
    PROVE  CurrentOK' /\ OwnedOnce' /\ SlotsOK'
<1>1. \A i \in DOMAIN stack' : stack'[i].kind = "call" => Owns(i)' = Owns(i)
  BY DEF Owns
<1>2. \A i \in DOMAIN stack' : Owns(i)' => stack'[i].kind = "call"
  BY DEF Owns
<1>3. \A i \in DOMAIN stack : stack[i].kind = "call" => stack[i].ev \in Event
  BY FrameFields DEF CqIInv, CqTypeOK
<1>4. CurrentOK'
  <2> SUFFICES ASSUME NEW i \in DOMAIN stack', stack'[i].kind = "call"
               PROVE  /\ ~stack'[i].acked => CallOf(i)' = stack'[i].ev /\ ExtOf(i)' = ev'[stack'[i].ev].ext
                      /\ stack'[i].acked => CallOf(i)' = Null
                      /\ Owns(i)' => ev'[stack'[i].ev].st = "called"
    BY DEF CurrentOK, Calls
  <2>1. /\ stack'[i] = stack[i] /\ CallOf(i)' = CallOf(i) /\ ExtOf(i)' = ExtOf(i) /\ Owns(i)' = Owns(i)
        /\ i \in Calls(stack) /\ stack[i].ev \in Event
    BY <1>1, <1>3 DEF Calls
  <2> QED BY <2>1 DEF CqIInv, CurrentOK
<1>5. OwnedOnce'
  <2>1. \A i, j \in DOMAIN stack' : Owns(i)' /\ Owns(j)' /\ stack'[i].ev = stack'[j].ev => i = j
    <3> TAKE i, j \in DOMAIN stack'
    <3> HAVE Owns(i)' /\ Owns(j)' /\ stack'[i].ev = stack'[j].ev
    <3>1. /\ i \in DOMAIN stack /\ j \in DOMAIN stack /\ stack'[i] = stack[i] /\ stack'[j] = stack[j]
          /\ Owns(i) /\ Owns(j)
      BY <1>1, <1>2
    <3> QED BY <3>1 DEF CqIInv, OwnedOnce
  <2>2. ASSUME NEW x \in Event, ev'[x].st = "called"
        PROVE  \E i \in DOMAIN stack' : Owns(i)' /\ stack'[i].ev = x
    <3>1. PICK i \in DOMAIN stack : Owns(i) /\ stack[i].ev = x
      BY <2>2 DEF CqIInv, OwnedOnce
    <3>2. stack[i].kind = "call"
      BY <3>1 DEF Owns
    <3> QED BY <1>1, <3>1, <3>2
  <2> QED BY <2>1, <2>2 DEF OwnedOnce
<1>6. SlotsOK'
  <2>1. ASSUME NEW r \in Slot, handle'[r] # Null
        PROVE  /\ ev'[handle'[r]].slot = r
               /\ ev'[handle'[r]].st = "linked" \/ \E i \in DOMAIN stack' : Unacked(i, handle[r])'
    <3>1. /\ handle'[r] = handle[r] /\ handle[r] \in Event /\ ev[handle[r]].slot = r
          /\ ev[handle[r]].st = "linked" \/ \E i \in DOMAIN stack : Unacked(i, handle[r])
      BY <2>1 DEF CqIInv, SlotsOK, CqTypeOK
    <3>2. \A i \in DOMAIN stack : Unacked(i, handle[r]) => i \in DOMAIN stack' /\ Unacked(i, handle[r])'
      BY DEF Unacked
    <3> QED BY <3>1, <3>2
  <2>2. \A x \in Event : ev'[x].slot # Null => ~ev'[x].ext
    BY DEF CqIInv, SlotsOK
  <2> QED BY <2>1, <2>2 DEF SlotsOK
<1> QED BY <1>4, <1>5, <1>6

\* The delay that cq_heartbeat() gives cq_clock() is a number.
LEMMA AdjustedInt ==
    ASSUME NEW d \in Int
    PROVE  Adjusted(d) \in Int
<1>1. Upper \in Int /\ Period \in Int
  BY CqAssumption DEF Upper
<1>2. \A a, b \in Int : Max({a, b}) \in Int
  <2> TAKE a, b \in Int
  <2>1. \E x \in {a, b} : \A y \in {a, b} : x >= y
    OBVIOUS
  <2> QED BY <2>1 DEF Max
<1>3. \A a, b \in Int : Min({a, b}) \in Int
  <2> TAKE a, b \in Int
  <2>1. \E x \in {a, b} : \A y \in {a, b} : x <= y
    OBVIOUS
  <2> QED BY <2>1 DEF Min
<1> QED BY <1>1, <1>2, <1>3 DEF Adjusted

\* The times are shifted by whole spans.
LEMMA ShiftSpans ==
    ASSUME CqTypeOK
    PROVE  \E k \in Int : Shift = k * Span /\ (Clocks(stack) # {} => Shift = 0)
<1>1. Span \in Nat \ {0}
  <2>1. \A a, b \in Nat \ {0} : a * b \in Nat \ {0}
    OBVIOUS
  <2> QED BY <2>1, CqAssumption DEF Span
<1>2. time \div Span \in Int
  BY <1>1, DivMod DEF CqTypeOK
<1>3. 0 * Span = 0
  BY <1>1
<1>4. CASE Clocks(stack) = {}
  BY <1>2, <1>4 DEF Shift
<1>5. CASE Clocks(stack) # {}
  BY <1>3, <1>5 DEF Shift
<1> QED BY <1>4, <1>5

\* The entry of cq_clock(): the trigger times are shifted with the time, and
\* the current call is saved.
LEMMA EnterClockOK ==
    ASSUME NEW d \in Int, CqIInv, EnterClock(d), stack = <<>> \/ InCall
    PROVE  CqIInv'
<1>1. CqTypeOK /\ time \in Int /\ last_bucket \in Bucket /\ call \in Event \cup {Null} /\ call_extended \in BOOLEAN
  BY DEF CqIInv, CqTypeOK, Bucket
<1>2. PICK k \in Int : Shift = k * Span
  BY <1>1, ShiftSpans
<1>3. PICK h \in Int : h = Shift
  <2>1. Span \in Int
    BY CqAssumption DEF Span
  <2>2. k * Span \in Int
    BY <2>1
  <2> QED BY <1>2, <2>2
<1> DEFINE now == time + d - h
           f == [kind |-> "clock", now |-> now, over |-> EV_OVER(d), moved |-> FALSE,
                 bucket |-> last_bucket,
                 target |-> IF EV_OVER(d) THEN last_bucket ELSE EV_HASH(now),
                 old_call |-> call, old_ext |-> call_extended, old_last |-> last_bucket]
<1>4. now \in Int
  BY <1>1
<1>5. /\ time' = now /\ stack' = Append(stack, f)
      /\ ev' = [x \in Event |-> IF ev[x].st = "linked" THEN [ev[x] EXCEPT !.time = @ - h] ELSE ev[x]]
      /\ UNCHANGED <<bucket, last_bucket, call, call_extended, handle>>
  BY <1>3 DEF EnterClock
<1> HIDE DEF now
<1>6. EV_HASH(now) \in Bucket /\ EV_OVER(d) \in BOOLEAN
  BY <1>4, HashProperty DEF EV_OVER
<1>7. f \in Frame /\ f.kind = "clock" /\ Holds(f, call, call_extended)
  BY <1>1, <1>4, <1>6 DEF Frame, Bucket, Holds
<1> HIDE DEF f
<1>8. PICK n \in Nat :
        /\ n = Len(stack) /\ DOMAIN stack = 1 .. n
        /\ stack' \in Seq(Frame) /\ Len(stack') = n + 1 /\ DOMAIN stack' = 1 .. n + 1
        /\ stack'[n + 1] = f /\ \A i \in 1 .. n : stack'[i] = stack[i]
        /\ \A i \in 1 .. n : stack[i].kind = "call" =>
              CallOf(i)' = CallOf(i) /\ ExtOf(i)' = ExtOf(i)
  BY <1>1, <1>5, <1>7, Push
<1>9. \A i \in 1 .. n + 1 : i \in 1 .. n \/ i = n + 1
  OBVIOUS
<1>10. \A x \in Event : /\ ev'[x].st = ev[x].st /\ ev'[x].ext = ev[x].ext /\ ev'[x].slot = ev[x].slot
                        /\ ev[x].st = "linked" => ev'[x].time = ev[x].time - h
                        /\ ev'[x] \in [st : {"free", "linked", "called"}, time : Int,
                                       ext : BOOLEAN, slot : Slot \cup {Null}]
  <2> TAKE x \in Event
  <2> DEFINE R == [st : {"free", "linked", "called"}, time : Int, ext : BOOLEAN, slot : Slot \cup {Null}]
  <2>1. PICK r \in R : r = ev[x]
    BY DEF CqIInv, CqTypeOK
  <2>2. ev'[x] = IF r.st = "linked" THEN [r EXCEPT !.time = r.time - h] ELSE r
    BY <1>5, <2>1
  <2>3. /\ [r EXCEPT !.time = r.time - h] \in R /\ [r EXCEPT !.time = r.time - h].st = r.st
        /\ [r EXCEPT !.time = r.time - h].time = r.time - h
        /\ [r EXCEPT !.time = r.time - h].ext = r.ext /\ [r EXCEPT !.time = r.time - h].slot = r.slot
    OBVIOUS
  <2> QED BY <2>1, <2>2, <2>3
<1>11. BucketsOK'
  <2> SUFFICES ASSUME NEW b \in Bucket
               PROVE  Sorted(ev', bucket[b]) /\ Range(bucket[b]) = HashedTo(ev', b)
    BY <1>5 DEF BucketsOK, Sorted, HashedTo, Bucket, EV_HASH, Event
  <2>1. Sorted(ev, bucket[b]) /\ Range(bucket[b]) = HashedTo(ev, b)
    BY DEF CqIInv, BucketsOK
  <2>2. \A x \in Event : ev[x].time \in Int /\ (ev[x].st = "linked" => EV_HASH(ev'[x].time) = EV_HASH(ev[x].time))
    <3> TAKE x \in Event
    <3>1. ev[x].time \in Int
      BY DEF CqIInv, CqTypeOK
    <3>2. EV_HASH(ev[x].time - k * Span) = EV_HASH(ev[x].time)
      BY <3>1, HashProperty
    <3> QED BY <1>2, <1>3, <1>10, <3>1, <3>2
  <2>3. HashedTo(ev', b) = HashedTo(ev, b)
    BY <1>10, <2>2 DEF HashedTo
  <2>4. \A i \in DOMAIN bucket[b] : /\ ev'[bucket[b][i]].time = ev[bucket[b][i]].time - h
                                    /\ ev[bucket[b][i]].time \in Int
    <3> TAKE i \in DOMAIN bucket[b]
    <3>1. bucket[b][i] \in HashedTo(ev, b)
      BY <2>1 DEF Range
    <3> QED BY <1>10, <2>2, <3>1 DEF HashedTo
  <2>5. Sorted(ev', bucket[b])
    BY <2>1, <2>4 DEF Sorted
  <2> QED BY <2>1, <2>3, <2>5
<1>12. CqTypeOK'
  <2>1. ev' \in [Event -> [st : {"free", "linked", "called"}, time : Int,
                           ext : BOOLEAN, slot : Slot \cup {Null}]]
    BY <1>5, <1>10
  <2> QED BY <1>4, <1>5, <1>8, <2>1 DEF CqIInv, CqTypeOK
<1>13. NestingOK'
  <2> SUFFICES ASSUME NEW i \in 1 .. n + 1
               PROVE  IF stack'[i].kind = "clock" THEN i = 1 \/ stack'[i - 1].kind = "call"
                      ELSE stack'[i].by = "clock" <=> i > 1 /\ stack'[i - 1].kind = "clock"
    BY <1>8 DEF NestingOK
  <2>1. CASE i = n + 1
    <3>1. n = 0 \/ (n \in 1 .. n /\ stack[n].kind = "call")
      BY <1>1, <1>8 DEF InCall, Top, CqTypeOK
    <3>2. n \in 1 .. n => stack'[i - 1] = stack[n]
      BY <1>8, <2>1
    <3> QED BY <1>7, <1>8, <2>1, <3>1, <3>2
  <2>2. CASE i \in 1 .. n
    <3>1. stack'[i] = stack[i] /\ (i > 1 => stack'[i - 1] = stack[i - 1])
      BY <1>8, <2>2
    <3> QED BY <1>8, <2>2, <3>1 DEF CqIInv, NestingOK
  <2> QED BY <1>9, <2>1, <2>2
<1>14. CurrentOK' /\ OwnedOnce' /\ SlotsOK'
  <2>1. \A i \in DOMAIN stack' : stack'[i].kind = "call" =>
           /\ i \in DOMAIN stack /\ stack'[i] = stack[i]
           /\ CallOf(i)' = CallOf(i) /\ ExtOf(i)' = ExtOf(i)
    BY <1>7, <1>8, <1>9
  <2>2. \A i \in DOMAIN stack : stack[i].kind = "call" => i \in DOMAIN stack' /\ stack'[i] = stack[i]
    BY <1>8
  <2>3. \A x \in Event : ev'[x].st = ev[x].st /\ ev'[x].ext = ev[x].ext /\ ev'[x].slot = ev[x].slot
    BY <1>10
  <2> QED BY <1>5, <2>1, <2>2, <2>3, KeptCalls
<1> QED BY <1>11, <1>12, <1>13, <1>14 DEF CqIInv

\* What an innermost cq_clock() is.
LEMMA InnermostClock ==
    ASSUME CqIInv, InClock
    PROVE  \E n \in Nat \ {0} :
               /\ n = Len(stack) /\ DOMAIN stack = 1 .. n /\ stack # <<>>
               /\ Top = stack[n] /\ Top \in Frame /\ Top.kind = "clock"
<1>1. stack \in Seq(Frame) /\ stack # <<>> /\ Top.kind = "clock"
  BY DEF CqIInv, CqTypeOK, InClock
<1>2. PICK n \in Nat \ {0} : n = Len(stack) /\ DOMAIN stack = 1 .. n
  BY <1>1
<1>3. Top = stack[n] /\ Top \in Frame
  BY <1>1, <1>2 DEF Top
<1> QED BY <1>1, <1>2, <1>3

\* cq_clock() moves to the next bucket.
LEMMA ClockMovesOK ==
    ASSUME CqIInv, ClockMoves
    PROVE  CqIInv'
<1>1. /\ InClock /\ last_bucket' = (IF Top.moved THEN last_bucket ELSE Top.target)
      /\ stack' = [stack EXCEPT ![Len(stack)].moved = TRUE, ![Len(stack)].bucket = BucketAfter(@)]
      /\ ev' = ev /\ bucket' = bucket /\ UNCHANGED <<time, call, call_extended, handle>>
  BY DEF ClockMoves
<1>2. PICK n \in Nat \ {0} :
        /\ n = Len(stack) /\ DOMAIN stack = 1 .. n /\ stack # <<>>
        /\ Top = stack[n] /\ Top \in Frame /\ Top.kind = "clock"
  BY <1>1, InnermostClock
<1>3. PICK f \in Frame : f = stack[n] /\ f = Top /\ f.kind = "clock"
  BY <1>2
<1>4. PICK m : m = [f EXCEPT !.moved = TRUE]
  OBVIOUS
<1>5. PICK g : g = [m EXCEPT !.bucket = BucketAfter(@)]
  OBVIOUS
<1>6. f.bucket \in Bucket /\ BucketAfter(f.bucket) \in Bucket
  <2>1. f.bucket \in Bucket
    BY <1>3, FrameFields
  <2>2. f.bucket + 1 \in Int /\ HashSize \in Nat \ {0}
    BY <2>1, CqAssumption DEF Bucket
  <2> QED BY <2>1, <2>2, DivMod DEF BucketAfter, Bucket
<1>7. /\ m \in Frame /\ m.kind = "clock" /\ m.bucket = f.bucket
      /\ m.old_call = f.old_call /\ m.old_ext = f.old_ext
  BY <1>3, <1>4 DEF Frame
<1>8. /\ g \in Frame /\ g.kind = "clock"
      /\ g.old_call = f.old_call /\ g.old_ext = f.old_ext
  BY <1>5, <1>6, <1>7 DEF Frame, Bucket
<1>9. stack' = [stack EXCEPT ![Len(stack)] = g]
  <2>1. stack \in Seq(Frame) /\ n \in DOMAIN stack
    BY <1>2 DEF CqIInv, CqTypeOK
  <2>2. stack' = [[stack EXCEPT ![n].moved = TRUE] EXCEPT ![n].bucket = BucketAfter(@)]
    BY <1>1, <1>2
  <2>3. [stack EXCEPT ![n].moved = TRUE] = [stack EXCEPT ![n] = m]
    BY <1>3, <1>4, <2>1
  <2>4. [[stack EXCEPT ![n] = m] EXCEPT ![n].bucket = BucketAfter(@)] = [stack EXCEPT ![n] = g]
    BY <1>5, <2>1
  <2> QED BY <1>2, <2>2, <2>3, <2>4
<1>10. /\ stack' \in Seq(Frame) /\ Len(stack') = n /\ DOMAIN stack' = 1 .. n
       /\ stack'[n] = g /\ \A i \in 1 .. n - 1 : stack'[i] = stack[i]
       /\ \A i \in 1 .. n - 1 : CallOf(i)' = CallOf(i) /\ ExtOf(i)' = ExtOf(i)
  <2>1. g.kind = Top.kind /\ IF g.kind = "clock" THEN Holds(g, Top.old_call, Top.old_ext)
                             ELSE Holds(g, Top.saved_call, Top.saved_ext)
    BY <1>3, <1>8 DEF Holds
  <2>2. PICK p \in Nat \ {0} :
          /\ p = Len(stack)
          /\ stack' \in Seq(Frame) /\ Len(stack') = p /\ DOMAIN stack' = 1 .. p
          /\ stack'[p] = g /\ \A i \in 1 .. p - 1 : stack'[i] = stack[i]
          /\ \A i \in 1 .. p - 1 : CallOf(i)' = CallOf(i) /\ ExtOf(i)' = ExtOf(i)
    BY <1>2, <1>8, <1>9, <2>1, Update DEF CqIInv
  <2> QED BY <1>2, <2>2
<1>11. \A i \in 1 .. n : i \in 1 .. n - 1 \/ i = n
  OBVIOUS
<1>12. CqTypeOK'
  <2>1. Top.target \in Bucket
    BY <1>2, FrameFields
  <2> QED BY <1>1, <1>10, <2>1 DEF CqIInv, CqTypeOK, Bucket
<1>13. BucketsOK'
  BY <1>1, SameBuckets DEF CqIInv
<1>14. NestingOK'
  <2> SUFFICES ASSUME NEW i \in 1 .. n
               PROVE  IF stack'[i].kind = "clock" THEN i = 1 \/ stack'[i - 1].kind = "call"
                      ELSE stack'[i].by = "clock" <=> i > 1 /\ stack'[i - 1].kind = "clock"
    BY <1>10 DEF NestingOK
  <2>1. i > 1 => stack'[i - 1] = stack[i - 1]
    BY <1>10
  <2>2. CASE i = n
    BY <1>2, <1>8, <1>10, <2>1, <2>2 DEF CqIInv, NestingOK
  <2>3. CASE i \in 1 .. n - 1
    BY <1>2, <1>10, <2>1, <2>3 DEF CqIInv, NestingOK
  <2> QED BY <1>11, <2>2, <2>3
<1>15. CurrentOK' /\ OwnedOnce' /\ SlotsOK'
  <2>1. \A i \in DOMAIN stack' : stack'[i].kind = "call" =>
           /\ i \in DOMAIN stack /\ stack'[i] = stack[i]
           /\ CallOf(i)' = CallOf(i) /\ ExtOf(i)' = ExtOf(i)
    BY <1>2, <1>8, <1>10, <1>11
  <2>2. \A i \in DOMAIN stack : stack[i].kind = "call" => i \in DOMAIN stack' /\ stack'[i] = stack[i]
    BY <1>2, <1>10, <1>11
  <2>3. \A x \in Event : ev'[x].st = ev[x].st /\ ev'[x].ext = ev[x].ext /\ ev'[x].slot = ev[x].slot
    BY <1>1
  <2> QED BY <1>1, <2>1, <2>2, <2>3, KeptCalls
<1> QED BY <1>12, <1>13, <1>14, <1>15 DEF CqIInv

\* cq_clock() returns, and restores the current call.
LEMMA ClockEndsOK ==
    ASSUME CqIInv, ClockEnds
    PROVE  CqIInv'
<1>1. /\ InClock /\ stack' = Below /\ call' = Top.old_call /\ call_extended' = Top.old_ext
      /\ last_bucket' = LastAfter(Top)
      /\ ev' = ev /\ bucket' = bucket /\ UNCHANGED <<time, handle>>
  BY DEF ClockEnds
<1>2. PICK n \in Nat \ {0} :
        /\ n = Len(stack) /\ DOMAIN stack = 1 .. n /\ stack # <<>>
        /\ Top = stack[n] /\ Top \in Frame /\ Top.kind = "clock"
  BY <1>1, InnermostClock
<1>3. /\ Holds(Top, call', call_extended') /\ Top.old_last \in Bucket
      /\ call' \in Event \cup {Null} /\ call_extended' \in BOOLEAN
  BY <1>1, <1>2, FrameFields DEF Holds
<1>4. /\ stack' \in Seq(Frame) /\ Len(stack') = n - 1 /\ DOMAIN stack' = 1 .. n - 1
      /\ \A i \in 1 .. n - 1 : stack'[i] = stack[i] /\ i \in 1 .. n
      /\ \A i \in 1 .. n - 1 : stack[i].kind = "call" => CallOf(i)' = CallOf(i) /\ ExtOf(i)' = ExtOf(i)
      /\ \A i \in 1 .. n : i \in 1 .. n - 1 \/ i = n
  <2>1. PICK m \in Nat \ {0} :
          /\ m = Len(stack)
          /\ stack' \in Seq(Frame) /\ Len(stack') = m - 1 /\ DOMAIN stack' = 1 .. m - 1
          /\ \A i \in 1 .. m - 1 : stack'[i] = stack[i]
          /\ \A i \in 1 .. m - 1 : stack[i].kind = "call" => CallOf(i)' = CallOf(i) /\ ExtOf(i)' = ExtOf(i)
    BY <1>1, <1>2, <1>3, Pop DEF CqIInv
  <2> QED BY <1>2, <2>1
<1>5. CqTypeOK'
  <2>1. last_bucket' \in Bucket
    BY <1>1, <1>3 DEF LastAfter, CqIInv, CqTypeOK, Bucket
  <2> QED BY <1>1, <1>3, <1>4, <2>1 DEF CqIInv, CqTypeOK, Bucket
<1>6. BucketsOK'
  BY <1>1, SameBuckets DEF CqIInv
<1>7. NestingOK'
  <2> SUFFICES ASSUME NEW i \in 1 .. n - 1
               PROVE  IF stack'[i].kind = "clock" THEN i = 1 \/ stack'[i - 1].kind = "call"
                      ELSE stack'[i].by = "clock" <=> i > 1 /\ stack'[i - 1].kind = "clock"
    BY <1>4 DEF NestingOK
  <2>1. stack'[i] = stack[i] /\ (i > 1 => stack'[i - 1] = stack[i - 1]) /\ i \in DOMAIN stack
    BY <1>2, <1>4
  <2> QED BY <2>1 DEF CqIInv, NestingOK
<1>8. CurrentOK' /\ OwnedOnce' /\ SlotsOK'
  <2>1. \A i \in DOMAIN stack' : stack'[i].kind = "call" =>
           /\ i \in DOMAIN stack /\ stack'[i] = stack[i]
           /\ CallOf(i)' = CallOf(i) /\ ExtOf(i)' = ExtOf(i)
    BY <1>2, <1>4
  <2>2. \A i \in DOMAIN stack : stack[i].kind = "call" => i \in DOMAIN stack' /\ stack'[i] = stack[i]
    BY <1>2, <1>4
  <2>3. \A x \in Event : ev'[x].st = ev[x].st /\ ev'[x].ext = ev[x].ext /\ ev'[x].slot = ev[x].slot
    BY <1>1
  <2> QED BY <1>1, <2>1, <2>2, <2>3, KeptCalls
<1> QED BY <1>5, <1>6, <1>7, <1>8 DEF CqIInv

----------------------------------------------------------------------------
(* The invariant.                                                          *)

\* Each step of the users and of the thread of the queue keeps the invariant.
LEMMA CqStepOK ==
    ASSUME CqIInv, [CqNext]_cqvars
    PROVE  CqIInv'
<1>1. CASE UNCHANGED cqvars
  <2>1. UNCHANGED <<ev, bucket, time, last_bucket, call, call_extended, handle, stack>>
    BY <1>1 DEF cqvars
  <2>2. CqTypeOK' /\ BucketsOK' /\ NestingOK'
    BY <2>1 DEF CqIInv, CqTypeOK, BucketsOK, NestingOK
  <2>3. CurrentOK' /\ OwnedOnce' /\ SlotsOK'
    BY <2>1 DEF CqIInv, CurrentOK, OwnedOnce, SlotsOK, Calls, CallOf, ExtOf, Owns, Unacked
  <2> QED BY <2>2, <2>3 DEF CqIInv
<1>2. ASSUME NEW s \in Slot, cq_insert(s) \/ cq_cancel(s) \/ cq_resched(s) \/ cq_expire(s)
      PROVE  CqIInv'
  BY <1>2, cq_insertOK, cq_cancelOK, cq_reschedOK, cq_expireOK
<1>3. ASSUME NEW ext \in BOOLEAN, InsertForgotten(ext) PROVE CqIInv'
  BY <1>3, InsertForgottenOK
<1>4. ASSUME NEW d \in -1 .. MaxElapsed, cq_heartbeat(d) \/ cq_main_dispatch(d) PROVE CqIInv'
  <2>1. Adjusted(d) \in Int
    BY AdjustedInt
  <2>2. EnterClock(Adjusted(d)) /\ (stack = <<>> \/ InCall)
    BY <1>4 DEF cq_heartbeat, cq_main_dispatch
  <2> QED BY <2>1, <2>2, EnterClockOK
<1>5. CASE cq_zero \/ cq_event \/ CallReturns
  BY <1>5, cq_zeroOK, cq_eventOK, CallReturnsOK
<1>6. CASE ClockStep
  BY <1>6, ClockCallsOK, ClockMovesOK, ClockEndsOK DEF ClockStep
<1> QED BY <1>1, <1>2, <1>3, <1>4, <1>5, <1>6 DEF CqNext

\* The inductive invariant holds of every behaviour of the callout queue.
THEOREM CqInvariance == CqSpec => []CqIInv
<1>1. CqInit => CqIInv
  BY CqInitOK
<1>2. CqIInv /\ [CqNext]_cqvars => CqIInv'
  BY CqStepOK
<1> QED BY <1>1, <1>2, PTL DEF CqSpec

\* Whatever callbacks insert, cancel, reschedule, expire or dispatch, for any
\* number of events and buckets and any depth of nesting: events are once in
\* the bucket they hash to, sorted; a callback that has not acknowledged its
\* event finds it as the current call; each event is freed once, by its owner.
THEOREM CqHolds == CqSpec => []CqInv
<1>1. CqIInv => CqInv
  <2> SUFFICES ASSUME CqIInv PROVE CqInv
    OBVIOUS
  <2>1. CqTypeOK /\ BucketsExact
    BY BucketsCounted DEF CqIInv
  <2>2. CallExact
    <3> SUFFICES ASSUME InCall, ~Top.acked PROVE call = Top.ev /\ call_extended = ev[Top.ev].ext
      BY DEF CallExact
    <3> QED BY InnermostCall
  <2>3. EventsOwned
    <3>1. \A i \in Calls(stack) : ev[stack[i].ev].st = "called" \/ stack[i].acked
      BY DEF CqIInv, CurrentOK, Owns, Calls
    <3>2. \A s \in Slot : handle[s] # Null =>
            /\ ev[handle[s]].slot = s
            /\ \/ ev[handle[s]].st = "linked"
               \/ \E i \in Calls(stack) : stack[i].ev = handle[s] /\ ~stack[i].acked
      BY DEF CqIInv, SlotsOK, Unacked, Calls
    <3>3. \A e \in Event : ev[e].st = "called" => \E i \in Calls(stack) : stack[i].ev = e
      BY DEF CqIInv, OwnedOnce, Owns, Calls
    <3> QED BY <3>1, <3>2, <3>3 DEF EventsOwned
  <2> QED BY <2>1, <2>2, <2>3 DEF CqInv
<1> QED BY <1>1, CqInvariance, PTL

----------------------------------------------------------------------------
(* The scan of the buckets.  Buckets are counted from time 0, round after  *)
(* round: the bucket b that cq_clock() scans at time `now' is the last one *)
(* hashed to b that is not after that of `now'.                            *)

Abs(t) == t \div Res
Pos(now, b) == Abs(now) - ((Abs(now) - b) % HashSize)

\* A time that cq_clock(), in frame f, will reach.
Left(f, t) == t <= f.now /\ Abs(t) >= Pos(f.now, f.bucket)

\* Events are in the future, or a scan under way will reach them.
Timely ==
    \A e \in Event : ev[e].st = "linked" =>
        \/ ev[e].time >= time
        \/ \E i \in Clocks(stack) : Left(stack[i], ev[e].time)

\* The time of the outermost cq_clock(), and what cq_last_bucket is, or will be
\* again, above frame f.
Outer == stack[Outermost].now
Cur(f) == IF f.moved THEN f.target ELSE f.old_last

ClockOK(f) ==
    /\ ~f.over /\ f.target = EV_HASH(f.now)
    /\ ~f.moved => f.bucket = f.old_last
ClocksOK ==
    \A i \in Clocks(stack) :
        /\ ClockOK(stack[i])
        /\ Outer <= stack[i].now /\ stack[i].now <= time

Innermost(s, i) == i \in Clocks(s) /\ \A j \in Clocks(s) : j <= i
Next_(s, i, j) == i \in Clocks(s) /\ j \in Clocks(s) /\ i < j /\ \A k \in Clocks(s) : k <= i \/ k >= j
Restored ==
    /\ \A i \in Clocks(stack) : Innermost(stack, i) => last_bucket = Cur(stack[i])
    /\ \A i, j \in Clocks(stack) : Next_(stack, i, j) => stack[j].old_last = Cur(stack[i])

\* cq_last_bucket is not far behind the time.
Since(b, low, t) == \E x \in Int : low <= x /\ x <= t /\ b = EV_HASH(x)
Near ==
    /\ Clocks(stack) = {} => Since(last_bucket, time - NestMax, time)
    /\ Clocks(stack) # {} =>
         /\ time <= Outer + NestMax
         /\ \A e \in Event : ev[e].st = "linked" => ev[e].time >= Outer - Upper
         /\ Len(stack) > Outermost => Since(last_bucket, Outer - Upper, time)
         /\ \A i \in Clocks(stack) : i > Outermost => Since(stack[i].old_last, Outer - Upper, time)

ScanIInv == Timely /\ ClocksOK /\ Restored /\ Near

\* A heartbeat, after what elapsed in those nested in the previous one, does not go
\* round the hash list: without it the scan misses events (see the README).
SpanFits == Upper + NestMax <= Span - Res

\* A time is in bucket Abs(t) of an unbounded list, which the hash folds.
LEMMA AbsType ==
    ASSUME NEW t \in Int
    PROVE  /\ Abs(t) \in Int /\ EV_HASH(t) = Abs(t) % HashSize
           /\ t % Res \in 0 .. Res - 1 /\ t = Abs(t) * Res + (t % Res)
BY DivMod, CqAssumption DEF Abs, EV_HASH

\* A quotient and a remainder, compared.
LEMMA QuotientOrder ==
    ASSUME NEW m \in Nat \ {0}, NEW a \in Int, NEW b \in Int, NEW r \in 0 .. m - 1, NEW s \in 0 .. m - 1,
           a * m + r <= b * m + s
    PROVE  a <= b
<1> SUFFICES ASSUME a > b PROVE FALSE
  OBVIOUS
<1>1. PICK d \in Nat : a = b + 1 + d
  <2>1. a - b - 1 \in Nat /\ a = b + 1 + (a - b - 1)
    OBVIOUS
  <2> QED BY <2>1
<1>2. a * m = b * m + m + d * m
  BY <1>1
<1>3. d * m \in Nat /\ b * m \in Int
  OBVIOUS
<1> QED BY <1>2, <1>3

\* Later times are in later buckets.
LEMMA AbsOrder ==
    ASSUME NEW s \in Int, NEW t \in Int, s <= t
    PROVE  Abs(s) <= Abs(t)
<1>1. /\ Abs(s) \in Int /\ s % Res \in 0 .. Res - 1 /\ s = Abs(s) * Res + (s % Res)
      /\ Abs(t) \in Int /\ t % Res \in 0 .. Res - 1 /\ t = Abs(t) * Res + (t % Res)
  BY AbsType
<1>2. Res \in Nat \ {0}
  BY CqAssumption
<1>3. Abs(s) * Res + (s % Res) <= Abs(t) * Res + (t % Res)
  BY <1>1
<1> QED BY <1>1, <1>2, <1>3, QuotientOrder

\* Less than a whole round elapses when what elapses leaves out one bucket.
LEMMA AbsNear ==
    ASSUME NEW s \in Int, NEW t \in Int, t - s <= Span - Res
    PROVE  Abs(t) <= Abs(s) + HashSize - 1
<1>1. /\ Abs(s) \in Int /\ s % Res \in 0 .. Res - 1 /\ s = Abs(s) * Res + (s % Res)
  BY AbsType
<1>2. Res \in Nat \ {0} /\ HashSize \in Nat \ {0, 1}
  BY CqAssumption
<1>3. PICK u \in Int : u = (HashSize - 1) * Res
  BY <1>2
<1>4. u = Span - Res
  BY <1>2, <1>3 DEF Span
<1>5. t <= s + u
  BY <1>2, <1>3, <1>4
<1>6. Abs(t) <= Abs(s + u)
  BY <1>5, AbsOrder
<1>7. Abs(s + u) = Abs(s) + HashSize - 1
  <2>1. PICK k \in Int : k = -(HashSize - 1)
    BY <1>2
  <2>2. k * Res = -u
    BY <1>2, <1>3, <2>1
  <2>3. (s - k * Res) \div Res = (s \div Res) - k
    BY <1>2, DivShift
  <2>4. s - k * Res = s + u
    BY <2>2, <1>3
  <2> QED BY <1>1, <1>2, <2>1, <2>3, <2>4 DEF Abs
<1> QED BY <1>6, <1>7

\* The bucket b that is scanned at a time.
LEMMA PosProperty ==
    ASSUME NEW now \in Int, NEW b \in Bucket
    PROVE  /\ Pos(now, b) \in Int /\ Pos(now, b) <= Abs(now) /\ Abs(now) <= Pos(now, b) + HashSize - 1
           /\ Pos(now, b) % HashSize = b
<1>1. HashSize \in Nat \ {0} /\ Abs(now) \in Int /\ b \in Int
  BY CqAssumption, AbsType DEF Bucket
<1>2. PICK x \in Int : x = Abs(now) - b
  BY <1>1
<1>3. x \div HashSize \in Int /\ x % HashSize \in 0 .. HashSize - 1 /\ x = (x \div HashSize) * HashSize + (x % HashSize)
  BY <1>1, DivMod
<1>4. PICK q \in Int, r \in 0 .. HashSize - 1 : q = x \div HashSize /\ r = x % HashSize
  BY <1>3
<1>5. q * HashSize \in Int /\ x = q * HashSize + r
  BY <1>1, <1>3, <1>4
<1>6. Pos(now, b) = b + q * HashSize /\ Pos(now, b) = Abs(now) - r
  <2>1. (Abs(now) - b) % HashSize = r
    BY <1>2, <1>4
  <2>2. Pos(now, b) = Abs(now) - r
    BY <2>1 DEF Pos
  <2> QED BY <1>1, <1>2, <1>5, <2>2
<1>7. (b + q * HashSize) % HashSize = b
  <2>1. PICK k \in Int : k = -q
    OBVIOUS
  <2>2. k * HashSize = -(q * HashSize)
    BY <1>1, <2>1
  <2>3. (b - k * HashSize) % HashSize = b % HashSize
    BY <1>1, DivShift
  <2>4. b % HashSize = b
    BY <1>1 DEF Bucket
  <2>5. b - k * HashSize = b + q * HashSize
    BY <1>1, <1>5, <2>2
  <2> QED BY <2>3, <2>4, <2>5
<1> QED BY <1>1, <1>5, <1>6, <1>7

\* Within one turn, a slot of the hash stands for one bucket.
LEMMA PosUnique ==
    ASSUME NEW now \in Int, NEW a \in Int, a <= Abs(now), Abs(now) <= a + HashSize - 1
    PROVE  Pos(now, a % HashSize) = a
<1>1. HashSize \in Nat \ {0} /\ Abs(now) \in Int /\ a % HashSize \in Bucket
  BY CqAssumption, AbsType, DivMod DEF Bucket
<1>2. PICK b \in Bucket : b = a % HashSize
  BY <1>1
<1>3. PICK p \in Int : p = Pos(now, b)
  BY PosProperty
<1>4. p <= Abs(now) /\ Abs(now) <= p + HashSize - 1 /\ p % HashSize = b
  BY <1>3, PosProperty
<1>5. PICK q \in Int : q = p \div HashSize /\ p = q * HashSize + b
  BY <1>1, <1>4, DivMod
<1>6. PICK z \in Int : z = a \div HashSize /\ a = z * HashSize + b
  BY <1>1, <1>2, DivMod
<1>7. PICK u \in 0 .. HashSize - 1 : u = Abs(now) - p
  BY <1>1, <1>4
<1>8. PICK v \in 0 .. HashSize - 1 : v = Abs(now) - a
  BY <1>1
<1>9. q * HashSize + u = z * HashSize + v
  <2>1. q * HashSize \in Int /\ z * HashSize \in Int /\ b \in Int
    BY <1>1 DEF Bucket
  <2> QED BY <1>1, <1>5, <1>6, <1>7, <1>8, <2>1
<1>10. q = z
  BY <1>1, <1>9, MultipleBelow
<1> QED BY <1>2, <1>3, <1>5, <1>6, <1>10

\* The next bucket, before the last one.
LEMMA PosNext ==
    ASSUME NEW now \in Int, NEW b \in Bucket, b # EV_HASH(now)
    PROVE  Pos(now, BucketAfter(b)) = Pos(now, b) + 1
<1>1. HashSize \in Nat \ {0} /\ Abs(now) \in Int /\ EV_HASH(now) = Abs(now) % HashSize
  BY CqAssumption, AbsType
<1>2. PICK p \in Int : p = Pos(now, b) /\ p <= Abs(now) /\ Abs(now) <= p + HashSize - 1 /\ p % HashSize = b
  BY PosProperty
<1>3. p + 1 <= Abs(now) /\ Abs(now) <= p + 1 + HashSize - 1
  BY <1>1, <1>2
<1>4. (p + 1) % HashSize = BucketAfter(b)
  <2>1. PICK q \in Int : q = p \div HashSize /\ p = q * HashSize + b
    BY <1>1, <1>2, DivMod
  <2>2. PICK k \in Int : k = -q
    OBVIOUS
  <2>3. k * HashSize = -(q * HashSize) /\ q * HashSize \in Int /\ b \in Int
    BY <1>1, <2>2 DEF Bucket
  <2>4. PICK y \in Int : y = b + 1
    BY <2>3
  <2>5. (y - k * HashSize) % HashSize = y % HashSize
    BY <1>1, DivShift
  <2>6. y - k * HashSize = p + 1
    BY <2>1, <2>3, <2>4
  <2>7. BucketAfter(b) = y % HashSize
    BY <2>4 DEF BucketAfter
  <2> QED BY <2>5, <2>6, <2>7
<1>5. Pos(now, (p + 1) % HashSize) = p + 1
  BY <1>2, <1>3, PosUnique
<1> QED BY <1>2, <1>4, <1>5

\* A time not before that of bucket b, and hashed to it, that cq_clock() reaches.
LEMMA LeftHere ==
    ASSUME NEW now \in Int, NEW b \in Bucket, NEW t \in Int, t <= now, Abs(t) >= Pos(now, b)
    PROVE  EV_HASH(t) = b <=> Abs(t) = Pos(now, b)
<1>1. HashSize \in Nat \ {0} /\ Abs(now) \in Int /\ Abs(t) \in Int /\ EV_HASH(t) = Abs(t) % HashSize
  BY CqAssumption, AbsType
<1>2. /\ Pos(now, b) \in Int /\ Abs(now) <= Pos(now, b) + HashSize - 1
      /\ Pos(now, b) % HashSize = b
  BY PosProperty
<1>3. Abs(t) <= Abs(now)
  BY AbsOrder
<1>4. Abs(t) <= Abs(now) /\ Abs(now) <= Abs(t) + HashSize - 1
  BY <1>1, <1>2, <1>3
<1>5. Pos(now, Abs(t) % HashSize) = Abs(t)
  BY <1>1, <1>4, PosUnique
<1> QED BY <1>1, <1>2, <1>5

\* What events and clocks are.
LEMMA ScanTypes ==
    ASSUME CqTypeOK
    PROVE  /\ time \in Int /\ last_bucket \in Bucket /\ stack \in Seq(Frame) /\ Len(stack) \in Nat
           /\ DOMAIN stack = 1 .. Len(stack)
           /\ \A e \in Event : ev[e].time \in Int
           /\ \A i \in Clocks(stack) :
                /\ i \in 1 .. Len(stack) /\ stack[i] \in Frame /\ stack[i].kind = "clock"
                /\ stack[i].now \in Int /\ stack[i].bucket \in Bucket /\ stack[i].moved \in BOOLEAN
                /\ stack[i].target \in Bucket /\ stack[i].old_last \in Bucket
           /\ Upper \in Nat /\ NestMax \in Nat /\ Span \in Nat /\ Res \in Nat \ {0}
<1>1. /\ time \in Int /\ last_bucket \in Bucket /\ stack \in Seq(Frame)
      /\ \A e \in Event : ev[e].time \in Int
  BY DEF CqTypeOK, Bucket
<1>2. Len(stack) \in Nat /\ DOMAIN stack = 1 .. Len(stack)
  BY <1>1
<1>3. \A i \in Clocks(stack) : i \in 1 .. Len(stack) /\ stack[i] \in Frame /\ stack[i].kind = "clock"
  BY <1>1, <1>2 DEF Clocks
<1>4. Upper \in Nat /\ NestMax \in Nat /\ Span \in Nat /\ Res \in Nat \ {0}
  BY CqAssumption DEF Upper, Span
<1> QED BY <1>1, <1>2, <1>3, <1>4, FrameFields

\* Nothing in the bucket being scanned is due.
LEMMA NoneDue ==
    ASSUME CqIInv, InClock, Due = {}, NEW e \in Event, ev[e].st = "linked", EV_HASH(ev[e].time) = Top.bucket
    PROVE  ev[e].time > Top.now
<1>1. Top \in Frame /\ Top.kind = "clock"
  BY InnermostClock
<1>2. PICK b \in Bucket : b = Top.bucket
  BY <1>1, FrameFields
<1>3. bucket[b] \in Seq(Event) /\ Sorted(ev, bucket[b]) /\ Range(bucket[b]) = HashedTo(ev, b)
  BY DEF CqIInv, CqTypeOK, BucketsOK, Bucket
<1>4. e \in HashedTo(ev, b)
  BY <1>2 DEF HashedTo
<1>5. PICK s \in Seq(Event) : s = bucket[b]
  BY <1>3
<1>6. PICK i \in 1 .. Len(s) : s[i] = e
  BY <1>3, <1>4, <1>5 DEF Range
<1>7. s # <<>> /\ Len(s) \in Nat /\ 1 \in 1 .. Len(s) /\ Head(s) = s[1] /\ DOMAIN s = 1 .. Len(s)
  BY <1>6
<1>8. s[1] \in HashedTo(ev, b)
  BY <1>3, <1>5, <1>7 DEF Range
<1>9. s[1] \in Linked
  BY <1>8 DEF HashedTo, Linked
<1>10. ~(ev[s[1]].time <= Top.now)
  BY <1>2, <1>5, <1>7, <1>9 DEF Due
<1>11. i = 1 \/ ev[s[1]].time <= ev[s[i]].time
  BY <1>3, <1>5, <1>6, <1>7 DEF Sorted
<1>12. ev[s[1]].time \in Int /\ ev[e].time \in Int /\ Top.now \in Int
  <2>1. s[1] \in Event
    BY <1>9 DEF Linked
  <2>2. \A x \in Event : ev[x].time \in Int
    BY ScanTypes DEF CqIInv
  <2> QED BY <1>1, <2>1, <2>2, FrameFields
<1> QED BY <1>6, <1>10, <1>11, <1>12

\* The outermost cq_clock() under way.
LEMMA FirstClock ==
    ASSUME CqTypeOK, Clocks(stack) # {}
    PROVE  /\ Outermost \in Clocks(stack) /\ Outermost \in Nat /\ Outermost <= Len(stack) /\ Outer \in Int
           /\ \A i \in Clocks(stack) : Outermost <= i
<1>1. Clocks(stack) \subseteq Nat
  <2>1. \A i \in 1 .. Len(stack) : i \in Nat
    BY ScanTypes
  <2> QED BY <2>1, ScanTypes
<1>2. Outermost \in Clocks(stack) /\ \A i \in Clocks(stack) : Outermost <= i
  BY <1>1, MinProperty DEF Outermost
<1>3. Outermost \in 1 .. Len(stack) /\ Len(stack) \in Nat /\ Outer \in Int
  BY <1>2, ScanTypes DEF Outer
<1> QED BY <1>1, <1>2, <1>3

\* Which frame is that of the outermost cq_clock().
LEMMA OutermostIs ==
    ASSUME NEW S, S \subseteq Nat, NEW m \in S, \A i \in S : m <= i
    PROVE  Min(S) = m
<1>1. Min(S) \in S /\ \A i \in S : Min(S) <= i
  BY MinProperty
<1>2. Min(S) <= m /\ m <= Min(S) /\ m \in Nat /\ Min(S) \in Nat
  BY <1>1
<1> QED BY <1>2

\* What does not concern the clocks: events come and go, in the future.
LEMMA Untouched ==
    ASSUME CqTypeOK, CqTypeOK', ScanIInv, UNCHANGED <<time, last_bucket>>, Clocks(stack') = Clocks(stack),
           \A i \in Clocks(stack) : stack'[i] = stack[i],
           \A e \in Event : ev'[e].st = "linked" =>
               ev'[e].time >= time \/ (ev[e].st = "linked" /\ ev'[e].time = ev[e].time),
           Clocks(stack) # {} /\ Len(stack') > Outermost => Since(last_bucket, Outer - Upper, time)
    PROVE  ScanIInv'
<1>1. Timely'
  <2> SUFFICES ASSUME NEW e \in Event, ev'[e].st = "linked"
               PROVE  ev'[e].time >= time \/ \E i \in Clocks(stack) : Left(stack[i], ev'[e].time)
    BY DEF Timely, Left
  <2> QED BY DEF ScanIInv, Timely
<1>2. Clocks(stack) # {} => /\ Outer' = Outer /\ Outermost' = Outermost
                           /\ Outer \in Int /\ Outermost \in Clocks(stack)
  <2>1. Outermost' = Outermost
    BY DEF Outermost
  <2> QED BY <2>1, FirstClock DEF Outer
<1>3. ClocksOK'
  <2> SUFFICES ASSUME NEW i \in Clocks(stack)
               PROVE  /\ ClockOK(stack[i])
                      /\ Outer <= stack[i].now /\ stack[i].now <= time
    BY <1>2 DEF ClocksOK, ClockOK
  <2> QED BY DEF ScanIInv, ClocksOK
<1>4. Restored'
  <2>1. \A i : Innermost(stack', i) => Innermost(stack, i)
    BY DEF Innermost
  <2>2. \A i, j : Next_(stack', i, j) => Next_(stack, i, j)
    BY DEF Next_
  <2> QED BY <2>1, <2>2 DEF ScanIInv, Restored, Cur
<1>5. Near'
  <2>1. Clocks(stack) = {} => Since(last_bucket, time - NestMax, time)
    BY DEF ScanIInv, Near
  <2>2. ASSUME Clocks(stack) # {}
        PROVE  /\ time <= Outer + NestMax
               /\ \A e \in Event : ev'[e].st = "linked" => ev'[e].time >= Outer - Upper
               /\ Len(stack') > Outermost => Since(last_bucket, Outer - Upper, time)
               /\ \A i \in Clocks(stack) : i > Outermost => Since(stack[i].old_last, Outer - Upper, time)
    <3>1. Outer <= time /\ Outer \in Int /\ time \in Int /\ Upper \in Nat
      BY <1>2, <2>2, ScanTypes DEF ScanIInv, ClocksOK
    <3>2. \A e \in Event : ev'[e].time \in Int
      BY DEF CqTypeOK
    <3>3. \A e \in Event : ev[e].st = "linked" => ev[e].time >= Outer - Upper
      BY <2>2 DEF ScanIInv, Near
    <3>4. \A e \in Event : ev'[e].st = "linked" => ev'[e].time >= Outer - Upper
      BY <3>1, <3>2, <3>3
    <3> QED BY <2>2, <3>4 DEF ScanIInv, Near
  <2> QED BY <1>2, <2>1, <2>2 DEF Near, Since
<1> QED BY <1>1, <1>3, <1>4, <1>5 DEF ScanIInv

\* Events linked are those that were, or come in the future.
LEMMA Quiet ==
    ASSUME CqIInv, CqIInv', ScanIInv, UNCHANGED <<time, last_bucket, stack>>,
           \A e \in Event : ev'[e].st = "linked" =>
               ev'[e].time >= time \/ (ev[e].st = "linked" /\ ev'[e].time = ev[e].time)
    PROVE  ScanIInv'
<1>1. Clocks(stack) # {} /\ Len(stack') > Outermost => Since(last_bucket, Outer - Upper, time)
  BY DEF ScanIInv, Near
<1>2. CqTypeOK /\ CqTypeOK'
  BY DEF CqIInv
<1> QED BY <1>1, <1>2, Untouched

\* cq_insert() does not land behind the scan.
LEMMA InsertScan ==
    ASSUME CqIInv, CqIInv', ScanIInv, UNCHANGED <<time, last_bucket, stack>>,
           NEW e \in Allocated, NEW d \in Delay, NEW ext, NEW s, Insert(e, d, ext, s)
    PROVE  ScanIInv'
<1>1. d \in Nat /\ time \in Int
  BY CqAssumption DEF CqIInv, CqTypeOK
<1>2. ev' = [ev EXCEPT ![e] = [st |-> "linked", time |-> time + d, ext |-> ext, slot |-> s]]
  BY DEF Insert
<1>3. e \in Event /\ DOMAIN ev = Event
  BY DEF Allocated, CqIInv, CqTypeOK
<1>4. ev'[e].time = time + d /\ \A x \in Event : x # e => ev'[x] = ev[x]
  BY <1>2, <1>3
<1>5. \A x \in Event : ev'[x].st = "linked" =>
         ev'[x].time >= time \/ (ev[x].st = "linked" /\ ev'[x].time = ev[x].time)
  BY <1>1, <1>4
<1> QED BY <1>5, Quiet

\* What users do to events keeps the state of the scans.
LEMMA UserScan ==
    ASSUME CqIInv, CqIInv', ScanIInv, NEW s \in Slot, cq_insert(s) \/ cq_cancel(s) \/ cq_resched(s)
    PROVE  ScanIInv'
<1>1. CASE cq_insert(s)
  BY <1>1, InsertScan DEF cq_insert
<1>2. CASE cq_cancel(s)
  <2>1. PICK e \in Event : e = handle[s]
    BY <1>2, PendingEvent DEF cq_cancel
  <2>2. ev' = [ev EXCEPT ![e] = FreeEvent] /\ UNCHANGED <<time, last_bucket, stack>>
    BY <1>2, <2>1 DEF cq_cancel
  <2>3. DOMAIN ev = Event /\ FreeEvent.st = "free"
    BY DEF CqIInv, CqTypeOK, FreeEvent
  <2>4. \A x \in Event : ev'[x].st = "linked" => ev'[x] = ev[x]
    BY <2>2, <2>3
  <2> QED BY <2>2, <2>4, Quiet
<1>3. CASE cq_resched(s)
  <2>1. PICK e \in Event : e = handle[s]
    BY <1>3, PendingEvent DEF cq_resched
  <2>2. PICK d \in Delay : ev' = [ev EXCEPT ![e].time = time + d]
    BY <1>3, <2>1 DEF cq_resched
  <2>3. UNCHANGED <<time, last_bucket, stack>> /\ d \in Nat /\ time \in Int
    BY <1>3, CqAssumption DEF cq_resched, CqIInv, CqTypeOK
  <2>4. ev'[e].time = time + d /\ \A x \in Event : x # e => ev'[x] = ev[x]
    BY <2>2 DEF CqIInv, CqTypeOK
  <2>5. \A x \in Event : ev'[x].st = "linked" =>
           ev'[x].time >= time \/ (ev[x].st = "linked" /\ ev'[x].time = ev[x].time)
    BY <2>3, <2>4
  <2> QED BY <2>3, <2>5, Quiet
<1> QED BY <1>1, <1>2, <1>3

\* A callback that a cq_clock() waits for is above it.
LEMMA CallAbove ==
    ASSUME CqIInv, Clocks(stack) # {}, LockFree
    PROVE  Len(stack) > Outermost
<1>1. /\ Outermost \in Clocks(stack) /\ Outermost \in Nat /\ Outermost <= Len(stack)
      /\ Len(stack) \in Nat /\ stack \in Seq(Frame)
  BY FirstClock, ScanTypes DEF CqIInv
<1>2. stack # <<>> /\ stack[Outermost].kind = "clock"
  BY <1>1 DEF Clocks
<1>3. Len(stack) # Outermost
  BY <1>2 DEF LockFree, InClock, Top
<1> QED BY <1>1, <1>3

\* An event called out leaves the clocks alone.
LEMMA CallOutScan ==
    ASSUME CqIInv, CqIInv', ScanIInv, NEW e \in Event, NEW by, CallOut(e, by), UNCHANGED <<time, last_bucket>>,
           Clocks(stack) # {} => Since(last_bucket, Outer - Upper, time)
    PROVE  ScanIInv'
<1>1. PICK f : f.kind = "call" /\ stack' = Append(stack, f)
  BY DEF CallOut
<1>2. ev' = [ev EXCEPT ![e].st = "called", ![e].time = 0]
  BY DEF CallOut
<1>3. PICK n \in Nat : n = Len(stack) /\ DOMAIN stack = 1 .. n /\ stack \in Seq(Frame)
  BY ScanTypes DEF CqIInv
<1>4. stack' \in Seq(Frame)
  BY DEF CqIInv, CqTypeOK
<1>5. Len(stack') = n + 1 /\ DOMAIN stack' = 1 .. n + 1 /\ stack'[n + 1] = f /\ \A i \in 1 .. n : stack'[i] = stack[i]
  BY <1>1, <1>3, <1>4
<1>6. Clocks(stack') = Clocks(stack) /\ \A i \in Clocks(stack) : stack'[i] = stack[i]
  <2>1. \A i \in Clocks(stack) : i \in 1 .. n
    BY <1>3 DEF Clocks
  <2>2. \A i \in 1 .. n + 1 : i = n + 1 \/ i \in 1 .. n
    BY <1>3
  <2>3. \A i : i \in Clocks(stack') <=> i \in Clocks(stack)
    BY <1>1, <1>3, <1>5, <2>1, <2>2 DEF Clocks
  <2> QED BY <1>5, <2>1, <2>3
<1>7. \A x \in Event : ev'[x].st = "linked" => ev'[x] = ev[x]
  BY <1>2 DEF CqIInv, CqTypeOK
<1>8. CqTypeOK /\ CqTypeOK'
  BY DEF CqIInv
<1> QED BY <1>6, <1>7, <1>8, Untouched

\* cq_expire() takes an event out of its bucket, and calls it.
LEMMA ExpireScan ==
    ASSUME CqIInv, CqIInv', ScanIInv, NEW s \in Slot, cq_expire(s)
    PROVE  ScanIInv'
<1>1. PICK e \in Event : e = handle[s]
  BY PendingEvent DEF cq_expire
<1>2. CallOut(e, "expire") /\ UNCHANGED <<time, last_bucket>> /\ LockFree
  BY <1>1 DEF cq_expire
<1>3. Clocks(stack) # {} => Since(last_bucket, Outer - Upper, time)
  BY <1>2, CallAbove DEF ScanIInv, Near
<1> QED BY <1>2, <1>3, CallOutScan

\* cq_zero(), cq_event() and the return of a callback.
LEMMA CallScan ==
    ASSUME CqIInv, CqIInv', ScanIInv, cq_zero \/ cq_event \/ CallReturns
    PROVE  ScanIInv'
<1>1. InCall /\ UNCHANGED <<time, last_bucket>> /\ (stack' = Acked \/ stack' = Below)
  BY DEF cq_zero, cq_event, CallReturns
<1>2. PICK n \in Nat \ {0} : n = Len(stack) /\ DOMAIN stack = 1 .. n /\ stack \in Seq(Frame)
  <2>1. stack \in Seq(Frame)
    BY DEF CqIInv, CqTypeOK
  <2> QED BY <1>1, <2>1, InnermostCall
<1>3. stack[n].kind = "call"
  BY <1>1, <1>2 DEF InCall, Top
<1>4. /\ Len(stack') <= Len(stack) /\ Clocks(stack') = Clocks(stack)
      /\ \A i \in Clocks(stack) : stack'[i] = stack[i]
  <2>1. \A i \in Clocks(stack) : i \in 1 .. n - 1
    <3>1. \A i \in 1 .. n : i = n \/ i \in 1 .. n - 1
      OBVIOUS
    <3> QED BY <1>2, <1>3, <3>1 DEF Clocks
  <2>2. CASE stack' = Acked
    <3>1. stack' = [stack EXCEPT ![n].acked = TRUE]
      BY <1>2, <2>2 DEF Acked
    <3>2. Len(stack') = n /\ DOMAIN stack' = 1 .. n /\ \A i \in 1 .. n - 1 : stack'[i] = stack[i]
      BY <1>2, <3>1
    <3>3. stack'[n].kind = "call"
      <4>1. PICK f \in Frame : f = stack[n] /\ n \in DOMAIN stack
        BY <1>2
      <4>2. stack'[n] = [f EXCEPT !.acked = TRUE]
        BY <1>2, <3>1, <4>1
      <4> QED BY <1>3, <4>1, <4>2 DEF Frame
    <3>4. \A i \in 1 .. n : i = n \/ i \in 1 .. n - 1
      OBVIOUS
    <3>5. \A i : i \in Clocks(stack') <=> i \in Clocks(stack)
      BY <1>2, <1>3, <2>1, <3>2, <3>3, <3>4 DEF Clocks
    <3> QED BY <1>2, <2>1, <3>2, <3>5
  <2>3. CASE stack' = Below
    <3>1. stack' = SubSeq(stack, 1, n - 1)
      BY <1>2, <2>3 DEF Below
    <3>2. Len(stack') = n - 1 /\ DOMAIN stack' = 1 .. n - 1 /\ \A i \in 1 .. n - 1 : stack'[i] = stack[i]
      BY <1>2, <3>1
    <3>3. \A i \in 1 .. n - 1 : i \in 1 .. n
      OBVIOUS
    <3>4. \A i : i \in Clocks(stack') <=> i \in Clocks(stack)
      BY <1>2, <2>1, <3>2, <3>3 DEF Clocks
    <3> QED BY <1>2, <2>1, <3>2, <3>4
  <2> QED BY <1>1, <2>2, <2>3
<1>5. \A x \in Event : ev'[x].st = "linked" => ev'[x] = ev[x]
  <2>1. FreeEvent.st = "free" /\ DOMAIN ev = Event
    BY DEF FreeEvent, CqIInv, CqTypeOK
  <2>2. ev' = ev \/ \E y : ev' = [ev EXCEPT ![y] = FreeEvent]
    BY DEF cq_zero, cq_event, CallReturns
  <2> QED BY <2>1, <2>2
<1>6. Clocks(stack) # {} /\ Len(stack') > Outermost => Since(last_bucket, Outer - Upper, time)
  <2> HAVE Clocks(stack) # {} /\ Len(stack') > Outermost
  <2>1. Len(stack') \in Nat /\ Outermost \in Nat
    BY FirstClock DEF CqIInv, CqTypeOK
  <2>2. Len(stack) > Outermost
    BY <1>2, <1>4, <2>1
  <2> QED BY <2>2 DEF ScanIInv, Near
<1>7. CqTypeOK /\ CqTypeOK'
  BY DEF CqIInv
<1> QED BY <1>1, <1>4, <1>5, <1>6, <1>7, Untouched

\* The innermost cq_clock(), and cq_last_bucket meanwhile.
LEMMA TopClock ==
    ASSUME CqIInv, ScanIInv, InClock
    PROVE  \E n \in Nat \ {0}, f \in Frame :
               /\ n = Len(stack) /\ DOMAIN stack = 1 .. n /\ stack \in Seq(Frame) /\ f = Top /\ f = stack[n]
               /\ f.kind = "clock" /\ f.now \in Int /\ f.bucket \in Bucket
               /\ n \in Clocks(stack) /\ (\A i \in Clocks(stack) : i \in 1 .. n)
               /\ Outermost \in Clocks(stack) /\ \A i \in Clocks(stack) : Outermost <= i
               /\ last_bucket = Cur(f) /\ ClockOK(f)
               /\ Outer \in Int /\ time \in Int /\ Outer <= f.now /\ f.now <= time
<1>1. PICK n \in Nat \ {0} :
        /\ n = Len(stack) /\ DOMAIN stack = 1 .. n /\ stack # <<>>
        /\ Top = stack[n] /\ Top \in Frame /\ Top.kind = "clock"
  BY InnermostClock
<1>2. PICK f \in Frame : f = Top /\ f = stack[n] /\ f.kind = "clock"
  BY <1>1
<1>3. CqTypeOK /\ ClocksOK /\ Restored /\ stack \in Seq(Frame)
  BY DEF CqIInv, CqTypeOK, ScanIInv
<1>4. n \in Clocks(stack) /\ \A i \in Clocks(stack) : i \in 1 .. n
  BY <1>1, <1>2 DEF Clocks
<1>5. /\ Outermost \in Clocks(stack) /\ Outer \in Int /\ time \in Int
      /\ \A i \in Clocks(stack) : Outermost <= i
  BY <1>3, <1>4, FirstClock, ScanTypes
<1>6. Innermost(stack, n)
  BY <1>4 DEF Innermost
<1>7. last_bucket = Cur(f)
  BY <1>2, <1>3, <1>4, <1>6 DEF Restored
<1>8. ClockOK(f) /\ Outer <= f.now /\ f.now <= time
  BY <1>2, <1>3, <1>4 DEF ClocksOK
<1>9. f.now \in Int /\ f.bucket \in Bucket
  BY <1>2, FrameFields
<1> QED BY <1>1, <1>2, <1>3, <1>4, <1>5, <1>7, <1>8, <1>9

\* An event that is due comes first in the bucket being scanned.
LEMMA DueEvent ==
    ASSUME CqIInv, InClock, NEW e \in Due
    PROVE  /\ e \in Event /\ ev[e].st = "linked" /\ EV_HASH(ev[e].time) = Top.bucket /\ ev[e].time <= Top.now
           /\ \A x \in Linked : EV_HASH(ev[x].time) = Top.bucket => ev[x].time >= ev[e].time
<1>1. Top \in Frame /\ Top.kind = "clock"
  BY InnermostClock
<1>2. PICK b \in Bucket : b = Top.bucket
  BY <1>1, FrameFields
<1>3. bucket[b] \in Seq(Event) /\ Sorted(ev, bucket[b]) /\ Range(bucket[b]) = HashedTo(ev, b)
  BY DEF CqIInv, CqTypeOK, BucketsOK, Bucket
<1>4. PICK s \in Seq(Event) : s = bucket[b]
  BY <1>3
<1>5. e \in Event /\ ev[e].st = "linked" /\ ev[e].time <= Top.now /\ s # <<>> /\ e = Head(s)
  BY <1>2, <1>4 DEF Due, Linked
<1>6. Len(s) \in Nat /\ 1 \in 1 .. Len(s) /\ Head(s) = s[1] /\ DOMAIN s = 1 .. Len(s)
  BY <1>5
<1>7. e \in HashedTo(ev, b)
  BY <1>3, <1>4, <1>5, <1>6 DEF Range
<1>8. ASSUME NEW x \in Linked, EV_HASH(ev[x].time) = b PROVE ev[x].time >= ev[e].time
  <2>1. x \in HashedTo(ev, b) /\ x \in Event
    BY <1>8 DEF HashedTo, Linked
  <2>2. PICK i \in 1 .. Len(s) : s[i] = x
    BY <1>3, <1>4, <2>1 DEF Range
  <2>3. i = 1 \/ ev[s[1]].time <= ev[s[i]].time
    BY <1>3, <1>4, <1>6, <2>2 DEF Sorted
  <2>4. ev[e].time \in Int /\ ev[x].time \in Int
    BY <1>5, <2>1, ScanTypes DEF CqIInv
  <2> QED BY <1>5, <1>6, <2>2, <2>3, <2>4
<1> QED BY <1>2, <1>5, <1>7, <1>8 DEF HashedTo

\* cq_clock() calls the first event of the bucket, which is due.
LEMMA ClockCallsScan ==
    ASSUME CqIInv, CqIInv', ScanIInv, ClockCalls
    PROVE  ScanIInv'
<1>1. InClock /\ UNCHANGED <<time, last_bucket>>
  BY DEF ClockCalls
<1>2. PICK e \in Due : CallOut(e, "clock")
  BY DEF ClockCalls
<1>3. /\ e \in Event /\ ev[e].st = "linked" /\ EV_HASH(ev[e].time) = Top.bucket /\ ev[e].time <= Top.now
  BY <1>1, DueEvent
<1>4. PICK n \in Nat \ {0}, f \in Frame :
        /\ n = Len(stack) /\ f = Top /\ f = stack[n] /\ f.now \in Int
        /\ n \in Clocks(stack) /\ Outermost \in 1 .. n /\ last_bucket = Cur(f) /\ ClockOK(f)
        /\ Outer \in Int /\ time \in Int /\ Outer <= f.now /\ f.now <= time
  BY <1>1, TopClock
<1>5. PICK t \in Int : t = ev[e].time /\ Upper \in Nat
  BY <1>3, ScanTypes DEF CqIInv
<1>6. t >= Outer - Upper
  BY <1>3, <1>4, <1>5 DEF ScanIInv, Near
<1>7. Since(last_bucket, Outer - Upper, time)
  <2>1. CASE n > Outermost
    BY <1>4, <2>1 DEF ScanIInv, Near
  <2>2. CASE n = Outermost /\ f.moved
    <3>1. last_bucket = EV_HASH(f.now) /\ Outer - Upper <= f.now
      BY <1>4, <1>5, <2>2 DEF Cur, ClockOK
    <3> QED BY <1>4, <3>1 DEF Since
  <2>3. CASE n = Outermost /\ ~f.moved
    <3>1. last_bucket = EV_HASH(t) /\ t <= time
      BY <1>3, <1>4, <1>5, <2>3 DEF Cur, ClockOK
    <3> QED BY <1>5, <1>6, <3>1 DEF Since
  <2> QED BY <1>4, <2>1, <2>2, <2>3
<1> QED BY <1>1, <1>2, <1>3, <1>7, CallOutScan

\* Once a bucket is scanned, what the scan had left is in the buckets after it.
LEMMA LeftAfter ==
    ASSUME CqIInv, InClock, Due = {}, NEW e \in Event, ev[e].st = "linked", Left(Top, ev[e].time)
    PROVE  /\ Top.bucket # EV_HASH(Top.now)
           /\ Abs(ev[e].time) >= Pos(Top.now, BucketAfter(Top.bucket))
<1>1. Top \in Frame /\ Top.kind = "clock"
  BY InnermostClock
<1>2. PICK b \in Bucket, now \in Int : b = Top.bucket /\ now = Top.now
  BY <1>1, FrameFields
<1>3. PICK t \in Int : t = ev[e].time
  BY ScanTypes DEF CqIInv
<1>4. t <= now /\ Abs(t) >= Pos(now, b)
  BY <1>2, <1>3 DEF Left
<1>5. EV_HASH(t) # b
  BY <1>2, <1>3, <1>4, NoneDue
<1>6. /\ Abs(t) \in Int /\ Pos(now, b) \in Int /\ Abs(now) \in Int /\ Abs(t) <= Abs(now)
      /\ Pos(now, b) % HashSize = b /\ EV_HASH(now) = Abs(now) % HashSize /\ HashSize \in Nat \ {0}
  BY <1>4, AbsType, PosProperty, AbsOrder, CqAssumption
<1>7. Abs(t) # Pos(now, b)
  BY <1>4, <1>5, LeftHere
<1>8. b # EV_HASH(now)
  <2>1. ASSUME b = Abs(now) % HashSize PROVE Pos(now, b) = Abs(now)
    <3>1. Abs(now) <= Abs(now) /\ Abs(now) <= Abs(now) + HashSize - 1
      BY <1>6
    <3> QED BY <1>6, <2>1, <3>1, PosUnique
  <2> QED BY <1>4, <1>6, <1>7, <2>1
<1>9. Pos(now, BucketAfter(b)) = Pos(now, b) + 1
  BY <1>8, PosNext
<1>10. Abs(t) >= Pos(now, b) + 1
  BY <1>4, <1>6, <1>7
<1> QED BY <1>2, <1>3, <1>8, <1>9, <1>10

\* cq_clock() leaves a bucket that has no event due any more.
LEMMA ClockMovesScan ==
    ASSUME CqIInv, CqIInv', ScanIInv, ClockMoves
    PROVE  ScanIInv'
<1>1. /\ InClock /\ Due = {} /\ ~ScanEnded(Top) /\ last_bucket' = (IF Top.moved THEN last_bucket ELSE Top.target)
      /\ stack' = [stack EXCEPT ![Len(stack)].moved = TRUE, ![Len(stack)].bucket = BucketAfter(@)]
      /\ ev' = ev /\ UNCHANGED time
  BY DEF ClockMoves
<1>2. PICK n \in Nat \ {0}, f \in Frame :
        /\ n = Len(stack) /\ DOMAIN stack = 1 .. n /\ stack \in Seq(Frame) /\ f = Top /\ f = stack[n]
        /\ f.kind = "clock" /\ f.now \in Int /\ f.bucket \in Bucket
        /\ n \in Clocks(stack) /\ (\A i \in Clocks(stack) : i \in 1 .. n)
        /\ Outermost \in Clocks(stack) /\ \A i \in Clocks(stack) : Outermost <= i
        /\ last_bucket = Cur(f) /\ ClockOK(f)
        /\ Outer \in Int /\ time \in Int /\ Outer <= f.now /\ f.now <= time
  BY <1>1, TopClock
<1>3. PICK g : g = [[f EXCEPT !.moved = TRUE] EXCEPT !.bucket = BucketAfter(@)]
  OBVIOUS
<1>4. /\ g.kind = "clock" /\ g.now = f.now /\ g.over = f.over /\ g.moved = TRUE /\ g.target = f.target
      /\ g.bucket = BucketAfter(f.bucket) /\ g.old_last = f.old_last
  BY <1>2, <1>3 DEF Frame
<1>5. Len(stack') = n /\ DOMAIN stack' = 1 .. n /\ stack'[n] = g /\ \A i \in 1 .. n : i # n => stack'[i] = stack[i]
  <2>1. n \in DOMAIN stack
    BY <1>2
  <2>2. stack' = [[stack EXCEPT ![n].moved = TRUE] EXCEPT ![n].bucket = BucketAfter(@)]
    BY <1>1, <1>2
  <2>3. [stack EXCEPT ![n].moved = TRUE] = [stack EXCEPT ![n] = [f EXCEPT !.moved = TRUE]]
    BY <1>2, <2>1
  <2>4. [[stack EXCEPT ![n] = [f EXCEPT !.moved = TRUE]] EXCEPT ![n].bucket = BucketAfter(@)] = [stack EXCEPT ![n] = g]
    BY <1>2, <1>3, <2>1
  <2>5. stack' = [stack EXCEPT ![n] = g]
    BY <2>2, <2>3, <2>4
  <2> QED BY <1>2, <2>1, <2>5
<1>6. /\ \A i : i \in Clocks(stack') <=> i \in Clocks(stack)
      /\ \A i \in Clocks(stack) : i # n => stack'[i] = stack[i]
  BY <1>2, <1>4, <1>5 DEF Clocks
<1>7. Outer' = Outer /\ Outermost' = Outermost
  <2>1. Clocks(stack') = Clocks(stack)
    BY <1>6
  <2>2. Outermost' = Outermost
    BY <2>1 DEF Outermost
  <2>3. stack'[Outermost].now = stack[Outermost].now
    BY <1>2, <1>4, <1>5, <1>6
  <2> QED BY <2>2, <2>3 DEF Outer
<1>8. last_bucket' = f.target /\ f.target = EV_HASH(f.now) /\ last_bucket' = Cur(g)
  BY <1>1, <1>2, <1>4 DEF Cur, ClockOK
<1>9. Timely'
  <2> SUFFICES ASSUME NEW e \in Event, ev[e].st = "linked", ~(ev[e].time >= time)
               PROVE  \E i \in Clocks(stack') : Left(stack'[i], ev[e].time)
    BY <1>1 DEF Timely, Left
  <2>1. PICK i \in Clocks(stack) : Left(stack[i], ev[e].time)
    BY DEF ScanIInv, Timely
  <2>2. CASE i # n
    BY <1>6, <2>1, <2>2
  <2>3. CASE i = n
    <3>1. Abs(ev[e].time) >= Pos(f.now, BucketAfter(f.bucket))
      BY <1>1, <1>2, <2>1, <2>3, LeftAfter
    <3>2. Left(g, ev[e].time)
      BY <1>2, <1>4, <2>1, <2>3, <3>1 DEF Left
    <3> QED BY <1>2, <1>5, <1>6, <3>2
  <2> QED BY <2>2, <2>3
<1>10. ClocksOK'
  <2> SUFFICES ASSUME NEW i \in Clocks(stack)
               PROVE  ClockOK(stack'[i]) /\ Outer <= stack'[i].now /\ stack'[i].now <= time
    BY <1>1, <1>6, <1>7 DEF ClocksOK, ClockOK
  <2>1. CASE i # n
    BY <1>6, <2>1 DEF ScanIInv, ClocksOK
  <2>2. CASE i = n
    BY <1>2, <1>4, <1>5, <2>2 DEF ClockOK
  <2> QED BY <2>1, <2>2
<1>11. Restored'
  <2>1. ASSUME NEW i \in Clocks(stack), Innermost(stack', i) PROVE last_bucket' = Cur(stack'[i])
    <3>1. i = n
      <4>1. n <= i
        BY <1>2, <1>6, <2>1 DEF Innermost
      <4>2. i \in 1 .. n
        BY <1>2
      <4> QED BY <4>1, <4>2
    <3> QED BY <1>5, <1>8, <3>1
  <2>2. ASSUME NEW i \in Clocks(stack), NEW j \in Clocks(stack), Next_(stack', i, j)
        PROVE  stack'[j].old_last = Cur(stack'[i])
    <3>1. Next_(stack, i, j) /\ i # n
      BY <1>2, <1>6, <2>2 DEF Next_
    <3>2. stack[j].old_last = Cur(stack[i]) /\ stack'[i] = stack[i]
      BY <1>6, <3>1 DEF ScanIInv, Restored
    <3>3. stack'[j].old_last = stack[j].old_last
      BY <1>2, <1>4, <1>5, <1>6
    <3> QED BY <3>2, <3>3
  <2> QED BY <1>6, <2>1, <2>2 DEF Restored, Cur
<1>12. Near'
  <2>1. Since(last_bucket', Outer - Upper, time)
    <3>1. Outer - Upper <= f.now
      BY <1>2, ScanTypes DEF CqIInv
    <3> QED BY <1>2, <1>8, <3>1 DEF Since
  <2>2. \A i \in Clocks(stack) : stack'[i].old_last = stack[i].old_last
    BY <1>2, <1>4, <1>5, <1>6
  <2>3. /\ time <= Outer + NestMax
        /\ \A e \in Event : ev[e].st = "linked" => ev[e].time >= Outer - Upper
        /\ \A i \in Clocks(stack) : i > Outermost => Since(stack[i].old_last, Outer - Upper, time)
    BY <1>2 DEF ScanIInv, Near
  <2>4. Clocks(stack') = Clocks(stack) /\ Clocks(stack) # {} /\ Outer' = Outer /\ ev' = ev /\ time' = time
    BY <1>1, <1>2, <1>6, <1>7
  <2>5. \A i \in Clocks(stack) : i > Outermost => Since(stack'[i].old_last, Outer - Upper, time)
    BY <2>2, <2>3
  <2> QED BY <1>7, <2>1, <2>3, <2>4, <2>5 DEF Near, Since
<1> QED BY <1>9, <1>10, <1>11, <1>12 DEF ScanIInv

\* cq_clock() ends with nothing overdue, the outer scans untouched.
LEMMA ClockEndsScan ==
    ASSUME CqIInv, CqIInv', ScanIInv, ClockEnds
    PROVE  ScanIInv'
<1>1. /\ InClock /\ Due = {} /\ ScanEnded(Top) /\ stack' = Below /\ last_bucket' = LastAfter(Top)
      /\ ev' = ev /\ UNCHANGED time
  BY DEF ClockEnds
<1>2. PICK n \in Nat \ {0}, f \in Frame :
        /\ n = Len(stack) /\ DOMAIN stack = 1 .. n /\ stack \in Seq(Frame) /\ f = Top /\ f = stack[n]
        /\ f.kind = "clock" /\ f.now \in Int /\ f.bucket \in Bucket
        /\ n \in Clocks(stack) /\ (\A i \in Clocks(stack) : i \in 1 .. n)
        /\ Outermost \in Clocks(stack) /\ \A i \in Clocks(stack) : Outermost <= i
        /\ last_bucket = Cur(f) /\ ClockOK(f)
        /\ Outer \in Int /\ time \in Int /\ Outer <= f.now /\ f.now <= time
  BY <1>1, TopClock
<1>3. Len(stack') = n - 1 /\ DOMAIN stack' = 1 .. n - 1 /\ \A i \in 1 .. n - 1 : stack'[i] = stack[i]
  <2>1. stack' = SubSeq(stack, 1, n - 1)
    BY <1>1, <1>2 DEF Below
  <2> QED BY <1>2, <2>1
<1>4. /\ \A i : i \in Clocks(stack') <=> (i \in Clocks(stack) /\ i # n)
      /\ \A i \in Clocks(stack) : i # n => i \in 1 .. n - 1 /\ stack'[i] = stack[i]
  <2>1. \A i \in 1 .. n : i # n => i \in 1 .. n - 1
    OBVIOUS
  <2>2. \A i \in 1 .. n - 1 : i \in 1 .. n /\ i # n
    OBVIOUS
  <2> QED BY <1>2, <1>3, <2>1, <2>2 DEF Clocks
<1>5. f.bucket = EV_HASH(f.now) /\ last_bucket = EV_HASH(f.now)
  BY <1>1, <1>2 DEF ScanEnded, Cur, ClockOK
<1>6. Timely'
  <2> SUFFICES ASSUME NEW e \in Event, ev[e].st = "linked", ~(ev[e].time >= time)
               PROVE  \E i \in Clocks(stack') : Left(stack'[i], ev[e].time)
    BY <1>1 DEF Timely, Left
  <2>1. PICK i \in Clocks(stack) : Left(stack[i], ev[e].time)
    BY DEF ScanIInv, Timely
  <2>2. i # n
    BY <1>1, <1>2, <1>5, <2>1, LeftAfter
  <2> QED BY <1>4, <2>1, <2>2
<1>7. ASSUME n # Outermost
      PROVE  Outer' = Outer /\ Outermost' = Outermost /\ Outermost \in Clocks(stack')
  <2>1. Outermost \in Clocks(stack') /\ stack'[Outermost] = stack[Outermost]
    BY <1>2, <1>4, <1>7
  <2>2. Clocks(stack') \subseteq Nat /\ \A i \in Clocks(stack') : Outermost <= i
    <3>1. \A i \in 1 .. n : i \in Nat
      OBVIOUS
    <3> QED BY <1>2, <1>4, <3>1
  <2>3. Outermost' = Outermost
    <3>1. Min(Clocks(stack')) = Outermost
      BY <2>1, <2>2, OutermostIs
    <3> QED BY <3>1 DEF Outermost
  <2> QED BY <2>1, <2>3 DEF Outer
<1>8. ClocksOK'
  <2> SUFFICES ASSUME NEW i \in Clocks(stack), i # n
               PROVE  /\ ClockOK(stack[i])
                      /\ Outer' <= stack[i].now /\ stack[i].now <= time
    BY <1>1, <1>4 DEF ClocksOK, ClockOK
  <2>1. n # Outermost
    <3>1. i \in 1 .. n /\ Outermost <= i
      BY <1>2
    <3> QED BY <3>1
  <2> QED BY <1>7, <2>1 DEF ScanIInv, ClocksOK
<1>9. n = Outermost => Clocks(stack') = {}
  <2> SUFFICES ASSUME n = Outermost, NEW i \in Clocks(stack') PROVE FALSE
    OBVIOUS
  <2>1. i \in 1 .. n /\ i # n /\ n <= i
    BY <1>2, <1>4
  <2> QED BY <2>1
<1>10. /\ n = Outermost => last_bucket' = EV_HASH(f.now)
       /\ n # Outermost => last_bucket' = f.old_last
  <2>1. Clocks(Below) = Clocks(stack')
    BY <1>1
  <2> QED BY <1>1, <1>2, <1>5, <1>7, <1>9, <2>1 DEF LastAfter
<1>11. Restored'
  <2>1. ASSUME NEW i \in Clocks(stack'), Innermost(stack', i) PROVE last_bucket' = Cur(stack'[i])
    <3>1. i \in Clocks(stack) /\ i # n /\ i \in 1 .. n - 1 /\ stack'[i] = stack[i]
      BY <1>4
    <3>2. Next_(stack, i, n)
      BY <1>2, <1>4, <2>1, <3>1 DEF Next_, Innermost
    <3>3. f.old_last = Cur(stack[i])
      BY <1>2, <3>1, <3>2 DEF ScanIInv, Restored
    <3>4. n # Outermost
      BY <1>9
    <3> QED BY <1>10, <3>1, <3>3, <3>4
  <2>2. ASSUME NEW i \in Clocks(stack'), NEW j \in Clocks(stack'), Next_(stack', i, j)
        PROVE  stack'[j].old_last = Cur(stack'[i])
    <3>1. /\ i \in Clocks(stack) /\ stack'[i] = stack[i]
          /\ j \in Clocks(stack) /\ stack'[j] = stack[j] /\ j \in 1 .. n - 1
      BY <1>4
    <3>2. Next_(stack, i, j)
      BY <1>2, <1>4, <2>2, <3>1 DEF Next_
    <3> QED BY <3>1, <3>2 DEF ScanIInv, Restored
  <2> QED BY <2>1, <2>2 DEF Restored, Cur
<1>12. Near'
  <2>1. /\ time <= Outer + NestMax /\ NestMax \in Nat
        /\ \A e \in Event : ev[e].st = "linked" => ev[e].time >= Outer - Upper
        /\ \A i \in Clocks(stack) : i > Outermost => Since(stack[i].old_last, Outer - Upper, time)
    BY <1>2, CqAssumption DEF ScanIInv, Near
  <2>2. CASE n = Outermost
    <3>1. Clocks(stack') = {}
      BY <1>9, <2>2
    <3>2. Outer = f.now
      BY <1>2, <2>2 DEF Outer
    <3>3. time - NestMax <= f.now
      BY <1>2, <2>1, <3>2
    <3>4. Since(last_bucket', time - NestMax, time)
      <4>1. f.now \in Int /\ f.now <= time /\ last_bucket' = EV_HASH(f.now)
        BY <1>2, <1>10, <2>2
      <4> QED BY <3>3, <4>1 DEF Since
    <3> QED BY <1>1, <3>1, <3>4 DEF Near, Since
  <2>3. CASE n # Outermost
    <3>1. Since(last_bucket', Outer - Upper, time)
      <4>1. Outermost \in 1 .. n
        BY <1>2
      <4>2. n > Outermost
        BY <2>3, <4>1
      <4> QED BY <1>2, <1>10, <2>1, <2>3, <4>2
    <3>2. \A i \in Clocks(stack') : i \in Clocks(stack) /\ stack'[i] = stack[i]
      BY <1>4
    <3>3. Outer' = Outer /\ Outermost' = Outermost /\ Clocks(stack') # {}
      BY <1>7, <2>3
    <3> QED BY <1>1, <2>1, <3>1, <3>2, <3>3 DEF Near, Since
  <2> QED BY <2>2, <2>3
<1> QED BY <1>6, <1>8, <1>11, <1>12 DEF ScanIInv

\* What a heartbeat elapses.
LEMMA AdjustedRange ==
    ASSUME NEW d \in Int
    PROVE  Adjusted(d) \in 0 .. Upper
<1>1. Upper \in Nat /\ Period \in Nat
  BY CqAssumption DEF Upper
<1>2. \A a, b \in Int : Max({a, b}) \in Int /\ Max({a, b}) >= a /\ Max({a, b}) >= b
  <2> TAKE a, b \in Int
  <2>1. \E x \in {a, b} : \A y \in {a, b} : x >= y
    OBVIOUS
  <2> QED BY <2>1 DEF Max
<1>3. \A a, b \in Int : Min({a, b}) \in {a, b} /\ Min({a, b}) <= a
  <2> TAKE a, b \in Int
  <2>1. \E x \in {a, b} : \A y \in {a, b} : x <= y
    OBVIOUS
  <2> QED BY <2>1 DEF Min
<1>4. CASE d < 0 \/ d > Upper
  <2>1. PICK m \in Nat : m = Max({d, Period})
    BY <1>1, <1>2
  <2>2. Adjusted(d) = Min({Upper, m})
    BY <1>4, <2>1 DEF Adjusted
  <2>3. Min({Upper, m}) \in {Upper, m} /\ Min({Upper, m}) <= Upper
    BY <1>1, <1>3, <2>1
  <2> QED BY <1>1, <2>1, <2>2, <2>3
<1>5. CASE ~(d < 0 \/ d > Upper)
  <2>1. Adjusted(d) = d
    BY <1>5 DEF Adjusted
  <2> QED BY <1>1, <1>5, <2>1
<1> QED BY <1>4, <1>5

\* A scan that starts from the bucket of a time x goes through all later times.
LEMMA Reach ==
    ASSUME NEW x \in Int, NEW t \in Int, NEW now \in Int, x <= t, t <= now, now - x <= Span - Res
    PROVE  Abs(t) >= Pos(now, EV_HASH(x))
<1>1. Abs(x) \in Int /\ Abs(t) \in Int /\ Abs(now) \in Int /\ EV_HASH(x) = Abs(x) % HashSize
  BY AbsType
<1>2. Abs(x) <= Abs(t) /\ Abs(x) <= Abs(now)
  BY AbsOrder
<1>3. Abs(now) <= Abs(x) + HashSize - 1
  BY AbsNear
<1>4. Pos(now, Abs(x) % HashSize) = Abs(x)
  BY <1>1, <1>2, <1>3, PosUnique
<1> QED BY <1>1, <1>2, <1>4

\* The frame of a cq_clock() that starts.
LEMMA NewClock ==
    ASSUME SpanFits, CqIInv, NEW d \in 0 .. Upper, EnterClock(d)
    PROVE  \E k \in Int, h \in Int, now \in Int, n \in Nat, f \in Frame :
              /\ h = k * Span /\ h = Shift /\ now = time + d - h /\ time' = now /\ last_bucket' = last_bucket
              /\ n = Len(stack) /\ DOMAIN stack = 1 .. n /\ stack \in Seq(Frame)
              /\ Len(stack') = n + 1 /\ DOMAIN stack' = 1 .. n + 1
              /\ stack'[n + 1] = f /\ \A i \in 1 .. n : stack'[i] = stack[i]
              /\ f.kind = "clock" /\ f.now = now /\ ~f.over /\ ~f.moved /\ f.bucket = last_bucket
              /\ f.target = EV_HASH(now) /\ f.old_last = last_bucket
              /\ \A x \in Event : /\ ev'[x].st = ev[x].st
                                  /\ ev[x].st = "linked" => ev'[x].time = ev[x].time - h
<1>1. CqTypeOK /\ time \in Int /\ d \in Int /\ stack \in Seq(Frame) /\ Upper \in Nat /\ NestMax \in Nat /\ Span \in Nat /\ Res \in Nat \ {0}
  BY ScanTypes DEF CqIInv
<1>2. PICK k \in Int : Shift = k * Span
  BY <1>1, ShiftSpans
<1>3. PICK h \in Int : h = k * Span
  BY <1>1
<1>4. PICK now \in Int : now = time + d - h
  BY <1>1
<1>5. ~EV_OVER(d)
  BY <1>1 DEF SpanFits, EV_OVER
<1>6. PICK f : f = [kind |-> "clock", now |-> now, over |-> EV_OVER(d), moved |-> FALSE,
                    bucket |-> last_bucket,
                    target |-> IF EV_OVER(d) THEN last_bucket ELSE EV_HASH(now),
                    old_call |-> call, old_ext |-> call_extended, old_last |-> last_bucket]
  OBVIOUS
<1>7. /\ time' = now /\ stack' = Append(stack, f) /\ last_bucket' = last_bucket
      /\ ev' = [x \in Event |-> IF ev[x].st = "linked" THEN [ev[x] EXCEPT !.time = @ - h] ELSE ev[x]]
  BY <1>2, <1>3, <1>4, <1>6 DEF EnterClock
<1>8. /\ f.kind = "clock" /\ f.now = now /\ ~f.over /\ ~f.moved /\ f.bucket = last_bucket
      /\ f.target = EV_HASH(now) /\ f.old_last = last_bucket
  BY <1>5, <1>6
<1>9. PICK n \in Nat : n = Len(stack) /\ DOMAIN stack = 1 .. n
  BY <1>1
<1>10. f \in Frame
  <2>1. EV_HASH(now) \in Bucket /\ last_bucket \in Bucket /\ EV_OVER(d) \in BOOLEAN
    BY <1>1, <1>4, HashProperty, ScanTypes DEF EV_OVER
  <2>2. call \in Event \cup {Null} /\ call_extended \in BOOLEAN
    BY <1>1 DEF CqTypeOK
  <2> QED BY <1>4, <1>6, <2>1, <2>2 DEF Frame, Bucket
<1>11. /\ Len(stack') = n + 1 /\ DOMAIN stack' = 1 .. n + 1
       /\ stack'[n + 1] = f /\ \A i \in 1 .. n : stack'[i] = stack[i]
  BY <1>1, <1>7, <1>9, <1>10
<1>12. \A x \in Event : /\ ev'[x].st = ev[x].st
                        /\ ev[x].st = "linked" => ev'[x].time = ev[x].time - h
  <2> TAKE x \in Event
  <2> DEFINE R == [st : {"free", "linked", "called"}, time : Int, ext : BOOLEAN, slot : Slot \cup {Null}]
  <2>1. PICK r \in R : r = ev[x]
    BY <1>1 DEF CqTypeOK
  <2>2. ev'[x] = IF r.st = "linked" THEN [r EXCEPT !.time = r.time - h] ELSE r
    BY <1>7, <2>1
  <2>3. /\ [r EXCEPT !.time = r.time - h].st = r.st
        /\ [r EXCEPT !.time = r.time - h].time = r.time - h
    OBVIOUS
  <2> QED BY <2>1, <2>2, <2>3
<1>13. h = Shift /\ now \in Int
  BY <1>2, <1>3
<1> WITNESS k \in Int, h \in Int, now \in Int, n \in Nat, f \in Frame
<1> QED BY <1>1, <1>3, <1>4, <1>7, <1>8, <1>9, <1>11, <1>12, <1>13

\* An outermost cq_clock(): the scan starts from the bucket of a time that is not a round
\* before, and no event is before that time.
LEMMA HeartbeatScan ==
    ASSUME SpanFits, CqIInv, CqIInv', ScanIInv, NEW d \in 0 .. Upper, EnterClock(d), Clocks(stack) = {}
    PROVE  ScanIInv'
<1>1. PICK k \in Int, h \in Int, now \in Int, n \in Nat, f \in Frame :
              /\ h = k * Span /\ h = Shift /\ now = time + d - h /\ time' = now /\ last_bucket' = last_bucket
              /\ n = Len(stack) /\ DOMAIN stack = 1 .. n /\ stack \in Seq(Frame)
              /\ Len(stack') = n + 1 /\ DOMAIN stack' = 1 .. n + 1
              /\ stack'[n + 1] = f /\ \A i \in 1 .. n : stack'[i] = stack[i]
              /\ f.kind = "clock" /\ f.now = now /\ ~f.over /\ ~f.moved /\ f.bucket = last_bucket
              /\ f.target = EV_HASH(now) /\ f.old_last = last_bucket
              /\ \A x \in Event : /\ ev'[x].st = ev[x].st
                                  /\ ev[x].st = "linked" => ev'[x].time = ev[x].time - h
  BY NewClock
<1>2. PICK m \in Nat : m = n + 1
  OBVIOUS
<1>3. /\ time \in Int /\ Upper \in Nat /\ NestMax \in Nat /\ Span \in Nat /\ Res \in Nat \ {0} /\ d \in Int
      /\ \A e \in Event : ev[e].time \in Int
  BY ScanTypes DEF CqIInv
<1>4. /\ stack'[m] = f /\ Clocks(stack') = {m} /\ Outermost' = m /\ Outer' = now /\ Len(stack') = m
  <2>1. stack'[m] = f /\ Len(stack') = m /\ DOMAIN stack' = 1 .. m
    BY <1>1, <1>2
  <2>2. m \in 1 .. m /\ \A i \in 1 .. m : i = m \/ i \in 1 .. n
    BY <1>2
  <2>3. \A i \in 1 .. n : stack'[i] = stack[i] /\ stack[i].kind # "clock"
    BY <1>1 DEF Clocks
  <2>4. Clocks(stack') = {m}
    BY <1>1, <2>1, <2>2, <2>3 DEF Clocks
  <2>5. {m} \subseteq Nat /\ m \in {m} /\ \A i \in {m} : m <= i
    OBVIOUS
  <2>6. Outermost' = m
    <3>1. Min({m}) = m
      BY <2>5, OutermostIs
    <3> QED BY <2>4, <3>1 DEF Outermost
  <2> QED BY <1>1, <2>1, <2>4, <2>6 DEF Outer
<1>5. PICK x \in Int : time - NestMax <= x /\ x <= time /\ last_bucket = EV_HASH(x)
  BY DEF ScanIInv, Near, Since
<1>6. PICK y \in Int : y = x - h
  OBVIOUS
<1>7. last_bucket = EV_HASH(y) /\ y <= time - h /\ now - y <= Span - Res
  <2>1. EV_HASH(x - k * Span) = EV_HASH(x)
    BY HashProperty
  <2>2. h = k * Span /\ now = time + d - h
    BY <1>1
  <2>3. d <= Upper
    BY <1>3
  <2>4. now - y <= Upper + NestMax
    BY <1>3, <1>5, <1>6, <2>2, <2>3
  <2>5. now - y <= Span - Res
    BY <1>3, <2>4 DEF SpanFits
  <2> QED BY <1>3, <1>5, <1>6, <2>1, <2>2, <2>5
<1>8. \A e \in Event : ev[e].st = "linked" => ev[e].time >= time
  BY DEF ScanIInv, Timely
<1>9. Timely'
  <2> SUFFICES ASSUME NEW e \in Event, ev'[e].st = "linked", ~(ev'[e].time >= now)
               PROVE  Left(f, ev'[e].time)
    BY <1>1, <1>4 DEF Timely, Left
  <2>1. PICK t \in Int : t = ev'[e].time /\ t = ev[e].time - h /\ ev[e].time >= time
    BY <1>1, <1>3, <1>8
  <2>2. y <= t /\ t <= now
    BY <1>1, <1>3, <1>6, <1>7, <2>1
  <2>3. Abs(t) >= Pos(now, EV_HASH(y))
    BY <1>7, <2>2, Reach
  <2> QED BY <1>1, <1>7, <2>1, <2>2, <2>3 DEF Left
<1>10. ClocksOK'
  BY <1>1, <1>4 DEF ClocksOK, ClockOK
<1>11. Restored'
  <2>1. last_bucket' = Cur(f)
    BY <1>1 DEF Cur
  <2> QED BY <1>4, <2>1 DEF Restored, Next_, Cur
<1>12. Near'
  <2>1. ASSUME NEW e \in Event, ev'[e].st = "linked" PROVE ev'[e].time >= now - Upper
    BY <1>1, <1>3, <1>8, <2>1
  <2> QED BY <1>1, <1>3, <1>4, <2>1 DEF Near
<1> QED BY <1>9, <1>10, <1>11, <1>12 DEF ScanIInv

\* cq_main_dispatch() from a callback: so does the scan of a nested cq_clock(),
\* which the callback of another one waits for.
LEMMA DispatchScan ==
    ASSUME SpanFits, CqIInv, CqIInv', ScanIInv, NEW d \in 0 .. Upper, EnterClock(d),
           InCall, Clocks(stack) # {}, Elapsed + d <= NestMax
    PROVE  ScanIInv'
<1>1. PICK k \in Int, h \in Int, now \in Int, n \in Nat, f \in Frame :
              /\ h = k * Span /\ h = Shift /\ now = time + d - h /\ time' = now /\ last_bucket' = last_bucket
              /\ n = Len(stack) /\ DOMAIN stack = 1 .. n /\ stack \in Seq(Frame)
              /\ Len(stack') = n + 1 /\ DOMAIN stack' = 1 .. n + 1
              /\ stack'[n + 1] = f /\ \A i \in 1 .. n : stack'[i] = stack[i]
              /\ f.kind = "clock" /\ f.now = now /\ ~f.over /\ ~f.moved /\ f.bucket = last_bucket
              /\ f.target = EV_HASH(now) /\ f.old_last = last_bucket
              /\ \A x \in Event : /\ ev'[x].st = ev[x].st
                                  /\ ev[x].st = "linked" => ev'[x].time = ev[x].time - h
  BY NewClock
<1>2. h = 0 /\ Outermost \in Clocks(stack) /\ \A i \in Clocks(stack) : Outermost <= i
  BY <1>1, FirstClock DEF Shift, CqIInv
<1>3. /\ time \in Int /\ Upper \in Nat /\ NestMax \in Nat /\ Span \in Nat /\ Res \in Nat \ {0} /\ d \in Int
      /\ \A e \in Event : ev[e].time \in Int
  BY ScanTypes DEF CqIInv
<1>4. PICK o \in Int : o = Outer /\ o <= time
  <2>1. CqTypeOK /\ ClocksOK
    BY DEF CqIInv, ScanIInv
  <2>2. Outer \in Int
    BY <1>2, <2>1, FirstClock
  <2>3. Outer <= time
    BY <1>2, <2>1 DEF ClocksOK, Outer
  <2> QED BY <2>2, <2>3
<1>5. now = time + d /\ now <= o + NestMax /\ now >= time
  <2>1. Elapsed = time - o
    BY <1>2, <1>4 DEF Elapsed, Outer
  <2> QED BY <1>1, <1>2, <1>3, <1>4, <2>1
<1>6. Len(stack) > Outermost
  BY CallAbove DEF LockFree, InClock, InCall
<1>7. PICK x \in Int : o - Upper <= x /\ x <= time /\ last_bucket = EV_HASH(x)
  BY <1>2, <1>4, <1>6 DEF ScanIInv, Near, Since
<1>8. now - x <= Span - Res
  <2>1. now - x <= Upper + NestMax
    BY <1>3, <1>5, <1>7
  <2> QED BY <1>3, <2>1 DEF SpanFits
<1>9. /\ \A i : i \in Clocks(stack') <=> (i \in Clocks(stack) \/ i = n + 1)
      /\ \A i \in Clocks(stack) : i \in 1 .. n /\ stack'[i] = stack[i] /\ i # n + 1
  <2>1. \A i \in 1 .. n + 1 : i \in 1 .. n \/ i = n + 1
    OBVIOUS
  <2>2. n + 1 \in 1 .. n + 1 /\ \A i \in 1 .. n : i \in 1 .. n + 1 /\ i # n + 1
    OBVIOUS
  <2> QED BY <1>1, <2>1, <2>2 DEF Clocks
<1>10. Outer' = o /\ Outermost' = Outermost
  <2>1. Clocks(stack') \subseteq Nat /\ Outermost \in Clocks(stack') /\ \A i \in Clocks(stack') : Outermost <= i
    <3>1. Outermost \in 1 .. n /\ Outermost \in Clocks(stack')
      BY <1>2, <1>9
    <3>2. ASSUME NEW i \in Clocks(stack') PROVE i \in Nat /\ Outermost <= i
      <4>1. CASE i = n + 1
        BY <3>1, <4>1
      <4>2. CASE i # n + 1
        <5>1. i \in Clocks(stack) /\ i \in 1 .. n
          BY <1>9, <4>2
        <5> QED BY <1>2, <5>1
      <4> QED BY <4>1, <4>2
    <3> QED BY <3>1, <3>2
  <2>2. Min(Clocks(stack')) = Outermost
    BY <2>1, OutermostIs
  <2>3. Outermost' = Outermost
    BY <2>2 DEF Outermost
  <2> QED BY <1>2, <1>4, <1>9, <2>3 DEF Outer
<1>11. \A e \in Event : ev[e].st = "linked" => ev'[e].time = ev[e].time
  BY <1>1, <1>2, <1>3
<1>12. Timely'
  <2> SUFFICES ASSUME NEW e \in Event, ev[e].st = "linked", ~(ev[e].time >= now)
               PROVE  \E i \in Clocks(stack') : Left(stack'[i], ev[e].time)
    BY <1>1, <1>11 DEF Timely, Left
  <2>1. PICK t \in Int : t = ev[e].time
    BY <1>3
  <2>2. CASE t >= time
    <3>1. x <= t /\ t <= now
      BY <1>3, <1>7, <2>1, <2>2
    <3>2. Abs(t) >= Pos(now, EV_HASH(x))
      BY <1>8, <3>1, Reach
    <3>3. Left(f, t)
      BY <1>1, <1>7, <3>1, <3>2 DEF Left
    <3> QED BY <1>1, <1>9, <2>1, <3>3
  <2>3. CASE ~(t >= time)
    <3>1. PICK i \in Clocks(stack) : Left(stack[i], ev[e].time)
      BY <2>1, <2>3 DEF ScanIInv, Timely
    <3> QED BY <1>9, <3>1
  <2> QED BY <2>2, <2>3
<1>13. ClocksOK'
  <2>1. ASSUME NEW i \in Clocks(stack)
        PROVE  ClockOK(stack'[i]) /\ o <= stack'[i].now /\ stack'[i].now <= now
    <3>1. ClockOK(stack[i]) /\ o <= stack[i].now /\ stack[i].now <= time /\ stack'[i] = stack[i]
      BY <1>4, <1>9 DEF ScanIInv, ClocksOK
    <3>2. stack[i].now \in Int
      BY ScanTypes DEF CqIInv
    <3> QED BY <1>3, <1>5, <3>1, <3>2
  <2>2. ClockOK(f) /\ o <= f.now /\ f.now <= now
    BY <1>1, <1>3, <1>4, <1>5 DEF ClockOK
  <2> QED BY <1>1, <1>9, <1>10, <2>1, <2>2 DEF ClocksOK, ClockOK
<1>14. Restored'
  <2>1. Cur(f) = last_bucket
    BY <1>1 DEF Cur
  <2>2. ASSUME NEW i \in Clocks(stack'), Innermost(stack', i) PROVE last_bucket' = Cur(stack'[i])
    <3>1. n + 1 <= i
      BY <1>9, <2>2 DEF Innermost
    <3>2. i = n + 1
      <4>1. i = n + 1 \/ i \in 1 .. n
        BY <1>9
      <4> QED BY <3>1, <4>1
    <3> QED BY <1>1, <2>1, <3>2
  <2>3. ASSUME NEW i \in Clocks(stack'), NEW j \in Clocks(stack'), Next_(stack', i, j)
        PROVE  stack'[j].old_last = Cur(stack'[i])
    <3>1. i < j /\ \A m \in Clocks(stack') : m <= i \/ m >= j
      BY <2>3 DEF Next_
    <3>2. i \in Clocks(stack) /\ stack'[i] = stack[i] /\ i \in 1 .. n
      <4>1. (i \in 1 .. n \/ i = n + 1) /\ (j \in 1 .. n \/ j = n + 1)
        BY <1>9
      <4>2. i # n + 1
        BY <3>1, <4>1
      <4> QED BY <1>9, <4>2
    <3>3. CASE j = n + 1
      <4>1. \A m \in Clocks(stack) : m <= i
        <5> TAKE m \in Clocks(stack)
        <5>1. m <= i \/ m >= n + 1
          BY <1>9, <3>1, <3>3
        <5>2. m \in 1 .. n
          BY <1>9
        <5> QED BY <5>1, <5>2
      <4>2. Innermost(stack, i)
        BY <3>2, <4>1 DEF Innermost
      <4>3. last_bucket = Cur(stack[i])
        BY <3>2, <4>2 DEF ScanIInv, Restored
      <4> QED BY <1>1, <3>2, <3>3, <4>3
    <3>4. CASE j # n + 1
      <4>1. j \in Clocks(stack) /\ stack'[j] = stack[j]
        BY <1>9, <3>4
      <4>2. Next_(stack, i, j)
        BY <1>9, <3>1, <3>2, <4>1 DEF Next_
      <4> QED BY <3>2, <4>1, <4>2 DEF ScanIInv, Restored
    <3> QED BY <3>3, <3>4
  <2> QED BY <2>2, <2>3 DEF Restored, Cur
<1>15. Near'
  <2>1. \A b : Since(b, o - Upper, time) => Since(b, o - Upper, now)
    BY <1>3, <1>5 DEF Since
  <2>2. Since(last_bucket, o - Upper, now)
    BY <1>7, <2>1 DEF Since
  <2>3. ASSUME NEW i \in Clocks(stack'), i > Outermost PROVE Since(stack'[i].old_last, o - Upper, now)
    <3>1. CASE i = n + 1
      BY <1>1, <2>2, <3>1
    <3>2. CASE i # n + 1
      <4>1. i \in Clocks(stack) /\ stack'[i] = stack[i]
        BY <1>9, <3>2
      <4>2. Since(stack[i].old_last, o - Upper, time)
        BY <1>4, <2>3, <4>1 DEF ScanIInv, Near
      <4> QED BY <2>1, <4>1, <4>2
    <3> QED BY <3>1, <3>2
  <2>4. ASSUME NEW e \in Event, ev'[e].st = "linked" PROVE ev'[e].time >= o - Upper
    BY <1>1, <1>2, <1>4, <1>11, <2>4 DEF ScanIInv, Near
  <2>5. Clocks(stack') # {}
    BY <1>9
  <2>6. time' = now /\ last_bucket' = last_bucket
    BY <1>1
  <2> QED BY <1>5, <1>10, <2>2, <2>3, <2>4, <2>5, <2>6 DEF Near, Since
<1> QED BY <1>12, <1>13, <1>14, <1>15 DEF ScanIInv

\* cq_make() gives a queue whose last bucket is that of time 0.
LEMMA ScanInitOK == CqInit => ScanIInv
<1> SUFFICES ASSUME CqInit PROVE ScanIInv
  OBVIOUS
<1>1. Clocks(stack) = {} /\ time = 0 /\ last_bucket = 0
  BY DEF CqInit, Clocks
<1>2. \A e \in Event : ev[e].st # "linked"
  BY DEF CqInit, FreeEvent
<1>3. EV_HASH(0) = 0
  <2>1. HashSize \in Nat \ {0} /\ Res \in Nat \ {0}
    BY CqAssumption
  <2>2. 0 \div Res = 0 /\ 0 % HashSize = 0
    <3>1. \A m \in Nat \ {0} : 0 \div m = 0 /\ 0 % m = 0
      <4> TAKE m \in Nat \ {0}
      <4>1. 0 \div m \in Int /\ 0 % m \in 0 .. m - 1 /\ 0 = (0 \div m) * m + (0 % m)
        BY DivMod
      <4>2. 0 * m + 0 = (0 \div m) * m + (0 % m) /\ 0 \in 0 .. m - 1
        BY <4>1
      <4> QED BY <4>1, <4>2, MultipleBelow
    <3> QED BY <2>1, <3>1
  <2> QED BY <2>2 DEF EV_HASH
<1>4. Since(last_bucket, time - NestMax, time)
  <2>1. NestMax \in Nat
    BY CqAssumption
  <2> QED BY <1>1, <1>3, <2>1 DEF Since
<1> QED BY <1>1, <1>2, <1>4 DEF ScanIInv, Timely, ClocksOK, Restored, Near

\* Each step keeps the invariant of the scan.
LEMMA ScanStepOK ==
    ASSUME SpanFits, CqIInv, CqIInv', ScanIInv, [CqNext]_cqvars
    PROVE  ScanIInv'
<1>1. CASE UNCHANGED cqvars
  <2>1. UNCHANGED <<ev, time, last_bucket, stack>>
    BY <1>1 DEF cqvars
  <2> QED BY <2>1, Quiet
<1>2. ASSUME NEW s \in Slot, cq_insert(s) \/ cq_cancel(s) \/ cq_resched(s) \/ cq_expire(s)
      PROVE  ScanIInv'
  BY <1>2, UserScan, ExpireScan
<1>3. ASSUME NEW ext \in BOOLEAN, InsertForgotten(ext) PROVE ScanIInv'
  BY <1>3, InsertScan DEF InsertForgotten
<1>4. ASSUME NEW d \in -1 .. MaxElapsed, cq_heartbeat(d) \/ cq_main_dispatch(d) PROVE ScanIInv'
  <2>1. PICK a \in 0 .. Upper : a = Adjusted(d)
    BY AdjustedRange
  <2>2. CASE cq_heartbeat(d)
    <3>1. EnterClock(a) /\ Clocks(stack) = {}
      BY <2>1, <2>2 DEF cq_heartbeat, Clocks
    <3> QED BY <3>1, HeartbeatScan
  <2>3. CASE cq_main_dispatch(d)
    <3>1. EnterClock(a) /\ InCall /\ Elapsed + a <= NestMax
      BY <2>1, <2>3 DEF cq_main_dispatch
    <3> QED BY <3>1, DispatchScan, HeartbeatScan
  <2> QED BY <1>4, <2>2, <2>3
<1>5. CASE cq_zero \/ cq_event \/ CallReturns
  BY <1>5, CallScan
<1>6. CASE ClockStep
  BY <1>6, ClockCallsScan, ClockMovesScan, ClockEndsScan DEF ClockStep
<1> QED BY <1>1, <1>2, <1>3, <1>4, <1>5, <1>6 DEF CqNext

\* The invariant of the scan holds of every behaviour of the callout queue.
THEOREM CqScan ==
    ASSUME SpanFits PROVE CqSpec => []ScanIInv
<1>1. CqInit => ScanIInv
  BY ScanInitOK
<1>2. CqIInv /\ CqIInv' /\ ScanIInv /\ [CqNext]_cqvars => ScanIInv'
  BY ScanStepOK
<1> QED BY <1>1, <1>2, CqInvariance, PTL DEF CqSpec

\* Once cq_clock() is over, no event whose time has passed is left in the
\* queue, whatever its callbacks inserted, rescheduled or dispatched: what
\* the outermost scan and those nested in it skipped, another one reached.
THEOREM CqNoneOverdue ==
    ASSUME SpanFits PROVE CqSpec => []NoneOverdue
<1>1. ScanIInv => NoneOverdue
  <2> SUFFICES ASSUME ScanIInv, stack = <<>>, NEW e \in Linked PROVE ev[e].time >= time
    BY DEF NoneOverdue
  <2>1. Clocks(stack) = {}
    BY DEF Clocks
  <2> QED BY <2>1 DEF ScanIInv, Timely, Linked
<1> QED BY <1>1, CqScan, PTL

\* An event that an outermost cq_clock() calls out.
LEMMA CalledFirst ==
    ASSUME CqIInv, ScanIInv, ClockCalls, Len(stack) = 1, NEW e \in Event,
           ev[e].st = "linked", ev'[e].st = "called", NEW x \in Linked
    PROVE  ev[x].time >= ev[e].time
<1>1. PICK c \in Due : CallOut(c, "clock")
  BY DEF ClockCalls
<1>2. InClock
  BY DEF ClockCalls
<1>3. /\ EV_HASH(ev[c].time) = Top.bucket /\ ev[c].time <= Top.now /\ c \in Event
      /\ \A y \in Linked : EV_HASH(ev[y].time) = Top.bucket => ev[y].time >= ev[c].time
  BY <1>2, DueEvent
<1>4. e = c
  <2>1. ev' = [ev EXCEPT ![c].st = "called", ![c].time = 0] /\ DOMAIN ev = Event
    BY <1>1 DEF CallOut, CqIInv, CqTypeOK
  <2>2. e # c => ev'[e] = ev[e]
    BY <2>1
  <2> QED BY <2>2
<1>5. PICK n \in Nat \ {0}, f \in Frame :
        /\ n = Len(stack) /\ f = Top /\ f = stack[n] /\ f.now \in Int /\ f.bucket \in Bucket
        /\ (\A i \in Clocks(stack) : i \in 1 .. n) /\ time \in Int /\ f.now <= time
  BY <1>2, TopClock
<1>6. PICK t \in Int, u \in Int : t = ev[e].time /\ u = ev[x].time
  BY ScanTypes DEF CqIInv, Linked
<1> SUFFICES ASSUME u < t PROVE FALSE
  BY <1>6
<1>7. t <= f.now /\ u < time /\ u <= f.now
  BY <1>3, <1>4, <1>5, <1>6
<1>8. Left(f, u)
  <2>1. x \in Event /\ ev[x].st = "linked" /\ ~(ev[x].time >= time)
    BY <1>5, <1>6, <1>7 DEF Linked
  <2>2. PICK i \in Clocks(stack) : Left(stack[i], u)
    BY <1>6, <2>1 DEF ScanIInv, Timely
  <2>3. i = n
    BY <1>5, <2>2
  <2> QED BY <1>5, <2>2, <2>3
<1>9. /\ Abs(u) <= Abs(t) /\ Abs(u) \in Int /\ Abs(t) \in Int /\ Pos(f.now, f.bucket) \in Int
      /\ Abs(u) >= Pos(f.now, f.bucket)
  BY <1>5, <1>8, AbsOrder, AbsType, PosProperty DEF Left
<1>10. Abs(t) = Pos(f.now, f.bucket)
  BY <1>3, <1>4, <1>5, <1>6, <1>7, <1>9, LeftHere
<1>11. EV_HASH(u) = f.bucket
  BY <1>5, <1>7, <1>9, <1>10, LeftHere
<1>12. u >= t
  BY <1>3, <1>4, <1>5, <1>6, <1>11
<1> QED BY <1>12

\* An outermost cq_clock() calls events out in the order of their trigger
\* time, although it goes by buckets, whatever its callbacks insert.
THEOREM CqEarliestFirst ==
    ASSUME SpanFits PROVE CqSpec => EarliestFirst
<1> DEFINE Ordered == \A e \in Event :
                         /\ Len(stack) = 1 /\ InClock
                         /\ ev[e].st = "linked" /\ ev'[e].st = "called"
                         => \A x \in Linked : ev[x].time >= ev[e].time
<1>1. CqIInv /\ ScanIInv /\ [CqNext]_cqvars => [Ordered]_cqvars
  <2> SUFFICES ASSUME CqIInv, ScanIInv, CqNext, InClock, Len(stack) = 1,
                      NEW e \in Event, ev[e].st = "linked", ev'[e].st = "called", NEW x \in Linked
               PROVE  ev[x].time >= ev[e].time
    OBVIOUS
  <2>1. ~InCall /\ ~LockFree /\ stack # <<>>
    BY DEF InClock, InCall, LockFree
  <2>2. ClockStep
    BY <2>1 DEF CqNext, cq_insert, cq_cancel, cq_resched, cq_expire, InsertForgotten,
                cq_heartbeat, cq_main_dispatch, cq_zero, cq_event, CallReturns
  <2>3. ClockCalls
    BY <2>2 DEF ClockStep, ClockMoves, ClockEnds
  <2> QED BY <2>3, CalledFirst
<1> QED BY <1>1, CqInvariance, CqScan, PTL DEF CqSpec, EarliestFirst

----------------------------------------------------------------------------
(* How long the thread of the queue may sleep.  A time is so many buckets  *)
(* after that of the current time, less than a round.                      *)

Offset(t) == (Abs(t) - Abs(time)) % HashSize

\* What the i-th bucket that cq_delay() looks at tells.
DelayStep(i, delay) ==
    LET b == bucket[(last_bucket + i - 1) % HashSize]
    IN  IF FarEnough(i - 1, delay) \/ b = <<>> THEN delay
        ELSE Min({delay, Max({0, ev[Head(b)].time - time})})

\* The delay known after i buckets.
KnownDelay(i, delay) ==
    /\ delay \in 0 .. Forever
    /\ delay = Forever \/ \E e \in Linked : delay = ev[e].time - time /\ Offset(ev[e].time) < i
    /\ \A e \in Linked : Offset(ev[e].time) < i => delay <= ev[e].time - time

\* The bucket of a time, counted from that of the current time.
LEMMA OffsetHash ==
    ASSUME NEW t \in Int, time \in Int, last_bucket = EV_HASH(time), NEW j \in 0 .. HashSize - 1
    PROVE  /\ Offset(t) \in 0 .. HashSize - 1
           /\ EV_HASH(t) = (last_bucket + j) % HashSize <=> Offset(t) = j
<1>1. HashSize \in Nat \ {0}
  BY CqAssumption
<1>2. PICK a \in Int, c \in Int : a = Abs(t) /\ c = Abs(time) /\ EV_HASH(t) = a % HashSize /\ last_bucket = c % HashSize
  BY AbsType
<1>3. PICK x \in Int : x = a - c
  OBVIOUS
<1>4. PICK q \in Int, o \in 0 .. HashSize - 1 : x = q * HashSize + o /\ o = x % HashSize
  BY <1>1, DivMod
<1>5. Offset(t) = o
  BY <1>2, <1>3, <1>4 DEF Offset
<1>6. PICK p \in Int, l \in 0 .. HashSize - 1 : c = p * HashSize + l /\ l = last_bucket
  BY <1>1, <1>2, DivMod
<1>7. q * HashSize \in Int /\ p * HashSize \in Int
  BY <1>1
<1>8. EV_HASH(t) = (l + o) % HashSize
  <2>1. PICK y \in Int, k \in Int : y = l + o /\ k = -(p + q)
    BY <1>1
  <2>2. (y - k * HashSize) % HashSize = y % HashSize
    BY <1>1, DivShift
  <2>3. k * HashSize = -(p * HashSize + q * HashSize)
    BY <1>1, <2>1
  <2>4. a = y - k * HashSize
    <3>1. PICK u \in Int, v \in Int, w \in Int : u = q * HashSize /\ v = p * HashSize /\ w = k * HashSize
      BY <1>1, <1>7
    <3>2. x = u + o /\ c = v + l /\ w = -(v + u)
      BY <1>4, <1>6, <2>3, <3>1
    <3>3. a = y - w
      BY <1>1, <1>3, <2>1, <3>2
    <3> QED BY <3>1, <3>3
  <2> QED BY <1>2, <2>1, <2>2, <2>4
<1>9. ASSUME (l + o) % HashSize = (l + j) % HashSize PROVE o = j
  <2>1. PICK y \in Int, z \in Int : y = l + o /\ z = l + j
    BY <1>1
  <2>2. PICK m \in Int, n \in Int, r \in 0 .. HashSize - 1 : y = m * HashSize + r /\ z = n * HashSize + r
    <3>1. y % HashSize \in 0 .. HashSize - 1 /\ y \div HashSize \in Int /\ z \div HashSize \in Int
      BY <1>1, DivMod
    <3>2. y = (y \div HashSize) * HashSize + (y % HashSize) /\ z = (z \div HashSize) * HashSize + (z % HashSize)
      BY <1>1, DivMod
    <3>3. y % HashSize = z % HashSize
      BY <1>9, <2>1
    <3> QED BY <3>1, <3>2, <3>3
  <2>3. m * HashSize \in Int /\ n * HashSize \in Int
    BY <1>1
  <2>4. n * HashSize + o = m * HashSize + j
    BY <1>1, <2>1, <2>2, <2>3
  <2> QED BY <1>1, <2>4, MultipleBelow
<1> QED BY <1>5, <1>6, <1>8, <1>9

\* A time to come is as many buckets away, or some rounds more.
LEMMA OffsetAway ==
    ASSUME NEW t \in Int, time \in Int, time <= t
    PROVE  /\ Abs(t) \in Int /\ Abs(time) \in Int /\ Offset(t) \in Int
           /\ Offset(t) <= Abs(t) - Abs(time)
           /\ t - time <= Span - Res => Offset(t) = Abs(t) - Abs(time)
<1>1. HashSize \in Nat \ {0}
  BY CqAssumption
<1>2. PICK a \in Int, c \in Int : a = Abs(t) /\ c = Abs(time)
  BY AbsType
<1>3. PICK x \in Int : x = a - c /\ x >= 0
  BY <1>2, AbsOrder
<1>4. PICK q \in Int, o \in 0 .. HashSize - 1 : x = q * HashSize + o /\ o = x % HashSize
  BY <1>1, DivMod
<1>5. Offset(t) = o
  BY <1>2, <1>3, <1>4 DEF Offset
<1>6. q >= 0
  <2>1. 0 * HashSize + 0 <= q * HashSize + o /\ 0 \in 0 .. HashSize - 1
    BY <1>1, <1>3, <1>4
  <2> QED BY <1>1, <2>1, QuotientOrder
<1>7. q * HashSize \in Nat
  BY <1>1, <1>6
<1>8. o <= x
  BY <1>4, <1>7
<1>9. ASSUME t - time <= Span - Res PROVE o = x
  <2>1. a <= c + HashSize - 1
    BY <1>2, <1>9, AbsNear
  <2>2. x \in 0 .. HashSize - 1
    BY <1>1, <1>3, <2>1
  <2> QED BY <1>1, <1>4, <2>2
<1> QED BY <1>2, <1>3, <1>5, <1>8, <1>9

\* The search stops for a delay that is not a whole round.
LEMMA FarEnoughDelay ==
    ASSUME NEW delay \in Nat, NEW j \in 0 .. HashSize - 1, FarEnough(j, delay)
    PROVE  delay <= Span - Res
<1>1. HashSize \in Nat \ {0, 1} /\ Res \in Nat \ {0} /\ Span \in Nat
  BY CqAssumption DEF Span
<1>2. delay < Span /\ j > EV_HASH(delay)
  BY <1>1 DEF FarEnough, EV_OVER
<1>3. PICK q \in Int, r \in 0 .. Res - 1 : q = Abs(delay) /\ delay = q * Res + r /\ EV_HASH(delay) = q % HashSize
  BY AbsType
<1>4. PICK k \in Nat : k = HashSize - 1
  BY <1>1
<1>5. k * Res = Span - Res /\ k * Res \in Nat /\ q * Res \in Int
  BY <1>1, <1>4 DEF Span
<1>6. q <= k
  <2>1. q * Res + r <= k * Res + (Res - 1) /\ Res - 1 \in 0 .. Res - 1
    BY <1>1, <1>2, <1>3, <1>5
  <2> QED BY <1>1, <2>1, QuotientOrder
<1>7. q >= 0
  <2>1. 0 * Res + 0 <= q * Res + r /\ 0 \in 0 .. Res - 1
    BY <1>1, <1>3
  <2> QED BY <1>1, <2>1, QuotientOrder
<1>8. q % HashSize = q
  <2>1. q \in 0 .. HashSize - 1
    BY <1>1, <1>4, <1>6, <1>7
  <2> QED BY <1>1, <2>1
<1>9. q + 1 <= k
  BY <1>2, <1>3, <1>4, <1>8
<1>10. PICK m \in Nat : k = q + 1 + m
  <2>1. k - q - 1 \in Nat /\ k = q + 1 + (k - q - 1)
    BY <1>9
  <2> QED BY <2>1
<1>11. k * Res = q * Res + Res + m * Res /\ m * Res \in Nat
  BY <1>1, <1>10
<1> QED BY <1>1, <1>3, <1>5, <1>11

\* What cq_delay() knows when one more bucket was looked at, or skipped.
LEMMA DelayStepOK ==
    ASSUME CqIInv, \A e \in Linked : ev[e].time >= time, last_bucket = EV_HASH(time),
           NEW i \in 1 .. HashSize, NEW delay, KnownDelay(i - 1, delay)
    PROVE  KnownDelay(i, DelayStep(i, delay))
<1>1. /\ HashSize \in Nat \ {0} /\ Forever \in Nat /\ i - 1 \in 0 .. HashSize - 1 /\ i \in Int
      /\ time \in Int /\ last_bucket \in Bucket
  BY CqAssumption, ScanTypes DEF Forever, CqIInv
<1>2. PICK j \in 0 .. HashSize - 1 : j = i - 1
  BY <1>1
<1>3. PICK b \in Bucket : b = (last_bucket + j) % HashSize
  <2>1. last_bucket + j \in Int
    BY <1>1 DEF Bucket
  <2> QED BY <1>1, <2>1, DivMod DEF Bucket
<1>4. ASSUME NEW e \in Linked
      PROVE  /\ ev[e].time \in Int /\ ev[e].time >= time /\ e \in Event
             /\ Offset(ev[e].time) \in 0 .. HashSize - 1
             /\ EV_HASH(ev[e].time) = b <=> Offset(ev[e].time) = j
  <2>1. e \in Event /\ ev[e].time \in Int
    BY <1>4, ScanTypes DEF Linked, CqIInv
  <2> QED BY <1>1, <1>3, <2>1, OffsetHash
<1>5. \A e \in Linked : Offset(ev[e].time) < i <=> Offset(ev[e].time) < i - 1 \/ Offset(ev[e].time) = j
  <2> TAKE e \in Linked
  <2>1. Offset(ev[e].time) \in 0 .. HashSize - 1
    BY <1>4
  <2> QED BY <1>1, <1>2, <2>1
<1>6. PICK s \in Seq(Event) : s = bucket[b] /\ Sorted(ev, s) /\ Range(s) = HashedTo(ev, b)
  BY DEF CqIInv, CqTypeOK, BucketsOK, Bucket
<1>7. DelayStep(i, delay) = IF FarEnough(j, delay) \/ s = <<>> THEN delay
                            ELSE Min({delay, Max({0, ev[Head(s)].time - time})})
  <2>1. (last_bucket + i - 1) % HashSize = b
    <3>1. last_bucket + i - 1 = last_bucket + j
      BY <1>1, <1>2 DEF Bucket
    <3> QED BY <1>3, <3>1
  <2> QED BY <1>2, <1>6, <2>1 DEF DelayStep
<1>8. /\ delay \in 0 .. Forever
      /\ delay = Forever \/ \E e \in Linked : delay = ev[e].time - time /\ Offset(ev[e].time) < i - 1
      /\ \A e \in Linked : Offset(ev[e].time) < i - 1 => delay <= ev[e].time - time
  BY DEF KnownDelay
<1>9. delay = Forever \/ \E e \in Linked : delay = ev[e].time - time /\ Offset(ev[e].time) < i
  BY <1>5, <1>8
<1>10. CASE FarEnough(j, delay)
  <2>1. delay \in Nat /\ delay <= Span - Res
    BY <1>1, <1>8, <1>10, FarEnoughDelay
  <2>2. delay # Forever
    <3>1. PICK p \in Nat : p = Span
      BY ScanTypes DEF CqIInv
    <3>2. delay < p /\ Forever = 10 * p
      BY <1>10, <2>1, <3>1 DEF FarEnough, EV_OVER, Forever
    <3> QED BY <2>1, <3>1, <3>2
  <2>3. PICK e \in Linked : delay = ev[e].time - time /\ Offset(ev[e].time) < i - 1
    BY <1>8, <2>2
  <2>4. PICK t \in Int : t = ev[e].time /\ t >= time /\ t - time <= Span - Res
    BY <1>4, <2>1, <2>3
  <2>5. Offset(t) = Abs(t) - Abs(time) /\ Abs(t) \in Int /\ Abs(time) \in Int
    BY <1>1, <2>4, OffsetAway
  <2>6. ASSUME NEW x \in Linked, Offset(ev[x].time) = j PROVE delay <= ev[x].time - time
    <3>1. PICK u \in Int : u = ev[x].time /\ u >= time
      BY <1>4
    <3>2. Offset(u) <= Abs(u) - Abs(time) /\ Abs(u) \in Int
      BY <1>1, <3>1, OffsetAway
    <3>3. Abs(t) < Abs(u)
      BY <1>2, <2>3, <2>4, <2>5, <2>6, <3>1, <3>2
    <3>4. ~(u <= t)
      BY <2>5, <3>2, <3>3, AbsOrder
    <3> QED BY <1>1, <2>3, <2>4, <3>1, <3>4
  <2>7. \A x \in Linked : Offset(ev[x].time) < i => delay <= ev[x].time - time
    BY <1>5, <1>8, <2>6
  <2> QED BY <1>7, <1>8, <1>9, <1>10, <2>7 DEF KnownDelay
<1>11. CASE s = <<>>
  <2>1. \A x \in Linked : EV_HASH(ev[x].time) # b
    <3> TAKE x \in Linked
    <3>1. EV_HASH(ev[x].time) = b => x \in Range(s)
      BY <1>4, <1>6 DEF HashedTo, Linked
    <3>2. Range(s) = {}
      BY <1>11 DEF Range
    <3> QED BY <3>1, <3>2
  <2>2. \A x \in Linked : Offset(ev[x].time) < i => delay <= ev[x].time - time
    BY <1>4, <1>5, <1>8, <2>1
  <2> QED BY <1>7, <1>8, <1>9, <1>11, <2>2 DEF KnownDelay
<1>12. CASE ~FarEnough(j, delay) /\ s # <<>>
  <2>1. PICK h \in Event : h = Head(s) /\ h = s[1] /\ 1 \in 1 .. Len(s)
    BY <1>12
  <2>2. h \in HashedTo(ev, b)
    BY <1>6, <2>1 DEF Range
  <2>3. h \in Linked /\ EV_HASH(ev[h].time) = b
    BY <2>2 DEF HashedTo, Linked
  <2>4. PICK d \in Nat : d = ev[h].time - time /\ Offset(ev[h].time) = j /\ Offset(ev[h].time) < i
    BY <1>1, <1>2, <1>4, <2>3
  <2>5. ASSUME NEW x \in Linked, Offset(ev[x].time) = j PROVE d <= ev[x].time - time
    <3>1. x \in HashedTo(ev, b)
      BY <1>4, <2>5 DEF HashedTo, Linked
    <3>2. PICK k \in 1 .. Len(s) : s[k] = x
      BY <1>6, <3>1 DEF Range
    <3>3. k = 1 \/ ev[s[1]].time <= ev[s[k]].time
      BY <1>6, <2>1, <3>2 DEF Sorted
    <3>4. ev[h].time \in Int /\ ev[x].time \in Int
      BY <1>4, <2>3
    <3> QED BY <1>1, <2>1, <2>4, <3>2, <3>3, <3>4, SMTT(60)
  <2>6. Max({0, d}) = d
    <3>1. \E x \in {0, d} : \A y \in {0, d} : x >= y
      OBVIOUS
    <3> QED BY <3>1 DEF Max
  <2>7. PICK m \in Nat : m = Min({delay, d}) /\ m \in {delay, d} /\ m <= delay /\ m <= d
    <3>1. delay \in Nat
      BY <1>1, <1>8
    <3>2. \E x \in {delay, d} : \A y \in {delay, d} : x <= y
      BY <3>1
    <3> QED BY <3>1, <3>2 DEF Min
  <2>8. DelayStep(i, delay) = m
    BY <1>7, <1>12, <2>1, <2>4, <2>6, <2>7
  <2>9. m \in 0 .. Forever
    BY <1>1, <1>8, <2>7
  <2>10. m = Forever \/ \E e \in Linked : m = ev[e].time - time /\ Offset(ev[e].time) < i
    BY <1>9, <2>3, <2>4, <2>7
  <2>11. ASSUME NEW x \in Linked, Offset(ev[x].time) < i PROVE m <= ev[x].time - time
    <3>1. PICK z \in Int : z = ev[x].time - time
      BY <1>1, <1>4
    <3>2. delay <= z \/ d <= z
      BY <1>5, <1>8, <2>5, <2>11, <3>1
    <3>3. delay \in Int
      BY <1>1, <1>8
    <3> QED BY <2>7, <3>1, <3>2, <3>3
  <2> QED BY <2>8, <2>9, <2>10, <2>11 DEF KnownDelay
<1> QED BY <1>10, <1>11, <1>12

\* cq_delay() finds the event that comes first, although it stops at the
\* first bucket it can: a thread that sleeps so long misses no event.
THEOREM CqDelayExact ==
    ASSUME SpanFits PROVE CqSpec => []DelayExact
<1>1. ASSUME CqIInv, ScanIInv PROVE DelayExact
  <2> SUFFICES ASSUME stack = <<>>, last_bucket = EV_HASH(time)
               PROVE  cq_delay = Min({Forever} \cup {Max({0, ev[e].time - time}) : e \in Linked})
    BY DEF DelayExact
  <2>1. HashSize \in Nat \ {0} /\ Forever \in Nat /\ time \in Int /\ \A e \in Event : ev[e].time \in Int
    BY <1>1, CqAssumption, ScanTypes DEF Forever, CqIInv
  <2>2. \A e \in Linked : ev[e].time >= time
    <3>1. Clocks(stack) = {}
      BY DEF Clocks
    <3> QED BY <1>1, <3>1 DEF ScanIInv, Timely, Linked
  <2> DEFINE S == [i \in 0 .. HashSize |-> {d \in 0 .. Forever : KnownDelay(i, d)}]
             F == [i \in 1 .. HashSize |-> [d \in S[i - 1] |-> DelayStep(i, d)]]
  <2>3. \A i \in 0 .. HashSize : \A d : d \in S[i] <=> KnownDelay(i, d)
    BY DEF KnownDelay
  <2>4. \A i \in 1 .. HashSize : i - 1 \in 0 .. HashSize /\ i \in 0 .. HashSize
    BY <2>1
  <2>5. Forever \in S[0]
    <3>1. \A e \in Linked : ~(Offset(ev[e].time) < 0)
      <4> TAKE e \in Linked
      <4>1. ev[e].time \in Int /\ ev[e].time >= time
        BY <2>1, <2>2 DEF Linked
      <4>2. 0 \in 0 .. HashSize - 1
        BY <2>1
      <4>3. Offset(ev[e].time) \in 0 .. HashSize - 1
        BY <2>1, <4>1, <4>2, OffsetHash
      <4> QED BY <4>3
    <3>2. KnownDelay(0, Forever)
      BY <2>1, <3>1 DEF KnownDelay
    <3> QED BY <2>1, <2>3, <3>2
  <2>6. \A i \in 1 .. HashSize : \A d \in S[i - 1] : F[i][d] \in S[i] /\ F[i][d] = DelayStep(i, d) /\ DelayStep(i, d) \in S[i]
    <3> TAKE i \in 1 .. HashSize
    <3> TAKE d \in S[i - 1]
    <3>1. F[i][d] = DelayStep(i, d)
      OBVIOUS
    <3>2. KnownDelay(i - 1, d)
      BY <2>3, <2>4
    <3>3. KnownDelay(i, DelayStep(i, d))
      BY <1>1, <2>2, <3>2, DelayStepOK
    <3> QED BY <2>3, <2>4, <3>1, <3>3
  <2> HIDE DEF S, F
  <2>7. \E r : r = [i \in 0 .. HashSize |-> IF i = 0 THEN Forever ELSE DelayStep(i, r[i - 1])]
    <3>1. LoopRoundsKeep(HashSize, S, F)
      BY <2>6 DEF LoopRoundsKeep
    <3>2. PICK r : LoopRounds(HashSize, S, Forever, F, r)
      BY <2>1, <2>5, <3>1, LoopExists
    <3>3. /\ r = [i \in 0 .. HashSize |-> IF i = 0 THEN Forever ELSE F[i][r[i - 1]]]
          /\ \A i \in 0 .. HashSize : r[i] \in S[i]
      BY <3>2 DEF LoopRounds
    <3>4. \A i \in 0 .. HashSize : i # 0 => i \in 1 .. HashSize /\ i - 1 \in 0 .. HashSize
      BY <2>1
    <3>5. \A i \in 0 .. HashSize : i # 0 => F[i][r[i - 1]] = DelayStep(i, r[i - 1])
      BY <2>6, <3>3, <3>4
    <3>6. r = [i \in 0 .. HashSize |-> IF i = 0 THEN Forever ELSE DelayStep(i, r[i - 1])]
      BY <3>3, <3>5
    <3> QED BY <3>6
  <2>8. PICK r : /\ r = [i \in 0 .. HashSize |-> IF i = 0 THEN Forever ELSE DelayStep(i, r[i - 1])]
                 /\ cq_delay = r[HashSize]
    BY <2>7, Zenon DEF cq_delay, DelayStep
  <2>9. cq_delay \in S[HashSize]
    <3>1. r[0] = Forever /\ \A i \in 1 .. HashSize : r[i] = DelayStep(i, r[i - 1])
      BY <2>1, <2>8
    <3>2. \A i \in 1 .. HashSize : r[i - 1] \in S[i - 1] => r[i] \in S[i]
      BY <2>6, <3>1
    <3>3. \A i \in 0 .. HashSize : r[i] \in S[i]
      BY <2>1, <2>5, <3>1, <3>2, LoopInduction
    <3> QED BY <2>1, <2>8, <3>3
  <2>10. KnownDelay(HashSize, cq_delay)
    BY <2>1, <2>3, <2>9
  <2>11. \A e \in Linked : /\ Max({0, ev[e].time - time}) = ev[e].time - time /\ ev[e].time - time \in Nat
                           /\ Offset(ev[e].time) < HashSize
    <3> TAKE e \in Linked
    <3>1. PICK t \in Int : t = ev[e].time /\ t >= time
      BY <2>1, <2>2 DEF Linked
    <3>2. PICK d \in Nat : d = t - time
      BY <2>1, <3>1
    <3>3. Max({0, d}) = d
      <4>1. \E x \in {0, d} : \A y \in {0, d} : x >= y
        OBVIOUS
      <4> QED BY <4>1 DEF Max
    <3>4. 0 \in 0 .. HashSize - 1
      BY <2>1
    <3>5. Offset(t) \in 0 .. HashSize - 1
      BY <2>1, <3>4, OffsetHash
    <3> QED BY <2>1, <3>1, <3>2, <3>3, <3>5
  <2> DEFINE M == {Forever} \cup {Max({0, ev[e].time - time}) : e \in Linked}
  <2>12. cq_delay \in M /\ M \subseteq Nat
    BY <2>1, <2>10, <2>11 DEF KnownDelay
  <2>13. \A m \in M : cq_delay <= m
    <3>1. cq_delay \in 0 .. Forever /\ \A e \in Linked : cq_delay <= Max({0, ev[e].time - time})
      BY <2>10, <2>11 DEF KnownDelay
    <3>2. cq_delay <= Forever
      BY <2>1, <3>1
    <3> QED BY <3>1, <3>2
  <2> HIDE DEF M
  <2>14. Min(M) \in M /\ \A m \in M : Min(M) <= m
    BY <2>12, MinProperty
  <2>15. cq_delay = Min(M)
    <3>1. PICK d \in Nat, m \in Nat : d = cq_delay /\ m = Min(M)
      BY <2>12, <2>14
    <3>2. d <= m /\ m <= d
      BY <2>12, <2>13, <2>14, <3>1
    <3> QED BY <3>1, <3>2
  <2> QED BY <2>15 DEF M
<1> QED BY <1>1, CqInvariance, CqScan, PTL

=============================================================================
