-------------------------- MODULE CollectionLemmas --------------------------
(***************************************************************************)
(* Facts on sets, sequences and sums that the proofs of several components *)
(* use.  What is recursive is unfolded here by the least-number principle, *)
(* on a set of counterexamples.                                            *)
(***************************************************************************)
EXTENDS Integers, Sequences, SequencesExt, FiniteSets, FiniteSetsExt, Functions, Folds,
        FiniteSetTheorems, SequenceTheorems, WellFoundedInduction, TLAPS

\* A set of naturals that is not empty has a minimum, which Min() yields.
LEMMA MinProperty ==
    ASSUME NEW S, S \subseteq Nat, S # {}
    PROVE  Min(S) \in S /\ \A x \in S : Min(S) <= x
<1> DEFINE R == {ss \in Nat \X Nat : ss[1] < ss[2]}
<1>1. IsWellFoundedOn(R, Nat)
  BY NatLessThanWellFounded, Zenon DEF OpToRel
<1>2. \E x \in S : \A y \in S : ~(<<y, x>> \in R)
  <2> HIDE DEF R
  <2> QED BY <1>1, WFMin
<1>3. \A x, y \in Nat : <<x, y>> \in R <=> x < y
  OBVIOUS
<1>4. PICK x \in S : \A y \in S : ~(<<y, x>> \in R)
  BY <1>2
<1>5. \A y \in S : x <= y
  <2> TAKE y \in S
  <2>1. x \in Nat /\ y \in Nat
    OBVIOUS
  <2>2. ~(y < x)
    <3> HIDE DEF R
    <3> QED BY <1>3, <1>4, <2>1, Zenon
  <2> QED BY <2>1, <2>2
<1> QED BY <1>5 DEF Min

\* A set of naturals that is bounded and not empty has a maximum.
LEMMA MaxProperty ==
    ASSUME NEW S, NEW n \in Nat, S \subseteq 0 .. n, S # {}
    PROVE  Max(S) \in S /\ \A x \in S : x <= Max(S)
<1> DEFINE T == {n - x : x \in S}
<1>1. T \subseteq Nat /\ T # {}
  <2>1. \A x \in S : n - x \in Nat
    OBVIOUS
  <2> QED BY <2>1
<1>2. Min(T) \in T /\ \A y \in T : Min(T) <= y
  <2> HIDE DEF T
  <2> QED BY <1>1, MinProperty
<1>3. PICK x \in S : Min(T) = n - x
  BY <1>2
<1>4. \A y \in S : n - x <= n - y
  BY <1>2, <1>3
<1>5. \A y \in S : x >= y
  BY <1>4
<1>6. Max(S) \in S /\ \A y \in S : Max(S) >= y
  BY <1>5 DEF Max
<1> QED BY <1>6

\* Induction on the naturals for a set: a set of naturals that holds 0 and the
\* successor of each of its members is all of them.
LEMMA SetInduction ==
    ASSUME NEW S, S \subseteq Nat, 0 \in S, \A n \in S : n + 1 \in S
    PROVE  S = Nat
<1> DEFINE T == Nat \ S
<1>1. SUFFICES ASSUME T # {} PROVE FALSE
  OBVIOUS
<1>2. Min(T) \in T /\ \A x \in T : Min(T) <= x
  <2>1. T \subseteq Nat
    OBVIOUS
  <2> HIDE DEF T
  <2> QED BY <1>1, <2>1, MinProperty
<1>3. Min(T) - 1 \in Nat /\ Min(T) - 1 \notin T
  BY <1>2
<1>4. (Min(T) - 1) + 1 \in S
  BY <1>3
<1> QED BY <1>2, <1>4

----------------------------------------------------------------------------
(* The elements of a sequence, and sequences that repeat none.             *)

\* Appending an element that is not in the sequence.
LEMMA AppendRange ==
    ASSUME NEW A, NEW s \in Seq(A), NEW x \in A
    PROVE  /\ Range(Append(s, x)) = Range(s) \cup {x}
           /\ IsInjective(s) /\ x \notin Range(s) => IsInjective(Append(s, x))
<1> DEFINE z == Append(s, x)
<1>1. /\ DOMAIN s = 1 .. Len(s) /\ Len(s) \in Nat /\ DOMAIN z = 1 .. Len(s) + 1
      /\ \A i \in 1 .. Len(s) : z[i] = s[i]
      /\ z[Len(s) + 1] = x
  OBVIOUS
<1> HIDE DEF z
<1>2. Range(z) = Range(s) \cup {x}
  <2>1. ASSUME NEW y \in Range(z) PROVE y \in Range(s) \cup {x}
    <3>1. PICK i \in DOMAIN z : y = z[i]
      BY DEF Range
    <3> QED BY <1>1, <3>1 DEF Range
  <2>2. ASSUME NEW y \in Range(s) \cup {x} PROVE y \in Range(z)
    <3>1. CASE y = x
      BY <1>1, <3>1 DEF Range
    <3>2. CASE y \in Range(s)
      <4>1. PICK i \in DOMAIN s : y = s[i]
        BY <3>2 DEF Range
      <4> QED BY <1>1, <4>1 DEF Range
    <3> QED BY <3>1, <3>2
  <2> QED BY <2>1, <2>2
<1>3. IsInjective(s) /\ x \notin Range(s) => IsInjective(z)
  BY <1>1 DEF IsInjective, Range
<1> QED BY <1>2, <1>3 DEF z

\* Removing the first element of a sequence.
LEMMA TailRange ==
    ASSUME NEW A, NEW s \in Seq(A), s # <<>>
    PROVE  /\ Head(s) \in Range(s) /\ Tail(s) \in Seq(A)
           /\ Range(Tail(s)) \subseteq Range(s) /\ Range(s) = Range(Tail(s)) \cup {Head(s)}
           /\ IsInjective(s) => IsInjective(Tail(s)) /\ Head(s) \notin Range(Tail(s))
<1> DEFINE z == Tail(s)
<1>1. /\ DOMAIN s = 1 .. Len(s) /\ Len(s) \in Nat \ {0} /\ DOMAIN z = 1 .. Len(s) - 1
      /\ \A i \in 1 .. Len(s) - 1 : z[i] = s[i + 1]
      /\ Head(s) = s[1] /\ z \in Seq(A)
  OBVIOUS
<1> HIDE DEF z
<1>2. Range(z) \subseteq Range(s)
  BY <1>1 DEF Range
<1>3. Head(s) \in Range(s)
  BY <1>1 DEF Range
<1>4. ASSUME NEW y \in Range(s), y # Head(s) PROVE y \in Range(z)
  <2>1. PICK i \in DOMAIN s : y = s[i]
    BY DEF Range
  <2>2. i # 1 /\ i - 1 \in 1 .. Len(s) - 1 /\ z[i - 1] = y
    BY <1>1, <1>4, <2>1
  <2> QED BY <1>1, <2>2 DEF Range
<1>5. ASSUME IsInjective(s) PROVE IsInjective(z) /\ Head(s) \notin Range(z)
  <2>1. \A i, j \in 1 .. Len(s) : s[i] = s[j] => i = j
    BY <1>1, <1>5 DEF IsInjective
  <2>2. ASSUME NEW i \in DOMAIN z, NEW j \in DOMAIN z, z[i] = z[j] PROVE i = j
    <3>1. i \in Nat /\ j \in Nat /\ i + 1 \in 1 .. Len(s) /\ j + 1 \in 1 .. Len(s)
      BY <1>1
    <3>2. s[i + 1] = s[j + 1]
      BY <1>1, <2>2
    <3> QED BY <2>1, <3>1, <3>2
  <2>3. ASSUME NEW i \in DOMAIN z PROVE z[i] # Head(s)
    <3>1. i \in Nat /\ i + 1 \in 1 .. Len(s) /\ 1 \in 1 .. Len(s) /\ i + 1 # 1
      BY <1>1
    <3>2. z[i] = s[i + 1] /\ Head(s) = s[1]
      BY <1>1
    <3> QED BY <2>1, <3>1, <3>2
  <2> QED BY <2>2, <2>3 DEF IsInjective, Range
<1> QED BY <1>1, <1>2, <1>3, <1>4, <1>5 DEF z

\* The members of a sequence are finitely many, and in its set.
LEMMA RangeFinite ==
    ASSUME NEW A, NEW s \in Seq(A)
    PROVE  IsFiniteSet(Range(s)) /\ Range(s) \subseteq A
<1>1. /\ DOMAIN s = 1 .. Len(s) /\ Len(s) \in Nat /\ s \in [DOMAIN s -> A]
  OBVIOUS
<1>2. s \in Surjection(DOMAIN s, Range(s))
  BY <1>1 DEF Surjection, Range
<1>3. IsFiniteSet(DOMAIN s)
  <2>1. 1 \in Int /\ Len(s) \in Int
    BY <1>1
  <2>2. IsFiniteSet(1 .. Len(s))
    BY <2>1, FS_Interval
  <2> QED BY <1>1, <2>2
<1>4. IsFiniteSet(Range(s))
  BY <1>2, <1>3, FS_Surjection
<1> QED BY <1>1, <1>4 DEF Range

\* One sequence after another.
LEMMA ConcatRange ==
    ASSUME NEW A, NEW s \in Seq(A), NEW t \in Seq(A)
    PROVE  /\ s \o t \in Seq(A) /\ Range(s \o t) = Range(s) \cup Range(t)
           /\ IsInjective(s) /\ IsInjective(t) /\ Range(s) \cap Range(t) = {} => IsInjective(s \o t)
<1> DEFINE z == s \o t
<1>1. /\ DOMAIN s = 1 .. Len(s) /\ Len(s) \in Nat /\ DOMAIN t = 1 .. Len(t) /\ Len(t) \in Nat
      /\ DOMAIN z = 1 .. Len(s) + Len(t) /\ z \in Seq(A)
      /\ \A i \in 1 .. Len(s) : z[i] = s[i]
      /\ \A i \in 1 .. Len(s) + Len(t) : i > Len(s) => i - Len(s) \in 1 .. Len(t) /\ z[i] = t[i - Len(s)]
      /\ \A i \in 1 .. Len(t) : i + Len(s) \in 1 .. Len(s) + Len(t) /\ z[i + Len(s)] = t[i]
  OBVIOUS
<1> HIDE DEF z
<1>2. ASSUME NEW y \in Range(z) PROVE y \in Range(s) \cup Range(t)
  <2>1. PICK i \in DOMAIN z : y = z[i]
    BY DEF Range
  <2>2. CASE i <= Len(s)
    <3>1. i \in DOMAIN s /\ y = s[i]
      BY <1>1, <2>1, <2>2
    <3> QED BY <3>1 DEF Range
  <2>3. CASE i > Len(s)
    <3>1. i - Len(s) \in DOMAIN t /\ y = t[i - Len(s)]
      BY <1>1, <2>1, <2>3
    <3> QED BY <3>1 DEF Range
  <2> QED BY <1>1, <2>2, <2>3
<1>3. ASSUME NEW y \in Range(s) PROVE y \in Range(z)
  <2>1. PICK i \in DOMAIN s : y = s[i]
    BY DEF Range
  <2>2. i \in DOMAIN z /\ z[i] = y
    BY <1>1, <2>1
  <2> QED BY <2>2 DEF Range
<1>4. ASSUME NEW y \in Range(t) PROVE y \in Range(z)
  <2>1. PICK i \in DOMAIN t : y = t[i]
    BY DEF Range
  <2>2. i + Len(s) \in DOMAIN z /\ z[i + Len(s)] = y
    BY <1>1, <2>1
  <2> QED BY <2>2 DEF Range
<1>5. ASSUME IsInjective(s), IsInjective(t), Range(s) \cap Range(t) = {} PROVE IsInjective(z)
  <2>1. ASSUME NEW i \in DOMAIN z, NEW j \in DOMAIN z, z[i] = z[j], i <= Len(s), j > Len(s) PROVE FALSE
    <3>1. /\ i \in DOMAIN s /\ z[i] = s[i]
          /\ j - Len(s) \in DOMAIN t /\ z[j] = t[j - Len(s)]
      BY <1>1, <2>1
    <3> QED BY <1>5, <2>1, <3>1 DEF Range
  <2>2. ASSUME NEW i \in DOMAIN z, NEW j \in DOMAIN z, z[i] = z[j], i <= Len(s), j <= Len(s) PROVE i = j
    <3>1. i \in DOMAIN s /\ z[i] = s[i] /\ j \in DOMAIN s /\ z[j] = s[j]
      BY <1>1, <2>2
    <3> QED BY <1>5, <2>2, <3>1 DEF IsInjective
  <2>3. ASSUME NEW i \in DOMAIN z, NEW j \in DOMAIN z, z[i] = z[j], i > Len(s), j > Len(s) PROVE i = j
    <3>1. /\ i - Len(s) \in DOMAIN t /\ z[i] = t[i - Len(s)]
          /\ j - Len(s) \in DOMAIN t /\ z[j] = t[j - Len(s)]
      BY <1>1, <2>3
    <3>2. i - Len(s) = j - Len(s)
      BY <1>5, <2>3, <3>1 DEF IsInjective
    <3> QED BY <1>1, <3>2
  <2>4. \A i \in DOMAIN z : i \in Int
    BY <1>1
  <2>5. ASSUME NEW i \in DOMAIN z, NEW j \in DOMAIN z, z[i] = z[j] PROVE i = j
    <3>1. i <= Len(s) \/ i > Len(s)
      BY <1>1, <2>4
    <3>2. j <= Len(s) \/ j > Len(s)
      BY <1>1, <2>4
    <3> QED BY <2>1, <2>2, <2>3, <2>5, <3>1, <3>2
  <2> QED BY <2>5 DEF IsInjective
<1> QED BY <1>1, <1>2, <1>3, <1>4, <1>5 DEF z

\* The first elements of a sequence.
LEMMA PrefixRange ==
    ASSUME NEW A, NEW s \in Seq(A), NEW n \in 0 .. Len(s)
    PROVE  LET z == SubSeq(s, 1, n)
           IN  /\ z \in Seq(A) /\ Range(z) \subseteq Range(s)
               /\ Range(z) \cup Range(SubSeq(s, n + 1, Len(s))) = Range(s)
               /\ IsInjective(s) => IsInjective(z) /\ Range(z) \cap Range(SubSeq(s, n + 1, Len(s))) = {}
               /\ z # <<>> => s # <<>> /\ Range(Tail(z)) \subseteq Range(Tail(s))
<1> DEFINE z == SubSeq(s, 1, n)
           y == SubSeq(s, n + 1, Len(s))
<1>1. /\ DOMAIN s = 1 .. Len(s) /\ Len(s) \in Nat /\ DOMAIN z = 1 .. n /\ n \in Nat /\ n <= Len(s)
      /\ z \in Seq(A) /\ Len(z) = n /\ DOMAIN y = 1 .. Len(s) - n
      /\ \A i \in 1 .. n : z[i] = s[i]
      /\ \A i \in 1 .. Len(s) - n : y[i] = s[i + n]
  OBVIOUS
<1> HIDE DEF z, y
<1>2. Range(z) \subseteq Range(s)
  BY <1>1 DEF Range
<1>3. Range(y) \subseteq Range(s)
  BY <1>1 DEF Range
<1>4. ASSUME NEW x \in Range(s) PROVE x \in Range(z) \cup Range(y)
  <2>1. PICK i \in DOMAIN s : x = s[i]
    BY DEF Range
  <2>2. CASE i <= n
    BY <1>1, <2>1, <2>2 DEF Range
  <2>3. CASE i > n
    <3>1. i - n \in DOMAIN y /\ y[i - n] = x
      BY <1>1, <2>1, <2>3
    <3> QED BY <3>1 DEF Range
  <2> QED BY <1>1, <2>2, <2>3
<1>5. IsInjective(s) => IsInjective(z)
  BY <1>1 DEF IsInjective
<1>6. IsInjective(s) => Range(z) \cap Range(y) = {}
  <2>1. ASSUME IsInjective(s), NEW i \in DOMAIN z, NEW j \in DOMAIN y, z[i] = y[j] PROVE FALSE
    <3>1. i \in DOMAIN s /\ j + n \in DOMAIN s /\ s[i] = s[j + n] /\ i # j + n
      BY <1>1, <2>1
    <3> QED BY <2>1, <3>1 DEF IsInjective
  <2> QED BY <2>1 DEF Range
<1>7. z # <<>> => s # <<>> /\ Range(Tail(z)) \subseteq Range(Tail(s))
  <2> SUFFICES ASSUME z # <<>> PROVE s # <<>> /\ Range(Tail(z)) \subseteq Range(Tail(s))
    OBVIOUS
  <2>1. n > 0 /\ s # <<>>
    BY <1>1
  <2>2. /\ DOMAIN Tail(z) = 1 .. n - 1 /\ \A i \in 1 .. n - 1 : Tail(z)[i] = s[i + 1]
    BY <1>1, <2>1
  <2>3. /\ DOMAIN Tail(s) = 1 .. Len(s) - 1 /\ \A i \in 1 .. Len(s) - 1 : Tail(s)[i] = s[i + 1]
    BY <1>1, <2>1
  <2> QED BY <1>1, <2>1, <2>2, <2>3 DEF Range
<1> QED BY <1>1, <1>2, <1>3, <1>4, <1>5, <1>6, <1>7 DEF z, y

\* What comes before and after an element of a sequence.
LEMMA SliceShape ==
    ASSUME NEW A, NEW s \in Seq(A), NEW k \in 1 .. Len(s) + 1
    PROVE  LET a == SubSeq(s, 1, k - 1)
               b == SubSeq(s, k + 1, Len(s))
               c == SubSeq(s, k, Len(s))
           IN  /\ a \in Seq(A) /\ Len(a) = k - 1 /\ \A i \in 1 .. k - 1 : a[i] = s[i]
               /\ k <= Len(s) => /\ b \in Seq(A) /\ Len(b) = Len(s) - k
                                 /\ \A i \in 1 .. Len(s) - k : b[i] = s[i + k]
               /\ c \in Seq(A) /\ Len(c) = Len(s) - k + 1
               /\ \A i \in 1 .. Len(s) - k + 1 : c[i] = s[i + k - 1]
OBVIOUS

\* Where the elements of a concatenation are.
LEMMA ConcatShape ==
    ASSUME NEW A, NEW x \in Seq(A), NEW y \in Seq(A)
    PROVE  /\ x \o y \in Seq(A) /\ Len(x \o y) = Len(x) + Len(y)
           /\ \A i \in 1 .. Len(x) + Len(y) : (x \o y)[i] = IF i <= Len(x) THEN x[i] ELSE y[i - Len(x)]
OBVIOUS

\* RemoveAt() takes out one element, and what follows moves down.
LEMMA RemoveAtProperty ==
    ASSUME NEW A, NEW s \in Seq(A), NEW k \in 1 .. Len(s)
    PROVE  LET z == RemoveAt(s, k)
           IN  /\ z \in Seq(A) /\ Len(z) = Len(s) - 1 /\ DOMAIN z = 1 .. Len(s) - 1
               /\ \A i \in 1 .. Len(s) - 1 : z[i] = IF i < k THEN s[i] ELSE s[i + 1]
<1> DEFINE z == RemoveAt(s, k)
           a == SubSeq(s, 1, k - 1)
           b == SubSeq(s, k + 1, Len(s))
<1>1. Len(s) \in Nat /\ k \in 1 .. Len(s)
  OBVIOUS
<1>2. /\ a \in Seq(A) /\ Len(a) = k - 1 /\ \A i \in 1 .. k - 1 : a[i] = s[i]
      /\ b \in Seq(A) /\ Len(b) = Len(s) - k /\ \A i \in 1 .. Len(s) - k : b[i] = s[i + k]
  BY SliceShape
<1>3. z = a \o b
  BY DEF RemoveAt
<1> HIDE DEF a, b, z
<1>4. /\ a \o b \in Seq(A) /\ Len(a \o b) = Len(a) + Len(b)
      /\ \A i \in 1 .. Len(a) + Len(b) : (a \o b)[i] = IF i <= Len(a) THEN a[i] ELSE b[i - Len(a)]
  BY <1>2, ConcatShape
<1>5. z \in Seq(A) /\ Len(z) = Len(s) - 1 /\ DOMAIN z = 1 .. Len(s) - 1
  <2>1. z \in Seq(A) /\ Len(z) = Len(a) + Len(b)
    BY <1>3, <1>4
  <2>2. Len(z) = Len(s) - 1
    BY <1>1, <1>2, <2>1
  <2>3. DOMAIN z = 1 .. Len(z)
    BY <2>1
  <2> QED BY <2>1, <2>2, <2>3
<1>6. ASSUME NEW i \in 1 .. Len(s) - 1 PROVE z[i] = IF i < k THEN s[i] ELSE s[i + 1]
  <2>1. i \in 1 .. Len(a) + Len(b) /\ (i < k <=> i <= Len(a))
    BY <1>1, <1>2
  <2>2. CASE i < k
    BY <1>1, <1>2, <1>3, <1>4, <2>1, <2>2
  <2>3. CASE ~(i < k)
    <3>1. i - Len(a) \in 1 .. Len(s) - k /\ (i - Len(a)) + k = i + 1
      BY <1>1, <1>2, <2>3
    <3> QED BY <1>2, <1>3, <1>4, <2>1, <2>3, <3>1
  <2> QED BY <2>2, <2>3
<1> QED BY <1>5, <1>6 DEF z

\* RemoveFirst() takes out one occurrence.
LEMMA RemoveShape ==
    ASSUME NEW A, NEW s \in Seq(A), NEW e \in Range(s)
    PROVE  LET z == RemoveFirst(s, e)
           IN  /\ z \in Seq(A) /\ Len(z) = Len(s) - 1 /\ DOMAIN z = 1 .. Len(s) - 1
               /\ \E k \in 1 .. Len(s) :
                     /\ s[k] = e
                     /\ \A i \in 1 .. Len(s) - 1 : z[i] = IF i < k THEN s[i] ELSE s[i + 1]
<1> DEFINE I == {i \in 1 .. Len(s) : s[i] = e}
<1>1. DOMAIN s = 1 .. Len(s) /\ Len(s) \in Nat /\ I # {} /\ I \subseteq Nat
  BY DEF Range
<1>2. PICK k \in I : k = Min(I)
  BY <1>1, MinProperty
<1>3. k \in 1 .. Len(s) /\ s[k] = e
  OBVIOUS
<1>4. RemoveFirst(s, e) = RemoveAt(s, k)
  BY <1>1, <1>2, <1>3 DEF RemoveFirst, RemoveAt, SelectInSeq
<1> DEFINE z == RemoveFirst(s, e)
           y == RemoveAt(s, k)
<1> HIDE DEF I
<1>5. /\ y \in Seq(A) /\ Len(y) = Len(s) - 1 /\ DOMAIN y = 1 .. Len(s) - 1
      /\ \A i \in 1 .. Len(s) - 1 : y[i] = IF i < k THEN s[i] ELSE s[i + 1]
  BY <1>3, RemoveAtProperty
<1>6. z = y
  BY <1>4
<1> HIDE DEF z, y
<1>7. /\ z \in Seq(A) /\ Len(z) = Len(s) - 1 /\ DOMAIN z = 1 .. Len(s) - 1
      /\ \A i \in 1 .. Len(s) - 1 : z[i] = IF i < k THEN s[i] ELSE s[i + 1]
  BY <1>5, <1>6
<1>8. \E j \in 1 .. Len(s) : s[j] = e /\ \A i \in 1 .. Len(s) - 1 : z[i] = IF i < j THEN s[i] ELSE s[i + 1]
  BY <1>3, <1>7
<1> QED BY <1>7, <1>8 DEF z

\* Where InsertAt() puts things.
LEMMA InsertAtProperty ==
    ASSUME NEW A, NEW s \in Seq(A), NEW e \in A, NEW k \in 1 .. Len(s) + 1
    PROVE  LET z == InsertAt(s, k, e)
           IN  /\ z \in Seq(A) /\ Len(z) = Len(s) + 1 /\ z[k] = e
               /\ \A i \in 1 .. k - 1 : z[i] = s[i]
               /\ \A i \in k + 1 .. Len(s) + 1 : z[i] = s[i - 1]
<1> DEFINE a == SubSeq(s, 1, k - 1)
           b == SubSeq(s, k, Len(s))
           one == <<e>>
           y == a \o one
           z == y \o b
<1>1. /\ a \in Seq(A) /\ Len(a) = k - 1 /\ \A i \in 1 .. k - 1 : a[i] = s[i]
      /\ b \in Seq(A) /\ Len(b) = Len(s) - k + 1 /\ \A i \in 1 .. Len(s) - k + 1 : b[i] = s[i + k - 1]
  BY SliceShape
<1>2. one \in Seq(A) /\ Len(one) = 1 /\ one[1] = e
  OBVIOUS
<1>3. z = InsertAt(s, k, e)
  BY DEF InsertAt, y, one
<1> HIDE DEF a, b, one
<1>11. ASSUME NEW p \in Seq(A), NEW q \in Seq(A), NEW o, o = p \o q
      PROVE  /\ o \in Seq(A) /\ Len(o) = Len(p) + Len(q)
             /\ \A i \in 1 .. Len(p) + Len(q) : o[i] = IF i <= Len(p) THEN p[i] ELSE q[i - Len(p)]
  BY <1>11, ConcatShape
<1>12. y = a \o one
  OBVIOUS
<1> HIDE DEF y
<1>4. /\ y \in Seq(A) /\ Len(y) = Len(a) + Len(one)
      /\ \A i \in 1 .. Len(a) + Len(one) : y[i] = IF i <= Len(a) THEN a[i] ELSE one[i - Len(a)]
  BY <1>1, <1>2, <1>11, <1>12, ZenonT(60)
<1>13. z = y \o b
  OBVIOUS
<1> HIDE DEF z
<1>5. /\ z \in Seq(A) /\ Len(z) = Len(y) + Len(b)
      /\ \A i \in 1 .. Len(y) + Len(b) : z[i] = IF i <= Len(y) THEN y[i] ELSE b[i - Len(y)]
  BY <1>1, <1>4, <1>11, <1>13, ZenonT(60)
<1>6. Len(s) \in Nat /\ k \in Nat /\ k >= 1 /\ k <= Len(s) + 1
  OBVIOUS
<1>7. Len(y) = k /\ Len(z) = Len(s) + 1
  BY <1>1, <1>2, <1>4, <1>5, <1>6
<1>8. z[k] = e
  <2>1. z[k] = y[k] /\ y[k] = one[k - Len(a)] /\ k - Len(a) = 1
    BY <1>1, <1>2, <1>4, <1>5, <1>6, <1>7
  <2> QED BY <1>2, <2>1
<1>9. ASSUME NEW i \in 1 .. k - 1 PROVE z[i] = s[i]
  <2>1. z[i] = y[i] /\ y[i] = a[i]
    BY <1>1, <1>2, <1>4, <1>5, <1>6, <1>7
  <2> QED BY <1>1, <2>1
<1>10. ASSUME NEW i \in k + 1 .. Len(s) + 1 PROVE z[i] = s[i - 1]
  <2>1. i - k \in 1 .. Len(s) - k + 1 /\ (i - k) + k - 1 = i - 1
    BY <1>6
  <2>2. z[i] = b[i - k]
    BY <1>1, <1>5, <1>6, <1>7
  <2>3. b[i - k] = s[(i - k) + k - 1]
    BY <1>1, <2>1
  <2> QED BY <2>1, <2>2, <2>3
<1> QED BY <1>3, <1>5, <1>7, <1>8, <1>9, <1>10

\* One element removed from a sequence that repeats none.
LEMMA RemoveRange ==
    ASSUME NEW A, NEW s \in Seq(A), NEW e \in Range(s), IsInjective(s)
    PROVE  LET z == RemoveFirst(s, e)
           IN  /\ z \in Seq(A) /\ IsInjective(z) /\ Range(z) = Range(s) \ {e}
               /\ z # <<>> => s # <<>> /\ Range(Tail(z)) \subseteq Range(Tail(s))
<1> DEFINE z == RemoveFirst(s, e)
<1>1. DOMAIN s = 1 .. Len(s) /\ Len(s) \in Nat
  OBVIOUS
<1>2. z \in Seq(A) /\ Len(z) = Len(s) - 1 /\ DOMAIN z = 1 .. Len(s) - 1
  BY RemoveShape
<1>3. PICK k \in 1 .. Len(s) :
        s[k] = e /\ \A i \in 1 .. Len(s) - 1 : z[i] = IF i < k THEN s[i] ELSE s[i + 1]
  BY RemoveShape
<1>5. /\ z \in Seq(A) /\ Len(z) = Len(s) - 1 /\ DOMAIN z = 1 .. Len(s) - 1
      /\ \A i \in 1 .. Len(s) - 1 : z[i] = IF i < k THEN s[i] ELSE s[i + 1]
  BY <1>2, <1>3
<1> HIDE DEF z
<1>6. Range(z) \subseteq Range(s) \ {e} /\ IsInjective(z)
  <2>1. Range(z) \subseteq Range(s)
    BY <1>1, <1>3, <1>5, SMTT(60) DEF Range
  <2>2. e \notin Range(z)
    <3>1. ASSUME NEW i \in DOMAIN z, z[i] = e PROVE FALSE
      <4>1. i \in 1 .. Len(s) - 1
        BY <1>5
      <4>2. CASE i < k
        BY <1>1, <1>3, <1>5, <3>1, <4>1, <4>2 DEF IsInjective
      <4>3. CASE i >= k
        BY <1>1, <1>3, <1>5, <3>1, <4>1, <4>3 DEF IsInjective
      <4> QED BY <1>3, <4>1, <4>2, <4>3
    <3> QED BY <3>1 DEF Range
  <2>3. ASSUME NEW i \in DOMAIN z, NEW j \in DOMAIN z, z[i] = z[j] PROVE i = j
    <3> DEFINE o(m) == IF m < k THEN m ELSE m + 1
    <3>1. i \in 1 .. Len(s) - 1 /\ j \in 1 .. Len(s) - 1
      BY <1>5
    <3>2. z[i] = s[o(i)] /\ z[j] = s[o(j)] /\ o(i) \in DOMAIN s /\ o(j) \in DOMAIN s
      BY <1>1, <1>3, <1>5, <3>1
    <3>3. o(i) = o(j)
      <4> HIDE DEF o
      <4> QED BY <2>3, <3>2 DEF IsInjective
    <3> QED BY <1>3, <3>1, <3>3
  <2> QED BY <2>1, <2>2, <2>3 DEF IsInjective
<1>7. ASSUME NEW x \in Range(s), x # e PROVE x \in Range(z)
  <2>1. PICK i \in DOMAIN s : x = s[i]
    BY DEF Range
  <2>2. CASE i < k
    <3>1. i \in DOMAIN z /\ z[i] = x
      BY <1>1, <1>3, <1>5, <2>1, <2>2
    <3> QED BY <3>1 DEF Range
  <2>3. CASE i > k
    <3>1. i - 1 \in DOMAIN z /\ z[i - 1] = x
      BY <1>1, <1>3, <1>5, <2>1, <2>3
    <3> QED BY <3>1 DEF Range
  <2> QED BY <1>1, <1>3, <1>7, <2>1, <2>2, <2>3
<1>8. z # <<>> => s # <<>> /\ Range(Tail(z)) \subseteq Range(Tail(s))
  <2> SUFFICES ASSUME z # <<>> PROVE s # <<>> /\ Range(Tail(z)) \subseteq Range(Tail(s))
    OBVIOUS
  <2>1. Len(s) > 1 /\ s # <<>>
    BY <1>1, <1>5
  <2>2. DOMAIN Tail(z) = 1 .. Len(s) - 2 /\ \A i \in 1 .. Len(s) - 2 : Tail(z)[i] = z[i + 1]
    <3>1. Len(z) \in Nat \ {0} /\ DOMAIN Tail(z) = 1 .. Len(z) - 1
          /\ \A i \in 1 .. Len(z) - 1 : Tail(z)[i] = z[i + 1]
      BY <1>5
    <3>2. Len(z) - 1 = Len(s) - 2
      BY <1>1, <1>5
    <3> QED BY <3>1, <3>2
  <2>3. DOMAIN Tail(s) = 1 .. Len(s) - 1 /\ \A i \in 1 .. Len(s) - 1 : Tail(s)[i] = s[i + 1]
    BY <1>1, <2>1
  <2>4. ASSUME NEW i \in DOMAIN Tail(z) PROVE \E j \in DOMAIN Tail(s) : Tail(z)[i] = Tail(s)[j]
    <3>1. /\ i \in 1 .. Len(s) - 2 /\ i + 1 \in 1 .. Len(s) - 1 /\ i \in 1 .. Len(s) - 1
          /\ Tail(z)[i] = z[i + 1]
      <4>1. i \in 1 .. Len(s) - 2 /\ Tail(z)[i] = z[i + 1]
        BY <2>2
      <4> QED BY <1>1, <2>1, <4>1
    <3>2. CASE i + 1 < k
      <4>1. Tail(z)[i] = s[i + 1] /\ Tail(s)[i] = s[i + 1] /\ i \in DOMAIN Tail(s)
        BY <1>5, <2>3, <3>1, <3>2
      <4> QED BY <4>1
    <3>3. CASE ~(i + 1 < k)
      <4>1. Tail(z)[i] = s[(i + 1) + 1] /\ Tail(s)[i + 1] = s[(i + 1) + 1] /\ i + 1 \in DOMAIN Tail(s)
        BY <1>5, <2>3, <3>1, <3>3
      <4> QED BY <4>1
    <3> QED BY <3>2, <3>3
  <2> QED BY <2>1, <2>4, SMTT(60) DEF Range
<1> QED BY <1>5, <1>6, <1>7, <1>8 DEF z

\* A finite set as a sequence.
LEMMA SetToSeqRange ==
    ASSUME NEW S, IsFiniteSet(S)
    PROVE  SetToSeq(S) \in Seq(S) /\ IsInjective(SetToSeq(S)) /\ Range(SetToSeq(S)) = S
<1> DEFINE n == Cardinality(S)
           f == SetToSeq(S)
<1>1. n \in Nat /\ ExistsBijection(1 .. n, S)
  BY FS_CardinalityType
<1>2. \E g \in [1 .. n -> S] : IsInjective(g)
  BY <1>1 DEF ExistsBijection, Bijection, Injection
<1>3. f \in [1 .. n -> S] /\ IsInjective(f)
  BY <1>2 DEF SetToSeq
<1>4. f \in Injection(1 .. n, S)
  BY <1>3 DEF Injection
<1>5. Cardinality(1 .. n) = n
  BY <1>1, FS_Interval
<1> HIDE DEF f, n
<1>6. f \in Surjection(1 .. n, S)
  BY <1>4, <1>5, FS_Injection DEF n
<1>7. f \in Seq(S)
  BY <1>1, <1>3
<1>8. Range(f) = S
  BY <1>3, <1>6 DEF Surjection, Range
<1> QED BY <1>3, <1>7, <1>8 DEF f

----------------------------------------------------------------------------
(* The sum of the values of a function on a finite set, in whatever order  *)
(* the fold takes them.                                                    *)

First(s) == CHOOSE x \in s : TRUE

\* The sums of the subsets of S that have at most n elements.
Small(S, n) == {s \in SUBSET S : Cardinality(s) <= n}
SumsUpTo(f, S, n, g) ==
    /\ g \in [Small(S, n) -> Nat]
    /\ \A s \in Small(S, n) : g[s] = IF s = {} THEN 0 ELSE f[First(s)] + g[s \ {First(s)}]

\* The recursive function that the fold chooses.
Sums(f, S, g) ==
    g = [s \in SUBSET S |-> IF s = {} THEN 0 ELSE f[First(s)] + g[s \ {First(s)}]]

\* The element that the fold takes first.
LEMMA AnyProperty ==
    ASSUME NEW S, NEW s \in SUBSET S, IsFiniteSet(S)
    PROVE  /\ IsFiniteSet(s) /\ Cardinality(s) \in Nat /\ Cardinality(s) <= Cardinality(S)
           /\ s = {} <=> Cardinality(s) = 0
           /\ s # {} => /\ First(s) \in s /\ Cardinality(s \ {First(s)}) = Cardinality(s) - 1
                        /\ s \ {First(s)} \in SUBSET S
<1>1. IsFiniteSet(s) /\ Cardinality(s) <= Cardinality(S)
  BY FS_Subset
<1>2. Cardinality(s) \in Nat /\ (s = {} <=> Cardinality(s) = 0)
  BY <1>1, FS_CardinalityType, FS_EmptySet
<1>3. s # {} => First(s) \in s
  BY DEF First
<1>4. s # {} => Cardinality(s \ {First(s)}) = Cardinality(s) - 1
  BY <1>1, <1>3, FS_RemoveElement
<1> QED BY <1>1, <1>2, <1>3, <1>4

\* A set that has no more than no element.
LEMMA NoElement ==
    ASSUME NEW s, IsFiniteSet(s), Cardinality(s) <= 0
    PROVE  s = {}
<1>1. Cardinality(s) \in Nat
  BY FS_CardinalityType
<1>2. Cardinality(s) = 0
  BY <1>1
<1> QED BY <1>2, FS_EmptySet

\* The recursion has a solution.
LEMMA SumsExist ==
    ASSUME NEW D, NEW f \in [D -> Nat], NEW S \in SUBSET D, IsFiniteSet(S)
    PROVE  \E g \in [SUBSET S -> Nat] : Sums(f, S, g)
<1> DEFINE N == {n \in Nat : \E g : SumsUpTo(f, S, n, g)}
<1>1. 0 \in N
  <2> DEFINE g == [s \in Small(S, 0) |-> 0]
  <2>1. \A s \in Small(S, 0) : s = {}
    <3> TAKE s \in Small(S, 0)
    <3>1. s \in SUBSET S /\ Cardinality(s) <= 0
      BY DEF Small
    <3> QED BY <3>1, NoElement, FS_Subset
  <2>2. SumsUpTo(f, S, 0, g)
    BY <2>1 DEF SumsUpTo
  <2> QED BY <2>2
<1>2. ASSUME NEW n \in N PROVE n + 1 \in N
  <2>1. PICK h : SumsUpTo(f, S, n, h)
    OBVIOUS
  <2> DEFINE g == [s \in Small(S, n + 1) |-> IF s = {} THEN 0 ELSE f[First(s)] + h[s \ {First(s)}]]
  <2>2. n \in Nat
    OBVIOUS
  <2>3. ASSUME NEW s \in Small(S, n + 1), s # {}
        PROVE  /\ s \ {First(s)} \in Small(S, n) /\ s \ {First(s)} \in Small(S, n + 1)
               /\ h[s \ {First(s)}] \in Nat /\ f[First(s)] \in Nat
    <3>1. s \in SUBSET S /\ Cardinality(s) <= n + 1
      BY DEF Small
    <3>2. /\ Cardinality(s) \in Nat /\ First(s) \in s /\ s \ {First(s)} \in SUBSET S
          /\ Cardinality(s \ {First(s)}) = Cardinality(s) - 1
      BY <2>3, <3>1, AnyProperty
    <3>3. s \ {First(s)} \in Small(S, n) /\ s \ {First(s)} \in Small(S, n + 1)
      BY <2>2, <3>1, <3>2 DEF Small
    <3> QED BY <2>1, <3>1, <3>2, <3>3 DEF SumsUpTo
  <2>4. g \in [Small(S, n + 1) -> Nat]
    BY <2>3
  <2>5. ASSUME NEW s \in Small(S, n) PROVE s \in Small(S, n + 1) /\ g[s] = h[s]
    <3>1. s \in Small(S, n + 1)
      <4>1. s \in SUBSET S /\ Cardinality(s) <= n
        BY DEF Small
      <4>2. Cardinality(s) \in Nat
        BY <4>1, AnyProperty
      <4> QED BY <2>2, <4>1, <4>2 DEF Small
    <3> QED BY <2>1, <3>1 DEF SumsUpTo
  <2>6. \A s \in Small(S, n + 1) : g[s] = IF s = {} THEN 0 ELSE f[First(s)] + g[s \ {First(s)}]
    BY <2>3, <2>5
  <2>7. SumsUpTo(f, S, n + 1, g)
    BY <2>4, <2>6 DEF SumsUpTo
  <2> QED BY <2>2, <2>7
<1>3. Cardinality(S) \in N
  <2>1. N = Nat
    <3>1. N \subseteq Nat
      OBVIOUS
    <3> HIDE DEF N
    <3> QED BY <1>1, <1>2, <3>1, SetInduction
  <2> QED BY <2>1, FS_CardinalityType
<1>4. PICK g : SumsUpTo(f, S, Cardinality(S), g)
  BY <1>3
<1>5. Small(S, Cardinality(S)) = SUBSET S
  BY AnyProperty DEF Small
<1>6. g \in [SUBSET S -> Nat] /\ Sums(f, S, g)
  BY <1>4, <1>5 DEF SumsUpTo, Sums
<1> QED BY <1>6

\* Two solutions agree on the subsets they have in common.
LEMMA SumsAgree ==
    ASSUME NEW f, NEW S, NEW T \in SUBSET S, NEW g, NEW h,
           IsFiniteSet(S), Sums(f, S, g), Sums(f, T, h)
    PROVE  \A s \in SUBSET T : g[s] = h[s]
<1> DEFINE N == {n \in Nat : \A s \in SUBSET T : Cardinality(s) <= n => g[s] = h[s]}
<1>1. /\ \A s \in SUBSET S : g[s] = IF s = {} THEN 0 ELSE f[First(s)] + g[s \ {First(s)}]
      /\ \A s \in SUBSET T : h[s] = IF s = {} THEN 0 ELSE f[First(s)] + h[s \ {First(s)}]
  BY DEF Sums
<1>2. \A s \in SUBSET T : s \in SUBSET S
  OBVIOUS
<1>3. IsFiniteSet(T)
  BY FS_Subset
<1>4. 0 \in N
  <2>1. ASSUME NEW s \in SUBSET T, Cardinality(s) <= 0 PROVE g[s] = h[s]
    <3>1. s = {}
      BY <1>3, <2>1, NoElement, FS_Subset
    <3> QED BY <1>1, <1>2, <3>1
  <2> QED BY <2>1
<1>5. ASSUME NEW n \in N PROVE n + 1 \in N
  <2>1. n \in Nat /\ \A s \in SUBSET T : Cardinality(s) <= n => g[s] = h[s]
    OBVIOUS
  <2>2. ASSUME NEW s \in SUBSET T, Cardinality(s) <= n + 1 PROVE g[s] = h[s]
    <3>1. CASE s = {}
      BY <1>1, <1>2, <3>1
    <3>2. CASE s # {}
      <4>1. /\ Cardinality(s) \in Nat /\ s \ {First(s)} \in SUBSET T
            /\ Cardinality(s \ {First(s)}) = Cardinality(s) - 1
        BY <1>3, <3>2, AnyProperty
      <4>2. g[s \ {First(s)}] = h[s \ {First(s)}]
        BY <2>1, <2>2, <4>1
      <4> QED BY <1>1, <1>2, <3>2, <4>2
    <3> QED BY <3>1, <3>2
  <2> QED BY <2>1, <2>2
<1>6. N = Nat
  <2>1. N \subseteq Nat
    OBVIOUS
  <2> HIDE DEF N
  <2> QED BY <1>4, <1>5, <2>1, SetInduction
<1>7. ASSUME NEW s \in SUBSET T PROVE g[s] = h[s]
  <2>1. Cardinality(s) \in N
    BY <1>3, <1>6, AnyProperty
  <2>2. Cardinality(s) \in Nat
    BY <1>3, AnyProperty
  <2> QED BY <2>1, <2>2
<1> QED BY <1>7

\* SumFunctionOnSet() by its recursion.
LEMMA SumUnfold ==
    ASSUME NEW D, NEW f \in [D -> Nat], NEW S \in SUBSET D, IsFiniteSet(S)
    PROVE  /\ SumFunctionOnSet(f, S) \in Nat
           /\ SumFunctionOnSet(f, S) =
                IF S = {} THEN 0 ELSE f[First(S)] + SumFunctionOnSet(f, S \ {First(S)})
<1> DEFINE G(T) == CHOOSE g : Sums(f, T, g)
<1>1. ASSUME NEW T PROVE SumFunctionOnSet(f, T) = G(T)[T]
  BY Zenon DEF SumFunctionOnSet, FoldFunctionOnSet, MapThenFoldSet, Sums, First
<1>2. ASSUME NEW T \in SUBSET S PROVE Sums(f, T, G(T)) /\ G(T) \in [SUBSET T -> Nat]
  <2>1. IsFiniteSet(T)
    BY FS_Subset
  <2>2. PICK h \in [SUBSET T -> Nat] : Sums(f, T, h)
    BY <2>1, SumsExist
  <2>3. Sums(f, T, G(T))
    BY <2>2
  <2> DEFINE g == G(T)
  <2>4. /\ g = [s \in SUBSET T |-> g[s]] /\ Sums(f, T, g)
    BY <2>3 DEF Sums
  <2> HIDE DEF G, g
  <2>5. ASSUME NEW s \in SUBSET T PROVE g[s] \in Nat
    <3> DEFINE N == {n \in Nat : \A t \in SUBSET T : Cardinality(t) <= n => g[t] \in Nat}
    <3>1. \A t \in SUBSET T : g[t] = IF t = {} THEN 0 ELSE f[First(t)] + g[t \ {First(t)}]
      BY <2>4 DEF Sums
    <3>2. 0 \in N
      <4>1. ASSUME NEW t \in SUBSET T, Cardinality(t) <= 0 PROVE g[t] \in Nat
        <5>1. t = {}
          BY <2>1, <4>1, NoElement, FS_Subset
        <5>2. g[{}] = 0
          BY <3>1, <5>1
        <5> QED BY <5>1, <5>2
      <4> QED BY <4>1
    <3>3. ASSUME NEW n \in N PROVE n + 1 \in N
      <4>1. n \in Nat /\ \A t \in SUBSET T : Cardinality(t) <= n => g[t] \in Nat
        OBVIOUS
      <4>2. ASSUME NEW t \in SUBSET T, Cardinality(t) <= n + 1 PROVE g[t] \in Nat
        <5>1. CASE t # {}
          <6>1. /\ Cardinality(t) \in Nat /\ t \ {First(t)} \in SUBSET T /\ First(t) \in t
                /\ Cardinality(t \ {First(t)}) = Cardinality(t) - 1
            BY <2>1, <5>1, AnyProperty
          <6>2. g[t \ {First(t)}] \in Nat /\ f[First(t)] \in Nat
            BY <4>1, <4>2, <6>1
          <6>3. g[t] = f[First(t)] + g[t \ {First(t)}]
            BY <3>1, <5>1
          <6> QED BY <6>2, <6>3
        <5>2. CASE t = {}
          <6>1. g[t] = 0
            BY <3>1, <5>2
          <6> QED BY <6>1
        <5> QED BY <5>1, <5>2
      <4> QED BY <4>1, <4>2
    <3>4. N = Nat
      <4>1. N \subseteq Nat
        OBVIOUS
      <4> HIDE DEF N
      <4> QED BY <3>2, <3>3, <4>1, SetInduction
    <3>5. Cardinality(s) \in Nat
      BY <2>1, AnyProperty
    <3>6. Cardinality(s) \in N
      BY <3>4, <3>5
    <3> QED BY <3>5, <3>6
  <2>6. g \in [SUBSET T -> Nat]
    BY <2>4, <2>5, Zenon
  <2> QED BY <2>4, <2>6 DEF g
<1> HIDE DEF G
<1>3. S \in SUBSET S /\ S \ {First(S)} \in SUBSET S
  OBVIOUS
<1>4. G(S)[S \ {First(S)}] = G(S \ {First(S)})[S \ {First(S)}]
  <2>1. ASSUME NEW T \in SUBSET S, NEW g, NEW h, Sums(f, S, g), Sums(f, T, h)
        PROVE  g[T] = h[T]
    BY <2>1, SumsAgree
  <2> QED BY <1>2, <1>3, <2>1
<1>5. G(S)[S] = IF S = {} THEN 0 ELSE f[First(S)] + G(S)[S \ {First(S)}]
  BY <1>2, <1>3 DEF Sums
<1>6. G(S)[S] \in Nat
  BY <1>2, <1>3
<1> QED BY <1>1, <1>4, <1>5, <1>6

\* Any element may be summed first.
LEMMA SumRemove ==
    ASSUME NEW D, NEW f \in [D -> Nat], NEW S \in SUBSET D, NEW x \in S, IsFiniteSet(S)
    PROVE  SumFunctionOnSet(f, S) = f[x] + SumFunctionOnSet(f, S \ {x})
<1> DEFINE Sum(T) == SumFunctionOnSet(f, T)
           N == {n \in Nat : \A T \in SUBSET S : Cardinality(T) <= n =>
                                \A y \in T : Sum(T) = f[y] + Sum(T \ {y})}
<1>1. ASSUME NEW T \in SUBSET S
      PROVE  /\ IsFiniteSet(T) /\ Sum(T) \in Nat
             /\ Sum(T) = IF T = {} THEN 0 ELSE f[First(T)] + Sum(T \ {First(T)})
             /\ T # {} => First(T) \in T
             /\ Cardinality(T) \in Nat
             /\ \A y \in T : Cardinality(T \ {y}) = Cardinality(T) - 1
  <2>1. IsFiniteSet(T)
    BY FS_Subset
  <2>2. T \in SUBSET D
    OBVIOUS
  <2>3. Cardinality(T) \in Nat /\ \A y \in T : Cardinality(T \ {y}) = Cardinality(T) - 1
    BY <2>1, FS_CardinalityType, FS_RemoveElement
  <2>4. T # {} => First(T) \in T
    BY DEF First
  <2> QED BY <2>1, <2>2, <2>3, <2>4, SumUnfold
<1> HIDE DEF Sum
<1>2. 0 \in N
  <2>1. ASSUME NEW T \in SUBSET S, Cardinality(T) <= 0 PROVE T = {}
    BY <1>1, <2>1, NoElement
  <2> QED BY <2>1
<1>3. ASSUME NEW n \in N PROVE n + 1 \in N
  <2>1. n \in Nat /\ \A T \in SUBSET S : Cardinality(T) <= n => \A y \in T : Sum(T) = f[y] + Sum(T \ {y})
    OBVIOUS
  <2>2. ASSUME NEW T \in SUBSET S, Cardinality(T) <= n + 1, NEW y \in T PROVE Sum(T) = f[y] + Sum(T \ {y})
    <3>1. PICK a \in T : a = First(T) /\ Sum(T) = f[a] + Sum(T \ {a})
      BY <1>1
    <3>2. CASE a = y
      BY <3>1, <3>2
    <3>3. CASE a # y
      <4>1. /\ T \ {a} \in SUBSET S /\ y \in T \ {a} /\ T \ {y} \in SUBSET S /\ a \in T \ {y}
            /\ (T \ {a}) \ {y} = (T \ {y}) \ {a} /\ (T \ {a}) \ {y} \in SUBSET S
        BY <3>3
      <4>2. Cardinality(T \ {a}) <= n /\ Cardinality(T \ {y}) <= n
        <5>1. /\ Cardinality(T) \in Nat /\ Cardinality(T \ {a}) = Cardinality(T) - 1
              /\ Cardinality(T \ {y}) = Cardinality(T) - 1
          BY <1>1
        <5> QED BY <2>1, <2>2, <5>1
      <4>3. Sum(T \ {a}) = f[y] + Sum((T \ {a}) \ {y}) /\ Sum(T \ {y}) = f[a] + Sum((T \ {a}) \ {y})
        BY <2>1, <4>1, <4>2
      <4>4. f[a] \in Nat /\ f[y] \in Nat /\ Sum((T \ {a}) \ {y}) \in Nat
        BY <1>1, <4>1
      <4> HIDE <1>1, <2>1
      <4> QED BY <3>1, <4>3, <4>4
    <3> QED BY <3>2, <3>3
  <2> QED BY <2>1, <2>2
<1>4. N = Nat
  <2>1. N \subseteq Nat
    OBVIOUS
  <2> HIDE DEF N
  <2> QED BY <1>2, <1>3, <2>1, SetInduction
<1>5. S \in SUBSET S /\ Cardinality(S) \in N
  BY <1>1, <1>4
<1>6. Sum(S) = f[x] + Sum(S \ {x})
  BY <1>1, <1>5
<1> QED BY <1>6 DEF Sum

\* The sums of two disjoint sets add up.
LEMMA SumUnion ==
    ASSUME NEW D, NEW f \in [D -> Nat], NEW A \in SUBSET D, NEW B \in SUBSET D,
           IsFiniteSet(A), IsFiniteSet(B), A \cap B = {}
    PROVE  SumFunctionOnSet(f, A \cup B) = SumFunctionOnSet(f, A) + SumFunctionOnSet(f, B)
<1> DEFINE Sum(T) == SumFunctionOnSet(f, T)
           N == {n \in Nat : \A T \in SUBSET B : Cardinality(T) <= n => Sum(A \cup T) = Sum(A) + Sum(T)}
<1>1. ASSUME NEW T \in SUBSET B
      PROVE  /\ Sum(T) \in Nat /\ Sum(A) \in Nat /\ Sum(A \cup T) \in Nat /\ Cardinality(T) \in Nat
             /\ \A y \in T : /\ Sum(T) = f[y] + Sum(T \ {y}) /\ Cardinality(T \ {y}) = Cardinality(T) - 1
                             /\ Sum(A \cup T) = f[y] + Sum(A \cup (T \ {y}))
             /\ T = {} => Sum(T) = 0
             /\ Cardinality(T) = 0 => T = {}
  <2>1. IsFiniteSet(T) /\ IsFiniteSet(A \cup T)
    BY FS_Subset, FS_Union
  <2>2. T \in SUBSET D /\ A \cup T \in SUBSET D
    OBVIOUS
  <2>3. Cardinality(T) \in Nat /\ (\A y \in T : Cardinality(T \ {y}) = Cardinality(T) - 1)
    BY <2>1, FS_CardinalityType, FS_RemoveElement
  <2>4. Cardinality(T) = 0 => T = {}
    BY <2>1, FS_EmptySet
  <2>5. ASSUME NEW y \in T PROVE Sum(T) = f[y] + Sum(T \ {y}) /\ Sum(A \cup T) = f[y] + Sum(A \cup (T \ {y}))
    <3>1. y \in A \cup T /\ (A \cup T) \ {y} = A \cup (T \ {y})
      OBVIOUS
    <3> QED BY <2>1, <2>2, <3>1, SumRemove
  <2> QED BY <2>1, <2>2, <2>3, <2>4, <2>5, SumUnfold
<1> HIDE DEF Sum
<1>2. 0 \in N
  <2>1. ASSUME NEW T \in SUBSET B, Cardinality(T) <= 0 PROVE Sum(A \cup T) = Sum(A) + Sum(T)
    <3>1. T = {} /\ Sum(T) = 0 /\ Sum(A) \in Nat
      BY <1>1, <2>1, NoElement, FS_Subset
    <3>2. A \cup T = A
      BY <3>1
    <3> QED BY <3>1, <3>2
  <2> QED BY <2>1
<1>3. ASSUME NEW n \in N PROVE n + 1 \in N
  <2>1. n \in Nat /\ \A T \in SUBSET B : Cardinality(T) <= n => Sum(A \cup T) = Sum(A) + Sum(T)
    OBVIOUS
  <2>2. ASSUME NEW T \in SUBSET B, Cardinality(T) <= n + 1 PROVE Sum(A \cup T) = Sum(A) + Sum(T)
    <3>1. CASE T = {}
      BY <1>1, <2>1, <3>1, FS_EmptySet
    <3>2. CASE T # {}
      <4>1. PICK y \in T : TRUE
        BY <3>2
      <4>2. T \ {y} \in SUBSET B /\ Cardinality(T \ {y}) <= n
        <5>1. Cardinality(T) \in Nat /\ Cardinality(T \ {y}) = Cardinality(T) - 1
          BY <1>1
        <5> QED BY <2>1, <2>2, <5>1
      <4>3. Sum(A \cup (T \ {y})) = Sum(A) + Sum(T \ {y})
        BY <2>1, <4>2
      <4>4. /\ Sum(A \cup T) = f[y] + Sum(A \cup (T \ {y})) /\ Sum(T) = f[y] + Sum(T \ {y})
            /\ Sum(A) \in Nat /\ Sum(T \ {y}) \in Nat /\ f[y] \in Nat
        BY <1>1, <4>2
      <4> QED BY <4>3, <4>4
    <3> QED BY <3>1, <3>2
  <2> QED BY <2>1, <2>2
<1>4. N = Nat
  <2>1. N \subseteq Nat
    OBVIOUS
  <2> HIDE DEF N
  <2> QED BY <1>2, <1>3, <2>1, SetInduction
<1>5. B \in SUBSET B /\ Cardinality(B) \in N /\ Cardinality(B) \in Nat
  BY <1>1, <1>4
<1>6. Sum(A \cup B) = Sum(A) + Sum(B)
  BY <1>5
<1> QED BY <1>6 DEF Sum

\* The sum over a part, and over what is left.
LEMMA SumPart ==
    ASSUME NEW D, NEW f \in [D -> Nat], NEW S \in SUBSET D, NEW T \in SUBSET S, IsFiniteSet(S)
    PROVE  /\ SumFunctionOnSet(f, S \ T) = SumFunctionOnSet(f, S) - SumFunctionOnSet(f, T)
           /\ SumFunctionOnSet(f, T) <= SumFunctionOnSet(f, S)
<1>1. /\ IsFiniteSet(T) /\ IsFiniteSet(S \ T) /\ T \in SUBSET D /\ S \ T \in SUBSET D
      /\ T \cap (S \ T) = {} /\ T \cup (S \ T) = S
  BY FS_Subset
<1>2. SumFunctionOnSet(f, S) = SumFunctionOnSet(f, T) + SumFunctionOnSet(f, S \ T)
  BY <1>1, SumUnion
<1>3. SumFunctionOnSet(f, T) \in Nat /\ SumFunctionOnSet(f, S \ T) \in Nat
  BY <1>1, SumUnfold
<1> QED BY <1>2, <1>3

----------------------------------------------------------------------------
(* Loops: the rounds of a loop are a recursive function on 0 .. n.  S[i] is *)
(* what holds after round i.                                                *)

\* An element more.
LEMMA AppendShape ==
    ASSUME NEW A, NEW s \in Seq(A), NEW x \in A
    PROVE  /\ Append(s, x) \in Seq(A) /\ Len(Append(s, x)) = Len(s) + 1
           /\ Append(s, x)[Len(s) + 1] = x /\ Append(s, x) # <<>>
           /\ \A i \in 1 .. Len(s) : Append(s, x)[i] = s[i]
OBVIOUS

\* What each round maintains holds at the end.
LEMMA LoopInduction ==
    ASSUME NEW n \in Nat, NEW S, NEW G, G[0] \in S[0],
           \A i \in 1 .. n : G[i - 1] \in S[i - 1] => G[i] \in S[i]
    PROVE  \A i \in 0 .. n : G[i] \in S[i]
<1> DEFINE N == {i \in Nat : i <= n => G[i] \in S[i]}
<1>1. 0 \in N
  OBVIOUS
<1>2. ASSUME NEW i \in N PROVE i + 1 \in N
  <2>1. CASE i + 1 <= n
    <3>1. i + 1 \in 1 .. n /\ (i + 1) - 1 = i /\ i <= n
      BY <2>1
    <3>2. G[i] \in S[i]
      BY <3>1
    <3> QED BY <3>1, <3>2
  <2>2. CASE ~(i + 1 <= n)
    BY <2>2
  <2> QED BY <2>1, <2>2
<1>3. N \subseteq Nat
  OBVIOUS
<1> HIDE DEF N
<1>4. N = Nat
  BY <1>1, <1>2, <1>3, SetInduction
<1> QED BY <1>4 DEF N

\* The rounds exist, given as a function of the round and of the state.
LoopRoundsKeep(n, S, f) == \A i \in 1 .. n : \A x \in S[i - 1] : f[i][x] \in S[i]
LoopRounds(n, S, start, f, r) ==
    /\ r = [i \in 0 .. n |-> IF i = 0 THEN start ELSE f[i][r[i - 1]]]
    /\ \A i \in 0 .. n : r[i] \in S[i]

\* The rounds of a loop exist, as a function of their number.
LEMMA LoopExists ==
    ASSUME NEW n \in Nat, NEW S, NEW start \in S[0], NEW f, LoopRoundsKeep(n, S, f)
    PROVE  \E r : LoopRounds(n, S, start, f, r)
<1> USE DEF LoopRoundsKeep, LoopRounds
<1> DEFINE Is(k, r) == /\ r = [i \in 0 .. k |-> IF i = 0 THEN start ELSE f[i][r[i - 1]]]
                       /\ \A i \in 0 .. k : r[i] \in S[i]
           N == {k \in Nat : k <= n => \E r : Is(k, r)}
<1>1. 0 \in N
  <2> DEFINE r == [i \in 0 .. 0 |-> start]
  <2>1. r = [i \in 0 .. 0 |-> IF i = 0 THEN start ELSE f[i][r[i - 1]]]
    OBVIOUS
  <2>2. \A i \in 0 .. 0 : r[i] \in S[i]
    OBVIOUS
  <2> HIDE DEF r
  <2> QED BY <2>1, <2>2
<1>2. ASSUME NEW k \in N PROVE k + 1 \in N
  <2>1. SUFFICES ASSUME k + 1 <= n PROVE \E r : Is(k + 1, r)
    OBVIOUS
  <2>2. PICK r : Is(k, r)
    BY <2>1
  <2> DEFINE t == [i \in 0 .. k + 1 |-> IF i = k + 1 THEN f[k + 1][r[k]] ELSE r[i]]
  <2>3. \A i \in 0 .. k : t[i] = r[i]
    OBVIOUS
  <2>4. t[k + 1] = f[k + 1][t[k]]
    BY <2>3
  <2>5. r[k] \in S[k]
    BY <2>2
  <2>6. f[k + 1][r[k]] \in S[k + 1]
    <3>1. k + 1 \in 1 .. n /\ (k + 1) - 1 = k
      BY <2>1
    <3> QED BY <2>5, <3>1
  <2>7. ASSUME NEW i \in 0 .. k + 1 PROVE t[i] \in S[i]
    <3>1. CASE i = k + 1
      BY <2>6, <3>1
    <3>2. CASE i # k + 1
      <4>1. i \in 0 .. k
        BY <3>2
      <4> QED BY <2>2, <2>3, <4>1
    <3> QED BY <3>1, <3>2
  <2>8. \A i \in 0 .. k + 1 : t[i] = IF i = 0 THEN start ELSE f[i][t[i - 1]]
    <3>1. SUFFICES ASSUME NEW i \in 0 .. k + 1 PROVE t[i] = IF i = 0 THEN start ELSE f[i][t[i - 1]]
      OBVIOUS
    <3>2. CASE i = k + 1
      <4>1. i # 0 /\ i - 1 = k
        BY <3>2
      <4> QED BY <2>4, <3>2, <4>1
    <3>3. CASE i # k + 1
      <4>1. i \in 0 .. k /\ (i # 0 => i - 1 \in 0 .. k)
        BY <3>3
      <4>2. r[i] = IF i = 0 THEN start ELSE f[i][r[i - 1]]
        BY <2>2, <4>1
      <4> QED BY <2>3, <4>1, <4>2
    <3> QED BY <3>2, <3>3
  <2>9. t = [i \in 0 .. k + 1 |-> t[i]]
    OBVIOUS
  <2> HIDE DEF t
  <2>10. t = [i \in 0 .. k + 1 |-> IF i = 0 THEN start ELSE f[i][t[i - 1]]]
    BY <2>8, <2>9
  <2> QED BY <2>7, <2>10
<1>3. N \subseteq Nat
  OBVIOUS
<1> HIDE DEF N
<1>4. N = Nat
  BY <1>1, <1>2, <1>3, SetInduction
<1> USE DEF N
<1> QED BY <1>4
=============================================================================
