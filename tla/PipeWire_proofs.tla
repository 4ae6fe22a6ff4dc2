---------------------------- MODULE PipeWire_proofs ----------------------------
(* Proofs about PipeWireService: whatever the daemon, WirePlumber and other    *)
(* programs do, and however the two threads take turns, a reading that has     *)
(* arrived is the volume of the sink last named, only changes of a sink that   *)
(* is followed are announced, and a lost connection is on its way back.        *)
(* What is in flight is a sequence of any length: the proofs speak of the last *)
(* element of a kind in it, which is what counts once all of it has arrived.   *)
EXTENDS PipeWire, SequenceTheorems, FiniteSetTheorems, WellFoundedInduction, TLAPS

-----------------------------------------------------------------------------
(* Sequences: what is left of one by a filter, and its last element of a kind. *)

\* The order of the naturals.
Below == {pair \in Nat \X Nat : pair[1] < pair[2]}

\* A set of naturals that has an element has a least one: what takes the place of
\* induction, by the least number for which a statement fails.
LEMMA Least ==
    ASSUME NEW S, S \subseteq Nat, S # {}
    PROVE  \E m \in S : \A n \in S : m <= n
<1>1. IsWellFoundedOn(Below, Nat)
  BY NatLessThanWellFounded, Zenon DEF OpToRel, Below
<1>2. \E m \in S : \A n \in S : <<n, m>> \notin Below
  BY <1>1, WFMin
<1>3. \E m \in S : \A n \in S : ~(n < m)
  BY <1>2 DEF Below
<1> QED BY <1>3

\* A set of positions of a sequence that has an element has a last one.
LEMMA Greatest ==
    ASSUME NEW n \in Nat, NEW S, S \subseteq 1..n, S # {}
    PROVE  \E m \in S : \A k \in S : k <= m
<1> DEFINE R == {n - k : k \in S}
<1>1. R \subseteq Nat /\ R # {}
  <2>1. \A k \in S : n - k \in Nat
    OBVIOUS
  <2>2. PICK k \in S : TRUE
    OBVIOUS
  <2>3. n - k \in R
    OBVIOUS
  <2> QED BY <2>1, <2>3
<1>2. PICK r \in R : \A q \in R : r <= q
  <2> HIDE DEF R
  <2> QED BY <1>1, Least
<1>3. PICK m \in S : r = n - m
  OBVIOUS
<1>4. \A k \in S : n - m <= n - k
  BY <1>2, <1>3
<1> QED BY <1>4

\* One step of a filter.
Filtered(k, x, keep) == IF x \in keep THEN Append(k, x) ELSE k

\* f is what a filter makes of the first elements of s.
Filters(f, s, keep, n) ==
    f = [m \in 0..n |-> IF m = 0 THEN <<>> ELSE Filtered(f[m - 1], s[m], keep)]

\* There is such an f, whatever the sequence.
LEMMA FiltersExist ==
    ASSUME NEW s, NEW keep, NEW n \in Nat
    PROVE  \E f : Filters(f, s, keep, n)
<1> DEFINE Bad == {m \in Nat : ~\E f : Filters(f, s, keep, m)}
<1> SUFFICES ASSUME Bad # {}
             PROVE  FALSE
  OBVIOUS
<1>1. PICK m \in Bad : \A k \in Bad : m <= k
  <2>1. Bad \subseteq Nat
    OBVIOUS
  <2> HIDE DEF Bad
  <2> QED BY <2>1, Least
<1>2. m # 0
  <2> DEFINE g == [i \in 0..0 |-> <<>>]
  <2>1. Filters(g, s, keep, 0)
    BY DEF Filters
  <2> QED BY <2>1
<1>3. m \in Nat /\ m - 1 \in Nat /\ m - 1 \notin Bad
  <2>1. m \in Nat
    OBVIOUS
  <2> HIDE DEF Bad
  <2> QED BY <1>1, <1>2, <2>1
<1>4. PICK g : Filters(g, s, keep, m - 1)
  BY <1>3
<1> DEFINE h == [i \in 0..m |-> IF i = m THEN Filtered(g[m - 1], s[m], keep) ELSE g[i]]
<1>5. ASSUME NEW i \in 0..m
      PROVE  h[i] = IF i = 0 THEN <<>> ELSE Filtered(h[i - 1], s[i], keep)
  <2>1. CASE i = 0
    BY <1>2, <1>3, <1>4, <2>1 DEF Filters
  <2>2. CASE i # 0 /\ i # m
    <3>1. i \in 0..m - 1 /\ i - 1 \in 0..m /\ i - 1 # m
      BY <1>3, <2>2
    <3>2. g[i] = Filtered(g[i - 1], s[i], keep)
      BY <1>4, <2>2, <3>1 DEF Filters
    <3>3. h[i] = g[i] /\ h[i - 1] = g[i - 1]
      BY <1>3, <2>2, <3>1
    <3> HIDE DEF h
    <3> QED BY <2>2, <3>2, <3>3
  <2>3. CASE i = m
    <3>1. m - 1 \in 0..m /\ m - 1 # m
      BY <1>2, <1>3
    <3>2. h[m] = Filtered(g[m - 1], s[m], keep) /\ h[m - 1] = g[m - 1]
      BY <1>3, <3>1
    <3> HIDE DEF h
    <3> QED BY <1>2, <2>3, <3>2
  <2> QED BY <2>1, <2>2, <2>3
<1>6. Filters(h, s, keep, m)
  BY <1>5, Zenon DEF Filters
<1> QED BY <1>1, <1>6

\* k is what keep leaves of the first n elements of s, each at its place in s.
Left(k, at, s, keep, n) ==
    /\ at \in [1..Len(k) -> 1..n]
    /\ \A i, j \in 1..Len(k) : i < j => at[i] < at[j]
    /\ \A i \in 1..Len(k) : k[i] = s[at[i]] /\ k[i] \in keep
    /\ \A j \in 1..n : s[j] \in keep => \E i \in 1..Len(k) : at[i] = j

\* One element more.
LEMMA LeftNext ==
    ASSUME NEW T, NEW s \in Seq(T), NEW keep, NEW n \in 1..Len(s),
           NEW k \in Seq(T), NEW at, Left(k, at, s, keep, n - 1)
    PROVE  /\ Filtered(k, s[n], keep) \in Seq(T)
           /\ \E bt : Left(Filtered(k, s[n], keep), bt, s, keep, n)
<1>1. s[n] \in T /\ Len(s) \in Nat /\ Len(k) \in Nat /\ n \in Nat /\ n - 1 \in Nat
  BY ElementOfSeq, LenProperties
<1>2. CASE s[n] \notin keep
  <2>1. \A j \in 1..n : s[j] \in keep => j \in 1..n - 1
    BY <1>1, <1>2
  <2>2. at \in [1..Len(k) -> 1..n]
    BY <1>1 DEF Left
  <2>3. Left(k, at, s, keep, n)
    BY <2>1, <2>2 DEF Left
  <2> QED BY <1>2, <2>3 DEF Filtered
<1>3. CASE s[n] \in keep
  <2> DEFINE l == Append(k, s[n])
             bt == [i \in 1..Len(k) + 1 |-> IF i = Len(k) + 1 THEN n ELSE at[i]]
  <2>1. /\ l \in Seq(T) /\ Len(l) = Len(k) + 1
        /\ \A i \in 1..Len(k) : l[i] = k[i]
        /\ l[Len(k) + 1] = s[n]
    BY <1>1, AppendProperties
  <2>2. /\ bt \in [1..Len(k) + 1 -> 1..n] /\ bt[Len(k) + 1] = n
        /\ \A i \in 1..Len(k) : bt[i] = at[i] /\ at[i] \in 1..n - 1
    <3>1. \A i \in 1..Len(k) : at[i] \in 1..n - 1
      BY DEF Left
    <3>2. \A i \in 1..Len(k) + 1 : i # Len(k) + 1 => i \in 1..Len(k)
      BY <1>1
    <3>3. \A i \in 1..Len(k) + 1 : (IF i = Len(k) + 1 THEN n ELSE at[i]) \in 1..n
      BY <1>1, <3>1, <3>2
    <3>4. Len(k) + 1 \in 1..Len(k) + 1
      BY <1>1
    <3>5. \A i \in 1..Len(k) : i \in 1..Len(k) + 1 /\ i # Len(k) + 1
      BY <1>1
    <3> QED BY <3>1, <3>3, <3>4, <3>5
  <2> HIDE DEF l, bt
  <2>3. \A i, j \in 1..Len(l) : i < j => bt[i] < bt[j]
    <3> SUFFICES ASSUME NEW i \in 1..Len(l), NEW j \in 1..Len(l), i < j
                 PROVE  bt[i] < bt[j]
      OBVIOUS
    <3>1. i \in 1..Len(k)
      BY <1>1, <2>1
    <3>2. CASE j = Len(k) + 1
      BY <1>1, <2>2, <3>1, <3>2
    <3>3. CASE j # Len(k) + 1
      <4>1. j \in 1..Len(k)
        BY <1>1, <2>1, <3>3
      <4> QED BY <2>2, <3>1, <4>1 DEF Left
    <3> QED BY <3>2, <3>3
  <2>4. \A i \in 1..Len(l) : l[i] = s[bt[i]] /\ l[i] \in keep
    <3> SUFFICES ASSUME NEW i \in 1..Len(l)
                 PROVE  l[i] = s[bt[i]] /\ l[i] \in keep
      OBVIOUS
    <3>1. CASE i = Len(k) + 1
      BY <1>3, <2>1, <2>2, <3>1
    <3>2. CASE i # Len(k) + 1
      <4>1. i \in 1..Len(k)
        BY <1>1, <2>1, <3>2
      <4> QED BY <2>1, <2>2, <4>1 DEF Left
    <3> QED BY <3>1, <3>2
  <2>5. ASSUME NEW j \in 1..n, s[j] \in keep
        PROVE  \E i \in 1..Len(l) : bt[i] = j
    <3>1. CASE j = n
      <4>1. Len(k) + 1 \in 1..Len(l)
        BY <1>1, <2>1
      <4> QED BY <2>2, <3>1, <4>1
    <3>2. CASE j # n
      <4>1. j \in 1..n - 1
        BY <1>1, <3>2
      <4>2. PICK i \in 1..Len(k) : at[i] = j
        BY <2>5, <4>1 DEF Left
      <4>3. i \in 1..Len(l)
        BY <1>1, <2>1
      <4> QED BY <2>2, <4>2, <4>3
    <3> QED BY <3>1, <3>2
  <2>6. Left(l, bt, s, keep, n)
    BY <2>1, <2>2, <2>3, <2>4, <2>5 DEF Left
  <2> QED BY <1>3, <2>1, <2>6 DEF Filtered, l
<1> QED BY <1>2, <1>3

\* A filter keeps what it should, in its order.
LEMMA KeptIs ==
    ASSUME NEW T, NEW s \in Seq(T), NEW keep
    PROVE  Kept(s, keep) \in Seq(T) /\ \E at : Left(Kept(s, keep), at, s, keep, Len(s))
<1>1. Len(s) \in Nat
  BY LenProperties
<1> DEFINE f == CHOOSE f : Filters(f, s, keep, Len(s))
<1>2. Filters(f, s, keep, Len(s))
  BY <1>1, FiltersExist
<1>3. Kept(s, keep) = f[Len(s)]
  BY Zenon DEF Kept, Filters, Filtered
<1> HIDE DEF f
<1> DEFINE Bad == {n \in 0..Len(s) :
                      ~(f[n] \in Seq(T) /\ \E at : Left(f[n], at, s, keep, n))}
<1>4. Bad = {}
  <2> SUFFICES ASSUME Bad # {}
               PROVE  FALSE
    OBVIOUS
  <2>1. PICK m \in Bad : \A k \in Bad : m <= k
    <3>1. Bad \subseteq Nat
      BY <1>1
    <3> HIDE DEF Bad
    <3> QED BY <3>1, Least
  <2>2. m \in 0..Len(s)
    OBVIOUS
  <2>3. CASE m = 0
    <3> DEFINE at == [i \in 1..0 |-> i]
    <3>1. f[m] = <<>>
      BY <1>1, <1>2, <2>3 DEF Filters
    <3>2. Len(<<>>) = 0 /\ <<>> \in Seq(T)
      BY EmptySeq
    <3>3. Left(<<>>, at, s, keep, 0)
      BY <3>2 DEF Left
    <3> QED BY <2>3, <3>1, <3>2, <3>3
  <2>4. CASE m # 0
    <3>1. m \in 1..Len(s) /\ m - 1 \in 0..Len(s)
      BY <1>1, <2>2, <2>4
    <3>2. m - 1 \notin Bad
      <4> HIDE DEF Bad
      <4> QED BY <1>1, <2>1, <3>1
    <3>3. f[m - 1] \in Seq(T) /\ \E at : Left(f[m - 1], at, s, keep, m - 1)
      BY <3>1, <3>2
    <3>4. f[m] = Filtered(f[m - 1], s[m], keep)
      BY <1>2, <2>4, <2>2 DEF Filters
    <3>5. f[m] \in Seq(T) /\ \E at : Left(f[m], at, s, keep, m)
      BY <3>1, <3>3, <3>4, LeftNext
    <3> QED BY <3>5
  <2> QED BY <2>3, <2>4
<1>5. Len(s) \in 0..Len(s)
  BY <1>1
<1> QED BY <1>3, <1>4, <1>5

\* What is left is in the sequence and in keep, and all of that is left.
LEMMA KeptRange ==
    ASSUME NEW T, NEW s \in Seq(T), NEW keep
    PROVE  Range(Kept(s, keep)) = Range(s) \cap keep
<1> DEFINE k == Kept(s, keep)
<1>1. PICK at : k \in Seq(T) /\ Left(k, at, s, keep, Len(s))
  BY KeptIs
<1> HIDE DEF k
<1>2. DOMAIN s = 1..Len(s) /\ DOMAIN k = 1..Len(k)
  BY <1>1, LenProperties
<1>3. ASSUME NEW i \in 1..Len(k)
      PROVE  k[i] \in Range(s) \cap keep
  <2>1. at[i] \in 1..Len(s) /\ k[i] = s[at[i]] /\ k[i] \in keep
    BY <1>1 DEF Left
  <2> QED BY <1>2, <2>1 DEF Range
<1>4. ASSUME NEW j \in 1..Len(s), s[j] \in keep
      PROVE  s[j] \in Range(k)
  <2>1. PICK i \in 1..Len(k) : at[i] = j
    BY <1>1, <1>4 DEF Left
  <2>2. k[i] = s[j]
    BY <1>1, <2>1 DEF Left
  <2> QED BY <1>2, <2>2 DEF Range
<1>5. Range(k) \subseteq Range(s) \cap keep
  BY <1>2, <1>3 DEF Range
<1>6. Range(s) \cap keep \subseteq Range(k)
  BY <1>2, <1>4 DEF Range
<1> QED BY <1>5, <1>6 DEF k

\* An element that occurs once is not repeated by a filter.
LEMMA KeptOnce ==
    ASSUME NEW T, NEW s \in Seq(T), NEW keep, NEW P,
           \A i, j \in DOMAIN s : s[i] \in P /\ s[j] \in P => i = j
    PROVE  \A i, j \in DOMAIN Kept(s, keep) :
               Kept(s, keep)[i] \in P /\ Kept(s, keep)[j] \in P => i = j
<1> DEFINE k == Kept(s, keep)
<1>1. PICK at : k \in Seq(T) /\ Left(k, at, s, keep, Len(s))
  BY KeptIs
<1> HIDE DEF k
<1>2. DOMAIN s = 1..Len(s) /\ DOMAIN k = 1..Len(k) /\ Len(s) \in Nat /\ Len(k) \in Nat
  BY <1>1, LenProperties
<1>3. ASSUME NEW i \in 1..Len(k), NEW j \in 1..Len(k), k[i] \in P, k[j] \in P, i # j
      PROVE  FALSE
  <2>1. /\ at[i] \in DOMAIN s /\ s[at[i]] \in P
        /\ at[j] \in DOMAIN s /\ s[at[j]] \in P
    BY <1>1, <1>2, <1>3 DEF Left
  <2>2. at[i] = at[j]
    BY <2>1
  <2>3. i < j \/ j < i
    BY <1>2, <1>3
  <2>4. at[i] \in Nat
    BY <1>2, <2>1
  <2> QED BY <1>1, <2>2, <2>3, <2>4 DEF Left
<1> QED BY <1>2, <1>3 DEF k

\* The last element of s that is in P, or else e.
Latest(s, P, e) ==
    IF \E i \in DOMAIN s : s[i] \in P
    THEN s[CHOOSE i \in DOMAIN s : s[i] \in P /\ \A j \in DOMAIN s : j > i => s[j] \notin P]
    ELSE e

\* It is at the position after which there is none.
LEMMA LatestAt ==
    ASSUME NEW T, NEW s \in Seq(T), NEW P, NEW e, NEW i \in DOMAIN s, s[i] \in P,
           \A j \in DOMAIN s : j > i => s[j] \notin P
    PROVE  Latest(s, P, e) = s[i]
<1>1. DOMAIN s = 1..Len(s) /\ Len(s) \in Nat
  BY LenProperties
<1> DEFINE c == CHOOSE c \in DOMAIN s : s[c] \in P /\ \A j \in DOMAIN s : j > c => s[j] \notin P
<1>2. c \in DOMAIN s /\ s[c] \in P /\ \A j \in DOMAIN s : j > c => s[j] \notin P
  OBVIOUS
<1>3. Latest(s, P, e) = s[c]
  BY DEF Latest
<1> HIDE DEF c
<1>4. c = i
  BY <1>1, <1>2
<1> QED BY <1>3, <1>4

\* There is such a position, or no element is in P.
LEMMA LatestWhere ==
    ASSUME NEW T, NEW s \in Seq(T), NEW P, NEW e
    PROVE  \/ /\ \A j \in DOMAIN s : s[j] \notin P
              /\ Latest(s, P, e) = e
           \/ \E i \in DOMAIN s : /\ s[i] \in P /\ Latest(s, P, e) = s[i]
                                  /\ \A j \in DOMAIN s : j > i => s[j] \notin P
<1>1. CASE \A j \in DOMAIN s : s[j] \notin P
  BY <1>1 DEF Latest
<1>2. CASE \E j \in DOMAIN s : s[j] \in P
  <2>1. DOMAIN s = 1..Len(s) /\ Len(s) \in Nat
    BY LenProperties
  <2> DEFINE S == {j \in DOMAIN s : s[j] \in P}
  <2>2. S \subseteq 1..Len(s) /\ S # {}
    BY <1>2, <2>1
  <2>3. PICK m \in S : \A k \in S : k <= m
    <3> HIDE DEF S
    <3> QED BY <2>1, <2>2, Greatest
  <2>4. \A j \in DOMAIN s : j > m => s[j] \notin P
    BY <2>1, <2>3
  <2> QED BY <2>3, <2>4, LatestAt
<1> QED BY <1>1, <1>2

\* It is of the sequence and of P, or else e.
LEMMA LatestIn ==
    ASSUME NEW T, NEW s \in Seq(T), NEW P, NEW e
    PROVE  Latest(s, P, e) = e \/ (Latest(s, P, e) \in P \cap T /\ Latest(s, P, e) \in Range(s))
<1>1. \A i \in DOMAIN s : s[i] \in T /\ s[i] \in Range(s)
  BY LenProperties, ElementOfSeq DEF Range
<1> QED BY <1>1, LatestWhere

\* With no element of P there is none.
LEMMA LatestNone ==
    ASSUME NEW s, NEW P, NEW e, \A x \in Range(s) : x \notin P
    PROVE  Latest(s, P, e) = e
BY DEF Latest, Range

\* One element more.
LEMMA LatestAppend ==
    ASSUME NEW T, NEW s \in Seq(T), NEW x \in T, NEW P, NEW e
    PROVE  Latest(Append(s, x), P, e) = IF x \in P THEN x ELSE Latest(s, P, e)
<1> DEFINE t == Append(s, x)
<1>1. /\ t \in Seq(T) /\ Len(t) = Len(s) + 1 /\ Len(s) \in Nat
      /\ \A i \in 1..Len(s) : t[i] = s[i]
      /\ t[Len(s) + 1] = x
  BY AppendProperties, LenProperties
<1>2. DOMAIN s = 1..Len(s) /\ DOMAIN t = 1..Len(s) + 1
  BY <1>1, LenProperties
<1> HIDE DEF t
<1>3. CASE x \in P
  <2>1. Len(s) + 1 \in DOMAIN t /\ \A j \in DOMAIN t : ~(j > Len(s) + 1)
    BY <1>1, <1>2
  <2>2. Latest(t, P, e) = t[Len(s) + 1]
    BY <1>1, <1>3, <2>1, LatestAt
  <2> QED BY <1>1, <1>3, <2>2 DEF t
<1>4. CASE x \notin P
  <2>1. \A j \in DOMAIN t : t[j] \in P => j \in DOMAIN s /\ s[j] = t[j]
    <3>1. \A j \in 1..Len(s) + 1 : j # Len(s) + 1 => j \in 1..Len(s)
      BY <1>1
    <3> QED BY <1>1, <1>2, <1>4, <3>1
  <2>2. CASE \A j \in DOMAIN s : s[j] \notin P
    BY <1>4, <2>1, <2>2 DEF Latest, t
  <2>3. ASSUME NEW i \in DOMAIN s, s[i] \in P, Latest(s, P, e) = s[i],
               \A j \in DOMAIN s : j > i => s[j] \notin P
        PROVE  Latest(t, P, e) = s[i]
    <3>1. i \in DOMAIN t /\ t[i] = s[i]
      BY <1>1, <1>2
    <3>2. \A j \in DOMAIN t : j > i => t[j] \notin P
      BY <2>1, <2>3
    <3> QED BY <1>1, <2>3, <3>1, <3>2, LatestAt
  <2>4. \/ \A j \in DOMAIN s : s[j] \notin P
        \/ \E i \in DOMAIN s : /\ s[i] \in P /\ Latest(s, P, e) = s[i]
                               /\ \A j \in DOMAIN s : j > i => s[j] \notin P
    BY LatestWhere
  <2> QED BY <1>4, <2>2, <2>3, <2>4 DEF t
<1> QED BY <1>3, <1>4

\* The first element taken.
LEMMA LatestTail ==
    ASSUME NEW T, NEW s \in Seq(T), s # <<>>, NEW P, NEW e
    PROVE  Latest(s, P, e) = Latest(Tail(s), P, IF Head(s) \in P THEN Head(s) ELSE e)
<1> DEFINE t == Tail(s)
           d == IF Head(s) \in P THEN Head(s) ELSE e
<1>1. /\ t \in Seq(T) /\ Len(t) = Len(s) - 1 /\ Len(s) \in Nat \ {0} /\ Len(t) \in Nat
      /\ \A i \in 1..Len(t) : t[i] = s[i + 1]
      /\ Head(s) = s[1]
  BY HeadTailProperties, EmptySeq, LenProperties
<1>2. DOMAIN s = 1..Len(s) /\ DOMAIN t = 1..Len(t)
  BY <1>1, LenProperties
<1> HIDE DEF t
<1>3. \A j \in DOMAIN s : j = 1 \/ (j - 1 \in DOMAIN t /\ t[j - 1] = s[j])
  BY <1>1, <1>2
<1>4. \A j \in DOMAIN t : j + 1 \in DOMAIN s /\ s[j + 1] = t[j]
  BY <1>1, <1>2
<1>5. 1 \in DOMAIN s
  BY <1>1, <1>2
<1>6. ASSUME NEW i \in DOMAIN t, t[i] \in P, Latest(t, P, d) = t[i],
             \A j \in DOMAIN t : j > i => t[j] \notin P
      PROVE  Latest(s, P, e) = t[i]
  <2>1. i + 1 \in DOMAIN s /\ s[i + 1] = t[i] /\ i \in Nat /\ i > 0
    BY <1>2, <1>4
  <2>2. ASSUME NEW j \in DOMAIN s, j > i + 1
        PROVE  s[j] \notin P
    <3>1. j # 1 /\ j - 1 > i
      BY <1>2, <2>1, <2>2
    <3> QED BY <1>3, <1>6, <3>1
  <2>3. s[i + 1] \in P
    BY <1>6, <2>1
  <2> HIDE DEF d
  <2>4. Latest(s, P, e) = s[i + 1]
    BY <2>1, <2>2, <2>3, LatestAt
  <2> QED BY <2>1, <2>4
<1>7. ASSUME \A j \in DOMAIN t : t[j] \notin P, Latest(t, P, d) = d
      PROVE  Latest(s, P, e) = d
  <2>1. CASE Head(s) \in P
    <3>1. \A j \in DOMAIN s : j > 1 => s[j] \notin P
      BY <1>2, <1>3, <1>7
    <3> QED BY <1>1, <1>5, <2>1, <3>1, LatestAt
  <2>2. CASE Head(s) \notin P
    <3>1. \A j \in DOMAIN s : s[j] \notin P
      BY <1>1, <1>3, <1>7, <2>2
    <3> QED BY <2>2, <3>1 DEF Latest
  <2> QED BY <2>1, <2>2
<1>8. \/ (\A j \in DOMAIN t : t[j] \notin P) /\ Latest(t, P, d) = d
      \/ \E i \in DOMAIN t : /\ t[i] \in P /\ Latest(t, P, d) = t[i]
                             /\ \A j \in DOMAIN t : j > i => t[j] \notin P
  BY <1>1, LatestWhere
<1> HIDE DEF d
<1>9. Latest(s, P, e) = Latest(t, P, d)
  BY <1>6, <1>7, <1>8
<1> QED BY <1>9 DEF t, d

\* A filter that keeps all of P keeps the last of them.
LEMMA LatestKept ==
    ASSUME NEW T, NEW s \in Seq(T), NEW keep, NEW P, P \subseteq keep, NEW e
    PROVE  Latest(Kept(s, keep), P, e) = Latest(s, P, e)
<1> DEFINE k == Kept(s, keep)
<1>1. PICK at : k \in Seq(T) /\ Left(k, at, s, keep, Len(s))
  BY KeptIs
<1> HIDE DEF k
<1>2. DOMAIN s = 1..Len(s) /\ DOMAIN k = 1..Len(k) /\ Len(s) \in Nat /\ Len(k) \in Nat
  BY <1>1, LenProperties
<1>3. CASE \A j \in DOMAIN s : s[j] \notin P
  <2>1. \A i \in DOMAIN k : k[i] \notin P
    BY <1>1, <1>2, <1>3 DEF Left
  <2> QED BY <1>3, <2>1 DEF Latest, k
<1>4. ASSUME NEW j \in DOMAIN s, s[j] \in P, Latest(s, P, e) = s[j],
             \A l \in DOMAIN s : l > j => s[l] \notin P
      PROVE  Latest(k, P, e) = s[j]
  <2>1. PICK i \in DOMAIN k : at[i] = j
    BY <1>1, <1>2, <1>4 DEF Left
  <2>2. k[i] = s[j]
    BY <1>1, <1>2, <2>1 DEF Left
  <2>3. ASSUME NEW l \in DOMAIN k, l > i
        PROVE  k[l] \notin P
    <3>1. at[l] \in DOMAIN s /\ k[l] = s[at[l]] /\ at[i] < at[l]
      BY <1>1, <1>2, <2>3 DEF Left
    <3>2. at[l] > j
      BY <1>2, <2>1, <3>1
    <3> QED BY <1>4, <3>1, <3>2
  <2> QED BY <1>1, <1>4, <2>2, <2>3, LatestAt
<1>5. \/ \A j \in DOMAIN s : s[j] \notin P
      \/ \E j \in DOMAIN s : /\ s[j] \in P /\ Latest(s, P, e) = s[j]
                             /\ \A l \in DOMAIN s : l > j => s[l] \notin P
  BY LatestWhere
<1>6. CASE \E j \in DOMAIN s : s[j] \in P
  BY <1>4, <1>5, <1>6 DEF k
<1> QED BY <1>3, <1>6

\* What is in a sequence with one element more, or with the first taken.
LEMMA RangeAppend ==
    ASSUME NEW T, NEW s \in Seq(T), NEW x \in T
    PROVE  Append(s, x) \in Seq(T) /\ Range(Append(s, x)) = Range(s) \cup {x}
<1> DEFINE t == Append(s, x)
<1>1. /\ t \in Seq(T) /\ Len(t) = Len(s) + 1 /\ Len(s) \in Nat
      /\ \A i \in 1..Len(s) : t[i] = s[i]
      /\ t[Len(s) + 1] = x
  BY AppendProperties, LenProperties
<1>2. DOMAIN s = 1..Len(s) /\ DOMAIN t = 1..Len(s) + 1
  BY <1>1, LenProperties
<1> HIDE DEF t
<1>3. \A j \in DOMAIN t : j = Len(s) + 1 \/ j \in DOMAIN s
  BY <1>1, <1>2
<1>4. Len(s) + 1 \in DOMAIN t /\ DOMAIN s \subseteq DOMAIN t
  BY <1>1, <1>2
<1> QED BY <1>1, <1>2, <1>3, <1>4 DEF Range, t

\* The first of a sequence and the others are all of it.
LEMMA RangeTail ==
    ASSUME NEW T, NEW s \in Seq(T), s # <<>>
    PROVE  /\ Head(s) \in T /\ Tail(s) \in Seq(T)
           /\ Range(s) = Range(Tail(s)) \cup {Head(s)}
<1> DEFINE t == Tail(s)
<1>1. /\ t \in Seq(T) /\ Len(t) = Len(s) - 1 /\ Len(s) \in Nat \ {0} /\ Len(t) \in Nat
      /\ \A i \in 1..Len(t) : t[i] = s[i + 1]
      /\ Head(s) = s[1] /\ Head(s) \in T
  BY HeadTailProperties, EmptySeq, LenProperties
<1>2. DOMAIN s = 1..Len(s) /\ DOMAIN t = 1..Len(t)
  BY <1>1, LenProperties
<1> HIDE DEF t
<1>3. \A j \in DOMAIN s : j = 1 \/ (j - 1 \in DOMAIN t /\ t[j - 1] = s[j])
  BY <1>1, <1>2
<1>4. \A j \in DOMAIN t : j + 1 \in DOMAIN s /\ s[j + 1] = t[j]
  BY <1>1, <1>2
<1>5. 1 \in DOMAIN s
  BY <1>1, <1>2
<1>6. Range(s) \subseteq Range(t) \cup {Head(s)}
  BY <1>1, <1>3 DEF Range
<1>7. Range(t) \cup {Head(s)} \subseteq Range(s)
  BY <1>1, <1>4, <1>5 DEF Range
<1> QED BY <1>1, <1>6, <1>7 DEF t

\* An empty one has nothing, and one that has nothing is empty.
LEMMA RangeEmpty ==
    ASSUME NEW T, NEW s \in Seq(T)
    PROVE  Range(s) = {} <=> s = <<>>
<1>1. DOMAIN s = 1..Len(s) /\ Len(s) \in Nat /\ (s # <<>> => Len(s) \in Nat \ {0})
  BY LenProperties, EmptySeq
<1>2. s # <<>> => 1 \in DOMAIN s
  BY <1>1
<1>3. s = <<>> => DOMAIN s = {}
  BY EmptySeq, <1>1
<1> QED BY <1>2, <1>3 DEF Range

-----------------------------------------------------------------------------
(* What a sequence in flight will say once it has arrived.                   *)

OfKind(what) == {e \in Event : e.what = what}
About(s) == {e \in Event : e.what \in {"sink", "gone"} /\ e.sink = s}
Readings == {p \in Post : p.what = "reading"}
Asks == {c \in Call : c.what = "metadata"}

\* Whether a sink is known, which name the metadata gave last, and what the reading is,
\* once w is read.
Told(w, s, known) ==
    Latest(w, About(s), What(IF s \in known THEN "sink" ELSE "gone", s, NoReading)).what = "sink"
Named(w, name) == Latest(w, OfKind("default"), What("default", name, NoReading)).sink
Heard(w, reading) == Latest(w, OfKind("param"), What("param", None, reading)).props

\* No two of s are of P.
Once(s, P) == \A i, j \in DOMAIN s : s[i] \in P /\ s[j] \in P => i = j

\* What is the last does not depend on what stands for none, if there is one.
LEMMA LatestFrom ==
    ASSUME NEW s, NEW P, NEW d, NEW e
    PROVE  \/ Latest(s, P, d) = d /\ Latest(s, P, e) = e
           \/ Latest(s, P, d) = Latest(s, P, e)
BY DEF Latest

\* An event more.
LEMMA Grows ==
    ASSUME NEW w \in Seq(Event), NEW x \in Event
    PROVE  /\ Append(w, x) \in Seq(Event) /\ Range(Append(w, x)) = Range(w) \cup {x}
           /\ \A s, known : Told(Append(w, x), s, known)
                            <=> IF x \in About(s) THEN x.what = "sink" ELSE Told(w, s, known)
           /\ \A name : Named(Append(w, x), name)
                        = IF x.what = "default" THEN x.sink ELSE Named(w, name)
           /\ \A reading : Heard(Append(w, x), reading)
                           = IF x.what = "param" THEN x.props ELSE Heard(w, reading)
<1>1. Append(w, x) \in Seq(Event) /\ Range(Append(w, x)) = Range(w) \cup {x}
  BY RangeAppend
<1>2. \A P, e : Latest(Append(w, x), P, e) = IF x \in P THEN x ELSE Latest(w, P, e)
  BY LatestAppend
<1>3. \A what : x \in OfKind(what) <=> x.what = what
  BY DEF OfKind
<1> QED BY <1>1, <1>2, <1>3 DEF Told, Named, Heard

\* The first event read.
LEMMA Shrinks ==
    ASSUME NEW w \in Seq(Event), w # <<>>
    PROVE  /\ Head(w) \in Event /\ Tail(w) \in Seq(Event)
           /\ Range(w) = Range(Tail(w)) \cup {Head(w)}
           /\ \A s, known : Head(w) \notin About(s) => (Told(w, s, known) <=> Told(Tail(w), s, known))
           /\ \A s, known, k : /\ Head(w) \in About(s)
                               /\ s \in k <=> Head(w).what = "sink"
                               => (Told(w, s, known) <=> Told(Tail(w), s, k))
           /\ \A name : Named(w, name) = Named(Tail(w), IF Head(w).what = "default"
                                                        THEN Head(w).sink ELSE name)
           /\ \A reading : Heard(w, reading) = Heard(Tail(w), IF Head(w).what = "param"
                                                              THEN Head(w).props ELSE reading)
<1>1. /\ Head(w) \in Event /\ Tail(w) \in Seq(Event)
      /\ Range(w) = Range(Tail(w)) \cup {Head(w)}
  BY RangeTail
<1>2. \A P, e : Latest(w, P, e) = Latest(Tail(w), P, IF Head(w) \in P THEN Head(w) ELSE e)
  BY LatestTail
<1>3. \A what : Head(w) \in OfKind(what) <=> Head(w).what = what
  BY <1>1 DEF OfKind
<1>4. \A P, d, e : \/ Latest(Tail(w), P, d) = d /\ Latest(Tail(w), P, e) = e
                   \/ Latest(Tail(w), P, d) = Latest(Tail(w), P, e)
  BY LatestFrom
<1>5. ASSUME NEW s, NEW known, Head(w) \notin About(s)
      PROVE  Told(w, s, known) <=> Told(Tail(w), s, known)
  BY <1>2, <1>5 DEF Told
<1>6. ASSUME NEW s, NEW known, NEW k, Head(w) \in About(s), s \in k <=> Head(w).what = "sink"
      PROVE  Told(w, s, known) <=> Told(Tail(w), s, k)
  <2> DEFINE d == What(IF s \in known THEN "sink" ELSE "gone", s, NoReading)
             e == What(IF s \in k THEN "sink" ELSE "gone", s, NoReading)
             P == About(s)
  <2>1. Latest(w, P, d) = Latest(Tail(w), P, Head(w))
    BY <1>2, <1>6
  <2>2. e.what = "sink" <=> Head(w).what = "sink"
    BY <1>6 DEF What
  <2> HIDE DEF d, e
  <2>3. Latest(Tail(w), P, Head(w)).what = "sink" <=> Latest(Tail(w), P, e).what = "sink"
    BY <1>4, <2>2
  <2> QED BY <2>1, <2>3 DEF Told, d, e
<1>7. ASSUME NEW name
      PROVE  Named(w, name) = Named(Tail(w), IF Head(w).what = "default"
                                             THEN Head(w).sink ELSE name)
  <2> DEFINE d == What("default", name, NoReading)
             e == What("default", Head(w).sink, NoReading)
             P == OfKind("default")
  <2>1. Latest(w, P, d) = Latest(Tail(w), P, IF Head(w).what = "default" THEN Head(w) ELSE d)
    BY <1>2, <1>3
  <2>2. e.sink = Head(w).sink
    BY DEF What
  <2> HIDE DEF d, e, P
  <2>3. Latest(Tail(w), P, Head(w)).sink = Latest(Tail(w), P, e).sink
    BY <1>4, <2>2
  <2> QED BY <2>1, <2>3 DEF Named, d, e, P
<1>8. ASSUME NEW reading
      PROVE  Heard(w, reading) = Heard(Tail(w), IF Head(w).what = "param"
                                                THEN Head(w).props ELSE reading)
  <2> DEFINE d == What("param", None, reading)
             e == What("param", None, Head(w).props)
             P == OfKind("param")
  <2>1. Latest(w, P, d) = Latest(Tail(w), P, IF Head(w).what = "param" THEN Head(w) ELSE d)
    BY <1>2, <1>3
  <2>2. e.props = Head(w).props
    BY DEF What
  <2> HIDE DEF d, e, P
  <2>3. Latest(Tail(w), P, Head(w)).props = Latest(Tail(w), P, e).props
    BY <1>4, <2>2
  <2> QED BY <2>1, <2>3 DEF Heard, d, e, P
<1> QED BY <1>1, <1>5, <1>6, <1>7, <1>8

\* What is left of the events when those of a proxy go.
LEMMA Hushed ==
    ASSUME NEW w \in Seq(Event)
    PROVE  LET k == Kept(w, Event \ OfNode)
           IN  /\ k \in Seq(Event) /\ Range(k) = Range(w) \ OfNode
               /\ \A s, known : Told(k, s, known) <=> Told(w, s, known)
               /\ \A name : Named(k, name) = Named(w, name)
<1> DEFINE k == Kept(w, Event \ OfNode)
<1>1. k \in Seq(Event)
  BY KeptIs
<1>2. Range(w) \subseteq Event
  BY LenProperties DEF Range
<1>3. Range(k) = Range(w) \ OfNode
  BY <1>2, KeptRange
<1>4. \A P, e : P \subseteq Event \ OfNode => Latest(k, P, e) = Latest(w, P, e)
  BY LatestKept
<1>5. \A s : About(s) \subseteq Event \ OfNode
  BY DEF About, OfNode
<1>6. OfKind("default") \subseteq Event \ OfNode
  BY DEF OfKind, OfNode
<1> HIDE DEF k
<1>7. \A s, known : Told(k, s, known) <=> Told(w, s, known)
  BY <1>4, <1>5 DEF Told
<1>8. \A name : Named(k, name) = Named(w, name)
  BY <1>4, <1>6 DEF Named
<1> QED BY <1>1, <1>3, <1>7, <1>8 DEF k

\* The calls that are left, as they are then.
LeftOver(s) ==
    [i \in DOMAIN s |-> IF s[i].what = "bind" THEN [s[i] EXCEPT !.what = "dropped"] ELSE s[i]]

\* What is left of the calls: no answer to a bind or an enumeration comes, the others stay.
LEMMA Dropped ==
    ASSUME NEW s \in Seq(Call), Once(s, Asks)
    PROVE  LET t == LeftOver(Kept(s, Call \ Enums))
           IN  /\ t \in Seq(Call) /\ Once(t, Asks)
               /\ \A c \in Range(t) : c.what \notin {"bind", "enum"}
               /\ \A c \in Range(t) : c.what # "dropped" => c \in Range(s)
<1> DEFINE k == Kept(s, Call \ Enums)
           t == LeftOver(k)
<1>1. k \in Seq(Call) /\ Range(k) = Range(s) \cap (Call \ Enums)
  BY KeptIs, KeptRange
<1>2. Once(k, Asks)
  BY KeptOnce DEF Once
<1>3. DOMAIN k = 1..Len(k) /\ Len(k) \in Nat /\ \A i \in DOMAIN k : k[i] \in Call /\ k[i] \in Range(k)
  BY <1>1, LenProperties, ElementOfSeq DEF Range
<1> HIDE DEF k
<1>4. DOMAIN t = 1..Len(k)
  BY <1>3 DEF LeftOver
<1>5. ASSUME NEW i \in 1..Len(k)
      PROVE  /\ t[i] \in Call /\ t[i].what \notin {"bind", "enum"}
             /\ t[i].what # "dropped" => t[i] = k[i]
  <2>1. k[i] \in Call /\ k[i].what # "enum"
    BY <1>1, <1>3 DEF Enums
  <2>2. t[i] = IF k[i].what = "bind" THEN [k[i] EXCEPT !.what = "dropped"] ELSE k[i]
    BY <1>3 DEF LeftOver
  <2>3. /\ [k[i] EXCEPT !.what = "dropped"] \in Call
        /\ [k[i] EXCEPT !.what = "dropped"].what = "dropped"
    BY <2>1 DEF Call
  <2> QED BY <2>1, <2>2, <2>3
<1>6. t \in Seq(Call)
  <2>1. \A i \in 1..Len(k) : t[i] \in Call
    BY <1>5
  <2>2. t = [i \in 1..Len(k) |-> t[i]]
    BY <1>3 DEF LeftOver
  <2> QED BY <1>3, <2>1, <2>2, IsASeq
<1> HIDE DEF t
<1>7. Once(t, Asks)
  <2>1. ASSUME NEW i \in DOMAIN t, NEW j \in DOMAIN t, t[i] \in Asks, t[j] \in Asks
        PROVE  i = j
    <3>1. k[i] = t[i] /\ k[j] = t[j] /\ i \in DOMAIN k /\ j \in DOMAIN k
      BY <1>3, <1>4, <1>5, <2>1 DEF Asks
    <3> QED BY <1>2, <2>1, <3>1 DEF Once
  <2> QED BY <2>1 DEF Once
<1>8. ASSUME NEW c \in Range(t)
      PROVE  c.what \notin {"bind", "enum"} /\ (c.what # "dropped" => c \in Range(s))
  <2>1. PICK i \in 1..Len(k) : c = t[i]
    BY <1>4, <1>8 DEF Range
  <2> QED BY <1>1, <1>3, <1>5, <2>1
<1> QED BY <1>6, <1>7, <1>8 DEF t, k

\* A call more.
LEMMA CallSent ==
    ASSUME NEW s \in Seq(Call), NEW x \in Call, Once(s, Asks),
           x.what = "metadata" => \A c \in Range(s) : c.what # "metadata"
    PROVE  /\ Append(s, x) \in Seq(Call) /\ Range(Append(s, x)) = Range(s) \cup {x}
           /\ Once(Append(s, x), Asks)
<1> DEFINE t == Append(s, x)
<1>1. t \in Seq(Call) /\ Range(t) = Range(s) \cup {x}
  BY RangeAppend
<1>2. /\ Len(t) = Len(s) + 1 /\ Len(s) \in Nat
      /\ \A i \in 1..Len(s) : t[i] = s[i]
      /\ t[Len(s) + 1] = x
  BY AppendProperties, LenProperties
<1>3. DOMAIN s = 1..Len(s) /\ DOMAIN t = 1..Len(s) + 1
  BY <1>1, <1>2, LenProperties
<1> HIDE DEF t
<1>4. \A j \in DOMAIN t : (j = Len(s) + 1 /\ t[j] = x) \/ (j \in DOMAIN s /\ t[j] = s[j])
  BY <1>2, <1>3
<1>5. x \in Asks => \A j \in DOMAIN s : s[j] \notin Asks
  BY DEF Asks, Range
<1>6. Once(t, Asks)
  BY <1>4, <1>5 DEF Once
<1> QED BY <1>1, <1>6 DEF t

\* The first call taken.
LEMMA CallTaken ==
    ASSUME NEW s \in Seq(Call), s # <<>>, Once(s, Asks)
    PROVE  /\ Head(s) \in Call /\ Tail(s) \in Seq(Call)
           /\ Range(s) = Range(Tail(s)) \cup {Head(s)}
           /\ Once(Tail(s), Asks)
           /\ Head(s).what = "metadata" => \A c \in Range(Tail(s)) : c.what # "metadata"
<1> DEFINE t == Tail(s)
<1>1. /\ Head(s) \in Call /\ t \in Seq(Call)
      /\ Range(s) = Range(t) \cup {Head(s)}
  BY RangeTail
<1>2. /\ Len(t) = Len(s) - 1 /\ Len(s) \in Nat \ {0} /\ Len(t) \in Nat
      /\ \A i \in 1..Len(t) : t[i] = s[i + 1]
      /\ Head(s) = s[1]
  BY HeadTailProperties, EmptySeq, LenProperties
<1>3. DOMAIN s = 1..Len(s) /\ DOMAIN t = 1..Len(t)
  BY <1>1, LenProperties
<1> HIDE DEF t
<1>4. \A j \in DOMAIN t : j + 1 \in DOMAIN s /\ t[j] = s[j + 1] /\ j + 1 # 1 /\ j \in Nat
  BY <1>2, <1>3
<1>5. 1 \in DOMAIN s
  BY <1>2, <1>3
<1>6. Once(t, Asks)
  <2>1. ASSUME NEW i \in DOMAIN t, NEW j \in DOMAIN t, t[i] \in Asks, t[j] \in Asks
        PROVE  i = j
    <3>1. i + 1 = j + 1
      BY <1>4, <2>1 DEF Once
    <3> QED BY <1>4, <3>1
  <2> QED BY <2>1 DEF Once
<1>7. ASSUME Head(s).what = "metadata", NEW c \in Range(t)
      PROVE  c.what # "metadata"
  <2>1. PICK j \in DOMAIN t : c = t[j]
    BY <1>7 DEF Range
  <2>2. s[1] \in Asks
    BY <1>1, <1>2, <1>7 DEF Asks
  <2>3. s[j + 1] \notin Asks
    BY <1>4, <1>5, <2>2 DEF Once
  <2>4. c \in Call
    BY <1>1, <1>3, <2>1, ElementOfSeq
  <2> QED BY <1>4, <2>1, <2>3, <2>4 DEF Asks
<1> QED BY <1>1, <1>6, <1>7 DEF t

-----------------------------------------------------------------------------
(* The readings that are posted.                                             *)

\* The reading that QML will have once q is read, where it has shown now.
Posted(q, shown) == Latest(q, Readings, shown)

\* Two readings in a row are of one binding of one sink, unless one of them is none.
Same(x, y) ==
    x.reading # NoReading /\ y.reading # NoReading => x.sink = y.sink /\ x.binding = y.binding

Chain(q, shown) ==
    \A j \in DOMAIN q : q[j] \in Readings =>
        /\ (\A k \in DOMAIN q : k < j => q[k] \notin Readings) => Same(shown, q[j])
        /\ \A i \in DOMAIN q :
               /\ i < j /\ q[i] \in Readings
               /\ \A k \in DOMAIN q : i < k /\ k < j => q[k] \notin Readings
               => Same(q[i], q[j])

\* A post more.
LEMMA PostSent ==
    ASSUME NEW q \in Seq(Post), NEW x \in Post, NEW shown
    PROVE  /\ Append(q, x) \in Seq(Post) /\ Range(Append(q, x)) = Range(q) \cup {x}
           /\ Posted(Append(q, x), shown)
              = IF x.what = "reading" THEN x ELSE Posted(q, shown)
           /\ Chain(q, shown) /\ (x.what = "reading" => Same(Posted(q, shown), x))
              => Chain(Append(q, x), shown)
<1> DEFINE t == Append(q, x)
<1>1. t \in Seq(Post) /\ Range(t) = Range(q) \cup {x}
  BY RangeAppend
<1>2. /\ Len(t) = Len(q) + 1 /\ Len(q) \in Nat
      /\ \A i \in 1..Len(q) : t[i] = q[i]
      /\ t[Len(q) + 1] = x
  BY AppendProperties, LenProperties
<1>3. DOMAIN q = 1..Len(q) /\ DOMAIN t = 1..Len(q) + 1
  BY <1>1, <1>2, LenProperties
<1>4. x \in Readings <=> x.what = "reading"
  BY DEF Readings
<1>5. Posted(t, shown) = IF x.what = "reading" THEN x ELSE Posted(q, shown)
  BY <1>4, LatestAppend DEF Posted
<1> HIDE DEF t
<1>6. ASSUME Chain(q, shown), x.what = "reading" => Same(Posted(q, shown), x)
      PROVE  Chain(t, shown)
  <2>1. \A j \in DOMAIN t : j \in Nat /\ ((j = Len(q) + 1 /\ t[j] = x)
                            \/ (j \in DOMAIN q /\ t[j] = q[j] /\ j < Len(q) + 1))
    BY <1>2, <1>3
  <2>2. \A j \in DOMAIN q : j \in DOMAIN t /\ t[j] = q[j] /\ j < Len(q) + 1 /\ j \in Nat
    BY <1>2, <1>3
  <2>3. \/ /\ \A j \in DOMAIN q : q[j] \notin Readings
           /\ Posted(q, shown) = shown
        \/ \E i \in DOMAIN q : /\ q[i] \in Readings /\ Posted(q, shown) = q[i]
                               /\ \A j \in DOMAIN q : j > i => q[j] \notin Readings
    BY LatestWhere DEF Posted
  <2>4. ASSUME NEW j \in DOMAIN t, t[j] \in Readings,
               \A k \in DOMAIN t : k < j => t[k] \notin Readings
        PROVE  Same(shown, t[j])
    <3>1. CASE j \in DOMAIN q
      <4>1. \A k \in DOMAIN q : k < j => q[k] \notin Readings
        BY <2>2, <2>4
      <4>2. q[j] \in Readings /\ t[j] = q[j]
        BY <2>2, <2>4, <3>1
      <4> QED BY <1>6, <3>1, <4>1, <4>2 DEF Chain
    <3>2. CASE j = Len(q) + 1 /\ t[j] = x
      <4>1. \A k \in DOMAIN q : q[k] \notin Readings
        BY <2>2, <2>4, <3>2
      <4> QED BY <1>4, <1>6, <2>3, <2>4, <3>2, <4>1
    <3> QED BY <2>1, <3>1, <3>2
  <2>5. ASSUME NEW j \in DOMAIN t, t[j] \in Readings, NEW i \in DOMAIN t, i < j, t[i] \in Readings,
               \A k \in DOMAIN t : i < k /\ k < j => t[k] \notin Readings
        PROVE  Same(t[i], t[j])
    <3>1. i \in DOMAIN q /\ t[i] = q[i]
      <4>1. i # Len(q) + 1
        BY <1>2, <1>3, <2>5
      <4> QED BY <2>1, <4>1
    <3>2. CASE j \in DOMAIN q
      <4>1. \A k \in DOMAIN q : i < k /\ k < j => q[k] \notin Readings
        BY <2>2, <2>5
      <4>2. q[j] \in Readings /\ t[j] = q[j]
        BY <2>2, <2>5, <3>2
      <4> QED BY <1>6, <2>5, <3>1, <3>2, <4>1, <4>2 DEF Chain
    <3>3. CASE j = Len(q) + 1 /\ t[j] = x
      <4>1. \A k \in DOMAIN q : k > i => q[k] \notin Readings
        BY <1>2, <1>3, <2>2, <2>5, <3>3
      <4>2. Posted(q, shown) = q[i]
        BY <2>5, <3>1, <4>1, LatestAt DEF Posted
      <4> QED BY <1>4, <1>6, <2>5, <3>1, <3>3, <4>2
    <3> QED BY <2>1, <3>2, <3>3
  <2> QED BY <2>4, <2>5 DEF Chain
<1> QED BY <1>1, <1>5, <1>6 DEF t

\* The first post taken.
LEMMA PostTaken ==
    ASSUME NEW q \in Seq(Post), q # <<>>, NEW shown,
           NEW next, next = IF Head(q).what = "reading" THEN Head(q) ELSE shown
    PROVE  /\ Head(q) \in Post /\ Tail(q) \in Seq(Post)
           /\ Range(q) = Range(Tail(q)) \cup {Head(q)}
           /\ Posted(q, shown) = Posted(Tail(q), next)
           /\ Chain(q, shown) => /\ Head(q).what = "reading" => Same(shown, Head(q))
                                 /\ Chain(Tail(q), next)
<1> DEFINE t == Tail(q)
<1>1. /\ Head(q) \in Post /\ t \in Seq(Post)
      /\ Range(q) = Range(t) \cup {Head(q)}
  BY RangeTail
<1>2. /\ Len(t) = Len(q) - 1 /\ Len(q) \in Nat \ {0} /\ Len(t) \in Nat
      /\ \A i \in 1..Len(t) : t[i] = q[i + 1]
      /\ Head(q) = q[1]
  BY HeadTailProperties, EmptySeq, LenProperties
<1>3. DOMAIN q = 1..Len(q) /\ DOMAIN t = 1..Len(t)
  BY <1>1, LenProperties
<1>4. Head(q) \in Readings <=> Head(q).what = "reading"
  BY <1>1 DEF Readings
<1>5. Posted(q, shown) = Posted(t, next)
  BY <1>4, LatestTail DEF Posted
<1> HIDE DEF t
<1>6. ASSUME Chain(q, shown)
      PROVE  /\ Head(q).what = "reading" => Same(shown, Head(q))
             /\ Chain(t, next)
  <2>1. \A j \in DOMAIN t : j + 1 \in DOMAIN q /\ t[j] = q[j + 1] /\ 1 < j + 1 /\ j \in Nat
    BY <1>2, <1>3
  <2>2. \A j \in DOMAIN q : j \in Nat /\ (j = 1 \/ (1 < j /\ j - 1 \in DOMAIN t /\ q[j] = t[j - 1]))
    BY <1>2, <1>3
  <2>3. 1 \in DOMAIN q /\ \A k \in DOMAIN q : ~(k < 1)
    BY <1>2, <1>3
  <2>4. Head(q).what = "reading" => Same(shown, Head(q))
    BY <1>2, <1>4, <1>6, <2>3 DEF Chain
  <2>5. ASSUME NEW j \in DOMAIN t, t[j] \in Readings,
               \A k \in DOMAIN t : k < j => t[k] \notin Readings
        PROVE  Same(next, t[j])
    <3>1. j + 1 \in DOMAIN q /\ q[j + 1] = t[j] /\ 1 < j + 1
      BY <2>1
    <3>2. ASSUME NEW k \in DOMAIN q, 1 < k, k < j + 1
          PROVE  q[k] \notin Readings
      <4>1. k - 1 \in DOMAIN t /\ q[k] = t[k - 1] /\ k - 1 < j
        BY <2>1, <2>2, <3>2
      <4> QED BY <2>5, <4>1
    <3>3. CASE Head(q) \in Readings
      <4>1. Same(q[1], q[j + 1])
        BY <1>2, <1>6, <2>3, <2>5, <3>1, <3>2, <3>3 DEF Chain
      <4> QED BY <1>2, <1>4, <3>1, <3>3, <4>1
    <3>4. CASE Head(q) \notin Readings
      <4>1. \A k \in DOMAIN q : k < j + 1 => q[k] \notin Readings
        BY <1>2, <2>2, <3>2, <3>4
      <4>2. Same(shown, q[j + 1])
        BY <1>6, <2>5, <3>1, <4>1 DEF Chain
      <4> QED BY <1>4, <3>1, <3>4, <4>2
    <3> QED BY <3>3, <3>4
  <2>6. ASSUME NEW j \in DOMAIN t, t[j] \in Readings, NEW i \in DOMAIN t, i < j, t[i] \in Readings,
               \A k \in DOMAIN t : i < k /\ k < j => t[k] \notin Readings
        PROVE  Same(t[i], t[j])
    <3>1. /\ j + 1 \in DOMAIN q /\ q[j + 1] = t[j] /\ i + 1 \in DOMAIN q /\ q[i + 1] = t[i]
          /\ i + 1 < j + 1
      BY <2>1, <2>6
    <3>2. ASSUME NEW k \in DOMAIN q, i + 1 < k, k < j + 1
          PROVE  q[k] \notin Readings
      <4>1. k - 1 \in DOMAIN t /\ q[k] = t[k - 1] /\ k - 1 < j /\ i < k - 1
        BY <2>1, <2>2, <3>2
      <4> QED BY <2>6, <4>1
    <3>3. Same(q[i + 1], q[j + 1])
      BY <1>6, <2>6, <3>1, <3>2 DEF Chain
    <3> QED BY <3>1, <3>3
  <2>7. Chain(t, next)
    BY <2>5, <2>6 DEF Chain
  <2> QED BY <2>4, <2>7
<1> QED BY <1>1, <1>5, <1>6 DEF t

\* What is shown counts by its reading, and by its sink and binding if it has one.
LEMMA ChainFrom ==
    ASSUME NEW q, NEW d, NEW e,
           \/ d.reading = NoReading /\ e.reading = NoReading
           \/ d.reading = e.reading /\ d.sink = e.sink /\ d.binding = e.binding
    PROVE  /\ Chain(q, d) => Chain(q, e)
           /\ Posted(q, d).reading = Posted(q, e).reading
           /\ Posted(q, d).reading # NoReading =>
                 Posted(q, d).sink = Posted(q, e).sink /\ Posted(q, d).binding = Posted(q, e).binding
<1>1. \A y : Same(d, y) => Same(e, y)
  BY DEF Same
<1>2. \/ Posted(q, d) = d /\ Posted(q, e) = e
      \/ Posted(q, d) = Posted(q, e)
  BY LatestFrom DEF Posted
<1> QED BY <1>1, <1>2 DEF Chain

\* Nothing posted.
LEMMA NothingPosted ==
    ASSUME NEW shown
    PROVE  Posted(<<>>, shown) = shown /\ Chain(<<>>, shown)
<1>1. DOMAIN <<>> = {}
  BY EmptySeq, LenProperties
<1> QED BY <1>1 DEF Posted, Latest, Chain

-----------------------------------------------------------------------------
(* The invariant, of a connection a, a shell g and a daemon d.               *)

\* What is in flight has what its handler takes.
Meant(a) ==
    /\ \A e \in Range(a.wire) : /\ e.what \in {"sink", "gone"} => e.sink \in Sinks
                                /\ e.what = "param" => e.props \in Props
    /\ \A c \in Range(a.calls) : c.what = "set" => c.props \in Props

\* The error that tells of a lost connection, or the call that follows it.
Trouble(a) ==
    \/ \E e \in Range(a.wire) : e.what = "error"
    \/ \E p \in Range(a.queue) : p.what = "reattach"

\* Without a loop there is nothing.
Apart(a) ==
    ~a.loop => /\ ~a.metadata /\ a.known = {} /\ a.wantedSink = None /\ a.sink = None
               /\ a.reading = NoReading /\ ~a.linked /\ a.wire = <<>> /\ a.calls = <<>>

\* A connection that is lost is known to be.
Ends(a, d) ==
    /\ a.loop => a.linked \/ Trouble(a)
    /\ a.linked => a.loop /\ d.up

\* The sink that is bound is the one that is wanted, if it is known.
Releases(a) ==
    /\ a.sink = IF a.wantedSink \in a.known THEN a.wantedSink ELSE None
    /\ a.sink = None => a.reading = NoReading
    /\ ~a.linked => ~a.listening /\ a.subscribed = None

\* The sinks that are there are those that will be known.
Presence(a, d) ==
    a.linked => \A s \in Sinks : s \in d.present <=> Told(a.wire, s, a.known)

\* The metadata has not been asked.
Unasked(a) ==
    ~a.listening /\ a.wantedSink = None /\ \A e \in Range(a.wire) : e.what # "default"

\* The sink that will be wanted is the default; the metadata is asked once.
Names(a, d) ==
    /\ a.listening => d.metadata /\ Named(a.wire, a.wantedSink) = d.default
    /\ ~a.metadata => Unasked(a) /\ \A c \in Range(a.calls) : c.what # "metadata"
    /\ (\E c \in Range(a.calls) : c.what = "metadata") => Unasked(a)
    /\ Once(a.calls, Asks)

\* The daemon tells of the sink that is bound, or will, unless something happened to it.
Bound(a, d) ==
    /\ a.subscribed # None => a.subscribed = a.sink /\ a.sink \in d.present
    /\ a.sink # None /\ a.subscribed = None =>
           \/ Trouble(a)
           \/ \E c \in Range(a.calls) : c.what = "bind"
           \/ \E e \in Range(a.wire) : e.what = "gone" /\ e.sink = a.sink
    /\ \A c \in Range(a.calls) : c.what \in {"bind", "enum"} => c.sink = a.sink

Shown(g) == [what |-> "reading", sink |-> g.sink, reading |-> g.reading, binding |-> g.binding]

\* What QML will have is what the daemon has.
Current(a, g, d) ==
    a.subscribed # None =>
        Heard(a.wire, Posted(a.queue, Shown(g)).reading) = d.props[a.subscribed]

\* What is posted is of one binding after the other, with none in between, and the last is
\* of the present one.
Chained(a, g) ==
    ~g.late =>
        /\ Chain(a.queue, Shown(g))
        /\ Posted(a.queue, Shown(g)).reading # NoReading =>
              /\ a.sink # None /\ a.sink = Posted(a.queue, Shown(g)).sink
              /\ a.binding = Posted(a.queue, Shown(g)).binding

\* A shell that wants a loop and has none has a timer.
Returns(a, g) == IF g.wanted THEN a.loop \/ g.timers > 0 ELSE ~a.loop

Sound(a, g, d) ==
    /\ Meant(a) /\ Apart(a) /\ Ends(a, d) /\ Releases(a) /\ Presence(a, d) /\ Names(a, d)
    /\ Bound(a, d) /\ Current(a, g, d) /\ Chained(a, g) /\ Returns(a, g)

IInv == TypeOK /\ Sound(audio, gui, daemon)

-----------------------------------------------------------------------------
(* The loop thread's handlers.                                               *)

\* b is a with its sink released.
Released(a, b) ==
    /\ b \in Audio
    /\ b.loop = a.loop /\ b.metadata = a.metadata /\ b.known = a.known
    /\ b.wantedSink = a.wantedSink /\ b.linked = a.linked /\ b.listening = a.listening
    /\ b.queue = a.queue /\ b.binding = a.binding
    /\ b.sink = None /\ b.reading = NoReading /\ b.subscribed = None
    /\ Range(b.wire) = Range(a.wire) \ OfNode
    /\ \A s, known : Told(b.wire, s, known) <=> Told(a.wire, s, known)
    /\ \A name : Named(b.wire, name) = Named(a.wire, name)
    /\ Once(b.calls, Asks)
    /\ \A c \in Range(b.calls) : c.what \notin {"bind", "enum"}
    /\ \A c \in Range(b.calls) : c.what # "dropped" => c \in Range(a.calls)

\* releaseSink forgets the sink, its reading and the calls on it, and nothing else.
LEMMA SinkReleased ==
    ASSUME NEW a \in Audio, Once(a.calls, Asks)
    PROVE  Released(a, ReleaseSink(a))
<1> DEFINE wire == Kept(a.wire, Event \ OfNode)
           calls == LeftOver(Kept(a.calls, Call \ Enums))
           b == [a EXCEPT !.sink = None, !.reading = NoReading, !.subscribed = None,
                          !.wire = wire, !.calls = calls]
<1>1. ReleaseSink(a) = b
  BY DEF ReleaseSink, LeftOver
<1>2. a.wire \in Seq(Event) /\ a.calls \in Seq(Call)
  BY DEF Audio
<1>3. /\ wire \in Seq(Event) /\ Range(wire) = Range(a.wire) \ OfNode
      /\ \A s, known : Told(wire, s, known) <=> Told(a.wire, s, known)
      /\ \A name : Named(wire, name) = Named(a.wire, name)
  BY <1>2, Hushed
<1>4. /\ calls \in Seq(Call) /\ Once(calls, Asks)
      /\ \A c \in Range(calls) : c.what \notin {"bind", "enum"}
      /\ \A c \in Range(calls) : c.what # "dropped" => c \in Range(a.calls)
  BY <1>2, Dropped
<1> HIDE DEF wire, calls
<1>5. /\ b \in Audio
      /\ b.loop = a.loop /\ b.metadata = a.metadata /\ b.known = a.known
      /\ b.wantedSink = a.wantedSink /\ b.linked = a.linked /\ b.listening = a.listening
      /\ b.queue = a.queue /\ b.binding = a.binding
      /\ b.sink = None /\ b.reading = NoReading /\ b.subscribed = None
      /\ b.wire = wire /\ b.calls = calls
  BY <1>3, <1>4 DEF Audio
<1> HIDE DEF b
<1> QED BY <1>1, <1>3, <1>4, <1>5 DEF Released

\* b is a that sent the call x.
Sent(a, b, x) ==
    /\ b \in Audio
    /\ b.loop = a.loop /\ b.metadata = a.metadata /\ b.known = a.known
    /\ b.wantedSink = a.wantedSink /\ b.sink = a.sink /\ b.reading = a.reading
    /\ b.linked = a.linked /\ b.listening = a.listening /\ b.subscribed = a.subscribed
    /\ b.wire = a.wire /\ b.queue = a.queue /\ b.binding = a.binding
    /\ Range(b.calls) = Range(a.calls) \cup {x}
    /\ Once(b.calls, Asks)

\* A call sent is the only change, and the metadata is still asked once.
LEMMA CallIsSent ==
    ASSUME NEW a \in Audio, Once(a.calls, Asks),
           NEW what \in {"metadata", "bind", "dropped", "enum", "set"},
           NEW s \in Sinks \cup {None}, NEW p \in Props \cup {NoReading},
           what = "metadata" => \A c \in Range(a.calls) : c.what # "metadata"
    PROVE  Sent(a, Send(a, what, s, p), [what |-> what, sink |-> s, props |-> p])
<1> DEFINE x == [what |-> what, sink |-> s, props |-> p]
           calls == Append(a.calls, x)
           b == [a EXCEPT !.calls = calls]
<1>1. x \in Call /\ x.what = what
  BY DEF Call
<1> HIDE DEF x
<1>2. a.calls \in Seq(Call)
  BY DEF Audio
<1>3. calls \in Seq(Call) /\ Range(calls) = Range(a.calls) \cup {x} /\ Once(calls, Asks)
  BY <1>1, <1>2, CallSent
<1>4. Send(a, what, s, p) = b
  BY DEF Send, x
<1> HIDE DEF calls
<1>5. /\ b \in Audio
      /\ b.loop = a.loop /\ b.metadata = a.metadata /\ b.known = a.known
      /\ b.wantedSink = a.wantedSink /\ b.sink = a.sink /\ b.reading = a.reading
      /\ b.linked = a.linked /\ b.listening = a.listening /\ b.subscribed = a.subscribed
      /\ b.wire = a.wire /\ b.queue = a.queue /\ b.binding = a.binding
      /\ b.calls = calls
  BY <1>3 DEF Audio
<1> HIDE DEF b
<1> QED BY <1>3, <1>4, <1>5 DEF Sent, x

\* b is a that posted x.
PostedBy(a, b, x) ==
    /\ b \in Audio
    /\ b.loop = a.loop /\ b.metadata = a.metadata /\ b.known = a.known
    /\ b.wantedSink = a.wantedSink /\ b.sink = a.sink /\ b.reading = a.reading
    /\ b.linked = a.linked /\ b.listening = a.listening /\ b.subscribed = a.subscribed
    /\ b.wire = a.wire /\ b.calls = a.calls /\ b.binding = a.binding
    /\ Range(b.queue) = Range(a.queue) \cup {x}
    /\ \A shown : Posted(b.queue, shown) = IF x.what = "reading" THEN x ELSE Posted(a.queue, shown)
    /\ \A shown : Chain(a.queue, shown) /\ (x.what = "reading" => Same(Posted(a.queue, shown), x))
                  => Chain(b.queue, shown)

\* A post is the only change, and is what the GUI thread will have last.
LEMMA PostIsSent ==
    ASSUME NEW a \in Audio, NEW x \in Post
    PROVE  PostedBy(a, [a EXCEPT !.queue = Append(@, x)], x)
<1> DEFINE queue == Append(a.queue, x)
           b == [a EXCEPT !.queue = queue]
<1>1. a.queue \in Seq(Post)
  BY DEF Audio
<1>2. /\ queue \in Seq(Post) /\ Range(queue) = Range(a.queue) \cup {x}
      /\ \A shown : Posted(queue, shown) = IF x.what = "reading" THEN x ELSE Posted(a.queue, shown)
      /\ \A shown : Chain(a.queue, shown) /\ (x.what = "reading" => Same(Posted(a.queue, shown), x))
                    => Chain(queue, shown)
  BY <1>1, PostSent
<1> HIDE DEF queue
<1>3. /\ b \in Audio
      /\ b.loop = a.loop /\ b.metadata = a.metadata /\ b.known = a.known
      /\ b.wantedSink = a.wantedSink /\ b.sink = a.sink /\ b.reading = a.reading
      /\ b.linked = a.linked /\ b.listening = a.listening /\ b.subscribed = a.subscribed
      /\ b.wire = a.wire /\ b.calls = a.calls /\ b.binding = a.binding
      /\ b.queue = queue
  BY <1>2 DEF Audio
<1>4. [a EXCEPT !.queue = Append(@, x)] = b
  BY DEF queue
<1> HIDE DEF b
<1> QED BY <1>2, <1>3, <1>4 DEF PostedBy

\* What publish() posts.
Now(a) == [what |-> "reading", sink |-> a.sink, reading |-> a.reading, binding |-> a.binding]

\* publish() posts the sink, its reading and its binding as they are.
LEMMA ReadingIsPublished ==
    ASSUME NEW a \in Audio
    PROVE  PostedBy(a, Publish(a), Now(a)) /\ Now(a) \in Post
<1>1. Now(a) \in Post
  BY DEF Now, Post, Audio
<1> QED BY <1>1, PostIsSent DEF Publish, Now

-----------------------------------------------------------------------------
(* The events.                                                               *)

\* The invariant when e is being read and r has what comes after it.
Pending(r, e, g, d) ==
    /\ r \in Audio /\ e \in Event /\ r.loop
    /\ e.what \in {"sink", "gone"} => e.sink \in Sinks
    /\ e.what = "param" => e.props \in Props
    /\ Meant(r) /\ Releases(r) /\ Chained(r, g) /\ Returns(r, g)
    /\ r.linked \/ e.what = "error" \/ Trouble(r)
    /\ r.linked => d.up
    /\ r.linked => \A s \in Sinks :
           s \in d.present <=> IF e.what \in {"sink", "gone"} /\ e.sink = s
                               THEN Told(r.wire, s, IF e.what = "sink" THEN r.known \cup {s}
                                                    ELSE r.known \ {s})
                               ELSE Told(r.wire, s, r.known)
    /\ r.listening => /\ d.metadata
                      /\ Named(r.wire, IF e.what = "default" THEN e.sink ELSE r.wantedSink)
                         = d.default
    /\ ~r.metadata => /\ Unasked(r) /\ e.what # "default"
                      /\ \A c \in Range(r.calls) : c.what # "metadata"
    /\ (\E c \in Range(r.calls) : c.what = "metadata") => Unasked(r) /\ e.what # "default"
    /\ Once(r.calls, Asks)
    /\ r.subscribed # None => r.subscribed = r.sink /\ r.sink \in d.present
    /\ r.sink # None /\ r.subscribed = None =>
           \/ Trouble(r) \/ e.what = "error"
           \/ \E c \in Range(r.calls) : c.what = "bind"
           \/ e.what = "gone" /\ e.sink = r.sink
           \/ \E f \in Range(r.wire) : f.what = "gone" /\ f.sink = r.sink
    /\ \A c \in Range(r.calls) : c.what \in {"bind", "enum"} => c.sink = r.sink
    /\ r.subscribed # None =>
           Heard(r.wire, IF e.what = "param" THEN e.props ELSE Posted(r.queue, Shown(g)).reading)
           = d.props[r.subscribed]

\* The invariant, stated of the event at the head and of what comes after it.
LEMMA EventTaken ==
    ASSUME NEW a \in Audio, NEW g \in Gui, NEW d \in Daemon, Sound(a, g, d), a.wire # <<>>
    PROVE  Pending([a EXCEPT !.wire = Tail(@)], Head(a.wire), g, d)
<1> DEFINE e == Head(a.wire)
           wire == Tail(a.wire)
           r == [a EXCEPT !.wire = wire]
<1>1. a.wire \in Seq(Event) /\ a.loop
  BY DEF Audio, Sound, Apart
<1>2. /\ e \in Event /\ wire \in Seq(Event)
      /\ Range(a.wire) = Range(wire) \cup {e}
      /\ \A s, known : e \notin About(s) => (Told(a.wire, s, known) <=> Told(wire, s, known))
      /\ \A s, known, k : e \in About(s) /\ (s \in k <=> e.what = "sink")
                          => (Told(a.wire, s, known) <=> Told(wire, s, k))
      /\ \A name : Named(a.wire, name) = Named(wire, IF e.what = "default" THEN e.sink ELSE name)
      /\ \A reading : Heard(a.wire, reading) = Heard(wire, IF e.what = "param" THEN e.props ELSE reading)
  BY <1>1, Shrinks
<1>3. \A s : e \in About(s) <=> e.what \in {"sink", "gone"} /\ e.sink = s
  BY <1>2 DEF About
<1> HIDE DEF e, wire
<1>4. /\ r \in Audio
      /\ r.loop = a.loop /\ r.metadata = a.metadata /\ r.known = a.known
      /\ r.wantedSink = a.wantedSink /\ r.sink = a.sink /\ r.reading = a.reading
      /\ r.linked = a.linked /\ r.listening = a.listening /\ r.subscribed = a.subscribed
      /\ r.calls = a.calls /\ r.queue = a.queue /\ r.binding = a.binding
      /\ r.wire = wire
  BY <1>2 DEF Audio
<1>5. [a EXCEPT !.wire = Tail(@)] = r
  BY DEF wire
<1> HIDE DEF r
<1>6. /\ e.what \in {"sink", "gone"} => e.sink \in Sinks
      /\ e.what = "param" => e.props \in Props
      /\ Meant(r) /\ Releases(r) /\ Chained(r, g) /\ Returns(r, g)
  BY <1>2, <1>4 DEF Sound, Meant, Releases, Chained, Returns
<1>7. /\ r.linked \/ e.what = "error" \/ Trouble(r)
      /\ r.linked => d.up
  BY <1>1, <1>2, <1>4 DEF Sound, Ends, Trouble
<1>8. ASSUME r.linked, NEW s \in Sinks
      PROVE  s \in d.present <=> IF e.what \in {"sink", "gone"} /\ e.sink = s
                                 THEN Told(r.wire, s, IF e.what = "sink" THEN r.known \cup {s}
                                                      ELSE r.known \ {s})
                                 ELSE Told(r.wire, s, r.known)
  <2>1. s \in d.present <=> Told(a.wire, s, a.known)
    BY <1>4, <1>8 DEF Sound, Presence
  <2>2. CASE e \in About(s)
    <3>1. s \in (IF e.what = "sink" THEN r.known \cup {s} ELSE r.known \ {s}) <=> e.what = "sink"
      OBVIOUS
    <3>2. Told(a.wire, s, a.known)
          <=> Told(wire, s, IF e.what = "sink" THEN r.known \cup {s} ELSE r.known \ {s})
      BY <1>2, <2>2, <3>1
    <3> QED BY <1>3, <1>4, <2>1, <2>2, <3>2
  <2>3. CASE e \notin About(s)
    BY <1>2, <1>3, <1>4, <2>1, <2>3
  <2> QED BY <2>2, <2>3
<1>9. /\ r.listening => /\ d.metadata
                        /\ Named(r.wire, IF e.what = "default" THEN e.sink ELSE r.wantedSink)
                           = d.default
      /\ ~r.metadata => /\ Unasked(r) /\ e.what # "default"
                        /\ \A c \in Range(r.calls) : c.what # "metadata"
      /\ (\E c \in Range(r.calls) : c.what = "metadata") => Unasked(r) /\ e.what # "default"
      /\ Once(r.calls, Asks)
  BY <1>2, <1>4 DEF Sound, Names, Unasked
<1>10. /\ r.subscribed # None => r.subscribed = r.sink /\ r.sink \in d.present
       /\ r.sink # None /\ r.subscribed = None =>
              \/ Trouble(r) \/ e.what = "error"
              \/ \E c \in Range(r.calls) : c.what = "bind"
              \/ e.what = "gone" /\ e.sink = r.sink
              \/ \E f \in Range(r.wire) : f.what = "gone" /\ f.sink = r.sink
       /\ \A c \in Range(r.calls) : c.what \in {"bind", "enum"} => c.sink = r.sink
  BY <1>2, <1>4 DEF Sound, Bound, Trouble
<1>11. r.subscribed # None =>
           Heard(r.wire, IF e.what = "param" THEN e.props ELSE Posted(r.queue, Shown(g)).reading)
           = d.props[r.subscribed]
  BY <1>2, <1>4 DEF Sound, Current
<1>12. r \in Audio /\ e \in Event /\ r.loop
  BY <1>1, <1>2, <1>4
<1>13. Pending(r, e, g, d)
  BY <1>6, <1>7, <1>8, <1>9, <1>10, <1>11, <1>12 DEF Pending
<1> QED BY <1>5, <1>13 DEF e

\* An event that is read and leaves nothing to do.
LEMMA EventPassed ==
    ASSUME NEW r, NEW e, NEW g, NEW d, Pending(r, e, g, d),
           e.what \in {"metadata", "unmetadata", "info"}
    PROVE  Sound(r, g, d)
<1>1. Apart(r) /\ Ends(r, d)
  BY DEF Pending, Apart, Ends
<1>2. Presence(r, d) /\ Names(r, d)
  BY DEF Pending, Presence, Names
<1>3. Bound(r, d) /\ Current(r, g, d)
  BY DEF Pending, Bound, Current
<1> QED BY <1>1, <1>2, <1>3 DEF Pending, Sound

\* onGlobal, of a metadata object.
LEMMA MetadataSeen ==
    ASSUME NEW r, NEW e, NEW g, NEW d, Pending(r, e, g, d), e.what = "metadata"
    PROVE  OnGlobalMetadata(r) \in Audio /\ Sound(OnGlobalMetadata(r), g, d)
<1>1. CASE r.metadata
  BY <1>1, EventPassed DEF Pending, OnGlobalMetadata
<1>2. CASE ~r.metadata
  <2> DEFINE q == [r EXCEPT !.metadata = TRUE]
             b == Send(q, "metadata", None, NoReading)
             x == [what |-> "metadata", sink |-> None, props |-> NoReading]
  <2>1. /\ q \in Audio
        /\ q.loop = r.loop /\ q.metadata /\ q.known = r.known
        /\ q.wantedSink = r.wantedSink /\ q.sink = r.sink /\ q.reading = r.reading
        /\ q.linked = r.linked /\ q.listening = r.listening /\ q.subscribed = r.subscribed
        /\ q.calls = r.calls /\ q.queue = r.queue /\ q.binding = r.binding
        /\ q.wire = r.wire
    BY DEF Pending, Audio
  <2> HIDE DEF q
  <2>2. \A c \in Range(q.calls) : c.what # "metadata"
    BY <1>2, <2>1 DEF Pending
  <2>3. Sent(q, b, x)
    <3>1. Once(q.calls, Asks)
      BY <2>1 DEF Pending
    <3> QED BY <2>1, <2>2, <3>1, CallIsSent
  <2>4. x.what = "metadata"
    OBVIOUS
  <2>5. Sound(r, g, d)
    BY EventPassed
  <2> HIDE DEF b, x
  <2>6. Meant(b) /\ Apart(b) /\ Ends(b, d) /\ Releases(b)
    BY <2>1, <2>3, <2>4, <2>5 DEF Pending, Sent, Sound, Meant, Apart, Ends, Releases, Trouble
  <2>7. Presence(b, d) /\ Current(b, g, d) /\ Chained(b, g) /\ Returns(b, g)
    BY <2>1, <2>3, <2>5 DEF Sent, Sound, Presence, Current, Chained, Returns
  <2>8. Names(b, d)
    BY <1>2, <2>1, <2>3, <2>4, <2>5 DEF Sent, Sound, Names, Unasked
  <2>9. Bound(b, d)
    BY <2>1, <2>3, <2>4, <2>5 DEF Sent, Sound, Bound, Trouble
  <2> QED BY <1>2, <2>3, <2>6, <2>7, <2>8, <2>9 DEF Sent, Sound, OnGlobalMetadata, b, q
<1> QED BY <1>1, <1>2

\* onGlobal, of a sink.
LEMMA SinkSeen ==
    ASSUME NEW r, NEW e, NEW g, NEW d, Pending(r, e, g, d), e.what = "sink"
    PROVE  OnGlobalSink(r, e.sink) \in Audio /\ Sound(OnGlobalSink(r, e.sink), g, d)
<1> DEFINE s == e.sink
           q == [r EXCEPT !.known = @ \cup {s}]
<1>1. s \in Sinks /\ s # None
  BY BoundsAssumption DEF Pending
<1>2. /\ q \in Audio
      /\ q.loop = r.loop /\ q.metadata = r.metadata /\ q.known = r.known \cup {s}
      /\ q.wantedSink = r.wantedSink /\ q.sink = r.sink /\ q.reading = r.reading
      /\ q.linked = r.linked /\ q.listening = r.listening /\ q.subscribed = r.subscribed
      /\ q.calls = r.calls /\ q.queue = r.queue /\ q.binding = r.binding
      /\ q.wire = r.wire
  BY <1>1 DEF Pending, Audio
<1> HIDE DEF s, q
<1>3. ASSUME r.linked, NEW t \in Sinks
      PROVE  t \in d.present <=> Told(r.wire, t, q.known)
  <2>1. CASE t = s
    BY <1>2, <1>3, <2>1 DEF Pending, s
  <2>2. CASE t # s
    <3>1. Told(r.wire, t, q.known) <=> Told(r.wire, t, r.known)
      BY <1>2, <2>2 DEF Told
    <3> QED BY <1>3, <2>2, <3>1 DEF Pending, s
  <2> QED BY <2>1, <2>2
<1>4. CASE s = r.wantedSink /\ r.sink = None
  <2> DEFINE k == ReleaseSink(q)
             l == [k EXCEPT !.sink = s, !.binding = @ + 1]
             x == [what |-> "bind", sink |-> s, props |-> NoReading]
             b == Send(l, "bind", s, NoReading)
  <2>1. Released(q, k)
    BY <1>2, SinkReleased DEF Pending
  <2> HIDE DEF k
  <2>2. /\ l \in Audio
        /\ l.loop = k.loop /\ l.metadata = k.metadata /\ l.known = k.known
        /\ l.wantedSink = k.wantedSink /\ l.sink = s /\ l.reading = k.reading
        /\ l.linked = k.linked /\ l.listening = k.listening /\ l.subscribed = k.subscribed
        /\ l.calls = k.calls /\ l.queue = k.queue /\ l.wire = k.wire
    <3>1. k \in Audio
      BY <2>1 DEF Released
    <3>2. k.binding + 1 \in Nat /\ s \in Sinks \cup {None}
      BY <1>1, <3>1 DEF Audio
    <3> QED BY <3>1, <3>2 DEF Audio
  <2> HIDE DEF l
  <2>3. Sent(l, b, x)
    BY <1>1, <2>1, <2>2, CallIsSent DEF Released
  <2>4. x.what = "bind" /\ x.sink = s
    OBVIOUS
  <2>5. OnGlobalSink(r, s) = b
    BY <1>4 DEF OnGlobalSink, BindSink, q, k, l
  <2> HIDE DEF b, x
  <2>6. Meant(b) /\ Apart(b) /\ Ends(b, d)
    <3>1. Meant(b)
      BY <1>2, <2>1, <2>2, <2>3, <2>4 DEF Pending, Released, Sent, Meant
    <3>2. Trouble(r) => Trouble(b)
      BY <1>2, <2>1, <2>2, <2>3 DEF Released, Sent, Trouble, OfNode
    <3> QED BY <1>2, <2>1, <2>2, <2>3, <3>1, <3>2 DEF Pending, Released, Sent, Apart, Ends
  <2>7. Releases(b)
    BY <1>1, <1>2, <1>4, <2>1, <2>2, <2>3 DEF Pending, Released, Sent, Releases
  <2>8. Presence(b, d)
    BY <1>2, <1>3, <2>1, <2>2, <2>3 DEF Released, Sent, Presence
  <2>9. Names(b, d)
    BY <1>1, <1>2, <2>1, <2>2, <2>3, <2>4 DEF Pending, Released, Sent, Names, Unasked
  <2>10. Bound(b, d) /\ Current(b, g, d)
    BY <1>1, <1>2, <2>1, <2>2, <2>3, <2>4 DEF Released, Sent, Bound, Current
  <2>11. Chained(b, g)
    BY <1>1, <1>2, <1>4, <2>1, <2>2, <2>3 DEF Pending, Released, Sent, Chained
  <2>12. Returns(b, g)
    BY <1>2, <2>1, <2>2, <2>3 DEF Pending, Released, Sent, Returns
  <2> QED BY <2>3, <2>5, <2>6, <2>7, <2>8, <2>9, <2>10, <2>11, <2>12 DEF Sound, Sent, s
<1>5. CASE ~(s = r.wantedSink /\ r.sink = None)
  <2>1. OnGlobalSink(r, s) = q
    BY <1>5 DEF OnGlobalSink, q
  <2>2. Meant(q) /\ Apart(q) /\ Ends(q, d)
    BY <1>2 DEF Pending, Meant, Apart, Ends, Trouble
  <2>3. Releases(q)
    BY <1>1, <1>2, <1>5 DEF Pending, Releases
  <2>4. Presence(q, d)
    BY <1>2, <1>3 DEF Presence
  <2>5. Names(q, d)
    BY <1>2 DEF Pending, Names, Unasked
  <2>6. Bound(q, d) /\ Current(q, g, d)
    BY <1>2 DEF Pending, Bound, Current, Trouble
  <2>7. Chained(q, g) /\ Returns(q, g)
    BY <1>2 DEF Pending, Chained, Returns
  <2> QED BY <1>2, <2>1, <2>2, <2>3, <2>4, <2>5, <2>6, <2>7 DEF Sound, s
<1> QED BY <1>4, <1>5

\* onGlobalRemoved.
LEMMA SinkLost ==
    ASSUME NEW r, NEW e, NEW g, NEW d, Pending(r, e, g, d), e.what = "gone"
    PROVE  OnGlobalRemoved(r, e.sink) \in Audio /\ Sound(OnGlobalRemoved(r, e.sink), g, d)
<1> DEFINE s == e.sink
           q == [r EXCEPT !.known = @ \ {s}]
<1>1. s \in Sinks /\ s # None
  BY BoundsAssumption DEF Pending
<1>2. /\ q \in Audio
      /\ q.loop = r.loop /\ q.metadata = r.metadata /\ q.known = r.known \ {s}
      /\ q.wantedSink = r.wantedSink /\ q.sink = r.sink /\ q.reading = r.reading
      /\ q.linked = r.linked /\ q.listening = r.listening /\ q.subscribed = r.subscribed
      /\ q.calls = r.calls /\ q.queue = r.queue /\ q.binding = r.binding
      /\ q.wire = r.wire
  BY <1>1 DEF Pending, Audio
<1> HIDE DEF s, q
<1>3. ASSUME r.linked, NEW t \in Sinks
      PROVE  t \in d.present <=> Told(r.wire, t, q.known)
  <2>1. CASE t = s
    BY <1>2, <1>3, <2>1 DEF Pending, s
  <2>2. CASE t # s
    <3>1. Told(r.wire, t, q.known) <=> Told(r.wire, t, r.known)
      BY <1>2, <2>2 DEF Told
    <3> QED BY <1>3, <2>2, <3>1 DEF Pending, s
  <2> QED BY <2>1, <2>2
<1>4. CASE s = r.sink
  <2> DEFINE k == ReleaseSink(q)
             x == Now(k)
             b == Publish(k)
  <2>1. Released(q, k)
    BY <1>2, SinkReleased DEF Pending
  <2> HIDE DEF k
  <2>2. PostedBy(k, b, x) /\ x \in Post
    BY <2>1, ReadingIsPublished DEF Released
  <2>3. x.what = "reading" /\ x.reading = NoReading
    BY <2>1 DEF Now, Released
  <2>4. OnGlobalRemoved(r, s) = b
    BY <1>4 DEF OnGlobalRemoved, q, k
  <2> HIDE DEF b, x
  <2>5. Meant(b) /\ Apart(b) /\ Ends(b, d)
    <3>1. Meant(b)
      BY <1>2, <2>1, <2>2 DEF Pending, Released, PostedBy, Meant
    <3>2. Trouble(r) => Trouble(b)
      BY <1>2, <2>1, <2>2 DEF Released, PostedBy, Trouble, OfNode
    <3> QED BY <1>2, <2>1, <2>2, <3>1, <3>2 DEF Pending, Released, PostedBy, Apart, Ends
  <2>6. Releases(b)
    BY <1>1, <1>2, <1>4, <2>1, <2>2 DEF Pending, Released, PostedBy, Releases
  <2>7. Presence(b, d)
    BY <1>2, <1>3, <2>1, <2>2 DEF Released, PostedBy, Presence
  <2>8. Names(b, d)
    BY <1>1, <1>2, <2>1, <2>2 DEF Pending, Released, PostedBy, Names, Unasked
  <2>9. Bound(b, d) /\ Current(b, g, d)
    BY <1>1, <1>2, <2>1, <2>2 DEF Released, PostedBy, Bound, Current
  <2>10. Chained(b, g)
    BY <1>1, <1>2, <2>1, <2>2, <2>3 DEF Pending, Released, PostedBy, Chained, Same
  <2>11. Returns(b, g)
    BY <1>2, <2>1, <2>2 DEF Pending, Released, PostedBy, Returns
  <2> QED BY <2>2, <2>4, <2>5, <2>6, <2>7, <2>8, <2>9, <2>10, <2>11 DEF Sound, PostedBy, s
<1>5. CASE s # r.sink
  <2>1. OnGlobalRemoved(r, s) = q
    BY <1>5 DEF OnGlobalRemoved, q
  <2>2. Meant(q) /\ Apart(q) /\ Ends(q, d)
    BY <1>2 DEF Pending, Meant, Apart, Ends, Trouble
  <2>3. Releases(q)
    BY <1>1, <1>2, <1>5 DEF Pending, Releases
  <2>4. Presence(q, d)
    BY <1>2, <1>3 DEF Presence
  <2>5. Names(q, d)
    BY <1>2 DEF Pending, Names, Unasked
  <2>6. Bound(q, d) /\ Current(q, g, d)
    BY <1>2, <1>5 DEF Pending, Bound, Current, Trouble, s
  <2>7. Chained(q, g) /\ Returns(q, g)
    BY <1>2 DEF Pending, Chained, Returns
  <2> QED BY <1>2, <2>1, <2>2, <2>3, <2>4, <2>5, <2>6, <2>7 DEF Sound, s
<1> QED BY <1>4, <1>5

\* onMetadataProperty.
LEMMA DefaultSeen ==
    ASSUME NEW r, NEW e, NEW g, NEW d, Pending(r, e, g, d), e.what = "default"
    PROVE  /\ OnMetadataProperty(r, e.sink) \in Audio
           /\ Sound(OnMetadataProperty(r, e.sink), g, d)
<1> DEFINE s == e.sink
           q == [r EXCEPT !.wantedSink = s]
<1>1. s \in Sinks \cup {None} /\ r.metadata
  BY DEF Pending, Event
<1>2. /\ q \in Audio
      /\ q.loop = r.loop /\ q.metadata = r.metadata /\ q.known = r.known
      /\ q.wantedSink = s /\ q.sink = r.sink /\ q.reading = r.reading
      /\ q.linked = r.linked /\ q.listening = r.listening /\ q.subscribed = r.subscribed
      /\ q.calls = r.calls /\ q.queue = r.queue /\ q.binding = r.binding
      /\ q.wire = r.wire
  BY <1>1 DEF Pending, Audio
<1>3. r.known \subseteq Sinks
  BY DEF Pending, Audio
<1>4. \A c \in Range(r.calls) : c.what # "metadata"
  BY DEF Pending
<1> HIDE DEF s, q
<1>5. CASE s # None /\ s = r.wantedSink /\ r.sink # None
  <2>1. OnMetadataProperty(r, s) = r
    BY <1>5 DEF OnMetadataProperty
  <2>2. Apart(r) /\ Ends(r, d)
    BY DEF Pending, Apart, Ends
  <2>3. Presence(r, d) /\ Names(r, d)
    BY <1>1, <1>4, <1>5 DEF Pending, Presence, Names, s
  <2>4. Bound(r, d) /\ Current(r, g, d)
    BY DEF Pending, Bound, Current
  <2> QED BY <2>1, <2>2, <2>3, <2>4 DEF Pending, Sound, s
<1>6. CASE ~(s # None /\ s = r.wantedSink /\ r.sink # None)
  <2> DEFINE k == ReleaseSink(q)
             l == [k EXCEPT !.sink = s, !.binding = @ + 1]
             y == [what |-> "bind", sink |-> s, props |-> NoReading]
             m == IF s \in r.known THEN Send(l, "bind", s, NoReading) ELSE k
             x == Now(m)
             b == Publish(m)
  <2>1. Released(q, k)
    BY <1>2, SinkReleased DEF Pending
  <2>2. OnMetadataProperty(r, s) = b
    <3>1. CASE s = None
      <4>1. s \notin r.known
        BY <1>3, <3>1, BoundsAssumption
      <4> QED BY <3>1, <4>1 DEF OnMetadataProperty, q, k
    <3>2. CASE s # None
      BY <1>6, <3>2 DEF OnMetadataProperty, BindSink, q, k, l
    <3> QED BY <3>1, <3>2
  <2> HIDE DEF k
  <2>3. k \in Audio
    BY <2>1 DEF Released
  <2>4. /\ m \in Audio
        /\ m.loop = k.loop /\ m.metadata = k.metadata /\ m.known = k.known
        /\ m.wantedSink = k.wantedSink /\ m.sink = (IF s \in r.known THEN s ELSE None)
        /\ m.reading = NoReading
        /\ m.linked = k.linked /\ m.listening = k.listening /\ m.subscribed = None
        /\ m.queue = k.queue /\ m.wire = k.wire
        /\ Range(m.calls) = Range(k.calls) \cup (IF s \in r.known THEN {y} ELSE {})
        /\ Once(m.calls, Asks)
    <3>1. CASE s \in r.known
      <4>1. k.binding + 1 \in Nat /\ s \in Sinks
        BY <1>3, <2>3, <3>1 DEF Audio
      <4>2. /\ l \in Audio
            /\ l.loop = k.loop /\ l.metadata = k.metadata /\ l.known = k.known
            /\ l.wantedSink = k.wantedSink /\ l.sink = s /\ l.reading = k.reading
            /\ l.linked = k.linked /\ l.listening = k.listening /\ l.subscribed = k.subscribed
            /\ l.calls = k.calls /\ l.queue = k.queue /\ l.wire = k.wire
        BY <2>3, <4>1 DEF Audio
      <4> HIDE DEF l
      <4>3. Sent(l, Send(l, "bind", s, NoReading), y)
        BY <2>1, <4>1, <4>2, CallIsSent DEF Released
      <4> HIDE DEF y
      <4>4. Sent(l, m, y)
        BY <3>1, <4>3
      <4> HIDE DEF m
      <4> QED BY <2>1, <3>1, <4>2, <4>4 DEF Sent, Released
    <3>2. CASE s \notin r.known
      <4>1. m = k
        BY <3>2
      <4> HIDE DEF m
      <4> QED BY <2>1, <3>2, <4>1 DEF Released
    <3> QED BY <3>1, <3>2
  <2>5. y.what = "bind" /\ y.sink = s
    OBVIOUS
  <2> HIDE DEF m, y
  <2>6. PostedBy(m, b, x) /\ x \in Post
    BY <2>4, ReadingIsPublished
  <2>7. x.what = "reading" /\ x.reading = NoReading /\ x.sink = m.sink /\ x.binding = m.binding
    BY <2>4 DEF Now
  <2> HIDE DEF b, x
  <2>8. Meant(b) /\ Apart(b) /\ Ends(b, d)
    <3>1. Meant(b)
      <4>1. /\ \A f \in Range(b.wire) : f \in Range(r.wire)
            /\ \A c \in Range(b.calls) : c.what = "set" => c \in Range(r.calls)
        BY <1>2, <2>1, <2>4, <2>5, <2>6 DEF Released, PostedBy
      <4> QED BY <4>1 DEF Pending, Meant
    <3>2. Trouble(r) => Trouble(b)
      BY <1>2, <2>1, <2>4, <2>6 DEF Released, PostedBy, Trouble, OfNode
    <3> QED BY <1>1, <1>2, <2>1, <2>4, <2>6, <3>1, <3>2 DEF Pending, Released, PostedBy, Apart, Ends
  <2>9. Releases(b)
    BY <1>1, <1>2, <1>3, <2>1, <2>4, <2>6 DEF Pending, Released, PostedBy, Releases
  <2>10. Presence(b, d)
    BY <1>2, <2>1, <2>4, <2>6 DEF Pending, Released, PostedBy, Presence
  <2>11. Names(b, d)
    <3>1. \A c \in Range(b.calls) : c.what # "metadata"
      BY <1>2, <1>4, <2>1, <2>4, <2>5, <2>6 DEF Released, PostedBy
    <3>2. r.listening => d.metadata /\ Named(r.wire, s) = d.default
      BY DEF Pending, s
    <3>3. /\ b.metadata /\ Once(b.calls, Asks) /\ b.listening = r.listening /\ b.wantedSink = s
          /\ Named(b.wire, s) = Named(r.wire, s)
      BY <1>1, <1>2, <2>1, <2>4, <2>6 DEF Released, PostedBy
    <3> QED BY <3>1, <3>2, <3>3 DEF Names
  <2>12. Bound(b, d) /\ Current(b, g, d)
    <3>1. b.subscribed = None /\ b.sink = (IF s \in r.known THEN s ELSE None)
      BY <2>4, <2>6 DEF PostedBy
    <3>2. /\ \A c \in Range(b.calls) : c.what \in {"bind", "enum"} => c.sink = b.sink
          /\ b.sink # None => \E c \in Range(b.calls) : c.what = "bind"
      BY <2>1, <2>4, <2>5, <2>6, <3>1 DEF Released, PostedBy
    <3> QED BY <3>1, <3>2 DEF Bound, Current
  <2>13. Chained(b, g)
    BY <1>2, <2>1, <2>4, <2>6, <2>7 DEF Pending, Released, PostedBy, Chained, Same
  <2>14. Returns(b, g)
    BY <1>2, <2>1, <2>4, <2>6 DEF Pending, Released, PostedBy, Returns
  <2> QED BY <2>2, <2>6, <2>8, <2>9, <2>10, <2>11, <2>12, <2>13, <2>14 DEF Sound, PostedBy, s
<1> QED BY <1>5, <1>6

\* onNodeInfo.
LEMMA InfoSeen ==
    ASSUME NEW r, NEW e, NEW g, NEW d, Pending(r, e, g, d), e.what = "info"
    PROVE  OnNodeInfo(r) \in Audio /\ Sound(OnNodeInfo(r), g, d)
<1>1. Sound(r, g, d) /\ r \in Audio
  BY EventPassed DEF Pending
<1>2. CASE r.sink = None
  BY <1>1, <1>2 DEF OnNodeInfo
<1>3. CASE r.sink # None
  <2> DEFINE b == Send(r, "enum", r.sink, NoReading)
             x == [what |-> "enum", sink |-> r.sink, props |-> NoReading]
  <2>1. r.sink \in Sinks \cup {None} /\ Once(r.calls, Asks)
    BY <1>1 DEF Audio, Sound, Names
  <2>2. Sent(r, b, x)
    BY <1>1, <2>1, CallIsSent
  <2>3. x.what = "enum" /\ x.sink = r.sink
    OBVIOUS
  <2> HIDE DEF b, x
  <2>4. Meant(b) /\ Apart(b) /\ Ends(b, d) /\ Releases(b)
    BY <1>1, <2>2, <2>3 DEF Pending, Sent, Sound, Meant, Apart, Ends, Releases, Trouble
  <2>5. Presence(b, d) /\ Current(b, g, d) /\ Chained(b, g) /\ Returns(b, g)
    BY <1>1, <2>2 DEF Sent, Sound, Presence, Current, Chained, Returns
  <2>6. Names(b, d)
    BY <1>1, <2>2, <2>3 DEF Sent, Sound, Names, Unasked
  <2>7. Bound(b, d)
    BY <1>1, <2>2, <2>3 DEF Sent, Sound, Bound, Trouble
  <2> QED BY <1>3, <2>2, <2>4, <2>5, <2>6, <2>7 DEF Sent, Sound, OnNodeInfo, b
<1> QED BY <1>2, <1>3

\* onNodeParam.
LEMMA ParamSeen ==
    ASSUME NEW r, NEW e, NEW g, NEW d, Pending(r, e, g, d), e.what = "param"
    PROVE  OnNodeParam(r, e.props) \in Audio /\ Sound(OnNodeParam(r, e.props), g, d)
<1>1. e.props \in Props /\ r \in Audio
  BY DEF Pending
<1>2. CASE r.sink = None
  <2>1. OnNodeParam(r, e.props) = r
    BY <1>2 DEF OnNodeParam
  <2>2. Apart(r) /\ Ends(r, d)
    BY DEF Pending, Apart, Ends
  <2>3. Presence(r, d) /\ Names(r, d)
    BY DEF Pending, Presence, Names
  <2>4. r.subscribed = None
    BY <1>2 DEF Pending
  <2>5. Bound(r, d) /\ Current(r, g, d)
    BY <1>2, <2>4 DEF Pending, Bound, Current
  <2> QED BY <1>1, <2>1, <2>2, <2>3, <2>5 DEF Pending, Sound
<1>3. CASE r.sink # None
  <2> DEFINE q == [r EXCEPT !.reading = e.props]
             x == Now(q)
             b == Publish(q)
  <2>1. /\ q \in Audio
        /\ q.loop = r.loop /\ q.metadata = r.metadata /\ q.known = r.known
        /\ q.wantedSink = r.wantedSink /\ q.sink = r.sink /\ q.reading = e.props
        /\ q.linked = r.linked /\ q.listening = r.listening /\ q.subscribed = r.subscribed
        /\ q.calls = r.calls /\ q.queue = r.queue /\ q.binding = r.binding
        /\ q.wire = r.wire
    BY <1>1 DEF Audio
  <2>2. OnNodeParam(r, e.props) = b
    BY <1>3 DEF OnNodeParam
  <2> HIDE DEF q
  <2>3. PostedBy(q, b, x) /\ x \in Post
    BY <2>1, ReadingIsPublished
  <2>4. x.what = "reading" /\ x.reading = e.props /\ x.sink = r.sink /\ x.binding = r.binding
    BY <2>1 DEF Now
  <2> HIDE DEF b, x
  <2>5. Meant(b) /\ Apart(b) /\ Ends(b, d) /\ Releases(b)
    BY <1>3, <2>1, <2>3 DEF Pending, PostedBy, Meant, Apart, Ends, Releases, Trouble
  <2>6. Presence(b, d)
    BY <2>1, <2>3 DEF Pending, PostedBy, Presence
  <2>7. Names(b, d)
    BY <2>1, <2>3 DEF Pending, PostedBy, Names, Unasked
  <2>8. Bound(b, d)
    BY <2>1, <2>3 DEF Pending, PostedBy, Bound, Trouble
  <2>9. Current(b, g, d)
    BY <2>1, <2>3, <2>4 DEF Pending, PostedBy, Current
  <2>10. Chained(b, g)
    BY <1>3, <2>1, <2>3, <2>4 DEF Pending, PostedBy, Chained, Same
  <2>11. Returns(b, g)
    BY <2>1, <2>3 DEF Pending, PostedBy, Returns
  <2> QED BY <2>2, <2>3, <2>5, <2>6, <2>7, <2>8, <2>9, <2>10, <2>11 DEF Sound, PostedBy
<1> QED BY <1>2, <1>3

\* onCoreError.
LEMMA ErrorSeen ==
    ASSUME NEW r, NEW e, NEW g, NEW d, Pending(r, e, g, d), e.what = "error"
    PROVE  OnCoreError(r) \in Audio /\ Sound(OnCoreError(r), g, d)
<1> DEFINE x == [what |-> "reattach", sink |-> None, reading |-> NoReading, binding |-> r.binding]
           b == OnCoreError(r)
<1>1. x \in Post /\ x.what = "reattach" /\ r \in Audio
  BY DEF Pending, Audio, Post
<1>2. b = [r EXCEPT !.queue = Append(@, x)]
  BY DEF OnCoreError
<1> HIDE DEF x, b
<1>3. PostedBy(r, b, x)
  BY <1>1, <1>2, PostIsSent
<1>4. Meant(b) /\ Apart(b) /\ Ends(b, d) /\ Releases(b) /\ Trouble(b)
  BY <1>1, <1>3 DEF Pending, PostedBy, Meant, Apart, Ends, Releases, Trouble
<1>5. Presence(b, d)
  BY <1>3 DEF Pending, PostedBy, Presence
<1>6. Names(b, d)
  BY <1>3 DEF Pending, PostedBy, Names, Unasked
<1>7. Bound(b, d)
  BY <1>3, <1>4 DEF Pending, PostedBy, Bound
<1>8. Current(b, g, d)
  BY <1>1, <1>3 DEF Pending, PostedBy, Current
<1>9. Chained(b, g)
  BY <1>1, <1>3 DEF Pending, PostedBy, Chained
<1>10. Returns(b, g)
  BY <1>3 DEF Pending, PostedBy, Returns
<1> QED BY <1>3, <1>4, <1>5, <1>6, <1>7, <1>8, <1>9, <1>10 DEF Sound, PostedBy, b

\* Whatever the library dispatches.
LEMMA EventRead ==
    ASSUME NEW a \in Audio, NEW g \in Gui, NEW d \in Daemon, Sound(a, g, d), a.wire # <<>>
    PROVE  LET b == Dispatch([a EXCEPT !.wire = Tail(@)], Head(a.wire))
           IN  b \in Audio /\ Sound(b, g, d)
<1> DEFINE e == Head(a.wire)
           r == [a EXCEPT !.wire = Tail(@)]
<1>1. Pending(r, e, g, d)
  BY EventTaken
<1> HIDE DEF e, r
<1>2. e.what \in {"metadata", "unmetadata", "sink", "gone", "default", "info", "param", "error"}
  BY <1>1 DEF Pending, Event
<1>3. CASE e.what = "metadata"
  BY <1>1, <1>3, MetadataSeen DEF Dispatch, e, r
<1>4. CASE e.what = "unmetadata"
  <2>1. Dispatch(r, e) = r
    BY <1>4 DEF Dispatch
  <2>2. r \in Audio
    BY <1>1 DEF Pending
  <2>3. Sound(r, g, d)
    BY <1>1, <1>4, EventPassed
  <2> QED BY <2>1, <2>2, <2>3 DEF e, r
<1>5. CASE e.what = "sink"
  <2>1. Dispatch(r, e) = OnGlobalSink(r, e.sink)
    BY <1>5 DEF Dispatch
  <2> QED BY <1>1, <1>5, <2>1, SinkSeen DEF e, r
<1>6. CASE e.what = "gone"
  <2>1. Dispatch(r, e) = OnGlobalRemoved(r, e.sink)
    BY <1>6 DEF Dispatch
  <2> QED BY <1>1, <1>6, <2>1, SinkLost DEF e, r
<1>7. CASE e.what = "default"
  <2>1. Dispatch(r, e) = OnMetadataProperty(r, e.sink)
    BY <1>7 DEF Dispatch
  <2> QED BY <1>1, <1>7, <2>1, DefaultSeen DEF e, r
<1>8. CASE e.what = "info"
  <2>1. Dispatch(r, e) = OnNodeInfo(r)
    BY <1>8 DEF Dispatch
  <2> QED BY <1>1, <1>8, <2>1, InfoSeen DEF e, r
<1>9. CASE e.what = "param"
  <2>1. Dispatch(r, e) = OnNodeParam(r, e.props)
    BY <1>9 DEF Dispatch
  <2> QED BY <1>1, <1>9, <2>1, ParamSeen DEF e, r
<1>10. CASE e.what = "error"
  <2>1. Dispatch(r, e) = OnCoreError(r)
    BY <1>10 DEF Dispatch
  <2> QED BY <1>1, <1>10, <2>1, ErrorSeen DEF e, r
<1> QED BY <1>2, <1>3, <1>4, <1>5, <1>6, <1>7, <1>8, <1>9, <1>10

-----------------------------------------------------------------------------
(* What the daemon does.                                                     *)

\* b is a that is told x.
Grown(a, b, x) ==
    /\ b \in Audio
    /\ b.loop = a.loop /\ b.metadata = a.metadata /\ b.known = a.known
    /\ b.wantedSink = a.wantedSink /\ b.sink = a.sink /\ b.reading = a.reading
    /\ b.linked = a.linked /\ b.listening = a.listening /\ b.subscribed = a.subscribed
    /\ b.calls = a.calls /\ b.queue = a.queue /\ b.binding = a.binding
    /\ Range(b.wire) = Range(a.wire) \cup {x}
    /\ \A s, known : Told(b.wire, s, known)
                     <=> IF x \in About(s) THEN x.what = "sink" ELSE Told(a.wire, s, known)
    /\ \A name : Named(b.wire, name) = IF x.what = "default" THEN x.sink ELSE Named(a.wire, name)
    /\ \A reading : Heard(b.wire, reading)
                    = IF x.what = "param" THEN x.props ELSE Heard(a.wire, reading)

\* An event told is the only change, and is the last of its kind.
LEMMA EventIsSent ==
    ASSUME NEW a \in Audio, NEW x \in Event
    PROVE  Grown(a, Answered(a, <<x>>), x)
<1> DEFINE wire == Append(a.wire, x)
           b == [a EXCEPT !.wire = wire]
<1>1. a.wire \in Seq(Event)
  BY DEF Audio
<1>2. /\ wire \in Seq(Event) /\ Range(wire) = Range(a.wire) \cup {x}
      /\ \A s, known : Told(wire, s, known)
                       <=> IF x \in About(s) THEN x.what = "sink" ELSE Told(a.wire, s, known)
      /\ \A name : Named(wire, name) = IF x.what = "default" THEN x.sink ELSE Named(a.wire, name)
      /\ \A reading : Heard(wire, reading)
                      = IF x.what = "param" THEN x.props ELSE Heard(a.wire, reading)
  BY <1>1, Grows
<1>3. wire = a.wire \o <<x>>
  BY <1>1, AppendIsConcat
<1> HIDE DEF wire
<1>4. /\ b \in Audio
      /\ b.loop = a.loop /\ b.metadata = a.metadata /\ b.known = a.known
      /\ b.wantedSink = a.wantedSink /\ b.sink = a.sink /\ b.reading = a.reading
      /\ b.linked = a.linked /\ b.listening = a.listening /\ b.subscribed = a.subscribed
      /\ b.calls = a.calls /\ b.queue = a.queue /\ b.binding = a.binding
      /\ b.wire = wire
  BY <1>2 DEF Audio
<1>5. Answered(a, <<x>>) = b
  BY <1>3 DEF Answered
<1> HIDE DEF b
<1> QED BY <1>2, <1>4, <1>5 DEF Grown

\* Two events, and none.
LEMMA EventsAreSent ==
    ASSUME NEW a \in Audio, NEW x \in Event, NEW y \in Event
    PROVE  /\ Answered(a, <<>>) = a
           /\ Answered(a, <<>> \o <<y>>) = Answered(a, <<y>>)
           /\ Answered(a, <<x>> \o <<y>>) = Answered(Answered(a, <<x>>), <<y>>)
<1>1. a.wire \in Seq(Event) /\ <<x>> \in Seq(Event) /\ <<y>> \in Seq(Event)
  BY DEF Audio
<1>2. a.wire \o <<>> = a.wire /\ <<>> \o <<y>> = <<y>>
  BY <1>1, ConcatEmptySeq
<1>3. (a.wire \o <<x>>) \o <<y>> = a.wire \o (<<x>> \o <<y>>)
  BY <1>1, ConcatAssociative
<1>4. [a EXCEPT !.wire = a.wire] = a
  BY DEF Audio
<1>5. Answered(a, <<x>>).wire = a.wire \o <<x>>
  BY DEF Answered, Audio
<1>6. \A w, v : [[a EXCEPT !.wire = w] EXCEPT !.wire = v] = [a EXCEPT !.wire = v]
  BY DEF Audio
<1>7. Answered(Answered(a, <<x>>), <<y>>) = [a EXCEPT !.wire = (a.wire \o <<x>>) \o <<y>>]
  <2>1. Answered(a, <<x>>) = [a EXCEPT !.wire = a.wire \o <<x>>]
    BY DEF Answered
  <2>2. Answered(Answered(a, <<x>>), <<y>>)
        = [Answered(a, <<x>>) EXCEPT !.wire = Answered(a, <<x>>).wire \o <<y>>]
    BY DEF Answered
  <2> QED BY <1>5, <1>6, <2>1, <2>2
<1> QED BY <1>2, <1>3, <1>4, <1>7 DEF Answered

\* With no name given, none will be.
LEMMA NamedUnasked ==
    ASSUME NEW a \in Audio, Unasked(a), NEW name
    PROVE  Named(a.wire, name) = name
<1>1. \A e \in Range(a.wire) : e \notin OfKind("default")
  BY DEF Unasked, OfKind
<1>2. Latest(a.wire, OfKind("default"), What("default", name, NoReading))
      = What("default", name, NoReading)
  BY <1>1, LatestNone
<1> QED BY <1>2 DEF Named, What

\* The daemon that says no more than that something is there, or is not.
LEMMA PlainlyTold ==
    ASSUME NEW a, NEW b, NEW x, NEW g, NEW d, Sound(a, g, d), a.loop, Grown(a, b, x),
           x.what \in {"metadata", "unmetadata", "info", "error"}
    PROVE  Sound(b, g, d)
<1>1. Meant(b) /\ Apart(b) /\ Ends(b, d) /\ Releases(b)
  BY DEF Grown, Sound, Meant, Apart, Ends, Releases, Trouble
<1>2. Presence(b, d)
  BY DEF Grown, Sound, Presence, About
<1>3. Names(b, d)
  BY DEF Grown, Sound, Names, Unasked
<1>4. Bound(b, d) /\ Current(b, g, d)
  BY DEF Grown, Sound, Bound, Current, Trouble
<1>5. Chained(b, g) /\ Returns(b, g)
  BY DEF Grown, Sound, Chained, Returns
<1> QED BY <1>1, <1>2, <1>3, <1>4, <1>5 DEF Sound

\* The daemon that tells how the sink that is followed is now.
LEMMA PropsTold ==
    ASSUME NEW a, NEW b, NEW x, NEW g, NEW d, NEW c, Sound(a, g, d), a.loop,
           Grown(a, b, x), x.what = "param", x.props \in Props,
           c.up = d.up, c.present = d.present, c.metadata = d.metadata, c.default = d.default,
           a.subscribed # None => c.props[a.subscribed] = x.props
    PROVE  Sound(b, g, c)
<1>1. Meant(b) /\ Apart(b) /\ Ends(b, c) /\ Releases(b)
  BY DEF Grown, Sound, Meant, Apart, Ends, Releases, Trouble
<1>2. Presence(b, c)
  BY DEF Grown, Sound, Presence, About
<1>3. Names(b, c)
  BY DEF Grown, Sound, Names, Unasked
<1>4. Bound(b, c) /\ Current(b, g, c)
  BY DEF Grown, Sound, Bound, Current, Trouble
<1>5. Chained(b, g) /\ Returns(b, g)
  BY DEF Grown, Sound, Chained, Returns
<1> QED BY <1>1, <1>2, <1>3, <1>4, <1>5 DEF Sound

\* A change of a sink that is not followed.
LEMMA PropsUntold ==
    ASSUME NEW a, NEW g, NEW d, NEW c, Sound(a, g, d),
           c.up = d.up, c.present = d.present, c.metadata = d.metadata, c.default = d.default,
           a.subscribed # None => c.props[a.subscribed] = d.props[a.subscribed]
    PROVE  Sound(a, g, c)
<1>1. Ends(a, c) /\ Presence(a, c) /\ Names(a, c) /\ Bound(a, c)
  BY DEF Sound, Ends, Presence, Names, Bound
<1>2. Current(a, g, c)
  BY DEF Sound, Current
<1> QED BY <1>1, <1>2 DEF Sound

\* The shell that only has another adjusted, or other timers.
LEMMA ShellAlone ==
    ASSUME NEW a, NEW g, NEW h, NEW d, Sound(a, g, d), Returns(a, h),
           h.reading = g.reading, h.sink = g.sink, h.binding = g.binding, h.late = g.late
    PROVE  Sound(a, h, d)
<1>1. Shown(h) = Shown(g)
  BY DEF Shown
<1>2. Current(a, h, d) /\ Chained(a, h)
  BY <1>1 DEF Sound, Current, Chained
<1> QED BY <1>2 DEF Sound

\* The invariant when the daemon carries out c and r has the other calls.
Owed(r, c, g, d) ==
    /\ r \in Audio /\ c \in Call /\ r.linked /\ r.loop /\ d.up
    /\ Meant(r) /\ (c.what = "set" => c.props \in Props)
    /\ Releases(r) /\ Presence(r, d) /\ Current(r, g, d) /\ Chained(r, g) /\ Returns(r, g)
    /\ r.listening => d.metadata /\ Named(r.wire, r.wantedSink) = d.default
    /\ ~r.metadata => /\ Unasked(r) /\ c.what # "metadata"
                      /\ \A o \in Range(r.calls) : o.what # "metadata"
    /\ c.what = "metadata" => Unasked(r) /\ \A o \in Range(r.calls) : o.what # "metadata"
    /\ (\E o \in Range(r.calls) : o.what = "metadata") => Unasked(r)
    /\ Once(r.calls, Asks)
    /\ r.subscribed # None => r.subscribed = r.sink /\ r.sink \in d.present
    /\ r.sink # None /\ r.subscribed = None =>
           \/ Trouble(r) \/ c.what = "bind"
           \/ \E o \in Range(r.calls) : o.what = "bind"
           \/ \E e \in Range(r.wire) : e.what = "gone" /\ e.sink = r.sink
    /\ c.what \in {"bind", "enum"} => c.sink = r.sink
    /\ \A o \in Range(r.calls) : o.what \in {"bind", "enum"} => o.sink = r.sink

\* The invariant, stated of the call at the head and of what comes after it.
LEMMA CallIsTaken ==
    ASSUME NEW a \in Audio, NEW g \in Gui, NEW d \in Daemon, Sound(a, g, d), a.linked,
           a.calls # <<>>
    PROVE  /\ Owed([a EXCEPT !.calls = Tail(@)], Head(a.calls), g, d)
           /\ [a EXCEPT !.calls = Tail(@)].subscribed = a.subscribed
<1> DEFINE c == Head(a.calls)
           calls == Tail(a.calls)
           r == [a EXCEPT !.calls = calls]
<1>1. a.calls \in Seq(Call) /\ a.loop /\ d.up /\ Once(a.calls, Asks)
  BY DEF Audio, Sound, Ends, Names
<1>2. /\ c \in Call /\ calls \in Seq(Call)
      /\ Range(a.calls) = Range(calls) \cup {c}
      /\ Once(calls, Asks)
      /\ c.what = "metadata" => \A o \in Range(calls) : o.what # "metadata"
  BY <1>1, CallTaken
<1> HIDE DEF c, calls
<1>3. /\ r \in Audio
      /\ r.loop = a.loop /\ r.metadata = a.metadata /\ r.known = a.known
      /\ r.wantedSink = a.wantedSink /\ r.sink = a.sink /\ r.reading = a.reading
      /\ r.linked = a.linked /\ r.listening = a.listening /\ r.subscribed = a.subscribed
      /\ r.wire = a.wire /\ r.queue = a.queue /\ r.binding = a.binding
      /\ r.calls = calls
  BY <1>2 DEF Audio
<1>4. [a EXCEPT !.calls = Tail(@)] = r
  BY DEF calls
<1> HIDE DEF r
<1>5. /\ Meant(r) /\ (c.what = "set" => c.props \in Props)
      /\ Releases(r) /\ Presence(r, d) /\ Current(r, g, d) /\ Chained(r, g) /\ Returns(r, g)
  BY <1>2, <1>3 DEF Sound, Meant, Releases, Presence, Current, Chained, Returns
<1>6. /\ r.listening => d.metadata /\ Named(r.wire, r.wantedSink) = d.default
      /\ ~r.metadata => /\ Unasked(r) /\ c.what # "metadata"
                        /\ \A o \in Range(r.calls) : o.what # "metadata"
      /\ c.what = "metadata" => Unasked(r) /\ \A o \in Range(r.calls) : o.what # "metadata"
      /\ (\E o \in Range(r.calls) : o.what = "metadata") => Unasked(r)
      /\ Once(r.calls, Asks)
  BY <1>2, <1>3 DEF Sound, Names, Unasked
<1>7. /\ r.subscribed # None => r.subscribed = r.sink /\ r.sink \in d.present
      /\ r.sink # None /\ r.subscribed = None =>
             \/ Trouble(r) \/ c.what = "bind"
             \/ \E o \in Range(r.calls) : o.what = "bind"
             \/ \E e \in Range(r.wire) : e.what = "gone" /\ e.sink = r.sink
      /\ c.what \in {"bind", "enum"} => c.sink = r.sink
      /\ \A o \in Range(r.calls) : o.what \in {"bind", "enum"} => o.sink = r.sink
  BY <1>2, <1>3 DEF Sound, Bound, Trouble
<1>8. r \in Audio /\ c \in Call /\ r.linked /\ r.loop /\ d.up
  BY <1>1, <1>2, <1>3
<1>9. Owed(r, c, g, d)
  BY <1>5, <1>6, <1>7, <1>8 DEF Owed
<1> QED BY <1>3, <1>4, <1>9 DEF c

\* A call that leaves nothing to do.
LEMMA CallPassed ==
    ASSUME NEW r, NEW c, NEW g, NEW d, Owed(r, c, g, d), c.what \in {"enum", "dropped", "set"}
    PROVE  Sound(r, g, d)
<1>1. Apart(r) /\ Ends(r, d)
  BY DEF Owed, Apart, Ends
<1>2. Names(r, d)
  BY DEF Owed, Names
<1>3. Bound(r, d)
  BY DEF Owed, Bound
<1> QED BY <1>1, <1>2, <1>3 DEF Owed, Sound

\* The metadata object is bound, and tells its default.
LEMMA MetadataAnswered ==
    ASSUME NEW r, NEW c, NEW g, NEW d \in Daemon, Owed(r, c, g, d), c.what = "metadata", d.metadata
    PROVE  LET b == Answered([r EXCEPT !.listening = TRUE],
                             IF d.default = None THEN <<>>
                             ELSE <<What("default", d.default, NoReading)>>)
           IN  b \in Audio /\ Sound(b, g, d)
<1> DEFINE l == [r EXCEPT !.listening = TRUE]
           x == What("default", d.default, NoReading)
           b == Answered(l, IF d.default = None THEN <<>> ELSE <<x>>)
<1>1. /\ l \in Audio
      /\ l.loop = r.loop /\ l.metadata = r.metadata /\ l.known = r.known
      /\ l.wantedSink = r.wantedSink /\ l.sink = r.sink /\ l.reading = r.reading
      /\ l.linked = r.linked /\ l.listening /\ l.subscribed = r.subscribed
      /\ l.wire = r.wire /\ l.queue = r.queue /\ l.binding = r.binding
      /\ l.calls = r.calls
  BY DEF Owed, Audio
<1>2. x \in Event /\ x.what = "default" /\ x.sink = d.default
  BY DEF Daemon, Event, What
<1> HIDE DEF l, x
<1>3. /\ b \in Audio
      /\ b.loop = l.loop /\ b.metadata = l.metadata /\ b.known = l.known
      /\ b.wantedSink = l.wantedSink /\ b.sink = l.sink /\ b.reading = l.reading
      /\ b.linked = l.linked /\ b.listening = l.listening /\ b.subscribed = l.subscribed
      /\ b.calls = l.calls /\ b.queue = l.queue /\ b.binding = l.binding
      /\ Range(l.wire) \subseteq Range(b.wire) /\ Range(b.wire) \subseteq Range(l.wire) \cup {x}
      /\ \A s, known : Told(b.wire, s, known) <=> Told(l.wire, s, known)
      /\ Named(b.wire, l.wantedSink) = d.default
      /\ \A reading : Heard(b.wire, reading) = Heard(l.wire, reading)
  <2>1. CASE d.default = None
    <3>1. b = l
      BY <1>1, <1>2, <2>1, EventsAreSent
    <3>2. Unasked(r) /\ r \in Audio
      BY DEF Owed
    <3>3. Named(l.wire, l.wantedSink) = l.wantedSink /\ l.wantedSink = None
      BY <1>1, <3>2, NamedUnasked DEF Unasked
    <3> QED BY <1>1, <2>1, <3>1, <3>3
  <2>2. CASE d.default # None
    <3>1. b = Answered(l, <<x>>)
      BY <2>2
    <3> HIDE DEF b
    <3>2. Grown(l, b, x)
      BY <1>1, <1>2, <3>1, EventIsSent
    <3> QED BY <1>2, <3>2 DEF Grown, About
  <2> QED BY <2>1, <2>2
<1> HIDE DEF b
<1>4. Meant(b) /\ Apart(b) /\ Ends(b, d) /\ Releases(b)
  BY <1>1, <1>2, <1>3 DEF Owed, Meant, Apart, Ends, Releases
<1>5. Presence(b, d)
  BY <1>1, <1>3 DEF Owed, Presence
<1>6. Names(b, d)
  BY <1>1, <1>3 DEF Owed, Names
<1>7. Bound(b, d) /\ Current(b, g, d)
  BY <1>1, <1>3 DEF Owed, Bound, Current, Trouble
<1>8. Chained(b, g) /\ Returns(b, g)
  BY <1>1, <1>3 DEF Owed, Chained, Returns
<1> QED BY <1>3, <1>4, <1>5, <1>6, <1>7, <1>8 DEF Sound, b, l, x

\* The sink is bound, and its parameters are told.
LEMMA BindAnswered ==
    ASSUME NEW r, NEW c, NEW g, NEW d \in Daemon, Owed(r, c, g, d), c.what = "bind",
           c.sink \in d.present
    PROVE  LET b == Answered([r EXCEPT !.subscribed = c.sink],
                             <<What("param", c.sink, d.props[c.sink])>>)
           IN  b \in Audio /\ Sound(b, g, d)
<1> DEFINE l == [r EXCEPT !.subscribed = c.sink]
           x == What("param", c.sink, d.props[c.sink])
           b == Answered(l, <<x>>)
<1>1. c.sink \in Sinks /\ c.sink # None /\ c.sink = r.sink /\ d.props[c.sink] \in Props
  BY BoundsAssumption DEF Owed, Daemon
<1>2. /\ l \in Audio
      /\ l.loop = r.loop /\ l.metadata = r.metadata /\ l.known = r.known
      /\ l.wantedSink = r.wantedSink /\ l.sink = r.sink /\ l.reading = r.reading
      /\ l.linked = r.linked /\ l.listening = r.listening /\ l.subscribed = c.sink
      /\ l.wire = r.wire /\ l.queue = r.queue /\ l.binding = r.binding
      /\ l.calls = r.calls
  BY <1>1 DEF Owed, Audio
<1>3. x \in Event /\ x.what = "param" /\ x.sink = c.sink /\ x.props = d.props[c.sink]
  BY <1>1 DEF Event, What
<1> HIDE DEF l, x
<1>4. Grown(l, b, x)
  BY <1>2, <1>3, EventIsSent
<1> HIDE DEF b
<1>5. Meant(b) /\ Apart(b) /\ Ends(b, d) /\ Releases(b)
  BY <1>1, <1>2, <1>3, <1>4 DEF Grown, Owed, Meant, Apart, Ends, Releases
<1>6. Presence(b, d)
  BY <1>2, <1>3, <1>4 DEF Grown, Owed, Presence, About
<1>7. Names(b, d)
  BY <1>2, <1>3, <1>4 DEF Grown, Owed, Names, Unasked
<1>8. Bound(b, d) /\ Current(b, g, d)
  BY <1>1, <1>2, <1>3, <1>4 DEF Grown, Owed, Bound, Current
<1>9. Chained(b, g) /\ Returns(b, g)
  BY <1>2, <1>4 DEF Grown, Owed, Chained, Returns
<1> QED BY <1>4, <1>5, <1>6, <1>7, <1>8, <1>9 DEF Grown, Sound, b, l, x

\* The call that cannot be carried out.
LEMMA CallRefused ==
    ASSUME NEW r, NEW c, NEW g, NEW d, Owed(r, c, g, d)
    PROVE  Answered(r, <<Error>>) \in Audio /\ Sound(Answered(r, <<Error>>), g, d)
<1> DEFINE x == Error
           b == Answered(r, <<x>>)
<1>1. x \in Event /\ x.what = "error"
  BY DEF Event, What, Error
<1> HIDE DEF x
<1>2. Grown(r, b, x)
  BY <1>1, EventIsSent DEF Owed
<1> HIDE DEF b
<1>3. Trouble(b)
  BY <1>1, <1>2 DEF Grown, Trouble
<1>4. Meant(b) /\ Apart(b) /\ Ends(b, d) /\ Releases(b)
  BY <1>1, <1>2 DEF Grown, Owed, Meant, Apart, Ends, Releases
<1>5. Presence(b, d)
  BY <1>1, <1>2 DEF Grown, Owed, Presence, About
<1>6. Names(b, d)
  BY <1>1, <1>2 DEF Grown, Owed, Names, Unasked
<1>7. Bound(b, d) /\ Current(b, g, d)
  BY <1>1, <1>2, <1>3 DEF Grown, Owed, Bound, Current
<1>8. Chained(b, g) /\ Returns(b, g)
  BY <1>2 DEF Grown, Owed, Chained, Returns
<1> QED BY <1>2, <1>4, <1>5, <1>6, <1>7, <1>8 DEF Grown, Sound, b, x

\* The daemon stays a daemon when a sink's props move.
LEMMA PropsMoved ==
    ASSUME NEW d \in Daemon, NEW s \in Sinks, NEW p \in Props
    PROVE  LET c == [d EXCEPT !.props[s] = p]
           IN  /\ c \in Daemon
               /\ c.up = d.up /\ c.present = d.present /\ c.metadata = d.metadata
               /\ c.default = d.default /\ c.props[s] = p
               /\ \A t \in Sinks : t # s => c.props[t] = d.props[t]
BY DEF Daemon

\* Whatever the daemon answers to a call, or to one on an object that is gone.
LEMMA AnswerKeeps ==
    ASSUME IInv, AnswerCall
    PROVE  audio' \in Audio /\ daemon' \in Daemon /\ Sound(audio', gui, daemon')
<1> DEFINE call == Head(audio.calls)
           rest == [audio EXCEPT !.calls = Tail(@)]
           there == call.sink \in daemon.present
           told == IF there THEN <<What("param", call.sink, daemon.props[call.sink])>> ELSE <<>>
<1>1. audio \in Audio /\ gui \in Gui /\ daemon \in Daemon /\ Sound(audio, gui, daemon)
  BY DEF IInv, TypeOK
<1>2. Owed(rest, call, gui, daemon) /\ rest.subscribed = audio.subscribed
  BY <1>1, CallIsTaken DEF AnswerCall
<1>3. rest \in Audio /\ call.what \in {"metadata", "bind", "dropped", "enum", "set"}
  BY <1>2 DEF Owed, Call
<1>4. CASE call.what = "metadata" /\ daemon.metadata
  <2>1. /\ audio' = Answered([rest EXCEPT !.listening = TRUE],
                             IF daemon.default = None THEN <<>>
                             ELSE <<What("default", daemon.default, NoReading)>>)
        /\ daemon' = daemon
    BY <1>4 DEF AnswerCall
  <2> HIDE DEF rest, call
  <2> QED BY <1>1, <1>2, <1>4, <2>1, MetadataAnswered
<1>5. CASE call.what = "bind" /\ there
  <2>1. /\ audio' = Answered([rest EXCEPT !.subscribed = call.sink],
                             <<What("param", call.sink, daemon.props[call.sink])>>)
        /\ daemon' = daemon
    BY <1>5 DEF AnswerCall
  <2> HIDE DEF rest, call
  <2> QED BY <1>1, <1>2, <1>5, <2>1, BindAnswered
<1>6. CASE call.what = "enum" /\ there
  <2> DEFINE x == What("param", call.sink, daemon.props[call.sink])
             b == Answered(rest, <<x>>)
  <2>1. audio' = b /\ daemon' = daemon
    BY <1>6 DEF AnswerCall
  <2> HIDE DEF rest, call
  <2>2. call.sink \in Sinks /\ daemon.props[call.sink] \in Props
    BY <1>1, <1>6 DEF Daemon
  <2>3. x \in Event /\ x.what = "param" /\ x.props = daemon.props[call.sink]
    BY <2>2 DEF Event, What
  <2>4. Sound(rest, gui, daemon)
    BY <1>2, <1>6, CallPassed
  <2>5. rest.loop /\ (rest.subscribed # None => rest.subscribed = call.sink)
    BY <1>2, <1>6 DEF Owed
  <2> HIDE DEF x
  <2>6. Grown(rest, b, x)
    BY <1>3, <2>3, EventIsSent
  <2> HIDE DEF b
  <2>7. Sound(b, gui, daemon)
    BY <2>2, <2>3, <2>4, <2>5, <2>6, PropsTold
  <2>8. b \in Audio
    BY <2>6 DEF Grown
  <2> QED BY <1>1, <2>1, <2>7, <2>8
<1>7. CASE call.what = "dropped" /\ there
  <2>1. audio' = rest /\ daemon' = daemon
    BY <1>7 DEF AnswerCall
  <2> HIDE DEF rest, call
  <2> QED BY <1>1, <1>2, <1>3, <1>7, <2>1, CallPassed
<1>8. CASE call.what = "set" /\ there
  <2> DEFINE x == What("param", call.sink, call.props)
             b == Answered(rest, <<x>>)
             c == [daemon EXCEPT !.props[call.sink] = call.props]
  <2>1. /\ audio' = IF audio.subscribed # call.sink THEN rest ELSE b
        /\ daemon' = c
    BY <1>8 DEF AnswerCall
  <2> HIDE DEF rest, call
  <2>2. call.sink \in Sinks /\ call.props \in Props
    BY <1>1, <1>2, <1>8 DEF Daemon, Owed
  <2>3. /\ c \in Daemon
        /\ c.up = daemon.up /\ c.present = daemon.present /\ c.metadata = daemon.metadata
        /\ c.default = daemon.default /\ c.props[call.sink] = call.props
        /\ \A t \in Sinks : t # call.sink => c.props[t] = daemon.props[t]
    BY <1>1, <2>2, PropsMoved
  <2>4. x \in Event /\ x.what = "param" /\ x.props = call.props
    BY <2>2 DEF Event, What
  <2>5. Sound(rest, gui, daemon) /\ rest.loop
    BY <1>2, <1>8, CallPassed DEF Owed
  <2> HIDE DEF x, c
  <2>6. CASE rest.subscribed # call.sink
    <3>1. rest.subscribed # None => c.props[rest.subscribed] = daemon.props[rest.subscribed]
      BY <1>3, <2>3, <2>6 DEF Audio
    <3>2. Sound(rest, gui, c)
      BY <2>3, <2>5, <3>1, PropsUntold
    <3> QED BY <1>2, <1>3, <2>1, <2>3, <2>6, <3>2
  <2>7. CASE rest.subscribed = call.sink
    <3>1. Grown(rest, b, x)
      BY <1>3, <2>4, EventIsSent
    <3> HIDE DEF b
    <3>2. Sound(b, gui, c)
      BY <2>2, <2>3, <2>4, <2>5, <2>7, <3>1, PropsTold
    <3>3. b \in Audio
      BY <3>1 DEF Grown
    <3> QED BY <1>2, <2>1, <2>3, <2>7, <3>2, <3>3
  <2> QED BY <2>6, <2>7
<1>9. CASE /\ ~(call.what = "metadata" /\ daemon.metadata)
           /\ ~(call.what \in {"bind", "enum", "dropped", "set"} /\ there)
  <2>1. audio' = Answered(rest, <<Error>>) /\ daemon' = daemon
    BY <1>9 DEF AnswerCall
  <2> HIDE DEF rest, call
  <2> QED BY <1>1, <1>2, <2>1, CallRefused
<1> QED BY <1>3, <1>4, <1>5, <1>6, <1>7, <1>8, <1>9

\* Another program's change of a sink.
LEMMA OtherKeeps ==
    ASSUME IInv, OtherSetsProps
    PROVE  audio' \in Audio /\ daemon' \in Daemon /\ Sound(audio', gui, daemon')
<1>1. audio \in Audio /\ gui \in Gui /\ daemon \in Daemon /\ Sound(audio, gui, daemon)
  BY DEF IInv, TypeOK
<1>2. PICK s \in daemon.present, p \in Props, info \in BOOLEAN :
          /\ daemon' = [daemon EXCEPT !.props[s] = p]
          /\ audio' = IF audio.subscribed # s THEN audio
                      ELSE Answered(audio,
                               (IF info THEN <<What("info", s, NoReading)>> ELSE <<>>)
                                   \o <<What("param", s, p)>>)
  BY Zenon DEF OtherSetsProps
<1> DEFINE c == [daemon EXCEPT !.props[s] = p]
           x == What("info", s, NoReading)
           y == What("param", s, p)
<1>3. s \in Sinks /\ s # None
  BY <1>1, BoundsAssumption DEF Daemon
<1>4. /\ c \in Daemon
      /\ c.up = daemon.up /\ c.present = daemon.present /\ c.metadata = daemon.metadata
      /\ c.default = daemon.default /\ c.props[s] = p
      /\ \A t \in Sinks : t # s => c.props[t] = daemon.props[t]
  BY <1>1, <1>3, PropsMoved
<1>5. x \in Event /\ x.what = "info" /\ y \in Event /\ y.what = "param" /\ y.props = p
  BY <1>3 DEF Event, What
<1>6. daemon' = c
  BY <1>2
<1>7. audio' = IF audio.subscribed # s THEN audio
               ELSE Answered(audio, (IF info THEN <<x>> ELSE <<>>) \o <<y>>)
  BY <1>2
<1> HIDE DEF c, x, y
<1>8. CASE audio.subscribed # s
  <2>1. audio.subscribed # None => c.props[audio.subscribed] = daemon.props[audio.subscribed]
    BY <1>1, <1>4, <1>8 DEF Audio
  <2>2. Sound(audio, gui, c)
    BY <1>1, <1>4, <2>1, PropsUntold
  <2> QED BY <1>1, <1>4, <1>6, <1>7, <1>8, <2>2
<1>9. CASE audio.subscribed = s
  <2>1. audio.linked /\ audio.loop
    BY <1>1, <1>3, <1>9 DEF Sound, Releases, Ends
  <2>2. PICK a \in Audio : Sound(a, gui, daemon) /\ a.loop /\ a.subscribed = s
                           /\ audio' = Answered(a, <<y>>)
    <3>1. CASE info
      <4> DEFINE b == Answered(audio, <<x>>)
      <4>1. Grown(audio, b, x)
        BY <1>1, <1>5, EventIsSent
      <4>2. audio' = Answered(b, <<y>>)
        BY <1>1, <1>5, <1>7, <1>9, <3>1, EventsAreSent
      <4> HIDE DEF b
      <4>3. Sound(b, gui, daemon)
        BY <1>1, <1>5, <2>1, <4>1, PlainlyTold
      <4>4. b \in Audio /\ b.loop /\ b.subscribed = s
        BY <1>9, <2>1, <4>1 DEF Grown
      <4> QED BY <4>2, <4>3, <4>4
    <3>2. CASE ~info
      <4>1. audio' = Answered(audio, <<y>>)
        BY <1>1, <1>5, <1>7, <1>9, <3>2, EventsAreSent
      <4> QED BY <1>1, <1>9, <2>1, <4>1
    <3> QED BY <3>1, <3>2
  <2> DEFINE b == Answered(a, <<y>>)
  <2>3. Grown(a, b, y)
    BY <1>5, EventIsSent
  <2>4. audio' = b
    BY <2>2
  <2> HIDE DEF b
  <2>5. Sound(b, gui, c)
    BY <1>4, <1>5, <2>2, <2>3, PropsTold
  <2>6. b \in Audio
    BY <2>3 DEF Grown
  <2> QED BY <1>4, <1>6, <2>4, <2>5, <2>6
<1> QED BY <1>8, <1>9

\* A shell that is connected is told, another is not.
LEMMA TellIs ==
    ASSUME NEW a \in Audio, NEW x \in Event
    PROVE  /\ Tell(a, <<x>>) \in Audio
           /\ a.linked => Grown(a, Tell(a, <<x>>), x)
           /\ ~a.linked => Tell(a, <<x>>) = a
<1>1. Grown(a, Answered(a, <<x>>), x)
  BY EventIsSent
<1> QED BY <1>1 DEF Tell, Grown

\* A sink appears.
LEMMA SinkAppearsKeeps ==
    ASSUME IInv, SinkAppears
    PROVE  audio' \in Audio /\ daemon' \in Daemon /\ Sound(audio', gui, daemon')
<1>1. audio \in Audio /\ gui \in Gui /\ daemon \in Daemon /\ Sound(audio, gui, daemon)
  BY DEF IInv, TypeOK
<1>2. PICK s \in Sinks \ daemon.present :
          /\ daemon' = [daemon EXCEPT !.present = @ \cup {s}]
          /\ audio' = Tell(audio, <<What("sink", s, NoReading)>>)
  BY Zenon DEF SinkAppears
<1> DEFINE c == [daemon EXCEPT !.present = @ \cup {s}]
           x == What("sink", s, NoReading)
           b == Tell(audio, <<x>>)
<1>3. /\ c \in Daemon
      /\ c.up = daemon.up /\ c.present = daemon.present \cup {s} /\ c.metadata = daemon.metadata
      /\ c.default = daemon.default /\ c.props = daemon.props
  BY <1>1 DEF Daemon
<1>4. x \in Event /\ x.what = "sink" /\ x.sink = s
  BY DEF Event, What
<1>5. daemon' = c /\ audio' = b
  BY <1>2
<1> HIDE DEF c, x
<1>6. /\ b \in Audio
      /\ audio.linked => Grown(audio, b, x)
      /\ ~audio.linked => b = audio
  BY <1>1, <1>4, TellIs
<1> HIDE DEF b
<1>7. CASE ~audio.linked
  <2>1. Ends(audio, c) /\ Presence(audio, c) /\ Names(audio, c) /\ Bound(audio, c)
    BY <1>1, <1>3, <1>7 DEF Sound, Ends, Presence, Names, Bound
  <2>2. Current(audio, gui, c)
    BY <1>1, <1>3 DEF Sound, Current
  <2>3. Sound(audio, gui, c)
    BY <1>1, <2>1, <2>2 DEF Sound
  <2> QED BY <1>3, <1>5, <1>6, <1>7, <2>3
<1>8. CASE audio.linked
  <2>1. Grown(audio, b, x) /\ audio.loop
    BY <1>1, <1>6, <1>8 DEF Sound, Ends
  <2>2. Meant(b) /\ Apart(b) /\ Ends(b, c) /\ Releases(b)
    BY <1>1, <1>3, <1>4, <2>1 DEF Grown, Sound, Meant, Apart, Ends, Releases, Trouble
  <2>3. Presence(b, c)
    BY <1>1, <1>3, <1>4, <2>1 DEF Grown, Sound, Presence, About
  <2>4. Names(b, c)
    BY <1>1, <1>3, <1>4, <2>1 DEF Grown, Sound, Names, Unasked
  <2>5. Bound(b, c) /\ Current(b, gui, c)
    BY <1>1, <1>3, <1>4, <2>1 DEF Grown, Sound, Bound, Current, Trouble
  <2>6. Chained(b, gui) /\ Returns(b, gui)
    BY <1>1, <2>1 DEF Grown, Sound, Chained, Returns
  <2>7. Sound(b, gui, c)
    BY <2>2, <2>3, <2>4, <2>5, <2>6 DEF Sound
  <2> QED BY <1>3, <1>5, <1>6, <2>7
<1> QED BY <1>7, <1>8

\* A sink goes.
LEMMA SinkGoneKeeps ==
    ASSUME IInv, SinkGone
    PROVE  audio' \in Audio /\ daemon' \in Daemon /\ Sound(audio', gui, daemon')
<1>1. audio \in Audio /\ gui \in Gui /\ daemon \in Daemon /\ Sound(audio, gui, daemon)
  BY DEF IInv, TypeOK
<1>2. PICK s \in daemon.present :
          /\ daemon' = [daemon EXCEPT !.present = @ \ {s}]
          /\ audio' = Tell([audio EXCEPT !.subscribed = IF @ = s THEN None ELSE @],
                           <<What("gone", s, NoReading)>>)
  BY Zenon DEF SinkGone
<1> DEFINE c == [daemon EXCEPT !.present = @ \ {s}]
           x == What("gone", s, NoReading)
           l == [audio EXCEPT !.subscribed = IF @ = s THEN None ELSE @]
           b == Tell(l, <<x>>)
<1>3. /\ c \in Daemon
      /\ c.up = daemon.up /\ c.present = daemon.present \ {s} /\ c.metadata = daemon.metadata
      /\ c.default = daemon.default /\ c.props = daemon.props
  BY <1>1 DEF Daemon
<1>4. x \in Event /\ x.what = "gone" /\ x.sink = s /\ s \in Sinks /\ s # None
  BY <1>1, BoundsAssumption DEF Daemon, Event, What
<1>5. /\ l \in Audio
      /\ l.loop = audio.loop /\ l.metadata = audio.metadata /\ l.known = audio.known
      /\ l.wantedSink = audio.wantedSink /\ l.sink = audio.sink /\ l.reading = audio.reading
      /\ l.linked = audio.linked /\ l.listening = audio.listening
      /\ l.subscribed = (IF audio.subscribed = s THEN None ELSE audio.subscribed)
      /\ l.wire = audio.wire /\ l.queue = audio.queue /\ l.binding = audio.binding
      /\ l.calls = audio.calls
  BY <1>1 DEF Audio
<1>6. daemon' = c /\ audio' = b
  BY <1>2
<1> HIDE DEF c, x, l
<1>7. /\ b \in Audio
      /\ l.linked => Grown(l, b, x)
      /\ ~l.linked => b = l
  BY <1>4, <1>5, TellIs
<1> HIDE DEF b
<1>8. CASE ~audio.linked
  <2>1. b = l
    BY <1>5, <1>7, <1>8
  <2>2. Meant(l) /\ Apart(l) /\ Ends(l, c) /\ Releases(l)
    BY <1>1, <1>3, <1>5, <1>8 DEF Sound, Meant, Apart, Ends, Releases, Trouble
  <2>3. Presence(l, c)
    BY <1>5, <1>8 DEF Presence
  <2>4. Names(l, c)
    BY <1>1, <1>3, <1>5, <1>8 DEF Sound, Names, Unasked
  <2>5. audio.subscribed = None /\ l.subscribed = None
    BY <1>1, <1>5, <1>8 DEF Sound, Releases
  <2>6. Bound(l, c) /\ Current(l, gui, c)
    BY <1>1, <1>3, <1>5, <2>5 DEF Sound, Bound, Current, Trouble
  <2>7. Chained(l, gui) /\ Returns(l, gui)
    BY <1>1, <1>5 DEF Sound, Chained, Returns
  <2>8. Sound(l, gui, c)
    BY <2>2, <2>3, <2>4, <2>6, <2>7 DEF Sound
  <2> QED BY <1>3, <1>5, <1>6, <2>1, <2>8
<1>9. CASE audio.linked
  <2>1. Grown(l, b, x) /\ audio.loop
    BY <1>1, <1>5, <1>7, <1>9 DEF Sound, Ends
  <2>2. Meant(b) /\ Apart(b) /\ Ends(b, c) /\ Releases(b)
    BY <1>1, <1>3, <1>4, <1>5, <1>9, <2>1 DEF Grown, Sound, Meant, Apart, Ends, Releases
  <2>3. Presence(b, c)
    BY <1>1, <1>3, <1>4, <1>5, <2>1 DEF Grown, Sound, Presence, About
  <2>4. Names(b, c)
    BY <1>1, <1>3, <1>4, <1>5, <2>1 DEF Grown, Sound, Names, Unasked
  <2>5. Bound(b, c) /\ Current(b, gui, c)
    BY <1>1, <1>3, <1>4, <1>5, <2>1 DEF Grown, Sound, Bound, Current, Trouble
  <2>6. Chained(b, gui) /\ Returns(b, gui)
    BY <1>1, <1>5, <2>1 DEF Grown, Sound, Chained, Returns
  <2>7. Sound(b, gui, c)
    BY <2>2, <2>3, <2>4, <2>5, <2>6 DEF Sound
  <2> QED BY <1>3, <1>6, <1>7, <2>7
<1> QED BY <1>8, <1>9

\* The default changes.
LEMMA DefaultKeeps ==
    ASSUME IInv, DefaultChanges
    PROVE  audio' \in Audio /\ daemon' \in Daemon /\ Sound(audio', gui, daemon')
<1>1. audio \in Audio /\ gui \in Gui /\ daemon \in Daemon /\ Sound(audio, gui, daemon)
  BY DEF IInv, TypeOK
<1>2. PICK s \in (Sinks \cup {None}) \ {daemon.default} :
          /\ daemon' = [daemon EXCEPT !.default = s]
          /\ audio' = IF audio.listening
                      THEN Answered(audio, <<What("default", s, NoReading)>>) ELSE audio
  BY Zenon DEF DefaultChanges
<1> DEFINE c == [daemon EXCEPT !.default = s]
           x == What("default", s, NoReading)
           b == Answered(audio, <<x>>)
<1>3. /\ c \in Daemon
      /\ c.up = daemon.up /\ c.present = daemon.present /\ c.metadata = daemon.metadata
      /\ c.default = s /\ c.props = daemon.props
  BY <1>1 DEF Daemon
<1>4. x \in Event /\ x.what = "default" /\ x.sink = s
  BY DEF Event, What
<1>5. daemon' = c /\ audio' = IF audio.listening THEN b ELSE audio
  BY <1>2
<1> HIDE DEF c, x
<1>6. Grown(audio, b, x)
  BY <1>1, <1>4, EventIsSent
<1> HIDE DEF b
<1>7. CASE ~audio.listening
  <2>1. Ends(audio, c) /\ Presence(audio, c) /\ Names(audio, c) /\ Bound(audio, c)
    BY <1>1, <1>3, <1>7 DEF Sound, Ends, Presence, Names, Bound
  <2>2. Current(audio, gui, c)
    BY <1>1, <1>3 DEF Sound, Current
  <2>3. Sound(audio, gui, c)
    BY <1>1, <2>1, <2>2 DEF Sound
  <2> QED BY <1>1, <1>3, <1>5, <1>7, <2>3
<1>8. CASE audio.listening
  <2>1. audio.linked /\ audio.loop
    BY <1>1, <1>8 DEF Sound, Releases, Ends
  <2>2. Meant(b) /\ Apart(b) /\ Ends(b, c) /\ Releases(b)
    BY <1>1, <1>3, <1>4, <1>6, <2>1 DEF Grown, Sound, Meant, Apart, Ends, Releases
  <2>3. Presence(b, c)
    BY <1>1, <1>3, <1>4, <1>6 DEF Grown, Sound, Presence, About
  <2>4. Names(b, c)
    BY <1>1, <1>3, <1>4, <1>6, <1>8 DEF Grown, Sound, Names, Unasked
  <2>5. Bound(b, c) /\ Current(b, gui, c)
    BY <1>1, <1>3, <1>4, <1>6 DEF Grown, Sound, Bound, Current, Trouble
  <2>6. Chained(b, gui) /\ Returns(b, gui)
    BY <1>1, <1>6 DEF Grown, Sound, Chained, Returns
  <2>7. b \in Audio
    BY <1>6 DEF Grown
  <2>8. Sound(b, gui, c)
    BY <2>2, <2>3, <2>4, <2>5, <2>6 DEF Sound
  <2> QED BY <1>3, <1>5, <1>8, <2>7, <2>8
<1> QED BY <1>7, <1>8

\* WirePlumber goes.
LEMMA WirePlumberGoneKeeps ==
    ASSUME IInv, WirePlumberGone
    PROVE  audio' \in Audio /\ daemon' \in Daemon /\ Sound(audio', gui, daemon')
<1> DEFINE c == [daemon EXCEPT !.metadata = FALSE, !.default = None]
           x == What("unmetadata", None, NoReading)
           l == [audio EXCEPT !.listening = FALSE]
           b == Tell(l, <<x>>)
<1>1. audio \in Audio /\ gui \in Gui /\ daemon \in Daemon /\ Sound(audio, gui, daemon)
  BY DEF IInv, TypeOK
<1>2. daemon' = c /\ audio' = b
  BY DEF WirePlumberGone
<1>3. /\ c \in Daemon
      /\ c.up = daemon.up /\ c.present = daemon.present /\ c.props = daemon.props
  BY <1>1 DEF Daemon
<1>4. x \in Event /\ x.what = "unmetadata"
  BY DEF Event, What
<1>5. /\ l \in Audio
      /\ l.loop = audio.loop /\ l.metadata = audio.metadata /\ l.known = audio.known
      /\ l.wantedSink = audio.wantedSink /\ l.sink = audio.sink /\ l.reading = audio.reading
      /\ l.linked = audio.linked /\ ~l.listening /\ l.subscribed = audio.subscribed
      /\ l.wire = audio.wire /\ l.queue = audio.queue /\ l.binding = audio.binding
      /\ l.calls = audio.calls
  BY <1>1 DEF Audio
<1> HIDE DEF c, x, l
<1>6. /\ b \in Audio
      /\ l.linked => Grown(l, b, x)
      /\ ~l.linked => b = l
  BY <1>4, <1>5, TellIs
<1> HIDE DEF b
<1>7. Meant(l) /\ Apart(l) /\ Ends(l, c) /\ Releases(l)
  BY <1>1, <1>3, <1>5 DEF Sound, Meant, Apart, Ends, Releases, Trouble
<1>8. Presence(l, c)
  BY <1>1, <1>3, <1>5 DEF Sound, Presence
<1>9. Names(l, c)
  BY <1>1, <1>5 DEF Sound, Names, Unasked
<1>10. Bound(l, c) /\ Current(l, gui, c)
  BY <1>1, <1>3, <1>5 DEF Sound, Bound, Current, Trouble
<1>11. Chained(l, gui) /\ Returns(l, gui)
  BY <1>1, <1>5 DEF Sound, Chained, Returns
<1>12. Sound(l, gui, c)
  BY <1>7, <1>8, <1>9, <1>10, <1>11 DEF Sound
<1>13. l.linked => l.loop
  BY <1>12 DEF Sound, Ends
<1>14. Sound(b, gui, c)
  BY <1>4, <1>6, <1>12, <1>13, PlainlyTold
<1> QED BY <1>2, <1>3, <1>6, <1>14

\* WirePlumber comes back.
LEMMA WirePlumberComesKeeps ==
    ASSUME IInv, WirePlumberComes
    PROVE  audio' \in Audio /\ daemon' \in Daemon /\ Sound(audio', gui, daemon')
<1>1. audio \in Audio /\ gui \in Gui /\ daemon \in Daemon /\ Sound(audio, gui, daemon)
  BY DEF IInv, TypeOK
<1>2. PICK s \in Sinks \cup {None} : daemon' = [daemon EXCEPT !.metadata = TRUE, !.default = s]
  BY Zenon DEF WirePlumberComes
<1> DEFINE c == [daemon EXCEPT !.metadata = TRUE, !.default = s]
           x == What("metadata", None, NoReading)
           b == Tell(audio, <<x>>)
<1>3. /\ c \in Daemon
      /\ c.up = daemon.up /\ c.present = daemon.present /\ c.props = daemon.props
  BY <1>1 DEF Daemon
<1>4. x \in Event /\ x.what = "metadata"
  BY DEF Event, What
<1>5. daemon' = c /\ audio' = b /\ ~daemon.metadata
  BY <1>2 DEF WirePlumberComes
<1> HIDE DEF c, x
<1>6. /\ b \in Audio
      /\ audio.linked => Grown(audio, b, x)
      /\ ~audio.linked => b = audio
  BY <1>1, <1>4, TellIs
<1> HIDE DEF b
<1>7. ~audio.listening
  BY <1>1, <1>5 DEF Sound, Names
<1>8. Ends(audio, c) /\ Presence(audio, c) /\ Names(audio, c) /\ Bound(audio, c)
  BY <1>1, <1>3, <1>7 DEF Sound, Ends, Presence, Names, Bound
<1>9. Current(audio, gui, c)
  BY <1>1, <1>3 DEF Sound, Current
<1>10. Sound(audio, gui, c)
  BY <1>1, <1>8, <1>9 DEF Sound
<1>11. audio.linked => audio.loop
  BY <1>10 DEF Sound, Ends
<1>12. Sound(b, gui, c)
  BY <1>4, <1>6, <1>10, <1>11, PlainlyTold
<1> QED BY <1>3, <1>5, <1>6, <1>12

\* The daemon dies.
LEMMA DaemonDiesKeeps ==
    ASSUME IInv, DaemonDies
    PROVE  audio' \in Audio /\ daemon' \in Daemon /\ Sound(audio', gui, daemon')
<1> DEFINE c == [daemon EXCEPT !.up = FALSE, !.metadata = FALSE, !.default = None, !.present = {}]
           x == Error
           t == Tell(audio, <<x>>)
           b == [t EXCEPT !.calls = <<>>, !.linked = FALSE, !.listening = FALSE,
                          !.subscribed = None]
<1>1. audio \in Audio /\ gui \in Gui /\ daemon \in Daemon /\ Sound(audio, gui, daemon)
  BY DEF IInv, TypeOK
<1>2. daemon' = c /\ audio' = b
  BY DEF DaemonDies
<1>3. c \in Daemon
  BY <1>1 DEF Daemon
<1>4. x \in Event /\ x.what = "error"
  BY DEF Event, What, Error
<1> HIDE DEF c, x
<1>5. /\ t \in Audio
      /\ audio.linked => Grown(audio, t, x)
      /\ ~audio.linked => t = audio
  BY <1>1, <1>4, TellIs
<1> HIDE DEF t
<1>6. /\ b \in Audio
      /\ b.loop = t.loop /\ b.metadata = t.metadata /\ b.known = t.known
      /\ b.wantedSink = t.wantedSink /\ b.sink = t.sink /\ b.reading = t.reading
      /\ ~b.linked /\ ~b.listening /\ b.subscribed = None
      /\ b.wire = t.wire /\ b.queue = t.queue /\ b.binding = t.binding
      /\ b.calls = <<>>
  BY <1>5, EmptySeq DEF Audio
<1> HIDE DEF b
<1>7. Sound(t, gui, daemon)
  BY <1>1, <1>4, <1>5, PlainlyTold DEF Sound, Ends
<1>8. t.loop => Trouble(t)
  BY <1>1, <1>4, <1>5 DEF Grown, Sound, Ends, Trouble
<1>9. Trouble(t) => Trouble(b)
  BY <1>6 DEF Trouble
<1>10. Range(b.calls) = {} /\ Once(b.calls, Asks)
  <2>1. DOMAIN b.calls = {}
    BY <1>6, EmptySeq, LenProperties
  <2> QED BY <2>1 DEF Range, Once
<1>11. Meant(b) /\ Apart(b) /\ Ends(b, c) /\ Releases(b)
  BY <1>6, <1>7, <1>8, <1>9, <1>10 DEF Sound, Meant, Apart, Ends, Releases
<1>12. Presence(b, c) /\ Current(b, gui, c)
  BY <1>6 DEF Presence, Current
<1>13. Names(b, c)
  BY <1>6, <1>7, <1>10 DEF Sound, Names, Unasked
<1>14. Bound(b, c)
  BY <1>6, <1>7, <1>8, <1>9, <1>10 DEF Sound, Apart, Bound
<1>15. Chained(b, gui) /\ Returns(b, gui)
  BY <1>6, <1>7 DEF Sound, Chained, Returns
<1> QED BY <1>2, <1>3, <1>6, <1>11, <1>12, <1>13, <1>14, <1>15 DEF Sound

\* The daemon comes back.
LEMMA DaemonComesKeeps ==
    ASSUME IInv, DaemonComes
    PROVE  audio' \in Audio /\ daemon' \in Daemon /\ Sound(audio', gui, daemon')
<1>1. audio \in Audio /\ gui \in Gui /\ daemon \in Daemon /\ Sound(audio, gui, daemon)
  BY DEF IInv, TypeOK
<1>2. PICK running \in BOOLEAN, s \in Sinks \cup {None}, present \in SUBSET Sinks :
          daemon' = [daemon EXCEPT !.up = TRUE, !.metadata = running, !.default = s,
                                   !.present = present]
  BY Zenon DEF DaemonComes
<1>3. ~daemon.up /\ audio' = audio
  BY DEF DaemonComes
<1>4. daemon' \in Daemon /\ daemon'.up
  BY <1>1, <1>2 DEF Daemon
<1>5. ~audio.linked /\ ~audio.listening /\ audio.subscribed = None
  BY <1>1, <1>3 DEF Sound, Ends, Releases
<1>6. Ends(audio, daemon') /\ Presence(audio, daemon') /\ Current(audio, gui, daemon')
  BY <1>1, <1>4, <1>5 DEF Sound, Ends, Presence, Current
<1>7. Names(audio, daemon') /\ Bound(audio, daemon')
  BY <1>1, <1>5 DEF Sound, Names, Bound
<1>8. Sound(audio, gui, daemon')
  BY <1>1, <1>6, <1>7 DEF Sound
<1> QED BY <1>1, <1>3, <1>4, <1>8

-----------------------------------------------------------------------------
(* Attaching.                                                                *)

\* A finite set, listed.
LEMMA Listed ==
    ASSUME NEW S, IsFiniteSet(S)
    PROVE  SetToSeq(S) \in Seq(S) /\ Range(SetToSeq(S)) = S
<1> DEFINE n == Cardinality(S)
           f == SetToSeq(S)
<1>1. n \in Nat /\ ExistsBijection(1..n, S)
  BY FS_CardinalityType
<1>2. \E h \in [1..n -> S] : IsInjective(h)
  BY <1>1 DEF ExistsBijection, Bijection, Injection
<1>3. f \in [1..n -> S] /\ IsInjective(f)
  BY <1>2 DEF SetToSeq
<1> HIDE DEF f
<1>4. Cardinality(1..n) = n
  BY <1>1, FS_Interval
<1>5. f \in Injection(1..n, S)
  BY <1>3 DEF Injection
<1>6. f \in Surjection(1..n, S)
  BY <1>4, <1>5, FS_Injection
<1>7. \A x \in S : \E i \in 1..n : f[i] = x
  BY <1>6 DEF Surjection
<1>8. Range(f) = S
  BY <1>3, <1>7 DEF Range
<1>9. f \in Seq(S)
  BY <1>1, <1>3
<1> QED BY <1>8, <1>9 DEF f

\* What is in a sequence and the one after it.
LEMMA RangeConcat ==
    ASSUME NEW T, NEW s \in Seq(T), NEW t \in Seq(T)
    PROVE  s \o t \in Seq(T) /\ Range(s \o t) = Range(s) \cup Range(t)
<1> DEFINE u == s \o t
<1>1. /\ u \in Seq(T) /\ Len(u) = Len(s) + Len(t)
      /\ \A i \in 1..Len(s) + Len(t) : u[i] = IF i <= Len(s) THEN s[i] ELSE t[i - Len(s)]
  BY ConcatProperties
<1>2. /\ DOMAIN s = 1..Len(s) /\ DOMAIN t = 1..Len(t) /\ DOMAIN u = 1..Len(u)
      /\ Len(s) \in Nat /\ Len(t) \in Nat
  BY <1>1, LenProperties
<1> HIDE DEF u
<1>3. \A i \in DOMAIN u : \/ i \in DOMAIN s /\ u[i] = s[i]
                          \/ i - Len(s) \in DOMAIN t /\ u[i] = t[i - Len(s)]
  BY <1>1, <1>2
<1>4. \A i \in DOMAIN s : i \in DOMAIN u /\ u[i] = s[i]
  BY <1>1, <1>2
<1>5. \A i \in DOMAIN t : i + Len(s) \in DOMAIN u /\ u[i + Len(s)] = t[i]
  BY <1>1, <1>2
<1>6. Range(u) \subseteq Range(s) \cup Range(t)
  BY <1>3 DEF Range
<1>7. Range(s) \subseteq Range(u)
  BY <1>4 DEF Range
<1>8. Range(t) \subseteq Range(u)
  BY <1>5 DEF Range
<1> QED BY <1>1, <1>6, <1>7, <1>8 DEF u

\* The burst tells of all that is there and of nothing else.
LEMMA Burst ==
    ASSUME daemon \in Daemon, NEW burst \in Globals
    PROVE  /\ burst \in Seq(Event)
           /\ \A e \in Range(burst) : /\ e.what \in {"metadata", "sink"}
                                      /\ e.what = "sink" => e.sink \in daemon.present
           /\ \A s \in Sinks : s \in daemon.present <=> Told(burst, s, {})
<1> DEFINE m == What("metadata", None, NoReading)
           object == IF daemon.metadata THEN <<m>> ELSE <<>>
           list == SetToSeq(daemon.present)
           nodes == [i \in 1..Len(list) |-> What("sink", list[i], NoReading)]
<1>1. daemon.present \subseteq Sinks /\ IsFiniteSet(daemon.present)
  BY BoundsAssumption, FS_Subset DEF Daemon
<1>2. list \in Seq(daemon.present) /\ Range(list) = daemon.present
  BY <1>1, Listed
<1>3. burst = object \o nodes \/ burst = nodes \o object
  BY DEF Globals
<1> HIDE DEF list
<1>4. /\ DOMAIN list = 1..Len(list) /\ Len(list) \in Nat
      /\ \A i \in 1..Len(list) : list[i] \in daemon.present
  BY <1>2, LenProperties, ElementOfSeq
<1>5. m \in Event /\ m.what = "metadata"
  BY DEF Event, What
<1>6. \A s \in Sinks : /\ What("sink", s, NoReading) \in Event
                       /\ What("sink", s, NoReading).what = "sink"
                       /\ What("sink", s, NoReading).sink = s
  BY DEF Event, What
<1>7. nodes \in Seq(Event)
  BY <1>1, <1>4, <1>6, IsASeq
<1>8. DOMAIN nodes = 1..Len(list)
  OBVIOUS
<1>9. Range(nodes) = {What("sink", s, NoReading) : s \in daemon.present}
  <2>1. \A i \in 1..Len(list) : nodes[i] = What("sink", list[i], NoReading)
    OBVIOUS
  <2>2. \A s \in daemon.present : \E i \in 1..Len(list) : list[i] = s
    BY <1>2, <1>4 DEF Range
  <2> HIDE DEF nodes
  <2>3. \A e \in Range(nodes) : \E s \in daemon.present : e = What("sink", s, NoReading)
    BY <1>4, <1>8, <2>1 DEF Range
  <2>4. \A s \in daemon.present : What("sink", s, NoReading) \in Range(nodes)
    BY <1>8, <2>1, <2>2 DEF Range
  <2> QED BY <2>3, <2>4
<1> HIDE DEF nodes, m
<1>10. object \in Seq(Event) /\ \A e \in Range(object) : e = m
  <2>1. CASE daemon.metadata
    <3>1. <<m>> \in Seq(Event) /\ DOMAIN <<m>> = {1} /\ <<m>>[1] = m
      BY <1>5
    <3> QED BY <2>1, <3>1 DEF Range
  <2>2. CASE ~daemon.metadata
    <3>1. <<>> \in Seq(Event) /\ DOMAIN <<>> = {}
      BY EmptySeq, LenProperties
    <3> QED BY <2>2, <3>1 DEF Range
  <2> QED BY <2>1, <2>2
<1> HIDE DEF object
<1>11. burst \in Seq(Event) /\ Range(burst) = Range(object) \cup Range(nodes)
  <2>1. /\ object \o nodes \in Seq(Event)
        /\ Range(object \o nodes) = Range(object) \cup Range(nodes)
    BY <1>7, <1>10, RangeConcat
  <2>2. /\ nodes \o object \in Seq(Event)
        /\ Range(nodes \o object) = Range(nodes) \cup Range(object)
    BY <1>7, <1>10, RangeConcat
  <2> QED BY <1>3, <2>1, <2>2
<1>12. \A e \in Range(burst) : \/ e.what = "metadata"
                               \/ e.what = "sink" /\ e.sink \in daemon.present
  BY <1>1, <1>5, <1>6, <1>9, <1>10, <1>11
<1>13. ASSUME NEW s \in Sinks
       PROVE  s \in daemon.present <=> Told(burst, s, {})
  <2> DEFINE z == What("gone", s, NoReading)
             w == Latest(burst, About(s), z)
  <2>1. z.what = "gone"
    BY DEF What
  <2>2. Told(burst, s, {}) <=> w.what = "sink"
    BY DEF Told
  <2> HIDE DEF z
  <2>3. CASE s \in daemon.present
    <3>1. What("sink", s, NoReading) \in Range(burst) /\ What("sink", s, NoReading) \in About(s)
      BY <1>6, <1>9, <1>11, <2>3 DEF About
    <3>2. PICK i \in DOMAIN burst : burst[i] \in About(s)
      BY <3>1 DEF Range
    <3>3. w \in About(s) /\ w \in Range(burst)
      <4>1. \E k \in DOMAIN burst : burst[k] \in About(s) /\ w = burst[k]
        BY <1>11, <3>2, LatestWhere
      <4> QED BY <4>1 DEF Range
    <3>4. w.what \in {"sink", "gone"}
      BY <3>3 DEF About
    <3> HIDE DEF w
    <3>5. w.what = "sink"
      BY <1>12, <3>3, <3>4
    <3> QED BY <2>2, <2>3, <3>5 DEF w
  <2>4. CASE s \notin daemon.present
    <3>1. \A e \in Range(burst) : e \notin About(s)
      BY <1>12, <2>4 DEF About
    <3>2. w = z
      BY <3>1, LatestNone
    <3> QED BY <2>1, <2>2, <2>4, <3>2
  <2> QED BY <2>3, <2>4
<1> QED BY <1>11, <1>12, <1>13

-----------------------------------------------------------------------------
(* The GUI thread.                                                           *)

\* attach.
LEMMA AttachKeeps ==
    ASSUME IInv, ~audio.loop, NEW h \in Gui, Attach(h), h.wanted, h.timers < MaxTimers,
           h.reading = gui.reading, h.sink = gui.sink, h.binding = gui.binding, h.late = gui.late
    PROVE  /\ audio' \in Audio /\ gui' \in Gui /\ Sound(audio', gui', daemon)
           /\ gui'.adjusted = h.adjusted
<1>1. audio \in Audio /\ gui \in Gui /\ daemon \in Daemon /\ Sound(audio, gui, daemon)
  BY DEF IInv, TypeOK
<1>2. CASE daemon.up
  <2>1. PICK burst \in Globals :
            audio' = [audio EXCEPT !.loop = TRUE, !.linked = TRUE, !.wire = burst]
    BY <1>2, Zenon DEF Attach
  <2> DEFINE b == [audio EXCEPT !.loop = TRUE, !.linked = TRUE, !.wire = burst]
  <2>2. /\ burst \in Seq(Event)
        /\ \A e \in Range(burst) : /\ e.what \in {"metadata", "sink"}
                                   /\ e.what = "sink" => e.sink \in daemon.present
        /\ \A s \in Sinks : s \in daemon.present <=> Told(burst, s, {})
    BY <1>1, Burst
  <2>3. /\ b \in Audio
        /\ b.loop /\ b.metadata = audio.metadata /\ b.known = audio.known
        /\ b.wantedSink = audio.wantedSink /\ b.sink = audio.sink /\ b.reading = audio.reading
        /\ b.linked /\ b.listening = audio.listening /\ b.subscribed = audio.subscribed
        /\ b.wire = burst /\ b.queue = audio.queue /\ b.binding = audio.binding
        /\ b.calls = audio.calls
    BY <1>1, <2>2 DEF Audio
  <2>4. gui' = h
    BY <1>2 DEF Attach
  <2>5. /\ ~audio.metadata /\ audio.known = {} /\ audio.wantedSink = None /\ audio.sink = None
        /\ audio.reading = NoReading /\ ~audio.linked /\ ~audio.listening
        /\ audio.subscribed = None /\ audio.calls = <<>>
    BY <1>1 DEF Sound, Apart, Releases
  <2>6. Range(b.calls) = {} /\ Once(b.calls, Asks)
    <3>1. DOMAIN b.calls = {}
      BY <2>3, <2>5, EmptySeq, LenProperties
    <3> QED BY <3>1 DEF Range, Once
  <2> HIDE DEF b
  <2>7. Meant(b) /\ Apart(b) /\ Ends(b, daemon) /\ Releases(b)
    <3>1. daemon.present \subseteq Sinks
      BY <1>1 DEF Daemon
    <3>2. Meant(b)
      BY <2>2, <2>3, <2>6, <3>1 DEF Meant
    <3> QED BY <1>2, <2>3, <2>5, <3>2, BoundsAssumption DEF Apart, Ends, Releases
  <2>8. Presence(b, daemon)
    BY <2>2, <2>3, <2>5 DEF Presence
  <2>9. Names(b, daemon)
    BY <2>2, <2>3, <2>5, <2>6 DEF Names, Unasked
  <2>10. Bound(b, daemon) /\ Current(b, h, daemon)
    BY <2>3, <2>5, <2>6 DEF Bound, Current
  <2>11. Chained(b, h) /\ Returns(b, h)
    <3>1. Shown(h) = Shown(gui)
      BY DEF Shown
    <3> QED BY <1>1, <2>3, <2>5, <3>1 DEF Sound, Chained, Returns
  <2>12. Sound(b, h, daemon)
    BY <2>7, <2>8, <2>9, <2>10, <2>11 DEF Sound
  <2> QED BY <2>1, <2>3, <2>4, <2>12 DEF b
<1>3. CASE ~daemon.up
  <2> DEFINE k == [h EXCEPT !.timers = @ + 1]
  <2>1. audio' = audio /\ gui' = k
    BY <1>3 DEF Attach, RetryLater
  <2>2. /\ k \in Gui /\ k.timers > 0 /\ k.wanted
        /\ k.reading = h.reading /\ k.sink = h.sink /\ k.binding = h.binding /\ k.late = h.late
        /\ k.adjusted = h.adjusted
    BY BoundsAssumption DEF Gui
  <2> HIDE DEF k
  <2>3. Sound(audio, k, daemon)
    BY <1>1, <2>2, ShellAlone DEF Returns
  <2> QED BY <1>1, <2>1, <2>2, <2>3
<1> QED BY <1>2, <1>3

\* The shell that announces nothing.
LEMMA SilentIs ==
    ASSUME NEW g \in Gui
    PROVE  /\ Silent(g) \in Gui /\ ~Silent(g).adjusted
           /\ Silent(g).wanted = g.wanted /\ Silent(g).timers = g.timers
           /\ Silent(g).reading = g.reading /\ Silent(g).sink = g.sink
           /\ Silent(g).binding = g.binding /\ Silent(g).late = g.late
BY DEF Silent, Gui

\* start() attaches, or leaves a timer.
LEMMA StartKeeps ==
    ASSUME IInv, Start
    PROVE  audio' \in Audio /\ gui' \in Gui /\ Sound(audio', gui', daemon) /\ ~gui'.adjusted
<1> DEFINE q == Silent(gui)
           h == [q EXCEPT !.wanted = TRUE]
<1>1. audio \in Audio /\ gui \in Gui /\ daemon \in Daemon /\ Sound(audio, gui, daemon)
  BY DEF IInv, TypeOK
<1>2. /\ q \in Gui /\ ~q.adjusted /\ q.timers = gui.timers /\ q.reading = gui.reading
      /\ q.sink = gui.sink /\ q.binding = gui.binding /\ q.late = gui.late
  BY <1>1, SilentIs
<1>3. Attach(h) /\ ~gui.wanted /\ gui.timers < MaxTimers
  BY DEF Start
<1> HIDE DEF q
<1>4. /\ h \in Gui /\ h.wanted /\ ~h.adjusted /\ h.timers = q.timers /\ h.reading = q.reading
      /\ h.sink = q.sink /\ h.binding = q.binding /\ h.late = q.late
  BY <1>2 DEF Gui
<1> HIDE DEF h
<1>5. ~audio.loop
  BY <1>1, <1>3 DEF Sound, Returns
<1> QED BY <1>2, <1>3, <1>4, <1>5, AttachKeeps

\* A timer that fires attaches, or leaves another one.
LEMMA RetryKeeps ==
    ASSUME IInv, Retry
    PROVE  audio' \in Audio /\ gui' \in Gui /\ Sound(audio', gui', daemon) /\ ~gui'.adjusted
<1> DEFINE q == Silent(gui)
           h == [q EXCEPT !.timers = @ - 1]
<1>1. audio \in Audio /\ gui \in Gui /\ daemon \in Daemon /\ Sound(audio, gui, daemon)
  BY DEF IInv, TypeOK
<1>2. /\ q \in Gui /\ ~q.adjusted /\ q.timers = gui.timers /\ q.reading = gui.reading
      /\ q.sink = gui.sink /\ q.binding = gui.binding /\ q.late = gui.late
      /\ q.wanted = gui.wanted
  BY <1>1, SilentIs
<1>3. /\ gui.timers > 0
      /\ IF gui.wanted /\ ~audio.loop THEN Attach(h) ELSE gui' = h /\ audio' = audio
  BY DEF Retry
<1> HIDE DEF q
<1>4. /\ h \in Gui /\ ~h.adjusted /\ h.timers = q.timers - 1 /\ h.reading = q.reading
      /\ h.sink = q.sink /\ h.binding = q.binding /\ h.late = q.late /\ h.wanted = q.wanted
      /\ h.timers < MaxTimers
  BY <1>2, <1>3, BoundsAssumption DEF Gui
<1> HIDE DEF h
<1>5. CASE gui.wanted /\ ~audio.loop
  BY <1>2, <1>3, <1>4, <1>5, AttachKeeps
<1>6. CASE ~(gui.wanted /\ ~audio.loop)
  <2>1. Returns(audio, h)
    BY <1>1, <1>2, <1>4, <1>6 DEF Sound, Returns
  <2>2. Sound(audio, h, daemon)
    BY <1>1, <1>2, <1>4, <2>1, ShellAlone
  <2> QED BY <1>1, <1>3, <1>4, <1>6, <2>2
<1> QED BY <1>5, <1>6

\* detach.
LEMMA DetachIs ==
    ASSUME NEW a \in Audio
    PROVE  LET b == Detach(a)
           IN  /\ b \in Audio
               /\ ~b.loop /\ ~b.metadata /\ b.known = {} /\ b.wantedSink = None /\ b.sink = None
               /\ b.reading = NoReading /\ ~b.linked /\ ~b.listening /\ b.subscribed = None
               /\ b.wire = <<>> /\ b.calls = <<>> /\ b.queue = a.queue /\ b.binding = a.binding
BY EmptySeq DEF Detach, Audio

\* What is detached is sound, whatever the shell shows, if the readings posted say so.
LEMMA DetachedSound ==
    ASSUME NEW b, NEW h, NEW d,
           ~b.loop, ~b.metadata, b.known = {}, b.wantedSink = None, b.sink = None,
           b.reading = NoReading, ~b.linked, ~b.listening, b.subscribed = None,
           b.wire = <<>>, b.calls = <<>>, Chained(b, h), Returns(b, h)
    PROVE  Sound(b, h, d)
<1>1. Range(b.calls) = {} /\ Once(b.calls, Asks) /\ Range(b.wire) = {}
  <2>1. DOMAIN b.calls = {} /\ DOMAIN b.wire = {}
    BY EmptySeq, LenProperties
  <2> QED BY <2>1 DEF Range, Once
<1>2. Meant(b) /\ Apart(b) /\ Ends(b, d) /\ Releases(b)
  BY <1>1 DEF Meant, Apart, Ends, Releases
<1>3. Presence(b, d) /\ Names(b, d) /\ Bound(b, d) /\ Current(b, h, d)
  BY <1>1 DEF Presence, Names, Unasked, Bound, Current
<1> QED BY <1>2, <1>3 DEF Sound

\* stop() withdraws the reading; what was posted before only counts as late.
LEMMA StopKeeps ==
    ASSUME IInv, Stop
    PROVE  audio' \in Audio /\ gui' \in Gui /\ Sound(audio', gui', daemon) /\ ~gui'.adjusted
<1> DEFINE q == Silent(gui)
           k == [q EXCEPT !.wanted = FALSE]
           post == [sink |-> None, reading |-> NoReading, binding |-> audio.binding]
           l == ApplyReading(k, post)
           late == l.late \/ audio.queue # <<>>
           h == [l EXCEPT !.late = late]
           b == Detach(audio)
<1>1. audio \in Audio /\ gui \in Gui /\ daemon \in Daemon /\ Sound(audio, gui, daemon)
  BY DEF IInv, TypeOK
<1>2. audio' = b /\ gui' = h
  BY DEF Stop
<1>3. q \in Gui /\ ~q.adjusted
  BY <1>1, SilentIs
<1> HIDE DEF q
<1>4. k \in Gui /\ ~k.adjusted /\ ~k.wanted
  BY <1>3 DEF Gui
<1> HIDE DEF k
<1>5. /\ post.sink = None /\ post.reading = NoReading /\ post.binding \in Nat
  BY <1>1 DEF Audio
<1> HIDE DEF post
<1>6. l \in Gui /\ ~l.adjusted /\ ~l.wanted /\ l.reading = NoReading
  <2>1. CASE k.reading = NoReading
    BY <1>4, <1>5, <2>1 DEF ApplyReading
  <2>2. CASE k.reading # NoReading
    <3> DEFINE adjusted == /\ post.reading # NoReading /\ k.reading # NoReading
                           /\ post.sink = k.sink
    <3>1. l = [k EXCEPT !.adjusted = adjusted, !.sink = None, !.reading = NoReading,
                        !.binding = post.binding]
      BY <1>5, <2>2 DEF ApplyReading
    <3>2. adjusted = FALSE
      BY <1>5
    <3> HIDE DEF adjusted, l
    <3> QED BY <1>4, <1>5, <3>1, <3>2 DEF Gui
  <2> QED BY <2>1, <2>2
<1>7. late \in BOOLEAN /\ (~late => audio.queue = <<>>)
  BY <1>6 DEF Gui
<1> HIDE DEF l, late
<1>8. h \in Gui /\ ~h.adjusted /\ ~h.wanted /\ h.reading = NoReading /\ h.late = late
  BY <1>6, <1>7 DEF Gui
<1> HIDE DEF h
<1>9. /\ b \in Audio
      /\ ~b.loop /\ ~b.metadata /\ b.known = {} /\ b.wantedSink = None /\ b.sink = None
      /\ b.reading = NoReading /\ ~b.linked /\ ~b.listening /\ b.subscribed = None
      /\ b.wire = <<>> /\ b.calls = <<>> /\ b.queue = audio.queue
  BY <1>1, DetachIs
<1> HIDE DEF b
<1>10. Chained(b, h)
  <2>1. Shown(h).reading = NoReading
    BY <1>8 DEF Shown
  <2>2. Posted(<<>>, Shown(h)) = Shown(h) /\ Chain(<<>>, Shown(h))
    BY NothingPosted
  <2> QED BY <1>7, <1>8, <1>9, <2>1, <2>2 DEF Chained
<1>11. Returns(b, h)
  BY <1>8, <1>9 DEF Returns
<1>12. Sound(b, h, daemon)
  BY <1>9, <1>10, <1>11, DetachedSound
<1> QED BY <1>2, <1>8, <1>9, <1>12

\* One post taken from the queue.
LEMMA QueueTaken ==
    ASSUME NEW a \in Audio, a.queue # <<>>
    PROVE  LET b == [a EXCEPT !.queue = Tail(@)]
           IN  /\ b \in Audio
               /\ b.loop = a.loop /\ b.metadata = a.metadata /\ b.known = a.known
               /\ b.wantedSink = a.wantedSink /\ b.sink = a.sink /\ b.reading = a.reading
               /\ b.linked = a.linked /\ b.listening = a.listening
               /\ b.subscribed = a.subscribed /\ b.wire = a.wire /\ b.calls = a.calls
               /\ b.binding = a.binding /\ b.queue = Tail(a.queue)
<1>1. Tail(a.queue) \in Seq(Post)
  BY HeadTailProperties DEF Audio
<1> DEFINE queue == Tail(a.queue)
<1>2. queue \in Seq(Post)
  BY <1>1
<1> HIDE DEF queue
<1>3. LET b == [a EXCEPT !.queue = queue]
      IN  /\ b \in Audio
          /\ b.loop = a.loop /\ b.metadata = a.metadata /\ b.known = a.known
          /\ b.wantedSink = a.wantedSink /\ b.sink = a.sink /\ b.reading = a.reading
          /\ b.linked = a.linked /\ b.listening = a.listening
          /\ b.subscribed = a.subscribed /\ b.wire = a.wire /\ b.calls = a.calls
          /\ b.binding = a.binding /\ b.queue = queue
  BY <1>2 DEF Audio
<1> QED BY <1>3 DEF queue

\* applyReading: what QML shows is what was posted.
LEMMA Applied ==
    ASSUME NEW g \in Gui, NEW post \in Post
    PROVE  LET h == ApplyReading(g, post)
           IN  /\ h \in Gui /\ h.wanted = g.wanted /\ h.timers = g.timers /\ h.late = g.late
               /\ h.reading = post.reading
               /\ \/ post.reading = g.reading /\ h = g
                  \/ post.reading = NoReading /\ ~h.adjusted
                  \/ /\ h.sink = post.sink /\ h.binding = post.binding
                     /\ h.adjusted => post.reading # NoReading /\ g.reading # NoReading
<1> DEFINE adjusted == /\ post.reading # NoReading /\ g.reading # NoReading
                       /\ post.sink = g.sink
           sink == IF post.reading = NoReading THEN None ELSE post.sink
           h == [g EXCEPT !.adjusted = adjusted, !.sink = sink, !.reading = post.reading,
                          !.binding = post.binding]
<1>1. CASE post.reading = g.reading
  BY <1>1 DEF ApplyReading
<1>2. CASE post.reading # g.reading
  <2>1. ApplyReading(g, post) = h
    BY <1>2 DEF ApplyReading
  <2>2. adjusted \in BOOLEAN /\ (adjusted => post.reading # NoReading /\ g.reading # NoReading)
    OBVIOUS
  <2>3. /\ sink \in Sinks \cup {None} /\ (post.reading # NoReading => sink = post.sink)
        /\ post.reading \in Props \cup {NoReading} /\ post.binding \in Nat
    BY DEF Post
  <2> HIDE DEF adjusted, sink
  <2>4. /\ h \in Gui /\ h.wanted = g.wanted /\ h.timers = g.timers /\ h.late = g.late
        /\ h.reading = post.reading /\ h.sink = sink /\ h.binding = post.binding
        /\ h.adjusted = adjusted
    BY <2>2, <2>3 DEF Gui
  <2> HIDE DEF h
  <2> QED BY <2>1, <2>2, <2>3, <2>4
<1> QED BY <1>1, <1>2

\* A reading that arrives is shown, and announced only if its binding was shown before.
LEMMA ReadReadingKeeps ==
    ASSUME IInv, ReadReading
    PROVE  /\ audio' \in Audio /\ gui' \in Gui /\ Sound(audio', gui', daemon)
           /\ gui'.adjusted /\ ~gui.late => gui'.binding = gui.binding
<1> DEFINE post == Head(audio.queue)
           b == [audio EXCEPT !.queue = Tail(@)]
           q == Silent(gui)
           h == ApplyReading(q, post)
<1>1. audio \in Audio /\ gui \in Gui /\ daemon \in Daemon /\ Sound(audio, gui, daemon)
  BY DEF IInv, TypeOK
<1>2. audio' = b /\ gui' = h /\ audio.queue # <<>> /\ post.what = "reading"
  BY DEF ReadReading
<1>3. /\ q \in Gui /\ ~q.adjusted /\ q.timers = gui.timers /\ q.reading = gui.reading
      /\ q.sink = gui.sink /\ q.binding = gui.binding /\ q.late = gui.late
      /\ q.wanted = gui.wanted
  BY <1>1, SilentIs
<1> HIDE DEF q
<1>4. audio.queue \in Seq(Post)
  BY <1>1 DEF Audio
<1>5. /\ post \in Post /\ Tail(audio.queue) \in Seq(Post)
      /\ Range(audio.queue) = Range(Tail(audio.queue)) \cup {post}
      /\ Posted(audio.queue, Shown(gui)) = Posted(Tail(audio.queue), post)
      /\ Chain(audio.queue, Shown(gui)) => Same(Shown(gui), post) /\ Chain(Tail(audio.queue), post)
  BY <1>2, <1>4, PostTaken
<1>6. /\ b \in Audio
      /\ b.loop = audio.loop /\ b.metadata = audio.metadata /\ b.known = audio.known
      /\ b.wantedSink = audio.wantedSink /\ b.sink = audio.sink /\ b.reading = audio.reading
      /\ b.linked = audio.linked /\ b.listening = audio.listening
      /\ b.subscribed = audio.subscribed /\ b.wire = audio.wire /\ b.calls = audio.calls
      /\ b.binding = audio.binding /\ b.queue = Tail(audio.queue)
  BY <1>1, <1>2, QueueTaken
<1> HIDE DEF post, b
<1>7. /\ h \in Gui /\ h.wanted = q.wanted /\ h.timers = q.timers /\ h.late = q.late
      /\ h.reading = post.reading
      /\ \/ post.reading = q.reading /\ h = q
         \/ post.reading = NoReading /\ ~h.adjusted
         \/ /\ h.sink = post.sink /\ h.binding = post.binding
            /\ h.adjusted => post.reading # NoReading /\ q.reading # NoReading
  BY <1>3, <1>5, Applied
<1> HIDE DEF h
<1>8. /\ Shown(h).reading = h.reading /\ Shown(h).sink = h.sink /\ Shown(h).binding = h.binding
      /\ Shown(gui).reading = gui.reading /\ Shown(gui).sink = gui.sink
      /\ Shown(gui).binding = gui.binding
  BY DEF Shown
<1>9. Posted(b.queue, Shown(h)).reading = Posted(audio.queue, Shown(gui)).reading
  <2>1. \/ /\ Posted(Tail(audio.queue), post) = post
           /\ Posted(Tail(audio.queue), Shown(h)) = Shown(h)
        \/ Posted(Tail(audio.queue), post) = Posted(Tail(audio.queue), Shown(h))
    BY LatestFrom DEF Posted
  <2> QED BY <1>5, <1>6, <1>7, <1>8, <2>1
<1>10. ASSUME ~gui.late
       PROVE  /\ Chained(b, h)
              /\ h.adjusted => h.binding = gui.binding
  <2>1. /\ Chain(audio.queue, Shown(gui))
        /\ Posted(audio.queue, Shown(gui)).reading # NoReading =>
              /\ audio.sink # None /\ audio.sink = Posted(audio.queue, Shown(gui)).sink
              /\ audio.binding = Posted(audio.queue, Shown(gui)).binding
    BY <1>1, <1>10 DEF Sound, Chained
  <2>2. Same(Shown(gui), post) /\ Chain(Tail(audio.queue), post)
    BY <1>5, <2>1
  <2>3. \/ post.reading = NoReading /\ h.reading = NoReading
        \/ post.reading = h.reading /\ post.sink = h.sink /\ post.binding = h.binding
    BY <1>3, <1>7, <1>8, <2>2 DEF Same
  <2>4. /\ Chain(Tail(audio.queue), Shown(h))
        /\ Posted(Tail(audio.queue), post).reading = Posted(Tail(audio.queue), Shown(h)).reading
        /\ Posted(Tail(audio.queue), post).reading # NoReading =>
              /\ Posted(Tail(audio.queue), post).sink = Posted(Tail(audio.queue), Shown(h)).sink
              /\ Posted(Tail(audio.queue), post).binding
                 = Posted(Tail(audio.queue), Shown(h)).binding
    BY <1>8, <2>2, <2>3, ChainFrom
  <2>5. Chained(b, h)
    BY <1>5, <1>6, <2>1, <2>4 DEF Chained
  <2>6. h.adjusted => h.binding = gui.binding
    BY <1>3, <1>7, <1>8, <2>2 DEF Same
  <2> QED BY <2>5, <2>6
<1>11. Meant(b) /\ Apart(b) /\ Ends(b, daemon) /\ Releases(b)
  BY <1>1, <1>2, <1>5, <1>6 DEF Sound, Meant, Apart, Ends, Releases, Trouble
<1>12. Presence(b, daemon) /\ Names(b, daemon)
  BY <1>1, <1>6 DEF Sound, Presence, Names, Unasked
<1>13. Bound(b, daemon)
  BY <1>1, <1>2, <1>5, <1>6 DEF Sound, Bound, Trouble
<1>14. Current(b, h, daemon)
  BY <1>1, <1>6, <1>9 DEF Sound, Current
<1>15. Returns(b, h)
  BY <1>1, <1>3, <1>6, <1>7 DEF Sound, Returns
<1>16. Chained(b, h)
  BY <1>3, <1>7, <1>10 DEF Chained
<1>17. Sound(b, h, daemon)
  BY <1>11, <1>12, <1>13, <1>14, <1>15, <1>16 DEF Sound
<1> QED BY <1>2, <1>6, <1>7, <1>10, <1>17
\* The lambda of onCoreError: without a loop nothing, with one everything goes and a timer runs.
LEMMA ReattachKeeps ==
    ASSUME IInv, Reattach
    PROVE  audio' \in Audio /\ gui' \in Gui /\ Sound(audio', gui', daemon) /\ ~gui'.adjusted
<1> DEFINE r == [audio EXCEPT !.queue = Tail(@)]
           q == Silent(gui)
           b == Detach(r)
           c == Publish(b)
           h == [q EXCEPT !.timers = @ + 1]
<1>1. audio \in Audio /\ gui \in Gui /\ daemon \in Daemon /\ Sound(audio, gui, daemon)
  BY DEF IInv, TypeOK
<1>2. /\ audio.queue # <<>> /\ Head(audio.queue).what = "reattach"
      /\ IF ~audio.loop THEN audio' = r /\ gui' = q
         ELSE gui.timers < MaxTimers /\ audio' = c /\ gui' = RetryLater(q)
  BY DEF Reattach
<1>3. /\ q \in Gui /\ ~q.adjusted /\ q.timers = gui.timers /\ q.reading = gui.reading
      /\ q.sink = gui.sink /\ q.binding = gui.binding /\ q.late = gui.late
      /\ q.wanted = gui.wanted
  BY <1>1, SilentIs
<1> HIDE DEF q
<1>4. audio.queue \in Seq(Post)
  BY <1>1 DEF Audio
<1>5. /\ Posted(audio.queue, Shown(gui)) = Posted(Tail(audio.queue), Shown(gui))
      /\ Chain(audio.queue, Shown(gui)) => Chain(Tail(audio.queue), Shown(gui))
  BY <1>2, <1>4, PostTaken
<1>6. /\ r \in Audio
      /\ r.loop = audio.loop /\ r.metadata = audio.metadata /\ r.known = audio.known
      /\ r.wantedSink = audio.wantedSink /\ r.sink = audio.sink /\ r.reading = audio.reading
      /\ r.linked = audio.linked /\ r.listening = audio.listening
      /\ r.subscribed = audio.subscribed /\ r.wire = audio.wire /\ r.calls = audio.calls
      /\ r.binding = audio.binding /\ r.queue = Tail(audio.queue)
  BY <1>1, <1>2, QueueTaken
<1> HIDE DEF r
<1>7. Shown(q) = Shown(gui)
  BY <1>3 DEF Shown
<1>8. CASE ~audio.loop
  <2>1. /\ ~r.metadata /\ r.known = {} /\ r.wantedSink = None /\ r.sink = None
        /\ r.reading = NoReading /\ ~r.linked /\ ~r.listening /\ r.subscribed = None
        /\ r.wire = <<>> /\ r.calls = <<>> /\ ~r.loop
    BY <1>1, <1>6, <1>8 DEF Sound, Apart, Releases
  <2>2. Chained(r, q)
    BY <1>1, <1>3, <1>5, <1>6, <1>7 DEF Sound, Chained
  <2>3. Returns(r, q)
    BY <1>1, <1>3, <1>6 DEF Sound, Returns
  <2>4. Sound(r, q, daemon)
    BY <2>1, <2>2, <2>3, DetachedSound
  <2> QED BY <1>2, <1>3, <1>6, <1>8, <2>4
<1>9. CASE audio.loop
  <2>1. gui.wanted /\ gui.timers < MaxTimers /\ audio' = c /\ gui' = h
    BY <1>1, <1>2, <1>3, <1>9 DEF Sound, Returns, RetryLater
  <2>2. q.wanted /\ q.timers + 1 \in 0..MaxTimers /\ q.timers + 1 > 0
    BY <1>3, <2>1, BoundsAssumption DEF Gui
  <2>3. /\ h \in Gui /\ h.timers > 0 /\ h.wanted /\ ~h.adjusted /\ h.late = q.late
        /\ h.reading = q.reading /\ h.sink = q.sink /\ h.binding = q.binding
    BY <1>3, <2>2 DEF Gui
  <2> HIDE DEF h
  <2>4. /\ b \in Audio
        /\ ~b.loop /\ ~b.metadata /\ b.known = {} /\ b.wantedSink = None /\ b.sink = None
        /\ b.reading = NoReading /\ ~b.linked /\ ~b.listening /\ b.subscribed = None
        /\ b.wire = <<>> /\ b.calls = <<>> /\ b.queue = r.queue
    BY <1>6, DetachIs
  <2> HIDE DEF b
  <2>5. PostedBy(b, c, Now(b))
    BY <2>4, ReadingIsPublished
  <2>6. Now(b).what = "reading" /\ Now(b).reading = NoReading
    BY <2>4 DEF Now
  <2> HIDE DEF c
  <2>7. /\ c \in Audio
        /\ ~c.loop /\ ~c.metadata /\ c.known = {} /\ c.wantedSink = None /\ c.sink = None
        /\ c.reading = NoReading /\ ~c.linked /\ ~c.listening /\ c.subscribed = None
        /\ c.wire = <<>> /\ c.calls = <<>>
        /\ Posted(c.queue, Shown(h)).reading = NoReading
        /\ Chain(b.queue, Shown(h)) => Chain(c.queue, Shown(h))
    BY <2>4, <2>5, <2>6 DEF PostedBy, Same
  <2>8. Shown(h) = Shown(gui)
    BY <1>3, <2>3 DEF Shown
  <2>9. Chained(c, h)
    BY <1>1, <1>3, <1>5, <1>6, <2>3, <2>4, <2>7, <2>8 DEF Sound, Chained
  <2>10. Returns(c, h)
    BY <2>3, <2>7 DEF Returns
  <2>11. Sound(c, h, daemon)
    BY <2>7, <2>9, <2>10, DetachedSound
  <2> QED BY <2>1, <2>3, <2>7, <2>11
<1> QED BY <1>8, <1>9

\* What the GUI thread writes is recorded, whatever comes of the call.
LEMMA Recorded ==
    ASSUME NEW a \in Audio, NEW g, NEW d, Sound(a, g, d), a.sink # None, NEW p \in Props
    PROVE  LET b == [a EXCEPT !.reading = p]
           IN  /\ b \in Audio /\ b.sink = a.sink /\ b.calls = a.calls /\ b.linked = a.linked
               /\ Sound(b, g, d)
<1> DEFINE b == [a EXCEPT !.reading = p]
<1>1. /\ b \in Audio
      /\ b.loop = a.loop /\ b.metadata = a.metadata /\ b.known = a.known
      /\ b.wantedSink = a.wantedSink /\ b.sink = a.sink
      /\ b.linked = a.linked /\ b.listening = a.listening /\ b.subscribed = a.subscribed
      /\ b.wire = a.wire /\ b.calls = a.calls /\ b.queue = a.queue /\ b.binding = a.binding
  BY DEF Audio
<1> HIDE DEF b
<1>2. Meant(b) /\ Apart(b) /\ Ends(b, d) /\ Releases(b)
  BY <1>1 DEF Sound, Meant, Apart, Ends, Releases, Trouble
<1>3. Presence(b, d) /\ Names(b, d)
  BY <1>1 DEF Sound, Presence, Names, Unasked
<1>4. Bound(b, d) /\ Current(b, g, d)
  BY <1>1 DEF Sound, Bound, Current, Trouble
<1>5. Chained(b, g) /\ Returns(b, g)
  BY <1>1 DEF Sound, Chained, Returns
<1>6. Sound(b, g, d)
  BY <1>2, <1>3, <1>4, <1>5 DEF Sound
<1> QED BY <1>1, <1>6 DEF b

\* set_param: a write on its way changes nothing until the daemon has it.
LEMMA WriteIsSent ==
    ASSUME NEW a \in Audio, NEW g, NEW d, Sound(a, g, d), a.linked, NEW p \in Props
    PROVE  LET b == Send(a, "set", a.sink, p) IN b \in Audio /\ Sound(b, g, d)
<1> DEFINE b == Send(a, "set", a.sink, p)
           x == [what |-> "set", sink |-> a.sink, props |-> p]
<1>1. a.sink \in Sinks \cup {None} /\ Once(a.calls, Asks)
  BY DEF Audio, Sound, Names
<1>2. Sent(a, b, x)
  BY <1>1, CallIsSent
<1>3. x.what = "set" /\ x.props = p
  OBVIOUS
<1> HIDE DEF b, x
<1>4. a.loop
  BY DEF Sound, Ends
<1>5. Meant(b) /\ Apart(b) /\ Ends(b, d) /\ Releases(b)
  BY <1>2, <1>3, <1>4 DEF Sent, Sound, Meant, Apart, Ends, Releases, Trouble
<1>6. Presence(b, d) /\ Names(b, d)
  BY <1>2, <1>3 DEF Sent, Sound, Presence, Names, Unasked
<1>7. Bound(b, d) /\ Current(b, g, d)
  BY <1>2, <1>3 DEF Sent, Sound, Bound, Current, Trouble
<1>8. Chained(b, g) /\ Returns(b, g)
  BY <1>2 DEF Sent, Sound, Chained, Returns
<1>9. Sound(b, g, d)
  BY <1>5, <1>6, <1>7, <1>8 DEF Sound
<1> QED BY <1>2, <1>9 DEF Sent, b

\* A write from the GUI thread, taken or refused.
LEMMA WriteKeeps ==
    ASSUME IInv, HasReading, NEW p \in Props, Write(p)
    PROVE  audio' \in Audio /\ Sound(audio', gui, daemon)
<1> DEFINE recorded == [audio EXCEPT !.reading = p]
<1>1. audio \in Audio /\ Sound(audio, gui, daemon) /\ audio.sink # None
  BY DEF IInv, TypeOK, HasReading
<1>2. /\ recorded \in Audio /\ recorded.sink = audio.sink /\ recorded.linked = audio.linked
      /\ Sound(recorded, gui, daemon)
  BY <1>1, Recorded
<1>3. IF audio.linked THEN audio' = Send(recorded, "set", audio.sink, p)
      ELSE audio' \in {audio, recorded}
  BY DEF Write
<1> HIDE DEF recorded
<1>4. CASE audio.linked
  <2>1. /\ Send(recorded, "set", recorded.sink, p) \in Audio
        /\ Sound(Send(recorded, "set", recorded.sink, p), gui, daemon)
    BY <1>2, <1>4, WriteIsSent
  <2> QED BY <1>2, <1>3, <1>4, <2>1
<1>5. CASE ~audio.linked
  BY <1>1, <1>2, <1>3, <1>5
<1> QED BY <1>4, <1>5

\* The shell that is silent is as sound as before.
LEMMA SilenceKeeps ==
    ASSUME NEW a, NEW g \in Gui, NEW d, Sound(a, g, d)
    PROVE  Silent(g) \in Gui /\ Sound(a, Silent(g), d) /\ ~Silent(g).adjusted
<1> DEFINE q == Silent(g)
<1>1. /\ q \in Gui /\ ~q.adjusted /\ q.timers = g.timers /\ q.reading = g.reading
      /\ q.sink = g.sink /\ q.binding = g.binding /\ q.late = g.late /\ q.wanted = g.wanted
  BY SilentIs
<1> HIDE DEF q
<1>2. Returns(a, q)
  BY <1>1 DEF Sound, Returns
<1>3. Sound(a, q, d)
  BY <1>1, <1>2, ShellAlone
<1> QED BY <1>1, <1>3 DEF q

\* The volume and the mute that the GUI thread writes are a sink's.
LEMMA VolumeSteps ==
    ASSUME IInv, StepVolume \/ SetVolumePercent \/ ToggleMute
    PROVE  audio' \in Audio /\ Sound(audio', gui, daemon)
<1>1. audio.reading \in Props /\ HasReading
  BY DEF IInv, TypeOK, Audio, HasReading, StepVolume, SetVolumePercent, ToggleMute
<1>2. \A v \in 0..MaxVolume : [audio.reading EXCEPT !.volume = v] \in Props
  BY <1>1 DEF Props
<1>3. \A v \in Nat : Clamped(v) \in 0..MaxVolume
  BY BoundsAssumption DEF Clamped
<1>4. audio.reading.volume \in 0..MaxVolume
  BY <1>1 DEF Props
<1>5. CASE StepVolume
  <2>1. PICK next \in {Clamped(audio.reading.volume + 1),
                       IF audio.reading.volume = 0 THEN 0 ELSE audio.reading.volume - 1} :
            Write([audio.reading EXCEPT !.volume = next])
    BY <1>5, Zenon DEF StepVolume
  <2>2. audio.reading.volume + 1 \in Nat
    BY <1>4, BoundsAssumption
  <2>3. (IF audio.reading.volume = 0 THEN 0 ELSE audio.reading.volume - 1) \in 0..MaxVolume
    BY <1>4, BoundsAssumption
  <2>4. next \in 0..MaxVolume
    BY <1>3, <2>1, <2>2, <2>3
  <2> QED BY <1>1, <1>2, <2>1, <2>4, WriteKeeps
<1>6. CASE SetVolumePercent
  <2>1. PICK percent \in 0..MaxVolume + 1 :
            Write([audio.reading EXCEPT !.volume = Clamped(percent)])
    BY <1>6, Zenon DEF SetVolumePercent
  <2>2. Clamped(percent) \in 0..MaxVolume
    BY <1>3, <2>1, BoundsAssumption
  <2> QED BY <1>1, <1>2, <2>1, <2>2, WriteKeeps
<1>7. CASE ToggleMute
  <2> DEFINE muted == ~audio.reading.muted
             p == [audio.reading EXCEPT !.muted = muted]
  <2>1. Write(p)
    BY <1>7 DEF ToggleMute
  <2>2. muted \in BOOLEAN
    OBVIOUS
  <2> HIDE DEF muted
  <2>3. p \in Props
    BY <1>1, <2>2 DEF Props
  <2> HIDE DEF p
  <2> QED BY <1>1, <2>1, <2>3, WriteKeeps
<1> QED BY <1>5, <1>6, <1>7

-----------------------------------------------------------------------------
(* The theorems.                                                             *)

\* The invariant holds at the start: nothing is attached.
LEMMA InitInv == Init => IInv
<1> SUFFICES ASSUME Init PROVE IInv
  OBVIOUS
<1>1. audio \in Audio
  BY EmptySeq, <<>> \in Seq(Event), <<>> \in Seq(Call), <<>> \in Seq(Post) DEF Init, Idle, Audio
<1>2. gui \in Gui
  BY BoundsAssumption DEF Init, Gui
<1>3. budget \in [changes : 0..MaxChanges, gestures : 0..MaxGestures]
  BY BoundsAssumption DEF Init
<1>4. daemon \in Daemon
  <2>1. PICK up \in BOOLEAN, s \in Sinks :
            daemon = [up |-> up, metadata |-> up, default |-> IF up THEN s ELSE None,
                      present |-> IF up THEN Sinks ELSE {}, props |-> [t \in Sinks |-> Silence]]
    BY Zenon DEF Init
  <2>2. Silence \in Props
    BY BoundsAssumption DEF Silence, Props
  <2>3. [t \in Sinks |-> Silence] \in [Sinks -> Props]
    BY <2>2
  <2> QED BY <2>1, <2>3 DEF Daemon
<1>5. /\ ~audio.loop /\ ~audio.metadata /\ audio.known = {} /\ audio.wantedSink = None
      /\ audio.sink = None /\ audio.reading = NoReading /\ ~audio.linked /\ ~audio.listening
      /\ audio.subscribed = None /\ audio.wire = <<>> /\ audio.calls = <<>> /\ audio.queue = <<>>
  BY DEF Init, Idle
<1>6. Chained(audio, gui)
  <2>1. Shown(gui).reading = NoReading
    BY DEF Init, Shown
  <2> QED BY <1>5, <2>1, NothingPosted DEF Chained
<1>7. Returns(audio, gui)
  BY <1>5 DEF Init, Returns
<1>8. Sound(audio, gui, daemon)
  BY <1>5, <1>6, <1>7, DetachedSound
<1> QED BY <1>1, <1>2, <1>3, <1>4, <1>8 DEF IInv, TypeOK

\* The bounds count what happens.
LEMMA Counted ==
    ASSUME IInv, Next
    PROVE  budget' \in [changes : 0..MaxChanges, gestures : 0..MaxGestures]
<1>1. budget \in [changes : 0..MaxChanges, gestures : 0..MaxGestures]
  BY DEF IInv, TypeOK
<1>2. CASE Gesture
  BY <1>1, <1>2, BoundsAssumption DEF Gesture
<1>3. CASE Change
  BY <1>1, <1>3, BoundsAssumption DEF Change
<1>4. CASE budget' = budget
  BY <1>1, <1>4
<1>5. Gesture \/ Change \/ budget' = budget
  BY DEF Next, Start, Stop, Retry, ReadReading, Reattach, StepVolume, SetVolumePercent,
         ToggleMute, ReadEvent, AnswerCall, OtherSetsProps, SinkAppears, SinkGone,
         DefaultChanges, WirePlumberGone, WirePlumberComes, DaemonDies, DaemonComes
<1> QED BY <1>2, <1>3, <1>4, <1>5

\* A step that is of the daemon, the loop thread or a write announces nothing.
LEMMA SilentStep ==
    ASSUME IInv, gui' = Silent(gui), audio' \in Audio, daemon' \in Daemon,
           Sound(audio', gui, daemon'),
           budget' \in [changes : 0..MaxChanges, gestures : 0..MaxGestures]
    PROVE  IInv' /\ ~gui'.adjusted
<1>1. gui \in Gui
  BY DEF IInv, TypeOK
<1>2. gui' \in Gui /\ Sound(audio', gui', daemon') /\ ~gui'.adjusted
  BY <1>1, SilenceKeeps
<1> QED BY <1>2 DEF IInv, TypeOK

\* Every step keeps the invariant.
LEMMA NextInv ==
    ASSUME IInv, Next
    PROVE  IInv' /\ (gui'.adjusted /\ ~gui.late => gui'.binding = gui.binding)
<1>1. budget' \in [changes : 0..MaxChanges, gestures : 0..MaxGestures]
  BY Counted
<1>2. daemon \in Daemon /\ audio \in Audio /\ gui \in Gui /\ Sound(audio, gui, daemon)
  BY DEF IInv, TypeOK
<1>3. CASE Start
  <2>1. daemon' = daemon
    BY <1>3 DEF Start
  <2> QED BY <1>1, <1>2, <1>3, <2>1, StartKeeps DEF IInv, TypeOK
<1>4. CASE Stop
  <2>1. daemon' = daemon
    BY <1>4 DEF Stop
  <2> QED BY <1>1, <1>2, <1>4, <2>1, StopKeeps DEF IInv, TypeOK
<1>5. CASE Retry
  <2>1. daemon' = daemon
    BY <1>5 DEF Retry
  <2> QED BY <1>1, <1>2, <1>5, <2>1, RetryKeeps DEF IInv, TypeOK
<1>6. CASE ReadReading
  <2>1. daemon' = daemon
    BY <1>6 DEF ReadReading
  <2> QED BY <1>1, <1>2, <1>6, <2>1, ReadReadingKeeps DEF IInv, TypeOK
<1>7. CASE Reattach
  <2>1. daemon' = daemon
    BY <1>7 DEF Reattach
  <2> QED BY <1>1, <1>2, <1>7, <2>1, ReattachKeeps DEF IInv, TypeOK
<1>8. CASE StepVolume \/ SetVolumePercent \/ ToggleMute
  <2>1. daemon' = daemon /\ gui' = Silent(gui)
    BY <1>8 DEF StepVolume, SetVolumePercent, ToggleMute
  <2> QED BY <1>1, <1>2, <1>8, <2>1, VolumeSteps, SilentStep
<1>9. CASE ReadEvent
  <2>1. /\ daemon' = daemon /\ gui' = Silent(gui) /\ audio.wire # <<>>
        /\ audio' = Dispatch([audio EXCEPT !.wire = Tail(@)], Head(audio.wire))
    BY <1>9 DEF ReadEvent
  <2>2. audio' \in Audio /\ Sound(audio', gui, daemon)
    BY <1>2, <2>1, EventRead
  <2> QED BY <1>1, <1>2, <2>1, <2>2, SilentStep
<1>10. CASE AnswerCall
  BY <1>1, <1>10, AnswerKeeps, SilentStep DEF AnswerCall
<1>11. CASE OtherSetsProps
  BY <1>1, <1>11, OtherKeeps, SilentStep DEF OtherSetsProps, Change
<1>12. CASE SinkAppears
  BY <1>1, <1>12, SinkAppearsKeeps, SilentStep DEF SinkAppears, Change
<1>13. CASE SinkGone
  BY <1>1, <1>13, SinkGoneKeeps, SilentStep DEF SinkGone, Change
<1>14. CASE DefaultChanges
  BY <1>1, <1>14, DefaultKeeps, SilentStep DEF DefaultChanges, Change
<1>15. CASE WirePlumberGone
  BY <1>1, <1>15, WirePlumberGoneKeeps, SilentStep DEF WirePlumberGone, Change
<1>16. CASE WirePlumberComes
  BY <1>1, <1>16, WirePlumberComesKeeps, SilentStep DEF WirePlumberComes, Change
<1>17. CASE DaemonDies
  BY <1>1, <1>17, DaemonDiesKeeps, SilentStep DEF DaemonDies, Change
<1>18. CASE DaemonComes
  BY <1>1, <1>18, DaemonComesKeeps, SilentStep DEF DaemonComes, Change
<1> QED BY <1>3, <1>4, <1>5, <1>6, <1>7, <1>8, <1>9, <1>10, <1>11, <1>12, <1>13, <1>14,
           <1>15, <1>16, <1>17, <1>18 DEF Next

\* The invariant holds in every state, and no step announces what is bound anew.
LEMMA InductiveInvariant ==
    Spec => [][IInv /\ IInv' /\ (gui'.adjusted /\ ~gui.late => gui'.binding = gui.binding)]_vars
            /\ []IInv
<1>1. Init => IInv
  BY InitInv
<1>2. IInv /\ [Next]_vars => IInv'
  <2>1. ASSUME IInv, UNCHANGED vars PROVE IInv'
    BY <2>1 DEF vars, IInv, TypeOK, Sound, Meant, Apart, Ends, Releases, Presence, Names, Unasked,
                Bound, Current, Chained, Returns, Trouble
  <2> QED BY <2>1, NextInv
<1>3. IInv /\ [Next]_vars
      => [IInv /\ IInv' /\ (gui'.adjusted /\ ~gui.late => gui'.binding = gui.binding)]_vars
  BY NextInv
<1> QED BY <1>1, <1>2, <1>3, PTL DEF Spec

\* The types, and a lost connection that is on its way back: whenever the service is wanted it has
\* a connection, or a timer, or the error or the queued call that will set a timer, so that
\* onCoreError, attach and retryLater leave no state in which nothing brings the volume back.
THEOREM AlwaysWellFormed == Spec => []WellFormed
<1>1. IInv => WellFormed
  <2>1. SUFFICES ASSUME IInv PROVE NeverStranded
    BY DEF IInv, WellFormed
  <2>2. Ends(audio, daemon) /\ Returns(audio, gui)
    BY <2>1 DEF IInv, Sound
  <2> QED BY <2>2 DEF Ends, Returns, Trouble, NeverStranded
<1> QED BY <1>1, InductiveInvariant, PTL

\* Once everything has arrived QML shows the volume of the default sink, or none if there is no
\* such sink: for any number of sinks, in whatever order the registry, the metadata, the params,
\* the writes of the shell and of other programs, and the losses of the connection came.
THEOREM ReadingAlwaysTrue == Spec => []ReadingIsTrue
<1>1. IInv => ReadingIsTrue
  <2>1. SUFFICES ASSUME IInv, Rest, ~gui.late
                 PROVE  IF Followed \in daemon.present
                        THEN gui.reading = daemon.props[Followed] /\ gui.sink = Followed
                        ELSE gui.reading = NoReading
    BY DEF ReadingIsTrue
  <2>2. /\ audio \in Audio /\ gui \in Gui /\ daemon \in Daemon /\ Ends(audio, daemon)
        /\ Releases(audio) /\ Presence(audio, daemon) /\ Names(audio, daemon)
        /\ Bound(audio, daemon) /\ Current(audio, gui, daemon) /\ Chained(audio, gui)
    BY <2>1 DEF IInv, TypeOK, Sound
  <2>3. audio.loop /\ audio.wire = <<>> /\ audio.calls = <<>> /\ audio.queue = <<>>
    BY <2>1 DEF Rest
  <2>4. Range(audio.wire) = {} /\ Range(audio.calls) = {} /\ Range(audio.queue) = {}
    BY <2>2, <2>3, RangeEmpty DEF Audio
  <2>5. audio.linked
    BY <2>2, <2>3, <2>4 DEF Ends, Trouble
  <2>6. Posted(audio.queue, Shown(gui)) = Shown(gui)
    BY <2>3, NothingPosted
  <2>7. \A s \in Sinks : s \in daemon.present <=> s \in audio.known
    <3>1. ASSUME NEW s \in Sinks
          PROVE  Told(audio.wire, s, audio.known) <=> s \in audio.known
      <4>1. Latest(audio.wire, About(s),
                   What(IF s \in audio.known THEN "sink" ELSE "gone", s, NoReading))
            = What(IF s \in audio.known THEN "sink" ELSE "gone", s, NoReading)
        BY <2>4, LatestNone
      <4>2. What(IF s \in audio.known THEN "sink" ELSE "gone", s, NoReading).what
            = IF s \in audio.known THEN "sink" ELSE "gone"
        BY DEF What
      <4> QED BY <4>1, <4>2 DEF Told
    <3> QED BY <2>2, <2>5, <3>1 DEF Presence
  <2>8. Named(audio.wire, audio.wantedSink) = audio.wantedSink
    BY <2>4, LatestNone DEF Named, What
  <2>9. Heard(audio.wire, gui.reading) = gui.reading
    BY <2>4, LatestNone DEF Heard, What
  <2>10. Followed = audio.wantedSink
    BY <2>2, <2>8 DEF Followed, Names
  <2>11. Followed \in Sinks \cup {None} /\ daemon.present \subseteq Sinks /\ None \notin Sinks
    BY <2>2, BoundsAssumption DEF Followed, Audio, Daemon
  <2>12. audio.sink = IF Followed \in daemon.present THEN Followed ELSE None
    <3>1. audio.wantedSink \in audio.known <=> Followed \in daemon.present
      <4>1. audio.known \subseteq Sinks
        BY <2>2 DEF Audio
      <4> QED BY <2>7, <2>10, <2>11, <4>1
    <3> QED BY <2>2, <2>10, <3>1 DEF Releases
  <2>13. CASE Followed \in daemon.present
    <3>1. audio.sink = Followed /\ audio.sink # None
      BY <2>11, <2>12, <2>13
    <3>2. audio.subscribed = Followed
      BY <2>2, <2>4, <3>1 DEF Bound, Trouble
    <3>3. gui.reading = daemon.props[Followed]
      BY <2>2, <2>6, <2>9, <3>1, <3>2 DEF Current, Shown
    <3>4. gui.reading # NoReading
      <4>1. daemon.props[Followed] \in Props
        BY <2>2, <2>11, <2>13 DEF Daemon
      <4> QED BY <3>3, <4>1, NoReadingAssumption
    <3>5. gui.sink = Followed
      BY <2>1, <2>2, <2>6, <3>1, <3>4 DEF Chained, Shown
    <3> QED BY <2>13, <3>3, <3>5
  <2>14. CASE Followed \notin daemon.present
    <3>1. audio.sink = None
      BY <2>12, <2>14
    <3> QED BY <2>1, <2>2, <2>6, <2>14, <3>1 DEF Chained, Shown
  <2> QED BY <2>13, <2>14
<1> QED BY <1>1, InductiveInvariant, PTL

\* The display is raised only for a change of the binding that was shown already: a switch of the
\* default, a sink that comes back and a connection that is rebuilt are never announced as one.
THEOREM ChangesAlwaysAnnounced == Spec => OnlyChangesAnnounced
BY InductiveInvariant, PTL DEF OnlyChangesAnnounced
=============================================================================
