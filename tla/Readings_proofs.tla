--------------------------- MODULE Readings_proofs ---------------------------
(***************************************************************************)
(* The readings over D-Bus, for any objects, names and bounds: what each of *)
(* BatteryService, NetworkService and MediaService holds is well formed,    *)
(* what it draws is of one source, and whoever waits for a read has one     *)
(* that comes: in BatteryService, unless it waits since before the walk     *)
(* there now is.                                                            *)
(*                                                                         *)
(* First ObjectProperties: what the changes held back make of a read. The   *)
(* function AfterHeld builds is pinned down by the least number for which   *)
(* a statement about it fails, which takes the place of induction. Then     *)
(* queues, and for each service what every handler makes of its state,      *)
(* stated over a state, a queue and a daemon of any kind, so that the steps *)
(* of the specification only name the handler they take.                    *)
(*                                                                         *)
(* A reply of an earlier life of the daemon is told apart in three ways.    *)
(* Battery and Network: everything in the queue before the last word of a   *)
(* daemon's exit is of lives that are over (Lives). Media: the call or the  *)
(* answer about who holds a name is the only one (SoleAbout), and there is  *)
(* none any more once the name is known and has not changed hands.          *)
(*                                                                         *)
(* That a read comes is kept over two sequences, the calls and the queue: a *)
(* call gives way to an answer for whoever waited for it (WalkOf, Awaited,  *)
(* MediaWaits).                                                             *)
(***************************************************************************)
EXTENDS MCReadings, SequenceTheorems, NaturalsInduction, WellFoundedInduction, TLAPS

-----------------------------------------------------------------------------
(* What is known of an object. *)

\* A set of naturals that has an element has a least one: what takes the place of
\* induction, by the least number for which a statement fails.
LEMMA Least ==
    ASSUME NEW S, S \subseteq Nat, S # {}
    PROVE  \E m \in S : \A n \in S : m <= n
<1> DEFINE Below == {pair \in Nat \X Nat : pair[1] < pair[2]}
<1>1. IsWellFoundedOn(Below, Nat)
  BY NatLessThanWellFounded, Zenon DEF OpToRel
<1>2. \E m \in S : \A n \in S : <<n, m>> \notin Below
  <2> HIDE DEF Below
  <2> QED BY <1>1, WFMin
<1>3. \E m \in S : \A n \in S : ~(n < m)
  BY <1>2
<1> QED BY <1>3

\* f is what the first n changes held back make of fact, one after the other.
Follows(f, fact, held, n) ==
    f = [i \in 0..n |-> IF i = 0 THEN fact ELSE Merged(f[i - 1], held[i])]

\* There is such an f.
LEMMA FollowsExist ==
    ASSUME NEW fact, NEW held, NEW n \in Nat
    PROVE  \E f : Follows(f, fact, held, n)
<1> DEFINE Bad == {m \in Nat : ~\E f : Follows(f, fact, held, m)}
<1> SUFFICES ASSUME Bad # {}
             PROVE  FALSE
  OBVIOUS
<1>1. PICK m \in Bad : \A k \in Bad : m <= k
  <2>1. Bad \subseteq Nat
    OBVIOUS
  <2> HIDE DEF Bad
  <2> QED BY <2>1, Least
<1>2. m # 0
  <2> DEFINE g == [i \in 0..0 |-> fact]
  <2>1. Follows(g, fact, held, 0)
    BY DEF Follows
  <2> QED BY <2>1
<1>3. m \in Nat /\ m - 1 \in Nat /\ m - 1 \notin Bad
  <2>1. m \in Nat
    OBVIOUS
  <2> HIDE DEF Bad
  <2> QED BY <1>1, <1>2, <2>1
<1>4. PICK g : Follows(g, fact, held, m - 1)
  BY <1>3
<1> DEFINE h == [i \in 0..m |-> IF i = m THEN Merged(g[m - 1], held[m]) ELSE g[i]]
<1>5. ASSUME NEW i \in 0..m
      PROVE  h[i] = IF i = 0 THEN fact ELSE Merged(h[i - 1], held[i])
  <2>1. CASE i = 0
    BY <1>2, <1>3, <1>4, <2>1 DEF Follows
  <2>2. CASE i # 0 /\ i # m
    <3>1. i \in 0..m - 1 /\ i - 1 \in 0..m /\ i - 1 # m
      BY <1>3, <2>2
    <3>2. g[i] = Merged(g[i - 1], held[i])
      BY <1>4, <2>2, <3>1 DEF Follows
    <3>3. h[i] = g[i] /\ h[i - 1] = g[i - 1]
      BY <1>3, <2>2, <3>1
    <3> HIDE DEF h
    <3> QED BY <2>2, <3>2, <3>3
  <2>3. CASE i = m
    <3>1. m - 1 \in 0..m /\ m - 1 # m
      BY <1>2, <1>3
    <3>2. h[m] = Merged(g[m - 1], held[m]) /\ h[m - 1] = g[m - 1]
      BY <1>3, <3>1
    <3> HIDE DEF h
    <3> QED BY <1>2, <2>3, <3>2
  <2> QED BY <2>1, <2>2, <2>3
<1>6. Follows(h, fact, held, m)
  BY <1>5, Zenon DEF Follows
<1> QED BY <1>1, <1>6

\* f[i] is what the first i changes make of fact.
Built(f, fact, held, n) ==
    \A i \in 0..n : f[i] = IF i = 0 THEN fact ELSE Merged(f[i - 1], held[i])

\* Any two such functions agree as far as their changes do.
LEMMA BuiltAgree ==
    ASSUME NEW fact, NEW held, NEW other, NEW n \in Nat,
           NEW f, NEW g, Built(f, fact, held, n), Built(g, fact, other, n),
           \A i \in 1..n : held[i] = other[i]
    PROVE  f[n] = g[n]
<1> DEFINE Bad == {m \in 0..n : f[m] # g[m]}
<1>1. Bad = {}
  <2> SUFFICES ASSUME Bad # {}
               PROVE  FALSE
    OBVIOUS
  <2>1. PICK m \in Bad : \A i \in Bad : m <= i
    <3>1. Bad \subseteq Nat
      OBVIOUS
    <3> HIDE DEF Bad
    <3> QED BY <3>1, Least
  <2>2. m \in 0..n /\ f[m] # g[m]
    OBVIOUS
  <2>3. /\ f[m] = IF m = 0 THEN fact ELSE Merged(f[m - 1], held[m])
        /\ g[m] = IF m = 0 THEN fact ELSE Merged(g[m - 1], other[m])
    BY <2>2 DEF Built
  <2>4. m # 0
    BY <2>2, <2>3
  <2>5. m - 1 \in 0..n /\ m - 1 \notin Bad
    <3>1. m - 1 \in 0..n /\ ~(m <= m - 1)
      BY <2>2, <2>4
    <3> HIDE DEF Bad
    <3> QED BY <2>1, <3>1
  <2>6. f[m - 1] = g[m - 1] /\ held[m] = other[m]
    BY <2>2, <2>4, <2>5
  <2> QED BY <2>2, <2>3, <2>6
<1> QED BY <1>1

LEMMA AfterHeldIs ==
    ASSUME NEW fact, NEW held, Len(held) \in Nat
    PROVE  \E f : Built(f, fact, held, Len(held)) /\ AfterHeld(fact, held) = f[Len(held)]
<1> DEFINE f == CHOOSE f : Follows(f, fact, held, Len(held))
<1>1. Follows(f, fact, held, Len(held))
  BY FollowsExist, Zenon
<1>2. AfterHeld(fact, held) = f[Len(held)]
  BY Zenon DEF AfterHeld, Follows
<1> HIDE DEF f
<1>3. Built(f, fact, held, Len(held))
  BY <1>1 DEF Follows, Built
<1> QED BY <1>2, <1>3

\* Nothing held back leaves what was read, and what came last goes on last.
LEMMA AfterNothing ==
    ASSUME NEW fact
    PROVE  AfterHeld(fact, <<>>) = fact
<1>1. Len(<<>>) = 0
  OBVIOUS
<1>2. PICK f : Built(f, fact, <<>>, 0) /\ AfterHeld(fact, <<>>) = f[0]
  BY <1>1, AfterHeldIs
<1> QED BY <1>2 DEF Built

LEMMA AfterOneMore ==
    ASSUME NEW C, NEW fact, NEW held \in Seq(C), NEW change \in C
    PROVE  AfterHeld(fact, Append(held, change)) = Merged(AfterHeld(fact, held), change)
<1> DEFINE n == Len(held)
           more == Append(held, change)
<1>1. /\ n \in Nat /\ Len(more) = n + 1 /\ more[n + 1] = change
      /\ \A i \in 1..n : held[i] = more[i]
  BY AppendProperties, LenProperties
<1>2. PICK f : Built(f, fact, held, n) /\ AfterHeld(fact, held) = f[n]
  BY <1>1, AfterHeldIs
<1>3. PICK g : Built(g, fact, more, n + 1) /\ AfterHeld(fact, more) = g[n + 1]
  <2>1. Len(more) \in Nat
    BY <1>1
  <2>2. \E g : Built(g, fact, more, Len(more)) /\ AfterHeld(fact, more) = g[Len(more)]
    <3> HIDE DEF more
    <3> QED BY <2>1, AfterHeldIs
  <2> QED BY <1>1, <2>2
<1> HIDE DEF more, n
<1>4. Built(g, fact, more, n) /\ g[n + 1] = Merged(g[n], more[n + 1])
  BY <1>1, <1>3 DEF Built
<1>5. f[n] = g[n]
  BY <1>1, <1>2, <1>4, BuiltAgree
<1> QED BY <1>1, <1>2, <1>3, <1>4, <1>5 DEF more

-----------------------------------------------------------------------------
(* Queues. *)

\* q is s with e put at k.
Adds(s, q, k, e) ==
    /\ k \in 1..Len(s) + 1 /\ Len(q) = Len(s) + 1 /\ q[k] = e
    /\ \A i \in 1..k - 1 : q[i] = s[i]
    /\ \A i \in k..Len(s) : q[i + 1] = s[i]

\* q is s without its first.
Drops(s, q) == Len(q) = Len(s) - 1 /\ \A i \in 1..Len(q) : q[i] = s[i + 1]

LEMMA AppendAdds ==
    ASSUME NEW S, NEW s \in Seq(S), NEW e \in S
    PROVE  Append(s, e) \in Seq(S) /\ Adds(s, Append(s, e), Len(s) + 1, e)
<1>1. Len(s) \in Nat
  BY LenProperties
<1> DEFINE q == Append(s, e)
<1>2. q \in Seq(S) /\ Len(q) = Len(s) + 1 /\ q[Len(s) + 1] = e
      /\ \A i \in 1..Len(s) : q[i] = s[i]
  BY AppendProperties
<1> HIDE DEF q
<1>3. Adds(s, q, Len(s) + 1, e)
  BY <1>1, <1>2 DEF Adds
<1> QED BY <1>2, <1>3 DEF q

LEMMA OvertakeAdds ==
    ASSUME NEW S, NEW s \in Seq(S), NEW e \in S, s # <<>>
    PROVE  /\ Front(s) \o <<e, Last(s)>> \in Seq(S)
           /\ Adds(s, Front(s) \o <<e, Last(s)>>, Len(s), e)
<1>1. Len(s) \in Nat \ {0} /\ \A i \in 1..Len(s) : s[i] \in S
  BY LenProperties, EmptySeq, ElementOfSeq
<1> DEFINE a == SubSeq(s, 1, Len(s) - 1)
           b == <<e, s[Len(s)]>>
           q == a \o b
<1>2. a \in Seq(S) /\ Len(a) = Len(s) - 1 /\ \A i \in 1..Len(s) - 1 : a[i] = s[i]
  <2> HIDE DEF b, q
  <2>1. PICK n \in Nat : n = Len(s) - 1
    BY <1>1
  <2>2. \A i \in 1..n : s[i] \in S
    BY <1>1, <2>1
  <2>3. SubSeq(s, 1, n) \in Seq(S) /\ Len(SubSeq(s, 1, n)) = (IF 1 <= n THEN n - 1 + 1 ELSE 0)
        /\ \A i \in 1..n - 1 + 1 : SubSeq(s, 1, n)[i] = s[1 + i - 1]
    BY <2>2, SubSeqProperties
  <2>4. Len(a) = n /\ \A i \in 1..n : a[i] = s[i]
    BY <2>1, <2>3
  <2> QED BY <2>1, <2>3, <2>4
<1>3. b \in Seq(S) /\ Len(b) = 2 /\ b[1] = e /\ b[2] = s[Len(s)]
  BY <1>1
<1> HIDE DEF a, b
<1>4. q \in Seq(S) /\ Len(q) = Len(a) + Len(b)
      /\ \A i \in 1..Len(a) + Len(b) : q[i] = IF i <= Len(a) THEN a[i] ELSE b[i - Len(a)]
  BY <1>2, <1>3, ConcatProperties
<1> HIDE DEF q
<1>5. Adds(s, q, Len(s), e)
  <2>1. Len(q) = Len(s) + 1 /\ Len(s) \in 1..Len(s) + 1
    BY <1>1, <1>2, <1>3, <1>4
  <2>2. q[Len(s)] = e
    BY <1>1, <1>2, <1>3, <1>4
  <2>3. \A i \in 1..Len(s) - 1 : q[i] = s[i]
    BY <1>1, <1>2, <1>3, <1>4
  <2>4. q[Len(s) + 1] = s[Len(s)]
    BY <1>1, <1>2, <1>3, <1>4
  <2>5. \A i \in Len(s)..Len(s) : i = Len(s)
    BY <1>1
  <2> QED BY <2>1, <2>2, <2>3, <2>4, <2>5 DEF Adds
<1> QED BY <1>4, <1>5 DEF q, a, b, Front, Last

LEMMA TailDrops ==
    ASSUME NEW S, NEW s \in Seq(S), s # <<>>
    PROVE  /\ Tail(s) \in Seq(S) /\ Drops(s, Tail(s))
           /\ Len(s) \in Nat \ {0} /\ Head(s) = s[1] /\ s[1] \in S
<1>1. Len(s) \in Nat \ {0} /\ Head(s) \in S /\ Tail(s) \in Seq(S)
  BY EmptySeq, HeadTailProperties
<1>2. Len(Tail(s)) = Len(s) - 1 /\ \A i \in 1..Len(Tail(s)) : Tail(s)[i] = s[i + 1]
  BY HeadTailProperties
<1>3. Head(s) = s[1]
  OBVIOUS
<1> QED BY <1>1, <1>2, <1>3 DEF Drops

-----------------------------------------------------------------------------
(* What is held back and what is known, where changes say everything. *)

LEMMA MergedIs ==
    ASSUME NEW f \in Fact, NEW c \in Fact
    PROVE  Merged(f, c) = c
  BY DEF Merged, Fact

LEMMA AfterHeldType ==
    ASSUME NEW S, NEW C, NEW fact \in S, NEW held \in Seq(C),
           \A f \in S, c \in C : Merged(f, c) \in S
    PROVE  AfterHeld(fact, held) \in S
<1>1. Len(held) \in Nat /\ \A i \in 1..Len(held) : held[i] \in C
  BY LenProperties, ElementOfSeq
<1>2. PICK f : Built(f, fact, held, Len(held)) /\ AfterHeld(fact, held) = f[Len(held)]
  BY <1>1, AfterHeldIs
<1> DEFINE n == Len(held)
           Bad == {m \in 0..n : f[m] \notin S}
<1>3. Bad = {}
  <2> SUFFICES ASSUME Bad # {}
               PROVE  FALSE
    OBVIOUS
  <2>1. PICK m \in Bad : \A i \in Bad : m <= i
    <3>1. Bad \subseteq Nat
      BY <1>1
    <3> HIDE DEF Bad
    <3> QED BY <3>1, Least
  <2>2. m \in 0..n /\ f[m] \notin S
    OBVIOUS
  <2>3. f[m] = IF m = 0 THEN fact ELSE Merged(f[m - 1], held[m])
    BY <1>2, <2>2 DEF Built
  <2>4. m # 0
    BY <2>2, <2>3
  <2>5. m - 1 \in 0..n /\ m - 1 \notin Bad
    <3>1. m - 1 \in 0..n /\ ~(m <= m - 1)
      BY <1>1, <2>2, <2>4
    <3> HIDE DEF Bad
    <3> QED BY <2>1, <3>1
  <2>6. f[m - 1] \in S /\ held[m] \in C
    BY <1>1, <2>2, <2>4, <2>5
  <2> QED BY <2>2, <2>3, <2>4, <2>6
<1> QED BY <1>1, <1>2, <1>3

\* The last change held back is what the object then says.
LEMMA AfterHeldFact ==
    ASSUME NEW f \in Fact, NEW held \in Seq(Fact)
    PROVE  /\ held = <<>> => AfterHeld(f, held) = f
           /\ held # <<>> => AfterHeld(f, held) = held[Len(held)]
           /\ AfterHeld(f, held) \in Fact
<1>1. CASE held = <<>>
  BY <1>1, AfterNothing
<1>2. CASE held # <<>>
  <2>1. PICK s \in Seq(Fact), c \in Fact : held = Append(s, c)
    BY <1>2, SequenceEmptyOrAppend
  <2>2. AfterHeld(f, held) = Merged(AfterHeld(f, s), c)
    BY <2>1, AfterOneMore
  <2>3. \A x \in Fact, y \in Fact : Merged(x, y) \in Fact
    BY MergedIs
  <2>4. AfterHeld(f, s) \in Fact
    BY <2>3, AfterHeldType
  <2>5. held[Len(held)] = c
    BY <2>1, AppendProperties
  <2> QED BY <1>2, <2>2, <2>4, <2>5, MergedIs
<1> QED BY <1>1, <1>2

\* What each operation makes of an object.
LEMMA ObjectOperations ==
    ASSUME NEW o \in Object, NEW f \in Fact
    PROVE  /\ BeginRead(o) \in Object /\ BeginRead(o).fact = o.fact
           /\ BeginRead(o).held = o.held /\ BeginRead(o).reading
           /\ BeginRead(o).path = o.path /\ BeginRead(o).readGeneration = o.readGeneration
           /\ AdoptAll(o, f) \in Object
           /\ AdoptAll(o, f).fact = (IF o.held = <<>> THEN f ELSE o.held[Len(o.held)])
           /\ AdoptAll(o, f).held = <<>> /\ ~AdoptAll(o, f).reading
           /\ AdoptAll(o, f).path = o.path
           /\ AdoptAll(o, f).readGeneration = o.readGeneration
           /\ AbortRead(o) = AdoptAll(o, o.fact)
           /\ ApplyChange(o, f) \in Object
           /\ ApplyChange(o, f).fact = (IF o.reading THEN o.fact ELSE f)
           /\ ApplyChange(o, f).held = (IF o.reading THEN Append(o.held, f) ELSE o.held)
           /\ ApplyChange(o, f).reading = o.reading /\ ApplyChange(o, f).path = o.path
           /\ ApplyChange(o, f).readGeneration = o.readGeneration
<1>1. o.held \in Seq(Fact) /\ o.fact \in Fact
  BY DEF Object
<1>2. Append(o.held, f) \in Seq(Fact) /\ <<>> \in Seq(Fact)
  BY <1>1, AppendProperties
<1>3. AfterHeld(f, o.held) \in Fact
      /\ AfterHeld(f, o.held) = (IF o.held = <<>> THEN f ELSE o.held[Len(o.held)])
  BY <1>1, AfterHeldFact
<1>4. Merged(o.fact, f) = f
  BY <1>1, MergedIs
<1>5. BeginRead(o) \in Object /\ BeginRead(o).fact = o.fact
      /\ BeginRead(o).held = o.held /\ BeginRead(o).reading
      /\ BeginRead(o).path = o.path /\ BeginRead(o).readGeneration = o.readGeneration
  BY DEF BeginRead, Object
<1>6. AdoptAll(o, f) \in Object
      /\ AdoptAll(o, f).fact = AfterHeld(f, o.held)
      /\ AdoptAll(o, f).held = <<>> /\ ~AdoptAll(o, f).reading
      /\ AdoptAll(o, f).path = o.path /\ AdoptAll(o, f).readGeneration = o.readGeneration
  BY <1>2, <1>3 DEF AdoptAll, Replayed, Object
<1>7. AbortRead(o) = AdoptAll(o, o.fact)
  BY DEF AbortRead, AdoptAll
<1>8. CASE o.reading
  <2>1. ApplyChange(o, f) = [o EXCEPT !.held = Append(o.held, f)]
    BY <1>8, Zenon DEF ApplyChange
  <2> QED BY <1>2, <1>3, <1>5, <1>6, <1>7, <1>8, <2>1 DEF Object
<1>9. CASE ~o.reading
  <2>1. ApplyChange(o, f) = [o EXCEPT !.fact = f]
    BY <1>4, <1>9, Zenon DEF ApplyChange
  <2> QED BY <1>3, <1>5, <1>6, <1>7, <1>9, <2>1 DEF Object
<1> QED BY <1>8, <1>9

-----------------------------------------------------------------------------
(* What each operation makes of the service. *)

Rules == [manager : BOOLEAN, device : Paths \cup {"none"}, devices : BOOLEAN]
Shown == [manager : Fact, device : Fact]

\* n is a service with these fields, and started as m is.
Is(n, m, generation, manager, device, rules, concluded, available, shown, calls) ==
    /\ n \in Service /\ n.started = m.started /\ n.generation = generation
    /\ n.manager = manager /\ n.device = device /\ n.rules = rules
    /\ n.concluded = concluded /\ n.available = available /\ n.shown = shown
    /\ n.calls = calls

LEMMA ServiceFields ==
    ASSUME NEW m \in Service
    PROVE  /\ m.started \in BOOLEAN /\ m.generation \in Nat /\ m.manager \in Object
           /\ m.device \in Object /\ m.rules \in Rules /\ m.concluded \in BOOLEAN
           /\ m.available \in BOOLEAN /\ m.shown \in Shown /\ m.calls \in Seq(Call)
           /\ m.manager.fact \in Fact /\ m.device.fact \in Fact
           /\ m.shown.manager \in Fact /\ m.shown.device \in Fact
           /\ m.rules.manager \in BOOLEAN /\ m.rules.devices \in BOOLEAN
           /\ m.rules.device \in Paths \cup {"none"}
  BY DEF Service, Rules, Shown, Object

ShownOf(m) == [manager |-> m.manager.fact, device |-> m.device.fact]

LEMMA PublishIs ==
    ASSUME NEW m \in Service
    PROVE  Is(Publish(m), m, m.generation, m.manager, m.device, m.rules, m.concluded,
              m.manager.fact # Unknown /\ m.concluded, ShownOf(m), m.calls)
<1>1. m.manager.fact \in Fact /\ m.device.fact \in Fact /\ m.concluded \in BOOLEAN
  BY ServiceFields
<1>2. (m.manager.fact # Unknown /\ m.concluded) \in BOOLEAN
  BY <1>1
<1>3. PICK b \in BOOLEAN : b <=> (m.manager.fact # Unknown /\ m.concluded)
  BY <1>1
<1>4. ShownOf(m) \in Shown
  BY <1>1 DEF ShownOf, Shown
<1>5. Publish(m) = [m EXCEPT !.shown = ShownOf(m), !.available = b]
  BY <1>1, <1>3, Zenon DEF Publish, ShownOf
<1> QED BY <1>1, <1>3, <1>4, <1>5 DEF Is, Service, Shown

TheCall(m, what, path) == [what |-> what, generation |-> m.generation, path |-> path]

LEMMA AskIs ==
    ASSUME NEW m \in Service, NEW what \in {"manager", "named", "device"},
           NEW path \in Paths \cup {"none", "manager"}
    PROVE  /\ TheCall(m, what, path) \in Call
           /\ Append(m.calls, TheCall(m, what, path)) \in Seq(Call)
           /\ Is(Ask(m, what, path), m, m.generation, m.manager, m.device, m.rules,
                 m.concluded, m.available, m.shown,
                 Append(m.calls, TheCall(m, what, path)))
<1>1. TheCall(m, what, path) \in Call
  BY ServiceFields DEF TheCall, Call
<1>2. Append(m.calls, TheCall(m, what, path)) \in Seq(Call)
  BY <1>1, ServiceFields, AppendProperties
<1>3. Ask(m, what, path) = [m EXCEPT !.calls = Append(m.calls, TheCall(m, what, path))]
  BY DEF Ask, TheCall
<1> QED BY <1>1, <1>2, <1>3 DEF Is, Service

AnObject(fact, held, reading, path, readGeneration) ==
    [fact |-> fact, held |-> held, reading |-> reading, path |-> path,
     readGeneration |-> readGeneration]

LEMMA ObjectIs ==
    ASSUME NEW o \in Object, NEW p \in Object,
           p.fact = o.fact, p.held = o.held, p.reading = o.reading, p.path = o.path,
           p.readGeneration = o.readGeneration
    PROVE  p = o
  BY DEF Object

\* The object under a read that has just been asked for.
Asked(o, path, readGeneration) ==
    AnObject(o.fact, o.held, TRUE, path, readGeneration)

LEMMA AskedIs ==
    ASSUME NEW o \in Object, NEW path \in Paths \cup {"none", "manager"},
           NEW g \in Nat
    PROVE  /\ Asked(o, path, g) \in Object
           /\ BeginRead([o EXCEPT !.path = path, !.readGeneration = g]) = Asked(o, path, g)
<1> DEFINE p == [o EXCEPT !.path = path, !.readGeneration = g]
<1>1. p \in Object /\ p.fact = o.fact /\ p.held = o.held /\ p.path = path
      /\ p.readGeneration = g
  BY DEF Object
<1> HIDE DEF p
<1>2. Asked(o, path, g) \in Object
  BY DEF Object, Asked, AnObject
<1>3. [p EXCEPT !.reading = TRUE] = Asked(o, path, g)
  <2> DEFINE r == [p EXCEPT !.reading = TRUE]
             a == Asked(o, path, g)
  <2>1. r \in Object /\ r.fact = o.fact /\ r.held = o.held /\ r.path = path
        /\ r.readGeneration = g /\ r.reading = TRUE
    BY <1>1 DEF Object
  <2>2. a.fact = o.fact /\ a.held = o.held /\ a.path = path
        /\ a.readGeneration = g /\ a.reading = TRUE /\ a \in Object
    BY <1>2 DEF Asked, AnObject
  <2> HIDE DEF r, a
  <2>3. r = a
    BY <2>1, <2>2, ObjectIs
  <2> QED BY <2>3 DEF r, a
<1> QED BY <1>3, <1>2 DEF BeginRead, p

\* The object after the read that ended with this fact.
Adopted(o, fact) ==
    AnObject(IF o.held = <<>> THEN fact ELSE o.held[Len(o.held)], <<>>, FALSE, o.path,
             o.readGeneration)

LEMMA AdoptedIs ==
    ASSUME NEW o \in Object, NEW f \in Fact
    PROVE  /\ Adopted(o, f) \in Object /\ AdoptAll(o, f) = Adopted(o, f)
           /\ AbortRead(o) = Adopted(o, o.fact)
<1>1. o.fact \in Fact
  BY DEF Object
<1>2. ASSUME NEW x \in Fact
      PROVE  Adopted(o, x) \in Object /\ AdoptAll(o, x) = Adopted(o, x)
  <2> DEFINE p == AdoptAll(o, x)
  <2>1. p \in Object /\ p.fact = (IF o.held = <<>> THEN x ELSE o.held[Len(o.held)])
        /\ p.held = <<>> /\ ~p.reading /\ p.path = o.path
        /\ p.readGeneration = o.readGeneration
    BY ObjectOperations
  <2> HIDE DEF p
  <2>2. p = Adopted(o, x)
    BY <2>1 DEF Object, Adopted, AnObject
  <2> QED BY <2>1, <2>2 DEF p
<1>3. AbortRead(o) = AdoptAll(o, o.fact)
  BY <1>1, ObjectOperations
<1> QED BY <1>1, <1>2, <1>3

LEMMA NoObjectIs == NoObject \in Object /\ Unknown \in Fact
<1>1. Unknown \in Fact
  BY BoundsAssumption DEF Unknown, Fact
<1> QED BY <1>1 DEF NoObject, Object

LEMMA WalkFromManagerIs ==
    ASSUME NEW m \in Service
    PROVE  Is(WalkFromManager(m), m, m.generation + 1,
              Asked(m.manager, "manager", m.generation + 1), m.device,
              [m.rules EXCEPT !.manager = TRUE], m.concluded, m.available, m.shown,
              Append(m.calls, [what |-> "manager", generation |-> m.generation + 1,
                               path |-> "manager"]))
<1> DEFINE g == m.generation + 1
           o == Asked(m.manager, "manager", g)
           r == [m.rules EXCEPT !.manager = TRUE]
           q == [m EXCEPT !.generation = g, !.rules = r, !.manager = o]
<1>1. g \in Nat /\ m.rules \in Rules
  BY ServiceFields
<1>2. r \in Rules
  BY <1>1 DEF Rules
<1>3. o \in Object
      /\ BeginRead([m.manager EXCEPT !.path = "manager", !.readGeneration = g]) = o
  BY <1>1, ServiceFields, AskedIs
<1> HIDE DEF o, r
<1>4. Is(q, m, g, o, m.device, r, m.concluded, m.available, m.shown, m.calls)
  BY <1>1, <1>3, <1>2, ServiceFields DEF Is, Service, Rules
<1>5. WalkFromManager(m) = Ask(q, "manager", "manager")
  <2>1. q = [m EXCEPT !.generation = @ + 1, !.rules.manager = TRUE,
                      !.manager = BeginRead([@ EXCEPT !.path = "manager",
                                             !.readGeneration = m.generation + 1])]
    BY <1>3, Zenon DEF r
  <2> QED BY <2>1, Zenon DEF WalkFromManager
<1> HIDE DEF q
<1>6. Is(Ask(q, "manager", "manager"), q, q.generation, q.manager, q.device, q.rules,
         q.concluded, q.available, q.shown, Append(q.calls, TheCall(q, "manager", "manager")))
  BY <1>4, AskIs DEF Is
<1> QED BY <1>4, <1>5, <1>6 DEF Is, TheCall, r, o

LEMMA WalkDisplayDeviceIs ==
    ASSUME NEW m \in Service
    PROVE  Is(WalkDisplayDevice(m), m, m.generation, m.manager, NoObject,
              [m.rules EXCEPT !.device = "none"], m.concluded, m.available, m.shown,
              Append(m.calls, [what |-> "named", generation |-> m.generation,
                               path |-> "none"]))
<1> DEFINE r == [m.rules EXCEPT !.device = "none"]
           q == [m EXCEPT !.rules = r, !.device = NoObject]
<1>1. r \in Rules
  <2>1. m.rules \in Rules
    BY ServiceFields
  <2> QED BY <2>1 DEF Rules
<1> HIDE DEF r
<1>2. Is(q, m, m.generation, m.manager, NoObject, r, m.concluded, m.available, m.shown,
         m.calls)
  BY <1>1, NoObjectIs, ServiceFields DEF Is, Service, Rules
<1>3. WalkDisplayDevice(m) = Ask(q, "named", "none")
  BY Zenon DEF WalkDisplayDevice, r
<1> HIDE DEF q
<1>4. Is(Ask(q, "named", "none"), q, q.generation, q.manager, q.device, q.rules,
         q.concluded, q.available, q.shown, Append(q.calls, TheCall(q, "named", "none")))
  BY <1>2, AskIs DEF Is
<1> QED BY <1>2, <1>3, <1>4 DEF Is, TheCall, r

LEMMA ReadDeviceIs ==
    ASSUME NEW m \in Service, NEW path \in Paths
    PROVE  Is(ReadDevice(m, path), m, m.generation, m.manager,
              Asked(m.device, path, m.generation),
              [m.rules EXCEPT !.device = path], m.concluded, m.available, m.shown,
              Append(m.calls, [what |-> "device", generation |-> m.generation,
                               path |-> path]))
<1> DEFINE o == Asked(m.device, path, m.generation)
           r == [m.rules EXCEPT !.device = path]
           q == [m EXCEPT !.rules = r, !.device = o]
<1>1. r \in Rules
  <2>1. m.rules \in Rules
    BY ServiceFields
  <2> QED BY <2>1 DEF Rules
<1>2. o \in Object
      /\ BeginRead([m.device EXCEPT !.path = path, !.readGeneration = m.generation]) = o
  BY ServiceFields, AskedIs
<1> HIDE DEF o, r
<1>3. Is(q, m, m.generation, m.manager, o, r, m.concluded, m.available, m.shown, m.calls)
  BY <1>1, <1>2, ServiceFields DEF Is, Service, Rules
<1>4. ReadDevice(m, path) = Ask(q, "device", path)
  BY <1>2, Zenon DEF ReadDevice, r
<1> HIDE DEF q
<1>5. Is(Ask(q, "device", path), q, q.generation, q.manager, q.device, q.rules,
         q.concluded, q.available, q.shown, Append(q.calls, TheCall(q, "device", path)))
  BY <1>3, AskIs DEF Is
<1> QED BY <1>3, <1>4, <1>5 DEF Is, TheCall, r, o

Replies == {"manager", "named", "device"}
Changes == {"managerChanged", "deviceChanged", "devicesChanged"}
Kinds == Replies \cup Changes \cup {"refused", "registered", "owned", "unregistered"}
BatteryMessage == [what : Kinds, generation : Nat, path : Paths \cup {"none", "manager"},
                   fact : Fact]

LEMMA ManagerReadIs ==
    ASSUME NEW m \in Service, NEW x \in BatteryMessage
    PROVE  /\ x.generation # m.generation => ManagerRead(m, x) = m
           /\ x.generation = m.generation =>
                  Is(ManagerRead(m, x), m, m.generation, Adopted(m.manager, x.fact),
                     NoObject, [m.rules EXCEPT !.device = "none"], m.concluded, m.available,
                     m.shown, Append(m.calls, [what |-> "named", generation |-> m.generation,
                                               path |-> "none"]))
<1>1. CASE x.generation # m.generation
  BY <1>1 DEF ManagerRead
<1>2. CASE x.generation = m.generation
  <2> DEFINE o == Adopted(m.manager, x.fact)
             q == [m EXCEPT !.manager = o]
  <2>1. x.fact \in Fact
    BY DEF BatteryMessage
  <2>2. o \in Object /\ AdoptAll(m.manager, x.fact) = o
    BY <2>1, ServiceFields, AdoptedIs
  <2>3. ManagerRead(m, x) = WalkDisplayDevice(q)
    BY <1>2, <2>2, Zenon DEF ManagerRead
  <2> HIDE DEF o
  <2>4. Is(q, m, m.generation, o, m.device, m.rules, m.concluded, m.available, m.shown,
           m.calls)
    BY <2>2, ServiceFields DEF Is, Service
  <2> HIDE DEF q
  <2>5. Is(WalkDisplayDevice(q), q, q.generation, q.manager, NoObject,
           [q.rules EXCEPT !.device = "none"], q.concluded, q.available, q.shown,
           Append(q.calls, [what |-> "named", generation |-> q.generation,
                            path |-> "none"]))
    BY <2>4, WalkDisplayDeviceIs DEF Is
  <2> QED BY <1>2, <2>3, <2>4, <2>5 DEF Is, o
<1> QED BY <1>1, <1>2

LEMMA DeviceNamedIs ==
    ASSUME NEW m \in Service, NEW x \in BatteryMessage, x.path # "manager"
    PROVE  /\ x.generation # m.generation => DeviceNamed(m, x) = m
           /\ x.generation = m.generation /\ x.path = "none" =>
                  Is(DeviceNamed(m, x), m, m.generation, m.manager, m.device, m.rules, TRUE,
                     m.manager.fact # Unknown, ShownOf(m), m.calls)
           /\ x.generation = m.generation /\ x.path # "none" =>
                  Is(DeviceNamed(m, x), m, m.generation, m.manager,
                     Asked(m.device, x.path, m.generation),
                     [m.rules EXCEPT !.device = x.path], m.concluded, m.available, m.shown,
                     Append(m.calls, [what |-> "device", generation |-> m.generation,
                                      path |-> x.path]))
<1>1. CASE x.generation # m.generation
  BY <1>1 DEF DeviceNamed
<1>2. CASE x.generation = m.generation /\ x.path = "none"
  <2> DEFINE q == [m EXCEPT !.concluded = TRUE]
  <2>1. DeviceNamed(m, x) = Publish(q)
    BY <1>2, Zenon DEF DeviceNamed
  <2>2. Is(q, m, m.generation, m.manager, m.device, m.rules, TRUE, m.available, m.shown,
           m.calls)
    BY ServiceFields DEF Is, Service
  <2> HIDE DEF q
  <2>3. Is(Publish(q), q, q.generation, q.manager, q.device, q.rules, q.concluded,
           q.manager.fact # Unknown /\ q.concluded, ShownOf(q), q.calls)
    BY <2>2, PublishIs DEF Is
  <2> QED BY <1>2, <2>1, <2>2, <2>3 DEF Is, ShownOf
<1>3. CASE x.generation = m.generation /\ x.path # "none"
  <2>1. x.path \in Paths
    BY <1>3 DEF BatteryMessage
  <2>2. DeviceNamed(m, x) = ReadDevice(m, x.path)
    BY <1>3, Zenon DEF DeviceNamed
  <2> QED BY <1>3, <2>1, <2>2, ReadDeviceIs
<1> QED BY <1>1, <1>2, <1>3

LEMMA DeviceReadIs ==
    ASSUME NEW m \in Service, NEW x \in BatteryMessage
    PROVE  /\ x.generation # m.generation \/ m.device.path # x.path => DeviceRead(m, x) = m
           /\ x.generation = m.generation /\ m.device.path = x.path =>
                  Is(DeviceRead(m, x), m, m.generation, m.manager, Adopted(m.device, x.fact),
                     m.rules, TRUE, m.manager.fact # Unknown,
                     [manager |-> m.manager.fact, device |-> Adopted(m.device, x.fact).fact],
                     m.calls)
<1>1. CASE x.generation # m.generation \/ m.device.path # x.path
  BY <1>1 DEF DeviceRead
<1>2. CASE x.generation = m.generation /\ m.device.path = x.path
  <2> DEFINE o == Adopted(m.device, x.fact)
             q == [m EXCEPT !.device = o, !.concluded = TRUE]
  <2>1. x.fact \in Fact
    BY DEF BatteryMessage
  <2>2. o \in Object /\ AdoptAll(m.device, x.fact) = o
    BY <2>1, ServiceFields, AdoptedIs
  <2>3. DeviceRead(m, x) = Publish(q)
    BY <1>2, <2>2, Zenon DEF DeviceRead
  <2> HIDE DEF o
  <2>4. Is(q, m, m.generation, m.manager, o, m.rules, TRUE, m.available, m.shown, m.calls)
    BY <2>2, ServiceFields DEF Is, Service
  <2> HIDE DEF q
  <2>5. Is(Publish(q), q, q.generation, q.manager, q.device, q.rules, q.concluded,
           q.manager.fact # Unknown /\ q.concluded, ShownOf(q), q.calls)
    BY <2>4, PublishIs DEF Is
  <2> QED BY <1>2, <2>3, <2>4, <2>5 DEF Is, ShownOf, o
<1> QED BY <1>1, <1>2

\* The object after a refusal, which ends its own read.
Ended(o, own, generation) ==
    IF own /\ o.readGeneration = generation THEN Adopted(o, o.fact) ELSE o

LEMMA FailedIs ==
    ASSUME NEW m \in Service, NEW x \in BatteryMessage, NEW a, NEW b,
           a = Ended(m.manager, x.path = "manager", x.generation),
           b = Ended(m.device, x.path \in Paths, x.generation)
    PROVE  /\ a \in Object /\ b \in Object
           /\ x.generation # m.generation =>
                  Is(Failed(m, x), m, m.generation, a, b, m.rules, m.concluded, m.available,
                     m.shown, m.calls)
           /\ x.generation = m.generation =>
                  Is(Failed(m, x), m, m.generation, a, b, m.rules, m.concluded,
                     a.fact # Unknown /\ m.concluded,
                     [manager |-> a.fact, device |-> b.fact], m.calls)
<1>1. m.manager \in Object /\ m.device \in Object
  BY ServiceFields
<1>2. m.manager.fact \in Fact /\ m.device.fact \in Fact
  BY ServiceFields
<1>3. /\ Adopted(m.manager, m.manager.fact) \in Object
      /\ AbortRead(m.manager) = Adopted(m.manager, m.manager.fact)
  BY <1>1, <1>2, AdoptedIs
<1>4. /\ Adopted(m.device, m.device.fact) \in Object
      /\ AbortRead(m.device) = Adopted(m.device, m.device.fact)
  BY <1>1, <1>2, AdoptedIs
<1>5. a \in Object /\ b \in Object
  BY <1>1, <1>3, <1>4 DEF Ended
<1> DEFINE q == [m EXCEPT !.manager = a, !.device = b]
<1>6. Failed(m, x) = IF x.generation = m.generation THEN Publish(q) ELSE q
  <2>1. a = IF x.path = "manager"
            THEN (IF m.manager.readGeneration = x.generation THEN AbortRead(m.manager)
                  ELSE m.manager)
            ELSE m.manager
    BY <1>3, Zenon DEF Ended
  <2>2. b = IF x.path \in Paths
            THEN (IF m.device.readGeneration = x.generation THEN AbortRead(m.device)
                  ELSE m.device)
            ELSE m.device
    BY <1>4, Zenon DEF Ended
  <2> QED BY <2>1, <2>2, Zenon DEF Failed
<1>7. Is(q, m, m.generation, a, b, m.rules, m.concluded, m.available, m.shown, m.calls)
  BY <1>5, ServiceFields DEF Is, Service
<1> HIDE DEF q
<1>8. Is(Publish(q), q, q.generation, q.manager, q.device, q.rules, q.concluded,
         q.manager.fact # Unknown /\ q.concluded, ShownOf(q), q.calls)
  BY <1>7, PublishIs DEF Is
<1> QED BY <1>5, <1>6, <1>7, <1>8 DEF Is, ShownOf

\* The object after a change.
ChangedBy(o, fact) ==
    IF o.reading THEN AnObject(o.fact, Append(o.held, fact), TRUE, o.path, o.readGeneration)
    ELSE AnObject(fact, o.held, FALSE, o.path, o.readGeneration)

LEMMA ChangedByIs ==
    ASSUME NEW o \in Object, NEW f \in Fact
    PROVE  ChangedBy(o, f) \in Object /\ ApplyChange(o, f) = ChangedBy(o, f)
<1> DEFINE p == ApplyChange(o, f)
           c == ChangedBy(o, f)
<1>1. /\ p \in Object /\ p.fact = (IF o.reading THEN o.fact ELSE f)
      /\ p.held = (IF o.reading THEN Append(o.held, f) ELSE o.held)
      /\ p.reading = o.reading /\ p.path = o.path /\ p.readGeneration = o.readGeneration
  BY ObjectOperations
<1> HIDE DEF p
<1>2. o.reading \in BOOLEAN
  BY DEF Object
<1>3. c = AnObject(p.fact, p.held, p.reading, p.path, p.readGeneration)
  BY <1>1, <1>2 DEF ChangedBy
<1>4. p = AnObject(p.fact, p.held, p.reading, p.path, p.readGeneration)
  BY <1>1 DEF Object, AnObject
<1> QED BY <1>1, <1>3, <1>4 DEF p

LEMMA ManagerChangedIs ==
    ASSUME NEW m \in Service, NEW f \in Fact
    PROVE  Is(Publish([m EXCEPT !.manager = ApplyChange(@, f)]), m, m.generation,
              ChangedBy(m.manager, f), m.device, m.rules, m.concluded,
              ChangedBy(m.manager, f).fact # Unknown /\ m.concluded,
              [manager |-> ChangedBy(m.manager, f).fact, device |-> m.device.fact], m.calls)
<1> DEFINE o == ChangedBy(m.manager, f)
           q == [m EXCEPT !.manager = o]
<1>1. o \in Object /\ ApplyChange(m.manager, f) = o
  BY ServiceFields, ChangedByIs
<1>2. [m EXCEPT !.manager = ApplyChange(@, f)] = q
  BY <1>1, Zenon
<1> HIDE DEF o
<1>3. Is(q, m, m.generation, o, m.device, m.rules, m.concluded, m.available, m.shown,
         m.calls)
  BY <1>1, ServiceFields DEF Is, Service
<1> HIDE DEF q
<1>4. Is(Publish(q), q, q.generation, q.manager, q.device, q.rules, q.concluded,
         q.manager.fact # Unknown /\ q.concluded, ShownOf(q), q.calls)
  BY <1>3, PublishIs DEF Is
<1> QED BY <1>2, <1>3, <1>4 DEF Is, ShownOf, o

LEMMA DeviceChangedIs ==
    ASSUME NEW m \in Service, NEW f \in Fact
    PROVE  Is(Publish([m EXCEPT !.device = ApplyChange(@, f)]), m, m.generation,
              m.manager, ChangedBy(m.device, f), m.rules, m.concluded,
              m.manager.fact # Unknown /\ m.concluded,
              [manager |-> m.manager.fact, device |-> ChangedBy(m.device, f).fact], m.calls)
<1> DEFINE o == ChangedBy(m.device, f)
           q == [m EXCEPT !.device = o]
<1>1. o \in Object /\ ApplyChange(m.device, f) = o
  BY ServiceFields, ChangedByIs
<1>2. [m EXCEPT !.device = ApplyChange(@, f)] = q
  BY <1>1, Zenon
<1> HIDE DEF o
<1>3. Is(q, m, m.generation, m.manager, o, m.rules, m.concluded, m.available, m.shown,
         m.calls)
  BY <1>1, ServiceFields DEF Is, Service
<1> HIDE DEF q
<1>4. Is(Publish(q), q, q.generation, q.manager, q.device, q.rules, q.concluded,
         q.manager.fact # Unknown /\ q.concluded, ShownOf(q), q.calls)
  BY <1>3, PublishIs DEF Is
<1> QED BY <1>2, <1>3, <1>4 DEF Is, ShownOf, o

LEMMA DevicesChangedIs ==
    ASSUME NEW m \in Service
    PROVE  Is(WalkDisplayDevice([m EXCEPT !.generation = @ + 1]), m, m.generation + 1,
              m.manager, NoObject, [m.rules EXCEPT !.device = "none"], m.concluded,
              m.available, m.shown,
              Append(m.calls, [what |-> "named", generation |-> m.generation + 1,
                               path |-> "none"]))
<1> DEFINE q == [m EXCEPT !.generation = @ + 1]
<1>1. Is(q, m, m.generation + 1, m.manager, m.device, m.rules, m.concluded, m.available,
         m.shown, m.calls)
  BY ServiceFields DEF Is, Service
<1> HIDE DEF q
<1>2. Is(WalkDisplayDevice(q), q, q.generation, q.manager, NoObject,
         [q.rules EXCEPT !.device = "none"], q.concluded, q.available, q.shown,
         Append(q.calls, [what |-> "named", generation |-> q.generation,
                          path |-> "none"]))
  BY <1>1, WalkDisplayDeviceIs DEF Is
<1> QED BY <1>1, <1>2 DEF Is, q

NothingShown == [manager |-> Unknown, device |-> Unknown]
NoRules == [manager |-> FALSE, device |-> "none", devices |-> FALSE]

LEMMA WithdrawIs ==
    ASSUME NEW m \in Service
    PROVE  Is(Withdraw(m), m, m.generation + 1, NoObject, NoObject, NoRules, FALSE, FALSE,
              NothingShown, m.calls)
<1>1. NoRules \in Rules /\ NothingShown \in Shown
  BY NoObjectIs DEF NoRules, NothingShown, Rules, Shown
<1> DEFINE p == [m EXCEPT !.generation = m.generation + 1, !.rules = NoRules,
                          !.manager = NoObject, !.device = NoObject]
           q == [p EXCEPT !.concluded = FALSE, !.available = FALSE,
                          !.shown = NothingShown]
<1>2. Withdraw(m) = q
  BY Zenon DEF Withdraw, NoRules, NothingShown
<1>3. Is(p, m, m.generation + 1, NoObject, NoObject, NoRules, m.concluded, m.available,
         m.shown, m.calls)
  <2> DEFINE k == [m EXCEPT !.generation = m.generation + 1, !.rules = NoRules]
  <2>1. Is(k, m, m.generation + 1, m.manager, m.device, NoRules, m.concluded, m.available,
           m.shown, m.calls)
    <3>1. NoRules \in Rules /\ m.generation + 1 \in Nat
      BY <1>1, ServiceFields
    <3> HIDE DEF p, q
    <3> QED BY <3>1 DEF Is, Service, Rules
  <2>2. p = [k EXCEPT !.manager = NoObject, !.device = NoObject]
    BY Zenon
  <2> HIDE DEF k, p
  <2>3. NoObject \in Object
    BY NoObjectIs
  <2> QED BY <2>1, <2>2, <2>3 DEF Is, Service
<1> HIDE DEF p
<1>4. Is(q, p, p.generation, p.manager, p.device, p.rules, FALSE, FALSE, NothingShown,
         p.calls)
  BY <1>1, <1>3 DEF Is, Service, Shown
<1> QED BY <1>2, <1>3, <1>4 DEF Is

-----------------------------------------------------------------------------
(* Lives of a daemon, and what is on its way of them. *)

\* The daemon is reported gone in between.
Exit(s, i, j) == \E k \in i..j : s[k].what = "unregistered"

\* Of the messages of s that tell facts, told \in F, each is of the life now of a daemon
\* that is up unless an exit comes after it, of the life that the service has facts of
\* unless one comes before it, and of the same life as another unless one is between.
Lives(s, F, up, now, life) ==
    /\ \A i \in 1..Len(s) :
           s[i].what \in F => Exit(s, i, Len(s)) \/ (up /\ s[i].fact.life = now)
    /\ \A i \in 1..Len(s) : s[i].what \in F => Exit(s, 1, i) \/ s[i].fact.life = life
    /\ \A i \in 1..Len(s), j \in 1..Len(s) :
           i < j /\ s[i].what \in F /\ s[j].what \in F
           => Exit(s, i, j) \/ s[i].fact.life = s[j].fact.life
    /\ up => Exit(s, 1, Len(s)) \/ life = now

LEMMA LivesRead ==
    ASSUME NEW S, NEW s \in Seq(S), NEW q \in Seq(S), Drops(s, q), s # <<>>,
           NEW F, NEW up, NEW now, NEW life, Lives(s, F, up, now, life),
           s[1].what # "unregistered"
    PROVE  /\ Lives(q, F, up, now, life)
           /\ Exit(q, 1, Len(q)) <=> Exit(s, 1, Len(s))
<1>1. Len(s) \in Nat \ {0} /\ Len(q) \in Nat /\ Len(q) = Len(s) - 1
      /\ \A i \in 1..Len(q) : q[i] = s[i + 1] /\ i + 1 \in 1..Len(s)
  BY EmptySeq, LenProperties DEF Drops
<1>2. ASSUME NEW i \in 1..Len(q), NEW j \in 1..Len(q)
      PROVE  Exit(s, i + 1, j + 1) => Exit(q, i, j)
  <2> SUFFICES ASSUME NEW k \in i + 1..j + 1, s[k].what = "unregistered"
               PROVE  \E l \in i..j : q[l].what = "unregistered"
    BY DEF Exit
  <2>1. k - 1 \in i..j /\ q[k - 1] = s[k]
    BY <1>1
  <2> QED BY <2>1
<1>3. ASSUME NEW j \in 1..Len(q)
      PROVE  Exit(s, 1, j + 1) => Exit(q, 1, j)
  <2> SUFFICES ASSUME NEW k \in 1..j + 1, s[k].what = "unregistered"
               PROVE  \E l \in 1..j : q[l].what = "unregistered"
    BY DEF Exit
  <2>1. k - 1 \in 1..j /\ q[k - 1] = s[k]
    BY <1>1
  <2> QED BY <2>1
<1>4. Exit(s, 1, Len(s)) => Exit(q, 1, Len(q))
  <2> SUFFICES ASSUME NEW k \in 1..Len(s), s[k].what = "unregistered"
               PROVE  \E l \in 1..Len(q) : q[l].what = "unregistered"
    BY DEF Exit
  <2>1. k - 1 \in 1..Len(q) /\ q[k - 1] = s[k]
    BY <1>1
  <2> QED BY <2>1
<1>5. Exit(q, 1, Len(q)) => Exit(s, 1, Len(s))
  BY <1>1 DEF Exit
<1>6. ASSUME NEW i \in 1..Len(q), q[i].what \in F
      PROVE  Exit(q, i, Len(q)) \/ (up /\ q[i].fact.life = now)
  <2>1. Exit(s, i + 1, Len(s)) \/ (up /\ s[i + 1].fact.life = now)
    BY <1>1, <1>6 DEF Lives
  <2>2. Len(q) \in 1..Len(q) /\ Len(q) + 1 = Len(s)
    BY <1>1
  <2>3. Exit(s, i + 1, Len(s)) => Exit(q, i, Len(q))
    BY <1>2, <2>2
  <2> QED BY <1>1, <2>1, <2>3
<1>7. ASSUME NEW i \in 1..Len(q), q[i].what \in F
      PROVE  Exit(q, 1, i) \/ q[i].fact.life = life
  BY <1>1, <1>3, <1>7 DEF Lives
<1>8. ASSUME NEW i \in 1..Len(q), NEW j \in 1..Len(q), i < j, q[i].what \in F, q[j].what \in F
      PROVE  Exit(q, i, j) \/ q[i].fact.life = q[j].fact.life
  <2>1. i + 1 \in 1..Len(s) /\ j + 1 \in 1..Len(s) /\ i + 1 < j + 1
    BY <1>1, <1>8
  <2> QED BY <1>1, <1>2, <1>8, <2>1 DEF Lives
<1>9. up => Exit(q, 1, Len(q)) \/ life = now
  BY <1>4 DEF Lives
<1> QED BY <1>4, <1>5, <1>6, <1>7, <1>8, <1>9 DEF Lives

\* Once the exit has been read, the facts are of some life again.
LEMMA LivesExitRead ==
    ASSUME NEW S, NEW s \in Seq(S), NEW q \in Seq(S), Drops(s, q), s # <<>>,
           NEW F, "unregistered" \notin F, NEW L, NEW up, NEW now \in L, NEW life,
           Lives(s, F, up, now, life),
           \A i \in 1..Len(q) : q[i].what \in F => q[i].fact.life \in L
    PROVE  \E other \in L : Lives(q, F, up, now, other)
<1>1. Len(s) \in Nat \ {0} /\ Len(q) \in Nat /\ Len(q) = Len(s) - 1
      /\ \A i \in 1..Len(q) : q[i] = s[i + 1] /\ i + 1 \in 1..Len(s)
  BY EmptySeq, LenProperties DEF Drops
<1>2. ASSUME NEW i \in 1..Len(q), NEW j \in 1..Len(q)
      PROVE  Exit(s, i + 1, j + 1) => Exit(q, i, j)
  <2> SUFFICES ASSUME NEW k \in i + 1..j + 1, s[k].what = "unregistered"
               PROVE  \E l \in i..j : q[l].what = "unregistered"
    BY DEF Exit
  <2>1. k - 1 \in i..j /\ q[k - 1] = s[k]
    BY <1>1
  <2> QED BY <2>1
<1>3. ASSUME NEW i \in 1..Len(q), q[i].what \in F
      PROVE  Exit(q, i, Len(q)) \/ (up /\ q[i].fact.life = now)
  <2>1. Exit(s, i + 1, Len(s)) \/ (up /\ s[i + 1].fact.life = now)
    BY <1>1, <1>3 DEF Lives
  <2>2. Len(q) \in 1..Len(q) /\ Len(q) + 1 = Len(s)
    BY <1>1
  <2>3. Exit(s, i + 1, Len(s)) => Exit(q, i, Len(q))
    BY <1>2, <2>2
  <2> QED BY <1>1, <2>1, <2>3
<1>4. ASSUME NEW i \in 1..Len(q), NEW j \in 1..Len(q), i < j, q[i].what \in F, q[j].what \in F
      PROVE  Exit(q, i, j) \/ q[i].fact.life = q[j].fact.life
  <2>1. i + 1 \in 1..Len(s) /\ j + 1 \in 1..Len(s) /\ i + 1 < j + 1
    BY <1>1, <1>4
  <2> QED BY <1>1, <1>2, <1>4, <2>1 DEF Lives
<1>5. CASE \E i \in 1..Len(q) : q[i].what \in F /\ ~Exit(q, 1, i)
  <2>1. PICK i \in 1..Len(q) : q[i].what \in F /\ ~Exit(q, 1, i)
    BY <1>5
  <2> DEFINE other == q[i].fact.life
  <2>2. ASSUME NEW j \in 1..Len(q), q[j].what \in F
        PROVE  Exit(q, 1, j) \/ q[j].fact.life = other
    <3>1. Exit(q, i, j) => Exit(q, 1, j)
      BY DEF Exit
    <3>2. Exit(q, j, i) => Exit(q, 1, i)
      BY DEF Exit
    <3>3. i < j \/ j < i \/ i = j
      BY <1>1
    <3> QED BY <1>4, <2>1, <2>2, <3>1, <3>2, <3>3
  <2>3. Exit(q, 1, Len(q)) \/ (up => other = now)
    <3>1. Exit(q, i, Len(q)) => Exit(q, 1, Len(q))
      BY DEF Exit
    <3> QED BY <1>3, <2>1, <3>1
  <2>4. other \in L
    BY <2>1
  <2> HIDE DEF other
  <2> QED BY <1>3, <1>4, <2>2, <2>3, <2>4 DEF Lives
<1>6. CASE ~\E i \in 1..Len(q) : q[i].what \in F /\ ~Exit(q, 1, i)
  <2>1. Lives(q, F, up, now, now)
    BY <1>3, <1>4, <1>6 DEF Lives
  <2> QED BY <2>1
<1> QED BY <1>5, <1>6

\* What is sent before the last k messages, which report no exit.
LEMMA LivesSent ==
    ASSUME NEW S, NEW s \in Seq(S), NEW q \in Seq(S), NEW k, NEW e, Adds(s, q, k, e),
           NEW F, NEW up, NEW now, NEW life, Lives(s, F, up, now, life),
           e.what # "unregistered", e.what \in F => up /\ e.fact.life = now,
           \A i \in k..Len(s) : s[i].what # "unregistered"
    PROVE  /\ Lives(q, F, up, now, life)
           /\ Exit(q, 1, Len(q)) <=> Exit(s, 1, Len(s))
<1>1. Len(s) \in Nat /\ Len(q) \in Nat /\ Len(q) = Len(s) + 1
      /\ k \in 1..Len(s) + 1 /\ q[k] = e
      /\ (\A i \in 1..k - 1 : q[i] = s[i]) /\ (\A i \in k..Len(s) : q[i + 1] = s[i])
  BY LenProperties DEF Adds
<1>2. ASSUME NEW i \in 1..Len(q), i # k
      PROVE  \E l \in 1..Len(s) : /\ q[i] = s[l] /\ ((i < k /\ l = i) \/ (i > k /\ l = i - 1))
  <2>1. CASE i < k
    <3>1. i \in 1..Len(s) /\ i \in 1..k - 1
      BY <1>1, <2>1
    <3>2. q[i] = s[i]
      BY <1>1, <3>1
    <3> QED BY <1>1, <2>1, <3>1, <3>2
  <2>2. CASE i > k
    <3>1. i - 1 \in k..Len(s) /\ q[i - 1 + 1] = s[i - 1] /\ i - 1 + 1 = i
      BY <1>1, <2>2
    <3> QED BY <1>1, <2>2, <3>1
  <2> QED BY <1>1, <1>2, <2>1, <2>2
<1>3. \A i \in 1..Len(s) : s[i].what = "unregistered" => i < k /\ i \in 1..Len(q) /\ q[i] = s[i]
  BY <1>1
<1>4. \A i \in 1..Len(q) : q[i].what = "unregistered" => i < k /\ i \in 1..Len(s) /\ q[i] = s[i]
  <2> SUFFICES ASSUME NEW i \in 1..Len(q), q[i].what = "unregistered"
               PROVE  i < k /\ i \in 1..Len(s) /\ q[i] = s[i]
    OBVIOUS
  <2>1. i # k
    BY <1>1
  <2>2. PICK l \in 1..Len(s) : q[i] = s[l] /\ ((i < k /\ l = i) \/ (i > k /\ l = i - 1))
    BY <1>2, <2>1
  <2> QED BY <1>1, <1>3, <2>2
<1>5. Exit(q, 1, Len(q)) <=> Exit(s, 1, Len(s))
  BY <1>1, <1>3, <1>4 DEF Exit
<1>6. ASSUME NEW i \in 1..Len(s), Exit(s, i, Len(s))
      PROVE  i < k /\ Exit(q, i, Len(q))
  BY <1>1, <1>3, <1>6 DEF Exit
<1>7. ASSUME NEW i \in 1..Len(s), Exit(s, 1, i)
      PROVE  Exit(q, 1, i) /\ Exit(q, 1, i + 1)
  BY <1>1, <1>3, <1>7 DEF Exit
<1>8. ASSUME NEW i \in 1..Len(s), NEW j \in 1..Len(s), Exit(s, i, j)
      PROVE  i < k /\ Exit(q, i, j) /\ Exit(q, i, j + 1)
  BY <1>1, <1>3, <1>8 DEF Exit
<1>9. ASSUME NEW i \in 1..Len(q), q[i].what \in F
      PROVE  Exit(q, i, Len(q)) \/ (up /\ q[i].fact.life = now)
  <2>1. CASE i = k
    BY <1>1, <1>9, <2>1
  <2>2. CASE i # k
    <3>1. PICK l \in 1..Len(s) : q[i] = s[l] /\ ((i < k /\ l = i) \/ (i > k /\ l = i - 1))
      BY <1>2, <2>2
    <3>2. Exit(s, l, Len(s)) \/ (up /\ s[l].fact.life = now)
      BY <1>9, <3>1 DEF Lives
    <3>3. Exit(s, l, Len(s)) => Exit(q, i, Len(q))
      BY <1>1, <1>6, <3>1
    <3> QED BY <3>1, <3>2, <3>3
  <2> QED BY <2>1, <2>2
<1>10. ASSUME NEW i \in 1..Len(q), q[i].what \in F
       PROVE  Exit(q, 1, i) \/ q[i].fact.life = life
  <2>1. CASE i = k
    <3>1. e.fact.life = now /\ up
      BY <1>1, <1>10, <2>1
    <3>2. Exit(s, 1, Len(s)) => Exit(q, 1, k)
      BY <1>1, <1>3 DEF Exit
    <3> QED BY <1>1, <2>1, <3>1, <3>2 DEF Lives
  <2>2. CASE i # k
    <3>1. PICK l \in 1..Len(s) : q[i] = s[l] /\ ((i < k /\ l = i) \/ (i > k /\ l = i - 1))
      BY <1>2, <2>2
    <3>2. Exit(s, 1, l) \/ s[l].fact.life = life
      BY <1>10, <3>1 DEF Lives
    <3>3. Exit(s, 1, l) => Exit(q, 1, i)
      <4>1. Exit(s, 1, l) => Exit(q, 1, l) /\ Exit(q, 1, l + 1)
        BY <1>7
      <4>2. i = l \/ i = l + 1
        BY <1>1, <3>1
      <4> QED BY <4>1, <4>2
    <3> QED BY <3>1, <3>2, <3>3
  <2> QED BY <2>1, <2>2
<1>11. ASSUME NEW i \in 1..Len(q), NEW j \in 1..Len(q), i < j, q[i].what \in F,
              q[j].what \in F
       PROVE  Exit(q, i, j) \/ q[i].fact.life = q[j].fact.life
  <2>1. CASE i = k
    <3>0. j # k
      BY <1>1, <1>11, <2>1
    <3>1. PICK l \in 1..Len(s) : q[j] = s[l] /\ ((j < k /\ l = j) \/ (j > k /\ l = j - 1))
      BY <1>2, <3>0
    <3>2. l \in k..Len(s)
      BY <1>1, <1>11, <2>1, <3>1
    <3>3. ~Exit(s, l, Len(s))
      BY <1>1, <3>2 DEF Exit
    <3>4. s[l].fact.life = now
      BY <1>11, <3>1, <3>3 DEF Lives
    <3> QED BY <1>1, <1>11, <2>1, <3>1, <3>4
  <2>2. CASE j = k
    <3>0. i # k
      BY <1>1, <1>11, <2>2
    <3>1. PICK l \in 1..Len(s) : q[i] = s[l] /\ ((i < k /\ l = i) \/ (i > k /\ l = i - 1))
      BY <1>2, <3>0
    <3>2. l = i
      BY <1>1, <1>11, <2>2, <3>1
    <3>3. Exit(s, l, Len(s)) \/ s[l].fact.life = now
      BY <1>11, <3>1 DEF Lives
    <3>4. ASSUME Exit(s, l, Len(s))
          PROVE  Exit(q, i, j)
      <4>1. PICK m \in l..Len(s) : s[m].what = "unregistered"
        BY <3>4 DEF Exit
      <4>2. m \in 1..Len(s)
        BY <1>1, <3>2
      <4>3. m < k /\ q[m] = s[m]
        BY <1>3, <4>1, <4>2
      <4>4. m \in i..j
        BY <1>1, <2>2, <3>2, <4>3
      <4> QED BY <4>1, <4>3, <4>4 DEF Exit
    <3> QED BY <1>1, <1>11, <2>2, <3>1, <3>3, <3>4
  <2>3. CASE i # k /\ j # k
    <3>1. PICK l \in 1..Len(s) : q[i] = s[l] /\ ((i < k /\ l = i) \/ (i > k /\ l = i - 1))
      BY <1>2, <2>3
    <3>2. PICK n \in 1..Len(s) : q[j] = s[n] /\ ((j < k /\ n = j) \/ (j > k /\ n = j - 1))
      BY <1>2, <2>3
    <3>3. l < n
      BY <1>1, <1>11, <3>1, <3>2
    <3>4. Exit(s, l, n) \/ s[l].fact.life = s[n].fact.life
      BY <1>11, <3>1, <3>2, <3>3 DEF Lives
    <3>5. Exit(s, l, n) => Exit(q, i, j)
      <4>1. Exit(s, l, n) => l < k /\ Exit(q, l, n) /\ Exit(q, l, n + 1)
        BY <1>8
      <4>2. l < k => i = l
        BY <1>1, <3>1
      <4>3. j = n \/ j = n + 1
        BY <1>1, <3>2
      <4> QED BY <4>1, <4>2, <4>3
    <3> QED BY <3>1, <3>2, <3>4, <3>5
  <2> QED BY <2>1, <2>2, <2>3
<1> QED BY <1>5, <1>9, <1>10, <1>11 DEF Lives

\* The daemon exits, and that is reported.
LEMMA LivesExit ==
    ASSUME NEW S, NEW s \in Seq(S), NEW q \in Seq(S), NEW e, Adds(s, q, Len(s) + 1, e),
           NEW F, "unregistered" \notin F, NEW up, NEW now, NEW life,
           Lives(s, F, up, now, life), e.what = "unregistered"
    PROVE  Lives(q, F, FALSE, now, life) /\ Exit(q, 1, Len(q))
<1>1. Len(s) \in Nat /\ Len(q) \in Nat /\ Len(q) = Len(s) + 1 /\ q[Len(q)] = e
      /\ \A i \in 1..Len(s) : q[i] = s[i]
  BY LenProperties DEF Adds
<1>2. \A i \in 1..Len(q) : Exit(q, i, Len(q))
  BY <1>1 DEF Exit
<1>3. \A i \in 1..Len(q) : q[i].what \in F => i \in 1..Len(s) /\ q[i] = s[i]
  BY <1>1
<1>4. \A i \in 1..Len(s), j \in 1..Len(s) : Exit(s, i, j) => Exit(q, i, j)
  BY <1>1 DEF Exit
<1>5. 1 \in 1..Len(q) /\ \A i \in 1..Len(s) : 1 \in 1..Len(s)
  BY <1>1
<1>6. ASSUME NEW i \in 1..Len(q), q[i].what \in F
      PROVE  Exit(q, 1, i) \/ q[i].fact.life = life
  BY <1>3, <1>4, <1>5, <1>6 DEF Lives
<1>7. ASSUME NEW i \in 1..Len(q), NEW j \in 1..Len(q), i < j, q[i].what \in F,
             q[j].what \in F
      PROVE  Exit(q, i, j) \/ q[i].fact.life = q[j].fact.life
  BY <1>3, <1>4, <1>7 DEF Lives
<1> QED BY <1>2, <1>5, <1>6, <1>7 DEF Lives

\* The daemon starts, and that is reported.
LEMMA LivesStart ==
    ASSUME NEW S, NEW s \in Seq(S), NEW q \in Seq(S), NEW e, Adds(s, q, Len(s) + 1, e),
           NEW F, NEW now, NEW life, NEW next,
           Lives(s, F, FALSE, now, life), e.what # "unregistered", e.what \notin F
    PROVE  /\ Exit(s, 1, Len(s)) => Lives(q, F, TRUE, next, life)
           /\ ~Exit(s, 1, Len(s)) => Lives(q, F, TRUE, next, next)
           /\ Exit(q, 1, Len(q)) <=> Exit(s, 1, Len(s))
<1>1. Len(s) \in Nat /\ Len(q) \in Nat /\ Len(q) = Len(s) + 1 /\ q[Len(q)] = e
      /\ \A i \in 1..Len(s) : q[i] = s[i]
  BY LenProperties DEF Adds
<1>2. \A i \in 1..Len(q) : q[i].what \in F => i \in 1..Len(s) /\ q[i] = s[i]
  BY <1>1
<1>3. \A i \in 1..Len(s), j \in 1..Len(s) : Exit(s, i, j) <=> Exit(q, i, j)
  BY <1>1 DEF Exit
<1>4. \A i \in 1..Len(s) : Exit(s, i, Len(s)) => Exit(q, i, Len(q))
  BY <1>1 DEF Exit
<1>5. Exit(q, 1, Len(q)) <=> Exit(s, 1, Len(s))
  BY <1>1 DEF Exit
<1>6. ASSUME NEW i \in 1..Len(q), q[i].what \in F
      PROVE  /\ Exit(q, i, Len(q)) /\ Exit(s, 1, Len(s))
             /\ Exit(q, 1, i) \/ q[i].fact.life = life
  <2>1. i \in 1..Len(s) /\ q[i] = s[i] /\ 1 \in 1..Len(s)
    BY <1>1, <1>2, <1>6
  <2>2. Exit(s, i, Len(s)) /\ (Exit(s, 1, i) \/ s[i].fact.life = life)
    BY <1>6, <2>1 DEF Lives
  <2>3. Exit(s, 1, Len(s))
    BY <2>1, <2>2 DEF Exit
  <2> QED BY <1>3, <1>4, <2>1, <2>2, <2>3
<1>7. ASSUME NEW i \in 1..Len(q), NEW j \in 1..Len(q), i < j, q[i].what \in F,
             q[j].what \in F
      PROVE  Exit(q, i, j) \/ q[i].fact.life = q[j].fact.life
  BY <1>2, <1>3, <1>7 DEF Lives
<1> QED BY <1>5, <1>6, <1>7 DEF Lives

-----------------------------------------------------------------------------
(* The battery's objects. *)

\* What a message of each kind says, and of whom.
Truthful(x) ==
    /\ x.what = "manager" => x.path = "manager"
    /\ x.what \in {"manager", "managerChanged"} => x.fact.path = "manager"
    /\ x.what = "named" => x.path # "manager"
    /\ x.what \in {"device", "deviceChanged"} => x.path \in Paths /\ x.fact.path = x.path
    /\ x.what \in {"manager", "device", "managerChanged", "deviceChanged"} => x.fact.life # 0

\* An object of a service of this generation: it holds changes back for a read only, and
\* all it has is of its own path.
Sane(o, generation) ==
    /\ o \in Object
    /\ o.held # <<>> => o.reading
    /\ o.fact # Unknown => o.fact.path = o.path
    /\ \A i \in 1..Len(o.held) : o.held[i].path = o.path /\ o.held[i].life # 0
    /\ o.path = "none" => o = NoObject
    /\ o.readGeneration <= generation

\* Its facts are of one life of the daemon.
Of(fact, life) == fact = Unknown \/ fact.life = life
ObjectOf(o, life) ==
    /\ Of(o.fact, life)
    /\ \A i \in 1..Len(o.held) : o.held[i].life = life

Sound(m) ==
    /\ m \in Service
    /\ Sane(m.manager, m.generation) /\ Sane(m.device, m.generation)
    /\ m.rules.device = m.device.path /\ m.device.path # "manager"
    /\ m.manager.path \in {"none", "manager"}
    /\ m.rules.manager <=> m.manager.path = "manager"

ServiceOf(m, life) ==
    /\ ObjectOf(m.manager, life) /\ ObjectOf(m.device, life)
    /\ Of(m.shown.manager, life) /\ Of(m.shown.device, life)

LEMMA NoObjectSane ==
    ASSUME NEW g \in Nat
    PROVE  /\ Sane(NoObject, g) /\ NoObject.path = "none" /\ NoObject.readGeneration = 0
           /\ NoObject.fact = Unknown /\ NoObject.held = <<>> /\ ~NoObject.reading
           /\ \A life : ObjectOf(NoObject, life) /\ Of(Unknown, life)
<1>1. /\ NoObject.path = "none" /\ NoObject.readGeneration = 0
      /\ NoObject.fact = Unknown /\ NoObject.held = <<>> /\ ~NoObject.reading
  BY DEF NoObject
<1>2. Len(<<>>) = 0
  BY EmptySeq
<1> QED BY <1>1, <1>2, NoObjectIs DEF Sane, ObjectOf, Of

LEMMA AskedSane ==
    ASSUME NEW o, NEW g \in Nat, NEW h \in Nat, Sane(o, g), g <= h,
           NEW path \in Paths \cup {"none", "manager"}, path # "none",
           o.path # path => o = NoObject
    PROVE  /\ Sane(Asked(o, path, h), h) /\ Asked(o, path, h).path = path
           /\ Asked(o, path, h).reading /\ Asked(o, path, h).readGeneration = h
           /\ Asked(o, path, h).fact = o.fact /\ Asked(o, path, h).held = o.held
           /\ \A life : ObjectOf(o, life) => ObjectOf(Asked(o, path, h), life)
<1> DEFINE p == Asked(o, path, h)
<1>1. o \in Object
  BY DEF Sane
<1>2. p \in Object /\ p.path = path /\ p.reading /\ p.readGeneration = h /\ p.fact = o.fact
      /\ p.held = o.held
  BY <1>1, AskedIs DEF Asked, AnObject
<1> HIDE DEF p
<1>3. o = NoObject => o.fact = Unknown /\ Len(o.held) = 0
  BY NoObjectSane, EmptySeq
<1>4. Sane(p, h)
  BY <1>2, <1>3 DEF Sane
<1>5. \A life : ObjectOf(o, life) => ObjectOf(p, life)
  BY <1>2 DEF ObjectOf
<1> QED BY <1>2, <1>4, <1>5 DEF p

LEMMA AdoptedSane ==
    ASSUME NEW o, NEW g \in Nat, Sane(o, g), NEW fact \in Fact,
           fact # Unknown => fact.path = o.path /\ o.path # "none"
    PROVE  /\ Sane(Adopted(o, fact), g) /\ Adopted(o, fact).path = o.path
           /\ ~Adopted(o, fact).reading /\ Adopted(o, fact).held = <<>>
           /\ Adopted(o, fact).readGeneration = o.readGeneration
           /\ \A life : ObjectOf(o, life) /\ Of(fact, life) => ObjectOf(Adopted(o, fact), life)
<1> DEFINE p == Adopted(o, fact)
<1>1. o \in Object /\ o.held \in Seq(Fact)
  BY DEF Sane, Object
<1>2. p \in Object /\ p.path = o.path /\ ~p.reading /\ p.readGeneration = o.readGeneration
      /\ p.held = <<>> /\ p.fact = (IF o.held = <<>> THEN fact ELSE o.held[Len(o.held)])
  BY <1>1, AdoptedIs DEF Adopted, AnObject
<1> HIDE DEF p
<1>3. Len(p.held) = 0
  BY <1>2, EmptySeq
<1>4. o.held # <<>> => Len(o.held) \in 1..Len(o.held)
  BY <1>1, EmptySeq, LenProperties
<1>5. p.fact # Unknown => p.fact.path = p.path
  BY <1>2, <1>4 DEF Sane
<1>6. p.path = "none" => p = NoObject
  <2> SUFFICES ASSUME p.path = "none"
               PROVE  p = NoObject
    OBVIOUS
  <2>1. o = NoObject /\ fact = Unknown
    BY <1>2 DEF Sane
  <2>2. o.held = <<>> /\ o.readGeneration = 0 /\ o.path = "none"
    BY <2>1, NoObjectSane
  <2>3. p.fact = NoObject.fact /\ p.held = NoObject.held /\ p.reading = NoObject.reading
        /\ p.path = NoObject.path /\ p.readGeneration = NoObject.readGeneration
    BY <1>2, <2>1, <2>2, NoObjectSane DEF Object, NoObject
  <2> QED BY <1>2, <2>3, NoObjectIs, ObjectIs
<1>7. Sane(p, g)
  BY <1>2, <1>3, <1>5, <1>6 DEF Sane
<1>8. \A life : ObjectOf(o, life) /\ Of(fact, life) => ObjectOf(p, life)
  BY <1>2, <1>3, <1>4 DEF ObjectOf, Of
<1> QED BY <1>2, <1>7, <1>8 DEF p

LEMMA ChangedBySane ==
    ASSUME NEW o, NEW g \in Nat, Sane(o, g), NEW fact \in Fact,
           fact.path = o.path, o.path # "none", fact.life # 0
    PROVE  /\ Sane(ChangedBy(o, fact), g) /\ ChangedBy(o, fact).path = o.path
           /\ ChangedBy(o, fact).reading = o.reading
           /\ ChangedBy(o, fact).readGeneration = o.readGeneration
           /\ ChangedBy(o, fact).fact = (IF o.reading THEN o.fact ELSE fact)
           /\ ChangedBy(o, fact).held = (IF o.reading THEN Append(o.held, fact) ELSE <<>>)
           /\ \A life : ObjectOf(o, life) /\ fact.life = life
                        => ObjectOf(ChangedBy(o, fact), life)
<1> DEFINE p == ChangedBy(o, fact)
<1>1. o \in Object /\ o.held \in Seq(Fact) /\ o.reading \in BOOLEAN
  BY DEF Sane, Object
<1>2. p \in Object /\ p.path = o.path /\ p.reading = o.reading
      /\ p.readGeneration = o.readGeneration
      /\ p.fact = (IF o.reading THEN o.fact ELSE fact)
      /\ p.held = (IF o.reading THEN Append(o.held, fact) ELSE o.held)
  BY <1>1, ChangedByIs DEF ChangedBy, AnObject
<1> HIDE DEF p
<1>3. ~o.reading => o.held = <<>> /\ Len(o.held) = 0
  BY EmptySeq DEF Sane
<1>4. PICK s : s = Append(o.held, fact)
  OBVIOUS
<1>5. Len(s) = Len(o.held) + 1 /\ s[Len(o.held) + 1] = fact
      /\ (\A i \in 1..Len(o.held) : s[i] = o.held[i]) /\ Len(o.held) \in Nat
  BY <1>1, <1>4, AppendProperties, LenProperties
<1>6. \A i \in 1..Len(s) : s[i] = fact \/ (i \in 1..Len(o.held) /\ s[i] = o.held[i])
  BY <1>5
<1>7. \A i \in 1..Len(p.held) : p.held[i] = fact
                                \/ (i \in 1..Len(o.held) /\ p.held[i] = o.held[i])
  BY <1>2, <1>4, <1>6
<1>8. Sane(p, g)
  BY <1>1, <1>2, <1>3, <1>7 DEF Sane
<1>9. \A life : ObjectOf(o, life) /\ fact.life = life => ObjectOf(p, life)
  BY <1>2, <1>7 DEF ObjectOf, Of
<1> QED BY <1>2, <1>3, <1>8, <1>9 DEF p

LEMMA SaneLater ==
    ASSUME NEW o, NEW g \in Nat, NEW h \in Nat, Sane(o, g), g <= h
    PROVE  Sane(o, h)
  BY DEF Sane, Object

-----------------------------------------------------------------------------
(* The walk. *)

Answering(x) == x.what \in Replies \cup {"refused"}

TruthfulCall(x) ==
    /\ x.what = "manager" => x.path = "manager"
    /\ x.what = "named" => x.path = "none"
    /\ x.what = "device" => x.path \in Paths

\* The object at this path waits for the read of this generation.
Waits(o, path, generation) ==
    o.path = path /\ o.reading /\ o.readGeneration = generation

\* A call of the walk now has its object waiting; the device is read after it was named.
CallFits(x, g, manager, device) ==
    /\ x.generation \in 1..g /\ TruthfulCall(x)
    /\ x.what = "manager" /\ x.generation = g => Waits(manager, "manager", g)
    /\ x.what = "device" /\ x.generation = g => Waits(device, x.path, g)
    /\ x.what = "named" => device = NoObject
    /\ (/\ x.what = "device" /\ device.path # "none"
        /\ x.generation = device.readGeneration) => x.path = device.path

MessageFits(x, g, manager, device) ==
    Answering(x) =>
        /\ x.generation \in 1..g
        /\ x.what \in {"manager", "refused"} /\ x.generation = g /\ x.path = "manager" =>
               Waits(manager, "manager", g)
        /\ x.what = "named" /\ x.generation = g => device = NoObject
        /\ x.what \in {"device", "refused"} /\ x.generation = g /\ x.path \in Paths =>
               Waits(device, x.path, g)
        /\ x.what = "refused" /\ x.generation = g /\ x.path = "none" => device = NoObject

\* x is a read of this object, or ends it.
Ends == {"manager", "device", "refused"}
IsRead(x, o, g) == x.what # "named" /\ x.path = o.path /\ x.generation = g
EndsRead(x, o, g) == x.what \in Ends /\ x.path = o.path /\ x.generation = g

\* An object that waits for a read of the walk now has the read, or its answer, on its way.
Expects(s, c, g, o) ==
    o.reading /\ o.readGeneration = g =>
        \/ \E i \in 1..Len(c) : IsRead(c[i], o, g)
        \/ \E i \in 1..Len(s) : EndsRead(s[i], o, g)

\* The walk's one question, or the answer to it, is the last of its generation, and is there
\* if an object waits for it.
WalkOf(s, c, g, manager, device) ==
    /\ Expects(s, c, g, manager) /\ Expects(s, c, g, device)
    /\ \A i \in 1..Len(c) : CallFits(c[i], g, manager, device)
    /\ \A i \in 1..Len(s) : MessageFits(s[i], g, manager, device)
    /\ \A i \in 1..Len(c) : c[i].generation = g => i = Len(c)
    /\ \A i \in 1..Len(s) :
           Answering(s[i]) /\ s[i].generation = g =>
               c = <<>> /\ \A j \in 1..Len(s) :
                               Answering(s[j]) /\ s[j].generation = g => j = i

\* o became p, which still waits if it waited for a read of the walk now.
Kept(o, p, g) ==
    /\ p.path = o.path /\ p.readGeneration = o.readGeneration
    /\ o.readGeneration = g => (o.reading <=> p.reading)
    /\ o = NoObject => p = NoObject

LEMMA KeptFits ==
    ASSUME NEW g, NEW m, NEW d, NEW n, NEW e, Kept(m, n, g), Kept(d, e, g), NEW x
    PROVE  /\ CallFits(x, g, m, d) => CallFits(x, g, n, e)
           /\ MessageFits(x, g, m, d) => MessageFits(x, g, n, e)
  BY DEF Kept, CallFits, MessageFits, Waits

LEMMA WalkRead ==
    ASSUME NEW S, NEW s \in Seq(S), NEW q \in Seq(S), Drops(s, q), s # <<>>,
           NEW c, NEW g, NEW m, NEW d, NEW n, NEW e, WalkOf(s, c, g, m, d),
           Kept(m, n, g), Kept(d, e, g), Answering(s[1]) => s[1].generation # g
    PROVE  WalkOf(q, c, g, n, e)
<1>1. Len(s) \in Nat \ {0} /\ Len(q) \in Nat /\ Len(q) = Len(s) - 1
      /\ \A i \in 1..Len(q) : q[i] = s[i + 1] /\ i + 1 \in 1..Len(s)
  BY EmptySeq, LenProperties DEF Drops
<1>2. \A i \in 1..Len(c) : CallFits(c[i], g, n, e)
  BY KeptFits DEF WalkOf
<1>3. \A i \in 1..Len(q) : MessageFits(q[i], g, n, e)
  <2> TAKE i \in 1..Len(q)
  <2>1. MessageFits(q[i], g, m, d)
    BY <1>1 DEF WalkOf
  <2> QED BY <2>1, KeptFits
<1>4. \A i \in 1..Len(c) : c[i].generation = g => i = Len(c)
  BY DEF WalkOf
<1>5. ASSUME NEW i \in 1..Len(q), Answering(q[i]), q[i].generation = g
      PROVE  c = <<>> /\ \A j \in 1..Len(q) : Answering(q[j]) /\ q[j].generation = g => j = i
  <2>1. c = <<>> /\ \A j \in 1..Len(s) : Answering(s[j]) /\ s[j].generation = g => j = i + 1
    BY <1>1, <1>5 DEF WalkOf
  <2>2. \A j \in 1..Len(q) : Answering(q[j]) /\ q[j].generation = g => j + 1 = i + 1
    BY <1>1, <2>1
  <2> QED BY <2>1, <2>2
<1>6. ASSUME NEW o, NEW p, Kept(o, p, g), Expects(s, c, g, o)
      PROVE  Expects(q, c, g, p)
  <2> SUFFICES ASSUME p.reading, p.readGeneration = g, NEW i \in 1..Len(s), EndsRead(s[i], o, g)
               PROVE  \E j \in 1..Len(q) : EndsRead(q[j], p, g)
    BY <1>6 DEF Expects, Kept, IsRead
  <2>1. i # 1
    BY DEF EndsRead, Ends, Answering, Replies
  <2>2. i - 1 \in 1..Len(q) /\ q[i - 1] = s[i - 1 + 1] /\ i - 1 + 1 = i
    BY <1>1, <2>1
  <2> QED BY <1>6, <2>2 DEF EndsRead, Kept
<1>7. Expects(q, c, g, n) /\ Expects(q, c, g, e)
  BY <1>6 DEF WalkOf
<1> QED BY <1>2, <1>3, <1>4, <1>5, <1>7 DEF WalkOf

\* All of q is of s.
PartOf(q, s) == \A i \in 1..Len(q) : \E j \in 1..Len(s) : q[i] = s[j]

LEMMA DropsPart ==
    ASSUME NEW S, NEW s \in Seq(S), NEW q \in Seq(S)
    PROVE  PartOf(s, s) /\ (Drops(s, q) => PartOf(q, s))
<1>1. Len(s) \in Nat /\ Len(q) \in Nat
  BY LenProperties
<1>2. PartOf(s, s)
  BY DEF PartOf
<1>3. ASSUME Drops(s, q)
      PROVE  PartOf(q, s)
  <2>1. \A i \in 1..Len(q) : q[i] = s[i + 1] /\ i + 1 \in 1..Len(s)
    BY <1>1, <1>3 DEF Drops
  <2> QED BY <2>1 DEF PartOf
<1> QED BY <1>2, <1>3

\* Of the objects o and d, only o waits for a read of the generation g, which x asks for.
WaitsAnew(o, d, g, x, asks) ==
    /\ d.readGeneration # g
    /\ o.readGeneration = g => asks /\ IsRead(x, o, g)

\* A new generation, with its question if it asks one.
LEMMA WalkAnew ==
    ASSUME NEW S, NEW s \in Seq(S), NEW q \in Seq(S),
           PartOf(q, s), NEW C, NEW c \in Seq(C), NEW a \in Seq(C), NEW g \in Nat, NEW m, NEW d, NEW n,
           NEW e, WalkOf(s, c, g, m, d), e = d \/ e = NoObject,
           NEW x \in C, a = c \/ a = Append(c, x),
           a # c => CallFits(x, g + 1, n, e) /\ x.generation = g + 1,
           WaitsAnew(n, d, g + 1, x, a # c)
    PROVE  WalkOf(q, a, g + 1, n, e)
<1>1. NoObject.path = "none" /\ NoObject.readGeneration # g + 1
  BY DEF NoObject
<1>2. Len(c) \in Nat /\ Len(Append(c, x)) = Len(c) + 1 /\ Append(c, x)[Len(c) + 1] = x
      /\ \A i \in 1..Len(c) : Append(c, x)[i] = c[i]
  BY AppendProperties, LenProperties
<1>3. ASSUME NEW i \in 1..Len(c)
      PROVE  CallFits(c[i], g + 1, n, e) /\ c[i].generation # g + 1
  <2>1. CallFits(c[i], g, m, d)
    BY DEF WalkOf
  <2>2. c[i].generation \in 1..g + 1 /\ c[i].generation # g + 1
    BY <2>1 DEF CallFits
  <2> QED BY <1>1, <2>1, <2>2 DEF CallFits
<1>4. ASSUME NEW i \in 1..Len(q)
      PROVE  MessageFits(q[i], g + 1, n, e)
             /\ ~(Answering(q[i]) /\ q[i].generation = g + 1)
  <2>1. PICK j \in 1..Len(s) : q[i] = s[j]
    BY DEF PartOf
  <2>2. MessageFits(q[i], g, m, d)
    BY <2>1 DEF WalkOf
  <2>3. Answering(q[i]) => q[i].generation \in 1..g + 1 /\ q[i].generation # g + 1
    BY <2>2 DEF MessageFits
  <2> QED BY <2>3 DEF MessageFits
<1>5. Expects(q, a, g + 1, n) /\ Expects(q, a, g + 1, e)
  <2>1. n.readGeneration = g + 1 => Len(a) \in 1..Len(a) /\ a[Len(a)] = x
    BY <1>2 DEF WaitsAnew
  <2> QED BY <1>1, <2>1 DEF Expects, WaitsAnew
<1>6. CASE a = c
  BY <1>3, <1>4, <1>6, <1>5 DEF WalkOf
<1>7. CASE a # c
  <2>1. Len(a) = Len(c) + 1 /\ a[Len(a)] = x /\ \A i \in 1..Len(a) : i = Len(a) \/ (i \in 1..Len(c) /\ a[i] = c[i])
    BY <1>2, <1>7
  <2>2. \A i \in 1..Len(a) : CallFits(a[i], g + 1, n, e)
    BY <1>3, <1>7, <2>1
  <2>3. \A i \in 1..Len(a) : a[i].generation = g + 1 => i = Len(a)
    BY <1>3, <2>1
  <2> QED BY <1>4, <1>5, <2>2, <2>3 DEF WalkOf
<1> QED BY <1>6, <1>7

\* p, which was o, waits for the question x that the walk asks next, if it waits for any.
WaitsFor(p, o, y, g, x, asks) ==
    p.reading /\ p.readGeneration = g =>
        (asks /\ IsRead(x, p, g)) \/ (p = o /\ ~EndsRead(y, o, g))

\* The answer of the walk now, and its next question if it asks one.
LEMMA WalkGoesOn ==
    ASSUME NEW S, NEW s \in Seq(S), NEW q \in Seq(S), Drops(s, q), s # <<>>,
           NEW C, NEW c \in Seq(C), NEW a \in Seq(C), NEW g \in Nat, NEW m, NEW d, NEW n,
           NEW e, WalkOf(s, c, g, m, d), Answering(s[1]), s[1].generation = g,
           NEW x \in C, a = c \/ a = Append(c, x),
           a # c => CallFits(x, g, n, e),
           WaitsFor(n, m, s[1], g, x, a # c), WaitsFor(e, d, s[1], g, x, a # c)
    PROVE  WalkOf(q, a, g, n, e) /\ c = <<>>
           /\ \A i \in 1..Len(q) : ~(Answering(q[i]) /\ q[i].generation = g)
<1>1. Len(s) \in Nat \ {0} /\ Len(q) \in Nat /\ Len(q) = Len(s) - 1
      /\ \A i \in 1..Len(q) : q[i] = s[i + 1] /\ i + 1 \in 1..Len(s) /\ i + 1 # 1
  BY EmptySeq, LenProperties DEF Drops
<1>2. c = <<>> /\ \A j \in 1..Len(s) : Answering(s[j]) /\ s[j].generation = g => j = 1
  <2>1. 1 \in 1..Len(s)
    BY <1>1
  <2> QED BY <2>1 DEF WalkOf
<1>3. \A i \in 1..Len(q) : ~(Answering(q[i]) /\ q[i].generation = g)
  BY <1>1, <1>2
<1>4. \A i \in 1..Len(q) : MessageFits(q[i], g, n, e)
  <2> TAKE i \in 1..Len(q)
  <2>1. MessageFits(q[i], g, m, d)
    BY <1>1 DEF WalkOf
  <2> QED BY <1>3, <2>1 DEF MessageFits
<1>5. Len(c) = 0 /\ Len(Append(c, x)) = 1 /\ Append(c, x)[1] = x
  BY <1>2, EmptySeq, AppendProperties
<1>6. \A i \in 1..Len(a) : CallFits(a[i], g, n, e) /\ i = Len(a)
  <2>1. CASE a = c
    BY <1>5, <2>1
  <2>2. CASE a # c
    <3>1. Len(a) = 1 /\ a[1] = x /\ \A i \in 1..1 : i = 1
      BY <1>5, <2>2
    <3> QED BY <2>2, <3>1
  <2> QED BY <2>1, <2>2
<1>7. ASSUME NEW o, NEW p, Expects(s, c, g, o), WaitsFor(p, o, s[1], g, x, a # c)
      PROVE  Expects(q, a, g, p)
  <2> SUFFICES ASSUME p.reading, p.readGeneration = g
               PROVE  a # c /\ IsRead(x, p, g)
    BY <1>5 DEF Expects
  <2> SUFFICES ASSUME p = o, ~EndsRead(s[1], o, g)
               PROVE  FALSE
    BY <1>7 DEF WaitsFor
  <2>1. PICK i \in 1..Len(s) : EndsRead(s[i], o, g)
    BY <1>2, <1>5, <1>7 DEF Expects
  <2>2. i = 1
    BY <1>2, <2>1 DEF EndsRead, Ends, Answering, Replies
  <2> QED BY <2>1, <2>2
<1>8. Expects(q, a, g, n) /\ Expects(q, a, g, e)
  BY <1>7 DEF WalkOf
<1> QED BY <1>2, <1>3, <1>4, <1>6, <1>8 DEF WalkOf

\* The call that is next is answered.
LEMMA WalkAnswered ==
    ASSUME NEW S, NEW s \in Seq(S), NEW q \in Seq(S), NEW e \in S, Adds(s, q, Len(s) + 1, e),
           NEW C, NEW c \in Seq(C), NEW a \in Seq(C), Drops(c, a), c # <<>>,
           NEW g \in Nat, NEW m, NEW d, WalkOf(s, c, g, m, d),
           e.what \in {c[1].what, "refused"}, e.generation = c[1].generation,
           e.path = c[1].path \/ e.what = "named",
           c[1].what \in Replies, "none" \notin Paths, "manager" \notin Paths
    PROVE  WalkOf(q, a, g, m, d)
<1>1. Len(s) \in Nat /\ Len(q) \in Nat /\ Len(q) = Len(s) + 1 /\ q[Len(q)] = e
      /\ \A i \in 1..Len(q) : i = Len(q) \/ (i \in 1..Len(s) /\ q[i] = s[i])
  BY LenProperties DEF Adds
<1>2. Len(c) \in Nat \ {0} /\ Len(a) \in Nat /\ Len(a) = Len(c) - 1 /\ 1 \in 1..Len(c)
      /\ \A i \in 1..Len(a) : a[i] = c[i + 1] /\ i + 1 \in 1..Len(c)
  BY EmptySeq, LenProperties DEF Drops
<1>3. CallFits(c[1], g, m, d)
  BY <1>2 DEF WalkOf
<1>4. MessageFits(e, g, m, d)
  BY <1>3 DEF CallFits, MessageFits, TruthfulCall, Answering, Replies
<1>5. \A i \in 1..Len(a) : CallFits(a[i], g, m, d)
  BY <1>2 DEF WalkOf
<1>6. \A i \in 1..Len(q) : MessageFits(q[i], g, m, d)
  BY <1>1, <1>4 DEF WalkOf
<1>7. \A i \in 1..Len(a) : a[i].generation = g => i = Len(a)
  <2> SUFFICES ASSUME NEW i \in 1..Len(a), a[i].generation = g
               PROVE  i = Len(a)
    OBVIOUS
  <2>1. c[i + 1].generation = g /\ i + 1 \in 1..Len(c)
    BY <1>2
  <2>2. i + 1 = Len(c)
    BY <2>1 DEF WalkOf
  <2> QED BY <1>2, <2>2
<1>8. \A i \in 1..Len(s) : ~(Answering(s[i]) /\ s[i].generation = g)
  BY DEF WalkOf
<1>9. e.generation = g => a = <<>>
  <2>1. e.generation = g => Len(c) = 1
    BY <1>2 DEF WalkOf
  <2> QED BY <1>2, <2>1, EmptySeq
<1>10. ASSUME NEW i \in 1..Len(q), Answering(q[i]), q[i].generation = g
       PROVE  a = <<>> /\ \A j \in 1..Len(q) : Answering(q[j]) /\ q[j].generation = g => j = i
  BY <1>1, <1>8, <1>9, <1>10
<1>11. ASSUME NEW o, Expects(s, c, g, o)
       PROVE  Expects(q, a, g, o)
  <2>1. \A i \in 1..Len(s) : q[i] = s[i] /\ i \in 1..Len(q)
    BY <1>1 DEF Adds
  <2>2. ASSUME NEW i \in 1..Len(c), IsRead(c[i], o, g)
        PROVE  Expects(q, a, g, o)
    <3>1. CASE i = 1
      <4>1. EndsRead(q[Len(q)], o, g) /\ Len(q) \in 1..Len(q)
        BY <1>1, <2>2, <3>1 DEF IsRead, EndsRead, Ends, Replies
      <4> QED BY <4>1 DEF Expects
    <3>2. CASE i # 1
      <4>1. i - 1 \in 1..Len(a) /\ a[i - 1] = c[i - 1 + 1] /\ i - 1 + 1 = i
        BY <1>2, <3>2
      <4> QED BY <2>2, <4>1 DEF Expects
    <3> QED BY <3>1, <3>2
  <2> QED BY <1>11, <2>1, <2>2 DEF Expects
<1>12. Expects(q, a, g, m) /\ Expects(q, a, g, d)
  BY <1>11 DEF WalkOf
<1> QED BY <1>5, <1>6, <1>7, <1>10, <1>12 DEF WalkOf

\* A signal is sent.
LEMMA WalkSent ==
    ASSUME NEW S, NEW s \in Seq(S), NEW q \in Seq(S), NEW k, NEW e, Adds(s, q, k, e),
           NEW c, NEW g, NEW m, NEW d, WalkOf(s, c, g, m, d), ~Answering(e)
    PROVE  WalkOf(q, c, g, m, d)
<1>1. Len(s) \in Nat /\ Len(q) \in Nat /\ Len(q) = Len(s) + 1 /\ k \in 1..Len(s) + 1
      /\ q[k] = e /\ (\A i \in 1..k - 1 : q[i] = s[i]) /\ (\A i \in k..Len(s) : q[i + 1] = s[i])
  BY LenProperties DEF Adds
<1>2. ASSUME NEW i \in 1..Len(q), i # k
      PROVE  \E l \in 1..Len(s) : q[i] = s[l] /\ ((i < k /\ l = i) \/ (i > k /\ l = i - 1))
  <2>1. CASE i < k
    <3>1. i \in 1..Len(s) /\ i \in 1..k - 1
      BY <1>1, <2>1
    <3>2. q[i] = s[i]
      BY <1>1, <3>1
    <3> QED BY <1>1, <2>1, <3>1, <3>2
  <2>2. CASE i > k
    <3>1. i - 1 \in k..Len(s) /\ q[i - 1 + 1] = s[i - 1] /\ i - 1 + 1 = i
      BY <1>1, <2>2
    <3> QED BY <1>1, <2>2, <3>1
  <2> QED BY <1>1, <1>2, <2>1, <2>2
<1>3. ASSUME NEW i \in 1..Len(q)
      PROVE  MessageFits(q[i], g, m, d)
  <2>1. CASE i = k
    BY <1>1, <2>1 DEF MessageFits
  <2>2. CASE i # k
    BY <1>2, <2>2 DEF WalkOf
  <2> QED BY <2>1, <2>2
<1>4. ASSUME NEW i \in 1..Len(q), Answering(q[i]), q[i].generation = g
      PROVE  c = <<>> /\ \A j \in 1..Len(q) : Answering(q[j]) /\ q[j].generation = g => j = i
  <2>1. i # k
    BY <1>1, <1>4
  <2>2. PICK l \in 1..Len(s) : q[i] = s[l] /\ ((i < k /\ l = i) \/ (i > k /\ l = i - 1))
    BY <1>2, <2>1
  <2>3. c = <<>> /\ \A j \in 1..Len(s) : Answering(s[j]) /\ s[j].generation = g => j = l
    BY <1>4, <2>2 DEF WalkOf
  <2>4. ASSUME NEW j \in 1..Len(q), Answering(q[j]), q[j].generation = g
        PROVE  j = i
    <3>1. j # k
      BY <1>1, <2>4
    <3>2. PICK n \in 1..Len(s) : q[j] = s[n] /\ ((j < k /\ n = j) \/ (j > k /\ n = j - 1))
      BY <1>2, <3>1
    <3>3. n = l
      BY <2>3, <2>4, <3>2
    <3> QED BY <1>1, <2>2, <3>2, <3>3
  <2> QED BY <2>3, <2>4
<1>5. ASSUME NEW i \in 1..Len(s)
      PROVE  \E j \in 1..Len(q) : q[j] = s[i]
  <2>1. i \in 1..k - 1 \/ i \in k..Len(s)
    BY <1>1
  <2> QED BY <1>1, <2>1
<1>6. \A o : Expects(s, c, g, o) => Expects(q, c, g, o)
  BY <1>5 DEF Expects
<1> QED BY <1>3, <1>4, <1>6 DEF WalkOf

FactKinds == {"manager", "device", "managerChanged", "deviceChanged"}

WalkIn(s, m) == WalkOf(s, m.calls, m.generation, m.manager, m.device)

\* What had facts of one life still has, if the message x has none of another.
SameLife(m, n, x) ==
    \A life : ServiceOf(m, life) /\ (x.what \in FactKinds => x.fact.life = life)
             => ServiceOf(n, life)

\* The service m became n by the message x: it is as sound, and has facts of one life if
\* it had facts of that life and x is of it.
Takes1(m, n, x) ==
    /\ Sound(n) /\ n.started = m.started /\ m.generation <= n.generation
    /\ SameLife(m, n, x)

\* What is in the way of a message: it is the first one.
Heads(s, q, m, x) ==
    /\ s \in Seq(BatteryMessage) /\ q \in Seq(BatteryMessage) /\ Drops(s, q) /\ s # <<>>
    /\ x = s[1] /\ x \in BatteryMessage /\ Truthful(x) /\ Sound(m) /\ m.generation \in Nat \ {0}
    /\ WalkIn(s, m)

LEMMA HeadFits ==
    ASSUME NEW s, NEW q, NEW m, NEW x, Heads(s, q, m, x)
    PROVE  MessageFits(x, m.generation, m.manager, m.device)
<1>1. 1 \in 1..Len(s)
  BY EmptySeq, LenProperties DEF Heads
<1> QED BY <1>1 DEF Heads, WalkIn, WalkOf

LEMMA SoundFields ==
    ASSUME NEW m, Sound(m)
    PROVE  /\ m \in Service /\ m.generation \in Nat /\ m.calls \in Seq(Call)
           /\ m.rules \in Rules /\ m.shown \in Shown /\ m.manager \in Object /\ m.device \in Object
           /\ m.manager.fact \in Fact /\ m.device.fact \in Fact
           /\ Sane(m.manager, m.generation) /\ Sane(m.device, m.generation)
           /\ m.rules.device = m.device.path /\ m.device.path # "manager"
           /\ m.manager.path \in {"none", "manager"}
           /\ m.rules.manager <=> m.manager.path = "manager"
           /\ m.device.path \in Paths \cup {"none"}
  BY ServiceFields DEF Sound, Rules

\* Nothing but the message is gone.
LEMMA KeepsIsSound ==
    ASSUME NEW s, NEW q, NEW m, NEW x, Heads(s, q, m, x),
           Answering(x) => x.generation # m.generation
    PROVE  Takes1(m, m, x) /\ WalkIn(q, m)
<1>1. Kept(m.manager, m.manager, m.generation) /\ Kept(m.device, m.device, m.generation)
  BY DEF Kept
<1>2. WalkIn(q, m)
  BY <1>1, WalkRead DEF Heads, WalkIn
<1> QED BY <1>2, SoundFields DEF Takes1, Heads, SameLife

LEMMA WalkFromManagerIsSound ==
    ASSUME NEW m, Sound(m), NEW x, NEW n, n = WalkFromManager(m)
    PROVE  /\ Takes1(m, n, x) /\ n.generation = m.generation + 1
           /\ n.shown = m.shown
           /\ n.device = m.device /\ Waits(n.manager, "manager", n.generation)
           /\ n.manager.fact = m.manager.fact /\ n.manager.held = m.manager.held
           /\ n.rules.devices = m.rules.devices /\ n.concluded = m.concluded
           /\ n.calls = Append(m.calls, [what |-> "manager", generation |-> n.generation,
                                         path |-> "manager"])
<1> DEFINE g == m.generation + 1
           a == Asked(m.manager, "manager", g)
<1>1. Is(n, m, g, a, m.device, [m.rules EXCEPT !.manager = TRUE], m.concluded, m.available,
         m.shown, Append(m.calls, [what |-> "manager", generation |-> g,
                                   path |-> "manager"]))
  BY SoundFields, WalkFromManagerIs
<1>2. m.generation \in Nat /\ g \in Nat /\ m.generation <= g
  BY SoundFields
<1>3. m.manager.path # "manager" => m.manager = NoObject
  BY DEF Sound, Sane
<1>4. Sane(m.manager, m.generation) /\ Sane(m.device, m.generation)
  BY DEF Sound
<1>5. /\ Sane(a, g) /\ a.path = "manager" /\ a.reading /\ a.readGeneration = g
      /\ a.fact = m.manager.fact /\ a.held = m.manager.held
      /\ \A life : ObjectOf(m.manager, life) => ObjectOf(a, life)
  <2> DEFINE path == "manager"
  <2>1. path \in Paths \cup {"none", "manager"} /\ path # "none"
        /\ (m.manager.path # path => m.manager = NoObject)
    BY <1>3
  <2> HIDE DEF path, g
  <2>2. /\ Sane(Asked(m.manager, path, g), g) /\ Asked(m.manager, path, g).path = path
        /\ Asked(m.manager, path, g).reading /\ Asked(m.manager, path, g).readGeneration = g
        /\ Asked(m.manager, path, g).fact = m.manager.fact
        /\ Asked(m.manager, path, g).held = m.manager.held
        /\ \A life : ObjectOf(m.manager, life) => ObjectOf(Asked(m.manager, path, g), life)
    BY <1>2, <1>4, <2>1, AskedSane
  <2> QED BY <2>2 DEF path
<1> HIDE DEF a
<1>6. Sane(m.device, g)
  BY <1>2, <1>4, SaneLater
<1>7. /\ n.rules.manager = TRUE /\ n.rules.device = m.rules.device
      /\ n.rules.devices = m.rules.devices
  <2>1. m.rules \in Rules
    BY SoundFields
  <2> QED BY <1>1, <2>1 DEF Is, Rules
<1>8. Sound(n)
  BY <1>1, <1>5, <1>6, <1>7 DEF Is, Sound
<1>9. SameLife(m, n, x)
  BY <1>1, <1>5 DEF Is, ServiceOf, SameLife
<1> QED BY <1>1, <1>2, <1>5, <1>7, <1>8, <1>9 DEF Is, Takes1, Waits

\* attach(), when the service has been started.
LEMMA AttachIsSound ==
    ASSUME NEW s, NEW q, NEW m, NEW x, Heads(s, q, m, x)
    PROVE  Takes1(m, WalkFromManager(m), x) /\ WalkIn(q, WalkFromManager(m))
<1> DEFINE n == WalkFromManager(m)
           c == [what |-> "manager", generation |-> n.generation, path |-> "manager"]
<1>1. /\ Takes1(m, n, x) /\ n.generation = m.generation + 1
      /\ n.device = m.device /\ Waits(n.manager, "manager", n.generation)
      /\ n.calls = Append(m.calls, c)
  BY WalkFromManagerIsSound DEF Heads
<1> HIDE DEF n
<1>2. c.what = "manager" /\ c.generation = n.generation /\ c.path = "manager"
  OBVIOUS
<1>3. n.generation \in Nat /\ m.generation \in Nat /\ c \in Call /\ m.calls \in Seq(Call)
      /\ n.calls \in Seq(Call)
  BY <1>1, SoundFields DEF Takes1, Heads, Call
<1> HIDE DEF c
<1>4. CallFits(c, m.generation + 1, n.manager, n.device)
  BY <1>1, <1>2, <1>3 DEF CallFits, TruthfulCall
<1>5. s \in Seq(BatteryMessage) /\ q \in Seq(BatteryMessage) /\ PartOf(q, s)
      /\ WalkOf(s, m.calls, m.generation, m.manager, m.device)
  BY DropsPart DEF Heads, WalkIn
<1>6. n.calls # m.calls
  BY <1>1, <1>3, AppendProperties
<1>7. WaitsAnew(n.manager, m.device, m.generation + 1, c, n.calls # m.calls)
  BY <1>1, <1>2, <1>3, <1>6, SoundFields DEF Heads, Sane, Object, IsRead, Waits, WaitsAnew
<1>8. WalkOf(q, n.calls, m.generation + 1, n.manager, n.device)
  BY <1>1, <1>2, <1>3, <1>4, <1>5, <1>7, WalkAnew
<1> QED BY <1>1, <1>8 DEF WalkIn, n

LEMMA GoesOn ==
    ASSUME NEW s \in Seq(BatteryMessage), NEW q \in Seq(BatteryMessage), Drops(s, q),
           s # <<>>, NEW m, NEW n, NEW g \in Nat, NEW c \in Call, m.calls \in Seq(Call),
           n.calls \in Seq(Call), WalkOf(s, m.calls, g, m.manager, m.device),
           Answering(s[1]), s[1].generation = g, n.calls = Append(m.calls, c),
           CallFits(c, g, n.manager, n.device),
           WaitsFor(n.manager, m.manager, s[1], g, c, TRUE),
           WaitsFor(n.device, m.device, s[1], g, c, TRUE)
    PROVE  WalkOf(q, n.calls, g, n.manager, n.device)
<1>1. PICK a \in Seq(Call) : a = m.calls
  OBVIOUS
<1>2. PICK b \in Seq(Call) : b = n.calls
  OBVIOUS
<1>3. PICK nm, nd : nm = n.manager /\ nd = n.device
  OBVIOUS
<1>4. PICK om, od : om = m.manager /\ od = m.device
  OBVIOUS
<1>5. b = a \/ b = Append(a, c)
  BY <1>1, <1>2
<1>6. b # a => CallFits(c, g, nm, nd)
  BY <1>3
<1>7. WalkOf(s, a, g, om, od)
  BY <1>1, <1>4
<1>8. b # a
  BY <1>1, <1>2, AppendProperties, LenProperties
<1>9. WaitsFor(nm, om, s[1], g, c, b # a) /\ WaitsFor(nd, od, s[1], g, c, b # a)
  BY <1>3, <1>4, <1>8 DEF WaitsFor
<1>10. WalkOf(q, b, g, nm, nd)
  BY <1>5, <1>6, <1>7, <1>9, WalkGoesOn
<1> QED BY <1>2, <1>3, <1>10

LEMMA ManagerReadIsSound ==
    ASSUME NEW s, NEW q, NEW m, NEW x, Heads(s, q, m, x), x.what = "manager"
    PROVE  Takes1(m, ManagerRead(m, x), x) /\ WalkIn(q, ManagerRead(m, x))
<1> DEFINE n == ManagerRead(m, x)
           g == m.generation
           a == Adopted(m.manager, x.fact)
           c == [what |-> "named", generation |-> g, path |-> "none"]
<1>1. x.fact \in Fact /\ x \in BatteryMessage /\ m \in Service /\ g \in Nat \ {0} /\ Sound(m)
      /\ m.calls \in Seq(Call) /\ s \in Seq(BatteryMessage) /\ q \in Seq(BatteryMessage)
      /\ Drops(s, q) /\ s # <<>> /\ s[1] = x /\ Truthful(x)
      /\ WalkOf(s, m.calls, g, m.manager, m.device)
  BY SoundFields DEF BatteryMessage, Heads, WalkIn
<1>2. CASE x.generation # g
  <2>1. n = m
    BY <1>1, <1>2, ManagerReadIs
  <2> QED BY <1>2, <2>1, KeepsIsSound
<1>3. CASE x.generation = g
  <2>1. Is(n, m, g, a, NoObject, [m.rules EXCEPT !.device = "none"], m.concluded,
           m.available, m.shown, Append(m.calls, c))
    BY <1>1, <1>3, ManagerReadIs
  <2>2. Waits(m.manager, "manager", g)
    BY <1>3, HeadFits DEF MessageFits, Answering, Truthful, Heads, Replies
  <2>3. x.fact.path = m.manager.path /\ m.manager.path # "none" /\ m.manager.path = "manager"
    BY <1>1, <2>2 DEF Truthful, Waits
  <2>4. Sane(m.manager, g)
    BY <1>1 DEF Sound
  <2>5. /\ Sane(a, g) /\ a.path = m.manager.path /\ ~a.reading
        /\ \A life : ObjectOf(m.manager, life) /\ Of(x.fact, life) => ObjectOf(a, life)
    BY <1>1, <2>3, <2>4, AdoptedSane
  <2>6. /\ n.rules.manager = m.rules.manager /\ n.rules.device = "none"
    <3>1. m.rules \in Rules
      BY <1>1, SoundFields
    <3> QED BY <2>1, <3>1 DEF Is, Rules
  <2> HIDE DEF a, n
  <2>7. Sound(n)
    BY <1>1, <2>1, <2>3, <2>5, <2>6, NoObjectSane DEF Is, Sound
  <2>8. SameLife(m, n, x)
    BY <2>1, <2>5, NoObjectSane DEF Is, ServiceOf, FactKinds, Of, SameLife
  <2>9. c \in Call /\ c.what = "named" /\ c.path = "none" /\ c.generation = g
    BY <1>1 DEF Call
  <2> HIDE DEF c
  <2>10. n.calls = Append(m.calls, c) /\ n.calls \in Seq(Call) /\ n.device = NoObject
         /\ n.generation = g
    BY <2>1, SoundFields, <2>7 DEF Is
  <2>11. CallFits(c, g, n.manager, n.device)
    BY <1>1, <2>9, <2>10 DEF CallFits, TruthfulCall
  <2>12. Answering(s[1]) /\ s[1].generation = g
    BY <1>1, <1>3 DEF Answering, Replies
  <2>13. ~n.manager.reading /\ ~n.device.reading
    BY <1>1, <2>1, <2>5, NoObjectSane DEF Is
  <2>14. WalkOf(q, n.calls, g, n.manager, n.device)
    BY <1>1, <2>9, <2>10, <2>11, <2>12, <2>13, GoesOn DEF WaitsFor
  <2> QED BY <1>1, <2>1, <2>7, <2>8, <2>10, <2>14 DEF Takes1, WalkIn, Is, n
<1> QED BY <1>2, <1>3

LEMMA DeviceNamedIsSound ==
    ASSUME NEW s, NEW q, NEW m, NEW x, Heads(s, q, m, x), x.what = "named"
    PROVE  Takes1(m, DeviceNamed(m, x), x) /\ WalkIn(q, DeviceNamed(m, x))
<1> DEFINE n == DeviceNamed(m, x)
           g == m.generation
           a == Asked(m.device, x.path, g)
           c == [what |-> "device", generation |-> g, path |-> x.path]
<1>1. x.fact \in Fact /\ x \in BatteryMessage /\ m \in Service /\ g \in Nat \ {0} /\ Sound(m)
      /\ m.calls \in Seq(Call) /\ s \in Seq(BatteryMessage) /\ q \in Seq(BatteryMessage)
      /\ Drops(s, q) /\ s # <<>> /\ s[1] = x /\ Truthful(x)
      /\ WalkOf(s, m.calls, g, m.manager, m.device)
  BY SoundFields DEF BatteryMessage, Heads, WalkIn
<1>2. x.path # "manager" /\ (x.path # "none" => x.path \in Paths)
  BY <1>1 DEF Truthful, BatteryMessage
<1>3. CASE x.generation # g
  <2>1. n = m
    BY <1>1, <1>2, <1>3, DeviceNamedIs
  <2> QED BY <1>3, <2>1, KeepsIsSound
<1>4. CASE x.generation = g
  <2>1. m.device = NoObject
    BY <1>4, HeadFits DEF MessageFits, Answering, Heads, Replies
  <2>2. Answering(s[1]) /\ s[1].generation = g /\ \A o : ~EndsRead(s[1], o, g)
    BY <1>1, <1>4 DEF Answering, Replies, EndsRead, Ends
  <2>3. CASE x.path = "none"
    <3>1. Is(n, m, g, m.manager, m.device, m.rules, TRUE, m.manager.fact # Unknown,
             ShownOf(m), m.calls)
      BY <1>1, <1>2, <1>4, <2>3, DeviceNamedIs
    <3> HIDE DEF n
    <3>2. Sound(n)
      BY <1>1, <3>1 DEF Is, Sound
    <3>3. SameLife(m, n, x)
      BY <3>1 DEF Is, ServiceOf, ShownOf, ObjectOf, SameLife
    <3>4. n.calls = m.calls /\ n.calls \in Seq(Call) /\ n.generation = g
      BY <1>1, <3>1 DEF Is
    <3>5. c \in Call
      BY <1>1, <1>2, <2>3 DEF Call, BatteryMessage
    <3>6. n.manager = m.manager /\ n.device = m.device
      BY <3>1 DEF Is
    <3>7. WalkOf(q, n.calls, g, n.manager, n.device)
      BY <1>1, <2>2, <3>4, <3>5, <3>6, WalkGoesOn DEF WaitsFor
    <3> QED BY <1>1, <3>1, <3>2, <3>3, <3>4, <3>7 DEF Takes1, WalkIn, Is, n
  <2>4. CASE x.path # "none"
    <3>1. Is(n, m, g, m.manager, a, [m.rules EXCEPT !.device = x.path], m.concluded,
             m.available, m.shown, Append(m.calls, c))
      BY <1>1, <1>2, <1>4, <2>4, DeviceNamedIs
    <3>2. Sane(m.device, g)
      BY <1>1 DEF Sound
    <3>3. /\ Sane(a, g) /\ a.path = x.path /\ a.reading /\ a.readGeneration = g
          /\ \A life : ObjectOf(m.device, life) => ObjectOf(a, life)
      BY <1>1, <1>2, <2>1, <2>4, <3>2, AskedSane
    <3>4. n.rules.manager = m.rules.manager /\ n.rules.device = x.path
      <4>1. m.rules \in Rules
        BY <1>1, SoundFields
      <4> QED BY <3>1, <4>1 DEF Is, Rules
    <3>5. c \in Call /\ c.what = "device" /\ c.path = x.path /\ c.generation = g
      BY <1>1, <1>2 DEF Call, BatteryMessage
    <3> HIDE DEF a, n, c
    <3>6. Sound(n)
      BY <1>1, <1>2, <3>1, <3>3, <3>4 DEF Is, Sound
    <3>7. SameLife(m, n, x)
      BY <3>1, <3>3 DEF Is, ServiceOf, SameLife
    <3>8. n.calls = Append(m.calls, c) /\ n.calls \in Seq(Call) /\ n.device = a
          /\ n.manager = m.manager /\ n.generation = g
      BY <3>1, SoundFields, <3>6 DEF Is
    <3>9. CallFits(c, g, n.manager, n.device)
      BY <1>1, <1>2, <2>4, <3>3, <3>5, <3>8 DEF CallFits, TruthfulCall, Waits
    <3>10. WaitsFor(n.manager, m.manager, s[1], g, c, TRUE)
           /\ WaitsFor(n.device, m.device, s[1], g, c, TRUE)
      BY <2>2, <3>3, <3>5, <3>8 DEF WaitsFor, IsRead
    <3>11. WalkOf(q, n.calls, g, n.manager, n.device)
      BY <1>1, <2>2, <3>5, <3>8, <3>9, <3>10, GoesOn
    <3> QED BY <1>1, <3>1, <3>6, <3>7, <3>8, <3>11 DEF Takes1, WalkIn, Is, n
  <2> QED BY <2>3, <2>4
<1> QED BY <1>3, <1>4

LEMMA DeviceReadIsSound ==
    ASSUME NEW s, NEW q, NEW m, NEW x, Heads(s, q, m, x), x.what = "device"
    PROVE  Takes1(m, DeviceRead(m, x), x) /\ WalkIn(q, DeviceRead(m, x))
<1> DEFINE n == DeviceRead(m, x)
           g == m.generation
           a == Adopted(m.device, x.fact)
<1>1. x.fact \in Fact /\ x \in BatteryMessage /\ m \in Service /\ g \in Nat \ {0} /\ Sound(m)
      /\ m.calls \in Seq(Call) /\ s \in Seq(BatteryMessage) /\ q \in Seq(BatteryMessage)
      /\ Drops(s, q) /\ s # <<>> /\ s[1] = x /\ Truthful(x)
      /\ WalkOf(s, m.calls, g, m.manager, m.device)
  BY SoundFields DEF BatteryMessage, Heads, WalkIn
<1>2. CASE x.generation # g \/ m.device.path # x.path
  <2>1. n = m
    BY <1>1, <1>2, DeviceReadIs
  <2>2. x.path \in Paths /\ MessageFits(x, g, m.manager, m.device)
    BY <1>1, HeadFits DEF Truthful
  <2>3. x.generation # g
    BY <1>2, <2>2 DEF MessageFits, Answering, Replies, Waits
  <2> QED BY <2>1, <2>3, KeepsIsSound
<1>3. CASE x.generation = g /\ m.device.path = x.path
  <2>1. Is(n, m, g, m.manager, a, m.rules, TRUE, m.manager.fact # Unknown,
           [manager |-> m.manager.fact, device |-> a.fact], m.calls)
    BY <1>1, <1>3, DeviceReadIs
  <2>2. x.path \in Paths /\ x.fact.path = x.path /\ x.path # "none"
    BY <1>1, BoundsAssumption DEF Truthful
  <2>3. Sane(m.device, g)
    BY <1>1 DEF Sound
  <2>4. /\ Sane(a, g) /\ a.path = m.device.path /\ ~a.reading
        /\ \A life : ObjectOf(m.device, life) /\ Of(x.fact, life) => ObjectOf(a, life)
    BY <1>1, <1>3, <2>2, <2>3, AdoptedSane
  <2> HIDE DEF a, n
  <2>5. Sound(n)
    BY <1>1, <2>1, <2>4 DEF Is, Sound
  <2>6. SameLife(m, n, x)
    <3>1. x.what \in FactKinds
      BY DEF FactKinds
    <3>2. n.manager = m.manager /\ n.device = a /\ n.shown.manager = m.manager.fact
          /\ n.shown.device = a.fact
      BY <2>1 DEF Is
    <3> SUFFICES ASSUME NEW life, ServiceOf(m, life), x.fact.life = life
                 PROVE  ServiceOf(n, life)
      BY <3>1 DEF SameLife
    <3>3. ObjectOf(m.manager, life) /\ ObjectOf(m.device, life)
      BY DEF ServiceOf
    <3>4. ObjectOf(a, life)
      BY <2>4, <3>3 DEF Of
    <3> QED BY <3>2, <3>3, <3>4 DEF ServiceOf, ObjectOf
  <2>7. Answering(s[1]) /\ s[1].generation = g
    BY <1>1, <1>3 DEF Answering, Replies
  <2>8. n.calls = m.calls /\ n.generation = g /\ n.manager = m.manager /\ n.device = a
    BY <2>1 DEF Is
  <2>9. PICK c \in Call : c = [what |-> "named", generation |-> g, path |-> "none"]
    BY <1>1 DEF Call
  <2>10. ~EndsRead(s[1], m.manager, g)
    BY <1>1, <2>2, SoundFields, BoundsAssumption DEF EndsRead
  <2>11. WaitsFor(n.manager, m.manager, s[1], g, c, n.calls # m.calls)
         /\ WaitsFor(n.device, m.device, s[1], g, c, n.calls # m.calls)
    BY <2>4, <2>8, <2>10 DEF WaitsFor
  <2>12. WalkOf(q, n.calls, g, n.manager, n.device)
    BY <1>1, <2>7, <2>8, <2>9, <2>11, WalkGoesOn
  <2> QED BY <1>1, <2>1, <2>5, <2>6, <2>8, <2>12 DEF Takes1, WalkIn, Is, n
<1> QED BY <1>2, <1>3

\* The end of a read leaves an object as it was but for what it held back.
LEMMA EndedSane ==
    ASSUME NEW o, NEW g \in Nat, Sane(o, g), NEW own, NEW generation
    PROVE  /\ Sane(Ended(o, own, generation), g) /\ Ended(o, own, generation).path = o.path
           /\ Ended(o, own, generation).readGeneration = o.readGeneration
           /\ ~(own /\ o.readGeneration = generation) => Ended(o, own, generation) = o
           /\ own /\ o.readGeneration = generation => ~Ended(o, own, generation).reading
           /\ o = NoObject => Ended(o, own, generation) = NoObject
           /\ \A life : ObjectOf(o, life) => ObjectOf(Ended(o, own, generation), life)
<1>1. o.fact \in Fact /\ (o.fact # Unknown => o.fact.path = o.path /\ o.path # "none")
  BY NoObjectSane DEF Sane, Object
<1>2. /\ Sane(Adopted(o, o.fact), g) /\ Adopted(o, o.fact).path = o.path
      /\ Adopted(o, o.fact).readGeneration = o.readGeneration /\ ~Adopted(o, o.fact).reading
      /\ \A life : ObjectOf(o, life) /\ Of(o.fact, life) => ObjectOf(Adopted(o, o.fact), life)
  BY <1>1, AdoptedSane
<1>3. o = NoObject => Adopted(o, o.fact) = NoObject
  BY <1>2, NoObjectSane DEF Sane
<1> QED BY <1>2, <1>3 DEF Ended, ObjectOf

LEMMA FailedIsSound ==
    ASSUME NEW s, NEW q, NEW m, NEW x, Heads(s, q, m, x), x.what = "refused"
    PROVE  Takes1(m, Failed(m, x), x) /\ WalkIn(q, Failed(m, x))
<1> DEFINE n == Failed(m, x)
           g == m.generation
           a == Ended(m.manager, x.path = "manager", x.generation)
           b == Ended(m.device, x.path \in Paths, x.generation)
<1>1. x.fact \in Fact /\ x \in BatteryMessage /\ m \in Service /\ g \in Nat \ {0} /\ Sound(m)
      /\ m.calls \in Seq(Call) /\ s \in Seq(BatteryMessage) /\ q \in Seq(BatteryMessage)
      /\ Drops(s, q) /\ s # <<>> /\ s[1] = x
      /\ WalkOf(s, m.calls, g, m.manager, m.device)
  BY SoundFields DEF BatteryMessage, Heads, WalkIn
<1>2. /\ x.generation # g =>
             Is(n, m, g, a, b, m.rules, m.concluded, m.available, m.shown, m.calls)
      /\ x.generation = g =>
             Is(n, m, g, a, b, m.rules, m.concluded, a.fact # Unknown /\ m.concluded,
                [manager |-> a.fact, device |-> b.fact], m.calls)
  BY <1>1, FailedIs
<1>3. Sane(m.manager, g) /\ Sane(m.device, g)
  BY <1>1 DEF Sound
<1>4. /\ Sane(a, g) /\ a.path = m.manager.path /\ a.readGeneration = m.manager.readGeneration
      /\ ~(x.path = "manager" /\ m.manager.readGeneration = x.generation) => a = m.manager
      /\ x.path = "manager" /\ m.manager.readGeneration = x.generation => ~a.reading
      /\ m.manager = NoObject => a = NoObject
      /\ \A life : ObjectOf(m.manager, life) => ObjectOf(a, life)
  <2> DEFINE own == x.path = "manager"
  <2> HIDE DEF own, g
  <2>1. /\ Sane(Ended(m.manager, own, x.generation), g)
        /\ Ended(m.manager, own, x.generation).path = m.manager.path
        /\ Ended(m.manager, own, x.generation).readGeneration = m.manager.readGeneration
        /\ ~(own /\ m.manager.readGeneration = x.generation)
           => Ended(m.manager, own, x.generation) = m.manager
        /\ own /\ m.manager.readGeneration = x.generation
           => ~Ended(m.manager, own, x.generation).reading
        /\ m.manager = NoObject => Ended(m.manager, own, x.generation) = NoObject
        /\ \A life : ObjectOf(m.manager, life)
                     => ObjectOf(Ended(m.manager, own, x.generation), life)
    BY <1>1, <1>3, EndedSane
  <2> QED BY <2>1 DEF own, g
<1>5. /\ Sane(b, g) /\ b.path = m.device.path /\ b.readGeneration = m.device.readGeneration
      /\ ~(x.path \in Paths /\ m.device.readGeneration = x.generation) => b = m.device
      /\ x.path \in Paths /\ m.device.readGeneration = x.generation => ~b.reading
      /\ m.device = NoObject => b = NoObject
      /\ \A life : ObjectOf(m.device, life) => ObjectOf(b, life)
  <2> DEFINE own == x.path \in Paths
  <2> HIDE DEF own, g
  <2>1. /\ Sane(Ended(m.device, own, x.generation), g)
        /\ Ended(m.device, own, x.generation).path = m.device.path
        /\ Ended(m.device, own, x.generation).readGeneration = m.device.readGeneration
        /\ ~(own /\ m.device.readGeneration = x.generation)
           => Ended(m.device, own, x.generation) = m.device
        /\ own /\ m.device.readGeneration = x.generation
           => ~Ended(m.device, own, x.generation).reading
        /\ m.device = NoObject => Ended(m.device, own, x.generation) = NoObject
        /\ \A life : ObjectOf(m.device, life)
                     => ObjectOf(Ended(m.device, own, x.generation), life)
    BY <1>1, <1>3, EndedSane
  <2> QED BY <2>1 DEF own, g
<1> HIDE DEF a, b, n
<1>6. /\ n \in Service /\ n.started = m.started /\ n.generation = g /\ n.manager = a
      /\ n.device = b /\ n.rules = m.rules /\ n.calls = m.calls
      /\ \/ n.shown = m.shown
         \/ n.shown.manager = a.fact /\ n.shown.device = b.fact
  BY <1>2 DEF Is
<1>7. Sound(n)
  BY <1>1, <1>4, <1>5, <1>6 DEF Sound
<1>8. SameLife(m, n, x)
  BY <1>4, <1>5, <1>6 DEF ServiceOf, ObjectOf, SameLife
<1>9. CASE x.generation # g
  <2>1. Kept(m.manager, a, g) /\ Kept(m.device, b, g) /\ s[1].generation # g
    BY <1>1, <1>4, <1>5, <1>9 DEF Kept
  <2>2. WalkOf(q, n.calls, g, n.manager, n.device)
    BY <1>1, <1>6, <2>1, WalkRead
  <2> QED BY <1>1, <1>6, <1>7, <1>8, <2>2 DEF Takes1, WalkIn, n
<1>10. CASE x.generation = g
  <2>1. Answering(s[1]) /\ s[1].generation = g
    BY <1>1, <1>10 DEF Answering
  <2>2. PICK c \in Call : c = [what |-> "named", generation |-> g, path |-> "none"]
    BY <1>1 DEF Call
  <2>3. /\ a.reading /\ a.readGeneration = g => a = m.manager /\ ~EndsRead(s[1], m.manager, g)
        /\ b.reading /\ b.readGeneration = g => b = m.device /\ ~EndsRead(s[1], m.device, g)
    BY <1>1, <1>4, <1>5, <1>10, NoObjectSane, SoundFields DEF EndsRead, Sane
  <2>4. WalkOf(q, n.calls, g, n.manager, n.device)
    BY <1>1, <1>6, <2>1, <2>2, <2>3, WalkGoesOn DEF WaitsFor
  <2> QED BY <1>1, <1>6, <1>7, <1>8, <2>4 DEF Takes1, WalkIn, n
<1> QED BY <1>9, <1>10

LEMMA ManagerChangedIsSound ==
    ASSUME NEW s, NEW q, NEW m, NEW x, Heads(s, q, m, x), x.what = "managerChanged",
           m.rules.manager, NEW n, n = Publish([m EXCEPT !.manager = ApplyChange(@, x.fact)])
    PROVE  Takes1(m, n, x) /\ WalkIn(q, n)
<1> DEFINE g == m.generation
           a == ChangedBy(m.manager, x.fact)
<1>1. x.fact \in Fact /\ x \in BatteryMessage /\ m \in Service /\ g \in Nat \ {0} /\ Sound(m)
      /\ m.calls \in Seq(Call) /\ s \in Seq(BatteryMessage) /\ q \in Seq(BatteryMessage)
      /\ Drops(s, q) /\ s # <<>> /\ s[1] = x /\ Truthful(x)
      /\ WalkOf(s, m.calls, g, m.manager, m.device)
  BY SoundFields DEF BatteryMessage, Heads, WalkIn
<1>2. Is(n, m, g, a, m.device, m.rules, m.concluded, a.fact # Unknown /\ m.concluded,
         [manager |-> a.fact, device |-> m.device.fact], m.calls)
  BY <1>1, ManagerChangedIs
<1>3. x.fact.path = m.manager.path /\ m.manager.path # "none" /\ x.fact.life # 0
  BY <1>1 DEF Truthful, Sound
<1>4. Sane(m.manager, g)
  BY <1>1 DEF Sound
<1>5. /\ Sane(a, g) /\ a.path = m.manager.path /\ a.reading = m.manager.reading
      /\ a.readGeneration = m.manager.readGeneration
      /\ \A life : ObjectOf(m.manager, life) /\ x.fact.life = life => ObjectOf(a, life)
  BY <1>1, <1>3, <1>4, ChangedBySane
<1> HIDE DEF a
<1>6. Sound(n)
  BY <1>1, <1>2, <1>5 DEF Is, Sound
<1>7. SameLife(m, n, x)
  BY <1>2, <1>5 DEF Is, ServiceOf, FactKinds, ObjectOf, SameLife
<1>8. Kept(m.manager, a, g) /\ Kept(m.device, m.device, g)
  BY <1>3, <1>5, NoObjectSane DEF Kept
<1>9. n.manager = a /\ n.device = m.device /\ n.calls = m.calls /\ n.generation = g
  BY <1>2 DEF Is
<1>10. ~Answering(s[1])
  BY <1>1 DEF Answering, Replies
<1>11. WalkOf(q, n.calls, g, n.manager, n.device)
  BY <1>1, <1>8, <1>9, <1>10, WalkRead
<1> QED BY <1>1, <1>2, <1>6, <1>7, <1>9, <1>11 DEF Takes1, WalkIn, Is

LEMMA DeviceChangedIsSound ==
    ASSUME NEW s, NEW q, NEW m, NEW x, Heads(s, q, m, x), x.what = "deviceChanged",
           m.rules.device = x.path, NEW n,
           n = Publish([m EXCEPT !.device = ApplyChange(@, x.fact)])
    PROVE  Takes1(m, n, x) /\ WalkIn(q, n)
<1> DEFINE g == m.generation
           a == ChangedBy(m.device, x.fact)
<1>1. x.fact \in Fact /\ x \in BatteryMessage /\ m \in Service /\ g \in Nat \ {0} /\ Sound(m)
      /\ m.calls \in Seq(Call) /\ s \in Seq(BatteryMessage) /\ q \in Seq(BatteryMessage)
      /\ Drops(s, q) /\ s # <<>> /\ s[1] = x /\ Truthful(x)
      /\ WalkOf(s, m.calls, g, m.manager, m.device)
  BY SoundFields DEF BatteryMessage, Heads, WalkIn
<1>2. Is(n, m, g, m.manager, a, m.rules, m.concluded, m.manager.fact # Unknown /\ m.concluded,
         [manager |-> m.manager.fact, device |-> a.fact], m.calls)
  BY <1>1, DeviceChangedIs
<1>3. x.fact.path = m.device.path /\ m.device.path # "none" /\ x.fact.life # 0
  BY <1>1, BoundsAssumption DEF Truthful, Sound
<1>4. Sane(m.device, g)
  BY <1>1 DEF Sound
<1>5. /\ Sane(a, g) /\ a.path = m.device.path /\ a.reading = m.device.reading
      /\ a.readGeneration = m.device.readGeneration
      /\ \A life : ObjectOf(m.device, life) /\ x.fact.life = life => ObjectOf(a, life)
  BY <1>1, <1>3, <1>4, ChangedBySane
<1> HIDE DEF a
<1>6. Sound(n)
  BY <1>1, <1>2, <1>5 DEF Is, Sound
<1>7. SameLife(m, n, x)
  BY <1>2, <1>5 DEF Is, ServiceOf, FactKinds, ObjectOf, SameLife
<1>8. Kept(m.manager, m.manager, g) /\ Kept(m.device, a, g)
  BY <1>3, <1>5, NoObjectSane DEF Kept
<1>9. n.manager = m.manager /\ n.device = a /\ n.calls = m.calls /\ n.generation = g
  BY <1>2 DEF Is
<1>10. ~Answering(s[1])
  BY <1>1 DEF Answering, Replies
<1>11. WalkOf(q, n.calls, g, n.manager, n.device)
  BY <1>1, <1>8, <1>9, <1>10, WalkRead
<1> QED BY <1>1, <1>2, <1>6, <1>7, <1>9, <1>11 DEF Takes1, WalkIn, Is

LEMMA DevicesChangedIsSound ==
    ASSUME NEW s, NEW q, NEW m, NEW x, Heads(s, q, m, x), NEW n,
           n = WalkDisplayDevice([m EXCEPT !.generation = @ + 1])
    PROVE  Takes1(m, n, x) /\ WalkIn(q, n)
<1> DEFINE g == m.generation
           c == [what |-> "named", generation |-> g + 1, path |-> "none"]
<1>1. m \in Service /\ g \in Nat \ {0} /\ Sound(m)
      /\ m.calls \in Seq(Call) /\ s \in Seq(BatteryMessage) /\ q \in Seq(BatteryMessage)
      /\ PartOf(q, s) /\ WalkOf(s, m.calls, g, m.manager, m.device)
  BY SoundFields, DropsPart DEF Heads, WalkIn
<1>2. Is(n, m, g + 1, m.manager, NoObject, [m.rules EXCEPT !.device = "none"], m.concluded,
         m.available, m.shown, Append(m.calls, c))
  BY <1>1, DevicesChangedIs
<1>3. c \in Call /\ c.what = "named" /\ c.path = "none" /\ c.generation = g + 1
  BY <1>1 DEF Call
<1> HIDE DEF c
<1>4. n.rules.manager = m.rules.manager /\ n.rules.device = "none"
  <2>1. m.rules \in Rules
    BY <1>1, SoundFields
  <2> QED BY <1>2, <2>1 DEF Is, Rules
<1>5. g + 1 \in Nat /\ g <= g + 1 /\ Sane(m.manager, g)
  BY <1>1 DEF Sound
<1>6. Sane(m.manager, g + 1) /\ Sane(NoObject, g + 1)
  BY <1>1, <1>5, SaneLater, NoObjectSane
<1>7. Sound(n)
  BY <1>1, <1>2, <1>4, <1>6, NoObjectSane DEF Is, Sound
<1>8. SameLife(m, n, x)
  BY <1>1, <1>2, NoObjectSane DEF Is, ServiceOf, SameLife
<1>9. n.calls = Append(m.calls, c) /\ n.calls \in Seq(Call) /\ n.device = NoObject
      /\ n.manager = m.manager /\ n.generation = g + 1
  BY <1>2, <1>7, SoundFields DEF Is
<1>10. CallFits(c, g + 1, n.manager, n.device)
  BY <1>3, <1>5, <1>1, <1>9 DEF CallFits, TruthfulCall
<1>11. WalkOf(q, n.calls, g + 1, n.manager, n.device)
  <2>1. PICK d, e : d = m.device /\ e = n.device
    OBVIOUS
  <2>2. PICK o, p : o = m.manager /\ p = n.manager
    OBVIOUS
  <2>3. PICK a : a = n.calls
    OBVIOUS
  <2>4. WalkOf(s, m.calls, g, o, d) /\ CallFits(c, g + 1, p, e) /\ e = NoObject
        /\ a = Append(m.calls, c) /\ a \in Seq(Call)
    BY <1>1, <1>9, <1>10, <2>1, <2>2, <2>3
  <2>5. WaitsAnew(p, d, g + 1, c, a # m.calls)
    BY <1>1, <1>9, <2>1, <2>2, SoundFields DEF Sane, Object, WaitsAnew
  <2>6. WalkOf(q, a, g + 1, p, e)
    BY <1>1, <1>3, <2>4, <2>5, WalkAnew
  <2> QED BY <2>1, <2>2, <2>3, <2>6
<1> QED BY <1>1, <1>2, <1>5, <1>7, <1>8, <1>9, <1>11 DEF Takes1, WalkIn, Is

\* withdraw() leaves nothing of any life.
LEMMA WithdrawIsSound ==
    ASSUME NEW s, NEW q, s \in Seq(BatteryMessage), q \in Seq(BatteryMessage), PartOf(q, s),
           NEW m, Sound(m), WalkIn(s, m), NEW n, n = Withdraw(m)
    PROVE  /\ Sound(n) /\ n.started = m.started /\ n.generation = m.generation + 1
           /\ n.manager = NoObject /\ n.device = NoObject /\ n.shown = NothingShown
           /\ ~n.rules.devices /\ n.calls = m.calls
           /\ WalkIn(q, n) /\ \A life : ServiceOf(n, life)
<1> DEFINE g == m.generation
<1>1. m \in Service /\ g \in Nat /\ g + 1 \in Nat /\ m.calls \in Seq(Call)
      /\ WalkOf(s, m.calls, g, m.manager, m.device)
  BY SoundFields DEF WalkIn
<1>2. Is(n, m, g + 1, NoObject, NoObject, NoRules, FALSE, FALSE, NothingShown, m.calls)
  BY <1>1, WithdrawIs
<1>3. ~NoRules.manager /\ NoRules.device = "none" /\ ~NoRules.devices
      /\ NothingShown.manager = Unknown /\ NothingShown.device = Unknown
  BY DEF NoRules, NothingShown
<1>4. Sound(n)
  BY <1>1, <1>2, <1>3, NoObjectSane DEF Is, Sound
<1>5. \A life : ServiceOf(n, life)
  BY <1>1, <1>2, <1>3, NoObjectSane DEF Is, ServiceOf
<1>6. n.calls = m.calls /\ n.device = NoObject /\ n.generation = g + 1
      /\ n.manager = NoObject
  BY <1>2 DEF Is
<1>7. PICK c \in Call : c = [what |-> "named", generation |-> g, path |-> "none"]
  BY <1>1 DEF Call
<1>8. WaitsAnew(n.manager, m.device, g + 1, c, n.calls # m.calls)
  BY <1>1, <1>6, NoObjectSane, SoundFields DEF Sane, Object, WaitsAnew
<1>9. WalkOf(q, n.calls, g + 1, n.manager, n.device)
  BY <1>1, <1>6, <1>7, <1>8, WalkAnew
<1> QED BY <1>2, <1>3, <1>4, <1>5, <1>6, <1>9 DEF Is, WalkIn

-----------------------------------------------------------------------------
(* The battery's invariant. *)

Bounds == [moves : Nat, refusals : Nat, refreshes : Nat, unheard : SUBSET Changes]

BatteryTyped ==
    /\ daemon \in Daemon /\ inbox \in Seq(BatteryMessage) /\ bounds \in Bounds
    /\ daemon.up => daemon.life # 0
    /\ \A i \in 1..Len(inbox) : Truthful(inbox[i])
    /\ Sound(service) /\ service.generation # 0

\* Before start() and after stop() there is nothing, and nothing on its way counts.
BatteryOff ==
    ~service.started =>
        /\ service.generation = 1 => inbox = <<>> /\ service.calls = <<>>
        /\ service.manager = NoObject /\ service.device = NoObject
        /\ service.shown = NothingShown /\ ~service.rules.devices
        /\ \A i \in 1..Len(inbox) :
               Answering(inbox[i]) => inbox[i].generation # service.generation
        /\ \A i \in 1..Len(service.calls) :
               service.calls[i].generation # service.generation

Gone(s) == Exit(s, 1, Len(s))

\* All that is known is of one life of the daemon, the present one unless its end has yet
\* to be heard of; nothing is known once it has been.
BatteryLives ==
    service.started =>
        /\ \E life \in 0..MaxEvents :
               /\ Lives(inbox, FactKinds, daemon.up, daemon.life, life)
               /\ ServiceOf(service, life)
        /\ ~Gone(inbox) /\ ~daemon.up => \A life : ServiceOf(service, life)

BatteryInv == BatteryTyped /\ BatteryOff /\ BatteryLives /\ WalkIn(inbox, service)

LEMMA BatteryInvWellFormed == BatteryInv => WellFormed
<1> SUFFICES ASSUME BatteryInv
             PROVE  WellFormed
  OBVIOUS
<1>1. daemon \in Daemon /\ service \in Service
  BY DEF BatteryInv, BatteryTyped, Sound
<1>2. \A o \in {service.manager, service.device} : o.held # <<>> => o.reading
  BY DEF BatteryInv, BatteryTyped, Sound, Sane
<1>3. service.device.fact # Unknown => service.device.fact.path = service.device.path
  BY DEF BatteryInv, BatteryTyped, Sound, Sane
<1>4. (service.shown.manager # Unknown /\ service.shown.device # Unknown) =>
          service.shown.device.life = service.shown.manager.life
  <2>1. CASE service.started
    <3>1. PICK life \in 0..MaxEvents : ServiceOf(service, life)
      BY <2>1 DEF BatteryInv, BatteryLives
    <3> QED BY <3>1 DEF ServiceOf, Of
  <2>2. CASE ~service.started
    BY <2>2 DEF BatteryInv, BatteryOff, NothingShown
  <2> QED BY <2>1, <2>2
<1>5. ASSUME NEW o, Sane(o, service.generation), o.reading,
             Expects(inbox, service.calls, service.generation, o)
      PROVE  AnswerComes(o) \/ o.readGeneration < service.generation
  <2>1. o.readGeneration = service.generation \/ o.readGeneration < service.generation
    BY <1>5, SoundFields DEF BatteryInv, BatteryTyped, Sane, Object
  <2>2. DOMAIN service.calls = 1..Len(service.calls) /\ DOMAIN inbox = 1..Len(inbox)
    BY SoundFields, LenProperties DEF BatteryInv, BatteryTyped
  <2> QED BY <1>5, <2>1, <2>2 DEF Expects, IsRead, EndsRead, Ends, AnswerComes
<1>6. ReadOfWalkEnds
  BY <1>5 DEF ReadOfWalkEnds, BatteryInv, BatteryTyped, Sound, WalkIn, WalkOf
<1> QED BY <1>1, <1>2, <1>3, <1>4, <1>6 DEF WellFormed, TypeOK, OneDaemonOneDevice

LEMMA WordIs ==
    ASSUME NEW what \in Kinds
    PROVE  Word(what) \in BatteryMessage /\ Word(what).what = what
           /\ (what \in {"registered", "owned", "unregistered", "devicesChanged"} =>
                  Truthful(Word(what)))
  BY NoObjectIs DEF Word, Reply, BatteryMessage, Truthful

LEMMA BatteryInvInit == Init => BatteryInv
<1> SUFFICES ASSUME Init
             PROVE  BatteryInv
  OBVIOUS
<1>1. MaxEvents \in Nat /\ 0 \in 0..MaxEvents
  BY BoundsAssumption
<1>2. inbox = <<>> /\ Len(inbox) = 0 /\ inbox \in Seq(BatteryMessage)
  BY EmptySeq DEF Init
<1>3. daemon \in Daemon /\ bounds \in Bounds /\ ~daemon.up
  <2>1. daemon = [up |-> FALSE, life |-> 0, manager |-> 0, display |-> "none", level |-> 0]
    BY DEF Init
  <2>2. bounds = [moves |-> 0, refusals |-> 0, refreshes |-> 0, unheard |-> {}]
    BY DEF Init
  <2>3. daemon \in Daemon /\ ~daemon.up
    BY <1>1, <2>1 DEF Daemon
  <2> QED BY <2>2, <2>3 DEF Bounds
<1>4. /\ service.started = FALSE /\ service.generation = 1 /\ service.manager = NoObject
      /\ service.device = NoObject /\ service.rules = NoRules
      /\ service.shown = NothingShown /\ service.calls = <<>>
  BY DEF Init, NoRules, NothingShown
<1>5. service \in Service
  <2>1. NoRules \in Rules /\ NothingShown \in Shown /\ <<>> \in Seq(Call)
    BY NoObjectIs, EmptySeq DEF NoRules, NothingShown, Rules, Shown
  <2>2. service = [started |-> FALSE, generation |-> 1, manager |-> NoObject,
                   device |-> NoObject, rules |-> NoRules, concluded |-> FALSE,
                   available |-> FALSE, shown |-> NothingShown, calls |-> <<>>]
    BY Zenon DEF Init, NoRules, NothingShown
  <2> QED BY <2>1, <2>2, NoObjectIs DEF Service, Rules, Shown
<1>6. Sound(service)
  BY <1>4, <1>5, NoObjectSane DEF Sound, NoRules
<1>7. Len(service.calls) = 0
  BY <1>4, EmptySeq
<1>8. BatteryOff
  BY <1>2, <1>4, <1>7 DEF BatteryOff, NoRules
<1>9. WalkIn(inbox, service)
  BY <1>2, <1>4, <1>7, NoObjectSane DEF WalkIn, WalkOf, Expects
<1> QED BY <1>2, <1>3, <1>4, <1>6, <1>8, <1>9 DEF BatteryInv, BatteryTyped, BatteryLives

-----------------------------------------------------------------------------
(* Messages that are read. *)

LEMMA HeadsNow ==
    ASSUME BatteryInv, inbox # <<>>
    PROVE  /\ Heads(inbox, Tail(inbox), service, Head(inbox))
           /\ Head(inbox) \in BatteryMessage /\ Truthful(Head(inbox))
           /\ ~service.started /\ Answering(Head(inbox)) =>
                  Head(inbox).generation # service.generation
<1>1. inbox \in Seq(BatteryMessage)
  BY DEF BatteryInv, BatteryTyped
<1>2. /\ Tail(inbox) \in Seq(BatteryMessage) /\ Drops(inbox, Tail(inbox))
      /\ Len(inbox) \in Nat \ {0} /\ Head(inbox) = inbox[1] /\ inbox[1] \in BatteryMessage
  BY <1>1, TailDrops
<1>3. 1 \in 1..Len(inbox)
  BY <1>2
<1>4. Truthful(inbox[1])
  BY <1>3 DEF BatteryInv, BatteryTyped
<1>5. ~service.started /\ Answering(inbox[1]) => inbox[1].generation # service.generation
  BY <1>3 DEF BatteryInv, BatteryOff
<1>6. Sound(service) /\ service.generation \in Nat \ {0} /\ WalkIn(inbox, service)
  BY SoundFields DEF BatteryInv, BatteryTyped
<1> QED BY <1>1, <1>2, <1>4, <1>5, <1>6 DEF Heads

\* What is left of the queue is as truthful, and as much in the past of a service that
\* has not been started.
LEMMA TailKeeps ==
    ASSUME BatteryInv, inbox # <<>>, inbox' = Tail(inbox), daemon' = daemon,
           bounds' = bounds, Sound(service'), service'.generation # 0
    PROVE  /\ BatteryTyped' /\ Drops(inbox, inbox')
           /\ ~service.started /\ service' = service => BatteryOff'
<1>1. inbox \in Seq(BatteryMessage) /\ inbox' \in Seq(BatteryMessage) /\ Drops(inbox, inbox')
      /\ Len(inbox) \in Nat \ {0}
  <2>1. inbox \in Seq(BatteryMessage)
    BY DEF BatteryInv, BatteryTyped
  <2> QED BY <2>1, TailDrops
<1>2. Len(inbox') \in Nat /\ \A i \in 1..Len(inbox') : i + 1 \in 1..Len(inbox)
                                                      /\ inbox'[i] = inbox[i + 1]
  BY <1>1, LenProperties DEF Drops
<1>3. \A i \in 1..Len(inbox') : Truthful(inbox'[i])
  BY <1>2 DEF BatteryInv, BatteryTyped
<1>4. BatteryTyped'
  BY <1>1, <1>3 DEF BatteryInv, BatteryTyped
<1>5. ~service.started /\ service' = service => BatteryOff'
  BY <1>2 DEF BatteryInv, BatteryOff
<1> QED BY <1>1, <1>4, <1>5

LEMMA ReadKeeps ==
    ASSUME BatteryInv, inbox # <<>>, NEW n, Read(n), Head(inbox).what # "unregistered",
           Takes1(service, n, Head(inbox)), WalkIn(Tail(inbox), n),
           ~service.started => n = service
    PROVE  BatteryInv'
<1> DEFINE x == Head(inbox)
<1>1. service' = n /\ inbox' = Tail(inbox) /\ daemon' = daemon /\ bounds' = bounds
  BY DEF Read
<1>2. Sound(n) /\ n.started = service.started /\ service.generation <= n.generation
      /\ SameLife(service, n, x)
  BY DEF Takes1
<1>3. n.generation # 0
  <2>1. Sound(service) /\ service.generation # 0
    BY DEF BatteryInv, BatteryTyped
  <2> QED BY <1>2, <2>1, SoundFields
<1>4. /\ BatteryTyped' /\ Drops(inbox, inbox')
      /\ ~service.started /\ service' = service => BatteryOff'
  BY <1>1, <1>2, <1>3, TailKeeps
<1>5. BatteryOff'
  BY <1>1, <1>2, <1>4 DEF BatteryOff
<1>6. ASSUME service.started
      PROVE  BatteryLives'
  <2>1. inbox \in Seq(BatteryMessage) /\ inbox' \in Seq(BatteryMessage)
        /\ x = inbox[1] /\ Len(inbox) \in Nat \ {0} /\ 1 \in 1..Len(inbox)
    BY <1>1, HeadsNow, EmptySeq, LenProperties DEF Heads
  <2>2. PICK life \in 0..MaxEvents :
            /\ Lives(inbox, FactKinds, daemon.up, daemon.life, life)
            /\ ServiceOf(service, life)
    BY <1>6 DEF BatteryInv, BatteryLives
  <2>3. /\ Lives(inbox', FactKinds, daemon.up, daemon.life, life)
        /\ Gone(inbox') <=> Gone(inbox)
    BY <1>4, <2>1, <2>2, LivesRead DEF Gone
  <2>4. x.what \in FactKinds => x.fact.life = life
    <3>1. ~Exit(inbox, 1, 1)
      BY <2>1 DEF Exit
    <3> QED BY <2>1, <2>2, <3>1 DEF Lives
  <2>5. ServiceOf(n, life)
    BY <1>2, <2>2, <2>4 DEF SameLife
  <2>6. ASSUME ~Gone(inbox), ~daemon.up
        PROVE  \A other : ServiceOf(n, other)
    <3>1. x.what \notin FactKinds
      BY <2>1, <2>2, <2>6 DEF Lives, Gone
    <3>2. \A other : ServiceOf(service, other)
      BY <1>6, <2>6 DEF BatteryInv, BatteryLives
    <3> QED BY <1>2, <3>1, <3>2 DEF SameLife
  <2> QED BY <1>1, <2>2, <2>3, <2>5, <2>6 DEF BatteryLives
<1>7. BatteryLives'
  BY <1>1, <1>2, <1>6 DEF BatteryLives
<1> QED BY <1>1, <1>4, <1>5, <1>7 DEF BatteryInv

LEMMA EventLoopKeeps ==
    ASSUME BatteryInv, EventLoop
    PROVE  BatteryInv'
<1> DEFINE x == Head(inbox)
           m == service
<1>1. inbox # <<>>
  BY DEF EventLoop, Attach, ServiceUnregistered, ReadReply, ReadRefusal,
         OnManagerProperties, OnDeviceProperties, OnDevicesChanged, Reads
<1>2. Heads(inbox, Tail(inbox), m, x) /\ Truthful(x)
      /\ (~m.started /\ Answering(x) => x.generation # m.generation)
      /\ x \in BatteryMessage /\ m \in Service /\ Sound(m)
  BY <1>1, HeadsNow, SoundFields DEF Heads
<1>3. ~Answering(x) => Takes1(m, m, x) /\ WalkIn(Tail(inbox), m)
  BY <1>2, KeepsIsSound
<1>4. CASE Attach
  <2>1. x.what # "unregistered" /\ ~Answering(x)
    BY <1>4 DEF Attach, Reads, Answering, Replies
  <2>2. CASE m.started
    BY <1>1, <1>2, <1>4, <2>1, <2>2, AttachIsSound, ReadKeeps DEF Attach
  <2>3. CASE ~m.started
    BY <1>1, <1>3, <1>4, <2>1, <2>3, ReadKeeps DEF Attach
  <2> QED BY <2>2, <2>3
<1>5. CASE ServiceUnregistered
  <2>1. x.what = "unregistered"
        /\ Read(IF m.started THEN Withdraw(m) ELSE m)
    BY <1>5 DEF ServiceUnregistered, Reads
  <2>2. inbox' = Tail(inbox) /\ daemon' = daemon /\ bounds' = bounds
    BY <2>1 DEF Read
  <2>3. CASE ~m.started
    <3>1. service' = m
      BY <2>1, <2>3 DEF Read
    <3>2. /\ BatteryTyped' /\ (~m.started /\ service' = m => BatteryOff')
      BY <1>1, <1>2, <2>2, <3>1, TailKeeps DEF BatteryInv, BatteryTyped
    <3>3. BatteryLives'
      BY <2>3, <3>1 DEF BatteryLives
    <3> QED BY <1>3, <2>1, <2>2, <2>3, <3>1, <3>2, <3>3 DEF BatteryInv, Answering, Replies
  <2>4. CASE m.started
    <3> DEFINE n == Withdraw(m)
    <3>1. service' = n
      BY <2>1, <2>4 DEF Read
    <3>2. /\ inbox \in Seq(BatteryMessage) /\ Tail(inbox) \in Seq(BatteryMessage)
          /\ PartOf(Tail(inbox), inbox) /\ WalkIn(inbox, m) /\ Drops(inbox, Tail(inbox))
      BY <1>2, DropsPart DEF Heads
    <3>3. /\ Sound(n) /\ n.started = m.started /\ n.generation = m.generation + 1
          /\ WalkIn(Tail(inbox), n) /\ \A life : ServiceOf(n, life)
      <4>1. PICK s, q : s = inbox /\ q = Tail(inbox)
        OBVIOUS
      <4>2. PICK p : p = n
        OBVIOUS
      <4>3. p = Withdraw(m)
        BY <4>2
      <4> HIDE DEF n
      <4>4. s \in Seq(BatteryMessage) /\ q \in Seq(BatteryMessage) /\ PartOf(q, s)
            /\ WalkIn(s, m) /\ Sound(m)
        BY <1>2, <3>2, <4>1
      <4>5. /\ Sound(p) /\ p.started = m.started /\ p.generation = m.generation + 1
            /\ WalkIn(q, p) /\ \A life : ServiceOf(p, life)
        BY <4>3, <4>4, WithdrawIsSound
      <4> QED BY <4>1, <4>2, <4>5
    <3>4. n.generation # 0
      BY <1>2, <3>3, SoundFields
    <3>5. BatteryTyped'
      BY <1>1, <2>2, <3>1, <3>3, <3>4, TailKeeps
    <3>6. \E life \in 0..MaxEvents :
              Lives(Tail(inbox), FactKinds, daemon.up, daemon.life, life)
      <4>1. PICK life \in 0..MaxEvents :
                Lives(inbox, FactKinds, daemon.up, daemon.life, life)
        BY <2>4 DEF BatteryInv, BatteryLives
      <4>2. "unregistered" \notin FactKinds /\ daemon.life \in 0..MaxEvents
        BY DEF FactKinds, BatteryInv, BatteryTyped, Daemon
      <4>3. \A i \in 1..Len(Tail(inbox)) : Tail(inbox)[i].fact.life \in 0..MaxEvents
        <5>1. PICK q \in Seq(BatteryMessage) : q = Tail(inbox)
          BY <3>2
        <5>2. \A i \in 1..Len(q) : q[i] \in BatteryMessage
          BY ElementOfSeq
        <5>3. \A e \in BatteryMessage : e.fact.life \in 0..MaxEvents
          BY DEF BatteryMessage, Fact
        <5>4. \A i \in 1..Len(q) : q[i].fact.life \in 0..MaxEvents
          BY <5>2, <5>3
        <5> QED BY <5>1, <5>4
      <4>4. PICK s, q : s = inbox /\ q = Tail(inbox)
        OBVIOUS
      <4>5. PICK up, now : up = daemon.up /\ now = daemon.life
        OBVIOUS
      <4>6. PICK B : B = 0..MaxEvents
        OBVIOUS
      <4>7. s \in Seq(BatteryMessage) /\ q \in Seq(BatteryMessage) /\ Drops(s, q) /\ s # <<>>
        BY <1>1, <3>2, <4>4
      <4>8. Lives(s, FactKinds, up, now, life)
        BY <4>1, <4>4, <4>5, Zenon
      <4>9. now \in B /\ "unregistered" \notin FactKinds
        BY <4>2, <4>5, <4>6, Zenon
      <4>10. \A i \in 1..Len(q) : q[i].fact.life \in B
        BY <4>3, <4>4, <4>6, Zenon
      <4>11. \E other \in B : Lives(q, FactKinds, up, now, other)
        BY <4>7, <4>8, <4>10, <4>9, LivesExitRead
      <4> QED BY <4>4, <4>5, <4>6, <4>11
    <3>7. BatteryLives'
      BY <2>2, <3>1, <3>3, <3>6 DEF BatteryLives
    <3>8. BatteryOff'
      BY <2>4, <3>1, <3>3 DEF BatteryOff
    <3> QED BY <2>2, <3>1, <3>3, <3>5, <3>7, <3>8 DEF BatteryInv
  <2> QED BY <2>3, <2>4
<1>6. CASE ReadReply
  <2>1. CASE x.what = "manager" /\ Read(ManagerRead(m, x))
    <3>1. Takes1(m, ManagerRead(m, x), x) /\ WalkIn(Tail(inbox), ManagerRead(m, x))
      BY <1>2, <2>1, ManagerReadIsSound
    <3>2. ~m.started => ManagerRead(m, x) = m
      BY <1>2, <2>1, ManagerReadIs DEF Answering, Replies
    <3> QED BY <1>1, <2>1, <3>1, <3>2, ReadKeeps
  <2>2. CASE x.what = "named" /\ Read(DeviceNamed(m, x))
    <3>1. Takes1(m, DeviceNamed(m, x), x) /\ WalkIn(Tail(inbox), DeviceNamed(m, x))
      BY <1>2, <2>2, DeviceNamedIsSound
    <3>2. ~m.started => DeviceNamed(m, x) = m
      BY <1>2, <2>2, DeviceNamedIs DEF Answering, Replies, Truthful
    <3> QED BY <1>1, <2>2, <3>1, <3>2, ReadKeeps
  <2>3. CASE x.what = "device" /\ Read(DeviceRead(m, x))
    <3>1. Takes1(m, DeviceRead(m, x), x) /\ WalkIn(Tail(inbox), DeviceRead(m, x))
      BY <1>2, <2>3, DeviceReadIsSound
    <3>2. ~m.started => DeviceRead(m, x) = m
      BY <1>2, <2>3, DeviceReadIs DEF Answering, Replies
    <3> QED BY <1>1, <2>3, <3>1, <3>2, ReadKeeps
  <2> QED BY <1>6, <2>1, <2>2, <2>3 DEF ReadReply, Reads
<1>7. CASE ReadRefusal
  <2>1. x.what = "refused" /\ Read(Failed(m, x))
    BY <1>7 DEF ReadRefusal, Reads
  <2>2. Takes1(m, Failed(m, x), x) /\ WalkIn(Tail(inbox), Failed(m, x))
    BY <1>2, <2>1, FailedIsSound
  <2>3. ASSUME ~m.started
        PROVE  Failed(m, x) = m
    <3>1. m.manager = NoObject /\ m.device = NoObject /\ x.generation # m.generation
      BY <1>2, <2>1, <2>3 DEF BatteryInv, BatteryOff, Answering
    <3> DEFINE a == Ended(m.manager, x.path = "manager", x.generation)
               b == Ended(m.device, x.path \in Paths, x.generation)
    <3>2. a = m.manager /\ b = m.device
      <4>1. Adopted(NoObject, NoObject.fact) = NoObject
        BY NoObjectSane DEF Adopted, AnObject, NoObject
      <4> QED BY <3>1, <4>1 DEF Ended
    <3>3. Is(Failed(m, x), m, m.generation, a, b, m.rules, m.concluded, m.available,
             m.shown, m.calls)
      BY <1>2, <3>1, FailedIs
    <3> HIDE DEF a, b
    <3> QED BY <1>2, <3>2, <3>3 DEF Is, Service
  <2> QED BY <1>1, <2>1, <2>2, <2>3, ReadKeeps
<1>8. CASE OnManagerProperties
  <2>1. x.what = "managerChanged" /\ ~Answering(x)
    BY <1>8 DEF OnManagerProperties, Reads, Answering, Replies
  <2>2. CASE m.rules.manager
    <3> DEFINE n == Publish([m EXCEPT !.manager = ApplyChange(@, x.fact)])
    <3>1. Read(n)
      BY <1>8, <2>2 DEF OnManagerProperties
    <3>2. Takes1(m, n, x) /\ WalkIn(Tail(inbox), n)
      BY <1>2, <2>1, <2>2, ManagerChangedIsSound
    <3>3. m.started
      BY <1>2, <2>2, NoObjectSane DEF BatteryInv, BatteryOff, Sound
    <3> HIDE DEF n
    <3> QED BY <1>1, <2>1, <3>1, <3>2, <3>3, ReadKeeps
  <2>3. CASE ~m.rules.manager
    BY <1>1, <1>3, <1>8, <2>1, <2>3, ReadKeeps DEF OnManagerProperties
  <2> QED BY <2>2, <2>3
<1>9. CASE OnDeviceProperties
  <2>1. x.what = "deviceChanged" /\ ~Answering(x)
    BY <1>9 DEF OnDeviceProperties, Reads, Answering, Replies
  <2>2. CASE m.rules.device = x.path
    <3> DEFINE n == Publish([m EXCEPT !.device = ApplyChange(@, x.fact)])
    <3>1. Read(n)
      BY <1>9, <2>2 DEF OnDeviceProperties
    <3>2. Takes1(m, n, x) /\ WalkIn(Tail(inbox), n)
      BY <1>2, <2>1, <2>2, DeviceChangedIsSound
    <3>3. m.started
      <4>1. x.path # "none"
        BY <1>2, <2>1, BoundsAssumption DEF Truthful
      <4> QED BY <1>2, <2>2, <4>1, NoObjectSane DEF BatteryInv, BatteryOff, Sound
    <3> HIDE DEF n
    <3> QED BY <1>1, <2>1, <3>1, <3>2, <3>3, ReadKeeps
  <2>3. CASE m.rules.device # x.path
    BY <1>1, <1>3, <1>9, <2>1, <2>3, ReadKeeps DEF OnDeviceProperties
  <2> QED BY <2>2, <2>3
<1>10. CASE OnDevicesChanged
  <2>1. x.what = "devicesChanged" /\ ~Answering(x)
    BY <1>10 DEF OnDevicesChanged, Reads, Answering, Replies
  <2>2. CASE m.rules.devices
    <3> DEFINE n == WalkDisplayDevice([m EXCEPT !.generation = @ + 1])
    <3>1. Read(n)
      BY <1>10, <2>2 DEF OnDevicesChanged
    <3>2. Takes1(m, n, x) /\ WalkIn(Tail(inbox), n)
      BY <1>2, DevicesChangedIsSound
    <3>3. m.started
      BY <2>2 DEF BatteryInv, BatteryOff
    <3> HIDE DEF n
    <3> QED BY <1>1, <2>1, <3>1, <3>2, <3>3, ReadKeeps
  <2>3. CASE ~m.rules.devices
    BY <1>1, <1>3, <1>10, <2>1, <2>3, ReadKeeps DEF OnDevicesChanged
  <2> QED BY <2>2, <2>3
<1> QED BY <1>4, <1>5, <1>6, <1>7, <1>8, <1>9, <1>10 DEF EventLoop

-----------------------------------------------------------------------------
(* What the shell does, and the daemon. *)

LEMMA InvFacts ==
    ASSUME BatteryInv
    PROVE  /\ daemon \in Daemon /\ inbox \in Seq(BatteryMessage) /\ bounds \in Bounds
           /\ daemon.up \in BOOLEAN /\ daemon.life \in 0..MaxEvents
           /\ daemon.display \in Paths \cup {"none"}
           /\ Sound(service) /\ service.generation \in Nat \ {0} /\ service \in Service
           /\ service.calls \in Seq(Call) /\ service.started \in BOOLEAN
           /\ WalkIn(inbox, service) /\ MaxEvents \in Nat
           /\ \A i \in 1..Len(inbox) : Truthful(inbox[i])
  BY SoundFields, ServiceFields, BoundsAssumption
     DEF BatteryInv, BatteryTyped, Daemon

LEMMA StartKeeps ==
    ASSUME BatteryInv, Start
    PROVE  BatteryInv'
<1> DEFINE m == service
           r == [m.rules EXCEPT !.devices = TRUE]
           n == [m EXCEPT !.started = TRUE, !.rules = r]
<1>1. inbox = <<>> /\ m.calls = <<>> /\ m.generation = 1 /\ m.manager = NoObject
      /\ m.device = NoObject /\ m.shown = NothingShown
  BY DEF Start, BatteryInv, BatteryOff
<1>2. service' = n /\ daemon' = daemon /\ bounds' = bounds
      /\ inbox' = IF daemon.up THEN Append(inbox, Word("owned")) ELSE inbox
  BY Zenon DEF Start
<1>3. n \in Service /\ n.started /\ n.generation = 1 /\ n.manager = NoObject
      /\ n.device = NoObject /\ n.shown = NothingShown /\ n.calls = <<>>
      /\ n.rules.manager = m.rules.manager /\ n.rules.device = m.rules.device
  <2>1. m \in Service /\ m.rules \in Rules
    BY InvFacts, ServiceFields
  <2>2. r \in Rules /\ r.manager = m.rules.manager /\ r.device = m.rules.device
    BY <2>1 DEF Rules
  <2> HIDE DEF r
  <2> QED BY <1>1, <2>1, <2>2 DEF Service, Rules
<1> HIDE DEF n
<1>4. Sound(n)
  BY <1>1, <1>3, InvFacts DEF Sound
<1>5. \A life : ServiceOf(n, life)
  BY <1>3, NoObjectSane DEF ServiceOf, NothingShown
<1>6. inbox' \in Seq(BatteryMessage) /\ \A i \in 1..Len(inbox') : inbox'[i] = Word("owned")
  <2>1. Word("owned") \in BatteryMessage
    BY WordIs DEF Kinds
  <2>2. <<>> \in Seq(BatteryMessage) /\ Len(<<>>) = 0
    BY EmptySeq
  <2>3. /\ Append(<<>>, Word("owned")) \in Seq(BatteryMessage)
        /\ Len(Append(<<>>, Word("owned"))) = 1
        /\ Append(<<>>, Word("owned"))[1] = Word("owned")
    BY <2>1, <2>2, AppendProperties
  <2>4. \A i \in 1..1 : i = 1
    OBVIOUS
  <2> QED BY <1>1, <1>2, <2>2, <2>3, <2>4
<1>7. Truthful(Word("owned")) /\ Word("owned").what = "owned"
  BY WordIs DEF Kinds
<1>8. BatteryTyped'
  BY <1>2, <1>3, <1>4, <1>6, <1>7 DEF BatteryInv, BatteryTyped
<1>9. BatteryOff'
  BY <1>2, <1>3 DEF BatteryOff
<1>10. BatteryLives'
  <2>1. \A i \in 1..Len(inbox') : inbox'[i].what \notin FactKinds
    BY <1>6, <1>7 DEF FactKinds
  <2>2. Lives(inbox', FactKinds, daemon.up, daemon.life, daemon.life)
    BY <2>1 DEF Lives
  <2>3. daemon.life \in 0..MaxEvents
    BY InvFacts
  <2> QED BY <1>2, <1>5, <2>2, <2>3 DEF BatteryLives
<1>11. WalkIn(inbox', n)
  <2>1. Len(n.calls) = 0
    BY <1>3, EmptySeq
  <2>2. \A i \in 1..Len(inbox') : ~Answering(inbox'[i])
    BY <1>6, <1>7 DEF Answering, Replies
  <2> QED BY <1>3, <2>1, <2>2, NoObjectSane DEF WalkIn, WalkOf, MessageFits, Expects
<1> QED BY <1>2, <1>8, <1>9, <1>10, <1>11 DEF BatteryInv

LEMMA StopKeeps ==
    ASSUME BatteryInv, Stop
    PROVE  BatteryInv'
<1> DEFINE m == [service EXCEPT !.started = FALSE]
           n == Withdraw(m)
<1>1. service' = n /\ daemon' = daemon /\ bounds' = bounds /\ inbox' = inbox
  BY Zenon DEF Stop
<1>2. /\ m \in Service /\ ~m.started /\ m.generation = service.generation
      /\ m.manager = service.manager /\ m.device = service.device /\ m.rules = service.rules
      /\ m.calls = service.calls
  BY InvFacts DEF Service
<1> HIDE DEF m
<1>3. Sound(m) /\ WalkIn(inbox, m)
  BY <1>2, InvFacts DEF Sound, WalkIn
<1>4. inbox \in Seq(BatteryMessage) /\ PartOf(inbox, inbox)
      /\ service.generation \in Nat \ {0}
  BY InvFacts, DropsPart
<1>5. PICK p : p = n
  OBVIOUS
<1>6. /\ Sound(p) /\ p.started = m.started /\ p.generation = m.generation + 1
      /\ p.manager = NoObject /\ p.device = NoObject /\ p.shown = NothingShown
      /\ ~p.rules.devices /\ p.calls = m.calls
      /\ WalkIn(inbox, p) /\ \A life : ServiceOf(p, life)
  BY <1>3, <1>4, <1>5, WithdrawIsSound
<1>7. BatteryTyped'
  BY <1>1, <1>2, <1>4, <1>5, <1>6 DEF BatteryInv, BatteryTyped
<1>8. ~service'.started
  BY <1>1, <1>2, <1>5, <1>6
<1>9. BatteryOff'
  <2>1. \A i \in 1..Len(inbox) : Answering(inbox[i]) => inbox[i].generation # p.generation
    BY <1>2, <1>3, <1>4, <1>6 DEF WalkIn, WalkOf, MessageFits
  <2>2. \A i \in 1..Len(p.calls) : p.calls[i].generation # p.generation
    BY <1>2, <1>3, <1>4, <1>6 DEF WalkIn, WalkOf, CallFits
  <2>3. p.generation # 1
    BY <1>2, <1>4, <1>6
  <2> QED BY <1>1, <1>5, <1>6, <2>1, <2>2, <2>3 DEF BatteryOff
<1> QED BY <1>1, <1>5, <1>6, <1>7, <1>8, <1>9 DEF BatteryInv, BatteryLives

LEMMA RefreshKeeps ==
    ASSUME BatteryInv, RefreshNow
    PROVE  BatteryInv'
<1> DEFINE m == service
           n == WalkFromManager(m)
           c == [what |-> "manager", generation |-> n.generation, path |-> "manager"]
<1>1. m.started /\ service' = n /\ daemon' = daemon /\ inbox' = inbox
      /\ bounds' = [bounds EXCEPT !.refreshes = @ + 1]
  BY DEF RefreshNow
<1>2. bounds' \in Bounds
  BY <1>1, InvFacts DEF Bounds
<1>3. PICK x : x = Word("owned")
  OBVIOUS
<1>4. x.what \notin FactKinds
  BY <1>3, WordIs DEF Kinds, FactKinds
<1>5. /\ Takes1(m, n, x) /\ n.generation = m.generation + 1
      /\ n.device = m.device /\ Waits(n.manager, "manager", n.generation)
      /\ n.calls = Append(m.calls, c)
  BY InvFacts, WalkFromManagerIsSound
<1> HIDE DEF n
<1>6. c.what = "manager" /\ c.generation = n.generation /\ c.path = "manager"
  OBVIOUS
<1>7. n.generation \in Nat /\ m.generation \in Nat /\ c \in Call /\ m.calls \in Seq(Call)
      /\ n.calls \in Seq(Call) /\ n.generation # 0 /\ Sound(n)
  BY <1>5, InvFacts, SoundFields DEF Takes1, Call
<1> HIDE DEF c
<1>8. CallFits(c, m.generation + 1, n.manager, n.device)
  BY <1>5, <1>6, <1>7 DEF CallFits, TruthfulCall
<1>9. inbox \in Seq(BatteryMessage) /\ PartOf(inbox, inbox)
      /\ WalkOf(inbox, m.calls, m.generation, m.manager, m.device)
  BY InvFacts, DropsPart DEF WalkIn
<1>10. n.calls # m.calls
  BY <1>5, <1>7, AppendProperties
<1>11. WaitsAnew(n.manager, m.device, m.generation + 1, c, n.calls # m.calls)
  BY <1>5, <1>6, <1>7, <1>10, InvFacts, SoundFields
     DEF Sane, Object, IsRead, Waits, WaitsAnew
<1>12. WalkOf(inbox, n.calls, m.generation + 1, n.manager, n.device)
  BY <1>5, <1>6, <1>7, <1>8, <1>9, <1>11, WalkAnew
<1>13. \A life : ServiceOf(m, life) => ServiceOf(n, life)
  BY <1>4, <1>5 DEF Takes1, SameLife
<1>14. BatteryLives'
  BY <1>1, <1>13 DEF BatteryInv, BatteryLives
<1>15. n.started
  BY <1>1, <1>5 DEF Takes1
<1> QED BY <1>1, <1>2, <1>5, <1>7, <1>12, <1>14, <1>15
        DEF BatteryInv, BatteryTyped, BatteryOff, WalkIn

\* The call that is next is answered by e.
AnswerBy(e, c) ==
    /\ e \in BatteryMessage /\ Truthful(e) /\ Answering(e)
    /\ e.what \in {c.what, "refused"} /\ e.generation = c.generation
    /\ e.path = c.path \/ e.what = "named"
    /\ e.what \in FactKinds => daemon.up /\ e.fact.life = daemon.life

LEMMA CallFacts ==
    ASSUME BatteryInv, service.calls # <<>>
    PROVE  /\ Head(service.calls) = service.calls[1] /\ service.calls[1] \in Call
           /\ 1 \in 1..Len(service.calls)
           /\ TruthfulCall(service.calls[1]) /\ Tail(service.calls) \in Seq(Call)
           /\ Drops(service.calls, Tail(service.calls))
<1>1. service.calls \in Seq(Call)
  BY InvFacts
<1>2. PICK c \in Seq(Call) : c = service.calls
  BY <1>1
<1>3. /\ Tail(c) \in Seq(Call) /\ Drops(c, Tail(c))
      /\ Len(c) \in Nat \ {0} /\ Head(c) = c[1] /\ c[1] \in Call
  BY <1>2, TailDrops
<1>4. 1 \in 1..Len(c)
  BY <1>3
<1>5. TruthfulCall(c[1])
  BY <1>2, <1>4, InvFacts DEF WalkIn, WalkOf, CallFits
<1> QED BY <1>2, <1>3, <1>4, <1>5

LEMMA AnswerKeeps ==
    ASSUME BatteryInv, service.calls # <<>>, NEW e, AnswerBy(e, Head(service.calls)),
           inbox' = Append(inbox, e), service' = [service EXCEPT !.calls = Tail(@)],
           daemon' = daemon, bounds' \in Bounds
    PROVE  BatteryInv'
<1> DEFINE m == service
<1>1. PICK s \in Seq(BatteryMessage) : s = inbox
  BY InvFacts
<1>2. PICK c \in Seq(Call) : c = m.calls
  BY InvFacts
<1>3. PICK q \in Seq(BatteryMessage) : q = Append(s, e) /\ Adds(s, q, Len(s) + 1, e)
  BY AppendAdds DEF AnswerBy
<1>4. PICK a \in Seq(Call) : a = Tail(c) /\ Drops(c, a)
  BY <1>2, CallFacts
<1>5. c # <<>> /\ c[1] = Head(m.calls) /\ c[1] \in Call /\ TruthfulCall(c[1])
      /\ c[1].what \in Replies
  <2>1. c # <<>> /\ c[1] = Head(m.calls) /\ c[1] \in Call /\ TruthfulCall(c[1])
    BY <1>2, CallFacts
  <2> QED BY <2>1 DEF Call, Replies
<1>6. /\ service' \in Service /\ service'.started = m.started
      /\ service'.generation = m.generation /\ service'.manager = m.manager
      /\ service'.device = m.device /\ service'.rules = m.rules /\ service'.shown = m.shown
      /\ service'.calls = a
  <2>1. m \in Service /\ service' = [m EXCEPT !.calls = a]
    BY <1>2, <1>4, InvFacts, Zenon
  <2> QED BY <2>1 DEF Service
<1>7. Sound(service')
  BY <1>6, InvFacts DEF Sound
<1>8. inbox' = q /\ Len(s) \in Nat /\ Len(q) = Len(s) + 1 /\ q[Len(q)] = e
      /\ \A i \in 1..Len(q) : i = Len(q) \/ (i \in 1..Len(s) /\ q[i] = s[i])
  BY <1>1, <1>3, LenProperties DEF Adds
<1>9. BatteryTyped'
  <2>1. \A i \in 1..Len(q) : Truthful(q[i])
    BY <1>1, <1>8, InvFacts DEF AnswerBy
  <2> QED BY <1>6, <1>7, <1>8, <2>1 DEF BatteryInv, BatteryTyped
<1>10. PICK g, mo, do : g = m.generation /\ mo = m.manager /\ do = m.device
  OBVIOUS
<1>11. g \in Nat /\ "none" \notin Paths /\ "manager" \notin Paths
  BY <1>10, InvFacts, BoundsAssumption
<1>12. WalkOf(s, c, g, mo, do)
  BY <1>1, <1>2, <1>10, InvFacts DEF WalkIn
<1>13. e \in BatteryMessage /\ e.what \in {c[1].what, "refused"}
       /\ e.generation = c[1].generation /\ (e.path = c[1].path \/ e.what = "named")
       /\ e.what # "unregistered" /\ Answering(e)
  BY <1>5 DEF AnswerBy, Answering, Replies
<1>14. WalkOf(q, a, g, mo, do)
  BY <1>3, <1>4, <1>5, <1>11, <1>12, <1>13, WalkAnswered
<1>15. WalkIn(inbox', service')
  BY <1>6, <1>8, <1>10, <1>14 DEF WalkIn
<1>16. BatteryOff'
  <2> SUFFICES ASSUME ~m.started
               PROVE  BatteryOff'
    BY <1>6 DEF BatteryOff
  <2>1. /\ m.generation = 1 => c = <<>>
        /\ m.manager = NoObject /\ m.device = NoObject
        /\ m.shown = NothingShown /\ ~m.rules.devices
        /\ \A i \in 1..Len(s) : Answering(s[i]) => s[i].generation # m.generation
        /\ \A i \in 1..Len(c) : c[i].generation # m.generation
    BY <1>1, <1>2 DEF BatteryInv, BatteryOff
  <2>2. Len(c) \in Nat \ {0} /\ 1 \in 1..Len(c) /\ Len(a) \in Nat
        /\ \A i \in 1..Len(a) : a[i] = c[i + 1] /\ i + 1 \in 1..Len(c)
    BY <1>4, <1>5, EmptySeq, LenProperties DEF Drops
  <2>3. \A i \in 1..Len(a) : a[i].generation # m.generation
    BY <2>1, <2>2
  <2>4. e.generation # m.generation
    BY <1>13, <2>1, <2>2
  <2>5. \A i \in 1..Len(q) : Answering(q[i]) => q[i].generation # m.generation
    BY <1>8, <2>1, <2>4
  <2> QED BY <1>5, <1>6, <1>8, <2>1, <2>3, <2>5 DEF BatteryOff
<1>17. BatteryLives'
  <2> SUFFICES ASSUME m.started
               PROVE  BatteryLives'
    BY <1>6 DEF BatteryLives
  <2>1. PICK life \in 0..MaxEvents :
            /\ Lives(s, FactKinds, daemon.up, daemon.life, life)
            /\ ServiceOf(m, life)
    BY <1>1 DEF BatteryInv, BatteryLives
  <2>2. e.what \in FactKinds => daemon.up /\ e.fact.life = daemon.life
    BY DEF AnswerBy
  <2>3. \A i \in Len(s) + 1..Len(s) : s[i].what # "unregistered"
    BY <1>8
  <2>4. /\ Lives(q, FactKinds, daemon.up, daemon.life, life)
        /\ Gone(q) <=> Gone(s)
    <3>1. PICK up, now : up = daemon.up /\ now = daemon.life
      OBVIOUS
    <3>2. Lives(s, FactKinds, up, now, life) /\ (e.what \in FactKinds => up /\ e.fact.life = now)
      BY <2>1, <2>2, <3>1, Zenon
    <3>3. /\ Lives(q, FactKinds, up, now, life)
          /\ Exit(q, 1, Len(q)) <=> Exit(s, 1, Len(s))
      <4>1. PICK k : k = Len(s) + 1
        OBVIOUS
      <4>2. Adds(s, q, k, e) /\ e.what # "unregistered"
        BY <1>3, <1>13, <4>1
      <4>3. \A i \in k..Len(s) : s[i].what # "unregistered"
        BY <2>3, <4>1
      <4> QED BY <3>2, <4>2, <4>3, LivesSent
    <3> QED BY <3>1, <3>3, Zenon DEF Gone
  <2>5. \A other : ServiceOf(m, other) => ServiceOf(service', other)
    BY <1>6 DEF ServiceOf
  <2>6. ~Gone(s) /\ ~daemon.up => \A other : ServiceOf(m, other)
    BY <1>1 DEF BatteryInv, BatteryLives
  <2> QED BY <1>8, <2>1, <2>4, <2>5, <2>6 DEF BatteryLives
<1> QED BY <1>9, <1>15, <1>16, <1>17 DEF BatteryInv

LEMMA BusKeeps ==
    ASSUME BatteryInv, Bus
    PROVE  BatteryInv'
<1> DEFINE c == Head(service.calls)
<1>1. service.calls # <<>> /\ service' = [service EXCEPT !.calls = Tail(@)]
      /\ daemon' = daemon
  BY DEF Bus, Answer, NoAnswer
<1>2. c \in Call /\ TruthfulCall(c)
  BY <1>1, CallFacts
<1>3. c.what \in Replies /\ c.generation \in Nat /\ c.path \in Paths \cup {"none", "manager"}
  BY <1>2 DEF Call, Replies
<1>4. daemon \in Daemon /\ bounds \in Bounds /\ (daemon.up => daemon.life # 0)
  BY InvFacts DEF BatteryInv, BatteryTyped
<1>5. AnswerBy(Refused(c), c)
  <2>1. Refused(c) = [what |-> "refused", generation |-> c.generation, path |-> c.path,
                      fact |-> Unknown]
    BY DEF Refused, Reply
  <2> QED BY <1>3, <2>1, NoObjectIs
          DEF AnswerBy, BatteryMessage, Kinds, Truthful, Answering, FactKinds
<1>6. ASSUME inbox' = Append(inbox, Refused(c)), bounds' \in Bounds
      PROVE  BatteryInv'
  BY <1>1, <1>5, <1>6, AnswerKeeps
<1>7. CASE NoAnswer
  <2>1. inbox' = Append(inbox, Refused(c)) /\ bounds' = bounds
    BY <1>7 DEF NoAnswer
  <2> QED BY <1>4, <1>6, <2>1
<1>8. CASE Answer /\ inbox' = Append(inbox, Refused(c)) /\ UNCHANGED bounds
  BY <1>4, <1>6, <1>8
<1>9. CASE Answer /\ inbox' = Append(inbox, Refused(c))
           /\ bounds' = [bounds EXCEPT !.refusals = @ + 1]
  <2>1. bounds' \in Bounds
    BY <1>4, <1>9 DEF Bounds
  <2> QED BY <1>6, <1>9, <2>1
<1>10. CASE Answer /\ (c.what = "device" => c.path = daemon.display)
            /\ inbox' = Append(inbox, Answered(c))
            /\ bounds' = [bounds EXCEPT !.unheard = IF c.what = "named"
                                                     THEN @ \ {"devicesChanged"} ELSE @]
  <2> DEFINE f == IF c.what = "manager" THEN ManagerFact(daemon)
                  ELSE IF c.what = "named" THEN Unknown ELSE DeviceFact(daemon)
             e == Answered(c)
  <2>1. daemon.up
    BY <1>10 DEF Answer
  <2>2. e = [what |-> c.what, generation |-> c.generation,
             path |-> IF c.what = "named" THEN daemon.display ELSE c.path, fact |-> f]
    BY <1>3 DEF Answered, Reply, Replies
  <2>3. ManagerFact(daemon) \in Fact /\ DeviceFact(daemon) \in Fact /\ Unknown \in Fact
        /\ ManagerFact(daemon).life = daemon.life /\ DeviceFact(daemon).life = daemon.life
        /\ ManagerFact(daemon).path = "manager" /\ DeviceFact(daemon).path = daemon.display
    BY <1>4, NoObjectIs DEF ManagerFact, DeviceFact, Fact, Daemon
  <2>4. f \in Fact /\ (c.what # "named" => f.life = daemon.life)
        /\ (c.what = "manager" => f.path = "manager")
        /\ (c.what = "device" => f.path = daemon.display)
    BY <1>3, <2>3 DEF Replies
  <2> HIDE DEF f
  <2>5. daemon.display \in Paths \cup {"none"}
    BY InvFacts
  <2>6. e \in BatteryMessage /\ e.what = c.what /\ e.generation = c.generation
        /\ e.path = (IF c.what = "named" THEN daemon.display ELSE c.path) /\ e.fact = f
    BY <1>3, <2>2, <2>4, <2>5 DEF BatteryMessage, Kinds, Replies
  <2> HIDE DEF e
  <2>7. Truthful(e)
    BY <1>2, <1>3, <1>4, <1>10, <2>1, <2>4, <2>5, <2>6, BoundsAssumption
       DEF Truthful, TruthfulCall, Replies
  <2>8. AnswerBy(e, c)
    BY <1>3, <2>1, <2>4, <2>6, <2>7 DEF AnswerBy, Answering, FactKinds, Replies
  <2>9. bounds' \in Bounds
    <3>1. \A u \in SUBSET Changes : u \ {"devicesChanged"} \in SUBSET Changes
      OBVIOUS
    <3>2. PICK u : u = IF c.what = "named" THEN bounds.unheard \ {"devicesChanged"}
                       ELSE bounds.unheard
      OBVIOUS
    <3>3. bounds.unheard \in SUBSET Changes
      BY <1>4 DEF Bounds
    <3>4. u \in SUBSET Changes
      BY <3>1, <3>2, <3>3
    <3>5. bounds' = [bounds EXCEPT !.unheard = u]
      BY <1>10, <3>2, Zenon
    <3> QED BY <1>4, <3>4, <3>5 DEF Bounds
  <2> QED BY <1>1, <1>10, <2>8, <2>9, AnswerKeeps DEF e
<1> QED BY <1>7, <1>8, <1>9, <1>10 DEF Bus, Answer

LEMMA DaemonStartsKeeps ==
    ASSUME BatteryInv, DaemonStarts
    PROVE  BatteryInv'
<1> DEFINE m == service
           e == Word("registered")
<1>1. ~daemon.up /\ Events < MaxEvents /\ service' = m /\ bounds' = bounds
      /\ inbox' = (IF m.started THEN Append(inbox, e) ELSE inbox)
  BY DEF DaemonStarts, Reports
<1>2. PICK display \in Paths \cup {"none"} :
          daemon' = [daemon EXCEPT !.up = TRUE, !.life = @ + 1, !.display = display]
  BY DEF DaemonStarts
<1>3. daemon \in Daemon /\ bounds \in Bounds /\ MaxEvents \in Nat
  BY InvFacts
<1>4. daemon.life + 1 \in 0..MaxEvents /\ daemon.life \in Nat
  BY <1>1, <1>3 DEF Events, Daemon, Bounds
<1>5. daemon' \in Daemon /\ daemon'.up /\ daemon'.life = daemon.life + 1
      /\ daemon'.life # 0
  <2>1. PICK life, some : life = daemon.life + 1 /\ some = Paths \cup {"none"}
    OBVIOUS
  <2>2. daemon' = [daemon EXCEPT !.up = TRUE, !.life = life, !.display = display]
    BY <1>2, <2>1
  <2>3. daemon \in [up : BOOLEAN, life : 0..MaxEvents, manager : 0..1, display : some,
                    level : 0..1] /\ life \in 0..MaxEvents /\ display \in some
    BY <1>2, <1>3, <1>4, <2>1 DEF Daemon
  <2>4. daemon' \in [up : BOOLEAN, life : 0..MaxEvents, manager : 0..1, display : some,
                     level : 0..1] /\ daemon'.up /\ daemon'.life = life
    BY <2>2, <2>3
  <2> QED BY <1>4, <2>1, <2>4 DEF Daemon
<1>6. e \in BatteryMessage /\ Truthful(e) /\ e.what = "registered"
  BY WordIs DEF Kinds
<1> HIDE DEF e
<1>7. PICK s \in Seq(BatteryMessage) : s = inbox
  BY InvFacts
<1>8. CASE ~m.started
  <2>1. BatteryTyped' /\ BatteryOff' /\ BatteryLives' /\ WalkIn(inbox, service)'
    BY <1>1, <1>5, <1>8 DEF BatteryInv, BatteryTyped, BatteryOff, BatteryLives
  <2> QED BY <2>1 DEF BatteryInv
<1>9. CASE m.started
  <2>1. PICK q \in Seq(BatteryMessage) : q = Append(s, e) /\ Adds(s, q, Len(s) + 1, e)
    BY <1>6, AppendAdds
  <2>2. inbox' = q /\ Len(s) \in Nat /\ Len(q) = Len(s) + 1 /\ q[Len(q)] = e
        /\ \A i \in 1..Len(q) : i = Len(q) \/ (i \in 1..Len(s) /\ q[i] = s[i])
    BY <1>1, <1>7, <1>9, <2>1, LenProperties DEF Adds
  <2>3. BatteryTyped'
    <3>1. \A i \in 1..Len(q) : Truthful(q[i])
      BY <1>6, <1>7, <2>2, InvFacts
    <3> QED BY <1>1, <1>5, <2>2, <3>1 DEF BatteryInv, BatteryTyped
  <2>4. WalkIn(inbox', m)
    <3>1. PICK c, g, mo, do : c = m.calls /\ g = m.generation /\ mo = m.manager
                              /\ do = m.device
      OBVIOUS
    <3>2. WalkOf(s, c, g, mo, do)
      BY <1>7, <3>1, InvFacts DEF WalkIn
    <3>3. ~Answering(e)
      BY <1>6 DEF Answering, Replies
    <3>4. WalkOf(q, c, g, mo, do)
      BY <2>1, <3>2, <3>3, WalkSent
    <3> QED BY <2>2, <3>1, <3>4 DEF WalkIn
  <2>5. BatteryLives'
    <3>1. PICK life \in 0..MaxEvents :
              /\ Lives(s, FactKinds, FALSE, daemon.life, life)
              /\ ServiceOf(m, life)
      <4>1. daemon.up = FALSE
        BY <1>1, InvFacts
      <4>2. PICK life \in 0..MaxEvents :
              /\ Lives(s, FactKinds, daemon.up, daemon.life, life)
              /\ ServiceOf(m, life)
        BY <1>7, <1>9 DEF BatteryInv, BatteryLives
      <4> QED BY <4>1, <4>2
    <3>2. PICK now, next : now = daemon.life /\ next = daemon.life + 1
      OBVIOUS
    <3>3. Lives(s, FactKinds, FALSE, now, life)
      BY <3>1, <3>2
    <3>4. e.what # "unregistered" /\ e.what \notin FactKinds
      BY <1>6 DEF FactKinds
    <3>5. /\ Exit(s, 1, Len(s)) => Lives(q, FactKinds, TRUE, next, life)
          /\ ~Exit(s, 1, Len(s)) => Lives(q, FactKinds, TRUE, next, next)
      BY <2>1, <3>3, <3>4, LivesStart
    <3>6. ~Gone(s) => \A other : ServiceOf(m, other)
      BY <1>1, <1>7, <1>9 DEF BatteryInv, BatteryLives
    <3>7. daemon'.up = TRUE /\ daemon'.life = next /\ next \in 0..MaxEvents
      BY <1>4, <1>5, <3>2 DEF Daemon
    <3>8. \E other \in 0..MaxEvents : Lives(q, FactKinds, TRUE, next, other)
                                      /\ ServiceOf(m, other)
      BY <3>1, <3>5, <3>6, <3>7 DEF Gone
    <3>9. \E other \in 0..MaxEvents : Lives(inbox', FactKinds, daemon'.up, daemon'.life, other)
                                      /\ ServiceOf(service', other)
      BY <1>1, <2>2, <3>7, <3>8
    <3> QED BY <3>7, <3>9 DEF BatteryLives
  <2> QED BY <1>1, <1>9, <2>3, <2>4, <2>5 DEF BatteryInv, BatteryOff
<1>10. m.started \in BOOLEAN
  BY InvFacts
<1> QED BY <1>8, <1>9

LEMMA DaemonExitsKeeps ==
    ASSUME BatteryInv, DaemonExits
    PROVE  BatteryInv'
<1> DEFINE m == service
           e == Word("unregistered")
<1>1. daemon.up /\ service' = m /\ bounds' = bounds
      /\ inbox' = (IF m.started THEN Append(inbox, e) ELSE inbox)
      /\ daemon' = [daemon EXCEPT !.up = FALSE]
  BY DEF DaemonExits, Reports
<1>2. daemon \in Daemon /\ bounds \in Bounds /\ MaxEvents \in Nat
  BY InvFacts
<1>3. daemon' \in Daemon /\ daemon'.up = FALSE /\ daemon'.life = daemon.life
  BY <1>1, <1>2 DEF Daemon
<1>4. e \in BatteryMessage /\ Truthful(e) /\ e.what = "unregistered"
  BY WordIs DEF Kinds
<1> HIDE DEF e
<1>5. PICK s \in Seq(BatteryMessage) : s = inbox
  BY InvFacts
<1>6. CASE ~m.started
  <2>1. BatteryTyped' /\ BatteryOff' /\ BatteryLives' /\ WalkIn(inbox, service)'
    BY <1>1, <1>3, <1>6 DEF BatteryInv, BatteryTyped, BatteryOff, BatteryLives
  <2> QED BY <2>1 DEF BatteryInv
<1>7. CASE m.started
  <2>1. PICK q \in Seq(BatteryMessage) : q = Append(s, e) /\ Adds(s, q, Len(s) + 1, e)
    BY <1>4, AppendAdds
  <2>2. inbox' = q /\ Len(s) \in Nat /\ Len(q) = Len(s) + 1 /\ q[Len(q)] = e
        /\ \A i \in 1..Len(q) : i = Len(q) \/ (i \in 1..Len(s) /\ q[i] = s[i])
    BY <1>1, <1>5, <1>7, <2>1, LenProperties DEF Adds
  <2>3. BatteryTyped'
    <3>1. \A i \in 1..Len(q) : Truthful(q[i])
      BY <1>4, <1>5, <2>2, InvFacts
    <3> QED BY <1>1, <1>3, <2>2, <3>1 DEF BatteryInv, BatteryTyped
  <2>4. WalkIn(inbox', m)
    <3>1. PICK c, g, mo, do : c = m.calls /\ g = m.generation /\ mo = m.manager
                              /\ do = m.device
      OBVIOUS
    <3>2. WalkOf(s, c, g, mo, do)
      BY <1>5, <3>1, InvFacts DEF WalkIn
    <3>3. ~Answering(e)
      BY <1>4 DEF Answering, Replies
    <3>4. WalkOf(q, c, g, mo, do)
      BY <2>1, <3>2, <3>3, WalkSent
    <3> QED BY <2>2, <3>1, <3>4 DEF WalkIn
  <2>5. BatteryLives'
    <3>1. PICK life \in 0..MaxEvents :
              /\ Lives(inbox, FactKinds, daemon.up, daemon.life, life)
              /\ ServiceOf(m, life)
      BY <1>7 DEF BatteryInv, BatteryLives
    <3>2. PICK up, now : up = daemon.up /\ now = daemon.life
      OBVIOUS
    <3>3. Lives(s, FactKinds, up, now, life)
      BY <1>5, <3>1, <3>2, Zenon
    <3>4. "unregistered" \notin FactKinds
      BY DEF FactKinds
    <3>5. Lives(q, FactKinds, FALSE, now, life) /\ Gone(q)
      BY <1>4, <2>1, <3>3, <3>4, LivesExit DEF Gone
    <3>6. Lives(inbox', FactKinds, daemon'.up, daemon'.life, life) /\ Gone(inbox')
      BY <1>3, <2>2, <3>2, <3>5
    <3> QED BY <1>1, <3>1, <3>6 DEF BatteryLives
  <2> QED BY <1>1, <1>7, <2>3, <2>4, <2>5 DEF BatteryInv, BatteryOff
<1> QED BY <1>6, <1>7

\* Something of the daemon changes, and is told with e if it is heard.
LEMMA MoveKeeps ==
    ASSUME BatteryInv, NEW d \in Daemon, NEW e, NEW heard, Move(d, e, heard),
           d.up, d.life = daemon.life, e \in BatteryMessage, Truthful(e),
           e.what \in Changes, e.what \in FactKinds => e.fact.life = d.life,
           heard => service.started
    PROVE  BatteryInv'
<1> DEFINE m == service
<1>1. daemon.up /\ daemon' = d /\ service' = m
      /\ (heard => Sent(e)) /\ (~heard => inbox' = inbox)
      /\ bounds' = [bounds EXCEPT !.moves = @ + 1,
                                  !.unheard = IF heard \/ ~Matters(e) THEN @
                                              ELSE @ \cup {e.what}]
  BY DEF Move
<1>2. daemon.up = TRUE /\ d.up = TRUE
  BY <1>1, InvFacts DEF Daemon
<1>3. bounds' \in Bounds
  <2>1. bounds \in Bounds /\ bounds.unheard \in SUBSET Changes
    BY InvFacts DEF Bounds
  <2>2. PICK u : u = IF heard \/ ~Matters(e) THEN bounds.unheard
                     ELSE bounds.unheard \cup {e.what}
    OBVIOUS
  <2>3. u \in SUBSET Changes
    BY <2>1, <2>2
  <2>4. bounds' = [bounds EXCEPT !.moves = @ + 1, !.unheard = u]
    BY <1>1, <2>2, Zenon
  <2>5. PICK moves : moves = bounds.moves + 1
    OBVIOUS
  <2>6. PICK more : more = SUBSET Changes
    OBVIOUS
  <2>7. moves \in Nat /\ u \in more /\ bounds' = [bounds EXCEPT !.moves = moves, !.unheard = u]
        /\ bounds \in [moves : Nat, refusals : Nat, refreshes : Nat, unheard : more]
    BY <2>1, <2>3, <2>4, <2>5, <2>6 DEF Bounds
  <2>8. bounds' \in [moves : Nat, refusals : Nat, refreshes : Nat, unheard : more]
    BY <2>7
  <2> QED BY <2>6, <2>8 DEF Bounds
<1>4. d.life # 0
  BY <1>1 DEF BatteryInv, BatteryTyped
<1>5. CASE ~heard
  <2>1. BatteryTyped'
    BY <1>1, <1>3, <1>4, <1>5 DEF BatteryInv, BatteryTyped
  <2>2. BatteryOff' /\ WalkIn(inbox, service)'
    BY <1>1, <1>5 DEF BatteryInv, BatteryOff
  <2>3. daemon'.up = daemon.up /\ daemon'.life = daemon.life
    BY <1>1, <1>2
  <2>4. BatteryLives'
    BY <1>1, <1>5, <2>3, Zenon DEF BatteryInv, BatteryLives
  <2> QED BY <2>1, <2>2, <2>4 DEF BatteryInv
<1>6. CASE heard
  <2>1. PICK s \in Seq(BatteryMessage) : s = inbox
    BY InvFacts
  <2>2. e.what # "unregistered" /\ ~Answering(e)
    BY DEF Changes, Answering, Replies
  <2>3. PICK q, k : /\ q \in Seq(BatteryMessage) /\ inbox' = q /\ Adds(s, q, k, e)
                    /\ \A i \in k..Len(s) : s[i].what # "unregistered"
    <3>1. CASE inbox' = Append(inbox, e)
      <4>1. Append(s, e) \in Seq(BatteryMessage) /\ Adds(s, Append(s, e), Len(s) + 1, e)
        BY AppendAdds
      <4>2. \A i \in Len(s) + 1..Len(s) : s[i].what # "unregistered"
        BY LenProperties
      <4> QED BY <2>1, <3>1, <4>1, <4>2
    <3>2. CASE /\ inbox # <<>> /\ Last(inbox).what \in {"manager", "named", "device"}
               /\ inbox' = Front(inbox) \o <<e, Last(inbox)>>
      <4>1. /\ Front(s) \o <<e, Last(s)>> \in Seq(BatteryMessage)
            /\ Adds(s, Front(s) \o <<e, Last(s)>>, Len(s), e)
        BY <2>1, <3>2, OvertakeAdds
      <4>2. Len(s) \in Nat /\ Last(s) = s[Len(s)]
        BY LenProperties DEF Last
      <4>3. \A i \in Len(s)..Len(s) : s[i].what # "unregistered"
        BY <2>1, <3>2, <4>2
      <4> QED BY <2>1, <3>2, <4>1, <4>3
    <3> QED BY <1>1, <1>6, <3>1, <3>2 DEF Sent
  <2>4. BatteryTyped'
    <3>1. \A i \in 1..Len(q) : Truthful(q[i])
      <4>1. Len(s) \in Nat /\ Len(q) \in Nat /\ Len(q) = Len(s) + 1 /\ k \in 1..Len(s) + 1
            /\ q[k] = e /\ (\A i \in 1..k - 1 : q[i] = s[i])
            /\ (\A i \in k..Len(s) : q[i + 1] = s[i])
        BY <2>3, LenProperties DEF Adds
      <4>2. \A i \in 1..Len(s) : Truthful(s[i])
        BY <2>1, InvFacts
      <4> TAKE i \in 1..Len(q)
      <4>3. CASE i < k
        <5>1. i \in 1..k - 1 /\ i \in 1..Len(s)
          BY <4>1, <4>3
        <5> QED BY <4>1, <4>2, <5>1
      <4>4. CASE i > k
        <5>1. i - 1 \in k..Len(s) /\ i - 1 \in 1..Len(s) /\ i - 1 + 1 = i
          BY <4>1, <4>4
        <5> QED BY <4>1, <4>2, <5>1
      <4>5. i < k \/ i > k \/ i = k
        BY <4>1
      <4> QED BY <4>1, <4>3, <4>4, <4>5
    <3> QED BY <1>1, <1>3, <1>4, <2>3, <3>1 DEF BatteryInv, BatteryTyped
  <2>5. WalkIn(inbox', m)
    <3>1. PICK c, g, mo, do : c = m.calls /\ g = m.generation /\ mo = m.manager
                              /\ do = m.device
      OBVIOUS
    <3>2. WalkOf(s, c, g, mo, do)
      BY <2>1, <3>1, InvFacts DEF WalkIn
    <3>3. WalkOf(q, c, g, mo, do)
      BY <2>2, <2>3, <3>2, WalkSent
    <3> QED BY <2>3, <3>1, <3>3 DEF WalkIn
  <2>6. BatteryLives'
    <3>1. PICK life \in 0..MaxEvents :
              /\ Lives(inbox, FactKinds, daemon.up, daemon.life, life)
              /\ ServiceOf(m, life)
      BY <1>6 DEF BatteryInv, BatteryLives
    <3>2. PICK up, now : up = TRUE /\ now = daemon.life
      OBVIOUS
    <3>3. Lives(s, FactKinds, up, now, life)
      BY <1>2, <2>1, <3>1, <3>2, Zenon
    <3>4. e.what \in FactKinds => up /\ e.fact.life = now
      BY <3>2
    <3>5. Lives(q, FactKinds, up, now, life)
      BY <2>2, <2>3, <3>3, <3>4, LivesSent
    <3>6. Lives(inbox', FactKinds, daemon'.up, daemon'.life, life)
      BY <1>1, <1>2, <2>3, <3>2, <3>5
    <3> QED BY <1>1, <3>1, <3>6 DEF BatteryLives
  <2>7. BatteryOff'
    BY <1>1, <1>6 DEF BatteryOff
  <2> QED BY <1>1, <2>4, <2>5, <2>6, <2>7 DEF BatteryInv
<1> QED BY <1>5, <1>6

LEMMA NextKeeps ==
    ASSUME BatteryInv, Next
    PROVE  BatteryInv'
<1>1. daemon \in Daemon /\ (daemon.up => daemon.life # 0) /\ Sound(service)
  BY InvFacts DEF BatteryInv, BatteryTyped
<1>2. ASSUME NEW d, d \in [up : BOOLEAN, life : 0..MaxEvents, manager : 0..1,
                           display : Paths \cup {"none"}, level : 0..1]
      PROVE  /\ ManagerFact(d) \in Fact /\ ManagerFact(d).life = d.life
             /\ ManagerFact(d).path = "manager"
             /\ DeviceFact(d) \in Fact /\ DeviceFact(d).life = d.life
             /\ DeviceFact(d).path = d.display
  BY <1>2 DEF ManagerFact, DeviceFact, Fact
<1>3. CASE ManagerChanges
  <2> DEFINE d == [daemon EXCEPT !.manager = 1 - @]
             e == Reply("managerChanged", 0, "manager", ManagerFact(d))
  <2>1. Move(d, e, service.rules.manager) /\ daemon.up
    BY <1>3 DEF ManagerChanges, Move
  <2>2. d \in Daemon /\ d.up = daemon.up /\ d.life = daemon.life
    BY <1>1 DEF Daemon
  <2> HIDE DEF d
  <2>3. ManagerFact(d) \in Fact /\ ManagerFact(d).life = d.life
        /\ ManagerFact(d).path = "manager"
    BY <1>2, <2>2 DEF Daemon
  <2>4. e \in BatteryMessage /\ e.what = "managerChanged" /\ e.path = "manager"
        /\ e.fact = ManagerFact(d)
    BY <2>3 DEF Reply, BatteryMessage, Kinds, Changes
  <2> HIDE DEF e
  <2>5. Truthful(e)
    BY <1>1, <2>1, <2>2, <2>3, <2>4 DEF Truthful
  <2>6. service.rules.manager => service.started
    BY <1>1, NoObjectSane DEF BatteryInv, BatteryOff, Sound
  <2>7. e.what \in Changes /\ e.fact.life = d.life /\ d.up
    BY <2>1, <2>2, <2>3, <2>4 DEF Changes
  <2> QED BY <2>1, <2>2, <2>4, <2>5, <2>6, <2>7, MoveKeeps
<1>4. CASE LevelChanges
  <2> DEFINE d == [daemon EXCEPT !.level = 1 - @]
             e == Reply("deviceChanged", 0, d.display, DeviceFact(d))
             heard == service.rules.device = d.display
  <2>1. Move(d, e, heard) /\ daemon.up /\ daemon.display # "none"
    BY <1>4 DEF LevelChanges, Move
  <2>2. d \in Daemon /\ d.up = daemon.up /\ d.life = daemon.life /\ d.display = daemon.display
        /\ d.display \in Paths
    <3>1. PICK some, level : some = Paths \cup {"none"} /\ level = 1 - daemon.level
      OBVIOUS
    <3>2. daemon \in [up : BOOLEAN, life : 0..MaxEvents, manager : 0..1, display : some,
                      level : 0..1]
      BY <1>1, <3>1 DEF Daemon
    <3>3. level \in 0..1
      BY <3>1, <3>2
    <3>4. d \in [up : BOOLEAN, life : 0..MaxEvents, manager : 0..1, display : some,
                 level : 0..1]
          /\ d.up = daemon.up /\ d.life = daemon.life /\ d.display = daemon.display
      BY <3>1, <3>2, <3>3
    <3>5. daemon.display \in some
      BY <3>2
    <3> QED BY <2>1, <3>1, <3>4, <3>5 DEF Daemon
  <2> HIDE DEF d
  <2>3. DeviceFact(d) \in Fact /\ DeviceFact(d).life = d.life
        /\ DeviceFact(d).path = d.display
    BY <1>2, <2>2 DEF Daemon
  <2>4. e \in BatteryMessage /\ e.what = "deviceChanged" /\ e.path = d.display
        /\ e.fact = DeviceFact(d)
    BY <2>2, <2>3 DEF Reply, BatteryMessage, Kinds, Changes
  <2> HIDE DEF e
  <2>5. Truthful(e)
    BY <1>1, <2>1, <2>2, <2>3, <2>4 DEF Truthful
  <2>6. heard => service.started
    BY <1>1, <2>1, <2>2, NoObjectSane DEF BatteryInv, BatteryOff, Sound
  <2>7. e.what \in Changes /\ e.fact.life = d.life /\ d.up
    BY <2>1, <2>2, <2>3, <2>4 DEF Changes
  <2> HIDE DEF heard
  <2> QED BY <2>1, <2>2, <2>4, <2>5, <2>6, <2>7, MoveKeeps
<1>5. CASE DevicesChange
  <2>1. PICK display \in (Paths \cup {"none"}) \ {daemon.display} :
            Move([daemon EXCEPT !.display = display], Word("devicesChanged"),
                 service.rules.devices)
    BY <1>5 DEF DevicesChange
  <2> DEFINE d == [daemon EXCEPT !.display = display]
             e == Word("devicesChanged")
  <2>2. d \in Daemon /\ d.up = daemon.up /\ d.life = daemon.life
    BY <1>1 DEF Daemon
  <2>3. daemon.up /\ Move(d, e, service.rules.devices)
    BY <2>1 DEF Move
  <2>4. e \in BatteryMessage /\ e.what = "devicesChanged" /\ Truthful(e)
    BY WordIs DEF Kinds, Changes
  <2>5. service.rules.devices => service.started
    BY DEF BatteryInv, BatteryOff
  <2>6. e.what \in Changes /\ e.what \notin FactKinds /\ d.up
    BY <2>2, <2>3, <2>4 DEF Changes, FactKinds
  <2> HIDE DEF d, e
  <2> QED BY <2>2, <2>3, <2>4, <2>5, <2>6, MoveKeeps
<1> QED BY <1>3, <1>4, <1>5, StartKeeps, StopKeeps, RefreshKeeps, EventLoopKeeps, BusKeeps,
           DaemonStartsKeeps, DaemonExitsKeeps DEF Next

LEMMA BatteryNextKeeps ==
    ASSUME BatteryInv, [Next]_vars
    PROVE  BatteryInv'
<1>1. CASE Next
  BY <1>1, NextKeeps
<1>2. CASE UNCHANGED vars
  BY <1>2 DEF BatteryInv, BatteryTyped, BatteryOff, BatteryLives, vars
<1> QED BY <1>1, <1>2

\* Whatever UPower, the bus and refreshNow() do, what BatteryService draws of the manager
\* and of the device is of one life of the daemon, and of the device it follows; and an
\* object whose read began in the walk there now is has that read, or one that ends it, on
\* its way. One of an earlier walk may wait for nothing (BatteryService.cpp:197).
THEOREM BatteryWellFormed == Spec => []WellFormed
<1>1. Init => BatteryInv
  BY BatteryInvInit
<1>2. BatteryInv /\ [Next]_vars => BatteryInv'
  BY BatteryNextKeeps
<1>3. BatteryInv => WellFormed
  BY BatteryInvWellFormed
<1> QED BY <1>1, <1>2, <1>3, PTL DEF Spec

-----------------------------------------------------------------------------
(* The properties of an object, for each of the services. *)

LEMMA SameProperties ==
    ASSUME NEW o, NEW f
    PROVE  /\ N!BeginRead(o) = BeginRead(o) /\ M!BeginRead(o) = BeginRead(o)
           /\ N!AdoptAll(o, f) = AdoptAll(o, f) /\ M!AdoptAll(o, f) = AdoptAll(o, f)
           /\ N!AbortRead(o) = AbortRead(o) /\ M!AbortRead(o) = AbortRead(o)
           /\ N!ApplyChange(o, f) = ApplyChange(o, f) /\ M!ApplyChange(o, f) = ApplyChange(o, f)
<1>1. \A fact, change : N!Merged(fact, change) = Merged(fact, change)
                        /\ M!Merged(fact, change) = Merged(fact, change)
  BY Zenon DEF Merged, N!Merged, M!Merged
<1>2. \A fact, held : N!AfterHeld(fact, held) = AfterHeld(fact, held)
                      /\ M!AfterHeld(fact, held) = AfterHeld(fact, held)
  BY Zenon DEF AfterHeld, N!AfterHeld, M!AfterHeld, Merged, N!Merged, M!Merged
<1>3. \A fact : N!Replayed(o, fact) = Replayed(o, fact) /\ M!Replayed(o, fact) = Replayed(o, fact)
  BY <1>2, Zenon DEF Replayed, N!Replayed, M!Replayed
<1>4. N!BeginRead(o) = BeginRead(o) /\ M!BeginRead(o) = BeginRead(o)
  BY Zenon DEF BeginRead, N!BeginRead, M!BeginRead
<1>5. N!AdoptAll(o, f) = AdoptAll(o, f) /\ M!AdoptAll(o, f) = AdoptAll(o, f)
      /\ N!AbortRead(o) = AbortRead(o) /\ M!AbortRead(o) = AbortRead(o)
  BY <1>3, Zenon DEF AdoptAll, N!AdoptAll, M!AdoptAll, AbortRead, N!AbortRead, M!AbortRead
<1>6. N!ApplyChange(o, f) = ApplyChange(o, f) /\ M!ApplyChange(o, f) = ApplyChange(o, f)
  BY <1>1, Zenon DEF ApplyChange, N!ApplyChange, M!ApplyChange
<1> QED BY <1>4, <1>5, <1>6

-----------------------------------------------------------------------------
(* NetworkService. *)

NetShown == [manager : N!Fact, connection : N!Fact, device : N!Fact, accessPoint : N!Fact]

NetService == [started : BOOLEAN, generation : Nat,
               objects : [N!Subscription -> N!Object], rules : [N!Subscription -> N!Path],
               available : BOOLEAN, shown : NetShown, calls : Seq(N!Call)]

\* n is m with these in place of its own.
NetIs(n, m, generation, objects, rules, shown, calls) ==
    /\ n \in NetService /\ n.started = m.started /\ n.generation = generation
    /\ n.objects = objects /\ n.rules = rules /\ n.shown = shown /\ n.calls = calls

LEMMA NetMerged ==
    ASSUME NEW f \in N!Fact, NEW c \in N!Change
    PROVE  Merged(f, c) \in N!Fact /\ Merged(f, c).life = c.life
<1>1. DOMAIN f = {"life", "path", "names", "value"}
  BY DEF N!Fact
<1>2. DOMAIN c \subseteq DOMAIN f /\ "life" \in DOMAIN c /\ c.life \in 0..ChainEvents
      /\ c.path \in N!Path /\ "path" \in DOMAIN c
      /\ ("names" \in DOMAIN c => c.names \in N!Path \cup {"unknown"})
      /\ ("value" \in DOMAIN c => c.value \in N!Value)
  BY <1>1 DEF N!Change, N!Fact
<1>3. Merged(f, c) = [life |-> c.life, path |-> c.path,
                      names |-> IF "names" \in DOMAIN c THEN c.names ELSE f.names,
                      value |-> IF "value" \in DOMAIN c THEN c.value ELSE f.value]
  BY <1>1, <1>2 DEF Merged
<1>4. f.names \in N!Path \cup {"unknown"} /\ f.value \in N!Value
  BY DEF N!Fact
<1> QED BY <1>2, <1>3, <1>4 DEF N!Fact

LEMMA NetServiceFields ==
    ASSUME NEW m \in NetService
    PROVE  /\ m.started \in BOOLEAN /\ m.generation \in Nat
           /\ m.objects \in [N!Subscription -> N!Object]
           /\ m.rules \in [N!Subscription -> N!Path] /\ m.available \in BOOLEAN
           /\ m.shown \in NetShown /\ m.calls \in Seq(N!Call)
           /\ \A object \in N!Subscription :
                  /\ m.objects[object] \in N!Object /\ m.objects[object].fact \in N!Fact
                  /\ m.objects[object].held \in Seq(N!Change)
                  /\ m.objects[object].path \in N!Path /\ m.rules[object] \in N!Path
                  /\ m.objects[object].readGeneration \in Nat
                  /\ m.objects[object].reading \in BOOLEAN
  BY DEF NetService, N!Object

\* Facts and changes of one life, or of none.
NetFacts(life) == {f \in N!Fact : f.life \in {0, life}}
NetChanges(life) == {c \in N!Change : c.life \in {0, life}}

NetObjectOf(o, life) == o.fact \in NetFacts(life) /\ o.held \in Seq(NetChanges(life))

LEMMA NetAfterHeld ==
    ASSUME NEW f \in N!Fact, NEW held \in Seq(N!Change)
    PROVE  /\ AfterHeld(f, held) \in N!Fact
           /\ \A life : f \in NetFacts(life) /\ held \in Seq(NetChanges(life)) =>
                  AfterHeld(f, held) \in NetFacts(life)
<1>1. \A x \in N!Fact, c \in N!Change : Merged(x, c) \in N!Fact
  BY NetMerged
<1>2. AfterHeld(f, held) \in N!Fact
  BY <1>1, AfterHeldType
<1>3. ASSUME NEW life, f \in NetFacts(life), held \in Seq(NetChanges(life))
      PROVE  AfterHeld(f, held) \in NetFacts(life)
  <2>1. \A x \in NetFacts(life), c \in NetChanges(life) : Merged(x, c) \in NetFacts(life)
    BY NetMerged DEF NetFacts, NetChanges
  <2> QED BY <1>3, <2>1, AfterHeldType
<1> QED BY <1>2, <1>3

\* What each operation makes of an object.
LEMMA NetObjectOperations ==
    ASSUME NEW o \in N!Object, NEW f \in N!Fact, NEW c \in N!Change
    PROVE  /\ AdoptAll(o, f) \in N!Object /\ ~AdoptAll(o, f).reading
           /\ AdoptAll(o, f).held = <<>> /\ AdoptAll(o, f).path = o.path
           /\ AdoptAll(o, f).readGeneration = o.readGeneration
           /\ AbortRead(o) = AdoptAll(o, o.fact)
           /\ ApplyChange(o, c) \in N!Object /\ ApplyChange(o, c).reading = o.reading
           /\ ApplyChange(o, c).path = o.path
           /\ ApplyChange(o, c).readGeneration = o.readGeneration
           /\ (ApplyChange(o, c).held # <<>> => o.reading \/ o.held # <<>>)
           /\ \A life : NetObjectOf(o, life) /\ f \in NetFacts(life) =>
                            NetObjectOf(AdoptAll(o, f), life)
           /\ \A life : NetObjectOf(o, life) /\ c \in NetChanges(life) =>
                            NetObjectOf(ApplyChange(o, c), life)
<1>1. o.held \in Seq(N!Change) /\ o.fact \in N!Fact /\ o.reading \in BOOLEAN
  BY DEF N!Object
<1>2. Append(o.held, c) \in Seq(N!Change) /\ <<>> \in Seq(N!Change)
  BY <1>1, AppendProperties
<1>3. AfterHeld(f, o.held) \in N!Fact
  BY <1>1, NetAfterHeld
<1>4. Merged(o.fact, c) \in N!Fact /\ Merged(o.fact, c).life = c.life
  BY <1>1, NetMerged
<1>5. /\ AdoptAll(o, f) \in N!Object /\ AdoptAll(o, f).fact = AfterHeld(f, o.held)
      /\ AdoptAll(o, f).held = <<>> /\ ~AdoptAll(o, f).reading
      /\ AdoptAll(o, f).path = o.path /\ AdoptAll(o, f).readGeneration = o.readGeneration
  BY <1>2, <1>3 DEF AdoptAll, Replayed, N!Object
<1>6. AbortRead(o) = AdoptAll(o, o.fact)
  BY DEF AbortRead, AdoptAll
<1>7. \A life : NetObjectOf(o, life) /\ f \in NetFacts(life) => NetObjectOf(AdoptAll(o, f), life)
  <2> TAKE life
  <2>1. <<>> \in Seq(NetChanges(life))
    OBVIOUS
  <2> QED BY <1>1, <1>5, <2>1, NetAfterHeld DEF NetObjectOf
<1>8. CASE o.reading
  <2> DEFINE p == [o EXCEPT !.held = Append(o.held, c)]
  <2>1. ApplyChange(o, c) = p
    BY <1>8, Zenon DEF ApplyChange
  <2>2. p \in N!Object /\ p.reading = o.reading /\ p.path = o.path /\ p.fact = o.fact
        /\ p.readGeneration = o.readGeneration /\ p.held = Append(o.held, c)
    BY <1>2 DEF N!Object
  <2>3. \A life : NetObjectOf(o, life) /\ c \in NetChanges(life) => NetObjectOf(p, life)
    <3> HIDE DEF p
    <3> TAKE life
    <3>1. o.held \in Seq(NetChanges(life)) /\ c \in NetChanges(life) =>
              Append(o.held, c) \in Seq(NetChanges(life))
      BY AppendProperties
    <3> QED BY <2>2, <3>1 DEF NetObjectOf
  <2> HIDE DEF p
  <2> QED BY <1>5, <1>6, <1>7, <1>8, <2>1, <2>2, <2>3
<1>9. CASE ~o.reading
  <2> DEFINE p == [o EXCEPT !.fact = Merged(o.fact, c)]
  <2>1. ApplyChange(o, c) = p
    BY <1>9, Zenon DEF ApplyChange
  <2>2. p \in N!Object /\ p.reading = o.reading /\ p.path = o.path
        /\ p.fact = Merged(o.fact, c) /\ p.readGeneration = o.readGeneration /\ p.held = o.held
    BY <1>4 DEF N!Object
  <2> HIDE DEF p
  <2>3. \A life : NetObjectOf(o, life) /\ c \in NetChanges(life) => NetObjectOf(p, life)
    BY <1>4, <2>2 DEF NetObjectOf, NetFacts, NetChanges
  <2> QED BY <1>5, <1>6, <1>7, <1>9, <2>1, <2>2, <2>3
<1> QED BY <1>1, <1>8, <1>9

NetPart == {"manager", "connection", "device", "accessPoint"}

\* Every call names an object, and every object is followed where it was found.
NetSound(m) ==
    /\ m \in NetService /\ m.generation # 0
    /\ \A object \in N!Subscription :
           /\ m.rules[object] = m.objects[object].path
           /\ m.objects[object].held # <<>> => m.objects[object].reading
    /\ \A i \in 1..Len(m.calls) : m.calls[i].path # "none"

NetOf(m, life) ==
    /\ \A object \in N!Subscription : NetObjectOf(m.objects[object], life)
    /\ m.shown.manager \in NetFacts(life) /\ m.shown.connection \in NetFacts(life)
    /\ m.shown.device \in NetFacts(life) /\ m.shown.accessPoint \in NetFacts(life)

\* The call, or the answer, that an object waits for.
ForIt(x, object, o) ==
    x.object = object /\ x.path = o.path /\ x.generation = o.readGeneration
IsAsked(c, object, o) == \E i \in 1..Len(c) : ForIt(c[i], object, o)
IsAnswered(s, object, o) ==
    \E i \in 1..Len(s) : s[i].what \in {"reply", "refused"} /\ ForIt(s[i], object, o)

Awaited(m, s) ==
    \A object \in N!Subscription :
        m.objects[object].reading =>
            IsAsked(m.calls, object, m.objects[object])
            \/ IsAnswered(s, object, m.objects[object])

\* m became n, with something of this life or of none; whoever waits for an answer still
\* has it on its way.
LivesOn(m, n, l) == \A life : NetOf(m, life) /\ l \in {0, life} => NetOf(n, life)
WaitsOn(m, n) == \A s : Awaited(m, s) => Awaited(n, s)

Grows(m, n, l) ==
    /\ NetSound(n) /\ n.started = m.started /\ m.generation <= n.generation
    /\ LivesOn(m, n, l) /\ WaitsOn(m, n)

LEMMA NetSoundFields ==
    ASSUME NEW m, NetSound(m)
    PROVE  /\ m \in NetService /\ m.generation \in Nat \ {0} /\ m.started \in BOOLEAN
           /\ m.objects \in [N!Subscription -> N!Object] /\ m.rules \in [N!Subscription -> N!Path]
           /\ m.shown \in NetShown /\ m.calls \in Seq(N!Call)
           /\ \A object \in N!Subscription :
                  /\ m.objects[object] \in N!Object /\ m.objects[object].fact \in N!Fact
                  /\ m.objects[object].path \in N!Path
                  /\ m.objects[object].readGeneration \in Nat
                  /\ m.rules[object] = m.objects[object].path
                  /\ m.objects[object].held # <<>> => m.objects[object].reading
           /\ \A i \in 1..Len(m.calls) : m.calls[i].path # "none"
  BY NetServiceFields DEF NetSound

LEMMA GrowsOn ==
    ASSUME NEW m, NEW n, NEW p, NEW l, NetSound(m), Grows(m, n, l), Grows(n, p, l)
    PROVE  Grows(m, p, l)
<1>1. m.generation \in Nat /\ n.generation \in Nat /\ p.generation \in Nat
  BY NetSoundFields DEF Grows
<1> QED BY <1>1 DEF Grows, LivesOn, WaitsOn

\* Nothing that waits does so for something else.
LEMMA SameWaits ==
    ASSUME NEW m, NEW n,
           \A object \in N!Subscription :
               n.objects[object].reading => n.objects[object] = m.objects[object],
           n.calls = m.calls
    PROVE  WaitsOn(m, n)
  BY DEF WaitsOn, Awaited

LEMMA NetUnknownIs ==
    /\ N!Unknown \in N!Fact /\ N!NoObject \in N!Object /\ ~N!NoObject.reading
    /\ N!NoObject.held = <<>> /\ N!NoObject.path = "none" /\ N!NoObject.fact = N!Unknown
    /\ \A life : N!Unknown \in NetFacts(life) /\ NetObjectOf(N!NoObject, life)
<1>1. 0 \in 0..ChainEvents
  BY ReadingsAssumption
<1>2. N!Unknown \in N!Fact /\ N!Unknown.life = 0
  BY <1>1 DEF N!Unknown, N!Fact, N!Path, N!Value
<1>3. <<>> \in Seq(N!Change) /\ \A life : <<>> \in Seq(NetChanges(life))
  OBVIOUS
<1>4. "none" \in N!Path
  BY DEF N!Path
<1>5. N!NoObject \in N!Object /\ ~N!NoObject.reading /\ N!NoObject.held = <<>>
      /\ N!NoObject.path = "none" /\ N!NoObject.fact = N!Unknown
  BY <1>2, <1>3, <1>4 DEF N!NoObject, N!Object
<1> QED BY <1>2, <1>3, <1>5 DEF NetFacts, NetObjectOf

LEMMA PublishGrows ==
    ASSUME NEW m, NetSound(m), NEW l
    PROVE  /\ Grows(m, N!Publish(m), l) /\ N!Publish(m).objects = m.objects
           /\ N!Publish(m).rules = m.rules /\ N!Publish(m).generation = m.generation
<1> DEFINE n == N!Publish(m)
           b == m.objects["manager"].fact.value # "unknown"
           c == N!Compose(m)
<1>1. m \in NetService /\ m.objects \in [N!Subscription -> N!Object]
      /\ \A object \in N!Subscription : m.objects[object].fact \in N!Fact
  BY NetSoundFields
<1>2. /\ "manager" \in N!Subscription /\ "connection" \in N!Subscription
      /\ "device" \in N!Subscription /\ "accessPoint" \in N!Subscription
  BY DEF N!Subscription
<1>3. /\ c.manager \in {m.objects["manager"].fact, N!Unknown}
      /\ c.connection \in {m.objects["connection"].fact, N!Unknown}
      /\ c.device \in {m.objects["device"].fact, N!Unknown}
      /\ c.accessPoint \in {m.objects["accessPoint"].fact, N!Unknown}
      /\ c = [manager |-> c.manager, connection |-> c.connection, device |-> c.device,
              accessPoint |-> c.accessPoint]
  BY DEF N!Compose
<1> HIDE DEF c
<1>4. c \in NetShown
  BY <1>1, <1>2, <1>3, NetUnknownIs DEF NetShown
<1>5. n = [m EXCEPT !.shown = c, !.available = b]
  BY DEF N!Publish, c
<1>6. b \in BOOLEAN
  OBVIOUS
<1> HIDE DEF n, b
<1>7. n \in NetService /\ n.started = m.started /\ n.generation = m.generation
      /\ n.objects = m.objects /\ n.rules = m.rules /\ n.calls = m.calls /\ n.shown = c
  BY <1>1, <1>4, <1>5, <1>6 DEF NetService
<1>8. NetSound(n)
  BY <1>7 DEF NetSound
<1>9. LivesOn(m, n, l)
  BY <1>2, <1>3, <1>7, NetUnknownIs DEF LivesOn, NetOf, NetObjectOf
<1>10. WaitsOn(m, n)
  BY <1>7, SameWaits
<1>11. m.generation <= n.generation
  BY <1>7, NetSoundFields
<1> QED BY <1>7, <1>8, <1>9, <1>10, <1>11 DEF Grows, n

\* One object gets other properties.
WithObject(m, object, o) == [m EXCEPT !.objects[object] = o]

LEMMA WithObjectIs ==
    ASSUME NEW m \in NetService, NEW object \in N!Subscription, NEW o \in N!Object
    PROVE  /\ WithObject(m, object, o) \in NetService
           /\ WithObject(m, object, o).started = m.started
           /\ WithObject(m, object, o).generation = m.generation
           /\ WithObject(m, object, o).rules = m.rules
           /\ WithObject(m, object, o).shown = m.shown
           /\ WithObject(m, object, o).calls = m.calls
           /\ WithObject(m, object, o).objects[object] = o
           /\ \A other \in N!Subscription \ {object} :
                  WithObject(m, object, o).objects[other] = m.objects[other]
<1> DEFINE objects == [m.objects EXCEPT ![object] = o]
<1>1. m.objects \in [N!Subscription -> N!Object]
  BY NetServiceFields
<1>2. objects \in [N!Subscription -> N!Object] /\ objects[object] = o
      /\ \A other \in N!Subscription \ {object} : objects[other] = m.objects[other]
  BY <1>1
<1>3. WithObject(m, object, o) = [m EXCEPT !.objects = objects]
  BY DEF WithObject
<1> HIDE DEF objects
<1>4. /\ WithObject(m, object, o) \in NetService
      /\ WithObject(m, object, o).started = m.started
      /\ WithObject(m, object, o).generation = m.generation
      /\ WithObject(m, object, o).rules = m.rules
      /\ WithObject(m, object, o).shown = m.shown
      /\ WithObject(m, object, o).calls = m.calls
      /\ WithObject(m, object, o).objects = objects
  BY <1>2, <1>3 DEF NetService
<1> QED BY <1>2, <1>4 DEF objects

\* An object whose properties changed waits for what it waited for, or no longer.
LEMMA WithObjectGrows ==
    ASSUME NEW m, NetSound(m), NEW object \in N!Subscription, NEW o \in N!Object, NEW l,
           o.path = m.objects[object].path, o.held # <<>> => o.reading,
           o.readGeneration = m.objects[object].readGeneration,
           o.reading => m.objects[object].reading,
           \A life : NetObjectOf(m.objects[object], life) /\ l \in {0, life}
                     => NetObjectOf(o, life)
    PROVE  /\ Grows(m, WithObject(m, object, o), l)
           /\ WithObject(m, object, o).objects[object] = o
           /\ WithObject(m, object, o).generation = m.generation
           /\ \A other \in N!Subscription \ {object} :
                  WithObject(m, object, o).objects[other] = m.objects[other]
<1> DEFINE n == WithObject(m, object, o)
<1>1. n \in NetService /\ n.started = m.started /\ n.generation = m.generation
      /\ n.rules = m.rules /\ n.shown = m.shown /\ n.calls = m.calls
      /\ n.objects[object] = o
      /\ \A other \in N!Subscription \ {object} : n.objects[other] = m.objects[other]
  <2>1. m \in NetService
    BY NetSoundFields
  <2> QED BY <2>1, WithObjectIs
<1> HIDE DEF n
<1>2. \A other \in N!Subscription :
          other = object \/ n.objects[other] = m.objects[other]
  BY <1>1
<1>3. NetSound(n)
  BY <1>1, <1>2 DEF NetSound
<1>4. LivesOn(m, n, l)
  BY <1>1, <1>2 DEF LivesOn, NetOf
<1>5. WaitsOn(m, n)
  <2> SUFFICES ASSUME NEW s, Awaited(m, s), NEW other \in N!Subscription,
                      n.objects[other].reading
               PROVE  IsAsked(n.calls, other, n.objects[other])
                      \/ IsAnswered(s, other, n.objects[other])
    BY DEF WaitsOn, Awaited
  <2>1. m.objects[other].reading /\ n.objects[other].path = m.objects[other].path
        /\ n.objects[other].readGeneration = m.objects[other].readGeneration
    BY <1>1, <1>2
  <2>2. IsAsked(m.calls, other, m.objects[other]) \/ IsAnswered(s, other, m.objects[other])
    BY <2>1 DEF Awaited
  <2> QED BY <1>1, <2>1, <2>2 DEF IsAsked, IsAnswered, ForIt
<1>6. m.generation <= n.generation
  BY <1>1, NetSoundFields
<1> QED BY <1>1, <1>3, <1>4, <1>5, <1>6 DEF Grows, n

LEMMA ReadGrows ==
    ASSUME NEW m, NetSound(m), NEW object \in N!Subscription, NEW path \in N!Path,
           path # "none", NEW l
    PROVE  /\ Grows(m, N!Read(m, object, path), l)
           /\ N!Read(m, object, path).generation = m.generation
<1> DEFINE n == N!Read(m, object, path)
           o == m.objects[object]
           b == BeginRead([o EXCEPT !.path = path, !.readGeneration = m.generation])
           x == [object |-> object, generation |-> m.generation, path |-> path]
           c == Append(m.calls, x)
           rules == [m.rules EXCEPT ![object] = path]
           objects == [m.objects EXCEPT ![object] = b]
<1>1. /\ m \in NetService /\ m.generation \in Nat \ {0} /\ m.calls \in Seq(N!Call)
      /\ o \in N!Object /\ m.objects \in [N!Subscription -> N!Object]
      /\ m.rules \in [N!Subscription -> N!Path]
  BY NetSoundFields
<1>2. /\ b \in N!Object /\ b.path = path /\ b.reading /\ b.readGeneration = m.generation
      /\ b.fact = o.fact /\ b.held = o.held
  BY <1>1 DEF BeginRead, N!Object
<1>3. x \in N!Call /\ x.object = object /\ x.generation = m.generation /\ x.path = path
  BY <1>1 DEF N!Call
<1>4. n = [m EXCEPT !.rules = rules, !.objects = objects, !.calls = c]
  BY SameProperties DEF N!Read
<1> HIDE DEF n, o, b, x
<1>5. /\ c \in Seq(N!Call) /\ Len(c) = Len(m.calls) + 1 /\ c[Len(c)] = x /\ Len(m.calls) \in Nat
      /\ \A i \in 1..Len(m.calls) : c[i] = m.calls[i] /\ i \in 1..Len(c)
      /\ \A i \in 1..Len(c) : c[i] = x \/ (i \in 1..Len(m.calls) /\ c[i] = m.calls[i])
  <2>1. c \in Seq(N!Call) /\ Len(c) = Len(m.calls) + 1 /\ c[Len(m.calls) + 1] = x
        /\ \A i \in 1..Len(m.calls) : c[i] = m.calls[i]
    BY <1>1, <1>3, AppendProperties
  <2>2. Len(m.calls) \in Nat
    BY <1>1, LenProperties
  <2> HIDE DEF c
  <2> QED BY <2>1, <2>2
<1>6. /\ rules \in [N!Subscription -> N!Path] /\ objects \in [N!Subscription -> N!Object]
      /\ \A other \in N!Subscription :
             IF other = object THEN rules[other] = path /\ objects[other] = b
             ELSE rules[other] = m.rules[other] /\ objects[other] = m.objects[other]
  BY <1>1, <1>2
<1> HIDE DEF c, rules, objects
<1>7. NetIs(n, m, m.generation, objects, rules, m.shown, c)
  BY <1>1, <1>4, <1>5, <1>6 DEF NetIs, NetService
<1>8. NetSound(n)
  <2>1. ASSUME NEW i \in 1..Len(c)
        PROVE  c[i].path # "none"
    BY <1>3, <1>5 DEF NetSound
  <2>2. ASSUME NEW other \in N!Subscription
        PROVE  rules[other] = objects[other].path
               /\ (objects[other].held # <<>> => objects[other].reading)
    BY <1>2, <1>6 DEF NetSound
  <2> QED BY <1>1, <1>7, <2>1, <2>2 DEF NetIs, NetSound
<1>9. LivesOn(m, n, l)
  BY <1>2, <1>6, <1>7 DEF LivesOn, NetOf, NetIs, NetObjectOf, o
<1>10. WaitsOn(m, n)
  <2> SUFFICES ASSUME NEW s, Awaited(m, s), NEW other \in N!Subscription,
                      objects[other].reading
               PROVE  IsAsked(c, other, objects[other]) \/ IsAnswered(s, other, objects[other])
    BY <1>7 DEF WaitsOn, Awaited, NetIs
  <2>1. CASE other = object
    <3>1. ForIt(c[Len(c)], other, objects[other]) /\ Len(c) \in 1..Len(c)
      BY <1>2, <1>3, <1>5, <1>6, <2>1 DEF ForIt
    <3> QED BY <3>1 DEF IsAsked
  <2>2. CASE other # object
    <3>1. objects[other] = m.objects[other]
      BY <1>6, <2>2
    <3>2. IsAsked(m.calls, other, objects[other]) \/ IsAnswered(s, other, objects[other])
      BY <3>1 DEF Awaited
    <3>3. IsAsked(m.calls, other, objects[other]) => IsAsked(c, other, objects[other])
      BY <1>5 DEF IsAsked
    <3> QED BY <3>2, <3>3
  <2> QED BY <2>1, <2>2
<1> QED BY <1>1, <1>7, <1>8, <1>9, <1>10 DEF Grows, NetIs, n

LEMMA ForgetGrows ==
    ASSUME NEW m, NetSound(m), NEW objects, NEW l
    PROVE  /\ Grows(m, N!Forget(m, objects), l)
           /\ N!Forget(m, objects).generation = m.generation
           /\ NetIs(N!Forget(m, objects), m, m.generation,
                    [object \in N!Subscription |->
                        IF object \in objects THEN N!NoObject ELSE m.objects[object]],
                    [object \in N!Subscription |->
                        IF object \in objects THEN "none" ELSE m.rules[object]],
                    m.shown, m.calls)
<1> DEFINE n == N!Forget(m, objects)
           rules == [object \in N!Subscription |->
                        IF object \in objects THEN "none" ELSE m.rules[object]]
           kept == [object \in N!Subscription |->
                        IF object \in objects THEN N!NoObject ELSE m.objects[object]]
<1>1. m \in NetService /\ m.generation \in Nat \ {0}
      /\ m.objects \in [N!Subscription -> N!Object] /\ m.rules \in [N!Subscription -> N!Path]
  BY NetSoundFields
<1>2. n = [m EXCEPT !.rules = rules, !.objects = kept]
  BY DEF N!Forget
<1>3. rules \in [N!Subscription -> N!Path] /\ kept \in [N!Subscription -> N!Object]
  BY <1>1, NetUnknownIs DEF N!Path
<1>4. \A object \in N!Subscription :
          \/ rules[object] = "none" /\ kept[object] = N!NoObject
          \/ rules[object] = m.rules[object] /\ kept[object] = m.objects[object]
  OBVIOUS
<1> HIDE DEF n, rules, kept
<1>5. NetIs(n, m, m.generation, kept, rules, m.shown, m.calls)
  BY <1>1, <1>2, <1>3 DEF NetIs, NetService
<1>6. NetSound(n)
  BY <1>4, <1>5, NetUnknownIs DEF NetIs, NetSound
<1>7. LivesOn(m, n, l)
  BY <1>4, <1>5, NetUnknownIs DEF LivesOn, NetOf, NetIs
<1>8. WaitsOn(m, n)
  BY <1>4, <1>5, NetUnknownIs, SameWaits DEF NetIs
<1> QED BY <1>1, <1>5, <1>6, <1>7, <1>8 DEF Grows, NetIs, n, rules, kept

LEMMA NextGeneration ==
    ASSUME NEW m, NetSound(m), NEW l
    PROVE  /\ Grows(m, [m EXCEPT !.generation = @ + 1], l)
           /\ NetIs([m EXCEPT !.generation = @ + 1], m, m.generation + 1, m.objects, m.rules,
                    m.shown, m.calls)
<1> DEFINE n == [m EXCEPT !.generation = m.generation + 1]
<1>1. m \in NetService /\ m.generation \in Nat \ {0}
  BY NetSoundFields
<1>2. NetIs(n, m, m.generation + 1, m.objects, m.rules, m.shown, m.calls)
  BY <1>1 DEF NetIs, NetService
<1> HIDE DEF n
<1>3. NetSound(n)
  BY <1>1, <1>2 DEF NetIs, NetSound
<1>4. LivesOn(m, n, l)
  BY <1>2 DEF LivesOn, NetOf, NetIs
<1>5. WaitsOn(m, n)
  BY <1>2, SameWaits DEF NetIs
<1> QED BY <1>1, <1>2, <1>3, <1>4, <1>5 DEF Grows, NetIs, n

-----------------------------------------------------------------------------
LEMMA NetWalkFromManagerGrows ==
    ASSUME NEW m, NetSound(m), NEW l
    PROVE  /\ Grows(m, N!WalkFromManager(m), l)
           /\ N!WalkFromManager(m).generation = m.generation + 1
<1> DEFINE n == [m EXCEPT !.generation = @ + 1]
<1>1. Grows(m, n, l) /\ n.generation = m.generation + 1
  BY NextGeneration DEF NetIs
<1>2. N!WalkFromManager(m) = N!Read(n, "manager", "manager")
  BY DEF N!WalkFromManager
<1> HIDE DEF n
<1>3. "manager" \in N!Subscription /\ "manager" \in N!Path /\ NetSound(n)
  BY <1>1 DEF N!Subscription, N!Path, Grows
<1>4. Grows(n, N!Read(n, "manager", "manager"), l)
      /\ N!Read(n, "manager", "manager").generation = n.generation
  BY <1>3, ReadGrows
<1> QED BY <1>1, <1>2, <1>4, GrowsOn

LEMMA BeginChainWalkGrows ==
    ASSUME NEW m, NetSound(m), NEW l
    PROVE  Grows(m, N!BeginChainWalk(m), l)
<1> DEFINE n == N!Forget(m, N!Subscription \ {"manager"})
           primary == m.objects["manager"].fact.names
<1>1. Grows(m, n, l)
  BY ForgetGrows
<1>2. N!BeginChainWalk(m) = IF primary \in Connections THEN N!Read(n, "connection", primary)
                            ELSE N!Publish(n)
  BY DEF N!BeginChainWalk
<1> HIDE DEF n, primary
<1>3. "connection" \in N!Subscription /\ NetSound(n)
      /\ (primary \in Connections => primary \in N!Path /\ primary # "none")
  BY <1>1, ReadingsAssumption DEF N!Subscription, N!Path, Grows
<1>4. CASE primary \in Connections
  <2>1. Grows(n, N!Read(n, "connection", primary), l)
    BY <1>3, <1>4, ReadGrows
  <2> QED BY <1>1, <1>2, <1>4, <2>1, GrowsOn
<1>5. CASE primary \notin Connections
  <2>1. Grows(n, N!Publish(n), l)
    BY <1>3, PublishGrows
  <2> QED BY <1>1, <1>2, <1>5, <2>1, GrowsOn
<1> QED BY <1>4, <1>5

LEMMA ForgetAndPublishGrows ==
    ASSUME NEW m, NetSound(m), NEW l, NEW objects
    PROVE  Grows(m, N!Publish(N!Forget(m, objects)), l)
<1> DEFINE n == N!Forget(m, objects)
<1>1. Grows(m, n, l)
  BY ForgetGrows
<1> HIDE DEF n
<1>2. Grows(n, N!Publish(n), l)
  BY <1>1, PublishGrows DEF Grows
<1> QED BY <1>1, <1>2, GrowsOn DEF n

LEMMA AfterWirelessGrows ==
    ASSUME NEW m, NetSound(m), NEW l
    PROVE  Grows(m, N!AfterWireless(m), l)
<1>1. PICK accessPoint : accessPoint = m.objects["wireless"].fact.names
  OBVIOUS
<1>2. CASE accessPoint \in AccessPoints
  <2>1. accessPoint \in N!Path /\ accessPoint # "none" /\ "accessPoint" \in N!Subscription
    BY <1>2, ReadingsAssumption DEF N!Path, N!Subscription
  <2>2. Grows(m, N!Read(m, "accessPoint", accessPoint), l)
    BY <2>1, ReadGrows
  <2> QED BY <1>1, <1>2, <2>2 DEF N!AfterWireless
<1>3. CASE accessPoint \notin AccessPoints
  BY <1>1, <1>3, ForgetAndPublishGrows DEF N!AfterWireless
<1> QED BY <1>2, <1>3

LEMMA AfterDeviceGrows ==
    ASSUME NEW m, NetSound(m), NEW l, m.objects["device"].path # "none"
    PROVE  Grows(m, N!AfterDevice(m), l)
<1>1. PICK path : path = m.objects["device"].path
  OBVIOUS
<1>2. "device" \in N!Subscription /\ "wireless" \in N!Subscription
  BY DEF N!Subscription
<1>3. path \in N!Path /\ path # "none"
  BY <1>1, <1>2, NetSoundFields
<1>4. CASE m.objects["device"].fact.value = "wifi"
  <2>1. Grows(m, N!Read(m, "wireless", path), l)
    BY <1>2, <1>3, ReadGrows
  <2> QED BY <1>1, <1>4, <2>1 DEF N!AfterDevice
<1>5. CASE m.objects["device"].fact.value # "wifi"
  BY <1>5, ForgetAndPublishGrows DEF N!AfterDevice
<1> QED BY <1>4, <1>5

LEMMA ThenGrows ==
    ASSUME NEW m, NetSound(m), NEW l, NEW object, m.objects[object].path # "none"
    PROVE  Grows(m, N!Then(m, object), l)
<1>1. CASE object = "manager"
  BY <1>1, BeginChainWalkGrows DEF N!Then
<1>2. CASE object = "connection" /\ m.objects["connection"].fact.names = "device"
  <2>1. "device" \in N!Subscription /\ "device" \in N!Path
    BY DEF N!Subscription, N!Path
  <2>2. Grows(m, N!Read(m, "device", "device"), l)
    BY <2>1, ReadGrows
  <2> QED BY <1>2, <2>2 DEF N!Then
<1>3. CASE object = "device"
  BY <1>3, AfterDeviceGrows DEF N!Then
<1>4. CASE object = "wireless"
  BY <1>4, AfterWirelessGrows DEF N!Then
<1>5. CASE /\ object \notin {"manager", "device", "wireless"}
           /\ ~(object = "connection" /\ m.objects["connection"].fact.names = "device")
  BY <1>5, PublishGrows DEF N!Then
<1> QED BY <1>1, <1>2, <1>3, <1>4, <1>5

NetKinds == {"reply", "refused", "changed", "registered", "owned", "unregistered"}
NetMessage == [what : NetKinds, object : N!Subscription, generation : Nat, path : N!Path,
               fact : N!Change]

\* Every answer and every signal is of an object, and a reply says all of it.
NetTrue(x) ==
    /\ x.what \in {"reply", "refused", "changed"} => x.path # "none"
    /\ x.what = "reply" => x.fact \in N!Fact

NetTelling == {"reply", "changed"}

\* Before start() and after stop() nothing is followed, and all there is is of no life.
NetOff(m) == NetOf(m, 0) /\ \A object \in N!Subscription : m.objects[object].path = "none"

\* x is the first of s, and q the rest.
NetHeads(s, q, m, x) ==
    /\ s \in Seq(NetMessage) /\ q \in Seq(NetMessage) /\ Drops(s, q) /\ s # <<>>
    /\ x = s[1] /\ x \in NetMessage /\ NetTrue(x) /\ NetSound(m) /\ Awaited(m, s)

NetTakes(m, n, x, q) ==
    /\ NetSound(n) /\ n.started = m.started /\ m.generation <= n.generation
    /\ Awaited(n, q)
    /\ LivesOn(m, n, IF x.what \in NetTelling THEN x.fact.life ELSE 0)
    /\ NetOff(m) /\ ~m.started => NetOff(n)

LEMMA Taken ==
    ASSUME NEW s, NEW q, NEW m, NEW x, NetHeads(s, q, m, x),
           x.what \in {"reply", "refused"} => ~(/\ m.objects[x.object].reading
                                               /\ ForIt(x, x.object, m.objects[x.object]))
    PROVE  Awaited(m, q)
<1>1. Len(s) \in Nat \ {0} /\ Len(q) = Len(s) - 1 /\ \A i \in 1..Len(q) : q[i] = s[i + 1]
  BY EmptySeq, LenProperties DEF NetHeads, Drops
<1> SUFFICES ASSUME NEW object \in N!Subscription, m.objects[object].reading
             PROVE  IsAsked(m.calls, object, m.objects[object])
                    \/ IsAnswered(q, object, m.objects[object])
  BY DEF Awaited
<1>2. IsAsked(m.calls, object, m.objects[object]) \/ IsAnswered(s, object, m.objects[object])
  BY DEF Awaited, NetHeads
<1>3. ASSUME IsAnswered(s, object, m.objects[object])
      PROVE  IsAnswered(q, object, m.objects[object])
  <2>1. PICK i \in 1..Len(s) : s[i].what \in {"reply", "refused"}
                               /\ ForIt(s[i], object, m.objects[object])
    BY <1>3 DEF IsAnswered
  <2>2. i # 1
    BY <2>1 DEF NetHeads, ForIt
  <2>3. i - 1 \in 1..Len(q) /\ q[i - 1] = s[i]
    BY <1>1, <2>2
  <2> QED BY <2>1, <2>3 DEF IsAnswered
<1> QED BY <1>2, <1>3

\* A read that ended, with f for what was read or with what there was.
LEMMA EndedGrows ==
    ASSUME NEW m, NetSound(m), NEW object \in N!Subscription, NEW f \in N!Fact, NEW l,
           f = m.objects[object].fact \/ f.life = l
    PROVE  /\ Grows(m, WithObject(m, object, AdoptAll(m.objects[object], f)), l)
           /\ ~WithObject(m, object, AdoptAll(m.objects[object], f)).objects[object].reading
           /\ \A other \in N!Subscription :
                  WithObject(m, object, AdoptAll(m.objects[object], f)).objects[other].path
                      = m.objects[other].path
           /\ WithObject(m, object, AdoptAll(m.objects[object], f)).generation = m.generation
<1> DEFINE o == m.objects[object]
           p == AdoptAll(o, f)
<1>1. o \in N!Object /\ m \in NetService
  BY NetSoundFields
<1>2. N!Unknown \in N!Change
  BY NetUnknownIs DEF N!Change
<1>3. /\ p \in N!Object /\ ~p.reading /\ p.held = <<>> /\ p.path = o.path
      /\ p.readGeneration = o.readGeneration
      /\ \A life : NetObjectOf(o, life) /\ f \in NetFacts(life) => NetObjectOf(p, life)
  BY <1>1, <1>2, NetObjectOperations
<1>4. \A life : NetObjectOf(o, life) /\ l \in {0, life} => f \in NetFacts(life)
  BY DEF NetObjectOf, NetFacts
<1> HIDE DEF p
<1>5. /\ Grows(m, WithObject(m, object, p), l)
      /\ WithObject(m, object, p).objects[object] = p
      /\ WithObject(m, object, p).generation = m.generation
      /\ \A other \in N!Subscription \ {object} :
             WithObject(m, object, p).objects[other] = m.objects[other]
  BY <1>3, <1>4, WithObjectGrows
<1> QED BY <1>3, <1>5 DEF p

LEMMA EndReadGrows ==
    ASSUME NEW m, NetSound(m), NEW x \in NetMessage, NEW l
    PROVE  /\ Grows(m, N!EndRead(m, x), l)
           /\ ~(/\ N!EndRead(m, x).objects[x.object].reading
                /\ ForIt(x, x.object, N!EndRead(m, x).objects[x.object]))
           /\ \A object \in N!Subscription :
                  N!EndRead(m, x).objects[object].path = m.objects[object].path
           /\ N!EndRead(m, x).generation = m.generation
<1>1. PICK object \in N!Subscription : object = x.object
  BY DEF NetMessage
<1>2. CASE m.objects[object].readGeneration = x.generation
  <2> DEFINE n == WithObject(m, object, AdoptAll(m.objects[object], m.objects[object].fact))
  <2>1. N!EndRead(m, x) = n
    BY <1>1, <1>2, SameProperties DEF N!EndRead, WithObject, AbortRead, AdoptAll
  <2>2. m.objects[object].fact \in N!Fact
    BY NetSoundFields
  <2>3. Grows(m, n, l) /\ ~n.objects[object].reading /\ n.generation = m.generation
        /\ \A other \in N!Subscription : n.objects[other].path = m.objects[other].path
    BY <2>2, EndedGrows
  <2> HIDE DEF n
  <2> QED BY <1>1, <2>1, <2>3
<1>3. CASE m.objects[object].readGeneration # x.generation
  <2>1. N!EndRead(m, x) = m
    BY <1>1, <1>3 DEF N!EndRead
  <2>2. Grows(m, m, l)
    BY NetSoundFields DEF Grows, LivesOn, WaitsOn
  <2> QED BY <1>1, <1>3, <2>1, <2>2 DEF ForIt
<1> QED BY <1>2, <1>3

LEMMA GrowsOff ==
    ASSUME NEW m, NEW n, NEW l, NEW p, Grows(m, n, l), l = 0, NetOff(m),
           \A object \in N!Subscription : n.objects[object].path = m.objects[object].path
    PROVE  NetOff(n)
  BY DEF NetOff, Grows, LivesOn

LEMMA RepliedTakes ==
    ASSUME NEW s, NEW q, NEW m, NEW x, NetHeads(s, q, m, x), x.what = "reply"
    PROVE  NetTakes(m, N!Replied(m, x), x, q)
<1>1. PICK l : l = x.fact.life
  OBVIOUS
<1>2. PICK object \in N!Subscription : object = x.object
  BY DEF NetMessage, NetHeads
<1>3. x \in NetMessage /\ NetTrue(x) /\ NetSound(m) /\ x.fact \in N!Fact /\ x.path # "none"
  BY DEF NetHeads, NetTrue
<1>4. CASE ~N!Current(m, x)
  <2>1. N!Replied(m, x) = N!EndRead(m, x)
    BY <1>4 DEF N!Replied
  <2>2. PICK n : n = N!EndRead(m, x)
    OBVIOUS
  <2>3. Grows(m, n, l) /\ Grows(m, n, 0)
        /\ ~(n.objects[x.object].reading /\ ForIt(x, x.object, n.objects[x.object]))
        /\ \A other \in N!Subscription : n.objects[other].path = m.objects[other].path
    BY <1>3, <2>2, EndReadGrows
  <2>4. NetHeads(s, q, n, x)
    BY <2>3 DEF NetHeads, Grows, WaitsOn
  <2>5. Awaited(n, q)
    BY <2>3, <2>4, Taken
  <2>6. NetOff(m) => NetOff(n)
    BY <2>3, GrowsOff
  <2> QED BY <1>1, <2>1, <2>2, <2>3, <2>5, <2>6 DEF NetTakes, Grows, NetTelling
<1>5. CASE N!Current(m, x)
  <2> DEFINE n == WithObject(m, object, AdoptAll(m.objects[object], x.fact))
  <2>1. m.objects[object].path = x.path
    BY <1>2, <1>5 DEF N!Current
  <2>2. N!Replied(m, x) = N!Then(n, object)
    BY <1>2, <1>5, SameProperties DEF N!Replied, WithObject
  <2>3. Grows(m, n, l) /\ ~n.objects[object].reading
        /\ \A other \in N!Subscription : n.objects[other].path = m.objects[other].path
    BY <1>1, <1>3, EndedGrows
  <2> HIDE DEF n
  <2>4. NetHeads(s, q, n, x)
    BY <2>3 DEF NetHeads, Grows, WaitsOn
  <2>5. Awaited(n, q)
    BY <1>2, <2>3, <2>4, Taken
  <2>6. Grows(n, N!Then(n, object), l)
    BY <1>3, <2>1, <2>3, ThenGrows DEF Grows
  <2>7. Grows(m, N!Then(n, object), l) /\ Awaited(N!Then(n, object), q)
    BY <1>3, <2>3, <2>5, <2>6, GrowsOn DEF Grows, WaitsOn
  <2>8. ~NetOff(m)
    BY <1>3, <2>1 DEF NetOff
  <2> QED BY <1>1, <2>2, <2>7, <2>8 DEF NetTakes, Grows, NetTelling
<1> QED BY <1>4, <1>5

LEMMA RefusalTakes ==
    ASSUME NEW s, NEW q, NEW m, NEW x, NetHeads(s, q, m, x), x.what = "refused"
    PROVE  NetTakes(m, N!Refusal(m, x), x, q)
<1>1. x \in NetMessage /\ NetSound(m)
  BY DEF NetHeads
<1>2. PICK n : n = N!EndRead(m, x)
  OBVIOUS
<1>3. Grows(m, n, 0)
      /\ ~(n.objects[x.object].reading /\ ForIt(x, x.object, n.objects[x.object]))
      /\ \A other \in N!Subscription : n.objects[other].path = m.objects[other].path
  BY <1>1, <1>2, EndReadGrows
<1>4. NetHeads(s, q, n, x)
  BY <1>3 DEF NetHeads, Grows, WaitsOn
<1>5. Awaited(n, q) /\ NetSound(n)
  BY <1>3, <1>4, Taken DEF Grows
<1>6. PICK p : p = N!Publish(n)
  OBVIOUS
<1>7. Grows(n, p, 0) /\ p.objects = n.objects
  BY <1>5, <1>6, PublishGrows
<1>8. Grows(m, p, 0) /\ Awaited(p, q)
  BY <1>1, <1>3, <1>5, <1>7, GrowsOn DEF Grows, WaitsOn
<1>9. NetOff(m) => NetOff(n) /\ NetOff(p)
  BY <1>3, <1>7, <1>8, GrowsOff
<1>10. N!Refusal(m, x) \in {n, p}
  BY <1>2, <1>6 DEF N!Refusal, N!FinishWalk
<1> QED BY <1>3, <1>5, <1>8, <1>9, <1>10 DEF NetTakes, Grows, NetTelling

LEMMA ChangedGrows ==
    ASSUME NEW m, NetSound(m), NEW object \in N!Subscription, NEW change \in N!Change, NEW l,
           l = change.life, m.objects[object].path # "none"
    PROVE  Grows(m, N!Changed(m, object, change), l)
<1> DEFINE o == m.objects[object]
           p == ApplyChange(o, change)
           n == WithObject(m, object, p)
<1>1. o \in N!Object /\ m \in NetService /\ N!Unknown \in N!Fact
      /\ (o.held # <<>> => o.reading)
  BY NetSoundFields, NetUnknownIs
<1>2. /\ p \in N!Object /\ p.reading = o.reading /\ p.path = o.path
      /\ p.readGeneration = o.readGeneration /\ (p.held # <<>> => o.reading \/ o.held # <<>>)
      /\ \A life : NetObjectOf(o, life) /\ change \in NetChanges(life) => NetObjectOf(p, life)
  BY <1>1, NetObjectOperations
<1> HIDE DEF p
<1>3. \A life : NetObjectOf(o, life) /\ l \in {0, life} => NetObjectOf(p, life)
  BY <1>2 DEF NetChanges
<1>4. Grows(m, n, l)
  BY <1>1, <1>2, <1>3, WithObjectGrows
<1>5. n.objects[object].path # "none"
  <2>1. p \in N!Object /\ m \in NetService
    BY <1>1, <1>2
  <2>2. n.objects[object] = p
    BY <2>1, WithObjectIs, Zenon
  <2> QED BY <1>2, <2>2
<1>6. n = [m EXCEPT !.objects[object] = N!ApplyChange(@, change)]
  BY SameProperties DEF WithObject, p
<1>7. \/ N!Changed(m, object, change) = N!BeginChainWalk([n EXCEPT !.generation = @ + 1])
      \/ N!Changed(m, object, change) = N!AfterDevice(n) /\ object = "device"
      \/ N!Changed(m, object, change) = N!AfterWireless(n)
      \/ N!Changed(m, object, change) = N!Publish(n)
  BY <1>6, Zenon DEF N!Changed
<1> HIDE DEF n
<1>8. NetSound(n)
  BY <1>4 DEF Grows
<1>9. PICK k : k = [n EXCEPT !.generation = @ + 1]
  OBVIOUS
<1>10. Grows(n, k, l)
  BY <1>8, <1>9, NextGeneration
<1>11. Grows(n, N!BeginChainWalk(k), l)
  <2>1. Grows(k, N!BeginChainWalk(k), l)
    BY <1>10, BeginChainWalkGrows DEF Grows
  <2> QED BY <1>8, <1>10, <2>1, GrowsOn
<1>12. object = "device" => Grows(n, N!AfterDevice(n), l)
  BY <1>5, <1>8, AfterDeviceGrows
<1>13. Grows(n, N!AfterWireless(n), l) /\ Grows(n, N!Publish(n), l)
  BY <1>8, AfterWirelessGrows, PublishGrows
<1>14. Grows(n, N!Changed(m, object, change), l)
  BY <1>7, <1>9, <1>11, <1>12, <1>13
<1> QED BY <1>4, <1>14, GrowsOn

LEMMA ChangedTakes ==
    ASSUME NEW s, NEW q, NEW m, NEW x, NetHeads(s, q, m, x), x.what = "changed"
    PROVE  NetTakes(m, IF m.rules[x.object] # x.path THEN m
                       ELSE N!Changed(m, x.object, x.fact), x, q)
<1>1. Awaited(m, q)
  BY Taken
<1>2. NetSound(m) /\ x.path # "none" /\ x.object \in N!Subscription /\ x.fact \in N!Change
  BY DEF NetHeads, NetTrue, NetMessage
<1>3. PICK l : l = x.fact.life
  OBVIOUS
<1>4. PICK object \in N!Subscription, change \in N!Change :
          object = x.object /\ change = x.fact /\ l = x.fact.life
  BY <1>2, <1>3
<1>5. m.rules[object] = m.objects[object].path
  BY <1>2 DEF NetSound
<1>6. CASE m.rules[object] # x.path
  BY <1>1, <1>2, <1>4, <1>6, NetSoundFields DEF NetTakes, LivesOn
<1>7. CASE m.rules[object] = x.path
  <2>1. Grows(m, N!Changed(m, object, change), l)
    BY <1>2, <1>4, <1>5, <1>7, ChangedGrows
  <2>2. Awaited(N!Changed(m, object, change), q)
    BY <1>1, <2>1 DEF Grows, WaitsOn
  <2>3. ~NetOff(m)
    BY <1>2, <1>5, <1>7 DEF NetOff
  <2> QED BY <1>4, <1>7, <2>1, <2>2, <2>3 DEF NetTakes, Grows, NetTelling
<1> QED BY <1>4, <1>6, <1>7

LEMMA NetWithdrawIs ==
    ASSUME NEW m, NetSound(m), NEW n, n = N!Withdraw(m)
    PROVE  /\ NetSound(n) /\ n.started = m.started /\ n.generation = m.generation + 1
           /\ NetOff(n) /\ (\A life : NetOf(n, life)) /\ \A s : Awaited(n, s)
<1>1. PICK f : f = N!Forget(m, N!Subscription)
  OBVIOUS
<1>2. /\ NetSound(f) /\ f.started = m.started /\ f.generation = m.generation
      /\ f.objects = [object \in N!Subscription |-> N!NoObject]
      /\ \A object \in N!Subscription : f.objects[object] = N!NoObject
  <2>1. Grows(m, f, 0) /\ f.generation = m.generation
    BY <1>1, ForgetGrows
  <2>2. NetIs(f, m, m.generation,
              [object \in N!Subscription |->
                  IF object \in N!Subscription THEN N!NoObject ELSE m.objects[object]],
              [object \in N!Subscription |->
                  IF object \in N!Subscription THEN "none" ELSE m.rules[object]],
              m.shown, m.calls)
    BY <1>1, ForgetGrows, Zenon
  <2>3. f.objects = [object \in N!Subscription |->
                        IF object \in N!Subscription THEN N!NoObject ELSE m.objects[object]]
    BY <2>2, Zenon DEF NetIs
  <2> QED BY <2>1, <2>3 DEF Grows
<1>3. N!NoReading \in NetShown /\ N!NoReading.manager = N!Unknown
      /\ N!NoReading.connection = N!Unknown /\ N!NoReading.device = N!Unknown
      /\ N!NoReading.accessPoint = N!Unknown
  BY NetUnknownIs DEF N!NoReading, NetShown
<1>4. n = [f EXCEPT !.generation = @ + 1, !.available = FALSE, !.shown = N!NoReading]
  BY <1>1 DEF N!Withdraw
<1>5. NetIs(n, f, f.generation + 1, f.objects, f.rules, N!NoReading, f.calls)
      /\ m.generation \in Nat
  <2>1. f \in NetService /\ f.generation \in Nat /\ m.generation \in Nat
    BY <1>2, NetSoundFields
  <2>2. PICK k : k = [f EXCEPT !.generation = @ + 1]
    OBVIOUS
  <2>3. NetIs(k, f, f.generation + 1, f.objects, f.rules, f.shown, f.calls)
    BY <1>2, <2>2, NextGeneration
  <2>4. n = [k EXCEPT !.available = FALSE, !.shown = N!NoReading]
    <3>1. f.generation + 1 \in Nat
      BY <2>1
    <3> QED BY <1>4, <2>1, <2>2 DEF NetService
  <2> QED BY <1>3, <2>1, <2>3, <2>4 DEF NetIs, NetService
<1>6. NetSound(n)
  BY <1>2, <1>5 DEF NetIs, NetSound
<1>7. \A life : NetOf(n, life)
  BY <1>2, <1>3, <1>5, NetUnknownIs DEF NetIs, NetOf
<1>8. NetOff(n)
  BY <1>2, <1>5, <1>7, NetUnknownIs DEF NetIs, NetOff
<1>9. \A s : Awaited(n, s)
  BY <1>2, <1>5, NetUnknownIs DEF NetIs, Awaited
<1> QED BY <1>2, <1>5, <1>6, <1>7, <1>8, <1>9 DEF NetIs

NetBounds == [moves : Nat, refusals : Nat, refreshes : Nat, unheard : BOOLEAN,
              undone : BOOLEAN]

\* All that is known is of one life of the daemon, as in BatteryLives.
NetLives(d, s, m) ==
    /\ \E life \in 0..ChainEvents :
           /\ Lives(s, NetTelling, d.up, d.life, life)
           /\ NetOf(m, life)
    /\ ~Gone(s) /\ ~d.up => \A life : NetOf(m, life)

NetTyped(d, s, b) ==
    /\ d \in N!Daemon /\ s \in Seq(NetMessage) /\ b \in NetBounds
    /\ \A i \in 1..Len(s) : NetTrue(s[i])

NetHolds(d, s, m, b) ==
    /\ NetTyped(d, s, b) /\ NetSound(m) /\ Awaited(m, s)
    /\ ~m.started => NetOff(m) /\ (m.generation = 1 => s = <<>> /\ m.calls = <<>>)
    /\ m.started => NetLives(d, s, m)

LEMMA NetHoldsWellFormed ==
    ASSUME NetHolds(daemon, inbox, service, bounds)
    PROVE  N!WellFormed
<1>1. N!TypeOK
  BY NetSoundFields DEF NetHolds, NetTyped, N!TypeOK
<1>2. \E life : NetOf(service, life)
  BY DEF NetHolds, NetOff, NetLives
<1>3. N!OneLife
  <2>1. service.shown \in NetShown
    BY NetSoundFields DEF NetHolds
  <2>2. DOMAIN service.shown = NetPart
    BY <2>1 DEF NetShown, NetPart
  <2>3. PICK life : NetOf(service, life)
    BY <1>2
  <2>4. \A a \in NetPart : service.shown[a] \in NetFacts(life)
    BY <2>3 DEF NetOf, NetPart
  <2>5. \A a \in NetPart : service.shown[a].life \in {0, life}
    BY <2>4 DEF NetFacts
  <2> QED BY <2>2, <2>5 DEF N!OneLife
<1>4. N!ReadAlwaysEnds
  <2>1. service.calls \in Seq(N!Call) /\ inbox \in Seq(NetMessage)
    BY NetSoundFields DEF NetHolds, NetTyped
  <2>2. DOMAIN service.calls = 1..Len(service.calls) /\ DOMAIN inbox = 1..Len(inbox)
    BY <2>1, LenProperties
  <2> SUFFICES ASSUME NEW object \in N!Subscription, service.objects[object].reading
               PROVE  \/ \E i \in DOMAIN service.calls :
                             ForIt(service.calls[i], object, service.objects[object])
                      \/ \E i \in DOMAIN inbox :
                             inbox[i].what \in {"reply", "refused"}
                             /\ ForIt(inbox[i], object, service.objects[object])
    BY Zenon DEF N!ReadAlwaysEnds, ForIt
  <2>3. IsAsked(service.calls, object, service.objects[object])
        \/ IsAnswered(inbox, object, service.objects[object])
    BY DEF NetHolds, Awaited
  <2> QED BY <2>2, <2>3 DEF IsAsked, IsAnswered
<1> QED BY <1>1, <1>3, <1>4 DEF N!WellFormed

-----------------------------------------------------------------------------
LEMMA NetHeadsNow ==
    ASSUME NEW d, NEW s, NEW m, NEW b, NetHolds(d, s, m, b), s # <<>>
    PROVE  /\ NetHeads(s, Tail(s), m, Head(s)) /\ Head(s) = s[1]
           /\ NetTyped(d, Tail(s), b)
<1>1. s \in Seq(NetMessage)
  BY DEF NetHolds, NetTyped
<1>2. /\ Tail(s) \in Seq(NetMessage) /\ Drops(s, Tail(s)) /\ Len(s) \in Nat \ {0}
      /\ Head(s) = s[1] /\ s[1] \in NetMessage
  BY <1>1, TailDrops
<1>3. 1 \in 1..Len(s)
  BY <1>2
<1>4. PICK q \in Seq(NetMessage) : q = Tail(s)
  BY <1>2
<1>5. \A i \in 1..Len(q) : i + 1 \in 1..Len(s) /\ q[i] = s[i + 1]
  BY <1>2, <1>4, LenProperties DEF Drops
<1>6. \A i \in 1..Len(q) : NetTrue(q[i])
  BY <1>5 DEF NetHolds, NetTyped
<1>7. NetTyped(d, Tail(s), b)
  BY <1>4, <1>6 DEF NetHolds, NetTyped
<1>8. NetTrue(s[1]) /\ NetSound(m) /\ Awaited(m, s)
  BY <1>3 DEF NetHolds, NetTyped
<1> QED BY <1>1, <1>2, <1>7, <1>8 DEF NetHeads

LEMMA NetReadKeeps ==
    ASSUME NEW d, NEW s, NEW m, NEW b, NetHolds(d, s, m, b), s # <<>>, NEW n, NEW q, NEW x,
           q = Tail(s), x = Head(s), NetTakes(m, n, x, q),
           x.what # "unregistered" \/ ~m.started
    PROVE  NetHolds(d, q, n, b)
<1>1. NetHeads(s, q, m, x) /\ x = s[1] /\ NetTyped(d, q, b)
  BY NetHeadsNow
<1>2. s \in Seq(NetMessage) /\ q \in Seq(NetMessage) /\ Drops(s, q)
      /\ Len(s) \in Nat \ {0} /\ 1 \in 1..Len(s)
  BY <1>1, EmptySeq, LenProperties DEF NetHeads
<1>3. m.generation \in Nat \ {0} /\ n.generation \in Nat \ {0}
  BY NetSoundFields DEF NetHolds, NetTakes
<1>4. ~n.started => NetOff(n) /\ n.generation # 1
  BY <1>3 DEF NetTakes, NetHolds
<1>5. ASSUME n.started
      PROVE  NetLives(d, q, n)
  <2>1. m.started /\ x.what # "unregistered"
    BY <1>5 DEF NetTakes
  <2>2. PICK life \in 0..ChainEvents :
            Lives(s, NetTelling, d.up, d.life, life) /\ NetOf(m, life)
    BY <2>1 DEF NetHolds, NetLives
  <2>3. PICK up, now : up = d.up /\ now = d.life
    OBVIOUS
  <2>4. Lives(s, NetTelling, up, now, life)
    BY <2>2, <2>3, Zenon
  <2>5. Lives(q, NetTelling, up, now, life) /\ (Gone(q) <=> Gone(s))
    BY <1>1, <1>2, <2>1, <2>4, LivesRead DEF Gone
  <2>6. x.what \in NetTelling => x.fact.life = life
    <3>1. ~Exit(s, 1, 1)
      BY <1>1, <2>1 DEF Exit
    <3> QED BY <1>1, <1>2, <2>2, <3>1 DEF Lives
  <2>7. NetOf(n, life)
    BY <2>2, <2>6 DEF NetTakes, LivesOn
  <2>8. ASSUME ~Gone(s), ~d.up
        PROVE  \A other : NetOf(n, other)
    <3>1. x.what \notin NetTelling
      BY <1>1, <1>2, <2>2, <2>8 DEF Lives, Gone
    <3>2. \A other : NetOf(m, other)
      BY <2>1, <2>8 DEF NetHolds, NetLives
    <3> QED BY <3>1, <3>2 DEF NetTakes, LivesOn
  <2>9. Lives(q, NetTelling, d.up, d.life, life)
    BY <2>3, <2>5, Zenon
  <2> QED BY <2>5, <2>7, <2>8, <2>9 DEF NetLives
<1> QED BY <1>1, <1>4, <1>5 DEF NetHolds, NetTakes

LEMMA NetUnregisteredKeeps ==
    ASSUME NEW d, NEW s, NEW m, NEW b, NetHolds(d, s, m, b), s # <<>>, m.started,
           NEW n, NEW q, q = Tail(s), n = N!Withdraw(m)
    PROVE  NetHolds(d, q, n, b)
<1>1. NetHeads(s, q, m, Head(s)) /\ NetTyped(d, q, b)
  BY NetHeadsNow
<1>2. s \in Seq(NetMessage) /\ q \in Seq(NetMessage) /\ Drops(s, q)
  BY <1>1 DEF NetHeads
<1>3. NetSound(m)
  BY DEF NetHolds
<1>4. /\ NetSound(n) /\ n.started = m.started /\ (\A life : NetOf(n, life)) /\ Awaited(n, q)
  BY <1>3, NetWithdrawIs
<1>5. PICK life \in 0..ChainEvents : Lives(s, NetTelling, d.up, d.life, life)
  BY DEF NetHolds, NetLives
<1>6. PICK up, now, B : up = d.up /\ now = d.life /\ B = 0..ChainEvents
  OBVIOUS
<1>7. Lives(s, NetTelling, up, now, life)
  BY <1>5, <1>6, Zenon
<1>8. now \in B /\ "unregistered" \notin NetTelling
  BY <1>6 DEF NetTelling, NetHolds, NetTyped, N!Daemon
<1>9. \A i \in 1..Len(q) : q[i].what \in NetTelling => q[i].fact.life \in B
  <2>1. \A i \in 1..Len(q) : q[i] \in NetMessage
    BY <1>2, ElementOfSeq
  <2>2. \A e \in NetMessage : e.fact.life \in B
    BY <1>6 DEF NetMessage, N!Change, N!Fact
  <2> QED BY <2>1, <2>2
<1>10. \E other \in B : Lives(q, NetTelling, up, now, other)
  BY <1>2, <1>7, <1>8, <1>9, LivesExitRead
<1>11. NetLives(d, q, n)
  <2>1. PICK other \in B : Lives(q, NetTelling, up, now, other)
    BY <1>10
  <2>2. Lives(q, NetTelling, d.up, d.life, other)
    BY <1>6, <2>1, Zenon
  <2> QED BY <1>4, <1>6, <2>2 DEF NetLives
<1> QED BY <1>1, <1>4, <1>11 DEF NetHolds

LEMMA NetEventLoopKeeps ==
    ASSUME NetHolds(daemon, inbox, service, bounds), N!EventLoop
    PROVE  NetHolds(daemon', inbox', service', bounds')
<1>1. PICK d, s, m, b, x, q : d = daemon /\ s = inbox /\ m = service /\ b = bounds
                              /\ x = Head(inbox) /\ q = Tail(inbox)
  OBVIOUS
<1>2. inbox # <<>> /\ daemon' = daemon /\ inbox' = Tail(inbox)
  BY DEF N!EventLoop, N!Attach, N!ServiceUnregistered, N!ReadReply, N!ReadRefusal,
         N!PropertiesChanged, N!Arrives, N!Handle
<1>3. NetHolds(d, s, m, b) /\ s # <<>> /\ x = Head(s) /\ q = Tail(s)
  BY <1>1, <1>2
<1>4. NetHeads(s, q, m, x) /\ NetTyped(d, q, b) /\ NetSound(m)
  BY <1>3, NetHeadsNow DEF NetHeads
<1>5. ASSUME x.what \notin {"reply", "refused"}
      PROVE  m.started => NetTakes(m, N!WalkFromManager(m), x, q)
  <2>1. Awaited(m, q)
    BY <1>4, <1>5, Taken
  <2>2. PICK l : l = IF x.what \in NetTelling THEN x.fact.life ELSE 0
    OBVIOUS
  <2>3. Grows(m, N!WalkFromManager(m), l)
    BY <1>4, NetWalkFromManagerGrows
  <2> QED BY <2>1, <2>2, <2>3 DEF NetTakes, Grows, WaitsOn
<1>6. ASSUME x.what \notin {"reply", "refused"}
      PROVE  NetTakes(m, m, x, q)
  <2>1. Awaited(m, q)
    BY <1>4, <1>6, Taken
  <2> QED BY <1>4, <2>1, NetSoundFields DEF NetTakes, LivesOn
<1>7. CASE N!Attach
  <2>1. x.what \in {"registered", "owned"} /\ bounds' = b
        /\ service' = (IF m.started THEN N!WalkFromManager(m) ELSE m)
    BY <1>1, <1>7, Zenon DEF N!Attach, N!Arrives, N!Handle
  <2>2. NetTakes(m, service', x, q)
    BY <1>5, <1>6, <2>1
  <2>3. NetHolds(d, q, service', b)
    BY <1>3, <2>1, <2>2, NetReadKeeps
  <2> QED BY <1>1, <1>2, <2>1, <2>3
<1>8. CASE N!ServiceUnregistered
  <2>1. x.what = "unregistered" /\ bounds' = b
        /\ service' = (IF m.started THEN N!Withdraw(m) ELSE m)
    BY <1>1, <1>8, Zenon DEF N!ServiceUnregistered, N!Arrives, N!Handle
  <2>2. CASE m.started
    <3>1. NetHolds(d, q, service', b)
      BY <1>3, <2>1, <2>2, NetUnregisteredKeeps
    <3> QED BY <1>1, <1>2, <2>1, <3>1
  <2>3. CASE ~m.started
    <3>1. NetTakes(m, service', x, q)
      BY <1>6, <2>1, <2>3
    <3>2. NetHolds(d, q, service', b)
      BY <1>3, <2>3, <3>1, NetReadKeeps
    <3> QED BY <1>1, <1>2, <2>1, <3>2
  <2> QED BY <2>2, <2>3
<1>9. CASE N!ReadReply
  <2>1. x.what = "reply" /\ service' = N!Replied(m, x)
        /\ bounds' = [b EXCEPT !.undone = @ \/ (/\ N!Current(m, x)
                                                /\ ~m.objects[x.object].reading)]
    BY <1>1, <1>9 DEF N!ReadReply, N!Arrives, N!Handle
  <2>2. NetTakes(m, service', x, q)
    BY <1>4, <2>1, RepliedTakes
  <2>3. NetHolds(d, q, service', b)
    BY <1>3, <2>1, <2>2, NetReadKeeps
  <2>4. bounds' \in NetBounds
    <3>1. b \in NetBounds
      BY <1>4 DEF NetTyped
    <3>2. PICK u \in BOOLEAN : u <=> (b.undone \/ (/\ N!Current(m, x)
                                                    /\ ~m.objects[x.object].reading))
      OBVIOUS
    <3>3. bounds' = [b EXCEPT !.undone = u]
      BY <2>1, <3>2, Zenon
    <3> QED BY <3>1, <3>3 DEF NetBounds
  <2> QED BY <1>1, <1>2, <2>3, <2>4 DEF NetHolds, NetTyped
<1>10. CASE N!ReadRefusal
  <2>1. x.what = "refused" /\ service' = N!Refusal(m, x) /\ bounds' = b
    BY <1>1, <1>10 DEF N!ReadRefusal, N!Arrives, N!Handle
  <2>2. NetTakes(m, service', x, q)
    BY <1>4, <2>1, RefusalTakes
  <2>3. NetHolds(d, q, service', b)
    BY <1>3, <2>1, <2>2, NetReadKeeps
  <2> QED BY <1>1, <1>2, <2>1, <2>3
<1>11. CASE N!PropertiesChanged
  <2>1. x.what = "changed" /\ bounds' = b
        /\ service' = (IF m.rules[x.object] # x.path THEN m
                       ELSE N!Changed(m, x.object, x.fact))
    BY <1>1, <1>11 DEF N!PropertiesChanged, N!Arrives, N!Handle
  <2>2. NetTakes(m, service', x, q)
    BY <1>4, <2>1, ChangedTakes
  <2>3. NetHolds(d, q, service', b)
    BY <1>3, <2>1, <2>2, NetReadKeeps
  <2> QED BY <1>1, <1>2, <2>1, <2>3
<1> QED BY <1>7, <1>8, <1>9, <1>10, <1>11 DEF N!EventLoop


LEMMA NetWordIs ==
    ASSUME NEW what \in {"registered", "owned", "unregistered"}
    PROVE  N!Word(what) \in NetMessage /\ N!Word(what).what = what /\ NetTrue(N!Word(what))
<1>1. N!Unknown \in N!Change
  BY NetUnknownIs DEF N!Change
<1>2. "manager" \in N!Subscription /\ "none" \in N!Path /\ what \in NetKinds
  BY DEF N!Subscription, N!Path, NetKinds
<1> QED BY <1>1, <1>2 DEF N!Word, N!Message, NetMessage, NetTrue

\* What is on its way stays on its way.
LEMMA AddsAwaited ==
    ASSUME NEW m, NEW s \in Seq(NetMessage), NEW q, NEW k, NEW e, Adds(s, q, k, e),
           Awaited(m, s)
    PROVE  Awaited(m, q)
<1>1. Len(s) \in Nat /\ Len(q) = Len(s) + 1 /\ k \in 1..Len(s) + 1
      /\ (\A i \in 1..k - 1 : q[i] = s[i]) /\ (\A i \in k..Len(s) : q[i + 1] = s[i])
  BY LenProperties DEF Adds
<1>2. \A i \in 1..Len(s) : \E j \in 1..Len(q) : q[j] = s[i]
  <2> TAKE i \in 1..Len(s)
  <2>1. CASE i < k
    <3>1. i \in 1..k - 1 /\ i \in 1..Len(q)
      BY <1>1, <2>1
    <3> QED BY <1>1, <3>1
  <2>2. CASE i >= k
    <3>1. i \in k..Len(s) /\ i + 1 \in 1..Len(q)
      BY <1>1, <2>2
    <3> QED BY <1>1, <3>1
  <2> QED BY <1>1, <2>1, <2>2
<1>3. \A object, o : IsAnswered(s, object, o) => IsAnswered(q, object, o)
  BY <1>2 DEF IsAnswered
<1> QED BY <1>3 DEF Awaited

LEMMA AddsTyped ==
    ASSUME NEW d, NEW s, NEW b, NetTyped(d, s, b), NEW q \in Seq(NetMessage), NEW k, NEW e,
           Adds(s, q, k, e), NetTrue(e)
    PROVE  NetTyped(d, q, b)
<1>1. Len(s) \in Nat /\ Len(q) = Len(s) + 1 /\ k \in 1..Len(s) + 1 /\ q[k] = e
      /\ (\A i \in 1..k - 1 : q[i] = s[i]) /\ (\A i \in k..Len(s) : q[i + 1] = s[i])
  BY LenProperties DEF Adds, NetTyped
<1>2. \A i \in 1..Len(s) : NetTrue(s[i])
  BY DEF NetTyped
<1>3. ASSUME NEW i \in 1..Len(q)
      PROVE  NetTrue(q[i])
  <2>1. CASE i < k
    <3>1. i \in 1..k - 1 /\ i \in 1..Len(s)
      BY <1>1, <2>1
    <3> QED BY <1>1, <1>2, <3>1
  <2>2. CASE i > k
    <3>1. i - 1 \in k..Len(s) /\ i - 1 \in 1..Len(s) /\ i - 1 + 1 = i
      BY <1>1, <2>2
    <3> QED BY <1>1, <1>2, <3>1
  <2> QED BY <1>1, <2>1, <2>2
<1> QED BY <1>3 DEF NetTyped

\* A signal of the daemon as it is now, to one who follows it.
LEMMA NetSentKeeps ==
    ASSUME NEW d, NEW s, NEW m, NEW b, NetHolds(d, s, m, b), NEW q \in Seq(NetMessage),
           NEW k, NEW e, Adds(s, q, k, e), NetTrue(e), m.started, d.up,
           e.what \in NetTelling => e.fact.life = d.life, e.what # "unregistered",
           \A i \in k..Len(s) : s[i].what # "unregistered"
    PROVE  NetHolds(d, q, m, b)
<1>1. s \in Seq(NetMessage) /\ NetTyped(d, s, b) /\ Awaited(m, s) /\ NetSound(m)
  BY DEF NetHolds, NetTyped
<1>2. NetTyped(d, q, b) /\ Awaited(m, q)
  BY <1>1, AddsTyped, AddsAwaited
<1>3. PICK life \in 0..ChainEvents : Lives(s, NetTelling, d.up, d.life, life) /\ NetOf(m, life)
  BY DEF NetHolds, NetLives
<1>4. PICK up, now : up = d.up /\ now = d.life
  OBVIOUS
<1>5. Lives(s, NetTelling, up, now, life)
  BY <1>3, <1>4, Zenon
<1>6. (e.what \in NetTelling => up /\ e.fact.life = now)
  BY <1>4
<1>7. Lives(q, NetTelling, up, now, life)
  BY <1>1, <1>5, <1>6, LivesSent
<1>8. Lives(q, NetTelling, d.up, d.life, life)
  BY <1>4, <1>7, Zenon
<1> QED BY <1>1, <1>2, <1>3, <1>8 DEF NetHolds, NetLives

\* An answer to the call that is next, from the daemon as it is now or from the bus.
LEMMA NetAnsweredKeeps ==
    ASSUME NEW d, NEW s, NEW m, NEW b, NetHolds(d, s, m, b), m.calls # <<>>, NEW c,
           c = Head(m.calls), NEW e \in NetMessage,
           e.what = "refused" \/ (e.what = "reply" /\ d.up /\ e.fact.life = d.life
                                  /\ e.fact \in N!Fact),
           e.object = c.object, e.generation = c.generation, e.path = c.path, NEW n,
           n = [m EXCEPT !.calls = Tail(@)]
    PROVE  NetHolds(d, Append(s, e), n, b)
<1>1. /\ s \in Seq(NetMessage) /\ NetTyped(d, s, b) /\ Awaited(m, s) /\ NetSound(m)
      /\ m \in NetService /\ m.calls \in Seq(N!Call)
  BY NetSoundFields DEF NetHolds, NetTyped
<1>2. PICK cs \in Seq(N!Call) : cs = m.calls
  BY <1>1
<1>3. PICK a : a = Tail(cs)
  OBVIOUS
<1>4. a \in Seq(N!Call) /\ Drops(cs, a) /\ Len(cs) \in Nat \ {0} /\ c = cs[1] /\ cs # <<>>
  BY <1>2, <1>3, TailDrops
<1>5. Len(a) \in Nat /\ \A i \in 1..Len(a) : a[i] = cs[i + 1] /\ i + 1 \in 1..Len(cs)
  BY <1>4, LenProperties DEF Drops
<1>6. /\ n \in NetService /\ n.started = m.started /\ n.generation = m.generation
      /\ n.objects = m.objects /\ n.rules = m.rules /\ n.shown = m.shown /\ n.calls = a
  <2>1. n = [m EXCEPT !.calls = a]
    BY <1>2, <1>3
  <2> QED BY <1>1, <1>4, <2>1 DEF NetService
<1>7. NetSound(n)
  BY <1>1, <1>2, <1>5, <1>6 DEF NetSound
<1>8. PICK q \in Seq(NetMessage) : q = Append(s, e) /\ Adds(s, q, Len(s) + 1, e)
  BY <1>1, AppendAdds
<1>9. NetTrue(e)
  <2>1. 1 \in 1..Len(cs)
    BY <1>4
  <2>2. e.path # "none"
    BY <1>1, <1>2, <1>4, <2>1 DEF NetSound
  <2> QED BY <2>2 DEF NetTrue
<1>10. NetTyped(d, q, b) /\ Awaited(m, q)
  <2>1. PICK k : k = Len(s) + 1
    OBVIOUS
  <2>2. Adds(s, q, k, e)
    BY <1>8, <2>1
  <2> QED BY <1>1, <1>9, <2>2, AddsTyped, AddsAwaited
<1>11. q[Len(q)] = e /\ Len(q) \in 1..Len(q)
  BY <1>1, <1>8, LenProperties DEF Adds
<1>12. Awaited(n, q)
  <2> SUFFICES ASSUME NEW object \in N!Subscription, n.objects[object].reading
               PROVE  IsAsked(n.calls, object, n.objects[object])
                      \/ IsAnswered(q, object, n.objects[object])
    BY DEF Awaited
  <2>1. PICK o : o = m.objects[object]
    OBVIOUS
  <2>2. IsAsked(cs, object, o) \/ IsAnswered(q, object, o)
    BY <1>2, <1>6, <1>10, <2>1 DEF Awaited
  <2>3. ASSUME IsAsked(cs, object, o)
        PROVE  IsAsked(a, object, o) \/ IsAnswered(q, object, o)
    <3>1. PICK i \in 1..Len(cs) : ForIt(cs[i], object, o)
      BY <2>3 DEF IsAsked
    <3>2. CASE i = 1
      <4>1. ForIt(e, object, o)
        BY <1>4, <3>1, <3>2 DEF ForIt
      <4> QED BY <1>11, <4>1 DEF IsAnswered
    <3>3. CASE i # 1
      <4>1. Len(a) = Len(cs) - 1 /\ i \in Nat
        BY <1>4 DEF Drops
      <4>2. i - 1 \in 1..Len(a) /\ i - 1 + 1 = i
        BY <1>4, <1>5, <3>3, <4>1
      <4>3. a[i - 1] = cs[i]
        BY <1>5, <4>2
      <4> QED BY <3>1, <4>2, <4>3 DEF IsAsked
    <3> QED BY <3>2, <3>3
  <2> QED BY <1>6, <2>1, <2>2, <2>3
<1>13. \A life : NetOf(m, life) => NetOf(n, life)
  BY <1>6 DEF NetOf
<1>14. ~n.started => NetOff(n) /\ n.generation # 1
  BY <1>6, <1>13 DEF NetHolds, NetOff
<1>15. ASSUME n.started
       PROVE  NetLives(d, q, n)
  <2>1. PICK life \in 0..ChainEvents :
             Lives(s, NetTelling, d.up, d.life, life) /\ NetOf(m, life)
    BY <1>6, <1>15 DEF NetHolds, NetLives
  <2>2. PICK up, now, k : up = d.up /\ now = d.life /\ k = Len(s) + 1
    OBVIOUS
  <2>3. Lives(s, NetTelling, up, now, life) /\ Adds(s, q, k, e)
    BY <1>8, <2>1, <2>2, Zenon
  <2>4. (e.what \in NetTelling => up /\ e.fact.life = now) /\ e.what # "unregistered"
    BY <2>2 DEF NetTelling
  <2>5. \A i \in k..Len(s) : s[i].what # "unregistered"
    BY <1>1, <2>2, LenProperties
  <2>6. Lives(q, NetTelling, up, now, life) /\ (Exit(q, 1, Len(q)) <=> Exit(s, 1, Len(s)))
    BY <1>1, <2>3, <2>4, <2>5, LivesSent
  <2>7. Lives(q, NetTelling, d.up, d.life, life)
    BY <2>2, <2>6, Zenon
  <2>8. ~Gone(q) /\ ~d.up => \A other : NetOf(n, other)
    BY <1>6, <1>13, <1>15, <2>6 DEF NetHolds, NetLives, Gone
  <2> QED BY <1>13, <2>1, <2>7, <2>8 DEF NetLives
<1> QED BY <1>7, <1>8, <1>10, <1>12, <1>14, <1>15 DEF NetHolds

\* Nothing but the daemon's properties changed.
LEMMA NetDaemonKeeps ==
    ASSUME NEW d, NEW s, NEW m, NEW b, NetHolds(d, s, m, b), NEW e \in N!Daemon,
           e.up = d.up, e.life = d.life, NEW c \in NetBounds
    PROVE  NetHolds(e, s, m, c)
<1>1. ASSUME NetLives(d, s, m)
      PROVE  NetLives(e, s, m)
  BY <1>1, Zenon DEF NetLives
<1> QED BY <1>1 DEF NetHolds, NetTyped

\* The daemon starts or exits, and a started service is told.
LEMMA NetStartsKeeps ==
    ASSUME NEW d, NEW s, NEW m, NEW b, NetHolds(d, s, m, b), NEW e \in N!Daemon,
           ~d.up, e.up = TRUE, e.life = d.life + 1,
           NEW q, q = (IF m.started THEN Append(s, N!Word("registered")) ELSE s)
    PROVE  NetHolds(e, q, m, b)
<1> DEFINE w == N!Word("registered")
<1>1. w \in NetMessage /\ w.what = "registered" /\ NetTrue(w)
  BY NetWordIs
<1> HIDE DEF w
<1>2. s \in Seq(NetMessage) /\ NetTyped(e, s, b) /\ Awaited(m, s) /\ NetSound(m)
  BY DEF NetHolds, NetTyped
<1>3. CASE ~m.started
  BY <1>2, <1>3 DEF NetHolds
<1>4. CASE m.started
  <2>1. PICK k : k = Len(s) + 1
    OBVIOUS
  <2>2. q \in Seq(NetMessage) /\ Adds(s, q, k, w)
    BY <1>1, <1>2, <1>4, <2>1, AppendAdds DEF w
  <2>3. NetTyped(e, q, b) /\ Awaited(m, q)
    BY <1>1, <1>2, <2>2, AddsTyped, AddsAwaited
  <2>4. d.up = FALSE
    BY DEF NetHolds, NetTyped, N!Daemon
  <2>5. PICK life \in 0..ChainEvents :
             Lives(s, NetTelling, FALSE, d.life, life) /\ NetOf(m, life)
    <3>1. PICK life \in 0..ChainEvents :
               Lives(s, NetTelling, d.up, d.life, life) /\ NetOf(m, life)
      BY <1>4 DEF NetHolds, NetLives
    <3> QED BY <2>4, <3>1
  <2>6. PICK now, next : now = d.life /\ next = e.life
    OBVIOUS
  <2>7. Lives(s, NetTelling, FALSE, now, life) /\ Adds(s, q, Len(s) + 1, w)
    BY <2>1, <2>2, <2>5, <2>6
  <2>8. w.what # "unregistered" /\ w.what \notin NetTelling
    BY <1>1 DEF NetTelling
  <2>9. /\ Exit(s, 1, Len(s)) => Lives(q, NetTelling, TRUE, next, life)
        /\ ~Exit(s, 1, Len(s)) => Lives(q, NetTelling, TRUE, next, next)
    BY <1>2, <2>2, <2>7, <2>8, LivesStart
  <2>10. ~Gone(s) => \A other : NetOf(m, other)
    BY <1>4 DEF NetHolds, NetLives
  <2>11. next \in 0..ChainEvents
    BY <2>6 DEF N!Daemon
  <2>12. \E other \in 0..ChainEvents :
             Lives(q, NetTelling, TRUE, next, other) /\ NetOf(m, other)
    BY <2>5, <2>9, <2>10, <2>11 DEF Gone
  <2>13. NetLives(e, q, m)
    BY <2>6, <2>12 DEF NetLives
  <2> QED BY <1>2, <1>4, <2>3, <2>13 DEF NetHolds
<1>5. m.started \in BOOLEAN
  BY <1>2, NetSoundFields
<1> QED BY <1>3, <1>4, <1>5

LEMMA NetExitsKeeps ==
    ASSUME NEW d, NEW s, NEW m, NEW b, NetHolds(d, s, m, b), NEW e \in N!Daemon,
           e.up = FALSE, e.life = d.life,
           NEW q, q = (IF m.started THEN Append(s, N!Word("unregistered")) ELSE s)
    PROVE  NetHolds(e, q, m, b)
<1> DEFINE w == N!Word("unregistered")
<1>1. w \in NetMessage /\ w.what = "unregistered" /\ NetTrue(w)
  BY NetWordIs
<1> HIDE DEF w
<1>2. s \in Seq(NetMessage) /\ NetTyped(e, s, b) /\ Awaited(m, s) /\ NetSound(m)
  BY DEF NetHolds, NetTyped
<1>3. CASE ~m.started
  BY <1>2, <1>3 DEF NetHolds
<1>4. CASE m.started
  <2>1. PICK k : k = Len(s) + 1
    OBVIOUS
  <2>2. q \in Seq(NetMessage) /\ Adds(s, q, k, w)
    BY <1>1, <1>2, <1>4, <2>1, AppendAdds DEF w
  <2>3. NetTyped(e, q, b) /\ Awaited(m, q)
    BY <1>1, <1>2, <2>2, AddsTyped, AddsAwaited
  <2>4. PICK life \in 0..ChainEvents :
             Lives(s, NetTelling, d.up, d.life, life) /\ NetOf(m, life)
    BY <1>4 DEF NetHolds, NetLives
  <2>5. PICK up, now : up = d.up /\ now = d.life
    OBVIOUS
  <2>6. Lives(s, NetTelling, up, now, life) /\ Adds(s, q, Len(s) + 1, w)
    BY <2>1, <2>2, <2>4, <2>5, Zenon
  <2>7. "unregistered" \notin NetTelling
    BY DEF NetTelling
  <2>8. Lives(q, NetTelling, FALSE, now, life) /\ Exit(q, 1, Len(q))
    BY <1>1, <1>2, <2>2, <2>6, <2>7, LivesExit
  <2>9. NetLives(e, q, m)
    BY <2>4, <2>5, <2>8 DEF NetLives, Gone
  <2> QED BY <1>2, <1>4, <2>3, <2>9 DEF NetHolds
<1>5. m.started \in BOOLEAN
  BY <1>2, NetSoundFields
<1> QED BY <1>3, <1>4, <1>5

\* A signal goes in before what the last reply left on its way, or last.
Slips(s, q, e) ==
    /\ q \in Seq(NetMessage)
    /\ \E k \in Nat : Adds(s, q, k, e) /\ \A i \in k..Len(s) : s[i].what # "unregistered"

\* Nothing follows a queue but signals that are followed.
LEMMA PassedIs ==
    ASSUME NEW q \in Seq(NetMessage), NEW e \in NetMessage
    PROVE  N!Passed(q, e) = q \/ (N!Passed(q, e) = Append(q, e) /\ N!Followed(e))
  BY DEF N!Passed

LEMMA SlipsLast ==
    ASSUME NEW s \in Seq(NetMessage), NEW e \in NetMessage
    PROVE  Append(s, e) \in Seq(NetMessage) /\ Slips(s, Append(s, e), e)
<1>1. Append(s, e) \in Seq(NetMessage) /\ Adds(s, Append(s, e), Len(s) + 1, e)
  BY AppendAdds
<1>2. Len(s) + 1 \in Nat /\ \A i \in Len(s) + 1..Len(s) : s[i].what # "unregistered"
  BY LenProperties
<1> QED BY <1>1, <1>2 DEF Slips

Longer(q, s, e) ==
    /\ q = Append(s, e) /\ Len(q) = Len(s) + 1 /\ q[Len(s) + 1] = e
    /\ \A i \in 1..Len(s) : q[i] = s[i]

LEMMA AppendIs ==
    ASSUME NEW S, NEW s \in Seq(S), NEW e \in S
    PROVE  Append(s, e) \in Seq(S) /\ Longer(Append(s, e), s, e)
<1> DEFINE q == Append(s, e)
<1>1. q \in Seq(S) /\ Len(q) = Len(s) + 1 /\ q[Len(s) + 1] = e
      /\ \A i \in 1..Len(s) : q[i] = s[i]
  BY AppendProperties
<1> QED BY <1>1 DEF Longer

\* Append(Append(f, e), l) is Append(f, l) with e before its last.
LEMMA SlipsBefore ==
    ASSUME NEW f \in Seq(NetMessage), NEW e \in NetMessage, NEW l \in NetMessage,
           l.what = "reply"
    PROVE  /\ Append(f, l) \in Seq(NetMessage) /\ Append(Append(f, e), l) \in Seq(NetMessage)
           /\ Slips(Append(f, l), Append(Append(f, e), l), e)
<1>1. PICK g : g = Append(f, e) /\ g \in Seq(NetMessage) /\ Longer(g, f, e)
  BY AppendIs
<1>2. PICK s : s = Append(f, l) /\ s \in Seq(NetMessage) /\ Longer(s, f, l)
  BY AppendIs
<1>3. PICK q : q = Append(g, l) /\ q \in Seq(NetMessage) /\ Longer(q, g, l)
  BY <1>1, AppendIs
<1>4. PICK n \in Nat : n = Len(f)
  BY LenProperties
<1>5. /\ Len(g) = n + 1 /\ Len(s) = n + 1 /\ Len(q) = n + 2 /\ q[n + 2] = l /\ s[n + 1] = l
      /\ q[n + 1] = e /\ \A i \in 1..n : q[i] = f[i] /\ s[i] = f[i]
  <2>1. Len(g) = n + 1 /\ Len(s) = n + 1 /\ Len(q) = n + 2 /\ n + 1 \in 1..n + 1
    BY <1>1, <1>2, <1>3, <1>4 DEF Longer
  <2>2. n + 1 + 1 = n + 2
    OBVIOUS
  <2> QED BY <1>1, <1>2, <1>3, <1>4, <2>1, <2>2 DEF Longer
<1>6. Adds(s, q, n + 1, e)
  <2>1. n + 1 - 1 = n /\ n + 1 \in 1..n + 2 /\ \A i \in n + 1..n + 1 : i = n + 1
    OBVIOUS
  <2>2. n + 1 + 1 = n + 2
    OBVIOUS
  <2> QED BY <1>5, <2>1, <2>2 DEF Adds
<1>7. \A i \in n + 1..Len(s) : s[i].what # "unregistered"
  <2>1. \A i \in n + 1..n + 1 : i = n + 1
    OBVIOUS
  <2> QED BY <1>5, <2>1
<1>8. n + 1 \in Nat
  OBVIOUS
<1> QED BY <1>1, <1>2, <1>3, <1>6, <1>7, <1>8 DEF Slips

\* Signals come in one after the other.
Comes(s, q, e) == q = s \/ (Slips(s, q, e) /\ N!Followed(e))

LEMMA PassedComes ==
    ASSUME NEW s \in Seq(NetMessage), NEW e \in NetMessage, NEW t,
           t = s \/ t = N!Passed(s, e)
    PROVE  t \in Seq(NetMessage) /\ Comes(s, t, e)
<1>1. CASE t = s
  BY <1>1 DEF Comes
<1>2. CASE t # s
  <2>1. t = Append(s, e) /\ N!Followed(e)
    <3>1. t = N!Passed(s, e)
      BY <1>2
    <3>2. N!Passed(s, e) = s \/ (N!Passed(s, e) = Append(s, e) /\ N!Followed(e))
      BY PassedIs
    <3> QED BY <1>2, <3>1, <3>2
  <2>2. t \in Seq(NetMessage) /\ Slips(s, t, e)
    BY <2>1, SlipsLast
  <2> QED BY <2>1, <2>2 DEF Comes
<1> QED BY <1>1, <1>2

LEMMA SentComes ==
    ASSUME NEW s \in Seq(NetMessage), s = inbox, NEW signals, NEW e \in NetMessage,
           NEW f \in NetMessage, Len(signals) \in {1, 2}, signals[1] = e,
           Len(signals) = 2 => signals[2] = f, N!Sent(signals)
    PROVE  \E t : Comes(s, t, e) /\ t \in Seq(NetMessage) /\ Comes(t, inbox', f)
<1> DEFINE All(q) == IF Len(signals) = 1 THEN N!Passed(q, e) ELSE N!Passed(N!Passed(q, e), f)
<1>1. \A q : N!PassedAll(q, signals) = All(q)
  BY DEF N!PassedAll
<1>2. CASE inbox' = N!PassedAll(inbox, signals)
  <2>1. PICK t : t = N!Passed(s, e)
    OBVIOUS
  <2>2. t \in Seq(NetMessage) /\ Comes(s, t, e)
    BY <2>1, PassedComes
  <2>3. inbox' = t \/ inbox' = N!Passed(t, f)
    BY <1>1, <1>2, <2>1
  <2>4. Comes(t, inbox', f)
    <3> HIDE DEF All
    <3> QED BY <2>2, <2>3, PassedComes
  <2> QED BY <2>2, <2>4
<1>3. CASE /\ inbox # <<>> /\ Last(inbox).what = "reply"
           /\ inbox' = Append(N!PassedAll(Front(inbox), signals), Last(inbox))
  <2>1. PICK r \in Seq(NetMessage), l \in NetMessage : s = Append(r, l)
    BY <1>3, SequenceEmptyOrAppend
  <2>2. Front(s) = r /\ Last(s) = l
    <3>1. Len(s) = Len(r) + 1 /\ Len(r) \in Nat /\ s[Len(r) + 1] = l
          /\ \A i \in 1..Len(r) : s[i] = r[i]
      BY <2>1, AppendProperties, LenProperties
    <3>2. PICK n \in Nat : n = Len(r)
      BY <3>1
    <3>3. PICK u : u = SubSeq(s, 1, n)
      OBVIOUS
    <3>4. u \in Seq(NetMessage) /\ Len(u) = n /\ \A i \in 1..n : u[i] = s[i]
      <4>1. 1 \in 1..Len(s) + 1 /\ n \in 0..Len(s)
        BY <3>1, <3>2
      <4>2. /\ SubSeq(s, 1, n) \in Seq(NetMessage)
            /\ Len(SubSeq(s, 1, n)) = IF 1 <= n THEN n - 1 + 1 ELSE 0
            /\ \A i \in 1..n - 1 + 1 : SubSeq(s, 1, n)[i] = s[1 + i - 1]
        BY <4>1, SubSeqProperties
      <4>3. n - 1 + 1 = n /\ (~(1 <= n) => n = 0) /\ \A i \in 1..n : 1 + i - 1 = i
        OBVIOUS
      <4> QED BY <3>3, <4>2, <4>3
    <3>5. u = r
      BY <3>1, <3>2, <3>4, SeqEqual
    <3>6. Len(s) - 1 = n /\ Len(s) = n + 1
      BY <3>1, <3>2
    <3> QED BY <3>1, <3>2, <3>3, <3>5, <3>6 DEF Front, Last
  <2>3. l.what = "reply" /\ inbox' = Append(All(r), l)
    BY <1>1, <1>3, <2>2
  <2>4. PICK t : t = N!Passed(r, e)
    OBVIOUS
  <2>5. PICK u : u = Append(t, l)
    OBVIOUS
  <2>6. t \in Seq(NetMessage) /\ u \in Seq(NetMessage) /\ Comes(s, u, e)
    <3>1. CASE t = r
      BY <2>1, <2>5, <3>1 DEF Comes
    <3>2. CASE t = Append(r, e) /\ N!Followed(e)
      BY <2>1, <2>3, <2>5, <3>2, SlipsBefore, SlipsLast DEF Comes
    <3> QED BY <2>4, <3>1, <3>2, PassedIs
  <2>7. inbox' = u \/ inbox' = Append(N!Passed(t, f), l)
    BY <2>3, <2>4, <2>5
  <2>8. Comes(u, inbox', f)
    <3>1. CASE inbox' = u
      BY <3>1 DEF Comes
    <3>2. CASE inbox' = Append(N!Passed(t, f), l)
      <4>1. CASE N!Passed(t, f) = t
        BY <2>5, <3>2, <4>1 DEF Comes
      <4>2. CASE N!Passed(t, f) = Append(t, f) /\ N!Followed(f)
        BY <2>3, <2>5, <2>6, <3>2, <4>2, SlipsBefore DEF Comes
      <4> QED BY <2>6, <4>1, <4>2, PassedIs
    <3> QED BY <2>7, <3>1, <3>2
  <2> QED BY <2>6, <2>8
<1>4. \A q : N!Last(q) = Last(q) /\ N!Front(q) = Front(q)
  BY DEF N!Last, Last, N!Front, Front
<1> QED BY <1>2, <1>3, <1>4 DEF N!Sent

\* What goes in on its way to the service.
LEMMA NetComesKeeps ==
    ASSUME NEW d, NEW s, NEW m, m = service, NEW b, NetHolds(d, s, m, b), NEW q, NEW e,
           Comes(s, q, e), NetTrue(e), e.what = "changed", e \in NetMessage, d.up,
           e.fact.life = d.life
    PROVE  NetHolds(d, q, m, b)
<1>1. CASE q = s
  BY <1>1
<1>2. CASE Slips(s, q, e) /\ N!Followed(e)
  <2>1. PICK k \in Nat : Adds(s, q, k, e) /\ \A i \in k..Len(s) : s[i].what # "unregistered"
    BY <1>2 DEF Slips
  <2>2. m.started
    <3>1. e.object \in N!Subscription
      BY DEF NetMessage
    <3>2. m.rules[e.object] # "none"
      BY <1>2 DEF NetTrue, N!Followed
    <3>3. m.started \in BOOLEAN /\ m.objects[e.object].path # "none"
      BY <3>1, <3>2, NetSoundFields DEF NetHolds
    <3> QED BY <3>1, <3>3 DEF NetHolds, NetOff
  <2>3. q \in Seq(NetMessage)
    BY <1>2 DEF Slips
  <2> QED BY <2>1, <2>2, <2>3, NetSentKeeps
<1> QED BY <1>1, <1>2 DEF Comes

\* A signal about the daemon as it is.
NetTells(d, x) ==
    x \in NetMessage /\ x.what = "changed" /\ NetTrue(x) /\ x.fact.life = d.life

LEMMA NetMoveKeeps ==
    ASSUME NetHolds(daemon, inbox, service, bounds), NEW d \in N!Daemon, NEW signals,
           N!Move(d, signals), d.up = daemon.up, d.life = daemon.life,
           Len(signals) \in {1, 2}, NetTells(d, signals[1]),
           Len(signals) = 2 => NetTells(d, signals[2])
    PROVE  NetHolds(daemon', inbox', service', bounds')
<1>1. daemon.up /\ daemon' = d /\ service' = service /\ N!Sent(signals)
  BY DEF N!Move
<1>2. bounds' \in NetBounds
  <2>1. bounds \in NetBounds
    BY DEF NetHolds, NetTyped
  <2>2. PICK u \in BOOLEAN : u <=> (bounds.unheard \/
            \E i \in DOMAIN signals, j \in DOMAIN inbox :
                /\ ~N!Followed(signals[i])
                /\ inbox[j].what = "changed"
                /\ inbox[j].object = signals[i].object)
    OBVIOUS
  <2>3. PICK n : n = bounds.moves + 1
    OBVIOUS
  <2>4. bounds' = [bounds EXCEPT !.moves = n, !.unheard = u]
    BY <2>2, <2>3, Zenon DEF N!Move
  <2>5. n \in Nat
    BY <2>1, <2>3 DEF NetBounds
  <2> QED BY <2>1, <2>4, <2>5 DEF NetBounds
<1>3. PICK s, m, e, f : s = inbox /\ m = service /\ e = signals[1]
                        /\ f = IF Len(signals) = 2 THEN signals[2] ELSE signals[1]
  OBVIOUS
<1>4. NetTells(d, e) /\ NetTells(d, f)
  BY <1>3
<1>5. NetHolds(d, s, m, bounds')
  <2>1. NetHolds(daemon, s, m, bounds)
    BY <1>3
  <2> QED BY <1>2, <2>1, NetDaemonKeeps
<1>6. s \in Seq(NetMessage) /\ d.up /\ e \in NetMessage /\ f \in NetMessage
      /\ signals[1] = e /\ (Len(signals) = 2 => signals[2] = f)
  BY <1>1, <1>3, <1>4 DEF NetHolds, NetTyped, NetTells
<1>7. PICK t : Comes(s, t, e) /\ Comes(t, inbox', f)
  BY <1>1, <1>3, <1>6, SentComes
<1>8. NetHolds(d, t, m, bounds')
  BY <1>3, <1>4, <1>5, <1>6, <1>7, NetComesKeeps DEF NetTells
<1>9. NetHolds(d, inbox', m, bounds')
  BY <1>3, <1>4, <1>6, <1>7, <1>8, NetComesKeeps DEF NetTells
<1> QED BY <1>1, <1>3, <1>9

\* What a signal is made of.
LEMMA NetSignal ==
    ASSUME NEW d \in N!Daemon, NEW object \in N!Subscription, NEW path \in N!Path,
           path # "none"
    PROVE  /\ \A names \in N!Path : NetTells(d, N!Renames(d, object, path, names))
           /\ \A value \in N!Value : NetTells(d, N!Revalues(d, object, path, value))
<1>1. PICK life \in 0..ChainEvents : life = d.life
  BY DEF N!Daemon
<1>2. "changed" \in NetKinds
  BY DEF NetKinds
<1>3. ASSUME NEW names \in N!Path
      PROVE  NetTells(d, N!Renames(d, object, path, names))
  <2> DEFINE c == [life |-> life, path |-> path, names |-> names]
  <2>1. c \in N!Change /\ c.life = life
    BY DEF N!Change
  <2>2. N!Renames(d, object, path, names) =
            [what |-> "changed", object |-> object, generation |-> 0, path |-> path, fact |-> c]
    BY <1>1 DEF N!Renames, N!Message
  <2> HIDE DEF c
  <2> QED BY <1>1, <1>2, <2>1, <2>2 DEF NetTells, NetMessage, NetTrue
<1>4. ASSUME NEW value \in N!Value
      PROVE  NetTells(d, N!Revalues(d, object, path, value))
  <2> DEFINE c == [life |-> life, path |-> path, value |-> value]
  <2>1. c \in N!Change /\ c.life = life
    BY DEF N!Change
  <2>2. N!Revalues(d, object, path, value) =
            [what |-> "changed", object |-> object, generation |-> 0, path |-> path, fact |-> c]
    BY <1>1 DEF N!Revalues, N!Message
  <2> HIDE DEF c
  <2> QED BY <1>1, <1>2, <2>1, <2>2 DEF NetTells, NetMessage, NetTrue
<1> QED BY <1>3, <1>4

LEMMA OneSignal ==
    ASSUME NEW x, NEW y
    PROVE  /\ Len(<<x>>) = 1 /\ <<x>>[1] = x
           /\ Len(<<x, y>>) = 2 /\ <<x, y>>[1] = x /\ <<x, y>>[2] = y
  OBVIOUS

NetWifi == {"wifi", "wired"}

LEMMA NetMovesKeep ==
    ASSUME NetHolds(daemon, inbox, service, bounds), N!Moves
    PROVE  NetHolds(daemon', inbox', service', bounds')
<1>1. daemon \in N!Daemon
  BY DEF NetHolds, NetTyped
<1>2. /\ daemon.state \in {"connecting", "connected"} /\ daemon.kind \in NetWifi
      /\ daemon.primary \in Connections \cup {"none"}
      /\ daemon.accessPoint \in AccessPoints \cup {"none"}
      /\ daemon.strength \in {"weak", "strong"}
  BY <1>1 DEF N!Daemon, NetWifi
<1>3. /\ N!Subscription = {"manager", "connection", "device", "wireless", "accessPoint"}
      /\ Connections \subseteq N!Path /\ AccessPoints \subseteq N!Path
      /\ {"none", "manager", "device"} \subseteq N!Path
      /\ {"connecting", "connected", "renamed", "weak", "strong"} \subseteq N!Value
      /\ NetWifi \subseteq N!Value
  BY DEF N!Subscription, N!Path, N!Value, NetWifi
<1>4. CASE N!StateChanges
  <2> DEFINE state == IF daemon.state = "connected" THEN "connecting" ELSE "connected"
             d == [daemon EXCEPT !.state = state]
             x == N!Revalues(d, "manager", "manager", d.state)
  <2>1. N!Move(d, <<x>>)
    BY <1>4 DEF N!StateChanges
  <2>2. d \in N!Daemon /\ d.up = daemon.up /\ d.life = daemon.life /\ d.state \in N!Value
    BY <1>1, <1>3 DEF N!Daemon
  <2> HIDE DEF d
  <2>3. NetTells(d, x)
    BY <1>3, <2>2, NetSignal
  <2> HIDE DEF x
  <2> QED BY <2>1, <2>2, <2>3, OneSignal, NetMoveKeeps
<1>5. CASE N!PrimaryChanges
  <2>1. PICK primary \in Connections \cup {"none"} :
            N!Move([daemon EXCEPT !.primary = primary],
                   <<N!Renames([daemon EXCEPT !.primary = primary], "manager", "manager",
                               primary)>>)
    BY <1>5 DEF N!PrimaryChanges
  <2> DEFINE d == [daemon EXCEPT !.primary = primary]
             x == N!Renames(d, "manager", "manager", primary)
  <2>2. N!Move(d, <<x>>)
    BY <2>1
  <2>3. d \in N!Daemon /\ d.up = daemon.up /\ d.life = daemon.life /\ primary \in N!Path
    BY <1>1, <1>3 DEF N!Daemon
  <2> HIDE DEF d
  <2>4. NetTells(d, x)
    BY <1>3, <2>3, NetSignal
  <2> HIDE DEF x
  <2> QED BY <2>2, <2>3, <2>4, OneSignal, NetMoveKeeps
<1>6. CASE N!NameChanges
  <2> DEFINE d == [daemon EXCEPT !.name = "renamed"]
             x == N!Revalues(d, "connection", d.primary, d.name)
  <2>1. N!Move(d, <<x>>) /\ daemon.primary # "none"
    BY <1>6 DEF N!NameChanges
  <2>2. d \in N!Daemon /\ d.up = daemon.up /\ d.life = daemon.life /\ d.name \in N!Value
        /\ d.primary = daemon.primary
    BY <1>1, <1>3 DEF N!Daemon
  <2> HIDE DEF d
  <2>3. d.primary \in N!Path /\ d.primary # "none"
    BY <1>2, <1>3, <2>1, <2>2
  <2>4. NetTells(d, x)
    BY <1>3, <2>2, <2>3, NetSignal
  <2> HIDE DEF x
  <2> QED BY <2>1, <2>2, <2>4, OneSignal, NetMoveKeeps
<1>7. CASE N!StrengthChanges
  <2> DEFINE strength == IF daemon.strength = "weak" THEN "strong" ELSE "weak"
             d == [daemon EXCEPT !.strength = strength]
             x == N!Revalues(d, "accessPoint", d.accessPoint, d.strength)
  <2>1. N!Move(d, <<x>>) /\ daemon.accessPoint # "none"
    BY <1>7 DEF N!StrengthChanges
  <2>2. d \in N!Daemon /\ d.up = daemon.up /\ d.life = daemon.life /\ d.strength \in N!Value
        /\ d.accessPoint = daemon.accessPoint
    BY <1>1, <1>3 DEF N!Daemon
  <2> HIDE DEF d
  <2>3. d.accessPoint \in N!Path /\ d.accessPoint # "none"
    BY <1>2, <1>3, <2>1, <2>2
  <2>4. NetTells(d, x)
    BY <1>3, <2>2, <2>3, NetSignal
  <2> HIDE DEF x
  <2> QED BY <2>1, <2>2, <2>4, OneSignal, NetMoveKeeps
<1>8. CASE N!Roams
  <2>1. PICK accessPoint, d :
            /\ accessPoint \in AccessPoints \cup {"none"}
            /\ d = [daemon EXCEPT !.accessPoint = accessPoint]
            /\ \/ N!Move(d, <<N!Renames(d, "wireless", "device", accessPoint)>>)
               \/ N!Move(d, <<N!Renames(d, "wireless", "device", accessPoint),
                              N!Renames(d, "device", "device", accessPoint)>>)
               \/ N!Move(d, <<N!Renames(d, "device", "device", accessPoint),
                              N!Renames(d, "wireless", "device", accessPoint)>>)
    BY <1>8 DEF N!Roams
  <2>2. d \in N!Daemon /\ d.up = daemon.up /\ d.life = daemon.life
        /\ accessPoint \in N!Path
    BY <1>1, <1>3, <2>1 DEF N!Daemon
  <2>3. PICK x, y : x = N!Renames(d, "wireless", "device", accessPoint)
                    /\ y = N!Renames(d, "device", "device", accessPoint)
    OBVIOUS
  <2>4. NetTells(d, x) /\ NetTells(d, y)
    BY <1>3, <2>2, <2>3, NetSignal
  <2>5. N!Move(d, <<x>>) \/ N!Move(d, <<x, y>>) \/ N!Move(d, <<y, x>>)
    BY <2>1, <2>3
  <2>6. CASE N!Move(d, <<x>>)
    BY <2>2, <2>4, <2>6, OneSignal, NetMoveKeeps
  <2>7. CASE N!Move(d, <<x, y>>)
    BY <2>2, <2>4, <2>7, OneSignal, NetMoveKeeps
  <2>8. CASE N!Move(d, <<y, x>>)
    BY <2>2, <2>4, <2>8, OneSignal, NetMoveKeeps
  <2> QED BY <2>5, <2>6, <2>7, <2>8
<1>9. CASE N!KindChanges
  <2> DEFINE kind == IF daemon.kind = "wifi" THEN "wired" ELSE "wifi"
             d == [daemon EXCEPT !.kind = kind, !.accessPoint = "none"]
             c == [life |-> d.life, path |-> "device", names |-> d.accessPoint,
                   value |-> d.kind]
             x == N!Message("changed", "device", 0, "device", c)
  <2>1. N!Move(d, <<x>>)
    BY <1>9 DEF N!KindChanges
  <2>2. d \in N!Daemon /\ d.up = daemon.up /\ d.life = daemon.life /\ d.kind \in N!Value
        /\ d.accessPoint \in N!Path
    BY <1>1, <1>3 DEF N!Daemon, NetWifi
  <2> HIDE DEF d
  <2>3. c \in N!Change /\ c.life = d.life
    <3>1. c \in N!Fact
      BY <1>3, <2>2 DEF N!Fact, N!Daemon
    <3> QED BY <3>1 DEF N!Change
  <2> HIDE DEF c
  <2>4. NetTells(d, x)
    BY <1>3, <2>3 DEF NetTells, N!Message, NetMessage, NetTrue, NetKinds
  <2> HIDE DEF x
  <2> QED BY <2>1, <2>2, <2>4, OneSignal, NetMoveKeeps
<1> QED BY <1>4, <1>5, <1>6, <1>7, <1>8, <1>9 DEF N!Moves

\* What is of no life is of any.
LEMMA NetNoLife ==
    ASSUME NEW m, NetOf(m, 0), NEW life
    PROVE  NetOf(m, life)
<1>1. NetFacts(0) \subseteq NetFacts(life) /\ NetChanges(0) \subseteq NetChanges(life)
  BY DEF NetFacts, NetChanges
<1>2. \A held \in Seq(NetChanges(0)) : held \in Seq(NetChanges(life))
  BY <1>1
<1> QED BY <1>1, <1>2 DEF NetOf, NetObjectOf

LEMMA NetHoldsInit ==
    ASSUME N!Init
    PROVE  NetHolds(daemon, inbox, service, bounds)
<1>1. PICK m, none, objects, rules :
          /\ m = service /\ none = N!NoReading
          /\ objects = [object \in N!Subscription |-> N!NoObject]
          /\ rules = [object \in N!Subscription |-> "none"]
  OBVIOUS
<1>2. /\ none \in NetShown /\ none.manager = N!Unknown /\ none.connection = N!Unknown
      /\ none.device = N!Unknown /\ none.accessPoint = N!Unknown
  BY <1>1, NetUnknownIs DEF N!NoReading, NetShown
<1>3. /\ objects \in [N!Subscription -> N!Object] /\ rules \in [N!Subscription -> N!Path]
      /\ \A object \in N!Subscription : objects[object] = N!NoObject
                                        /\ rules[object] = "none"
  BY <1>1, NetUnknownIs DEF N!Path
<1>4. m = [started |-> FALSE, generation |-> 1, objects |-> objects, rules |-> rules,
           available |-> FALSE, shown |-> none, calls |-> <<>>]
  BY <1>1 DEF N!Init
<1>5. <<>> \in Seq(N!Call) /\ Len(<<>>) = 0
  OBVIOUS
<1>6. /\ m \in NetService /\ m.started = FALSE /\ m.generation = 1 /\ m.objects = objects
      /\ m.rules = rules /\ m.shown = none /\ m.calls = <<>>
  BY <1>2, <1>3, <1>4, <1>5 DEF NetService
<1>7. NetSound(m)
  BY <1>3, <1>5, <1>6, NetUnknownIs DEF NetSound
<1>8. NetOff(m)
  BY <1>2, <1>3, <1>6, NetUnknownIs DEF NetOff, NetOf
<1>9. Awaited(m, <<>>)
  BY <1>3, <1>6, NetUnknownIs DEF Awaited
<1>10. daemon \in N!Daemon
  <2>1. daemon \in [up : {FALSE}, life : {0}, state : {"connected"}, primary : {"none"},
                    name : {"profile"}, kind : {"wifi"}, accessPoint : AccessPoints,
                    strength : {"weak"}]
    BY DEF N!Init
  <2>2. 0 \in 0..ChainEvents
    BY ReadingsAssumption
  <2>3. PICK lives, primaries, accessPoints :
            /\ lives = 0..ChainEvents /\ primaries = Connections \cup {"none"}
            /\ accessPoints = AccessPoints \cup {"none"}
    OBVIOUS
  <2>4. 0 \in lives /\ "none" \in primaries /\ AccessPoints \subseteq accessPoints
    BY <2>2, <2>3
  <2>5. daemon \in [up : BOOLEAN, life : lives, state : {"connecting", "connected"},
                    primary : primaries, name : {"profile", "renamed"},
                    kind : {"wifi", "wired"}, accessPoint : accessPoints,
                    strength : {"weak", "strong"}]
    BY <2>1, <2>4
  <2> QED BY <2>3, <2>5 DEF N!Daemon
<1>11. bounds \in NetBounds
  BY DEF N!Init, NetBounds
<1>12. inbox = <<>> /\ inbox \in Seq(NetMessage) /\ Len(inbox) = 0
  BY DEF N!Init
<1> QED BY <1>1, <1>6, <1>7, <1>8, <1>9, <1>10, <1>11, <1>12 DEF NetHolds, NetTyped

LEMMA NetStartKeeps ==
    ASSUME NetHolds(daemon, inbox, service, bounds), N!Start
    PROVE  NetHolds(daemon', inbox', service', bounds')
<1> DEFINE w == N!Word("owned")
<1>1. PICK d, s, m, b : d = daemon /\ s = inbox /\ m = service /\ b = bounds
  OBVIOUS
<1>2. /\ ~m.started /\ m.generation = 1 /\ service' = [m EXCEPT !.started = TRUE]
      /\ inbox' = (IF d.up THEN Append(s, w) ELSE s) /\ daemon' = d /\ bounds' = b
  BY <1>1 DEF N!Start
<1>3. NetHolds(d, s, m, b)
  BY <1>1
<1>4. /\ s = <<>> /\ m.calls = <<>> /\ NetOff(m) /\ NetSound(m) /\ NetTyped(d, s, b)
      /\ Awaited(m, s)
  BY <1>2, <1>3 DEF NetHolds
<1>5. PICK n : n = service'
  OBVIOUS
<1>6. /\ n \in NetService /\ n.started = TRUE /\ n.generation = m.generation
      /\ n.objects = m.objects /\ n.rules = m.rules /\ n.shown = m.shown /\ n.calls = m.calls
  BY <1>2, <1>4, <1>5, NetSoundFields DEF NetService
<1>7. NetSound(n)
  BY <1>4, <1>6 DEF NetSound
<1>8. w \in NetMessage /\ w.what = "owned" /\ NetTrue(w)
  BY NetWordIs
<1> HIDE DEF w
<1>9. PICK q : q = inbox'
  OBVIOUS
<1>10. q = <<>> \/ q = <<w>>
  BY <1>2, <1>4, <1>9
<1>11. ~d.up => q = <<>>
  BY <1>2, <1>4, <1>9
<1>12. /\ q \in Seq(NetMessage) /\ Len(q) \in Nat
       /\ \A i \in 1..Len(q) : q[i] = w
  <2>1. <<>> \in Seq(NetMessage) /\ Len(<<>>) = 0
    OBVIOUS
  <2>2. <<w>> \in Seq(NetMessage) /\ Len(<<w>>) = 1 /\ <<w>>[1] = w
    BY <1>8
  <2>3. \A i \in 1..0 : FALSE
    OBVIOUS
  <2>4. \A i \in 1..1 : i = 1
    OBVIOUS
  <2>5. CASE q = <<>>
    BY <2>1, <2>3, <2>5
  <2>6. CASE q = <<w>>
    BY <2>2, <2>4, <2>6
  <2> QED BY <1>10, <2>5, <2>6
<1>13. \A life : NetOf(m, life)
  BY <1>4, NetNoLife DEF NetOff
<1>14. \A life : NetOf(n, life)
  BY <1>6, <1>13 DEF NetOf
<1>15. NetTyped(d, q, b)
  BY <1>4, <1>8, <1>12 DEF NetTyped
<1>16. Awaited(n, q)
  <2> SUFFICES ASSUME NEW object \in N!Subscription, m.objects[object].reading
               PROVE  FALSE
    BY <1>6 DEF Awaited
  <2>1. IsAsked(m.calls, object, m.objects[object]) \/ IsAnswered(s, object, m.objects[object])
    BY <1>4 DEF Awaited
  <2>2. Len(m.calls) = 0 /\ Len(s) = 0
    BY <1>4
  <2> QED BY <2>1, <2>2 DEF IsAsked, IsAnswered
<1>17. NetLives(d, q, n)
  <2>1. PICK life \in 0..ChainEvents : life = d.life
    BY <1>4 DEF NetTyped, N!Daemon
  <2>2. w.what \notin NetTelling
    BY <1>8 DEF NetTelling
  <2>3. Lives(q, NetTelling, d.up, d.life, life)
    BY <1>12, <2>1, <2>2, Zenon DEF Lives
  <2> QED BY <1>14, <2>3 DEF NetLives
<1>18. NetHolds(d, q, n, b)
  BY <1>6, <1>7, <1>15, <1>16, <1>17 DEF NetHolds
<1> QED BY <1>1, <1>2, <1>5, <1>9, <1>18

LEMMA NetStopKeeps ==
    ASSUME NetHolds(daemon, inbox, service, bounds), N!Stop
    PROVE  NetHolds(daemon', inbox', service', bounds')
<1>1. PICK d, s, m, b, o, n : /\ d = daemon /\ s = inbox /\ m = service /\ b = bounds
                              /\ o = [service EXCEPT !.started = FALSE] /\ n = service'
  OBVIOUS
<1>2. daemon' = d /\ inbox' = s /\ bounds' = b /\ n = N!Withdraw(o)
  BY <1>1 DEF N!Stop
<1>3. NetTyped(d, s, b) /\ NetSound(m) /\ o = [m EXCEPT !.started = FALSE]
  BY <1>1 DEF NetHolds
<1>4. /\ o \in NetService /\ o.started = FALSE /\ o.generation = m.generation
      /\ o.objects = m.objects /\ o.rules = m.rules /\ o.shown = m.shown /\ o.calls = m.calls
      /\ m.generation \in Nat \ {0}
  <2>1. m \in NetService /\ m.generation \in Nat \ {0}
    BY <1>3, NetSoundFields
  <2> QED BY <1>3, <2>1 DEF NetService
<1>5. NetSound(o)
  BY <1>3, <1>4 DEF NetSound
<1>6. /\ NetSound(n) /\ n.started = o.started /\ n.generation = o.generation + 1
      /\ NetOff(n) /\ \A q : Awaited(n, q)
  BY <1>2, <1>5, NetWithdrawIs
<1>7. n.started = FALSE /\ n.generation # 1
  BY <1>4, <1>6
<1>8. NetHolds(d, s, n, b)
  BY <1>3, <1>6, <1>7 DEF NetHolds
<1> QED BY <1>1, <1>2, <1>8

LEMMA NetRefreshKeeps ==
    ASSUME NetHolds(daemon, inbox, service, bounds), N!RefreshNow
    PROVE  NetHolds(daemon', inbox', service', bounds')
<1>1. PICK d, s, m, n, k : /\ d = daemon /\ s = inbox /\ m = service
                           /\ n = service' /\ k = bounds.refreshes + 1
  OBVIOUS
<1>2. /\ daemon' = d /\ inbox' = s /\ bounds' = [bounds EXCEPT !.refreshes = k]
      /\ n = N!WalkFromManager(m) /\ m.started
  BY <1>1 DEF N!RefreshNow
<1>3. /\ NetTyped(d, s, bounds) /\ NetSound(m) /\ Awaited(m, s) /\ NetLives(d, s, m)
  BY <1>1, <1>2 DEF NetHolds
<1>4. bounds' \in NetBounds
  <2>1. bounds \in NetBounds
    BY <1>3 DEF NetTyped
  <2>2. k \in Nat
    BY <1>1, <2>1 DEF NetBounds
  <2> QED BY <1>2, <2>1, <2>2 DEF NetBounds
<1>5. Grows(m, n, 0)
  BY <1>2, <1>3, NetWalkFromManagerGrows
<1>6. NetSound(n) /\ n.started /\ Awaited(n, s) /\ \A life : NetOf(m, life) => NetOf(n, life)
  BY <1>2, <1>3, <1>5 DEF Grows, WaitsOn, LivesOn
<1>7. NetLives(d, s, n)
  BY <1>3, <1>6 DEF NetLives
<1>8. NetTyped(d, s, bounds')
  BY <1>3, <1>4 DEF NetTyped
<1>9. NetHolds(d, s, n, bounds')
  BY <1>6, <1>7, <1>8 DEF NetHolds
<1> QED BY <1>1, <1>2, <1>9

\* What an object says is whole.
LEMMA NetSaysIs ==
    ASSUME NEW d \in N!Daemon, NEW object \in N!Subscription, NEW path \in N!Path
    PROVE  N!Says(d, object, path) \in N!Fact /\ N!Says(d, object, path).life = d.life
<1>1. /\ d.life \in 0..ChainEvents /\ d.primary \in N!Path /\ d.accessPoint \in N!Path
      /\ d.name \in N!Value /\ d.state \in N!Value /\ d.kind \in N!Value
      /\ d.strength \in N!Value /\ {"device", "none"} \subseteq N!Path
      /\ {"none", "weak"} \subseteq N!Value
  BY DEF N!Daemon, N!Path, N!Value
<1>2. PICK life, primary, accessPoint, name, state, kind, strength :
          /\ life = d.life /\ primary = d.primary /\ accessPoint = d.accessPoint
          /\ name = d.name /\ state = d.state /\ kind = d.kind /\ strength = d.strength
  OBVIOUS
<1>3. PICK names, value :
          /\ names = [manager |-> primary, connection |-> "device", device |-> accessPoint,
                      wireless |-> accessPoint, accessPoint |-> "none"][object]
          /\ value = [manager |-> state, connection |-> name, device |-> kind,
                      wireless |-> "none",
                      accessPoint |-> IF path = accessPoint THEN strength ELSE "weak"][object]
  OBVIOUS
<1>4. N!Says(d, object, path) = [life |-> life, path |-> path, names |-> names,
                                 value |-> value]
  BY <1>2, <1>3 DEF N!Says
<1>5. names \in N!Path /\ value \in N!Value
  BY <1>1, <1>2, <1>3 DEF N!Subscription
<1> QED BY <1>1, <1>2, <1>4, <1>5 DEF N!Fact

LEMMA NetAnswerKeeps ==
    ASSUME NetHolds(daemon, inbox, service, bounds), N!Answer
    PROVE  NetHolds(daemon', inbox', service', bounds')
<1>1. PICK d, s, m, n, c, k : /\ d = daemon /\ s = inbox /\ m = service
                              /\ n = service' /\ c = Head(service.calls)
                              /\ k = bounds.refusals + 1
  OBVIOUS
<1>2. /\ m.calls # <<>> /\ c = Head(m.calls) /\ n = [m EXCEPT !.calls = Tail(@)]
      /\ daemon' = d
  BY <1>1 DEF N!Answer
<1>3. NetTyped(d, s, bounds) /\ NetSound(m)
  BY <1>1 DEF NetHolds
<1>4. c \in N!Call
  <2>1. m.calls \in Seq(N!Call)
    BY <1>3, NetSoundFields
  <2> QED BY <1>2, <2>1, HeadTailProperties
<1>5. PICK object \in N!Subscription, generation \in Nat, path \in N!Path :
          object = c.object /\ generation = c.generation /\ path = c.path
  BY <1>4 DEF N!Call
<1>6. PICK f : f = N!Says(d, object, path)
  OBVIOUS
<1>7. f \in N!Fact /\ f.life = d.life /\ f \in N!Change /\ N!Unknown \in N!Change
      /\ d \in N!Daemon
  BY <1>3, <1>6, NetSaysIs, NetUnknownIs DEF NetTyped, N!Change
<1>8. bounds' \in NetBounds
  <2>1. bounds \in NetBounds
    BY <1>3 DEF NetTyped
  <2>2. k \in Nat
    BY <1>1, <2>1 DEF NetBounds
  <2>3. [bounds EXCEPT !.refusals = k] \in NetBounds
    BY <2>1, <2>2 DEF NetBounds
  <2>4. bounds' \in {bounds, [bounds EXCEPT !.refusals = k]}
    BY <1>1 DEF N!Answer
  <2> QED BY <2>1, <2>3, <2>4
<1> DEFINE y == [what |-> "reply", object |-> object, generation |-> generation,
                 path |-> path, fact |-> f]
           z == [what |-> "refused", object |-> object, generation |-> generation,
                 path |-> path, fact |-> N!Unknown]
<1>9. \/ d.up /\ inbox' = Append(s, y)
      \/ inbox' = Append(s, z)
  BY <1>1, <1>5, <1>6 DEF N!Answer, N!Answers, N!Message
<1>10. /\ y \in NetMessage /\ y.what = "reply" /\ y.fact = f /\ y.object = object
       /\ y.generation = generation /\ y.path = path
       /\ z \in NetMessage /\ z.what = "refused" /\ z.object = object
       /\ z.generation = generation /\ z.path = path
  BY <1>7 DEF NetMessage, NetKinds
<1> HIDE DEF y, z
<1>11. NetHolds(d, s, m, bounds)
  BY <1>1
<1>12. NetHolds(d, s, m, bounds')
  BY <1>7, <1>8, <1>11, NetDaemonKeeps
<1>13. CASE d.up /\ inbox' = Append(s, y)
  <2>1. y.what = "reply" /\ d.up /\ y.fact.life = d.life /\ y.fact \in N!Fact
    BY <1>7, <1>10, <1>13
  <2>2. NetHolds(d, Append(s, y), n, bounds')
    BY <1>2, <1>5, <1>10, <1>12, <2>1, NetAnsweredKeeps
  <2> QED BY <1>1, <1>2, <1>13, <2>2
<1>14. CASE inbox' = Append(s, z)
  <2>1. NetHolds(d, Append(s, z), n, bounds')
    BY <1>2, <1>5, <1>10, <1>12, NetAnsweredKeeps
  <2> QED BY <1>1, <1>2, <1>14, <2>1
<1> QED BY <1>9, <1>13, <1>14

LEMMA NetDaemonStartsKeeps ==
    ASSUME NetHolds(daemon, inbox, service, bounds), N!DaemonStarts
    PROVE  NetHolds(daemon', inbox', service', bounds')
<1>1. PICK d, s, m, b, e, q : /\ d = daemon /\ s = inbox /\ m = service /\ b = bounds
                              /\ e = daemon' /\ q = inbox'
  OBVIOUS
<1>2. /\ ~d.up /\ service' = m /\ bounds' = b
      /\ q = IF m.started THEN Append(s, N!Word("registered")) ELSE s
  BY <1>1 DEF N!DaemonStarts, N!Reports
<1>3. NetHolds(d, s, m, b) /\ NetTyped(d, s, b)
  BY <1>1 DEF NetHolds
<1>4. d \in N!Daemon /\ b \in NetBounds
  BY <1>3 DEF NetTyped
<1>5. PICK primary \in Connections \cup {"none"} :
          daemon' = [daemon EXCEPT !.up = TRUE, !.life = @ + 1, !.primary = primary]
  BY DEF N!DaemonStarts
<1>6. PICK life : life = d.life + 1
  OBVIOUS
<1>7. e = [d EXCEPT !.up = TRUE, !.life = life, !.primary = primary]
  BY <1>1, <1>5, <1>6
<1>8. life \in 0..ChainEvents
  <2>1. d.life + b.moves + b.refusals + b.refreshes < ChainEvents
    BY <1>1 DEF N!DaemonStarts, N!Events
  <2>2. d.life \in 0..ChainEvents
    BY <1>4 DEF N!Daemon
  <2>3. b.moves \in Nat /\ b.refusals \in Nat /\ b.refreshes \in Nat
    BY <1>4 DEF NetBounds
  <2>4. ChainEvents \in Nat
    BY ReadingsAssumption
  <2> QED BY <1>6, <2>1, <2>2, <2>3, <2>4
<1>9. e \in N!Daemon /\ e.up = TRUE /\ e.life = life
  <2>1. PICK primaries : primaries = Connections \cup {"none"}
    OBVIOUS
  <2>2. PICK p : p = [d EXCEPT !.up = TRUE, !.life = life]
    OBVIOUS
  <2>3. p \in N!Daemon /\ p.up = TRUE /\ p.life = life
    BY <1>4, <1>8, <2>2 DEF N!Daemon
  <2>4. e = [p EXCEPT !.primary = primary]
    BY <1>4, <1>7, <2>2 DEF N!Daemon
  <2> QED BY <2>3, <2>4 DEF N!Daemon
<1>10. NetHolds(e, q, m, b)
  BY <1>2, <1>3, <1>6, <1>9, NetStartsKeeps
<1> QED BY <1>1, <1>2, <1>10

LEMMA NetDaemonExitsKeeps ==
    ASSUME NetHolds(daemon, inbox, service, bounds), N!DaemonExits
    PROVE  NetHolds(daemon', inbox', service', bounds')
<1>1. PICK d, s, m, b, e, q : /\ d = daemon /\ s = inbox /\ m = service /\ b = bounds
                              /\ e = daemon' /\ q = inbox'
  OBVIOUS
<1>2. /\ e = [d EXCEPT !.up = FALSE] /\ service' = m /\ bounds' = b
      /\ q = IF m.started THEN Append(s, N!Word("unregistered")) ELSE s
  BY <1>1 DEF N!DaemonExits, N!Reports
<1>3. NetHolds(d, s, m, b) /\ NetTyped(d, s, b)
  BY <1>1 DEF NetHolds
<1>4. e \in N!Daemon /\ e.up = FALSE /\ e.life = d.life
  BY <1>2, <1>3 DEF NetTyped, N!Daemon
<1>5. NetHolds(e, q, m, b)
  BY <1>2, <1>3, <1>4, NetExitsKeeps
<1> QED BY <1>1, <1>2, <1>5

LEMMA NetNextKeeps ==
    ASSUME NetHolds(daemon, inbox, service, bounds), [N!Next]_N!vars
    PROVE  NetHolds(daemon', inbox', service', bounds')
<1>1. CASE N!Next
  BY <1>1, NetStartKeeps, NetStopKeeps, NetRefreshKeeps, NetEventLoopKeeps, NetAnswerKeeps,
     NetDaemonStartsKeeps, NetDaemonExitsKeeps, NetMovesKeep DEF N!Next
<1>2. CASE UNCHANGED N!vars
  <2>1. daemon' = daemon /\ inbox' = inbox /\ service' = service /\ bounds' = bounds
    BY <1>2 DEF N!vars
  <2> QED BY <2>1
<1> QED BY <1>1, <1>2

\* Whatever the daemon, the bus and refreshNow() do, what NetworkService shows is of one
\* life of the daemon, and every read that holds changes back has its answer on its way.
THEOREM NetworkWellFormed == N!Spec => []N!WellFormed
<1> DEFINE Inv == NetHolds(daemon, inbox, service, bounds)
<1>1. N!Init => Inv
  BY NetHoldsInit
<1>2. Inv /\ [N!Next]_N!vars => Inv'
  BY NetNextKeeps
<1>3. Inv => N!WellFormed
  BY NetHoldsWellFormed
<1> QED BY <1>1, <1>2, <1>3, PTL DEF N!Spec

-----------------------------------------------------------------------------
(* MediaService. *)

\* What can be known of one process, or of none.
MediaFacts(owner) == {f \in M!Fact : f.owner \in {0, owner}}
MediaChanges(owner) == MediaFacts(owner) \cup {M!Invalidated}

PlayerReadBy(o, owner) ==
    /\ o \in M!Properties /\ o.fact \in MediaFacts(owner)
    /\ o.held \in Seq(MediaChanges(owner)) /\ (o.held # <<>> => o.reading)

PlayerSound(p) ==
    p \in M!Player /\ \A interface \in M!Interface : PlayerReadBy(p.read[interface], p.owner)

MediaShown == [owner : M!Owner \cup {0}, player : M!Fact, identity : M!Fact]

MediaCall ==
    [what : {"names"}, generation : Nat]
    \cup [what : {"owner", "read"}, name : M!Names, interface : M!Interface,
          owner : M!Owner \cup {0}, serial : Nat, generation : Nat]
    \cup [what : {"transport"}, owner : M!Owner]

MediaService == [subscribed : BOOLEAN, generation : Nat, serial : Nat, activity : Nat,
                 revised : SUBSET M!Names, players : [M!Names -> M!Player],
                 shown : MediaShown, calls : Seq(MediaCall)]

\* n is m with these in place of its own.
MediaIs(n, m, serial, activity, revised, players, shown, calls) ==
    /\ n \in MediaService /\ n.subscribed = m.subscribed /\ n.generation = m.generation
    /\ n.serial = serial /\ n.activity = activity /\ n.revised = revised
    /\ n.players = players /\ n.shown = shown /\ n.calls = calls

LEMMA MediaServiceFields ==
    ASSUME NEW m \in MediaService
    PROVE  /\ m.subscribed \in BOOLEAN /\ m.generation \in Nat /\ m.serial \in Nat
           /\ m.activity \in Nat /\ m.revised \in SUBSET M!Names
           /\ m.players \in [M!Names -> M!Player] /\ m.shown \in MediaShown
           /\ m.calls \in Seq(MediaCall)
           /\ \A name \in M!Names :
                  /\ m.players[name] \in M!Player /\ m.players[name].owner \in M!Owner \cup {0}
                  /\ m.players[name].serial \in Nat /\ m.players[name].activity \in Nat
                  /\ m.players[name].read \in [M!Interface -> M!Properties]
  BY DEF MediaService, M!Player

LEMMA MediaMerged ==
    ASSUME NEW owner, NEW f \in MediaFacts(owner), NEW c \in MediaChanges(owner)
    PROVE  Merged(f, c) \in MediaFacts(owner)
<1>1. DOMAIN f = {"owner", "known", "value"} /\ f \in M!Fact /\ f.owner \in {0, owner}
  BY DEF MediaFacts, M!Fact
<1>2. CASE c \in M!Fact /\ c.owner \in {0, owner}
  <2>1. DOMAIN c = {"owner", "known", "value"}
    BY <1>2 DEF M!Fact
  <2>2. Merged(f, c) = [owner |-> c.owner, known |-> c.known, value |-> c.value]
    BY <1>1, <2>1 DEF Merged
  <2> QED BY <1>2, <2>2 DEF MediaFacts, M!Fact
<1>3. CASE c = M!Invalidated
  <2>1. DOMAIN c = {"known", "value"} /\ "owner" \notin DOMAIN c /\ c["known"] = FALSE
        /\ c["value"] = 0
    <3>1. c = [known |-> FALSE, value |-> 0]
      BY <1>3 DEF M!Invalidated
    <3> QED BY <3>1
  <2>2. Merged(f, c) = [owner |-> f.owner, known |-> FALSE, value |-> 0]
    <3> DEFINE g == Merged(f, c)
    <3>1. g = [property \in {"owner", "known", "value"} |->
                   IF property \in {"known", "value"} THEN c[property] ELSE f[property]]
      BY <1>1, <2>1, Zenon DEF Merged
    <3> HIDE DEF g
    <3>2. DOMAIN g = {"owner", "known", "value"} /\ g["owner"] = f["owner"]
          /\ g["known"] = FALSE /\ g["value"] = 0
      BY <2>1, <3>1
    <3>3. f["owner"] = f.owner
      OBVIOUS
    <3>4. g = [owner |-> f.owner, known |-> FALSE, value |-> 0]
      BY <3>1, <3>2, <3>3
    <3> QED BY <3>4 DEF g
  <2> QED BY <1>1, <2>2 DEF MediaFacts, M!Fact
<1> QED BY <1>2, <1>3 DEF MediaChanges, MediaFacts

\* What is of one process is a fact, or a change.
LEMMA MediaOfAny ==
    ASSUME NEW owner
    PROVE  /\ MediaFacts(owner) \subseteq M!Fact
           /\ MediaChanges(owner) \subseteq M!Fact \cup {M!Invalidated}
           /\ \A held \in Seq(MediaChanges(owner)) : held \in Seq(M!Fact \cup {M!Invalidated})
<1>1. /\ MediaFacts(owner) \subseteq M!Fact
      /\ MediaChanges(owner) \subseteq M!Fact \cup {M!Invalidated}
  BY DEF MediaFacts, MediaChanges
<1> QED BY <1>1

\* What each operation makes of one of a player's interfaces.
LEMMA PlayerOperations ==
    ASSUME NEW owner, NEW o, PlayerReadBy(o, owner), NEW f \in MediaFacts(owner),
           NEW c \in MediaChanges(owner)
    PROVE  /\ PlayerReadBy(AdoptAll(o, f), owner) /\ PlayerReadBy(AbortRead(o), owner)
           /\ AdoptAll(o, f).refresh = o.refresh /\ AbortRead(o).refresh = o.refresh
           /\ ~AdoptAll(o, f).reading /\ ~AbortRead(o).reading
           /\ PlayerReadBy(ApplyChange(o, c), owner)
           /\ ApplyChange(o, c).reading = o.reading /\ ApplyChange(o, c).refresh = o.refresh
           /\ (o.reading => ApplyChange(o, c).fact = o.fact)
<1>1. /\ o \in M!Properties /\ o.fact \in MediaFacts(owner) /\ o.reading \in BOOLEAN
      /\ o.held \in Seq(MediaChanges(owner)) /\ (o.held # <<>> => o.reading)
  BY DEF PlayerReadBy, M!Properties
<1>2. \A g \in MediaFacts(owner) : /\ AfterHeld(g, o.held) \in MediaFacts(owner)
                                   /\ AfterHeld(g, o.held) \in M!Fact
  <2>1. \A x \in MediaFacts(owner), y \in MediaChanges(owner) :
            Merged(x, y) \in MediaFacts(owner)
    BY MediaMerged
  <2> QED BY <1>1, <2>1, AfterHeldType, MediaOfAny
<1>3. /\ <<>> \in Seq(MediaChanges(owner)) /\ <<>> \in Seq(M!Fact \cup {M!Invalidated})
      /\ Append(o.held, c) \in Seq(MediaChanges(owner))
      /\ Append(o.held, c) \in Seq(M!Fact \cup {M!Invalidated})
  BY <1>1, AppendProperties, MediaOfAny
<1>4. ASSUME NEW g \in MediaFacts(owner)
      PROVE  /\ PlayerReadBy(Replayed(o, g), owner) /\ Replayed(o, g).refresh = o.refresh
             /\ ~Replayed(o, g).reading
  <2>1. PICK r : r = AfterHeld(g, o.held)
    OBVIOUS
  <2>2. r \in MediaFacts(owner) /\ r \in M!Fact
    BY <1>2, <1>4, <2>1
  <2>3. Replayed(o, g) = [o EXCEPT !.fact = r, !.held = <<>>, !.reading = FALSE]
    BY <2>1 DEF Replayed
  <2> QED BY <1>1, <1>3, <2>2, <2>3 DEF PlayerReadBy, M!Properties
<1>5. CASE o.reading
  <2> DEFINE p == [o EXCEPT !.held = Append(o.held, c)]
  <2>1. ApplyChange(o, c) = p
    BY <1>5, Zenon DEF ApplyChange
  <2>2. p \in M!Properties /\ p.reading = o.reading /\ p.refresh = o.refresh /\ p.fact = o.fact
        /\ p.held = Append(o.held, c)
    BY <1>1, <1>3 DEF M!Properties
  <2> HIDE DEF p
  <2>3. PlayerReadBy(p, owner)
    BY <1>1, <1>3, <1>5, <2>2 DEF PlayerReadBy
  <2> QED BY <1>1, <1>4, <2>1, <2>2, <2>3 DEF AdoptAll, AbortRead
<1>6. CASE ~o.reading
  <2> DEFINE p == [o EXCEPT !.fact = Merged(o.fact, c)]
  <2>1. ApplyChange(o, c) = p
    BY <1>6, Zenon DEF ApplyChange
  <2>2. Merged(o.fact, c) \in MediaFacts(owner) /\ Merged(o.fact, c) \in M!Fact
    BY <1>1, MediaMerged, MediaOfAny
  <2>3. p \in M!Properties /\ p.reading = o.reading /\ p.refresh = o.refresh
        /\ p.fact = Merged(o.fact, c) /\ p.held = o.held
    BY <1>1, <2>2 DEF M!Properties
  <2> HIDE DEF p
  <2>4. PlayerReadBy(p, owner)
    BY <1>1, <2>2, <2>3 DEF PlayerReadBy
  <2> QED BY <1>1, <1>4, <1>6, <2>1, <2>3, <2>4 DEF AdoptAll, AbortRead
<1> QED BY <1>1, <1>5, <1>6

\* A read that begins, and one more that is asked for.
Begun(o) == BeginRead([o EXCEPT !.refresh = FALSE])
Again(o) == [o EXCEPT !.refresh = TRUE]

LEMMA PlayerBegins ==
    ASSUME NEW owner, NEW o, PlayerReadBy(o, owner)
    PROVE  /\ PlayerReadBy(Begun(o), owner) /\ Begun(o).reading = TRUE
           /\ Begun(o).refresh = FALSE /\ Begun(o).fact = o.fact
           /\ PlayerReadBy(Again(o), owner) /\ Again(o).reading = o.reading
           /\ Again(o).fact = o.fact
<1>1. /\ o \in M!Properties /\ o.fact \in MediaFacts(owner)
      /\ o.held \in Seq(MediaChanges(owner)) /\ (o.held # <<>> => o.reading)
  BY DEF PlayerReadBy
<1> DEFINE b == Begun(o)
           r == Again(o)
<1>2. b = [o EXCEPT !.refresh = FALSE, !.reading = TRUE]
  BY <1>1 DEF Begun, BeginRead, M!Properties
<1>3. b \in M!Properties /\ b.reading = TRUE /\ b.refresh = FALSE /\ b.fact = o.fact
      /\ b.held = o.held
  BY <1>1, <1>2 DEF M!Properties
<1>4. r \in M!Properties /\ r.reading = o.reading /\ r.fact = o.fact /\ r.held = o.held
  BY <1>1 DEF M!Properties, Again
<1> HIDE DEF b, r
<1>5. PlayerReadBy(b, owner) /\ PlayerReadBy(r, owner)
  BY <1>1, <1>3, <1>4 DEF PlayerReadBy
<1> QED BY <1>3, <1>4, <1>5 DEF b, r

LEMMA NoPlayerIs ==
    /\ M!Unknown \in M!Fact /\ M!Unknown.owner = 0
    /\ PlayerSound(M!NoPlayer) /\ M!NoPlayer.owner = 0 /\ M!NoPlayer.serial = 0
    /\ \A interface \in M!Interface : M!NoPlayer.read[interface] = M!Unread
    /\ ~M!Unread.reading /\ ~M!Unread.refresh /\ M!Unread.fact = M!Unknown
    /\ \A owner : PlayerReadBy(M!Unread, owner)
<1>1. M!Unknown \in M!Fact /\ M!Unknown.owner = 0
  BY DEF M!Unknown, M!Fact
<1>2. \A owner : <<>> \in Seq(MediaChanges(owner)) /\ <<>> \in Seq(M!Fact \cup {M!Invalidated})
  OBVIOUS
<1>3. /\ M!Unread \in M!Properties /\ M!Unread.reading = FALSE /\ M!Unread.refresh = FALSE
      /\ M!Unread.fact = M!Unknown /\ M!Unread.held = <<>>
  BY <1>1, <1>2 DEF M!Unread, M!Properties
<1>4. \A owner : PlayerReadBy(M!Unread, owner)
  BY <1>1, <1>2, <1>3 DEF PlayerReadBy, MediaFacts
<1>5. PICK reads : reads = [interface \in M!Interface |-> M!Unread]
  OBVIOUS
<1>6. reads \in [M!Interface -> M!Properties]
      /\ \A interface \in M!Interface : reads[interface] = M!Unread
  BY <1>3, <1>5
<1>7. M!NoPlayer = [owner |-> 0, serial |-> 0, activity |-> 0, read |-> reads]
  BY <1>5 DEF M!NoPlayer
<1>8. M!NoPlayer \in M!Player /\ M!NoPlayer.owner = 0 /\ M!NoPlayer.serial = 0
      /\ M!NoPlayer.read = reads
  BY <1>6, <1>7 DEF M!Player
<1> QED BY <1>1, <1>3, <1>4, <1>6, <1>8 DEF PlayerSound

\* A read under this serial is of the player that has it.
PlayerOf(m, name, serial, owner) ==
    /\ serial \in 0..m.serial
    /\ serial = m.players[name].serial /\ m.players[name].owner # 0
       => owner \in {0, m.players[name].owner}

MediaCallOf(m, c) ==
    /\ c.what = "read" => c.owner # 0 /\ PlayerOf(m, c.name, c.serial, c.owner)
    /\ c.what \in {"names", "owner"} => c.generation <= m.generation

MediaSound(m) ==
    /\ m \in MediaService
    /\ \A name \in M!Names :
           PlayerSound(m.players[name]) /\ m.players[name].serial <= m.serial
    /\ \A i \in 1..Len(m.calls) : MediaCallOf(m, m.calls[i])

\* What is asked, or answered, about who holds a name.
About(x, g, name) ==
    /\ x.what \in {"names", "owner"} /\ x.generation = g
    /\ x.what = "owner" => x.name = name
NoneAbout(s, g, name) == \A i \in 1..Len(s) : ~About(s[i], g, name)
OneAbout(s, g, name) ==
    \A i \in 1..Len(s), j \in 1..Len(s) :
        About(s[i], g, name) /\ About(s[j], g, name) => i = j

\* Nothing of c is about who holds a name but what s held of it.
AsksNoMore(s, c) ==
    \A g, name : /\ NoneAbout(s, g, name) => NoneAbout(c, g, name)
                 /\ OneAbout(s, g, name) => OneAbout(c, g, name)

\* A read, asked or answered, of the player that has this serial.
ReadOf(x, name, interface, serial, g) ==
    /\ x.what = "read" /\ x.name = name /\ x.interface = interface
    /\ x.serial = serial /\ x.generation = g
HasRead(c, name, interface, serial, g) ==
    \E i \in 1..Len(c) : ReadOf(c[i], name, interface, serial, g)
ReadsAsMuch(c, d) ==
    \A name, interface, serial, g :
        HasRead(c, name, interface, serial, g) => HasRead(d, name, interface, serial, g)

Waiting(m, name, interface) == m.players[name].read[interface].reading
Coming(m, c, name, interface) ==
    HasRead(c, name, interface, m.players[name].serial, m.generation)

\* Who waits for a read has it asked for, or answered in s.
MediaWaits(m, s) ==
    \A name \in M!Names, interface \in M!Interface :
        Waiting(m, name, interface) =>
            /\ m.players[name].owner # 0
            /\ Coming(m, m.calls, name, interface) \/ Coming(m, s, name, interface)
KeepsWaiting(m, n) == \A s : MediaWaits(m, s) => MediaWaits(n, s)

\* Who waits in n did in m for the same read, or has asked for it since.
WaitsToo(m, n, name, interface) ==
    Waiting(n, name, interface) =>
        \/ /\ Waiting(m, name, interface)
           /\ n.players[name].owner = m.players[name].owner
           /\ n.players[name].serial = m.players[name].serial
        \/ n.players[name].owner # 0 /\ Coming(n, n.calls, name, interface)

WaitsAlike(m, n) ==
    /\ n.generation = m.generation /\ ReadsAsMuch(m.calls, n.calls)
    /\ \A name \in M!Names, interface \in M!Interface : WaitsToo(m, n, name, interface)

LEMMA MediaWaitsOn ==
    ASSUME NEW m, NEW n, WaitsAlike(m, n)
    PROVE  KeepsWaiting(m, n)
<1>1. ASSUME NEW s, MediaWaits(m, s), NEW name \in M!Names, NEW interface \in M!Interface,
             Waiting(n, name, interface)
      PROVE  /\ n.players[name].owner # 0
             /\ Coming(n, n.calls, name, interface) \/ Coming(n, s, name, interface)
  <2>1. WaitsToo(m, n, name, interface) /\ n.generation = m.generation
        /\ ReadsAsMuch(m.calls, n.calls)
    BY DEF WaitsAlike
  <2>2. CASE n.players[name].owner # 0 /\ Coming(n, n.calls, name, interface)
    BY <2>2
  <2>3. CASE /\ Waiting(m, name, interface)
             /\ n.players[name].owner = m.players[name].owner
             /\ n.players[name].serial = m.players[name].serial
    <3>1. /\ m.players[name].owner # 0
          /\ Coming(m, m.calls, name, interface) \/ Coming(m, s, name, interface)
      BY <1>1, <2>3 DEF MediaWaits
    <3> QED BY <2>1, <2>3, <3>1 DEF Coming, ReadsAsMuch
  <2> QED BY <1>1, <2>1, <2>2, <2>3 DEF WaitsToo
<1>2. ASSUME NEW s, MediaWaits(m, s)
      PROVE  MediaWaits(n, s)
  BY <1>1, <1>2 DEF MediaWaits
<1> QED BY <1>2 DEF KeepsWaiting

\* The same players, and no fewer reads asked for.
SameReads(m, n) ==
    n.generation = m.generation /\ n.players = m.players /\ ReadsAsMuch(m.calls, n.calls)

LEMMA MediaSameWaits ==
    ASSUME NEW m, NEW n, SameReads(m, n)
    PROVE  ReadsAsMuch(m.calls, n.calls) /\ KeepsWaiting(m, n)
<1>1. \A name \in M!Names, interface \in M!Interface : WaitsToo(m, n, name, interface)
  BY DEF WaitsToo, Waiting, SameReads
<1>2. WaitsAlike(m, n)
  BY <1>1 DEF SameReads, WaitsAlike
<1> QED BY <1>2, MediaWaitsOn DEF SameReads

LEMMA WaitsMeanwhile ==
    ASSUME NEW m, NEW n, NEW p, KeepsWaiting(m, n), KeepsWaiting(n, p)
    PROVE  KeepsWaiting(m, p)
  BY DEF KeepsWaiting

\* A queue with more in it holds no fewer answers.
LEMMA MoreWaits ==
    ASSUME NEW m, NEW s, NEW q, ReadsAsMuch(s, q), MediaWaits(m, s)
    PROVE  MediaWaits(m, q)
  BY DEF MediaWaits, Coming, ReadsAsMuch

\* m became n, and every name is held by whom it was.
MediaKeeps(m, n) ==
    /\ MediaSound(n) /\ n.generation = m.generation /\ n.revised = m.revised
    /\ n.serial = m.serial /\ n.subscribed = m.subscribed
    /\ \A name \in M!Names : /\ n.players[name].owner = m.players[name].owner
                             /\ n.players[name].serial = m.players[name].serial
    /\ AsksNoMore(m.calls, n.calls)
    /\ ReadsAsMuch(m.calls, n.calls) /\ KeepsWaiting(m, n)

LEMMA MediaSoundFields ==
    ASSUME NEW m, MediaSound(m)
    PROVE  /\ m \in MediaService /\ m.subscribed \in BOOLEAN /\ m.generation \in Nat
           /\ m.serial \in Nat /\ m.activity \in Nat /\ m.revised \in SUBSET M!Names
           /\ m.players \in [M!Names -> M!Player] /\ m.shown \in MediaShown
           /\ m.calls \in Seq(MediaCall)
           /\ \A name \in M!Names :
                  /\ m.players[name] \in M!Player /\ m.players[name].owner \in M!Owner \cup {0}
                  /\ m.players[name].serial \in Nat /\ m.players[name].activity \in Nat
                  /\ m.players[name].serial <= m.serial
                  /\ m.players[name].read \in [M!Interface -> M!Properties]
                  /\ PlayerSound(m.players[name])
           /\ \A i \in 1..Len(m.calls) : MediaCallOf(m, m.calls[i])
  BY MediaServiceFields DEF MediaSound

LEMMA MediaKeepsOn ==
    ASSUME NEW m, NEW n, NEW p, MediaKeeps(m, n), MediaKeeps(n, p)
    PROVE  MediaKeeps(m, p)
  BY DEF MediaKeeps, AsksNoMore, ReadsAsMuch, KeepsWaiting

LEMMA MediaKeepsSame ==
    ASSUME NEW m, MediaSound(m)
    PROVE  MediaKeeps(m, m)
  BY DEF MediaKeeps, AsksNoMore, ReadsAsMuch, KeepsWaiting

\* Another player under a name.
WithPlayer(m, name, p) == [m EXCEPT !.players[name] = p]

LEMMA WithPlayerIs ==
    ASSUME NEW m \in MediaService, NEW name \in M!Names, NEW p \in M!Player
    PROVE  /\ MediaIs(WithPlayer(m, name, p), m, m.serial, m.activity, m.revised,
                      [m.players EXCEPT ![name] = p], m.shown, m.calls)
           /\ WithPlayer(m, name, p).players[name] = p
           /\ \A other \in M!Names :
                  other = name \/ WithPlayer(m, name, p).players[other] = m.players[other]
<1> DEFINE players == [m.players EXCEPT ![name] = p]
<1>1. m.players \in [M!Names -> M!Player]
  BY MediaServiceFields
<1>2. players \in [M!Names -> M!Player] /\ players[name] = p
      /\ \A other \in M!Names : other = name \/ players[other] = m.players[other]
  BY <1>1
<1>3. WithPlayer(m, name, p) = [m EXCEPT !.players = players]
  BY DEF WithPlayer
<1> HIDE DEF players
<1>4. MediaIs(WithPlayer(m, name, p), m, m.serial, m.activity, m.revised, players, m.shown,
              m.calls)
  BY <1>2, <1>3 DEF MediaIs, MediaService
<1>5. WithPlayer(m, name, p).players = players
  BY <1>4 DEF MediaIs
<1> QED BY <1>2, <1>4, <1>5 DEF players

\* p waits for no read but those m's player of that name does, and those m has asked for.
WaitsAs(m, name, p) ==
    \A i \in M!Interface :
        p.read[i].reading =>
            \/ Waiting(m, name, i)
            \/ p.owner # 0 /\ HasRead(m.calls, name, i, p.serial, m.generation)

\* A player that is told, or read, is still the same.
LEMMA SamePlayerKeeps ==
    ASSUME NEW m, MediaSound(m), NEW name \in M!Names, NEW p, PlayerSound(p),
           p.owner = m.players[name].owner, p.serial = m.players[name].serial,
           WaitsAs(m, name, p)
    PROVE  /\ MediaKeeps(m, WithPlayer(m, name, p))
           /\ WithPlayer(m, name, p).players[name] = p
           /\ \A other \in M!Names :
                  other = name \/ WithPlayer(m, name, p).players[other] = m.players[other]
           /\ WithPlayer(m, name, p).shown = m.shown
           /\ WithPlayer(m, name, p).activity = m.activity
<1> DEFINE n == WithPlayer(m, name, p)
<1>1. p \in M!Player /\ m \in MediaService
  BY MediaSoundFields DEF PlayerSound
<1>2. /\ MediaIs(n, m, m.serial, m.activity, m.revised, [m.players EXCEPT ![name] = p],
                 m.shown, m.calls)
      /\ n.players[name] = p
      /\ \A other \in M!Names : other = name \/ n.players[other] = m.players[other]
  BY <1>1, WithPlayerIs
<1> HIDE DEF n
<1>3. /\ n \in MediaService /\ n.generation = m.generation /\ n.serial = m.serial
      /\ n.calls = m.calls /\ n.revised = m.revised /\ n.subscribed = m.subscribed
      /\ n.shown = m.shown /\ n.activity = m.activity
  BY <1>2 DEF MediaIs
<1>4. \A other \in M!Names : /\ n.players[other].owner = m.players[other].owner
                             /\ n.players[other].serial = m.players[other].serial
  BY <1>2
<1>5. \A other \in M!Names : PlayerSound(n.players[other])
                             /\ n.players[other].serial <= n.serial
  BY <1>2, <1>3, <1>4, MediaSoundFields
<1>6. \A i \in 1..Len(n.calls) : MediaCallOf(n, n.calls[i])
  <2> SUFFICES ASSUME NEW i \in 1..Len(m.calls)
               PROVE  MediaCallOf(n, m.calls[i])
    BY <1>3
  <2>1. m.calls[i] \in MediaCall /\ MediaCallOf(m, m.calls[i])
    BY MediaSoundFields, ElementOfSeq
  <2>2. m.calls[i].what = "read" => m.calls[i].name \in M!Names
    BY <2>1 DEF MediaCall
  <2> QED BY <1>3, <1>4, <2>1, <2>2 DEF MediaCallOf, PlayerOf
<1>7. MediaSound(n)
  BY <1>3, <1>5, <1>6 DEF MediaSound
<1>8. ReadsAsMuch(m.calls, n.calls) /\ KeepsWaiting(m, n)
  <2>1. ReadsAsMuch(m.calls, n.calls)
    BY <1>3 DEF ReadsAsMuch
  <2>2. ASSUME NEW other \in M!Names, NEW interface \in M!Interface
        PROVE  WaitsToo(m, n, other, interface)
    <3>1. CASE other = name
      BY <1>2, <1>3, <1>4, <3>1 DEF WaitsAs, WaitsToo, Waiting, Coming
    <3>2. CASE other # name
      BY <1>2, <3>2 DEF WaitsToo, Waiting
    <3> QED BY <3>1, <3>2
  <2>3. WaitsAlike(m, n)
    BY <1>3, <2>1, <2>2 DEF WaitsAlike
  <2> QED BY <2>1, <2>3, MediaWaitsOn
<1> QED BY <1>2, <1>3, <1>4, <1>7, <1>8 DEF MediaKeeps, AsksNoMore, n

\* A call that is about no name's holder.
LEMMA AppendAsksNoMore ==
    ASSUME NEW S, NEW s \in Seq(S), NEW e \in S, e.what \notin {"names", "owner"}
    PROVE  AsksNoMore(s, Append(s, e))
<1>1. PICK q : q = Append(s, e) /\ Longer(q, s, e)
  BY AppendIs
<1>2. PICK n \in Nat : n = Len(s)
  BY LenProperties
<1>3. Len(q) = n + 1 /\ q[n + 1] = e /\ \A i \in 1..n : q[i] = s[i]
  BY <1>1, <1>2 DEF Longer
<1>4. \A g, name : ~About(e, g, name)
  BY DEF About
<1>5. \A i \in 1..n + 1 : i = n + 1 \/ i \in 1..n
  OBVIOUS
<1> SUFFICES ASSUME NEW g, NEW name
             PROVE  /\ NoneAbout(s, g, name) => NoneAbout(q, g, name)
                    /\ OneAbout(s, g, name) => OneAbout(q, g, name)
  BY <1>1 DEF AsksNoMore
<1>6. NoneAbout(s, g, name) => NoneAbout(q, g, name)
  BY <1>2, <1>3, <1>4, <1>5 DEF NoneAbout
<1>7. ASSUME OneAbout(s, g, name), NEW i \in 1..Len(q), NEW j \in 1..Len(q),
             About(q[i], g, name), About(q[j], g, name)
      PROVE  i = j
  <2>1. i \in 1..n /\ j \in 1..n
    BY <1>3, <1>4, <1>5, <1>7
  <2>2. About(s[i], g, name) /\ About(s[j], g, name)
    BY <1>3, <1>7, <2>1
  <2> QED BY <1>2, <1>7, <2>1, <2>2 DEF OneAbout
<1> QED BY <1>6, <1>7 DEF OneAbout

LEMMA AppendReads ==
    ASSUME NEW S, NEW s \in Seq(S), NEW e \in S
    PROVE  /\ ReadsAsMuch(s, Append(s, e))
           /\ \A name, interface, serial, g :
                  ReadOf(e, name, interface, serial, g)
                  => HasRead(Append(s, e), name, interface, serial, g)
<1>1. PICK q : q = Append(s, e) /\ Longer(q, s, e)
  BY AppendIs
<1>2. PICK n \in Nat : n = Len(s)
  BY LenProperties
<1>3. Len(q) = n + 1 /\ q[n + 1] = e /\ \A i \in 1..n : q[i] = s[i]
  BY <1>1, <1>2 DEF Longer
<1>4. n + 1 \in 1..n + 1 /\ \A i \in 1..n : i \in 1..n + 1
  OBVIOUS
<1> QED BY <1>1, <1>2, <1>3, <1>4 DEF ReadsAsMuch, HasRead

LEMMA MediaAskKeeps ==
    ASSUME NEW m, MediaSound(m), NEW c \in MediaCall, MediaCallOf(m, c)
    PROVE  /\ MediaSound(M!Ask(m, c))
           /\ MediaIs(M!Ask(m, c), m, m.serial, m.activity, m.revised, m.players, m.shown,
                      Append(m.calls, c))
           /\ KeepsWaiting(m, M!Ask(m, c))
           /\ c.what \notin {"names", "owner"} => MediaKeeps(m, M!Ask(m, c))
<1> DEFINE n == M!Ask(m, c)
<1>1. m \in MediaService /\ m.calls \in Seq(MediaCall)
  BY MediaSoundFields
<1>2. PICK q : q = Append(m.calls, c) /\ q \in Seq(MediaCall) /\ Longer(q, m.calls, c)
  BY <1>1, AppendIs
<1>3. n = [m EXCEPT !.calls = q]
  BY <1>2 DEF M!Ask
<1> HIDE DEF n
<1>4. MediaIs(n, m, m.serial, m.activity, m.revised, m.players, m.shown, q)
  BY <1>1, <1>2, <1>3 DEF MediaIs, MediaService
<1>5. /\ n \in MediaService /\ n.generation = m.generation /\ n.serial = m.serial
      /\ n.calls = q /\ n.players = m.players /\ n.revised = m.revised
      /\ n.subscribed = m.subscribed
  BY <1>4 DEF MediaIs
<1>6. \A x : MediaCallOf(m, x) => MediaCallOf(n, x)
  BY <1>5 DEF MediaCallOf, PlayerOf
<1>7. \A i \in 1..Len(q) : MediaCallOf(n, q[i])
  <2>1. PICK k \in Nat : k = Len(m.calls)
    BY <1>1, LenProperties
  <2>2. Len(q) = k + 1 /\ q[k + 1] = c /\ \A i \in 1..k : q[i] = m.calls[i]
    BY <1>2, <2>1 DEF Longer
  <2>3. \A i \in 1..k + 1 : i = k + 1 \/ i \in 1..k
    OBVIOUS
  <2>4. \A i \in 1..k : MediaCallOf(m, m.calls[i])
    BY <2>1, MediaSoundFields
  <2> QED BY <1>6, <2>2, <2>3, <2>4
<1>8. MediaSound(n)
  BY <1>5, <1>7 DEF MediaSound
<1>9. ReadsAsMuch(m.calls, n.calls) /\ KeepsWaiting(m, n)
  <2>1. ReadsAsMuch(m.calls, n.calls)
    BY <1>1, <1>2, <1>5, AppendReads
  <2>2. SameReads(m, n)
    BY <1>5, <2>1 DEF SameReads
  <2> QED BY <2>2, MediaSameWaits
<1>10. ASSUME c.what \notin {"names", "owner"}
      PROVE  MediaKeeps(m, n)
  <2>1. AsksNoMore(m.calls, n.calls)
    BY <1>1, <1>2, <1>5, <1>10, AppendAsksNoMore
  <2> QED BY <1>5, <1>8, <1>9, <2>1 DEF MediaKeeps
<1> QED BY <1>2, <1>4, <1>8, <1>10, <1>9 DEF n

\* The player to draw: the most active, of these the first.
Before(m, name, other) ==
    \/ m.players[other].activity < m.players[name].activity
    \/ m.players[other].activity = m.players[name].activity /\ name < other

Leads(m, name) ==
    /\ name \in M!Names /\ m.players[name].owner # 0
    /\ \A other \in M!Names :
           other # name /\ m.players[other].owner # 0 => Before(m, name, other)

Fresh(p) ==
    \A interface \in M!Interface :
        p.read[interface].reading /\ p.read[interface].fact = M!Unknown

Drawn(m) ==
    /\ m.shown.player.owner \in {0, m.shown.owner}
    /\ m.shown.identity.owner \in {0, m.shown.owner}
    /\ (\A name \in M!Names : m.players[name].owner = 0) => m.shown.owner = 0
    /\ \A name \in M!Names :
           Leads(m, name) => \/ m.shown.owner = m.players[name].owner
                             \/ Fresh(m.players[name])

\* Another read is asked for only while there is one.
Renewed(m, name, interface) ==
    m.players[name].read[interface].refresh => m.players[name].read[interface].reading
AllRenewed(m) ==
    \A name \in M!Names, interface \in M!Interface : Renewed(m, name, interface)

LEMMA LeaderIsOne ==
    ASSUME NEW m, MediaSound(m), NEW a, NEW b, Leads(m, a), Leads(m, b)
    PROVE  a = b
<1>1. /\ a \in Nat /\ b \in Nat /\ a \in M!Names /\ b \in M!Names
      /\ m.players[a].activity \in Nat /\ m.players[b].activity \in Nat
  BY MediaSoundFields DEF Leads, M!Names
<1> QED BY <1>1 DEF Leads, Before

\* Of the names up to one, if any is held there is one to draw.
LeadsUpTo(m, name, k) ==
    /\ name \in 1..k /\ m.players[name].owner # 0
    /\ \A other \in 1..k :
           other # name /\ m.players[other].owner # 0 => Before(m, name, other)

LEMMA LeaderExists ==
    ASSUME NEW m, MediaSound(m), NEW held \in M!Names, m.players[held].owner # 0
    PROVE  \E name : Leads(m, name)
<1> DEFINE Bad == {k \in 0..LastName :
                       /\ \E name \in 1..k : m.players[name].owner # 0
                       /\ ~\E name : LeadsUpTo(m, name, k)}
<1>1. Bad = {}
  <2> SUFFICES ASSUME Bad # {}
               PROVE  FALSE
    OBVIOUS
  <2>1. PICK k \in Bad : \A j \in Bad : k <= j
    <3>1. Bad \subseteq Nat
      BY ReadingsAssumption
    <3> HIDE DEF Bad
    <3> QED BY <3>1, Least
  <2>2. k \in 0..LastName /\ (\E name \in 1..k : m.players[name].owner # 0)
        /\ ~\E name : LeadsUpTo(m, name, k)
    OBVIOUS
  <2>3. LastName \in Nat /\ k \in Nat /\ k # 0
    BY <2>2, ReadingsAssumption
  <2>4. PICK j : j = k - 1
    OBVIOUS
  <2>5. j \in 0..LastName /\ ~(k <= j) /\ j \in Nat
    BY <2>2, <2>3, <2>4
  <2>6. j \notin Bad
    <3> HIDE DEF Bad
    <3> QED BY <2>1, <2>5
  <2>7. (\E name \in 1..j : m.players[name].owner # 0) => \E name : LeadsUpTo(m, name, j)
    BY <2>5, <2>6
  <2>8. \A i \in 1..k : (i = k \/ i \in 1..j) /\ i \in M!Names
    BY <2>2, <2>3, <2>4 DEF M!Names
  <2>9. \A i \in 1..j : i \in 1..k /\ i # k /\ i < k
    BY <2>3, <2>4, <2>5
  <2>10. \A i \in 1..k : m.players[i].activity \in Nat
    BY <2>8, MediaSoundFields
  <2>11. k \in 1..k
    BY <2>3
  <2>12. CASE \A name \in 1..j : m.players[name].owner = 0
    <3>1. LeadsUpTo(m, k, k)
      BY <2>2, <2>8, <2>11, <2>12 DEF LeadsUpTo
    <3> QED BY <2>2, <3>1
  <2>13. CASE \E name \in 1..j : m.players[name].owner # 0
    <3>1. PICK l : LeadsUpTo(m, l, j)
      BY <2>7, <2>13
    <3>2. l \in 1..j /\ l \in 1..k /\ l < k /\ l # k
      BY <2>9, <3>1 DEF LeadsUpTo
    <3>3. CASE m.players[k].owner = 0 \/ Before(m, l, k)
      <4>1. LeadsUpTo(m, l, k)
        BY <2>8, <3>1, <3>2, <3>3 DEF LeadsUpTo
      <4> QED BY <2>2, <4>1
    <3>4. CASE m.players[k].owner # 0 /\ ~Before(m, l, k)
      <4>1. m.players[l].activity < m.players[k].activity
        BY <2>10, <2>11, <3>2, <3>4 DEF Before
      <4>2. ASSUME NEW i \in 1..k, i # k, m.players[i].owner # 0
            PROVE  Before(m, k, i)
        <5>1. i \in 1..j
          BY <2>8, <4>2
        <5>2. i = l \/ Before(m, l, i)
          BY <3>1, <4>2, <5>1 DEF LeadsUpTo
        <5>3. m.players[i].activity < m.players[k].activity
          BY <2>10, <2>11, <3>2, <4>1, <4>2, <5>2 DEF Before
        <5> QED BY <5>3 DEF Before
      <4>3. LeadsUpTo(m, k, k)
        BY <2>11, <3>4, <4>2 DEF LeadsUpTo
      <4> QED BY <2>2, <4>3
    <3> QED BY <3>3, <3>4
  <2> QED BY <2>12, <2>13
<1>2. LastName \in 0..LastName /\ LastName \notin Bad
  BY <1>1, ReadingsAssumption
<1>3. \E name : LeadsUpTo(m, name, LastName)
  BY <1>2 DEF M!Names
<1> QED BY <1>3 DEF LeadsUpTo, Leads, M!Names

LEMMA FollowedLeads ==
    ASSUME NEW m, MediaSound(m), M!Present(m) # {}
    PROVE  /\ M!Followed(m) \in M!Names /\ Leads(m, M!Followed(m))
<1>1. PICK held \in M!Names : m.players[held].owner # 0
  BY DEF M!Present
<1>2. PICK name : Leads(m, name)
  BY <1>1, LeaderExists
<1>3. \A other : (/\ other \in M!Present(m)
                  /\ \A third \in M!Present(m) \ {other} :
                        \/ m.players[third].activity < m.players[other].activity
                        \/ m.players[third].activity = m.players[other].activity
                           /\ other < third)
                 <=> Leads(m, other)
  BY DEF Leads, Before, M!Present
<1>4. Leads(m, M!Followed(m))
  BY <1>2, <1>3, Zenon DEF M!Followed
<1> QED BY <1>4 DEF Leads

\* What is published is drawn.
LEMMA MediaPublishDraws ==
    ASSUME NEW m, MediaSound(m)
    PROVE  /\ MediaKeeps(m, M!Publish(m)) /\ M!Publish(m).players = m.players
           /\ Drawn(M!Publish(m)) /\ M!Publish(m).activity = m.activity
<1> DEFINE n == M!Publish(m)
           shown == IF M!Present(m) = {} THEN M!NoReading
                    ELSE [owner |-> m.players[M!Followed(m)].owner,
                          player |-> m.players[M!Followed(m)].read["player"].fact,
                          identity |-> m.players[M!Followed(m)].read["identity"].fact]
<1>1. m \in MediaService
  BY MediaSoundFields
<1>2. n = [m EXCEPT !.shown = shown]
  BY DEF M!Publish
<1>3. M!NoReading \in MediaShown /\ M!NoReading.owner = 0 /\ M!NoReading.player.owner = 0
      /\ M!NoReading.identity.owner = 0
  BY NoPlayerIs DEF M!NoReading, MediaShown
<1>4. shown \in MediaShown /\ shown.player.owner \in {0, shown.owner}
      /\ shown.identity.owner \in {0, shown.owner}
      /\ (M!Present(m) # {} => shown.owner = m.players[M!Followed(m)].owner)
      /\ (M!Present(m) = {} => shown.owner = 0)
  <2>1. CASE M!Present(m) = {}
    BY <1>3, <2>1
  <2>2. CASE M!Present(m) # {}
    <3>1. M!Followed(m) \in M!Names
      BY <2>2, FollowedLeads
    <3>2. PICK p : p = m.players[M!Followed(m)]
      OBVIOUS
    <3>3. PlayerSound(p) /\ p.owner \in M!Owner \cup {0}
      BY <3>1, <3>2, MediaSoundFields
    <3>4. "player" \in M!Interface /\ "identity" \in M!Interface
      BY DEF M!Interface
    <3>5. p.read["player"].fact \in MediaFacts(p.owner)
          /\ p.read["identity"].fact \in MediaFacts(p.owner)
      BY <3>3, <3>4 DEF PlayerSound, PlayerReadBy
    <3>6. shown = [owner |-> p.owner, player |-> p.read["player"].fact,
                   identity |-> p.read["identity"].fact]
      BY <2>2, <3>2
    <3> HIDE DEF shown
    <3> QED BY <2>2, <3>2, <3>3, <3>5, <3>6 DEF MediaFacts, MediaShown
  <2> QED BY <2>1, <2>2
<1> HIDE DEF n, shown
<1>5. /\ n \in MediaService /\ n.generation = m.generation /\ n.serial = m.serial
      /\ n.calls = m.calls /\ n.players = m.players /\ n.revised = m.revised
      /\ n.subscribed = m.subscribed /\ n.shown = shown /\ n.activity = m.activity
  BY <1>1, <1>2, <1>4 DEF MediaService
<1>6. MediaSound(n)
  BY <1>5, MediaSoundFields DEF MediaSound, MediaCallOf, PlayerOf
<1>7. MediaKeeps(m, n)
  <2>1. ReadsAsMuch(m.calls, n.calls) /\ KeepsWaiting(m, n)
    <3>1. SameReads(m, n)
      BY <1>5 DEF SameReads, ReadsAsMuch
    <3> QED BY <3>1, MediaSameWaits
  <2> QED BY <1>5, <1>6, <2>1 DEF MediaKeeps, AsksNoMore
<1>8. \A name : Leads(n, name) <=> Leads(m, name)
  BY <1>5 DEF Leads, Before
<1>9. \A name \in M!Names : Leads(n, name) => shown.owner = n.players[name].owner
  <2> SUFFICES ASSUME NEW name \in M!Names, Leads(n, name)
               PROVE  shown.owner = n.players[name].owner
    OBVIOUS
  <2>1. Leads(m, name) /\ M!Present(m) # {}
    BY <1>8 DEF Leads, M!Present
  <2>2. Leads(m, M!Followed(m))
    BY <2>1, FollowedLeads
  <2>3. name = M!Followed(m)
    BY <2>1, <2>2, LeaderIsOne
  <2> QED BY <1>4, <1>5, <2>1, <2>3
<1>10. (\A name \in M!Names : n.players[name].owner = 0) => shown.owner = 0
  BY <1>4, <1>5 DEF M!Present
<1> QED BY <1>4, <1>5, <1>7, <1>9, <1>10 DEF Drawn, n

MediaMessage ==
    [what : {"names"}, generation : Nat, names : SUBSET M!Names]
    \cup [what : {"owner"}, generation : Nat, name : M!Names, owner : M!Owner \cup {0}]
    \cup [what : {"read"}, generation : Nat, name : M!Names, serial : Nat,
          interface : M!Interface, refused : BOOLEAN, fact : M!Fact]
    \cup [what : {"nameOwnerChanged"}, name : M!Names, owner : M!Owner \cup {0}]
    \cup [what : {"propertiesChanged"}, owner : M!Owner, interface : M!Interface,
          fact : M!Fact \cup {M!Invalidated}]
    \cup [what : {"disconnected"}]

MediaMessageOf(m, x) ==
    /\ x.what = "read" => x.name \in M!Names /\ PlayerOf(m, x.name, x.serial, x.fact.owner)
    /\ x.what \in {"names", "owner"} => x.generation <= m.generation
    /\ x.what = "propertiesChanged" => x.fact \in MediaChanges(x.owner)

LEMMA MediaKeepsMessages ==
    ASSUME NEW m, NEW n, MediaKeeps(m, n), NEW x, MediaMessageOf(m, x)
    PROVE  MediaMessageOf(n, x)
  BY DEF MediaKeeps, MediaMessageOf, PlayerOf

\* q is p, but for one of its interfaces.
ReadsAs(q, p, interface, o) ==
    /\ PlayerSound(q) /\ q.owner = p.owner /\ q.serial = p.serial
    /\ q.activity = p.activity /\ q.read[interface] = o
    /\ \A i \in M!Interface : i = interface \/ q.read[i] = p.read[i]

WithReadOf(p, interface, o) == [p EXCEPT !.read[interface] = o]

LEMMA PlayerWithRead ==
    ASSUME NEW p, PlayerSound(p), NEW interface \in M!Interface, NEW o,
           PlayerReadBy(o, p.owner)
    PROVE  ReadsAs(WithReadOf(p, interface, o), p, interface, o)
<1>1. PICK q : q = [p EXCEPT !.read[interface] = o]
  OBVIOUS
<1>2. p \in M!Player /\ p.read \in [M!Interface -> M!Properties] /\ o \in M!Properties
      /\ \A i \in M!Interface : PlayerReadBy(p.read[i], p.owner)
  BY DEF PlayerSound, PlayerReadBy, M!Player
<1>3. PICK reads : reads = [p.read EXCEPT ![interface] = o]
  OBVIOUS
<1>4. reads \in [M!Interface -> M!Properties] /\ reads[interface] = o
      /\ \A i \in M!Interface : i = interface \/ reads[i] = p.read[i]
  BY <1>2, <1>3
<1>5. q = [p EXCEPT !.read = reads]
  BY <1>3, <1>1
<1>6. q \in M!Player /\ q.owner = p.owner /\ q.serial = p.serial
      /\ q.activity = p.activity /\ q.read = reads
  BY <1>2, <1>4, <1>5 DEF M!Player
<1> QED BY <1>2, <1>4, <1>1, <1>6 DEF PlayerSound, ReadsAs, WithReadOf

\* A read of one interface was begun, or asked for once more.
Fetches(m, n, name, interface) ==
    /\ MediaKeeps(m, n) /\ n.shown = m.shown
    /\ \A other \in M!Names : other = name \/ n.players[other] = m.players[other]
    /\ n.players[name].activity = m.players[name].activity
    /\ \A i \in M!Interface :
           i = interface \/ n.players[name].read[i] = m.players[name].read[i]
    /\ n.players[name].read[interface].reading
    /\ n.players[name].read[interface].fact = m.players[name].read[interface].fact

LEMMA FetchPropertiesFetches ==
    ASSUME NEW m, MediaSound(m), NEW name \in M!Names, NEW interface \in M!Interface,
           m.players[name].owner # 0
    PROVE  Fetches(m, M!FetchProperties(m, name, interface), name, interface)
<1>1. PICK p, o : p = m.players[name] /\ o = p.read[interface]
  OBVIOUS
<1>2. PlayerSound(p) /\ PlayerReadBy(o, p.owner) /\ p.owner \in M!Owner \cup {0}
      /\ p.serial \in Nat /\ p.serial <= m.serial /\ m.generation \in Nat
  BY <1>1, MediaSoundFields DEF PlayerSound
<1>3. PICK owner : owner = p.owner
  OBVIOUS
<1>4. PlayerReadBy(o, owner) /\ o.fact \in MediaFacts(owner)
       /\ o.fact \in MediaChanges(owner)
  BY <1>2, <1>3 DEF PlayerReadBy, MediaChanges
<1>5. PICK n : n = M!FetchProperties(m, name, interface)
  OBVIOUS
<1>6. CASE o.reading
  <2>1. PICK r : r = Again(o)
    OBVIOUS
  <2>2. PlayerReadBy(r, p.owner) /\ r.reading = o.reading /\ r.fact = o.fact
    BY <1>3, <1>4, <2>1, PlayerBegins
  <2>3. PICK q : q = WithReadOf(p, interface, r)
    OBVIOUS
  <2>4. ReadsAs(q, p, interface, r)
    BY <1>2, <2>2, <2>3, PlayerWithRead
  <2>5. n = WithPlayer(m, name, q)
    <3>1. n = [m EXCEPT !.players[name].read[interface].refresh = TRUE]
      BY <1>1, <1>5, <1>6, Zenon DEF M!FetchProperties
    <3> QED BY <1>1, <2>1, <2>3, <3>1 DEF WithPlayer, WithReadOf, Again
  <2>6. /\ MediaKeeps(m, n) /\ n.players[name] = q /\ n.shown = m.shown
        /\ \A other \in M!Names : other = name \/ n.players[other] = m.players[other]
    <3>1. WaitsAs(m, name, q)
      BY <1>1, <2>2, <2>4 DEF WaitsAs, ReadsAs, Waiting
    <3> QED BY <1>1, <2>4, <2>5, <3>1, SamePlayerKeeps DEF ReadsAs
  <2> QED BY <1>1, <1>5, <1>6, <2>2, <2>4, <2>6 DEF Fetches, ReadsAs
<1>7. CASE ~o.reading
  <2>1. PICK r : r = Begun(o)
    OBVIOUS
  <2>2. PlayerReadBy(r, p.owner) /\ r.reading = TRUE /\ r.fact = o.fact
    BY <1>3, <1>4, <2>1, PlayerBegins
  <2>3. PICK q : q = WithReadOf(p, interface, r)
    OBVIOUS
  <2>4. ReadsAs(q, p, interface, r)
    BY <1>2, <2>2, <2>3, PlayerWithRead
  <2>5. PICK c : c = [what |-> "read", name |-> name, interface |-> interface,
                      owner |-> p.owner, serial |-> p.serial, generation |-> m.generation]
    OBVIOUS
  <2>6. c \in MediaCall /\ c.what = "read" /\ c.owner = p.owner /\ c.name = name
        /\ c.serial = p.serial /\ ReadOf(c, name, interface, p.serial, m.generation)
    BY <1>2, <2>5 DEF MediaCall, ReadOf
  <2>7. PICK k : k = M!Ask(m, c)
    OBVIOUS
  <2>8. MediaCallOf(m, c)
    BY <1>1, <1>2, <2>6 DEF MediaCallOf, PlayerOf
  <2>9. /\ MediaKeeps(m, k) /\ k.players = m.players /\ k.shown = m.shown
        /\ k.calls = Append(m.calls, c) /\ k.generation = m.generation
    BY <2>6, <2>7, <2>8, MediaAskKeeps DEF MediaIs
  <2>10. n = WithPlayer(k, name, q)
    <3>1. M!BeginRead([o EXCEPT !.refresh = FALSE]) = r
      BY <2>1, SameProperties DEF Begun
    <3>2. [m EXCEPT !.players[name].read[interface] =
                        M!BeginRead([@ EXCEPT !.refresh = FALSE])]
          = [m EXCEPT !.players[name].read[interface] = r]
      BY <1>1, <3>1
    <3>3. [m EXCEPT !.players[name].read[interface] = r] = [m EXCEPT !.players[name] = q]
      BY <1>1, <2>3 DEF WithReadOf
    <3>4. M!Question(m, "read", name, interface) = c
      BY <1>1, <2>5 DEF M!Question
    <3>5. n = M!Ask([m EXCEPT !.players[name] = q], c)
      BY <1>1, <1>5, <1>7, <3>2, <3>3, <3>4, Zenon DEF M!FetchProperties
    <3>6. PICK players, calls : players = [m.players EXCEPT ![name] = q]
                                /\ calls = Append(m.calls, c)
      OBVIOUS
    <3>7. m \in MediaService
      BY MediaSoundFields
    <3>8. PICK l : l = [m EXCEPT !.players = players]
      OBVIOUS
    <3>9. n = [l EXCEPT !.calls = calls]
      <4>1. l = [m EXCEPT !.players[name] = q] /\ l.calls = m.calls
        BY <3>6, <3>7, <3>8 DEF MediaService
      <4> QED BY <3>5, <3>6, <4>1 DEF M!Ask
    <3>10. k = [m EXCEPT !.calls = calls]
      BY <2>7, <3>6 DEF M!Ask
    <3>11. WithPlayer(k, name, q) = [k EXCEPT !.players = players]
      BY <2>9, <3>6 DEF WithPlayer
    <3> QED BY <3>7, <3>8, <3>9, <3>10, <3>11 DEF MediaService
  <2>11. WaitsAs(k, name, q)
    <3>1. HasRead(k.calls, name, interface, p.serial, m.generation)
      BY <2>6, <2>9, AppendReads, MediaSoundFields
    <3> QED BY <1>1, <2>4, <2>9, <3>1 DEF WaitsAs, ReadsAs, Waiting
  <2>12. /\ MediaKeeps(k, n) /\ n.players[name] = q /\ n.shown = k.shown
         /\ \A other \in M!Names : other = name \/ n.players[other] = k.players[other]
    <3>1. MediaSound(k) /\ PlayerSound(q) /\ q.owner = k.players[name].owner
          /\ q.serial = k.players[name].serial
      BY <1>1, <2>4, <2>9 DEF MediaKeeps, ReadsAs
    <3> QED BY <2>10, <2>11, <3>1, SamePlayerKeeps
  <2>13. MediaKeeps(m, n)
    BY <2>9, <2>12, MediaKeepsOn
  <2> QED BY <1>1, <1>5, <2>2, <2>4, <2>9, <2>12, <2>13 DEF Fetches, ReadsAs
<1> QED BY <1>6, <1>7

\* What a read changes of a player is not what decides which is drawn.
LEMMA FetchesDraws ==
    ASSUME NEW m, NEW n, NEW name \in M!Names, NEW interface \in M!Interface,
           Fetches(m, n, name, interface), Drawn(m)
    PROVE  Drawn(n)
<1>1. \A other \in M!Names : /\ n.players[other].owner = m.players[other].owner
                             /\ n.players[other].activity = m.players[other].activity
                             /\ Fresh(m.players[other]) => Fresh(n.players[other])
  BY DEF Fetches, MediaKeeps, Fresh
<1>2. \A other \in M!Names : Leads(n, other) => Leads(m, other)
  BY <1>1 DEF Leads, Before
<1> QED BY <1>1, <1>2 DEF Drawn, Fetches

\* Another player, or none, under a name, with the next serial.
Placed(m, revised, name, p) ==
    [m EXCEPT !.revised = revised, !.serial = @ + 1, !.players[name] = p]

LEMMA PlacedIs ==
    ASSUME NEW m, MediaSound(m), NEW name \in M!Names, NEW p, PlayerSound(p),
           p.serial = m.serial + 1 \/ (p.owner = 0 /\ p.serial = 0),
           \A interface \in M!Interface : p.read[interface] = M!Unread,
           NEW revised \in SUBSET M!Names, NEW n,
           n = Placed(m, revised, name, p)
    PROVE  /\ MediaSound(n) /\ n.generation = m.generation /\ n.revised = revised
           /\ n.subscribed = m.subscribed /\ n.shown = m.shown /\ n.calls = m.calls
           /\ n.players[name] = p
           /\ \A other \in M!Names : other = name \/ n.players[other] = m.players[other]
           /\ \A x : MediaMessageOf(m, x) => MediaMessageOf(n, x)
           /\ KeepsWaiting(m, n)
<1>1. /\ m \in MediaService /\ p \in M!Player /\ m.serial \in Nat
      /\ m.players \in [M!Names -> M!Player]
  BY MediaSoundFields DEF PlayerSound
<1>2. PICK players, serial : players = [m.players EXCEPT ![name] = p]
                             /\ serial = m.serial + 1
  OBVIOUS
<1>3. players \in [M!Names -> M!Player] /\ players[name] = p /\ serial \in Nat
      /\ \A other \in M!Names : other = name \/ players[other] = m.players[other]
  BY <1>1, <1>2
<1>4. n = [m EXCEPT !.revised = revised, !.serial = serial, !.players = players]
  BY <1>2 DEF Placed
<1>5. /\ n \in MediaService /\ n.generation = m.generation /\ n.serial = serial
      /\ n.calls = m.calls /\ n.players = players /\ n.revised = revised
      /\ n.subscribed = m.subscribed /\ n.shown = m.shown /\ n.activity = m.activity
  BY <1>1, <1>3, <1>4 DEF MediaService
<1>6. \A other \in M!Names : \A s, owner : PlayerOf(m, other, s, owner)
                                       => PlayerOf(n, other, s, owner)
  <2> SUFFICES ASSUME NEW other \in M!Names, NEW s, NEW owner, PlayerOf(m, other, s, owner)
               PROVE  PlayerOf(n, other, s, owner)
    OBVIOUS
  <2>1. s \in 0..m.serial /\ s \in 0..n.serial /\ s # m.serial + 1
    BY <1>1, <1>2, <1>5 DEF PlayerOf
  <2>2. CASE other = name
    BY <1>3, <1>5, <2>1, <2>2 DEF PlayerOf
  <2>3. CASE other # name
    BY <1>3, <1>5, <2>1, <2>3 DEF PlayerOf
  <2> QED BY <2>2, <2>3
<1>7. \A x : MediaMessageOf(m, x) => MediaMessageOf(n, x)
  BY <1>5, <1>6 DEF MediaMessageOf
<1>8. \A other \in M!Names : PlayerSound(n.players[other])
                             /\ n.players[other].serial <= n.serial
  <2> TAKE other \in M!Names
  <2>1. CASE other = name
    <3>1. p.serial <= serial
      BY <1>1, <1>2
    <3> QED BY <1>3, <1>5, <2>1, <3>1
  <2>2. CASE other # name
    <3>1. m.players[other].serial \in Nat /\ m.players[other].serial <= m.serial
          /\ PlayerSound(m.players[other])
      BY MediaSoundFields
    <3>2. m.players[other].serial <= serial
      BY <1>1, <1>2, <3>1
    <3> QED BY <1>3, <1>5, <2>2, <3>1, <3>2
  <2> QED BY <2>1, <2>2
<1>9. \A i \in 1..Len(n.calls) : MediaCallOf(n, n.calls[i])
  <2> SUFFICES ASSUME NEW i \in 1..Len(m.calls)
               PROVE  MediaCallOf(n, m.calls[i])
    BY <1>5
  <2>1. m.calls[i] \in MediaCall /\ MediaCallOf(m, m.calls[i])
    BY MediaSoundFields, ElementOfSeq
  <2>2. m.calls[i].what = "read" => m.calls[i].name \in M!Names
    BY <2>1 DEF MediaCall
  <2> QED BY <1>5, <1>6, <2>1, <2>2 DEF MediaCallOf
<1>10. MediaSound(n)
  BY <1>5, <1>8, <1>9 DEF MediaSound
<1>11. KeepsWaiting(m, n)
  <2>1. ReadsAsMuch(m.calls, n.calls)
    BY <1>5 DEF ReadsAsMuch
  <2>2. ASSUME NEW other \in M!Names, NEW interface \in M!Interface
        PROVE  WaitsToo(m, n, other, interface)
    <3>1. CASE other = name
      BY <1>3, <1>5, <3>1, NoPlayerIs DEF WaitsToo, Waiting
    <3>2. CASE other # name
      BY <1>3, <1>5, <3>2 DEF WaitsToo, Waiting
    <3> QED BY <3>1, <3>2
  <2>3. WaitsAlike(m, n)
    BY <1>5, <2>1, <2>2 DEF WaitsAlike
  <2> QED BY <2>3, MediaWaitsOn
<1> QED BY <1>3, <1>5, <1>7, <1>10, <1>11

\* m became n when name went to owner, and nothing else did.
Adopts(m, n, name, owner) ==
    /\ MediaSound(n) /\ n.generation = m.generation /\ n.revised = m.revised
    /\ n.subscribed = m.subscribed /\ n.shown = m.shown
    /\ n.players[name].owner = owner /\ n.players[name].activity = 0
    /\ Fresh(n.players[name])
    /\ \A interface \in M!Interface : Renewed(n, name, interface)
    /\ \A other \in M!Names : other = name \/ n.players[other] = m.players[other]
    /\ AsksNoMore(m.calls, n.calls) /\ KeepsWaiting(m, n)
    /\ \A x : MediaMessageOf(m, x) => MediaMessageOf(n, x)

\* A player that nobody was: read twice, of the next serial.
LEMMA AdoptPlayerAdopts ==
    ASSUME NEW m, MediaSound(m), NEW name \in M!Names, NEW owner \in M!Owner,
           m.players[name].owner = 0
    PROVE  Adopts(m, M!AdoptPlayer(m, name, owner), name, owner)
<1>1. owner # 0 /\ owner \in M!Owner \cup {0}
  BY DEF M!Owner
<1>2. PICK p : p = [M!NoPlayer EXCEPT !.owner = owner, !.serial = m.serial + 1]
  OBVIOUS
<1>3. PICK serial \in Nat : serial = m.serial + 1
  BY MediaSoundFields
<1>4. /\ PlayerSound(p) /\ p.owner = owner /\ p.serial = m.serial + 1 /\ p.activity = 0
      /\ \A interface \in M!Interface : p.read[interface] = M!Unread
  <2>1. PICK o : o = M!NoPlayer
    OBVIOUS
  <2>2. /\ o \in M!Player /\ o.activity = 0
        /\ \A interface \in M!Interface : o.read[interface] = M!Unread
    BY <2>1, NoPlayerIs DEF PlayerSound, M!NoPlayer
  <2>3. p = [o EXCEPT !.owner = owner, !.serial = serial]
    BY <1>2, <1>3, <2>1
  <2>4. p \in M!Player /\ p.owner = owner /\ p.serial = serial /\ p.activity = 0
        /\ p.read = o.read
    BY <1>1, <2>2, <2>3 DEF M!Player
  <2>5. \A interface \in M!Interface : PlayerReadBy(p.read[interface], p.owner)
    BY <2>2, <2>4, NoPlayerIs
  <2> QED BY <1>3, <2>2, <2>4, <2>5 DEF PlayerSound
<1>5. PICK revised \in SUBSET M!Names : revised = m.revised
  BY MediaSoundFields
<1>6. PICK a : a = Placed(m, revised, name, p)
  OBVIOUS
<1>7. /\ MediaSound(a) /\ a.generation = m.generation /\ a.revised = revised
      /\ a.subscribed = m.subscribed /\ a.shown = m.shown /\ a.calls = m.calls
      /\ a.players[name] = p
      /\ \A other \in M!Names : other = name \/ a.players[other] = m.players[other]
      /\ \A x : MediaMessageOf(m, x) => MediaMessageOf(a, x)
      /\ KeepsWaiting(m, a)
  BY <1>4, <1>6, PlacedIs
<1>8. a = [m EXCEPT !.serial = @ + 1, !.players[name] = p]
  <2>1. m \in MediaService
    BY MediaSoundFields
  <2>2. [m EXCEPT !.revised = m.revised] = m
    BY <2>1 DEF MediaService
  <2>3. a = [[m EXCEPT !.revised = m.revised] EXCEPT !.serial = @ + 1, !.players[name] = p]
    BY <1>5, <1>6, <2>1 DEF MediaService, Placed
  <2> QED BY <2>2, <2>3
<1>9. PICK b : b = M!FetchProperties(a, name, "player")
  OBVIOUS
<1>10. PICK n : n = M!FetchProperties(b, name, "identity")
  OBVIOUS
<1>11. n = M!AdoptPlayer(m, name, owner)
  <2>1. [m EXCEPT !.serial = m.serial + 1,
                  !.players[name] = [M!NoPlayer EXCEPT !.owner = owner,
                                                       !.serial = m.serial + 1]] = a
    BY <1>2, <1>8
  <2>2. m.players[name].owner # owner
    BY <1>1
  <2>3. M!AdoptPlayer(m, name, owner) =
            M!FetchProperties(
                M!FetchProperties(
                    [m EXCEPT !.serial = m.serial + 1,
                              !.players[name] = [M!NoPlayer EXCEPT !.owner = owner,
                                                                   !.serial = m.serial + 1]],
                    name, "player"),
                name, "identity")
    BY <2>2 DEF M!AdoptPlayer
  <2>4. M!AdoptPlayer(m, name, owner) =
            M!FetchProperties(M!FetchProperties(a, name, "player"), name, "identity")
    BY <2>1, <2>3
  <2> QED BY <1>9, <1>10, <2>4
<1>12. "player" \in M!Interface /\ "identity" \in M!Interface
       /\ \A i \in M!Interface : i = "player" \/ i = "identity"
  BY DEF M!Interface
<1>13. Fetches(a, b, name, "player")
  BY <1>1, <1>4, <1>7, <1>9, <1>12, FetchPropertiesFetches
<1>14. MediaSound(b) /\ b.players[name].owner = owner
  BY <1>4, <1>7, <1>13 DEF Fetches, MediaKeeps
<1>15. Fetches(b, n, name, "identity")
  BY <1>1, <1>10, <1>12, <1>14, FetchPropertiesFetches
<1>16. MediaKeeps(a, n)
  BY <1>13, <1>15, MediaKeepsOn DEF Fetches
<1>17. \A i \in M!Interface : n.players[name].read[i].reading
                              /\ n.players[name].read[i].fact = M!Unknown
  <2>1. /\ b.players[name].read["player"].reading
        /\ b.players[name].read["player"].fact = M!Unknown
        /\ b.players[name].read["identity"].fact = M!Unknown
    BY <1>4, <1>7, <1>12, <1>13, NoPlayerIs DEF Fetches
  <2>2. /\ n.players[name].read["identity"].reading
        /\ n.players[name].read["identity"].fact = M!Unknown
        /\ n.players[name].read["player"] = b.players[name].read["player"]
    BY <1>12, <1>15, <2>1 DEF Fetches
  <2> QED BY <1>12, <2>1, <2>2
<1>18. n.players[name].owner = owner /\ n.players[name].activity = 0
  BY <1>4, <1>7, <1>13, <1>15, <1>16 DEF Fetches, MediaKeeps
<1>19. \A other \in M!Names : other = name \/ n.players[other] = m.players[other]
  BY <1>7, <1>13, <1>15 DEF Fetches
<1>20. \A x : MediaMessageOf(m, x) => MediaMessageOf(n, x)
  BY <1>7, <1>16, MediaKeepsMessages
<1>21. AsksNoMore(m.calls, n.calls) /\ n.shown = m.shown
  BY <1>7, <1>13, <1>15, <1>16 DEF Fetches, MediaKeeps
<1>22. KeepsWaiting(m, n)
  BY <1>7, <1>16, WaitsMeanwhile DEF MediaKeeps
<1>23. Adopts(m, n, name, owner)
  BY <1>5, <1>7, <1>16, <1>17, <1>18, <1>19, <1>20, <1>21, <1>22
     DEF Adopts, Fresh, Renewed, MediaKeeps
<1> QED BY <1>11, <1>23

\* A player that has been found and has said nothing takes the place of no other.
LEMMA AdoptsDraws ==
    ASSUME NEW m, MediaSound(m), NEW n, NEW name \in M!Names, NEW owner,
           Adopts(m, n, name, owner), owner # 0, m.players[name].owner = 0, Drawn(m)
    PROVE  Drawn(n)
<1>1. ASSUME NEW other \in M!Names, Leads(n, other)
      PROVE  n.shown.owner = n.players[other].owner \/ Fresh(n.players[other])
  <2>1. CASE other = name
    BY <2>1 DEF Adopts
  <2>2. CASE other # name
    <3>1. Leads(m, other)
      <4>1. \A third \in M!Names : m.players[third].owner # 0 =>
                                       n.players[third] = m.players[third]
        BY DEF Adopts
      <4>2. n.players[other] = m.players[other]
        BY <2>2 DEF Adopts
      <4> QED BY <1>1, <4>1, <4>2 DEF Leads, Before
    <3> QED BY <2>2, <3>1 DEF Drawn, Adopts
  <2> QED BY <2>1, <2>2
<1>2. n.players[name].owner # 0 /\ n.shown = m.shown
  BY DEF Adopts
<1> QED BY <1>1, <1>2 DEF Drawn

\* Of the calls and the answers about who holds a name there is one at most, and none any
\* more about one that is known by it and has not changed hands.
Unasked(c, s, g, name) == NoneAbout(c, g, name) /\ NoneAbout(s, g, name)
SoleAbout(c, s, g, name) ==
    /\ OneAbout(c, g, name) /\ OneAbout(s, g, name)
    /\ NoneAbout(c, g, name) \/ NoneAbout(s, g, name)

Inquired(m, s) ==
    \A name \in M!Names :
        /\ SoleAbout(m.calls, s, m.generation, name)
        /\ \/ name \in m.revised \/ m.players[name].owner = 0
           \/ Unasked(m.calls, s, m.generation, name)

LEMMA KeepsInquired ==
    ASSUME NEW m, NEW n, NEW s, MediaKeeps(m, n), Inquired(m, s)
    PROVE  Inquired(n, s)
  BY DEF MediaKeeps, AsksNoMore, Inquired, SoleAbout, Unasked

\* What is taken leaves less.
LEMMA DropsAbout ==
    ASSUME NEW S, NEW s \in Seq(S), NEW q \in Seq(S), Drops(s, q), s # <<>>, NEW g, NEW name
    PROVE  /\ NoneAbout(s, g, name) => NoneAbout(q, g, name)
           /\ OneAbout(s, g, name) => OneAbout(q, g, name)
           /\ OneAbout(s, g, name) /\ About(s[1], g, name) => NoneAbout(q, g, name)
           /\ About(s[1], g, name) => ~NoneAbout(s, g, name)
<1>1. PICK k \in Nat : k = Len(s)
  BY LenProperties
<1>2. k # 0 /\ Len(q) = k - 1 /\ \A i \in 1..Len(q) : q[i] = s[i + 1]
  BY <1>1, EmptySeq DEF Drops
<1>3. /\ 1 \in 1..k
      /\ \A i \in 1..Len(q) : i + 1 \in 1..k /\ i + 1 # 1 /\ i \in Nat
  BY <1>1, <1>2
<1>4. NoneAbout(s, g, name) => NoneAbout(q, g, name)
  BY <1>1, <1>2, <1>3 DEF NoneAbout
<1>5. ASSUME OneAbout(s, g, name)
      PROVE  OneAbout(q, g, name)
  <2> SUFFICES ASSUME NEW i \in 1..Len(q), NEW j \in 1..Len(q), About(q[i], g, name),
                      About(q[j], g, name)
               PROVE  i = j
    BY DEF OneAbout
  <2>1. q[i] = s[i + 1] /\ q[j] = s[j + 1] /\ i + 1 \in 1..k /\ j + 1 \in 1..k
        /\ i \in Nat /\ j \in Nat
    BY <1>2, <1>3
  <2>2. i + 1 = j + 1
    BY <1>1, <1>5, <2>1 DEF OneAbout
  <2> QED BY <2>1, <2>2
<1>6. ASSUME OneAbout(s, g, name), About(s[1], g, name)
      PROVE  NoneAbout(q, g, name)
  <2> SUFFICES ASSUME NEW i \in 1..Len(q), About(q[i], g, name)
               PROVE  FALSE
    BY DEF NoneAbout
  <2>1. q[i] = s[i + 1] /\ i + 1 \in 1..k /\ i + 1 # 1
    BY <1>2, <1>3
  <2> QED BY <1>1, <1>3, <1>6, <2>1 DEF OneAbout
<1>7. About(s[1], g, name) => ~NoneAbout(s, g, name)
  BY <1>1, <1>3 DEF NoneAbout
<1> QED BY <1>4, <1>5, <1>6, <1>7

LEMMA DropsInquired ==
    ASSUME NEW m, NEW S, NEW s \in Seq(S), NEW q \in Seq(S), Drops(s, q), s # <<>>,
           Inquired(m, s)
    PROVE  /\ Inquired(m, q)
           /\ \A name \in M!Names :
                  About(s[1], m.generation, name) =>
                      /\ Unasked(m.calls, q, m.generation, name)
                      /\ name \in m.revised \/ m.players[name].owner = 0
<1>1. PICK g, c : g = m.generation /\ c = m.calls
  OBVIOUS
<1>2. ASSUME NEW name \in M!Names
      PROVE  /\ SoleAbout(c, q, g, name)
             /\ Unasked(c, s, g, name) => Unasked(c, q, g, name)
             /\ About(s[1], g, name) => /\ Unasked(c, q, g, name)
                                        /\ ~Unasked(c, s, g, name)
  <2>1. SoleAbout(c, s, g, name)
    BY <1>1 DEF Inquired
  <2>2. /\ NoneAbout(s, g, name) => NoneAbout(q, g, name)
        /\ OneAbout(s, g, name) => OneAbout(q, g, name)
        /\ OneAbout(s, g, name) /\ About(s[1], g, name) => NoneAbout(q, g, name)
        /\ About(s[1], g, name) => ~NoneAbout(s, g, name)
    BY DropsAbout
  <2> QED BY <2>1, <2>2 DEF SoleAbout, Unasked
<1> QED BY <1>1, <1>2 DEF Inquired

\* The service and its queue between two steps of the event loop.
MediaReady(m, q) == MediaSound(m) /\ Inquired(m, q) /\ Drawn(m) /\ AllRenewed(m)

\* m took a message and became n, with q to come.
MediaTakes(m, n, q) ==
    /\ MediaReady(n, q)
    /\ \A x \in MediaMessage : MediaMessageOf(m, x) => MediaMessageOf(n, x)
    /\ MediaWaits(m, q) => MediaWaits(n, q)

LEMMA OnOwnerChangedTakes ==
    ASSUME NEW m, NEW q, MediaReady(m, q), NEW name \in M!Names,
           NEW owner \in M!Owner \cup {0}
    PROVE  MediaTakes(m, M!OnOwnerChanged(m, name, owner), q)
<1>1. MediaSound(m) /\ Inquired(m, q) /\ AllRenewed(m)
  BY DEF MediaReady
<1>2. PICK p, revised : p = M!NoPlayer /\ revised = m.revised \cup {name}
  OBVIOUS
<1>3. /\ revised \in SUBSET M!Names /\ PlayerSound(p) /\ p.owner = 0 /\ p.serial = 0
      /\ \A interface \in M!Interface : ~p.read[interface].refresh
      /\ \A interface \in M!Interface : p.read[interface] = M!Unread
  BY <1>1, <1>2, MediaSoundFields, NoPlayerIs
<1>4. PICK r : r = Placed(m, revised, name, p)
  OBVIOUS
<1>5. /\ MediaSound(r) /\ r.generation = m.generation /\ r.revised = revised
      /\ r.calls = m.calls /\ r.players[name] = p
      /\ \A other \in M!Names : other = name \/ r.players[other] = m.players[other]
      /\ \A x : MediaMessageOf(m, x) => MediaMessageOf(r, x)
      /\ KeepsWaiting(m, r)
  BY <1>1, <1>3, <1>4, PlacedIs
<1>6. Inquired(r, q)
  BY <1>1, <1>2, <1>3, <1>5 DEF Inquired
<1>7. AllRenewed(r)
  BY <1>1, <1>3, <1>5 DEF AllRenewed, Renewed
<1>8. PICK n : n = IF owner # 0 THEN M!AdoptPlayer(r, name, owner) ELSE r
  OBVIOUS
<1>9. /\ MediaSound(n) /\ Inquired(n, q) /\ AllRenewed(n)
      /\ \A x : MediaMessageOf(m, x) => MediaMessageOf(n, x)
      /\ KeepsWaiting(m, n)
  <2>1. CASE owner = 0
    BY <1>5, <1>6, <1>7, <1>8, <2>1
  <2>2. CASE owner # 0
    <3>1. Adopts(r, n, name, owner)
      BY <1>3, <1>5, <1>8, <2>2, AdoptPlayerAdopts
    <3>2. Inquired(n, q)
      BY <1>2, <1>5, <1>6, <3>1 DEF Adopts, Inquired, AsksNoMore, SoleAbout, Unasked
    <3>3. AllRenewed(n)
      BY <1>7, <3>1 DEF AllRenewed, Adopts, Renewed
    <3> QED BY <1>5, <3>1, <3>2, <3>3, WaitsMeanwhile DEF Adopts
  <2> QED BY <2>1, <2>2
<1>10. M!OnOwnerChanged(m, name, owner) = M!Publish(n)
  <2>1. [m EXCEPT !.revised = @ \cup {name}, !.serial = @ + 1, !.players[name] = M!NoPlayer]
        = r
    BY <1>2, <1>4 DEF Placed
  <2>2. M!OnOwnerChanged(m, name, owner) =
            M!Publish(IF owner # 0
                      THEN M!AdoptPlayer([m EXCEPT !.revised = @ \cup {name},
                                                   !.serial = @ + 1,
                                                   !.players[name] = M!NoPlayer],
                                         name, owner)
                      ELSE [m EXCEPT !.revised = @ \cup {name}, !.serial = @ + 1,
                                     !.players[name] = M!NoPlayer])
    BY DEF M!OnOwnerChanged
  <2> QED BY <1>8, <2>1, <2>2
<1>11. /\ MediaKeeps(n, M!Publish(n)) /\ M!Publish(n).players = n.players
       /\ Drawn(M!Publish(n))
  BY <1>9, MediaPublishDraws
<1>12. MediaReady(M!Publish(n), q)
  <2>1. Inquired(M!Publish(n), q)
    BY <1>9, <1>11, KeepsInquired
  <2>2. AllRenewed(M!Publish(n))
    BY <1>9, <1>11 DEF AllRenewed, Renewed
  <2> QED BY <1>11, <2>1, <2>2 DEF MediaReady, MediaKeeps
<1>13. MediaWaits(m, q) => MediaWaits(M!Publish(n), q)
  BY <1>9, <1>11 DEF MediaKeeps, KeepsWaiting
<1> QED BY <1>9, <1>10, <1>11, <1>12, <1>13, MediaKeepsMessages DEF MediaTakes

LEMMA OwnerFoundTakes ==
    ASSUME NEW m, NEW q, MediaReady(m, q), NEW name \in M!Names,
           NEW owner \in M!Owner \cup {0}, Unasked(m.calls, q, m.generation, name),
           name \in m.revised \/ m.players[name].owner = 0
    PROVE  MediaTakes(m, M!OwnerFound(m, name, owner), q)
<1>1. CASE name \in m.revised \/ owner = 0
  BY <1>1 DEF M!OwnerFound, MediaTakes
<1>2. CASE name \notin m.revised /\ owner # 0
  <2>1. PICK n : n = M!AdoptPlayer(m, name, owner)
    OBVIOUS
  <2>2. M!OwnerFound(m, name, owner) = n
    BY <1>2, <2>1 DEF M!OwnerFound
  <2>3. Adopts(m, n, name, owner) /\ Drawn(n)
    BY <1>2, <2>1, AdoptPlayerAdopts, AdoptsDraws DEF MediaReady
  <2>4. Inquired(n, q)
    <3>1. Inquired(m, q)
      BY DEF MediaReady
    <3> QED BY <2>3, <3>1 DEF Adopts, Inquired, AsksNoMore, SoleAbout, Unasked
  <2>5. AllRenewed(n)
    BY <2>3 DEF MediaReady, AllRenewed, Adopts, Renewed
  <2>6. MediaWaits(m, q) => MediaWaits(n, q)
    BY <2>3 DEF Adopts, KeepsWaiting
  <2> QED BY <2>2, <2>3, <2>4, <2>5, <2>6 DEF Adopts, MediaTakes, MediaReady
<1> QED BY <1>1, <1>2

\* One of a player's interfaces says something else, or nothing any more.
WithMediaRead(m, name, interface, o) ==
    WithPlayer(m, name, WithReadOf(m.players[name], interface, o))

ReadInto(m, n, name, interface, o) ==
    /\ MediaKeeps(m, n) /\ n.players[name].read[interface] = o
    /\ n.players[name].activity = m.players[name].activity /\ n.shown = m.shown
    /\ \A i \in M!Interface :
           i = interface \/ n.players[name].read[i] = m.players[name].read[i]
    /\ \A other \in M!Names : other = name \/ n.players[other] = m.players[other]

LEMMA MediaReadKeeps ==
    ASSUME NEW m, MediaSound(m), NEW name \in M!Names, NEW interface \in M!Interface,
           NEW o, PlayerReadBy(o, m.players[name].owner), ~o.reading
    PROVE  ReadInto(m, WithMediaRead(m, name, interface, o), name, interface, o)
<1>1. PICK p : p = m.players[name]
  OBVIOUS
<1>2. PICK r : r = WithReadOf(p, interface, o)
  OBVIOUS
<1>3. PlayerSound(p) /\ PlayerReadBy(o, p.owner)
  BY <1>1, MediaSoundFields
<1>4. ReadsAs(r, p, interface, o)
  BY <1>2, <1>3, PlayerWithRead
<1>5. PICK n : n = WithPlayer(m, name, r)
  OBVIOUS
<1>6. PlayerSound(r) /\ r.owner = m.players[name].owner /\ r.serial = m.players[name].serial
  BY <1>1, <1>4 DEF ReadsAs
<1>7. /\ MediaKeeps(m, n) /\ n.players[name] = r /\ n.shown = m.shown
      /\ \A other \in M!Names : other = name \/ n.players[other] = m.players[other]
  <2>1. WaitsAs(m, name, r)
    BY <1>1, <1>4 DEF WaitsAs, ReadsAs, Waiting
  <2> QED BY <1>5, <1>6, <2>1, SamePlayerKeeps
<1>8. ReadInto(m, n, name, interface, o)
  BY <1>1, <1>4, <1>7 DEF ReadsAs, ReadInto
<1> QED BY <1>1, <1>2, <1>5, <1>8 DEF WithMediaRead

\* Who waits has its read asked for, or answered by x or in q.
WaitsBut(m, q, x) ==
    \A name \in M!Names, interface \in M!Interface :
        Waiting(m, name, interface) =>
            /\ m.players[name].owner # 0
            /\ \/ Coming(m, m.calls, name, interface)
               \/ Coming(m, q, name, interface)
               \/ ReadOf(x, name, interface, m.players[name].serial, m.generation)

LEMMA PropertiesReadTakes ==
    ASSUME NEW m, NEW q, MediaReady(m, q), NEW x \in MediaMessage, x.what = "read",
           MediaMessageOf(m, x), WaitsBut(m, q, x)
    PROVE  /\ MediaTakes(m, M!PropertiesRead(m, x), q)
           /\ MediaWaits(M!PropertiesRead(m, x), q)
<1>1. /\ x.name \in M!Names /\ x.interface \in M!Interface /\ x.refused \in BOOLEAN
      /\ x.fact \in M!Fact /\ PlayerOf(m, x.name, x.serial, x.fact.owner)
  BY DEF MediaMessage, MediaMessageOf
<1>2. PICK name \in M!Names, interface \in M!Interface, f \in M!Fact :
          name = x.name /\ interface = x.interface /\ f = x.fact
  BY <1>1
<1>3. PICK p, o : p = m.players[name] /\ o = p.read[interface]
  OBVIOUS
<1>4. MediaSound(m) /\ Inquired(m, q) /\ Drawn(m) /\ AllRenewed(m)
  BY DEF MediaReady
<1>5. CASE p.owner = 0 \/ p.serial # x.serial
  <2>1. M!PropertiesRead(m, x) = m
    BY <1>2, <1>3, <1>5 DEF M!PropertiesRead
  <2>2. MediaWaits(m, q)
    BY <1>2, <1>3, <1>5 DEF WaitsBut, MediaWaits, ReadOf
  <2> QED BY <2>1, <2>2 DEF MediaTakes
<1>6. CASE p.owner # 0 /\ p.serial = x.serial
  <2>1. f \in MediaFacts(p.owner)
    BY <1>1, <1>2, <1>3, <1>6 DEF PlayerOf, MediaFacts
  <2>2. PICK owner : owner = p.owner
    OBVIOUS
  <2>3. PlayerReadBy(o, owner) /\ f \in MediaFacts(owner) /\ f \in MediaChanges(owner)
    BY <1>3, <1>4, <2>1, <2>2, MediaSoundFields DEF PlayerSound, MediaChanges
  <2>4. PICK e : e = IF x.refused THEN AbortRead(o) ELSE AdoptAll(o, f)
    OBVIOUS
  <2>5. PlayerReadBy(e, owner) /\ e.refresh = o.refresh /\ ~e.reading
    BY <2>3, <2>4, PlayerOperations
  <2>6. PICK k : k = WithMediaRead(m, name, interface, e)
    OBVIOUS
  <2>7. PlayerReadBy(e, m.players[name].owner)
    BY <1>3, <2>2, <2>5
  <2>8. /\ MediaKeeps(m, k) /\ k.players[name].read[interface] = e
        /\ \A i \in M!Interface :
               i = interface \/ k.players[name].read[i] = m.players[name].read[i]
        /\ \A other \in M!Names : other = name \/ k.players[other] = m.players[other]
    BY <1>4, <2>5, <2>6, <2>7, MediaReadKeeps DEF ReadInto
  <2>9. PICK l : l = M!Publish(k)
    OBVIOUS
  <2>10. MediaKeeps(k, l) /\ l.players = k.players /\ Drawn(l)
    BY <2>8, <2>9, MediaPublishDraws DEF MediaKeeps
  <2>11. MediaKeeps(m, l)
    BY <2>8, <2>10, MediaKeepsOn
  <2>12. \A other \in M!Names, i \in M!Interface :
             (other = name /\ i = interface) \/ Renewed(l, other, i)
    BY <1>4, <2>8, <2>10 DEF AllRenewed, Renewed
  <2>13. PICK n : n = IF o.refresh THEN M!FetchProperties(l, name, interface) ELSE l
    OBVIOUS
  <2>14. M!PropertiesRead(m, x) = n
    <3>1. [m EXCEPT !.players[x.name].read[x.interface] =
               IF x.refused THEN M!AbortRead(@) ELSE M!AdoptAll(@, x.fact)] = k
      <4>1. [m EXCEPT !.players[name].read[interface] = e] = k
        BY <2>6 DEF WithMediaRead, WithPlayer, WithReadOf
      <4>2. (IF x.refused THEN M!AbortRead(o) ELSE M!AdoptAll(o, x.fact)) = e
        BY <1>2, <2>4, SameProperties
      <4> QED BY <1>2, <1>3, <4>1, <4>2
    <3>2. M!PropertiesRead(m, x) =
              IF m.players[x.name].owner = 0 \/ m.players[x.name].serial # x.serial THEN m
              ELSE IF m.players[x.name].read[x.interface].refresh
              THEN M!FetchProperties(
                       M!Publish([m EXCEPT !.players[x.name].read[x.interface] =
                                      IF x.refused THEN M!AbortRead(@)
                                      ELSE M!AdoptAll(@, x.fact)]),
                       x.name, x.interface)
              ELSE M!Publish([m EXCEPT !.players[x.name].read[x.interface] =
                                 IF x.refused THEN M!AbortRead(@)
                                 ELSE M!AdoptAll(@, x.fact)])
      BY DEF M!PropertiesRead
    <3> QED BY <1>2, <1>3, <1>6, <2>9, <2>13, <3>1, <3>2
  <2>15. MediaWaits(l, q)
    <3> SUFFICES ASSUME NEW other \in M!Names, NEW i \in M!Interface, Waiting(l, other, i)
                 PROVE  /\ l.players[other].owner # 0
                        /\ Coming(l, l.calls, other, i) \/ Coming(l, q, other, i)
      BY DEF MediaWaits
    <3>1. ~(other = name /\ i = interface) /\ Waiting(m, other, i)
      BY <2>5, <2>8, <2>10 DEF Waiting
    <3>2. ~ReadOf(x, other, i, m.players[other].serial, m.generation)
      BY <1>2, <3>1 DEF ReadOf
    <3>3. /\ m.players[other].owner # 0
          /\ Coming(m, m.calls, other, i) \/ Coming(m, q, other, i)
      BY <3>1, <3>2 DEF WaitsBut
    <3>4. other \in M!Names /\ l.generation = m.generation
          /\ l.players[other].owner = m.players[other].owner
          /\ l.players[other].serial = m.players[other].serial
          /\ ReadsAsMuch(m.calls, l.calls)
      BY <2>11 DEF MediaKeeps
    <3> QED BY <3>3, <3>4 DEF Coming, ReadsAsMuch
  <2>16. MediaKeeps(m, n) /\ Drawn(n) /\ AllRenewed(n) /\ MediaWaits(n, q)
    <3>1. CASE o.refresh
      <4>1. l.players[name].owner # 0 /\ MediaSound(l)
        BY <1>3, <1>6, <2>11 DEF MediaKeeps
      <4>2. Fetches(l, n, name, interface)
        BY <2>13, <3>1, <4>1, FetchPropertiesFetches
      <4>3. Drawn(n)
        BY <2>10, <4>2, FetchesDraws
      <4>4. AllRenewed(n)
        BY <2>12, <4>2 DEF AllRenewed, Renewed, Fetches
      <4>5. MediaKeeps(m, n)
        BY <2>11, <4>2, MediaKeepsOn DEF Fetches
      <4>6. MediaWaits(n, q)
        BY <2>15, <4>2 DEF Fetches, MediaKeeps, KeepsWaiting
      <4> QED BY <4>3, <4>4, <4>5, <4>6
    <3>2. CASE ~o.refresh
      <4>1. Renewed(l, name, interface)
        BY <2>5, <2>8, <2>10, <3>2 DEF Renewed
      <4> QED BY <2>10, <2>11, <2>12, <2>13, <2>15, <3>2, <4>1 DEF AllRenewed
    <3> QED BY <3>1, <3>2
  <2>17. Inquired(n, q)
    BY <1>4, <2>16, KeepsInquired
  <2> QED BY <2>14, <2>16, <2>17, MediaKeepsMessages DEF MediaTakes, MediaReady, MediaKeeps
<1> QED BY <1>5, <1>6

\* detach(): what was asked before is not for the next generation.
Detaches(m, n, q) ==
    /\ MediaReady(n, q) /\ n.generation = m.generation + 1 /\ n.calls = m.calls
    /\ \A x \in MediaMessage : MediaMessageOf(m, x) => MediaMessageOf(n, x)
    /\ \A s : MediaWaits(n, s)
    /\ \A name \in M!Names :
           Unasked(m.calls, q, m.generation + 1, name) /\ n.players[name].owner = 0

LEMMA DetachTakes ==
    ASSUME NEW m, MediaSound(m), NEW q \in Seq(MediaMessage),
           \A i \in 1..Len(q) : MediaMessageOf(m, q[i])
    PROVE  Detaches(m, M!Detach(m), q)
<1> DEFINE n == M!Detach(m)
<1>1. PICK players, generation, shown :
          /\ players = [name \in M!Names |-> M!NoPlayer] /\ generation = m.generation + 1
          /\ shown = M!NoReading
  OBVIOUS
<1>2. n = [m EXCEPT !.generation = generation, !.subscribed = FALSE, !.revised = {},
                    !.activity = 0, !.players = players, !.shown = shown]
  BY <1>1 DEF M!Detach
<1> HIDE DEF n
<1>3. /\ players \in [M!Names -> M!Player]
      /\ \A name \in M!Names : players[name] = M!NoPlayer
  BY <1>1, NoPlayerIs DEF PlayerSound
<1>4. shown \in MediaShown /\ shown.owner = 0 /\ shown.player.owner = 0
      /\ shown.identity.owner = 0
  BY <1>1, NoPlayerIs DEF M!NoReading, MediaShown
<1>5. /\ m \in MediaService /\ m.generation \in Nat /\ generation \in Nat /\ m.serial \in Nat
  BY <1>1, MediaSoundFields
<1>6. /\ n \in MediaService /\ n.generation = generation /\ n.serial = m.serial
      /\ n.revised = {} /\ n.players = players /\ n.shown = shown /\ n.calls = m.calls
  <2>1. PICK a : a = [m EXCEPT !.generation = generation, !.subscribed = FALSE,
                               !.revised = {}]
    OBVIOUS
  <2>2. /\ a \in MediaService /\ a.generation = generation /\ a.serial = m.serial
        /\ a.revised = {} /\ a.calls = m.calls
    BY <1>5, <2>1 DEF MediaService
  <2>3. n = [a EXCEPT !.activity = 0, !.players = players, !.shown = shown]
    BY <1>2, <1>5, <2>1 DEF MediaService
  <2> QED BY <1>3, <1>4, <2>2, <2>3 DEF MediaService
<1>7. \A name, s, owner : name \in M!Names /\ PlayerOf(m, name, s, owner)
                          => PlayerOf(n, name, s, owner)
  BY <1>3, <1>6, NoPlayerIs DEF PlayerOf
<1>8. \A g : g <= m.generation /\ g \in Nat => g <= generation /\ g # generation
  BY <1>1, <1>5
<1>9. \A i \in 1..Len(m.calls) :
          /\ MediaCallOf(n, m.calls[i])
          /\ m.calls[i].what \in {"names", "owner"} => m.calls[i].generation # generation
  <2> TAKE i \in 1..Len(m.calls)
  <2>1. m.calls[i] \in MediaCall /\ MediaCallOf(m, m.calls[i])
    BY MediaSoundFields, ElementOfSeq
  <2>2. /\ m.calls[i].what = "read" => m.calls[i].name \in M!Names
        /\ m.calls[i].what \in {"names", "owner"} => m.calls[i].generation \in Nat
    BY <2>1 DEF MediaCall
  <2> QED BY <1>6, <1>7, <1>8, <2>1, <2>2 DEF MediaCallOf
<1>10. MediaSound(n)
  <2>1. \A name \in M!Names : PlayerSound(n.players[name]) /\ n.players[name].serial <= n.serial
    BY <1>3, <1>5, <1>6, NoPlayerIs
  <2> QED BY <1>6, <1>9, <2>1 DEF MediaSound
<1>11. \A x \in MediaMessage : MediaMessageOf(m, x) =>
           /\ MediaMessageOf(n, x)
           /\ x.what \in {"names", "owner"} => x.generation # generation
  <2> SUFFICES ASSUME NEW x \in MediaMessage, MediaMessageOf(m, x)
               PROVE  /\ MediaMessageOf(n, x)
                      /\ x.what \in {"names", "owner"} => x.generation # generation
    OBVIOUS
  <2>1. x.what \in {"names", "owner"} => x.generation \in Nat /\ x.generation <= m.generation
    BY DEF MediaMessage, MediaMessageOf
  <2>2. x.what = "read" => x.name \in M!Names /\ PlayerOf(n, x.name, x.serial, x.fact.owner)
    BY <1>7 DEF MediaMessageOf
  <2> QED BY <1>6, <1>8, <2>1, <2>2 DEF MediaMessageOf
<1>12. \A name : Unasked(m.calls, q, generation, name)
  <2>1. \A name : NoneAbout(m.calls, generation, name)
    BY <1>9 DEF NoneAbout, About
  <2>2. \A i \in 1..Len(q) : q[i] \in MediaMessage
    BY ElementOfSeq
  <2>3. \A name : NoneAbout(q, generation, name)
    BY <1>11, <2>2 DEF NoneAbout, About
  <2> QED BY <2>1, <2>3 DEF Unasked
<1>13. Inquired(n, q)
  BY <1>3, <1>6, <1>12, NoPlayerIs DEF Inquired, SoleAbout, Unasked, OneAbout, NoneAbout
<1>14. \A name \in M!Names : n.players[name].owner = 0
  BY <1>3, <1>6, NoPlayerIs
<1>15. Drawn(n)
  BY <1>4, <1>6, <1>14 DEF Drawn, Leads
<1>16. AllRenewed(n)
  BY <1>3, <1>6, NoPlayerIs DEF AllRenewed, Renewed
<1>17. \A s : MediaWaits(n, s)
  BY <1>3, <1>6, NoPlayerIs DEF MediaWaits, Waiting
<1> QED BY <1>1, <1>6, <1>10, <1>11, <1>12, <1>13, <1>14, <1>15, <1>16, <1>17
        DEF n, Detaches, MediaReady

\* Active for the last time now.
ActivePlayer(p, activity) == [p EXCEPT !.activity = activity]
ActiveMedia(m, activity) == [m EXCEPT !.activity = activity]

LEMMA ActivePlayerIs ==
    ASSUME NEW p, PlayerSound(p), NEW activity \in Nat
    PROVE  /\ PlayerSound(ActivePlayer(p, activity))
           /\ ActivePlayer(p, activity).owner = p.owner
           /\ ActivePlayer(p, activity).serial = p.serial
           /\ ActivePlayer(p, activity).read = p.read
<1>1. PICK q : q = ActivePlayer(p, activity)
  OBVIOUS
<1>2. p \in M!Player
  BY DEF PlayerSound
<1>3. q \in M!Player /\ q.owner = p.owner /\ q.serial = p.serial /\ q.read = p.read
  BY <1>1, <1>2 DEF M!Player, ActivePlayer
<1> QED BY <1>1, <1>3 DEF PlayerSound

LEMMA ActiveMediaIs ==
    ASSUME NEW m, MediaSound(m), NEW activity \in Nat
    PROVE  /\ MediaKeeps(m, ActiveMedia(m, activity))
           /\ ActiveMedia(m, activity).players = m.players
<1>1. PICK n : n = ActiveMedia(m, activity)
  OBVIOUS
<1>2. m \in MediaService
  BY MediaSoundFields
<1>3. /\ n \in MediaService /\ n.generation = m.generation /\ n.serial = m.serial
      /\ n.calls = m.calls /\ n.players = m.players /\ n.revised = m.revised
      /\ n.subscribed = m.subscribed
  BY <1>1, <1>2 DEF MediaService, ActiveMedia
<1>4. MediaSound(n)
  BY <1>3, MediaSoundFields DEF MediaSound, MediaCallOf, PlayerOf
<1>5. ReadsAsMuch(m.calls, n.calls) /\ KeepsWaiting(m, n)
  <2>1. SameReads(m, n)
    BY <1>3 DEF SameReads, ReadsAsMuch
  <2> QED BY <2>1, MediaSameWaits
<1> QED BY <1>1, <1>3, <1>4, <1>5 DEF MediaKeeps, AsksNoMore

KeepsRenewed(m, n) == MediaKeeps(m, n) /\ (AllRenewed(m) => AllRenewed(n))

LEMMA ToldKeeps ==
    ASSUME NEW m, MediaSound(m), NEW name \in M!Names, NEW x \in MediaMessage,
           x.what = "propertiesChanged", MediaMessageOf(m, x)
    PROVE  KeepsRenewed(m, M!Told(m, name, x))
<1>1. /\ x.owner \in M!Owner /\ x.owner # 0 /\ x.interface \in M!Interface
      /\ x.fact \in MediaChanges(x.owner)
  BY DEF MediaMessage, MediaMessageOf, M!Owner
<1>2. PICK owner, interface, f : owner = x.owner /\ interface = x.interface /\ f = x.fact
  OBVIOUS
<1>3. PICK p, o : p = m.players[name] /\ o = p.read[interface]
  OBVIOUS
<1>4. CASE p.owner # owner
  <2>1. M!Told(m, name, x) = m
    BY <1>2, <1>3, <1>4 DEF M!Told
  <2> QED BY <2>1, MediaKeepsSame DEF KeepsRenewed
<1>5. CASE p.owner = owner
  <2>1. PICK a, b : /\ a = (IF interface = "player" THEN m.activity + 1 ELSE m.activity)
                    /\ b = (IF interface = "player" THEN a ELSE p.activity)
    OBVIOUS
  <2>2. a \in Nat /\ b \in Nat /\ PlayerSound(p)
    BY <1>3, <2>1, MediaSoundFields
  <2>3. interface \in M!Interface /\ PlayerReadBy(o, owner) /\ f \in MediaChanges(owner)
    BY <1>1, <1>2, <1>3, <1>5, <2>2 DEF PlayerSound
  <2>4. PICK e : e = ApplyChange(o, f)
    OBVIOUS
  <2>5. M!Unknown \in MediaFacts(owner)
    BY NoPlayerIs DEF MediaFacts
  <2>6. PlayerReadBy(e, owner) /\ e.reading = o.reading /\ e.refresh = o.refresh
    BY <2>3, <2>4, <2>5, PlayerOperations
  <2>7. PICK r : r = WithReadOf(p, interface, e)
    OBVIOUS
  <2>8. ReadsAs(r, p, interface, e)
    BY <1>5, <2>2, <2>3, <2>6, <2>7, PlayerWithRead
  <2>9. PICK q : q = ActivePlayer(r, b)
    OBVIOUS
  <2>10. PlayerSound(q) /\ q.owner = p.owner /\ q.serial = p.serial /\ q.read = r.read
    BY <2>2, <2>8, <2>9, ActivePlayerIs DEF ReadsAs
  <2>11. PICK k : k = WithPlayer(m, name, q)
    OBVIOUS
  <2>12. /\ MediaKeeps(m, k) /\ k.players[name] = q
         /\ \A other \in M!Names : other = name \/ k.players[other] = m.players[other]
    <3>1. WaitsAs(m, name, q)
      BY <1>3, <2>6, <2>8, <2>10 DEF WaitsAs, ReadsAs, Waiting
    <3> QED BY <1>3, <2>10, <2>11, <3>1, SamePlayerKeeps
  <2>13. PICK c : c = ActiveMedia(k, a)
    OBVIOUS
  <2>14. MediaKeeps(k, c) /\ c.players = k.players
    BY <2>2, <2>12, <2>13, ActiveMediaIs DEF MediaKeeps
  <2>15. MediaKeeps(m, c)
    BY <2>12, <2>14, MediaKeepsOn
  <2>16. ASSUME AllRenewed(m) PROVE AllRenewed(c)
    <3>1. \A i \in M!Interface : /\ q.read[i].refresh = p.read[i].refresh
                                 /\ q.read[i].reading = p.read[i].reading
      BY <1>3, <2>6, <2>8, <2>10 DEF ReadsAs
    <3> QED BY <1>3, <2>12, <2>14, <2>16, <3>1 DEF AllRenewed, Renewed
  <2>17. KeepsRenewed(m, c)
    BY <2>15, <2>16 DEF KeepsRenewed
  <2>18. c = [m EXCEPT !.activity = a, !.players[name].activity = b,
                       !.players[name].read[interface] = e]
    <3>1. q = [p EXCEPT !.activity = b, !.read[interface] = e]
      BY <2>2, <2>7, <2>9 DEF WithReadOf, ActivePlayer, PlayerSound, M!Player
    <3>2. m \in MediaService /\ m.players \in [M!Names -> M!Player]
      BY MediaSoundFields
    <3>3. k = [m EXCEPT !.players[name] = q]
      BY <2>11 DEF WithPlayer
    <3>4. c = [m EXCEPT !.activity = a, !.players[name] = q]
      <4>1. PICK players : players = [m.players EXCEPT ![name] = q]
        OBVIOUS
      <4>2. k = [m EXCEPT !.players = players]
        BY <3>3, <4>1
      <4>3. c = [k EXCEPT !.activity = a]
        BY <2>13 DEF ActiveMedia
      <4>4. c = [m EXCEPT !.activity = a, !.players = players]
        BY <3>2, <4>2, <4>3 DEF MediaService
      <4> QED BY <4>1, <4>4
    <3>5. PICK players : players = [m.players EXCEPT ![name].activity = b,
                                                     ![name].read[interface] = e]
      OBVIOUS
    <3>6. players = [m.players EXCEPT ![name] = q]
      <4>1. PICK one, two : /\ one = [m.players EXCEPT ![name].activity = b]
                            /\ two = [one EXCEPT ![name].read[interface] = e]
        OBVIOUS
      <4>2. one = [m.players EXCEPT ![name] = [p EXCEPT !.activity = b]]
        BY <1>3, <4>1
      <4>3. one[name] = [p EXCEPT !.activity = b]
        BY <3>2, <4>2
      <4>4. two = [one EXCEPT ![name] = [one[name] EXCEPT !.read[interface] = e]]
        BY <4>1
      <4>5. [one[name] EXCEPT !.read[interface] = e] = q
        BY <3>1, <4>3
      <4>6. two = [m.players EXCEPT ![name] = q]
        BY <3>2, <4>2, <4>4, <4>5
      <4>7. two = players
        BY <3>5, <4>1
      <4> QED BY <4>6, <4>7
    <3>7. c = [m EXCEPT !.activity = a, !.players = players]
      BY <3>4, <3>6
    <3>8. PICK one, two : /\ one = [m EXCEPT !.activity = a]
                          /\ two = [m EXCEPT !.activity = a, !.players[name].activity = b]
      OBVIOUS
    <3>9. one.players = m.players
      BY <3>2, <3>8 DEF MediaService
    <3>10. two = [one EXCEPT !.players[name].activity = b]
      BY <3>8
    <3>11. c = [one EXCEPT !.players = players]
      BY <3>7, <3>8
    <3>12. [two EXCEPT !.players[name].read[interface] = e] =
               [one EXCEPT !.players = players]
      <4>1. PICK first : first = [m.players EXCEPT ![name].activity = b]
        OBVIOUS
      <4>2. two = [one EXCEPT !.players = first]
        BY <3>9, <3>10, <4>1
      <4>3. two.players = first
        BY <3>2, <3>8, <4>2 DEF MediaService
      <4>4. [two EXCEPT !.players[name].read[interface] = e] =
                [two EXCEPT !.players = [first EXCEPT ![name].read[interface] = e]]
        BY <4>3
      <4>5. [first EXCEPT ![name].read[interface] = e] = players
        BY <3>5, <4>1
      <4>6. [two EXCEPT !.players = players] = [one EXCEPT !.players = players]
        BY <3>2, <3>8, <4>2 DEF MediaService
      <4> QED BY <4>4, <4>5, <4>6
    <3> QED BY <3>8, <3>11, <3>12
  <2>19. PICK n : n = IF f.known THEN c ELSE M!FetchProperties(c, name, interface)
    OBVIOUS
  <2>20. M!Told(m, name, x) = n
    <3>1. M!Told(m, name, x) =
              IF m.players[name].owner # x.owner THEN m
              ELSE IF x.fact.known
              THEN [m EXCEPT
                       !.activity = IF x.interface = "player" THEN m.activity + 1
                                    ELSE m.activity,
                       !.players[name].activity =
                           IF x.interface = "player"
                           THEN IF x.interface = "player" THEN m.activity + 1 ELSE m.activity
                           ELSE @,
                       !.players[name].read[x.interface] = M!ApplyChange(@, x.fact)]
              ELSE M!FetchProperties(
                       [m EXCEPT
                           !.activity = IF x.interface = "player" THEN m.activity + 1
                                        ELSE m.activity,
                           !.players[name].activity =
                               IF x.interface = "player"
                               THEN IF x.interface = "player" THEN m.activity + 1
                                    ELSE m.activity
                               ELSE @,
                           !.players[name].read[x.interface] = M!ApplyChange(@, x.fact)],
                       name, x.interface)
      BY DEF M!Told
    <3>2. [m EXCEPT
              !.activity = IF x.interface = "player" THEN m.activity + 1 ELSE m.activity,
              !.players[name].activity =
                  IF x.interface = "player"
                  THEN IF x.interface = "player" THEN m.activity + 1 ELSE m.activity
                  ELSE @,
              !.players[name].read[x.interface] = M!ApplyChange(@, x.fact)] = c
      <4>1. M!ApplyChange(o, f) = e
        BY <2>4, SameProperties
      <4> QED BY <1>2, <1>3, <2>1, <2>18, <4>1
    <3> QED BY <1>2, <1>3, <1>5, <2>19, <3>1, <3>2
  <2>21. KeepsRenewed(m, n)
    <3>1. CASE f.known
      BY <2>17, <2>19, <3>1
    <3>2. CASE ~f.known
      <4>1. c.players[name].owner # 0 /\ MediaSound(c)
        BY <1>1, <1>2, <1>3, <1>5, <2>15 DEF MediaKeeps
      <4>2. Fetches(c, n, name, interface)
        BY <2>3, <2>19, <3>2, <4>1, FetchPropertiesFetches
      <4>3. MediaKeeps(m, n)
        BY <2>15, <4>2, MediaKeepsOn DEF Fetches
      <4>4. AllRenewed(c) => AllRenewed(n)
        BY <4>2 DEF AllRenewed, Renewed, Fetches
      <4> QED BY <2>16, <4>3, <4>4 DEF KeepsRenewed
    <3> QED BY <3>1, <3>2
  <2> QED BY <2>20, <2>21
<1> QED BY <1>4, <1>5

-----------------------------------------------------------------------------
(* The two loops over the names. *)

\* One round of the loop that tells a signal, or asks who holds the names.
Stepped(loop, m, name, x) ==
    IF loop = "told" THEN M!Told(m, name, x) ELSE M!AskOwner(m, name, x)

Walks(f, loop, m, x, n) ==
    f = [i \in 0..n |-> IF i = 0 THEN m ELSE Stepped(loop, f[i - 1], i, x)]

LEMMA WalksExist ==
    ASSUME NEW loop, NEW m, NEW x, NEW n \in Nat
    PROVE  \E f : Walks(f, loop, m, x, n)
<1> DEFINE Bad == {k \in Nat : ~\E f : Walks(f, loop, m, x, k)}
<1> SUFFICES ASSUME Bad # {}
             PROVE  FALSE
  OBVIOUS
<1>1. PICK k \in Bad : \A j \in Bad : k <= j
  <2>1. Bad \subseteq Nat
    OBVIOUS
  <2> HIDE DEF Bad
  <2> QED BY <2>1, Least
<1>2. k # 0
  <2> DEFINE g == [i \in 0..0 |-> m]
  <2>1. Walks(g, loop, m, x, 0)
    BY DEF Walks
  <2> QED BY <2>1
<1>3. k \in Nat /\ k - 1 \in Nat /\ k - 1 \notin Bad
  <2>1. k \in Nat
    OBVIOUS
  <2> HIDE DEF Bad
  <2> QED BY <1>1, <1>2, <2>1
<1>4. PICK g : Walks(g, loop, m, x, k - 1)
  BY <1>3
<1> DEFINE h == [i \in 0..k |-> IF i = k THEN Stepped(loop, g[k - 1], k, x) ELSE g[i]]
<1>5. ASSUME NEW i \in 0..k
      PROVE  h[i] = IF i = 0 THEN m ELSE Stepped(loop, h[i - 1], i, x)
  <2>1. CASE i = 0
    BY <1>2, <1>3, <1>4, <2>1 DEF Walks
  <2>2. CASE i # 0 /\ i # k
    <3>1. i \in 0..k - 1 /\ i - 1 \in 0..k /\ i - 1 # k
      BY <1>3, <2>2
    <3>2. g[i] = Stepped(loop, g[i - 1], i, x)
      BY <1>4, <2>2, <3>1 DEF Walks
    <3>3. h[i] = g[i] /\ h[i - 1] = g[i - 1]
      BY <1>3, <2>2, <3>1
    <3> HIDE DEF h
    <3> QED BY <2>2, <3>2, <3>3
  <2>3. CASE i = k
    <3>1. k - 1 \in 0..k /\ k - 1 # k
      BY <1>2, <1>3
    <3>2. h[k] = Stepped(loop, g[k - 1], k, x) /\ h[k - 1] = g[k - 1]
      BY <1>3, <3>1
    <3> HIDE DEF h
    <3> QED BY <1>2, <2>3, <3>2
  <2> QED BY <2>1, <2>2, <2>3
<1>6. Walks(h, loop, m, x, k)
  BY <1>5, Zenon DEF Walks
<1> QED BY <1>1, <1>6

\* f[i] is what the loop has made of m when it has come to i.
Walked(f, loop, m, x) ==
    /\ f[0] = m
    /\ \A i \in 1..LastName : f[i] = Stepped(loop, f[i - 1], i, x)

TellsAll(f, m, x) ==
    f = [name \in 0..LastName |-> IF name = 0 THEN m ELSE M!Told(f[name - 1], name, x)]
AsksAll(f, m, x) ==
    f = [name \in 0..LastName |-> IF name = 0 THEN m ELSE M!AskOwner(f[name - 1], name, x)]

LEMMA PropertiesChangedWalks ==
    ASSUME NEW m, NEW x
    PROVE  \E f : Walked(f, "told", m, x)
                  /\ M!OnPropertiesChanged(m, x) = M!Publish(f[LastName])
<1>1. PICK g : Walks(g, "told", m, x, LastName)
  BY WalksExist, ReadingsAssumption
<1>2. TellsAll(g, m, x)
  BY <1>1 DEF Walks, Stepped, TellsAll
<1> DEFINE f == CHOOSE f : TellsAll(f, m, x)
<1>3. TellsAll(f, m, x)
  BY <1>2, Zenon
<1>4. M!OnPropertiesChanged(m, x) = M!Publish(f[LastName])
  BY Zenon DEF M!OnPropertiesChanged, TellsAll
<1> HIDE DEF f
<1>5. Walked(f, "told", m, x)
  BY <1>3, ReadingsAssumption DEF TellsAll, Walked, Stepped
<1> QED BY <1>4, <1>5

LEMMA ListedWalks ==
    ASSUME NEW m, NEW x
    PROVE  \E f : Walked(f, "asked", m, x) /\ M!Listed(m, x) = f[LastName]
<1>1. PICK g : Walks(g, "asked", m, x, LastName)
  BY WalksExist, ReadingsAssumption
<1>2. AsksAll(g, m, x)
  BY <1>1 DEF Walks, Stepped, AsksAll
<1> DEFINE f == CHOOSE f : AsksAll(f, m, x)
<1>3. AsksAll(f, m, x)
  BY <1>2, Zenon
<1>4. M!Listed(m, x) = f[LastName]
  BY Zenon DEF M!Listed, AsksAll
<1> HIDE DEF f
<1>5. Walked(f, "asked", m, x)
  BY <1>3, ReadingsAssumption DEF AsksAll, Walked, Stepped
<1> QED BY <1>4, <1>5

\* What every round keeps, the loop keeps.
LEMMA WalkKeeps ==
    ASSUME NEW Good, 0 \in Good,
           \A i \in 1..LastName : i - 1 \in Good => i \in Good
    PROVE  LastName \in Good
<1> DEFINE Bad == {i \in 0..LastName : i \notin Good}
<1>1. Bad = {}
  <2> SUFFICES ASSUME Bad # {}
               PROVE  FALSE
    OBVIOUS
  <2>1. PICK i \in Bad : \A j \in Bad : i <= j
    <3>1. Bad \subseteq Nat
      BY ReadingsAssumption
    <3> HIDE DEF Bad
    <3> QED BY <3>1, Least
  <2>2. i \in 0..LastName /\ i \notin Good
    OBVIOUS
  <2>3. i # 0 /\ i \in 1..LastName
    BY <2>2, ReadingsAssumption
  <2>4. i - 1 \in 0..LastName /\ ~(i <= i - 1)
    BY <2>3, ReadingsAssumption
  <2>5. i - 1 \notin Bad
    <3> HIDE DEF Bad
    <3> QED BY <2>1, <2>4
  <2> QED BY <2>2, <2>3, <2>4, <2>5
<1> QED BY <1>1, ReadingsAssumption

LEMMA OnPropertiesChangedTakes ==
    ASSUME NEW m, NEW q, MediaReady(m, q), NEW x \in MediaMessage,
           x.what = "propertiesChanged", MediaMessageOf(m, x)
    PROVE  MediaTakes(m, M!OnPropertiesChanged(m, x), q)
<1>1. MediaSound(m) /\ Inquired(m, q) /\ AllRenewed(m)
  BY DEF MediaReady
<1>2. PICK f : Walked(f, "told", m, x)
               /\ M!OnPropertiesChanged(m, x) = M!Publish(f[LastName])
  BY PropertiesChangedWalks
<1> DEFINE Good == {i \in 0..LastName : KeepsRenewed(m, f[i])}
<1>3. 0 \in Good
  <2>1. KeepsRenewed(m, f[0])
    BY <1>1, <1>2, MediaKeepsSame DEF Walked, KeepsRenewed
  <2> QED BY <2>1, ReadingsAssumption
<1>4. \A i \in 1..LastName : i - 1 \in Good => i \in Good
  <2> SUFFICES ASSUME NEW i \in 1..LastName, KeepsRenewed(m, f[i - 1])
               PROVE  KeepsRenewed(m, f[i])
    BY ReadingsAssumption
  <2>1. PICK k : k = f[i - 1]
    OBVIOUS
  <2>2. MediaSound(k) /\ MediaMessageOf(k, x) /\ MediaKeeps(m, k)
    BY <2>1, MediaKeepsMessages DEF KeepsRenewed, MediaKeeps
  <2>3. i \in M!Names /\ f[i] = M!Told(k, i, x)
    BY <1>2, <2>1 DEF Walked, Stepped, M!Names
  <2>4. KeepsRenewed(k, f[i])
    BY <2>2, <2>3, ToldKeeps
  <2> QED BY <2>1, <2>2, <2>4, MediaKeepsOn DEF KeepsRenewed
<1>5. LastName \in Good
  <2> HIDE DEF Good
  <2> QED BY <1>2, <1>3, <1>4, WalkKeeps
<1>6. PICK l : l = f[LastName]
  OBVIOUS
<1>7. KeepsRenewed(m, l) /\ MediaSound(l)
  BY <1>5, <1>6 DEF KeepsRenewed, MediaKeeps
<1>8. PICK n : n = M!Publish(l)
  OBVIOUS
<1>9. MediaKeeps(l, n) /\ n.players = l.players /\ Drawn(n)
  BY <1>7, <1>8, MediaPublishDraws
<1>10. MediaKeeps(m, n) /\ AllRenewed(n)
  BY <1>1, <1>7, <1>9, MediaKeepsOn DEF KeepsRenewed, AllRenewed, Renewed
<1>11. Inquired(n, q)
  BY <1>1, <1>10, KeepsInquired
<1>12. MediaWaits(m, q) => MediaWaits(n, q)
  BY <1>10 DEF MediaKeeps, KeepsWaiting
<1> QED BY <1>2, <1>6, <1>8, <1>9, <1>10, <1>11, <1>12, MediaKeepsMessages
        DEF MediaTakes, MediaReady, MediaKeeps

LEMMA AppendAbout ==
    ASSUME NEW S, NEW s \in Seq(S), NEW e \in S, NEW g, NEW name
    PROVE  /\ NoneAbout(s, g, name) => OneAbout(Append(s, e), g, name)
           /\ ~About(e, g, name) =>
                  /\ NoneAbout(s, g, name) => NoneAbout(Append(s, e), g, name)
                  /\ OneAbout(s, g, name) => OneAbout(Append(s, e), g, name)
<1>1. PICK q : q = Append(s, e) /\ Longer(q, s, e)
  BY AppendIs
<1>2. PICK n \in Nat : n = Len(s)
  BY LenProperties
<1>3. Len(q) = n + 1 /\ q[n + 1] = e /\ \A i \in 1..n : q[i] = s[i]
  BY <1>1, <1>2 DEF Longer
<1>4. \A i \in 1..n + 1 : i = n + 1 \/ i \in 1..n
  OBVIOUS
<1>5. ASSUME NoneAbout(s, g, name)
      PROVE  OneAbout(q, g, name)
  <2>1. \A i \in 1..Len(q) : About(q[i], g, name) => i = n + 1
    BY <1>2, <1>3, <1>4, <1>5 DEF NoneAbout
  <2> QED BY <2>1 DEF OneAbout
<1>6. ASSUME ~About(e, g, name), NoneAbout(s, g, name)
      PROVE  NoneAbout(q, g, name)
  BY <1>2, <1>3, <1>4, <1>6 DEF NoneAbout
<1>7. ASSUME ~About(e, g, name), OneAbout(s, g, name), NEW i \in 1..Len(q),
             NEW j \in 1..Len(q), About(q[i], g, name), About(q[j], g, name)
      PROVE  i = j
  <2>1. i \in 1..n /\ j \in 1..n
    BY <1>3, <1>4, <1>7
  <2>2. About(s[i], g, name) /\ About(s[j], g, name)
    BY <1>3, <1>7, <2>1
  <2> QED BY <1>2, <1>7, <2>1, <2>2 DEF OneAbout
<1> QED BY <1>1, <1>5, <1>6, <1>7 DEF OneAbout

\* When the loop that asks has come to k, n is m with calls about names up to k.
AskedUpTo(m, n, k) ==
    /\ MediaSound(n) /\ KeepsWaiting(m, n)
    /\ MediaIs(n, m, m.serial, m.activity, m.revised, m.players, m.shown, n.calls)
    /\ \A name \in M!Names :
           /\ OneAbout(n.calls, m.generation, name)
           /\ k < name => NoneAbout(n.calls, m.generation, name)

LEMMA AsksOneMore ==
    ASSUME NEW m, NEW n, NEW name \in M!Names, NEW names, AskedUpTo(m, n, name - 1)
    PROVE  AskedUpTo(m, M!AskOwner(n, name, names), name)
<1>1. name \in Nat /\ name - 1 < name /\ \A other \in M!Names : other \in Nat
  BY DEF M!Names
<1>2. MediaSound(n) /\ n.calls \in Seq(MediaCall) /\ n.generation = m.generation
      /\ n.generation \in Nat
  BY MediaSoundFields DEF AskedUpTo, MediaIs
<1>3. PICK g : g = m.generation
  OBVIOUS
<1>4. \A other \in M!Names : /\ OneAbout(n.calls, g, other)
                             /\ name - 1 < other => NoneAbout(n.calls, g, other)
  BY <1>3 DEF AskedUpTo
<1>5. CASE name \notin names \ n.revised
  <2>1. M!AskOwner(n, name, names) = n
    BY <1>5 DEF M!AskOwner
  <2>2. \A other \in M!Names : name < other => name - 1 < other
    BY <1>1
  <2> QED BY <1>3, <1>4, <2>1, <2>2 DEF AskedUpTo
<1>6. CASE name \in names \ n.revised
  <2>1. PICK c : c = [what |-> "owner", name |-> name, interface |-> "player",
                      owner |-> n.players[name].owner, serial |-> n.players[name].serial,
                      generation |-> n.generation]
    OBVIOUS
  <2>2. c \in MediaCall
    BY <1>2, <2>1, MediaSoundFields DEF MediaCall, M!Interface
  <2>3. c.what = "owner" /\ c.name = name /\ c.generation = g
    BY <1>2, <1>3, <2>1
  <2>4. MediaCallOf(n, c)
    BY <1>2, <1>3, <2>3 DEF MediaCallOf
  <2>5. PICK p : p = M!Ask(n, c)
    OBVIOUS
  <2>6. M!AskOwner(n, name, names) = p
    BY <1>6, <2>1, <2>5 DEF M!AskOwner, M!Question
  <2>7. /\ MediaSound(p) /\ KeepsWaiting(n, p)
        /\ MediaIs(p, n, n.serial, n.activity, n.revised, n.players, n.shown,
                   Append(n.calls, c))
    BY <1>2, <2>2, <2>4, <2>5, MediaAskKeeps
  <2>8. MediaIs(p, m, m.serial, m.activity, m.revised, m.players, m.shown, p.calls)
        /\ p.calls = Append(n.calls, c)
    BY <2>7 DEF AskedUpTo, MediaIs
  <2>9. \A other \in M!Names : other # name => ~About(c, g, other)
    BY <2>3 DEF About
  <2>10. ASSUME NEW other \in M!Names
         PROVE  /\ OneAbout(p.calls, g, other)
                /\ name < other => NoneAbout(p.calls, g, other)
    <3>1. CASE other = name
      BY <1>1, <1>2, <1>4, <2>2, <2>8, <3>1, AppendAbout
    <3>2. CASE other # name
      <4>1. name < other => name - 1 < other
        BY <1>1
      <4> QED BY <1>2, <1>4, <2>2, <2>8, <2>9, <3>2, <4>1, AppendAbout
    <3> QED BY <3>1, <3>2
  <2>11. KeepsWaiting(m, p)
    BY <2>7, WaitsMeanwhile DEF AskedUpTo
  <2> QED BY <1>3, <2>6, <2>7, <2>8, <2>10, <2>11 DEF AskedUpTo
<1> QED BY <1>5, <1>6

LEMMA ListedTakes ==
    ASSUME NEW m, NEW q, MediaReady(m, q), NEW names,
           \A name \in M!Names : /\ Unasked(m.calls, q, m.generation, name)
                                 /\ name \in m.revised \/ m.players[name].owner = 0
    PROVE  MediaTakes(m, M!Listed(m, names), q)
<1>1. MediaSound(m) /\ Drawn(m) /\ AllRenewed(m)
  BY DEF MediaReady
<1>2. PICK f : Walked(f, "asked", m, names) /\ M!Listed(m, names) = f[LastName]
  BY ListedWalks
<1> DEFINE Good == {i \in 0..LastName : AskedUpTo(m, f[i], i)}
<1>3. 0 \in Good
  <2>1. f[0] = m
    BY <1>2 DEF Walked
  <2>2. AskedUpTo(m, m, 0)
    <3>1. MediaIs(m, m, m.serial, m.activity, m.revised, m.players, m.shown, m.calls)
      BY <1>1, MediaSoundFields DEF MediaIs
    <3>2. \A name \in M!Names : NoneAbout(m.calls, m.generation, name)
      BY DEF Unasked
    <3> QED BY <1>1, <3>1, <3>2 DEF AskedUpTo, NoneAbout, OneAbout, KeepsWaiting
  <2> QED BY <2>1, <2>2, ReadingsAssumption
<1>4. \A i \in 1..LastName : i - 1 \in Good => i \in Good
  <2> SUFFICES ASSUME NEW i \in 1..LastName, AskedUpTo(m, f[i - 1], i - 1)
               PROVE  AskedUpTo(m, f[i], i)
    BY ReadingsAssumption
  <2>1. PICK k : k = f[i - 1]
    OBVIOUS
  <2>2. i \in M!Names /\ f[i] = M!AskOwner(k, i, names)
    BY <1>2, <2>1 DEF Walked, Stepped, M!Names
  <2> QED BY <2>1, <2>2, AsksOneMore
<1>5. LastName \in Good
  <2> HIDE DEF Good
  <2> QED BY <1>3, <1>4, WalkKeeps
<1>6. PICK n : n = f[LastName]
  OBVIOUS
<1>7. MediaSound(n) /\ \A name \in M!Names : OneAbout(n.calls, m.generation, name)
  BY <1>5, <1>6 DEF AskedUpTo
<1>8. /\ n.generation = m.generation /\ n.serial = m.serial /\ n.revised = m.revised
      /\ n.players = m.players /\ n.shown = m.shown
  BY <1>5, <1>6 DEF AskedUpTo, MediaIs
<1>9. Inquired(n, q)
  BY <1>7, <1>8 DEF Inquired, SoleAbout, Unasked, NoneAbout, OneAbout
<1>10. Drawn(n) /\ AllRenewed(n)
  BY <1>1, <1>8 DEF Drawn, AllRenewed, Renewed, Leads, Before
<1>11. \A x : MediaMessageOf(m, x) => MediaMessageOf(n, x)
  BY <1>8 DEF MediaMessageOf, PlayerOf
<1>12. MediaWaits(m, q) => MediaWaits(n, q)
  BY <1>5, <1>6 DEF AskedUpTo, KeepsWaiting
<1> QED BY <1>2, <1>6, <1>7, <1>9, <1>10, <1>11, <1>12 DEF MediaTakes, MediaReady

MessagesOf(m) == {x \in MediaMessage : MediaMessageOf(m, x)}

\* What holds of the service, the queue and the bus.
MediaHolds(d, s, m) ==
    d \in M!Bus /\ s \in Seq(MessagesOf(m)) /\ MediaReady(m, s) /\ MediaWaits(m, s)

LEMMA MessagesAre ==
    ASSUME NEW m, NEW s \in Seq(MessagesOf(m))
    PROVE  /\ s \in Seq(MediaMessage)
           /\ \A i \in 1..Len(s) : MediaMessageOf(m, s[i])
<1>1. MessagesOf(m) \subseteq MediaMessage
  BY DEF MessagesOf
<1>2. s \in Seq(MediaMessage)
  BY <1>1
<1>3. \A i \in 1..Len(s) : s[i] \in MessagesOf(m)
  BY ElementOfSeq
<1> QED BY <1>2, <1>3 DEF MessagesOf

LEMMA MessagesStay ==
    ASSUME NEW m, NEW n, NEW s \in Seq(MessagesOf(m)),
           \A x \in MediaMessage : MediaMessageOf(m, x) => MediaMessageOf(n, x)
    PROVE  s \in Seq(MessagesOf(n))
<1>1. MessagesOf(m) \subseteq MessagesOf(n)
  BY DEF MessagesOf
<1> QED BY <1>1

\* What is taken leaves the other reads.
LEMMA DropsReads ==
    ASSUME NEW S, NEW s \in Seq(S), NEW q \in Seq(S), Drops(s, q), s # <<>>, NEW name,
           NEW interface, NEW serial, NEW g, HasRead(s, name, interface, serial, g)
    PROVE  \/ HasRead(q, name, interface, serial, g)
           \/ ReadOf(s[1], name, interface, serial, g)
<1>1. PICK k \in Nat : k = Len(s)
  BY LenProperties
<1>2. k # 0 /\ Len(q) = k - 1 /\ \A i \in 1..Len(q) : q[i] = s[i + 1]
  BY <1>1, EmptySeq DEF Drops
<1>3. PICK i \in 1..k : ReadOf(s[i], name, interface, serial, g)
  BY <1>1 DEF HasRead
<1>4. i = 1 \/ (i - 1 \in 1..k - 1 /\ i - 1 + 1 = i)
  OBVIOUS
<1> QED BY <1>2, <1>3, <1>4 DEF HasRead

\* What the event loop finds in the queue.
LEMMA MediaHeads ==
    ASSUME NEW d, NEW s, NEW m, MediaHolds(d, s, m), s # <<>>
    PROVE  /\ Head(s) \in MediaMessage /\ MediaMessageOf(m, Head(s))
           /\ Tail(s) \in Seq(MessagesOf(m)) /\ MediaReady(m, Tail(s))
           /\ WaitsBut(m, Tail(s), Head(s))
           /\ \A name \in M!Names :
                  About(Head(s), m.generation, name) =>
                      /\ Unasked(m.calls, Tail(s), m.generation, name)
                      /\ name \in m.revised \/ m.players[name].owner = 0
<1>1. s \in Seq(MessagesOf(m)) /\ MediaReady(m, s) /\ Inquired(m, s)
  BY DEF MediaHolds, MediaReady
<1>2. PICK q, x : q = Tail(s) /\ x = Head(s)
  OBVIOUS
<1>3. q \in Seq(MessagesOf(m)) /\ Drops(s, q) /\ x = s[1] /\ x \in MessagesOf(m)
  BY <1>1, <1>2, TailDrops
<1>4. Inquired(m, q)
      /\ \A name \in M!Names :
             About(x, m.generation, name) =>
                 /\ Unasked(m.calls, q, m.generation, name)
                 /\ name \in m.revised \/ m.players[name].owner = 0
  BY <1>1, <1>3, DropsInquired
<1>5. WaitsBut(m, q, x)
  <2>1. MediaWaits(m, s)
    BY DEF MediaHolds
  <2>2. \A name, interface : Coming(m, s, name, interface) =>
            \/ Coming(m, q, name, interface)
            \/ ReadOf(x, name, interface, m.players[name].serial, m.generation)
    BY <1>1, <1>3, DropsReads DEF Coming
  <2> QED BY <2>1, <2>2 DEF MediaWaits, WaitsBut
<1> QED BY <1>1, <1>2, <1>3, <1>4, <1>5 DEF MediaReady, MessagesOf

LEMMA MediaTakesHolds ==
    ASSUME NEW d \in M!Bus, NEW q, NEW m, NEW n, q \in Seq(MessagesOf(m)),
           MediaTakes(m, n, q), MediaWaits(m, q) \/ MediaWaits(n, q)
    PROVE  MediaHolds(d, q, n)
<1>1. q \in Seq(MessagesOf(n))
  BY MessagesStay DEF MediaTakes
<1> QED BY <1>1 DEF MediaHolds, MediaTakes

LEMMA MediaStays ==
    ASSUME NEW m, NEW q, MediaReady(m, q)
    PROVE  MediaTakes(m, m, q)
  BY DEF MediaTakes

LEMMA MediaEventLoopKeeps ==
    ASSUME MediaHolds(daemon, inbox, service), M!EventLoop
    PROVE  MediaHolds(daemon', inbox', service')
<1>1. PICK d, s, m, x, q : /\ d = daemon /\ s = inbox /\ m = service /\ x = Head(inbox)
                           /\ q = Tail(inbox)
  OBVIOUS
<1>2. s # <<>> /\ inbox' = q /\ daemon' = d
  BY <1>1 DEF M!EventLoop, M!NamesListed, M!OwnerAnswered, M!ReadAnswered,
              M!NameOwnerChanged, M!PropertiesChanged, M!BusDisconnected, M!Arrives, M!Handle
<1>3. MediaHolds(d, s, m) /\ d \in M!Bus /\ x = Head(s) /\ q = Tail(s)
  BY <1>1 DEF MediaHolds
<1>4. /\ x \in MediaMessage /\ MediaMessageOf(m, x) /\ q \in Seq(MessagesOf(m))
      /\ MediaReady(m, q) /\ MediaSound(m) /\ WaitsBut(m, q, x)
      /\ \A name \in M!Names : About(x, m.generation, name) =>
             /\ Unasked(m.calls, q, m.generation, name)
             /\ name \in m.revised \/ m.players[name].owner = 0
  BY <1>2, <1>3, MediaHeads DEF MediaReady
<1>5. MediaTakes(m, m, q)
  BY <1>4, MediaStays
<1>6. x.what # "read" \/ x.generation # m.generation => MediaWaits(m, q)
  BY <1>4 DEF WaitsBut, MediaWaits, ReadOf
<1>7. CASE M!NamesListed
  <2>1. x.what = "names"
        /\ service' = IF x.generation = m.generation THEN M!Listed(m, x.names) ELSE m
    BY <1>1, <1>7 DEF M!NamesListed, M!Arrives, M!Handle, M!Live
  <2>2. CASE x.generation = m.generation
    <3>1. \A name \in M!Names : About(x, m.generation, name)
      BY <2>1, <2>2 DEF About
    <3>2. MediaTakes(m, M!Listed(m, x.names), q)
      BY <1>4, <3>1, ListedTakes
    <3> QED BY <1>2, <1>3, <1>4, <2>1, <2>2, <3>2, <1>6, MediaTakesHolds
  <2>3. CASE x.generation # m.generation
    BY <1>2, <1>3, <1>4, <1>5, <2>1, <2>3, <1>6, MediaTakesHolds
  <2> QED BY <2>2, <2>3
<1>8. CASE M!OwnerAnswered
  <2>1. x.what = "owner"
        /\ service' = IF x.generation = m.generation THEN M!OwnerFound(m, x.name, x.owner)
                      ELSE m
    BY <1>1, <1>8 DEF M!OwnerAnswered, M!Arrives, M!Handle, M!Live
  <2>2. CASE x.generation = m.generation
    <3>1. PICK name, owner : name = x.name /\ owner = x.owner
      OBVIOUS
    <3>2. name \in M!Names /\ owner \in M!Owner \cup {0}
      BY <1>4, <2>1, <3>1 DEF MediaMessage
    <3>3. About(x, m.generation, name)
      BY <2>1, <2>2, <3>1 DEF About
    <3>4. MediaTakes(m, M!OwnerFound(m, name, owner), q)
      BY <1>4, <3>2, <3>3, OwnerFoundTakes
    <3> QED BY <1>2, <1>3, <1>4, <2>1, <2>2, <3>1, <3>4, <1>6, MediaTakesHolds
  <2>3. CASE x.generation # m.generation
    BY <1>2, <1>3, <1>4, <1>5, <2>1, <2>3, <1>6, MediaTakesHolds
  <2> QED BY <2>2, <2>3
<1>9. CASE M!ReadAnswered
  <2>1. x.what = "read"
        /\ service' = IF x.generation = m.generation THEN M!PropertiesRead(m, x) ELSE m
    BY <1>1, <1>9 DEF M!ReadAnswered, M!Arrives, M!Handle, M!Live
  <2>2. MediaTakes(m, M!PropertiesRead(m, x), q) /\ MediaWaits(M!PropertiesRead(m, x), q)
    BY <1>4, <2>1, PropertiesReadTakes
  <2> QED BY <1>2, <1>3, <1>4, <1>5, <2>1, <2>2, <1>6, MediaTakesHolds
<1>10. CASE M!NameOwnerChanged
  <2>1. x.what = "nameOwnerChanged"
        /\ service' = IF m.subscribed THEN M!OnOwnerChanged(m, x.name, x.owner) ELSE m
    BY <1>1, <1>10 DEF M!NameOwnerChanged, M!Arrives, M!Handle
  <2>2. x.name \in M!Names /\ x.owner \in M!Owner \cup {0}
    BY <1>4, <2>1 DEF MediaMessage
  <2>3. MediaTakes(m, M!OnOwnerChanged(m, x.name, x.owner), q)
    BY <1>4, <2>2, OnOwnerChangedTakes
  <2> QED BY <1>2, <1>3, <1>4, <1>5, <2>1, <2>3, <1>6, MediaTakesHolds
<1>11. CASE M!PropertiesChanged
  <2>1. x.what = "propertiesChanged"
        /\ service' = IF m.subscribed THEN M!OnPropertiesChanged(m, x) ELSE m
    BY <1>1, <1>11 DEF M!PropertiesChanged, M!Arrives, M!Handle
  <2>2. MediaTakes(m, M!OnPropertiesChanged(m, x), q)
    BY <1>4, <2>1, OnPropertiesChangedTakes
  <2> QED BY <1>2, <1>3, <1>4, <1>5, <2>1, <2>2, <1>6, MediaTakesHolds
<1>12. CASE M!BusDisconnected
  <2>1. x.what = "disconnected" /\ service' = IF m.subscribed THEN M!Detach(m) ELSE m
    BY <1>1, <1>12 DEF M!BusDisconnected, M!Arrives, M!Handle
  <2>2. Detaches(m, M!Detach(m), q)
    BY <1>4, MessagesAre, DetachTakes
  <2>3. MediaTakes(m, M!Detach(m), q)
    BY <2>2 DEF Detaches, MediaTakes
  <2> QED BY <1>2, <1>3, <1>4, <1>5, <2>1, <2>3, <1>6, MediaTakesHolds
<1> QED BY <1>7, <1>8, <1>9, <1>10, <1>11, <1>12 DEF M!EventLoop

SubscribedMedia(m) == [m EXCEPT !.subscribed = TRUE]

LEMMA SubscribedMediaIs ==
    ASSUME NEW m, MediaSound(m), NEW q, Inquired(m, q), Drawn(m), AllRenewed(m)
    PROVE  /\ MediaReady(SubscribedMedia(m), q)
           /\ SubscribedMedia(m).generation = m.generation
           /\ SubscribedMedia(m).calls = m.calls /\ SubscribedMedia(m).players = m.players
           /\ \A x : MediaMessageOf(m, x) => MediaMessageOf(SubscribedMedia(m), x)
           /\ KeepsWaiting(m, SubscribedMedia(m))
<1>1. PICK n : n = SubscribedMedia(m)
  OBVIOUS
<1>2. m \in MediaService
  BY MediaSoundFields
<1>3. /\ n \in MediaService /\ n.generation = m.generation /\ n.serial = m.serial
      /\ n.calls = m.calls /\ n.players = m.players /\ n.revised = m.revised
      /\ n.shown = m.shown
  BY <1>1, <1>2 DEF MediaService, SubscribedMedia
<1>4. MediaSound(n)
  BY <1>3, MediaSoundFields DEF MediaSound, MediaCallOf, PlayerOf
<1>5. Inquired(n, q) /\ Drawn(n) /\ AllRenewed(n)
  BY <1>3 DEF Inquired, Drawn, Leads, Before, AllRenewed, Renewed
<1>6. \A x : MediaMessageOf(m, x) => MediaMessageOf(n, x)
  BY <1>3 DEF MediaMessageOf, PlayerOf
<1>7. KeepsWaiting(m, n)
  <2>1. SameReads(m, n)
    BY <1>3 DEF SameReads, ReadsAsMuch
  <2> QED BY <2>1, MediaSameWaits
<1> QED BY <1>1, <1>3, <1>4, <1>5, <1>6, <1>7 DEF MediaReady

\* The names are asked for, and nothing else is yet.
LEMMA MediaStartKeeps ==
    ASSUME MediaHolds(daemon, inbox, service), M!Start
    PROVE  MediaHolds(daemon', inbox', service')
<1>1. PICK d, s, m, a : d = daemon /\ s = inbox /\ m = service /\ a = M!Detach(service)
  OBVIOUS
<1>2. MediaHolds(d, s, m)
  BY <1>1
<1>3. d \in M!Bus /\ s \in Seq(MessagesOf(m)) /\ MediaSound(m)
  BY <1>2 DEF MediaHolds, MediaReady
<1>4. Detaches(m, a, s)
  BY <1>1, <1>3, MessagesAre, DetachTakes
<1>5. PICK b : b = SubscribedMedia(a)
  OBVIOUS
<1>6. /\ MediaReady(b, s) /\ b.generation = a.generation /\ b.calls = a.calls
      /\ b.players = a.players /\ KeepsWaiting(a, b)
      /\ \A x : MediaMessageOf(a, x) => MediaMessageOf(b, x)
  BY <1>4, <1>5, SubscribedMediaIs DEF Detaches, MediaReady
<1>7. PICK c : c = [what |-> "names", generation |-> b.generation]
  OBVIOUS
<1>8. MediaSound(b) /\ b.generation \in Nat /\ b.calls \in Seq(MediaCall)
      /\ Drawn(b) /\ AllRenewed(b)
  BY <1>6, MediaSoundFields DEF MediaReady
<1>9. c \in MediaCall /\ c.what = "names" /\ c.generation = b.generation
  BY <1>7, <1>8 DEF MediaCall
<1>10. MediaCallOf(b, c)
  BY <1>8, <1>9 DEF MediaCallOf
<1>11. PICK n : n = M!Ask(b, c)
  OBVIOUS
<1>12. /\ MediaSound(n) /\ KeepsWaiting(b, n)
       /\ MediaIs(n, b, b.serial, b.activity, b.revised, b.players, b.shown,
                  Append(b.calls, c))
  BY <1>8, <1>9, <1>10, <1>11, MediaAskKeeps
<1>13. service' = n /\ daemon' = d /\ inbox' = s
  <2>1. service' = M!Ask([M!Detach(service) EXCEPT !.subscribed = TRUE],
                         [what |-> "names",
                          generation |-> [M!Detach(service) EXCEPT !.subscribed = TRUE].generation])
    BY DEF M!Start
  <2>2. [M!Detach(service) EXCEPT !.subscribed = TRUE] = b
    BY <1>1, <1>5 DEF SubscribedMedia
  <2>3. daemon' = d /\ inbox' = s
    BY <1>1 DEF M!Start
  <2> QED BY <1>7, <1>11, <2>1, <2>2, <2>3
<1>14. /\ n.generation = b.generation /\ n.calls = Append(b.calls, c)
       /\ n.players = b.players /\ n.shown = b.shown /\ n.revised = b.revised
       /\ n.serial = b.serial
  BY <1>12 DEF MediaIs
<1>15. Inquired(n, s)
  <2>1. \A name \in M!Names : /\ NoneAbout(b.calls, b.generation, name)
                              /\ NoneAbout(s, b.generation, name)
                              /\ n.players[name].owner = 0
    BY <1>4, <1>6, <1>14 DEF Detaches, Unasked
  <2>2. \A name \in M!Names : OneAbout(n.calls, n.generation, name)
    BY <1>8, <1>9, <1>14, <2>1, AppendAbout
  <2> QED BY <1>14, <2>1, <2>2 DEF Inquired, SoleAbout, NoneAbout, OneAbout
<1>16. Drawn(n) /\ AllRenewed(n)
  BY <1>8, <1>14 DEF Drawn, Leads, Before, AllRenewed, Renewed
<1>17. \A x \in MediaMessage : MediaMessageOf(m, x) => MediaMessageOf(n, x)
  <2>1. \A x : MediaMessageOf(b, x) => MediaMessageOf(n, x)
    BY <1>14 DEF MediaMessageOf, PlayerOf
  <2> QED BY <1>4, <1>6, <2>1 DEF Detaches
<1>18. MediaWaits(n, s)
  BY <1>4, <1>6, <1>12 DEF Detaches, KeepsWaiting
<1>19. MediaHolds(d, s, n)
  BY <1>3, <1>12, <1>15, <1>16, <1>17, <1>18, MessagesStay DEF MediaHolds, MediaReady
<1> QED BY <1>13, <1>19

LEMMA MediaTransportKeeps ==
    ASSUME MediaHolds(daemon, inbox, service), M!Transport
    PROVE  MediaHolds(daemon', inbox', service')
<1>1. PICK d, s, m : d = daemon /\ s = inbox /\ m = service
  OBVIOUS
<1>2. MediaHolds(d, s, m) /\ MediaReady(m, s) /\ MediaSound(m)
  BY <1>1 DEF MediaHolds, MediaReady
<1>3. PICK owner : owner = m.players[M!Followed(m)].owner
  OBVIOUS
<1>4. M!Present(m) # {} /\ daemon' = d /\ inbox' = s
      /\ service' = M!Ask(m, [what |-> "transport", owner |-> owner])
  BY <1>1, <1>3 DEF M!Transport
<1>5. owner \in M!Owner
  <2>1. M!Followed(m) \in M!Names /\ owner # 0
    BY <1>2, <1>3, <1>4, FollowedLeads DEF Leads
  <2> QED BY <1>2, <1>3, <2>1, MediaSoundFields
<1>6. PICK c, n : c = [what |-> "transport", owner |-> owner] /\ n = M!Ask(m, c)
  OBVIOUS
<1>7. c \in MediaCall /\ c.what = "transport" /\ MediaCallOf(m, c)
  BY <1>5, <1>6 DEF MediaCall, MediaCallOf
<1>8. /\ MediaKeeps(m, n)
      /\ MediaIs(n, m, m.serial, m.activity, m.revised, m.players, m.shown,
                 Append(m.calls, c))
  BY <1>2, <1>6, <1>7, MediaAskKeeps
<1>9. n.players = m.players /\ n.shown = m.shown
  BY <1>8 DEF MediaIs
<1>10. Inquired(n, s) /\ Drawn(n) /\ AllRenewed(n)
  <2>1. Inquired(n, s)
    BY <1>2, <1>8, KeepsInquired DEF MediaReady
  <2> QED BY <1>2, <1>9, <2>1 DEF MediaReady, Drawn, Leads, Before, AllRenewed, Renewed
<1>11. MediaTakes(m, n, s)
  BY <1>8, <1>10, MediaKeepsMessages DEF MediaTakes, MediaReady, MediaKeeps, KeepsWaiting
<1>12. MediaHolds(d, s, n)
  BY <1>2, <1>11, MediaTakesHolds DEF MediaHolds
<1> QED BY <1>4, <1>6, <1>12

-----------------------------------------------------------------------------
(* What the bus adds. *)

LEMMA AddsAbout ==
    ASSUME NEW S, NEW s \in Seq(S), NEW q \in Seq(S), NEW e, NEW k, Adds(s, q, k, e), NEW g,
           NEW name, ~About(e, g, name)
    PROVE  /\ NoneAbout(s, g, name) => NoneAbout(q, g, name)
           /\ OneAbout(s, g, name) => OneAbout(q, g, name)
<1>1. PICK n \in Nat : n = Len(s)
  BY LenProperties
<1>2. k \in 1..n + 1 /\ Len(q) = n + 1 /\ q[k] = e
      /\ (\A i \in 1..k - 1 : q[i] = s[i]) /\ \A i \in k..n : q[i + 1] = s[i]
  BY <1>1 DEF Adds
<1> DEFINE At(i) == IF i < k THEN i ELSE i - 1
<1>3. ASSUME NEW i \in 1..n + 1, i # k
      PROVE  At(i) \in 1..n /\ q[i] = s[At(i)]
  <2>1. CASE i < k
    <3>1. i \in 1..k - 1 /\ i \in 1..n
      BY <1>2, <2>1
    <3> QED BY <1>2, <2>1, <3>1
  <2>2. CASE ~(i < k)
    <3>1. i - 1 \in k..n /\ i - 1 \in 1..n /\ i - 1 + 1 = i
      BY <1>2, <1>3, <2>2
    <3> QED BY <1>2, <2>2, <3>1
  <2> QED BY <2>1, <2>2
<1>4. \A i \in 1..n + 1, j \in 1..n + 1 :
          i # k /\ j # k /\ At(i) = At(j) => i = j
  BY <1>2
<1> HIDE DEF At
<1>5. NoneAbout(s, g, name) => NoneAbout(q, g, name)
  BY <1>1, <1>2, <1>3 DEF NoneAbout
<1>6. ASSUME OneAbout(s, g, name), NEW i \in 1..n + 1, NEW j \in 1..n + 1,
             About(q[i], g, name), About(q[j], g, name)
      PROVE  i = j
  <2>1. i # k /\ j # k
    BY <1>2, <1>6
  <2>2. /\ At(i) \in 1..n /\ At(j) \in 1..n
        /\ About(s[At(i)], g, name) /\ About(s[At(j)], g, name)
    BY <1>3, <1>6, <2>1
  <2>3. At(i) = At(j)
    BY <1>1, <1>6, <2>2 DEF OneAbout
  <2> QED BY <1>4, <2>1, <2>3
<1> QED BY <1>2, <1>5, <1>6 DEF OneAbout

LEMMA AddsReads ==
    ASSUME NEW S, NEW s \in Seq(S), NEW q \in Seq(S), NEW e, NEW k, Adds(s, q, k, e)
    PROVE  ReadsAsMuch(s, q)
<1>1. PICK n \in Nat : n = Len(s)
  BY LenProperties
<1>2. k \in 1..n + 1 /\ Len(q) = n + 1
      /\ (\A i \in 1..k - 1 : q[i] = s[i]) /\ \A i \in k..n : q[i + 1] = s[i]
  BY <1>1 DEF Adds
<1>3. ASSUME NEW i \in 1..n
      PROVE  \E j \in 1..n + 1 : q[j] = s[i]
  <2>1. CASE i < k
    <3>1. i \in 1..k - 1 /\ i \in 1..n + 1
      BY <1>2, <2>1
    <3> QED BY <1>2, <3>1
  <2>2. CASE ~(i < k)
    <3>1. i \in k..n /\ i + 1 \in 1..n + 1
      BY <1>2, <2>2
    <3> QED BY <1>2, <3>1
  <2> QED BY <2>1, <2>2
<1> QED BY <1>1, <1>2, <1>3 DEF ReadsAsMuch, HasRead

LEMMA AddsInquired ==
    ASSUME NEW m, NEW S, NEW s \in Seq(S), NEW q \in Seq(S), NEW e, NEW k, Adds(s, q, k, e),
           e.what \notin {"names", "owner"}, MediaReady(m, s), MediaWaits(m, s)
    PROVE  MediaReady(m, q) /\ MediaWaits(m, q)
<1>1. PICK g, c : g = m.generation /\ c = m.calls
  OBVIOUS
<1>2. \A name : /\ NoneAbout(s, g, name) => NoneAbout(q, g, name)
                /\ OneAbout(s, g, name) => OneAbout(q, g, name)
  <2>1. \A name : ~About(e, g, name)
    BY DEF About
  <2> QED BY <2>1, AddsAbout
<1>3. Inquired(m, s)
  BY DEF MediaReady
<1>4. Inquired(m, q)
  BY <1>1, <1>2, <1>3 DEF Inquired, SoleAbout, Unasked
<1>5. MediaWaits(m, q)
  BY AddsReads, MoreWaits
<1> QED BY <1>4, <1>5 DEF MediaReady

LEMMA SignalKeeps ==
    ASSUME NEW d \in M!Bus, NEW s, NEW m, NEW bus, MediaHolds(bus, s, m),
           NEW e \in MediaMessage, MediaMessageOf(m, e), e.what \notin {"names", "owner"}
    PROVE  /\ MediaHolds(d, s, m) /\ MediaHolds(d, Append(s, e), m)
           /\ s # <<>> => MediaHolds(d, M!Front(s) \o <<e, M!Last(s)>>, m)
<1>1. s \in Seq(MessagesOf(m)) /\ MediaReady(m, s) /\ MediaWaits(m, s)
      /\ e \in MessagesOf(m)
  BY DEF MediaHolds, MessagesOf
<1>2. PICK q : q = Append(s, e)
  OBVIOUS
<1>3. q \in Seq(MessagesOf(m)) /\ Adds(s, q, Len(s) + 1, e)
  BY <1>1, <1>2, AppendAdds
<1>4. MediaHolds(d, q, m)
  BY <1>1, <1>3, AddsInquired DEF MediaHolds
<1>5. ASSUME s # <<>>
      PROVE  MediaHolds(d, M!Front(s) \o <<e, M!Last(s)>>, m)
  <2>1. PICK p : p = Front(s) \o <<e, Last(s)>>
    OBVIOUS
  <2>2. p \in Seq(MessagesOf(m)) /\ Adds(s, p, Len(s), e)
    BY <1>1, <1>5, <2>1, OvertakeAdds
  <2>3. MediaHolds(d, p, m)
    BY <1>1, <2>2, AddsInquired DEF MediaHolds
  <2>4. M!Front(s) = Front(s) /\ M!Last(s) = Last(s)
    BY DEF M!Front, M!Last, Front, Last
  <2> QED BY <2>1, <2>3, <2>4
<1> QED BY <1>1, <1>2, <1>4, <1>5 DEF MediaHolds

\* The call that is answered is asked no more.
WithoutCall(m) == [m EXCEPT !.calls = Tail(@)]

LEMMA WithoutCallIs ==
    ASSUME NEW m, MediaSound(m), m.calls # <<>>
    PROVE  /\ MediaSound(WithoutCall(m))
           /\ MediaIs(WithoutCall(m), m, m.serial, m.activity, m.revised, m.players, m.shown,
                      Tail(m.calls))
           /\ Head(m.calls) = m.calls[1] /\ m.calls[1] \in MediaCall
           /\ MediaCallOf(m, m.calls[1])
           /\ \A x : MediaMessageOf(m, x) => MediaMessageOf(WithoutCall(m), x)
<1>1. PICK n : n = WithoutCall(m)
  OBVIOUS
<1>2. m \in MediaService /\ m.calls \in Seq(MediaCall)
  BY MediaSoundFields
<1>3. PICK t : t = Tail(m.calls)
  OBVIOUS
<1>4. /\ t \in Seq(MediaCall) /\ Drops(m.calls, t) /\ Len(m.calls) \in Nat \ {0}
      /\ Head(m.calls) = m.calls[1] /\ m.calls[1] \in MediaCall
  BY <1>2, <1>3, TailDrops
<1>5. MediaIs(n, m, m.serial, m.activity, m.revised, m.players, m.shown, t)
  BY <1>1, <1>2, <1>3, <1>4 DEF MediaIs, MediaService, WithoutCall
<1>6. /\ n \in MediaService /\ n.generation = m.generation /\ n.serial = m.serial
      /\ n.calls = t /\ n.players = m.players
  BY <1>5 DEF MediaIs
<1>7. \A i \in 1..Len(t) : MediaCallOf(n, t[i])
  <2> TAKE i \in 1..Len(t)
  <2>1. t[i] = m.calls[i + 1] /\ i + 1 \in 1..Len(m.calls)
    BY <1>4 DEF Drops
  <2>2. MediaCallOf(m, t[i])
    BY <2>1, MediaSoundFields
  <2> QED BY <1>6, <2>2 DEF MediaCallOf, PlayerOf
<1>8. MediaSound(n)
  BY <1>6, <1>7, MediaSoundFields DEF MediaSound
<1>9. MediaCallOf(m, m.calls[1])
  BY <1>4, MediaSoundFields
<1>10. \A x : MediaMessageOf(m, x) => MediaMessageOf(n, x)
  BY <1>6 DEF MediaMessageOf, PlayerOf
<1> QED BY <1>1, <1>3, <1>4, <1>5, <1>8, <1>9, <1>10

\* An answer is about the names its call is about, and of the read that was asked for.
AnswersCall(e, c) ==
    /\ \A g, name : About(e, g, name) => About(c, g, name)
    /\ \A name, interface, serial, g :
           ReadOf(c, name, interface, serial, g) => ReadOf(e, name, interface, serial, g)

LEMMA AnsweredKeeps ==
    ASSUME NEW d, NEW s, NEW m, MediaHolds(d, s, m), m.calls # <<>>
    PROVE  /\ Head(m.calls).what # "read" => MediaHolds(d, s, WithoutCall(m))
           /\ \A e \in MediaMessage :
                  MediaMessageOf(m, e) /\ AnswersCall(e, Head(m.calls))
                  => MediaHolds(d, Append(s, e), WithoutCall(m))
<1>1. d \in M!Bus /\ s \in Seq(MessagesOf(m)) /\ MediaReady(m, s) /\ MediaSound(m)
      /\ Inquired(m, s) /\ MediaWaits(m, s)
  BY DEF MediaHolds, MediaReady
<1>2. PICK n, t, g, c : /\ n = WithoutCall(m) /\ t = Tail(m.calls) /\ g = m.generation
                        /\ c = m.calls[1]
  OBVIOUS
<1>3. /\ MediaSound(n) /\ Head(m.calls) = c
      /\ MediaIs(n, m, m.serial, m.activity, m.revised, m.players, m.shown, t)
      /\ \A x : MediaMessageOf(m, x) => MediaMessageOf(n, x)
  BY <1>1, <1>2, WithoutCallIs
<1>4. /\ n.generation = g /\ n.revised = m.revised /\ n.players = m.players
      /\ n.shown = m.shown /\ n.calls = t
  BY <1>2, <1>3 DEF MediaIs
<1>5. \A name : /\ NoneAbout(m.calls, g, name) => NoneAbout(t, g, name)
                /\ OneAbout(m.calls, g, name) => OneAbout(t, g, name)
                /\ OneAbout(m.calls, g, name) /\ About(c, g, name) => NoneAbout(t, g, name)
                /\ About(c, g, name) => ~NoneAbout(m.calls, g, name)
  <2>1. m.calls \in Seq(MediaCall) /\ t \in Seq(MediaCall) /\ Drops(m.calls, t)
    BY <1>1, <1>2, MediaSoundFields, TailDrops
  <2> QED BY <1>2, <2>1, DropsAbout
<1>6. \A name, interface : Coming(m, m.calls, name, interface) =>
           \/ Coming(n, n.calls, name, interface)
           \/ ReadOf(c, name, interface, n.players[name].serial, n.generation)
  <2>1. m.calls \in Seq(MediaCall) /\ t \in Seq(MediaCall) /\ Drops(m.calls, t)
    BY <1>1, <1>2, MediaSoundFields, TailDrops
  <2> QED BY <1>2, <1>4, <2>1, DropsReads DEF Coming
<1>7. \A name, interface : Coming(m, s, name, interface) => Coming(n, s, name, interface)
  BY <1>2, <1>4 DEF Coming
<1>8. Drawn(n) /\ AllRenewed(n)
  BY <1>1, <1>4 DEF MediaReady, Drawn, Leads, Before, AllRenewed, Renewed
<1>9. Inquired(n, s)
  BY <1>1, <1>2, <1>4, <1>5 DEF Inquired, SoleAbout, Unasked
<1>10. s \in Seq(MessagesOf(n))
  BY <1>1, <1>3, MessagesStay
<1>11. ASSUME c.what # "read"
      PROVE  MediaHolds(d, s, n)
  <2>1. MediaWaits(n, s)
    BY <1>1, <1>4, <1>11, <1>6, <1>7 DEF MediaWaits, Waiting, ReadOf
  <2> QED BY <1>1, <1>3, <1>8, <1>9, <1>10, <2>1 DEF MediaHolds, MediaReady
<1>12. ASSUME NEW e \in MediaMessage, MediaMessageOf(m, e), AnswersCall(e, c)
       PROVE  MediaHolds(d, Append(s, e), n)
  <2>1. PICK q : q = Append(s, e)
    OBVIOUS
  <2>2. e \in MessagesOf(n)
    BY <1>3, <1>12 DEF MessagesOf
  <2>3. q \in Seq(MessagesOf(n)) /\ Adds(s, q, Len(s) + 1, e)
    BY <1>10, <2>1, <2>2, AppendAdds
  <2>4. \A name \in M!Names :
            /\ SoleAbout(t, q, g, name)
            /\ \/ name \in m.revised \/ m.players[name].owner = 0
               \/ Unasked(t, q, g, name)
    <3> TAKE name \in M!Names
    <3>1. /\ SoleAbout(m.calls, s, g, name)
          /\ \/ name \in m.revised \/ m.players[name].owner = 0
             \/ Unasked(m.calls, s, g, name)
      BY <1>1, <1>2 DEF Inquired
    <3>2. CASE About(e, g, name)
      <4>1. About(c, g, name)
        BY <1>12, <3>2 DEF AnswersCall
      <4>2. NoneAbout(t, g, name) /\ NoneAbout(s, g, name) /\ ~NoneAbout(m.calls, g, name)
        BY <1>5, <3>1, <4>1 DEF SoleAbout
      <4>3. OneAbout(q, g, name)
        BY <1>10, <2>1, <2>2, <4>2, AppendAbout
      <4>4. OneAbout(t, g, name)
        BY <4>2 DEF OneAbout, NoneAbout
      <4> QED BY <3>1, <4>2, <4>3, <4>4 DEF SoleAbout, Unasked
    <3>3. CASE ~About(e, g, name)
      <4>1. /\ NoneAbout(s, g, name) => NoneAbout(q, g, name)
            /\ OneAbout(s, g, name) => OneAbout(q, g, name)
        BY <1>10, <2>1, <2>2, <3>3, AppendAbout
      <4> QED BY <1>5, <3>1, <4>1 DEF SoleAbout, Unasked
    <3> QED BY <3>2, <3>3
  <2>5. Inquired(n, q)
    BY <1>4, <2>4 DEF Inquired
  <2>6. MediaWaits(n, q)
    <3>1. ReadsAsMuch(s, q) /\ \A name, interface, serial, i :
              ReadOf(e, name, interface, serial, i) => HasRead(q, name, interface, serial, i)
      BY <1>10, <2>1, <2>2, AppendReads
    <3>2. \A name, interface : Coming(n, s, name, interface) => Coming(n, q, name, interface)
      BY <3>1 DEF Coming, ReadsAsMuch
    <3>3. \A name, interface :
              ReadOf(c, name, interface, n.players[name].serial, n.generation)
              => Coming(n, q, name, interface)
      BY <1>12, <3>1 DEF AnswersCall, Coming
    <3> QED BY <1>1, <1>4, <1>6, <1>7, <3>2, <3>3 DEF MediaWaits, Waiting
  <2> QED BY <1>1, <1>3, <1>8, <2>1, <2>3, <2>5, <2>6 DEF MediaHolds, MediaReady
<1> QED BY <1>2, <1>3, <1>11, <1>12

LEMMA SaysIs ==
    ASSUME NEW d \in M!Bus, NEW owner \in M!Owner, NEW interface \in M!Interface
    PROVE  M!Says(d, owner, interface) \in M!Fact /\ M!Says(d, owner, interface).owner = owner
<1>1. PICK value : value = d.plays[owner][interface]
  OBVIOUS
<1>2. value \in 0..1
  <2>1. d.plays \in [M!Owner -> [M!Interface -> 0..1]]
    BY DEF M!Bus
  <2>2. d.plays[owner] \in [M!Interface -> 0..1]
    BY <2>1
  <2> QED BY <1>1, <2>2
<1>3. M!Says(d, owner, interface) = [owner |-> owner, known |-> TRUE, value |-> value]
  BY <1>1 DEF M!Says
<1> QED BY <1>2, <1>3 DEF M!Fact

LEMMA MediaAnswerKeeps ==
    ASSUME MediaHolds(daemon, inbox, service), M!Answer
    PROVE  MediaHolds(daemon', inbox', service')
<1>1. PICK d, s, m, c, n : /\ d = daemon /\ s = inbox /\ m = service
                           /\ c = Head(service.calls) /\ n = WithoutCall(service)
  OBVIOUS
<1>2. MediaHolds(d, s, m) /\ MediaSound(m) /\ d \in M!Bus
  BY <1>1 DEF MediaHolds, MediaReady
<1>3. m.calls # <<>> /\ daemon' = d /\ service' = n
  BY <1>1 DEF M!Answer, WithoutCall
<1>4. c = Head(m.calls) /\ c \in MediaCall /\ MediaCallOf(m, c)
  BY <1>1, <1>2, <1>3, WithoutCallIs
<1>5. /\ c.what # "read" => MediaHolds(d, s, n)
      /\ \A e \in MediaMessage : MediaMessageOf(m, e) /\ AnswersCall(e, c)
                                 => MediaHolds(d, Append(s, e), n)
  BY <1>1, <1>2, <1>3, <1>4, AnsweredKeeps
<1>6. \/ inbox' = s /\ c.what # "read"
      \/ \E refused \in BOOLEAN : M!Answered(c, refused)
  BY <1>1 DEF M!Answer
<1>7. ASSUME NEW refused \in BOOLEAN, M!Answered(c, refused)
      PROVE  MediaHolds(daemon', inbox', service')
  <2>1. CASE c.what = "names"
    <3>1. PICK names : names = {name \in M!Names : d.owners[name] # 0}
      OBVIOUS
    <3>2. PICK e : e = [what |-> "names", generation |-> c.generation, names |-> names]
      OBVIOUS
    <3>3. inbox' = Append(s, e)
      BY <1>1, <1>7, <2>1, <3>1, <3>2 DEF M!Answered, M!Arrive
    <3>4. c.generation \in Nat /\ c.generation <= m.generation
      BY <1>4, <2>1 DEF MediaCall, MediaCallOf
    <3>5. e \in MediaMessage /\ e.what = "names" /\ e.generation = c.generation
      BY <3>1, <3>2, <3>4 DEF MediaMessage
    <3>6. MediaMessageOf(m, e) /\ AnswersCall(e, c)
      BY <2>1, <3>4, <3>5 DEF MediaMessageOf, AnswersCall, About, ReadOf
    <3> QED BY <1>3, <1>5, <3>3, <3>5, <3>6
  <2>2. CASE c.what = "owner"
    <3>1. PICK owner : owner = d.owners[c.name]
      OBVIOUS
    <3>2. PICK e : e = [what |-> "owner", generation |-> c.generation, name |-> c.name,
                        owner |-> owner]
      OBVIOUS
    <3>3. inbox' = Append(s, e)
      BY <1>1, <1>7, <2>2, <3>1, <3>2 DEF M!Answered, M!Arrive
    <3>4. c.generation \in Nat /\ c.generation <= m.generation /\ c.name \in M!Names
      BY <1>4, <2>2 DEF MediaCall, MediaCallOf
    <3>5. owner \in M!Owner \cup {0}
      BY <1>2, <3>1, <3>4 DEF M!Bus
    <3>6. e \in MediaMessage /\ e.what = "owner" /\ e.generation = c.generation
          /\ e.name = c.name
      BY <3>2, <3>4, <3>5 DEF MediaMessage
    <3>7. MediaMessageOf(m, e) /\ AnswersCall(e, c)
      BY <2>2, <3>4, <3>6 DEF MediaMessageOf, AnswersCall, About, ReadOf
    <3> QED BY <1>3, <1>5, <3>3, <3>6, <3>7
  <2>3. CASE c.what = "read"
    <3>1. PICK f : f = IF refused THEN M!Unknown ELSE M!Says(d, c.owner, c.interface)
      OBVIOUS
    <3>2. PICK e : e = [what |-> "read", generation |-> c.generation, name |-> c.name,
                        serial |-> c.serial, interface |-> c.interface,
                        refused |-> refused, fact |-> f]
      OBVIOUS
    <3>3. inbox' = Append(s, e)
      BY <1>1, <1>7, <2>3, <3>1, <3>2 DEF M!Answered, M!Arrive
    <3>4. /\ c.generation \in Nat /\ c.name \in M!Names /\ c.serial \in Nat
          /\ c.interface \in M!Interface /\ c.owner \in M!Owner
          /\ PlayerOf(m, c.name, c.serial, c.owner)
      BY <1>4, <2>3 DEF MediaCall, MediaCallOf
    <3>5. f \in M!Fact /\ f.owner \in {0, c.owner}
      BY <1>2, <3>1, <3>4, SaysIs, NoPlayerIs
    <3>6. /\ e \in MediaMessage /\ e.what = "read" /\ e.name = c.name
          /\ e.serial = c.serial /\ e.fact = f /\ e.interface = c.interface
          /\ e.generation = c.generation
      BY <3>2, <3>4, <3>5 DEF MediaMessage
    <3>7. PlayerOf(m, e.name, e.serial, f.owner)
      BY <3>4, <3>5, <3>6 DEF PlayerOf
    <3>8. MediaMessageOf(m, e) /\ AnswersCall(e, c)
      BY <3>4, <3>6, <3>7 DEF MediaMessageOf, AnswersCall, About, ReadOf
    <3> QED BY <1>3, <1>5, <3>3, <3>6, <3>8
  <2>4. CASE c.what = "transport"
    <3>1. inbox' = s
      BY <1>1, <1>7, <2>4 DEF M!Answered
    <3> QED BY <1>3, <1>5, <2>4, <3>1
  <2> QED BY <1>7, <2>1, <2>2, <2>3, <2>4 DEF M!Answered
<1> QED BY <1>3, <1>5, <1>6, <1>7

LEMMA OwnerChangesKeep ==
    ASSUME MediaHolds(daemon, inbox, service), daemon' \in M!Bus, NEW name \in M!Names,
           NEW owner \in M!Owner \cup {0}, M!OwnerChanges(name, owner)
    PROVE  MediaHolds(daemon', inbox', service')
<1>1. PICK d, s, m, bus : d = daemon' /\ s = inbox /\ m = service /\ bus = daemon
  OBVIOUS
<1>2. PICK e : e = [what |-> "nameOwnerChanged", name |-> name, owner |-> owner]
  OBVIOUS
<1>3. inbox' = (IF m.subscribed THEN Append(s, e) ELSE s) /\ service' = m
  BY <1>1, <1>2 DEF M!OwnerChanges, M!Subscribed
<1>4. e \in MediaMessage /\ e.what = "nameOwnerChanged"
  BY <1>2 DEF MediaMessage
<1>5. MediaMessageOf(m, e) /\ MediaHolds(bus, s, m) /\ d \in M!Bus
  BY <1>1, <1>4 DEF MediaMessageOf
<1>6. MediaHolds(d, s, m) /\ MediaHolds(d, Append(s, e), m)
  BY <1>4, <1>5, SignalKeeps
<1> QED BY <1>1, <1>3, <1>6

LEMMA TakeNameKeeps ==
    ASSUME MediaHolds(daemon, inbox, service), M!TakeName
    PROVE  MediaHolds(daemon', inbox', service')
<1>1. PICK d : d = daemon
  OBVIOUS
<1>2. d \in M!Bus /\ d.seen < MaxProcesses
  BY <1>1 DEF MediaHolds, M!TakeName
<1>3. PICK name \in M!Names, owner \in {d.seen + 1} \cup {x \in M!Owner : M!Alive(x)} :
          /\ daemon' = [d EXCEPT !.owners[name] = owner, !.seen = @ + 1]
          /\ M!OwnerChanges(name, owner)
  BY <1>1 DEF M!TakeName
<1>4. PICK seen : seen = d.seen + 1
  OBVIOUS
<1>5. seen \in 0..MaxProcesses /\ seen \in M!Owner
  <2>1. d.seen \in 0..MaxProcesses /\ MaxProcesses \in Nat
    BY <1>2, ReadingsAssumption DEF M!Bus
  <2> QED BY <1>2, <1>4, <2>1 DEF M!Owner
<1>6. owner \in M!Owner
  BY <1>3, <1>4, <1>5
<1>7. daemon' \in M!Bus
  <2>1. PICK owners : owners = [d.owners EXCEPT ![name] = owner]
    OBVIOUS
  <2>2. owners \in [M!Names -> M!Owner \cup {0}]
    BY <1>2, <1>6, <2>1 DEF M!Bus
  <2>3. daemon' = [d EXCEPT !.owners = owners, !.seen = seen]
    BY <1>3, <1>4, <2>1
  <2> QED BY <1>2, <1>5, <2>2, <2>3 DEF M!Bus
<1> QED BY <1>3, <1>6, <1>7, OwnerChangesKeep

LEMMA ReleaseNameKeeps ==
    ASSUME MediaHolds(daemon, inbox, service), M!ReleaseName
    PROVE  MediaHolds(daemon', inbox', service')
<1>1. PICK d, none : d = daemon /\ none = 0
  OBVIOUS
<1>2. d \in M!Bus
  BY <1>1 DEF MediaHolds
<1>3. PICK name \in M!Names : /\ daemon' = [d EXCEPT !.owners[name] = none]
                              /\ M!OwnerChanges(name, none)
  BY <1>1 DEF M!ReleaseName
<1>4. daemon' \in M!Bus
  <2>1. PICK owners : owners = [d.owners EXCEPT ![name] = none]
    OBVIOUS
  <2>2. owners \in [M!Names -> M!Owner \cup {0}]
    BY <1>1, <1>2, <2>1 DEF M!Bus
  <2>3. daemon' = [d EXCEPT !.owners = owners]
    BY <1>3, <2>1
  <2> QED BY <1>2, <2>2, <2>3 DEF M!Bus
<1>5. none \in M!Owner \cup {0}
  BY <1>1
<1> QED BY <1>3, <1>4, <1>5, OwnerChangesKeep

LEMMA PlayerChangesKeeps ==
    ASSUME MediaHolds(daemon, inbox, service), M!PlayerChanges
    PROVE  MediaHolds(daemon', inbox', service')
<1>1. PICK d, s, m : d = daemon /\ s = inbox /\ m = service
  OBVIOUS
<1>2. MediaHolds(d, s, m) /\ d \in M!Bus /\ service' = m
  BY <1>1 DEF MediaHolds, M!PlayerChanges
<1>3. PICK owner \in M!Owner, interface \in M!Interface, known \in BOOLEAN :
          /\ daemon' = [d EXCEPT !.plays[owner][interface] = 1 - @]
          /\ M!Sent([what |-> "propertiesChanged", owner |-> owner, interface |-> interface,
                     fact |-> IF known
                              THEN M!Says([d EXCEPT !.plays[owner][interface] = 1 - @],
                                          owner, interface)
                              ELSE M!Invalidated])
  BY <1>1 DEF M!PlayerChanges
<1>4. PICK bus : bus = [d EXCEPT !.plays[owner][interface] = 1 - @]
  OBVIOUS
<1>5. bus \in M!Bus
  <2>1. PICK plays : plays = d.plays
    OBVIOUS
  <2>2. plays \in [M!Owner -> [M!Interface -> 0..1]]
    BY <1>2, <2>1 DEF M!Bus
  <2>3. plays[owner] \in [M!Interface -> 0..1] /\ plays[owner][interface] \in 0..1
    BY <2>2
  <2>4. PICK value : value = 1 - plays[owner][interface]
    OBVIOUS
  <2>5. value \in 0..1
    BY <2>3, <2>4
  <2>6. PICK row : row = [plays[owner] EXCEPT ![interface] = value]
    OBVIOUS
  <2>7. row \in [M!Interface -> 0..1]
    BY <2>3, <2>5, <2>6
  <2>8. PICK all : all = [plays EXCEPT ![owner] = row]
    OBVIOUS
  <2>9. all \in [M!Owner -> [M!Interface -> 0..1]]
    BY <2>2, <2>7, <2>8
  <2>10. bus = [d EXCEPT !.plays = all]
    BY <1>4, <2>1, <2>4, <2>6, <2>8
  <2> QED BY <1>2, <2>9, <2>10 DEF M!Bus
<1>6. PICK f : f = IF known THEN M!Says(bus, owner, interface) ELSE M!Invalidated
  OBVIOUS
<1>7. PICK e : e = [what |-> "propertiesChanged", owner |-> owner, interface |-> interface,
                    fact |-> f]
  OBVIOUS
<1>8. f \in MediaChanges(owner)
  BY <1>5, <1>6, SaysIs DEF MediaChanges, MediaFacts
<1>9. e \in MediaMessage /\ e.what = "propertiesChanged" /\ e.fact = f /\ e.owner = owner
  BY <1>7, <1>8, MediaOfAny DEF MediaMessage
<1>10. MediaMessageOf(m, e)
  BY <1>8, <1>9 DEF MediaMessageOf
<1>11. M!Sent(e) /\ daemon' = bus
  BY <1>3, <1>4, <1>6, <1>7
<1>12. \/ inbox' = Append(s, e)
       \/ s # <<>> /\ inbox' = M!Front(s) \o <<e, M!Last(s)>>
  BY <1>1, <1>11 DEF M!Sent
<1>13. /\ MediaHolds(bus, Append(s, e), m)
       /\ s # <<>> => MediaHolds(bus, M!Front(s) \o <<e, M!Last(s)>>, m)
  BY <1>2, <1>5, <1>9, <1>10, SignalKeeps
<1> QED BY <1>2, <1>11, <1>12, <1>13

LEMMA BusLostKeeps ==
    ASSUME MediaHolds(daemon, inbox, service), M!BusLost
    PROVE  MediaHolds(daemon', inbox', service')
<1>1. PICK d, s, m, bus : d = daemon' /\ s = inbox /\ m = service /\ bus = daemon
  OBVIOUS
<1>2. PICK e : e = [what |-> "disconnected"]
  OBVIOUS
<1>3. inbox' = Append(s, e) /\ service' = m /\ d = [bus EXCEPT !.up = FALSE]
  BY <1>1, <1>2 DEF M!BusLost
<1>4. e \in MediaMessage /\ e.what = "disconnected"
  BY <1>2 DEF MediaMessage
<1>5. MediaHolds(bus, s, m) /\ bus \in M!Bus
  BY <1>1 DEF MediaHolds
<1>6. d \in M!Bus /\ MediaMessageOf(m, e)
  BY <1>3, <1>4, <1>5 DEF M!Bus, MediaMessageOf
<1>7. MediaHolds(d, Append(s, e), m)
  BY <1>4, <1>5, <1>6, SignalKeeps
<1> QED BY <1>1, <1>3, <1>7

LEMMA MediaHoldsInit ==
    ASSUME M!Init
    PROVE  MediaHolds(daemon, inbox, service)
<1>1. PICK m, players, shown : /\ m = service /\ shown = M!NoReading
                               /\ players = [name \in M!Names |-> M!NoPlayer]
  OBVIOUS
<1>2. m = [subscribed |-> FALSE, generation |-> 0, serial |-> 0, activity |-> 0,
           revised |-> {}, players |-> players, shown |-> shown, calls |-> <<>>]
  BY <1>1 DEF M!Init
<1>3. /\ players \in [M!Names -> M!Player]
      /\ \A name \in M!Names : players[name] = M!NoPlayer
  BY <1>1, NoPlayerIs DEF PlayerSound
<1>4. shown \in MediaShown /\ shown.owner = 0 /\ shown.player.owner = 0
      /\ shown.identity.owner = 0
  BY <1>1, NoPlayerIs DEF M!NoReading, MediaShown
<1>5. <<>> \in Seq(MediaCall) /\ Len(<<>>) = 0
  OBVIOUS
<1>6. /\ m \in MediaService /\ m.generation = 0 /\ m.serial = 0 /\ m.players = players
      /\ m.shown = shown /\ m.calls = <<>>
  BY <1>2, <1>3, <1>4, <1>5 DEF MediaService
<1>7. MediaSound(m)
  BY <1>3, <1>5, <1>6, NoPlayerIs DEF MediaSound
<1>8. \A g, name : NoneAbout(<<>>, g, name) /\ OneAbout(<<>>, g, name)
  BY <1>5 DEF NoneAbout, OneAbout
<1>9. Inquired(m, <<>>)
  BY <1>6, <1>8 DEF Inquired, SoleAbout, Unasked
<1>10. Drawn(m) /\ AllRenewed(m)
  BY <1>3, <1>4, <1>6, NoPlayerIs DEF Drawn, Leads, AllRenewed, Renewed
<1>11. daemon \in M!Bus
  <2>1. daemon \in [up : {TRUE}, owners : [M!Names -> {0}], seen : {0},
                    plays : [M!Owner -> [M!Interface -> {0}]]]
    BY DEF M!Init
  <2>2. PICK one, two, three : /\ one = [M!Names -> {0}]
                               /\ two = [M!Owner -> [M!Interface -> {0}]] /\ three = {0}
    OBVIOUS
  <2>3. /\ one \subseteq [M!Names -> M!Owner \cup {0}] /\ three \subseteq 0..MaxProcesses
        /\ two \subseteq [M!Owner -> [M!Interface -> 0..1]]
    <3>1. three \subseteq 0..MaxProcesses
      BY <2>2, ReadingsAssumption
    <3>2. one \subseteq [M!Names -> M!Owner \cup {0}]
      BY <2>2
    <3>3. [M!Interface -> {0}] \subseteq [M!Interface -> 0..1]
      OBVIOUS
    <3>4. two \subseteq [M!Owner -> [M!Interface -> 0..1]]
      BY <2>2, <3>3
    <3> QED BY <3>1, <3>2, <3>4
  <2>4. daemon \in [up : {TRUE}, owners : one, seen : three, plays : two]
    BY <2>1, <2>2
  <2> QED BY <2>3, <2>4 DEF M!Bus
<1>12. inbox = <<>> /\ <<>> \in Seq(MessagesOf(m))
  BY DEF M!Init
<1>13. MediaWaits(m, <<>>)
  BY <1>3, <1>6, NoPlayerIs DEF MediaWaits, Waiting
<1> QED BY <1>1, <1>7, <1>9, <1>10, <1>11, <1>12, <1>13 DEF MediaHolds, MediaReady

LEMMA MediaHoldsWellFormed ==
    ASSUME MediaHolds(daemon, inbox, service)
    PROVE  M!WellFormed
<1>1. PICK m : m = service
  OBVIOUS
<1>2. MediaSound(m) /\ Drawn(m) /\ AllRenewed(m) /\ daemon \in M!Bus
  BY <1>1 DEF MediaHolds, MediaReady
<1>3. \A name \in M!Names, interface \in M!Interface :
          /\ m.players[name] \in M!Player
          /\ (m.players[name].read[interface].held # <<>>
              \/ m.players[name].read[interface].refresh)
             => m.players[name].read[interface].reading
  BY <1>2, MediaSoundFields DEF AllRenewed, Renewed, PlayerSound, PlayerReadBy
<1>4. M!TypeOK
  BY <1>1, <1>2, <1>3 DEF M!TypeOK
<1>5. \A interface \in M!Interface : m.shown[interface].owner \in {0, m.shown.owner}
  BY <1>2 DEF Drawn, M!Interface
<1>6. M!Present(m) = {} => m.shown.owner = 0
  BY <1>2 DEF M!Present, Drawn
<1>7. M!Present(m) # {} =>
          \/ m.shown.owner = m.players[M!Followed(m)].owner
          \/ Fresh(m.players[M!Followed(m)])
  BY <1>2, FollowedLeads DEF Drawn
<1>8. M!ShownIsAsked
  BY <1>1, <1>5, <1>6, <1>7 DEF M!ShownIsAsked, Fresh
<1>9. M!ReadAlwaysEnds
  <2>1. MediaWaits(m, inbox) /\ DOMAIN inbox = 1..Len(inbox)
        /\ DOMAIN m.calls = 1..Len(m.calls)
    BY <1>1, <1>2, MediaSoundFields, LenProperties DEF MediaHolds
  <2> QED BY <1>1, <2>1 DEF M!ReadAlwaysEnds, MediaWaits, Waiting, Coming, HasRead, ReadOf
<1> QED BY <1>4, <1>8, <1>9 DEF M!WellFormed

LEMMA MediaNextKeeps ==
    ASSUME MediaHolds(daemon, inbox, service), [M!Next]_M!vars
    PROVE  MediaHolds(daemon', inbox', service')
<1>1. CASE M!Next
  BY <1>1, MediaStartKeeps, MediaEventLoopKeeps, MediaTransportKeeps, MediaAnswerKeeps,
     TakeNameKeeps, ReleaseNameKeeps, PlayerChangesKeeps, BusLostKeeps DEF M!Next
<1>2. CASE UNCHANGED M!vars
  <2>1. daemon' = daemon /\ inbox' = inbox /\ service' = service
    BY <1>2 DEF M!vars
  <2> QED BY <2>1
<1> QED BY <1>1, <1>2

\* Whatever the players and the bus do, what MediaService shows is of one process, and of
\* the one a transport key would go to, but for a player that was only found by its name;
\* and a player that holds changes back has the read it waits for on its way.
THEOREM MediaWellFormed == M!Spec => []M!WellFormed
<1> DEFINE Inv == MediaHolds(daemon, inbox, service)
<1>1. M!Init => Inv
  BY MediaHoldsInit
<1>2. Inv /\ [M!Next]_M!vars => Inv'
  BY MediaNextKeeps
<1>3. Inv => M!WellFormed
  BY MediaHoldsWellFormed
<1> QED BY <1>1, <1>2, <1>3, PTL DEF M!Spec

-----------------------------------------------------------------------------
(* The three services, each behaviour one of theirs. *)

EachInv ==
    /\ subject \in {"battery", "network", "media"}
    /\ subject = "battery" => BatteryInv
    /\ subject = "network" => NetHolds(daemon, inbox, service, bounds)
    /\ subject = "media" => MediaHolds(daemon, inbox, service)

LEMMA EachInvInit == EachInit => EachInv
  BY BatteryInvInit, NetHoldsInit, MediaHoldsInit DEF EachInit, EachInv

LEMMA EachInvNext == EachInv /\ [EachNext]_readingVars => EachInv'
<1> SUFFICES ASSUME EachInv, [EachNext]_readingVars
             PROVE  EachInv'
  OBVIOUS
<1>1. CASE OfBattery
  <2>1. BatteryInv /\ [Next]_vars /\ subject' = "battery"
    BY <1>1 DEF OfBattery, EachInv
  <2>2. BatteryInv'
    BY <2>1, BatteryNextKeeps
  <2> QED BY <2>1, <2>2 DEF EachInv
<1>2. CASE OfNetwork
  <2>1. NetHolds(daemon, inbox, service, bounds) /\ [N!Next]_N!vars /\ subject' = "network"
    BY <1>2 DEF OfNetwork, EachInv
  <2>2. NetHolds(daemon', inbox', service', bounds')
    BY <2>1, NetNextKeeps
  <2> QED BY <2>1, <2>2 DEF EachInv
<1>3. CASE OfMedia
  <2>1. MediaHolds(daemon, inbox, service) /\ [M!Next]_M!vars /\ subject' = "media"
    BY <1>3 DEF OfMedia, EachInv
  <2>2. MediaHolds(daemon', inbox', service')
    BY <2>1, MediaNextKeeps
  <2> QED BY <2>1, <2>2 DEF EachInv
<1>4. CASE UNCHANGED readingVars
  <2>1. /\ daemon' = daemon /\ inbox' = inbox /\ service' = service /\ bounds' = bounds
        /\ subject' = subject
    BY <1>4 DEF readingVars
  <2>2. BatteryInv => BatteryInv'
    <3>1. UNCHANGED vars
      BY <2>1 DEF vars
    <3> QED BY <3>1, BatteryNextKeeps
  <2>3. /\ NetHolds(daemon', inbox', service', bounds')
               = NetHolds(daemon, inbox, service, bounds)
        /\ MediaHolds(daemon', inbox', service') = MediaHolds(daemon, inbox, service)
    BY <2>1
  <2> QED BY <2>1, <2>2, <2>3 DEF EachInv
<1> QED BY <1>1, <1>2, <1>3, <1>4 DEF EachNext

\* Each of the three services is well formed whatever its daemon does: what is drawn is of
\* one source, and changes are held back by NetworkService and MediaService only for a read
\* that is on its way, by BatteryService for one that is, or that an earlier walk began.
THEOREM ReadingsWellFormed == EachInit /\ [][EachNext]_readingVars => []EachWellFormed
<1>1. EachInv => EachWellFormed
  BY BatteryInvWellFormed, NetHoldsWellFormed, MediaHoldsWellFormed
     DEF EachInv, EachWellFormed
<1> QED BY <1>1, EachInvInit, EachInvNext, PTL
==============================================================================
