---------------------------- MODULE Control_proofs ----------------------------
(* Proofs about the launcher and the socket that toggles it, for any number of *)
(* applications and clients: what the open panel lists is current, a scan is   *)
(* never taken for an answer to a request that came too late for it, no launch *)
(* is forgotten, and every line is answered once, in order, with what it did.  *)
EXTENDS Control, SequenceTheorems, FunctionTheorems, FiniteSetTheorems, WellFoundedInduction,
        TLAPS

-----------------------------------------------------------------------------
(* The ranking.                                                              *)

\* Of two applications one is before the other.
LEMMA BeforeOrders ==
    ASSUME NEW h \in History, NEW a \in App, NEW b \in App, NEW c \in App
    PROVE  /\ ~Before(h, a, a)
           /\ a # b => Before(h, a, b) \/ Before(h, b, a)
           /\ Before(h, a, b) => ~Before(h, b, a)
           /\ Before(h, a, b) /\ Before(h, b, c) => Before(h, a, c)
<1>1. h[a] \in Nat /\ h[b] \in Nat /\ h[c] \in Nat
  BY DEF History
<1>2. a \in Nat /\ b \in Nat /\ c \in Nat
  BY DEF App
<1> QED BY <1>1, <1>2 DEF Before

\* There is an order of them all: each has as many before it as come before it.
LEMMA SortedExists ==
    ASSUME NEW h \in History, NEW S \in SUBSET App
    PROVE  /\ Cardinality(S) \in 0..NumApps
           /\ \E all \in [1..Cardinality(S) -> S] :
                  \A i, j \in DOMAIN all : i < j => Before(h, all[i], all[j])
<1> DEFINE n == Cardinality(S)
           Earlier(a) == {b \in S : Before(h, b, a)}
           place == [a \in S |-> Cardinality(Earlier(a)) + 1]
<1>1. NumApps \in Nat
  BY LauncherAssumption
<1>2. IsFiniteSet(App) /\ Cardinality(App) = NumApps
  <2>1. IF 1 > NumApps THEN NumApps = 0 ELSE NumApps - 1 + 1 = NumApps
    BY <1>1
  <2> QED BY <1>1, <2>1, FS_Interval DEF App
<1>3. IsFiniteSet(S) /\ n \in Nat /\ n <= NumApps
  BY <1>2, FS_Subset, FS_CardinalityType
<1>4. ASSUME NEW a \in S
      PROVE  /\ IsFiniteSet(Earlier(a)) /\ Cardinality(Earlier(a)) \in Nat
             /\ Cardinality(Earlier(a)) < n
  <2>1. Earlier(a) \in SUBSET S /\ a \notin Earlier(a)
    BY BeforeOrders
  <2> HIDE DEF Earlier
  <2>2. /\ IsFiniteSet(Earlier(a)) /\ Cardinality(Earlier(a)) <= n
        /\ n = Cardinality(Earlier(a)) => S = Earlier(a)
    BY <1>3, <2>1, FS_Subset
  <2>3. Cardinality(Earlier(a)) \in Nat
    BY <2>2, FS_CardinalityType
  <2> QED BY <1>3, <2>1, <2>2, <2>3
<1>5. ASSUME NEW a \in S, NEW b \in S, Before(h, a, b)
      PROVE  Cardinality(Earlier(a)) < Cardinality(Earlier(b))
  <2>1. Earlier(a) \in SUBSET Earlier(b)
    BY <1>5, BeforeOrders
  <2>2. a \in Earlier(b) /\ a \notin Earlier(a)
    BY <1>5, BeforeOrders
  <2> HIDE DEF Earlier
  <2>3. /\ Cardinality(Earlier(a)) <= Cardinality(Earlier(b))
        /\ Cardinality(Earlier(b)) = Cardinality(Earlier(a)) => Earlier(b) = Earlier(a)
    BY <1>4, <2>1, FS_Subset
  <2> QED BY <1>4, <2>2, <2>3
<1> HIDE DEF Earlier
<1>6. place \in [S -> 1..n]
  BY <1>3, <1>4
<1>7. \A a, b \in S : place[a] = place[b] => a = b
  <2>1. \A a, b \in S : Before(h, a, b) => place[a] # place[b]
    BY <1>4, <1>5
  <2> QED BY <2>1, BeforeOrders
<1>8. \A a, b \in S : place[a] < place[b] => Before(h, a, b)
  <2>1. \A a, b \in S : Before(h, b, a) => ~(place[a] < place[b])
    BY <1>4, <1>5
  <2>2. \A a, b \in S : place[a] < place[b] => a # b
    BY <1>4
  <2> QED BY <2>1, <2>2, BeforeOrders
<1> HIDE DEF place
<1>9. place \in Injection(S, 1..n)
  BY <1>6, <1>7, Fun_IsInj
<1>10. IsFiniteSet(1..n) /\ Cardinality(1..n) = n
  BY <1>3, FS_Interval
<1>11. \A i \in 1..n : \E a \in S : place[a] = i
  <2>1. place \in Surjection(S, 1..n)
    BY <1>9, <1>10, FS_Injection
  <2> QED BY <2>1, Fun_SurjectionProperties
<1> DEFINE all == [i \in 1..n |-> CHOOSE a \in S : place[a] = i]
<1>12. \A i \in 1..n : all[i] \in S /\ place[all[i]] = i
  BY <1>11
<1>13. all \in [1..n -> S]
  BY <1>12
<1> HIDE DEF all
<1>14. \A i, j \in DOMAIN all : i < j => Before(h, all[i], all[j])
  BY <1>8, <1>12, <1>13
<1> QED BY <1>1, <1>3, <1>13, <1>14

\* Rank lists applications that match, the ones before the others first, up to the limit.
LEMMA RankIs ==
    ASSUME NEW m, m.entries \in SUBSET App, m.history \in History, m.maxResults \in Nat \ {0}
    PROVE  /\ Rank(m) \in Seq(App) /\ Len(Rank(m)) <= NumApps
           /\ Len(Rank(m)) <= m.maxResults
           /\ \A i \in DOMAIN Rank(m) : Rank(m)[i] \in Matching(m)
           /\ \A i, j \in DOMAIN Rank(m) : i < j => Before(m.history, Rank(m)[i], Rank(m)[j])
           /\ m.entries = {} => Rank(m) = <<>>
<1> DEFINE S == Matching(m)
           n == Cardinality(S)
           all == Sorted(S, m.history)
           k == IF Len(all) > m.maxResults THEN m.maxResults ELSE Len(all)
           r == Rank(m)
<1>1. S \in SUBSET App /\ (m.entries = {} => S = {})
  BY DEF Matching
<1> HIDE DEF S
<1>2. n \in 0..NumApps
  BY <1>1, SortedExists
<1>3. /\ all \in [1..n -> S]
      /\ \A i, j \in DOMAIN all : i < j => Before(m.history, all[i], all[j])
  BY <1>1, SortedExists DEF Sorted
<1> HIDE DEF all, n
<1>4. NumApps \in Nat
  BY LauncherAssumption
<1>5. all \in Seq(S) /\ Len(all) = n
  BY <1>2, <1>3, <1>4
<1>6. k \in 0..n /\ k <= m.maxResults /\ k \in Int /\ k <= n
  BY <1>2, <1>4, <1>5
<1>7. r = SubSeq(all, 1, k)
  BY DEF Rank, S, all
<1> HIDE DEF r, k
<1>8. /\ r \in Seq(S) /\ Len(r) = k
      /\ \A i \in 1..k : r[i] = all[i] /\ i \in 1..n
  <2>1. k >= 0 /\ k <= Len(all)
    BY <1>2, <1>5, <1>6
  <2>2. \A i \in 1..k : i \in 1..n /\ i \in 1..k - 1 + 1 /\ 1 + i - 1 = i
    BY <1>2, <1>6
  <2>3. (IF 1 <= k THEN k - 1 + 1 ELSE 0) = k
    BY <1>2, <1>6
  <2>4. 1 \in 1..Len(all) + 1 /\ k \in 1 - 1..Len(all)
    BY <1>2, <1>5, <1>6
  <2>5. /\ r \in Seq(S) /\ Len(r) = IF 1 <= k THEN k - 1 + 1 ELSE 0
        /\ \A i \in 1..k - 1 + 1 : r[i] = all[1 + i - 1]
    BY <1>5, <1>7, <2>4, SubSeqProperties
  <2> QED BY <2>2, <2>3, <2>5
<1>9. DOMAIN r = 1..k
  BY <1>8, LenProperties
<1>10. r \in Seq(App) /\ Len(r) <= NumApps
  BY <1>1, <1>2, <1>4, <1>6, <1>8
<1>11. /\ \A i \in DOMAIN r : r[i] \in S
       /\ \A i, j \in DOMAIN r : i < j => Before(m.history, r[i], r[j])
  BY <1>3, <1>8, <1>9
<1>12. ASSUME m.entries = {}
       PROVE  r = <<>>
  <2>1. n = 0
    BY <1>1, <1>12, FS_EmptySet DEF n
  <2> QED BY <1>6, <1>8, <2>1, EmptySeq
<1> QED BY <1>6, <1>8, <1>10, <1>11, <1>12 DEF r, S

-----------------------------------------------------------------------------
(* What is true of the service.                                              *)

\* No application has more launches in one than in the other.
AtMost(h, k) == \A a \in App : h[a] <= k[a]

\* What is listed and chosen, of what was ranked last.
Drawn(m) ==
    /\ Len(m.shown) <= NumApps /\ (m.entries = {} => m.shown = <<>>)
    /\ IF m.shown = <<>> THEN m.selected = -1 ELSE m.selected + 1 \in DOMAIN m.shown

\* The open panel's list is the ranking, unless a scan is about to rank anew.
Current(m) == m.open /\ ~m.scanning => m.shown = Rank(m)

\* The worker's stages.
Works(m) ==
    /\ m.scanning <=> m.scan # "idle"
    /\ m.rescanQueued => m.scanning
    /\ m.scan # "entries" => m.unread = {}
    /\ m.found \cap m.unread = {}

\* What was found, and with no scan what is listed, was so since the last request.
Fresh(m, apps) ==
    m.running =>
        /\ \A a \in App : (a \in apps) \in m.since[a]
        /\ m.scanning /\ ~m.rescanQueued =>
               \A a \in App : a \notin m.unread => (a \in m.found) \in m.since[a]
        /\ ~m.scanning => \A a \in App : (a \in m.entries) \in m.since[a]

\* The file, the snapshots in their order, and what is to be remembered only grow; the
\* history is what is to be remembered, or was not yet read and nothing was listed.
Remembers(m, file, past) ==
    /\ AtMost(file, past) /\ AtMost(m.read, past)
    /\ \A i \in DOMAIN m.writes : AtMost(file, m.writes[i]) /\ AtMost(m.writes[i], past)
    /\ \A i, j \in DOMAIN m.writes : i <= j => AtMost(m.writes[i], m.writes[j])
    /\ \/ m.history = past /\ (m.writes # <<>> => m.writes[Len(m.writes)] = past)
       \/ /\ m.history = NoLaunch /\ m.writes = <<>> /\ m.entries = {} /\ file = past
          /\ m.scan = "finished" => m.read = past

\* Between two handlers, and within one that has yet to rank.
Steady(m) == m \in Service /\ Works(m) /\ Remembers(m, disk.history, remembered)
Held(m) == Steady(m) /\ Drawn(m) /\ Current(m) /\ Fresh(m, disk.apps)

LauncherInv == LauncherTypeOK /\ Held(launcher)

\* The fields of a service.
LEMMA ServiceIs ==
    ASSUME NEW m \in Service
    PROVE  /\ m.running \in BOOLEAN /\ m.open \in BOOLEAN /\ m.query \in Query
           /\ m.maxResults \in MaxResults /\ m.maxResults \in Nat \ {0}
           /\ m.entries \in SUBSET App /\ m.shown \in Seq(App)
           /\ m.selected \in -1..(NumApps - 1)
           /\ m.scanning \in BOOLEAN /\ m.rescanQueued \in BOOLEAN /\ m.history \in History
           /\ m.scan \in {"idle", "entries", "history", "finished"}
           /\ m.unread \in SUBSET App /\ m.found \in SUBSET App /\ m.read \in History
           /\ m.writes \in Seq(History) /\ m.since \in [App -> SUBSET BOOLEAN]
BY LauncherAssumption DEF Service

\* Ranking changes the list and the selection, and they are then those of the ranking.
LEMMA RerankIs ==
    ASSUME NEW m \in Service
    PROVE  LET r == Rerank(m)
           IN  /\ r \in Service /\ Drawn(r) /\ r.shown = Rank(r)
               /\ r.running = m.running /\ r.open = m.open /\ r.query = m.query
               /\ r.maxResults = m.maxResults /\ r.entries = m.entries
               /\ r.scanning = m.scanning /\ r.rescanQueued = m.rescanQueued
               /\ r.history = m.history /\ r.scan = m.scan /\ r.unread = m.unread
               /\ r.found = m.found /\ r.read = m.read /\ r.writes = m.writes
               /\ r.since = m.since
<1> DEFINE next == Rank(m)
           selected == IF next = <<>> THEN -1 ELSE 0
           r == [m EXCEPT !.shown = next, !.selected = selected]
<1>1. /\ m.entries \in SUBSET App /\ m.history \in History /\ m.maxResults \in Nat \ {0}
  BY ServiceIs
<1>2. /\ next \in Seq(App) /\ Len(next) <= NumApps /\ (m.entries = {} => next = <<>>)
  BY <1>1, RankIs
<1>3. Rerank(m) = r
  BY DEF Rerank
<1> HIDE DEF next
<1>4. NumApps \in Nat \ {0}
  BY LauncherAssumption
<1>5. /\ selected \in -1..(NumApps - 1)
      /\ next = <<>> => selected = -1
      /\ next # <<>> => selected + 1 \in DOMAIN next
  <2>1. next # <<>> => Len(next) \in Nat \ {0} /\ DOMAIN next = 1..Len(next)
    BY <1>2, EmptySeq, LenProperties
  <2> QED BY <1>4, <2>1
<1> HIDE DEF selected
<1>6. /\ r \in Service /\ r.shown = next /\ r.selected = selected
      /\ r.running = m.running /\ r.open = m.open /\ r.query = m.query
      /\ r.maxResults = m.maxResults /\ r.entries = m.entries
      /\ r.scanning = m.scanning /\ r.rescanQueued = m.rescanQueued
      /\ r.history = m.history /\ r.scan = m.scan /\ r.unread = m.unread
      /\ r.found = m.found /\ r.read = m.read /\ r.writes = m.writes
      /\ r.since = m.since
  BY <1>2, <1>5 DEF Service
<1> HIDE DEF r
<1>7. Drawn(r)
  BY <1>2, <1>5, <1>6 DEF Drawn
<1>8. Matching(r) = Matching(m)
  BY <1>6 DEF Matching
<1>9. Rank(r) = next
  BY <1>6, <1>8 DEF Rank, next
<1> QED BY <1>3, <1>6, <1>7, <1>9

\* Ranking keeps what else is true.
LEMMA RerankKeeps ==
    ASSUME NEW m, Steady(m)
    PROVE  LET r == Rerank(m)
           IN  /\ Steady(r) /\ Drawn(r) /\ Current(r)
               /\ r.open = m.open /\ r.running = m.running /\ r.since = m.since
               /\ r.rescanQueued = m.rescanQueued /\ r.scanning = m.scanning
               /\ Fresh(m, disk.apps) => Fresh(r, disk.apps)
<1> DEFINE r == Rerank(m)
<1>1. m \in Service
  BY DEF Steady
<1>2. /\ r \in Service /\ Drawn(r) /\ r.shown = Rank(r)
      /\ r.running = m.running /\ r.open = m.open /\ r.query = m.query
      /\ r.maxResults = m.maxResults /\ r.entries = m.entries
      /\ r.scanning = m.scanning /\ r.rescanQueued = m.rescanQueued
      /\ r.history = m.history /\ r.scan = m.scan /\ r.unread = m.unread
      /\ r.found = m.found /\ r.read = m.read /\ r.writes = m.writes
      /\ r.since = m.since
  BY <1>1, RerankIs
<1> HIDE DEF r
<1>3. Steady(r)
  BY <1>2 DEF Steady, Works, Remembers
<1>4. Current(r)
  BY <1>2 DEF Current
<1>5. Fresh(m, disk.apps) => Fresh(r, disk.apps)
  BY <1>2 DEF Fresh
<1> QED BY <1>2, <1>3, <1>4, <1>5 DEF r

\* A request to look: a scan begins, or is to be followed by another.
LEMMA RefreshKeeps ==
    ASSUME NEW m, Steady(m)
    PROVE  LET r == Refresh(m)
           IN  /\ Steady(r) /\ r.scanning /\ Fresh(r, disk.apps)
               /\ r.open = m.open /\ r.running = m.running
               /\ ~m.scanning => ~r.rescanQueued /\ r.unread = App
               /\ Drawn(m) => Drawn(r)
<1> DEFINE since == [a \in App |-> {(a \in disk.apps)}]
           asked == [m EXCEPT !.since = since]
           queued == [asked EXCEPT !.rescanQueued = TRUE]
           begun == [asked EXCEPT !.scanning = TRUE, !.scan = "entries",
                                  !.unread = App, !.found = {}]
           r == Refresh(m)
<1>1. m \in Service
  BY DEF Steady
<1>2. since \in [App -> SUBSET BOOLEAN] /\ \A a \in App : (a \in disk.apps) \in since[a]
  <2>1. \A a \in App : (a \in disk.apps) \in BOOLEAN
    OBVIOUS
  <2>2. \A a \in App : {(a \in disk.apps)} \in SUBSET BOOLEAN
    BY <2>1, Zenon
  <2> QED BY <2>2, Zenon
<1>3. r = IF m.scanning THEN queued ELSE begun
  BY <1>1 DEF Refresh, Service
<1> HIDE DEF since, r
<1>4. /\ asked \in Service /\ asked.since = since
      /\ asked.running = m.running /\ asked.open = m.open /\ asked.query = m.query
      /\ asked.maxResults = m.maxResults /\ asked.entries = m.entries
      /\ asked.shown = m.shown /\ asked.selected = m.selected
      /\ asked.scanning = m.scanning /\ asked.rescanQueued = m.rescanQueued
      /\ asked.history = m.history /\ asked.scan = m.scan /\ asked.unread = m.unread
      /\ asked.found = m.found /\ asked.read = m.read /\ asked.writes = m.writes
  BY <1>1, <1>2 DEF Service
<1> HIDE DEF asked
<1>5. CASE m.scanning
  <2>1. /\ queued \in Service /\ queued.since = since
        /\ queued.running = m.running /\ queued.open = m.open
        /\ queued.entries = m.entries /\ queued.shown = m.shown /\ queued.selected = m.selected
        /\ queued.scanning = m.scanning /\ queued.rescanQueued = TRUE
        /\ queued.history = m.history /\ queued.scan = m.scan /\ queued.unread = m.unread
        /\ queued.found = m.found /\ queued.read = m.read /\ queued.writes = m.writes
    BY <1>4 DEF Service
  <2> HIDE DEF queued
  <2>2. Steady(queued)
    BY <1>5, <2>1 DEF Steady, Works, Remembers
  <2>3. Fresh(queued, disk.apps)
    BY <1>2, <1>5, <2>1 DEF Fresh
  <2>4. Drawn(m) => Drawn(queued)
    BY <2>1 DEF Drawn
  <2> QED BY <1>3, <1>5, <2>1, <2>2, <2>3, <2>4 DEF r
<1>6. CASE ~m.scanning
  <2>1. /\ begun \in Service /\ begun.since = since
        /\ begun.running = m.running /\ begun.open = m.open
        /\ begun.entries = m.entries /\ begun.shown = m.shown /\ begun.selected = m.selected
        /\ begun.scanning = TRUE /\ begun.rescanQueued = m.rescanQueued
        /\ begun.history = m.history /\ begun.scan = "entries" /\ begun.unread = App
        /\ begun.found = {} /\ begun.read = m.read /\ begun.writes = m.writes
    BY <1>4 DEF Service
  <2> HIDE DEF begun
  <2>2. Steady(begun)
    BY <1>6, <2>1 DEF Steady, Works, Remembers
  <2>3. ~begun.rescanQueued
    BY <1>6, <2>1 DEF Steady, Works
  <2>4. Fresh(begun, disk.apps)
    BY <1>2, <2>1 DEF Fresh
  <2>5. Drawn(m) => Drawn(begun)
    BY <2>1 DEF Drawn
  <2> QED BY <1>3, <1>6, <2>1, <2>2, <2>3, <2>4, <2>5 DEF r
<1> QED BY <1>5, <1>6

\* The panel opened or closed, before or after what goes with it.
LEMMA OpenIs ==
    ASSUME NEW m, Steady(m), NEW open \in BOOLEAN
    PROVE  LET r == [m EXCEPT !.open = open]
           IN  /\ Steady(r) /\ r.open = open /\ r.running = m.running
               /\ r.scanning = m.scanning /\ r.query = m.query
               /\ Drawn(m) => Drawn(r)
               /\ Fresh(m, disk.apps) => Fresh(r, disk.apps)
<1> DEFINE r == [m EXCEPT !.open = open]
<1>1. /\ r \in Service /\ r.open = open /\ r.running = m.running
      /\ r.scanning = m.scanning /\ r.query = m.query /\ r.entries = m.entries
      /\ r.shown = m.shown /\ r.selected = m.selected /\ r.rescanQueued = m.rescanQueued
      /\ r.history = m.history /\ r.scan = m.scan /\ r.unread = m.unread
      /\ r.found = m.found /\ r.read = m.read /\ r.writes = m.writes /\ r.since = m.since
  BY DEF Steady, Service
<1> HIDE DEF r
<1>2. Steady(r)
  BY <1>1 DEF Steady, Works, Remembers
<1>3. (Drawn(m) => Drawn(r)) /\ (Fresh(m, disk.apps) => Fresh(r, disk.apps))
  BY <1>1 DEF Drawn, Fresh
<1> QED BY <1>1, <1>2, <1>3 DEF r

\* Another query.
LEMMA QueryKeeps ==
    ASSUME NEW m, Steady(m), NEW query \in Query
    PROVE  LET r == SetQuery(m, query)
           IN  /\ Steady(r) /\ r.open = m.open /\ r.running = m.running
               /\ Drawn(m) => Drawn(r)
               /\ Fresh(m, disk.apps) => Fresh(r, disk.apps)
               /\ Current(m) => Current(r)
<1> DEFINE x == [m EXCEPT !.query = query]
<1>1. SetQuery(m, query) = m \/ SetQuery(m, query) = Rerank(x)
  BY DEF SetQuery
<1>2. /\ x \in Service /\ x.open = m.open /\ x.running = m.running
      /\ x.scanning = m.scanning /\ x.entries = m.entries
      /\ x.rescanQueued = m.rescanQueued
      /\ x.history = m.history /\ x.scan = m.scan /\ x.unread = m.unread
      /\ x.found = m.found /\ x.read = m.read /\ x.writes = m.writes /\ x.since = m.since
  BY DEF Steady, Service
<1> HIDE DEF x
<1>3. Steady(x) /\ (Fresh(m, disk.apps) => Fresh(x, disk.apps))
  BY <1>2 DEF Steady, Works, Remembers, Fresh
<1>4. /\ Steady(Rerank(x)) /\ Drawn(Rerank(x)) /\ Current(Rerank(x))
      /\ Rerank(x).open = x.open /\ Rerank(x).running = x.running
      /\ Fresh(x, disk.apps) => Fresh(Rerank(x), disk.apps)
  BY <1>3, RerankKeeps
<1> QED BY <1>1, <1>2, <1>3, <1>4

\* Another limit.
LEMMA MaxResultsKeeps ==
    ASSUME NEW m, Held(m), NEW limit \in MaxResults
    PROVE  LET r == SetMaxResults(m, limit) IN Held(r) /\ r.running = m.running
<1> DEFINE x == [m EXCEPT !.maxResults = limit]
<1>1. SetMaxResults(m, limit) = m \/ SetMaxResults(m, limit) = Rerank(x)
  BY DEF SetMaxResults
<1>2. /\ x \in Service /\ x.open = m.open /\ x.running = m.running
      /\ x.scanning = m.scanning /\ x.entries = m.entries
      /\ x.rescanQueued = m.rescanQueued
      /\ x.history = m.history /\ x.scan = m.scan /\ x.unread = m.unread
      /\ x.found = m.found /\ x.read = m.read /\ x.writes = m.writes /\ x.since = m.since
  BY DEF Held, Steady, Service
<1> HIDE DEF x
<1>3. Steady(x) /\ Fresh(x, disk.apps)
  BY <1>2 DEF Held, Steady, Works, Remembers, Fresh
<1>4. /\ Steady(Rerank(x)) /\ Drawn(Rerank(x)) /\ Current(Rerank(x))
      /\ Rerank(x).running = x.running /\ Fresh(Rerank(x), disk.apps)
  BY <1>3, RerankKeeps
<1>5. Held(Rerank(x))
  BY <1>4 DEF Held
<1> QED BY <1>1, <1>2, <1>4, <1>5

\* The panel closed, or opened if its host can show it; opening looks again.
LEMMA SetOpenKeeps ==
    ASSUME NEW m, Held(m), NEW open \in BOOLEAN, NEW made \in BOOLEAN
    PROVE  LET r == SetOpen(m, open, made)
           IN  /\ Held(r) /\ r.running = m.running
               /\ r.open = IF open = m.open THEN m.open ELSE open /\ made
<1> DEFINE x == [m EXCEPT !.open = TRUE]
           y == SetQuery(x, Everything)
           z == Refresh(y)
           r == SetOpen(m, open, made)
<1>1. Steady(m) /\ Drawn(m) /\ Fresh(m, disk.apps) /\ m.open \in BOOLEAN
  BY ServiceIs DEF Held, Steady
<1>2. CASE open = m.open
  BY <1>2 DEF SetOpen
<1>3. CASE open /\ ~m.open
  <2>1. r = [z EXCEPT !.open = made]
    BY <1>3 DEF SetOpen
  <2>2. Steady(x) /\ Drawn(x) /\ x.running = m.running
    BY <1>1, OpenIs
  <2> HIDE DEF x, r
  <2>3. Steady(y) /\ Drawn(y) /\ y.running = m.running
    BY <2>2, QueryKeeps DEF Query
  <2> HIDE DEF y
  <2>4. Steady(z) /\ Drawn(z) /\ z.scanning /\ Fresh(z, disk.apps) /\ z.running = m.running
    BY <2>3, RefreshKeeps
  <2> HIDE DEF z
  <2>5. /\ Steady(r) /\ Drawn(r) /\ r.scanning /\ Fresh(r, disk.apps) /\ r.open = made
        /\ r.running = m.running
    BY <2>1, <2>4, OpenIs
  <2>6. Held(r)
    BY <2>5 DEF Held, Current
  <2> QED BY <1>3, <2>5, <2>6 DEF r
<1>4. CASE ~open /\ m.open
  <2>1. r = [m EXCEPT !.open = FALSE]
    BY <1>4 DEF SetOpen
  <2> HIDE DEF r
  <2>2. /\ Steady(r) /\ Drawn(r) /\ Fresh(r, disk.apps) /\ r.open = FALSE
        /\ r.running = m.running
    BY <1>1, <2>1, OpenIs
  <2>3. Held(r)
    BY <2>2 DEF Held, Current
  <2> QED BY <1>4, <2>2, <2>3 DEF r
<1> QED BY <1>1, <1>2, <1>3, <1>4

\* A toggle leaves the panel closed if it was open, and open if its host can show it.
LEMMA ToggleKeeps ==
    ASSUME NEW m, Held(m), NEW made \in BOOLEAN
    PROVE  /\ Held(Toggle(m, made)) /\ Toggle(m, made).running = m.running
           /\ Toggle(m, made).open \in BOOLEAN
           /\ m.open => ~Toggle(m, made).open
<1>1. m.open \in BOOLEAN /\ (~m.open) \in BOOLEAN
  BY ServiceIs DEF Held, Steady
<1> DEFINE open == ~m.open
<1>2. open \in BOOLEAN /\ open # m.open /\ (m.open => ~open)
  BY <1>1
<1>3. Toggle(m, made) = SetOpen(m, open, made)
  BY DEF Toggle
<1> HIDE DEF open
<1>4. /\ Held(SetOpen(m, open, made)) /\ SetOpen(m, open, made).running = m.running
      /\ SetOpen(m, open, made).open = IF open = m.open THEN m.open ELSE open /\ made
  BY <1>2, SetOpenKeeps
<1>5. Toggle(m, made).open \in BOOLEAN
  BY <1>3, <1>4, ServiceIs DEF Held, Steady
<1> QED BY <1>2, <1>3, <1>4, <1>5

-----------------------------------------------------------------------------
(* The service's steps.                                                      *)

\* What the worker read is behind what is remembered, or is all of it.
LEMMA MergedIs ==
    ASSUME NEW mine \in History, NEW scanned \in History
    PROVE  /\ Merged(mine, scanned) \in History
           /\ AtMost(scanned, mine) => Merged(mine, scanned) = mine
           /\ Merged(NoLaunch, scanned) = scanned
<1>1. /\ \A a \in App : mine[a] \in Nat /\ scanned[a] \in Nat
      /\ mine = [a \in App |-> mine[a]] /\ scanned = [a \in App |-> scanned[a]]
  BY DEF History
<1>2. Merged(mine, scanned) \in History
  BY <1>1 DEF Merged, History
<1>3. ASSUME AtMost(scanned, mine)
      PROVE  Merged(mine, scanned) = mine
  <2>1. \A a \in App : (IF scanned[a] > mine[a] THEN scanned[a] ELSE mine[a]) = mine[a]
    BY <1>1, <1>3 DEF AtMost
  <2> QED BY <1>1, <2>1 DEF Merged
<1>4. Merged(NoLaunch, scanned) = scanned
  <2>1. \A a \in App : NoLaunch[a] = 0
    BY DEF NoLaunch
  <2>2. \A a \in App : (IF scanned[a] > NoLaunch[a] THEN scanned[a] ELSE NoLaunch[a]) = scanned[a]
    BY <1>1, <2>1
  <2> QED BY <1>1, <2>2 DEF Merged
<1> QED BY <1>2, <1>3, <1>4

\* A scan that ended is listed; the request that waited for its end is carried out.
LEMMA ApplyScanKeeps ==
    ASSUME NEW m, Held(m), m.running, m.scan = "finished", remembered \in History
    PROVE  Held(ApplyScan(m)) /\ ApplyScan(m).running
<1> DEFINE merged == Merged(m.history, m.read)
           x == [m EXCEPT !.entries = m.found, !.scanning = FALSE, !.scan = "idle",
                          !.found = {}, !.read = NoLaunch, !.history = merged]
           applied == Rerank(x)
           y == [applied EXCEPT !.rescanQueued = FALSE]
           z == Refresh(y)
           r == [z EXCEPT !.since = m.since]
<1>1. m \in Service /\ Works(m) /\ Remembers(m, disk.history, remembered) /\ Fresh(m, disk.apps)
  BY DEF Held, Steady
<1>2. /\ m.history \in History /\ m.read \in History /\ m.found \in SUBSET App
      /\ m.writes \in Seq(History) /\ m.since \in [App -> SUBSET BOOLEAN]
      /\ m.rescanQueued \in BOOLEAN
  BY <1>1, ServiceIs
<1>3. merged \in History
  BY <1>2, MergedIs
<1>4. merged = remembered /\ (m.writes # <<>> => m.writes[Len(m.writes)] = remembered)
  <2>1. CASE m.history = remembered /\ (m.writes # <<>> => m.writes[Len(m.writes)] = remembered)
    <3>1. AtMost(m.read, m.history)
      BY <1>1, <2>1 DEF Remembers
    <3> QED BY <1>2, <2>1, <3>1, MergedIs
  <2>2. CASE m.history = NoLaunch /\ m.writes = <<>> /\ m.read = remembered
    BY <1>2, <2>2, MergedIs
  <2> QED BY <1>1, <2>1, <2>2 DEF Remembers
<1>5. ApplyScan(m) = IF ~m.rescanQueued THEN applied ELSE r
  BY DEF ApplyScan
<1>6. NoLaunch \in History /\ AtMost(NoLaunch, remembered)
  BY DEF NoLaunch, History, AtMost
<1> HIDE DEF merged
<1>7. /\ x \in Service /\ x.running = m.running /\ x.entries = m.found
      /\ x.scanning = FALSE /\ x.scan = "idle" /\ x.found = {} /\ x.read = NoLaunch
      /\ x.history = merged /\ x.rescanQueued = m.rescanQueued /\ x.unread = m.unread
      /\ x.writes = m.writes /\ x.since = m.since
  BY <1>1, <1>2, <1>3, <1>6 DEF Service
<1> HIDE DEF x
<1>8. Remembers(x, disk.history, remembered)
  BY <1>1, <1>4, <1>6, <1>7 DEF Remembers
<1>9. m.unread = {} /\ m.scanning
  BY <1>1 DEF Works
<1>10. CASE ~m.rescanQueued
  <2>1. Works(x)
    BY <1>7, <1>9, <1>10 DEF Works
  <2>2. Steady(x)
    BY <1>7, <1>8, <2>1 DEF Steady
  <2>3. Fresh(x, disk.apps)
    BY <1>1, <1>7, <1>9, <1>10 DEF Fresh
  <2>4. Steady(applied) /\ Drawn(applied) /\ Current(applied) /\ Fresh(applied, disk.apps)
        /\ applied.running = x.running
    BY <2>2, <2>3, RerankKeeps
  <2>5. Held(applied)
    BY <2>4 DEF Held
  <2> QED BY <1>5, <1>7, <1>10, <2>4, <2>5
<1>11. CASE m.rescanQueued
  <2>1. /\ applied \in Service /\ Drawn(applied)
        /\ applied.running = x.running /\ applied.scanning = x.scanning
        /\ applied.rescanQueued = x.rescanQueued /\ applied.history = x.history
        /\ applied.scan = x.scan /\ applied.unread = x.unread /\ applied.found = x.found
        /\ applied.read = x.read /\ applied.writes = x.writes /\ applied.entries = x.entries
    BY <1>7, RerankIs
  <2> HIDE DEF applied
  <2>2. /\ y \in Service /\ y.running = applied.running /\ y.scanning = applied.scanning
        /\ y.rescanQueued = FALSE /\ y.history = applied.history /\ y.scan = applied.scan
        /\ y.unread = applied.unread /\ y.found = applied.found /\ y.read = applied.read
        /\ y.writes = applied.writes /\ y.entries = applied.entries /\ y.shown = applied.shown
        /\ y.selected = applied.selected
    BY <2>1 DEF Service
  <2> HIDE DEF y
  <2>3. Works(y)
    BY <1>7, <1>9, <2>1, <2>2 DEF Works
  <2>4. Remembers(y, disk.history, remembered)
    BY <1>8, <2>1, <2>2, <1>7 DEF Remembers
  <2>5. Drawn(y)
    BY <2>1, <2>2 DEF Drawn
  <2>6. /\ Steady(z) /\ z.scanning /\ z.running = y.running /\ Drawn(z)
        /\ ~z.rescanQueued /\ z.unread = App /\ Fresh(z, disk.apps)
    BY <1>7, <2>1, <2>2, <2>3, <2>4, <2>5, RefreshKeeps DEF Steady
  <2> HIDE DEF z
  <2>7. /\ r \in Service /\ r.since = m.since /\ r.running = z.running /\ r.open = z.open
        /\ r.entries = z.entries /\ r.shown = z.shown /\ r.selected = z.selected
        /\ r.scanning = z.scanning /\ r.rescanQueued = z.rescanQueued
        /\ r.history = z.history /\ r.scan = z.scan /\ r.unread = z.unread
        /\ r.found = z.found /\ r.read = z.read /\ r.writes = z.writes
    BY <1>2, <2>6 DEF Steady, Service
  <2> HIDE DEF r
  <2>8. Steady(r) /\ Drawn(r) /\ Current(r)
    BY <2>6, <2>7 DEF Steady, Works, Remembers, Drawn, Current
  <2>9. Fresh(r, disk.apps)
    BY <1>1, <2>6, <2>7 DEF Fresh
  <2>10. Held(r) /\ r.running
    BY <1>7, <2>1, <2>2, <2>6, <2>7, <2>8, <2>9 DEF Held
  <2> QED BY <1>5, <1>11, <2>10
<1> QED BY <1>2, <1>10, <1>11

\* The selection goes round.
LEMMA MoveSelectionKeeps ==
    ASSUME NEW m, Held(m), NEW delta \in {-1, 1}
    PROVE  Held(MoveSelection(m, delta)) /\ MoveSelection(m, delta).running = m.running
<1> DEFINE n == Len(m.shown)
           selected == (m.selected + delta + n) % n
           r == [m EXCEPT !.selected = selected]
<1>1. m \in Service /\ Drawn(m)
  BY DEF Held, Steady
<1>2. CASE m.shown = <<>>
  BY <1>2 DEF MoveSelection
<1>3. CASE m.shown # <<>>
  <2>1. /\ n \in Nat \ {0} /\ DOMAIN m.shown = 1..n /\ n <= NumApps /\ NumApps \in Nat
    BY <1>1, <1>3, ServiceIs, EmptySeq, LenProperties, LauncherAssumption DEF Drawn
  <2>2. MoveSelection(m, delta) = r
    BY <1>3 DEF MoveSelection
  <2>3. m.selected \in Int /\ m.selected + 1 \in 1..n
    BY <1>1, <1>3, <2>1, ServiceIs DEF Drawn
  <2> HIDE DEF n
  <2>4. selected \in 0..n - 1
    <3>1. m.selected + delta + n \in Int
      BY <2>1, <2>3
    <3> QED BY <2>1, <3>1
  <2>5. selected \in -1..(NumApps - 1) /\ selected + 1 \in 1..n
    BY <2>1, <2>4
  <2> HIDE DEF selected
  <2>6. /\ r \in Service /\ r.selected = selected /\ r.running = m.running /\ r.open = m.open
        /\ r.entries = m.entries /\ r.shown = m.shown /\ r.query = m.query
        /\ r.maxResults = m.maxResults
        /\ r.scanning = m.scanning /\ r.rescanQueued = m.rescanQueued
        /\ r.history = m.history /\ r.scan = m.scan /\ r.unread = m.unread
        /\ r.found = m.found /\ r.read = m.read /\ r.writes = m.writes /\ r.since = m.since
    BY <1>1, <2>5 DEF Service
  <2> HIDE DEF r
  <2>7. Steady(r) /\ Fresh(r, disk.apps)
    BY <2>6 DEF Held, Steady, Works, Remembers, Fresh
  <2>8. Drawn(r)
    BY <1>1, <1>3, <2>1, <2>5, <2>6 DEF Drawn
  <2>9. Rank(r) = Rank(m)
    BY <2>6 DEF Rank, Matching
  <2>10. Current(r)
    BY <2>6, <2>9 DEF Held, Current
  <2>11. Held(r)
    BY <2>7, <2>8, <2>10 DEF Held
  <2> QED BY <2>2, <2>6, <2>11
<1> QED BY <1>2, <1>3

\* What has happened so far: the invariant again, and nothing forgotten on the way.
Remembered ==
    LauncherInv' /\ LaunchesRemembered' /\ \A a \in App : disk'.history[a] >= disk.history[a]

\* What is held of a service, of whatever disk and launches.
HeldOf(m, d, past) ==
    /\ m \in Service /\ Works(m) /\ Drawn(m) /\ Current(m)
    /\ Fresh(m, d.apps) /\ Remembers(m, d.history, past)

\* A step ends well if what it leaves is held and the file has not gone back.
LEMMA StepEnds ==
    ASSUME disk' \in [apps : SUBSET App, history : History], remembered' \in History,
           bounds' \in Bounds, HeldOf(launcher', disk', remembered'),
           AtMost(disk.history, disk'.history), disk.history \in History
    PROVE  Remembered
<1>1. LauncherInv'
  BY DEF LauncherInv, LauncherTypeOK, HeldOf, Held, Steady
<1>2. LaunchesRemembered'
  BY DEF HeldOf, Remembers, LaunchesRemembered, Last
<1>3. \A a \in App : disk'.history[a] >= disk.history[a]
  <2>1. \A a \in App : disk.history[a] \in Nat /\ disk'.history[a] \in Nat
    BY DEF History
  <2> QED BY <2>1 DEF AtMost
<1> QED BY <1>1, <1>2, <1>3 DEF Remembered

\* The types, taken apart.
LEMMA LauncherIs ==
    ASSUME LauncherInv
    PROVE  /\ disk \in [apps : SUBSET App, history : History]
           /\ disk.apps \in SUBSET App /\ disk.history \in History
           /\ remembered \in History /\ bounds \in Bounds
           /\ Held(launcher) /\ HeldOf(launcher, disk, remembered)
           /\ AtMost(disk.history, disk.history)
BY DEF LauncherInv, LauncherTypeOK, HeldOf, Held, Steady, AtMost, History

\* A step of a running service that leaves the disk alone.
LEMMA BecomesKeeps ==
    ASSUME LauncherInv, NEW m, Becomes(m), Held(m)
    PROVE  Remembered
<1>1. HeldOf(launcher', disk', remembered')
  BY DEF Becomes, Held, Steady, HeldOf
<1> QED BY <1>1, LauncherIs, StepEnds DEF Becomes

\* Somebody starts an application: it counts once, and is in the last snapshot.
LEMMA LaunchKeeps ==
    ASSUME LauncherInv, Launch
    PROVE  Remembered
<1>1. PICK i \in DOMAIN launcher.shown :
          /\ launcher' = SetOpen(RecordLaunch(launcher, launcher.shown[i]), FALSE, TRUE)
          /\ remembered' = [remembered EXCEPT ![launcher.shown[i]] = @ + 1]
  BY Zenon DEF Launch
<1> DEFINE a == launcher.shown[i]
           past == [remembered EXCEPT ![a] = @ + 1]
           counted == [launcher.history EXCEPT ![a] = @ + 1]
           writes == Append(launcher.writes, counted)
           x == [launcher EXCEPT !.history = counted, !.writes = writes]
           r == [x EXCEPT !.open = FALSE]
<1>2. disk' = disk /\ bounds' = bounds /\ launcher.open
  BY DEF Launch
<1>3. /\ launcher \in Service /\ Works(launcher) /\ Drawn(launcher)
      /\ Fresh(launcher, disk.apps) /\ Remembers(launcher, disk.history, remembered)
      /\ disk.history \in History /\ remembered \in History
  BY LauncherIs DEF HeldOf
<1>4. launcher.writes \in Seq(History) /\ launcher.shown \in Seq(App) /\ launcher.read \in History
  BY <1>3, ServiceIs
<1>5. a \in App
  BY <1>4, ElementOfSeq, LenProperties
<1>6. launcher.shown # <<>> /\ launcher.entries # {}
  <2>1. launcher.shown # <<>>
    BY <1>4, EmptySeq, LenProperties
  <2> QED BY <1>3, <2>1 DEF Drawn
<1>7. /\ launcher.history = remembered
      /\ launcher.writes # <<>> => launcher.writes[Len(launcher.writes)] = remembered
  BY <1>3, <1>6 DEF Remembers
<1> HIDE DEF a
<1>8. past \in History /\ counted = past /\ AtMost(remembered, past)
  <2>1. remembered \in [App -> Nat]
    BY <1>3 DEF History
  <2>2. past \in [App -> Nat] /\ \A b \in App : past[b] = IF b = a THEN remembered[b] + 1 ELSE remembered[b]
    BY <1>5, <2>1
  <2>3. \A b \in App : remembered[b] \in Nat
    BY <2>1
  <2> QED BY <1>7, <2>2, <2>3 DEF History, AtMost
<1>9. AtMost(past, past) /\ \A h \in History : AtMost(h, remembered) => AtMost(h, past)
  <2>1. \A h \in History, b \in App : h[b] \in Nat
    BY DEF History
  <2> QED BY <1>3, <1>8, <2>1 DEF AtMost
<1>10. launcher' = SetOpen(x, FALSE, TRUE) /\ remembered' = past
  BY <1>1 DEF RecordLaunch, a
<1> HIDE DEF past, counted
<1>11. /\ writes \in Seq(History) /\ Len(writes) = Len(launcher.writes) + 1
       /\ \A j \in 1..Len(launcher.writes) : writes[j] = launcher.writes[j]
       /\ writes[Len(launcher.writes) + 1] = past
       /\ DOMAIN writes = 1..Len(launcher.writes) + 1
       /\ DOMAIN launcher.writes = 1..Len(launcher.writes) /\ Len(launcher.writes) \in Nat
  <2>1. writes \in Seq(History) /\ Len(writes) = Len(launcher.writes) + 1
    BY <1>4, <1>8, AppendProperties
  <2> QED BY <1>4, <1>8, <2>1, AppendProperties, LenProperties
<1> HIDE DEF writes
<1>12. /\ x \in Service /\ x.open = launcher.open /\ x.history = past /\ x.writes = writes
       /\ x.running = launcher.running /\ x.entries = launcher.entries
       /\ x.shown = launcher.shown /\ x.selected = launcher.selected
       /\ x.scanning = launcher.scanning /\ x.rescanQueued = launcher.rescanQueued
       /\ x.scan = launcher.scan /\ x.unread = launcher.unread /\ x.found = launcher.found
       /\ x.read = launcher.read /\ x.since = launcher.since
  BY <1>3, <1>8, <1>11 DEF Service
<1> HIDE DEF x
<1>13. launcher' = r
  BY <1>2, <1>10, <1>12 DEF SetOpen
<1>14. /\ r \in Service /\ r.open = FALSE /\ r.history = past /\ r.writes = writes
       /\ r.running = launcher.running /\ r.entries = launcher.entries
       /\ r.shown = launcher.shown /\ r.selected = launcher.selected
       /\ r.scanning = launcher.scanning /\ r.rescanQueued = launcher.rescanQueued
       /\ r.scan = launcher.scan /\ r.unread = launcher.unread /\ r.found = launcher.found
       /\ r.read = launcher.read /\ r.since = launcher.since
  BY <1>12 DEF Service
<1> HIDE DEF r
<1>15. Works(r) /\ Drawn(r) /\ Current(r) /\ Fresh(r, disk.apps)
  BY <1>3, <1>14 DEF Works, Drawn, Current, Fresh
<1>16. Remembers(r, disk.history, past)
  <2>1. AtMost(disk.history, past) /\ AtMost(launcher.read, past)
    BY <1>3, <1>4, <1>9 DEF Remembers
  <2>2. \A j \in DOMAIN launcher.writes : launcher.writes[j] \in History
    BY <1>4, ElementOfSeq, LenProperties
  <2>3. \A j \in DOMAIN writes : j = Len(launcher.writes) + 1 \/ j \in DOMAIN launcher.writes
    BY <1>11
  <2>4. \A j \in DOMAIN launcher.writes : writes[j] = launcher.writes[j] /\ AtMost(writes[j], past)
                                          /\ AtMost(disk.history, writes[j])
    BY <1>3, <1>9, <1>11, <2>2 DEF Remembers
  <2>5. \A j \in DOMAIN writes : AtMost(disk.history, writes[j]) /\ AtMost(writes[j], past)
    BY <1>9, <1>11, <2>1, <2>3, <2>4
  <2>6. ASSUME NEW j \in DOMAIN writes, NEW k \in DOMAIN writes, j <= k
        PROVE  AtMost(writes[j], writes[k])
    <3>1. CASE k = Len(launcher.writes) + 1
      BY <1>11, <2>5, <3>1
    <3>2. CASE k \in DOMAIN launcher.writes
      <4>1. j \in DOMAIN launcher.writes
        BY <1>11, <2>6, <3>2
      <4>2. AtMost(launcher.writes[j], launcher.writes[k])
        BY <1>3, <2>6, <3>2, <4>1 DEF Remembers
      <4> QED BY <2>4, <3>2, <4>1, <4>2
    <3> QED BY <2>3, <3>1, <3>2
  <2> QED BY <1>11, <1>14, <2>1, <2>5, <2>6 DEF Remembers
<1>17. HeldOf(launcher', disk', remembered')
  BY <1>2, <1>10, <1>13, <1>14, <1>15, <1>16 DEF HeldOf
<1> QED BY <1>2, <1>8, <1>10, <1>17, LauncherIs, StepEnds

\* The worker reads whether an application is there.
LEMMA ReadEntryKeeps ==
    ASSUME LauncherInv, ReadEntry
    PROVE  Remembered
<1>1. PICK a \in launcher.unread :
          Becomes([launcher EXCEPT
                     !.unread = @ \ {a},
                     !.found = IF a \in disk.apps THEN @ \cup {a} ELSE @,
                     !.scan = IF launcher.unread = {a} THEN "history" ELSE @])
  BY Zenon DEF ReadEntry
<1> DEFINE unread == launcher.unread \ {a}
           found == IF a \in disk.apps THEN launcher.found \cup {a} ELSE launcher.found
           scan == IF launcher.unread = {a} THEN "history" ELSE launcher.scan
           r == [launcher EXCEPT !.unread = unread, !.found = found, !.scan = scan]
<1>2. /\ launcher \in Service /\ Works(launcher) /\ Drawn(launcher) /\ Current(launcher)
      /\ Fresh(launcher, disk.apps) /\ Remembers(launcher, disk.history, remembered)
  BY LauncherIs DEF HeldOf
<1>3. launcher.scan = "entries"
  BY DEF ReadEntry
<1>4. Becomes(r)
  BY <1>1
<1>5. launcher.unread \in SUBSET App /\ launcher.found \in SUBSET App
  BY <1>2, ServiceIs
<1>6. /\ unread \in SUBSET App /\ found \in SUBSET App /\ scan \in {"entries", "history"}
      /\ (scan = "history" => unread = {}) /\ found \cap unread = {} /\ a \in App
      /\ \A b \in App : b \notin unread => b = a \/ b \notin launcher.unread
      /\ \A b \in App : b # a => (b \in found <=> b \in launcher.found)
      /\ a \in found <=> a \in disk.apps
  BY <1>2, <1>3, <1>5 DEF Works
<1> HIDE DEF unread, found, scan
<1>7. /\ r \in Service /\ r.unread = unread /\ r.found = found /\ r.scan = scan
      /\ r.open = launcher.open /\ r.history = launcher.history /\ r.writes = launcher.writes
      /\ r.running = launcher.running /\ r.entries = launcher.entries
      /\ r.shown = launcher.shown /\ r.selected = launcher.selected
      /\ r.scanning = launcher.scanning /\ r.rescanQueued = launcher.rescanQueued
      /\ r.read = launcher.read /\ r.since = launcher.since
  BY <1>2, <1>6 DEF Service
<1> HIDE DEF r
<1>8. Steady(r)
  BY <1>2, <1>3, <1>6, <1>7 DEF Steady, Works, Remembers
<1>9. Drawn(r) /\ Current(r)
  BY <1>2, <1>3, <1>7 DEF Works, Drawn, Current
<1>10. Fresh(r, disk.apps)
  <2>1. ASSUME r.running, ~r.rescanQueued, NEW b \in App, b \notin unread
        PROVE  (b \in found) \in r.since[b]
    <3>1. (a \in disk.apps) \in launcher.since[a]
      BY <1>2, <1>6, <1>7, <2>1 DEF Fresh
    <3>2. launcher.scanning
      BY <1>2, <1>3 DEF Works
    <3>3. b \notin launcher.unread => (b \in launcher.found) \in launcher.since[b]
      BY <1>2, <1>7, <2>1, <3>2 DEF Fresh
    <3>4. CASE b = a
      <4>1. (b \in found) = (a \in disk.apps)
        BY <1>6, <3>4
      <4> QED BY <1>7, <3>1, <3>4, <4>1
    <3>5. CASE b # a
      <4>1. (b \in found) = (b \in launcher.found)
        BY <1>6, <3>5
      <4> QED BY <1>6, <1>7, <2>1, <3>3, <3>5, <4>1
    <3> QED BY <3>4, <3>5
  <2>2. launcher.scanning
    BY <1>2, <1>3 DEF Works
  <2> QED BY <1>2, <1>7, <2>1, <2>2 DEF Fresh
<1>11. Held(r)
  BY <1>8, <1>9, <1>10 DEF Held
<1> QED BY <1>4, <1>11, BecomesKeeps

\* The worker reads the history file.
LEMMA ReadHistoryKeeps ==
    ASSUME LauncherInv, ReadHistoryFile
    PROVE  Remembered
<1> DEFINE r == [launcher EXCEPT !.read = disk.history, !.scan = "finished"]
<1>1. Becomes(r) /\ launcher.scan = "history"
  BY DEF ReadHistoryFile
<1>2. /\ launcher \in Service /\ Works(launcher) /\ Drawn(launcher) /\ Current(launcher)
      /\ Fresh(launcher, disk.apps) /\ Remembers(launcher, disk.history, remembered)
      /\ disk.history \in History
  BY LauncherIs DEF HeldOf
<1>3. /\ r \in Service /\ r.read = disk.history /\ r.scan = "finished"
      /\ r.unread = launcher.unread /\ r.found = launcher.found
      /\ r.open = launcher.open /\ r.history = launcher.history /\ r.writes = launcher.writes
      /\ r.running = launcher.running /\ r.entries = launcher.entries
      /\ r.shown = launcher.shown /\ r.selected = launcher.selected
      /\ r.scanning = launcher.scanning /\ r.rescanQueued = launcher.rescanQueued
      /\ r.since = launcher.since
  BY <1>2 DEF Service
<1> HIDE DEF r
<1>4. Steady(r)
  BY <1>1, <1>2, <1>3 DEF Steady, Works, Remembers
<1>5. Drawn(r) /\ Current(r) /\ Fresh(r, disk.apps)
  BY <1>1, <1>2, <1>3 DEF Works, Drawn, Current, Fresh
<1>6. Held(r)
  BY <1>4, <1>5 DEF Held
<1> QED BY <1>1, <1>6, BecomesKeeps

\* The writer replaces the file by the oldest snapshot, or fails to.
LEMMA WriteHistoryKeeps ==
    ASSUME LauncherInv, WriteHistoryFile
    PROVE  Remembered
<1> DEFINE w == launcher.writes
           t == Tail(w)
           r == [launcher EXCEPT !.writes = t]
<1>1. /\ launcher' = r /\ w # <<>> /\ remembered' = remembered /\ bounds' = bounds
      /\ disk' = disk \/ disk' = [disk EXCEPT !.history = Head(w)]
  BY DEF WriteHistoryFile
<1>2. /\ launcher \in Service /\ Works(launcher) /\ Drawn(launcher) /\ Current(launcher)
      /\ Fresh(launcher, disk.apps) /\ Remembers(launcher, disk.history, remembered)
      /\ disk.history \in History /\ disk \in [apps : SUBSET App, history : History]
  BY LauncherIs DEF HeldOf
<1>3. w \in Seq(History)
  BY <1>2, ServiceIs
<1>4. /\ Head(w) \in History /\ Head(w) = w[1] /\ 1 \in DOMAIN w
      /\ t \in Seq(History) /\ Len(t) = Len(w) - 1 /\ Len(w) \in Nat \ {0}
      /\ \A i \in DOMAIN t : i \in Nat /\ i + 1 \in DOMAIN w /\ t[i] = w[i + 1]
      /\ DOMAIN t = 1..Len(t) /\ DOMAIN w = 1..Len(w)
  BY <1>1, <1>3, HeadTailProperties, EmptySeq, LenProperties
<1>5. t # <<>> => Len(t) \in DOMAIN t
  BY <1>4, EmptySeq
<1> HIDE DEF t
<1>6. /\ r \in Service /\ r.writes = t
      /\ r.read = launcher.read /\ r.scan = launcher.scan
      /\ r.unread = launcher.unread /\ r.found = launcher.found
      /\ r.open = launcher.open /\ r.history = launcher.history
      /\ r.running = launcher.running /\ r.entries = launcher.entries
      /\ r.shown = launcher.shown /\ r.selected = launcher.selected
      /\ r.scanning = launcher.scanning /\ r.rescanQueued = launcher.rescanQueued
      /\ r.since = launcher.since /\ r.query = launcher.query
      /\ r.maxResults = launcher.maxResults
  BY <1>2, <1>4 DEF Service
<1> HIDE DEF r
<1>7. Works(r) /\ Drawn(r) /\ Fresh(r, disk.apps)
  BY <1>2, <1>6 DEF Works, Drawn, Fresh
<1>8. Current(r)
  <2>1. Rank(r) = Rank(launcher)
    BY <1>6 DEF Rank, Matching
  <2> QED BY <1>2, <1>6, <2>1 DEF Current
<1>9. /\ launcher.history = remembered /\ w[Len(w)] = remembered
      /\ \A i \in DOMAIN w : AtMost(disk.history, w[i]) /\ AtMost(w[i], remembered)
      /\ \A i, j \in DOMAIN w : i <= j => AtMost(w[i], w[j])
      /\ AtMost(disk.history, remembered) /\ AtMost(launcher.read, remembered)
  BY <1>1, <1>2 DEF Remembers
<1>10. t # <<>> => t[Len(t)] = remembered
  BY <1>4, <1>5, <1>9
<1>11. \A i, j \in DOMAIN t : i <= j => AtMost(t[i], t[j])
  BY <1>4, <1>9
<1>12. ASSUME NEW file \in History, file = disk.history \/ file = w[1]
       PROVE  Remembers(r, file, remembered)
  <2>1. \A i \in DOMAIN w : AtMost(file, w[i])
    <3>1. \A i \in DOMAIN w : 1 <= i
      BY <1>4
    <3> QED BY <1>4, <1>9, <1>12, <3>1
  <2>2. AtMost(file, remembered)
    BY <1>4, <1>9, <1>12
  <2>3. \A i \in DOMAIN t : AtMost(file, t[i]) /\ AtMost(t[i], remembered)
    BY <1>4, <1>9, <2>1
  <2> QED BY <1>6, <1>9, <1>10, <1>11, <2>2, <2>3 DEF Remembers
<1>13. /\ disk' \in [apps : SUBSET App, history : History] /\ disk'.apps = disk.apps
       /\ disk'.history = disk.history \/ disk'.history = w[1]
       /\ disk'.history \in History
  BY <1>1, <1>2, <1>4
<1>14. AtMost(disk.history, disk'.history)
  BY <1>4, <1>9, <1>13, LauncherIs
<1>15. HeldOf(launcher', disk', remembered')
  BY <1>1, <1>6, <1>7, <1>8, <1>12, <1>13 DEF HeldOf
<1> QED BY <1>1, <1>2, <1>13, <1>14, <1>15, LauncherIs, StepEnds

\* An application comes or goes.
LEMMA ChangeKeeps ==
    ASSUME LauncherInv, NEW a \in App, Change(a)
    PROVE  Remembered
<1> DEFINE since == [launcher.since EXCEPT ![a] = @ \cup {(a \notin disk.apps)}]
           r == [launcher EXCEPT !.since = since]
           apps == IF a \in disk.apps THEN disk.apps \ {a} ELSE disk.apps \cup {a}
<1>1. /\ launcher' = r /\ remembered' = remembered /\ disk' = [disk EXCEPT !.apps = apps]
      /\ bounds' = [bounds EXCEPT !.changes = @ - 1] /\ bounds.changes > 0
  BY DEF Change
<1>2. /\ launcher \in Service /\ Works(launcher) /\ Drawn(launcher) /\ Current(launcher)
      /\ Fresh(launcher, disk.apps) /\ Remembers(launcher, disk.history, remembered)
      /\ disk.apps \in SUBSET App /\ disk \in [apps : SUBSET App, history : History]
      /\ bounds \in Bounds
  BY LauncherIs DEF HeldOf
<1>3. launcher.since \in [App -> SUBSET BOOLEAN]
  BY <1>2, ServiceIs
<1>4. /\ apps \in SUBSET App /\ (a \in apps <=> a \notin disk.apps)
      /\ \A b \in App : b # a => (b \in apps <=> b \in disk.apps)
  BY <1>2
<1> DEFINE now == (a \notin disk.apps)
<1>5. now \in BOOLEAN /\ now = (a \in apps)
  BY <1>4
<1> HIDE DEF apps, now
<1>6. since = [launcher.since EXCEPT ![a] = @ \cup {now}]
  BY DEF now
<1> HIDE DEF since
<1>7. /\ since \in [App -> SUBSET BOOLEAN] /\ now \in since[a]
      /\ \A b \in App : launcher.since[b] \subseteq since[b]
  BY <1>3, <1>5, <1>6
<1>8. /\ r \in Service /\ r.since = since /\ r.writes = launcher.writes
      /\ r.read = launcher.read /\ r.scan = launcher.scan
      /\ r.unread = launcher.unread /\ r.found = launcher.found
      /\ r.open = launcher.open /\ r.history = launcher.history
      /\ r.running = launcher.running /\ r.entries = launcher.entries
      /\ r.shown = launcher.shown /\ r.selected = launcher.selected
      /\ r.scanning = launcher.scanning /\ r.rescanQueued = launcher.rescanQueued
      /\ r.query = launcher.query /\ r.maxResults = launcher.maxResults
  BY <1>2, <1>7 DEF Service
<1> HIDE DEF r
<1>9. Works(r) /\ Drawn(r) /\ Remembers(r, disk.history, remembered)
  BY <1>2, <1>8 DEF Works, Drawn, Remembers
<1>10. Current(r)
  <2>1. Rank(r) = Rank(launcher)
    BY <1>8 DEF Rank, Matching
  <2> QED BY <1>2, <1>8, <2>1 DEF Current
<1>11. Fresh(r, apps)
  <2>1. ASSUME r.running
        PROVE  \A b \in App : (b \in apps) \in r.since[b]
    <3>1. SUFFICES ASSUME NEW b \in App PROVE (b \in apps) \in since[b]
      BY <1>8
    <3>2. CASE b = a
      BY <1>5, <1>7, <3>2
    <3>3. CASE b # a
      <4>1. (b \in apps) = (b \in disk.apps)
        BY <1>4, <3>3
      <4>2. (b \in disk.apps) \in launcher.since[b]
        BY <1>2, <1>8, <2>1 DEF Fresh
      <4> QED BY <1>7, <4>1, <4>2
    <3> QED BY <3>2, <3>3
  <2>2. r.running /\ r.scanning /\ ~r.rescanQueued =>
            \A b \in App : b \notin r.unread => (b \in r.found) \in r.since[b]
    BY <1>2, <1>7, <1>8 DEF Fresh
  <2>3. r.running /\ ~r.scanning => \A b \in App : (b \in r.entries) \in r.since[b]
    BY <1>2, <1>7, <1>8 DEF Fresh
  <2> QED BY <2>1, <2>2, <2>3 DEF Fresh
<1>12. /\ disk' \in [apps : SUBSET App, history : History] /\ disk'.apps = apps
       /\ disk'.history = disk.history
  BY <1>1, <1>2, <1>4
<1>13. bounds' \in Bounds
  BY <1>1, <1>2 DEF Bounds
<1>14. HeldOf(launcher', disk', remembered')
  BY <1>1, <1>8, <1>9, <1>10, <1>11, <1>12 DEF HeldOf
<1> QED BY <1>1, <1>12, <1>13, <1>14, LauncherIs, StepEnds

\* A service that was made, or was not yet.
LEMMA NewIs ==
    ASSUME NEW limit \in MaxResults, NEW running \in BOOLEAN
    PROVE  LET r == [New(limit) EXCEPT !.running = running]
           IN  /\ r \in Service /\ r.running = running /\ r.maxResults = limit /\ ~r.open
               /\ r.entries = {} /\ r.shown = <<>> /\ r.selected = -1 /\ ~r.scanning
               /\ ~r.rescanQueued /\ r.history = NoLaunch /\ r.scan = "idle" /\ r.unread = {}
               /\ r.found = {} /\ r.read = NoLaunch /\ r.writes = <<>>
<1>1. /\ <<>> \in Seq(App) /\ <<>> \in Seq(History) /\ NoLaunch \in History
      /\ [a \in App |-> {}] \in [App -> SUBSET BOOLEAN] /\ Everything \in Query
      /\ -1 \in -1..(NumApps - 1)
  BY LauncherAssumption DEF NoLaunch, History, Query
<1> QED BY <1>1 DEF New, Service

\* So made, it holds all that is to hold, if the file is what is to be remembered.
LEMMA NewHeld ==
    ASSUME NEW r \in Service, ~r.running, ~r.open,
           r.entries = {}, r.shown = <<>>, r.selected = -1, ~r.scanning, ~r.rescanQueued,
           r.history = NoLaunch, r.scan = "idle", r.unread = {}, r.found = {},
           r.read = NoLaunch, r.writes = <<>>, NEW d, NEW past \in History, d.history = past
    PROVE  HeldOf(r, d, past)
<1>1. DOMAIN <<>> = {} /\ Len(<<>>) = 0 /\ NumApps \in Nat
  BY EmptySeq, LenProperties, LauncherAssumption
<1>2. AtMost(past, past) /\ AtMost(NoLaunch, past)
  BY DEF AtMost, NoLaunch, History
<1>3. Works(r) /\ Drawn(r) /\ Current(r) /\ Fresh(r, d.apps)
  BY <1>1 DEF Works, Drawn, Current, Fresh
<1>4. Remembers(r, d.history, past)
  BY <1>1, <1>2 DEF Remembers
<1> QED BY <1>3, <1>4 DEF HeldOf

\* The shell ends, and what was not written is gone with it.
LEMMA ExitKeeps ==
    ASSUME LauncherInv, ExitOrCrash
    PROVE  Remembered
<1>1. launcher' = Stopped /\ remembered' = disk.history /\ disk' = disk /\ bounds' = bounds
  BY DEF ExitOrCrash
<1>2. launcher.maxResults \in MaxResults /\ disk.history \in History
  BY LauncherIs, ServiceIs DEF HeldOf
<1> DEFINE r == [New(launcher.maxResults) EXCEPT !.running = FALSE]
<1>3. launcher' = r
  BY <1>1 DEF Stopped
<1>4. /\ r \in Service /\ ~r.running /\ ~r.open
      /\ r.entries = {} /\ r.shown = <<>> /\ r.selected = -1 /\ ~r.scanning
      /\ ~r.rescanQueued /\ r.history = NoLaunch /\ r.scan = "idle" /\ r.unread = {}
      /\ r.found = {} /\ r.read = NoLaunch /\ r.writes = <<>>
  BY <1>2, NewIs
<1> HIDE DEF r
<1>5. HeldOf(r, disk, disk.history)
  BY <1>2, <1>4, NewHeld
<1>6. HeldOf(launcher', disk', remembered')
  BY <1>1, <1>3, <1>5
<1> QED BY <1>1, <1>2, <1>6, LauncherIs, StepEnds

\* The shell starts and looks for the first time.
LEMMA StartKeeps ==
    ASSUME LauncherInv, Start
    PROVE  Remembered
<1> DEFINE x == [launcher EXCEPT !.running = TRUE]
           r == Refresh(x)
<1>1. launcher' = r /\ disk' = disk /\ remembered' = remembered /\ bounds' = bounds
  BY DEF Start, Started
<1>2. Held(launcher)
  BY LauncherIs
<1>3. /\ x \in Service /\ x.since = launcher.since /\ x.writes = launcher.writes
      /\ x.read = launcher.read /\ x.scan = launcher.scan
      /\ x.unread = launcher.unread /\ x.found = launcher.found
      /\ x.open = launcher.open /\ x.history = launcher.history
      /\ x.running = TRUE /\ x.entries = launcher.entries
      /\ x.shown = launcher.shown /\ x.selected = launcher.selected
      /\ x.scanning = launcher.scanning /\ x.rescanQueued = launcher.rescanQueued
  BY <1>2 DEF Held, Steady, Service
<1> HIDE DEF x
<1>4. Steady(x) /\ Drawn(x)
  BY <1>2, <1>3 DEF Held, Steady, Works, Remembers, Drawn
<1>5. Steady(r) /\ r.scanning /\ Fresh(r, disk.apps) /\ Drawn(r)
  BY <1>4, RefreshKeeps
<1>6. HeldOf(launcher', disk', remembered')
  BY <1>1, <1>5 DEF HeldOf, Steady, Current
<1> QED BY <1>1, <1>6, LauncherIs, StepEnds

\* The shell was not yet started.
LEMMA LauncherInitInv == LauncherInit => LauncherInv
<1> SUFFICES ASSUME LauncherInit PROVE LauncherInv
  OBVIOUS
<1>1. NoLaunch \in History
  BY DEF NoLaunch, History
<1>2. bounds \in Bounds
  BY LauncherAssumption DEF LauncherInit
<1>3. PICK apps \in bounds.installed : disk = [apps |-> apps, history |-> NoLaunch]
  BY Zenon DEF LauncherInit
<1>4. disk \in [apps : SUBSET App, history : History] /\ disk.history = NoLaunch
  BY <1>1, <1>2, <1>3 DEF Bounds, App
<1>5. PICK limit \in MaxResults : launcher = [New(limit) EXCEPT !.running = FALSE]
  BY Zenon DEF LauncherInit
<1>6. remembered = NoLaunch
  BY DEF LauncherInit
<1>7. /\ launcher \in Service /\ ~launcher.running /\ ~launcher.open
      /\ launcher.entries = {} /\ launcher.shown = <<>> /\ launcher.selected = -1
      /\ ~launcher.scanning /\ ~launcher.rescanQueued /\ launcher.history = NoLaunch
      /\ launcher.scan = "idle" /\ launcher.unread = {} /\ launcher.found = {}
      /\ launcher.read = NoLaunch /\ launcher.writes = <<>>
  BY <1>5, NewIs
<1>8. HeldOf(launcher, disk, remembered)
  BY <1>1, <1>4, <1>6, <1>7, NewHeld
<1> QED BY <1>1, <1>2, <1>4, <1>6, <1>8 DEF LauncherInv, LauncherTypeOK, HeldOf, Held, Steady

\* Every step of the launcher's own keeps its invariant and forgets nothing.
LEMMA LauncherStep ==
    ASSUME LauncherInv, LauncherNext \/ TogglePanel \/ Start \/ ExitOrCrash
    PROVE  Remembered
<1>1. Held(launcher)
  BY LauncherIs
<1>2. CASE ScanFinished
  <2>1. Becomes(ApplyScan(launcher)) /\ launcher.running /\ launcher.scan = "finished"
    BY <1>2 DEF ScanFinished, Becomes
  <2>2. Held(ApplyScan(launcher))
    BY <1>1, <2>1, LauncherIs, ApplyScanKeeps
  <2> QED BY <2>1, <2>2, BecomesKeeps
<1>3. CASE TypeQuery
  <2>1. PICK query \in Query : Becomes(SetQuery(launcher, query))
    BY <1>3, Zenon DEF TypeQuery
  <2>2. Held(SetQuery(launcher, query))
    BY <1>1, QueryKeeps DEF Held
  <2> QED BY <2>1, <2>2, BecomesKeeps
<1>4. CASE ConfigureMaxResults
  <2>1. PICK limit \in MaxResults : Becomes(SetMaxResults(launcher, limit))
    BY <1>4, Zenon DEF ConfigureMaxResults
  <2>2. Held(SetMaxResults(launcher, limit))
    BY <1>1, MaxResultsKeeps
  <2> QED BY <2>1, <2>2, BecomesKeeps
<1>5. CASE ArrowKey
  <2>1. PICK delta \in {-1, 1} : Becomes(MoveSelection(launcher, delta))
    BY <1>5, Zenon DEF ArrowKey
  <2>2. Held(MoveSelection(launcher, delta))
    BY <1>1, MoveSelectionKeeps
  <2> QED BY <2>1, <2>2, BecomesKeeps
<1>6. CASE TogglePanel
  <2>1. PICK made \in BOOLEAN : Becomes(Toggle(launcher, made))
    BY <1>6, Zenon DEF TogglePanel
  <2>2. Held(Toggle(launcher, made))
    BY <1>1, ToggleKeeps
  <2> QED BY <2>1, <2>2, BecomesKeeps
<1>7. CASE \E a \in App : Change(a)
  BY <1>7, ChangeKeeps
<1> QED BY <1>2, <1>3, <1>4, <1>5, <1>6, <1>7, LaunchKeeps, ReadEntryKeeps, ReadHistoryKeeps,
           WriteHistoryKeeps, ExitKeeps, StartKeeps DEF LauncherNext

-----------------------------------------------------------------------------
(* The lines of a connection.                                                *)

\* The order of the naturals.
Below == {pair \in Nat \X Nat : pair[1] < pair[2]}

\* A set of naturals that has an element has a least one: what takes the place of
\* induction, by the least number for which a statement fails.
LEMMA Least ==
    ASSUME NEW S, S \subseteq Nat, S # {}
    PROVE  \E m \in S : \A n \in S : m <= n
<1>1. IsWellFoundedOn(Below, Nat)
  BY NatLessThanWellFounded, Zenon DEF OpToRel, Below
<1>2. \E m \in S : \A n \in S : <<n, m>> \notin Below
  BY <1>1, WFMin
<1>3. \E m \in S : \A n \in S : ~(n < m)
  BY <1>2 DEF Below
<1> QED BY <1>3

\* There is only one.
LEMMA LeastIs ==
    ASSUME NEW S, S \subseteq Nat, NEW m \in S, \A n \in S : m <= n
    PROVE  (CHOOSE i \in S : \A j \in S : i <= j) = m
<1> DEFINE k == CHOOSE i \in S : \A j \in S : i <= j
<1>1. k \in S /\ \A j \in S : k <= j
  OBVIOUS
<1>2. k <= m /\ m <= k /\ k \in Nat /\ m \in Nat
  BY <1>1
<1> HIDE DEF k
<1>3. k = m
  BY <1>2
<1> QED BY <1>3 DEF k

\* A dispatch under way: the launcher, the answers, whether the connection is to be closed.
Dispatching == [launcher : Service, answers : Seq(Answer), close : BOOLEAN]

\* y is what a dispatch has come to, of the k lines of conn that follow those read before,
\* of a launcher that was m.
Reached(y, m, conn, k) ==
    LET t == conn.taken
        n == Len(y.answers)
    IN  /\ y \in Dispatching /\ Held(y.launcher) /\ y.launcher.running = m.running
        /\ n \in t..t + k
        /\ \A i \in 1..t : y.answers[i] = conn.answers[i]
        /\ \A i \in t + 1..n : y.answers[i].ok <=> conn.sent[i] \in {"launcher", "state"}
        /\ ~y.close => n = t + k /\ \A i \in t + 1..t + k : conn.sent[i] # "foreign"
        /\ y.close => /\ n > t /\ conn.sent[n] = "foreign"
                      /\ \A i \in t + 1..n - 1 : conn.sent[i] # "foreign"
        /\ (\A i \in t + 1..n : conn.sent[i] # "launcher") => y.launcher = m
        /\ \A i \in t + 1..n :
              /\ conn.sent[i] = "launcher"
              /\ \A j \in t + 1..i - 1 : conn.sent[j] # "launcher"
              /\ m.open
              => ~y.answers[i].open
        /\ \A i \in t + 1..n :
              /\ conn.sent[i] = "launcher"
              /\ \A j \in i + 1..n : conn.sent[j] # "launcher"
              => y.answers[i].open = y.launcher.open

\* One more line is answered with e, the launcher then l.
LEMMA AnswerReached ==
    ASSUME NEW conn \in Connection, NEW m, NEW k \in Nat, NEW y,
           conn.taken + k + 1 <= Len(conn.sent),
           Reached(y, m, conn, k), ~y.close,
           NEW e \in Answer, NEW l, Held(l), l.running = y.launcher.running, NEW close \in BOOLEAN,
           NEW line, line = conn.sent[conn.taken + k + 1],
           e.ok <=> line \in {"launcher", "state"}, close <=> line = "foreign",
           line # "launcher" => l = y.launcher,
           line = "launcher" => e.open = l.open /\ (y.launcher.open => ~e.open)
    PROVE  Reached([y EXCEPT !.launcher = l, !.answers = Append(@, e), !.close = close],
                   m, conn, k + 1)
<1> DEFINE t == conn.taken
           sent == conn.sent
           n == Len(y.answers)
           answers == Append(y.answers, e)
           z == [y EXCEPT !.launcher = l, !.answers = answers, !.close = close]
<1>1. /\ y \in Dispatching /\ y.answers \in Seq(Answer) /\ n = t + k /\ t \in Nat /\ n \in Nat
      /\ sent[n + 1] = line
      /\ y.launcher.running = m.running
      /\ \A i \in 1..t : y.answers[i] = conn.answers[i]
      /\ \A i \in t + 1..n : y.answers[i].ok <=> sent[i] \in {"launcher", "state"}
      /\ \A i \in t + 1..n : sent[i] # "foreign"
  BY DEF Reached, Dispatching, Connection
<1>2. /\ (\A i \in t + 1..n : sent[i] # "launcher") => y.launcher = m
      /\ \A i \in t + 1..n :
            /\ sent[i] = "launcher"
            /\ \A j \in t + 1..i - 1 : sent[j] # "launcher"
            /\ m.open
            => ~y.answers[i].open
      /\ \A i \in t + 1..n :
            /\ sent[i] = "launcher"
            /\ \A j \in i + 1..n : sent[j] # "launcher"
            => y.answers[i].open = y.launcher.open
  BY DEF Reached
<1>3. /\ answers \in Seq(Answer) /\ Len(answers) = n + 1
      /\ \A i \in 1..n : answers[i] = y.answers[i]
      /\ answers[n + 1] = e
  BY <1>1, AppendProperties
<1> HIDE DEF answers
<1>4. l \in Service
  BY DEF Held, Steady
<1>5. /\ z \in Dispatching /\ z.launcher = l /\ z.answers = answers /\ z.close = close
  BY <1>1, <1>3, <1>4 DEF Dispatching
<1> HIDE DEF z
<1>6. /\ t \in Nat /\ n \in Nat /\ n >= t /\ k + 1 \in Nat
      /\ \A i \in t + 1..n + 1 : i = n + 1 \/ i \in t + 1..n
      /\ \A i \in t + 1..n : i \in 1..n /\ i \in t + 1..n + 1
      /\ \A i \in 1..t : i \in 1..n
      /\ n + 1 \in t + 1..n + 1 /\ t + (k + 1) = n + 1
      /\ n + 1 \in t..t + (k + 1) /\ (n + 1) - 1 = n /\ n + 1 > t
  <2>1. t \in Nat /\ n \in Nat /\ n = t + k
    BY <1>1
  <2> HIDE DEF t, n
  <2>2. n >= t /\ n + 1 > t /\ t + (k + 1) = n + 1
    BY <2>1
  <2> QED BY <2>1, <2>2
<1> HIDE DEF t, n, sent
<1>7. \A i \in 1..t : answers[i] = conn.answers[i]
  BY <1>1, <1>3, <1>6
<1>8. \A i \in t + 1..n + 1 : answers[i].ok <=> sent[i] \in {"launcher", "state"}
  BY <1>1, <1>3, <1>6
<1>9. ~close => \A i \in t + 1..n + 1 : sent[i] # "foreign"
  BY <1>1, <1>6
<1>10. close => sent[n + 1] = "foreign"
  BY <1>1
<1>11. (\A i \in t + 1..n + 1 : sent[i] # "launcher") => l = m
  BY <1>1, <1>2, <1>6
<1>12. ASSUME NEW i \in t + 1..n + 1, sent[i] = "launcher",
              \A j \in t + 1..i - 1 : sent[j] # "launcher", m.open
       PROVE  ~answers[i].open
  <2>1. CASE i = n + 1
    <3>1. y.launcher = m
      BY <1>2, <1>6, <1>12, <2>1
    <3>2. line = "launcher"
      BY <1>1, <1>12, <2>1
    <3> QED BY <1>3, <1>12, <2>1, <3>1, <3>2
  <2>2. CASE i \in t + 1..n
    <3>1. ~y.answers[i].open
      BY <1>2, <1>12, <2>2
    <3> QED BY <1>3, <1>6, <2>2, <3>1
  <2> QED BY <1>6, <2>1, <2>2
<1>13. ASSUME NEW i \in t + 1..n + 1, sent[i] = "launcher",
              \A j \in i + 1..n + 1 : sent[j] # "launcher"
       PROVE  answers[i].open = l.open
  <2>1. CASE i = n + 1
    <3>1. line = "launcher"
      BY <1>1, <1>13, <2>1
    <3> QED BY <1>3, <2>1, <3>1
  <2>2. CASE i \in t + 1..n
    <3>1. n + 1 \in i + 1..n + 1 /\ \A j \in i + 1..n : j \in i + 1..n + 1
      BY <1>6, <2>2
    <3>2. line # "launcher"
      BY <1>1, <1>13, <3>1
    <3>3. y.answers[i].open = y.launcher.open
      BY <1>2, <1>13, <2>2, <3>1
    <3>4. l = y.launcher
      BY <3>2
    <3> QED BY <1>3, <1>6, <2>2, <3>3, <3>4
  <2> QED BY <1>6, <2>1, <2>2
<1>14. z.launcher.running = m.running /\ Held(z.launcher)
  BY <1>1, <1>5
<1>15. Len(z.answers) = n + 1 /\ t + (k + 1) = n + 1
  BY <1>3, <1>5, <1>6
<1>16. /\ Len(z.answers) \in t..t + (k + 1)
       /\ \A i \in 1..t : z.answers[i] = conn.answers[i]
       /\ \A i \in t + 1..Len(z.answers) : z.answers[i].ok <=> sent[i] \in {"launcher", "state"}
  BY <1>5, <1>6, <1>7, <1>8, <1>15
<1>17. /\ ~z.close => /\ Len(z.answers) = t + (k + 1)
                      /\ \A i \in t + 1..t + (k + 1) : sent[i] # "foreign"
       /\ z.close => /\ Len(z.answers) > t /\ sent[Len(z.answers)] = "foreign"
                     /\ \A i \in t + 1..Len(z.answers) - 1 : sent[i] # "foreign"
  BY <1>1, <1>5, <1>6, <1>9, <1>10, <1>15
<1>18. /\ (\A i \in t + 1..Len(z.answers) : sent[i] # "launcher") => z.launcher = m
       /\ \A i \in t + 1..Len(z.answers) :
             /\ sent[i] = "launcher"
             /\ \A j \in t + 1..i - 1 : sent[j] # "launcher"
             /\ m.open
             => ~z.answers[i].open
       /\ \A i \in t + 1..Len(z.answers) :
             /\ sent[i] = "launcher"
             /\ \A j \in i + 1..Len(z.answers) : sent[j] # "launcher"
             => z.answers[i].open = z.launcher.open
  BY <1>5, <1>11, <1>12, <1>13, <1>15
<1>19. Reached(z, m, conn, k + 1)
  BY <1>5, <1>14, <1>16, <1>17, <1>18, Zenon DEF Reached, t, n, sent
<1> QED BY <1>19 DEF z, answers

\* The next line is answered, unless one before it was not understood.
LEMMA HandleLineReaches ==
    ASSUME NEW conn \in Connection, NEW m, NEW k \in Nat, NEW y, NEW made \in BOOLEAN,
           conn.taken + k + 1 <= Len(conn.sent), Reached(y, m, conn, k)
    PROVE  Reached(HandleLine(y, conn.sent[conn.taken + k + 1], made), m, conn, k + 1)
<1> DEFINE line == conn.sent[conn.taken + k + 1]
<1>1. conn.taken \in Nat /\ conn.sent \in Seq(Line)
  BY DEF Connection
<1>2. line \in Line
  <2>1. conn.taken + k + 1 \in 1..Len(conn.sent)
    BY <1>1, LenProperties
  <2> QED BY <1>1, <2>1, ElementOfSeq
<1>3. y \in Dispatching /\ Held(y.launcher) /\ y.close \in BOOLEAN
  BY DEF Reached, Dispatching
<1> HIDE DEF line
<1>4. CASE y.close
  <2>1. Len(y.answers) \in conn.taken..conn.taken + (k + 1)
    BY <1>1 DEF Reached
  <2>2. Reached(y, m, conn, k + 1)
    BY <1>4, <2>1 DEF Reached
  <2> QED BY <1>4, <2>2 DEF HandleLine, line
<1>5. CASE ~y.close /\ line \in {"foreign", "unknown"}
  <2> DEFINE e == [ok |-> FALSE, open |-> FALSE]
             close == (line = "foreign")
             z == [y EXCEPT !.launcher = y.launcher, !.answers = Append(@, e), !.close = close]
  <2>1. e \in Answer /\ ~e.ok /\ close \in BOOLEAN
    BY DEF Answer
  <2> HIDE DEF e, close
  <2>2. Reached([y EXCEPT !.launcher = y.launcher, !.answers = Append(@, e), !.close = close],
                m, conn, k + 1)
    BY <1>3, <1>5, <2>1, AnswerReached DEF line, close
  <2>3. HandleLine(y, line, made) = z
    BY <1>3, <1>5 DEF HandleLine, Dispatch, Dispatching, e, close
  <2> QED BY <2>2, <2>3 DEF line
<1>6. CASE ~y.close /\ line = "state"
  <2> DEFINE e == [ok |-> TRUE, open |-> FALSE]
             z == [y EXCEPT !.launcher = y.launcher, !.answers = Append(@, e), !.close = FALSE]
  <2>1. e \in Answer /\ e.ok
    BY DEF Answer
  <2> HIDE DEF e
  <2>2. Reached([y EXCEPT !.launcher = y.launcher, !.answers = Append(@, e), !.close = FALSE],
                m, conn, k + 1)
    BY <1>3, <1>6, <2>1, AnswerReached DEF line
  <2>3. HandleLine(y, line, made) = z
    BY <1>3, <1>6 DEF HandleLine, Dispatch, Dispatching, e
  <2> QED BY <2>2, <2>3 DEF line
<1>7. CASE ~y.close /\ line = "launcher"
  <2> DEFINE l == Toggle(y.launcher, made)
             e == [ok |-> TRUE, open |-> l.open]
             z == [y EXCEPT !.launcher = l, !.answers = Append(@, e), !.close = FALSE]
  <2>1. /\ Held(l) /\ l.running = y.launcher.running /\ l.open \in BOOLEAN
        /\ y.launcher.open => ~l.open
    BY <1>3, ToggleKeeps
  <2> HIDE DEF l
  <2>2. e \in Answer /\ e.ok /\ e.open = l.open
    BY <2>1 DEF Answer
  <2>3. HandleLine(y, line, made) = z
    BY <1>3, <1>7 DEF HandleLine, Dispatch, Dispatching, l
  <2> HIDE DEF e
  <2>4. Reached([y EXCEPT !.launcher = l, !.answers = Append(@, e), !.close = FALSE],
                m, conn, k + 1)
    BY <1>3, <1>7, <2>1, <2>2, AnswerReached DEF line
  <2> QED BY <2>3, <2>4 DEF line
<1> QED BY <1>2, <1>3, <1>4, <1>5, <1>6, <1>7 DEF Line

\* f is what the handling of the first n lines makes of x, one after the other.
Handles(f, x, lines, made, n) ==
    f = [i \in 0..n |-> IF i = 0 THEN x ELSE HandleLine(f[i - 1], lines[i], made)]

\* There is such an f.
LEMMA HandlesExist ==
    ASSUME NEW x, NEW lines, NEW made, NEW n \in Nat
    PROVE  \E f : Handles(f, x, lines, made, n)
<1> DEFINE Bad == {m \in Nat : ~\E f : Handles(f, x, lines, made, m)}
<1> SUFFICES ASSUME Bad # {}
             PROVE  FALSE
  OBVIOUS
<1>1. PICK m \in Bad : \A k \in Bad : m <= k
  <2>1. Bad \subseteq Nat
    OBVIOUS
  <2> HIDE DEF Bad
  <2> QED BY <2>1, Least
<1>2. m # 0
  <2> DEFINE g == [i \in 0..0 |-> x]
  <2>1. Handles(g, x, lines, made, 0)
    BY DEF Handles
  <2> QED BY <2>1
<1>3. m \in Nat /\ m - 1 \in Nat /\ m - 1 \notin Bad
  <2>1. m \in Nat
    OBVIOUS
  <2> HIDE DEF Bad
  <2> QED BY <1>1, <1>2, <2>1
<1>4. PICK g : Handles(g, x, lines, made, m - 1)
  BY <1>3
<1> DEFINE h == [i \in 0..m |-> IF i = m THEN HandleLine(g[m - 1], lines[m], made) ELSE g[i]]
<1>5. ASSUME NEW i \in 0..m
      PROVE  h[i] = IF i = 0 THEN x ELSE HandleLine(h[i - 1], lines[i], made)
  <2>1. CASE i = 0
    BY <1>2, <1>3, <1>4, <2>1 DEF Handles
  <2>2. CASE i # 0 /\ i # m
    <3>1. i \in 0..m - 1 /\ i - 1 \in 0..m /\ i - 1 # m
      BY <1>3, <2>2
    <3>2. g[i] = HandleLine(g[i - 1], lines[i], made)
      BY <1>4, <2>2, <3>1 DEF Handles
    <3>3. h[i] = g[i] /\ h[i - 1] = g[i - 1]
      BY <1>3, <2>2, <3>1
    <3> HIDE DEF h
    <3> QED BY <2>2, <3>2, <3>3
  <2>3. CASE i = m
    <3>1. m - 1 \in 0..m /\ m - 1 # m
      BY <1>2, <1>3
    <3>2. h[m] = HandleLine(g[m - 1], lines[m], made) /\ h[m - 1] = g[m - 1]
      BY <1>3, <3>1
    <3> HIDE DEF h
    <3> QED BY <1>2, <2>3, <3>2
  <2> QED BY <2>1, <2>2, <2>3
<1>6. Handles(h, x, lines, made, m)
  BY <1>5, Zenon DEF Handles
<1> QED BY <1>1, <1>6

\* What the lines read make of the launcher and the answers.
LEMMA HandleLinesReach ==
    ASSUME NEW conn \in Connection, NEW m, NEW n \in Nat, n > conn.taken, n <= Len(conn.sent),
           NEW x, Reached(x, m, conn, 0), NEW made \in BOOLEAN
    PROVE  Reached(HandleLines(x, SubSeq(conn.sent, conn.taken + 1, n), made),
                   m, conn, n - conn.taken)
<1> DEFINE t == conn.taken
           lines == SubSeq(conn.sent, t + 1, n)
           k == n - t
<1>1. t \in Nat /\ conn.sent \in Seq(Line) /\ Len(conn.sent) \in Nat
  BY LenProperties DEF Connection
<1>2. k \in Nat /\ k >= 1
  BY <1>1
<1>3. Len(lines) = k /\ \A i \in 1..k : lines[i] = conn.sent[t + i]
  <2>1. t + 1 \in 1..Len(conn.sent) + 1 /\ n \in (t + 1) - 1..Len(conn.sent)
    BY <1>1
  <2>2. /\ lines \in Seq(Line)
        /\ Len(lines) = IF t + 1 <= n THEN n - (t + 1) + 1 ELSE 0
        /\ \A i \in 1..n - (t + 1) + 1 : lines[i] = conn.sent[(t + 1) + i - 1]
    BY <1>1, <2>1, SubSeqProperties
  <2>3. t + 1 <= n /\ n - (t + 1) + 1 = k /\ \A i \in 1..k : (t + 1) + i - 1 = t + i
    BY <1>1
  <2> HIDE DEF lines, k
  <2> QED BY <2>2, <2>3
<1> HIDE DEF lines
<1> DEFINE f == CHOOSE f : Handles(f, x, lines, made, Len(lines))
<1>4. Handles(f, x, lines, made, Len(lines))
  BY <1>2, <1>3, HandlesExist
<1>5. HandleLines(x, lines, made) = f[Len(lines)]
  BY Zenon DEF HandleLines, Handles
<1> HIDE DEF f
<1>6. \A i \in 0..k : f[i] = IF i = 0 THEN x ELSE HandleLine(f[i - 1], lines[i], made)
  BY <1>3, <1>4 DEF Handles
<1> DEFINE Bad == {i \in 0..k : ~Reached(f[i], m, conn, i)}
<1>7. Bad = {}
  <2> SUFFICES ASSUME Bad # {}
               PROVE  FALSE
    OBVIOUS
  <2>1. PICK i \in Bad : \A j \in Bad : i <= j
    <3>1. Bad \subseteq Nat
      BY <1>2
    <3> HIDE DEF Bad
    <3> QED BY <3>1, Least
  <2>2. i \in 0..k /\ i \in Int
    BY <1>2
  <2>3. CASE i = 0
    <3>1. f[i] = x
      BY <1>2, <1>6, <2>2, <2>3
    <3> QED BY <2>3, <3>1
  <2>4. CASE i # 0
    <3>1. i \in 1..k /\ i - 1 \in 0..k /\ i - 1 \in Nat /\ (i - 1) + 1 = i
      BY <1>2, <2>2, <2>4
    <3>2. i - 1 \notin Bad
      <4> HIDE DEF Bad
      <4> QED BY <1>2, <2>1, <3>1
    <3>3. Reached(f[i - 1], m, conn, i - 1)
      BY <3>1, <3>2
    <3>4. t + (i - 1) + 1 <= Len(conn.sent) /\ t + (i - 1) + 1 = t + i
      BY <1>1, <1>2, <3>1
    <3>5. Reached(HandleLine(f[i - 1], conn.sent[t + (i - 1) + 1], made), m, conn, (i - 1) + 1)
      BY <3>1, <3>3, <3>4, HandleLineReaches
    <3>6. f[i] = HandleLine(f[i - 1], conn.sent[t + (i - 1) + 1], made)
      BY <1>3, <1>6, <2>2, <2>4, <3>1, <3>4
    <3> QED BY <3>1, <3>5, <3>6
  <2> QED BY <2>3, <2>4
<1>8. k \in 0..k
  BY <1>2
<1>9. Reached(f[k], m, conn, k)
  BY <1>7, <1>8
<1> QED BY <1>3, <1>5, <1>9 DEF lines

-----------------------------------------------------------------------------
(* The connections.                                                          *)

NotUnderstood(conn) == {i \in 1..conn.taken : conn.sent[i] = "foreign"}

\* The lines read of a connection are answered, up to the first that is not understood.
Answered(c, conn) ==
    LET bad == NotUnderstood(conn)
        n == Len(conn.answers)
    IN  /\ conn.taken <= Len(conn.sent)
        /\ bad = {} => n = conn.taken
        /\ bad # {} => n \in bad /\ \A j \in bad : n <= j
        /\ \A i \in 1..n : conn.answers[i].ok <=> conn.sent[i] \in {"launcher", "state"}
        /\ conn.served = "open" => bad = {} /\ c \notin Foreign
        /\ c \in Foreign \/ conn.served \in {"none", "pending"} => conn.taken = 0

ConnsInv == conns \in [Clients -> Connection] /\ \A c \in Clients : Answered(c, conns[c])

\* The fields of a connection.
LEMMA ConnectionIs ==
    ASSUME NEW conn \in Connection
    PROVE  /\ conn.end \in {"none", "open", "left"}
           /\ conn.served \in {"none", "pending", "open", "closed"}
           /\ conn.sent \in Seq(Line) /\ conn.taken \in Nat /\ conn.answers \in Seq(Answer)
           /\ Len(conn.sent) \in Nat /\ Len(conn.answers) \in Nat
           /\ DOMAIN conn.answers = 1..Len(conn.answers)
BY LenProperties DEF Connection

\* A connection that is not there.
LEMMA NoConnectionIs ==
    ASSUME NEW c
    PROVE  NoConnection \in Connection /\ Answered(c, NoConnection)
<1>1. /\ <<>> \in Seq(Line) /\ <<>> \in Seq(Answer) /\ Len(<<>>) = 0
  BY EmptySeq
<1> QED BY <1>1 DEF NoConnection, Connection, Answered, NotUnderstood

\* What is held of every connection is that each line is answered in its order.
LEMMA InOrder == ConnsInv => AnsweredInOrder
<1> SUFFICES ASSUME ConnsInv, NEW c \in Clients
             PROVE  LET conn == conns[c]
                        bad == {i \in 1..conn.taken : conn.sent[i] = "foreign"}
                    IN  /\ Len(conn.answers) = IF bad = {} THEN conn.taken
                                               ELSE CHOOSE i \in bad : \A j \in bad : i <= j
                        /\ \A i \in DOMAIN conn.answers :
                              conn.answers[i].ok <=> conn.sent[i] \in {"launcher", "state"}
                        /\ bad # {} \/ c \in Foreign => conn.served # "open"
                        /\ c \in Foreign => conn.answers = <<>>
  BY DEF AnsweredInOrder
<1> DEFINE conn == conns[c]
           bad == {i \in 1..conn.taken : conn.sent[i] = "foreign"}
<1>1. conn \in Connection /\ Answered(c, conn) /\ bad = NotUnderstood(conn)
  BY DEF ConnsInv, NotUnderstood
<1>2. /\ conn.taken \in Nat /\ Len(conn.answers) \in Nat /\ conn.answers \in Seq(Answer)
      /\ DOMAIN conn.answers = 1..Len(conn.answers)
  BY <1>1, ConnectionIs
<1>3. bad \subseteq Nat
  BY <1>2
<1>4. conn.taken = 0 => bad = {}
  OBVIOUS
<1> HIDE DEF conn, bad
<1>5. bad # {} => (CHOOSE i \in bad : \A j \in bad : i <= j) = Len(conn.answers)
  BY <1>1, <1>3, LeastIs DEF Answered
<1>6. c \in Foreign => conn.answers = <<>>
  <2>1. c \in Foreign => Len(conn.answers) = 0
    BY <1>1, <1>4 DEF Answered
  <2> QED BY <1>2, <2>1, EmptySeq
<1>7. /\ Len(conn.answers) = IF bad = {} THEN conn.taken
                             ELSE CHOOSE i \in bad : \A j \in bad : i <= j
      /\ \A i \in DOMAIN conn.answers :
            conn.answers[i].ok <=> conn.sent[i] \in {"launcher", "state"}
      /\ bad # {} \/ c \in Foreign => conn.served # "open"
  BY <1>1, <1>2, <1>5 DEF Answered
<1> QED BY <1>6, <1>7 DEF conn, bad

\* What a step of ReadyRead(c) tells the client; of another, that it tells nothing.
Told(c) ==
    LET told == {i \in (Len(conns[c].answers) + 1)..Len(conns'[c].answers) :
                    conns'[c].sent[i] = "launcher"}
    IN  /\ ReadyRead(c) /\ told = {} => launcher' = launcher
        /\ \A i \in told :
              /\ (\A j \in told : i <= j) /\ launcher.open => ~conns'[c].answers[i].open
              /\ (\A j \in told : j <= i) => conns'[c].answers[i].open = launcher'.open

Quiet(c) == Answered(c, conns'[c]) /\ Len(conns'[c].answers) <= Len(conns[c].answers)

\* Nobody is told of a toggle by a step that answers nothing.
LEMMA QuietTells ==
    ASSUME ConnsInv, ConnsInv', NEW c \in Clients, Quiet(c), ~ReadyRead(c)
    PROVE  Told(c)
<1>1. Len(conns[c].answers) \in Nat /\ Len(conns'[c].answers) \in Nat
  <2>1. conns[c] \in Connection /\ conns'[c] \in Connection
    BY DEF ConnsInv
  <2> QED BY <2>1, ConnectionIs
<1>2. (Len(conns[c].answers) + 1)..Len(conns'[c].answers) = {}
  BY <1>1 DEF Quiet
<1> QED BY <1>2 DEF Told

\* Lines are read, carried out and answered.
LEMMA ReadyReadKeeps ==
    ASSUME LauncherInv, ConnsInv, NEW c \in Clients, ReadyRead(c)
    PROVE  /\ Remembered /\ ConnsInv' /\ Told(c)
           /\ \A d \in Clients : d # c => Quiet(d)
<1> DEFINE conn == conns[c]
           t == conn.taken
           x0 == [launcher |-> launcher, answers |-> conn.answers, close |-> FALSE]
           After(n, made) == HandleLines(x0, SubSeq(conn.sent, t + 1, n), made)
           Next1(n, made) ==
               [conns EXCEPT ![c].answers = After(n, made).answers, ![c].taken = n,
                             ![c].served = IF After(n, made).close \/ conn.end = "left"
                                           THEN "closed" ELSE "open"]
<1>1. PICK n \in (t + 1)..Len(conn.sent), made \in BOOLEAN :
          launcher' = After(n, made).launcher /\ conns' = Next1(n, made)
  BY Zenon DEF ReadyRead
<1>2. /\ launcher.running /\ conn.served = "open"
      /\ disk' = disk /\ remembered' = remembered /\ bounds' = bounds
  BY DEF ReadyRead
<1>3. conn \in Connection /\ Answered(c, conn) /\ conns \in [Clients -> Connection]
  BY DEF ConnsInv
<1>4. /\ conn.sent \in Seq(Line) /\ t \in Nat /\ conn.answers \in Seq(Answer)
      /\ Len(conn.sent) \in Nat /\ Len(conn.answers) \in Nat
  BY <1>3, ConnectionIs
<1>5. /\ c \notin Foreign /\ Len(conn.answers) = t /\ NotUnderstood(conn) = {}
      /\ \A i \in 1..t : conn.answers[i].ok <=> conn.sent[i] \in {"launcher", "state"}
  BY <1>2, <1>3 DEF Answered
<1>6. Held(launcher)
  BY LauncherIs
<1>7. Reached(x0, launcher, conn, 0)
  <2>1. x0 \in Dispatching
    BY <1>4, <1>6 DEF Dispatching, Held, Steady
  <2>2. t \in t..t + 0 /\ t + 1..t = {} /\ t + 1..t + 0 = {}
    BY <1>4
  <2> QED BY <1>5, <1>6, <2>1, <2>2 DEF Reached
<1> DEFINE x == After(n, made)
           k == n - t
           served == IF x.close \/ conn.end = "left" THEN "closed" ELSE "open"
           z == [conn EXCEPT !.answers = x.answers, !.taken = n, !.served = served]
<1>8. Reached(x, launcher, conn, k)
  <2>1. n \in Nat /\ n > t /\ n <= Len(conn.sent)
    BY <1>4
  <2> HIDE DEF x0
  <2> QED BY <1>3, <1>7, <2>1, HandleLinesReach
<1>9. launcher' = x.launcher /\ conns' = [conns EXCEPT ![c] = z]
  BY <1>1, <1>3
<1> HIDE DEF x, x0, After, Next1
<1>10. n \in Nat /\ n > t /\ n <= Len(conn.sent) /\ t + k = n
  BY <1>4
<1> HIDE DEF k
<1> DEFINE l == Len(x.answers)
<1>11. /\ x \in Dispatching /\ Held(x.launcher) /\ x.launcher.running = launcher.running
       /\ l \in t..n
       /\ \A i \in 1..t : x.answers[i] = conn.answers[i]
       /\ \A i \in t + 1..l : x.answers[i].ok <=> conn.sent[i] \in {"launcher", "state"}
       /\ ~x.close => l = n /\ \A i \in t + 1..n : conn.sent[i] # "foreign"
       /\ x.close => /\ l > t /\ conn.sent[l] = "foreign"
                     /\ \A i \in t + 1..l - 1 : conn.sent[i] # "foreign"
  BY <1>8, <1>10 DEF Reached
<1>12. /\ (\A i \in t + 1..l : conn.sent[i] # "launcher") => x.launcher = launcher
       /\ \A i \in t + 1..l :
             /\ conn.sent[i] = "launcher"
             /\ \A j \in t + 1..i - 1 : conn.sent[j] # "launcher"
             /\ launcher.open
             => ~x.answers[i].open
       /\ \A i \in t + 1..l :
             /\ conn.sent[i] = "launcher"
             /\ \A j \in i + 1..l : conn.sent[j] # "launcher"
             => x.answers[i].open = x.launcher.open
  BY <1>8, <1>10 DEF Reached
<1>13. x.answers \in Seq(Answer) /\ x.close \in BOOLEAN /\ l \in Nat
  <2>1. x.answers \in Seq(Answer) /\ x.close \in BOOLEAN
    BY <1>11 DEF Dispatching
  <2> QED BY <2>1, LenProperties
<1>14. /\ z \in Connection /\ z.answers = x.answers /\ z.taken = n /\ z.sent = conn.sent
       /\ z.served = served /\ served \in {"closed", "open"}
  BY <1>3, <1>10, <1>13 DEF Connection
<1>15. served = "open" => ~x.close
  OBVIOUS
<1> HIDE DEF z, served
<1>16. conns' \in [Clients -> Connection] /\ conns'[c] = z
       /\ \A d \in Clients : d # c => conns'[d] = conns[d]
  BY <1>3, <1>9, <1>14
<1>17. Remembered
  <2>1. Becomes(x.launcher)
    BY <1>2, <1>9 DEF Becomes
  <2> QED BY <1>11, <2>1, BecomesKeeps
<1>18. Answered(c, z)
  <2>1. \A i \in 1..t : conn.sent[i] # "foreign"
    BY <1>5 DEF NotUnderstood
  <2>2. \A i \in 1..n : i \in 1..t \/ i \in t + 1..n
    BY <1>4, <1>10
  <2>3. \A i \in 1..l : i \in 1..t \/ i \in t + 1..l
    BY <1>4, <1>11
  <2>4. \A i \in 1..l : z.answers[i].ok <=> z.sent[i] \in {"launcher", "state"}
    BY <1>5, <1>11, <1>14, <2>3
  <2>5. NotUnderstood(z) = {i \in 1..n : conn.sent[i] = "foreign"}
    BY <1>14 DEF NotUnderstood
  <2>6. CASE ~x.close
    <3>1. l = n /\ NotUnderstood(z) = {}
      BY <1>11, <2>1, <2>2, <2>5, <2>6
    <3> QED BY <1>5, <1>10, <1>14, <2>4, <3>1 DEF Answered
  <2>7. CASE x.close
    <3>1. l \in 1..n /\ l > t /\ conn.sent[l] = "foreign"
      BY <1>4, <1>11, <2>7
    <3>2. l \in NotUnderstood(z)
      BY <2>5, <3>1
    <3>3. ASSUME NEW j \in NotUnderstood(z)
          PROVE  l <= j
      <4>1. j \in 1..n /\ conn.sent[j] = "foreign"
        BY <2>5
      <4>2. j \notin 1..t /\ j \notin t + 1..l - 1
        BY <1>11, <2>1, <2>7, <4>1
      <4> QED BY <1>4, <1>13, <4>1, <4>2
    <3> QED BY <1>5, <1>10, <1>14, <1>15, <2>4, <2>7, <3>2, <3>3 DEF Answered
  <2> QED BY <1>13, <2>6, <2>7
<1>19. \A d \in Clients : d # c => Quiet(d)
  <2> SUFFICES ASSUME NEW d \in Clients, d # c PROVE Quiet(d)
    OBVIOUS
  <2>1. conns'[d] = conns[d] /\ conns[d] \in Connection /\ Answered(d, conns[d])
    BY <1>16 DEF ConnsInv
  <2>2. Len(conns[d].answers) \in Nat
    BY <2>1, ConnectionIs
  <2> QED BY <2>1, <2>2 DEF Quiet
<1>20. ConnsInv'
  <2>1. \A d \in Clients : Answered(d, conns'[d])
    BY <1>16, <1>18, <1>19 DEF Quiet
  <2> QED BY <1>16, <2>1 DEF ConnsInv
<1>21. Told(c)
  <2> DEFINE told == {i \in t + 1..l : conn.sent[i] = "launcher"}
  <2>1. Len(conns[c].answers) + 1 = t + 1 /\ Len(conns'[c].answers) = l
        /\ conns'[c].sent = conn.sent /\ conns'[c].answers = x.answers
    BY <1>5, <1>14, <1>16
  <2>2. told = {} => launcher' = launcher
    BY <1>9, <1>12
  <2>3. ASSUME NEW i \in told, \A j \in told : i <= j, launcher.open
        PROVE  ~x.answers[i].open
    <3>1. i \in t + 1..l /\ conn.sent[i] = "launcher" /\ i \in Int
      BY <1>4
    <3>2. \A j \in t + 1..i - 1 : conn.sent[j] # "launcher"
      <4> SUFFICES ASSUME NEW j \in t + 1..i - 1, conn.sent[j] = "launcher" PROVE FALSE
        OBVIOUS
      <4>1. j \in t + 1..l /\ ~(i <= j)
        BY <1>4, <1>13, <3>1
      <4> QED BY <2>3, <4>1
    <3> QED BY <1>12, <2>3, <3>1, <3>2
  <2>4. ASSUME NEW i \in told, \A j \in told : j <= i
        PROVE  x.answers[i].open = launcher'.open
    <3>1. i \in t + 1..l /\ conn.sent[i] = "launcher" /\ i \in Int
      BY <1>4
    <3>2. \A j \in i + 1..l : conn.sent[j] # "launcher"
      <4> SUFFICES ASSUME NEW j \in i + 1..l, conn.sent[j] = "launcher" PROVE FALSE
        OBVIOUS
      <4>1. j \in t + 1..l /\ ~(j <= i)
        BY <1>4, <1>13, <3>1
      <4> QED BY <2>4, <4>1
    <3> QED BY <1>9, <1>12, <3>1, <3>2
  <2>5. told = {i \in (Len(conns[c].answers) + 1)..Len(conns'[c].answers) :
                    conns'[c].sent[i] = "launcher"}
    BY <2>1
  <2> HIDE DEF told, l
  <2> QED BY <2>1, <2>2, <2>3, <2>4, <2>5 DEF Told
<1> QED BY <1>17, <1>19, <1>20, <1>21

\* A step of one connection, of which no more has been read or answered.
LEMMA OneQuiet ==
    ASSUME ConnsInv, NEW c \in Clients, NEW z \in Connection, Answered(c, z),
           z.answers = conns[c].answers, conns' = [conns EXCEPT ![c] = z]
    PROVE  ConnsInv' /\ \A d \in Clients : Quiet(d)
<1>1. conns' \in [Clients -> Connection]
      /\ \A d \in Clients : conns'[d] = IF d = c THEN z ELSE conns[d]
  BY DEF ConnsInv
<1>2. ASSUME NEW d \in Clients
      PROVE  Quiet(d)
  <2>1. conns[d] \in Connection /\ Answered(d, conns[d])
    BY DEF ConnsInv
  <2>2. Len(conns[d].answers) \in Nat
    BY <2>1, ConnectionIs
  <2> QED BY <1>1, <2>1, <2>2 DEF Quiet
<1> QED BY <1>1, <1>2 DEF ConnsInv, Quiet

\* A step of all connections, each of which stays as it is, is taken up, or is gone.
LEMMA AllQuiet ==
    ASSUME ConnsInv, conns' \in [Clients -> Connection],
           \A c \in Clients : /\ Answered(c, conns'[c])
                              /\ conns'[c].answers \in {conns[c].answers, <<>>}
    PROVE  ConnsInv' /\ \A d \in Clients : Quiet(d)
<1>1. ASSUME NEW d \in Clients
      PROVE  Quiet(d)
  <2>1. conns[d] \in Connection /\ Len(<<>>) = 0
    BY EmptySeq DEF ConnsInv
  <2>2. Len(conns[d].answers) \in Nat
    BY <2>1, ConnectionIs
  <2> QED BY <2>1, <2>2 DEF Quiet
<1> QED BY <1>1 DEF ConnsInv, Quiet

\* The sockets that are closed are deleted.
LEMMA DeferredDeleteKeeps ==
    ASSUME ConnsInv, DeferredDelete
    PROVE  ConnsInv' /\ \A d \in Clients : Quiet(d)
<1>1. conns' = [c \in Clients |-> IF conns[c].served = "closed" THEN NoConnection ELSE conns[c]]
  BY DEF DeferredDelete
<1>2. \A c \in Clients : conns[c] \in Connection /\ Answered(c, conns[c])
  BY DEF ConnsInv
<1>3. NoConnection.answers = <<>>
  BY DEF NoConnection
<1>4. conns' \in [Clients -> Connection]
  BY <1>1, <1>2, NoConnectionIs
<1>5. \A c \in Clients : Answered(c, conns'[c]) /\ conns'[c].answers \in {conns[c].answers, <<>>}
  BY <1>1, <1>2, <1>3, NoConnectionIs
<1> QED BY <1>4, <1>5, AllQuiet

\* With the process all its connections end.
LEMMA ShellStopsKeeps ==
    ASSUME ConnsInv, ShellStops
    PROVE  ConnsInv' /\ \A d \in Clients : Quiet(d)
<1>1. conns' = [c \in Clients |-> NoConnection]
  BY DEF ShellStops
<1>2. NoConnection.answers = <<>>
  BY DEF NoConnection
<1>3. conns' \in [Clients -> Connection]
  BY <1>1, NoConnectionIs
<1>4. \A c \in Clients : Answered(c, conns'[c]) /\ conns'[c].answers \in {conns[c].answers, <<>>}
  BY <1>1, <1>2, NoConnectionIs
<1> QED BY <1>3, <1>4, AllQuiet

\* A connection taken up, or refused, as nothing of it was read.
LEMMA HandleConnectionIs ==
    ASSUME ConnsInv, NEW c \in Clients, conns[c].served = "pending"
    PROVE  LET z == HandleConnection(c)
           IN  z \in Connection /\ Answered(c, z) /\ z.answers = conns[c].answers
<1> DEFINE conn == conns[c]
           served == IF c \in Foreign THEN "closed" ELSE "open"
           z == [conn EXCEPT !.served = served]
<1>1. conn \in Connection /\ Answered(c, conn)
  BY DEF ConnsInv
<1>2. z \in Connection /\ z.answers = conn.answers /\ z.taken = conn.taken /\ z.sent = conn.sent
      /\ z.served = served
  BY <1>1 DEF Connection
<1>3. HandleConnection(c) = z
  BY DEF HandleConnection
<1>4. c \in Foreign => served = "closed"
  OBVIOUS
<1>5. c \notin Foreign => served = "open"
  OBVIOUS
<1> HIDE DEF z, served
<1>6. conn.taken = 0
  BY <1>1 DEF Answered
<1>7. NotUnderstood(conn) = {} /\ NotUnderstood(z) = {}
  BY <1>2, <1>6 DEF NotUnderstood
<1>8. Answered(c, z)
  BY <1>1, <1>2, <1>4, <1>5, <1>6, <1>7 DEF Answered
<1> QED BY <1>2, <1>3, <1>8

\* All connections that wait are taken up.
LEMMA NewConnectionKeeps ==
    ASSUME ConnsInv, NewConnection
    PROVE  ConnsInv' /\ \A d \in Clients : Quiet(d)
<1>1. conns' = [c \in Clients |-> IF conns[c].served = "pending" THEN HandleConnection(c)
                                  ELSE conns[c]]
  BY DEF NewConnection
<1>2. \A c \in Clients : conns[c] \in Connection /\ Answered(c, conns[c])
  BY DEF ConnsInv
<1>3. \A c \in Clients :
          /\ conns'[c] \in Connection /\ Answered(c, conns'[c])
          /\ conns'[c].answers = conns[c].answers
  BY <1>1, <1>2, HandleConnectionIs
<1>4. conns' \in [Clients -> Connection]
  <2>1. DOMAIN conns' = Clients /\ conns' = [c \in Clients |-> conns'[c]]
    BY <1>1
  <2> QED BY <1>3, <2>1
<1> QED BY <1>3, <1>4, AllQuiet

\* A client connects, sends, leaves, or its end is read: nothing more is read or answered.
LEMMA ClientKeeps ==
    ASSUME ConnsInv, NEW c \in Clients, Disconnected(c) \/ Connect(c) \/ SendLine(c) \/ Leave(c)
    PROVE  ConnsInv' /\ \A d \in Clients : Quiet(d)
<1> DEFINE conn == conns[c]
<1>1. conn \in Connection /\ Answered(c, conn)
  BY DEF ConnsInv
<1>2. CASE Disconnected(c)
  <2> DEFINE z == [conn EXCEPT !.served = "closed"]
  <2>1. conns' = [conns EXCEPT ![c] = z] /\ conn.served = "open"
    BY <1>2 DEF Disconnected
  <2>2. /\ z \in Connection /\ z.answers = conn.answers /\ z.taken = conn.taken
        /\ z.sent = conn.sent /\ z.served = "closed"
    BY <1>1 DEF Connection
  <2> HIDE DEF z
  <2>3. Answered(c, z)
    BY <1>1, <2>1, <2>2 DEF Answered, NotUnderstood
  <2> QED BY <2>1, <2>2, <2>3, OneQuiet
<1>3. CASE Connect(c)
  <2> DEFINE z == [conn EXCEPT !.end = "open", !.served = "pending"]
  <2>1. conns' = [conns EXCEPT ![c] = z] /\ conn = NoConnection
    BY <1>3 DEF Connect, ConnsInv
  <2>2. /\ z \in Connection /\ z.answers = conn.answers /\ z.taken = conn.taken
        /\ z.sent = conn.sent /\ z.served = "pending"
    BY <1>1 DEF Connection
  <2> HIDE DEF z
  <2>3. conn.taken = 0
    BY <2>1 DEF NoConnection
  <2>4. Answered(c, z)
    BY <1>1, <2>2, <2>3 DEF Answered, NotUnderstood
  <2> QED BY <2>1, <2>2, <2>4, OneQuiet
<1>4. CASE SendLine(c)
  <2>1. PICK line \in Lines(c) : conns' = [conns EXCEPT ![c].sent = Append(@, line)]
    BY <1>4, Zenon DEF SendLine
  <2> DEFINE sent == Append(conn.sent, line)
             z == [conn EXCEPT !.sent = sent]
  <2>2. conns' = [conns EXCEPT ![c] = z]
    BY <2>1
  <2>3. line \in Line
    BY DEF Lines, Line
  <2>4. /\ conn.sent \in Seq(Line) /\ conn.taken \in Nat /\ Len(conn.sent) \in Nat
        /\ Len(conn.answers) \in Nat
    BY <1>1, ConnectionIs
  <2>5. /\ sent \in Seq(Line) /\ Len(sent) = Len(conn.sent) + 1
        /\ \A i \in 1..Len(conn.sent) : sent[i] = conn.sent[i]
    BY <2>3, <2>4, AppendProperties
  <2> HIDE DEF sent
  <2>6. /\ z \in Connection /\ z.answers = conn.answers /\ z.taken = conn.taken
        /\ z.sent = sent /\ z.served = conn.served
    BY <1>1, <2>5 DEF Connection
  <2> HIDE DEF z
  <2>7. conn.taken <= Len(conn.sent)
    BY <1>1 DEF Answered
  <2>8. NotUnderstood(z) = NotUnderstood(conn)
    BY <2>4, <2>5, <2>6, <2>7 DEF NotUnderstood
  <2>9. Len(conn.answers) <= conn.taken
    <3>1. NotUnderstood(conn) \subseteq 1..conn.taken
      BY DEF NotUnderstood
    <3> QED BY <1>1, <2>4, <3>1 DEF Answered
  <2>10. \A i \in 1..Len(conn.answers) : z.sent[i] = conn.sent[i]
    BY <2>4, <2>5, <2>6, <2>7, <2>9
  <2>11. z.taken <= Len(z.sent)
    BY <2>4, <2>5, <2>6, <2>7
  <2>12. Answered(c, z)
    BY <1>1, <2>6, <2>8, <2>10, <2>11 DEF Answered
  <2> QED BY <2>2, <2>6, <2>12, OneQuiet
<1>5. CASE Leave(c)
  <2> DEFINE z == [conn EXCEPT !.end = "left"]
  <2>1. conns' = [conns EXCEPT ![c] = z]
    BY <1>5 DEF Leave
  <2>2. /\ z \in Connection /\ z.answers = conn.answers /\ z.taken = conn.taken
        /\ z.sent = conn.sent /\ z.served = conn.served
    BY <1>1 DEF Connection
  <2> HIDE DEF z
  <2>3. Answered(c, z)
    BY <1>1, <2>2 DEF Answered, NotUnderstood
  <2> QED BY <2>1, <2>2, <2>3, OneQuiet
<1> QED BY <1>2, <1>3, <1>4, <1>5

-----------------------------------------------------------------------------
(* The theorems.                                                             *)

Inv == LauncherInv /\ ConnsInv

\* What every step does: it keeps the invariant, forgets nothing, and tells what it did.
StepDone == Remembered /\ ConnsInv' /\ TogglesTold

\* Where the launcher and its disk are left alone, nothing is forgotten.
LEMMA LauncherStays ==
    ASSUME LauncherInv, UNCHANGED launcherVars
    PROVE  Remembered
<1>1. HeldOf(launcher', disk', remembered')
  BY LauncherIs DEF launcherVars, HeldOf
<1> QED BY <1>1, LauncherIs, StepEnds DEF launcherVars

\* No connection answered, nothing is told.
LEMMA NothingTold ==
    ASSUME ConnsInv, ConnsInv', \A c \in Clients : Quiet(c), \A c \in Clients : ~ReadyRead(c)
    PROVE  TogglesTold
<1>1. \A c \in Clients : Told(c)
  BY QuietTells
<1> QED BY <1>1 DEF TogglesTold, Told

\* Every step of the system.
LEMMA EveryStep ==
    ASSUME Inv, [Next]_vars
    PROVE  StepDone
<1> USE DEF Inv
<1>1. CASE \E c \in Clients : ReadyRead(c)
  <2>1. PICK c \in Clients : ReadyRead(c)
    BY <1>1
  <2>2. Remembered /\ ConnsInv' /\ Told(c) /\ \A d \in Clients : d # c => Quiet(d)
    BY <2>1, ReadyReadKeeps
  <2>3. ASSUME NEW d \in Clients
        PROVE  Told(d)
    <3>1. CASE ReadyRead(d)
      BY <3>1, ReadyReadKeeps
    <3>2. CASE ~ReadyRead(d)
      <4>1. d # c
        BY <2>1, <3>2
      <4> QED BY <2>2, <3>2, <4>1, QuietTells
    <3> QED BY <3>1, <3>2
  <2>4. TogglesTold
    BY <2>3 DEF TogglesTold, Told
  <2> QED BY <2>2, <2>4 DEF StepDone
<1>2. CASE ~\E c \in Clients : ReadyRead(c)
  <2> SUFFICES Remembered /\ ConnsInv' /\ \A d \in Clients : Quiet(d)
    BY <1>2, NothingTold DEF StepDone
  <2>1. ASSUME UNCHANGED conns
        PROVE  ConnsInv' /\ \A d \in Clients : Quiet(d)
    <3>1. conns' \in [Clients -> Connection]
      BY <2>1 DEF ConnsInv
    <3>2. \A c \in Clients :
              Answered(c, conns'[c]) /\ conns'[c].answers \in {conns[c].answers, <<>>}
      BY <2>1 DEF ConnsInv
    <3> QED BY <3>1, <3>2, AllQuiet
  <2>2. CASE (LauncherNext \/ Start \/ TogglePanel) /\ UNCHANGED conns
    BY <2>1, <2>2, LauncherStep
  <2>3. CASE ShellStops
    BY <2>3, LauncherStep, ShellStopsKeeps DEF ShellStops
  <2>4. CASE NewConnection
    <3>1. UNCHANGED launcherVars
      BY <2>4 DEF NewConnection
    <3> QED BY <2>4, <3>1, LauncherStays, NewConnectionKeeps
  <2>5. CASE DeferredDelete
    <3>1. UNCHANGED launcherVars
      BY <2>5 DEF DeferredDelete
    <3> QED BY <2>5, <3>1, LauncherStays, DeferredDeleteKeeps
  <2>6. CASE \E c \in Clients : Disconnected(c) \/ Connect(c) \/ SendLine(c) \/ Leave(c)
    <3>1. UNCHANGED launcherVars
      BY <2>6 DEF Disconnected, Connect, SendLine, Leave
    <3> QED BY <2>6, <3>1, LauncherStays, ClientKeeps
  <2>7. CASE UNCHANGED vars
    <3>1. UNCHANGED launcherVars /\ UNCHANGED conns
      BY <2>7 DEF vars
    <3> QED BY <2>1, <3>1, LauncherStays
  <2> QED BY <1>2, <2>2, <2>3, <2>4, <2>5, <2>6, <2>7 DEF Next
<1> QED BY <1>1, <1>2

\* No client is there at first.
LEMMA InitInv == Init => Inv
<1> SUFFICES ASSUME Init PROVE Inv
  OBVIOUS
<1>1. LauncherInv
  BY LauncherInitInv DEF Init
<1>2. conns = [c \in Clients |-> NoConnection]
  BY DEF Init
<1>3. ConnsInv
  BY <1>2, NoConnectionIs DEF ConnsInv
<1> QED BY <1>1, <1>3 DEF Inv

\* Steps keep the invariant.
LEMMA NextInv == Inv /\ [Next]_vars => Inv'
BY EveryStep DEF StepDone, Remembered, Inv

\* What the properties say follows from the invariant.
LEMMA InvImplies == Inv => WellFormed /\ ScanIsFresh /\ AnsweredInOrder
<1> SUFFICES ASSUME Inv PROVE WellFormed /\ ScanIsFresh /\ AnsweredInOrder
  OBVIOUS
<1>1. LauncherTypeOK /\ Held(launcher) /\ ConnsInv
  BY DEF Inv, LauncherInv
<1>2. ListIsCurrent
  BY <1>1 DEF Held, Drawn, Current, ListIsCurrent
<1>3. TypeOK
  BY <1>1 DEF TypeOK, ConnsInv
<1>4. ScanIsFresh
  BY <1>1 DEF Held, Fresh, ScanIsFresh
<1> QED BY <1>1, <1>2, <1>3, <1>4, InOrder DEF WellFormed

\* However typing, scans, launches, configuration and requests follow one another, the open
\* panel lists what its query ranks now, and Enter starts something if anything is listed.
THEOREM AlwaysWellFormed == Spec => []WellFormed
<1>1. Inv => WellFormed
  BY InvImplies
<1> QED BY <1>1, InitInv, NextInv, PTL DEF Spec

\* What no scan is about to correct was so on the disk since it was last asked for.
THEOREM ScansAlwaysFresh == Spec => []ScanIsFresh
<1>1. Inv => ScanIsFresh
  BY InvImplies
<1> QED BY <1>1, InitInv, NextInv, PTL DEF Spec

\* No scan, snapshot, writer or crash forgets a launch, and the file never goes back.
THEOREM NothingIsForgotten == Spec => NothingForgotten
<1>1. Inv /\ [Next]_vars =>
          [/\ LaunchesRemembered'
           /\ \A a \in App : disk'.history[a] >= disk.history[a]]_launcherVars
  BY EveryStep DEF StepDone, Remembered
<1> QED BY <1>1, InitInv, NextInv, PTL DEF Spec, NothingForgotten

\* However lines arrive, each is answered once, in order, with what it did; nothing after one
\* that is not understood is answered or done, and nothing of another user's client is.
THEOREM RequestsAlwaysAnswered == Spec => RequestsAnswered
<1>1. (Inv => AnsweredInOrder)'
  BY InvImplies, PTL
<1>2. Inv /\ [Next]_vars => [AnsweredInOrder' /\ TogglesTold]_vars
  BY <1>1, NextInv, EveryStep DEF StepDone
<1> QED BY <1>2, InitInv, NextInv, PTL DEF Spec, RequestsAnswered

=============================================================================
