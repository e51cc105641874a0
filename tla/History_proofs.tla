--------------------------- MODULE History_proofs ---------------------------
(***************************************************************************)
(* Proofs about History, for any number of places and visits.              *)
(***************************************************************************)
EXTENDS History, Subsequences_proofs

(* What follows a visit on the way back. *)
Onward(d, i) == IF i <= expired THEN 0 ELSE d[i].referer

(***************************************************************************)
(* The way back exists: the recursion that defines it has a solution, which *)
(* is built up to any length.                                              *)
(***************************************************************************)
LEMMA WayRecursion ==
    ASSUME NEW d, NEW id, Len(d) \in Nat
    PROVE  Way(d, id) = [j \in 0..Len(d) |->
                            IF j = 0 THEN id ELSE Onward(d, Way(d, id)[j - 1])]
<1>. DEFINE n == Len(d)
            Step(f, j) == IF j = 0 THEN id ELSE Onward(d, f[j - 1])
            Built(k) == \E f : f = [j \in 0..k |-> Step(f, j)]
            S == {k \in 0..n : Built(k)}
<1>1. Way(d, id) = CHOOSE f : f = [j \in 0..n |-> Step(f, j)]
  BY DEF Way, Onward
<1>2. 0 \in S
  <2>. DEFINE g == [j \in 0..0 |-> id]
  <2>1. g = [j \in 0..0 |-> Step(g, j)]
    OBVIOUS
  <2>. HIDE DEF g
  <2>2. Built(0)
    BY <2>1
  <2>. QED
    BY <2>2
<1>3. ASSUME NEW k \in S, k < n PROVE k + 1 \in S
  <2>1. PICK f : f = [j \in 0..k |-> Step(f, j)]
    OBVIOUS
  <2>. DEFINE g == [j \in 0..k + 1 |-> IF j <= k THEN f[j] ELSE Onward(d, f[k])]
  <2>2. \A j \in 0..k + 1 : g[j] = Step(g, j)
    BY <2>1
  <2>3. g = [j \in 0..k + 1 |-> Step(g, j)]
    BY <2>2
  <2>. HIDE DEF g
  <2>4. Built(k + 1)
    BY <2>3
  <2>. QED
    BY <1>3, <2>4
<1>4. n \in S
  <2>. HIDE DEF S
  <2>1. S \in SUBSET (0..n)
    BY DEF S
  <2>. QED
    BY <1>2, <1>3, <2>1, UpTo
<1>. QED
  BY <1>1, <1>4

(* A database and what has expired of it. *)
IsDb(d) == d \in Seq(RowsTo(Len(d))) /\ expired \in 0..Len(d)

LEMMA WaySteps ==
    ASSUME NEW d, NEW id \in 0..Len(d), IsDb(d)
    PROVE  /\ Way(d, id)[0] = id
           /\ \A j \in 0..Len(d) - 1 :
                Way(d, id)[j + 1] = Onward(d, Way(d, id)[j])
           /\ \A i \in 0..Len(d) : Onward(d, i) \in 0..Len(d)
<1>1. Len(d) \in Nat
  BY DEF IsDb
<1>. DEFINE w == Way(d, id)
<1>2. w = [j \in 0..Len(d) |-> IF j = 0 THEN id ELSE Onward(d, w[j - 1])]
  BY <1>1, WayRecursion
<1>. HIDE DEF w
<1>3. w[0] = id /\ \A j \in 0..Len(d) - 1 : w[j + 1] = Onward(d, w[j])
  BY <1>1, <1>2
<1>4. ASSUME NEW i \in 0..Len(d)
      PROVE  Onward(d, i) \in 0..Len(d)
  <2>1. CASE i <= expired
    BY <1>1, <2>1 DEF Onward
  <2>2. CASE ~(i <= expired)
    <3>1. i \in 1..Len(d)
      BY <1>1, <2>2 DEF IsDb
    <3>2. d[i] \in RowsTo(Len(d))
      BY <3>1, ElementOfSeq DEF IsDb
    <3>. QED
      BY <2>2, <3>2 DEF Onward, RowsTo
  <2>. QED
    BY <2>1, <2>2
<1>. QED
  BY <1>3, <1>4 DEF w

LEMMA WayType ==
    ASSUME NEW d, NEW id \in 0..Len(d), IsDb(d)
    PROVE  \A k \in 0..Len(d) : Way(d, id)[k] \in 0..Len(d)
<1>. DEFINE n == Len(d)
            w == Way(d, id)
<1>1. n \in Nat
  BY DEF IsDb
<1>2. /\ w[0] = id
      /\ \A j \in 0..n - 1 : w[j + 1] = Onward(d, w[j])
      /\ \A i \in 0..n : Onward(d, i) \in 0..n
  BY WaySteps
<1>. SUFFICES ASSUME NEW k \in 0..n PROVE w[k] \in 0..n
  OBVIOUS
<1>. DEFINE S == {j \in 0..k : w[j] \in 0..n}
<1>. HIDE DEF w
<1>3. 0 \in S /\ S \in SUBSET (0..k)
  BY <1>1, <1>2
<1>4. ASSUME NEW j \in S, j < k PROVE j + 1 \in S
  <2>1. j \in 0..n - 1 /\ w[j] \in 0..n /\ j + 1 \in 0..k
    BY <1>1, <1>4
  <2>2. w[j + 1] \in 0..n
    BY <1>2, <2>1
  <2>. QED
    BY <2>1, <2>2
<1>. HIDE DEF S, n
<1>5. k \in S
  BY <1>1, <1>3, <1>4, UpTo
<1>. QED
  BY <1>5 DEF S

(***************************************************************************)
(* A rank of the visits of which every visit has a higher one than the     *)
(* visit it refers to.  That there is one says that the chain of referers  *)
(* has no cycle.                                                           *)
(***************************************************************************)
Ranks(d) == [1..Len(d) -> Int]

Ranked(r, d) ==
    \A i \in 1..Len(d) : d[i].referer # 0 => r[d[i].referer] < r[i]

(***************************************************************************)
(* The way back descends in rank, as long as it lasts.                     *)
(***************************************************************************)
LEMMA WayDescends ==
    ASSUME NEW d, NEW id \in 0..Len(d), IsDb(d),
           NEW r \in Ranks(d), Ranked(r, d),
           NEW k \in 0..Len(d), Way(d, id)[k] # 0
    PROVE  \A j \in 0..k - 1 :
              /\ Way(d, id)[j] # 0
              /\ r[Way(d, id)[k]] < r[Way(d, id)[j]]
<1>. DEFINE n == Len(d)
            w == Way(d, id)
            Descends(m) == w[m] # 0 => \A j \in 0..m - 1 :
                                          w[j] # 0 /\ r[w[m]] < r[w[j]]
<1>1. n \in Nat
  BY DEF IsDb
<1>2. \A j \in 0..n - 1 : w[j + 1] = Onward(d, w[j])
  BY WaySteps
<1>3. \A j \in 0..n : w[j] \in 0..n
  BY WayType
<1>. DEFINE S == {m \in 0..k : Descends(m)}
<1>. HIDE DEF w
<1>4. 0 \in S /\ S \in SUBSET (0..k)
  BY <1>1
<1>5. ASSUME NEW m \in S, m < k PROVE m + 1 \in S
  <2>. SUFFICES ASSUME w[m + 1] # 0, NEW j \in 0..m
                PROVE  w[j] # 0 /\ r[w[m + 1]] < r[w[j]]
    BY <1>1, <1>5
  <2>1. m \in 0..n - 1 /\ w[m] \in 0..n /\ w[m + 1] \in 0..n /\ w[j] \in 0..n
    BY <1>1, <1>3, <1>5
  <2>2. ~(w[m] <= expired) /\ w[m + 1] = d[w[m]].referer
    BY <1>2, <2>1 DEF Onward
  <2>3. w[m] \in 1..n
    BY <1>1, <2>1, <2>2 DEF IsDb
  <2>4. r[w[m + 1]] < r[w[m]]
    BY <2>2, <2>3 DEF Ranked
  <2>5. CASE j = m
    BY <2>3, <2>4, <2>5
  <2>6. CASE j # m
    <3>1. w[j] # 0 /\ r[w[m]] < r[w[j]]
      BY <2>3, <2>6, <1>5
    <3>2. w[m + 1] \in 1..n /\ w[j] \in 1..n
      BY <1>1, <2>1, <3>1
    <3>3. r[w[m + 1]] \in Int /\ r[w[m]] \in Int /\ r[w[j]] \in Int
      BY <2>3, <3>2 DEF Ranks
    <3>. QED
      BY <2>4, <3>1, <3>3
  <2>. QED
    BY <2>5, <2>6
<1>. HIDE DEF S, n
<1>6. k \in S
  BY <1>1, <1>4, <1>5, UpTo DEF n
<1>. QED
  BY <1>6 DEF S, w

(***************************************************************************)
(* What is read from the chain: visits of the rows asked for, ever lower   *)
(* in rank, and not above the visit it starts at.                          *)
(***************************************************************************)
LEMMA ChainType ==
    ASSUME NEW d, NEW id \in 0..Len(d), IsDb(d),
           NEW rows \in SUBSET (1..Len(d))
    PROVE  /\ Chain(d, id, rows) \in Seq(rows)
           /\ Len(Chain(d, id, rows)) <= Len(d)
<1>. DEFINE n == Len(d)
            way == [k \in 1..n |-> Way(d, id)[k - 1]]
            K == {k \in 1..n : way[k] \in rows}
            c == Chain(d, id, rows)
<1>1. n \in Nat
  BY DEF IsDb
<1>2. way \in Seq(0..n) /\ Len(way) = n /\ K \in SUBSET (1..n)
  <2>1. \A k \in 1..n : way[k] \in 0..n
    <3>1. \A k \in 0..n : Way(d, id)[k] \in 0..n
      BY WayType
    <3>. QED
      BY <1>1, <3>1
  <2>. QED
    BY <1>1, <2>1
<1>3. c = Picked(way, K)
  BY DEF Chain
<1>. HIDE DEF way, c, n
<1>4. c \in Seq(0..n) /\ Len(c) = Cardinality(K) /\ Cardinality(K) \in 0..n
  BY <1>2, <1>3, PickedType
<1>5. \A j \in DOMAIN c : \E k \in K : c[j] = way[k]
  BY <1>2, <1>3, PickedKeeps
<1>6. \A j \in DOMAIN c : c[j] \in rows
  BY <1>5
<1>7. c \in Seq(rows)
  <2>1. c = [j \in 1..Len(c) |-> c[j]] /\ Len(c) \in Nat /\ DOMAIN c = 1..Len(c)
    BY <1>4
  <2>. QED
    BY <1>6, <2>1
<1>. QED
  BY <1>1, <1>4, <1>7 DEF c, n

LEMMA ChainDescends ==
    ASSUME NEW d, NEW id \in 0..Len(d), IsDb(d),
           NEW rows \in SUBSET (1..Len(d)),
           NEW r \in Ranks(d), Ranked(r, d)
    PROVE  LET c == Chain(d, id, rows) IN
           /\ \A i \in DOMAIN c : id # 0 /\ r[c[i]] <= r[id]
           /\ \A i, j \in DOMAIN c : i < j => r[c[j]] < r[c[i]]
<1>. DEFINE n == Len(d)
            w == Way(d, id)
            way == [k \in 1..n |-> w[k - 1]]
            K == {k \in 1..n : way[k] \in rows}
            c == Chain(d, id, rows)
<1>1. n \in Nat
  BY DEF IsDb
<1>2. w[0] = id /\ \A k \in 0..n : w[k] \in 0..n
  BY WayType, WaySteps
<1>3. \A k \in 0..n : w[k] # 0 =>
            \A j \in 0..k - 1 : w[j] # 0 /\ r[w[k]] < r[w[j]]
  BY WayDescends
<1>. HIDE DEF w
<1>4. way \in Seq(0..n) /\ Len(way) = n /\ K \in SUBSET (1..n)
  BY <1>1, <1>2
<1>5. c = Picked(way, K)
  BY DEF Chain, w
<1>6. /\ \A j \in DOMAIN c : \E k \in K : c[j] = way[k]
      /\ \A i, j \in DOMAIN c : i < j =>
            \E a, b \in K : a < b /\ c[i] = way[a] /\ c[j] = way[b]
  <2>. HIDE DEF way, K, c
  <2>. QED
    <3>1. K \in SUBSET (1..Len(way)) /\ way \in Seq(0..n)
      BY <1>4
    <3>2. LET p == Picked(way, K) IN
          /\ \A j \in DOMAIN p : \E k \in K : p[j] = way[k]
          /\ \A i, j \in DOMAIN p : i < j =>
                \E a, b \in K : a < b /\ p[i] = way[a] /\ p[j] = way[b]
      BY <3>1, PickedKeeps
    <3>. QED
      BY <1>5, <3>2
<1>7. \A k \in K : way[k] = w[k - 1] /\ way[k] \in 1..n /\ k - 1 \in 0..n - 1
  <2>1. \A k \in 1..n : way[k] = w[k - 1] /\ k - 1 \in 0..n - 1
    BY <1>1
  <2>2. \A k \in K : k \in 1..n /\ way[k] \in 1..n
    OBVIOUS
  <2>. QED
    BY <2>1, <2>2
<1>8. ASSUME NEW i \in DOMAIN c
      PROVE  id # 0 /\ r[c[i]] <= r[id]
  <2>1. PICK k \in K : c[i] = way[k]
    BY <1>6
  <2>2. c[i] = w[k - 1] /\ w[k - 1] \in 1..n /\ k - 1 \in 0..n - 1
    BY <1>7, <2>1
  <2>3. CASE k = 1
    BY <1>2, <2>2, <2>3 DEF Ranks
  <2>4. CASE k # 1
    <3>1. 0 \in 0..(k - 1) - 1 /\ k - 1 \in 0..n
      BY <1>1, <2>2, <2>4
    <3>2. id # 0 /\ r[w[k - 1]] < r[id]
      BY <1>2, <1>3, <2>2, <3>1
    <3>3. r[w[k - 1]] \in Int /\ r[id] \in Int
      BY <1>1, <2>2, <3>2 DEF Ranks
    <3>. QED
      BY <2>2, <3>2, <3>3
  <2>. QED
    BY <2>3, <2>4
<1>9. ASSUME NEW i \in DOMAIN c, NEW j \in DOMAIN c, i < j
      PROVE  r[c[j]] < r[c[i]]
  <2>1. PICK a \in K, b \in K : a < b /\ c[i] = way[a] /\ c[j] = way[b]
    BY <1>6, <1>9
  <2>2. /\ c[i] = w[a - 1] /\ c[j] = w[b - 1] /\ w[b - 1] # 0
        /\ b - 1 \in 0..n /\ a - 1 \in 0..(b - 1) - 1
    BY <1>1, <1>7, <2>1
  <2>. QED
    BY <1>3, <2>2
<1>. QED
  BY <1>8, <1>9

------------------------------------------------------------------------------
(* Visits in the order of the chain: each is usable, it refers to a lower  *)
(* one, and the ones after it are lower.                                   *)
IsTrail(r, d, s) ==
    /\ s \in Seq(VisitsTo(Len(d)))
    /\ \A i \in 1..Len(s) :
        /\ ~ d[s[i].id].obsolete
        /\ s[i].ref # 0 => r[s[i].ref] < r[s[i].id]
    /\ \A i, j \in 1..Len(s) : i < j => r[s[j].id] < r[s[i].id]

Above(r, s, t) ==
    \A i \in 1..Len(s), j \in 1..Len(t) : r[t[j].id] < r[s[i].id]

LEMMA VisitIn ==
    ASSUME NEW n, NEW s \in Seq(VisitsTo(n)), NEW i \in 1..Len(s)
    PROVE  s[i] \in VisitsTo(n) /\ s[i].id \in 1..n /\ s[i].ref \in 0..n
<1>1. s[i] \in VisitsTo(n)
  BY ElementOfSeq
<1>. QED
  BY <1>1 DEF VisitsTo

(* A visit in a sequence refers to another one than before. *)
LEMMA Relinked ==
    ASSUME NEW n, NEW s \in Seq(VisitsTo(n)), NEW m \in 1..Len(s),
           NEW ref \in 0..n
    PROVE  LET t == [s EXCEPT ![m].ref = ref] IN
           /\ t \in Seq(VisitsTo(n))
           /\ Len(t) = Len(s)
           /\ \A i \in 1..Len(s) : /\ t[i].id = s[i].id
                                  /\ t[i].ref = IF i = m THEN ref ELSE s[i].ref
<1>. DEFINE e == [s[m] EXCEPT !.ref = ref]
            t == [s EXCEPT ![m].ref = ref]
<1>1. s[m] \in VisitsTo(n)
  BY VisitIn
<1>2. e \in VisitsTo(n) /\ e.id = s[m].id /\ e.ref = ref
  BY <1>1 DEF VisitsTo
<1>3. t = [s EXCEPT ![m] = e]
  OBVIOUS
<1>. HIDE DEF e
<1>4. /\ t \in Seq(VisitsTo(n))
      /\ Len(t) = Len(s)
      /\ \A i \in 1..Len(s) : t[i] = IF i = m THEN e ELSE s[i]
  BY <1>2, <1>3, ExceptSeq
<1>. HIDE DEF t
<1>5. \A i \in 1..Len(s) : /\ t[i].id = s[i].id
                          /\ t[i].ref = IF i = m THEN ref ELSE s[i].ref
  BY <1>2, <1>4
<1>. QED
  BY <1>4, <1>5 DEF t

LEMMA Joined ==
    ASSUME NEW S, NEW s \in Seq(S), NEW t \in Seq(S)
    PROVE  /\ s \o t \in Seq(S)
           /\ Len(s \o t) = Len(s) + Len(t)
           /\ \A i \in 1..Len(s) : (s \o t)[i] = s[i]
           /\ \A i \in 1..Len(t) : (s \o t)[Len(s) + i] = t[i]
           /\ \A k \in 1..Len(s \o t) :
                \/ k \in 1..Len(s)
                \/ k - Len(s) \in 1..Len(t) /\ k = Len(s) + (k - Len(s))
  OBVIOUS

IsJoined(u, s, t) ==
    /\ Len(u) = Len(s) + Len(t)
    /\ \A i \in 1..Len(s) + Len(t) :
          u[i] = IF i <= Len(s) THEN s[i] ELSE t[i - Len(s)]

LEMMA JoinedIs ==
    ASSUME NEW S, NEW s \in Seq(S), NEW t \in Seq(S)
    PROVE  IsJoined(s \o t, s, t)
BY DEF IsJoined

(* The sequences s and t with x between them. *)
Around(s, x, t) == s \o <<x>> \o t

IsAround(u, s, x, t) ==
    /\ Len(u) = Len(s) + 1 + Len(t)
    /\ \A i \in 1..Len(s) + 1 + Len(t) :
          u[i] = IF i <= Len(s) THEN s[i]
                 ELSE IF i = Len(s) + 1 THEN x ELSE t[i - Len(s) - 1]

LEMMA JoinedAround ==
    ASSUME NEW S, NEW s \in Seq(S), NEW x \in S, NEW t \in Seq(S)
    PROVE  /\ Around(s, x, t) \in Seq(S)
           /\ IsAround(Around(s, x, t), s, x, t)
<1>. DEFINE u == s \o <<x>>
<1>1. /\ u \in Seq(S) /\ Len(u) = Len(s) + 1 /\ Len(s) \in Nat /\ Len(t) \in Nat
      /\ \A i \in 1..Len(s) + 1 : u[i] = IF i <= Len(s) THEN s[i] ELSE x
  OBVIOUS
<1>. HIDE DEF u
<1>2. /\ u \o t \in Seq(S) /\ Len(u \o t) = Len(u) + Len(t)
      /\ \A i \in 1..Len(u) + Len(t) :
            (u \o t)[i] = IF i <= Len(u) THEN u[i] ELSE t[i - Len(u)]
  BY <1>1
<1>3. ASSUME NEW i \in 1..Len(s) + 1 + Len(t)
      PROVE  (u \o t)[i] = IF i <= Len(s) THEN s[i]
                           ELSE IF i = Len(s) + 1 THEN x ELSE t[i - Len(s) - 1]
  <2>. DEFINE w == u \o t
  <2>1. w[i] = IF i <= Len(u) THEN u[i] ELSE t[i - Len(u)]
    BY <1>1, <1>2
  <2>. HIDE DEF w
  <2>2. i <= Len(s) + 1 => u[i] = IF i <= Len(s) THEN s[i] ELSE x
    BY <1>1
  <2>3. i - (Len(s) + 1) = i - Len(s) - 1
    BY <1>1
  <2>4. w[i] = IF i <= Len(s) THEN s[i]
               ELSE IF i = Len(s) + 1 THEN x ELSE t[i - Len(s) - 1]
    BY <1>1, <2>1, <2>2, <2>3
  <2>. QED
    BY <2>4 DEF w
<1>. QED
  BY <1>1, <1>2, <1>3 DEF u, Around, IsAround

LEMMA AboveJoined ==
    ASSUME NEW S, NEW s \in Seq(S), NEW t \in Seq(S), NEW u \in Seq(S), NEW r
    PROVE  /\ Above(r, s \o t, u) <=> Above(r, s, u) /\ Above(r, t, u)
           /\ Above(r, u, s \o t) <=> Above(r, u, s) /\ Above(r, u, t)
<1>1. /\ Len(s) \in Nat /\ Len(t) \in Nat
      /\ Len(s \o t) = Len(s) + Len(t)
      /\ \A i \in 1..Len(s) : i \in 1..Len(s \o t) /\ (s \o t)[i] = s[i]
      /\ \A i \in 1..Len(t) : Len(s) + i \in 1..Len(s \o t) /\ (s \o t)[Len(s) + i] = t[i]
      /\ \A k \in 1..Len(s \o t) :
            \/ \E i \in 1..Len(s) : (s \o t)[k] = s[i]
            \/ \E i \in 1..Len(t) : (s \o t)[k] = t[i]
  <2>1. ASSUME NEW k \in 1..Len(s \o t), k \notin 1..Len(s)
        PROVE  \E i \in 1..Len(t) : (s \o t)[k] = t[i]
    <3>1. k - Len(s) \in 1..Len(t) /\ (s \o t)[k] = t[k - Len(s)]
      BY <2>1
    <3>. QED
      BY <3>1
  <2>2. Len(s) \in Nat /\ Len(t) \in Nat /\ Len(s \o t) = Len(s) + Len(t)
    BY Joined
  <2>3. \A k \in 1..Len(s \o t) :
            \/ \E i \in 1..Len(s) : (s \o t)[k] = s[i]
            \/ \E i \in 1..Len(t) : (s \o t)[k] = t[i]
    <3>. TAKE k \in 1..Len(s \o t)
    <3>1. k \in 1..Len(s) => (s \o t)[k] = s[k]
      BY Joined
    <3>. QED
      BY <2>1, <3>1, Zenon
  <2>4. /\ \A i \in 1..Len(s) : (s \o t)[i] = s[i]
        /\ \A i \in 1..Len(t) : (s \o t)[Len(s) + i] = t[i]
    BY Joined
  <2>5. /\ \A i \in 1..Len(s) : i \in 1..Len(s \o t)
        /\ \A i \in 1..Len(t) : Len(s) + i \in 1..Len(s \o t)
    BY <2>2
  <2>. QED
    BY <2>2, <2>3, <2>4, <2>5
<1>. DEFINE st == s \o t
<1>. HIDE DEF st
<1>2. /\ \A i \in 1..Len(s) : \E k \in 1..Len(st) : st[k] = s[i]
      /\ \A i \in 1..Len(t) : \E k \in 1..Len(st) : st[k] = t[i]
      /\ \A k \in 1..Len(st) :
            \/ \E i \in 1..Len(s) : st[k] = s[i]
            \/ \E i \in 1..Len(t) : st[k] = t[i]
  BY <1>1 DEF st
<1>. QED
  BY <1>2 DEF Above, st

LEMMA TrailJoined ==
    ASSUME NEW d, NEW r,
           NEW s \in Seq(VisitsTo(Len(d))), NEW t \in Seq(VisitsTo(Len(d)))
    PROVE  IsTrail(r, d, s \o t) <=> /\ IsTrail(r, d, s)
                                     /\ IsTrail(r, d, t)
                                     /\ Above(r, s, t)
<1>. DEFINE st == s \o t
            S == VisitsTo(Len(d))
<1>. HIDE DEF S
<1>1. s \in Seq(S) /\ t \in Seq(S) /\ Len(s) \in Nat /\ Len(t) \in Nat
  BY DEF S
<1>2. /\ st \in Seq(S)
      /\ Len(st) = Len(s) + Len(t)
      /\ \A i \in 1..Len(s) : st[i] = s[i]
      /\ \A i \in 1..Len(t) : st[Len(s) + i] = t[i]
  BY <1>1, Joined
<1>. HIDE DEF st
<1>3. ASSUME IsTrail(r, d, st)
      PROVE  IsTrail(r, d, s) /\ IsTrail(r, d, t) /\ Above(r, s, t)
  <2>1. /\ \A i \in 1..Len(s) : i \in 1..Len(st)
        /\ \A i \in 1..Len(t) : Len(s) + i \in 1..Len(st)
        /\ \A i, j \in 1..Len(t) : i < j => Len(s) + i < Len(s) + j
        /\ \A i \in 1..Len(s), j \in 1..Len(t) : i < Len(s) + j
    BY <1>1, <1>2
  <2>2. IsTrail(r, d, s)
    BY <1>1, <1>2, <1>3, <2>1 DEF IsTrail, S
  <2>3. IsTrail(r, d, t)
    <3>1. ASSUME NEW i \in 1..Len(t)
          PROVE  /\ ~ d[t[i].id].obsolete
                 /\ t[i].ref # 0 => r[t[i].ref] < r[t[i].id]
      BY <1>2, <1>3, <2>1 DEF IsTrail
    <3>2. ASSUME NEW i \in 1..Len(t), NEW j \in 1..Len(t), i < j
          PROVE  r[t[j].id] < r[t[i].id]
      <4>1. r[st[Len(s) + j].id] < r[st[Len(s) + i].id]
        BY <1>3, <2>1, <3>2 DEF IsTrail
      <4>. QED
        BY <1>2, <4>1
    <3>. QED
      BY <1>1, <3>1, <3>2 DEF IsTrail, S
  <2>4. Above(r, s, t)
    <3>1. ASSUME NEW i \in 1..Len(s), NEW j \in 1..Len(t)
          PROVE  r[t[j].id] < r[s[i].id]
      <4>1. r[st[Len(s) + j].id] < r[st[i].id]
        BY <1>3, <2>1 DEF IsTrail
      <4>. QED
        BY <1>2, <4>1
    <3>. QED
      BY <3>1 DEF Above
  <2>. QED
    BY <2>2, <2>3, <2>4
<1>4. ASSUME IsTrail(r, d, s), IsTrail(r, d, t), Above(r, s, t)
      PROVE  IsTrail(r, d, st)
  <2>1. \A k \in 1..Len(st) :
           \/ k \in 1..Len(s) /\ st[k] = s[k]
           \/ /\ k - Len(s) \in 1..Len(t)
              /\ st[k] = t[k - Len(s)]
    <3>1. ASSUME NEW k \in 1..Len(st), k \notin 1..Len(s)
          PROVE  k - Len(s) \in 1..Len(t) /\ st[k] = t[k - Len(s)]
      <4>1. k - Len(s) \in 1..Len(t) /\ k = Len(s) + (k - Len(s))
        BY <1>1, <1>2, <3>1
      <4>. QED
        BY <1>2, <4>1
    <3>. QED
      BY <1>2, <3>1
  <2>2. ASSUME NEW k \in 1..Len(st)
        PROVE  /\ ~ d[st[k].id].obsolete
               /\ st[k].ref # 0 => r[st[k].ref] < r[st[k].id]
    BY <1>4, <2>1 DEF IsTrail
  <2>3. ASSUME NEW i \in 1..Len(st), NEW j \in 1..Len(st), i < j
        PROVE  r[st[j].id] < r[st[i].id]
    <3>1. CASE i \in 1..Len(s) /\ j \in 1..Len(s)
      BY <1>2, <1>4, <2>3, <3>1 DEF IsTrail
    <3>2. CASE i \in 1..Len(s) /\ j \notin 1..Len(s)
      BY <1>2, <1>4, <2>1, <3>2 DEF Above
    <3>3. CASE i \notin 1..Len(s)
      <4>1. j \notin 1..Len(s) /\ i - Len(s) < j - Len(s)
        BY <1>1, <1>2, <2>3, <3>3
      <4>. QED
        BY <1>4, <2>1, <3>3, <4>1 DEF IsTrail
    <3>. QED
      BY <3>1, <3>2, <3>3
  <2>. QED
    BY <1>2, <2>2, <2>3 DEF IsTrail, S
<1>. QED
  BY <1>3, <1>4 DEF st

LEMMA TrailPrefix ==
    ASSUME NEW d, NEW r, NEW s, IsTrail(r, d, s), NEW q \in 0..Len(s)
    PROVE  IsTrail(r, d, SubSeq(s, 1, q))
<1>1. s \in Seq(VisitsTo(Len(d)))
  BY DEF IsTrail
<1>. DEFINE t == SubSeq(s, 1, q)
<1>2. /\ t \in Seq(VisitsTo(Len(d)))
      /\ Len(t) = q /\ Len(s) \in Nat
      /\ \A i \in 1..q : i \in 1..Len(s) /\ t[i] = s[i]
  BY <1>1
<1>. QED
  BY <1>2 DEF IsTrail

(* Cutting a sequence at one of its elements. *)
LEMMA Rejoined ==
    ASSUME NEW S, NEW s \in Seq(S), NEW p \in 1..Len(s), NEW q \in p..Len(s)
    PROVE  SubSeq(s, 1, p - 1) \o <<s[p]>> \o SubSeq(s, p + 1, q)
             = SubSeq(s, 1, q)
<1>1. Len(s) \in Nat
  OBVIOUS
<1>2. SubSeq(s, 1, p) = SubSeq(s, 1, p - 1) \o <<s[p]>>
  <2>1. 1 \in 1..Len(s) /\ p \in 1..Len(s)
    BY <1>1
  <2>. QED
    BY <2>1, SubSeqRecursiveSecond
<1>3. SubSeq(s, 1, p) \o SubSeq(s, p + 1, q) = SubSeq(s, 1, q)
  <2>1. 1 \in 1..Len(s) + 1 /\ p \in 1 - 1..Len(s)
    BY <1>1
  <2>. QED
    BY <2>1, ConcatAdjacentSubSeq
<1>. QED
  BY <1>2, <1>3

LEMMA Spliced ==
    ASSUME NEW S, NEW A \in Seq(S), NEW V \in Seq(S), NEW n \in 1..Len(V)
    PROVE  ((A \o SubSeq(V, 1, n - 1)) \o <<V[n]>>) \o SubSeq(V, n + 1, Len(V))
             = A \o V
<1>. DEFINE P == SubSeq(V, 1, n - 1)
            w == <<V[n]>>
            Q == SubSeq(V, n + 1, Len(V))
<1>1. Len(V) \in Nat /\ \A i \in 1..Len(V) : V[i] \in S
  BY ElementOfSeq
<1>2. P \in Seq(S) /\ w \in Seq(S) /\ Q \in Seq(S)
  BY <1>1, SubSeqProperties
<1>3. (P \o w) \o Q = V
  <2>1. (P \o w) \o Q = SubSeq(V, 1, Len(V))
    <3>1. Len(V) \in n..Len(V)
      BY <1>1
    <3>. QED
      BY <3>1, Rejoined
  <2>. QED
    BY <2>1, SubSeqFull
<1>. HIDE DEF P, w, Q
<1>4. A \in Seq(S)
  OBVIOUS
<1>5. ((A \o P) \o w) \o Q = A \o ((P \o w) \o Q)
  BY <1>2, <1>4, SMTT(60)
<1>. QED
  BY <1>3, <1>5 DEF P, w, Q

------------------------------------------------------------------------------
LastSeq(v) == IF v = NoVisit THEN <<>> ELSE <<v>>

(* The visits of a session, from the furthest forward to the oldest back. *)
TrailOf(f, v, b) == f \o LastSeq(v) \o b

LEMMA AtMostIs ==
    ASSUME NEW S, NEW s \in Seq(S), NEW n \in Nat
    PROVE  LET t == AtMost(s, n) IN
           /\ t \in Seq(S)
           /\ Len(t) \in 0..n
           /\ Len(t) \in 0..Len(s)
           /\ t = SubSeq(s, 1, Len(t))
           /\ n <= Len(s) => Len(t) = n
           /\ Len(s) <= n => t = s
<1>. DEFINE t == AtMost(s, n)
<1>1. Len(s) \in Nat
  OBVIOUS
<1>2. ASSUME n < Len(s)
      PROVE  /\ t \in Seq(S)
             /\ Len(t) \in 0..n
             /\ Len(t) \in 0..Len(s)
             /\ t = SubSeq(s, 1, Len(t))
             /\ n <= Len(s) => Len(t) = n
             /\ Len(s) <= n => t = s
  <2>1. t = SubSeq(s, 1, n)
    BY <1>2 DEF AtMost
  <2>2. SubSeq(s, 1, n) \in Seq(S) /\ Len(SubSeq(s, 1, n)) = n
    BY <1>2
  <2>. QED
    BY <1>1, <1>2, <2>1, <2>2
<1>3. ASSUME ~(n < Len(s))
      PROVE  /\ t \in Seq(S)
             /\ Len(t) \in 0..n
             /\ Len(t) \in 0..Len(s)
             /\ t = SubSeq(s, 1, Len(t))
             /\ n <= Len(s) => Len(t) = n
             /\ Len(s) <= n => t = s
  <2>1. t = s
    BY <1>3, SubSeqFull DEF AtMost
  <2>2. t = SubSeq(s, 1, Len(t))
    BY <2>1, SubSeqFull
  <2>3. Len(s) \in 0..n /\ (n <= Len(s) => Len(s) = n)
    BY <1>1, <1>3
  <2>. HIDE DEF t
  <2>4. t \in Seq(S) /\ Len(t) \in 0..n /\ Len(t) \in 0..Len(s)
    BY <1>1, <2>1, <2>3
  <2>5. n <= Len(s) => Len(t) = n
    BY <2>1, <2>3
  <2>. QED
    BY <2>1, <2>2, <2>4, <2>5
<1>. QED
  <2>. HIDE DEF t
  <2>1. /\ t \in Seq(S)
        /\ Len(t) \in 0..n
        /\ Len(t) \in 0..Len(s)
        /\ t = SubSeq(s, 1, Len(t))
        /\ n <= Len(s) => Len(t) = n
        /\ Len(s) <= n => t = s
    BY <1>2, <1>3
  <2>. QED
    BY <2>1 DEF t

(* The visits that are made of the rows read from the chain. *)
VisitsMade(ids) ==
    [i \in 1..Len(ids) |->
        [id |-> ids[i], ref |-> IF i = Len(ids) THEN 0 ELSE ids[i + 1]]]

LEMMA LoadCacheIs ==
    ASSUME NEW d, NEW top \in 0..Len(d), IsDb(d), NEW numForward \in Nat,
           HistoryAssumption
    PROVE  LET s == LoadCache(d, top, numForward)
               c == Chain(d, Top(d, top), There(d))
               ids == AtMost(c, 2 * RecentLength + 1 + numForward)
               visits == VisitsMade(ids)
           IN   /\ c \in Seq(There(d))
                /\ ids \in Seq(There(d))
                /\ ids = SubSeq(c, 1, Len(ids))
                /\ Len(ids) \in 0..Len(c)
                /\ visits \in Seq(VisitsTo(Len(d)))
                /\ TrailOf(s.forward, s.last, s.back) = visits
                /\ s.forward \in Seq(VisitsTo(Len(d)))
                /\ s.back \in Seq(VisitsTo(Len(d)))
                /\ Len(s.back) <= CacheLength
                /\ s.last \in VisitsTo(Len(d)) \cup {NoVisit}
<1>. DEFINE n == Len(d)
            c == Chain(d, Top(d, top), There(d))
            m == 2 * RecentLength + 1 + numForward
            ids == AtMost(c, m)
            visits == VisitsMade(ids)
            k == Len(ids)
            V == VisitsTo(n)
            s == LoadCache(d, top, numForward)
<1>1. n \in Nat /\ m \in Nat /\ 2 * RecentLength <= CacheLength /\ RecentLength \in Nat
  BY DEF IsDb, HistoryAssumption
<1>2. c \in Seq(There(d)) /\ There(d) \in SUBSET (1..n)
  <2>1. There(d) \in SUBSET (1..n)
    BY <1>1 DEF There, IsDb
  <2>2. Top(d, top) \in 0..n
    BY <1>1 DEF Top
  <2>. QED
    BY <2>1, <2>2, ChainType
<1>. HIDE DEF c, m
<1>3. ids = SubSeq(c, 1, k) /\ k \in 0..Len(c)
  BY <1>1, <1>2, AtMostIs
<1>4. ids \in Seq(There(d)) /\ k \in 0..m
  BY <1>1, <1>2, AtMostIs
<1>. HIDE DEF ids
<1>5. visits \in Seq(V) /\ Len(visits) = k
  <2>1. \A i \in 1..k : ids[i] \in 1..n
    BY <1>2, <1>4, ElementOfSeq
  <2>2. \A i \in 1..k : [id |-> ids[i], ref |-> IF i = k THEN 0 ELSE ids[i + 1]] \in V
    <3>. TAKE i \in 1..k
    <3>1. ids[i] \in 1..n /\ (i # k => ids[i + 1] \in 1..n)
      BY <2>1, <1>4, <1>1
    <3>. QED
      BY <3>1, <1>1 DEF VisitsTo
  <2>. QED
    BY <2>2, <1>1, <1>4 DEF VisitsMade
<1>6. s = [forward |-> AtMost(visits, numForward),
           last |-> IF k > numForward THEN visits[numForward + 1] ELSE NoVisit,
           back |-> SubSeq(visits, numForward + 2, k)]
  BY DEF LoadCache, VisitsMade, ids, c, m
<1>. HIDE DEF visits, s, k, V
<1>7. ASSUME k > numForward
      PROVE  /\ TrailOf(s.forward, s.last, s.back) = visits
             /\ s.forward \in Seq(V) /\ s.back \in Seq(V)
             /\ Len(s.back) <= CacheLength
             /\ s.last \in V \cup {NoVisit}
  <2>1. numForward + 1 \in 1..k /\ k \in (numForward + 1)..k /\ k \in Nat
    BY <1>1, <1>4, <1>7
  <2>2. visits[numForward + 1] \in V /\ visits[numForward + 1] # NoVisit
    <3>1. visits[numForward + 1] \in V
      BY <1>5, <2>1, ElementOfSeq
    <3>. QED
      BY <3>1, <1>1 DEF V, VisitsTo, NoVisit
  <2>3. AtMost(visits, numForward) = SubSeq(visits, 1, (numForward + 1) - 1)
    BY <1>5, <1>7, <2>1 DEF AtMost
  <2>4. TrailOf(s.forward, s.last, s.back) = visits
    <3>1. TrailOf(s.forward, s.last, s.back)
            = SubSeq(visits, 1, (numForward + 1) - 1) \o <<visits[numForward + 1]>>
              \o SubSeq(visits, (numForward + 1) + 1, k)
      <4>1. (numForward + 1) + 1 = numForward + 2
        OBVIOUS
      <4>. QED
        BY <1>6, <1>7, <2>2, <2>3, <4>1 DEF TrailOf, LastSeq
    <3>2. @ = SubSeq(visits, 1, k)
      BY <1>5, <2>1, Rejoined
    <3>3. @ = visits
      BY <1>5, SubSeqFull
    <3>. QED
      BY <3>1, <3>2, <3>3
  <2>5. /\ SubSeq(visits, numForward + 2, k) \in Seq(V)
        /\ Len(SubSeq(visits, numForward + 2, k)) <= 2 * RecentLength
    <3>1. \A i \in numForward + 2..k : visits[i] \in V
      BY <1>5, <2>1, ElementOfSeq
    <3>2. numForward + 2 \in Int /\ k \in Int
      BY <2>1
    <3>3. /\ SubSeq(visits, numForward + 2, k) \in Seq(V)
          /\ Len(SubSeq(visits, numForward + 2, k))
                = IF numForward + 2 <= k THEN k - (numForward + 2) + 1 ELSE 0
      BY <3>1, <3>2, SubSeqProperties
    <3>. QED
      BY <3>3, <1>1, <1>4, <2>1 DEF m
  <2>6. s.forward \in Seq(V)
    BY <1>5, <1>6, AtMostIs
  <2>7. s.back \in Seq(V) /\ Len(s.back) <= CacheLength
    <3>1. Len(s.back) \in Nat
      BY <1>6, <2>5, LenProperties
    <3>. QED
      BY <1>1, <1>6, <2>5, <3>1
  <2>8. s.last \in V
    BY <1>6, <1>7, <2>2
  <2>. QED
    BY <2>4, <2>6, <2>7, <2>8
<1>8. ASSUME ~(k > numForward)
      PROVE  /\ TrailOf(s.forward, s.last, s.back) = visits
             /\ s.forward \in Seq(V) /\ s.back \in Seq(V)
             /\ Len(s.back) <= CacheLength
             /\ s.last \in V \cup {NoVisit}
  <2>1. AtMost(visits, numForward) = visits
    <3>1. Len(visits) <= numForward
      BY <1>1, <1>4, <1>5, <1>8
    <3>. QED
      BY <1>5, <3>1, AtMostIs
  <2>2. SubSeq(visits, numForward + 2, k) = <<>>
    BY <1>1, <1>4, <1>8, SubSeqEmpty
  <2>3. TrailOf(s.forward, s.last, s.back) = visits
    BY <1>5, <1>6, <1>8, <2>1, <2>2, ConcatEmptySeq DEF TrailOf, LastSeq
  <2>4. s.forward = visits /\ s.back = <<>> /\ s.last = NoVisit
    BY <1>6, <1>8, <2>1, <2>2
  <2>5. s.back \in Seq(V) /\ Len(s.back) <= CacheLength
    BY <1>1, <2>4
  <2>. QED
    BY <1>5, <2>3, <2>4, <2>5
<1>9. /\ TrailOf(s.forward, s.last, s.back) = visits
      /\ s.forward \in Seq(V) /\ s.back \in Seq(V)
      /\ Len(s.back) <= CacheLength
      /\ s.last \in V \cup {NoVisit}
  <2>1. k > numForward \/ ~(k > numForward)
    OBVIOUS
  <2>. QED
    BY <1>7, <1>8, <2>1
<1>. QED
  BY <1>2, <1>3, <1>4, <1>5, <1>9 DEF visits, s, k, V, ids, c, m

(***************************************************************************)
(* What is loaded is in the order of the chain, from the furthest forward  *)
(* visit to the oldest back visit, and no visit of an obsolete place.      *)
(***************************************************************************)
LEMMA LoadCacheTrail ==
    ASSUME NEW d, NEW top \in 0..Len(d), IsDb(d), NEW numForward \in Nat,
           HistoryAssumption, NEW r \in Ranks(d), Ranked(r, d)
    PROVE  LET s == LoadCache(d, top, numForward)
           IN IsTrail(r, d, TrailOf(s.forward, s.last, s.back))
<1>. DEFINE n == Len(d)
            c == Chain(d, Top(d, top), There(d))
            ids == AtMost(c, 2 * RecentLength + 1 + numForward)
            k == Len(ids)
            visits == VisitsMade(ids)
            s == LoadCache(d, top, numForward)
<1>1. /\ c \in Seq(There(d))
      /\ ids \in Seq(There(d))
      /\ ids = SubSeq(c, 1, k)
      /\ k \in 0..Len(c)
      /\ visits \in Seq(VisitsTo(n))
      /\ TrailOf(s.forward, s.last, s.back) = visits
  BY LoadCacheIs
<1>2. \A i, j \in 1..Len(c) : i < j => r[c[j]] < r[c[i]]
  <2>1. n \in Nat
    BY DEF IsDb
  <2>2. Top(d, top) \in 0..n /\ There(d) \in SUBSET (1..n)
    BY <2>1 DEF Top, There, IsDb
  <2>3. \A i, j \in DOMAIN c : i < j => r[c[j]] < r[c[i]]
    BY <2>2, ChainDescends
  <2>4. DOMAIN c = 1..Len(c)
    <3>1. c \in Seq(There(d))
      BY <1>1
    <3>. QED
      BY <3>1, LenProperties
  <2>. QED
    BY <2>3, <2>4
<1>. HIDE DEF c, ids, s
<1>3. \A i, j \in 1..k : i < j => r[ids[j]] < r[ids[i]]
  <2>1. \A i \in 1..k : i \in 1..Len(c) /\ ids[i] = c[i]
    BY <1>1
  <2>. QED
    BY <1>2, <2>1
<1>4. \A i \in 1..k : ids[i] \in There(d)
  BY <1>1, ElementOfSeq
<1>5. Len(visits) = k /\ k \in Nat
  <2>1. Len(ids) \in Nat
    BY <1>1, LenProperties
  <2>. QED
    BY <2>1 DEF VisitsMade
<1>6. \A i \in 1..k : /\ visits[i].id = ids[i]
                     /\ visits[i].ref = IF i = k THEN 0 ELSE ids[i + 1]
  BY DEF VisitsMade
<1>. HIDE DEF visits
<1>7. ASSUME NEW i \in 1..k
      PROVE  /\ ~ d[visits[i].id].obsolete
             /\ visits[i].ref # 0 => r[visits[i].ref] < r[visits[i].id]
  <2>1. i # k => i + 1 \in 1..k /\ i < i + 1
    BY <1>5
  <2>. QED
    BY <1>3, <1>4, <1>6, <2>1 DEF There
<1>8. IsTrail(r, d, visits)
  <2>1. visits \in Seq(VisitsTo(Len(d)))
    BY <1>1
  <2>2. \A i, j \in 1..k : i < j => r[visits[j].id] < r[visits[i].id]
    BY <1>3, <1>6
  <2>. QED
    BY <1>5, <1>7, <2>1, <2>2 DEF IsTrail
<1>. QED
  BY <1>1, <1>8 DEF s

------------------------------------------------------------------------------
(* The row v.id of e is new.  Its visit v refers to the first of the       *)
(* visits V; of the visits X, which become Y, and of their rows some now   *)
(* refer to v.                                                             *)
IsInserted(d, X, V, e, v, Y) ==
    /\ Len(e) = Len(d) + 1
    /\ v = [id |-> Len(d) + 1, ref |-> IF V = <<>> THEN 0 ELSE V[1].id]
    /\ ~ e[v.id].obsolete
    /\ e[v.id].referer = v.ref
    /\ \A i \in 1..Len(d) :
        /\ e[i].obsolete = d[i].obsolete
        /\ \/ e[i].referer = d[i].referer
           \/ e[i].referer = v.id /\ \E k \in 1..Len(X) : i = X[k].id
    /\ Y \in Seq(VisitsTo(Len(e)))
    /\ Len(Y) = Len(X)
    /\ \A k \in 1..Len(X) : /\ Y[k].id = X[k].id
                            /\ Y[k].ref = X[k].ref \/ Y[k].ref = v.id

(***************************************************************************)
(* A visit that comes between the visits X above it and V below it finds   *)
(* a place in the order.                                                   *)
(***************************************************************************)
LEMMA InsertedTrail ==
    ASSUME NEW d, IsDb(d), NEW r \in Ranks(d), Ranked(r, d),
           NEW X \in Seq(VisitsTo(Len(d))), NEW V \in Seq(VisitsTo(Len(d))),
           IsTrail(r, d, X \o V),
           NEW e, NEW v, NEW Y, IsInserted(d, X, V, e, v, Y)
    PROVE  \E q \in Ranks(e) : Ranked(q, e) /\ IsTrail(q, e, Y \o <<v>> \o V)
<1>. USE DEF IsInserted
<1>. DEFINE n == Len(d)
            mid == IF V # <<>> THEN 2 * r[V[1].id] + 1
                   ELSE IF X # <<>> THEN 2 * r[X[Len(X)].id] - 1 ELSE 0
            q == [i \in 1..n + 1 |-> IF i = n + 1 THEN mid ELSE 2 * r[i]]
<1>1. /\ n \in Nat /\ Len(X) \in Nat /\ Len(V) \in Nat
      /\ v.id = n + 1
      /\ (X # <<>> => Len(X) \in 1..Len(X)) /\ (V # <<>> => 1 \in 1..Len(V))
  BY DEF IsDb
<1>2. /\ \A i \in 1..Len(X) : X[i] \in VisitsTo(n) /\ X[i].id \in 1..n /\ X[i].ref \in 0..n
      /\ \A i \in 1..Len(V) : V[i] \in VisitsTo(n) /\ V[i].id \in 1..n /\ V[i].ref \in 0..n
  <2>1. /\ \A i \in 1..Len(X) : X[i] \in VisitsTo(n)
        /\ \A i \in 1..Len(V) : V[i] \in VisitsTo(n)
    BY ElementOfSeq
  <2>. QED
    BY <2>1 DEF VisitsTo
<1>3. IsTrail(r, d, X) /\ IsTrail(r, d, V) /\ Above(r, X, V)
  BY TrailJoined
<1>4. \A i \in 1..n : r[i] \in Int
  BY DEF Ranks
<1>5. mid \in Int
  BY <1>1, <1>2, <1>4
<1>6. \A i \in 1..Len(X) : mid < 2 * r[X[i].id]
  <2>. TAKE i \in 1..Len(X)
  <2>1. r[X[i].id] \in Int /\ r[X[Len(X)].id] \in Int /\ X # <<>>
    BY <1>1, <1>2, <1>4
  <2>2. CASE V # <<>>
    <3>1. r[V[1].id] < r[X[i].id] /\ r[V[1].id] \in Int
      BY <1>1, <1>2, <1>3, <1>4, <2>2 DEF Above
    <3>. QED
      BY <2>1, <2>2, <3>1
  <2>3. CASE V = <<>>
    <3>1. r[X[Len(X)].id] <= r[X[i].id]
      <4>1. i = Len(X) \/ i < Len(X)
        BY <1>1
      <4>. QED
        BY <1>1, <1>3, <2>1, <4>1 DEF IsTrail
    <3>. QED
      BY <2>1, <2>3, <3>1
  <2>. QED
    BY <2>2, <2>3
<1>7. \A i \in 1..Len(V) : 2 * r[V[i].id] < mid
  <2>. TAKE i \in 1..Len(V)
  <2>1. r[V[i].id] \in Int /\ r[V[1].id] \in Int /\ V # <<>>
    BY <1>1, <1>2, <1>4
  <2>2. r[V[i].id] <= r[V[1].id]
    <3>1. i = 1 \/ 1 < i
      BY <1>1
    <3>. QED
      BY <1>1, <1>3, <2>1, <3>1 DEF IsTrail
  <2>. QED
    BY <2>1, <2>2
<1>8. /\ q \in Ranks(e)
      /\ q[n + 1] = mid
      /\ \A i \in 1..n : q[i] = 2 * r[i] /\ q[i] \in Int
  BY <1>1, <1>4, <1>5 DEF Ranks
<1>. HIDE DEF mid, q
<1>grows. \A i, j \in 1..n : r[j] < r[i] => q[j] < q[i]
  BY <1>4, <1>8
<1>above. \A i \in 1..Len(X) : q[v.id] < q[X[i].id]
  BY <1>1, <1>2, <1>6, <1>8
<1>below. \A i \in 1..Len(V) : q[V[i].id] < q[v.id]
  BY <1>1, <1>2, <1>7, <1>8
<1>9. v.ref # 0 => v.ref \in 1..n /\ q[v.ref] < q[v.id]
  <2>. SUFFICES ASSUME v.ref # 0 PROVE v.ref \in 1..n /\ q[v.ref] < q[v.id]
    OBVIOUS
  <2>1. V # <<>> /\ v.ref = V[1].id
    OBVIOUS
  <2>. QED
    BY <1>1, <1>2, <1>below, <2>1
<1>10. Ranked(q, e)
  <2>. SUFFICES ASSUME NEW i \in 1..n + 1, e[i].referer # 0
                PROVE  q[e[i].referer] < q[i]
    BY <1>1 DEF Ranked
  <2>1. CASE i = n + 1
    BY <1>1, <1>9, <2>1
  <2>2. CASE i # n + 1
    <3>1. i \in 1..n
      BY <1>1, <2>2
    <3>2. CASE e[i].referer = d[i].referer
      <4>1. d[i].referer \in 1..n /\ r[d[i].referer] < r[i]
        <5>1. d[i] \in RowsTo(n)
          BY <3>1, ElementOfSeq DEF IsDb
        <5>. QED
          BY <1>1, <3>1, <3>2, <5>1 DEF RowsTo, Ranked
      <4>. QED
        BY <1>grows, <3>1, <3>2, <4>1
    <3>3. CASE e[i].referer = v.id /\ \E k \in 1..Len(X) : i = X[k].id
      BY <1>above, <3>3
    <3>. QED
      BY <3>1, <3>2, <3>3
  <2>. QED
    BY <2>1, <2>2
<1>11. IsTrail(q, e, Y)
  <2>1. ASSUME NEW k \in 1..Len(Y)
        PROVE  /\ ~ e[Y[k].id].obsolete
               /\ Y[k].ref # 0 => q[Y[k].ref] < q[Y[k].id]
    <3>1. k \in 1..Len(X) /\ Y[k].id = X[k].id /\ X[k].id \in 1..n /\ X[k].ref \in 0..n
      BY <1>2
    <3>2. ~ e[Y[k].id].obsolete
      BY <1>3, <3>1 DEF IsTrail
    <3>3. CASE Y[k].ref = v.id
      BY <1>above, <3>1, <3>2, <3>3
    <3>4. CASE Y[k].ref = X[k].ref /\ Y[k].ref # 0
      <4>1. X[k].ref \in 1..n /\ r[X[k].ref] < r[X[k].id]
        BY <1>1, <1>3, <3>1, <3>4 DEF IsTrail
      <4>. QED
        BY <1>grows, <3>1, <3>2, <3>4, <4>1
    <3>. QED
      BY <3>1, <3>2, <3>3, <3>4
  <2>2. ASSUME NEW i \in 1..Len(Y), NEW j \in 1..Len(Y), i < j
        PROVE  q[Y[j].id] < q[Y[i].id]
    <3>1. /\ Y[i].id = X[i].id /\ Y[j].id = X[j].id
          /\ X[i].id \in 1..n /\ X[j].id \in 1..n
      BY <1>2
    <3>2. r[X[j].id] < r[X[i].id]
      BY <1>3, <2>2 DEF IsTrail
    <3>. QED
      BY <1>grows, <3>1, <3>2
  <2>. QED
    BY <2>1, <2>2 DEF IsTrail
<1>12. IsTrail(q, e, V)
  <2>1. V \in Seq(VisitsTo(Len(e)))
    <3>1. \A i \in 1..Len(V) : V[i] \in VisitsTo(n + 1)
      BY <1>1, <1>2 DEF VisitsTo
    <3>. QED
      BY <1>1, <3>1
  <2>2. ASSUME NEW k \in 1..Len(V)
        PROVE  /\ ~ e[V[k].id].obsolete
               /\ V[k].ref # 0 => q[V[k].ref] < q[V[k].id]
    <3>1. V[k].id \in 1..n /\ V[k].ref \in 0..n
      BY <1>2
    <3>2. ~ e[V[k].id].obsolete
      BY <1>3, <3>1 DEF IsTrail
    <3>3. CASE V[k].ref # 0
      <4>1. V[k].ref \in 1..n /\ r[V[k].ref] < r[V[k].id]
        BY <1>1, <1>3, <3>1, <3>3 DEF IsTrail
      <4>. QED
        BY <1>grows, <3>1, <3>2, <4>1
    <3>. QED
      BY <3>2, <3>3
  <2>3. ASSUME NEW i \in 1..Len(V), NEW j \in 1..Len(V), i < j
        PROVE  q[V[j].id] < q[V[i].id]
    <3>1. V[i].id \in 1..n /\ V[j].id \in 1..n
      BY <1>2
    <3>2. r[V[j].id] < r[V[i].id]
      BY <1>3, <2>3 DEF IsTrail
    <3>. QED
      BY <1>grows, <3>1, <3>2
  <2>. QED
    BY <2>1, <2>2, <2>3 DEF IsTrail
<1>13. v \in VisitsTo(Len(e)) /\ <<v>> \in Seq(VisitsTo(Len(e)))
  BY <1>1, <1>9, SMTT(30) DEF VisitsTo
<1>14. IsTrail(q, e, <<v>>)
  BY <1>9, <1>13 DEF IsTrail
<1>15. Above(q, Y, <<v>>) /\ Above(q, <<v>>, V) /\ Above(q, Y, V)
  <2>1. ASSUME NEW i \in 1..Len(X), NEW j \in 1..Len(V)
        PROVE  q[V[j].id] < q[Y[i].id]
    <3>1. r[V[j].id] < r[X[i].id]
      BY <1>3 DEF Above
    <3>. QED
      BY <1>2, <1>grows, <3>1
  <2>2. \A i \in 1..Len(X) : q[v.id] < q[Y[i].id]
    BY <1>above
  <2>4. Len(<<v>>) = 1 /\ <<v>>[1] = v
    OBVIOUS
  <2>. QED
    BY <1>below, <2>1, <2>2, <2>4 DEF Above
<1>16. IsTrail(q, e, Y \o <<v>>) /\ Y \o <<v>> \in Seq(VisitsTo(Len(e)))
  <2>1. Y \in Seq(VisitsTo(Len(e)))
    BY <1>11 DEF IsTrail
  <2>2. IsTrail(q, e, Y \o <<v>>)
    BY <1>11, <1>13, <1>14, <1>15, <2>1, TrailJoined
  <2>. QED
    BY <2>2 DEF IsTrail
<1>17. Above(q, Y \o <<v>>, V)
  <2>1. /\ Y \in Seq(VisitsTo(Len(e))) /\ V \in Seq(VisitsTo(Len(e)))
        /\ <<v>> \in Seq(VisitsTo(Len(e)))
    BY <1>11, <1>12, <1>14 DEF IsTrail
  <2>. QED
    BY <1>15, <2>1, AboveJoined
<1>18. IsTrail(q, e, Y \o <<v>> \o V)
  <2>1. V \in Seq(VisitsTo(Len(e)))
    BY <1>12 DEF IsTrail
  <2>. QED
    BY <1>12, <1>16, <1>17, <2>1, TrailJoined
<1>. QED
  BY <1>8, <1>10, <1>18

------------------------------------------------------------------------------
(***************************************************************************)
(* Replenishing the back visits leaves those that are there, except that   *)
(* the oldest one may refer to another visit, and adds visits behind them. *)
(* There are never more than the deque holds.                              *)
(***************************************************************************)
Keeps(visits) ==
    /\ visits \in Seq(VisitsTo(Len(db)))
    /\ Len(visits) \in Len(back)..CacheLength
    /\ \A i \in 1..Len(back) : visits[i].id = back[i].id

LEMMA ReplenishedParts ==
    ASSUME HistoryAssumption, TypeOK, back # <<>>
    PROVE  LET c == Chain(db, Oldest.ref, There(db))
               read == AtMost(c, ToLoad)
               m == Len(back)
           IN \E ref \in 0..Len(db) :
                /\ ref # 0 => ref = Oldest.ref \/ \E j \in 1..Len(read) : ref = read[j]
                /\ Replenished =
                      [back EXCEPT ![m].ref = ref]
                      \o [i \in 1..Len(read) |-> [id |-> read[i], ref |-> db[read[i]].referer]]
                /\ c \in Seq(There(db))
                /\ There(db) \in SUBSET (1..Len(db))
                /\ read \in Seq(There(db))
                /\ read = SubSeq(c, 1, Len(read))
                /\ Len(read) \in 0..Len(c)
                /\ m + Len(read) \in m..CacheLength
                /\ m \in 1..m /\ Oldest \in VisitsTo(Len(db))
<1>. DEFINE n == Len(db)
            c == Chain(db, Oldest.ref, There(db))
            read == AtMost(c, ToLoad)
            m == Len(back)
            ref == IF Len(c) < ToLoad /\ ~ Broken(db, Oldest.ref) THEN 0
                   ELSE IF read = <<>> THEN Oldest.ref ELSE read[Len(read)]
<1>1. n \in Nat /\ IsDb(db) /\ CacheLength \in Nat
  BY DEF TypeOK, IsDb, HistoryAssumption
<1>2. m \in 1..m /\ m \in Nat /\ m <= CacheLength
  BY DEF TypeOK
<1>3. Oldest \in VisitsTo(n)
  BY <1>2, ElementOfSeq DEF TypeOK, Oldest
<1>4. There(db) \in SUBSET (1..n) /\ Oldest.ref \in 0..n
  BY <1>1, <1>3 DEF There, IsDb, VisitsTo
<1>5. c \in Seq(There(db))
  BY <1>1, <1>4, ChainType
<1>6. ToLoad \in Nat /\ ToLoad = CacheLength - m
  BY <1>1, <1>2 DEF ToLoad
<1>. HIDE DEF c
<1>7. /\ read \in Seq(There(db))
      /\ read = SubSeq(c, 1, Len(read))
      /\ Len(read) \in 0..Len(c)
      /\ Len(read) \in 0..ToLoad
  BY <1>5, <1>6, AtMostIs
<1>. HIDE DEF read
<1>8. read # <<>> => Len(read) \in 1..Len(read) /\ read[Len(read)] \in There(db)
  BY <1>7, ElementOfSeq
<1>9. /\ ref \in 0..n
      /\ ref # 0 => ref = Oldest.ref \/ \E j \in 1..Len(read) : ref = read[j]
  BY <1>1, <1>4, <1>8
<1>10. Replenished =
         [back EXCEPT ![m].ref = ref]
         \o [i \in 1..Len(read) |-> [id |-> read[i], ref |-> db[read[i]].referer]]
  <2>1. DOMAIN read = 1..Len(read)
    BY <1>7, LenProperties
  <2>. QED
    BY <2>1 DEF Replenished, ReplenishWith, read, c
<1>11. m + Len(read) \in m..CacheLength
  BY <1>1, <1>2, <1>6, <1>7
<1>. QED
  BY <1>2, <1>3, <1>4, <1>5, <1>7, <1>9, <1>10, <1>11 DEF read, c

LEMMA ReplenishedKeeps ==
    ASSUME HistoryAssumption, TypeOK, back # <<>>
    PROVE  Keeps(Replenished)
<1>. DEFINE c == Chain(db, Oldest.ref, There(db))
            read == AtMost(c, ToLoad)
            m == Len(back)
            V == VisitsTo(Len(db))
<1>1. PICK ref \in 0..Len(db) :
                /\ Replenished =
                      [back EXCEPT ![m].ref = ref]
                      \o [i \in 1..Len(read) |-> [id |-> read[i], ref |-> db[read[i]].referer]]
                /\ There(db) \in SUBSET (1..Len(db))
                /\ read \in Seq(There(db))
                /\ m + Len(read) \in m..CacheLength
                /\ m \in 1..m /\ Oldest \in VisitsTo(Len(db))
  BY ReplenishedParts
<1>. HIDE DEF read
<1>. DEFINE E == [back EXCEPT ![m].ref = ref]
            N == [i \in 1..Len(read) |-> [id |-> read[i], ref |-> db[read[i]].referer]]
<1>2. /\ E \in Seq(V) /\ Len(E) = m
      /\ \A i \in 1..m : E[i].id = back[i].id
  BY <1>1, Relinked, SMTT(30) DEF TypeOK
<1>3. N \in Seq(V) /\ Len(N) = Len(read) /\ Len(read) \in Nat
  <2>1. Len(read) \in Nat
    BY <1>1, LenProperties
  <2>2. \A i \in 1..Len(read) : [id |-> read[i], ref |-> db[read[i]].referer] \in V
    <3>. TAKE i \in 1..Len(read)
    <3>1. read[i] \in 1..Len(db)
      BY <1>1, ElementOfSeq
    <3>2. db[read[i]] \in RowsTo(Len(db))
      BY <3>1, ElementOfSeq DEF TypeOK
    <3>. QED
      BY <3>1, <3>2 DEF VisitsTo, RowsTo
  <2>. QED
    BY <2>1, <2>2
<1>. HIDE DEF E, N, V
<1>4. Replenished = E \o N
  BY <1>1 DEF E, N
<1>5. /\ E \o N \in Seq(V) /\ Len(E \o N) = m + Len(read)
      /\ \A i \in 1..m : (E \o N)[i] = E[i]
  <2>1. E \in Seq(V) /\ N \in Seq(V)
    BY <1>2, <1>3
  <2>2. /\ E \o N \in Seq(V) /\ Len(E \o N) = Len(E) + Len(N)
        /\ \A i \in 1..Len(E) : (E \o N)[i] = E[i]
    BY <2>1, Joined
  <2>3. Len(E) = m /\ Len(N) = Len(read)
    BY <1>2, <1>3
  <2>. QED
    BY <2>2, <2>3
<1>. QED
  BY <1>1, <1>2, <1>4, <1>5 DEF Keeps, V

LEMMA ReplenishedTrail ==
    ASSUME HistoryAssumption, TypeOK, back # <<>>,
           NEW r \in Ranks(db), Ranked(r, db),
           NEW X \in Seq(VisitsTo(Len(db))), IsTrail(r, db, X \o back)
    PROVE  IsTrail(r, db, X \o Replenished)
<1>. DEFINE n == Len(db)
            c == Chain(db, Oldest.ref, There(db))
            read == AtMost(c, ToLoad)
            m == Len(back)
            V == VisitsTo(Len(db))
<1>1. PICK ref \in 0..Len(db) :
                /\ ref # 0 => ref = Oldest.ref \/ \E j \in 1..Len(read) : ref = read[j]
                /\ Replenished =
                      [back EXCEPT ![m].ref = ref]
                      \o [i \in 1..Len(read) |-> [id |-> read[i], ref |-> db[read[i]].referer]]
                /\ There(db) \in SUBSET (1..Len(db))
                /\ c \in Seq(There(db))
                /\ read \in Seq(There(db))
                /\ read = SubSeq(c, 1, Len(read))
                /\ Len(read) \in 0..Len(c)
                /\ m \in 1..m /\ Oldest \in VisitsTo(Len(db))
  BY ReplenishedParts
<1>2. /\ \A i \in 1..Len(c) : Oldest.ref # 0 /\ r[c[i]] <= r[Oldest.ref]
      /\ \A i, j \in 1..Len(c) : i < j => r[c[j]] < r[c[i]]
  <2>1. Oldest.ref \in 0..n /\ IsDb(db)
    BY <1>1 DEF VisitsTo, TypeOK, IsDb
  <2>2. /\ \A i \in DOMAIN c : Oldest.ref # 0 /\ r[c[i]] <= r[Oldest.ref]
        /\ \A i, j \in DOMAIN c : i < j => r[c[j]] < r[c[i]]
    BY <1>1, <2>1, ChainDescends
  <2>3. DOMAIN c = 1..Len(c)
    <3>1. c \in Seq(There(db))
      BY <1>1
    <3>. QED
      BY <3>1, LenProperties
  <2>. QED
    BY <2>2, <2>3
<1>. HIDE DEF c
<1>3. /\ Len(read) \in Nat
      /\ \A i \in 1..Len(read) : /\ i \in 1..Len(c) /\ read[i] = c[i]
                                 /\ read[i] \in There(db) /\ read[i] \in 1..n
  <2>1. Len(read) \in Nat /\ Len(c) \in Nat
    BY <1>1, LenProperties
  <2>2. \A i \in 1..Len(read) : i \in 1..Len(c) /\ SubSeq(c, 1, Len(read))[i] = c[i]
    BY <1>1, <2>1
  <2>3. \A i \in 1..Len(read) : read[i] \in There(db) /\ read[i] \in 1..n
    BY <1>1, ElementOfSeq
  <2>. QED
    BY <1>1, <2>1, <2>2, <2>3
<1>. HIDE DEF read
<1>4. /\ \A i \in 1..Len(read) : Oldest.ref # 0 /\ r[read[i]] <= r[Oldest.ref]
      /\ \A i, j \in 1..Len(read) : i < j => r[read[j]] < r[read[i]]
  BY <1>2, <1>3
<1>. DEFINE E == [back EXCEPT ![m].ref = ref]
            N == [i \in 1..Len(read) |-> [id |-> read[i], ref |-> db[read[i]].referer]]
<1>5. back \in Seq(V) /\ \A i \in 1..m : back[i] \in V /\ back[i].id \in 1..n
  <2>1. back \in Seq(V)
    BY DEF TypeOK
  <2>. QED
    BY <2>1, VisitIn
<1>6. IsTrail(r, db, X) /\ IsTrail(r, db, back) /\ Above(r, X, back)
  BY <1>5, TrailJoined
<1>7. /\ \A i \in 1..n : r[i] \in Int
      /\ Oldest = back[m]
      /\ Oldest.ref # 0 => Oldest.ref \in 1..n /\ r[Oldest.ref] < r[Oldest.id]
      /\ Oldest.id \in 1..n
  <2>1. Oldest = back[m]
    BY DEF Oldest
  <2>2. m \in 1..Len(back) /\ back[m] \in V /\ back[m].id \in 1..n /\ back[m].ref \in 0..n
    BY <1>1, <1>5, VisitIn
  <2>3. back[m].ref # 0 => r[back[m].ref] < r[back[m].id]
    BY <1>6, <2>2 DEF IsTrail
  <2>4. \A i \in 1..n : r[i] \in Int
    BY DEF Ranks
  <2>. QED
    BY <2>1, <2>2, <2>3, <2>4
<1>8. \A i \in 1..Len(read) : r[read[i]] < r[Oldest.id]
  <2>. TAKE i \in 1..Len(read)
  <2>1. Oldest.ref # 0 /\ r[read[i]] <= r[Oldest.ref] /\ read[i] \in 1..n
    BY <1>3, <1>4
  <2>2. /\ r[read[i]] \in Int /\ r[Oldest.ref] \in Int /\ r[Oldest.id] \in Int
        /\ r[Oldest.ref] < r[Oldest.id]
    BY <1>7, <2>1
  <2>. QED
    BY <2>1, <2>2, SMTT(30)
<1>9. ref # 0 => r[ref] < r[Oldest.id]
  BY <1>1, <1>7, <1>8
<1>10. /\ E \in Seq(V) /\ Len(E) = m
       /\ \A i \in 1..m : E[i].id = back[i].id /\ E[i].ref = IF i = m THEN ref ELSE back[i].ref
  <2>1. back \in Seq(VisitsTo(n)) /\ m \in 1..Len(back) /\ ref \in 0..n
    BY <1>1, <1>5
  <2>. QED
    BY <2>1, Relinked
<1>11. /\ N \in Seq(V) /\ Len(N) = Len(read)
       /\ \A i \in 1..Len(read) : N[i].id = read[i] /\ N[i].ref = db[read[i]].referer
  <2>1. \A i \in 1..Len(read) : [id |-> read[i], ref |-> db[read[i]].referer] \in V
    <3>. TAKE i \in 1..Len(read)
    <3>1. db[read[i]] \in RowsTo(Len(db))
      BY <1>3, ElementOfSeq DEF TypeOK
    <3>. QED
      BY <1>3, <3>1 DEF VisitsTo, RowsTo
  <2>. QED
    BY <1>3, <2>1
<1>. HIDE DEF E, N
<1>12. IsTrail(r, db, E)
  <2>1. \A i \in 1..m : /\ ~ db[E[i].id].obsolete
                        /\ E[i].ref # 0 => r[E[i].ref] < r[E[i].id]
    BY <1>6, <1>7, <1>9, <1>10 DEF IsTrail
  <2>2. \A i, j \in 1..m : i < j => r[E[j].id] < r[E[i].id]
    BY <1>6, <1>10 DEF IsTrail
  <2>. QED
    BY <1>10, <2>1, <2>2 DEF IsTrail
<1>13. IsTrail(r, db, N)
  <2>1. \A i \in 1..Len(read) : /\ ~ db[N[i].id].obsolete
                                /\ N[i].ref # 0 => r[N[i].ref] < r[N[i].id]
    BY <1>3, <1>11 DEF There, Ranked
  <2>2. \A i, j \in 1..Len(read) : i < j => r[N[j].id] < r[N[i].id]
    BY <1>4, <1>11
  <2>. QED
    BY <1>11, <2>1, <2>2 DEF IsTrail
<1>14. Above(r, X, E) /\ Above(r, E, N) /\ Above(r, X, N)
  <2>1. Above(r, X, E)
    BY <1>6, <1>10 DEF Above
  <2>2. \A i \in 1..m : r[Oldest.id] <= r[back[i].id]
    <3>. TAKE i \in 1..m
    <3>1. i = m \/ i < m
      BY <1>1
    <3>2. r[back[i].id] \in Int /\ r[back[m].id] \in Int /\ m \in 1..m
      BY <1>1, <1>5, <1>7
    <3>3. i < m => r[back[m].id] < r[back[i].id]
      BY <1>6, <3>2 DEF IsTrail
    <3>. QED
      BY <1>7, <3>1, <3>2, <3>3
  <2>3. Above(r, E, N)
    <3>. SUFFICES ASSUME NEW i \in 1..m, NEW j \in 1..Len(read)
                  PROVE  r[N[j].id] < r[E[i].id]
      BY <1>10, <1>11 DEF Above
    <3>1. r[read[j]] < r[Oldest.id] /\ r[Oldest.id] <= r[back[i].id]
      BY <1>8, <2>2
    <3>2. r[read[j]] \in Int /\ r[Oldest.id] \in Int /\ r[back[i].id] \in Int
      BY <1>3, <1>5, <1>7
    <3>3. r[read[j]] < r[back[i].id]
      BY <3>1, <3>2, SMTT(30)
    <3>. QED
      BY <1>10, <1>11, <3>3
  <2>4. Above(r, X, N)
    <3>. SUFFICES ASSUME NEW i \in 1..Len(X), NEW j \in 1..Len(read)
                  PROVE  r[N[j].id] < r[X[i].id]
      BY <1>11 DEF Above
    <3>1. r[read[j]] < r[Oldest.id] /\ r[Oldest.id] < r[X[i].id]
      BY <1>1, <1>6, <1>7, <1>8 DEF Above
    <3>2. X[i].id \in 1..n
      BY VisitIn
    <3>3. r[read[j]] \in Int /\ r[Oldest.id] \in Int /\ r[X[i].id] \in Int
      BY <1>3, <1>7, <3>2
    <3>4. r[read[j]] < r[X[i].id]
      BY <3>1, <3>3, SMTT(30)
    <3>. QED
      BY <1>11, <3>4
  <2>. QED
    BY <2>1, <2>3, <2>4
<1>. HIDE DEF V
<1>15. X \in Seq(V) /\ X \o E \in Seq(V) /\ IsTrail(r, db, X \o E)
  <2>1. X \in Seq(V)
    BY DEF V
  <2>. QED
    BY <1>6, <1>10, <1>12, <1>14, <2>1, TrailJoined DEF V
<1>16. IsTrail(r, db, X \o (E \o N))
  <2>1. E \o N \in Seq(V) /\ IsTrail(r, db, E \o N)
    BY <1>10, <1>11, <1>12, <1>13, <1>14, TrailJoined DEF V
  <2>2. Above(r, X, E \o N)
    BY <1>10, <1>11, <1>14, <1>15, AboveJoined
  <2>. QED
    BY <1>6, <1>15, <2>1, <2>2, TrailJoined DEF V
<1>. QED
  BY <1>1, <1>16 DEF E, N

------------------------------------------------------------------------------
(* The oldest visits may be dropped. *)
LEMMA TrailCut ==
    ASSUME NEW d, NEW r, NEW A \in Seq(VisitsTo(Len(d))),
           NEW W \in Seq(VisitsTo(Len(d))), IsTrail(r, d, A \o W),
           NEW n \in Nat
    PROVE  IsTrail(r, d, A \o AtMost(W, n))
<1>. DEFINE t == AtMost(W, n)
            V == VisitsTo(Len(d))
<1>1. IsTrail(r, d, A) /\ IsTrail(r, d, W) /\ Above(r, A, W)
  BY TrailJoined
<1>2. t \in Seq(V) /\ Len(t) \in 0..Len(W) /\ t = SubSeq(W, 1, Len(t))
  BY AtMostIs
<1>. HIDE DEF t
<1>3. IsTrail(r, d, t)
  <2>1. IsTrail(r, d, SubSeq(W, 1, Len(t)))
    BY <1>1, <1>2, TrailPrefix
  <2>. QED
    BY <1>2, <2>1
<1>4. Above(r, A, t)
  <2>1. \A j \in 1..Len(t) : j \in 1..Len(W) /\ t[j] = W[j]
    <3>. TAKE j \in 1..Len(t)
    <3>1. Len(W) \in Nat /\ j \in 1..Len(W)
      BY <1>2
    <3>2. SubSeq(W, 1, Len(t))[j] = W[j]
      BY <1>2, <3>1
    <3>. QED
      BY <1>2, <3>1, <3>2
  <2>. QED
    BY <1>1, <2>1 DEF Above
<1>. QED
  BY <1>1, <1>2, <1>3, <1>4, TrailJoined DEF t

LEMMA LastSeqType ==
    ASSUME NEW n, NEW v \in VisitsTo(n) \cup {NoVisit}
    PROVE  LastSeq(v) \in Seq(VisitsTo(n))
BY DEF LastSeq

(* The last visit may be dropped. *)
LEMMA TrailWithoutLast ==
    ASSUME NEW d, NEW r, NEW f \in Seq(VisitsTo(Len(d))),
           NEW l \in Seq(VisitsTo(Len(d))), NEW b \in Seq(VisitsTo(Len(d))),
           IsTrail(r, d, (f \o l) \o b)
    PROVE  /\ IsTrail(r, d, f \o b)
           /\ IsTrail(r, d, l \o b)
<1>. DEFINE V == VisitsTo(Len(d))
<1>1. f \o l \in Seq(V)
  BY Joined
<1>2. IsTrail(r, d, f \o l) /\ IsTrail(r, d, b) /\ Above(r, f \o l, b)
  BY <1>1, TrailJoined
<1>3. IsTrail(r, d, f) /\ IsTrail(r, d, l) /\ Above(r, f, l)
  BY <1>2, TrailJoined
<1>4. Above(r, f, b) /\ Above(r, l, b)
  BY <1>2, AboveJoined
<1>. QED
  BY <1>2, <1>3, <1>4, TrailJoined

(***************************************************************************)
(* The rows stay what they were, except that one may refer to another      *)
(* visit, and at most one is added.                                        *)
(***************************************************************************)
SamePlaces(d, e) ==
    /\ e \in Seq(RowsTo(Len(e)))
    /\ Len(e) \in Len(d)..MaxVisits
    /\ \A i \in 1..Len(d) : e[i].place = d[i].place

IsAdded(curr, V, v, e, Y) ==
    /\ SamePlaces(db, e)
    /\ v \in VisitsTo(Len(e))
    /\ e[v.id] = [place |-> curr, referer |-> v.ref, obsolete |-> FALSE]
    /\ IsInserted(db, forward, V, e, v, Y)

LEMMA AddedRows ==
    ASSUME TypeOK, NEW V, Keeps(V), NEW curr \in Places,
           Len(db) < MaxVisits, HistoryAssumption
    PROVE  IsAdded(curr, V, New(V), Added(curr, New(V)), ReferTo(New(V)))
<1>. DEFINE n == Len(db)
            v == New(V)
            m == Len(forward)
            e == Added(curr, v)
            Y == ReferTo(v)
            row == [place |-> curr, referer |-> v.ref, obsolete |-> FALSE]
<1>1. n \in Nat /\ m \in Nat /\ MaxVisits \in Nat /\ n + 1 <= MaxVisits
  BY DEF TypeOK, HistoryAssumption
<1>2. /\ v = [id |-> n + 1, ref |-> IF V = <<>> THEN 0 ELSE V[1].id]
      /\ v.id = n + 1 /\ v.ref \in 0..n
      /\ v \in VisitsTo(n + 1)
  <2>1. V # <<>> => V[1].id \in 1..n
    <3>1. V # <<>> => 1 \in 1..Len(V)
      BY DEF Keeps
    <3>. QED
      BY <3>1, VisitIn DEF Keeps
  <2>2. v = [id |-> n + 1, ref |-> IF V = <<>> THEN 0 ELSE V[1].id]
    BY DEF New
  <2>. QED
    BY <1>1, <2>1, <2>2 DEF VisitsTo
<1>3. row \in RowsTo(n + 1)
  BY <1>1, <1>2 DEF RowsTo
<1>. HIDE DEF v, row
<1>4. forward # <<>> => /\ m \in 1..m /\ forward[m].id \in 1..n
  <2>1. forward # <<>> => m \in 1..m
    BY DEF TypeOK
  <2>. QED
    BY <2>1, VisitIn DEF TypeOK
<1>5. db \in Seq(RowsTo(n + 1)) /\ \A i \in 1..n : db[i] \in RowsTo(n + 1)
  <2>1. \A i \in 1..n : db[i] \in RowsTo(n)
    BY ElementOfSeq DEF TypeOK
  <2>2. \A i \in 1..n : db[i] \in RowsTo(n + 1)
    BY <1>1, <2>1 DEF RowsTo
  <2>3. db = [i \in 1..n |-> db[i]]
    BY DEF TypeOK
  <2>. QED
    BY <1>1, <2>2, <2>3
<1>. DEFINE u == IF forward = <<>> THEN db
                 ELSE [db EXCEPT ![forward[m].id].referer = v.id]
<1>6. /\ u \in Seq(RowsTo(n + 1)) /\ Len(u) = n
      /\ \A i \in 1..n : /\ u[i].place = db[i].place
                        /\ u[i].obsolete = db[i].obsolete
                        /\ \/ u[i].referer = db[i].referer
                           \/ /\ u[i].referer = v.id
                              /\ \E k \in 1..m : i = forward[k].id
  <2>1. CASE forward = <<>>
    BY <1>5, <2>1
  <2>2. CASE forward # <<>>
    <3>. DEFINE k == forward[m].id
                x == [db[k] EXCEPT !.referer = v.id]
    <3>1. k \in 1..n /\ m \in 1..m
      BY <1>4, <2>2
    <3>2. x \in RowsTo(n + 1) /\ x.place = db[k].place /\ x.obsolete = db[k].obsolete
          /\ x.referer = v.id
      <4>1. db[k] \in RowsTo(n + 1) /\ v.id \in 0..n + 1
        BY <1>1, <1>2, <1>5, <3>1
      <4>. HIDE DEF k
      <4>. QED
        BY <4>1 DEF RowsTo
    <3>3. u = [db EXCEPT ![k] = x]
      BY <2>2
    <3>. HIDE DEF x, u
    <3>4. /\ u \in Seq(RowsTo(n + 1)) /\ Len(u) = n
          /\ \A i \in 1..n : u[i] = IF i = k THEN x ELSE db[i]
      BY <1>5, <3>1, <3>2, <3>3, ExceptSeq
    <3>. QED
      BY <3>1, <3>2, <3>4
  <2>. QED
    BY <2>1, <2>2
<1>7. e = Append(u, row)
  BY DEF Added, row
<1>. HIDE DEF u, e
<1>8. /\ e \in Seq(RowsTo(n + 1)) /\ Len(e) = n + 1
      /\ \A i \in 1..n : e[i] = u[i]
      /\ e[n + 1] = row
  BY <1>3, <1>6, <1>7, AppendProperties
<1>9. SamePlaces(db, e)
  BY <1>1, <1>6, <1>8 DEF SamePlaces
<1>10. forward \in Seq(VisitsTo(n + 1))
  <2>1. \A i \in 1..m : forward[i] \in VisitsTo(n + 1)
    <3>. TAKE i \in 1..m
    <3>1. forward[i] \in VisitsTo(n)
      BY VisitIn DEF TypeOK
    <3>. QED
      BY <1>1, <3>1 DEF VisitsTo
  <2>2. forward = [i \in 1..m |-> forward[i]]
    BY DEF TypeOK
  <2>. QED
    BY <1>1, <2>1, <2>2
<1>11. /\ Y \in Seq(VisitsTo(n + 1))
       /\ Len(Y) = Len(forward)
       /\ \A k \in 1..Len(forward) :
                         /\ Y[k].id = forward[k].id
                         /\ Y[k].ref = forward[k].ref \/ Y[k].ref = v.id
  <2>1. CASE forward = <<>>
    BY <2>1 DEF ReferTo
  <2>2. CASE forward # <<>>
    <3>1. Y = [forward EXCEPT ![m].ref = v.id]
      BY <2>2 DEF ReferTo
    <3>2. v.id \in 0..n + 1 /\ m \in 1..Len(forward)
      BY <1>1, <1>2, <1>4, <2>2
    <3>. HIDE DEF Y, m
    <3>3. /\ Y \in Seq(VisitsTo(n + 1)) /\ Len(Y) = Len(forward)
          /\ \A k \in 1..Len(forward) :
                /\ Y[k].id = forward[k].id
                /\ Y[k].ref = IF k = m THEN v.id ELSE forward[k].ref
      BY <1>10, <3>1, <3>2, Relinked
    <3>. QED
      BY <3>3 DEF m
  <2>. QED
    BY <2>1, <2>2
<1>. HIDE DEF Y
<1>12. /\ v \in VisitsTo(Len(e)) /\ v.id = Len(e)
       /\ e[v.id] = [place |-> curr, referer |-> v.ref, obsolete |-> FALSE]
       /\ Y \in Seq(VisitsTo(Len(e)))
       /\ Len(e) = n + 1
  BY <1>2, <1>8, <1>11 DEF row
<1>13. \A i \in 1..n : /\ e[i].obsolete = db[i].obsolete
                      /\ \/ e[i].referer = db[i].referer
                         \/ /\ e[i].referer = v.id
                            /\ \E k \in 1..m : i = forward[k].id
  BY <1>6, <1>8
<1>14. IsAdded(curr, V, v, e, Y)
  <2>1. SamePlaces(db, e) /\ Len(e) = Len(db) + 1
    BY <1>9, <1>12
  <2>2. v = [id |-> Len(db) + 1, ref |-> IF V = <<>> THEN 0 ELSE V[1].id]
    BY <1>2
  <2>3. ~ e[v.id].obsolete /\ e[v.id].referer = v.ref
    BY <1>12
  <2>4. Y \in Seq(VisitsTo(Len(e))) /\ Len(Y) = Len(forward)
    BY <1>11, <1>12
  <2>5. \A k \in 1..Len(forward) :
           /\ Y[k].id = forward[k].id
           /\ Y[k].ref = forward[k].ref \/ Y[k].ref = v.id
    BY <1>11
  <2>6. IsInserted(db, forward, V, e, v, Y)
    BY <1>13, <2>1, <2>2, <2>3, <2>4, <2>5 DEF IsInserted
  <2>. QED
    BY <1>12, <2>1, <2>6 DEF IsAdded
<1>. QED
  BY <1>14 DEF v, e, Y

(***************************************************************************)
(* Leaving the current location for the visits V: the visit that is left   *)
(* comes above them and below the forward visits.                          *)
(***************************************************************************)
LEMMA LeaveTypes ==
    ASSUME HistoryAssumption, TypeOK, NEW V, Keeps(V),
           NEW curr \in Places \cup {NoPlace}, NEW hasId,
           Leave(curr, hasId, V)
    PROVE  /\ SamePlaces(db, db')
           /\ Linked(curr, V) \in Seq(VisitsTo(Len(db')))
           /\ Len(Linked(curr, V)) = Len(forward)
           /\ \A k \in 1..Len(forward) : Linked(curr, V)[k].id = forward[k].id
           /\ Here(curr, V) \in Seq(VisitsTo(Len(db')))
           /\ V \in Seq(VisitsTo(Len(db')))
<1>1. Len(db) \in Nat /\ MaxVisits \in Nat /\ Len(db) <= MaxVisits
  BY DEF TypeOK, HistoryAssumption
<1>2. CASE Moved(curr)
  <2>1. IsAdded(curr, V, New(V), Added(curr, New(V)), ReferTo(New(V)))
    BY <1>2, AddedRows DEF Moved, Leave
  <2>2. /\ db' = Added(curr, New(V)) /\ Linked(curr, V) = ReferTo(New(V))
        /\ Here(curr, V) = <<New(V)>>
    BY <1>2 DEF Leave, Linked, Here, Moved
  <2>3. IsAdded(curr, V, New(V), db', Linked(curr, V))
    BY <2>1, <2>2
  <2>4. /\ SamePlaces(db, db') /\ Len(db') = Len(db) + 1
        /\ Linked(curr, V) \in Seq(VisitsTo(Len(db')))
        /\ Len(Linked(curr, V)) = Len(forward)
        /\ \A k \in 1..Len(forward) : Linked(curr, V)[k].id = forward[k].id
        /\ New(V) \in VisitsTo(Len(db'))
    BY <2>3 DEF IsAdded, IsInserted
  <2>5. Here(curr, V) \in Seq(VisitsTo(Len(db')))
    BY <2>2, <2>4
  <2>6. V \in Seq(VisitsTo(Len(db')))
    <3>1. VisitsTo(Len(db)) \subseteq VisitsTo(Len(db) + 1)
      BY <1>1 DEF VisitsTo
    <3>. QED
      BY <2>4, <3>1, SeqMonotonic DEF Keeps
  <2>. QED
    BY <2>4, <2>5, <2>6
<1>3. CASE ~Moved(curr)
  <2>1. db' = db /\ Linked(curr, V) = forward
    BY <1>3 DEF Leave, Linked
  <2>2. Here(curr, V) \in Seq(VisitsTo(Len(db)))
    <3>1. curr # NoPlace => last \in VisitsTo(Len(db))
      BY <1>3 DEF Moved, IsLastVisit, TypeOK
    <3>. QED
      BY <1>3, <3>1 DEF Here
  <2>3. SamePlaces(db, db)
    BY <1>1 DEF SamePlaces, TypeOK
  <2>. QED
    BY <2>1, <2>2, <2>3 DEF Keeps, TypeOK
<1>. QED
  BY <1>2, <1>3

LEMMA LeaveTrail ==
    ASSUME HistoryAssumption, TypeOK, NEW V, Keeps(V),
           NEW curr \in Places \cup {NoPlace}, NEW hasId,
           Leave(curr, hasId, V),
           NEW r \in Ranks(db), Ranked(r, db), IsTrail(r, db, TrailOf(forward, last, V))
    PROVE  \E q \in Ranks(db') :
              /\ Ranked(q, db')
              /\ IsTrail(q, db', Linked(curr, V) \o Here(curr, V) \o V)
<1>1. /\ forward \in Seq(VisitsTo(Len(db))) /\ V \in Seq(VisitsTo(Len(db)))
      /\ LastSeq(last) \in Seq(VisitsTo(Len(db))) /\ IsDb(db)
  BY LastSeqType DEF TypeOK, Keeps, IsDb
<1>2. IsTrail(r, db, (forward \o LastSeq(last)) \o V)
  BY DEF TrailOf
<1>3. IsTrail(r, db, forward \o V)
  BY <1>1, <1>2, TrailWithoutLast
<1>4. CASE Moved(curr)
  <2>. DEFINE v == New(V)
              Y == Linked(curr, V)
              e == db'
  <2>1. e = Added(curr, v) /\ Y = ReferTo(v) /\ Here(curr, V) = <<v>>
    BY <1>4 DEF Leave, Linked, Here, Moved
  <2>2. IsAdded(curr, V, v, e, Y)
    <3>1. IsAdded(curr, V, v, Added(curr, v), ReferTo(v))
      BY <1>4, AddedRows DEF Moved, Leave
    <3>. QED
      BY <2>1, <3>1
  <2>. HIDE DEF v, Y, e
  <2>3. IsInserted(db, forward, V, e, v, Y)
    BY <2>2 DEF IsAdded
  <2>4. \E q \in Ranks(e) : Ranked(q, e) /\ IsTrail(q, e, Y \o <<v>> \o V)
    BY <1>1, <1>3, <2>3, InsertedTrail
  <2>. QED
    BY <2>1, <2>4 DEF v, Y, e
<1>5. CASE ~Moved(curr)
  <2>1. db' = db /\ Linked(curr, V) = forward
    BY <1>5 DEF Leave, Linked
  <2>2. CASE curr = NoPlace
    <3>1. Here(curr, V) = <<>>
      BY <2>2 DEF Here
    <3>2. Linked(curr, V) \o Here(curr, V) \o V = forward \o V
      BY <1>1, <2>1, <3>1, ConcatEmptySeq
    <3>. QED
      BY <1>3, <2>1, <3>2
  <2>3. CASE curr # NoPlace
    <3>1. Here(curr, V) = LastSeq(last)
      BY <1>5, <2>3 DEF Moved, IsLastVisit, Here, LastSeq
    <3>. QED
      BY <1>2, <2>1, <3>1
  <2>. QED
    BY <2>2, <2>3
<1>. QED
  BY <1>4, <1>5

------------------------------------------------------------------------------
(***************************************************************************)
(* The inductive invariant: there is an order of the visits, in which each *)
(* is above the one it refers to, and the deques with the last visit       *)
(* between them descend in this order.  A visit that is added comes        *)
(* between those it is put between, so every step finds such an order.     *)
(***************************************************************************)
Ordered ==
    \E r \in Ranks(db) : /\ Ranked(r, db)
                         /\ IsTrail(r, db, TrailOf(forward, last, back))

HistoryInv == TypeOK /\ Ordered

(* What a move, the undoing of one or a reload does to the session. *)
SessionTypes ==
    /\ SamePlaces(db, db')
    /\ back' \in Seq(VisitsTo(Len(db')))
    /\ Len(back') <= CacheLength
    /\ forward' \in Seq(VisitsTo(Len(db')))
    /\ last' \in VisitsTo(Len(db')) \cup {NoVisit}

LEMMA BackVisitsKept ==
    ASSUME HistoryAssumption, TypeOK, NEW n
    PROVE  Keeps(BackVisits(n))
<1>1. Keeps(back)
  BY DEF TypeOK, Keeps, HistoryAssumption
<1>. QED
  BY <1>1, ReplenishedKeeps DEF BackVisits, Depleted

LEMMA BackVisitsTrail ==
    ASSUME HistoryAssumption, TypeOK, NEW n,
           NEW r \in Ranks(db), Ranked(r, db), IsTrail(r, db, TrailOf(forward, last, back))
    PROVE  IsTrail(r, db, TrailOf(forward, last, BackVisits(n)))
<1>1. forward \o LastSeq(last) \in Seq(VisitsTo(Len(db)))
  BY LastSeqType, Joined DEF TypeOK
<1>2. back # <<>> => IsTrail(r, db, TrailOf(forward, last, Replenished))
  BY <1>1, ReplenishedTrail DEF TrailOf
<1>. QED
  BY <1>2 DEF BackVisits, Depleted

LEMMA GoBackKeeps ==
    ASSUME HistoryAssumption, HistoryInv, NEW curr \in Places \cup {NoPlace},
           NEW hasId, NEW n \in Nat \ {0}, GoBack(curr, hasId, n)
    PROVE  /\ SessionTypes /\ Ordered' /\ last' # NoVisit
           /\ LET V == BackVisits(n) IN
              /\ Keeps(V) /\ Leave(curr, hasId, V) /\ n \in 1..Len(V)
              /\ TrailOf(forward', last', back') =
                    (Linked(curr, V) \o Here(curr, V)) \o V
              /\ Len(forward') = Len(Linked(curr, V) \o Here(curr, V)) + n - 1
<1>. DEFINE V == BackVisits(n)
            A == Linked(curr, V) \o Here(curr, V)
            P == SubSeq(V, 1, n - 1)
            Q == SubSeq(V, n + 1, Len(V))
            S == VisitsTo(Len(db'))
<1>1. /\ n \in 1..Len(V) /\ Leave(curr, hasId, V)
      /\ forward' = A \o P /\ last' = V[n] /\ back' = Q
  BY LenProperties DEF GoBack, CanGoBack
<1>2. Keeps(V)
  BY BackVisitsKept DEF HistoryInv
<1>. HIDE DEF V
<1>3. /\ SamePlaces(db, db') /\ V \in Seq(S) /\ A \in Seq(S)
      /\ Linked(curr, V) \in Seq(S) /\ Here(curr, V) \in Seq(S)
  BY <1>1, <1>2, LeaveTypes, Joined DEF HistoryInv
<1>4. /\ P \in Seq(S) /\ Q \in Seq(S) /\ Len(Q) <= Len(V)
      /\ V[n] \in S /\ V[n] # NoVisit /\ <<V[n]>> \in Seq(S)
  <2>1. V[n] \in S /\ V[n].id \in 1..Len(db')
    BY <1>1, <1>3, VisitIn
  <2>2. V[n] # NoVisit
    BY <2>1 DEF NoVisit
  <2>3. \A i \in 1..Len(V) : V[i] \in S
    BY <1>3, ElementOfSeq
  <2>4. Len(V) \in Nat
    BY <1>3
  <2>5. P \in Seq(S)
    BY <1>1, <2>3, <2>4, SubSeqProperties
  <2>6. Q \in Seq(S) /\ Len(Q) = IF n + 1 <= Len(V) THEN Len(V) - (n + 1) + 1 ELSE 0
    BY <1>1, <2>3, <2>4, SubSeqProperties
  <2>7. Len(Q) <= Len(V)
    BY <2>4, <2>6
  <2>. QED
    BY <2>1, <2>2, <2>5, <2>6, <2>7
<1>5. SessionTypes /\ last' # NoVisit
  <2>1. Len(back') <= CacheLength
    <3>1. Len(Q) \in Nat /\ Len(V) \in Nat /\ Len(V) <= CacheLength /\ CacheLength \in Nat
      BY <1>2, <1>4 DEF Keeps, HistoryAssumption
    <3>. QED
      BY <1>1, <1>4, <3>1
  <2>2. A \o P \in Seq(S)
    BY <1>3, <1>4, Joined
  <2>. QED
    BY <1>1, <1>3, <1>4, <2>1, <2>2 DEF SessionTypes
<1>6. TrailOf(forward', last', back') = A \o V
  <2>1. ((A \o P) \o <<V[n]>>) \o Q = A \o V
    BY <1>1, <1>3, Spliced
  <2>. QED
    BY <1>1, <1>4, <2>1 DEF TrailOf, LastSeq
<1>7. Ordered'
  <2>1. PICK r \in Ranks(db) : /\ Ranked(r, db)
                              /\ IsTrail(r, db, TrailOf(forward, last, back))
    BY DEF HistoryInv, Ordered
  <2>2. IsTrail(r, db, TrailOf(forward, last, V))
    BY <2>1, BackVisitsTrail DEF HistoryInv, V
  <2>3. PICK q \in Ranks(db') : Ranked(q, db') /\ IsTrail(q, db', A \o V)
    BY <1>1, <1>2, <2>1, <2>2, LeaveTrail DEF HistoryInv
  <2>4. IsTrail(q, db', TrailOf(forward', last', back'))
    BY <1>6, <2>3
  <2>. QED
    BY <2>3, <2>4 DEF Ordered, Ranks, Ranked, IsTrail, TrailOf, LastSeq
<1>8. Len(forward') = Len(A) + n - 1
  <2>1. Len(V) \in Nat /\ \A i \in 1..n - 1 : V[i] \in S
    <3>1. Len(V) \in Nat
      BY <1>3
    <3>2. \A i \in 1..n - 1 : i \in 1..Len(V)
      BY <1>1, <3>1
    <3>. QED
      BY <1>3, <3>1, <3>2, ElementOfSeq
  <2>2. Len(P) = n - 1
    <3>. HIDE DEF S
    <3>. QED
      BY <2>1, SubSeqProperties
  <2>3. Len(A \o P) = Len(A) + Len(P)
    BY <1>3, <1>4, Joined
  <2>. QED
    BY <1>1, <2>2, <2>3
<1>. HIDE DEF A
<1>. QED
  BY <1>1, <1>2, <1>5, <1>6, <1>7, <1>8 DEF V, A

LEMMA GoForwardKeeps ==
    ASSUME HistoryAssumption, HistoryInv, NEW curr \in Places \cup {NoPlace},
           NEW hasId, NEW n \in Nat \ {0}, GoForward(curr, hasId, n)
    PROVE  /\ SessionTypes /\ Ordered' /\ last' # NoVisit
           /\ Leave(curr, hasId, back)
           /\ Len(forward') = Len(forward) - n /\ n <= Len(forward)
           /\ \E A, W \in Seq(VisitsTo(Len(db'))) :
                 /\ A \o W = (Linked(curr, back) \o Here(curr, back)) \o back
                 /\ back' = AtMost(W, CacheLength) /\ Len(A) = Len(forward') + 1
                 /\ TrailOf(forward', last', back') = A \o back'
<1>. DEFINE F == Linked(curr, back)
            H == Here(curr, back)
            m == Len(F)
            p == m - n + 1
            P == SubSeq(F, 1, p - 1)
            R == SubSeq(F, p + 1, m)
            W == R \o H \o back
            S == VisitsTo(Len(db'))
<1>1. Keeps(back) /\ Leave(curr, hasId, back)
  BY DEF GoForward, HistoryInv, TypeOK, Keeps, HistoryAssumption
<1>2. /\ SamePlaces(db, db') /\ F \in Seq(S) /\ m = Len(forward)
      /\ H \in Seq(S) /\ back \in Seq(S)
  BY <1>1, LeaveTypes DEF HistoryInv
<1>3. m \in Nat /\ n <= m /\ p \in 1..m /\ m \in p..m
  BY <1>2 DEF GoForward, CanGoForward, HistoryInv, TypeOK
<1>4. forward' = P /\ last' = F[p] /\ back' = AtMost(W, CacheLength)
  <2>1. /\ forward' = SubSeq(F, 1, m - n)
        /\ last' = F[m - n + 1]
        /\ back' = AtMost(SubSeq(F, m - n + 2, m) \o H \o back, CacheLength)
    BY DEF GoForward
  <2>2. m - n = p - 1 /\ m - n + 2 = p + 1
    BY <1>3
  <2>. QED
    BY <2>1, <2>2
<1>5. P \in Seq(S) /\ R \in Seq(S) /\ F[p] \in S /\ F[p] # NoVisit /\ <<F[p]>> \in Seq(S)
  <2>1. \A i \in 1..m : F[i] \in S
    BY <1>2, ElementOfSeq
  <2>2. P \in Seq(S) /\ R \in Seq(S)
    BY <1>3, <2>1, SubSeqProperties
  <2>3. F[p] \in S /\ F[p].id \in 1..Len(db')
    BY <1>2, <1>3, VisitIn
  <2>. QED
    BY <2>2, <2>3 DEF NoVisit
<1>6. W \in Seq(S) /\ P \o <<F[p]>> \in Seq(S)
  BY <1>2, <1>5, Joined
<1>7. (F \o H) \o back = (P \o <<F[p]>>) \o W
  <2>1. (P \o <<F[p]>>) \o R = F
    <3>1. (P \o <<F[p]>>) \o R = SubSeq(F, 1, m)
      BY <1>2, <1>3, Rejoined
    <3>. QED
      BY <1>2, <3>1, SubSeqFull
  <2>. DEFINE A == P \o <<F[p]>>
  <2>2. A \in Seq(S) /\ R \in Seq(S) /\ H \in Seq(S) /\ back \in Seq(S)
    BY <1>2, <1>5, <1>6
  <2>. HIDE DEF F, H, m, p, P, R, S, W, A
  <2>3. ((A \o R) \o H) \o back = A \o ((R \o H) \o back)
    BY <2>2, SMTT(60)
  <2>. QED
    BY <2>1, <2>3 DEF A, W
<1>. HIDE DEF F, H, m, p, P, R, W
<1>8. SessionTypes /\ last' # NoVisit
  <2>1. CacheLength \in Nat
    BY DEF HistoryAssumption
  <2>2. AtMost(W, CacheLength) \in Seq(S) /\ Len(AtMost(W, CacheLength)) \in 0..CacheLength
    BY <1>6, <2>1, AtMostIs
  <2>3. Len(back') <= CacheLength
    BY <1>4, <2>1, <2>2
  <2>. QED
    BY <1>2, <1>4, <1>5, <2>2, <2>3 DEF SessionTypes
<1>9. Ordered'
  <2>1. PICK r \in Ranks(db) : /\ Ranked(r, db)
                              /\ IsTrail(r, db, TrailOf(forward, last, back))
    BY DEF HistoryInv, Ordered
  <2>2. PICK q \in Ranks(db') : Ranked(q, db') /\ IsTrail(q, db', (F \o H) \o back)
    BY <1>1, <2>1, LeaveTrail DEF HistoryInv, F, H
  <2>3. IsTrail(q, db', (P \o <<F[p]>>) \o AtMost(W, CacheLength))
    <3>1. CacheLength \in Nat
      BY DEF HistoryAssumption
    <3>2. IsTrail(q, db', (P \o <<F[p]>>) \o W)
      BY <1>7, <2>2
    <3>. QED
      BY <1>6, <3>1, <3>2, TrailCut
  <2>4. TrailOf(forward', last', back') = (P \o <<F[p]>>) \o AtMost(W, CacheLength)
    BY <1>4, <1>5 DEF TrailOf, LastSeq
  <2>5. IsTrail(q, db', TrailOf(forward', last', back'))
    BY <2>3, <2>4
  <2>. QED
    BY <2>2, <2>5 DEF Ordered, Ranks, Ranked, IsTrail, TrailOf, LastSeq
<1>10. Len(forward') = Len(forward) - n /\ n <= Len(forward)
  <2>1. \A i \in 1..p - 1 : F[i] \in S
    <3>1. \A i \in 1..p - 1 : i \in 1..m
      BY <1>3
    <3>. QED
      BY <1>2, <3>1, ElementOfSeq DEF m
  <2>2. Len(P) = p - 1
    <3>. HIDE DEF S
    <3>. QED
      BY <1>3, <2>1, SubSeqProperties DEF P
  <2>. QED
    BY <1>2, <1>3, <1>4, <2>2 DEF p
<1>11. \E B, X \in Seq(S) :
          /\ B \o X = (F \o H) \o back
          /\ back' = AtMost(X, CacheLength) /\ Len(B) = Len(forward') + 1
          /\ TrailOf(forward', last', back') = B \o back'
  <2>. DEFINE B == P \o <<F[p]>>
  <2>1. B \in Seq(S) /\ B \o W = (F \o H) \o back
    BY <1>6, <1>7
  <2>2. Len(B) = Len(P) + 1
    BY <1>5
  <2>3. TrailOf(forward', last', back') = B \o back'
    BY <1>4, <1>5 DEF TrailOf, LastSeq
  <2>. HIDE DEF B
  <2>. QED
    BY <1>4, <1>6, <2>1, <2>2, <2>3
<1>. QED
  BY <1>1, <1>8, <1>9, <1>10, <1>11 DEF F, H

LEMMA GoKeeps ==
    ASSUME HistoryAssumption, HistoryInv, NEW curr \in Places \cup {NoPlace},
           NEW hasId, NEW n \in Nat \ {0}, NEW backwards \in BOOLEAN,
           Go(backwards, curr, hasId, n)
    PROVE  SessionTypes /\ Ordered' /\ last' # NoVisit
BY GoBackKeeps, GoForwardKeeps DEF Go

LEMMA GoRaisesKeeps ==
    ASSUME HistoryAssumption, HistoryInv, NEW curr, NEW hasId, NEW n,
           NEW backwards, GoRaises(backwards, curr, hasId, n)
    PROVE  SessionTypes /\ Ordered'
<1>1. PICK r \in Ranks(db) : /\ Ranked(r, db)
                            /\ IsTrail(r, db, TrailOf(forward, last, back))
  BY DEF HistoryInv, Ordered
<1>2. db' = db /\ forward' = forward /\ last' = last
  BY DEF GoRaises
<1>3. back' = back \/ back' = BackVisits(n)
  BY DEF GoRaises
<1>4. Keeps(back')
  <2>1. Keeps(back) /\ Keeps(BackVisits(n))
    BY BackVisitsKept DEF HistoryInv, TypeOK, Keeps, HistoryAssumption
  <2>. QED
    BY <1>3, <2>1
<1>5. IsTrail(r, db, TrailOf(forward, last, back'))
  BY <1>1, <1>3, BackVisitsTrail DEF HistoryInv
<1>6. SessionTypes
  <2>1. SamePlaces(db, db)
    BY DEF SamePlaces, HistoryInv, TypeOK, HistoryAssumption
  <2>2. back' \in Seq(VisitsTo(Len(db))) /\ Len(back') <= CacheLength
    <3>1. Len(back') \in Len(back)..CacheLength /\ Len(back) \in Nat /\ CacheLength \in Nat
      BY <1>4 DEF Keeps, HistoryInv, TypeOK, HistoryAssumption
    <3>. QED
      BY <1>4, <3>1 DEF Keeps
  <2>. QED
    BY <1>2, <2>1, <2>2 DEF SessionTypes, HistoryInv, TypeOK
<1>7. Ordered'
  BY <1>1, <1>2, <1>5 DEF Ordered, Ranks, Ranked, IsTrail, TrailOf, LastSeq
<1>. QED
  BY <1>6, <1>7

LEMMA NoteKeeps ==
    ASSUME HistoryAssumption, HistoryInv, NEW place \in Places, Note(place)
    PROVE  SessionTypes /\ Ordered'
<1>. DEFINE v == New(back)
            L == LastSeq(last)
            W == <<v>> \o back
            S == VisitsTo(Len(db'))
            n == Len(db)
            row == [place |-> place, referer |-> v.ref, obsolete |-> FALSE]
<1>1. /\ db' = Append(db, row) /\ back' = AtMost(W, CacheLength)
      /\ forward' = <<>> /\ last' = last /\ n < MaxVisits
  BY DEF Note
<1>2. /\ n \in Nat /\ MaxVisits \in Nat /\ CacheLength \in Nat
      /\ back \in Seq(VisitsTo(n)) /\ L \in Seq(VisitsTo(n)) /\ IsDb(db)
  BY LastSeqType DEF HistoryInv, TypeOK, HistoryAssumption, IsDb
<1>3. /\ v = [id |-> n + 1, ref |-> IF back = <<>> THEN 0 ELSE back[1].id]
      /\ v.id = n + 1 /\ v.ref \in 0..n
  <2>1. back # <<>> => 1 \in 1..Len(back)
    BY <1>2
  <2>2. back # <<>> => back[1].id \in 1..n
    BY <1>2, <2>1, VisitIn
  <2>3. v = [id |-> n + 1, ref |-> IF back = <<>> THEN 0 ELSE back[1].id]
    BY DEF New
  <2>. QED
    BY <1>2, <2>2, <2>3
<1>. HIDE DEF v
<1>4. /\ db' \in Seq(RowsTo(n + 1)) /\ Len(db') = n + 1
      /\ \A i \in 1..n : db'[i] = db[i]
      /\ db'[n + 1] = row
  <2>1. row \in RowsTo(n + 1)
    BY <1>2, <1>3 DEF RowsTo
  <2>2. db \in Seq(RowsTo(n + 1))
    <3>1. RowsTo(n) \subseteq RowsTo(n + 1)
      BY <1>2 DEF RowsTo
    <3>. QED
      BY <3>1, SeqMonotonic DEF HistoryInv, TypeOK
  <2>. HIDE DEF row
  <2>. QED
    BY <1>1, <2>1, <2>2, AppendProperties
<1>5. VisitsTo(n) \subseteq S /\ v \in S
  BY <1>2, <1>3, <1>4 DEF VisitsTo
<1>6. back \in Seq(S) /\ L \in Seq(S) /\ <<v>> \in Seq(S) /\ W \in Seq(S)
  <2>1. back \in Seq(S) /\ L \in Seq(S)
    BY <1>2, <1>5, SeqMonotonic
  <2>2. <<v>> \in Seq(S)
    BY <1>5
  <2>. QED
    BY <2>1, <2>2, Joined
<1>. HIDE DEF L, W, S
<1>7. SessionTypes
  <2>1. AtMost(W, CacheLength) \in Seq(S) /\ Len(AtMost(W, CacheLength)) \in 0..CacheLength
    BY <1>2, <1>6, AtMostIs
  <2>2. Len(back') <= CacheLength /\ back' \in Seq(S)
    BY <1>1, <1>2, <2>1
  <2>3. last' \in S \cup {NoVisit}
    BY <1>1, <1>5 DEF HistoryInv, TypeOK
  <2>4. SamePlaces(db, db')
    BY <1>1, <1>2, <1>4 DEF SamePlaces
  <2>. QED
    BY <1>1, <2>2, <2>3, <2>4, EmptySeq DEF SessionTypes, S
<1>8. IsInserted(db, L, back, db', v, L)
  <2>1. ~ db'[v.id].obsolete /\ db'[v.id].referer = v.ref
    BY <1>3, <1>4
  <2>2. L \in Seq(VisitsTo(Len(db')))
    BY <1>6 DEF S
  <2>. QED
    BY <1>3, <1>4, <2>1, <2>2 DEF IsInserted
<1>9. Ordered'
  <2>1. PICK r \in Ranks(db) : /\ Ranked(r, db)
                              /\ IsTrail(r, db, TrailOf(forward, last, back))
    BY DEF HistoryInv, Ordered
  <2>2. IsTrail(r, db, L \o back)
    <3>1. forward \in Seq(VisitsTo(n)) /\ IsTrail(r, db, (forward \o L) \o back)
      BY <2>1 DEF TrailOf, L, HistoryInv, TypeOK
    <3>. QED
      BY <1>2, <3>1, TrailWithoutLast
  <2>3. PICK q \in Ranks(db') : Ranked(q, db') /\ IsTrail(q, db', L \o <<v>> \o back)
    BY <1>2, <1>8, <2>1, <2>2, InsertedTrail
  <2>4. L \o <<v>> \o back = L \o W
    BY <1>6, SMTT(30) DEF W
  <2>5. IsTrail(q, db', L \o AtMost(W, CacheLength))
    <3>1. L \in Seq(VisitsTo(Len(db'))) /\ W \in Seq(VisitsTo(Len(db')))
      BY <1>6 DEF S
    <3>. QED
      BY <1>2, <2>3, <2>4, <3>1, TrailCut
  <2>6. TrailOf(forward', last', back') = L \o AtMost(W, CacheLength)
    <3>1. TrailOf(forward', last', back') = (<<>> \o L) \o AtMost(W, CacheLength)
      BY <1>1 DEF TrailOf, LastSeq, L
    <3>. QED
      BY <1>6, <3>1, ConcatEmptySeq
  <2>7. IsTrail(q, db', TrailOf(forward', last', back'))
    BY <2>5, <2>6
  <2>. QED
    BY <2>3, <2>7 DEF Ordered, Ranks, Ranked, IsTrail, TrailOf, LastSeq
<1>. QED
  BY <1>7, <1>9

(* The session is loaded from the database d, which differs from db in the *)
(* obsolete rows at most.                                                  *)
LEMMA LoadKeeps ==
    ASSUME HistoryAssumption, HistoryInv,
           NEW d, NEW top \in 0..Len(db), NEW numForward \in Nat,
           d \in Seq(RowsTo(Len(d))), Len(d) = Len(db),
           \A i \in 1..Len(db) : /\ d[i].place = db[i].place
                                /\ d[i].referer = db[i].referer,
           db' = d, SetSession(LoadCache(d, top, numForward))
    PROVE  SessionTypes /\ Ordered'
<1>. DEFINE s == LoadCache(d, top, numForward)
<1>1. IsDb(d) /\ top \in 0..Len(d) /\ Len(d) \in Nat
  BY DEF IsDb, HistoryInv, TypeOK
<1>2. /\ s.forward \in Seq(VisitsTo(Len(d)))
      /\ s.back \in Seq(VisitsTo(Len(d)))
      /\ Len(s.back) <= CacheLength
      /\ s.last \in VisitsTo(Len(d)) \cup {NoVisit}
  BY <1>1, LoadCacheIs
<1>. HIDE DEF s
<1>3. forward' = s.forward /\ back' = s.back /\ last' = s.last
  BY DEF SetSession, s
<1>4. SamePlaces(db, d)
  BY <1>1 DEF SamePlaces, HistoryInv, TypeOK, HistoryAssumption
<1>5. SessionTypes
  BY <1>2, <1>3, <1>4 DEF SessionTypes
<1>6. Ordered'
  <2>1. PICK r \in Ranks(db) : Ranked(r, db)
    BY DEF HistoryInv, Ordered
  <2>2. r \in Ranks(d) /\ Ranked(r, d)
    BY <2>1 DEF Ranks, Ranked
  <2>3. IsTrail(r, d, TrailOf(s.forward, s.last, s.back))
    BY <1>1, <2>2, LoadCacheTrail DEF s
  <2>4. IsTrail(r, db', TrailOf(forward', last', back'))
    BY <1>3, <2>3
  <2>. QED
    BY <2>2, <2>4 DEF Ordered, Ranks, Ranked, IsTrail, TrailOf, LastSeq
<1>. QED
  BY <1>5, <1>6

------------------------------------------------------------------------------
(***************************************************************************)
(* What a step does to the rest of the state.                              *)
(***************************************************************************)
LEMMA Grown ==
    ASSUME HistoryAssumption, TypeOK, NEW n \in Nat, Len(db) <= n
    PROVE  /\ expired \in 0..n
           /\ opening \in OpeningsTo(n) \cup {Nothing}
           /\ Disturbed \in OpeningsTo(n) \cup {Nothing}
<1>1. VisitsTo(Len(db)) \subseteq VisitsTo(n)
  BY DEF TypeOK, VisitsTo
<1>2. OpeningsTo(Len(db)) \subseteq OpeningsTo(n)
  BY <1>1 DEF OpeningsTo
<1>3. opening \in OpeningsTo(n) => [opening EXCEPT !.undisturbed = FALSE] \in OpeningsTo(n)
  BY DEF OpeningsTo
<1>. QED
  BY <1>2, <1>3 DEF TypeOK, Disturbed

(* The parts of TypeOK about what a move leads to and what closing saves. *)
MovingTypes ==
    /\ moving' \in Moves \cup ClosingsTo(Len(db')) \cup {Nothing}
    /\ opening' \in OpeningsTo(Len(db')) \cup {Nothing}
    /\ moving'.at = "unloadable" => last' # NoVisit /\ PlaceOf(last)' \in gone'

LEMMA TypesKept ==
    ASSUME HistoryAssumption, SessionTypes, MovingTypes,
           expired' \in 0..Len(db'), gone' \subseteq Temporary
    PROVE  TypeOK'
<1>1. Len(db') <= MaxVisits
  BY DEF SessionTypes, SamePlaces, HistoryAssumption
<1>. QED
  BY <1>1 DEF TypeOK, SessionTypes, SamePlaces, MovingTypes, RowsTo, VisitsTo,
              Moves, ClosingsTo, OpeningsTo, Nothing, NoVisit

LEMMA PlacesOfType ==
    ASSUME NEW n \in Nat, db \in Seq(RowsTo(n)), Len(db) = n,
           NEW s \in Seq(VisitsTo(n))
    PROVE  PlacesOf(s) \in Seq(Places)
<1>1. \A i \in 1..Len(s) : PlaceOf(s[i]) \in Places
  <2>. TAKE i \in 1..Len(s)
  <2>1. s[i].id \in 1..n
    BY VisitIn
  <2>2. db[s[i].id] \in RowsTo(n)
    BY <2>1, ElementOfSeq
  <2>. QED
    BY <2>2 DEF PlaceOf, RowsTo
<1>2. PlacesOf(s) = [i \in 1..Len(s) |-> PlaceOf(s[i])] /\ Len(s) \in Nat
  BY DEF PlacesOf
<1>. QED
  BY <1>1, <1>2

LEMMA ArriveTypes ==
    ASSUME HistoryAssumption, TypeOK, SessionTypes, last' # NoVisit,
           NEW backwards \in BOOLEAN, NEW curr \in Places \cup {NoPlace},
           NEW hasId \in BOOLEAN, NEW n \in 1..MaxMove,
           NEW explicit \in BOOLEAN,
           Arrive(backwards, curr, hasId, n, explicit), gone' = gone
    PROVE  MovingTypes
<1>1. Disturbed \in OpeningsTo(Len(db')) \cup {Nothing}
  <2>1. Len(db') \in Nat /\ Len(db) <= Len(db')
    BY DEF SessionTypes, SamePlaces, TypeOK
  <2>. QED
    BY <2>1, Grown
<1>2. CASE PlaceOf(last)' \in gone
  <2>. DEFINE m == [at |-> "unloadable", backwards |-> backwards, n |-> n,
                    curr |-> curr, hasId |-> hasId \/ db' # db,
                    explicit |-> explicit]
  <2>1. moving' = m /\ opening' = Disturbed
    BY <1>2 DEF Arrive
  <2>2. (hasId \/ db' # db) \in BOOLEAN
    OBVIOUS
  <2>3. m \in Moves
    BY <2>2 DEF Moves
  <2>. QED
    BY <1>1, <1>2, <2>1, <2>3 DEF MovingTypes
<1>3. CASE PlaceOf(last)' \notin gone
  <2>. DEFINE o == [at |-> "opening", backwards |-> backwards, n |-> n,
                    visit |-> last', from |-> curr, back |-> PlacesOf(back),
                    forward |-> PlacesOf(forward), undisturbed |-> TRUE]
  <2>1. moving' = Nothing /\ (opening' = Disturbed \/ opening' = o)
    BY <1>3 DEF Arrive
  <2>2. o \in OpeningsTo(Len(db'))
    <3>1. last' \in VisitsTo(Len(db'))
      BY DEF SessionTypes
    <3>2. PlacesOf(back) \in Seq(Places) /\ PlacesOf(forward) \in Seq(Places)
      <4>1. Len(db) \in Nat /\ db \in Seq(RowsTo(Len(db)))
            /\ back \in Seq(VisitsTo(Len(db))) /\ forward \in Seq(VisitsTo(Len(db)))
        BY DEF TypeOK
      <4>. QED
        BY <4>1, PlacesOfType
    <3>. QED
      BY <3>1, <3>2 DEF OpeningsTo
  <2>. QED
    BY <1>1, <2>1, <2>2 DEF MovingTypes, Nothing
<1>. QED
  BY <1>2, <1>3

LEMMA OthersNat ==
    ASSUME NEW S, NEW s \in Seq(S), NEW place
    PROVE  Others(s, place) \in Nat
<1>. DEFINE D == {i \in DOMAIN s : PlaceOf(s[i]) # place}
<1>1. DOMAIN s = 1..Len(s) /\ Len(s) \in Nat
  OBVIOUS
<1>2. IsFiniteSet(1..Len(s))
  BY <1>1, FS_Interval
<1>3. IsFiniteSet(D)
  BY <1>1, <1>2, FS_Subset
<1>. QED
  BY <1>3, FS_CardinalityType DEF Others

LEMMA ForwardVisitsNat ==
    ASSUME TypeOK, NEW place, NEW backwards, NEW n \in Nat \ {0}
    PROVE  ForwardVisits(place, backwards, n) \in Nat
<1>. DEFINE V == VisitsTo(Len(db))
            m == Len(forward) - n
<1>1. back \in Seq(V) /\ forward \in Seq(V) /\ m \in Int /\ n - 1 \in Nat
      /\ Len(forward) \in Nat
  BY DEF TypeOK
<1>2. SubSeq(forward, 1, m) \in Seq(V)
  <2>1. \A i \in 1..m : forward[i] \in V
    <3>. TAKE i \in 1..m
    <3>1. i \in 1..Len(forward)
      BY <1>1
    <3>. QED
      BY <1>1, <3>1, ElementOfSeq
  <2>. HIDE DEF m, V
  <2>. QED
    BY <1>1, <2>1, SubSeqProperties
<1>3. AtMost(back, n - 1) \in Seq(V)
  BY <1>1, AtMostIs
<1>. HIDE DEF m, V
<1>4. /\ Others(SubSeq(forward, 1, m), place) \in Nat
      /\ Others(forward, place) \in Nat
      /\ Others(AtMost(back, n - 1), place) \in Nat
  BY <1>1, <1>2, <1>3, OthersNat
<1>. QED
  BY <1>4 DEF ForwardVisits, m

------------------------------------------------------------------------------
(***************************************************************************)
(* Every step preserves the invariant.                                     *)
(***************************************************************************)
LEMMA NothingIs == Nothing.at = "nothing"
BY DEF Nothing

LEMMA StaysOrdered ==
    ASSUME HistoryInv, db' = db, session' = session
    PROVE  Ordered'
BY DEF HistoryInv, Ordered, session, Ranks, Ranked, IsTrail, TrailOf, LastSeq

LEMMA SkipKeeps ==
    ASSUME HistoryAssumption, HistoryInv, Skip
    PROVE  HistoryInv'
<1>. DEFINE place == PlaceOf(last)
            d == [i \in DOMAIN db |->
                    IF db[i].place = place
                    THEN [db[i] EXCEPT !.obsolete = TRUE] ELSE db[i]]
            top == IF forward # <<>> THEN forward[1] ELSE last
            N == ForwardVisits(place, moving.backwards, moving.n)
            s == LoadCache(d, top.id, N)
            more == (IF moving.backwards THEN s.back ELSE s.forward) # <<>>
<1>. USE DEF HistoryInv
<1>1. /\ moving.at = "unloadable" /\ db' = d /\ SetSession(s)
      /\ moving' = IF more /\ ~ moving.explicit
                   THEN [moving EXCEPT !.at = "again"] ELSE Nothing
      /\ expired' = expired /\ opening' = opening /\ gone' = gone
  BY DEF Skip
<1>2. moving \in Moves /\ last # NoVisit
  BY <1>1 DEF TypeOK, ClosingsTo, Nothing
<1>3. top.id \in 0..Len(db)
  <2>1. forward # <<>> => forward[1].id \in 1..Len(db)
    <3>1. forward # <<>> => 1 \in 1..Len(forward)
      BY DEF TypeOK
    <3>. QED
      BY <3>1, VisitIn DEF TypeOK
  <2>2. last.id \in 1..Len(db)
    BY <1>2 DEF TypeOK, VisitsTo
  <2>. QED
    BY <2>1, <2>2
<1>4. N \in Nat
  <2>1. moving.n \in Nat \ {0}
    BY <1>2 DEF Moves, HistoryAssumption
  <2>. QED
    BY <2>1, ForwardVisitsNat
<1>5. /\ d \in Seq(RowsTo(Len(d))) /\ Len(d) = Len(db)
      /\ \A i \in 1..Len(db) : /\ d[i].place = db[i].place
                              /\ d[i].referer = db[i].referer
  <2>1. \A i \in 1..Len(db) : /\ db[i] \in RowsTo(Len(db))
                            /\ [db[i] EXCEPT !.obsolete = TRUE] \in RowsTo(Len(db))
                            /\ [db[i] EXCEPT !.obsolete = TRUE].place = db[i].place
                            /\ [db[i] EXCEPT !.obsolete = TRUE].referer = db[i].referer
    <3>. TAKE i \in 1..Len(db)
    <3>1. db[i] \in RowsTo(Len(db))
      BY ElementOfSeq DEF TypeOK
    <3>. QED
      BY <3>1 DEF RowsTo
  <2>2. DOMAIN db = 1..Len(db) /\ Len(db) \in Nat
    BY DEF TypeOK
  <2>. HIDE DEF place
  <2>3. \A i \in 1..Len(db) : /\ d[i] \in RowsTo(Len(db))
                            /\ d[i].place = db[i].place
                            /\ d[i].referer = db[i].referer
    BY <2>1, <2>2
  <2>4. d \in [1..Len(db) -> RowsTo(Len(db))]
    BY <2>2, <2>3
  <2>. HIDE DEF d
  <2>. QED
    BY <2>2, <2>3, <2>4
<1>. HIDE DEF d, N, top
<1>6. SessionTypes /\ Ordered'
  BY <1>1, <1>3, <1>4, <1>5, LoadKeeps
<1>7. Len(db') = Len(db) /\ Len(db) \in Nat
  BY <1>1, <1>5 DEF TypeOK
<1>8. MovingTypes
  <2>1. moving' \in Moves \cup {Nothing} /\ moving'.at # "unloadable"
    <3>1. [moving EXCEPT !.at = "again"] \in Moves
          /\ [moving EXCEPT !.at = "again"].at = "again"
      BY <1>2 DEF Moves
    <3>. HIDE DEF more
    <3>2. moving' = Nothing \/ moving' = [moving EXCEPT !.at = "again"]
      BY <1>1
    <3>. QED
      BY <3>1, <3>2, NothingIs
  <2>2. opening' \in OpeningsTo(Len(db')) \cup {Nothing}
    BY <1>1, <1>7 DEF TypeOK
  <2>. QED
    BY <2>1, <2>2 DEF MovingTypes
<1>9. expired' \in 0..Len(db') /\ gone' \subseteq Temporary
  BY <1>1, <1>7 DEF TypeOK
<1>. QED
  BY <1>6, <1>8, <1>9, TypesKept

LEMMA LoadStepKeeps ==
    ASSUME HistoryAssumption, HistoryInv, Load
    PROVE  HistoryInv'
<1>. USE DEF HistoryInv
<1>1. /\ moving.at = "closed" /\ moving' = Nothing /\ db' = db
      /\ SetSession(LoadCache(db, moving.top, moving.numForward))
      /\ expired' = expired /\ opening' = opening /\ gone' = gone
  BY DEF Load
<1>2. moving \in ClosingsTo(Len(db))
  BY <1>1 DEF TypeOK, Moves, Nothing
<1>3. moving.top \in 0..Len(db) /\ moving.numForward \in Nat
  BY <1>2 DEF ClosingsTo
<1>4. db \in Seq(RowsTo(Len(db)))
  BY DEF TypeOK
<1>5. SessionTypes /\ Ordered'
  BY <1>1, <1>3, <1>4, LoadKeeps
<1>6. MovingTypes
  BY <1>1, NothingIs DEF MovingTypes, TypeOK
<1>7. expired' \in 0..Len(db') /\ gone' \subseteq Temporary
  BY <1>1 DEF TypeOK
<1>. QED
  BY <1>5, <1>6, <1>7, TypesKept

(* The session after going to a visit, in a move or in the undoing of one. *)
LEMMA GoneTo ==
    ASSUME HistoryAssumption, HistoryInv, SessionTypes, Ordered', MovingTypes,
           expired' = expired, gone' = gone
    PROVE  HistoryInv'
<1>1. expired' \in 0..Len(db') /\ gone' \subseteq Temporary
  <2>1. Len(db') \in Nat /\ Len(db) <= Len(db')
    BY DEF SessionTypes, SamePlaces, HistoryInv, TypeOK
  <2>. QED
    BY <2>1, Grown DEF HistoryInv, TypeOK
<1>. QED
  BY <1>1, TypesKept DEF HistoryInv

LEMMA MoveKeeps ==
    ASSUME HistoryAssumption, HistoryInv, NEW backwards \in BOOLEAN,
           NEW curr \in Places \cup {NoPlace}, NEW hasId \in BOOLEAN,
           NEW n \in 1..MaxMove, NEW explicit \in BOOLEAN,
           \/ /\ Go(backwards, curr, hasId, n)
              /\ Arrive(backwards, curr, hasId, n, explicit)
           \/ /\ GoRaises(backwards, curr, hasId, n)
              /\ moving' = Nothing
              /\ opening' = opening,
           expired' = expired, gone' = gone
    PROVE  HistoryInv'
<1>1. n \in Nat \ {0}
  BY DEF HistoryAssumption
<1>2. CASE /\ Go(backwards, curr, hasId, n)
           /\ Arrive(backwards, curr, hasId, n, explicit)
  <2>1. SessionTypes /\ Ordered' /\ last' # NoVisit
    BY <1>1, <1>2, GoKeeps
  <2>2. MovingTypes
    BY <1>2, <2>1, ArriveTypes DEF HistoryInv
  <2>. QED
    BY <2>1, <2>2, GoneTo
<1>3. CASE /\ GoRaises(backwards, curr, hasId, n)
           /\ moving' = Nothing
           /\ opening' = opening
  <2>1. SessionTypes /\ Ordered'
    BY <1>3, GoRaisesKeeps
  <2>2. db' = db
    BY <1>3 DEF GoRaises
  <2>3. MovingTypes
    BY <1>3, <2>2, NothingIs DEF MovingTypes, HistoryInv, TypeOK
  <2>. QED
    BY <2>1, <2>3, GoneTo
<1>. QED
  BY <1>2, <1>3

LEMMA LoadFailsKeeps ==
    ASSUME HistoryAssumption, HistoryInv, LoadFails
    PROVE  HistoryInv'
<1>. DEFINE curr == PlaceOf(opening.visit)
            n == opening.n
            b == ~ opening.backwards
<1>1. /\ moving = Nothing /\ opening # Nothing /\ opening' = Nothing
      /\ Go(b, curr, TRUE, n) \/ GoRaises(b, curr, TRUE, n)
      /\ expired' = expired /\ moving' = moving /\ gone' = gone
  BY DEF LoadFails
<1>2. opening \in OpeningsTo(Len(db))
  BY <1>1 DEF HistoryInv, TypeOK
<1>3. n \in Nat \ {0} /\ b \in BOOLEAN
  BY <1>2 DEF OpeningsTo, HistoryAssumption
<1>4. curr \in Places \cup {NoPlace}
  <2>1. opening.visit.id \in 1..Len(db)
    BY <1>2 DEF OpeningsTo, VisitsTo
  <2>2. db[opening.visit.id] \in RowsTo(Len(db))
    BY <2>1, ElementOfSeq DEF HistoryInv, TypeOK
  <2>. QED
    BY <2>2 DEF PlaceOf, RowsTo
<1>. HIDE DEF curr, n, b
<1>5. SessionTypes /\ Ordered'
  BY <1>1, <1>3, <1>4, GoKeeps, GoRaisesKeeps
<1>6. MovingTypes
  BY <1>1, NothingIs DEF MovingTypes
<1>. QED
  BY <1>1, <1>5, <1>6, GoneTo

LEMMA CloseKeeps ==
    ASSUME HistoryAssumption, HistoryInv, Close
    PROVE  HistoryInv'
<1>. USE DEF HistoryInv
<1>. DEFINE m == [at |-> "closed", top |-> Saved, numForward |-> Len(forward)]
            n == Len(db)
<1>1. /\ expired' = IF n > Kept THEN n - Kept ELSE 0
      /\ moving' = m /\ gone' = Temporary /\ opening' = opening
      /\ db' = db /\ back' = back /\ forward' = forward /\ last' = last
  BY DEF Close, session
<1>2. Ordered'
  BY <1>1, StaysOrdered DEF session
<1>3. Saved \in 0..n
  <2>1. /\ forward # <<>> => 1 \in 1..Len(forward)
        /\ back # <<>> => 1 \in 1..Len(back)
    BY DEF TypeOK
  <2>2. /\ forward # <<>> => forward[1].id \in 1..n
        /\ back # <<>> => back[1].id \in 1..n
    BY <2>1, VisitIn DEF TypeOK
  <2>3. n \in Nat
    BY DEF TypeOK
  <2>. QED
    BY <2>2, <2>3 DEF Saved
<1>4. m \in ClosingsTo(n) /\ m.at = "closed"
  BY <1>3 DEF ClosingsTo, TypeOK
<1>5. expired' \in 0..n
  BY <1>1 DEF TypeOK, HistoryAssumption
<1>. HIDE DEF m
<1>6. TypeOK'
  BY <1>1, <1>4, <1>5 DEF TypeOK
<1>. QED
  BY <1>2, <1>6

LEMMA NoteStepKeeps ==
    ASSUME HistoryAssumption, HistoryInv, NEW place \in Places, Note(place)
    PROVE  HistoryInv'
<1>1. SessionTypes /\ Ordered'
  BY NoteKeeps
<1>2. /\ moving' = Nothing /\ opening' = Disturbed
      /\ expired' = expired /\ gone' = gone
  BY DEF Note
<1>3. MovingTypes
  <2>1. Len(db') \in Nat /\ Len(db) <= Len(db')
    BY <1>1 DEF SessionTypes, SamePlaces, HistoryInv, TypeOK
  <2>2. Disturbed \in OpeningsTo(Len(db')) \cup {Nothing}
    BY <2>1, Grown DEF HistoryInv
  <2>. QED
    BY <1>2, <2>2, NothingIs DEF MovingTypes
<1>. QED
  BY <1>1, <1>2, <1>3, GoneTo

(***************************************************************************)
(* The types of everything, and an order of the visits in which both       *)
(* deques descend, hold in every state.                                    *)
(***************************************************************************)
THEOREM HistoryInvariant == Spec => []HistoryInv
<1>. USE HistoryAssumption
<1>1. Init => HistoryInv
  <2>. SUFFICES ASSUME Init PROVE HistoryInv
    OBVIOUS
  <2>1. TypeOK
    BY DEF Init, TypeOK, HistoryAssumption, Nothing
  <2>. DEFINE r == [i \in 1..Len(db) |-> 0]
  <2>2. r \in Ranks(db) /\ Ranked(r, db) /\ IsTrail(r, db, TrailOf(forward, last, back))
    <3>1. TrailOf(forward, last, back) = <<>> /\ Len(db) = 0
      BY DEF Init, TrailOf, LastSeq
    <3>. QED
      BY <3>1 DEF Ranks, Ranked, IsTrail
  <2>. QED
    BY <2>1, <2>2 DEF HistoryInv, Ordered
<1>2. HistoryInv /\ [Next]_vars => HistoryInv'
  <2>. SUFFICES ASSUME HistoryInv, [Next]_vars PROVE HistoryInv'
    OBVIOUS
  <2>1. ASSUME NEW place \in Places, Note(place) PROVE HistoryInv'
    BY <2>1, NoteStepKeeps
  <2>2. ASSUME NEW place \in Temporary, CloseTemporary(place) PROVE HistoryInv'
    <3>1. /\ db' = db /\ expired' = expired /\ session' = session
          /\ moving' = moving /\ opening' = opening /\ moving = Nothing
          /\ gone' = gone \cup {place}
      BY <2>2 DEF CloseTemporary
    <3>2. Ordered'
      BY <3>1, StaysOrdered
    <3>3. TypeOK'
      BY <3>1, NothingIs DEF HistoryInv, TypeOK, session
    <3>. QED
      BY <3>2, <3>3 DEF HistoryInv
  <2>3. ASSUME NEW backwards \in BOOLEAN, NEW explicit \in BOOLEAN,
               NEW curr \in Places \cup {NoPlace}, NEW n \in 1..MaxMove,
               Move(backwards, curr, n, explicit)
        PROVE  HistoryInv'
    BY <2>3, MoveKeeps DEF Move
  <2>4. CASE Skip
    BY <2>4, SkipKeeps
  <2>5. CASE Again
    <3>1. moving \in Moves
      BY <2>5 DEF Again, HistoryInv, TypeOK, ClosingsTo, Nothing
    <3>2. /\ moving.backwards \in BOOLEAN /\ moving.hasId \in BOOLEAN
          /\ moving.explicit \in BOOLEAN /\ moving.n \in 1..MaxMove
          /\ moving.curr \in Places \cup {NoPlace}
      BY <3>1 DEF Moves
    <3>. QED
      BY <2>5, <3>2, MoveKeeps DEF Again
  <2>6. CASE Opened
    <3>1. /\ db' = db /\ expired' = expired /\ session' = session
          /\ moving' = moving /\ opening' = Nothing /\ gone' = gone
      BY <2>6 DEF Opened
    <3>2. Ordered'
      BY <3>1, StaysOrdered
    <3>3. TypeOK'
      BY <3>1 DEF HistoryInv, TypeOK, session, PlaceOf
    <3>. QED
      BY <3>2, <3>3 DEF HistoryInv
  <2>7. CASE LoadFails
    BY <2>7, LoadFailsKeeps
  <2>8. CASE Close
    BY <2>8, CloseKeeps
  <2>9. CASE Load
    BY <2>9, LoadStepKeeps
  <2>10. CASE UNCHANGED vars
    <3>1. Ordered'
      BY <2>10, StaysOrdered DEF vars
    <3>2. TypeOK'
      BY <2>10 DEF HistoryInv, TypeOK, vars, session, PlaceOf
    <3>. QED
      BY <3>1, <3>2 DEF HistoryInv
  <2>. QED
    BY <2>1, <2>2, <2>3, <2>4, <2>5, <2>6, <2>7, <2>8, <2>9, <2>10 DEF Next
<1>. QED
  BY <1>1, <1>2, PTL DEF Spec

(* The state has its type: the ids are those of rows, the deques have      *)
(* their limit, and what a move or a closing saves is complete.            *)
THEOREM HistoryTypeCorrect == Spec => []TypeOK
<1>1. HistoryInv => TypeOK
  BY DEF HistoryInv
<1>. QED
  BY <1>1, HistoryInvariant, PTL

(* No deque offers a visit of a place that was found to be gone, however   *)
(* moves, failed loads, replenishing, reloading and restarts follow.       *)
THEOREM NoObsoleteOffered == Spec => []ObsoleteNeverOffered
<1>1. HistoryInv => ObsoleteNeverOffered
  <2>. SUFFICES ASSUME HistoryInv PROVE ObsoleteNeverOffered
    OBVIOUS
  <2>1. PICK r \in Ranks(db) : IsTrail(r, db, (forward \o LastSeq(last)) \o back)
    BY DEF HistoryInv, Ordered, TrailOf
  <2>2. /\ forward \in Seq(VisitsTo(Len(db))) /\ back \in Seq(VisitsTo(Len(db)))
        /\ LastSeq(last) \in Seq(VisitsTo(Len(db)))
    BY LastSeqType DEF HistoryInv, TypeOK
  <2>3. /\ IsTrail(r, db, forward \o LastSeq(last))
        /\ IsTrail(r, db, back)
    <3>1. forward \o LastSeq(last) \in Seq(VisitsTo(Len(db)))
      BY <2>2, Joined
    <3>. QED
      BY <2>1, <2>2, <3>1, TrailJoined
  <2>4. IsTrail(r, db, forward)
    BY <2>2, <2>3, TrailJoined
  <2>5. /\ \A i \in 1..Len(back) : ~ db[back[i].id].obsolete
        /\ \A i \in 1..Len(forward) : ~ db[forward[i].id].obsolete
    BY <2>3, <2>4 DEF IsTrail
  <2>6. DOMAIN back = 1..Len(back) /\ DOMAIN forward = 1..Len(forward)
    BY <2>2
  <2>. QED
    BY <2>5, <2>6 DEF ObsoleteNeverOffered, ToSet
<1>. QED
  BY <1>1, HistoryInvariant, PTL

(* A visit is offered once, in one of the deques or as the last visit: the *)
(* chain that loading and replenishing read has no cycle.                  *)
THEOREM NoVisitOfferedTwice == Spec => []NoVisitTwice
<1>1. HistoryInv => NoVisitTwice
  <2>. SUFFICES ASSUME HistoryInv PROVE NoVisitTwice
    OBVIOUS
  <2>. DEFINE n == Len(db)
              l == LastSeq(last)
              t == forward \o back
              ids == [i \in 1..Len(t) |-> t[i].id]
  <2>1. PICK r \in Ranks(db) : IsTrail(r, db, (forward \o l) \o back)
    BY DEF HistoryInv, Ordered, TrailOf
  <2>2. /\ forward \in Seq(VisitsTo(n)) /\ back \in Seq(VisitsTo(n))
        /\ l \in Seq(VisitsTo(n))
    BY LastSeqType DEF HistoryInv, TypeOK
  <2>3. IsTrail(r, db, t) /\ t \in Seq(VisitsTo(n))
    BY <2>1, <2>2, TrailWithoutLast, Joined
  <2>4. Above(r, forward, l) /\ Above(r, l, back)
    <3>1. forward \o l \in Seq(VisitsTo(n))
      BY <2>2, Joined
    <3>2. IsTrail(r, db, forward \o l) /\ Above(r, forward \o l, back)
      BY <2>1, <2>2, <3>1, TrailJoined
    <3>. QED
      BY <2>2, <3>2, TrailJoined, AboveJoined
  <2>. HIDE DEF t, l
  <2>5. \A i \in 1..Len(t) : t[i].id \in 1..n /\ r[t[i].id] \in Int
    BY <2>3, VisitIn DEF Ranks
  <2>6. \A i, j \in 1..Len(t) : ids[i] = ids[j] => i = j
    <3>. SUFFICES ASSUME NEW i \in 1..Len(t), NEW j \in 1..Len(t), i # j
                  PROVE  ids[i] # ids[j]
      OBVIOUS
    <3>1. i < j \/ j < i
      BY <2>3
    <3>2. r[t[i].id] < r[t[j].id] \/ r[t[j].id] < r[t[i].id]
      BY <2>3, <3>1 DEF IsTrail
    <3>. QED
      BY <2>5, <3>2
  <2>7. IsInjective(ids)
    BY <2>6 DEF IsInjective
  <2>8. \A i \in 1..Len(t) : last.id # t[i].id
    <3>. TAKE i \in 1..Len(t)
    <3>1. CASE last = NoVisit
      BY <2>5, <3>1 DEF NoVisit
    <3>2. CASE last # NoVisit
      <4>1. l = <<last>> /\ Len(l) = 1 /\ l[1] = last
        BY <3>2 DEF l, LastSeq
      <4>2. \/ i \in 1..Len(forward) /\ t[i] = forward[i]
            \/ i - Len(forward) \in 1..Len(back) /\ t[i] = back[i - Len(forward)]
        BY <2>2 DEF t
      <4>3. r[last.id] < r[t[i].id] \/ r[t[i].id] < r[last.id]
        BY <2>4, <4>1, <4>2, SMTT(30) DEF Above
      <4>. QED
        BY <2>5, <4>3
    <3>. QED
      BY <3>1, <3>2
  <2>9. last.id \notin ToSet(ids)
    BY <2>8 DEF ToSet
  <2>10. NoVisitTwice <=> IsInjective(ids) /\ last.id \notin ToSet(ids)
    BY DEF NoVisitTwice, t
  <2>. QED
    BY <2>7, <2>9, <2>10
<1>. QED
  BY <1>1, HistoryInvariant, PTL

------------------------------------------------------------------------------
(***************************************************************************)
(* While a file is being opened, the move can be undone: the places of the *)
(* session are those that it had where the move started, as far as both    *)
(* are known, and the last visit is as many visits away from the start as  *)
(* the move was long.  There are fewer places than before only if the back *)
(* visits are at their limit.                                              *)
(***************************************************************************)
Agrees(d, t, s) == \A i \in 1..Len(t) : i <= Len(s) => d[t[i].id].place = s[i]

Start(o) == Around(o.forward, o.from, o.back)

Undoable(o, d, f, l, b) ==
    /\ l = o.visit
    /\ Len(f) = IF o.backwards THEN Len(o.forward) + o.n
                               ELSE Len(o.forward) - o.n
    /\ Agrees(d, TrailOf(f, l, b), Start(o))
    /\ Len(Start(o)) <= Len(TrailOf(f, l, b)) \/ Len(b) = CacheLength

UndoInv ==
    opening # Nothing /\ opening.undisturbed =>
        /\ moving = Nothing
        /\ opening.from # NoPlace => Undoable(opening, db, forward, last, back)

LEMMA PlacesOfIs ==
    ASSUME TypeOK, NEW s \in Seq(VisitsTo(Len(db)))
    PROVE  /\ PlacesOf(s) \in Seq(Places)
           /\ Len(PlacesOf(s)) = Len(s)
           /\ \A i \in 1..Len(s) : PlacesOf(s)[i] = db[s[i].id].place
<1>1. PlacesOf(s) \in Seq(Places)
  BY PlacesOfType DEF TypeOK
<1>2. PlacesOf(s) = [i \in 1..Len(s) |-> db[s[i].id].place] /\ Len(s) \in Nat
  BY DEF PlacesOf, PlaceOf
<1>. QED
  BY <1>1, <1>2

(* The place that is left becomes a visit between the deques. *)
LEMMA HereIs ==
    ASSUME HistoryAssumption, TypeOK, NEW V, Keeps(V), NEW curr \in Places,
           NEW hasId, Leave(curr, hasId, V)
    PROVE  \E h \in VisitsTo(Len(db')) : /\ Here(curr, V) = <<h>>
                                       /\ db'[h.id].place = curr
<1>1. curr # NoPlace
  BY DEF HistoryAssumption
<1>2. CASE Moved(curr)
  <2>1. IsAdded(curr, V, New(V), Added(curr, New(V)), ReferTo(New(V)))
    BY <1>2, AddedRows DEF Leave
  <2>2. db' = Added(curr, New(V)) /\ Here(curr, V) = <<New(V)>>
    BY <1>1, <1>2 DEF Leave, Here
  <2>3. New(V) \in VisitsTo(Len(db')) /\ db'[New(V).id].place = curr
    BY <2>1, <2>2 DEF IsAdded
  <2>. QED
    BY <2>2, <2>3
<1>3. CASE ~ Moved(curr)
  BY <1>1, <1>3 DEF Moved, IsLastVisit, Here, Leave, TypeOK, PlaceOf
<1>. QED
  BY <1>2, <1>3

LEMMA LeavePlaces ==
    ASSUME HistoryAssumption, TypeOK, NEW V, Keeps(V), NEW curr \in Places,
           NEW hasId, Leave(curr, hasId, V)
    PROVE  LET A == Linked(curr, V) \o Here(curr, V)
               s == Around(PlacesOf(forward), curr, PlacesOf(back))
           IN /\ A \in Seq(VisitsTo(Len(db'))) /\ V \in Seq(VisitsTo(Len(db')))
              /\ Len(A) = Len(forward) + 1
              /\ Len(A \o V) = Len(forward) + 1 + Len(V)
              /\ Len(s) = Len(forward) + 1 + Len(back)
              /\ Agrees(db', A \o V, s)
<1>. DEFINE S == VisitsTo(Len(db'))
            F == Linked(curr, V)
            G == PlacesOf(forward)
            B == PlacesOf(back)
            m == Len(forward)
<1>1. /\ SamePlaces(db, db') /\ F \in Seq(S) /\ V \in Seq(S) /\ Len(F) = m
      /\ \A k \in 1..m : F[k].id = forward[k].id
  BY LeaveTypes
<1>2. PICK h \in S : Here(curr, V) = <<h>> /\ db'[h.id].place = curr
  BY HereIs
<1>3. /\ G \in Seq(Places) /\ Len(G) = m
      /\ \A i \in 1..m : G[i] = db[forward[i].id].place
      /\ B \in Seq(Places) /\ Len(B) = Len(back)
      /\ \A i \in 1..Len(back) : B[i] = db[back[i].id].place
  BY PlacesOfIs DEF TypeOK
<1>4. /\ \A i \in 1..m : forward[i].id \in 1..Len(db)
      /\ \A i \in 1..Len(back) : back[i].id \in 1..Len(db)
      /\ m \in Nat /\ Len(back) \in Nat
  BY VisitIn DEF TypeOK
<1>5. /\ \A i \in 1..m : db'[F[i].id].place = G[i]
      /\ \A i \in 1..Len(back) : db'[V[i].id].place = B[i]
  BY <1>1, <1>3, <1>4, ZenonT(30) DEF SamePlaces, Keeps
<1>. HIDE DEF F, G, B, m, S
<1>. DEFINE t == Around(F, h, V)
            s == Around(G, curr, B)
<1>6. /\ t \in Seq(S) /\ F \o <<h>> \in Seq(S)
      /\ Len(t) = m + 1 + Len(V) /\ Len(F \o <<h>>) = m + 1
      /\ Len(s) = m + 1 + Len(back)
      /\ \A i \in 1..m + 1 + Len(V) :
            t[i] = IF i <= m THEN F[i] ELSE IF i = m + 1 THEN h ELSE V[i - m - 1]
      /\ \A i \in 1..m + 1 + Len(back) :
            s[i] = IF i <= m THEN G[i] ELSE IF i = m + 1 THEN curr ELSE B[i - m - 1]
  <2>1. F \o <<h>> \in Seq(S) /\ Len(F \o <<h>>) = m + 1
    BY <1>1
  <2>. HIDE DEF t, s
  <2>2. t \in Seq(S) /\ IsAround(t, F, h, V)
    BY <1>1, <1>2, JoinedAround DEF t
  <2>3. IsAround(s, G, curr, B)
    BY <1>3, JoinedAround DEF s
  <2>. QED
    BY <1>1, <1>3, <2>1, <2>2, <2>3 DEF IsAround
<1>. HIDE DEF t, s
<1>7. Agrees(db', t, s)
  <2>. SUFFICES ASSUME NEW i \in 1..m + 1 + Len(V), i <= m + 1 + Len(back)
                PROVE  db'[t[i].id].place = s[i]
    BY <1>6 DEF Agrees
  <2>1. Len(V) \in Nat
    BY <1>1
  <2>2. CASE i <= m
    <3>1. i \in 1..m /\ i \in 1..m + 1 + Len(back)
      BY <1>4, <2>1, <2>2
    <3>. QED
      BY <1>5, <1>6, <2>2, <3>1
  <2>3. CASE i = m + 1
    <3>1. ~ i <= m /\ i \in 1..m + 1 + Len(back)
      BY <1>4, <2>1, <2>3
    <3>. QED
      BY <1>2, <1>6, <2>3, <3>1
  <2>4. CASE i > m + 1
    <3>1. ~ i <= m /\ i # m + 1 /\ i - m - 1 \in 1..Len(back)
          /\ i \in 1..m + 1 + Len(back)
      BY <1>4, <2>1, <2>4
    <3>. QED
      BY <1>5, <1>6, <3>1
  <2>. QED
    BY <1>4, <2>1, <2>2, <2>3, <2>4
<1>8. (F \o Here(curr, V)) \o V = t
  BY <1>2 DEF t, Around
<1>. QED
  BY <1>1, <1>2, <1>6, <1>7, <1>8 DEF F, G, B, m, S, s

(* What is recorded of a move when it starts. *)
IsMove(o, backwards, curr, n) ==
    /\ o.backwards = backwards /\ o.n = n /\ o.visit = last' /\ o.from = curr
    /\ o.back = PlacesOf(back) /\ o.forward = PlacesOf(forward)

LEMMA GoBackUndoable ==
    ASSUME HistoryAssumption, HistoryInv, NEW curr \in Places, NEW hasId,
           NEW n \in Nat \ {0}, GoBack(curr, hasId, n),
           NEW o, IsMove(o, TRUE, curr, n)
    PROVE  Undoable(o, db', forward', last', back')
<1>. DEFINE V == BackVisits(n)
            A == Linked(curr, V) \o Here(curr, V)
            s == Start(o)
            t == TrailOf(forward', last', back')
<1>1. /\ Keeps(V) /\ Leave(curr, hasId, V)
      /\ t = A \o V /\ Len(forward') = Len(A) + n - 1
  BY GoBackKeeps
<1>. HIDE DEF V, t
<1>2. s = Around(PlacesOf(forward), curr, PlacesOf(back))
  BY DEF Start, IsMove
<1>. HIDE DEF s
<1>3. /\ Len(A) = Len(forward) + 1
      /\ Len(t) = Len(forward) + 1 + Len(V)
      /\ Len(s) = Len(forward) + 1 + Len(back)
      /\ Agrees(db', t, s)
  BY <1>1, <1>2, LeavePlaces DEF HistoryInv
<1>. HIDE DEF A
<1>4. /\ Len(forward) \in Nat /\ Len(back) \in Nat /\ Len(back) <= Len(V)
      /\ Len(o.forward) = Len(forward)
  BY <1>1, PlacesOfIs, SMTT(30) DEF HistoryInv, TypeOK, Keeps, IsMove, HistoryAssumption
<1>5. Len(forward') = Len(o.forward) + o.n
  <2>1. Len(forward') = Len(A) + n - 1 /\ o.n = n
    BY <1>1 DEF IsMove
  <2>. QED
    BY <1>3, <1>4, <2>1
<1>6. Len(s) <= Len(t)
  <2>1. Len(V) \in Nat
    BY <1>1 DEF Keeps
  <2>. QED
    BY <1>3, <1>4, <2>1
<1>. QED
  BY <1>3, <1>5, <1>6 DEF Undoable, IsMove, s, t

(* The oldest visits may be dropped. *)
IsCut(t, u) ==
    /\ Len(t) \in Nat /\ Len(u) \in Nat
    /\ Len(t) <= Len(u)
    /\ \A i \in 1..Len(t) : i \in 1..Len(u) /\ t[i] = u[i]

LEMMA AtMostCuts ==
    ASSUME NEW S, NEW s \in Seq(S), NEW n \in Nat
    PROVE  /\ IsCut(AtMost(s, n), s)
           /\ Len(AtMost(s, n)) = Len(s) \/ Len(AtMost(s, n)) = n
<1>. DEFINE t == AtMost(s, n)
            k == Len(t)
<1>1. /\ k \in 0..Len(s) /\ t = SubSeq(s, 1, k) /\ Len(s) \in Nat
      /\ n <= Len(s) => k = n
      /\ Len(s) <= n => k = Len(s)
  BY AtMostIs
<1>. HIDE DEF k
<1>2. \A i \in 1..k : i \in 1..Len(s) /\ SubSeq(s, 1, k)[i] = s[i]
  BY <1>1
<1>3. k = Len(s) \/ k = n
  BY <1>1
<1>. HIDE DEF t
<1>4. k \in Nat /\ k <= Len(s) /\ Len(s) \in Nat
  BY <1>1
<1>5. \A i \in 1..k : i \in 1..Len(s) /\ t[i] = s[i]
  BY <1>1, <1>2
<1>. QED
  BY <1>3, <1>4, <1>5 DEF IsCut, k, t

LEMMA CutIs ==
    ASSUME NEW A, NEW W, NEW u, IsJoined(u, A, W), Len(A) \in Nat,
           NEW b, IsCut(b, W), NEW t, IsJoined(t, A, b)
    PROVE  IsCut(t, u) /\ (Len(b) = Len(W) => Len(t) = Len(u))
<1>1. Len(b) \in 0..Len(W) /\ Len(W) \in Nat
  BY DEF IsCut
<1>3. /\ Len(u) = Len(A) + Len(W) /\ Len(t) = Len(A) + Len(b)
  BY DEF IsJoined
<1>4. \A j \in 1..Len(b) : j \in 1..Len(W) /\ b[j] = W[j]
  BY DEF IsCut
<1>5. ASSUME NEW i \in 1..Len(t) PROVE i \in 1..Len(u) /\ t[i] = u[i]
  <2>1. i \in 1..Len(A) + Len(b) /\ i \in 1..Len(A) + Len(W)
    BY <1>1, <1>3
  <2>2. /\ t[i] = IF i <= Len(A) THEN A[i] ELSE b[i - Len(A)]
        /\ u[i] = IF i <= Len(A) THEN A[i] ELSE W[i - Len(A)]
    BY <2>1 DEF IsJoined
  <2>3. ~ i <= Len(A) => i - Len(A) \in 1..Len(b)
    BY <1>1, <1>3, <2>1
  <2>. QED
    BY <1>3, <1>4, <2>1, <2>2, <2>3
<1>6. Len(t) \in Nat /\ Len(u) \in Nat /\ Len(t) <= Len(u)
  BY <1>1, <1>3
<1>7. Len(b) = Len(W) => Len(t) = Len(u)
  BY <1>3
<1>. QED
  BY <1>5, <1>6, <1>7 DEF IsCut

LEMMA GoForwardUndoable ==
    ASSUME HistoryAssumption, HistoryInv, NEW curr \in Places, NEW hasId,
           NEW n \in Nat \ {0}, GoForward(curr, hasId, n),
           NEW o, IsMove(o, FALSE, curr, n)
    PROVE  Undoable(o, db', forward', last', back')
<1>. DEFINE L == Linked(curr, back) \o Here(curr, back)
            S == VisitsTo(Len(db'))
            s == Start(o)
            t == TrailOf(forward', last', back')
<1>1. /\ Leave(curr, hasId, back)
      /\ Len(forward') = Len(forward) - n /\ n <= Len(forward)
      /\ \E A, W \in Seq(S) :
            /\ A \o W = L \o back
            /\ back' = AtMost(W, CacheLength) /\ Len(A) = Len(forward') + 1
            /\ t = A \o back'
  BY GoForwardKeeps
<1>. HIDE DEF t
<1>2. PICK A, W \in Seq(S) :
            /\ A \o W = L \o back
            /\ back' = AtMost(W, CacheLength) /\ Len(A) = Len(forward') + 1
            /\ t = A \o back'
  BY <1>1
<1>3. Keeps(back)
  BY DEF HistoryInv, TypeOK, Keeps, HistoryAssumption
<1>4. s = Around(PlacesOf(forward), curr, PlacesOf(back))
  BY DEF Start, IsMove
<1>. HIDE DEF s
<1>5. /\ Len(L \o back) = Len(forward) + 1 + Len(back)
      /\ Len(s) = Len(forward) + 1 + Len(back)
      /\ Agrees(db', L \o back, s)
  BY <1>1, <1>3, <1>4, LeavePlaces DEF HistoryInv
<1>. DEFINE u == L \o back
<1>6. u = A \o W /\ Agrees(db', u, s) /\ Len(u) = Len(s)
  BY <1>2, <1>5
<1>. HIDE DEF L, S, u
<1>7. IsCut(t, u) /\ (Len(t) = Len(u) \/ Len(back') = CacheLength)
  <2>1. CacheLength \in Nat /\ Len(A) \in Nat
    BY <1>2 DEF HistoryAssumption
  <2>2. /\ AtMost(W, CacheLength) \in Seq(S) /\ IsCut(AtMost(W, CacheLength), W)
        /\ \/ Len(AtMost(W, CacheLength)) = Len(W)
           \/ Len(AtMost(W, CacheLength)) = CacheLength
    BY <1>2, <2>1, AtMostIs, AtMostCuts
  <2>3. IsJoined(A \o W, A, W) /\ IsJoined(A \o back', A, back')
    BY <1>2, <2>2, JoinedIs
  <2>4. IsJoined(u, A, W) /\ IsJoined(t, A, back') /\ IsCut(back', W)
    BY <1>2, <1>6, <2>2, <2>3
  <2>5. Len(back') = Len(W) \/ Len(back') = CacheLength
    BY <1>2, <2>2
  <2>. QED
    BY <2>1, <2>4, <2>5, CutIs
<1>8. Agrees(db', t, s)
  BY <1>6, <1>7 DEF Agrees, IsCut
<1>9. Len(s) <= Len(t) \/ Len(back') = CacheLength
  <2>1. Len(t) \in Nat
    BY <1>7 DEF IsCut
  <2>. QED
    BY <1>6, <1>7, <2>1
<1>10. Len(forward') = Len(o.forward) - o.n
  <2>1. Len(o.forward) = Len(forward)
    BY PlacesOfIs DEF HistoryInv, TypeOK, IsMove
  <2>. QED
    BY <1>1, <2>1 DEF IsMove
<1>. QED
  BY <1>8, <1>9, <1>10 DEF Undoable, IsMove, s, t

(* Replenishing the back visits does not disturb a move that waits. *)
LEMMA ReplenishedUndoable ==
    ASSUME HistoryAssumption, TypeOK, NEW V, Keeps(V), last # NoVisit,
           NEW o, Undoable(o, db, forward, last, back)
    PROVE  Undoable(o, db, forward, last, V)
<1>. DEFINE t == Around(forward, last, back)
            u == Around(forward, last, V)
            s == Start(o)
            S == VisitsTo(Len(db))
            m == Len(forward)
<1>1. /\ forward \in Seq(S) /\ back \in Seq(S) /\ V \in Seq(S) /\ last \in S
      /\ Len(V) \in Len(back)..CacheLength
      /\ \A i \in 1..Len(back) : V[i].id = back[i].id
  BY DEF TypeOK, Keeps
<1>2. /\ m \in Nat /\ Len(back) \in Nat /\ Len(V) \in Nat /\ CacheLength \in Nat
      /\ Len(back) <= Len(V) /\ Len(V) <= CacheLength
  BY <1>1 DEF HistoryAssumption
<1>3. TrailOf(forward, last, back) = t /\ TrailOf(forward, last, V) = u
  BY DEF TrailOf, LastSeq, Around
<1>. HIDE DEF S, t, u, s
<1>4. IsAround(t, forward, last, back) /\ IsAround(u, forward, last, V)
  BY <1>1, JoinedAround DEF t, u
<1>5. Agrees(db, t, s) /\ (Len(s) <= Len(t) \/ Len(back) = CacheLength)
  BY <1>3 DEF Undoable, s
<1>. HIDE DEF m
<1>6. Len(t) = m + 1 + Len(back) /\ Len(u) = m + 1 + Len(V)
  BY <1>4 DEF IsAround, m
<1>7. ASSUME NEW i \in 1..Len(t) PROVE i \in 1..Len(u) /\ u[i].id = t[i].id
  <2>1. i \in 1..m + 1 + Len(back) /\ i \in 1..m + 1 + Len(V)
    BY <1>2, <1>6
  <2>2. /\ t[i] = IF i <= m THEN forward[i]
                 ELSE IF i = m + 1 THEN last ELSE back[i - m - 1]
        /\ u[i] = IF i <= m THEN forward[i]
                 ELSE IF i = m + 1 THEN last ELSE V[i - m - 1]
    BY <1>4, <2>1 DEF IsAround, m
  <2>3. i > m + 1 => i - m - 1 \in 1..Len(back)
    BY <1>2, <2>1
  <2>4. i <= m \/ i = m + 1 \/ i > m + 1
    BY <1>2, <2>1
  <2>5. i > m + 1 => u[i].id = t[i].id
    <3>1. i > m + 1 => ~ i <= m /\ i # m + 1
      BY <1>2, <2>1
    <3>. QED
      BY <1>1, <2>2, <2>3, <3>1
  <2>. QED
    BY <1>6, <2>1, <2>2, <2>4, <2>5
<1>8. Agrees(db, u, s)
  <2>. SUFFICES ASSUME NEW i \in 1..Len(u), i <= Len(s)
                PROVE  db[u[i].id].place = s[i]
    BY DEF Agrees
  <2>1. Len(s) <= Len(t) => i \in 1..Len(t)
    BY <1>2, <1>6
  <2>2. Len(back) = CacheLength => i \in 1..Len(t)
    BY <1>2, <1>6
  <2>. QED
    BY <1>5, <1>7, <2>1, <2>2 DEF Agrees
<1>9. Len(s) <= Len(u) \/ Len(V) = CacheLength
  <2>1. Len(s) <= Len(t) => Len(s) <= Len(u)
    <3>1. Len(t) <= Len(u) /\ Len(t) \in Nat /\ Len(u) \in Nat
      BY <1>2, <1>6
    <3>2. Len(s) \in Nat
      BY DEF s
    <3>. QED
      BY <3>1, <3>2
  <2>2. Len(back) = CacheLength => Len(V) = CacheLength
    BY <1>2
  <2>. QED
    BY <1>5, <2>1, <2>2
<1>. QED
  BY <1>3, <1>8, <1>9 DEF Undoable, s

------------------------------------------------------------------------------
(***************************************************************************)
(* When the move is undone the user is where it started.                   *)
(***************************************************************************)
Undone(o) ==
    /\ PlaceOf(last)' = o.from
    /\ PlacesOf(forward)' = o.forward
    /\ \/ IsPrefix(PlacesOf(back)', o.back)
       \/ IsPrefix(o.back, PlacesOf(back)')

LEMMA Comparable ==
    ASSUME NEW S, NEW s \in Seq(S), NEW t \in Seq(S),
           \A i \in 1..Len(s) : i <= Len(t) => s[i] = t[i]
    PROVE  IsPrefix(s, t) \/ IsPrefix(t, s)
<1>1. Len(s) \in Nat /\ Len(t) \in Nat
  OBVIOUS
<1>2. ASSUME Len(s) <= Len(t) PROVE SubSeq(s, 1, Len(s)) = SubSeq(t, 1, Len(s))
  BY <1>1, <1>2
<1>3. ASSUME Len(t) <= Len(s) PROVE SubSeq(t, 1, Len(t)) = SubSeq(s, 1, Len(t))
  BY <1>1, <1>3
<1>. QED
  BY <1>1, <1>2, <1>3 DEF IsPrefix

LEMMA Recovered ==
    ASSUME SessionTypes, last' # NoVisit, NEW o, NEW n, o \in OpeningsTo(n),
           o.from # NoPlace, Len(forward') = Len(o.forward),
           Agrees(db', TrailOf(forward', last', back'), Start(o))
    PROVE  Undone(o)
<1>. DEFINE S == VisitsTo(Len(db'))
            t == Around(forward', last', back')
            s == Start(o)
            m == Len(forward')
<1>1. forward' \in Seq(S) /\ back' \in Seq(S) /\ last' \in S
  BY DEF SessionTypes
<1>2. /\ o.forward \in Seq(Places) /\ o.back \in Seq(Places) /\ o.from \in Places
      /\ Len(o.forward) = m
  BY DEF OpeningsTo
<1>3. TrailOf(forward', last', back') = t
  BY DEF TrailOf, LastSeq, Around
<1>. HIDE DEF S, t, s
<1>4. IsAround(t, forward', last', back') /\ IsAround(s, o.forward, o.from, o.back)
  BY <1>1, <1>2, JoinedAround DEF t, s, Start
<1>5. \A i \in 1..Len(t) : i <= Len(s) => db'[t[i].id].place = s[i]
  BY <1>3 DEF Agrees, s
<1>. DEFINE c == Len(back')
            e == Len(o.back)
<1>6. m \in Nat /\ c \in Nat /\ e \in Nat
  BY <1>1, <1>2
<1>7. /\ Len(t) = m + 1 + c /\ Len(s) = m + 1 + e
      /\ \A i \in 1..m + 1 + c :
            t[i] = IF i <= m THEN forward'[i]
                   ELSE IF i = m + 1 THEN last' ELSE back'[i - m - 1]
      /\ \A i \in 1..m + 1 + e :
            s[i] = IF i <= m THEN o.forward[i]
                   ELSE IF i = m + 1 THEN o.from ELSE o.back[i - m - 1]
  BY <1>2, <1>4 DEF IsAround
<1>. HIDE DEF m, c, e
<1>8. ASSUME NEW i \in 1..m PROVE db'[forward'[i].id].place = o.forward[i]
  <2>1. i \in 1..m + 1 + c /\ i \in 1..m + 1 + e /\ i <= m
    BY <1>6
  <2>2. i <= Len(s)
    BY <1>6, <1>7
  <2>. QED
    BY <1>5, <1>7, <2>1, <2>2
<1>9. db'[last'.id].place = o.from
  <2>1. m + 1 \in 1..m + 1 + c /\ m + 1 \in 1..m + 1 + e /\ ~ m + 1 <= m
    BY <1>6
  <2>2. m + 1 <= Len(s)
    BY <1>6, <1>7
  <2>. QED
    BY <1>5, <1>7, <2>1, <2>2
<1>10. ASSUME NEW j \in 1..c, j <= e PROVE db'[back'[j].id].place = o.back[j]
  <2>. DEFINE i == m + 1 + j
  <2>1. /\ i \in 1..m + 1 + c /\ i \in 1..m + 1 + e /\ ~ i <= m /\ i # m + 1
        /\ i - m - 1 = j /\ i <= m + 1 + e
    BY <1>6, <1>10
  <2>. HIDE DEF i
  <2>. QED
    BY <1>5, <1>7, <2>1
<1>11. PlacesOf(forward)' = o.forward
  <2>1. PlacesOf(forward)' = [i \in 1..m |-> db'[forward'[i].id].place]
    BY <1>1 DEF PlacesOf, PlaceOf, m
  <2>2. o.forward = [i \in 1..m |-> o.forward[i]]
    BY <1>2 DEF m
  <2>. QED
    BY <1>8, <2>1, <2>2
<1>12. IsPrefix(PlacesOf(back)', o.back) \/ IsPrefix(o.back, PlacesOf(back)')
  <2>. DEFINE b == [j \in 1..c |-> db'[back'[j].id].place]
  <2>1. PlacesOf(back)' = b
    BY <1>1 DEF PlacesOf, PlaceOf, c
  <2>2. b \in Seq(Places) /\ Len(b) = c
    <3>1. \A j \in 1..c : db'[back'[j].id].place \in Places
      <4>. TAKE j \in 1..c
      <4>1. back'[j].id \in 1..Len(db')
        BY <1>1, VisitIn DEF S, c
      <4>2. db'[back'[j].id] \in RowsTo(Len(db'))
        BY <4>1, ElementOfSeq DEF SessionTypes, SamePlaces
      <4>. QED
        BY <4>2 DEF RowsTo
    <3>. QED
      BY <1>6, <3>1
  <2>3. \A j \in 1..Len(b) : j <= Len(o.back) => b[j] = o.back[j]
    BY <1>10, <2>2 DEF e
  <2>. HIDE DEF b
  <2>. QED
    BY <1>2, <2>1, <2>2, <2>3, Comparable
<1>13. PlaceOf(last)' = o.from
  BY <1>9 DEF PlaceOf
<1>. QED
  BY <1>11, <1>12, <1>13 DEF Undone

(* Leaving the last visit, at its place, adds nothing. *)
LEMMA LeaveLast ==
    ASSUME HistoryAssumption, TypeOK, last # NoVisit, NEW V, NEW hasId,
           Leave(PlaceOf(last), hasId, V)
    PROVE  /\ ~ Moved(PlaceOf(last)) /\ PlaceOf(last) \in Places
           /\ db' = db
           /\ Linked(PlaceOf(last), V) = forward
           /\ Here(PlaceOf(last), V) = <<last>>
<1>1. PlaceOf(last) \in Places
  <2>1. last.id \in 1..Len(db)
    BY DEF TypeOK, VisitsTo
  <2>2. db[last.id] \in RowsTo(Len(db))
    BY <2>1, ElementOfSeq DEF TypeOK
  <2>. QED
    BY <2>2 DEF PlaceOf, RowsTo
<1>2. ~ Moved(PlaceOf(last)) /\ PlaceOf(last) # NoPlace
  BY <1>1 DEF Moved, IsLastVisit, HistoryAssumption
<1>. QED
  BY <1>1, <1>2 DEF Leave, Linked, Here

LEMMA UndoesBack ==
    ASSUME HistoryAssumption, HistoryInv, NEW o \in OpeningsTo(Len(db)),
           o.backwards, o.from # NoPlace,
           Undoable(o, db, forward, last, back),
           GoForward(PlaceOf(o.visit), TRUE, o.n)
    PROVE  Undone(o)
<1>. DEFINE curr == PlaceOf(last)
            S == VisitsTo(Len(db'))
            t == TrailOf(forward', last', back')
            u == TrailOf(forward, last, back)
            s == Start(o)
<1>1. /\ last = o.visit /\ Len(forward) = Len(o.forward) + o.n
      /\ Agrees(db, u, s)
  BY DEF Undoable
<1>2. last # NoVisit /\ o.n \in Nat \ {0} /\ Len(o.forward) \in Nat
  BY <1>1 DEF OpeningsTo, VisitsTo, NoVisit, HistoryAssumption
<1>3. Leave(curr, TRUE, back)
  BY <1>1 DEF GoForward
<1>4. /\ curr \in Places /\ db' = db
      /\ Linked(curr, back) = forward /\ Here(curr, back) = <<last>>
  BY <1>2, <1>3, LeaveLast DEF HistoryInv
<1>. HIDE DEF curr, t, s, S, u
<1>5. /\ SessionTypes /\ last' # NoVisit
      /\ Len(forward') = Len(forward) - o.n
      /\ \E A, W \in Seq(S) :
            /\ A \o W = (forward \o <<last>>) \o back
            /\ back' = AtMost(W, CacheLength)
            /\ t = A \o back'
  <2>1. GoForward(curr, TRUE, o.n)
    BY <1>1 DEF curr
  <2>. QED
    BY <1>2, <1>4, <2>1, GoForwardKeeps DEF t, S
<1>6. PICK A, W \in Seq(S) :
            /\ A \o W = (forward \o <<last>>) \o back
            /\ back' = AtMost(W, CacheLength)
            /\ t = A \o back'
  BY <1>5
<1>7. u = A \o W
  BY <1>2, <1>6 DEF u, TrailOf, LastSeq
<1>8. IsCut(t, u)
  <2>1. CacheLength \in Nat /\ Len(A) \in Nat
    BY <1>6 DEF HistoryAssumption
  <2>2. back' \in Seq(S) /\ IsCut(back', W)
    BY <1>6, <2>1, AtMostIs, AtMostCuts
  <2>3. IsJoined(A \o W, A, W) /\ IsJoined(A \o back', A, back')
    BY <1>6, <2>2, JoinedIs
  <2>4. IsJoined(u, A, W) /\ IsJoined(t, A, back')
    BY <1>6, <1>7, <2>3
  <2>. QED
    BY <2>1, <2>2, <2>4, CutIs
<1>9. Agrees(db', t, s)
  BY <1>1, <1>4, <1>8 DEF Agrees, IsCut
<1>10. Len(forward') = Len(o.forward)
  BY <1>1, <1>2, <1>5, SMTT(30)
<1>. QED
  BY <1>5, <1>9, <1>10, Recovered DEF t, s

LEMMA UndoesForward ==
    ASSUME HistoryAssumption, HistoryInv, NEW o \in OpeningsTo(Len(db)),
           ~ o.backwards, o.from # NoPlace,
           Undoable(o, db, forward, last, back),
           GoBack(PlaceOf(o.visit), TRUE, o.n)
    PROVE  Undone(o)
<1>. DEFINE curr == PlaceOf(last)
            V == BackVisits(o.n)
            t == TrailOf(forward', last', back')
            s == Start(o)
<1>1. last = o.visit /\ Len(forward) = Len(o.forward) - o.n
  BY DEF Undoable
<1>2. last # NoVisit /\ o.n \in Nat \ {0} /\ Len(o.forward) \in Nat
  BY <1>1 DEF OpeningsTo, VisitsTo, NoVisit, HistoryAssumption
<1>3. Keeps(V)
  BY BackVisitsKept DEF HistoryInv
<1>4. Agrees(db, TrailOf(forward, last, V), s)
  <2>1. Undoable(o, db, forward, last, V)
    BY <1>2, <1>3, ReplenishedUndoable DEF HistoryInv
  <2>. QED
    BY <2>1 DEF Undoable
<1>5. Leave(curr, TRUE, V)
  BY <1>1 DEF GoBack
<1>6. /\ curr \in Places /\ db' = db
      /\ Linked(curr, V) = forward /\ Here(curr, V) = <<last>>
  BY <1>2, <1>5, LeaveLast DEF HistoryInv
<1>. HIDE DEF curr, t, s
<1>7. /\ SessionTypes /\ last' # NoVisit
      /\ t = (forward \o <<last>>) \o V
      /\ Len(forward') = Len(forward \o <<last>>) + o.n - 1
  <2>1. GoBack(curr, TRUE, o.n)
    BY <1>1 DEF curr
  <2>. QED
    BY <1>2, <1>6, <2>1, GoBackKeeps DEF t
<1>. HIDE DEF V
<1>8. Agrees(db', t, s)
  <2>1. t = TrailOf(forward, last, V)
    BY <1>2, <1>7 DEF TrailOf, LastSeq
  <2>. QED
    BY <1>4, <1>6, <2>1
<1>9. Len(forward') = Len(o.forward)
  <2>1. Len(forward \o <<last>>) = Len(forward) + 1 /\ Len(forward) \in Nat
    <3>1. forward \in Seq(VisitsTo(Len(db))) /\ last \in VisitsTo(Len(db))
      BY <1>2 DEF HistoryInv, TypeOK
    <3>. QED
      BY <3>1
  <2>2. Len(forward') = Len(forward \o <<last>>) + o.n - 1
    BY <1>7
  <2>. QED
    BY <1>1, <1>2, <2>1, <2>2, SMTT(30)
<1>. QED
  BY <1>7, <1>8, <1>9, Recovered DEF t, s

(* The undoing of a move finds the visit it goes to. *)
LEMMA UndoingIsPossible ==
    ASSUME HistoryAssumption, HistoryInv, NEW o \in OpeningsTo(Len(db)),
           o.from # NoPlace, Undoable(o, db, forward, last, back),
           ~ o.backwards => o.n <= CacheLength /\ ~ ReplenishRaises(o.n)
    PROVE  ~ GoRaises(~ o.backwards, PlaceOf(o.visit), TRUE, o.n)
<1>1. last = o.visit
  BY DEF Undoable
<1>2. /\ last # NoVisit /\ o.n \in Nat \ {0}
      /\ o.forward \in Seq(Places) /\ o.back \in Seq(Places) /\ o.from \in Places
      /\ o.backwards \in BOOLEAN
  BY <1>1 DEF OpeningsTo, VisitsTo, NoVisit, HistoryAssumption
<1>3. ~ Asserts(PlaceOf(o.visit), TRUE)
  BY <1>1, <1>2 DEF Asserts, Moved, IsLastVisit
<1>4. CASE o.backwards
  <2>1. Len(forward) = Len(o.forward) + o.n /\ Len(o.forward) \in Nat
    BY <1>2, <1>4 DEF Undoable
  <2>2. CanGoForward(o.n)
    BY <1>2, <2>1 DEF CanGoForward
  <2>. QED
    BY <1>3, <1>4, <2>2 DEF GoRaises
<1>5. CASE ~ o.backwards
  <2>. DEFINE m == Len(forward)
              k == Len(back)
  <2>1. /\ m = Len(o.forward) - o.n
        /\ Len(Start(o)) <= Len(TrailOf(forward, last, back)) \/ k = CacheLength
    BY <1>5 DEF Undoable
  <2>2. /\ forward \in Seq(VisitsTo(Len(db))) /\ back \in Seq(VisitsTo(Len(db)))
        /\ last \in VisitsTo(Len(db)) /\ m \in Nat /\ k \in Nat
    BY <1>2 DEF HistoryInv, TypeOK
  <2>3. Len(Start(o)) = Len(o.forward) + 1 + Len(o.back)
    <3>1. IsAround(Start(o), o.forward, o.from, o.back)
      BY <1>2, JoinedAround DEF Start
    <3>. QED
      BY <3>1 DEF IsAround
  <2>4. Len(TrailOf(forward, last, back)) = m + 1 + k
    <3>1. TrailOf(forward, last, back) = Around(forward, last, back)
      BY <1>2 DEF TrailOf, LastSeq, Around
    <3>. QED
      BY <2>2, <3>1, JoinedAround DEF IsAround
  <2>5. o.n <= k
    <3>1. Len(o.forward) \in Nat /\ Len(o.back) \in Nat /\ CacheLength \in Nat
      BY <1>2 DEF HistoryAssumption
    <3>. HIDE DEF m, k
    <3>2. CASE k = CacheLength
      BY <1>5, <3>2
    <3>3. CASE Len(Start(o)) <= Len(TrailOf(forward, last, back))
      <4>1. Len(o.forward) + 1 + Len(o.back) <= m + 1 + k
        BY <2>3, <2>4, <3>3
      <4>2. o.n \in Nat /\ m = Len(o.forward) - o.n
        BY <1>2, <2>1
      <4>3. m \in Nat /\ k \in Nat
        BY <2>2
      <4>4. ASSUME NEW f \in Nat, NEW b \in Nat, NEW n \in Nat,
                   m = f - n, f + 1 + b <= m + 1 + k
            PROVE  n <= k
        BY <4>3, <4>4
      <4>. QED
        BY <3>1, <4>1, <4>2, <4>4
    <3>. QED
      BY <2>1, <3>2, <3>3
  <2>6. o.n <= Len(BackVisits(o.n)) /\ back # <<>>
    <3>1. Keeps(BackVisits(o.n))
      BY BackVisitsKept DEF HistoryInv
    <3>2. Len(BackVisits(o.n)) \in Nat /\ k <= Len(BackVisits(o.n))
      BY <2>2, <3>1 DEF Keeps, HistoryAssumption
    <3>3. back # <<>>
      BY <1>2, <2>2, <2>5
    <3>. QED
      BY <1>2, <2>2, <2>5, <3>2, <3>3
  <2>7. CanGoBack(o.n)
    BY <1>5, <2>6 DEF CanGoBack
  <2>. QED
    BY <1>3, <1>5, <2>7 DEF GoRaises
<1>. QED
  BY <1>2, <1>4, <1>5

LEMMA DisturbedIs ==
    ASSUME TypeOK
    PROVE  Disturbed # Nothing => ~ Disturbed.undisturbed
BY DEF TypeOK, Disturbed, OpeningsTo

LEMMA ArriveUndo ==
    ASSUME HistoryAssumption, HistoryInv, NEW backwards \in BOOLEAN,
           NEW curr \in Places \cup {NoPlace}, NEW hasId, NEW n \in 1..MaxMove,
           NEW explicit, Go(backwards, curr, hasId, n),
           Arrive(backwards, curr, hasId, n, explicit)
    PROVE  UndoInv'
<1>1. CASE opening' = Disturbed
  BY <1>1, DisturbedIs DEF HistoryInv, UndoInv
<1>2. CASE opening' # Disturbed
  <2>1. /\ moving' = Nothing
        /\ opening' = [at |-> "opening", backwards |-> backwards, n |-> n,
                       visit |-> last', from |-> curr, back |-> PlacesOf(back),
                       forward |-> PlacesOf(forward), undisturbed |-> TRUE]
    BY <1>2 DEF Arrive
  <2>2. IsMove(opening', backwards, curr, n) /\ opening'.from = curr
    BY <2>1 DEF IsMove
  <2>3. ASSUME curr # NoPlace
        PROVE  Undoable(opening', db', forward', last', back')
    <3>1. n \in Nat \ {0} /\ curr \in Places
      BY <2>3 DEF HistoryAssumption
    <3>2. CASE backwards
      BY <2>2, <3>1, <3>2, GoBackUndoable DEF Go
    <3>3. CASE ~ backwards
      BY <2>2, <3>1, <3>3, GoForwardUndoable DEF Go
    <3>. QED
      BY <3>2, <3>3
  <2>. QED
    BY <2>1, <2>2, <2>3 DEF UndoInv
<1>. QED
  BY <1>1, <1>2

LEMMA UndoStep ==
    ASSUME HistoryAssumption, HistoryInv, UndoInv, [Next]_vars
    PROVE  UndoInv'
<1>1. ASSUME NEW place \in Places, Note(place) PROVE UndoInv'
  BY <1>1, DisturbedIs DEF Note, UndoInv, HistoryInv
<1>2. ASSUME NEW place \in Temporary, CloseTemporary(place) PROVE UndoInv'
  BY <1>2 DEF CloseTemporary, UndoInv, session
<1>3. ASSUME NEW backwards \in BOOLEAN, NEW explicit \in BOOLEAN,
             NEW curr \in Places \cup {NoPlace}, NEW n \in 1..MaxMove,
             Move(backwards, curr, n, explicit)
      PROVE  UndoInv'
  <2>1. CASE /\ Go(backwards, curr, FALSE, n)
             /\ Arrive(backwards, curr, FALSE, n, explicit)
    BY <2>1, ArriveUndo
  <2>2. CASE /\ GoRaises(backwards, curr, FALSE, n)
             /\ UNCHANGED <<moving, opening>>
    <3>1. /\ db' = db /\ forward' = forward /\ last' = last
          /\ moving' = moving /\ opening' = opening
          /\ back' = back \/ back' = BackVisits(n)
      BY <2>2 DEF GoRaises
    <3>2. Keeps(BackVisits(n)) /\ Keeps(back)
      BY BackVisitsKept DEF HistoryInv, TypeOK, Keeps, HistoryAssumption
    <3>3. ASSUME opening # Nothing, opening.undisturbed, opening.from # NoPlace
          PROVE  Undoable(opening, db, forward, last, back')
      <4>1. Undoable(opening, db, forward, last, back)
        BY <3>3 DEF UndoInv
      <4>2. last # NoVisit
        BY <3>3, <4>1 DEF Undoable, HistoryInv, TypeOK, OpeningsTo, VisitsTo, NoVisit
      <4>. QED
        BY <3>1, <3>2, <4>1, <4>2, ReplenishedUndoable DEF HistoryInv
    <3>. QED
      BY <3>1, <3>3 DEF UndoInv
  <2>. QED
    BY <1>3, <2>1, <2>2 DEF Move
<1>4. CASE Skip
  BY <1>4, NothingIs DEF Skip, UndoInv
<1>5. CASE Again
  <2>1. moving \in Moves
    BY <1>5 DEF Again, HistoryInv, TypeOK, ClosingsTo, Nothing
  <2>2. /\ moving.backwards \in BOOLEAN /\ moving.n \in 1..MaxMove
        /\ moving.curr \in Places \cup {NoPlace}
    BY <2>1 DEF Moves
  <2>3. CASE opening' = opening
    BY <1>5, <2>3, NothingIs DEF Again, UndoInv
  <2>. QED
    BY <1>5, <2>2, <2>3, ArriveUndo DEF Again
<1>6. CASE Opened
  BY <1>6 DEF Opened, UndoInv
<1>7. CASE LoadFails
  BY <1>7 DEF LoadFails, UndoInv
<1>8. CASE Close
  BY <1>8 DEF Close, UndoInv
<1>9. CASE Load
  BY <1>9, NothingIs DEF Load, UndoInv
<1>10. CASE UNCHANGED vars
  BY <1>10 DEF vars, session, UndoInv
<1>. QED
  BY <1>1, <1>2, <1>3, <1>4, <1>5, <1>6, <1>7, <1>8, <1>9, <1>10 DEF Next

(* A move to a file that cannot be opened is undone: the user is back at   *)
(* the place where it started, with the same visits before and behind it,  *)
(* however far the move was and whatever was replenished meanwhile.        *)
THEOREM FailedLoadCorrect == Spec => FailedLoadIsUndone
<1>. USE HistoryAssumption
<1>1. Init => UndoInv
  BY DEF Init, UndoInv
<1>2. HistoryInv /\ UndoInv /\ [Next]_vars => UndoInv'
  BY UndoStep
<1>3. HistoryInv /\ UndoInv =>
        [/\ LoadFails
         /\ opening.undisturbed
         /\ opening.from # NoPlace
         /\ ~ opening.backwards => /\ opening.n <= CacheLength
                                  /\ ~ ReplenishRaises(opening.n)
         =>
          /\ PlaceOf(last)' = opening.from
          /\ PlacesOf(forward)' = opening.forward
          /\ \/ IsPrefix(PlacesOf(back)', opening.back)
             \/ IsPrefix(opening.back, PlacesOf(back)')]_vars
  <2>. SUFFICES ASSUME HistoryInv, UndoInv, LoadFails, opening.undisturbed,
                       opening.from # NoPlace,
                       ~ opening.backwards => /\ opening.n <= CacheLength
                                              /\ ~ ReplenishRaises(opening.n)
                PROVE  Undone(opening)
    BY DEF Undone
  <2>1. /\ opening # Nothing
        /\ \/ Go(~ opening.backwards, PlaceOf(opening.visit), TRUE, opening.n)
           \/ GoRaises(~ opening.backwards, PlaceOf(opening.visit), TRUE, opening.n)
    BY DEF LoadFails
  <2>2. opening \in OpeningsTo(Len(db)) /\ opening.backwards \in BOOLEAN
    BY <2>1 DEF HistoryInv, TypeOK, OpeningsTo
  <2>3. Undoable(opening, db, forward, last, back)
    BY <2>1 DEF UndoInv
  <2>4. Go(~ opening.backwards, PlaceOf(opening.visit), TRUE, opening.n)
    BY <2>1, <2>2, <2>3, UndoingIsPossible
  <2>5. CASE opening.backwards
    BY <2>2, <2>3, <2>4, <2>5, UndoesBack DEF Go
  <2>6. CASE ~ opening.backwards
    BY <2>2, <2>3, <2>4, <2>6, UndoesForward DEF Go
  <2>. QED
    BY <2>5, <2>6
<1>. QED
  BY <1>1, <1>2, <1>3, HistoryInvariant, PTL DEF Spec, FailedLoadIsUndone
=============================================================================
