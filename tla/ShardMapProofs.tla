--------------------------- MODULE ShardMapProofs ---------------------------
(***************************************************************************)
(* What NewRing and computeShardMap return, for any finite set of pods,    *)
(* any number of shards and any hash function.                             *)
(***************************************************************************)
EXTENDS ShardMap, FiniteSetTheorems, TLAPS

\* A list that names no pod twice.
Distinct(s) == \A i, j \in DOMAIN s : s[i] = s[j] => i = j

\* The pods on a list.
Names(s) == { s[i] : i \in DOMAIN s }

-----------------------------------------------------------------------------
(* Induction: the library's principle for an operator cannot be used by the *)
(* provers, but a set of naturals without a least element is empty.         *)

LEMMA LeastNumber ==
    ASSUME NEW T \in SUBSET Nat, T # {}
    PROVE  \E m \in T : \A k \in T : m <= k
<1>1. PICK m \in T : \A k \in T : ~(<<k, m>> \in OpToRel(<, Nat))
    BY NatLessThanWellFounded, WFMin
<1>2. \A k \in T : ~(k < m)
    BY <1>1 DEF OpToRel
<1> QED BY <1>2

\* A set of numbers up to n that has 0 and the successor of each member below n
\* has them all.
LEMMA UpTo ==
    ASSUME NEW n \in Nat, NEW T, 0 \in T, \A k \in 1 .. n : k - 1 \in T => k \in T
    PROVE  \A k \in 0 .. n : k \in T
<1> DEFINE U == (0 .. n) \ T
<1>1. SUFFICES ASSUME U # {} PROVE FALSE
    OBVIOUS
<1>2. U \in SUBSET Nat
    OBVIOUS
<1>3. PICK m \in U : \A k \in U : m <= k
    <2> HIDE DEF U
    <2> QED BY <1>1, <1>2, LeastNumber
<1>4. m \in 1 .. n /\ m - 1 \in 0 .. n /\ ~(m <= m - 1)
    OBVIOUS
<1>5. m - 1 \in T
    BY <1>3, <1>4
<1> QED BY <1>4, <1>5

-----------------------------------------------------------------------------
(* The pods that may own shards *)

ReadyBody(l, r, f, k) ==
    IF k = 0 THEN << >>
    ELSE IF r[l[k]] THEN Append(f[k - 1], l[k])
    ELSE f[k - 1]

\* The loop is well defined: each round extends what the one before has left.
LEMMA ReadyAmongDef ==
    ASSUME NEW l, NEW r, Len(l) \in Nat
    PROVE  ReadyAmong(l, r) = [k \in 0 .. Len(l) |-> ReadyBody(l, r, ReadyAmong(l, r), k)]
<1> DEFINE Solves(f, n) == f = [k \in 0 .. n |-> ReadyBody(l, r, f, k)]
           T == { n \in Nat : \E f : Solves(f, n) }
<1>1. 0 \in T
    <2>1. Solves([k \in 0 .. 0 |-> << >>], 0)
        BY DEF ReadyBody
    <2> QED BY <2>1
<1>2. ASSUME NEW n \in 1 .. Len(l), n - 1 \in T PROVE n \in T
    <2>1. PICK f : Solves(f, n - 1)
        BY <1>2
    <2> DEFINE g == [k \in 0 .. n |-> IF k = n THEN ReadyBody(l, r, f, n) ELSE f[k]]
    <2>2. \A k \in 0 .. n : g[k] = ReadyBody(l, r, g, k)
        <3> SUFFICES ASSUME NEW k \in 0 .. n PROVE g[k] = ReadyBody(l, r, g, k)
            OBVIOUS
        <3>1. k # 0 => g[k - 1] = f[k - 1]
            OBVIOUS
        <3>2. ReadyBody(l, r, g, k) = ReadyBody(l, r, f, k)
            BY <3>1 DEF ReadyBody
        <3>3. k # n => f[k] = ReadyBody(l, r, f, k)
            BY <2>1
        <3> QED BY <3>2, <3>3
    <2>3. Solves(g, n)
        BY <2>2
    <2> HIDE DEF Solves, g
    <2>4. n \in Nat /\ \E h : Solves(h, n)
        BY <2>3
    <2> QED BY <2>4
<1>3. PICK f : Solves(f, Len(l))
    <2> HIDE DEF T
    <2>1. \A n \in 0 .. Len(l) : n \in T
        BY <1>1, <1>2, UpTo
    <2>2. Len(l) \in T
        BY <2>1
    <2> QED BY <2>2 DEF T
<1>4. ReadyAmong(l, r) = CHOOSE h : Solves(h, Len(l))
    BY DEF ReadyAmong, ReadyBody
<1> HIDE DEF Solves
<1>5. Solves(ReadyAmong(l, r), Len(l))
    BY <1>3, <1>4
<1> QED BY <1>5 DEF Solves

\* One more entry at the end of a list adds its pod.
LEMMA NamesExtended ==
    ASSUME NEW s, NEW t, NEW e, DOMAIN t = DOMAIN s \cup {e}, \A i \in DOMAIN s : t[i] = s[i]
    PROVE  Names(t) = Names(s) \cup {t[e]}
<1>1. ASSUME NEW i \in DOMAIN t PROVE t[i] \in Names(s) \cup {t[e]}
    BY ZenonT(30) DEF Names
<1>2. ASSUME NEW i \in DOMAIN s PROVE s[i] \in Names(t)
    <2>1. i \in DOMAIN t /\ t[i] = s[i]
        BY ZenonT(30)
    <2> QED BY ZenonT(30), <2>1 DEF Names
<1>3. t[e] \in Names(t)
    BY ZenonT(30) DEF Names
<1>4. Names(t) \subseteq Names(s) \cup {t[e]}
    BY <1>1 DEF Names
<1>5. Names(s) \subseteq Names(t)
    BY <1>2 DEF Names
<1> QED BY ZenonT(30), <1>3, <1>4, <1>5

\* The ready ones among the first k pods of a list.
ReadyIn(l, r, k) == { l[i] : i \in { j \in 1 .. k : r[l[j]] } }

\* The list c names the ready ones among the first k pods of l, each once.
Collected(c, l, r, S, k) ==
    c \in Seq(S) /\ Distinct(c) /\ Names(c) = ReadyIn(l, r, k)

\* What the loop has collected after k rounds.
LEMMA ReadyCollected ==
    ASSUME NEW n \in Nat, NEW S, NEW l \in [1 .. n -> S], Distinct(l), NEW r,
           NEW k \in 0 .. n
    PROVE  Collected(ReadyAmong(l, r)[k], l, r, S, k)
<1> DEFINE a == ReadyAmong(l, r)
           Good(m) == /\ a[m] \in Seq(S)
                      /\ Distinct(a[m])
                      /\ Names(a[m]) = ReadyIn(l, r, m)
           T == { m \in 0 .. n : Good(m) }
<1>1. Len(l) = n
    OBVIOUS
<1>2. a = [m \in 0 .. n |-> ReadyBody(l, r, a, m)]
    BY <1>1, ReadyAmongDef
<1>3. a[0] = << >> /\ \A m \in 1 .. n : a[m] = IF r[l[m]] THEN Append(a[m - 1], l[m]) ELSE a[m - 1]
    <2> HIDE DEF a
    <2>1. \A m \in 0 .. n : a[m] = ReadyBody(l, r, a, m)
        BY <1>2
    <2>2. a[0] = << >>
        BY <2>1 DEF ReadyBody
    <2>3. ASSUME NEW m \in 1 .. n
          PROVE  a[m] = IF r[l[m]] THEN Append(a[m - 1], l[m]) ELSE a[m - 1]
        <3>1. m \in 0 .. n /\ m # 0
            OBVIOUS
        <3> QED BY <2>1, <3>1 DEF ReadyBody
    <2> QED BY <2>2, <2>3
<1> HIDE DEF a
<1>4. Good(0)
    BY <1>3 DEF Distinct, Names, ReadyIn
<1>5. ASSUME NEW m \in 1 .. n, Good(m - 1) PROVE Good(m)
    <2>1. CASE ~r[l[m]]
        <3>1. a[m] = a[m - 1]
            BY <1>3, <2>1
        <3>2. ReadyIn(l, r, m) = ReadyIn(l, r, m - 1)
            BY <2>1 DEF ReadyIn
        <3> QED BY <1>5, <3>1, <3>2
    <2>2. CASE r[l[m]]
        <3>1. a[m] = Append(a[m - 1], l[m])
            BY <1>3, <2>2
        <3>2. ReadyIn(l, r, m) = ReadyIn(l, r, m - 1) \cup {l[m]}
            BY <2>2 DEF ReadyIn
        <3>3. l[m] \notin Names(a[m - 1])
            BY <1>5 DEF Distinct, ReadyIn
        <3>4. l[m] \in S /\ a[m] \in Seq(S)
            BY <1>5, <3>1
        <3>5. Len(a[m]) = Len(a[m - 1]) + 1 /\ Len(a[m - 1]) \in Nat
            BY <1>5, <3>1
        <3>6. /\ \A i \in 1 .. Len(a[m - 1]) : a[m][i] = a[m - 1][i]
              /\ a[m][Len(a[m])] = l[m]
            BY <1>5, <3>1, <3>4, <3>5
        <3>7. DOMAIN a[m] = DOMAIN a[m - 1] \cup {Len(a[m])} /\ DOMAIN a[m - 1] = 1 .. Len(a[m - 1])
            BY <1>5, <3>4, <3>5
        <3>8. Distinct(a[m])
            <4> DEFINE b == a[m - 1]
                       e == Len(a[m])
            <4>1. \A i \in DOMAIN b : a[m][i] = b[i] /\ b[i] # a[m][e]
                BY <3>3, <3>6, <3>7 DEF Names
            <4>2. \A i, j \in DOMAIN b : a[m][i] = a[m][j] => i = j
                BY <1>5, <4>1 DEF Distinct
            <4> HIDE DEF b, e
            <4>3. DOMAIN a[m] = DOMAIN b \cup {e}
                BY <3>7 DEF b, e
            <4> QED BY <4>1, <4>2, <4>3 DEF Distinct
        <3>9. Names(a[m]) = Names(a[m - 1]) \cup {l[m]}
            <4>1. \A i \in DOMAIN a[m - 1] : a[m][i] = a[m - 1][i]
                BY ZenonT(30), <3>6, <3>7
            <4>2. DOMAIN a[m] = DOMAIN a[m - 1] \cup {Len(a[m])} /\ a[m][Len(a[m])] = l[m]
                BY ZenonT(30), <3>6, <3>7
            <4> DEFINE s == a[m - 1]
                       t == a[m]
                       e == Len(a[m])
            <4> HIDE DEF s, t, e
            <4>3. Names(t) = Names(s) \cup {t[e]}
                <5>1. DOMAIN t = DOMAIN s \cup {e} /\ \A i \in DOMAIN s : t[i] = s[i]
                    BY ZenonT(30), <4>1, <4>2 DEF s, t, e
                <5> QED BY <5>1, NamesExtended
            <4> QED BY ZenonT(30), <4>2, <4>3 DEF s, t, e
        <3> QED BY <1>5, <3>2, <3>4, <3>8, <3>9
    <2> QED BY <2>1, <2>2
<1>6. 0 \in T
    BY <1>4
<1>7. \A m \in 1 .. n : m - 1 \in T => m \in T
    <2> HIDE DEF Good
    <2> QED BY <1>5
<1>8. k \in T
    <2> HIDE DEF T
    <2> QED BY <1>6, <1>7, UpTo
<1> QED BY <1>8 DEF a, Collected

\* The candidates are the ready pods, or all of them when none is ready, each
\* once; there is none only when no pod is listed.
LEMMA CandidatesAre ==
    ASSUME NEW n \in Nat, NEW S, NEW l \in [1 .. n -> S], Distinct(l), NEW r
    PROVE  /\ \E m \in Nat : Candidates(l, r) \in [1 .. m -> S]
           /\ Distinct(Candidates(l, r))
           /\ Names(Candidates(l, r)) =
                IF \E p \in Names(l) : r[p] THEN { p \in Names(l) : r[p] } ELSE Names(l)
<1> DEFINE a == ReadyAmong(l, r)[n]
<1>1. Len(l) = n /\ DOMAIN l = 1 .. n
    OBVIOUS
<1>2. a \in Seq(S) /\ Distinct(a) /\ Names(a) = ReadyIn(l, r, n)
    <2>1. n \in 0 .. n
        OBVIOUS
    <2>2. Collected(ReadyAmong(l, r)[n], l, r, S, n)
        BY <2>1, ReadyCollected
    <2> QED BY <2>2 DEF Collected
<1>3. Names(a) = { p \in Names(l) : r[p] }
    BY <1>1, <1>2 DEF Names, ReadyIn
<1>4. Candidates(l, r) = IF a = << >> THEN l ELSE a
    BY <1>1 DEF Candidates
<1> HIDE DEF a
<1>5. a = << >> <=> Names(a) = {}
    BY <1>2 DEF Names
<1>6. Len(a) \in Nat /\ a \in [1 .. Len(a) -> S]
    BY <1>2
<1> QED BY <1>2, <1>3, <1>4, <1>5, <1>6

-----------------------------------------------------------------------------
(* The ring *)

\* A list of the numbers 1 .. n without repetition has them all.
LEMMA Onto ==
    ASSUME NEW n \in Nat, NEW f \in [1 .. n -> 1 .. n], Distinct(f)
    PROVE  \A k \in 1 .. n : \E i \in 1 .. n : f[i] = k
<1>1. IsFiniteSet(1 .. n)
    BY FS_Interval
<1>2. f \in Injection(1 .. n, 1 .. n)
    BY DEF Distinct, Injection, IsInjective
<1>3. f \in Surjection(1 .. n, 1 .. n)
    BY <1>1, <1>2, FS_Injection
<1> QED BY <1>3 DEF Surjection

\* The places of a list whose entry is at most the one at place i.
Below(s, n, i) == { j \in 1 .. n : s[j] <= s[i] }

LEMMA Rank ==
    ASSUME NEW n \in Nat, NEW s \in [1 .. n -> Nat], Distinct(s), NEW i \in 1 .. n
    PROVE  /\ Cardinality(Below(s, n, i)) \in 1 .. n
           /\ \A j \in 1 .. n :
                s[i] < s[j] => Cardinality(Below(s, n, i)) < Cardinality(Below(s, n, j))
<1>1. IsFiniteSet(1 .. n) /\ Cardinality(1 .. n) = n
    BY FS_Interval
<1>2. \A j \in 1 .. n : Below(s, n, j) \in SUBSET (1 .. n) /\ j \in Below(s, n, j)
    BY DEF Below
<1>3. \A j \in 1 .. n : /\ IsFiniteSet(Below(s, n, j))
                       /\ Cardinality(Below(s, n, j)) <= n
                       /\ Cardinality(Below(s, n, j)) \in Nat
    BY <1>1, <1>2, FS_Subset, FS_CardinalityType
<1>4. Cardinality(Below(s, n, i)) # 0
    BY <1>2, <1>3, FS_EmptySet
<1>5. ASSUME NEW j \in 1 .. n, s[i] < s[j]
      PROVE  Cardinality(Below(s, n, i)) < Cardinality(Below(s, n, j))
    <2>1. Below(s, n, i) \in SUBSET Below(s, n, j) /\ j \notin Below(s, n, i)
        BY <1>5 DEF Below
    <2>2. Below(s, n, i) # Below(s, n, j)
        BY <1>2, <2>1
    <2>3. /\ Cardinality(Below(s, n, i)) <= Cardinality(Below(s, n, j))
          /\ Cardinality(Below(s, n, j)) # Cardinality(Below(s, n, i))
        BY <1>3, <2>1, <2>2, FS_Subset
    <2> QED BY <1>3, <2>3
<1> QED BY <1>3, <1>4, <1>5

\* A list of numbers without repetition can be sorted.
LEMMA SortExists ==
    ASSUME NEW n \in Nat, NEW s \in [1 .. n -> Nat], Distinct(s)
    PROVE  \E o \in Listings(1 .. n) : \A i, j \in DOMAIN o : i < j => s[o[i]] <= s[o[j]]
<1> DEFINE rank == [i \in 1 .. n |-> Cardinality(Below(s, n, i))]
<1>1. /\ rank \in [1 .. n -> 1 .. n]
      /\ \A i, j \in 1 .. n : s[i] < s[j] => rank[i] < rank[j]
    BY Rank
<1> HIDE DEF rank
<1>2. Distinct(rank)
    <2> SUFFICES ASSUME NEW i \in 1 .. n, NEW j \in 1 .. n, rank[i] = rank[j] PROVE i = j
        BY <1>1 DEF Distinct
    <2>1. ~(s[i] < s[j]) /\ ~(s[j] < s[i])
        <3>1. s[i] < s[j] => rank[i] < rank[j]
            BY <1>1, Zenon
        <3>2. s[j] < s[i] => rank[j] < rank[i]
            BY <1>1, Zenon
        <3>3. rank[i] \in Int /\ rank[j] \in Int
            BY <1>1
        <3> QED BY <3>1, <3>2, <3>3
    <2>2. s[i] = s[j]
        BY <2>1
    <2> QED BY <2>2 DEF Distinct
<1> DEFINE o == [k \in 1 .. n |-> CHOOSE i \in 1 .. n : rank[i] = k]
<1>3. \A k \in 1 .. n : o[k] \in 1 .. n /\ rank[o[k]] = k
    BY <1>1, <1>2, Onto
<1>4. o \in [1 .. n -> 1 .. n]
    BY <1>3
<1> HIDE DEF o
<1>5. \A i, j \in 1 .. n : o[i] = o[j] => i = j
    BY <1>3
<1>6. o \in Listings(1 .. n)
    BY <1>4, <1>5, FS_Interval DEF Listings
<1>7. \A i, j \in DOMAIN o : i < j => s[o[i]] <= s[o[j]]
    <2> SUFFICES ASSUME NEW i \in 1 .. n, NEW j \in 1 .. n, i < j PROVE s[o[i]] <= s[o[j]]
        BY <1>4
    <2>1. ~(s[o[j]] < s[o[i]])
        <3>1. /\ o[i] \in 1 .. n /\ rank[o[i]] = i
              /\ o[j] \in 1 .. n /\ rank[o[j]] = j
            BY ZenonT(30), <1>3
        <3>2. s[o[j]] < s[o[i]] => rank[o[j]] < rank[o[i]]
            BY ZenonT(30), <1>1, <3>1
        <3>3. ~(j < i)
            OBVIOUS
        <3> QED BY ZenonT(30), <3>1, <3>2, <3>3
    <2> QED BY <1>4, <2>1
<1> QED BY <1>6, <1>7

\* Pods in increasing order, each once.
IsSorted(u, n) == /\ u \in [1 .. n -> Nat]
                  /\ \A i, j \in 1 .. n : i < j => u[i] < u[j]

\* A list of pods as the controller gets it.
IsListing(l, n) == l \in [1 .. n -> Pods] /\ Distinct(l)

\* Every list of pods without repetition is the list of some set of pods.
LEMMA ListsAreListings ==
    ASSUME NEW n \in Nat, NEW l, IsListing(l, n)
    PROVE  l \in AllListings
<1> DEFINE S == Names(l)
<1>1. S \in SUBSET Pods
    BY DEF IsListing, Names
<1>2. l \in [1 .. n -> S] /\ \A t \in S : \E i \in 1 .. n : l[i] = t
    BY DEF IsListing, Names
<1> HIDE DEF S
<1>3. l \in Bijection(1 .. n, S)
    BY <1>2 DEF IsListing, Distinct, Bijection, Injection, Surjection, IsInjective
<1>4. Cardinality(S) = n
    BY <1>3, FS_CountingElements DEF ExistsBijection
<1>5. l \in Listings(S)
    BY <1>2, <1>4 DEF Listings, IsListing, Distinct
<1> QED BY <1>1, <1>5 DEF AllListings

\* A list the API returns is one without repetition.
LEMMA ListingsAreLists ==
    ASSUME NEW l \in AllListings
    PROVE  \E n \in Nat : IsListing(l, n)
<1>1. PICK S \in SUBSET Pods : l \in Listings(S)
    BY DEF AllListings
<1>2. Cardinality(S) \in Nat
    BY ShardMapAssumption, FS_Subset, FS_CardinalityType
<1>3. IsListing(l, Cardinality(S))
    BY <1>1 DEF Listings, IsListing, Distinct
<1> QED BY <1>2, <1>3

\* The pods of a ring are those of the list, in increasing order.
LEMMA RingSorts ==
    ASSUME NEW n \in Nat, NEW s, IsListing(s, n)
    PROVE  IsSorted(NewRing(s), n) /\ Names(NewRing(s)) = Names(s)
<1> DEFINE Perms == { [i \in 1 .. n |-> s[o[i]]] : o \in Listings(1 .. n) }
           Increasing(u) == \A i, j \in 1 .. n : i < j => u[i] <= u[j]
<1>1. s \in [1 .. n -> Nat] /\ Distinct(s)
    BY ShardMapAssumption DEF IsListing
<1>2. \E u \in Perms : Increasing(u)
    <2>1. PICK q \in Listings(1 .. n) : \A i, j \in DOMAIN q : i < j => s[q[i]] <= s[q[j]]
        BY <1>1, SortExists
    <2>2. DOMAIN q = 1 .. n
        BY FS_Interval DEF Listings
    <2>3. Increasing([i \in 1 .. n |-> s[q[i]]])
        BY <2>1, <2>2
    <2>4. [i \in 1 .. n |-> s[q[i]]] \in Perms
        OBVIOUS
    <2> HIDE DEF Perms, Increasing
    <2> QED BY <2>3, <2>4
<1>3. NewRing(s) = CHOOSE u \in Perms : Increasing(u)
    <2>1. s \in AllListings /\ DOMAIN s = 1 .. n
        BY <1>1, ListsAreListings
    <2> DEFINE Choice(D) == CHOOSE ring \in { [i \in D |-> s[order[i]]] : order \in Listings(D) } :
                                \A i, j \in D : i < j => ring[i] <= ring[j]
    <2>2. NewRing(s) = Choice(DOMAIN s)
        BY <2>1, Zenon DEF NewRing, Sorted
    <2>3. Choice(DOMAIN s) = Choice(1 .. n)
        <3> HIDE DEF Choice
        <3> QED BY <2>1
    <2> QED BY <2>2, <2>3, Zenon
<1>4. NewRing(s) \in Perms /\ Increasing(NewRing(s))
    <2> HIDE DEF Perms, Increasing
    <2> QED BY <1>2, <1>3
<1>5. PICK o \in Listings(1 .. n) : NewRing(s) = [i \in 1 .. n |-> s[o[i]]]
    BY <1>4
<1>6. o \in [1 .. n -> 1 .. n] /\ Distinct(o)
    <2>1. Cardinality(1 .. n) = n
        BY FS_Interval
    <2> QED BY <2>1 DEF Listings, Distinct
<1> DEFINE u == NewRing(s)
<1>7. DOMAIN u = 1 .. n /\ \A i \in 1 .. n : u[i] = s[o[i]] /\ o[i] \in 1 .. n
    BY <1>5, <1>6
<1>8. \A i, j \in 1 .. n : i < j => u[i] <= u[j]
    BY <1>4
<1> HIDE DEF u, Perms, Increasing
<1>9. Names(u) = Names(s)
    <2>1. Names(u) \subseteq Names(s)
        BY <1>1, <1>7 DEF Names
    <2>2. ASSUME NEW k \in 1 .. n PROVE s[k] \in Names(u)
        <3>1. PICK i \in 1 .. n : o[i] = k
            BY <1>6, Onto
        <3> QED BY <1>7, <3>1 DEF Names
    <2>3. Names(s) \subseteq Names(u)
        BY <1>1, <2>2 DEF Names
    <2> QED BY <2>1, <2>3
<1>10. \A i, j \in 1 .. n : i < j => u[i] < u[j]
    <2> SUFFICES ASSUME NEW i \in 1 .. n, NEW j \in 1 .. n, i < j PROVE u[i] < u[j]
        OBVIOUS
    <2>1. o[i] # o[j]
        BY <1>6 DEF Distinct
    <2>2. s[o[i]] # s[o[j]]
        BY <1>1, <1>6, <2>1 DEF Distinct
    <2>3. u[i] \in Nat /\ u[j] \in Nat /\ u[i] # u[j]
        BY <1>1, <1>7, <2>2
    <2> QED BY <1>8, <2>3
<1>11. u \in [1 .. n -> Nat]
    BY <1>1, <1>5, <1>7 DEF u
<1> QED BY <1>9, <1>10, <1>11 DEF IsSorted, u

\* There is only one increasing list of the members of a set: entry k is the
\* one with k members up to it.
LEMMA SortedOnce ==
    ASSUME NEW n \in Nat, NEW u, IsSorted(u, n), NEW k \in 1 .. n
    PROVE  Cardinality({ y \in Names(u) : y <= u[k] }) = k
<1> DEFINE S == { y \in Names(u) : y <= u[k] }
           g == [i \in 1 .. k |-> u[i]]
<1>1. \A i \in 1 .. n : u[i] \in Nat /\ (u[i] <= u[k] <=> i <= k)
    BY DEF IsSorted
<1>2. g \in [1 .. k -> S] /\ \A t \in S : \E i \in 1 .. k : g[i] = t
    BY <1>1 DEF Names, IsSorted
<1>3. \A i, j \in 1 .. k : g[i] = g[j] => i = j
    <2> SUFFICES ASSUME NEW i \in 1 .. k, NEW j \in 1 .. k, u[i] = u[j] PROVE i = j
        OBVIOUS
    <2>1. ~(i < j) /\ ~(j < i)
        BY <1>1 DEF IsSorted
    <2> QED BY <2>1
<1> HIDE DEF S, g
<1>4. g \in Bijection(1 .. k, S)
    BY <1>2, <1>3 DEF Bijection, Injection, Surjection, IsInjective
<1>5. Cardinality(S) = k
    BY <1>4, FS_CountingElements DEF ExistsBijection
<1> QED BY <1>5 DEF S

LEMMA SameRing ==
    ASSUME NEW m \in Nat, NEW n \in Nat, NEW u, NEW v, IsSorted(u, m), IsSorted(v, n),
           Names(u) = Names(v)
    PROVE  m = n /\ u = v
<1>1. ASSUME NEW p \in Nat, NEW w, IsSorted(w, p)
      PROVE  Cardinality(Names(w)) = p
    <2>1. w \in [1 .. p -> Names(w)] /\ \A t \in Names(w) : \E i \in 1 .. p : w[i] = t
        BY <1>1 DEF IsSorted, Names
    <2>2. \A i, j \in 1 .. p : w[i] = w[j] => i = j
        <3> SUFFICES ASSUME NEW i \in 1 .. p, NEW j \in 1 .. p, w[i] = w[j] PROVE i = j
            OBVIOUS
        <3>1. ~(i < j) /\ ~(j < i)
            BY <1>1 DEF IsSorted
        <3> QED BY <3>1
    <2>3. w \in Bijection(1 .. p, Names(w))
        BY <2>1, <2>2 DEF Bijection, Injection, Surjection, IsInjective
    <2> QED BY <2>3, FS_CountingElements DEF ExistsBijection
<1>2. m = n
    BY <1>1
<1>3. ASSUME NEW k \in 1 .. n PROVE u[k] = v[k]
    <2> DEFINE C(y) == Cardinality({ x \in Names(v) : x <= y })
    <2>1. \A j \in 1 .. n : C(v[j]) = j
        BY SortedOnce
    <2>2. C(u[k]) = k
        BY <1>2, SortedOnce
    <2>3. PICK j \in 1 .. n : u[k] = v[j]
        BY <1>2 DEF IsSorted, Names
    <2> HIDE DEF C
    <2>4. j = k
        BY <2>1, <2>2, <2>3
    <2> QED BY <2>3, <2>4
<1> QED BY <1>2, <1>3 DEF IsSorted

-----------------------------------------------------------------------------
(* The shard map *)

\* The ring of a list is the increasing list of the candidates, and it is empty
\* only when no pod is listed.
LEMMA RingOf ==
    ASSUME NEW n \in Nat, NEW l, IsListing(l, n), NEW r
    PROVE  \E m \in Nat :
              /\ IsSorted(NewRing(Candidates(l, r)), m)
              /\ Names(NewRing(Candidates(l, r))) = Names(Candidates(l, r))
              /\ m = 0 <=> n = 0
<1> DEFINE c == Candidates(l, r)
<1>1. l \in [1 .. n -> Pods] /\ Distinct(l)
    BY DEF IsListing
<1>2. /\ \E m \in Nat : c \in [1 .. m -> Pods]
      /\ Distinct(c)
      /\ Names(c) = IF \E p \in Names(l) : r[p] THEN { p \in Names(l) : r[p] } ELSE Names(l)
    BY <1>1, CandidatesAre
<1> HIDE DEF c
<1>3. PICK m \in Nat : c \in [1 .. m -> Pods]
    BY <1>2
<1>4. IsListing(c, m)
    BY <1>2, <1>3 DEF IsListing
<1>5. IsSorted(NewRing(c), m) /\ Names(NewRing(c)) = Names(c)
    BY <1>4, RingSorts
<1>6. Names(c) = {} <=> Names(l) = {}
    BY <1>2
<1>7. ASSUME NEW p \in Nat, NEW s \in [1 .. p -> Pods]
      PROVE  Names(s) = {} <=> p = 0
    <2>1. CASE p = 0
        BY <2>1 DEF Names
    <2>2. CASE p # 0
        <3>1. 1 \in DOMAIN s
            BY <2>2
        <3> QED BY <2>2, <3>1 DEF Names
    <2> QED BY <2>1, <2>2
<1> QED BY <1>1, <1>3, <1>5, <1>6, <1>7 DEF c

\* Who owns a shard: nobody when no pod is listed, a candidate otherwise.
LEMMA OwnerOf ==
    ASSUME NEW n \in Nat, NEW l, IsListing(l, n), NEW r,
           NEW k \in 1 .. MaxShards, NEW i \in 0 .. k - 1
    PROVE  /\ n = 0 => computeShardMap(l, r, k)[i] = NoOwner
           /\ n # 0 => computeShardMap(l, r, k)[i] \in Names(Candidates(l, r))
<1> DEFINE u == NewRing(Candidates(l, r))
<1>1. computeShardMap(l, r, k)[i] = Pick(u, i)
    BY DEF computeShardMap
<1>2. PICK m \in Nat : IsSorted(u, m) /\ Names(u) = Names(Candidates(l, r)) /\ (m = 0 <=> n = 0)
    BY RingOf
<1> HIDE DEF u
<1>3. Len(u) = m /\ DOMAIN u = 1 .. m
    BY <1>2 DEF IsSorted
<1>4. CASE n = 0
    BY <1>1, <1>2, <1>3, <1>4 DEF Pick, Empty
<1>5. CASE n # 0
    <2>1. ShardHash[i] \in Nat
        BY ShardMapAssumption
    <2>2. (ShardHash[i] % m) + 1 \in 1 .. m
        BY <1>2, <1>5, <2>1
    <2>3. Pick(u, i) = u[(ShardHash[i] % m) + 1]
        BY <1>2, <1>3, <1>5 DEF Pick, Empty
    <2>4. Pick(u, i) \in Names(u)
        BY <1>3, <2>2, <2>3 DEF Names
    <2> QED BY <1>1, <1>2, <1>5, <2>4
<1> QED BY <1>4, <1>5

\* Two lists of the same pods have the same map.
LEMMA SameMap ==
    ASSUME NEW n \in Nat, NEW l, IsListing(l, n), NEW m \in Nat, NEW h, IsListing(h, m),
           Names(l) = Names(h), NEW r, NEW k
    PROVE  computeShardMap(l, r, k) = computeShardMap(h, r, k)
<1> DEFINE u == NewRing(Candidates(l, r))
           v == NewRing(Candidates(h, r))
<1>1. Names(Candidates(l, r)) = Names(Candidates(h, r))
    <2> DEFINE Owning(N) == IF \E p \in N : r[p] THEN { p \in N : r[p] } ELSE N
    <2>1. l \in [1 .. n -> Pods] /\ Distinct(l) /\ h \in [1 .. m -> Pods] /\ Distinct(h)
        BY ZenonT(30) DEF IsListing
    <2>2. Names(Candidates(l, r)) = Owning(Names(l))
        BY ZenonT(30), <2>1, CandidatesAre
    <2>3. Names(Candidates(h, r)) = Owning(Names(h))
        BY ZenonT(30), <2>1, CandidatesAre
    <2> HIDE DEF Owning
    <2> QED BY ZenonT(30), <2>2, <2>3
<1>2. PICK p \in Nat : IsSorted(u, p) /\ Names(u) = Names(Candidates(l, r))
    BY RingOf
<1>3. PICK q \in Nat : IsSorted(v, q) /\ Names(v) = Names(Candidates(h, r))
    BY RingOf
<1> HIDE DEF u, v
<1>4. u = v
    BY <1>1, <1>2, <1>3, SameRing
<1> QED BY <1>4 DEF u, v, computeShardMap

\* A shard is without an owner only if no pod is listed, and it is a ready pod's
\* if one is ready.
LEMMA MapServes ==
    ASSUME NEW n \in Nat, NEW l, IsListing(l, n), NEW r,
           NEW k \in 1 .. MaxShards, NEW i \in 0 .. k - 1
    PROVE  /\ computeShardMap(l, r, k)[i] = NoOwner <=> Names(l) = {}
           /\ { p \in Names(l) : r[p] } # {} =>
                  computeShardMap(l, r, k)[i] \in { p \in Names(l) : r[p] }
<1> DEFINE o == computeShardMap(l, r, k)[i]
           N == Names(l)
           serving == { p \in N : r[p] }
<1>1. Names(Candidates(l, r)) = IF \E p \in N : r[p] THEN serving ELSE N
    BY CandidatesAre DEF IsListing
<1>2. /\ n = 0 => o = NoOwner
      /\ n # 0 => o \in Names(Candidates(l, r))
    BY OwnerOf
<1>3. n = 0 <=> N = {}
    BY DEF IsListing, Names
<1>4. NoOwner \notin N
    BY ShardMapAssumption DEF IsListing, Names, NoOwner
<1> HIDE DEF o, N
<1>5. o = NoOwner <=> N = {}
    BY <1>1, <1>2, <1>3, <1>4
<1>6. serving # {} => o \in serving
    BY <1>1, <1>2, <1>3
<1> QED BY <1>5, <1>6 DEF o, N

\* What the operator computes for some pods is one of its maps.
LEMMA ComputedIsOperators ==
    ASSUME NEW S \in SUBSET Pods, NEW isReady \in [Pods -> BOOLEAN], NEW n \in 1 .. MaxShards
    PROVE  computeShardMap(Listing(S), isReady, n) \in OperatorMaps
BY DEF OperatorMaps

\* Every set of pods has a list.
LEMMA ListingOf ==
    ASSUME NEW S \in SUBSET Pods
    PROVE  /\ Cardinality(S) \in Nat
           /\ IsListing(Listing(S), Cardinality(S))
           /\ Names(Listing(S)) = S
<1> DEFINE n == Cardinality(S)
<1>0. IsFiniteSet(S)
    BY ShardMapAssumption, FS_Subset
<1>1. n \in Nat /\ ExistsBijection(1 .. n, S)
    BY <1>0, FS_CardinalityType
<1>2. PICK b : b \in Bijection(1 .. n, S)
    BY <1>1 DEF ExistsBijection
<1> HIDE DEF n
<1>3. b \in [1 .. n -> S] /\ \A i, j \in 1 .. n : b[i] = b[j] => i = j
    BY <1>2 DEF Bijection, Injection, IsInjective
<1>4. Listing(S) \in Listings(S)
    <2>1. b \in Listings(S)
        BY <1>3 DEF Listings, n
    <2> QED BY <2>1 DEF Listing
<1>5. /\ Listing(S) \in [1 .. n -> S]
      /\ \A i, j \in 1 .. n : Listing(S)[i] = Listing(S)[j] => i = j
    BY <1>4 DEF Listings, n
<1>6. Names(Listing(S)) = S
    <2>1. Listing(S) \in Injection(1 .. n, S)
        BY <1>5 DEF Injection, IsInjective
    <2>2. IsFiniteSet(1 .. n) /\ Cardinality(1 .. n) = n
        BY <1>1, FS_Interval
    <2>3. Listing(S) \in Surjection(1 .. n, S)
        BY <1>0, <2>1, <2>2, FS_Injection DEF n
    <2> QED BY <1>5, <2>3 DEF Names, Surjection
<1> QED BY <1>1, <1>5, <1>6 DEF IsListing, Distinct, n
=============================================================================
