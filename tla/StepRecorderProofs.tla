-------------------------- MODULE StepRecorderProofs --------------------------
(***************************************************************************)
(* Theorems about StepRecorder for every set of situations, length of the  *)
(* list, window, retention and database left behind: its type invariant,   *)
(* that events are whole and end, that the events served are those a       *)
(* restart would serve, and that the history served is what the sensors    *)
(* said.                                                                   *)
(***************************************************************************)
EXTENDS StepRecorder, FiniteSetTheorems, SequenceTheorems, NaturalsInduction, TLAPS

(***************************************************************************)
(* Rows in the order of a key.                                             *)
(***************************************************************************)

\* A set of numbers that is not empty has a smallest one.
LEMMA LeastNumber ==
    ASSUME NEW T \in SUBSET Nat, T # {}
    PROVE  \E x \in T : \A y \in T : x <= y
  <1> DEFINE R == OpToRel(<, Nat)
  <1>1. IsWellFoundedOn(R, Nat)
    BY NatLessThanWellFounded
  <1>2. \A x, y \in Nat : y < x => <<y, x>> \in R
    BY DEF OpToRel
  <1> HIDE DEF R
  <1>3. PICK x \in T : \A y \in T : ~ (<<y, x>> \in R)
    BY <1>1, WFMin
  <1>4. \A y \in T : ~ (y < x)
    BY <1>2, <1>3
  <1> QED BY <1>4

\* A list of the members of S, each once, by increasing key.
IsListing(list, S, key) ==
    /\ list \in [1..Cardinality(S) -> S]
    /\ \A i, j \in 1..Cardinality(S) : i < j => key[list[i]] < key[list[j]]

IsKey(key, S) == key \in [S -> Int] /\ \A x, y \in S : key[x] = key[y] => x = y

\* A finite set has such a list: an element's place is one more than the number
\* of those below it.
LEMMA ListingExists ==
    ASSUME NEW S, IsFiniteSet(S), NEW key, IsKey(key, S)
    PROVE  \E list : IsListing(list, S, key)
  <1> DEFINE n == Cardinality(S)
             Below(x) == {y \in S : key[y] < key[x]}
             place == [x \in S |-> Cardinality(Below(x)) + 1]
  <1>0. n \in Nat
    BY FS_CardinalityType
  <1>1. \A x \in S : IsFiniteSet(Below(x)) /\ Cardinality(Below(x)) \in Nat
    BY FS_Subset, FS_CardinalityType
  <1>2. ASSUME NEW x \in S
        PROVE  place[x] \in 1..n
    <2>1. Below(x) \in SUBSET (S \ {x})
      BY DEF IsKey
    <2>2. IsFiniteSet(S \ {x}) /\ Cardinality(S \ {x}) = n - 1
      BY FS_RemoveElement
    <2> DEFINE B == Below(x)
               R == S \ {x}
    <2>3. Cardinality(B) <= Cardinality(R)
      <3>1. B \in SUBSET R /\ IsFiniteSet(R)
        BY <2>1, <2>2
      <3> HIDE DEF B, R
      <3> QED BY <3>1, FS_Subset
    <2> QED BY <2>2, <2>3, <1>0, <1>1
  <1>3. ASSUME NEW x \in S, NEW y \in S, key[x] < key[y]
        PROVE  place[x] < place[y]
    <2>1. Below(x) \in SUBSET (Below(y) \ {x}) /\ x \in Below(y)
      BY <1>3 DEF IsKey
    <2>2. /\ IsFiniteSet(Below(y) \ {x})
          /\ Cardinality(Below(y) \ {x}) = Cardinality(Below(y)) - 1
      <3> HIDE DEF Below
      <3> QED BY <2>1, <1>1, FS_RemoveElement
    <2> DEFINE B == Below(x)
               R == Below(y) \ {x}
    <2>3. Cardinality(B) <= Cardinality(R)
      <3>1. B \in SUBSET R /\ IsFiniteSet(R)
        BY <2>1, <2>2
      <3> HIDE DEF B, R
      <3> QED BY <3>1, FS_Subset
    <2>4. place[x] = Cardinality(Below(x)) + 1 /\ place[y] = Cardinality(Below(y)) + 1
      OBVIOUS
    <2> HIDE DEF Below, place
    <2> QED BY <2>2, <2>3, <2>4, <1>1
  <1>4. place \in [S -> 1..n]
    BY <1>2
  <1>5. \A x, y \in S : place[x] = place[y] => x = y
    <2> SUFFICES ASSUME NEW x \in S, NEW y \in S, place[x] = place[y], x # y
                 PROVE  FALSE
      OBVIOUS
    <2>1. key[x] \in Int /\ key[y] \in Int /\ key[x] # key[y]
      BY DEF IsKey
    <2>2. place[x] \in Int /\ place[y] \in Int
      BY <1>2
    <2>3. key[x] < key[y] \/ key[y] < key[x]
      BY <2>1
    <2> HIDE DEF place
    <2> QED BY <2>2, <2>3, <1>3
  <1> HIDE DEF place
  <1>6. IsFiniteSet(1..n) /\ Cardinality(1..n) = n
    BY <1>0, FS_Interval
  <1>7. place \in Injection(S, 1..n)
    BY <1>4, <1>5 DEF Injection, IsInjective
  <1>8. place \in Surjection(S, 1..n)
    BY <1>6, <1>7, FS_Injection
  <1>9. \A i \in 1..n : \E x \in S : place[x] = i
    BY <1>8 DEF Surjection
  <1> DEFINE list == [i \in 1..n |-> CHOOSE x \in S : place[x] = i]
  <1>10. \A i \in 1..n : list[i] \in S /\ place[list[i]] = i
    BY <1>9
  <1>11. list \in [1..n -> S]
    BY <1>10
  <1> HIDE DEF list
  <1>12. ASSUME NEW i \in 1..n, NEW j \in 1..n, i < j
         PROVE  key[list[i]] < key[list[j]]
    <2>1. list[i] \in S /\ list[j] \in S /\ place[list[i]] < place[list[j]]
      BY <1>10, <1>12
    <2>2. key[list[i]] \in Int /\ key[list[j]] \in Int
      BY <2>1 DEF IsKey
    <2>3. key[list[i]] # key[list[j]]
      BY <2>1, <1>0, <1>10, <1>12 DEF IsKey
    <2>4. ~(key[list[j]] < key[list[i]])
      <3> SUFFICES ASSUME key[list[j]] < key[list[i]] PROVE FALSE
        OBVIOUS
      <3>1. place[list[j]] < place[list[i]]
        BY <2>1, <1>3
      <3> QED BY <3>1, <2>1, <1>4
    <2> QED BY <2>2, <2>3, <2>4
  <1> QED BY <1>11, <1>12 DEF IsListing

\* A listing leaves nobody out.
LEMMA ListingIsOnto ==
    ASSUME NEW S, IsFiniteSet(S), NEW key, IsKey(key, S),
           NEW list, IsListing(list, S, key)
    PROVE  \A x \in S : \E i \in 1..Cardinality(S) : list[i] = x
  <1> DEFINE n == Cardinality(S)
  <1>0. n \in Nat
    BY FS_CardinalityType
  <1>1. IsFiniteSet(1..n) /\ Cardinality(1..n) = n
    BY <1>0, FS_Interval
  <1>2. \A i, j \in 1..n : list[i] = list[j] => i = j
    <2> SUFFICES ASSUME NEW i \in 1..n, NEW j \in 1..n, list[i] = list[j], i < j
                 PROVE  FALSE
      BY <1>0
    <2>1. key[list[i]] < key[list[j]] /\ key[list[i]] \in Int
      BY DEF IsListing, IsKey
    <2> QED BY <2>1
  <1>3. list \in Injection(1..n, S)
    BY <1>2 DEF IsListing, Injection, IsInjective
  <1>4. list \in Surjection(1..n, S)
    BY <1>1, <1>3, FS_Injection
  <1> QED BY <1>4 DEF Surjection

\* There is one listing only: look at the first place where two differ.
LEMMA ListingIsUnique ==
    ASSUME NEW S, IsFiniteSet(S), NEW key, IsKey(key, S),
           NEW f, IsListing(f, S, key), NEW g, IsListing(g, S, key)
    PROVE  f = g
  <1> DEFINE n == Cardinality(S)
  <1>0. n \in Nat
    BY FS_CardinalityType
  <1>1. f \in [1..n -> S] /\ g \in [1..n -> S]
    BY DEF IsListing
  <1> SUFFICES ASSUME f # g
               PROVE  FALSE
    OBVIOUS
  <1> DEFINE D == {i \in 1..n : f[i] # g[i]}
  <1>2. D \in SUBSET Nat /\ D # {}
    <2>1. \E i \in 1..n : f[i] # g[i]
      <3> SUFFICES ASSUME \A i \in 1..n : f[i] = g[i] PROVE f = g
        OBVIOUS
      <3>1. f = [i \in 1..n |-> f[i]] /\ g = [i \in 1..n |-> g[i]]
        BY <1>1
      <3> HIDE DEF n
      <3> QED BY <3>1, Zenon
    <2> QED BY <2>1, <1>0
  <1>3. PICK i \in D : \A j \in D : i <= j
    <2> HIDE DEF D
    <2> QED BY <1>2, LeastNumber
  <1>4. i \in 1..n /\ f[i] # g[i] /\ \A j \in 1..n : j < i => f[j] = g[j]
    BY <1>3
  <1>5. ASSUME NEW a, IsListing(a, S, key), NEW b, IsListing(b, S, key),
               a[i] # b[i], \A j \in 1..n : j < i => a[j] = b[j]
        PROVE  ~(key[a[i]] < key[b[i]])
    <2> SUFFICES ASSUME key[a[i]] < key[b[i]] PROVE FALSE
      OBVIOUS
    <2>0. a[i] \in S /\ b[i] \in S /\ \A j \in 1..n : a[j] \in S /\ b[j] \in S
      BY <1>4, <1>5 DEF IsListing
    <2>1. PICK j \in 1..n : b[j] = a[i]
      BY <2>0, <1>5, ListingIsOnto
    <2>2. CASE j < i
      <3>1. a[j] = a[i]
        BY <2>1, <2>2, <1>5
      <3>2. key[a[j]] < key[a[i]]
        BY <2>2, <1>4, <1>5 DEF IsListing
      <3> QED BY <3>1, <3>2, <2>0 DEF IsKey
    <2>3. CASE j = i
      BY <2>1, <2>3, <1>5
    <2>4. CASE i < j
      <3>1. key[b[i]] < key[b[j]]
        BY <2>4, <1>4, <1>5 DEF IsListing
      <3>2. key[a[i]] \in Int /\ key[b[i]] \in Int
        BY <2>0 DEF IsKey
      <3> QED BY <3>1, <3>2, <2>1
    <2> QED BY <2>2, <2>3, <2>4, <1>0, <1>4
  <1>6. key[f[i]] \in Int /\ key[g[i]] \in Int /\ key[f[i]] # key[g[i]]
    BY <1>1, <1>4 DEF IsKey
  <1>7. ~(key[f[i]] < key[g[i]]) /\ ~(key[g[i]] < key[f[i]])
    BY <1>4, <1>5
  <1> QED BY <1>6, <1>7

(***************************************************************************)
(* The constants, and what the helpers of the model return.                *)
(***************************************************************************)

LEMMA RecorderConstants ==
    /\ PerMinute \in Nat \ {0} /\ PerHour \in Nat \ {0} /\ MaxHours \in Nat \ {0}
    /\ Retention \in Nat
    /\ Threshold \in Nat \ {0} /\ Observe \in Nat \ {0} /\ MaxStepEvents \in Nat \ {0}
    /\ StartTime \in Nat /\ MaxUnits \in Nat /\ MaxMishaps \in Nat
    /\ MaxTime \in Nat /\ StartTime + MaxUnits = MaxTime
    /\ FlushTimes \subseteq Nat /\ SetBackTo \subseteq Nat
    /\ SENSORS \in Seq(Polled) /\ Len(SENSORS) \in Nat
    /\ {"Flow", "Return", "SystemStatus", "HpStatus", "BrinePump"} \subseteq Polled
    /\ Situations # {} /\ Situations \subseteq [Polled -> Int]
  <1>1. PerMinute \in Nat \ {0} /\ PerHour \in Nat \ {0} /\ MaxHours \in Nat \ {0}
    BY SeriesAssumption
  <1>2. /\ Threshold \in Nat \ {0} /\ Observe \in Nat \ {0} /\ MaxStepEvents \in Nat \ {0}
        /\ StartTime \in Nat /\ MaxUnits \in Nat /\ MaxMishaps \in Nat
        /\ FlushTimes \subseteq Nat /\ SetBackTo \subseteq Nat
    BY RecorderAssumption
  <1>3. SENSORS \in Seq(Polled) /\ Len(SENSORS) \in Nat
    BY RecorderAssumption, SeqOfRange, LenProperties DEF Polled
  <1>4. Retention \in Nat
    BY <1>1 DEF Retention
  <1>5. MaxTime \in Nat /\ StartTime + MaxUnits = MaxTime
    BY <1>2 DEF MaxTime
  <1>6. /\ {"Flow", "Return", "SystemStatus", "HpStatus", "BrinePump"} \subseteq Polled
        /\ Situations # {} /\ Situations \subseteq [Polled -> Int]
    BY RecorderAssumption DEF ActivitySensors
  <1> QED BY <1>1, <1>2, <1>3, <1>4, <1>5, <1>6

\* The table of events of the database that is opened.
LEMMA EventsLeftBehind ==
    /\ LeftBehind.events \subseteq StepEvents
    /\ HasKeys(LeftBehind.events) /\ IsFiniteSet(LeftBehind.events)
    /\ Cardinality(LeftBehind.events) <= MaxStepEvents
    /\ \A e \in LeftBehind.events : IsWhole(e) /\ e.at < StartTime
  BY RecorderAssumption

\* Its tables of means.
LEMMA MeansLeftBehind ==
    ASSUME NEW s \in Polled
    PROVE  /\ LeftBehind.means \in [Polled -> SUBSET Samples]
           /\ LeftBehind.means[s] \subseteq Samples
           /\ HasKeys(LeftBehind.means[s]) /\ IsFiniteSet(LeftBehind.means[s])
           /\ \A row \in LeftBehind.means[s] : row.at < StartTime
  <1>1. LeftBehind.means \in [Polled -> SUBSET Samples]
    BY RecorderAssumption
  <1>2. LeftBehind.means[s] \in Range(LeftBehind.means)
    BY <1>1 DEF Range
  <1> QED BY <1>1, <1>2, RecorderAssumption

\* A whole minute is no later than its seconds.
LEMMA MinuteBounds ==
    ASSUME NEW t \in Nat
    PROVE  MinuteOf(t) \in 0..t /\ t < MinuteOf(t) + PerMinute
  BY RecorderConstants DEF MinuteOf

\* A function from the first places is a sequence.
LEMMA ListIsSeq ==
    ASSUME NEW S, NEW n \in Nat, NEW list \in [1..n -> S]
    PROVE  list \in Seq(S) /\ Len(list) = n /\ DOMAIN list = 1..n
  OBVIOUS

\* The rows of a keyed table in the order of their keys, and against it.
LEMMA KeysAreKeys ==
    ASSUME NEW table, HasKeys(table), \A row \in table : row.at \in Int
    PROVE  /\ IsKey([row \in table |-> row.at], table)
           /\ IsKey([row \in table |-> 0 - row.at], table)
  BY DEF IsKey, HasKeys

\* The newest first: such a list exists, and is the only one.
LEMMA NewestFirstLists ==
    ASSUME NEW S, IsFiniteSet(S), HasKeys(S), \A e \in S : e.at \in Int
    PROVE  /\ NewestFirst(S) \in [1..Cardinality(S) -> S]
           /\ \A i, j \in 1..Cardinality(S) : i < j => NewestFirst(S)[i].at > NewestFirst(S)[j].at
           /\ \A x \in S : \E i \in 1..Cardinality(S) : NewestFirst(S)[i] = x
           /\ \A list \in [1..Cardinality(S) -> S] :
                 (\A i, j \in 1..Cardinality(S) : i < j => list[i].at > list[j].at)
                 => list = NewestFirst(S)
  <1> DEFINE key == [e \in S |-> 0 - e.at]
             n == Cardinality(S)
             Descends(list) == \A i, j \in DOMAIN list : i < j => list[i].at > list[j].at
  <1>1. IsKey(key, S)
    BY KeysAreKeys
  <1>2. ASSUME NEW list \in [1..n -> S]
        PROVE  Descends(list) <=> IsListing(list, S, key)
    <2>1. \A i \in 1..n : list[i] \in S /\ key[list[i]] = 0 - list[i].at /\ list[i].at \in Int
      OBVIOUS
    <2>2. \A i, j \in 1..n : list[i].at > list[j].at <=> key[list[i]] < key[list[j]]
      BY <2>1
    <2>3. DOMAIN list = 1..n
      OBVIOUS
    <2> HIDE DEF n, key
    <2> QED BY <2>2, <2>3 DEF IsListing, n
  <1>3. \E list \in [1..n -> S] : Descends(list)
    <2>1. PICK list : IsListing(list, S, key)
      BY <1>1, ListingExists
    <2>2. list \in [1..n -> S]
      BY <2>1 DEF IsListing
    <2> QED BY <2>1, <2>2, <1>2
  <1>4. NewestFirst(S) \in [1..n -> S] /\ Descends(NewestFirst(S))
    <2>1. NewestFirst(S) = CHOOSE list \in [1..n -> S] : Descends(list)
      BY DEF NewestFirst
    <2> HIDE DEF Descends, n
    <2> QED BY <1>3, <2>1
  <1>5. IsListing(NewestFirst(S), S, key)
    BY <1>2, <1>4
  <1>6. ASSUME NEW list \in [1..n -> S],
               \A i, j \in 1..n : i < j => list[i].at > list[j].at
        PROVE  list = NewestFirst(S)
    <2>1. Descends(list)
      BY <1>6
    <2>2. IsListing(list, S, key)
      BY <1>2, <2>1
    <2> HIDE DEF key
    <2> QED BY <2>2, <1>1, <1>5, ListingIsUnique
  <1>7. \A x \in S : \E i \in 1..n : NewestFirst(S)[i] = x
    <2> HIDE DEF key
    <2> QED BY <1>1, <1>5, ListingIsOnto
  <1>8. \A i, j \in 1..n : i < j => NewestFirst(S)[i].at > NewestFirst(S)[j].at
    BY <1>4
  <1> QED BY <1>4, <1>6, <1>7, <1>8

\* What is kept of a table is at most MaxStepEvents rows, and all of them when
\* it had no more.
LEMMA KeptRows ==
    ASSUME NEW S, IsFiniteSet(S), HasKeys(S), \A e \in S : e.at \in Int
    PROVE  /\ Kept(S) \subseteq S /\ IsFiniteSet(Kept(S)) /\ HasKeys(Kept(S))
           /\ Cardinality(Kept(S)) <= MaxStepEvents
           /\ Kept(Kept(S)) = Kept(S)
           /\ Cardinality(S) <= MaxStepEvents => Kept(S) = S
  <1> DEFINE K == Kept(S)
             Newer(T, x) == {y \in T : y.at > x.at}
  <1>1. K \subseteq S /\ HasKeys(K)
    BY DEF Kept, HasKeys
  <1>2. IsFiniteSet(K)
    BY <1>1, FS_Subset
  <1>3. ASSUME NEW T \in SUBSET S, NEW x
        PROVE  IsFiniteSet(Newer(T, x)) /\ Cardinality(Newer(T, x)) \in Nat
    BY FS_Subset, FS_CardinalityType
  <1>4. \A x \in S : x \in K <=> Cardinality(Newer(S, x)) < MaxStepEvents
    BY DEF Kept
  <1>5. Cardinality(K) <= MaxStepEvents
    <2> DEFINE n == Cardinality(K)
               f == NewestFirst(K)
               M == MaxStepEvents
    <2>0. n \in Nat /\ M \in Nat
      BY <1>2, FS_CardinalityType, RecorderConstants
    <2> SUFFICES ASSUME M < n PROVE FALSE
      BY <2>0
    <2>1. f \in [1..n -> K] /\ \A i, j \in 1..n : i < j => f[i].at > f[j].at
      BY <1>1, <1>2, NewestFirstLists
    <2> DEFINE x == f[M + 1]
    <2>2. M + 1 \in 1..n /\ x \in K
      BY <2>0, <2>1
    <2> DEFINE N == Newer(S, x)
               g == [i \in 1..M |-> f[i]]
    <2>3. g \in [1..M -> N]
      <3> SUFFICES ASSUME NEW i \in 1..M PROVE f[i] \in N
        OBVIOUS
      <3>1. i \in 1..n /\ i < M + 1
        BY <2>0
      <3>2. f[i] \in K /\ f[i].at > x.at
        BY <2>1, <2>2, <3>1
      <3> HIDE DEF f, x, K
      <3> QED BY <3>2, <1>1
    <2>4. \A i, j \in 1..M : g[i] = g[j] => i = j
      <3> SUFFICES ASSUME NEW i \in 1..M, NEW j \in 1..M, f[i] = f[j], i < j
                   PROVE  FALSE
        BY <2>0
      <3>1. i \in 1..n /\ j \in 1..n
        BY <2>0
      <3>2. f[i].at > f[j].at /\ f[i].at \in Int
        <4> HIDE DEF f, K
        <4> QED BY <3>1, <2>1, <1>1
      <3> QED BY <3>2
    <2>5. g \in Injection(1..M, N)
      <3> HIDE DEF g, N
      <3> QED BY <2>3, <2>4 DEF Injection, IsInjective
    <2>6. IsFiniteSet(N) /\ Cardinality(N) < M
      <3> HIDE DEF f, K
      <3> QED BY <2>2, <1>1, <1>3, <1>4
    <2>7. Cardinality(1..M) <= Cardinality(N)
      <3> HIDE DEF g, N
      <3> QED BY <2>5, <2>6, FS_Injection
    <2>8. Cardinality(1..M) = M
      BY <2>0, FS_Interval
    <2>9. Cardinality(N) \in Nat
      BY <1>3
    <2> HIDE DEF N
    <2> QED BY <2>0, <2>6, <2>7, <2>8, <2>9
  <1>6. Kept(K) = K
    <2>1. ASSUME NEW x \in K
          PROVE  Cardinality(Newer(K, x)) < MaxStepEvents
      <3> DEFINE A == Newer(K, x)
                 B == Newer(S, x)
      <3>1. A \in SUBSET B
        BY <1>1
      <3>2. IsFiniteSet(B) /\ Cardinality(B) \in Nat /\ Cardinality(B) < MaxStepEvents
        <4> HIDE DEF K
        <4> QED BY <1>1, <1>3, <1>4
      <3>3. Cardinality(A) \in Nat
        <4> HIDE DEF K
        <4> QED BY <1>1, <1>3
      <3>4. Cardinality(A) <= Cardinality(B)
        <4> HIDE DEF A, B
        <4> QED BY <3>1, <3>2, FS_Subset
      <3> HIDE DEF A, B, K
      <3> QED BY <3>2, <3>3, <3>4, RecorderConstants DEF A
    <2>2. Kept(K) = {x \in K : Cardinality(Newer(K, x)) < MaxStepEvents}
      <3> HIDE DEF K
      <3> QED BY DEF Kept
    <2> HIDE DEF K
    <2> QED BY <2>1, <2>2
  <1>7. ASSUME Cardinality(S) <= MaxStepEvents
        PROVE  K = S
    <2> SUFFICES ASSUME NEW x \in S
                 PROVE  Cardinality(Newer(S, x)) < MaxStepEvents
      BY <1>1, <1>4
    <2> DEFINE B == Newer(S, x)
               R == S \ {x}
    <2>1. B \in SUBSET R
      OBVIOUS
    <2>2. IsFiniteSet(R) /\ Cardinality(R) = Cardinality(S) - 1
      BY FS_RemoveElement
    <2>3. Cardinality(B) <= Cardinality(R)
      <3> HIDE DEF B, R
      <3> QED BY <2>1, <2>2, FS_Subset
    <2>4. Cardinality(B) \in Nat /\ Cardinality(S) \in Nat
      BY <1>3, FS_CardinalityType
    <2> HIDE DEF B, R
    <2> QED BY <2>2, <2>3, <2>4, <1>7, RecorderConstants DEF B
  <1> HIDE DEF K
  <1> QED BY <1>1, <1>2, <1>5, <1>6, <1>7 DEF K

\* The means of the last hours in the order of their minutes.
LEMMA RefilledRing ==
    ASSUME NEW means, IsFiniteSet(means), HasKeys(means), means \subseteq Samples,
           NEW t \in Int
    PROVE  LET ring == Refilled(means, t)
               in   == {m \in means : m.at >= t - Retention}
           IN /\ ring \in Seq(Samples) /\ Range(ring) = in
              /\ \A i, j \in 1..Len(ring) : i < j => ring[i].at < ring[j].at
  <1> DEFINE in == {m \in means : m.at >= t - Retention}
             n == Cardinality(in)
             key == [m \in in |-> m.at]
             ring == Refilled(means, t)
             Ascends(list) == \A i, j \in DOMAIN list : i < j => list[i].at < list[j].at
  <1>1. IsFiniteSet(in) /\ n \in Nat
    BY FS_Subset, FS_CardinalityType
  <1>2. HasKeys(in) /\ in \subseteq Samples /\ \A m \in in : m.at \in Int
    BY DEF HasKeys, Samples
  <1>3. IsKey(key, in)
    <2> HIDE DEF in
    <2> QED BY <1>2, KeysAreKeys
  <1>4. ASSUME NEW list \in [1..n -> in]
        PROVE  Ascends(list) <=> IsListing(list, in, key)
    <2>1. \A i \in 1..n : list[i] \in in /\ key[list[i]] = list[i].at
      <3> HIDE DEF in
      <3> QED OBVIOUS
    <2>2. DOMAIN list = 1..n
      OBVIOUS
    <2> HIDE DEF in, key
    <2> QED BY <2>1, <2>2 DEF IsListing
  <1>5. \E list \in [1..n -> in] : Ascends(list)
    <2> HIDE DEF key, in
    <2>1. PICK list : IsListing(list, in, key)
      BY <1>1, <1>3, ListingExists
    <2>2. list \in [1..n -> in]
      BY <2>1 DEF IsListing
    <2> HIDE DEF Ascends
    <2> QED BY <2>1, <2>2, <1>4
  <1>6. ring \in [1..n -> in] /\ Ascends(ring)
    <2>1. ring = CHOOSE list \in [1..n -> in] : Ascends(list)
      BY DEF Refilled
    <2> HIDE DEF ring, Ascends, in
    <2> QED BY <1>5, <2>1
  <1>7. IsListing(ring, in, key)
    <2> HIDE DEF ring, Ascends, in, key
    <2> QED BY <1>4, <1>6
  <1>8. \A x \in in : \E i \in 1..n : ring[i] = x
    <2> HIDE DEF ring, in, key
    <2> QED BY <1>1, <1>3, <1>7, ListingIsOnto
  <1> HIDE DEF ring, in
  <1>9. ring \in Seq(in) /\ Len(ring) = n /\ DOMAIN ring = 1..n
    BY <1>1, <1>6, ListIsSeq
  <1>10. ring \in Seq(Samples)
    BY <1>2, <1>9, SeqMonotonic
  <1>11. Range(ring) = in
    BY <1>6, <1>8, <1>9 DEF Range
  <1>12. \A i, j \in 1..Len(ring) : i < j => ring[i].at < ring[j].at
    BY <1>6, <1>9
  <1> QED BY <1>10, <1>11, <1>12 DEF ring, in

\* A sample goes last; those before the cut-off leave at the front, and the new
\* one never does.
LEMMA RecordedRing ==
    ASSUME NEW ring \in Seq(Samples), NEW t \in 0..MaxTime, NEW v \in Int
    PROVE  LET whole == Append(ring, [at |-> t, v |-> v])
               new   == Recorded(ring, t, v)
           IN \E k \in 1..Len(whole) :
                 /\ new = SubSeq(whole, k, Len(whole))
                 /\ new \in Seq(Samples)
                 /\ Len(new) = Len(whole) - k + 1
                 /\ \A i \in 1..Len(new) : new[i] = whole[k + i - 1]
                 /\ \A i \in 1..k - 1 : whole[i].at < t - Retention
                 /\ whole[k].at >= t - Retention
                 /\ new # <<>> /\ Latest(new) = [at |-> t, v |-> v]
  <1> DEFINE x == [at |-> t, v |-> v]
             whole == Append(ring, x)
             stays == {i \in DOMAIN whole : whole[i].at >= t - Retention}
             new == Recorded(ring, t, v)
             n == Len(whole)
  <1>1. x \in Samples
    BY DEF Samples
  <1>2. whole \in Seq(Samples) /\ n = Len(ring) + 1 /\ whole[n] = x /\ DOMAIN whole = 1..n
    BY <1>1, AppendProperties, LenProperties
  <1>3. n \in stays /\ stays \in SUBSET Nat /\ \A i \in stays : i \in 1..n
    BY <1>2, RecorderConstants
  <1>4. PICK k \in stays : \A i \in stays : k <= i
    <2> HIDE DEF stays
    <2> QED BY <1>3, LeastNumber
  <1>5. Min(stays) = k
    <2> HIDE DEF stays
    <2>1. \A y \in stays : (\A i \in stays : y <= i) => y = k
      BY <1>3, <1>4
    <2>2. Min(stays) \in stays /\ \A i \in stays : Min(stays) <= i
      BY <1>4 DEF Min
    <2> QED BY <2>1, <2>2
  <1>6. new = SubSeq(whole, k, n)
    <2>1. new = IF stays = {} THEN <<>> ELSE SubSeq(whole, Min(stays), n)
      BY DEF Recorded, Evicted
    <2> HIDE DEF stays, new
    <2> QED BY <2>1, <1>3, <1>5
  <1>7. k \in 1..n /\ n \in Nat /\ whole[k].at >= t - Retention
    BY <1>2, <1>4
  <1>8. \A i \in 1..n : whole[i] \in Samples /\ whole[i].at \in Int
    <2> SUFFICES ASSUME NEW i \in 1..n
                 PROVE  whole[i] \in Samples /\ whole[i].at \in Int
      OBVIOUS
    <2>1. whole[i] \in Samples
      <3> HIDE DEF whole
      <3> QED BY <1>2, ElementOfSeq
    <2> QED BY <2>1 DEF Samples
  <1>9. \A i \in 1..k - 1 : whole[i].at < t - Retention
    <2> SUFFICES ASSUME NEW i \in 1..k - 1, ~(whole[i].at < t - Retention)
                 PROVE  FALSE
      OBVIOUS
    <2>1. i \in 1..n /\ i < k
      BY <1>7
    <2>2. i \in stays
      BY <2>1, <1>2, <1>8, RecorderConstants
    <2> QED BY <2>1, <2>2, <1>4
  <1> HIDE DEF new, stays
  <1>10. /\ new \in Seq(Samples) /\ Len(new) = n - k + 1
         /\ \A i \in 1..n - k + 1 : new[i] = whole[k + i - 1]
    <2> HIDE DEF whole
    <2> QED BY <1>6, <1>7, <1>8, SubSeqProperties
  <1>11. new # <<>> /\ Latest(new) = x
    <2> HIDE DEF whole, x
    <2> QED BY <1>2, <1>7, <1>10, EmptySeq DEF Latest
  <1> QED BY <1>6, <1>7, <1>9, <1>10, <1>11 DEF new

\* What a sweep has yet to read is a rest of what it found.
IsRest(left) ==
    \E i \in 0..Len(SENSORS), f \in Situations :
        left = SubSeq(Found(f), i + 1, Len(SENSORS))

LEMMA SweepRests ==
    /\ IsRest(<<>>)
    /\ \A f \in Situations : IsRest(Found(f))
    /\ \A left : IsRest(left) => left \in Seq([sensor : Polled, v : Int])
    /\ \A left : IsRest(left) /\ left # <<>> =>
          /\ Head(left).sensor \in Polled /\ Head(left).v \in Int
          /\ IsRest(Tail(left))
  <1> DEFINE n == Len(SENSORS)
             Reads == [sensor : Polled, v : Int]
  <1>1. n \in Nat
    BY RecorderConstants
  <1>2. ASSUME NEW f \in Situations
        PROVE  Found(f) \in Seq(Reads) /\ Len(Found(f)) = n
    <2>1. \A i \in 1..n : SENSORS[i] \in Polled
      BY RecorderConstants, ElementOfSeq
    <2>2. \A i \in 1..n : f[SENSORS[i]] \in Int
      BY <2>1, RecorderConstants
    <2>3. DOMAIN SENSORS = 1..n
      BY RecorderConstants, LenProperties
    <2>4. Found(f) \in [1..n -> Reads]
      <3> HIDE DEF n
      <3> QED BY <2>1, <2>2, <2>3 DEF Found
    <2> HIDE DEF n, Reads
    <2> QED BY <1>1, <2>4, ListIsSeq
  <1>3. IsRest(<<>>)
    <2>1. PICK f \in Situations : TRUE
      BY RecorderConstants
    <2>2. SubSeq(Found(f), n + 1, n) = <<>>
      BY <1>1, SubSeqEmpty
    <2> QED BY <1>1, <2>2 DEF IsRest
  <1>4. \A f \in Situations : IsRest(Found(f))
    <2> TAKE f \in Situations
    <2>1. SubSeq(Found(f), 1, n) = Found(f)
      <3> HIDE DEF Reads
      <3> QED BY <1>2, SubSeqFull
    <2> QED BY <1>1, <2>1 DEF IsRest
  <1>6. ASSUME NEW left, IsRest(left)
        PROVE  left \in Seq(Reads)
    <2>1. PICK i \in 0..n, f \in Situations : left = SubSeq(Found(f), i + 1, n)
      BY <1>6 DEF IsRest
    <2>2. \A j \in i + 1..n : Found(f)[j] \in Reads
      <3> HIDE DEF Reads
      <3> SUFFICES ASSUME NEW j \in i + 1..n PROVE Found(f)[j] \in Reads
        OBVIOUS
      <3>1. j \in 1..Len(Found(f))
        BY <1>1, <1>2
      <3> QED BY <3>1, <1>2, ElementOfSeq
    <2> HIDE DEF Reads
    <2> QED BY <1>1, <2>1, <2>2, SubSeqProperties
  <1>5. ASSUME NEW left, IsRest(left), left # <<>>
        PROVE  /\ Head(left).sensor \in Polled /\ Head(left).v \in Int
               /\ IsRest(Tail(left))
    <2>1. PICK i \in 0..n, f \in Situations : left = SubSeq(Found(f), i + 1, n)
      BY <1>5 DEF IsRest
    <2>2. i + 1 \in 1..n
      <3> SUFFICES ASSUME n < i + 1 PROVE FALSE
        BY <1>1
      <3> QED BY <1>1, <2>1, <1>5, SubSeqEmpty
    <2>3. Head(left) = Found(f)[i + 1] /\ Tail(left) = SubSeq(Found(f), i + 2, n)
      <3>1. i + 1 + 1 = i + 2 /\ n \in i + 1..n
        BY <1>1, <2>2
      <3> HIDE DEF Reads
      <3> QED BY <3>1, <1>2, <2>1, <2>2, HeadTailOfSubSeq
    <2>4. Found(f)[i + 1] \in Reads
      <3> HIDE DEF Reads
      <3> QED BY <1>2, <2>2, ElementOfSeq
    <2>5. i + 1 \in 0..n /\ i + 2 = (i + 1) + 1
      BY <1>1, <2>2
    <2>6. IsRest(Tail(left))
      BY <2>3, <2>5 DEF IsRest
    <2> QED BY <2>3, <2>4, <2>6
  <1> QED BY <1>3, <1>4, <1>5, <1>6

\* A keyed table of rows with stamps is finite: it has no more rows than stamps.
LEMMA TablesAreFinite ==
    ASSUME NEW table, HasKeys(table), \A row \in table : row.at \in 0..MaxTime
    PROVE  IsFiniteSet(table)
  <1> DEFINE key == [row \in table |-> row.at]
  <1>1. key \in Injection(table, 0..MaxTime)
    BY DEF Injection, IsInjective, HasKeys
  <1>2. IsFiniteSet(0..MaxTime)
    BY RecorderConstants, FS_Interval
  <1> HIDE DEF key
  <1> QED BY <1>1, <1>2, FS_Injection

LEMMA InsertedRows ==
    ASSUME NEW table, NEW rows, HasKeys(table), HasKeys(rows)
    PROVE  /\ HasKeys(Inserted(table, rows))
           /\ rows \subseteq Inserted(table, rows)
           /\ Inserted(table, rows) \subseteq table \cup rows
  BY DEF HasKeys, Inserted

\* The buckets of pending_minutes: each has a sample.
IsOpen(b) == AreBuckets(b) /\ \A m \in DOMAIN b : b[m].n > 0

LEMMA AddedBuckets ==
    ASSUME NEW b, IsOpen(b), NEW t \in 0..MaxTime, NEW v \in Int
    PROVE  IsOpen(Added(b, t, v))
  <1> DEFINE m == MinuteOf(t)
             old == IF m \in DOMAIN b THEN b[m] ELSE [sum |-> 0, n |-> 0]
             new == [sum |-> old.sum + v, n |-> old.n + 1]
             c == Added(b, t, v)
  <1>1. m \in 0..MaxTime
    <2>1. t \in Nat
      BY RecorderConstants
    <2>2. m \in 0..t
      BY <2>1, MinuteBounds
    <2> HIDE DEF m
    <2> QED BY <2>1, <2>2, RecorderConstants
  <1>2. \A k \in DOMAIN b : b[k] \in [sum : Int, n : Nat] /\ b[k].n > 0 /\ k \in 0..MaxTime
    BY DEF IsOpen, AreBuckets
  <1>3. old \in [sum : Int, n : Nat]
    BY <1>2
  <1>4. new \in [sum : Int, n : Nat] /\ new.n > 0
    BY <1>3
  <1>5. c = [k \in DOMAIN b \cup {m} |-> IF k = m THEN new ELSE b[k]]
    BY DEF Added
  <1> HIDE DEF m, new, c
  <1>6. DOMAIN c = DOMAIN b \cup {m}
        /\ \A k \in DOMAIN c : c[k] \in [sum : Int, n : Nat] /\ c[k].n > 0
    BY <1>2, <1>4, <1>5
  <1>7. c \in [DOMAIN c -> [sum : Int, n : Nat]]
    BY <1>5, <1>6
  <1> QED BY <1>1, <1>2, <1>6, <1>7 DEF IsOpen, AreBuckets, c

\* Means of whole minutes that are over, one for each.
LEMMA FinalizedRows ==
    ASSUME NEW b, IsOpen(b), NEW t \in Nat
    PROVE  /\ Finalized(b, t) \subseteq Samples /\ HasKeys(Finalized(b, t))
           /\ \A row \in Finalized(b, t) : row.at < t
           /\ IsOpen(StillOpen(b, t))
  <1> DEFINE over == {k \in DOMAIN b : k < MinuteOf(t)}
  <1>1. \A k \in DOMAIN b : b[k].sum \in Int /\ b[k].n \in Nat \ {0} /\ k \in 0..MaxTime
    BY DEF IsOpen, AreBuckets
  <1>2. \A k \in DOMAIN b : b[k].sum \div b[k].n \in Int
    BY <1>1
  <1>3. Finalized(b, t) = {[at |-> m, v |-> b[m].sum \div b[m].n] : m \in over}
    BY DEF Finalized
  <1>4. Finalized(b, t) \subseteq Samples
    BY <1>1, <1>2, <1>3 DEF Samples
  <1>5. HasKeys(Finalized(b, t))
    BY <1>3 DEF HasKeys
  <1>6. \A row \in Finalized(b, t) : row.at < t
    BY <1>1, <1>3, MinuteBounds
  <1>7. IsOpen(StillOpen(b, t))
    <2> DEFINE kept == {k \in DOMAIN b : k >= MinuteOf(t)}
               c == StillOpen(b, t)
    <2>1. c = [k \in kept |-> b[k]]
      BY DEF StillOpen, Restrict
    <2>2. DOMAIN c = kept /\ \A k \in kept : c[k] = b[k]
      BY <2>1
    <2>3. \A k \in kept : b[k] \in [sum : Int, n : Nat] /\ b[k].n > 0 /\ k \in 0..MaxTime
      BY DEF IsOpen, AreBuckets
    <2> HIDE DEF kept, c
    <2> QED BY <2>1, <2>2, <2>3 DEF IsOpen, AreBuckets, c
  <1> QED BY <1>4, <1>5, <1>6, <1>7

(***************************************************************************)
(* The invariant.                                                          *)
(***************************************************************************)

\* Every table is keyed, and the one on disk is pruned.
TablesInv ==
    /\ HasKeys(pending) /\ HasKeys(flush.events) /\ HasKeys(disk.events)
    /\ \A s \in Polled : HasKeys(flush.means[s]) /\ HasKeys(disk.means[s])
    /\ Kept(disk.events) = disk.events
    /\ \A s \in Polled : IsOpen(open[s])

\* Time stays in its bounds; nothing is under way between two flushes, or in the
\* poller and the recorder once the process stops.
QuietInv ==
    /\ now + limits.units <= MaxTime
    /\ flush.pc = "idle" => flush = Idle
    /\ proc = "down" => flush.pc = "idle"
    /\ proc # "up" => active = Nothing /\ sweep.left = <<>>

\* An event in progress is whole up to now: it waits for the answer.
Begun(e) ==
    /\ Abs(e.after - e.before) >= Threshold
    /\ e.samples # <<>> /\ e.samples[1] = [el |-> 0, flow |-> e.after, ret |-> e.ret]
    /\ \A i \in 2..Len(e.samples) : ~Answered(e, e.samples[i])
BegunInv == active # Nothing => Begun(active)

\* Unless the clock was set back, an event is later than all before it.
TimesInv ==
    ~seen.back =>
        /\ HasKeys(Events)
        /\ \A e \in Events : e.at < now
        /\ active # Nothing =>
              /\ \A e \in Events : e.at < active.at
              /\ active.at <= now
              /\ active.at = now => ticks.recorder

\* The list is the newest of the events, newest first; what is not in it is older.
IsNewest(list, events) ==
    /\ \A i, j \in DOMAIN list : i < j => list[i].at > list[j].at
    /\ Range(list) \subseteq events
    /\ \A e \in events \ Range(list) :
          Len(list) = MaxStepEvents /\ \A i \in DOMAIN list : list[i].at > e.at
CacheInv == proc # "down" /\ ~seen.back /\ ~seen.lost => IsNewest(cache, Events)

RInv ==
    /\ TypeOK /\ TablesInv /\ QuietInv /\ BegunInv /\ EventsAreWhole
    /\ TimesInv /\ CacheInv

(***************************************************************************)
(* What the list serves.                                                   *)
(***************************************************************************)

\* Of keyed events, the newest in such a list are the ones a restart would read
\* from their rows.
LEMMA NewestAreKept ==
    ASSUME NEW S, HasKeys(S), S \subseteq StepEvents,
           NEW list \in Seq(StepEvents), Len(list) <= MaxStepEvents, IsNewest(list, S)
    PROVE  /\ Range(list) = Kept(S)
           /\ list = HydratedEvents(S)
  <1> DEFINE n == Len(list)
             K == Kept(S)
             M == MaxStepEvents
             Newer(x) == {y \in S : y.at > x.at}
  <1>0. n \in Nat /\ M \in Nat \ {0} /\ n <= M
    BY LenProperties, RecorderConstants
  <1>a. DOMAIN list = 1..n
    BY LenProperties
  <1>b. /\ \A i, j \in 1..n : i < j => list[i].at > list[j].at
        /\ \A y \in Range(list) : \E j \in 1..n : list[j] = y
        /\ \A j \in 1..n : list[j] \in Range(list)
        /\ Range(list) \subseteq S
        /\ \A e \in S : e \notin Range(list) => n = M /\ \A i \in 1..n : list[i].at > e.at
    BY <1>a DEF IsNewest, Range
  <1>c. list = [i \in 1..n |-> list[i]]
    BY LenProperties
  <1> HIDE DEF n
  <1>1. IsFiniteSet(S) /\ \A e \in S : e.at \in Nat
    BY TablesAreFinite, RecorderConstants DEF StepEvents
  <1>2. ASSUME NEW x
        PROVE  IsFiniteSet(Newer(x)) /\ Cardinality(Newer(x)) \in Nat
    BY <1>1, FS_Subset, FS_CardinalityType
  <1>3. \A i \in 1..n : list[i] \in S
    BY <1>b
  <1>4. ASSUME NEW i \in 1..n
        PROVE  list[i] \in K
    <2> DEFINE N == Newer(list[i])
               f == [j \in 1..i - 1 |-> list[j]]
    <2>1. \A y \in N : \E j \in 1..i - 1 : list[j] = y
      <3> SUFFICES ASSUME NEW y \in N PROVE \E j \in 1..i - 1 : list[j] = y
        OBVIOUS
      <3>1. y \in S /\ y.at > list[i].at /\ y.at \in Nat /\ list[i].at \in Nat
        BY <1>1, <1>3
      <3>2. PICK j \in 1..n : list[j] = y
        <4>1. y \in Range(list)
          BY <3>1, <1>0, <1>4, <1>b
        <4> QED BY <4>1, <1>b
      <3>3. j < i
        <4> SUFFICES ASSUME i < j \/ i = j PROVE FALSE
          BY <1>0
        <4> QED BY <3>1, <3>2, <1>4, <1>b
      <3> QED BY <3>2, <3>3, <1>0
    <2>2. \A j \in 1..i - 1 : list[j] \in N
      BY <1>0, <1>3, <1>4, <1>b
    <2>3. f \in Surjection(1..i - 1, N)
      <3>1. f \in [1..i - 1 -> N]
        BY <2>2
      <3>2. \A y \in N : \E j \in 1..i - 1 : f[j] = y
        BY <2>1
      <3> HIDE DEF f, N
      <3> QED BY <3>1, <3>2 DEF Surjection
    <2>4. IsFiniteSet(1..i - 1) /\ Cardinality(1..i - 1) = i - 1
      BY <1>0, FS_Interval
    <2>5. Cardinality(N) <= i - 1
      <3> HIDE DEF f, N
      <3> QED BY <2>3, <2>4, FS_Surjection
    <2>6. Cardinality(N) \in Nat
      BY <1>2
    <2>7. Cardinality(N) < M
      <3> HIDE DEF N
      <3> QED BY <2>5, <2>6, <1>0
    <2> QED BY <2>7, <1>3 DEF Kept
  <1>5. ASSUME NEW e \in S, e \notin Range(list)
        PROVE  e \notin K
    <2> DEFINE N == Newer(e)
    <2>1. n = M /\ \A i \in 1..n : list[i].at > e.at
      BY <1>5, <1>b
    <2>2. list \in [1..n -> N]
      BY <1>0, <1>3, <2>1, <1>c
    <2>3. \A i, j \in 1..n : list[i] = list[j] => i = j
      <3> SUFFICES ASSUME NEW i \in 1..n, NEW j \in 1..n, list[i] = list[j], i < j
                   PROVE  FALSE
        BY <1>0
      <3>1. list[i].at > list[j].at /\ list[i].at \in Nat
          BY <1>1, <1>3, <1>b
        <3> QED BY <3>1
    <2>4. list \in Injection(1..n, N)
      <3> HIDE DEF N, n
      <3> QED BY <2>2, <2>3 DEF Injection, IsInjective
    <2>5. IsFiniteSet(N) /\ Cardinality(N) \in Nat
      BY <1>2
    <2>6. Cardinality(1..n) <= Cardinality(N)
      <3> HIDE DEF N
      <3> QED BY <2>4, <2>5, FS_Injection
    <2>7. Cardinality(1..n) = n
      BY <1>0, FS_Interval
    <2>8. ~(Cardinality(N) < M)
      <3> HIDE DEF N
      <3> QED BY <2>1, <2>5, <2>6, <2>7, <1>0
    <2> QED BY <2>8 DEF Kept
  <1>6. Range(list) = K
    <2>1. K \subseteq S /\ Range(list) \subseteq S
      BY <1>b DEF Kept
    <2>2. Range(list) \subseteq K
      <3> HIDE DEF K
      <3> QED BY <1>4, <1>b
    <2> QED BY <1>5, <2>1, <2>2
  <1>7. IsFiniteSet(K) /\ HasKeys(K) /\ \A e \in K : e.at \in Int
    <2>1. \A e \in S : e.at \in Int
      BY <1>1
    <2>2. K \subseteq S /\ IsFiniteSet(K) /\ HasKeys(K)
      BY <2>1, <1>1, KeptRows
    <2> HIDE DEF K
    <2> QED BY <2>1, <2>2
  <1>8. list \in Bijection(1..n, K)
    <2>1. list \in [1..n -> K]
      <3> HIDE DEF K
      <3> QED BY <1>4, <1>c
    <2>2. \A i, j \in 1..n : list[i] = list[j] => i = j
      <3> SUFFICES ASSUME NEW i \in 1..n, NEW j \in 1..n, list[i] = list[j], i < j
                   PROVE  FALSE
        BY <1>0
      <3>1. list[i].at > list[j].at /\ list[i].at \in Nat
          BY <1>1, <1>3, <1>b
        <3> QED BY <3>1
    <2>3. \A e \in K : \E i \in 1..n : list[i] = e
      <3> HIDE DEF K
      <3> QED BY <1>6, <1>b
    <2> HIDE DEF K, n
    <2> QED BY <2>1, <2>2, <2>3 DEF Bijection, Injection, Surjection, IsInjective
  <1>9. Cardinality(K) = n
    <2>1. IsFiniteSet(1..n) /\ Cardinality(1..n) = n
      BY <1>0, FS_Interval
    <2>2. ExistsBijection(1..n, K)
      BY <1>8 DEF ExistsBijection
    <2> HIDE DEF K
    <2> QED BY <2>1, <2>2, FS_Bijection
  <1>10. list \in [1..n -> K] /\ \A i, j \in 1..n : i < j => list[i].at > list[j].at
    BY <1>8, <1>b DEF Bijection, Injection
  <1>11. list = NewestFirst(K)
    <2> HIDE DEF K, n
    <2> QED BY <1>7, <1>9, <1>10, NewestFirstLists
  <1> QED BY <1>6, <1>11 DEF HydratedEvents

\* An event that is later than all there are goes to the front; the list is cut
\* off at its end.
LEMMA CachedIsNewest ==
    ASSUME cache \in Seq(StepEvents), Len(cache) <= MaxStepEvents,
           NEW e \in StepEvents
    PROVE  /\ Cached(e) \in Seq(StepEvents) /\ Len(Cached(e)) <= MaxStepEvents
           /\ Range(Cached(e)) \subseteq Range(cache) \cup {e}
           /\ \A S \in SUBSET StepEvents :
                 (\A x \in S : x.at < e.at) /\ IsNewest(cache, S)
                 => IsNewest(Cached(e), S \cup {e})
  <1> DEFINE n == Len(cache)
             M == MaxStepEvents
             all == <<e>> \o cache
             m == IF M > n + 1 THEN n + 1 ELSE M
             list == Cached(e)
  <1>1. n \in Nat /\ M \in Nat \ {0} /\ n <= M
    BY LenProperties, RecorderConstants
  <1>2. /\ all \in Seq(StepEvents) /\ Len(all) = n + 1
        /\ \A i \in 1..n + 1 : all[i] = IF i = 1 THEN e ELSE cache[i - 1]
    <2>1. <<e>> \in Seq(StepEvents) /\ Len(<<e>>) = 1 /\ <<e>>[1] = e
      OBVIOUS
    <2>2. /\ all \in Seq(StepEvents) /\ Len(all) = 1 + n
          /\ \A i \in 1..1 + n : all[i] = IF i <= 1 THEN <<e>>[i] ELSE cache[i - 1]
      BY <2>1, ConcatProperties
    <2> HIDE DEF all
    <2> QED BY <2>1, <2>2, <1>1
  <1>3. m \in 1..n + 1 /\ m <= M /\ (m = n + 1 \/ m = M)
    BY <1>1
  <1>4. list = SubSeq(all, 1, m)
    BY <1>2 DEF Cached, FirstOf
  <1>5. /\ list \in Seq(StepEvents) /\ Len(list) = m
        /\ \A i \in 1..m : list[i] = all[i]
    <2>1. \A i \in 1..m : all[i] \in StepEvents
      <3> HIDE DEF all, m
      <3> SUFFICES ASSUME NEW i \in 1..m PROVE all[i] \in StepEvents
        OBVIOUS
      <3>1. i \in 1..Len(all)
        BY <1>1, <1>2, <1>3
      <3> QED BY <3>1, <1>2, ElementOfSeq
    <2>2. m - 1 + 1 = m /\ \A i \in 1..m : 1 + i - 1 = i
      BY <1>3
    <2> HIDE DEF all, m, list
    <2> QED BY <1>3, <1>4, <2>1, <2>2, SubSeqProperties
  <1> HIDE DEF all, m, list
  <1>6. DOMAIN list = 1..m /\ \A i \in 1..m : list[i] = IF i = 1 THEN e ELSE cache[i - 1]
    BY <1>1, <1>2, <1>3, <1>5, LenProperties
  <1>7. DOMAIN cache = 1..n
    BY LenProperties
  <1> HIDE DEF n
  <1>8. \A i \in 2..m : i - 1 \in 1..n
    BY <1>1, <1>3
  <1>9. Range(list) \subseteq Range(cache) \cup {e}
    BY <1>3, <1>6, <1>7, <1>8 DEF Range
  <1>10. ASSUME NEW S \in SUBSET StepEvents,
                \A x \in S : x.at < e.at, IsNewest(cache, S)
         PROVE  IsNewest(list, S \cup {e})
    <2>1. \A i \in 1..n : cache[i] \in S
      BY <1>7, <1>10 DEF IsNewest, Range
    <2>2. \A x \in S \cup {e} : x.at \in Nat
      BY RecorderConstants DEF StepEvents
    <2>3. ASSUME NEW i \in 1..m, NEW j \in 1..m, i < j
          PROVE  list[i].at > list[j].at
      <3>1. j \in 2..m /\ list[j] = cache[j - 1] /\ j - 1 \in 1..n /\ cache[j - 1] \in S
        BY <1>3, <1>6, <1>8, <2>1, <2>3
      <3>2. CASE i = 1
        BY <3>1, <3>2, <1>6, <1>10, <2>2
      <3>3. CASE i # 1
        <4>1. i - 1 \in 1..n /\ list[i] = cache[i - 1] /\ i - 1 < j - 1
          BY <3>3, <1>3, <1>6, <1>8, <2>3
        <4> QED BY <4>1, <3>1, <1>7, <1>10 DEF IsNewest
      <3> QED BY <3>2, <3>3
    <2>4. Range(list) \subseteq S \cup {e}
      BY <1>9, <1>10 DEF IsNewest
    <2>5. ASSUME NEW x \in S \cup {e}, x \notin Range(list)
          PROVE  m = M /\ \A i \in 1..m : list[i].at > x.at
      <3>1. x # e
        BY <1>3, <1>6, <2>5 DEF Range
      <3>2. x \in S /\ x.at < e.at /\ x.at \in Nat
        BY <3>1, <1>10, <2>2
      <3>3. CASE x \in Range(cache)
        <4>1. PICK k \in 1..n : cache[k] = x
          BY <3>3, <1>7 DEF Range
        <4>2. m < k + 1
          <5> SUFFICES ASSUME k + 1 <= m PROVE FALSE
            BY <1>3
          <5>1. k + 1 \in 1..m /\ k + 1 # 1 /\ (k + 1) - 1 = k
            BY <1>1, <1>3
          <5>2. list[k + 1] = x
            BY <4>1, <5>1, <1>6
          <5> QED BY <5>1, <5>2, <1>6, <2>5 DEF Range
        <4>3. m = M
          BY <4>2, <1>1, <1>3
        <4>4. ASSUME NEW i \in 1..m
              PROVE  list[i].at > x.at
          <5>1. CASE i = 1
            BY <5>1, <3>2, <1>6, <2>2
          <5>2. CASE i # 1
            <6>1. i - 1 \in 1..n /\ list[i] = cache[i - 1] /\ i - 1 < k
              BY <4>2, <5>2, <1>3, <1>6, <1>8
            <6> QED BY <4>1, <6>1, <1>7, <1>10 DEF IsNewest
          <5> QED BY <5>1, <5>2
        <4> QED BY <4>3, <4>4
      <3>4. CASE x \notin Range(cache)
        <4>1. n = M /\ \A i \in 1..n : cache[i].at > x.at
          BY <3>2, <3>4, <1>7, <1>10 DEF IsNewest, n
        <4>2. m = M
          BY <4>1, <1>1, <1>3
        <4>3. ASSUME NEW i \in 1..m
              PROVE  list[i].at > x.at
          <5>1. CASE i = 1
            BY <5>1, <3>2, <1>6, <2>2
          <5>2. CASE i # 1
            BY <4>1, <5>2, <1>3, <1>6, <1>8
          <5> QED BY <5>1, <5>2
        <4> QED BY <4>2, <4>3
      <3> QED BY <3>3, <3>4
    <2> QED BY <2>3, <2>4, <2>5, <1>5, <1>6 DEF IsNewest
  <1> QED BY <1>3, <1>5, <1>9, <1>10 DEF list

\* What pruning drops of the rows on disk was not in the list.
LEMMA PrunedAreNotServed ==
    ASSUME NEW A, NEW P, HasKeys(A \cup P), A \cup P \subseteq StepEvents,
           NEW list \in Seq(StepEvents), Len(list) <= MaxStepEvents,
           IsNewest(list, A \cup P)
    PROVE  IsNewest(list, Kept(A) \cup P)
  <1> DEFINE S == A \cup P
             NewerIn(T, x) == {y \in T : y.at > x.at}
  <1>1. Range(list) = Kept(S)
    BY NewestAreKept
  <1>2. IsFiniteSet(S)
    BY TablesAreFinite DEF StepEvents
  <1>3. ASSUME NEW x \in Kept(S), x \in A
        PROVE  x \in Kept(A)
    <2>1. Cardinality(NewerIn(S, x)) < MaxStepEvents
      BY DEF Kept
    <2>2. NewerIn(A, x) \in SUBSET NewerIn(S, x) /\ IsFiniteSet(NewerIn(S, x))
      BY <1>2, FS_Subset
    <2>3. /\ Cardinality(NewerIn(A, x)) <= Cardinality(NewerIn(S, x))
          /\ Cardinality(NewerIn(A, x)) \in Nat /\ Cardinality(NewerIn(S, x)) \in Nat
      <3> DEFINE a == NewerIn(A, x)
                 b == NewerIn(S, x)
      <3>1. a \in SUBSET b /\ IsFiniteSet(b)
        BY <2>2
      <3> HIDE DEF a, b
      <3>2. IsFiniteSet(a) /\ Cardinality(a) <= Cardinality(b)
        BY <3>1, FS_Subset
      <3>3. Cardinality(a) \in Nat /\ Cardinality(b) \in Nat
        BY <3>1, <3>2, FS_CardinalityType
      <3> QED BY <3>2, <3>3 DEF a, b
    <2>4. Cardinality(NewerIn(A, x)) < MaxStepEvents
      <3> HIDE DEF NewerIn
      <3> QED BY <2>1, <2>3, RecorderConstants
    <2> QED BY <2>4, <1>3 DEF Kept
  <1>4. Range(list) \subseteq Kept(A) \cup P
    <2>1. Kept(S) \subseteq S
      BY DEF Kept
    <2> QED BY <2>1, <1>1, <1>3
  <1>5. Kept(A) \cup P \subseteq S
    BY DEF Kept
  <1> QED BY <1>4, <1>5 DEF IsNewest

\* The end of an event is its answer.
LEMMA ClosesAtTheAnswer ==
    ASSUME NEW e, e.after \in Int, e.ret \in Int,
           NEW flow, NEW ret \in Int, NEW elapsed \in Nat
    PROVE  Closes(e, ret, elapsed)
           <=> Answered(e, [el |-> elapsed, flow |-> flow, ret |-> ret])
  <1> DEFINE x == [el |-> elapsed, flow |-> flow, ret |-> ret]
  <1>1. x.el = elapsed /\ x.ret = ret
    OBVIOUS
  <1> HIDE DEF x
  <1>2. PICK a \in Int, r \in Int : a = e.after /\ r = e.ret
    OBVIOUS
  <1>3. Observe \in Nat
    BY RecorderConstants
  <1>4. Answered(e, x) <=> \/ elapsed >= Observe
                           \/ a >= r /\ 10 * (a - ret) <= a - r
                           \/ a <= r /\ 10 * (ret - a) <= r - a
    BY <1>1, <1>2 DEF Answered
  <1>5. Settled(e, ret) <=> \/ a - r > 0 /\ 10 * (ret - r) >= 9 * (a - r)
                            \/ a - r < 0 /\ 10 * (ret - r) <= 9 * (a - r)
    BY <1>2 DEF Settled
  <1>6. Closes(e, ret, elapsed) <=> Settled(e, ret) \/ a = r \/ elapsed >= Observe
    BY <1>2 DEF Closes, NoStep
  <1>7. Settled(e, ret) <=> \/ a > r /\ 10 * (a - ret) <= a - r
                            \/ a < r /\ 10 * (ret - a) <= r - a
    BY <1>5
  <1>8. a = r => 10 * (a - ret) <= a - r \/ 10 * (ret - a) <= r - a
    OBVIOUS
  <1>9. Closes(e, ret, elapsed) <=> Answered(e, x)
    BY <1>4, <1>6, <1>7, <1>8
  <1> QED BY <1>9 DEF x

\* The two temperatures the recorder looks at.
LEMMA ReadableTemperatures ==
    ASSUME rings \in [Polled -> Seq(Samples)], Readable
    PROVE  Flow \in Int /\ Return \in Int
  <1>1. "Flow" \in Polled /\ "Return" \in Polled
    BY RecorderConstants
  <1>2. ASSUME NEW s \in Polled, rings[s] # <<>>
        PROVE  Latest(rings[s]).v \in Int
    <2>1. rings[s] \in Seq(Samples)
      OBVIOUS
    <2>2. Len(rings[s]) \in 1..Len(rings[s])
      BY <2>1, <1>2, EmptySeq
    <2>3. rings[s][Len(rings[s])] \in Samples
      BY <2>1, <2>2, ElementOfSeq
    <2> QED BY <2>3 DEF Latest, Samples
  <1> QED BY <1>1, <1>2 DEF Readable, Flow, Return

\* An event in progress with one more sample.
LEMMA ObservedEvent ==
    ASSUME NEW e \in StepEvents, Begun(e), e.at <= now, now \in Nat,
           NEW flow \in Int, NEW ret \in Int
    PROVE  LET x == [el |-> now - e.at, flow |-> flow, ret |-> ret]
               f == [e EXCEPT !.samples = Append(@, x)]
           IN /\ f \in StepEvents /\ f.at = e.at
              /\ Closes(e, ret, now - e.at) => IsWhole(f)
              /\ ~Closes(e, ret, now - e.at) => Begun(f)
  <1> DEFINE x == [el |-> now - e.at, flow |-> flow, ret |-> ret]
             f == [e EXCEPT !.samples = Append(@, x)]
             n == Len(e.samples)
             Shown == [el : Nat, flow : Int, ret : Int]
  <1>1. /\ e.at \in 0..MaxTime /\ e.before \in Int /\ e.after \in Int /\ e.ret \in Int
        /\ e.samples \in Seq(Shown) /\ MaxTime \in Nat
    BY RecorderConstants DEF StepEvents
  <1>2. x \in Shown
    BY <1>1
  <1>3. f = [at |-> e.at, before |-> e.before, after |-> e.after, ret |-> e.ret,
             samples |-> Append(e.samples, x)]
    <2>1. e = [at |-> e.at, before |-> e.before, after |-> e.after, ret |-> e.ret,
               samples |-> e.samples]
      BY DEF StepEvents
    <2> HIDE DEF x
    <2> QED BY <2>1
  <1>4. /\ Append(e.samples, x) \in Seq(Shown) /\ Len(Append(e.samples, x)) = n + 1
        /\ \A i \in 1..n : Append(e.samples, x)[i] = e.samples[i]
        /\ Append(e.samples, x)[n + 1] = x
    <2> HIDE DEF x, Shown
    <2> QED BY <1>1, <1>2, AppendProperties
  <1> DEFINE s == Append(e.samples, x)
  <1>5. n \in Nat \ {0} /\ e.samples[1] = [el |-> 0, flow |-> e.after, ret |-> e.ret]
        /\ (\A i \in 2..n : ~Answered(e, e.samples[i]))
    BY <1>1, EmptySeq DEF Begun
  <1>6. Closes(e, ret, now - e.at) <=> Answered(e, x)
    <2>1. now - e.at \in Nat
      BY <1>1
    <2> QED BY <1>1, <2>1, ClosesAtTheAnswer
  <1> HIDE DEF x, s
  <1>7. /\ s \in Seq(Shown) /\ Len(s) = n + 1 /\ (\A i \in 1..n : s[i] = e.samples[i])
        /\ s[n + 1] = x
        /\ f = [at |-> e.at, before |-> e.before, after |-> e.after, ret |-> e.ret,
                samples |-> s]
    BY <1>3, <1>4 DEF s
  <1> HIDE DEF f
  <1>8. f \in StepEvents /\ f.at = e.at
    BY <1>1, <1>7 DEF StepEvents
  <1>9. /\ f.after = e.after /\ f.before = e.before /\ f.ret = e.ret /\ f.samples = s
        /\ \A y : Answered(f, y) <=> Answered(e, y)
    BY <1>7 DEF Answered
  <1>10. /\ s[1] = [el |-> 0, flow |-> e.after, ret |-> e.ret]
         /\ \A i \in 2..n : ~Answered(e, s[i])
    <2>1. n \in Nat /\ 1 \in 1..n /\ \A i \in 2..n : i \in 1..n
      BY <1>5
    <2>2. s[1] = e.samples[1] /\ \A i \in 2..n : s[i] = e.samples[i]
      BY <1>7, <2>1
    <2> QED BY <1>5, <2>2
  <1>11. Abs(f.after - f.before) >= Threshold
    BY <1>9 DEF Begun
  <1>12. Closes(e, ret, now - e.at) => IsWhole(f)
    <2> HAVE Closes(e, ret, now - e.at)
    <2>1. n + 1 >= 2 /\ Answered(f, s[n + 1])
      <3>1. Answered(e, x)
        BY <1>6
      <3>2. s[n + 1] = x
        BY <1>7
      <3>3. Answered(f, s[n + 1])
        BY <3>1, <3>2, <1>9
      <3> QED BY <3>3, <1>5
    <2>2. \A i \in 2..(n + 1) - 1 : ~Answered(f, s[i])
      BY <1>5, <1>9, <1>10
    <2> QED BY <1>7, <1>9, <1>10, <1>11, <2>1, <2>2 DEF IsWhole
  <1>13. ~Closes(e, ret, now - e.at) => Begun(f)
    <2> HAVE ~Closes(e, ret, now - e.at)
    <2>1. \A i \in 2..n + 1 : ~Answered(f, s[i])
      <3> SUFFICES ASSUME NEW i \in 2..n + 1 PROVE ~Answered(f, s[i])
        OBVIOUS
      <3>1. CASE i = n + 1
        BY <3>1, <1>6, <1>7, <1>9
      <3>2. CASE i # n + 1
        BY <3>2, <1>5, <1>9, <1>10
      <3> QED BY <3>1, <3>2
    <2>2. s # <<>>
      BY <1>5, <1>7, EmptySeq
    <2> QED BY <1>7, <1>9, <1>10, <1>11, <2>1, <2>2 DEF Begun
  <1> QED BY <1>8, <1>12, <1>13 DEF f, x

(***************************************************************************)
(* The steps.                                                              *)
(***************************************************************************)

\* What the invariant says of the events.
LEMMA EventsAreTyped ==
    ASSUME TypeOK
    PROVE  Events \subseteq StepEvents /\ \A e \in Events : e.at \in 0..MaxTime
  BY DEF TypeOK, Events, StepEvents

LEMMA InitInvariant ==
    ASSUME Init
    PROVE  RInv
  <1>1. TypeOK
    <2>1. now \in 0..MaxTime /\ proc \in {"up", "final", "down"}
      BY RecorderConstants DEF Init
    <2>2. rings \in [Polled -> Seq(Samples)]
      BY DEF Init, NoRings
    <2>3. DOMAIN open = Polled /\ \A s \in Polled : AreBuckets(open[s])
      BY DEF Init, NoBuckets, AreBuckets
    <2>4. cache \in Seq(StepEvents) /\ Len(cache) <= MaxStepEvents /\ pending \subseteq StepEvents
      BY RecorderConstants DEF Init
    <2>5. disk \in [events : SUBSET StepEvents, means : [Polled -> SUBSET Samples]]
      BY RecorderAssumption DEF Init
    <2>6. flush \in [pc : {"idle", "taken"}, events : SUBSET StepEvents,
                     means : [Polled -> SUBSET Samples], cutoff : Int]
      BY DEF Init, Idle, NoMeans
    <2>7. sweep \in [at : 0..MaxTime, left : Seq([sensor : Polled, v : Int])]
          /\ IsRest(sweep.left)
      BY RecorderConstants, SweepRests DEF Init
    <2>8. /\ base \in Int \cup {Nothing} /\ active \in StepEvents \cup {Nothing}
          /\ age \in Nat
          /\ ticks \in [sweep : BOOLEAN, recorder : BOOLEAN, flush : BOOLEAN]
          /\ limits \in [units : 0..MaxUnits, mishaps : 0..MaxMishaps]
      BY RecorderConstants DEF Init, Unticked
    <2>9. seen \in [samples : [Polled -> Seq(Samples)], back : BOOLEAN, lost : BOOLEAN]
      <3>1. \A s \in Polled : Refilled(LeftBehind.means[s], StartTime) \in Seq(Samples)
        <4> TAKE s \in Polled
        <4>1. StartTime \in Int
          BY RecorderConstants
        <4> QED BY <4>1, MeansLeftBehind, RefilledRing
      <3> QED BY <3>1 DEF Init
    <2> QED BY <2>1, <2>2, <2>3, <2>4, <2>5, <2>6, <2>7, <2>8, <2>9 DEF TypeOK, IsRest
  <1>2. TablesInv
    <2>1. HasKeys({})
      BY DEF HasKeys
    <2>2. Kept(disk.events) = disk.events
      <3>1. \A e \in LeftBehind.events : e.at \in Int
        BY EventsLeftBehind, RecorderConstants DEF StepEvents
      <3> QED BY <3>1, EventsLeftBehind, KeptRows DEF Init
    <2>3. \A s \in Polled : IsOpen(open[s])
      BY DEF Init, NoBuckets, IsOpen, AreBuckets
    <2>4. \A s \in Polled : HasKeys(flush.means[s]) /\ HasKeys(disk.means[s])
      BY <2>1, MeansLeftBehind DEF Init, Idle, NoMeans
    <2> QED BY <2>1, <2>2, <2>3, <2>4, EventsLeftBehind DEF TablesInv, Init, Idle
  <1>3. QuietInv
    BY RecorderConstants DEF QuietInv, Init, Idle
  <1>4. BegunInv
    BY DEF BegunInv, Init
  <1>5. Events = LeftBehind.events
    BY DEF Events, Init, Idle
  <1>6. EventsAreWhole
    BY <1>5, EventsLeftBehind DEF EventsAreWhole, Init, Range
  <1>7. TimesInv
    BY <1>5, EventsLeftBehind DEF TimesInv, Init
  <1>8. CacheInv
    BY DEF CacheInv, Init
  <1> QED BY <1>1, <1>2, <1>3, <1>4, <1>6, <1>7, <1>8 DEF RInv

\* A step that leaves the events, the store's list and the clock alone.
LEMMA EventsUntouched ==
    ASSUME RInv, UNCHANGED <<now, proc, cache, pending, disk, flush, recorder, seen.back, seen.lost>>,
           ticks'.recorder = ticks.recorder
    PROVE  BegunInv' /\ EventsAreWhole' /\ TimesInv' /\ CacheInv'
  <1>1. /\ now' = now /\ proc' = proc /\ cache' = cache /\ pending' = pending /\ disk' = disk
        /\ flush' = flush /\ active' = active /\ seen'.back = seen.back
        /\ seen'.lost = seen.lost /\ Events' = Events
    BY DEF recorder, Events
  <1>2. BegunInv /\ EventsAreWhole /\ TimesInv /\ CacheInv
    BY DEF RInv
  <1> QED BY <1>1, <1>2 DEF BegunInv, EventsAreWhole, TimesInv, CacheInv

LEMMA SweepStartsKeeps ==
    ASSUME RInv, SweepStarts
    PROVE  RInv'
  <1>1. TypeOK /\ TablesInv /\ QuietInv
    BY DEF RInv
  <1>2. PICK f \in Situations : sweep' = [at |-> now, left |-> Found(f)]
    BY DEF SweepStarts
  <1>3. UNCHANGED <<now, proc, store, disk, flush, recorder, limits, seen>>
        /\ ticks' = [ticks EXCEPT !.sweep = TRUE] /\ proc = "up"
    BY DEF SweepStarts
  <1>4. IsRest(sweep'.left) /\ sweep' \in [at : 0..MaxTime, left : Seq([sensor : Polled, v : Int])]
    BY <1>1, <1>2, SweepRests DEF TypeOK
  <1>5. ticks' \in [sweep : BOOLEAN, recorder : BOOLEAN, flush : BOOLEAN]
        /\ ticks'.recorder = ticks.recorder
    BY <1>1, <1>3 DEF TypeOK
  <1>6. TypeOK'
    BY <1>1, <1>3, <1>4, <1>5 DEF TypeOK, IsRest, store, recorder
  <1>7. TablesInv'
    BY <1>1, <1>3 DEF TablesInv, store
  <1>8. QuietInv'
    BY <1>1, <1>3 DEF QuietInv
  <1>9. BegunInv' /\ EventsAreWhole' /\ TimesInv' /\ CacheInv'
    BY <1>3, <1>5, EventsUntouched DEF store
  <1> QED BY <1>6, <1>7, <1>8, <1>9 DEF RInv

\* The rest of a sweep after one sensor.
LEMMA NextSensor ==
    ASSUME TypeOK, sweep.left # <<>>, sweep' = [sweep EXCEPT !.left = Tail(@)]
    PROVE  /\ IsRest(sweep'.left)
           /\ sweep' \in [at : 0..MaxTime, left : Seq([sensor : Polled, v : Int])]
           /\ Head(sweep.left).sensor \in Polled /\ Head(sweep.left).v \in Int
  <1>1. IsRest(sweep.left) /\ sweep \in [at : 0..MaxTime, left : Seq([sensor : Polled, v : Int])]
    BY DEF TypeOK, IsRest
  <1>2. sweep'.left = Tail(sweep.left) /\ sweep' = [at |-> sweep.at, left |-> Tail(sweep.left)]
    BY <1>1
  <1>3. IsRest(Tail(sweep.left)) /\ Head(sweep.left).sensor \in Polled /\ Head(sweep.left).v \in Int
    BY <1>1, SweepRests
  <1>4. Tail(sweep.left) \in Seq([sensor : Polled, v : Int])
    BY <1>3, SweepRests
  <1> QED BY <1>1, <1>2, <1>3, <1>4

LEMMA SensorReadKeeps ==
    ASSUME RInv, SensorRead
    PROVE  RInv'
  <1> DEFINE s == Head(sweep.left).sensor
             v == Head(sweep.left).v
  <1>1. TypeOK /\ TablesInv /\ QuietInv
    BY DEF RInv
  <1>2. /\ sweep.left # <<>> /\ sweep' = [sweep EXCEPT !.left = Tail(@)]
        /\ rings' = [rings EXCEPT ![s] = Recorded(@, sweep.at, v)]
        /\ open' = [open EXCEPT ![s] = Added(@, sweep.at, v)]
        /\ seen' = [seen EXCEPT !.samples[s] = Append(@, [at |-> sweep.at, v |-> v])]
        /\ UNCHANGED <<now, proc, cache, pending, disk, flush, recorder, ticks, limits>>
    BY DEF SensorRead
  <1>3. /\ IsRest(sweep'.left) /\ s \in Polled /\ v \in Int /\ sweep.at \in 0..MaxTime
        /\ sweep' \in [at : 0..MaxTime, left : Seq([sensor : Polled, v : Int])]
    BY <1>1, <1>2, NextSensor DEF TypeOK
  <1> HIDE DEF s, v
  <1>4. rings' \in [Polled -> Seq(Samples)]
    <2>1. rings \in [Polled -> Seq(Samples)] /\ rings[s] \in Seq(Samples)
      BY <1>1, <1>3 DEF TypeOK
    <2>2. Recorded(rings[s], sweep.at, v) \in Seq(Samples)
      BY <1>3, <2>1, RecordedRing
    <2> QED BY <1>2, <2>1, <2>2
  <1>5. \A p \in Polled : IsOpen(open'[p])
    <2>1. DOMAIN open = Polled /\ \A p \in Polled : IsOpen(open[p])
      BY <1>1 DEF TypeOK, TablesInv
    <2>2. IsOpen(Added(open[s], sweep.at, v))
      BY <1>3, <2>1, AddedBuckets
    <2> QED BY <1>2, <2>1, <2>2
  <1>6. seen' \in [samples : [Polled -> Seq(Samples)], back : BOOLEAN, lost : BOOLEAN]
        /\ seen'.back = seen.back /\ seen'.lost = seen.lost
    <2> DEFINE x == [at |-> sweep.at, v |-> v]
    <2>1. /\ seen \in [samples : [Polled -> Seq(Samples)], back : BOOLEAN, lost : BOOLEAN]
          /\ seen.samples[s] \in Seq(Samples)
      BY <1>1, <1>3 DEF TypeOK
    <2>2. x \in Samples
      BY <1>3 DEF Samples
    <2>3. Append(seen.samples[s], x) \in Seq(Samples)
      <3> HIDE DEF x
      <3> QED BY <2>1, <2>2, AppendProperties
    <2>4. seen' = [seen EXCEPT !.samples[s] = Append(seen.samples[s], x)]
      BY <1>2
    <2> HIDE DEF x
    <2> QED BY <2>1, <2>3, <2>4
  <1>7. DOMAIN open' = Polled
    BY <1>1, <1>2 DEF TypeOK
  <1>8. TypeOK'
    BY <1>1, <1>2, <1>3, <1>4, <1>5, <1>6, <1>7 DEF TypeOK, IsRest, recorder, IsOpen
  <1>9. TablesInv'
    BY <1>1, <1>2, <1>5 DEF TablesInv
  <1>10. QuietInv'
    BY <1>1, <1>2 DEF QuietInv
  <1>11. BegunInv' /\ EventsAreWhole' /\ TimesInv' /\ CacheInv'
    BY <1>2, <1>6, EventsUntouched
  <1> QED BY <1>8, <1>9, <1>10, <1>11 DEF RInv

\* A mishap uses up one of them.
LEMMA MishapIsTyped ==
    ASSUME TypeOK, Mishap
    PROVE  limits' \in [units : 0..MaxUnits, mishaps : 0..MaxMishaps]
           /\ limits'.units = limits.units
  <1>1. limits \in [units : 0..MaxUnits, mishaps : 0..MaxMishaps] /\ limits.mishaps > 0
    BY DEF TypeOK, Mishap
  <1>2. limits.mishaps - 1 \in 0..MaxMishaps
    BY <1>1, RecorderConstants
  <1>3. limits' = [limits EXCEPT !.mishaps = limits.mishaps - 1]
    BY DEF Mishap
  <1> QED BY <1>1, <1>2, <1>3

LEMMA SensorMissedKeeps ==
    ASSUME RInv, SensorMissed
    PROVE  RInv'
  <1>1. TypeOK /\ TablesInv /\ QuietInv
    BY DEF RInv
  <1>2. /\ sweep.left # <<>> /\ Mishap /\ sweep' = [sweep EXCEPT !.left = Tail(@)]
        /\ UNCHANGED <<now, proc, store, disk, flush, recorder, ticks, seen>>
    BY DEF SensorMissed
  <1>3. /\ IsRest(sweep'.left)
        /\ sweep' \in [at : 0..MaxTime, left : Seq([sensor : Polled, v : Int])]
    BY <1>1, <1>2, NextSensor
  <1>4. TypeOK'
    BY <1>1, <1>2, <1>3, MishapIsTyped DEF TypeOK, IsRest, store, recorder
  <1>5. TablesInv'
    BY <1>1, <1>2 DEF TablesInv, store
  <1>6. QuietInv'
    BY <1>1, <1>2, MishapIsTyped DEF QuietInv
  <1>7. BegunInv' /\ EventsAreWhole' /\ TimesInv' /\ CacheInv'
    BY <1>2, EventsUntouched DEF store
  <1> QED BY <1>4, <1>5, <1>6, <1>7 DEF RInv

\* The sentinel tells a clock before the start of an event from any other.
LEMMA ElapsedIs ==
    ASSUME TypeOK, active # Nothing
    PROVE  /\ active.at \in Nat /\ now \in Nat
           /\ Elapsed(active.at) = Backstep <=> active.at > now
           /\ active.at <= now => Elapsed(active.at) = now - active.at
  <1>1. active.at \in Nat /\ now \in Nat
    BY RecorderConstants DEF TypeOK, StepEvents
  <1> QED BY <1>1 DEF Elapsed, Backstep

\* A tick that closes no event leaves the store alone.
LEMMA RecorderWaits ==
    ASSUME RInv, RecorderTick, UNCHANGED <<cache, pending>>,
           base' \in Int \cup {Nothing}, active' \in StepEvents \cup {Nothing},
           active' # Nothing =>
              /\ Begun(active')
              /\ \/ active # Nothing /\ active'.at = active.at
                 \/ active'.at = now
    PROVE  RInv'
  <1>1. TypeOK /\ TablesInv /\ QuietInv /\ EventsAreWhole /\ TimesInv /\ CacheInv
    BY DEF RInv
  <1>2. /\ UNCHANGED <<now, proc, rings, open, disk, flush, sweep, limits, seen>>
        /\ proc = "up" /\ ticks' = [ticks EXCEPT !.recorder = TRUE]
        /\ age' \in Nat
    BY <1>1 DEF RecorderTick, TypeOK
  <1>3. ticks' \in [sweep : BOOLEAN, recorder : BOOLEAN, flush : BOOLEAN] /\ ticks'.recorder
    BY <1>1, <1>2 DEF TypeOK
  <1>4. Events' = Events
    BY <1>2 DEF Events
  <1>5. TypeOK'
    BY <1>1, <1>2, <1>3 DEF TypeOK
  <1>6. TablesInv'
    BY <1>1, <1>2 DEF TablesInv
  <1>7. QuietInv'
    BY <1>1, <1>2 DEF QuietInv
  <1>8. BegunInv'
    BY DEF BegunInv, Begun, Answered, Abs
  <1>9. EventsAreWhole'
    BY <1>1, <1>4 DEF EventsAreWhole
  <1>10. TimesInv'
    <2> SUFFICES ASSUME ~seen.back
                 PROVE  TimesInv'
      BY <1>2 DEF TimesInv
    <2>1. /\ HasKeys(Events) /\ \A e \in Events : e.at < now
          /\ active # Nothing => /\ \A e \in Events : e.at < active.at
                                 /\ active.at <= now
      BY <1>1 DEF TimesInv
    <2>2. now \in Nat
      BY <1>1, RecorderConstants DEF TypeOK
    <2>3. active' # Nothing => /\ \A e \in Events : e.at < active'.at
                               /\ active'.at <= now
      BY <2>1, <2>2
    <2> QED BY <1>2, <1>3, <1>4, <2>1, <2>3 DEF TimesInv
  <1>11. CacheInv'
    BY <1>1, <1>2, <1>4 DEF CacheInv
  <1> QED BY <1>5, <1>6, <1>7, <1>8, <1>9, <1>10, <1>11 DEF RInv

LEMMA RecorderTickKeeps ==
    ASSUME RInv, RecorderTick
    PROVE  RInv'
  <1>1. TypeOK /\ TablesInv /\ QuietInv /\ BegunInv /\ EventsAreWhole /\ TimesInv /\ CacheInv
    BY DEF RInv
  <1>2. /\ UNCHANGED <<now, proc, rings, open, disk, flush, sweep, limits, seen>>
        /\ proc = "up" /\ ticks' = [ticks EXCEPT !.recorder = TRUE]
        /\ age' \in Nat
    BY <1>1 DEF RecorderTick, TypeOK
  <1>3. rings \in [Polled -> Seq(Samples)] /\ now \in 0..MaxTime /\ now \in Nat
        /\ base \in Int \cup {Nothing} /\ active \in StepEvents \cup {Nothing}
    BY <1>1, RecorderConstants DEF TypeOK
  <1>4. CASE ~Readable /\ UNCHANGED <<base, active, cache, pending>>
    BY <1>1, <1>3, <1>4, RecorderWaits DEF BegunInv
  <1>5. CASE Readable /\ ClockAnomaly
    BY <1>3, <1>5, ReadableTemperatures, RecorderWaits DEF ClockAnomaly
  <1>6. CASE Readable /\ FlowStable
    BY <1>3, <1>6, ReadableTemperatures, RecorderWaits DEF FlowStable
  <1>7. CASE Readable /\ StepDetected
    <2> DEFINE x == [el |-> 0, flow |-> Flow, ret |-> Return]
               e == [at |-> now, before |-> base, after |-> Flow, ret |-> Return,
                     samples |-> <<x>>]
    <2>1. /\ active' = e /\ UNCHANGED <<base, cache, pending>>
          /\ base # Nothing /\ Abs(Flow - base) >= Threshold
      BY <1>7 DEF StepDetected, IsStep
    <2>2. Flow \in Int /\ Return \in Int /\ base \in Int
      BY <1>3, <1>7, <2>1, ReadableTemperatures
    <2>3. <<x>> \in Seq([el : Nat, flow : Int, ret : Int]) /\ Len(<<x>>) = 1 /\ <<x>>[1] = x
      BY <2>2
    <2>4. e \in StepEvents
      <3> HIDE DEF x
      <3> QED BY <1>3, <2>2, <2>3 DEF StepEvents
    <2>5. Begun(e)
      <3>1. /\ e.after = Flow /\ e.before = base /\ e.ret = Return /\ e.samples = <<x>>
            /\ <<x>> # <<>> /\ 2..1 = {}
        OBVIOUS
      <3> HIDE DEF e
      <3> QED BY <2>1, <2>3, <3>1 DEF Begun
    <2>6. e.at = now
      OBVIOUS
    <2> HIDE DEF e
    <2> QED BY <1>3, <2>1, <2>4, <2>5, <2>6, RecorderWaits
  <1>8. CASE Readable /\ Observes
    <2> DEFINE x == [el |-> now - active.at, flow |-> Flow, ret |-> Return]
               e == [active EXCEPT !.samples = Append(@, x)]
    <2>1. /\ active # Nothing /\ active.at <= now /\ active \in StepEvents
          /\ Begun(active) /\ Elapsed(active.at) = now - active.at
      BY <1>1, <1>3, <1>8, ElapsedIs DEF Observes, BegunInv
    <2>2. Flow \in Int /\ Return \in Int
      BY <1>3, <1>8, ReadableTemperatures
    <2>3. /\ e \in StepEvents /\ e.at = active.at
          /\ Closes(active, Return, now - active.at) => IsWhole(e)
          /\ ~Closes(active, Return, now - active.at) => Begun(e)
      BY <1>3, <2>1, <2>2, ObservedEvent
    <2>4. \/ /\ Closes(active, Return, now - active.at)
             /\ cache' = Cached(e) /\ pending' = Inserted(pending, {e})
             /\ base' = Flow /\ active' = Nothing
          \/ /\ ~Closes(active, Return, now - active.at)
             /\ active' = e /\ UNCHANGED <<cache, pending, base>>
      BY <1>8, <2>1 DEF Observes
    <2> HIDE DEF e, x
    <2>5. CASE ~Closes(active, Return, now - active.at)
      BY <1>3, <2>1, <2>3, <2>4, <2>5, RecorderWaits
    <2>6. CASE Closes(active, Return, now - active.at)
      <3>1. /\ cache' = Cached(e) /\ pending' = Inserted(pending, {e})
            /\ base' = Flow /\ active' = Nothing /\ IsWhole(e) /\ e \in StepEvents
        BY <2>3, <2>4, <2>6
      <3>2. /\ cache' \in Seq(StepEvents) /\ Len(cache') <= MaxStepEvents
            /\ Range(cache') \subseteq Range(cache) \cup {e}
            /\ \A S \in SUBSET StepEvents :
                  (\A y \in S : y.at < e.at) /\ IsNewest(cache, S)
                  => IsNewest(cache', S \cup {e})
        BY <1>1, <3>1, CachedIsNewest DEF TypeOK
      <3>3. pending' \subseteq pending \cup {e} /\ HasKeys(pending') /\ e \in pending'
        <4>1. HasKeys({e}) /\ HasKeys(pending)
          BY <1>1 DEF HasKeys, TablesInv
        <4> QED BY <3>1, <4>1, InsertedRows
      <3>4. ticks' \in [sweep : BOOLEAN, recorder : BOOLEAN, flush : BOOLEAN]
        BY <1>1, <1>2 DEF TypeOK
      <3>5. TypeOK'
        <4>1. pending' \subseteq StepEvents
          BY <1>1, <3>1, <3>3 DEF TypeOK
        <4> QED BY <1>1, <1>2, <2>2, <3>1, <3>2, <3>4, <4>1 DEF TypeOK
      <3>6. TablesInv'
        BY <1>1, <1>2, <3>3 DEF TablesInv
      <3>7. QuietInv'
        BY <1>1, <1>2 DEF QuietInv
      <3>8. BegunInv'
        BY <3>1 DEF BegunInv
      <3>9. Events' \subseteq Events \cup {e}
        BY <1>2, <3>3 DEF Events
      <3>10. EventsAreWhole'
        <4>1. \A y : IsWhole(y)' <=> IsWhole(y)
          BY DEF IsWhole, Answered, Abs
        <4> QED BY <1>1, <3>1, <3>2, <3>9, <4>1 DEF EventsAreWhole
      <3>11. ASSUME ~seen.back
             PROVE  /\ \A y \in Events : y.at < e.at
                    /\ Events' = Events \cup {e}
                    /\ HasKeys(Events \cup {e})
                    /\ e.at < now
        <4>1. /\ HasKeys(Events)
              /\ \A y \in Events : y.at < active.at
              /\ active.at = now => ticks.recorder
          BY <1>1, <2>1, <3>11 DEF TimesInv
        <4>2. \A y \in Events : y.at < e.at /\ y.at \in Nat
          BY <1>1, <2>3, <4>1, EventsAreTyped
        <4>3. pending' = pending \cup {e}
          <5>1. \A y \in pending : y.at # e.at
            BY <4>2 DEF Events
          <5> QED BY <3>1, <5>1 DEF Inserted
        <4>4. ~ticks.recorder
          BY DEF RecorderTick
        <4>5. e.at < now
          BY <1>3, <2>1, <2>3, <4>1, <4>4 DEF StepEvents
        <4>6. HasKeys(Events \cup {e})
          BY <4>1, <4>2 DEF HasKeys
        <4>7. Events' = Events \cup {e}
          BY <1>2, <4>3 DEF Events
        <4> QED BY <4>2, <4>5, <4>6, <4>7
      <3>12. TimesInv'
        <4> SUFFICES ASSUME ~seen.back
                     PROVE  HasKeys(Events)' /\ \A y \in Events' : y.at < now
          BY <1>2, <3>1 DEF TimesInv
        <4>1. \A y \in Events : y.at < now
          BY <1>1 DEF TimesInv
        <4> QED BY <3>11, <4>1 DEF HasKeys
      <3>13. CacheInv'
        <4> SUFFICES ASSUME ~seen.back, ~seen.lost
                     PROVE  IsNewest(cache', Events')
          BY <1>2 DEF CacheInv
        <4>1. IsNewest(cache, Events) /\ Events \in SUBSET StepEvents
          BY <1>1, <1>2, EventsAreTyped DEF CacheInv
        <4> QED BY <3>2, <3>11, <4>1
      <3> QED BY <3>5, <3>6, <3>7, <3>8, <3>10, <3>12, <3>13 DEF RInv
    <2> QED BY <2>5, <2>6
  <1> QED BY <1>4, <1>5, <1>6, <1>7, <1>8 DEF RecorderTick

\* Taking what is pending moves it from one place to another.
LEMMA FlushTakesKeeps ==
    ASSUME RInv, FlushTakes, ticks' \in [sweep : BOOLEAN, recorder : BOOLEAN, flush : BOOLEAN],
           ticks'.recorder = ticks.recorder, UNCHANGED limits,
           proc # "down"
    PROVE  RInv'
  <1>1. TypeOK /\ TablesInv /\ QuietInv /\ BegunInv /\ EventsAreWhole /\ TimesInv /\ CacheInv
    BY DEF RInv
  <1>2. /\ flush.pc = "idle" /\ pending' = {}
        /\ flush' = [pc |-> "taken", events |-> pending,
                     means |-> [s \in Polled |-> Finalized(open[s], now)],
                     cutoff |-> now - Retention]
        /\ open' = [s \in Polled |-> StillOpen(open[s], now)]
        /\ UNCHANGED <<now, proc, rings, cache, disk, sweep, recorder, seen>>
    BY DEF FlushTakes
  <1>3. now \in Nat /\ now \in 0..MaxTime
    BY <1>1, RecorderConstants DEF TypeOK
  <1>4. ASSUME NEW s \in Polled
        PROVE  /\ Finalized(open[s], now) \subseteq Samples
               /\ HasKeys(Finalized(open[s], now))
               /\ IsOpen(StillOpen(open[s], now))
    BY <1>1, <1>3, FinalizedRows DEF TablesInv
  <1>5. flush' \in [pc : {"idle", "taken"}, events : SUBSET StepEvents,
                    means : [Polled -> SUBSET Samples], cutoff : Int]
    <2>1. [s \in Polled |-> Finalized(open[s], now)] \in [Polled -> SUBSET Samples]
      BY <1>4
    <2>2. now - Retention \in Int /\ pending \in SUBSET StepEvents
      BY <1>1, <1>3, RecorderConstants DEF TypeOK
    <2> QED BY <1>2, <2>1, <2>2
  <1>6. TypeOK'
    <2>1. DOMAIN open' = Polled /\ \A s \in Polled : AreBuckets(open'[s])
      BY <1>2, <1>4 DEF IsOpen
    <2> QED BY <1>1, <1>2, <1>5, <2>1 DEF TypeOK, recorder
  <1>7. TablesInv'
    <2>1. HasKeys(pending') /\ HasKeys(flush'.events)
      BY <1>1, <1>2 DEF TablesInv, HasKeys
    <2>2. \A s \in Polled : HasKeys(flush'.means[s]) /\ IsOpen(open'[s])
      BY <1>2, <1>4
    <2> QED BY <1>1, <1>2, <2>1, <2>2 DEF TablesInv
  <1>8. QuietInv'
    BY <1>1, <1>2 DEF QuietInv, recorder
  <1>9. Events' = Events
    <2>1. flush.events = {}
      BY <1>1, <1>2 DEF QuietInv, Idle
    <2> QED BY <1>2, <2>1 DEF Events
  <1>10. BegunInv' /\ EventsAreWhole' /\ TimesInv' /\ CacheInv'
    BY <1>1, <1>2, <1>9 DEF BegunInv, EventsAreWhole, TimesInv, CacheInv, recorder
  <1> QED BY <1>6, <1>7, <1>8, <1>10 DEF RInv

LEMMA HourlyFlushKeeps ==
    ASSUME RInv, HourlyFlush
    PROVE  RInv'
  <1>1. ticks \in [sweep : BOOLEAN, recorder : BOOLEAN, flush : BOOLEAN]
    BY DEF RInv, TypeOK
  <1>2. ticks' = [ticks EXCEPT !.flush = TRUE]
    BY DEF HourlyFlush
  <1>3. /\ ticks' \in [sweep : BOOLEAN, recorder : BOOLEAN, flush : BOOLEAN]
        /\ ticks'.recorder = ticks.recorder
    BY <1>1, <1>2
  <1> QED BY <1>3, FlushTakesKeeps DEF HourlyFlush

LEMMA FinalFlushKeeps ==
    ASSUME RInv, FinalFlush
    PROVE  RInv'
  BY FlushTakesKeeps DEF FinalFlush, RInv, TypeOK

\* The process after a flush: the last one ends it.
LEMMA ResumedProc ==
    ASSUME TypeOK
    PROVE  Resumed \in {"up", "final", "down"} /\ (Resumed # "down" => proc # "down")
  BY DEF TypeOK, Resumed

\* What is on disk after a commit.
LEMMA CommittedRows ==
    ASSUME TypeOK, TablesInv
    PROVE  LET all == Inserted(disk.events, flush.events)
           IN /\ all \subseteq StepEvents /\ HasKeys(all)
              /\ Kept(all) \subseteq all /\ HasKeys(Kept(all)) /\ Kept(Kept(all)) = Kept(all)
              /\ \A s \in Polled :
                    /\ Inserted(disk.means[s], flush.means[s]) \subseteq Samples
                    /\ HasKeys(Inserted(disk.means[s], flush.means[s]))
  <1> DEFINE all == Inserted(disk.events, flush.events)
  <1>1. HasKeys(all) /\ all \subseteq disk.events \cup flush.events
    BY InsertedRows DEF TablesInv
  <1>2. all \subseteq StepEvents
    BY <1>1 DEF TypeOK
  <1>3. \A e \in all : e.at \in 0..MaxTime /\ e.at \in Int
    BY <1>2, RecorderConstants DEF StepEvents
  <1>4. IsFiniteSet(all)
    BY <1>1, <1>3, TablesAreFinite
  <1>5. Kept(all) \subseteq all /\ HasKeys(Kept(all)) /\ Kept(Kept(all)) = Kept(all)
    BY <1>1, <1>3, <1>4, KeptRows
  <1>6. ASSUME NEW s \in Polled
        PROVE  /\ Inserted(disk.means[s], flush.means[s]) \subseteq Samples
               /\ HasKeys(Inserted(disk.means[s], flush.means[s]))
    <2>1. disk.means[s] \subseteq Samples /\ flush.means[s] \subseteq Samples
      BY DEF TypeOK
    <2>2. HasKeys(disk.means[s]) /\ HasKeys(flush.means[s])
      BY DEF TablesInv
    <2> QED BY <2>1, <2>2, InsertedRows
  <1> QED BY <1>1, <1>2, <1>5, <1>6

LEMMA FlushCommitsKeeps ==
    ASSUME RInv, FlushCommits
    PROVE  RInv'
  <1> DEFINE all == Inserted(disk.events, flush.events)
             rows(s) == {m \in Inserted(disk.means[s], flush.means[s]) : m.at >= flush.cutoff}
  <1>1. TypeOK /\ TablesInv /\ QuietInv /\ BegunInv /\ EventsAreWhole /\ TimesInv /\ CacheInv
    BY DEF RInv
  <1>2. /\ disk' = [events |-> Kept(all), means |-> [s \in Polled |-> rows(s)]]
        /\ flush' = Idle /\ proc' = Resumed /\ flush.pc = "taken"
        /\ UNCHANGED <<now, store, sweep, recorder, ticks, limits, seen>>
    BY DEF FlushCommits
  <1>3. /\ all \subseteq StepEvents /\ HasKeys(all)
        /\ Kept(all) \subseteq all /\ HasKeys(Kept(all)) /\ Kept(Kept(all)) = Kept(all)
        /\ \A s \in Polled : rows(s) \subseteq Samples /\ HasKeys(rows(s))
    <2>1. \A s \in Polled :
             /\ Inserted(disk.means[s], flush.means[s]) \subseteq Samples
             /\ HasKeys(Inserted(disk.means[s], flush.means[s]))
      BY <1>1, CommittedRows
    <2>2. \A s \in Polled : rows(s) \subseteq Samples /\ HasKeys(rows(s))
      BY <2>1 DEF HasKeys
    <2> QED BY <1>1, <2>2, CommittedRows
  <1> HIDE DEF rows
  <1>4. Idle \in [pc : {"idle", "taken"}, events : SUBSET StepEvents,
                  means : [Polled -> SUBSET Samples], cutoff : Int]
    BY DEF Idle, NoMeans
  <1>5. disk' \in [events : SUBSET StepEvents, means : [Polled -> SUBSET Samples]]
    <2>1. [s \in Polled |-> rows(s)] \in [Polled -> SUBSET Samples]
      BY <1>3
    <2>2. Kept(all) \in SUBSET StepEvents
      BY <1>3
    <2> HIDE DEF all
    <2> QED BY <1>2, <2>1, <2>2
  <1>6. TypeOK'
    BY <1>1, <1>2, <1>4, <1>5, ResumedProc DEF TypeOK, store, recorder
  <1>7. TablesInv'
    <2>1. HasKeys(Idle.events) /\ \A s \in Polled : HasKeys(Idle.means[s])
      BY DEF Idle, NoMeans, HasKeys
    <2>2. disk'.events = Kept(all) /\ \A s \in Polled : disk'.means[s] = rows(s)
      BY <1>2
    <2> HIDE DEF all
    <2> QED BY <1>1, <1>2, <1>3, <2>1, <2>2 DEF TablesInv, store
  <1>8. QuietInv'
    <2>1. proc # "down"
      BY <1>1, <1>2 DEF QuietInv
    <2>2. proc' # "up" => proc # "up"
      BY <1>1, <1>2 DEF TypeOK, Resumed
    <2> QED BY <1>1, <1>2, <2>1, <2>2 DEF QuietInv, Idle, recorder
  <1>9. BegunInv'
    BY <1>1, <1>2 DEF BegunInv, Begun, Answered, Abs, recorder
  <1>10. Events' \subseteq Events
    <2>1. all \subseteq disk.events \cup flush.events
      BY <1>1, InsertedRows DEF TablesInv
    <2>2. disk'.events = Kept(all) /\ flush'.events = {} /\ pending' = pending
      BY <1>2 DEF Idle, store
    <2> HIDE DEF all
    <2> QED BY <1>3, <2>1, <2>2 DEF Events
  <1>11. EventsAreWhole'
    <2>1. \A y : IsWhole(y)' <=> IsWhole(y)
      BY DEF IsWhole, Answered, Abs
    <2> QED BY <1>1, <1>2, <1>10, <2>1 DEF EventsAreWhole, store
  <1>12. TimesInv'
    BY <1>1, <1>2, <1>10 DEF TimesInv, HasKeys, recorder
  <1>13. CacheInv'
    <2> SUFFICES ASSUME proc # "down", ~seen.back, ~seen.lost
                 PROVE  IsNewest(cache, Events')
      BY <1>1, <1>2, ResumedProc DEF CacheInv, store
    <2> DEFINE A == disk.events \cup flush.events
    <2>1. HasKeys(A \cup pending) /\ A \cup pending = Events
      BY <1>1 DEF TimesInv, Events
    <2>2. all = A
      BY <2>1 DEF Inserted, HasKeys
    <2>3. Events' = Kept(A) \cup pending
      <3>1. disk'.events = Kept(all) /\ flush'.events = {} /\ pending' = pending
        BY <1>2 DEF Idle, store
      <3> HIDE DEF all, A
      <3> QED BY <2>2, <3>1 DEF Events
    <2>4. IsNewest(cache, A \cup pending) /\ A \cup pending \subseteq StepEvents
      BY <1>1, <2>1, EventsAreTyped DEF CacheInv
    <2>5. cache \in Seq(StepEvents) /\ Len(cache) <= MaxStepEvents
      BY <1>1 DEF TypeOK
    <2> HIDE DEF A
    <2> QED BY <2>1, <2>3, <2>4, <2>5, PrunedAreNotServed
  <1> QED BY <1>6, <1>7, <1>8, <1>9, <1>11, <1>12, <1>13 DEF RInv

LEMMA FlushFailsKeeps ==
    ASSUME RInv, FlushFails
    PROVE  RInv'
  <1>1. TypeOK /\ TablesInv /\ QuietInv /\ BegunInv /\ EventsAreWhole /\ TimesInv /\ CacheInv
    BY DEF RInv
  <1>2. /\ flush.pc = "taken" /\ Mishap /\ flush' = Idle /\ proc' = Resumed
        /\ seen' = [seen EXCEPT !.lost = TRUE]
        /\ UNCHANGED <<now, store, disk, sweep, recorder, ticks>>
    BY DEF FlushFails
  <1>3. Idle \in [pc : {"idle", "taken"}, events : SUBSET StepEvents,
                  means : [Polled -> SUBSET Samples], cutoff : Int]
        /\ Idle.events = {} /\ HasKeys(Idle.events)
        /\ \A s \in Polled : HasKeys(Idle.means[s])
    BY DEF Idle, NoMeans, HasKeys
  <1>4. seen' \in [samples : [Polled -> Seq(Samples)], back : BOOLEAN, lost : BOOLEAN]
        /\ seen'.lost /\ seen'.back = seen.back
    BY <1>1, <1>2 DEF TypeOK
  <1>5. TypeOK'
    BY <1>1, <1>2, <1>3, <1>4, ResumedProc, MishapIsTyped DEF TypeOK, store, recorder
  <1>6. TablesInv'
    BY <1>1, <1>2, <1>3 DEF TablesInv, store
  <1>7. QuietInv'
    <2>1. (proc' # "up" => proc # "up") /\ proc # "down"
      BY <1>1, <1>2 DEF TypeOK, Resumed, QuietInv
    <2> QED BY <1>1, <1>2, <2>1, MishapIsTyped DEF QuietInv, Idle, recorder
  <1>8. Events' \subseteq Events
    BY <1>2, <1>3 DEF Events, store
  <1>9. \A y : IsWhole(y)' <=> IsWhole(y)
    BY DEF IsWhole, Answered, Abs
  <1>10. BegunInv' /\ EventsAreWhole'
    BY <1>1, <1>2, <1>8, <1>9 DEF BegunInv, EventsAreWhole, recorder, store, Begun, Answered, Abs
  <1>11. TimesInv' /\ CacheInv'
    BY <1>1, <1>2, <1>4, <1>8 DEF TimesInv, CacheInv, HasKeys, recorder
  <1> QED BY <1>5, <1>6, <1>7, <1>10, <1>11 DEF RInv

LEMMA StopsKeeps ==
    ASSUME RInv, Stops
    PROVE  RInv'
  <1>1. TypeOK /\ TablesInv /\ QuietInv /\ EventsAreWhole /\ TimesInv /\ CacheInv
    BY DEF RInv
  <1>2. /\ proc = "up" /\ Mishap /\ proc' = "final" /\ active' = Nothing /\ base' = Nothing /\ age' = 0
        /\ sweep' = [sweep EXCEPT !.left = <<>>]
        /\ UNCHANGED <<now, store, disk, flush, ticks, seen>>
    BY DEF Stops
  <1>3. /\ sweep' \in [at : 0..MaxTime, left : Seq([sensor : Polled, v : Int])]
        /\ sweep'.left = <<>> /\ IsRest(sweep'.left)
    BY <1>1, <1>2, SweepRests DEF TypeOK
  <1>4. TypeOK'
    BY <1>1, <1>2, <1>3, MishapIsTyped DEF TypeOK, IsRest, store
  <1>5. TablesInv'
    BY <1>1, <1>2 DEF TablesInv, store
  <1>6. QuietInv'
    BY <1>1, <1>2, <1>3, MishapIsTyped DEF QuietInv
  <1>7. Events' = Events
    BY <1>2 DEF Events, store
  <1>8. BegunInv' /\ EventsAreWhole' /\ TimesInv' /\ CacheInv'
    BY <1>1, <1>2, <1>7 DEF BegunInv, EventsAreWhole, TimesInv, CacheInv, store
  <1> QED BY <1>4, <1>5, <1>6, <1>8 DEF RInv

LEMMA DiesKeeps ==
    ASSUME RInv, Dies
    PROVE  RInv'
  <1>1. TypeOK /\ TablesInv /\ QuietInv /\ EventsAreWhole /\ TimesInv
    BY DEF RInv
  <1>2. /\ Mishap /\ proc' = "down" /\ active' = Nothing /\ base' = Nothing /\ age' = 0
        /\ sweep' = [sweep EXCEPT !.left = <<>>] /\ flush' = Idle
        /\ UNCHANGED <<now, store, disk, ticks, seen>>
    BY DEF Dies
  <1>3. /\ sweep' \in [at : 0..MaxTime, left : Seq([sensor : Polled, v : Int])]
        /\ sweep'.left = <<>> /\ IsRest(sweep'.left)
    BY <1>1, <1>2, SweepRests DEF TypeOK
  <1>4. Idle \in [pc : {"idle", "taken"}, events : SUBSET StepEvents,
                  means : [Polled -> SUBSET Samples], cutoff : Int]
        /\ Idle.events = {} /\ HasKeys(Idle.events)
        /\ \A s \in Polled : HasKeys(Idle.means[s])
    BY DEF Idle, NoMeans, HasKeys
  <1>5. TypeOK'
    BY <1>1, <1>2, <1>3, <1>4, MishapIsTyped DEF TypeOK, IsRest, store
  <1>6. TablesInv'
    BY <1>1, <1>2, <1>4 DEF TablesInv, store
  <1>7. QuietInv'
    BY <1>1, <1>2, <1>3, MishapIsTyped DEF QuietInv, Idle
  <1>8. Events' \subseteq Events
    BY <1>2, <1>4 DEF Events, store
  <1>9. \A y : IsWhole(y)' <=> IsWhole(y)
    BY DEF IsWhole, Answered, Abs
  <1>10. BegunInv' /\ EventsAreWhole' /\ TimesInv' /\ CacheInv'
    BY <1>1, <1>2, <1>8, <1>9 DEF BegunInv, EventsAreWhole, TimesInv, CacheInv, HasKeys, store
  <1> QED BY <1>5, <1>6, <1>7, <1>10 DEF RInv

\* What a process reads when it opens the database.
LEMMA OpensKeeps ==
    ASSUME RInv, Opens
    PROVE  RInv'
  <1>1. TypeOK /\ TablesInv /\ QuietInv /\ EventsAreWhole /\ TimesInv
    BY DEF RInv
  <1>2. /\ proc = "down" /\ proc' = "up"
        /\ rings' = [s \in Polled |-> Refilled(disk.means[s], now)]
        /\ open' = NoBuckets /\ cache' = HydratedEvents(disk.events) /\ pending' = {}
        /\ ticks' = Unticked /\ seen' = [seen EXCEPT !.samples = rings', !.lost = FALSE]
        /\ UNCHANGED <<now, disk, flush, sweep, recorder, limits>>
    BY DEF Opens
  <1>3. rings' \in [Polled -> Seq(Samples)]
    <2>1. ASSUME NEW s \in Polled
          PROVE  Refilled(disk.means[s], now) \in Seq(Samples)
      <3>1. HasKeys(disk.means[s]) /\ disk.means[s] \subseteq Samples /\ now \in Int
        BY <1>1, RecorderConstants DEF TablesInv, TypeOK
      <3>2. IsFiniteSet(disk.means[s])
        BY <3>1, TablesAreFinite DEF Samples
      <3> QED BY <3>1, <3>2, RefilledRing
    <2> QED BY <1>2, <2>1
  <1>4. /\ seen' \in [samples : [Polled -> Seq(Samples)], back : BOOLEAN, lost : BOOLEAN]
        /\ seen'.back = seen.back
    BY <1>1, <1>2, <1>3 DEF TypeOK
  <1> DEFINE S == disk.events
             n == Cardinality(S)
  <1>5. /\ S \subseteq StepEvents /\ HasKeys(S) /\ Kept(S) = S
        /\ \A e \in S : e.at \in 0..MaxTime /\ e.at \in Int
    <2>1. S \subseteq StepEvents
      BY <1>1 DEF TypeOK
    <2>2. HasKeys(S) /\ Kept(S) = S
      BY <1>1 DEF TablesInv
    <2> HIDE DEF S
    <2> QED BY <2>1, <2>2, RecorderConstants DEF StepEvents
  <1>6. IsFiniteSet(S)
    BY <1>5, TablesAreFinite
  <1>7. n \in Nat /\ n <= MaxStepEvents
    <2>1. Cardinality(Kept(S)) <= MaxStepEvents
      BY <1>5, <1>6, KeptRows
    <2> QED BY <2>1, <1>5, <1>6, FS_CardinalityType
  <1>8. /\ cache' \in [1..n -> S]
        /\ \A i, j \in 1..n : i < j => cache'[i].at > cache'[j].at
        /\ \A x \in S : \E i \in 1..n : cache'[i] = x
    <2>1. cache' = NewestFirst(S)
      BY <1>2, <1>5 DEF HydratedEvents
    <2> HIDE DEF S
    <2> QED BY <2>1, <1>5, <1>6, NewestFirstLists
  <1> HIDE DEF n
  <1>9. /\ cache' \in Seq(S) /\ Len(cache') = n /\ DOMAIN cache' = 1..n
    BY <1>7, <1>8, ListIsSeq
  <1>10. cache' \in Seq(StepEvents) /\ Len(cache') <= MaxStepEvents /\ Range(cache') = S
    <2>1. cache' \in Seq(StepEvents)
      <3> HIDE DEF S
      <3> QED BY <1>5, <1>9, SeqMonotonic
    <2>2. Range(cache') = S
      <3> HIDE DEF S
      <3> QED BY <1>8, <1>9 DEF Range
    <2> QED BY <2>1, <2>2, <1>7, <1>9
  <1>11. Events' = S
    <2>1. flush.events = {}
      BY <1>1, <1>2 DEF QuietInv, Idle
    <2> QED BY <1>2, <2>1 DEF Events
  <1>12. TypeOK'
    <2>1. DOMAIN open' = Polled /\ \A s \in Polled : AreBuckets(open'[s])
      BY <1>2 DEF NoBuckets, AreBuckets
    <2>2. ticks' \in [sweep : BOOLEAN, recorder : BOOLEAN, flush : BOOLEAN]
      BY <1>2 DEF Unticked
    <2> QED BY <1>1, <1>2, <1>3, <1>4, <1>10, <2>1, <2>2 DEF TypeOK, recorder
  <1>13. TablesInv'
    <2>1. \A s \in Polled : IsOpen(open'[s])
      BY <1>2 DEF NoBuckets, AreBuckets, IsOpen
    <2>2. HasKeys(pending')
      BY <1>2 DEF HasKeys
    <2> QED BY <1>1, <1>2, <2>1, <2>2 DEF TablesInv
  <1>14. QuietInv'
    BY <1>1, <1>2 DEF QuietInv
  <1>15. BegunInv'
    BY <1>1, <1>2 DEF BegunInv, QuietInv, recorder
  <1>16. EventsAreWhole'
    <2>1. \A y : IsWhole(y)' <=> IsWhole(y)
      BY DEF IsWhole, Answered, Abs
    <2> QED BY <1>1, <1>10, <1>11, <2>1 DEF EventsAreWhole, Events
  <1>17. TimesInv'
    BY <1>1, <1>2, <1>4, <1>5, <1>11 DEF TimesInv, QuietInv, recorder, Events
  <1>18. CacheInv'
    <2>1. IsNewest(cache', S)
      <3> HIDE DEF S
      <3> QED BY <1>8, <1>9, <1>10 DEF IsNewest
    <2> QED BY <1>11, <2>1 DEF CacheInv
  <1> QED BY <1>12, <1>13, <1>14, <1>15, <1>16, <1>17, <1>18 DEF RInv

LEMMA TimePassesKeeps ==
    ASSUME RInv, TimePasses
    PROVE  RInv'
  <1>1. TypeOK /\ TablesInv /\ QuietInv /\ BegunInv /\ EventsAreWhole /\ TimesInv /\ CacheInv
    BY DEF RInv
  <1>2. /\ limits.units > 0 /\ limits' = [limits EXCEPT !.units = @ - 1]
        /\ now' = now + 1 /\ ticks' = Unticked
        /\ age' = IF active = Nothing THEN 0 ELSE age + 1
        /\ UNCHANGED <<proc, store, disk, flush, sweep, base, active, seen>>
    BY DEF TimePasses
  <1>3. limits \in [units : 0..MaxUnits, mishaps : 0..MaxMishaps] /\ now \in 0..MaxTime
        /\ now + limits.units <= MaxTime
    BY <1>1 DEF TypeOK, QuietInv
  <1>4. /\ limits' \in [units : 0..MaxUnits, mishaps : 0..MaxMishaps]
        /\ limits'.units = limits.units - 1 /\ now' \in 0..MaxTime
        /\ now' + limits'.units <= MaxTime
    <2>1. limits.units - 1 \in 0..MaxUnits /\ now + 1 \in 0..MaxTime
          /\ (now + 1) + (limits.units - 1) <= MaxTime
      <3>1. PICK u \in Nat : u = limits.units /\ u > 0 /\ u <= MaxUnits
        BY <1>2, <1>3, RecorderConstants
      <3>2. now \in Nat /\ now + u <= MaxTime
        BY <1>3, <3>1, RecorderConstants
      <3> QED BY <3>1, <3>2, RecorderConstants
    <2>2. limits' \in [units : 0..MaxUnits, mishaps : 0..MaxMishaps]
          /\ limits'.units = limits.units - 1
      BY <1>2, <1>3, <2>1
    <2> QED BY <1>2, <2>1, <2>2
  <1>5. ticks' \in [sweep : BOOLEAN, recorder : BOOLEAN, flush : BOOLEAN] /\ age' \in Nat
    <2>1. age \in Nat
      BY <1>1 DEF TypeOK
    <2> QED BY <1>2, <2>1 DEF Unticked
  <1>6. TypeOK'
    BY <1>1, <1>2, <1>4, <1>5 DEF TypeOK, store
  <1>7. TablesInv'
    BY <1>1, <1>2 DEF TablesInv, store
  <1>8. QuietInv'
    BY <1>1, <1>2, <1>4 DEF QuietInv
  <1>9. Events' = Events
    BY <1>2 DEF Events, store
  <1>10. BegunInv' /\ EventsAreWhole' /\ CacheInv'
    BY <1>1, <1>2, <1>9 DEF BegunInv, EventsAreWhole, CacheInv, store
  <1>11. TimesInv'
    <2> SUFFICES ASSUME ~seen.back
                 PROVE  TimesInv'
      BY <1>2 DEF TimesInv
    <2>1. /\ HasKeys(Events) /\ \A e \in Events : e.at < now /\ e.at \in Nat
          /\ active # Nothing => /\ \A e \in Events : e.at < active.at
                                 /\ active.at <= now /\ active.at \in Nat
      <3>1. active # Nothing => active \in StepEvents
        BY <1>1 DEF TypeOK
      <3>2. \A e \in Events : e.at \in Nat
        BY <1>1, RecorderConstants, EventsAreTyped
      <3>3. active # Nothing => active.at \in Nat
        BY <3>1, RecorderConstants DEF StepEvents
      <3> QED BY <1>1, <3>2, <3>3 DEF TimesInv
    <2>2. now \in Nat /\ now' = now + 1
      BY <1>2, <1>3, RecorderConstants
    <2>3. /\ \A e \in Events : e.at < now'
          /\ active # Nothing => active.at < now'
      BY <2>1, <2>2
    <2>4. active' = active
      BY <1>2
    <2>5. active # Nothing => active.at <= now' /\ active.at # now'
      BY <2>1, <2>2
    <2> QED BY <2>1, <2>3, <2>4, <2>5, <1>9 DEF TimesInv
  <1> QED BY <1>6, <1>7, <1>8, <1>10, <1>11 DEF RInv

LEMMA ClockSetBackKeeps ==
    ASSUME RInv, ClockSetBack
    PROVE  RInv'
  <1>1. TypeOK /\ TablesInv /\ QuietInv /\ BegunInv /\ EventsAreWhole
    BY DEF RInv
  <1>2. /\ Mishap /\ now' \in SetBackTo /\ now' < now /\ seen' = [seen EXCEPT !.back = TRUE]
        /\ ticks' = Unticked /\ age' = 0
        /\ UNCHANGED <<proc, store, disk, flush, sweep, base, active>>
    BY DEF ClockSetBack
  <1>3. seen' \in [samples : [Polled -> Seq(Samples)], back : BOOLEAN, lost : BOOLEAN]
        /\ seen'.back
    BY <1>1, <1>2 DEF TypeOK
  <1>4. now' \in 0..MaxTime /\ now' + limits'.units <= MaxTime
    <2>1. now \in 0..MaxTime /\ limits'.units = limits.units /\ now + limits.units <= MaxTime
          /\ limits.units \in 0..MaxUnits
      BY <1>1, <1>2, MishapIsTyped DEF TypeOK, QuietInv
    <2>2. now' \in Nat /\ now' < now
      BY <1>2, RecorderConstants
    <2> QED BY <2>1, <2>2, RecorderConstants
  <1>5. ticks' \in [sweep : BOOLEAN, recorder : BOOLEAN, flush : BOOLEAN]
    BY <1>2 DEF Unticked
  <1>6. TypeOK'
    BY <1>1, <1>2, <1>3, <1>4, <1>5, MishapIsTyped DEF TypeOK, store
  <1>7. TablesInv'
    BY <1>1, <1>2 DEF TablesInv, store
  <1>8. QuietInv'
    BY <1>1, <1>2, <1>4 DEF QuietInv
  <1>9. Events' = Events
    BY <1>2 DEF Events, store
  <1>10. BegunInv' /\ EventsAreWhole' /\ TimesInv' /\ CacheInv'
    BY <1>1, <1>2, <1>3, <1>9
    DEF BegunInv, EventsAreWhole, TimesInv, CacheInv, store
  <1> QED BY <1>6, <1>7, <1>8, <1>10 DEF RInv

LEMMA StutterKeeps ==
    ASSUME RInv, UNCHANGED vars
    PROVE  RInv'
  <1>1. TypeOK'
    BY DEF RInv, vars, store, recorder, TypeOK
  <1>2. TablesInv' /\ QuietInv' /\ BegunInv'
    BY DEF RInv, vars, store, recorder, TablesInv, QuietInv, BegunInv
  <1>3. Events' = Events
    BY DEF Events, vars, store
  <1>4. EventsAreWhole' /\ TimesInv' /\ CacheInv'
    BY <1>3 DEF RInv, vars, store, recorder, EventsAreWhole, TimesInv, CacheInv
  <1> QED BY <1>1, <1>2, <1>4 DEF RInv

LEMMA NextInvariant ==
    ASSUME RInv, [Next]_vars
    PROVE  RInv'
  BY SweepStartsKeeps, SensorReadKeeps, SensorMissedKeeps, RecorderTickKeeps,
     HourlyFlushKeeps, FinalFlushKeeps, FlushCommitsKeeps, FlushFailsKeeps, StopsKeeps,
     DiesKeeps, OpensKeeps, TimePassesKeeps, ClockSetBackKeeps, StutterKeeps DEF Next

(***************************************************************************)
(* The theorems.                                                           *)
(***************************************************************************)

\* Whatever the sensors say, however often the process dies, stops or opens the
\* database, and wherever the clock is set: RInv.
THEOREM RecorderInvariant == Spec => []RInv
  <1>1. Init => RInv
    BY InitInvariant
  <1>2. RInv /\ [Next]_vars => RInv'
    BY NextInvariant
  <1> QED BY <1>1, <1>2, PTL DEF Spec

\* The store, the poller and the recorder keep what their types promise; the
\* list of events never outgrows MAX_STEP_EVENTS (storage/mod.rs:534).
THEOREM RecorderTypeCorrect == Spec => []TypeOK
  <1>1. RInv => TypeOK
    BY DEF RInv
  <1> QED BY <1>1, RecorderInvariant, PTL

\* Every event that is served, pending or written is whole: it starts with a
\* step and ends with its answer (step_detector.rs:91).
THEOREM WholeCorrect == Spec => []EventsAreWhole
  <1>1. RInv => EventsAreWhole
    BY DEF RInv
  <1> QED BY <1>1, RecorderInvariant, PTL

\* The events that are served are those a restart would serve (storage/mod.rs:338).
THEOREM ServedCorrect == Spec => []ServedEventsAreKept
  <1>1. ASSUME RInv
        PROVE  ServedEventsAreKept
    <2> SUFFICES ASSUME proc = "up", ~seen.back, ~seen.lost
                 PROVE  cache = HydratedEvents(Events)
      BY DEF ServedEventsAreKept, GetStepResponse
    <2>1. IsNewest(cache, Events) /\ HasKeys(Events)
      BY <1>1 DEF RInv, CacheInv, TimesInv
    <2>2. /\ cache \in Seq(StepEvents) /\ Len(cache) <= MaxStepEvents
          /\ Events \subseteq StepEvents
      BY <1>1, EventsAreTyped DEF RInv, TypeOK
    <2> QED BY <2>1, <2>2, NewestAreKept
  <1> QED BY <1>1, RecorderInvariant, PTL

(***************************************************************************)
(* The end of events.                                                      *)
(***************************************************************************)

\* An event in progress has its two temperatures.  The clock shows at least the
\* age of the event, or stands before its start until the next tick drops it;
\* a tick leaves no event open whose window is over.
EndsInv ==
    active # Nothing =>
        /\ Readable
        /\ age <= Observe
        /\ active.at > now => ~ticks.recorder /\ age = 0
        /\ active.at <= now => age <= now - active.at
        /\ active.at <= now /\ ticks.recorder => now - active.at < Observe

\* A step that leaves the recorder, the clock and the recorder's tick alone, and
\* takes neither temperature away.
LEMMA EndsUntouched ==
    ASSUME EndsInv, UNCHANGED <<now, recorder>>, ticks'.recorder = ticks.recorder,
           active # Nothing /\ Readable => Readable'
    PROVE  EndsInv'
  <1>1. active' = active /\ age' = age /\ now' = now
    BY DEF recorder
  <1> QED BY <1>1 DEF EndsInv

LEMMA SensorReadEnds ==
    ASSUME RInv, EndsInv, SensorRead
    PROVE  EndsInv'
  <1> DEFINE s == Head(sweep.left).sensor
             v == Head(sweep.left).v
  <1>1. TypeOK
    BY DEF RInv
  <1>2. /\ sweep.left # <<>> /\ sweep' = [sweep EXCEPT !.left = Tail(@)]
        /\ rings' = [rings EXCEPT ![s] = Recorded(@, sweep.at, v)]
        /\ UNCHANGED <<now, recorder, ticks>>
    BY DEF SensorRead
  <1>3. s \in Polled /\ v \in Int /\ sweep.at \in 0..MaxTime
    BY <1>1, <1>2, NextSensor DEF TypeOK
  <1> HIDE DEF s, v
  <1>4. rings \in [Polled -> Seq(Samples)]
    BY <1>1 DEF TypeOK
  <1>5. Recorded(rings[s], sweep.at, v) # <<>>
    <2>1. rings[s] \in Seq(Samples)
      BY <1>3, <1>4
    <2> QED BY <1>3, <2>1, RecordedRing
  <1>6. Readable => Readable'
    BY <1>2, <1>3, <1>4, <1>5, RecorderConstants DEF Readable
  <1> QED BY <1>2, <1>6, EndsUntouched

LEMMA RecorderTickEnds ==
    ASSUME RInv, EndsInv, RecorderTick
    PROVE  EndsInv'
  <1>1. /\ TypeOK /\ now \in Nat /\ age \in Nat /\ Observe \in Nat \ {0}
        /\ ticks \in [sweep : BOOLEAN, recorder : BOOLEAN, flush : BOOLEAN]
    <2>1. TypeOK
      BY DEF RInv
    <2>2. /\ now \in Nat /\ age \in Nat /\ Observe \in Nat \ {0}
          /\ ticks \in [sweep : BOOLEAN, recorder : BOOLEAN, flush : BOOLEAN]
      BY <2>1, RecorderConstants DEF TypeOK
    <2> QED BY <2>1, <2>2
  <1>2. /\ now' = now /\ rings' = rings /\ ~ticks.recorder /\ ticks'.recorder
        /\ age' = IF Nothing \in {active, active'} THEN 0 ELSE age
    BY <1>1 DEF RecorderTick
  <1>3. Readable' <=> Readable
    BY <1>2 DEF Readable
  <1>4. CASE ~Readable /\ UNCHANGED <<base, active, cache, pending>>
    BY <1>4 DEF EndsInv
  <1>5. CASE Readable /\ ClockAnomaly
    BY <1>5 DEF EndsInv, ClockAnomaly
  <1>6. CASE Readable /\ FlowStable
    BY <1>6 DEF EndsInv, FlowStable
  <1>7. CASE Readable /\ StepDetected
    <2>1. active = Nothing /\ active'.at = now
      BY <1>7 DEF StepDetected
    <2>2. age' = 0
      BY <1>2, <2>1
    <2> QED BY <1>1, <1>2, <1>3, <1>7, <2>1, <2>2 DEF EndsInv
  <1>8. CASE Readable /\ Observes
    <2> SUFFICES ASSUME active' # Nothing PROVE EndsInv'
      BY DEF EndsInv
    <2>1. /\ active # Nothing /\ active.at \in Nat /\ active.at <= now
          /\ Elapsed(active.at) = now - active.at
      BY <1>1, <1>8, ElapsedIs DEF Observes
    <2>2. active'.at = active.at /\ ~Closes(active, Return, now - active.at)
      <3> DEFINE x == [el |-> now - active.at, flow |-> Flow, ret |-> Return]
      <3>1. active' = [active EXCEPT !.samples = Append(@, x)]
            /\ ~Closes(active, Return, now - active.at)
        BY <1>8, <2>1 DEF Observes
      <3>2. active \in StepEvents
        BY <1>1, <2>1 DEF TypeOK
      <3> HIDE DEF x
      <3> QED BY <3>1, <3>2 DEF StepEvents
    <2>3. now - active.at < Observe
      BY <1>1, <2>1, <2>2 DEF Closes
    <2>4. age' = age /\ age <= now - active.at
      BY <1>2, <2>1 DEF EndsInv
    <2> QED BY <1>1, <1>2, <1>3, <1>8, <2>1, <2>2, <2>3, <2>4 DEF EndsInv
  <1> QED BY <1>4, <1>5, <1>6, <1>7, <1>8 DEF RecorderTick

\* Time passes after a tick: the event it left open had not had its window.
LEMMA TimePassesEnds ==
    ASSUME RInv, EndsInv, TimePasses
    PROVE  EndsInv'
  <1>1. /\ active' = active /\ now' = now + 1 /\ rings' = rings /\ ~ticks'.recorder
        /\ age' = IF active = Nothing THEN 0 ELSE age + 1
        /\ proc = "up" => ticks.recorder
    BY DEF TimePasses, store, Unticked
  <1> SUFFICES ASSUME active # Nothing PROVE EndsInv'
    BY <1>1 DEF EndsInv
  <1>2. active.at \in Nat /\ now \in Nat /\ age \in Nat /\ Observe \in Nat
    BY ElapsedIs, RecorderConstants DEF RInv, TypeOK
  <1>3. ticks.recorder
    BY <1>1 DEF RInv, QuietInv
  <1>4. active.at <= now /\ age <= now - active.at /\ now - active.at < Observe
    BY <1>2, <1>3 DEF EndsInv
  <1>5. Readable'
    BY <1>1 DEF EndsInv, Readable
  <1>6. age' = age + 1 /\ age' <= Observe /\ active'.at <= now' /\ age' <= now' - active'.at
    BY <1>1, <1>2, <1>4
  <1> QED BY <1>1, <1>2, <1>5, <1>6 DEF EndsInv

LEMMA ClockSetBackEnds ==
    ASSUME RInv, EndsInv, ClockSetBack
    PROVE  EndsInv'
  <1>1. /\ active' = active /\ rings' = rings /\ ~ticks'.recorder /\ age' = 0
        /\ now' \in Nat
    BY RecorderConstants DEF ClockSetBack, store, Unticked
  <1> SUFFICES ASSUME active # Nothing PROVE EndsInv'
    BY <1>1 DEF EndsInv
  <1>2. active.at \in Nat /\ Observe \in Nat
    BY ElapsedIs, RecorderConstants DEF RInv
  <1>3. Readable'
    BY <1>1 DEF EndsInv, Readable
  <1> QED BY <1>1, <1>2, <1>3 DEF EndsInv

LEMMA EndsInductive ==
    ASSUME RInv, EndsInv, [Next]_vars
    PROVE  EndsInv'
  <1>1. ticks \in [sweep : BOOLEAN, recorder : BOOLEAN, flush : BOOLEAN]
    BY DEF RInv, TypeOK
  <1>2. CASE SweepStarts
    <2>1. UNCHANGED <<now, recorder, rings>> /\ ticks'.recorder = ticks.recorder
      BY <1>1, <1>2 DEF SweepStarts, store
    <2> QED BY <2>1, EndsUntouched DEF Readable
  <1>3. CASE SensorMissed \/ FlushCommits \/ FlushFails \/ FinalFlush
    <2>1. UNCHANGED <<now, recorder, rings, ticks>>
      BY <1>3 DEF SensorMissed, FlushCommits, FlushFails, FinalFlush, FlushTakes, store
    <2> QED BY <2>1, EndsUntouched DEF Readable
  <1>4. CASE HourlyFlush
    <2>1. UNCHANGED <<now, recorder, rings>> /\ ticks'.recorder = ticks.recorder
      BY <1>1, <1>4 DEF HourlyFlush, FlushTakes
    <2> QED BY <2>1, EndsUntouched DEF Readable
  <1>5. CASE Stops \/ Dies
    BY <1>5 DEF Stops, Dies, EndsInv
  <1>6. CASE Opens
    BY <1>6 DEF Opens, RInv, QuietInv, EndsInv, recorder
  <1>7. CASE UNCHANGED vars
    <2>1. UNCHANGED <<now, recorder, rings, ticks>>
      BY <1>7 DEF vars, recorder
    <2> QED BY <2>1, EndsUntouched DEF Readable
  <1> QED BY <1>2, <1>3, <1>4, <1>5, <1>6, <1>7, SensorReadEnds, RecorderTickEnds,
             TimePassesEnds, ClockSetBackEnds DEF Next

\* No event stays in progress longer than its window since it began or since the
\* clock was last set back (step_detector.rs:99, and the sentinel of lines 81-89).
THEOREM EventsEndCorrect == Spec => []EventsEnd
  <1>1. Init => EndsInv
    BY DEF Init, EndsInv
  <1>2. EndsInv => EventsEnd
    BY DEF EndsInv, EventsEnd
  <1> QED BY <1>1, <1>2, EndsInductive, RecorderInvariant, PTL DEF Spec

(***************************************************************************)
(* What the sensors said: the rings against the samples of this process.   *)
(***************************************************************************)

Ascending(samples) ==
    \A i, j \in 1..Len(samples) : i < j => samples[i].at < samples[j].at

\* A ring is the end of the samples; those before it are older than 24 hours.
IsLeftOf(ring, samples, t) ==
    \E k \in 0..Len(samples) :
        /\ Len(ring) = Len(samples) - k
        /\ \A i \in 1..Len(ring) : ring[i] = samples[k + i]
        /\ \A i \in 1..k : samples[i].at < t - Retention

\* No sample is later than its process, and the next sweep will have a stamp of
\* its own.
Trail(s) ==
    LET samples == seen.samples[s] IN
    /\ IsLeftOf(rings[s], samples, now)
    /\ Ascending(samples)
    /\ \A i \in 1..Len(samples) :
          samples[i].at <= now /\ (~ticks.sweep => samples[i].at < now)

\* The sensors yet to be read have no sample with the stamp of the sweep.
SweepInv ==
    sweep.left # <<>> =>
        /\ sweep.at <= now /\ (~ticks.sweep => sweep.at < now)
        /\ \A j \in 1..Len(sweep.left) : \A i \in 1..Len(seen.samples[sweep.left[j].sensor]) :
              seen.samples[sweep.left[j].sensor][i].at < sweep.at

MeansPast == \A s \in Polled : \A row \in disk.means[s] \cup flush.means[s] : row.at < now

SamplesInv ==
    ~seen.back => MeansPast /\ (proc = "up" => SweepInv /\ \A s \in Polled : Trail(s))

\* Who neither reads a sensor nor moves the clock.
LEMMA SamplesStill ==
    ASSUME SamplesInv, now' = now, rings' = rings, sweep' = sweep,
           seen'.samples = seen.samples, seen'.back = seen.back,
           ticks'.sweep = ticks.sweep, proc' = "up" => proc = "up",
           ~seen.back /\ MeansPast => MeansPast'
    PROVE  SamplesInv'
  BY DEF SamplesInv, Trail, SweepInv

\* Or ends the poller.
LEMMA SamplesEnd ==
    ASSUME SamplesInv, now' = now, seen'.back = seen.back, proc' # "up",
           ~seen.back /\ MeansPast => MeansPast'
    PROVE  SamplesInv'
  BY DEF SamplesInv

LEMMA InitSamples ==
    ASSUME Init
    PROVE  SamplesInv
  <1>1. \A s \in Polled : \A row \in LeftBehind.means[s] : row.at < StartTime
    BY MeansLeftBehind
  <1>2. /\ now = StartTime /\ proc = "down" /\ disk = LeftBehind
        /\ \A s \in Polled : flush.means[s] = {}
    BY DEF Init, Idle, NoMeans
  <1> QED BY <1>1, <1>2 DEF SamplesInv, MeansPast

LEMMA FlushTakesSamples ==
    ASSUME RInv, SamplesInv, FlushTakes, proc' = proc, ticks'.sweep = ticks.sweep
    PROVE  SamplesInv'
  <1>1. /\ UNCHANGED <<now, proc, rings, sweep, seen, disk>>
        /\ flush'.means = [s \in Polled |-> Finalized(open[s], now)]
    BY DEF FlushTakes
  <1>2. \A s \in Polled : \A row \in Finalized(open[s], now) : row.at < now
    <2>1. now \in Nat /\ \A s \in Polled : IsOpen(open[s])
      BY RecorderConstants DEF RInv, TypeOK, TablesInv
    <2> QED BY <2>1, FinalizedRows
  <1>3. MeansPast => MeansPast'
    BY <1>1, <1>2 DEF MeansPast
  <1> QED BY <1>1, <1>3, SamplesStill

LEMMA FlushEndsSamples ==
    ASSUME RInv, SamplesInv, FlushCommits \/ FlushFails
    PROVE  SamplesInv'
  <1>1. /\ UNCHANGED <<now, rings, sweep, ticks>>
        /\ seen'.samples = seen.samples /\ seen'.back = seen.back
        /\ proc' = "up" => proc = "up"
        /\ flush' = Idle
    BY DEF FlushCommits, FlushFails, Resumed, store, RInv, TypeOK
  <1>2. ASSUME NEW s \in Polled PROVE disk'.means[s] \subseteq disk.means[s] \cup flush.means[s]
    <2>1. CASE FlushCommits
      <3>1. disk'.means[s] \subseteq Inserted(disk.means[s], flush.means[s])
        BY <2>1 DEF FlushCommits
      <3>2. Inserted(disk.means[s], flush.means[s]) \subseteq disk.means[s] \cup flush.means[s]
        BY DEF Inserted
      <3> QED BY <3>1, <3>2
    <2>2. CASE FlushFails
      BY <2>2 DEF FlushFails
    <2> QED BY <2>1, <2>2
  <1>3. MeansPast => MeansPast'
    BY <1>1, <1>2 DEF MeansPast, Idle, NoMeans
  <1> QED BY <1>1, <1>3, SamplesStill

LEMMA SweepStartsSamples ==
    ASSUME RInv, SamplesInv, SweepStarts
    PROVE  SamplesInv'
  <1>1. /\ proc = "up" /\ ~ticks.sweep /\ UNCHANGED <<now, proc, rings, disk, flush, seen>>
        /\ sweep'.at = now /\ ticks'.sweep
        /\ \A j \in 1..Len(sweep'.left) : sweep'.left[j].sensor \in Polled
    <2>1. PICK f \in Situations : sweep' = [at |-> now, left |-> Found(f)]
      BY DEF SweepStarts
    <2>2. \A j \in 1..Len(Found(f)) : Found(f)[j].sensor \in Polled
      <3>1. Found(f) \in Seq([sensor : Polled, v : Int])
        BY SweepRests
      <3>2. \A j \in 1..Len(Found(f)) : Found(f)[j] \in [sensor : Polled, v : Int]
        BY <3>1, ElementOfSeq
      <3> QED BY <3>2
    <2>3. ticks'.sweep
      BY DEF SweepStarts, RInv, TypeOK
    <2> QED BY <2>1, <2>2, <2>3 DEF SweepStarts, store
  <1> SUFFICES ASSUME ~seen.back PROVE SamplesInv'
    BY <1>1 DEF SamplesInv
  <1>2. MeansPast' /\ \A s \in Polled : Trail(s) /\ Trail(s)'
    BY <1>1 DEF SamplesInv, MeansPast, Trail
  <1>3. SweepInv'
    <2>1. \A s \in Polled : \A i \in 1..Len(seen.samples[s]) : seen.samples[s][i].at < now
      BY <1>1, <1>2 DEF Trail
    <2>2. now \in Nat
      BY RecorderConstants DEF RInv, TypeOK
    <2> QED BY <1>1, <2>1, <2>2 DEF SweepInv
  <1> QED BY <1>1, <1>2, <1>3 DEF SamplesInv

\* The sensors of a rest are all different.
LEMMA RestsAreDistinct ==
    ASSUME NEW left, IsRest(left)
    PROVE  \A i, j \in 1..Len(left) : left[i].sensor = left[j].sensor => i = j
  <1> DEFINE n == Len(SENSORS)
  <1>1. PICK k \in 0..n, f \in Situations : left = SubSeq(Found(f), k + 1, n)
    BY DEF IsRest
  <1>2. n \in Nat /\ DOMAIN SENSORS = 1..n
    BY RecorderConstants, LenProperties
  <1>3. \A i \in 1..n : Found(f)[i].sensor = SENSORS[i]
    BY <1>2 DEF Found
  <1>4. \A i, j \in 1..n : SENSORS[i] = SENSORS[j] => i = j
    BY <1>2, RecorderAssumption DEF IsInjective
  <1>5. Found(f) \in Seq([sensor : Polled, v : Int]) /\ Len(Found(f)) = n
    <2>1. Found(f) \in Seq([sensor : Polled, v : Int])
      BY SweepRests
    <2>2. DOMAIN Found(f) = 1..n
      BY <1>2 DEF Found
    <2> HIDE DEF n
    <2> QED BY <1>2, <2>1, <2>2, LenProperties
  <1>6. Len(left) = n - k /\ \A i \in 1..n - k : left[i] = Found(f)[k + i]
    <2> DEFINE R == [sensor : Polled, v : Int]
    <2>1. \A i \in k + 1..n : Found(f)[i] \in R
      <3> HIDE DEF R
      <3> SUFFICES ASSUME NEW i \in k + 1..n PROVE Found(f)[i] \in R
        OBVIOUS
      <3>1. i \in 1..Len(Found(f))
        BY <1>2, <1>5
      <3> QED BY <3>1, <1>5, ElementOfSeq DEF R
    <2> HIDE DEF R, n
    <2> QED BY <1>1, <1>2, <2>1, SubSeqProperties
  <1> HIDE DEF n
  <1>7. ASSUME NEW i \in 1..n - k
        PROVE  k + i \in 1..n /\ left[i].sensor = SENSORS[k + i]
    <2>1. k + i \in 1..n
      BY <1>2
    <2>2. left[i] = Found(f)[k + i] /\ Found(f)[k + i].sensor = SENSORS[k + i]
      BY <2>1, <1>3, <1>6
    <2> QED BY <2>1, <2>2
  <1> SUFFICES ASSUME NEW i \in 1..n - k, NEW j \in 1..n - k, left[i].sensor = left[j].sensor
               PROVE  i = j
    BY <1>6
  <1>8. k + i = k + j
    BY <1>4, <1>7
  <1> QED BY <1>2, <1>8

LEMMA SensorReadSamples ==
    ASSUME RInv, SamplesInv, SensorRead
    PROVE  SamplesInv'
  <1>0. PICK s, v : s = Head(sweep.left).sensor /\ v = Head(sweep.left).v
    OBVIOUS
  <1> DEFINE x == [at |-> sweep.at, v |-> v]
             old == seen.samples[s]
             n == Len(old)
  <1>1. TypeOK /\ sweep.left # <<>>
    BY DEF RInv, SensorRead
  <1>2. /\ s \in Polled /\ v \in Int /\ sweep.at \in 0..MaxTime
        /\ sweep'.at = sweep.at /\ sweep'.left = Tail(sweep.left)
    <2>2. sweep' = [sweep EXCEPT !.left = Tail(@)]
      BY DEF SensorRead
    <2>1. s \in Polled /\ v \in Int /\ sweep.at \in 0..MaxTime
      <3>1. sweep.at \in 0..MaxTime
        BY <1>1 DEF TypeOK
      <3> QED BY <1>0, <1>1, <2>2, <3>1, NextSensor
    <2> QED BY <1>1, <2>1, <2>2 DEF TypeOK
  <1>3. /\ UNCHANGED <<now, proc, disk, flush, ticks>>
        /\ rings' = [rings EXCEPT ![s] = Recorded(@, sweep.at, v)]
        /\ seen' = [seen EXCEPT !.samples[s] = Append(@, x)]
    BY <1>0 DEF SensorRead
  <1>4. /\ rings \in [Polled -> Seq(Samples)]
        /\ seen \in [samples : [Polled -> Seq(Samples)], back : BOOLEAN, lost : BOOLEAN]
        /\ now \in Nat /\ MaxTime \in Nat /\ Retention \in Nat
    <2>1. /\ rings \in [Polled -> Seq(Samples)] /\ now \in 0..MaxTime
          /\ seen \in [samples : [Polled -> Seq(Samples)], back : BOOLEAN, lost : BOOLEAN]
      BY <1>1 DEF TypeOK
    <2> QED BY <2>1, RecorderConstants
  <1>5. /\ rings'[s] = Recorded(rings[s], sweep.at, v)
        /\ \A p \in Polled \ {s} : rings'[p] = rings[p]
        /\ seen'.samples[s] = Append(old, x)
        /\ \A p \in Polled \ {s} : seen'.samples[p] = seen.samples[p]
        /\ seen'.back = seen.back
    BY <1>2, <1>3, <1>4
  <1>6. /\ old \in Seq(Samples) /\ rings[s] \in Seq(Samples) /\ x \in Samples
        /\ n \in Nat
    <2>1. old \in Seq(Samples) /\ rings[s] \in Seq(Samples)
      BY <1>2, <1>4
    <2>2. x \in Samples
      BY <1>2 DEF Samples
    <2> HIDE DEF old, x
    <2> QED BY <2>1, <2>2, LenProperties
  <1> SUFFICES ASSUME ~seen.back PROVE SamplesInv'
    BY <1>5 DEF SamplesInv
  <1>7. proc = "up"
    BY <1>1 DEF RInv, QuietInv
  <1>8. SweepInv /\ MeansPast /\ \A p \in Polled : Trail(p)
    BY <1>7 DEF SamplesInv
  <1>9. /\ sweep.at <= now /\ (~ticks.sweep => sweep.at < now)
        /\ \A i \in 1..n : old[i].at < sweep.at
    <2>1. /\ sweep.at <= now /\ (~ticks.sweep => sweep.at < now)
          /\ \A j \in 1..Len(sweep.left) : \A i \in 1..Len(seen.samples[sweep.left[j].sensor]) :
                seen.samples[sweep.left[j].sensor][i].at < sweep.at
      BY <1>1, <1>8 DEF SweepInv
    <2>2. 1 \in 1..Len(sweep.left) /\ sweep.left[1].sensor = s
      <3>1. sweep.left \in Seq([sensor : Polled, v : Int])
        BY <1>1 DEF TypeOK
      <3>2. 1 \in 1..Len(sweep.left) /\ Head(sweep.left) = sweep.left[1]
        BY <1>1, <3>1
      <3> QED BY <1>0, <3>2
    <2> QED BY <2>1, <2>2
  <1>10. /\ Len(Append(old, x)) = n + 1
         /\ \A i \in 1..n : Append(old, x)[i] = old[i]
         /\ Append(old, x)[n + 1] = x
    <2> HIDE DEF old, x
    <2> QED BY <1>6, AppendProperties
  <1> DEFINE new == Append(old, x)
  <1>11. IsLeftOf(Recorded(rings[s], sweep.at, v), new, now)
    <2> DEFINE r == rings[s]
               w == Append(r, x)
               m == Len(r)
               rec == Recorded(r, sweep.at, v)
    <2>1. PICK k \in 0..n : /\ m = n - k
                            /\ \A i \in 1..m : r[i] = old[k + i]
                            /\ \A i \in 1..k : old[i].at < now - Retention
      BY <1>2, <1>8 DEF Trail, IsLeftOf
    <2>2. /\ Len(w) = m + 1 /\ w[m + 1] = x
          /\ \A i \in 1..m : w[i] = r[i]
      <3> HIDE DEF x, r
      <3> QED BY <1>6, AppendProperties DEF r
    <2>3. PICK c \in 1..Len(w) :
             /\ Len(rec) = Len(w) - c + 1
             /\ \A i \in 1..Len(rec) : rec[i] = w[c + i - 1]
             /\ \A i \in 1..c - 1 : w[i].at < sweep.at - Retention
      <3> HIDE DEF rec, w
      <3> QED BY <1>2, <1>6, RecordedRing DEF rec, w
    <2> HIDE DEF r, w, rec, m, new, x, old
    <2>10. m \in Nat /\ n \in Nat /\ k \in Nat /\ c \in Nat /\ k <= n /\ m = n - k
           /\ 1 <= c /\ c <= m + 1 /\ Len(rec) = m + 2 - c
      BY <1>6, <2>1, <2>2, <2>3
    <2>4. \A i \in 1..m + 1 : w[i] = new[k + i]
      <3> SUFFICES ASSUME NEW i \in 1..m + 1 PROVE w[i] = new[k + i]
        OBVIOUS
      <3>1. CASE i \in 1..m
        <4>1. k + i \in 1..n
          BY <1>6, <2>1, <3>1
        <4> QED BY <2>1, <2>2, <3>1, <4>1, <1>10 DEF new
      <3>2. CASE i = m + 1
        <4>1. k + i = n + 1
          BY <1>6, <2>1, <3>2
        <4> QED BY <2>2, <3>2, <4>1, <1>10 DEF new
      <3>3. i \in 1..m \/ i = m + 1
        BY <2>10
      <3> QED BY <3>1, <3>2, <3>3
    <2> DEFINE e == k + c - 1
    <2>5. e \in 0..n + 1 /\ Len(rec) = (n + 1) - e
      BY <1>6, <2>1, <2>2, <2>3
    <2>6. \A i \in 1..Len(rec) : rec[i] = new[e + i]
      <3> SUFFICES ASSUME NEW i \in 1..Len(rec) PROVE rec[i] = new[e + i]
        OBVIOUS
      <3>1. c + i - 1 \in 1..m + 1 /\ k + (c + i - 1) = e + i
        BY <2>10
      <3> QED BY <2>3, <2>4, <3>1
    <2>7. \A i \in 1..e : new[i].at < now - Retention
      <3> SUFFICES ASSUME NEW i \in 1..e PROVE new[i].at < now - Retention
        OBVIOUS
      <3>1. CASE i <= k
        <4>1. i \in 1..k /\ i \in 1..n
          BY <1>6, <2>1, <3>1
        <4> QED BY <2>1, <4>1, <1>10 DEF new
      <3>2. CASE k < i
        <4>1. i - k \in 1..c - 1 /\ i - k \in 1..m + 1 /\ k + (i - k) = i
          BY <1>6, <2>1, <2>2, <2>3, <2>5, <3>2
        <4>2. new[i] = w[i - k] /\ w[i - k].at < sweep.at - Retention
          BY <2>3, <2>4, <4>1
        <4>3. sweep.at \in Int /\ i \in 1..n + 1
          BY <1>2, <2>5
        <4>4. new[i].at \in Int
          <5>1. new \in Seq(Samples) /\ Len(new) = n + 1
            BY <1>6, <1>10, AppendProperties DEF new
          <5>2. new[i] \in Samples
            BY <4>3, <5>1, ElementOfSeq
          <5> QED BY <5>2 DEF Samples
        <4> QED BY <1>4, <1>9, <4>2, <4>3, <4>4
      <3> QED BY <2>1, <2>5, <3>1, <3>2
    <2>8. Len(new) = n + 1
      BY <1>10 DEF new
    <2> HIDE DEF e
    <2>9. IsLeftOf(rec, new, now)
      BY <2>5, <2>6, <2>7, <2>8 DEF IsLeftOf
    <2> QED BY <2>9 DEF rec, r
  <1>12. /\ Ascending(new)
         /\ \A i \in 1..Len(new) : new[i].at <= now /\ (~ticks.sweep => new[i].at < now)
    <2>1. /\ Ascending(old)
          /\ \A i \in 1..n : old[i].at <= now /\ (~ticks.sweep => old[i].at < now)
      BY <1>2, <1>8 DEF Trail
    <2>2. x.at = sweep.at
      OBVIOUS
    <2> HIDE DEF x, old, n, new
    <2>3. \A i, j \in 1..n + 1 : i < j => new[i].at < new[j].at
      <3> SUFFICES ASSUME NEW i \in 1..n + 1, NEW j \in 1..n + 1, i < j
                   PROVE  new[i].at < new[j].at
        OBVIOUS
      <3>1. i \in 1..n
        BY <1>6
      <3>2. CASE j \in 1..n
        BY <3>1, <3>2, <2>1, <1>10 DEF Ascending, new, n
      <3>3. CASE j = n + 1
        BY <3>1, <3>3, <1>9, <1>10, <2>2 DEF new
      <3> QED BY <1>6, <3>2, <3>3
    <2>4. \A i \in 1..n + 1 : new[i].at <= now /\ (~ticks.sweep => new[i].at < now)
      <3> SUFFICES ASSUME NEW i \in 1..n + 1
                   PROVE  new[i].at <= now /\ (~ticks.sweep => new[i].at < now)
        OBVIOUS
      <3>1. CASE i \in 1..n
        BY <3>1, <2>1, <1>10 DEF new
      <3>2. CASE i = n + 1
        BY <3>2, <1>9, <1>10, <2>2 DEF new
      <3> QED BY <1>6, <3>1, <3>2
    <2>5. Len(new) = n + 1
      BY <1>10 DEF new
    <2> QED BY <2>3, <2>4, <2>5 DEF Ascending
  <1>13. Trail(s)'
    <2> HIDE DEF new, x, old
    <2>1. rings'[s] = Recorded(rings[s], sweep.at, v) /\ seen'.samples[s] = new
      BY <1>5 DEF new
    <2>2. now' = now /\ ticks' = ticks
      BY <1>3
    <2>4. IsLeftOf(rings'[s], seen'.samples[s], now')
      BY <1>11, <2>1, <2>2
    <2>5. Ascending(seen'.samples[s])
      BY <1>12, <2>1
    <2> QED BY <1>12, <2>1, <2>2, <2>4, <2>5 DEF Trail
  <1>14. ASSUME NEW p \in Polled, p # s PROVE Trail(p)'
    <2>1. /\ rings'[p] = rings[p] /\ seen'.samples[p] = seen.samples[p]
          /\ now' = now /\ ticks' = ticks
      BY <1>3, <1>5, <1>14
    <2>2. Trail(p)
      BY <1>8
    <2> QED BY <2>1, <2>2 DEF Trail
  <1>15. SweepInv'
    <2> DEFINE left == sweep.left
    <2>1. IsRest(left) /\ left \in Seq([sensor : Polled, v : Int])
      BY <1>1 DEF TypeOK, IsRest
    <2>2. \A i, j \in 1..Len(left) : left[i].sensor = left[j].sensor => i = j
      <3> HIDE DEF left
      <3> QED BY <2>1, RestsAreDistinct
    <2>3. /\ Len(Tail(left)) = Len(left) - 1 /\ Head(left) = left[1] /\ Len(left) \in Nat \ {0}
          /\ \A j \in 1..Len(left) - 1 : Tail(left)[j] = left[j + 1]
      BY <1>1, <2>1
    <2>4. \A j \in 1..Len(left) : left[j].sensor \in Polled
      <3>1. \A j \in 1..Len(left) : left[j] \in [sensor : Polled, v : Int]
        BY <2>1, ElementOfSeq
      <3> QED BY <3>1
    <2>5. left # <<>>
      BY <1>1
    <2>6. \A j \in 1..Len(left) : \A i \in 1..Len(seen.samples[left[j].sensor]) :
              seen.samples[left[j].sensor][i].at < sweep.at
      BY <1>8, <2>5 DEF SweepInv
    <2>7. sweep'.left = Tail(left)
      BY <1>2
    <2>8. s = left[1].sensor
      BY <1>0, <2>3
    <2> HIDE DEF left
    <2>9. \A j \in 1..Len(Tail(left)) : \A i \in 1..Len(seen'.samples[Tail(left)[j].sensor]) :
              seen'.samples[Tail(left)[j].sensor][i].at < sweep.at
      <3> SUFFICES ASSUME NEW j \in 1..Len(left) - 1
                   PROVE  \A i \in 1..Len(seen'.samples[Tail(left)[j].sensor]) :
                              seen'.samples[Tail(left)[j].sensor][i].at < sweep.at
        BY <2>3
      <3>1. Tail(left)[j] = left[j + 1] /\ j + 1 \in 1..Len(left) /\ 1 \in 1..Len(left)
            /\ j + 1 # 1
        BY <2>3
      <3>2. left[j + 1].sensor \in Polled \ {s}
        BY <2>2, <2>4, <2>8, <3>1
      <3>3. seen'.samples[left[j + 1].sensor] = seen.samples[left[j + 1].sensor]
        BY <1>5, <3>2
      <3> QED BY <2>6, <3>1, <3>3
    <2>10. sweep'.at = sweep.at /\ now' = now /\ ticks' = ticks
      BY <1>2, <1>3
    <2> QED BY <1>9, <2>7, <2>9, <2>10 DEF SweepInv
  <1>16. MeansPast'
    BY <1>3, <1>8 DEF MeansPast
  <1> QED BY <1>13, <1>14, <1>15, <1>16 DEF SamplesInv

LEMMA SensorMissedSamples ==
    ASSUME RInv, SamplesInv, SensorMissed
    PROVE  SamplesInv'
  <1> DEFINE left == sweep.left
  <1>1. /\ left # <<>> /\ UNCHANGED <<now, proc, rings, disk, flush, ticks, seen>>
        /\ sweep' = [sweep EXCEPT !.left = Tail(@)]
    BY DEF SensorMissed, store
  <1>2. sweep \in [at : 0..MaxTime, left : Seq([sensor : Polled, v : Int])]
    BY DEF RInv, TypeOK
  <1>3. sweep'.at = sweep.at /\ sweep'.left = Tail(left)
    BY <1>1, <1>2
  <1>4. /\ Len(Tail(left)) = Len(left) - 1 /\ Len(left) \in Nat
        /\ \A j \in 1..Len(left) - 1 : Tail(left)[j] = left[j + 1] /\ j + 1 \in 1..Len(left)
    BY <1>1, <1>2
  <1>5. SweepInv => SweepInv'
    <2>1. /\ now' = now /\ ticks' = ticks /\ seen' = seen
      BY <1>1
    <2>2. ASSUME SweepInv, NEW j \in 1..Len(left) - 1,
                 NEW i \in 1..Len(seen.samples[Tail(left)[j].sensor])
          PROVE  seen.samples[Tail(left)[j].sensor][i].at < sweep.at
      <3>1. Tail(left)[j] = left[j + 1] /\ j + 1 \in 1..Len(left)
        BY <1>4
      <3> QED BY <1>1, <2>2, <3>1 DEF SweepInv
    <2>3. SweepInv => sweep.at <= now /\ (~ticks.sweep => sweep.at < now)
      BY <1>1 DEF SweepInv
    <2> HIDE DEF left
    <2> QED BY <1>3, <1>4, <2>1, <2>2, <2>3 DEF SweepInv
  <1>6. /\ MeansPast => MeansPast'
        /\ \A s \in Polled : Trail(s) => Trail(s)'
    BY <1>1 DEF MeansPast, Trail
  <1> QED BY <1>1, <1>5, <1>6 DEF SamplesInv

LEMMA OpensSamples ==
    ASSUME RInv, SamplesInv, Opens
    PROVE  SamplesInv'
  <1>1. /\ proc = "down" /\ proc' = "up" /\ UNCHANGED <<now, disk, flush, sweep>>
        /\ rings' = [s \in Polled |-> Refilled(disk.means[s], now)]
        /\ seen' = [seen EXCEPT !.samples = rings', !.lost = FALSE]
        /\ ticks' = Unticked
    BY DEF Opens
  <1>2. TypeOK /\ TablesInv /\ sweep.left = <<>>
    BY <1>1 DEF RInv, QuietInv
  <1>3. seen'.samples = rings' /\ seen'.back = seen.back
    BY <1>1, <1>2 DEF TypeOK
  <1>4. now \in Nat /\ \A s \in Polled : disk.means[s] \subseteq Samples /\ HasKeys(disk.means[s])
    BY <1>2, RecorderConstants DEF TypeOK, TablesInv
  <1> SUFFICES ASSUME ~seen.back PROVE SamplesInv'
    BY <1>3 DEF SamplesInv
  <1>5. MeansPast /\ MeansPast'
    BY <1>1 DEF SamplesInv, MeansPast
  <1>6. SweepInv'
    BY <1>1, <1>2 DEF SweepInv
  <1>7. ASSUME NEW s \in Polled PROVE Trail(s)'
    <2> DEFINE means == disk.means[s]
               ring == Refilled(means, now)
    <2>1. IsFiniteSet(means)
      <3>1. \A row \in means : row.at \in 0..MaxTime
        BY <1>4 DEF Samples
      <3> HIDE DEF means
      <3>2. HasKeys(means)
        BY <1>4 DEF means
      <3> QED BY <3>1, <3>2, TablesAreFinite
    <2>2. /\ ring \in Seq(Samples) /\ Range(ring) \subseteq means
          /\ \A i, j \in 1..Len(ring) : i < j => ring[i].at < ring[j].at
      <3> HIDE DEF means, ring
      <3>1. HasKeys(means) /\ means \subseteq Samples /\ now \in Int
        BY <1>4 DEF means
      <3> QED BY <2>1, <3>1, RefilledRing DEF ring
    <2>3. \A i \in 1..Len(ring) : ring[i].at < now /\ ring[i].at \in Int
      <3>1. \A i \in 1..Len(ring) : ring[i] \in means
        <4> HIDE DEF ring
        <4> QED BY <2>2, LenProperties DEF Range
      <3>2. \A row \in means : row.at < now /\ row.at \in Int
        BY <1>4, <1>5 DEF MeansPast, Samples
      <3> HIDE DEF ring, means
      <3> QED BY <3>1, <3>2
    <2> HIDE DEF ring
    <2>4. rings'[s] = ring /\ seen'.samples[s] = ring /\ now' = now
      BY <1>1, <1>3 DEF ring
    <2>5. IsLeftOf(ring, ring, now)
      <3>1. Len(ring) \in Nat
        BY <2>2, LenProperties
      <3>2. 0 \in 0..Len(ring) /\ Len(ring) = Len(ring) - 0
            /\ (\A i \in 1..Len(ring) : ring[i] = ring[0 + i])
            /\ (\A i \in 1..0 : ring[i].at < now - Retention)
        BY <3>1
      <3> QED BY <3>2 DEF IsLeftOf
    <2>6. Ascending(ring)
      BY <2>2 DEF Ascending
    <2>7. \A i \in 1..Len(ring) : ring[i].at <= now
      BY <1>4, <2>3
    <2> QED BY <2>3, <2>4, <2>5, <2>6, <2>7 DEF Trail
  <1> QED BY <1>5, <1>6, <1>7 DEF SamplesInv

LEMMA TimePassesSamples ==
    ASSUME RInv, SamplesInv, TimePasses
    PROVE  SamplesInv'
  <1>1. now' = now + 1 /\ UNCHANGED <<proc, rings, disk, flush, sweep, seen>>
    BY DEF TimePasses, store
  <1>2. /\ now \in Nat /\ Retention \in Nat
        /\ sweep.at \in Int
        /\ \A s \in Polled : disk.means[s] \subseteq Samples /\ flush.means[s] \subseteq Samples
        /\ \A s \in Polled : seen.samples[s] \in Seq(Samples)
    <2>1. /\ now \in 0..MaxTime /\ sweep.at \in 0..MaxTime
          /\ \A s \in Polled : disk.means[s] \subseteq Samples /\ flush.means[s] \subseteq Samples
          /\ \A s \in Polled : seen.samples[s] \in Seq(Samples)
      BY DEF RInv, TypeOK
    <2> QED BY <2>1, RecorderConstants
  <1> SUFFICES ASSUME ~seen.back PROVE SamplesInv'
    BY <1>1 DEF SamplesInv
  <1>3. MeansPast'
    <2>1. \A s \in Polled : \A row \in disk.means[s] \cup flush.means[s] : row.at \in Int
      BY <1>2 DEF Samples
    <2>2. MeansPast
      BY DEF SamplesInv
    <2> QED BY <1>1, <1>2, <2>1, <2>2 DEF MeansPast
  <1> SUFFICES ASSUME proc = "up" PROVE SweepInv' /\ \A s \in Polled : Trail(s)'
    BY <1>1, <1>3 DEF SamplesInv
  <1>4. SweepInv'
    <2>1. SweepInv
      BY DEF SamplesInv
    <2>2. sweep.at <= now => sweep.at < now + 1 /\ sweep.at <= now + 1
      BY <1>2
    <2> QED BY <1>1, <2>1, <2>2 DEF SweepInv
  <1>5. ASSUME NEW s \in Polled PROVE Trail(s)'
    <2> DEFINE samples == seen.samples[s]
    <2>1. Trail(s)
      BY DEF SamplesInv
    <2>2. \A i \in 1..Len(samples) : samples[i].at \in Int
      <3>1. \A i \in 1..Len(samples) : samples[i] \in Samples
        BY <1>2, ElementOfSeq
      <3> QED BY <3>1 DEF Samples
    <2>3. \A i \in 1..Len(samples) : samples[i].at < now' /\ samples[i].at <= now'
      BY <1>1, <1>2, <2>1, <2>2 DEF Trail
    <2>4. IsLeftOf(rings[s], samples, now')
      <3>1. PICK k \in 0..Len(samples) :
               /\ Len(rings[s]) = Len(samples) - k
               /\ \A i \in 1..Len(rings[s]) : rings[s][i] = samples[k + i]
               /\ \A i \in 1..k : samples[i].at < now - Retention
        BY <2>1 DEF Trail, IsLeftOf
      <3>2. \A i \in 1..k : samples[i].at < now' - Retention
        <4> SUFFICES ASSUME NEW i \in 1..k PROVE samples[i].at < now' - Retention
          OBVIOUS
        <4>1. Len(samples) \in Nat
          BY <1>2, LenProperties
        <4>2. i \in 1..Len(samples)
          BY <3>1, <4>1
        <4>3. samples[i].at < now - Retention /\ samples[i].at \in Int
          BY <2>2, <3>1, <4>2
        <4> QED BY <1>1, <1>2, <4>3
      <3> QED BY <3>1, <3>2 DEF IsLeftOf
    <2> HIDE DEF samples
    <2>5. seen'.samples[s] = samples /\ rings'[s] = rings[s]
      BY <1>1 DEF samples
    <2>6. Ascending(samples)
      BY <2>1 DEF Trail, samples
    <2> QED BY <2>3, <2>4, <2>5, <2>6 DEF Trail
  <1> QED BY <1>4, <1>5

LEMMA SamplesInductive == Spec => []SamplesInv
  <1>1. Init => SamplesInv
    BY InitSamples
  <1>2. RInv /\ SamplesInv /\ [Next]_vars => SamplesInv'
    <2> SUFFICES ASSUME RInv, SamplesInv, [Next]_vars PROVE SamplesInv'
      OBVIOUS
    <2>1. CASE HourlyFlush
      <3>1. ticks'.sweep = ticks.sweep
        BY <2>1 DEF HourlyFlush, RInv, TypeOK
      <3> QED BY <2>1, <3>1, FlushTakesSamples DEF HourlyFlush, FlushTakes
    <2>2. CASE FinalFlush
      BY <2>2, FlushTakesSamples DEF FinalFlush, FlushTakes
    <2>3. CASE RecorderTick
      <3>1. ticks'.sweep = ticks.sweep
        BY <2>3 DEF RecorderTick, RInv, TypeOK
      <3>2. /\ UNCHANGED <<now, proc, rings, disk, flush, sweep, seen>>
        BY <2>3 DEF RecorderTick
      <3> QED BY <3>1, <3>2, SamplesStill DEF MeansPast
    <2>4. CASE Stops
      BY <2>4, SamplesEnd DEF Stops, store, MeansPast
    <2>5. CASE Dies
      BY <2>5, SamplesEnd DEF Dies, store, MeansPast, Idle, NoMeans
    <2>6. CASE ClockSetBack
      BY <2>6 DEF ClockSetBack, SamplesInv, RInv, TypeOK
    <2>7. CASE UNCHANGED vars
      BY <2>7, SamplesStill DEF vars, store, MeansPast
    <2> QED BY <2>1, <2>2, <2>3, <2>4, <2>5, <2>6, <2>7, SweepStartsSamples,
               SensorReadSamples, SensorMissedSamples, FlushEndsSamples, OpensSamples,
               TimePassesSamples DEF Next
  <1> QED BY <1>1, <1>2, RecorderInvariant, PTL DEF Spec

(***************************************************************************)
(* The window of a query.                                                  *)
(***************************************************************************)

\* A window is no longer than the ring.
LEMMA WindowStart ==
    ASSUME NEW q \in Nat, NEW t \in Nat
    PROVE  From(t, q) \in Int /\ From(t, q) >= t - Retention /\ From(t, q) < t
  <1> DEFINE h == HoursOf(q)
  <1>1. PerHour \in Nat \ {0} /\ MaxHours \in Nat \ {0}
    BY RecorderConstants
  <1>2. h \in Nat /\ 1 <= h /\ h <= MaxHours
    BY <1>1 DEF HoursOf
  <1>3. From(t, q) = t - h * PerHour /\ Retention = MaxHours * PerHour
    BY DEF From, Retention
  <1> HIDE DEF h
  <1>4. h * PerHour \in Nat /\ MaxHours * PerHour \in Nat
    BY <1>1, <1>2
  <1>5. h * PerHour <= MaxHours * PerHour
    BY <1>1, <1>2
  <1>6. 1 <= h * PerHour
    BY <1>1, <1>2
  <1> QED BY <1>3, <1>4, <1>5, <1>6

\* The samples a query finds in the ring are those the process has seen in its
\* window, in the order of their stamps.
LEMMA RingIsWindow ==
    ASSUME RInv, SamplesInv, proc = "up", ~seen.back, NEW s \in Polled, NEW q \in Nat
    PROVE  LET ring == rings[s]
               in   == SeriesRange(ring, now, q)
           IN /\ in \subseteq 1..Len(ring) /\ IsFiniteSet(in)
              /\ \A i, j \in in : i < j <=> ring[i].at < ring[j].at
              /\ \A i \in in : ring[i] \in InWindow(s, q)
              /\ \A x \in InWindow(s, q) : \E i \in in : x = ring[i]
              /\ \A x \in InWindow(s, q) :
                    x \in Samples /\ x.at \in Nat /\ From(now, q) <= x.at /\ x.at <= now
  <1> DEFINE ring == rings[s]
             in == SeriesRange(ring, now, q)
             samples == seen.samples[s]
             f == From(now, q)
  <1>1. /\ ring \in Seq(Samples) /\ samples \in Seq(Samples)
        /\ now \in Nat /\ Retention \in Nat
    <2>1. now \in 0..MaxTime /\ ring \in Seq(Samples) /\ samples \in Seq(Samples)
      BY DEF RInv, TypeOK
    <2> QED BY <2>1, RecorderConstants
  <1>2. Trail(s)
    BY DEF SamplesInv
  <1>3. f \in Int /\ f >= now - Retention
    BY <1>1, WindowStart
  <1>4. DOMAIN ring = 1..Len(ring) /\ Len(ring) \in Nat
        /\ DOMAIN samples = 1..Len(samples) /\ Len(samples) \in Nat
    BY <1>1, LenProperties
  <1>5. /\ \A i \in 1..Len(ring) : ring[i] \in Samples
        /\ \A i \in 1..Len(samples) : samples[i] \in Samples
    BY <1>1, ElementOfSeq
  <1>6. \A x \in Samples : x.at \in Nat
    BY RecorderConstants DEF Samples
  <1>7. PICK k \in 0..Len(samples) :
           /\ Len(ring) = Len(samples) - k
           /\ \A i \in 1..Len(ring) : ring[i] = samples[k + i]
           /\ \A i \in 1..k : samples[i].at < now - Retention
    BY <1>2 DEF Trail, IsLeftOf
  <1>8. /\ \A i, j \in 1..Len(samples) : i < j => samples[i].at < samples[j].at
        /\ \A i \in 1..Len(samples) : samples[i].at <= now
    BY <1>2 DEF Trail, Ascending
  <1>9. in = {i \in DOMAIN ring : ring[i].at >= f /\ ring[i].at < now + 1}
    BY DEF SeriesRange
  <1>10. InWindow(s, q) = {x \in Range(samples) : x.at >= f}
    BY DEF InWindow
  <1> HIDE DEF ring, in, samples, f
  <1>11. in \subseteq 1..Len(ring) /\ IsFiniteSet(in)
    <2>1. in \subseteq 1..Len(ring)
      BY <1>4, <1>9
    <2>2. IsFiniteSet(1..Len(ring))
      BY <1>4, FS_Interval
    <2> QED BY <2>1, <2>2, FS_Subset
  <1>12. \A i \in 1..Len(ring) : k + i \in 1..Len(samples)
    BY <1>4, <1>7
  <1>13. \A i, j \in 1..Len(ring) : i < j => ring[i].at < ring[j].at
    BY <1>4, <1>7, <1>8, <1>12
  <1>14. \A i, j \in in : i < j <=> ring[i].at < ring[j].at
    <2> SUFFICES ASSUME NEW i \in in, NEW j \in in PROVE i < j <=> ring[i].at < ring[j].at
      OBVIOUS
    <2>1. /\ i \in Nat /\ j \in Nat /\ ring[i].at \in Nat /\ ring[j].at \in Nat
          /\ i < j => ring[i].at < ring[j].at
          /\ j < i => ring[j].at < ring[i].at
      BY <1>4, <1>5, <1>6, <1>11, <1>13
    <2> QED BY <2>1
  <1>15. \A i \in in : ring[i] \in InWindow(s, q)
    <2> SUFFICES ASSUME NEW i \in in PROVE ring[i] \in InWindow(s, q)
      OBVIOUS
    <2>1. ring[i] = samples[k + i] /\ k + i \in DOMAIN samples /\ ring[i].at >= f
      BY <1>4, <1>7, <1>9, <1>11, <1>12
    <2>2. ring[i] \in Range(samples)
      BY <2>1 DEF Range
    <2> QED BY <2>1, <2>2, <1>10
  <1>16. ASSUME NEW x \in InWindow(s, q)
         PROVE  /\ \E i \in in : x = ring[i]
                /\ x \in Samples /\ x.at \in Nat /\ f <= x.at /\ x.at <= now
    <2>1. PICK n \in 1..Len(samples) : x = samples[n]
      BY <1>4, <1>10 DEF Range
    <2>2. x \in Samples /\ x.at \in Nat /\ f <= x.at /\ x.at <= now
      BY <1>3, <1>5, <1>6, <1>8, <1>10, <2>1
    <2>3. ~(n <= k)
      <3> SUFFICES ASSUME n <= k PROVE FALSE
        OBVIOUS
      <3>1. x.at < now - Retention
        BY <1>4, <1>7, <2>1
      <3> QED BY <1>1, <1>3, <2>2, <3>1
    <2>4. n - k \in 1..Len(ring) /\ k + (n - k) = n
      BY <1>4, <1>7, <2>3
    <2>5. ring[n - k] = x
      BY <1>7, <2>1, <2>4
    <2>6. n - k \in in
      BY <1>1, <1>4, <1>9, <2>2, <2>4, <2>5
    <2> QED BY <2>2, <2>5, <2>6
  <1> QED BY <1>11, <1>14, <1>15, <1>16 DEF ring, in, f

(***************************************************************************)
(* Sums.  MapThenSumSet takes the elements in an order of its own; what it *)
(* adds up does not depend on it.                                          *)
(***************************************************************************)

\* g has the sum of the weights W for each part of S.
Sums(g, S, W) ==
    /\ g \in [SUBSET S -> Int]
    /\ g[{}] = 0
    /\ \A s \in SUBSET S : \A x \in s : g[s] = W[x] + g[s \ {x}]

\* Of the sets with a property that are parts of a finite one, a smallest.
LEMMA SmallestPart ==
    ASSUME NEW S, IsFiniteSet(S), NEW P \in SUBSET SUBSET S, P # {}
    PROVE  \E t \in P : \A u \in P : ~(\E x \in t : u = t \ {x})
  <1> DEFINE sizes == {Cardinality(t) : t \in P}
  <1>1. \A t \in P : IsFiniteSet(t) /\ Cardinality(t) \in Nat
    BY FS_Subset, FS_CardinalityType
  <1>2. sizes \in SUBSET Nat /\ sizes # {}
    BY <1>1
  <1>3. PICK n \in sizes : \A m \in sizes : n <= m
    <2> HIDE DEF sizes
    <2> QED BY <1>2, LeastNumber
  <1>4. PICK t \in P : Cardinality(t) = n
    BY <1>3
  <1>5. ASSUME NEW u \in P, NEW x \in t, u = t \ {x} PROVE FALSE
    <2>1. Cardinality(u) = Cardinality(t) - 1
      BY <1>1, <1>5, FS_RemoveElement
    <2>2. Cardinality(u) \in sizes
      OBVIOUS
    <2>3. n <= Cardinality(u)
      BY <1>3, <2>2
    <2>4. n \in Nat
      BY <1>1, <1>4
    <2> QED BY <1>4, <2>1, <2>3, <2>4
  <1> QED BY <1>4, <1>5

\* There is such a function.
LEMMA SumExists ==
    ASSUME NEW S, IsFiniteSet(S), NEW W \in [S -> Int]
    PROVE  \E g : Sums(g, S, W)
  <1> DEFINE without == {t \in SUBSET S : ~(\E g : Sums(g, t, W))}
  <1>1. SUFFICES ASSUME without # {} PROVE FALSE
    OBVIOUS
  <1>2. PICK t \in without : \A u \in without : ~(\E x \in t : u = t \ {x})
    <2>1. without \in SUBSET SUBSET S
      OBVIOUS
    <2> HIDE DEF without
    <2> QED BY <1>1, <2>1, SmallestPart
  <1>3. CASE t = {}
    <2> DEFINE g == [s \in SUBSET t |-> 0]
    <2>1. Sums(g, t, W)
      BY <1>3 DEF Sums
    <2> QED BY <2>1
  <1>4. CASE t # {}
    <2>1. PICK y \in t : TRUE
      BY <1>4
    <2>2. PICK h : Sums(h, t \ {y}, W)
      BY <1>2
    <2> DEFINE g == [s \in SUBSET t |-> (IF y \in s THEN W[y] ELSE 0) + h[s \ {y}]]
    <2>3. /\ \A s \in SUBSET t : s \ {y} \in SUBSET (t \ {y}) /\ h[s \ {y}] \in Int
          /\ \A x \in t : W[x] \in Int
      BY <2>2 DEF Sums
    <2>4. g \in [SUBSET t -> Int]
      <3>1. \A s \in SUBSET t : (IF y \in s THEN W[y] ELSE 0) + h[s \ {y}] \in Int
        BY <2>1, <2>3
      <3> QED BY <3>1
    <2>5. g[{}] = 0
      <3>1. {} \ {y} = {}
        OBVIOUS
      <3>2. h[{}] = 0
        BY <2>2 DEF Sums
      <3> QED BY <3>1, <3>2
    <2>6. ASSUME NEW s \in SUBSET t, NEW x \in s PROVE g[s] = W[x] + g[s \ {x}]
      <3>0. /\ g[s] = (IF y \in s THEN W[y] ELSE 0) + h[s \ {y}]
            /\ g[s \ {x}] = (IF y \in s \ {x} THEN W[y] ELSE 0) + h[(s \ {x}) \ {y}]
        OBVIOUS
      <3>1. CASE x = y
        <4>1. (s \ {x}) \ {y} = s \ {y}
          BY <3>1
        <4>2. g[s] = W[y] + h[s \ {y}] /\ g[s \ {x}] = 0 + h[s \ {y}]
          BY <3>0, <3>1, <4>1
        <4>3. h[s \ {y}] \in Int /\ W[y] \in Int
          BY <2>3
        <4> HIDE DEF g
        <4> QED BY <3>1, <4>2, <4>3
      <3>2. CASE x # y
        <4>1. (s \ {x}) \ {y} = (s \ {y}) \ {x} /\ x \in s \ {y}
          BY <3>2
        <4>2. h[s \ {y}] = W[x] + h[(s \ {y}) \ {x}]
          BY <2>2, <2>3, <4>1 DEF Sums
        <4>3. h[(s \ {y}) \ {x}] \in Int /\ W[x] \in Int
          <5>1. (s \ {x}) \in SUBSET t
            OBVIOUS
          <5> QED BY <2>3, <4>1, <5>1
        <4>4. CASE y \in s
          <5>1. g[s] = W[y] + (W[x] + h[(s \ {y}) \ {x}])
            BY <3>0, <4>2, <4>4
          <5>2. g[s \ {x}] = W[y] + h[(s \ {y}) \ {x}]
            BY <3>0, <3>2, <4>1, <4>4
          <5>3. W[y] \in Int
            BY <2>3
          <5> HIDE DEF g
          <5> QED BY <4>3, <5>1, <5>2, <5>3
        <4>5. CASE y \notin s
          <5>1. g[s] = 0 + (W[x] + h[(s \ {y}) \ {x}])
            BY <3>0, <4>2, <4>5
          <5>2. g[s \ {x}] = 0 + h[(s \ {y}) \ {x}]
            BY <3>0, <4>1, <4>5
          <5> HIDE DEF g
          <5> QED BY <4>3, <5>1, <5>2
        <4> QED BY <4>4, <4>5
      <3> QED BY <3>1, <3>2
    <2>7. Sums(g, t, W)
      BY <2>4, <2>5, <2>6 DEF Sums
    <2> QED BY <2>7
  <1> QED BY <1>3, <1>4

\* Whoever adds up in the order of CHOOSE has its values.
Picks(f, S, W) ==
    \A s \in SUBSET S : f[s] = IF s = {} THEN 0
                               ELSE W[CHOOSE x \in s : TRUE] + f[s \ {CHOOSE x \in s : TRUE}]
LEMMA PickedSums ==
    ASSUME NEW S, IsFiniteSet(S), NEW W \in [S -> Int], NEW g, Sums(g, S, W), NEW f,
           Picks(f, S, W)
    PROVE  \A s \in SUBSET S : f[s] = g[s]
  <1> DEFINE off == {s \in SUBSET S : f[s] # g[s]}
  <1>1. SUFFICES ASSUME off # {} PROVE FALSE
    OBVIOUS
  <1>2. PICK t \in off : \A u \in off : ~(\E x \in t : u = t \ {x})
    <2>1. off \in SUBSET SUBSET S
      OBVIOUS
    <2> HIDE DEF off
    <2> QED BY <1>1, <2>1, SmallestPart
  <1>3. t # {}
    BY DEF Sums, Picks
  <1> DEFINE y == CHOOSE x \in t : TRUE
  <1>4. y \in t
    BY <1>3
  <1>5. f[t] = W[y] + f[t \ {y}]
    BY <1>3 DEF Picks
  <1> HIDE DEF y
  <1>6. f[t \ {y}] = g[t \ {y}]
    BY <1>2, <1>4
  <1>7. g[t] = W[y] + g[t \ {y}]
    BY <1>4 DEF Sums
  <1> QED BY <1>5, <1>6, <1>7

\* A sum over other elements of the same weights is the same.
LEMMA MappedSums ==
    ASSUME NEW A, IsFiniteSet(A), NEW V \in [A -> Int], NEW g, Sums(g, A, V),
           NEW B, NEW W \in [B -> Int], NEW h, Sums(h, B, W),
           NEW to \in [A -> B], \A x, y \in A : to[x] = to[y] => x = y,
           \A x \in A : W[to[x]] = V[x]
    PROVE  \A s \in SUBSET A : g[s] = h[{to[x] : x \in s}]
  <1> DEFINE image(s) == {to[x] : x \in s}
             off == {s \in SUBSET A : g[s] # h[image(s)]}
  <1>1. SUFFICES ASSUME off # {} PROVE FALSE
    OBVIOUS
  <1>2. PICK t \in off : \A u \in off : ~(\E x \in t : u = t \ {x})
    <2>1. off \in SUBSET SUBSET A
      OBVIOUS
    <2> HIDE DEF off
    <2> QED BY <1>1, <2>1, SmallestPart
  <1>3. t # {}
    <2> SUFFICES ASSUME t = {} PROVE FALSE
      OBVIOUS
    <2>1. image(t) = {}
      OBVIOUS
    <2>2. g[t] = 0 /\ h[image(t)] = 0
      BY <2>1 DEF Sums
    <2> QED BY <2>2
  <1>4. PICK y \in t : TRUE
    BY <1>3
  <1>5. image(t \ {y}) = image(t) \ {to[y]} /\ to[y] \in image(t) /\ image(t) \in SUBSET B
    OBVIOUS
  <1>6. g[t \ {y}] = h[image(t \ {y})]
    BY <1>2, <1>4
  <1>7. g[t] = V[y] + g[t \ {y}]
    BY <1>4 DEF Sums
  <1>8. h[image(t)] = W[to[y]] + h[image(t) \ {to[y]}]
    BY <1>5 DEF Sums
  <1>9. g[t] # h[image(t)] /\ W[to[y]] = V[y]
    OBVIOUS
  <1> HIDE DEF image, off
  <1> QED BY <1>5, <1>6, <1>7, <1>8, <1>9

\* The sums of the code's series and of what the sensors said.
LEMMA SeriesSumIs ==
    ASSUME NEW ring, NEW S, IsFiniteSet(S), \A i \in S : ring[i].v \in Int,
           NEW g, Sums(g, S, [i \in S |-> ring[i].v])
    PROVE  SumOver(ring, S) = g[S]
  <1> DEFINE W == [i \in S |-> ring[i].v]
             F(iter) == [s \in SUBSET S |->
                           IF s = {} THEN 0
                           ELSE ring[CHOOSE x \in s : TRUE].v
                                  + iter[s \ {CHOOSE x \in s : TRUE}]]
             f == CHOOSE iter : iter = F(iter)
  <1>1. g = F(g)
    <2>1. ASSUME NEW s \in SUBSET S PROVE g[s] = F(g)[s]
      <3>1. CASE s = {}
        BY <3>1 DEF Sums
      <3>2. CASE s # {}
        <4> DEFINE y == CHOOSE x \in s : TRUE
        <4>1. y \in s
          BY <3>2
        <4>2. F(g)[s] = ring[y].v + g[s \ {y}]
          BY <3>2
        <4> HIDE DEF y
        <4>3. g[s] = ring[y].v + g[s \ {y}]
          BY <4>1 DEF Sums
        <4> QED BY <4>2, <4>3
      <3> QED BY <3>1, <3>2
    <2>2. g \in [SUBSET S -> Int]
      BY DEF Sums
    <2> QED BY <2>1, <2>2
  <1>2. f = F(f)
    BY <1>1
  <1>3. SumOver(ring, S) = f[S]
    BY DEF SumOver, MapThenSumSet, MapThenFoldSet
  <1> HIDE DEF f
  <1>4. Picks(f, S, W)
    <2> SUFFICES ASSUME NEW s \in SUBSET S
                 PROVE  f[s] = IF s = {} THEN 0
                               ELSE W[CHOOSE x \in s : TRUE] + f[s \ {CHOOSE x \in s : TRUE}]
      BY DEF Picks
    <2>1. f[s] = IF s = {} THEN 0
                 ELSE ring[CHOOSE x \in s : TRUE].v + f[s \ {CHOOSE x \in s : TRUE}]
      BY <1>2
    <2>2. s # {} => (CHOOSE x \in s : TRUE) \in S
      OBVIOUS
    <2> QED BY <2>1, <2>2
  <1>5. W \in [S -> Int] /\ Sums(g, S, W)
    OBVIOUS
  <1> HIDE DEF W
  <1>6. f[S] = g[S]
    BY <1>4, <1>5, PickedSums
  <1> QED BY <1>3, <1>6

LEMMA SampleSumIs ==
    ASSUME NEW S, IsFiniteSet(S), \A x \in S : x.v \in Int,
           NEW g, Sums(g, S, [x \in S |-> x.v])
    PROVE  MapThenSumSet(LAMBDA x : x.v, S) = g[S]
  <1> DEFINE W == [x \in S |-> x.v]
             F(iter) == [s \in SUBSET S |->
                           IF s = {} THEN 0
                           ELSE (CHOOSE x \in s : TRUE).v
                                  + iter[s \ {CHOOSE x \in s : TRUE}]]
             f == CHOOSE iter : iter = F(iter)
  <1>1. g = F(g)
    <2>1. ASSUME NEW s \in SUBSET S PROVE g[s] = F(g)[s]
      <3>1. CASE s = {}
        BY <3>1 DEF Sums
      <3>2. CASE s # {}
        <4> DEFINE y == CHOOSE x \in s : TRUE
        <4>1. y \in s
          BY <3>2
        <4>2. F(g)[s] = y.v + g[s \ {y}]
          BY <3>2
        <4> HIDE DEF y
        <4>3. g[s] = y.v + g[s \ {y}]
          BY <4>1 DEF Sums
        <4> QED BY <4>2, <4>3
      <3> QED BY <3>1, <3>2
    <2>2. g \in [SUBSET S -> Int]
      BY DEF Sums
    <2> QED BY <2>1, <2>2
  <1>2. f = F(f)
    BY <1>1
  <1>3. MapThenSumSet(LAMBDA x : x.v, S) = f[S]
    BY DEF MapThenSumSet, MapThenFoldSet
  <1> HIDE DEF f
  <1>4. Picks(f, S, W)
    <2> SUFFICES ASSUME NEW s \in SUBSET S
                 PROVE  f[s] = IF s = {} THEN 0
                               ELSE W[CHOOSE x \in s : TRUE] + f[s \ {CHOOSE x \in s : TRUE}]
      BY DEF Picks
    <2>1. f[s] = IF s = {} THEN 0
                 ELSE (CHOOSE x \in s : TRUE).v + f[s \ {CHOOSE x \in s : TRUE}]
      BY <1>2
    <2>2. s # {} => (CHOOSE x \in s : TRUE) \in S
      OBVIOUS
    <2> QED BY <2>1, <2>2
  <1>5. W \in [S -> Int] /\ Sums(g, S, W)
    OBVIOUS
  <1> HIDE DEF W
  <1>6. f[S] = g[S]
    BY <1>4, <1>5, PickedSums
  <1> QED BY <1>3, <1>6

\* A mean over places in the ring is the mean of the samples there.
LEMMA SameMean ==
    ASSUME NEW ring, NEW A, IsFiniteSet(A), NEW B,
           \A i \in A : ring[i] \in B /\ ring[i].v \in Int,
           \A x \in B : \E i \in A : x = ring[i],
           \A i, j \in A : ring[i] = ring[j] => i = j
    PROVE  /\ SumOver(ring, A) = MapThenSumSet(LAMBDA x : x.v, B)
           /\ Cardinality(A) = Cardinality(B)
  <1> DEFINE to == [i \in A |-> ring[i]]
             V == [i \in A |-> ring[i].v]
             W == [x \in B |-> x.v]
  <1>1. /\ to \in [A -> B] /\ V \in [A -> Int] /\ W \in [B -> Int]
        /\ \A i, j \in A : to[i] = to[j] => i = j
        /\ \A i \in A : W[to[i]] = V[i]
        /\ \A x \in B : \E i \in A : to[i] = x
        /\ \A x \in B : x.v \in Int
    OBVIOUS
  <1> HIDE DEF to
  <1>2. to \in Bijection(A, B)
    BY <1>1 DEF Bijection, Injection, Surjection, IsInjective
  <1>3. IsFiniteSet(B) /\ Cardinality(A) = Cardinality(B)
    BY <1>2, FS_Bijection DEF ExistsBijection
  <1>4. PICK g : Sums(g, A, V)
    <2> HIDE DEF V
    <2> QED BY <1>1, SumExists
  <1>5. PICK h : Sums(h, B, W)
    <2> HIDE DEF W
    <2> QED BY <1>1, <1>3, SumExists
  <1>6. g[A] = h[B]
    <2>1. {to[x] : x \in A} = B
      BY <1>1
    <2>2. \A s \in SUBSET A : g[s] = h[{to[x] : x \in s}]
      <3>1. \A x, y \in A : to[x] = to[y] => x = y
        BY <1>1
      <3>2. \A x \in A : W[to[x]] = V[x]
        BY <1>1
      <3>3. V \in [A -> Int] /\ W \in [B -> Int] /\ to \in [A -> B]
        BY <1>1
      <3> HIDE DEF V, W
      <3> QED BY <3>1, <3>2, <3>3, <1>4, <1>5, MappedSums
    <2> QED BY <2>1, <2>2
  <1>7. SumOver(ring, A) = g[A]
    BY <1>4, SeriesSumIs
  <1>8. MapThenSumSet(LAMBDA x : x.v, B) = h[B]
    BY <1>1, <1>3, <1>5, SampleSumIs
  <1> QED BY <1>3, <1>6, <1>7, <1>8

\* Minutes are counted as the code cuts them off.
LEMMA MinuteIs ==
    ASSUME NEW t \in Nat
    PROVE  /\ MinuteOf(t) = (t \div PerMinute) * PerMinute
           /\ t \div PerMinute \in Nat
           /\ \A u \in Nat : MinuteOf(u) = MinuteOf(t) <=> u \div PerMinute = t \div PerMinute
  <1>1. PerMinute \in Nat \ {0}
    BY RecorderConstants
  <1>2. \A u \in Nat : u \div PerMinute \in Nat /\ u - (u % PerMinute) = (u \div PerMinute) * PerMinute
    BY <1>1
  <1>3. \A a, b \in Nat : a * PerMinute = b * PerMinute => a = b
    BY <1>1
  <1> QED BY <1>2, <1>3 DEF MinuteOf

\* The series of a sensor: one mean for each minute with a sample.
LEMMA SeriesMatch ==
    ASSUME RInv, SamplesInv, proc = "up", ~seen.back, NEW q \in Nat
    PROVE  SeriesMatchFor(q)
  <1> SUFFICES ASSUME NEW s \in Polled
               PROVE  LET in == InWindow(s, q)
                          minutes == {x.at \div PerMinute : x \in in}
                          of(m) == {x \in in : x.at \div PerMinute = m}
                      IN GetSeries(rings, s, now, q).points =
                            {[at |-> m * PerMinute,
                              v  |-> MapThenSumSet(LAMBDA x : x.v, of(m)) \div Cardinality(of(m))] :
                                m \in minutes}
    BY DEF SeriesMatchFor
  <1> DEFINE ring == rings[s]
             places == SeriesRange(ring, now, q)
             at(m) == {i \in places : MinuteOf(ring[i].at) = m}
             point(m) == [at |-> m, v |-> SumOver(ring, at(m)) \div Cardinality(at(m))]
             in == InWindow(s, q)
             of(m) == {x \in in : x.at \div PerMinute = m}
             said(m) == [at |-> m * PerMinute,
                         v  |-> MapThenSumSet(LAMBDA x : x.v, of(m)) \div Cardinality(of(m))]
  <1>1. GetSeries(rings, s, now, q).points =
           {point(m) : m \in {MinuteOf(ring[i].at) : i \in places}}
    <2>1. s \in DOMAIN rings
      BY DEF RInv, TypeOK
    <2> QED BY <2>1 DEF GetSeries, BucketMinutes
  <1>2. /\ IsFiniteSet(places)
        /\ \A i, j \in places : i < j <=> ring[i].at < ring[j].at
        /\ \A i \in places : i \in Nat /\ ring[i] \in in
        /\ \A x \in in : \E i \in places : x = ring[i]
        /\ \A x \in in : x.at \in Nat /\ x.v \in Int
    <2>1. Len(ring) \in Nat
      BY LenProperties DEF RInv, TypeOK
    <2>2. \A x \in Samples : x.v \in Int
      BY DEF Samples
    <2> HIDE DEF ring, places, in
    <2> QED BY <2>1, <2>2, RingIsWindow DEF ring, places, in
  <1> HIDE DEF places, in, ring
  <1>3. \A i, j \in places : ring[i] = ring[j] => i = j
    <2> SUFFICES ASSUME NEW i \in places, NEW j \in places, ring[i] = ring[j] PROVE i = j
      OBVIOUS
    <2>1. ~(i < j) /\ ~(j < i) /\ i \in Nat /\ j \in Nat
      BY <1>2
    <2> QED BY <2>1
  <1>4. ASSUME NEW i \in places
        PROVE  point(MinuteOf(ring[i].at)) = said(ring[i].at \div PerMinute)
    <2> DEFINE t == ring[i].at
               A == at(MinuteOf(t))
               B == of(t \div PerMinute)
    <2>1. t \in Nat /\ MinuteOf(t) = (t \div PerMinute) * PerMinute
      BY <1>2, MinuteIs
    <2>2. \A j \in places : j \in A <=> ring[j] \in B
      <3> SUFFICES ASSUME NEW j \in places PROVE j \in A <=> ring[j] \in B
        OBVIOUS
      <3>1. ring[j] \in in /\ ring[j].at \in Nat
        BY <1>2
      <3>2. MinuteOf(ring[j].at) = MinuteOf(t) <=> ring[j].at \div PerMinute = t \div PerMinute
        <4> HIDE DEF t
        <4> QED BY <2>1, <3>1, MinuteIs
      <3> QED BY <3>1, <3>2
    <2>3. A \subseteq places /\ B \subseteq in
      OBVIOUS
    <2> HIDE DEF A, B
    <2>4. /\ IsFiniteSet(A)
          /\ \A j \in A : ring[j] \in B /\ ring[j].v \in Int
          /\ \A x \in B : \E j \in A : x = ring[j]
          /\ \A j, k \in A : ring[j] = ring[k] => j = k
      <3>1. IsFiniteSet(A)
        BY <1>2, <2>3, FS_Subset
      <3>2. \A j \in A : ring[j] \in B /\ ring[j].v \in Int
        BY <1>2, <2>2, <2>3
      <3>3. \A x \in B : \E j \in A : x = ring[j]
        BY <1>2, <2>2, <2>3
      <3> QED BY <3>1, <3>2, <3>3, <1>3, <2>3
    <2>5. /\ SumOver(ring, A) = MapThenSumSet(LAMBDA x : x.v, B)
          /\ Cardinality(A) = Cardinality(B)
      BY <2>4, SameMean
    <2> HIDE DEF t
    <2> QED BY <2>1, <2>5 DEF A, B, t
  <1> HIDE DEF point, said
  <1>5. {point(m) : m \in {MinuteOf(ring[i].at) : i \in places}}
          = {said(m) : m \in {x.at \div PerMinute : x \in in}}
    <2>1. ASSUME NEW i \in places
          PROVE  point(MinuteOf(ring[i].at)) \in {said(m) : m \in {x.at \div PerMinute : x \in in}}
      <3>1. ring[i] \in in
        BY <1>2
      <3> QED BY <1>4, <3>1
    <2>2. ASSUME NEW x \in in
          PROVE  said(x.at \div PerMinute)
                   \in {point(m) : m \in {MinuteOf(ring[i].at) : i \in places}}
      <3>1. PICK i \in places : x = ring[i]
        BY <1>2
      <3> QED BY <1>4, <3>1
    <2> QED BY <2>1, <2>2
  <1> QED BY <1>1, <1>5 DEF said, in

(***************************************************************************)
(* The timeline.                                                           *)
(***************************************************************************)

LEMMA MinIs ==
    ASSUME NEW S \in SUBSET Nat, S # {}
    PROVE  Min(S) \in S /\ \A x \in S : Min(S) <= x
  <1>1. \E x \in S : \A y \in S : x <= y
    BY LeastNumber
  <1> QED BY <1>1 DEF Min

LEMMA MaxIs ==
    ASSUME NEW n \in Nat, NEW S \in SUBSET (1..n), S # {}
    PROVE  Max(S) \in S /\ \A x \in S : x <= Max(S)
  <1> DEFINE T == {n - x : x \in S}
  <1>4. \A x \in S : n - x \in Nat /\ x \in Nat
    OBVIOUS
  <1>1. T \in SUBSET Nat /\ T # {}
    BY <1>4
  <1>2. PICK d \in T : \A y \in T : d <= y
    <2> HIDE DEF T
    <2> QED BY <1>1, LeastNumber
  <1>3. PICK m \in S : d = n - m
    BY <1>2
  <1>5. \A x \in S : m >= x
    <2> SUFFICES ASSUME NEW x \in S PROVE m >= x
      OBVIOUS
    <2>1. n - m <= n - x
      <3>1. n - x \in T
        OBVIOUS
      <3> QED BY <1>2, <1>3, <3>1
    <2> QED BY <1>4, <2>1
  <1>6. Max(S) \in S /\ \A x \in S : Max(S) >= x
    BY <1>5 DEF Max
  <1> QED BY <1>4, <1>6

\* The walk of segment() over a sensor ends at its latest sample by then.
LEMMA WalkIsAsOf ==
    ASSUME RInv, SamplesInv, proc = "up", ~seen.back, NEW q \in Nat,
           NEW s \in Polled, NEW t \in Int
    PROVE  WalkedTo(rings[s], SeriesRange(rings[s], now, q), t) = AsOf(s, t, q)
  <1> DEFINE ring == rings[s]
             in == SeriesRange(ring, now, q)
             said == InWindow(s, q)
             passed == {i \in in : \A j \in in : j <= i => ring[j].at <= t}
             by == {x \in said : x.at <= t}
             last == CHOOSE x \in by : \A y \in by : y.at <= x.at
             n == Len(ring)
  <1>1. n \in Nat
    BY LenProperties DEF RInv, TypeOK
  <1>2. /\ in \subseteq 1..n
        /\ \A i, j \in in : i < j <=> ring[i].at < ring[j].at
        /\ \A i \in in : ring[i] \in said
        /\ \A x \in said : \E i \in in : x = ring[i]
        /\ \A x \in said : x.at \in Nat
    BY RingIsWindow
  <1>3. WalkedTo(ring, in, t) = IF passed = {} THEN Unknown ELSE ring[Max(passed)].v
    BY DEF WalkedTo
  <1>4. AsOf(s, t, q) = IF by = {} THEN Unknown ELSE last.v
    BY DEF AsOf
  <1> HIDE DEF ring, in, said, n
  <1>5. \A i \in in : i \in Nat /\ ring[i].at \in Nat
    BY <1>1, <1>2
  <1>6. \A i \in in : i \in passed <=> ring[i].at <= t
    <2> SUFFICES ASSUME NEW i \in in, ring[i].at <= t, NEW j \in in, j <= i
                 PROVE  ring[j].at <= t
      BY <1>5
    <2>1. ring[j].at <= ring[i].at
      BY <1>2, <1>5
    <2> QED BY <1>5, <2>1
  <1>7. passed = {} <=> by = {}
    <2>1. \A i \in passed : ring[i] \in by
      BY <1>2, <1>6
    <2>2. \A x \in by : \E i \in passed : x = ring[i]
      <3> SUFFICES ASSUME NEW x \in by PROVE \E i \in passed : x = ring[i]
        OBVIOUS
      <3>1. PICK i \in in : x = ring[i]
        BY <1>2
      <3>2. i \in passed
        BY <1>6, <3>1
      <3> QED BY <3>1, <3>2
    <2> HIDE DEF passed, by
    <2> QED BY <2>1, <2>2
  <1>8. ASSUME passed # {}
        PROVE  ring[Max(passed)] = last
    <2> DEFINE m == Max(passed)
    <2>1. m \in passed /\ \A i \in passed : i <= m
      <3>1. passed \in SUBSET (1..n)
        BY <1>2
      <3> HIDE DEF passed
      <3> QED BY <1>1, <1>8, <3>1, MaxIs
    <2> HIDE DEF m
    <2>2. m \in in /\ ring[m] \in by
      BY <1>2, <1>6, <2>1
    <2>3. \A y \in by : \E j \in in : y = ring[j] /\ j <= m
      <3> SUFFICES ASSUME NEW y \in by PROVE \E j \in in : y = ring[j] /\ j <= m
        OBVIOUS
      <3>1. PICK j \in in : y = ring[j]
        BY <1>2
      <3>2. j \in passed
        BY <1>6, <3>1
      <3> QED BY <2>1, <3>1, <3>2
    <2>4. \A y \in by : y.at <= ring[m].at
      <3> SUFFICES ASSUME NEW y \in by PROVE y.at <= ring[m].at
        OBVIOUS
      <3>1. PICK j \in in : y = ring[j] /\ j <= m
        BY <2>3
      <3>2. ~(m < j)
        BY <1>5, <2>2, <3>1
      <3> QED BY <1>2, <1>5, <2>2, <3>1, <3>2
    <2>5. \A x \in by : (\A y \in by : y.at <= x.at) => x = ring[m]
      <3> SUFFICES ASSUME NEW x \in by, \A y \in by : y.at <= x.at PROVE x = ring[m]
        OBVIOUS
      <3>1. PICK j \in in : x = ring[j] /\ j <= m
        BY <2>3
      <3>2. ring[m].at <= ring[j].at
        BY <2>2, <3>1
      <3>3. ~(j < m)
        BY <1>2, <1>5, <2>2, <3>1, <3>2
      <3>4. j = m
        BY <1>5, <2>2, <3>1, <3>3
      <3> QED BY <3>1, <3>4
    <2> HIDE DEF by
    <2> QED BY <2>2, <2>4, <2>5 DEF m
  <1> HIDE DEF passed, by, last
  <1> QED BY <1>3, <1>4, <1>7, <1>8 DEF ring, in

\* So a lane is on for the code exactly when the samples say so.
LEMMA LaneIsSaid ==
    ASSUME RInv, SamplesInv, proc = "up", ~seen.back, NEW q \in Nat,
           NEW lane \in Lanes, NEW t \in Int
    PROVE  LaneOn(lane, rings, now, q, t) <=> Says(lane, t, q)
  <1>1. \A s \in {"SystemStatus", "HpStatus", "BrinePump"} :
           WalkedTo(rings[s], SeriesRange(rings[s], now, q), t) = AsOf(s, t, q)
    BY WalkIsAsOf, RecorderConstants
  <1>2. lane \in {"heating", "dhw", "brine"}
    BY DEF Lanes
  <1> QED BY <1>1, <1>2 DEF LaneOn, Says, BrineOn

\* The instants of the timeline are those of the samples in the window.
Seen(q) == UNION {InWindow(s, q) : s \in ActivitySensors}
LEMMA TimesAreSeen ==
    ASSUME RInv, SamplesInv, proc = "up", ~seen.back, NEW q \in Nat
    PROVE  /\ TimesOf(rings, now, q) = {x.at : x \in Seen(q)}
           /\ TimesOf(rings, now, q) \in SUBSET Nat
           /\ \A u \in TimesOf(rings, now, q) : From(now, q) <= u /\ u <= now
  <1>1. ASSUME NEW s \in ActivitySensors
        PROVE  /\ {rings[s][i].at : i \in SeriesRange(rings[s], now, q)}
                     = {x.at : x \in InWindow(s, q)}
               /\ \A x \in InWindow(s, q) : x.at \in Nat /\ From(now, q) <= x.at /\ x.at <= now
    <2> DEFINE ring == rings[s]
               in == SeriesRange(ring, now, q)
               said == InWindow(s, q)
    <2>1. s \in Polled
      BY RecorderConstants DEF ActivitySensors
    <2>2. /\ \A i \in in : ring[i] \in said
          /\ \A x \in said : \E i \in in : x = ring[i]
          /\ \A x \in said : x.at \in Nat /\ From(now, q) <= x.at /\ x.at <= now
      BY <2>1, RingIsWindow
    <2> HIDE DEF ring, in, said
    <2>3. {ring[i].at : i \in in} = {x.at : x \in said}
      BY <2>2
    <2> QED BY <2>2, <2>3 DEF ring, in, said
  <1>2. TimesOf(rings, now, q) = UNION {{x.at : x \in InWindow(s, q)} : s \in ActivitySensors}
    <2> DEFINE stamps(s) == {rings[s][i].at : i \in SeriesRange(rings[s], now, q)}
               said(s) == {x.at : x \in InWindow(s, q)}
    <2>1. \A s \in ActivitySensors : stamps(s) = said(s)
      BY <1>1
    <2>2. TimesOf(rings, now, q) = UNION {stamps(s) : s \in ActivitySensors}
      BY DEF TimesOf
    <2> HIDE DEF stamps, said
    <2>3. {stamps(s) : s \in ActivitySensors} = {said(s) : s \in ActivitySensors}
      BY <2>1
    <2>4. TimesOf(rings, now, q) = UNION {said(s) : s \in ActivitySensors}
      BY <2>2, <2>3
    <2> QED BY <2>4 DEF said
  <1>3. TimesOf(rings, now, q) = {x.at : x \in Seen(q)}
    BY <1>2 DEF Seen
  <1>4. \A x \in Seen(q) : x.at \in Nat /\ From(now, q) <= x.at /\ x.at <= now
    BY <1>1 DEF Seen
  <1> QED BY <1>3, <1>4

\* What segment() makes of the instants T of which a lane is on at ON: each run
\* has its first instant in `begun`, and goes from `start` to `end`.
IsRuns(T, ON, from, to, begun, start, end) ==
    \A t \in ON :
        /\ begun[t] \in T /\ begun[t] <= t
        /\ \A o \in T \ ON : o < t => o < begun[t]
        /\ \A u \in T : u <= t /\ (\A o \in T \ ON : o < t => o < u) => begun[t] <= u
        /\ start[t] = IF \A u \in T : begun[t] <= u THEN from ELSE begun[t]
        /\ \/ end[t] = to /\ \A o \in T \ ON : o < t
           \/ end[t] \in T \ ON /\ end[t] > t /\ \A o \in T \ ON : o > t => end[t] <= o

\* The latest instant of T by u, or the first of all when there is none.
IsLatest(l, u, first, T) ==
    /\ first \in T /\ \A x \in T : first <= x
    /\ l \in T /\ (l <= u \/ l = first) /\ \A x \in T : x <= u => x <= l

\* An instant is covered when the lane was on at the latest by then.
LEMMA RunsCover ==
    ASSUME NEW T \in SUBSET Nat, NEW ON \in SUBSET T, NEW from \in Int, NEW to \in Nat,
           \A x \in T : from <= x /\ x <= to,
           NEW begun, NEW start, NEW end, IsRuns(T, ON, from, to, begun, start, end),
           NEW u \in Int, from <= u, u < to, NEW l, NEW first, IsLatest(l, u, first, T)
    PROVE  (\E t \in ON : start[t] <= u /\ u < end[t]) <=> l \in ON
  <1>0. /\ \A x \in T : x \in Nat
        /\ first \in T /\ \A x \in T : first <= x
        /\ l \in T /\ (l <= u \/ l = first) /\ \A x \in T : x <= u => x <= l
    BY DEF IsLatest
  <1>1. ASSUME NEW t \in ON, start[t] <= u, u < end[t], l \notin ON PROVE FALSE
    <2>1. /\ begun[t] \in T /\ begun[t] <= t
          /\ l < t => l < begun[t]
          /\ start[t] = IF \A x \in T : begun[t] <= x THEN from ELSE begun[t]
          /\ l > t => end[t] \in T /\ end[t] <= l
      <3>1. l \in T \ ON /\ t \in Nat /\ l \in Nat
        BY <1>0, <1>1
      <3> QED BY <1>0, <3>1 DEF IsRuns
    <2>2. /\ t \in Nat /\ l \in Nat /\ first \in Nat /\ begun[t] \in Nat
          /\ first <= l /\ first <= t /\ first <= begun[t] /\ l # t
      BY <1>0, <1>1, <2>1
    <2>3. CASE l < t
      <3>1. ~(\A x \in T : begun[t] <= x)
        BY <1>0, <2>1, <2>2, <2>3
      <3>2. begun[t] <= u
        BY <1>0, <1>1, <2>1, <3>1
      <3>3. begun[t] <= l
        BY <1>0, <2>1, <3>2
      <3> QED BY <1>0, <2>1, <2>2, <2>3, <3>3
    <2>4. CASE l > t
      <3>1. end[t] \in Nat /\ end[t] <= l
        BY <1>0, <2>1, <2>4
      <3>2. l <= u
        BY <1>0, <2>2, <2>4
      <3> QED BY <1>0, <1>1, <2>2, <3>1, <3>2
    <2> QED BY <1>0, <2>2, <2>3, <2>4
  <1>2. ASSUME l \in ON PROVE start[l] <= u /\ u < end[l]
    <2>1. /\ begun[l] \in T /\ begun[l] <= l
          /\ start[l] = IF \A x \in T : begun[l] <= x THEN from ELSE begun[l]
          /\ \/ end[l] = to
             \/ end[l] \in T /\ end[l] > l
      BY <1>0, <1>2 DEF IsRuns
    <2>2. l \in Nat /\ first \in Nat /\ begun[l] \in Nat /\ first <= begun[l]
      BY <1>0, <2>1
    <2>3. start[l] <= u
      <3>1. CASE \A x \in T : begun[l] <= x
        BY <1>0, <2>1, <3>1
      <3>2. CASE ~(\A x \in T : begun[l] <= x)
        <4>1. begun[l] # first
          BY <1>0, <3>2
        <4>2. l # first
          BY <1>0, <2>1, <2>2, <4>1
        <4>3. begun[l] <= l /\ l <= u
          BY <1>0, <2>1, <4>2
        <4> QED BY <1>0, <2>1, <2>2, <3>2, <4>3
      <3> QED BY <1>0, <3>1, <3>2
    <2>4. u < end[l]
      <3>1. CASE end[l] = to
        BY <1>0, <3>1
      <3>2. CASE end[l] \in T /\ end[l] > l
        <4>1. end[l] \in Nat
          BY <1>0, <3>2
        <4>2. ~(end[l] <= u)
          <5> SUFFICES ASSUME end[l] <= u PROVE FALSE
            OBVIOUS
          <5>1. end[l] <= l
            BY <1>0, <3>2
          <5> QED BY <1>0, <2>2, <3>2, <4>1, <5>1
        <4> QED BY <1>0, <4>1, <4>2
      <3> QED BY <1>0, <2>1, <3>1, <3>2
    <2> QED BY <1>0, <2>3, <2>4
  <1> QED BY <1>0, <1>1, <1>2

\* Two of them are the same, or one is over before the other starts.
LEMMA RunsApart ==
    ASSUME NEW T \in SUBSET Nat, NEW ON \in SUBSET T, NEW from \in Int, NEW to \in Nat,
           NEW begun, NEW start, NEW end, IsRuns(T, ON, from, to, begun, start, end),
           NEW a \in ON, NEW b \in ON, a < b
    PROVE  (start[a] = start[b] /\ end[a] = end[b]) \/ end[a] < start[b]
  <1> DEFINE OFF == T \ ON
  <1>0. \A x \in T : x \in Nat
    OBVIOUS
  <1>1. \A t \in ON :
           /\ begun[t] \in T /\ begun[t] <= t
           /\ \A o \in OFF : o < t => o < begun[t]
           /\ \A u \in T : u <= t /\ (\A o \in OFF : o < t => o < u) => begun[t] <= u
           /\ start[t] = IF \A u \in T : begun[t] <= u THEN from ELSE begun[t]
    BY DEF IsRuns
  <1>1e. \A t \in ON :
           \/ end[t] = to /\ \A o \in OFF : o < t
           \/ end[t] \in OFF /\ end[t] > t /\ \A o \in OFF : o > t => end[t] <= o
    BY DEF IsRuns
  <1>2. a \in Nat /\ b \in Nat /\ a \in T /\ b \in T /\ \A o \in OFF : o \in Nat /\ o \in T
        /\ o # a /\ o # b
    BY <1>0
  <1>2a. begun[a] \in Nat /\ begun[b] \in Nat
    BY <1>0, <1>1
  <1>3. CASE \E o \in OFF : a < o /\ o < b
    <2>1. PICK o \in OFF : a < o /\ o < b
      BY <1>3
    <2>2. o < begun[b] /\ o \in Nat
      BY <1>1, <1>2, <2>1
    <2>3. ~(\A u \in T : begun[b] <= u)
      BY <1>2, <1>2a, <2>2
    <2>4. start[b] = begun[b]
      BY <1>1, <2>3
    <2>5. end[a] \in OFF /\ end[a] <= o
      <3>1. ~(\A p \in OFF : p < a)
        BY <1>2, <2>1
      <3> QED BY <1>1e, <2>1, <3>1
    <2>6. end[a] \in Nat
      BY <1>2, <2>5
    <2> QED BY <1>2a, <2>2, <2>4, <2>5, <2>6
  <1>4. CASE ~(\E o \in OFF : a < o /\ o < b)
    <2>1. \A o \in OFF : o < a <=> o < b
      BY <1>2, <1>4
    <2>2. begun[a] = begun[b]
      <3>1. begun[b] <= begun[a]
        <4>1. begun[a] <= b
          BY <1>1, <1>2, <1>2a
        <4>2. \A o \in OFF : o < b => o < begun[a]
          BY <1>1, <2>1
        <4>3. \A u \in T : u <= b /\ (\A o \in OFF : o < b => o < u) => begun[b] <= u
          BY <1>1
        <4>4. begun[a] \in T
          BY <1>1
        <4> HIDE DEF OFF
        <4> QED BY <4>1, <4>2, <4>3, <4>4
      <3>2. begun[a] <= begun[b]
        <4>1. begun[b] <= a
          <5>1. \A o \in OFF : o < b => o < a
            BY <2>1
          <5>2. a <= b
            BY <1>2
          <5> QED BY <1>1, <1>2, <5>1, <5>2
        <4>2. \A o \in OFF : o < a => o < begun[b]
          BY <1>1, <2>1
        <4>3. \A u \in T : u <= a /\ (\A o \in OFF : o < a => o < u) => begun[a] <= u
          BY <1>1
        <4>4. begun[b] \in T
          BY <1>1
        <4> HIDE DEF OFF
        <4> QED BY <4>1, <4>2, <4>3, <4>4
      <3> QED BY <1>2a, <3>1, <3>2
    <2>3. start[a] = start[b]
      BY <1>1, <2>2
    <2>4. end[a] = end[b]
      <3>1. CASE \A o \in OFF : o < b
        <4>1. \A o \in OFF : o < a
          BY <2>1, <3>1
        <4> HIDE DEF OFF
        <4>2. ASSUME NEW t \in ON, t \in Nat, \A o \in OFF : o < t
              PROVE  end[t] = to
          <5>1. ASSUME end[t] \in OFF, end[t] > t
                PROVE  FALSE
            <6>1. end[t] \in Nat /\ end[t] < t
              BY <1>2, <4>2, <5>1
            <6> QED BY <4>2, <5>1, <6>1
          <5> QED BY <1>1e, <5>1
        <4> QED BY <1>2, <3>1, <4>1, <4>2
      <3>2. CASE ~(\A o \in OFF : o < b)
        <4>1. PICK p \in OFF : ~(p < b)
          BY <3>2
        <4>2. ~(p < a)
          BY <2>1, <4>1
        <4>3. /\ end[a] \in OFF /\ end[a] > a /\ \A o \in OFF : o > a => end[a] <= o
              /\ end[b] \in OFF /\ end[b] > b /\ \A o \in OFF : o > b => end[b] <= o
          BY <1>1e, <4>1, <4>2
        <4>4. end[a] > b /\ end[b] > a
          <5> HIDE DEF OFF
          <5>1. end[a] \in Nat /\ end[b] \in Nat /\ end[a] # b
            BY <1>2, <4>3
          <5>2. ~(end[a] < b)
            BY <1>2, <2>1, <4>3, <5>1
          <5> QED BY <1>2, <4>3, <5>1, <5>2
        <4>5. end[a] <= end[b] /\ end[b] <= end[a]
          BY <4>3, <4>4
        <4>6. end[a] \in Nat /\ end[b] \in Nat
          BY <1>2, <4>3
        <4> QED BY <4>5, <4>6
      <3> QED BY <3>1, <3>2
    <2> QED BY <2>3, <2>4
  <1> QED BY <1>3, <1>4

\* The bars of a lane are such runs.
LEMMA SegmentsAreRuns ==
    ASSUME NEW lane, NEW q \in Nat, now \in Nat,
           TimesOf(rings, now, q) \in SUBSET Nat,
           NEW T, T = TimesOf(rings, now, q),
           NEW ON \in SUBSET T, \A u \in T : u \in ON <=> LaneOn(lane, rings, now, q, u)
    PROVE  \E begun, start, end :
              /\ IsRuns(T, ON, From(now, q), now, begun, start, end)
              /\ \A t \in ON : SegmentAround(lane, rings, now, q, t)
                                 = [lane |-> lane, start |-> start[t], end |-> end[t]]
  <1> DEFINE off == {u \in T : ~LaneOn(lane, rings, now, q, u)}
             ended(t) == {u \in off : u > t}
             starts(t) == {u \in T : u <= t /\ \A o \in off : o < t => o < u}
             b0 == [t \in ON |-> Min(starts(t))]
             s0 == [t \in ON |-> IF b0[t] = Min(T) THEN From(now, q) ELSE b0[t]]
             e0 == [t \in ON |-> IF ended(t) = {} THEN now ELSE Min(ended(t))]
  <1>1. off = T \ ON /\ ON \in SUBSET T /\ T \in SUBSET Nat
    OBVIOUS
  <1>2. ASSUME NEW t \in ON
        PROVE  SegmentAround(lane, rings, now, q, t)
                 = [lane |-> lane, start |-> s0[t], end |-> e0[t]]
    BY DEF SegmentAround
  <1> HIDE DEF off
  <1>3. ASSUME NEW t \in ON
        PROVE  /\ b0[t] \in T /\ b0[t] <= t
               /\ \A o \in off : o < t => o < b0[t]
               /\ \A u \in T : u <= t /\ (\A o \in off : o < t => o < u) => b0[t] <= u
               /\ s0[t] = IF \A u \in T : b0[t] <= u THEN From(now, q) ELSE b0[t]
               /\ \/ e0[t] = now /\ \A o \in off : o < t
                  \/ e0[t] \in off /\ e0[t] > t /\ \A o \in off : o > t => e0[t] <= o
    <2>1. t \in starts(t) /\ starts(t) \in SUBSET Nat
      BY <1>1
    <2>2. b0[t] \in starts(t) /\ \A u \in starts(t) : b0[t] <= u
      <3>1. b0[t] = Min(starts(t))
        OBVIOUS
      <3> HIDE DEF starts, b0
      <3> QED BY <2>1, <3>1, MinIs
    <2>3. b0[t] = Min(T) <=> \A u \in T : b0[t] <= u
      <3>1. Min(T) \in T /\ \A u \in T : Min(T) <= u
        <4>1. T # {}
          BY <1>1
        <4> QED BY <1>1, <4>1, MinIs
      <3>2. b0[t] \in T
        BY <2>2
      <3> HIDE DEF b0
      <3>3. b0[t] \in Nat /\ Min(T) \in Nat
        BY <1>1, <3>1, <3>2
      <3> QED BY <3>1, <3>2, <3>3
    <2>4. s0[t] = IF b0[t] = Min(T) THEN From(now, q) ELSE b0[t]
      OBVIOUS
    <2>5. \/ e0[t] = now /\ \A o \in off : o < t
          \/ e0[t] \in off /\ e0[t] > t /\ \A o \in off : o > t => e0[t] <= o
      <3>1. e0[t] = IF ended(t) = {} THEN now ELSE Min(ended(t))
        OBVIOUS
      <3>2. CASE ended(t) = {}
        <4>1. \A o \in off : o \in Nat /\ o # t /\ ~(o > t)
          BY <1>1, <3>2
        <4>2. t \in Nat
          BY <1>1
        <4> HIDE DEF e0, ended
        <4> QED BY <3>1, <3>2, <4>1, <4>2
      <3>3. CASE ended(t) # {}
        <4>1. ended(t) \in SUBSET Nat
          BY <1>1
        <4>2. Min(ended(t)) \in ended(t) /\ \A u \in ended(t) : Min(ended(t)) <= u
          <5> HIDE DEF ended
          <5> QED BY <3>3, <4>1, MinIs
        <4>3. e0[t] = Min(ended(t))
          <5> HIDE DEF e0, ended
          <5> QED BY <3>1, <3>3
        <4> HIDE DEF e0
        <4> QED BY <4>2, <4>3
      <3> QED BY <3>2, <3>3
    <2>6. /\ b0[t] \in T /\ b0[t] <= t
          /\ \A o \in off : o < t => o < b0[t]
          /\ \A u \in T : u <= t /\ (\A o \in off : o < t => o < u) => b0[t] <= u
      <3> HIDE DEF b0
      <3> QED BY <2>2
    <2> HIDE DEF b0, s0, e0, starts, ended
    <2> QED BY <2>3, <2>4, <2>5, <2>6
  <1> HIDE DEF b0, s0, e0
  <1>4. IsRuns(T, ON, From(now, q), now, b0, s0, e0)
    BY <1>1, <1>3 DEF IsRuns
  <1> QED BY <1>2, <1>4

\* Between two samples nothing changes.
LEMMA SaidSince ==
    ASSUME NEW q \in Nat, NEW lane \in Lanes, NEW l \in Nat, NEW u \in Int, l <= u,
           \A x \in Seen(q) : x.at \in Nat /\ (x.at <= u => x.at <= l)
    PROVE  Says(lane, u, q) <=> Says(lane, l, q)
  <1>1. ASSUME NEW s \in ActivitySensors PROVE AsOf(s, u, q) = AsOf(s, l, q)
    <2>1. \A x \in InWindow(s, q) : x.at <= u <=> x.at <= l
      <3> SUFFICES ASSUME NEW x \in InWindow(s, q) PROVE x.at <= u <=> x.at <= l
        OBVIOUS
      <3>1. x \in Seen(q)
        BY DEF Seen
      <3> QED BY <3>1
    <2> DEFINE by(t) == {x \in InWindow(s, q) : x.at <= t}
               last(S) == IF S = {} THEN Unknown ELSE (CHOOSE x \in S : \A y \in S : y.at <= x.at).v
    <2>2. by(u) = by(l)
      BY <2>1
    <2>3. AsOf(s, u, q) = last(by(u)) /\ AsOf(s, l, q) = last(by(l))
      BY DEF AsOf
    <2> HIDE DEF by, last
    <2> QED BY <2>2, <2>3
  <1>2. /\ AsOf("SystemStatus", u, q) = AsOf("SystemStatus", l, q)
        /\ AsOf("HpStatus", u, q) = AsOf("HpStatus", l, q)
        /\ AsOf("BrinePump", u, q) = AsOf("BrinePump", l, q)
    BY <1>1 DEF ActivitySensors
  <1> QED BY <1>2 DEF Says

\* The timeline of a query.
LEMMA LanesMatch ==
    ASSUME RInv, SamplesInv, proc = "up", ~seen.back, NEW q \in Nat
    PROVE  LanesMatchFor(q)
  <1> DEFINE T == TimesOf(rings, now, q)
             shown == GetActivity(rings, now, q)
             first == Min({x.at : x \in Seen(q)})
             ON(lane) == {u \in T : LaneOn(lane, rings, now, q, u)}
             from == From(now, q)
  <1>1. now \in Nat
    BY RecorderConstants DEF RInv, TypeOK
  <1>2. /\ T = {x.at : x \in Seen(q)} /\ T \in SUBSET Nat
        /\ \A u \in T : from <= u /\ u <= now
    BY TimesAreSeen
  <1>3. from \in Int
    BY <1>1, WindowStart
  <1>4. shown = UNION {{SegmentAround(lane, rings, now, q, t) : t \in ON(lane)} : lane \in Lanes}
    BY DEF GetActivity
  <1>5. ASSUME NEW lane \in Lanes
        PROVE  \E begun, start, end :
              /\ IsRuns(T, ON(lane), from, now, begun, start, end)
              /\ \A t \in ON(lane) : SegmentAround(lane, rings, now, q, t)
                                 = [lane |-> lane, start |-> start[t], end |-> end[t]]
    <2>1. T = TimesOf(rings, now, q) /\ ON(lane) = {u \in T : LaneOn(lane, rings, now, q, u)}
      OBVIOUS
    <2>2. TimesOf(rings, now, q) \in SUBSET Nat
      BY <1>2
    <2> DEFINE on == ON(lane)
    <2> HIDE DEF T, ON
    <2>3. on \in SUBSET T /\ \A u \in T : u \in on <=> LaneOn(lane, rings, now, q, u)
      BY <2>1
    <2> HIDE DEF on
    <2>4. \E begun, start, end :
              /\ IsRuns(T, on, from, now, begun, start, end)
              /\ \A t \in on : SegmentAround(lane, rings, now, q, t)
                                 = [lane |-> lane, start |-> start[t], end |-> end[t]]
      BY <1>1, <2>1, <2>2, <2>3, SegmentsAreRuns
    <2> QED BY <2>4 DEF on
  <1>6. \A lane \in Lanes, t \in T : t \in ON(lane) <=> Says(lane, t, q)
    BY <1>2, LaneIsSaid
  <1>7. \A b \in shown : \E t \in ON(b.lane) : b.lane \in Lanes
                            /\ b = SegmentAround(b.lane, rings, now, q, t)
    <2> SUFFICES ASSUME NEW lane \in Lanes, NEW t \in ON(lane), NEW b,
                        b = SegmentAround(lane, rings, now, q, t)
                 PROVE  b.lane = lane
      BY <1>4
    <2> QED BY DEF SegmentAround
  <1>8. \A lane \in Lanes : \A t \in ON(lane) :
           /\ SegmentAround(lane, rings, now, q, t) \in shown
           /\ SegmentAround(lane, rings, now, q, t).lane = lane
    <2>1. \A lane, t : SegmentAround(lane, rings, now, q, t).lane = lane
      BY DEF SegmentAround
    <2> QED BY <1>4, <2>1
  <1>9. CASE Seen(q) = {}
    <2>1. T = {}
      BY <1>2, <1>9
    <2>2. shown = {}
      BY <1>4, <2>1
    <2> QED BY <1>9, <2>2 DEF LanesMatchFor, Seen
  <1>10. CASE Seen(q) # {}
    <2>1. first \in T /\ \A x \in T : first <= x
      <3>1. T # {} /\ first = Min(T)
        BY <1>2, <1>10
      <3> HIDE DEF T, first
      <3> QED BY <1>2, <3>1, MinIs
    <2> HIDE DEF T, shown, first, from, ON
    <2>2. ASSUME NEW lane \in Lanes, NEW u \in from..now - 1
          PROVE  (\E b \in shown : b.lane = lane /\ b.start <= u /\ u < b.end)
                   <=> Says(lane, IF u < first THEN first ELSE u, q)
      <3>1. PICK begun, start, end :
              /\ IsRuns(T, ON(lane), from, now, begun, start, end)
              /\ \A t \in ON(lane) : SegmentAround(lane, rings, now, q, t)
                                 = [lane |-> lane, start |-> start[t], end |-> end[t]]
        BY <1>5
      <3>2. u \in Int /\ from <= u /\ u < now
        BY <1>1, <1>3
      <3>3. (\E b \in shown : b.lane = lane /\ b.start <= u /\ u < b.end)
              <=> \E t \in ON(lane) : start[t] <= u /\ u < end[t]
        <4>1. ASSUME NEW b \in shown, b.lane = lane, b.start <= u, u < b.end
              PROVE  \E t \in ON(lane) : start[t] <= u /\ u < end[t]
          <5>1. PICK t \in ON(lane) : b = SegmentAround(lane, rings, now, q, t)
            BY <1>7, <4>1
          <5>2. b = [lane |-> lane, start |-> start[t], end |-> end[t]]
            BY <3>1, <5>1
          <5>3. b.start = start[t] /\ b.end = end[t]
            BY <5>2
          <5> QED BY <4>1, <5>3
        <4>2. ASSUME NEW t \in ON(lane), start[t] <= u, u < end[t]
              PROVE  \E b \in shown : b.lane = lane /\ b.start <= u /\ u < b.end
          <5> DEFINE b == SegmentAround(lane, rings, now, q, t)
          <5>1. b \in shown /\ b.lane = lane
            BY <1>8
          <5>2. b = [lane |-> lane, start |-> start[t], end |-> end[t]]
            BY <3>1
          <5> HIDE DEF b
          <5>3. b.start = start[t] /\ b.end = end[t]
            BY <5>2
          <5> QED BY <4>2, <5>1, <5>3
        <4> QED BY <4>1, <4>2
      <3>4. PICK l \in T : (l <= u \/ l = first) /\ \A x \in T : x <= u => x <= l
        <4> DEFINE by == {x \in T : x <= u}
        <4>1. CASE by = {}
          BY <2>1, <4>1
        <4>2. CASE by # {}
          <5> DEFINE below == {now - x : x \in by}
          <5>1. \A x \in by : now - x \in Nat /\ x \in Nat
            BY <1>1, <1>2
          <5>2. below \in SUBSET Nat /\ below # {}
            BY <4>2, <5>1
          <5>3. PICK d \in below : \A y \in below : d <= y
            <6> HIDE DEF below
            <6> QED BY <5>2, LeastNumber
          <5>4. PICK m \in by : d = now - m
            BY <5>3
          <5>5. ASSUME NEW x \in by PROVE x <= m
            <6>1. now - m <= now - x
              <7>1. now - x \in below
                OBVIOUS
              <7> QED BY <5>3, <5>4, <7>1
            <6>2. x \in Nat /\ m \in Nat
              BY <5>1
            <6> QED BY <1>1, <6>1, <6>2
          <5>6. m \in T /\ m <= u
            OBVIOUS
          <5>7. \A x \in T : x <= u => x <= m
            BY <5>5
          <5> QED BY <5>6, <5>7
        <4> QED BY <4>1, <4>2
      <3>5. ON(lane) \in SUBSET T
        BY DEF ON
      <3>6. (\E t \in ON(lane) : start[t] <= u /\ u < end[t]) <=> l \in ON(lane)
        <4> DEFINE on == ON(lane)
        <4>1. IsRuns(T, on, from, now, begun, start, end) /\ on \in SUBSET T
          BY <3>1, <3>5
        <4> HIDE DEF on
        <4>3. /\ T \in SUBSET Nat /\ on \in SUBSET T /\ from \in Int /\ now \in Nat
              /\ \A x \in T : from <= x /\ x <= now
              /\ IsRuns(T, on, from, now, begun, start, end)
              /\ u \in Int /\ from <= u /\ u < now
          BY <1>1, <1>2, <1>3, <3>2, <4>1
        <4>4. IsLatest(l, u, first, T)
          BY <2>1, <3>4 DEF IsLatest
        <4>2. (\E t \in on : start[t] <= u /\ u < end[t]) <=> l \in on
          BY <4>3, <4>4, RunsCover
        <4> QED BY <4>2 DEF on
      <3>7. l \in ON(lane) <=> Says(lane, l, q)
        BY <1>6
      <3> DEFINE v == IF u < first THEN first ELSE u
      <3>8. Says(lane, v, q) <=> Says(lane, l, q)
        <4>1. l \in Nat /\ first \in Nat /\ first <= l
          BY <1>2, <2>1
        <4>2. v \in Int /\ l <= v /\ \A x \in T : x <= v => x <= l
          BY <1>2, <2>1, <3>2, <3>4, <4>1
        <4>3. \A x \in Seen(q) : x.at \in T
          BY <1>2
        <4>4. \A x \in Seen(q) : x.at \in Nat /\ (x.at <= v => x.at <= l)
          BY <1>2, <4>2, <4>3
        <4> HIDE DEF v
        <4> QED BY <4>1, <4>2, <4>4, SaidSince
      <3> QED BY <3>3, <3>6, <3>7, <3>8
    <2>3. ASSUME NEW a \in shown, NEW b \in shown, a.lane = b.lane, a # b
          PROVE  a.end < b.start \/ b.end < a.start
      <3> DEFINE lane == a.lane
      <3>1. lane \in Lanes
        BY <1>7
      <3>2. PICK begun, start, end :
              /\ IsRuns(T, ON(lane), from, now, begun, start, end)
              /\ \A t \in ON(lane) : SegmentAround(lane, rings, now, q, t)
                                 = [lane |-> lane, start |-> start[t], end |-> end[t]]
        BY <1>5, <3>1
      <3>3. PICK s \in ON(lane) : a = SegmentAround(lane, rings, now, q, s)
        BY <1>7
      <3>4. PICK t \in ON(lane) : b = SegmentAround(lane, rings, now, q, t)
        BY <1>7, <2>3
      <3>5. /\ a = [lane |-> lane, start |-> start[s], end |-> end[s]]
            /\ b = [lane |-> lane, start |-> start[t], end |-> end[t]]
        BY <3>2, <3>3, <3>4
      <3> HIDE DEF lane
      <3>6. /\ a.start = start[s] /\ a.end = end[s] /\ b.start = start[t] /\ b.end = end[t]
        BY <3>5
      <3>7. ~(start[s] = start[t] /\ end[s] = end[t])
        BY <2>3, <3>5
      <3>8. ON(lane) \in SUBSET T
        BY DEF ON
      <3> DEFINE on == ON(lane)
      <3>9. IsRuns(T, on, from, now, begun, start, end) /\ on \in SUBSET T /\ s \in on /\ t \in on
        BY <3>2, <3>8
      <3> HIDE DEF on
      <3>10. s \in Nat /\ t \in Nat /\ s # t
        BY <1>2, <3>7, <3>9
      <3>13. /\ T \in SUBSET Nat /\ on \in SUBSET T /\ from \in Int /\ now \in Nat
             /\ IsRuns(T, on, from, now, begun, start, end)
             /\ \A x \in T : from <= x /\ x <= now
        BY <1>1, <1>2, <1>3, <3>9
      <3>11. CASE s < t
        <4>1. (start[s] = start[t] /\ end[s] = end[t]) \/ end[s] < start[t]
          BY <3>9, <3>11, <3>13, RunsApart
        <4> QED BY <3>6, <3>7, <4>1
      <3>12. CASE t < s
        <4>1. (start[t] = start[s] /\ end[t] = end[s]) \/ end[t] < start[s]
          BY <3>9, <3>12, <3>13, RunsApart
        <4> QED BY <3>6, <3>7, <4>1
      <3> QED BY <3>10, <3>11, <3>12
    <2> QED BY <1>10, <2>2, <2>3 DEF LanesMatchFor, Seen, shown, first, from
  <1> QED BY <1>9, <1>10

\* What is served of the last hours is what the sensors said (series.rs,
\* activity.rs): over evictions, restarts, sweeps under way and sensors skipped.
THEOREM HistoryCorrect == Spec => []HistoryIsTrue
  <1>1. RInv /\ SamplesInv => HistoryIsTrue
    <2> SUFFICES ASSUME RInv, SamplesInv, proc = "up", ~seen.back, NEW q \in {1, MaxHours}
                 PROVE  LanesMatchFor(q) /\ SeriesMatchFor(q)
      BY DEF HistoryIsTrue
    <2>1. q \in Nat
      BY RecorderConstants
    <2> QED BY <2>1, LanesMatch, SeriesMatch
  <1> QED BY <1>1, RecorderInvariant, SamplesInductive, PTL
=============================================================================
