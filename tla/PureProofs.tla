----------------------------- MODULE PureProofs -----------------------------
(***************************************************************************)
(* What RunStats computes from any run, and Config from any sources.       *)
(*                                                                         *)
(* Sorting itself is Python's: the theorems take from sorted() that it     *)
(* returns its argument's values in order (Sorts), and show that the rank  *)
(* _pct takes out of them is the nearest-rank percentile, by counting the  *)
(* values on either side of it.                                            *)
(***************************************************************************)
EXTENDS RunStats, Config, Counting

(* A set of which each element is the image of one of T has at most as     *)
(* many elements as T.                                                     *)
LEMMA ImageBound ==
  ASSUME NEW T, IsFiniteSet(T), NEW q, NEW S, \A x \in S : \E k \in T : q[k] = x
  PROVE  IsFiniteSet(S) /\ Cardinality(S) <= Cardinality(T)
<1> DEFINE U == {k \in T : q[k] \in S}
           f == [k \in U |-> q[k]]
<1>1. IsFiniteSet(U) /\ Cardinality(U) <= Cardinality(T)
  BY FS_Subset
<1>2. f \in Surjection(U, S)
  <2>1. f \in [U -> S]
    OBVIOUS
  <2>2. \A x \in S : \E k \in U : f[k] = x
    OBVIOUS
  <2> HIDE DEF f, U
  <2> QED
    BY <2>1, <2>2 DEF Surjection
<1> HIDE DEF f, U
<1>3. IsFiniteSet(S) /\ Cardinality(S) <= Cardinality(U)
  BY <1>1, <1>2, FS_Surjection
<1>4. Cardinality(S) \in Nat /\ Cardinality(U) \in Nat /\ Cardinality(T) \in Nat
  BY <1>1, <1>3, FS_CardinalityType
<1> QED
  BY <1>1, <1>3, <1>4

LEMMA UpTo ==
  ASSUME NEW m \in Nat
  PROVE  IsFiniteSet(1 .. m) /\ Cardinality(1 .. m) = m
<1>1. 1 \in Int /\ m \in Int
  OBVIOUS
<1>2. IsFiniteSet(1 .. m) /\ Cardinality(1 .. m) = IF 1 > m THEN 0 ELSE m - 1 + 1
  BY <1>1, FS_Interval
<1>3. (IF 1 > m THEN 0 ELSE m - 1 + 1) = m
  OBVIOUS
<1> QED
  BY <1>2, <1>3

LEMMA Above ==
  ASSUME NEW m \in Nat, NEW r \in 1 .. m
  PROVE  IsFiniteSet((r + 1) .. m) /\ Cardinality((r + 1) .. m) = m - r
<1>1. r + 1 \in Int /\ m \in Int
  OBVIOUS
<1>2. /\ IsFiniteSet((r + 1) .. m)
      /\ Cardinality((r + 1) .. m) = IF r + 1 > m THEN 0 ELSE m - (r + 1) + 1
  BY <1>1, FS_Interval
<1>3. (IF r + 1 > m THEN 0 ELSE m - (r + 1) + 1) = m - r
  OBVIOUS
<1> QED
  BY <1>2, <1>3

(* At least r values do not exceed the r-th in order, and at most r - 1    *)
(* are below it.                                                           *)
LEMMA AroundRank ==
  ASSUME NEW values \in Seq(Nat), NEW s, Sorts(s, values), NEW r \in 1 .. Len(values)
  PROVE  /\ s[r] \in Nat
         /\ \E i \in DOMAIN values : values[i] = s[r]
         /\ AtMost(values, s[r]) \in Nat
         /\ AtMost(values, s[r]) >= r
         /\ IsFiniteSet({i \in DOMAIN values : values[i] < s[r]})
         /\ Cardinality({i \in DOMAIN values : values[i] < s[r]}) <= r - 1
<1>1. PICK n \in Nat : n = Len(values)
  OBVIOUS
<1> DEFINE D == 1 .. n
           v == s[r]
           above == {i \in D : values[i] > v}
           below == {i \in D : values[i] < v}
<1>2. DOMAIN values = D /\ r \in D
  BY <1>1
<1>3. \A i \in D : values[i] \in Nat
  BY <1>2
<1>4. PICK q \in [D -> D] :
         (\A i \in D : \E k \in D : q[k] = i) /\ (\A k \in D : s[k] = values[q[k]])
  BY <1>1 DEF Sorts
<1>5. \A i, j \in D : i < j => s[i] <= s[j]
  BY <1>1 DEF Sorts
<1>6. \A k \in D : s[k] \in Nat
  BY <1>3, <1>4
<1>7. v \in Nat
  BY <1>2, <1>6
<1>8. IsFiniteSet(D) /\ Cardinality(D) = n
  BY <1>1, UpTo
<1>9. r \in Nat /\ 1 <= r /\ r <= n
  BY <1>2
<1>10. Cardinality(above) <= n - r /\ Cardinality(above) \in Nat
  <2> DEFINE T == (r + 1) .. n
  <2>1. IsFiniteSet(T) /\ Cardinality(T) = n - r
    BY <1>2, Above
  <2>2. ASSUME NEW x \in above PROVE \E k \in T : q[k] = x
    <3>1. PICK k \in D : q[k] = x
      BY <1>4
    <3>2. s[k] > v
      BY <1>4, <3>1
    <3>3. k \in Nat /\ s[k] \in Nat /\ k <= n
      BY <1>6
    <3>4. k # r
      BY <1>7, <3>2
    <3>5. ASSUME k < r PROVE FALSE
      <4>1. s[k] <= v
        BY <1>2, <1>5, <3>5
      <4> HIDE DEF v
      <4> QED
        BY <1>7, <3>2, <3>3, <4>1
    <3> QED
      BY <1>9, <3>1, <3>3, <3>4, <3>5
  <2> HIDE DEF T, above
  <2>3. IsFiniteSet(above) /\ Cardinality(above) <= Cardinality(T)
    BY <2>1, <2>2, ImageBound
  <2>4. Cardinality(above) \in Nat
    BY <2>3, FS_CardinalityType
  <2> QED
    BY <2>1, <2>3, <2>4
<1>11. IsFiniteSet(below) /\ Cardinality(below) <= r - 1
  <2> DEFINE T == 1 .. (r - 1)
  <2>1. r - 1 \in Nat
    BY <1>9
  <2>2. IsFiniteSet(T) /\ Cardinality(T) = r - 1
    BY <2>1, UpTo
  <2>3. ASSUME NEW x \in below PROVE \E k \in T : q[k] = x
    <3>1. PICK k \in D : q[k] = x
      BY <1>4
    <3>2. s[k] < v
      BY <1>4, <3>1
    <3>3. k \in Nat /\ s[k] \in Nat /\ 1 <= k
      BY <1>6
    <3>4. k # r
      BY <1>7, <3>2
    <3>5. ASSUME r < k PROVE FALSE
      <4>1. v <= s[k]
        BY <1>2, <1>5, <3>5
      <4> HIDE DEF v
      <4> QED
        BY <1>7, <3>2, <3>3, <4>1
    <3> QED
      BY <1>9, <3>1, <3>3, <3>4, <3>5
  <2> HIDE DEF T, below
  <2> QED
    BY <2>2, <2>3, ImageBound
<1>12. AtMost(values, v) = n - Cardinality(above)
  <2>1. {i \in D : values[i] <= v} = D \ above
    <3> HIDE DEF D, v
    <3>1. ASSUME NEW i \in D PROVE values[i] <= v <=> ~(values[i] > v)
      BY <1>3, <1>7
    <3> QED
      BY <3>1
  <2>2. D \cap above = above
    OBVIOUS
  <2> HIDE DEF D, above, v
  <2>3. Cardinality(D \ above) = Cardinality(D) - Cardinality(D \cap above)
    BY <1>8, FS_Difference
  <2> QED
    BY <1>2, <1>8, <2>1, <2>2, <2>3 DEF AtMost
<1> HIDE DEF above, below, D, v
<1>13. AtMost(values, v) \in Nat /\ AtMost(values, v) >= r
  BY <1>1, <1>9, <1>10, <1>12
<1>14. \E i \in D : values[i] = v
  BY <1>2, <1>4 DEF v
<1> QED
  BY <1>2, <1>7, <1>11, <1>13, <1>14 DEF below, v

(* The rank is the quotient rounded up, and in range for every percentage. *)
LEMMA RankIs ==
  ASSUME NEW p \in 1 .. 100, NEW n \in Nat \ {0}
  PROVE  /\ Rank(p, n) \in 1 .. n /\ Slot(Rank(p, n), n) = Rank(p, n) /\ p * n \in Nat
         /\ 100 * Rank(p, n) >= p * n /\ 100 * (Rank(p, n) - 1) < p * n
<1> DEFINE x == p * n
           R == Rank(p, n)
<1>1. x \in Nat /\ 1 * n <= x /\ x <= 100 * n
  <2>1. p \in Nat /\ n \in Nat /\ 1 <= p /\ p <= 100 /\ 1 \in Nat /\ 100 \in Nat
    OBVIOUS
  <2> QED
    BY <2>1, Products
<1>2. R = (x + 99) \div 100
  BY DEF Rank
<1> HIDE DEF x, R
<1>3. x + 99 \in Nat /\ 100 \in Nat \ {0}
  BY <1>1
<1>4. R \in Nat /\ R * 100 <= x + 99 /\ x + 99 < R * 100 + 100
  BY <1>2, <1>3, Division
<1>5. R \in 1 .. n
  BY <1>1, <1>4
<1>6. 100 * R >= x /\ 100 * (R - 1) < x
  BY <1>1, <1>4
<1>7. Slot(R, n) = R
  BY <1>5 DEF Slot
<1> QED
  BY <1>1, <1>5, <1>6, <1>7 DEF x, R

(* For every run and every percentage, the value at the rank is the        *)
(* smallest that so many in a hundred do not exceed.                       *)
THEOREM PercentileAtRank ==
  ASSUME NEW values \in Seq(Nat), values # <<>>, NEW s, Sorts(s, values), NEW p \in 1 .. 100
  PROVE  IsPercentile(values, p, AtRank(s, p))
<1> DEFINE n == Len(values)
           R == Rank(p, n)
<1>1. n \in Nat \ {0} /\ Len(s) = n
  BY DEF Sorts
<1> HIDE DEF n
<1>2. /\ R \in 1 .. n /\ R \in Nat /\ p * n \in Nat
      /\ 100 * R >= p * n /\ 100 * (R - 1) < p * n
      /\ AtRank(s, p) = s[R]
  <2>1. /\ R \in 1 .. n /\ Slot(R, n) = R /\ p * n \in Nat
        /\ 100 * R >= p * n /\ 100 * (R - 1) < p * n
    BY <1>1, RankIs
  <2> HIDE DEF R
  <2>2. R \in Nat
    BY <1>1, <2>1
  <2>3. AtRank(s, p) = s[R]
    BY <1>1, <2>1 DEF AtRank, R
  <2> QED
    BY <2>1, <2>2, <2>3
<1> HIDE DEF R
<1>3. /\ s[R] \in Nat /\ \E i \in DOMAIN values : values[i] = s[R]
      /\ AtMost(values, s[R]) \in Nat /\ AtMost(values, s[R]) >= R
      /\ IsFiniteSet({i \in DOMAIN values : values[i] < s[R]})
      /\ Cardinality({i \in DOMAIN values : values[i] < s[R]}) <= R - 1
  BY <1>2, AroundRank DEF n
<1>4. Covers(values, p, s[R])
  <2>1. 100 * AtMost(values, s[R]) >= 100 * R
    BY <1>2, <1>3
  <2>2. 100 * AtMost(values, s[R]) >= p * n
    BY <1>2, <1>3, <2>1
  <2> QED
    BY <2>2 DEF Covers, n
<1>5. ASSUME NEW i \in DOMAIN values, values[i] < s[R]
      PROVE  ~Covers(values, p, values[i])
  <2> DEFINE few == {j \in DOMAIN values : values[j] <= values[i]}
             below == {j \in DOMAIN values : values[j] < s[R]}
  <2>1. few \subseteq below
    <3>1. \A j \in DOMAIN values : values[j] \in Nat
      OBVIOUS
    <3> QED
      BY <1>3, <1>5, <3>1
  <2>2. IsFiniteSet(below) /\ Cardinality(below) <= R - 1
    BY <1>3
  <2> HIDE DEF few, below
  <2>3. IsFiniteSet(few) /\ Cardinality(few) <= Cardinality(below)
    BY <2>1, <2>2, FS_Subset
  <2>4. Cardinality(few) \in Nat /\ Cardinality(below) \in Nat
    BY <2>2, <2>3, FS_CardinalityType
  <2>5. ~(100 * Cardinality(few) >= p * n)
    BY <1>2, <2>2, <2>3, <2>4
  <2> QED
    BY <2>5 DEF Covers, AtMost, few, n
<1> QED
  BY <1>2, <1>3, <1>4, <1>5 DEF IsPercentile

(* Values that are no larger, one by one, are no larger rank by rank.      *)
LEMMA DominatedRank ==
  ASSUME NEW a \in Seq(Nat), NEW b \in Seq(Nat), Len(a) = Len(b),
         \A i \in DOMAIN a : a[i] <= b[i],
         NEW sa, Sorts(sa, a), NEW sb, Sorts(sb, b), NEW r \in 1 .. Len(a)
  PROVE  sa[r] <= sb[r]
<1>1. /\ DOMAIN a = 1 .. Len(a) /\ DOMAIN b = 1 .. Len(a)
      /\ (\A i \in DOMAIN a : a[i] \in Nat /\ b[i] \in Nat) /\ r \in Nat
  OBVIOUS
<1> DEFINE below == {i \in DOMAIN a : a[i] < sa[r]}
           few == {i \in DOMAIN b : b[i] <= sb[r]}
<1>2. sa[r] \in Nat /\ IsFiniteSet(below) /\ Cardinality(below) <= r - 1
  BY AroundRank
<1>3. sb[r] \in Nat /\ Cardinality(few) \in Nat /\ Cardinality(few) >= r
  <2>1. r \in 1 .. Len(b)
    OBVIOUS
  <2>2. sb[r] \in Nat /\ AtMost(b, sb[r]) \in Nat /\ AtMost(b, sb[r]) >= r
    BY <2>1, AroundRank
  <2> QED
    BY <2>2 DEF AtMost
<1>4. ASSUME sb[r] < sa[r] PROVE FALSE
  <2>1. few \subseteq below
    BY <1>1, <1>2, <1>3, <1>4
  <2> HIDE DEF few, below
  <2>2. Cardinality(few) <= Cardinality(below) /\ Cardinality(below) \in Nat
    BY <1>2, <2>1, FS_Subset, FS_CardinalityType
  <2> QED
    BY <1>1, <1>2, <1>3, <2>2
<1> QED
  BY <1>2, <1>3, <1>4

-----------------------------------------------------------------------------
(* The timings of any run, and what the code relies on sorted() for        *)
Timed == timings \in Seq([queued_s : Nat, service_s : Nat])

SortedSorts == \A values \in Seq(Nat) : Sorts(Sorted(values), values)

LEMMA TimesOf ==
  ASSUME Timed
  PROVE  /\ Services \in Seq(Nat) /\ Queues \in Seq(Nat) /\ Totals \in Seq(Nat)
         /\ Len(Services) = Len(timings) /\ Len(Queues) = Len(timings)
         /\ Len(Totals) = Len(timings)
         /\ Services = <<>> <=> timings = <<>>
         /\ Queues = <<>> <=> timings = <<>>
         /\ Totals = <<>> <=> timings = <<>>
         /\ \A i \in DOMAIN Totals : Services[i] <= Totals[i] /\ Queues[i] <= Totals[i]
<1>1. /\ DOMAIN timings = 1 .. Len(timings) /\ Len(timings) \in Nat
      /\ \A i \in DOMAIN timings :
            timings[i].queued_s \in Nat /\ timings[i].service_s \in Nat
  <2> DEFINE T == [queued_s : Nat, service_s : Nat]
  <2>1. timings \in Seq(T)
    BY DEF Timed
  <2>2. \A x \in T : x.queued_s \in Nat /\ x.service_s \in Nat
    OBVIOUS
  <2> HIDE DEF T
  <2>3. DOMAIN timings = 1 .. Len(timings) /\ Len(timings) \in Nat
    BY <2>1
  <2>4. \A i \in DOMAIN timings : timings[i] \in T
    BY <2>1
  <2> QED
    BY <2>2, <2>3, <2>4
<1>2. Services \in Seq(Nat) /\ Len(Services) = Len(timings)
  BY <1>1 DEF Services
<1>3. Queues \in Seq(Nat) /\ Len(Queues) = Len(timings)
  BY <1>1 DEF Queues
<1>4. Totals \in Seq(Nat) /\ Len(Totals) = Len(timings) /\ DOMAIN Totals = DOMAIN timings
  BY <1>1 DEF Totals
<1>5. \A i \in DOMAIN Totals : Services[i] <= Totals[i] /\ Queues[i] <= Totals[i]
  BY <1>1, <1>4 DEF Services, Queues, Totals
<1>6. timings = <<>> <=> Len(timings) = 0
  BY DEF Timed
<1> QED
  BY <1>2, <1>3, <1>4, <1>5, <1>6

(* What the summary reports, for a run of any length and any timings, is   *)
(* the nearest-rank percentile of the times it is named for.               *)
THEOREM SummaryByNearestRank ==
  ASSUME Timed, SortedSorts
  PROVE  NearestRank
<1> SUFFICES ASSUME timings # <<>> PROVE NearestRank
  BY DEF NearestRank
<1>1. ASSUME NEW values \in {Services, Queues, Totals}, NEW p \in {50, 95, 99}
      PROVE  IsPercentile(values, p, _pct(values, p))
  <2>1. values \in Seq(Nat) /\ values # <<>> /\ p \in 1 .. 100
    BY <1>1, TimesOf
  <2>2. Sorts(Sorted(values), values)
    BY <2>1 DEF SortedSorts
  <2>3. IsPercentile(values, p, AtRank(Sorted(values), p))
    BY <2>1, <2>2, PercentileAtRank
  <2> QED
    BY <2>1, <2>3 DEF _pct
<1> QED
  BY <1>1 DEF NearestRank, summary

(* No part of the split exceeds the total at the same percentage, though   *)
(* each may come from another call, and the percentiles grow.              *)
THEOREM SummaryCoherent ==
  ASSUME Timed, SortedSorts
  PROVE  SplitCoherent
<1> DEFINE n == Len(timings)
<1>1. CASE timings = <<>>
  <2>1. \A p \in {50, 95, 99} :
           _pct(Services, p) = 0 /\ _pct(Queues, p) = 0 /\ _pct(Totals, p) = 0
    BY <1>1, TimesOf DEF _pct
  <2> QED
    BY <2>1 DEF SplitCoherent, summary
<1>2. CASE timings # <<>>
  <2>1. n \in Nat \ {0}
    BY <1>2 DEF Timed
  <2>2. ASSUME NEW values \in {Services, Queues, Totals}
        PROVE  /\ values \in Seq(Nat) /\ values # <<>> /\ Len(values) = n
               /\ Sorts(Sorted(values), values)
    BY <1>2, <2>2, TimesOf DEF SortedSorts
  <2>3. ASSUME NEW values \in {Services, Queues, Totals}, NEW p \in {50, 95, 99}
        PROVE  _pct(values, p) = Sorted(values)[Rank(p, n)] /\ Rank(p, n) \in 1 .. n
    <3>1. Len(Sorted(values)) = n /\ values # <<>> /\ p \in 1 .. 100
      BY <2>2, <2>3 DEF Sorts
    <3>2. Rank(p, n) \in 1 .. n /\ Slot(Rank(p, n), n) = Rank(p, n)
      <4> HIDE DEF n
      <4> QED
        BY <2>1, <3>1, RankIs
    <3>3. _pct(values, p) = AtRank(Sorted(values), p)
      BY <3>1 DEF _pct
    <3> HIDE DEF n
    <3>4. AtRank(Sorted(values), p) = Sorted(values)[Slot(Rank(p, n), n)]
      BY <3>1 DEF AtRank
    <3> QED
      BY <3>2, <3>3, <3>4
  <2>4. ASSUME NEW values \in {Services, Queues}
        PROVE  _pct(values, 95) <= _pct(Totals, 95)
    <3>1. \A i \in DOMAIN values : values[i] <= Totals[i]
      <4>1. DOMAIN values = DOMAIN Totals
        BY <2>2, <2>4
      <4> QED
        BY <2>4, <4>1, TimesOf
    <3>2. Rank(95, n) \in 1 .. Len(values)
      BY <2>2, <2>3, <2>4
    <3>3. Sorted(values)[Rank(95, n)] <= Sorted(Totals)[Rank(95, n)]
      <4>1. /\ values \in Seq(Nat) /\ Totals \in Seq(Nat) /\ Len(values) = Len(Totals)
            /\ Sorts(Sorted(values), values) /\ Sorts(Sorted(Totals), Totals)
        BY <2>2, <2>4
      <4> HIDE DEF n
      <4> QED
        BY <3>1, <3>2, <4>1, DominatedRank
    <3> QED
      BY <2>3, <2>4, <3>3
  <2>5. /\ _pct(Totals, 50) <= _pct(Totals, 95)
        /\ _pct(Totals, 95) <= _pct(Totals, 99)
    <3>1. Rank(50, n) <= Rank(95, n) /\ Rank(95, n) <= Rank(99, n)
      BY <2>1 DEF Rank
    <3>2. ASSUME NEW i \in 1 .. n, NEW j \in 1 .. n, i <= j
          PROVE  Sorted(Totals)[i] <= Sorted(Totals)[j]
      <4>1. Sorts(Sorted(Totals), Totals) /\ Len(Totals) = n /\ Totals \in Seq(Nat)
        BY <2>2
      <4>2. Sorted(Totals)[i] \in Nat
        BY <4>1, AroundRank
      <4>3. i < j => Sorted(Totals)[i] <= Sorted(Totals)[j]
        BY <4>1 DEF Sorts
      <4> QED
        BY <3>2, <4>2, <4>3
    <3> QED
      BY <2>3, <3>1, <3>2
  <2> QED
    BY <2>4, <2>5 DEF SplitCoherent, summary
<1> QED
  BY <1>1, <1>2

-----------------------------------------------------------------------------
(* A file of assignments, or none, of any length and any names and values  *)
File(file) == file = None \/ \E L : file \in Seq(L)

LEMMA UpdatedIs ==
  ASSUME NEW f, NEW g, NEW x
  PROVE  /\ x \in DOMAIN Updated(f, g) <=> (x \in DOMAIN f \/ x \in DOMAIN g)
         /\ x \in DOMAIN g => Updated(f, g)[x] = g[x]
         /\ (x \in DOMAIN f /\ x \notin DOMAIN g) => Updated(f, g)[x] = f[x]
BY DEF Updated

(* What a file gives a variable is its last assignment to it.              *)
LEMMA FileHit ==
  ASSUME NEW file, File(file), NEW s \in Settings
  PROVE  /\ VariableOf[s] \in DOMAIN _load_env_file(file) <=> SetBy(file, s) # {}
         /\ SetBy(file, s) # {} => _load_env_file(file)[VariableOf[s]] = LastOf(file, s)
<1>1. CASE file = None
  BY <1>1 DEF _load_env_file, SetBy, Empty
<1>2. CASE file # None
  <2> DEFINE x == VariableOf[s]
             S == SetBy(file, s)
             Last(i) == i \in S /\ \A j \in S : j <= i
  <2>1. DOMAIN file = 1 .. Len(file) /\ Len(file) \in Nat
    BY <1>2 DEF File
  <2>2. S = {i \in DOMAIN file : file[i].name = x}
    BY <1>2 DEF SetBy
  <2>3. _load_env_file(file) = Lines(file)
    BY <1>2 DEF _load_env_file
  <2>4. x \in DOMAIN Lines(file) <=> S # {}
    BY <2>2 DEF Lines
  <2>5. ASSUME S # {} PROVE Lines(file)[x] = LastOf(file, s)
    <3>1. IsFiniteSet(DOMAIN file) /\ S \subseteq Nat
      BY <2>1, <2>2, UpTo
    <3>2. IsFiniteSet(S)
      BY <2>2, <3>1, FS_Subset
    <3>3. PICK m \in S : \A j \in S : j <= m
      BY <2>5, <3>1, <3>2, FiniteMax
    <3> HIDE DEF S
    <3>4. \A i : Last(i) => i = m
      BY <3>1, <3>3
    <3> DEFINE a == CHOOSE i \in S : \A j \in S : j <= i
               b == CHOOSE i \in DOMAIN file :
                      /\ file[i].name = x
                      /\ \A j \in DOMAIN file : file[j].name = x => j <= i
    <3>5. a = m
      <4>1. Last(a)
        BY <3>3
      <4> QED
        BY <3>4, <4>1
    <3>6. b = m
      <4>1. /\ m \in DOMAIN file /\ file[m].name = x
            /\ \A j \in DOMAIN file : file[j].name = x => j <= m
        BY <2>2, <3>3
      <4>2. /\ b \in DOMAIN file /\ file[b].name = x
            /\ \A j \in DOMAIN file : file[j].name = x => j <= b
        BY <4>1
      <4> HIDE DEF b
      <4>3. Last(b)
        BY <2>2, <4>2
      <4> QED
        BY <3>4, <4>3
    <3>7. LastOf(file, s) = file[a].value
      BY DEF LastOf, S
    <3>8. Lines(file)[x] = file[b].value
      <4>1. x \in {file[i].name : i \in DOMAIN file}
        BY <2>2, <3>3
      <4> QED
        BY <4>1 DEF Lines
    <3> QED
      BY <3>5, <3>6, <3>7, <3>8
  <2> QED
    BY <2>3, <2>4, <2>5
<1> QED
  BY <1>1, <1>2

(* The environment the code looks a variable up in, source by source.      *)
LEMMA EnvHit ==
  ASSUME File(shared), File(dotenv), NEW s \in Settings, NEW default
  PROVE  Get(VariableOf[s], default) =
           IF VariableOf[s] \in DOMAIN environ THEN environ[VariableOf[s]]
           ELSE IF SetBy(dotenv, s) # {} THEN LastOf(dotenv, s)
           ELSE IF secrets \notin {None, ""} /\ SetBy(shared, s) # {}
           THEN LastOf(shared, s)
           ELSE default
<1> DEFINE x == VariableOf[s]
           here == _load_env_file(dotenv)
           files == Updated(SharedSettings, here)
<1>1. /\ x \in DOMAIN here <=> SetBy(dotenv, s) # {}
      /\ SetBy(dotenv, s) # {} => here[x] = LastOf(dotenv, s)
  BY FileHit
<1>2. /\ x \in DOMAIN SharedSettings <=> (secrets \notin {None, ""} /\ SetBy(shared, s) # {})
      /\ x \in DOMAIN SharedSettings => SharedSettings[x] = LastOf(shared, s)
  <2>1. CASE secrets \in {None, ""}
    BY <2>1 DEF SharedSettings, Empty
  <2>2. CASE secrets \notin {None, ""}
    <3>1. SharedSettings = _load_env_file(shared)
      BY <2>2 DEF SharedSettings
    <3> QED
      BY <2>2, <3>1, FileHit
  <2> QED
    BY <2>1, <2>2
<1> HIDE DEF x, here
<1>3. /\ x \in DOMAIN files <=> (x \in DOMAIN SharedSettings \/ x \in DOMAIN here)
      /\ x \in DOMAIN here => files[x] = here[x]
      /\ (x \in DOMAIN SharedSettings /\ x \notin DOMAIN here) => files[x] = SharedSettings[x]
  BY UpdatedIs
<1> HIDE DEF files
<1>4. /\ x \in DOMAIN Updated(files, environ) <=> (x \in DOMAIN files \/ x \in DOMAIN environ)
      /\ x \in DOMAIN environ => Updated(files, environ)[x] = environ[x]
      /\ (x \in DOMAIN files /\ x \notin DOMAIN environ) => Updated(files, environ)[x] = files[x]
  BY UpdatedIs
<1>5. Env = Updated(files, environ)
  BY DEF Env, files, here
<1>6. Get(x, default) = IF x \in DOMAIN Env THEN Env[x] ELSE default
  BY DEF Get
<1>7. Get(x, default) =
        IF x \in DOMAIN environ THEN environ[x]
        ELSE IF SetBy(dotenv, s) # {} THEN LastOf(dotenv, s)
        ELSE IF secrets \notin {None, ""} /\ SetBy(shared, s) # {}
        THEN LastOf(shared, s)
        ELSE default
  BY <1>1, <1>2, <1>3, <1>4, <1>5, <1>6
<1> QED
  BY <1>7 DEF x

(* For any arguments, any process environment and any two files, every     *)
(* setting is the first hit in the documented order.                       *)
THEOREM FirstHits ==
  ASSUME File(shared), File(dotenv)
  PROVE  FirstHitWins
<1> DEFINE given == [s \in {x \in Settings : Given(overrides[x])} |-> overrides[s]]
<1>1. DOMAIN FromEnvironment = Settings
  BY DEF FromEnvironment, Settings
<1>2. ASSUME NEW s \in Settings, overrides[s] # None
      PROVE  from_env[s] = overrides[s]
  <2>1. s \in DOMAIN given /\ given[s] = overrides[s]
    BY <1>2 DEF Given
  <2> HIDE DEF given
  <2> QED
    BY <2>1, UpdatedIs DEF from_env, given
<1>3. ASSUME NEW s \in Settings, overrides[s] = None
      PROVE  from_env[s] = FromEnvironment[s]
  <2>1. s \notin DOMAIN given
    BY <1>3 DEF Given
  <2> HIDE DEF given
  <2> QED
    BY <1>1, <2>1, UpdatedIs DEF from_env, given
<1> HIDE DEF given
<1>4. /\ FromEnvironment["base_url"] = rstrip(Get(VariableOf["base_url"], Default["base_url"]))
      /\ FromEnvironment["api_key"] = Get(VariableOf["api_key"], "")
      /\ FromEnvironment["model"] = Get(VariableOf["model"], Default["model"])
  BY DEF FromEnvironment, VariableOf
<1>5. ASSUME NEW s \in Settings, overrides[s] = None
      PROVE  FromEnvironment[s] = FirstHit(s)
  <2>1. CASE s = "base_url"
    BY <1>4, <1>5, <2>1, EnvHit DEF FirstHit
  <2>2. CASE s = "api_key"
    BY <1>4, <1>5, <2>2, EnvHit DEF FirstHit
  <2>3. CASE s = "model"
    BY <1>4, <1>5, <2>3, EnvHit DEF FirstHit
  <2> QED
    BY <2>1, <2>2, <2>3 DEF Settings
<1>6. ASSUME NEW s \in Settings PROVE from_env[s] = FirstHit(s)
  <2>1. CASE overrides[s] # None
    BY <1>2, <2>1 DEF FirstHit
  <2>2. CASE overrides[s] = None
    BY <1>3, <1>5, <2>2
  <2> QED
    BY <2>1, <2>2
<1> QED
  BY <1>6 DEF FirstHitWins
=============================================================================
