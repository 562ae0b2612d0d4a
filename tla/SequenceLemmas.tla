--------------------------- MODULE SequenceLemmas ---------------------------
(***************************************************************************)
(* Facts the other proof modules keep needing: induction over the natural  *)
(* numbers, stated with a set in place of a predicate; extreme elements of *)
(* sets of numbers; recursion over the subsets of an interval, which is    *)
(* how FoldLeft goes through a sequence, and FoldRight from the other end; *)
(* what Keep returns; sums over sets of positions; sorted lists and orders *)
(* by key; lists of lists that are joined; and sums of sequences.          *)
(***************************************************************************)
EXTENDS Sublists, FiniteSets, FiniteSetsExt, Functions, TLAPS,
        WellFoundedInduction, FiniteSetTheorems, SequenceTheorems

(* Every non-empty set of natural numbers has a least element.             *)
LEMMA LeastNatural ==
  ASSUME NEW T \in SUBSET Nat, T # {}
  PROVE  \E n \in T : \A m \in T : n <= m
<1> DEFINE Less == OpToRel(<, Nat)
<1>1. \A m, n \in Nat : <<m, n>> \in Less <=> m < n
  BY DEF OpToRel
<1>2. IsWellFoundedOn(Less, Nat)
  BY NatLessThanWellFounded
<1> HIDE DEF Less
<1>3. PICK n \in T : \A m \in T : ~(<<m, n>> \in Less)
  BY <1>2, WFMin
<1>4. ASSUME NEW m \in T PROVE n <= m
  <2>1. m \in Nat /\ n \in Nat
    OBVIOUS
  <2>2. ~(m < n)
    BY <1>1, <1>3, <2>1
  <2>3. QED
    BY <2>1, <2>2
<1>5. QED
  BY <1>4

(* What holds at 0 and is passed on from k - 1 to k holds up to N.         *)
LEMMA Induction ==
  ASSUME NEW N \in Nat, NEW S, 0 \in S,
         \A k \in 1..N : k - 1 \in S => k \in S
  PROVE  \A k \in 0..N : k \in S
<1>1. SUFFICES ASSUME (0..N) \ S # {} PROVE FALSE
  OBVIOUS
<1>2. (0..N) \ S \in SUBSET Nat
  OBVIOUS
<1>3. PICK n \in (0..N) \ S : \A m \in (0..N) \ S : n <= m
  BY <1>1, <1>2, LeastNatural
<1>4. n \in 1..N /\ n - 1 \in S
  BY <1>3
<1>5. QED
  BY <1>3, <1>4

-----------------------------------------------------------------------------
(* Max and Min of sets of numbers.                                         *)

(* A bounded non-empty set of integers has its Max.                        *)
LEMMA MaxOfBounded ==
  ASSUME NEW T \in SUBSET Int, T # {}, NEW N \in Int, \A n \in T : n <= N
  PROVE  Max(T) \in T /\ Max(T) \in Int /\ \A n \in T : n <= Max(T)
<1> DEFINE D == {N - n : n \in T}
<1>1. \A n \in T : n \in Int /\ N - n \in Nat
  OBVIOUS
<1>2. D \in SUBSET Nat
  BY <1>1
<1>3. D # {}
  OBVIOUS
<1>4. PICK d \in D : \A e \in D : d <= e
  <2> HIDE DEF D
  <2> QED
    BY <1>2, <1>3, LeastNatural
<1>5. PICK x \in T : d = N - x
  OBVIOUS
<1>6. \A y \in T : x >= y
  <2> TAKE y \in T
  <2>1. d <= N - y
    BY <1>4
  <2>2. QED
    BY <1>1, <1>5, <2>1
<1>7. Max(T) \in T /\ \A y \in T : Max(T) >= y
  BY <1>6 DEF Max
<1>8. QED
  BY <1>1, <1>7

(* A non-empty set of natural numbers has its Min.                         *)
LEMMA MinOfNaturals ==
  ASSUME NEW T \in SUBSET Nat, T # {}
  PROVE  Min(T) \in T /\ Min(T) \in Nat /\ \A n \in T : Min(T) <= n
<1>1. \E n \in T : \A m \in T : n <= m
  BY LeastNatural
<1>2. QED
  BY <1>1 DEF Min

(* A non-empty set of positions has its Max, the last of them.             *)
LEMMA MaxOfInterval ==
  ASSUME NEW N \in Nat, NEW s \in SUBSET (1..N), s # {}
  PROVE  Max(s) \in s /\ Max(s) \in 1..N /\ \A i \in s : i <= Max(s)
<1>1. s \in SUBSET Int /\ N \in Int /\ \A i \in s : i <= N
  OBVIOUS
<1>2. Max(s) \in s /\ \A i \in s : i <= Max(s)
  BY <1>1, MaxOfBounded
<1>3. QED
  BY <1>2

(* The subsets a fold from the left goes through.                          *)
LEMMA Intervals ==
  ASSUME NEW N \in Nat, NEW k \in 1..N
  PROVE  /\ 1..k \in SUBSET (1..N) /\ 1..k # {}
         /\ Max(1..k) = k
         /\ (1..k) \ {k} = 1..(k - 1)
<1>1. 1..k \in SUBSET (1..N) /\ k \in 1..k
  OBVIOUS
<1>2. Max(1..k) \in 1..k /\ k <= Max(1..k)
  BY <1>1, MaxOfInterval
<1>3. QED
  BY <1>1, <1>2

-----------------------------------------------------------------------------
(* Folds.  step[<<r, k>>] is the result r after the k-th element; a fold   *)
(* recurses on sets of positions, and h tabulates the results it reaches.  *)
IsStep(step, R, N) == step \in [R \X (1..N) -> R]

(* f is defined by recursion over the subsets of an interval, the          *)
(* greatest element last.                                                  *)
Recurses(f, R, base, N, step) ==
  /\ f[{}] = base
  /\ \A s \in SUBSET (1..N) :
       s # {} /\ f[s \ {Max(s)}] \in R
         => f[s] = step[<<f[s \ {Max(s)}], Max(s)>>]

(* h holds the states of the loop that goes through 1..N.                  *)
IsTable(h, R, base, N, step) ==
  /\ h \in [0..N -> R]
  /\ h[0] = base
  /\ \A k \in 1..N : h[k] = step[<<h[k - 1], k>>]

(* A function on the subsets of 1..N may be defined by its value on {} and *)
(* on s from its value on s without the greatest element.                  *)
LEMMA SubsetRecursion ==
  ASSUME NEW R, NEW base \in R, NEW N \in Nat, NEW step, IsStep(step, R, N)
  PROVE  \E f : f \in [SUBSET (1..N) -> R] /\ Recurses(f, R, base, N, step)
<1> USE DEF IsStep
<1> DEFINE Good(n, f) ==
             \A s \in SUBSET (1..n) :
               f[s] = IF s = {} THEN base ELSE step[<<f[s \ {Max(s)}], Max(s)>>]
           P(n) == \E f \in [SUBSET (1..n) -> R] : Good(n, f)
<1>1. P(0)
  <2> DEFINE f == [s \in SUBSET (1..0) |-> base]
  <2>1. f \in [SUBSET (1..0) -> R] /\ Good(0, f)
    OBVIOUS
  <2> HIDE DEF f, Good
  <2>2. QED
    BY <2>1
<1>2. ASSUME NEW n \in Nat, n + 1 <= N, P(n) PROVE P(n + 1)
  <2>1. PICK g \in [SUBSET (1..n) -> R] : Good(n, g)
    <3> HIDE DEF Good
    <3> QED
      BY <1>2
  <2> DEFINE f == [s \in SUBSET (1..(n+1)) |->
                     IF n + 1 \in s THEN step[<<g[s \ {n + 1}], n + 1>>] ELSE g[s]]
  <2>2. \A s \in SUBSET (1..(n+1)) : n + 1 \notin s => s \in SUBSET (1..n)
    OBVIOUS
  <2>3. \A s \in SUBSET (1..(n+1)) : s \ {n + 1} \in SUBSET (1..n)
    OBVIOUS
  <2>4. f \in [SUBSET (1..(n+1)) -> R]
    <3> SUFFICES ASSUME NEW s \in SUBSET (1..(n+1)) PROVE f[s] \in R
      OBVIOUS
    <3>1. CASE n + 1 \in s
      <4>1. <<g[s \ {n + 1}], n + 1>> \in R \X (1..N)
        BY <2>3, <1>2
      <4>2. QED
        BY <4>1, <3>1
    <3>2. CASE n + 1 \notin s
      BY <2>2, <3>2
    <3>3. QED
      BY <3>1, <3>2
  <2>5. Good(n+1, f)
    <3> SUFFICES ASSUME NEW s \in SUBSET (1..(n+1))
        PROVE f[s] = IF s = {} THEN base ELSE step[<<f[s \ {Max(s)}], Max(s)>>]
      OBVIOUS
    <3>1. s # {} => Max(s) \in s /\ \A i \in s : i <= Max(s)
      BY MaxOfInterval, n + 1 \in Nat
    <3>2. CASE n + 1 \in s
      <4>1. Max(s) = n + 1
        <5>1. Max(s) \in 1..(n+1) /\ n + 1 <= Max(s)
          BY <3>1, <3>2
        <5>2. QED
          BY <5>1
      <4>2. f[s \ {n + 1}] = g[s \ {n + 1}]
        BY <2>3
      <4>3. f[s] = step[<<g[s \ {n + 1}], n + 1>>]
        BY <3>2
      <4> HIDE DEF f
      <4>4. QED
        BY <4>1, <4>2, <4>3, <3>2
    <3>3. CASE n + 1 \notin s
      <4>1. s \in SUBSET (1..n) /\ f[s] = g[s]
        BY <2>2, <3>3
      <4>2. s \ {Max(s)} \in SUBSET (1..n) /\ s \ {Max(s)} \in SUBSET (1..(n+1))
        BY <4>1
      <4>3. f[s \ {Max(s)}] = g[s \ {Max(s)}]
        BY <4>1, <4>2
      <4>4. g[s] = IF s = {} THEN base ELSE step[<<g[s \ {Max(s)}], Max(s)>>]
        BY <2>1, <4>1
      <4> HIDE DEF f
      <4>5. QED
        BY <4>1, <4>3, <4>4
    <3>4. QED
      BY <3>2, <3>3
  <2> HIDE DEF f, Good
  <2>6. QED
    BY <2>4, <2>5
<1>3. P(N)
  <2> HIDE DEF P
  <2> DEFINE S == {n \in 0..N : P(n)}
  <2>1. 0 \in S
    BY <1>1
  <2>2. \A k \in 1..N : k - 1 \in S => k \in S
    <3> TAKE k \in 1..N
    <3>1. P(k - 1) => P((k - 1) + 1)
      BY <1>2, k - 1 \in Nat, (k - 1) + 1 <= N
    <3>2. QED
      BY <3>1, (k - 1) + 1 = k
  <2> HIDE DEF S
  <2>3. N \in S
    BY <2>1, <2>2, Induction
  <2>4. QED
    BY <2>3 DEF S
<1>4. QED
  <2>1. PICK f \in [SUBSET (1..N) -> R] : Good(N, f)
    <3> HIDE DEF Good
    <3> QED
      BY <1>3
  <2>2. Recurses(f, R, base, N, step)
    BY <2>1, {} \in SUBSET (1..N) DEF Recurses
  <2>3. QED
    BY <2>2

(* A fold that goes through 1..N from its base has one result after each   *)
(* position.                                                               *)
LEMMA FoldTable ==
  ASSUME NEW R, NEW base \in R, NEW N \in Nat, NEW step, IsStep(step, R, N),
         NEW g, Recurses(g, R, base, N, step)
  PROVE  \E h : IsTable(h, R, base, N, step) /\ h[N] = g[1..N]
<1> DEFINE h == [k \in 0..N |-> g[1..k]]
<1>1. h[0] = base /\ h[N] = g[1..N]
  <2>1. g[{}] = base
    BY DEF Recurses
  <2>2. h[0] = g[1..0] /\ 1..0 = {} /\ h[N] = g[1..N]
    OBVIOUS
  <2> HIDE DEF h
  <2>3. QED
    BY <2>1, <2>2
<1>2. ASSUME NEW k \in 1..N, h[k - 1] \in R
      PROVE  h[k] \in R /\ h[k] = step[<<h[k - 1], k>>]
  <2>1. /\ 1..k \in SUBSET (1..N) /\ 1..k # {}
        /\ Max(1..k) = k
        /\ (1..k) \ {k} = 1..(k - 1)
    BY Intervals
  <2>2. k - 1 \in 0..N /\ k \in 0..N
    OBVIOUS
  <2>3. h[k - 1] = g[1..(k - 1)] /\ h[k] = g[1..k]
    BY <2>2
  <2> HIDE DEF h
  <2>4. g[(1..k) \ {Max(1..k)}] = h[k - 1]
    BY <2>1, <2>3
  <2>5. g[1..k] = step[<<g[(1..k) \ {Max(1..k)}], Max(1..k)>>]
    BY <1>2, <2>1, <2>4 DEF Recurses
  <2>6. h[k] = step[<<h[k - 1], k>>]
    BY <2>1, <2>3, <2>4, <2>5
  <2>7. <<h[k - 1], k>> \in R \X (1..N)
    BY <1>2
  <2>8. QED
    BY <2>6, <2>7 DEF IsStep
<1> HIDE DEF h
<1>3. \A k \in 0..N : h[k] \in R
  <2> DEFINE T == {k \in 0..N : h[k] \in R}
  <2>1. 0 \in T
    BY <1>1
  <2>2. \A k \in 1..N : k - 1 \in T => k \in T
    <3> TAKE k \in 1..N
    <3>1. k \in 0..N
      OBVIOUS
    <3>2. k - 1 \in T => h[k - 1] \in R
      OBVIOUS
    <3>3. QED
      BY <1>2, <3>1, <3>2
  <2> HIDE DEF T
  <2>3. \A k \in 0..N : k \in T
    BY <2>1, <2>2, Induction
  <2>4. QED
    BY <2>3 DEF T
<1>4. h \in [0..N -> R]
  BY <1>3 DEF h
<1>5. \A k \in 1..N : h[k] = step[<<h[k - 1], k>>]
  BY <1>2, <1>3
<1>6. QED
  BY <1>1, <1>4, <1>5 DEF IsTable

-----------------------------------------------------------------------------
(* Keep goes through s from the left: h[k] is what it has after k elements. *)
KeepTable(h, E, s, S) ==
  /\ h \in [0..Len(s) -> Seq(E)]
  /\ h[0] = <<>> /\ h[Len(s)] = Keep(s, S)
  /\ \A k \in 1..Len(s) :
       h[k] = IF s[k] \in S THEN Append(h[k - 1], s[k]) ELSE h[k - 1]

(* Keep as a table: what it has collected after each position of s.        *)
LEMMA KeepSteps ==
  ASSUME NEW E, NEW s \in Seq(E), NEW S
  PROVE  \E h : KeepTable(h, E, s, S)
<1> DEFINE N == Len(s)
           R == Seq(E)
           base == <<>>
           Body(kept, x) == IF x \in S THEN Append(kept, x) ELSE kept
           step == [p \in R \X (1..N) |-> Body(p[1], s[p[2]])]
           Eq(g) == g = [t \in SUBSET DOMAIN s |->
                           IF t = {} THEN base ELSE Body(g[t \ {Max(t)}], s[Max(t)])]
           g == CHOOSE f : Eq(f)
<1>1. N \in Nat /\ DOMAIN s = 1..N
  OBVIOUS
<1>2. base \in R
  OBVIOUS
<1>3. \A r \in R, k \in 1..N : Body(r, s[k]) \in R
  OBVIOUS
<1>4. Keep(s, S) = g[DOMAIN s]
  BY DEF Keep, FoldLeft, MapThenFoldSet
<1> HIDE DEF R, base, N, Body, g
<1>5. IsStep(step, R, N)
  BY <1>3 DEF IsStep
<1>6. \A r \in R, k \in 1..N : step[<<r, k>>] = Body(r, s[k])
  OBVIOUS
<1> HIDE DEF step
<1>7. Recurses(g, R, base, N, step)
  <2>1. PICK f : f \in [SUBSET (1..N) -> R] /\ Recurses(f, R, base, N, step)
    BY <1>1, <1>2, <1>5, SubsetRecursion
  <2>2. \A t \in SUBSET (1..N) : t # {} => /\ Max(t) \in 1..N
                                           /\ t \ {Max(t)} \in SUBSET (1..N)
    BY <1>1, MaxOfInterval
  <2>3. Eq(f)
    BY <1>1, <1>6, <2>1, <2>2 DEF Recurses
  <2>4. Eq(g)
    BY <2>3 DEF g
  <2>5. QED
    BY <1>1, <1>6, <2>2, <2>4 DEF Recurses
<1>8. PICK h : IsTable(h, R, base, N, step) /\ h[N] = g[1..N]
  BY <1>1, <1>2, <1>5, <1>7, FoldTable
<1>9. \A k \in 1..N : h[k] = Body(h[k - 1], s[k])
  <2> TAKE k \in 1..N
  <2>1. h[k - 1] \in R
    BY <1>1, <1>8 DEF IsTable
  <2>2. QED
    BY <1>6, <1>8, <2>1 DEF IsTable
<1>10. QED
  BY <1>1, <1>4, <1>8, <1>9 DEF IsTable, KeepTable, N, R, base, Body

(* Read left to right, r is what the first n elements of s have in S:      *)
(* idx[k] is the place in s of the k-th of them.                           *)
Picks(r, idx, s, S, n) ==
  /\ idx \in [1..Len(r) -> 1..n]
  /\ \A j, k \in 1..Len(r) : j < k => idx[j] < idx[k]
  /\ \A k \in 1..Len(r) : r[k] = s[idx[k]] /\ r[k] \in S
  /\ \A i \in 1..n : s[i] \in S => \E k \in 1..Len(r) : idx[k] = i

(* One more element of s is picked exactly if it is in S.                  *)
LEMMA PicksNext ==
  ASSUME NEW E, NEW s \in Seq(E), NEW S, NEW n \in 1..Len(s),
         NEW r \in Seq(E), NEW idx, Picks(r, idx, s, S, n - 1)
  PROVE  \E new : Picks(IF s[n] \in S THEN Append(r, s[n]) ELSE r, new, s, S, n)
<1>1. CASE s[n] \notin S
  <2>1. Picks(r, idx, s, S, n)
    BY <1>1 DEF Picks
  <2>2. QED
    BY <1>1, <2>1
<1>2. CASE s[n] \in S
  <2> DEFINE m == Len(r)
             w == Append(r, s[n])
             new == [k \in 1..(m + 1) |-> IF k = m + 1 THEN n ELSE idx[k]]
  <2>1. /\ m \in Nat /\ Len(w) = m + 1
        /\ \A k \in 1..m : w[k] = r[k]
        /\ w[m + 1] = s[n]
    OBVIOUS
  <2>2. \A k \in 1..m : idx[k] \in 1..(n - 1)
    BY DEF Picks
  <2>3. new \in [1..(m + 1) -> 1..n]
    BY <2>1, <2>2
  <2>4. new[m + 1] = n /\ \A k \in 1..m : new[k] = idx[k]
    BY <2>1
  <2> HIDE DEF new, w
  <2>5. \A j, k \in 1..(m + 1) : j < k => new[j] < new[k]
    <3> SUFFICES ASSUME NEW j \in 1..(m + 1), NEW k \in 1..(m + 1), j < k
                 PROVE  new[j] < new[k]
      OBVIOUS
    <3>1. j \in 1..m /\ (k \in 1..m \/ k = m + 1)
      BY <2>1
    <3>2. QED
      BY <2>2, <2>4, <3>1 DEF Picks
  <2>6. \A k \in 1..(m + 1) : w[k] = s[new[k]] /\ w[k] \in S
    <3> TAKE k \in 1..(m + 1)
    <3>1. k \in 1..m \/ k = m + 1
      BY <2>1
    <3>2. QED
      BY <1>2, <2>1, <2>4, <3>1 DEF Picks
  <2>7. \A i \in 1..n : s[i] \in S => \E k \in 1..(m + 1) : new[k] = i
    <3> SUFFICES ASSUME NEW i \in 1..n, s[i] \in S
                 PROVE  \E k \in 1..(m + 1) : new[k] = i
      OBVIOUS
    <3>1. CASE i = n
      BY <2>1, <2>4, <3>1
    <3>2. CASE i \in 1..(n - 1)
      <4>1. PICK k \in 1..m : idx[k] = i
        BY <3>2 DEF Picks
      <4>2. QED
        BY <2>1, <2>4, <4>1
    <3>3. QED
      BY <3>1, <3>2
  <2>8. Picks(w, new, s, S, n)
    BY <2>1, <2>3, <2>5, <2>6, <2>7 DEF Picks
  <2>9. QED
    BY <1>2, <2>8 DEF w
<1>3. QED
  BY <1>1, <1>2

(* The list comprehension keeps exactly the elements in S, in their order. *)
LEMMA KeepSublist ==
  ASSUME NEW E, NEW s \in Seq(E), NEW S
  PROVE  /\ Keep(s, S) \in Seq(E)
         /\ \E idx : Picks(Keep(s, S), idx, s, S, Len(s))
<1> DEFINE N == Len(s)
<1>1. N \in Nat
  OBVIOUS
<1>2. PICK h : KeepTable(h, E, s, S)
  BY KeepSteps
<1>3. /\ h \in [0..N -> Seq(E)]
      /\ h[0] = <<>> /\ h[N] = Keep(s, S)
      /\ \A k \in 1..N :
           h[k] = IF s[k] \in S THEN Append(h[k - 1], s[k]) ELSE h[k - 1]
  BY <1>2 DEF KeepTable
<1> DEFINE P(n) == \E idx : Picks(h[n], idx, s, S, n)
           T == {n \in 0..N : P(n)}
<1>4. 0 \in T
  <2>1. Picks(<<>>, <<>>, s, S, 0)
    BY DEF Picks
  <2>2. QED
    BY <1>1, <1>3, <2>1
<1>5. \A k \in 1..N : k - 1 \in T => k \in T
  <2> SUFFICES ASSUME NEW k \in 1..N, P(k - 1) PROVE P(k)
    BY <1>1
  <2>1. PICK idx : Picks(h[k - 1], idx, s, S, k - 1)
    OBVIOUS
  <2>2. h[k - 1] \in Seq(E)
    BY <1>1, <1>3
  <2>3. h[k] = IF s[k] \in S THEN Append(h[k - 1], s[k]) ELSE h[k - 1]
    BY <1>3
  <2>4. \E new : Picks(IF s[k] \in S THEN Append(h[k - 1], s[k]) ELSE h[k - 1],
                       new, s, S, k)
    BY <2>1, <2>2, PicksNext
  <2>5. QED
    BY <2>3, <2>4
<1> HIDE DEF T, N
<1>6. \A k \in 0..N : k \in T
  BY <1>1, <1>4, <1>5, Induction
<1>7. N \in T
  BY <1>1, <1>6
<1>8. QED
  BY <1>1, <1>3, <1>7 DEF T, N

(* The elements of a comprehension.                                        *)
LEMMA KeepElements ==
  ASSUME NEW E, NEW s \in Seq(E), NEW S
  PROVE  ToSet(Keep(s, S)) = ToSet(s) \cap S
<1> DEFINE r == Keep(s, S)
<1>1. r \in Seq(E)
  BY KeepSublist
<1>2. PICK idx : Picks(r, idx, s, S, Len(s))
  BY KeepSublist
<1> HIDE DEF r
<1>3. /\ DOMAIN s = 1..Len(s) /\ DOMAIN r = 1..Len(r)
      /\ \A k \in 1..Len(r) : idx[k] \in 1..Len(s) /\ r[k] = s[idx[k]] /\ r[k] \in S
      /\ \A i \in 1..Len(s) : s[i] \in S => \E k \in 1..Len(r) : idx[k] = i
  <2>1. DOMAIN s = 1..Len(s) /\ DOMAIN r = 1..Len(r)
    BY <1>1
  <2>2. /\ \A k \in 1..Len(r) : r[k] = s[idx[k]] /\ r[k] \in S
        /\ \A i \in 1..Len(s) : s[i] \in S => \E k \in 1..Len(r) : idx[k] = i
    BY <1>2 DEF Picks
  <2>3. \A k \in 1..Len(r) : idx[k] \in 1..Len(s)
    BY <1>2 DEF Picks
  <2>4. QED
    BY <2>1, <2>2, <2>3
<1>4. \A k \in DOMAIN r : r[k] \in ToSet(s) /\ r[k] \in S
  BY <1>3 DEF ToSet
<1>5. \A i \in DOMAIN s : s[i] \in S => s[i] \in ToSet(r)
  <2> SUFFICES ASSUME NEW i \in DOMAIN s, s[i] \in S PROVE s[i] \in ToSet(r)
    OBVIOUS
  <2>1. PICK k \in 1..Len(r) : idx[k] = i
    BY <1>3
  <2>2. r[k] = s[i] /\ k \in DOMAIN r
    BY <1>3, <2>1
  <2>3. QED
    BY <2>2 DEF ToSet
<1>6. ToSet(r) = ToSet(s) \cap S
  BY <1>4, <1>5 DEF ToSet
<1>7. QED
  BY <1>6 DEF r

(* A concatenation has the elements of both parts.                         *)
LEMMA ConcatElements ==
  ASSUME NEW E, NEW a \in Seq(E), NEW b \in Seq(E)
  PROVE  a \o b \in Seq(E) /\ ToSet(a \o b) = ToSet(a) \cup ToSet(b)
<1> DEFINE c == a \o b
<1>1. /\ c \in Seq(E) /\ Len(c) = Len(a) + Len(b)
      /\ Len(a) \in Nat /\ Len(b) \in Nat
      /\ \A k \in 1..Len(a) : c[k] = a[k]
      /\ \A k \in 1..Len(b) : c[Len(a) + k] = b[k]
  OBVIOUS
<1>2. /\ DOMAIN a = 1..Len(a) /\ DOMAIN b = 1..Len(b) /\ DOMAIN c = 1..Len(c)
  BY <1>1
<1> HIDE DEF c
<1>3. ASSUME NEW x \in ToSet(c) PROVE x \in ToSet(a) \cup ToSet(b)
  <2>1. PICK k \in 1..Len(c) : x = c[k]
    BY <1>2 DEF ToSet
  <2>2. CASE k \in 1..Len(a)
    BY <1>1, <1>2, <2>1, <2>2 DEF ToSet
  <2>3. CASE k \notin 1..Len(a)
    <3>1. k - Len(a) \in 1..Len(b) /\ Len(a) + (k - Len(a)) = k
      BY <1>1, <2>3
    <3>2. x = b[k - Len(a)]
      BY <1>1, <2>1, <3>1
    <3>3. QED
      BY <1>2, <3>1, <3>2 DEF ToSet
  <2>4. QED
    BY <2>2, <2>3
<1>4. ASSUME NEW x \in ToSet(a) PROVE x \in ToSet(c)
  <2>1. PICK k \in 1..Len(a) : x = a[k]
    BY <1>2 DEF ToSet
  <2>2. k \in 1..Len(c) /\ x = c[k]
    BY <1>1, <2>1
  <2>3. QED
    BY <1>2, <2>2 DEF ToSet
<1>5. ASSUME NEW x \in ToSet(b) PROVE x \in ToSet(c)
  <2>1. PICK k \in 1..Len(b) : x = b[k]
    BY <1>2 DEF ToSet
  <2>2. Len(a) + k \in 1..Len(c) /\ x = c[Len(a) + k]
    BY <1>1, <2>1
  <2>3. QED
    BY <1>2, <2>2 DEF ToSet
<1>6. QED
  BY <1>1, <1>3, <1>4, <1>5 DEF c

-----------------------------------------------------------------------------
(* Increasing lists of numbers: message ids, turn ids, in order.           *)
Increasing(s) == \A j, k \in 1..Len(s) : j < k => s[j] < s[k]

(* Keeping some elements of an increasing sequence leaves an increasing    *)
(* one.                                                                    *)
LEMMA KeepIncreasing ==
  ASSUME NEW s \in Seq(Nat), NEW S, Increasing(s)
  PROVE  Keep(s, S) \in Seq(Nat) /\ Increasing(Keep(s, S))
<1>1. Keep(s, S) \in Seq(Nat)
  BY KeepSublist
<1>2. PICK idx : Picks(Keep(s, S), idx, s, S, Len(s))
  BY KeepSublist
<1> DEFINE r == Keep(s, S)
<1>3. ASSUME NEW j \in 1..Len(r), NEW k \in 1..Len(r), j < k
      PROVE  r[j] < r[k]
  <2>1. idx[j] \in 1..Len(s) /\ idx[k] \in 1..Len(s) /\ idx[j] < idx[k]
    BY <1>2, <1>3 DEF Picks
  <2>2. r[j] = s[idx[j]] /\ r[k] = s[idx[k]]
    BY <1>2 DEF Picks
  <2>3. QED
    BY <2>1, <2>2 DEF Increasing
<1>4. QED
  BY <1>1, <1>3 DEF Increasing

(* An increasing sequence may be continued with greater elements.          *)
LEMMA ConcatIncreasing ==
  ASSUME NEW a \in Seq(Nat), NEW b \in Seq(Nat), Increasing(a), Increasing(b),
         \A x \in ToSet(a), y \in ToSet(b) : x < y
  PROVE  a \o b \in Seq(Nat) /\ Increasing(a \o b)
<1> DEFINE c == a \o b
<1>1. /\ c \in Seq(Nat) /\ Len(c) = Len(a) + Len(b)
      /\ Len(a) \in Nat /\ Len(b) \in Nat
      /\ \A k \in 1..Len(a) : c[k] = a[k]
      /\ \A k \in 1..Len(b) : c[Len(a) + k] = b[k]
  OBVIOUS
<1>2. \A x \in 1..Len(a), y \in 1..Len(b) : a[x] < b[y]
  <2>1. DOMAIN a = 1..Len(a) /\ DOMAIN b = 1..Len(b)
    OBVIOUS
  <2>2. QED
    BY <2>1 DEF ToSet
<1> HIDE DEF c
<1>3. ASSUME NEW j \in 1..Len(c), NEW k \in 1..Len(c), j < k
      PROVE  c[j] < c[k]
  <2>1. CASE k \in 1..Len(a)
    <3>1. j \in 1..Len(a)
      BY <1>1, <1>3, <2>1
    <3>2. c[j] = a[j] /\ c[k] = a[k] /\ a[j] < a[k]
      BY <1>1, <1>3, <2>1, <3>1 DEF Increasing
    <3>3. QED
      BY <3>2
  <2>2. CASE j \in 1..Len(a) /\ k \notin 1..Len(a)
    <3>1. k - Len(a) \in 1..Len(b) /\ Len(a) + (k - Len(a)) = k
      BY <1>1, <2>2
    <3>2. c[j] = a[j] /\ c[k] = b[k - Len(a)]
      BY <1>1, <2>2, <3>1
    <3>3. QED
      BY <1>2, <2>2, <3>1, <3>2
  <2>3. CASE j \notin 1..Len(a) /\ k \notin 1..Len(a)
    <3>1. /\ k - Len(a) \in 1..Len(b) /\ Len(a) + (k - Len(a)) = k
          /\ j - Len(a) \in 1..Len(b) /\ Len(a) + (j - Len(a)) = j
          /\ j - Len(a) < k - Len(a)
      BY <1>1, <1>3, <2>3
    <3>2. c[j] = b[j - Len(a)] /\ c[k] = b[k - Len(a)]
      BY <1>1, <3>1
    <3>3. b[j - Len(a)] < b[k - Len(a)]
      BY <3>1 DEF Increasing
    <3>4. QED
      BY <3>2, <3>3
  <2>4. QED
    BY <2>1, <2>2, <2>3
<1>4. QED
  BY <1>1, <1>3 DEF c, Increasing

(* Increasing lists that agree before k agree at k if they have the same   *)
(* elements, and so the elements determine the list.                       *)
LEMMA IncreasingNext ==
  ASSUME NEW a \in Seq(Nat), NEW b \in Seq(Nat), Increasing(a), Increasing(b),
         ToSet(a) \subseteq ToSet(b), NEW k \in 1..Len(a),
         \A i \in 1..(k - 1) : i <= Len(b) /\ a[i] = b[i]
  PROVE  k <= Len(b) /\ b[k] <= a[k]
<1>1. DOMAIN a = 1..Len(a) /\ DOMAIN b = 1..Len(b) /\ Len(a) \in Nat /\ Len(b) \in Nat
  OBVIOUS
<1>2. PICK j \in 1..Len(b) : b[j] = a[k]
  <2>1. a[k] \in ToSet(a)
    BY <1>1 DEF ToSet
  <2>2. a[k] \in ToSet(b)
    BY <2>1
  <2>3. QED
    BY <1>1, <2>2 DEF ToSet
<1>3. \A i \in 1..Len(a) : a[i] \in Nat
  OBVIOUS
<1>4. \A i \in 1..Len(b) : b[i] \in Nat
  OBVIOUS
<1>5. j >= k
  <2>1. SUFFICES ASSUME j < k PROVE FALSE
    BY <1>1
  <2>2. j \in 1..(k - 1) /\ j \in 1..Len(a)
    BY <1>1, <2>1
  <2>3. a[j] = a[k] /\ a[j] < a[k]
    BY <1>2, <2>1, <2>2 DEF Increasing
  <2>4. QED
    BY <1>3, <2>2, <2>3
<1>6. k \in 1..Len(b)
  BY <1>1, <1>5
<1>7. CASE j = k
  BY <1>2, <1>4, <1>6, <1>7
<1>8. CASE j > k
  <2>1. b[k] < b[j]
    BY <1>6, <1>8 DEF Increasing
  <2>2. QED
    BY <1>2, <1>3, <1>4, <1>6, <2>1
<1>9. QED
  BY <1>1, <1>5, <1>7, <1>8

(* An increasing sequence is determined by its elements.                   *)
LEMMA IncreasingDetermined ==
  ASSUME NEW a \in Seq(Nat), NEW b \in Seq(Nat), Increasing(a), Increasing(b),
         ToSet(a) = ToSet(b)
  PROVE  a = b
<1> DEFINE S == {k \in Nat : \A i \in 1..k : /\ i <= Len(a) <=> i <= Len(b)
                                             /\ i <= Len(a) => a[i] = b[i]}
           N == Len(a) + Len(b)
<1>1. Len(a) \in Nat /\ Len(b) \in Nat /\ N \in Nat
  OBVIOUS
<1>2. \A i \in 1..Len(a) : a[i] \in Nat
  OBVIOUS
<1>3. \A i \in 1..Len(b) : b[i] \in Nat
  OBVIOUS
<1>4. 0 \in S
  OBVIOUS
<1>5. ASSUME NEW k \in 1..N, k - 1 \in S PROVE k \in S
  <2>1. \A i \in 1..(k - 1) : /\ i <= Len(a) <=> i <= Len(b)
                              /\ i <= Len(a) => a[i] = b[i]
    BY <1>5
  <2>2. CASE k <= Len(a)
    <3>1. k \in 1..Len(a) /\ \A i \in 1..(k - 1) : i <= Len(b) /\ a[i] = b[i]
      BY <1>1, <2>1, <2>2
    <3>2. k <= Len(b) /\ b[k] <= a[k]
      BY <3>1, IncreasingNext
    <3>3. k \in 1..Len(b) /\ \A i \in 1..(k - 1) : i <= Len(a) /\ b[i] = a[i]
      BY <1>1, <2>2, <3>1, <3>2
    <3>4. a[k] <= b[k]
      BY <3>3, IncreasingNext
    <3>5. a[k] = b[k]
      BY <1>2, <1>3, <3>1, <3>2, <3>3, <3>4
    <3>6. \A i \in 1..k : i \in 1..(k - 1) \/ i = k
      BY <1>1
    <3>7. QED
      BY <1>1, <2>1, <2>2, <3>2, <3>5, <3>6
  <2>3. CASE ~(k <= Len(a))
    <3>1. ~(k <= Len(b))
      <4>1. SUFFICES ASSUME k <= Len(b) PROVE FALSE
        OBVIOUS
      <4>2. k \in 1..Len(b) /\ \A i \in 1..(k - 1) : i <= Len(a) /\ b[i] = a[i]
        BY <1>1, <2>1, <4>1
      <4>3. k <= Len(a)
        BY <4>2, IncreasingNext
      <4>4. QED
        BY <2>3, <4>3
    <3>2. \A i \in 1..k : i \in 1..(k - 1) \/ i = k
      BY <1>1
    <3>3. QED
      BY <1>1, <2>1, <2>3, <3>1, <3>2
  <2>4. QED
    BY <2>2, <2>3
<1> HIDE DEF S, N
<1>6. N \in S
  <2>1. \A k \in 0..N : k \in S
    BY <1>1, <1>4, <1>5, Induction
  <2>2. QED
    BY <1>1, <2>1
<1>7. \A i \in 1..N : (i <= Len(a) <=> i <= Len(b)) /\ (i <= Len(a) => a[i] = b[i])
  BY <1>6 DEF S
<1> USE DEF N
<1>8. Len(a) = Len(b)
  <2>1. Len(a) <= Len(b)
    <3>1. Len(a) > 0 => Len(a) \in 1..N
      BY <1>1
    <3>2. QED
      BY <1>1, <1>7, <3>1
  <2>2. Len(b) <= Len(a)
    <3>1. Len(b) > 0 => Len(b) \in 1..N
      BY <1>1
    <3>2. QED
      BY <1>1, <1>7, <3>1
  <2>3. QED
    BY <1>1, <2>1, <2>2
<1>9. \A i \in 1..Len(a) : i \in 1..N /\ i <= Len(a)
  BY <1>1
<1> HIDE DEF N
<1>10. \A i \in 1..Len(a) : a[i] = b[i]
  BY <1>7, <1>9
<1>11. a = [i \in 1..Len(a) |-> a[i]] /\ b = [i \in 1..Len(a) |-> b[i]]
  BY <1>8
<1>12. QED
  BY <1>10, <1>11

-----------------------------------------------------------------------------
(* A finite set can be listed.                                             *)
LEMMA SetToSeqElements ==
  ASSUME NEW S, IsFiniteSet(S)
  PROVE  SetToSeq(S) \in Seq(S)
<1>1. Cardinality(S) \in Nat /\ ExistsBijection(1..Cardinality(S), S)
  BY FS_CardinalityType
<1>2. \E f \in [1..Cardinality(S) -> S] : IsInjective(f)
  BY <1>1 DEF ExistsBijection, Bijection, Injection, IsInjective
<1>3. SetToSeq(S) \in [1..Cardinality(S) -> S]
  BY <1>2 DEF SetToSeq
<1>4. QED
  BY <1>1, <1>3

-----------------------------------------------------------------------------
(* Sums over sets of positions.                                            *)

(* w[K] is the sum of c[k] for k in K.                                     *)
Weighs(w, c, N) ==
  /\ w \in [SUBSET (1..N) -> Nat]
  /\ w[{}] = 0
  /\ \A K \in SUBSET (1..N) : \A x \in (1..N) \ K : w[K \cup {x}] = w[K] + c[x]

(* Adding up in any order gives the same sum.                              *)
LEMMA WeightsExist ==
  ASSUME NEW N \in Nat, NEW c \in [1..N -> Nat]
  PROVE  \E w : Weighs(w, c, N)
<1> DEFINE R == Nat
           base == 0
           step == [q \in R \X (1..N) |-> q[1] + c[q[2]]]
<1>1. IsStep(step, R, N) /\ \A r \in R, k \in 1..N : step[<<r, k>>] = r + c[k]
  <2>1. \A r \in Nat, k \in 1..N : r + c[k] \in Nat
    OBVIOUS
  <2>2. QED
    BY <2>1 DEF IsStep
<1>2. base \in R
  OBVIOUS
<1> HIDE DEF step, R, base
<1>3. PICK w : w \in [SUBSET (1..N) -> R] /\ Recurses(w, R, base, N, step)
  BY <1>1, <1>2, SubsetRecursion
<1>4. w[{}] = 0 /\ w \in [SUBSET (1..N) -> Nat]
  BY <1>3 DEF Recurses, R, base
<1>5. ASSUME NEW K \in SUBSET (1..N), NEW n \in K, \A k \in K : k <= n
      PROVE  w[K] = w[K \ {n}] + c[n] /\ w[K \ {n}] \in Nat
  <2>1. Max(K) \in K /\ Max(K) \in 1..N /\ \A i \in K : i <= Max(K)
    BY MaxOfInterval
  <2>2. Max(K) = n
    <3>1. n \in 1..N /\ n <= Max(K) /\ Max(K) <= n
      BY <1>5, <2>1
    <3>2. QED
      BY <2>1, <3>1
  <2>3. w[K \ {n}] \in R /\ n \in 1..N /\ K # {}
    BY <1>3
  <2>4. w[K] = step[<<w[K \ {n}], n>>]
    BY <1>3, <2>2, <2>3 DEF Recurses
  <2>5. QED
    BY <1>1, <2>3, <2>4 DEF R
<1> DEFINE Adds(n) == \A K \in SUBSET (1..n) : \A x \in (1..n) \ K : w[K \cup {x}] = w[K] + c[x]
           S == {n \in 0..N : Adds(n)}
<1>6. 0 \in S
  OBVIOUS
<1>7. ASSUME NEW n \in 1..N, n - 1 \in S PROVE n \in S
  <2> SUFFICES ASSUME NEW K \in SUBSET (1..n), NEW x \in (1..n) \ K
               PROVE  w[K \cup {x}] = w[K] + c[x]
    <3>1. n \in 0..N
      OBVIOUS
    <3>2. QED
      BY <3>1
  <2>1. K \in SUBSET (1..N) /\ x \in 1..N
    <3>1. \A k \in 1..n : k \in 1..N
      OBVIOUS
    <3>2. QED
      BY <3>1
  <2>6. \A L \in SUBSET (1..(n - 1)) : x \in (1..(n - 1)) \ L => w[L \cup {x}] = w[L] + c[x]
    BY <1>7
  <2>2. CASE x = n
    <3>1. K \cup {x} \in SUBSET (1..N) /\ n \in K \cup {x} /\ \A k \in K \cup {x} : k <= n
      BY <2>1, <2>2
    <3>2. (K \cup {x}) \ {n} = K
      BY <2>2
    <3>3. QED
      BY <1>5, <2>2, <3>1, <3>2
  <2>3. CASE x # n /\ n \in K
    <3> DEFINE L == K \ {n}
    <3>1. /\ K \cup {x} \in SUBSET (1..N) /\ n \in K \cup {x} /\ \A k \in K \cup {x} : k <= n
          /\ \A k \in K : k <= n
      BY <2>1, <2>3
    <3>2. (K \cup {x}) \ {n} = L \cup {x}
      BY <2>3
    <3>3. L \in SUBSET (1..(n - 1)) /\ x \in (1..(n - 1)) \ L
      <4>1. \A k \in 1..n : k # n => k \in 1..(n - 1)
        OBVIOUS
      <4>2. QED
        BY <2>3, <4>1
    <3>4. w[L \cup {x}] = w[L] + c[x]
      BY <2>6, <3>3
    <3>8. w[K \cup {x}] = w[L \cup {x}] + c[n]
      <4> DEFINE M == K \cup {x}
      <4>1. M \in SUBSET (1..N) /\ n \in M /\ (\A k \in M : k <= n) /\ M \ {n} = L \cup {x}
        BY <3>1, <3>2
      <4> HIDE DEF M
      <4>2. w[M] = w[M \ {n}] + c[n]
        BY <1>5, <4>1
      <4>3. QED
        BY <4>1, <4>2 DEF M
    <3>9. w[K] = w[L] + c[n] /\ w[L] \in Nat
      BY <1>5, <2>1, <2>3, <3>1
    <3>5. w[K \cup {x}] = w[L \cup {x}] + c[n] /\ w[K] = w[L] + c[n] /\ w[L] \in Nat
      BY <3>8, <3>9
    <3>6. c[x] \in Nat /\ c[n] \in Nat
      BY <2>1
    <3> HIDE DEF L
    <3>7. QED
      BY <3>4, <3>5, <3>6
  <2>4. CASE x # n /\ n \notin K
    <3>1. \A k \in 1..n : k # n => k \in 1..(n - 1)
      OBVIOUS
    <3>2. K \in SUBSET (1..(n - 1)) /\ x \in (1..(n - 1)) \ K
      BY <2>4, <3>1
    <3>3. QED
      BY <2>6, <3>2
  <2>5. QED
    BY <2>2, <2>3, <2>4
<1> HIDE DEF S
<1>8. \A n \in 0..N : n \in S
  BY <1>6, <1>7, Induction
<1>9. N \in S
  BY <1>8
<1>10. Adds(N)
  BY <1>9 DEF S
<1>11. Weighs(w, c, N)
  BY <1>4, <1>10 DEF Weighs
<1>12. QED
  BY <1>11

(* A list without repetitions of all elements of a finite set.             *)
Lists(s, K) ==
  /\ s \in [1..Cardinality(K) -> K] /\ Cardinality(K) \in Nat
  /\ \A i, j \in 1..Cardinality(K) : s[i] = s[j] => i = j
  /\ \A k \in K : \E i \in 1..Cardinality(K) : s[i] = k

(* Any injective list as long as the set is one.                           *)
LEMMA InjectiveLists ==
  ASSUME NEW K, IsFiniteSet(K), NEW s \in [1..Cardinality(K) -> K],
         \A i, j \in 1..Cardinality(K) : s[i] = s[j] => i = j
  PROVE  Lists(s, K)
<1> DEFINE D == 1..Cardinality(K)
<1>1. Cardinality(K) \in Nat
  BY FS_CardinalityType
<1>2. IsFiniteSet(D) /\ Cardinality(D) = Cardinality(K)
  <2>1. 1 \in Int /\ Cardinality(K) \in Int
    BY <1>1
  <2>2. /\ IsFiniteSet(1..Cardinality(K))
        /\ Cardinality(1..Cardinality(K)) =
             IF 1 > Cardinality(K) THEN 0 ELSE Cardinality(K) - 1 + 1
    BY <2>1, FS_Interval
  <2> DEFINE m == Cardinality(K)
  <2> HIDE DEF m
  <2>3. (IF 1 > m THEN 0 ELSE m - 1 + 1) = m
    BY <1>1 DEF m
  <2>4. QED
    BY <2>2, <2>3 DEF m
<1>3. s \in Injection(D, K)
  BY DEF Injection, IsInjective
<1> HIDE DEF D
<1>4. s \in Surjection(D, K)
  BY <1>2, <1>3, FS_Injection
<1>5. \A k \in K : \E i \in D : s[i] = k
  BY <1>4 DEF Surjection
<1>6. QED
  BY <1>1, <1>5 DEF Lists, D

(* SetToSeq lists a finite set: every element once.                        *)
LEMMA SetToSeqLists ==
  ASSUME NEW K, IsFiniteSet(K)
  PROVE  Lists(SetToSeq(K), K)
<1>1. Cardinality(K) \in Nat /\ ExistsBijection(1..Cardinality(K), K)
  BY FS_CardinalityType
<1>2. \E f \in [1..Cardinality(K) -> K] : IsInjective(f)
  BY <1>1 DEF ExistsBijection, Bijection, Injection, IsInjective
<1>3. SetToSeq(K) \in [1..Cardinality(K) -> K] /\ IsInjective(SetToSeq(K))
  BY <1>2 DEF SetToSeq
<1> DEFINE s == SetToSeq(K)
<1>4. DOMAIN s = 1..Cardinality(K)
  BY <1>3
<1> HIDE DEF s
<1>5. \A i, j \in 1..Cardinality(K) : s[i] = s[j] => i = j
  BY <1>3, <1>4 DEF IsInjective, s
<1>6. QED
  BY <1>3, <1>5, InjectiveLists DEF s

(* A running total over a list of all elements of a set ends with its sum. *)
LEMMA ListSum ==
  ASSUME NEW N \in Nat, NEW c \in [1..N -> Nat], NEW w, Weighs(w, c, N),
         NEW K \in SUBSET (1..N), NEW s, Lists(s, K),
         NEW p, p[0] = 0, \A i \in 1..Cardinality(K) : p[i] = p[i - 1] + c[s[i]]
  PROVE  p[Cardinality(K)] = w[K]
<1> DEFINE m == Cardinality(K)
           Done(i) == {s[j] : j \in 1..i}
           S == {i \in 0..m : p[i] = w[Done(i)]}
<1>1. /\ m \in Nat /\ s \in [1..m -> K]
      /\ \A i, j \in 1..m : s[i] = s[j] => i = j
      /\ \A k \in K : \E i \in 1..m : s[i] = k
  BY DEF Lists
<1>2. \A i \in 1..m : p[i] = p[i - 1] + c[s[i]]
  OBVIOUS
<1>3. w[{}] = 0 /\ \A L \in SUBSET (1..N) : \A x \in (1..N) \ L : w[L \cup {x}] = w[L] + c[x]
  BY DEF Weighs
<1> HIDE DEF m
<1>4. 0 \in S
  <2>1. Done(0) = {}
    OBVIOUS
  <2>2. 0 \in 0..m
    BY <1>1
  <2> HIDE DEF Done
  <2>3. QED
    BY <1>3, <2>1, <2>2
<1>5. ASSUME NEW i \in 1..m, i - 1 \in S PROVE i \in S
  <2>1. \A j \in 1..(i - 1) : j \in 1..m /\ j # i
    BY <1>1
  <2>2. Done(i - 1) \in SUBSET (1..N) /\ s[i] \in (1..N) \ Done(i - 1)
    <3>1. \A j \in 1..(i - 1) : s[j] \in 1..N /\ s[j] # s[i]
      <4> TAKE j \in 1..(i - 1)
      <4>1. j \in 1..m /\ j # i /\ s[j] \in K
        BY <1>1, <2>1
      <4>2. QED
        BY <1>1, <4>1
    <3>2. s[i] \in 1..N
      <4>1. s[i] \in K
        BY <1>1
      <4>2. QED
        BY <4>1
    <3>3. QED
      BY <3>1, <3>2
  <2>3. Done(i) = Done(i - 1) \cup {s[i]}
    <3>1. 1..i = (1..(i - 1)) \cup {i}
      BY <1>1
    <3>2. QED
      BY <3>1
  <2>4. p[i - 1] = w[Done(i - 1)]
    BY <1>5
  <2>5. i \in 0..m
    BY <1>1
  <2> HIDE DEF Done
  <2>6. p[i] = w[Done(i)]
    <3>1. p[i] = p[i - 1] + c[s[i]]
      BY <1>2
    <3> DEFINE D == Done(i - 1)
    <3>2. D \in SUBSET (1..N) /\ s[i] \in (1..N) \ D
      BY <2>2
    <3> HIDE DEF D
    <3>3. w[D \cup {s[i]}] = w[D] + c[s[i]]
      BY <1>3, <3>2
    <3>4. QED
      BY <2>3, <2>4, <3>1, <3>3 DEF D
  <2>7. QED
    BY <2>5, <2>6
<1> HIDE DEF S
<1>6. \A i \in 0..m : i \in S
  BY <1>1, <1>4, <1>5, Induction
<1>7. m \in S
  BY <1>1, <1>6
<1>8. Done(m) = K
  <2>1. \A j \in 1..m : s[j] \in K
    BY <1>1
  <2>2. \A k \in K : \E j \in 1..m : s[j] = k
    BY <1>1
  <2>3. QED
    BY <2>1, <2>2
<1>9. QED
  BY <1>7, <1>8 DEF S, m

-----------------------------------------------------------------------------
(* The sum of a function over a set of positions is what the set weighs.   *)
LEMMA SumIsWeight ==
  ASSUME NEW N \in Nat, NEW c \in [1..N -> Nat], NEW w, Weighs(w, c, N),
         NEW K \in SUBSET (1..N)
  PROVE  SumFunctionOnSet(c, K) = w[K]
<1> DEFINE any(t) == CHOOSE x \in t : TRUE
           Table(f) == [t \in SUBSET K |->
                          IF t = {} THEN 0 ELSE c[any(t)] + f[t \ {any(t)}]]
           Eq(f) == f = Table(f)
           g == CHOOSE f : Eq(f)
           u == [t \in SUBSET K |-> w[t]]
<1>1. SumFunctionOnSet(c, K) = g[K]
  BY DEF SumFunctionOnSet, FoldFunctionOnSet, MapThenFoldSet
<1>2. \A t \in SUBSET K : t # {} => any(t) \in t
  OBVIOUS
<1> HIDE DEF any
<1>3. ASSUME NEW t \in SUBSET K, t # {}
      PROVE  w[t] = c[any(t)] + w[t \ {any(t)}]
  <2> DEFINE x == any(t)
             T == t \ {x}
  <2>1. T \in SUBSET (1..N) /\ x \in (1..N) \ T /\ T \cup {x} = t
    BY <1>2, <1>3
  <2>2. w[T \cup {x}] = w[T] + c[x] /\ w[T] \in Nat /\ c[x] \in Nat
    BY <2>1 DEF Weighs
  <2>3. w[t] = w[T] + c[x]
    <3> HIDE DEF x, T
    <3>1. w[T \cup {x}] = w[t]
      BY <2>1
    <3>2. QED
      BY <2>2, <3>1
  <2>4. \A a, b \in Nat : a + b = b + a
    OBVIOUS
  <2>5. QED
    BY <2>2, <2>3, <2>4
<1>4. Eq(u)
  <2>1. \A t \in SUBSET K : u[t] = IF t = {} THEN 0 ELSE c[any(t)] + u[t \ {any(t)}]
    BY <1>3 DEF Weighs
  <2>2. \A t \in SUBSET K : Table(u)[t] = u[t]
    BY <2>1
  <2>3. QED
    BY <2>2
<1> HIDE DEF Eq
<1>5. Eq(g)
  BY <1>4 DEF g
<1> HIDE DEF g
<1>6. \A t \in SUBSET K : g[t] = IF t = {} THEN 0 ELSE c[any(t)] + g[t \ {any(t)}]
  BY <1>5 DEF Eq
<1> DEFINE Bad == {t \in SUBSET K : g[t] # w[t]}
<1>7. IsFiniteSet(K)
  <2>1. 1 \in Int /\ N \in Int
    OBVIOUS
  <2>2. IsFiniteSet(1..N)
    BY <2>1, FS_Interval
  <2>3. QED
    BY <2>2, FS_Subset
<1>8. ASSUME Bad # {} PROVE FALSE
  <2> DEFINE Sizes == {Cardinality(t) : t \in Bad}
  <2>1. \A t \in SUBSET K : IsFiniteSet(t) /\ Cardinality(t) \in Nat
    BY <1>7, FS_Subset, FS_CardinalityType
  <2>2. Sizes \in SUBSET Nat /\ Sizes # {}
    BY <1>8, <2>1
  <2>3. PICK n \in Sizes : \A m \in Sizes : n <= m
    <3> HIDE DEF Sizes
    <3> QED
      BY <2>2, LeastNatural
  <2>4. PICK t \in Bad : Cardinality(t) = n
    OBVIOUS
  <2>5. CASE t = {}
    BY <1>6, <2>4, <2>5 DEF Weighs
  <2>6. CASE t # {}
    <3> DEFINE r == t \ {any(t)}
    <3>1. any(t) \in t /\ r \in SUBSET K
      BY <1>2, <2>6
    <3>2. Cardinality(r) = Cardinality(t) - 1
      BY <2>1, <3>1, FS_RemoveElement
    <3>3. r \notin Bad
      <4> SUFFICES ASSUME r \in Bad PROVE FALSE
        OBVIOUS
      <4>1. n <= Cardinality(r)
        BY <2>3
      <4>2. QED
        BY <2>1, <2>4, <3>2, <4>1
    <3>4. g[r] = w[r]
      BY <3>1, <3>3
    <3>5. g[t] = c[any(t)] + g[r]
      BY <1>6, <2>6
    <3>6. w[t] = c[any(t)] + w[r]
      BY <1>3, <2>6
    <3>7. QED
      BY <3>4, <3>5, <3>6
  <2>7. QED
    BY <2>5, <2>6
<1>9. QED
  BY <1>1, <1>8

-----------------------------------------------------------------------------
(* Sorted lists.  R is a strict order of the elements of K, in which Under *)
(* are the ones before x.                                                  *)
Under(R, K, x) == {y \in K : <<y, x>> \in R}

(* R is a strict total order of K.                                         *)
Orders(R, K) ==
  /\ \A x \in K : <<x, x>> \notin R
  /\ \A x, y, z \in K : <<x, y>> \in R /\ <<y, z>> \in R => <<x, z>> \in R
  /\ \A x, y \in K : x # y => <<x, y>> \in R \/ <<y, x>> \in R

(* An element has fewer elements before it than any that it precedes, and  *)
(* than there are.                                                         *)
LEMMA UnderGrows ==
  ASSUME NEW K, IsFiniteSet(K), NEW R, Orders(R, K), NEW x \in K
  PROVE  /\ Cardinality(Under(R, K, x)) \in 0..(Cardinality(K) - 1)
         /\ \A y \in K : <<x, y>> \in R =>
              Cardinality(Under(R, K, x)) < Cardinality(Under(R, K, y))
<1>1. \A y \in K : IsFiniteSet(Under(R, K, y)) /\ Cardinality(Under(R, K, y)) \in Nat
  <2> TAKE y \in K
  <2>1. Under(R, K, y) \in SUBSET K
    BY DEF Under
  <2>2. QED
    BY <2>1, FS_Subset, FS_CardinalityType
<1>2. x \notin Under(R, K, x)
  BY DEF Under, Orders
<1>3. ASSUME NEW T \in SUBSET K, IsFiniteSet(T), Under(R, K, x) \subseteq T, x \in T
      PROVE  Cardinality(Under(R, K, x)) < Cardinality(T)
  <2>1. Cardinality(Under(R, K, x)) <= Cardinality(T)
    BY <1>3, FS_Subset
  <2>2. Cardinality(Under(R, K, x)) # Cardinality(T)
    BY <1>2, <1>3, FS_Subset
  <2>3. Cardinality(T) \in Nat
    BY <1>3, FS_CardinalityType
  <2>4. QED
    BY <1>1, <2>1, <2>2, <2>3
<1>4. Cardinality(Under(R, K, x)) < Cardinality(K)
  <2>1. Under(R, K, x) \subseteq K
    BY DEF Under
  <2>2. QED
    BY <1>3, <2>1
<1>5. ASSUME NEW y \in K, <<x, y>> \in R
      PROVE  Cardinality(Under(R, K, x)) < Cardinality(Under(R, K, y))
  <2>1. Under(R, K, y) \in SUBSET K /\ x \in Under(R, K, y)
    BY <1>5 DEF Under
  <2>2. Under(R, K, x) \subseteq Under(R, K, y)
    BY <1>5 DEF Under, Orders
  <2>3. QED
    BY <1>1, <1>3, <2>1, <2>2
<1>6. Cardinality(K) \in Nat
  BY FS_CardinalityType
<1>7. QED
  BY <1>1, <1>4, <1>5, <1>6

(* Every place of a sorted list has its element, and a list with these     *)
(* elements has every element of the set, once and in order.               *)
LEMMA SortedPlaces ==
  ASSUME NEW K, IsFiniteSet(K), NEW R, Orders(R, K)
  PROVE  /\ \A i \in 1..Cardinality(K) : \E x \in K : Cardinality(Under(R, K, x)) = i - 1
         /\ \A s \in [1..Cardinality(K) -> K] :
              (\A i \in 1..Cardinality(K) : Cardinality(Under(R, K, s[i])) = i - 1)
              => /\ Lists(s, K)
                 /\ \A i, j \in 1..Cardinality(K) : i < j => <<s[i], s[j]>> \in R
<1> DEFINE n == Cardinality(K)
           rank == [x \in K |-> Cardinality(Under(R, K, x)) + 1]
<1>1. n \in Nat
  BY FS_CardinalityType
<1>2. \A x \in K : Cardinality(Under(R, K, x)) \in 0..(n - 1)
  BY UnderGrows
<1>3. \A x, y \in K : <<x, y>> \in R =>
        Cardinality(Under(R, K, x)) < Cardinality(Under(R, K, y))
  BY UnderGrows
<1> HIDE DEF n
<1>4. rank \in [K -> 1..n]
  <2>1. \A x \in K : Cardinality(Under(R, K, x)) + 1 \in 1..n
    BY <1>1, <1>2
  <2>2. QED
    BY <2>1
<1>5. \A x, y \in K : rank[x] = rank[y] => x = y
  <2> SUFFICES ASSUME NEW x \in K, NEW y \in K, x # y PROVE rank[x] # rank[y]
    OBVIOUS
  <2>1. \/ Cardinality(Under(R, K, x)) < Cardinality(Under(R, K, y))
        \/ Cardinality(Under(R, K, y)) < Cardinality(Under(R, K, x))
    BY <1>3 DEF Orders
  <2>2. /\ Cardinality(Under(R, K, x)) \in Int
        /\ Cardinality(Under(R, K, y)) \in Int
    BY <1>1, <1>2
  <2>3. QED
    BY <2>1, <2>2
<1>6. \A i \in 1..n : \E x \in K : rank[x] = i
  <2> DEFINE D == 1..n
  <2>1. IsFiniteSet(D) /\ Cardinality(D) = n
    <3>1. 1 \in Int /\ n \in Int
      BY <1>1
    <3>2. IsFiniteSet(1..n) /\ Cardinality(1..n) = IF 1 > n THEN 0 ELSE n - 1 + 1
      BY <3>1, FS_Interval
    <3>3. (IF 1 > n THEN 0 ELSE n - 1 + 1) = n
      BY <1>1
    <3>4. QED
      BY <3>2, <3>3
  <2>2. DOMAIN rank = K
    OBVIOUS
  <2> HIDE DEF rank
  <2>3. rank \in [K -> D]
    BY <1>4
  <2> HIDE DEF D
  <2>4. rank \in Injection(K, D)
    BY <1>5, <2>2, <2>3 DEF Injection, IsInjective
  <2>5. rank \in Surjection(K, D)
    BY <2>1, <2>4, FS_Injection DEF n
  <2>6. \A i \in D : \E x \in K : rank[x] = i
    BY <2>5 DEF Surjection
  <2>7. QED
    BY <2>6 DEF D
<1>7. \A i \in 1..n : \E x \in K : Cardinality(Under(R, K, x)) = i - 1
  <2> TAKE i \in 1..n
  <2>1. PICK x \in K : rank[x] = i
    BY <1>6
  <2>2. Cardinality(Under(R, K, x)) \in Int /\ Cardinality(Under(R, K, x)) + 1 = i
    BY <1>1, <1>2, <2>1
  <2>3. QED
    BY <2>2
<1>8. ASSUME NEW s \in [1..n -> K],
             \A i \in 1..n : Cardinality(Under(R, K, s[i])) = i - 1
      PROVE  Lists(s, K) /\ \A i, j \in 1..n : i < j => <<s[i], s[j]>> \in R
  <2>1. \A i, j \in 1..n : s[i] = s[j] => i = j
    <3> TAKE i, j \in 1..n
    <3>1. s[i] = s[j] => i - 1 = j - 1
      BY <1>8
    <3>2. QED
      BY <3>1
  <2>2. Lists(s, K)
    BY <1>8, <2>1, InjectiveLists DEF n
  <2>3. ASSUME NEW i \in 1..n, NEW j \in 1..n, i < j PROVE <<s[i], s[j]>> \in R
    <3>1. s[i] \in K /\ s[j] \in K /\ s[i] # s[j]
      BY <2>1, <2>3
    <3>2. <<s[j], s[i]>> \in R => j - 1 < i - 1
      BY <1>3, <1>8, <3>1
    <3>3. ~(j - 1 < i - 1)
      BY <2>3
    <3>4. QED
      BY <3>1, <3>2, <3>3 DEF Orders
  <2>4. QED
    BY <2>2, <2>3
<1>9. QED
  BY <1>7, <1>8 DEF n

(* sorted() of numbers.                                                    *)
LEMMA SortedNumbers ==
  ASSUME NEW S \in SUBSET Int, IsFiniteSet(S)
  PROVE  LET list == Sorted(S, LAMBDA i, j : i < j)
         IN  /\ Lists(list, S)
             /\ \A i, j \in 1..Cardinality(S) : i < j => list[i] < list[j]
             /\ \A i \in 1..Cardinality(S) : Cardinality({y \in S : y < list[i]}) = i - 1
<1> DEFINE R == {p \in S \X S : p[1] < p[2]}
           list == Sorted(S, LAMBDA i, j : i < j)
<1>1. \A x, y \in S : <<x, y>> \in R <=> x < y
  OBVIOUS
<1> HIDE DEF R
<1>2. Orders(R, S)
  BY <1>1 DEF Orders
<1>3. \A x \in S : {y \in S : y < x} = Under(R, S, x)
  BY <1>1 DEF Under
<1>4. \A i \in 1..Cardinality(S) : \E x \in S : Cardinality({y \in S : y < x}) = i - 1
  <2>1. \A i \in 1..Cardinality(S) : \E x \in S : Cardinality(Under(R, S, x)) = i - 1
    BY <1>2, SortedPlaces
  <2>2. QED
    BY <1>3, <2>1
<1>5. list = [i \in 1..Cardinality(S) |->
                CHOOSE x \in S : Cardinality({y \in S : y < x}) = i - 1]
  BY DEF Sorted
<1> HIDE DEF list
<1>6. \A i \in 1..Cardinality(S) :
        list[i] \in S /\ Cardinality({y \in S : y < list[i]}) = i - 1
  BY <1>4, <1>5
<1>7. list \in [1..Cardinality(S) -> S]
  BY <1>5, <1>6
<1>8. \A i \in 1..Cardinality(S) : Cardinality(Under(R, S, list[i])) = i - 1
  BY <1>3, <1>6
<1>9. Lists(list, S) /\ \A i, j \in 1..Cardinality(S) : i < j => <<list[i], list[j]>> \in R
  BY <1>2, <1>7, <1>8, SortedPlaces
<1>10. QED
  BY <1>1, <1>6, <1>7, <1>9 DEF list

(* The lexicographic order of keys of one length is an order.              *)
ByKeys(R, K, key, n) ==
  \A x, y \in K : <<x, y>> \in R <=>
    \E k \in 1..n : key[x][k] < key[y][k] /\ \A j \in 1..(k - 1) : key[x][j] = key[y][j]

(* No two elements of K have the same key.                                 *)
Distinct(K, key) == \A x, y \in K : key[x] = key[y] => x = y

(* Comparing distinct keys component by component orders the elements.     *)
LEMMA KeysOrder ==
  ASSUME NEW K, NEW n \in Nat, NEW key, key \in [K -> [1..n -> Int]],
         Distinct(K, key), NEW R, ByKeys(R, K, key, n)
  PROVE  Orders(R, K)
<1> DEFINE Less(x, y, k) == /\ key[x][k] < key[y][k]
                            /\ \A j \in 1..(k - 1) : key[x][j] = key[y][j]
<1>1. \A x \in K, k \in 1..n : key[x][k] \in Int
  OBVIOUS
<1>2. \A x, y \in K : <<x, y>> \in R <=> \E k \in 1..n : Less(x, y, k)
  BY DEF ByKeys
<1>3. \A x \in K : <<x, x>> \notin R
  BY <1>1, <1>2
<1>4. ASSUME NEW x \in K, NEW y \in K, NEW z \in K, <<x, y>> \in R, <<y, z>> \in R
      PROVE  <<x, z>> \in R
  <2>1. PICK k \in 1..n : Less(x, y, k)
    BY <1>2, <1>4
  <2>2. PICK l \in 1..n : Less(y, z, l)
    BY <1>2, <1>4
  <2> DEFINE m == IF k < l THEN k ELSE l
  <2>3. m \in 1..n /\ \A j \in 1..(m - 1) : j \in 1..(k - 1) /\ j \in 1..(l - 1)
    OBVIOUS
  <2>4. /\ key[x][m] < key[z][m]
    <3>1. CASE k < l
      <4>1. key[x][k] < key[y][k] /\ key[y][k] = key[z][k]
        BY <2>1, <2>2, <3>1
      <4>2. QED
        BY <1>1, <3>1, <4>1
    <3>2. CASE l < k
      <4>1. key[y][l] < key[z][l] /\ key[x][l] = key[y][l]
        BY <2>1, <2>2, <3>2
      <4>2. QED
        BY <1>1, <3>2, <4>1
    <3>3. CASE k = l
      <4>1. key[x][l] < key[y][l] /\ key[y][l] < key[z][l]
        BY <2>1, <2>2, <3>3
      <4>2. QED
        BY <1>1, <3>3, <4>1
    <3>4. QED
      BY <3>1, <3>2, <3>3
  <2> HIDE DEF m
  <2>5. \A j \in 1..(m - 1) : key[x][j] = key[z][j]
    BY <2>1, <2>2, <2>3
  <2>6. Less(x, z, m)
    BY <2>4, <2>5
  <2> HIDE DEF Less
  <2>7. QED
    BY <1>2, <2>3, <2>6
<1>5. ASSUME NEW x \in K, NEW y \in K, x # y PROVE <<x, y>> \in R \/ <<y, x>> \in R
  <2> DEFINE T == {k \in 1..n : key[x][k] # key[y][k]}
  <2>1. T # {}
    <3> SUFFICES ASSUME \A k \in 1..n : key[x][k] = key[y][k] PROVE FALSE
      OBVIOUS
    <3>1. key[x] = key[y]
      <4>1. key[x] \in [1..n -> Int] /\ key[y] \in [1..n -> Int]
        OBVIOUS
      <4> QED
        BY <4>1
    <3>2. QED
      BY <1>5, <3>1 DEF Distinct
  <2>2. T \in SUBSET Nat
    OBVIOUS
  <2>3. PICK k \in T : \A j \in T : k <= j
    <3> HIDE DEF T
    <3> QED
      BY <2>1, <2>2, LeastNatural
  <2>4. k \in 1..n /\ key[x][k] # key[y][k] /\ \A j \in 1..(k - 1) : key[x][j] = key[y][j]
    <3>1. \A j \in 1..(k - 1) : j \in 1..n /\ ~(k <= j)
      OBVIOUS
    <3>2. QED
      BY <2>3, <3>1
  <2>5. key[x][k] < key[y][k] \/ key[y][k] < key[x][k]
    BY <1>1, <2>4
  <2>6. Less(x, y, k) \/ Less(y, x, k)
    BY <2>4, <2>5
  <2> HIDE DEF Less
  <2>7. QED
    BY <1>2, <2>4, <2>6
<1>6. QED
  BY <1>3, <1>4, <1>5 DEF Orders

-----------------------------------------------------------------------------
(* Small facts about Max, Min, images, slices and sums.                     *)

(* The greater of two numbers.                                             *)
LEMMA MaxOfTwo ==
  ASSUME NEW a \in Int, NEW b \in Int
  PROVE  Max({a, b}) = IF a >= b THEN a ELSE b
<1>1. {a, b} \in SUBSET Int /\ {a, b} # {}
  OBVIOUS
<1> DEFINE N == IF a >= b THEN a ELSE b
<1>2. N \in Int /\ \A n \in {a, b} : n <= N
  OBVIOUS
<1>3. Max({a, b}) \in {a, b} /\ \A n \in {a, b} : n <= Max({a, b})
  <2> HIDE DEF N
  <2> QED
    BY <1>1, <1>2, MaxOfBounded
<1>4. QED
  BY <1>3

(* The lesser of two numbers.                                              *)
LEMMA MinOfTwo ==
  ASSUME NEW a \in Int, NEW b \in Int
  PROVE  Min({a, b}) = IF a <= b THEN a ELSE b
<1> DEFINE M == IF a <= b THEN a ELSE b
<1>1. M \in {a, b} /\ \A n \in {a, b} : M <= n
  OBVIOUS
<1> HIDE DEF M
<1>2. Min({a, b}) \in {a, b} /\ \A n \in {a, b} : Min({a, b}) <= n
  BY <1>1 DEF Min
<1>3. QED
  BY <1>2

(* The image of a finite set is finite and no larger.                      *)
LEMMA ImageIsFinite ==
  ASSUME NEW K, IsFiniteSet(K), NEW f, DOMAIN f = K, f = [x \in K |-> f[x]]
  PROVE  /\ IsFiniteSet({f[x] : x \in K})
         /\ Cardinality({f[x] : x \in K}) \in Nat
         /\ Cardinality({f[x] : x \in K}) <= Cardinality(K)
<1> DEFINE T == {f[x] : x \in K}
<1>1. f \in [K -> T] /\ \A t \in T : \E x \in K : f[x] = t
  OBVIOUS
<1> HIDE DEF T
<1>2. f \in Surjection(K, T)
  BY <1>1 DEF Surjection
<1>3. IsFiniteSet(T) /\ Cardinality(T) <= Cardinality(K)
  BY <1>2, FS_Surjection
<1>4. Cardinality(T) \in Nat
  BY <1>3, FS_CardinalityType
<1>5. QED
  BY <1>3, <1>4 DEF T

(* A larger set weighs more.                                               *)
LEMMA WeightGrows ==
  ASSUME NEW N \in Nat, NEW c \in [1..N -> Nat], NEW w, Weighs(w, c, N),
         NEW L \in SUBSET (1..N), NEW K \in SUBSET L
  PROVE  w[K] <= w[L] /\ w[K] \in Nat /\ w[L] \in Nat
<1>1. \A J \in SUBSET (1..N) : w[J] \in Nat
  BY DEF Weighs
<1> DEFINE Kn(n) == K \cup (L \cap 1..n)
           S == {n \in 0..N : w[K] <= w[Kn(n)]}
<1>2. 0 \in S
  <2>1. Kn(0) = K
    OBVIOUS
  <2>2. w[K] \in Nat /\ 0 \in 0..N
    BY <1>1
  <2> HIDE DEF Kn
  <2>3. QED
    BY <2>1, <2>2
<1>3. ASSUME NEW n \in 1..N, n - 1 \in S PROVE n \in S
  <2>1. Kn(n - 1) \in SUBSET (1..N) /\ Kn(n) \in SUBSET (1..N)
    OBVIOUS
  <2>2. 1..n = 1..(n - 1) \cup {n}
    OBVIOUS
  <2>3. CASE n \in L /\ n \notin K
    <3>1. Kn(n) = Kn(n - 1) \cup {n} /\ n \in (1..N) \ Kn(n - 1)
      BY <2>2, <2>3
    <3> HIDE DEF Kn
    <3>2. w[Kn(n)] = w[Kn(n - 1)] + c[n]
      BY <2>1, <3>1 DEF Weighs
    <3>3. w[K] <= w[Kn(n - 1)] /\ w[Kn(n - 1)] \in Nat /\ c[n] \in Nat /\ w[K] \in Nat
      BY <1>1, <1>3, <2>1
    <3>4. w[K] <= w[Kn(n)] /\ n \in 0..N
      BY <3>2, <3>3
    <3>5. QED
      BY <3>4
  <2>4. CASE n \notin L \/ n \in K
    <3>1. Kn(n) = Kn(n - 1) /\ n \in 0..N
      BY <2>2, <2>4
    <3> HIDE DEF Kn
    <3>2. QED
      BY <1>3, <3>1
  <2>5. QED
    BY <2>3, <2>4
<1> HIDE DEF S
<1>4. \A n \in 0..N : n \in S
  BY <1>2, <1>3, Induction
<1>5. N \in S
  BY <1>4
<1>6. Kn(N) = L
  OBVIOUS
<1> HIDE DEF Kn
<1>7. w[K] <= w[L]
  BY <1>5, <1>6 DEF S
<1>8. QED
  BY <1>1, <1>7

(* As many elements stay as there are places of elements that stay.        *)
LEMMA KeepCount ==
  ASSUME NEW E, NEW s \in Seq(E), NEW S
  PROVE  /\ IsFiniteSet({i \in DOMAIN s : s[i] \in S})
         /\ Cardinality({i \in DOMAIN s : s[i] \in S}) = Len(Keep(s, S))
<1> DEFINE r == Keep(s, S)
           T == {i \in DOMAIN s : s[i] \in S}
           D == 1..Len(r)
<1>1. r \in Seq(E) /\ DOMAIN s = 1..Len(s)
  BY KeepSublist
<1>2. PICK idx : Picks(r, idx, s, S, Len(s))
  BY KeepSublist
<1> HIDE DEF r
<1>3. Len(r) \in Nat
  BY <1>1
<1>4. idx \in [D -> T]
  BY <1>1, <1>2 DEF Picks
<1>5. \A i \in T : \E k \in D : idx[k] = i
  BY <1>1, <1>2 DEF Picks
<1>6. \A j, k \in D : idx[j] = idx[k] => j = k
  <2> SUFFICES ASSUME NEW j \in D, NEW k \in D, j < k PROVE idx[j] # idx[k]
    BY <1>3
  <2>1. idx[j] < idx[k] /\ idx[j] \in Int
    BY <1>2, <1>3 DEF Picks
  <2>2. QED
    BY <2>1
<1>7. IsFiniteSet(D) /\ Cardinality(D) = Len(r)
  <2>1. 1 \in Int /\ Len(r) \in Int
    BY <1>3
  <2>2. IsFiniteSet(1..Len(r)) /\ Cardinality(1..Len(r)) = IF 1 > Len(r) THEN 0 ELSE Len(r) - 1 + 1
    BY <2>1, FS_Interval
  <2>3. (IF 1 > Len(r) THEN 0 ELSE Len(r) - 1 + 1) = Len(r)
    BY <1>3
  <2>4. QED
    BY <2>2, <2>3
<1> HIDE DEF D, T
<1>8. idx \in Bijection(D, T)
  <2>1. DOMAIN idx = D
    BY <1>4
  <2>2. QED
    BY <1>4, <1>5, <1>6, <2>1 DEF Bijection, Injection, Surjection, IsInjective
<1>9. ExistsBijection(D, T)
  BY <1>8 DEF ExistsBijection
<1>10. IsFiniteSet(T) /\ Cardinality(T) = Cardinality(D)
  BY <1>7, <1>9, FS_Bijection
<1>11. QED
  BY <1>7, <1>10 DEF T, r

(* The elements of a sequence are no more than its length.                 *)
LEMMA ElementsAreFew ==
  ASSUME NEW n \in Nat, NEW f, DOMAIN f = 1..n, f = [i \in 1..n |-> f[i]]
  PROVE  IsFiniteSet(ToSet(f)) /\ Cardinality(ToSet(f)) \in Nat /\ Cardinality(ToSet(f)) <= n
<1>1. 1 \in Int /\ n \in Int
  OBVIOUS
<1>2. IsFiniteSet(1..n) /\ Cardinality(1..n) = IF 1 > n THEN 0 ELSE n - 1 + 1
  BY <1>1, FS_Interval
<1>3. (IF 1 > n THEN 0 ELSE n - 1 + 1) = n
  OBVIOUS
<1> DEFINE D == 1..n
<1>4. IsFiniteSet(D) /\ Cardinality(D) = n
  BY <1>2, <1>3
<1>5. ToSet(f) = {f[i] : i \in D}
  BY DEF ToSet
<1>6. DOMAIN f = D /\ f = [i \in D |-> f[i]]
  OBVIOUS
<1> HIDE DEF D
<1>7. QED
  BY <1>4, <1>5, <1>6, ImageIsFinite, SMTT(20)

(* First(n, s) is a prefix of s.                                           *)
LEMMA FirstIsPrefix ==
  ASSUME NEW E, NEW s \in Seq(E), NEW n \in Nat
  PROVE  /\ First(n, s) \in Seq(E) /\ Len(First(n, s)) \in Nat
         /\ Len(First(n, s)) = IF n <= Len(s) THEN n ELSE Len(s)
         /\ Len(First(n, s)) <= Len(s)
         /\ \A k \in 1..Len(First(n, s)) : First(n, s)[k] = s[k]
<1> DEFINE l == Min({n, Len(s)})
<1>1. Len(s) \in Nat
  OBVIOUS
<1>2. l \in Nat /\ l <= Len(s) /\ l = IF n <= Len(s) THEN n ELSE Len(s)
  BY <1>1, MinOfTwo
<1>3. First(n, s) = SubSeq(s, 1, l)
  BY DEF First
<1> HIDE DEF l
<1>4. /\ SubSeq(s, 1, l) \in Seq(E) /\ Len(SubSeq(s, 1, l)) = l
      /\ \A k \in 1..l : SubSeq(s, 1, l)[k] = s[k]
  BY <1>1, <1>2
<1>5. QED
  BY <1>2, <1>3, <1>4

(* Appending puts one element into the set of a sequence's elements.       *)
LEMMA AppendedElements ==
  ASSUME NEW S, NEW s \in Seq(S), NEW x \in S
  PROVE  ToSet(Append(s, x)) = ToSet(s) \cup {x}
<1> DEFINE t == Append(s, x)
<1>1. /\ Len(s) \in Nat /\ Len(t) = Len(s) + 1 /\ DOMAIN t = 1..(Len(s) + 1)
      /\ DOMAIN s = 1..Len(s) /\ t[Len(s) + 1] = x /\ \A k \in 1..Len(s) : t[k] = s[k]
  OBVIOUS
<1> HIDE DEF t
<1>2. ASSUME NEW y \in ToSet(t) PROVE y \in ToSet(s) \cup {x}
  <2>1. PICK k \in 1..(Len(s) + 1) : t[k] = y
    BY <1>1 DEF ToSet
  <2>2. k = Len(s) + 1 \/ k \in 1..Len(s)
    BY <1>1
  <2>3. QED
    BY <1>1, <2>1, <2>2 DEF ToSet
<1>3. ASSUME NEW y \in ToSet(s) PROVE y \in ToSet(t)
  <2>1. PICK k \in 1..Len(s) : s[k] = y
    BY <1>1 DEF ToSet
  <2>2. k \in 1..(Len(s) + 1) /\ t[k] = y
    BY <1>1, <2>1
  <2>3. QED
    BY <1>1, <2>2 DEF ToSet
<1>4. x \in ToSet(t)
  <2>1. Len(s) + 1 \in DOMAIN t
    BY <1>1
  <2>2. QED
    BY <1>1, <2>1 DEF ToSet
<1>5. QED
  BY <1>2, <1>3, <1>4 DEF t

-----------------------------------------------------------------------------
(* Flattened sequences.                                                    *)

(* f holds what the lists of ss are when they are joined one after the     *)
(* other.                                                                  *)
IsFlattening(f, E, ss) ==
  /\ f \in [0..Len(ss) -> Seq(E)]
  /\ f[0] = <<>> /\ f[Len(ss)] = FlattenSeq(ss)
  /\ \A k \in 1..Len(ss) : f[k] = f[k - 1] \o ss[k]

(* FlattenSeq as a table: what it has joined after each sequence.          *)
LEMMA FlattenSteps ==
  ASSUME NEW E, NEW ss \in Seq(Seq(E))
  PROVE  \E f : IsFlattening(f, E, ss)
<1> DEFINE N == Len(ss)
           R == Seq(E)
           base == <<>>
           Joined(r, k) == r \o ss[k]
           step == [p \in R \X (1..N) |-> Joined(p[1], p[2])]
           Table(g) == [i \in 1..N |-> IF i = 1 THEN ss[i] ELSE g[i - 1] \o ss[i]]
           Eq(g) == g = Table(g)
           g == CHOOSE f : Eq(f)
<1>1. N \in Nat /\ base \in R /\ \A k \in 1..N : ss[k] \in R
  OBVIOUS
<1>2. \A r \in R, k \in 1..N : Joined(r, k) \in R
  BY <1>1
<1>3. FlattenSeq(ss) = IF N = 0 THEN ss ELSE g[N]
  BY DEF FlattenSeq
<1>4. N = 0 => ss = base
  OBVIOUS
<1>5. \A s \in R : base \o s = s
  BY ConcatEmptySeq
<1>6. \A r \in R, k \in 1..N : Joined(r, k) = r \o ss[k]
  OBVIOUS
<1> HIDE DEF N, base, Joined
<1>7. IsStep(step, R, N) /\ \A r \in R, k \in 1..N : step[<<r, k>>] = Joined(r, k)
  <2> HIDE DEF R
  <2>1. QED
    BY <1>2 DEF IsStep
<1> HIDE DEF step, R
<1>8. PICK f : Recurses(f, R, base, N, step)
  BY <1>1, <1>7, SubsetRecursion
<1>9. PICK h : IsTable(h, R, base, N, step)
  BY <1>1, <1>7, <1>8, FoldTable
<1>10. h \in [0..N -> R] /\ h[0] = base /\ \A k \in 1..N : h[k] = h[k - 1] \o ss[k]
  <2>1. ASSUME NEW k \in 1..N PROVE h[k] = h[k - 1] \o ss[k]
    <3>1. h[k - 1] \in R
      BY <1>1, <1>9, k - 1 \in 0..N DEF IsTable
    <3>2. QED
      BY <1>6, <1>7, <1>9, <3>1 DEF IsTable
  <2>2. QED
    BY <1>9, <2>1 DEF IsTable
<1>11. N # 0 => h[N] = FlattenSeq(ss)
  <2> SUFFICES ASSUME N # 0 PROVE h[N] = FlattenSeq(ss)
    OBVIOUS
  <2> DEFINE u == [i \in 1..N |-> h[i]]
  <2>1. h[1] = ss[1]
    <3>1. 1 \in 1..N /\ 1 - 1 = 0
      BY <1>1
    <3>2. h[1] = h[0] \o ss[1] /\ ss[1] \in R
      BY <1>1, <1>10, <3>1
    <3>3. QED
      BY <1>5, <1>10, <3>2
  <2>2. \A i \in 1..N : i # 1 => i - 1 \in 1..N
    BY <1>1
  <2>3. Eq(u)
    BY <1>10, <2>1, <2>2
  <2> HIDE DEF u, Eq
  <2>4. Eq(g)
    BY <2>3
  <2> HIDE DEF g
  <2>5. \A i \in 1..N : g[i] = IF i = 1 THEN ss[i] ELSE g[i - 1] \o ss[i]
    BY <2>4 DEF Eq
  <2> DEFINE S == {k \in 0..N : k # 0 => g[k] = h[k]}
  <2>6. 0 \in S
    BY <1>1
  <2>7. \A k \in 1..N : k - 1 \in S => k \in S
    <3> TAKE k \in 1..N
    <3> HAVE k - 1 \in S
    <3>1. CASE k = 1
      BY <1>1, <2>1, <2>5, <3>1
    <3>2. CASE k # 1
      <4>1. g[k - 1] = h[k - 1] /\ k - 1 # 0
        BY <1>1, <3>2
      <4>2. g[k] = g[k - 1] \o ss[k] /\ h[k] = h[k - 1] \o ss[k]
        BY <1>10, <2>5, <3>2
      <4>3. k \in 0..N /\ g[k] = h[k]
        BY <1>1, <4>1, <4>2
      <4>4. QED
        BY <4>3
    <3>3. QED
      BY <3>1, <3>2
  <2> HIDE DEF S
  <2>8. \A k \in 0..N : k \in S
    BY <1>1, <2>6, <2>7, Induction
  <2>9. N \in 0..N /\ N \in S
    BY <1>1, <2>8
  <2>10. QED
    BY <1>3, <2>9 DEF S
<1>12. h[N] = FlattenSeq(ss)
  <2>1. CASE N = 0
    BY <1>3, <1>4, <1>10, <2>1
  <2>2. QED
    BY <1>11, <2>1
<1>13. IsFlattening(h, E, ss)
  BY <1>10, <1>12 DEF IsFlattening, R, N, base
<1>14. QED
  BY <1>13

(* Two lists that begin with the same sequences are joined alike so far.   *)
LEMMA FlatteningsAgree ==
  ASSUME NEW E, NEW ss \in Seq(Seq(E)), NEW tt \in Seq(Seq(E)),
         NEW f, IsFlattening(f, E, ss), NEW g, IsFlattening(g, E, tt),
         NEW n \in Nat, n <= Len(ss), n <= Len(tt), \A k \in 1..n : ss[k] = tt[k]
  PROVE  f[n] = g[n]
<1> DEFINE S == {k \in 0..n : f[k] = g[k]}
<1>1. Len(ss) \in Nat /\ Len(tt) \in Nat
  OBVIOUS
<1>2. 0 \in S
  BY DEF IsFlattening
<1>3. ASSUME NEW k \in 1..n, k - 1 \in S PROVE k \in S
  <2>1. k \in 1..Len(ss) /\ k \in 1..Len(tt) /\ f[k - 1] = g[k - 1] /\ k \in 0..n
    BY <1>1, <1>3
  <2>2. QED
    BY <2>1 DEF IsFlattening
<1> HIDE DEF S
<1>4. \A k \in 0..n : k \in S
  BY <1>2, <1>3, Induction
<1>5. QED
  BY <1>4 DEF S

(* One more sequence is joined at the end.                                 *)
LEMMA FlattenAppend ==
  ASSUME NEW E, NEW ss \in Seq(Seq(E)), NEW s \in Seq(E)
  PROVE  /\ FlattenSeq(ss) \in Seq(E)
         /\ FlattenSeq(Append(ss, s)) = FlattenSeq(ss) \o s
<1> DEFINE tt == Append(ss, s)
           n == Len(ss)
<1>1. /\ tt \in Seq(Seq(E)) /\ n \in Nat /\ Len(tt) = n + 1 /\ tt[n + 1] = s
      /\ \A k \in 1..n : tt[k] = ss[k]
  BY AppendProperties
<1> HIDE DEF tt
<1>2. PICK f : IsFlattening(f, E, ss)
  BY FlattenSteps
<1>3. PICK g : IsFlattening(g, E, tt)
  BY <1>1, FlattenSteps
<1>4. f[n] = g[n]
  <2>1. n <= Len(ss) /\ n <= Len(tt) /\ \A k \in 1..n : ss[k] = tt[k]
    BY <1>1
  <2> HIDE DEF n
  <2>2. QED
    BY <1>1, <1>2, <1>3, <2>1, FlatteningsAgree
<1>5. n + 1 \in 1..Len(tt) /\ (n + 1) - 1 = n
  BY <1>1
<1>6. g[n + 1] = g[n] \o s
  BY <1>1, <1>3, <1>5 DEF IsFlattening
<1>7. f[n] = FlattenSeq(ss) /\ f[n] \in Seq(E) /\ g[n + 1] = FlattenSeq(tt)
  <2>1. n \in 0..n
    BY <1>1
  <2>2. f[n] = FlattenSeq(ss) /\ f[n] \in Seq(E)
    BY <1>2, <2>1 DEF IsFlattening
  <2>3. g[n + 1] = FlattenSeq(tt)
    BY <1>1, <1>3 DEF IsFlattening
  <2>4. QED
    BY <2>2, <2>3
<1>8. QED
  BY <1>4, <1>6, <1>7 DEF tt

(* What is joined after n sequences is the first n of them joined.         *)
LEMMA FlattenPrefix ==
  ASSUME NEW E, NEW ss \in Seq(Seq(E)), NEW f, IsFlattening(f, E, ss), NEW n \in 0..Len(ss)
  PROVE  f[n] = FlattenSeq(SubSeq(ss, 1, n))
<1> DEFINE tt == SubSeq(ss, 1, n)
<1>1. tt \in Seq(Seq(E)) /\ Len(tt) = n /\ n \in Nat /\ \A k \in 1..n : tt[k] = ss[k]
  OBVIOUS
<1> HIDE DEF tt
<1>2. PICK g : IsFlattening(g, E, tt)
  BY <1>1, FlattenSteps
<1>3. f[n] = g[n]
  BY <1>1, <1>2, FlatteningsAgree
<1>4. QED
  BY <1>1, <1>2, <1>3 DEF IsFlattening, tt

-----------------------------------------------------------------------------
(* Sequences grow by appending: a set that has the empty one and with any  *)
(* one its continuations has them all.                                     *)
LEMMA SequenceInduction ==
  ASSUME NEW E, NEW T, <<>> \in T,
         \A r \in Seq(E), x \in E : r \in T => Append(r, x) \in T
  PROVE  \A s \in Seq(E) : s \in T
<1> TAKE s \in Seq(E)
<1> DEFINE N == Len(s)
           head(k) == SubSeq(s, 1, k)
           S == {k \in 0..N : head(k) \in T}
<1>1. N \in Nat
  OBVIOUS
<1>2. head(0) \in T /\ head(N) = s
  <2>1. head(0) = <<>>
    OBVIOUS
  <2>2. head(N) = s
    OBVIOUS
  <2> HIDE DEF head
  <2>3. QED
    BY <2>1, <2>2
<1>3. ASSUME NEW k \in 1..N
      PROVE  head(k - 1) \in Seq(E) /\ s[k] \in E /\ head(k) = Append(head(k - 1), s[k])
  OBVIOUS
<1> HIDE DEF N, head
<1>4. 0 \in S
  BY <1>1, <1>2
<1>5. \A k \in 1..N : k - 1 \in S => k \in S
  <2> TAKE k \in 1..N
  <2>1. k - 1 \in 0..N /\ k \in 0..N
    BY <1>1
  <2> HAVE head(k - 1) \in T
  <2>2. head(k) \in T
    BY <1>3
  <2>3. QED
    BY <2>1, <2>2
<1> HIDE DEF S
<1>6. \A k \in 0..N : k \in S
  BY <1>1, <1>4, <1>5, Induction
<1>7. N \in S
  BY <1>1, <1>6
<1>8. QED
  BY <1>2, <1>7 DEF S

(* The comprehension of nothing,                                           *)
LEMMA KeepNothing ==
  ASSUME NEW S PROVE Keep(<<>>, S) = <<>>
<1> DEFINE E == {}
<1>1. <<>> \in Seq(E) /\ Len(<<>>) = 0
  OBVIOUS
<1>2. PICK h : KeepTable(h, E, <<>>, S)
  BY <1>1, KeepSteps
<1>3. QED
  BY <1>1, <1>2 DEF KeepTable

(* ... of one more element.                                                *)
LEMMA KeepAppend ==
  ASSUME NEW E, NEW s \in Seq(E), NEW x \in E, NEW S
  PROVE  Keep(Append(s, x), S) = IF x \in S THEN Append(Keep(s, S), x) ELSE Keep(s, S)
<1> DEFINE t == Append(s, x)
           n == Len(s)
<1>1. /\ t \in Seq(E) /\ n \in Nat /\ Len(t) = n + 1 /\ t[n + 1] = x
      /\ \A k \in 1..n : t[k] = s[k]
  BY AppendProperties
<1> HIDE DEF t
<1>2. PICK f : KeepTable(f, E, s, S)
  BY KeepSteps
<1>3. PICK g : KeepTable(g, E, t, S)
  BY <1>1, KeepSteps
<1> DEFINE G == {k \in 0..n : f[k] = g[k]}
<1>4. 0 \in G
  BY <1>1, <1>2, <1>3 DEF KeepTable
<1>5. ASSUME NEW k \in 1..n, k - 1 \in G PROVE k \in G
  <2>1. k \in 1..Len(s) /\ k \in 1..Len(t) /\ f[k - 1] = g[k - 1] /\ k \in 0..n /\ t[k] = s[k]
    BY <1>1, <1>5
  <2>2. QED
    BY <1>2, <1>3, <2>1 DEF KeepTable
<1> HIDE DEF G
<1>6. \A k \in 0..n : k \in G
  BY <1>1, <1>4, <1>5, Induction
<1>7. f[n] = g[n]
  BY <1>1, <1>6 DEF G
<1>8. f[n] = Keep(s, S) /\ g[n + 1] = Keep(t, S)
  BY <1>1, <1>2, <1>3 DEF KeepTable
<1>9. n + 1 \in 1..Len(t) /\ (n + 1) - 1 = n
  BY <1>1
<1>10. g[n + 1] = IF x \in S THEN Append(g[n], x) ELSE g[n]
  BY <1>1, <1>3, <1>9 DEF KeepTable
<1>11. QED
  BY <1>7, <1>8, <1>10 DEF t

(* The comprehension of two lists joined.                                  *)
LEMMA KeepConcat ==
  ASSUME NEW E, NEW a \in Seq(E), NEW b \in Seq(E), NEW S
  PROVE  Keep(a \o b, S) = Keep(a, S) \o Keep(b, S)
<1> DEFINE T == {r \in Seq(E) : Keep(a \o r, S) = Keep(a, S) \o Keep(r, S)}
<1>1. \A r \in Seq(E) : Keep(r, S) \in Seq(E)
  BY KeepSublist
<1>2. <<>> \in T
  <2>1. a \o <<>> = a /\ Keep(a, S) \o <<>> = Keep(a, S)
    BY <1>1, ConcatEmptySeq
  <2>2. Keep(<<>>, S) = <<>> /\ <<>> \in Seq(E)
    BY KeepNothing
  <2>3. QED
    BY <2>1, <2>2
<1>3. ASSUME NEW r \in Seq(E), NEW x \in E, r \in T
      PROVE  Append(r, x) \in T
  <2> DEFINE A == Keep(a, S)
             R == Keep(r, S)
  <2>1. a \o Append(r, x) = Append(a \o r, x) /\ a \o r \in Seq(E)
    OBVIOUS
  <2>2. A \in Seq(E) /\ R \in Seq(E)
    BY <1>1
  <2>3. Keep(a \o r, S) = A \o R
    BY <1>3
  <2>4. /\ Keep(Append(a \o r, x), S) = IF x \in S THEN Append(A \o R, x) ELSE A \o R
        /\ Keep(Append(r, x), S) = IF x \in S THEN Append(R, x) ELSE R
    <3>1. Keep(Append(a \o r, x), S) =
            IF x \in S THEN Append(Keep(a \o r, S), x) ELSE Keep(a \o r, S)
      BY <2>1, KeepAppend
    <3>2. Keep(Append(r, x), S) = IF x \in S THEN Append(R, x) ELSE R
      BY KeepAppend
    <3>3. QED
      BY <2>3, <3>1, <3>2
  <2> HIDE DEF A, R
  <2>5. A \o Append(R, x) = Append(A \o R, x)
    BY <2>2
  <2>6. Keep(a \o Append(r, x), S) = A \o Keep(Append(r, x), S)
    BY <2>1, <2>4, <2>5
  <2>7. QED
    BY <2>6 DEF A
<1> HIDE DEF T
<1>4. \A r \in Seq(E) : r \in T
  BY <1>2, <1>3, SequenceInduction
<1>5. QED
  BY <1>4 DEF T

(* A comprehension depends on S only as far as s goes.                     *)
LEMMA KeepAgrees ==
  ASSUME NEW E, NEW s \in Seq(E), NEW A, NEW B, \A x \in ToSet(s) : x \in A <=> x \in B
  PROVE  Keep(s, A) = Keep(s, B)
<1> DEFINE T == {r \in Seq(E) : (\A x \in ToSet(r) : x \in A <=> x \in B)
                                => Keep(r, A) = Keep(r, B)}
<1>1. <<>> \in T
  BY KeepNothing
<1>2. ASSUME NEW r \in Seq(E), NEW x \in E, r \in T
      PROVE  Append(r, x) \in T
  <2> SUFFICES ASSUME \A y \in ToSet(Append(r, x)) : y \in A <=> y \in B
      PROVE  Keep(Append(r, x), A) = Keep(Append(r, x), B)
    OBVIOUS
  <2>1. ToSet(Append(r, x)) = ToSet(r) \cup {x}
    BY AppendedElements
  <2>2. (x \in A <=> x \in B) /\ Keep(r, A) = Keep(r, B)
    BY <1>2, <2>1
  <2>3. Keep(Append(r, x), A) = IF x \in A THEN Append(Keep(r, A), x) ELSE Keep(r, A)
    BY KeepAppend
  <2>4. Keep(Append(r, x), B) = IF x \in B THEN Append(Keep(r, B), x) ELSE Keep(r, B)
    BY KeepAppend
  <2>5. QED
    BY <2>2, <2>3, <2>4
<1> HIDE DEF T
<1>3. \A r \in Seq(E) : r \in T
  BY <1>1, <1>2, SequenceInduction
<1>4. QED
  BY <1>3 DEF T

(* A sequence that is longer by y.                                         *)
LEMMA LongerByOne ==
  ASSUME NEW E, NEW a \in Seq(E), NEW c \in Seq(E), NEW n \in Nat, Len(a) = n, Len(c) = n + 1,
         NEW y, c[n + 1] = y, \A k \in 1..n : c[k] = a[k]
  PROVE  c = Append(a, y)
<1>1. n + 1 \in 1..Len(c) /\ y \in E
  <2>1. n + 1 \in 1..Len(c)
    OBVIOUS
  <2>2. QED
    BY <2>1
<1> DEFINE d == Append(a, y)
<1>2. d \in Seq(E) /\ Len(d) = n + 1 /\ d[n + 1] = y /\ \A k \in 1..n : d[k] = a[k]
  <2>1. /\ Append(a, y) \in Seq(E) /\ Len(Append(a, y)) = Len(a) + 1
        /\ Append(a, y)[Len(a) + 1] = y
        /\ \A k \in 1..Len(a) : Append(a, y)[k] = a[k]
    BY <1>1, AppendProperties
  <2>2. QED
    BY <2>1
<1> HIDE DEF d
<1>3. ASSUME NEW k \in 1..(n + 1) PROVE c[k] = d[k]
  <2>1. CASE k = n + 1
    BY <1>2, <2>1
  <2>2. CASE k # n + 1
    <3>1. k \in 1..n
      BY <2>2
    <3>2. QED
      BY <1>2, <3>1
  <2>3. QED
    BY <2>1, <2>2
<1>4. c = d
  BY <1>2, <1>3, SeqEqual
<1>5. QED
  BY <1>4 DEF d

(* Joining three sequences.                                                *)
LEMMA JoinedTwice ==
  ASSUME NEW E, NEW p, NEW q, NEW t, p \in Seq(E), q \in Seq(E), t \in Seq(E)
  PROVE  p \o (q \o t) = (p \o q) \o t
  BY ConcatAssociative

(* Joining nothing, and joining two lists of sequences.                    *)
LEMMA FlattenConcat ==
  ASSUME NEW E, NEW a \in Seq(Seq(E)), NEW b \in Seq(Seq(E))
  PROVE  /\ FlattenSeq(<<>>) = <<>>
         /\ FlattenSeq(a \o b) = FlattenSeq(a) \o FlattenSeq(b)
<1> DEFINE T == {r \in Seq(Seq(E)) : FlattenSeq(a \o r) = FlattenSeq(a) \o FlattenSeq(r)}
<1>1. \A r \in Seq(Seq(E)) : FlattenSeq(r) \in Seq(E)
  <2>1. <<>> \in Seq(E)
    OBVIOUS
  <2>2. QED
    BY <2>1, FlattenAppend
<1>2. FlattenSeq(<<>>) = <<>>
  <2>1. <<>> \in Seq(Seq(E)) /\ Len(<<>>) = 0
    OBVIOUS
  <2>2. PICK f : IsFlattening(f, E, <<>>)
    BY <2>1, FlattenSteps
  <2>3. QED
    BY <2>1, <2>2 DEF IsFlattening
<1>3. <<>> \in T
  <2>1. a \o <<>> = a
    BY ConcatEmptySeq
  <2>2. FlattenSeq(a) \o <<>> = FlattenSeq(a)
    BY <1>1, ConcatEmptySeq
  <2>3. <<>> \in Seq(Seq(E))
    OBVIOUS
  <2>4. QED
    BY <1>2, <2>1, <2>2, <2>3
<1>4. ASSUME NEW r \in Seq(Seq(E)), NEW x \in Seq(E), r \in T
      PROVE  Append(r, x) \in T
  <2> DEFINE A == FlattenSeq(a)
             R == FlattenSeq(r)
  <2>1. a \o Append(r, x) = Append(a \o r, x) /\ a \o r \in Seq(Seq(E))
        /\ Append(r, x) \in Seq(Seq(E))
    <3> DEFINE F == Seq(E)
    <3>1. r \in Seq(F) /\ a \in Seq(F) /\ x \in F
      OBVIOUS
    <3> HIDE DEF F
    <3>2. a \o Append(r, x) = Append(a \o r, x) /\ a \o r \in Seq(F) /\ Append(r, x) \in Seq(F)
      BY <3>1
    <3>3. QED
      BY <3>2 DEF F
  <2>2. A \in Seq(E) /\ R \in Seq(E)
    BY <1>1
  <2>3. FlattenSeq(a \o r) = A \o R
    BY <1>4
  <2>4. FlattenSeq(Append(a \o r, x)) = (A \o R) \o x /\ FlattenSeq(Append(r, x)) = R \o x
    BY <2>1, <2>3, FlattenAppend
  <2> HIDE DEF A, R
  <2>5. A \o (R \o x) = (A \o R) \o x
    <3>1. x \in Seq(E)
      OBVIOUS
    <3>2. QED
      BY <2>2, <3>1, JoinedTwice
  <2>6. FlattenSeq(a \o Append(r, x)) = A \o FlattenSeq(Append(r, x))
    BY <2>1, <2>4, <2>5
  <2>7. QED
    BY <2>1, <2>6 DEF A
<1> HIDE DEF T
<1>5. \A r \in Seq(Seq(E)) : r \in T
  BY <1>3, <1>4, SequenceInduction
<1>6. QED
  BY <1>2, <1>5 DEF T

(* Empty sequences may be dropped before joining.                          *)
LEMMA FlattenNonEmpty ==
  ASSUME NEW E, NEW ss \in Seq(Seq(E)), NEW U, \A x \in ToSet(ss) : x \notin U => x = <<>>
  PROVE  FlattenSeq(Keep(ss, U)) = FlattenSeq(ss)
<1> DEFINE T == {r \in Seq(Seq(E)) : (\A x \in ToSet(r) : x \notin U => x = <<>>)
                                     => FlattenSeq(Keep(r, U)) = FlattenSeq(r)}
<1>1. <<>> \in T
  BY KeepNothing
<1>2. ASSUME NEW r \in Seq(Seq(E)), NEW x \in Seq(E), r \in T
      PROVE  Append(r, x) \in T
  <2>1. Append(r, x) \in Seq(Seq(E))
    BY AppendProperties
  <2> SUFFICES ASSUME \A y \in ToSet(Append(r, x)) : y \notin U => y = <<>>
      PROVE  FlattenSeq(Keep(Append(r, x), U)) = FlattenSeq(Append(r, x))
    BY <2>1
  <2>2. ToSet(Append(r, x)) = ToSet(r) \cup {x}
    BY AppendedElements
  <2>3. FlattenSeq(Keep(r, U)) = FlattenSeq(r) /\ (x \notin U => x = <<>>)
    BY <1>2, <2>2
  <2>4. /\ Keep(Append(r, x), U) = IF x \in U THEN Append(Keep(r, U), x) ELSE Keep(r, U)
        /\ Keep(r, U) \in Seq(Seq(E))
    BY KeepAppend, KeepSublist
  <2>5. FlattenSeq(Append(r, x)) = FlattenSeq(r) \o x /\ FlattenSeq(r) \in Seq(E)
    BY FlattenAppend
  <2>6. CASE x \in U
    <3>1. FlattenSeq(Append(Keep(r, U), x)) = FlattenSeq(Keep(r, U)) \o x
      BY <2>4, FlattenAppend
    <3>2. QED
      BY <2>3, <2>4, <2>5, <2>6, <3>1
  <2>7. CASE x \notin U
    <3>1. FlattenSeq(r) \o x = FlattenSeq(r)
      BY <2>3, <2>5, <2>7, ConcatEmptySeq
    <3>2. QED
      BY <2>3, <2>4, <2>5, <2>7, <3>1
  <2>8. QED
    BY <2>6, <2>7
<1> HIDE DEF T
<1>3. \A r \in Seq(Seq(E)) : r \in T
  BY <1>1, <1>2, SequenceInduction
<1>4. QED
  BY <1>3 DEF T

(* Keeping elements of a joined list is keeping them in every part.        *)
LEMMA KeepFlatten ==
  ASSUME NEW E, NEW ss \in Seq(Seq(E)), NEW tt \in Seq(Seq(E)), NEW S,
         Len(tt) = Len(ss), \A k \in 1..Len(ss) : tt[k] = Keep(ss[k], S)
  PROVE  Keep(FlattenSeq(ss), S) = FlattenSeq(tt)
<1> DEFINE N == Len(ss)
           F == Seq(E)
<1>1. N \in Nat /\ \A k \in 1..N : ss[k] \in F /\ tt[k] \in F
  <2>1. ss \in Seq(F) /\ tt \in Seq(F) /\ Len(tt) = N
    OBVIOUS
  <2> HIDE DEF F
  <2>2. QED
    BY <2>1
<1>2. PICK f : IsFlattening(f, E, ss)
  BY FlattenSteps
<1>3. PICK g : IsFlattening(g, E, tt)
  BY FlattenSteps
<1>4. /\ f \in [0..N -> F] /\ f[0] = <<>> /\ f[N] = FlattenSeq(ss)
      /\ \A k \in 1..N : f[k] = f[k - 1] \o ss[k]
  BY <1>2 DEF IsFlattening
<1>5. /\ g \in [0..N -> F] /\ g[0] = <<>> /\ g[N] = FlattenSeq(tt)
      /\ \A k \in 1..N : g[k] = g[k - 1] \o tt[k]
  BY <1>3 DEF IsFlattening
<1>6. \A k \in 1..N : tt[k] = Keep(ss[k], S)
  OBVIOUS
<1>7. \A p, q \in F : Keep(p \o q, S) = Keep(p, S) \o Keep(q, S)
  BY KeepConcat
<1> DEFINE G == {k \in 0..N : Keep(f[k], S) = g[k]}
<1> HIDE DEF N, F
<1>8. 0 \in G
  BY <1>1, <1>4, <1>5, KeepNothing
<1>9. ASSUME NEW k \in 1..N, k - 1 \in G PROVE k \in G
  <2>1. k - 1 \in 0..N /\ k \in 0..N
    BY <1>1
  <2>2. f[k - 1] \in F /\ ss[k] \in F
    BY <1>1, <1>4, <2>1
  <2>3. Keep(f[k], S) = Keep(f[k - 1], S) \o Keep(ss[k], S)
    BY <1>4, <1>7, <2>2
  <2>4. Keep(f[k], S) = g[k]
    BY <1>5, <1>6, <1>9, <2>3
  <2>5. QED
    BY <2>1, <2>4
<1> HIDE DEF G
<1>10. \A k \in 0..N : k \in G
  BY <1>1, <1>8, <1>9, Induction
<1>11. N \in G
  BY <1>1, <1>10
<1>12. QED
  BY <1>4, <1>5, <1>11 DEF G

(* Joining lists of sequences and then their sequences is the same as      *)
(* joining the sequences of each list first.                               *)
LEMMA FlattenLevels ==
  ASSUME NEW E, NEW sss \in Seq(Seq(Seq(E))), NEW ss \in Seq(Seq(E)),
         Len(ss) = Len(sss), \A k \in 1..Len(sss) : ss[k] = FlattenSeq(sss[k])
  PROVE  /\ FlattenSeq(sss) \in Seq(Seq(E))
         /\ FlattenSeq(FlattenSeq(sss)) = FlattenSeq(ss)
<1> DEFINE N == Len(sss)
           F == Seq(Seq(E))
<1>1. N \in Nat /\ \A k \in 1..N : sss[k] \in F
  <2>1. sss \in Seq(F)
    OBVIOUS
  <2> HIDE DEF F
  <2>2. QED
    BY <2>1
<1>2. PICK f : IsFlattening(f, Seq(E), sss)
  BY FlattenSteps
<1>3. PICK g : IsFlattening(g, E, ss)
  BY FlattenSteps
<1>4. /\ f \in [0..N -> F] /\ f[0] = <<>> /\ f[N] = FlattenSeq(sss)
      /\ \A k \in 1..N : f[k] = f[k - 1] \o sss[k]
  BY <1>2 DEF IsFlattening
<1>5. /\ g[0] = <<>> /\ g[N] = FlattenSeq(ss)
      /\ \A k \in 1..N : g[k] = g[k - 1] \o ss[k]
  BY <1>3 DEF IsFlattening
<1>6. \A k \in 1..N : ss[k] = FlattenSeq(sss[k])
  OBVIOUS
<1>7. /\ FlattenSeq(<<>>) = <<>>
      /\ \A p, q \in F : FlattenSeq(p \o q) = FlattenSeq(p) \o FlattenSeq(q)
  <2>1. <<>> \in F
    OBVIOUS
  <2>2. QED
    BY <2>1, FlattenConcat
<1> DEFINE G == {k \in 0..N : FlattenSeq(f[k]) = g[k]}
<1> HIDE DEF N, F
<1>8. 0 \in G
  BY <1>1, <1>4, <1>5, <1>7
<1>9. ASSUME NEW k \in 1..N, k - 1 \in G PROVE k \in G
  <2>1. k - 1 \in 0..N /\ k \in 0..N
    BY <1>1
  <2>2. f[k - 1] \in F /\ sss[k] \in F
    BY <1>1, <1>4, <2>1
  <2>3. FlattenSeq(f[k]) = FlattenSeq(f[k - 1]) \o FlattenSeq(sss[k])
    BY <1>4, <1>7, <2>2
  <2>4. FlattenSeq(f[k]) = g[k]
    BY <1>5, <1>6, <1>9, <2>3
  <2>5. QED
    BY <2>1, <2>4
<1> HIDE DEF G
<1>10. \A k \in 0..N : k \in G
  BY <1>1, <1>8, <1>9, Induction
<1>11. N \in G /\ f[N] \in F
  BY <1>1, <1>4, <1>10
<1>12. QED
  BY <1>4, <1>5, <1>11 DEF G, F

(* The subsets a fold from the right goes through.                         *)
LEMMA UpperIntervals ==
  ASSUME NEW N \in Nat, NEW k \in 1..N
  PROVE  /\ k..N \in SUBSET (1..N) /\ k..N # {}
         /\ Min(k..N) = k
         /\ (k..N) \ {k} = (k + 1)..N
<1>1. k..N \in SUBSET Nat /\ k \in k..N
  OBVIOUS
<1>2. Min(k..N) \in k..N /\ Min(k..N) <= k
  BY <1>1, MinOfNaturals
<1>3. Min(k..N) = k
  BY <1>2
<1>4. \A n : n \in k..N => n \in 1..N
  OBVIOUS
<1>5. \A n : n \in (k..N) \ {k} <=> n \in (k + 1)..N
  OBVIOUS
<1>6. QED
  BY <1>1, <1>3, <1>4, <1>5

(* The positions as they are counted from the other end.                   *)
CountedBack(N, t) == {N + 1 - i : i \in t}

(* The least of some positions is the greatest when they are counted from  *)
(* the other end, and what remains without it is the same.                 *)
LEMMA MirroredLeast ==
  ASSUME NEW N \in Nat, NEW t \in SUBSET (1..N), t # {}
  PROVE  /\ Min(t) \in 1..N /\ CountedBack(N, t) \in SUBSET (1..N) /\ CountedBack(N, t) # {}
         /\ Max(CountedBack(N, t)) = N + 1 - Min(t)
         /\ CountedBack(N, t) \ {Max(CountedBack(N, t))} = CountedBack(N, t \ {Min(t)})
<1>1. t \in SUBSET Nat
  OBVIOUS
<1>2. Min(t) \in t /\ \A i \in t : Min(t) <= i
  BY <1>1, MinOfNaturals
<1>3. CountedBack(N, t) \in SUBSET (1..N) /\ CountedBack(N, t) # {}
  <2>1. \A i \in t : N + 1 - i \in 1..N
    OBVIOUS
  <2>2. QED
    BY <2>1 DEF CountedBack
<1> DEFINE m == CountedBack(N, t)
<1>4. Max(m) \in m /\ Max(m) \in 1..N /\ \A i \in m : i <= Max(m)
  BY <1>3, MaxOfInterval
<1> DEFINE a == Min(t)
<1> HIDE DEF a
<1>5. a \in t /\ a \in 1..N /\ \A i \in t : a <= i /\ i \in 1..N
  BY <1>2 DEF a
<1>6. N + 1 - a \in m /\ \A i \in m : i <= N + 1 - a
  <2>1. \A i \in t : N + 1 - i <= N + 1 - a
    BY <1>5
  <2>2. QED
    BY <1>5, <2>1 DEF CountedBack
<1>7. Max(m) = N + 1 - a
  <2>1. N \in Int /\ Max(m) \in Int /\ N + 1 - a \in Int
    BY <1>4, <1>5
  <2> HIDE DEF m
  <2>2. Max(m) <= N + 1 - a /\ N + 1 - a <= Max(m)
    BY <1>4, <1>6
  <2>3. QED
    BY <2>1, <2>2
<1>8. m \ {N + 1 - a} = CountedBack(N, t \ {a})
  <2>1. \A i \in t : N + 1 - i = N + 1 - a <=> i = a
    BY <1>5
  <2>2. QED
    BY <2>1 DEF CountedBack
<1>9. QED
  BY <1>3, <1>7, <1>8, <1>5 DEF a

(* The recursion of a fold from the right, and its results before each     *)
(* position.                                                               *)
RecursesBack(f, R, base, N, step) ==
  /\ f[{}] = base
  /\ \A s \in SUBSET (1..N) :
       s # {} /\ f[s \ {Min(s)}] \in R
         => f[s] = step[<<f[s \ {Min(s)}], Min(s)>>]

(* h holds the states of the loop that goes through 1..N from the right.   *)
IsTableBack(h, R, base, N, step) ==
  /\ h \in [1..(N + 1) -> R]
  /\ h[N + 1] = base
  /\ \A k \in 1..N : h[k] = step[<<h[k + 1], k>>]

(* A function on the subsets of 1..N may as well be defined by its value   *)
(* on s from its value on s without the least element.                     *)
LEMMA SubsetRecursionBack ==
  ASSUME NEW R, NEW base \in R, NEW N \in Nat, NEW step, IsStep(step, R, N)
  PROVE  \E f : f \in [SUBSET (1..N) -> R] /\ RecursesBack(f, R, base, N, step)
<1> DEFINE turned == [p \in R \X (1..N) |-> step[<<p[1], N + 1 - p[2]>>]]
<1>1. /\ IsStep(turned, R, N)
      /\ \A r \in R, k \in 1..N : turned[<<r, k>>] = step[<<r, N + 1 - k>>]
  <2>1. \A k \in 1..N : N + 1 - k \in 1..N
    OBVIOUS
  <2>2. \A r \in R, k \in 1..N : step[<<r, N + 1 - k>>] \in R
    BY <2>1 DEF IsStep
  <2>3. QED
    BY <2>2 DEF IsStep
<1> HIDE DEF turned
<1>2. PICK g : g \in [SUBSET (1..N) -> R] /\ Recurses(g, R, base, N, turned)
  BY <1>1, SubsetRecursion
<1> DEFINE f == [s \in SUBSET (1..N) |-> g[CountedBack(N, s)]]
<1>3. \A s \in SUBSET (1..N) : CountedBack(N, s) \in SUBSET (1..N)
  BY DEF CountedBack
<1>4. f \in [SUBSET (1..N) -> R]
  BY <1>2, <1>3
<1>5. f[{}] = base
  <2>1. CountedBack(N, {}) = {}
    BY DEF CountedBack
  <2>2. QED
    BY <1>2, <2>1 DEF Recurses
<1>6. ASSUME NEW s \in SUBSET (1..N), s # {}
      PROVE  f[s] = step[<<f[s \ {Min(s)}], Min(s)>>]
  <2> DEFINE m == CountedBack(N, s)
             least == Min(s)
             rest == s \ {least}
  <2>1. /\ least \in 1..N /\ m \in SUBSET (1..N) /\ m # {}
        /\ Max(m) = N + 1 - least /\ m \ {Max(m)} = CountedBack(N, rest)
    BY <1>6, MirroredLeast
  <2>2. rest \in SUBSET (1..N)
    OBVIOUS
  <2> HIDE DEF m, least, rest
  <2>3. g[CountedBack(N, rest)] \in R /\ f[rest] = g[CountedBack(N, rest)] /\ f[s] = g[m]
    BY <1>2, <1>3, <2>2 DEF m
  <2>4. g[m] = turned[<<g[CountedBack(N, rest)], N + 1 - least>>]
    BY <1>2, <2>1, <2>3 DEF Recurses
  <2>5. N + 1 - least \in 1..N /\ N + 1 - (N + 1 - least) = least
    BY <2>1
  <2>6. QED
    BY <1>1, <2>3, <2>4, <2>5 DEF least, rest
<1> HIDE DEF f
<1>7. RecursesBack(f, R, base, N, step)
  BY <1>5, <1>6 DEF RecursesBack
<1>8. QED
  BY <1>4, <1>7

(* A recursion over subsets that takes the least element last is the       *)
(* table of the loop from the right. By the recursion from the left, on    *)
(* the positions counted from the other end.                               *)
LEMMA FoldTableBack ==
  ASSUME NEW R, NEW base \in R, NEW N \in Nat, NEW step, IsStep(step, R, N),
         NEW g, RecursesBack(g, R, base, N, step)
  PROVE  \E h : IsTableBack(h, R, base, N, step) /\ h[1] = g[1..N]
<1> DEFINE h == [k \in 1..(N + 1) |-> g[k..N]]
<1>1. h[N + 1] = base /\ h[1] = g[1..N]
  <2>1. g[{}] = base
    BY DEF RecursesBack
  <2>2. h[N + 1] = g[(N + 1)..N] /\ (N + 1)..N = {} /\ h[1] = g[1..N]
    OBVIOUS
  <2> HIDE DEF h
  <2>3. QED
    BY <2>1, <2>2
<1>2. ASSUME NEW k \in 1..N, h[k + 1] \in R
      PROVE  h[k] \in R /\ h[k] = step[<<h[k + 1], k>>]
  <2>1. /\ k..N \in SUBSET (1..N) /\ k..N # {}
        /\ Min(k..N) = k /\ (k..N) \ {k} = (k + 1)..N
    BY UpperIntervals
  <2>2. k + 1 \in 1..(N + 1) /\ k \in 1..(N + 1)
    OBVIOUS
  <2>3. h[k + 1] = g[(k + 1)..N] /\ h[k] = g[k..N]
    BY <2>2
  <2> HIDE DEF h
  <2>4. g[(k..N) \ {Min(k..N)}] = h[k + 1]
    BY <2>1, <2>3
  <2>5. g[k..N] = step[<<g[(k..N) \ {Min(k..N)}], Min(k..N)>>]
    BY <1>2, <2>1, <2>4 DEF RecursesBack
  <2>6. h[k] = step[<<h[k + 1], k>>]
    BY <2>1, <2>3, <2>4, <2>5
  <2>7. <<h[k + 1], k>> \in R \X (1..N)
    BY <1>2
  <2>8. QED
    BY <2>6, <2>7 DEF IsStep
<1> HIDE DEF h
<1>3. \A k \in 1..(N + 1) : h[k] \in R
  <2> DEFINE T == {n \in 0..N : h[N + 1 - n] \in R}
  <2>1. 0 \in T
    BY <1>1
  <2>2. \A n \in 1..N : n - 1 \in T => n \in T
    <3> TAKE n \in 1..N
    <3> DEFINE k == N + 1 - n
    <3>1. k \in 1..N /\ n \in 0..N /\ N + 1 - (n - 1) = k + 1
      OBVIOUS
    <3>2. n - 1 \in T => h[k + 1] \in R
      BY <3>1
    <3> HIDE DEF k
    <3>3. n - 1 \in T => h[k] \in R
      BY <1>2, <3>1, <3>2
    <3>4. QED
      BY <3>1, <3>3 DEF k
  <2> HIDE DEF T
  <2>3. \A n \in 0..N : n \in T
    BY <2>1, <2>2, Induction
  <2>4. \A k \in 1..(N + 1) : N + 1 - k \in 0..N /\ N + 1 - (N + 1 - k) = k
    OBVIOUS
  <2>5. QED
    BY <2>3, <2>4 DEF T
<1>4. h \in [1..(N + 1) -> R]
  BY <1>3 DEF h
<1>5. \A k \in 1..N : h[k] = step[<<h[k + 1], k>>]
  <2> TAKE k \in 1..N
  <2>1. k + 1 \in 1..(N + 1)
    OBVIOUS
  <2>2. QED
    BY <1>2, <1>3, <2>1
<1>6. QED
  BY <1>1, <1>4, <1>5 DEF IsTableBack
=============================================================================
