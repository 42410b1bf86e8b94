---------------------------- MODULE TotalsProofs ----------------------------
(***************************************************************************)
(* What the total of a function is worth knowing for: how it changes with  *)
(* one value, what it bounds, and how it scales.                           *)
(***************************************************************************)
EXTENDS Totals, FiniteSetTheorems, TLAPS

\* A unit is numbered within the value it belongs to.
LEMMA UnitsMember ==
    ASSUME NEW S, NEW f \in [S -> Nat], NEW u
    PROVE  u \in units(f) <=> \E a \in S : \E n \in 1..f[a] : u = <<a, n>>
  BY DEF units

\* Finitely many values hand out finitely many units.
LEMMA TotalType ==
    ASSUME NEW S, IsFiniteSet(S), NEW f \in [S -> Nat]
    PROVE  IsFiniteSet(units(f)) /\ total(f) \in Nat
  <1> DEFINE part == [a \in S |-> {a} \X (1..f[a])]
             parts == {{a} \X (1..f[a]) : a \in S}
  <1>1. part \in Surjection(S, parts)
    BY DEF Surjection
  <1>2. IsFiniteSet(parts)
    BY <1>1, FS_Surjection
  <1>3. ASSUME NEW T \in parts PROVE IsFiniteSet(T)
    <2>1. PICK a \in S : T = {a} \X (1..f[a])
      OBVIOUS
    <2>2. IsFiniteSet({a})
      BY FS_Singleton
    <2>3. f[a] \in Int /\ 1 \in Int
      OBVIOUS
    <2>4. IsFiniteSet(1..f[a])
      BY <2>3, FS_Interval
    <2> QED
      BY <2>1, <2>2, <2>4, FS_Product
  <1>4. IsFiniteSet(UNION parts)
    BY <1>2, <1>3, FS_UNION
  <1>5. units(f) = UNION parts
    BY DEF units
  <1> QED
    BY <1>4, <1>5, FS_CardinalityType DEF total

\* The units of one holder.
LEMMA Column ==
    ASSUME NEW a, NEW I, IsFiniteSet(I)
    PROVE  IsFiniteSet({a} \X I) /\ Cardinality({a} \X I) = Cardinality(I)
  <1>1. IsFiniteSet({a}) /\ Cardinality({a}) = 1
    BY FS_Singleton
  <1>2. Cardinality(I) \in Nat
    BY FS_CardinalityType
  <1> QED
    BY <1>1, <1>2, FS_Product

\* A value goes up: the total goes up with it.
LEMMA TotalAdd ==
    ASSUME NEW S, IsFiniteSet(S), NEW f \in [S -> Nat], NEW g \in [S -> Nat],
           NEW a \in S, NEW x \in Nat, g[a] = f[a] + x, \A b \in S : b # a => g[b] = f[b]
    PROVE  total(g) = total(f) + x
  <1>0. PICK m \in Nat : m = f[a]
    OBVIOUS
  <1> DEFINE added == (m + 1)..(m + x)
             new == {a} \X added
  <1>1. IsFiniteSet(added) /\ Cardinality(added) = x
    <2> DEFINE i == m + 1
               j == m + x
    <2>1. i \in Int /\ j \in Int /\ (IF i > j THEN 0 ELSE j - i + 1) = x
      OBVIOUS
    <2> HIDE DEF i, j
    <2>2. IsFiniteSet(i..j) /\ Cardinality(i..j) = x
      BY <2>1, FS_Interval
    <2> QED
      BY <2>2 DEF i, j
  <1>2. \A u \in units(g) : \E b \in S : u \in {b} \X (1..g[b])
    BY DEF units
  <1> HIDE DEF added
  <1>3. IsFiniteSet(new) /\ Cardinality(new) = x
    BY <1>1, Column
  <1> USE DEF added
  <1>4. \A u : u \in new <=> \E n \in (m + 1)..(m + x) : u = <<a, n>>
    OBVIOUS
  <1> HIDE DEF new
  <1>5. units(g) = units(f) \cup new
    <2>1. ASSUME NEW u \in units(g) PROVE u \in units(f) \cup new
      <3>1. PICK b \in S : u \in {b} \X (1..g[b])
        BY <1>2
      <3>2. PICK n \in 1..g[b] : u = <<b, n>>
        BY <3>1
      <3>3. CASE n \in 1..f[b]
        BY <3>2, <3>3, UnitsMember
      <3>4. CASE n \notin 1..f[b]
        <4>1. b = a /\ n \in (m + 1)..(m + x)
          BY <1>0, <3>4
        <4> QED
          BY <1>4, <3>2, <4>1
      <3> QED
        BY <3>3, <3>4
    <2>2. ASSUME NEW u \in units(f) PROVE u \in units(g)
      <3>1. PICK b \in S : \E n \in 1..f[b] : u = <<b, n>>
        BY UnitsMember
      <3>2. PICK n \in 1..f[b] : u = <<b, n>>
        BY <3>1
      <3>3. n \in 1..g[b]
        BY <1>0
      <3> QED
        BY <3>2, <3>3, UnitsMember
    <2>3. ASSUME NEW u \in new PROVE u \in units(g)
      <3>1. PICK n \in (m + 1)..(m + x) : u = <<a, n>>
        BY <1>4
      <3>2. n \in 1..g[a]
        BY <1>0
      <3> QED
        BY <3>1, <3>2, UnitsMember
    <2> QED
      BY <2>1, <2>2, <2>3
  <1>6. units(f) \cap new = {}
    <2> SUFFICES ASSUME NEW u \in units(f), u \in new PROVE FALSE
      OBVIOUS
    <2>1. PICK b \in S : \E n \in 1..f[b] : u = <<b, n>>
      BY UnitsMember
    <2>2. PICK n \in 1..f[b] : u = <<b, n>>
      BY <2>1
    <2>3. PICK k \in (m + 1)..(m + x) : u = <<a, k>>
      BY <1>4
    <2>4. b = a /\ k = n
      BY <2>2, <2>3
    <2> QED
      BY <1>0, <2>4
  <1>7. IsFiniteSet(units(f)) /\ total(f) \in Nat
    BY TotalType
  <1>8. Cardinality(units(g)) = Cardinality(units(f)) + x - Cardinality(units(f) \cap new)
    BY <1>3, <1>5, <1>7, FS_Union
  <1>9. Cardinality(units(f) \cap new) = 0
    BY <1>6, FS_EmptySet
  <1> QED
    BY <1>7, <1>8, <1>9 DEF total

\* One value goes up by one.
LEMMA TotalAddOne ==
    ASSUME NEW S, IsFiniteSet(S), NEW f \in [S -> Nat], NEW a \in S
    PROVE  total([f EXCEPT ![a] = @ + 1]) = total(f) + 1
  <1> DEFINE g == [f EXCEPT ![a] = @ + 1]
  <1>1. g \in [S -> Nat] /\ g[a] = f[a] + 1 /\ \A b \in S : b # a => g[b] = f[b]
    OBVIOUS
  <1> HIDE DEF g
  <1>2. total(g) = total(f) + 1
    BY <1>1, TotalAdd
  <1> QED
    BY <1>2 DEF g

\* Nothing is handed out.
LEMMA TotalOfZeros ==
    ASSUME NEW S
    PROVE  total([a \in S |-> 0]) = 0
  <1>1. units([a \in S |-> 0]) = {}
    BY DEF units
  <1> QED
    BY <1>1, FS_EmptySet DEF total

\* No value exceeds the total.
LEMMA TotalBounds ==
    ASSUME NEW S, IsFiniteSet(S), NEW f \in [S -> Nat], NEW a \in S
    PROVE  f[a] <= total(f)
  <1>0. PICK m \in Nat : m = f[a]
    OBVIOUS
  <1> DEFINE mine == {a} \X (1..m)
  <1>1. mine \subseteq units(f)
    BY <1>0, UnitsMember
  <1>2. IsFiniteSet(1..m) /\ Cardinality(1..m) = m
    BY FS_Interval
  <1>3. Cardinality(mine) = m
    BY <1>2, Column
  <1> HIDE DEF mine
  <1>4. IsFiniteSet(units(f))
    BY TotalType
  <1>5. Cardinality(mine) <= Cardinality(units(f))
    BY <1>1, <1>4, FS_Subset
  <1> QED
    BY <1>0, <1>3, <1>5 DEF total


----------------------------------------------------------------------------
(* Totals scale: pairs of a unit and one of T slots are numbered, holder   *)
(* by holder, and numbered again as pairs of a unit and one of N slots.    *)

\* Multiplying keeps the order.
LEMMA ProductMonotone ==
    ASSUME NEW a \in Nat, NEW b \in Nat, NEW c \in Nat, a <= b
    PROVE  a * c <= b * c /\ a * c \in Nat /\ b * c \in Nat
  OBVIOUS

\* The place of slot j of unit n, counted from zero.
LEMMA PlaceBound ==
    ASSUME NEW T \in Nat, NEW k \in Nat, NEW n \in 1..k, NEW j \in 1..T
    PROVE  (n - 1) * T + j - 1 \in Nat /\ (n - 1) * T + j - 1 < k * T
  <1>1. n - 1 \in Nat /\ k - 1 \in Nat /\ n - 1 <= k - 1
    OBVIOUS
  <1>2. (n - 1) * T <= (k - 1) * T /\ (n - 1) * T \in Nat
    BY <1>1, ProductMonotone
  <1>3. (k - 1) * T = k * T - T
    OBVIOUS
  <1> QED
    BY <1>2, <1>3

\* No two slots have the same place.
LEMMA PlaceUnique ==
    ASSUME NEW T \in Nat, NEW n \in Nat, NEW m \in Nat, NEW i \in 1..T, NEW j \in 1..T,
           n * T + i = m * T + j
    PROVE  n = m /\ i = j
  <1>1. ASSUME NEW p \in Nat, NEW q \in Nat, NEW r \in 1..T, NEW s \in 1..T,
               p * T + r = q * T + s, p < q
        PROVE  FALSE
    <2>1. (p + 1) * T <= q * T /\ p * T \in Nat /\ q * T \in Nat
      BY <1>1, ProductMonotone
    <2>2. (p + 1) * T = p * T + T
      OBVIOUS
    <2> QED
      BY <1>1, <2>1, <2>2
  <1>2. ~(n < m) /\ ~(m < n)
    BY <1>1
  <1>3. n = m
    BY <1>2
  <1>4. n * T \in Nat
    BY ProductMonotone
  <1> QED
    BY <1>3, <1>4

\* A place is found back by division.
LEMMA Renumber ==
    ASSUME NEW N \in Nat, N > 0, NEW k \in Nat, NEW p \in Nat, p < k * N
    PROVE  /\ p \div N \in Nat /\ (p \div N) + 1 \in 1..k
           /\ p % N \in Nat /\ (p % N) + 1 \in 1..N
           /\ p = N * (p \div N) + (p % N)
  <1>1. /\ p \div N \in Nat /\ p % N \in 0..(N - 1)
        /\ p = N * (p \div N) + (p % N)
    OBVIOUS
  <1>2. PICK d \in Nat : d = p \div N
    BY <1>1
  <1>3. d < k
    <2> SUFFICES ASSUME k <= d PROVE FALSE
      BY <1>2
    <2>1. k * N <= d * N
      BY ProductMonotone
    <2>2. d * N = N * d
      OBVIOUS
    <2> QED
      BY <1>1, <1>2, <2>1, <2>2
  <1> QED
    BY <1>1, <1>2, <1>3


\* Values that are at most N / T times those of f total at most N / T times as much.
LEMMA TotalScaled ==
    ASSUME NEW S, IsFiniteSet(S), NEW f \in [S -> Nat], NEW g \in [S -> Nat],
           NEW N \in Nat, NEW T \in Nat, \A a \in S : g[a] * T <= f[a] * N
    PROVE  total(g) * T <= total(f) * N
  <1> DEFINE A == units(g) \X (1..T)
             B == units(f) \X (1..N)
             place(u) == (u[1][2] - 1) * T + u[2] - 1
             map == [u \in A |-> <<<<u[1][1], (place(u) \div N) + 1>>, (place(u) % N) + 1>>]
  <1>1. ASSUME NEW u \in A
        PROVE  /\ u = <<<<u[1][1], u[1][2]>>, u[2]>> /\ u[1][1] \in S
               /\ u[1][2] \in Nat /\ u[1][2] - 1 \in Nat /\ u[2] \in 1..T
               /\ N > 0 /\ place(u) \in Nat /\ place(u) < f[u[1][1]] * N
    <2>1. PICK v \in units(g), j \in 1..T : u = <<v, j>>
      OBVIOUS
    <2>2. PICK a \in S : v \in {a} \X (1..g[a])
      BY DEF units
    <2>3. PICK n \in 1..g[a] : v = <<a, n>>
      BY <2>2
    <2>4. PICK k \in Nat : k = g[a]
      OBVIOUS
    <2>5. (n - 1) * T + j - 1 \in Nat /\ (n - 1) * T + j - 1 < k * T
      BY <2>4, PlaceBound
    <2>6. PICK m \in Nat : m = f[a]
      OBVIOUS
    <2>7. k * T <= m * N /\ k * T \in Nat /\ m * N \in Nat
      BY <2>4, <2>6, ProductMonotone
    <2>8. N > 0
      <3> SUFFICES ASSUME N = 0 PROVE FALSE
        OBVIOUS
      <3>1. m * N = 0
        OBVIOUS
      <3> QED
        BY <2>5, <2>7, <3>1
    <2>9. u[1][1] = a /\ u[1][2] = n /\ u[2] = j /\ n \in Nat /\ n - 1 \in Nat
      BY <2>1, <2>3
    <2> QED
      BY <2>1, <2>3, <2>5, <2>6, <2>7, <2>8, <2>9
  <1>2. ASSUME NEW u \in A
        PROVE  /\ place(u) \div N \in Nat /\ (place(u) \div N) + 1 \in 1..f[u[1][1]]
               /\ place(u) % N \in Nat /\ (place(u) % N) + 1 \in 1..N
               /\ place(u) = N * (place(u) \div N) + (place(u) % N)
    <2>1. PICK k \in Nat : k = f[u[1][1]]
      BY <1>1
    <2>2. PICK p \in Nat : p = place(u)
      BY <1>1
    <2>3. N > 0 /\ p < k * N
      BY <1>1, <2>1, <2>2
    <2> QED
      BY <2>1, <2>2, <2>3, Renumber
  <1>3. ASSUME NEW u \in A PROVE map[u] \in B
    <2>1. <<u[1][1], (place(u) \div N) + 1>> \in units(f)
      BY <1>1, <1>2, UnitsMember
    <2> QED
      BY <1>2, <2>1
  <1>4. ASSUME NEW u \in A, NEW v \in A, map[u] = map[v] PROVE u = v
    <2>1. /\ u[1][1] = v[1][1] /\ place(u) \div N = place(v) \div N /\ place(u) % N = place(v) % N
      <3>1. /\ u[1][1] = v[1][1] /\ (place(u) \div N) + 1 = (place(v) \div N) + 1
            /\ (place(u) % N) + 1 = (place(v) % N) + 1
        BY <1>4
      <3> QED
        BY <1>2, <3>1
    <2>2. place(u) = place(v)
      BY <1>2, <2>1
    <2>3. PICK n \in Nat : n = u[1][2] - 1
      BY <1>1
    <2>4. PICK m \in Nat : m = v[1][2] - 1
      BY <1>1
    <2>5. PICK i \in 1..T : i = u[2]
      BY <1>1
    <2>6. PICK j \in 1..T : j = v[2]
      BY <1>1
    <2>7. n * T \in Nat /\ m * T \in Nat
      BY ProductMonotone
    <2>8. n * T + i = m * T + j
      <3>1. place(u) = n * T + i - 1
        BY <2>3, <2>5
      <3>2. place(v) = m * T + j - 1
        BY <2>4, <2>6
      <3> HIDE DEF place
      <3>3. PICK x \in Nat, y \in Nat : x = n * T /\ y = m * T
        BY <2>7
      <3>4. x + i - 1 = y + j - 1
        BY <2>2, <3>1, <3>2, <3>3
      <3>5. x + i = y + j
        BY <3>4
      <3> QED
        BY <3>3, <3>5
    <2>9. n = m /\ i = j
      BY <2>8, PlaceUnique
    <2>10. u[1][2] = v[1][2] /\ u[2] = v[2]
      BY <1>1, <2>3, <2>4, <2>5, <2>6, <2>9
    <2> QED
      BY <1>1, <2>1, <2>10
  <1>5. map \in Injection(A, B)
    <2>1. map \in [A -> B]
      BY <1>3
    <2> QED
      BY <1>4, <2>1 DEF Injection, IsInjective
  <1>6. IsFiniteSet(1..T) /\ Cardinality(1..T) = T /\ IsFiniteSet(1..N) /\ Cardinality(1..N) = N
    BY FS_Interval
  <1>7. IsFiniteSet(units(f)) /\ IsFiniteSet(units(g))
    BY TotalType
  <1>8. IsFiniteSet(B) /\ Cardinality(B) = total(f) * N /\ Cardinality(A) = total(g) * T
    BY <1>6, <1>7, FS_Product DEF total
  <1> HIDE DEF A, B, map
  <1>9. Cardinality(A) <= Cardinality(B)
    BY <1>5, <1>8, FS_Injection
  <1> QED
    BY <1>8, <1>9
=============================================================================
