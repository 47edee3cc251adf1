----------------------------- MODULE SumsProofs -----------------------------
(***************************************************************************)
(* What the proofs need of sums: how a sum changes with one value, the     *)
(* sums of a pointwise sum and of a multiple, the exchange of two sums,    *)
(* and the sum of the sizes of the classes of a partition.                 *)
(***************************************************************************)
EXTENDS Sums, TLAPS, FiniteSetTheorems

(* A map that is one-to-one and onto keeps the size of a finite set. *)
LEMMA SameSize ==
    ASSUME NEW S, NEW T, IsFiniteSet(S), NEW h \in [S -> T],
           \A a, b \in S : h[a] = h[b] => a = b,
           \A t \in T : \E s \in S : h[s] = t
    PROVE  IsFiniteSet(T) /\ Cardinality(T) = Cardinality(S)
<1>1. h \in Bijection(S, T)
  BY DEF Bijection, Injection, Surjection, IsInjective
<1>2. ExistsBijection(S, T)
  BY <1>1 DEF ExistsBijection
<1> QED
  BY <1>2, FS_Bijection

LEMMA UnitsMember ==
    ASSUME NEW f, NEW u
    PROVE  u \in Units(f) <=> \E a \in DOMAIN f : \E j \in 1 .. f[a] : u = <<a, j>>
<1>1. ASSUME u \in Units(f)
      PROVE  \E a \in DOMAIN f : \E j \in 1 .. f[a] : u = <<a, j>>
  <2>1. PICK a \in DOMAIN f : u \in {a} \X (1 .. f[a])
    BY <1>1 DEF Units
  <2>2. u = <<a, u[2]>> /\ u[2] \in 1 .. f[a]
    BY <2>1
  <2> QED
    BY <2>2
<1>2. ASSUME NEW a \in DOMAIN f, NEW j \in 1 .. f[a], u = <<a, j>>
      PROVE  u \in Units(f)
  BY <1>2 DEF Units
<1> QED
  BY <1>1, <1>2

(* A set of pairs with first component a has the size of what is paired. *)
LEMMA Paired ==
    ASSUME NEW a, NEW T, IsFiniteSet(T)
    PROVE  IsFiniteSet({a} \X T) /\ Cardinality({a} \X T) = Cardinality(T)
<1>1. IsFiniteSet({a}) /\ Cardinality({a}) = 1
  BY FS_Singleton
<1>2. IsFiniteSet({a} \X T) /\ Cardinality({a} \X T) = Cardinality({a}) * Cardinality(T)
  BY <1>1, FS_Product
<1>3. Cardinality(T) \in Nat
  BY FS_CardinalityType
<1> QED
  BY <1>1, <1>2, <1>3

LEMMA UnitsOfOne ==
    ASSUME NEW a, NEW n \in Nat
    PROVE  IsFiniteSet({a} \X (1 .. n)) /\ Cardinality({a} \X (1 .. n)) = n
<1>1. IsFiniteSet(1 .. n) /\ Cardinality(1 .. n) = n
  BY FS_Interval
<1> QED
  BY <1>1, Paired

LEMMA FiniteImage ==
    ASSUME NEW S, IsFiniteSet(S), NEW h, DOMAIN h = S
    PROVE  IsFiniteSet({h[a] : a \in S})
<1> DEFINE g == [a \in S |-> h[a]]
<1>1. g \in Surjection(S, {h[a] : a \in S})
  BY DEF Surjection
<1> QED
  BY <1>1, FS_Surjection

LEMMA UnitsFinite ==
    ASSUME NEW S, IsFiniteSet(S), NEW f \in [S -> Nat]
    PROVE  IsFiniteSet(Units(f)) /\ SumOf(f) \in Nat
<1> DEFINE h == [a \in S |-> {a} \X (1 .. f[a])]
<1>1. DOMAIN h = S /\ \A a \in S : h[a] = {a} \X (1 .. f[a])
  OBVIOUS
<1>2. Units(f) = UNION {h[a] : a \in S}
  BY DEF Units
<1>3. \A a \in S : IsFiniteSet(h[a])
  BY <1>1, UnitsOfOne
<1> HIDE DEF h
<1>4. IsFiniteSet({h[a] : a \in S})
  BY <1>1, FiniteImage
<1>5. \A T \in {h[a] : a \in S} : IsFiniteSet(T)
  BY <1>3
<1>6. IsFiniteSet(Units(f))
  BY <1>2, <1>4, <1>5, FS_UNION
<1> QED
  BY <1>6, FS_CardinalityType DEF SumOf

(* The sum without the value at a. *)
LEMMA SumSplit ==
    ASSUME NEW S, IsFiniteSet(S), NEW f \in [S -> Nat], NEW a \in S
    PROVE  LET others == UNION {{b} \X (1 .. f[b]) : b \in S \ {a}}
           IN  IsFiniteSet(others) /\ SumOf(f) = Cardinality(others) + f[a]
<1> DEFINE others == UNION {{b} \X (1 .. f[b]) : b \in S \ {a}}
           mine == {a} \X (1 .. f[a])
<1>1. Units(f) = others \cup mine
  BY DEF Units
<1>2. others \cap mine = {}
  OBVIOUS
<1>3. IsFiniteSet(mine) /\ Cardinality(mine) = f[a]
  BY UnitsOfOne
<1>4. IsFiniteSet(Units(f))
  BY UnitsFinite
<1> HIDE DEF others, mine
<1>5. IsFiniteSet(others)
  BY <1>1, <1>4, FS_Subset
<1>6. Cardinality(others \cup mine)
        = Cardinality(others) + Cardinality(mine) - Cardinality(others \cap mine)
  BY <1>3, <1>5, FS_Union
<1>7. Cardinality(others \cap mine) = 0
  BY <1>2, FS_EmptySet
<1>8. Cardinality(others) \in Nat
  BY <1>5, FS_CardinalityType
<1>9. SumOf(f) = Cardinality(others) + f[a]
  BY <1>1, <1>3, <1>6, <1>7, <1>8 DEF SumOf
<1> QED
  BY <1>5, <1>9 DEF others

(* A sum changes by as much as the only value that changes. *)
LEMMA SumChange ==
    ASSUME NEW S, IsFiniteSet(S), NEW f \in [S -> Nat], NEW g \in [S -> Nat], NEW a \in S,
           \A b \in S \ {a} : g[b] = f[b]
    PROVE  SumOf(g) = SumOf(f) + g[a] - f[a]
<1> DEFINE Rest(h) == UNION {{b} \X (1 .. h[b]) : b \in S \ {a}}
<1>1. Rest(f) = Rest(g)
  OBVIOUS
<1>2. IsFiniteSet(Rest(f)) /\ SumOf(f) = Cardinality(Rest(f)) + f[a]
  BY SumSplit
<1>3. SumOf(g) = Cardinality(Rest(g)) + g[a]
  BY SumSplit
<1>4. Cardinality(Rest(f)) \in Nat
  BY <1>2, FS_CardinalityType
<1> HIDE DEF Rest
<1> QED
  BY <1>1, <1>2, <1>3, <1>4

LEMMA SumAtLeast ==
    ASSUME NEW S, IsFiniteSet(S), NEW f \in [S -> Nat], NEW a \in S
    PROVE  f[a] <= SumOf(f)
<1> DEFINE others == UNION {{b} \X (1 .. f[b]) : b \in S \ {a}}
<1>1. IsFiniteSet(others) /\ SumOf(f) = Cardinality(others) + f[a]
  BY SumSplit
<1>2. Cardinality(others) \in Nat
  BY <1>1, FS_CardinalityType
<1> HIDE DEF others
<1> QED
  BY <1>1, <1>2

LEMMA SumZero ==
    ASSUME NEW S, NEW f \in [S -> Nat], \A a \in S : f[a] = 0
    PROVE  SumOf(f) = 0
<1>1. Units(f) = {}
  BY DEF Units
<1> QED
  BY <1>1, FS_EmptySet DEF SumOf

(* Only one value of a sum of 1 is not 0. *)
LEMMA SumOne ==
    ASSUME NEW S, IsFiniteSet(S), NEW f \in [S -> Nat], SumOf(f) = 1
    PROVE  \E a \in S : f[a] = 1 /\ \A b \in S \ {a} : f[b] = 0
<1>1. ~ \A a \in S : f[a] = 0
  BY SumZero
<1>2. PICK a \in S : f[a] # 0
  BY <1>1
<1>3. f[a] = 1
  BY <1>2, SumAtLeast
<1>4. ASSUME NEW b \in S \ {a}, f[b] # 0
      PROVE  FALSE
  <2> DEFINE g == [f EXCEPT ![b] = 0]
  <2>1. g \in [S -> Nat] /\ g[a] = 1 /\ g[b] = 0 /\ \A d \in S \ {b} : g[d] = f[d]
    BY <1>3
  <2> HIDE DEF g
  <2>2. SumOf(g) = SumOf(f) + g[b] - f[b]
    BY <2>1, SumChange
  <2>3. SumOf(g) >= 1
    BY <2>1, SumAtLeast
  <2> QED
    BY <1>4, <2>1, <2>2, <2>3
<1> QED
  BY <1>3, <1>4

(* The sum of the sizes of finite sets is the size of their disjoint union. *)
LEMMA SumOfSizes ==
    ASSUME NEW S, IsFiniteSet(S), NEW T, DOMAIN T = S, \A a \in S : IsFiniteSet(T[a]),
           NEW size \in [S -> Nat], \A a \in S : size[a] = Cardinality(T[a]),
           NEW union, \A u : u \in union <=> \E a \in S : \E t \in T[a] : u = <<a, t>>
    PROVE  IsFiniteSet(union) /\ SumOf(size) = Cardinality(union)
<1> DEFINE e == [a \in S |-> CHOOSE b \in Bijection(1 .. size[a], T[a]) : TRUE]
           h == [u \in Units(size) |-> <<u[1], e[u[1]][u[2]]>>]
<1>2. ASSUME NEW a \in S
      PROVE  e[a] \in Bijection(1 .. size[a], T[a])
  <2>1. ExistsBijection(1 .. size[a], T[a])
    BY FS_CardinalityType
  <2> QED
    BY <2>1 DEF ExistsBijection
<1>6. DOMAIN size = S
  OBVIOUS
<1>7. IsFiniteSet(Units(size))
  BY UnitsFinite
<1> HIDE DEF e
<1>3. \A a \in S : e[a] \in [1 .. size[a] -> T[a]]
  BY <1>2 DEF Bijection, Surjection
<1>4. \A a \in S : \A i, j \in 1 .. size[a] : e[a][i] = e[a][j] => i = j
  BY <1>2, <1>3 DEF Bijection, Injection, IsInjective
<1>5. \A a \in S : \A t \in T[a] : \E i \in 1 .. size[a] : e[a][i] = t
  BY <1>2 DEF Bijection, Surjection
<1>8. \A a \in S : \A i \in 1 .. size[a] :
        <<a, i>> \in Units(size) /\ h[<<a, i>>] = <<a, e[a][i]>>
  BY <1>6, UnitsMember
<1>9. \A u \in Units(size) : \E a \in S : \E i \in 1 .. size[a] : u = <<a, i>>
  BY <1>6, UnitsMember
<1>11. h = [u \in Units(size) |-> h[u]]
  OBVIOUS
<1> HIDE DEF h
<1>12. ASSUME NEW u \in Units(size)
       PROVE  h[u] \in union
  <2>1. PICK a \in S : \E i \in 1 .. size[a] : u = <<a, i>>
    BY <1>9
  <2>2. PICK i \in 1 .. size[a] : u = <<a, i>>
    BY <2>1
  <2>3. h[u] = <<a, e[a][i]>> /\ e[a][i] \in T[a]
    BY <1>3, <1>8, <2>2
  <2> QED
    BY <2>3
<1>13. h \in [Units(size) -> union]
  BY <1>11, <1>12
<1>14. ASSUME NEW u \in Units(size), NEW v \in Units(size), h[u] = h[v]
       PROVE  u = v
  <2>1. PICK a \in S : \E i \in 1 .. size[a] : u = <<a, i>>
    BY <1>9
  <2>2. PICK i \in 1 .. size[a] : u = <<a, i>>
    BY <2>1
  <2>3. PICK b \in S : \E j \in 1 .. size[b] : v = <<b, j>>
    BY <1>9
  <2>4. PICK j \in 1 .. size[b] : v = <<b, j>>
    BY <2>3
  <2>5. <<a, e[a][i]>> = <<b, e[b][j]>>
    BY <1>8, <1>14, <2>2, <2>4
  <2>6. a = b /\ e[a][i] = e[b][j]
    BY <2>5
  <2>7. i = j
    BY <1>4, <2>2, <2>4, <2>6
  <2> QED
    BY <2>2, <2>4, <2>6, <2>7
<1>15. ASSUME NEW t \in union
       PROVE  \E u \in Units(size) : h[u] = t
  <2>1. PICK a \in S : \E v \in T[a] : t = <<a, v>>
    OBVIOUS
  <2>2. PICK v \in T[a] : t = <<a, v>>
    BY <2>1
  <2>3. PICK i \in 1 .. size[a] : e[a][i] = v
    BY <1>5, <2>2
  <2> QED
    BY <1>8, <2>2, <2>3
<1>16. IsFiniteSet(union) /\ Cardinality(union) = Cardinality(Units(size))
  BY <1>7, <1>13, <1>14, <1>15, SameSize
<1> QED
  BY <1>16 DEF SumOf

(* The classes of a partition of T have together the size of T. *)
LEMMA SumOfClasses ==
    ASSUME NEW S, IsFiniteSet(S), NEW T, IsFiniteSet(T), NEW h \in [T -> S],
           NEW class, DOMAIN class = S, \A a \in S : class[a] = {t \in T : h[t] = a},
           NEW size \in [S -> Nat], \A a \in S : size[a] = Cardinality(class[a])
    PROVE  SumOf(size) = Cardinality(T)
<1> DEFINE union == {<<h[t], t>> : t \in T}
           g == [t \in T |-> <<h[t], t>>]
<1>2. \A a \in S : IsFiniteSet(class[a])
  BY FS_Subset
<1>3. \A u : u \in union <=> \E a \in S : \E t \in class[a] : u = <<a, t>>
  OBVIOUS
<1>4. /\ g \in [T -> union]
      /\ \A u \in union : \E t \in T : g[t] = u
      /\ \A t, v \in T : g[t] = g[v] => t = v
  OBVIOUS
<1> HIDE DEF union, g
<1>5. SumOf(size) = Cardinality(union)
  BY <1>2, <1>3, SumOfSizes
<1>6. Cardinality(union) = Cardinality(T)
  BY <1>4, SameSize
<1> QED
  BY <1>5, <1>6

(* The sum of a pointwise sum. *)
LEMMA SumOfSum ==
    ASSUME NEW S, IsFiniteSet(S), NEW f \in [S -> Nat], NEW g \in [S -> Nat],
           NEW h \in [S -> Nat], \A a \in S : h[a] = f[a] + g[a]
    PROVE  SumOf(h) = SumOf(f) + SumOf(g)
<1> DEFINE high == {u \in Units(h) : u[2] > f[u[1]]}
           k == [u \in Units(g) |-> <<u[1], u[2] + f[u[1]]>>]
<1>1. DOMAIN f = S /\ DOMAIN g = S /\ DOMAIN h = S
  OBVIOUS
<1>2. Units(h) = Units(f) \cup high
  BY <1>1, UnitsMember
<1>3. Units(f) \cap high = {}
  BY <1>1, UnitsMember
<1>4. IsFiniteSet(Units(f)) /\ IsFiniteSet(Units(g)) /\ IsFiniteSet(Units(h))
  BY UnitsFinite
<1>5. \A u \in Units(g) : k[u] \in high
  BY <1>1, UnitsMember
<1>6. k \in [Units(g) -> high]
  BY <1>5
<1>7. \A u, v \in Units(g) : k[u] = k[v] => u = v
  BY <1>1, UnitsMember
<1>8. \A t \in high : \E u \in Units(g) : k[u] = t
  <2> TAKE t \in high
  <2>0. PICK a \in S : \E j \in 1 .. h[a] : t = <<a, j>>
    BY <1>1, UnitsMember
  <2>1. PICK j \in 1 .. h[a] : t = <<a, j>> /\ j > f[a]
    BY <2>0
  <2>2. <<a, j - f[a]>> \in Units(g)
    BY <1>1, <2>1, UnitsMember
  <2>3. k[<<a, j - f[a]>>] = t
    BY <2>1, <2>2
  <2> QED
    BY <2>2, <2>3
<1> HIDE DEF high, k
<1>9. IsFiniteSet(high) /\ Cardinality(high) = Cardinality(Units(g))
  BY <1>4, <1>6, <1>7, <1>8, SameSize
<1>10. Cardinality(Units(f) \cap high) = 0
  BY <1>3, FS_EmptySet
<1>11. Cardinality(Units(f) \cup high)
        = Cardinality(Units(f)) + Cardinality(high) - Cardinality(Units(f) \cap high)
  BY <1>4, <1>9, FS_Union
<1>12. Cardinality(Units(f)) \in Nat /\ Cardinality(Units(g)) \in Nat
  BY <1>4, FS_CardinalityType
<1> QED
  BY <1>2, <1>9, <1>10, <1>11, <1>12 DEF SumOf

(* The sum of a multiple. *)
LEMMA SumOfMultiple ==
    ASSUME NEW S, IsFiniteSet(S), NEW f \in [S -> Nat], NEW k \in Nat,
           NEW h \in [S -> Nat], \A a \in S : h[a] = k * f[a]
    PROVE  SumOf(h) = k * SumOf(f)
<1> DEFINE T == [a \in S |-> (1 .. k) \X (1 .. f[a])]
           copies == (1 .. k) \X Units(f)
           union == {<<v[2][1], <<v[1], v[2][2]>>>> : v \in copies}
           g == [v \in copies |-> <<v[2][1], <<v[1], v[2][2]>>>>]
<1>1. ASSUME NEW a \in S
      PROVE  IsFiniteSet(T[a]) /\ Cardinality(T[a]) = h[a]
  <2>1. IsFiniteSet(1 .. k) /\ Cardinality(1 .. k) = k
    BY FS_Interval
  <2>2. IsFiniteSet(1 .. f[a]) /\ Cardinality(1 .. f[a]) = f[a]
    BY FS_Interval
  <2>3. /\ IsFiniteSet((1 .. k) \X (1 .. f[a]))
        /\ Cardinality((1 .. k) \X (1 .. f[a])) = Cardinality(1 .. k) * Cardinality(1 .. f[a])
    BY <2>1, <2>2, FS_Product
  <2>4. T[a] = (1 .. k) \X (1 .. f[a])
    OBVIOUS
  <2> HIDE DEF T
  <2> QED
    BY <2>1, <2>2, <2>3, <2>4
<1>2. \A u : u \in Units(f) <=> \E a \in S : \E j \in 1 .. f[a] : u = <<a, j>>
  BY UnitsMember
<1>3. \A v \in copies : \E i \in 1 .. k : \E a \in S : \E j \in 1 .. f[a] : v = <<i, <<a, j>>>>
  BY <1>2
<1>4. \A i \in 1 .. k : \A a \in S : \A j \in 1 .. f[a] :
        <<i, <<a, j>>>> \in copies /\ g[<<i, <<a, j>>>>] = <<a, <<i, j>>>>
  BY <1>2
<1>5. \A u : u \in union <=> \E v \in copies : u = g[v]
  OBVIOUS
<1>6. DOMAIN T = S /\ \A a \in S : T[a] = (1 .. k) \X (1 .. f[a])
  OBVIOUS
<1>7. g \in [copies -> union]
  OBVIOUS
<1> HIDE DEF T, copies, union, g
<1>8. ASSUME NEW u
      PROVE  u \in union <=> \E a \in S : \E t \in T[a] : u = <<a, t>>
  <2>1. ASSUME u \in union
        PROVE  \E a \in S : \E t \in T[a] : u = <<a, t>>
    <3>1. PICK v \in copies : u = g[v]
      BY <1>5, <2>1
    <3>2. PICK i \in 1 .. k : \E a \in S : \E j \in 1 .. f[a] : v = <<i, <<a, j>>>>
      BY <1>3
    <3>3. PICK a \in S : \E j \in 1 .. f[a] : v = <<i, <<a, j>>>>
      BY <3>2
    <3>4. PICK j \in 1 .. f[a] : v = <<i, <<a, j>>>>
      BY <3>3
    <3>5. u = <<a, <<i, j>>>> /\ <<i, j>> \in T[a]
      BY <1>4, <1>6, <3>1, <3>4
    <3> QED
      BY <3>5
  <2>2. ASSUME NEW a \in S, NEW t \in T[a], u = <<a, t>>
        PROVE  u \in union
    <3>1. t = <<t[1], t[2]>> /\ t[1] \in 1 .. k /\ t[2] \in 1 .. f[a]
      BY <1>6
    <3>2. <<t[1], <<a, t[2]>>>> \in copies /\ g[<<t[1], <<a, t[2]>>>>] = u
      BY <1>4, <2>2, <3>1
    <3> QED
      BY <1>5, <3>2
  <2> QED
    BY <2>1, <2>2
<1>9. SumOf(h) = Cardinality(union)
  BY <1>1, <1>6, <1>8, SumOfSizes
<1>10. IsFiniteSet(copies) /\ Cardinality(copies) = k * SumOf(f)
  <2>1. IsFiniteSet(1 .. k) /\ Cardinality(1 .. k) = k
    BY FS_Interval
  <2>2. IsFiniteSet(Units(f))
    BY UnitsFinite
  <2> QED
    BY <2>1, <2>2, FS_Product DEF copies, SumOf
<1>11. ASSUME NEW v \in copies, NEW w \in copies, g[v] = g[w]
       PROVE  v = w
  <2>1. PICK i \in 1 .. k : \E a \in S : \E j \in 1 .. f[a] : v = <<i, <<a, j>>>>
    BY <1>3
  <2>2. PICK a \in S : \E j \in 1 .. f[a] : v = <<i, <<a, j>>>>
    BY <2>1
  <2>3. PICK j \in 1 .. f[a] : v = <<i, <<a, j>>>>
    BY <2>2
  <2>4. PICK l \in 1 .. k : \E b \in S : \E m \in 1 .. f[b] : w = <<l, <<b, m>>>>
    BY <1>3
  <2>5. PICK b \in S : \E m \in 1 .. f[b] : w = <<l, <<b, m>>>>
    BY <2>4
  <2>6. PICK m \in 1 .. f[b] : w = <<l, <<b, m>>>>
    BY <2>5
  <2>7. <<a, <<i, j>>>> = <<b, <<l, m>>>>
    BY <1>4, <1>11, <2>3, <2>6
  <2> QED
    BY <2>3, <2>6, <2>7
<1>12. \A u \in union : \E v \in copies : g[v] = u
  BY <1>5
<1>13. Cardinality(union) = Cardinality(copies)
  BY <1>7, <1>10, <1>11, <1>12, SameSize
<1> QED
  BY <1>9, <1>10, <1>13

(* A sum of sums counts pairs. *)
LEMMA SumOfSums ==
    ASSUME NEW S, IsFiniteSet(S), NEW R, IsFiniteSet(R), NEW row \in [S -> [R -> Nat]],
           NEW rows \in [S -> Nat], \A a \in S : rows[a] = SumOf(row[a]),
           NEW union, \A u : u \in union <=> \E a \in S : \E t \in Units(row[a]) : u = <<a, t>>
    PROVE  IsFiniteSet(union) /\ SumOf(rows) = Cardinality(union)
<1> DEFINE T == [a \in S |-> Units(row[a])]
<1>1. \A a \in S : IsFiniteSet(T[a])
  BY UnitsFinite
<1>2. \A a \in S : rows[a] = Cardinality(T[a])
  BY DEF SumOf
<1>3. DOMAIN T = S
  OBVIOUS
<1>4. \A u : u \in union <=> \E a \in S : \E t \in T[a] : u = <<a, t>>
  OBVIOUS
<1> HIDE DEF T
<1> QED
  BY <1>1, <1>2, <1>3, <1>4, SumOfSizes

(* A table by its rows and by its columns, with the sums of both. *)
IsTable(S, R, row, col, rows, cols) ==
    /\ IsFiniteSet(S) /\ IsFiniteSet(R)
    /\ row \in [S -> [R -> Nat]] /\ col \in [R -> [S -> Nat]]
    /\ \A a \in S, b \in R : row[a][b] = col[b][a]
    /\ rows \in [S -> Nat] /\ \A a \in S : rows[a] = SumOf(row[a])
    /\ cols \in [R -> Nat] /\ \A b \in R : cols[b] = SumOf(col[b])

(* Rows summed up and columns summed up give the same. *)
LEMMA SumExchange ==
    ASSUME NEW S, NEW R, NEW row, NEW col, NEW rows, NEW cols,
           IsTable(S, R, row, col, rows, cols)
    PROVE  SumOf(rows) = SumOf(cols)
<1> USE DEF IsTable
<1> DEFINE left == UNION {{a} \X Units(row[a]) : a \in S}
           right == UNION {{b} \X Units(col[b]) : b \in R}
           g == [v \in left |-> <<v[2][1], <<v[1], v[2][2]>>>>]
<1>3. \A v : v \in left <=> \E a \in S : \E t \in Units(row[a]) : v = <<a, t>>
  OBVIOUS
<1>4. \A v : v \in right <=> \E b \in R : \E t \in Units(col[b]) : v = <<b, t>>
  OBVIOUS
<1>5. \A v \in left : g[v] = <<v[2][1], <<v[1], v[2][2]>>>>
  OBVIOUS
<1>6. g = [v \in left |-> g[v]]
  OBVIOUS
<1> HIDE DEF left, right, g
<1>7. SumOf(rows) = Cardinality(left) /\ IsFiniteSet(left)
  <2>1. IsFiniteSet(S) /\ IsFiniteSet(R) /\ row \in [S -> [R -> Nat]] /\ rows \in [S -> Nat]
    OBVIOUS
  <2>2. \A a \in S : rows[a] = SumOf(row[a])
    OBVIOUS
  <2> QED
    BY ONLY <1>3, <2>1, <2>2, SumOfSums
<1>8. SumOf(cols) = Cardinality(right)
  <2>1. IsFiniteSet(S) /\ IsFiniteSet(R) /\ col \in [R -> [S -> Nat]] /\ cols \in [R -> Nat]
    OBVIOUS
  <2>2. \A b \in R : cols[b] = SumOf(col[b])
    OBVIOUS
  <2> QED
    BY ONLY <1>4, <2>1, <2>2, SumOfSums
<1>9. ASSUME NEW a \in S, NEW t
      PROVE  t \in Units(row[a]) <=> \E b \in R : \E j \in 1 .. row[a][b] : t = <<b, j>>
  <2>1. DOMAIN row[a] = R
    OBVIOUS
  <2> QED
    BY <2>1, UnitsMember
<1>10. ASSUME NEW b \in R, NEW t
       PROVE  t \in Units(col[b]) <=> \E a \in S : \E j \in 1 .. row[a][b] : t = <<a, j>>
  <2>1. DOMAIN col[b] = S
    OBVIOUS
  <2> QED
    BY <2>1, UnitsMember
<1>11. ASSUME NEW v \in left
       PROVE  \E a \in S, b \in R : \E j \in 1 .. row[a][b] : v = <<a, <<b, j>>>>
  <2>1. PICK a \in S : \E t \in Units(row[a]) : v = <<a, t>>
    BY <1>3
  <2>2. PICK t \in Units(row[a]) : v = <<a, t>>
    BY <2>1
  <2> QED
    BY <1>9, <2>2
<1>12. ASSUME NEW a \in S, NEW b \in R, NEW j \in 1 .. row[a][b]
       PROVE  /\ <<a, <<b, j>>>> \in left /\ <<b, <<a, j>>>> \in right
              /\ g[<<a, <<b, j>>>>] = <<b, <<a, j>>>>
  <2>1. <<b, j>> \in Units(row[a]) /\ <<a, j>> \in Units(col[b])
    BY <1>9, <1>10
  <2>2. <<a, <<b, j>>>> \in left /\ <<b, <<a, j>>>> \in right
    BY <1>3, <1>4, <2>1
  <2> QED
    BY <1>5, <2>2
<1>13. ASSUME NEW v \in right
       PROVE  \E a \in S, b \in R : \E j \in 1 .. row[a][b] : v = <<b, <<a, j>>>>
  BY <1>4, <1>10
<1>14. ASSUME NEW v \in left
       PROVE  g[v] \in right
  <2>1. PICK a \in S, b \in R : \E j \in 1 .. row[a][b] : v = <<a, <<b, j>>>>
    BY <1>11
  <2>2. PICK j \in 1 .. row[a][b] : v = <<a, <<b, j>>>>
    BY <2>1
  <2>3. g[<<a, <<b, j>>>>] = <<b, <<a, j>>>> /\ <<b, <<a, j>>>> \in right
    BY <1>12
  <2> QED
    BY <2>2, <2>3
<1>15. g \in [left -> right]
  BY <1>6, <1>14
<1>16. ASSUME NEW v \in left, NEW w \in left, g[v] = g[w]
       PROVE  v = w
  <2>1. PICK a \in S, b \in R : \E j \in 1 .. row[a][b] : v = <<a, <<b, j>>>>
    BY <1>11
  <2>2. PICK j \in 1 .. row[a][b] : v = <<a, <<b, j>>>>
    BY <2>1
  <2>3. PICK c \in S, d \in R : \E i \in 1 .. row[c][d] : w = <<c, <<d, i>>>>
    BY <1>11
  <2>4. PICK i \in 1 .. row[c][d] : w = <<c, <<d, i>>>>
    BY <2>3
  <2>5. g[v] = <<b, <<a, j>>>>
    BY <1>12, <2>2
  <2>6. g[w] = <<d, <<c, i>>>>
    BY <1>12, <2>4
  <2>7. <<b, <<a, j>>>> = <<d, <<c, i>>>>
    BY <1>16, <2>5, <2>6
  <2> QED
    BY <2>2, <2>4, <2>7
<1>17. ASSUME NEW v \in right
       PROVE  \E u \in left : g[u] = v
  <2>1. PICK a \in S, b \in R : \E j \in 1 .. row[a][b] : v = <<b, <<a, j>>>>
    BY <1>13
  <2>2. PICK j \in 1 .. row[a][b] : v = <<b, <<a, j>>>>
    BY <2>1
  <2>3. <<a, <<b, j>>>> \in left /\ g[<<a, <<b, j>>>>] = v
    BY <1>12, <2>2
  <2> QED
    BY <2>3
<1>18. Cardinality(right) = Cardinality(left)
  BY <1>7, <1>15, <1>16, <1>17, SameSize
<1> QED
  BY <1>7, <1>8, <1>18
=============================================================================
