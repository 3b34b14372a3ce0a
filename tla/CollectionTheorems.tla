---------------------------- MODULE CollectionTheorems ----------------------------
(***************************************************************************)
(* What Sum computes: MapThenSumSet is a recursive function on the subsets *)
(* of its argument, so each fact is proved on a smallest subset that would *)
(* violate it.  What SelectAt keeps.  And that taking the elements of a    *)
(* finite set in some order, each if it may join the ones taken before it, *)
(* ends with a set.                                                        *)
(***************************************************************************)
EXTENDS Collections, FiniteSetTheorems, FunctionTheorems, WellFoundedInduction, TLAPS

\* A nonempty set of subsets of a finite set has a minimal member.
LEMMA MinimalSubset ==
    ASSUME NEW S, IsFiniteSet(S), NEW B \in SUBSET (SUBSET S), B # {}
    PROVE  \E T \in B : \A U \in B : U \subseteq T => U = T
<1>1. IsWellFoundedOn(StrictSubsetOrdering(S), SUBSET S)
  BY FS_StrictSubsetOrderingWellFounded, FS_FiniteSubsetsOfFinite
<1>2. PICK T \in B : \A U \in B : <<U, T>> \notin StrictSubsetOrdering(S)
  BY <1>1, WFMin
<1>3. ASSUME NEW U \in B, U \subseteq T, U # T PROVE FALSE
  <2>1. <<U, T>> \in (SUBSET S) \X (SUBSET S)
    OBVIOUS
  <2>2. <<U, T>> \in StrictSubsetOrdering(S)
    BY <1>3, <2>1 DEF StrictSubsetOrdering
  <2> QED BY <1>2, <2>2
<1> QED BY <1>3

\* A nonempty finite set of integers has a least element.
LEMMA LeastElement ==
    ASSUME NEW S, IsFiniteSet(S), S # {}, \A x \in S : x \in Int
    PROVE  Min(S) \in S /\ \A y \in S : Min(S) <= y
<1> DEFINE Below(x) == {y \in S : y <= x}  B == {Below(x) : x \in S}
<1>1. B \in SUBSET (SUBSET S) /\ B # {}
  OBVIOUS
<1>a. \A y \in S : Below(y) \in B
  OBVIOUS
<1>b. \A T \in B : \E x \in S : T = Below(x)
  OBVIOUS
<1>c. \A x, y \in S : y \in Below(x) <=> y <= x
  OBVIOUS
<1>d. \A x \in S : Below(x) \subseteq S
  OBVIOUS
<1> HIDE DEF B, Below
<1>2. PICK T \in B : \A U \in B : U \subseteq T => U = T
  BY <1>1, MinimalSubset
<1>3. PICK x \in S : T = Below(x)
  BY <1>b
<1>4. ASSUME NEW y \in S, ~(x <= y) PROVE FALSE
  <2>1. y < x /\ x \in Int /\ y \in Int
    BY <1>4
  <2>2. \A z \in S : z <= y => z <= x
    BY <2>1
  <2>3. Below(y) \subseteq T
    BY <1>3, <1>c, <1>d, <2>2
  <2>4. x \notin Below(y) /\ x \in T
    BY <1>3, <1>c, <2>1
  <2> QED BY <1>2, <1>a, <2>3, <2>4
<1>5. \E z \in S : \A y \in S : z <= y
  BY <1>4
<1> QED BY <1>5 DEF Min

\* A nonempty finite set of integers has a greatest element.
LEMMA GreatestElement ==
    ASSUME NEW S, IsFiniteSet(S), S # {}, \A x \in S : x \in Int
    PROVE  \E m \in S : \A y \in S : m >= y
<1> DEFINE Above(x) == {y \in S : y >= x}  B == {Above(x) : x \in S}
<1>1. B \in SUBSET (SUBSET S) /\ B # {}
  OBVIOUS
<1>a. \A y \in S : Above(y) \in B
  OBVIOUS
<1>b. \A T \in B : \E x \in S : T = Above(x)
  OBVIOUS
<1>c. \A x, y \in S : y \in Above(x) <=> y >= x
  OBVIOUS
<1>d. \A x \in S : Above(x) \subseteq S
  OBVIOUS
<1> HIDE DEF B, Above
<1>2. PICK T \in B : \A U \in B : U \subseteq T => U = T
  BY <1>1, MinimalSubset
<1>3. PICK x \in S : T = Above(x)
  BY <1>b
<1>4. ASSUME NEW y \in S, ~(x >= y) PROVE FALSE
  <2>1. y > x /\ x \in Int /\ y \in Int
    BY <1>4
  <2>2. \A z \in S : z >= y => z >= x
    BY <2>1
  <2>3. Above(y) \subseteq T
    BY <1>3, <1>c, <1>d, <2>2
  <2>4. x \notin Above(y) /\ x \in T
    BY <1>3, <1>c, <2>1
  <2> QED BY <1>2, <1>a, <2>3, <2>4
<1> QED BY <1>4

\* R puts the elements of S in a strict order, and Q says for a set of elements
\* taken so far which element may join it
Orders(R, S) ==
    /\ \A x \in S : <<x, x>> \notin R
    /\ \A x, y, z \in S : <<x, y>> \in R /\ <<y, z>> \in R => <<x, z>> \in R
    /\ \A x, y \in S : x # y => <<x, y>> \in R \/ <<y, x>> \in R
Greedy(S, R, Q, W) == \A o \in S : o \in W <=> <<{x \in W : <<x, o>> \in R}, o>> \in Q

\* A nonempty finite set in a strict order has a last element.
LEMMA LastElement ==
    ASSUME NEW S, IsFiniteSet(S), S # {}, NEW R, Orders(R, S)
    PROVE  \E m \in S : \A x \in S : x # m => <<x, m>> \in R
<1> DEFINE After(x) == {y \in S : <<x, y>> \in R}  B == {After(x) : x \in S}
<1>1. B \in SUBSET (SUBSET S) /\ B # {}
  OBVIOUS
<1>a. \A y \in S : After(y) \in B
  OBVIOUS
<1>b. \A T \in B : \E x \in S : T = After(x)
  OBVIOUS
<1>c. \A x, y \in S : y \in After(x) <=> <<x, y>> \in R
  OBVIOUS
<1>d. \A x \in S : After(x) \subseteq S
  OBVIOUS
<1> HIDE DEF B, After
<1>2. PICK T \in B : \A U \in B : U \subseteq T => U = T
  BY <1>1, MinimalSubset
<1>3. PICK m \in S : T = After(m)
  BY <1>b
<1>4. ASSUME NEW y \in S, <<m, y>> \in R PROVE FALSE
  <2>1. y \in After(m) /\ y \notin After(y)
    BY <1>4, <1>c DEF Orders
  <2>2. \A z \in S : <<y, z>> \in R => <<m, z>> \in R
    BY <1>4 DEF Orders
  <2>3. After(y) \subseteq T
    BY <1>3, <1>c, <1>d, <2>2
  <2> QED BY <1>2, <1>3, <1>a, <2>1, <2>3
<1> QED BY <1>4 DEF Orders

\* Taking the elements in their order, each if it may join those taken before it,
\* ends with a set.
LEMMA GreedySet ==
    ASSUME NEW S, IsFiniteSet(S), NEW R, Orders(R, S), NEW Q
    PROVE  \E W \in SUBSET S : Greedy(S, R, Q, W)
<1> DEFINE Solved(T) == \E W \in SUBSET T : Greedy(T, R, Q, W)
           B == {T \in SUBSET S : ~Solved(T)}
<1> SUFFICES ASSUME ~Solved(S) PROVE FALSE
  OBVIOUS
<1>1. S \in B /\ B \in SUBSET (SUBSET S) /\ \A T \in SUBSET S : T \in B <=> ~Solved(T)
  OBVIOUS
<1> HIDE DEF B
<1>2. PICK T \in B : \A U \in B : U \subseteq T => U = T
  BY <1>1, MinimalSubset
<1>3. T \in SUBSET S /\ IsFiniteSet(T) /\ ~Solved(T)
  BY <1>1, <1>2, FS_Subset
<1>4. T # {}
  <2>1. Solved({})
    BY DEF Greedy
  <2> QED BY <1>3, <2>1
<1>5. Orders(R, T)
  BY <1>3 DEF Orders
<1>6. PICK m \in T : \A x \in T : x # m => <<x, m>> \in R
  BY <1>3, <1>4, <1>5, LastElement
<1> DEFINE U == T \ {m}
<1>7. Solved(U)
  <2>1. U \in SUBSET S /\ U \subseteq T /\ U # T
    BY <1>3, <1>6
  <2> HIDE DEF U, Solved
  <2> QED BY <1>1, <1>2, <2>1
<1>8. PICK V \in SUBSET U : Greedy(U, R, Q, V)
  BY <1>7
<1> DEFINE W == IF <<{x \in V : <<x, m>> \in R}, m>> \in Q THEN V \cup {m} ELSE V
<1>9. /\ W \in SUBSET T /\ V \subseteq W /\ W \subseteq V \cup {m} /\ m \notin V
      /\ m \in W <=> <<{x \in V : <<x, m>> \in R}, m>> \in Q
  BY <1>6, <1>8
<1> HIDE DEF W
<1>10. \A o \in T : <<m, o>> \notin R
  BY <1>5, <1>6 DEF Orders
<1>11. \A o \in T : {x \in W : <<x, o>> \in R} = {x \in V : <<x, o>> \in R}
  BY <1>9, <1>10
<1>12. \A o \in U : o \in W <=> o \in V
  BY <1>9
<1>13. ASSUME NEW o \in T PROVE o \in W <=> <<{x \in W : <<x, o>> \in R}, o>> \in Q
  <2>1. CASE o = m
    BY <1>9, <1>11, <2>1
  <2>2. CASE o # m
    BY <1>8, <1>11, <1>12, <2>2 DEF Greedy
  <2> QED BY <2>1, <2>2
<1>14. Solved(T)
  BY <1>9, <1>13 DEF Greedy
<1> QED BY <1>3, <1>14

Pick(s) == CHOOSE x \in s : TRUE
\* g computes the sums of f over every subset of T
Adds(f, T, g) ==
    g = [s \in SUBSET T |-> IF s = {} THEN 0 ELSE f[Pick(s)] + g[s \ {Pick(s)}]]
Adder(f, T) == CHOOSE g : Adds(f, T, g)

LEMMA SumIsAdder == \A f, S : Sum(f, S) = Adder(f, S)[S]
BY DEF Sum, MapThenSumSet, MapThenFoldSet, Adder, Adds, Pick

LEMMA AddsAt ==
    ASSUME NEW f, NEW T, NEW g, Adds(f, T, g), NEW s \in SUBSET T
    PROVE  g[s] = IF s = {} THEN 0 ELSE f[Pick(s)] + g[s \ {Pick(s)}]
<1> DEFINE G(r) == IF r = {} THEN 0 ELSE f[Pick(r)] + g[r \ {Pick(r)}]
<1>1. g = [r \in SUBSET T |-> G(r)]
  BY DEF Adds
<1> HIDE DEF G
<1>2. g[s] = G(s)
  BY <1>1
<1> QED BY <1>2 DEF G

LEMMA PickIn == \A s : s # {} => Pick(s) \in s
BY DEF Pick

LEMMA AdderUnique ==
    ASSUME NEW f, NEW S, IsFiniteSet(S), NEW T \in SUBSET S, NEW U \in SUBSET S,
           NEW g, Adds(f, T, g), NEW h, Adds(f, U, h), NEW s \in SUBSET T, s \in SUBSET U
    PROVE  g[s] = h[s]
<1> DEFINE B == {r \in SUBSET s : g[r] # h[r]}
<1> SUFFICES ASSUME g[s] # h[s] PROVE FALSE
  OBVIOUS
<1>1. IsFiniteSet(s) /\ B \in SUBSET (SUBSET s) /\ B # {}
  BY FS_Subset
<1>2. PICK r \in B : \A q \in B : q \subseteq r => q = r
  <2> HIDE DEF B
  <2> QED BY <1>1, MinimalSubset
<1>3. CASE r = {}
  BY <1>2, <1>3, AddsAt
<1>4. CASE r # {}
  <2> DEFINE x == Pick(r)
  <2>1. x \in r
    BY <1>4, PickIn
  <2> HIDE DEF x
  <2>2. r \ {x} \in SUBSET s /\ r \ {x} \subseteq r /\ r \ {x} # r
    BY <1>2, <2>1
  <2>3. g[r \ {x}] = h[r \ {x}]
    BY <1>2, <2>2
  <2>4. g[r] = f[x] + g[r \ {x}] /\ h[r] = f[x] + h[r \ {x}]
    <3>1. r \in SUBSET T /\ r \in SUBSET U
      BY <1>2
    <3>2. g[r] = f[Pick(r)] + g[r \ {Pick(r)}]
      BY <1>4, <3>1, AddsAt
    <3>3. h[r] = f[Pick(r)] + h[r \ {Pick(r)}]
      BY <1>4, <3>1, AddsAt
    <3> QED BY <3>2, <3>3 DEF x
  <2> QED BY <1>2, <2>3, <2>4
<1> QED BY <1>3, <1>4

LEMMA AdderExists ==
    ASSUME NEW f, NEW S, IsFiniteSet(S)
    PROVE  Adds(f, S, Adder(f, S))
<1> DEFINE B == {T \in SUBSET S : ~Adds(f, T, Adder(f, T))}
<1> SUFFICES ASSUME S \in B PROVE FALSE
  OBVIOUS
<1>1. PICK T \in B : \A U \in B : U \subseteq T => U = T
  <2>1. B \in SUBSET (SUBSET S) /\ B # {}
    OBVIOUS
  <2> HIDE DEF B
  <2> QED BY <2>1, MinimalSubset
<1>2. \A U \in SUBSET T : U # T => Adds(f, U, Adder(f, U))
  BY <1>1
<1> DEFINE v(s) == Adder(f, s)[s]
           G(s) == IF s = {} THEN 0 ELSE f[Pick(s)] + v(s \ {Pick(s)})
           g == [s \in SUBSET T |-> G(s)]
<1>3. ASSUME NEW s \in SUBSET T, s # T PROVE v(s) = G(s)
  <2>1. Adds(f, s, Adder(f, s))
    BY <1>2, <1>3
  <2>2. CASE s = {}
    BY <2>1, <2>2, AddsAt
  <2>3. CASE s # {}
    <3> DEFINE x == Pick(s)  r == s \ {x}
    <3>1. x \in s
      BY <2>3, PickIn
    <3> HIDE DEF x
    <3>2. r \in SUBSET T /\ r # T /\ r \in SUBSET s
      BY <3>1
    <3>3. Adds(f, r, Adder(f, r))
      BY <1>2, <3>2
    <3>4. Adder(f, s)[r] = Adder(f, r)[r]
      <4>1. s \in SUBSET S /\ r \in SUBSET S /\ r \in SUBSET s /\ r \in SUBSET r
        BY <1>1, <3>2
      <4> HIDE DEF r
      <4> QED BY <2>1, <3>3, <4>1, AdderUnique
    <3>5. v(s) = f[x] + Adder(f, s)[r]
      BY <2>1, <2>3, AddsAt DEF x
    <3> QED BY <2>3, <3>4, <3>5 DEF x
  <2> QED BY <2>2, <2>3
<1>4. ASSUME NEW s \in SUBSET T, s # {} PROVE g[s \ {Pick(s)}] = v(s \ {Pick(s)})
  <2>1. Pick(s) \in s
    BY <1>4, PickIn
  <2>2. s \ {Pick(s)} \in SUBSET T /\ s \ {Pick(s)} # T
    BY <2>1
  <2> HIDE DEF v, G
  <2> QED BY <1>3, <2>2
<1>5. Adds(f, T, g)
  <2> HIDE DEF v
  <2>1. \A s \in SUBSET T : G(s) = IF s = {} THEN 0 ELSE f[Pick(s)] + g[s \ {Pick(s)}]
    BY <1>4
  <2> HIDE DEF G
  <2> QED BY <2>1 DEF Adds
<1>6. Adds(f, T, Adder(f, T))
  <2> HIDE DEF g
  <2> QED BY <1>5 DEF Adder
<1> QED BY <1>1, <1>6

-----------------------------------------------------------------------------
\* The sum over the empty set, and the sum as its definition takes it apart.
LEMMA SumEmpty == \A f : Sum(f, {}) = 0
<1> TAKE f
<1>1. Adds(f, {}, Adder(f, {}))
  BY FS_EmptySet, AdderExists
<1>2. Adder(f, {})[{}] = 0
  BY <1>1, AddsAt
<1> QED BY <1>2, SumIsAdder

LEMMA SumStep ==
    ASSUME NEW f, NEW S, IsFiniteSet(S), S # {}
    PROVE  Pick(S) \in S /\ Sum(f, S) = f[Pick(S)] + Sum(f, S \ {Pick(S)})
<1>2. Pick(S) \in S /\ Sum(f, S) = f[Pick(S)] + Sum(f, S \ {Pick(S)})
  <2> DEFINE x == Pick(S)  R == S \ {x}
  <2>1. x \in S
    BY PickIn
  <2>2. Adder(f, S)[S] = f[x] + Adder(f, S)[R]
    BY AdderExists, AddsAt
  <2> HIDE DEF x
  <2>3. R \in SUBSET S /\ IsFiniteSet(R)
    BY FS_Subset
  <2>4. Adder(f, S)[R] = Adder(f, R)[R]
    BY <2>3, AdderExists, AdderUnique
  <2> QED BY <2>1, <2>2, <2>4, SumIsAdder DEF x
<1> QED BY <1>2

\* Sums of integers are integers, and sums of naturals are naturals.
LEMMA SumInt ==
    ASSUME NEW f, NEW S, IsFiniteSet(S), \A x \in S : f[x] \in Int
    PROVE  Sum(f, S) \in Int
<1> DEFINE B == {T \in SUBSET S : Sum(f, T) \notin Int}
<1> SUFFICES ASSUME Sum(f, S) \notin Int PROVE FALSE
  OBVIOUS
<1>1. B \in SUBSET (SUBSET S) /\ B # {}
  OBVIOUS
<1>2. PICK T \in B : \A U \in B : U \subseteq T => U = T
  <2> HIDE DEF B
  <2> QED BY <1>1, MinimalSubset
<1>3. T \in SUBSET S /\ IsFiniteSet(T) /\ T # {}
  <2>1. {} \notin B
    BY SumEmpty
  <2>2. T # {}
    BY <1>2, <2>1, Zenon
  <2> QED BY <1>2, <2>2, FS_Subset
<1>4. Pick(T) \in T /\ Sum(f, T) = f[Pick(T)] + Sum(f, T \ {Pick(T)})
  BY <1>3, SumStep
<1>5. Sum(f, T \ {Pick(T)}) \in Int
  BY <1>2, <1>3, <1>4
<1>6. f[Pick(T)] \in Int
  BY <1>3, <1>4
<1>7. Sum(f, T) \in Int
  BY <1>4, <1>5, <1>6
<1> QED BY <1>2, <1>7

LEMMA SumNat ==
    ASSUME NEW f, NEW S, IsFiniteSet(S), \A x \in S : f[x] \in Nat
    PROVE  Sum(f, S) \in Nat
<1> DEFINE B == {T \in SUBSET S : Sum(f, T) \notin Nat}
<1> SUFFICES ASSUME Sum(f, S) \notin Nat PROVE FALSE
  OBVIOUS
<1>1. B \in SUBSET (SUBSET S) /\ B # {}
  OBVIOUS
<1>2. PICK T \in B : \A U \in B : U \subseteq T => U = T
  <2> HIDE DEF B
  <2> QED BY <1>1, MinimalSubset
<1>3. T \in SUBSET S /\ IsFiniteSet(T) /\ T # {}
  <2>1. {} \notin B
    BY SumEmpty
  <2>2. T # {}
    BY <1>2, <2>1, Zenon
  <2> QED BY <1>2, <2>2, FS_Subset
<1>4. Pick(T) \in T /\ Sum(f, T) = f[Pick(T)] + Sum(f, T \ {Pick(T)})
  BY <1>3, SumStep
<1>5. Sum(f, T \ {Pick(T)}) \in Nat
  BY <1>2, <1>3, <1>4
<1>6. f[Pick(T)] \in Nat
  BY <1>3, <1>4
<1>7. Sum(f, T) \in Nat
  BY <1>4, <1>5, <1>6
<1> QED BY <1>2, <1>7

\* Nothing adds up to 0.
LEMMA SumZero ==
    ASSUME NEW f, NEW S, IsFiniteSet(S), \A x \in S : f[x] = 0
    PROVE  Sum(f, S) = 0
<1> DEFINE B == {T \in SUBSET S : Sum(f, T) # 0}
<1> SUFFICES ASSUME Sum(f, S) # 0 PROVE FALSE
  OBVIOUS
<1>1. B \in SUBSET (SUBSET S) /\ B # {}
  OBVIOUS
<1>2. PICK T \in B : \A U \in B : U \subseteq T => U = T
  <2> HIDE DEF B
  <2> QED BY <1>1, MinimalSubset
<1>3. T \in SUBSET S /\ Sum(f, T) # 0 /\ IsFiniteSet(T)
  BY FS_Subset
<1>4. T # {}
  BY <1>3, SumEmpty
<1> DEFINE x == Pick(T)  R == T \ {x}
<1>5. x \in T /\ Sum(f, T) = f[x] + Sum(f, R)
  BY <1>3, <1>4, SumStep
<1>6. R \in SUBSET S /\ R # T /\ R \subseteq T
  BY <1>3, <1>5
<1>7. Sum(f, R) = 0
  BY <1>2, <1>6
<1> QED BY <1>3, <1>5, <1>7

\* Any term can be taken out of a sum: the order of the terms does not matter.
LEMMA SumRemove ==
    ASSUME NEW f, NEW S, IsFiniteSet(S), \A x \in S : f[x] \in Int, NEW z \in S
    PROVE  Sum(f, S) = f[z] + Sum(f, S \ {z})
<1> DEFINE P(T, y) == Sum(f, T) = f[y] + Sum(f, T \ {y})
           B == {T \in SUBSET S : \E y \in T : ~P(T, y)}
<1> SUFFICES ASSUME ~P(S, z) PROVE FALSE
  OBVIOUS
<1>1. B \in SUBSET (SUBSET S) /\ B # {}
  <2> HIDE DEF P
  <2> QED OBVIOUS
<1>2. PICK T \in B : \A U \in B : U \subseteq T => U = T
  <2> HIDE DEF B
  <2> QED BY <1>1, MinimalSubset
<1>3. T \in SUBSET S /\ IsFiniteSet(T)
  BY <1>2, FS_Subset
<1>4. PICK y \in T : ~P(T, y)
  BY <1>2
<1> DEFINE x == Pick(T)
<1>5. x \in T /\ Sum(f, T) = f[x] + Sum(f, T \ {x})
  BY <1>3, <1>4, SumStep
<1> HIDE DEF x
<1>6. x # y
  BY <1>4, <1>5
<1>7. /\ T \ {x} \in SUBSET S /\ y \in T \ {x} /\ T \ {x} # T
      /\ T \ {y} \in SUBSET S /\ x \in T \ {y} /\ T \ {y} # T
  BY <1>3, <1>4, <1>5, <1>6
<1>8. P(T \ {x}, y) /\ P(T \ {y}, x)
  <2> HIDE DEF P
  <2> QED BY <1>2, <1>7
<1>9. (T \ {x}) \ {y} = (T \ {y}) \ {x} /\ (T \ {x}) \ {y} \in SUBSET S
  BY <1>3
<1>10. Sum(f, (T \ {x}) \ {y}) \in Int /\ f[x] \in Int /\ f[y] \in Int
  BY <1>3, <1>4, <1>5, <1>9, FS_Subset, SumInt
<1> DEFINE c == Sum(f, (T \ {x}) \ {y})
<1>11. /\ Sum(f, T \ {x}) = f[y] + c /\ Sum(f, T \ {y}) = f[x] + c
       /\ c \in Int /\ f[x] \in Int /\ f[y] \in Int
  BY <1>8, <1>9, <1>10
<1> HIDE DEF c
<1>12. Sum(f, T) = f[y] + Sum(f, T \ {y})
  BY <1>5, <1>11
<1> QED BY <1>4, <1>12

LEMMA SumAdd ==
    ASSUME NEW f, NEW S, IsFiniteSet(S), NEW y, y \notin S, \A x \in S \cup {y} : f[x] \in Int
    PROVE  Sum(f, S \cup {y}) = Sum(f, S) + f[y]
<1>1. IsFiniteSet(S \cup {y}) /\ (S \cup {y}) \ {y} = S
  BY FS_AddElement
<1>2. Sum(f, S \cup {y}) = f[y] + Sum(f, S)
  BY <1>1, SumRemove
<1>3. Sum(f, S) \in Int /\ f[y] \in Int
  BY SumInt
<1> QED BY <1>2, <1>3

\* A term-by-term comparison carries over to the sums.
LEMMA SumMonotone ==
    ASSUME NEW f, NEW g, NEW S, IsFiniteSet(S),
           \A x \in S : f[x] \in Int /\ g[x] \in Int /\ f[x] <= g[x]
    PROVE  Sum(f, S) <= Sum(g, S)
<1> DEFINE B == {T \in SUBSET S : ~(Sum(f, T) <= Sum(g, T))}
<1> SUFFICES ASSUME ~(Sum(f, S) <= Sum(g, S)) PROVE FALSE
  OBVIOUS
<1>1. B \in SUBSET (SUBSET S) /\ B # {}
  OBVIOUS
<1>2. PICK T \in B : \A U \in B : U \subseteq T => U = T
  <2> HIDE DEF B
  <2> QED BY <1>1, MinimalSubset
<1>3. T \in SUBSET S /\ IsFiniteSet(T) /\ T # {}
  <2>1. {} \notin B
    BY SumEmpty
  <2>2. T # {}
    BY <1>2, <2>1, Zenon
  <2> QED BY <1>2, <2>2, FS_Subset
<1> DEFINE x == Pick(T)  R == T \ {x}
<1>4. x \in T /\ Sum(f, T) = f[x] + Sum(f, R) /\ Sum(g, T) = g[x] + Sum(g, R)
  BY <1>3, SumStep
<1> HIDE DEF x
<1>5. R \in SUBSET S /\ R \subseteq T /\ R # T /\ IsFiniteSet(R)
  BY <1>3, <1>4, FS_Subset
<1>6. Sum(f, R) <= Sum(g, R)
  BY <1>2, <1>5
<1>7. Sum(f, R) \in Int /\ Sum(g, R) \in Int
  BY <1>5, SumInt
<1>8. f[x] \in Int /\ g[x] \in Int /\ f[x] <= g[x]
  BY <1>3, <1>4
<1> HIDE DEF R
<1>9. Sum(f, T) <= Sum(g, T)
  BY <1>4, <1>6, <1>7, <1>8
<1> QED BY <1>2, <1>9

LEMMA SumSame ==
    ASSUME NEW f, NEW g, NEW S, IsFiniteSet(S), \A x \in S : f[x] \in Int /\ f[x] = g[x]
    PROVE  Sum(f, S) = Sum(g, S)
<1>1. Sum(f, S) <= Sum(g, S) /\ Sum(g, S) <= Sum(f, S)
  BY SumMonotone
<1>2. Sum(f, S) \in Int /\ Sum(g, S) \in Int
  BY SumInt
<1> QED BY <1>1, <1>2

\* Changing one term changes the sum by the difference.
LEMMA SumUpdate ==
    ASSUME NEW f, NEW g, NEW S, IsFiniteSet(S), NEW y \in S,
           \A x \in S : f[x] \in Int /\ g[x] \in Int,
           \A x \in S : x # y => g[x] = f[x]
    PROVE  Sum(g, S) = Sum(f, S) - f[y] + g[y]
<1> DEFINE R == S \ {y}
<1>1. IsFiniteSet(R) /\ \A x \in R : x \in S /\ x # y
  BY FS_Subset
<1>2. Sum(f, S) = f[y] + Sum(f, R) /\ Sum(g, S) = g[y] + Sum(g, R)
  BY SumRemove
<1> HIDE DEF R
<1>3. Sum(f, R) = Sum(g, R)
  BY <1>1, SumSame
<1>4. Sum(f, R) \in Int
  BY <1>1, SumInt
<1> QED BY <1>2, <1>3, <1>4

\* The terms of a set split over two halves of it.
LEMMA SumSplit ==
    ASSUME NEW f, NEW S, IsFiniteSet(S), NEW T \in SUBSET S, \A x \in S : f[x] \in Int
    PROVE  Sum(f, S) = Sum(f, T) + Sum(f, S \ T)
<1> DEFINE P(U) == Sum(f, U) = Sum(f, U \cap T) + Sum(f, U \ T)
           B == {U \in SUBSET S : ~P(U)}
<1>0. S \cap T = T
  OBVIOUS
<1> SUFFICES ASSUME ~P(S) PROVE FALSE
  BY <1>0
<1>1. B \in SUBSET (SUBSET S) /\ B # {}
  <2> HIDE DEF P
  <2> QED OBVIOUS
<1>2. PICK U \in B : \A V \in B : V \subseteq U => V = U
  <2> HIDE DEF B
  <2> QED BY <1>1, MinimalSubset
<1>3. U \in SUBSET S /\ IsFiniteSet(U)
  BY <1>2, FS_Subset
<1>4. U # {}
  <2>1. {} \cap T = {} /\ {} \ T = {}
    OBVIOUS
  <2>2. P({})
    BY <2>1, SumEmpty
  <2> HIDE DEF P
  <2> QED BY <1>2, <2>2
<1>5. PICK x \in U : TRUE
  BY <1>4
<1> DEFINE R == U \ {x}
<1>6. R \in SUBSET S /\ R # U /\ IsFiniteSet(R) /\ R \subseteq U
  BY <1>3, <1>5, FS_Subset
<1>7. Sum(f, R) = Sum(f, R \cap T) + Sum(f, R \ T)
  <2>1. P(R)
    <3> HIDE DEF P, R
    <3> QED BY <1>2, <1>6
  <2> QED BY <2>1
<1>8. Sum(f, U) = f[x] + Sum(f, R)
  BY <1>3, <1>5, SumRemove
<1>9. /\ IsFiniteSet(R \cap T) /\ IsFiniteSet(R \ T) /\ R \cap T \in SUBSET S /\ R \ T \in SUBSET S
      /\ IsFiniteSet(U \cap T) /\ IsFiniteSet(U \ T)
  BY <1>3, <1>6, FS_Subset
<1>10. Sum(f, R \cap T) \in Int /\ Sum(f, R \ T) \in Int /\ f[x] \in Int
  BY <1>3, <1>5, <1>9, SumInt
<1>11. CASE x \in T
  <2>1. U \ T = R \ T /\ x \in U \cap T /\ (U \cap T) \ {x} = R \cap T
    BY <1>11, <1>5
  <2>2. Sum(f, U \cap T) = f[x] + Sum(f, R \cap T)
    BY <1>3, <1>9, <2>1, SumRemove
  <2>3. Sum(f, U \ T) = Sum(f, R \ T)
    BY <2>1, Zenon
  <2> HIDE DEF R
  <2>4. P(U)
    BY <1>7, <1>8, <1>10, <2>2, <2>3
  <2> QED BY <1>2, <2>4
<1>12. CASE x \notin T
  <2>1. U \cap T = R \cap T /\ x \in U \ T /\ (U \ T) \ {x} = R \ T
    BY <1>12, <1>5
  <2>2. Sum(f, U \ T) = f[x] + Sum(f, R \ T)
    BY <1>3, <1>9, <2>1, SumRemove
  <2>3. Sum(f, U \cap T) = Sum(f, R \cap T)
    BY <2>1, Zenon
  <2> HIDE DEF R
  <2>4. P(U)
    BY <1>7, <1>8, <1>10, <2>2, <2>3
  <2> QED BY <1>2, <2>4
<1> QED BY <1>11, <1>12

\* Of natural numbers, a part sums to no more than the whole.
LEMMA SumSubset ==
    ASSUME NEW f, NEW S, IsFiniteSet(S), NEW T \in SUBSET S, \A x \in S : f[x] \in Nat
    PROVE  Sum(f, T) <= Sum(f, S)
<1>1. IsFiniteSet(T) /\ IsFiniteSet(S \ T)
  BY FS_Subset
<1>2. Sum(f, T) \in Nat /\ Sum(f, S \ T) \in Nat
  BY <1>1, SumNat
<1>3. Sum(f, S) = Sum(f, T) + Sum(f, S \ T)
  BY SumSplit
<1> QED BY <1>2, <1>3

\* The sum of two functions is the sum of their sums.
LEMMA SumPlus ==
    ASSUME NEW f, NEW g, NEW h, NEW S, IsFiniteSet(S),
           \A x \in S : f[x] \in Int /\ g[x] \in Int /\ h[x] = f[x] + g[x]
    PROVE  Sum(h, S) = Sum(f, S) + Sum(g, S)
<1> DEFINE P(T) == Sum(h, T) = Sum(f, T) + Sum(g, T)
           B == {T \in SUBSET S : ~P(T)}
<1> SUFFICES ASSUME ~P(S) PROVE FALSE
  OBVIOUS
<1>1. B \in SUBSET (SUBSET S) /\ B # {}
  OBVIOUS
<1>2. PICK T \in B : \A U \in B : U \subseteq T => U = T
  <2> HIDE DEF B
  <2> QED BY <1>1, MinimalSubset
<1>3. T \in SUBSET S /\ ~P(T) /\ IsFiniteSet(T)
  BY FS_Subset
<1>4. T # {}
  BY <1>3, SumEmpty
<1> DEFINE x == Pick(T)  R == T \ {x}
<1>5. /\ x \in T /\ Sum(f, T) = f[x] + Sum(f, R)
      /\ Sum(g, T) = g[x] + Sum(g, R) /\ Sum(h, T) = h[x] + Sum(h, R)
  BY <1>3, <1>4, SumStep
<1>6. R \in SUBSET S /\ R # T /\ R \subseteq T
  BY <1>3, <1>5
<1>7. P(R)
  BY <1>2, <1>6
<1>8. IsFiniteSet(R) /\ \A y \in R : f[y] \in Int /\ g[y] \in Int
  BY <1>6, FS_Subset
<1> HIDE DEF R, x
<1>9. Sum(f, R) \in Int /\ Sum(g, R) \in Int
  BY <1>8, SumInt
<1>10. f[x] \in Int /\ g[x] \in Int /\ h[x] = f[x] + g[x]
  BY <1>3, <1>5
<1> QED BY <1>3, <1>5, <1>7, <1>9, <1>10

\* What is paid from distinct purses is at most what the purses hold.
LEMMA SumInject ==
    ASSUME NEW f, NEW g, NEW S, IsFiniteSet(S), NEW T, IsFiniteSet(T), NEW h \in [S -> T],
           \A x, y \in S : h[x] = h[y] => x = y,
           \A x \in S : f[x] \in Int /\ f[x] <= g[h[x]],
           \A y \in T : g[y] \in Nat
    PROVE  Sum(f, S) <= Sum(g, T)
<1> DEFINE Im(U) == {h[x] : x \in U}
           P(U) == Sum(f, U) <= Sum(g, Im(U))
           B == {U \in SUBSET S : ~P(U)}
<1>0. \A U \in SUBSET S : IsFiniteSet(Im(U)) /\ Im(U) \in SUBSET T
  <2> TAKE U \in SUBSET S
  <2>1. Im(U) \in SUBSET T
    OBVIOUS
  <2> QED BY <2>1, FS_Subset
<1>1. P(S)
  <2> SUFFICES ASSUME ~P(S) PROVE FALSE
    OBVIOUS
  <2>1. B \in SUBSET (SUBSET S) /\ B # {}
    OBVIOUS
  <2>2. PICK U \in B : \A V \in B : V \subseteq U => V = U
    <3> HIDE DEF B
    <3> QED BY <2>1, MinimalSubset
  <2>3. U \in SUBSET S /\ ~P(U) /\ IsFiniteSet(U)
    BY FS_Subset
  <2>4. U # {}
    <3>1. CASE U = {}
      <4>1. Im(U) = {}
        BY <3>1
      <4> HIDE DEF Im
      <4>2. Sum(f, U) = 0 /\ Sum(g, Im(U)) = 0
        BY <3>1, <4>1, SumEmpty, Zenon
      <4> QED BY <2>3, <4>2
    <3> QED BY <3>1
  <2> DEFINE x == Pick(U)  R == U \ {x}
  <2>5. x \in U /\ Sum(f, U) = f[x] + Sum(f, R)
    BY <2>3, <2>4, SumStep
  <2>6. R \in SUBSET S /\ R # U /\ R \subseteq U /\ x \in S
    BY <2>3, <2>5
  <2>7. P(R)
    BY <2>2, <2>6
  <2>8. IsFiniteSet(R) /\ \A y \in R : f[y] \in Int
    BY <2>6, FS_Subset, <2>3
  <2>9. h[x] \notin Im(R) /\ Im(U) = Im(R) \cup {h[x]}
    BY <2>3, <2>5
  <2>10. IsFiniteSet(Im(R)) /\ Im(R) \in SUBSET T
    BY <1>0, <2>6
  <2> HIDE DEF R, x, Im
  <2>11. h[x] \in T /\ g[h[x]] \in Nat /\ f[x] \in Int /\ f[x] <= g[h[x]]
    BY <2>6
  <2>12. \A y \in Im(R) \cup {h[x]} : g[y] \in Int
    BY <2>10, <2>11
  <2>13. Sum(g, Im(R) \cup {h[x]}) = Sum(g, Im(R)) + g[h[x]]
    BY <2>9, <2>10, <2>12, SumAdd
  <2>14. Sum(g, Im(U)) = Sum(g, Im(R)) + g[h[x]]
    BY <2>9, <2>13, Zenon
  <2>15. Sum(f, R) \in Int
    BY <2>8, SumInt
  <2>16. Sum(g, Im(R)) \in Int
    BY <2>10, <2>12, SumInt
  <2> QED BY <2>3, <2>5, <2>7, <2>11, <2>14, <2>15, <2>16
<1>2. Im(S) \in SUBSET T /\ IsFiniteSet(Im(S)) /\ IsFiniteSet(T \ Im(S))
  <2>1. T \ Im(S) \in SUBSET T
    OBVIOUS
  <2> QED BY <1>0, <2>1, FS_Subset
<1> HIDE DEF Im
<1>3. \A y \in T : g[y] \in Int
  OBVIOUS
<1>4. Sum(g, T) = Sum(g, Im(S)) + Sum(g, T \ Im(S))
  BY <1>2, <1>3, SumSplit
<1>5. Sum(g, T \ Im(S)) \in Nat
  BY <1>2, SumNat
<1>6. Sum(g, Im(S)) \in Int /\ Sum(f, S) \in Int
  BY <1>2, SumInt
<1> QED BY <1>1, <1>4, <1>5, <1>6

-----------------------------------------------------------------------------
(* Subsequences.                                                           *)

\* The positions of a finite set of numbers are counted off one by one.
LEMMA RankBijective ==
    ASSUME NEW n \in Nat, NEW I \in SUBSET (1..n)
    PROVE  /\ IsFiniteSet(I) /\ Cardinality(I) \in 0..n
           /\ \A i \in I : RankIn(I, i) \in 1..Cardinality(I)
           /\ \A i, j \in I : RankIn(I, i) = RankIn(I, j) => i = j
           /\ \A k \in 1..Cardinality(I) : \E i \in I : RankIn(I, i) = k
<1> DEFINE c == Cardinality(I)  U(i) == {j \in I : j <= i}
<1>1. IsFiniteSet(I) /\ c \in 0..n
  <2>1. IsFiniteSet(1..n) /\ Cardinality(1..n) = n
    BY FS_Interval
  <2>2. IsFiniteSet(I) /\ c <= n
    BY <2>1, FS_Subset
  <2>3. c \in Nat
    BY <2>2, FS_CardinalityType
  <2> QED BY <2>2, <2>3
<1>2. ASSUME NEW i \in I
      PROVE  IsFiniteSet(U(i)) /\ i \in U(i) /\ RankIn(I, i) = Cardinality(U(i)) /\ RankIn(I, i) \in 1..c
  <2>1. i \in Int /\ U(i) \in SUBSET I /\ i \in U(i) /\ U(i) # {}
    OBVIOUS
  <2> HIDE DEF U
  <2>2. IsFiniteSet(U(i)) /\ Cardinality(U(i)) \in Nat /\ Cardinality(U(i)) <= c /\ Cardinality(U(i)) # 0
    BY <1>1, <2>1, FS_Subset, FS_CardinalityType, FS_EmptySet
  <2>3. RankIn(I, i) = Cardinality(U(i))
    BY DEF RankIn, U
  <2> QED BY <1>1, <2>1, <2>2, <2>3
<1>3. ASSUME NEW i \in I, NEW j \in I, i < j PROVE RankIn(I, i) # RankIn(I, j)
  <2>0. \A k \in I : k \in Int
    OBVIOUS
  <2>1. U(i) \in SUBSET U(j) /\ j \in U(j) /\ j \notin U(i)
    <3>1. \A k \in I : k <= i => k <= j
      BY <1>3, <2>0
    <3>2. j <= j /\ ~(j <= i)
      BY <1>3, <2>0
    <3> QED BY <3>1, <3>2
  <2> HIDE DEF U
  <2>2. U(i) # U(j)
    BY <2>1
  <2> QED BY <1>2, <2>1, <2>2, FS_Subset
<1>4. \A i, j \in I : RankIn(I, i) = RankIn(I, j) => i = j
  <2>1. \A i, j \in I : i < j \/ j < i \/ i = j
    OBVIOUS
  <2> QED BY <1>3, <2>1
<1> DEFINE f == [i \in I |-> RankIn(I, i)]
<1>5. f \in Injection(I, 1..c)
  <2>1. f \in [I -> 1..c]
    BY <1>2
  <2>2. \A i, j \in I : f[i] = f[j] => i = j
    BY <1>4
  <2> QED BY <2>1, <2>2, Fun_IsInj
<1>6. f \in Surjection(I, 1..c)
  <2>1. IsFiniteSet(1..c) /\ Cardinality(1..c) = c
    BY <1>1, FS_Interval
  <2> HIDE DEF f
  <2> QED BY <1>1, <1>5, <2>1, FS_Injection
<1>7. \A k \in 1..c : \E i \in I : f[i] = k
  <2> HIDE DEF f, c
  <2> QED BY <1>6 DEF Surjection
<1> QED BY <1>1, <1>2, <1>4, <1>7

\* SelectAt keeps exactly the elements at the chosen positions, each once.
Selection(E, s, I, r) ==
    /\ r \in Seq(E) /\ DOMAIN r = 1..Len(r) /\ Len(r) = Cardinality(I) /\ Len(r) <= Len(s)
    /\ \A i \in I : \E k \in DOMAIN r : r[k] = s[i]
    /\ \A k \in DOMAIN r : \E i \in I : r[k] = s[i]
    /\ \A k, m \in DOMAIN r : k # m => \E i, j \in I : i # j /\ r[k] = s[i] /\ r[m] = s[j]
LEMMA SelectAtElements ==
    ASSUME NEW E, NEW s \in Seq(E), NEW I \in SUBSET (1..Len(s))
    PROVE  Selection(E, s, I, SelectAt(s, I))
<1> DEFINE r == SelectAt(s, I)
<1> DEFINE c == Cardinality(I)  p(k) == CHOOSE i \in I : RankIn(I, i) = k
<1>0. Len(s) \in Nat
  OBVIOUS
<1>1. /\ c \in 0..Len(s)
      /\ \A i \in I : RankIn(I, i) \in 1..c
      /\ \A i, j \in I : RankIn(I, i) = RankIn(I, j) => i = j
      /\ \A k \in 1..c : \E i \in I : RankIn(I, i) = k
  BY <1>0, RankBijective
<1>2. \A k \in 1..c : p(k) \in I /\ RankIn(I, p(k)) = k
  BY <1>1
<1>3. r = [k \in 1..c |-> s[p(k)]]
  BY DEF SelectAt
<1> HIDE DEF p, c, r
<1>4. \A k \in 1..c : s[p(k)] \in E
  <2>1. \A i \in 1..Len(s) : s[i] \in E
    OBVIOUS
  <2> QED BY <1>2, <2>1
<1>5. r \in Seq(E) /\ Len(r) = c
  BY <1>1, <1>3, <1>4
<1>6. \A k \in 1..c : r[k] = s[p(k)]
  BY <1>3
<1>7. \A i \in I : p(RankIn(I, i)) = i
  BY <1>1, <1>2
<1>8. \A i \in I : r[RankIn(I, i)] = s[i] /\ RankIn(I, i) \in 1..c
  BY <1>1, <1>6, <1>7
<1>9. \A k, m \in 1..c : k # m => p(k) # p(m)
  BY <1>2
<1>10. \A k, m \in 1..c : k # m => \E i, j \in I : i # j /\ r[k] = s[i] /\ r[m] = s[j]
  BY <1>2, <1>6, <1>9
<1>11. DOMAIN r = 1..c
  BY <1>3
<1>13. r \in Seq(E) /\ DOMAIN r = 1..Len(r) /\ Len(r) = Cardinality(I) /\ Len(r) <= Len(s)
  BY <1>0, <1>1, <1>5, <1>11 DEF c
<1>14. \A i \in I : \E k \in DOMAIN r : r[k] = s[i]
  BY <1>8, <1>11
<1>15. \A k \in DOMAIN r : \E i \in I : r[k] = s[i]
  BY <1>2, <1>6, <1>11
<1>16. \A k, m \in DOMAIN r : k # m => \E i, j \in I : i # j /\ r[k] = s[i] /\ r[m] = s[j]
  <2> TAKE k, m \in DOMAIN r
  <2>1. k \in 1..c /\ m \in 1..c
    BY <1>11
  <2> QED BY <1>10, <2>1
<1>12. Selection(E, s, I, r)
  BY <1>13, <1>14, <1>15, <1>16, Zenon DEF Selection
<1> QED BY <1>12 DEF r
=============================================================================
