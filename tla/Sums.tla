-------------------------------- MODULE Sums --------------------------------
(***************************************************************************)
(* Facts about the sum of an integer-valued function over a finite set     *)
(* (SumFunctionOnSet of the module Functions), which the amounts an        *)
(* account, a contract or a ledger must hold are stated with.              *)
(*                                                                         *)
(* The sum is a recursive function on the subsets of its domain.  The      *)
(* library's induction theorems take an operator as a parameter; here the  *)
(* place of the induction hypothesis is taken by a set: of the subsets for *)
(* which a claim fails there is a smallest one.                            *)
(*                                                                         *)
(* And facts about a log whose entries write a column, which the table of  *)
(* an application and the page over it are reasoned about with: a value    *)
(* the column shows is what some prefix of the log left.                   *)
(***************************************************************************)
EXTENDS FiniteSetsExt, FiniteSetTheorems, TLAPS

(* Among some subsets of a finite set there is one with no other below it. *)
LEMMA Smallest ==
  ASSUME NEW S, IsFiniteSet(S), NEW T, T \subseteq SUBSET S, T # {}
  PROVE  \E m \in T : \A u \in T : u \subseteq m => u = m
<1>1. T \subseteq FiniteSubsetsOf(S)
  BY FS_FiniteSubsetsOfFinite
<1>2. PICK m \in T : \A u \in T : <<u, m>> \notin StrictSubsetOrdering(S)
  BY <1>1, FS_StrictSubsetOrderingWellFounded, WFMin
<1>3. ASSUME NEW u \in T, u \subseteq m, u # m PROVE FALSE
  <2>1. <<u, m>> \in (SUBSET S) \X (SUBSET S)
    OBVIOUS
  <2>2. QED
    BY <1>2, <1>3, <2>1 DEF StrictSubsetOrdering
<1>4. QED
  BY <1>3
-----------------------------------------------------------------------------
(* The recursion: an element is taken out, and the rest is summed.         *)
Taken(s) == CHOOSE x \in s : TRUE

Unrolled(f, g, s) == IF s = {} THEN 0 ELSE f[Taken(s)] + g[s \ {Taken(s)}]

Solves(f, S, g) == g = [s \in SUBSET S |-> Unrolled(f, g, s)]

Solution(f, S) == CHOOSE g : Solves(f, S, g)

LEMMA SumUnfolds ==
  ASSUME NEW f, NEW S
  PROVE  SumFunctionOnSet(f, S) = Solution(f, S)[S]
BY DEF SumFunctionOnSet, FoldFunctionOnSet, MapThenFoldSet,
       Solution, Solves, Unrolled, Taken

LEMMA TakenIn == ASSUME NEW s, s # {} PROVE Taken(s) \in s
BY DEF Taken

LEMMA SolvesAt ==
  ASSUME NEW f, NEW S, NEW g, Solves(f, S, g), NEW s, s \subseteq S
  PROVE  g[s] = Unrolled(f, g, s)
BY DEF Solves

(* Two solutions agree where both are defined.                             *)
LEMMA SolutionsAgree ==
  ASSUME NEW f, NEW S, NEW T, NEW g, NEW h, IsFiniteSet(S),
         Solves(f, S, g), Solves(f, T, h), NEW s, s \subseteq S, s \subseteq T
  PROVE  g[s] = h[s]
<1> DEFINE Bad == {u \in SUBSET s : g[u] # h[u]}
<1> SUFFICES ASSUME Bad # {} PROVE FALSE
  OBVIOUS
<1>1. IsFiniteSet(s)
  BY FS_Subset
<1>2. Bad \subseteq SUBSET s
  OBVIOUS
<1> HIDE DEF Bad
<1>3. PICK m \in Bad : \A u \in Bad : u \subseteq m => u = m
  BY <1>1, <1>2, Smallest
<1>4. m \subseteq s /\ g[m] # h[m]
  BY <1>3 DEF Bad
<1>5. g[m] = Unrolled(f, g, m) /\ h[m] = Unrolled(f, h, m)
  BY <1>4, SolvesAt
<1>6. m # {}
  BY <1>4, <1>5 DEF Unrolled
<1> DEFINE r == m \ {Taken(m)}
<1>7. r \subseteq s /\ r \subseteq m /\ r # m
  BY <1>4, <1>6, TakenIn
<1>8. g[r] = h[r]
  BY <1>3, <1>7 DEF Bad
<1>9. QED
  BY <1>4, <1>5, <1>6, <1>8 DEF Unrolled

(* There is a solution on every finite set.                                *)
LEMMA SolutionExists ==
  ASSUME NEW f, NEW S, IsFiniteSet(S)
  PROVE  Solves(f, S, Solution(f, S))
<1> DEFINE Bad == {u \in SUBSET S : ~ \E g : Solves(f, u, g)}
<1>1. SUFFICES ASSUME Bad # {} PROVE FALSE
  <2>1. \E g : Solves(f, S, g)
    BY <1>1
  <2>2. QED
    BY <2>1 DEF Solution
<1>2. Bad \subseteq SUBSET S
  OBVIOUS
<1> HIDE DEF Bad
<1>3. PICK m \in Bad : \A u \in Bad : u \subseteq m => u = m
  BY <1>1, <1>2, Smallest
<1>4. m \subseteq S /\ ~ \E g : Solves(f, m, g)
  BY <1>3 DEF Bad
<1>5. ASSUME NEW u, u \subseteq m, u # m
      PROVE  IsFiniteSet(u) /\ Solves(f, u, Solution(f, u))
  <2>1. \E g : Solves(f, u, g)
    BY <1>2, <1>3, <1>4, <1>5 DEF Bad
  <2>2. IsFiniteSet(u)
    BY <1>4, <1>5, FS_Subset
  <2>3. QED
    BY <2>1, <2>2 DEF Solution
<1> DEFINE V(s) == Solution(f, s)[s]
           h == [s \in SUBSET m |-> IF s = {} THEN 0 ELSE f[Taken(s)] + V(s \ {Taken(s)})]
<1>6. ASSUME NEW s, s \subseteq m, s # m PROVE h[s] = V(s)
  <2>1. V(s) = Unrolled(f, Solution(f, s), s)
    BY <1>5, <1>6, SolvesAt
  <2>2. CASE s = {}
    BY <2>1, <2>2 DEF Unrolled
  <2>3. CASE s # {}
    <3> DEFINE r == s \ {Taken(s)}
    <3>1. r \subseteq s /\ r \subseteq m /\ r # m
      BY <1>6, <2>3, TakenIn
    <3>2. Solution(f, s)[r] = V(r)
      BY <1>5, <1>6, <3>1, SolutionsAgree
    <3>3. QED
      BY <1>6, <2>1, <2>3, <3>2 DEF Unrolled
  <2>4. QED
    BY <2>2, <2>3
<1>7. ASSUME NEW s \in SUBSET m PROVE h[s] = Unrolled(f, h, s)
  <2>1. CASE s = {}
    BY <2>1 DEF Unrolled
  <2>2. CASE s # {}
    <3> DEFINE r == s \ {Taken(s)}
    <3>1. r \subseteq m /\ r # m
      BY <1>7, <2>2, TakenIn
    <3>2. h[r] = V(r)
      BY <1>6, <3>1
    <3>3. h[s] = f[Taken(s)] + V(r)
      BY <1>7, <2>2
    <3> HIDE DEF h
    <3>4. QED
      BY <2>2, <3>2, <3>3 DEF Unrolled
  <2>3. QED
    BY <2>1, <2>2
<1>8. Solves(f, m, h)
  <2>1. DOMAIN h = SUBSET m /\ h = [s \in DOMAIN h |-> h[s]]
    OBVIOUS
  <2> HIDE DEF h
  <2>2. QED
    BY <1>7, <2>1 DEF Solves
<1>9. QED
  BY <1>4, <1>8
-----------------------------------------------------------------------------
(* The sum over a set, taken apart.                                        *)
LEMMA SumEmpty == ASSUME NEW f PROVE SumFunctionOnSet(f, {}) = 0
<1>1. Solves(f, {}, Solution(f, {}))
  BY SolutionExists, FS_EmptySet
<1>2. QED
  BY <1>1, SumUnfolds, SolvesAt DEF Unrolled

LEMMA SumTaken ==
  ASSUME NEW f, NEW S, IsFiniteSet(S), S # {}
  PROVE  /\ Taken(S) \in S
         /\ SumFunctionOnSet(f, S) =
              f[Taken(S)] + SumFunctionOnSet(f, S \ {Taken(S)})
<1> DEFINE r == S \ {Taken(S)}
<1>1. IsFiniteSet(r) /\ r \subseteq S
  BY FS_Subset
<1>2. Solves(f, S, Solution(f, S)) /\ Solves(f, r, Solution(f, r))
  BY <1>1, SolutionExists
<1>3. Solution(f, S)[r] = Solution(f, r)[r]
  BY <1>1, <1>2, SolutionsAgree
<1>4. Solution(f, S)[S] = f[Taken(S)] + Solution(f, S)[r]
  BY <1>2, SolvesAt DEF Unrolled
<1>5. QED
  BY <1>3, <1>4, SumUnfolds, TakenIn

(* A sum of integers is an integer, and one of naturals is a natural.      *)
LEMMA SumInt ==
  ASSUME NEW f, NEW S, IsFiniteSet(S), \A x \in S : f[x] \in Int
  PROVE  SumFunctionOnSet(f, S) \in Int
<1> DEFINE Bad == {u \in SUBSET S : SumFunctionOnSet(f, u) \notin Int}
<1> SUFFICES ASSUME Bad # {} PROVE FALSE
  OBVIOUS
<1>1. Bad \subseteq SUBSET S
  OBVIOUS
<1> HIDE DEF Bad
<1>2. PICK m \in Bad : \A u \in Bad : u \subseteq m => u = m
  BY <1>1, Smallest
<1>3. m \subseteq S /\ SumFunctionOnSet(f, m) \notin Int /\ IsFiniteSet(m)
  BY <1>2, FS_Subset DEF Bad
<1>4. m # {}
  BY <1>3, SumEmpty
<1>5. Taken(m) \in m /\ SumFunctionOnSet(f, m \ {Taken(m)}) \in Int
  BY <1>2, <1>3, <1>4, TakenIn DEF Bad
<1>6. QED
  BY <1>3, <1>4, <1>5, SumTaken

LEMMA SumNat ==
  ASSUME NEW f, NEW S, IsFiniteSet(S), \A x \in S : f[x] \in Nat
  PROVE  SumFunctionOnSet(f, S) \in Nat
<1> DEFINE Bad == {u \in SUBSET S : SumFunctionOnSet(f, u) \notin Nat}
<1> SUFFICES ASSUME Bad # {} PROVE FALSE
  OBVIOUS
<1>1. Bad \subseteq SUBSET S
  OBVIOUS
<1> HIDE DEF Bad
<1>2. PICK m \in Bad : \A u \in Bad : u \subseteq m => u = m
  BY <1>1, Smallest
<1>3. m \subseteq S /\ SumFunctionOnSet(f, m) \notin Nat /\ IsFiniteSet(m)
  BY <1>2, FS_Subset DEF Bad
<1>4. m # {}
  BY <1>3, SumEmpty
<1>5. Taken(m) \in m /\ SumFunctionOnSet(f, m \ {Taken(m)}) \in Nat
  BY <1>2, <1>3, <1>4, TakenIn DEF Bad
<1>6. QED
  BY <1>3, <1>4, <1>5, SumTaken

(* The order in which the elements are taken out does not matter.          *)
LEMMA SumWithout ==
  ASSUME NEW f, NEW S, IsFiniteSet(S), \A x \in S : f[x] \in Int, NEW x \in S
  PROVE  SumFunctionOnSet(f, S) = f[x] + SumFunctionOnSet(f, S \ {x})
<1> DEFINE Sum(u) == SumFunctionOnSet(f, u)
           Bad == {u \in SUBSET S : \E y \in u : Sum(u) # f[y] + Sum(u \ {y})}
<1> SUFFICES ASSUME Bad # {} PROVE FALSE
  OBVIOUS
<1>1. Bad \subseteq SUBSET S
  OBVIOUS
<1> HIDE DEF Bad, Sum
<1>2. PICK m \in Bad : \A u \in Bad : u \subseteq m => u = m
  BY <1>1, Smallest
<1>3. PICK y \in m : Sum(m) # f[y] + Sum(m \ {y})
  BY <1>2 DEF Bad
<1> DEFINE t == Taken(m)
           r == (m \ {t}) \ {y}
<1>4. m \subseteq S /\ IsFiniteSet(m) /\ t \in m /\ Sum(m) = f[t] + Sum(m \ {t})
  BY <1>2, <1>3, FS_Subset, SumTaken DEF Bad, Sum
<1>5. t # y
  BY <1>3, <1>4
<1>6. Sum(m \ {t}) = f[y] + Sum(r)
  BY <1>1, <1>2, <1>4, <1>5 DEF Bad
<1>7. Sum(m \ {y}) = f[t] + Sum(r)
  <2>1. r = (m \ {y}) \ {t} /\ t \in m \ {y}
    BY <1>4, <1>5
  <2>2. m \ {y} \notin Bad
    BY <1>2
  <2>3. QED
    BY <1>4, <2>1, <2>2 DEF Bad
<1>8. f[t] \in Int /\ f[y] \in Int /\ Sum(r) \in Int
  BY <1>4, FS_Subset, SumInt DEF Sum
<1>9. QED
  BY <1>3, <1>4, <1>6, <1>7, <1>8

(* Sums of functions that agree, or all of whose values are zero.          *)
LEMMA SumSame ==
  ASSUME NEW f, NEW g, NEW S, IsFiniteSet(S), \A x \in S : f[x] = g[x]
  PROVE  SumFunctionOnSet(f, S) = SumFunctionOnSet(g, S)
<1> DEFINE Bad == {u \in SUBSET S : SumFunctionOnSet(f, u) # SumFunctionOnSet(g, u)}
<1> SUFFICES ASSUME Bad # {} PROVE FALSE
  OBVIOUS
<1>1. Bad \subseteq SUBSET S
  OBVIOUS
<1> HIDE DEF Bad
<1>2. PICK m \in Bad : \A u \in Bad : u \subseteq m => u = m
  BY <1>1, Smallest
<1>3. m \subseteq S /\ SumFunctionOnSet(f, m) # SumFunctionOnSet(g, m) /\ IsFiniteSet(m)
  BY <1>2, FS_Subset DEF Bad
<1>4. m # {}
  BY <1>3, SumEmpty
<1>5. Taken(m) \in m
  BY <1>4, TakenIn
<1>6. SumFunctionOnSet(f, m \ {Taken(m)}) = SumFunctionOnSet(g, m \ {Taken(m)})
  BY <1>2, <1>3, <1>5 DEF Bad
<1>7. QED
  BY <1>3, <1>4, <1>5, <1>6, SumTaken

LEMMA SumZero ==
  ASSUME NEW f, NEW S, IsFiniteSet(S), \A x \in S : f[x] = 0
  PROVE  SumFunctionOnSet(f, S) = 0
<1> DEFINE Bad == {u \in SUBSET S : SumFunctionOnSet(f, u) # 0}
<1> SUFFICES ASSUME Bad # {} PROVE FALSE
  OBVIOUS
<1>1. Bad \subseteq SUBSET S
  OBVIOUS
<1> HIDE DEF Bad
<1>2. PICK m \in Bad : \A u \in Bad : u \subseteq m => u = m
  BY <1>1, Smallest
<1>3. m \subseteq S /\ SumFunctionOnSet(f, m) # 0 /\ IsFiniteSet(m)
  BY <1>2, FS_Subset DEF Bad
<1>4. m # {}
  BY <1>3, SumEmpty
<1>5. Taken(m) \in m /\ SumFunctionOnSet(f, m \ {Taken(m)}) = 0
  BY <1>2, <1>3, <1>4, TakenIn DEF Bad
<1>6. QED
  BY <1>3, <1>4, <1>5, SumTaken

(* What a step that changes one value does to the sum.                     *)
LEMMA SumChanged ==
  ASSUME NEW f, NEW g, NEW S, IsFiniteSet(S), NEW x \in S,
         \A y \in S : f[y] \in Int /\ g[y] \in Int,
         \A y \in S \ {x} : g[y] = f[y]
  PROVE  SumFunctionOnSet(g, S) = SumFunctionOnSet(f, S) - f[x] + g[x]
<1>1. IsFiniteSet(S \ {x})
  BY FS_Subset
<1>2. SumFunctionOnSet(g, S \ {x}) = SumFunctionOnSet(f, S \ {x})
  BY <1>1, SumSame
<1>3. SumFunctionOnSet(f, S \ {x}) \in Int
  BY <1>1, SumInt
<1>4. QED
  BY <1>2, <1>3, SumWithout

(* A total that moves with the one term that moves is still the total.     *)
LEMMA SumFollows ==
  ASSUME NEW f, NEW g, NEW S, IsFiniteSet(S), NEW x \in S,
         \A y \in S : f[y] \in Int /\ g[y] \in Int,
         \A y \in S \ {x} : g[y] = f[y],
         NEW t \in Int, NEW u \in Int,
         t = SumFunctionOnSet(f, S), u - g[x] = t - f[x]
  PROVE  u = SumFunctionOnSet(g, S)
<1>1. SumFunctionOnSet(g, S) = t - f[x] + g[x]
  BY SumChanged
<1>2. QED
  BY <1>1

(* A sum of natural numbers is at least each of them.                      *)
LEMMA SumBounds ==
  ASSUME NEW f, NEW S, IsFiniteSet(S), \A x \in S : f[x] \in Nat, NEW x \in S
  PROVE  f[x] <= SumFunctionOnSet(f, S)
<1>1. SumFunctionOnSet(f, S \ {x}) \in Nat
  BY FS_Subset, SumNat
<1>2. QED
  BY <1>1, SumWithout

(* A sum is what a part of the set has, and what the rest of it has.       *)
LEMMA SumSplit ==
  ASSUME NEW f, NEW S, IsFiniteSet(S), \A x \in S : f[x] \in Int, NEW T, T \subseteq S
  PROVE  SumFunctionOnSet(f, S) = SumFunctionOnSet(f, T) + SumFunctionOnSet(f, S \ T)
<1> DEFINE Sum(u) == SumFunctionOnSet(f, u)
           Bad == {u \in SUBSET T : Sum(S) # Sum(u) + Sum(S \ u)}
<1> SUFFICES ASSUME Bad # {} PROVE FALSE
  OBVIOUS
<1>1. Bad \subseteq SUBSET T /\ IsFiniteSet(T)
  BY FS_Subset
<1>2. \A u \in SUBSET S : IsFiniteSet(u) /\ Sum(u) \in Int
  BY FS_Subset, SumInt
<1> HIDE DEF Bad, Sum
<1>3. PICK m \in Bad : \A u \in Bad : u \subseteq m => u = m
  BY <1>1, Smallest
<1>4. m \in SUBSET T /\ Sum(S) # Sum(m) + Sum(S \ m)
  BY <1>3 DEF Bad
<1>5. m # {}
  <2> SUFFICES ASSUME m = {} PROVE FALSE
    OBVIOUS
  <2>1. Sum({}) = 0 /\ Sum(S) \in Int
    BY <1>2, SumEmpty DEF Sum
  <2>2. S \ m = S
    OBVIOUS
  <2>3. Sum(S \ m) = Sum(S) /\ Sum(m) = 0
    BY <2>1, <2>2
  <2>4. QED
    BY <1>4, <2>1, <2>3
<1>6. PICK x \in m : TRUE
  BY <1>5
<1>7. Sum(S) = Sum(m \ {x}) + Sum(S \ (m \ {x}))
  BY <1>3, <1>4, <1>6 DEF Bad
<1>8. Sum(m) = f[x] + Sum(m \ {x})
  BY <1>2, <1>4, <1>6, SumWithout DEF Sum
<1>9. Sum(S \ (m \ {x})) = f[x] + Sum(S \ m)
  <2> DEFINE r == S \ (m \ {x})
  <2>1. IsFiniteSet(r) /\ x \in r /\ r \subseteq S /\ r \ {x} = S \ m
    BY <1>2, <1>4, <1>6
  <2> HIDE DEF r
  <2>2. Sum(r) = f[x] + Sum(r \ {x})
    BY <2>1, SumWithout DEF Sum
  <2>3. QED
    BY <2>1, <2>2 DEF r
<1>10. /\ f[x] \in Int /\ Sum(m \ {x}) \in Int /\ Sum(S \ m) \in Int
       /\ Sum(m) \in Int /\ Sum(S) \in Int
  BY <1>2, <1>4, <1>6
<1>11. QED
  BY <1>4, <1>7, <1>8, <1>9, <1>10

(* Adding one element adds its value.                                      *)
LEMMA SumAdded ==
  ASSUME NEW f, NEW S, IsFiniteSet(S), NEW x, x \notin S,
         \A y \in S \cup {x} : f[y] \in Int
  PROVE  SumFunctionOnSet(f, S \cup {x}) = f[x] + SumFunctionOnSet(f, S)
<1>1. IsFiniteSet(S \cup {x}) /\ (S \cup {x}) \ {x} = S
  BY FS_AddElement
<1>2. QED
  BY <1>1, SumWithout
-----------------------------------------------------------------------------
(* What the first entries of a log add up to.                              *)
LEMMA SumNext ==
  ASSUME NEW f, NEW k \in Nat, \A n \in 1..(k + 1) : f[n] \in Int
  PROVE  SumFunctionOnSet(f, 1..(k + 1)) = SumFunctionOnSet(f, 1..k) + f[k + 1]
<1>1. IsFiniteSet(1..k)
  BY FS_Interval
<1>2. k + 1 \notin 1..k /\ 1..(k + 1) = 1..k \cup {k + 1}
  OBVIOUS
<1>3. \A n \in 1..k \cup {k + 1} : f[n] \in Int
  BY <1>2
<1>4. SumFunctionOnSet(f, 1..k \cup {k + 1}) = f[k + 1] + SumFunctionOnSet(f, 1..k)
  BY <1>1, <1>2, <1>3, SumAdded
<1>5. SumFunctionOnSet(f, 1..k) \in Int /\ f[k + 1] \in Int
  BY <1>1, <1>3, SumInt
<1>6. SumFunctionOnSet(f, 1..(k + 1)) = SumFunctionOnSet(f, 1..k \cup {k + 1})
  BY <1>2, Zenon
<1>7. QED
  BY <1>4, <1>5, <1>6

LEMMA SumGrows ==
  ASSUME NEW f, NEW j \in Nat, NEW k \in Nat, j <= k, \A n \in 1..k : f[n] \in Nat
  PROVE  /\ SumFunctionOnSet(f, 1..j) \in Nat
         /\ SumFunctionOnSet(f, 1..k) \in Nat
         /\ SumFunctionOnSet(f, 1..j) <= SumFunctionOnSet(f, 1..k)
<1>1. IsFiniteSet(1..k) /\ 1..j \subseteq 1..k
  BY FS_Interval
<1>2. IsFiniteSet(1..j) /\ IsFiniteSet(1..k \ 1..j)
  BY <1>1, FS_Subset
<1>3. /\ SumFunctionOnSet(f, 1..j) \in Nat
      /\ SumFunctionOnSet(f, 1..k) \in Nat
      /\ SumFunctionOnSet(f, 1..k \ 1..j) \in Nat
  BY <1>1, <1>2, SumNat
<1>4. SumFunctionOnSet(f, 1..k)
        = SumFunctionOnSet(f, 1..j) + SumFunctionOnSet(f, 1..k \ 1..j)
  BY <1>1, SumSplit
<1>5. QED
  BY <1>3, <1>4
-----------------------------------------------------------------------------
(* A log of writes: w holds the positions at which a variable was written, *)
(* f what was written there.  After j entries the variable shows v when v  *)
(* is what the last write up to there left in it.                          *)
Shows(w, f, j, v) == \E n \in w : n <= j /\ v = f[n] /\ \A m \in w : m <= j => m <= n

LEMMA ShowsOne ==
  ASSUME NEW w \in SUBSET Nat, NEW f, NEW j \in Nat, NEW u, NEW v,
         Shows(w, f, j, u), Shows(w, f, j, v)
  PROVE  u = v
<1>1. PICK n \in w : n <= j /\ u = f[n] /\ \A m \in w : m <= j => m <= n
  BY DEF Shows
<1>2. PICK k \in w : k <= j /\ v = f[k] /\ \A m \in w : m <= j => m <= k
  BY DEF Shows
<1>3. n = k
  BY <1>1, <1>2
<1>4. QED
  BY <1>1, <1>2, <1>3

(* An entry that does not write leaves the value.                          *)
LEMMA ShowsStill ==
  ASSUME NEW w \in SUBSET Nat, NEW f, NEW j \in Nat, NEW v, Shows(w, f, j, v), j + 1 \notin w
  PROVE  Shows(w, f, j + 1, v)
<1>1. PICK n \in w : n <= j /\ v = f[n] /\ \A m \in w : m <= j => m <= n
  BY DEF Shows
<1>2. \A m \in w : m <= j + 1 => m <= j
  OBVIOUS
<1>3. QED
  BY <1>1, <1>2 DEF Shows

(* An entry that writes leaves what it writes.                             *)
LEMMA ShowsWritten ==
  ASSUME NEW w, NEW f, NEW j \in w
  PROVE  j \in Nat => Shows(w, f, j, f[j])
  BY DEF Shows

(* What was written before the first entry is there until it is written    *)
(* over.                                                                   *)
LEMMA ShowsLater ==
  ASSUME NEW w \in SUBSET Nat, NEW f, NEW j \in Nat, NEW v, NEW n \in w, n <= j,
         Shows(w, f, j, v)
  PROVE  \E m \in w : n <= m /\ m <= j /\ v = f[m]
  BY DEF Shows

(* A log that has grown shows what it showed.                              *)
LEMMA ShowsGrown ==
  ASSUME NEW w \in SUBSET Nat, NEW x \in SUBSET Nat, NEW f, NEW g, NEW j \in Nat, NEW v,
         \A n \in Nat : n <= j => (n \in x <=> n \in w) /\ g[n] = f[n],
         Shows(w, f, j, v)
  PROVE  Shows(x, g, j, v)
<1>1. PICK n \in w : n <= j /\ v = f[n] /\ \A m \in w : m <= j => m <= n
  BY DEF Shows
<1>2. QED
  BY <1>1 DEF Shows
=============================================================================
