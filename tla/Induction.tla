------------------------------ MODULE Induction ------------------------------
(***************************************************************************)
(* Induction over the naturals, sequences and finite sets, for the proofs  *)
(* about recursively defined functions and folds.  The library states it for a   *)
(* predicate; these lemmas state it for a set and for a function that      *)
(* gives each step, which are values, so that a proof can name them.       *)
(***************************************************************************)
EXTENDS Integers, Sequences, FiniteSets, FiniteSetsExt, FiniteSetTheorems,
        WellFoundedInduction, TLAPS

\* Every non-empty set of naturals has a least element.
LEMMA LeastNat ==
  ASSUME NEW T, T \subseteq Nat, T # {}
  PROVE  \E x \in T : \A y \in T : x <= y
<1> DEFINE R == OpToRel(<, Nat)
<1>1. IsWellFoundedOn(R, Nat)
  BY NatLessThanWellFounded
<1>2. \A y, x \in Nat : y < x => <<y, x>> \in R
  BY DEF OpToRel
<1> HIDE DEF R
<1>3. PICK x \in T : \A y \in T : ~ (<<y, x>> \in R)
  BY <1>1, WFMin
<1>4. \A y \in T : ~ (y < x)
  BY <1>2, <1>3
<1> QED
  BY <1>4

\* A set with 0 and the successor of each of its members has every natural.
LEMMA SetInduction ==
  ASSUME NEW S, 0 \in S, \A n \in Nat : n \in S => n + 1 \in S
  PROVE  Nat \subseteq S
<1> SUFFICES ASSUME Nat \ S # {} PROVE FALSE
  OBVIOUS
<1>1. PICK x \in Nat \ S : \A y \in Nat \ S : x <= y
  BY LeastNat
<1>2. x - 1 \in Nat /\ x = (x - 1) + 1
  BY <1>1
<1>3. x - 1 \in S
  BY <1>1, <1>2
<1> QED
  BY <1>1, <1>2, <1>3

\* A set with 0 and, below a bound, the successor of each member goes that far.
LEMMA ChainInduction ==
  ASSUME NEW m \in Nat, NEW J, 0 \in J, \A i \in 1 .. m : i - 1 \in J => i \in J
  PROVE  \A i \in 0 .. m : i \in J
<1> DEFINE S == {i \in Nat : i <= m => i \in J}
<1>1. 0 \in S
  OBVIOUS
<1>2. ASSUME NEW i \in Nat, i \in S PROVE i + 1 \in S
  <2> SUFFICES ASSUME i + 1 <= m PROVE i + 1 \in J
    OBVIOUS
  <2>1. i + 1 \in 1 .. m /\ (i + 1) - 1 = i /\ i \in J
    BY <1>2
  <2> QED
    BY <2>1
<1>3. Nat \subseteq S
  <2> HIDE DEF S
  <2> QED
    BY <1>1, <1>2, SetInduction
<1> QED
  BY <1>3

\* f starts with "start" and takes the step of its index each time.
Iterates(f, V, start, step) ==
  /\ f \in [Nat -> V]
  /\ f[0] = start
  /\ \A n \in Nat : f[n + 1] = step[n][f[n]]

\* A start and a step for each natural define a sequence of values.
LEMMA Iteration ==
  ASSUME NEW V, NEW start \in V, NEW step \in [Nat -> [V -> V]]
  PROVE  \E f : Iterates(f, V, start, step)
<1> DEFINE Upto(n, g) == /\ g \in [Nat -> V]
                         /\ g[0] = start
                         /\ \A i \in Nat : i < n => g[i + 1] = step[i][g[i]]
           S == {n \in Nat : \E g \in [Nat -> V] : Upto(n, g)}
<1>1. 0 \in S
  <2> DEFINE g == [i \in Nat |-> start]
  <2>1. g \in [Nat -> V] /\ g[0] = start
    OBVIOUS
  <2>2. \A i \in Nat : ~ (i < 0)
    OBVIOUS
  <2> HIDE DEF g
  <2>3. Upto(0, g)
    BY <2>1, <2>2
  <2> QED
    BY <2>1, <2>3
<1>2. ASSUME NEW n \in Nat, n \in S PROVE n + 1 \in S
  <2>1. PICK g \in [Nat -> V] : Upto(n, g)
    BY <1>2
  <2> DEFINE next == step[n][g[n]]
             h == [g EXCEPT ![n + 1] = next]
  <2>2. next \in V /\ n + 1 \in Nat /\ n + 1 # 0
    OBVIOUS
  <2> HIDE DEF next
  <2>3. /\ h \in [Nat -> V]
        /\ h[n + 1] = next
        /\ \A i \in Nat : i # n + 1 => h[i] = g[i]
    BY <2>2
  <2> HIDE DEF h
  <2>4. ASSUME NEW i \in Nat, i < n + 1 PROVE h[i + 1] = step[i][h[i]]
    <3>1. h[i] = g[i]
      BY <2>3, <2>4
    <3>2. CASE i = n
      BY <2>3, <3>1, <3>2 DEF next
    <3>3. CASE i < n
      <4>1. i + 1 # n + 1 /\ i + 1 \in Nat
        BY <3>3
      <4>2. h[i + 1] = g[i + 1]
        BY <2>3, <4>1
      <4> QED
        BY <2>1, <3>1, <3>3, <4>2
    <3> QED
      BY <2>4, <3>2, <3>3
  <2>5. Upto(n + 1, h)
    BY <2>1, <2>2, <2>3, <2>4
  <2> QED
    BY <2>2, <2>3, <2>5
<1>3. Nat \subseteq S
  <2> HIDE DEF S
  <2> QED
    BY <1>1, <1>2, SetInduction
<1>4. ASSUME NEW n \in Nat, NEW m \in Nat, NEW g, NEW h, Upto(n, g), Upto(m, h)
      PROVE  \A i \in Nat : i <= n /\ i <= m => g[i] = h[i]
  <2> DEFINE Same == {i \in Nat : i <= n /\ i <= m => g[i] = h[i]}
  <2>1. 0 \in Same
    BY <1>4
  <2>2. ASSUME NEW i \in Nat, i \in Same PROVE i + 1 \in Same
    <3> SUFFICES ASSUME i + 1 <= n, i + 1 <= m PROVE g[i + 1] = h[i + 1]
      OBVIOUS
    <3>1. i < n /\ i < m /\ g[i] = h[i]
      BY <2>2
    <3> QED
      BY <1>4, <3>1
  <2>3. Nat \subseteq Same
    <3> HIDE DEF Same
    <3> QED
      BY <2>1, <2>2, SetInduction
  <2> QED
    BY <2>3
<1> DEFINE part(n) == CHOOSE g \in [Nat -> V] : Upto(n, g)
           f == [n \in Nat |-> part(n)[n]]
<1>5. \A n \in Nat : part(n) \in [Nat -> V] /\ Upto(n, part(n))
  BY <1>3
<1> HIDE DEF part, S
<1>6. f \in [Nat -> V] /\ f[0] = start
  BY <1>5
<1>7. ASSUME NEW n \in Nat PROVE f[n + 1] = step[n][f[n]]
  <2>1. part(n + 1)[n + 1] = step[n][part(n + 1)[n]]
    BY <1>5
  <2>2. part(n + 1)[n] = part(n)[n]
    <3>1. n + 1 \in Nat /\ n <= n + 1 /\ n <= n
      OBVIOUS
    <3>2. Upto(n, part(n)) /\ Upto(n + 1, part(n + 1))
      BY <1>5, <3>1
    <3> HIDE DEF Upto
    <3> QED
      BY <1>4, <3>1, <3>2
  <2> QED
    BY <2>1, <2>2
<1> QED
  BY <1>6, <1>7 DEF Iterates

-----------------------------------------------------------------------------
(* The subsets of a finite set, taken apart by a function "pick" that names *)
(* a member of each: the way a fold of the community modules goes.          *)

Picks(S, pick) == \A T \in SUBSET S : T # {} => pick[T] \in T

\* Taking the picked member away makes a finite set smaller by one.
LEMMA PickedAway ==
  ASSUME NEW S, IsFiniteSet(S), NEW pick, Picks(S, pick),
         NEW T \in SUBSET S, T # {}
  PROVE  /\ pick[T] \in T /\ T \ {pick[T]} \in SUBSET S
         /\ Cardinality(T) \in Nat /\ Cardinality(T \ {pick[T]}) \in Nat
         /\ Cardinality(T) = Cardinality(T \ {pick[T]}) + 1
<1>1. pick[T] \in T
  BY DEF Picks
<1>2. IsFiniteSet(T) /\ IsFiniteSet(T \ {pick[T]})
  BY FS_Subset, FS_RemoveElement
<1>3. Cardinality(T \ {pick[T]}) = Cardinality(T) - 1
  BY <1>1, <1>2, FS_RemoveElement
<1> QED
  BY <1>1, <1>2, <1>3, FS_CardinalityType

\* A set with {} and each T from which pick leads to a member has all subsets.
LEMMA SubsetInduction ==
  ASSUME NEW S, IsFiniteSet(S), NEW pick, Picks(S, pick), NEW G, {} \in G,
         \A T \in SUBSET S : T # {} /\ T \ {pick[T]} \in G => T \in G
  PROVE  SUBSET S \subseteq G
<1> DEFINE N == {n \in Nat : \A T \in SUBSET S : Cardinality(T) = n => T \in G}
<1>1. 0 \in N
  <2> SUFFICES ASSUME NEW T \in SUBSET S, Cardinality(T) = 0 PROVE T \in G
    OBVIOUS
  <2>1. T = {}
    BY FS_Subset, FS_EmptySet
  <2> QED
    BY <2>1
<1>2. ASSUME NEW n \in Nat, n \in N PROVE n + 1 \in N
  <2> SUFFICES ASSUME NEW T \in SUBSET S, Cardinality(T) = n + 1 PROVE T \in G
    OBVIOUS
  <2>1. T # {}
    BY FS_EmptySet
  <2>2. T \ {pick[T]} \in SUBSET S /\ Cardinality(T \ {pick[T]}) = n
    BY <2>1, PickedAway
  <2>3. T \ {pick[T]} \in G
    BY <1>2, <2>2
  <2> QED
    BY <2>1, <2>3
<1>3. Nat \subseteq N
  <2> HIDE DEF N
  <2> QED
    BY <1>1, <1>2, SetInduction
<1>4. \A T \in SUBSET S : Cardinality(T) \in N
  BY <1>3, FS_Subset, FS_CardinalityType
<1> QED
  BY <1>4

\* iter is the fold of "step" over the subsets of S, from "base".
IsFold(iter, S, V, pick, base, step) ==
  /\ iter \in [SUBSET S -> V]
  /\ iter = [T \in SUBSET S |->
               IF T = {} THEN base ELSE step[pick[T]][iter[T \ {pick[T]}]]]

\* Every base and step define a fold over a finite set.
LEMMA SubsetIteration ==
  ASSUME NEW S, IsFiniteSet(S), NEW pick, Picks(S, pick),
         NEW V, NEW base \in V, NEW step \in [S -> [V -> V]]
  PROVE  \E iter : IsFold(iter, S, V, pick, base, step)
<1> DEFINE W == [SUBSET S -> V]
           start == [T \in SUBSET S |-> base]
           next(h) == [T \in SUBSET S |->
                         IF T = {} THEN base ELSE step[pick[T]][h[T \ {pick[T]}]]]
           steps == [n \in Nat |-> [h \in W |-> next(h)]]
<1>1. start \in W
  OBVIOUS
<1>2. ASSUME NEW h \in W PROVE next(h) \in W
  <2>1. ASSUME NEW T \in SUBSET S, T # {}
        PROVE  step[pick[T]][h[T \ {pick[T]}]] \in V
    <3>1. pick[T] \in S /\ T \ {pick[T]} \in SUBSET S
      BY <2>1, PickedAway
    <3>2. step[pick[T]] \in [V -> V] /\ h[T \ {pick[T]}] \in V
      BY <3>1
    <3> QED
      BY <3>2
  <2> QED
    BY <2>1
<1>3. steps \in [Nat -> [W -> W]]
  <2> HIDE DEF W, next
  <2> QED
    BY <1>2
<1>4. PICK f : Iterates(f, W, start, steps)
  <2> HIDE DEF W, start, steps
  <2> QED
    BY <1>1, <1>3, Iteration, Zenon
<1>5. /\ f \in [Nat -> W]
      /\ f[0] = start
      /\ \A n \in Nat : f[n + 1] = next(f[n])
  <2> HIDE DEF W, start, next
  <2> QED
    BY <1>4 DEF Iterates
<1>5a. ASSUME NEW h \in W, NEW T \in SUBSET S
       PROVE  next(h)[T] = IF T = {} THEN base ELSE step[pick[T]][h[T \ {pick[T]}]]
  OBVIOUS
<1>5b. start[{}] = base
  OBVIOUS
<1> HIDE DEF next, W, start
<1> DEFINE M == {n \in Nat : \A T \in SUBSET S : Cardinality(T) <= n
                                => f[n + 1][T] = f[n][T]}
<1>6. 0 \in M
  <2> SUFFICES ASSUME NEW T \in SUBSET S, Cardinality(T) <= 0
               PROVE  f[0 + 1][T] = f[0][T]
    OBVIOUS
  <2>1. T = {}
    <3> SUFFICES ASSUME T # {} PROVE FALSE
      OBVIOUS
    <3> DEFINE R == T \ {pick[T]}
    <3>1. Cardinality(R) \in Nat /\ Cardinality(T) = Cardinality(R) + 1
      BY PickedAway
    <3> HIDE DEF R
    <3> QED
      BY <3>1
  <2> QED
    <3>1. f[1] = next(f[0]) /\ f[0] = start /\ f[0] \in W
      BY <1>5
    <3>2. f[1][{}] = base
      BY <3>1, <1>5a
    <3> QED
      BY <2>1, <3>1, <3>2, <1>5b
<1>7. ASSUME NEW n \in Nat, n \in M PROVE n + 1 \in M
  <2> SUFFICES ASSUME NEW T \in SUBSET S, Cardinality(T) <= n + 1
               PROVE  f[(n + 1) + 1][T] = f[n + 1][T]
    OBVIOUS
  <2>1. /\ f[n] \in W /\ f[n + 1] \in W
        /\ f[(n + 1) + 1] = next(f[n + 1]) /\ f[n + 1] = next(f[n])
    BY <1>5
  <2>2. CASE T = {}
    BY <2>1, <2>2, <1>5a
  <2>3. CASE T # {}
    <3> DEFINE R == T \ {pick[T]}
    <3>1. R \in SUBSET S /\ Cardinality(R) <= n
      <4>1. /\ R \in SUBSET S /\ Cardinality(R) \in Nat /\ Cardinality(T) \in Nat
            /\ Cardinality(T) = Cardinality(R) + 1
        BY <2>3, PickedAway
      <4> HIDE DEF R
      <4> QED
        BY <4>1
    <3>2. f[n + 1][R] = f[n][R]
      BY <1>7, <3>1
    <3>3. /\ next(f[n + 1])[T] = step[pick[T]][f[n + 1][R]]
          /\ next(f[n])[T] = step[pick[T]][f[n][R]]
      BY <2>1, <2>3, <1>5a
    <3> QED
      BY <2>1, <3>2, <3>3
  <2> QED
    BY <2>2, <2>3
<1>8. Nat \subseteq M
  <2> HIDE DEF M
  <2> QED
    BY <1>6, <1>7, SetInduction
<1> DEFINE c == Cardinality(S)
<1>9. c \in Nat /\ \A T \in SUBSET S : Cardinality(T) <= c
  BY FS_CardinalityType, FS_Subset
<1> HIDE DEF c
<1>10. f[c] \in W /\ f[c + 1] \in W /\ f[c + 1] = next(f[c])
  BY <1>5, <1>9
<1>11. f[c + 1] = f[c]
  <2>1. \A T \in SUBSET S : f[c + 1][T] = f[c][T]
    BY <1>8, <1>9
  <2> QED
    BY <1>10, <2>1 DEF W
<1>12. IsFold(f[c], S, V, pick, base, step)
  BY <1>10, <1>11 DEF IsFold, W, next
<1> QED
  BY <1>12

-----------------------------------------------------------------------------
(* A fold of the community modules over a sequence takes the positions of   *)
(* the sequence from the largest down.                                      *)

\* Of the positions of a sequence, each non-empty part has its largest.
LEMMA LargestPosition ==
  ASSUME NEW n \in Nat, NEW T \in SUBSET (1 .. n), T # {}
  PROVE  Max(T) \in T /\ \A x \in T : Max(T) >= x
<1> DEFINE D == {d \in Nat : n - d \in T}
<1>1. D \subseteq Nat /\ D # {}
  <2>1. PICK x \in T : TRUE
    OBVIOUS
  <2>2. n - x \in Nat /\ n - (n - x) = x
    OBVIOUS
  <2> QED
    BY <2>1, <2>2
<1>2. PICK d \in D : \A e \in D : d <= e
  <2> HIDE DEF D
  <2> QED
    BY <1>1, LeastNat
<1>3. ASSUME NEW x \in T PROVE n - d >= x
  <2>1. x \in Int /\ n - x \in Nat /\ n - (n - x) = x
    OBVIOUS
  <2>2. n - x \in D
    BY <2>1
  <2> QED
    BY <1>2, <2>1, <2>2
<1>4. \E m \in T : \A x \in T : m >= x
  BY <1>2, <1>3
<1> QED
  BY <1>4 DEF Max

\* Without the last position, those before it are left.
LEMMA LastPosition ==
  ASSUME NEW n \in Nat, n # 0
  PROVE  Max(1 .. n) = n /\ (1 .. n) \ {n} = 1 .. (n - 1)
<1> DEFINE T == 1 .. n
<1>1. T \in SUBSET T /\ T # {} /\ n \in T
  OBVIOUS
<1>2. Max(T) \in T /\ \A x \in T : Max(T) >= x
  BY <1>1, LargestPosition
<1>3. Max(T) \in 1 .. n /\ Max(T) >= n
  BY <1>1, <1>2
<1>4. Max(T) = n
  <2> HIDE DEF T
  <2> QED
    BY <1>3
<1> QED
  BY <1>4

IsPositionFold(f, n, V, base, step) ==
  /\ f \in [SUBSET (1 .. n) -> V]
  /\ f = [T \in SUBSET (1 .. n) |->
            IF T = {} THEN base ELSE step[Max(T)][f[T \ {Max(T)}]]]

\* There is such a fold, for every base and step.
LEMMA PositionFold ==
  ASSUME NEW n \in Nat, NEW V, NEW base \in V, NEW step \in [1 .. n -> [V -> V]]
  PROVE  \E f : IsPositionFold(f, n, V, base, step)
<1> DEFINE S == 1 .. n
           pick == [T \in SUBSET S |-> Max(T)]
<1>1. IsFiniteSet(S)
  BY FS_Interval
<1>2. Picks(S, pick)
  BY LargestPosition DEF Picks
<1>3. PICK f : IsFold(f, S, V, pick, base, step)
  <2> HIDE DEF pick, S
  <2>1. step \in [S -> [V -> V]]
    BY DEF S
  <2> QED
    BY <1>1, <1>2, <2>1, SubsetIteration
<1>4. \A T \in SUBSET S : pick[T] = Max(T)
  OBVIOUS
<1> HIDE DEF pick
<1>5. \A T \in SUBSET S : (IF T = {} THEN base ELSE step[pick[T]][f[T \ {pick[T]}]])
                           = (IF T = {} THEN base ELSE step[Max(T)][f[T \ {Max(T)}]])
  BY <1>4
<1>6. f = [T \in SUBSET S |->
            IF T = {} THEN base ELSE step[Max(T)][f[T \ {Max(T)}]]]
  BY <1>3, <1>5 DEF IsFold
<1> QED
  BY <1>3, <1>6 DEF IsFold, IsPositionFold

\* The values g takes on the way from "base", a step for each position.
Chain(g, n, V, base, step) ==
  /\ g \in [0 .. n -> V]
  /\ g[0] = base
  /\ \A i \in 1 .. n : g[i] = step[i][g[i - 1]]

\* The equation of a fold, as far as its values are of the kind V.
Folds(it, n, V, base, step) ==
  /\ it[{}] = base
  /\ \A T \in SUBSET (1 .. n) :
       T # {} /\ it[T \ {Max(T)}] \in V => it[T] = step[Max(T)][it[T \ {Max(T)}]]

\* What satisfies the equation of a fold goes along such a chain.
LEMMA FoldChain ==
  ASSUME NEW n \in Nat, NEW V, NEW base \in V, NEW step \in [1 .. n -> [V -> V]],
         NEW it, Folds(it, n, V, base, step)
  PROVE  \E g : Chain(g, n, V, base, step) /\ g[n] = it[1 .. n]
<1> DEFINE g == [i \in 0 .. n |-> it[1 .. i]]
           J == {i \in Nat : i <= n => g[i] \in V}
<1>1. ASSUME NEW i \in 1 .. n, g[i - 1] \in V PROVE g[i] = step[i][g[i - 1]]
  <2>1. 1 .. i \in SUBSET (1 .. n) /\ 1 .. i # {} /\ i \in Nat /\ i # 0
    OBVIOUS
  <2>2. Max(1 .. i) = i /\ (1 .. i) \ {i} = 1 .. (i - 1)
    BY <2>1, LastPosition
  <2>3. g[i] = it[1 .. i] /\ g[i - 1] = it[1 .. (i - 1)]
    OBVIOUS
  <2> HIDE DEF g
  <2> DEFINE T == 1 .. i
  <2>4. it[T \ {Max(T)}] = g[i - 1]
    BY <2>2, <2>3
  <2>5. it[T] = step[Max(T)][it[T \ {Max(T)}]]
    <3> HIDE DEF T
    <3>1. T \in SUBSET (1 .. n) /\ T # {}
      BY <2>1 DEF T
    <3>2. it[T \ {Max(T)}] \in V
      BY <1>1, <2>4
    <3> QED
      BY <3>1, <3>2 DEF Folds
  <2> QED
    BY <2>2, <2>3, <2>4, <2>5
<1>2. g[0] = base
  <2>1. 1 .. 0 = {}
    OBVIOUS
  <2> QED
    BY <2>1 DEF Folds
<1>3. g[n] = it[1 .. n] /\ g = [i \in 0 .. n |-> g[i]]
  OBVIOUS
<1> HIDE DEF g
<1>4. 0 \in J
  BY <1>2
<1>5. ASSUME NEW i \in Nat, i \in J PROVE i + 1 \in J
  <2> SUFFICES ASSUME i + 1 <= n PROVE g[i + 1] \in V
    OBVIOUS
  <2>1. i + 1 \in 1 .. n /\ (i + 1) - 1 = i /\ g[i] \in V
    BY <1>5
  <2>2. g[i + 1] = step[i + 1][g[i]]
    BY <1>1, <2>1
  <2> QED
    BY <2>1, <2>2
<1>6. Nat \subseteq J
  <2> HIDE DEF J
  <2> QED
    BY <1>4, <1>5, SetInduction
<1>7. \A i \in 0 .. n : g[i] \in V
  BY <1>6
<1>8. \A i \in 1 .. n : g[i] = step[i][g[i - 1]]
  BY <1>1, <1>7
<1>9. g \in [0 .. n -> V]
  BY <1>3, <1>7
<1> QED
  BY <1>2, <1>3, <1>8, <1>9 DEF Chain

\* There is such a chain, for every base and step.
LEMMA ChainExists ==
  ASSUME NEW n \in Nat, NEW V, NEW base \in V, NEW step \in [1 .. n -> [V -> V]]
  PROVE  \E g : Chain(g, n, V, base, step)
<1>1. PICK f : IsPositionFold(f, n, V, base, step)
  BY PositionFold
<1>2. f[{}] = base
  BY <1>1 DEF IsPositionFold
<1>3. \A T \in SUBSET (1 .. n) : T # {} => f[T] = step[Max(T)][f[T \ {Max(T)}]]
  BY <1>1 DEF IsPositionFold
<1>4. Folds(f, n, V, base, step)
  BY <1>2, <1>3 DEF Folds
<1> QED
  BY <1>4, FoldChain

\* g and h begin alike, and after equal members come equal ones.
StepAlike(g, h, m) ==
  /\ g[0] = h[0]
  /\ \A i \in 1 .. m : g[i - 1] = h[i - 1] => g[i] = h[i]

\* Chains that take the same steps from the same base meet the same values.
LEMMA SameChain ==
  ASSUME NEW m \in Nat, NEW g, NEW h, StepAlike(g, h, m)
  PROVE  \A i \in 0 .. m : g[i] = h[i]
<1> DEFINE J == {i \in Nat : i <= m => g[i] = h[i]}
<1>1. 0 \in J
  BY DEF StepAlike
<1>2. ASSUME NEW i \in Nat, i \in J PROVE i + 1 \in J
  <2> SUFFICES ASSUME i + 1 <= m PROVE g[i + 1] = h[i + 1]
    OBVIOUS
  <2>1. i + 1 \in 1 .. m /\ (i + 1) - 1 = i /\ g[i] = h[i]
    BY <1>2
  <2> QED
    BY <2>1 DEF StepAlike
<1>3. Nat \subseteq J
  <2> HIDE DEF J
  <2> QED
    BY <1>1, <1>2, SetInduction
<1> QED
  BY <1>3

\* A set with the empty sequence and what is appended to each of its members
\* has every sequence.
LEMMA AppendInduction ==
  ASSUME NEW S, NEW G, << >> \in G,
         \A s \in Seq(S), x \in S : s \in G => Append(s, x) \in G
  PROVE  Seq(S) \subseteq G
<1> DEFINE N == {n \in Nat : \A s \in Seq(S) : Len(s) = n => s \in G}
<1>1. 0 \in N
  <2> SUFFICES ASSUME NEW s \in Seq(S), Len(s) = 0 PROVE s \in G
    OBVIOUS
  <2>1. s = << >>
    OBVIOUS
  <2> QED
    BY <2>1
<1>2. ASSUME NEW n \in Nat, n \in N PROVE n + 1 \in N
  <2> SUFFICES ASSUME NEW s \in Seq(S), Len(s) = n + 1 PROVE s \in G
    OBVIOUS
  <2> DEFINE t == SubSeq(s, 1, n)
             x == s[n + 1]
  <2>1. t \in Seq(S) /\ Len(t) = n /\ x \in S /\ s = Append(t, x)
    <3>1. n + 1 \in 1 .. Len(s) /\ n \in Nat /\ 1 \in Nat
      OBVIOUS
    <3>2. x \in S
      BY <3>1
    <3>3. /\ t \in Seq(S) /\ Len(t) = n
          /\ \A i \in 1 .. n : t[i] = s[i]
      BY <3>1
    <3> HIDE DEF t
    <3>4. /\ Append(t, x) \in Seq(S) /\ Len(Append(t, x)) = n + 1
          /\ \A i \in 1 .. n + 1 : Append(t, x)[i] = s[i]
      BY <3>2, <3>3
    <3> HIDE DEF x
    <3>5. s = Append(t, x)
      BY <3>4
    <3> QED
      BY <3>2, <3>3, <3>5
  <2> HIDE DEF t, x
  <2> QED
    BY <1>2, <2>1
<1>3. Nat \subseteq N
  <2> HIDE DEF N
  <2> QED
    BY <1>1, <1>2, SetInduction
<1>4. \A s \in Seq(S) : Len(s) \in N
  BY <1>3
<1> QED
  BY <1>4
=============================================================================
