----------------------------- MODULE FoldLemmas -----------------------------
(***************************************************************************)
(* What the other proofs need to know about folds: that one over a finite  *)
(* set exists, is the only one, and, for sums, does not depend on the      *)
(* order.                                                                  *)
(*                                                                         *)
(* Induction is stated with sets, and what is folded with functions, so    *)
(* that the facts can be used by name.                                     *)
(***************************************************************************)
EXTENDS Integers, Functions, FiniteSetsExt, FiniteSetTheorems, WellFoundedInduction, TLAPS

\* A set of numbers that is not empty has a least one.
LEMMA LeastExists ==
  ASSUME NEW S \in SUBSET Nat, S # {}
  PROVE  \E n \in S : \A m \in S : n <= m
<1>1. PICK n \in S : \A m \in S : <<m, n>> \notin OpToRel(<, Nat)
  BY WFMin, NatLessThanWellFounded, Zenon
<1>2. \A m \in S : ~(m < n)
  BY <1>1, Zenon DEF OpToRel
<1>3. \A m \in S : n <= m
  BY <1>2
<1>. QED
  BY <1>3

\* Induction over the numbers, for a set of them.
LEMMA Induction ==
  ASSUME NEW S, 0 \in S, \A n \in Nat : n \in S => n + 1 \in S
  PROVE  \A n \in Nat : n \in S
<1>. DEFINE Others == {n \in Nat : n \notin S}
<1>1. SUFFICES ASSUME Others # {} PROVE FALSE
  OBVIOUS
<1>2. PICK n \in Others : \A m \in Others : n <= m
  BY <1>1, LeastExists
<1>3. n # 0 /\ n - 1 \in Nat /\ n - 1 \notin Others
  BY <1>2
<1>. QED
  BY <1>3

-----------------------------------------------------------------------------
\* g folds the subsets of S: it takes their elements out in the order of pick.
Follows(g, S, V, base, step, pick) ==
  /\ g[{}] = base
  /\ \A T \in SUBSET S :
       T # {} /\ g[T \ {pick[T]}] \in V => g[T] = step[<<pick[T], g[T \ {pick[T]}]>>]

Picks(pick, S) == \A T \in SUBSET S : T # {} => pick[T] \in T

\* A fold of all the subsets of S.
Folded(g, S, V, base, step, pick) ==
  g \in [SUBSET S -> V] /\ Follows(g, S, V, base, step, pick)

LEMMA FoldExists ==
  ASSUME NEW S, IsFiniteSet(S), NEW V, NEW base \in V, NEW step \in [S \X V -> V],
         NEW pick, Picks(pick, S)
  PROVE  \E g \in [SUBSET S -> V] : Follows(g, S, V, base, step, pick)
<1>. DEFINE Upto(g, n) ==
       /\ g[{}] = base
       /\ \A T \in SUBSET S : T # {} /\ Cardinality(T) <= n
                                => g[T] = step[<<pick[T], g[T \ {pick[T]}]>>]
            Reached == {n \in Nat : \E g \in [SUBSET S -> V] : Upto(g, n)}
<1>1. \A T \in SUBSET S : IsFiniteSet(T) /\ Cardinality(T) \in Nat
                          /\ (T # {} => /\ Cardinality(T) # 0
                                        /\ Cardinality(T \ {pick[T]}) = Cardinality(T) - 1)
  BY FS_Subset, FS_CardinalityType, FS_EmptySet, FS_RemoveElement DEF Picks
<1>2. 0 \in Reached
  <2>. DEFINE g == [T \in SUBSET S |-> base]
  <2>1. ASSUME NEW T \in SUBSET S, T # {} PROVE ~(Cardinality(T) <= 0)
    <3>1. Cardinality(T) \in Nat /\ Cardinality(T) # 0
      BY <1>1, <2>1
    <3>. QED
      BY <3>1
  <2>2. g \in [SUBSET S -> V] /\ Upto(g, 0)
    BY <2>1
  <2>. QED
    BY <2>2
<1>3. ASSUME NEW n \in Nat, n \in Reached PROVE n + 1 \in Reached
  <2>1. PICK g \in [SUBSET S -> V] : Upto(g, n)
    BY <1>3
  <2>. DEFINE h == [T \in SUBSET S |-> IF T = {} THEN base
                                       ELSE step[<<pick[T], g[T \ {pick[T]}]>>]]
  <2>2. h \in [SUBSET S -> V]
    BY DEF Picks
  <2>3. \A T \in SUBSET S : Cardinality(T) <= n => h[T] = g[T]
    BY <2>1
  <2>4. ASSUME NEW T \in SUBSET S, T # {}, Cardinality(T) <= n + 1
        PROVE  h[T] = step[<<pick[T], h[T \ {pick[T]}]>>]
    <3>1. T \ {pick[T]} \in SUBSET S /\ Cardinality(T \ {pick[T]}) <= n
      <4>1. Cardinality(T) \in Nat /\ Cardinality(T \ {pick[T]}) = Cardinality(T) - 1
        BY <1>1, <2>4
      <4>. QED
        BY <4>1, <2>4
    <3>2. h[T \ {pick[T]}] = g[T \ {pick[T]}]
      BY <3>1, <2>3
    <3>. QED
      BY <3>2, <2>4
  <2>5. Upto(h, n + 1)
    <3>1. h[{}] = base
      OBVIOUS
    <3>. QED
      BY <2>4, <3>1
  <2>. HIDE DEF h, Upto
  <2>. QED
    BY <2>2, <2>5
<1>4. Cardinality(S) \in Reached
  <2>. HIDE DEF Reached
  <2>. QED
    BY <1>1, <1>2, <1>3, Induction
<1>5. PICK g \in [SUBSET S -> V] : Upto(g, Cardinality(S))
  BY <1>4
<1>6. \A T \in SUBSET S : Cardinality(T) <= Cardinality(S)
  BY FS_Subset
<1>. QED
  BY <1>5, <1>6 DEF Follows

\* A fold of a set says what a fold of its subsets is.
LEMMA FoldAgrees ==
  ASSUME NEW S, IsFiniteSet(S), NEW V, NEW base, NEW step, NEW pick, Picks(pick, S),
         NEW g, Folded(g, S, V, base, step, pick),
         NEW R, R \subseteq S, NEW h, Follows(h, R, V, base, step, pick)
  PROVE  h[R] = g[R]
<1>. DEFINE Equal == {n \in Nat : \A T \in SUBSET R : Cardinality(T) = n => h[T] = g[T]}
<1>. USE DEF Folded
<1>1. \A T \in SUBSET R : IsFiniteSet(T) /\ Cardinality(T) \in Nat
                          /\ (Cardinality(T) = 0 <=> T = {})
                          /\ (T # {} => Cardinality(T \ {pick[T]}) = Cardinality(T) - 1)
  <2>1. SUBSET R \subseteq SUBSET S
    OBVIOUS
  <2>. QED
    BY <2>1, FS_Subset, FS_CardinalityType, FS_EmptySet, FS_RemoveElement DEF Picks
<1>2. 0 \in Equal
  BY <1>1 DEF Follows
<1>3. ASSUME NEW n \in Nat, n \in Equal PROVE n + 1 \in Equal
  <2>. SUFFICES ASSUME NEW T \in SUBSET R, Cardinality(T) = n + 1 PROVE h[T] = g[T]
    OBVIOUS
  <2>1. T # {} /\ Cardinality(T \ {pick[T]}) = n /\ T \ {pick[T]} \in SUBSET R
    <3>1. T # {}
      <4>1. Cardinality(T) # 0
        OBVIOUS
      <4>. QED
        BY <1>1, <4>1
    <3>2. Cardinality(T \ {pick[T]}) = Cardinality(T) - 1
      BY <1>1, <3>1
    <3>. QED
      BY <3>1, <3>2
  <2>2. h[T \ {pick[T]}] = g[T \ {pick[T]}]
    BY <1>3, <2>1
  <2>3. g[T \ {pick[T]}] \in V
    BY <2>1
  <2>. QED
    BY <2>1, <2>2, <2>3 DEF Follows
<1>4. Cardinality(R) \in Equal
  <2>. HIDE DEF Equal
  <2>. QED
    BY <1>1, <1>2, <1>3, Induction
<1>. QED
  BY <1>4, <1>1

-----------------------------------------------------------------------------
\* Sums of the values of f over a set.
Chosen(T) == CHOOSE x \in T : TRUE

SumEquation(g, f, S) ==
  g = [T \in SUBSET S |-> IF T = {} THEN 0 ELSE f[Chosen(T)] + g[T \ {Chosen(T)}]]

\* f has a number for each element of S.
Weights(f, S) == \A x \in S : f[x] \in Int

\* g has the sum of f over each subset of S.
SumsOf(g, f, S) ==
  /\ g[{}] = 0
  /\ \A T \in SUBSET S : T # {} => g[T] = f[Chosen(T)] + g[T \ {Chosen(T)}]
  /\ \A R \in SUBSET S : SumFunctionOnSet(f, R) = g[R]

LEMMA SumUnfolds ==
  ASSUME NEW f, NEW S
  PROVE  SumFunctionOnSet(f, S) = (CHOOSE g : SumEquation(g, f, S))[S]
  BY DEF SumFunctionOnSet, FoldFunctionOnSet, MapThenFoldSet, SumEquation, Chosen

LEMMA SumIsFold ==
  ASSUME NEW S, IsFiniteSet(S), NEW f, Weights(f, S)
  PROVE  \E g \in [SUBSET S -> Int] : SumsOf(g, f, S)
<1>. USE DEF Weights
<1>. DEFINE pick == [T \in SUBSET S |-> Chosen(T)]
            step == [p \in S \X Int |-> f[p[1]] + p[2]]
<1>1. \A T : T # {} => Chosen(T) \in T
  BY DEF Chosen
<1>2. Picks(pick, S)
  BY <1>1 DEF Picks
<1>3. step \in [S \X Int -> Int]
  OBVIOUS
<1>4. PICK g \in [SUBSET S -> Int] : Follows(g, S, Int, 0, step, pick)
  <2>1. 0 \in Int
    OBVIOUS
  <2>. HIDE DEF pick, step
  <2>. QED
    BY <1>2, <1>3, <2>1, FoldExists, Zenon
<1>5. ASSUME NEW T \in SUBSET S, T # {}
      PROVE  g[T] = f[Chosen(T)] + g[T \ {Chosen(T)}]
  <2>1. Chosen(T) \in S /\ pick[T] = Chosen(T) /\ g[T \ {Chosen(T)}] \in Int
    BY <1>1, <1>5
  <2>2. g[T] = step[<<Chosen(T), g[T \ {Chosen(T)}]>>]
    BY <1>4, <1>5, <2>1 DEF Follows
  <2>. QED
    BY <2>1, <2>2
<1>6. ASSUME NEW R \in SUBSET S PROVE SumFunctionOnSet(f, R) = g[R]
  <2>. DEFINE h == CHOOSE h : SumEquation(h, f, R)
              part == [T \in SUBSET R |-> g[T]]
  <2>1. g[{}] = 0
    BY <1>4 DEF Follows
  <2>2. SumEquation(part, f, R)
    <3>1. \A T \in SUBSET R : T # {} => part[T] = f[Chosen(T)] + part[T \ {Chosen(T)}]
      BY <1>5
    <3>. QED
      BY <2>1, <3>1 DEF SumEquation
  <2>3. SumEquation(h, f, R)
    BY <2>2
  <2>. HIDE DEF h
  <2>4. Follows(h, R, Int, 0, step, pick)
    <3>1. h[{}] = 0
      BY <2>3 DEF SumEquation
    <3>2. ASSUME NEW T \in SUBSET R, T # {}, h[T \ {pick[T]}] \in Int
          PROVE  h[T] = step[<<pick[T], h[T \ {pick[T]}]>>]
      <4>1. pick[T] = Chosen(T) /\ Chosen(T) \in S
        BY <1>1, <3>2
      <4>2. h[T] = f[Chosen(T)] + h[T \ {Chosen(T)}]
        BY <2>3, <3>2 DEF SumEquation
      <4>. QED
        BY <3>2, <4>1, <4>2
    <3>. QED
      BY <3>1, <3>2 DEF Follows
  <2>5. h[R] = g[R]
    <3>. HIDE DEF pick, step
    <3>. QED
      BY <1>2, <1>4, <2>4, FoldAgrees DEF Folded
  <2>. QED
    BY <2>5, SumUnfolds DEF h
<1>. QED
  BY <1>4, <1>5, <1>6 DEF Follows, SumsOf

\* A sum of nothing, and the type of a sum.
LEMMA SumType ==
  ASSUME NEW S, IsFiniteSet(S), NEW f, Weights(f, S)
  PROVE  SumFunctionOnSet(f, {}) = 0 /\ SumFunctionOnSet(f, S) \in Int
<1>1. PICK g \in [SUBSET S -> Int] : SumsOf(g, f, S)
  BY SumIsFold
<1>. QED
  BY <1>1 DEF SumsOf

\* Any element may be taken out first.
LEMMA SumRemoves ==
  ASSUME NEW S, IsFiniteSet(S), NEW f, Weights(f, S), NEW y \in S
  PROVE  SumFunctionOnSet(f, S) = f[y] + SumFunctionOnSet(f, S \ {y})
<1>1. PICK g \in [SUBSET S -> Int] : SumsOf(g, f, S)
  BY SumIsFold
<1>. DEFINE Any(T) == \A z \in T : g[T] = f[z] + g[T \ {z}]
            Sizes == {n \in Nat : \A T \in SUBSET S : Cardinality(T) = n => Any(T)}
<1>2. \A T \in SUBSET S : /\ Cardinality(T) \in Nat /\ (Cardinality(T) = 0 <=> T = {})
                          /\ \A z \in T : Cardinality(T \ {z}) = Cardinality(T) - 1
  BY FS_Subset, FS_CardinalityType, FS_EmptySet, FS_RemoveElement
<1>3. 0 \in Sizes
  BY <1>2
<1>4. ASSUME NEW n \in Nat, n \in Sizes PROVE n + 1 \in Sizes
  <2>. SUFFICES ASSUME NEW T \in SUBSET S, Cardinality(T) = n + 1, NEW z \in T
                PROVE  g[T] = f[z] + g[T \ {z}]
    OBVIOUS
  <2>. DEFINE c == Chosen(T)
              Both == (T \ {c}) \ {z}
  <2>1. c \in T /\ g[T] = f[c] + g[T \ {c}]
    BY <1>1 DEF Chosen, SumsOf
  <2>. HIDE DEF c
  <2>2. CASE z = c
    BY <2>1, <2>2
  <2>3. CASE z # c
    <3>1. /\ T \ {c} \in SUBSET S /\ T \ {z} \in SUBSET S /\ Both \in SUBSET S
          /\ z \in T \ {c} /\ c \in T \ {z} /\ (T \ {z}) \ {c} = Both
      BY <2>1, <2>3
    <3>2. Cardinality(T \ {c}) = n /\ Cardinality(T \ {z}) = n
      <4>1. \A w \in T : Cardinality(T \ {w}) = (n + 1) - 1
        BY <1>2
      <4>. QED
        BY <2>1, <4>1
    <3>3. Any(T \ {c}) /\ Any(T \ {z})
      BY <1>4, <3>1, <3>2
    <3>4. f[z] \in Int /\ f[c] \in Int /\ g[Both] \in Int
      BY <2>1, <3>1 DEF Weights
    <3>5. g[T \ {c}] = f[z] + g[Both] /\ g[T \ {z}] = f[c] + g[Both]
      BY <3>1, <3>3
    <3>. QED
      BY <2>1, <3>4, <3>5
  <2>. QED
    BY <2>2, <2>3
<1>5. Cardinality(S) \in Sizes
  <2>. HIDE DEF Sizes
  <2>. QED
    BY <1>2, <1>3, <1>4, Induction
<1>6. g[S] = f[y] + g[S \ {y}]
  BY <1>5
<1>. QED
  BY <1>1, <1>6 DEF SumsOf

\* Induction over a finite set, one element at a time.
LEMMA SetInduction ==
  ASSUME NEW S, IsFiniteSet(S), NEW P, {} \in P,
         \A T \in SUBSET S : \A y \in T : T \ {y} \in P => T \in P
  PROVE  S \in P
<1>. DEFINE Sizes == {n \in Nat : \A T \in SUBSET S : Cardinality(T) = n => T \in P}
<1>1. \A T \in SUBSET S : /\ Cardinality(T) \in Nat /\ (Cardinality(T) = 0 <=> T = {})
                          /\ \A y \in T : Cardinality(T \ {y}) = Cardinality(T) - 1
  BY FS_Subset, FS_CardinalityType, FS_EmptySet, FS_RemoveElement
<1>2. 0 \in Sizes
  BY <1>1
<1>3. ASSUME NEW n \in Nat, n \in Sizes PROVE n + 1 \in Sizes
  <2>. SUFFICES ASSUME NEW T \in SUBSET S, Cardinality(T) = n + 1 PROVE T \in P
    OBVIOUS
  <2>1. n + 1 # 0
    OBVIOUS
  <2>2. PICK y \in T : TRUE
    BY <1>1, <2>1
  <2>3. Cardinality(T \ {y}) = (n + 1) - 1 /\ T \ {y} \in SUBSET S
    BY <1>1
  <2>4. T \ {y} \in P
    BY <1>3, <2>3
  <2>. QED
    BY <2>4
<1>4. Cardinality(S) \in Sizes
  <2>. HIDE DEF Sizes
  <2>. QED
    BY <1>1, <1>2, <1>3, Induction
<1>. QED
  BY <1>4

LEMMA SumAdds ==
  ASSUME NEW S, IsFiniteSet(S), NEW y, y \notin S, NEW f, Weights(f, S \cup {y})
  PROVE  SumFunctionOnSet(f, S \cup {y}) = f[y] + SumFunctionOnSet(f, S)
<1>. DEFINE More == S \cup {y}
<1>1. IsFiniteSet(More) /\ y \in More /\ More \ {y} = S
  BY FS_AddElement
<1>. HIDE DEF More
<1>2. SumFunctionOnSet(f, More) = f[y] + SumFunctionOnSet(f, More \ {y})
  BY <1>1, SumRemoves DEF More
<1>. QED
  BY <1>1, <1>2 DEF More

\* Only the values at the elements of the set count.
LEMMA SumSame ==
  ASSUME NEW S, IsFiniteSet(S), NEW f, NEW h, Weights(f, S), \A x \in S : f[x] = h[x]
  PROVE  SumFunctionOnSet(f, S) = SumFunctionOnSet(h, S)
<1>. DEFINE P == {T \in SUBSET S : SumFunctionOnSet(f, T) = SumFunctionOnSet(h, T)}
<1>1. {} \in P
  <2>1. Weights(f, {}) /\ Weights(h, {}) /\ IsFiniteSet({})
    BY FS_EmptySet DEF Weights
  <2>. QED
    BY <2>1, SumType
<1>2. ASSUME NEW T \in SUBSET S, NEW y \in T, T \ {y} \in P PROVE T \in P
  <2>1. IsFiniteSet(T) /\ Weights(f, T) /\ Weights(h, T)
    BY FS_Subset DEF Weights
  <2>2. /\ SumFunctionOnSet(f, T) = f[y] + SumFunctionOnSet(f, T \ {y})
        /\ SumFunctionOnSet(h, T) = h[y] + SumFunctionOnSet(h, T \ {y})
    BY <2>1, SumRemoves
  <2>. QED
    BY <1>2, <2>2
<1>3. S \in P
  <2>. HIDE DEF P
  <2>. QED
    BY <1>1, <1>2, SetInduction
<1>. QED
  BY <1>3

\* The sum over two sets that do not meet.
LEMMA SumDisjoint ==
  ASSUME NEW S, IsFiniteSet(S), NEW R, IsFiniteSet(R), S \cap R = {}, NEW f, Weights(f, S \cup R)
  PROVE  SumFunctionOnSet(f, S \cup R) = SumFunctionOnSet(f, S) + SumFunctionOnSet(f, R)
<1>. DEFINE P == {T \in SUBSET R :
                    SumFunctionOnSet(f, S \cup T) = SumFunctionOnSet(f, S) + SumFunctionOnSet(f, T)}
<1>1. {} \in P
  <2>1. Weights(f, S) /\ S \cup {} = S
    BY DEF Weights
  <2>2. SumFunctionOnSet(f, {}) = 0 /\ SumFunctionOnSet(f, S) \in Int
    BY <2>1, SumType
  <2>. QED
    BY <2>1, <2>2
<1>2. ASSUME NEW T \in SUBSET R, NEW y \in T, T \ {y} \in P PROVE T \in P
  <2>1. /\ IsFiniteSet(T) /\ IsFiniteSet(T \ {y}) /\ IsFiniteSet(S \cup T)
        /\ Weights(f, T) /\ Weights(f, T \ {y}) /\ Weights(f, S \cup T) /\ Weights(f, S)
        /\ f[y] \in Int
    BY FS_Subset, FS_Union DEF Weights
  <2>2. y \in S \cup T /\ (S \cup T) \ {y} = S \cup (T \ {y})
    OBVIOUS
  <2>3. SumFunctionOnSet(f, S \cup T) = f[y] + SumFunctionOnSet(f, (S \cup T) \ {y})
    BY <2>1, <2>2, SumRemoves
  <2>4. SumFunctionOnSet(f, T) = f[y] + SumFunctionOnSet(f, T \ {y})
    BY <2>1, SumRemoves
  <2>5. SumFunctionOnSet(f, S) \in Int /\ SumFunctionOnSet(f, T \ {y}) \in Int
    BY <2>1, SumType
  <2>6. SumFunctionOnSet(f, S \cup (T \ {y}))
          = SumFunctionOnSet(f, S) + SumFunctionOnSet(f, T \ {y})
    BY <1>2
  <2>7. SumFunctionOnSet(f, S \cup T) = SumFunctionOnSet(f, S) + SumFunctionOnSet(f, T)
    <3>1. SumFunctionOnSet(f, S \cup T) = f[y] + SumFunctionOnSet(f, S \cup (T \ {y}))
      BY <2>2, <2>3
    <3>. QED
      BY <2>1, <2>4, <2>5, <2>6, <3>1
  <2>. QED
    BY <2>7
<1>3. R \in P
  <2>. HIDE DEF P
  <2>. QED
    BY <1>1, <1>2, SetInduction
<1>. QED
  BY <1>3

-----------------------------------------------------------------------------
\* Folds from left to right: the last element is taken out first.
Lasts(N) == [T \in SUBSET (1..N) |-> Max(T)]

LEMMA IntervalEnds ==
  ASSUME NEW n \in Nat
  PROVE  /\ 1..(n + 1) # {} /\ Max(1..(n + 1)) = n + 1
         /\ (1..(n + 1)) \ {n + 1} = 1..n
<1>1. n + 1 \in 1..(n + 1) /\ \A y \in 1..(n + 1) : n + 1 >= y
  OBVIOUS
<1>2. \A x \in 1..(n + 1) : (\A y \in 1..(n + 1) : x >= y) => x = n + 1
  BY <1>1
<1>. QED
  BY <1>1, <1>2 DEF Max

LEMMA LargestExists ==
  ASSUME NEW N \in Nat
  PROVE  Picks(Lasts(N), 1..N)
<1>. SUFFICES ASSUME NEW T \in SUBSET (1..N), T # {}
     PROVE  \E x \in T : \A y \in T : x >= y
  BY DEF Picks, Lasts, Max
<1>. DEFINE Distances == {d \in Nat : N - d \in T}
<1>1. Distances # {}
  <2>. PICK x \in T : TRUE
    OBVIOUS
  <2>. N - x \in Nat /\ N - (N - x) = x
    OBVIOUS
  <2>. QED
    OBVIOUS
<1>2. PICK d \in Distances : \A e \in Distances : d <= e
  BY <1>1, LeastExists
<1>3. ASSUME NEW y \in T PROVE N - d >= y
  <2>1. N - y \in Nat /\ N - (N - y) = y /\ y \in Nat
    OBVIOUS
  <2>2. d \in Nat /\ d <= N - y
    BY <1>2, <2>1
  <2>. QED
    BY <2>1, <2>2
<1>. QED
  BY <1>2, <1>3

\* g[n] is what the fold of the first n elements gives.
Advances(g, N, V, base, step) ==
  /\ g \in [0..N -> V]
  /\ g[0] = base
  /\ \A n \in 0..(N - 1) : g[n + 1] = step[<<n + 1, g[n]>>]

LEMMA FoldsInOrder ==
  ASSUME NEW N \in Nat, NEW V, NEW base \in V, NEW step \in [(1..N) \X V -> V]
  PROVE  \E all \in [SUBSET (1..N) -> V] :
           /\ Follows(all, 1..N, V, base, step, Lasts(N))
           /\ \E g : g[N] = all[1..N] /\ Advances(g, N, V, base, step)
<1>1. Picks(Lasts(N), 1..N) /\ IsFiniteSet(1..N)
  BY LargestExists, FS_Interval
<1>2. PICK all \in [SUBSET (1..N) -> V] : Follows(all, 1..N, V, base, step, Lasts(N))
  BY <1>1, FoldExists, Zenon
<1>. DEFINE g == [n \in 0..N |-> all[1..n]]
<1>3. g[0] = base
  <2>1. 1..0 = {} /\ 0 \in 0..N
    OBVIOUS
  <2>. QED
    BY <1>2, <2>1 DEF Follows
<1>4. ASSUME NEW n \in 0..(N - 1) PROVE g[n + 1] = step[<<n + 1, g[n]>>]
  <2>1. 1..(n + 1) \in SUBSET (1..N) /\ 1..n \in SUBSET (1..N)
    OBVIOUS
  <2>2. 1..(n + 1) # {} /\ Lasts(N)[1..(n + 1)] = n + 1 /\ (1..(n + 1)) \ {n + 1} = 1..n
    <3>1. Lasts(N)[1..(n + 1)] = Max(1..(n + 1))
      BY <2>1 DEF Lasts
    <3>2. n \in Nat
      OBVIOUS
    <3>. QED
      BY <3>1, <3>2, IntervalEnds
  <2>3. all[1..n] \in V
    BY <2>1
  <2>4. all[1..(n + 1)] = step[<<n + 1, all[1..n]>>]
    BY <1>2, <2>1, <2>2, <2>3 DEF Follows
  <2>5. n \in 0..N /\ n + 1 \in 0..N
    OBVIOUS
  <2>6. g[n] = all[1..n] /\ g[n + 1] = all[1..(n + 1)]
    BY <2>5
  <2>. QED
    BY <2>4, <2>6, Zenon
<1>5. g \in [0..N -> V] /\ g[N] = all[1..N]
  OBVIOUS
<1>. HIDE DEF g
<1>6. Advances(g, N, V, base, step)
  BY <1>3, <1>4, <1>5 DEF Advances
<1>. QED
  BY <1>2, <1>5, <1>6

\* There is one such fold only.
LEMMA FoldsInOrderAgree ==
  ASSUME NEW N \in Nat, NEW V, NEW base, NEW step,
         NEW all, Folded(all, 1..N, V, base, step, Lasts(N)),
         NEW h, Follows(h, 1..N, V, base, step, Lasts(N))
  PROVE  h[1..N] = all[1..N]
<1>. DEFINE S == 1..N
            pick == Lasts(N)
<1>1. Picks(pick, S) /\ IsFiniteSet(S) /\ S \subseteq S
  BY LargestExists, FS_Interval
<1>2. Folded(all, S, V, base, step, pick) /\ Follows(h, S, V, base, step, pick)
  OBVIOUS
<1>. HIDE DEF S, pick
<1>3. h[S] = all[S]
  BY <1>1, <1>2, FoldAgrees
<1>. QED
  BY <1>3 DEF S
=============================================================================
