------------------------------- MODULE SumLemmas -------------------------------
(***************************************************************************)
(* What a sum over a finite set is: lemmas about SumFunctionOnSet of the   *)
(* community modules, which the ledgers of the pool are written with.      *)
(*                                                                         *)
(* The operator is a recursive function over the subsets of the set.       *)
(* Induction over those is stated with a set in place of a predicate, so   *)
(* that it can be cited like any other lemma; it follows from the order of *)
(* the finite subsets being well-founded.                                  *)
(***************************************************************************)
EXTENDS Integers, Functions, FiniteSetTheorems, WellFoundedInduction, TLAPS

Choice(T) == CHOOSE x \in T : TRUE

LEMMA ChoiceIn == ASSUME NEW T, T # {} PROVE Choice(T) \in T
  BY DEF Choice

(* A set B of subsets of S that has every set whose proper subsets it has  *)
(* is the set of all of them.                                              *)
LEMMA SubsetInduction ==
    ASSUME NEW S, IsFiniteSet(S), NEW B,
           \A T \in SUBSET S :
              (\A U \in SUBSET T : U # T => U \in B) => T \in B
    PROVE  S \in B
<1> DEFINE C == (SUBSET S) \ B
<1>1. IsWellFoundedOn(StrictSubsetOrdering(S), SUBSET S)
  BY FS_FiniteSubsetsOfFinite, FS_StrictSubsetOrderingWellFounded
<1>2. SUFFICES ASSUME C # {} PROVE FALSE
  OBVIOUS
<1>3. C \subseteq SUBSET S
  OBVIOUS
<1>4. PICK M \in C : \A T \in C : ~(<<T, M>> \in StrictSubsetOrdering(S))
  <2> HIDE DEF C
  <2> QED  BY <1>1, <1>2, <1>3, WFMin
<1>5. \A U \in SUBSET M : U # M => U \in B
  BY <1>4 DEF StrictSubsetOrdering
<1> QED  BY <1>4, <1>5

(* The same with the element that a fold takes first.                      *)
LEMMA FoldInduction ==
    ASSUME NEW S, IsFiniteSet(S), NEW B, {} \in B,
           \A T \in SUBSET S : T # {} /\ T \ {Choice(T)} \in B => T \in B
    PROVE  S \in B
<1>1. ASSUME NEW T \in SUBSET S, \A U \in SUBSET T : U # T => U \in B
      PROVE  T \in B
  <2>1. CASE T # {}
    BY <1>1, <2>1, ChoiceIn
  <2> QED  BY <2>1
<1> QED  BY <1>1, SubsetInduction

-----------------------------------------------------------------------------
(* The recursion of the fold is well defined.                              *)

IsSumOf(g, f, S) ==
    g = [T \in SUBSET S |->
            IF T = {} THEN 0 ELSE f[Choice(T)] + g[T \ {Choice(T)}]]

SumOf(f, S) == CHOOSE g : IsSumOf(g, f, S)

LEMMA SumDef ==
    ASSUME NEW f, NEW S PROVE SumFunctionOnSet(f, S) = SumOf(f, S)[S]
  BY DEF SumFunctionOnSet, FoldFunctionOnSet, MapThenFoldSet, IsSumOf, SumOf,
         Choice

LEMMA SumOfUnique ==
    ASSUME NEW S, IsFiniteSet(S), NEW R, S \subseteq R, NEW f, NEW g, NEW h,
           IsSumOf(g, f, S), IsSumOf(h, f, R)
    PROVE  g[S] = h[S]
<1> DEFINE B == {T \in SUBSET S : g[T] = h[T]}
<1>1. g[{}] = 0 /\ h[{}] = 0
  BY DEF IsSumOf
<1>2. ASSUME NEW T \in SUBSET S, T # {}, g[T \ {Choice(T)}] = h[T \ {Choice(T)}]
      PROVE  g[T] = h[T]
  <2>1. T \in SUBSET R
    OBVIOUS
  <2> QED  BY <1>2, <2>1 DEF IsSumOf
<1>3. {} \in B /\ \A T \in SUBSET S : T # {} /\ T \ {Choice(T)} \in B => T \in B
  BY <1>1, <1>2
<1>4. S \in B
  <2> HIDE DEF B
  <2> QED  BY <1>3, FoldInduction
<1> QED  BY <1>4

LEMMA SumOfExists ==
    ASSUME NEW S, IsFiniteSet(S), NEW f
    PROVE  IsSumOf(SumOf(f, S), f, S)
<1> DEFINE B == {T \in SUBSET S : IsSumOf(SumOf(f, T), f, T)}
<1>1. ASSUME NEW M \in SUBSET S, \A U \in SUBSET M : U # M => U \in B
      PROVE  M \in B
  <2> DEFINE Less(T) == T \ {Choice(T)}
             h == [T \in SUBSET M |->
                      IF T = {} THEN 0
                      ELSE f[Choice(T)] + SumOf(f, Less(T))[Less(T)]]
  <2>1. \A T \in SUBSET M : T # M => IsSumOf(SumOf(f, T), f, T)
    BY <1>1
  <2>2. ASSUME NEW T \in SUBSET M, T # M
        PROVE  h[T] = SumOf(f, T)[T]
    <3>1. CASE T = {}
      BY <2>1, <2>2, <3>1 DEF IsSumOf
    <3>2. CASE T # {}
      <4> DEFINE U == Less(T)
      <4>1. U \in SUBSET M /\ U \subseteq T /\ U # M
        BY <2>2, <3>2, ChoiceIn
      <4>2. IsFiniteSet(U)
        BY <4>1, FS_Subset
      <4>3. SumOf(f, U)[U] = SumOf(f, T)[U]
        <5> HIDE DEF U
        <5> QED  BY <2>1, <2>2, <4>1, <4>2, SumOfUnique
      <4>4. SumOf(f, T)[T] = f[Choice(T)] + SumOf(f, T)[U]
        BY <2>1, <2>2, <3>2 DEF IsSumOf
      <4>5. h[T] = f[Choice(T)] + SumOf(f, U)[U]
        BY <3>2
      <4> QED  BY <4>3, <4>4, <4>5
    <3> QED  BY <3>1, <3>2
  <2>3. ASSUME NEW T \in SUBSET M, T # {}
        PROVE  h[T] = f[Choice(T)] + h[Less(T)]
    <3>1. Less(T) \in SUBSET M /\ Less(T) # M
      BY <2>3, ChoiceIn
    <3>2. h[Less(T)] = SumOf(f, Less(T))[Less(T)]
      BY <2>2, <3>1
    <3> HIDE DEF Less
    <3> QED  BY <2>3, <3>2
  <2>4. h = [T \in SUBSET M |-> h[T]] /\ h[{}] = 0
    OBVIOUS
  <2>5. IsSumOf(h, f, M)
    <3> HIDE DEF h
    <3> QED  BY <2>3, <2>4 DEF IsSumOf
  <2>6. IsSumOf(SumOf(f, M), f, M)
    <3> HIDE DEF h
    <3> QED  BY <2>5 DEF SumOf
  <2> QED  BY <2>6
<1>2. S \in B
  <2> HIDE DEF B
  <2> QED  BY <1>1, SubsetInduction
<1> QED  BY <1>2

-----------------------------------------------------------------------------
(* Sums.                                                                   *)

LEMMA SumEmpty == ASSUME NEW f PROVE SumFunctionOnSet(f, {}) = 0
  BY SumDef, SumOfExists, FS_EmptySet DEF IsSumOf

LEMMA SumChoice ==
    ASSUME NEW S, IsFiniteSet(S), S # {}, NEW f
    PROVE  SumFunctionOnSet(f, S)
             = f[Choice(S)] + SumFunctionOnSet(f, S \ {Choice(S)})
<1> DEFINE T == S \ {Choice(S)}
<1>1. IsFiniteSet(T) /\ T \subseteq S
  BY FS_Subset
<1>2. IsSumOf(SumOf(f, S), f, S) /\ IsSumOf(SumOf(f, T), f, T)
  BY <1>1, SumOfExists
<1>3. SumOf(f, T)[T] = SumOf(f, S)[T]
  <2> HIDE DEF T
  <2> QED  BY <1>1, <1>2, SumOfUnique
<1>4. SumOf(f, S)[S] = f[Choice(S)] + SumOf(f, S)[T]
  BY <1>2 DEF IsSumOf
<1> QED  BY <1>3, <1>4, SumDef

LEMMA SumInt ==
    ASSUME NEW S, IsFiniteSet(S), NEW f, \A x \in S : f[x] \in Int
    PROVE  SumFunctionOnSet(f, S) \in Int
<1> DEFINE B == {T \in SUBSET S : SumFunctionOnSet(f, T) \in Int}
<1>1. {} \in B
  BY SumEmpty
<1>2. ASSUME NEW T \in SUBSET S, T # {}, T \ {Choice(T)} \in B PROVE T \in B
  <2>1. f[Choice(T)] \in Int
    BY <1>2, ChoiceIn
  <2>2. SumFunctionOnSet(f, T)
          = f[Choice(T)] + SumFunctionOnSet(f, T \ {Choice(T)})
    BY <1>2, FS_Subset, SumChoice
  <2> QED  BY <1>2, <2>1, <2>2
<1>3. S \in B
  <2> HIDE DEF B
  <2> QED  BY <1>1, <1>2, FoldInduction
<1> QED  BY <1>3

LEMMA SumNat ==
    ASSUME NEW S, IsFiniteSet(S), NEW f, \A x \in S : f[x] \in Nat
    PROVE  SumFunctionOnSet(f, S) \in Nat
<1> DEFINE B == {T \in SUBSET S : SumFunctionOnSet(f, T) \in Nat}
<1>1. {} \in B
  BY SumEmpty
<1>2. ASSUME NEW T \in SUBSET S, T # {}, T \ {Choice(T)} \in B PROVE T \in B
  <2>1. f[Choice(T)] \in Nat
    BY <1>2, ChoiceIn
  <2>2. SumFunctionOnSet(f, T)
          = f[Choice(T)] + SumFunctionOnSet(f, T \ {Choice(T)})
    BY <1>2, FS_Subset, SumChoice
  <2> QED  BY <1>2, <2>1, <2>2
<1>3. S \in B
  <2> HIDE DEF B
  <2> QED  BY <1>1, <1>2, FoldInduction
<1> QED  BY <1>3

(* Any element may be taken first.                                         *)
LEMMA SumTake ==
    ASSUME NEW S, IsFiniteSet(S), NEW f, \A x \in S : f[x] \in Int, NEW x \in S
    PROVE  SumFunctionOnSet(f, S) = f[x] + SumFunctionOnSet(f, S \ {x})
<1> DEFINE B == {T \in SUBSET S : \A y \in T :
                   SumFunctionOnSet(f, T) = f[y] + SumFunctionOnSet(f, T \ {y})}
<1>1. \A T \in SUBSET S : IsFiniteSet(T) /\ SumFunctionOnSet(f, T) \in Int
  BY FS_Subset, SumInt
<1>2. ASSUME NEW M \in SUBSET S, \A U \in SUBSET M : U # M => U \in B,
             NEW y \in M
      PROVE  SumFunctionOnSet(f, M) = f[y] + SumFunctionOnSet(f, M \ {y})
  <2>1. PICK c \in M :
            SumFunctionOnSet(f, M) = f[c] + SumFunctionOnSet(f, M \ {c})
    BY <1>1, ChoiceIn, SumChoice
  <2>2. CASE c # y
    <3>1. SumFunctionOnSet(f, M \ {c})
            = f[y] + SumFunctionOnSet(f, (M \ {c}) \ {y})
      BY <1>2, <2>2
    <3>2. SumFunctionOnSet(f, M \ {y})
            = f[c] + SumFunctionOnSet(f, (M \ {y}) \ {c})
      BY <1>2, <2>2
    <3>3. SumFunctionOnSet(f, (M \ {y}) \ {c})
            = SumFunctionOnSet(f, (M \ {c}) \ {y})
      <4>1. (M \ {y}) \ {c} = (M \ {c}) \ {y}
        OBVIOUS
      <4> QED  BY <4>1, Zenon
    <3>4. f[c] \in Int /\ f[y] \in Int
      OBVIOUS
    <3>5. SumFunctionOnSet(f, (M \ {c}) \ {y}) \in Int
      <4>1. (M \ {c}) \ {y} \in SUBSET S
        OBVIOUS
      <4> QED  BY <1>1, <4>1
    <3>6. \A p, q, r \in Int : p + (q + r) = q + (p + r)
      OBVIOUS
    <3> QED  BY <2>1, <3>1, <3>2, <3>3, <3>4, <3>5, <3>6
  <2> QED  BY <2>1, <2>2
<1>3. \A T \in SUBSET S : (\A U \in SUBSET T : U # T => U \in B) => T \in B
  BY <1>2
<1>4. S \in B
  <2> HIDE DEF B
  <2> QED  BY <1>3, SubsetInduction
<1> QED  BY <1>4

LEMMA SumEqual ==
    ASSUME NEW S, IsFiniteSet(S), NEW f, NEW g, \A x \in S : f[x] = g[x]
    PROVE  SumFunctionOnSet(f, S) = SumFunctionOnSet(g, S)
<1> DEFINE B == {T \in SUBSET S : SumFunctionOnSet(f, T) = SumFunctionOnSet(g, T)}
<1>1. {} \in B
  BY SumEmpty
<1>2. ASSUME NEW T \in SUBSET S, T # {}, T \ {Choice(T)} \in B PROVE T \in B
  BY <1>2, FS_Subset, SumChoice, ChoiceIn
<1>3. S \in B
  <2> HIDE DEF B
  <2> QED  BY <1>1, <1>2, FoldInduction
<1> QED  BY <1>3

LEMMA SumPlus ==
    ASSUME NEW S, IsFiniteSet(S), NEW f, NEW g, NEW h,
           \A x \in S : f[x] \in Int /\ g[x] \in Int /\ h[x] = f[x] + g[x]
    PROVE  SumFunctionOnSet(h, S) = SumFunctionOnSet(f, S) + SumFunctionOnSet(g, S)
<1> DEFINE B == {T \in SUBSET S : SumFunctionOnSet(h, T)
                     = SumFunctionOnSet(f, T) + SumFunctionOnSet(g, T)}
<1>1. {} \in B
  BY SumEmpty
<1>2. ASSUME NEW T \in SUBSET S, T # {}, T \ {Choice(T)} \in B PROVE T \in B
  <2>1. \A U \in SUBSET S : /\ IsFiniteSet(U)
                            /\ SumFunctionOnSet(f, U) \in Int
                            /\ SumFunctionOnSet(g, U) \in Int
    BY FS_Subset, SumInt
  <2> DEFINE c == Choice(T)
  <2>2. c \in S /\ T \ {c} \in SUBSET S
    BY <1>2, ChoiceIn
  <2>3. /\ SumFunctionOnSet(h, T) = h[c] + SumFunctionOnSet(h, T \ {c})
        /\ SumFunctionOnSet(f, T) = f[c] + SumFunctionOnSet(f, T \ {c})
        /\ SumFunctionOnSet(g, T) = g[c] + SumFunctionOnSet(g, T \ {c})
    BY <1>2, <2>1, SumChoice
  <2>4. SumFunctionOnSet(h, T \ {c})
          = SumFunctionOnSet(f, T \ {c}) + SumFunctionOnSet(g, T \ {c})
    BY <1>2
  <2>5. /\ SumFunctionOnSet(f, T \ {c}) \in Int
        /\ SumFunctionOnSet(g, T \ {c}) \in Int
        /\ f[c] \in Int /\ g[c] \in Int /\ h[c] = f[c] + g[c]
    BY <2>1, <2>2
  <2> HIDE DEF c
  <2>6. SumFunctionOnSet(h, T) = SumFunctionOnSet(f, T) + SumFunctionOnSet(g, T)
    BY <2>3, <2>4, <2>5
  <2> QED  BY <2>6
<1>3. S \in B
  <2> HIDE DEF B
  <2> QED  BY <1>1, <1>2, FoldInduction
<1> QED  BY <1>3

LEMMA SumMonotone ==
    ASSUME NEW S, IsFiniteSet(S), NEW f, NEW g,
           \A x \in S : f[x] \in Int /\ g[x] \in Int /\ f[x] <= g[x]
    PROVE  SumFunctionOnSet(f, S) <= SumFunctionOnSet(g, S)
<1> DEFINE d == [x \in S |-> g[x] - f[x]]
<1>1. SumFunctionOnSet(d, S) \in Nat
  BY SumNat
<1>2. SumFunctionOnSet(g, S) = SumFunctionOnSet(f, S) + SumFunctionOnSet(d, S)
  <2>1. \A x \in S : f[x] \in Int /\ d[x] \in Int /\ g[x] = f[x] + d[x]
    OBVIOUS
  <2> HIDE DEF d
  <2> QED  BY <2>1, SumPlus
<1>3. SumFunctionOnSet(f, S) \in Int
  BY SumInt
<1> HIDE DEF d
<1> QED  BY <1>1, <1>2, <1>3

LEMMA SumStrict ==
    ASSUME NEW S, IsFiniteSet(S), NEW f, NEW g,
           \A x \in S : f[x] \in Int /\ g[x] \in Int /\ f[x] <= g[x],
           NEW y \in S, f[y] < g[y]
    PROVE  SumFunctionOnSet(f, S) < SumFunctionOnSet(g, S)
<1> DEFINE T == S \ {y}
<1>1. IsFiniteSet(T) /\ \A x \in T : x \in S
  BY FS_Subset
<1>2. /\ SumFunctionOnSet(f, S) = f[y] + SumFunctionOnSet(f, T)
      /\ SumFunctionOnSet(g, S) = g[y] + SumFunctionOnSet(g, T)
  BY SumTake
<1> HIDE DEF T
<1>3. /\ SumFunctionOnSet(f, T) <= SumFunctionOnSet(g, T)
      /\ SumFunctionOnSet(f, T) \in Int /\ SumFunctionOnSet(g, T) \in Int
  BY <1>1, SumMonotone, SumInt
<1> QED  BY <1>2, <1>3

LEMMA SumZero ==
    ASSUME NEW S, IsFiniteSet(S), NEW f, \A x \in S : f[x] = 0
    PROVE  SumFunctionOnSet(f, S) = 0
<1>1. ASSUME NEW x \in S PROVE f[x] \in Int /\ f[x] = f[x] + f[x]
  <2>1. f[x] = 0
    OBVIOUS
  <2> QED  BY <2>1
<1>2. SumFunctionOnSet(f, S) = SumFunctionOnSet(f, S) + SumFunctionOnSet(f, S)
  BY <1>1, SumPlus
<1>3. SumFunctionOnSet(f, S) \in Int
  BY <1>1, SumInt
<1>4. \A s \in Int : s = s + s => s = 0
  OBVIOUS
<1> QED  BY <1>2, <1>3, <1>4

(* One value is changed.                                                   *)
LEMMA SumExcept ==
    ASSUME NEW S, IsFiniteSet(S), NEW f, NEW g, NEW x \in S,
           \A y \in S : f[y] \in Int /\ g[y] \in Int,
           \A y \in S : y # x => g[y] = f[y]
    PROVE  SumFunctionOnSet(g, S) = SumFunctionOnSet(f, S) + (g[x] - f[x])
<1>1. SumFunctionOnSet(f, S \ {x}) = SumFunctionOnSet(g, S \ {x})
  BY SumEqual, FS_Subset
<1>2. SumFunctionOnSet(f, S \ {x}) \in Int
  BY SumInt, FS_Subset
<1>3. /\ SumFunctionOnSet(f, S) = f[x] + SumFunctionOnSet(f, S \ {x})
      /\ SumFunctionOnSet(g, S) = g[x] + SumFunctionOnSet(g, S \ {x})
  BY SumTake
<1> QED  BY <1>1, <1>2, <1>3

LEMMA SumUpdate ==
    ASSUME NEW S, IsFiniteSet(S), NEW f \in [S -> Int], NEW x \in S, NEW v \in Int
    PROVE  SumFunctionOnSet([f EXCEPT ![x] = v], S)
             = SumFunctionOnSet(f, S) + (v - f[x])
<1> DEFINE g == [f EXCEPT ![x] = v]
<1>1. /\ \A y \in S : f[y] \in Int /\ g[y] \in Int
      /\ \A y \in S : y # x => g[y] = f[y]
      /\ g[x] = v
  OBVIOUS
<1> HIDE DEF g
<1>2. SumFunctionOnSet(g, S) = SumFunctionOnSet(f, S) + (g[x] - f[x])
  BY <1>1, SumExcept
<1>3. SumFunctionOnSet(g, S) = SumFunctionOnSet(f, S) + (v - f[x])
  BY <1>1, <1>2
<1> QED  BY <1>3 DEF g

(* Values are added at each element.                                       *)
LEMMA SumAdded ==
    ASSUME NEW S, IsFiniteSet(S), NEW f \in [S -> Int], NEW g \in [S -> Int]
    PROVE  SumFunctionOnSet([x \in S |-> f[x] + g[x]], S)
             = SumFunctionOnSet(f, S) + SumFunctionOnSet(g, S)
<1> DEFINE h == [x \in S |-> f[x] + g[x]]
<1>1. \A x \in S : f[x] \in Int /\ g[x] \in Int /\ h[x] = f[x] + g[x]
  OBVIOUS
<1> HIDE DEF h
<1>2. SumFunctionOnSet(h, S) = SumFunctionOnSet(f, S) + SumFunctionOnSet(g, S)
  BY <1>1, SumPlus
<1> QED  BY <1>2 DEF h

LEMMA SumTaken ==
    ASSUME NEW S, IsFiniteSet(S), NEW f \in [S -> Int], NEW g \in [S -> Int]
    PROVE  SumFunctionOnSet([x \in S |-> f[x] - g[x]], S)
             = SumFunctionOnSet(f, S) - SumFunctionOnSet(g, S)
<1> DEFINE h == [x \in S |-> f[x] - g[x]]
<1>1. \A x \in S : h[x] \in Int /\ g[x] \in Int /\ f[x] = h[x] + g[x]
  OBVIOUS
<1> HIDE DEF h
<1>2. SumFunctionOnSet(f, S) = SumFunctionOnSet(h, S) + SumFunctionOnSet(g, S)
  BY <1>1, SumPlus
<1>3. SumFunctionOnSet(h, S) \in Int /\ SumFunctionOnSet(g, S) \in Int
  BY <1>1, SumInt
<1>4. SumFunctionOnSet(h, S) = SumFunctionOnSet(f, S) - SumFunctionOnSet(g, S)
  BY <1>2, <1>3
<1> QED  BY <1>4 DEF h

(* Sums of sums: by rows or by columns, and over the parts of a set.       *)
LEMMA SumSwap ==
    ASSUME NEW S, IsFiniteSet(S), NEW T, IsFiniteSet(T),
           NEW f \in [S -> [T -> Int]], NEW U \in SUBSET S
    PROVE  SumFunctionOnSet(
               [y \in T |-> SumFunctionOnSet([x \in S |-> f[x][y]], U)], T)
             = SumFunctionOnSet([x \in S |-> SumFunctionOnSet(f[x], T)], U)
<1> DEFINE col(y) == [x \in S |-> f[x][y]]
           cols(V) == [y \in T |-> SumFunctionOnSet(col(y), V)]
           row == [x \in S |-> SumFunctionOnSet(f[x], T)]
           B == {V \in SUBSET U : SumFunctionOnSet(cols(V), T)
                                    = SumFunctionOnSet(row, V)}
<1>1. ASSUME NEW y \in T PROVE \A x \in S : col(y)[x] \in Int
  OBVIOUS
<1>2. ASSUME NEW V \in SUBSET U, NEW y \in T
      PROVE  IsFiniteSet(V) /\ SumFunctionOnSet(col(y), V) \in Int
  <2>1. IsFiniteSet(V)
    BY FS_Subset
  <2>2. \A x \in V : col(y)[x] \in Int
    BY <1>1
  <2> HIDE DEF col
  <2> QED  BY <2>1, <2>2, SumInt
<1>3. {} \in B
  <2>1. \A y \in T : cols({})[y] = 0
    BY SumEmpty
  <2> HIDE DEF cols, row
  <2>2. SumFunctionOnSet(cols({}), T) = 0 /\ SumFunctionOnSet(row, {}) = 0
    BY <2>1, SumZero, SumEmpty
  <2> QED  BY <2>2
<1>4. ASSUME NEW V \in SUBSET U, V # {}, V \ {Choice(V)} \in B PROVE V \in B
  <2> DEFINE c == Choice(V)
             W == V \ {c}
  <2>1. c \in V /\ c \in S /\ W \in SUBSET U
    BY <1>4, ChoiceIn
  <2>2. IsFiniteSet(V)
    BY <1>4, FS_Subset
  <2>3. ASSUME NEW y \in T
        PROVE  /\ f[c][y] \in Int /\ cols(W)[y] \in Int
               /\ cols(V)[y] = f[c][y] + cols(W)[y]
    <3>1. SumFunctionOnSet(col(y), V)
            = col(y)[c] + SumFunctionOnSet(col(y), W)
      <4> HIDE DEF col
      <4> QED  BY <1>4, <2>2, SumChoice
    <3>2. col(y)[c] = f[c][y] /\ f[c][y] \in Int
      BY <2>1
    <3>3. SumFunctionOnSet(col(y), W) \in Int
      BY <1>2, <2>1
    <3> HIDE DEF c, W, col
    <3> QED  BY <3>1, <3>2, <3>3
  <2>4. SumFunctionOnSet(cols(V), T)
          = SumFunctionOnSet(f[c], T) + SumFunctionOnSet(cols(W), T)
    <3> HIDE DEF c, W, cols
    <3> QED  BY <2>3, SumPlus
  <2>5. SumFunctionOnSet(row, V) = row[c] + SumFunctionOnSet(row, W)
    <3> HIDE DEF row
    <3> QED  BY <1>4, <2>2, SumChoice
  <2>6. row[c] = SumFunctionOnSet(f[c], T)
    BY <2>1
  <2>7. SumFunctionOnSet(cols(W), T) = SumFunctionOnSet(row, W)
    BY <1>4
  <2>8. SumFunctionOnSet(cols(V), T) = SumFunctionOnSet(row, V)
    <3> HIDE DEF c, W, cols, row
    <3> QED  BY <2>4, <2>5, <2>6, <2>7
  <2> QED  BY <2>8
<1>5. U \in B
  <2>1. IsFiniteSet(U)
    BY FS_Subset
  <2> HIDE DEF B
  <2> QED  BY <1>3, <1>4, <2>1, FoldInduction
<1> QED  BY <1>5

LEMMA SumPartition ==
    ASSUME NEW D, IsFiniteSet(D), NEW W, IsFiniteSet(W), NEW r \in [D -> W],
           NEW f, \A d \in D : f[d] \in Int
    PROVE  SumFunctionOnSet(
               [w \in W |-> SumFunctionOnSet(f, {d \in D : r[d] = w})], W)
             = SumFunctionOnSet(f, D)
<1> DEFINE part(V, w) == {d \in V : r[d] = w}
           parts(V) == [w \in W |-> SumFunctionOnSet(f, part(V, w))]
           B == {V \in SUBSET D : SumFunctionOnSet(parts(V), W)
                                    = SumFunctionOnSet(f, V)}
<1>1. ASSUME NEW V \in SUBSET D
      PROVE  IsFiniteSet(V) /\ SumFunctionOnSet(f, V) \in Int
  <2>1. IsFiniteSet(V)
    BY FS_Subset
  <2> QED  BY <2>1, SumInt
<1>2. ASSUME NEW V \in SUBSET D, NEW w \in W PROVE parts(V)[w] \in Int
  <2>1. part(V, w) \in SUBSET D
    OBVIOUS
  <2> HIDE DEF part
  <2> QED  BY <1>1, <2>1
<1>3. {} \in B
  <2>1. ASSUME NEW w \in W PROVE parts({})[w] = 0
    <3>1. part({}, w) = {}
      OBVIOUS
    <3> HIDE DEF part
    <3> QED  BY <3>1, SumEmpty
  <2> HIDE DEF parts
  <2>2. SumFunctionOnSet(parts({}), W) = 0 /\ SumFunctionOnSet(f, {}) = 0
    BY <2>1, SumZero, SumEmpty
  <2> QED  BY <2>2
<1>4. ASSUME NEW V \in SUBSET D, V # {}, V \ {Choice(V)} \in B PROVE V \in B
  <2> DEFINE c == Choice(V)
             L == V \ {c}
  <2>1. c \in V /\ L \in SUBSET D /\ r[c] \in W /\ f[c] \in Int
    BY <1>4, ChoiceIn
  <2>2. ASSUME NEW w \in W, w # r[c] PROVE parts(V)[w] = parts(L)[w]
    <3>1. part(V, w) = part(L, w)
      BY <2>2
    <3> HIDE DEF part
    <3> QED  BY <3>1
  <2>3. parts(V)[r[c]] = f[c] + parts(L)[r[c]]
    <3>1. part(V, r[c]) \ {c} = part(L, r[c]) /\ c \in part(V, r[c])
      BY <2>1
    <3>2. part(V, r[c]) \in SUBSET D /\ \A d \in part(V, r[c]) : f[d] \in Int
      OBVIOUS
    <3>3. IsFiniteSet(part(V, r[c]))
      BY <3>2, FS_Subset
    <3> HIDE DEF part, c, L
    <3>4. SumFunctionOnSet(f, part(V, r[c]))
            = f[c] + SumFunctionOnSet(f, part(V, r[c]) \ {c})
      BY <3>1, <3>2, <3>3, SumTake
    <3>5. SumFunctionOnSet(f, part(V, r[c]))
            = f[c] + SumFunctionOnSet(f, part(L, r[c]))
      BY <3>1, <3>4
    <3> QED  BY <2>1, <3>5
  <2>4. \A w \in W : parts(V)[w] \in Int /\ parts(L)[w] \in Int
    BY <1>2, <2>1
  <2>5. /\ SumFunctionOnSet(f, V) = f[c] + SumFunctionOnSet(f, L)
        /\ SumFunctionOnSet(parts(L), W) = SumFunctionOnSet(f, L)
        /\ SumFunctionOnSet(f, L) \in Int
    BY <1>1, <1>4, <2>1, SumChoice
  <2>6. SumFunctionOnSet(parts(V), W)
          = SumFunctionOnSet(parts(L), W) + (parts(V)[r[c]] - parts(L)[r[c]])
    <3> DEFINE g == parts(L)
               h == parts(V)
               y == r[c]
    <3>1. y \in W /\ \A w \in W : g[w] \in Int /\ h[w] \in Int
      BY <2>1, <2>4
    <3>2. \A w \in W : w # y => h[w] = g[w]
      BY <2>2
    <3> HIDE DEF g, h, y
    <3>3. SumFunctionOnSet(h, W) = SumFunctionOnSet(g, W) + (h[y] - g[y])
      BY <3>1, <3>2, SumExcept
    <3> QED  BY <3>3 DEF g, h, y
  <2>7. SumFunctionOnSet(parts(V), W) = SumFunctionOnSet(f, V)
    <3>1. parts(L)[r[c]] \in Int
      BY <2>1, <2>4
    <3> HIDE DEF c, L, parts
    <3> QED  BY <2>1, <2>3, <2>5, <2>6, <3>1
  <2> QED  BY <2>7
<1>5. D \in B
  <2> HIDE DEF B
  <2> QED  BY <1>3, <1>4, FoldInduction
<1> QED  BY <1>5

(* The terms of a part of the set, the others counted as zero.             *)
LEMMA SumWhere ==
    ASSUME NEW S, IsFiniteSet(S), NEW T \in SUBSET S, NEW f,
           \A x \in T : f[x] \in Int
    PROVE  SumFunctionOnSet([x \in S |-> IF x \in T THEN f[x] ELSE 0], S)
             = SumFunctionOnSet(f, T)
<1> DEFINE id == [x \in T |-> x]
           part(x) == {y \in T : id[y] = x}
           parts == [x \in S |-> SumFunctionOnSet(f, part(x))]
           where == [x \in S |-> IF x \in T THEN f[x] ELSE 0]
<1>1. IsFiniteSet(T) /\ id \in [T -> S]
  BY FS_Subset
<1>2. SumFunctionOnSet(parts, S) = SumFunctionOnSet(f, T)
  <2> HIDE DEF id
  <2> QED  BY <1>1, SumPartition
<1>3. ASSUME NEW x \in S PROVE parts[x] = where[x]
  <2>1. CASE x \in T
    <3>1. part(x) = {x} /\ IsFiniteSet({x}) /\ {x} \ {x} = {}
      BY <2>1, FS_Singleton
    <3>2. SumFunctionOnSet(f, {x}) = f[x] + SumFunctionOnSet(f, {x} \ {x})
      BY <2>1, <3>1, SumTake
    <3>3. f[x] \in Int /\ SumFunctionOnSet(f, {}) = 0
      BY <2>1, SumEmpty
    <3>4. SumFunctionOnSet(f, {x} \ {x}) = 0
      BY <3>1, <3>3
    <3>5. SumFunctionOnSet(f, {x}) = f[x]
      BY <3>2, <3>3, <3>4
    <3>6. SumFunctionOnSet(f, part(x)) = f[x]
      <4> HIDE DEF part
      <4> QED  BY <3>1, <3>5
    <3> HIDE DEF part
    <3> QED  BY <2>1, <3>6
  <2>2. CASE x \notin T
    <3>1. part(x) = {}
      BY <2>2
    <3> HIDE DEF part
    <3> QED  BY <2>2, <3>1, SumEmpty
  <2> QED  BY <2>1, <2>2
<1>4. SumFunctionOnSet(parts, S) = SumFunctionOnSet(where, S)
  <2> HIDE DEF parts, where
  <2> QED  BY <1>3, SumEqual
<1> QED  BY <1>2, <1>4


(* What some elements have is moved to others: the sum stays.              *)
MovedBy(to, D, S, f, o, g) ==
    \A x \in S : g[x] = IF x \in D THEN f[x] - o[x]
                        ELSE f[x] + SumFunctionOnSet(o, {d \in D : to[d] = x})

LEMMA SumMoved ==
    ASSUME NEW S, IsFiniteSet(S), NEW D \in SUBSET S, NEW to \in [D -> S],
           \A d \in D : to[d] \notin D,
           NEW f \in [S -> Int], NEW o \in [S -> Int], NEW g,
           MovedBy(to, D, S, f, o, g)
    PROVE  SumFunctionOnSet(g, S) = SumFunctionOnSet(f, S)
<1> DEFINE from(x) == {d \in D : to[d] = x}
           gain == [x \in S |-> SumFunctionOnSet(o, from(x))]
           loss == [x \in S |-> IF x \in D THEN o[x] ELSE 0]
           more == [x \in S |-> f[x] + gain[x]]
           new == [x \in S |-> more[x] - loss[x]]
<1>1. IsFiniteSet(D) /\ \A d \in D : o[d] \in Int
  BY FS_Subset
<1>2. SumFunctionOnSet(gain, S) = SumFunctionOnSet(o, D)
  BY <1>1, SumPartition
<1>3. SumFunctionOnSet(loss, S) = SumFunctionOnSet(o, D)
  BY <1>1, SumWhere
<1>4. gain \in [S -> Int]
  <2>1. ASSUME NEW x \in S PROVE SumFunctionOnSet(o, from(x)) \in Int
    <3>1. IsFiniteSet(from(x)) /\ \A d \in from(x) : o[d] \in Int
      BY <1>1, FS_Subset
    <3> HIDE DEF from
    <3> QED  BY <3>1, SumInt
  <2> QED  BY <2>1
<1>5. loss \in [S -> Int]
  OBVIOUS
<1>6. more \in [S -> Int]
  <2> HIDE DEF gain
  <2> QED  BY <1>4
<1>7. SumFunctionOnSet(more, S) = SumFunctionOnSet(f, S) + SumFunctionOnSet(gain, S)
  <2> HIDE DEF gain
  <2> QED  BY <1>4, SumAdded
<1>8. SumFunctionOnSet(new, S) = SumFunctionOnSet(more, S) - SumFunctionOnSet(loss, S)
  <2> HIDE DEF more, loss
  <2> QED  BY <1>5, <1>6, SumTaken
<1>9. SumFunctionOnSet(f, S) \in Int /\ SumFunctionOnSet(o, D) \in Int
  BY <1>1, SumInt
<1>10. SumFunctionOnSet(new, S) = SumFunctionOnSet(f, S)
  <2> HIDE DEF gain, loss, more, new
  <2> QED  BY <1>2, <1>3, <1>7, <1>8, <1>9
<1>11. ASSUME NEW x \in S PROVE new[x] = g[x]
  <2>0. g[x] = IF x \in D THEN f[x] - o[x] ELSE f[x] + SumFunctionOnSet(o, from(x))
    BY DEF MovedBy
  <2>1. new[x] = (f[x] + gain[x]) - loss[x] /\ gain[x] = SumFunctionOnSet(o, from(x))
    OBVIOUS
  <2>2. CASE x \in D
    <3>1. from(x) = {}
      BY <2>2
    <3>2. gain[x] = 0
      <4> HIDE DEF from
      <4> QED  BY <2>1, <3>1, SumEmpty
    <3>3. loss[x] = o[x] /\ g[x] = f[x] - o[x]
      BY <2>0, <2>2
    <3> HIDE DEF new, gain, loss
    <3> QED  BY <2>1, <3>2, <3>3
  <2>3. CASE x \notin D
    <3>1. loss[x] = 0 /\ gain[x] \in Int
      BY <1>4, <2>3
    <3>2. g[x] = f[x] + gain[x]
      BY <2>0, <2>1, <2>3
    <3> HIDE DEF new, gain, loss
    <3> QED  BY <2>1, <3>1, <3>2
  <2> QED  BY <2>2, <2>3
<1>12. SumFunctionOnSet(new, S) = SumFunctionOnSet(g, S)
  <2> HIDE DEF new
  <2> QED  BY <1>11, SumEqual
<1> HIDE DEF new
<1> QED  BY <1>10, <1>12

-----------------------------------------------------------------------------
(* Intervals: induction, and functions defined by recursion along one.     *)
LEMMA Least ==
    ASSUME NEW S, IsFiniteSet(S), S # {}, S \subseteq Int
    PROVE  \E m \in S : \A x \in S : m <= x
<1> DEFINE B == {T \in SUBSET S :
                    T # {} => \E m \in T : \A x \in T : m <= x}
<1>1. ASSUME NEW T \in SUBSET S, T # {}, T \ {Choice(T)} \in B PROVE T \in B
  <2>1. Choice(T) \in T
    BY <1>1, ChoiceIn
  <2>2. CASE T \ {Choice(T)} = {}
    <3>1. Choice(T) \in Int /\ \A x \in T : x = Choice(T)
      BY <2>1, <2>2
    <3>2. \A x \in T : Choice(T) <= x
      BY <3>1
    <3> QED  BY <2>1, <3>2
  <2>3. CASE T \ {Choice(T)} # {}
    <3>1. PICK m \in T \ {Choice(T)} : \A x \in T \ {Choice(T)} : m <= x
      BY <1>1, <2>3
    <3>2. CASE m <= Choice(T)
      BY <2>1, <3>1, <3>2
    <3>3. CASE ~(m <= Choice(T))
      BY <2>1, <3>1, <3>3
    <3> QED  BY <3>2, <3>3
  <2> QED  BY <2>2, <2>3
<1>2. S \in B
  <2>1. {} \in B
    OBVIOUS
  <2> HIDE DEF B
  <2> QED  BY <1>1, <2>1, FoldInduction
<1> QED  BY <1>2

LEMMA IntervalInduction ==
    ASSUME NEW n \in Nat, NEW B,
           \A i \in 1..n : (i > 1 => i - 1 \in B) => i \in B
    PROVE  1..n \subseteq B
<1> DEFINE C == (1..n) \ B
<1>1. SUFFICES ASSUME C # {} PROVE FALSE
  OBVIOUS
<1>2. IsFiniteSet(C) /\ C \subseteq Int
  BY FS_Interval, FS_Subset
<1>3. PICK m \in C : \A x \in C : m <= x
  <2> HIDE DEF C
  <2> QED  BY <1>1, <1>2, Least
<1>4. m > 1 => m - 1 \in B
  BY <1>3
<1> QED  BY <1>3, <1>4

Iterates(f, n, first, step) ==
    \A i \in 1..n : f[i] = IF i = 1 THEN first ELSE step[i][f[i - 1]]

LEMMA IntervalRecursion ==
    ASSUME NEW n \in Nat, NEW V, NEW first \in V,
           NEW step \in [1..n -> [V -> V]]
    PROVE  \E f \in [1..n -> V] : Iterates(f, n, first, step)
<1> USE DEF Iterates
<1> DEFINE Good(k, f) == Iterates(f, k, first, step)
           B == {k \in 1..n : \E f \in [1..k -> V] : Good(k, f)}
<1>1. ASSUME NEW k \in 1..n, k > 1 => k - 1 \in B PROVE k \in B
  <2>1. CASE k = 1
    <3>1. [i \in 1..k |-> first] \in [1..k -> V]
          /\ Good(k, [i \in 1..k |-> first])
      BY <2>1
    <3> QED  BY <3>1
  <2>2. CASE k # 1
    <3>1. k - 1 \in 1..n
      BY <2>2
    <3>2. PICK f \in [1..(k - 1) -> V] : Good(k - 1, f)
      BY <1>1, <2>2, <3>1
    <3> DEFINE g == [i \in 1..k |-> IF i = k THEN step[k][f[k - 1]] ELSE f[i]]
    <3>3. f[k - 1] \in V /\ step[k][f[k - 1]] \in V
      BY <3>1
    <3>4. g \in [1..k -> V]
      BY <3>3
    <3>5. ASSUME NEW i \in 1..k
          PROVE  g[i] = IF i = 1 THEN first ELSE step[i][g[i - 1]]
      <4>1. CASE i = k
        <5>1. g[k] = step[k][f[k - 1]] /\ g[k - 1] = f[k - 1]
          BY <2>2, <3>1
        <5> QED  BY <2>2, <4>1, <5>1
      <4>2. CASE i # k
        <5>1. i \in 1..(k - 1) /\ g[i] = f[i]
          BY <4>2
        <5>2. i # 1 => g[i - 1] = f[i - 1]
          BY <5>1
        <5> QED  BY <3>2, <5>1, <5>2
      <4> QED  BY <4>1, <4>2
    <3> QED  BY <3>4, <3>5
  <2> QED  BY <2>1, <2>2
<1>2. CASE n = 0
  <2>1. [i \in 1..n |-> first] \in [1..n -> V] /\ 1..n = {}
    BY <1>2
  <2> QED  BY <2>1
<1>3. CASE n # 0
  <2>1. 1..n \subseteq B
    <3> HIDE DEF B
    <3> QED  BY <1>1, IntervalInduction
  <2> QED  BY <1>3, <2>1
<1> QED  BY <1>2, <1>3

(* The same from zero.                                                     *)
IteratesFromZero(f, n, first, step) ==
    f[0] = first /\ \A i \in 1..n : f[i] = step[i][f[i - 1]]

LEMMA RecursionFromZero ==
    ASSUME NEW n \in Nat, NEW V, NEW first \in V,
           NEW step \in [1..n -> [V -> V]]
    PROVE  \E f \in [0..n -> V] : IteratesFromZero(f, n, first, step)
<1> DEFINE m == n + 1
           later == [i \in 1..m |-> IF i = 1 THEN [v \in V |-> v] ELSE step[i - 1]]
<1>1. m \in Nat /\ later \in [1..m -> [V -> V]]
  OBVIOUS
<1>2. PICK g \in [1..m -> V] : Iterates(g, m, first, later)
  <2> HIDE DEF m, later
  <2> QED  BY <1>1, IntervalRecursion
<1> DEFINE f == [i \in 0..n |-> g[i + 1]]
<1>3. f \in [0..n -> V]
  OBVIOUS
<1>4. f[0] = first
  BY <1>2 DEF Iterates
<1>5. ASSUME NEW i \in 1..n PROVE f[i] = step[i][f[i - 1]]
  <2>1. i + 1 \in 1..m /\ i + 1 # 1 /\ (i + 1) - 1 = i
    OBVIOUS
  <2>2. g[i + 1] = later[i + 1][g[i]]
    <3> HIDE DEF later, m
    <3> QED  BY <1>2, <2>1 DEF Iterates
  <2>3. later[i + 1] = step[i]
    BY <2>1
  <2>4. f[i] = g[i + 1] /\ f[i - 1] = g[i]
    OBVIOUS
  <2> HIDE DEF f, later
  <2> QED  BY <2>2, <2>3, <2>4
<1>6. IteratesFromZero(f, n, first, step)
  <2> HIDE DEF f
  <2> QED  BY <1>4, <1>5 DEF IteratesFromZero
<1> HIDE DEF f
<1> QED  BY <1>3, <1>6

LEMMA SumExtend ==
    ASSUME NEW n \in Nat, NEW f, NEW g,
           \A i \in 1..n : f[i] \in Int /\ g[i] = f[i], g[n + 1] \in Int
    PROVE  SumFunctionOnSet(g, 1..(n + 1)) = SumFunctionOnSet(f, 1..n) + g[n + 1]
<1> DEFINE S == 1..(n + 1)
           x == n + 1
<1>1. IsFiniteSet(S) /\ x \in S /\ S \ {x} = 1..n /\ IsFiniteSet(1..n)
  <2>1. n + 1 \in Int /\ 1 \in Int /\ n \in Int
    OBVIOUS
  <2>2. IsFiniteSet(1..(n + 1)) /\ IsFiniteSet(1..n)
    BY <2>1, FS_Interval
  <2>3. x \in S /\ S \ {x} = 1..n
    OBVIOUS
  <2> QED  BY <2>2, <2>3
<1>2. \A i \in S : g[i] \in Int
  OBVIOUS
<1>3. SumFunctionOnSet(g, S) = g[x] + SumFunctionOnSet(g, S \ {x})
  <2> HIDE DEF S, x
  <2> QED  BY <1>1, <1>2, SumTake
<1>4. SumFunctionOnSet(g, 1..n) = SumFunctionOnSet(f, 1..n)
  BY <1>1, SumEqual
<1>5. SumFunctionOnSet(f, 1..n) \in Int
  BY <1>1, SumInt
<1>6. SumFunctionOnSet(g, S) = g[x] + SumFunctionOnSet(f, 1..n)
  BY <1>1, <1>3, <1>4
<1> QED  BY <1>5, <1>6

-----------------------------------------------------------------------------
(* A sum over a set and over its image, its parts, and along a sequence.   *)

(* h gives each element of T to one element of S, and f is there what g is *)
(* here.                                                                   *)
CarriedBy(h, S, f, g) == \A x \in S : g[x] \in Int /\ f[h[x]] = g[x]

LEMMA SumImage ==
    ASSUME NEW S, IsFiniteSet(S), NEW T, IsFiniteSet(T), NEW h \in Bijection(S, T),
           NEW f, NEW g, CarriedBy(h, S, f, g)
    PROVE  SumFunctionOnSet(f, T) = SumFunctionOnSet(g, S)
<1>0. /\ h \in [S -> T] /\ \A x, y \in S : h[x] = h[y] => x = y
      /\ \A t \in T : \E x \in S : h[x] = t
      /\ \A x \in S : g[x] \in Int /\ f[h[x]] = g[x]
  BY DEF Bijection, Injection, Surjection, IsInjective, CarriedBy
<1> DEFINE from(t) == {x \in S : h[x] = t}
           parts == [t \in T |-> SumFunctionOnSet(g, from(t))]
<1>1. SumFunctionOnSet(parts, T) = SumFunctionOnSet(g, S)
  BY <1>0, SumPartition
<1>2. ASSUME NEW t \in T PROVE parts[t] = f[t]
  <2>1. PICK x \in S : h[x] = t
    BY <1>0
  <2>2. from(t) = {x}
    BY <1>0, <2>1
  <2>3. SumFunctionOnSet(g, {x}) = g[x] + SumFunctionOnSet(g, {x} \ {x})
    <3>1. IsFiniteSet({x})
      BY FS_Singleton
    <3> QED  BY <1>0, <2>1, <3>1, SumTake
  <2>4. {x} \ {x} = {}
    OBVIOUS
  <2>5. SumFunctionOnSet(g, {x}) = g[x]
    BY <1>0, <2>1, <2>3, <2>4, SumEmpty
  <2>6. parts[t] = SumFunctionOnSet(g, from(t))
    OBVIOUS
  <2> HIDE DEF parts, from
  <2> QED  BY <1>0, <2>1, <2>2, <2>5, <2>6
<1>3. SumFunctionOnSet(f, T) = SumFunctionOnSet(parts, T)
  <2> HIDE DEF parts
  <2> QED  BY <1>2, SumEqual
<1> QED  BY <1>1, <1>3

LEMMA SumSplit ==
    ASSUME NEW S, IsFiniteSet(S), NEW T \in SUBSET S, NEW f, \A x \in S : f[x] \in Int
    PROVE  SumFunctionOnSet(f, S)
             = SumFunctionOnSet(f, T) + SumFunctionOnSet(f, S \ T)
<1> DEFINE U == S \ T
           in == [x \in S |-> IF x \in T THEN f[x] ELSE 0]
           out == [x \in S |-> IF x \in U THEN f[x] ELSE 0]
<1>1. SumFunctionOnSet(in, S) = SumFunctionOnSet(f, T)
  BY SumWhere
<1>2. SumFunctionOnSet(out, S) = SumFunctionOnSet(f, U)
  <2>1. U \in SUBSET S /\ \A x \in U : f[x] \in Int
    OBVIOUS
  <2> HIDE DEF U
  <2> QED  BY <2>1, SumWhere
<1>3. SumFunctionOnSet(f, S) = SumFunctionOnSet(in, S) + SumFunctionOnSet(out, S)
  <2>1. \A x \in S : in[x] \in Int /\ out[x] \in Int /\ f[x] = in[x] + out[x]
    OBVIOUS
  <2> HIDE DEF in, out
  <2> QED  BY <2>1, SumPlus
<1> QED  BY <1>1, <1>2, <1>3

LEMMA SumOfPart ==
    ASSUME NEW S, IsFiniteSet(S), NEW T \in SUBSET S, NEW f, \A x \in S : f[x] \in Nat
    PROVE  SumFunctionOnSet(f, T) <= SumFunctionOnSet(f, S)
<1>1. IsFiniteSet(T) /\ IsFiniteSet(S \ T)
  BY FS_Subset
<1>2. SumFunctionOnSet(f, T) \in Nat /\ SumFunctionOnSet(f, S \ T) \in Nat
  BY <1>1, SumNat
<1>3. SumFunctionOnSet(f, S) = SumFunctionOnSet(f, T) + SumFunctionOnSet(f, S \ T)
  BY SumSplit
<1> QED  BY <1>2, <1>3

(* The first term of a sequence taken off.                                 *)
LEMMA SumTail ==
    ASSUME NEW n \in Nat, NEW f, NEW g, f[1] \in Int,
           \A i \in 1..n : g[i] \in Int /\ f[i + 1] = g[i]
    PROVE  SumFunctionOnSet(f, 1..(n + 1)) = f[1] + SumFunctionOnSet(g, 1..n)
<1> DEFINE S == 1..n
           T == 2..(n + 1)
           h == [i \in S |-> i + 1]
<1>1. IsFiniteSet(S) /\ IsFiniteSet(T) /\ IsFiniteSet(1..(n + 1))
  <2>1. n \in Int /\ n + 1 \in Int /\ 1 \in Int /\ 2 \in Int
    OBVIOUS
  <2> QED  BY <2>1, FS_Interval
<1>2. h \in [S -> T] /\ (\A x, y \in S : h[x] = h[y] => x = y)
  OBVIOUS
<1>3. \A t \in T : \E x \in S : h[x] = t
  <2>1. ASSUME NEW t \in T PROVE t - 1 \in S /\ h[t - 1] = t
    OBVIOUS
  <2> QED  BY <2>1
<1>4. \A x \in S : g[x] \in Int /\ f[h[x]] = g[x]
  OBVIOUS
<1>5. SumFunctionOnSet(f, T) = SumFunctionOnSet(g, S)
  <2> HIDE DEF S, T, h
  <2>1. h \in Bijection(S, T)
    BY <1>2, <1>3 DEF Bijection, Injection, Surjection, IsInjective
  <2>2. CarriedBy(h, S, f, g)
    BY <1>4 DEF CarriedBy
  <2> QED  BY <1>1, <2>1, <2>2, SumImage
<1>6. /\ 1 \in 1..(n + 1) /\ (1..(n + 1)) \ {1} = T
  OBVIOUS
<1>7. \A x \in 1..(n + 1) : f[x] \in Int
  <2>1. ASSUME NEW x \in 1..(n + 1), x # 1 PROVE f[x] \in Int
    <3>1. x - 1 \in 1..n /\ (x - 1) + 1 = x
      BY <2>1
    <3> QED  BY <3>1
  <2> QED  BY <2>1
<1>8. SumFunctionOnSet(f, 1..(n + 1)) = f[1] + SumFunctionOnSet(f, T)
  <2> HIDE DEF T
  <2> QED  BY <1>1, <1>6, <1>7, SumTake
<1> QED  BY <1>5, <1>8

=============================================================================
