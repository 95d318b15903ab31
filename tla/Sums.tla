--------------------------------- MODULE Sums ---------------------------------
(***************************************************************************)
(* Facts about sums over finite sets, SumFunctionOnSet of the community    *)
(* modules, for the amounts of the portfolio: the sum of a position each.  *)
(* The library's induction theorems take an operator, so each induction    *)
(* here is on a smallest counterexample, a set.                            *)
(***************************************************************************)
EXTENDS Functions, FiniteSetTheorems, WellFoundedInduction, TLAPS

First(s) == CHOOSE x \in s : TRUE

(* What the definition of the sum over S asks of the function it recurses  *)
(* with.                                                                   *)
IsFold(it, f, S) ==
  it = [s \in SUBSET S |-> IF s = {} THEN 0 ELSE f[First(s)] + it[s \ {First(s)}]]

(* A family of finite sets has a smallest member. *)
LEMMA Smallest ==
  ASSUME NEW S, IsFiniteSet(S), NEW B, B \subseteq SUBSET S, B # {}
  PROVE  \E T \in B : \A U \in B : U \subseteq T => U = T
<1>1. IsWellFoundedOn(StrictSubsetOrdering(S), SUBSET S)
  BY FS_StrictSubsetOrderingWellFounded, FS_FiniteSubsetsOfFinite
<1>2. PICK T \in B : \A U \in B : ~ (<<U, T>> \in StrictSubsetOrdering(S))
  BY <1>1, WFMin
<1> QED BY <1>2 DEF StrictSubsetOrdering

LEMMA FirstIn == ASSUME NEW S, S # {} PROVE First(S) \in S
BY DEF First

(* The sum is the value of such a function. *)
LEMMA FoldIs ==
  ASSUME NEW f, NEW S
  PROVE  SumFunctionOnSet(f, S) = (CHOOSE it : IsFold(it, f, S))[S]
BY DEF SumFunctionOnSet, FoldFunctionOnSet, MapThenFoldSet, IsFold, First

LEMMA FoldStep ==
  ASSUME NEW it, NEW f, NEW S, IsFold(it, f, S)
  PROVE  /\ it[{}] = 0
         /\ \A s \in SUBSET S : s # {} => it[s] = f[First(s)] + it[s \ {First(s)}]
BY DEF IsFold

(* Two of them agree wherever both are defined. *)
LEMMA FoldUnique ==
  ASSUME NEW f, NEW S, NEW T, IsFiniteSet(T), T \subseteq S,
         NEW it, IsFold(it, f, S), NEW jt, IsFold(jt, f, T)
  PROVE  \A s \in SUBSET T : it[s] = jt[s]
<1> DEFINE B == {s \in SUBSET T : it[s] # jt[s]}
<1> SUFFICES ASSUME B # {} PROVE FALSE
  OBVIOUS
<1>1. PICK s \in B : \A u \in B : u \subseteq s => u = s
  <2>1. B \subseteq SUBSET T
    OBVIOUS
  <2> HIDE DEF B
  <2> QED BY <2>1, Smallest
<1>2. s # {}
  BY <1>1, FoldStep
<1>3. First(s) \in s
  BY <1>2, FirstIn
<1>4. it[s \ {First(s)}] = jt[s \ {First(s)}]
  BY <1>1, <1>3
<1>5. s \in SUBSET S /\ s \in SUBSET T
  BY <1>1
<1> QED BY <1>1, <1>2, <1>4, <1>5, FoldStep

(* And there is one. *)
LEMMA FoldExists ==
  ASSUME NEW f, NEW S, IsFiniteSet(S)
  PROVE  \E it : IsFold(it, f, S)
<1> DEFINE B == {T \in SUBSET S : ~\E it : IsFold(it, f, T)}
<1> SUFFICES ASSUME B # {} PROVE FALSE
  OBVIOUS
<1>1. PICK T \in B : \A u \in B : u \subseteq T => u = T
  <2>1. B \subseteq SUBSET S
    OBVIOUS
  <2> HIDE DEF B
  <2> QED BY <2>1, Smallest
<1> DEFINE h(s) == CHOOSE it : IsFold(it, f, s)
           val(s) == IF s = {} THEN 0 ELSE f[First(s)] + h(s \ {First(s)})[s \ {First(s)}]
           g == [s \in SUBSET T |-> val(s)]
<1>2. \A u \in SUBSET T : u # T => IsFold(h(u), f, u) /\ IsFiniteSet(u)
  <2> SUFFICES ASSUME NEW u \in SUBSET T, u # T PROVE IsFold(h(u), f, u) /\ IsFiniteSet(u)
    OBVIOUS
  <2>1. \E it : IsFold(it, f, u)
    BY <1>1
  <2>2. IsFold(h(u), f, u)
    BY <2>1
  <2> QED BY <2>2, FS_Subset
<1>3. ASSUME NEW u \in SUBSET T, u # T PROVE h(u)[u] = val(u)
  <2>1. CASE u = {}
    BY <2>1, <1>2, <1>3, FoldStep
  <2>2. CASE u # {}
    <3> DEFINE r == u \ {First(u)}
    <3>1. r \in SUBSET T /\ r # T /\ r \subseteq u
      BY <1>3
    <3>2. IsFold(h(u), f, u) /\ IsFold(h(r), f, r) /\ IsFiniteSet(r)
      BY <1>2, <1>3, <3>1
    <3>3. h(u)[u] = f[First(u)] + h(u)[r]
      BY <2>2, <3>2, FoldStep
    <3>4. h(u)[r] = h(r)[r]
      <4> HIDE DEF h, r
      <4> QED BY <3>1, <3>2, FoldUnique
    <3> QED BY <2>2, <3>3, <3>4
  <2> QED BY <2>1, <2>2
<1>4. \A s \in SUBSET T : s # {} => g[s] = f[First(s)] + g[s \ {First(s)}]
  <2> SUFFICES ASSUME NEW s \in SUBSET T, s # {}
               PROVE  g[s] = f[First(s)] + g[s \ {First(s)}]
    OBVIOUS
  <2> DEFINE r == s \ {First(s)}
  <2>1. r \in SUBSET T /\ r # T
    BY FirstIn
  <2>2. g[s] = f[First(s)] + h(r)[r]
    OBVIOUS
  <2>3. h(r)[r] = g[r]
    <3>1. h(r)[r] = val(r)
      BY <1>3, <2>1
    <3>2. g[r] = val(r)
      BY <2>1
    <3> QED BY <3>1, <3>2
  <2> QED BY <2>2, <2>3
<1>5. IsFold(g, f, T)
  <2>1. \A s \in SUBSET T : g[s] = IF s = {} THEN 0 ELSE f[First(s)] + g[s \ {First(s)}]
    <3>1. g[{}] = 0
      OBVIOUS
    <3> HIDE DEF g
    <3> QED BY <1>4, <3>1
  <2>2. g = [s \in SUBSET T |-> g[s]]
    OBVIOUS
  <2> HIDE DEF g
  <2> QED BY <2>1, <2>2 DEF IsFold
<1> QED BY <1>1, <1>5

-----------------------------------------------------------------------------
(* The sum takes one element out of the set and adds the rest, and         *)
LEMMA SumStep ==
  ASSUME NEW f, NEW S, IsFiniteSet(S)
  PROVE  /\ S = {} => SumFunctionOnSet(f, S) = 0
         /\ S # {} => SumFunctionOnSet(f, S)
                        = f[First(S)] + SumFunctionOnSet(f, S \ {First(S)})
<1> DEFINE h(s) == CHOOSE it : IsFold(it, f, s)
<1>1. IsFold(h(S), f, S)
  BY FoldExists
<1>2. SumFunctionOnSet(f, S) = h(S)[S]
  BY FoldIs
<1>3. CASE S = {}
  <2> HIDE DEF h
  <2> QED BY <1>1, <1>2, <1>3, FoldStep
<1>4. CASE S # {}
  <2> DEFINE r == S \ {First(S)}
  <2>1. IsFiniteSet(r) /\ r \subseteq S
    BY FS_Subset
  <2>2. IsFold(h(r), f, r)
    BY <2>1, FoldExists
  <2>3. SumFunctionOnSet(f, r) = h(r)[r]
    BY FoldIs
  <2>4. h(S)[S] = f[First(S)] + h(S)[r]
    <3>1. S \in SUBSET S
      OBVIOUS
    <3> HIDE DEF h
    <3> QED BY <1>1, <1>4, <3>1, FoldStep
  <2>5. h(S)[r] = h(r)[r]
    <3> HIDE DEF h, r
    <3> QED BY <1>1, <2>1, <2>2, FoldUnique
  <2> QED BY <1>2, <1>4, <2>3, <2>4, <2>5
<1> QED BY <1>3, <1>4

(* is an integer for integers. *)
LEMMA SumType ==
  ASSUME NEW f, NEW S, IsFiniteSet(S), \A x \in S : f[x] \in Int
  PROVE  SumFunctionOnSet(f, S) \in Int
<1> DEFINE B == {T \in SUBSET S : SumFunctionOnSet(f, T) \notin Int}
<1> SUFFICES ASSUME B # {} PROVE FALSE
  OBVIOUS
<1>1. PICK T \in B : \A u \in B : u \subseteq T => u = T
  <2>1. B \subseteq SUBSET S
    OBVIOUS
  <2> HIDE DEF B
  <2> QED BY <2>1, Smallest
<1>2. IsFiniteSet(T) /\ T \subseteq S
  BY <1>1, FS_Subset
<1>3. T # {} /\ First(T) \in T
  <2>1. T = {} => SumFunctionOnSet(f, T) = 0
    BY <1>2, SumStep
  <2>2. T # {}
    BY <1>1, <2>1
  <2> QED BY <2>2, FirstIn
<1>4. SumFunctionOnSet(f, T \ {First(T)}) \in Int
  BY <1>1, <1>2, <1>3
<1>5. SumFunctionOnSet(f, T) = f[First(T)] + SumFunctionOnSet(f, T \ {First(T)})
  BY <1>2, <1>3, SumStep
<1>6. f[First(T)] \in Int
  BY <1>2, <1>3
<1> QED BY <1>1, <1>4, <1>5, <1>6

(* Which element is taken out makes no difference. *)
LEMMA SumRemove ==
  ASSUME NEW f, NEW S, IsFiniteSet(S), \A x \in S : f[x] \in Int, NEW d \in S
  PROVE  SumFunctionOnSet(f, S) = f[d] + SumFunctionOnSet(f, S \ {d})
<1> DEFINE Splits(T, x) == SumFunctionOnSet(f, T) = f[x] + SumFunctionOnSet(f, T \ {x})
           B == {T \in SUBSET S : \E x \in T : ~Splits(T, x)}
<1> SUFFICES ASSUME B # {} PROVE FALSE
  OBVIOUS
<1>1. PICK T \in B : \A u \in B : u \subseteq T => u = T
  <2>1. B \subseteq SUBSET S
    OBVIOUS
  <2> HIDE DEF B
  <2> QED BY <2>1, Smallest
<1>2. PICK x \in T : ~Splits(T, x)
  BY <1>1
<1> DEFINE c == First(T)
<1>3. IsFiniteSet(T) /\ T \subseteq S /\ T # {} /\ c \in T
  BY <1>1, <1>2, FS_Subset, FirstIn
<1>4. SumFunctionOnSet(f, T) = f[c] + SumFunctionOnSet(f, T \ {c})
  BY <1>3, SumStep
<1>5. c # x
  BY <1>2, <1>4
<1>6. SumFunctionOnSet(f, T \ {c}) = f[x] + SumFunctionOnSet(f, (T \ {c}) \ {x})
  <2> HIDE DEF c
  <2>1. T \ {c} \notin B
    BY <1>1, <1>3
  <2> QED BY <2>1, <1>3, <1>5
<1>7. SumFunctionOnSet(f, T \ {x}) = f[c] + SumFunctionOnSet(f, (T \ {x}) \ {c})
  <2> HIDE DEF c
  <2>1. T \ {x} \notin B
    BY <1>1, <1>2
  <2> QED BY <2>1, <1>3, <1>5
<1>8. SumFunctionOnSet(f, (T \ {x}) \ {c}) \in Int
  <2>1. IsFiniteSet((T \ {x}) \ {c}) /\ (T \ {x}) \ {c} \subseteq S
    BY <1>3, FS_Subset
  <2> QED BY <2>1, SumType
<1>9. (T \ {x}) \ {c} = (T \ {c}) \ {x} /\ f[c] \in Int /\ f[x] \in Int
  BY <1>2, <1>3
<1>10. SumFunctionOnSet(f, T) = f[x] + SumFunctionOnSet(f, T \ {x})
  <2> DEFINE r == SumFunctionOnSet(f, (T \ {x}) \ {c})
             rc == SumFunctionOnSet(f, T \ {c})
             rx == SumFunctionOnSet(f, T \ {x})
             t == SumFunctionOnSet(f, T)
  <2>1. t = f[c] + rc /\ rc = f[x] + r /\ rx = f[c] + r
    BY <1>4, <1>6, <1>7, <1>9
  <2>2. r \in Int /\ f[c] \in Int /\ f[x] \in Int
    BY <1>8, <1>9
  <2>3. t = f[x] + rx
    <3> HIDE DEF r, rc, rx, t, c
    <3> QED BY <2>1, <2>2
  <2> QED BY <2>3
<1> QED BY <1>2, <1>10

(* Only the summands count. *)
LEMMA SumSame ==
  ASSUME NEW f, NEW g, NEW S, IsFiniteSet(S), \A x \in S : f[x] = g[x]
  PROVE  SumFunctionOnSet(f, S) = SumFunctionOnSet(g, S)
<1> DEFINE B == {T \in SUBSET S : SumFunctionOnSet(f, T) # SumFunctionOnSet(g, T)}
<1> SUFFICES ASSUME B # {} PROVE FALSE
  OBVIOUS
<1>1. PICK T \in B : \A u \in B : u \subseteq T => u = T
  <2>1. B \subseteq SUBSET S
    OBVIOUS
  <2> HIDE DEF B
  <2> QED BY <2>1, Smallest
<1>2. IsFiniteSet(T) /\ T \subseteq S
  BY <1>1, FS_Subset
<1>3. T # {} /\ First(T) \in T
  BY <1>1, <1>2, SumStep, FirstIn
<1>4. SumFunctionOnSet(f, T \ {First(T)}) = SumFunctionOnSet(g, T \ {First(T)})
  BY <1>1, <1>2, <1>3
<1>5. /\ SumFunctionOnSet(f, T) = f[First(T)] + SumFunctionOnSet(f, T \ {First(T)})
      /\ SumFunctionOnSet(g, T) = g[First(T)] + SumFunctionOnSet(g, T \ {First(T)})
  BY <1>2, <1>3, SumStep
<1> QED BY <1>1, <1>2, <1>3, <1>4, <1>5

(* One summand changes. *)
LEMMA SumChange ==
  ASSUME NEW f, NEW g, NEW S, IsFiniteSet(S), NEW d \in S,
         \A x \in S : f[x] \in Int, \A x \in S \ {d} : g[x] = f[x], g[d] \in Int
  PROVE  SumFunctionOnSet(g, S) = SumFunctionOnSet(f, S) - f[d] + g[d]
<1>1. IsFiniteSet(S \ {d}) /\ \A x \in S : g[x] \in Int
  BY FS_Subset
<1>2. SumFunctionOnSet(f, S) = f[d] + SumFunctionOnSet(f, S \ {d})
  BY SumRemove
<1>3. SumFunctionOnSet(g, S) = g[d] + SumFunctionOnSet(g, S \ {d})
  BY <1>1, SumRemove
<1>4. SumFunctionOnSet(f, S \ {d}) = SumFunctionOnSet(g, S \ {d})
  BY <1>1, SumSame
<1>5. SumFunctionOnSet(f, S \ {d}) \in Int /\ f[d] \in Int
  BY <1>1, SumType
<1> QED BY <1>2, <1>3, <1>4, <1>5

(* The sum of differences is the difference of the sums.                   *)
LEMMA SumDifference ==
  ASSUME NEW f, NEW g, NEW h, NEW S, IsFiniteSet(S),
         \A x \in S : f[x] \in Int /\ g[x] \in Int /\ h[x] = f[x] - g[x]
  PROVE  SumFunctionOnSet(h, S) = SumFunctionOnSet(f, S) - SumFunctionOnSet(g, S)
<1> DEFINE Differs(T) == SumFunctionOnSet(h, T)
                           # SumFunctionOnSet(f, T) - SumFunctionOnSet(g, T)
           B == {T \in SUBSET S : Differs(T)}
<1> SUFFICES ASSUME B # {} PROVE FALSE
  OBVIOUS
<1>1. PICK T \in B : \A U \in B : U \subseteq T => U = T
  <2>1. B \subseteq SUBSET S
    OBVIOUS
  <2> HIDE DEF B
  <2> QED BY <2>1, Smallest
<1>2. IsFiniteSet(T) /\ T \subseteq S
  BY <1>1, FS_Subset
<1>3. CASE T = {}
  <2>1. /\ SumFunctionOnSet(h, T) = 0 /\ SumFunctionOnSet(f, T) = 0
        /\ SumFunctionOnSet(g, T) = 0
    BY <1>2, <1>3, SumStep
  <2> QED BY <1>1, <2>1
<1>4. CASE T # {}
  <2> DEFINE d == First(T)
             R == T \ {d}
  <2>1. d \in T /\ d \in S /\ R \subseteq T /\ R # T /\ R \in SUBSET S /\ IsFiniteSet(R)
    BY <1>2, <1>4, FirstIn, FS_Subset
  <2>2. ~Differs(R)
    BY <1>1, <2>1
  <2>3. /\ SumFunctionOnSet(h, T) = h[d] + SumFunctionOnSet(h, R)
        /\ SumFunctionOnSet(f, T) = f[d] + SumFunctionOnSet(f, R)
        /\ SumFunctionOnSet(g, T) = g[d] + SumFunctionOnSet(g, R)
    BY <1>2, <1>4, SumStep
  <2>4. SumFunctionOnSet(f, R) \in Int /\ SumFunctionOnSet(g, R) \in Int
    <3>1. \A x \in R : f[x] \in Int /\ g[x] \in Int
      BY <2>1
    <3> HIDE DEF R
    <3> QED BY <2>1, <3>1, SumType
  <2>5. f[d] \in Int /\ g[d] \in Int /\ h[d] = f[d] - g[d]
    BY <2>1
  <2>6. ~Differs(T)
    <3> HIDE DEF R, d
    <3> QED BY <2>2, <2>3, <2>4, <2>5
  <2> QED BY <1>1, <2>6
<1> QED BY <1>3, <1>4

(* The sum grows with its summands. *)
LEMMA SumMonotone ==
  ASSUME NEW f, NEW g, NEW S, IsFiniteSet(S),
         \A x \in S : f[x] \in Int /\ g[x] \in Int /\ f[x] <= g[x]
  PROVE  SumFunctionOnSet(f, S) <= SumFunctionOnSet(g, S)
<1> DEFINE B == {T \in SUBSET S : ~(SumFunctionOnSet(f, T) <= SumFunctionOnSet(g, T))}
<1> SUFFICES ASSUME B # {} PROVE FALSE
  OBVIOUS
<1>1. PICK T \in B : \A u \in B : u \subseteq T => u = T
  <2>1. B \subseteq SUBSET S
    OBVIOUS
  <2> HIDE DEF B
  <2> QED BY <2>1, Smallest
<1>2. IsFiniteSet(T) /\ T \subseteq S
  BY <1>1, FS_Subset
<1>3. T # {} /\ First(T) \in T
  <2>1. T = {} => SumFunctionOnSet(f, T) = 0 /\ SumFunctionOnSet(g, T) = 0
    BY <1>2, SumStep
  <2>2. T # {}
    BY <1>1, <2>1
  <2> QED BY <2>2, FirstIn
<1> DEFINE r == T \ {First(T)}
<1>4. SumFunctionOnSet(f, r) <= SumFunctionOnSet(g, r)
  BY <1>1, <1>2, <1>3
<1>5. /\ SumFunctionOnSet(f, T) = f[First(T)] + SumFunctionOnSet(f, r)
      /\ SumFunctionOnSet(g, T) = g[First(T)] + SumFunctionOnSet(g, r)
  BY <1>2, <1>3, SumStep
<1>6. f[First(T)] <= g[First(T)] /\ f[First(T)] \in Int /\ g[First(T)] \in Int
  BY <1>2, <1>3
<1>7. IsFiniteSet(r) /\ r \subseteq S
  BY <1>2, FS_Subset
<1>8. SumFunctionOnSet(f, r) \in Int /\ SumFunctionOnSet(g, r) \in Int
  <2> HIDE DEF r
  <2> QED BY <1>7, SumType
<1>9. ~(SumFunctionOnSet(f, T) <= SumFunctionOnSet(g, T))
  BY <1>1
<1> QED BY <1>4, <1>5, <1>6, <1>8, <1>9

(* A sum of zeros. *)
LEMMA SumZero ==
  ASSUME NEW f, NEW S, IsFiniteSet(S), \A x \in S : f[x] = 0
  PROVE  SumFunctionOnSet(f, S) = 0
<1> DEFINE B == {T \in SUBSET S : SumFunctionOnSet(f, T) # 0}
<1> SUFFICES ASSUME B # {} PROVE FALSE
  OBVIOUS
<1>1. PICK T \in B : \A u \in B : u \subseteq T => u = T
  <2>1. B \subseteq SUBSET S
    OBVIOUS
  <2> HIDE DEF B
  <2> QED BY <2>1, Smallest
<1>2. IsFiniteSet(T) /\ T \subseteq S
  BY <1>1, FS_Subset
<1>3. T # {} /\ First(T) \in T
  BY <1>1, <1>2, SumStep, FirstIn
<1>4. SumFunctionOnSet(f, T \ {First(T)}) = 0
  BY <1>1, <1>2, <1>3
<1>5. SumFunctionOnSet(f, T) = f[First(T)] + SumFunctionOnSet(f, T \ {First(T)})
  BY <1>2, <1>3, SumStep
<1> QED BY <1>1, <1>2, <1>3, <1>4, <1>5

(* Of natural numbers, it is a natural number that bounds each of them.    *)
LEMMA SumNat ==
  ASSUME NEW f, NEW S, IsFiniteSet(S), \A x \in S : f[x] \in Nat
  PROVE  /\ SumFunctionOnSet(f, S) \in Nat
         /\ \A x \in S : f[x] <= SumFunctionOnSet(f, S)
<1>1. \A T \in SUBSET S : SumFunctionOnSet(f, T) \in Nat
  <2> DEFINE z == [x \in S |-> 0]
  <2> SUFFICES ASSUME NEW T \in SUBSET S PROVE SumFunctionOnSet(f, T) \in Nat
    OBVIOUS
  <2>1. IsFiniteSet(T) /\ T \subseteq S
    BY FS_Subset
  <2>2. SumFunctionOnSet(z, T) = 0
    BY <2>1, SumZero
  <2>3. SumFunctionOnSet(z, T) <= SumFunctionOnSet(f, T)
    <3>1. \A x \in T : z[x] \in Int /\ f[x] \in Int /\ z[x] <= f[x]
      BY <2>1
    <3> HIDE DEF z
    <3> QED BY <2>1, <3>1, SumMonotone
  <2>4. SumFunctionOnSet(f, T) \in Int
    BY <2>1, SumType
  <2> HIDE DEF z
  <2> QED BY <2>2, <2>3, <2>4
<1>2. ASSUME NEW x \in S PROVE f[x] <= SumFunctionOnSet(f, S)
  <2>1. SumFunctionOnSet(f, S) = f[x] + SumFunctionOnSet(f, S \ {x})
    BY SumRemove
  <2> QED BY <1>1, <2>1
<1> QED BY <1>1, <1>2

(* More of them add up to more. *)
LEMMA SumSubset ==
  ASSUME NEW f, NEW S, IsFiniteSet(S), \A x \in S : f[x] \in Nat, NEW T, T \subseteq S
  PROVE  SumFunctionOnSet(f, T) <= SumFunctionOnSet(f, S)
<1> DEFINE B == {U \in SUBSET S : T \subseteq U /\ ~(SumFunctionOnSet(f, T) <= SumFunctionOnSet(f, U))}
<1> SUFFICES ASSUME B # {} PROVE FALSE
  OBVIOUS
<1>1. PICK U \in B : \A u \in B : u \subseteq U => u = U
  <2>1. B \subseteq SUBSET S
    OBVIOUS
  <2> HIDE DEF B
  <2> QED BY <2>1, Smallest
<1>2. IsFiniteSet(U) /\ U \subseteq S /\ IsFiniteSet(T) /\ \A x \in U : f[x] \in Nat /\ f[x] \in Int
  BY <1>1, FS_Subset
<1>3. SumFunctionOnSet(f, T) \in Nat
  BY <1>2, SumNat
<1>4. PICK x \in U : x \notin T
  <2>1. U # T
    BY <1>1, <1>3
  <2> QED BY <1>1, <2>1
<1>5. SumFunctionOnSet(f, U) = f[x] + SumFunctionOnSet(f, U \ {x})
  BY <1>2, SumRemove
<1>6. SumFunctionOnSet(f, U \ {x}) \in Nat
  <2>1. IsFiniteSet(U \ {x}) /\ \A y \in U \ {x} : f[y] \in Nat
    BY <1>2, FS_Subset
  <2> QED BY <2>1, SumNat
<1>7. SumFunctionOnSet(f, T) <= SumFunctionOnSet(f, U \ {x})
  <2>1. U \ {x} \notin B
    BY <1>1, <1>4
  <2> QED BY <2>1, <1>1, <1>4
<1>8. f[x] \in Nat
  BY <1>2
<1>9. ~(SumFunctionOnSet(f, T) <= SumFunctionOnSet(f, U))
  BY <1>1
<1> QED BY <1>3, <1>5, <1>6, <1>7, <1>8, <1>9

(* Summands of at most b each. *)
LEMMA SumBounded ==
  ASSUME NEW f, NEW S, IsFiniteSet(S), NEW b \in Nat, \A x \in S : f[x] \in Int /\ f[x] <= b
  PROVE  SumFunctionOnSet(f, S) <= b * Cardinality(S)
<1> DEFINE B == {T \in SUBSET S : ~(SumFunctionOnSet(f, T) <= b * Cardinality(T))}
<1> SUFFICES ASSUME B # {} PROVE FALSE
  OBVIOUS
<1>1. PICK T \in B : \A u \in B : u \subseteq T => u = T
  <2>1. B \subseteq SUBSET S
    OBVIOUS
  <2> HIDE DEF B
  <2> QED BY <2>1, Smallest
<1>2. IsFiniteSet(T) /\ T \subseteq S /\ Cardinality(T) \in Nat
  BY <1>1, FS_Subset, FS_CardinalityType
<1>3. T # {}
  <2>1. T = {} => SumFunctionOnSet(f, T) = 0 /\ Cardinality(T) = 0
    BY <1>2, SumStep, FS_EmptySet
  <2> QED BY <1>1, <2>1
<1>4. First(T) \in T
  BY <1>3, FirstIn
<1> DEFINE r == T \ {First(T)}
<1>5. SumFunctionOnSet(f, T) = f[First(T)] + SumFunctionOnSet(f, r)
  BY <1>2, <1>3, SumStep
<1>6. IsFiniteSet(r) /\ r \subseteq S /\ Cardinality(r) = Cardinality(T) - 1
  BY <1>2, <1>4, FS_RemoveElement, FS_Subset
<1>7. SumFunctionOnSet(f, r) <= b * Cardinality(r) /\ SumFunctionOnSet(f, r) \in Int
  <2>1. r \notin B
    BY <1>1, <1>4
  <2>2. SumFunctionOnSet(f, r) \in Int
    <3> HIDE DEF r
    <3> QED BY <1>6, SumType
  <2> QED BY <2>1, <2>2, <1>6
<1>8. f[First(T)] \in Int /\ f[First(T)] <= b
  BY <1>2, <1>4
<1>9. b * (Cardinality(T) - 1) = b * Cardinality(T) - b
  BY <1>2
<1>10. ~(SumFunctionOnSet(f, T) <= b * Cardinality(T)) /\ b * Cardinality(T) \in Int
  BY <1>1, <1>2
<1> HIDE DEF r
<1> QED BY <1>5, <1>6, <1>7, <1>8, <1>9, <1>10
===============================================================================
