---------------------------- MODULE EngineProofs ----------------------------
(***************************************************************************)
(* Proofs about Engine, for any league, any history and any size of the     *)
(* score matrix.                                                            *)
(*                                                                          *)
(* Most of Engine is recursion over finite sets: sums, products, and the    *)
(* replay of a history.  What such a recursion yields is proved by looking  *)
(* at a least set it fails for (LeastSet), which takes no induction rule    *)
(* with an operator for a parameter.                                        *)
(***************************************************************************)
EXTENDS Engine, FiniteSetTheorems, WellFoundedInduction, TLAPS

-----------------------------------------------------------------------------
(* Recursion over finite sets                                                *)

\* Of sets of subsets of a finite set, one has no smaller one among them.
LEMMA LeastSet ==
  ASSUME NEW S, IsFiniteSet(S), NEW F \in SUBSET SUBSET S, F # {}
  PROVE  \E T \in F : \A U \in F : U \subseteq T => U = T
<1>1. IsWellFoundedOn(StrictSubsetOrdering(S), FiniteSubsetsOf(S))
  BY FS_StrictSubsetOrderingWellFounded
<1>2. F \subseteq FiniteSubsetsOf(S)
  BY FS_Subset DEF FiniteSubsetsOf
<1>3. PICK T \in F : \A U \in F : ~(<<U, T>> \in StrictSubsetOrdering(S))
  BY <1>1, <1>2, WFMin
<1>4. QED
  BY <1>3 DEF StrictSubsetOrdering

\* The three recursions of the model: what the empty set yields, which element is
\* taken off first, and what it makes of the rest.
latest(s) == CHOOSE r \in s : \A q \in s : Stamp(q) <= Stamp(r)

Neutral(rule) ==
  IF rule = "sum" THEN 0 ELSE IF rule = "product" THEN 1 ELSE [t \in Team |-> None]

Taken(rule, s) ==
  IF rule = "replay" THEN latest(s) ELSE CHOOSE x \in s : TRUE

Combined(rule, f, x, rest) ==
  IF rule = "sum" THEN f[x] + rest
  ELSE IF rule = "product" THEN f[x] * rest ELSE Rated(Seeded(rest, x), x)

IsFold(rule, g, f, S) ==
  g = [s \in SUBSET S |-> IF s = {} THEN Neutral(rule)
                          ELSE Combined(rule, f, Taken(rule, s), g[s \ {Taken(rule, s)}])]

Shrinks(rule, S) == \A s \in SUBSET S : s # {} => Taken(rule, s) \in s

\* Two functions that follow one rule agree where both are defined.
LEMMA FoldsAgree ==
  ASSUME NEW rule, NEW S, IsFiniteSet(S), Shrinks(rule, S),
         NEW R, NEW f, NEW g, NEW h, IsFold(rule, g, f, S), IsFold(rule, h, f, R)
  PROVE  \A U \in SUBSET S : U \subseteq R => g[U] = h[U]
<1> DEFINE F == {U \in SUBSET S : U \subseteq R /\ g[U] # h[U]}
<1> SUFFICES ASSUME F # {} PROVE FALSE
  OBVIOUS
<1>1. PICK T \in F : \A U \in F : U \subseteq T => U = T
  <2>1. F \in SUBSET SUBSET S
    OBVIOUS
  <2> HIDE DEF F
  <2>2. QED
    BY <2>1, LeastSet
<1> DEFINE x == Taken(rule, T)
<1>2. T = {} \/ x \in T
  BY DEF Shrinks
<1>3. T # {} => g[T \ {x}] = h[T \ {x}]
  BY <1>1, <1>2
<1>4. /\ g[T] = IF T = {} THEN Neutral(rule) ELSE Combined(rule, f, x, g[T \ {x}])
      /\ h[T] = IF T = {} THEN Neutral(rule) ELSE Combined(rule, f, x, h[T \ {x}])
  BY DEF IsFold
<1> HIDE DEF x
<1>5. QED
  BY <1>3, <1>4

\* A rule that shrinks its set always has such a function.
LEMMA FoldExists ==
  ASSUME NEW rule, NEW S, IsFiniteSet(S), Shrinks(rule, S), NEW f
  PROVE  \E g : IsFold(rule, g, f, S)
<1> DEFINE F == {U \in SUBSET S : ~ \E g : IsFold(rule, g, f, U)}
<1> SUFFICES ASSUME F # {} PROVE FALSE
  OBVIOUS
<1>1. PICK T \in F : \A U \in F : U \subseteq T => U = T
  <2>1. F \in SUBSET SUBSET S
    OBVIOUS
  <2> HIDE DEF F
  <2>2. QED
    BY <2>1, LeastSet
<1> DEFINE x(s) == Taken(rule, s)
           G(U) == CHOOSE g : IsFold(rule, g, f, U)
           whole == IF T = {} THEN Neutral(rule)
                    ELSE Combined(rule, f, x(T), G(T \ {x(T)})[T \ {x(T)}])
           h == [s \in SUBSET T |-> IF s # T THEN G(s)[s] ELSE whole]
<1>2. \A U \in SUBSET T : U # T => IsFold(rule, G(U), f, U)
  BY <1>1
<1>3. \A s \in SUBSET T : s # {} => x(s) \in s
  BY DEF Shrinks
<1>4. ASSUME NEW s \in SUBSET T
      PROVE  h[s] = IF s = {} THEN Neutral(rule) ELSE Combined(rule, f, x(s), h[s \ {x(s)}])
  <2>1. CASE s = T
    <3>1. h[s] = whole
      BY <2>1
    <3>2. s # {} => h[s \ {x(s)}] = G(T \ {x(T)})[T \ {x(T)}]
      BY <2>1, <1>3
    <3> HIDE DEF h, x, G
    <3>3. QED
      BY <2>1, <3>1, <3>2
  <2>2. CASE s # T /\ s = {}
    <3>1. IsFold(rule, G(s), f, s) /\ h[s] = G(s)[s]
      BY <1>2, <2>2
    <3> HIDE DEF G, h
    <3>2. G(s)[s] = Neutral(rule)
      BY <3>1, <2>2 DEF IsFold
    <3>3. QED
      BY <2>2, <3>1, <3>2
  <2>3. CASE s # T /\ s # {}
    <3> DEFINE r == s \ {x(s)}
    <3>1. r \in SUBSET T /\ r # T /\ r \in SUBSET s
      BY <2>3, <1>3
    <3>2. IsFold(rule, G(s), f, s) /\ IsFold(rule, G(r), f, r)
      BY <1>2, <2>3, <3>1
    <3>3. IsFiniteSet(s) /\ IsFiniteSet(r) /\ Shrinks(rule, s) /\ Shrinks(rule, r)
      BY FS_Subset DEF Shrinks
    <3>4. h[s] = G(s)[s] /\ h[r] = G(r)[r]
      BY <2>3, <3>1
    <3>5. x(s) = Taken(rule, s)
      OBVIOUS
    <3> HIDE DEF G, h, x
    <3>6. G(s)[s] = Combined(rule, f, x(s), G(s)[r])
      BY <3>2, <3>5, <2>3 DEF IsFold
    <3> HIDE DEF r
    <3>7. G(r)[r] = G(s)[r]
      BY <3>2, <3>3, <3>1, FoldsAgree
    <3>8. h[s] = Combined(rule, f, x(s), h[r])
      BY <3>4, <3>6, <3>7
    <3>9. QED
      BY <3>8, <2>3 DEF r
  <2>4. QED
    BY <2>1, <2>2, <2>3
<1>5. IsFold(rule, h, f, T)
  <2>1. h = [s \in SUBSET T |-> h[s]]
    OBVIOUS
  <2>2. \A s : x(s) = Taken(rule, s)
    OBVIOUS
  <2> HIDE DEF h, x
  <2>3. QED
    BY <1>4, <2>1, <2>2 DEF IsFold
<1>6. QED
  BY <1>1, <1>5

\* So a fold over a set is one of its elements and the fold over the others.
Folded(rule, f, S) == (CHOOSE g : IsFold(rule, g, f, S))[S]

LEMMA FoldStep ==
  ASSUME NEW rule, NEW S, IsFiniteSet(S), Shrinks(rule, S), NEW f
  PROVE  Folded(rule, f, S) =
           IF S = {} THEN Neutral(rule)
           ELSE Combined(rule, f, Taken(rule, S), Folded(rule, f, S \ {Taken(rule, S)}))
<1> DEFINE g == CHOOSE h : IsFold(rule, h, f, S)
           R == S \ {Taken(rule, S)}
           k == CHOOSE h : IsFold(rule, h, f, R)
<1>1. IsFiniteSet(R) /\ Shrinks(rule, R)
  BY FS_Subset DEF Shrinks
<1>2. IsFold(rule, g, f, S) /\ IsFold(rule, k, f, R)
  BY <1>1, FoldExists
<1>3. Folded(rule, f, S) = g[S] /\ Folded(rule, f, R) = k[R]
  BY DEF Folded
<1> HIDE DEF g, k
<1>4. k[R] = g[R]
  <2> HIDE DEF R
  <2>1. R \subseteq S
    BY DEF R
  <2>2. QED
    BY <1>1, <1>2, <2>1, FoldsAgree
<1>5. g[S] = IF S = {} THEN Neutral(rule) ELSE Combined(rule, f, Taken(rule, S), g[R])
  BY <1>2 DEF IsFold
<1>6. QED
  BY <1>3, <1>4, <1>5

-----------------------------------------------------------------------------
(* Sums and products                                                         *)

pick(s) == CHOOSE x \in s : TRUE

LEMMA SumStep ==
  ASSUME NEW S, IsFiniteSet(S), NEW f
  PROVE  SumFunctionOnSet(f, S) =
           IF S = {} THEN 0
           ELSE f[pick(S)] + SumFunctionOnSet(f, S \ {pick(S)})
<1>1. \A U : SumFunctionOnSet(f, U) = Folded("sum", f, U)
  BY DEF SumFunctionOnSet, FoldFunctionOnSet, MapThenFoldSet, Folded, IsFold, Neutral,
     Combined, Taken
<1>2. Shrinks("sum", S)
  BY DEF Shrinks, Taken
<1>3. Folded("sum", f, S) =
        IF S = {} THEN Neutral("sum")
        ELSE Combined("sum", f, Taken("sum", S), Folded("sum", f, S \ {Taken("sum", S)}))
  BY <1>2, FoldStep
<1>4. /\ Neutral("sum") = 0 /\ Taken("sum", S) = pick(S)
      /\ \A x, rest : Combined("sum", f, x, rest) = f[x] + rest
  BY DEF Neutral, Combined, Taken, pick
<1>5. QED
  BY <1>1, <1>3, <1>4

LEMMA ProductStep ==
  ASSUME NEW S, IsFiniteSet(S), NEW f
  PROVE  Product(f, S) = IF S = {} THEN 1 ELSE f[pick(S)] * Product(f, S \ {pick(S)})
<1>1. \A U : Product(f, U) = Folded("product", f, U)
  BY DEF Product, FoldFunctionOnSet, MapThenFoldSet, Folded, IsFold, Neutral,
     Combined, Taken
<1>2. Shrinks("product", S)
  BY DEF Shrinks, Taken
<1>3. Folded("product", f, S) =
        IF S = {} THEN Neutral("product")
        ELSE Combined("product", f, Taken("product", S), Folded("product", f, S \ {Taken("product", S)}))
  BY <1>2, FoldStep
<1>4. /\ Neutral("product") = 1 /\ Taken("product", S) = pick(S)
      /\ \A x, rest : Combined("product", f, x, rest) = f[x] * rest
  BY DEF Neutral, Combined, Taken, pick
<1>5. QED
  BY <1>1, <1>3, <1>4

LEMMA SumEmpty == ASSUME NEW f PROVE SumFunctionOnSet(f, {}) = 0
  BY SumStep, FS_EmptySet

LEMMA SumInt ==
  ASSUME NEW S, IsFiniteSet(S), NEW f, \A x \in S : f[x] \in Int
  PROVE  SumFunctionOnSet(f, S) \in Int
<1> DEFINE F == {U \in SUBSET S : SumFunctionOnSet(f, U) \notin Int}
<1> SUFFICES ASSUME F # {} PROVE FALSE
  OBVIOUS
<1>1. PICK T \in F : \A U \in F : U \subseteq T => U = T
  <2>1. F \in SUBSET SUBSET S
    OBVIOUS
  <2> HIDE DEF F
  <2>2. QED
    BY <2>1, LeastSet
<1>2. T # {}
  BY SumEmpty
<1>3. pick(T) \in T
  BY <1>2 DEF pick
<1>4. SumFunctionOnSet(f, T \ {pick(T)}) \in Int
  BY <1>1, <1>3
<1>5. IsFiniteSet(T)
  BY FS_Subset
<1>6. QED
  BY <1>2, <1>3, <1>4, <1>5, SumStep

\* Any element may be taken out of a sum, not only the one the fold takes first.
LEMMA SumOut ==
  ASSUME NEW S, IsFiniteSet(S), NEW f, \A x \in S : f[x] \in Int, NEW x \in S
  PROVE  SumFunctionOnSet(f, S) = f[x] + SumFunctionOnSet(f, S \ {x})
<1> DEFINE F == {U \in SUBSET S : \E y \in U : SumFunctionOnSet(f, U) # f[y] + SumFunctionOnSet(f, U \ {y})}
<1> SUFFICES ASSUME F # {} PROVE FALSE
  OBVIOUS
<1>1. PICK T \in F : \A U \in F : U \subseteq T => U = T
  <2>1. F \in SUBSET SUBSET S
    OBVIOUS
  <2> HIDE DEF F
  <2>2. QED
    BY <2>1, LeastSet
<1>2. PICK y \in T : SumFunctionOnSet(f, T) # f[y] + SumFunctionOnSet(f, T \ {y})
  OBVIOUS
<1> DEFINE p == pick(T)
           rest == SumFunctionOnSet(f, (T \ {p}) \ {y})
<1>3. p \in T
  BY DEF pick
<1>4. \A U \in SUBSET T : IsFiniteSet(U)
  BY FS_Subset
<1>5. SumFunctionOnSet(f, T) = f[p] + SumFunctionOnSet(f, T \ {p})
  BY <1>3, <1>4, SumStep
<1> HIDE DEF p
<1>6. p # y
  BY <1>2, <1>5
<1>7. SumFunctionOnSet(f, T \ {p}) = f[y] + rest
  <2>1. T \ {p} \notin F
    BY <1>1, <1>3
  <2>2. QED
    BY <2>1, <1>6
<1>8. (T \ {y}) \ {p} = (T \ {p}) \ {y}
  OBVIOUS
<1>9. SumFunctionOnSet(f, T \ {y}) = f[p] + rest
  <2>1. T \ {y} \notin F
    BY <1>1
  <2>2. QED
    BY <2>1, <1>3, <1>6, <1>8
<1>10. rest \in Int
  BY <1>4, SumInt
<1>11. f[p] \in Int /\ f[y] \in Int
  BY <1>3
<1> HIDE DEF rest, F
<1>12. QED
  BY <1>2, <1>5, <1>7, <1>8, <1>9, <1>10, <1>11

LEMMA SumSame ==
  ASSUME NEW S, IsFiniteSet(S), NEW f, NEW g, \A x \in S : f[x] = g[x]
  PROVE  SumFunctionOnSet(f, S) = SumFunctionOnSet(g, S)
<1> DEFINE F == {U \in SUBSET S : SumFunctionOnSet(f, U) # SumFunctionOnSet(g, U)}
<1> SUFFICES ASSUME F # {} PROVE FALSE
  OBVIOUS
<1>1. PICK T \in F : \A U \in F : U \subseteq T => U = T
  <2>1. F \in SUBSET SUBSET S
    OBVIOUS
  <2> HIDE DEF F
  <2>2. QED
    BY <2>1, LeastSet
<1>2. T # {}
  BY SumEmpty
<1>3. pick(T) \in T
  BY <1>2 DEF pick
<1>4. SumFunctionOnSet(f, T \ {pick(T)}) = SumFunctionOnSet(g, T \ {pick(T)})
  BY <1>1, <1>3
<1>5. IsFiniteSet(T) /\ f[pick(T)] = g[pick(T)]
  BY <1>3, FS_Subset
<1>6. QED
  BY <1>2, <1>4, <1>5, SumStep

LEMMA SumNat ==
  ASSUME NEW S, IsFiniteSet(S), NEW f, \A x \in S : f[x] \in Nat
  PROVE  SumFunctionOnSet(f, S) \in Nat
<1> DEFINE F == {U \in SUBSET S : SumFunctionOnSet(f, U) \notin Nat}
<1> SUFFICES ASSUME F # {} PROVE FALSE
  OBVIOUS
<1>1. PICK T \in F : \A U \in F : U \subseteq T => U = T
  <2>1. F \in SUBSET SUBSET S
    OBVIOUS
  <2> HIDE DEF F
  <2>2. QED
    BY <2>1, LeastSet
<1>2. T # {}
  BY SumEmpty
<1>3. pick(T) \in T
  BY <1>2 DEF pick
<1>4. SumFunctionOnSet(f, T \ {pick(T)}) \in Nat
  BY <1>1, <1>3
<1>5. IsFiniteSet(T) /\ f[pick(T)] \in Nat
  BY <1>3, FS_Subset
<1>6. QED
  BY <1>2, <1>3, <1>4, <1>5, SumStep

LEMMA SumZero ==
  ASSUME NEW S, IsFiniteSet(S), NEW f, \A x \in S : f[x] \in Nat
  PROVE  SumFunctionOnSet(f, S) = 0 <=> \A x \in S : f[x] = 0
<1>1. ASSUME NEW x \in S, f[x] # 0 PROVE SumFunctionOnSet(f, S) # 0
  <2>1. SumFunctionOnSet(f, S) = f[x] + SumFunctionOnSet(f, S \ {x})
    BY SumOut
  <2>2. SumFunctionOnSet(f, S \ {x}) \in Nat
    BY SumNat, FS_Subset
  <2>3. QED
    BY <1>1, <2>1, <2>2
<1>2. ASSUME \A x \in S : f[x] = 0 PROVE SumFunctionOnSet(f, S) = 0
  <2> DEFINE F == {U \in SUBSET S : SumFunctionOnSet(f, U) # 0}
  <2> SUFFICES ASSUME F # {} PROVE FALSE
    OBVIOUS
  <2>1. PICK T \in F : \A U \in F : U \subseteq T => U = T
    <3>1. F \in SUBSET SUBSET S
      OBVIOUS
    <3> HIDE DEF F
    <3>2. QED
      BY <3>1, LeastSet
  <2>2. T # {} /\ pick(T) \in T
    BY SumEmpty DEF pick
  <2>3. SumFunctionOnSet(f, T \ {pick(T)}) = 0
    BY <2>1, <2>2
  <2>4. IsFiniteSet(T) /\ f[pick(T)] = 0
    BY <1>2, <2>2, FS_Subset
  <2>5. QED
    BY <2>2, <2>3, <2>4, SumStep
<1>3. QED
  BY <1>1, <1>2

LEMMA SumUnion ==
  ASSUME NEW S, IsFiniteSet(S), NEW R, IsFiniteSet(R), S \cap R = {},
         NEW f, \A x \in S \cup R : f[x] \in Int
  PROVE  SumFunctionOnSet(f, S \cup R) = SumFunctionOnSet(f, S) + SumFunctionOnSet(f, R)
<1> DEFINE F == {U \in SUBSET R : SumFunctionOnSet(f, S \cup U) # SumFunctionOnSet(f, S) + SumFunctionOnSet(f, U)}
<1> SUFFICES ASSUME F # {} PROVE FALSE
  OBVIOUS
<1>1. PICK T \in F : \A U \in F : U \subseteq T => U = T
  <2>1. F \in SUBSET SUBSET R
    OBVIOUS
  <2> HIDE DEF F
  <2>2. QED
    BY <2>1, LeastSet
<1>2. T # {}
  <2>1. S \cup {} = S /\ SumFunctionOnSet(f, {}) = 0 /\ SumFunctionOnSet(f, S) \in Int
    BY SumEmpty, SumInt
  <2>2. ASSUME T = {} PROVE FALSE
    <3>1. S \cup T = S
      BY <2>2
    <3>2. QED
      BY <2>1, <2>2, <3>1
  <2>3. QED
    BY <2>2
<1>3. PICK x \in T : TRUE
  BY <1>2
<1>4. \A U \in SUBSET R : IsFiniteSet(U) /\ IsFiniteSet(S \cup U)
  BY FS_Subset, FS_Union
<1>5. SumFunctionOnSet(f, S \cup T) = f[x] + SumFunctionOnSet(f, (S \cup T) \ {x})
  BY <1>4, SumOut
<1>6. SumFunctionOnSet(f, T) = f[x] + SumFunctionOnSet(f, T \ {x})
  BY <1>4, SumOut
<1>7. (S \cup T) \ {x} = S \cup (T \ {x})
  OBVIOUS
<1>8. SumFunctionOnSet(f, S \cup (T \ {x})) = SumFunctionOnSet(f, S) + SumFunctionOnSet(f, T \ {x})
  <2>1. T \ {x} \notin F
    BY <1>1
  <2>2. QED
    BY <2>1
<1>9. SumFunctionOnSet(f, S) \in Int /\ SumFunctionOnSet(f, T \ {x}) \in Int /\ f[x] \in Int
  BY <1>4, SumInt
<1>10. SumFunctionOnSet(f, S \cup T) = f[x] + SumFunctionOnSet(f, S \cup (T \ {x}))
  BY <1>5, <1>7
<1>11. SumFunctionOnSet(f, S \cup T) = SumFunctionOnSet(f, S) + SumFunctionOnSet(f, T)
  <2> HIDE DEF F
  <2>1. QED
    BY <1>6, <1>8, <1>9, <1>10
<1>12. QED
  BY <1>11

LEMMA SumPlus ==
  ASSUME NEW S, IsFiniteSet(S), NEW f, NEW g, NEW h,
         \A x \in S : f[x] \in Int /\ g[x] \in Int /\ h[x] = f[x] + g[x]
  PROVE  SumFunctionOnSet(h, S) = SumFunctionOnSet(f, S) + SumFunctionOnSet(g, S)
<1> DEFINE F == {U \in SUBSET S : SumFunctionOnSet(h, U) # SumFunctionOnSet(f, U) + SumFunctionOnSet(g, U)}
<1> SUFFICES ASSUME F # {} PROVE FALSE
  OBVIOUS
<1>1. PICK T \in F : \A U \in F : U \subseteq T => U = T
  <2>1. F \in SUBSET SUBSET S
    OBVIOUS
  <2> HIDE DEF F
  <2>2. QED
    BY <2>1, LeastSet
<1>2. T # {} /\ pick(T) \in T
  <2>1. SumFunctionOnSet(f, {}) = 0 /\ SumFunctionOnSet(g, {}) = 0 /\ SumFunctionOnSet(h, {}) = 0
    BY SumEmpty
  <2>2. {} \notin F
    BY <2>1
  <2>3. QED
    BY <2>2 DEF pick
<1> DEFINE R == T \ {pick(T)}
<1>3. SumFunctionOnSet(h, R) = SumFunctionOnSet(f, R) + SumFunctionOnSet(g, R)
  BY <1>1, <1>2
<1>4. IsFiniteSet(T) /\ IsFiniteSet(R)
  BY FS_Subset
<1>5. SumFunctionOnSet(f, R) \in Int /\ SumFunctionOnSet(g, R) \in Int
  BY <1>4, SumInt
<1>6. /\ SumFunctionOnSet(f, T) = f[pick(T)] + SumFunctionOnSet(f, R)
      /\ SumFunctionOnSet(g, T) = g[pick(T)] + SumFunctionOnSet(g, R)
      /\ SumFunctionOnSet(h, T) = h[pick(T)] + SumFunctionOnSet(h, R)
  BY <1>2, <1>4, SumStep
<1>7. QED
  BY <1>2, <1>3, <1>5, <1>6

LEMMA SumTimes ==
  ASSUME NEW S, IsFiniteSet(S), NEW f, NEW h, NEW c \in Int,
         \A x \in S : f[x] \in Int /\ h[x] = c * f[x]
  PROVE  SumFunctionOnSet(h, S) = c * SumFunctionOnSet(f, S)
<1> DEFINE F == {U \in SUBSET S : SumFunctionOnSet(h, U) # c * SumFunctionOnSet(f, U)}
<1> SUFFICES ASSUME F # {} PROVE FALSE
  OBVIOUS
<1>1. PICK T \in F : \A U \in F : U \subseteq T => U = T
  <2>1. F \in SUBSET SUBSET S
    OBVIOUS
  <2> HIDE DEF F
  <2>2. QED
    BY <2>1, LeastSet
<1>2. T # {} /\ pick(T) \in T
  <2>1. SumFunctionOnSet(f, {}) = 0 /\ SumFunctionOnSet(h, {}) = 0 /\ c * 0 = 0
    BY SumEmpty
  <2>2. QED
    BY <2>1 DEF pick
<1> DEFINE R == T \ {pick(T)}
<1>3. SumFunctionOnSet(h, R) = c * SumFunctionOnSet(f, R)
  BY <1>1, <1>2
<1>4. IsFiniteSet(T) /\ IsFiniteSet(R)
  BY FS_Subset
<1>5. SumFunctionOnSet(f, R) \in Int
  BY <1>4, SumInt
<1>6. /\ SumFunctionOnSet(f, T) = f[pick(T)] + SumFunctionOnSet(f, R)
      /\ SumFunctionOnSet(h, T) = h[pick(T)] + SumFunctionOnSet(h, R)
  BY <1>2, <1>4, SumStep
<1>7. \A a, b \in Int : c * (a + b) = c * a + c * b
  OBVIOUS
<1>8. QED
  BY <1>2, <1>3, <1>5, <1>6, <1>7

\* Two sums, one inside the other, may change places.
LEMMA SumSwap ==
  ASSUME NEW S, IsFiniteSet(S), NEW R, IsFiniteSet(R), NEW m,
         \A x \in S, y \in R : m[x][y] \in Int
  PROVE  SumFunctionOnSet([x \in S |-> SumFunctionOnSet(m[x], R)], S) =
         SumFunctionOnSet([y \in R |-> SumFunctionOnSet([x \in S |-> m[x][y]], S)], R)
<1> DEFINE f == [x \in S |-> SumFunctionOnSet(m[x], R)]
           c(y) == [x \in S |-> m[x][y]]
           g(U) == [y \in R |-> SumFunctionOnSet(c(y), U)]
<1> SUFFICES SumFunctionOnSet(f, S) = SumFunctionOnSet(g(S), R)
  OBVIOUS
<1> DEFINE F == {U \in SUBSET S : SumFunctionOnSet(f, U) # SumFunctionOnSet(g(U), R)}
<1> SUFFICES ASSUME F # {} PROVE FALSE
  OBVIOUS
<1>1. PICK T \in F : \A U \in F : U \subseteq T => U = T
  <2>1. F \in SUBSET SUBSET S
    OBVIOUS
  <2> HIDE DEF F
  <2>2. QED
    BY <2>1, LeastSet
<1>2. \A U \in SUBSET S : IsFiniteSet(U)
  BY FS_Subset
<1>3. T # {}
  <2>1. \A y \in R : g({})[y] = 0
    BY SumEmpty
  <2>2. SumFunctionOnSet(g({}), R) = 0
    <3> HIDE DEF g
    <3>1. QED
      BY <2>1, SumZero
  <2>3. QED
    BY <2>2, SumEmpty
<1>4. PICK x \in T : TRUE
  BY <1>3
<1> DEFINE U == T \ {x}
<1>5. SumFunctionOnSet(f, U) = SumFunctionOnSet(g(U), R)
  <2>1. U \notin F
    BY <1>1
  <2> HIDE DEF f, g
  <2>2. QED
    BY <2>1
<1>6. \A y \in S : f[y] \in Int
  BY SumInt
<1>7. SumFunctionOnSet(f, T) = f[x] + SumFunctionOnSet(f, U)
  <2> HIDE DEF f
  <2>1. QED
    BY <1>2, <1>6, SumOut
<1>8. \A y \in R : /\ m[x][y] \in Int /\ g(U)[y] \in Int
                    /\ g(T)[y] = m[x][y] + g(U)[y]
  <2> SUFFICES ASSUME NEW y \in R
               PROVE  /\ m[x][y] \in Int /\ g(U)[y] \in Int
                      /\ g(T)[y] = m[x][y] + g(U)[y]
    OBVIOUS
  <2>1. \A z \in S : c(y)[z] \in Int /\ c(y)[x] = m[x][y] /\ x \in S
    OBVIOUS
  <2>2. g(U)[y] = SumFunctionOnSet(c(y), U) /\ g(T)[y] = SumFunctionOnSet(c(y), T)
    OBVIOUS
  <2> HIDE DEF c, g
  <2>3. SumFunctionOnSet(c(y), T) = c(y)[x] + SumFunctionOnSet(c(y), U)
    BY <1>2, <2>1, SumOut
  <2>4. SumFunctionOnSet(c(y), U) \in Int
    BY <1>2, <2>1, SumInt
  <2>5. QED
    BY <2>1, <2>2, <2>3, <2>4
<1>9. SumFunctionOnSet(g(T), R) = SumFunctionOnSet(m[x], R) + SumFunctionOnSet(g(U), R)
  <2> HIDE DEF g, U
  <2>1. QED
    BY <1>8, SumPlus
<1>10. f[x] = SumFunctionOnSet(m[x], R)
  OBVIOUS
<1>11. QED
  BY <1>5, <1>7, <1>9, <1>10

LEMMA ProductsAreNat ==
  ASSUME NEW N \in {Nat, Nat \ {0}}, NEW m \in N, NEW n \in N
  PROVE  m * n \in N
OBVIOUS

\* Whole numbers, or whole numbers other than zero, multiply to the same.
LEMMA ProductNat ==
  ASSUME NEW N \in {Nat, Nat \ {0}}, NEW S, IsFiniteSet(S), NEW f, \A x \in S : f[x] \in N
  PROVE  Product(f, S) \in N
<1> DEFINE F == {U \in SUBSET S : Product(f, U) \notin N}
<1> SUFFICES ASSUME F # {} PROVE FALSE
  OBVIOUS
<1>1. PICK T \in F : \A U \in F : U \subseteq T => U = T
  <2>1. F \in SUBSET SUBSET S
    OBVIOUS
  <2> HIDE DEF F
  <2>2. QED
    BY <2>1, LeastSet
<1>2. IsFiniteSet(T)
  BY FS_Subset
<1>3. T # {}
  <2>1. Product(f, {}) = 1
    BY ProductStep, FS_EmptySet
  <2>2. 1 \in N
    OBVIOUS
  <2>3. {} \notin F
    BY <2>1, <2>2
  <2>4. QED
    BY <2>3
<1>4. pick(T) \in T
  BY <1>3 DEF pick
<1>5. Product(f, T \ {pick(T)}) \in N /\ f[pick(T)] \in N
  BY <1>1, <1>4
<1>6. \A m, n \in N : m * n \in N
  BY ProductsAreNat
<1>7. Product(f, T) = f[pick(T)] * Product(f, T \ {pick(T)})
  BY <1>2, <1>3, ProductStep
<1>8. Product(f, T) \in N
  BY <1>5, <1>6, <1>7
<1>9. QED
  BY <1>8

LEMMA PowerNat ==
  ASSUME NEW base \in Nat, NEW n \in Nat
  PROVE  Power(base, n) \in Nat /\ (base > 0 => Power(base, n) > 0)
<1>1. IsFiniteSet(1..n)
  BY FS_Interval
<1>2. Power(base, n) \in Nat
  BY <1>1, ProductNat DEF Power
<1>3. base > 0 => Power(base, n) \in Nat \ {0}
  BY <1>1, ProductNat DEF Power
<1>4. QED
  BY <1>2, <1>3

LEMMA PowerNone == ASSUME NEW base PROVE Power(base, 0) = 1
<1>1. 1..0 = {}
  OBVIOUS
<1>2. QED
  BY <1>1, ProductStep, FS_EmptySet DEF Power

-----------------------------------------------------------------------------
(* Rounding                                                                  *)

\* Products of naturals are monotone.
LEMMA ProductMonotone ==
  ASSUME NEW i \in Int, NEW j \in Int, NEW k \in Nat, i <= j
  PROVE  k * i <= k * j
OBVIOUS

\* What a whole-number quotient is.
LEMMA Quotient ==
  ASSUME NEW x \in Nat, NEW d \in Nat, d > 0
  PROVE  /\ x \div d \in Int
         /\ d * (x \div d) <= x /\ x < d * (x \div d) + d
<1>1. x = d * (x \div d) + (x % d)
  OBVIOUS
<1>2. x \div d \in Int /\ x % d \in 0 .. d - 1
  OBVIOUS
<1> DEFINE q == x \div d
           p == d * q
<1>3. p \in Int
  BY <1>2
<1>4. p <= x /\ x < p + d
  <2> HIDE DEF p
  <2>1. x = p + (x % d)
    BY <1>1 DEF p
  <2>2. QED
    BY <1>2, <1>3, <2>1
<1>5. QED
  BY <1>2, <1>4

\* A rounded share is within half a unit of the exact one.
LEMMA RoundedShare ==
  ASSUME NEW mass \in Nat, NEW home \in Nat, NEW draw \in Nat, NEW away \in Nat,
         home + draw + away > 0
  PROVE  LET total == home + draw + away
             n == Normalised(mass, home, draw, away)
         IN /\ n \in Int
            /\ 2 * (total * n) <= 20000 * mass + total
            /\ 20000 * mass + total < 2 * (total * n) + 2 * total
<1> DEFINE total == home + draw + away
           x == 2 * 10000 * mass + total
           n == x \div (2 * total)
<1>1. total \in Nat /\ 2 * total \in Nat /\ 2 * total > 0 /\ x \in Nat
  OBVIOUS
<1>2. n = Normalised(mass, home, draw, away)
  BY DEF Normalised
<1> HIDE DEF total, x
<1>3. n \in Int /\ (2 * total) * n <= x /\ x < (2 * total) * n + 2 * total
  BY <1>1, Quotient
<1> HIDE DEF n
<1>4. (2 * total) * n = 2 * (total * n) /\ total * n \in Int
  BY <1>1, <1>3
<1>5. x = 20000 * mass + total
  BY DEF x, total
<1>6. QED
  BY <1>1, <1>2, <1>3, <1>4, <1>5 DEF total

\* So a share of the whole is a probability.
LEMMA ShareInRange ==
  ASSUME NEW mass \in Nat, NEW home \in Nat, NEW draw \in Nat, NEW away \in Nat,
         home + draw + away > 0, mass <= home + draw + away
  PROVE  LET n == Normalised(mass, home, draw, away) IN n \in Int /\ 0 <= n /\ n <= 10000
<1> DEFINE total == home + draw + away
           n == Normalised(mass, home, draw, away)
           p == total * n
<1>1. total \in Nat /\ total > 0 /\ mass <= total
  OBVIOUS
<1>2. /\ n \in Int /\ 2 * p <= 20000 * mass + total
      /\ 20000 * mass + total < 2 * p + 2 * total
  BY RoundedShare
<1> HIDE DEF total, n
<1>3. p \in Int
  BY <1>1, <1>2
<1>4. ASSUME n <= -1 PROVE FALSE
  <2>1. p <= total * (-1)
    BY <1>1, <1>2, <1>4, ProductMonotone
  <2> HIDE DEF p
  <2>2. QED
    BY <1>1, <1>2, <1>3, <2>1
<1>5. ASSUME n >= 10001 PROVE FALSE
  <2>1. total * 10001 <= p
    BY <1>1, <1>2, <1>5, ProductMonotone
  <2> HIDE DEF p
  <2>2. QED
    BY <1>1, <1>2, <1>3, <2>1
<1>6. n \in Int /\ 0 <= n /\ n <= 10000
  BY <1>2, <1>4, <1>5
<1>7. QED
  BY <1>6 DEF n

\* Rounded one by one, the three results of any score matrix pass the CHECKs of
\* 08_prediction.sql: each is a probability, and their sum is off by at most 0.0001
\* of the 0.0005 that are allowed.
THEOREM RoundingFits ==
  ASSUME NEW home \in Nat, NEW draw \in Nat, NEW away \in Nat, home + draw + away > 0
  PROVE  /\ SumsToOne(Normalised(home, home, draw, away), Normalised(draw, home, draw, away),
                      Normalised(away, home, draw, away))
         /\ \A mass \in {home, draw, away} :
              LET n == Normalised(mass, home, draw, away) IN n \in Int /\ 0 <= n /\ n <= 10000
<1> DEFINE total == home + draw + away
           h == Normalised(home, home, draw, away)
           d == Normalised(draw, home, draw, away)
           a == Normalised(away, home, draw, away)
<1>1. total \in Nat /\ total > 0 /\ total = home + draw + away
  OBVIOUS
<1>2. ASSUME NEW mass \in {home, draw, away}
      PROVE  LET n == Normalised(mass, home, draw, away) IN n \in Int /\ 0 <= n /\ n <= 10000
  <2>1. mass \in Nat /\ mass <= home + draw + away
    OBVIOUS
  <2>2. QED
    BY <2>1, ShareInRange
<1>3. /\ 2 * (total * h) <= 20000 * home + total /\ 20000 * home + total < 2 * (total * h) + 2 * total
      /\ 2 * (total * d) <= 20000 * draw + total /\ 20000 * draw + total < 2 * (total * d) + 2 * total
      /\ 2 * (total * a) <= 20000 * away + total /\ 20000 * away + total < 2 * (total * a) + 2 * total
  BY RoundedShare
<1>4. h \in Int /\ d \in Int /\ a \in Int
  BY <1>2
<1> HIDE DEF total, h, d, a
<1> DEFINE s == h + d + a
<1>5. /\ total * h \in Int /\ total * d \in Int /\ total * a \in Int
      /\ total * s = total * h + total * d + total * a
  BY <1>1, <1>4
<1>6. s \in Int /\ total * s \in Int
  BY <1>1, <1>4
<1>7. 2 * (total * s) <= 20003 * total /\ 19997 * total < 2 * (total * s)
  <2> DEFINE i == total * h
             j == total * d
             k == total * a
             p == total * s
  <2>1. p = i + j + k /\ i \in Int /\ j \in Int /\ k \in Int
    BY <1>5
  <2>2. /\ 2 * i <= 20000 * home + total /\ 20000 * home + total < 2 * i + 2 * total
        /\ 2 * j <= 20000 * draw + total /\ 20000 * draw + total < 2 * j + 2 * total
        /\ 2 * k <= 20000 * away + total /\ 20000 * away + total < 2 * k + 2 * total
    BY <1>3
  <2> HIDE DEF i, j, k, p
  <2>3. 2 * p <= 20003 * total /\ 19997 * total < 2 * p
    BY <1>1, <2>1, <2>2
  <2>4. QED
    BY <2>3 DEF p
<1> HIDE DEF s
<1>8. ASSUME s >= 10002 PROVE FALSE
  <2> DEFINE p == total * s
  <2>1. total * 10002 <= p /\ p \in Int /\ 2 * p <= 20003 * total
    BY <1>1, <1>6, <1>7, <1>8, ProductMonotone
  <2> HIDE DEF p
  <2>2. QED
    BY <1>1, <2>1
<1>9. ASSUME s <= 9998 PROVE FALSE
  <2> DEFINE p == total * s
  <2>1. p <= total * 9998 /\ p \in Int /\ 19997 * total < 2 * p
    BY <1>1, <1>6, <1>7, <1>9, ProductMonotone
  <2> HIDE DEF p
  <2>2. QED
    BY <1>1, <2>1
<1>10. -5 <= h + d + a - 10000 /\ h + d + a - 10000 <= 5
  <2>1. 9998 < s /\ s < 10002
    BY <1>6, <1>8, <1>9
  <2>2. QED
    BY <1>4, <2>1 DEF s
<1>11. SumsToOne(h, d, a)
  BY <1>10 DEF SumsToOne
<1>12. QED
  BY <1>2, <1>11 DEF h, d, a

-----------------------------------------------------------------------------
(* Lemmas                                                                    *)

LEMMA MaxPair ==
  ASSUME NEW x \in Int, NEW y \in Int
  PROVE  Max({x, y}) \in {x, y} /\ Max({x, y}) >= x /\ Max({x, y}) >= y
<1>1. \E z \in {x, y} : \A u \in {x, y} : z >= u
  <2>1. CASE x >= y
    BY <2>1
  <2>2. CASE ~(x >= y)
    BY <2>2
  <2>3. QED
    BY <2>1, <2>2
<1>2. QED
  BY <1>1 DEF Max

LEMMA MinPair ==
  ASSUME NEW x \in Int, NEW y \in Int
  PROVE  Min({x, y}) \in {x, y} /\ Min({x, y}) <= x /\ Min({x, y}) <= y
<1>1. \E z \in {x, y} : \A u \in {x, y} : z <= u
  <2>1. CASE x <= y
    BY <2>1
  <2>2. CASE ~(x <= y)
    BY <2>2
  <2>3. QED
    BY <2>1, <2>2
<1>2. QED
  BY <1>1 DEF Min

LEMMA QuotientInt ==
  ASSUME NEW x \in Int, NEW d \in Nat, d > 0
  PROVE  x \div d \in Int
OBVIOUS

\* The fields of a row of the history.
LEMMA ResultIs ==
  ASSUME NEW r \in Result
  PROVE  /\ r.id \in 1..MaxMatches /\ r.date \in Nat
         /\ r.home \in Team /\ r.away \in Team /\ r.home # r.away
         /\ r.goals[1] \in Nat /\ r.goals[2] \in Nat
<1>1. PICK id \in 1..MaxMatches, g \in Game :
        r = [id |-> id, date |-> g.date, home |-> g.home, away |-> g.away, goals |-> g.goals]
  BY DEF Result
<1>2. g.date \in Date /\ g.home \in Team /\ g.away \in Team /\ g.goals \in Score
      /\ g.home # g.away
  BY DEF Game
<1>3. QED
  BY <1>1, <1>2, EngineAssumption

-----------------------------------------------------------------------------
(* Elo                                                                       *)

RatingMap == [Team -> Int \cup {None}]
RatedSides(map) == {t \in Team : map[t] # None}

\* The average of a league is a number: nobody divides by an empty league.
LEMMA SeedType ==
  ASSUME NEW map \in RatingMap
  PROVE  seed_rating(map) \in Int
<1> DEFINE rated == RatedSides(map)
<1>1. IsFiniteSet(rated) /\ \A t \in rated : map[t] \in Int
  BY FS_Subset, EngineAssumption DEF RatedSides, RatingMap
<1>2. CASE rated = {}
  BY <1>2 DEF seed_rating, DEFAULT_RATING, RatedSides
<1>3. CASE rated # {}
  <2>1. SumFunctionOnSet(map, rated) \in Int
    BY <1>1, SumInt
  <2>2. Cardinality(rated) \in Nat /\ Cardinality(rated) > 0
    BY <1>1, <1>3, FS_EmptySet, FS_CardinalityType
  <2>3. seed_rating(map) = SumFunctionOnSet(map, rated) \div Cardinality(rated) - PROMOTED_PENALTY
    BY <1>3 DEF seed_rating, RatedSides
  <2> HIDE DEF rated
  <2>4. SumFunctionOnSet(map, rated) \div Cardinality(rated) \in Int
    BY <2>1, <2>2, QuotientInt
  <2>5. QED
    BY <2>3, <2>4 DEF PROMOTED_PENALTY
<1>4. QED
  BY <1>2, <1>3

\* After seeding both sides have a rating, and nobody else has got another one.
LEMMA SeededType ==
  ASSUME NEW map \in RatingMap, NEW r, r.home \in Team, r.away \in Team
  PROVE  /\ Seeded(map, r) \in RatingMap
         /\ RatedSides(Seeded(map, r)) = RatedSides(map) \cup Newcomers(map, r)
         /\ RatedSides(map) \cap Newcomers(map, r) = {}
         /\ {r.home, r.away} \subseteq RatedSides(Seeded(map, r))
         /\ \A t \in RatedSides(map) : Seeded(map, r)[t] = map[t]
<1>1. seed_rating(map) \in Int /\ seed_rating(map) # None
  BY SeedType, EngineAssumption
<1>2. \A t \in Team : Seeded(map, r)[t] =
        IF t \in Newcomers(map, r) THEN seed_rating(map) ELSE map[t]
  BY DEF Seeded
<1>3. Newcomers(map, r) = {r.home, r.away} \ RatedSides(map)
  BY DEF Newcomers, RatedSides
<1>4. Seeded(map, r) \in RatingMap
  BY <1>1 DEF Seeded, RatingMap
<1>5. RatedSides(Seeded(map, r)) = RatedSides(map) \cup Newcomers(map, r)
  BY <1>1, <1>2, <1>3 DEF RatedSides
<1>6. QED
  BY <1>1, <1>2, <1>3, <1>4, <1>5 DEF RatedSides

LEMMA GainType ==
  ASSUME NEW map, NEW r, map[r.home] \in Int, map[r.away] \in Int,
         r.goals[1] \in Nat, r.goals[2] \in Nat
  PROVE  Gain(map, r) \in Int
<1> DEFINE home == map[r.home]
           away == map[r.away]
           margin == r.goals[1] - r.goals[2]
           actual == IF margin > 0 THEN 100 ELSE IF margin < 0 THEN 0 ELSE 50
           factor == goal_difference_multiplier(Max({margin, -margin}))
<1>1. expected_score(home, away) \in Int
  <2>1. (home + HOME_ADVANTAGE - away) \div 350 \in Int
    <3>1. home + HOME_ADVANTAGE - away \in Int
      BY DEF HOME_ADVANTAGE
    <3>2. QED
      BY <3>1, QuotientInt
  <2> DEFINE q == (home + HOME_ADVANTAGE - away) \div 350
             low == Min({99, 50 + q})
  <2>2. expected_score(home, away) = Max({1, low})
    BY DEF expected_score
  <2> HIDE DEF q
  <2>3. 50 + q \in Int /\ 99 \in Int /\ 1 \in Int
    BY <2>1 DEF q
  <2>4. low \in {99, 50 + q}
    BY <2>3, MinPair
  <2>5. low \in Int
    BY <2>3, <2>4
  <2> HIDE DEF low
  <2>6. Max({1, low}) \in {1, low}
    BY <2>3, <2>5, MaxPair
  <2>7. QED
    BY <2>2, <2>5, <2>6
<1>2. factor \in Int
  BY DEF goal_difference_multiplier
<1>3. actual \in Int
  OBVIOUS
<1>4. Gain(map, r) = factor * (actual - expected_score(home, away))
  BY DEF Gain
<1> HIDE DEF factor, actual
<1>5. QED
  BY <1>1, <1>2, <1>3, <1>4

\* A match changes the ratings of its two sides, by the same amount.
LEMMA RatedType ==
  ASSUME NEW map \in RatingMap, NEW r \in Result, {r.home, r.away} \subseteq RatedSides(map)
  PROVE  /\ Rated(map, r) \in RatingMap /\ RatedSides(Rated(map, r)) = RatedSides(map)
         /\ Gain(map, r) \in Int
         /\ Rated(map, r)[r.home] = map[r.home] + Gain(map, r)
         /\ Rated(map, r)[r.away] = map[r.away] - Gain(map, r)
         /\ \A t \in Team \ {r.home, r.away} : Rated(map, r)[t] = map[t]
<1>1. /\ r.home \in Team /\ r.away \in Team /\ r.home # r.away
      /\ r.goals[1] \in Nat /\ r.goals[2] \in Nat
  BY ResultIs
<1>2. map[r.home] \in Int /\ map[r.away] \in Int
  BY <1>1 DEF RatedSides, RatingMap
<1>3. Gain(map, r) \in Int
  BY <1>1, <1>2, GainType
<1> DEFINE g == Gain(map, r)
<1>4. Rated(map, r) = [map EXCEPT ![r.home] = @ + g, ![r.away] = @ - g]
  BY DEF Rated
<1> HIDE DEF g
<1>5. g \in Int /\ map[r.home] + g \in Int /\ map[r.away] - g \in Int
  BY <1>2, <1>3 DEF g
<1>6. /\ Rated(map, r)[r.home] = map[r.home] + g
      /\ Rated(map, r)[r.away] = map[r.away] - g
      /\ \A t \in Team \ {r.home, r.away} : Rated(map, r)[t] = map[t]
      /\ Rated(map, r) \in RatingMap
  BY <1>1, <1>4, <1>5 DEF RatingMap
<1>7. RatedSides(Rated(map, r)) = RatedSides(map)
  BY <1>1, <1>2, <1>5, <1>6, EngineAssumption DEF RatedSides
<1>8. QED
  BY <1>3, <1>6, <1>7 DEF g

\* A match moves points between its two sides; all others come with the newcomers.
LEMMA ZeroSum ==
  ASSUME NEW map \in RatingMap, NEW r \in Result
  PROVE  LET seeded == Seeded(map, r)
             rated == Rated(seeded, r)
         IN SumFunctionOnSet(rated, RatedSides(rated)) =
              SumFunctionOnSet(map, RatedSides(map)) + SumFunctionOnSet(seeded, Newcomers(map, r))
<1> DEFINE seeded == Seeded(map, r)
           rated == Rated(seeded, r)
           old == RatedSides(map)
           new == Newcomers(map, r)
           all == RatedSides(seeded)
           rest == (all \ {r.home}) \ {r.away}
           g == Gain(seeded, r)
<1>1. r.home \in Team /\ r.away \in Team /\ r.home # r.away
  BY ResultIs
<1>2. /\ seeded \in RatingMap /\ all = old \cup new /\ old \cap new = {}
      /\ {r.home, r.away} \subseteq all /\ \A t \in old : seeded[t] = map[t]
  BY <1>1, SeededType
<1>3. /\ RatedSides(rated) = all /\ rated \in RatingMap
      /\ g \in Int
      /\ rated[r.home] = seeded[r.home] + g
      /\ rated[r.away] = seeded[r.away] - g
      /\ \A t \in Team \ {r.home, r.away} : rated[t] = seeded[t]
  BY <1>2, RatedType
<1>4. all \subseteq Team /\ \A t \in all : seeded[t] \in Int /\ rated[t] \in Int
  BY <1>2, <1>3 DEF RatedSides, RatingMap
<1> HIDE DEF seeded, rated, old, new, all, g
<1>5. /\ IsFiniteSet(all) /\ IsFiniteSet(old) /\ IsFiniteSet(new)
      /\ IsFiniteSet(all \ {r.home}) /\ IsFiniteSet(rest)
  BY <1>2, <1>4, FS_Subset, EngineAssumption
<1>6. ASSUME NEW f, \A t \in all : f[t] \in Int
      PROVE  /\ SumFunctionOnSet(f, all) = f[r.home] + (f[r.away] + SumFunctionOnSet(f, rest))
             /\ SumFunctionOnSet(f, rest) \in Int
  <2>1. SumFunctionOnSet(f, all) = f[r.home] + SumFunctionOnSet(f, all \ {r.home})
    BY <1>2, <1>5, <1>6, SumOut
  <2>2. SumFunctionOnSet(f, all \ {r.home}) = f[r.away] + SumFunctionOnSet(f, rest)
    <3>1. r.away \in all \ {r.home}
      BY <1>1, <1>2
    <3>2. QED
      BY <1>5, <1>6, <3>1, SumOut
  <2>3. SumFunctionOnSet(f, rest) \in Int
    BY <1>5, <1>6, SumInt
  <2>4. QED
    BY <2>1, <2>2, <2>3
<1>7. SumFunctionOnSet(rated, rest) = SumFunctionOnSet(seeded, rest)
  <2>1. \A t \in rest : rated[t] = seeded[t]
    BY <1>3, <1>4
  <2>2. QED
    BY <1>5, <2>1, SumSame
<1>8. SumFunctionOnSet(rated, all) = SumFunctionOnSet(seeded, all)
  <2>1. /\ SumFunctionOnSet(rated, all) =
             rated[r.home] + (rated[r.away] + SumFunctionOnSet(rated, rest))
        /\ SumFunctionOnSet(seeded, all) =
             seeded[r.home] + (seeded[r.away] + SumFunctionOnSet(seeded, rest))
        /\ SumFunctionOnSet(seeded, rest) \in Int
    BY <1>4, <1>6
  <2>2. seeded[r.home] \in Int /\ seeded[r.away] \in Int
    BY <1>2, <1>4
  <2> HIDE DEF rest
  <2>3. QED
    BY <1>3, <1>7, <2>1, <2>2
<1>9. SumFunctionOnSet(seeded, all) = SumFunctionOnSet(seeded, old) + SumFunctionOnSet(seeded, new)
  BY <1>2, <1>4, <1>5, SumUnion
<1>10. SumFunctionOnSet(seeded, old) = SumFunctionOnSet(map, old)
  BY <1>2, <1>5, SumSame
<1>11. QED
  BY <1>3, <1>8, <1>9, <1>10 DEF seeded, rated, old, new, all

-----------------------------------------------------------------------------
(* The replay                                                                *)

\* The sort key as one number.
LEMMA StampOrder ==
  ASSUME NEW r \in Result, NEW s \in Result
  PROVE  /\ Stamp(r) \in Int /\ Stamp(s) \in Int
         /\ Earlier(r, s) <=> Stamp(r) < Stamp(s)
         /\ Stamp(r) = Stamp(s) => r.id = s.id
<1> DEFINE m == MaxMatches + 1
           p == m * r.date
           q == m * s.date
<1>1. /\ r.id \in 1..MaxMatches /\ r.date \in Nat /\ s.id \in 1..MaxMatches /\ s.date \in Nat
      /\ MaxMatches \in Nat
  BY ResultIs, EngineAssumption
<1>2. r.id \in Int /\ s.id \in Int /\ 0 < r.id /\ r.id < m /\ 0 < s.id /\ s.id < m /\ m \in Nat
  BY <1>1
<1>3. Stamp(r) = p + r.id /\ Stamp(s) = q + s.id /\ p \in Int /\ q \in Int
  BY <1>1 DEF Stamp
<1>4. r.date < s.date => p + m <= q
  <2>1. ASSUME r.date < s.date PROVE m * (r.date + 1) <= q
    BY <1>1, <1>2, <2>1, ProductMonotone
  <2>2. m * (r.date + 1) = p + m
    BY <1>1
  <2>3. QED
    BY <2>1, <2>2
<1>5. s.date < r.date => q + m <= p
  <2>1. ASSUME s.date < r.date PROVE m * (s.date + 1) <= p
    BY <1>1, <1>2, <2>1, ProductMonotone
  <2>2. m * (s.date + 1) = q + m
    BY <1>1
  <2>3. QED
    BY <2>1, <2>2
<1>6. r.date = s.date => p = q
  OBVIOUS
<1> HIDE DEF p, q, m
<1>7. QED
  BY <1>1, <1>2, <1>3, <1>4, <1>5, <1>6 DEF Earlier

\* A set of matches has a last one.
LEMMA LatestExists ==
  ASSUME NEW S, IsFiniteSet(S), S \subseteq Result, S # {}
  PROVE  \E r \in S : \A q \in S : Stamp(q) <= Stamp(r)
<1> DEFINE F == {U \in SUBSET S : U # {} /\ ~ \E r \in U : \A q \in U : Stamp(q) <= Stamp(r)}
<1> SUFFICES ASSUME F # {} PROVE FALSE
  OBVIOUS
<1>1. PICK T \in F : \A U \in F : U \subseteq T => U = T
  <2>1. F \in SUBSET SUBSET S
    OBVIOUS
  <2> HIDE DEF F
  <2>2. QED
    BY <2>1, LeastSet
<1>2. PICK x \in T : TRUE
  OBVIOUS
<1> DEFINE U == T \ {x}
<1>3. \A r \in T : Stamp(r) \in Int
  BY StampOrder
<1>4. CASE U = {}
  <2>1. \A q \in T : q = x
    BY <1>4
  <2>2. \A q \in T : Stamp(q) <= Stamp(x)
    BY <1>3, <2>1
  <2>3. QED
    BY <2>2
<1>5. CASE U # {}
  <2>1. U \notin F
    BY <1>1
  <2>2. PICK y \in U : \A q \in U : Stamp(q) <= Stamp(y)
    BY <1>5, <2>1
  <2>3. CASE Stamp(y) <= Stamp(x)
    <3>1. \A q \in T : Stamp(q) <= Stamp(x)
      BY <1>3, <2>2, <2>3
    <3>2. QED
      BY <3>1
  <2>4. CASE ~(Stamp(y) <= Stamp(x))
    <3>1. \A q \in T : Stamp(q) <= Stamp(y)
      BY <1>3, <2>2, <2>4
    <3>2. QED
      BY <3>1
  <2>5. QED
    BY <2>3, <2>4
<1>6. QED
  BY <1>4, <1>5

LEMMA ReplayShrinks ==
  ASSUME NEW S, IsFiniteSet(S), S \subseteq Result
  PROVE  Shrinks("replay", S)
<1> SUFFICES ASSUME NEW s \in SUBSET S, s # {} PROVE Taken("replay", s) \in s
  BY DEF Shrinks
<1>1. \E r \in s : \A q \in s : Stamp(q) <= Stamp(r)
  BY LatestExists, FS_Subset
<1>2. Taken("replay", s) = CHOOSE r \in s : \A q \in s : Stamp(q) <= Stamp(r)
  BY DEF Taken, latest
<1>3. QED
  BY <1>1, <1>2

\* The ratings after a set of matches, for any such set.
Replayed(past) == Folded("replay", None, past)

LEMMA NothingReplayed == Replayed({}) = [t \in Team |-> None]
<1>1. IsFiniteSet({}) /\ {} \subseteq Result
  BY FS_EmptySet
<1>2. Folded("replay", None, {}) = Neutral("replay")
  BY <1>1, ReplayShrinks, FoldStep
<1>3. QED
  BY <1>2 DEF Replayed, Neutral

\* The latest match is replayed last.
LEMMA OneMoreReplayed ==
  ASSUME NEW past, IsFiniteSet(past), past \subseteq Result, NEW r \in Result,
         \A s \in past : Stamp(s) < Stamp(r)
  PROVE  Replayed(past \cup {r}) = Rated(Seeded(Replayed(past), r), r)
<1> DEFINE S == past \cup {r}
<1>1. IsFiniteSet(S) /\ S \subseteq Result /\ S # {}
  BY FS_AddElement
<1>2. \A s \in S : Stamp(s) \in Int
  BY <1>1, StampOrder
<1>3. latest(S) \in S /\ Stamp(r) <= Stamp(latest(S))
  <2>1. \E l \in S : \A q \in S : Stamp(q) <= Stamp(l)
    BY <1>1, LatestExists
  <2>2. r \in S
    OBVIOUS
  <2> HIDE DEF S
  <2>3. QED
    BY <2>1, <2>2 DEF latest
<1>4. latest(S) = r
  <2> DEFINE l == latest(S)
  <2>1. l \in past \/ l = r
    BY <1>3
  <2>2. l \in S /\ r \in S /\ Stamp(r) <= Stamp(l)
    BY <1>3
  <2> HIDE DEF l, S
  <2>3. l \in past => Stamp(l) < Stamp(r)
    OBVIOUS
  <2>4. Stamp(l) \in Int /\ Stamp(r) \in Int
    BY <1>2, <2>2
  <2>5. l = r
    BY <2>1, <2>2, <2>3, <2>4
  <2>6. QED
    BY <2>5 DEF l
<1>5. r \notin past
  BY <1>2
<1>6. S \ {r} = past
  BY <1>5
<1>7. Taken("replay", S) = r
  BY <1>4 DEF Taken
<1>8. \A rest : Combined("replay", None, r, rest) = Rated(Seeded(rest, r), r)
  BY DEF Combined
<1> HIDE DEF S
<1>9. Folded("replay", None, S) = Combined("replay", None, r, Folded("replay", None, past))
  BY <1>1, <1>6, <1>7, ReplayShrinks, FoldStep
<1>10. QED
  BY <1>8, <1>9 DEF Replayed, S

\* A side that none of the matches is about has no rating after them.
LEMMA UnratedBefore ==
  ASSUME NEW past, IsFiniteSet(past), past \subseteq Result, NEW t \in Team,
         \A s \in past : t \notin {s.home, s.away}
  PROVE  Replayed(past)[t] = None
<1> DEFINE F == {U \in SUBSET past : Replayed(U)[t] # None}
<1> SUFFICES ASSUME F # {} PROVE FALSE
  OBVIOUS
<1>1. PICK T \in F : \A U \in F : U \subseteq T => U = T
  <2>1. F \in SUBSET SUBSET past
    OBVIOUS
  <2> HIDE DEF F
  <2>2. QED
    BY <2>1, LeastSet
<1>2. T # {}
  BY NothingReplayed
<1> DEFINE x == Taken("replay", T)
           rest == Replayed(T \ {x})
<1>3. IsFiniteSet(T) /\ T \subseteq Result
  BY FS_Subset
<1>4. x \in T
  BY <1>2, <1>3, ReplayShrinks DEF Shrinks
<1>5. Replayed(T) = Rated(Seeded(rest, x), x)
  BY <1>2, <1>3, ReplayShrinks, FoldStep DEF Replayed, Combined
<1>6. rest[t] = None
  BY <1>1, <1>4
<1>7. t # x.home /\ t # x.away
  BY <1>4
<1> HIDE DEF x, rest
<1>8. Seeded(rest, x)[t] = None /\ DOMAIN Seeded(rest, x) = Team
  BY <1>6, <1>7 DEF Seeded, Newcomers
<1>9. Rated(Seeded(rest, x), x)[t] = None
  BY <1>7, <1>8 DEF Rated
<1>10. QED
  BY <1>5, <1>9

-----------------------------------------------------------------------------
(* The invariant                                                             *)

\* The rows of a history: at most MaxMatches of them, each with an id of its own.
RowsOK ==
  /\ \E n \in 0..MaxMatches : DOMAIN rows = 1..n
  /\ \A i \in DOMAIN rows : rows[i] \in Result
  /\ \A i, j \in DOMAIN rows : rows[i].id = rows[j].id => i = j

History == {rows[i] : i \in DOMAIN rows}
Done == DOMAIN rows \ left

\* Matches are replayed in the order of the sort key.
InOrder == \A i \in Done, j \in left : Stamp(rows[i]) < Stamp(rows[j])

Before(r, history) == {s \in history : Stamp(s) < Stamp(r)}

\* What a match is rated with.
Kickoff(r, past) ==
  LET map == Seeded(Replayed(past), r) IN <<map[r.home], map[r.away]>>

EloOK ==
  /\ left \subseteq DOMAIN rows /\ InOrder
  /\ ratings \in RatingMap /\ ratings = Replayed({rows[i] : i \in Done})
  /\ snapshots \in [1..MaxMatches -> {None} \cup (Int \X Int)]
  /\ \A i \in Done : snapshots[rows[i].id] = Kickoff(rows[i], Before(rows[i], History))
  /\ paid \in Int /\ PointsConserved

\* Every strength is a positive fraction; the rate of an end of the pitch is zero only
\* where nobody has scored at it.
Fraction == (Nat \ {0}) \X (Nat \ {0})
FitOK ==
  strengths # None =>
    /\ left = {}
    /\ strengths.home \in Nat /\ strengths.away \in Nat /\ strengths.weight \in Nat \ {0}
    /\ strengths.home = 0 <=> \A i \in DOMAIN rows : rows[i].goals[1] = 0
    /\ strengths.away = 0 <=> \A i \in DOMAIN rows : rows[i].goals[2] = 0
    /\ \A t \in Team : strengths.scored[t] \in Fraction /\ strengths.conceded[t] \in Fraction

PredictionOK ==
  /\ prediction # None => /\ strengths # None
                         /\ prediction.rates \in Seq(Nat \X (Nat \ {0}))
  /\ NilNeedsGoallessLeague /\ RowAccepted

IInv == RowsOK /\ EloOK /\ FitOK /\ PredictionOK

\* What follows from the rows alone: there are finitely many, with different stamps.
LEMMA RowsAre ==
  ASSUME RowsOK
  PROVE  /\ IsFiniteSet(DOMAIN rows) /\ IsFiniteSet(History) /\ History \subseteq Result
         /\ \A I \in SUBSET DOMAIN rows : IsFiniteSet({rows[i] : i \in I})
         /\ \A i, j \in DOMAIN rows : Stamp(rows[i]) = Stamp(rows[j]) => i = j
<1>1. IsFiniteSet(DOMAIN rows)
  <2>1. PICK n \in 0..MaxMatches : DOMAIN rows = 1..n
    BY DEF RowsOK
  <2>2. n \in Int /\ 1 \in Int
    BY EngineAssumption
  <2>3. QED
    BY <2>1, <2>2, FS_Interval
<1>2. ASSUME NEW I \in SUBSET DOMAIN rows PROVE IsFiniteSet({rows[i] : i \in I})
  <2>1. IsFiniteSet(I)
    BY <1>1, FS_Subset
  <2> DEFINE T == {rows[i] : i \in I}
             f == [i \in I |-> rows[i]]
  <2>2. f \in Surjection(I, T)
    BY DEF Surjection
  <2> HIDE DEF T, f
  <2>3. IsFiniteSet(T)
    BY <2>1, <2>2, FS_Surjection
  <2>4. QED
    BY <2>3 DEF T
<1>3. IsFiniteSet(History)
  BY <1>2 DEF History
<1>4. History \subseteq Result
  BY DEF RowsOK, History
<1>5. \A i, j \in DOMAIN rows : Stamp(rows[i]) = Stamp(rows[j]) => i = j
  BY StampOrder DEF RowsOK
<1>6. QED
  BY <1>1, <1>2, <1>3, <1>4, <1>5

\* The ratings the property WalkForward walks back to are those of the replay.
LEMMA RatingsAfterIs ==
  ASSUME RowsOK, NEW past \in SUBSET History
  PROVE  RatingsAfter[past] = Replayed(past)
<1> DEFINE g == CHOOSE h : IsFold("replay", h, None, History)
           k == CHOOSE h : IsFold("replay", h, None, past)
<1>1. IsFiniteSet(History) /\ IsFiniteSet(past) /\ History \subseteq Result /\ past \subseteq Result
  BY RowsAre, FS_Subset
<1>2. /\ Neutral("replay") = [t \in Team |-> None]
      /\ \A s : Taken("replay", s) = latest(s)
      /\ \A x, rest : Combined("replay", None, x, rest) = Rated(Seeded(rest, x), x)
  BY DEF Neutral, Taken, Combined
<1>3. RatingsAfter = g
  BY DEF RatingsAfter, IsFold, History, latest, Neutral, Taken, Combined
<1>4. IsFold("replay", g, None, History) /\ IsFold("replay", k, None, past)
  BY <1>1, ReplayShrinks, FoldExists
<1>5. Replayed(past) = k[past]
  BY DEF Replayed, Folded
<1> HIDE DEF g, k
<1>6. Shrinks("replay", past)
  BY <1>1, ReplayShrinks
<1>7. k[past] = g[past]
  BY <1>1, <1>4, <1>6, FoldsAgree
<1>8. QED
  BY <1>3, <1>5, <1>7

LEMMA InitInv == Init => IInv
<1> SUFFICES ASSUME Init PROVE IInv
  OBVIOUS
<1>1. PICK n \in 0..MaxMatches : \E game \in [1..n -> Game], id \in Permutation(n) :
        rows = [i \in 1..n |-> [id |-> id[i], date |-> game[i].date, home |-> game[i].home,
                                away |-> game[i].away, goals |-> game[i].goals]]
  BY DEF Init
<1>2. PICK game \in [1..n -> Game], id \in Permutation(n) :
        rows = [i \in 1..n |-> [id |-> id[i], date |-> game[i].date, home |-> game[i].home,
                                away |-> game[i].away, goals |-> game[i].goals]]
  BY <1>1
<1>3. DOMAIN rows = 1..n /\ \A i \in 1..n : rows[i] =
        [id |-> id[i], date |-> game[i].date, home |-> game[i].home,
         away |-> game[i].away, goals |-> game[i].goals]
  BY <1>2
<1>4. \A i \in 1..n : id[i] \in 1..MaxMatches
  <2>1. id \in [1..n -> 1..n] /\ n \in Int /\ MaxMatches \in Int /\ n <= MaxMatches
    BY EngineAssumption DEF Permutation
  <2>2. QED
    BY <2>1
<1>5. RowsOK
  <2>1. ASSUME NEW i \in DOMAIN rows PROVE rows[i] \in Result
    <3>1. id[i] \in 1..MaxMatches /\ game[i] \in Game
      BY <1>3, <1>4
    <3>2. QED
      BY <1>3, <3>1 DEF Result
  <2>2. ASSUME NEW i \in DOMAIN rows, NEW j \in DOMAIN rows, rows[i].id = rows[j].id
        PROVE  i = j
    <3>1. rows[i].id = id[i] /\ rows[j].id = id[j]
      BY <1>3
    <3>2. QED
      BY <1>3, <2>2, <3>1 DEF Permutation
  <2>3. QED
    BY <1>3, <2>1, <2>2 DEF RowsOK
<1>6. /\ left = DOMAIN rows /\ ratings = [t \in Team |-> None]
      /\ snapshots = [i \in 1..MaxMatches |-> None]
      /\ paid = 0 /\ strengths = None /\ prediction = None
  BY DEF Init
<1>7. EloOK
  <2>1. Done = {} /\ {rows[i] : i \in Done} = {}
    BY <1>6 DEF Done
  <2>2. RatedSides(ratings) = {}
    BY <1>6 DEF RatedSides
  <2>3. PointsConserved
    BY <1>6, <2>2, SumEmpty DEF PointsConserved, RatedSides
  <2>4. ratings \in RatingMap /\ ratings = Replayed({rows[i] : i \in Done})
    BY <1>6, <2>1, NothingReplayed DEF RatingMap
  <2>5. snapshots \in [1..MaxMatches -> {None} \cup (Int \X Int)]
    BY <1>6
  <2>6. QED
    BY <1>6, <2>1, <2>3, <2>4, <2>5 DEF EloOK, InOrder
<1>8. FitOK /\ PredictionOK
  BY <1>6 DEF FitOK, PredictionOK, NilNeedsGoallessLeague, RowAccepted
<1>9. QED
  BY <1>5, <1>7, <1>8 DEF IInv

LEMMA HistoryStays == ASSUME rows' = rows PROVE History' = History /\ (RowsOK <=> RowsOK')
<1>1. History' = History
  BY ZenonT(30) DEF History
<1>2. RowsOK <=> RowsOK'
  BY DEF RowsOK
<1>3. QED
  BY <1>1, <1>2

\* What Elo has done stays true while Poisson works.
LEMMA EloStays ==
  ASSUME RowsOK, EloOK, UNCHANGED <<rows, left, ratings, snapshots, paid>>
  PROVE  EloOK'
<1>1. /\ rows' = rows /\ left' = left /\ ratings' = ratings /\ snapshots' = snapshots
      /\ paid' = paid /\ Done' = Done /\ History' = History
  BY HistoryStays DEF Done
<1>2. {rows'[i] : i \in Done'} = {rows[i] : i \in Done}
  BY <1>1
<1>3. InOrder'
  BY <1>1 DEF EloOK, InOrder
<1>4. PointsConserved'
  BY <1>1 DEF EloOK, PointsConserved
<1>5. \A i \in Done' : snapshots'[rows'[i].id] = Kickoff(rows'[i], Before(rows'[i], History'))
  BY <1>1 DEF EloOK
<1>6. QED
  BY <1>1, <1>2, <1>3, <1>4, <1>5 DEF EloOK

\* A match that is due comes after all that were replayed and before all that were not.
LEMMA ApplyElo ==
  ASSUME RowsOK, EloOK, apply_match
  PROVE  EloOK'
<1>1. PICK i \in left :
        /\ Due(i) /\ left' = left \ {i} /\ rows' = rows
        /\ ratings' = Rated(Seeded(ratings, rows[i]), rows[i])
        /\ snapshots' = [snapshots EXCEPT ![rows[i].id] =
             <<Seeded(ratings, rows[i])[rows[i].home], Seeded(ratings, rows[i])[rows[i].away]>>]
        /\ paid' = paid + SumFunctionOnSet(Seeded(ratings, rows[i]), Newcomers(ratings, rows[i]))
  BY DEF apply_match
<1> DEFINE r == rows[i]
           map == Seeded(ratings, r)
           past == {rows[j] : j \in Done}
<1>2. /\ left \subseteq DOMAIN rows /\ ratings \in RatingMap /\ ratings = Replayed(past)
      /\ \A j \in Done, k \in left : Stamp(rows[j]) < Stamp(rows[k])
      /\ \A j \in DOMAIN rows : rows[j] \in Result
  BY DEF EloOK, InOrder, RowsOK
<1>3. i \in DOMAIN rows /\ r \in Result /\ i \notin Done /\ Done \subseteq DOMAIN rows
  BY <1>2 DEF Done
<1>4. \A j \in left \ {i} : Stamp(r) < Stamp(rows[j])
  <2> SUFFICES ASSUME NEW j \in left \ {i} PROVE Stamp(r) < Stamp(rows[j])
    OBVIOUS
  <2>1. rows[j] \in Result /\ Stamp(r) # Stamp(rows[j])
    BY <1>2, <1>3, RowsAre
  <2>2. Earlier(r, rows[j]) \/ ~Earlier(rows[j], r)
    BY <1>1 DEF Due
  <2>3. /\ Stamp(r) \in Int /\ Stamp(rows[j]) \in Int
        /\ Earlier(r, rows[j]) <=> Stamp(r) < Stamp(rows[j])
        /\ Earlier(rows[j], r) <=> Stamp(rows[j]) < Stamp(r)
    BY <1>3, <2>1, StampOrder
  <2>4. QED
    BY <2>1, <2>2, <2>3
<1>5. Done' = Done \cup {i} /\ DOMAIN rows' = DOMAIN rows
  BY <1>1, <1>2 DEF Done
<1>6. InOrder'
  <2> SUFFICES ASSUME NEW j \in Done', NEW k \in left' PROVE Stamp(rows'[j]) < Stamp(rows'[k])
    BY DEF InOrder, Stamp
  <2>1. k \in left \ {i} /\ rows'[j] = rows[j] /\ rows'[k] = rows[k]
    BY <1>1
  <2>2. CASE j = i
    BY <1>4, <2>1, <2>2
  <2>3. CASE j \in Done
    BY <1>2, <2>1, <2>3
  <2>4. QED
    BY <1>5, <2>2, <2>3
<1>7. past \subseteq Result /\ IsFiniteSet(past) /\ \A s \in past : Stamp(s) < Stamp(r)
  <2>1. past \subseteq Result
    BY <1>2, <1>3
  <2>2. IsFiniteSet(past)
    BY <1>3, RowsAre
  <2>3. \A s \in past : Stamp(s) < Stamp(r)
    BY <1>2
  <2>4. QED
    BY <2>1, <2>2, <2>3
<1>8. ratings' = Replayed(past \cup {r})
  <2> HIDE DEF past, r
  <2>1. Replayed(past \cup {r}) = Rated(Seeded(Replayed(past), r), r)
    BY <1>3, <1>7, OneMoreReplayed
  <2>2. QED
    BY <1>1, <1>2, <2>1 DEF r
<1>9. {rows'[j] : j \in Done'} = past \cup {r}
  BY <1>1, <1>5
<1>10. /\ r.home \in Team /\ r.away \in Team /\ r.id \in 1..MaxMatches
  BY <1>3, ResultIs
<1>11. map \in RatingMap /\ {r.home, r.away} \subseteq RatedSides(map)
  <2> HIDE DEF r
  <2>1. QED
    BY <1>2, <1>10, SeededType
<1>12. ratings' \in RatingMap
  <2> HIDE DEF r, map
  <2>1. Rated(map, r) \in RatingMap
    BY <1>3, <1>11, RatedType
  <2>2. QED
    BY <1>1, <2>1 DEF r, map
<1>13. <<map[r.home], map[r.away]>> \in Int \X Int
  BY <1>10, <1>11 DEF RatingMap, RatedSides
<1>14. Before(r, History) = past
  <2>1. \A j \in Done : rows[j] \in History /\ Stamp(rows[j]) < Stamp(r)
    BY <1>2, <1>3 DEF History
  <2>2. \A j \in left : ~(Stamp(rows[j]) < Stamp(r))
    <3> SUFFICES ASSUME NEW j \in left PROVE ~(Stamp(rows[j]) < Stamp(r))
      OBVIOUS
    <3>1. Stamp(r) \in Int /\ Stamp(rows[j]) \in Int
      BY <1>2, <1>3, StampOrder
    <3>2. j = i \/ Stamp(r) < Stamp(rows[j])
      BY <1>4
    <3>3. QED
      BY <3>1, <3>2
  <2>3. \A s \in Before(r, History) : \E j \in DOMAIN rows : s = rows[j] /\ Stamp(s) < Stamp(r)
    BY DEF Before, History
  <2>4. \A s \in Before(r, History) : s \in past
    BY <2>2, <2>3 DEF Done
  <2>5. \A s \in past : s \in Before(r, History)
    BY <2>1 DEF Before
  <2>6. QED
    BY <2>4, <2>5
<1>15. Kickoff(r, past) = <<map[r.home], map[r.away]>>
  BY <1>2 DEF Kickoff
<1>16. /\ snapshots' \in [1..MaxMatches -> {None} \cup (Int \X Int)]
       /\ \A j \in Done' : snapshots'[rows'[j].id] = Kickoff(rows'[j], Before(rows'[j], History'))
  <2> DEFINE shot == <<map[r.home], map[r.away]>>
  <2>1. /\ snapshots' = [snapshots EXCEPT ![r.id] = shot]
        /\ snapshots \in [1..MaxMatches -> {None} \cup (Int \X Int)]
    BY <1>1 DEF EloOK
  <2>2. shot \in Int \X Int /\ shot = Kickoff(r, Before(r, History))
    BY <1>13, <1>14, <1>15
  <2>3. \A j \in Done : /\ snapshots[rows[j].id] = Kickoff(rows[j], Before(rows[j], History))
                        /\ rows[j].id \in 1..MaxMatches /\ rows[j].id # r.id
    BY <1>2, <1>3, ResultIs DEF EloOK, RowsOK
  <2>4. History' = History
    BY <1>1, HistoryStays
  <2> HIDE DEF shot, map, past
  <2>5. snapshots' \in [1..MaxMatches -> {None} \cup (Int \X Int)]
    BY <2>1, <2>2
  <2>6. ASSUME NEW j \in Done'
        PROVE  snapshots'[rows'[j].id] = Kickoff(rows'[j], Before(rows'[j], History'))
    <3>1. rows'[j] = rows[j]
      BY <1>1
    <3>2. CASE j = i
      <4>1. snapshots'[r.id] = shot
        BY <1>10, <2>1
      <4>2. QED
        BY <2>2, <2>4, <3>1, <3>2, <4>1
    <3>3. CASE j \in Done
      <4>1. snapshots'[rows[j].id] = snapshots[rows[j].id]
        BY <2>1, <2>3, <3>3
      <4>2. QED
        BY <2>3, <2>4, <3>1, <3>3, <4>1
    <3>4. QED
      BY <1>5, <3>2, <3>3
  <2>7. QED
    BY <2>5, <2>6
<1>17. paid' \in Int /\ PointsConserved'
  <2> DEFINE new == Newcomers(ratings, r)
             brought == SumFunctionOnSet(map, new)
  <2>1. paid \in Int /\ SumFunctionOnSet(ratings, RatedSides(ratings)) = paid
    BY DEF EloOK, PointsConserved, RatedSides
  <2>2. IsFiniteSet(new) /\ \A t \in new : map[t] \in Int
    <3>1. new \subseteq {r.home, r.away} /\ new \subseteq Team
      BY <1>10 DEF Newcomers
    <3>2. IsFiniteSet(new)
      BY <3>1, FS_Subset, EngineAssumption
    <3>3. QED
      BY <1>11, <3>1, <3>2 DEF RatingMap, RatedSides
  <2>3. paid' = paid + brought /\ ratings' = Rated(map, r)
    BY <1>1
  <2>4. SumFunctionOnSet(Rated(map, r), RatedSides(Rated(map, r))) =
          SumFunctionOnSet(ratings, RatedSides(ratings)) + brought
    <3> HIDE DEF r
    <3>1. QED
      BY <1>2, <1>3, ZeroSum
  <2> HIDE DEF map, new, r
  <2>5. brought \in Int
    BY <2>2, SumInt
  <2> HIDE DEF brought
  <2>6. SumFunctionOnSet(ratings', RatedSides(ratings')) = paid' /\ paid' \in Int
    BY <2>1, <2>3, <2>4, <2>5
  <2>7. QED
    BY <2>6 DEF PointsConserved, RatedSides
<1>18. left' \subseteq DOMAIN rows'
  BY <1>1, <1>2
<1>19. ratings' = Replayed({rows'[j] : j \in Done'})
  BY <1>8, <1>9
<1>20. QED
  BY <1>6, <1>12, <1>16, <1>17, <1>18, <1>19 DEF EloOK

-----------------------------------------------------------------------------
(* Poisson: the sums                                                         *)

\* However old, a match still counts.
LEMMA WeightPositive ==
  ASSUME NEW r \in Result
  PROVE  Weight(r) \in Nat /\ Weight(r) > 0
<1> DEFINE age == Max({Now - r.date, 0})
<1>1. r.date \in Nat /\ Now \in Nat
  BY ResultIs, EngineAssumption
<1>2. age \in {Now - r.date, 0}
  <2> DEFINE d == Now - r.date
  <2>1. d \in Int /\ 0 \in Int
    BY <1>1
  <2> HIDE DEF d
  <2>2. Max({d, 0}) \in {d, 0}
    BY <2>1, MaxPair
  <2>3. QED
    BY <2>2 DEF d
<1>3. Weight(r) = Power(2, Now - age)
  BY DEF Weight
<1> HIDE DEF age
<1>4. Now - age \in Nat
  BY <1>1, <1>2
<1>5. QED
  BY <1>3, <1>4, PowerNat

\* A weighted sum is zero only where every match adds nothing to it.
LEMMA TotalNat ==
  ASSUME RowsOK, NEW quantity, \A i \in DOMAIN rows : quantity[i] \in Nat
  PROVE  /\ Total(quantity) \in Nat
         /\ Total(quantity) = 0 <=> \A i \in DOMAIN rows : quantity[i] = 0
<1> DEFINE f == [i \in DOMAIN rows |-> Weight(rows[i]) * quantity[i]]
<1>1. \A i \in DOMAIN rows : f[i] \in Nat /\ (f[i] = 0 <=> quantity[i] = 0)
  <2> SUFFICES ASSUME NEW i \in DOMAIN rows PROVE f[i] \in Nat /\ (f[i] = 0 <=> quantity[i] = 0)
    OBVIOUS
  <2>1. Weight(rows[i]) \in Nat /\ Weight(rows[i]) > 0
    BY WeightPositive DEF RowsOK
  <2>2. f[i] = Weight(rows[i]) * quantity[i]
    OBVIOUS
  <2>3. \A w, q \in Nat : w > 0 => w * q \in Nat /\ (w * q = 0 <=> q = 0)
    OBVIOUS
  <2> HIDE DEF f
  <2>4. QED
    BY <2>1, <2>2, <2>3
<1>2. Total(quantity) = SumFunctionOnSet(f, DOMAIN rows) /\ IsFiniteSet(DOMAIN rows)
  BY RowsAre DEF Total
<1> HIDE DEF f
<1>3. SumFunctionOnSet(f, DOMAIN rows) \in Nat
  BY <1>1, <1>2, SumNat
<1>4. SumFunctionOnSet(f, DOMAIN rows) = 0 <=> \A i \in DOMAIN rows : f[i] = 0
  BY <1>1, <1>2, SumZero
<1>5. QED
  BY <1>1, <1>2, <1>3, <1>4

LEMMA GoalsNat ==
  ASSUME RowsOK, NEW i \in DOMAIN rows, NEW t
  PROVE  /\ rows[i].goals[1] \in Nat /\ rows[i].goals[2] \in Nat
         /\ Scored(rows[i], t) \in Nat /\ Conceded(rows[i], t) \in Nat
<1>1. rows[i].goals[1] \in Nat /\ rows[i].goals[2] \in Nat
  BY ResultIs DEF RowsOK
<1>2. QED
  BY <1>1 DEF Scored, Conceded

LEMMA SumsNat ==
  ASSUME RowsOK
  PROVE  /\ Sums.weight \in Nat /\ Sums.home \in Nat /\ Sums.away \in Nat
         /\ Sums.home = 0 <=> \A i \in DOMAIN rows : rows[i].goals[1] = 0
         /\ Sums.away = 0 <=> \A i \in DOMAIN rows : rows[i].goals[2] = 0
         /\ \A t \in Team : /\ Sums.scored[t] \in Nat /\ Sums.conceded[t] \in Nat
                            /\ Sums.toScore[t] \in Nat /\ Sums.toConcede[t] \in Nat
                            /\ Sums.sample[t] \in Nat
<1> DEFINE games == DOMAIN rows
           one == [i \in games |-> 1]
           first == [i \in games |-> rows[i].goals[1]]
           second == [i \in games |-> rows[i].goals[2]]
           weight == Total(one)
           home == Total(first)
           away == Total(second)
<1>1. weight \in Nat
  <2>1. \A i \in games : one[i] \in Nat
    OBVIOUS
  <2> HIDE DEF one
  <2>2. QED
    BY <2>1, TotalNat
<1>2. home \in Nat /\ (home = 0 <=> \A i \in games : rows[i].goals[1] = 0)
  <2>1. \A i \in games : first[i] \in Nat /\ first[i] = rows[i].goals[1]
    BY GoalsNat
  <2> HIDE DEF first
  <2>2. QED
    BY <2>1, TotalNat
<1>3. away \in Nat /\ (away = 0 <=> \A i \in games : rows[i].goals[2] = 0)
  <2>1. \A i \in games : second[i] \in Nat /\ second[i] = rows[i].goals[2]
    BY GoalsNat
  <2> HIDE DEF second
  <2>2. QED
    BY <2>1, TotalNat
<1>4. ASSUME NEW t \in Team, NEW x \in Nat, NEW y \in Nat
      PROVE  /\ Total([i \in games |-> Scored(rows[i], t)]) \in Nat
             /\ Total([i \in games |-> Conceded(rows[i], t)]) \in Nat
             /\ Total([i \in games |-> Baseline(x, y, rows[i], t)]) \in Nat
             /\ Total([i \in games |-> IF Plays(rows[i], t) THEN 1 ELSE 0]) \in Nat
  <2> DEFINE f == [i \in games |-> Scored(rows[i], t)]
             g == [i \in games |-> Conceded(rows[i], t)]
             h == [i \in games |-> Baseline(x, y, rows[i], t)]
             k == [i \in games |-> IF Plays(rows[i], t) THEN 1 ELSE 0]
  <2>1. \A i \in games : f[i] \in Nat /\ g[i] \in Nat
    BY GoalsNat
  <2>2. \A i \in games : h[i] \in Nat /\ k[i] \in Nat
    BY DEF Baseline
  <2> HIDE DEF f, g, h, k
  <2>3. Total(f) \in Nat /\ Total(g) \in Nat /\ Total(h) \in Nat /\ Total(k) \in Nat
    BY <2>1, <2>2, TotalNat
  <2>4. QED
    BY <2>3 DEF f, g, h, k
<1>5. /\ Sums.weight = weight /\ Sums.home = home /\ Sums.away = away
      /\ \A t \in Team :
           /\ Sums.scored[t] = weight * Total([i \in games |-> Scored(rows[i], t)])
           /\ Sums.conceded[t] = weight * Total([i \in games |-> Conceded(rows[i], t)])
           /\ Sums.toScore[t] = Total([i \in games |-> Baseline(home, away, rows[i], t)])
           /\ Sums.toConcede[t] = Total([i \in games |-> Baseline(away, home, rows[i], t)])
           /\ Sums.sample[t] = Total([i \in games |-> IF Plays(rows[i], t) THEN 1 ELSE 0])
  BY DEF Sums
<1> HIDE DEF weight, home, away, games
<1>6. \A m, n \in Nat : m * n \in Nat
  OBVIOUS
<1>7. \A t \in Team : /\ Sums.scored[t] \in Nat /\ Sums.conceded[t] \in Nat
                      /\ Sums.toScore[t] \in Nat /\ Sums.toConcede[t] \in Nat
                      /\ Sums.sample[t] \in Nat
  <2> SUFFICES ASSUME NEW t \in Team
               PROVE  /\ Sums.scored[t] \in Nat /\ Sums.conceded[t] \in Nat
                      /\ Sums.toScore[t] \in Nat /\ Sums.toConcede[t] \in Nat
                      /\ Sums.sample[t] \in Nat
    OBVIOUS
  <2>1. Sums.scored[t] \in Nat /\ Sums.conceded[t] \in Nat
    BY <1>1, <1>4, <1>5, <1>6
  <2>2. Sums.toScore[t] \in Nat /\ Sums.toConcede[t] \in Nat
    <3>1. /\ Total([i \in games |-> Baseline(home, away, rows[i], t)]) \in Nat
          /\ Total([i \in games |-> Baseline(away, home, rows[i], t)]) \in Nat
      BY <1>2, <1>3, <1>4
    <3>2. QED
      BY <1>5, <3>1
  <2>3. Sums.sample[t] \in Nat
    BY <1>4, <1>5
  <2>4. QED
    BY <2>1, <2>2, <2>3
<1>8. QED
  BY <1>1, <1>2, <1>3, <1>5, <1>7 DEF games

\* A shrunken ratio is positive, above and below the line.
LEMMA ShrinkType ==
  ASSUME NEW observed \in Nat, NEW expected \in Nat, NEW sample \in Nat
  PROVE  Shrink(observed, expected, sample) \in Fraction
<1> DEFINE prior == 6 * Power(2, Now)
<1>1. prior \in Nat \ {0}
  <2>1. Power(2, Now) \in Nat /\ Power(2, Now) > 0
    BY PowerNat, EngineAssumption
  <2>2. QED
    BY <2>1
<1>2. Shrink(observed, expected, sample) =
        IF expected = 0 THEN <<1, 1>>
        ELSE <<sample * observed + prior * expected, (sample + prior) * expected>>
  BY DEF Shrink
<1> HIDE DEF prior
<1>3. sample * observed \in Nat /\ sample + prior \in Nat \ {0}
  BY <1>1
<1>4. \A m, n \in Nat \ {0} : m * n \in Nat \ {0}
  OBVIOUS
<1>5. CASE expected = 0
  BY <1>2, <1>5 DEF Fraction
<1>6. CASE expected # 0
  <2>1. prior * expected \in Nat \ {0} /\ (sample + prior) * expected \in Nat \ {0}
    BY <1>1, <1>3, <1>4, <1>6
  <2> DEFINE x == sample * observed
             y == prior * expected
             z == (sample + prior) * expected
  <2>2. x \in Nat /\ y \in Nat \ {0} /\ z \in Nat \ {0}
    BY <1>3, <2>1
  <2>3. Shrink(observed, expected, sample) = <<x + y, z>>
    BY <1>2, <1>6
  <2> HIDE DEF x, y, z
  <2>4. x + y \in Nat \ {0}
    BY <2>2
  <2>5. QED
    BY <2>2, <2>3, <2>4 DEF Fraction
<1>7. QED
  BY <1>5, <1>6

LEMMA FitStep ==
  ASSUME RowsOK, fit
  PROVE  FitOK'
<1> DEFINE s == Sums
           scored == [t \in Team |-> Shrink(s.scored[t], s.toScore[t], s.sample[t])]
           conceded == [t \in Team |-> Shrink(s.conceded[t], s.toConcede[t], s.sample[t])]
<1>1. /\ left = {} /\ rows' = rows /\ left' = left
      /\ strengths' = [s EXCEPT !.scored = scored, !.conceded = conceded,
                                !.weight = Max({s.weight, 1})]
  BY DEF fit
<1>2. /\ s.weight \in Nat /\ s.home \in Nat /\ s.away \in Nat
      /\ s.home = 0 <=> \A i \in DOMAIN rows : rows[i].goals[1] = 0
      /\ s.away = 0 <=> \A i \in DOMAIN rows : rows[i].goals[2] = 0
      /\ \A t \in Team : s.scored[t] \in Nat /\ s.conceded[t] \in Nat /\ s.toScore[t] \in Nat
                         /\ s.toConcede[t] \in Nat /\ s.sample[t] \in Nat
  BY SumsNat
<1>3. \A t \in Team : scored[t] \in Fraction /\ conceded[t] \in Fraction
  <2> HIDE DEF s
  <2>1. QED
    BY <1>2, ShrinkType
<1>4. DOMAIN s =
        {"weight", "home", "away", "scored", "conceded", "toScore", "toConcede", "sample"}
  BY DEF Sums
<1> HIDE DEF s, scored, conceded
<1>5. /\ strengths'.home = s.home /\ strengths'.away = s.away
      /\ strengths'.weight = Max({s.weight, 1})
      /\ strengths'.scored = scored /\ strengths'.conceded = conceded
  BY <1>1, <1>4
<1>6. Max({s.weight, 1}) \in Nat \ {0}
  <2>1. s.weight \in Int /\ 1 \in Int
    BY <1>2
  <2>2. Max({s.weight, 1}) \in {s.weight, 1} /\ Max({s.weight, 1}) >= 1
    BY <2>1, MaxPair
  <2>3. QED
    BY <1>2, <2>2
<1>7. QED
  BY <1>1, <1>2, <1>3, <1>5, <1>6 DEF FitOK

-----------------------------------------------------------------------------
(* Poisson: the average of the league                                        *)

\* A quantity that only the two sides of a match have, summed over all sides.
LEMMA TotalOfSides ==
  ASSUME RowsOK, NEW q, \A i \in DOMAIN rows, t \in Team : q[t][i] \in Int,
         \A i \in DOMAIN rows, t \in Team : ~Plays(rows[i], t) => q[t][i] = 0,
         NEW total, \A t \in Team : total[t] = Total(q[t]),
         NEW sides, \A i \in DOMAIN rows : sides[i] = q[rows[i].home][i] + q[rows[i].away][i]
  PROVE  SumFunctionOnSet(total, Team) = Total(sides)
<1> DEFINE games == DOMAIN rows
           m == [t \in Team |-> [i \in games |-> Weight(rows[i]) * q[t][i]]]
           col(i) == [t \in Team |-> m[t][i]]
<1>1. IsFiniteSet(Team) /\ IsFiniteSet(games)
  BY RowsAre, EngineAssumption
<1>2. \A t \in Team, i \in games : m[t][i] = Weight(rows[i]) * q[t][i] /\ m[t][i] \in Int
  <2> SUFFICES ASSUME NEW t \in Team, NEW i \in games
               PROVE  m[t][i] = Weight(rows[i]) * q[t][i] /\ m[t][i] \in Int
    OBVIOUS
  <2>1. m[t][i] = Weight(rows[i]) * q[t][i]
    OBVIOUS
  <2>2. Weight(rows[i]) \in Nat /\ q[t][i] \in Int
    BY WeightPositive DEF RowsOK
  <2> HIDE DEF m
  <2>3. QED
    BY <2>1, <2>2
<1>3. \A t \in Team : total[t] = SumFunctionOnSet(m[t], games)
  <2> SUFFICES ASSUME NEW t \in Team
               PROVE  total[t] = SumFunctionOnSet(m[t], games)
    OBVIOUS
  <2>1. total[t] = SumFunctionOnSet([i \in games |-> Weight(rows[i]) * q[t][i]], games)
    BY DEF Total
  <2>2. m[t] = [i \in games |-> Weight(rows[i]) * q[t][i]]
    OBVIOUS
  <2>3. QED
    BY <2>1, <2>2
<1>4. \A i \in games : SumFunctionOnSet(col(i), Team) = Weight(rows[i]) * sides[i]
  <2> SUFFICES ASSUME NEW i \in games
               PROVE  SumFunctionOnSet(col(i), Team) = Weight(rows[i]) * sides[i]
    OBVIOUS
  <2> DEFINE r == rows[i]
             c == col(i)
             rest == (Team \ {r.home}) \ {r.away}
  <2>1. r \in Result /\ r.home \in Team /\ r.away \in Team /\ r.home # r.away
    BY ResultIs DEF RowsOK
  <2>2. \A t \in Team : c[t] = Weight(r) * q[t][i] /\ c[t] \in Int
    BY <1>2
  <2>3. \A t \in rest : c[t] = 0
    <3> SUFFICES ASSUME NEW t \in rest PROVE c[t] = 0
      OBVIOUS
    <3>1. q[t][i] = 0
      BY DEF Plays
    <3>2. Weight(r) \in Nat
      BY <2>1, WeightPositive
    <3> HIDE DEF c
    <3>3. QED
      BY <2>2, <3>1, <3>2
  <2>4. sides[i] = q[r.home][i] + q[r.away][i] /\ q[r.home][i] \in Int /\ q[r.away][i] \in Int
    BY <2>1
  <2> HIDE DEF c, r
  <2>5. SumFunctionOnSet(c, Team) = c[r.home] + SumFunctionOnSet(c, Team \ {r.home})
    <3>1. IsFiniteSet(Team) /\ r.home \in Team /\ \A t \in Team : c[t] \in Int
      BY <1>1, <2>1, <2>2
    <3>2. QED
      BY <3>1, SumOut
  <2>6. SumFunctionOnSet(c, Team \ {r.home}) = c[r.away] + SumFunctionOnSet(c, rest)
    <3>1. r.away \in Team \ {r.home} /\ IsFiniteSet(Team \ {r.home})
      BY <1>1, <2>1, FS_Subset
    <3>2. QED
      BY <2>2, <3>1, SumOut
  <2>7. SumFunctionOnSet(c, rest) = 0
    <3>1. IsFiniteSet(rest)
      BY <1>1, FS_Subset
    <3> HIDE DEF rest
    <3>2. QED
      BY <2>3, <3>1, SumZero
  <2>8. c[r.home] = Weight(r) * q[r.home][i] /\ c[r.away] = Weight(r) * q[r.away][i]
    BY <2>1, <2>2
  <2>9. Weight(r) \in Int
    BY <2>1, WeightPositive
  <2>10. \A w, x, y \in Int : w * x + (w * y + 0) = w * (x + y)
    OBVIOUS
  <2>11. SumFunctionOnSet(c, Team) = Weight(r) * sides[i]
    BY <2>4, <2>5, <2>6, <2>7, <2>8, <2>9, <2>10
  <2>12. QED
    BY <2>11 DEF c, r
<1>5. SumFunctionOnSet(total, Team)
        = SumFunctionOnSet([t \in Team |-> SumFunctionOnSet(m[t], games)], Team)
  <2> DEFINE inner == [t \in Team |-> SumFunctionOnSet(m[t], games)]
  <2>1. \A t \in Team : total[t] = inner[t]
    BY <1>3
  <2> HIDE DEF inner
  <2>2. SumFunctionOnSet(total, Team) = SumFunctionOnSet(inner, Team)
    BY <1>1, <2>1, SumSame
  <2>3. QED
    BY <2>2 DEF inner
<1>6. SumFunctionOnSet([t \in Team |-> SumFunctionOnSet(m[t], games)], Team)
        = SumFunctionOnSet([i \in games |-> SumFunctionOnSet(col(i), Team)], games)
  <2> HIDE DEF m, games
  <2>1. QED
    BY <1>1, <1>2, SumSwap
<1>7. [i \in games |-> SumFunctionOnSet(col(i), Team)] = [i \in games |-> Weight(rows[i]) * sides[i]]
  <2> HIDE DEF col
  <2>1. QED
    BY <1>4
<1>8. Total(sides) = SumFunctionOnSet([i \in games |-> Weight(rows[i]) * sides[i]], games)
  BY DEF Total
<1> HIDE DEF m, games, col
<1>9. QED
  BY <1>5, <1>6, <1>7, <1>8 DEF games

LEMMA TotalPlus ==
  ASSUME RowsOK, NEW f, NEW g, NEW h,
         \A i \in DOMAIN rows : f[i] \in Int /\ g[i] \in Int /\ h[i] = f[i] + g[i]
  PROVE  Total(h) = Total(f) + Total(g)
<1> DEFINE w(q) == [i \in DOMAIN rows |-> Weight(rows[i]) * q[i]]
<1>1. \A i \in DOMAIN rows : w(f)[i] \in Int /\ w(g)[i] \in Int /\ w(h)[i] = w(f)[i] + w(g)[i]
  <2> SUFFICES ASSUME NEW i \in DOMAIN rows
               PROVE  w(f)[i] \in Int /\ w(g)[i] \in Int /\ w(h)[i] = w(f)[i] + w(g)[i]
    OBVIOUS
  <2>1. /\ w(f)[i] = Weight(rows[i]) * f[i] /\ w(g)[i] = Weight(rows[i]) * g[i]
        /\ w(h)[i] = Weight(rows[i]) * h[i]
    OBVIOUS
  <2>2. Weight(rows[i]) \in Int
    BY WeightPositive DEF RowsOK
  <2>3. \A v, x, y \in Int : v * x \in Int /\ v * (x + y) = v * x + v * y
    OBVIOUS
  <2> HIDE DEF w
  <2>4. QED
    BY <2>1, <2>2, <2>3
<1>2. \A q : Total(q) = SumFunctionOnSet(w(q), DOMAIN rows)
  BY DEF Total
<1>3. IsFiniteSet(DOMAIN rows)
  BY RowsAre
<1> HIDE DEF w
<1>4. QED
  BY <1>1, <1>2, <1>3, SumPlus

LEMMA TotalTimes ==
  ASSUME RowsOK, NEW f, NEW h, NEW c \in Int,
         \A i \in DOMAIN rows : f[i] \in Int /\ h[i] = c * f[i]
  PROVE  Total(h) = c * Total(f)
<1> DEFINE w(q) == [i \in DOMAIN rows |-> Weight(rows[i]) * q[i]]
<1>1. \A i \in DOMAIN rows : w(f)[i] \in Int /\ w(h)[i] = c * w(f)[i]
  <2> SUFFICES ASSUME NEW i \in DOMAIN rows PROVE w(f)[i] \in Int /\ w(h)[i] = c * w(f)[i]
    OBVIOUS
  <2>1. w(f)[i] = Weight(rows[i]) * f[i] /\ w(h)[i] = Weight(rows[i]) * h[i]
    OBVIOUS
  <2>2. Weight(rows[i]) \in Int
    BY WeightPositive DEF RowsOK
  <2>3. \A v, x \in Int : v * x \in Int /\ v * (c * x) = c * (v * x)
    OBVIOUS
  <2> HIDE DEF w
  <2>4. QED
    BY <2>1, <2>2, <2>3
<1>2. \A q : Total(q) = SumFunctionOnSet(w(q), DOMAIN rows)
  BY DEF Total
<1>3. IsFiniteSet(DOMAIN rows)
  BY RowsAre
<1> HIDE DEF w
<1>4. QED
  BY <1>1, <1>2, <1>3, SumTimes

\* Two numbers per match that its two sides share: summed over the sides they come to
\* the sum of both, whichever side has which.
Shared(x, y, q, both, total) ==
  /\ \A i \in DOMAIN rows : x[i] \in Int /\ y[i] \in Int /\ both[i] = x[i] + y[i]
  /\ \A i \in DOMAIN rows, t \in Team :
       q[t][i] = IF ~Plays(rows[i], t) THEN 0 ELSE IF t = rows[i].home THEN x[i] ELSE y[i]
  /\ \A t \in Team : total[t] = Total(q[t])

LEMMA SharedBySides ==
  ASSUME RowsOK, NEW x, NEW y, NEW q, NEW both, NEW total, Shared(x, y, q, both, total)
  PROVE  SumFunctionOnSet(total, Team) = Total(both)
<1>1. \A i \in DOMAIN rows, t \in Team : q[t][i] \in Int /\ (~Plays(rows[i], t) => q[t][i] = 0)
  BY DEF Shared
<1>2. \A i \in DOMAIN rows : both[i] = q[rows[i].home][i] + q[rows[i].away][i]
  <2> SUFFICES ASSUME NEW i \in DOMAIN rows
               PROVE  both[i] = q[rows[i].home][i] + q[rows[i].away][i]
    OBVIOUS
  <2>1. rows[i].home \in Team /\ rows[i].away \in Team /\ rows[i].home # rows[i].away
    BY ResultIs DEF RowsOK
  <2>2. q[rows[i].home][i] = x[i] /\ q[rows[i].away][i] = y[i]
    BY <2>1 DEF Shared, Plays
  <2>3. QED
    BY <2>2 DEF Shared
<1>3. QED
  BY <1>1, <1>2, TotalOfSides DEF Shared

\* Goals are shared by the two sides of a match, and so are the rates of its two ends:
\* both come to the goals of the whole history, times its weight.
LEMMA LeagueAverage ==
  ASSUME RowsOK
  PROVE  /\ SumFunctionOnSet(Sums.scored, Team) = SumFunctionOnSet(Sums.toScore, Team)
         /\ SumFunctionOnSet(Sums.conceded, Team) = SumFunctionOnSet(Sums.toConcede, Team)
<1> DEFINE games == DOMAIN rows
           one == [i \in games |-> 1]
           first == [i \in games |-> rows[i].goals[1]]
           second == [i \in games |-> rows[i].goals[2]]
           weight == Total(one)
           home == Total(first)
           away == Total(second)
           scored == [t \in Team |-> Total([i \in games |-> Scored(rows[i], t)])]
           conceded == [t \in Team |-> Total([i \in games |-> Conceded(rows[i], t)])]
           base(x, y) == [t \in Team |-> Total([i \in games |-> Baseline(x, y, rows[i], t)])]
<1>1. /\ \A t \in Team : Sums.scored[t] = weight * scored[t]
      /\ \A t \in Team : Sums.conceded[t] = weight * conceded[t]
      /\ Sums.toScore = base(home, away) /\ Sums.toConcede = base(away, home)
  BY DEF Sums
<1>2. \A i \in games : first[i] \in Nat /\ second[i] \in Nat /\ one[i] = 1
  BY GoalsNat
<1>3. weight \in Nat /\ home \in Nat /\ away \in Nat
  <2> HIDE DEF one, first, second
  <2>1. QED
    BY <1>2, TotalNat
<1>4. \A t \in Team : scored[t] \in Nat /\ conceded[t] \in Nat
  <2> SUFFICES ASSUME NEW t \in Team PROVE scored[t] \in Nat /\ conceded[t] \in Nat
    OBVIOUS
  <2> DEFINE f == [i \in games |-> Scored(rows[i], t)]
             g == [i \in games |-> Conceded(rows[i], t)]
  <2>1. \A i \in games : f[i] \in Nat /\ g[i] \in Nat
    BY GoalsNat
  <2>2. scored[t] = Total(f) /\ conceded[t] = Total(g)
    OBVIOUS
  <2> HIDE DEF f, g, scored, conceded
  <2>3. QED
    BY <2>1, <2>2, TotalNat
<1>5. SumFunctionOnSet(scored, Team) = home + away
  <2> DEFINE q == [t \in Team |-> [i \in games |-> Scored(rows[i], t)]]
             both == [i \in games |-> first[i] + second[i]]
  <2>1. \A i \in games, t \in Team :
          q[t][i] = IF ~Plays(rows[i], t) THEN 0 ELSE IF t = rows[i].home THEN first[i] ELSE second[i]
    BY DEF Scored
  <2>2. \A i \in games : first[i] \in Int /\ second[i] \in Int /\ both[i] = first[i] + second[i]
    BY <1>2
  <2>3. \A t \in Team : scored[t] = Total(q[t])
    OBVIOUS
  <2> HIDE DEF q, both, first, second, scored
  <2>4. SumFunctionOnSet(scored, Team) = Total(both)
    <3>1. Shared(first, second, q, both, scored)
      BY <2>1, <2>2, <2>3 DEF Shared
    <3>2. QED
      BY <3>1, SharedBySides
  <2>5. Total(both) = home + away
    BY <2>2, TotalPlus
  <2>6. QED
    BY <2>4, <2>5
<1>6. SumFunctionOnSet(conceded, Team) = home + away
  <2> DEFINE q == [t \in Team |-> [i \in games |-> Conceded(rows[i], t)]]
             both == [i \in games |-> second[i] + first[i]]
  <2>1. \A i \in games, t \in Team :
          q[t][i] = IF ~Plays(rows[i], t) THEN 0 ELSE IF t = rows[i].home THEN second[i] ELSE first[i]
    BY DEF Conceded
  <2>2. \A i \in games : first[i] \in Int /\ second[i] \in Int /\ both[i] = second[i] + first[i]
    BY <1>2
  <2>3. \A t \in Team : conceded[t] = Total(q[t])
    OBVIOUS
  <2> HIDE DEF q, both, first, second, conceded
  <2>4. SumFunctionOnSet(conceded, Team) = Total(both)
    <3>1. Shared(second, first, q, both, conceded)
      BY <2>1, <2>2, <2>3 DEF Shared
    <3>2. QED
      BY <3>1, SharedBySides
  <2>5. Total(both) = away + home
    BY <2>2, TotalPlus
  <2> HIDE DEF home, away
  <2>6. QED
    BY <1>3, <2>4, <2>5
<1>7. ASSUME NEW x \in Nat, NEW y \in Nat
      PROVE  SumFunctionOnSet(base(x, y), Team) = (x + y) * weight
  <2> DEFINE q == [t \in Team |-> [i \in games |-> Baseline(x, y, rows[i], t)]]
             xs == [i \in games |-> x]
             ys == [i \in games |-> y]
             both == [i \in games |-> x + y]
  <2>1. \A i \in games, t \in Team :
          q[t][i] = IF ~Plays(rows[i], t) THEN 0 ELSE IF t = rows[i].home THEN xs[i] ELSE ys[i]
    BY DEF Baseline
  <2>2. \A i \in games : xs[i] \in Int /\ ys[i] \in Int /\ both[i] = xs[i] + ys[i]
    OBVIOUS
  <2>3. \A t \in Team : base(x, y)[t] = Total(q[t])
    OBVIOUS
  <2>4. x + y \in Int /\ \A i \in games : one[i] \in Int /\ both[i] = (x + y) * one[i]
    OBVIOUS
  <2> HIDE DEF q, both, xs, ys, one, base
  <2>5. SumFunctionOnSet(base(x, y), Team) = Total(both)
    <3>1. Shared(xs, ys, q, both, base(x, y))
      BY <2>1, <2>2, <2>3 DEF Shared
    <3>2. QED
      BY <3>1, SharedBySides
  <2>6. Total(both) = (x + y) * Total(one)
    BY <2>4, TotalTimes
  <2>7. QED
    BY <2>5, <2>6
<1> HIDE DEF weight, home, away, scored, conceded, base, games
<1>8. /\ SumFunctionOnSet(Sums.scored, Team) = weight * (home + away)
      /\ SumFunctionOnSet(Sums.conceded, Team) = weight * (home + away)
  <2>1. IsFiniteSet(Team) /\ weight \in Int
    BY <1>3, EngineAssumption
  <2>2. /\ SumFunctionOnSet(Sums.scored, Team) = weight * SumFunctionOnSet(scored, Team)
        /\ SumFunctionOnSet(Sums.conceded, Team) = weight * SumFunctionOnSet(conceded, Team)
    BY <1>1, <1>4, <2>1, SumTimes
  <2>3. QED
    BY <1>5, <1>6, <2>2
<1>9. /\ SumFunctionOnSet(Sums.toScore, Team) = (home + away) * weight
      /\ SumFunctionOnSet(Sums.toConcede, Team) = (away + home) * weight
  BY <1>1, <1>3, <1>7
<1>10. QED
  BY <1>3, <1>8, <1>9

-----------------------------------------------------------------------------
(* The score matrix                                                          *)

\* Nil is always possible.
LEMMA PmfNat ==
  ASSUME NEW half \in Nat, NEW goals \in Goals
  PROVE  Pmf(half, goals) \in Nat /\ (goals = 0 => Pmf(half, goals) > 0)
<1> DEFINE p == Power(half, goals)
           q == Power(2, MAX_GOALS - goals)
           f == Falling(goals)
<1>1. MAX_GOALS \in Nat /\ goals \in Nat /\ MAX_GOALS - goals \in Nat
  BY EngineAssumption DEF Goals
<1>2. p \in Nat /\ (goals = 0 => p = 1)
  BY <1>1, PowerNat, PowerNone
<1>3. q \in Nat \ {0}
  <2> DEFINE n == MAX_GOALS - goals
  <2>1. 2 \in Nat /\ 2 > 0 /\ n \in Nat
    BY <1>1
  <2> HIDE DEF n
  <2>2. Power(2, n) \in Nat /\ Power(2, n) > 0
    BY <2>1, PowerNat
  <2>3. QED
    BY <2>2 DEF n
<1>4. f \in Nat \ {0}
  <2> DEFINE id == [k \in Goals |-> k]
             S == (goals + 1)..MAX_GOALS
  <2>1. \A k \in S : id[k] \in Nat \ {0}
    BY <1>1 DEF Goals
  <2>2. IsFiniteSet(S)
    BY <1>1, FS_Interval
  <2>3. f = Product(id, S)
    BY DEF Falling
  <2> HIDE DEF id, S
  <2>4. QED
    BY <2>1, <2>2, <2>3, ProductNat
<1>5. Pmf(half, goals) = p * q * f
  BY DEF Pmf
<1> HIDE DEF p, q, f
<1>6. p * q \in Nat /\ (goals = 0 => p * q \in Nat \ {0})
  BY <1>2, <1>3
<1>7. \A m \in Nat, n \in Nat \ {0} : m * n \in Nat /\ (m > 0 => m * n > 0)
  OBVIOUS
<1>8. QED
  BY <1>4, <1>5, <1>6, <1>7

\* The mass of the whole matrix is positive, and it is that of the three results.
LEMMA MassOf ==
  ASSUME NEW home \in Nat, NEW away \in Nat
  PROVE  /\ \A cells \in SUBSET Cell : /\ Mass(home, away, cells) \in Nat
                                      /\ Mass(home, away, cells) <= Mass(home, away, Cell)
         /\ Mass(home, away, Cell) > 0
         /\ Mass(home, away, Cell) =
              Mass(home, away, HomeWins) + Mass(home, away, Draws) + Mass(home, away, AwayWins)
<1> DEFINE f == [c \in Cell |-> Pmf(home, c[1]) * Pmf(away, c[2])]
<1>1. IsFiniteSet(Cell)
  <2>1. IsFiniteSet(Goals)
    BY FS_Interval, EngineAssumption DEF Goals
  <2>2. QED
    BY <2>1, FS_Product DEF Cell
<1>2. \A c \in Cell : f[c] \in Nat /\ (c = <<0, 0>> => f[c] # 0)
  <2> SUFFICES ASSUME NEW c \in Cell PROVE f[c] \in Nat /\ (c = <<0, 0>> => f[c] # 0)
    OBVIOUS
  <2> DEFINE x == Pmf(home, c[1])
             y == Pmf(away, c[2])
  <2>1. c[1] \in Goals /\ c[2] \in Goals
    BY DEF Cell
  <2>2. x \in Nat /\ (c[1] = 0 => x > 0)
    BY <2>1, PmfNat
  <2>3. y \in Nat /\ (c[2] = 0 => y > 0)
    BY <2>1, PmfNat
  <2>4. f[c] = x * y
    OBVIOUS
  <2>5. c = <<0, 0>> => c[1] = 0 /\ c[2] = 0
    OBVIOUS
  <2>6. \A m, n \in Nat : m * n \in Nat /\ (m > 0 /\ n > 0 => m * n # 0)
    OBVIOUS
  <2> HIDE DEF f, x, y
  <2>7. QED
    BY <2>2, <2>3, <2>4, <2>5, <2>6
<1>3. \A cells : Mass(home, away, cells) = SumFunctionOnSet(f, cells)
  BY DEF Mass
<1>4. <<0, 0>> \in Cell
  BY EngineAssumption DEF Cell, Goals
<1> HIDE DEF f
<1>5. \A cells \in SUBSET Cell : IsFiniteSet(cells) /\ SumFunctionOnSet(f, cells) \in Nat
  BY <1>1, <1>2, FS_Subset, SumNat
<1>6. \A cells \in SUBSET Cell : SumFunctionOnSet(f, cells) <= SumFunctionOnSet(f, Cell)
  <2> SUFFICES ASSUME NEW cells \in SUBSET Cell
               PROVE  SumFunctionOnSet(f, cells) <= SumFunctionOnSet(f, Cell)
    OBVIOUS
  <2> DEFINE others == Cell \ cells
  <2>1. cells \cup others = Cell /\ cells \cap others = {} /\ others \in SUBSET Cell
    OBVIOUS
  <2> HIDE DEF others
  <2>2. SumFunctionOnSet(f, Cell) = SumFunctionOnSet(f, cells) + SumFunctionOnSet(f, others)
    BY <1>2, <1>5, <2>1, SumUnion
  <2>3. SumFunctionOnSet(f, cells) \in Nat /\ SumFunctionOnSet(f, others) \in Nat
    BY <1>5, <2>1
  <2>4. QED
    BY <2>2, <2>3
<1>7. SumFunctionOnSet(f, Cell) > 0
  <2>1. SumFunctionOnSet(f, Cell) # 0
    BY <1>1, <1>2, <1>4, SumZero
  <2>2. QED
    BY <1>5, <2>1
<1>8. /\ HomeWins \in SUBSET Cell /\ Draws \in SUBSET Cell /\ AwayWins \in SUBSET Cell
      /\ HomeWins \cap Draws = {} /\ (HomeWins \cup Draws) \cap AwayWins = {}
      /\ (HomeWins \cup Draws) \cup AwayWins = Cell
  <2>1. \A c \in Cell : c[1] \in Int /\ c[2] \in Int
    BY EngineAssumption DEF Cell, Goals
  <2>2. \A c \in Cell : /\ c[1] > c[2] \/ c[1] = c[2] \/ c[1] < c[2]
                        /\ ~(c[1] > c[2] /\ c[1] = c[2]) /\ ~(c[1] > c[2] /\ c[1] < c[2])
                        /\ ~(c[1] = c[2] /\ c[1] < c[2])
    BY <2>1
  <2>3. QED
    BY <2>2 DEF HomeWins, Draws, AwayWins
<1>9. SumFunctionOnSet(f, HomeWins \cup Draws) =
        SumFunctionOnSet(f, HomeWins) + SumFunctionOnSet(f, Draws)
  BY <1>2, <1>5, <1>8, SumUnion
<1>10. SumFunctionOnSet(f, (HomeWins \cup Draws) \cup AwayWins) =
         SumFunctionOnSet(f, HomeWins \cup Draws) + SumFunctionOnSet(f, AwayWins)
  <2>1. HomeWins \cup Draws \in SUBSET Cell
    BY <1>8
  <2>2. QED
    BY <1>2, <1>5, <1>8, <2>1, SumUnion
<1>11. SumFunctionOnSet(f, Cell) =
         SumFunctionOnSet(f, HomeWins) + SumFunctionOnSet(f, Draws) + SumFunctionOnSet(f, AwayWins)
  BY <1>8, <1>9, <1>10
<1>12. QED
  BY <1>3, <1>5, <1>6, <1>7, <1>11

\* Whatever the rates, the numbers of a row are probabilities and sum to one, within
\* what the CHECKs allow.
Shares == 0..10000
Acceptable(p) ==
  /\ SumsToOne(p.home, p.draw, p.away)
  /\ {p.home, p.draw, p.away, p.over, p.both} \subseteq Shares

LEMMA FiveIn ==
  ASSUME NEW R, NEW u \in R, NEW v \in R, NEW w \in R, NEW x \in R, NEW y \in R
  PROVE  {u, v, w, x, y} \subseteq R
OBVIOUS

LEMMA ProbabilitiesFit ==
  ASSUME NEW home \in Halves, NEW away \in Halves
  PROVE  Acceptable(score_probabilities[home][away])
<1> DEFINE mass(cells) == Mass(home, away, cells)
           share(cells) == Normalised(mass(cells), mass(HomeWins), mass(Draws), mass(AwayWins))
           p == score_probabilities[home][away]
<1>1. home \in Nat /\ away \in Nat
  BY DEF Halves
<1>2. p = [home |-> share(HomeWins), draw |-> share(Draws), away |-> share(AwayWins),
           over |-> share(Over), both |-> share(Both)]
  <2> HIDE DEF Halves
  <2>1. QED
    BY DEF score_probabilities
<1>3. /\ \A cells \in SUBSET Cell : mass(cells) \in Nat /\ mass(cells) <= mass(Cell)
      /\ mass(Cell) > 0
      /\ mass(Cell) = mass(HomeWins) + mass(Draws) + mass(AwayWins)
  BY <1>1, MassOf
<1>4. /\ HomeWins \in SUBSET Cell /\ Draws \in SUBSET Cell /\ AwayWins \in SUBSET Cell
      /\ Over \in SUBSET Cell /\ Both \in SUBSET Cell
  BY DEF HomeWins, Draws, AwayWins, Over, Both
<1> HIDE DEF mass, p
<1>5. ASSUME NEW cells \in SUBSET Cell PROVE share(cells) \in Shares
  <2>1. /\ mass(cells) \in Nat /\ mass(HomeWins) \in Nat /\ mass(Draws) \in Nat
        /\ mass(AwayWins) \in Nat /\ mass(HomeWins) + mass(Draws) + mass(AwayWins) > 0
        /\ mass(cells) <= mass(HomeWins) + mass(Draws) + mass(AwayWins)
    BY <1>3, <1>4
  <2> DEFINE n == share(cells)
  <2>2. n \in Int /\ 0 <= n /\ n <= 10000
    BY <2>1, ShareInRange
  <2> HIDE DEF n
  <2>3. n \in Shares
    BY <2>2 DEF Shares
  <2>4. QED
    BY <2>3 DEF n
<1>6. SumsToOne(share(HomeWins), share(Draws), share(AwayWins))
  <2>1. /\ mass(HomeWins) \in Nat /\ mass(Draws) \in Nat /\ mass(AwayWins) \in Nat
        /\ mass(HomeWins) + mass(Draws) + mass(AwayWins) > 0
    BY <1>3, <1>4
  <2>2. QED
    BY <2>1, RoundingFits
<1> HIDE DEF share
<1>7. /\ p.home = share(HomeWins) /\ p.draw = share(Draws) /\ p.away = share(AwayWins)
      /\ p.over = share(Over) /\ p.both = share(Both)
  BY <1>2
<1>8. p.home \in Shares /\ p.draw \in Shares /\ p.away \in Shares /\ p.over \in Shares /\ p.both \in Shares
  BY <1>4, <1>5, <1>7
<1>9. SumsToOne(p.home, p.draw, p.away)
  BY <1>6, <1>7
<1>10. {p.home, p.draw, p.away, p.over, p.both} \subseteq Shares
  BY <1>8, FiveIn
<1>11. QED
  BY <1>9, <1>10 DEF Acceptable, p

-----------------------------------------------------------------------------
(* A prediction                                                              *)

\* A rate is zero only where the rate of the league at that end is.
LEMMA RateIs ==
  ASSUME NEW league \in Nat, NEW attack \in Fraction, NEW defence \in Fraction,
         strengths.weight \in Nat \ {0}
  PROVE  /\ Rate(league, attack, defence) \in Nat \X (Nat \ {0})
         /\ Rate(league, attack, defence)[1] = 0 <=> league = 0
<1> DEFINE n == league * attack[1] * defence[1]
           d == strengths.weight * attack[2] * defence[2]
<1>1. /\ attack[1] \in Nat \ {0} /\ attack[2] \in Nat \ {0}
      /\ defence[1] \in Nat \ {0} /\ defence[2] \in Nat \ {0}
  BY DEF Fraction
<1>2. \A x \in Nat, y \in Nat \ {0} : x * y \in Nat /\ (x * y = 0 <=> x = 0)
  OBVIOUS
<1>3. n \in Nat /\ (n = 0 <=> league = 0)
  <2> DEFINE m == league * attack[1]
  <2>1. m \in Nat /\ (m = 0 <=> league = 0)
    BY <1>1, <1>2
  <2>2. n = m * defence[1]
    OBVIOUS
  <2> HIDE DEF m, n
  <2>3. QED
    BY <1>1, <1>2, <2>1, <2>2
<1>4. d \in Nat \ {0}
  <2> DEFINE m == strengths.weight * attack[2]
  <2>1. m \in Nat \ {0}
    BY <1>1, <1>2
  <2>2. d = m * defence[2]
    OBVIOUS
  <2> HIDE DEF m, d
  <2>3. QED
    BY <1>1, <1>2, <2>1, <2>2
<1>5. Rate(league, attack, defence) = <<n, d>>
  BY DEF Rate
<1> HIDE DEF n, d
<1>6. QED
  BY <1>3, <1>4, <1>5

\* Every rate falls into one of the half goals the matrix is computed for.
LEMMA HalfGoalsIs ==
  ASSUME NEW rate \in Nat \X (Nat \ {0})
  PROVE  HalfGoals(rate) \in Halves
<1> DEFINE x == 2 * rate[1] + rate[2] - 1
           q == x \div rate[2]
<1>1. rate[1] \in Nat /\ rate[2] \in Nat /\ rate[2] > 0
  OBVIOUS
<1>2. x \in Nat
  BY <1>1
<1>3. HalfGoals(rate) = Min({4, q})
  BY DEF HalfGoals
<1>4. q \in Nat
  <2> HIDE DEF x
  <2>1. q \in Int /\ rate[2] * q <= x /\ x < rate[2] * q + rate[2]
    BY <1>1, <1>2, Quotient
  <2>2. ASSUME q <= -1 PROVE FALSE
    <3> DEFINE p == rate[2] * q
    <3>1. p <= rate[2] * (-1) /\ x < p + rate[2]
      BY <1>1, <2>1, <2>2, ProductMonotone
    <3>2. p \in Int
      BY <1>1, <2>1
    <3> HIDE DEF p
    <3>3. QED
      BY <1>1, <1>2, <3>1, <3>2
  <2>3. QED
    BY <2>1, <2>2
<1> HIDE DEF q
<1>5. 4 \in Int /\ q \in Int
  BY <1>4
<1>6. Min({4, q}) \in {4, q} /\ Min({4, q}) <= 4
  BY <1>5, MinPair
<1>7. QED
  BY <1>3, <1>4, <1>6 DEF Halves

LEMMA PredictStep ==
  ASSUME IInv, NEW match_id, NEW home \in Team, NEW away \in Team,
         predict(match_id, home, away)
  PROVE  IInv'
<1> DEFINE rates == expected_goals(home, away)
           half(end) == HalfGoals(rates[end])
<1>1. /\ UNCHANGED <<rows, left, ratings, snapshots, paid, strengths>> /\ strengths # None
      /\ prediction' = [match_id |-> match_id,
                        elo |-> <<LiveRating(home), LiveRating(away)>>,
                        rates |-> rates,
                        probs |-> score_probabilities[half(1)][half(2)]]
  BY DEF predict
<1>2. RowsOK /\ EloOK /\ FitOK
  BY DEF IInv
<1>3. /\ strengths.home \in Nat /\ strengths.away \in Nat /\ strengths.weight \in Nat \ {0}
      /\ strengths.home = 0 <=> \A i \in DOMAIN rows : rows[i].goals[1] = 0
      /\ strengths.away = 0 <=> \A i \in DOMAIN rows : rows[i].goals[2] = 0
      /\ \A t \in Team : strengths.scored[t] \in Fraction /\ strengths.conceded[t] \in Fraction
  BY <1>1, <1>2 DEF FitOK
<1>4. /\ rates = <<rates[1], rates[2]>>
      /\ rates[1] = Rate(strengths.home, strengths.scored[home], strengths.conceded[away])
      /\ rates[2] = Rate(strengths.away, strengths.scored[away], strengths.conceded[home])
  BY DEF expected_goals
<1> HIDE DEF rates
<1>5. rates[1] \in Nat \X (Nat \ {0}) /\ (rates[1][1] = 0 <=> strengths.home = 0)
  <2> DEFINE league == strengths.home
             attack == strengths.scored[home]
             defence == strengths.conceded[away]
  <2>1. /\ league \in Nat /\ attack \in Fraction /\ defence \in Fraction
        /\ strengths.weight \in Nat \ {0}
    BY <1>3
  <2>2. rates[1] = Rate(league, attack, defence)
    BY <1>4
  <2> HIDE DEF league, attack, defence
  <2>3. QED
    BY <2>1, <2>2, RateIs DEF league
<1>6. rates[2] \in Nat \X (Nat \ {0}) /\ (rates[2][1] = 0 <=> strengths.away = 0)
  <2> DEFINE league == strengths.away
             attack == strengths.scored[away]
             defence == strengths.conceded[home]
  <2>1. /\ league \in Nat /\ attack \in Fraction /\ defence \in Fraction
        /\ strengths.weight \in Nat \ {0}
    BY <1>3
  <2>2. rates[2] = Rate(league, attack, defence)
    BY <1>4
  <2> HIDE DEF league, attack, defence
  <2>3. QED
    BY <2>1, <2>2, RateIs DEF league
<1>7. prediction'.rates = rates /\ prediction'.rates \in Seq(Nat \X (Nat \ {0}))
  <2> DEFINE S == Nat \X (Nat \ {0})
             x == rates[1]
             y == rates[2]
  <2>1. rates = <<x, y>> /\ x \in S /\ y \in S
    BY <1>4, <1>5, <1>6
  <2> HIDE DEF S, x, y
  <2>2. rates \in Seq(S)
    BY <2>1
  <2>3. QED
    BY <1>1, <2>2 DEF S
<1>8. NilNeedsGoallessLeague'
  BY <1>1, <1>3, <1>5, <1>6, <1>7 DEF NilNeedsGoallessLeague
<1>9. RowAccepted'
  <2>1. half(1) \in Halves /\ half(2) \in Halves
    BY <1>5, <1>6, HalfGoalsIs
  <2> HIDE DEF half
  <2>2. Acceptable(score_probabilities[half(1)][half(2)])
    BY <2>1, ProbabilitiesFit
  <2>3. Acceptable(prediction'.probs)
    BY <1>1, <2>2
  <2>4. RowAccepted' <=> (prediction' # None => Acceptable(prediction'.probs))
    BY DEF RowAccepted, Acceptable, Shares, SumsToOne
  <2>5. QED
    BY <2>3, <2>4
<1>10. RowsOK'
  BY <1>1, <1>2, HistoryStays
<1>11. EloOK'
  BY <1>1, <1>2, EloStays
<1>12. FitOK'
  BY <1>1, <1>2 DEF FitOK
<1>13. PredictionOK'
  BY <1>1, <1>7, <1>8, <1>9 DEF PredictionOK
<1>14. QED
  BY <1>10, <1>11, <1>12, <1>13 DEF IInv

-----------------------------------------------------------------------------
(* The invariant holds                                                       *)

LEMMA ApplyStep ==
  ASSUME IInv, apply_match
  PROVE  IInv'
<1>1. RowsOK /\ EloOK
  BY DEF IInv
<1>2. left # {} /\ UNCHANGED <<rows, strengths, prediction>>
  BY DEF apply_match
<1>3. strengths = None /\ prediction = None
  BY <1>2 DEF IInv, FitOK, PredictionOK
<1>4. RowsOK'
  BY <1>1, <1>2, HistoryStays
<1>5. EloOK'
  BY <1>1, ApplyElo
<1>6. FitOK' /\ PredictionOK'
  BY <1>2, <1>3 DEF FitOK, PredictionOK, NilNeedsGoallessLeague, RowAccepted
<1>7. QED
  BY <1>4, <1>5, <1>6 DEF IInv

LEMMA FitKeeps ==
  ASSUME IInv, fit
  PROVE  IInv'
<1>1. RowsOK /\ EloOK
  BY DEF IInv
<1>2. strengths = None /\ UNCHANGED <<rows, left, ratings, snapshots, paid, prediction>>
  BY DEF fit
<1>3. prediction = None
  BY <1>2 DEF IInv, PredictionOK
<1>4. RowsOK'
  BY <1>1, <1>2, HistoryStays
<1>5. EloOK'
  BY <1>1, <1>2, EloStays
<1>6. FitOK'
  BY <1>1, FitStep
<1>7. PredictionOK'
  BY <1>2, <1>3 DEF PredictionOK, NilNeedsGoallessLeague, RowAccepted
<1>8. QED
  BY <1>4, <1>5, <1>6, <1>7 DEF IInv

LEMMA Idle ==
  ASSUME IInv, UNCHANGED vars
  PROVE  IInv'
<1>1. UNCHANGED <<rows, left, ratings, snapshots, paid, strengths, prediction>>
  BY DEF vars
<1>2. RowsOK /\ EloOK /\ FitOK /\ PredictionOK
  BY DEF IInv
<1>3. RowsOK' /\ EloOK'
  BY <1>1, <1>2, HistoryStays, EloStays
<1>4. FitOK'
  BY <1>1, <1>2 DEF FitOK
<1>5. NilNeedsGoallessLeague'
  BY <1>1, <1>2 DEF PredictionOK, NilNeedsGoallessLeague
<1>6. RowAccepted'
  <2>1. RowAccepted <=> (prediction # None => Acceptable(prediction.probs))
    BY DEF RowAccepted, Acceptable, Shares
  <2>2. RowAccepted' <=> (prediction' # None => Acceptable(prediction'.probs))
    BY DEF RowAccepted, Acceptable, Shares, SumsToOne
  <2>3. RowAccepted
    BY <1>2 DEF PredictionOK
  <2>4. QED
    BY <1>1, <2>1, <2>2, <2>3
<1>7. PredictionOK'
  BY <1>1, <1>2, <1>5, <1>6 DEF PredictionOK
<1>8. QED
  BY <1>3, <1>4, <1>7 DEF IInv

\* From the first match to the stored row the state is what the history makes of it
\* (elo.run, fit_team_strengths, process_job).
THEOREM EngineInvariant == Spec => []IInv
<1>1. IInv /\ [Next]_vars => IInv'
  <2> SUFFICES ASSUME IInv, [Next]_vars PROVE IInv'
    OBVIOUS
  <2>1. CASE apply_match
    BY <2>1, ApplyStep
  <2>2. CASE fit
    BY <2>2, FitKeeps
  <2>3. CASE \E home \in Team : \E away \in Team \ {home} : predict(None, home, away)
    BY <2>3, PredictStep
  <2>4. CASE \E i \in DOMAIN rows : predict(rows[i].id, rows[i].home, rows[i].away)
    <3>1. \A i \in DOMAIN rows : rows[i].home \in Team /\ rows[i].away \in Team
      BY ResultIs DEF IInv, RowsOK
    <3>2. QED
      BY <2>4, <3>1, PredictStep
  <2>5. CASE UNCHANGED vars
    BY <2>5, Idle
  <2>6. QED
    BY <2>1, <2>2, <2>3, <2>4, <2>5 DEF Next
<1>2. QED
  BY <1>1, InitInv, PTL DEF Spec

-----------------------------------------------------------------------------
(* Theorems                                                                  *)

\* The engine's state keeps its types; above all, no strength and no rate ever has a
\* denominator of zero (fit_team_strengths, expected_goals).
THEOREM TypeCorrect == Spec => []TypeOK
<1>1. IInv => TypeOK
  <2> SUFFICES ASSUME IInv PROVE TypeOK
    OBVIOUS
  <2>1. \A i \in DOMAIN rows : rows[i] \in Result
    BY DEF IInv, RowsOK
  <2>2. left \subseteq DOMAIN rows /\ ratings \in [Team -> Int \cup {None}] /\ paid \in Int
    BY DEF IInv, EloOK, RatingMap
  <2>3. \A id \in DOMAIN snapshots : snapshots[id] # None => snapshots[id] \in Int \X Int
    BY DEF IInv, EloOK
  <2>4. strengths # None => /\ strengths.home \in Nat /\ strengths.away \in Nat
                            /\ \A t \in Team : strengths.scored[t] \in Nat \X (Nat \ {0})
    BY DEF IInv, FitOK, Fraction
  <2>5. prediction # None => prediction.rates \in Seq(Nat \X (Nat \ {0}))
    BY DEF IInv, PredictionOK
  <2>6. QED
    BY <2>1, <2>2, <2>3, <2>4, <2>5 DEF TypeOK
<1>2. QED
  BY <1>1, EngineInvariant, PTL

\* elo.run: whatever order the rows come in, a match is rated with what all the matches
\* before it, and no others, make of the ratings.
THEOREM RatedWalkingForward == Spec => []WalkForward
<1>1. IInv => WalkForward
  <2> SUFFICES ASSUME IInv, NEW i \in DOMAIN rows \ left
               PROVE  LET r == rows[i]
                          past == {s \in {rows[j] : j \in DOMAIN rows} : Stamp(s) < Stamp(r)}
                          map == Seeded(RatingsAfter[past], r)
                      IN snapshots[r.id] = <<map[r.home], map[r.away]>>
    BY DEF WalkForward
  <2> DEFINE r == rows[i]
             past == Before(r, History)
  <2>1. snapshots[r.id] = Kickoff(r, past)
    BY DEF IInv, EloOK, Done
  <2>2. past = {s \in {rows[j] : j \in DOMAIN rows} : Stamp(s) < Stamp(r)}
    BY DEF Before, History
  <2>3. RatingsAfter[past] = Replayed(past)
    <3>1. past \in SUBSET History
      BY DEF Before
    <3> HIDE DEF past
    <3>2. QED
      BY <3>1, RatingsAfterIs DEF IInv
  <2> HIDE DEF r, past
  <2>4. Kickoff(r, past) = <<Seeded(RatingsAfter[past], r)[r.home],
                             Seeded(RatingsAfter[past], r)[r.away]>>
    BY <2>3 DEF Kickoff
  <2>5. QED
    BY <2>1, <2>2, <2>4 DEF r
<1>2. QED
  BY <1>1, EngineInvariant, PTL

\* elo.apply_match: a match moves points between its two sides and makes none, so that a
\* league of any size holds exactly the points its newcomers were seeded with.
THEOREM ZeroSumReplay == Spec => []PointsConserved
<1>1. IInv => PointsConserved
  BY DEF IInv, EloOK
<1>2. QED
  BY <1>1, EngineInvariant, PTL

\* elo.apply_match: both sides are seeded from one average, so that two newcomers start
\* level whatever was replayed before and whichever of them is at home.
THEOREM NewcomersSeededAlike == Spec => []NewcomersStartLevel
<1>1. IInv => NewcomersStartLevel
  <2> SUFFICES ASSUME IInv, NEW i \in DOMAIN rows \ left,
                      \A j \in DOMAIN rows : Stamp(rows[j]) < Stamp(rows[i]) =>
                        {rows[j].home, rows[j].away} \cap {rows[i].home, rows[i].away} = {}
               PROVE  snapshots[rows[i].id][1] = snapshots[rows[i].id][2]
    BY DEF NewcomersStartLevel
  <2> DEFINE r == rows[i]
             past == Before(r, History)
  <2>1. snapshots[r.id] = Kickoff(r, past)
    BY DEF IInv, EloOK, Done
  <2>2. r \in Result /\ r.home \in Team /\ r.away \in Team
    BY ResultIs DEF IInv, RowsOK
  <2>3. IsFiniteSet(past) /\ past \subseteq Result
    BY RowsAre, FS_Subset DEF IInv, Before
  <2>4. \A s \in past : r.home \notin {s.home, s.away} /\ r.away \notin {s.home, s.away}
    BY DEF Before, History
  <2> HIDE DEF r, past
  <2>5. Replayed(past)[r.home] = None /\ Replayed(past)[r.away] = None
    BY <2>2, <2>3, <2>4, UnratedBefore
  <2>6. Kickoff(r, past) = <<seed_rating(Replayed(past)), seed_rating(Replayed(past))>>
    BY <2>2, <2>5 DEF Kickoff, Seeded, Newcomers
  <2>7. QED
    BY <2>1, <2>6 DEF r
<1>2. QED
  BY <1>1, EngineInvariant, PTL

\* poisson.fit_team_strengths: measured against the baselines, an average side is 1.0,
\* whatever the history and its weights.
THEOREM AverageIsOne == Spec => []LeagueAverageIsOne
<1>1. IInv => LeagueAverageIsOne
  BY LeagueAverage DEF IInv, LeagueAverageIsOne
<1>2. QED
  BY <1>1, EngineInvariant, PTL

\* poisson.expected_goals: no side's own record brings its rate to zero.
THEOREM NilOnlyIfGoalless == Spec => []NilNeedsGoallessLeague
<1>1. IInv => NilNeedsGoallessLeague
  BY DEF IInv, PredictionOK
<1>2. QED
  BY <1>1, EngineInvariant, PTL

\* store_prediction: no row the engine makes is refused by a CHECK of 08_prediction.sql.
THEOREM RowsAccepted == Spec => []RowAccepted
<1>1. IInv => RowAccepted
  BY DEF IInv, PredictionOK
<1>2. QED
  BY <1>1, EngineInvariant, PTL
=============================================================================
