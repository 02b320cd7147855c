---------------------------- MODULE PayoutProofs ----------------------------
(***************************************************************************)
(* What the proofs of Sessions, Leases and Metering need of money. First,  *)
(* what a sum over a finite set is, of any function: induction over the    *)
(* parts of the set is an argument about a least counterexample. Then what *)
(* a division by shares comes to.                                          *)
(***************************************************************************)
EXTENDS Payout, Sequences, FiniteSets, FiniteSetTheorems, WellFoundedInduction, TLAPS

Some(s) == CHOOSE x \in s : TRUE

\* g gives, for every part s of S, the sum of f over s.
Sums(f, S, g) ==
  g = [s \in SUBSET S |-> IF s = {} THEN 0 ELSE f[Some(s)] + g[s \ {Some(s)}]]

LEMMA SumUnfold ==
  ASSUME NEW f, NEW S
  PROVE  SumFunctionOnSet(f, S) = (CHOOSE g : Sums(f, S, g))[S]
BY DEF SumFunctionOnSet, FoldFunctionOnSet, MapThenFoldSet, Sums, Some

\* Induction over the parts of a finite set: what fails for one of them fails for
\* a least one.
LEMMA LeastPart ==
  ASSUME NEW S, IsFiniteSet(S), NEW bad \in SUBSET SUBSET S, bad # {}
  PROVE  \E T \in bad : \A U \in SUBSET T : U \in bad => U = T
<1>1. bad \subseteq FiniteSubsetsOf(S)
  BY FS_Subset DEF FiniteSubsetsOf
<1>2. PICK T \in bad : \A U \in bad : <<U, T>> \notin StrictSubsetOrdering(S)
  BY <1>1, FS_StrictSubsetOrderingWellFounded, WFMin
<1>3. ASSUME NEW U \in SUBSET T, U \in bad PROVE U = T
  BY <1>2, <1>3 DEF StrictSubsetOrdering
<1> QED BY <1>3

-----------------------------------------------------------------------------
(* There are sums, and they agree.                                         *)

LEMMA SumsAgree ==
  ASSUME NEW f, NEW S, NEW T, NEW g, NEW h, Sums(f, S, g), Sums(f, T, h),
         NEW U \in SUBSET S, U \in SUBSET T, IsFiniteSet(U)
  PROVE  g[U] = h[U]
<1> DEFINE bad == {V \in SUBSET U : g[V] # h[V]}
<1>1. SUFFICES ASSUME bad # {} PROVE FALSE
  OBVIOUS
<1>2. PICK V \in bad : \A W \in SUBSET V : W \in bad => W = V
  <2> HIDE DEF bad
  <2>1. bad \in SUBSET SUBSET U
    BY DEF bad
  <2> QED BY <1>1, <2>1, LeastPart
<1>3. /\ g[V] = IF V = {} THEN 0 ELSE f[Some(V)] + g[V \ {Some(V)}]
      /\ h[V] = IF V = {} THEN 0 ELSE f[Some(V)] + h[V \ {Some(V)}]
  BY DEF Sums
<1>4. V # {} /\ Some(V) \in V
  BY <1>3 DEF Some
<1>5. V \ {Some(V)} \in SUBSET V /\ V \ {Some(V)} # V
  BY <1>4
<1>6. g[V \ {Some(V)}] = h[V \ {Some(V)}]
  BY <1>2, <1>5
<1> QED BY <1>3, <1>4, <1>6

LEMMA SumsExist ==
  ASSUME NEW f, NEW S, IsFiniteSet(S)
  PROVE  \E g : Sums(f, S, g)
<1> DEFINE bad == {T \in SUBSET S : ~ \E g : Sums(f, T, g)}
<1>1. SUFFICES ASSUME bad # {} PROVE FALSE
  OBVIOUS
<1>2. PICK T \in bad : \A U \in SUBSET T : U \in bad => U = T
  <2> HIDE DEF bad
  <2>1. bad \in SUBSET SUBSET S
    BY DEF bad
  <2> QED BY <1>1, <2>1, LeastPart
<1> DEFINE of(U) == CHOOSE g : Sums(f, U, g)
           total(s) == IF s = {} THEN 0
                       ELSE f[Some(s)] + of(s \ {Some(s)})[s \ {Some(s)}]
           G == [s \in SUBSET T |-> total(s)]
<1>3. \A U \in SUBSET T : U # T => Sums(f, U, of(U))
  BY <1>2
<1>4. ASSUME NEW s \in SUBSET T, s # {}
      PROVE  G[s \ {Some(s)}] = of(s \ {Some(s)})[s \ {Some(s)}]
  <2> DEFINE u == s \ {Some(s)}
  <2>1. Some(s) \in s
    BY <1>4 DEF Some
  <2>2. u \in SUBSET T /\ u # T /\ IsFiniteSet(u)
    BY <2>1, FS_Subset
  <2>3. Sums(f, u, of(u)) /\ G[u] = total(u)
    BY <1>3, <2>2
  <2>4. CASE u = {}
    <3> HIDE DEF of, u
    <3>1. of(u)[u] = 0
      BY <2>3, <2>4 DEF Sums
    <3> QED BY <2>3, <2>4, <3>1 DEF u
  <2>5. CASE u # {}
    <3> DEFINE v == u \ {Some(u)}
    <3>1. Some(u) \in u
      BY <2>5 DEF Some
    <3>2. v \in SUBSET T /\ v # T /\ v \in SUBSET u /\ IsFiniteSet(v)
      BY <2>2, <3>1, FS_Subset
    <3>3. Sums(f, v, of(v))
      BY <1>3, <3>2
    <3> HIDE DEF of, v, u
    <3>4. of(u)[v] = of(v)[v]
      BY <2>3, <3>2, <3>3, SumsAgree
    <3>5. of(u)[u] = f[Some(u)] + of(u)[u \ {Some(u)}]
      BY <2>3, <2>5 DEF Sums
    <3>6. total(u) = f[Some(u)] + of(v)[v]
      BY <2>5 DEF v
    <3> QED BY <2>3, <3>4, <3>5, <3>6 DEF v, u
  <2> QED BY <2>4, <2>5
<1> HIDE DEF of
<1>5. G = [s \in SUBSET T |-> IF s = {} THEN 0 ELSE f[Some(s)] + G[s \ {Some(s)}]]
  BY <1>4
<1>6. Sums(f, T, G)
  BY <1>5 DEF Sums
<1> QED BY <1>2, <1>6

-----------------------------------------------------------------------------
(* What a sum is.                                                          *)

LEMMA SumIs ==
  ASSUME NEW f, NEW S, IsFiniteSet(S), NEW g, Sums(f, S, g)
  PROVE  \A T \in SUBSET S : SumFunctionOnSet(f, T) = g[T]
<1> SUFFICES ASSUME NEW T \in SUBSET S PROVE SumFunctionOnSet(f, T) = g[T]
  OBVIOUS
<1>1. IsFiniteSet(T)
  BY FS_Subset
<1>2. Sums(f, T, CHOOSE h : Sums(f, T, h))
  BY <1>1, SumsExist
<1>3. (CHOOSE h : Sums(f, T, h))[T] = g[T]
  BY <1>1, <1>2, SumsAgree
<1> QED BY <1>3, SumUnfold

LEMMA SumStep ==
  ASSUME NEW f, NEW S, IsFiniteSet(S)
  PROVE  SumFunctionOnSet(f, S) =
           IF S = {} THEN 0 ELSE f[Some(S)] + SumFunctionOnSet(f, S \ {Some(S)})
<1>1. PICK g : Sums(f, S, g)
  BY SumsExist
<1>2. SumFunctionOnSet(f, S) = g[S]
      /\ SumFunctionOnSet(f, S \ {Some(S)}) = g[S \ {Some(S)}]
  BY <1>1, SumIs
<1>3. g[S] = IF S = {} THEN 0 ELSE f[Some(S)] + g[S \ {Some(S)}]
  BY <1>1 DEF Sums
<1> QED BY <1>2, <1>3

LEMMA SumEmpty ==
  ASSUME NEW f
  PROVE  SumFunctionOnSet(f, {}) = 0
BY SumStep, FS_EmptySet

\* A sum of integers is an integer, in whatever order its terms are taken.
LEMMA SumRemove ==
  ASSUME NEW S, IsFiniteSet(S), NEW f, \A x \in S : f[x] \in Int
  PROVE  /\ SumFunctionOnSet(f, S) \in Int
         /\ \A x \in S :
              SumFunctionOnSet(f, S) = f[x] + SumFunctionOnSet(f, S \ {x})
<1> DEFINE Good(T) ==
             /\ SumFunctionOnSet(f, T) \in Int
             /\ \A x \in T :
                  SumFunctionOnSet(f, T) = f[x] + SumFunctionOnSet(f, T \ {x})
           bad == {T \in SUBSET S : ~Good(T)}
<1>1. SUFFICES ASSUME bad # {} PROVE FALSE
  OBVIOUS
<1>2. PICK T \in bad : \A U \in SUBSET T : U \in bad => U = T
  <2> HIDE DEF bad
  <2>1. bad \in SUBSET SUBSET S
    BY DEF bad
  <2> QED BY <1>1, <2>1, LeastPart
<1>3. \A U \in SUBSET T : U # T => Good(U)
  BY <1>2
<1> HIDE DEF Good
<1>4. IsFiniteSet(T) /\ T \in SUBSET S
  BY FS_Subset
<1>5. CASE T = {}
  <2>1. Good(T)
    BY <1>5, SumEmpty DEF Good
  <2> QED BY <2>1
<1>6. CASE T # {}
  <2> DEFINE y == Some(T)
  <2>1. y \in T
    BY <1>6 DEF Some
  <2>2. SumFunctionOnSet(f, T) = f[y] + SumFunctionOnSet(f, T \ {y})
    BY <1>4, <1>6, SumStep
  <2> HIDE DEF y
  <2>3. Good(T \ {y})
    BY <1>3, <2>1
  <2>4. SumFunctionOnSet(f, T) \in Int
    BY <1>4, <2>1, <2>2, <2>3 DEF Good
  <2>5. ASSUME NEW x \in T, x # y
        PROVE  SumFunctionOnSet(f, T) = f[x] + SumFunctionOnSet(f, T \ {x})
    <3> DEFINE u == (T \ {y}) \ {x}
    <3>1. /\ SumFunctionOnSet(f, T \ {y}) = f[x] + SumFunctionOnSet(f, u)
      BY <2>3, <2>5 DEF Good
    <3>2. y \in T \ {x} /\ Good(T \ {x}) /\ (T \ {x}) \ {y} = u
      BY <1>3, <2>1, <2>5
    <3>3. SumFunctionOnSet(f, T \ {x}) = f[y] + SumFunctionOnSet(f, u)
      BY <3>2 DEF Good
    <3>4. Good(u)
      BY <1>3, <2>1
    <3>5. f[x] \in Int /\ f[y] \in Int /\ SumFunctionOnSet(f, u) \in Int
      BY <1>4, <2>1, <2>5, <3>4 DEF Good
    <3> HIDE DEF u
    <3> QED BY <2>2, <3>1, <3>3, <3>5
  <2>6. Good(T)
    BY <2>2, <2>4, <2>5 DEF Good
  <2> QED BY <2>6
<1> QED BY <1>5, <1>6

LEMMA SumType ==
  ASSUME NEW S, IsFiniteSet(S), NEW f, \A x \in S : f[x] \in Int
  PROVE  SumFunctionOnSet(f, S) \in Int
BY SumRemove

-----------------------------------------------------------------------------
(* Comparing sums.                                                         *)

\* Functions that agree on a set have one sum there.
LEMMA SumSame ==
  ASSUME NEW S, IsFiniteSet(S), NEW f, NEW g, \A x \in S : f[x] = g[x]
  PROVE  SumFunctionOnSet(f, S) = SumFunctionOnSet(g, S)
<1> DEFINE bad == {T \in SUBSET S : SumFunctionOnSet(f, T) # SumFunctionOnSet(g, T)}
<1>1. SUFFICES ASSUME bad # {} PROVE FALSE
  OBVIOUS
<1>2. PICK T \in bad : \A U \in SUBSET T : U \in bad => U = T
  <2> HIDE DEF bad
  <2>1. bad \in SUBSET SUBSET S
    BY DEF bad
  <2> QED BY <1>1, <2>1, LeastPart
<1>3. IsFiniteSet(T)
  BY FS_Subset
<1>4. T # {}
  BY SumEmpty
<1>5. Some(T) \in T
  BY <1>4 DEF Some
<1>6. SumFunctionOnSet(f, T \ {Some(T)}) = SumFunctionOnSet(g, T \ {Some(T)})
  BY <1>2, <1>5
<1>7. f[Some(T)] = g[Some(T)]
  BY <1>5
<1> QED BY <1>3, <1>4, <1>6, <1>7, SumStep

\* One term changes.
LEMMA SumChange ==
  ASSUME NEW S, IsFiniteSet(S), NEW f, NEW g,
         \A x \in S : f[x] \in Int /\ g[x] \in Int,
         NEW x \in S, \A y \in S \ {x} : f[y] = g[y]
  PROVE  SumFunctionOnSet(g, S) = SumFunctionOnSet(f, S) - f[x] + g[x]
<1>1. IsFiniteSet(S \ {x})
  BY FS_Subset
<1>2. SumFunctionOnSet(f, S \ {x}) = SumFunctionOnSet(g, S \ {x})
  BY <1>1, SumSame
<1>3. /\ SumFunctionOnSet(f, S) = f[x] + SumFunctionOnSet(f, S \ {x})
      /\ SumFunctionOnSet(g, S) = g[x] + SumFunctionOnSet(g, S \ {x})
  BY SumRemove
<1>4. f[x] \in Int /\ g[x] \in Int /\ SumFunctionOnSet(f, S \ {x}) \in Int
  BY <1>1, SumType
<1> QED BY <1>2, <1>3, <1>4

\* One term is added.
LEMMA SumInsert ==
  ASSUME NEW S, IsFiniteSet(S), NEW f, NEW x, x \notin S,
         \A y \in S \cup {x} : f[y] \in Int
  PROVE  SumFunctionOnSet(f, S \cup {x}) = f[x] + SumFunctionOnSet(f, S)
<1>1. IsFiniteSet(S \cup {x}) /\ (S \cup {x}) \ {x} = S
  BY FS_AddElement
<1>2. SumFunctionOnSet(f, S \cup {x}) = f[x] + SumFunctionOnSet(f, (S \cup {x}) \ {x})
  BY <1>1, SumRemove
<1> QED BY <1>1, <1>2

\* A sum over a part is the sum over the whole of what is zero outside the part.
LEMMA SumPart ==
  ASSUME NEW S, IsFiniteSet(S), NEW T \in SUBSET S, NEW f, NEW g,
         \A x \in S : g[x] \in Int,
         \A x \in T : f[x] = g[x],
         \A x \in S \ T : g[x] = 0
  PROVE  SumFunctionOnSet(f, T) = SumFunctionOnSet(g, S)
<1> DEFINE bad == {U \in SUBSET S :
                     SumFunctionOnSet(g, U \cap T) # SumFunctionOnSet(g, U)}
<1>1. ASSUME bad # {} PROVE FALSE
  <2>1. PICK U \in bad : \A W \in SUBSET U : W \in bad => W = U
    <3> HIDE DEF bad
    <3>1. bad \in SUBSET SUBSET S
      BY DEF bad
    <3> QED BY <1>1, <3>1, LeastPart
  <2>2. IsFiniteSet(U) /\ IsFiniteSet(U \cap T)
    BY FS_Subset
  <2>3. U # {}
    <3>1. U \cap T # U
      OBVIOUS
    <3> QED BY <3>1
  <2>4. PICK x \in U : TRUE
    BY <2>3
  <2> DEFINE W == U \ {x}
  <2>5. SumFunctionOnSet(g, W \cap T) = SumFunctionOnSet(g, W)
    BY <2>1
  <2>6. SumFunctionOnSet(g, U) = g[x] + SumFunctionOnSet(g, W)
    BY <2>2, SumRemove
  <2>7. SumFunctionOnSet(g, W) \in Int
    <3>1. IsFiniteSet(W)
      BY <2>2, FS_Subset
    <3> QED BY <3>1, SumType
  <2>8. CASE x \in T
    <3>1. x \in U \cap T /\ (U \cap T) \ {x} = W \cap T
      BY <2>8
    <3>2. SumFunctionOnSet(g, U \cap T) = g[x] + SumFunctionOnSet(g, (U \cap T) \ {x})
      BY <2>2, <3>1, SumRemove
    <3> QED BY <2>5, <2>6, <3>1, <3>2
  <2>9. CASE x \notin T
    <3>1. U \cap T = W \cap T /\ g[x] = 0
      BY <2>9
    <3> HIDE DEF W
    <3>2. SumFunctionOnSet(g, U) = SumFunctionOnSet(g, W)
      BY <2>6, <2>7, <3>1
    <3> QED BY <2>5, <3>1, <3>2
  <2> QED BY <2>8, <2>9
<1>2. SumFunctionOnSet(g, S \cap T) = SumFunctionOnSet(g, S)
  BY <1>1
<1>3. S \cap T = T /\ IsFiniteSet(T)
  BY FS_Subset
<1>4. SumFunctionOnSet(f, T) = SumFunctionOnSet(g, T)
  BY <1>3, SumSame
<1> QED BY <1>2, <1>3, <1>4

\* The sum of two sums.
LEMMA SumAdds ==
  ASSUME NEW S, IsFiniteSet(S), NEW f, NEW g, NEW h,
         \A x \in S : f[x] \in Int /\ g[x] \in Int /\ h[x] = f[x] + g[x]
  PROVE  SumFunctionOnSet(h, S) = SumFunctionOnSet(f, S) + SumFunctionOnSet(g, S)
<1> DEFINE bad == {T \in SUBSET S : SumFunctionOnSet(h, T) #
                       SumFunctionOnSet(f, T) + SumFunctionOnSet(g, T)}
<1>1. SUFFICES ASSUME bad # {} PROVE FALSE
  OBVIOUS
<1>2. PICK T \in bad : \A U \in SUBSET T : U \in bad => U = T
  <2> HIDE DEF bad
  <2>1. bad \in SUBSET SUBSET S
    BY DEF bad
  <2> QED BY <1>1, <2>1, LeastPart
<1>3. IsFiniteSet(T)
  BY FS_Subset
<1>4. T # {}
  <2>1. /\ SumFunctionOnSet(f, {}) = 0 /\ SumFunctionOnSet(g, {}) = 0
        /\ SumFunctionOnSet(h, {}) = 0
    BY SumEmpty
  <2>2. SumFunctionOnSet(h, {}) = SumFunctionOnSet(f, {}) + SumFunctionOnSet(g, {})
    BY <2>1
  <2> QED BY <2>2
<1>5. PICK x \in T : TRUE
  BY <1>4
<1> DEFINE U == T \ {x}
<1>6. SumFunctionOnSet(h, U) = SumFunctionOnSet(f, U) + SumFunctionOnSet(g, U)
  BY <1>2
<1>7. IsFiniteSet(U)
  BY <1>3, FS_Subset
<1>8. SumFunctionOnSet(f, U) \in Int /\ SumFunctionOnSet(g, U) \in Int
  BY <1>7, SumType
<1>9. /\ SumFunctionOnSet(f, T) = f[x] + SumFunctionOnSet(f, U)
      /\ SumFunctionOnSet(g, T) = g[x] + SumFunctionOnSet(g, U)
      /\ SumFunctionOnSet(h, T) = h[x] + SumFunctionOnSet(h, U)
  BY <1>3, SumRemove
<1>10. f[x] \in Int /\ g[x] \in Int /\ h[x] = f[x] + g[x]
  OBVIOUS
<1> HIDE DEF U
<1>11. SumFunctionOnSet(h, T) = SumFunctionOnSet(f, T) + SumFunctionOnSet(g, T)
  BY <1>6, <1>8, <1>9, <1>10
<1> QED BY <1>11

\* Terms that are no smaller make no smaller a sum.
LEMMA SumMonotone ==
  ASSUME NEW S, IsFiniteSet(S), NEW f, NEW g,
         \A x \in S : f[x] \in Int /\ g[x] \in Int /\ f[x] <= g[x]
  PROVE  SumFunctionOnSet(f, S) <= SumFunctionOnSet(g, S)
<1> DEFINE bad == {T \in SUBSET S : ~(SumFunctionOnSet(f, T) <= SumFunctionOnSet(g, T))}
<1>1. SUFFICES ASSUME bad # {} PROVE FALSE
  OBVIOUS
<1>2. PICK T \in bad : \A U \in SUBSET T : U \in bad => U = T
  <2> HIDE DEF bad
  <2>1. bad \in SUBSET SUBSET S
    BY DEF bad
  <2> QED BY <1>1, <2>1, LeastPart
<1>3. IsFiniteSet(T)
  BY FS_Subset
<1>4. T # {}
  BY SumEmpty
<1>5. PICK x \in T : TRUE
  BY <1>4
<1> DEFINE U == T \ {x}
<1>6. SumFunctionOnSet(f, U) <= SumFunctionOnSet(g, U)
  BY <1>2
<1>7. IsFiniteSet(U)
  BY <1>3, FS_Subset
<1>8. SumFunctionOnSet(f, U) \in Int /\ SumFunctionOnSet(g, U) \in Int
  BY <1>7, SumType
<1>9. /\ SumFunctionOnSet(f, T) = f[x] + SumFunctionOnSet(f, U)
      /\ SumFunctionOnSet(g, T) = g[x] + SumFunctionOnSet(g, U)
  BY <1>3, SumRemove
<1>10. f[x] \in Int /\ g[x] \in Int /\ f[x] <= g[x]
  OBVIOUS
<1> HIDE DEF U
<1>11. SumFunctionOnSet(f, T) <= SumFunctionOnSet(g, T)
  BY <1>6, <1>8, <1>9, <1>10
<1> QED BY <1>11

\* A sum of zeros.
LEMMA SumZero ==
  ASSUME NEW S, IsFiniteSet(S), NEW f, \A x \in S : f[x] = 0
  PROVE  SumFunctionOnSet(f, S) = 0
<1> DEFINE g == [x \in S |-> 0]
<1>1. SumFunctionOnSet(g, {}) = SumFunctionOnSet(f, S)
  BY SumPart
<1> QED BY <1>1, SumEmpty

\* A sum does not depend on how its terms are named.
LEMMA SumRenamed ==
  ASSUME NEW S, IsFiniteSet(S), NEW f, NEW g, NEW p,
         \A x \in S : f[x] \in Int /\ g[p[x]] = f[x],
         \A x, y \in S : p[x] = p[y] => x = y,
         NEW names, names = {p[x] : x \in S}
  PROVE  SumFunctionOnSet(g, names) = SumFunctionOnSet(f, S)
<1> DEFINE img(T) == {p[x] : x \in T}
           bad == {T \in SUBSET S : SumFunctionOnSet(g, img(T)) # SumFunctionOnSet(f, T)}
<1>1. SUFFICES ASSUME bad # {} PROVE FALSE
  OBVIOUS
<1>2. PICK T \in bad : \A U \in SUBSET T : U \in bad => U = T
  <2> HIDE DEF bad
  <2>1. bad \in SUBSET SUBSET S
    BY DEF bad
  <2> QED BY <1>1, <2>1, LeastPart
<1>3. T \in SUBSET S /\ SumFunctionOnSet(g, img(T)) # SumFunctionOnSet(f, T)
  OBVIOUS
<1>4. IsFiniteSet(T) /\ IsFiniteSet(img(T))
  <2>1. IsFiniteSet(T)
    BY <1>3, FS_Subset
  <2> DEFINE h == [x \in T |-> p[x]]
  <2>2. h \in Surjection(T, img(T))
    BY DEF Surjection
  <2> HIDE DEF h, img
  <2> QED BY <2>1, <2>2, FS_Surjection
<1>5. CASE T = {}
  <2>1. img(T) = {}
    BY <1>5
  <2> QED BY <1>3, <1>5, <2>1, SumEmpty
<1>6. CASE T # {}
  <2>1. PICK x \in T : TRUE
    BY <1>6
  <2> DEFINE U == T \ {x}
  <2>2. U \in SUBSET T /\ U # T
    BY <2>1
  <2>3. SumFunctionOnSet(g, img(U)) = SumFunctionOnSet(f, U)
    <3>1. U \notin bad
      BY <1>2, <2>2
    <3> QED BY <1>3, <2>2, <3>1
  <2>4. img(U) = img(T) \ {p[x]} /\ p[x] \in img(T)
    BY <1>3, <2>1
  <2>5. \A y \in img(T) : g[y] \in Int
    BY <1>3
  <2>6. SumFunctionOnSet(f, T) = f[x] + SumFunctionOnSet(f, U)
    BY <1>3, <1>4, <2>1, SumRemove
  <2>7. SumFunctionOnSet(g, img(T)) = g[p[x]] + SumFunctionOnSet(g, img(T) \ {p[x]})
    <3> HIDE DEF img
    <3> QED BY <1>4, <2>4, <2>5, SumRemove
  <2>8. g[p[x]] = f[x]
    BY <1>3, <2>1
  <2> QED BY <1>3, <2>3, <2>4, <2>6, <2>7, <2>8
<1> QED BY <1>5, <1>6

\* A sum of nonnegative terms is at least each of them.
LEMMA SumNat ==
  ASSUME NEW S, IsFiniteSet(S), NEW f, \A x \in S : f[x] \in Nat
  PROVE  /\ SumFunctionOnSet(f, S) \in Nat
         /\ \A x \in S : f[x] <= SumFunctionOnSet(f, S)
<1>1. \A T \in SUBSET S : SumFunctionOnSet(f, T) \in Nat
  <2> SUFFICES ASSUME NEW T \in SUBSET S PROVE SumFunctionOnSet(f, T) \in Nat
    OBVIOUS
  <2> DEFINE z == [x \in T |-> 0]
  <2>1. IsFiniteSet(T)
    BY FS_Subset
  <2>2. SumFunctionOnSet(z, T) <= SumFunctionOnSet(f, T)
    BY <2>1, SumMonotone
  <2>3. SumFunctionOnSet(z, T) = 0 /\ SumFunctionOnSet(f, T) \in Int
    BY <2>1, SumZero, SumType
  <2> QED BY <2>2, <2>3
<1>2. ASSUME NEW x \in S PROVE f[x] <= SumFunctionOnSet(f, S)
  <2>1. SumFunctionOnSet(f, S) = f[x] + SumFunctionOnSet(f, S \ {x})
    BY SumRemove
  <2>2. SumFunctionOnSet(f, S \ {x}) \in Nat /\ f[x] \in Nat
    BY <1>1
  <2> QED BY <2>1, <2>2
<1> QED BY <1>1, <1>2

\* A sum of consecutive differences is the difference of the ends.
LEMMA SumTelescopes ==
  ASSUME NEW n \in Nat, NEW f, NEW b,
         \A i \in 0..n : b[i] \in Int,
         \A i \in 1..n : f[i] = b[i] - b[i - 1]
  PROVE  SumFunctionOnSet(f, 1..n) = b[n] - b[0]
<1> DEFINE bad == {T \in SUBSET (1..n) :
                     \E i \in 0..n : T = 1..i /\ SumFunctionOnSet(f, T) # b[i] - b[0]}
<1>1. ASSUME bad # {} PROVE FALSE
  <2>1. PICK T \in bad : \A U \in SUBSET T : U \in bad => U = T
    <3> DEFINE S == 1..n
    <3>1. bad \in SUBSET SUBSET S
      OBVIOUS
    <3>2. IsFiniteSet(S)
      BY FS_Interval
    <3> HIDE DEF bad, S
    <3> QED BY <1>1, <3>1, <3>2, LeastPart
  <2>2. PICK i \in 0..n : T = 1..i /\ SumFunctionOnSet(f, T) # b[i] - b[0]
    OBVIOUS
  <2>3. i # 0
    <3>1. ASSUME i = 0 PROVE FALSE
      <4>1. T = {}
        BY <2>2, <3>1
      <4> QED BY <2>2, <3>1, <4>1, SumEmpty
    <3> QED BY <3>1
  <2> DEFINE U == 1..(i - 1)
  <2>4. U \in SUBSET T /\ U # T /\ T \ {i} = U /\ i \in T /\ i - 1 \in 0..n
    BY <2>2, <2>3
  <2>5. SumFunctionOnSet(f, U) = b[i - 1] - b[0]
    <3>1. ASSUME SumFunctionOnSet(f, U) # b[i - 1] - b[0] PROVE FALSE
      <4>1. U \in SUBSET (1..n)
        BY <2>4
      <4>2. \E j \in 0..n : U = 1..j /\ SumFunctionOnSet(f, U) # b[j] - b[0]
        BY <2>4, <3>1
      <4>3. U \in bad
        BY <4>1, <4>2
      <4> QED BY <2>1, <2>4, <4>3
    <3> QED BY <3>1
  <2>6. SumFunctionOnSet(f, T) = f[i] + SumFunctionOnSet(f, T \ {i})
    <3>1. IsFiniteSet(T)
      BY <2>2, FS_Interval
    <3>2. ASSUME NEW j \in T PROVE f[j] \in Int
      <4>1. j \in 1..n /\ j \in 0..n /\ j - 1 \in 0..n
        BY <2>2
      <4>2. f[j] = b[j] - b[j - 1] /\ b[j] \in Int /\ b[j - 1] \in Int
        BY <4>1
      <4> QED BY <4>2
    <3> HIDE DEF bad
    <3> QED BY <2>4, <3>1, <3>2, SumRemove
  <2>7. /\ f[i] = b[i] - b[i - 1] /\ b[i] \in Int /\ b[i - 1] \in Int /\ b[0] \in Int
    BY <2>3
  <2>8. SumFunctionOnSet(f, T) = b[i] - b[0]
    <3> DEFINE p == SumFunctionOnSet(f, T)
               q == SumFunctionOnSet(f, U)
               x == b[i]
               y == b[i - 1]
               z == b[0]
    <3>1. p = f[i] + q /\ q = y - z /\ f[i] = x - y /\ x \in Int /\ y \in Int /\ z \in Int
      BY <2>4, <2>5, <2>6, <2>7
    <3> HIDE DEF p, q, x, y, z
    <3>2. p = x - z
      BY <3>1
    <3> QED BY <3>2 DEF p, x, z
  <2> QED BY <2>2, <2>8
<1>2. n \in 0..n /\ 1..n \in SUBSET (1..n)
  OBVIOUS
<1> QED BY <1>1, <1>2

\* The terms may be given by a sequence.
LEMMA ElementOfSeq ==
  ASSUME NEW T, NEW sq, sq \in Seq(T), NEW i \in 1..Len(sq)
  PROVE  sq[i] \in T
OBVIOUS

-----------------------------------------------------------------------------
(* The division by shares.                                               *)

LEMMA DivisionByBps ==
  ASSUME NEW x \in Int, NEW y \in Int
  PROVE  /\ x \div Bps \in Int
         /\ (x * Bps) \div Bps = x
         /\ ((x + y) \div Bps - x \div Bps - 1) * Bps < y
         /\ y < ((x + y) \div Bps - x \div Bps + 1) * Bps
BY DEF Bps

\* The boundaries of an allocation are integers, from zero to the whole amount, and
\* each is past the one before by a share (splitByBps).
LEMMA Boundaries ==
  ASSUME NEW total \in Int, NEW shares, shares \in Seq(1..Bps), SumFunction(shares) = Bps
  PROVE  /\ Len(shares) \in Nat /\ DOMAIN shares = 1..Len(shares)
         /\ \A i \in 0..Len(shares) :
              /\ Boundary(total, shares, i) \in Int
              /\ SumFunctionOnSet(shares, 1..i) \in Int
         /\ \A i \in 1..Len(shares) :
              /\ shares[i] \in Int
              /\ SumFunctionOnSet(shares, 1..i) =
                   shares[i] + SumFunctionOnSet(shares, 1..(i - 1))
         /\ Boundary(total, shares, 0) = 0
         /\ Boundary(total, shares, Len(shares)) = total
<1> DEFINE n == Len(shares)
<1>1. n \in Nat /\ DOMAIN shares = 1..n
  OBVIOUS
<1>2. 1..Bps \subseteq Int
  OBVIOUS
<1>3. \A i \in 1..n : shares[i] \in Int
  <2> SUFFICES ASSUME NEW i \in 1..n PROVE shares[i] \in Int
    OBVIOUS
  <2>1. shares[i] \in 1..Bps
    BY ElementOfSeq
  <2> QED BY <1>2, <2>1
<1> HIDE DEF n
<1>4. ASSUME NEW i \in 0..n
      PROVE  /\ IsFiniteSet(1..i) /\ \A j \in 1..i : shares[j] \in Int
             /\ SumFunctionOnSet(shares, 1..i) \in Int
  <2> DEFINE S == 1..i
  <2>1. IsFiniteSet(S)
    BY <1>1, FS_Interval
  <2>2. \A j \in S : shares[j] \in Int
    BY <1>1, <1>3
  <2> HIDE DEF S
  <2>3. SumFunctionOnSet(shares, S) \in Int
    BY <2>1, <2>2, SumType
  <2> QED BY <2>1, <2>2, <2>3 DEF S
<1>5. ASSUME NEW i \in 0..n PROVE Boundary(total, shares, i) \in Int
  <2> DEFINE s == SumFunctionOnSet(shares, 1..i)
  <2>1. s \in Int
    BY <1>4
  <2> HIDE DEF s
  <2>2. total * s \in Int
    BY <2>1
  <2> QED BY <2>2, DivisionByBps DEF Boundary, s
<1>6. ASSUME NEW i \in 1..n
      PROVE  SumFunctionOnSet(shares, 1..i) =
               shares[i] + SumFunctionOnSet(shares, 1..(i - 1))
  <2> DEFINE S == 1..i
  <2>1. IsFiniteSet(S) /\ \A j \in S : shares[j] \in Int
    <3>1. i \in 0..n
      OBVIOUS
    <3> QED BY <1>4, <3>1
  <2>2. i \in S /\ S \ {i} = 1..(i - 1)
    BY <1>1
  <2> HIDE DEF S
  <2>3. SumFunctionOnSet(shares, S) = shares[i] + SumFunctionOnSet(shares, S \ {i})
    BY <2>1, <2>2, SumRemove
  <2> QED BY <2>2, <2>3 DEF S
<1>7. Boundary(total, shares, 0) = 0
  <2>1. 1..0 = {} /\ SumFunctionOnSet(shares, {}) = 0
    BY SumEmpty
  <2>2. total * SumFunctionOnSet(shares, 1..0) = 0
    BY <2>1
  <2> QED BY <2>2 DEF Boundary, Bps
<1>8. Boundary(total, shares, n) = total
  <2>1. SumFunctionOnSet(shares, 1..n) = Bps
    BY <1>1 DEF SumFunction
  <2> QED BY <2>1, DivisionByBps DEF Boundary
<1> QED BY <1>1, <1>3, <1>4, <1>5, <1>6, <1>7, <1>8 DEF n

\* Every part of an amount is an integer, and no part of a nonnegative amount is
\* negative (splitByBps); the shares need not come to the whole for that.
LEMMA PartsOfSplit ==
  ASSUME NEW total \in Int, NEW shares, shares \in Seq(1..Bps)
  PROVE  /\ DOMAIN splitByBps(total, shares) = DOMAIN shares
         /\ IsFiniteSet(DOMAIN shares)
         /\ \A i \in DOMAIN shares :
              /\ splitByBps(total, shares)[i] \in Int
              /\ total >= 0 => splitByBps(total, shares)[i] \in Nat
<1> DEFINE n == Len(shares)
<1>1. n \in Nat /\ DOMAIN shares = 1..n
  OBVIOUS
<1>2. \A i \in 1..n : shares[i] \in Nat
  <2> SUFFICES ASSUME NEW i \in 1..n PROVE shares[i] \in Nat
    OBVIOUS
  <2>1. shares[i] \in 1..Bps
    BY ElementOfSeq
  <2>2. 1..Bps \subseteq Nat
    OBVIOUS
  <2> QED BY <2>1, <2>2
<1> HIDE DEF n
<1>3. ASSUME NEW i \in 0..n
      PROVE  IsFiniteSet(1..i) /\ SumFunctionOnSet(shares, 1..i) \in Nat
  <2> DEFINE S == 1..i
  <2>1. IsFiniteSet(S)
    BY <1>1, FS_Interval
  <2>2. \A j \in S : shares[j] \in Nat
    BY <1>1, <1>2
  <2> HIDE DEF S
  <2>3. SumFunctionOnSet(shares, S) \in Nat
    BY <2>1, <2>2, SumNat
  <2> QED BY <2>1, <2>3 DEF S
<1>4. ASSUME NEW i \in 1..n
      PROVE  /\ Boundary(total, shares, i) - Boundary(total, shares, i - 1) \in Int
             /\ total >= 0 =>
                  Boundary(total, shares, i) - Boundary(total, shares, i - 1) \in Nat
  <2> DEFINE S == 1..i
             s == SumFunctionOnSet(shares, 1..(i - 1))
             t == SumFunctionOnSet(shares, 1..i)
  <2>0. i \in 0..n /\ i - 1 \in 0..n
    BY <1>1
  <2>1. s \in Nat /\ t \in Nat /\ shares[i] \in Nat /\ IsFiniteSet(S)
    BY <1>2, <1>3, <2>0
  <2>2. t = shares[i] + s
    <3>1. i \in S /\ S \ {i} = 1..(i - 1)
      BY <1>1
    <3>2. \A j \in S : shares[j] \in Int
      BY <1>1, <1>2
    <3> HIDE DEF S
    <3>3. SumFunctionOnSet(shares, S) = shares[i] + SumFunctionOnSet(shares, S \ {i})
      BY <2>1, <3>1, <3>2, SumRemove
    <3> QED BY <3>1, <3>3 DEF S
  <2> HIDE DEF s, t
  <2>3. total * s \in Int /\ total * t \in Int
    BY <2>1
  <2>4. total >= 0 => total * s <= total * t
    <3>1. \A p, q, r \in Nat : p * r <= p * (q + r)
      OBVIOUS
    <3> QED BY <2>1, <2>2, <3>1
  <2> DEFINE p == total * s
             q == total * t
  <2> HIDE DEF p, q
  <2>5. p \in Int /\ q \in Int /\ (total >= 0 => p <= q)
    BY <2>3, <2>4 DEF p, q
  <2>6. q \div Bps - p \div Bps \in Int /\ (total >= 0 => q \div Bps - p \div Bps \in Nat)
    BY <2>5 DEF Bps
  <2> QED BY <2>6 DEF Boundary, p, q, s, t
<1>5. IsFiniteSet(1..n)
  BY <1>1, FS_Interval
<1> QED BY <1>1, <1>4, <1>5 DEF splitByBps

\* Every split of an amount comes to the amount, and gives every share its due to
\* within one unit.
LEMMA SplitExact ==
  ASSUME NEW total \in Int, NEW shares, shares \in Seq(1..Bps), SumFunction(shares) = Bps
  PROVE  /\ SumFunction(splitByBps(total, shares)) = total
         /\ \A i \in DOMAIN shares :
              /\ (splitByBps(total, shares)[i] - 1) * Bps < total * shares[i]
              /\ total * shares[i] < (splitByBps(total, shares)[i] + 1) * Bps
<1> DEFINE n == Len(shares)
           f == splitByBps(total, shares)
           b == [i \in 0..n |-> Boundary(total, shares, i)]
<1>1. /\ n \in Nat /\ DOMAIN shares = 1..n
      /\ \A i \in 0..n : b[i] \in Int /\ SumFunctionOnSet(shares, 1..i) \in Int
      /\ \A i \in 1..n : /\ shares[i] \in Int
                         /\ SumFunctionOnSet(shares, 1..i) =
                              shares[i] + SumFunctionOnSet(shares, 1..(i - 1))
      /\ b[0] = 0 /\ b[n] = total
  BY Boundaries
<1>2. DOMAIN f = 1..n
  BY <1>1 DEF splitByBps
<1>3. ASSUME NEW i \in 1..n PROVE i - 1 \in 0..n /\ i \in 0..n
  BY <1>1
<1>4. \A i \in 1..n : f[i] = b[i] - b[i - 1]
  BY <1>1, <1>3 DEF splitByBps
<1>5. SumFunctionOnSet(f, 1..n) = b[n] - b[0]
  <2> HIDE DEF f, b, n
  <2> QED BY <1>1, <1>4, SumTelescopes
<1>6. SumFunction(f) = total
  <2> HIDE DEF f, b, n
  <2> QED BY <1>1, <1>2, <1>5 DEF SumFunction
<1>7. ASSUME NEW i \in 1..n
      PROVE  (f[i] - 1) * Bps < total * shares[i] /\ total * shares[i] < (f[i] + 1) * Bps
  <2> DEFINE s == SumFunctionOnSet(shares, 1..(i - 1))
             x == total * s
             y == total * shares[i]
  <2>1. s \in Int /\ shares[i] \in Int
    BY <1>1, <1>3
  <2>2. x \in Int /\ y \in Int
    <3> HIDE DEF s
    <3> QED BY <2>1
  <2>3. total * SumFunctionOnSet(shares, 1..i) = x + y
    <3>1. SumFunctionOnSet(shares, 1..i) = shares[i] + s
      BY <1>1
    <3>2. \A p, q, r \in Int : p * (q + r) = p * r + p * q
      OBVIOUS
    <3> HIDE DEF s
    <3> QED BY <2>1, <3>1, <3>2
  <2>4. f[i] = (x + y) \div Bps - x \div Bps
    BY <1>1, <1>3, <1>4, <2>3 DEF Boundary
  <2> HIDE DEF x, y, f, s
  <2>5. (f[i] - 1) * Bps < y /\ y < (f[i] + 1) * Bps
    BY <2>2, <2>4, DivisionByBps
  <2> QED BY <2>5 DEF y
<1> HIDE DEF f
<1> QED BY <1>1, <1>6, <1>7 DEF f
=============================================================================
