---------------------------- MODULE DataTheorems ----------------------------
(***************************************************************************)
(* What the modules' sums and lists compute for every input: induction     *)
(* over natural numbers and over finite sets, stated with sets instead of  *)
(* predicates so that it can be cited; sums over finite sets, their        *)
(* changes and bounds; ranks in a finite set of numbers; and lists of      *)
(* lists.                                                                  *)
(***************************************************************************)
EXTENDS Integers, Sequences, SequencesExt, FiniteSetsExt, FiniteSetTheorems,
        SequenceTheorems, WellFoundedInduction, TLAPS

-----------------------------------------------------------------------------
(* Induction.                                                              *)

\* Every non-empty set of naturals has a least element.
LEMMA LeastNatural ==
    ASSUME NEW S \in SUBSET Nat, S # {}
    PROVE  \E n \in S : \A m \in S : n <= m
<1> DEFINE R == {ss \in Nat \X Nat : ss[1] < ss[2]}
<1>1. IsWellFoundedOn(R, Nat)
  BY NatLessThanWellFounded DEF OpToRel
<1>2. PICK n \in S : \A m \in S : ~(<<m, n>> \in R)
  BY <1>1, WFMin
<1>3. ASSUME NEW m \in S  PROVE n <= m
  <2>1. <<m, n>> \notin R
    BY <1>2
  <2>2. ~(m < n)
    BY <2>1
  <2> QED
    BY <2>2
<1> QED
  BY <1>3

\* A set that holds zero and with every natural the next one holds them all.
LEMMA NaturalInduction ==
    ASSUME NEW S, 0 \in S, \A n \in Nat : n \in S => n + 1 \in S
    PROVE  Nat \subseteq S
<1> SUFFICES ASSUME ~(Nat \subseteq S)  PROVE FALSE
  OBVIOUS
<1>1. PICK n \in Nat \ S : \A m \in Nat \ S : n <= m
  BY LeastNatural
<1>2. n # 0 /\ n - 1 \in Nat /\ n - 1 \in S
  BY <1>1
<1> QED
  BY <1>1, <1>2

\* A collection of subsets of a finite set that holds each subset whose smaller
\* subsets it holds, holds them all.
LEMMA SubsetInduction ==
    ASSUME NEW S, IsFiniteSet(S), NEW Q,
           \A T \in SUBSET S : (\A U \in SUBSET T : U # T => U \in Q) => T \in Q
    PROVE  SUBSET S \subseteq Q
<1> SUFFICES ASSUME ~(SUBSET S \subseteq Q)  PROVE FALSE
  OBVIOUS
<1> DEFINE Sizes == {Cardinality(T) : T \in (SUBSET S) \ Q}
<1>1. \A T \in SUBSET S : IsFiniteSet(T) /\ Cardinality(T) \in Nat
  BY FS_Subset, FS_CardinalityType
<1>2. Sizes \in SUBSET Nat /\ Sizes # {}
  BY <1>1
<1>3. PICK n \in Sizes : \A m \in Sizes : n <= m
  BY <1>2, LeastNatural
<1>4. PICK T \in (SUBSET S) \ Q : n = Cardinality(T)
  BY <1>3
<1>5. ASSUME NEW U \in SUBSET T, U # T  PROVE U \in Q
  <2>1. Cardinality(U) <= Cardinality(T) /\ Cardinality(U) # Cardinality(T)
    BY <1>1, <1>5, FS_Subset
  <2>2. Cardinality(U) \in Nat /\ Cardinality(T) \in Nat /\ U \in SUBSET S
    BY <1>1
  <2>3. Cardinality(U) \notin Sizes
    BY <1>3, <1>4, <2>1, <2>2
  <2> QED
    BY <2>2, <2>3
<1> QED
  BY <1>4, <1>5

-----------------------------------------------------------------------------
(* Quotients.                                                              *)

\* Quotient and remainder.
LEMMA Division ==
    ASSUME NEW n \in Nat, NEW d \in Nat \ {0}
    PROVE  /\ n \div d \in Nat /\ n % d \in 0..(d - 1)
           /\ n = (n \div d) * d + (n % d)
OBVIOUS

LEMMA ProductsAreOrdered ==
    ASSUME NEW a \in Int, NEW b \in Int, NEW d \in Nat \ {0}
    PROVE  a * d < b * d <=> a < b
<1>1. ASSUME a < b  PROVE a * d < b * d
  <2>1. (b - a) * d > 0
    BY <1>1
  <2> QED
    BY <2>1
<1>2. ASSUME b < a  PROVE b * d < a * d
  <2>1. (a - b) * d > 0
    BY <1>2
  <2> QED
    BY <2>1
<1>3. a * d \in Int /\ b * d \in Int
  OBVIOUS
<1> QED
  BY <1>1, <1>2, <1>3

-----------------------------------------------------------------------------
(* Sums.  SumFunctionOnSet(f, S) removes one element after the other; the  *)
(* element it removes first is of no consequence.                          *)

First(T) == CHOOSE x \in T : TRUE

\* A function of the subsets of T that adds up f over each of them.
Adds(g, f, T) ==
    g = [U \in SUBSET T |-> IF U = {} THEN 0 ELSE f[First(U)] + g[U \ {First(U)}]]

LEMMA SumIsChosen ==
    ASSUME NEW f, NEW S
    PROVE  SumFunctionOnSet(f, S) = (CHOOSE g : Adds(g, f, S))[S]
BY DEF SumFunctionOnSet, FoldFunctionOnSet, MapThenFoldSet, Adds, First

\* Two such functions agree where their domains and their summands do.
LEMMA AddsAgree ==
    ASSUME NEW S, NEW T, NEW W, IsFiniteSet(W), W \subseteq S, W \subseteq T,
           NEW f, NEW h, \A x \in W : f[x] = h[x],
           NEW g, NEW k, Adds(g, f, S), Adds(k, h, T)
    PROVE  g[W] = k[W]
<1> DEFINE Q == {U \in SUBSET W : g[U] = k[U]}
<1>1. ASSUME NEW U \in SUBSET W, \A V \in SUBSET U : V # U => V \in Q
      PROVE  U \in Q
  <2>1. U \in SUBSET S /\ U \in SUBSET T
    OBVIOUS
  <2>2. g[U] = IF U = {} THEN 0 ELSE f[First(U)] + g[U \ {First(U)}]
    BY <2>1 DEF Adds
  <2>3. k[U] = IF U = {} THEN 0 ELSE h[First(U)] + k[U \ {First(U)}]
    BY <2>1 DEF Adds
  <2>4. CASE U = {}
    BY <2>2, <2>3, <2>4
  <2>5. CASE U # {}
    <3>1. First(U) \in U
      BY <2>5 DEF First
    <3>2. U \ {First(U)} \in Q /\ f[First(U)] = h[First(U)]
      BY <1>1, <3>1
    <3> QED
      BY <2>2, <2>3, <2>5, <3>2
  <2> QED
    BY <2>4, <2>5
<1>2. SUBSET W \subseteq Q
  <2> HIDE DEF Q
  <2> QED
    BY <1>1, SubsetInduction
<1> QED
  BY <1>2

\* The sum is what its definition says.
LEMMA SumStep ==
    ASSUME NEW f, NEW S, IsFiniteSet(S)
    PROVE  \A T \in SUBSET S :
              SumFunctionOnSet(f, T) = IF T = {} THEN 0
                                       ELSE f[First(T)] + SumFunctionOnSet(f, T \ {First(T)})
<1> DEFINE Sm(T) == SumFunctionOnSet(f, T)
           Step(T) == IF T = {} THEN 0 ELSE f[First(T)] + Sm(T \ {First(T)})
           Q == {T \in SUBSET S : Sm(T) = Step(T) /\ \E g : Adds(g, f, T)}
<1>1. ASSUME NEW T \in SUBSET S, \A U \in SUBSET T : U # T => U \in Q
      PROVE  T \in Q
  <2> DEFINE h == [U \in SUBSET T |-> Step(U)]
             g == CHOOSE w : Adds(w, f, T)
             c == First(T)
             k == CHOOSE w : Adds(w, f, T \ {c})
  <2> HIDE DEF Sm
  <2>1. \A U \in SUBSET T : U # {} => First(U) \in U
    BY DEF First
  <2>2. \A U \in SUBSET T : U # {} => h[U \ {First(U)}] = Sm(U \ {First(U)})
    BY <1>1, <2>1
  <2>3. Adds(h, f, T)
    BY <2>2 DEF Adds
  <2>4. Adds(g, f, T) /\ Sm(T) = g[T]
    BY <2>3, SumIsChosen DEF Sm
  <2>5. CASE T = {}
    BY <2>4, <2>5 DEF Adds
  <2>6. CASE T # {}
    <3>1. c \in T /\ T \ {c} \in Q
      BY <1>1, <2>1, <2>6
    <3>2. Adds(k, f, T \ {c}) /\ Sm(T \ {c}) = k[T \ {c}]
      BY <3>1, SumIsChosen DEF Sm
    <3>3. IsFiniteSet(T \ {c})
      BY FS_Subset
    <3>4. g[T \ {c}] = k[T \ {c}]
      BY <2>4, <3>2, <3>3, AddsAgree
    <3>5. g[T] = f[c] + g[T \ {c}]
      BY <2>4, <2>6 DEF Adds
    <3> QED
      BY <2>3, <2>4, <2>6, <3>2, <3>4, <3>5
  <2> QED
    BY <2>5, <2>6
<1>2. SUBSET S \subseteq Q
  <2> HIDE DEF Q
  <2> QED
    BY <1>1, SubsetInduction
<1> QED
  BY <1>2

LEMMA SumOfNothing ==
    ASSUME NEW f
    PROVE  SumFunctionOnSet(f, {}) = 0
BY SumStep, FS_EmptySet

\* A sum of integers is one, and depends on the summands only.
LEMMA SumIsInteger ==
    ASSUME NEW S, IsFiniteSet(S), NEW f, \A x \in S : f[x] \in Int
    PROVE  SumFunctionOnSet(f, S) \in Int
<1> DEFINE Q == {T \in SUBSET S : SumFunctionOnSet(f, T) \in Int}
<1>1. ASSUME NEW T \in SUBSET S, \A U \in SUBSET T : U # T => U \in Q
      PROVE  T \in Q
  <2>1. CASE T = {}
    BY <2>1, SumOfNothing
  <2>2. CASE T # {}
    <3>1. First(T) \in T
      BY <2>2 DEF First
    <3>2. T \ {First(T)} \in Q /\ f[First(T)] \in Int
      BY <1>1, <3>1
    <3> QED
      BY <2>2, <3>2, SumStep
  <2> QED
    BY <2>1, <2>2
<1>2. SUBSET S \subseteq Q
  <2> HIDE DEF Q
  <2> QED
    BY <1>1, SubsetInduction
<1> QED
  BY <1>2

LEMMA SumsAgree ==
    ASSUME NEW S, IsFiniteSet(S), NEW f, NEW g, \A x \in S : f[x] = g[x]
    PROVE  SumFunctionOnSet(f, S) = SumFunctionOnSet(g, S)
<1> DEFINE Q == {T \in SUBSET S : SumFunctionOnSet(f, T) = SumFunctionOnSet(g, T)}
<1>1. ASSUME NEW T \in SUBSET S, \A U \in SUBSET T : U # T => U \in Q
      PROVE  T \in Q
  <2>1. CASE T = {}
    BY <2>1, SumOfNothing
  <2>2. CASE T # {}
    <3>1. First(T) \in T
      BY <2>2 DEF First
    <3>2. T \ {First(T)} \in Q /\ f[First(T)] = g[First(T)]
      BY <1>1, <3>1
    <3> QED
      BY <2>2, <3>2, SumStep
  <2> QED
    BY <2>1, <2>2
<1>2. SUBSET S \subseteq Q
  <2> HIDE DEF Q
  <2> QED
    BY <1>1, SubsetInduction
<1> QED
  BY <1>2

\* Any element may be taken out of a sum.
LEMMA SumWithout ==
    ASSUME NEW S, IsFiniteSet(S), NEW f, \A x \in S : f[x] \in Int, NEW a \in S
    PROVE  SumFunctionOnSet(f, S) = f[a] + SumFunctionOnSet(f, S \ {a})
<1> DEFINE Sm(T) == SumFunctionOnSet(f, T)
           Q == {T \in SUBSET S : \A x \in T : Sm(T) = f[x] + Sm(T \ {x})}
<1> HIDE DEF Sm
<1>0. \A T \in SUBSET S : Sm(T) \in Int
  BY SumIsInteger, FS_Subset DEF Sm
<1>1. ASSUME NEW T \in SUBSET S, \A U \in SUBSET T : U # T => U \in Q
      PROVE  T \in Q
  <2> SUFFICES ASSUME NEW x \in T  PROVE Sm(T) = f[x] + Sm(T \ {x})
    OBVIOUS
  <2> DEFINE c == First(T)
  <2>1. c \in T
    BY DEF First
  <2>2. Sm(T) = f[c] + Sm(T \ {c})
    BY SumStep DEF Sm
  <2>3. CASE x = c
    BY <2>2, <2>3
  <2>4. CASE x # c
    <3> HIDE DEF c
    <3>1. T \ {c} \in Q /\ T \ {x} \in Q /\ x \in T \ {c} /\ c \in T \ {x}
      BY <1>1, <2>1, <2>4
    <3>2. Sm(T \ {c}) = f[x] + Sm((T \ {c}) \ {x})
      BY <3>1
    <3>3. Sm(T \ {x}) = f[c] + Sm((T \ {x}) \ {c})
      BY <3>1
    <3>4. (T \ {c}) \ {x} = (T \ {x}) \ {c}
      OBVIOUS
    <3> DEFINE rest == Sm((T \ {c}) \ {x})
    <3>5. f[x] \in Int /\ f[c] \in Int /\ rest \in Int
      BY <1>0, <2>1
    <3>6. Sm(T) = f[c] + (f[x] + rest) /\ Sm(T \ {x}) = f[c] + rest
      BY <2>2, <3>2, <3>3, <3>4
    <3> HIDE DEF rest
    <3> QED
      BY <3>5, <3>6
  <2> QED
    BY <2>3, <2>4
<1>2. SUBSET S \subseteq Q
  <2> HIDE DEF Q
  <2> QED
    BY <1>1, SubsetInduction
<1> QED
  BY <1>2 DEF Sm

\* A new summand is added to a sum.
LEMMA SumWith ==
    ASSUME NEW S, IsFiniteSet(S), NEW f, NEW a, a \notin S, \A x \in S \cup {a} : f[x] \in Int
    PROVE  SumFunctionOnSet(f, S \cup {a}) = SumFunctionOnSet(f, S) + f[a]
<1>1. IsFiniteSet(S \cup {a}) /\ (S \cup {a}) \ {a} = S
  BY FS_AddElement
<1>2. SumFunctionOnSet(f, S \cup {a}) = f[a] + SumFunctionOnSet(f, S)
  BY <1>1, SumWithout
<1>3. SumFunctionOnSet(f, S) \in Int /\ f[a] \in Int
  BY SumIsInteger
<1> QED
  BY <1>2, <1>3

\* A sum changes by what one of its summands changes by.
LEMMA SumOfChange ==
    ASSUME NEW S, IsFiniteSet(S), NEW a \in S,
           NEW f, \A x \in S : f[x] \in Int,
           NEW g, \A x \in S : g[x] \in Int,
           \A x \in S \ {a} : g[x] = f[x]
    PROVE  SumFunctionOnSet(g, S) = SumFunctionOnSet(f, S) + g[a] - f[a]
<1>1. SumFunctionOnSet(f, S) = f[a] + SumFunctionOnSet(f, S \ {a})
  BY SumWithout
<1>2. SumFunctionOnSet(g, S) = g[a] + SumFunctionOnSet(g, S \ {a})
  BY SumWithout
<1>3. IsFiniteSet(S \ {a})
  BY FS_Subset
<1>4. SumFunctionOnSet(f, S \ {a}) = SumFunctionOnSet(g, S \ {a})
  BY <1>3, SumsAgree
<1>5. SumFunctionOnSet(f, S \ {a}) \in Int /\ f[a] \in Int /\ g[a] \in Int
  BY <1>3, SumIsInteger
<1> QED
  BY <1>1, <1>2, <1>4, <1>5

\* What one account pays another leaves the sum as it is.
LEMMA SumOfExchange ==
    ASSUME NEW S, IsFiniteSet(S), NEW a \in S, NEW b \in S, a # b,
           NEW f, \A x \in S : f[x] \in Int,
           NEW g, \A x \in S : g[x] \in Int,
           \A x \in S \ {a, b} : g[x] = f[x],
           g[a] + g[b] = f[a] + f[b]
    PROVE  SumFunctionOnSet(g, S) = SumFunctionOnSet(f, S)
<1> DEFINE h == [x \in S |-> IF x = a THEN g[a] ELSE f[x]]
<1>1. SumFunctionOnSet(h, S) = SumFunctionOnSet(f, S) + h[a] - f[a]
  BY SumOfChange
<1>2. SumFunctionOnSet(g, S) = SumFunctionOnSet(h, S) + g[b] - h[b]
  BY SumOfChange
<1>3. SumFunctionOnSet(f, S) \in Int /\ f[a] \in Int /\ f[b] \in Int /\ g[a] \in Int /\ g[b] \in Int
  BY SumIsInteger
<1>4. h[a] = g[a] /\ h[b] = f[b]
  OBVIOUS
<1> HIDE DEF h
<1> QED
  BY <1>1, <1>2, <1>3, <1>4

\* Smaller summands, smaller sum.
LEMMA SumIsMonotonic ==
    ASSUME NEW S, IsFiniteSet(S),
           NEW f, \A x \in S : f[x] \in Int,
           NEW g, \A x \in S : g[x] \in Int,
           \A x \in S : f[x] <= g[x]
    PROVE  SumFunctionOnSet(f, S) <= SumFunctionOnSet(g, S)
<1> DEFINE Q == {T \in SUBSET S : SumFunctionOnSet(f, T) <= SumFunctionOnSet(g, T)}
<1>0. \A T \in SUBSET S : SumFunctionOnSet(f, T) \in Int /\ SumFunctionOnSet(g, T) \in Int
  BY SumIsInteger, FS_Subset
<1>1. ASSUME NEW T \in SUBSET S, \A U \in SUBSET T : U # T => U \in Q
      PROVE  T \in Q
  <2>1. CASE T = {}
    BY <2>1, SumOfNothing
  <2>2. CASE T # {}
    <3>1. First(T) \in T
      BY <2>2 DEF First
    <3>2. T \ {First(T)} \in Q /\ f[First(T)] <= g[First(T)]
      BY <1>1, <3>1
    <3>3. /\ SumFunctionOnSet(f, T) = f[First(T)] + SumFunctionOnSet(f, T \ {First(T)})
          /\ SumFunctionOnSet(g, T) = g[First(T)] + SumFunctionOnSet(g, T \ {First(T)})
      BY <2>2, SumStep
    <3>4. f[First(T)] \in Int /\ g[First(T)] \in Int
      BY <3>1
    <3> QED
      BY <1>0, <3>2, <3>3, <3>4
  <2> QED
    BY <2>1, <2>2
<1>2. SUBSET S \subseteq Q
  <2> HIDE DEF Q
  <2> QED
    BY <1>1, SubsetInduction
<1> QED
  BY <1>2

LEMMA SumOfZeros ==
    ASSUME NEW S, IsFiniteSet(S), NEW f, \A x \in S : f[x] = 0
    PROVE  SumFunctionOnSet(f, S) = 0
<1> DEFINE Q == {T \in SUBSET S : SumFunctionOnSet(f, T) = 0}
<1>1. ASSUME NEW T \in SUBSET S, \A U \in SUBSET T : U # T => U \in Q
      PROVE  T \in Q
  <2>1. CASE T = {}
    BY <2>1, SumOfNothing
  <2>2. CASE T # {}
    <3>1. First(T) \in T
      BY <2>2 DEF First
    <3>2. T \ {First(T)} \in Q /\ f[First(T)] = 0
      BY <1>1, <3>1
    <3> QED
      BY <2>2, <3>2, SumStep
  <2> QED
    BY <2>1, <2>2
<1>2. SUBSET S \subseteq Q
  <2> HIDE DEF Q
  <2> QED
    BY <1>1, SubsetInduction
<1> QED
  BY <1>2

\* Two books add up together, and a book of multiples is a multiple of the book.
LEMMA SumOfSums ==
    ASSUME NEW S, IsFiniteSet(S),
           NEW f, \A x \in S : f[x] \in Int,
           NEW g, \A x \in S : g[x] \in Int,
           NEW h, \A x \in S : h[x] = f[x] + g[x]
    PROVE  SumFunctionOnSet(h, S) = SumFunctionOnSet(f, S) + SumFunctionOnSet(g, S)
<1> DEFINE Sf(T) == SumFunctionOnSet(f, T)
           Sg(T) == SumFunctionOnSet(g, T)
           Sh(T) == SumFunctionOnSet(h, T)
           Q == {T \in SUBSET S : Sh(T) = Sf(T) + Sg(T)}
<1> HIDE DEF Sf, Sg, Sh
<1>0. \A T \in SUBSET S : Sf(T) \in Int /\ Sg(T) \in Int
  BY SumIsInteger, FS_Subset DEF Sf, Sg
<1>1. ASSUME NEW T \in SUBSET S, \A U \in SUBSET T : U # T => U \in Q
      PROVE  T \in Q
  <2>1. CASE T = {}
    BY <2>1, SumOfNothing DEF Sf, Sg, Sh
  <2>2. CASE T # {}
    <3> DEFINE c == First(T)
               U == T \ {c}
    <3>1. c \in T
      BY <2>2 DEF First
    <3>2. Sh(U) = Sf(U) + Sg(U) /\ h[c] = f[c] + g[c]
      BY <1>1, <3>1
    <3>3. Sf(T) = f[c] + Sf(U) /\ Sg(T) = g[c] + Sg(U) /\ Sh(T) = h[c] + Sh(U)
      BY <2>2, SumStep DEF Sf, Sg, Sh
    <3>4. f[c] \in Int /\ g[c] \in Int /\ Sf(U) \in Int /\ Sg(U) \in Int
      BY <1>0, <3>1
    <3> HIDE DEF c, U
    <3>5. Sh(T) = Sf(T) + Sg(T)
      BY <3>2, <3>3, <3>4
    <3> QED
      BY <3>5
  <2> QED
    BY <2>1, <2>2
<1>2. SUBSET S \subseteq Q
  <2> HIDE DEF Q
  <2> QED
    BY <1>1, SubsetInduction
<1> QED
  BY <1>2 DEF Sf, Sg, Sh

LEMMA Distributes ==
    ASSUME NEW k \in Int, NEW a \in Int, NEW b \in Int
    PROVE  k * (a + b) = k * a + k * b
OBVIOUS

LEMMA SumOfMultiples ==
    ASSUME NEW S, IsFiniteSet(S), NEW k \in Int,
           NEW f, \A x \in S : f[x] \in Int,
           NEW h, \A x \in S : h[x] = k * f[x]
    PROVE  SumFunctionOnSet(h, S) = k * SumFunctionOnSet(f, S)
<1> DEFINE Sf(T) == SumFunctionOnSet(f, T)
           Sh(T) == SumFunctionOnSet(h, T)
           Q == {T \in SUBSET S : Sh(T) = k * Sf(T)}
<1> HIDE DEF Sf, Sh
<1>0. \A T \in SUBSET S : Sf(T) \in Int
  BY SumIsInteger, FS_Subset DEF Sf
<1>1. ASSUME NEW T \in SUBSET S, \A U \in SUBSET T : U # T => U \in Q
      PROVE  T \in Q
  <2>1. CASE T = {}
    <3>1. Sf(T) = 0 /\ Sh(T) = 0
      BY <2>1, SumOfNothing DEF Sf, Sh
    <3> QED
      BY <3>1
  <2>2. CASE T # {}
    <3> DEFINE c == First(T)
               U == T \ {c}
    <3>1. c \in T
      BY <2>2 DEF First
    <3>2. Sh(U) = k * Sf(U) /\ h[c] = k * f[c]
      BY <1>1, <3>1
    <3>3. Sf(T) = f[c] + Sf(U) /\ Sh(T) = h[c] + Sh(U)
      BY <2>2, SumStep DEF Sf, Sh
    <3>4. f[c] \in Int /\ Sf(U) \in Int
      BY <1>0, <3>1
    <3> HIDE DEF c, U
    <3>5. Sh(T) = k * Sf(T)
      BY <3>2, <3>3, <3>4, Distributes
    <3> QED
      BY <3>5
  <2> QED
    BY <2>1, <2>2
<1>2. SUBSET S \subseteq Q
  <2> HIDE DEF Q
  <2> QED
    BY <1>1, SubsetInduction
<1> QED
  BY <1>2 DEF Sf, Sh

\* No natural summand exceeds the sum.
LEMMA SumCoversSummand ==
    ASSUME NEW S, IsFiniteSet(S), NEW f, \A x \in S : f[x] \in Nat, NEW a \in S
    PROVE  f[a] <= SumFunctionOnSet(f, S)
<1> DEFINE zero == [x \in S |-> 0]
<1>1. IsFiniteSet(S \ {a})
  BY FS_Subset
<1>2. SumFunctionOnSet(zero, S \ {a}) = 0
  BY <1>1, SumOfZeros
<1>3. SumFunctionOnSet(zero, S \ {a}) <= SumFunctionOnSet(f, S \ {a})
  BY <1>1, SumIsMonotonic
<1>4. SumFunctionOnSet(f, S \ {a}) \in Int
  BY <1>1, SumIsInteger
<1>5. SumFunctionOnSet(f, S) = f[a] + SumFunctionOnSet(f, S \ {a})
  BY SumWithout
<1> QED
  BY <1>2, <1>3, <1>4, <1>5

\* The sum over two sets that share nothing is that of their sums.
LEMMA SumOfUnion ==
    ASSUME NEW A, IsFiniteSet(A), NEW B, IsFiniteSet(B), A \cap B = {},
           NEW f, \A x \in A \cup B : f[x] \in Int
    PROVE  SumFunctionOnSet(f, A \cup B) = SumFunctionOnSet(f, A) + SumFunctionOnSet(f, B)
<1> DEFINE Sm(T) == SumFunctionOnSet(f, T)
           Q == {T \in SUBSET B : Sm(A \cup T) = Sm(A) + Sm(T)}
<1>1. ASSUME NEW T \in SUBSET B, \A U \in SUBSET T : U # T => U \in Q
      PROVE  T \in Q
  <2> HIDE DEF Sm
  <2>1. Sm(A) \in Int
    BY SumIsInteger DEF Sm
  <2>2. CASE T = {}
    <3>1. Sm(T) = 0 /\ A \cup T = A
      BY <2>2, SumOfNothing DEF Sm
    <3> QED
      BY <2>1, <3>1
  <2>3. CASE T # {}
    <3>1. PICK a \in T : TRUE
      BY <2>3
    <3> DEFINE U == T \ {a}
    <3>2. U \in Q /\ a \notin A /\ f[a] \in Int
      BY <1>1, <3>1
    <3>3. /\ IsFiniteSet(T) /\ IsFiniteSet(A \cup T) /\ IsFiniteSet(U)
          /\ a \in A \cup T /\ (A \cup T) \ {a} = A \cup U
      BY <3>1, <3>2, FS_Subset, FS_Union
    <3>4. Sm(A \cup T) = f[a] + Sm(A \cup U)
      BY <3>3, SumWithout DEF Sm
    <3>5. Sm(T) = f[a] + Sm(U)
      BY <3>1, <3>3, SumWithout DEF Sm
    <3>6. Sm(A \cup U) = Sm(A) + Sm(U)
      BY <3>2
    <3>7. Sm(U) \in Int
      BY <3>3, SumIsInteger DEF Sm
    <3> QED
      BY <2>1, <3>2, <3>4, <3>5, <3>6, <3>7
  <2> QED
    BY <2>2, <2>3
<1> HIDE DEF Q
<1>2. SUBSET B \subseteq Q
  BY <1>1, SubsetInduction
<1>3. B \in Q
  BY <1>2
<1> QED
  BY <1>3 DEF Q

\* Summands may be given new names, here a first component.
LEMMA SumOverPairs ==
    ASSUME NEW S, IsFiniteSet(S), NEW id, NEW f, \A x \in S : f[x] \in Int,
           NEW g, \A x \in S : g[<<id, x>>] = f[x]
    PROVE  SumFunctionOnSet(g, {id} \X S) = SumFunctionOnSet(f, S)
<1> DEFINE Sf(T) == SumFunctionOnSet(f, T)
           Sg(T) == SumFunctionOnSet(g, {id} \X T)
           Q == {T \in SUBSET S : IsFiniteSet({id} \X T) /\ Sg(T) = Sf(T)}
<1>0. ASSUME NEW K, NEW k, IsFiniteSet(K), k \notin K, \A j \in K \cup {k} : g[j] \in Int
      PROVE  SumFunctionOnSet(g, K \cup {k}) = SumFunctionOnSet(g, K) + g[k]
  BY <1>0, SumWith, ZenonT(60)
<1>1. ASSUME NEW T \in SUBSET S, \A U \in SUBSET T : U # T => U \in Q
      PROVE  T \in Q
  <2> HIDE DEF Sf, Sg
  <2>1. CASE T = {}
    <3>1. {id} \X T = {}
      BY <2>1
    <3> QED
      BY <2>1, <3>1, SumOfNothing, FS_EmptySet DEF Sf, Sg
  <2>2. CASE T # {}
    <3>1. PICK a \in T : TRUE
      BY <2>2
    <3> DEFINE U == T \ {a}
               K == {id} \X U
               k == <<id, a>>
    <3>2. U \in Q /\ g[k] = f[a] /\ f[a] \in Int
      BY <1>1, <3>1
    <3>3. IsFiniteSet(T) /\ IsFiniteSet(K)
      BY <3>2, FS_Subset
    <3>4. {id} \X T = K \cup {k} /\ k \notin K
      BY <3>1
    <3>5. \A j \in K \cup {k} : g[j] \in Int
      BY <3>1
    <3> HIDE DEF K, k
    <3>6. SumFunctionOnSet(g, K \cup {k}) = SumFunctionOnSet(g, K) + g[k]
      BY <1>0, <3>3, <3>4, <3>5
    <3>7. Sf(T) = f[a] + Sf(U)
      BY <3>1, <3>3, SumWithout DEF Sf
    <3>8. SumFunctionOnSet(g, K) = Sf(U) /\ Sf(U) \in Int
      <4>1. Sg(U) = Sf(U)
        BY <3>2
      <4>2. Sf(U) \in Int
        BY <3>3, FS_Subset, SumIsInteger DEF Sf
      <4> QED
        BY <4>1, <4>2 DEF Sg, K
    <3>9. IsFiniteSet(K \cup {k})
      BY <3>3, FS_AddElement
    <3>10. Sg(T) = SumFunctionOnSet(g, K \cup {k})
      BY <3>4 DEF Sg
    <3>11. g[k] = f[a] /\ f[a] \in Int
      BY <3>2
    <3>12. Sg(T) = Sf(T)
      BY <3>6, <3>7, <3>8, <3>10, <3>11
    <3> QED
      BY <3>4, <3>9, <3>12
  <2> QED
    BY <2>1, <2>2
<1> HIDE DEF Q
<1>2. SUBSET S \subseteq Q
  BY <1>1, SubsetInduction
<1>3. S \in Q
  BY <1>2
<1> QED
  BY <1>3 DEF Q

\* A sum of naturals is one.
LEMMA SumIsNatural ==
    ASSUME NEW S, IsFiniteSet(S), NEW f, \A x \in S : f[x] \in Nat
    PROVE  SumFunctionOnSet(f, S) \in Nat
<1> DEFINE zero == [x \in S |-> 0]
<1>1. SumFunctionOnSet(zero, S) = 0
  BY SumOfZeros
<1>2. SumFunctionOnSet(zero, S) <= SumFunctionOnSet(f, S)
  BY SumIsMonotonic
<1>3. SumFunctionOnSet(f, S) \in Int
  BY SumIsInteger
<1> QED
  BY <1>1, <1>2, <1>3

\* Summands may be given any new names, one each.
LEMMA SumOfRenamed ==
    ASSUME NEW S, IsFiniteSet(S), NEW h, \A x, y \in S : h[x] = h[y] => x = y,
           NEW f, \A x \in S : f[x] \in Int,
           NEW g, \A x \in S : g[h[x]] = f[x]
    PROVE  SumFunctionOnSet(g, {h[x] : x \in S}) = SumFunctionOnSet(f, S)
<1> DEFINE Named(T) == {h[x] : x \in T}
           Sf(T) == SumFunctionOnSet(f, T)
           Sg(T) == SumFunctionOnSet(g, Named(T))
           Q == {T \in SUBSET S : IsFiniteSet(Named(T)) /\ Sg(T) = Sf(T)}
<1>1. ASSUME NEW T \in SUBSET S, \A U \in SUBSET T : U # T => U \in Q
      PROVE  T \in Q
  <2> HIDE DEF Sf
  <2>1. CASE T = {}
    <3>1. Named(T) = {}
      BY <2>1
    <3> QED
      BY <2>1, <3>1, SumOfNothing, FS_EmptySet DEF Sf
  <2>2. CASE T # {}
    <3>1. PICK a \in T : TRUE
      BY <2>2
    <3> DEFINE U == T \ {a}
               K == Named(U)
               k == h[a]
    <3>2. U \in Q /\ g[k] = f[a] /\ f[a] \in Int
      BY <1>1, <3>1
    <3>3. IsFiniteSet(T) /\ IsFiniteSet(U) /\ IsFiniteSet(K)
      BY <3>2, FS_Subset
    <3>4. Named(T) = K \cup {k} /\ k \notin K
      BY <3>1
    <3>5. \A j \in K \cup {k} : g[j] \in Int
      BY <3>1
    <3>6. Sf(U) \in Int /\ SumFunctionOnSet(g, K) = Sf(U)
      <4>1. Sf(U) \in Int
        BY <3>3, SumIsInteger DEF Sf
      <4> QED
        BY <3>2, <4>1
    <3> HIDE DEF K, k
    <3>7. SumFunctionOnSet(g, K \cup {k}) = g[k] + SumFunctionOnSet(g, K)
      <4>1. IsFiniteSet(K \cup {k}) /\ k \in K \cup {k} /\ (K \cup {k}) \ {k} = K
        BY <3>3, <3>4, FS_AddElement
      <4> QED
        BY <3>5, <4>1, SumWithout
    <3>8. Sf(T) = f[a] + Sf(U)
      BY <3>1, <3>3, SumWithout DEF Sf
    <3>9. IsFiniteSet(K \cup {k})
      BY <3>3, FS_AddElement
    <3>10. SumFunctionOnSet(g, K \cup {k}) = Sf(T)
      BY <3>2, <3>6, <3>7, <3>8
    <3> QED
      BY <3>4, <3>9, <3>10
  <2> QED
    BY <2>1, <2>2
<1> HIDE DEF Q
<1>2. SUBSET S \subseteq Q
  BY <1>1, SubsetInduction
<1>3. S \in Q
  BY <1>2
<1> QED
  BY <1>3 DEF Q

\* A set that is parted adds up to the sum of its parts' sums.
LEMMA SumOfParts ==
    ASSUME NEW A, IsFiniteSet(A), NEW parts, \A a \in A : IsFiniteSet(parts[a]),
           \A a, b \in A : a # b => parts[a] \cap parts[b] = {},
           NEW f, \A a \in A : \A x \in parts[a] : f[x] \in Int,
           NEW g, \A a \in A : g[a] = SumFunctionOnSet(f, parts[a]),
           NEW whole, \A x : x \in whole <=> \E a \in A : x \in parts[a]
    PROVE  IsFiniteSet(whole) /\ SumFunctionOnSet(f, whole) = SumFunctionOnSet(g, A)
<1> DEFINE Over(T) == UNION {parts[a] : a \in T}
           Sg(T) == SumFunctionOnSet(g, T)
           Q == {T \in SUBSET A : IsFiniteSet(Over(T)) /\ SumFunctionOnSet(f, Over(T)) = Sg(T)}
<1>1. ASSUME NEW T \in SUBSET A, \A U \in SUBSET T : U # T => U \in Q
      PROVE  T \in Q
  <2> HIDE DEF Sg
  <2>1. CASE T = {}
    <3>1. Over(T) = {}
      BY <2>1
    <3> QED
      BY <2>1, <3>1, SumOfNothing, FS_EmptySet DEF Sg
  <2>2. CASE T # {}
    <3>1. PICK a \in T : TRUE
      BY <2>2
    <3> DEFINE U == T \ {a}
               K == Over(U)
               P == parts[a]
    <3>2. U \in Q
      BY <1>1, <3>1
    <3>3. IsFiniteSet(K) /\ SumFunctionOnSet(f, K) = Sg(U)
      BY <3>2
    <3>4. Over(T) = K \cup P /\ K \cap P = {}
      <4>1. \A b \in U : parts[b] \cap P = {}
        BY <3>1
      <4> QED
        BY <3>1, <4>1
    <3>5. /\ IsFiniteSet(P) /\ g[a] = SumFunctionOnSet(f, P) /\ g[a] \in Int
          /\ \A x \in K \cup P : f[x] \in Int
      <4>1. IsFiniteSet(P) /\ g[a] = SumFunctionOnSet(f, P) /\ \A x \in P : f[x] \in Int
        BY <3>1
      <4>2. \A x \in K : f[x] \in Int
        BY <3>1
      <4>3. SumFunctionOnSet(f, P) \in Int
        BY <4>1, SumIsInteger
      <4> QED
        BY <4>1, <4>2, <4>3
    <3>6. IsFiniteSet(T) /\ IsFiniteSet(U)
      BY FS_Subset
    <3>7. \A b \in T : g[b] \in Int
      <4>1. ASSUME NEW b \in T  PROVE g[b] \in Int
        <5>1. IsFiniteSet(parts[b]) /\ \A x \in parts[b] : f[x] \in Int
          BY <4>1
        <5>2. SumFunctionOnSet(f, parts[b]) \in Int
          BY <5>1, SumIsInteger
        <5> QED
          BY <5>2
      <4> QED
        BY <4>1
    <3>8. Sg(T) = g[a] + Sg(U) /\ Sg(U) \in Int
      <4>1. SumFunctionOnSet(g, T) = g[a] + SumFunctionOnSet(g, T \ {a})
        BY <3>1, <3>6, <3>7, SumWithout
      <4>2. SumFunctionOnSet(g, U) \in Int
        BY <3>6, <3>7, SumIsInteger
      <4> QED
        BY <4>1, <4>2 DEF Sg
    <3> HIDE DEF K, P
    <3>9. SumFunctionOnSet(f, K \cup P) = SumFunctionOnSet(f, K) + SumFunctionOnSet(f, P)
      BY <3>3, <3>4, <3>5, SumOfUnion
    <3>10. SumFunctionOnSet(f, K \cup P) = Sg(T)
      BY <3>3, <3>5, <3>8, <3>9
    <3>11. IsFiniteSet(K \cup P)
      BY <3>3, <3>5, FS_Union
    <3> QED
      BY <3>4, <3>10, <3>11
  <2> QED
    BY <2>1, <2>2
<1> HIDE DEF Q
<1>2. SUBSET A \subseteq Q
  BY <1>1, SubsetInduction
<1>3. A \in Q
  BY <1>2
<1>4. whole = Over(A)
  <2>1. \A x : x \in Over(A) <=> \E a \in A : x \in parts[a]
    OBVIOUS
  <2> HIDE DEF Over
  <2> QED
    BY <2>1
<1> QED
  BY <1>3, <1>4 DEF Q

\* Shares of n in proportion to weights, each rounded down, do not exceed n.
LEMMA SharesFit ==
    ASSUME NEW S, IsFiniteSet(S), NEW n \in Nat, NEW d \in Nat \ {0},
           NEW w, \A x \in S : w[x] \in Nat, SumFunctionOnSet(w, S) <= d,
           NEW q, \A x \in S : q[x] = (n * w[x]) \div d
    PROVE  (\A x \in S : q[x] \in Nat) /\ SumFunctionOnSet(q, S) <= n
<1> DEFINE whole == [x \in S |-> n * w[x]]
           down == [x \in S |-> d * q[x]]
<1>1. ASSUME NEW x \in S  PROVE q[x] \in Nat /\ d * q[x] \in Int /\ d * q[x] <= n * w[x]
  <2>1. n * w[x] \in Nat
    OBVIOUS
  <2> DEFINE m == n * w[x]
  <2> HIDE DEF m
  <2>2. m \in Nat /\ q[x] = m \div d
    BY <2>1 DEF m
  <2>3. m \div d \in Nat /\ m % d \in 0..(d - 1) /\ m = (m \div d) * d + (m % d)
    BY <2>2, Division
  <2>4. q[x] \in Nat /\ d * q[x] = (m \div d) * d /\ d * q[x] \in Int
    BY <2>2, <2>3
  <2>5. d * q[x] <= m
    BY <2>2, <2>3, <2>4
  <2> QED
    BY <2>4, <2>5 DEF m
<1>2. SumFunctionOnSet(down, S) = d * SumFunctionOnSet(q, S)
  BY <1>1, SumOfMultiples
<1>3. SumFunctionOnSet(whole, S) = n * SumFunctionOnSet(w, S)
  BY SumOfMultiples
<1>4. SumFunctionOnSet(down, S) <= SumFunctionOnSet(whole, S)
  BY <1>1, SumIsMonotonic
<1>5. SumFunctionOnSet(w, S) \in Nat /\ SumFunctionOnSet(q, S) \in Nat
  BY <1>1, SumIsNatural
<1>6. n * SumFunctionOnSet(w, S) <= n * d
  <2> DEFINE W == SumFunctionOnSet(w, S)
  <2> HIDE DEF W
  <2>1. W \in Nat /\ W <= d
    BY <1>5 DEF W
  <2>2. n * (d - W) \in Nat /\ n * (d - W) = n * d - n * W
    BY <2>1
  <2>3. n * W \in Nat /\ n * d \in Nat
    BY <2>1
  <2> QED
    BY <2>2, <2>3 DEF W
<1>7. SumFunctionOnSet(q, S) <= n
  <2> DEFINE Z == SumFunctionOnSet(q, S)
  <2>1. d * Z <= n * d
    BY <1>2, <1>3, <1>4, <1>6, <1>5
  <2>2. Z \in Int
    BY <1>5
  <2> HIDE DEF Z
  <2>3. d * Z = Z * d /\ Z * d \in Int /\ n * d \in Int
    BY <2>2
  <2>4. ~(n * d < Z * d)
    BY <2>1, <2>3
  <2>5. ~(n < Z)
    BY <2>2, <2>4, ProductsAreOrdered
  <2> QED
    BY <2>2, <2>5 DEF Z
<1> QED
  BY <1>1, <1>7

-----------------------------------------------------------------------------
(* Lists.                                                                  *)

LEMMA TwoElements ==
    ASSUME NEW x, NEW y
    PROVE  <<x>> \o <<y>> = <<x, y>>
<1> DEFINE S == {x, y}
<1>1. <<x>> \in Seq(S) /\ <<y>> \in Seq(S) /\ <<x, y>> \in Seq(S)
  OBVIOUS
<1>2. /\ <<x>> \o <<y>> \in Seq(S) /\ Len(<<x>> \o <<y>>) = 2
      /\ \A i \in 1..2 : (<<x>> \o <<y>>)[i] = <<x, y>>[i]
  BY <1>1
<1> QED
  BY <1>1, <1>2, SeqEqual

\* A part of a list depends on what is in it only.
LEMMA PartsAgree ==
    ASSUME NEW S, NEW s \in Seq(S), NEW t \in Seq(S), NEW m \in Nat, NEW n \in Nat,
           1 <= m, n <= Len(s), n <= Len(t), \A i \in m..n : s[i] = t[i]
    PROVE  SubSeq(s, m, n) = SubSeq(t, m, n)
<1>1. m \in Int /\ n \in Int /\ Len(s) \in Nat /\ Len(t) \in Nat
  BY LenProperties
<1>2. \A i \in m..n : s[i] \in S /\ t[i] \in S
  BY <1>1, ElementOfSeq
<1> DEFINE size == IF m <= n THEN n - m + 1 ELSE 0
<1>3. /\ SubSeq(s, m, n) \in Seq(S) /\ Len(SubSeq(s, m, n)) = size
      /\ \A i \in 1..(n - m + 1) : SubSeq(s, m, n)[i] = s[m + i - 1]
  BY <1>1, <1>2, SubSeqProperties
<1>4. /\ SubSeq(t, m, n) \in Seq(S) /\ Len(SubSeq(t, m, n)) = size
      /\ \A i \in 1..(n - m + 1) : SubSeq(t, m, n)[i] = t[m + i - 1]
  BY <1>1, <1>2, SubSeqProperties
<1>5. \A i \in 1..size : i \in 1..(n - m + 1) /\ m + i - 1 \in m..n
  BY <1>1
<1>6. \A i \in 1..size : SubSeq(s, m, n)[i] = SubSeq(t, m, n)[i]
  BY <1>3, <1>4, <1>5
<1> HIDE DEF size
<1> QED
  BY <1>3, <1>4, <1>6, SeqEqual

\* A function that flattens the first elements of a list of lists.
Flattens(g, seqs) ==
    g = [i \in 1..Len(seqs) |-> IF i = 1 THEN seqs[i] ELSE g[i - 1] \o seqs[i]]

\* One that does so step by step.
Accumulates(h, n, seqs) ==
    /\ h = [i \in 1..n |-> h[i]]
    /\ h[1] = seqs[1]
    /\ \A i \in 1..n : i # 1 => h[i] = h[i - 1] \o seqs[i]

LEMMA FlatteningIs ==
    ASSUME NEW seqs, NEW n \in Nat, n > 0, Len(seqs) = n, NEW h, Accumulates(h, n, seqs)
    PROVE  FlattenSeq(seqs) = h[n]
<1> DEFINE g == CHOOSE f : Flattens(f, seqs)
<1>1. FlattenSeq(seqs) = g[n]
  BY DEF FlattenSeq, Flattens
<1>0. /\ h = [i \in 1..n |-> h[i]]
      /\ h[1] = seqs[1]
      /\ \A i \in 1..n : i # 1 => h[i] = h[i - 1] \o seqs[i]
  BY DEF Accumulates
<1>2. Flattens(h, seqs)
  BY <1>0 DEF Flattens
<1>3. Flattens(g, seqs)
  BY <1>2
<1> HIDE DEF g
<1>4. \A i \in 1..n : g[i] = IF i = 1 THEN seqs[i] ELSE g[i - 1] \o seqs[i]
  BY <1>3 DEF Flattens
<1> DEFINE Agreed == {i \in Nat : i + 1 \in 1..n => g[i + 1] = h[i + 1]}
<1>5. 0 \in Agreed
  BY <1>0, <1>4
<1>6. ASSUME NEW i \in Nat, i \in Agreed  PROVE i + 1 \in Agreed
  <2>1. ASSUME (i + 1) + 1 \in 1..n  PROVE g[(i + 1) + 1] = h[(i + 1) + 1]
    <3>1. i + 1 \in 1..n /\ (i + 1) + 1 # 1 /\ ((i + 1) + 1) - 1 = i + 1
      BY <2>1
    <3>2. g[i + 1] = h[i + 1]
      BY <1>6, <3>1
    <3>3. g[(i + 1) + 1] = g[i + 1] \o seqs[(i + 1) + 1]
      BY <1>4, <2>1, <3>1
    <3>4. h[(i + 1) + 1] = h[i + 1] \o seqs[(i + 1) + 1]
      BY <1>0, <2>1, <3>1
    <3> QED
      BY <3>2, <3>3, <3>4
  <2> QED
    BY <2>1
<1>7. Nat \subseteq Agreed
  <2> HIDE DEF Agreed
  <2> QED
    BY <1>5, <1>6, NaturalInduction
<1>8. n - 1 \in Agreed /\ (n - 1) + 1 = n
  BY <1>7
<1> QED
  BY <1>1, <1>8

\* A list cut into pieces is whole again when they are put together.
LEMMA PiecesFlatten ==
    ASSUME NEW S, NEW list \in Seq(S), NEW n \in Nat, n > 0,
           NEW cut \in [0..n -> 0..Len(list)],
           \A i \in 1..n : cut[i - 1] <= cut[i],
           NEW seqs, Len(seqs) = n,
           \A i \in 1..n : seqs[i] = SubSeq(list, cut[i - 1] + 1, cut[i])
    PROVE  FlattenSeq(seqs) = SubSeq(list, cut[0] + 1, cut[n])
<1> DEFINE h == [i \in 1..n |-> SubSeq(list, cut[0] + 1, cut[i])]
<1>1. Len(list) \in Nat /\ \A i \in 0..n : cut[i] \in Nat /\ cut[i] <= Len(list)
  BY LenProperties
<1> DEFINE Later == {i \in Nat : i \in 0..n => cut[0] <= cut[i]}
<1>2. Nat \subseteq Later
  <2>1. 0 \in Later
    BY <1>1
  <2>2. ASSUME NEW i \in Nat, i \in Later  PROVE i + 1 \in Later
    <3>1. ASSUME i + 1 \in 0..n  PROVE cut[0] <= cut[i + 1]
      <4>1. i \in 0..n /\ i + 1 \in 1..n /\ (i + 1) - 1 = i /\ 0 \in 0..n
        BY <3>1
      <4>2. cut[0] <= cut[i] /\ cut[i] <= cut[i + 1]
        BY <2>2, <4>1
      <4> QED
        BY <1>1, <3>1, <4>1, <4>2
    <3> QED
      BY <3>1
  <2> HIDE DEF Later
  <2> QED
    BY <2>1, <2>2, NaturalInduction
<1>3. h[1] = seqs[1]
  <2>1. 1 \in 1..n /\ 1 - 1 = 0
    OBVIOUS
  <2>2. seqs[1] = SubSeq(list, cut[1 - 1] + 1, cut[1])
    BY <2>1
  <2> QED
    BY <2>1, <2>2
<1>4. ASSUME NEW i \in 1..n, i # 1  PROVE h[i] = h[i - 1] \o seqs[i]
  <2>1. i - 1 \in 0..n /\ i - 1 \in 1..n /\ i \in 0..n /\ 0 \in 0..n
    BY <1>4
  <2>2. PICK first \in Nat, mid \in Nat, last \in Nat, len \in Nat :
            first = cut[0] /\ mid = cut[i - 1] /\ last = cut[i] /\ len = Len(list)
    BY <1>1, <2>1
  <2>3. first <= mid /\ mid <= last /\ last <= len
    BY <1>1, <1>2, <2>1, <2>2
  <2>4. PICK start \in Nat : start = first + 1
    OBVIOUS
  <2>5. start \in 1..(len + 1) /\ mid \in (start - 1)..len /\ last \in mid..len
    BY <2>3, <2>4, SMTT(60)
  <2>6. SubSeq(list, start, mid) \o SubSeq(list, mid + 1, last) = SubSeq(list, start, last)
    BY <2>2, <2>5, ConcatAdjacentSubSeq
  <2> QED
    BY <2>1, <2>2, <2>4, <2>6
<1>5. h = [i \in 1..n |-> h[i]]
  OBVIOUS
<1>6. h[n] = SubSeq(list, cut[0] + 1, cut[n])
  <2>1. n \in 1..n
    OBVIOUS
  <2> QED
    BY <2>1
<1>7. Accumulates(h, n, seqs)
  BY <1>3, <1>4, <1>5 DEF Accumulates
<1> HIDE DEF h
<1> QED
  BY <1>6, <1>7, FlatteningIs

-----------------------------------------------------------------------------
(* Ranks.  The members of a set of indices can be counted in their order.  *)

Rank(R, i) == Cardinality({j \in R : j <= i})

LEMMA RanksNumberTheSet ==
    ASSUME NEW n \in Nat, NEW R \in SUBSET (1..n)
    PROVE  /\ IsFiniteSet(R) /\ Cardinality(R) \in Nat
           /\ \A i \in R : Rank(R, i) \in 1..Cardinality(R)
           /\ \A i, k \in R : Rank(R, i) = Rank(R, k) => i = k
           /\ \A k \in 1..Cardinality(R) : \E i \in R : Rank(R, i) = k
<1> DEFINE upTo(i) == {j \in R : j <= i}
           m == Cardinality(R)
           rank == [i \in R |-> Rank(R, i)]
<1>1. IsFiniteSet(R) /\ m \in Nat
  <2>1. IsFiniteSet(1..n)
    BY FS_Interval
  <2> QED
    BY <2>1, FS_Subset, FS_CardinalityType
<1>2. \A i \in R : IsFiniteSet(upTo(i)) /\ Cardinality(upTo(i)) \in Nat
  BY <1>1, FS_Subset, FS_CardinalityType
<1>3. ASSUME NEW i \in R  PROVE Rank(R, i) \in 1..m
  <2>1. i \in upTo(i)
    OBVIOUS
  <2>2. Cardinality(upTo(i)) # 0
    BY <1>2, <2>1, FS_EmptySet
  <2>3. Cardinality(upTo(i)) <= m
    BY <1>1, FS_Subset
  <2> QED
    BY <1>1, <1>2, <2>2, <2>3 DEF Rank
<1>4. ASSUME NEW i \in R, NEW k \in R, i < k  PROVE Rank(R, i) # Rank(R, k)
  <2>1. upTo(i) \subseteq upTo(k) /\ k \in upTo(k) /\ k \notin upTo(i)
    <3>1. R \subseteq Nat /\ i \in Nat /\ k \in Nat
      OBVIOUS
    <3>2. \A j \in R : j <= i => j <= k
      BY <1>4, <3>1
    <3>3. k <= k /\ ~(k <= i)
      BY <1>4, <3>1
    <3> QED
      BY <3>2, <3>3
  <2>2. Cardinality(upTo(i)) # Cardinality(upTo(k))
    BY <1>2, <2>1, FS_Subset
  <2> QED
    BY <2>2 DEF Rank
<1>5. ASSUME NEW i \in R, NEW k \in R, Rank(R, i) = Rank(R, k)  PROVE i = k
  BY <1>4, <1>5
<1>6. rank \in Injection(R, 1..m)
  BY <1>3, <1>5 DEF Injection, IsInjective
<1>7. IsFiniteSet(1..m) /\ Cardinality(1..m) = m
  BY <1>1, FS_Interval
<1> HIDE DEF m, rank
<1>8. rank \in Surjection(R, 1..m)
  BY <1>6, <1>7, FS_Injection DEF m
<1>9. \A k \in 1..m : \E i \in R : rank[i] = k
  BY <1>8 DEF Surjection
<1>10. \A i \in R : rank[i] = Rank(R, i)
  BY DEF rank
<1> QED
  BY <1>1, <1>3, <1>5, <1>9, <1>10 DEF m
=============================================================================
