------------------------------ MODULE SumLemmas ------------------------------
(***************************************************************************)
(* What the proofs need to know of the library's Max and Min, and of       *)
(* SumFunction, the sum of the values of a function with a finite domain.  *)
(* SumFunction folds a recursive function over the subsets of the domain:  *)
(* that such a function exists, and that the order in which it takes the   *)
(* elements does not matter, is proved here by counting, with a least      *)
(* counterexample in place of induction.                                   *)
(***************************************************************************)
EXTENDS Sequences, FiniteSetsExt, FiniteSetTheorems, WellFoundedInduction, TLAPS

\* A set of naturals that holds 0, and n + 1 whenever it holds n, is all of Nat.
LEMMA Counting ==
    ASSUME NEW A \in SUBSET Nat, 0 \in A, \A n \in A : n + 1 \in A
    PROVE  A = Nat
<1> SUFFICES ASSUME Nat \ A # {} PROVE FALSE
  OBVIOUS
<1> DEFINE R == {p \in Nat \X Nat : p[1] < p[2]}
<1>1. IsWellFoundedOn(R, Nat)
  BY NatLessThanWellFounded DEF OpToRel
<1>2. \A a, b \in Nat : a < b => <<a, b>> \in R
  OBVIOUS
<1> HIDE DEF R
<1>3. PICK x \in Nat \ A : \A y \in Nat \ A : <<y, x>> \notin R
  BY <1>1, WFMin
<1>4. x # 0 /\ x - 1 \in Nat
  OBVIOUS
<1>5. x - 1 \in A
  <2>1. <<x - 1, x>> \in R
    BY <1>2, <1>4
  <2>2. x - 1 \notin Nat \ A
    BY <1>3, <2>1
  <2>3. QED
    BY <1>4, <2>2
<1>6. (x - 1) + 1 \in A
  BY <1>5
<1>7. QED
  BY <1>4, <1>6

\* A bounded set of integers has a greatest element.
LEMMA Greatest ==
    ASSUME NEW S \in SUBSET Int, S # {}, NEW b \in Int, \A n \in S : n <= b
    PROVE  \E m \in S : \A n \in S : m >= n
<1> SUFFICES ASSUME \A m \in S : \E n \in S : n > m PROVE FALSE
  OBVIOUS
<1>1. PICK s \in S : TRUE
  OBVIOUS
<1> DEFINE A == {n \in Nat : \E m \in S : m >= s + n}
<1>2. 0 \in A
  BY <1>1
<1>3. ASSUME NEW n \in A PROVE n + 1 \in A
  <2>1. n \in Nat /\ \E m \in S : m >= s + n
    OBVIOUS
  <2>2. PICK m \in S : m >= s + n
    BY <2>1
  <2>3. PICK p \in S : p > m
    OBVIOUS
  <2>4. p \in Int /\ m \in Int /\ s \in Int
    OBVIOUS
  <2>5. p >= s + (n + 1)
    BY <2>1, <2>2, <2>3, <2>4
  <2>6. QED
    BY <2>1, <2>5
<1>4. A = Nat
  <2>1. A \in SUBSET Nat
    OBVIOUS
  <2> HIDE DEF A
  <2>2. QED
    BY <1>2, <1>3, <2>1, Counting
<1>5. s \in Int /\ s <= b
  OBVIOUS
<1>6. b - s + 1 \in Nat
  BY <1>5
<1>7. b - s + 1 \in A
  BY <1>4, <1>6
<1>8. PICK m \in S : m >= s + (b - s + 1)
  BY <1>7
<1>9. QED
  BY <1>5, <1>8

\* A set of naturals has a least element.
LEMMA Least ==
    ASSUME NEW S \in SUBSET Nat, S # {}
    PROVE  \E m \in S : \A n \in S : m <= n
<1> DEFINE R == {p \in Nat \X Nat : p[1] < p[2]}
<1>1. IsWellFoundedOn(R, Nat)
  BY NatLessThanWellFounded DEF OpToRel
<1>2. \A a, b \in Nat : a < b => <<a, b>> \in R
  OBVIOUS
<1> HIDE DEF R
<1>3. PICK m \in S : \A n \in S : <<n, m>> \notin R
  BY <1>1, WFMin
<1>4. ASSUME NEW n \in S PROVE m <= n
  <2>1. m \in Nat /\ n \in Nat /\ <<n, m>> \notin R
    BY <1>3
  <2>2. ~(n < m)
    BY <1>2, <2>1
  <2>3. QED
    BY <2>1, <2>2
<1>5. QED
  BY <1>4

\* What Max and Min choose.
LEMMA MaxIs ==
    ASSUME NEW S \in SUBSET Int, S # {}, NEW b \in Int, \A n \in S : n <= b
    PROVE  /\ Max(S) \in S /\ \A n \in S : n <= Max(S)
<1>1. \E m \in S : \A n \in S : m >= n
  BY Greatest
<1>2. Max(S) \in S /\ \A n \in S : Max(S) >= n
  BY <1>1 DEF Max
<1>3. QED
  BY <1>2

LEMMA MinIs ==
    ASSUME NEW S \in SUBSET Nat, S # {}
    PROVE  /\ Min(S) \in S /\ \A n \in S : Min(S) <= n
<1>1. \E m \in S : \A n \in S : m <= n
  BY Least
<1>2. QED
  BY <1>1 DEF Min

-----------------------------------------------------------------------------
(* The recursive function.                                                 *)

Pick(s) == CHOOSE x \in s : TRUE

Partial(g, fun, s) == IF s = {} THEN 0 ELSE fun[Pick(s)] + g[s \ {Pick(s)}]

\* g folds fun over the subsets in D.
FoldsOver(g, fun, D) == g = [s \in D |-> Partial(g, fun, s)]

\* g is the function SumFunction folds fun with.
Folds(g, fun, S) == FoldsOver(g, fun, SUBSET S)

LEMMA SumFunctionDef ==
    ASSUME NEW fun
    PROVE  SumFunction(fun) = (CHOOSE g : Folds(g, fun, DOMAIN fun))[DOMAIN fun]
  BY DEF SumFunction, SumFunctionOnSet, FoldFunctionOnSet, MapThenFoldSet, Folds, FoldsOver, Partial, Pick

LEMMA PickIn == ASSUME NEW s, s # {} PROVE Pick(s) \in s
  BY DEF Pick

\* The finite subsets of S with at most n elements.
Small(S, n) == {s \in SUBSET S : IsFiniteSet(s) /\ Cardinality(s) <= n}

LEMMA SmallStep ==
    ASSUME NEW S, NEW n \in Nat, NEW s \in Small(S, n + 1)
    PROVE  /\ s = {} \/ (Pick(s) \in s /\ s \ {Pick(s)} \in Small(S, n))
           /\ s \in Small(S, n) \/ Cardinality(s) = n + 1
<1>1. s \in SUBSET S /\ IsFiniteSet(s) /\ Cardinality(s) <= n + 1 /\ Cardinality(s) \in Nat
  BY FS_CardinalityType DEF Small
<1>2. CASE s # {}
  <2>1. Pick(s) \in s
    BY <1>2, PickIn
  <2>2. IsFiniteSet(s \ {Pick(s)}) /\ Cardinality(s \ {Pick(s)}) = Cardinality(s) - 1
    BY <1>1, <2>1, FS_RemoveElement
  <2>3. QED
    BY <1>1, <2>1, <2>2 DEF Small
<1>3. QED
  BY <1>1, <1>2 DEF Small

LEMMA SmallMore ==
    ASSUME NEW S, NEW n \in Nat, NEW s \in Small(S, n)
    PROVE  s \in Small(S, n + 1)
<1>1. Cardinality(s) \in Nat
  BY FS_CardinalityType DEF Small
<1>2. QED
  BY <1>1 DEF Small

LEMMA SmallEmpty ==
    ASSUME NEW S
    PROVE  Small(S, 0) = {{}}
<1>1. {} \in Small(S, 0)
  BY FS_EmptySet DEF Small
<1>2. ASSUME NEW s \in Small(S, 0) PROVE s = {}
  <2>1. Cardinality(s) = 0 /\ IsFiniteSet(s)
    BY FS_CardinalityType DEF Small
  <2>2. QED
    BY <2>1, FS_EmptySet
<1>3. QED
  BY <1>1, <1>2

LEMMA FoldsExists ==
    ASSUME NEW fun, NEW S, IsFiniteSet(S)
    PROVE  \E g : Folds(g, fun, S)
<1> DEFINE A == {n \in Nat : \E g : FoldsOver(g, fun, Small(S, n))}
<1>1. 0 \in A
  <2> DEFINE g == [s \in {{}} |-> 0]
  <2>1. FoldsOver(g, fun, {{}})
    BY DEF FoldsOver, Partial
  <2> HIDE DEF g
  <2>2. QED
    BY <2>1, SmallEmpty
<1>2. ASSUME NEW n \in A PROVE n + 1 \in A
  <2>1. PICK h : FoldsOver(h, fun, Small(S, n))
    OBVIOUS
  <2> DEFINE g == [s \in Small(S, n + 1) |-> Partial(h, fun, s)]
  <2>2. ASSUME NEW s \in Small(S, n) PROVE s \in Small(S, n + 1) /\ g[s] = h[s]
    <3>1. s \in Small(S, n + 1)
      BY SmallMore
    <3>2. h[s] = Partial(h, fun, s)
      BY <2>1 DEF FoldsOver
    <3>3. QED
      BY <3>1, <3>2
  <2>3. ASSUME NEW s \in Small(S, n + 1) PROVE Partial(h, fun, s) = Partial(g, fun, s)
    <3>1. s = {} \/ s \ {Pick(s)} \in Small(S, n)
      BY SmallStep
    <3> HIDE DEF g
    <3>2. QED
      BY <2>2, <3>1 DEF Partial
  <2>4. FoldsOver(g, fun, Small(S, n + 1))
    <3> DEFINE k == [s \in Small(S, n + 1) |-> Partial(g, fun, s)]
    <3>1. g = k
      BY <2>3
    <3>2. QED
      BY <3>1 DEF FoldsOver
  <2> HIDE DEF g
  <2>5. QED
    BY <2>4
<1> HIDE DEF A
<1>3. A = Nat
  <2>1. A \in SUBSET Nat
    BY DEF A
  <2>2. QED
    BY <1>1, <1>2, <2>1, Counting
<1>4. Cardinality(S) \in Nat
  BY FS_CardinalityType
<1>5. Small(S, Cardinality(S)) = SUBSET S
  BY FS_Subset DEF Small
<1>6. Cardinality(S) \in A
  BY <1>3, <1>4
<1>7. \E g : FoldsOver(g, fun, Small(S, Cardinality(S)))
  BY <1>6 DEF A
<1>8. QED
  BY <1>5, <1>7 DEF Folds

Agree(e, f, T) == \A x \in T : e[x] = f[x]

\* Two such functions agree where the functions they sum agree.
LEMMA FoldsAgree ==
    ASSUME NEW f, NEW g, NEW S, Folds(g, f, S),
           NEW e, NEW h, NEW T, Folds(h, e, T),
           T \subseteq S, IsFiniteSet(T), Agree(e, f, T)
    PROVE  g[T] = h[T]
<1> DEFINE A == {n \in Nat : \A s \in Small(T, n) : g[s] = h[s]}
<1>1. \A s \in SUBSET T : g[s] = Partial(g, f, s) /\ h[s] = Partial(h, e, s)
  BY DEF Folds, FoldsOver
<1>2. 0 \in A
  <2>1. g[{}] = h[{}]
    BY <1>1 DEF Partial
  <2>2. QED
    BY <2>1, SmallEmpty
<1>3. ASSUME NEW n \in A PROVE n + 1 \in A
  <2>1. ASSUME NEW s \in Small(T, n + 1) PROVE g[s] = h[s]
    <3>1. s \in SUBSET T
      BY DEF Small
    <3>2. s = {} \/ (Pick(s) \in s /\ s \ {Pick(s)} \in Small(T, n))
      BY SmallStep
    <3>3. s # {} => f[Pick(s)] = e[Pick(s)] /\ g[s \ {Pick(s)}] = h[s \ {Pick(s)}]
      BY <3>1, <3>2 DEF Agree
    <3>4. Partial(g, f, s) = Partial(h, e, s)
      BY <3>3 DEF Partial
    <3>5. QED
      BY <1>1, <3>1, <3>4
  <2>2. QED
    BY <2>1
<1> HIDE DEF A
<1>4. A = Nat
  <2>1. A \in SUBSET Nat
    BY DEF A
  <2>2. QED
    BY <1>2, <1>3, <2>1, Counting
<1>5. Cardinality(T) \in Nat /\ T \in Small(T, Cardinality(T))
  BY FS_CardinalityType DEF Small
<1>6. QED
  BY <1>4, <1>5 DEF A

-----------------------------------------------------------------------------
(* The facts about SumFunction.                                            *)

\* fun without the element x.
Without(fun, x) == [y \in DOMAIN fun \ {x} |-> fun[y]]

\* A function from a finite set to the integers.
Summable(fun) ==
    /\ IsFiniteSet(DOMAIN fun)
    /\ fun = [x \in DOMAIN fun |-> fun[x]]
    /\ \A x \in DOMAIN fun : fun[x] \in Int

LEMMA SumFolds ==
    ASSUME NEW fun, IsFiniteSet(DOMAIN fun)
    PROVE  \E g : Folds(g, fun, DOMAIN fun) /\ SumFunction(fun) = g[DOMAIN fun]
<1> DEFINE g == CHOOSE g : Folds(g, fun, DOMAIN fun)
<1>1. Folds(g, fun, DOMAIN fun)
  BY FoldsExists
<1>2. SumFunction(fun) = g[DOMAIN fun]
  BY SumFunctionDef
<1> HIDE DEF g
<1>3. QED
  BY <1>1, <1>2

LEMMA SumEmpty ==
    ASSUME NEW fun, DOMAIN fun = {}
    PROVE  SumFunction(fun) = 0
<1>1. PICK g : Folds(g, fun, DOMAIN fun) /\ SumFunction(fun) = g[DOMAIN fun]
  BY SumFolds, FS_EmptySet
<1>2. g[{}] = Partial(g, fun, {})
  BY <1>1 DEF Folds, FoldsOver
<1>3. QED
  BY <1>1, <1>2 DEF Partial

LEMMA SumPick ==
    ASSUME NEW fun, IsFiniteSet(DOMAIN fun), DOMAIN fun # {}
    PROVE  SumFunction(fun) = fun[Pick(DOMAIN fun)] + SumFunction(Without(fun, Pick(DOMAIN fun)))
<1>1. PICK D, c : D = DOMAIN fun /\ c = Pick(DOMAIN fun)
  OBVIOUS
<1>2. PICK g : Folds(g, fun, D) /\ SumFunction(fun) = g[D]
  BY <1>1, SumFolds
<1>3. g[D] = fun[c] + g[D \ {c}]
  BY <1>1, <1>2 DEF Folds, FoldsOver, Partial
<1>4. /\ DOMAIN Without(fun, c) = D \ {c}
      /\ \A x \in D \ {c} : Without(fun, c)[x] = fun[x]
  BY <1>1 DEF Without
<1>5. IsFiniteSet(D \ {c})
  BY <1>1, FS_Subset
<1>6. PICK h : /\ Folds(h, Without(fun, c), D \ {c})
               /\ SumFunction(Without(fun, c)) = h[D \ {c}]
  BY <1>4, <1>5, SumFolds
<1>7. g[D \ {c}] = h[D \ {c}]
  <2>1. PICK e, T : e = Without(fun, c) /\ T = D \ {c}
    OBVIOUS
  <2>2. /\ Folds(h, e, T) /\ T \subseteq D /\ IsFiniteSet(T)
        /\ Agree(e, fun, T)
    BY <1>4, <1>5, <1>6, <2>1 DEF Agree
  <2>3. g[T] = h[T]
    BY <1>2, <2>2, FoldsAgree
  <2>4. QED
    BY <2>1, <2>3
<1>8. QED
  BY <1>1, <1>2, <1>3, <1>6, <1>7

LEMMA WithoutSummable ==
    ASSUME NEW fun, Summable(fun), NEW x \in DOMAIN fun
    PROVE  /\ Summable(Without(fun, x))
           /\ DOMAIN Without(fun, x) = DOMAIN fun \ {x}
           /\ \A y \in DOMAIN fun \ {x} : Without(fun, x)[y] = fun[y]
           /\ Cardinality(DOMAIN Without(fun, x)) = Cardinality(DOMAIN fun) - 1
<1>1. /\ DOMAIN Without(fun, x) = DOMAIN fun \ {x}
      /\ \A y \in DOMAIN fun \ {x} : Without(fun, x)[y] = fun[y]
  BY DEF Without
<1>2. /\ IsFiniteSet(DOMAIN fun \ {x})
      /\ Cardinality(DOMAIN fun \ {x}) = Cardinality(DOMAIN fun) - 1
  BY FS_RemoveElement DEF Summable
<1>3. Without(fun, x) = [y \in DOMAIN Without(fun, x) |-> Without(fun, x)[y]]
  BY DEF Without
<1>4. QED
  BY <1>1, <1>2, <1>3 DEF Summable

\* The sum is an integer, and any element can be taken out first.
SumsWell(fun) ==
    /\ SumFunction(fun) \in Int
    /\ \A x \in DOMAIN fun : /\ SumFunction(fun) = fun[x] + SumFunction(Without(fun, x))
                            /\ SumFunction(Without(fun, x)) \in Int

LEMMA SumsWellStep ==
    ASSUME NEW n \in Nat,
           \A f : Summable(f) /\ Cardinality(DOMAIN f) = n => SumsWell(f),
           NEW fun, Summable(fun), Cardinality(DOMAIN fun) = n + 1
    PROVE  SumsWell(fun)
<1>1. DOMAIN fun # {} /\ IsFiniteSet(DOMAIN fun)
  BY FS_EmptySet DEF Summable
<1>2. PICK c \in DOMAIN fun : c = Pick(DOMAIN fun)
  BY <1>1, PickIn
<1>3. SumFunction(fun) = fun[c] + SumFunction(Without(fun, c))
  BY <1>1, <1>2, SumPick
<1>4. ASSUME NEW x \in DOMAIN fun
      PROVE  SumsWell(Without(fun, x)) /\ Summable(Without(fun, x))
             /\ DOMAIN Without(fun, x) = DOMAIN fun \ {x}
             /\ \A y \in DOMAIN fun \ {x} : Without(fun, x)[y] = fun[y]
  <2>1. /\ Summable(Without(fun, x))
        /\ Cardinality(DOMAIN Without(fun, x)) = Cardinality(DOMAIN fun) - 1
    BY WithoutSummable
  <2>2. Summable(Without(fun, x)) /\ Cardinality(DOMAIN Without(fun, x)) = n
    BY <2>1
  <2>3. QED
    BY <2>2, WithoutSummable
<1>5. fun[c] \in Int /\ \A x \in DOMAIN fun : SumFunction(Without(fun, x)) \in Int
  BY <1>4 DEF Summable, SumsWell
<1>6. ASSUME NEW x \in DOMAIN fun, x # c
      PROVE  SumFunction(fun) = fun[x] + SumFunction(Without(fun, x))
  <2>1. Without(Without(fun, c), x) = Without(Without(fun, x), c)
    <3>1. /\ DOMAIN Without(fun, c) = DOMAIN fun \ {c}
          /\ DOMAIN Without(fun, x) = DOMAIN fun \ {x}
          /\ \A y \in DOMAIN fun \ {c} : Without(fun, c)[y] = fun[y]
          /\ \A y \in DOMAIN fun \ {x} : Without(fun, x)[y] = fun[y]
      BY <1>4
    <3>2. /\ Without(Without(fun, c), x) = [y \in (DOMAIN fun \ {c}) \ {x} |-> fun[y]]
          /\ Without(Without(fun, x), c) = [y \in (DOMAIN fun \ {x}) \ {c} |-> fun[y]]
      BY <3>1 DEF Without
    <3>3. (DOMAIN fun \ {c}) \ {x} = (DOMAIN fun \ {x}) \ {c}
      OBVIOUS
    <3>4. QED
      BY <3>2, <3>3
  <2>2. SumFunction(Without(fun, c)) = fun[x] + SumFunction(Without(Without(fun, c), x))
    <3>1. /\ SumsWell(Without(fun, c)) /\ x \in DOMAIN Without(fun, c)
          /\ Without(fun, c)[x] = fun[x]
      BY <1>4, <1>6
    <3>2. QED
      BY <3>1 DEF SumsWell
  <2>3. SumFunction(Without(fun, x)) = fun[c] + SumFunction(Without(Without(fun, x), c))
    <3>1. /\ SumsWell(Without(fun, x)) /\ c \in DOMAIN Without(fun, x)
          /\ Without(fun, x)[c] = fun[c]
      BY <1>4, <1>6
    <3>2. QED
      BY <3>1 DEF SumsWell
  <2>4. PICK r : r = SumFunction(Without(Without(fun, c), x))
    OBVIOUS
  <2>5. r \in Int
    <3>1. SumsWell(Without(fun, c)) /\ x \in DOMAIN Without(fun, c)
      BY <1>4, <1>6
    <3>2. QED
      BY <2>4, <3>1 DEF SumsWell
  <2>6. QED
    BY <1>3, <2>1, <2>2, <2>3, <2>4, <2>5 DEF Summable
<1>7. QED
  BY <1>3, <1>5, <1>6 DEF SumsWell

LEMMA SumsWellAll ==
    ASSUME NEW fun, Summable(fun)
    PROVE  SumsWell(fun)
<1> DEFINE A == {n \in Nat : \A f : Summable(f) /\ Cardinality(DOMAIN f) = n => SumsWell(f)}
<1>1. 0 \in A
  <2>1. ASSUME NEW f, Summable(f), Cardinality(DOMAIN f) = 0
        PROVE  SumsWell(f)
    <3>1. DOMAIN f = {}
      BY <2>1, FS_EmptySet DEF Summable
    <3>2. SumFunction(f) = 0
      BY <3>1, SumEmpty
    <3>3. QED
      BY <3>1, <3>2 DEF SumsWell
  <2>2. QED
    BY <2>1
<1>2. ASSUME NEW n \in A PROVE n + 1 \in A
  <2>1. n \in Nat /\ \A f : Summable(f) /\ Cardinality(DOMAIN f) = n => SumsWell(f)
    OBVIOUS
  <2>2. ASSUME NEW f, Summable(f), Cardinality(DOMAIN f) = n + 1
        PROVE  SumsWell(f)
    <3> HIDE DEF A
    <3>1. QED
      BY <2>1, <2>2, SumsWellStep
  <2>3. QED
    BY <2>1, <2>2
<1> HIDE DEF A
<1>3. A = Nat
  <2>1. A \in SUBSET Nat
    BY DEF A
  <2>2. QED
    BY <1>1, <1>2, <2>1, Counting
<1>4. Cardinality(DOMAIN fun) \in A
  BY <1>3, FS_CardinalityType DEF Summable
<1>5. QED
  BY <1>4 DEF A

LEMMA SumInt ==
    ASSUME NEW fun, Summable(fun)
    PROVE  SumFunction(fun) \in Int
  BY SumsWellAll DEF SumsWell

LEMMA SumWithout ==
    ASSUME NEW fun, Summable(fun), NEW x \in DOMAIN fun
    PROVE  SumFunction(fun) = fun[x] + SumFunction(Without(fun, x))
  BY SumsWellAll DEF SumsWell

\* Adding an element adds its value.
LEMMA SumAdd ==
    ASSUME NEW f, Summable(f), NEW x, x \notin DOMAIN f,
           NEW g, g = [y \in DOMAIN g |-> g[y]], DOMAIN g = DOMAIN f \cup {x},
           \A y \in DOMAIN f : g[y] = f[y],
           g[x] \in Int
    PROVE  /\ Summable(g)
           /\ SumFunction(g) = SumFunction(f) + g[x]
<1>1. IsFiniteSet(DOMAIN f \cup {x})
  BY FS_AddElement DEF Summable
<1>2. Summable(g)
  BY <1>1 DEF Summable
<1>3. Without(g, x) = f
  <2>1. DOMAIN g \ {x} = DOMAIN f
    OBVIOUS
  <2>2. Without(g, x) = [y \in DOMAIN f |-> f[y]]
    BY <2>1 DEF Without
  <2>3. f = [y \in DOMAIN f |-> f[y]]
    BY DEF Summable
  <2>4. QED
    BY <2>2, <2>3
<1>4. SumFunction(g) = g[x] + SumFunction(f)
  BY <1>2, <1>3, SumWithout
<1>5. SumFunction(f) \in Int
  BY SumInt
<1>6. QED
  BY <1>2, <1>4, <1>5

\* A sum changes by as much as the one value that changes.
LEMMA SumChange ==
    ASSUME NEW f, Summable(f), NEW g, Summable(g), DOMAIN g = DOMAIN f, NEW x \in DOMAIN f,
           \A y \in DOMAIN f \ {x} : g[y] = f[y]
    PROVE  SumFunction(g) - SumFunction(f) = g[x] - f[x]
<1>1. Without(g, x) = Without(f, x)
  <2>1. Without(g, x) = [y \in DOMAIN f \ {x} |-> f[y]]
    BY DEF Without
  <2>2. QED
    BY <2>1 DEF Without
<1>2. /\ SumFunction(f) = f[x] + SumFunction(Without(f, x))
      /\ SumFunction(g) = g[x] + SumFunction(Without(g, x))
  BY SumWithout
<1>3. SumFunction(Without(f, x)) \in Int
  BY WithoutSummable, SumInt
<1>4. f[x] \in Int /\ g[x] \in Int
  BY DEF Summable
<1>5. QED
  BY <1>1, <1>2, <1>3, <1>4

-----------------------------------------------------------------------------
(* Sums over parts of the domain.                                          *)

\* Induction over a finite set: what holds of the empty set and is kept when
\* an element is added holds of the set.
LEMMA Growing ==
    ASSUME NEW S, IsFiniteSet(S), NEW B, {} \in B,
           \A T \in SUBSET S : \A x \in S \ T : T \in B => T \cup {x} \in B
    PROVE  S \in B
<1> DEFINE A == {n \in Nat : \A s \in Small(S, n) : s \in B}
<1>1. 0 \in A
  BY SmallEmpty
<1>2. ASSUME NEW n \in A PROVE n + 1 \in A
  <2>1. ASSUME NEW s \in Small(S, n + 1) PROVE s \in B
    <3>1. s = {} \/ (Pick(s) \in s /\ s \ {Pick(s)} \in Small(S, n))
      BY SmallStep
    <3>2. CASE s # {}
      <4>1. PICK x, T : x = Pick(s) /\ T = s \ {x}
        OBVIOUS
      <4>2. x \in s /\ T \in Small(S, n) /\ s \in SUBSET S
        BY <3>1, <3>2, <4>1 DEF Small
      <4>3. T \in B /\ T \in SUBSET S /\ x \in S \ T /\ T \cup {x} = s
        BY <4>1, <4>2
      <4>4. QED
        BY <4>3
    <3>3. QED
      BY <3>2
  <2>2. QED
    BY <2>1
<1> HIDE DEF A
<1>3. A = Nat
  <2>1. A \in SUBSET Nat
    BY DEF A
  <2>2. QED
    BY <1>1, <1>2, <2>1, Counting
<1>4. Cardinality(S) \in Nat /\ S \in Small(S, Cardinality(S))
  BY FS_CardinalityType DEF Small
<1>5. QED
  BY <1>3, <1>4 DEF A

\* fun on the elements of T only.
Part(fun, T) == [x \in T |-> fun[x]]

LEMMA PartSummable ==
    ASSUME NEW fun, Summable(fun), NEW T \in SUBSET DOMAIN fun
    PROVE  /\ Summable(Part(fun, T))
           /\ DOMAIN Part(fun, T) = T
           /\ \A x \in T : Part(fun, T)[x] = fun[x]
           /\ SumFunction(Part(fun, T)) \in Int
<1>1. DOMAIN Part(fun, T) = T /\ \A x \in T : Part(fun, T)[x] = fun[x]
  BY DEF Part
<1>2. IsFiniteSet(T)
  BY FS_Subset DEF Summable
<1>3. Part(fun, T) = [x \in DOMAIN Part(fun, T) |-> Part(fun, T)[x]]
  BY DEF Part
<1>4. Summable(Part(fun, T))
  BY <1>1, <1>2, <1>3 DEF Summable
<1>5. QED
  BY <1>1, <1>4, SumInt

LEMMA PartWhole ==
    ASSUME NEW fun, Summable(fun)
    PROVE  Part(fun, DOMAIN fun) = fun
  BY DEF Part, Summable

LEMMA PartEmpty ==
    ASSUME NEW fun
    PROVE  SumFunction(Part(fun, {})) = 0
<1>1. DOMAIN Part(fun, {}) = {}
  BY DEF Part
<1>2. QED
  BY <1>1, SumEmpty

LEMMA PartAdd ==
    ASSUME NEW fun, Summable(fun), NEW T \in SUBSET DOMAIN fun, NEW x \in DOMAIN fun \ T
    PROVE  SumFunction(Part(fun, T \cup {x})) = SumFunction(Part(fun, T)) + fun[x]
<1>1. PICK f, g : f = Part(fun, T) /\ g = Part(fun, T \cup {x})
  OBVIOUS
<1>2. Summable(f) /\ DOMAIN f = T /\ \A y \in T : f[y] = fun[y]
  BY <1>1, PartSummable
<1>3. /\ T \cup {x} \in SUBSET DOMAIN fun /\ fun[x] \in Int
  BY DEF Summable
<1>4. Summable(g) /\ DOMAIN g = T \cup {x} /\ \A y \in T \cup {x} : g[y] = fun[y]
  BY <1>1, <1>3, PartSummable
<1>5. g = [y \in DOMAIN g |-> g[y]]
  BY <1>4 DEF Summable
<1>6. SumFunction(g) = SumFunction(f) + g[x]
  BY <1>2, <1>3, <1>4, <1>5, SumAdd
<1>7. QED
  BY <1>1, <1>4, <1>6

\* The sum over two disjoint parts is the sum of their sums.
LEMMA PartUnion ==
    ASSUME NEW fun, Summable(fun), NEW S \in SUBSET DOMAIN fun, NEW T \in SUBSET DOMAIN fun,
           S \cap T = {}
    PROVE  SumFunction(Part(fun, S \cup T)) = SumFunction(Part(fun, S)) + SumFunction(Part(fun, T))
<1> DEFINE B == {U \in SUBSET T : SumFunction(Part(fun, S \cup U))
                                    = SumFunction(Part(fun, S)) + SumFunction(Part(fun, U))}
<1>1. SumFunction(Part(fun, S)) \in Int
  BY PartSummable
<1>2. {} \in B
  <2>1. S \cup {} = S
    OBVIOUS
  <2>2. QED
    BY <1>1, <2>1, PartEmpty
<1>3. ASSUME NEW U \in SUBSET T, NEW x \in T \ U, U \in B
      PROVE  U \cup {x} \in B
  <2>1. SumFunction(Part(fun, S \cup U)) = SumFunction(Part(fun, S)) + SumFunction(Part(fun, U))
    BY <1>3
  <2> HIDE DEF B
  <2>2. /\ U \in SUBSET DOMAIN fun /\ x \in DOMAIN fun \ U
        /\ S \cup U \in SUBSET DOMAIN fun /\ x \in DOMAIN fun \ (S \cup U)
        /\ fun[x] \in Int
    BY <1>3 DEF Summable
  <2>3. SumFunction(Part(fun, (S \cup U) \cup {x})) = SumFunction(Part(fun, S \cup U)) + fun[x]
    BY <2>2, PartAdd
  <2>4. SumFunction(Part(fun, U \cup {x})) = SumFunction(Part(fun, U)) + fun[x]
    BY <2>2, PartAdd
  <2>5. SumFunction(Part(fun, U)) \in Int
    BY <2>2, PartSummable
  <2>6. (S \cup U) \cup {x} = S \cup (U \cup {x})
    OBVIOUS
  <2>7. SumFunction(Part(fun, S \cup (U \cup {x})))
          = SumFunction(Part(fun, S)) + SumFunction(Part(fun, U \cup {x}))
    <3>1. SumFunction(Part(fun, S \cup (U \cup {x}))) = SumFunction(Part(fun, S \cup U)) + fun[x]
      BY <2>3, <2>6
    <3>2. fun[x] \in Int
      BY <2>2
    <3>3. QED
      BY <1>1, <2>1, <2>4, <2>5, <3>1, <3>2
  <2>8. QED
    BY <1>3, <2>7 DEF B
<1>4. IsFiniteSet(T)
  BY FS_Subset DEF Summable
<1> HIDE DEF B
<1>5. T \in B
  BY <1>2, <1>3, <1>4, Growing
<1>6. QED
  BY <1>5 DEF B

\* A sum of opposite values is the opposite of the sum.
LEMMA SumOpposite ==
    ASSUME NEW f, Summable(f), NEW g, Summable(g), DOMAIN g = DOMAIN f,
           \A x \in DOMAIN f : g[x] = -f[x]
    PROVE  SumFunction(g) = -SumFunction(f)
<1> DEFINE B == {U \in SUBSET DOMAIN f : SumFunction(Part(g, U)) = -SumFunction(Part(f, U))}
<1>1. {} \in B
  BY PartEmpty
<1>2. ASSUME NEW U \in SUBSET DOMAIN f, NEW x \in DOMAIN f \ U, U \in B
      PROVE  U \cup {x} \in B
  <2>1. SumFunction(Part(g, U)) = -SumFunction(Part(f, U))
    BY <1>2
  <2> HIDE DEF B
  <2>2. SumFunction(Part(f, U \cup {x})) = SumFunction(Part(f, U)) + f[x]
    BY PartAdd
  <2>3. SumFunction(Part(g, U \cup {x})) = SumFunction(Part(g, U)) + g[x]
    BY PartAdd
  <2>4. SumFunction(Part(f, U)) \in Int /\ f[x] \in Int /\ g[x] = -f[x]
    BY PartSummable DEF Summable
  <2>5. SumFunction(Part(g, U \cup {x})) = -SumFunction(Part(f, U \cup {x}))
    BY <2>1, <2>2, <2>3, <2>4
  <2>6. QED
    BY <2>5 DEF B
<1>3. IsFiniteSet(DOMAIN f)
  BY DEF Summable
<1> HIDE DEF B
<1>4. DOMAIN f \in B
  BY <1>1, <1>2, <1>3, Growing
<1>5. Part(f, DOMAIN f) = f /\ Part(g, DOMAIN f) = g
  BY PartWhole
<1>6. QED
  BY <1>4, <1>5 DEF B

\* A sum of differences is the difference of the sums.
LEMMA SumDifference ==
    ASSUME NEW f, Summable(f), NEW g, Summable(g), NEW h, Summable(h),
           DOMAIN g = DOMAIN f, DOMAIN h = DOMAIN f,
           \A x \in DOMAIN f : h[x] = f[x] - g[x]
    PROVE  SumFunction(h) = SumFunction(f) - SumFunction(g)
<1> DEFINE B == {U \in SUBSET DOMAIN f :
               SumFunction(Part(h, U)) = SumFunction(Part(f, U)) - SumFunction(Part(g, U))}
<1>1. {} \in B
  BY PartEmpty
<1>2. ASSUME NEW U \in SUBSET DOMAIN f, NEW x \in DOMAIN f \ U, U \in B
      PROVE  U \cup {x} \in B
  <2>1. SumFunction(Part(h, U)) = SumFunction(Part(f, U)) - SumFunction(Part(g, U))
    BY <1>2
  <2> HIDE DEF B
  <2>2. /\ SumFunction(Part(f, U \cup {x})) = SumFunction(Part(f, U)) + f[x]
        /\ SumFunction(Part(g, U \cup {x})) = SumFunction(Part(g, U)) + g[x]
        /\ SumFunction(Part(h, U \cup {x})) = SumFunction(Part(h, U)) + h[x]
    BY PartAdd
  <2>3. /\ SumFunction(Part(f, U)) \in Int /\ SumFunction(Part(g, U)) \in Int
        /\ f[x] \in Int /\ g[x] \in Int /\ h[x] = f[x] - g[x]
    BY PartSummable DEF Summable
  <2>4. SumFunction(Part(h, U \cup {x}))
            = SumFunction(Part(f, U \cup {x})) - SumFunction(Part(g, U \cup {x}))
    BY <2>1, <2>2, <2>3
  <2>5. QED
    BY <2>4 DEF B
<1>3. IsFiniteSet(DOMAIN f)
  BY DEF Summable
<1> HIDE DEF B
<1>4. DOMAIN f \in B
  BY <1>1, <1>2, <1>3, Growing
<1>5. Part(f, DOMAIN f) = f /\ Part(g, DOMAIN f) = g /\ Part(h, DOMAIN f) = h
  BY PartWhole
<1>6. QED
  BY <1>4, <1>5 DEF B

ImageOf(m, U) == {m[k] : k \in U}

\* Elements that can be paired off with their opposites add up to nothing.
LEMMA SumPairs ==
    ASSUME NEW fun, Summable(fun), NEW R \in SUBSET DOMAIN fun,
           NEW m \in [R -> DOMAIN fun \ R],
           \A j, k \in R : m[j] = m[k] => j = k,
           \A k \in R : fun[m[k]] = -fun[k]
    PROVE  SumFunction(Part(fun, R \cup ImageOf(m, R))) = 0
<1> DEFINE B == {U \in SUBSET R : SumFunction(Part(fun, U \cup ImageOf(m, U))) = 0}
<1>1. {} \in B
  <2>1. {} \cup ImageOf(m, {}) = {}
    BY DEF ImageOf
  <2>2. QED
    BY <2>1, PartEmpty
<1>2. ASSUME NEW U \in SUBSET R, NEW x \in R \ U, U \in B
      PROVE  U \cup {x} \in B
  <2>1. PICK W : W = U \cup ImageOf(m, U)
    OBVIOUS
  <2>2. SumFunction(Part(fun, W)) = 0
    BY <1>2, <2>1
  <2>3. (W \cup {x}) \cup {m[x]} = (U \cup {x}) \cup ImageOf(m, U \cup {x})
    BY <2>1 DEF ImageOf
  <2>4. /\ W \in SUBSET DOMAIN fun /\ x \in DOMAIN fun \ W
        /\ W \cup {x} \in SUBSET DOMAIN fun /\ m[x] \in DOMAIN fun \ (W \cup {x})
    BY <2>1 DEF ImageOf
  <2> HIDE DEF B
  <2>5. SumFunction(Part(fun, W \cup {x})) = SumFunction(Part(fun, W)) + fun[x]
    BY <2>4, PartAdd
  <2>6. SumFunction(Part(fun, (W \cup {x}) \cup {m[x]})) = SumFunction(Part(fun, W \cup {x})) + fun[m[x]]
    BY <2>4, PartAdd
  <2>7. fun[x] \in Int /\ fun[m[x]] = -fun[x]
    BY DEF Summable
  <2>8. SumFunction(Part(fun, (W \cup {x}) \cup {m[x]})) = 0
    BY <2>2, <2>5, <2>6, <2>7
  <2>9. QED
    BY <2>3, <2>8 DEF B
<1>3. IsFiniteSet(R)
  BY FS_Subset DEF Summable
<1> HIDE DEF B
<1>4. R \in B
  BY <1>1, <1>2, <1>3, Growing
<1>5. QED
  BY <1>4 DEF B

-----------------------------------------------------------------------------
(* Cardinalities.                                                          *)

\* A finite set that loses one element, and perhaps others, loses one at least.
LEMMA FewerLeft ==
    ASSUME NEW S, IsFiniteSet(S), NEW T \in SUBSET S
    PROVE  /\ Cardinality(T) <= Cardinality(S)
           /\ \A x \in S \ T : Cardinality(T) <= Cardinality(S) - 1
<1>1. Cardinality(S) \in Nat /\ IsFiniteSet(T) /\ Cardinality(T) <= Cardinality(S)
  BY FS_CardinalityType, FS_Subset
<1>2. ASSUME NEW x \in S \ T
      PROVE  Cardinality(T) <= Cardinality(S) - 1
  <2>1. PICK U : U = S \ {x}
    OBVIOUS
  <2>2. IsFiniteSet(U) /\ Cardinality(U) = Cardinality(S) - 1
    BY <2>1, FS_RemoveElement
  <2>3. T \subseteq U
    BY <2>1
  <2>4. QED
    BY <2>2, <2>3, FS_Subset
<1>3. QED
  BY <1>1, <1>2

\* Sets of positions are finite, and an appended element adds one to those it
\* joins.
LEMMA RowSetsGrow ==
    ASSUME NEW A, NEW s \in Seq(A), NEW T \in SUBSET DOMAIN s
    PROVE  /\ Cardinality(T) \in Nat
           /\ Cardinality(T \cup {Len(s) + 1}) = Cardinality(T) + 1
<1>1. IsFiniteSet(DOMAIN s)
  <2>1. Len(s) \in Nat /\ DOMAIN s = 1..Len(s)
    OBVIOUS
  <2>2. QED
    BY <2>1, FS_Interval
<1>2. IsFiniteSet(T)
  BY <1>1, FS_Subset
<1>3. Len(s) + 1 \notin T
  <2>1. Len(s) \in Nat /\ DOMAIN s = 1..Len(s)
    OBVIOUS
  <2>2. QED
    BY <2>1
<1>4. QED
  BY <1>2, <1>3, FS_CardinalityType, FS_AddElement

=============================================================================
