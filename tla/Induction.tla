------------------------------ MODULE Induction ------------------------------
(***************************************************************************)
(* Induction over the natural numbers, stated with sets in place of         *)
(* predicates, and the function that a fold of the community modules        *)
(* chooses, sums and whole blocks: what the proofs about recursive          *)
(* definitions use.                                                         *)
(***************************************************************************)
EXTENDS Integers, WellFoundedInduction, TLAPS

\* A set of natural numbers that is not empty has a least element.
LEMMA LeastOf == ASSUME NEW T, T \subseteq Nat, T # {} PROVE \E m \in T : \A k \in T : m <= k
<1> DEFINE R == OpToRel(<, Nat)
<1>1. IsWellFoundedOn(R, Nat)
      BY NatLessThanWellFounded
<1>2. \A a, b \in Nat : <<a, b>> \in R <=> a < b
      BY DEF OpToRel
<1> HIDE DEF R
<1>3. PICK m \in T : \A k \in T : ~(<<k, m>> \in R)
      BY <1>1, WFMin
<1>4. ASSUME NEW k \in T PROVE m <= k
    <2>1. m \in Nat /\ k \in Nat
          OBVIOUS
    <2>2. ~(k < m)
          BY <1>2, <1>3, <2>1
    <2> QED BY <2>1, <2>2
<1> QED BY <1>4

\* A set that holds m, and with each number from m up to n the next, holds them all.
LEMMA SetInduction ==
    ASSUME NEW m \in Nat, NEW n \in Nat, NEW T, m \in T,
           \A k \in m .. n - 1 : k \in T => k + 1 \in T
    PROVE  \A k \in m .. n : k \in T
<1> DEFINE U == {k \in m .. n : k \notin T}
<1> SUFFICES ASSUME U # {} PROVE FALSE
    OBVIOUS
<1>1. U \subseteq Nat
      OBVIOUS
<1> HIDE DEF U
<1>2. PICK k \in U : \A j \in U : k <= j
      BY <1>1, LeastOf
<1> USE DEF U
<1>3. k \in m .. n /\ k \notin T /\ k # m
      BY <1>2
<1>4. k - 1 \in m .. n - 1
      BY <1>3
<1>5. k - 1 \in T
    <2>1. k - 1 \notin U
          BY <1>2, <1>3
    <2> QED BY <1>4, <2>1
<1> QED BY <1>3, <1>4, <1>5

\* Max of FiniteSetsExt.
Highest(s) == CHOOSE k \in s : \A j \in s : k >= j

LEMMA HighestIs ==
    ASSUME NEW s, NEW k \in s, \A j \in s : j \in Nat /\ k >= j
    PROVE  Highest(s) = k
<1>1. \E i \in s : \A j \in s : i >= j
      OBVIOUS
<1>2. Highest(s) \in s /\ \A j \in s : Highest(s) >= j
      BY <1>1 DEF Highest
<1>3. Highest(s) >= k /\ k >= Highest(s) /\ k \in Nat /\ Highest(s) \in Nat
      BY <1>2
<1> QED BY <1>3

\* A set of numbers up to n has a highest, and without it is one of its kind.
LEMMA HighestIn ==
    ASSUME NEW n \in Nat, NEW s \in SUBSET (1 .. n), s # {}
    PROVE  Highest(s) \in s
<1> DEFINE T == {n - k : k \in s}
<1>1. T \subseteq Nat /\ T # {}
    <2>1. \A k \in s : k \in 1 .. n
          OBVIOUS
    <2>2. \A k \in s : n - k \in Nat
          BY <2>1
    <2>3. PICK k : k \in s
          OBVIOUS
    <2>4. n - k \in T
          BY <2>3
    <2> QED BY <2>2, <2>4
<1> HIDE DEF T
<1>2. PICK m \in T : \A k \in T : m <= k
      BY <1>1, LeastOf
<1>3. PICK k \in s : m = n - k
      BY DEF T
<1>4. ASSUME NEW j \in s PROVE j \in Nat /\ k >= j
    <2>1. n - j \in T
          BY DEF T
    <2>2. n - k <= n - j /\ k \in Nat /\ j \in Nat
          BY <1>2, <1>3, <2>1
    <2> QED BY <2>2
<1>5. Highest(s) = k
      BY <1>4, HighestIs
<1> QED BY <1>5

LEMMA HighestOfPrefix ==
    ASSUME NEW k \in Nat
    PROVE  Highest(1 .. k + 1) = k + 1 /\ (1 .. k + 1) \ {k + 1} = 1 .. k /\ 1 .. k + 1 # {}
<1> DEFINE s == 1 .. k + 1
           h == k + 1
<1>1. h \in s /\ \A j \in s : j \in Nat /\ h >= j
      OBVIOUS
<1>2. s \ {h} = 1 .. k /\ s # {}
      BY <1>1
<1> HIDE DEF s, h
<1>3. Highest(s) = h
      BY <1>1, HighestIs
<1> QED BY <1>2, <1>3 DEF s, h

\* it folds f over the numbers of each set up to n, from the lowest on.
Folds(it, n, f, base, q) ==
    \A s \in SUBSET (1 .. n) :
        it[s] = IF s = {} THEN base ELSE f[<<it[s \ {Highest(s)}], q[Highest(s)]>>]

\* There is such a fold, within any set that f does not leave.
LEMMA FoldExists ==
    ASSUME NEW A, NEW B, NEW f \in [A \X B -> A], NEW base \in A, NEW n \in Nat,
           NEW q, \A k \in 1 .. n : q[k] \in B
    PROVE  \E it \in [SUBSET (1 .. n) -> A] : Folds(it, n, f, base, q)
<1> DEFINE T == {k \in 0 .. n : \E it \in [SUBSET (1 .. k) -> A] : Folds(it, k, f, base, q)}
<1>1. 0 \in T
    <2> 0 \in 0 .. n
        OBVIOUS
    <2> DEFINE it == [s \in SUBSET (1 .. 0) |-> base]
    <2>1. \A s \in SUBSET (1 .. 0) : s = {}
          OBVIOUS
    <2>2. it \in [SUBSET (1 .. 0) -> A] /\ Folds(it, 0, f, base, q)
          BY <2>1 DEF Folds
    <2> HIDE DEF it
    <2> QED BY <2>2
<1>2. ASSUME NEW k \in 0 .. n - 1, k \in T PROVE k + 1 \in T
    <2>1. PICK it \in [SUBSET (1 .. k) -> A] : Folds(it, k, f, base, q)
          BY <1>2
    <2>2. k \in Nat /\ k + 1 \in 0 .. n /\ q[k + 1] \in B
          OBVIOUS
    <2> DEFINE w == [s \in SUBSET (1 .. k + 1) |->
                       IF k + 1 \in s THEN f[<<it[s \ {k + 1}], q[k + 1]>>] ELSE it[s]]
    <2>3. ASSUME NEW s \in SUBSET (1 .. k + 1), k + 1 \in s
          PROVE  /\ s \ {k + 1} \in SUBSET (1 .. k) /\ Highest(s) = k + 1
                 /\ w[s] = f[<<it[s \ {k + 1}], q[k + 1]>>]
                 /\ w[s \ {k + 1}] = it[s \ {k + 1}]
        <3>1. s \ {k + 1} \in SUBSET (1 .. k) /\ s \ {k + 1} \in SUBSET (1 .. k + 1)
              BY <2>2
        <3>2. \A j \in s : k + 1 >= j /\ j \in Nat
              BY <2>2
        <3>3. Highest(s) = k + 1
              BY <2>3, <3>2, HighestIs
        <3> QED BY <2>3, <3>1, <3>3
    <2>4. ASSUME NEW s \in SUBSET (1 .. k + 1), k + 1 \notin s
          PROVE  s \in SUBSET (1 .. k) /\ w[s] = it[s]
        <3>1. s \in SUBSET (1 .. k)
              BY <2>2, <2>4
        <3> QED BY <2>4, <3>1
    <2>5. \A s \in SUBSET (1 .. k + 1) : w[s] \in A
          BY <2>1, <2>2, <2>3, <2>4
    <2>6. w \in [SUBSET (1 .. k + 1) -> A]
          BY <2>5
    <2> HIDE DEF w
    <2>7. ASSUME NEW s \in SUBSET (1 .. k + 1)
          PROVE  w[s] = IF s = {} THEN base ELSE f[<<w[s \ {Highest(s)}], q[Highest(s)]>>]
        <3>1. CASE k + 1 \in s
              BY <2>3, <3>1
        <3>2. CASE k + 1 \notin s /\ s = {}
              BY <2>1, <2>4, <3>2 DEF Folds
        <3>3. CASE k + 1 \notin s /\ s # {}
            <4>1. s \in SUBSET (1 .. k) /\ w[s] = it[s]
                  BY <2>4, <3>3
            <4> DEFINE h == Highest(s)
            <4>2. h \in s
                  BY <2>2, <3>3, <4>1, HighestIn
            <4> HIDE DEF h
            <4>3. s \ {h} \in SUBSET (1 .. k + 1) /\ k + 1 \notin s \ {h}
                  BY <3>3
            <4>4. w[s \ {h}] = it[s \ {h}]
                  BY <2>4, <4>3
            <4>5. it[s] = f[<<it[s \ {h}], q[h]>>]
                  BY <2>1, <3>3, <4>1 DEF Folds, h
            <4> QED BY <3>3, <4>1, <4>4, <4>5 DEF h
        <3> QED BY <3>1, <3>2, <3>3
    <2>8. Folds(w, k + 1, f, base, q)
          BY <2>7 DEF Folds
    <2> QED BY <2>2, <2>6, <2>8
<1> HIDE DEF T
<1>3. \A k \in 0 .. n : k \in T
      BY <1>1, <1>2, SetInduction
<1>4. n \in T
      BY <1>3
<1> QED BY <1>4 DEF T

\* it folds f over the first k numbers for each k in turn.
FoldsFromTo(it, n, f, base, q, P) ==
    /\ it[{}] = base
    /\ \A k \in 0 .. n - 1 : it[1 .. k] \in P[k] => it[1 .. k + 1] = f[<<it[1 .. k], q[k + 1]>>]

\* What f leads from P[k] to P[k + 1] is at last in P[n].
LEMMA PrefixFold ==
    ASSUME NEW n \in Nat, NEW f, NEW base, NEW q, NEW P, NEW it, FoldsFromTo(it, n, f, base, q, P),
           base \in P[0],
           \A k \in 0 .. n - 1 : \A x \in P[k] : f[<<x, q[k + 1]>>] \in P[k + 1]
    PROVE  it[1 .. n] \in P[n]
<1> DEFINE T == {k \in 0 .. n : it[1 .. k] \in P[k]}
<1>1. 0 \in T
    <2>1. 0 \in 0 .. n /\ 1 .. 0 = {}
          OBVIOUS
    <2> QED BY <2>1 DEF FoldsFromTo
<1>2. ASSUME NEW k \in 0 .. n - 1, k \in T PROVE k + 1 \in T
    <2>1. k + 1 \in 0 .. n
          OBVIOUS
    <2> QED BY <1>2, <2>1 DEF FoldsFromTo
<1> HIDE DEF T
<1>3. \A k \in 0 .. n : k \in T
      BY <1>1, <1>2, SetInduction
<1>4. n \in T
      BY <1>3
<1> QED BY <1>4 DEF T

\* S holds what f makes of base and the first numbers of q, of 0 up to n of them.
Run(S, n, f, base, q) == S[0] = base /\ \A k \in 0 .. n - 1 : S[k + 1] = f[<<S[k], q[k + 1]>>]

\* it folds f, as long as it stays in A.
FoldsIn(it, n, f, base, q, A) ==
    /\ it[{}] = base
    /\ \A k \in 0 .. n - 1 : it[1 .. k] \in A => it[1 .. k + 1] = f[<<it[1 .. k], q[k + 1]>>]

\* S are the values that the fold it passes through.
RunOf(S, it, n, f, base, q) == Run(S, n, f, base, q) /\ S[n] = it[1 .. n]

LEMMA FoldRun ==
    ASSUME NEW A, NEW B, NEW f \in [A \X B -> A], NEW base \in A, NEW n \in Nat,
           NEW q, \A k \in 1 .. n : q[k] \in B, NEW it, FoldsIn(it, n, f, base, q, A)
    PROVE  \E S \in [0 .. n -> A] : RunOf(S, it, n, f, base, q)
<1> DEFINE T == {k \in 0 .. n : it[1 .. k] \in A}
           S == [k \in 0 .. n |-> it[1 .. k]]
<1> USE DEF FoldsIn
<1>1. 0 \in T
    <2>1. 0 \in 0 .. n /\ 1 .. 0 = {}
          OBVIOUS
    <2> QED BY <2>1
<1>2. ASSUME NEW k \in 0 .. n - 1, k \in T PROVE k + 1 \in T
    <2>1. k + 1 \in 0 .. n /\ k + 1 \in 1 .. n
          OBVIOUS
    <2>2. it[1 .. k] \in A /\ q[k + 1] \in B
          BY <1>2, <2>1
    <2> QED BY <2>1, <2>2
<1> HIDE DEF T
<1>3. \A k \in 0 .. n : k \in T
      BY <1>1, <1>2, SetInduction
<1>4. \A k \in 0 .. n : it[1 .. k] \in A
      BY <1>3 DEF T
<1>5. S \in [0 .. n -> A] /\ \A k \in 0 .. n : S[k] = it[1 .. k]
      BY <1>4
<1> HIDE DEF S
<1>6. 0 \in 0 .. n /\ n \in 0 .. n /\ \A k \in 0 .. n - 1 : k \in 0 .. n /\ k + 1 \in 0 .. n
      OBVIOUS
<1>7. S[0] = base
    <2>1. 1 .. 0 = {}
          OBVIOUS
    <2> QED BY <1>5, <1>6, <2>1
<1>8. Run(S, n, f, base, q)
      BY <1>4, <1>5, <1>6, <1>7 DEF Run
<1> QED BY <1>5, <1>6, <1>8 DEF RunOf

\* Two runs over what is the same up to n pass through the same values.
LEMMA RunsAgree ==
    ASSUME NEW n \in Nat, NEW f, NEW base, NEW q, NEW r, NEW S, NEW T,
           Run(S, n, f, base, q), Run(T, n, f, base, r), \A k \in 1 .. n : q[k] = r[k]
    PROVE  \A k \in 0 .. n : S[k] = T[k]
<1> DEFINE U == {k \in 0 .. n : S[k] = T[k]}
<1>1. 0 \in U
      BY DEF Run
<1>2. ASSUME NEW k \in 0 .. n - 1, k \in U PROVE k + 1 \in U
    <2>1. k + 1 \in 0 .. n /\ k + 1 \in 1 .. n
          OBVIOUS
    <2> QED BY <1>2, <2>1 DEF Run
<1> HIDE DEF U
<1>3. \A k \in 0 .. n : k \in U
      BY <1>1, <1>2, SetInduction
<1> QED BY <1>3 DEF U

\* The beginning of a run is a run.
LEMMA RunBegins ==
    ASSUME NEW n \in Nat, NEW m \in 0 .. n, NEW f, NEW base, NEW q, NEW S, Run(S, n, f, base, q)
    PROVE  Run(S, m, f, base, q)
<1>1. \A k \in 0 .. m - 1 : k \in 0 .. n - 1
      OBVIOUS
<1> QED BY <1>1 DEF Run

\* What T adds at m to S up to n, and values that are the same up to n.
GoesOn(T, m, S, n, f, r) == T[m] = f[<<S[n], r[m]>>]
Same(q, r, n) == \A k \in 1 .. n : q[k] = r[k]

\* A run over one more value goes on from where the run without it ended.
LEMMA RunAppend ==
    ASSUME NEW n \in Nat, NEW m \in Nat, m = n + 1, NEW f, NEW base, NEW q, NEW r, NEW S, NEW T,
           Run(S, n, f, base, q), Run(T, m, f, base, r), Same(q, r, n)
    PROVE  GoesOn(T, m, S, n, f, r)
<1>1. m \in Nat /\ n \in 0 .. m /\ n \in 0 .. n /\ n \in 0 .. m - 1
      OBVIOUS
<1>2. Run(T, n, f, base, r)
      BY <1>1, RunBegins
<1>3. S[n] = T[n]
      BY <1>1, <1>2, RunsAgree DEF Same
<1> QED BY <1>1, <1>3 DEF Run, GoesOn

\* S[k] is the sum of the first k of the numbers c.
SumsTo(S, n, c) == /\ S \in [0 .. n -> Nat] /\ S[0] = 0
                   /\ \A k \in 0 .. n - 1 : S[k + 1] = S[k] + c[k + 1]

\* There are such sums.
LEMMA SumsExist ==
    ASSUME NEW n \in Nat, NEW c \in [1 .. n -> Nat]
    PROVE  \E S : SumsTo(S, n, c)
<1> DEFINE f == [x \in Nat \X Nat |-> x[1] + x[2]]
           base == 0
<1>1. f \in [Nat \X Nat -> Nat] /\ base \in Nat /\ \A k \in 1 .. n : c[k] \in Nat
      OBVIOUS
<1>2. \A a, b \in Nat : f[<<a, b>>] = a + b
      OBVIOUS
<1> HIDE DEF f, base
<1>3. PICK w \in [SUBSET (1 .. n) -> Nat] : Folds(w, n, f, base, c)
      BY <1>1, FoldExists
<1> DEFINE S == [k \in 0 .. n |-> w[1 .. k]]
<1>4. S \in [0 .. n -> Nat]
    <2>1. \A k \in 0 .. n : 1 .. k \in SUBSET (1 .. n)
          OBVIOUS
    <2> QED BY <1>3, <2>1
<1>5. S[0] = 0
    <2>1. 1 .. 0 = {} /\ {} \in SUBSET (1 .. n) /\ 0 \in 0 .. n
          OBVIOUS
    <2>2. w[{}] = base
          BY <1>3, <2>1 DEF Folds
    <2> QED BY <2>1, <2>2 DEF base
<1>6. ASSUME NEW k \in 0 .. n - 1 PROVE S[k + 1] = S[k] + c[k + 1]
    <2>1. k \in Nat /\ k + 1 \in 1 .. n /\ k \in 0 .. n /\ k + 1 \in 0 .. n /\ 1 .. k + 1 \in SUBSET (1 .. n)
          OBVIOUS
    <2>2. Highest(1 .. k + 1) = k + 1 /\ (1 .. k + 1) \ {k + 1} = 1 .. k /\ 1 .. k + 1 # {}
          BY <2>1, HighestOfPrefix
    <2>3. w[1 .. k + 1] = f[<<w[1 .. k], c[k + 1]>>]
          BY <1>3, <2>1, <2>2 DEF Folds
    <2>4. S[k + 1] = w[1 .. k + 1] /\ S[k] = w[1 .. k] /\ S[k] \in Nat
          BY <1>4, <2>1
    <2> QED BY <1>1, <1>2, <2>1, <2>3, <2>4
<1> HIDE DEF S
<1>7. SumsTo(S, n, c)
      BY <1>4, <1>5, <1>6 DEF SumsTo
<1> QED BY <1>7

-----------------------------------------------------------------------------
(* Whole blocks.                                                            *)

LEMMA DivIs ==
    ASSUME NEW a \in Nat, NEW b \in Nat \ {0}
    PROVE  a \div b \in Nat /\ a % b \in 0 .. b - 1 /\ a = b * (a \div b) + (a % b)
  OBVIOUS

LEMMA MulMono ==
    ASSUME NEW b \in Nat \ {0}, NEW p \in Nat, NEW q \in Nat, p < q
    PROVE  b * p + b <= b * q
  OBVIOUS

\* There is one quotient.
LEMMA DivUnique ==
    ASSUME NEW b \in Nat \ {0}, NEW p \in Nat, NEW q \in Nat, NEW r \in 0 .. b - 1, NEW s \in 0 .. b - 1,
           b * p + r = b * q + s
    PROVE  p = q
<1>1. b * p \in Nat /\ b * q \in Nat
      OBVIOUS
<1>2. CASE p < q
      BY <1>1, <1>2, MulMono
<1>3. CASE q < p
      BY <1>1, <1>3, MulMono
<1> QED BY <1>2, <1>3

\* Two ways to count the whole blocks that a size takes.
LEMMA RoundUp ==
    ASSUME NEW b \in Nat \ {0}, NEW size \in Nat
    PROVE  /\ (size + b - 1) \div b \in Nat
           /\ (size \div b + 1) * b + (IF size % b # 0 THEN b ELSE 0) = b * (1 + ((size + b - 1) \div b))
<1> DEFINE q == size \div b
           r == size % b
           top == size + b - 1
           u == top \div b
           v == top % b
<1>1. q \in Nat /\ r \in 0 .. b - 1 /\ size = b * q + r
      BY DivIs
<1>2. top \in Nat
      OBVIOUS
<1>3. u \in Nat /\ v \in 0 .. b - 1 /\ top = b * u + v
    <2> HIDE DEF top
    <2> QED BY <1>2, DivIs
<1> HIDE DEF q, r, u, v
<1>4. /\ b * q \in Nat /\ b * u \in Nat
      /\ b * (q + 1) = b * q + b /\ (q + 1) * b = b * q + b /\ b * (1 + u) = b * u + b
      BY <1>1, <1>3
<1>5. CASE r = 0
    <2>1. b * q + (b - 1) = b * u + v /\ b - 1 \in 0 .. b - 1
          BY <1>1, <1>3, <1>4, <1>5
    <2>2. u = q
          BY <1>1, <1>3, <2>1, DivUnique
    <2> QED BY <1>1, <1>3, <1>4, <1>5, <2>2 DEF q, r, u
<1>6. CASE r # 0
    <2>1. b * (q + 1) + (r - 1) = b * u + v /\ r - 1 \in 0 .. b - 1 /\ q + 1 \in Nat
          BY <1>1, <1>3, <1>4, <1>6
    <2>2. u = q + 1
          BY <1>1, <1>3, <2>1, DivUnique
    <2> QED BY <1>1, <1>3, <1>4, <1>6, <2>2 DEF q, r, u
<1> QED BY <1>5, <1>6
=============================================================================
