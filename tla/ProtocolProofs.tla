----------------------------- MODULE ProtocolProofs -----------------------------
(***************************************************************************)
(* What the pure functions of the protocol compute, for every line and     *)
(* every list of lines: Parse returns exactly the command that the grammar *)
(* gives to a line, and Served serves the lines one after the other.       *)
(*                                                                         *)
(* Folds are defined by choosing a function that satisfies a recursive     *)
(* equation.  That one exists, and what its values are, is shown by least  *)
(* counterexample: NatLeast takes the smallest number for which a claim    *)
(* fails.                                                                  *)
(***************************************************************************)
EXTENDS Grammar, Executor, Ranks, SequenceTheorems, FiniteSetTheorems, WellFoundedInduction, TLAPS

\* A set of naturals that is not empty has a least element: induction over
\* data, in a form that asks for no operator.
LEMMA NatLeast ==
    ASSUME NEW T, T \subseteq Nat, T # {}
    PROVE  \E n \in T : \A m \in T : n <= m
<1> DEFINE R == {ss \in Nat \X Nat : ss[1] < ss[2]}
<1>1. IsWellFoundedOn(R, Nat)
  BY NatLessThanWellFounded DEF OpToRel
<1> HIDE DEF R
<1>2. \E n \in T : \A m \in T : ~ (<<m, n>> \in R)
  BY <1>1, WFMin
<1>3. \A m, n \in Nat : <<m, n>> \in R <=> m < n
  BY DEF R
<1>4. PICK n \in T : \A m \in T : ~ (<<m, n>> \in R)
  BY <1>2
<1>5. \A m \in T : n <= m
  <2> TAKE m \in T
  <2>1. m \in Nat /\ n \in Nat
    OBVIOUS
  <2>2. ~(m < n)
    BY <1>3, <1>4, <2>1
  <2> QED
    BY <2>1, <2>2
<1> QED
  BY <1>5

\* The greatest number of a set is its maximum.
LEMMA MaxIs ==
    ASSUME NEW S \in SUBSET Int, NEW m \in S, \A y \in S : m >= y
    PROVE  Max(S) = m
<1>1. \A x \in S : (\A y \in S : x >= y) => x = m
  <2> SUFFICES ASSUME NEW x \in S, \A y \in S : x >= y PROVE x = m
    OBVIOUS
  <2>1. x >= m /\ m >= x /\ x \in Int /\ m \in Int
    OBVIOUS
  <2> QED
    BY <2>1
<1>2. Max(S) \in S /\ \A y \in S : Max(S) >= y
  BY DEF Max
<1> QED
  BY <1>1, <1>2

\* The least number of a set is its minimum.
LEMMA MinIs ==
    ASSUME NEW S \in SUBSET Int, NEW m \in S, \A y \in S : m <= y
    PROVE  Min(S) = m
<1>1. \A x \in S : (\A y \in S : x <= y) => x = m
  <2> SUFFICES ASSUME NEW x \in S, \A y \in S : x <= y PROVE x = m
    OBVIOUS
  <2>1. x >= m /\ m >= x /\ x \in Int /\ m \in Int
    OBVIOUS
  <2> QED
    BY <2>1
<1>2. Min(S) \in S /\ \A y \in S : Min(S) <= y
  BY DEF Min
<1> QED
  BY <1>1, <1>2

\* A set of naturals with a bound has a greatest element.
LEMMA NatGreatest ==
    ASSUME NEW T, T \subseteq Nat, T # {}, NEW b \in Nat, \A t \in T : t <= b
    PROVE  \E n \in T : \A m \in T : m <= n
<1> DEFINE U == {u \in Nat : \A t \in T : t <= u}
<1>1. PICK n \in U : \A m \in U : n <= m
  BY NatLeast
<1>2. n \in T
  <2> SUFFICES ASSUME n \notin T PROVE FALSE
    OBVIOUS
  <2>1. PICK t \in T : TRUE
    OBVIOUS
  <2>2. n # 0
    BY <2>1
  <2>3. n - 1 \in U
    BY <2>2
  <2> QED
    BY <1>1, <2>3
<1> QED
  BY <1>2

\* The smaller of two numbers.
LEMMA MinTwo ==
    ASSUME NEW a \in Nat, NEW b \in Nat
    PROVE  Min({a, b}) = IF a <= b THEN a ELSE b
<1>1. {a, b} \in SUBSET Int
  OBVIOUS
<1>2. CASE a <= b
  <2>1. \A y \in {a, b} : a <= y
    BY <1>2
  <2>2. Min({a, b}) = a
    BY <1>1, <2>1, MinIs
  <2> QED
    BY <1>2, <2>2
<1>3. CASE ~(a <= b)
  <2>1. \A y \in {a, b} : b <= y
    BY <1>3
  <2>2. Min({a, b}) = b
    BY <1>1, <2>1, MinIs
  <2> QED
    BY <1>3, <2>2
<1> QED
  BY <1>2, <1>3

\* The minimum of a set of naturals is one of them.
LEMMA MinIn ==
    ASSUME NEW S \in SUBSET Nat, S # {}
    PROVE  Min(S) \in S
<1>1. PICK m \in S : \A y \in S : m <= y
  BY NatLeast
<1>2. S \in SUBSET Int
  OBVIOUS
<1>3. Min(S) = m
  BY <1>1, <1>2, MinIs
<1> QED
  BY <1>3

--------------------------------------------------------------------------------
(* Parts of sequences. *)

\* Sequences that agree up to n have the same parts up to n.
LEMMA SamePart ==
    ASSUME NEW A, NEW s \in Seq(A), NEW t \in Seq(A), NEW n \in Nat, n <= Len(s), n <= Len(t),
           \A k \in 1..n : t[k] = s[k],
           NEW i \in 1..(n + 1), NEW j \in 0..n
    PROVE  SubSeq(t, i, j) = SubSeq(s, i, j)
<1>1. (\A k \in i..j : t[k] \in A) /\ (\A k \in i..j : s[k] \in A)
  OBVIOUS
<1> DEFINE a == SubSeq(t, i, j)
           b == SubSeq(s, i, j)
<1>2. /\ a \in Seq(A) /\ Len(a) = IF i <= j THEN j - i + 1 ELSE 0
      /\ \A k \in 1..(j - i + 1) : a[k] = t[i + k - 1]
  BY <1>1, SubSeqProperties
<1>3. /\ b \in Seq(A) /\ Len(b) = IF i <= j THEN j - i + 1 ELSE 0
      /\ \A k \in 1..(j - i + 1) : b[k] = s[i + k - 1]
  BY <1>1, SubSeqProperties
<1> HIDE DEF a, b
<1>4. \A k \in 1..Len(a) : a[k] = b[k]
  <2> TAKE k \in 1..Len(a)
  <2>1. k \in 1..(j - i + 1) /\ i + k - 1 \in 1..n
    BY <1>2
  <2> QED
    BY <1>2, <1>3, <2>1
<1>5. a = b
  BY <1>2, <1>3, <1>4, SeqEqual
<1> QED
  BY <1>5 DEF a, b

\* The first a atoms of a text.
LEMMA PrefixIs ==
    ASSUME NEW A, NEW t \in Seq(A), NEW a \in 0..Len(t)
    PROVE  /\ SubSeq(t, 1, a) \in Seq(A) /\ Len(SubSeq(t, 1, a)) = a
           /\ \A k \in 1..a : SubSeq(t, 1, a)[k] = t[k]
<1>1. \A i \in 1..a : t[i] \in A
  OBVIOUS
<1>2. a \in Nat /\ Len(t) \in Nat /\ a <= Len(t)
  OBVIOUS
<1>3. /\ SubSeq(t, 1, a) \in Seq(A)
      /\ Len(SubSeq(t, 1, a)) = IF 1 <= a THEN a - 1 + 1 ELSE 0
      /\ \A k \in 1..(a - 1 + 1) : SubSeq(t, 1, a)[k] = t[1 + k - 1]
  BY <1>1, <1>2, SubSeqProperties
<1> QED
  BY <1>2, <1>3

\* A function on 1..n is a sequence of its own elements.
LEMMA OwnRange ==
    ASSUME NEW f, NEW n \in Nat, f = [i \in 1..n |-> f[i]]
    PROVE  f \in Seq(Range(f)) /\ Len(f) = n
<1>1. f \in [1..n -> Range(f)]
  BY DEF Range
<1>2. f \in Seq(Range(f))
  BY <1>1, SeqDef
<1> QED
  BY <1>1, <1>2

\* The last element and the rest of an extended sequence.
LEMMA AppendEnds ==
    ASSUME NEW A, NEW s \in Seq(A), NEW x
    PROVE  /\ Front(Append(s, x)) = s /\ Last(Append(s, x)) = x
           /\ Append(s, x) # <<>> /\ Append(s, x) \in Seq(Range(Append(s, x)))
<1> DEFINE B == A \cup {x}
           t == Append(s, x)
<1>1. s \in Seq(B) /\ Len(s) \in Nat
  BY SeqMonotonic, LenProperties
<1>2. t \in Seq(B) /\ Len(t) = Len(s) + 1 /\ t[Len(s) + 1] = x /\ \A i \in 1..Len(s) : t[i] = s[i]
  BY <1>1, AppendProperties
<1> HIDE DEF t
<1>3. Last(t) = x
  BY <1>1, <1>2 DEF Last
<1>4. SubSeq(t, 1, Len(s)) = SubSeq(s, 1, Len(s))
  <2>1. Len(s) <= Len(s) /\ Len(s) <= Len(t) /\ 1 \in 1..(Len(s) + 1) /\ Len(s) \in 0..Len(s)
    BY <1>1, <1>2
  <2> QED
    BY <1>1, <1>2, <2>1, SamePart
<1>5. Front(t) = s
  <2>1. Len(t) - 1 = Len(s)
    BY <1>1, <1>2
  <2>2. SubSeq(s, 1, Len(s)) = s
    BY <1>1, SubSeqFull
  <2> QED
    BY <1>4, <2>1, <2>2 DEF Front
<1>6. t # <<>>
  BY <1>1, <1>2
<1>7. t = [i \in 1..Len(t) |-> t[i]] /\ Len(t) \in Nat
  BY <1>1, <1>2
<1>8. t \in Seq(Range(t))
  BY <1>7, OwnRange
<1> QED
  BY <1>3, <1>5, <1>6, <1>8 DEF t

\* A sequence that is not empty is its front and its last element.
LEMMA FrontAndLast ==
    ASSUME NEW A, NEW s \in Seq(A), s # <<>>
    PROVE  Front(s) \in Seq(A) /\ Last(s) \in A /\ s = Append(Front(s), Last(s))
<1>1. PICK n \in Nat : Len(s) = n + 1
  <2>1. Len(s) \in Nat \ {0}
    BY EmptySeq
  <2>2. Len(s) - 1 \in Nat /\ Len(s) = (Len(s) - 1) + 1
    BY <2>1
  <2> QED
    BY <2>2
<1> DEFINE f == Front(s)
           l == Last(s)
<1>2. f \in Seq(A) /\ Len(f) = n /\ \A i \in 1..n : f[i] = s[i]
  <2>1. n \in 0..Len(s) /\ Len(s) - 1 = n
    BY <1>1
  <2> QED
    BY <2>1, PrefixIs DEF Front
<1>3. l \in A /\ l = s[n + 1]
  <2>1. n + 1 \in 1..Len(s)
    BY <1>1
  <2> QED
    BY <1>1, <2>1, ElementOfSeq DEF Last
<1> HIDE DEF f, l
<1>4. /\ Append(f, l) \in Seq(A) /\ Len(Append(f, l)) = n + 1
      /\ Append(f, l)[n + 1] = l /\ \A i \in 1..n : Append(f, l)[i] = f[i]
  BY <1>2, <1>3, AppendProperties
<1>5. \A i \in 1..(n + 1) : s[i] = Append(f, l)[i]
  BY <1>2, <1>3, <1>4
<1>6. s = Append(f, l)
  BY <1>1, <1>4, <1>5, SeqEqual
<1> QED
  BY <1>2, <1>3, <1>6 DEF f, l

--------------------------------------------------------------------------------
(* The elements of a set of numbers in order. *)

\* A set of numbers up to m is finite, and so are its initial parts.
LEMMA BoundedFinite ==
    ASSUME NEW m \in Nat, NEW S \in SUBSET (1..m)
    PROVE  IsFiniteSet(S) /\ Cardinality(S) \in Nat
<1>1. S \in SUBSET Nat /\ \A x \in S : x <= m
  OBVIOUS
<1> QED
  BY <1>1, FS_BoundedSetOfNaturals, FS_CardinalityType

\* A number above all others comes last, and leaves the ranks of the others.
LEMMA RankAdd ==
    ASSUME NEW m \in Nat, NEW S \in SUBSET (1..m), NEW e \in Nat, e > m, NEW T, T = S \cup {e}
    PROVE  /\ Cardinality(T) = Cardinality(S) + 1
           /\ Rank(T, e) = Cardinality(S) + 1
           /\ \A y \in S : Rank(T, y) = Rank(S, y) /\ Rank(S, y) \in 0..Cardinality(S)
<1>1. e \notin S
  OBVIOUS
<1>2. Cardinality(T) = Cardinality(S) + 1
  BY <1>1, BoundedFinite, FS_AddElement
<1>3. {x \in T : x <= e} = T
  <2>1. \A x \in T : x <= e
    OBVIOUS
  <2> QED
    BY <2>1
<1>4. ASSUME NEW y \in S
      PROVE  Rank(T, y) = Rank(S, y) /\ Rank(S, y) \in 0..Cardinality(S)
  <2>1. {x \in T : x <= y} = {x \in S : x <= y}
    OBVIOUS
  <2>2. Cardinality({x \in S : x <= y}) \in Nat /\ Cardinality({x \in S : x <= y}) <= Cardinality(S)
    <3>1. {x \in S : x <= y} \in SUBSET S /\ {x \in S : x <= y} \in SUBSET (1..m)
      OBVIOUS
    <3> QED
      BY <3>1, BoundedFinite, FS_Subset
  <2> QED
    BY <2>1, <2>2, BoundedFinite DEF Rank
<1> QED
  BY <1>2, <1>3, <1>4 DEF Rank

\* Every rank up to the number of elements is taken.
LEMMA RankExists ==
    \A m \in Nat : \A S \in SUBSET (1..m) : \A n \in 1..Cardinality(S) : \E e \in S : Rank(S, e) = n
<1> DEFINE Good(m) == \A S \in SUBSET (1..m) : \A n \in 1..Cardinality(S) : \E e \in S : Rank(S, e) = n
           Bad == {m \in Nat : ~Good(m)}
<1> SUFFICES ASSUME Bad # {} PROVE FALSE
  OBVIOUS
<1>1. PICK m \in Bad : \A k \in Bad : m <= k
  BY NatLeast
<1>2. m # 0
  <2>1. ASSUME NEW S \in SUBSET (1..0) PROVE Cardinality(S) = 0
    <3>1. S = {}
      OBVIOUS
    <3> QED
      BY <3>1, FS_EmptySet
  <2>2. Good(0)
    BY <2>1
  <2> QED
    BY <2>2
<1>3. m - 1 \in Nat /\ Good(m - 1)
  BY <1>1, <1>2
<1>4. Good(m)
  <2> SUFFICES ASSUME NEW S \in SUBSET (1..m), NEW n \in 1..Cardinality(S)
               PROVE  \E e \in S : Rank(S, e) = n
    OBVIOUS
  <2>1. CASE m \notin S
    <3>1. S \in SUBSET (1..(m - 1))
      BY <1>3, <2>1
    <3> QED
      BY <1>3, <3>1
  <2>2. CASE m \in S
    <3> DEFINE R == S \ {m}
    <3>1. R \in SUBSET (1..(m - 1)) /\ S = R \cup {m} /\ m > m - 1
      BY <1>3, <2>2
    <3> HIDE DEF R, Bad, Good
    <3>2. /\ Cardinality(S) = Cardinality(R) + 1 /\ Rank(S, m) = Cardinality(R) + 1
          /\ \A y \in R : Rank(S, y) = Rank(R, y)
      <4>1. PICK k \in Nat : k = m - 1
        BY <1>3
      <4>2. R \in SUBSET (1..k) /\ m \in Nat /\ m > k /\ S = R \cup {m}
        BY <3>1, <4>1 DEF Bad
      <4> QED
        BY <4>2, RankAdd
    <3>3. Cardinality(R) \in Nat
      BY <1>3, <3>1, BoundedFinite
    <3>4. CASE n = Cardinality(R) + 1
      BY <2>2, <3>2, <3>4
    <3>5. CASE n \in 1..Cardinality(R)
      <4>1. PICK e \in R : Rank(R, e) = n
        BY <1>3, <3>1, <3>5 DEF Good
      <4> QED
        BY <3>1, <3>2, <4>1
    <3> QED
      BY <3>2, <3>3, <3>4, <3>5
  <2> QED
    BY <2>1, <2>2
<1> QED
  BY <1>4

\* Every set has an n-th element, up to their number.
LEMMA NthIn ==
    ASSUME NEW m \in Nat, NEW S \in SUBSET (1..m), NEW n \in 1..Cardinality(S)
    PROVE  Nth(S, n) \in S /\ Rank(S, Nth(S, n)) = n
<1>1. \E e \in S : Rank(S, e) = n
  BY RankExists
<1> QED
  BY <1>1 DEF Nth

\* A number above all others comes last.
LEMMA NthAdd ==
    ASSUME NEW m \in Nat, NEW S \in SUBSET (1..m), NEW e \in Nat, e > m, NEW T, T = S \cup {e}
    PROVE  /\ Cardinality(T) = Cardinality(S) + 1
           /\ Nth(T, Cardinality(S) + 1) = e
<1>1. Cardinality(S) \in Nat
  BY BoundedFinite
<1>2. /\ Cardinality(T) = Cardinality(S) + 1
      /\ Rank(T, e) = Cardinality(S) + 1
      /\ \A y \in S : Rank(T, y) = Rank(S, y) /\ Rank(S, y) \in 0..Cardinality(S)
  BY RankAdd
<1>3. \A x \in T : (Rank(T, x) = Cardinality(S) + 1) <=> x = e
  <2>1. ASSUME NEW x \in S
        PROVE  x # e /\ Rank(T, x) # Cardinality(S) + 1
    <3>1. Rank(T, x) \in 0..Cardinality(S)
      BY <1>2
    <3>2. Rank(T, x) <= Cardinality(S)
      BY <1>1, <3>1
    <3> QED
      BY <1>1, <3>1, <3>2
  <2> QED
    BY <1>2, <2>1
<1>4. Nth(T, Cardinality(S) + 1) = e
  BY <1>3 DEF Nth
<1> QED
  BY <1>2, <1>4

\* The others keep their places.
LEMMA NthKeeps ==
    ASSUME NEW m \in Nat, NEW S \in SUBSET (1..m), NEW e \in Nat, e > m, NEW T, T = S \cup {e},
           NEW n \in 1..Cardinality(S)
    PROVE  Nth(T, n) = Nth(S, n)
<1>1. Cardinality(S) \in Nat
  BY BoundedFinite
<1>2. /\ Rank(T, e) = Cardinality(S) + 1
      /\ \A y \in S : Rank(T, y) = Rank(S, y)
  BY RankAdd
<1>3. n # Cardinality(S) + 1
  BY <1>1
<1>4. \A x : (x \in T /\ Rank(T, x) = n) <=> (x \in S /\ Rank(S, x) = n)
  BY <1>2, <1>3, Zenon
<1> QED
  BY <1>4 DEF Nth

\* The largest number of a set comes last.
LEMMA NthTop ==
    ASSUME NEW m \in Nat, NEW S \in SUBSET (1..m), m \in S
    PROVE  Cardinality(S) \in Nat \ {0} /\ Nth(S, Cardinality(S)) = m
<1>1. PICK k \in Nat : k = m - 1
  OBVIOUS
<1>2. PICK R \in SUBSET (1..k) : S = R \cup {m}
  <2>1. S \ {m} \in SUBSET (1..k) /\ S = (S \ {m}) \cup {m}
    BY <1>1
  <2> QED
    BY <2>1
<1>3. Cardinality(R) \in Nat
  BY BoundedFinite
<1>4. Cardinality(S) = Cardinality(R) + 1 /\ Nth(S, Cardinality(R) + 1) = m
  <2>1. m > k
    BY <1>1
  <2> QED
    BY <1>2, <2>1, NthAdd
<1> QED
  BY <1>3, <1>4

\* No two elements have the same rank, so the n-th element is the one of rank n.
LEMMA RankOnce ==
    ASSUME NEW m \in Nat, NEW S \in SUBSET (1..m), NEW x \in S
    PROVE  Rank(S, x) \in 1..Cardinality(S) /\ Nth(S, Rank(S, x)) = x
<1>1. ASSUME NEW a \in S, NEW b \in S, Rank(S, a) = Rank(S, b), a <= b
      PROVE  a = b
  <2> DEFINE A == {y \in S : y <= a}
             B == {y \in S : y <= b}
  <2>1. A \in SUBSET B /\ B \in SUBSET (1..m) /\ b \in B
    <3>1. ASSUME NEW y \in A PROVE y \in B
      <4>1. y \in S /\ y \in Nat /\ a \in Nat /\ b \in Nat /\ y <= a
        OBVIOUS
      <4>2. y <= b
        BY <1>1, <4>1
      <4> QED
        BY <4>1, <4>2
    <3>2. B \in SUBSET (1..m)
      OBVIOUS
    <3>3. b \in B
      OBVIOUS
    <3> QED
      BY <3>1, <3>2, <3>3
  <2>2. IsFiniteSet(B)
    BY <2>1, BoundedFinite
  <2>3. Cardinality(A) = Cardinality(B)
    BY <1>1 DEF Rank
  <2> HIDE DEF A, B
  <2>4. A = B
    BY <2>1, <2>2, <2>3, FS_Subset
  <2>5. b <= a
    BY <2>1, <2>4 DEF A
  <2> QED
    BY <1>1, <2>5
<1>2. \A y \in S : Rank(S, y) = Rank(S, x) => y = x
  <2> SUFFICES ASSUME NEW y \in S, Rank(S, y) = Rank(S, x) PROVE y = x
    OBVIOUS
  <2>1. y <= x \/ x <= y
    OBVIOUS
  <2> QED
    BY <1>1, <2>1
<1>3. Rank(S, x) \in 1..Cardinality(S)
  <2> DEFINE A == {y \in S : y <= x}
  <2>1. A \in SUBSET S /\ A \in SUBSET (1..m) /\ A # {}
    <3>1. x \in A
      OBVIOUS
    <3> QED
      BY <3>1
  <2>2. IsFiniteSet(A) /\ IsFiniteSet(S) /\ Cardinality(A) \in Nat /\ Cardinality(S) \in Nat
    BY <2>1, BoundedFinite
  <2> HIDE DEF A
  <2>3. Cardinality(A) <= Cardinality(S) /\ Cardinality(A) # 0
    BY <2>1, <2>2, FS_Subset, FS_EmptySet
  <2> QED
    BY <2>2, <2>3 DEF Rank, A
<1> QED
  BY <1>2, <1>3 DEF Nth

--------------------------------------------------------------------------------
(* What Served computes. *)

\* The function by which the fold computes: the last line of a set on top.
IterDef(g, lines, n) ==
    g = [s \in SUBSET (1..n) |->
            IF s = {} THEN Unserved ELSE ServeLine(g[s \ {Max(s)}], lines[Max(s)])]

\* Served reads off the value of a function on sets of line numbers.
LEMMA ServedUnfold ==
    ASSUME NEW lines, NEW n \in Nat, DOMAIN lines = 1..n
    PROVE  Served(lines) = (CHOOSE g : IterDef(g, lines, n))[1..n]
  BY DEF Served, FoldLeft, MapThenFoldSet, IterDef

\* n + 1 is the largest index of a set that holds it.
LEMMA MaxTop ==
    ASSUME NEW n \in Nat, NEW s \in SUBSET (1..(n + 1)), n + 1 \in s
    PROVE  Max(s) = n + 1
  BY MaxIs

\* Such a function exists for every number of lines.
LEMMA IterExists ==
    ASSUME NEW lines
    PROVE  \A n \in Nat : \E g : IterDef(g, lines, n)
<1> DEFINE Bad == {n \in Nat : ~ \E g : IterDef(g, lines, n)}
<1> SUFFICES ASSUME Bad # {} PROVE FALSE
  OBVIOUS
<1>1. PICK n \in Bad : \A m \in Bad : n <= m
  BY NatLeast
<1>2. n # 0
  <2>1. SUBSET (1..0) = {{}}
    OBVIOUS
  <2>2. IterDef([s \in SUBSET (1..0) |-> Unserved], lines, 0)
    BY <2>1 DEF IterDef
  <2> QED
    BY <2>2
<1>3. PICK m \in Nat : n = m + 1 /\ m \notin Bad
  BY <1>1, <1>2
<1>4. PICK g : IterDef(g, lines, m)
  BY <1>3
<1> DEFINE h == [s \in SUBSET (1..n) |->
                    IF n \in s THEN ServeLine(g[s \ {n}], lines[n]) ELSE g[s]]
<1>5. IterDef(h, lines, n)
  <2>1. ASSUME NEW s \in SUBSET (1..n)
        PROVE  h[s] = IF s = {} THEN Unserved ELSE ServeLine(h[s \ {Max(s)}], lines[Max(s)])
    <3>1. CASE n \in s
      <4>1. Max(s) = n /\ s \ {n} \in SUBSET (1..n) /\ n \notin s \ {n}
        BY <1>3, <3>1, MaxTop
      <4>2. h[s \ {n}] = g[s \ {n}]
        BY <4>1
      <4> QED
        BY <3>1, <4>1, <4>2
    <3>2. CASE n \notin s
      <4>1. s \in SUBSET (1..m) /\ h[s] = g[s]
        BY <1>3, <3>2
      <4>2. CASE s = {}
        BY <1>4, <4>1, <4>2 DEF IterDef
      <4>3. CASE s # {}
        <5>1. g[s] = ServeLine(g[s \ {Max(s)}], lines[Max(s)])
          BY <1>4, <4>1, <4>3 DEF IterDef
        <5>2. h[s \ {Max(s)}] = g[s \ {Max(s)}]
          BY <1>3, <3>2
        <5> QED
          BY <4>1, <4>3, <5>1, <5>2
      <4> QED
        BY <4>2, <4>3
    <3> QED
      BY <3>1, <3>2
  <2> QED
    BY <2>1 DEF IterDef
<1> QED
  BY <1>5

\* It serves line m on top of the lines before it.
LEMMA IterTop ==
    ASSUME NEW lines, NEW n \in Nat, NEW g, IterDef(g, lines, n), NEW m \in 1..n
    PROVE  g[1..m] = ServeLine(g[1..(m - 1)], lines[m])
<1>1. 1..m \in SUBSET (1..n) /\ 1..m # {} /\ m \in 1..m
  OBVIOUS
<1>2. Max(1..m) = m
  <2>1. 1..m \in SUBSET Int /\ \A y \in 1..m : m >= y
    OBVIOUS
  <2> QED
    BY <1>1, <2>1, MaxIs
<1>3. (1..m) \ {m} = 1..(m - 1)
  OBVIOUS
<1>4. g[1..m] = ServeLine(g[(1..m) \ {Max(1..m)}], lines[Max(1..m)])
  BY <1>1 DEF IterDef
<1> QED
  BY <1>2, <1>3, <1>4

\* Served is computed by such a function.
LEMMA ServedIter ==
    ASSUME NEW lines, NEW n \in Nat, DOMAIN lines = 1..n
    PROVE  \E g : IterDef(g, lines, n) /\ Served(lines) = g[1..n]
<1>1. IterDef(CHOOSE g : IterDef(g, lines, n), lines, n)
  BY IterExists
<1> QED
  BY <1>1, ServedUnfold

\* Without a line nothing is served.
LEMMA ServedEmpty == Served(<<>>) = Unserved
<1>1. PICK g : IterDef(g, <<>>, 0) /\ Served(<<>>) = g[1..0]
  <2>1. PICK none : none = <<>>
    OBVIOUS
  <2>2. DOMAIN none = 1..0 /\ 0 \in Nat
    BY <2>1
  <2>3. \E h : IterDef(h, none, 0) /\ Served(none) = h[1..0]
    BY <2>2, ServedIter
  <2> QED
    BY <2>1, <2>3
<1>2. 1..0 = {} /\ {} \in SUBSET (1..0)
  OBVIOUS
<1>3. g[{}] = Unserved
  BY <1>1, <1>2 DEF IterDef
<1> QED
  BY <1>1, <1>2, <1>3

\* One more line is served after all the others: what Served computes, for
\* line lists of any length.
LEMMA ServedAppend ==
    ASSUME NEW A, NEW ls \in Seq(A), NEW l \in A
    PROVE  Served(Append(ls, l)) = ServeLine(Served(ls), l)
<1> DEFINE n == Len(ls)
           ext == Append(ls, l)
<1>1. /\ n \in Nat /\ DOMAIN ls = 1..n /\ DOMAIN ext = 1..(n + 1)
      /\ ext[n + 1] = l /\ \A i \in 1..n : ext[i] = ls[i]
  BY AppendProperties
<1> HIDE DEF ext, n
<1>2. PICK g : IterDef(g, ls, n) /\ Served(ls) = g[1..n]
  BY <1>1, ServedIter
<1>3. PICK h : IterDef(h, ext, n + 1) /\ Served(ext) = h[1..(n + 1)]
  <2>1. n + 1 \in Nat
    BY <1>1
  <2> QED
    BY <1>1, <2>1, ServedIter
<1>4. h[1..n] = g[1..n]
  <2> DEFINE Bad == {m \in 0..n : h[1..m] # g[1..m]}
  <2> SUFFICES ASSUME Bad # {} PROVE FALSE
    BY <1>1
  <2>1. PICK m \in Bad : \A k \in Bad : m <= k
    <3>1. Bad \subseteq Nat
      BY <1>1
    <3> QED
      BY <3>1, NatLeast
  <2>2. m # 0
    <3>1. 1..0 = {}
      OBVIOUS
    <3>2. g[1..0] = Unserved /\ h[1..0] = Unserved
      BY <1>1, <1>2, <1>3, <3>1 DEF IterDef
    <3> QED
      BY <3>2
  <2>3. m - 1 \notin Bad /\ m - 1 \in 0..n /\ m \in 1..n
    BY <1>1, <2>1, <2>2
  <2>4. g[1..m] = ServeLine(g[1..(m - 1)], ls[m])
    <3>1. m \in 1..n /\ n \in Nat
      BY <1>1, <2>3
    <3> QED
      BY <1>2, <3>1, IterTop
  <2>5. h[1..m] = ServeLine(h[1..(m - 1)], ext[m])
    <3>1. m \in 1..(n + 1) /\ n + 1 \in Nat
      BY <1>1, <2>3
    <3> QED
      BY <1>3, <3>1, IterTop
  <2> QED
    BY <1>1, <2>3, <2>4, <2>5
<1>5. h[1..(n + 1)] = ServeLine(h[1..n], ext[n + 1])
  <2>1. n + 1 \in 1..(n + 1) /\ n + 1 \in Nat /\ (n + 1) - 1 = n
    BY <1>1
  <2>2. h[1..(n + 1)] = ServeLine(h[1..((n + 1) - 1)], ext[n + 1])
    BY <1>3, <2>1, IterTop
  <2> QED
    BY <2>1, <2>2
<1> QED
  BY <1>1, <1>2, <1>3, <1>4, <1>5 DEF ext

--------------------------------------------------------------------------------
(* What TrimRight, SplitN and Parse compute. *)

\* TrimRight cuts off the carriage returns and line feeds at the end.
Trims(s, k) ==
    /\ k \in 0..Len(s)
    /\ k > 0 => s[k] \notin {CR, LF}
    /\ \A i \in (k + 1)..Len(s) : s[i] \in {CR, LF}

\* TrimRight cuts exactly there.
LEMMA TrimIs ==
    ASSUME NEW A, NEW s \in Seq(A), NEW k, Trims(s, k)
    PROVE  TrimRight(s) = SubSeq(s, 1, k)
<1> DEFINE S == {0} \cup {i \in DOMAIN s : s[i] \notin {CR, LF}}
<1>1. S \in SUBSET Int /\ k \in S
  BY DEF Trims
<1>2. \A y \in S : k >= y
  BY DEF Trims
<1>3. Max(S) = k
  BY <1>1, <1>2, MaxIs
<1> QED
  BY <1>3 DEF TrimRight

\* There is a place to cut.
LEMMA TrimExists ==
    ASSUME NEW A, NEW s \in Seq(A)
    PROVE  \E k : Trims(s, k)
<1> DEFINE S == {0} \cup {i \in DOMAIN s : s[i] \notin {CR, LF}}
<1>1. S \subseteq Nat /\ S # {} /\ Len(s) \in Nat /\ \A i \in S : i <= Len(s)
  OBVIOUS
<1>2. PICK k \in S : \A m \in S : m <= k
  BY <1>1, NatGreatest
<1>3. Trims(s, k)
  BY <1>1, <1>2 DEF Trims
<1> QED
  BY <1>3

\* The three cases of SplitN, with the set of the blanks named.
LEMMA SplitCases ==
    ASSUME NEW t, NEW B, B = {i \in DOMAIN t : t[i] = SP}
    PROVE  LET i == Min(B)
               j == Min(B \ {i})
           IN  /\ B = {} => SplitN(t) = <<t>>
               /\ Cardinality(B) = 1 => SplitN(t) = <<SubSeq(t, 1, i - 1), SubSeq(t, i + 1, Len(t))>>
               /\ B # {} /\ Cardinality(B) # 1 =>
                     SplitN(t) = <<SubSeq(t, 1, i - 1), SubSeq(t, i + 1, j - 1), SubSeq(t, j + 1, Len(t))>>
<1> DEFINE i == Min(B)
           j == Min(B \ {i})
           one == <<t>>
           two == <<SubSeq(t, 1, i - 1), SubSeq(t, i + 1, Len(t))>>
           three == <<SubSeq(t, 1, i - 1), SubSeq(t, i + 1, j - 1), SubSeq(t, j + 1, Len(t))>>
<1>1. SplitN(t) = CASE B = {} -> one [] Cardinality(B) = 1 -> two [] OTHER -> three
  BY Zenon DEF SplitN
<1>2. B = {} => Cardinality(B) # 1
  BY FS_EmptySet
<1> HIDE DEF i, j, one, two, three
<1>3. CASE B = {}
  BY <1>1, <1>2, <1>3, Zenon DEF one
<1>4. CASE Cardinality(B) = 1
  BY <1>1, <1>2, <1>4, Zenon DEF two, i
<1>5. CASE B # {} /\ Cardinality(B) # 1
  BY <1>1, <1>5, Zenon DEF three, i, j
<1> QED
  BY <1>3, <1>4, <1>5, <1>2

\* A text without a blank is one field.
LEMMA SplitOne ==
    ASSUME NEW t, \A x \in DOMAIN t : t[x] # SP
    PROVE  SplitN(t) = <<t>>
<1>1. {i \in DOMAIN t : t[i] = SP} = {}
  OBVIOUS
<1> QED
  BY <1>1, SplitCases

\* A text with one blank is two fields.
LEMMA SplitTwo ==
    ASSUME NEW A, NEW t \in Seq(A), NEW i \in 1..Len(t), t[i] = SP,
           \A x \in 1..Len(t) : x # i => t[x] # SP
    PROVE  SplitN(t) = <<SubSeq(t, 1, i - 1), SubSeq(t, i + 1, Len(t))>>
<1> DEFINE B == {x \in DOMAIN t : t[x] = SP}
<1>1. B = {i} /\ B \in SUBSET Int
  OBVIOUS
<1>2. Cardinality(B) = 1
  BY <1>1, FS_Singleton
<1>3. Min(B) = i
  <2>1. i \in B /\ \A y \in B : i <= y
    BY <1>1
  <2> QED
    BY <1>1, <2>1, MinIs
<1> QED
  BY <1>2, <1>3, SplitCases

\* The first two of several blanks cut a text into three fields.
LEMMA SplitThree ==
    ASSUME NEW A, NEW t \in Seq(A), NEW i \in 1..Len(t), NEW j \in 1..Len(t),
           i < j, t[i] = SP, t[j] = SP,
           \A x \in 1..(j - 1) : x # i => t[x] # SP
    PROVE  SplitN(t) = <<SubSeq(t, 1, i - 1), SubSeq(t, i + 1, j - 1), SubSeq(t, j + 1, Len(t))>>
<1> DEFINE B == {x \in DOMAIN t : t[x] = SP}
<1>1. B \in SUBSET Int /\ i \in B /\ j \in B /\ i # j
  OBVIOUS
<1>2. \A x \in B : i <= x /\ (x # i => j <= x)
  OBVIOUS
<1>3. Min(B) = i
  BY <1>1, <1>2, MinIs
<1>4. Min(B \ {i}) = j
  BY <1>1, <1>2, MinIs
<1>5. Cardinality(B) # 1
  <2> SUFFICES ASSUME Cardinality(B) = 1 PROVE FALSE
    OBVIOUS
  <2>1. IsFiniteSet(B)
    <3>1. B \in SUBSET Nat /\ Len(t) \in Nat /\ \A x \in B : x <= Len(t)
      OBVIOUS
    <3> QED
      BY <3>1, FS_BoundedSetOfNaturals
  <2>2. \E x : B = {x}
    BY <2>1, FS_Singleton
  <2> QED
    BY <1>1, <2>2
<1>6. B # {}
  BY <1>1
<1> HIDE DEF B
<1>7. SplitN(t) = <<SubSeq(t, 1, Min(B) - 1), SubSeq(t, Min(B) + 1, Min(B \ {Min(B)}) - 1),
                    SubSeq(t, Min(B \ {Min(B)}) + 1, Len(t))>>
  BY <1>5, <1>6, SplitCases DEF B
<1> QED
  BY <1>3, <1>4, <1>7

\* A text has no blank, one, or more, with a first and a second one.
LEMMA SplitTotal ==
    ASSUME NEW A, NEW t \in Seq(A)
    PROVE  \/ \A x \in DOMAIN t : t[x] # SP
           \/ \E i \in 1..Len(t) : t[i] = SP /\ \A x \in 1..Len(t) : x # i => t[x] # SP
           \/ \E i, j \in 1..Len(t) : /\ i < j /\ t[i] = SP /\ t[j] = SP
                                       /\ \A x \in 1..(j - 1) : x # i => t[x] # SP
<1> DEFINE B == {x \in 1..Len(t) : t[x] = SP}
<1>1. CASE B = {}
  BY <1>1
<1>2. CASE B # {}
  <2>1. B \subseteq Nat
    OBVIOUS
  <2>2. PICK i \in B : \A x \in B : i <= x
    BY <1>2, <2>1, NatLeast
  <2>3. CASE B = {i}
    BY <2>3
  <2>4. CASE B # {i}
    <3>1. B \ {i} # {} /\ B \ {i} \subseteq Nat
      BY <2>1, <2>4
    <3>2. PICK j \in B \ {i} : \A x \in B \ {i} : j <= x
      BY <3>1, NatLeast
    <3>3. i < j
      BY <2>2, <3>2
    <3>4. \A x \in 1..(j - 1) : x # i => t[x] # SP
      BY <3>2
    <3> QED
      BY <3>3, <3>4
  <2> QED
    BY <2>3, <2>4
<1> QED
  BY <1>1, <1>2

\* ToUpper maps two spellings to each verb.
LEMMA UpperIs ==
    ASSUME NEW x
    PROVE  /\ ToUpper(x) = <<"GET">> <=> x \in {<<"GET">>, <<"get">>}
           /\ ToUpper(x) = <<"SET">> <=> x \in {<<"SET">>, <<"set">>}
           /\ ToUpper(x) = <<"DEL">> <=> x \in {<<"DEL">>, <<"del">>}
<1>1. /\ <<"get">> # <<"set">> /\ <<"get">> # <<"del">> /\ <<"set">> # <<"del">>
      /\ <<"GET">> # <<"SET">> /\ <<"GET">> # <<"DEL">> /\ <<"SET">> # <<"DEL">>
      /\ <<"get">> # <<"GET">> /\ <<"get">> # <<"SET">> /\ <<"get">> # <<"DEL">>
      /\ <<"set">> # <<"GET">> /\ <<"set">> # <<"SET">> /\ <<"set">> # <<"DEL">>
      /\ <<"del">> # <<"GET">> /\ <<"del">> # <<"SET">> /\ <<"del">> # <<"DEL">>
  OBVIOUS
<1>2. CASE x = <<"get">>
  BY <1>1, <1>2, Zenon DEF ToUpper
<1>3. CASE x = <<"set">>
  BY <1>1, <1>3, Zenon DEF ToUpper
<1>4. CASE x = <<"del">>
  BY <1>1, <1>4, Zenon DEF ToUpper
<1>5. CASE x \notin {<<"get">>, <<"set">>, <<"del">>}
  <2>1. ToUpper(x) = x
    BY <1>5, Zenon DEF ToUpper
  <2> QED
    BY <1>5, <2>1
<1> QED
  BY <1>2, <1>3, <1>4, <1>5

\* The fields of a line, and its verb.
Parts(s) == SplitN(TrimRight(s))
Verb(s)  == ToUpper(Parts(s)[1])

\* The cases of Parse, with the parts of the line named.
LEMMA ParseCases ==
    ASSUME NEW s
    PROVE  /\ Blank(TrimRight(s)) => Parse(s) = Fail("empty")
           /\ ~Blank(TrimRight(s)) =>
                 /\ Verb(s) = <<"GET">> =>
                      Parse(s) = IF Fields(Parts(s), 2) THEN Command("get", Parts(s)[2], <<>>) ELSE Fail("key")
                 /\ Verb(s) = <<"DEL">> =>
                      Parse(s) = IF Fields(Parts(s), 2) THEN Command("del", Parts(s)[2], <<>>) ELSE Fail("key")
                 /\ Verb(s) = <<"SET">> =>
                      Parse(s) = IF Fields(Parts(s), 3) THEN Command("set", Parts(s)[2], Parts(s)[3])
                                                     ELSE Fail("keyvalue")
                 /\ Verb(s) \notin {<<"GET">>, <<"DEL">>, <<"SET">>} => Parse(s) = Fail("unknown")
<1> DEFINE op == IF Verb(s) = <<"DEL">> THEN "del" ELSE "get"
           short == IF Fields(Parts(s), 2) THEN Command(op, Parts(s)[2], <<>>) ELSE Fail("key")
           long == IF Fields(Parts(s), 3) THEN Command("set", Parts(s)[2], Parts(s)[3]) ELSE Fail("keyvalue")
<1>1. Parse(s) = IF Blank(TrimRight(s)) THEN Fail("empty")
                 ELSE CASE Verb(s) \in {<<"GET">>, <<"DEL">>} -> short
                        [] Verb(s) = <<"SET">> -> long
                        [] OTHER -> Fail("unknown")
  BY Zenon DEF Parse, Parts, Verb
<1>2. <<"GET">> # <<"SET">> /\ <<"GET">> # <<"DEL">> /\ <<"SET">> # <<"DEL">>
  OBVIOUS
<1>3. Verb(s) = <<"GET">> => short = IF Fields(Parts(s), 2) THEN Command("get", Parts(s)[2], <<>>) ELSE Fail("key")
  BY <1>2, Zenon
<1>4. Verb(s) = <<"DEL">> => short = IF Fields(Parts(s), 2) THEN Command("del", Parts(s)[2], <<>>) ELSE Fail("key")
  BY <1>2, Zenon
<1> HIDE DEF short
<1>5. CASE Blank(TrimRight(s))
  BY <1>1, <1>5, Zenon
<1>6. CASE ~Blank(TrimRight(s)) /\ Verb(s) \in {<<"GET">>, <<"DEL">>}
  <2>1. Verb(s) # <<"SET">>
    BY <1>2, <1>6
  <2>2. Parse(s) = short
    BY <1>1, <1>6, <2>1, Zenon
  <2> QED
    BY <1>2, <1>3, <1>4, <1>6, <2>1, <2>2, Zenon
<1>7. CASE ~Blank(TrimRight(s)) /\ Verb(s) = <<"SET">>
  <2>1. Verb(s) \notin {<<"GET">>, <<"DEL">>}
    BY <1>2, <1>7
  <2>2. Parse(s) = long
    BY <1>1, <1>7, <2>1, Zenon
  <2> QED
    BY <1>2, <1>7, <2>1, <2>2, Zenon
<1>8. CASE ~Blank(TrimRight(s)) /\ Verb(s) \notin {<<"GET">>, <<"DEL">>, <<"SET">>}
  BY <1>1, <1>8, Zenon
<1> QED
  BY <1>5, <1>6, <1>7, <1>8, Zenon

\* The spellings of each verb.
LEMMA VerbsIs ==
    /\ Verbs("get") = {"GET", "get"}
    /\ Verbs("set") = {"SET", "set"}
    /\ Verbs("del") = {"DEL", "del"}
  BY DEF Verbs

\* The shape of a line that means GET or DEL: verb, blank and key up to n.
Short(s, n, op) ==
    /\ Trims(s, n) /\ n >= 3
    /\ s[1] \in Verbs(op) /\ s[2] = SP
    /\ \A i \in 3..n : s[i] # SP

\* The shape of a SET: the blank at j ends the key, the value is what follows.
Long(s, n, j) ==
    /\ Trims(s, n) /\ j \in 4..n
    /\ s[1] \in Verbs("set") /\ s[2] = SP /\ s[j] = SP
    /\ \A i \in 3..(j - 1) : s[i] # SP

\* The text of a line, as a sequence of its own.
LEMMA TextIs ==
    ASSUME NEW A, NEW s \in Seq(A), NEW n, Trims(s, n)
    PROVE  /\ TrimRight(s) = SubSeq(s, 1, n)
           /\ TrimRight(s) \in Seq(A) /\ Len(TrimRight(s)) = n /\ n \in Nat
           /\ \A i \in 1..n : TrimRight(s)[i] = s[i]
<1>1. TrimRight(s) = SubSeq(s, 1, n)
  BY TrimIs
<1>2. n \in 0..Len(s)
  BY DEF Trims
<1>3. \A i \in 1..n : s[i] \in A
  BY <1>2
<1> QED
  BY <1>1, <1>2, <1>3, SubSeqProperties

\* A part of the text is that part of the line.
LEMMA TextPart ==
    ASSUME NEW A, NEW s \in Seq(A), NEW n, Trims(s, n),
           NEW i \in 1..(n + 1), NEW j \in 0..n
    PROVE  SubSeq(TrimRight(s), i, j) = SubSeq(s, i, j)
<1> DEFINE t == TrimRight(s)
<1>1. t \in Seq(A) /\ Len(t) = n /\ n \in Nat /\ n <= Len(s) /\ \A k \in 1..n : t[k] = s[k]
  BY TextIs DEF Trims
<1> HIDE DEF t
<1>2. SubSeq(t, i, j) = SubSeq(s, i, j)
  BY <1>1, SamePart
<1> QED
  BY <1>2 DEF t

\* The first atom of a text, as a text.
LEMMA FirstAtom ==
    ASSUME NEW A, NEW t \in Seq(A), Len(t) >= 1
    PROVE  SubSeq(t, 1, 1) = <<t[1]>>
<1>1. t[1] \in A /\ <<t[1]>> \in Seq(A) /\ Len(<<t[1]>>) = 1 /\ <<t[1]>>[1] = t[1]
  OBVIOUS
<1>2. /\ SubSeq(t, 1, 1) \in Seq(A) /\ Len(SubSeq(t, 1, 1)) = 1
      /\ \A i \in 1..(1 - 1 + 1) : SubSeq(t, 1, 1)[i] = t[1 + i - 1]
  BY <1>1, SubSeqProperties
<1>3. \A i \in 1..1 : SubSeq(t, 1, 1)[i] = <<t[1]>>[i]
  BY <1>1, <1>2
<1> QED
  BY <1>1, <1>2, <1>3, SeqEqual

\* Fields accepts two fields, the second of which is not empty.
LEMMA TwoFields ==
    ASSUME NEW p, NEW a, NEW b, p = <<a, b>>, b # <<>>
    PROVE  Fields(p, 2) /\ p[1] = a /\ p[2] = b
  BY DEF Fields

\* Fields accepts three fields, the second of which is not empty.
LEMMA ThreeFields ==
    ASSUME NEW p, NEW a, NEW b, NEW c, p = <<a, b, c>>, b # <<>>
    PROVE  Fields(p, 3) /\ p[1] = a /\ p[2] = b /\ p[3] = c
  BY DEF Fields

\* A line that starts with a verb is not blank.
LEMMA VerbIsNoBlank ==
    ASSUME NEW v, NEW op \in {"get", "set", "del"}, v \in Verbs(op)
    PROVE  v \notin {SP, TAB, CR, LF}
<1>1. v \in {"GET", "get", "DEL", "del", "SET", "set"}
  BY VerbsIs
<1> QED
  BY <1>1 DEF SP, TAB, CR, LF

\* Parse reads a line of the short shape as GET or DEL of its key.
LEMMA ParseShort ==
    ASSUME NEW A, NEW s \in Seq(A), NEW n, NEW op \in {"get", "del"}, Short(s, n, op)
    PROVE  Parse(s) = Command(op, SubSeq(s, 3, n), <<>>)
<1> DEFINE t == TrimRight(s)
<1>1. t \in Seq(A) /\ Len(t) = n /\ n \in Nat /\ n >= 3 /\ \A k \in 1..n : t[k] = s[k]
  BY TextIs DEF Short
<1> HIDE DEF t
<1>0. s[1] \notin {SP, TAB, CR, LF} /\ s[2] = SP /\ \A i \in 3..n : s[i] # SP
  BY VerbIsNoBlank DEF Short
<1>2. SubSeq(t, 1, 1) = <<s[1]>>
  BY <1>1, FirstAtom
<1>3. SubSeq(t, 3, n) = SubSeq(s, 3, n) /\ SubSeq(t, 3, n) # <<>>
  <2>1. SubSeq(t, 3, n) = SubSeq(s, 3, n)
    BY <1>1, TextPart DEF Short, t
  <2>2. Len(SubSeq(t, 3, n)) = n - 2
    BY <1>1, SubSeqProperties
  <2> QED
    BY <1>1, <2>1, <2>2
<1>4. ~Blank(t)
  <2>1. 1 \in DOMAIN t /\ t[1] = s[1]
    BY <1>1
  <2> QED
    BY <1>0, <2>1 DEF Blank
<1>5. Parts(s) = <<<<s[1]>>, SubSeq(s, 3, n)>>
  <2>1. 2 \in 1..Len(t) /\ t[2] = SP /\ \A x \in 1..Len(t) : x # 2 => t[x] # SP
    <3>1. ASSUME NEW x \in 1..Len(t), x # 2 PROVE t[x] # SP
      <4>1. CASE x = 1
        BY <1>0, <1>1, <4>1
      <4>2. CASE x \in 3..n
        BY <1>0, <1>1, <4>2
      <4> QED
        BY <1>1, <3>1, <4>1, <4>2
    <3> QED
      BY <1>0, <1>1, <3>1
  <2>2. SplitN(t) = <<SubSeq(t, 1, 2 - 1), SubSeq(t, 2 + 1, Len(t))>>
    BY <1>1, <2>1, SplitTwo
  <2> QED
    BY <1>1, <1>2, <1>3, <2>2 DEF Parts, t
<1>6. Fields(Parts(s), 2) /\ Parts(s)[1] = <<s[1]>> /\ Parts(s)[2] = SubSeq(s, 3, n)
  <2> DEFINE a == <<s[1]>>
             b == SubSeq(s, 3, n)
  <2>1. b # <<>> /\ Parts(s) = <<a, b>>
    BY <1>3, <1>5
  <2> HIDE DEF a, b
  <2>2. Fields(Parts(s), 2) /\ Parts(s)[1] = a /\ Parts(s)[2] = b
    BY <2>1, TwoFields
  <2> QED
    BY <2>2 DEF a, b
<1>7. CASE op = "get"
  <2>1. Verb(s) = <<"GET">>
    BY <1>6, <1>7, UpperIs, VerbsIs DEF Verb, Short
  <2> QED
    BY <1>4, <1>6, <1>7, <2>1, ParseCases DEF t
<1>8. CASE op = "del"
  <2>1. Verb(s) = <<"DEL">>
    BY <1>6, <1>8, UpperIs, VerbsIs DEF Verb, Short
  <2> QED
    BY <1>4, <1>6, <1>8, <2>1, ParseCases DEF t
<1> QED
  BY <1>7, <1>8

\* Parse reads a line of the long shape as SET, with the blanks of the value.
LEMMA ParseLong ==
    ASSUME NEW A, NEW s \in Seq(A), NEW n, NEW j, Long(s, n, j)
    PROVE  Parse(s) = Command("set", SubSeq(s, 3, j - 1), SubSeq(s, j + 1, n))
<1> DEFINE t == TrimRight(s)
<1>1. t \in Seq(A) /\ Len(t) = n /\ n \in Nat /\ j \in 4..n /\ \A k \in 1..n : t[k] = s[k]
  BY TextIs DEF Long
<1> HIDE DEF t
<1>0. s[1] \notin {SP, TAB, CR, LF} /\ s[2] = SP /\ s[j] = SP /\ \A i \in 3..(j - 1) : s[i] # SP
  BY VerbIsNoBlank DEF Long
<1>2. SubSeq(t, 1, 1) = <<s[1]>>
  BY <1>1, FirstAtom
<1>3. SubSeq(t, 3, j - 1) = SubSeq(s, 3, j - 1) /\ SubSeq(t, 3, j - 1) # <<>>
  <2>1. SubSeq(t, 3, j - 1) = SubSeq(s, 3, j - 1)
    BY <1>1, TextPart DEF Long, t
  <2>2. Len(SubSeq(t, 3, j - 1)) = j - 3
    BY <1>1, SubSeqProperties
  <2> QED
    BY <1>1, <2>1, <2>2
<1>4. SubSeq(t, j + 1, n) = SubSeq(s, j + 1, n)
  BY <1>1, TextPart DEF Long, t
<1>5. ~Blank(t)
  <2>1. 1 \in DOMAIN t /\ t[1] = s[1]
    BY <1>1
  <2> QED
    BY <1>0, <2>1 DEF Blank
<1>6. Parts(s) = <<<<s[1]>>, SubSeq(s, 3, j - 1), SubSeq(s, j + 1, n)>>
  <2>1. /\ 2 \in 1..Len(t) /\ t[2] = SP /\ j \in 1..Len(t) /\ 2 < j /\ t[j] = SP
        /\ \A x \in 1..(j - 1) : x # 2 => t[x] # SP
    <3>1. ASSUME NEW x \in 1..(j - 1), x # 2 PROVE t[x] # SP
      <4>1. CASE x = 1
        BY <1>0, <1>1, <4>1
      <4>2. CASE x \in 3..(j - 1)
        BY <1>0, <1>1, <4>2
      <4> QED
        BY <1>1, <3>1, <4>1, <4>2
    <3> QED
      BY <1>0, <1>1, <3>1
  <2>2. SplitN(t) = <<SubSeq(t, 1, 2 - 1), SubSeq(t, 2 + 1, j - 1), SubSeq(t, j + 1, Len(t))>>
    BY <1>1, <2>1, SplitThree
  <2>3. 2 - 1 = 1 /\ 2 + 1 = 3 /\ Len(t) = n
    BY <1>1
  <2>4. SplitN(t) = <<<<s[1]>>, SubSeq(s, 3, j - 1), SubSeq(s, j + 1, n)>>
    BY <1>2, <1>3, <1>4, <2>2, <2>3
  <2> QED
    BY <2>4 DEF Parts, t
<1>7. /\ Fields(Parts(s), 3) /\ Parts(s)[1] = <<s[1]>>
      /\ Parts(s)[2] = SubSeq(s, 3, j - 1) /\ Parts(s)[3] = SubSeq(s, j + 1, n)
  <2> DEFINE a == <<s[1]>>
             b == SubSeq(s, 3, j - 1)
             c == SubSeq(s, j + 1, n)
  <2>1. b # <<>> /\ Parts(s) = <<a, b, c>>
    BY <1>3, <1>6
  <2> HIDE DEF a, b, c
  <2>2. Fields(Parts(s), 3) /\ Parts(s)[1] = a /\ Parts(s)[2] = b /\ Parts(s)[3] = c
    BY <2>1, ThreeFields
  <2> QED
    BY <2>2 DEF a, b, c
<1>8. Verb(s) = <<"SET">>
  BY <1>7, UpperIs, VerbsIs DEF Verb, Long
<1> QED
  BY <1>5, <1>7, <1>8, ParseCases DEF t

\* A first field that is one atom ends before a blank at 2.
LEMMA VerbEnds ==
    ASSUME NEW A, NEW t \in Seq(A), NEW i \in 1..Len(t), NEW v, SubSeq(t, 1, i - 1) = <<v>>
    PROVE  i = 2 /\ t[1] = v
<1>1. Len(SubSeq(t, 1, i - 1)) = i - 1 /\ \A x \in 1..(i - 1) : SubSeq(t, 1, i - 1)[x] = t[x]
  <2>1. \A x \in 1..(i - 1) : t[x] \in A
    OBVIOUS
  <2>2. /\ Len(SubSeq(t, 1, i - 1)) = IF 1 <= i - 1 THEN i - 1 - 1 + 1 ELSE 0
        /\ \A x \in 1..(i - 1 - 1 + 1) : SubSeq(t, 1, i - 1)[x] = t[1 + x - 1]
    BY <2>1, SubSeqProperties
  <2> QED
    BY <2>2
<1>2. Len(<<v>>) = 1 /\ <<v>>[1] = v
  OBVIOUS
<1>3. i = 2
  <2>1. Len(SubSeq(t, 1, i - 1)) = 1
    BY <1>2
  <2>2. i - 1 = 1 /\ i \in Int
    BY <1>1, <2>1
  <2> QED
    BY <2>2
<1>4. SubSeq(t, 1, i - 1)[1] = t[1]
  BY <1>1, <1>3
<1> QED
  BY <1>2, <1>3, <1>4, Zenon

\* A line that Parse accepts has one of the two shapes.
LEMMA ParseShape ==
    ASSUME NEW A, NEW s \in Seq(A), Parse(s).op # "error"
    PROVE  \E n : (\E op \in {"get", "del"} : Short(s, n, op)) \/ (\E j : Long(s, n, j))
<1>1. PICK n : Trims(s, n)
  BY TrimExists
<1> DEFINE t == TrimRight(s)
<1>2. t \in Seq(A) /\ Len(t) = n /\ n \in Nat /\ \A k \in 1..n : t[k] = s[k]
  BY <1>1, TextIs
<1>3. \A why : Parse(s) # Fail(why)
  BY DEF Fail
<1>4. /\ Verb(s) = <<"GET">> \/ Verb(s) = <<"DEL">> \/ Verb(s) = <<"SET">>
      /\ Verb(s) \in {<<"GET">>, <<"DEL">>} => Fields(Parts(s), 2)
      /\ Verb(s) = <<"SET">> => Fields(Parts(s), 3)
  BY <1>3, ParseCases
<1>5. Parts(s) = SplitN(t)
  BY DEF Parts
<1> HIDE DEF t
<1>6. CASE \A x \in DOMAIN t : t[x] # SP
  <2>1. Parts(s) = <<t>>
    BY <1>5, <1>6, SplitOne
  <2>2. Len(Parts(s)) = 1
    BY <2>1
  <2> QED
    BY <1>4, <2>2 DEF Fields
<1>7. ASSUME NEW i \in 1..Len(t), t[i] = SP, \A x \in 1..Len(t) : x # i => t[x] # SP
      PROVE  \E op \in {"get", "del"} : Short(s, n, op)
  <2> DEFINE a == SubSeq(t, 1, i - 1)
             b == SubSeq(t, i + 1, Len(t))
  <2>1. Parts(s) = <<a, b>>
    BY <1>2, <1>5, <1>7, SplitTwo
  <2> HIDE DEF a, b
  <2>2. Len(Parts(s)) = 2 /\ Parts(s)[1] = a /\ Parts(s)[2] = b
    BY <2>1
  <2>3. Verb(s) \in {<<"GET">>, <<"DEL">>} /\ b # <<>>
    BY <1>4, <2>2 DEF Fields
  <2>4. a \in {<<"GET">>, <<"get">>, <<"DEL">>, <<"del">>}
    BY <2>2, <2>3, UpperIs DEF Verb
  <2>5. PICK v \in {"GET", "get", "DEL", "del"} : a = <<v>>
    BY <2>4
  <2>6. i = 2 /\ t[1] = v
    BY <1>2, <2>5, VerbEnds DEF a
  <2>7. Len(t) >= 3
    BY <1>2, <2>3, <2>6, SubSeqEmpty DEF b
  <2>8. PICK op \in {"get", "del"} : v \in Verbs(op)
    BY VerbsIs
  <2>9. Short(s, n, op)
    BY <1>1, <1>2, <1>7, <2>6, <2>7, <2>8 DEF Short
  <2> QED
    BY <2>9
<1>8. ASSUME NEW i \in 1..Len(t), NEW j \in 1..Len(t), i < j, t[i] = SP, t[j] = SP,
             \A x \in 1..(j - 1) : x # i => t[x] # SP
      PROVE  Long(s, n, j)
  <2> DEFINE a == SubSeq(t, 1, i - 1)
             b == SubSeq(t, i + 1, j - 1)
             c == SubSeq(t, j + 1, Len(t))
  <2>1. Parts(s) = <<a, b, c>>
    BY <1>2, <1>5, <1>8, SplitThree
  <2> HIDE DEF a, b, c
  <2>2. Len(Parts(s)) = 3 /\ Parts(s)[1] = a /\ Parts(s)[2] = b
    BY <2>1
  <2>3. Verb(s) = <<"SET">> /\ b # <<>>
    BY <1>4, <2>2 DEF Fields
  <2>4. a \in {<<"SET">>, <<"set">>}
    BY <2>2, <2>3, UpperIs DEF Verb
  <2>5. PICK v \in {"SET", "set"} : a = <<v>>
    BY <2>4
  <2>6. i = 2 /\ t[1] = v
    BY <1>2, <2>5, VerbEnds DEF a
  <2>7. j >= 4
    BY <1>2, <1>8, <2>3, <2>6, SubSeqEmpty DEF b
  <2>8. v \in Verbs("set")
    BY VerbsIs
  <2> QED
    BY <1>1, <1>2, <1>8, <2>6, <2>7, <2>8 DEF Long
<1> QED
  BY <1>2, <1>6, <1>7, <1>8, SplitTotal

\* The line is its text and the ending that is cut off.
LEMMA TextAndEnding ==
    ASSUME NEW A, NEW s \in Seq(A), NEW n, Trims(s, n)
    PROVE  /\ s = SubSeq(s, 1, n) \o SubSeq(s, n + 1, Len(s))
           /\ Ending(SubSeq(s, n + 1, Len(s)))
           /\ Len(SubSeq(s, 1, n)) = n
           /\ n > 0 => SubSeq(s, 1, n)[n] \notin {CR, LF}
<1>1. n \in 0..Len(s) /\ n \in Int /\ Len(s) \in Nat
  BY DEF Trims
<1>2. s = SubSeq(s, 1, n) \o SubSeq(s, n + 1, Len(s))
  <2>1. 1 \in 1..(Len(s) + 1) /\ n \in (1 - 1)..Len(s) /\ Len(s) \in n..Len(s)
    BY <1>1
  <2>2. SubSeq(s, 1, n) \o SubSeq(s, n + 1, Len(s)) = SubSeq(s, 1, Len(s))
    BY <2>1, ConcatAdjacentSubSeq
  <2> QED
    BY <2>2, SubSeqFull
<1>3. /\ Len(SubSeq(s, 1, n)) = n
      /\ n > 0 => SubSeq(s, 1, n)[n] = s[n]
  BY <1>1, SubSeqProperties
<1> DEFINE e == SubSeq(s, n + 1, Len(s))
<1>4. /\ e \in Seq(A) /\ Len(e) = Len(s) - n
      /\ \A i \in 1..Len(e) : e[i] = s[n + i]
  <2>1. \A i \in (n + 1)..Len(s) : s[i] \in A
    BY <1>1
  <2>2. /\ e \in Seq(A) /\ Len(e) = IF n + 1 <= Len(s) THEN Len(s) - (n + 1) + 1 ELSE 0
        /\ \A i \in 1..(Len(s) - (n + 1) + 1) : e[i] = s[n + 1 + i - 1]
    BY <1>1, <2>1, SubSeqProperties
  <2> QED
    BY <1>1, <2>2
<1> HIDE DEF e
<1>5. \A i \in DOMAIN e : e[i] \in {CR, LF}
  BY <1>1, <1>4 DEF Trims
<1>6. Ending(e)
  BY <1>5 DEF Ending
<1> QED
  BY <1>2, <1>3, <1>6 DEF e, Trims

\* The first two atoms of a line, as a text.
LEMMA FirstTwo ==
    ASSUME NEW A, NEW s \in Seq(A), Len(s) >= 2
    PROVE  SubSeq(s, 1, 2) = <<s[1], s[2]>>
<1> DEFINE p == <<s[1], s[2]>>
           q == SubSeq(s, 1, 2)
<1>1. s[1] \in A /\ s[2] \in A
  OBVIOUS
<1>2. p \in Seq(A) /\ Len(p) = 2 /\ p[1] = s[1] /\ p[2] = s[2]
  BY <1>1
<1>3. q \in Seq(A) /\ Len(q) = 2 /\ q[1] = s[1] /\ q[2] = s[2]
  BY <1>1, SubSeqProperties
<1> HIDE DEF p, q
<1>4. \A i \in 1..Len(p) : p[i] = q[i]
  BY <1>2, <1>3
<1>5. p = q
  BY <1>2, <1>3, <1>4, SeqEqual
<1> QED
  BY <1>5 DEF p, q

\* A line of the short shape denotes what Parse makes of it.
LEMMA ShortDenotes ==
    ASSUME NEW A, NEW s \in Seq(A), NEW n, NEW op \in {"get", "del"}, Short(s, n, op)
    PROVE  Denotes(s, Command(op, SubSeq(s, 3, n), <<>>))
<1> DEFINE key == SubSeq(s, 3, n)
           cmd == Command(op, key, <<>>)
           text == <<s[1], SP>> \o key \o <<>>
<1>1. Trims(s, n) /\ n \in 3..Len(s) /\ s[1] \in Verbs(op) /\ s[2] = SP
  BY DEF Short, Trims
<1>2. /\ key \in Seq(A) /\ Len(key) = n - 2 /\ \A i \in 1..(n - 2) : key[i] = s[i + 2]
  <2>1. \A i \in 3..n : s[i] \in A
    BY <1>1
  <2>2. /\ key \in Seq(A) /\ Len(key) = n - 3 + 1 /\ \A i \in 1..(n - 3 + 1) : key[i] = s[3 + i - 1]
    BY <1>1, <2>1, SubSeqProperties
  <2> QED
    BY <1>1, <2>2
<1>3. text = SubSeq(s, 1, n)
  <2>1. SubSeq(s, 1, 2) = <<s[1], SP>>
    BY <1>1, FirstTwo
  <2>2. SubSeq(s, 1, 2) \o SubSeq(s, 2 + 1, n) = SubSeq(s, 1, n)
    BY <1>1, ConcatAdjacentSubSeq
  <2>3. SubSeq(s, 1, n) \in Seq(A)
    BY <1>1, SubSeqProperties
  <2>4. SubSeq(s, 1, n) \o <<>> = SubSeq(s, 1, n)
    BY <2>3, ConcatEmptySeq
  <2>5. <<s[1], SP>> \o SubSeq(s, 3, n) = SubSeq(s, 1, n)
    <3>1. 2 + 1 = 3
      OBVIOUS
    <3> QED
      BY <2>1, <2>2, <3>1, Zenon
  <2> QED
    BY <2>4, <2>5
<1>4. cmd.op = op /\ cmd.key = key /\ cmd.op # "set"
  BY DEF Command
<1>5. key # <<>> /\ \A i \in DOMAIN key : key[i] # SP
  BY <1>1, <1>2 DEF Short
<1>6. /\ s = text \o SubSeq(s, n + 1, Len(s)) /\ Ending(SubSeq(s, n + 1, Len(s)))
      /\ n = Len(text) /\ text[n] \notin {CR, LF} /\ n \in 0..Len(s)
  BY <1>1, <1>3, TextAndEnding
<1> HIDE DEF key, cmd
<1> QED
  BY <1>1, <1>4, <1>5, <1>6 DEF Denotes, key, cmd

\* A line of the long shape denotes what Parse makes of it.
LEMMA LongDenotes ==
    ASSUME NEW A, NEW s \in Seq(A), NEW n, NEW j, Long(s, n, j)
    PROVE  Denotes(s, Command("set", SubSeq(s, 3, j - 1), SubSeq(s, j + 1, n)))
<1> DEFINE key == SubSeq(s, 3, j - 1)
           value == SubSeq(s, j + 1, n)
           cmd == Command("set", key, value)
           text == <<s[1], SP>> \o key \o (<<SP>> \o value)
<1>1. Trims(s, n) /\ n \in 4..Len(s) /\ j \in 4..n /\ s[1] \in Verbs("set") /\ s[2] = SP /\ s[j] = SP
  BY DEF Long, Trims
<1>2. /\ key \in Seq(A) /\ Len(key) = j - 3 /\ \A i \in 1..(j - 3) : key[i] = s[i + 2]
  <2>1. \A i \in 3..(j - 1) : s[i] \in A
    BY <1>1
  <2>2. /\ key \in Seq(A) /\ Len(key) = j - 1 - 3 + 1
        /\ \A i \in 1..(j - 1 - 3 + 1) : key[i] = s[3 + i - 1]
    BY <1>1, <2>1, SubSeqProperties
  <2> QED
    BY <1>1, <2>2
<1>3. text = SubSeq(s, 1, n)
  <2>1. SubSeq(s, 1, 2) = <<s[1], SP>>
    BY <1>1, FirstTwo
  <2>2. SubSeq(s, 1, 2) \o SubSeq(s, 2 + 1, j - 1) = SubSeq(s, 1, j - 1)
    BY <1>1, ConcatAdjacentSubSeq
  <2>3. <<SP>> \o value = SubSeq(s, j, n)
    <3>1. j \in 1..Len(s) /\ n \in j..Len(s)
      BY <1>1
    <3>2. SubSeq(s, j, n) = <<s[j]>> \o SubSeq(s, j + 1, n)
      BY <3>1, SubSeqRecursiveFirst
    <3> QED
      BY <1>1, <3>2
  <2>4. SubSeq(s, 1, j - 1) \o SubSeq(s, j - 1 + 1, n) = SubSeq(s, 1, n)
    <3>1. 1 \in 1..(Len(s) + 1) /\ j - 1 \in (1 - 1)..Len(s) /\ n \in (j - 1)..Len(s)
      BY <1>1
    <3> QED
      BY <3>1, ConcatAdjacentSubSeq
  <2>5. 2 + 1 = 3 /\ j - 1 + 1 = j
    BY <1>1
  <2> QED
    BY <2>1, <2>2, <2>3, <2>4, <2>5, Zenon
<1>4. cmd.op = "set" /\ cmd.key = key /\ cmd.value = value
  BY DEF Command
<1>5. key # <<>> /\ \A i \in DOMAIN key : key[i] # SP
  BY <1>1, <1>2 DEF Long
<1> HIDE DEF text
<1>6. /\ s = text \o SubSeq(s, n + 1, Len(s)) /\ Ending(SubSeq(s, n + 1, Len(s)))
      /\ n = Len(text) /\ text[n] \notin {CR, LF} /\ n \in 0..Len(s)
  <2>1. n > 0 /\ n \in 0..Len(s)
    BY <1>1
  <2>2. /\ s = SubSeq(s, 1, n) \o SubSeq(s, n + 1, Len(s)) /\ Ending(SubSeq(s, n + 1, Len(s)))
        /\ Len(SubSeq(s, 1, n)) = n /\ SubSeq(s, 1, n)[n] \notin {CR, LF}
    BY <1>1, <2>1, TextAndEnding
  <2> QED
    BY <1>3, <2>1, <2>2, Zenon
<1> HIDE DEF key, value, cmd
<1> QED
  BY <1>1, <1>4, <1>5, <1>6 DEF Denotes, key, value, cmd, text

\* The line s is made of a text of n atoms and an ending.
Joined(s, text, n) ==
    /\ s = text \o SubSeq(s, n + 1, Len(s))
    /\ Ending(SubSeq(s, n + 1, Len(s)))
    /\ n = Len(text)
    /\ text[n] \notin {CR, LF}

\* The ending of such a line is what TrimRight cuts off.
LEMMA JoinedTrims ==
    ASSUME NEW A, NEW s \in Seq(A), NEW text \in Seq(A), NEW n \in 0..Len(s), n > 0,
           Joined(s, text, n)
    PROVE  Trims(s, n) /\ \A i \in 1..n : s[i] = text[i]
<1> DEFINE e == SubSeq(s, n + 1, Len(s))
<1>1. /\ e \in Seq(A) /\ Len(e) = Len(s) - n
      /\ \A i \in 1..Len(e) : e[i] = s[n + i]
  <2>1. \A i \in (n + 1)..Len(s) : s[i] \in A
    OBVIOUS
  <2>2. /\ e \in Seq(A) /\ Len(e) = IF n + 1 <= Len(s) THEN Len(s) - (n + 1) + 1 ELSE 0
        /\ \A i \in 1..(Len(s) - (n + 1) + 1) : e[i] = s[n + 1 + i - 1]
    BY <2>1, SubSeqProperties
  <2> QED
    BY <2>2
<1>2. s = text \o e /\ Ending(e) /\ n = Len(text) /\ text[n] \notin {CR, LF}
  BY DEF Joined
<1> HIDE DEF e
<1>3. \A i \in 1..n : s[i] = text[i]
  BY <1>1, <1>2, ConcatProperties
<1>4. \A i \in (n + 1)..Len(s) : s[i] \in {CR, LF}
  <2> TAKE i \in (n + 1)..Len(s)
  <2>1. i - n \in 1..Len(e) /\ s[n + (i - n)] = s[i] /\ DOMAIN e = 1..Len(e)
    BY <1>1
  <2> QED
    BY <1>1, <1>2, <2>1 DEF Ending
<1> QED
  BY <1>2, <1>3, <1>4 DEF Trims

\* A GET or DEL that a line denotes gives the line its shape.
LEMMA DenotesShort ==
    ASSUME NEW A, NEW s \in Seq(A), NEW op \in {"get", "del"}, NEW key \in Seq(A), NEW value,
           Denotes(s, Command(op, key, value))
    PROVE  \E n : Short(s, n, op) /\ key = SubSeq(s, 3, n)
<1> DEFINE cmd == Command(op, key, value)
<1>1. cmd.op = op /\ cmd.key = key /\ cmd.op # "set"
  BY DEF Command
<1> HIDE DEF cmd
<1>2. PICK v \in Verbs(op), n \in 0..Len(s) :
          LET text == <<v, SP>> \o key \o <<>>
          IN  /\ s = text \o SubSeq(s, n + 1, Len(s))
              /\ Ending(SubSeq(s, n + 1, Len(s)))
              /\ n = Len(text)
              /\ text[n] \notin {CR, LF}
              /\ key # <<>> /\ \A i \in DOMAIN key : key[i] # SP
  BY <1>1 DEF Denotes, cmd
<1> DEFINE text == <<v, SP>> \o key \o <<>>
           B == A \cup {v, SP}
<1>3. s \in Seq(B) /\ key \in Seq(B) /\ <<v, SP>> \in Seq(B) /\ Len(<<v, SP>>) = 2
  <2>1. A \subseteq B /\ v \in B /\ SP \in B
    OBVIOUS
  <2> HIDE DEF B
  <2> QED
    BY <2>1, SeqMonotonic
<1> HIDE DEF B
<1>4. /\ text = <<v, SP>> \o key /\ text \in Seq(B) /\ Len(text) = 2 + Len(key)
      /\ \A i \in 1..(2 + Len(key)) : text[i] = IF i <= 2 THEN <<v, SP>>[i] ELSE key[i - 2]
  <2>1. <<v, SP>> \o key \in Seq(B)
    BY <1>3, ConcatProperties
  <2>2. text = <<v, SP>> \o key
    BY <2>1, ConcatEmptySeq
  <2> QED
    BY <1>3, <2>1, <2>2, ConcatProperties
<1>5. Len(key) \in Nat /\ Len(key) > 0 /\ n = 2 + Len(key)
  BY <1>2, <1>4, EmptySeq
<1>6. text[1] = v /\ text[2] = SP /\ \A i \in 3..n : text[i] = key[i - 2]
  BY <1>4, <1>5
<1>7. Joined(s, text, n)
  BY <1>2 DEF Joined
<1> HIDE DEF text
<1>8. Trims(s, n) /\ \A i \in 1..n : s[i] = text[i]
  <2>1. n > 0 /\ text \in Seq(B)
    BY <1>4, <1>5
  <2> QED
    BY <1>3, <1>7, <2>1, JoinedTrims
<1>9. Short(s, n, op)
  <2>1. n >= 3 /\ s[1] = v /\ s[2] = SP
    BY <1>5, <1>6, <1>8
  <2>2. \A i \in DOMAIN key : key[i] # SP
    BY <1>2
  <2>3. \A i \in 3..n : s[i] # SP
    BY <1>5, <1>6, <1>8, <2>2
  <2> QED
    BY <1>8, <2>1, <2>3 DEF Short
<1>10. key = SubSeq(s, 3, n)
  <2> DEFINE q == SubSeq(s, 3, n)
  <2>1. \A i \in 3..n : s[i] \in A
    BY <1>8 DEF Trims
  <2>2. /\ q \in Seq(A) /\ Len(q) = IF 3 <= n THEN n - 3 + 1 ELSE 0
        /\ \A i \in 1..(n - 3 + 1) : q[i] = s[3 + i - 1]
    BY <2>1, SubSeqProperties
  <2> HIDE DEF q
  <2>3. Len(q) = Len(key) /\ \A i \in 1..Len(key) : q[i] = key[i]
    BY <1>5, <1>6, <1>8, <2>2
  <2>4. key = q
    BY <2>2, <2>3, SeqEqual
  <2> QED
    BY <2>4 DEF q
<1> QED
  BY <1>9, <1>10

\* The same for SET: the blank after the key is at j.
LEMMA DenotesLong ==
    ASSUME NEW A, NEW s \in Seq(A), NEW key \in Seq(A), NEW value \in Seq(A),
           Denotes(s, Command("set", key, value))
    PROVE  \E n, j : Long(s, n, j) /\ key = SubSeq(s, 3, j - 1) /\ value = SubSeq(s, j + 1, n)
<1> DEFINE cmd == Command("set", key, value)
<1>1. cmd.op = "set" /\ cmd.key = key /\ cmd.value = value
  BY DEF Command
<1> HIDE DEF cmd
<1>2. PICK v \in Verbs("set"), n \in 0..Len(s) :
          LET text == <<v, SP>> \o key \o (<<SP>> \o value)
          IN  /\ s = text \o SubSeq(s, n + 1, Len(s))
              /\ Ending(SubSeq(s, n + 1, Len(s)))
              /\ n = Len(text)
              /\ text[n] \notin {CR, LF}
              /\ key # <<>> /\ \A i \in DOMAIN key : key[i] # SP
  BY <1>1 DEF Denotes, cmd
<1> DEFINE head == <<v, SP>> \o key
           tail == <<SP>> \o value
           text == head \o tail
           j == Len(key) + 3
           B == A \cup {v, SP}
<1>3. /\ s \in Seq(B) /\ key \in Seq(B) /\ value \in Seq(B)
      /\ <<v, SP>> \in Seq(B) /\ Len(<<v, SP>>) = 2 /\ <<SP>> \in Seq(B) /\ Len(<<SP>>) = 1
  <2>1. A \subseteq B /\ v \in B /\ SP \in B
    OBVIOUS
  <2> HIDE DEF B
  <2> QED
    BY <2>1, SeqMonotonic
<1> HIDE DEF B
<1>4. /\ head \in Seq(B) /\ Len(head) = 2 + Len(key)
      /\ \A i \in 1..(2 + Len(key)) : head[i] = IF i <= 2 THEN <<v, SP>>[i] ELSE key[i - 2]
  BY <1>3, ConcatProperties
<1>5. /\ tail \in Seq(B) /\ Len(tail) = 1 + Len(value)
      /\ \A i \in 1..(1 + Len(value)) : tail[i] = IF i <= 1 THEN <<SP>>[i] ELSE value[i - 1]
  BY <1>3, ConcatProperties
<1>6. /\ Joined(s, text, n) /\ n = Len(text)
      /\ key # <<>> /\ \A i \in DOMAIN key : key[i] # SP
  BY <1>2 DEF Joined
<1> HIDE DEF head, tail
<1>7. /\ text \in Seq(B) /\ Len(text) = Len(head) + Len(tail)
      /\ \A i \in 1..(Len(head) + Len(tail)) :
            text[i] = IF i <= Len(head) THEN head[i] ELSE tail[i - Len(head)]
  BY <1>4, <1>5, ConcatProperties
<1> HIDE DEF text
<1>8. /\ Len(key) \in Nat /\ Len(key) > 0 /\ Len(value) \in Nat
      /\ n = 3 + Len(key) + Len(value) /\ j \in 4..n
  BY <1>4, <1>5, <1>6, <1>7, EmptySeq
<1>9. /\ text[1] = v /\ text[2] = SP /\ text[j] = SP
      /\ \A i \in 1..Len(key) : text[i + 2] = key[i]
      /\ \A i \in 1..Len(value) : text[j + i] = value[i]
  <2>1. text[1] = v /\ text[2] = SP
    BY <1>4, <1>7, <1>8
  <2>2. text[j] = SP
    BY <1>4, <1>5, <1>7, <1>8
  <2>3. \A i \in 1..Len(key) : text[i + 2] = key[i]
    BY <1>4, <1>5, <1>7, <1>8
  <2>4. \A i \in 1..Len(value) : text[j + i] = value[i]
    <3> TAKE i \in 1..Len(value)
    <3>1. /\ j + i \in 1..(Len(head) + Len(tail)) /\ ~(j + i <= Len(head))
          /\ (j + i) - Len(head) = i + 1
      BY <1>4, <1>5, <1>8
    <3>2. text[j + i] = tail[i + 1]
      BY <1>7, <3>1
    <3>3. i + 1 \in 1..(1 + Len(value)) /\ ~(i + 1 <= 1) /\ (i + 1) - 1 = i
      BY <1>8
    <3>4. tail[i + 1] = value[i]
      BY <1>5, <3>3
    <3> QED
      BY <3>2, <3>4
  <2> QED
    BY <2>1, <2>2, <2>3, <2>4
<1>10. Trims(s, n) /\ \A i \in 1..n : s[i] = text[i]
  <2>1. n > 0 /\ text \in Seq(B)
    BY <1>7, <1>8
  <2> QED
    BY <1>3, <1>6, <2>1, JoinedTrims
<1> HIDE DEF j
<1>11. j = Len(key) + 3
  BY DEF j
<1>12. Long(s, n, j)
  <2>1. s[1] = v /\ s[2] = SP /\ s[j] = SP
    <3>1. 1 \in 1..n /\ 2 \in 1..n /\ j \in 1..n
      BY <1>8
    <3> QED
      BY <1>9, <1>10, <3>1, Zenon
  <2>2. \A i \in 3..(j - 1) : s[i] # SP
    <3> TAKE i \in 3..(j - 1)
    <3>1. i - 2 \in 1..Len(key) /\ (i - 2) + 2 = i /\ i \in 1..n
      BY <1>8, <1>11
    <3>2. s[i] = key[i - 2]
      BY <1>9, <1>10, <3>1
    <3> QED
      BY <1>6, <3>1, <3>2
  <2> QED
    BY <1>8, <1>10, <2>1, <2>2 DEF Long
<1>13. key = SubSeq(s, 3, j - 1)
  <2> DEFINE q == SubSeq(s, 3, j - 1)
  <2>1. \A i \in 3..(j - 1) : s[i] \in A
    BY <1>8
  <2>2. /\ q \in Seq(A) /\ Len(q) = IF 3 <= j - 1 THEN j - 1 - 3 + 1 ELSE 0
        /\ \A i \in 1..(j - 1 - 3 + 1) : q[i] = s[3 + i - 1]
    BY <1>8, <2>1, SubSeqProperties
  <2> HIDE DEF q
  <2>3. Len(q) = Len(key) /\ \A i \in 1..Len(key) : q[i] = key[i]
    BY <1>8, <1>9, <1>10, <1>11, <2>2
  <2>4. key = q
    BY <2>2, <2>3, SeqEqual
  <2> QED
    BY <2>4 DEF q
<1>14. value = SubSeq(s, j + 1, n)
  <2> DEFINE q == SubSeq(s, j + 1, n)
  <2>1. \A i \in (j + 1)..n : s[i] \in A
    BY <1>8
  <2>2. /\ q \in Seq(A) /\ Len(q) = IF j + 1 <= n THEN n - (j + 1) + 1 ELSE 0
        /\ \A i \in 1..(n - (j + 1) + 1) : q[i] = s[j + 1 + i - 1]
    BY <1>8, <2>1, SubSeqProperties
  <2> HIDE DEF q
  <2>3. Len(q) = Len(value) /\ \A i \in 1..Len(value) : q[i] = value[i]
    <3>1. Len(q) = Len(value)
      BY <1>8, <1>11, <2>2
    <3>2. ASSUME NEW i \in 1..Len(value) PROVE q[i] = value[i]
      <4>1. i \in 1..(n - (j + 1) + 1) /\ j + 1 + i - 1 = j + i /\ j + i \in 1..n
        BY <1>8, <1>11
      <4>2. q[i] = s[j + i]
        BY <2>2, <4>1
      <4> QED
        BY <1>9, <1>10, <4>1, <4>2
    <3> QED
      BY <3>1, <3>2
  <2>4. value = q
    BY <2>2, <2>3, SeqEqual
  <2> QED
    BY <2>4 DEF q
<1> QED
  BY <1>12, <1>13, <1>14

(***************************************************************************)
(* Parse finds the command that a line denotes, so a line denotes at most  *)
(* one: Parse of protocol/protocol.go is complete, and the grammar is not  *)
(* ambiguous.                                                              *)
(***************************************************************************)
THEOREM ParseComplete ==
    ASSUME NEW A, NEW s \in Seq(A), NEW op \in {"get", "set", "del"},
           NEW key \in Seq(A), NEW value \in Seq(A), op # "set" => value = <<>>,
           Denotes(s, Command(op, key, value))
    PROVE  Parse(s) = Command(op, key, value)
<1>1. CASE op \in {"get", "del"}
  <2>1. value = <<>>
    BY <1>1
  <2>2. PICK n : Short(s, n, op) /\ key = SubSeq(s, 3, n)
    BY <1>1, DenotesShort
  <2>3. Parse(s) = Command(op, SubSeq(s, 3, n), <<>>)
    BY <1>1, <2>2, ParseShort
  <2> QED
    BY <2>1, <2>2, <2>3
<1>2. CASE op = "set"
  <2>1. PICK n, j : Long(s, n, j) /\ key = SubSeq(s, 3, j - 1) /\ value = SubSeq(s, j + 1, n)
    BY <1>2, DenotesLong
  <2>2. Parse(s) = Command("set", SubSeq(s, 3, j - 1), SubSeq(s, j + 1, n))
    BY <2>1, ParseLong
  <2> QED
    BY <1>2, <2>1, <2>2
<1> QED
  BY <1>1, <1>2

(***************************************************************************)
(* Parse of protocol/protocol.go accepts exactly the lines of the grammar, *)
(* whatever they are made of and however long they are, and returns what   *)
(* they denote.                                                            *)
(***************************************************************************)
THEOREM ParseCorrect ==
    ASSUME NEW A, NEW s \in Seq(A)
    PROVE  Exact(s)
<1>1. CASE Parse(s).op = "error"
  <2> SUFFICES ASSUME NEW op \in {"get", "set", "del"}, NEW i \in 2..Len(s), NEW j \in 2..Len(s),
                      Denotes(s, Command(op, SubSeq(s, 3, i), IF op = "set" THEN SubSeq(s, i + 2, j) ELSE <<>>))
               PROVE  FALSE
    BY <1>1 DEF Exact, Readings
  <2> DEFINE key == SubSeq(s, 3, i)
             value == IF op = "set" THEN SubSeq(s, i + 2, j) ELSE <<>>
  <2>1. key \in Seq(A)
    BY SubSeqProperties
  <2>2. SubSeq(s, i + 2, j) \in Seq(A)
    <3>1. \A x \in (i + 2)..j : s[x] \in A
      OBVIOUS
    <3> QED
      BY <3>1, SubSeqProperties
  <2>3. value \in Seq(A) /\ (op # "set" => value = <<>>)
    BY <2>2
  <2>4. Denotes(s, Command(op, key, value))
    OBVIOUS
  <2> HIDE DEF key, value
  <2>5. Parse(s) = Command(op, key, value)
    BY <2>1, <2>3, <2>4, ParseComplete
  <2> QED
    BY <1>1, <2>5 DEF Command
<1>2. CASE Parse(s).op # "error"
  <2>1. PICK n : (\E op \in {"get", "del"} : Short(s, n, op)) \/ (\E j : Long(s, n, j))
    BY <1>2, ParseShape
  <2>2. Denotes(s, Parse(s))
    <3>1. ASSUME NEW op \in {"get", "del"}, Short(s, n, op) PROVE Denotes(s, Parse(s))
      BY <3>1, ParseShort, ShortDenotes
    <3>2. ASSUME NEW j, Long(s, n, j) PROVE Denotes(s, Parse(s))
      BY <3>2, ParseLong, LongDenotes
    <3> QED
      BY <2>1, <3>1, <3>2
  <2> QED
    BY <1>2, <2>2 DEF Exact
<1> QED
  BY <1>1, <1>2

================================================================================
