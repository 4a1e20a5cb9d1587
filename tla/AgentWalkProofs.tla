--------------------------- MODULE AgentWalkProofs ---------------------------
(***************************************************************************)
(* The proof that a walk displays the subtree, for any agent, any MIB and  *)
(* get_bulk answers of any size.  First the order of OIDs: the instances   *)
(* below a node follow each other in the agent's MIB.  Then the loop: what *)
(* is displayed and buffered is always a first part of those instances,    *)
(* and the varbinds still to be read go on where it ends.                  *)
(***************************************************************************)
EXTENDS AgentSessionProofs, WellFoundedInduction

USE TreeAssumption

\* A set of positions has a first one.
LEMMA LeastPosition ==
  ASSUME NEW T \in SUBSET Nat, T # {}
  PROVE  \E x \in T : \A y \in T : x <= y
<1>1. PICK x \in T : \A y \in T : <<y, x>> \notin OpToRel(<, Nat)
  BY WFMin, NatLessThanWellFounded, Zenon
<1>2. \A y \in T : ~(y < x)
  BY <1>1, Zenon DEF OpToRel
<1> QED
  BY <1>2

\* A set of positions without a gap before any of them is an interval.
LEMMA NoGap ==
  ASSUME NEW N \in Nat, NEW S \in SUBSET (1..N),
         \A i \in S : \A j \in 1..N : j < i => j \in S
  PROVE  /\ IsFiniteSet(S) /\ Cardinality(S) \in 0..N
         /\ S = 1..Cardinality(S)
<1> DEFINE T == (1..(N + 1)) \ S
<1>1. N + 1 \in T /\ T \in SUBSET Nat
  OBVIOUS
<1>2. PICK m \in T : \A y \in T : m <= y
  BY <1>1, LeastPosition
<1>3. m \in 1..(N + 1) /\ m \notin S
  BY <1>2
<1>4. \A i \in 1..N : i < m => i \in S
  BY <1>2, <1>3
<1>5. \A i \in S : i < m
  BY <1>3
<1>6. S = 1..(m - 1)
  <2>1. \A x \in S : x \in 1..(m - 1)
    BY <1>3, <1>5
  <2>2. \A x \in 1..(m - 1) : x \in S
    BY <1>3, <1>4
  <2> QED
    BY <2>1, <2>2
<1>7. IsFiniteSet(1..(m - 1)) /\ Cardinality(1..(m - 1)) = m - 1
  BY <1>3, FS_Interval
<1> QED
  BY <1>3, <1>6, <1>7

\* The first k elements of two OIDs.
LEMMA SameStart ==
  ASSUME NEW a \in Oid, NEW b \in Oid, NEW k \in Nat, k <= Len(a), k <= Len(b)
  PROVE  SubSeq(a, 1, k) = SubSeq(b, 1, k) <=> \A j \in 1..k : a[j] = b[j]
<1>1. a \in Seq(Nat) /\ b \in Seq(Nat)
  BY DEF Oid
<1>2. /\ SubSeq(a, 1, k) = [j \in 1..k |-> a[j]]
      /\ SubSeq(b, 1, k) = [j \in 1..k |-> b[j]]
  BY <1>1
<1>3. ASSUME SubSeq(a, 1, k) = SubSeq(b, 1, k), NEW j \in 1..k PROVE a[j] = b[j]
  <2>1. a[j] = [i \in 1..k |-> a[i]][j] /\ b[j] = [i \in 1..k |-> b[i]][j]
    OBVIOUS
  <2> QED
    BY <1>2, <1>3, <2>1
<1> QED
  BY <1>2, <1>3

LEMMA PrefixByElements ==
  ASSUME NEW o \in Oid, NEW t \in Oid
  PROVE  StartsWith(o, t) <=> Len(t) <= Len(o) /\ \A j \in 1..Len(t) : o[j] = t[j]
<1>1. Len(t) \in Nat /\ Len(o) \in Nat /\ SubSeq(t, 1, Len(t)) = t
  BY DEF Oid
<1>2. Len(t) <= Len(o) =>
        (SubSeq(o, 1, Len(t)) = SubSeq(t, 1, Len(t)) <=> \A j \in 1..Len(t) : o[j] = t[j])
  BY <1>1, SameStart
<1> QED
  BY <1>1, <1>2 DEF StartsWith

\* Where OID a comes before b: the first difference, or the end of a.
Before(a, b, i) ==
  /\ i <= Len(b) /\ i <= Len(a) + 1
  /\ \A j \in 1..(i - 1) : a[j] = b[j]
  /\ i = Len(a) + 1 \/ a[i] < b[i]

LEMMA LessByElements ==
  ASSUME NEW a \in Oid, NEW b \in Oid
  PROVE  LexLess(a, b) <=> \E i \in Nat \ {0} : Before(a, b, i)
<1>1. Len(a) \in Nat /\ Len(b) \in Nat
  BY DEF Oid
<1>2. ASSUME NEW i \in Nat \ {0}, i <= Len(b), i <= Len(a) + 1
      PROVE  SubSeq(a, 1, i - 1) = SubSeq(b, 1, i - 1) <=> \A j \in 1..(i - 1) : a[j] = b[j]
  <2>1. i - 1 \in Nat /\ i - 1 <= Len(a) /\ i - 1 <= Len(b)
    BY <1>1, <1>2
  <2> QED
    BY <2>1, SameStart
<1>3. ASSUME LexLess(a, b) PROVE \E i \in Nat \ {0} : Before(a, b, i)
  <2>1. PICK i \in 1..Len(b) : /\ i <= Len(a) + 1
                               /\ SubSeq(a, 1, i - 1) = SubSeq(b, 1, i - 1)
                               /\ i = Len(a) + 1 \/ a[i] < b[i]
    BY <1>3 DEF LexLess
  <2>2. i \in Nat \ {0} /\ i <= Len(b)
    BY <1>1
  <2>3. \A j \in 1..(i - 1) : a[j] = b[j]
    BY <1>2, <2>1, <2>2
  <2> QED
    BY <2>1, <2>2, <2>3 DEF Before
<1>4. ASSUME NEW i \in Nat \ {0}, Before(a, b, i) PROVE LexLess(a, b)
  <2>1. i \in 1..Len(b) /\ i <= Len(a) + 1 /\ (i = Len(a) + 1 \/ a[i] < b[i])
    BY <1>1, <1>4 DEF Before
  <2>2. SubSeq(a, 1, i - 1) = SubSeq(b, 1, i - 1)
    BY <1>2, <1>4, <2>1 DEF Before
  <2> QED
    BY <2>1, <2>2 DEF LexLess
<1> QED
  BY <1>3, <1>4

LEMMA NotLessThanItself == ASSUME NEW a \in Oid PROVE ~LexLess(a, a)
<1> SUFFICES ASSUME NEW i \in Nat \ {0}, Before(a, a, i) PROVE FALSE
  BY LessByElements
<1>1. Len(a) \in Nat /\ \A j \in 1..Len(a) : a[j] \in Nat
  BY DEF Oid
<1> QED
  BY <1>1 DEF Before

LEMMA LessIsTransitive ==
  ASSUME NEW a \in Oid, NEW b \in Oid, NEW c \in Oid, LexLess(a, b), LexLess(b, c)
  PROVE  LexLess(a, c)
<1>1. PICK i \in Nat \ {0} : Before(a, b, i)
  BY LessByElements
<1>2. PICK k \in Nat \ {0} : Before(b, c, k)
  BY LessByElements
<1>3. /\ Len(a) \in Nat /\ Len(b) \in Nat /\ Len(c) \in Nat
      /\ \A j \in 1..Len(a) : a[j] \in Nat
      /\ \A j \in 1..Len(b) : b[j] \in Nat
      /\ \A j \in 1..Len(c) : c[j] \in Nat
  BY DEF Oid
<1>4. CASE i < k
  <2>1. i \in 1..(k - 1) /\ \A j \in 1..(i - 1) : j \in 1..(k - 1)
    BY <1>4
  <2>2. b[i] = c[i] /\ \A j \in 1..(i - 1) : a[j] = c[j]
    BY <1>1, <1>2, <2>1 DEF Before
  <2>3. i <= Len(c) /\ i <= Len(a) + 1 /\ (i = Len(a) + 1 \/ a[i] < b[i])
    BY <1>1, <1>2, <1>3, <1>4 DEF Before
  <2>4. Before(a, c, i)
    BY <2>2, <2>3 DEF Before
  <2> QED
    BY <2>4, LessByElements
<1>5. CASE i = k
  <2>1. /\ i <= Len(b) /\ i <= Len(c) /\ i <= Len(a) + 1
        /\ i = Len(a) + 1 \/ a[i] < b[i]
        /\ b[i] < c[i]
    BY <1>1, <1>2, <1>3, <1>5 DEF Before
  <2>2. b[i] \in Nat /\ c[i] \in Nat /\ (i # Len(a) + 1 => a[i] \in Nat)
    BY <1>3, <2>1
  <2>3. i = Len(a) + 1 \/ a[i] < c[i]
    BY <2>1, <2>2
  <2>4. \A j \in 1..(i - 1) : a[j] = c[j]
    BY <1>1, <1>2, <1>5 DEF Before
  <2>5. Before(a, c, i)
    BY <2>1, <2>3, <2>4 DEF Before
  <2> QED
    BY <2>5, LessByElements
<1>6. CASE k < i
  <2>1. k \in 1..(i - 1) /\ \A j \in 1..(k - 1) : j \in 1..(i - 1)
    BY <1>6
  <2>2. Before(a, c, k)
    BY <1>1, <1>2, <1>3, <1>6, <2>1 DEF Before
  <2> QED
    BY <2>2, LessByElements
<1> QED
  BY <1>4, <1>5, <1>6

\* What starts with an OID comes after it, and so does all that lies between.
LEMMA LongerIsGreater ==
  ASSUME NEW t \in Oid, NEW o \in Oid, StartsWith(o, t), o # t
  PROVE  LexLess(t, o)
<1>1. /\ Len(t) \in Nat /\ Len(o) \in Nat
      /\ Len(t) <= Len(o) /\ \A j \in 1..Len(t) : o[j] = t[j]
  BY PrefixByElements DEF Oid
<1>2. Len(t) # Len(o)
  <2> SUFFICES ASSUME Len(t) = Len(o) PROVE FALSE
    OBVIOUS
  <2>1. t = [j \in 1..Len(t) |-> t[j]] /\ o = [j \in 1..Len(o) |-> o[j]]
    BY DEF Oid
  <2> QED
    BY <1>1, <2>1
<1>3. Before(t, o, Len(t) + 1)
  BY <1>1, <1>2 DEF Before
<1> QED
  BY <1>1, <1>3, LessByElements

LEMMA BetweenIsBelow ==
  ASSUME NEW t \in Oid, NEW x \in Oid, NEW y \in Oid,
         StartsWith(y, t), LexLess(t, x), LexLess(x, y)
  PROVE  StartsWith(x, t)
<1>1. /\ Len(t) \in Nat /\ Len(x) \in Nat /\ Len(y) \in Nat
      /\ Len(t) <= Len(y) /\ \A j \in 1..Len(t) : y[j] = t[j]
      /\ \A j \in 1..Len(t) : t[j] \in Nat
      /\ \A j \in 1..Len(x) : x[j] \in Nat
  BY PrefixByElements DEF Oid
<1>2. PICK i \in Nat \ {0} : Before(t, x, i)
  BY LessByElements
<1>3. CASE i = Len(t) + 1
  <2>1. Len(t) <= Len(x) /\ \A j \in 1..Len(t) : x[j] = t[j]
    BY <1>1, <1>2, <1>3 DEF Before
  <2> QED
    BY <2>1, PrefixByElements
<1>4. CASE i # Len(t) + 1
  <2>1. i \in 1..Len(t) /\ i <= Len(x) /\ i <= Len(y) /\ t[i] < x[i]
    BY <1>1, <1>2, <1>4 DEF Before
  <2>2. y[i] < x[i]
    BY <1>1, <2>1
  <2>3. \A j \in 1..(i - 1) : y[j] = x[j]
    BY <1>1, <1>2, <2>1 DEF Before
  <2>4. Before(y, x, i)
    BY <1>1, <2>1, <2>2, <2>3 DEF Before
  <2>5. LexLess(y, x)
    BY <2>4, LessByElements
  <2> QED
    BY <2>5, LessIsTransitive, NotLessThanItself
<1> QED
  BY <1>3, <1>4
-----------------------------------------------------------------------------
\* How many instances do not come after o: those that After leaves out.
UpTo(o) == Cardinality({i \in 1..Len(Mib) : ~LexLess(o, Mib[i])})
Count(root) == Cardinality(Below(root))

LEMMA MibFacts ==
  /\ Len(Mib) \in Nat
  /\ \A i \in 1..Len(Mib) : Mib[i] \in Oid
  /\ \A i, j \in 1..Len(Mib) : i < j => LexLess(Mib[i], Mib[j])
<1>1. /\ Mib \in Seq(Oid)
      /\ \A i, j \in 1..Len(Mib) : i < j => LexLess(Mib[i], Mib[j])
  BY AgentAssumption
<1> QED
  BY <1>1

LEMMA UpToFacts ==
  ASSUME NEW o \in Oid
  PROVE  /\ UpTo(o) \in 0..Len(Mib)
         /\ \A i \in 1..Len(Mib) : LexLess(o, Mib[i]) <=> i > UpTo(o)
<1> DEFINE S == {i \in 1..Len(Mib) : ~LexLess(o, Mib[i])}
<1>1. ASSUME NEW i \in S, NEW j \in 1..Len(Mib), j < i PROVE j \in S
  <2>1. i \in 1..Len(Mib) /\ ~LexLess(o, Mib[i])
    OBVIOUS
  <2>2. LexLess(o, Mib[j]) => LexLess(o, Mib[i])
    BY <1>1, <2>1, MibFacts, LessIsTransitive
  <2> QED
    BY <2>1, <2>2
<1>2. S \in SUBSET (1..Len(Mib)) /\ Len(Mib) \in Nat
  BY MibFacts
<1>3. Cardinality(S) \in 0..Len(Mib) /\ S = 1..Cardinality(S)
  <2> HIDE DEF S
  <2> QED
    BY <1>1, <1>2, NoGap
<1>4. UpTo(o) = Cardinality(S)
  BY DEF UpTo
<1>5. ASSUME NEW i \in 1..Len(Mib) PROVE LexLess(o, Mib[i]) <=> i > UpTo(o)
  <2>1. i \in S <=> ~LexLess(o, Mib[i])
    OBVIOUS
  <2> HIDE DEF S
  <2>2. i \in S <=> i \in 1..UpTo(o)
    BY <1>3, <1>4
  <2> QED
    BY <1>2, <1>3, <1>4, <2>1, <2>2
<1> QED
  BY <1>3, <1>4, <1>5

\* The walk that goes on from an instance goes on with the next one.
LEMMA UpToInstance ==
  ASSUME NEW i \in 1..Len(Mib)
  PROVE  UpTo(Mib[i]) = i
<1>1. Mib[i] \in Oid /\ i \in Nat /\ Len(Mib) \in Nat
  BY MibFacts
<1>2. /\ UpTo(Mib[i]) \in 0..Len(Mib)
      /\ \A j \in 1..Len(Mib) : LexLess(Mib[i], Mib[j]) <=> j > UpTo(Mib[i])
  BY <1>1, UpToFacts
<1>3. ~(i > UpTo(Mib[i]))
  BY <1>1, <1>2, NotLessThanItself
<1>4. CASE i < UpTo(Mib[i])
  <2>1. UpTo(Mib[i]) \in 1..Len(Mib)
    BY <1>1, <1>2, <1>4
  <2>2. LexLess(Mib[i], Mib[UpTo(Mib[i])])
    BY <1>4, <2>1, MibFacts
  <2>3. UpTo(Mib[i]) > UpTo(Mib[i])
    BY <1>2, <2>1, <2>2
  <2> QED
    BY <1>2, <2>3
<1> QED
  BY <1>1, <1>2, <1>3, <1>4

\* What After gives.
LEMMA AfterFacts ==
  ASSUME NEW o \in Oid
  PROVE  /\ Len(After(o)) = Len(Mib) - UpTo(o)
         /\ \A j \in 1..Len(After(o)) : After(o)[j] = Mib[UpTo(o) + j]
<1> DEFINE k == UpTo(o)
<1>1. k \in 0..Len(Mib) /\ Len(Mib) \in Nat /\ Mib \in Seq(Oid)
  BY AgentAssumption, UpToFacts, MibFacts
<1>2. After(o) = SubSeq(Mib, k + 1, Len(Mib))
  BY DEF After, UpTo
<1> HIDE DEF k
<1>3. SubSeq(Mib, k + 1, Len(Mib)) = [j \in 1..(Len(Mib) - k) |-> Mib[k + j]]
  <2>1. Len(Mib) - (k + 1) + 1 = Len(Mib) - k /\ k + 1 \in Nat
    BY <1>1
  <2>2. \A j \in 1..(Len(Mib) - k) : (k + 1) + j - 1 = k + j
    BY <1>1
  <2> QED
    BY <1>1, <2>1, <2>2
<1>4. Len([j \in 1..(Len(Mib) - k) |-> Mib[k + j]]) = Len(Mib) - k
  <2>1. Len(Mib) - k \in Nat
    BY <1>1
  <2> QED
    BY <2>1
<1> QED
  BY <1>2, <1>3, <1>4 DEF k

\* The instances below a node of the tree follow each other, and Subtree
\* lists them.
LEMMA SubtreeFacts ==
  ASSUME NEW root \in Root
  PROVE  /\ Count(root) \in Nat /\ UpTo(root) \in Nat
         /\ UpTo(root) + Count(root) <= Len(Mib)
         /\ \A i \in 1..Len(Mib) : StartsWith(Mib[i], root) <=>
              UpTo(root) < i /\ i <= UpTo(root) + Count(root)
         /\ Subtree(root) = [n \in 1..Count(root) |-> Mib[UpTo(root) + n]]
<1> DEFINE k == UpTo(root)
           B == Below(root)
           c == Cardinality(B)
           S == (1..k) \cup B
<1>1. root \in Oid /\ Len(Mib) \in Nat
  BY AgentAssumption, MibFacts
<1>2. k \in 0..Len(Mib) /\ \A i \in 1..Len(Mib) : LexLess(root, Mib[i]) <=> i > k
  BY <1>1, UpToFacts
<1>3. B \in SUBSET (1..Len(Mib)) /\ \A i \in 1..Len(Mib) : i \in B <=> StartsWith(Mib[i], root)
  BY DEF Below
<1> HIDE DEF k, B
<1>4. \A i \in B : i > k
  <2> SUFFICES ASSUME NEW i \in B PROVE LexLess(root, Mib[i])
    BY <1>2, <1>3
  <2> QED
    BY <1>1, <1>3, MibFacts, LongerIsGreater
<1>5. ASSUME NEW i \in S, NEW j \in 1..Len(Mib), j < i PROVE j \in S
  <2>1. CASE j <= k
    BY <1>2, <2>1
  <2>2. CASE j > k
    <3>1. i \in B
      BY <1>2, <1>5, <2>2
    <3>2. LexLess(root, Mib[j]) /\ LexLess(Mib[j], Mib[i]) /\ StartsWith(Mib[i], root)
      BY <1>2, <1>3, <1>5, <2>2, <3>1, MibFacts
    <3>3. StartsWith(Mib[j], root)
      BY <1>1, <1>3, <3>1, <3>2, MibFacts, BetweenIsBelow
    <3> QED
      BY <1>3, <3>3
  <2> QED
    BY <1>2, <2>1, <2>2
<1>6. S \in SUBSET (1..Len(Mib))
  BY <1>2, <1>3
<1>7. Cardinality(S) \in 0..Len(Mib) /\ S = 1..Cardinality(S) /\ IsFiniteSet(S)
  <2> HIDE DEF S
  <2> QED
    BY <1>1, <1>5, <1>6, NoGap
<1>8. Cardinality(S) = k + c /\ c \in Nat
  <2>1. IsFiniteSet(B)
    BY <1>7, FS_Subset
  <2>2. IsFiniteSet(1..k) /\ Cardinality(1..k) = k
    BY <1>2, FS_Interval
  <2>3. (1..k) \cap B = {}
    BY <1>2, <1>3, <1>4
  <2>4. Cardinality(S) = Cardinality(1..k) + c - Cardinality((1..k) \cap B)
    BY <2>1, <2>2, FS_Union
  <2>5. Cardinality({}) = 0 /\ c \in Nat
    BY <2>1, FS_EmptySet, FS_CardinalityType
  <2>6. Cardinality((1..k) \cap B) = 0
    BY <2>3, <2>5
  <2> HIDE DEF c, S
  <2> QED
    BY <1>2, <2>2, <2>4, <2>5, <2>6
<1>9. B = (k + 1)..(k + c)
  <2>1. \A i \in B : i \in (k + 1)..(k + c)
    <3> SUFFICES ASSUME NEW i \in B PROVE i \in (k + 1)..(k + c)
      OBVIOUS
    <3>1. i \in 1..(k + c)
      BY <1>7, <1>8
    <3> QED
      BY <1>2, <1>4, <1>8, <3>1
  <2>2. \A i \in (k + 1)..(k + c) : i \in B
    <3> SUFFICES ASSUME NEW i \in (k + 1)..(k + c) PROVE i \in B
      OBVIOUS
    <3>1. i \in 1..(k + c) /\ i \notin 1..k
      BY <1>2, <1>8
    <3> QED
      BY <1>7, <1>8, <3>1
  <2> QED
    BY <2>1, <2>2
<1>10. ASSUME NEW n \in 1..c PROVE Nth(B, n) = k + n
  <2>1. \A i \in B : Cardinality({j \in B : j <= i}) = i - k
    <3> SUFFICES ASSUME NEW i \in B PROVE Cardinality({j \in B : j <= i}) = i - k
      OBVIOUS
    <3>1. i \in Nat /\ i > k /\ i <= k + c
      BY <1>2, <1>8, <1>9
    <3>2. {j \in B : j <= i} = (k + 1)..i
      BY <1>2, <1>8, <1>9, <3>1
    <3>3. Cardinality((k + 1)..i) = i - k
      BY <1>2, <3>1, FS_Interval
    <3> QED
      BY <3>2, <3>3
  <2>2. k + n \in B /\ Cardinality({j \in B : j <= k + n}) = n
    BY <1>2, <1>8, <1>9, <2>1
  <2>3. ASSUME NEW i \in B, Cardinality({j \in B : j <= i}) = n PROVE i = k + n
    <3>1. i - k = n /\ i \in Int /\ k \in Int /\ n \in Int
      BY <1>2, <1>8, <1>9, <2>1, <2>3
    <3> QED
      BY <3>1
  <2> QED
    BY <2>2, <2>3 DEF Nth
<1>11. Subtree(root) = [n \in 1..c |-> Mib[k + n]]
  <2>1. Subtree(root) = [n \in 1..c |-> Mib[Nth(B, n)]]
    BY DEF Subtree, B
  <2> QED
    BY <1>10, <2>1
<1>12. Count(root) = c
  BY DEF Count, B
<1>13. k + c <= Len(Mib)
  BY <1>1, <1>7, <1>8
<1>14. ASSUME NEW i \in 1..Len(Mib)
       PROVE  StartsWith(Mib[i], root) <=> k < i /\ i <= k + c
  <2>1. i \in B <=> k + 1 <= i /\ i <= k + c
    BY <1>1, <1>2, <1>8, <1>9
  <2> QED
    BY <1>1, <1>2, <1>3, <2>1
<1> QED
  BY <1>2, <1>8, <1>11, <1>12, <1>13, <1>14 DEF k
-----------------------------------------------------------------------------
(***************************************************************************)
(* The invariant of an undisturbed walk.                                   *)
(***************************************************************************)
\* The n-th instance below the node that is walked.
At(n) == Mib[UpTo(walk.root) + n]

\* What was taken from the answers so far, displayed or buffered, and that a
\* sequence is a first part of the subtree.
Taken == query \o msg
InStep(s) == Len(s) <= Count(walk.root) /\ \A j \in 1..Len(s) : s[j] = At(j)

\* A varbind that is n instances on from the node.
GoesOn(v, n) == IF UpTo(walk.root) + n <= Len(Mib) THEN v = Vb(At(n), "value")
                                                    ELSE v.syntax = "endOfMibView"

\* Between two answers: the request asks for what follows the last instance.
WaitsInStep ==
  /\ objects = Len(Taken)
  /\ \A q \in out : q.oid = IF Len(Taken) = 0 THEN walk.root ELSE At(Len(Taken))

\* In an answer: the varbinds before cb.z were taken, the others go on.
LoopInStep ==
  /\ cb.error = "none"
  /\ cb.z <= Len(cb.vbs) + 1 /\ cb.z - 1 <= Len(Taken)
  /\ \A j \in 1..Len(cb.vbs) : GoesOn(cb.vbs[j], Len(Taken) + j - (cb.z - 1))
  /\ objects = IF cb.step = "start" THEN Len(Taken) ELSE Len(Taken) + 1
  /\ cb.step # "start" => cb.z <= Len(cb.vbs) /\ Len(Taken) < Count(walk.root)

UnderWay ==
  /\ walk.root \in Root /\ theoid = walk.root
  /\ blocking = "no" /\ report = "none"
  /\ InStep(Taken)
  /\ cb.op = "none" => WaitsInStep
  /\ cb.op = "walk" => LoopInStep

Over ==
  /\ walk.root \in Root
  /\ out = {} /\ cb.op = "none" /\ blocking # "table"
  /\ InStep(query)
  /\ report = "finished" => Len(query) = Count(walk.root) /\ objects = Len(query)

WalkInv ==
  Undisturbed => /\ WalkActive => UnderWay
                 /\ report # "none" => Over

\* MibModule's question is put for the name or the value of a varbind.
AsksInLoop == pc = "prompt" => cb.step # "start"

LEMMA Sequences ==
  ASSUME TypeOK
  PROVE  /\ query \in Seq(Oid) /\ msg \in Seq(Oid) /\ Taken \in Seq(Oid)
         /\ Len(query) \in Nat /\ Len(msg) \in Nat
         /\ Len(Taken) = Len(query) + Len(msg)
         /\ \A j \in 1..Len(query) : Taken[j] = query[j]
         /\ cb.vbs \in Seq(Varbind) /\ Len(cb.vbs) \in Nat /\ cb.z \in Nat \ {0}
<1>1. query \in Seq(Oid) /\ msg \in Seq(Oid)
  BY DEF TypeOK
<1>2. cb.vbs \in Seq(Varbind) /\ cb.z \in Nat \ {0}
  BY DEF TypeOK, Callback
<1> QED
  BY <1>1, <1>2 DEF Taken

\* An undisturbed walk is alone: what is outstanding or running is its own.
LEMMA OtherAnswer ==
  ASSUME SessionInv, WalkInv, Undisturbed, NEW q \in out, q.op # "walk"
  PROVE  ~WalkActive /\ report = "none"
<1>1. ~WalkActive
  BY DEF SessionInv, WalkActive, WalkOut, Undisturbed
<1>2. report = "none"
  BY DEF WalkInv, Over
<1> QED
  BY <1>1, <1>2

LEMMA WalkAnswer ==
  ASSUME SessionInv, WalkInv, Undisturbed, NEW q \in out, q.op = "walk"
  PROVE  out = {q} /\ cb.op = "none" /\ UnderWay
<1>1. WalkActive
  BY DEF WalkActive, WalkOut
<1>2. UnderWay
  BY <1>1 DEF WalkInv
<1>3. out = {q} /\ cb.op = "none"
  BY <1>1 DEF SessionInv, Undisturbed
<1> QED
  BY <1>2, <1>3

LEMMA OtherCallback ==
  ASSUME SessionInv, WalkInv, Undisturbed, cb.op # "none", cb.op # "walk"
  PROVE  ~WalkActive /\ report = "none"
<1>1. ~WalkActive
  BY DEF SessionInv, WalkActive, WalkOut, Undisturbed
<1>2. report = "none"
  BY DEF WalkInv, Over
<1> QED
  BY <1>1, <1>2

LEMMA WalkCallback ==
  ASSUME SessionInv, WalkInv, Undisturbed, cb.op = "walk"
  PROVE  out = {} /\ UnderWay /\ LoopInStep
<1>1. WalkActive
  BY DEF WalkActive
<1>2. UnderWay
  BY <1>1 DEF WalkInv
<1>3. out = {}
  BY <1>1 DEF SessionInv, Undisturbed
<1> QED
  BY <1>2, <1>3 DEF UnderWay

\* Steps that leave no walk behind, steps that do not touch it, and the ends
\* of a walk.
LEMMA NoWalkLeft ==
  ASSUME Undisturbed' => ~WalkActive' /\ report' = "none"
  PROVE  WalkInv'
BY DEF WalkInv

LEMMA Untouched ==
  ASSUME WalkInv,
         UNCHANGED <<theoid, objects, msg, query, out, cb, blocking, report>>,
         walk'.root = walk.root, walk'.disturbed = walk.disturbed,
         walk'.erred = walk.erred
  PROVE  WalkInv'
<1>1. /\ Undisturbed' <=> Undisturbed
      /\ WalkActive' <=> WalkActive
      /\ Taken' = Taken
  BY DEF Undisturbed, WalkActive, WalkOut, Taken
<1>2. \A n : At(n)' = At(n)
  BY DEF At
<1>3. \A s : InStep(s)' <=> InStep(s)
  BY <1>2 DEF InStep
<1>4. \A v, n : GoesOn(v, n)' <=> GoesOn(v, n)
  BY <1>2 DEF GoesOn
<1>5. (WaitsInStep' <=> WaitsInStep) /\ (LoopInStep' <=> LoopInStep)
  BY <1>1, <1>2, <1>4 DEF WaitsInStep, LoopInStep
<1>6. (UnderWay' <=> UnderWay) /\ (Over' <=> Over)
  BY <1>1, <1>3, <1>5 DEF UnderWay, Over
<1> QED
  BY <1>1, <1>6 DEF WalkInv

LEMMA Ended ==
  ASSUME TypeOK, UnderWay,
         out' = {}, cb'.op = "none", blocking' = blocking, walk'.root = walk.root,
         \/ query' = query /\ report' # "finished"
         \/ /\ query' = Taken
            /\ report' = "finished" => /\ Len(Taken) = Count(walk.root)
                                       /\ objects' = Len(Taken)
  PROVE  WalkInv'
<1>1. ~WalkActive'
  BY DEF WalkActive, WalkOut
<1>2. InStep(Taken) /\ Count(walk.root) \in Nat
  BY SubtreeFacts DEF UnderWay
<1>3. InStep(query)
  BY <1>2, Sequences DEF InStep
<1>4. InStep(query)'
  BY <1>2, <1>3 DEF InStep, At
<1>5. Over'
  BY <1>4 DEF Over, UnderWay
<1> QED
  BY <1>1, <1>5 DEF WalkInv

\* The varbinds of a get_bulk answer go on from the OID asked for.
LEMMA BulkFacts ==
  ASSUME NEW o \in Oid, NEW m \in Nat \ {0}
  PROVE  LET vbs == BulkVbs(o, m) IN
         /\ Len(vbs) \in Nat \ {0} /\ vbs # <<>>
         /\ \A j \in 1..Len(vbs) :
              IF UpTo(o) + j <= Len(Mib) THEN vbs[j] = Vb(Mib[UpTo(o) + j], "value")
                                         ELSE vbs[j].syntax = "endOfMibView"
<1> DEFINE rest == After(o)
           k == IF m <= Len(rest) THEN m ELSE Len(rest) + 1
           f == [i \in 1..k |-> IF i <= Len(rest) THEN Vb(rest[i], "value")
                                                  ELSE Vb(o, "endOfMibView")]
<1>1. /\ rest \in Seq(Oid) /\ Len(rest) \in Nat /\ UpTo(o) \in Nat /\ Len(Mib) \in Nat
      /\ Len(rest) = Len(Mib) - UpTo(o)
      /\ \A j \in 1..Len(rest) : rest[j] = Mib[UpTo(o) + j]
  BY AfterType, AfterFacts, UpToFacts, MibFacts
<1> HIDE DEF rest
<1>2. k \in Nat \ {0}
  BY <1>1
<1>3. BulkVbs(o, m) = f
  BY DEF BulkVbs, rest
<1>4. ASSUME NEW j \in 1..k
      PROVE  IF UpTo(o) + j <= Len(Mib) THEN f[j] = Vb(Mib[UpTo(o) + j], "value")
                                        ELSE f[j].syntax = "endOfMibView"
  <2>1. j \in Nat /\ 1 <= j
    BY <1>2
  <2>2. UpTo(o) + j <= Len(Mib) <=> j <= Len(rest)
    BY <1>1, <2>1
  <2>3. CASE j <= Len(rest)
    BY <1>1, <2>1, <2>2, <2>3
  <2>4. CASE ~(j <= Len(rest))
    BY <2>2, <2>4 DEF Vb
  <2> QED
    BY <2>3, <2>4
<1> HIDE DEF k
<1>5. Len(f) = k /\ f # <<>>
  BY <1>2
<1> QED
  BY <1>2, <1>3, <1>4, <1>5

\* Where the request of a walk stands.
LEMMA AskedFor ==
  ASSUME TypeOK, UnderWay, cb.op = "none", NEW q \in out
  PROVE  UpTo(q.oid) = UpTo(walk.root) + Len(Taken)
<1>1. /\ Count(walk.root) \in Nat /\ UpTo(walk.root) \in Nat
      /\ UpTo(walk.root) + Count(walk.root) <= Len(Mib)
      /\ Len(Taken) \in Nat /\ Len(Mib) \in Nat
  BY SubtreeFacts, Sequences, MibFacts DEF UnderWay
<1>2. Len(Taken) <= Count(walk.root) /\ WaitsInStep
  BY DEF UnderWay, InStep
<1>3. CASE Len(Taken) = 0
  BY <1>1, <1>2, <1>3 DEF WaitsInStep
<1>4. CASE Len(Taken) # 0
  <2>1. UpTo(walk.root) + Len(Taken) \in 1..Len(Mib)
    BY <1>1, <1>2, <1>4
  <2> QED
    BY <1>2, <1>4, <2>1, UpToInstance DEF WaitsInStep, At
<1> QED
  BY <1>3, <1>4
-----------------------------------------------------------------------------
\* While the node walked stays the same, so does the subtree.
LEMMA SameSubtree ==
  ASSUME walk'.root = walk.root
  PROVE  /\ Count(walk.root)' = Count(walk.root)
         /\ \A n : At(n)' = At(n)
         /\ \A s : InStep(s)' <=> InStep(s)
         /\ \A v, n : GoesOn(v, n)' <=> GoesOn(v, n)
<1>1. Count(walk.root)' = Count(walk.root) /\ \A n : At(n)' = At(n)
  BY DEF At, Count, Below
<1>2. \A s : InStep(s)' <=> InStep(s)
  BY <1>1 DEF InStep
<1>3. \A v, n : GoesOn(v, n)' <=> GoesOn(v, n)
  BY <1>1 DEF GoesOn
<1> QED
  BY <1>1, <1>2, <1>3

\* The varbind the loop is at is the next instance, if there is one; the loop
\* ends exactly when all of the subtree was taken.
LEMMA CurrentVarbind ==
  ASSUME TypeOK, UnderWay, LoopInStep, cb.op = "walk", cb.z <= Len(cb.vbs)
  PROVE  /\ Len(Taken) < Count(walk.root) =>
              vb = Vb(At(Len(Taken) + 1), "value") /\ ~OutOfScope
         /\ Len(Taken) = Count(walk.root) => OutOfScope
         /\ Len(Taken) \in Nat /\ Count(walk.root) \in Nat
         /\ Len(Taken) <= Count(walk.root)
<1> DEFINE n == Len(Taken)
<1>1. /\ Count(walk.root) \in Nat /\ UpTo(walk.root) \in Nat /\ Len(Mib) \in Nat
      /\ UpTo(walk.root) + Count(walk.root) <= Len(Mib)
      /\ \A i \in 1..Len(Mib) : StartsWith(Mib[i], walk.root) <=>
           UpTo(walk.root) < i /\ i <= UpTo(walk.root) + Count(walk.root)
  BY SubtreeFacts, MibFacts DEF UnderWay
<1>2. n \in Nat /\ Len(cb.vbs) \in Nat /\ cb.z \in 1..Len(cb.vbs)
  BY Sequences
<1>3. n <= Count(walk.root) /\ theoid = walk.root
  BY DEF UnderWay, InStep
<1> HIDE DEF n
<1>4. GoesOn(vb, n + 1)
  <2>1. GoesOn(cb.vbs[cb.z], n + cb.z - (cb.z - 1))
    BY <1>2 DEF LoopInStep, n
  <2>2. n + cb.z - (cb.z - 1) = n + 1
    BY <1>2
  <2> QED
    BY <2>1, <2>2 DEF vb
<1>5. CASE UpTo(walk.root) + (n + 1) <= Len(Mib)
  <2>1. vb = Vb(At(n + 1), "value")
    BY <1>4, <1>5 DEF GoesOn
  <2>2. vb.oid = At(n + 1) /\ vb.syntax # "endOfMibView"
    BY <2>1 DEF Vb
  <2>3. UpTo(walk.root) + (n + 1) \in 1..Len(Mib)
    BY <1>1, <1>2, <1>5
  <2>4. StartsWith(vb.oid, theoid) <=> n + 1 <= Count(walk.root)
    BY <1>1, <1>2, <1>3, <2>2, <2>3 DEF At
  <2> QED
    BY <1>1, <1>2, <1>3, <2>1, <2>2, <2>4 DEF OutOfScope, n
<1>6. CASE ~(UpTo(walk.root) + (n + 1) <= Len(Mib))
  <2>1. vb.syntax = "endOfMibView"
    BY <1>4, <1>6 DEF GoesOn
  <2>2. n = Count(walk.root)
    BY <1>1, <1>2, <1>3, <1>6
  <2> QED
    BY <1>1, <1>2, <2>1, <2>2 DEF OutOfScope, n
<1> QED
  BY <1>5, <1>6

\* A varbind in the subtree is on its way to being displayed.
LEMMA StepsOn ==
  ASSUME TypeOK, UnderWay, LoopInStep, cb.op = "walk", cb.z <= Len(cb.vbs),
         cb'.op = cb.op, cb'.z = cb.z, cb'.vbs = cb.vbs, cb'.error = cb.error,
         cb'.step # "start", Len(Taken) < Count(walk.root),
         objects' = Len(Taken) + 1,
         UNCHANGED <<theoid, msg, query, out, blocking, walk, report>>
  PROVE  WalkInv'
<1>1. Taken' = Taken
  BY DEF Taken
<1>2. walk'.root = walk.root
  OBVIOUS
<1>3. LoopInStep'
  BY <1>1, <1>2, SameSubtree DEF LoopInStep
<1>4. UnderWay'
  BY <1>1, <1>2, <1>3, SameSubtree DEF UnderWay
<1>5. report' = "none"
  BY DEF UnderWay
<1> QED
  BY <1>4, <1>5 DEF WalkInv

\* A varbind is displayed or buffered.
LEMMA ShowsNext ==
  ASSUME TypeOK, UnderWay, LoopInStep, cb.op = "walk", Shows
  PROVE  WalkInv'
<1> DEFINE n == Len(Taken)
<1>1. /\ cb.z <= Len(cb.vbs) /\ cb.step = "show"
      /\ UNCHANGED <<theoid, objects, out, blocking, walk, report>>
      /\ cb' = [cb EXCEPT !.z = @ + 1, !.step = "start"]
  BY DEF Shows, InLoop
<1>2. n < Count(walk.root) /\ objects = n + 1
  BY <1>1 DEF LoopInStep
<1>3. vb.oid = At(n + 1) /\ n \in Nat /\ Count(walk.root) \in Nat
  BY <1>1, <1>2, CurrentVarbind DEF Vb
<1>4. /\ cb.z \in Nat \ {0} /\ Len(cb.vbs) \in Nat /\ cb \in Callback
      /\ query \in Seq(Oid) /\ msg \in Seq(Oid) /\ Taken \in Seq(Oid)
  BY Sequences DEF TypeOK
<1>5. cb'.z = cb.z + 1 /\ cb'.step = "start" /\ cb'.op = "walk" /\ cb'.vbs = cb.vbs
      /\ cb'.error = cb.error
  BY <1>1, <1>4 DEF Callback
<1>o. vb.oid \in Oid
  <2>1. cb.vbs \in Seq(Varbind) /\ cb.z \in 1..Len(cb.vbs)
    BY <1>1, <1>4 DEF Callback
  <2>2. vb \in Varbind
    BY <2>1 DEF vb
  <2> QED
    BY <2>2 DEF Varbind
<1>6. Taken' = Append(Taken, vb.oid)
  <2>1. \/ query' = query \o Append(msg, vb.oid) /\ msg' = <<>>
        \/ msg' = Append(msg, vb.oid) /\ query' = query
    BY DEF Shows, Buffer
  <2>2. query \o Append(msg, vb.oid) = Append(query \o msg, vb.oid)
    BY <1>4, <1>o
  <2>3. Append(query \o msg, vb.oid) \o <<>> = Append(query \o msg, vb.oid)
    BY <1>4, <1>o
  <2> QED
    BY <2>1, <2>2, <2>3 DEF Taken
<1>7. /\ Len(Taken') = n + 1 /\ Taken'[n + 1] = At(n + 1)
      /\ \A j \in 1..n : Taken'[j] = Taken[j]
  BY <1>3, <1>4, <1>6, <1>o
<1>8. \A j \in 1..n : Taken[j] = At(j)
  BY DEF UnderWay, InStep
<1> HIDE DEF n
<1>9. walk'.root = walk.root /\ n + 1 <= Count(walk.root)
  BY <1>1, <1>2, <1>3
<1>10. InStep(Taken')
  <2>1. ASSUME NEW j \in 1..(n + 1) PROVE Taken'[j] = At(j)
    <3>1. j = n + 1 \/ j \in 1..n
      BY <1>3
    <3> QED
      BY <1>7, <1>8, <3>1
  <2> QED
    BY <1>7, <1>9, <2>1 DEF InStep
<1>11. InStep(Taken)'
  BY <1>9, <1>10, SameSubtree
<1>12. LoopInStep'
  <2>1. cb'.z - 1 <= Len(Taken') /\ cb'.z <= Len(cb'.vbs) + 1 /\ cb'.error = "none"
    BY <1>1, <1>3, <1>4, <1>5, <1>7 DEF LoopInStep, n
  <2>2. (\A j \in 1..Len(cb.vbs) : GoesOn(cb.vbs[j], Len(Taken) + j - (cb.z - 1)))'
    <3>1. ASSUME NEW j \in 1..Len(cb.vbs)
          PROVE  Len(Taken') + j - (cb'.z - 1) = n + j - (cb.z - 1)
      <4> DEFINE c == cb.z
      <4>1. n \in Nat /\ j \in Nat /\ c \in Nat
        BY <1>3, <1>4
      <4>2. Len(Taken') = n + 1 /\ cb'.z = c + 1
        BY <1>5, <1>7
      <4> HIDE DEF c
      <4>3. (n + 1) + j - ((c + 1) - 1) = n + j - (c - 1)
        BY <4>1
      <4> QED
        BY <4>2, <4>3 DEF c
    <3>2. \A j \in 1..Len(cb.vbs) : GoesOn(cb.vbs[j], n + j - (cb.z - 1))
      BY DEF LoopInStep, n
    <3> QED
      BY <1>5, <1>9, <3>1, <3>2 DEF GoesOn, At
  <2>3. objects' = Len(Taken')
    BY <1>1, <1>2, <1>7 DEF n
  <2> QED
    BY <1>5, <2>1, <2>2, <2>3 DEF LoopInStep
<1>13. UnderWay'
  BY <1>1, <1>5, <1>11, <1>12 DEF UnderWay
<1> QED
  BY <1>13 DEF WalkInv, UnderWay

\* The answer of the agent to a request of the walk.
LEMMA WalkAnswered ==
  ASSUME TypeOK, SessionInv, WalkInv, NEW q \in out, q.op = "walk",
         NEW a, a \in GoodAnswers(q) \/ a \in ErrorAnswers(q), Response(q, a)
  PROVE  WalkInv'
<1> SUFFICES ASSUME Undisturbed' PROVE WalkInv'
  BY DEF WalkInv
<1>1. /\ walk' = [walk EXCEPT !.erred = @ \/ (q.op = "walk" /\ a \in ErrorAnswers(q))]
      /\ out' = out \ {q} /\ UNCHANGED <<theoid, stop, blocking>>
  BY DEF Response
<1>2. Undisturbed /\ walk'.root = walk.root /\ a \notin ErrorAnswers(q)
  <2>1. walk \in History
    BY DEF TypeOK
  <2> QED
    BY <1>1, <2>1 DEF Undisturbed, History
<1>3. out = {q} /\ cb.op = "none" /\ UnderWay /\ out' = {}
  BY <1>1, <1>2, WalkAnswer
<1>4. /\ InStep(Taken) /\ WaitsInStep /\ theoid = walk.root /\ report = "none"
      /\ blocking = "no" /\ walk.root \in Root
  BY <1>3 DEF UnderWay
<1>5. /\ Count(walk.root) \in Nat /\ UpTo(walk.root) \in Nat /\ Len(Mib) \in Nat
      /\ UpTo(walk.root) + Count(walk.root) <= Len(Mib)
      /\ Len(Taken) \in Nat /\ Len(Taken) <= Count(walk.root)
  BY <1>4, SubtreeFacts, Sequences, MibFacts DEF InStep
<1>6. UpTo(q.oid) = UpTo(walk.root) + Len(Taken) /\ q.oid \in Oid
  BY <1>3, AskedFor DEF TypeOK, Request
<1>7. CASE \E m \in 1..MaxRep : a = [error |-> "none", index |-> 0, vbs |-> BulkVbs(q.oid, m)]
  <2>1. PICK m \in 1..MaxRep : a = [error |-> "none", index |-> 0, vbs |-> BulkVbs(q.oid, m)]
    BY <1>7
  <2>2. m \in Nat \ {0}
    BY BoundsAssumption
  <2>3. /\ Len(a.vbs) \in Nat \ {0} /\ a.vbs # <<>>
        /\ \A j \in 1..Len(a.vbs) :
             IF UpTo(q.oid) + j <= Len(Mib)
             THEN a.vbs[j] = Vb(Mib[UpTo(q.oid) + j], "value")
             ELSE a.vbs[j].syntax = "endOfMibView"
    BY <1>6, <2>1, <2>2, BulkFacts
  <2>4. ~Ends(q, a) /\ ~Fails(q, a) /\ a.error = "none"
    BY <2>1, <2>3 DEF Ends, Fails
  <2>5. StartsLoop(q, a)
    BY <2>4 DEF Response
  <2>6. /\ cb'.op = "walk" /\ cb'.z = 1 /\ cb'.vbs = a.vbs /\ cb'.error = "none"
        /\ cb'.step = "start" /\ objects' = objects
        /\ UNCHANGED <<msg, query, report>>
    BY <2>4, <2>5 DEF StartsLoop
  <2>7. Taken' = Taken
    BY <2>6 DEF Taken
  <2>8. ASSUME NEW j \in 1..Len(a.vbs) PROVE GoesOn(a.vbs[j], Len(Taken) + j - (1 - 1))
    <3>1. j \in Nat /\ Len(Taken) + j - (1 - 1) = Len(Taken) + j
      BY <1>5, <2>3
    <3>2. UpTo(q.oid) + j = UpTo(walk.root) + (Len(Taken) + j)
      BY <1>5, <1>6, <3>1
    <3>3. GoesOn(a.vbs[j], Len(Taken) + j)
      BY <2>3, <2>8, <3>2 DEF GoesOn, At
    <3> QED
      BY <3>1, <3>3
  <2>9. LoopInStep'
    <3>1. (\A j \in 1..Len(cb.vbs) : GoesOn(cb.vbs[j], Len(Taken) + j - (cb.z - 1)))'
      BY <1>2, <2>6, <2>7, <2>8 DEF GoesOn, At
    <3>2. objects' = Len(Taken')
      BY <1>4, <2>6, <2>7 DEF WaitsInStep
    <3>3. cb'.z <= Len(cb'.vbs) + 1 /\ cb'.z - 1 <= Len(Taken')
      BY <1>5, <2>3, <2>6, <2>7
    <3> QED
      BY <2>6, <3>1, <3>2, <3>3 DEF LoopInStep
  <2>10. InStep(Taken)'
    BY <1>2, <1>4, <2>7, SameSubtree
  <2>11. UnderWay'
    BY <1>1, <1>2, <1>4, <2>6, <2>9, <2>10 DEF UnderWay
  <2> QED
    BY <2>11 DEF WalkInv, UnderWay
<1>8. CASE After(q.oid) = <<>> /\ a = [error |-> "noSuchName", index |-> 1,
                                      vbs |-> <<Vb(q.oid, "value")>>]
  <2>1. Ends(q, a)
    BY <1>8 DEF Ends
  <2>2. End("walk", msg) /\ objects' = objects
    BY <2>1 DEF Response, Fails
  <2>3. Len(Taken) = Count(walk.root)
    <3>1. Len(After(q.oid)) = Len(Mib) - UpTo(q.oid)
      BY <1>6, AfterFacts
    <3>2. Len(After(q.oid)) = 0
      BY <1>8
    <3> QED
      BY <1>5, <1>6, <3>1, <3>2
  <2>4. query' = Taken /\ cb'.op = "none"
    BY <2>2 DEF End, Cleanup, NoCb, Taken
  <2>5. objects' = Len(Taken)
    BY <1>4, <2>2 DEF WaitsInStep
  <2> QED
    BY <1>1, <1>2, <1>3, <2>3, <2>4, <2>5, Ended
<1> QED
  BY <1>2, <1>7, <1>8 DEF GoodAnswers
-----------------------------------------------------------------------------
LEMMA AsksStep == ASSUME AsksInLoop, [Next]_vars PROVE AsksInLoop'
<1> USE DEF AsksInLoop
<1>1. ASSUME NEW oid \in Root, WalkFrom(oid) PROVE AsksInLoop'
  BY <1>1 DEF WalkFrom
<1>2. ASSUME NEW oid \in Root, NEW b \in BOOLEAN,
             Get(oid, b) \/ Set(oid, b) \/ GetFromSelectInstance(oid)
      PROVE AsksInLoop'
  BY <1>2 DEF Get, Set, GetFromSelectInstance, Query
<1>3. ASSUME NEW oid \in Root, TableViewFrom(oid) \/ SelectTableInstance(oid)
      PROVE AsksInLoop'
  BY <1>3 DEF TableViewFrom, SelectTableInstance
<1>4. CASE Stop \/ TableViewEnds \/ TimerExpired \/ UNCHANGED vars
  BY <1>4 DEF Stop, TableViewEnds, TimerExpired, vars
<1>5. ASSUME NEW q \in out, Timeout(q) \/ GoodResponse(q) \/ ErrorResponse(q)
      PROVE AsksInLoop'
  BY <1>5, EndsTimed DEF Timeout, GoodResponse, ErrorResponse, Response, StartsLoop
<1>6. CASE VarbindEnds \/ QueryEnds \/ ShowsError \/ ReissueFails
  BY <1>6, EndsTimed DEF VarbindEnds, QueryEnds, ShowsError, ReissueFails
<1>7. CASE VarbindCounts \/ LoadsNothing \/ Shows \/ BoxDismissed \/ TimerExpiredInDialog
  BY <1>7 DEF VarbindCounts, LoadsNothing, Shows, BoxDismissed, TimerExpiredInDialog,
     InLoop
<1>8. ASSUME NEW m \in Module, AutoLoads(m) \/ Prompts(m) PROVE AsksInLoop'
  BY <1>8 DEF AutoLoads, Prompts, Load, InLoop
<1>9. ASSUME NEW all \in BOOLEAN, Declines(all) \/ \E m \in Module : Accepts(m, all)
      PROVE AsksInLoop'
  BY <1>9 DEF Declines, Accepts, Load
<1>10. CASE Reissues
  BY <1>10 DEF Reissues
<1>11. QED
  BY <1>1, <1>2, <1>3, <1>4, <1>5, <1>6, <1>7, <1>8, <1>9, <1>10
     DEF Next, User, Answers, Dialogs, Loop

\* A walk starts.
LEMMA WalkStarts ==
  ASSUME TypeOK, SessionInv, WalkInv, NEW oid \in Root, WalkFrom(oid)
  PROVE  WalkInv'
<1> SUFFICES ASSUME Undisturbed' PROVE WalkInv'
  BY DEF WalkInv
<1>1. /\ cb' = cb /\ blocking' = "no" /\ cb.op = "none"
      /\ theoid' = oid /\ objects' = 0 /\ query' = <<>> /\ msg' = <<>>
      /\ report' = "none"
  BY DEF WalkFrom, Clear, AtTopLevel, SessionInv
<1>2. walk'.root = oid /\ out = {}
  BY DEF WalkFrom, Undisturbed
<1>3. \A q \in out' : q.oid = oid
  BY <1>2 DEF WalkFrom, Send
<1>4. Taken' = <<>>
  <2>1. <<>> \o <<>> = <<>>
    OBVIOUS
  <2> QED
    BY <1>1, <2>1 DEF Taken
<1>5. Len(Taken') = 0
  BY <1>4
<1>6. Count(oid) \in Nat
  BY SubtreeFacts
<1>7. InStep(Taken)'
  BY <1>2, <1>5, <1>6 DEF InStep, Count, Below
<1>8. WaitsInStep'
  BY <1>1, <1>2, <1>3, <1>5 DEF WaitsInStep
<1>9. UnderWay'
  BY <1>1, <1>2, <1>7, <1>8 DEF UnderWay
<1> QED
  BY <1>1, <1>9 DEF WalkInv

\* A request of the walk is not answered, or a request of another operation
\* is.
LEMMA WalkTimesOut ==
  ASSUME TypeOK, SessionInv, WalkInv, NEW q \in out, Timeout(q)
  PROVE  WalkInv'
<1> SUFFICES ASSUME Undisturbed' PROVE WalkInv'
  BY DEF WalkInv
<1>1. /\ walk' = walk /\ out' = out \ {q} /\ UNCHANGED blocking
      /\ Fail(q.op) /\ Cleanup(q.op, <<>>) /\ Undisturbed
  BY DEF Timeout, Fail, Undisturbed
<1>2. query' = query /\ cb'.op = "none"
  BY <1>1 DEF Cleanup, NoCb, TypeOK
<1>3. CASE q.op = "walk"
  <2>1. out' = {} /\ UnderWay
    BY <1>1, <1>3, WalkAnswer
  <2>2. report' # "finished"
    BY <1>1, <1>3 DEF Fail
  <2> QED
    BY <1>1, <1>2, <2>1, <2>2, Ended
<1>4. CASE q.op # "walk"
  <2>1. ~WalkActive /\ report = "none"
    BY <1>1, <1>4, OtherAnswer
  <2>2. ~WalkActive' /\ report' = "none"
    BY <1>1, <1>2, <1>4, <2>1 DEF Fail, WalkActive, WalkOut
  <2> QED
    BY <2>2, NoWalkLeft
<1> QED
  BY <1>3, <1>4

LEMMA OtherAnswered ==
  ASSUME TypeOK, SessionInv, WalkInv, NEW q \in out, q.op # "walk",
         NEW a, Response(q, a)
  PROVE  WalkInv'
<1> SUFFICES ASSUME Undisturbed' PROVE ~WalkActive' /\ report' = "none"
  BY NoWalkLeft
<1>1. /\ walk' = [walk EXCEPT !.erred = @ \/ (q.op = "walk" /\ a \in ErrorAnswers(q))]
      /\ out' = out \ {q}
  BY DEF Response
<1>2. Undisturbed
  BY <1>1 DEF Undisturbed, TypeOK, History
<1>3. ~WalkActive /\ report = "none"
  BY <1>2, OtherAnswer
<1>4. cb'.op # "walk" /\ report' = report
  BY DEF Response, Fail, End, Cleanup, StartsLoop, NoCb
<1> QED
  BY <1>1, <1>3, <1>4 DEF WalkActive, WalkOut

\* A step in the callback of another operation.
LEMMA OtherLoop ==
  ASSUME SessionInv, WalkInv, cb.op # "none", cb.op # "walk",
         UNCHANGED <<out, walk, report>>, cb'.op # "walk"
  PROVE  WalkInv'
<1> SUFFICES ASSUME Undisturbed' PROVE ~WalkActive' /\ report' = "none"
  BY NoWalkLeft
<1>1. Undisturbed
  BY DEF Undisturbed
<1>2. ~WalkActive /\ report = "none"
  BY <1>1, OtherCallback
<1> QED
  BY <1>2 DEF WalkActive, WalkOut

\* The steps of AsyncCallback in an answer of the walk.
LEMMA WalkLoop ==
  ASSUME TypeOK, SessionInv, WalkInv, AsksInLoop, Undisturbed, cb.op = "walk",
         \/ Loop
         \/ \E all \in BOOLEAN : Declines(all) \/ \E m \in Module : Accepts(m, all)
  PROVE  WalkInv'
<1>1. out = {} /\ UnderWay /\ LoopInStep
  BY WalkCallback
<1>2. InStep(Taken) /\ theoid = walk.root /\ blocking = "no" /\ report = "none"
      /\ walk.root \in Root
  BY <1>1 DEF UnderWay
<1>3. cb \in Callback /\ cb.vbs \in Seq(Varbind) /\ cb.vbs # <<>>
      /\ Len(cb.vbs) \in Nat /\ cb.z \in Nat \ {0} /\ Len(Taken) \in Nat
  BY Sequences DEF TypeOK, SessionInv
\* A varbind is at "name", "value" or "show" for as long as it takes.
<1>on. ASSUME cb.step # "start", cb'.step # "start",
              cb'.op = cb.op, cb'.z = cb.z, cb'.vbs = cb.vbs, cb'.error = cb.error,
              UNCHANGED <<theoid, objects, msg, query, out, blocking, walk, report>>
       PROVE  WalkInv'
  <2>1. /\ cb.z <= Len(cb.vbs) /\ Len(Taken) < Count(walk.root)
        /\ objects' = Len(Taken) + 1
    BY <1>1, <1>on DEF LoopInStep
  <2> QED
    BY <1>1, <1>on, <2>1, StepsOn
<1>4. CASE VarbindEnds
  <2>1. /\ cb.z <= Len(cb.vbs) /\ cb.step = "start" /\ OutOfScope /\ End("walk", msg)
        /\ UNCHANGED <<objects, out, blocking, walk>>
    BY <1>4 DEF VarbindEnds, InLoop
  <2>2. Len(Taken) = Count(walk.root)
    BY <1>1, <2>1, CurrentVarbind
  <2>3. objects' = Len(Taken)
    BY <1>1, <2>1 DEF LoopInStep
  <2>4. query' = Taken /\ cb'.op = "none"
    BY <2>1 DEF End, Cleanup, NoCb, Taken
  <2> QED
    BY <1>1, <2>1, <2>2, <2>3, <2>4, Ended
<1>5. CASE VarbindCounts
  <2>1. /\ cb.z <= Len(cb.vbs) /\ cb.step = "start" /\ ~OutOfScope
        /\ objects' = objects + 1
        /\ cb'.op = cb.op /\ cb'.z = cb.z /\ cb'.vbs = cb.vbs /\ cb'.error = cb.error
        /\ cb'.step # "start"
        /\ UNCHANGED <<theoid, msg, query, out, blocking, walk, report>>
    BY <1>3, <1>5 DEF VarbindCounts, InLoop, Callback
  <2>2. objects' = Len(Taken) + 1
    BY <1>1, <2>1 DEF LoopInStep
  <2>3. Len(Taken) < Count(walk.root)
    BY <1>1, <2>1, CurrentVarbind
  <2> QED
    BY <1>1, <2>1, <2>2, <2>3, StepsOn
<1>6. CASE LoadsNothing
  <2>1. /\ cb.step # "start"
        /\ cb'.op = cb.op /\ cb'.z = cb.z /\ cb'.vbs = cb.vbs /\ cb'.error = cb.error
        /\ cb'.step # "start"
        /\ UNCHANGED <<theoid, objects, msg, query, out, blocking, walk, report>>
    BY <1>3, <1>6 DEF LoadsNothing, InLoop, NextStep, members, Callback
  <2> QED
    BY <1>on, <2>1
<1>7. ASSUME NEW m \in Module, AutoLoads(m) \/ \E all \in BOOLEAN : Accepts(m, all)
      PROVE  WalkInv'
  <2>1. /\ cb.step # "start"
        /\ cb'.op = cb.op /\ cb'.z = cb.z /\ cb'.vbs = cb.vbs /\ cb'.error = cb.error
        /\ cb'.step # "start"
        /\ UNCHANGED <<theoid, objects, msg, query, out, blocking, walk, report>>
    BY <1>3, <1>7 DEF AutoLoads, Accepts, Load, InLoop, AsksInLoop, members,
       Callback
  <2> QED
    BY <1>on, <2>1
<1>8. ASSUME NEW all \in BOOLEAN, Declines(all) PROVE WalkInv'
  <2>1. /\ cb.step # "start"
        /\ cb'.op = cb.op /\ cb'.z = cb.z /\ cb'.vbs = cb.vbs /\ cb'.error = cb.error
        /\ cb'.step # "start"
        /\ UNCHANGED <<theoid, objects, msg, query, out, blocking, walk, report>>
    BY <1>3, <1>8 DEF Declines, NextStep, AsksInLoop, members, Callback
  <2> QED
    BY <1>on, <2>1
<1>9. ASSUME NEW m \in Module, Prompts(m) PROVE WalkInv'
  BY <1>9, Untouched DEF Prompts, members
\* The instances below the node have values and the answer has no error.
<1>10. CASE ShowsError
  <2>1. cb.z <= Len(cb.vbs) /\ cb.step = "show" /\ VbError
    BY <1>10 DEF ShowsError, InLoop
  <2>2. vb.syntax = "value"
    BY <1>1, <2>1, CurrentVarbind DEF LoopInStep, Vb
  <2> QED
    BY <1>1, <2>1, <2>2 DEF VbError, LoopInStep
<1>11. CASE Shows
  BY <1>1, <1>11, ShowsNext
<1>12. CASE Reissues
  <2> DEFINE n == Len(Taken)
             k == Len(cb.vbs)
  <2>1. /\ cb.z > k /\ cb'.op = "none"
        /\ out' = out \cup {[n |-> cb.n, op |-> "walk", oid |-> cb.vbs[k].oid, size |-> 1]}
        /\ UNCHANGED <<theoid, objects, msg, query, blocking, walk, report>>
    BY <1>12 DEF Reissues, LoopDone, NoCb, members
  <2>2. /\ cb.z <= k + 1 /\ cb.z - 1 <= n /\ cb.step = "start" /\ objects = n
        /\ \A j \in 1..k : GoesOn(cb.vbs[j], n + j - (cb.z - 1))
    BY <1>1, <1>3, <2>1 DEF LoopInStep
  <2>3. k >= 1
    BY <1>3
  <2>4. n \in Nat /\ k \in Nat /\ n >= 1 /\ cb.z - 1 = k /\ n + k - (cb.z - 1) = n
    <3>1. cb.z = k + 1
      BY <1>3, <2>1, <2>2
    <3> HIDE DEF k, n
    <3> QED
      BY <1>3, <2>2, <2>3, <3>1 DEF n, k
  <2>5. GoesOn(cb.vbs[k], n)
    <3>1. k \in 1..k
      BY <2>3, <2>4
    <3>2. GoesOn(cb.vbs[k], n + k - (cb.z - 1))
      BY <2>2, <3>1
    <3> QED
      BY <2>4, <3>2
  <2>6. UpTo(walk.root) + n <= Len(Mib)
    BY <1>2, <2>4, SubtreeFacts, MibFacts DEF InStep
  <2>7. cb.vbs[k].oid = At(n)
    BY <2>5, <2>6 DEF GoesOn, Vb
  <2>8. Taken' = Taken /\ walk'.root = walk.root
    BY <2>1 DEF Taken
  <2>9. \A q \in out' : q.oid = At(n)
    BY <1>1, <2>1, <2>7
  <2>10. WaitsInStep'
    BY <2>1, <2>2, <2>4, <2>8, <2>9, SameSubtree DEF WaitsInStep
  <2>11. InStep(Taken)'
    BY <1>2, <2>8, SameSubtree
  <2>12. UnderWay'
    BY <1>2, <2>1, <2>8, <2>10, <2>11 DEF UnderWay
  <2> QED
    BY <2>12 DEF WalkInv, UnderWay
<1>13. CASE ReissueFails
  <2>1. /\ query' = query /\ report' = "failed" /\ cb'.op = "none"
        /\ UNCHANGED <<out, blocking, walk>>
    BY <1>13 DEF ReissueFails, Fail, Cleanup, NoCb, TypeOK
  <2> QED
    BY <1>1, <2>1, Ended
<1>14. CASE QueryEnds
  <2>1. /\ query' = Taken /\ report' = "stopped" /\ cb'.op = "none"
        /\ UNCHANGED <<out, blocking, walk>>
    BY <1>14 DEF QueryEnds, End, Cleanup, NoCb, Taken
  <2> QED
    BY <1>1, <2>1, Ended
<1> QED
  BY <1>4, <1>5, <1>6, <1>7, <1>8, <1>9, <1>10, <1>11, <1>12, <1>13, <1>14 DEF Loop
-----------------------------------------------------------------------------
LEMMA WalkStep ==
  ASSUME TypeOK, SessionInv, WalkInv, AsksInLoop, [Next]_vars
  PROVE  WalkInv'
<1>t. walk \in History
  BY DEF TypeOK
\* An operation that is started while a walk is under way disturbs it.
<1>d. ASSUME Disturb, Undisturbed'
      PROVE  Undisturbed /\ ~WalkActive /\ walk'.root = walk.root
  BY <1>t, <1>d DEF Disturb, Undisturbed, History
<1>1. ASSUME NEW oid \in Root, WalkFrom(oid) PROVE WalkInv'
  BY <1>1, WalkStarts
<1>2. ASSUME NEW op \in {"get", "set"}, NEW oid \in Root, NEW b \in BOOLEAN,
             Query(op, oid, b)
      PROVE  WalkInv'
  <2> SUFFICES ASSUME Undisturbed' PROVE ~WalkActive' /\ report' = "none"
    BY NoWalkLeft
  <2>1. ~WalkActive /\ cb' = cb /\ report' = "none"
    BY <1>2, <1>d DEF Query, Clear
  <2>2. out' = out \/ \E q : q.op = op /\ out' = out \cup {q}
    BY <1>2 DEF Query, Send
  <2> QED
    BY <2>1, <2>2 DEF WalkActive, WalkOut
<1>3. ASSUME NEW oid \in Root, NEW b \in BOOLEAN,
             Get(oid, b) \/ Set(oid, b) \/ GetFromSelectInstance(oid)
      PROVE  WalkInv'
  BY <1>2, <1>3 DEF Get, Set, GetFromSelectInstance
<1>4. ASSUME NEW oid \in Root, TableViewFrom(oid) PROVE WalkInv'
  <2> SUFFICES ASSUME Undisturbed' PROVE ~WalkActive' /\ report' = "none"
    BY NoWalkLeft
  <2>1. ~WalkActive /\ UNCHANGED <<cb, out>> /\ report' = "none"
    BY <1>4, <1>d DEF TableViewFrom, Clear
  <2> QED
    BY <2>1 DEF WalkActive, WalkOut
<1>5. ASSUME NEW oid \in Root, SelectTableInstance(oid) PROVE WalkInv'
  <2> SUFFICES ASSUME Undisturbed' PROVE WalkInv'
    BY DEF WalkInv
  <2>1. /\ Undisturbed /\ ~WalkActive /\ walk'.root = walk.root
        /\ blocking' = "select" /\ UNCHANGED <<cb, out, query, objects, report>>
    BY <1>5, <1>d DEF SelectTableInstance
  <2>2. ~WalkActive'
    BY <2>1 DEF WalkActive, WalkOut
  <2>3. report' # "none" => Over'
    BY <2>1, SameSubtree DEF WalkInv, Over, InStep
  <2> QED
    BY <2>2, <2>3 DEF WalkInv
<1>6. CASE TableViewEnds
  <2> SUFFICES ASSUME Undisturbed' PROVE ~WalkActive' /\ report' = "none"
    BY NoWalkLeft
  <2>1. blocking = "table" /\ UNCHANGED <<cb, out, walk, report>> /\ Undisturbed
    BY <1>6 DEF TableViewEnds, Undisturbed
  <2>2. ~WalkActive /\ report = "none"
    BY <2>1 DEF WalkInv, UnderWay, Over
  <2> QED
    BY <2>1, <2>2 DEF WalkActive, WalkOut
<1>7. CASE Stop
  <2>1. /\ walk'.root = walk.root /\ walk'.disturbed = walk.disturbed
        /\ walk'.erred = walk.erred
    BY <1>t, <1>7 DEF Stop, History
  <2> QED
    BY <1>7, <2>1, Untouched DEF Stop
<1>8. CASE TimerExpired \/ TimerExpiredInDialog \/ BoxDismissed \/ UNCHANGED vars
  BY <1>8, Untouched DEF TimerExpired, TimerExpiredInDialog, BoxDismissed, vars, members
<1>9. ASSUME NEW q \in out, Timeout(q) PROVE WalkInv'
  BY <1>9, WalkTimesOut
<1>10. ASSUME NEW q \in out, GoodResponse(q) \/ ErrorResponse(q) PROVE WalkInv'
  <2>1. PICK a : (a \in GoodAnswers(q) \/ a \in ErrorAnswers(q)) /\ Response(q, a)
    BY <1>10 DEF GoodResponse, ErrorResponse
  <2> QED
    BY <2>1, WalkAnswered, OtherAnswered
<1>11. ASSUME Loop \/ \E all \in BOOLEAN : Declines(all) \/ \E m \in Module : Accepts(m, all)
       PROVE  WalkInv'
  <2>1. walk' = walk /\ cb.op # "none"
    BY <1>11 DEF Loop, VarbindEnds, VarbindCounts, LoadsNothing, ShowsError, Shows,
       AutoLoads, Prompts, Reissues, ReissueFails, QueryEnds, Declines, Accepts,
       InLoop, LoopDone, SessionInv
  <2>2. CASE cb.op = "walk"
    <3> SUFFICES ASSUME Undisturbed' PROVE WalkInv'
      BY DEF WalkInv
    <3>1. Undisturbed
      BY <2>1 DEF Undisturbed
    <3> QED
      BY <1>11, <2>2, <3>1, WalkLoop
  <2>3. CASE cb.op # "walk"
    <3>1. cb \in Callback
      BY DEF TypeOK
    <3>2. UNCHANGED <<out, report>> /\ cb'.op # "walk"
      <4>1. CASE VarbindEnds \/ QueryEnds \/ ShowsError
        BY <2>3, <4>1 DEF VarbindEnds, QueryEnds, ShowsError, End, Cleanup, NoCb
      <4>2. CASE Reissues \/ ReissueFails
        BY <2>3, <4>2 DEF Reissues, ReissueFails
      <4>3. CASE VarbindCounts \/ LoadsNothing \/ Shows
        BY <2>3, <3>1, <4>3 DEF VarbindCounts, LoadsNothing, Shows, Callback
      <4>4. ASSUME NEW m \in Module,
                   AutoLoads(m) \/ Prompts(m) \/ \E all \in BOOLEAN : Accepts(m, all)
            PROVE  UNCHANGED <<out, report>> /\ cb'.op # "walk"
        BY <2>3, <3>1, <4>4 DEF AutoLoads, Prompts, Accepts, Load, Callback
      <4>5. ASSUME NEW all \in BOOLEAN, Declines(all)
            PROVE  UNCHANGED <<out, report>> /\ cb'.op # "walk"
        BY <2>3, <3>1, <4>5 DEF Declines, Callback
      <4> QED
        BY <1>11, <4>1, <4>2, <4>3, <4>4, <4>5 DEF Loop
    <3> QED
      BY <2>1, <2>3, <3>2, OtherLoop
  <2> QED
    BY <2>2, <2>3
<1> QED
  BY <1>1, <1>3, <1>4, <1>5, <1>6, <1>7, <1>8, <1>9, <1>10, <1>11
     DEF Next, User, Answers, Dialogs

\* A sequence in step is a first part of the subtree, and all of it if it is
\* as long.
LEMMA InStepStarts ==
  ASSUME walk.root \in Root, NEW s \in Seq(Oid), InStep(s)
  PROVE  /\ StartsWith(Subtree(walk.root), s)
         /\ Len(s) = Count(walk.root) => s = Subtree(walk.root)
<1> DEFINE c == Count(walk.root)
           f == [n \in 1..c |-> Mib[UpTo(walk.root) + n]]
<1>1. /\ c \in Nat /\ UpTo(walk.root) \in Nat /\ UpTo(walk.root) + c <= Len(Mib)
      /\ Len(Mib) \in Nat /\ Subtree(walk.root) = f
  BY SubtreeFacts, MibFacts
<1>2. /\ Len(s) \in Nat /\ Len(s) <= c /\ s = [j \in 1..Len(s) |-> s[j]]
      /\ \A j \in 1..Len(s) : s[j] = Mib[UpTo(walk.root) + j]
  BY DEF InStep, At
<1>3. \A n \in 1..c : Mib[UpTo(walk.root) + n] \in Oid
  <2> SUFFICES ASSUME NEW n \in 1..c PROVE UpTo(walk.root) + n \in 1..Len(Mib)
    BY MibFacts
  <2> QED
    BY <1>1
<1> HIDE DEF c
<1>4. f \in Seq(Oid) /\ Len(f) = c
  <2>1. f \in [1..c -> Oid]
    BY <1>3
  <2>2. f \in Seq(Oid)
    BY <1>1, <2>1, FunctionIsSeq
  <2> QED
    BY <1>1, <2>2
<1>5. \A j \in 1..Len(s) : f[j] = s[j]
  BY <1>1, <1>2
<1>6. SubSeq(f, 1, Len(s)) = s
  <2>1. SubSeq(f, 1, Len(s)) = [j \in 1..Len(s) |-> f[j]]
    <3> HIDE DEF f
    <3> QED
      BY <1>2, <1>4
  <2> QED
    BY <1>2, <1>5, <2>1
<1>7. StartsWith(Subtree(walk.root), s)
  BY <1>1, <1>2, <1>4, <1>6 DEF StartsWith
<1>8. ASSUME Len(s) = c PROVE s = f
  BY <1>2, <1>5, <1>8
<1> QED
  BY <1>1, <1>7, <1>8 DEF c

\* AsyncCallback's loop, over get_bulk answers of any size, prompts and module
\* loading, displays every instance below the node once and in order, and
\* nothing else: at any moment a first part of them, and all of them with the
\* right count when it says that the walk is finished.
THEOREM WalkCorrect == Spec => []WalkExact
<1>1. Init => WalkInv /\ AsksInLoop
  BY DEF Init, WalkInv, WalkActive, WalkOut, NoCb, AsksInLoop
<1>2. TypeOK /\ SessionInv /\ WalkInv /\ AsksInLoop /\ [Next]_vars => (WalkInv /\ AsksInLoop)'
  BY WalkStep, AsksStep
<1>3. ASSUME TypeOK, WalkInv PROVE WalkExact
  <2>1. query \in Seq(Oid) /\ query \o msg \in Seq(Oid)
    BY <1>3, Sequences DEF Taken
  <2>2. Undisturbed /\ WalkActive => StartsWith(Subtree(walk.root), query \o msg)
    BY <1>3, <2>1, InStepStarts DEF WalkInv, UnderWay, Taken
  <2>3. Undisturbed /\ report # "none" => Over /\ StartsWith(Subtree(walk.root), query)
    BY <1>3, <2>1, InStepStarts DEF WalkInv, Over
  <2>4. Undisturbed /\ report = "finished" =>
          query = Subtree(walk.root) /\ objects = Len(query)
    BY <2>1, <2>3, InStepStarts DEF Over
  <2> QED
    BY <2>2, <2>3, <2>4 DEF WalkExact
<1> QED
  BY <1>1, <1>2, <1>3, Invariance, PTL DEF Spec
=============================================================================
