------------------------- MODULE BlockchainTheorems -------------------------
(***************************************************************************)
(* Facts about blocks, their ancestors and sets of blocks without gaps, and *)
(* about bounded sets of numbers: their least and greatest elements, and    *)
(* induction and recursion up to a bound, in terms of sets and functions.   *)
(***************************************************************************)
EXTENDS Blockchain, SequenceTheorems, FiniteSetTheorems, TLAPS

\* A block is a sequence of choices no longer than the bound.
LEMMA BlockIsSeq ==
    ASSUME NEW b \in Block
    PROVE  /\ b \in Seq(Branch)
           /\ Level(b) \in 0..MaxLevel
           /\ b \in [1..Level(b) -> Branch]
<1>1. PICK n \in 0..MaxLevel : b \in [1..n -> Branch]
    BY DEF Block
<1>2. n \in Nat
    BY ChainAssumption
<1>3. b \in Seq(Branch)
    BY <1>1, <1>2, SeqDef
<1>4. Len(b) \in Nat /\ DOMAIN b = 1..Len(b) /\ DOMAIN b = 1..n
    BY <1>1, <1>3, LenProperties
<1>5. Len(b) = n
    <2>1. ~(Len(b) < n)
        <3>1. Len(b) < n => Len(b) + 1 \in 1..n /\ Len(b) + 1 \notin 1..Len(b)
            BY <1>2, <1>4
        <3> QED
            BY <1>4, <3>1
    <2>2. ~(n < Len(b))
        <3>1. n < Len(b) => Len(b) \in 1..Len(b) /\ Len(b) \notin 1..n
            BY <1>2, <1>4
        <3> QED
            BY <1>4, <3>1
    <2>3. Len(b) \in Int /\ n \in Int
        BY <1>2, <1>4
    <2> QED
        BY <2>1, <2>2, <2>3
<1> QED
    BY <1>1, <1>3, <1>5 DEF Level

\* The ancestor of a block at a level is a block of that level with the same choices.
LEMMA AncestorIsBlock ==
    ASSUME NEW b \in Block, NEW l \in 0..Level(b)
    PROVE  /\ AncestorAt(b, l) \in Block
           /\ Level(AncestorAt(b, l)) = l
           /\ \A i \in 1..l : AncestorAt(b, l)[i] = b[i]
<1> DEFINE a == AncestorAt(b, l)
<1>1. /\ b \in Seq(Branch)
      /\ Level(b) \in 0..MaxLevel
      /\ b \in [1..Level(b) -> Branch]
    BY BlockIsSeq
<1>2. l \in Nat /\ l <= MaxLevel /\ MaxLevel \in Nat
    BY <1>1, ChainAssumption
<1>3. /\ a \in Seq(Branch)
      /\ Len(a) = l
      /\ \A i \in 1..l : a[i] = b[i]
    <2>1. \A i \in 1..l : b[i] \in Branch
        BY <1>1, <1>2
    <2>2. /\ SubSeq(b, 1, l) \in Seq(Branch)
          /\ Len(SubSeq(b, 1, l)) = IF 1 <= l THEN l - 1 + 1 ELSE 0
          /\ \A i \in 1..l - 1 + 1 : SubSeq(b, 1, l)[i] = b[1 + i - 1]
        BY <1>2, <2>1, SubSeqProperties
    <2> QED
        BY <1>2, <2>2 DEF AncestorAt
<1>4. a \in [1..l -> Branch] /\ DOMAIN a = 1..l
    BY <1>3, LenProperties
<1>5. \A i \in DOMAIN a : i <= FinalLevel => a[i] = Trunk
    <2>1. \A i \in DOMAIN b : i <= FinalLevel => b[i] = Trunk
        BY DEF Block
    <2>2. DOMAIN b = 1..Level(b)
        BY <1>1
    <2>3. ASSUME NEW i \in 1..l, i <= FinalLevel
          PROVE  a[i] = Trunk
        <3>1. i \in 1..Level(b)
            BY <1>1, <1>2, ChainAssumption
        <3>2. b[i] = Trunk
            BY <2>1, <2>2, <2>3, <3>1
        <3> QED
            BY <1>3, <3>2
    <2> QED
        BY <1>4, <2>3
<1>6. a \in UNION {[1..n -> Branch] : n \in 0..MaxLevel}
    BY <1>2, <1>4
<1> QED
    BY <1>3, <1>5, <1>6 DEF Block, Level

\* A block is its own ancestor at its level.
LEMMA OwnAncestor ==
    ASSUME NEW b \in Block
    PROVE  AncestorAt(b, Level(b)) = b
<1>1. b \in Seq(Branch) /\ Level(b) \in Nat
    BY BlockIsSeq, ChainAssumption
<1>2. LET a == AncestorAt(b, Level(b))
      IN  a \in Block /\ Level(a) = Level(b) /\ \A i \in 1..Level(b) : a[i] = b[i]
    BY <1>1, AncestorIsBlock
<1>3. AncestorAt(b, Level(b)) \in Seq(Branch)
    BY <1>2, BlockIsSeq
<1> QED
    BY <1>1, <1>2, <1>3, SeqEqual DEF Level

\* The ancestors of an ancestor are those of the block.
LEMMA AncestorOfAncestor ==
    ASSUME NEW b \in Block, NEW l \in 0..Level(b), NEW m \in 0..l
    PROVE  AncestorAt(AncestorAt(b, l), m) = AncestorAt(b, m)
<1> DEFINE a == AncestorAt(b, l)
<1>1. Level(b) \in 0..MaxLevel /\ MaxLevel \in Nat
    BY BlockIsSeq, ChainAssumption
<1>2. a \in Block /\ Level(a) = l /\ \A i \in 1..l : a[i] = b[i]
    BY AncestorIsBlock
<1>3. /\ AncestorAt(a, m) \in Block
      /\ Level(AncestorAt(a, m)) = m
      /\ \A i \in 1..m : AncestorAt(a, m)[i] = a[i]
    BY <1>2, AncestorIsBlock
<1>4. /\ AncestorAt(b, m) \in Block
      /\ Level(AncestorAt(b, m)) = m
      /\ \A i \in 1..m : AncestorAt(b, m)[i] = b[i]
    BY <1>1, AncestorIsBlock
<1>5. AncestorAt(a, m) \in Seq(Branch) /\ AncestorAt(b, m) \in Seq(Branch)
    BY <1>3, <1>4, BlockIsSeq
<1>6. \A i \in 1..m : AncestorAt(a, m)[i] = AncestorAt(b, m)[i]
    BY <1>1, <1>2, <1>3, <1>4
<1> QED
    BY <1>3, <1>4, <1>5, <1>6, SeqEqual DEF Level

\* A block above another one extends whatever that one extends.
LEMMA ExtendsIsTransitive ==
    ASSUME NEW b \in Block, NEW c \in Block, NEW d \in Block, Extends(b, c), Extends(c, d)
    PROVE  Extends(b, d)
<1>1. /\ Level(c) \in 0..Level(b) /\ Level(d) \in 0..Level(c) /\ Level(b) >= Level(d)
      /\ AncestorAt(b, Level(c)) = c /\ AncestorAt(c, Level(d)) = d
    BY BlockIsSeq, ChainAssumption DEF Extends
<1>2. AncestorAt(b, Level(d)) = AncestorAt(c, Level(d))
    BY <1>1, AncestorOfAncestor
<1> QED
    BY <1>1, <1>2 DEF Extends

\* A page holds exactly one block of each of its levels.
LEMMA SegmentLevels ==
    ASSUME NEW b \in Block, NEW lo \in Nat, NEW hi \in Nat, hi <= Level(b)
    PROVE  /\ Segment(b, lo, hi) \subseteq Block
           /\ \A c \in Segment(b, lo, hi) :
                Level(c) \in lo..hi /\ c = AncestorAt(b, Level(c))
           /\ \A l \in lo..hi :
                AncestorAt(b, l) \in Segment(b, lo, hi) /\ Level(AncestorAt(b, l)) = l
<1>1. Level(b) \in Nat
    BY BlockIsSeq, ChainAssumption
<1>2. \A l \in lo..hi : l \in 0..Level(b)
    BY <1>1
<1>3. \A l \in lo..hi : AncestorAt(b, l) \in Block /\ Level(AncestorAt(b, l)) = l
    BY <1>2, AncestorIsBlock
<1> QED
    BY <1>3 DEF Segment

\* What an amendment keeps of a gapless chain is gapless.
LEMMA CutIsGapless ==
    ASSUME NEW S \in SUBSET Block, Gapless(S), NEW level \in Int
    PROVE  Gapless({b \in S : Level(b) < level})
<1>1. \A b \in S : Level(b) \in Nat
    BY BlockIsSeq, ChainAssumption
<1> QED
    BY <1>1 DEF Gapless

\* A page stored right on top of a gapless chain leaves it gapless.
LEMMA PushIsGapless ==
    ASSUME NEW S \in SUBSET Block, Gapless(S),
           NEW t \in Block, NEW lo \in Nat, NEW hi \in Nat, hi <= Level(t),
           lo = 0 \/ \E b \in S : Level(b) = lo - 1,
           \A b \in S : Level(b) < lo
    PROVE  Gapless(S \union Segment(t, lo, hi))
<1> DEFINE P == Segment(t, lo, hi)
<1>1. \A b \in S : Level(b) \in Nat
    BY BlockIsSeq, ChainAssumption
<1>2. /\ \A c \in P : Level(c) \in lo..hi /\ c = AncestorAt(t, Level(c))
      /\ \A l \in lo..hi : AncestorAt(t, l) \in P /\ Level(AncestorAt(t, l)) = l
    BY SegmentLevels
<1> HIDE DEF P
<1>3. ASSUME NEW b \in S \union P, NEW c \in S \union P, Level(b) = Level(c)
      PROVE  b = c
    <2>1. CASE b \in S /\ c \in S
        BY <1>3, <2>1 DEF Gapless
    <2>2. CASE b \in P /\ c \in P
        <3>1. b = AncestorAt(t, Level(b)) /\ c = AncestorAt(t, Level(c))
            BY <1>2, <2>2
        <3> QED
            BY <1>3, <3>1
    <2>3. CASE (b \in S /\ c \in P) \/ (b \in P /\ c \in S)
        BY <1>1, <1>2, <1>3, <2>3
    <2> QED
        BY <2>1, <2>2, <2>3
<1>4. ASSUME NEW b \in S \union P, NEW l \in 0..Level(b)
      PROVE  \E c \in S \union P : Level(c) = l
    <2>1. CASE b \in S
        BY <2>1 DEF Gapless
    <2>2. CASE b \in P /\ lo <= l
        BY <1>2, <2>2
    <2>3. CASE b \in P /\ l < lo
        <3>1. PICK d \in S : Level(d) = lo - 1
            BY <2>3
        <3> QED
            BY <2>3, <3>1 DEF Gapless
    <2> QED
        BY <2>1, <2>2, <2>3, <1>2
<1> QED
    BY <1>3, <1>4 DEF Gapless, P

\* A non-empty set of bounded naturals has a greatest element: the numbers that
\* some element reaches are as many as the numbers up to the greatest.
LEMMA GreatestNumber ==
    ASSUME NEW bound \in Nat, NEW S \in SUBSET (0..bound), S # {}
    PROVE  \E m \in S : \A x \in S : x <= m
<1> DEFINE D == {l \in 0..bound : \E m \in S : l <= m}
           n == Cardinality(D)
<1>1. \A m \in S : m \in 0..bound /\ m \in D
    OBVIOUS
<1>2. \A x \in D : x \in Nat /\ 0..x \subseteq D
    OBVIOUS
<1>3. D \subseteq 0..bound
    OBVIOUS
<1> HIDE DEF D
<1>4. IsFiniteSet(D) /\ n \in Nat
    <2>1. IsFiniteSet(0..bound)
        BY FS_Interval
    <2>2. IsFiniteSet(D)
        BY <1>3, <2>1, FS_Subset
    <2> QED
        BY <2>2, FS_CardinalityType
<1>5. ASSUME NEW x \in D
      PROVE  x <= n - 1
    <2>1. Cardinality(0..x) = x + 1
        BY <1>2, FS_Interval
    <2>2. Cardinality(0..x) <= n
        BY <1>2, <1>4, FS_Subset
    <2> QED
        BY <1>2, <1>4, <2>1, <2>2
<1>6. n - 1 \in D
    <2>1. SUFFICES ASSUME n - 1 \notin D
                   PROVE  FALSE
        OBVIOUS
    <2>2. \A x \in D : x \in 0..n - 2
        BY <1>2, <1>4, <1>5, <2>1
    <2>3. IsFiniteSet(0..n - 2) /\ Cardinality(0..n - 2) = IF 0 > n - 2 THEN 0 ELSE n - 1
        BY <1>4, FS_Interval
    <2>4. n <= Cardinality(0..n - 2)
        BY <2>2, <2>3, FS_Subset
    <2>5. n >= 1
        <3>1. PICK m \in S : TRUE
            OBVIOUS
        <3> QED
            BY <1>1, <1>2, <1>4, <1>5, <3>1
    <2> QED
        BY <1>4, <2>3, <2>4, <2>5
<1>7. PICK m \in S : n - 1 <= m
    BY <1>6 DEF D
<1>8. \A x \in S : x <= n - 1
    BY <1>1, <1>5
<1> QED
    BY <1>1, <1>4, <1>7, <1>8

\* A non-empty set of bounded naturals has a least element.
LEMMA LeastNumber ==
    ASSUME NEW bound \in Nat, NEW S \in SUBSET (0..bound), S # {}
    PROVE  \E m \in S : \A x \in S : m <= x
<1> DEFINE D == {bound - x : x \in S}
<1>1. \A x \in S : x \in 0..bound
    OBVIOUS
<1>2. D \in SUBSET (0..bound) /\ D # {}
    <2>1. ASSUME NEW y \in D PROVE y \in 0..bound
        <3>1. PICK x \in S : y = bound - x
            OBVIOUS
        <3> QED
            BY <1>1, <3>1
    <2>2. PICK x \in S : TRUE
        OBVIOUS
    <2>3. bound - x \in D
        BY <2>2
    <2> QED
        BY <2>1, <2>3
<1>3. PICK y \in D : \A x \in D : x <= y
    BY <1>2, GreatestNumber
<1>4. PICK m \in S : y = bound - m
    BY <1>3
<1>5. ASSUME NEW x \in S PROVE m <= x
    <2>1. bound - x <= bound - m
        BY <1>3, <1>4
    <2>2. x \in Int /\ m \in Int
        BY <1>1
    <2> QED
        BY <2>1, <2>2
<1> QED
    BY <1>4, <1>5

\* Induction, with the set of the numbers that something holds for.
LEMMA BoundedInduction ==
    ASSUME NEW n \in Nat, NEW S, 0 \in S, \A k \in 1..n : k - 1 \in S => k \in S
    PROVE  \A k \in 0..n : k \in S
<1> DEFINE bad == {k \in 0..n : k \notin S}
<1>1. SUFFICES ASSUME bad # {} PROVE FALSE
    OBVIOUS
<1>2. bad \in SUBSET (0..n)
    OBVIOUS
<1>3. PICK k \in bad : \A x \in bad : k <= x
    <2> HIDE DEF bad
    <2> QED
        BY <1>1, <1>2, LeastNumber
<1>4. k \in 1..n /\ k - 1 \in 0..n /\ k - 1 \notin S /\ ~(k <= k - 1)
    OBVIOUS
<1> QED
    BY <1>3, <1>4

\* A function that starts at lo and goes on with F.
Iterates(f, F, start, lo, n) ==
    f[lo] = start /\ \A l \in lo + 1 .. lo + n : f[l] = F[<<f[l - 1], l>>]

\* A function that is defined step by step exists, if its steps stay among some values.
LEMMA RecursionExists ==
    ASSUME NEW V, NEW lo \in Int, NEW n \in Nat, NEW start \in V,
           NEW F \in [V \X (lo + 1 .. lo + n) -> V]
    PROVE  \E f \in [lo .. lo + n -> V] : Iterates(f, F, start, lo, n)
<1> USE DEF Iterates
<1> DEFINE Is(f, k) == Iterates(f, F, start, lo, k)
           good == {k \in 0..n : \E f \in [lo .. lo + k -> V] : Is(f, k)}
<1>1. 0 \in good
    <2> DEFINE f == [l \in lo .. lo |-> start]
    <2>1. f \in [lo .. lo -> V] /\ f[lo] = start /\ \A l \in lo + 1 .. lo : FALSE
        OBVIOUS
    <2>2. lo + 0 = lo /\ 0 \in 0..n
        OBVIOUS
    <2> HIDE DEF f
    <2> QED
        BY <2>1, <2>2
<1>2. ASSUME NEW k \in 1..n, k - 1 \in good PROVE k \in good
    <2>1. PICK g \in [lo .. lo + (k - 1) -> V] : Is(g, k - 1)
        BY <1>2
    <2> DEFINE top == lo + k
               f == [l \in lo .. top |-> IF l = top THEN F[<<g[top - 1], top>>] ELSE g[l]]
    <2>2. top \in Int /\ top > lo /\ lo + (k - 1) = top - 1 /\ top \in lo + 1 .. lo + n
          /\ top - 1 \in lo .. top - 1
        OBVIOUS
    <2> HIDE DEF top
    <2>3. g \in [lo .. top - 1 -> V] /\ g[top - 1] \in V /\ F[<<g[top - 1], top>>] \in V
        BY <2>1, <2>2
    <2>4. \A l \in lo .. top : l = top \/ l \in lo .. top - 1
        BY <2>2
    <2>5. f \in [lo .. top -> V]
        BY <2>3, <2>4
    <2>6. /\ f[top] = F[<<g[top - 1], top>>]
          /\ \A l \in lo .. top - 1 : f[l] = g[l]
        BY <2>2
    <2> HIDE DEF f
    <2>7. f[lo] = start
        BY <2>1, <2>2, <2>6
    <2>8. ASSUME NEW l \in lo + 1 .. top PROVE f[l] = F[<<f[l - 1], l>>]
        <3>1. CASE l = top
            BY <2>2, <2>6, <3>1
        <3>2. CASE l # top
            <4>1. l \in lo + 1 .. top - 1 /\ l \in lo .. top - 1 /\ l - 1 \in lo .. top - 1
                BY <2>2, <3>2
            <4>2. g[l] = F[<<g[l - 1], l>>]
                BY <2>1, <2>2, <4>1
            <4> QED
                BY <2>6, <4>1, <4>2
        <3> QED
            BY <3>1, <3>2
    <2> QED
        BY <2>5, <2>7, <2>8 DEF top
<1>3. n \in good
    <2>1. n \in 0..n
        OBVIOUS
    <2> HIDE DEF good
    <2> QED
        BY <1>1, <1>2, <2>1, BoundedInduction
<1> QED
    BY <1>3

\* A non-empty set of blocks has a highest level.
LEMMA HighestLevel ==
    ASSUME NEW S \in SUBSET Block, S # {}
    PROVE  \E l \in {Level(b) : b \in S} : \A b \in S : Level(b) <= l
<1> DEFINE L == {Level(b) : b \in S}
<1>1. L \in SUBSET (0..MaxLevel) /\ L # {} /\ MaxLevel \in Nat
    BY BlockIsSeq, ChainAssumption
<1>2. \E l \in L : \A m \in L : m <= l
    BY <1>1, GreatestNumber
<1> QED
    BY <1>2
=============================================================================
