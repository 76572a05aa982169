-------------------------- MODULE AuditChainProofs --------------------------
(***************************************************************************)
(* Proofs about AuditChain, for any columns, anchorings, bounds and damage:  *)
(* a Merkle root names one history, of whatever length, so an anchor that    *)
(* verifies vouches for what was anchored; edits are found where they are;   *)
(* and an intact stream verifies.                                            *)
(***************************************************************************)
EXTENDS AuditChain, SequenceTheorems, WellFoundedInduction, TLAPS

-----------------------------------------------------------------------------
\* Induction over the numbers in a set, from the library's well-foundedness of <.
LEMMA LeastNumber ==
    ASSUME NEW T, T \subseteq Nat, T # {}
    PROVE  \E x \in T : \A y \in T : x <= y
  <1>. DEFINE R == OpToRel(<, Nat)
  <1>1. IsWellFoundedOn(R, Nat)
    BY NatLessThanWellFounded
  <1>. HIDE DEF R
  <1>2. PICK x \in T : \A y \in T : <<y, x>> \notin R
    BY <1>1, WFMin
  <1>3. \A y \in T : ~(y < x)
    BY <1>2 DEF R, OpToRel
  <1>. QED
    BY <1>2, <1>3

LEMMA EveryNumber ==
    ASSUME NEW S, 0 \in S, \A n \in Nat : n \in S => n + 1 \in S
    PROVE  \A n \in Nat : n \in S
  <1>. DEFINE T == Nat \ S
  <1>. SUFFICES ASSUME T # {} PROVE FALSE
    OBVIOUS
  <1>1. PICK x \in T : \A y \in T : x <= y
    BY LeastNumber
  <1>2. x # 0 /\ x - 1 \in Nat
    BY <1>1
  <1>3. x - 1 \in S
    BY <1>1, <1>2
  <1>. QED
    BY <1>2, <1>3

-----------------------------------------------------------------------------
\* The levels of the Merkle tree: the recursion has a solution, level by level.
LevelsTo(g, leaves, n) ==
    /\ g = [k \in 0..n |-> g[k]]
    /\ g[0] = leaves
    /\ \A k \in 1..n : g[k] = NextLevel(g[k - 1])

LEMMA LevelsToExist ==
    ASSUME NEW leaves, NEW n \in Nat
    PROVE  \E g : LevelsTo(g, leaves, n)
  <1>. DEFINE S == {m \in Nat : \E g : LevelsTo(g, leaves, m)}
  <1>1. 0 \in S
    <2>. DEFINE g == [k \in 0..0 |-> leaves]
    <2>1. LevelsTo(g, leaves, 0)
      BY DEF LevelsTo
    <2>. QED
      BY <2>1
  <1>2. ASSUME NEW m \in Nat, m \in S PROVE m + 1 \in S
    <2>1. PICK g : LevelsTo(g, leaves, m)
      BY <1>2
    <2>. DEFINE h == [k \in 0..(m + 1) |-> IF k <= m THEN g[k] ELSE NextLevel(g[m])]
    <2>2. h[0] = leaves
      BY <2>1 DEF LevelsTo
    <2>3. ASSUME NEW k \in 1..(m + 1) PROVE h[k] = NextLevel(h[k - 1])
      <3>1. h[k - 1] = g[k - 1]
        OBVIOUS
      <3>2. CASE k <= m
        <4>1. h[k] = g[k] /\ k \in 1..m
          BY <3>2
        <4>. QED
          BY <2>1, <3>1, <4>1 DEF LevelsTo
      <3>3. CASE k = m + 1
        <4>1. h[k] = NextLevel(g[m]) /\ k - 1 = m
          BY <3>3
        <4>. QED
          BY <3>1, <4>1
      <3>. QED
        BY <3>2, <3>3
    <2>4. h = [k \in 0..(m + 1) |-> h[k]]
      OBVIOUS
    <2>. HIDE DEF h
    <2>5. LevelsTo(h, leaves, m + 1)
      BY <2>2, <2>3, <2>4 DEF LevelsTo
    <2>. QED
      BY <2>5
  <1>. HIDE DEF S
  <1>3. n \in S
    BY <1>1, <1>2, EveryNumber
  <1>. QED
    BY <1>3 DEF S

LEMMA LevelsToAgree ==
    ASSUME NEW leaves, NEW n \in Nat, NEW m \in Nat, n <= m,
           NEW g, NEW h, LevelsTo(g, leaves, n), LevelsTo(h, leaves, m)
    PROVE  \A k \in 0..n : g[k] = h[k]
  <1>. DEFINE S == {k \in Nat : k <= n => g[k] = h[k]}
  <1>1. 0 \in S
    BY DEF LevelsTo
  <1>2. ASSUME NEW k \in Nat, k \in S PROVE k + 1 \in S
    <2>. SUFFICES ASSUME k + 1 <= n PROVE g[k + 1] = h[k + 1]
      OBVIOUS
    <2>1. g[k] = h[k] /\ k + 1 \in 1..n /\ k + 1 \in 1..m /\ (k + 1) - 1 = k
      BY <1>2
    <2>. QED
      BY <2>1 DEF LevelsTo
  <1>. HIDE DEF S
  <1>3. \A k \in Nat : k \in S
    BY <1>1, <1>2, EveryNumber
  <1>. QED
    BY <1>3 DEF S

\* compute_merkle_root's loop, level by level.
LEMMA LevelsAre ==
    ASSUME NEW leaves
    PROVE  /\ Levels(leaves)[0] = leaves
           /\ \A n \in Nat : Levels(leaves)[n + 1] = NextLevel(Levels(leaves)[n])
  <1>. DEFINE G(n) == CHOOSE g : LevelsTo(g, leaves, n)
              f == [n \in Nat |-> G(n)[n]]
              R(level) == [n \in Nat |-> IF n = 0 THEN leaves ELSE NextLevel(level[n - 1])]
  <1>1. \A n \in Nat : LevelsTo(G(n), leaves, n)
    BY LevelsToExist
  <1>. HIDE DEF G
  <1>2. f[0] = leaves
    BY <1>1 DEF LevelsTo
  <1>3. ASSUME NEW n \in Nat, n # 0 PROVE f[n] = NextLevel(f[n - 1])
    <2>1. n - 1 \in Nat /\ n - 1 <= n /\ n - 1 \in 0..(n - 1) /\ n \in 1..n
      BY <1>3
    <2>2. f[n - 1] = G(n - 1)[n - 1] /\ f[n] = G(n)[n]
      BY <2>1
    <2>3. LevelsTo(G(n), leaves, n) /\ LevelsTo(G(n - 1), leaves, n - 1)
      BY <1>1, <2>1
    <2>4. G(n - 1)[n - 1] = G(n)[n - 1]
      BY <2>1, <2>3, LevelsToAgree
    <2>5. G(n)[n] = NextLevel(G(n)[n - 1])
      BY <2>1, <2>3 DEF LevelsTo
    <2>. QED
      BY <2>2, <2>4, <2>5
  <1>4. f = R(f)
    BY <1>2, <1>3
  <1>. HIDE DEF f
  <1>5. Levels(leaves) = CHOOSE level : level = R(level)
    BY DEF Levels
  <1>6. Levels(leaves) = R(Levels(leaves))
    BY <1>4, <1>5
  <1>7. PICK L : L = Levels(leaves)
    OBVIOUS
  <1>8. L = [n \in Nat |-> IF n = 0 THEN leaves ELSE NextLevel(L[n - 1])]
    BY <1>6, <1>7
  <1>9. L[0] = leaves
    BY <1>8
  <1>10. ASSUME NEW n \in Nat PROVE L[n + 1] = NextLevel(L[n])
    <2>1. n + 1 \in Nat /\ n + 1 # 0 /\ (n + 1) - 1 = n
      OBVIOUS
    <2>. QED
      BY <1>8, <2>1
  <1>. QED
    BY <1>7, <1>9, <1>10

-----------------------------------------------------------------------------
\* One level, over lists without repetition.
List(A, n) == n \in Nat /\ A = [i \in 1..n |-> A[i]]

Distinct(A, n) == \A i, j \in 1..n : A[i] = A[j] => i = j

LEMMA ListIsSequence ==
    ASSUME NEW A, NEW n, List(A, n)
    PROVE  A \in Seq({A[i] : i \in 1..n}) /\ Len(A) = n /\ DOMAIN A = 1..n
  <1>. DEFINE S == {A[i] : i \in 1..n}
  <1>1. n \in Nat /\ A = [i \in 1..n |-> A[i]]
    BY DEF List
  <1>2. A \in [1..n -> S]
    BY <1>1
  <1>. HIDE DEF S
  <1>3. A \in Seq(S)
    BY <1>1, <1>2
  <1>4. DOMAIN A = 1..n
    BY <1>1
  <1>5. Len(A) = n
    BY <1>1, <1>3, <1>4
  <1>. QED
    BY <1>3, <1>4, <1>5 DEF S

LEMMA SequenceIsList ==
    ASSUME NEW S, NEW A \in Seq(S)
    PROVE  List(A, Len(A))
  BY DEF List

\* The last of an odd number is paired with itself.
LEMMA NextLevelIs ==
    ASSUME NEW A, NEW n, List(A, n), n > 1
    PROVE  /\ List(NextLevel(A), (n + 1) \div 2)
           /\ (n + 1) \div 2 \in 1..(n - 1)
           /\ \A i \in 1..((n + 1) \div 2) :
                 NextLevel(A)[i] = <<A[2*i - 1], A[IF 2*i > n THEN 2*i - 1 ELSE 2*i]>>
  <1>1. Len(A) = n /\ n \in Nat
    BY ListIsSequence DEF List
  <1>2. NextLevel(A) = [i \in 1..((n + 1) \div 2) |->
                           <<A[2*i - 1], A[IF 2*i > n THEN 2*i - 1 ELSE 2*i]>>]
    BY <1>1 DEF NextLevel
  <1>3. (n + 1) \div 2 \in Nat /\ (n + 1) \div 2 \in 1..(n - 1)
    BY <1>1
  <1>. QED
    BY <1>2, <1>3 DEF List

LEMMA FirstOfNextLevel ==
    ASSUME NEW A, NEW n, List(A, n), n > 1
    PROVE  \E x : NextLevel(A)[1] = <<A[1], x>>
  <1>. DEFINE Second(i) == A[IF 2*i > n THEN 2*i - 1 ELSE 2*i]
  <1>1. 1 \in 1..((n + 1) \div 2)
    BY DEF List
  <1>2. \A i \in 1..((n + 1) \div 2) : NextLevel(A)[i] = <<A[2*i - 1], Second(i)>>
    BY NextLevelIs
  <1>. HIDE DEF Second
  <1>3. NextLevel(A)[1] = <<A[2*1 - 1], Second(1)>>
    BY <1>1, <1>2
  <1>4. 2*1 - 1 = 1
    OBVIOUS
  <1>. QED
    BY <1>3, <1>4

LEMMA NextLevelOfOne ==
    ASSUME NEW A, List(A, 1)
    PROVE  NextLevel(A) = A
  BY ListIsSequence DEF NextLevel

LEMMA NextLevelDistinct ==
    ASSUME NEW A, NEW n, List(A, n), n > 1, Distinct(A, n)
    PROVE  Distinct(NextLevel(A), (n + 1) \div 2)
  <1>. DEFINE B == NextLevel(A)
              m == (n + 1) \div 2
  <1>. SUFFICES ASSUME NEW i \in 1..m, NEW j \in 1..m, B[i] = B[j]
                PROVE  i = j
    BY DEF Distinct
  <1>1. n \in Nat
    BY DEF List
  <1>2. 2*i - 1 \in 1..n /\ 2*j - 1 \in 1..n
    BY <1>1
  <1>3. A[2*i - 1] = A[2*j - 1]
    BY NextLevelIs
  <1>4. 2*i - 1 = 2*j - 1
    BY <1>2, <1>3 DEF Distinct
  <1>. QED
    BY <1>4

\* Two lists of more than one leaf with the same next level are the same: were one
\* longer, its last two would be equal.
LEMMA NextLevelInjective ==
    ASSUME NEW A, NEW n, List(A, n), n > 1, Distinct(A, n),
           NEW B, NEW m, List(B, m), m > 1, Distinct(B, m),
           NextLevel(A) = NextLevel(B), n <= m
    PROVE  A = B
  <1>0. n \in Nat /\ m \in Nat
    BY DEF List
  <1>. DEFINE h == (n + 1) \div 2
  <1>1. (m + 1) \div 2 = h
    <2>1. List(NextLevel(A), h) /\ List(NextLevel(A), (m + 1) \div 2)
      BY NextLevelIs
    <2>2. Len(NextLevel(A)) = h /\ Len(NextLevel(A)) = (m + 1) \div 2
      BY <2>1, ListIsSequence
    <2>. QED
      BY <2>2
  <1>2. \A i \in 1..h : /\ A[2*i - 1] = B[2*i - 1]
                        /\ A[IF 2*i > n THEN 2*i - 1 ELSE 2*i]
                             = B[IF 2*i > m THEN 2*i - 1 ELSE 2*i]
    BY <1>1, NextLevelIs
  <1>3. n = m
    <2>. SUFFICES ASSUME n < m PROVE FALSE
      BY <1>0
    <2>1. m = n + 1 /\ m = 2*h /\ h \in 1..h
      BY <1>0, <1>1
    <2>2. A[2*h - 1] = B[2*h - 1] /\ A[2*h - 1] = B[2*h]
      BY <1>0, <1>2, <2>1
    <2>3. 2*h - 1 \in 1..m /\ 2*h \in 1..m /\ 2*h - 1 # 2*h
      BY <1>0, <2>1
    <2>. QED
      BY <2>2, <2>3 DEF Distinct
  <1>4. ASSUME NEW i \in 1..n PROVE A[i] = B[i]
    <2>. DEFINE k == (i + 1) \div 2
    <2>1. k \in 1..h /\ (i = 2*k - 1 \/ i = 2*k)
      BY <1>0
    <2>. HIDE DEF k, h
    <2>2. CASE i = 2*k - 1
      <3>1. A[2*k - 1] = B[2*k - 1]
        BY <1>2, <2>1
      <3>. QED
        BY <2>2, <3>1
    <2>3. CASE i = 2*k
      <3>1. ~(2*k > n)
        BY <1>0, <2>3
      <3>2. A[2*k] = B[2*k]
        BY <1>2, <1>3, <2>1, <3>1
      <3>. QED
        BY <2>3, <3>2
    <2>. QED
      BY <2>1, <2>2, <2>3
  <1>. QED
    BY <1>3, <1>4 DEF List

-----------------------------------------------------------------------------
\* All the levels.
\* Level k of leaves, of how many hashes, is a list without repetition, and shorter
\* by one than the one before at least, until one is left.
Level(leaves, k) == Levels(leaves)[k]

LEMMA LevelsShrink ==
    ASSUME NEW A, NEW n, List(A, n), n >= 1, Distinct(A, n)
    PROVE  \A k \in Nat : \E l \in 1..n :
              /\ List(Level(A, k), l) /\ Distinct(Level(A, k), l)
              /\ l = 1 \/ l + k <= n
  <1>. DEFINE S == {k \in Nat : \E l \in 1..n :
                       /\ List(Level(A, k), l) /\ Distinct(Level(A, k), l)
                       /\ l = 1 \/ l + k <= n}
  <1>0. n \in Nat
    BY DEF List
  <1>1. 0 \in S
    <2>1. Level(A, 0) = A /\ n \in 1..n /\ n + 0 <= n
      BY <1>0, LevelsAre DEF Level
    <2>. QED
      BY <2>1
  <1>2. ASSUME NEW k \in Nat, k \in S PROVE k + 1 \in S
    <2>1. PICK l \in 1..n : /\ List(Level(A, k), l) /\ Distinct(Level(A, k), l)
                            /\ l = 1 \/ l + k <= n
      BY <1>2
    <2>2. Level(A, k + 1) = NextLevel(Level(A, k))
      BY LevelsAre DEF Level
    <2>3. CASE l = 1
      <3>1. Level(A, k + 1) = Level(A, k)
        BY <2>1, <2>2, <2>3, NextLevelOfOne
      <3>. QED
        BY <2>1, <2>3, <3>1
    <2>4. CASE l # 1
      <3>. DEFINE m == (l + 1) \div 2
      <3>1. l \in Nat /\ l > 1
        BY <1>0, <2>4
      <3>2. List(Level(A, k + 1), m) /\ Distinct(Level(A, k + 1), m) /\ m \in 1..(l - 1)
        BY <2>1, <2>2, <3>1, NextLevelIs, NextLevelDistinct
      <3>. HIDE DEF m
      <3>3. m \in 1..n /\ m + (k + 1) <= n
        BY <1>0, <2>1, <2>4, <3>1, <3>2
      <3>. QED
        BY <3>2, <3>3
    <2>. QED
      BY <2>3, <2>4
  <1>. HIDE DEF S
  <1>3. \A k \in Nat : k \in S
    BY <1>1, <1>2, EveryNumber
  <1>. QED
    BY <1>3 DEF S

\* The height of the tree: the first level of one hash, the root.
Height(A, h) ==
    /\ h \in Nat /\ List(Level(A, h), 1)
    /\ \A k \in 0..(h - 1) : ~List(Level(A, k), 1)

LEMMA RootAtHeight ==
    ASSUME NEW A, NEW n, List(A, n), n >= 1, Distinct(A, n)
    PROVE  \E h : Height(A, h) /\ ComputeMerkleRoot(A) = Level(A, h)[1]
  <1>. DEFINE T == {k \in Nat : List(Level(A, k), 1)}
  <1>0. n \in Nat /\ Len(A) = n
    BY ListIsSequence DEF List
  <1>1. n \in T
    <2>1. PICK l \in 1..n : List(Level(A, n), l) /\ (l = 1 \/ l + n <= n)
      BY <1>0, LevelsShrink
    <2>2. l = 1
      BY <1>0, <2>1
    <2>. QED
      BY <1>0, <2>1, <2>2
  <1>2. PICK h \in T : \A k \in T : h <= k
    BY <1>1, LeastNumber
  <1>3. Height(A, h)
    <2>1. h \in Nat /\ List(Level(A, h), 1)
      BY <1>2
    <2>2. ASSUME NEW k \in 0..(h - 1) PROVE ~List(Level(A, k), 1)
      BY <1>2, <2>1, <2>2
    <2>. QED
      BY <2>1, <2>2 DEF Height
  <1>4. h <= n /\ h \in Nat /\ List(Level(A, h), 1)
    BY <1>1, <1>2
  <1>. HIDE DEF T
  <1>5. \A d \in Nat : Level(A, h + d) = Level(A, h)
    <2>. DEFINE S == {d \in Nat : Level(A, h + d) = Level(A, h)}
    <2>1. 0 \in S
      BY <1>4
    <2>2. ASSUME NEW d \in Nat, d \in S PROVE d + 1 \in S
      <3>1. h + d \in Nat /\ h + (d + 1) = (h + d) + 1
        BY <1>4
      <3>2. Level(A, h + (d + 1)) = NextLevel(Level(A, h + d))
        BY <3>1, LevelsAre DEF Level
      <3>3. Level(A, h + (d + 1)) = NextLevel(Level(A, h))
        BY <2>2, <3>2
      <3>4. NextLevel(Level(A, h)) = Level(A, h)
        BY <1>4, NextLevelOfOne
      <3>. QED
        BY <3>3, <3>4
    <2>. HIDE DEF S
    <2>3. \A d \in Nat : d \in S
      BY <2>1, <2>2, EveryNumber
    <2>. QED
      BY <2>3 DEF S
  <1>6. n - h \in Nat /\ h + (n - h) = n
    BY <1>0, <1>4
  <1>7. Level(A, n) = Level(A, h)
    BY <1>5, <1>6
  <1>8. ComputeMerkleRoot(A) = Level(A, h)[1]
    BY <1>0, <1>7 DEF ComputeMerkleRoot, Level
  <1>. QED
    BY <1>3, <1>8

-----------------------------------------------------------------------------
\* One root, one list.
LEMMA LevelBelow ==
    ASSUME NEW A, NEW n, List(A, n), n >= 1, Distinct(A, n),
           NEW h, Height(A, h), NEW k \in 0..(h - 1)
    PROVE  /\ \E l \in Nat : l > 1 /\ List(Level(A, k), l) /\ Distinct(Level(A, k), l)
           /\ Level(A, k + 1) = NextLevel(Level(A, k))
  <1>1. k \in Nat
    BY DEF Height
  <1>2. PICK l \in 1..n : List(Level(A, k), l) /\ Distinct(Level(A, k), l)
    BY <1>1, LevelsShrink
  <1>3. l # 1 /\ l \in Nat /\ l > 1
    BY <1>2 DEF Height, List
  <1>. QED
    BY <1>1, <1>2, <1>3, LevelsAre DEF Level

\* Trees of the same height agree from the root down.
LEMMA SameHeightSameList ==
    ASSUME NEW A, NEW n, List(A, n), n >= 1, Distinct(A, n),
           NEW B, NEW m, List(B, m), m >= 1, Distinct(B, m),
           NEW h, Height(A, h), Height(B, h), Level(A, h)[1] = Level(B, h)[1]
    PROVE  A = B
  <1>. DEFINE S == {d \in Nat : d <= h => Level(A, h - d) = Level(B, h - d)}
  <1>0. h \in Nat
    BY DEF Height
  <1>1. 0 \in S
    <2>1. List(Level(A, h), 1) /\ List(Level(B, h), 1)
      BY DEF Height
    <2>2. Level(A, h) = Level(B, h)
      <3>1. PICK X, Y : X = Level(A, h) /\ Y = Level(B, h)
        OBVIOUS
      <3>2. X = [i \in 1..1 |-> X[i]] /\ Y = [i \in 1..1 |-> Y[i]] /\ X[1] = Y[1]
        BY <2>1, <3>1 DEF List
      <3>3. X = Y
        BY <3>2
      <3>. QED
        BY <3>1, <3>3
    <2>. QED
      BY <1>0, <2>2
  <1>2. ASSUME NEW d \in Nat, d \in S PROVE d + 1 \in S
    <2>. SUFFICES ASSUME d + 1 <= h PROVE Level(A, h - (d + 1)) = Level(B, h - (d + 1))
      OBVIOUS
    <2>. DEFINE k == h - (d + 1)
    <2>1. k \in 0..(h - 1) /\ k + 1 = h - d
      BY <1>0
    <2>. HIDE DEF k
    <2>2. PICK l \in Nat : l > 1 /\ List(Level(A, k), l) /\ Distinct(Level(A, k), l)
      BY <2>1, LevelBelow
    <2>3. PICK p \in Nat : p > 1 /\ List(Level(B, k), p) /\ Distinct(Level(B, k), p)
      BY <2>1, LevelBelow
    <2>4. Level(A, k + 1) = NextLevel(Level(A, k)) /\ Level(B, k + 1) = NextLevel(Level(B, k))
      BY <2>1, LevelBelow
    <2>5. Level(A, k + 1) = Level(B, k + 1)
      BY <1>0, <1>2, <2>1
    <2>6. CASE l <= p
      BY <2>2, <2>3, <2>4, <2>5, <2>6, NextLevelInjective DEF k
    <2>7. CASE p <= l
      BY <2>2, <2>3, <2>4, <2>5, <2>7, NextLevelInjective DEF k
    <2>. QED
      BY <2>6, <2>7
  <1>. HIDE DEF S
  <1>3. h \in S
    BY <1>0, <1>1, <1>2, EveryNumber
  <1>4. h - h = 0
    BY <1>0
  <1>5. Level(A, 0) = Level(B, 0)
    BY <1>0, <1>3, <1>4 DEF S
  <1>. QED
    BY <1>5, LevelsAre DEF Level

\* A leaf is a hash of three things, a node above it of two: from roots that are
\* equal, the first node of each level leads down to a leaf that is a node.
Leaves(A, n) == \A i \in 1..n : \E x, y, z : A[i] = <<x, y, z>>

LEMMA HeightsAreEqual ==
    ASSUME NEW A, NEW n, List(A, n), n >= 1, Distinct(A, n), Leaves(A, n),
           NEW B, NEW m, List(B, m), m >= 1, Distinct(B, m),
           NEW h, NEW g, Height(A, h), Height(B, g), Level(A, h)[1] = Level(B, g)[1]
    PROVE  g <= h
  <1>0. h \in Nat /\ g \in Nat /\ n \in Nat
    BY DEF Height, List
  <1>. SUFFICES ASSUME h < g PROVE FALSE
    BY <1>0
  <1>. DEFINE S == {d \in Nat : d <= h => Level(A, h - d)[1] = Level(B, g - d)[1]}
  <1>1. 0 \in S
    <2>1. h - 0 = h /\ g - 0 = g
      BY <1>0
    <2>. QED
      BY <2>1
  <1>2. ASSUME NEW d \in Nat, d \in S PROVE d + 1 \in S
    <2>. SUFFICES ASSUME d + 1 <= h PROVE Level(A, h - (d + 1))[1] = Level(B, g - (d + 1))[1]
      OBVIOUS
    <2>. DEFINE k == h - (d + 1)
                j == g - (d + 1)
    <2>1. /\ k \in 0..(h - 1) /\ k + 1 = h - d
          /\ j \in 0..(g - 1) /\ j + 1 = g - d
      BY <1>0
    <2>2. Level(A, h - d)[1] = Level(B, g - d)[1]
      BY <1>0, <1>2
    <2>. HIDE DEF k, j
    <2>3. PICK l \in Nat : l > 1 /\ List(Level(A, k), l)
      BY <2>1, LevelBelow
    <2>4. PICK p \in Nat : p > 1 /\ List(Level(B, j), p)
      BY <2>1, LevelBelow
    <2>5. \E x : Level(A, k + 1)[1] = <<Level(A, k)[1], x>>
      <3>1. \E x : NextLevel(Level(A, k))[1] = <<Level(A, k)[1], x>>
        BY <2>3, FirstOfNextLevel
      <3>2. Level(A, k + 1) = NextLevel(Level(A, k))
        BY <2>1, LevelBelow
      <3>. QED
        BY <3>1, <3>2
    <2>6. \E x : Level(B, j + 1)[1] = <<Level(B, j)[1], x>>
      <3>1. \E x : NextLevel(Level(B, j))[1] = <<Level(B, j)[1], x>>
        BY <2>4, FirstOfNextLevel
      <3>2. Level(B, j + 1) = NextLevel(Level(B, j))
        BY <2>1, LevelBelow
      <3>. QED
        BY <3>1, <3>2
    <2>7. Level(A, k)[1] = Level(B, j)[1]
      BY <2>1, <2>2, <2>5, <2>6
    <2>. QED
      BY <2>7 DEF k, j
  <1>. HIDE DEF S
  <1>3. h \in S
    BY <1>0, <1>1, <1>2, EveryNumber
  <1>4. Level(A, 0)[1] = Level(B, g - h)[1]
    <2>1. h - h = 0
      BY <1>0
    <2>. QED
      BY <1>0, <1>3, <2>1 DEF S
  <1>5. PICK x, y, z : A[1] = <<x, y, z>>
    <2>1. 1 \in 1..n
      BY <1>0
    <2>. QED
      BY <2>1 DEF Leaves
  <1>. DEFINE j == (g - h) - 1
  <1>6. j \in 0..(g - 1) /\ j + 1 = g - h
    BY <1>0
  <1>. HIDE DEF j
  <1>7. PICK p \in Nat : p > 1 /\ List(Level(B, j), p)
    BY <1>6, LevelBelow
  <1>8. \E u, v : Level(B, j + 1)[1] = <<u, v>>
    <2>1. \E u, v : NextLevel(Level(B, j))[1] = <<u, v>>
      BY <1>7, FirstOfNextLevel
    <2>. QED
      BY <1>6, <2>1, LevelBelow
  <1>9. PICK u, v : <<x, y, z>> = <<u, v>>
    BY <1>4, <1>5, <1>6, <1>8, LevelsAre DEF Level
  <1>10. Len(<<x, y, z>>) = 3 /\ Len(<<u, v>>) = 2
    OBVIOUS
  <1>. QED
    BY <1>9, <1>10

\* compute_merkle_root names one list of entry hashes.
LEMMA MerkleRootIsInjective ==
    ASSUME NEW A, NEW n, List(A, n), n >= 1, Distinct(A, n), Leaves(A, n),
           NEW B, NEW m, List(B, m), m >= 1, Distinct(B, m), Leaves(B, m),
           ComputeMerkleRoot(A) = ComputeMerkleRoot(B)
    PROVE  A = B
  <1>1. PICK h : Height(A, h) /\ ComputeMerkleRoot(A) = Level(A, h)[1]
    BY RootAtHeight
  <1>2. PICK g : Height(B, g) /\ ComputeMerkleRoot(B) = Level(B, g)[1]
    BY RootAtHeight
  <1>3. g <= h /\ h <= g
    BY <1>1, <1>2, HeightsAreEqual
  <1>4. h = g
    BY <1>1, <1>2, <1>3 DEF Height
  <1>. QED
    BY <1>1, <1>2, <1>4, SameHeightSameList

-----------------------------------------------------------------------------
\* Streams of rows.
Row(r) ==
    /\ r = [prevHash |-> r.prevHash, columns |-> r.columns, entryHash |-> r.entryHash]
    /\ r.columns \in Columns

Stream(q) == List(q, Len(q)) /\ \A i \in 1..Len(q) : Row(q[i])

LEMMA StreamDomain ==
    ASSUME NEW q, Stream(q)
    PROVE  DOMAIN q = 1..Len(q) /\ Len(q) \in Nat
  BY ListIsSequence DEF Stream, List

LEMMA NewRowIs ==
    ASSUME NEW h, NEW v, NEW p \in Columns
    PROVE  /\ Row(NewRow(h, v, p))
           /\ NewRow(h, v, p).prevHash = h /\ NewRow(h, v, p).columns = p
           /\ NewRow(h, v, p).entryHash = <<h, v, Joined[p]>>
  BY DEF Row, NewRow, ComputeEntryHash

LEMMA CoveredIs ==
    ASSUME NEW r, Row(r)
    PROVE  Covered(r) = [prevHash |-> r.prevHash, columns |-> Joined[r.columns],
                         entryHash |-> r.entryHash]
  <1>1. PICK h, c, e : h = r.prevHash /\ c = r.columns /\ e = r.entryHash
    OBVIOUS
  <1>2. r = [prevHash |-> h, columns |-> c, entryHash |-> e]
    BY <1>1 DEF Row
  <1>3. Covered([prevHash |-> h, columns |-> c, entryHash |-> e])
          = [prevHash |-> h, columns |-> Joined[c], entryHash |-> e]
    BY DEF Covered
  <1>. QED
    BY <1>1, <1>2, <1>3

LEMMA EmptyStream == Stream(<< >>) /\ Len(<< >>) = 0
  BY DEF Stream, List

LEMMA Appending ==
    ASSUME NEW q, Stream(q), NEW r, Row(r)
    PROVE  /\ Stream(Append(q, r)) /\ Len(Append(q, r)) = Len(q) + 1
           /\ Append(q, r)[Len(q) + 1] = r
           /\ \A i \in 1..Len(q) : Append(q, r)[i] = q[i]
  <1>. DEFINE S == {q[i] : i \in 1..Len(q)} \union {r}
  <1>1. q \in Seq(S) /\ r \in S /\ Len(q) \in Nat
    <2>1. q \in Seq({q[i] : i \in 1..Len(q)}) /\ Len(q) \in Nat
      BY ListIsSequence DEF Stream, List
    <2>. QED
      BY <2>1
  <1>. HIDE DEF S
  <1>2. /\ Append(q, r) \in Seq(S) /\ Len(Append(q, r)) = Len(q) + 1
        /\ Append(q, r)[Len(q) + 1] = r
        /\ \A i \in 1..Len(q) : Append(q, r)[i] = q[i]
    BY <1>1, AppendProperties
  <1>3. List(Append(q, r), Len(Append(q, r)))
    BY <1>2, SequenceIsList
  <1>4. \A i \in 1..(Len(q) + 1) : i \in 1..Len(q) \/ i = Len(q) + 1
    BY <1>1
  <1>. QED
    BY <1>2, <1>3, <1>4 DEF Stream

LEMMA Prefix ==
    ASSUME NEW q, Stream(q), NEW k \in 0..Len(q)
    PROVE  /\ Stream(SubSeq(q, 1, k)) /\ Len(SubSeq(q, 1, k)) = k
           /\ \A i \in 1..k : SubSeq(q, 1, k)[i] = q[i]
  <1>. DEFINE S == {q[i] : i \in 1..Len(q)}
  <1>1. q \in Seq(S) /\ Len(q) \in Nat
    BY ListIsSequence DEF Stream, List
  <1>. HIDE DEF S
  <1>2. SubSeq(q, 1, k) = [i \in 1..k |-> q[i]]
    <2>1. SubSeq(q, 1, k) = [i \in 1..(1 + k - 1) |-> q[i + 1 - 1]]
      BY <1>1
    <2>. QED
      BY <1>1, <2>1
  <1>3. List(SubSeq(q, 1, k), k)
    BY <1>1, <1>2 DEF List
  <1>4. Len(SubSeq(q, 1, k)) = k
    BY <1>3, ListIsSequence
  <1>. QED
    BY <1>1, <1>2, <1>3, <1>4 DEF Stream

\* One row of a stream replaced.
LEMMA Replacing ==
    ASSUME NEW q, Stream(q), NEW k \in 1..Len(q), NEW r, Row(r)
    PROVE  /\ Stream([q EXCEPT ![k] = r]) /\ Len([q EXCEPT ![k] = r]) = Len(q)
           /\ \A i \in 1..Len(q) : [q EXCEPT ![k] = r][i] = IF i = k THEN r ELSE q[i]
  <1>. DEFINE t == [q EXCEPT ![k] = r]
  <1>1. Len(q) \in Nat /\ q = [i \in 1..Len(q) |-> q[i]]
    BY DEF Stream, List
  <1>2. /\ t = [i \in 1..Len(q) |-> t[i]]
        /\ \A i \in 1..Len(q) : t[i] = IF i = k THEN r ELSE q[i]
    BY <1>1
  <1>. HIDE DEF t
  <1>3. List(t, Len(q))
    BY <1>1, <1>2 DEF List
  <1>4. Len(t) = Len(q)
    BY <1>3, ListIsSequence
  <1>5. Stream(t)
    BY <1>2, <1>3, <1>4 DEF Stream
  <1>. QED
    BY <1>2, <1>4, <1>5 DEF t

LEMMA SameStream ==
    ASSUME NEW q, Stream(q), NEW t, Stream(t), Len(q) = Len(t),
           \A i \in 1..Len(q) : q[i] = t[i]
    PROVE  q = t
  BY DEF Stream, List

-----------------------------------------------------------------------------
\* Streams that verify.
LEMMA Verifies ==
    ASSUME NEW q, Stream(q)
    PROVE  VerifyChain(q) <=>
             \A i \in 1..Len(q) : /\ q[i].prevHash = PrevHash(q, i)
                                  /\ q[i].entryHash = <<q[i].prevHash, i, Joined[q[i].columns]>>
  BY StreamDomain DEF VerifyChain, BrokenAt, BrokenLink, BrokenEntry, ComputeEntryHash

\* Of a stream that verifies, the entry hashes are distinct leaves.
LEMMA HashesAreLeaves ==
    ASSUME NEW q, Stream(q), VerifyChain(q)
    PROVE  /\ List(EntryHashes(q), Len(q))
           /\ Distinct(EntryHashes(q), Len(q)) /\ Leaves(EntryHashes(q), Len(q))
  <1>. DEFINE E == EntryHashes(q)
  <1>1. E = [i \in 1..Len(q) |-> q[i].entryHash] /\ Len(q) \in Nat
    BY StreamDomain DEF EntryHashes
  <1>2. \A i \in 1..Len(q) : E[i] = <<q[i].prevHash, i, Joined[q[i].columns]>>
    BY <1>1, Verifies
  <1>. HIDE DEF E
  <1>3. List(E, Len(q))
    BY <1>1 DEF List
  <1>4. Distinct(E, Len(q))
    BY <1>2 DEF Distinct
  <1>5. Leaves(E, Len(q))
    BY <1>2 DEF Leaves
  <1>. QED
    BY <1>3, <1>4, <1>5 DEF E

\* And their root names the rows, as far as the hashes cover them.
LEMMA RootNamesRows ==
    ASSUME NEW q, Stream(q), VerifyChain(q), Len(q) >= 1,
           NEW t, Stream(t), VerifyChain(t), Len(t) >= 1,
           ComputeMerkleRoot(EntryHashes(q)) = ComputeMerkleRoot(EntryHashes(t))
    PROVE  AsCovered(q) = AsCovered(t)
  <1>1. EntryHashes(q) = EntryHashes(t)
    BY HashesAreLeaves, MerkleRootIsInjective
  <1>2. Len(q) = Len(t)
    <2>1. List(EntryHashes(q), Len(q)) /\ List(EntryHashes(q), Len(t))
      BY <1>1, HashesAreLeaves
    <2>2. Len(EntryHashes(q)) = Len(q) /\ Len(EntryHashes(q)) = Len(t)
      BY <2>1, ListIsSequence
    <2>. QED
      BY <2>2
  <1>3. ASSUME NEW i \in 1..Len(q) PROVE Covered(q[i]) = Covered(t[i])
    <2>1. i \in 1..Len(t)
      BY <1>2
    <2>2. EntryHashes(q)[i] = q[i].entryHash /\ EntryHashes(t)[i] = t[i].entryHash
      BY <2>1, StreamDomain DEF EntryHashes
    <2>3. /\ q[i].entryHash = <<q[i].prevHash, i, Joined[q[i].columns]>>
          /\ t[i].entryHash = <<t[i].prevHash, i, Joined[t[i].columns]>>
      BY <2>1, Verifies
    <2>4. q[i].entryHash = t[i].entryHash
      BY <1>1, <2>2
    <2>5. q[i].prevHash = t[i].prevHash /\ Joined[q[i].columns] = Joined[t[i].columns]
      BY <2>3, <2>4
    <2>6. Row(q[i]) /\ Row(t[i])
      BY <2>1 DEF Stream
    <2>. QED
      BY <2>4, <2>5, <2>6, CoveredIs
  <1>. QED
    BY <1>2, <1>3, StreamDomain DEF AsCovered

LEMMA PrefixVerifies ==
    ASSUME NEW q, Stream(q), VerifyChain(q), NEW k \in 0..Len(q)
    PROVE  VerifyChain(SubSeq(q, 1, k))
  <1>. DEFINE t == SubSeq(q, 1, k)
  <1>0. Len(q) \in Nat
    BY StreamDomain
  <1>1. Stream(t) /\ Len(t) = k /\ \A i \in 1..k : t[i] = q[i]
    BY Prefix
  <1>. HIDE DEF t
  <1>2. ASSUME NEW i \in 1..k
        PROVE  /\ t[i].prevHash = PrevHash(t, i)
               /\ t[i].entryHash = <<t[i].prevHash, i, Joined[t[i].columns]>>
    <2>1. i \in 1..Len(q) /\ (i # 1 => i - 1 \in 1..k)
      BY <1>0
    <2>2. PrevHash(t, i) = PrevHash(q, i)
      BY <1>1, <2>1 DEF PrevHash
    <2>. QED
      BY <1>1, <2>1, <2>2, Verifies
  <1>. QED
    BY <1>1, <1>2, Verifies DEF t

-----------------------------------------------------------------------------
\* The inductive invariant.  The rows are streams; appended is what the log
\* itself wrote, hashes and all.
StreamsAre ==
    /\ Stream(rows) /\ Stream(appended)
    /\ Len(rows) <= MaxVersion /\ Len(rows) <= Len(appended)
    /\ \A v \in 1..Len(appended) :
          appended[v].entryHash = <<appended[v].prevHash, v, Joined[appended[v].columns]>>
    /\ damage \in 0..MaxDamage

Read(an) ==
    /\ an = [pc |-> an.pc, commits |-> an.commits]
    /\ an.pc \in AnchorPlaces
    /\ Stream(an.commits) /\ Len(an.commits) <= MaxVersion
    /\ an.pc \in {"sink", "record", "dead"} \union Recorded => Len(an.commits) >= 1

\* Every anchoring has a stream it read; it is sunk before it is recorded.
AnchoringsAre ==
    /\ anchor = [a \in Anchorings |-> anchor[a]]
    /\ \A a \in Anchorings : Read(anchor[a])
    /\ \A a \in Anchorings :
          anchor[a].pc \in {"record", "dead"} \union Recorded => <<a, RootOf(a)>> \in sunk

RecordsAre ==
    /\ DOMAIN records = {a \in Anchorings : anchor[a].pc \in Recorded}
    /\ \A a \in DOMAIN records : /\ records[a].version = Len(anchor[a].commits)
                                 /\ records[a].root = RootOf(a)

\* An undamaged stream verifies, and begins with what every anchoring read.
Begins(q) == Len(q) <= Len(rows) /\ \A i \in 1..Len(q) : q[i] = rows[i]

Intact ==
    damage = 0 => /\ VerifyChain(rows)
                  /\ \A a \in Anchorings : Begins(anchor[a].commits)

IInv == StreamsAre /\ AnchoringsAre /\ RecordsAre /\ Intact

-----------------------------------------------------------------------------
\* A rewritten chain is a stream again, of the same length.
ChainStep(g, i, p, j) ==
    IF j < i THEN SubSeq(rows, 1, j)
    ELSE Append(g[j - 1], NewRow(PrevHash(g[j - 1], j), j, IF j = i THEN p ELSE rows[j].columns))

ChainTo(g, i, p, n) ==
    /\ g = [j \in 0..n |-> g[j]]
    /\ \A j \in 0..n : g[j] = ChainStep(g, i, p, j)

LEMMA ChainToExist ==
    ASSUME NEW i \in Nat, i >= 1, NEW p, NEW n \in Nat
    PROVE  \E g : ChainTo(g, i, p, n)
  <1>. DEFINE S == {m \in Nat : \E g : ChainTo(g, i, p, m)}
  <1>1. 0 \in S
    <2>. DEFINE g == [j \in 0..0 |-> SubSeq(rows, 1, 0)]
    <2>1. g[0] = SubSeq(rows, 1, 0) /\ 0 < i /\ g = [j \in 0..0 |-> g[j]]
      OBVIOUS
    <2>. HIDE DEF g
    <2>2. ASSUME NEW j \in 0..0 PROVE g[j] = ChainStep(g, i, p, j)
      <3>1. j = 0
        OBVIOUS
      <3>. QED
        BY <2>1, <3>1 DEF ChainStep
    <2>3. ChainTo(g, i, p, 0)
      BY <2>1, <2>2 DEF ChainTo
    <2>. QED
      BY <2>3
  <1>2. ASSUME NEW m \in Nat, m \in S PROVE m + 1 \in S
    <2>1. PICK g : ChainTo(g, i, p, m)
      BY <1>2
    <2>. DEFINE h == [j \in 0..(m + 1) |-> IF j <= m THEN g[j] ELSE ChainStep(g, i, p, j)]
    <2>2. /\ h = [j \in 0..(m + 1) |-> h[j]]
          /\ \A j \in 0..m : h[j] = g[j]
          /\ h[m + 1] = ChainStep(g, i, p, m + 1)
      OBVIOUS
    <2>. HIDE DEF h
    <2>3. ASSUME NEW j \in 0..(m + 1) PROVE h[j] = ChainStep(g, i, p, j)
      <3>1. CASE j <= m
        <4>1. j \in 0..m
          BY <3>1
        <4>. QED
          BY <2>1, <2>2, <4>1 DEF ChainTo
      <3>2. CASE j = m + 1
        BY <2>2, <3>2
      <3>. QED
        BY <3>1, <3>2
    <2>4. ASSUME NEW j \in 0..(m + 1) PROVE ChainStep(g, i, p, j) = ChainStep(h, i, p, j)
      <3>1. CASE j < i
        BY <3>1 DEF ChainStep
      <3>2. CASE ~(j < i)
        <4>1. j - 1 \in 0..m
          BY <3>2
        <4>2. h[j - 1] = g[j - 1]
          BY <2>2, <4>1
        <4>. QED
          BY <3>2, <4>2 DEF ChainStep
      <3>. QED
        BY <3>1, <3>2
    <2>5. ChainTo(h, i, p, m + 1)
      BY <2>2, <2>3, <2>4 DEF ChainTo
    <2>. QED
      BY <2>5
  <1>. HIDE DEF S
  <1>3. n \in S
    BY <1>1, <1>2, EveryNumber
  <1>. QED
    BY <1>3 DEF S

LEMMA ChainIs ==
    ASSUME Stream(rows), NEW i \in 1..Len(rows), NEW p \in Columns
    PROVE  Stream(Chain(i, p)[Len(rows)]) /\ Len(Chain(i, p)[Len(rows)]) = Len(rows)
  <1>. DEFINE C(g) == [j \in 0..Len(rows) |-> ChainStep(g, i, p, j)]
              R(g) == [j \in 0..Len(rows) |->
                          IF j < i THEN SubSeq(rows, 1, j)
                          ELSE Append(g[j - 1],
                                      NewRow(PrevHash(g[j - 1], j), j,
                                             IF j = i THEN p ELSE rows[j].columns))]
  <1>0. Len(rows) \in Nat /\ i \in Nat /\ i >= 1
    BY StreamDomain
  <1>1. PICK g : ChainTo(g, i, p, Len(rows))
    BY <1>0, ChainToExist
  <1>2. g = R(g)
    BY <1>1 DEF ChainTo, ChainStep
  <1>3. Chain(i, p) = CHOOSE f : f = R(f)
    BY DEF Chain
  <1>4. Chain(i, p) = R(Chain(i, p))
    BY <1>2, <1>3
  <1>5. PICK c : c = Chain(i, p)
    OBVIOUS
  <1>6. c = R(c)
    BY <1>4, <1>5
  <1>7. \A j \in 0..Len(rows) : c[j] = ChainStep(c, i, p, j)
    BY <1>6 DEF ChainStep
  <1>. HIDE DEF R, C
  <1>. DEFINE S == {m \in Nat : m <= Len(rows) => Stream(c[m]) /\ Len(c[m]) = m}
  <1>8. 0 \in S
    <2>1. 0 \in 0..Len(rows) /\ 0 < i
      BY <1>0
    <2>2. c[0] = ChainStep(c, i, p, 0)
      BY <1>7, <2>1
    <2>3. c[0] = SubSeq(rows, 1, 0)
      BY <2>1, <2>2 DEF ChainStep
    <2>. QED
      BY <2>1, <2>3, Prefix
  <1>9. ASSUME NEW m \in Nat, m \in S PROVE m + 1 \in S
    <2>. SUFFICES ASSUME m + 1 <= Len(rows)
                  PROVE  Stream(c[m + 1]) /\ Len(c[m + 1]) = m + 1
      OBVIOUS
    <2>1. /\ Stream(c[m]) /\ Len(c[m]) = m
          /\ m + 1 \in 0..Len(rows) /\ m + 1 \in 1..Len(rows) /\ (m + 1) - 1 = m
      BY <1>0, <1>9
    <2>2. CASE m + 1 < i
      <3>1. c[m + 1] = SubSeq(rows, 1, m + 1)
        BY <1>7, <2>1, <2>2 DEF ChainStep
      <3>. QED
        BY <2>1, <3>1, Prefix
    <2>3. CASE ~(m + 1 < i)
      <3>. DEFINE x == IF m + 1 = i THEN p ELSE rows[m + 1].columns
                  r == NewRow(PrevHash(c[m], m + 1), m + 1, x)
      <3>1. x \in Columns
        BY <2>1 DEF Stream, Row
      <3>2. c[m + 1] = Append(c[m], r)
        BY <1>7, <2>1, <2>3 DEF ChainStep
      <3>. HIDE DEF x
      <3>3. Row(r)
        BY <3>1, NewRowIs
      <3>. HIDE DEF r
      <3>4. Stream(Append(c[m], r)) /\ Len(Append(c[m], r)) = Len(c[m]) + 1
        BY <2>1, <3>3, Appending
      <3>. QED
        BY <2>1, <3>2, <3>4
    <2>. QED
      BY <2>2, <2>3
  <1>. HIDE DEF S
  <1>10. Len(rows) \in S
    BY <1>0, <1>8, <1>9, EveryNumber
  <1>. QED
    BY <1>0, <1>5, <1>10 DEF S

RootOfCommits(commits) == ComputeMerkleRoot(EntryHashes(commits))

LEMMA InitIInv == Init => IInv
  <1>. SUFFICES ASSUME Init PROVE IInv
    OBVIOUS
  <1>. USE DEF Init
  <1>1. StreamsAre
    <2>1. /\ Stream(rows) /\ Stream(appended)
          /\ Len(rows) = 0 /\ Len(appended) = 0
      BY EmptyStream
    <2>. QED
      BY <2>1, BoundsAssumption DEF StreamsAre
  <1>3. Read(NotStarted)
    BY EmptyStream, BoundsAssumption DEF Read, NotStarted, AnchorPlaces, Recorded
  <1>4. AnchoringsAre
    BY <1>3 DEF AnchoringsAre, NotStarted, Recorded
  <1>5. RecordsAre
    BY DEF RecordsAre, NotStarted, Recorded
  <1>6. Intact
    BY EmptyStream, Verifies DEF Intact, Begins, NotStarted
  <1>. QED
    BY <1>1, <1>4, <1>5, <1>6 DEF IInv

\* A step of one anchoring: it keeps what the others read and recorded.
LEMMA AnchoringMoves ==
    ASSUME IInv, NEW a \in Anchorings, NEW new, Read(new),
           anchor' = [anchor EXCEPT ![a] = new],
           UNCHANGED <<rows, appended, damage>>,
           sunk \subseteq sunk',
           new.pc \in {"record", "dead"} \union Recorded
               => <<a, RootOfCommits(new.commits)>> \in sunk',
           damage = 0 => Begins(new.commits),
           anchor[a].pc \notin Recorded,
           IF new.pc \in Recorded
           THEN records' = [b \in DOMAIN records \union {a} |->
                              IF b = a THEN [version |-> Len(new.commits),
                                             root |-> RootOfCommits(new.commits)]
                              ELSE records[b]]
           ELSE records' = records
    PROVE  IInv'
  <1>. USE DEF IInv
  <1>1. StreamsAre'
    BY DEF StreamsAre
  <1>2. /\ anchor' = [b \in Anchorings |-> anchor'[b]]
        /\ anchor'[a] = new
        /\ \A b \in Anchorings : b # a => anchor'[b] = anchor[b]
    BY DEF AnchoringsAre
  <1>3. /\ RootOf(a)' = RootOfCommits(new.commits)
        /\ \A b \in Anchorings : b # a => RootOf(b)' = RootOf(b)
    BY <1>2 DEF RootOf, RootOfCommits
  <1>4. AnchoringsAre'
    <2>1. ASSUME NEW b \in Anchorings PROVE Read(anchor'[b])
      BY <1>2 DEF AnchoringsAre
    <2>2. ASSUME NEW b \in Anchorings, anchor'[b].pc \in {"record", "dead"} \union Recorded
          PROVE  <<b, RootOf(b)'>> \in sunk'
      <3>1. CASE b = a
        BY <1>2, <1>3, <2>2, <3>1
      <3>2. CASE b # a
        BY <1>2, <1>3, <2>2, <3>2 DEF AnchoringsAre
      <3>. QED
        BY <3>1, <3>2
    <2>. QED
      BY <1>2, <2>1, <2>2 DEF AnchoringsAre
  <1>5. RecordsAre'
    <2>1. CASE new.pc \in Recorded
      <3>1. /\ DOMAIN records' = DOMAIN records \union {a}
            /\ records'[a] = [version |-> Len(new.commits),
                              root |-> RootOfCommits(new.commits)]
            /\ \A b \in DOMAIN records : b # a => records'[b] = records[b]
        BY <2>1
      <3>2. DOMAIN records' = {b \in Anchorings : anchor'[b].pc \in Recorded}
        BY <1>2, <2>1, <3>1 DEF RecordsAre
      <3>3. ASSUME NEW b \in DOMAIN records'
            PROVE  /\ records'[b].version = Len(anchor'[b].commits)
                   /\ records'[b].root = RootOf(b)'
        <4>1. CASE b = a
          BY <1>2, <1>3, <3>1, <4>1
        <4>2. CASE b # a
          <5>1. b \in DOMAIN records /\ b \in Anchorings
            BY <3>1, <4>2 DEF RecordsAre
          <5>. QED
            BY <1>2, <1>3, <3>1, <4>2, <5>1 DEF RecordsAre
        <4>. QED
          BY <4>1, <4>2
      <3>. QED
        BY <3>2, <3>3 DEF RecordsAre
    <2>2. CASE new.pc \notin Recorded
      <3>1. records' = records /\ a \notin DOMAIN records
        BY <2>2 DEF RecordsAre
      <3>2. DOMAIN records' = {b \in Anchorings : anchor'[b].pc \in Recorded}
        BY <1>2, <2>2, <3>1 DEF RecordsAre
      <3>3. ASSUME NEW b \in DOMAIN records'
            PROVE  /\ records'[b].version = Len(anchor'[b].commits)
                   /\ records'[b].root = RootOf(b)'
        BY <1>2, <1>3, <3>1 DEF RecordsAre
      <3>. QED
        BY <3>2, <3>3 DEF RecordsAre
    <2>. QED
      BY <2>1, <2>2
  <1>6. Intact'
    <2>1. VerifyChain(rows)' = VerifyChain(rows)
      BY DEF VerifyChain, BrokenAt, BrokenLink, BrokenEntry, PrevHash
    <2>2. ASSUME damage' = 0, NEW b \in Anchorings
          PROVE  Begins(anchor[b].commits)'
      <3>1. Begins(anchor'[b].commits)
        BY <1>2, <2>2 DEF Intact
      <3>. QED
        BY <3>1 DEF Begins
    <2>. QED
      BY <2>1, <2>2 DEF Intact, Begins
  <1>. QED
    BY <1>1, <1>4, <1>5, <1>6

\* A change behind the log's back: the rows stay a stream, no longer than they were.
LEMMA DamagingMoves ==
    ASSUME IInv, Damaged, Stream(rows'), Len(rows') <= Len(rows)
    PROVE  IInv'
  <1>. USE DEF IInv, Damaged
  <1>0. damage \in Nat /\ damage + 1 \in 0..MaxDamage /\ Len(rows') \in Nat /\ Len(rows) \in Nat
    BY BoundsAssumption, StreamDomain DEF StreamsAre
  <1>1. StreamsAre'
    <2>1. Len(rows') <= MaxVersion /\ Len(rows') <= Len(appended)
      BY <1>0, BoundsAssumption, StreamDomain DEF StreamsAre
    <2>3. damage' \in 0..MaxDamage /\ damage' > 0
      BY <1>0
    <2>4. \A v \in 1..Len(appended') :
             appended'[v].entryHash = <<appended'[v].prevHash, v, Joined[appended'[v].columns]>>
      BY DEF StreamsAre
    <2>5. Stream(appended')
      BY DEF StreamsAre, Stream, List, Row
    <2>. QED
      BY <2>1, <2>3, <2>4, <2>5 DEF StreamsAre
  <1>3. AnchoringsAre'
    BY DEF AnchoringsAre, RootOf
  <1>4. RecordsAre'
    BY DEF RecordsAre, RootOf
  <1>5. Intact'
    BY <1>0 DEF Intact
  <1>. QED
    BY <1>1, <1>3, <1>4, <1>5

LEMMA AppendKeepsIInv ==
    ASSUME IInv, NEW p \in Columns, AppendCommit(p)
    PROVE  IInv'
  <1>. DEFINE n == Len(rows)
              row == NewRow(PrevHash(rows, n + 1), n + 1, p)
              kept == SubSeq(appended, 1, n)
  <1>1. /\ rows' = Append(rows, row) /\ appended' = Append(kept, row)
        /\ n < MaxVersion
        /\ UNCHANGED <<anchor, records, sunk, damage>>
    BY DEF AppendCommit
  <1>2. /\ n \in Nat /\ n <= Len(appended) /\ Len(appended) \in Nat
        /\ Stream(rows) /\ Stream(appended)
    BY StreamDomain DEF IInv, StreamsAre
  <1>3. /\ Row(row) /\ row.prevHash = PrevHash(rows, n + 1) /\ row.columns = p
        /\ row.entryHash = <<row.prevHash, n + 1, Joined[row.columns]>>
    BY NewRowIs
  <1>. HIDE DEF row
  <1>4. /\ Stream(kept) /\ Len(kept) = n
        /\ \A i \in 1..n : kept[i] = appended[i]
    BY <1>2, Prefix
  <1>. HIDE DEF kept
  <1>5. /\ Stream(rows') /\ Len(rows') = n + 1 /\ rows'[n + 1] = row
        /\ \A i \in 1..n : rows'[i] = rows[i]
    BY <1>1, <1>2, <1>3, Appending
  <1>6. /\ Stream(appended') /\ Len(appended') = n + 1 /\ appended'[n + 1] = row
        /\ \A i \in 1..n : appended'[i] = appended[i]
    BY <1>1, <1>3, <1>4, Appending
  <1>. HIDE DEF n
  <1>7. \A i \in 1..(n + 1) : i \in 1..n \/ i = n + 1
    BY <1>2
  <1>8. StreamsAre'
    <2>1. ASSUME NEW i \in 1..(n + 1)
          PROVE  appended'[i].entryHash = <<appended'[i].prevHash, i, Joined[appended'[i].columns]>>
      <3>1. CASE i \in 1..n
        <4>1. i \in 1..Len(appended)
          BY <1>2, <3>1
        <4>. QED
          BY <1>6, <3>1, <4>1 DEF IInv, StreamsAre
      <3>2. CASE i = n + 1
        BY <1>3, <1>6, <3>2
      <3>. QED
        BY <1>7, <3>1, <3>2
    <2>2. Len(rows') <= MaxVersion /\ Len(rows') <= Len(appended')
      BY <1>1, <1>2, <1>5, <1>6, BoundsAssumption
    <2>. QED
      BY <1>1, <1>5, <1>6, <2>1, <2>2 DEF IInv, StreamsAre
  <1>10. AnchoringsAre' /\ RecordsAre'
    BY <1>1 DEF IInv, AnchoringsAre, RecordsAre, RootOf
  <1>11. ASSUME damage = 0 PROVE VerifyChain(rows')
    <2>1. ASSUME NEW i \in 1..(n + 1)
          PROVE  /\ rows'[i].prevHash = PrevHash(rows', i)
                 /\ rows'[i].entryHash = <<rows'[i].prevHash, i, Joined[rows'[i].columns]>>
      <3>1. PrevHash(rows', i) = PrevHash(rows, i)
        <4>1. i # 1 => i - 1 \in 1..n
          BY <1>2
        <4>. QED
          BY <1>5, <4>1 DEF PrevHash
      <3>2. CASE i \in 1..n
        <4>1. /\ rows[i].prevHash = PrevHash(rows, i)
              /\ rows[i].entryHash = <<rows[i].prevHash, i, Joined[rows[i].columns]>>
          BY <1>2, <1>11, <3>2, Verifies DEF IInv, Intact, n
        <4>. QED
          BY <1>5, <3>1, <3>2, <4>1
      <3>3. CASE i = n + 1
        BY <1>3, <1>5, <3>1, <3>3
      <3>. QED
        BY <1>7, <3>2, <3>3
    <2>. QED
      BY <1>5, <2>1, Verifies
  <1>12. Intact'
    <2>1. ASSUME damage' = 0 PROVE VerifyChain(rows)'
      <3>1. VerifyChain(rows')
        BY <1>1, <1>11, <2>1
      <3>. QED
        BY <3>1 DEF VerifyChain, BrokenAt, BrokenLink, BrokenEntry, PrevHash
    <2>2. ASSUME damage' = 0, NEW a \in Anchorings
          PROVE  Begins(anchor[a].commits)'
      <3>1. PICK c : c = anchor[a].commits
        OBVIOUS
      <3>2. Len(c) \in Nat /\ Begins(c)
        BY <1>1, <2>2, <3>1, StreamDomain DEF IInv, Intact, AnchoringsAre, Read
      <3>3. Len(c) <= n /\ \A i \in 1..Len(c) : c[i] = rows[i]
        BY <3>2 DEF Begins, n
      <3>4. Len(c) <= n + 1 /\ \A i \in 1..Len(c) : i \in 1..n
        BY <1>2, <3>2, <3>3
      <3>5. \A i \in 1..Len(c) : c[i] = rows'[i]
        BY <1>5, <3>3, <3>4
      <3>. QED
        BY <1>1, <1>5, <3>1, <3>4, <3>5 DEF Begins
    <2>. QED
      BY <2>1, <2>2 DEF Intact
  <1>. QED
    BY <1>8, <1>10, <1>12 DEF IInv

LEMMA AnchoringKeepsIInv ==
    ASSUME IInv, NEW a \in Anchorings, Anchoring(a)
    PROVE  IInv'
  <1>. DEFINE an == anchor[a]
  <1>0. /\ Read(an) /\ anchor = [b \in Anchorings |-> anchor[b]]
        /\ damage = 0 => Begins(an.commits)
        /\ an.pc \in {"record", "dead"} \union Recorded => <<a, RootOfCommits(an.commits)>> \in sunk
    BY DEF IInv, AnchoringsAre, Intact, RootOf, RootOfCommits
  <1>1. CASE ReadCommits(a)
    <2>1. an.pc = "idle"
      BY <1>1 DEF ReadCommits
    <2>2. CASE rows = << >>
      <3>. DEFINE new == [an EXCEPT !.pc = "refused"]
      <3>1. anchor' = [anchor EXCEPT ![a] = new]
        BY <1>1, <2>2 DEF ReadCommits
      <3>2. Read(new) /\ new.pc = "refused" /\ new.commits = an.commits
        BY <1>0 DEF Read, AnchorPlaces, Recorded
      <3>. HIDE DEF new
      <3>. QED
        BY <1>0, <1>1, <2>1, <3>1, <3>2, AnchoringMoves DEF ReadCommits, Recorded
    <2>3. CASE rows # << >>
      <3>. DEFINE new == [pc |-> "sink", commits |-> rows]
      <3>1. anchor' = [anchor EXCEPT ![a] = new]
        BY <1>1, <2>3 DEF ReadCommits
      <3>2. Stream(rows) /\ Len(rows) <= MaxVersion /\ Len(rows) \in Nat
        BY StreamDomain DEF IInv, StreamsAre
      <3>3. Len(rows) >= 1
        <4>1. Len(rows) # 0
          BY <2>3, <3>2, EmptyStream, SameStream
        <4>. QED
          BY <3>2, <4>1
      <3>4. Read(new) /\ new.pc = "sink" /\ Begins(new.commits)
        BY <3>2, <3>3 DEF Read, AnchorPlaces, Begins, Recorded
      <3>. HIDE DEF new
      <3>. QED
        BY <1>1, <2>1, <3>1, <3>4, AnchoringMoves DEF ReadCommits, Recorded
    <2>. QED
      BY <2>2, <2>3
  <1>2. CASE CallSink(a)
    <2>1. an.pc = "sink" /\ UNCHANGED <<rows, appended, records, damage>>
      BY <1>2 DEF CallSink
    <2>2. CASE /\ sunk' = sunk \union {<<a, RootOf(a)>>}
               /\ anchor' = [anchor EXCEPT ![a].pc = "record"]
      <3>. DEFINE new == [an EXCEPT !.pc = "record"]
      <3>1. anchor' = [anchor EXCEPT ![a] = new]
        BY <2>2
      <3>2. Read(new) /\ new.pc = "record" /\ new.commits = an.commits
        BY <1>0, <2>1 DEF Read, AnchorPlaces, Recorded
      <3>3. sunk \subseteq sunk' /\ <<a, RootOfCommits(new.commits)>> \in sunk'
        BY <2>2, <3>2 DEF RootOf, RootOfCommits
      <3>. HIDE DEF new
      <3>. QED
        BY <1>0, <2>1, <3>1, <3>2, <3>3, AnchoringMoves DEF Recorded
    <2>3. CASE /\ anchor' = [anchor EXCEPT ![a] = [pc |-> "failed", commits |-> << >>]]
               /\ UNCHANGED sunk
      <3>. DEFINE new == [pc |-> "failed", commits |-> << >>]
      <3>1. anchor' = [anchor EXCEPT ![a] = new]
        BY <2>3
      <3>2. Len(rows) \in Nat
        BY StreamDomain DEF IInv, StreamsAre
      <3>3. Read(new) /\ new.pc = "failed" /\ Begins(new.commits)
        BY <3>2, EmptyStream, BoundsAssumption DEF Read, AnchorPlaces, Begins, Recorded
      <3>. HIDE DEF new
      <3>. QED
        BY <2>1, <2>3, <3>1, <3>3, AnchoringMoves DEF Recorded
    <2>. QED
      BY <1>2, <2>2, <2>3 DEF CallSink
  <1>3. CASE Record(a)
    <2>0. PICK w \in Recorded : anchor' = [anchor EXCEPT ![a].pc = w]
      BY <1>3 DEF Record, Recorded
    <2>. DEFINE new == [an EXCEPT !.pc = w]
    <2>1. /\ an.pc = "record" /\ UNCHANGED <<rows, appended, sunk, damage>>
          /\ anchor' = [anchor EXCEPT ![a] = new]
      BY <1>3, <2>0 DEF Record
    <2>2. Read(new) /\ new.pc \in Recorded /\ new.commits = an.commits
      BY <1>0, <2>1 DEF Read, AnchorPlaces, Recorded
    <2>3. records' = [b \in DOMAIN records \union {a} |->
                        IF b = a THEN [version |-> Len(new.commits),
                                       root |-> RootOfCommits(new.commits)]
                        ELSE records[b]]
      BY <1>3, <2>2 DEF Record, InsertRecord, RootOf, RootOfCommits
    <2>. HIDE DEF new
    <2>. QED
      BY <1>0, <2>1, <2>2, <2>3, AnchoringMoves DEF Recorded
  <1>4. CASE AnchoringDies(a)
    <2>. DEFINE new == [an EXCEPT !.pc = "dead"]
    <2>1. /\ an.pc = "record" /\ UNCHANGED <<rows, appended, records, sunk, damage>>
          /\ anchor' = [anchor EXCEPT ![a] = new]
      BY <1>4 DEF AnchoringDies
    <2>2. Read(new) /\ new.pc = "dead" /\ new.commits = an.commits
      BY <1>0, <2>1 DEF Read, AnchorPlaces, Recorded
    <2>. HIDE DEF new
    <2>. QED
      BY <1>0, <2>1, <2>2, AnchoringMoves DEF Recorded
  <1>. QED
    BY <1>1, <1>2, <1>3, <1>4 DEF Anchoring

LEMMA EditKeepsIInv ==
    ASSUME IInv, NEW i \in 1..Len(rows), EditRow(i)
    PROVE  IInv'
  <1>1. /\ Stream(rows) /\ Len(rows) \in Nat /\ Row(rows[i])
        /\ rows = [j \in 1..Len(rows) |-> rows[j]]
    BY StreamDomain DEF IInv, StreamsAre, Stream, List
  <1>2. PICK s : rows' = [rows EXCEPT ![i] = s] /\ Row(s)
    <2>1. CASE \E p \in Columns : rows' = [rows EXCEPT ![i].columns = p]
      <3>1. PICK p \in Columns : rows' = [rows EXCEPT ![i].columns = p]
        BY <2>1
      <3>. DEFINE s == [rows[i] EXCEPT !.columns = p]
      <3>2. rows' = [rows EXCEPT ![i] = s]
        BY <3>1
      <3>3. Row(s)
        BY <1>1 DEF Row
      <3>. HIDE DEF s
      <3>. QED
        BY <3>2, <3>3
    <2>2. CASE \E j \in 0..Len(rows) :
                  rows' = [rows EXCEPT ![i].prevHash = PrevHash(rows, j + 1)]
      <3>1. PICK j \in 0..Len(rows) :
                  rows' = [rows EXCEPT ![i].prevHash = PrevHash(rows, j + 1)]
        BY <2>2
      <3>. DEFINE s == [rows[i] EXCEPT !.prevHash = PrevHash(rows, j + 1)]
      <3>2. rows' = [rows EXCEPT ![i] = s]
        BY <3>1
      <3>3. Row(s)
        BY <1>1 DEF Row
      <3>. HIDE DEF s
      <3>. QED
        BY <3>2, <3>3
    <2>3. CASE rows' = [rows EXCEPT ![i].entryHash = Forged]
      <3>. DEFINE s == [rows[i] EXCEPT !.entryHash = Forged]
      <3>2. rows' = [rows EXCEPT ![i] = s]
        BY <2>3
      <3>3. Row(s)
        BY <1>1 DEF Row
      <3>. HIDE DEF s
      <3>. QED
        BY <3>2, <3>3
    <2>4. CASE \E p \in Columns : rows' = [rows EXCEPT ![i] = NewRow(@.prevHash, i, p)]
      <3>1. PICK p \in Columns : rows' = [rows EXCEPT ![i] = NewRow(@.prevHash, i, p)]
        BY <2>4
      <3>. DEFINE s == NewRow(rows[i].prevHash, i, p)
      <3>2. rows' = [rows EXCEPT ![i] = s]
        BY <3>1
      <3>3. Row(s)
        BY NewRowIs
      <3>. HIDE DEF s
      <3>. QED
        BY <3>2, <3>3
    <2>. QED
      BY <2>1, <2>2, <2>3, <2>4 DEF EditRow
  <1>3. /\ Stream(rows') /\ Len(rows') = Len(rows)
        /\ \A j \in 1..Len(rows) : rows'[j] = IF j = i THEN s ELSE rows[j]
    BY <1>1, <1>2, Replacing
  <1>4. Damaged /\ Len(rows') <= Len(rows)
    BY <1>1, <1>3 DEF EditRow
  <1>. QED
    BY <1>3, <1>4, DamagingMoves

LEMMA LoseKeepsIInv ==
    ASSUME IInv, NEW i \in 1..Len(rows), LoseTail(i)
    PROVE  IInv'
  <1>1. Stream(rows) /\ Len(rows) \in Nat /\ i - 1 \in 0..Len(rows) /\ i - 1 <= Len(rows)
    BY StreamDomain DEF IInv, StreamsAre
  <1>2. /\ Stream(rows') /\ Len(rows') = i - 1
        /\ \A j \in 1..(i - 1) : rows'[j] = rows[j]
    BY <1>1, Prefix DEF LoseTail
  <1>. QED
    BY <1>1, <1>2, DamagingMoves DEF LoseTail

LEMMA RewriteKeepsIInv ==
    ASSUME IInv, NEW i \in 1..Len(rows), RewriteFrom(i)
    PROVE  IInv'
  <1>1. PICK p \in Columns :
            /\ Damaged
            /\ rows' = Chain(i, p)[Len(rows)]
    BY DEF RewriteFrom
  <1>2. Stream(rows) /\ Len(rows) \in Nat
    BY StreamDomain DEF IInv, StreamsAre
  <1>3. Stream(rows') /\ Len(rows') = Len(rows)
    BY <1>1, <1>2, ChainIs
  <1>4. Len(rows') <= Len(rows)
    BY <1>2, <1>3
  <1>. QED
    BY <1>1, <1>3, <1>4, DamagingMoves

LEMMA NextKeepsIInv == IInv /\ [Next]_vars => IInv'
  <1>. SUFFICES ASSUME IInv, [Next]_vars PROVE IInv'
    OBVIOUS
  <1>1. CASE \E p \in Columns : AppendCommit(p)
    BY <1>1, AppendKeepsIInv
  <1>2. CASE \E a \in Anchorings : Anchoring(a)
    BY <1>2, AnchoringKeepsIInv
  <1>3. CASE Damaging
    <2>1. PICK i \in DOMAIN rows : EditRow(i) \/ LoseTail(i) \/ RewriteFrom(i)
      BY <1>3 DEF Damaging
    <2>2. i \in 1..Len(rows)
      BY StreamDomain DEF IInv, StreamsAre
    <2>. QED
      BY <2>1, <2>2, EditKeepsIInv, LoseKeepsIInv, RewriteKeepsIInv
  <1>4. CASE UNCHANGED vars
    BY <1>4 DEF vars, IInv, StreamsAre, AnchoringsAre, RecordsAre, Intact,
                Begins, Read, RootOf, VerifyChain, BrokenAt, BrokenLink, BrokenEntry, PrevHash
  <1>. QED
    BY <1>1, <1>2, <1>3, <1>4 DEF Next

THEOREM IInvAlways == Spec => []IInv
  BY InitIInv, NextKeepsIInv, PTL DEF Spec

-----------------------------------------------------------------------------
\* The types hold, and no record is left of a root the sink never took:
\* anchor_commits tells the sink first.
THEOREM AuditInvAlways == Spec => []AuditInv
  <1>1. IInv => AuditInv
    <2>. SUFFICES ASSUME IInv PROVE AuditInv
      OBVIOUS
    <2>1. TypeOK
      <3>1. \A i \in DOMAIN rows : rows[i].columns \in Columns
        BY StreamDomain DEF IInv, StreamsAre, Stream, Row
      <3>2. \A a \in Anchorings : anchor[a].pc \in AnchorPlaces
        BY DEF IInv, AnchoringsAre, Read
      <3>3. ASSUME NEW a \in DOMAIN records PROVE records[a].version \in 1..MaxVersion
        <4>1. a \in Anchorings /\ anchor[a].pc \in Recorded
          BY DEF IInv, RecordsAre
        <4>2. Read(anchor[a])
          BY <4>1 DEF IInv, AnchoringsAre
        <4>3. /\ Len(anchor[a].commits) \in Nat /\ Len(anchor[a].commits) >= 1
              /\ Len(anchor[a].commits) <= MaxVersion
          BY <4>1, <4>2, StreamDomain DEF Read
        <4>4. records[a].version = Len(anchor[a].commits)
          BY DEF IInv, RecordsAre
        <4>. QED
          BY <4>3, <4>4, BoundsAssumption
      <3>4. DOMAIN records = {a \in Anchorings : anchor[a].pc \in Recorded}
        BY DEF IInv, RecordsAre
      <3>. QED
        BY <3>1, <3>2, <3>3, <3>4 DEF TypeOK, IInv, StreamsAre
    <2>2. RecordsAreSunk
      BY DEF RecordsAreSunk, IInv, RecordsAre, AnchoringsAre
    <2>. QED
      BY <2>1, <2>2 DEF AuditInv
  <1>. QED
    BY <1>1, IInvAlways, PTL

\* verify_chain stops at a row that was changed, before it or at the next one, but
\* where the hash was computed again and nothing after it was appended to the old
\* one; and neither it nor verify_anchor complains of a stream that nothing but the
\* log has written.
THEOREM VerificationExactAlways == Spec => []VerificationExact
  <1>1. IInv => EditsAreFound
    <2>. SUFFICES ASSUME IInv, NEW v \in DOMAIN rows, Changed(v), v \notin BrokenAt(rows)
                  PROVE  /\ rows[v].entryHash # appended[v].entryHash
                         /\ \/ v = Len(rows)
                            \/ v + 1 \in BrokenAt(rows)
                            \/ Changed(v + 1)
                            \/ appended[v + 1].prevHash # appended[v].entryHash
      <3>1. ASSUME NEW v \in DOMAIN rows, v \in BrokenAt(rows)
            PROVE  \E i \in BrokenAt(rows) : i <= v
        <4>1. v \in 1..Len(rows) /\ Len(rows) \in Nat
          BY StreamDomain DEF IInv, StreamsAre
        <4>2. v <= v
          BY <4>1
        <4>. QED
          BY <3>1, <4>2
      <3>. QED
        BY <3>1 DEF EditsAreFound
    <2>1. /\ Stream(rows) /\ Stream(appended) /\ DOMAIN rows = 1..Len(rows)
          /\ Len(rows) \in Nat /\ Len(appended) \in Nat /\ Len(rows) <= Len(appended)
      BY StreamDomain DEF IInv, StreamsAre
    <2>2. v \in 1..Len(rows) /\ v \in 1..Len(appended) /\ v \in Nat
      BY <2>1
    <2>3. rows[v].entryHash = <<rows[v].prevHash, v, Joined[rows[v].columns]>>
      BY DEF BrokenAt, BrokenEntry, ComputeEntryHash
    <2>4. appended[v].entryHash = <<appended[v].prevHash, v, Joined[appended[v].columns]>>
      BY <2>2 DEF IInv, StreamsAre
    <2>5. \A u \in 1..Len(rows) : Row(rows[u]) /\ Row(appended[u])
      <3>1. \A u \in 1..Len(rows) : u \in 1..Len(appended)
        BY <2>1
      <3>. QED
        BY <2>1, <3>1 DEF Stream
    <2>6. rows[v].entryHash # appended[v].entryHash
      <3>. SUFFICES ASSUME rows[v].entryHash = appended[v].entryHash PROVE FALSE
        OBVIOUS
      <3>1. /\ rows[v].prevHash = appended[v].prevHash
            /\ Joined[rows[v].columns] = Joined[appended[v].columns]
        <4>1. PICK h, g, c, d : /\ h = rows[v].prevHash /\ c = Joined[rows[v].columns]
                                /\ g = appended[v].prevHash /\ d = Joined[appended[v].columns]
          OBVIOUS
        <4>2. <<h, v, c>> = <<g, v, d>>
          BY <2>3, <2>4, <4>1
        <4>3. h = g /\ c = d
          BY <4>2
        <4>. QED
          BY <4>1, <4>3
      <3>2. Covered(rows[v]) = Covered(appended[v])
        BY <2>2, <2>5, <3>1, CoveredIs
      <3>. QED
        BY <3>2 DEF Changed
    <2>7. ASSUME v # Len(rows), v + 1 \notin BrokenAt(rows), ~Changed(v + 1)
          PROVE  appended[v + 1].prevHash # appended[v].entryHash
      <3>1. v + 1 \in 1..Len(rows) /\ v + 1 # 1 /\ (v + 1) - 1 = v
        BY <2>1, <2>2, <2>7
      <3>2. rows[v + 1].prevHash = rows[v].entryHash
        BY <2>1, <2>7, <3>1 DEF BrokenAt, BrokenLink, PrevHash
      <3>3. Row(rows[v + 1]) /\ Row(appended[v + 1])
        BY <2>5, <3>1
      <3>4. Covered(rows[v + 1]).prevHash = Covered(appended[v + 1]).prevHash
        BY <2>7 DEF Changed
      <3>5. rows[v + 1].prevHash = appended[v + 1].prevHash
        BY <3>3, <3>4, CoveredIs
      <3>. QED
        BY <2>6, <3>2, <3>5
    <2>. QED
      BY <2>6, <2>7
  <1>2. IInv => IntactVerifies
    <2>. SUFFICES ASSUME IInv, damage = 0, NEW a \in DOMAIN records
                  PROVE  VerifyAnchor(records[a])
      BY DEF IntactVerifies, IInv, Intact
    <2>. DEFINE c == anchor[a].commits
    <2>1. /\ a \in Anchorings /\ records[a].version = Len(c)
          /\ records[a].root = ComputeMerkleRoot(EntryHashes(c))
      BY DEF IInv, RecordsAre, RootOf
    <2>2. Stream(c) /\ Len(c) \in Nat /\ Begins(c) /\ Stream(rows) /\ Len(rows) \in Nat
      BY <2>1, StreamDomain DEF IInv, AnchoringsAre, Read, Intact, StreamsAre
    <2>. HIDE DEF c
    <2>3. Len(c) <= Len(rows) /\ Len(c) \in 0..Len(rows)
      BY <2>2 DEF Begins
    <2>4. /\ Stream(SubSeq(rows, 1, Len(c))) /\ Len(SubSeq(rows, 1, Len(c))) = Len(c)
          /\ \A i \in 1..Len(c) : SubSeq(rows, 1, Len(c))[i] = rows[i]
      BY <2>2, <2>3, Prefix
    <2>5. c = SubSeq(rows, 1, Len(c))
      BY <2>2, <2>4, SameStream DEF Begins
    <2>. QED
      BY <2>1, <2>2, <2>3, <2>5 DEF VerifyAnchor
  <1>. QED
    BY <1>1, <1>2, IInvAlways, PTL DEF VerificationExact

\* What verify_anchor vouches for, however the hashes were rewritten: the rows
\* read like those that anchor_commits read.
THEOREM AnchoredHistoryStandsAlways == Spec => []AnchoredHistoryStands
  <1>1. IInv => AnchoredHistoryStands
    <2>. SUFFICES ASSUME IInv, NEW a \in DOMAIN records,
                         VerifyChain(anchor[a].commits), VerifyChain(rows),
                         VerifyAnchor(records[a])
                  PROVE  AsCovered(anchor[a].commits)
                           = AsCovered(SubSeq(rows, 1, records[a].version))
      BY DEF AnchoredHistoryStands
    <2>. DEFINE c == anchor[a].commits
                t == SubSeq(rows, 1, Len(c))
    <2>1. /\ a \in Anchorings /\ anchor[a].pc \in Recorded
          /\ records[a].version = Len(c)
          /\ records[a].root = ComputeMerkleRoot(EntryHashes(c))
      BY DEF IInv, RecordsAre, RootOf
    <2>2. /\ Stream(c) /\ Len(c) \in Nat /\ Len(c) >= 1
          /\ Stream(rows) /\ Len(rows) \in Nat
      BY <2>1, StreamDomain DEF IInv, AnchoringsAre, Read, StreamsAre
    <2>3. /\ Len(c) \in 0..Len(rows)
          /\ ComputeMerkleRoot(EntryHashes(t)) = ComputeMerkleRoot(EntryHashes(c))
      BY <2>1, <2>2 DEF VerifyAnchor
    <2>4. VerifyChain(c)
      OBVIOUS
    <2>. HIDE DEF c
    <2>6. Stream(t) /\ Len(t) = Len(c) /\ VerifyChain(t)
      BY <2>2, <2>3, Prefix, PrefixVerifies
    <2>. HIDE DEF t
    <2>7. AsCovered(c) = AsCovered(t)
      BY <2>2, <2>3, <2>4, <2>6, RootNamesRows
    <2>. QED
      BY <2>1, <2>7 DEF c, t
  <1>. QED
    BY <1>1, IInvAlways, PTL

\* No two histories that verify have one root, whatever their lengths.
THEOREM RootNamesHistoryAlways == Spec => []RootNamesHistory
  <1>1. IInv => RootNamesHistory
    <2>. SUFFICES ASSUME IInv, NEW a \in Anchorings, NEW b \in Anchorings,
                         anchor[a].commits # << >>, VerifyChain(anchor[a].commits),
                         anchor[b].commits # << >>, VerifyChain(anchor[b].commits),
                         RootOf(a) = RootOf(b)
                  PROVE  AsCovered(anchor[a].commits) = AsCovered(anchor[b].commits)
      BY DEF RootNamesHistory
    <2>1. ASSUME NEW q, Stream(q), q # << >> PROVE Len(q) >= 1
      <3>1. Len(q) \in Nat
        BY <2>1, StreamDomain
      <3>2. Len(q) # 0
        BY <2>1, EmptyStream, SameStream
      <3>. QED
        BY <3>1, <3>2
    <2>2. Stream(anchor[a].commits) /\ Stream(anchor[b].commits)
      BY DEF IInv, AnchoringsAre, Read
    <2>3. Len(anchor[a].commits) >= 1 /\ Len(anchor[b].commits) >= 1
      BY <2>1, <2>2
    <2>. QED
      BY <2>2, <2>3, RootNamesRows DEF RootOf
  <1>. QED
    BY <1>1, IInvAlways, PTL
=============================================================================
